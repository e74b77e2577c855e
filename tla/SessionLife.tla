---------------------------- MODULE SessionLife ----------------------------
(***************************************************************************)
(* What the accept loop, the drain and the client may rely on in one       *)
(* session, whatever it carries: no request is taken up once shutdown has  *)
(* begun or the client has been told that the connection closes, only an   *)
(* idle connection is closed under a session, and a session that is over   *)
(* has closed its connection.  The actions are those of a session in       *)
(* module Serve.                                                           *)
(***************************************************************************)
VARIABLES ctxDone,  \* the context is cancelled
          life,     \* idle, busy with a request, or ended
          open,     \* the client connection
          told      \* the client has been told Connection: close

vars == <<ctxDone, life, open, told>>

Init ==
    /\ ctxDone \in BOOLEAN
    /\ life = "idle"
    /\ open = TRUE
    /\ told = FALSE

Cancel ==
    /\ ctxDone' = TRUE
    /\ UNCHANGED <<life, open, told>>

TakeUp ==
    /\ life = "idle" /\ open /\ ~told /\ ~ctxDone
    /\ life' = "busy"
    /\ UNCHANGED <<ctxDone, open, told>>

\* The request is answered, or given up; a refusal is also sent to an idle client.
Answer ==
    /\ life \in {"idle", "busy"}
    /\ life' = "idle"
    /\ told' \in {told, TRUE}
    /\ UNCHANGED <<ctxDone, open>>

WatcherCloses ==
    /\ ctxDone
    /\ life = "idle"
    /\ open' = FALSE
    /\ UNCHANGED <<ctxDone, life, told>>

End ==
    /\ life = "idle"
    /\ life' = "ended"
    /\ open' = FALSE
    /\ UNCHANGED <<ctxDone, told>>

Next == Cancel \/ TakeUp \/ Answer \/ WatcherCloses \/ End

Spec == Init /\ [][Next]_vars
=============================================================================
