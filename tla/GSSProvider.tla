----------------------------- MODULE GSSProvider -----------------------------
(***************************************************************************)
(* The native token provider (internal/proxy/auth_gss_darwin.go and        *)
(* gss_darwin.c).  GetToken calls acquire_spnego_token under g.mu; the C   *)
(* code obtains four GSS-API objects one after the other and has to give   *)
(* each back on whichever path it leaves, and it collects the messages of  *)
(* a failure in a buffer of fixed size, counting in size_t.                *)
(***************************************************************************)
EXTENDS Integers

CONSTANTS BufLen,     \* the size of the message buffer
          Lengths,    \* the lengths a status message can have
          WordSize    \* size_t counts modulo WordSize

ASSUME BufferAssumption ==
    /\ BufLen \in Nat /\ BufLen >= 2
    /\ Lengths \subseteq Nat
    /\ WordSize \in Nat /\ WordSize > BufLen

VARIABLES pc,
          held,    \* what has been obtained and not given back
          failed,  \* the call that failed
          minor,   \* the failure has a minor status
          part,    \* the status whose messages are being appended
          offset,  \* how much of the buffer is filled
          ret      \* what GetToken returned

vars == <<pc, held, failed, minor, part, offset, ret>>

Init ==
    /\ pc = "idle"
    /\ held = {}
    /\ failed = "none"
    /\ minor = FALSE
    /\ part = "major"
    /\ offset = 0
    /\ ret = "none"

\* GetToken copies the service name for C.
GetToken ==
    /\ pc = "idle"
    /\ pc' = "import"
    /\ held' = {"cspn"}
    /\ failed' = "none"
    /\ ret' = "none"
    /\ UNCHANGED <<minor, part, offset>>

\* gss_import_name, gss_acquire_cred and gss_init_sec_context in turn.  A context
\* is completed at once or left open for a challenge; it may yield no token.
Proceed(call, gains, next) ==
    /\ pc = call
    /\ pc' = next
    /\ held' = held \cup gains
    /\ UNCHANGED <<failed, minor, part, offset, ret>>

\* GSS_ERROR(major): format_gss_error starts.  A failed gss_init_sec_context may
\* have created its context.
Fail(call, gains) ==
    /\ pc = call
    /\ pc' = "format"
    /\ held' = held \cup gains
    /\ failed' = call
    /\ minor' \in BOOLEAN
    /\ part' = "major"
    /\ offset' = 0
    /\ UNCHANGED ret

-----------------------------------------------------------------------------
(* append_status_messages, one message at a time.                          *)

SeparatorTooLate == IF offset > 0 /\ offset < BufLen - 1 THEN offset + 2 ELSE offset

\* "; " is put between messages if it leaves room.
Separated == IF offset > 0 /\ offset < BufLen - 2 THEN offset + 2 ELSE offset

\* buflen - *offset - 1 in size_t
Room == LET n == BufLen - Separated - 1 IN IF n >= 0 THEN n ELSE n + WordSize

AppendMessage(length, more) ==
    /\ pc = "format"
    /\ offset' = Separated + IF length < Room THEN length ELSE Room
    /\ IF more /\ offset' < BufLen - 1
       THEN UNCHANGED <<pc, part>>
       ELSE IF part = "major" /\ minor
            THEN part' = "minor" /\ pc' = pc
            ELSE pc' = "formatted" /\ UNCHANGED part
    /\ UNCHANGED <<held, failed, minor, ret>>

ReleaseForgettingName ==
    [import |-> {}, acquire |-> {}, init |-> {"cred", "name", "context"}]

\* What the error path of each call gives back.
Release ==
    [import |-> {}, acquire |-> {"name"}, init |-> {"cred", "name", "context"}]

\* The message is terminated, the objects are released, and GetToken reports a
\* CredentialError; its deferred free takes the copy of the name.
ReturnError ==
    /\ pc = "formatted"
    /\ held' = (held \ Release[failed]) \ {"cspn"}
    /\ ret' = "CredentialError"
    /\ pc' = "idle"
    /\ UNCHANGED <<failed, minor, part, offset>>

-----------------------------------------------------------------------------
\* The context is there: the credential is released, and the token copied if there
\* is one and memory for it.
CopyToken(allocated) ==
    /\ pc = "copy"
    /\ allocated => "output" \in held
    /\ held' = (held \ {"cred", "output", "name", "context"}) \cup IF allocated THEN {"data"} ELSE {}
    /\ failed' = IF "output" \in held /\ ~allocated THEN "malloc" ELSE "none"
    /\ pc' = "encode"
    /\ UNCHANGED <<minor, part, offset, ret>>

\* GetToken encodes the token, or reports what kept it from one.
Encode ==
    /\ pc = "encode"
    /\ ret' = IF failed = "malloc" THEN "CredentialError"
              ELSE IF "data" \in held THEN "token" ELSE "NegotiationError"
    /\ held' = held \ {"data", "cspn"}
    /\ pc' = "idle"
    /\ UNCHANGED <<failed, minor, part, offset>>

Work ==
    \/ Proceed("import", {"name"}, "acquire")
    \/ Proceed("acquire", {"cred"}, "init")
    \/ \E output \in {{}, {"output"}} : Proceed("init", {"context"} \cup output, "copy")
    \/ \E call \in {"import", "acquire"} : Fail(call, {})
    \/ \E context \in {{}, {"context"}} : Fail("init", context)
    \/ \E length \in Lengths, more \in BOOLEAN : AppendMessage(length, more)
    \/ ReturnError
    \/ \E allocated \in BOOLEAN : CopyToken(allocated)
    \/ Encode

Next == GetToken \/ Work

Spec == Init /\ [][Next]_vars

-----------------------------------------------------------------------------
TypeOK ==
    /\ pc \in {"idle", "import", "acquire", "init", "format", "formatted", "copy", "encode"}
    /\ held \subseteq {"cspn", "name", "cred", "context", "output", "data"}
    /\ failed \in {"none", "import", "acquire", "init", "malloc"}
    /\ minor \in BOOLEAN
    /\ part \in {"major", "minor"}
    /\ offset \in Nat
    /\ ret \in {"none", "token", "CredentialError", "NegotiationError"}

\* Every call gives back all it obtained, on each of the paths out of
\* acquire_spnego_token and GetToken, so that a proxy that retries for days
\* (NewNativeTokenProvider) loses no memory.
NothingHeld == pc = "idle" => held = {}

\* format_gss_error writes inside its buffer, whatever the number and the length of
\* the messages: the terminator too has its place, and buflen - *offset - 1 never
\* wraps.
WithinBuffer == offset < BufLen

\* The most that can be held at each point; a failure can hold what its error path
\* releases.
MayHold ==
    /\ pc = "idle" => held = {}
    /\ pc = "import" => held \subseteq {"cspn"}
    /\ pc = "acquire" => held \subseteq {"cspn", "name"}
    /\ pc = "init" => held \subseteq {"cspn", "name", "cred"}
    /\ pc = "copy" => held \subseteq {"cspn", "name", "cred", "context", "output"}
    /\ pc = "encode" => held \subseteq {"cspn", "data"}
    /\ pc \in {"format", "formatted"} =>
         /\ failed \in {"import", "acquire", "init"}
         /\ held \subseteq {"cspn"} \cup Release[failed]

IInv == TypeOK /\ WithinBuffer /\ MayHold
=============================================================================
