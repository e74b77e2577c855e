--------------------------- MODULE Gokrb5Provider ---------------------------
(***************************************************************************)
(* Gokrb5TokenProvider (internal/proxy/auth_gokrb5.go): tokens from a      *)
(* password, with a cached ticket client and the lockout guard that stops  *)
(* logins once the KDC has rejected the password.  The actors are the      *)
(* sessions calling GetToken, the goroutine that repeats the rejection     *)
(* warning, main calling Close, the operator editing the password file,    *)
(* and the KDC.  All of the provider runs under p.mu, but the operator     *)
(* and the KDC do not: the file may change between the guard's read of it  *)
(* and the login's.                                                        *)
(*                                                                         *)
(* A password is a model value and its HMAC fingerprint the value itself,  *)
(* so fingerprints collide for equal passwords only.  The TGT's lifetime   *)
(* is reduced to whether ticketRefreshAt is still ahead.  version numbers  *)
(* the contents the password file has had.                                 *)
(***************************************************************************)
EXTENDS Naturals

CONSTANTS Callers,       \* goroutines calling GetToken
          NoCaller,      \* the owner of a free mutex
          Passwords,     \* password values
          NoPassword,    \* the zeroed fingerprint, and the cleared stdin password
          MaxEdits       \* bound on the edits of the password file

ASSUME ProviderAssumption ==
    /\ NoCaller \notin Callers
    /\ NoPassword \notin Passwords
    /\ MaxEdits \in Nat

VARIABLES mu,                   \* p.mu: its owner, or NoCaller
          pc,                   \* where each caller is in GetToken
          login,                \* the password a caller has read for its login, and its version
          ret,                  \* what a caller's last GetToken returned
          closed,               \* p.closed
          closing,              \* main has called Close, which has not returned
          ticketClient,         \* p.ticketClient with p.ticketRefreshAt
          passwordRejected,     \* p.passwordRejected
          rejectedFingerprint,  \* p.rejectedFingerprint
          ticker,               \* p.rejectWarnTicker
          tick,                 \* a value waits in ticker.C
          stop,                 \* p.rejectWarnStop
          warner,               \* the goroutine repeatPasswordRejectionWarnings
          passwordFile,         \* -password-file is given
          password,             \* content of the password file, or p.stdinPassword
          readable,             \* can the password file be opened with its mode
          version,              \* which content of the file this is
          kdcPassword,          \* the password the KDC accepts
          lastRejected          \* the newest version the KDC has rejected, 0 if none

closeVars == <<closed, closing>>
guardVars == <<passwordRejected, rejectedFingerprint, ticker, tick, stop>>
worldVars == <<passwordFile, password, readable, version, kdcPassword>>
vars == <<mu, pc, login, ret, closeVars, ticketClient, guardVars, warner, worldVars, lastRejected>>

NoLogin == [password |-> NoPassword, version |-> 0]

-----------------------------------------------------------------------------
\* NewGokrb5TokenProvider has read the password once, so it is readable.
Init ==
    /\ mu = NoCaller
    /\ pc = [c \in Callers |-> "idle"]
    /\ login = [c \in Callers |-> NoLogin]
    /\ ret = [c \in Callers |-> "none"]
    /\ closed = FALSE
    /\ closing = FALSE
    /\ ticketClient = "nil"
    /\ passwordRejected = FALSE
    /\ rejectedFingerprint = NoPassword
    /\ ticker = "nil"
    /\ tick = FALSE
    /\ stop = "nil"
    /\ warner = "none"
    /\ passwordFile \in BOOLEAN
    /\ password \in Passwords
    /\ readable = TRUE
    /\ version = 1
    /\ kdcPassword \in Passwords
    /\ lastRejected = 0

\* A typed password is always there; a file is opened and its mode checked.
ReadPasswordFails == passwordFile /\ ~readable

StopTicker == ticker' = "stopped" /\ tick' = FALSE

LiftedWhenUnreadable == ReadPasswordFails \/ password # rejectedFingerprint

\* checkPasswordRejected with passwordRejected set: the guard is lifted when the
\* password reads as a different one, and stays when it cannot be read.
Lifted == ~ReadPasswordFails /\ password # rejectedFingerprint

LiftGuard ==
    /\ passwordRejected' = FALSE
    /\ StopTicker
    /\ UNCHANGED <<rejectedFingerprint, stop>>

\* GetToken returns result and the deferred Unlock runs.
ReturnToken(c, result) ==
    /\ ret' = [ret EXCEPT ![c] = result]
    /\ pc' = [pc EXCEPT ![c] = "idle"]
    /\ login' = [login EXCEPT ![c] = NoLogin]
    /\ mu' = NoCaller

-----------------------------------------------------------------------------
Call(c) ==
    /\ pc[c] = "idle"
    /\ pc' = [pc EXCEPT ![c] = "lock"]
    /\ ret' = [ret EXCEPT ![c] = "none"]
    /\ UNCHANGED <<mu, login, closeVars, ticketClient, guardVars, warner, worldVars, lastRejected>>

Acquire(c) ==
    /\ pc[c] = "lock"
    /\ mu = NoCaller
    /\ mu' = c
    /\ pc' = [pc EXCEPT ![c] = "check"]
    /\ UNCHANGED <<login, ret, closeVars, ticketClient, guardVars, warner, worldVars, lastRejected>>

RefuseHoldingMu(c) ==
    /\ pc[c] = "check"
    /\ closed \/ (passwordRejected /\ ~Lifted)
    /\ ret' = [ret EXCEPT ![c] = "credential"]
    /\ pc' = [pc EXCEPT ![c] = "idle"]
    /\ UNCHANGED <<mu, login, closeVars, ticketClient, guardVars, warner, worldVars, lastRejected>>

\* GetToken refuses: the provider is closed, or checkPasswordRejected fails
\* because the password is the rejected one or cannot be read.
Refuse(c) ==
    /\ pc[c] = "check"
    /\ closed \/ (passwordRejected /\ ~Lifted)
    /\ ReturnToken(c, "credential")
    /\ UNCHANGED <<closeVars, ticketClient, guardVars, warner, worldVars, lastRejected>>

PassGuardIgnoringClosed(c) ==
    /\ pc[c] = "check"
    /\ passwordRejected => Lifted
    /\ IF passwordRejected THEN LiftGuard ELSE UNCHANGED guardVars
    /\ pc' = [pc EXCEPT ![c] = "ticket"]
    /\ UNCHANGED <<mu, login, ret, closeVars, ticketClient, warner, worldVars, lastRejected>>

\* GetToken goes on: no rejection stands, or the password has changed since.
PassGuard(c) ==
    /\ pc[c] = "check"
    /\ ~closed
    /\ passwordRejected => Lifted
    /\ IF passwordRejected THEN LiftGuard ELSE UNCHANGED guardVars
    /\ pc' = [pc EXCEPT ![c] = "ticket"]
    /\ UNCHANGED <<mu, login, ret, closeVars, ticketClient, warner, worldVars, lastRejected>>

\* ticketGrantingClient reuses the cached client while its TGT has lifetime left.
ReuseTicket(c) ==
    /\ pc[c] = "ticket"
    /\ ticketClient = "fresh"
    /\ pc' = [pc EXCEPT ![c] = "context"]
    /\ UNCHANGED <<mu, login, ret, closeVars, ticketClient, guardVars, warner, worldVars, lastRejected>>

BeginLoginAnyway(c) ==
    /\ pc[c] = "ticket"
    /\ ~ReadPasswordFails
    /\ login' = [login EXCEPT ![c] = [password |-> password, version |-> version]]
    /\ pc' = [pc EXCEPT ![c] = "exchange"]
    /\ UNCHANGED <<mu, ret, closeVars, ticketClient, guardVars, warner, worldVars, lastRejected>>

\* ticketGrantingClient reads the password for a login and sends it to the KDC.
BeginLogin(c) ==
    /\ pc[c] = "ticket"
    /\ ticketClient # "fresh"
    /\ ~ReadPasswordFails
    /\ login' = [login EXCEPT ![c] = [password |-> password, version |-> version]]
    /\ pc' = [pc EXCEPT ![c] = "exchange"]
    /\ UNCHANGED <<mu, ret, closeVars, ticketClient, guardVars, warner, worldVars, lastRejected>>

PasswordUnavailable(c) ==
    /\ pc[c] = "ticket"
    /\ ticketClient # "fresh"
    /\ ReadPasswordFails
    /\ ReturnToken(c, "credential")
    /\ UNCHANGED <<closeVars, ticketClient, guardVars, warner, worldVars, lastRejected>>

\* The KDC grants a TGT: the new ticket-cache client replaces the old one.
LoginSucceeds(c) ==
    /\ pc[c] = "exchange"
    /\ login[c].password = kdcPassword
    /\ ticketClient' = "fresh"
    /\ pc' = [pc EXCEPT ![c] = "context"]
    /\ login' = [login EXCEPT ![c] = NoLogin]
    /\ UNCHANGED <<mu, ret, closeVars, guardVars, warner, worldVars, lastRejected>>

\* rejectPassword: record the password that was sent, and (re)start the warnings.
RejectPassword(c) ==
    /\ passwordRejected' = TRUE
    /\ rejectedFingerprint' = login[c].password
    /\ ticker' = "running"
    /\ tick' = FALSE
    /\ IF ticker # "nil" THEN UNCHANGED <<stop, warner>>
                         ELSE stop' = "open" /\ warner' = "select"

\* The KDC answers KDC_ERR_PREAUTH_FAILED.
LoginRejected(c) ==
    /\ pc[c] = "exchange"
    /\ login[c].password # kdcPassword
    /\ RejectPassword(c)
    /\ lastRejected' = login[c].version
    /\ ReturnToken(c, "credential")
    /\ UNCHANGED <<closeVars, ticketClient, worldVars>>

\* Any other failure of acquireCredential: no KDC, an error reply, a bad ticket.
LoginFails(c) ==
    /\ pc[c] = "exchange"
    /\ ReturnToken(c, "credential")
    /\ UNCHANGED <<closeVars, ticketClient, guardVars, warner, worldVars, lastRejected>>

\* InitSecContext and Marshal with the ticket client, which holds no password.
InitSecContext(c, ok) ==
    /\ pc[c] = "context"
    /\ ReturnToken(c, IF ok THEN "token" ELSE "negotiation")
    /\ UNCHANGED <<closeVars, ticketClient, guardVars, warner, worldVars, lastRejected>>

-----------------------------------------------------------------------------
TicketRefreshDue ==
    /\ ticketClient = "fresh"
    /\ ticketClient' = "stale"
    /\ UNCHANGED <<mu, pc, login, ret, closeVars, guardVars, warner, worldVars, lastRejected>>

TickerFires ==
    /\ ticker = "running"
    /\ ~tick
    /\ tick' = TRUE
    /\ UNCHANGED <<mu, pc, login, ret, closeVars, ticketClient, passwordRejected,
                   rejectedFingerprint, ticker, stop, warner, worldVars, lastRejected>>

\* repeatPasswordRejectionWarnings waits in its select for a tick or for stop.
WarnerTicks ==
    /\ warner = "select"
    /\ tick
    /\ tick' = FALSE
    /\ warner' = "lock"
    /\ UNCHANGED <<mu, pc, login, ret, closeVars, ticketClient, passwordRejected,
                   rejectedFingerprint, ticker, stop, worldVars, lastRejected>>

WarnerStops ==
    /\ warner = "select"
    /\ stop = "closed"
    /\ warner' = "exited"
    /\ UNCHANGED <<mu, pc, login, ret, closeVars, ticketClient, guardVars, worldVars, lastRejected>>

WarnerOnlyWarns ==
    /\ warner = "lock"
    /\ mu = NoCaller
    /\ UNCHANGED guardVars
    /\ warner' = "select"
    /\ UNCHANGED <<mu, pc, login, ret, closeVars, ticketClient, worldVars, lastRejected>>

\* After a tick it takes p.mu, re-checks the password and warns again.
WarnerRechecks ==
    /\ warner = "lock"
    /\ mu = NoCaller
    /\ IF ~closed /\ passwordRejected /\ Lifted THEN LiftGuard ELSE UNCHANGED guardVars
    /\ warner' = "select"
    /\ UNCHANGED <<mu, pc, login, ret, closeVars, ticketClient, worldVars, lastRejected>>

CallClose ==
    /\ ~closing
    /\ closing' = TRUE
    /\ UNCHANGED <<mu, pc, login, ret, closed, ticketClient, guardVars, warner, worldVars, lastRejected>>

CloseKeepsTicker ==
    /\ closing
    /\ mu = NoCaller
    /\ closed' = TRUE
    /\ closing' = FALSE
    /\ ticketClient' = "nil"
    /\ IF ticker # "nil" THEN ticker' = "stopped" /\ stop' = "closed" ELSE UNCHANGED <<ticker, stop>>
    /\ tick' = FALSE
    /\ rejectedFingerprint' = NoPassword
    /\ password' = IF passwordFile THEN password ELSE NoPassword
    /\ UNCHANGED <<mu, pc, login, ret, passwordRejected, warner, passwordFile, readable,
                   version, kdcPassword, lastRejected>>

\* Close gets p.mu.  It may be called again: the ticker's nil value keeps the
\* second call from closing rejectWarnStop twice.
Close ==
    /\ closing
    /\ mu = NoCaller
    /\ closed' = TRUE
    /\ closing' = FALSE
    /\ ticketClient' = "nil"
    /\ stop' = IF ticker # "nil" THEN "closed" ELSE stop
    /\ ticker' = "nil"
    /\ tick' = FALSE
    /\ rejectedFingerprint' = NoPassword
    /\ password' = IF passwordFile THEN password ELSE NoPassword
    /\ UNCHANGED <<mu, pc, login, ret, passwordRejected, warner, passwordFile, readable,
                   version, kdcPassword, lastRejected>>

-----------------------------------------------------------------------------
(* The operator writes the password file, its mode changes, and the        *)
(* account's password changes at the KDC.                                  *)

EditPasswordFile(w) ==
    /\ passwordFile
    /\ w # password
    /\ version <= MaxEdits
    /\ password' = w
    /\ version' = version + 1
    /\ UNCHANGED <<mu, pc, login, ret, closeVars, ticketClient, guardVars, warner, passwordFile,
                   readable, kdcPassword, lastRejected>>

ChmodPasswordFile ==
    /\ passwordFile
    /\ readable' = ~readable
    /\ UNCHANGED <<mu, pc, login, ret, closeVars, ticketClient, guardVars, warner, passwordFile,
                   password, version, kdcPassword, lastRejected>>

RotateAccountPassword(w) ==
    /\ w # kdcPassword
    /\ kdcPassword' = w
    /\ UNCHANGED <<mu, pc, login, ret, closeVars, ticketClient, guardVars, warner, passwordFile,
                   password, readable, version, lastRejected>>

-----------------------------------------------------------------------------
\* What a caller does once it owns p.mu.
Step(c) ==
    \/ Refuse(c)
    \/ PassGuard(c)
    \/ ReuseTicket(c)
    \/ BeginLogin(c)
    \/ PasswordUnavailable(c)
    \/ LoginSucceeds(c)
    \/ LoginRejected(c)
    \/ LoginFails(c)
    \/ \E ok \in BOOLEAN : InitSecContext(c, ok)

Warner == WarnerTicks \/ WarnerStops \/ WarnerRechecks

World ==
    \/ TicketRefreshDue
    \/ TickerFires
    \/ \E w \in Passwords : EditPasswordFile(w) \/ RotateAccountPassword(w)
    \/ ChmodPasswordFile

Next ==
    \/ \E c \in Callers : Call(c) \/ Acquire(c) \/ Step(c)
    \/ Warner
    \/ CallClose
    \/ Close
    \/ World

Spec == Init /\ [][Next]_vars

(* The runtime schedules the warner and fires a running ticker; a caller   *)
(* that owns p.mu goes on, since gokrb5 puts a deadline on KDC exchanges;  *)
(* a starving waiter for p.mu is handed it.  Nobody has to call GetToken.  *)
Fairness ==
    /\ WF_vars(TickerFires)
    /\ WF_vars(WarnerTicks \/ WarnerStops)
    /\ SF_vars(WarnerRechecks)
    /\ SF_vars(Close)
    /\ \A c \in Callers : WF_vars(Step(c))

FairSpec == Spec /\ Fairness

-----------------------------------------------------------------------------
\* The variables keep their types.
TypeOK ==
    /\ mu \in Callers \cup {NoCaller}
    /\ pc \in [Callers -> {"idle", "lock", "check", "ticket", "exchange", "context"}]
    /\ login \in [Callers -> [password : Passwords \cup {NoPassword}, version : Nat]]
    /\ ret \in [Callers -> {"none", "token", "credential", "negotiation"}]
    /\ closed \in BOOLEAN
    /\ closing \in BOOLEAN
    /\ ticketClient \in {"nil", "fresh", "stale"}
    /\ passwordRejected \in BOOLEAN
    /\ rejectedFingerprint \in Passwords \cup {NoPassword}
    /\ ticker \in {"nil", "running", "stopped"}
    /\ tick \in BOOLEAN
    /\ stop \in {"nil", "open", "closed"}
    /\ warner \in {"none", "select", "lock", "exited"}
    /\ passwordFile \in BOOLEAN
    /\ password \in Passwords \cup {NoPassword}
    /\ readable \in BOOLEAN
    /\ version \in Nat
    /\ kdcPassword \in Passwords
    /\ lastRejected \in Nat

\* The lockout guard: whatever the operator does to the file between the guard's
\* read and the login's, no content of it is sent to the KDC again once the KDC
\* has rejected it, so a failed login costs an edit (auth_gokrb5.go:344-347).
LockoutGuard ==
    \A c \in Callers : pc[c] = "exchange" => login[c].version > lastRejected

\* The ticker runs exactly while a rejection stands, its goroutine is started once,
\* and Close leaves neither: checkPasswordRejected never stops a nil ticker and
\* Close never closes rejectWarnStop twice (auth_gokrb5.go:311-317, 362, 390-394).
WarningsFollowRejection ==
    /\ ~closed => /\ passwordRejected <=> ticker = "running"
                  /\ ticker = "nil" <=> warner = "none"
                  /\ ticker = "nil" <=> stop = "nil"
    /\ closed => ticker = "nil" /\ stop # "open"

\* The guard never withholds a ticket that is still good, and it never logs in
\* while one is: a rejection can stand only when the cached TGT is due for
\* replacement (auth_gokrb5.go:218-233).
NoGoodTicketWithheld ==
    (ticketClient = "fresh" => ~passwordRejected)
    /\ (closed => ticketClient = "nil")

\* Once Close has returned, no caller is logging in or using the ticket client,
\* in particular with the cleared stdin password (auth_gokrb5.go:191-193).
ClosedIsQuiet ==
    closed => \A c \in Callers : pc[c] \in {"idle", "lock", "check"}

\* A corrected password is noticed without any client traffic: a rejection does
\* not stand forever while the password reads as another one
\* (auth_gokrb5.go:346-347).
CorrectionNoticed ==
    []<>(passwordRejected /\ ~closed => ~Lifted)

\* Close gets through: behind a KDC exchange in flight, against callers that keep
\* coming and whatever way they return, it takes p.mu, and the warning goroutine
\* ends after it (auth_gokrb5.go:382-400).
CloseReturns == closing ~> (closed /\ warner \in {"none", "exited"})
=============================================================================
