# A TLA+ model of spnego-proxy

spnego-proxy is an HTTP forward proxy that adds SPNEGO (Kerberos) authentication
towards an upstream proxy. These modules model it from the command line to the
exit: how tokens are obtained without locking the account, how a client connection
is admitted, served and shut down, how requests are routed and rewritten, how a
request and its response cross, and how a tunnel ends. Paths below are relative to
`src/`; `internal/proxy/` is left out.

Every definition stands for lines of the code, which `PROJECT.json` ("map") names.
The repository also keeps models of its own under `formal/`; nothing here depends on
them.

## The system and its parts

| Part | Source | Modules |
|---|---|---|
| Start-up | `main.go`, `cli.go` | `Startup`, `Process`, `ProcessProofs` (partly, see Not modelled) |
| Accept loop and shutdown | `server.go`, `main.go` | `Serve`, `Process`, `ProcessProofs` |
| Client allowlist | `config.go`, `forward.go` | `AllowList`, `HostRouting`, `RequestProofs` |
| Client session | `forward.go`, `direct.go`, `session.go` | `ClientSession`, `SessionLife`, `ClientSessionProofs` |
| Host routing, noproxy matcher | `direct.go`, `noproxy.go`, `forward.go` | `HostRouting`, `RequestProofs` |
| Request headers | `headers.go`, `forward.go` | `Headers`, `RequestProofs` |
| Circuit breaker | `circuit_breaker.go` | `CircuitBreaker`, `LoginBudget`, `CircuitBreakerProofs` |
| gokrb5 provider | `auth_gokrb5.go` | `Gokrb5Provider`, `TokenAcquisitionProofs` |
| Breaker around provider | `cli.go` `buildProvider` | `TokenAcquisition`, `TokenAcquisitionProofs` |
| GSS-API provider (macOS) | `auth_gss_darwin.go`, `gss_darwin.c` | `GSSProvider`, `NativeSession`, `NativeSessionProofs` |
| Dialling, CONNECT set-up, error replies | `dial.go`, `forward.go`, `direct.go`, `connect.go`, `errors_proxy.go` | `Establish`, `NativeSession`, `NativeSessionProofs` |
| Request/response exchange | `response.go` | `ExchangeRequest`, `ResponseProofs` |
| Response validation | `response.go` | `ResponseStream`, `ResponseProofs` |
| CONNECT tunnel | `connect.go`, `tunnel_write*.go` | `Tunnel`, `TunnelProofs` |
| Version string | `version.go` | none |

`main` reads the flags, builds the token provider, listens and calls `Serve`.
`Serve` accepts connections through `netutil.LimitListener` and starts one
`handleClientCtx` per connection. That checks the allowlist and then reads requests
in a loop. Each is validated, routed and rewritten; a connection to the upstream
proxy is dialled with a token. A routed request is one `exchangeRequest`, or one
`forwardTunnel` for CONNECT. Cancelling the context stops the accept loop and wakes
idle sessions.

Four modules tie components together. `TokenAcquisition` is the gokrb5 provider
called through the breaker. `NativeSession` is the set-up of a connection with a
token from the GSS-API provider. `Process` is start-up followed by `Serve`.
`SessionLife` is the promise of a session: `Serve` relies on it, `ClientSession`
implements it.

## Modules

**CircuitBreaker.** `pc[c]` follows a caller through `GetToken`: `Call`, `Acquire`
(`mu.Lock`), `Admit` or `Refuse` (the front of `cb.Execute`), `Return` (its end, and
the deferred unlock). gobreaker is external and modelled as the wrapper configures
it; a generation number is reduced to `current[c]`, whether the generation that
admitted `c` is still the current one. `LoginBudget` is the promise: a budget of
failures that attempts under way can never overspend.

**Gokrb5Provider.** `GetToken` under `p.mu`, split where the outside world can move:
the guard's read of the password file (`Refuse`, `PassGuard`), the login's own read
(`BeginLogin`) and the KDC's verdict. The warning goroutine, `Close`, the operator
and the KDC are actors of their own. A fingerprint is the password itself, a ticket
is fresh or due for replacement. `passwordFile` says where the password comes from.

**TokenAcquisition.** Extends the provider and instantiates the breaker; an admitted
call is a call of the provider, and its result is what the breaker records.

**GSSProvider.** `acquire_spnego_token` call by call, with the set `held` of what
must be given back, and the message buffer counted in `size_t` (`% WordSize`).

**Establish.** Token, dial, TLS handshake, CONNECT request and its answer, each of
which may fail or never come. Where the token comes from is left to `NativeSession`.

**ClientSession.** `readRequest` is modelled at the grain of its critical sections
(`ReadCheck`, `ReadIdle`, `ReadGets`, `ReadBusy`) because the shutdown watcher
(`WatcherWakes`, `BeginShutdown`) interleaves with them. `ReadReturns` covers both
loops, `run` and `nextDirectRequest`. Set-up, exchange and tunnel are open steps:
they take time and end in any way the code allows.

**HostRouting.** The four readers of a host text (matcher, `sameHost`, `dialDirect`,
CONNECT port check) over the requests of one session. `ClientSession` takes hosts as
canonical, and this module is why it may. `Connect` is the allowlist check.

**AllowList.** `ParseAllowList` and `ipAllowed` over addresses as bit strings.
`NamedBy` is the reference: the addresses an entry names. Zones are left out.

**Headers.** A request passes this proxy and others, possibly back here; a header is
a function from field names to lines. Other proxies are taken to do what RFC 9110
asks of them: they keep the Via that came in and append to it, on its last line or on
a line of their own. Behind one that drops Via nobody could see a loop.

**ExchangeRequest.** The upload goroutine, the reader and `exchangeRequest`'s own
decisions (`Poll`, `CancelUpload`, `Join`), with the three connection deadlines
through which they wake each other.

**ResponseStream.** What the upstream sends as heads and body bytes, what
`readUpstreamResponse` makes of them, and what the next request finds. The answer to
a HEAD, a 204 and a 304 have no body, whatever their heads say, and so may be relayed
with a length. `response.go:196` removes a Content-Length beside a Transfer-Encoding
only if `Header.Get` finds one. An empty first line would hide a second from it; that
no such head gets there is `EmptyLength`, the rejection of an empty length by
`http.ReadResponse`. `RelayedIsDelimited` does not hold without it.

**Tunnel.** Two directions around one lock-free clock, modelled at its atomic
operations, with or without an idle timeout and with a plain or a TLS peer.
Timestamps are kept as ages capped at the timeout, so that time can pass for ever in
finitely many states. `idle` and `remaining` both run `quietFor` and are one action
sequence.

**Startup, Serve, Process.** `main`'s steps up to `Serve` with each failure; the
accept goroutine, the slots of the limit, the sessions as idle or busy; the drain
and the exit.

## Runs

| Run | Instance | Distinct states | Shows |
|---|---|---|---|
| `breaker` | 3 callers, threshold 2 | 956 | no result escapes the count, the login budget is kept, every call returns |
| `token_acquisition` | 1 caller, 2 passwords, 2 edits, file or typed | 36,732 | the guard, the warnings, Close, recovery through guard, open circuit and probe |
| `session` | 3 hosts, 13 requests, 4 per connection | 10,600 | shutdown, routing, validation, reuse, refinement of `SessionLife`, the watcher ends |
| `host_routing` | 5 names, 4 noproxy lists, 2- and 4-bit addresses | 11,848 | clients admitted and requests routed as they are named |
| `headers` | 2 other proxies, 3 Connection options | 138,848 | loops are broken, the proxy's own fields arrive |
| `native_session` | buffer of 9, 1 interim answer | 32,540 | nothing left open or allocated, one final answer, the dial ends |
| `exchange` | 2 interim responses | 2,470 | upload and response race |
| `early_response` | 1 interim response | violated | see Findings |
| `response_stream` | 3 exchanges, HEAD or not, binary lengths in 2 bits | 26,363 | the reader stays aligned and waits for no body that will not come, what is relayed is delimited |
| `tunnel` | timeout of 3 ticks | 17,363 | clock, idle detection, half-close, teardown |
| `tunnel_limited` | client end without CloseWrite | violated | see Findings |
| `process` | 3 clients, 2 slots, thresholds around 2 bits | 32,384 | slots, drain, exit, threshold conversion |

Bounds, and why they are enough for the cases of interest:

- Three callers: one inside, one waiting, one arriving. Two failures to trip: one
  that trips and one that does not.
- Two passwords and two edits allow a rejection, a correction and a relapse.
  `token_acquisition` has one caller because its fairness conditions multiply with
  callers. The breaker lets one caller into the provider at a time; the run keeps
  the caller, the warning goroutine, `Close`, the operator and the KDC, and its
  safety properties are proved for any number of callers.
- Four requests on one connection allow direct, another host directly, upstream
  and direct again. Two of the three hosts bypass the upstream proxy, so a
  connection can be bound to the wrong one.
- Host names have one inside the domain of another and an address of each family;
  there is a pattern of every form. Addresses of two bits inside four, every
  prefix length and every single entry reach each form `ipAllowed` tells apart.
- A path of three proxies is long enough to come back here over two others.
- A buffer of nine with messages of 0, 1, 3 and 10 bytes is filled exactly, nearly
  and too early. 16 stands for 2^64, so an underflow is visible.
- Two bits stand for 64 in a length and for 32 in the threshold; both can overflow.
- Three clients for two slots make one wait. The backoff uses the real 5 ms and 1 s.
- Three ticks leave room for a byte to move between the load of a timestamp and
  the reading of the time.

Deadlock is checked where the system never stops, and switched off where it ends
(a finished session, exchange, tunnel or process) or where a request has arrived.

## Fairness

The proxy's own goroutines are weakly fair. Mutex acquisition is strongly fair since
Go's mutex hands over to a starving waiter. A read or write returns once its deadline
has passed or its connection is closed; the drain timeout, the dial timeout and the
ticker fire. Nothing is assumed of clients, upstreams or tunnel peers, and `DialEnds`
claims an end only where a dial timeout is set. A call of the GSS-API or of gokrb5
is assumed to end, which rests on their network timeouts.

`Recovers` has two premises: the file comes to hold the right password, and not the
one rejected last, for good; and clients go on asking. Its fairness also assumes that
a KDC asked again and again does not fail each time for another reason than the
password. If the account is set back to the rejected value instead, the guard stands
until the file changes.

## What is proved

Every safety property that a passing run checks is also a theorem, proved by TLAPS for
every value of the constants that satisfies the named assumptions of the modules.

| Theorem | Property | Assumptions |
|---|---|---|
| `EveryResultIsCounted`, `BreakerKeepsLoginBudget` | `EveryResultCounts`, refinement of `LoginBudget` | any callers, threshold > 0 |
| `RejectedIsNotResent`, `WarningsAreExact`, `GoodTicketsAreUsed`, `QuietAfterClose` | `LockoutGuard`, `WarningsFollowRejection`, `NoGoodTicketWithheld`, `ClosedIsQuiet` | any callers, passwords and number of edits |
| `BreakerCannotWedge`, `AcquisitionIsGuarded`, `AcquisitionKeepsBudget` | `NeverWedgedHalfOpen`, the four above and the refinement of `LoginBudget`, of the composition | both of the above |
| `NoLostWakeUp`, `SessionKeepsPromise` | `ShutdownWakesReader`, refinement of `SessionLife` | any requests and hosts, any number of requests |
| `RoutedByPolicy`, `RequestsAreValidatedOnce`, `FailedIsNotReused`, `SessionIsTyped` | `PolicyRouting`, `ValidatedOnce`, `NoReuseAfterFailure`, `TypeOK` | the same |
| `SlotsAreExact`, `DrainIsFinal`, `ProcessServes` | `SlotsAccountedFor`, `NoSessionAfterDrain` | any finite set of clients, any limit |
| `ThresholdIsKept` | `BreakerAsAsked` | any flag values, any integer width |
| `EverythingIsReleased`, `MessagesStayInBuffer`, `SessionReleasesProvider` | `NothingHeld`, `WithinBuffer`, of the provider and of a set-up around it | buffer of 2 bytes or more, smaller than the word; any lengths |
| `SetUpIsWhole` | `WholeOutcome` | the same, any number of interim answers |
| `ClientsAreAdmittedAsNamed` | `AdmitsAsNamed` | addresses of any length, a mapped prefix that ends in a one, any lists |
| `RequestsGoAsNamed`, `TunnelPortsAreChecked` | `RoutedAsNamed`, `TunnelPortAllowed` | any names, patterns, ports and requests |
| `LoopsAreBroken`, `OwnFieldsAlwaysArrive` | `LoopIsBroken`, `OwnFieldsArrive` | any other proxies that keep and extend Via, none of which has this one's pseudonym; any options and path length |
| `ExchangeReturnsClean` | `ReturnIsClean` | any number of interim responses |
| `ReaderStaysAligned`, `RelayedStaysDelimited` | `ReaderAligned`, `RelayedIsDelimited` | any heads, digits, integer width and number of exchanges |
| `ClockHoldsLatestMove`, `IdlenessIsReal` | `ClockIsExact`, `IdleIsReal` | any timeout |
| `HalfCloseIsKept` | `EndIsPassedOn` | both ends have CloseWrite |

Few of these properties are inductive as they stand. The strengthenings:

- **Breaker.** It must be known that nobody else is inside the provider when the
  circuit changes state. `IInv` says that `mu` is owned exactly between `Acquire`
  and the return, that a closed circuit is below its threshold, that a half-open one
  has its probe under way and an open one has nobody inside. At most one caller is
  then inside, so the attempts in flight that the refinement counts are 0 or 1.
- **Provider.** `GuardKnows` relates the guard to the file: while a rejection stands
  and the rejected content is still there, its fingerprint is the guard's; without
  a rejection the content is newer than the last rejected one. `LoginIsOfVersion`
  carries this over the gap between the guard's read and the login's.
- **Composition.** Every step of `TokenAcquisition` is a step, or a stutter, of the
  provider and one of the breaker, so both invariants and the refinement carry over.
  `CInv` adds that a caller the breaker has admitted is inside the provider.
- **Session.** `ShutdownInv` ties `mu` and `idle` to the program counter: a watcher
  past `beginShutdown` has seen `idle`, or the read will see the cancellation.
  `RoutingInv` keeps a direct connection to hosts -noproxy matches, `RewriteInv`
  says how far the request has been rewritten at each point, and `SpoiledInv` that a
  session that spoiled a connection is on its way out. `TypeInv` adds to the types
  where a request is known and how its Proxy-Authorization field may look there.
- **Process.** `Slots` also says that only accepted connections were closed, without
  which a close could give a slot back twice. `Drain` orders the accept loop, the
  waiter, the outcome and the provider's Close. For the threshold, the flags that
  passed `validateFlags` fit the width, so the conversion to it is the identity.
- **GSS-API provider and set-up.** `MayHold` says what can be held at each step of the
  provider. `Outcome` follows the connection, the replies and the other side's consent
  through the stages of the set-up, and `Calls` says when the provider is running.
- **Allowlist.** No induction: two lemmas say when prefixes of two addresses agree
  (`PrefixAgree`) and what `To4` makes of each form. Each kind of entry (single
  address or block, short or long) is then compared with the addresses it names.
- **Hosts.** Lemmas say what lower-casing, splitting, stripping and joining do to the
  fields of a text; matcher, `sameHost` and `dialDirect` are shown to read the same
  name, family and port from it. `RouteInv` says that an open direct connection leads
  to a host the policy sends there.
- **Headers.** `HInv` says that a request that has been here has the pseudonym in the
  first Via line, which is the one `validateRequest` looks at: other proxies append to
  the last line or after it, so the first keeps its entries. One that has not been here
  still has the client's end-to-end fields.
- **Exchange.** `Reported`, `Deadlines` and `Progress` follow the upload's report,
  the armed deadlines and the result up to the return.
- **Response stream.** `RInv` says what may be on the wire: nothing between exchanges,
  interim responses while an answer is owed, and then the answer followed by exactly
  the bytes its head can mean. `OneLength` shows that the lengths
  `validateResponseContentLength` accepts are one number, which is where the reader and
  the upstream come to agree on the end.
- **Tunnel.** A timestamp a touch has read is never newer than the latest byte, and
  while the clock lags behind that byte some touch is about to correct it
  (`ClockLags`). What `quietFor` has loaded is the clock unless it was touched since
  (`QuietIsSound`).

Only model-checked is liveness, which TLAPS does not reach: `EveryCallReturns`,
`CorrectionNoticed`, `CloseReturns`, `Recovers`, `ShutdownEndsIdleSession`, `WatcherEnds`,
`DialEnds`, `ExchangeEnds`, `TunnelEnds`, `ShutdownFinishes`. What the folds in `Number` and `Parts`
of `ResponseStream` compute would need induction over data; the theorems there do not
depend on it, they use only that both sides apply the same function.

## Findings

- **An early response may leave its connection in use** (`early_response`).
  `response.go:296-300` says that when the response beat the upload, "the connection
  must not be reused". The code marks the response only in the branch where the
  upload was still running at the `select`. If the upload completes after the
  final response was read but before the `select`, the first case is taken and
  `resp.Close` stays unset.
- **Half-close towards the client is lost under `-max-conns`** (`tunnel_limited`).
  `connect.go:199` promises "preserving half-close on normal EOF". The connections
  `netutil.LimitListener` returns have no `CloseWrite` method, and both `closeWrite`
  (`connect.go:28`) and `tunnelConn.CloseWrite` (`tunnel_write.go:93`) then do
  nothing and report success. The limit is on by default (`cli.go:67`). That the
  wrapper has no such method is a fact about `golang.org/x/net`, which is not part
  of the repository; the model takes it as the constant `CloseWriters`.

Noted while reading, without a run:

- `README.md:194-195` says an unparseable response "falls back to raw byte relay";
  `handleUpstreamResponseError` answers 502.
- `appendHeaderValue` (`headers.go:36-42`) keeps only the first Via line of a request
  that has several; `hop_by_hop_test.go:692-693` says that existing entries are kept.
- `dialDirect` (`direct.go:44-50`) brackets an IPv6 host without a port again when it
  is already bracketed, and the dial fails; in `HostRouting` this is `DialFails`.
- `enableKeepAlive` (`connect.go:18-23`) does nothing on a wrapped or TLS connection,
  so that the configured period applies to plain TCP only.

## Not modelled

- `version.go` formats a string.
- Flags that are copied into the configuration without a check, and wording, log
  lines and status texts. An allowlist that cannot be parsed is a failed
  `BuildConfig`; the allowlist of a session is chosen at `Connect`, since it is looked
  at once.
- The refusal of an empty pseudonym (`forward.go:159`): `main` always generates one.
- Kerberos, GSS-API and TLS messages: the model has the calls, their order and their
  outcomes. A token that a failing `gss_init_sec_context` may have produced is not
  among what is held. TLS records are reduced to reads that hold no data yet.
- IPv4-mapped addresses and zones in -noproxy patterns, and the zone of a link-local client
  address. `net.ParseIP` takes no zone (`forward.go:168`), so that such a client is
  refused whatever the list names.
- Which octets of a response head are forbidden: one flag of a head.
- Responses on the direct path, which `readUpstreamResponse` does not validate;
  `ResponseStream` is the upstream path.
- The exchange, the set-up and the tunnel inside `ClientSession`: there they are open
  steps, and their own modules say how they end. One composition of all of them would
  only multiply states, since they share no variable but the outcome.
- A deadline for a silent upstream on the synchronous path: the code has none, so no
  liveness is claimed there.
