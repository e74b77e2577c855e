------------------------------- MODULE Startup -------------------------------
(***************************************************************************)
(* From the command line to a serving proxy (main.go, cli.go).  main goes  *)
(* through its steps in order and exits at the first that fails.  Of the   *)
(* flags, those are kept that a check or a conversion looks at.  -cb-      *)
(* threshold is an int64 that the breaker stores in Width bits.            *)
(***************************************************************************)
EXTENDS Integers

CONSTANTS Width,       \* of the breaker's threshold; uint32 in the code
          Thresholds   \* the values -cb-threshold is given

VARIABLES stage,    \* where main is
          flags,    \* cliConfig
          exit,     \* the exit code, -1 while there is none
          breaker   \* the threshold the circuit breaker was built with

-----------------------------------------------------------------------------
CbThresholdMax == 2 ^ Width - 1

ValidateFlagsLoosely ==
    /\ flags.cbThreshold > 0 /\ flags.cbThreshold <= CbThresholdMax + 1
    /\ flags.cbTimeout > 0

ValidateFlags ==
    /\ flags.cbThreshold > 0 /\ flags.cbThreshold <= CbThresholdMax
    /\ flags.cbTimeout > 0

Init ==
    /\ stage = "parse"
    /\ flags \in [cbThreshold : Thresholds, cbTimeout : {0, 1}]
    /\ exit = -1
    /\ breaker = 0

Exit(code) ==
    /\ stage' = "exited"
    /\ exit' = code
    /\ UNCHANGED <<flags, breaker>>

\* fs.Parse fails: -help exits 0, anything else 2.
ParseFails(help) == stage = "parse" /\ Exit(IF help THEN 0 ELSE 2)

ShowVersion == stage = "parse" /\ Exit(0)

\* -addr or -proxy is missing, or validateFlags fails.
FlagsRefused(missing) ==
    /\ stage = "parse"
    /\ missing \/ ~ValidateFlags
    /\ Exit(1)

\* buildProvider converts the threshold to uint32.
BuildProvider ==
    /\ stage = "parse"
    /\ ValidateFlags
    /\ breaker' = flags.cbThreshold % 2 ^ Width
    /\ stage' = "listen"
    /\ UNCHANGED <<flags, exit>>

BuildProviderFails ==
    /\ stage = "parse"
    /\ ValidateFlags
    /\ Exit(1)

Listen ==
    /\ stage = "listen"
    /\ stage' = "config"
    /\ UNCHANGED <<flags, exit, breaker>>

ListenFails == stage = "listen" /\ Exit(1)

\* buildConfig, and signal.NotifyContext.
BuildConfig ==
    /\ stage = "config"
    /\ stage' = "serving"
    /\ UNCHANGED <<flags, exit, breaker>>

\* An entry of -allowed-ips or the CA file cannot be used.
BuildConfigFails == stage = "config" /\ Exit(1)

\* SIGINT kills the process until NotifyContext has been called (128 + 2 to a shell).
Killed == stage \in {"parse", "listen", "config"} /\ Exit(130)

\* Serve has returned, and main does.
Return == stage = "serving" /\ Exit(0)

Boot ==
    \/ \E help \in BOOLEAN : ParseFails(help)
    \/ ShowVersion
    \/ \E missing \in BOOLEAN : FlagsRefused(missing)
    \/ BuildProvider
    \/ BuildProviderFails
    \/ Listen
    \/ ListenFails
    \/ BuildConfig
    \/ BuildConfigFails
    \/ Killed
=============================================================================
