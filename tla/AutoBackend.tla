----------------------------- MODULE AutoBackend ------------------------------
(***************************************************************************)
(* AutoCursorBackend (auto-runtime.ts): requests go to cursor-api, or to   *)
(* cursor-cli while cursor-api rests after failures; when its cooldown is  *)
(* over one request starts a re-probe and all that arrive meanwhile share  *)
(* it.                                                                     *)
(*                                                                         *)
(* An action is the code between two awaits.  The clock is ticks until the *)
(* cooldown is over; the failure count is capped at the threshold, the     *)
(* only value it is compared with.  Whether cursor-api is usable is up to  *)
(* the environment: a call that was under way while it was not may fail.   *)
(***************************************************************************)
EXTENDS Naturals

CONSTANTS
    Requests,        \* calls of complete, completeStream, listModels and health
    FatalThreshold,  \* CURSOR_BRIDGE_AUTO_FATAL_THRESHOLD
    Cooldown,        \* CURSOR_BRIDGE_AUTO_COOLDOWN_MS, in ticks
    Cli,             \* an executable of the fallback was found
    Startup,         \* the backend createConfiguredBackend begins with
    NoCooldown       \* cooldownUntil = undefined

ASSUME AutoAssumption ==
    /\ FatalThreshold \in Nat \ {0} /\ Cooldown \in Nat \ {0}
    /\ Cli \in BOOLEAN
    /\ Startup \in {"api", "cli"} /\ (Startup = "cli" => Cli)
    /\ NoCooldown \notin Nat

VARIABLES
    active,     \* the backend of new requests
    fatal,      \* consecutiveFatal
    cooldown,   \* ticks until cooldownUntil
    reprobe,    \* none, pending, or settled but not yet cleared
    probes,     \* calls of api.probe that have not returned
    req,        \* what each request does: waiting for the re-probe, woken, ...
    usable,     \* cursor-api is usable
    hurt        \* the calls that met a cursor-api that was not

vars == <<active, fatal, cooldown, reprobe, probes, req, usable, hurt>>

Init ==
    /\ active = Startup
    /\ fatal = 0
    /\ cooldown = NoCooldown
    /\ reprobe = "none" /\ probes = 0
    /\ req = [q \in Requests |-> "idle"]
    /\ usable \in BOOLEAN
    /\ hurt = {}

-----------------------------------------------------------------------------
(* backendForRequest                                                       *)

\* Mutant: the re-probe does not await the end of the cooldown.
ReprobeDue_Early == Cli /\ active = "cli" /\ cooldown # NoCooldown

\* The cooldown of the fallback is over.
ReprobeDue == Cli /\ active = "cli" /\ cooldown = 0

Send(q, backend) ==
    /\ req' = [req EXCEPT ![q] = backend]
    /\ hurt' = IF backend = "api" /\ ~usable THEN hurt \cup {q} ELSE hurt \ {q}

Begin(q) ==
    /\ req[q] = "idle"
    /\ ~ReprobeDue
    /\ Send(q, active)
    /\ UNCHANGED <<active, fatal, cooldown, reprobe, probes, usable>>

\* Mutant: each request sends a probe of its own.
BeginReprobe_Unshared(q) ==
    /\ req[q] = "idle"
    /\ ReprobeDue
    /\ req' = [req EXCEPT ![q] = "waiting"]
    /\ reprobe' = "pending"
    /\ probes' = probes + 1
    /\ hurt' = IF usable THEN hurt ELSE hurt \cup {"probe"}
    /\ UNCHANGED <<active, fatal, cooldown, usable>>

\* The cooldown is over: the request waits for the re-probe, the first one sends it.
BeginReprobe(q) ==
    /\ req[q] = "idle"
    /\ ReprobeDue
    /\ req' = [req EXCEPT ![q] = "waiting"]
    /\ IF reprobe = "none"
       THEN /\ reprobe' = "pending"
            /\ probes' = probes + 1
            /\ hurt' = IF usable THEN hurt ELSE hurt \cup {"probe"}
       ELSE UNCHANGED <<reprobe, probes, hurt>>
    /\ UNCHANGED <<active, fatal, cooldown, usable>>

ProbeReturns ==
    /\ reprobe = "pending"
    /\ reprobe' = "settled"
    /\ probes' = probes - 1
    /\ hurt' = hurt \ {"probe"}
    /\ UNCHANGED <<req, usable>>

\* then
ProbeSucceeds ==
    /\ usable
    /\ ProbeReturns
    /\ active' = "api" /\ fatal' = 0 /\ cooldown' = NoCooldown

\* Mutant: the failed probe leaves no cooldown behind.
ProbeFails_NoCooldown ==
    /\ "probe" \in hurt
    /\ ProbeReturns
    /\ cooldown' = NoCooldown
    /\ UNCHANGED <<active, fatal>>

\* Mutant: the probe has no timeout.
ProbeFails_NoTimeout ==
    /\ "probe" \in hurt /\ usable
    /\ ProbeReturns
    /\ cooldown' = Cooldown
    /\ UNCHANGED <<active, fatal>>

\* catch: an error, or the timeout of the probe
ProbeFails ==
    /\ "probe" \in hurt
    /\ ProbeReturns
    /\ cooldown' = Cooldown
    /\ UNCHANGED <<active, fatal>>

\* finally, and the requests that await the re-probe
ProbeCleared ==
    /\ reprobe = "settled"
    /\ reprobe' = "none"
    /\ req' = [q \in Requests |-> IF req[q] = "waiting" THEN "woken" ELSE req[q]]
    /\ UNCHANGED <<active, fatal, cooldown, probes, usable, hurt>>

Resume(q) ==
    /\ req[q] = "woken"
    /\ Send(q, active)
    /\ UNCHANGED <<active, fatal, cooldown, reprobe, probes, usable>>

-----------------------------------------------------------------------------
(* recordResult                                                            *)

Ends(q) ==
    /\ req' = [req EXCEPT ![q] = "idle"]
    /\ hurt' = hurt \ {q}
    /\ UNCHANGED <<reprobe, probes, usable>>

\* It answers, or fails in a way that says nothing of cursor-api.
Ordinary(q) ==
    /\ req[q] = "api"
    /\ fatal' = 0
    /\ Ends(q) /\ UNCHANGED <<active, cooldown>>

\* Mutant: the active backend is switched, and no cooldown begins.
Fail_NoCooldown(q, kind) ==
    LET count == IF kind = "transport" /\ fatal < FatalThreshold
                 THEN fatal + 1 ELSE FatalThreshold
    IN  /\ req[q] = "api" /\ q \in hurt
        /\ fatal' = count
        /\ active' = IF count = FatalThreshold /\ Cli THEN "cli" ELSE active
        /\ UNCHANGED cooldown
        /\ Ends(q)

\* A transport failure counts one, an authentication or protocol failure all.
Fail(q, kind) ==
    LET count == IF kind = "transport" /\ fatal < FatalThreshold
                 THEN fatal + 1 ELSE FatalThreshold
    IN  /\ req[q] = "api" /\ q \in hurt
        /\ fatal' = count
        /\ IF count = FatalThreshold /\ Cli
           THEN active' = "cli" /\ cooldown' = Cooldown
           ELSE UNCHANGED <<active, cooldown>>
        /\ Ends(q)

\* Nothing is recorded: cursor-cli answered, or it was health, or the client
\* left a stream.
Unrecorded(q) ==
    /\ req[q] \in {"api", "cli"}
    /\ Ends(q) /\ UNCHANGED <<active, fatal, cooldown>>

-----------------------------------------------------------------------------
(* The clock and cursor-api                                                *)

Tick ==
    /\ cooldown # NoCooldown /\ cooldown > 0
    /\ cooldown' = cooldown - 1
    /\ UNCHANGED <<active, fatal, reprobe, probes, req, usable, hurt>>

Up ==
    /\ ~usable
    /\ usable' = TRUE
    /\ UNCHANGED <<active, fatal, cooldown, reprobe, probes, req, hurt>>

Down ==
    /\ usable
    /\ usable' = FALSE
    /\ hurt' = {q \in Requests : req[q] = "api"}
                 \cup IF reprobe = "pending" THEN {"probe"} ELSE {}
    /\ UNCHANGED <<active, fatal, cooldown, reprobe, probes, req>>

-----------------------------------------------------------------------------
Start(q) == Begin(q) \/ BeginReprobe(q) \/ Resume(q)

Finish(q) ==
    \/ Ordinary(q)
    \/ \E kind \in {"transport", "auth"} : Fail(q, kind)
    \/ Unrecorded(q)

ProbeSettles == ProbeSucceeds \/ ProbeFails

Next ==
    \/ \E q \in Requests : Start(q) \/ Finish(q)
    \/ ProbeSettles
    \/ ProbeCleared
    \/ Tick
    \/ Up
    \/ Down

Spec == Init /\ [][Next]_vars

\* Requests keep coming, calls of the backends and probes return (each has a
\* timeout), promise reactions run, and the clock does not stop.
Fairness ==
    /\ \A q \in Requests : WF_vars(Start(q)) /\ WF_vars(Finish(q))
    /\ WF_vars(ProbeSettles)
    /\ WF_vars(ProbeCleared)
    /\ WF_vars(Tick)

FairSpec == Spec /\ Fairness

-----------------------------------------------------------------------------
(* What the switch must keep.                                              *)

\* Every variable has its type.
TypeOK ==
    /\ active \in {"api", "cli"}
    /\ fatal \in 0..FatalThreshold
    /\ cooldown \in (0..Cooldown) \cup {NoCooldown}
    /\ reprobe \in {"none", "pending", "settled"}
    /\ probes \in Nat
    /\ req \in [Requests -> {"idle", "waiting", "woken", "api", "cli"}]
    /\ usable \in BOOLEAN
    /\ hurt \subseteq Requests \cup {"probe"}

\* Whoever is served by the fallback has an end of the cooldown to wait for, and
\* no cooldown outlives the return to cursor-api: the two fields that failures,
\* probes and late answers write at different times always agree.
FallbackIsTemporary ==
    Startup = "api" => (active = "cli" <=> cooldown # NoCooldown)

\* The requests that arrive when the cooldown is over share one probe.
OneProbe == probes <= 1

\* The switch is a breaker: while cursor-api rests only a probe reaches it, after
\* a whole cooldown, and only a successful probe puts it back.
breakerState ==
    IF active = "api" THEN "closed" ELSE IF reprobe = "pending" THEN "halfopen" ELSE "open"

Breaker ==
    INSTANCE CircuitBreaker WITH
        Rest <- Cooldown, MayOpen <- Cli, state <- breakerState,
        rest <- IF breakerState = "open" THEN cooldown ELSE 0

ImplementsBreaker == Breaker!Spec

\* Once cursor-api stays usable, requests return to it for good.
Recovers == <>[]usable => <>[](active = "api")

\* A request that waits for the re-probe is served.
ReprobeIsAnswered ==
    \A q \in Requests : req[q] = "waiting" ~> req[q] \in {"api", "cli"}
=============================================================================
