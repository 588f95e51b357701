---------------------------- MODULE CircuitBreaker ----------------------------
(***************************************************************************)
(* What the automatic backend promises: a breaker in front of cursor-api.  *)
(* While it is open nothing is sent to cursor-api for a whole cooldown;    *)
(* the way back leads through one probe.                                   *)
(***************************************************************************)
EXTENDS Naturals

CONSTANTS
    Rest,      \* ticks of a cooldown, positive
    MayOpen    \* there is a backend to fall back to

VARIABLES
    state,     \* closed: cursor-api serves; open: it rests; halfopen: it is probed
    rest       \* ticks until it may be probed, 0 unless open

vars == <<state, rest>>

Init == state = "closed" /\ rest = 0

\* Enough failures of requests in hand.
Trip ==
    /\ MayOpen /\ state = "closed"
    /\ state' = "open" /\ rest' = Rest

\* A request from before the breaker opened fails too.
Extend ==
    /\ state = "open"
    /\ rest' = Rest /\ UNCHANGED state

Wait ==
    /\ state = "open" /\ rest > 0
    /\ rest' = rest - 1 /\ UNCHANGED state

Probe ==
    /\ state = "open" /\ rest = 0
    /\ state' = "halfopen" /\ UNCHANGED rest

ProbeSucceeds ==
    /\ state = "halfopen"
    /\ state' = "closed" /\ UNCHANGED rest

ProbeFails ==
    /\ state = "halfopen"
    /\ state' = "open" /\ rest' = Rest

Next == Trip \/ Extend \/ Wait \/ Probe \/ ProbeSucceeds \/ ProbeFails

Spec == Init /\ [][Next]_vars
=============================================================================
