-------------------------- MODULE MCBridgeProgress ---------------------------
(***************************************************************************)
(* What must happen in the end, in the parts of the bridge that make such a*)
(* promise, and how the errors on their way are judged.  The parts share no*)
(* state, so a behaviour is one of a single part, the scene, while the     *)
(* others rest.                                                            *)
(***************************************************************************)
EXTENDS AutoBackend, SessionPool, Serving, Cli, ErrorPolicy

CONSTANTS r1, q1, q2, c1, k1, NoRun, NoRequest, NoCred, NoContract

VARIABLES scene, run, held, parks, request, revoked, down, reading, readingHeld

R == INSTANCE CursorRun WITH
        Runs <- {r1}, Requests <- {q1, q2}, Streaming <- {q1, q2}, Creds <- {c1},
        Contracts <- {k1}, Capacity <- 1, Parallel <- TRUE, MaxToolCalls <- 0,
        MaxSlots <- 2, req <- request

runVars == <<run, held, parks, request, revoked, down, reading, readingHeld>>
progressVars == <<scene, vars, poolVars, servingVars, cliVars, runVars, error>>

\* Of each type of detail, what its readers tell apart.
MCDetails == {d \in [type : {"none", "provider", "billing", "cooldown", "other",
                              "broken", "foreign"},
                    retryable : {"unset", "yes", "no"}, status : {"none", "400", "503"}] :
    CASE d.type = "provider" -> \/ d.status = "503" \/ d.retryable = "no"
                                \/ d.retryable = "unset" /\ d.status = "none"
      [] d.type = "none" -> d.retryable = "no" /\ d.status = "503"
      [] d.type = "other" -> <<d.retryable, d.status>> \in {<<"no", "none">>, <<"yes", "503">>}
      [] d.type \in {"foreign", "cooldown"} -> d.retryable = "no" /\ d.status = "none"
      [] d.type \in {"billing", "broken"} -> d.retryable = "unset" /\ d.status = "none"}

ProgressInit ==
    /\ scene \in {"auto", "pool", "serving", "cli", "run", "errors"}
    /\ Init /\ PoolInit /\ ServingInit /\ CliInit /\ R!Init /\ ErrorInit
    \* What the initial states of a part differ in is fixed while it rests.
    /\ scene = "auto" \/ usable
    /\ scene = "serving" \/ \A q \in Calls :
         /\ call[q].key = CHOOSE k \in ApiClients : TRUE
         /\ call[q].model = DefaultModel /\ ~call[q].stream
    /\ scene = "cli" \/ workspaceMode = CHOOSE m \in WorkspaceModes : TRUE
    /\ scene = "errors" \/ error = <<Plain("plain", "neutral")>>

ProgressNext ==
    /\ UNCHANGED scene
    /\ \/ /\ scene = "auto" /\ Next
          /\ UNCHANGED <<poolVars, servingVars, cliVars, runVars, error>>
       \/ /\ scene = "pool" /\ PoolNext
          /\ UNCHANGED <<vars, servingVars, cliVars, runVars, error>>
       \/ /\ scene = "serving" /\ ServingNext
          /\ UNCHANGED <<vars, poolVars, cliVars, runVars, error>>
       \/ /\ scene = "cli" /\ CliNext
          /\ UNCHANGED <<vars, poolVars, servingVars, runVars, error>>
       \/ /\ scene = "run" /\ R!Next
          /\ UNCHANGED <<vars, poolVars, servingVars, cliVars, error>>
       \/ /\ scene = "errors" /\ ErrorNext
          /\ UNCHANGED <<vars, poolVars, servingVars, cliVars, runVars>>

\* Fairness of AutoBackend, whose requests may always begin, in its own scene.
AutoFairness ==
    /\ \A q \in Requests : /\ WF_vars(scene = "auto" /\ Start(q))
                            /\ WF_vars(scene = "auto" /\ Finish(q))
    /\ WF_vars(scene = "auto" /\ ProbeSettles)
    /\ WF_vars(scene = "auto" /\ ProbeCleared)
    /\ WF_vars(scene = "auto" /\ Tick)

ProgressSpec ==
    /\ ProgressInit
    /\ [][ProgressNext]_progressVars
    /\ AutoFairness /\ PoolFairness /\ ServingFairness /\ CliFairness /\ R!Fairness

RunsEnd == R!RunsEnd
=============================================================================
