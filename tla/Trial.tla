-------------------------------- MODULE Trial --------------------------------
(***************************************************************************)
(* One trial of the benchmark: the command lines it starts, how each is    *)
(* stopped (omo-process.ts), the cancellation a case may ask for           *)
(* (cancellation.ts), and the records by which the bridge under test tells *)
(* what it did (bridge-trace.ts, bridge-ipc.ts), as makeExecutor           *)
(* (executor.ts) brings them together into a sample.                       *)
(*                                                                         *)
(* A child is the leader of a process group; a helper it leaves behind     *)
(* keeps its output open or not, and may have left the group.  What a      *)
(* command prints is reduced to what the trial acts on.                    *)
(***************************************************************************)
EXTENDS Naturals, Sequences, FiniteSets

CONSTANTS
    Commands,     \* bound: the commands of a trial, two if it tests concurrency
    Helpers,      \* what an exiting leader may leave: "none", or a process that is
                  \* "quiet", "piped" (holds the output) or "escaped" (left the group, too)
    Refusals,     \* why output is refused: "malformed_jsonl", "stdout_overflow"
    MaxRecords    \* bound on the runs the bridge opens for a command

ASSUME TrialAssumption ==
    /\ IsFiniteSet(Commands)
    /\ Helpers \subseteq {"none", "quiet", "piped", "escaped"}
    /\ Refusals \subseteq {"malformed_jsonl", "stdout_overflow"}
    /\ MaxRecords \in Nat

VARIABLES
    trial,        \* the request: its lane, what cancels it, and its commands
    child,        \* the commands, as runChild sees them
    trigger,      \* createCancellationTrigger: its outcome, and what it waits for
    control,      \* the operator's signal, controller and who aborted it, backendChanged
    bridge,       \* the bridge: its runs, its messages, its records here
    executor      \* where the executor stands, and the sample it made

\* request.concurrency: one command, or two.
Children == trial.children

trialVars == <<trial, child, trigger, control, bridge, executor>>

Failures == {"cancel_failed", "timeout", "malformed_jsonl", "stdout_overflow",
             "lingering_descendant", "early_exit", "harness_failure", "missing_model"}

NotSpawned ==
    [phase |-> "preflight", leader |-> "none", helper |-> "none", exit |-> "none",
     ended |-> FALSE, runs |-> 0, stop |-> "none", timer |-> "none", settled |-> "pending"]

TrialInit ==
    /\ trial \in [lane : {"native", "yorha"}, after : {"never", "first_event", "tool_decision"},
                  children : SUBSET Commands \ {{}}]
    /\ Cardinality(Children) > 1 => trial.after = "never"
    /\ child = [c \in Children |-> NotSpawned]
    /\ trigger = [outcome |-> IF trial.after = "never" THEN "none" ELSE "armed", wait |-> "none"]
    /\ control = [external |-> FALSE, aborted |-> "no", changed |-> FALSE]
    /\ bridge = [wire |-> <<>>, opens |-> 0, flips |-> 0, asked |-> {}]
    /\ executor = [pc |-> "running", error |-> "none", synced |-> FALSE, sample |-> "none",
                   opened |-> 0]

AtWork == executor.pc # "done"

Listening(x) == x.phase = "running" /\ x.settled = "pending"

\* requestStop, for a command that still runs.
Stopped(x, class) ==
    IF x.stop # "none" THEN x ELSE [x EXCEPT !.stop = class, !.timer = "grace"]

\* controller.abort(): every command that listens is asked to stop.
AllStopped(kids) ==
    [c \in Children |-> IF Listening(kids[c]) /\ control.aborted = "no"
                        THEN Stopped(kids[c], "cancel_failed") ELSE kids[c]]

Abort(who, change) ==
    /\ control' = [change EXCEPT !.aborted = IF @ = "no" THEN who ELSE @]
    /\ child' = AllStopped(child)

\* The group is killed; whoever left it is not.
Killed(x) ==
    [x EXCEPT !.leader = "gone", !.exit = IF x.leader = "up" THEN "bad" ELSE @,
              !.helper = IF @ = "escaped" THEN @ ELSE "none"]

-----------------------------------------------------------------------------
(* runOmoTrial and runChild                                                *)

\* The comparator is not the pinned one, cannot be asked, or is not asked to its end.
PreflightFails(c, class) ==
    /\ child[c].phase = "preflight" /\ child[c].settled = "pending"
    /\ class \in {"missing_model", "timeout"} \cup
                 (IF control.aborted = "no" THEN {} ELSE {"cancel_failed"})
    /\ child' = [child EXCEPT ![c].settled = class]
    /\ UNCHANGED <<trial, trigger, control, bridge, executor>>

\* An aborted trial starts its command and stops it at once.
Spawn(c, starts) ==
    /\ child[c].phase = "preflight" /\ child[c].settled = "pending"
    /\ LET x == [child[c] EXCEPT !.phase = "running",
                                 !.leader = IF starts THEN "up" ELSE "gone",
                                 !.exit = IF starts THEN @ ELSE "bad"]
           y == IF control.aborted = "no" THEN x ELSE Stopped(x, "cancel_failed")
       IN  child' = [child EXCEPT ![c] = IF starts THEN y ELSE Stopped(y, "harness_failure")]
    /\ UNCHANGED <<trial, trigger, control, bridge, executor>>

\* A command in the lane of the bridge gets its output from a run the bridge opened.
CanPrint(x) == trial.lane = "native" \/ x.runs > 0

\* Output that is refused: a line that is no event, or more than is kept.
Breaks(c, class) ==
    /\ Listening(child[c]) /\ child[c].stop = "none"
    /\ child' = [child EXCEPT ![c] = Stopped(@, class)]
    /\ UNCHANGED <<trial, trigger, control, bridge, executor>>

\* onEvent of the trigger, for an event the model's user would see.
TriggerHears(what, kids) ==
    LET counts == /\ trigger.outcome = "armed" /\ AtWork
                  /\ what = "tool" \/ trial.after = "first_event"
    IN  \/ /\ ~counts /\ child' = kids
           /\ UNCHANGED <<trigger, control, bridge>>
        \/ /\ counts /\ trial.lane = "native"
           /\ trigger' = [trigger EXCEPT !.outcome = "cancel_sent"]
           /\ control' = [control EXCEPT !.aborted = IF @ = "no" THEN "trigger" ELSE @]
           /\ child' = AllStopped(kids)
           /\ UNCHANGED bridge
        \/ /\ counts /\ trial.lane = "yorha" /\ child' = kids
           /\ IF control.external
              THEN trigger' = [trigger EXCEPT !.outcome = "barrier_timeout"] /\ UNCHANGED bridge
              ELSE /\ trigger' = [trigger EXCEPT !.outcome = "waiting_for_run_open",
                                     !.wait = IF bridge.opens > 0 THEN "sync" ELSE "open"]
                   /\ bridge' = IF bridge.opens > 0
                                THEN [bridge EXCEPT !.asked = @ \cup {"trigger"}] ELSE bridge
           /\ UNCHANGED control

\* The command prints some text, calls a tool or ends its message.
Prints(c, what) ==
    /\ Listening(child[c]) /\ child[c].stop = "none"
    /\ CanPrint(child[c])
    /\ TriggerHears(what, [child EXCEPT ![c].ended = @ \/ what = "end"])
    /\ UNCHANGED <<trial, executor>>

TimesOut(c) ==
    /\ Listening(child[c]) /\ child[c].stop = "none"
    /\ child' = [child EXCEPT ![c] = Stopped(@, "timeout")]
    /\ UNCHANGED <<trial, trigger, control, bridge, executor>>

\* The leader exits, by itself or on SIGTERM, and may leave a helper.
LeaderExits(c, how, helper) ==
    /\ child[c].leader = "up"
    /\ how = "ok" => child[c].stop = "none"
    /\ child' = [child EXCEPT ![c].leader = "gone", ![c].exit = how, ![c].helper = helper]
    /\ UNCHANGED <<trial, trigger, control, bridge, executor>>

HelperExits(c) ==
    /\ child[c].helper # "none"
    /\ child' = [child EXCEPT ![c].helper = "none"]
    /\ UNCHANGED <<trial, trigger, control, bridge, executor>>

\* 'close': nobody holds the output.  Whoever is left in the group is killed, and may
\* still be there when that is looked at.
Closed(x, lingers) ==
    LET class == CASE x.stop # "none" -> x.stop
                   [] x.stop = "none" /\ lingers -> "lingering_descendant"
                   [] x.exit # "ok" \/ ~x.ended -> "early_exit"
                   [] OTHER -> "ok"
    IN  [x EXCEPT !.settled = class, !.timer = "none", !.helper = "none"]

Close(c, lingers) ==
    /\ Listening(child[c]) /\ child[c].leader = "gone"
    /\ child[c].helper \notin {"piped", "escaped"}
    /\ lingers => child[c].helper = "quiet"
    /\ child' = [child EXCEPT ![c] = Closed(@, lingers)]
    /\ UNCHANGED <<trial, trigger, control, bridge, executor>>

\* The grace after SIGTERM is over: SIGKILL, and another wait.
EscalationDue(c) ==
    /\ Listening(child[c]) /\ child[c].timer = "grace"
    /\ child' = [child EXCEPT ![c] = [Killed(@) EXCEPT !.timer = "hard"]]
    /\ UNCHANGED <<trial, trigger, control, bridge, executor>>

HardStop(c) ==
    /\ Listening(child[c]) /\ child[c].timer = "hard"
    /\ child' = [child EXCEPT ![c].settled = "lingering_descendant", ![c].timer = "none"]
    /\ UNCHANGED <<trial, trigger, control, bridge, executor>>

-----------------------------------------------------------------------------
(* The bridge under test and its records                                   *)

\* A command's request opens a run; the command may be gone by then.
RunOpens(c) ==
    /\ AtWork /\ trial.lane = "yorha" /\ child[c].phase = "running"
    /\ child[c].runs < MaxRecords
    /\ child' = [child EXCEPT ![c].runs = @ + 1]
    /\ bridge' = [bridge EXCEPT !.wire = Append(@, "run_open")]
    /\ UNCHANGED <<trial, trigger, control, executor>>

\* The bridge leaves cursor-api for its fallback.
Flips ==
    /\ AtWork /\ trial.lane = "yorha" /\ bridge.flips = 0
    /\ "backend_flip" \notin {bridge.wire[i] : i \in DOMAIN bridge.wire}
    /\ bridge' = [bridge EXCEPT !.wire = Append(@, "backend_flip")]
    /\ UNCHANGED <<trial, child, trigger, control, executor>>

\* The bridge answers a barrier, behind every record it sent before.
Replies(who) ==
    /\ who \in bridge.asked
    /\ bridge' = [bridge EXCEPT !.asked = @ \ {who}, !.wire = Append(@, who)]
    /\ UNCHANGED <<trial, child, trigger, control, executor>>

ExecutorMoves(x, ask, b) ==
    /\ executor' = x
    /\ bridge' = IF ask THEN [b EXCEPT !.asked = @ \cup {"executor"}] ELSE b

\* Mutant: a flip counts only for trials that went well.
Sampled_ForgetsFlip(x, b, synced) ==
    LET late == trigger.outcome = "barrier_timeout"
        class == IF late THEN "harness_failure"
                 ELSE IF x.error = "none"
                 THEN IF control.changed \/ b.flips > 0 THEN "backend_flip" ELSE "passed"
                 ELSE IF x.error = "cancel_failed" /\ trigger.outcome = "cancel_sent"
                      THEN "passed" ELSE x.error
    IN  [x EXCEPT !.pc = "done", !.synced = synced, !.sample = class, !.opened = b.opens]

\* The executor has the answer it waited for, or gives it up, and makes the sample.
Sampled(x, b, synced) ==
    LET late == trigger.outcome = "barrier_timeout"
        class == IF x.error = "none"
                 THEN IF late THEN "harness_failure"
                      ELSE IF control.changed \/ b.flips > 0 THEN "backend_flip" ELSE "passed"
                 ELSE IF control.changed THEN "backend_flip"
                      ELSE IF x.error = "cancel_failed" /\ trigger.outcome = "cancel_sent"
                           THEN "passed"
                           ELSE IF late THEN "harness_failure" ELSE x.error
    IN  [x EXCEPT !.pc = "done", !.synced = synced, !.sample = class, !.opened = b.opens]

\* A record, or the answer to a barrier, comes in.
Arrives ==
    /\ AtWork /\ bridge.wire # <<>>
    /\ LET what == Head(bridge.wire)
           rest == [bridge EXCEPT !.wire = Tail(@)]
           opened == [rest EXCEPT !.opens = @ + 1]
       IN
       CASE what = "run_open" ->
              /\ trigger' = IF trigger.wait = "open" THEN [trigger EXCEPT !.wait = "sync"]
                            ELSE trigger
              /\ ExecutorMoves(IF executor.pc = "open" THEN [executor EXCEPT !.pc = "sync"]
                               ELSE executor,
                               executor.pc = "open",
                               IF trigger.wait = "open"
                               THEN [opened EXCEPT !.asked = @ \cup {"trigger"}] ELSE opened)
              /\ UNCHANGED <<child, control>>
         [] what = "backend_flip" ->
              /\ bridge' = [rest EXCEPT !.flips = 1]
              /\ Abort("flip", [control EXCEPT !.changed = TRUE])
              /\ UNCHANGED <<trigger, executor>>
         [] what = "trigger" ->
              /\ bridge' = rest /\ UNCHANGED executor
              /\ IF trigger.wait = "sync"
                 THEN /\ trigger' = [outcome |-> "cancel_sent", wait |-> "none"]
                      /\ Abort("trigger", control)
                 ELSE UNCHANGED <<trigger, child, control>>
         [] what = "executor" ->
              /\ bridge' = rest
              /\ executor' = IF executor.pc = "sync" THEN Sampled(executor, bridge, TRUE)
                             ELSE executor
              /\ UNCHANGED <<trigger, child, control>>
    /\ UNCHANGED trial

\* The wait of the trigger for a run and its barrier is over.
BarrierTimesOut ==
    /\ trigger.wait # "none" /\ AtWork
    /\ trigger' = [outcome |-> "barrier_timeout", wait |-> "none"]
    /\ UNCHANGED <<trial, child, control, bridge, executor>>

-----------------------------------------------------------------------------
(* makeExecutor                                                            *)

\* The operator interrupts the benchmark; forwardAbort is removed with the sample.
Interrupt ==
    /\ AtWork /\ ~control.external
    /\ Abort("external", [control EXCEPT !.external = TRUE])
    /\ trigger' = IF trigger.wait # "none" THEN [outcome |-> "barrier_timeout", wait |-> "none"]
                  ELSE trigger
    /\ UNCHANGED <<trial, bridge, executor>>

\* Promise.all of the commands: every one is well, or one is not.
CommandsSettle ==
    /\ executor.pc = "running"
    /\ \/ /\ \A c \in Children : child[c].settled = "ok"
          /\ executor' = [executor EXCEPT !.pc = "settling"]
       \/ \E c \in Children :
            /\ child[c].settled \in Failures
            /\ executor' = [executor EXCEPT !.pc = "settling", !.error = child[c].settled]
    /\ UNCHANGED <<trial, child, trigger, control, bridge>>

\* The trigger has settled: the trace of the bridge is joined, in its lane.
TriggerSettles ==
    /\ executor.pc = "settling" /\ trigger.wait = "none"
    /\ CASE trial.lane = "native" ->
              executor' = Sampled(executor, bridge, FALSE) /\ UNCHANGED bridge
         [] trial.lane = "yorha" /\ executor.error = "none" /\ bridge.opens = 0
                /\ control.aborted = "no" ->
              ExecutorMoves([executor EXCEPT !.pc = "open"], FALSE, bridge)
         [] OTHER -> ExecutorMoves([executor EXCEPT !.pc = "sync"], TRUE, bridge)
    /\ UNCHANGED <<trial, child, trigger, control>>

\* No run was opened within a second, or the trial was aborted.
OpenGivenUp ==
    /\ executor.pc = "open"
    /\ ExecutorMoves([executor EXCEPT !.pc = "sync"], TRUE, bridge)
    /\ UNCHANGED <<trial, child, trigger, control>>

\* The bridge did not answer the barrier within a second.
SyncGivenUp ==
    /\ executor.pc = "sync"
    /\ executor' = Sampled(executor, bridge, FALSE)
    /\ UNCHANGED <<trial, child, trigger, control, bridge>>

TrialNext ==
    \/ \E c \in Children :
         \/ \E class \in {"missing_model", "timeout", "cancel_failed"} : PreflightFails(c, class)
         \/ \E starts \in BOOLEAN : Spawn(c, starts)
         \/ \E class \in Refusals : Breaks(c, class)
         \/ \E what \in {"text", "tool", "end"} : Prints(c, what)
         \/ \E how \in {"ok", "bad"}, helper \in Helpers :
              LeaderExits(c, how, helper)
         \/ \E lingers \in BOOLEAN : Close(c, lingers)
         \/ TimesOut(c) \/ HelperExits(c) \/ EscalationDue(c) \/ HardStop(c) \/ RunOpens(c)
    \/ \E who \in {"trigger", "executor"} : Replies(who)
    \/ Flips \/ Arrives \/ BarrierTimesOut \/ Interrupt \/ CommandsSettle \/ TriggerSettles
    \/ OpenGivenUp \/ SyncGivenUp

TrialSpec == TrialInit /\ [][TrialNext]_trialVars

-----------------------------------------------------------------------------
TrialTypeOK ==
    /\ \A c \in Children :
         /\ child[c].phase \in {"preflight", "running"}
         /\ child[c].stop \in Failures \cup {"none"}
         /\ child[c].settled \in Failures \cup {"pending", "ok"}
         /\ child[c].timer \in {"none", "grace", "hard"}
    /\ trigger.outcome \in {"none", "armed", "waiting_for_run_open", "cancel_sent",
                            "barrier_timeout"}
    /\ executor.sample \in Failures \cup {"none", "passed", "backend_flip"}

\* A trial that an operator interrupted, or a change of backend, never passes for one
\* whose cancellation worked: that one was aborted by its trigger, in the bridge's lane
\* after a run of it was on record.
CancelledByItself ==
    executor.sample = "passed" /\ executor.error # "none" =>
        /\ control.aborted = "trigger"
        /\ trial.lane = "yorha" => executor.opened > 0

\* No process of a trial outlives its sample, but one that left its group, which is
\* reported, and the commands whose peer failed before them: nobody stops those.
ProcessesEnd ==
    executor.pc = "done" => \A c \in Children :
        \/ child[c].settled = "pending" /\ Cardinality(Children) > 1 /\ executor.error # "none"
        \/ /\ child[c].leader # "up" /\ child[c].helper \in {"none", "escaped"}
           /\ child[c].helper = "escaped" => child[c].settled = "lingering_descendant"

\* The runs and flips of a trial that went well are counted to the last, when the bridge
\* answered the barrier; and a flip that is on record is in the verdict.
RunsAreCounted ==
    executor.pc = "done" =>
        /\ executor.synced /\ executor.error = "none" =>
             executor.opened >= Cardinality(Children)
        /\ bridge.flips > 0 => executor.sample \in {"backend_flip", "harness_failure"}

\* The sample of a trial tells what its commands and the bridge did.
TrialSound == TrialTypeOK /\ CancelledByItself /\ ProcessesEnd /\ RunsAreCounted
=============================================================================
