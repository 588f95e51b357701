--------------------------------- MODULE Cli ----------------------------------
(***************************************************************************)
(* The cursor-cli backend (cursor-cli-completion.ts, cursor-cli-process.ts,*)
(* cursor-cli-child.ts, cursor-cli-workspace.ts): a completion takes a     *)
(* workspace, runs the CLI in it, once more when the arguments of a tool   *)
(* call are refused, and gives the workspace back.  A command is ended by  *)
(* its exit, the client, its timeout, the limit of its output or shutdown. *)
(*                                                                         *)
(* An action is a callback of the event loop with the promise jobs that    *)
(* follow from it: a release and the start of the next waiter are one      *)
(* step, as are an abort and the rejection of the waiter.  The child is    *)
(* external: it may ignore SIGTERM and may leave its pipes open when it    *)
(* exits.  What the CLI prints is left out (CliStream).                    *)
(***************************************************************************)
EXTENDS Naturals, Sequences, FiniteSets, SequencesExt

CONSTANTS
    Prompts,             \* completions
    WorkspaceModes       \* the modes to check: a subset of the two

\* WorkspaceMode (config.ts) knows no other.
ASSUME CliAssumption ==
    IsFiniteSet(Prompts) /\ WorkspaceModes \subseteq {"chat-only", "real-workspace"}

VARIABLES
    prompt,              \* the local state of each completion
    workspaceMode,       \* config.workspaceMode
    waiters,             \* WorkspaceMutex.waiters
    mutexHeld,           \* WorkspaceMutex.held
    registry,            \* CursorChildRegistry.commands
    cliShutdown          \* childRegistry.shutdown(): its phase and the commands it ends

cliVars == <<prompt, workspaceMode, waiters, mutexHeld, registry, cliShutdown>>

PromptState ==
    [pc : {"idle", "creating", "waiting", "command", "cleaning", "answered"},
     attempt : 0..2,
     child : {"none", "running", "exited"},
     ending : {"none", "term", "kill"},      \* termination: the last signal sent
     aborted : BOOLEAN, timer : BOOLEAN, holds : BOOLEAN, directory : BOOLEAN]

CliTypeOK ==
    /\ prompt \in [Prompts -> PromptState]
    /\ workspaceMode \in WorkspaceModes
    /\ waiters \in SeqOf(Prompts, Cardinality(Prompts))
    /\ mutexHeld \in BOOLEAN
    /\ registry \subseteq Prompts
    /\ cliShutdown.phase \in {"none", "waiting", "done"}
    /\ cliShutdown.commands \subseteq Prompts

CliInit ==
    /\ prompt = [p \in Prompts |->
        [pc |-> "idle", attempt |-> 0, child |-> "none", ending |-> "none",
         aborted |-> FALSE, timer |-> FALSE, holds |-> FALSE, directory |-> FALSE]]
    /\ workspaceMode \in WorkspaceModes
    /\ waiters = <<>> /\ mutexHeld = FALSE /\ registry = {}
    /\ cliShutdown = [phase |-> "none", commands |-> {}]

-----------------------------------------------------------------------------
(* The parts of a step                                                     *)

\* createCursorCommandRunner: the child is spawned and its timeout set.
Spawned(s) ==
    [s EXCEPT !.pc = "command", !.attempt = s.attempt + 1, !.child = "running",
              !.ending = "none", !.timer = TRUE]

Exited(s) == [s EXCEPT !.child = "none"]

\* finish: the command is over, its timer and listener gone.
CommandOver(s) == [s EXCEPT !.child = IF @ = "running" THEN @ ELSE "none", !.timer = FALSE]

\* onAbort of a waiter: splice(indexOf(waiter), 1)
Without(queue, p) ==
    IF p \in ToSet(queue) THEN RemoveAt(queue, CHOOSE i \in DOMAIN queue : queue[i] = p)
    ELSE queue

\* Mutant: the next waiter is told, but the workspace counts as free.
Concluding_FreesMutex(p, s, queue) ==
    LET over == [CommandOver(s) EXCEPT !.pc = "cleaning", !.holds = FALSE]
    IN IF s.holds /\ queue # <<>>
       THEN /\ prompt' = [prompt EXCEPT
                    ![p] = over,
                    ![Head(queue)] = Spawned([@ EXCEPT !.holds = TRUE])]
            /\ waiters' = Tail(queue)
            /\ registry' = (registry \ {p}) \cup {Head(queue)}
            /\ mutexHeld' = FALSE
       ELSE /\ prompt' = [prompt EXCEPT ![p] = over]
            /\ waiters' = queue
            /\ registry' = registry \ {p}
            /\ mutexHeld' = (mutexHeld /\ ~s.holds)

\* The finally of a completion: the workspace goes to the first waiter, who starts.
Concluding(p, s, queue) ==
    LET over == [CommandOver(s) EXCEPT !.pc = "cleaning", !.holds = FALSE]
    IN IF s.holds /\ queue # <<>>
       THEN /\ prompt' = [prompt EXCEPT
                    ![p] = over,
                    ![Head(queue)] = Spawned([@ EXCEPT !.holds = TRUE])]
            /\ waiters' = Tail(queue)
            /\ registry' = (registry \ {p}) \cup {Head(queue)}
            /\ UNCHANGED mutexHeld
       ELSE /\ prompt' = [prompt EXCEPT ![p] = over]
            /\ waiters' = queue
            /\ registry' = registry \ {p}
            /\ mutexHeld' = (mutexHeld /\ ~s.holds)

ConcludeRun(p, s) ==
    /\ Concluding(p, s, waiters)
    /\ UNCHANGED <<workspaceMode, cliShutdown>>

\* The command starts, unless the signal is aborted or the spawn throws.
StartCommand(p, s) ==
    \/ /\ ~s.aborted
       /\ prompt' = [prompt EXCEPT ![p] = Spawned(s)]
       /\ registry' = registry \cup {p}
       /\ mutexHeld' = (mutexHeld \/ s.holds)
       /\ UNCHANGED <<workspaceMode, waiters, cliShutdown>>
    \/ ConcludeRun(p, s)

-----------------------------------------------------------------------------
(* cursor-cli-completion.ts                                                *)

\* The workspace: a directory to be created, the mutex of a real one, or its queue.
BeginPrompt(p) ==
    LET s == prompt[p] IN
    /\ s.pc = "idle"
    /\ CASE workspaceMode = "chat-only" ->
                /\ prompt' = [prompt EXCEPT ![p].pc = "creating"]
                /\ UNCHANGED <<workspaceMode, waiters, mutexHeld, registry, cliShutdown>>
         [] workspaceMode = "real-workspace" /\ mutexHeld ->
                /\ prompt' = [prompt EXCEPT ![p].pc = "waiting"]
                /\ waiters' = Append(waiters, p)
                /\ UNCHANGED <<workspaceMode, mutexHeld, registry, cliShutdown>>
         [] OTHER -> StartCommand(p, [s EXCEPT !.holds = TRUE])

DirectoryCreated(p) ==
    /\ prompt[p].pc = "creating"
    /\ StartCommand(p, [prompt[p] EXCEPT !.directory = TRUE])

\* workspace.cleanup()
Cleanup(p) ==
    /\ prompt[p].pc = "cleaning"
    /\ prompt' = [prompt EXCEPT ![p].pc = "answered", ![p].directory = FALSE]
    /\ UNCHANGED <<workspaceMode, waiters, mutexHeld, registry, cliShutdown>>

-----------------------------------------------------------------------------
(* cursor-cli-process.ts                                                   *)

\* The grace is over and the child still there: SIGKILL.
GraceOver(p) ==
    /\ prompt[p].ending = "term" /\ prompt[p].child = "running"
    /\ prompt' = [prompt EXCEPT ![p].ending = "kill"]
    /\ UNCHANGED <<workspaceMode, waiters, mutexHeld, registry, cliShutdown>>

\* terminate: SIGTERM, once; a command whose child has exited is over at once.
Terminate(p, s) ==
    CASE s.ending # "none" ->
            /\ prompt' = [prompt EXCEPT ![p] = s]
            /\ UNCHANGED <<workspaceMode, waiters, mutexHeld, registry, cliShutdown>>
      [] s.ending = "none" /\ s.child = "exited" -> ConcludeRun(p, s)
      [] OTHER ->
            /\ prompt' = [prompt EXCEPT ![p] =
                    [s EXCEPT !.ending = "term", !.timer = FALSE]]
            /\ UNCHANGED <<workspaceMode, waiters, mutexHeld, registry, cliShutdown>>

\* Mutant: a command that is being terminated waits for its pipes to close as well.
ChildExits_WaitsForClose(p) ==
    /\ prompt[p].child = "running"
    /\ prompt' = [prompt EXCEPT ![p].child = "exited"]
    /\ registry' = registry \ {p}
    /\ UNCHANGED <<workspaceMode, waiters, mutexHeld, cliShutdown>>

\* 'exit': a terminated command is over, another one waits for 'close'.
ChildExits(p) ==
    /\ prompt[p].child = "running"
    /\ IF prompt[p].ending # "none" THEN ConcludeRun(p, Exited(prompt[p]))
       ELSE /\ prompt' = [prompt EXCEPT ![p].child = "exited"]
            /\ registry' = registry \ {p}
            /\ UNCHANGED <<workspaceMode, waiters, mutexHeld, cliShutdown>>

\* 'close': a result or an error, or tool arguments that are refused, which is tried once more.
ChildCloses(p) ==
    /\ prompt[p].child = "exited"
    /\ \/ ConcludeRun(p, prompt[p])
       \/ prompt[p].attempt = 1 /\ StartCommand(p, CommandOver(prompt[p]))

\* 'error': the child was not started.
SpawnFails(p) == prompt[p].child = "running" /\ ConcludeRun(p, Exited(prompt[p]))

CommandTimeout(p) == prompt[p].timer /\ Terminate(p, prompt[p])

\* capture: more output than maxOutputBytes
OutputLimit(p) ==
    /\ prompt[p].child # "none" /\ prompt[p].ending = "none"
    /\ Terminate(p, prompt[p])

\* The signal: a waiter leaves the queue, a command is terminated.
ClientAborts(p) ==
    LET s == [prompt[p] EXCEPT !.aborted = TRUE] IN
    /\ s.pc \in {"creating", "waiting", "command"} /\ ~prompt[p].aborted
    /\ CASE s.pc = "command" -> Terminate(p, s)
         [] s.pc = "waiting" ->
                /\ Concluding(p, s, Without(waiters, p))
                /\ UNCHANGED <<workspaceMode, cliShutdown>>
         [] OTHER -> /\ prompt' = [prompt EXCEPT ![p] = s]
                     /\ UNCHANGED <<workspaceMode, waiters, mutexHeld, registry, cliShutdown>>

\* childRegistry.shutdown(): the commands registered now are terminated and waited for.
ShutdownCli ==
    /\ cliShutdown.phase = "none"
    /\ prompt' = [p \in Prompts |->
        IF p \in registry /\ prompt[p].ending = "none"
        THEN [prompt[p] EXCEPT !.ending = "term", !.timer = FALSE]
        ELSE prompt[p]]
    /\ cliShutdown' = [phase |-> "waiting",
                       commands |-> registry]
    /\ UNCHANGED <<workspaceMode, waiters, mutexHeld, registry>>

\* Every termination it began has ended.
ShutdownCliEnds ==
    /\ cliShutdown.phase = "waiting"
    /\ \A p \in cliShutdown.commands : prompt[p].pc # "command"
    /\ cliShutdown' = [cliShutdown EXCEPT !.phase = "done"]
    /\ UNCHANGED <<prompt, workspaceMode, waiters, mutexHeld, registry>>

CliNext ==
    \/ \E p \in Prompts :
        \/ BeginPrompt(p) \/ DirectoryCreated(p) \/ Cleanup(p) \/ GraceOver(p)
        \/ ChildExits(p) \/ ChildCloses(p) \/ SpawnFails(p) \/ CommandTimeout(p)
        \/ OutputLimit(p) \/ ClientAborts(p)
    \/ ShutdownCli \/ ShutdownCliEnds

\* Timers fire, and a child that was killed exits; any other may run, or hold its pipes,
\* as long as it likes.
CliFairness ==
    /\ \A p \in Prompts :
        /\ WF_cliVars(DirectoryCreated(p))
        /\ WF_cliVars(Cleanup(p))
        /\ WF_cliVars(GraceOver(p))
        /\ WF_cliVars(CommandTimeout(p))
        /\ WF_cliVars(prompt[p].ending = "kill" /\ ChildExits(p))
    /\ WF_cliVars(ShutdownCliEnds)

CliSpec == CliInit /\ [][CliNext]_cliVars /\ CliFairness

-----------------------------------------------------------------------------
(* Properties                                                              *)

\* In a real workspace one CLI runs at a time, though waiters, retries, aborts and
\* terminations race for it.
WorkspaceExclusive ==
    workspaceMode = "real-workspace" =>
        /\ \A p, r \in Prompts :
            prompt[p].child # "none" /\ prompt[r].child # "none" => p = r
        /\ \A p \in Prompts : prompt[p].child # "none" => prompt[p].holds

\* The workspace is held by exactly one completion or is free, a waiter waits only for a
\* holder, and the queue is the waiters that have not aborted.
NobodyWaitsInVain ==
    /\ mutexHeld <=> \E p \in Prompts : prompt[p].holds
    /\ waiters # <<>> => mutexHeld
    /\ IsInjective(waiters)
    /\ \A p \in Prompts :
        p \in ToSet(waiters) <=> prompt[p].pc = "waiting"
    /\ \A p \in ToSet(waiters) : ~prompt[p].aborted

\* A completion that has its outcome left nothing behind: no child, no entry of the
\* registry, no timer, no workspace.
CommandsLeaveNothing ==
    \A p \in Prompts :
        prompt[p].pc \in {"cleaning", "answered"} =>
            /\ p \notin registry /\ prompt[p].child = "none"
            /\ ~prompt[p].timer /\ ~prompt[p].holds
            /\ prompt[p].pc = "answered" => ~prompt[p].directory

\* The three together.
CliSound == CliTypeOK /\ WorkspaceExclusive /\ NobodyWaitsInVain /\ CommandsLeaveNothing

\* Every command ends, an obstinate child or not, and so do every wait and shutdown.
CommandsEnd ==
    /\ \A p \in Prompts : prompt[p].pc \in {"waiting", "command"} ~> prompt[p].pc = "answered"
    /\ cliShutdown.phase = "waiting" ~> cliShutdown.phase = "done"
=============================================================================
