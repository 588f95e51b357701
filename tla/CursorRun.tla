------------------------------ MODULE CursorRun ------------------------------
(***************************************************************************)
(* Cursor Runs that outlive one OpenAI request.                            *)
(*                                                                         *)
(* A Run is one upstream HTTP/2 stream.  When the model calls a tool the   *)
(* bridge answers the OpenAI request with the call and parks the Run; the  *)
(* client's next request, which carries the tool result, resumes it on the *)
(* same stream.  This module models executeCursorRun and resumeCursorRun   *)
(* (run-execution.ts), the part of run-messages.ts and tool-stream.ts that *)
(* drives them, StickyRunStore (sticky-run-store.ts), and the operations   *)
(* of backend.ts that end Runs from outside.                               *)
(*                                                                         *)
(* Every handler runs to completion on the event loop and is one action,   *)
(* with one exception: the 'data' handler works through the frames of a    *)
(* chunk, so it is BeginChunk, one action per frame, and EndChunk, and no  *)
(* other handler runs while `reading' names a Run.                         *)
(*                                                                         *)
(* Data abstracted away: the i-th call of a Run is the number i, because   *)
(* its id is `call_<requestId>_<i>' and so names the Run and the slot; a   *)
(* request's history, model and tools are one Contract; text is whether    *)
(* there is any that no response carried yet.  An error is not told apart  *)
(* from another: only that a promise rejects is kept.                      *)
(***************************************************************************)
EXTENDS Naturals, FiniteSets

CONSTANTS
    Runs,          \* upstream Runs that can be opened
    Requests,      \* OpenAI chat requests, each sent once
    Streaming,     \* the requests that ask for a stream (they have an emitter)
    Creds,         \* credential generations
    Contracts,     \* continuation fingerprints
    Capacity,      \* CURSOR_BRIDGE_MAX_HELD_RUNS
    Parallel,      \* parallel_tool_calls # false
    MaxToolCalls,  \* max_tool_calls, or 0 when the request leaves it out
    MaxSlots,      \* bound: tool calls one Run may announce
    NoRun, NoRequest, NoCred, NoContract

ASSUME CursorRunAssumption ==
    /\ Streaming \subseteq Requests
    /\ Capacity \in Nat \ {0}
    /\ Parallel \in BOOLEAN
    /\ MaxToolCalls \in Nat
    /\ MaxSlots \in Nat
    /\ NoRun \notin Runs
    /\ NoRequest \notin Requests
    /\ IsFiniteSet(Runs)

VARIABLES
    run,      \* the closure state of executeCursorRun, per Run
    held,     \* StickyRunStore.held: 0, or the order in which the Run was put
    parks,    \* holds ever put in the store
    req,      \* what the client and the caller of the Run know of a request
    revoked,  \* credential generations whose signal is aborted
    down,     \* the backend has shut down
    reading,      \* the Run whose 'data' handler is at work, or NoRun
    readingHeld   \* that Run was parked when the chunk arrived

vars == <<run, held, parks, req, revoked, down, reading, readingHeld>>

Slots == 1..MaxSlots

\* A toolStream that is not limited never reaches MaxSlots + 1 calls here.
Limit == IF MaxToolCalls > 0 THEN MaxToolCalls
         ELSE IF Parallel THEN MaxSlots ELSE 1

RunState ==
    [settled : BOOLEAN, parked : BOOLEAN,
     stream : {"none", "open", "closing", "closed"},
     streamEnded : BOOLEAN, turnEnded : BOOLEAN,
     slots : 0..MaxSlots,     \* toolStream.slots, in order of creation
     done : SUBSET Slots,     \* slots with a completed call
     surfaced : SUBSET Slots, \* surfacedCallIds
     execs : SUBSET Slots,    \* heldExecs: execs the upstream waits on
     sent : SUBSET Slots,     \* calls whose result went upstream
     hold : SUBSET Slots,     \* the calls that key the Run's latest hold
     fresh : BOOLEAN,         \* freshText() is not empty
     told : BOOLEAN,          \* some of it was emitted to a request already
     emit : BOOLEAN,          \* messages.emit is set
     timers : BOOLEAN,        \* timeout, idle watchdog and abort listener are armed
     holdTimer : BOOLEAN, active : BOOLEAN,
     owner : Requests \cup {NoRequest},   \* whose promise currentResolve settles
     cred : Creds \cup {NoCred}]

RequestPhase ==
    {"idle", "opening", "aborting", "waiting", "answered", "done", "failed"}

RequestState ==
    [phase : RequestPhase,
     contract : Contracts \cup {NoContract},
     cred : Creds \cup {NoCred},
     run : Runs \cup {NoRun},      \* the Run that answered it
     calls : SUBSET Slots]         \* the tool calls of the answer

-----------------------------------------------------------------------------
(* Operators on the state x of one Run.                                    *)

Ended(x) == x.streamEnded \/ x.turnEnded
Running(x) == ~x.settled /\ ~x.parked

Visible(x) == {i \in 1..x.slots : i <= Limit}
Incomplete(x) == \E i \in Visible(x) : i \notin x.done
AtMaximum(x) == MaxToolCalls > 0 /\ 1..Limit \subseteq x.done

\* Mutant: a call that an earlier round surfaced is not filtered out.
Unsurfaced_Refill(x) == x.done

Unsurfaced(x) == x.done \ x.surfaced

\* completedCalls(): enforceNativeToolChoice keeps one call of a serial batch.
CompletedCalls(x) ==
    {i \in Unsurfaced(x) : Parallel \/ \A j \in Unsurfaced(x) : i <= j}

\* capToolCallsForRequest: the answer keeps the first calls up to the limit.
Capped(calls) == {i \in calls : Cardinality({j \in calls : j <= i}) <= Limit}

Cleanup(x) == [x EXCEPT !.timers = FALSE, !.holdTimer = FALSE, !.active = FALSE]

\* stream.end(), close() and destroy(): no more data, 'close' is still to come.
\* The 'error' that destroy() emits at once is part of the handler that calls it.
Hangup(x) == [x EXCEPT !.stream = IF @ = "open" THEN "closing" ELSE @]

CloseTransport(x) == [Hangup(x) EXCEPT !.active = FALSE]

\* finish(): the state part.  A second call returns early.
Settle(x) == IF x.settled THEN x
             ELSE [Hangup(Cleanup(x)) EXCEPT !.settled = TRUE]

\* Mutant: the timers are cleared and the stream is left to itself.
Release_KeepsStream(x) ==
    IF x.settled \/ ~x.parked THEN x
    ELSE [Cleanup(x) EXCEPT !.parked = FALSE, !.settled = TRUE]

\* Mutant: the stream is destroyed and the timers are not cleared.
Release_KeepsTimers(x) ==
    IF x.settled \/ ~x.parked THEN x
    ELSE [Hangup(x) EXCEPT !.parked = FALSE, !.settled = TRUE]

\* HeldRun.release.  The 'error' or 'close' of the destroyed stream finishes the
\* Run; nothing the Run listens to comes in between.
Release(x) == IF x.settled \/ ~x.parked THEN x ELSE Settle([x EXCEPT !.parked = FALSE])

InStore(r) == held[r] > 0

\* releaseParked(): through the store, which also forgets the hold.
ReleasedParked(r, x) == IF InStore(r) THEN Release(x) ELSE Hangup(Cleanup(x))

\* onAbort()
Aborted(r, x) == IF x.parked THEN ReleasedParked(r, x) ELSE Settle(x)

-----------------------------------------------------------------------------
(* Settling a promise.  Only the first resolve or reject counts.           *)

Reject(rq, q) ==
    [p \in Requests |-> IF p = q /\ rq[p].phase = "waiting"
                        THEN [rq[p] EXCEPT !.phase = "failed"] ELSE rq[p]]

Answer(rq, q, r, calls) ==
    [p \in Requests |-> IF p = q /\ rq[p].phase = "waiting"
                        THEN [rq[p] EXCEPT !.phase = "answered", !.run = r,
                                           !.calls = Capped(calls)]
                        ELSE rq[p]]

-----------------------------------------------------------------------------
(* What a handler of Run r does next: x is the state of r so far, h the    *)
(* store and rq the requests.                                              *)

Keep(r, x, h, rq) ==
    /\ run' = [run EXCEPT ![r] = x]
    /\ held' = h
    /\ req' = rq
    /\ UNCHANGED parks

\* Mutant: the promise of the owner is not rejected.
FinishWithError_Silent(r, x, h, rq) == Keep(r, Settle(x), h, rq)

FinishWithError(r, x, h, rq) == Keep(r, Settle(x), h, Reject(rq, x.owner))

FinishWithText(r, x, h, rq) == Keep(r, Settle(x), h, Answer(rq, x.owner, r, {}))

ReleaseParked(r, x) ==
    Keep(r, ReleasedParked(r, x), [held EXCEPT ![r] = 0], Reject(req, x.owner))

\* Mutant: capacity compared with > instead of >=.
Park_OneTooMany(r, x, h) ==
    LET Held == {t \in Runs : h[t] > 0} IN
    /\ parks' = parks + 1
    /\ \/ /\ Cardinality(Held) <= Capacity
          /\ run' = [run EXCEPT ![r] = x]
          /\ held' = [h EXCEPT ![r] = parks + 1]
       \/ /\ Cardinality(Held) > Capacity
          /\ \E oldest \in Held :
                /\ run' = [run EXCEPT ![oldest] = Release(@), ![r] = x]
                /\ held' = [h EXCEPT ![oldest] = 0, ![r] = parks + 1]

\* StickyRunStore.park: at capacity the hold that was put first is released.
\* A key names its Run and r is not held, so no other hold has the same key.
Park(r, x, h) ==
    LET Held == {t \in Runs : h[t] > 0} IN
    /\ parks' = parks + 1
    /\ \/ /\ Cardinality(Held) < Capacity
          /\ run' = [run EXCEPT ![r] = x]
          /\ held' = [h EXCEPT ![r] = parks + 1]
       \/ /\ Cardinality(Held) >= Capacity
          /\ \E oldest \in Held :
                /\ \A t \in Held : h[oldest] <= h[t]
                /\ run' = [run EXCEPT ![oldest] = Release(@), ![r] = x]
                /\ held' = [h EXCEPT ![oldest] = 0, ![r] = parks + 1]

\* Mutant: surfacedTextLength is not advanced to the text that was surfaced.
SurfaceBatch_KeepsText(r, x, h, rq) ==
    LET calls == CompletedCalls(x) IN
    /\ Park(r, [x EXCEPT !.holdTimer = FALSE, !.surfaced = @ \cup calls,
                         !.parked = TRUE, !.hold = calls], h)
    /\ req' = Answer(rq, x.owner, r, calls)

\* Mutant: the hold's key is made of all calls of the Run, not of this batch.
SurfaceBatch_KeyOfAll(r, x, h, rq) ==
    LET calls == CompletedCalls(x) IN
    /\ Park(r, [x EXCEPT !.holdTimer = FALSE, !.surfaced = @ \cup calls, !.parked = TRUE,
                         !.fresh = FALSE, !.told = FALSE, !.hold = x.done], h)
    /\ req' = Answer(rq, x.owner, r, calls)

SurfaceBatch(r, x, h, rq) ==
    LET calls == CompletedCalls(x)
        y == [x EXCEPT !.holdTimer = FALSE, !.surfaced = @ \cup calls,
                       !.fresh = FALSE, !.told = FALSE]
        answered == Answer(rq, x.owner, r, calls)
    IN  \/ /\ ~Ended(x) \/ CompletedCalls(y) # {}
           /\ Park(r, [y EXCEPT !.parked = TRUE, !.hold = calls], h)
           /\ req' = answered
        \/ /\ Ended(x) /\ CompletedCalls(y) = {}
           /\ Keep(r, Settle(y), h, answered)

Drain(r, x, h, rq) ==
    \/ /\ Ended(x) /\ Incomplete(x)
       /\ FinishWithError(r, x, h, rq)
    \/ /\ ~(Ended(x) /\ Incomplete(x)) /\ CompletedCalls(x) # {}
       /\ SurfaceBatch(r, x, h, rq)
    \/ /\ Ended(x) /\ ~Incomplete(x) /\ CompletedCalls(x) = {}
       /\ IF x.fresh THEN FinishWithText(r, x, h, rq)
                     ELSE FinishWithError(r, x, h, rq)
    \/ /\ ~Ended(x) /\ CompletedCalls(x) = {}
       /\ Keep(r, x, h, rq)

ScheduleHold(x) == IF Running(x) THEN [x EXCEPT !.holdTimer = TRUE] ELSE x

\* hold(): an announced call without its exec re-arms the settle window.
Hold(r, x) ==
    IF ~Running(x) \/ x.execs = {} THEN Keep(r, x, held, req)
    ELSE IF Incomplete(x) THEN Keep(r, ScheduleHold(x), held, req)
    ELSE Drain(r, x, held, req)

-----------------------------------------------------------------------------
NewRun ==
    [settled |-> FALSE, parked |-> FALSE, stream |-> "none",
     streamEnded |-> FALSE, turnEnded |-> FALSE, slots |-> 0, done |-> {},
     surfaced |-> {}, execs |-> {}, sent |-> {}, hold |-> {}, fresh |-> FALSE,
     told |-> FALSE, emit |-> FALSE, timers |-> FALSE, holdTimer |-> FALSE,
     active |-> FALSE, owner |-> NoRequest, cred |-> NoCred]

NewRequest == [phase |-> "idle", contract |-> NoContract, cred |-> NoCred,
               run |-> NoRun, calls |-> {}]

Init ==
    /\ run = [r \in Runs |-> NewRun]
    /\ held = [r \in Runs |-> 0]
    /\ parks = 0
    /\ req = [q \in Requests |-> NewRequest]
    /\ revoked = {}
    /\ down = FALSE
    /\ reading = NoRun
    /\ readingHeld = FALSE

AtRest == reading = NoRun
NotReading == AtRest /\ UNCHANGED <<reading, readingHeld>>
Standing == UNCHANGED <<revoked, down>>

-----------------------------------------------------------------------------
(* Requests                                                                *)

\* CursorApiCompletion.run without a hold to resume: a credential is routed,
\* a token and the discovery snapshot are awaited, then the stream.
SendFresh(q, k, c) ==
    /\ NotReading /\ Standing
    /\ ~down
    /\ req[q].phase = "idle"
    /\ c \notin revoked
    /\ req' = [req EXCEPT ![q].phase = "opening", ![q].contract = k, ![q].cred = c]
    /\ UNCHANGED <<run, held, parks>>

\* Request q carries results for the calls of an earlier response p.
AnswersHold(q, p) ==
    /\ NotReading /\ Standing
    /\ ~down
    /\ req[q].phase = "idle"
    /\ req[p].phase = "done" /\ req[p].calls # {}
    /\ InStore(req[p].run)
    /\ run[req[p].run].hold = req[p].calls

\* Mutant: every exec that waits gets a result, whatever call it belongs to.
Resumed_AnswersAll(x, q) ==
    [x EXCEPT !.parked = FALSE, !.owner = q, !.active = TRUE,
              !.emit = q \in Streaming,
              !.fresh = @ /\ q \notin Streaming,
              !.told = @ /\ q \notin Streaming,
              !.sent = IF Ended(x) THEN @ ELSE @ \cup x.execs,
              !.execs = {}]

\* The state of a Run that resume() has handed to request q, before drain().
Resumed(x, q) ==
    [x EXCEPT !.parked = FALSE, !.owner = q, !.active = TRUE,
              !.emit = q \in Streaming,
              !.fresh = @ /\ q \notin Streaming,
              !.told = @ /\ q \notin Streaming,
              !.sent = IF Ended(x) THEN @ ELSE @ \cup (x.execs \cap x.hold),
              !.execs = @ \ x.hold]

HoldContract(r) == req[run[r].owner].contract

\* take() pops the hold and resume() writes the results.  The resume() of a
\* settled Run returns at once and leaves the new promise pending.
ResumeRun(q, p) ==
    LET r == req[p].run
        h == [held EXCEPT ![r] = 0]
        rq == [req EXCEPT ![q].phase = "waiting", ![q].contract = HoldContract(r)]
    IN  /\ AnswersHold(q, p)
        /\ \/ /\ run[r].settled
              /\ Keep(r, run[r], h, rq)
           \/ /\ ~run[r].settled
              /\ Drain(r, Resumed(run[r], q), h, rq)

\* The client of q disconnected before q got here: bindSignal() runs onAbort,
\* which finds a Run that is no longer parked, and nothing is written.
ResumeAborted(q, p) ==
    LET r == req[p].run IN
    /\ AnswersHold(q, p)
    /\ ~run[r].settled
    /\ Keep(r, Settle([run[r] EXCEPT !.parked = FALSE, !.owner = q,
                                     !.emit = q \in Streaming]),
            [held EXCEPT ![r] = 0],
            [req EXCEPT ![q].phase = "failed", ![q].contract = HoldContract(r)])

\* take() finds the hold, but the request changed: the hold is released and
\* the request opens a Run of its own.
MismatchedContinuation(q, p, k, c) ==
    LET r == req[p].run IN
    /\ AnswersHold(q, p)
    /\ k # HoldContract(r)
    /\ c \notin revoked
    /\ Keep(r, Release(run[r]), [held EXCEPT ![r] = 0],
            [req EXCEPT ![q].phase = "opening", ![q].contract = k, ![q].cred = c])

\* openRun() answers.  A signal that was aborted meanwhile ends the Run before
\* a handler is attached.
OpenRun(q, r) ==
    LET x == [NewRun EXCEPT !.stream = "open", !.timers = TRUE, !.active = TRUE,
                            !.emit = q \in Streaming, !.owner = q,
                            !.cred = req[q].cred]
        rq == [req EXCEPT ![q].phase = "waiting"]
    IN  /\ NotReading /\ Standing
        /\ ~down
        /\ req[q].phase \in {"opening", "aborting"}
        /\ run[r].stream = "none"
        /\ IF req[q].phase = "aborting" \/ req[q].cred \in revoked
           THEN FinishWithError(r, x, held, rq)
           ELSE Keep(r, x, held, rq)

\* Routing, the token, the snapshot or the stream failed.
OpenFails(q) ==
    /\ NotReading /\ Standing
    /\ req[q].phase \in {"opening", "aborting"}
    /\ req' = [req EXCEPT ![q].phase = "failed"]
    /\ UNCHANGED <<run, held, parks>>

\* The response is out: the request's signal is no longer aborted.
Deliver(q) ==
    /\ NotReading /\ Standing
    /\ req[q].phase = "answered"
    /\ req' = [req EXCEPT ![q].phase = "done"]
    /\ UNCHANGED <<run, held, parks>>

\* runValidatedCursorCompletion refuses the calls of the answer and releases
\* the hold their ids are the key of, if there is one.
RefuseCalls(q) ==
    LET r == req[q].run
        found == InStore(r) /\ run[r].hold = req[q].calls
    IN  /\ NotReading /\ Standing
        /\ req[q].phase = "answered" /\ req[q].calls # {}
        /\ Keep(r, IF found THEN Release(run[r]) ELSE run[r],
                IF found THEN [held EXCEPT ![r] = 0] ELSE held,
                [req EXCEPT ![q].phase = "failed"])

AbortWhileOpening(q) ==
    /\ NotReading /\ Standing
    /\ req[q].phase = "opening"
    /\ req' = [req EXCEPT ![q].phase = "aborting"]
    /\ UNCHANGED <<run, held, parks>>

\* The client disconnects, possibly from a response that already ended in a
\* hold: the listener on the request's signal is onAbort.
Disconnect(q, r) ==
    /\ NotReading /\ Standing
    /\ req[q].phase \in {"waiting", "answered"}
    /\ run[r].owner = q /\ run[r].timers
    /\ Keep(r, Aborted(r, run[r]),
            IF run[r].parked THEN [held EXCEPT ![r] = 0] ELSE held,
            [req EXCEPT ![q].phase = "failed"])

-----------------------------------------------------------------------------
(* The stream's 'data' handler                                             *)

BeginChunk(r) ==
    /\ AtRest
    /\ run[r].stream = "open" /\ ~run[r].settled
    /\ reading' = r
    /\ readingHeld' = run[r].parked
    /\ run' = [run EXCEPT ![r].emit = @ /\ ~run[r].parked]
    /\ Standing /\ UNCHANGED <<held, parks, req>>

\* A frame of the chunk in hand.  Nothing follows a trailer, and what follows
\* a settled Run has no effect on the state kept here.
NextFrame(r) ==
    /\ reading = r
    /\ ~run[r].settled /\ ~run[r].streamEnded
    /\ Standing /\ UNCHANGED <<reading, readingHeld>>

\* onInteraction: an update restarts the settle window of a batch.
Interaction(x) == IF x.execs # {} THEN ScheduleHold(x) ELSE x

FrameText(r) ==
    /\ NextFrame(r)
    /\ Keep(r, [Interaction(run[r]) EXCEPT !.fresh = TRUE, !.told = @ \/ run[r].emit],
            held, req)

\* toolCallStarted or partialToolCall of a call not seen yet
FrameAnnounce(r) ==
    /\ NextFrame(r)
    /\ run[r].slots < MaxSlots
    /\ Keep(r, [Interaction(run[r]) EXCEPT !.slots = @ + 1], held, req)

\* A call that has a slot, or the one that would get the next.
Reachable(x) == {i \in Slots : i <= x.slots + 1}

\* Mutant: a call that was announced gets a second slot when it completes.
WithCall_NewSlot(x, i) == [x EXCEPT !.slots = @ + 1, !.done = @ \cup {i}]

WithCall(x, i) == [x EXCEPT !.slots = IF i > @ THEN i ELSE @, !.done = @ \cup {i}]

\* toolCallCompleted: complete, but no exec waits for the result
FrameCallCompleted(r, i) ==
    /\ NextFrame(r)
    /\ i \in Reachable(run[r]) \ run[r].done
    /\ Keep(r, WithCall(Interaction(run[r]), i), held, req)

\* mcpArgs or a promoted builtin: the exec is held until the client answers.
\* At max_tool_calls the batch is held at once, inside the 'data' handler.
FrameExec(r, i) ==
    LET x == [WithCall(run[r], i) EXCEPT !.execs = @ \cup {i}] IN
    /\ NextFrame(r)
    /\ i \in Reachable(run[r]) \ (run[r].execs \cup run[r].sent)
    /\ IF AtMaximum(x) THEN Hold(r, x) ELSE Keep(r, ScheduleHold(x), held, req)

FrameTurnEnded(r) ==
    /\ NextFrame(r)
    /\ Keep(r, [Interaction(run[r]) EXCEPT !.turnEnded = TRUE], held, req)

FrameTrailer(r) ==
    /\ NextFrame(r)
    /\ Keep(r, [run[r] EXCEPT !.streamEnded = TRUE], held, req)

\* A frame the bridge cannot serve: an undeclared tool, an unknown exec or KV
\* message.  Its handler calls finish(error).
FrameUnservable(r) ==
    /\ NextFrame(r)
    /\ FinishWithError(r, run[r], held, req)

\* The handler throws: a trailer with an error, a frame that cannot be decoded
\* or reconciled, output over the limit.  A hold that has more calls to give
\* survives a terminal error.
ChunkThrows(r) ==
    LET x == run[r] IN
    /\ reading = r /\ reading' = NoRun /\ readingHeld' = FALSE
    /\ Standing
    /\ ~x.settled
    /\ \/ /\ x.parked /\ CompletedCalls(x) # {}
          /\ Keep(r, [CloseTransport(x) EXCEPT !.streamEnded = TRUE], held, req)
       \/ /\ x.parked
          /\ ReleaseParked(r, x)
       \/ /\ ~x.parked
          /\ FinishWithError(r, x, held, req)

\* Mutant: a hold whose turn ended with no call left stays in the store.
EndChunk_KeepsEnded(r) ==
    LET x == run[r]
        y == IF x.streamEnded THEN CloseTransport(x) ELSE x
    IN
    /\ reading = r /\ reading' = NoRun /\ readingHeld' = FALSE
    /\ Standing
    /\ IF readingHeld
       THEN Keep(r, y, IF x.settled THEN [held EXCEPT ![r] = 0] ELSE held, req)
       ELSE IF Running(x) /\ Ended(x) THEN Drain(r, y, held, req)
            ELSE Keep(r, y, held, req)

\* After the last frame.  closeTransport() comes after drain() in the code and
\* commutes with it.
EndChunk(r) ==
    LET x == run[r]
        y == IF x.streamEnded THEN CloseTransport(x) ELSE x
    IN
    /\ reading = r /\ reading' = NoRun /\ readingHeld' = FALSE
    /\ Standing
    /\ IF readingHeld
       THEN IF x.settled THEN Keep(r, y, [held EXCEPT ![r] = 0], req)
            ELSE IF Ended(x) /\ CompletedCalls(x) = {} THEN ReleaseParked(r, x)
            ELSE Keep(r, y, held, req)
       ELSE IF Running(x) /\ Ended(x) THEN Drain(r, y, held, req)
            ELSE Keep(r, y, held, req)

-----------------------------------------------------------------------------
(* The stream's other events, and the timers                               *)

\* A hold that has calls to give survives 'error' and 'close'.
StreamGone(r, x) ==
    IF x.parked
    THEN IF CompletedCalls(x) # {}
         THEN Keep(r, [x EXCEPT !.streamEnded = TRUE, !.active = FALSE], held, req)
         ELSE ReleaseParked(r, x)
    ELSE FinishWithError(r, x, held, req)

StreamError(r) ==
    /\ NotReading /\ Standing
    /\ run[r].stream \in {"open", "closing"}
    /\ StreamGone(r, Hangup(run[r]))

StreamClosed(r) ==
    /\ NotReading /\ Standing
    /\ run[r].stream \in {"open", "closing"}
    /\ StreamGone(r, [run[r] EXCEPT !.stream = "closed"])

\* The response headers, before any frame, say something else than 200.
BadStatus(r) ==
    /\ NotReading /\ Standing
    /\ run[r].stream = "open"
    /\ run[r].slots = 0 /\ ~run[r].fresh /\ ~Ended(run[r])
    /\ FinishWithError(r, run[r], held, req)

HoldTimer(r) ==
    /\ NotReading /\ Standing
    /\ run[r].holdTimer
    /\ Hold(r, [run[r] EXCEPT !.holdTimer = FALSE])

RunTimeout(r) ==
    /\ NotReading /\ Standing
    /\ run[r].timers
    /\ IF run[r].parked THEN ReleaseParked(r, run[r])
       ELSE FinishWithError(r, run[r], held, req)

IdleTimeout(r) ==
    /\ NotReading /\ Standing
    /\ run[r].timers /\ Running(run[r])
    /\ FinishWithError(r, run[r], held, req)

-----------------------------------------------------------------------------
(* The backend                                                             *)

\* Mutant: only the holds of the credential are ended.
RevokeCredential_HoldsOnly(c) ==
    LET hit(r) == run[r].cred = c /\ InStore(r) IN
    /\ NotReading /\ UNCHANGED <<down, parks, req>>
    /\ c \notin revoked
    /\ revoked' = revoked \cup {c}
    /\ run' = [r \in Runs |-> IF hit(r) THEN Release(run[r]) ELSE run[r]]
    /\ held' = [r \in Runs |-> IF hit(r) THEN 0 ELSE held[r]]

\* updateCredentials: the credential's holds are released, then its signal
\* reaches the Runs that still listen.
RevokeCredential(c) ==
    LET hit(r) == run[r].cred = c /\ run[r].timers IN
    /\ NotReading /\ UNCHANGED <<down, parks>>
    /\ c \notin revoked
    /\ revoked' = revoked \cup {c}
    /\ run' = [r \in Runs |-> IF hit(r) THEN Aborted(r, run[r]) ELSE run[r]]
    /\ held' = [r \in Runs |-> IF run[r].cred = c THEN 0 ELSE held[r]]
    /\ req' = [q \in Requests |->
                 IF \E r \in Runs : hit(r) /\ run[r].owner = q
                 THEN Reject(req, q)[q] ELSE req[q]]

\* shutdown(): the store is cleared, then the active streams are destroyed and
\* the 'error' of each settles its Run.
Shutdown ==
    LET cleared(r) == IF InStore(r) THEN Release(run[r]) ELSE run[r]
        cut == {r \in Runs : cleared(r).active}
    IN  /\ NotReading /\ UNCHANGED <<revoked, parks>>
        /\ ~down
        /\ down' = TRUE
        /\ run' = [r \in Runs |-> IF r \in cut THEN Settle(cleared(r))
                                  ELSE cleared(r)]
        /\ held' = [r \in Runs |-> 0]
        /\ req' = [q \in Requests |-> IF \E r \in cut : run[r].owner = q
                                      THEN Reject(req, q)[q] ELSE req[q]]

-----------------------------------------------------------------------------
Data(r) ==
    \/ BeginChunk(r)
    \/ FrameText(r)
    \/ FrameAnnounce(r)
    \/ \E i \in Slots : FrameCallCompleted(r, i)
    \/ \E i \in Slots : FrameExec(r, i)
    \/ FrameTurnEnded(r)
    \/ FrameTrailer(r)
    \/ FrameUnservable(r)
    \/ ChunkThrows(r)
    \/ EndChunk(r)

Event(r) ==
    \/ StreamError(r)
    \/ StreamClosed(r)
    \/ BadStatus(r)
    \/ HoldTimer(r)
    \/ RunTimeout(r)
    \/ IdleTimeout(r)

Request(q) ==
    \/ \E k \in Contracts, c \in Creds : SendFresh(q, k, c)
    \/ \E p \in Requests : ResumeRun(q, p)
    \/ \E p \in Requests : ResumeAborted(q, p)
    \/ \E p \in Requests, k \in Contracts, c \in Creds :
          MismatchedContinuation(q, p, k, c)
    \/ \E r \in Runs : OpenRun(q, r)
    \/ OpenFails(q)
    \/ Deliver(q)
    \/ RefuseCalls(q)
    \/ AbortWhileOpening(q)
    \/ \E r \in Runs : Disconnect(q, r)

Next ==
    \/ \E r \in Runs : Data(r) \/ Event(r)
    \/ \E q \in Requests : Request(q)
    \/ \E c \in Creds : RevokeCredential(c)
    \/ Shutdown

Spec == Init /\ [][Next]_vars

\* A 'data' handler returns, and a timer that is due goes off between two
\* handlers, however many chunks the stream delivers: strong fairness.
Fairness ==
    \A r \in Runs : WF_vars(EndChunk(r)) /\ SF_vars(RunTimeout(r))

FairSpec == Spec /\ Fairness

-----------------------------------------------------------------------------
(* What a Run that outlives its request must keep.                         *)

\* Every variable has its type, in every handler and between two of them: the
\* sets of calls of a Run are slots it has, and a request is in one phase.
TypeOK ==
    /\ run \in [Runs -> RunState]
    /\ held \in [Runs -> Nat]
    /\ parks \in Nat
    /\ req \in [Requests -> RequestState]
    /\ revoked \subseteq Creds
    /\ down \in BOOLEAN
    /\ reading \in Runs \cup {NoRun}
    /\ readingHeld \in BOOLEAN

\* What the store holds is a Run that waits for a client, and every such Run: one that
\* still talks, or has calls left to give.  A request that takes a hold finds a Run
\* that can serve it.
HoldsAreUsable ==
    AtRest => \A r \in Runs :
        /\ InStore(r) <=> run[r].parked /\ ~run[r].settled
        /\ InStore(r) /\ Ended(run[r]) => CompletedCalls(run[r]) # {}

\* CURSOR_BRIDGE_MAX_HELD_RUNS is never exceeded, not even while a chunk is read.
CapacityRespected == Cardinality({r \in Runs : InStore(r)}) <= Capacity

\* The key of every hold is the ids of the calls that its owner was answered
\* with: the client's next request finds the Run it answers.
HoldsAreAnswerable ==
    AtRest => \A r \in Runs : InStore(r) =>
        /\ run[r].owner \in Requests
        /\ req[run[r].owner].phase \in {"answered", "done"}
        /\ req[run[r].owner].run = r
        /\ req[run[r].owner].calls = run[r].hold

\* A request whose promise is pending is the owner of a Run that goes on and
\* that the ceiling timer will end: nobody waits on a Run that is over.
WaitingIsServed ==
    AtRest => \A q \in Requests : req[q].phase = "waiting" =>
        \E r \in Runs : run[r].owner = q /\ Running(run[r]) /\ run[r].timers

\* A tool call is handed out once, whatever the rounds of the Run: two answers
\* of one Run share no call.
SurfacedOnce ==
    \A p, q \in Requests :
        p # q /\ req[p].run = req[q].run => req[p].calls \cap req[q].calls = {}

\* What goes upstream as a tool's result is the answer to a call that some
\* client had been given before.
ResultsAnswerCalls ==
    [][\A r \in Runs : \A i \in run'[r].sent \ run[r].sent :
          \E q \in Requests : req[q].run = r /\ i \in req[q].calls]_vars

\* An opened Run without its timers has let go of everything else too: its
\* stream is going away, no settle timer is left, it is not among the active
\* streams and no request can take it.
TornDown ==
    AtRest => \A r \in Runs : run[r].stream # "none" /\ ~run[r].timers =>
        /\ run[r].stream # "open"
        /\ ~run[r].holdTimer /\ ~run[r].active /\ ~InStore(r)

\* What the operator ends is ended wherever it stands: no Run of a replaced credential
\* goes on, in the store or out of it; and after shutdown() no Run is held and none has a
\* stream that still talks.
BackendEndsRuns ==
    /\ AtRest => \A r \in Runs : run[r].cred \in revoked => ~InStore(r) /\ ~run[r].timers
    /\ down => \A r \in Runs : ~InStore(r) /\ run[r].stream # "open"

\* Text that a held Run has in hand for its next request went to no request
\* before: a resumed response does not repeat what the one before it showed.
TextToldOnce ==
    \A r \in Runs : InStore(r) => ~(run[r].fresh /\ run[r].told)

\* A Run that was opened is torn down, with its timers and its abort listener, however
\* often it is parked and resumed; and every request that got a Run is answered or
\* refused, within the ceiling.
RunsEnd ==
    /\ \A r \in Runs : run[r].timers ~> ~run[r].timers
    /\ \A q \in Requests : req[q].phase = "waiting" ~> req[q].phase # "waiting"

=============================================================================
