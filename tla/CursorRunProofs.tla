--------------------------- MODULE CursorRunProofs ---------------------------
(***************************************************************************)
(* Theorems about CursorRun, for every value of its constants.             *)
(*                                                                         *)
(* The first invariant, IInv.  Every handler ends in one of a few          *)
(* fragments (Keep, FinishWithError, Park, SurfaceBatch, Drain, ...).  A   *)
(* lemma per fragment says that its outcome is Good: typed, within the     *)
(* capacity of the store, no Run forgets a call it surfaced, and at most   *)
(* one request is answered, with calls its Run did not surface before.     *)
(* The lemma of an action then only says which fragment it ends in, and    *)
(* the invariants follow from Good.                                        *)
(*                                                                         *)
(* The second invariant, HInv, adds to IInv the World: what is left of a   *)
(* Run that is over, what the operator has ended and, when requests set no *)
(* max_tool_calls, what a hold promises.  Its lemmas follow the same       *)
(* fragments.                                                              *)
(*                                                                         *)
(* The last part follows the results that are sent: all operators but      *)
(* Resumed leave them alone.                                               *)
(***************************************************************************)
EXTENDS CursorRun, FiniteSetTheorems, TLAPS

\* A Run that was never opened has no call, one that was has an owner.
RunOK(x) ==
    /\ x \in RunState
    /\ x.stream = "none" => x.done = {} /\ x.surfaced = {}
    /\ x.stream # "none" => x.owner \in Requests

\* y is a later state of the Run that was x.
Later(x, y) ==
    /\ RunOK(y)
    /\ x.surfaced \subseteq y.surfaced
    /\ x.stream # "none" => y.stream # "none"

Stored(h) == {t \in Runs : h[t] > 0}

StoreOK(h) == h \in [Runs -> Nat] /\ Cardinality(Stored(h)) <= Capacity

\* rq differs from the requests as they are only in phases and contracts.
SameAnswers(rq) ==
    /\ rq \in [Requests -> RequestState]
    /\ \A q \in Requests : rq[q].calls = req[q].calls /\ rq[q].run = req[q].run

\* rq answers one request more, with calls that r surfaces in this step.
OneAnswer(rq, r, x) ==
    /\ rq \in [Requests -> RequestState]
    /\ \E p \in Requests :
          /\ rq[p].run = r
          /\ rq[p].calls \subseteq x.surfaced \ run[r].surfaced
          /\ \A q \in Requests \ {p} :
                rq[q].calls = req[q].calls /\ rq[q].run = req[q].run

GoodRuns ==
    /\ run' \in [Runs -> RunState]
    /\ \A t \in Runs : Later(run[t], run'[t])
    /\ StoreOK(held') /\ parks' \in Nat

Good(r) == GoodRuns /\ (SameAnswers(req') \/ OneAnswer(req', r, run'[r]))

GoodStep == (GoodRuns /\ SameAnswers(req')) \/ \E r \in Runs : Good(r)

AnswersSurfaced ==
    \A q \in Requests : req[q].calls # {} =>
        req[q].run \in Runs /\ req[q].calls \subseteq run[req[q].run].surfaced

IInv ==
    /\ TypeOK
    /\ StoreOK(held)
    /\ \A r \in Runs : RunOK(run[r])
    /\ reading \in Runs => run[reading].stream # "none"
    /\ AnswersSurfaced
    /\ SurfacedOnce

-----------------------------------------------------------------------------
(* The operators on the state of one Run                                   *)

\* An earlier state of an earlier state is an earlier state.
LEMMA LaterTransitive ==
    ASSUME NEW x, NEW y, NEW z, Later(x, y), Later(y, z)
    PROVE  Later(x, z)
BY DEF Later

\* Clearing the flags of a Run loses nothing of it.
LEMMA FlagUpdates ==
    ASSUME NEW x, RunOK(x)
    PROVE  /\ Later(x, x)
           /\ Later(x, [x EXCEPT !.active = FALSE])
           /\ Later(x, [x EXCEPT !.settled = TRUE])
           /\ Later(x, [x EXCEPT !.parked = FALSE])
           /\ Later(x, [x EXCEPT !.holdTimer = FALSE])
           /\ Later(x, [x EXCEPT !.holdTimer = TRUE])
<1>1. Later(x, x)
  BY DEF RunOK, Later
<1>2. Later(x, [x EXCEPT !.active = FALSE])
  BY DEF RunOK, Later, RunState
<1>3. Later(x, [x EXCEPT !.settled = TRUE])
  BY DEF RunOK, Later, RunState
<1>4. Later(x, [x EXCEPT !.parked = FALSE])
  BY DEF RunOK, Later, RunState
<1>5. Later(x, [x EXCEPT !.holdTimer = FALSE])
  BY DEF RunOK, Later, RunState
<1>6. Later(x, [x EXCEPT !.holdTimer = TRUE])
  BY DEF RunOK, Later, RunState
<1> QED
  BY <1>1, <1>2, <1>3, <1>4, <1>5, <1>6

\* cleanup(), ending the stream and finish() lose nothing of a Run.
LEMMA EndOperators ==
    ASSUME NEW x, RunOK(x)
    PROVE  /\ Later(x, Cleanup(x)) /\ Later(x, Hangup(x))
           /\ Later(x, CloseTransport(x)) /\ Later(x, Settle(x))
<1>1. Later(x, Cleanup(x))
  BY DEF RunOK, Later, RunState, Cleanup
<1>2. ASSUME NEW y, RunOK(y) PROVE Later(y, Hangup(y))
  BY <1>2 DEF RunOK, Later, RunState, Hangup
<1>3. Later(x, CloseTransport(x))
  <2>1. Later(x, Hangup(x))
    BY <1>2
  <2>2. Later(Hangup(x), [Hangup(x) EXCEPT !.active = FALSE])
    BY <2>1, FlagUpdates DEF Later
  <2> QED
    BY <2>1, <2>2, LaterTransitive DEF CloseTransport
<1>4. Later(x, Settle(x))
  <2> DEFINE y == Hangup(Cleanup(x))
  <2>1. Later(Cleanup(x), y)
    BY <1>1, <1>2 DEF Later
  <2>2. Later(y, [y EXCEPT !.settled = TRUE])
    <3> HIDE DEF y
    <3> QED BY <2>1, FlagUpdates DEF Later
  <2>3. Later(x, [y EXCEPT !.settled = TRUE])
    BY <1>1, <2>1, <2>2, LaterTransitive
  <2> QED
    BY <2>3, FlagUpdates DEF Settle
<1> QED
  BY <1>1, <1>2, <1>3, <1>4

\* HeldRun.release, releaseParked() and onAbort() lose nothing of a Run.
LEMMA ReleaseOperators ==
    ASSUME NEW x, RunOK(x), NEW r \in Runs
    PROVE  Later(x, Release(x)) /\ Later(x, ReleasedParked(r, x)) /\ Later(x, Aborted(r, x))
<1> DEFINE y == [x EXCEPT !.parked = FALSE]
<1>1. Later(x, y) /\ Later(x, x)
  BY FlagUpdates
<1>2. Later(x, Settle(y))
  <2>1. Later(y, Settle(y))
    <3> HIDE DEF y
    <3> QED BY <1>1, EndOperators DEF Later
  <2> QED
    BY <1>1, <2>1, LaterTransitive
<1>3. Later(x, Release(x))
  BY <1>1, <1>2 DEF Release
<1>4. Later(x, Hangup(Cleanup(x)))
  <2>1. Later(x, Cleanup(x)) /\ RunOK(Cleanup(x))
    BY EndOperators DEF Later
  <2>2. Later(Cleanup(x), Hangup(Cleanup(x)))
    BY <2>1, EndOperators
  <2> QED
    BY <2>1, <2>2, LaterTransitive
<1>5. Later(x, Settle(x))
  BY EndOperators
<1> QED
  BY <1>3, <1>4, <1>5 DEF ReleasedParked, Aborted

\* The calls a Run hands out are calls it completed and did not hand out before.
LEMMA CallsAreNew ==
    ASSUME NEW x, RunOK(x)
    PROVE  CompletedCalls(x) \subseteq Slots /\ CompletedCalls(x) \subseteq x.done \ x.surfaced
BY DEF RunOK, RunState, CompletedCalls, Unsurfaced
-----------------------------------------------------------------------------
(* Promises                                                                *)

\* A rejected promise changes no answer.
LEMMA RejectKeepsAnswers ==
    ASSUME NEW rq, SameAnswers(rq), NEW q
    PROVE  SameAnswers(Reject(rq, q))
BY DEF SameAnswers, Reject, RequestState, RequestPhase

\* A resolved promise gives one request calls that were not handed out before.
LEMMA AnswerGivesNewCalls ==
    ASSUME NEW rq, SameAnswers(rq), NEW q, NEW r \in Runs, NEW calls \in SUBSET Slots,
           NEW y, calls \subseteq y.surfaced \ run[r].surfaced
    PROVE  SameAnswers(Answer(rq, q, r, calls)) \/ OneAnswer(Answer(rq, q, r, calls), r, y)
<1> DEFINE ans == Answer(rq, q, r, calls)
<1>1. Capped(calls) \subseteq calls
  BY DEF Capped
<1>2. ans \in [Requests -> RequestState]
  BY <1>1 DEF Answer, SameAnswers, RequestState, RequestPhase
<1>3. CASE q \in Requests /\ rq[q].phase = "waiting"
  <2>1. ans[q].run = r /\ ans[q].calls \subseteq y.surfaced \ run[r].surfaced
    BY <1>1, <1>3 DEF Answer, SameAnswers, RequestState
  <2>2. \A p \in Requests \ {q} : ans[p].calls = req[p].calls /\ ans[p].run = req[p].run
    BY <1>3 DEF Answer, SameAnswers
  <2> QED
    BY <1>2, <1>3, <2>1, <2>2 DEF OneAnswer
<1>4. CASE ~(q \in Requests /\ rq[q].phase = "waiting")
  BY <1>2, <1>4 DEF Answer, SameAnswers
<1> QED
  BY <1>3, <1>4

-----------------------------------------------------------------------------
(* The fragments a handler ends in                                         *)

\* A handler that changes one Run and no other.
LEMMA KeepGood ==
    ASSUME IInv, NEW r \in Runs, NEW x, Later(run[r], x), NEW h, StoreOK(h), NEW rq,
           SameAnswers(rq) \/ OneAnswer(rq, r, x), Keep(r, x, h, rq)
    PROVE  Good(r)
<1>1. run' \in [Runs -> RunState] /\ run'[r] = x
  BY DEF Keep, Later, RunOK, IInv, TypeOK
<1>2. \A t \in Runs : Later(run[t], run'[t])
  BY FlagUpdates DEF Keep, IInv, TypeOK
<1> QED
  BY <1>1, <1>2 DEF Keep, Good, GoodRuns, IInv, TypeOK

\* finish(error)
LEMMA FinishWithErrorGood ==
    ASSUME IInv, NEW r \in Runs, NEW x, Later(run[r], x), NEW h, StoreOK(h), NEW rq,
           SameAnswers(rq), FinishWithError(r, x, h, rq)
    PROVE  Good(r)
<1>1. Later(run[r], Settle(x))
  BY EndOperators, LaterTransitive DEF Later
<1> QED
  BY <1>1, RejectKeepsAnswers, KeepGood DEF FinishWithError

\* finish() with what text there is
LEMMA FinishWithTextGood ==
    ASSUME IInv, NEW r \in Runs, NEW x, Later(run[r], x), NEW h, StoreOK(h), NEW rq,
           SameAnswers(rq), FinishWithText(r, x, h, rq)
    PROVE  Good(r)
<1>1. Later(run[r], Settle(x))
  BY EndOperators, LaterTransitive DEF Later
<1>2. LET rr == Answer(rq, x.owner, r, {})
      IN  SameAnswers(rr) \/ OneAnswer(rr, r, Settle(x))
  BY AnswerGivesNewCalls
<1> QED
  BY <1>1, <1>2, KeepGood DEF FinishWithText

\* A hold that is forgotten makes room in the store.
LEMMA RemoveFromStore ==
    ASSUME NEW h, StoreOK(h), NEW r \in Runs
    PROVE  StoreOK([h EXCEPT ![r] = 0])
<1> DEFINE g == [h EXCEPT ![r] = 0]
<1>1. g \in [Runs -> Nat] /\ Stored(g) \subseteq Stored(h)
  BY DEF StoreOK, Stored
<1>2. IsFiniteSet(Stored(h)) /\ Capacity \in Nat
  BY CursorRunAssumption, FS_Subset DEF Stored
<1>3. Cardinality(Stored(g)) <= Cardinality(Stored(h))
      /\ Cardinality(Stored(g)) \in Nat /\ Cardinality(Stored(h)) \in Nat
  BY <1>1, <1>2, FS_Subset, FS_CardinalityType
<1> QED
  BY <1>1, <1>2, <1>3 DEF StoreOK

\* releaseParked()
LEMMA ReleaseParkedGood ==
    ASSUME IInv, NEW r \in Runs, NEW x, Later(run[r], x), ReleaseParked(r, x)
    PROVE  Good(r)
<1>1. Later(run[r], ReleasedParked(r, x))
  BY ReleaseOperators, LaterTransitive DEF Later
<1>2. StoreOK([held EXCEPT ![r] = 0])
  BY RemoveFromStore DEF IInv
<1>3. SameAnswers(req)
  BY DEF SameAnswers, IInv, TypeOK
<1> QED
  BY <1>1, <1>2, <1>3, RejectKeepsAnswers, KeepGood DEF ReleaseParked

\* StickyRunStore.park never leaves more holds than the capacity.
LEMMA ParkKeepsCapacity ==
    ASSUME IInv, NEW r \in Runs, NEW x, NEW h, StoreOK(h), Park(r, x, h)
    PROVE  StoreOK(held')
<1> DEFINE Held == Stored(h)
<1>1. IsFiniteSet(Held) /\ Cardinality(Held) \in Nat /\ Capacity \in Nat /\ parks + 1 \in Nat
  BY CursorRunAssumption, FS_Subset, FS_CardinalityType DEF Stored, IInv, TypeOK
<1>2. held' \in [Runs -> Nat]
  BY <1>1 DEF Park, StoreOK
<1>3. CASE Cardinality(Held) < Capacity
  <2>1. Stored(held') \subseteq Held \cup {r}
    BY <1>3 DEF Park, Stored, StoreOK
  <2>2. IsFiniteSet(Held \cup {r}) /\ Cardinality(Held \cup {r}) <= Cardinality(Held) + 1
    <3> HIDE DEF Held
    <3>1. /\ IsFiniteSet(Held \cup {r})
          /\ Cardinality(Held \cup {r}) = IF r \in Held THEN Cardinality(Held)
                                         ELSE Cardinality(Held) + 1
      BY <1>1, FS_AddElement
    <3> QED
      BY <1>1, <3>1
  <2>3. /\ Cardinality(Stored(held')) <= Cardinality(Held \cup {r})
        /\ Cardinality(Stored(held')) \in Nat /\ Cardinality(Held \cup {r}) \in Nat
    BY <2>1, <2>2, FS_Subset, FS_CardinalityType
  <2> QED
    BY <1>1, <1>2, <1>3, <2>2, <2>3 DEF StoreOK
<1>4. CASE ~(Cardinality(Held) < Capacity)
  <2>1. PICK oldest \in Held : held' = [h EXCEPT ![oldest] = 0, ![r] = parks + 1]
    BY <1>1, <1>4 DEF Park, Stored
  <2> DEFINE Rest == Held \ {oldest}
  <2>2. Stored(held') \subseteq Rest \cup {r}
    BY <2>1 DEF Stored, StoreOK
  <2>3. IsFiniteSet(Rest) /\ Cardinality(Rest) = Cardinality(Held) - 1
    BY <1>1, FS_RemoveElement
  <2>4. /\ IsFiniteSet(Rest \cup {r}) /\ Cardinality(Rest) \in Nat
        /\ Cardinality(Rest \cup {r}) <= Cardinality(Rest) + 1
    BY <2>3, FS_AddElement, FS_CardinalityType
  <2>5. /\ Cardinality(Stored(held')) <= Cardinality(Rest \cup {r})
        /\ Cardinality(Stored(held')) \in Nat /\ Cardinality(Rest \cup {r}) \in Nat
    BY <2>2, <2>4, FS_Subset, FS_CardinalityType
  <2> QED
    BY <1>1, <1>2, <2>3, <2>4, <2>5 DEF StoreOK
<1> QED
  BY <1>3, <1>4

\* Parking changes the Run that parks and, when there is no room, one other.
LEMMA ParkGood ==
    ASSUME IInv, NEW r \in Runs, NEW x, Later(run[r], x), NEW h, StoreOK(h), NEW rq,
           SameAnswers(rq) \/ OneAnswer(rq, r, x), Park(r, x, h), req' = rq
    PROVE  Good(r)
<1>1. run'[r] = x /\ run' \in [Runs -> RunState]
  BY ReleaseOperators DEF Park, Later, RunOK, IInv, TypeOK
<1>2. \A t \in Runs \ {r} : run'[t] = run[t] \/ run'[t] = Release(run[t])
  BY DEF Park, IInv, TypeOK
<1>3. \A t \in Runs : Later(run[t], run'[t])
  BY <1>1, <1>2, FlagUpdates, ReleaseOperators DEF IInv
<1>4. StoreOK(held')
  BY ParkKeepsCapacity
<1>5. parks' \in Nat
  BY DEF Park, IInv, TypeOK
<1> QED
  BY <1>1, <1>3, <1>4, <1>5 DEF Good, GoodRuns

\* surfaceBatch() answers the owner with calls that no request was given.
LEMMA SurfaceBatchGood ==
    ASSUME IInv, NEW r \in Runs, NEW x, Later(run[r], x), NEW h, StoreOK(h), NEW rq,
           SameAnswers(rq), SurfaceBatch(r, x, h, rq)
    PROVE  Good(r)
<1> DEFINE calls == CompletedCalls(x)
           y == [x EXCEPT !.holdTimer = FALSE, !.surfaced = @ \cup calls,
                          !.fresh = FALSE, !.told = FALSE]
           z == [y EXCEPT !.parked = TRUE, !.hold = calls]
           answered == Answer(rq, x.owner, r, calls)
<1>1. calls \subseteq Slots /\ calls \subseteq x.done \ x.surfaced
  BY CallsAreNew DEF Later
<1>2. Later(x, y) /\ y.surfaced = x.surfaced \cup calls
  BY <1>1 DEF Later, RunOK, RunState
<1>3. Later(x, z) /\ z.surfaced = x.surfaced \cup calls
  BY <1>1 DEF Later, RunOK, RunState
<1>4. Later(y, Settle(y)) /\ Settle(y).surfaced = y.surfaced
  <2>1. ASSUME NEW w, RunOK(w) PROVE Settle(w).surfaced = w.surfaced
    BY <2>1 DEF Settle, Hangup, Cleanup, RunOK, RunState
  <2>2. RunOK(y)
    BY <1>2 DEF Later
  <2> HIDE DEF y
  <2> QED
    BY <2>1, <2>2, EndOperators
<1>5. calls \subseteq (x.surfaced \cup calls) \ run[r].surfaced
  BY <1>1 DEF Later
<1>6. SameAnswers(answered) \/ OneAnswer(answered, r, z)
  BY <1>1, <1>3, <1>5, AnswerGivesNewCalls
<1>7. SameAnswers(answered) \/ OneAnswer(answered, r, Settle(y))
  BY <1>1, <1>2, <1>4, <1>5, AnswerGivesNewCalls
<1>8. Later(run[r], z) /\ Later(run[r], Settle(y))
  BY <1>2, <1>3, <1>4, LaterTransitive
<1>9. \/ Park(r, z, h) /\ req' = answered
      \/ Keep(r, Settle(y), h, answered)
  BY DEF SurfaceBatch
<1> HIDE DEF y, z, answered, calls
<1> QED
  BY <1>6, <1>7, <1>8, <1>9, ParkGood, KeepGood

\* drain()
LEMMA DrainGood ==
    ASSUME IInv, NEW r \in Runs, NEW x, Later(run[r], x), NEW h, StoreOK(h), NEW rq,
           SameAnswers(rq), Drain(r, x, h, rq)
    PROVE  Good(r)
BY SurfaceBatchGood, FinishWithErrorGood, FinishWithTextGood, KeepGood DEF Drain

\* hold()
LEMMA HoldGood ==
    ASSUME IInv, NEW r \in Runs, NEW x, Later(run[r], x), Hold(r, x)
    PROVE  Good(r)
<1>1. StoreOK(held) /\ SameAnswers(req)
  BY DEF IInv, SameAnswers, TypeOK
<1>2. Later(run[r], ScheduleHold(x))
  BY FlagUpdates, LaterTransitive DEF ScheduleHold, Later
<1> QED
  BY <1>1, <1>2, KeepGood, DrainGood DEF Hold

-----------------------------------------------------------------------------
(* The actions                                                             *)

\* Waiting, refusing and the like change no answer of a request.
LEMMA PhaseUpdates ==
    ASSUME IInv, NEW q \in Requests, NEW ph \in RequestPhase,
           NEW k \in Contracts \cup {NoContract}, NEW c \in Creds \cup {NoCred}
    PROVE  /\ SameAnswers(req)
           /\ SameAnswers([req EXCEPT ![q].phase = ph])
           /\ SameAnswers([req EXCEPT ![q].phase = ph, ![q].contract = k])
           /\ SameAnswers([req EXCEPT ![q].phase = ph, ![q].contract = k, ![q].cred = c])
<1>1. req \in [Requests -> RequestState]
  BY DEF IInv, TypeOK
<1>2. ASSUME NEW s \in RequestState, s.calls = req[q].calls, s.run = req[q].run
      PROVE  SameAnswers([req EXCEPT ![q] = s])
  BY <1>1, <1>2 DEF SameAnswers
<1>3. /\ [req[q] EXCEPT !.phase = ph] \in RequestState
      /\ [req[q] EXCEPT !.phase = ph, !.contract = k] \in RequestState
      /\ [req[q] EXCEPT !.phase = ph, !.contract = k, !.cred = c] \in RequestState
  BY <1>1 DEF RequestState
<1>4. SameAnswers([req EXCEPT ![q].phase = ph])
  BY <1>1, <1>2, <1>3 DEF RequestState
<1>5. SameAnswers([req EXCEPT ![q].phase = ph, ![q].contract = k])
  BY <1>1, <1>2, <1>3 DEF RequestState
<1>6. SameAnswers([req EXCEPT ![q].phase = ph, ![q].contract = k, ![q].cred = c])
  BY <1>1, <1>2, <1>3 DEF RequestState
<1>7. SameAnswers(req)
  BY <1>1 DEF SameAnswers
<1> QED
  BY <1>4, <1>5, <1>6, <1>7

\* A step that leaves the Runs and the store alone.
LEMMA RunsUnchanged ==
    ASSUME IInv, UNCHANGED <<run, held, parks>>, SameAnswers(req')
    PROVE  GoodStep
BY FlagUpdates DEF IInv, TypeOK, GoodStep, GoodRuns

\* resume() up to drain() loses nothing of the Run.
LEMMA ResumedLater ==
    ASSUME NEW x, RunOK(x), x.stream # "none", NEW q \in Requests
    PROVE  Later(x, Resumed(x, q))
<1> DEFINE e == q \in Streaming
           f == x.fresh /\ q \notin Streaming
           t == x.told /\ q \notin Streaming
           s == IF Ended(x) THEN x.sent ELSE x.sent \cup (x.execs \cap x.hold)
           h == x.execs \ x.hold
<1>1. e \in BOOLEAN /\ f \in BOOLEAN /\ t \in BOOLEAN
  OBVIOUS
<1>2. s \in SUBSET Slots /\ h \in SUBSET Slots
  BY DEF RunOK, RunState
<1>3. Resumed(x, q) = [x EXCEPT !.parked = FALSE, !.owner = q, !.active = TRUE, !.emit = e,
                                !.fresh = f, !.told = t, !.sent = s, !.execs = h]
  BY DEF Resumed
<1> HIDE DEF e, f, t, s, h
<1>4. Later(x, [x EXCEPT !.parked = FALSE, !.owner = q, !.active = TRUE, !.emit = e])
  BY <1>1 DEF RunOK, Later, RunState
<1>5. ASSUME NEW y, RunOK(y)
      PROVE  Later(y, [y EXCEPT !.fresh = f, !.told = t, !.sent = s, !.execs = h])
  <2>1. ASSUME NEW z, RunOK(z) PROVE Later(z, [z EXCEPT !.sent = s, !.execs = h])
    BY <1>2, <2>1 DEF RunOK, Later, RunState
  <2>2. Later(y, [y EXCEPT !.fresh = f, !.told = t])
    BY <1>1, <1>5 DEF RunOK, Later, RunState
  <2>3. LET z == [y EXCEPT !.fresh = f, !.told = t]
        IN  Later(y, [z EXCEPT !.sent = s, !.execs = h])
    BY <2>1, <2>2, LaterTransitive DEF Later
  <2> QED
    BY <2>3
<1>6. LET y == [x EXCEPT !.parked = FALSE, !.owner = q, !.active = TRUE, !.emit = e]
      IN  Later(x, [y EXCEPT !.fresh = f, !.told = t, !.sent = s, !.execs = h])
  BY <1>4, <1>5, LaterTransitive DEF Later
<1> QED
  BY <1>3, <1>6

\* A request that answers a hold finds a Run that was opened, by a request.
LEMMA HoldHasOwner ==
    ASSUME IInv, NEW q \in Requests, NEW p \in Requests, AnswersHold(q, p)
    PROVE  /\ req[p].run \in Runs
           /\ RunOK(run[req[p].run]) /\ run[req[p].run].stream # "none"
           /\ run[req[p].run].owner \in Requests
           /\ HoldContract(req[p].run) \in Contracts \cup {NoContract}
BY DEF AnswersHold, IInv, TypeOK, AnswersSurfaced, RunOK, HoldContract, RequestState

\* resumeCursorRun: takes the hold out, then drains the Run.
LEMMA ResumeRunGood ==
    ASSUME IInv, NEW q \in Requests, NEW p \in Requests, ResumeRun(q, p)
    PROVE  GoodStep
<1> DEFINE r == req[p].run
           h == [held EXCEPT ![r] = 0]
           rq == [req EXCEPT ![q].phase = "waiting", ![q].contract = HoldContract(r)]
<1>1. AnswersHold(q, p)
  BY DEF ResumeRun
<1>2. r \in Runs /\ RunOK(run[r]) /\ Later(run[r], run[r]) /\ Later(run[r], Resumed(run[r], q))
  BY <1>1, HoldHasOwner, ResumedLater, FlagUpdates
<1>3. StoreOK(h)
  BY <1>2, RemoveFromStore DEF IInv
<1>4. SameAnswers(rq)
  BY <1>1, HoldHasOwner, PhaseUpdates DEF RequestPhase
<1>5. \/ Keep(r, run[r], h, rq)
      \/ Drain(r, Resumed(run[r], q), h, rq)
  BY DEF ResumeRun
<1> HIDE DEF h, rq, r
<1> QED
  BY <1>2, <1>3, <1>4, <1>5, KeepGood, DrainGood DEF GoodStep

\* A resume that finds its request gone ends the Run.
LEMMA ResumeAbortedGood ==
    ASSUME IInv, NEW q \in Requests, NEW p \in Requests, ResumeAborted(q, p)
    PROVE  GoodStep
<1> DEFINE r == req[p].run
           h == [held EXCEPT ![r] = 0]
           x == [run[r] EXCEPT !.parked = FALSE, !.owner = q, !.emit = q \in Streaming]
           rq == [req EXCEPT ![q].phase = "failed", ![q].contract = HoldContract(r)]
<1>1. AnswersHold(q, p)
  BY DEF ResumeAborted
<1>2. r \in Runs /\ RunOK(run[r]) /\ run[r].stream # "none"
  BY <1>1, HoldHasOwner
<1>3. Later(run[r], x)
  <2>1. ASSUME NEW y, RunOK(y), y.stream # "none", NEW e \in BOOLEAN
        PROVE  Later(y, [y EXCEPT !.parked = FALSE, !.owner = q, !.emit = e])
    BY <2>1 DEF RunOK, Later, RunState
  <2>2. (q \in Streaming) \in BOOLEAN
    OBVIOUS
  <2> QED
    BY <1>2, <2>1, <2>2
<1>4. Later(run[r], Settle(x))
  <2> HIDE DEF x
  <2> QED BY <1>3, EndOperators, LaterTransitive DEF Later
<1>5. StoreOK(h)
  BY <1>2, RemoveFromStore DEF IInv
<1>6. SameAnswers(rq)
  BY <1>1, HoldHasOwner, PhaseUpdates DEF RequestPhase
<1>7. Keep(r, Settle(x), h, rq)
  BY DEF ResumeAborted
<1> HIDE DEF h, rq, x, r
<1> QED
  BY <1>2, <1>4, <1>5, <1>6, <1>7, KeepGood DEF GoodStep

\* The other ways out of the store at a request's hand.
LEMMA MismatchedContinuationGood ==
    ASSUME IInv, NEW q \in Requests, NEW p \in Requests, NEW k \in Contracts, NEW c \in Creds,
           MismatchedContinuation(q, p, k, c)
    PROVE  GoodStep
<1> DEFINE r == req[p].run
           h == [held EXCEPT ![r] = 0]
           rq == [req EXCEPT ![q].phase = "opening", ![q].contract = k, ![q].cred = c]
<1>1. r \in Runs /\ RunOK(run[r])
  BY HoldHasOwner DEF MismatchedContinuation
<1>2. Later(run[r], Release(run[r])) /\ StoreOK(h)
  BY <1>1, ReleaseOperators, RemoveFromStore DEF IInv
<1>3. SameAnswers(rq)
  BY PhaseUpdates DEF RequestPhase
<1>4. Keep(r, Release(run[r]), h, rq)
  BY DEF MismatchedContinuation
<1> HIDE DEF h, rq, r
<1> QED
  BY <1>1, <1>2, <1>3, <1>4, KeepGood DEF GoodStep

\* runValidatedCursorCompletion's refusal releases the hold, if there is one.
LEMMA RefuseCallsGood ==
    ASSUME IInv, NEW q \in Requests, RefuseCalls(q)
    PROVE  GoodStep
<1> DEFINE r == req[q].run
           found == InStore(r) /\ run[r].hold = req[q].calls
           x == IF found THEN Release(run[r]) ELSE run[r]
           h == IF found THEN [held EXCEPT ![r] = 0] ELSE held
           rq == [req EXCEPT ![q].phase = "failed"]
<1>1. r \in Runs /\ RunOK(run[r])
  BY DEF RefuseCalls, IInv, AnswersSurfaced
<1>2. Later(run[r], x)
  BY <1>1, ReleaseOperators, FlagUpdates
<1>3. StoreOK(h)
  BY <1>1, RemoveFromStore DEF IInv
<1>4. SameAnswers(rq)
  BY PhaseUpdates DEF RequestPhase
<1>5. Keep(r, x, h, rq)
  BY DEF RefuseCalls
<1> HIDE DEF h, rq, x, r
<1> QED
  BY <1>1, <1>2, <1>3, <1>4, <1>5, KeepGood DEF GoodStep

\* executeCursorRun gives the request a Run that was never opened.
LEMMA OpenRunGood ==
    ASSUME IInv, NEW q \in Requests, NEW r \in Runs, OpenRun(q, r)
    PROVE  GoodStep
<1> DEFINE x == [NewRun EXCEPT !.stream = "open", !.timers = TRUE, !.active = TRUE,
                               !.emit = q \in Streaming, !.owner = q,
                               !.cred = req[q].cred]
           rq == [req EXCEPT ![q].phase = "waiting"]
<1>1. run[r].stream = "none" /\ RunOK(run[r]) /\ req[q].cred \in Creds \cup {NoCred}
  BY DEF OpenRun, IInv, TypeOK, RequestState
<1>2. Later(run[r], x)
  <2>1. NewRun \in RunState
    BY CursorRunAssumption DEF RunState, NewRun
  <2>2. ASSUME NEW e \in BOOLEAN, NEW c \in Creds \cup {NoCred}
        PROVE  RunOK([NewRun EXCEPT !.stream = "open", !.timers = TRUE, !.active = TRUE,
                                    !.emit = e, !.owner = q, !.cred = c])
    BY <2>1, <2>2 DEF RunOK, RunState
  <2>3. (q \in Streaming) \in BOOLEAN
    OBVIOUS
  <2>4. RunOK(x)
    BY <1>1, <2>2, <2>3
  <2>5. x.stream # "none" /\ run[r].surfaced = {}
    BY <1>1, <2>1 DEF RunOK, RunState
  <2> QED
    BY <2>4, <2>5 DEF Later
<1>3. SameAnswers(rq) /\ StoreOK(held)
  BY PhaseUpdates DEF RequestPhase, IInv
<1>4. FinishWithError(r, x, held, rq) \/ Keep(r, x, held, rq)
  BY DEF OpenRun
<1> HIDE DEF x, rq
<1> QED
  BY <1>2, <1>3, <1>4, FinishWithErrorGood, KeepGood DEF GoodStep

\* A client that disconnects ends its Run, held or not.
LEMMA DisconnectGood ==
    ASSUME IInv, NEW q \in Requests, NEW r \in Runs, Disconnect(q, r)
    PROVE  GoodStep
<1> DEFINE h == IF run[r].parked THEN [held EXCEPT ![r] = 0] ELSE held
           rq == [req EXCEPT ![q].phase = "failed"]
<1>1. Later(run[r], Aborted(r, run[r]))
  BY ReleaseOperators DEF IInv
<1>2. StoreOK(h) /\ SameAnswers(rq)
  BY RemoveFromStore, PhaseUpdates DEF IInv, RequestPhase
<1>3. Keep(r, Aborted(r, run[r]), h, rq)
  BY DEF Disconnect
<1> HIDE DEF h, rq
<1> QED
  BY <1>1, <1>2, <1>3, KeepGood DEF GoodStep

\* Whatever a request or its client does is a good step.
LEMMA RequestGood ==
    ASSUME IInv, NEW q \in Requests, Request(q)
    PROVE  GoodStep
<1>1. ASSUME NEW k \in Contracts, NEW c \in Creds, SendFresh(q, k, c) PROVE GoodStep
  BY <1>1, PhaseUpdates, RunsUnchanged DEF SendFresh, RequestPhase
<1>2. ASSUME OpenFails(q) \/ Deliver(q) \/ AbortWhileOpening(q) PROVE GoodStep
  <2>1. PICK ph \in RequestPhase : req' = [req EXCEPT ![q].phase = ph]
    BY <1>2 DEF OpenFails, Deliver, AbortWhileOpening, RequestPhase
  <2>2. NoContract \in Contracts \cup {NoContract} /\ NoCred \in Creds \cup {NoCred}
    OBVIOUS
  <2>3. SameAnswers(req')
    BY <2>1, <2>2, PhaseUpdates
  <2> QED
    BY <1>2, <2>3, RunsUnchanged DEF OpenFails, Deliver, AbortWhileOpening
<1> QED
  BY <1>1, <1>2, ResumeRunGood, ResumeAbortedGood, MismatchedContinuationGood,
     RefuseCallsGood, OpenRunGood, DisconnectGood DEF Request

-----------------------------------------------------------------------------
(* The stream and its timers                                               *)

\* What a frame adds to an opened Run loses nothing of it.
LEMMA FrameOperators ==
    ASSUME NEW x, RunOK(x), NEW b \in BOOLEAN
    PROVE  /\ Later(x, [x EXCEPT !.emit = b])
           /\ Later(x, [x EXCEPT !.fresh = TRUE, !.told = b])
           /\ x.slots < MaxSlots => Later(x, [x EXCEPT !.slots = @ + 1])
           /\ Later(x, [x EXCEPT !.turnEnded = TRUE])
           /\ Later(x, [x EXCEPT !.streamEnded = TRUE])
<1>1. Later(x, [x EXCEPT !.emit = b])
  BY DEF RunOK, Later, RunState
<1>2. Later(x, [x EXCEPT !.fresh = TRUE, !.told = b])
  BY DEF RunOK, Later, RunState
<1>3. ASSUME x.slots < MaxSlots PROVE Later(x, [x EXCEPT !.slots = @ + 1])
  <2>1. x.slots + 1 \in 0..MaxSlots
    BY <1>3, CursorRunAssumption DEF RunOK, RunState
  <2> QED
    BY <2>1 DEF RunOK, Later, RunState
<1>4. Later(x, [x EXCEPT !.turnEnded = TRUE])
  BY DEF RunOK, Later, RunState
<1>5. Later(x, [x EXCEPT !.streamEnded = TRUE])
  BY DEF RunOK, Later, RunState
<1> QED
  BY <1>1, <1>2, <1>3, <1>4, <1>5

\* A completed call and its exec lose nothing of an opened Run.
LEMMA CallOperators ==
    ASSUME NEW x, RunOK(x), x.stream # "none", NEW i \in Slots
    PROVE  Later(x, WithCall(x, i)) /\ Later(x, [x EXCEPT !.execs = @ \cup {i}])
<1> DEFINE n == IF i > x.slots THEN i ELSE x.slots
           d == x.done \cup {i}
           e == x.execs \cup {i}
<1>1. n \in 0..MaxSlots
  BY CursorRunAssumption DEF RunOK, RunState, Slots
<1>2. d \in SUBSET Slots /\ e \in SUBSET Slots
  BY DEF RunOK, RunState
<1>3. WithCall(x, i) = [x EXCEPT !.slots = n, !.done = d]
  BY DEF WithCall
<1> HIDE DEF n, d, e
<1>4. Later(x, [x EXCEPT !.slots = n, !.done = d])
  BY <1>1, <1>2 DEF RunOK, Later, RunState
<1>5. Later(x, [x EXCEPT !.execs = e])
  BY <1>2 DEF RunOK, Later, RunState
<1> QED
  BY <1>3, <1>4, <1>5 DEF e

\* The settle window is armed without losing anything.
LEMMA ScheduleLater ==
    ASSUME NEW x, RunOK(x)
    PROVE  Later(x, ScheduleHold(x)) /\ Later(x, Interaction(x)) /\ Interaction(x).stream = x.stream
<1>1. Later(x, ScheduleHold(x)) /\ ScheduleHold(x).stream = x.stream
  BY FlagUpdates DEF ScheduleHold, RunOK, RunState
<1> QED
  BY <1>1, FlagUpdates DEF Interaction

\* A Run whose chunk is read was opened.
LEMMA ReadingOpened ==
    ASSUME IInv, NEW r \in Runs, reading = r
    PROVE  RunOK(run[r]) /\ run[r].stream # "none" /\ StoreOK(held) /\ SameAnswers(req)
BY DEF IInv, SameAnswers, TypeOK

\* A frame that changes the state of its Run only.
LEMMA FrameKeepGood ==
    ASSUME IInv, NEW r \in Runs, reading = r, NEW x, Later(run[r], x), Keep(r, x, held, req)
    PROVE  GoodStep
BY ReadingOpened, KeepGood DEF GoodStep

\* mcpArgs: the call is completed and its exec held.
LEMMA FrameExecGood ==
    ASSUME IInv, NEW r \in Runs, NEW i \in Slots, FrameExec(r, i)
    PROVE  GoodStep
<1> DEFINE w == WithCall(run[r], i)
           x == [w EXCEPT !.execs = @ \cup {i}]
<1>1. reading = r /\ RunOK(run[r]) /\ run[r].stream # "none"
  BY ReadingOpened DEF FrameExec, NextFrame
<1>2. Later(run[r], w) /\ RunOK(w) /\ w.stream # "none"
  BY <1>1, CallOperators DEF Later
<1>3. Later(run[r], x)
  <2> HIDE DEF w
  <2> QED BY <1>2, CallOperators, LaterTransitive
<1>4. Hold(r, x) \/ Keep(r, ScheduleHold(x), held, req)
  BY DEF FrameExec
<1> HIDE DEF x
<1>5. Later(run[r], ScheduleHold(x))
  BY <1>3, ScheduleLater, LaterTransitive DEF Later
<1> QED
  BY <1>1, <1>3, <1>4, <1>5, HoldGood, FrameKeepGood DEF GoodStep

\* The frames that only add to the Run.
LEMMA FrameGood ==
    ASSUME IInv, NEW r \in Runs,
           \/ FrameText(r) \/ FrameAnnounce(r) \/ FrameTurnEnded(r) \/ FrameTrailer(r)
           \/ \E i \in Slots : FrameCallCompleted(r, i)
    PROVE  GoodStep
<1> DEFINE y == Interaction(run[r])
<1>1. reading = r /\ RunOK(run[r]) /\ run[r].stream # "none"
  BY ReadingOpened DEF FrameText, FrameAnnounce, FrameCallCompleted, FrameTurnEnded,
                       FrameTrailer, NextFrame
<1>2. Later(run[r], y) /\ RunOK(y) /\ y.stream # "none" /\ y.slots = run[r].slots
      /\ y.told \in BOOLEAN
  <2>1. y.slots = run[r].slots
    BY <1>1 DEF Interaction, ScheduleHold, RunOK, RunState
  <2>2. Later(run[r], y) /\ RunOK(y) /\ y.stream # "none"
    BY <1>1, ScheduleLater DEF Later
  <2> QED
    BY <2>1, <2>2 DEF RunOK, RunState
<1>3. CASE FrameText(r)
  <2> DEFINE b == y.told \/ run[r].emit
  <2>1. b \in BOOLEAN
    OBVIOUS
  <2>2. Keep(r, [y EXCEPT !.fresh = TRUE, !.told = b], held, req)
    BY <1>3 DEF FrameText
  <2> HIDE DEF y, b
  <2>3. Later(run[r], [y EXCEPT !.fresh = TRUE, !.told = b])
    BY <1>2, <2>1, FrameOperators, LaterTransitive
  <2> QED
    BY <1>1, <2>2, <2>3, FrameKeepGood
<1>4. CASE FrameAnnounce(r)
  <2>1. run[r].slots < MaxSlots /\ Keep(r, [y EXCEPT !.slots = @ + 1], held, req)
    BY <1>4 DEF FrameAnnounce
  <2> HIDE DEF y
  <2>2. Later(run[r], [y EXCEPT !.slots = @ + 1])
    BY <1>2, <2>1, FrameOperators, LaterTransitive
  <2> QED
    BY <1>1, <2>1, <2>2, FrameKeepGood
<1>5. ASSUME NEW i \in Slots, FrameCallCompleted(r, i) PROVE GoodStep
  <2>1. Keep(r, WithCall(y, i), held, req)
    BY <1>5 DEF FrameCallCompleted
  <2> HIDE DEF y
  <2>2. Later(run[r], WithCall(y, i))
    BY <1>2, CallOperators, LaterTransitive
  <2> QED
    BY <1>1, <2>1, <2>2, FrameKeepGood
<1>6. CASE FrameTurnEnded(r)
  <2>1. Keep(r, [y EXCEPT !.turnEnded = TRUE], held, req)
    BY <1>6 DEF FrameTurnEnded
  <2> HIDE DEF y
  <2>2. Later(run[r], [y EXCEPT !.turnEnded = TRUE])
    BY <1>2, FrameOperators, LaterTransitive
  <2> QED
    BY <1>1, <2>1, <2>2, FrameKeepGood
<1>7. CASE FrameTrailer(r)
  <2>1. Later(run[r], [run[r] EXCEPT !.streamEnded = TRUE])
    BY <1>1, FrameOperators
  <2> QED
    BY <1>1, <1>7, <2>1, FrameKeepGood DEF FrameTrailer
<1> QED
  BY <1>3, <1>4, <1>5, <1>6, <1>7

\* The first half of a 'data' handler mutes the emitter of a held Run.
LEMMA BeginChunkGood ==
    ASSUME IInv, NEW r \in Runs, BeginChunk(r)
    PROVE  GoodStep
<1> DEFINE b == run[r].emit /\ ~run[r].parked
           x == [run[r] EXCEPT !.emit = b]
<1>1. b \in BOOLEAN /\ run[r].stream # "none" /\ RunOK(run[r])
  BY DEF BeginChunk, IInv
<1>2. Later(run[r], x)
  <2> HIDE DEF b
  <2> QED BY <1>1 DEF RunOK, Later, RunState
<1>3. run' = [run EXCEPT ![r] = x]
  BY DEF BeginChunk, IInv, TypeOK
<1> HIDE DEF x, b
<1>4. Keep(r, x, held, req)
  BY <1>3 DEF BeginChunk, Keep
<1>5. StoreOK(held) /\ SameAnswers(req)
  BY DEF IInv, SameAnswers, TypeOK
<1> QED
  BY <1>2, <1>4, <1>5, KeepGood DEF GoodStep

\* The last half of a 'data' handler.
LEMMA EndChunkGood ==
    ASSUME IInv, NEW r \in Runs, EndChunk(r) \/ ChunkThrows(r) \/ FrameUnservable(r)
    PROVE  GoodStep
<1> DEFINE x == run[r]
           y == IF x.streamEnded THEN CloseTransport(x) ELSE x
           c == CloseTransport(x)
           z == [c EXCEPT !.streamEnded = TRUE]
<1>1. RunOK(x) /\ x.stream # "none" /\ Later(x, x) /\ StoreOK(held) /\ SameAnswers(req)
  BY ReadingOpened, FlagUpdates DEF EndChunk, ChunkThrows, FrameUnservable, NextFrame
<1>2. Later(x, c) /\ Later(x, y)
  BY <1>1, EndOperators
<1>3. Later(x, z)
  <2> HIDE DEF c
  <2>1. Later(c, z)
    BY <1>1, <1>2 DEF Later, RunOK, RunState
  <2> QED
    BY <1>2, <2>1, LaterTransitive
<1>4. StoreOK([held EXCEPT ![r] = 0])
  BY <1>1, RemoveFromStore
<1>5. \/ Keep(r, y, held, req)
      \/ Keep(r, y, [held EXCEPT ![r] = 0], req)
      \/ Keep(r, z, held, req)
      \/ ReleaseParked(r, x)
      \/ Drain(r, y, held, req)
      \/ FinishWithError(r, x, held, req)
  BY DEF EndChunk, ChunkThrows, FrameUnservable
<1> HIDE DEF y, z
<1> QED
  BY <1>1, <1>2, <1>3, <1>4, <1>5, KeepGood, ReleaseParkedGood, DrainGood,
     FinishWithErrorGood DEF GoodStep

\* Whatever the 'data' handler does is a good step.
LEMMA DataGood ==
    ASSUME IInv, NEW r \in Runs, Data(r)
    PROVE  GoodStep
<1>1. CASE BeginChunk(r)
  BY <1>1, BeginChunkGood
<1>2. CASE \/ FrameText(r) \/ FrameAnnounce(r) \/ FrameTurnEnded(r) \/ FrameTrailer(r)
           \/ \E i \in Slots : FrameCallCompleted(r, i)
  BY <1>2, FrameGood
<1>3. ASSUME NEW i \in Slots, FrameExec(r, i) PROVE GoodStep
  BY <1>3, FrameExecGood
<1>4. CASE EndChunk(r) \/ ChunkThrows(r) \/ FrameUnservable(r)
  BY <1>4, EndChunkGood
<1> QED
  BY <1>1, <1>2, <1>3, <1>4 DEF Data

\* 'error' and 'close' end the Run or leave a hold that has calls to give.
LEMMA StreamGoneGood ==
    ASSUME IInv, NEW r \in Runs, NEW x, Later(run[r], x), StreamGone(r, x)
    PROVE  GoodStep
<1> DEFINE y == [x EXCEPT !.streamEnded = TRUE, !.active = FALSE]
<1>1. Later(x, y)
  BY DEF Later, RunOK, RunState
<1>2. StoreOK(held) /\ SameAnswers(req)
  BY DEF IInv, SameAnswers, TypeOK
<1>3. Keep(r, y, held, req) \/ ReleaseParked(r, x) \/ FinishWithError(r, x, held, req)
  BY DEF StreamGone
<1> HIDE DEF y
<1> QED
  BY <1>1, <1>2, <1>3, KeepGood, ReleaseParkedGood, FinishWithErrorGood, LaterTransitive
     DEF GoodStep

\* Whatever the stream's other events and the timers do is a good step.
LEMMA EventGood ==
    ASSUME IInv, NEW r \in Runs, Event(r)
    PROVE  GoodStep
<1>1. RunOK(run[r]) /\ Later(run[r], run[r]) /\ StoreOK(held) /\ SameAnswers(req)
  BY FlagUpdates DEF IInv, SameAnswers, TypeOK
<1>2. CASE StreamError(r)
  BY <1>1, <1>2, EndOperators, StreamGoneGood DEF StreamError
<1>3. CASE StreamClosed(r)
  <2>1. Later(run[r], [run[r] EXCEPT !.stream = "closed"])
    <3>1. ASSUME NEW x, RunOK(x), x.stream # "none"
          PROVE  Later(x, [x EXCEPT !.stream = "closed"])
      BY <3>1 DEF Later, RunOK, RunState
    <3> QED
      BY <1>1, <1>3, <3>1 DEF StreamClosed
  <2> QED
    BY <1>3, <2>1, StreamGoneGood DEF StreamClosed
<1>4. CASE HoldTimer(r)
  <2>1. Later(run[r], [run[r] EXCEPT !.holdTimer = FALSE])
    BY <1>1, FlagUpdates
  <2> QED
    BY <1>4, <2>1, HoldGood DEF HoldTimer, GoodStep
<1>5. CASE BadStatus(r) \/ IdleTimeout(r) \/ RunTimeout(r)
  <2>1. FinishWithError(r, run[r], held, req) \/ ReleaseParked(r, run[r])
    BY <1>5 DEF BadStatus, IdleTimeout, RunTimeout
  <2> QED
    BY <1>1, <2>1, FinishWithErrorGood, ReleaseParkedGood DEF GoodStep
<1> QED
  BY <1>2, <1>3, <1>4, <1>5 DEF Event

-----------------------------------------------------------------------------
(* The backend, which ends several Runs in one step                        *)

\* Forgetting several holds makes room in the store.
LEMMA StoreShrinks ==
    ASSUME NEW h, StoreOK(h), NEW g \in [Runs -> Nat], Stored(g) \subseteq Stored(h)
    PROVE  StoreOK(g)
<1>1. IsFiniteSet(Stored(h)) /\ Capacity \in Nat
  BY CursorRunAssumption, FS_Subset DEF Stored
<1>2. Cardinality(Stored(g)) <= Cardinality(Stored(h))
      /\ Cardinality(Stored(g)) \in Nat /\ Cardinality(Stored(h)) \in Nat
  BY <1>1, FS_Subset, FS_CardinalityType
<1> QED
  BY <1>1, <1>2 DEF StoreOK

\* Rejecting the owners of several Runs changes no answer.
LEMMA RejectSeveral ==
    ASSUME IInv, NEW S,
           req' = [q \in Requests |-> IF q \in S THEN Reject(req, q)[q] ELSE req[q]]
    PROVE  SameAnswers(req')
<1>1. SameAnswers(req)
  BY DEF IInv, SameAnswers, TypeOK
<1>2. ASSUME NEW q \in Requests
      PROVE  /\ Reject(req, q)[q] \in RequestState
             /\ Reject(req, q)[q].calls = req[q].calls
             /\ Reject(req, q)[q].run = req[q].run
  BY <1>1, <1>2, RejectKeepsAnswers DEF SameAnswers
<1> QED
  BY <1>1, <1>2 DEF SameAnswers

\* updateCredentials
LEMMA RevokeCredentialGood ==
    ASSUME IInv, NEW c \in Creds, RevokeCredential(c)
    PROVE  GoodStep
<1> DEFINE hit(r) == run[r].cred = c /\ run[r].timers
<1>1. \A t \in Runs : Later(run[t], run'[t])
  BY ReleaseOperators, FlagUpdates DEF RevokeCredential, IInv
<1>2. run' \in [Runs -> RunState]
  BY <1>1 DEF RevokeCredential, Later, RunOK
<1>3. StoreOK(held')
  <2>1. held' \in [Runs -> Nat] /\ Stored(held') \subseteq Stored(held)
    BY DEF RevokeCredential, IInv, TypeOK, Stored
  <2> QED
    BY <2>1, StoreShrinks DEF IInv
<1>4. SameAnswers(req')
  <2> DEFINE S == {q \in Requests : \E r \in Runs : hit(r) /\ run[r].owner = q}
  <2>1. req' = [q \in Requests |-> IF q \in S THEN Reject(req, q)[q] ELSE req[q]]
    BY DEF RevokeCredential
  <2> HIDE DEF S
  <2> QED
    BY <2>1, RejectSeveral
<1>5. parks' \in Nat
  BY DEF RevokeCredential, IInv, TypeOK
<1> QED
  BY <1>1, <1>2, <1>3, <1>4, <1>5 DEF GoodStep, GoodRuns

\* shutdown()
LEMMA ShutdownGood ==
    ASSUME IInv, Shutdown
    PROVE  GoodStep
<1> DEFINE cleared(r) == IF InStore(r) THEN Release(run[r]) ELSE run[r]
           cut == {r \in Runs : cleared(r).active}
<1>1. \A t \in Runs : Later(run[t], cleared(t)) /\ Later(run[t], Settle(cleared(t)))
  <2>1. ASSUME NEW t \in Runs PROVE Later(run[t], cleared(t))
    BY ReleaseOperators, FlagUpdates DEF IInv
  <2>2. ASSUME NEW t \in Runs PROVE Later(run[t], Settle(cleared(t)))
    <3>1. Later(run[t], cleared(t))
      BY <2>1
    <3> HIDE DEF cleared
    <3> QED
      BY <3>1, EndOperators, LaterTransitive DEF Later
  <2> QED
    BY <2>1, <2>2
<1>2. run' = [r \in Runs |-> IF r \in cut THEN Settle(cleared(r)) ELSE cleared(r)]
  BY DEF Shutdown
<1> HIDE DEF cleared
<1>3. \A t \in Runs : Later(run[t], run'[t])
  BY <1>1, <1>2
<1>4. run' \in [Runs -> RunState]
  BY <1>2, <1>3 DEF Later, RunOK
<1>5. StoreOK(held')
  <2>1. held' \in [Runs -> Nat] /\ Stored(held') \subseteq Stored(held)
    BY DEF Shutdown, Stored
  <2> QED
    BY <2>1, StoreShrinks DEF IInv
<1>6. SameAnswers(req')
  <2> DEFINE S == {q \in Requests : \E r \in cut : run[r].owner = q}
  <2>1. req' = [q \in Requests |-> IF q \in S THEN Reject(req, q)[q] ELSE req[q]]
    BY DEF Shutdown, cleared
  <2> HIDE DEF S
  <2> QED
    BY <2>1, RejectSeveral
<1>7. parks' \in Nat
  BY DEF Shutdown, IInv, TypeOK
<1> QED
  BY <1>3, <1>4, <1>5, <1>6, <1>7 DEF GoodStep, GoodRuns

-----------------------------------------------------------------------------
(* The invariant                                                           *)

\* Every step is a good one.
LEMMA NextGood ==
    ASSUME IInv, Next
    PROVE  GoodStep
BY DataGood, EventGood, RequestGood, RevokeCredentialGood, ShutdownGood DEF Next

\* The variables that no Run owns keep their types, and the Run whose chunk is
\* read was opened when its handler began.
LEMMA OtherVariables ==
    ASSUME IInv, Next, GoodStep
    PROVE  /\ revoked' \subseteq Creds /\ down' \in BOOLEAN
           /\ reading' \in Runs \cup {NoRun} /\ readingHeld' \in BOOLEAN
           /\ reading' \in Runs => run'[reading'].stream # "none"
<1>1. \A t \in Runs : run[t].stream # "none" => run'[t].stream # "none"
  BY DEF GoodStep, Good, GoodRuns, Later
<1>2. ASSUME NEW r \in Runs, BeginChunk(r)
      PROVE  /\ reading' = r /\ readingHeld' \in BOOLEAN /\ run[r].stream # "none"
             /\ UNCHANGED <<revoked, down>>
  BY <1>2 DEF BeginChunk, Standing, IInv, TypeOK, RunState
<1>3. ASSUME NEW r \in Runs, ChunkThrows(r) \/ EndChunk(r)
      PROVE  reading' = NoRun /\ readingHeld' = FALSE /\ UNCHANGED <<revoked, down>>
  BY <1>3 DEF ChunkThrows, EndChunk, Standing
<1>4. ASSUME NEW r \in Runs, Data(r), ~BeginChunk(r), ~ChunkThrows(r), ~EndChunk(r)
      PROVE  UNCHANGED <<revoked, down, reading, readingHeld>>
  BY <1>4 DEF Data, FrameText, FrameAnnounce, FrameCallCompleted, FrameExec, FrameTurnEnded,
              FrameTrailer, FrameUnservable, NextFrame, Standing
<1>5. ASSUME NEW r \in Runs, Event(r)
      PROVE  UNCHANGED <<revoked, down, reading, readingHeld>>
  BY <1>5 DEF Event, StreamError, StreamClosed, BadStatus, HoldTimer, RunTimeout, IdleTimeout,
              NotReading, Standing
<1>6. ASSUME NEW q \in Requests, Request(q)
      PROVE  UNCHANGED <<revoked, down, reading, readingHeld>>
  BY <1>6 DEF Request, SendFresh, ResumeRun, ResumeAborted, MismatchedContinuation, AnswersHold,
              OpenRun, OpenFails, Deliver, RefuseCalls, AbortWhileOpening, Disconnect,
              NotReading, Standing
<1>7. ASSUME (\E c \in Creds : RevokeCredential(c)) \/ Shutdown
      PROVE  /\ UNCHANGED <<reading, readingHeld>>
             /\ revoked' \subseteq Creds /\ down' \in BOOLEAN
  BY <1>7 DEF RevokeCredential, Shutdown, NotReading, IInv, TypeOK
<1>8. /\ reading \in Runs \cup {NoRun} /\ readingHeld \in BOOLEAN
      /\ revoked \subseteq Creds /\ down \in BOOLEAN
      /\ reading \in Runs => run[reading].stream # "none"
  BY DEF IInv, TypeOK
<1> QED
  BY <1>1, <1>2, <1>3, <1>4, <1>5, <1>6, <1>7, <1>8, CursorRunAssumption DEF Next

\* The strengthened invariant holds at the start.
LEMMA InitIInv == Init => IInv
<1> SUFFICES ASSUME Init PROVE IInv
  OBVIOUS
<1>1. NewRun \in RunState /\ NewRequest \in RequestState
  BY CursorRunAssumption DEF NewRun, NewRequest, RunState, RequestState, RequestPhase
<1>2. RunOK(NewRun)
  BY <1>1 DEF RunOK, NewRun
<1>3. TypeOK
  BY <1>1 DEF Init, TypeOK
<1>4. StoreOK(held)
  <2>1. Stored(held) = {}
    BY DEF Init, Stored
  <2> QED
    BY <2>1, <1>3, FS_EmptySet, CursorRunAssumption DEF StoreOK, TypeOK
<1>5. AnswersSurfaced /\ SurfacedOnce
  BY DEF Init, NewRequest, AnswersSurfaced, SurfacedOnce
<1> QED
  BY <1>2, <1>3, <1>4, <1>5, CursorRunAssumption DEF Init, IInv

\* What is answered was surfaced, and by no other answer.
LEMMA AnswersPreserved ==
    ASSUME IInv, GoodStep
    PROVE  AnswersSurfaced' /\ SurfacedOnce'
<1>1. \A t \in Runs : run[t].surfaced \subseteq run'[t].surfaced
  BY DEF GoodStep, Good, GoodRuns, Later
<1>2. CASE SameAnswers(req')
  BY <1>1, <1>2 DEF SameAnswers, IInv, AnswersSurfaced, SurfacedOnce
<1>3. ASSUME NEW r \in Runs, OneAnswer(req', r, run'[r])
      PROVE  AnswersSurfaced' /\ SurfacedOnce'
  <2>1. PICK p \in Requests :
          /\ req'[p].run = r
          /\ req'[p].calls \subseteq run'[r].surfaced \ run[r].surfaced
          /\ \A q \in Requests \ {p} : req'[q].calls = req[q].calls /\ req'[q].run = req[q].run
    BY <1>3 DEF OneAnswer
  <2>2. AnswersSurfaced'
    BY <1>1, <2>1 DEF IInv, AnswersSurfaced
  <2>3. ASSUME NEW q \in Requests, q # p, req'[q].run = r
        PROVE  req'[q].calls \cap req'[p].calls = {}
    BY <2>1, <2>3 DEF IInv, AnswersSurfaced
  <2>4. SurfacedOnce'
    BY <2>1, <2>3 DEF IInv, SurfacedOnce
  <2> QED
    BY <2>2, <2>4
<1> QED
  BY <1>2, <1>3 DEF GoodStep, Good

\* Every step preserves the strengthened invariant.
LEMMA NextIInv == IInv /\ [Next]_vars => IInv'
<1> SUFFICES ASSUME IInv, [Next]_vars PROVE IInv'
  OBVIOUS
<1>1. CASE Next
  <2>1. GoodStep
    BY <1>1, NextGood
  <2>2. GoodRuns /\ req' \in [Requests -> RequestState]
    BY <2>1 DEF GoodStep, Good, SameAnswers, OneAnswer
  <2>3. TypeOK'
    BY <1>1, <2>1, <2>2, OtherVariables DEF TypeOK, GoodRuns, StoreOK
  <2>4. StoreOK(held)'
    BY <2>2 DEF GoodRuns
  <2>5. \A r \in Runs : RunOK(run'[r])
    BY <2>2 DEF GoodRuns, Later
  <2> QED
    BY <1>1, <2>1, <2>3, <2>4, <2>5, OtherVariables, AnswersPreserved DEF IInv
<1>2. CASE UNCHANGED vars
  BY <1>2 DEF vars, IInv, TypeOK, StoreOK, Stored, RunOK, AnswersSurfaced, SurfacedOnce
<1> QED
  BY <1>1, <1>2

\* The strengthened invariant holds in every reachable state.
THEOREM Invariant == Spec => []IInv
BY InitIInv, NextIInv, PTL DEF Spec

\* Type correctness of the Runs, the store and the requests.
THEOREM TypeCorrect == Spec => []TypeOK
<1>1. IInv => TypeOK
  BY DEF IInv
<1> QED
  BY <1>1, Invariant, PTL

\* CURSOR_BRIDGE_MAX_HELD_RUNS: for any capacity and any number of Runs, the
\* store never holds more Runs than it may, whatever displaces what.
THEOREM CapacityCorrect == Spec => []CapacityRespected
<1>1. IInv => CapacityRespected
  BY DEF IInv, StoreOK, Stored, CapacityRespected, InStore
<1> QED
  BY <1>1, Invariant, PTL

\* Whatever the batches of a Run, the order of its frames and the requests
\* that resume it, no tool call is handed to two requests.
THEOREM SurfacedOnceCorrect == Spec => []SurfacedOnce
<1>1. IInv => SurfacedOnce
  BY DEF IInv
<1> QED
  BY <1>1, Invariant, PTL

-----------------------------------------------------------------------------
(* What is left of a Run, and what a hold promises                         *)
(*                                                                         *)
(* The second invariant is stated of any Runs R, store H, requests Q and   *)
(* chunk in hand (rd, rh), so that a handler that changes two Runs, one    *)
(* after the other, is two steps of the same lemma (Put).                  *)

\* A settled Run has let go of everything, a running one is timed and can be shut down,
\* and a hold is a parked Run; s: the Run is in the store.
RunSound(x, s) ==
    /\ x.settled => /\ ~x.timers /\ ~x.holdTimer /\ ~x.active
                    /\ x.stream \in {"closing", "closed"}
    /\ x.stream = "none" => /\ ~x.parked /\ ~x.timers /\ ~x.holdTimer /\ ~s
                            /\ ~x.active /\ x.owner = NoRequest
    /\ x.stream # "none" /\ Running(x) => x.timers /\ x.active
    /\ x.stream = "open" => x.active
    /\ s => x.parked /\ (x.settled \/ x.timers)
    /\ x.parked => x.done # {} /\ (x.settled \/ s)
    /\ x.done \subseteq 1..x.slots

\* What the operator has ended.
OffSound(x, s) ==
    /\ x.cred \in revoked \/ down => ~s /\ ~x.timers
    /\ down => x.stream # "open"

LiveInv(R, H, rd, rh) ==
    \A r \in Runs : /\ RunSound(R[r], H[r] > 0) /\ OffSound(R[r], H[r] > 0)
                    /\ rd = r /\ rh => R[r].parked

\* A hold, when requests set no max_tool_calls: its key is what its owner was answered.
HoldSound(r, x, s, Q, rd, rh) ==
    /\ s => /\ ~x.told
            /\ x.settled => rd = r
            /\ Ended(x) /\ ~x.settled /\ rd # r => CompletedCalls(x) # {}
            /\ x.owner \in Requests /\ Q[x.owner].phase \in {"answered", "done"}
            /\ Q[x.owner].run = r /\ Q[x.owner].calls = x.hold
    /\ x.stream # "none" /\ Running(x) => Q[x.owner].phase = "waiting"
    /\ rd = r => rh = x.parked /\ (x.parked => ~x.emit)

HoldInv(R, H, Q, rd, rh) ==
    /\ \A r \in Runs : HoldSound(r, R[r], H[r] > 0, Q, rd, rh)
    /\ \A r, t \in Runs : R[r].owner \in Requests /\ R[r].owner = R[t].owner => r = t
    /\ \A q \in Requests :
        /\ Q[q].phase \in {"idle", "opening", "aborting"} => \A r \in Runs : R[r].owner # q
        /\ Q[q].phase = "waiting" => \E r \in Runs : R[r].owner = q /\ Running(R[r])

World(R, H, Q, rd, rh) ==
    LiveInv(R, H, rd, rh) /\ (MaxToolCalls = 0 => HoldInv(R, H, Q, rd, rh))

HInv == IInv /\ World(run, held, req, reading, readingHeld)

\* What the new state x of Run r, of which n is its place in the store, and the new
\* requests Q2 must be for the holds to stay sound.
Fits(R, Q, r, x, n, Q2, rd2, rh2) ==
    /\ HoldSound(r, x, n > 0, Q2, rd2, rh2)
    /\ x.owner \in Requests
    /\ \A q \in Requests \ {x.owner} : Q2[q] = Q[q]
    /\ Q2[x.owner].phase \notin {"idle", "opening", "aborting"}
    /\ Q2[x.owner].phase = "waiting" => Running(x)
    /\ \/ x.owner = R[r].owner
       \/ /\ R[r].owner \in Requests => ~Running(R[r])
          /\ \A t \in Runs : R[t].owner # x.owner

\* A handler of Run r puts it in a new state.
LEMMA Put ==
    ASSUME NEW R \in [Runs -> RunState], \A t \in Runs : RunOK(R[t]), NEW H \in [Runs -> Nat],
           NEW Q, NEW rd, NEW rh, World(R, H, Q, rd, rh),
           NEW r \in Runs, NEW x \in RunState, NEW n \in Nat, NEW Q2, NEW rd2, NEW rh2,
           (rd2 = rd /\ rh2 = rh) \/ {rd, rd2} \subseteq {r, NoRun},
           RunSound(x, n > 0), OffSound(x, n > 0), rd2 = r /\ rh2 => x.parked,
           MaxToolCalls = 0 => Fits(R, Q, r, x, n, Q2, rd2, rh2)
    PROVE  World([R EXCEPT ![r] = x], [H EXCEPT ![r] = n], Q2, rd2, rh2)
<1> DEFINE R2 == [R EXCEPT ![r] = x]
           H2 == [H EXCEPT ![r] = n]
<1>1. /\ R2[r] = x /\ \A t \in Runs \ {r} : R2[t] = R[t]
      /\ H2[r] = n /\ \A t \in Runs \ {r} : H2[t] = H[t]
  OBVIOUS
<1> HIDE DEF R2, H2
<1>2. NoRun \notin Runs
  BY CursorRunAssumption
<1>3. \A t \in Runs \ {r} : (rd2 = t <=> rd = t) /\ (rd2 = t => rh2 = rh)
  BY <1>2
<1>4. LiveInv(R2, H2, rd2, rh2)
  BY <1>1, <1>3 DEF World, LiveInv
<1>5. ASSUME MaxToolCalls = 0 PROVE HoldInv(R2, H2, Q2, rd2, rh2)
  <2>1. HoldInv(R, H, Q, rd, rh) /\ Fits(R, Q, r, x, n, Q2, rd2, rh2)
    BY <1>5 DEF World
  <2>2. \A t \in Runs \ {r} : R[t].owner # x.owner
    BY <2>1 DEF Fits, HoldInv
  <2>3. \A t \in Runs \ {r} : R[t].owner \in Requests => Q2[R[t].owner] = Q[R[t].owner]
    BY <2>1, <2>2 DEF Fits
  <2>4. ASSUME NEW t \in Runs PROVE HoldSound(t, R2[t], H2[t] > 0, Q2, rd2, rh2)
    <3>1. CASE t = r
      BY <1>1, <2>1, <3>1 DEF Fits
    <3>2. CASE t # r
      <4>1. HoldSound(t, R[t], H[t] > 0, Q, rd, rh)
        BY <2>1 DEF HoldInv
      <4>2. R[t].stream # "none" => R[t].owner \in Requests
        BY DEF RunOK
      <4>3. HoldSound(t, R[t], H[t] > 0, Q2, rd2, rh2)
        BY <1>3, <2>3, <3>2, <4>1, <4>2 DEF HoldSound
      <4>4. QED
        BY <1>1, <3>2, <4>3
    <3>3. QED
      BY <3>1, <3>2
  <2>5. ASSUME NEW t \in Runs, NEW u \in Runs, R2[t].owner \in Requests, R2[t].owner = R2[u].owner
        PROVE  t = u
    BY <1>1, <2>1, <2>2, <2>5 DEF HoldInv
  <2>6. ASSUME NEW q \in Requests, Q2[q].phase \in {"idle", "opening", "aborting"},
               NEW t \in Runs
        PROVE  R2[t].owner # q
    <3>1. q # x.owner /\ Q2[q] = Q[q]
      BY <2>1, <2>6 DEF Fits
    <3>2. QED
      BY <1>1, <2>1, <2>6, <3>1 DEF HoldInv
  <2>7. ASSUME NEW q \in Requests, Q2[q].phase = "waiting"
        PROVE  \E t \in Runs : R2[t].owner = q /\ Running(R2[t])
    <3>1. CASE q = x.owner
      BY <1>1, <2>1, <2>7, <3>1 DEF Fits
    <3>2. CASE q # x.owner
      <4>1. Q[q].phase = "waiting"
        BY <2>1, <2>7, <3>2 DEF Fits
      <4>2. PICK t \in Runs : R[t].owner = q /\ Running(R[t])
        BY <2>1, <4>1 DEF HoldInv
      <4>3. t # r
        BY <2>1, <3>2, <4>2 DEF Fits
      <4>4. QED
        BY <1>1, <4>2, <4>3
    <3>3. QED
      BY <3>1, <3>2
  <2>8. QED
    BY <2>4, <2>5, <2>6, <2>7 DEF HoldInv
<1>6. QED
  BY <1>4, <1>5 DEF World, R2, H2

-----------------------------------------------------------------------------
(* Which part of a Run an operator changes                                 *)

\* x and y are told apart only by whether and how the Run goes on.
SameWork(x, y) ==
    /\ y.streamEnded = x.streamEnded /\ y.turnEnded = x.turnEnded
    /\ y.slots = x.slots /\ y.done = x.done /\ y.surfaced = x.surfaced
    /\ y.execs = x.execs /\ y.sent = x.sent /\ y.hold = x.hold
    /\ y.fresh = x.fresh /\ y.told = x.told /\ y.emit = x.emit
    /\ y.owner = x.owner /\ y.cred = x.cred

\* y is x with its timers cleared and its stream on the way out.
Stopped(x, y) ==
    /\ y \in RunState /\ SameWork(x, y)
    /\ ~y.timers /\ ~y.holdTimer /\ ~y.active
    /\ y.stream = IF x.stream = "open" THEN "closing" ELSE x.stream

\* cleanup() and the end of the stream
LEMMA StoppedFields ==
    ASSUME NEW x \in RunState
    PROVE  LET y == Hangup(Cleanup(x))
           IN  Stopped(x, y) /\ y.settled = x.settled /\ y.parked = x.parked
<1> DEFINE c == Cleanup(x)
<1>1. /\ c \in RunState /\ SameWork(x, c) /\ ~c.timers /\ ~c.holdTimer /\ ~c.active
      /\ c.stream = x.stream /\ c.settled = x.settled /\ c.parked = x.parked
  BY DEF Cleanup, RunState, SameWork
<1> HIDE DEF c
<1>2. Hangup(c) \in RunState
  BY <1>1 DEF Hangup, RunState
<1>3. /\ SameWork(c, Hangup(c)) /\ ~Hangup(c).timers /\ ~Hangup(c).holdTimer
      /\ ~Hangup(c).active /\ Hangup(c).settled = c.settled /\ Hangup(c).parked = c.parked
      /\ Hangup(c).stream = IF c.stream = "open" THEN "closing" ELSE c.stream
  BY <1>1 DEF Hangup, RunState, SameWork
<1> QED
  BY <1>1, <1>2, <1>3 DEF Stopped, SameWork, c

\* finish() of a Run that is not settled
LEMMA SettleFields ==
    ASSUME NEW x \in RunState
    PROVE  /\ x.settled => Settle(x) = x
           /\ ~x.settled => /\ Stopped(x, Settle(x)) /\ Settle(x).settled
                            /\ Settle(x).parked = x.parked
<1>1. CASE x.settled
  BY <1>1 DEF Settle
<1>2. CASE ~x.settled
  <2> DEFINE y == Hangup(Cleanup(x))
             z == [y EXCEPT !.settled = TRUE]
  <2>1. Stopped(x, y) /\ y.settled = x.settled /\ y.parked = x.parked
    BY StoppedFields
  <2>2. Settle(x) = z
    BY <1>2 DEF Settle
  <2> HIDE DEF y
  <2>3. Stopped(x, z) /\ z.settled /\ z.parked = x.parked
    BY <2>1 DEF Stopped, SameWork, RunState
  <2> QED
    BY <1>2, <2>2, <2>3
<1> QED
  BY <1>1, <1>2

\* HeldRun.release of a Run that is parked and not settled
LEMMA ReleaseFields ==
    ASSUME NEW x \in RunState
    PROVE  /\ x.settled \/ ~x.parked => Release(x) = x
           /\ ~x.settled /\ x.parked => /\ Stopped(x, Release(x)) /\ Release(x).settled
                                        /\ ~Release(x).parked
<1>1. CASE x.settled \/ ~x.parked
  BY <1>1 DEF Release
<1>2. CASE ~x.settled /\ x.parked
  <2> DEFINE y == [x EXCEPT !.parked = FALSE]
  <2>1. /\ y \in RunState /\ SameWork(x, y) /\ ~y.settled /\ ~y.parked
        /\ y.stream = x.stream
    BY <1>2 DEF RunState, SameWork
  <2>2. Release(x) = Settle(y)
    BY <1>2 DEF Release
  <2> HIDE DEF y
  <2>3. Stopped(y, Settle(y)) /\ Settle(y).settled /\ Settle(y).parked = y.parked
    BY <2>1, SettleFields
  <2> QED
    BY <1>2, <2>1, <2>2, <2>3 DEF Stopped, SameWork
<1> QED
  BY <1>1, <1>2

-----------------------------------------------------------------------------
(* The fragments a handler ends in                                         *)

\* The chunk in hand after a handler of Run r that leaves it in state x.
Turn(r, x) ==
    /\ {reading, reading'} \subseteq {r, NoRun}
    /\ reading' = r /\ readingHeld' => x.parked
    /\ MaxToolCalls = 0 /\ reading' = r => readingHeld' = x.parked /\ (x.parked => ~x.emit)

\* The next state of the Runs, the store and the requests is in order.
Next2World == World(run', held', req', reading', readingHeld')

\* A handler puts Run r in state x and in place n of the store.
LEMMA PlaceWorld ==
    ASSUME HInv, NEW r \in Runs, NEW x \in RunState, NEW n \in Nat, NEW Q2, Turn(r, x),
           RunSound(x, n > 0), OffSound(x, n > 0),
           MaxToolCalls = 0 => Fits(run, req, r, x, n, Q2, reading', readingHeld')
    PROVE  World([run EXCEPT ![r] = x], [held EXCEPT ![r] = n], Q2, reading', readingHeld')
<1>1. /\ run \in [Runs -> RunState] /\ held \in [Runs -> Nat] /\ \A t \in Runs : RunOK(run[t])
      /\ World(run, held, req, reading, readingHeld)
  BY DEF HInv, IInv, TypeOK
<1>2. /\ {reading, reading'} \subseteq {r, NoRun}
      /\ reading' = r /\ readingHeld' => x.parked
  BY DEF Turn
<1> QED
  BY <1>1, <1>2, Put

\* A handler that changes one Run and no other.
LEMMA KeepWorld ==
    ASSUME HInv, NEW r \in Runs, NEW x \in RunState, NEW n \in Nat, NEW Q2, Turn(r, x),
           RunSound(x, n > 0), OffSound(x, n > 0),
           MaxToolCalls = 0 => Fits(run, req, r, x, n, Q2, reading', readingHeld'),
           Keep(r, x, [held EXCEPT ![r] = n], Q2)
    PROVE  Next2World
BY PlaceWorld DEF Keep, Next2World

\* What a handler has made of Run r so far, with its place n in the store and the
\* requests Q: an opened Run, whose owner waits for it when it runs.
Mid(r, x, n, Q) ==
    /\ x \in RunState /\ n \in {0, held[r]} /\ x.stream # "none"
    /\ x.settled => /\ ~x.timers /\ ~x.holdTimer /\ ~x.active
                    /\ x.stream \in {"closing", "closed"}
    /\ n > 0 => x.parked
    /\ x.parked => x.done # {} /\ (x.settled \/ n > 0)
    /\ x.done \subseteq 1..x.slots
    /\ x.cred \in revoked \/ down => ~(n > 0)
    /\ MaxToolCalls = 0 =>
        /\ x.owner \in Requests
        /\ \A q \in Requests \ {x.owner} : Q[q] = req[q]
        /\ Q[x.owner].phase \notin {"idle", "opening", "aborting"}
        /\ Q[x.owner].phase = "waiting" <=> Running(x)
        /\ \/ x.owner = run[r].owner
           \/ /\ run[r].owner \in Requests => ~Running(run[r])
              /\ \A t \in Runs : run[t].owner # x.owner
        /\ n > 0 => /\ ~x.told /\ Q[x.owner].phase \in {"answered", "done"}
                    /\ Q[x.owner].run = r /\ Q[x.owner].calls = x.hold

\* A Run, opened, between two handlers, or between two frames of its chunk.
LEMMA MidStart ==
    ASSUME HInv, NEW r \in Runs, run[r].stream # "none"
    PROVE  Mid(r, run[r], held[r], req)
<1>1. RunSound(run[r], held[r] > 0) /\ OffSound(run[r], held[r] > 0) /\ RunOK(run[r])
      /\ held[r] \in Nat
  BY DEF HInv, World, LiveInv, IInv, TypeOK
<1>2. ASSUME MaxToolCalls = 0
      PROVE  /\ run[r].owner \in Requests
             /\ req[run[r].owner].phase \notin {"idle", "opening", "aborting"}
             /\ req[run[r].owner].phase = "waiting" <=> Running(run[r])
             /\ held[r] > 0 => /\ ~run[r].told
                               /\ req[run[r].owner].phase \in {"answered", "done"}
                               /\ req[run[r].owner].run = r
                               /\ req[run[r].owner].calls = run[r].hold
  <2>1. HoldInv(run, held, req, reading, readingHeld)
    BY <1>2 DEF HInv, World
  <2>2. HoldSound(r, run[r], held[r] > 0, req, reading, readingHeld)
    BY <2>1 DEF HoldInv
  <2>3. run[r].owner \in Requests
    BY <1>1 DEF RunOK
  <2>4. req[run[r].owner].phase = "waiting" => Running(run[r])
    BY <2>1, <2>3 DEF HoldInv
  <2>5. req[run[r].owner].phase \notin {"idle", "opening", "aborting"}
    BY <2>1, <2>3 DEF HoldInv
  <2> QED
    BY <2>2, <2>3, <2>4, <2>5 DEF HoldSound
<1> QED
  BY <1>1, <1>2 DEF Mid, RunSound, OffSound, RunOK

\* Requests whose owner of Run r has its answer: the promise of owner is settled.
Told(Q, q, Q2) ==
    /\ \A p \in Requests \ {q} : Q2[p] = Q[p]
    /\ q \in Requests =>
         /\ Q[q].phase # "waiting" => Q2[q] = Q[q]
         /\ Q[q].phase = "waiting" => Q2[q].phase \in {"answered", "failed"}

\* reject and resolve
LEMMA TellFields ==
    ASSUME NEW Q \in [Requests -> RequestState], NEW q, NEW r, NEW calls
    PROVE  /\ Told(Q, q, Reject(Q, q)) /\ Told(Q, q, Answer(Q, q, r, calls))
           /\ q \in Requests /\ Q[q].phase = "waiting" =>
                /\ Answer(Q, q, r, calls)[q].phase = "answered"
                /\ Answer(Q, q, r, calls)[q].run = r
                /\ Answer(Q, q, r, calls)[q].calls = Capped(calls)
<1>1. Told(Q, q, Reject(Q, q))
  BY DEF Told, Reject, RequestState
<1>2. Told(Q, q, Answer(Q, q, r, calls))
  BY DEF Told, Answer, RequestState
<1>3. q \in Requests /\ Q[q].phase = "waiting" =>
                /\ Answer(Q, q, r, calls)[q].phase = "answered"
                /\ Answer(Q, q, r, calls)[q].run = r
                /\ Answer(Q, q, r, calls)[q].calls = Capped(calls)
  BY DEF Answer, RequestState
<1> QED
  BY <1>1, <1>2, <1>3

\* finish(): the Run is settled, and its owner is told.
LEMMA FinishWorld ==
    ASSUME HInv, NEW r \in Runs, NEW x, NEW n, NEW Q, Mid(r, x, n, Q), Turn(r, x),
           n > 0 => reading' = r, NEW Q2, MaxToolCalls = 0 => Told(Q, x.owner, Q2),
           Keep(r, Settle(x), [held EXCEPT ![r] = n], Q2)
    PROVE  Next2World
<1> DEFINE y == Settle(x)
<1>1. x \in RunState /\ n \in Nat
  BY DEF Mid, HInv, IInv, TypeOK
<1>2. /\ y \in RunState /\ SameWork(x, y) /\ y.parked = x.parked /\ y.settled
      /\ ~y.timers /\ ~y.holdTimer /\ ~y.active /\ y.stream \in {"closing", "closed"}
  BY <1>1, SettleFields DEF Mid, Stopped, SameWork, RunState
<1> HIDE DEF y
<1>3. RunSound(y, n > 0)
  BY <1>2 DEF Mid, RunSound, SameWork, Running
<1>4. OffSound(y, n > 0)
  BY <1>2 DEF Mid, OffSound, SameWork
<1>5. Turn(r, y)
  BY <1>2 DEF Turn, SameWork
<1>6. ASSUME MaxToolCalls = 0 PROVE Fits(run, req, r, y, n, Q2, reading', readingHeld')
  <2>1. y.owner = x.owner /\ x.owner \in Requests
    BY <1>2, <1>6 DEF SameWork, Mid
  <2>2. \A q \in Requests \ {y.owner} : Q2[q] = req[q]
    BY <1>6, <2>1 DEF Told, Mid
  <2>3. Q2[y.owner].phase \notin {"idle", "opening", "aborting", "waiting"}
    BY <1>6, <2>1 DEF Told, Mid
  <2>4. HoldSound(r, y, n > 0, Q2, reading', readingHeld')
    <3>1. n > 0 => /\ ~y.told /\ Q2[y.owner].phase \in {"answered", "done"}
                   /\ Q2[y.owner].run = r /\ Q2[y.owner].calls = y.hold
      BY <1>2, <1>6, <2>1 DEF Told, Mid, SameWork
    <3> QED
      BY <1>2, <1>5, <1>6, <2>1, <3>1 DEF HoldSound, Turn, Running
  <2> QED
    BY <1>6, <2>1, <2>2, <2>3, <2>4 DEF Fits, Mid
<1> QED
  BY <1>1, <1>2, <1>3, <1>4, <1>5, <1>6, KeepWorld DEF y

\* A Run that is over leaves the store, and its owner is told.
LEMMA OverWorld ==
    ASSUME HInv, NEW r \in Runs, NEW x, NEW n, NEW Q, Mid(r, x, n, Q), reading' = NoRun,
           reading \in {r, NoRun}, NEW y \in RunState, SameWork(x, y), y.settled,
           ~y.timers, ~y.holdTimer, ~y.active, y.stream \in {"closing", "closed"},
           y.parked => x.parked, NEW Q2,
           MaxToolCalls = 0 =>
              /\ \A q \in Requests \ {x.owner} : Q2[q] = Q[q]
              /\ Q2[x.owner].phase \notin {"idle", "opening", "aborting", "waiting"}
    PROVE  World([run EXCEPT ![r] = y], [held EXCEPT ![r] = 0], Q2, reading', readingHeld')
<1>1. RunSound(y, 0 > 0) /\ OffSound(y, 0 > 0)
  BY DEF Mid, RunSound, OffSound, SameWork, Running
<1>2. NoRun # r
  BY CursorRunAssumption
<1>3. Turn(r, y)
  BY <1>2 DEF Turn
<1>4. ASSUME MaxToolCalls = 0 PROVE Fits(run, req, r, y, 0, Q2, reading', readingHeld')
  <2>1. y.owner = x.owner /\ x.owner \in Requests
    BY <1>4 DEF SameWork, Mid
  <2>2. HoldSound(r, y, 0 > 0, Q2, reading', readingHeld')
    BY <1>2 DEF HoldSound, Running
  <2>3. \A q \in Requests \ {y.owner} : Q2[q] = req[q]
    BY <1>4, <2>1 DEF Mid
  <2> QED
    BY <1>4, <2>1, <2>2, <2>3 DEF Fits, Mid
<1> QED
  BY <1>1, <1>3, <1>4, PlaceWorld

\* releaseParked()
LEMMA ReleaseParkedWorld ==
    ASSUME HInv, NEW r \in Runs, NEW x, Mid(r, x, held[r], req), x.parked, reading' = NoRun,
           reading \in {r, NoRun}, ReleaseParked(r, x)
    PROVE  Next2World
<1> DEFINE y == ReleasedParked(r, x)
<1>1. x \in RunState /\ req \in [Requests -> RequestState]
  BY DEF Mid, HInv, IInv, TypeOK
<1>2. InStore(r) \/ x.settled
  BY DEF Mid, InStore
<1>3. /\ y \in RunState /\ SameWork(x, y) /\ y.settled /\ (y.parked => x.parked)
      /\ ~y.timers /\ ~y.holdTimer /\ ~y.active /\ y.stream \in {"closing", "closed"}
  <2>1. CASE InStore(r) /\ x.settled
    <3>1. y = x
      BY <1>1, <2>1, ReleaseFields DEF ReleasedParked
    <3> QED
      BY <1>1, <2>1, <3>1 DEF Mid, SameWork
  <2>2. CASE InStore(r) /\ ~x.settled
    <3>1. y = Release(x)
      BY <2>2 DEF ReleasedParked
    <3>2. Stopped(x, y) /\ y.settled /\ ~y.parked
      BY <1>1, <2>2, <3>1, ReleaseFields
    <3> HIDE DEF y
    <3> QED
      BY <1>1, <3>2 DEF Mid, Stopped, RunState
  <2>3. CASE ~InStore(r)
    <3>1. y = Hangup(Cleanup(x))
      BY <2>3 DEF ReleasedParked
    <3>2. Stopped(x, y) /\ y.settled = x.settled /\ y.parked = x.parked
      BY <1>1, <3>1, StoppedFields
    <3> HIDE DEF y
    <3> QED
      BY <1>1, <1>2, <2>3, <3>2 DEF Mid, Stopped, RunState
  <2> QED
    BY <2>1, <2>2, <2>3
<1> DEFINE Q2 == Reject(req, x.owner)
<1>4. MaxToolCalls = 0 => /\ \A q \in Requests \ {x.owner} : Q2[q] = req[q]
                          /\ Q2[x.owner].phase \notin {"idle", "opening", "aborting", "waiting"}
  BY <1>1, TellFields DEF Told, Mid
<1>5. Keep(r, y, [held EXCEPT ![r] = 0], Q2)
  BY DEF ReleaseParked
<1> HIDE DEF y, Q2
<1>6. World([run EXCEPT ![r] = y], [held EXCEPT ![r] = 0], Q2, reading', readingHeld')
  BY <1>3, <1>4, OverWorld
<1> QED
  BY <1>5, <1>6 DEF Keep, Next2World

\* A request goes on or gives up while no Run owes it an answer.
LEMMA RephaseWorld ==
    ASSUME NEW R, \A t \in Runs : RunOK(R[t]), NEW H, NEW Q, NEW rd, NEW rh,
           World(R, H, Q, rd, rh),
           NEW q \in Requests, NEW Q2,
           MaxToolCalls = 0 =>
             /\ \A p \in Requests \ {q} : Q2[p] = Q[p]
             /\ Q[q].phase # "waiting" /\ Q2[q].phase # "waiting"
             /\ Q2[q].phase \in {"idle", "opening", "aborting"} =>
                  \A t \in Runs : R[t].owner # q
             /\ \A t \in Runs : R[t].owner = q /\ H[t] > 0 =>
                  /\ Q2[q].phase \in {"answered", "done"}
                  /\ Q2[q].run = t /\ Q2[q].calls = R[t].hold
    PROVE  World(R, H, Q2, rd, rh)
<1>1. ASSUME MaxToolCalls = 0 PROVE HoldInv(R, H, Q2, rd, rh)
  <2>1. HoldInv(R, H, Q, rd, rh)
    BY <1>1 DEF World
  <2>2. ASSUME NEW t \in Runs PROVE HoldSound(t, R[t], H[t] > 0, Q2, rd, rh)
    <3>1. HoldSound(t, R[t], H[t] > 0, Q, rd, rh)
      BY <2>1 DEF HoldInv
    <3>2. R[t].stream # "none" => R[t].owner \in Requests
      BY DEF RunOK
    <3>3. CASE R[t].owner = q
      BY <1>1, <3>1, <3>2, <3>3 DEF HoldSound
    <3>4. CASE R[t].owner # q
      BY <1>1, <3>1, <3>2, <3>4 DEF HoldSound
    <3> QED
      BY <3>3, <3>4
  <2>3. ASSUME NEW p \in Requests, Q2[p].phase \in {"idle", "opening", "aborting"}
        PROVE  \A t \in Runs : R[t].owner # p
    BY <1>1, <2>1, <2>3 DEF HoldInv
  <2>4. ASSUME NEW p \in Requests, Q2[p].phase = "waiting"
        PROVE  \E t \in Runs : R[t].owner = p /\ Running(R[t])
    BY <1>1, <2>1, <2>4 DEF HoldInv
  <2>5. \A t, u \in Runs : R[t].owner \in Requests /\ R[t].owner = R[u].owner => t = u
    BY <2>1 DEF HoldInv
  <2> QED
    BY <2>2, <2>3, <2>4, <2>5 DEF HoldInv
<1> QED
  BY <1>1 DEF World

\* A handler leaves Run r where it is, in the store or not, owned by whom it was.
Quiet(r, y) ==
    /\ run[r].stream # "none" /\ y \in RunState
    /\ y.settled = run[r].settled /\ y.parked = run[r].parked /\ y.timers = run[r].timers
    /\ y.owner = run[r].owner /\ y.cred = run[r].cred /\ y.hold = run[r].hold
    /\ run[r].settled => ~y.holdTimer
    /\ y.active => run[r].active
    /\ Running(run[r]) \/ y.stream = "open" => y.active
    /\ y.stream = run[r].stream \/ y.stream \in {"closing", "closed"}
    /\ run[r].done \subseteq y.done /\ y.done \subseteq 1..y.slots
    /\ Turn(r, y)
    /\ MaxToolCalls = 0 /\ held[r] > 0 =>
          /\ ~y.told
          /\ reading' # r => ~y.settled /\ (Ended(y) => CompletedCalls(y) # {})

\* Such a handler keeps the Runs, the holds and the requests in order.
LEMMA QuietWorld ==
    ASSUME HInv, NEW r \in Runs, NEW y, Quiet(r, y), Keep(r, y, held, req)
    PROVE  Next2World
<1> DEFINE x == run[r]
           s == held[r] > 0
<1>1. /\ RunSound(x, s) /\ OffSound(x, s) /\ RunOK(x) /\ held[r] \in Nat
      /\ held \in [Runs -> Nat]
  BY DEF HInv, World, LiveInv, IInv, TypeOK
<1>2. Mid(r, x, held[r], req)
  BY MidStart DEF Quiet
<1>3. RunSound(y, s)
  <2> HIDE DEF s
  <2> QED
    BY <1>1 DEF RunSound, Running, Quiet
<1>4. OffSound(y, s)
  <2> HIDE DEF s
  <2> QED
    BY <1>1 DEF OffSound, Quiet
<1>5. ASSUME MaxToolCalls = 0 PROVE Fits(run, req, r, y, held[r], req, reading', readingHeld')
  <2>1. HoldSound(r, y, s, req, reading', readingHeld')
    <3> HIDE DEF s
    <3>1. s <=> held[r] > 0
      BY DEF s
    <3> QED
      BY <1>2, <1>5, <3>1 DEF HoldSound, Mid, Turn, Running, Quiet
  <2> QED
    BY <1>2, <1>5, <2>1 DEF Fits, Mid, Running, Quiet
<1>6. Keep(r, y, [held EXCEPT ![r] = held[r]], req)
  <2>1. [held EXCEPT ![r] = held[r]] = held
    BY <1>1
  <2> QED
    BY <2>1
<1> QED
  BY <1>1, <1>3, <1>4, <1>5, <1>6, KeepWorld DEF Quiet

\* HeldRun.release leaves a Run that is over.
LEMMA ReleaseOver ==
    ASSUME NEW x \in RunState, NEW s, RunSound(x, s), x.parked
    PROVE  LET y == Release(x)
           IN  /\ y \in RunState /\ SameWork(x, y) /\ y.settled /\ (y.parked => x.parked)
               /\ ~y.timers /\ ~y.holdTimer /\ ~y.active /\ y.stream \in {"closing", "closed"}
<1> DEFINE y == Release(x)
<1>1. x.stream # "none"
  BY DEF RunSound
<1>2. CASE x.settled
  <2>1. y = x
    BY <1>2, ReleaseFields
  <2> QED
    BY <1>2, <2>1 DEF RunSound, SameWork
<1>3. CASE ~x.settled
  <2>1. Stopped(x, y) /\ y.settled /\ ~y.parked
    BY <1>3, ReleaseFields
  <2> HIDE DEF y
  <2> QED
    BY <1>1, <2>1 DEF Stopped, RunState, y
<1> QED
  BY <1>2, <1>3

\* park(), which may first release the hold that was put first
LEMMA ParkWorld ==
    ASSUME HInv, NEW r \in Runs, NEW z \in RunState, NEW Q2, Turn(r, z),
           RunSound(z, parks + 1 > 0), OffSound(z, parks + 1 > 0),
           MaxToolCalls = 0 => Fits(run, req, r, z, parks + 1, Q2, reading', readingHeld'),
           Park(r, z, [held EXCEPT ![r] = 0]), req' = Q2
    PROVE  Next2World
<1> DEFINE h == [held EXCEPT ![r] = 0]
           n == parks + 1
<1>1. /\ run \in [Runs -> RunState] /\ held \in [Runs -> Nat] /\ \A t \in Runs : RunOK(run[t])
      /\ World(run, held, req, reading, readingHeld) /\ n \in Nat
  BY DEF HInv, IInv, TypeOK
<1>2. /\ {reading, reading'} \subseteq {r, NoRun}
      /\ reading' = r /\ readingHeld' => z.parked
  BY DEF Turn
<1>3. CASE run' = [run EXCEPT ![r] = z] /\ held' = [h EXCEPT ![r] = n]
  <2>1. held' = [held EXCEPT ![r] = n]
    BY <1>1, <1>3
  <2>2. World([run EXCEPT ![r] = z], [held EXCEPT ![r] = n], Q2, reading', readingHeld')
    BY <1>1, <1>2, Put
  <2> QED
    BY <1>3, <2>1, <2>2 DEF Next2World
<1>4. ASSUME NEW oldest \in Runs, h[oldest] > 0,
             run' = [run EXCEPT ![oldest] = Release(@), ![r] = z],
             held' = [h EXCEPT ![oldest] = 0, ![r] = n]
      PROVE  Next2World
  <2> DEFINE x == run[oldest]
             y == Release(x)
             R1 == [run EXCEPT ![oldest] = y]
             H1 == [held EXCEPT ![oldest] = 0]
  <2>1. oldest # r /\ held[oldest] > 0
    BY <1>1, <1>4
  <2>2. /\ x \in RunState /\ RunSound(x, held[oldest] > 0) /\ OffSound(x, held[oldest] > 0)
    BY <1>1 DEF World, LiveInv
  <2>3. x.parked /\ x.stream # "none"
    BY <2>1, <2>2 DEF RunSound
  <2>4. /\ y \in RunState /\ SameWork(x, y) /\ y.settled /\ (y.parked => x.parked)
        /\ ~y.timers /\ ~y.holdTimer /\ ~y.active /\ y.stream \in {"closing", "closed"}
    BY <2>2, <2>3, ReleaseOver
  <2>5. RunSound(y, 0 > 0) /\ OffSound(y, 0 > 0)
    <3> HIDE DEF y, x
    <3> QED
      BY <2>2, <2>4 DEF RunSound, OffSound, SameWork, Running
  <2>6. NoRun # oldest /\ reading # oldest
    BY <1>2, <2>1, CursorRunAssumption
  <2>7. ASSUME MaxToolCalls = 0 PROVE Fits(run, req, oldest, y, 0, req, reading, readingHeld)
    <3>1. Mid(oldest, x, held[oldest], req)
      BY <2>3, MidStart
    <3>2. HoldSound(oldest, y, 0 > 0, req, reading, readingHeld)
      BY <2>4, <2>6 DEF HoldSound, Running
    <3>3. y.owner = x.owner
      BY <2>4 DEF SameWork
    <3>4. req[x.owner].phase # "waiting"
      BY <2>3, <2>7, <3>1 DEF Mid, Running
    <3> HIDE DEF y
    <3> QED
      BY <2>7, <3>1, <3>2, <3>3, <3>4 DEF Fits, Mid
  <2>8. World(R1, H1, req, reading, readingHeld)
    <3> HIDE DEF y
    <3> QED
      BY <1>1, <2>4, <2>5, <2>6, <2>7, Put
  <2>9. /\ R1 \in [Runs -> RunState] /\ H1 \in [Runs -> Nat] /\ R1[r] = run[r]
        /\ \A t \in Runs : RunOK(R1[t]) /\ R1[t].owner = run[t].owner
    <3>1. RunOK(y)
      BY <1>1, ReleaseOperators DEF Later
    <3>2. y.owner = x.owner
      BY <2>4 DEF SameWork
    <3> HIDE DEF y
    <3> QED
      BY <1>1, <2>1, <2>4, <3>1, <3>2
  <2>10. MaxToolCalls = 0 => Fits(R1, req, r, z, n, Q2, reading', readingHeld')
    <3> HIDE DEF R1
    <3> QED
      BY <2>9 DEF Fits
  <2>11. run' = [R1 EXCEPT ![r] = z] /\ held' = [H1 EXCEPT ![r] = n]
    BY <1>1, <1>4, <2>1
  <2> HIDE DEF R1, H1
  <2>12. World([R1 EXCEPT ![r] = z], [H1 EXCEPT ![r] = n], Q2, reading', readingHeld')
    BY <1>1, <1>2, <2>8, <2>9, <2>10, Put
  <2> QED
    BY <2>11, <2>12 DEF Next2World
<1> QED
  BY <1>3, <1>4 DEF Park

\* Without max_tool_calls no call of a batch is cut from the answer.
LEMMA NothingCapped ==
    ASSUME MaxToolCalls = 0, NEW x, RunOK(x)
    PROVE  Capped(CompletedCalls(x)) = CompletedCalls(x)
<1> DEFINE calls == CompletedCalls(x)
           upTo(i) == {j \in calls : j <= i}
<1>1. calls \subseteq 1..MaxSlots /\ MaxSlots \in Nat
  BY CallsAreNew, CursorRunAssumption DEF Slots
<1>2. ASSUME NEW i \in calls PROVE Cardinality(upTo(i)) <= Limit
  <2>1. CASE Parallel
    <3>1. Limit = MaxSlots
      BY <2>1 DEF Limit
    <3>2. IsFiniteSet(1..MaxSlots) /\ Cardinality(1..MaxSlots) = MaxSlots
      <4>1. IsFiniteSet(1..MaxSlots)
        BY <1>1, FS_Interval
      <4>2. Cardinality(1..MaxSlots) = IF 1 > MaxSlots THEN 0 ELSE MaxSlots - 1 + 1
        BY <1>1, FS_Interval
      <4> QED
        BY <1>1, <4>1, <4>2
    <3>3. upTo(i) \subseteq 1..MaxSlots
      BY <1>1
    <3> HIDE DEF upTo, calls
    <3>4. Cardinality(upTo(i)) <= Cardinality(1..MaxSlots)
      BY <3>2, <3>3, FS_Subset
    <3> QED
      BY <3>1, <3>2, <3>4
  <2>2. CASE ~Parallel
    <3>1. Limit = 1
      BY <2>2 DEF Limit
    <3>2. upTo(i) \subseteq {i}
      BY <1>1, <2>2 DEF CompletedCalls
    <3> HIDE DEF upTo, calls
    <3>3. IsFiniteSet({i}) /\ Cardinality({i}) = 1
      BY FS_Singleton
    <3>4. Cardinality(upTo(i)) <= Cardinality({i})
      BY <3>2, <3>3, FS_Subset
    <3> QED
      BY <3>1, <3>3, <3>4
  <2> QED
    BY <2>1, <2>2
<1> QED
  BY <1>2 DEF Capped

\* What drain() works on: a Run that runs, under a credential and a backend that go on,
\* with a stream that talks or a turn that ended.
Drains(r, x, Q) ==
    /\ Mid(r, x, 0, Q) /\ Q \in [Requests -> RequestState] /\ RunOK(x)
    /\ Running(x) /\ x.timers /\ (Ended(x) \/ x.active) /\ (x.stream = "open" => x.active)
    /\ x.cred \notin revoked /\ ~down
    /\ Turn(r, x) /\ (MaxToolCalls = 0 => reading' = NoRun)

\* surfaceBatch()
LEMMA SurfaceBatchWorld ==
    ASSUME HInv, NEW r \in Runs, NEW x, NEW Q, Drains(r, x, Q), CompletedCalls(x) # {},
           SurfaceBatch(r, x, [held EXCEPT ![r] = 0], Q)
    PROVE  Next2World
<1> DEFINE calls == CompletedCalls(x)
           y == [x EXCEPT !.holdTimer = FALSE, !.surfaced = @ \cup calls,
                          !.fresh = FALSE, !.told = FALSE]
           z == [y EXCEPT !.parked = TRUE, !.hold = calls]
           Q2 == Answer(Q, x.owner, r, calls)
           h == [held EXCEPT ![r] = 0]
<1>1. /\ Mid(r, x, 0, Q) /\ Q \in [Requests -> RequestState] /\ RunOK(x) /\ x \in RunState
      /\ ~x.settled /\ ~x.parked /\ x.timers /\ (x.stream = "open" => x.active)
      /\ x.stream # "none" /\ x.cred \notin revoked /\ ~down
  BY DEF Drains, Running, Mid
<1>2. calls \subseteq Slots /\ calls \subseteq x.done /\ calls # {}
  BY <1>1, CallsAreNew
<1>3. Told(Q, x.owner, Q2)
  BY <1>1, TellFields
<1>4. NoRun # r
  BY CursorRunAssumption
<1>5. /\ y \in RunState /\ ~y.settled /\ ~y.parked /\ y.timers /\ y.active = x.active
      /\ y.stream = x.stream /\ y.done = x.done /\ y.slots = x.slots
      /\ y.owner = x.owner /\ y.cred = x.cred /\ ~y.holdTimer /\ y.emit = x.emit
      /\ ~y.told /\ y.surfaced = x.surfaced \cup calls
      /\ y.streamEnded = x.streamEnded /\ y.turnEnded = x.turnEnded
  <2> HIDE DEF calls
  <2> QED
    BY <1>1, <1>2 DEF RunState
<1>6. CASE Keep(r, Settle(y), h, Q2)
  <2>1. Mid(r, y, 0, Q)
    <3> HIDE DEF y
    <3> QED
      BY <1>1, <1>5 DEF Mid, Running
  <2>2. Turn(r, y)
    <3> HIDE DEF y
    <3> QED
      BY <1>1, <1>5 DEF Turn, Drains, RunState
  <2>3. MaxToolCalls = 0 => Told(Q, y.owner, Q2)
    BY <1>3, <1>5
  <2>4. Keep(r, Settle(y), [held EXCEPT ![r] = 0], Q2) /\ ~(0 > 0)
    BY <1>6
  <2> HIDE DEF y, Q2, h
  <2> QED
    BY <2>1, <2>2, <2>3, <2>4, FinishWorld
<1>7. CASE /\ ~Ended(x) \/ CompletedCalls(y) # {}
           /\ Park(r, z, h) /\ req' = Q2
  <2>1. /\ z \in RunState /\ ~z.settled /\ z.parked /\ z.timers /\ z.active = x.active
        /\ z.stream = x.stream /\ z.done = x.done /\ z.slots = x.slots
        /\ z.owner = x.owner /\ z.cred = x.cred /\ ~z.holdTimer
        /\ ~z.told /\ z.surfaced = y.surfaced /\ z.hold = calls
        /\ z.streamEnded = x.streamEnded /\ z.turnEnded = x.turnEnded
    <3> HIDE DEF y, calls
    <3> QED
      BY <1>2, <1>5 DEF RunState
  <2> HIDE DEF z, Q2
  <2>2. parks + 1 > 0 /\ parks + 1 \in Nat
    BY DEF HInv, IInv, TypeOK
  <2>3. RunSound(z, parks + 1 > 0) /\ OffSound(z, parks + 1 > 0)
    <3> HIDE DEF y, calls
    <3> QED
      BY <1>1, <1>2, <2>1, <2>2 DEF RunSound, OffSound, Running, Mid
  <2>4. Turn(r, z)
    BY <1>4, <2>1 DEF Turn, Drains
  <2>5. ASSUME MaxToolCalls = 0
        PROVE  Fits(run, req, r, z, parks + 1, Q2, reading', readingHeld')
    <3>1. x.owner \in Requests /\ Q[x.owner].phase = "waiting"
      BY <1>1, <2>5 DEF Mid, Running
    <3>2. /\ Q2[x.owner].phase = "answered" /\ Q2[x.owner].run = r
          /\ Q2[x.owner].calls = Capped(calls)
      BY <1>1, <3>1, TellFields DEF Q2
    <3>3. Capped(calls) = calls
      BY <1>1, <2>5, NothingCapped
    <3>4. Ended(z) => CompletedCalls(z) # {}
      <4>1. CompletedCalls(z) = CompletedCalls(y)
        <5> HIDE DEF y
        <5> QED
          BY <1>5, <2>1 DEF CompletedCalls, Unsurfaced
      <4>2. Ended(z) = Ended(x)
        BY <2>1 DEF Ended
      <4> QED
        BY <1>7, <4>1, <4>2
    <3>5. HoldSound(r, z, parks + 1 > 0, Q2, reading', readingHeld')
      <4>1. reading' # r
        BY <1>4, <2>5 DEF Drains
      <4>2. ~Running(z)
        BY <2>1 DEF Running
      <4> HIDE DEF y, calls
      <4> QED
        BY <2>1, <3>1, <3>2, <3>3, <3>4, <4>1, <4>2 DEF HoldSound
    <3> HIDE DEF y, calls
    <3> QED
      BY <1>1, <1>3, <2>1, <2>5, <3>1, <3>2, <3>5 DEF Fits, Mid, Told
  <2> QED
    BY <1>7, <2>1, <2>3, <2>4, <2>5, ParkWorld DEF h
<1> QED
  BY <1>6, <1>7 DEF SurfaceBatch

\* drain()
LEMMA DrainWorld ==
    ASSUME HInv, NEW r \in Runs, NEW x, NEW Q, Drains(r, x, Q),
           Drain(r, x, [held EXCEPT ![r] = 0], Q)
    PROVE  Next2World
<1> DEFINE h == [held EXCEPT ![r] = 0]
<1>1. /\ Mid(r, x, 0, Q) /\ Turn(r, x) /\ Q \in [Requests -> RequestState]
      /\ x \in RunState /\ Running(x) /\ ~(0 > 0) /\ NoRun # r
  BY CursorRunAssumption DEF Drains, Mid
<1>2. CASE FinishWithError(r, x, h, Q)
  BY <1>1, <1>2, TellFields, FinishWorld DEF FinishWithError
<1>3. CASE FinishWithText(r, x, h, Q)
  BY <1>1, <1>3, TellFields, FinishWorld DEF FinishWithText
<1>4. CASE SurfaceBatch(r, x, h, Q) /\ CompletedCalls(x) # {}
  BY <1>4, SurfaceBatchWorld
<1>5. CASE Keep(r, x, h, Q) /\ ~Ended(x)
  <2>1. RunSound(x, 0 > 0) /\ OffSound(x, 0 > 0)
    BY <1>1, <1>5 DEF RunSound, OffSound, Drains, Mid, Running
  <2>2. ASSUME MaxToolCalls = 0 PROVE Fits(run, req, r, x, 0, Q, reading', readingHeld')
    <3>1. HoldSound(r, x, 0 > 0, Q, reading', readingHeld')
      BY <1>1, <2>2 DEF HoldSound, Mid, Drains
    <3> QED
      BY <1>1, <2>2, <3>1 DEF Fits, Mid
  <2> QED
    BY <1>1, <1>5, <2>1, <2>2, KeepWorld
<1> QED
  BY <1>2, <1>3, <1>4, <1>5 DEF Drain

\* What hold() and drain() need of a Run that runs.
LEMMA QuietDrains ==
    ASSUME HInv, NEW r \in Runs, NEW x, Quiet(r, x), Running(x),
           MaxToolCalls = 0 => reading' = NoRun
    PROVE  Drains(r, x, req) /\ [held EXCEPT ![r] = 0] = held
<1>1. /\ RunSound(run[r], held[r] > 0) /\ OffSound(run[r], held[r] > 0) /\ RunOK(run[r])
      /\ held[r] \in Nat /\ held \in [Runs -> Nat] /\ req \in [Requests -> RequestState]
  BY DEF HInv, World, LiveInv, IInv, TypeOK
<1>2. Mid(r, run[r], held[r], req)
  BY MidStart DEF Quiet
<1>3. Running(run[r]) /\ held[r] = 0 /\ run[r].timers /\ run[r].stream # "none"
  BY <1>1 DEF Quiet, Running, RunSound
<1>4. Mid(r, x, 0, req)
  BY <1>2, <1>3 DEF Mid, Quiet, Running
<1>5. x.active /\ x.cred \notin revoked /\ ~down /\ x.timers
  BY <1>1, <1>3 DEF Quiet, OffSound
<1>6. RunOK(x)
  BY <1>1, <1>3 DEF RunOK, Quiet
<1>7. [held EXCEPT ![r] = 0] = held
  BY <1>1, <1>3
<1> QED
  BY <1>1, <1>4, <1>5, <1>6, <1>7 DEF Drains, Quiet

\* Arming the settle window changes nothing else.
LEMMA ArmFields ==
    ASSUME NEW x \in RunState, NEW y \in {ScheduleHold(x), Interaction(x)}
    PROVE  /\ y \in RunState /\ SameWork(x, y) /\ y.settled = x.settled /\ y.parked = x.parked
           /\ y.stream = x.stream /\ y.timers = x.timers /\ y.active = x.active
           /\ x.settled => y.holdTimer = x.holdTimer
<1>1. y = x \/ (~x.settled /\ y = [x EXCEPT !.holdTimer = TRUE])
  BY DEF ScheduleHold, Interaction, Running
<1>2. CASE y = x
  BY <1>2 DEF SameWork
<1>3. CASE ~x.settled /\ y = [x EXCEPT !.holdTimer = TRUE]
  BY <1>3 DEF SameWork, RunState
<1> QED
  BY <1>1, <1>2, <1>3

\* hold()
LEMMA HoldWorld ==
    ASSUME HInv, NEW r \in Runs, NEW x, Quiet(r, x), Hold(r, x),
           MaxToolCalls = 0 => reading' = NoRun
    PROVE  Next2World
<1>1. CASE Keep(r, x, held, req)
  BY <1>1, QuietWorld
<1>2. CASE Running(x) /\ Keep(r, ScheduleHold(x), held, req)
  <2> DEFINE y == ScheduleHold(x)
  <2>1. /\ y \in RunState /\ SameWork(x, y) /\ y.settled = x.settled /\ y.parked = x.parked
        /\ y.stream = x.stream /\ y.timers = x.timers /\ y.active = x.active
        /\ ~x.settled /\ ~x.parked
    BY <1>2, ArmFields DEF Quiet, Running
  <2> HIDE DEF y
  <2>2. Turn(r, y)
    BY <2>1 DEF Turn, Quiet, SameWork
  <2>3. Ended(y) = Ended(x) /\ CompletedCalls(y) = CompletedCalls(x)
    BY <2>1 DEF SameWork, Ended, CompletedCalls, Unsurfaced
  <2>4. Quiet(r, y)
    BY <2>1, <2>2, <2>3 DEF Quiet, SameWork
  <2> QED
    BY <1>2, <2>4, QuietWorld DEF y
<1>3. CASE Running(x) /\ Drain(r, x, held, req)
  BY <1>3, QuietDrains, DrainWorld
<1> QED
  BY <1>1, <1>2, <1>3 DEF Hold

-----------------------------------------------------------------------------
(* The stream's 'data' handler                                             *)

\* Whether the Run was parked when the chunk arrived is whether it still is.
LEMMA FrameTurn ==
    ASSUME HInv, NEW r \in Runs, reading = r, UNCHANGED <<reading, readingHeld>>
    PROVE  Turn(r, run[r])
<1>1. readingHeld => run[r].parked
  BY DEF HInv, World, LiveInv
<1>2. MaxToolCalls = 0 => readingHeld = run[r].parked /\ (run[r].parked => ~run[r].emit)
  BY DEF HInv, World, HoldInv, HoldSound
<1> QED
  BY <1>1, <1>2 DEF Turn

\* z is a Run x that a frame added to.
Grown(x, z) ==
    /\ z \in RunState
    /\ z.settled = x.settled /\ z.parked = x.parked /\ z.timers = x.timers
    /\ z.stream = x.stream /\ z.active = x.active /\ z.owner = x.owner
    /\ z.cred = x.cred /\ z.hold = x.hold /\ z.emit = x.emit
    /\ z.told = x.told \/ z.told = (x.told \/ x.emit)
    /\ x.done \subseteq z.done /\ z.done \subseteq 1..z.slots

\* A frame that adds to its Run and leaves it where it is.
LEMMA FrameQuiet ==
    ASSUME HInv, NEW r \in Runs, NextFrame(r), NEW y, Grown(run[r], y)
    PROVE  Quiet(r, y)
<1>1. /\ run[r].stream # "none" /\ ~run[r].settled /\ reading' = r
      /\ RunSound(run[r], held[r] > 0) /\ run[r] \in RunState
  BY DEF NextFrame, HInv, World, LiveInv, IInv, TypeOK
<1>2. Turn(r, run[r]) /\ Mid(r, run[r], held[r], req)
  BY <1>1, FrameTurn, MidStart DEF NextFrame
<1>3. Turn(r, y)
  BY <1>2 DEF Turn, Grown
<1>4. MaxToolCalls = 0 /\ held[r] > 0 => ~y.told
  <2>1. ASSUME MaxToolCalls = 0, held[r] > 0
        PROVE  ~run[r].told /\ run[r].parked /\ ~run[r].emit
    BY <1>1, <1>2, <2>1 DEF Mid, Turn
  <2> QED
    BY <2>1 DEF Grown
<1>5. Running(run[r]) \/ y.stream = "open" => y.active
  BY <1>1 DEF RunSound, Grown, Running
<1> QED
  BY <1>1, <1>3, <1>4, <1>5 DEF Quiet, Grown

\* The frames that only add to the Run.
LEMMA FrameWorld ==
    ASSUME HInv, NEW r \in Runs,
           \/ FrameText(r) \/ FrameAnnounce(r) \/ FrameTurnEnded(r) \/ FrameTrailer(r)
           \/ \E i \in Slots : FrameCallCompleted(r, i)
    PROVE  Next2World
<1> DEFINE x == run[r]
           y == Interaction(x)
<1>1. /\ NextFrame(r) /\ RunSound(x, held[r] > 0) /\ x \in RunState /\ MaxSlots \in Nat
      /\ x.slots \in 0..MaxSlots /\ x.done \subseteq 1..x.slots
  BY CursorRunAssumption
     DEF FrameText, FrameAnnounce, FrameTurnEnded, FrameTrailer, FrameCallCompleted,
         HInv, World, LiveInv, IInv, TypeOK, RunSound, RunState
<1>2. /\ y \in RunState /\ SameWork(x, y) /\ y.settled = x.settled /\ y.parked = x.parked
      /\ y.stream = x.stream /\ y.timers = x.timers /\ y.active = x.active
  BY <1>1, ArmFields
<1> HIDE DEF y
<1>3. CASE FrameText(r)
  <2> DEFINE b == y.told \/ x.emit
  <2>1. ASSUME NEW c \in BOOLEAN, c = x.told \/ c = (x.told \/ x.emit)
        PROVE  Grown(x, [y EXCEPT !.fresh = TRUE, !.told = c])
    <3> DEFINE z == [y EXCEPT !.fresh = TRUE, !.told = c]
    <3>1. /\ z \in RunState /\ z.settled = x.settled /\ z.parked = x.parked
          /\ z.timers = x.timers /\ z.stream = x.stream /\ z.active = x.active /\ z.told = c
      BY <1>1, <1>2 DEF RunState
    <3>2. /\ z.owner = x.owner /\ z.cred = x.cred /\ z.hold = x.hold /\ z.emit = x.emit
          /\ z.done = x.done /\ z.slots = x.slots
      BY <1>2 DEF SameWork, RunState
    <3> HIDE DEF z
    <3> QED
      BY <1>1, <2>1, <3>1, <3>2 DEF Grown, z
  <2>2. b \in BOOLEAN /\ b = (x.told \/ x.emit)
    BY <1>2 DEF SameWork
  <2>3. Keep(r, [y EXCEPT !.fresh = TRUE, !.told = b], held, req)
    BY <1>3 DEF FrameText, y
  <2> HIDE DEF b
  <2>4. Grown(x, [y EXCEPT !.fresh = TRUE, !.told = b])
    BY <2>1, <2>2
  <2> QED
    BY <1>1, <2>3, <2>4, FrameQuiet, QuietWorld
<1>4. CASE FrameAnnounce(r)
  <2> DEFINE n == x.slots + 1
             z == [y EXCEPT !.slots = n]
  <2>1. n \in 0..MaxSlots /\ x.done \subseteq 1..n
    BY <1>1, <1>4 DEF FrameAnnounce
  <2>2. Keep(r, z, held, req)
    BY <1>2, <1>4 DEF FrameAnnounce, y, SameWork
  <2> HIDE DEF n
  <2>3. Grown(x, z)
    BY <1>1, <1>2, <2>1 DEF Grown, SameWork, RunState
  <2> QED
    BY <1>1, <2>2, <2>3, FrameQuiet, QuietWorld
<1>5. ASSUME NEW i \in Slots, FrameCallCompleted(r, i) PROVE Next2World
  <2> DEFINE n == IF i > x.slots THEN i ELSE x.slots
             d == x.done \cup {i}
             z == [y EXCEPT !.slots = n, !.done = d]
  <2>1. n \in 0..MaxSlots /\ x.done \subseteq d /\ d \subseteq 1..n /\ d \subseteq Slots
    BY <1>1 DEF Slots, RunState
  <2>2. Keep(r, z, held, req)
    BY <1>2, <1>5 DEF FrameCallCompleted, WithCall, y, SameWork
  <2> HIDE DEF n, d
  <2>3. Grown(x, z)
    BY <1>1, <1>2, <2>1 DEF Grown, SameWork, RunState
  <2> QED
    BY <1>1, <2>2, <2>3, FrameQuiet, QuietWorld
<1>6. CASE FrameTurnEnded(r)
  <2> DEFINE z == [y EXCEPT !.turnEnded = TRUE]
  <2>1. Keep(r, z, held, req)
    BY <1>6 DEF FrameTurnEnded, y
  <2>2. Grown(x, z)
    BY <1>1, <1>2 DEF Grown, SameWork, RunState
  <2> QED
    BY <1>1, <2>1, <2>2, FrameQuiet, QuietWorld
<1>7. CASE FrameTrailer(r)
  <2> DEFINE z == [x EXCEPT !.streamEnded = TRUE]
  <2>1. Keep(r, z, held, req)
    BY <1>7 DEF FrameTrailer
  <2>2. Grown(x, z)
    BY <1>1 DEF Grown, RunState
  <2> QED
    BY <1>1, <2>1, <2>2, FrameQuiet, QuietWorld
<1> QED
  BY <1>3, <1>4, <1>5, <1>6, <1>7

\* The first half of a 'data' handler mutes the emitter of a held Run.
LEMMA BeginChunkWorld ==
    ASSUME HInv, NEW r \in Runs, BeginChunk(r)
    PROVE  Next2World
<1> DEFINE x == run[r]
           b == x.emit /\ ~x.parked
           y == [x EXCEPT !.emit = b]
<1>1. /\ RunSound(x, held[r] > 0) /\ x \in RunState /\ run \in [Runs -> RunState]
      /\ x.stream = "open" /\ ~x.settled /\ reading = NoRun /\ reading' = r
      /\ readingHeld' = x.parked
  BY DEF BeginChunk, AtRest, HInv, World, LiveInv, IInv, TypeOK
<1>2. Mid(r, x, held[r], req)
  BY <1>1, MidStart
<1>3. b \in BOOLEAN /\ (x.parked => ~b)
  OBVIOUS
<1>4. Keep(r, y, held, req)
  BY <1>1 DEF BeginChunk, Keep
<1> HIDE DEF b
<1>5. /\ y \in RunState /\ y.settled = x.settled /\ y.parked = x.parked
      /\ y.timers = x.timers /\ y.stream = x.stream /\ y.active = x.active
      /\ y.owner = x.owner /\ y.cred = x.cred /\ y.hold = x.hold /\ y.told = x.told
      /\ y.done = x.done /\ y.slots = x.slots /\ y.emit = b
  BY <1>1, <1>3 DEF RunState
<1> HIDE DEF y
<1>6. Turn(r, y)
  BY <1>1, <1>3, <1>5 DEF Turn
<1>7. Quiet(r, y)
  BY <1>1, <1>2, <1>5, <1>6 DEF Quiet, Mid, RunSound
<1> QED
  BY <1>4, <1>7, QuietWorld

\* mcpArgs: the call is completed and its exec held.
LEMMA FrameExecWorld ==
    ASSUME HInv, NEW r \in Runs, NEW i \in Slots, FrameExec(r, i)
    PROVE  Next2World
<1> DEFINE y == run[r]
           n == IF i > y.slots THEN i ELSE y.slots
           d == y.done \cup {i}
           e == y.execs \cup {i}
           w == WithCall(y, i)
           x == [w EXCEPT !.execs = @ \cup {i}]
<1>1. /\ NextFrame(r) /\ y \in RunState /\ MaxSlots \in Nat /\ reading' = r
      /\ y.slots \in 0..MaxSlots /\ y.done \subseteq 1..y.slots /\ MaxToolCalls \in Nat
  BY CursorRunAssumption
     DEF FrameExec, NextFrame, HInv, World, LiveInv, IInv, TypeOK, RunSound, RunState
<1>2. /\ n \in 0..MaxSlots /\ y.done \subseteq d /\ d \subseteq 1..n /\ d \subseteq Slots
      /\ e \subseteq Slots
  BY <1>1 DEF Slots, RunState
<1>3. x = [y EXCEPT !.slots = n, !.done = d, !.execs = e]
  BY <1>1 DEF WithCall, RunState
<1>4. \/ Hold(r, x) /\ MaxToolCalls # 0
      \/ Keep(r, ScheduleHold(x), held, req)
  BY <1>1 DEF FrameExec, AtMaximum
<1> HIDE DEF n, d, e, x
<1>5. Grown(y, x)
  BY <1>1, <1>2, <1>3 DEF Grown, RunState
<1>6. CASE Hold(r, x) /\ MaxToolCalls # 0
  BY <1>1, <1>5, <1>6, FrameQuiet, HoldWorld
<1>7. CASE Keep(r, ScheduleHold(x), held, req)
  <2> DEFINE z == ScheduleHold(x)
  <2>1. /\ z \in RunState /\ SameWork(x, z) /\ z.settled = x.settled /\ z.parked = x.parked
        /\ z.stream = x.stream /\ z.timers = x.timers /\ z.active = x.active
    BY <1>5, ArmFields DEF Grown
  <2> HIDE DEF z
  <2>2. Grown(y, z)
    BY <1>5, <2>1 DEF Grown, SameWork
  <2> QED
    BY <1>1, <1>7, <2>2, FrameQuiet, QuietWorld DEF z
<1> QED
  BY <1>4, <1>6, <1>7

\* Keeping the store is keeping the place of one Run in it.
LEMMA StoreKept ==
    ASSUME HInv, NEW r \in Runs
    PROVE  [held EXCEPT ![r] = held[r]] = held /\ held[r] \in Nat
BY DEF HInv, IInv, TypeOK

\* finish(error) of a Run that is where the last handler left it, but for x
LEMMA FinishWithErrorWorld ==
    ASSUME HInv, NEW r \in Runs, NEW x, Mid(r, x, held[r], req), Turn(r, x),
           held[r] > 0 => reading' = r, FinishWithError(r, x, held, req)
    PROVE  Next2World
<1>1. Told(req, x.owner, Reject(req, x.owner))
  BY TellFields DEF HInv, IInv, TypeOK
<1> QED
  BY <1>1, StoreKept, FinishWorld DEF FinishWithError

\* A frame the bridge cannot serve ends the Run, even one that is held.
LEMMA FrameUnservableWorld ==
    ASSUME HInv, NEW r \in Runs, FrameUnservable(r)
    PROVE  Next2World
<1>1. /\ reading = r /\ UNCHANGED <<reading, readingHeld>> /\ run[r].stream # "none"
      /\ FinishWithError(r, run[r], held, req)
  BY DEF FrameUnservable, NextFrame, HInv, IInv
<1> QED
  BY <1>1, MidStart, FrameTurn, FinishWithErrorWorld

\* closeTransport()
LEMMA CloseTransportFields ==
    ASSUME NEW x \in RunState
    PROVE  LET y == CloseTransport(x)
           IN  /\ y \in RunState /\ SameWork(x, y) /\ ~y.active /\ y.settled = x.settled
               /\ y.parked = x.parked /\ y.timers = x.timers /\ y.holdTimer = x.holdTimer
               /\ y.stream = IF x.stream = "open" THEN "closing" ELSE x.stream
<1> DEFINE h == Hangup(x)
<1>1. /\ h \in RunState /\ SameWork(x, h) /\ h.settled = x.settled
      /\ h.parked = x.parked /\ h.timers = x.timers /\ h.holdTimer = x.holdTimer
      /\ h.stream = IF x.stream = "open" THEN "closing" ELSE x.stream
  BY DEF Hangup, RunState, SameWork
<1> HIDE DEF h
<1> QED
  BY <1>1 DEF CloseTransport, RunState, SameWork, h

\* What completedCalls() looks at.
LEMMA SameCalls ==
    ASSUME NEW x, NEW y, SameWork(x, y)
    PROVE  Ended(y) = Ended(x) /\ CompletedCalls(y) = CompletedCalls(x)
BY DEF SameWork, Ended, CompletedCalls, Unsurfaced

\* The last part of a 'data' handler that throws.
LEMMA ChunkThrowsWorld ==
    ASSUME HInv, NEW r \in Runs, ChunkThrows(r)
    PROVE  Next2World
<1> DEFINE x == run[r]
           c == CloseTransport(x)
           z == [c EXCEPT !.streamEnded = TRUE]
<1>1. /\ reading = r /\ reading' = NoRun /\ ~x.settled /\ x \in RunState /\ NoRun # r
      /\ x.stream # "none" /\ RunSound(x, held[r] > 0) /\ held[r] \in Nat
  BY CursorRunAssumption DEF ChunkThrows, HInv, World, LiveInv, IInv, TypeOK
<1>2. Mid(r, x, held[r], req)
  BY <1>1, MidStart
<1>3. \A w : Turn(r, w)
  BY <1>1 DEF Turn
<1>4. CASE x.parked /\ CompletedCalls(x) # {} /\ Keep(r, z, held, req)
  <2>1. /\ c \in RunState /\ SameWork(x, c) /\ ~c.active /\ c.settled = x.settled
        /\ c.parked = x.parked /\ c.timers = x.timers /\ c.holdTimer = x.holdTimer
        /\ c.stream = IF x.stream = "open" THEN "closing" ELSE x.stream
    BY <1>1, CloseTransportFields
  <2> HIDE DEF c
  <2>2. /\ z \in RunState /\ ~z.active /\ z.settled = x.settled
        /\ z.parked = x.parked /\ z.timers = x.timers
        /\ z.stream = c.stream /\ z.owner = x.owner /\ z.cred = x.cred /\ z.hold = x.hold
        /\ z.told = x.told /\ z.done = x.done /\ z.slots = x.slots /\ z.surfaced = x.surfaced
    BY <2>1 DEF RunState, SameWork
  <2> HIDE DEF z
  <2>3. CompletedCalls(z) = CompletedCalls(x)
    BY <2>2 DEF CompletedCalls, Unsurfaced
  <2>4. Quiet(r, z)
    BY <1>1, <1>2, <1>3, <1>4, <2>1, <2>2, <2>3 DEF Quiet, Mid, Running
  <2> QED
    BY <1>4, <2>4, QuietWorld
<1>5. CASE x.parked /\ ReleaseParked(r, x)
  BY <1>1, <1>2, <1>5, ReleaseParkedWorld
<1>6. CASE ~x.parked /\ FinishWithError(r, x, held, req)
  <2>1. ~(held[r] > 0)
    BY <1>2, <1>6 DEF Mid
  <2> QED
    BY <1>2, <1>3, <1>6, <2>1, FinishWithErrorWorld
<1> QED
  BY <1>4, <1>5, <1>6 DEF ChunkThrows

\* The last part of a 'data' handler that worked through its chunk.
LEMMA EndChunkWorld ==
    ASSUME HInv, NEW r \in Runs, EndChunk(r)
    PROVE  Next2World
<1> DEFINE x == run[r]
           y == IF x.streamEnded THEN CloseTransport(x) ELSE x
<1>1. /\ reading = r /\ reading' = NoRun /\ x \in RunState /\ NoRun # r /\ RunOK(x)
      /\ x.stream # "none" /\ RunSound(x, held[r] > 0) /\ OffSound(x, held[r] > 0)
      /\ held[r] \in Nat /\ held \in [Runs -> Nat] /\ req \in [Requests -> RequestState]
      /\ readingHeld => x.parked
  BY CursorRunAssumption DEF EndChunk, HInv, World, LiveInv, IInv, TypeOK
<1>2. Mid(r, x, held[r], req)
  BY <1>1, MidStart
<1>3. \A w : Turn(r, w)
  BY <1>1 DEF Turn
<1>4. /\ y \in RunState /\ SameWork(x, y) /\ y.settled = x.settled /\ y.parked = x.parked
      /\ y.timers = x.timers /\ y.holdTimer = x.holdTimer
      /\ y.stream = x.stream \/ (x.stream = "open" /\ y.stream = "closing")
      /\ IF x.streamEnded THEN ~y.active /\ y.stream # "open" ELSE y = x
  <2>1. CASE x.streamEnded
    <3>1. y = CloseTransport(x)
      BY <2>1
    <3> HIDE DEF y
    <3> QED
      BY <1>1, <2>1, <3>1, CloseTransportFields
  <2>2. CASE ~x.streamEnded
    BY <1>1, <2>2 DEF SameWork
  <2> QED
    BY <2>1, <2>2
<1>5. \/ x.parked /\ x.settled /\ Keep(r, y, [held EXCEPT ![r] = 0], req)
      \/ x.parked /\ ReleaseParked(r, x)
      \/ Running(x) /\ Ended(x) /\ Drain(r, y, held, req)
      \/ /\ Keep(r, y, held, req) /\ ~(Running(x) /\ Ended(x))
         /\ readingHeld => ~x.settled /\ (Ended(x) => CompletedCalls(x) # {})
  BY <1>1 DEF EndChunk, Running
<1> HIDE DEF y
<1>6. CASE x.parked /\ x.settled /\ Keep(r, y, [held EXCEPT ![r] = 0], req)
  <2>1. MaxToolCalls = 0 => req[x.owner].phase \notin {"idle", "opening", "aborting", "waiting"}
    BY <1>2, <1>6 DEF Mid, Running
  <2>2. ~y.timers /\ ~y.holdTimer /\ ~y.active /\ y.stream \in {"closing", "closed"}
    BY <1>1, <1>4, <1>6 DEF RunSound
  <2> QED
    BY <1>1, <1>2, <1>4, <1>6, <2>1, <2>2, OverWorld DEF Keep, Next2World
<1>7. CASE x.parked /\ ReleaseParked(r, x)
  BY <1>1, <1>2, <1>7, ReleaseParkedWorld
<1>8. CASE Running(x) /\ Ended(x) /\ Drain(r, y, held, req)
  <2>1. ~x.settled /\ ~x.parked /\ held[r] = 0 /\ x.timers /\ x.active
    BY <1>1, <1>8 DEF RunSound, Running
  <2>2. [held EXCEPT ![r] = 0] = held
    BY <1>1, <2>1
  <2>3. Mid(r, y, 0, req)
    BY <1>1, <1>2, <1>4, <2>1 DEF Mid, SameWork, Running
  <2>4. RunOK(y) /\ Running(y) /\ Ended(y) /\ y.timers
    BY <1>1, <1>4, <1>8, <2>1 DEF RunOK, SameWork, Running, Ended
  <2>5. y.cred \notin revoked /\ ~down /\ (y.stream = "open" => y.active)
    BY <1>1, <1>4, <2>1 DEF OffSound, SameWork
  <2>6. Drains(r, y, req)
    BY <1>1, <1>3, <2>3, <2>4, <2>5 DEF Drains
  <2> QED
    BY <1>8, <2>2, <2>6, DrainWorld
<1>9. CASE /\ Keep(r, y, held, req) /\ ~(Running(x) /\ Ended(x))
           /\ readingHeld => ~x.settled /\ (Ended(x) => CompletedCalls(x) # {})
  <2>1. MaxToolCalls = 0 /\ held[r] > 0 => readingHeld
    BY <1>1 DEF HInv, World, HoldInv, HoldSound, RunSound
  <2>2. Ended(y) = Ended(x) /\ CompletedCalls(y) = CompletedCalls(x)
    BY <1>4, SameCalls
  <2>3. Running(x) => y = x /\ x.active
    BY <1>1, <1>4, <1>9 DEF RunSound, Ended
  <2>4. y.stream = "open" => y.active
    BY <1>1, <1>4 DEF RunSound
  <2>5. MaxToolCalls = 0 /\ held[r] > 0 =>
          ~y.told /\ ~y.settled /\ (Ended(y) => CompletedCalls(y) # {})
    BY <1>2, <1>4, <1>9, <2>1, <2>2 DEF Mid, SameWork
  <2>6. y.done = x.done /\ y.slots = x.slots /\ y.owner = x.owner /\ y.cred = x.cred
        /\ y.hold = x.hold
    BY <1>4 DEF SameWork
  <2>7. (x.settled => ~y.holdTimer) /\ (y.active => x.active)
    BY <1>1, <1>4 DEF RunSound
  <2>8. Quiet(r, y)
    BY <1>1, <1>3, <1>4, <2>3, <2>4, <2>5, <2>6, <2>7 DEF Quiet, RunSound
  <2> QED
    BY <1>9, <2>8, QuietWorld
<1> QED
  BY <1>5, <1>6, <1>7, <1>8, <1>9

-----------------------------------------------------------------------------
(* The stream's other events, and the timers                               *)

\* Between two handlers a hold is a Run that can be resumed.
LEMMA RestHold ==
    ASSUME HInv, NEW r \in Runs, reading = NoRun, MaxToolCalls = 0, held[r] > 0
    PROVE  /\ ~run[r].settled /\ ~run[r].told
           /\ Ended(run[r]) => CompletedCalls(run[r]) # {}
BY CursorRunAssumption DEF HInv, World, HoldInv, HoldSound

\* Between two handlers no chunk is in hand.
LEMMA RestTurn ==
    ASSUME NotReading, NEW r \in Runs
    PROVE  /\ reading = NoRun /\ reading' = NoRun /\ NoRun # r
           /\ \A x : Turn(r, x)
BY CursorRunAssumption DEF NotReading, AtRest, Turn

\* 'error' and 'close'
LEMMA StreamGoneWorld ==
    ASSUME HInv, NotReading, NEW r \in Runs, run[r].stream # "none", NEW x \in RunState,
           SameWork(run[r], x), x.settled = run[r].settled, x.parked = run[r].parked,
           x.timers = run[r].timers, x.holdTimer = run[r].holdTimer,
           x.active = run[r].active, x.stream \in {"closing", "closed"}, StreamGone(r, x)
    PROVE  Next2World
<1> DEFINE z == [x EXCEPT !.streamEnded = TRUE, !.active = FALSE]
<1>1. /\ reading = NoRun /\ reading' = NoRun /\ NoRun # r /\ \A w : Turn(r, w)
      /\ RunSound(run[r], held[r] > 0)
  BY RestTurn DEF HInv, World, LiveInv
<1>2. Mid(r, run[r], held[r], req)
  BY MidStart
<1>3. Mid(r, x, held[r], req)
  BY <1>2 DEF Mid, SameWork, Running
<1>4. CASE x.parked /\ CompletedCalls(x) # {} /\ Keep(r, z, held, req)
  <2>1. /\ z \in RunState /\ ~z.active /\ z.settled = x.settled
        /\ z.parked = x.parked /\ z.timers = x.timers /\ z.holdTimer = x.holdTimer
        /\ z.stream = x.stream /\ z.owner = x.owner /\ z.cred = x.cred /\ z.hold = x.hold
        /\ z.told = x.told /\ z.done = x.done /\ z.slots = x.slots /\ z.surfaced = x.surfaced
    BY DEF RunState
  <2> HIDE DEF z
  <2>2. CompletedCalls(z) = CompletedCalls(x)
    BY <2>1 DEF CompletedCalls, Unsurfaced
  <2>3. MaxToolCalls = 0 /\ held[r] > 0 => ~z.told /\ ~z.settled
    BY <1>1, <2>1, RestHold DEF SameWork
  <2>4. (run[r].settled => ~z.holdTimer) /\ run[r].done \subseteq z.done
        /\ z.done \subseteq 1..z.slots /\ z.owner = run[r].owner /\ z.cred = run[r].cred
        /\ z.hold = run[r].hold
    BY <1>1, <2>1 DEF RunSound, SameWork
  <2>5. Quiet(r, z)
    BY <1>1, <1>4, <2>1, <2>2, <2>3, <2>4 DEF Quiet, Running
  <2> QED
    BY <1>4, <2>5, QuietWorld
<1>5. CASE x.parked /\ ReleaseParked(r, x)
  BY <1>1, <1>3, <1>5, ReleaseParkedWorld
<1>6. CASE ~x.parked /\ FinishWithError(r, x, held, req)
  <2>1. ~(held[r] > 0)
    BY <1>3, <1>6 DEF Mid
  <2> QED
    BY <1>1, <1>3, <1>6, <2>1, FinishWithErrorWorld
<1> QED
  BY <1>4, <1>5, <1>6 DEF StreamGone

\* Whatever the stream's other events and the timers do.
LEMMA EventWorld ==
    ASSUME HInv, NEW r \in Runs, Event(r)
    PROVE  Next2World
<1> DEFINE x == run[r]
<1>1. /\ NotReading /\ reading = NoRun /\ reading' = NoRun /\ NoRun # r
      /\ \A w : Turn(r, w)
  BY RestTurn DEF Event, StreamError, StreamClosed, BadStatus, HoldTimer, RunTimeout,
                  IdleTimeout
<1>2. RunSound(x, held[r] > 0) /\ x \in RunState /\ held[r] \in Nat
  BY DEF HInv, World, LiveInv, IInv, TypeOK
<1>3. x.stream # "none"
  BY <1>2 DEF Event, StreamError, StreamClosed, BadStatus, HoldTimer, RunTimeout,
              IdleTimeout, RunSound
<1>4. Mid(r, x, held[r], req)
  BY <1>3, MidStart
<1>5. ASSUME FinishWithError(r, x, held, req), ~x.parked PROVE Next2World
  <2>1. ~(held[r] > 0)
    BY <1>4, <1>5 DEF Mid
  <2> QED
    BY <1>1, <1>4, <1>5, <2>1, FinishWithErrorWorld
<1>6. CASE StreamError(r)
  <2> DEFINE y == Hangup(x)
  <2>1. /\ y \in RunState /\ SameWork(x, y) /\ y.settled = x.settled /\ y.parked = x.parked
        /\ y.timers = x.timers /\ y.holdTimer = x.holdTimer /\ y.active = x.active
        /\ y.stream \in {"closing", "closed"}
    BY <1>2, <1>6 DEF StreamError, Hangup, RunState, SameWork
  <2>2. StreamGone(r, y)
    BY <1>6 DEF StreamError
  <2> HIDE DEF y
  <2> QED
    BY <1>1, <1>3, <2>1, <2>2, StreamGoneWorld
<1>7. CASE StreamClosed(r)
  <2> DEFINE y == [x EXCEPT !.stream = "closed"]
  <2>1. /\ y \in RunState /\ SameWork(x, y) /\ y.settled = x.settled /\ y.parked = x.parked
        /\ y.timers = x.timers /\ y.holdTimer = x.holdTimer /\ y.active = x.active
        /\ y.stream \in {"closing", "closed"}
    BY <1>2 DEF RunState, SameWork
  <2>2. StreamGone(r, y)
    BY <1>7 DEF StreamClosed
  <2> HIDE DEF y
  <2> QED
    BY <1>1, <1>3, <2>1, <2>2, StreamGoneWorld
<1>8. CASE BadStatus(r)
  <2>1. ~x.parked
    BY <1>2, <1>8 DEF BadStatus, RunSound
  <2> QED
    BY <1>5, <1>8, <2>1 DEF BadStatus
<1>9. CASE HoldTimer(r)
  <2> DEFINE y == [x EXCEPT !.holdTimer = FALSE]
  <2>1. /\ y \in RunState /\ SameWork(x, y) /\ y.settled = x.settled /\ y.parked = x.parked
        /\ y.timers = x.timers /\ ~y.holdTimer /\ y.active = x.active
        /\ y.stream = x.stream
    BY <1>2 DEF RunState, SameWork
  <2>2. Hold(r, y)
    BY <1>9 DEF HoldTimer
  <2> HIDE DEF y
  <2>3. Ended(y) = Ended(x) /\ CompletedCalls(y) = CompletedCalls(x)
    BY <2>1, SameCalls
  <2>4. MaxToolCalls = 0 /\ held[r] > 0 =>
          ~y.told /\ ~y.settled /\ (Ended(y) => CompletedCalls(y) # {})
    BY <1>1, <2>1, <2>3, RestHold DEF SameWork
  <2>5. Quiet(r, y)
    BY <1>1, <1>2, <1>3, <2>1, <2>4 DEF Quiet, SameWork, RunSound, Running
  <2> QED
    BY <1>1, <2>2, <2>5, HoldWorld
<1>10. CASE RunTimeout(r)
  <2>1. CASE x.parked
    <3>1. ReleaseParked(r, x)
      BY <1>10, <2>1 DEF RunTimeout
    <3> QED
      BY <1>1, <1>4, <2>1, <3>1, ReleaseParkedWorld
  <2>2. CASE ~x.parked
    BY <1>5, <1>10, <2>2 DEF RunTimeout
  <2> QED
    BY <2>1, <2>2
<1>11. CASE IdleTimeout(r)
  BY <1>5, <1>11 DEF IdleTimeout, Running
<1> QED
  BY <1>6, <1>7, <1>8, <1>9, <1>10, <1>11 DEF Event

-----------------------------------------------------------------------------
(* Requests                                                                *)

\* What a request finds in the store: a parked Run that nothing has ended, and that no
\* request owns which has not begun.
LEMMA HoldFound ==
    ASSUME HInv, NEW q \in Requests, NEW p \in Requests, AnswersHold(q, p)
    PROVE  LET r == req[p].run
               x == run[r]
           IN  /\ r \in Runs /\ x \in RunState /\ RunOK(x) /\ held[r] > 0 /\ held[r] \in Nat
               /\ x.parked /\ x.stream # "none" /\ (x.settled \/ x.timers)
               /\ x.cred \notin revoked /\ ~down /\ RunSound(x, TRUE)
               /\ Mid(r, x, held[r], req) /\ req[q].phase = "idle" /\ NotReading
               /\ MaxToolCalls = 0 => /\ ~x.settled /\ ~x.told
                                      /\ \A t \in Runs : run[t].owner # q
<1> DEFINE r == req[p].run
           x == run[r]
<1>1. r \in Runs /\ RunOK(x) /\ x.stream # "none" /\ held[r] \in Nat
  BY HoldHasOwner DEF HInv, IInv, TypeOK
<1>2. held[r] > 0 /\ req[q].phase = "idle" /\ NotReading /\ reading = NoRun
  BY DEF AnswersHold, InStore, NotReading, AtRest
<1>3. RunSound(x, held[r] > 0) /\ OffSound(x, held[r] > 0)
  BY <1>1 DEF HInv, World, LiveInv
<1>4. RunSound(x, TRUE) /\ OffSound(x, TRUE)
  <2>1. (held[r] > 0) = TRUE
    BY <1>2
  <2> QED
    BY <1>3, <2>1
<1>5. Mid(r, x, held[r], req)
  BY <1>1, MidStart
<1>6. MaxToolCalls = 0 => ~x.settled /\ ~x.told
  BY <1>1, <1>2, RestHold
<1>7. MaxToolCalls = 0 => \A t \in Runs : run[t].owner # q
  BY <1>2 DEF HInv, World, HoldInv
<1> QED
  BY <1>1, <1>2, <1>4, <1>5, <1>6, <1>7 DEF RunSound, OffSound, RunOK

\* What resume() writes to a Run.
LEMMA ResumedFields ==
    ASSUME NEW x, RunOK(x), x.stream # "none", NEW q \in Requests
    PROVE  LET y == Resumed(x, q)
           IN  /\ y \in RunState /\ RunOK(y) /\ ~y.parked /\ y.owner = q /\ y.active
               /\ y.settled = x.settled /\ y.timers = x.timers /\ y.stream = x.stream
               /\ y.done = x.done /\ y.slots = x.slots /\ y.cred = x.cred
<1> DEFINE e == q \in Streaming
           f == x.fresh /\ q \notin Streaming
           t == x.told /\ q \notin Streaming
           s == IF Ended(x) THEN x.sent ELSE x.sent \cup (x.execs \cap x.hold)
           h == x.execs \ x.hold
           y == Resumed(x, q)
<1>1. y = [x EXCEPT !.parked = FALSE, !.owner = q, !.active = TRUE, !.emit = e,
                    !.fresh = f, !.told = t, !.sent = s, !.execs = h]
  BY DEF Resumed
<1>2. RunOK(y) /\ y \in RunState /\ x \in RunState
  BY ResumedLater DEF Later, RunOK
<1> HIDE DEF e, f, t, s, h, y
<1>3. /\ ~y.parked /\ y.owner = q /\ y.active
      /\ y.settled = x.settled /\ y.timers = x.timers /\ y.stream = x.stream
      /\ y.done = x.done /\ y.slots = x.slots /\ y.cred = x.cred
  BY <1>1, <1>2 DEF RunState
<1> QED
  BY <1>2, <1>3 DEF y

\* resumeCursorRun
LEMMA ResumeRunWorld ==
    ASSUME HInv, NEW q \in Requests, NEW p \in Requests, ResumeRun(q, p)
    PROVE  Next2World
<1> DEFINE r == req[p].run
           x == run[r]
           y == Resumed(x, q)
           h == [held EXCEPT ![r] = 0]
           rq == [req EXCEPT ![q].phase = "waiting", ![q].contract = HoldContract(r)]
<1>1. AnswersHold(q, p) /\ IInv
  BY DEF ResumeRun, HInv
<1>2. /\ r \in Runs /\ x \in RunState /\ RunOK(x) /\ x.parked /\ x.stream # "none"
      /\ (x.settled \/ x.timers) /\ x.cred \notin revoked /\ ~down /\ RunSound(x, TRUE)
      /\ Mid(r, x, held[r], req) /\ NotReading
      /\ MaxToolCalls = 0 => /\ ~x.settled /\ \A t \in Runs : run[t].owner # q
  BY <1>1, HoldFound
<1>3. \A w : Turn(r, w)
  BY <1>2, RestTurn
<1>4. reading' = NoRun
  BY <1>2, RestTurn
<1>5. rq \in [Requests -> RequestState]
  <2>1. SameAnswers(rq)
    BY <1>1, HoldHasOwner, PhaseUpdates DEF RequestPhase
  <2> QED
    BY <2>1 DEF SameAnswers
<1>6. CASE x.settled /\ Keep(r, x, h, rq)
  <2>1. RunSound(x, 0 > 0) /\ OffSound(x, 0 > 0)
    BY <1>2, <1>6 DEF RunSound, OffSound, Running
  <2> QED
    BY <1>2, <1>3, <1>6, <2>1, KeepWorld
<1>7. CASE ~x.settled /\ Drain(r, y, h, rq)
  <2>1. /\ y \in RunState /\ RunOK(y) /\ ~y.parked /\ y.owner = q /\ y.active
        /\ y.settled = x.settled /\ y.timers = x.timers /\ y.stream = x.stream
        /\ y.done = x.done /\ y.slots = x.slots /\ y.cred = x.cred
    BY <1>2, ResumedFields
  <2> HIDE DEF y
  <2>2. rq[q].phase = "waiting" /\ \A u \in Requests \ {q} : rq[u] = req[u]
    BY DEF HInv, IInv, TypeOK, RequestState
  <2> HIDE DEF rq
  <2>3. Running(y) /\ ~Running(x)
    BY <1>2, <1>7, <2>1 DEF Running
  <2>4. Mid(r, y, 0, rq)
    BY <1>2, <1>7, <2>1, <2>2, <2>3 DEF Mid, RunSound
  <2>5. Drains(r, y, rq)
    BY <1>2, <1>3, <1>4, <1>5, <1>7, <2>1, <2>3, <2>4 DEF Drains
  <2> QED
    BY <1>2, <1>7, <2>5, DrainWorld
<1> QED
  BY <1>6, <1>7 DEF ResumeRun

\* A resume that finds its request gone ends the Run.
LEMMA ResumeAbortedWorld ==
    ASSUME HInv, NEW q \in Requests, NEW p \in Requests, ResumeAborted(q, p)
    PROVE  Next2World
<1> DEFINE r == req[p].run
           x == run[r]
           e == q \in Streaming
           y == [x EXCEPT !.parked = FALSE, !.owner = q, !.emit = e]
           Q == [req EXCEPT ![q].phase = "waiting", ![q].contract = HoldContract(r)]
           Q2 == [req EXCEPT ![q].phase = "failed", ![q].contract = HoldContract(r)]
<1>1. AnswersHold(q, p) /\ ~x.settled
  BY DEF ResumeAborted
<1>2. /\ r \in Runs /\ x \in RunState /\ RunOK(x) /\ x.parked /\ x.stream # "none"
      /\ x.cred \notin revoked /\ ~down /\ RunSound(x, TRUE)
      /\ Mid(r, x, held[r], req) /\ NotReading
      /\ MaxToolCalls = 0 => \A t \in Runs : run[t].owner # q
  BY <1>1, HoldFound
<1>3. \A w : Turn(r, w)
  BY <1>2, RestTurn
<1>4. e \in BOOLEAN
  OBVIOUS
<1>5. /\ Q[q].phase = "waiting" /\ Q2[q].phase = "failed"
      /\ \A u \in Requests \ {q} : Q[u] = req[u] /\ Q2[u] = req[u]
  BY DEF HInv, IInv, TypeOK, RequestState
<1>6. Keep(r, Settle(y), [held EXCEPT ![r] = 0], Q2) /\ ~(0 > 0)
  BY DEF ResumeAborted
<1> HIDE DEF e, Q, Q2
<1>7. /\ y \in RunState /\ ~y.parked /\ y.owner = q
      /\ y.settled = x.settled /\ y.stream = x.stream
      /\ y.done = x.done /\ y.slots = x.slots /\ y.cred = x.cred
  <2>1. ASSUME NEW w \in RunState, NEW b \in BOOLEAN
        PROVE  LET z == [w EXCEPT !.parked = FALSE, !.owner = q, !.emit = b]
               IN  /\ z \in RunState /\ ~z.parked /\ z.owner = q
                   /\ z.settled = w.settled /\ z.stream = w.stream
                   /\ z.done = w.done /\ z.slots = w.slots /\ z.cred = w.cred
    BY <2>1 DEF RunState
  <2> QED
    BY <1>2, <1>4, <2>1
<1> HIDE DEF y
<1>8. Running(y) /\ ~Running(x)
  BY <1>1, <1>2, <1>7 DEF Running
<1>9. Mid(r, y, 0, Q)
  BY <1>1, <1>2, <1>5, <1>7, <1>8 DEF Mid, RunSound
<1>10. Told(Q, y.owner, Q2)
  BY <1>5, <1>7 DEF Told
<1> QED
  BY <1>2, <1>3, <1>6, <1>9, <1>10, FinishWorld

\* A hold that is released leaves the Runs, the holds and the requests in order.
LEMMA ReleaseWorld ==
    ASSUME HInv, NotReading, NEW r \in Runs, held[r] > 0, NEW Q2,
           MaxToolCalls = 0 =>
              /\ \A q \in Requests \ {run[r].owner} : Q2[q] = req[q]
              /\ Q2[run[r].owner].phase \notin {"idle", "opening", "aborting", "waiting"}
    PROVE  World([run EXCEPT ![r] = Release(run[r])], [held EXCEPT ![r] = 0], Q2,
                 reading', readingHeld')
<1> DEFINE x == run[r]
           y == Release(x)
<1>1. /\ RunSound(x, held[r] > 0) /\ x \in RunState /\ x.parked /\ x.stream # "none"
  BY DEF HInv, World, LiveInv, IInv, TypeOK, RunSound
<1>2. /\ y \in RunState /\ SameWork(x, y) /\ y.settled /\ (y.parked => x.parked)
      /\ ~y.timers /\ ~y.holdTimer /\ ~y.active /\ y.stream \in {"closing", "closed"}
  BY <1>1, ReleaseOver
<1>3. Mid(r, x, held[r], req)
  BY <1>1, MidStart
<1>4. reading = NoRun /\ reading' = NoRun
  BY RestTurn
<1> HIDE DEF y
<1>5. World([run EXCEPT ![r] = y], [held EXCEPT ![r] = 0], Q2, reading', readingHeld')
  BY <1>2, <1>3, <1>4, OverWorld
<1> QED
  BY <1>5 DEF y

\* The request of a hold is past waiting.
LEMMA HoldOwner ==
    ASSUME HInv, NEW r \in Runs, held[r] > 0, MaxToolCalls = 0
    PROVE  /\ run[r].owner \in Requests
           /\ req[run[r].owner].phase \in {"answered", "done"}
           /\ req[run[r].owner].run = r /\ req[run[r].owner].calls = run[r].hold
BY DEF HInv, World, HoldInv, HoldSound

\* A continuation that does not match lets go of the hold and opens a Run of its own.
LEMMA MismatchedContinuationWorld ==
    ASSUME HInv, NEW q \in Requests, NEW p \in Requests, NEW k \in Contracts, NEW c \in Creds,
           MismatchedContinuation(q, p, k, c)
    PROVE  Next2World
<1> DEFINE r == req[p].run
           y == Release(run[r])
           R2 == [run EXCEPT ![r] = y]
           H2 == [held EXCEPT ![r] = 0]
           Q2 == [req EXCEPT ![q].phase = "opening", ![q].contract = k, ![q].cred = c]
<1>1. AnswersHold(q, p)
  BY DEF MismatchedContinuation
<1>2. /\ r \in Runs /\ RunOK(run[r]) /\ held[r] > 0 /\ req[q].phase = "idle" /\ NotReading
      /\ MaxToolCalls = 0 => \A t \in Runs : run[t].owner # q
  BY <1>1, HoldFound
<1>3. MaxToolCalls = 0 =>
         req[run[r].owner].phase \notin {"idle", "opening", "aborting", "waiting"}
  BY <1>2, HoldOwner
<1>4. World(R2, H2, req, reading', readingHeld')
  BY <1>2, <1>3, ReleaseWorld
<1>5. Q2[q].phase = "opening" /\ \A u \in Requests \ {q} : Q2[u] = req[u]
  BY DEF HInv, IInv, TypeOK, RequestState
<1>6. RunOK(y) /\ y.owner = run[r].owner
  <2>1. RunOK(y) /\ run[r] \in RunState
    BY <1>2, ReleaseOperators DEF Later, RunOK
  <2>2. y = run[r] \/ Stopped(run[r], y)
    BY <2>1, ReleaseFields
  <2> HIDE DEF y
  <2> QED
    BY <2>1, <2>2 DEF Stopped, SameWork
<1>7. \A t \in Runs : RunOK(R2[t]) /\ R2[t].owner = run[t].owner
  <2> HIDE DEF y
  <2> QED
    BY <1>6 DEF HInv, IInv, TypeOK
<1>8. Keep(r, y, H2, Q2)
  BY DEF MismatchedContinuation
<1> HIDE DEF R2, H2, Q2, y
<1>9. World(R2, H2, Q2, reading', readingHeld')
  BY <1>2, <1>4, <1>5, <1>7, RephaseWorld
<1> QED
  BY <1>8, <1>9 DEF Keep, Next2World, R2

\* runValidatedCursorCompletion's refusal releases the hold, if there is one.
LEMMA RefuseCallsWorld ==
    ASSUME HInv, NEW q \in Requests, RefuseCalls(q)
    PROVE  Next2World
<1> DEFINE r == req[q].run
           found == InStore(r) /\ run[r].hold = req[q].calls
           Q2 == [req EXCEPT ![q].phase = "failed"]
<1>1. /\ r \in Runs /\ NotReading /\ req[q].phase = "answered" /\ req[q].calls # {}
      /\ run \in [Runs -> RunState] /\ held \in [Runs -> Nat] /\ \A t \in Runs : RunOK(run[t])
      /\ World(run, held, req, reading, readingHeld)
  BY DEF RefuseCalls, HInv, IInv, AnswersSurfaced, TypeOK
<1>2. Q2[q].phase = "failed" /\ \A u \in Requests \ {q} : Q2[u] = req[u]
  BY DEF HInv, IInv, TypeOK, RequestState
<1>3. Keep(r, IF found THEN Release(run[r]) ELSE run[r],
           IF found THEN [held EXCEPT ![r] = 0] ELSE held, Q2)
  BY DEF RefuseCalls
<1>4. ASSUME NEW t \in Runs, held[t] > 0, MaxToolCalls = 0, run[t].owner = q
      PROVE  t = r /\ found
  BY <1>4, HoldOwner DEF InStore
<1>5. CASE found
  <2>1. held[r] > 0 /\ run[r].hold = req[q].calls
    BY <1>5 DEF InStore
  <2>2. MaxToolCalls = 0 => run[r].owner = q
    <3>1. ASSUME MaxToolCalls = 0, run[r].owner # q PROVE FALSE
      <4>1. /\ run[r].owner \in Requests /\ req[run[r].owner].run = r
            /\ req[run[r].owner].calls = run[r].hold
        BY <1>1, <2>1, <3>1, HoldOwner
      <4>2. SurfacedOnce
        BY DEF HInv, IInv
      <4>3. req[run[r].owner].calls \cap req[q].calls = {}
        BY <3>1, <4>1, <4>2 DEF SurfacedOnce
      <4> QED
        BY <1>1, <2>1, <4>1, <4>3
    <3> QED
      BY <3>1
  <2> HIDE DEF Q2
  <2>3. World([run EXCEPT ![r] = Release(run[r])], [held EXCEPT ![r] = 0], Q2,
              reading', readingHeld')
    BY <1>1, <1>2, <2>1, <2>2, ReleaseWorld
  <2> QED
    BY <1>3, <1>5, <2>3 DEF Keep, Next2World
<1>6. CASE ~found
  <2>1. run' = run /\ held' = held /\ req' = Q2
    BY <1>1, <1>3, <1>6 DEF Keep
  <2>2. UNCHANGED <<reading, readingHeld>>
    BY <1>1 DEF NotReading
  <2> HIDE DEF Q2, found
  <2>3. World(run, held, Q2, reading, readingHeld)
    BY <1>1, <1>2, <1>4, <1>6, RephaseWorld
  <2> QED
    BY <2>1, <2>2, <2>3 DEF Next2World
<1> QED
  BY <1>5, <1>6

\* A request that has no Run yet, or whose answer went out, changes its phase.
LEMMA PhaseWorld ==
    ASSUME HInv, NEW q \in Requests,
           \/ \E k \in Contracts, c \in Creds : SendFresh(q, k, c)
           \/ OpenFails(q) \/ Deliver(q) \/ AbortWhileOpening(q)
    PROVE  Next2World
<1>1. /\ UNCHANGED <<run, held, reading, readingHeld>>
      /\ \A t \in Runs : RunOK(run[t])
      /\ World(run, held, req, reading, readingHeld)
  BY DEF SendFresh, OpenFails, Deliver, AbortWhileOpening, NotReading, HInv, IInv
<1>2. /\ \A u \in Requests \ {q} : req'[u] = req[u]
      /\ req'[q].run = req[q].run /\ req'[q].calls = req[q].calls
      /\ \/ /\ req[q].phase \in {"idle", "opening", "aborting"}
            /\ req'[q].phase \in {"opening", "aborting", "failed"}
         \/ req[q].phase = "answered" /\ req'[q].phase = "done"
  <2>1. req \in [Requests -> RequestState]
    BY DEF HInv, IInv, TypeOK
  <2>2. ASSUME NEW k, NEW c, SendFresh(q, k, c)
        PROVE  /\ \A u \in Requests \ {q} : req'[u] = req[u]
               /\ req'[q].run = req[q].run /\ req'[q].calls = req[q].calls
               /\ req[q].phase = "idle" /\ req'[q].phase = "opening"
    BY <2>1, <2>2 DEF SendFresh, RequestState
  <2>3. CASE OpenFails(q)
    BY <2>1, <2>3 DEF OpenFails, RequestState
  <2>4. CASE Deliver(q)
    BY <2>1, <2>4 DEF Deliver, RequestState
  <2>5. CASE AbortWhileOpening(q)
    BY <2>1, <2>5 DEF AbortWhileOpening, RequestState
  <2> QED
    BY <2>2, <2>3, <2>4, <2>5
<1>3. ASSUME MaxToolCalls = 0, req[q].phase \in {"idle", "opening", "aborting"}
      PROVE  \A t \in Runs : run[t].owner # q
  BY <1>3 DEF HInv, World, HoldInv
<1>4. ASSUME MaxToolCalls = 0, NEW t \in Runs, run[t].owner = q, held[t] > 0
      PROVE  req[q].phase = "answered" => req[q].run = t /\ req[q].calls = run[t].hold
  BY <1>4, HoldOwner
<1>5. World(run, held, req', reading, readingHeld)
  BY <1>1, <1>2, <1>3, <1>4, RephaseWorld
<1> QED
  BY <1>1, <1>5 DEF Next2World

\* executeCursorRun gives the request a Run that was never opened.
LEMMA OpenRunWorld ==
    ASSUME HInv, NEW q \in Requests, NEW r \in Runs, OpenRun(q, r)
    PROVE  Next2World
<1> DEFINE e == q \in Streaming
           c == req[q].cred
           x == [NewRun EXCEPT !.stream = "open", !.timers = TRUE, !.active = TRUE,
                               !.emit = e, !.owner = q, !.cred = c]
           rq == [req EXCEPT ![q].phase = "waiting"]
<1>1. /\ NotReading /\ ~down /\ req[q].phase \in {"opening", "aborting"}
      /\ run[r].stream = "none" /\ RunSound(run[r], held[r] > 0) /\ held[r] \in Nat
      /\ e \in BOOLEAN /\ c \in Creds \cup {NoCred} /\ req \in [Requests -> RequestState]
      /\ NoRun # r
  BY CursorRunAssumption
     DEF OpenRun, HInv, World, LiveInv, IInv, TypeOK, RequestState
<1>2. held[r] = 0 /\ run[r].owner = NoRequest
  BY <1>1 DEF RunSound
<1>3. (\A w : Turn(r, w)) /\ reading' = NoRun
  BY <1>1, RestTurn
<1>4. /\ x \in RunState /\ ~x.settled /\ ~x.parked /\ x.stream = "open" /\ x.timers
      /\ x.active /\ x.owner = q /\ x.cred = c /\ x.done = {} /\ x.slots = 0
  <2>1. NewRun \in RunState
    BY CursorRunAssumption DEF RunState, NewRun
  <2>2. ~NewRun.settled /\ ~NewRun.parked /\ NewRun.done = {} /\ NewRun.slots = 0
    BY DEF NewRun
  <2>3. e \in BOOLEAN /\ c \in Creds \cup {NoCred}
    BY <1>1
  <2> HIDE DEF e, c
  <2> QED
    BY <2>1, <2>2, <2>3 DEF RunState
<1>5. /\ rq[q].phase = "waiting" /\ rq \in [Requests -> RequestState]
      /\ \A u \in Requests \ {q} : rq[u] = req[u]
  <2>1. SameAnswers(rq)
    BY PhaseUpdates DEF HInv, RequestPhase
  <2> QED
    BY <1>1, <2>1 DEF RequestState, SameAnswers
<1>6. MaxToolCalls = 0 => \A t \in Runs : run[t].owner # q
  BY <1>1 DEF HInv, World, HoldInv
<1>7. \/ FinishWithError(r, x, held, rq)
      \/ c \notin revoked /\ Keep(r, x, held, rq)
  BY DEF OpenRun
<1>8. [held EXCEPT ![r] = 0] = held
  BY <1>2 DEF HInv, IInv, TypeOK
<1> HIDE DEF x, rq
<1>9. Mid(r, x, 0, rq)
  BY <1>2, <1>4, <1>5, <1>6, CursorRunAssumption DEF Mid, Running
<1>10. CASE FinishWithError(r, x, held, rq)
  <2>1. Told(rq, x.owner, Reject(rq, x.owner))
    BY <1>5, TellFields
  <2>2. Keep(r, Settle(x), [held EXCEPT ![r] = 0], Reject(rq, x.owner))
    BY <1>8, <1>10 DEF FinishWithError
  <2>3. ~(0 > 0)
    OBVIOUS
  <2> QED
    BY <1>3, <1>9, <2>1, <2>2, <2>3, FinishWorld
<1>11. CASE c \notin revoked /\ Keep(r, x, held, rq)
  <2>1. RunSound(x, 0 > 0) /\ OffSound(x, 0 > 0)
    BY <1>1, <1>4, <1>11 DEF RunSound, OffSound, Running
  <2>2. ASSUME MaxToolCalls = 0 PROVE Fits(run, req, r, x, 0, rq, reading', readingHeld')
    <3>1. HoldSound(r, x, 0 > 0, rq, reading', readingHeld')
      BY <1>1, <1>3, <1>4, <1>5 DEF HoldSound
    <3> QED
      BY <1>9, <2>2, <3>1 DEF Fits, Mid
  <2> QED
    BY <1>3, <1>4, <1>8, <1>11, <2>1, <2>2, KeepWorld
<1> QED
  BY <1>7, <1>10, <1>11

\* onAbort() of a Run that still listens leaves a Run that is over.
LEMMA AbortedOver ==
    ASSUME HInv, NEW r \in Runs, run[r].timers
    PROVE  LET x == run[r]
               y == Aborted(r, x)
           IN  /\ y \in RunState /\ SameWork(x, y) /\ y.settled /\ (y.parked => x.parked)
               /\ ~y.timers /\ ~y.holdTimer /\ ~y.active /\ y.stream \in {"closing", "closed"}
               /\ ~x.settled /\ (x.parked <=> held[r] > 0)
               /\ IF x.parked THEN y = Release(x) ELSE y = Settle(x)
<1> DEFINE x == run[r]
           y == Aborted(r, x)
<1>1. RunSound(x, held[r] > 0) /\ x \in RunState /\ ~x.settled /\ x.stream # "none"
  BY DEF HInv, World, LiveInv, IInv, TypeOK, RunSound
<1>2. CASE x.parked
  <2>1. held[r] > 0 /\ y = Release(x)
    BY <1>1, <1>2 DEF RunSound, Aborted, ReleasedParked, InStore
  <2> HIDE DEF y
  <2> QED
    BY <1>1, <1>2, <2>1, ReleaseOver DEF y
<1>3. CASE ~x.parked
  <2>1. ~(held[r] > 0) /\ y = Settle(x)
    BY <1>1, <1>3 DEF RunSound, Aborted
  <2>2. Stopped(x, y) /\ y.settled /\ y.parked = x.parked
    BY <1>1, <2>1, SettleFields
  <2> HIDE DEF y
  <2> QED
    BY <1>1, <1>3, <2>1, <2>2 DEF Stopped, RunState, y
<1> QED
  BY <1>2, <1>3

\* A client that disconnects ends its Run, held or not.
LEMMA DisconnectWorld ==
    ASSUME HInv, NEW q \in Requests, NEW r \in Runs, Disconnect(q, r)
    PROVE  Next2World
<1> DEFINE x == run[r]
           Q2 == [req EXCEPT ![q].phase = "failed"]
<1>1. /\ NotReading /\ x.owner = q /\ x.timers /\ req[q].phase \in {"waiting", "answered"}
      /\ Keep(r, Aborted(r, x), IF x.parked THEN [held EXCEPT ![r] = 0] ELSE held, Q2)
      /\ RunSound(x, held[r] > 0)
  BY DEF Disconnect, HInv, World, LiveInv
<1>2. Q2[q].phase = "failed" /\ \A u \in Requests \ {q} : Q2[u] = req[u]
  BY DEF HInv, IInv, TypeOK, RequestState
<1>3. /\ ~x.settled /\ (x.parked <=> held[r] > 0)
      /\ IF x.parked THEN Aborted(r, x) = Release(x) ELSE Aborted(r, x) = Settle(x)
  BY <1>1, AbortedOver
<1>4. Mid(r, x, held[r], req)
  BY <1>1, MidStart DEF RunSound
<1>5. (\A w : Turn(r, w)) /\ reading' = NoRun
  BY <1>1, RestTurn
<1> HIDE DEF Q2
<1>6. CASE x.parked
  <2>1. World([run EXCEPT ![r] = Release(x)], [held EXCEPT ![r] = 0], Q2,
              reading', readingHeld')
    BY <1>1, <1>2, <1>3, <1>6, ReleaseWorld
  <2> QED
    BY <1>1, <1>3, <1>6, <2>1 DEF Keep, Next2World
<1>7. CASE ~x.parked
  <2>1. MaxToolCalls = 0 => Told(req, q, Q2)
    BY <1>1, <1>2, <1>3, <1>4, <1>7 DEF Told, Mid, Running
  <2>2. Keep(r, Settle(x), [held EXCEPT ![r] = held[r]], Q2)
    BY <1>1, <1>3, <1>7, StoreKept
  <2> QED
    BY <1>1, <1>3, <1>4, <1>5, <1>7, <2>1, <2>2, FinishWorld
<1> QED
  BY <1>6, <1>7

\* Whatever a request or its client does.
LEMMA RequestWorld ==
    ASSUME HInv, NEW q \in Requests, Request(q)
    PROVE  Next2World
BY ResumeRunWorld, ResumeAbortedWorld, MismatchedContinuationWorld, OpenRunWorld, PhaseWorld,
   RefuseCallsWorld, DisconnectWorld DEF Request

-----------------------------------------------------------------------------
(* The backend, which ends several Runs in one step                        *)

\* What several Runs that end in one step, and the requests they owe, leave of the holds.
LEMMA EndedHolds ==
    ASSUME HInv, reading = NoRun, MaxToolCalls = 0, NEW R2, NEW H2, NEW Q2,
           \A t \in Runs : \/ R2[t] = run[t] /\ H2[t] = held[t]
                           \/ /\ R2[t].settled /\ R2[t].owner = run[t].owner
                              /\ H2[t] = 0,
           \A q \in Requests : \/ Q2[q] = req[q]
                               \/ req[q].phase = "waiting" /\ Q2[q].phase = "failed",
           \A q \in Requests, t \in Runs : run[t].owner = q /\ Running(run[t]) =>
               (Q2[q].phase = "waiting" <=> R2[t] = run[t])
    PROVE  HoldInv(R2, H2, Q2, NoRun, readingHeld)
<1>1. HoldInv(run, held, req, NoRun, readingHeld) /\ \A t \in Runs : RunOK(run[t])
  BY DEF HInv, IInv, World
<1>2. NoRun \notin Runs
  BY CursorRunAssumption
<1>3. \A t \in Runs : R2[t].owner = run[t].owner
  OBVIOUS
<1>4. ASSUME NEW t \in Runs PROVE HoldSound(t, R2[t], H2[t] > 0, Q2, NoRun, readingHeld)
  <2>1. HoldSound(t, run[t], held[t] > 0, req, NoRun, readingHeld)
    BY <1>1 DEF HoldInv
  <2>2. CASE R2[t].settled /\ H2[t] = 0
    BY <1>2, <2>2 DEF HoldSound, Running
  <2>3. CASE R2[t] = run[t] /\ H2[t] = held[t]
    <3>1. run[t].stream # "none" /\ Running(run[t]) => Q2[run[t].owner].phase = "waiting"
      BY <1>1, <2>3 DEF RunOK
    <3>2. held[t] > 0 => Q2[run[t].owner] = req[run[t].owner]
      BY <2>1 DEF HoldSound
    <3> QED
      BY <1>2, <2>1, <2>3, <3>1, <3>2 DEF HoldSound
  <2> QED
    BY <2>2, <2>3
<1>5. ASSUME NEW t \in Runs, NEW u \in Runs, R2[t].owner \in Requests, R2[t].owner = R2[u].owner
      PROVE  t = u
  BY <1>1, <1>3, <1>5 DEF HoldInv
<1>6. ASSUME NEW q \in Requests, Q2[q].phase \in {"idle", "opening", "aborting"}
      PROVE  \A t \in Runs : R2[t].owner # q
  <2>1. Q2[q] = req[q]
    BY <1>6
  <2> QED
    BY <1>1, <1>3, <1>6, <2>1 DEF HoldInv
<1>7. ASSUME NEW q \in Requests, Q2[q].phase = "waiting"
      PROVE  \E t \in Runs : R2[t].owner = q /\ Running(R2[t])
  <2>1. req[q].phase = "waiting"
    BY <1>7
  <2>2. PICK t \in Runs : run[t].owner = q /\ Running(run[t])
    BY <1>1, <2>1 DEF HoldInv
  <2>3. R2[t] = run[t]
    BY <1>7, <2>2
  <2> QED
    BY <2>2, <2>3
<1> QED
  BY <1>4, <1>5, <1>6, <1>7 DEF HoldInv

\* At most one Run runs for a request.
LEMMA OneOwner ==
    ASSUME HInv, MaxToolCalls = 0, NEW t \in Runs, NEW u \in Runs,
           run[t].owner \in Requests, run[t].owner = run[u].owner
    PROVE  t = u
BY DEF HInv, World, HoldInv

\* A Run that runs for a request was opened, is no hold, and its request waits.
LEMMA RunningFacts ==
    ASSUME HInv, NEW t \in Runs, run[t].owner \in Requests, Running(run[t])
    PROVE  /\ run[t].stream # "none" /\ run[t].timers /\ run[t].active /\ ~(held[t] > 0)
           /\ MaxToolCalls = 0 => req[run[t].owner].phase = "waiting"
<1>1. RunSound(run[t], held[t] > 0)
  BY DEF HInv, World, LiveInv
<1>2. run[t].owner # NoRequest
  BY CursorRunAssumption
<1>3. run[t].stream # "none"
  BY <1>1, <1>2 DEF RunSound
<1>4. MaxToolCalls = 0 => req[run[t].owner].phase = "waiting"
  BY <1>3 DEF HInv, World, HoldInv, HoldSound
<1> QED
  BY <1>1, <1>3, <1>4 DEF RunSound, Running

\* Rejecting the owners of several Runs
LEMMA RejectFields ==
    ASSUME HInv, NEW q \in Requests
    PROVE  IF req[q].phase = "waiting" THEN Reject(req, q)[q].phase = "failed"
                                       ELSE Reject(req, q)[q] = req[q]
BY DEF Reject, HInv, IInv, TypeOK, RequestState

\* updateCredentials
LEMMA RevokeCredentialWorld ==
    ASSUME HInv, NEW c \in Creds, RevokeCredential(c)
    PROVE  World(run, held, req, reading, readingHeld)'
<1> DEFINE hit(t) == run[t].cred = c /\ run[t].timers
           R2 == [t \in Runs |-> IF hit(t) THEN Aborted(t, run[t]) ELSE run[t]]
           H2 == [t \in Runs |-> IF run[t].cred = c THEN 0 ELSE held[t]]
           Q2 == [q \in Requests |-> IF \E t \in Runs : hit(t) /\ run[t].owner = q
                                     THEN Reject(req, q)[q] ELSE req[q]]
<1>1. /\ run' = R2 /\ held' = H2 /\ req' = Q2 /\ revoked' = revoked \cup {c} /\ down' = down
      /\ reading = NoRun /\ reading' = NoRun /\ readingHeld' = readingHeld
  BY DEF RevokeCredential, NotReading, AtRest
<1>2. NoRun \notin Runs
  BY CursorRunAssumption
<1>3. ASSUME NEW t \in Runs
      PROVE  /\ RunSound(R2[t], H2[t] > 0)
             /\ R2[t].cred \in revoked' \/ down' => ~(H2[t] > 0) /\ ~R2[t].timers
             /\ down' => R2[t].stream # "open"
             /\ \/ R2[t] = run[t] /\ H2[t] = held[t]
                \/ R2[t].settled /\ R2[t].owner = run[t].owner /\ H2[t] = 0
                \/ R2[t] = run[t] /\ H2[t] = 0 /\ ~run[t].timers
             /\ hit(t) => R2[t] # run[t]
             /\ ~hit(t) => R2[t] = run[t]
  <2>1. RunSound(run[t], held[t] > 0) /\ OffSound(run[t], held[t] > 0)
    BY DEF HInv, World, LiveInv
  <2>2. CASE hit(t)
    <3> DEFINE y == Aborted(t, run[t])
    <3>1. /\ y \in RunState /\ SameWork(run[t], y) /\ y.settled /\ (y.parked => run[t].parked)
          /\ ~y.timers /\ ~y.holdTimer /\ ~y.active /\ y.stream \in {"closing", "closed"}
          /\ ~run[t].settled
      BY <2>2, AbortedOver
    <3>2. R2[t] = y /\ H2[t] = 0
      BY <2>2
    <3> HIDE DEF y, R2, H2
    <3>3. RunSound(y, H2[t] > 0)
      BY <2>1, <3>1, <3>2 DEF RunSound, SameWork, Running
    <3> QED
      BY <2>2, <3>1, <3>2, <3>3 DEF SameWork
  <2>3. CASE ~hit(t) /\ run[t].cred = c
    <3>1. R2[t] = run[t] /\ H2[t] = 0 /\ ~run[t].timers
      BY <2>3
    <3> HIDE DEF R2, H2
    <3>2. RunSound(R2[t], H2[t] > 0)
      BY <2>1, <3>1 DEF RunSound, Running
    <3> QED
      BY <1>1, <2>1, <2>3, <3>1, <3>2 DEF OffSound
  <2>4. CASE run[t].cred # c
    <3>1. R2[t] = run[t] /\ H2[t] = held[t]
      BY <2>4
    <3> HIDE DEF R2, H2
    <3> QED
      BY <1>1, <2>1, <2>4, <3>1 DEF OffSound
  <2> QED
    BY <2>2, <2>3, <2>4
<1>4. LiveInv(run, held, reading, readingHeld)'
  <2> HIDE DEF R2, H2
  <2> QED
    BY <1>1, <1>2, <1>3 DEF LiveInv, OffSound
<1>5. ASSUME MaxToolCalls = 0 PROVE HoldInv(R2, H2, Q2, NoRun, readingHeld)
  <2>1. ASSUME NEW t \in Runs
        PROVE  \/ R2[t] = run[t] /\ H2[t] = held[t]
               \/ R2[t].settled /\ R2[t].owner = run[t].owner /\ H2[t] = 0
    <3>1. CASE R2[t] = run[t] /\ H2[t] = 0 /\ ~run[t].timers
      <4>1. held[t] > 0 => run[t].settled
        BY <3>1 DEF HInv, World, LiveInv, RunSound
      <4>2. ~(held[t] > 0)
        BY <1>1, <1>5, <4>1, RestHold
      <4>3. held[t] = 0
        BY <4>2 DEF HInv, IInv, TypeOK
      <4> QED
        BY <3>1, <4>3
    <3> QED
      BY <1>3, <3>1
  <2>2. ASSUME NEW q \in Requests
        PROVE  \/ Q2[q] = req[q]
               \/ req[q].phase = "waiting" /\ Q2[q].phase = "failed"
    BY RejectFields
  <2>3. ASSUME NEW q \in Requests, NEW t \in Runs, run[t].owner = q, Running(run[t])
        PROVE  Q2[q].phase = "waiting" <=> R2[t] = run[t]
    <3>1. req[q].phase = "waiting"
      BY <1>5, <2>3, RunningFacts
    <3>2. CASE hit(t)
      <4>1. Q2[q].phase = "failed"
        BY <2>3, <3>1, <3>2, RejectFields
      <4> QED
        BY <1>3, <3>2, <4>1
    <3>3. CASE ~hit(t)
      <4>1. \A u \in Runs : run[u].owner = q => u = t
        BY <1>5, <2>3, OneOwner
      <4>2. Q2[q] = req[q]
        BY <3>3, <4>1
      <4> QED
        BY <1>3, <3>1, <3>3, <4>2
    <3> QED
      BY <3>2, <3>3
  <2> HIDE DEF R2, H2, Q2
  <2> QED
    BY <1>1, <1>5, <2>1, <2>2, <2>3, EndedHolds
<1> HIDE DEF R2, H2, Q2
<1> QED
  BY <1>1, <1>4, <1>5 DEF World

\* shutdown()
LEMMA ShutdownWorld ==
    ASSUME HInv, Shutdown
    PROVE  World(run, held, req, reading, readingHeld)'
<1> DEFINE cleared(t) == IF InStore(t) THEN Release(run[t]) ELSE run[t]
           cut == {t \in Runs : cleared(t).active}
           R2 == [t \in Runs |-> IF t \in cut THEN Settle(cleared(t)) ELSE cleared(t)]
           H2 == [t \in Runs |-> 0]
           Q2 == [q \in Requests |-> IF \E t \in cut : run[t].owner = q
                                     THEN Reject(req, q)[q] ELSE req[q]]
<1>1. /\ run' = R2 /\ held' = H2 /\ req' = Q2 /\ revoked' = revoked
      /\ reading = NoRun /\ reading' = NoRun /\ readingHeld' = readingHeld
  BY DEF Shutdown, NotReading, AtRest
<1>2. NoRun \notin Runs
  BY CursorRunAssumption
<1>3. ASSUME NEW t \in Runs
      PROVE  /\ RunSound(R2[t], H2[t] > 0)
             /\ ~(H2[t] > 0) /\ ~R2[t].timers /\ R2[t].stream # "open"
             /\ \/ R2[t] = run[t] /\ H2[t] = held[t]
                \/ R2[t].settled /\ R2[t].owner = run[t].owner /\ H2[t] = 0
             /\ run[t].active /\ ~InStore(t) => R2[t] # run[t] /\ t \in cut
  <2>1. /\ RunSound(run[t], held[t] > 0) /\ run[t] \in RunState /\ held[t] \in Nat
    BY DEF HInv, World, LiveInv, IInv, TypeOK
  <2>2. H2[t] = 0
    OBVIOUS
  <2>3. CASE InStore(t)
    <3> DEFINE y == Release(run[t])
    <3>1. run[t].parked
      BY <2>1, <2>3 DEF RunSound, InStore
    <3>2. /\ y \in RunState /\ SameWork(run[t], y) /\ y.settled
          /\ ~y.timers /\ ~y.holdTimer /\ ~y.active /\ y.stream \in {"closing", "closed"}
          /\ (y.parked => run[t].parked)
      BY <2>1, <3>1, ReleaseOver
    <3>3. R2[t] = y
      BY <2>3, <3>2
    <3> HIDE DEF y, R2, H2, cut
    <3>4. RunSound(y, H2[t] > 0)
      BY <2>1, <2>2, <3>2 DEF RunSound, SameWork, Running
    <3> QED
      BY <2>2, <2>3, <3>2, <3>3, <3>4 DEF SameWork
  <2>4. CASE ~InStore(t) /\ run[t].active
    <3> DEFINE y == Settle(run[t])
    <3>1. ~run[t].settled /\ run[t].stream # "none" /\ held[t] = 0
      BY <2>1, <2>4 DEF RunSound, InStore
    <3>2. Stopped(run[t], y) /\ y.settled /\ y.parked = run[t].parked
      BY <2>1, <3>1, SettleFields
    <3>3. R2[t] = y /\ t \in cut
      BY <2>4
    <3> HIDE DEF y, R2, H2, cut
    <3>4. RunSound(y, H2[t] > 0) /\ y.stream \in {"closing", "closed"}
      BY <2>1, <2>2, <3>1, <3>2 DEF RunSound, Stopped, SameWork, Running, RunState
    <3> QED
      BY <2>2, <3>1, <3>2, <3>3, <3>4 DEF Stopped, SameWork
  <2>5. CASE ~InStore(t) /\ ~run[t].active
    <3>1. R2[t] = run[t] /\ held[t] = 0
      BY <2>1, <2>5 DEF InStore
    <3>2. ~run[t].timers /\ run[t].stream # "open"
      BY <2>1, <2>5, <3>1 DEF RunSound, Running
    <3> HIDE DEF R2, H2, cut
    <3>3. RunSound(R2[t], H2[t] > 0)
      BY <2>1, <2>2, <3>1
    <3> QED
      BY <2>2, <2>5, <3>1, <3>2, <3>3
  <2> QED
    BY <2>3, <2>4, <2>5
<1>4. LiveInv(run, held, reading, readingHeld)'
  <2> HIDE DEF R2, H2
  <2> QED
    BY <1>1, <1>2, <1>3 DEF LiveInv, OffSound
<1>5. ASSUME MaxToolCalls = 0 PROVE HoldInv(R2, H2, Q2, NoRun, readingHeld)
  <2>1. ASSUME NEW q \in Requests
        PROVE  \/ Q2[q] = req[q]
               \/ req[q].phase = "waiting" /\ Q2[q].phase = "failed"
    BY RejectFields
  <2>2. ASSUME NEW q \in Requests, NEW t \in Runs, run[t].owner = q, Running(run[t])
        PROVE  Q2[q].phase = "waiting" <=> R2[t] = run[t]
    <3>1. req[q].phase = "waiting" /\ run[t].active /\ ~InStore(t)
      BY <1>5, <2>2, RunningFacts DEF InStore
    <3>2. R2[t] # run[t] /\ t \in cut
      BY <1>3, <3>1
    <3>3. Q2[q].phase = "failed"
      <4> HIDE DEF cut
      <4> QED
        BY <2>2, <3>1, <3>2, RejectFields
    <3> QED
      BY <3>2, <3>3
  <2> HIDE DEF R2, H2, Q2
  <2> QED
    BY <1>1, <1>3, <1>5, <2>1, <2>2, EndedHolds
<1> HIDE DEF R2, H2, Q2
<1> QED
  BY <1>1, <1>4, <1>5 DEF World

-----------------------------------------------------------------------------
(* The invariant                                                           *)

\* Whatever the 'data' handler does.
LEMMA DataWorld ==
    ASSUME HInv, NEW r \in Runs, Data(r)
    PROVE  Next2World
BY BeginChunkWorld, FrameWorld, FrameExecWorld, FrameUnservableWorld, ChunkThrowsWorld,
   EndChunkWorld DEF Data

\* Only the backend's own operations end a credential or the backend.
LEMMA RunsStand ==
    ASSUME (\E r \in Runs : Data(r) \/ Event(r)) \/ (\E q \in Requests : Request(q))
    PROVE  Standing
<1>1. ASSUME NEW r \in Runs, Data(r) PROVE Standing
  BY <1>1 DEF Data, BeginChunk, FrameText, FrameAnnounce, FrameCallCompleted, FrameExec,
              FrameTurnEnded, FrameTrailer, FrameUnservable, ChunkThrows, EndChunk, NextFrame
<1>2. ASSUME NEW r \in Runs, Event(r) PROVE Standing
  BY <1>2 DEF Event, StreamError, StreamClosed, BadStatus, HoldTimer, RunTimeout, IdleTimeout
<1>3. ASSUME NEW q \in Requests, Request(q) PROVE Standing
  BY <1>3 DEF Request, SendFresh, ResumeRun, ResumeAborted, MismatchedContinuation,
              AnswersHold, OpenRun, OpenFails, Deliver, RefuseCalls, AbortWhileOpening,
              Disconnect
<1> QED
  BY <1>1, <1>2, <1>3

\* Every step keeps the Runs, the holds and the requests in order.
LEMMA NextWorld ==
    ASSUME HInv, Next
    PROVE  World(run, held, req, reading, readingHeld)'
<1>1. CASE (\E r \in Runs : Data(r) \/ Event(r)) \/ (\E q \in Requests : Request(q))
  <2>1. Next2World /\ Standing
    BY <1>1, DataWorld, EventWorld, RequestWorld, RunsStand
  <2> QED
    BY <2>1 DEF Next2World, World, LiveInv, OffSound, Standing
<1>2. CASE (\E c \in Creds : RevokeCredential(c)) \/ Shutdown
  BY <1>2, RevokeCredentialWorld, ShutdownWorld
<1> QED
  BY <1>1, <1>2 DEF Next

\* At the start no Run was opened and no request was sent.
LEMMA InitHInv == Init => HInv
<1> SUFFICES ASSUME Init PROVE HInv
  OBVIOUS
<1>1. \A r \in Runs : run[r] = NewRun /\ held[r] = 0
  BY DEF Init
<1>2. NoRun \notin Runs /\ NoRequest \notin Requests /\ reading = NoRun
  BY CursorRunAssumption DEF Init
<1>3. LiveInv(run, held, reading, readingHeld)
  <2>1. RunSound(NewRun, 0 > 0) /\ OffSound(NewRun, 0 > 0)
    BY DEF RunSound, OffSound, NewRun, Running, Init
  <2> QED
    BY <1>1, <1>2, <2>1 DEF LiveInv
<1>4. HoldInv(run, held, req, reading, readingHeld)
  <2>1. \A r \in Runs : HoldSound(r, NewRun, 0 > 0, req, reading, readingHeld)
    <3>1. NewRun.stream = "none" /\ ~(0 > 0) /\ \A r \in Runs : reading # r
      BY <1>2 DEF NewRun
    <3> QED
      BY <3>1 DEF HoldSound
  <2>2. NewRun.owner = NoRequest /\ \A q \in Requests : req[q].phase = "idle"
    BY DEF NewRun, Init, NewRequest
  <2> QED
    BY <1>1, <1>2, <2>1, <2>2 DEF HoldInv
<1> QED
  BY <1>3, <1>4, InitIInv DEF HInv, World

\* Every step preserves it.
LEMMA NextHInv == HInv /\ [Next]_vars => HInv'
<1> SUFFICES ASSUME HInv, [Next]_vars PROVE HInv'
  OBVIOUS
<1>1. IInv'
  BY NextIInv DEF HInv
<1>2. CASE Next
  BY <1>1, <1>2, NextWorld DEF HInv
<1>3. CASE UNCHANGED vars
  BY <1>1, <1>3 DEF vars, HInv, World, LiveInv, OffSound
<1> QED
  BY <1>2, <1>3

\* The second invariant holds in every reachable state.
THEOREM HoldInvariant == Spec => []HInv
BY InitHInv, NextHInv, PTL DEF Spec

\* What the operator ends is ended: no Run of a replaced credential is held or goes on, and
\* after shutdown() none is held or talks, whatever the requests and the upstream did.
THEOREM BackendEndsRunsCorrect == Spec => []BackendEndsRuns
<1>1. HInv => BackendEndsRuns
  BY DEF HInv, World, LiveInv, OffSound, BackendEndsRuns, InStore
<1> QED
  BY <1>1, HoldInvariant, PTL

\* When requests set no max_tool_calls, what the store holds is what can be resumed, and
\* every Run that can be resumed is in it.
THEOREM HoldsAreUsableCorrect ==
    ASSUME MaxToolCalls = 0 PROVE Spec => []HoldsAreUsable
<1>1. HInv => HoldsAreUsable
  <2> SUFFICES ASSUME HInv, AtRest, NEW r \in Runs
               PROVE  /\ InStore(r) <=> run[r].parked /\ ~run[r].settled
                      /\ InStore(r) /\ Ended(run[r]) => CompletedCalls(run[r]) # {}
    BY DEF HoldsAreUsable
  <2>1. RunSound(run[r], held[r] > 0)
    BY DEF HInv, World, LiveInv
  <2>2. held[r] > 0 => ~run[r].settled /\ (Ended(run[r]) => CompletedCalls(run[r]) # {})
    BY RestHold DEF AtRest
  <2> QED
    BY <2>1, <2>2 DEF RunSound, InStore
<1> QED
  BY <1>1, HoldInvariant, PTL

\* When requests set no max_tool_calls, the key of a hold is what its owner was answered.
THEOREM HoldsAreAnswerableCorrect ==
    ASSUME MaxToolCalls = 0 PROVE Spec => []HoldsAreAnswerable
<1>1. HInv => HoldsAreAnswerable
  BY HoldOwner DEF HoldsAreAnswerable, InStore
<1> QED
  BY <1>1, HoldInvariant, PTL

\* When requests set no max_tool_calls, nobody waits on a Run that is over: the ceiling
\* timer of the Run that serves it is armed.
THEOREM WaitingIsServedCorrect ==
    ASSUME MaxToolCalls = 0 PROVE Spec => []WaitingIsServed
<1>1. HInv => WaitingIsServed
  <2> SUFFICES ASSUME HInv, NEW q \in Requests, req[q].phase = "waiting"
               PROVE  \E r \in Runs : run[r].owner = q /\ Running(run[r]) /\ run[r].timers
    BY DEF WaitingIsServed
  <2>1. PICK r \in Runs : run[r].owner = q /\ Running(run[r])
    BY DEF HInv, World, HoldInv
  <2> QED
    BY <2>1, RunningFacts
<1> QED
  BY <1>1, HoldInvariant, PTL

\* When requests set no max_tool_calls, a Run without its timers has let go of its stream,
\* its settle window and its place in the store.
THEOREM TornDownCorrect ==
    ASSUME MaxToolCalls = 0 PROVE Spec => []TornDown
<1>1. HInv => TornDown
  <2> SUFFICES ASSUME HInv, AtRest, NEW r \in Runs, run[r].stream # "none", ~run[r].timers
               PROVE  /\ run[r].stream # "open"
                      /\ ~run[r].holdTimer /\ ~run[r].active /\ ~InStore(r)
    BY DEF TornDown
  <2>1. RunSound(run[r], held[r] > 0)
    BY DEF HInv, World, LiveInv
  <2>2. held[r] > 0 => ~run[r].settled
    BY RestHold DEF AtRest
  <2>3. run[r].settled /\ ~(held[r] > 0)
    BY <2>1, <2>2 DEF RunSound, Running
  <2> QED
    BY <2>1, <2>3 DEF RunSound, InStore
<1> QED
  BY <1>1, HoldInvariant, PTL

\* When requests set no max_tool_calls, a resumed response repeats no text of the one before.
THEOREM TextToldOnceCorrect ==
    ASSUME MaxToolCalls = 0 PROVE Spec => []TextToldOnce
<1>1. HInv => TextToldOnce
  BY DEF HInv, World, HoldInv, HoldSound, TextToldOnce, InStore
<1> QED
  BY <1>1, HoldInvariant, PTL

-----------------------------------------------------------------------------
(* What goes upstream as a tool's result                                   *)

\* Of Run r the results are those of x, and of every other Run those it had.
SentOf(r, x) ==
    \A t \in Runs : run'[t].sent = IF t = r THEN x.sent ELSE run[t].sent

\* The operators on the state of a Run send nothing.
LEMMA SentOperators ==
    ASSUME NEW x \in RunState, NEW r
    PROVE  /\ Settle(x).sent = x.sent /\ Release(x).sent = x.sent
           /\ ReleasedParked(r, x).sent = x.sent /\ Aborted(r, x).sent = x.sent
           /\ CloseTransport(x).sent = x.sent /\ Hangup(x).sent = x.sent
           /\ ScheduleHold(x).sent = x.sent /\ Interaction(x).sent = x.sent
<1>1. Settle(x).sent = x.sent
  BY SettleFields DEF Stopped, SameWork
<1>2. Release(x).sent = x.sent
  BY ReleaseFields DEF Stopped, SameWork
<1>3. Hangup(Cleanup(x)).sent = x.sent
  BY StoppedFields DEF Stopped, SameWork
<1>4. CloseTransport(x).sent = x.sent
  BY CloseTransportFields DEF SameWork
<1>5. ScheduleHold(x).sent = x.sent /\ Interaction(x).sent = x.sent
  BY ArmFields DEF SameWork
<1>6. Hangup(x).sent = x.sent
  BY DEF Hangup, RunState
<1> QED
  BY <1>1, <1>2, <1>3, <1>4, <1>5, <1>6 DEF ReleasedParked, Aborted

\* What a handler ends in sends nothing.
LEMMA FragmentsSent ==
    ASSUME IInv, NEW r \in Runs, NEW x, RunOK(x), NEW h, NEW rq,
           \/ Keep(r, x, h, rq) \/ FinishWithError(r, x, h, rq) \/ FinishWithText(r, x, h, rq)
           \/ ReleaseParked(r, x) \/ Park(r, x, h)
    PROVE  SentOf(r, x)
<1>1. x \in RunState /\ run \in [Runs -> RunState]
  BY DEF RunOK, IInv, TypeOK
<1>2. PICK y \in {x, Settle(x), ReleasedParked(r, x)} :
         /\ run'[r] = y
         /\ \A t \in Runs \ {r} : run'[t] = run[t] \/ run'[t] = Release(run[t])
  BY <1>1 DEF Keep, FinishWithError, FinishWithText, ReleaseParked, Park
<1>3. y.sent = x.sent
  BY <1>1, SentOperators
<1>4. \A t \in Runs \ {r} : run'[t].sent = run[t].sent
  BY <1>1, <1>2, SentOperators
<1> QED
  BY <1>2, <1>3, <1>4 DEF SentOf

\* drain() and hold() send nothing.
LEMMA DrainSent ==
    ASSUME IInv, NEW r \in Runs, NEW x, RunOK(x), NEW h, NEW rq, Drain(r, x, h, rq)
    PROVE  SentOf(r, x)
<1>1. CASE SurfaceBatch(r, x, h, rq)
  <2> DEFINE calls == CompletedCalls(x)
             y == [x EXCEPT !.holdTimer = FALSE, !.surfaced = @ \cup calls,
                            !.fresh = FALSE, !.told = FALSE]
             z == [y EXCEPT !.parked = TRUE, !.hold = calls]
             Q2 == Answer(rq, x.owner, r, calls)
  <2>1. calls \subseteq Slots /\ calls \subseteq x.done
    BY CallsAreNew
  <2>2. RunOK(y) /\ y.sent = x.sent
    <3> HIDE DEF calls
    <3> QED
      BY <2>1 DEF RunOK, RunState
  <2>3. RunOK(z) /\ z.sent = x.sent
    <3> HIDE DEF calls
    <3> QED
      BY <2>1 DEF RunOK, RunState
  <2>4. Park(r, z, h) \/ Keep(r, Settle(y), h, Q2)
    BY <1>1 DEF SurfaceBatch
  <2>5. RunOK(Settle(y)) /\ Settle(y).sent = y.sent
    <3> HIDE DEF y
    <3> QED
      BY <2>2, EndOperators, SentOperators DEF Later, RunOK
  <2> HIDE DEF y, z, Q2
  <2>6. SentOf(r, z) \/ SentOf(r, Settle(y))
    BY <2>3, <2>4, <2>5, FragmentsSent
  <2> QED
    BY <2>2, <2>3, <2>5, <2>6 DEF SentOf
<1>2. CASE \/ Keep(r, x, h, rq) \/ FinishWithError(r, x, h, rq) \/ FinishWithText(r, x, h, rq)
  BY <1>2, FragmentsSent
<1> QED
  BY <1>1, <1>2 DEF Drain

\* hold() sends nothing.
LEMMA HoldSent ==
    ASSUME IInv, NEW r \in Runs, NEW x, RunOK(x), Hold(r, x)
    PROVE  SentOf(r, x)
<1>1. RunOK(ScheduleHold(x)) /\ ScheduleHold(x).sent = x.sent
  BY ScheduleLater, SentOperators DEF Later, RunOK
<1>2. Keep(r, x, held, req) \/ Keep(r, ScheduleHold(x), held, req) \/ Drain(r, x, held, req)
  BY DEF Hold
<1>3. SentOf(r, x) \/ SentOf(r, ScheduleHold(x))
  BY <1>1, <1>2, FragmentsSent, DrainSent
<1> QED
  BY <1>1, <1>3 DEF SentOf

\* No Run has a result sent upstream that it had not.
Silent == \A t \in Runs : run'[t].sent \subseteq run[t].sent

\* The 'data' handler sends no result.
LEMMA DataSilent ==
    ASSUME IInv, NEW r \in Runs, Data(r)
    PROVE  Silent
<1> DEFINE x == run[r]
           y == Interaction(x)
<1>1. RunOK(x) /\ x \in RunState /\ run \in [Runs -> RunState]
  BY DEF IInv, TypeOK
<1>2. y \in RunState /\ y.sent = x.sent /\ RunOK(y)
  BY <1>1, ScheduleLater, SentOperators DEF Later, RunOK
<1>3. \A z : z.sent = x.sent /\ SentOf(r, z) => Silent
  BY DEF SentOf, Silent
<1>4. ASSUME NEW z, z.sent = x.sent, NEW h, NEW rq, Keep(r, z, h, rq) PROVE Silent
  BY <1>1, <1>4 DEF Keep, Silent
<1> HIDE DEF y
<1>5. CASE BeginChunk(r)
  BY <1>1, <1>5 DEF BeginChunk, Silent, RunState
<1>6. CASE FrameText(r)
  <2>1. [y EXCEPT !.fresh = TRUE, !.told = @ \/ x.emit].sent = x.sent
    BY <1>2 DEF RunState
  <2> QED
    BY <1>4, <1>6, <2>1 DEF FrameText, y
<1>7. CASE FrameAnnounce(r)
  <2>1. [y EXCEPT !.slots = @ + 1].sent = x.sent
    BY <1>2 DEF RunState
  <2> QED
    BY <1>4, <1>7, <2>1 DEF FrameAnnounce, y
<1>8. ASSUME NEW i \in Slots, FrameCallCompleted(r, i) PROVE Silent
  <2>1. WithCall(y, i).sent = x.sent
    BY <1>2 DEF RunState, WithCall
  <2> QED
    BY <1>4, <1>8, <2>1 DEF FrameCallCompleted, y
<1>9. ASSUME NEW i \in Slots, FrameExec(r, i) PROVE Silent
  <2> DEFINE w == WithCall(x, i)
             z == [w EXCEPT !.execs = @ \cup {i}]
  <2>1. x.stream # "none"
    BY <1>9 DEF FrameExec, NextFrame, IInv
  <2>2. RunOK(w) /\ w.stream # "none" /\ w.sent = x.sent
    BY <1>1, <2>1, CallOperators DEF Later, WithCall, RunState
  <2>3. RunOK(z) /\ z.sent = x.sent
    <3> HIDE DEF w
    <3> QED
      BY <2>2, CallOperators DEF Later, RunOK, RunState
  <2>4. Hold(r, z) \/ Keep(r, ScheduleHold(z), held, req)
    BY <1>9 DEF FrameExec
  <2> HIDE DEF z
  <2>5. ScheduleHold(z).sent = x.sent
    BY <2>3, SentOperators DEF RunOK
  <2> QED
    BY <1>3, <1>4, <2>3, <2>4, <2>5, HoldSent
<1>10. CASE FrameTurnEnded(r)
  <2>1. [y EXCEPT !.turnEnded = TRUE].sent = x.sent
    BY <1>2 DEF RunState
  <2> QED
    BY <1>4, <1>10, <2>1 DEF FrameTurnEnded, y
<1>11. CASE FrameTrailer(r)
  <2>1. [x EXCEPT !.streamEnded = TRUE].sent = x.sent
    BY <1>1 DEF RunState
  <2> QED
    BY <1>4, <1>11, <2>1 DEF FrameTrailer
<1>12. CASE FrameUnservable(r) \/ ChunkThrows(r) \/ EndChunk(r)
  <2> DEFINE c == CloseTransport(x)
             d == [c EXCEPT !.streamEnded = TRUE]
             e == IF x.streamEnded THEN c ELSE x
  <2>1. RunOK(c) /\ c.sent = x.sent
    BY <1>1, EndOperators, SentOperators DEF Later
  <2>2. d.sent = x.sent
    <3> HIDE DEF c
    <3> QED
      BY <2>1 DEF RunOK, RunState
  <2>3. RunOK(e) /\ e.sent = x.sent
    BY <1>1, <2>1
  <2>4. \/ \E h : Keep(r, e, h, req)
        \/ Keep(r, d, held, req)
        \/ ReleaseParked(r, x)
        \/ Drain(r, e, held, req)
        \/ FinishWithError(r, x, held, req)
    BY <1>12 DEF EndChunk, ChunkThrows, FrameUnservable
  <2> HIDE DEF d, e
  <2> QED
    BY <1>1, <1>3, <1>4, <2>2, <2>3, <2>4, FragmentsSent, DrainSent
<1> QED
  BY <1>5, <1>6, <1>7, <1>8, <1>9, <1>10, <1>11, <1>12 DEF Data

\* The stream's other events and the timers send no result.
LEMMA EventSilent ==
    ASSUME IInv, NEW r \in Runs, Event(r)
    PROVE  Silent
<1> DEFINE x == run[r]
<1>1. RunOK(x) /\ x \in RunState
  BY DEF IInv, TypeOK
<1>2. \A z : z.sent = x.sent /\ SentOf(r, z) => Silent
  BY DEF SentOf, Silent
<1>3. ASSUME NEW y, RunOK(y), y.sent = x.sent, StreamGone(r, y) PROVE Silent
  <2> DEFINE z == [y EXCEPT !.streamEnded = TRUE, !.active = FALSE]
  <2>1. RunOK(z) /\ z.sent = x.sent
    BY <1>3 DEF RunOK, RunState
  <2>2. Keep(r, z, held, req) \/ ReleaseParked(r, y) \/ FinishWithError(r, y, held, req)
    BY <1>3 DEF StreamGone
  <2> HIDE DEF z
  <2> QED
    BY <1>2, <1>3, <2>1, <2>2, FragmentsSent
<1>4. CASE StreamError(r)
  <2>1. RunOK(Hangup(x)) /\ Hangup(x).sent = x.sent
    BY <1>1, EndOperators, SentOperators DEF Later
  <2> QED
    BY <1>3, <1>4, <2>1 DEF StreamError
<1>5. CASE StreamClosed(r)
  <2>1. x.stream # "none"
    BY <1>5 DEF StreamClosed
  <2>2. RunOK([x EXCEPT !.stream = "closed"]) /\ [x EXCEPT !.stream = "closed"].sent = x.sent
    <3> HIDE DEF x
    <3> QED
      BY <1>1, <2>1 DEF RunOK, RunState
  <2> QED
    BY <1>3, <1>5, <2>2 DEF StreamClosed
<1>6. CASE HoldTimer(r)
  <2> DEFINE y == [x EXCEPT !.holdTimer = FALSE]
  <2>1. RunOK(y) /\ y.sent = x.sent
    BY <1>1, FlagUpdates DEF Later, RunState
  <2>2. Hold(r, y)
    BY <1>6 DEF HoldTimer
  <2> HIDE DEF y
  <2> QED
    BY <1>2, <2>1, <2>2, HoldSent
<1>7. CASE BadStatus(r) \/ RunTimeout(r) \/ IdleTimeout(r)
  <2>1. FinishWithError(r, x, held, req) \/ ReleaseParked(r, x)
    BY <1>7 DEF BadStatus, RunTimeout, IdleTimeout
  <2> QED
    BY <1>1, <1>2, <2>1, FragmentsSent
<1> QED
  BY <1>4, <1>5, <1>6, <1>7 DEF Event

\* A request sends results by resuming a Run and in no other way.
LEMMA RequestSilent ==
    ASSUME IInv, NEW q \in Requests, Request(q), ~\E p \in Requests : ResumeRun(q, p)
    PROVE  Silent
<1>1. run \in [Runs -> RunState] /\ \A t \in Runs : RunOK(run[t])
  BY DEF IInv, TypeOK
<1>2. ASSUME NEW r \in Runs, NEW z, RunOK(z), z.sent \subseteq run[r].sent, NEW h, NEW rq,
             Keep(r, z, h, rq) \/ FinishWithError(r, z, h, rq)
      PROVE  Silent
  <2>1. SentOf(r, z)
    BY <1>2, FragmentsSent
  <2> QED
    BY <1>2, <2>1 DEF SentOf, Silent
<1>3. \A t \in Runs : /\ RunOK(Release(run[t])) /\ Release(run[t]).sent = run[t].sent
                      /\ RunOK(Aborted(t, run[t])) /\ Aborted(t, run[t]).sent = run[t].sent
  BY <1>1, ReleaseOperators, SentOperators DEF Later
<1>4. CASE \/ \E k \in Contracts, c \in Creds : SendFresh(q, k, c)
           \/ OpenFails(q) \/ Deliver(q) \/ AbortWhileOpening(q)
  BY <1>4 DEF SendFresh, OpenFails, Deliver, AbortWhileOpening, Silent
<1>5. ASSUME NEW p \in Requests, ResumeAborted(q, p) PROVE Silent
  <2> DEFINE r == req[p].run
             x == run[r]
             y == [x EXCEPT !.parked = FALSE, !.owner = q, !.emit = q \in Streaming]
  <2>1. r \in Runs /\ RunOK(x) /\ x.stream # "none"
    BY <1>5, HoldHasOwner DEF ResumeAborted
  <2>2. RunOK(y) /\ y.sent = x.sent
    <3>1. ASSUME NEW w, RunOK(w), w.stream # "none", NEW b \in BOOLEAN
          PROVE  LET z == [w EXCEPT !.parked = FALSE, !.owner = q, !.emit = b]
                 IN  RunOK(z) /\ z.sent = w.sent
      BY <3>1 DEF RunOK, RunState
    <3>2. (q \in Streaming) \in BOOLEAN
      OBVIOUS
    <3> QED
      BY <2>1, <3>1, <3>2
  <2>3. RunOK(Settle(y)) /\ Settle(y).sent = x.sent
    <3> HIDE DEF y
    <3> QED
      BY <2>2, EndOperators, SentOperators DEF Later, RunOK
  <2> HIDE DEF y
  <2> QED
    BY <1>2, <1>5, <2>1, <2>3 DEF ResumeAborted, y
<1>6. ASSUME NEW p \in Requests, NEW k \in Contracts, NEW c \in Creds,
             MismatchedContinuation(q, p, k, c)
      PROVE  Silent
  <2>1. req[p].run \in Runs
    BY <1>6, HoldHasOwner DEF MismatchedContinuation
  <2> QED
    BY <1>2, <1>3, <1>6, <2>1 DEF MismatchedContinuation
<1>7. CASE RefuseCalls(q)
  <2>1. req[q].run \in Runs
    BY <1>7 DEF RefuseCalls, IInv, AnswersSurfaced
  <2> QED
    BY <1>1, <1>2, <1>3, <1>7, <2>1 DEF RefuseCalls
<1>8. ASSUME NEW r \in Runs, Disconnect(q, r) PROVE Silent
  BY <1>2, <1>3, <1>8 DEF Disconnect
<1>9. ASSUME NEW r \in Runs, OpenRun(q, r) PROVE Silent
  <2> DEFINE e == q \in Streaming
             c == req[q].cred
             x == [NewRun EXCEPT !.stream = "open", !.timers = TRUE, !.active = TRUE,
                                 !.emit = e, !.owner = q, !.cred = c]
             rq == [req EXCEPT ![q].phase = "waiting"]
  <2>1. e \in BOOLEAN /\ c \in Creds \cup {NoCred} /\ run[r].stream = "none"
    BY <1>9 DEF OpenRun, IInv, TypeOK, RequestState
  <2>2. NewRun \in RunState /\ NewRun.sent = {}
    BY CursorRunAssumption DEF RunState, NewRun
  <2>3. RunOK(x) /\ x.sent = {}
    <3> HIDE DEF e, c
    <3> QED
      BY <2>1, <2>2 DEF RunOK, RunState
  <2>4. Keep(r, x, held, rq) \/ FinishWithError(r, x, held, rq)
    BY <1>9 DEF OpenRun
  <2> HIDE DEF x, rq
  <2> QED
    <3>1. x.sent \subseteq run[r].sent
      BY <2>3
    <3> QED
      BY <1>2, <2>3, <2>4, <3>1
<1> QED
  BY <1>4, <1>5, <1>6, <1>7, <1>8, <1>9 DEF Request

\* A replaced credential and shutdown() send no result.
LEMMA EndingSilent ==
    ASSUME IInv, (\E c \in Creds : RevokeCredential(c)) \/ Shutdown
    PROVE  Silent
<1>1. ASSUME NEW x, RunOK(x), NEW r \in Runs
      PROVE  /\ Release(x).sent = x.sent /\ Aborted(r, x).sent = x.sent
             /\ Settle(x).sent = x.sent /\ Settle(Release(x)).sent = x.sent
  <2>1. x \in RunState /\ Release(x) \in RunState
    BY <1>1, ReleaseOperators DEF Later, RunOK
  <2> QED
    BY <1>1, <2>1, SentOperators
<1>2. \A t \in Runs : RunOK(run[t])
  BY DEF IInv
<1>3. ASSUME NEW c \in Creds, RevokeCredential(c) PROVE Silent
  BY <1>1, <1>2, <1>3 DEF RevokeCredential, Silent
<1>4. CASE Shutdown
  <2>1. \A t \in Runs : run'[t] \in {run[t], Release(run[t]), Settle(run[t]), Settle(Release(run[t]))}
    BY <1>4 DEF Shutdown
  <2> QED
    BY <1>1, <1>2, <2>1 DEF Silent
<1> QED
  BY <1>3, <1>4

\* What resume() sends answers calls of the request whose answer is the key of the hold.
LEMMA ResumeSends ==
    ASSUME IInv, NEW q \in Requests, NEW p \in Requests, ResumeRun(q, p),
           NEW r \in Runs, NEW i \in run'[r].sent \ run[r].sent
    PROVE  req[p].run = r /\ i \in req[p].calls
<1> DEFINE u == req[p].run
           x == run[u]
           y == Resumed(x, q)
<1>1. u \in Runs /\ RunOK(x) /\ x \in RunState /\ x.stream # "none" /\ x.hold = req[p].calls
  BY HoldHasOwner DEF ResumeRun, AnswersHold, RunOK
<1>2. RunOK(y)
  BY <1>1, ResumedLater DEF Later
<1>3. y.sent \subseteq x.sent \cup (x.execs \cap x.hold)
  BY <1>1 DEF Resumed, RunState
<1> HIDE DEF y
<1>4. \E h, rq : Keep(u, x, h, rq) \/ Drain(u, y, h, rq)
  BY DEF ResumeRun, y
<1>5. SentOf(u, x) \/ SentOf(u, y)
  BY <1>1, <1>2, <1>4, FragmentsSent, DrainSent
<1>6. r = u /\ i \in y.sent
  BY <1>5 DEF SentOf
<1> QED
  BY <1>1, <1>3, <1>6

\* For any number of calls per turn and whatever is resumed, aborted or refused in between,
\* a result goes upstream only for a call a client was given.
THEOREM ResultsAnswerCallsCorrect == Spec => ResultsAnswerCalls
<1> DEFINE Step == \A r \in Runs : \A i \in run'[r].sent \ run[r].sent :
                      \E q \in Requests : req[q].run = r /\ i \in req[q].calls
<1>1. Silent => Step
  BY DEF Silent
<1>2. ASSUME IInv, Next PROVE Step
  <2>1. ASSUME NEW r \in Runs, Data(r) \/ Event(r) PROVE Silent
    BY <1>2, <2>1, DataSilent, EventSilent
  <2>2. ASSUME NEW q \in Requests, Request(q) PROVE Step
    <3>1. ASSUME NEW p \in Requests, ResumeRun(q, p) PROVE Step
      BY <1>2, <3>1, ResumeSends
    <3>2. CASE ~\E p \in Requests : ResumeRun(q, p)
      BY <1>1, <1>2, <2>2, <3>2, RequestSilent
    <3> QED
      BY <3>1, <3>2
  <2>3. CASE (\E c \in Creds : RevokeCredential(c)) \/ Shutdown
    BY <1>1, <1>2, <2>3, EndingSilent
  <2> HIDE DEF Step
  <2> QED
    BY <1>1, <1>2, <2>1, <2>2, <2>3 DEF Next
<1>3. IInv /\ [Next]_vars => [Step]_vars
  BY <1>2
<1> QED
  BY <1>3, Invariant, PTL DEF Spec, ResultsAnswerCalls
=============================================================================
