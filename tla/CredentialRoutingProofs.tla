----------------------- MODULE CredentialRoutingProofs -----------------------
(***************************************************************************)
(* Theorems about CredentialRouting, for every set of credentials and      *)
(* requests, every budget and every policy.                                *)
(*                                                                         *)
(* Between the moment request q gives its pick back and the moment it      *)
(* picks again or ends, the counts of the router are those of the other    *)
(* requests: Free(cs, q).  Each fragment of the loops is shown to restore  *)
(* the invariant from there.                                               *)
(*                                                                         *)
(* The gate of visible output has an invariant of its own, GateInv: what   *)
(* was delivered is of an operation that is open and under way, and an     *)
(* open operation is remembered by its credential.                         *)
(***************************************************************************)
EXTENDS CredentialRouting, FiniteSetTheorems, TLAPS

\* A request that is under way has a credential.
RequestOK(x) ==
    /\ x \in RequestState
    /\ x.phase \in {"resumed", "first", "second", "wait"} => x.cred \in Creds

Others(c, q) == Users(c) \ {q}

\* cs counts the requests that use a credential, without q.
Free(cs, q) ==
    /\ cs \in [Creds -> CredState]
    /\ \A c \in Creds : cs[c].kept => cs[c].present
    /\ \A c \in Creds : cs[c].present =>
          IF cs[c].kept THEN cs[c].inFlight = Cardinality(Others(c, q))
          ELSE cs[c].inFlight <= Cardinality(Others(c, q))

IInv ==
    /\ TypeOK
    /\ \A q \in Requests : RequestOK(req[q])
    /\ \A c \in Creds : creds[c].kept => creds[c].present
    /\ InFlightCounts

-----------------------------------------------------------------------------
LEMMA UsersFinite ==
    ASSUME NEW c, NEW q
    PROVE  /\ IsFiniteSet(Users(c)) /\ Cardinality(Users(c)) \in Nat
           /\ IsFiniteSet(Others(c, q)) /\ Cardinality(Others(c, q)) \in Nat
           /\ q \in Users(c) => Cardinality(Users(c)) = Cardinality(Others(c, q)) + 1
           /\ q \notin Users(c) => Others(c, q) = Users(c)
<1>1. IsFiniteSet(Users(c))
  BY RoutingAssumption, FS_Subset DEF Users
<1>2. IsFiniteSet(Others(c, q))
  BY <1>1, FS_Subset DEF Others
<1>3. Cardinality(Users(c)) \in Nat /\ Cardinality(Others(c, q)) \in Nat
  BY <1>1, <1>2, FS_CardinalityType
<1>4. ASSUME q \in Users(c)
      PROVE  Cardinality(Users(c)) = Cardinality(Others(c, q)) + 1
  <2>1. Cardinality(Others(c, q)) = Cardinality(Users(c)) - 1
    BY <1>1, <1>4, FS_RemoveElement DEF Others
  <2>2. QED BY <2>1, <1>3
<1>5. QED BY <1>1, <1>2, <1>3, <1>4 DEF Others

\* A request that uses no credential of the router leaves the counts as they are.
LEMMA NotCounted ==
    ASSUME IInv, NEW q \in Requests, req[q].phase \notin {"first", "second"}
    PROVE  Free(creds, q)
<1>1. \A c \in Creds : Others(c, q) = Users(c)
  BY DEF Others, Users
<1>2. QED BY <1>1 DEF IInv, TypeOK, Free, InFlightCounts

\* Giving a pick back.
LEMMA ReleasedIsFree ==
    ASSUME IInv, NEW q \in Requests, req[q].phase \in {"first", "second"},
           NEW cs \in [Creds -> CredState],
           \A c \in Creds : /\ cs[c].present = creds[c].present
                            /\ cs[c].kept = creds[c].kept
                            /\ cs[c].inFlight = creds[c].inFlight
    PROVE  Free(Released(cs, req[q].cred), q)
<1> DEFINE e == req[q].cred
           rs == Released(cs, e)
<1>1. e \in Creds
  BY DEF IInv, RequestOK
<1>2. rs \in [Creds -> CredState]
  BY <1>1 DEF Released, CredState
<1>3. \A c \in Creds : rs[c].present = creds[c].present /\ rs[c].kept = creds[c].kept
  BY <1>1 DEF Released, CredState
<1>4. ASSUME NEW c \in Creds, rs[c].present
      PROVE  IF rs[c].kept THEN rs[c].inFlight = Cardinality(Others(c, q))
             ELSE rs[c].inFlight <= Cardinality(Others(c, q))
  <2>1. IF creds[c].kept THEN creds[c].inFlight = Cardinality(Users(c))
        ELSE creds[c].inFlight <= Cardinality(Users(c))
    BY <1>3, <1>4 DEF IInv, InFlightCounts
  <2>2. creds[c].inFlight \in Nat
    BY DEF IInv, TypeOK, CredState
  <2>3. CASE c = e
    <3>1. q \in Users(c)
      BY <2>3 DEF Users
    <3>2. rs[c].inFlight = IF creds[c].inFlight > 0 THEN creds[c].inFlight - 1 ELSE 0
      BY <1>1, <1>3, <1>4, <2>3 DEF Released, CredState
    <3>3. QED BY <1>3, <2>1, <2>2, <3>1, <3>2, UsersFinite
  <2>4. CASE c # e
    <3>1. q \notin Users(c)
      BY <2>4 DEF Users
    <3>2. rs[c].inFlight = creds[c].inFlight
      BY <1>1, <2>4 DEF Released, CredState
    <3>3. QED BY <1>3, <2>1, <3>1, <3>2, UsersFinite
  <2>5. QED BY <2>3, <2>4
<1>5. QED BY <1>2, <1>3, <1>4 DEF Free, IInv

\* A failure the policy counts, or not, and the release after it.
LEMMA FailedIsFree ==
    ASSUME IInv, NEW q \in Requests, req[q].phase \in {"first", "second"},
           NEW counted \in BOOLEAN
    PROVE  Free(Released(IF counted THEN Rested(creds, req[q]) ELSE creds,
                         req[q].cred), q)
<1> DEFINE x == req[q]
           cs == IF counted THEN Rested(creds, x) ELSE creds
<1>1. x.cred \in Creds /\ x.stale \in BOOLEAN
  BY DEF IInv, RequestOK, RequestState
<1>2. creds \in [Creds -> CredState] /\ Cooldown \in 0..Cooldown
  BY RoutingAssumption DEF IInv, TypeOK
<1>3. creds[x.cred] \in CredState
  BY <1>1, <1>2
<1>4. [creds[x.cred] EXCEPT !.rest = Cooldown, !.earned = ~x.stale] \in CredState
  BY <1>1, <1>2, <1>3 DEF CredState
<1>5. [creds EXCEPT ![x.cred].rest = Cooldown, ![x.cred].earned = ~x.stale]
        = [creds EXCEPT ![x.cred] =
             [creds[x.cred] EXCEPT !.rest = Cooldown, !.earned = ~x.stale]]
  BY <1>1, <1>2, <1>3 DEF CredState
<1>6. cs \in [Creds -> CredState]
  <2>1. CASE counted /\ creds[x.cred].present
    BY <2>1, <1>1, <1>2, <1>4, <1>5 DEF Rested
  <2>2. CASE ~(counted /\ creds[x.cred].present)
    BY <2>2, <1>2 DEF Rested
  <2>3. QED BY <2>1, <2>2
<1>7. \A c \in Creds : /\ cs[c].present = creds[c].present
                       /\ cs[c].kept = creds[c].kept
                       /\ cs[c].inFlight = creds[c].inFlight
  <2>1. CASE counted /\ creds[x.cred].present
    BY <2>1, <1>1, <1>2, <1>3, <1>5 DEF Rested, CredState
  <2>2. CASE ~(counted /\ creds[x.cred].present)
    BY <2>2, <1>2 DEF Rested
  <2>3. QED BY <2>1, <2>2
<1>8. QED BY <1>6, <1>7, ReleasedIsFree

-----------------------------------------------------------------------------
(* The fragments the loops are made of: each restores the invariant.       *)

\* A request that ends, or waits for its retry, uses no credential.
LEMMA KeepGood ==
    ASSUME IInv, NEW q \in Requests, NEW x, NEW cs,
           RequestOK(x), x.phase \notin {"first", "second"},
           Free(cs, q), Keep(q, x, cs)
    PROVE  IInv'
<1>1. /\ req \in [Requests -> RequestState]
      /\ \A p \in Requests : RequestOK(req[p])
      /\ failoverOn \in Policies /\ ultraLast \in UltraLast
  BY DEF IInv, TypeOK
<1>2. /\ req' = [req EXCEPT ![q] = x] /\ creds' = cs
      /\ failoverOn' = failoverOn /\ ultraLast' = ultraLast
  BY DEF Keep
<1>3. TypeOK'
  BY <1>1, <1>2 DEF TypeOK, Free, RequestOK
<1>4. \A p \in Requests : RequestOK(req'[p])
  BY <1>1, <1>2
<1>5. \A c : Users(c)' = Others(c, q)
  BY <1>1, <1>2 DEF Users, Others
<1>6. InFlightCounts'
  BY <1>2, <1>5 DEF Free, InFlightCounts
<1>7. (\A c \in Creds : creds[c].kept => creds[c].present)'
  BY <1>2 DEF Free
<1>8. QED BY <1>3, <1>4, <1>6, <1>7 DEF IInv, RequestOK, RequestState

\* A pick is counted once, for the request that made it.
LEMMA OperateGood ==
    ASSUME IInv, NEW q \in Requests, NEW x, NEW cs, NEW c \in Creds,
           NEW phase \in {"first", "second"},
           RequestOK(x), Free(cs, q), Operate(q, x, cs, c, phase)
    PROVE  IInv'
<1> DEFINE y == [x EXCEPT !.phase = phase, !.cred = c, !.stale = FALSE,
                          !.opened = FALSE]
           ds == [cs EXCEPT ![c].inFlight = @ + 1]
<1>1. /\ req \in [Requests -> RequestState]
      /\ \A p \in Requests : RequestOK(req[p])
      /\ failoverOn \in Policies /\ ultraLast \in UltraLast
  BY DEF IInv, TypeOK
<1>2. /\ req' = [req EXCEPT ![q] = y] /\ creds' = ds
      /\ failoverOn' = failoverOn /\ ultraLast' = ultraLast
  BY DEF Operate, Keep
<1>3. y \in RequestState /\ y.phase = phase /\ y.cred = c
  BY DEF RequestOK, RequestState
<1>4. RequestOK(y)
  BY <1>3 DEF RequestOK
<1>5. cs \in [Creds -> CredState] /\ cs[c] \in CredState
  BY DEF Free
<1>6. ds \in [Creds -> CredState]
  BY <1>5 DEF CredState
<1>7. \A d \in Creds : /\ ds[d].present = cs[d].present /\ ds[d].kept = cs[d].kept
                       /\ d = c => ds[d].inFlight = cs[d].inFlight + 1
                       /\ d # c => ds[d].inFlight = cs[d].inFlight
  BY <1>5 DEF CredState
<1>8. TypeOK'
  BY <1>1, <1>2, <1>3, <1>6 DEF TypeOK
<1>9. \A p \in Requests : RequestOK(req'[p])
  BY <1>1, <1>2, <1>4
<1>10. ASSUME NEW d \in Creds, ds[d].present
       PROVE  IF ds[d].kept THEN ds[d].inFlight = Cardinality(Users(d)')
              ELSE ds[d].inFlight <= Cardinality(Users(d)')
  <2>1. /\ IsFiniteSet(Others(d, q)) /\ Cardinality(Others(d, q)) \in Nat
        /\ q \notin Others(d, q)
    BY UsersFinite DEF Others
  <2>2. IF cs[d].kept THEN cs[d].inFlight = Cardinality(Others(d, q))
        ELSE cs[d].inFlight <= Cardinality(Others(d, q))
    BY <1>7, <1>10 DEF Free
  <2>3. cs[d].inFlight \in Nat
    BY <1>5 DEF CredState
  <2>4. CASE d = c
    <3>1. Users(d)' = Others(d, q) \cup {q}
      BY <1>1, <1>2, <1>3, <2>4 DEF Users, Others
    <3>2. Cardinality(Users(d)') = Cardinality(Others(d, q)) + 1
      BY <2>1, <3>1, FS_AddElement
    <3>3. QED BY <1>7, <2>1, <2>2, <2>3, <2>4, <3>2
  <2>5. CASE d # c
    <3>1. Users(d)' = Others(d, q)
      BY <1>1, <1>2, <1>3, <2>5 DEF Users, Others
    <3>2. QED BY <1>7, <2>2, <2>5, <3>1
  <2>6. QED BY <2>4, <2>5
<1>11. InFlightCounts'
  BY <1>2, <1>10 DEF InFlightCounts
<1>12. (\A d \in Creds : creds[d].kept => creds[d].present)'
  BY <1>2, <1>7 DEF Free
<1>13. QED BY <1>8, <1>9, <1>11, <1>12 DEF IInv, RequestOK, RequestState

\* A step of an operation that goes on, or of a hold that becomes a run.
LEMMA SameUse ==
    ASSUME IInv, NEW q \in Requests, NEW x, RequestOK(x),
           x.phase = req[q].phase, x.cred = req[q].cred, Keep(q, x, creds)
    PROVE  IInv'
<1>1. /\ req \in [Requests -> RequestState]
      /\ \A p \in Requests : RequestOK(req[p])
      /\ failoverOn \in Policies /\ ultraLast \in UltraLast
      /\ creds \in [Creds -> CredState]
  BY DEF IInv, TypeOK
<1>2. /\ req' = [req EXCEPT ![q] = x] /\ creds' = creds
      /\ failoverOn' = failoverOn /\ ultraLast' = ultraLast
  BY DEF Keep
<1>3. \A c : Users(c)' = Users(c)
  BY <1>1, <1>2 DEF Users
<1>4. TypeOK'
  BY <1>1, <1>2 DEF TypeOK, RequestOK
<1>5. \A p \in Requests : RequestOK(req'[p])
  BY <1>1, <1>2
<1>6. InFlightCounts'
  BY <1>2, <1>3 DEF IInv, InFlightCounts
<1>7. QED BY <1>2, <1>4, <1>5, <1>6 DEF IInv, RequestOK, RequestState

\* A request that is over is as good as new.
LEMMA OverIsOK ==
    ASSUME NEW phase \in {"done", "failed"}
    PROVE  RequestOK(Over(phase)) /\ Over(phase).phase = phase
<1>1. 0 \in 0..ServerRetries /\ 0 \in 0..TransportRetries /\ 0 \in 0..2
  BY RoutingAssumption
<1>2. NewRequest \in RequestState
  BY <1>1 DEF NewRequest, RequestState
<1>3. Over(phase) \in RequestState /\ Over(phase).phase = phase
  BY <1>2 DEF Over, RequestState
<1>4. QED BY <1>3 DEF RequestOK

LEMMA RouteGood ==
    ASSUME IInv, NEW q \in Requests, NEW x, NEW cs,
           RequestOK(x), Free(cs, q), Route(q, x, cs)
    PROVE  IInv'
<1> DEFINE able == IF x.prefer = NoCred THEN Candidates(cs, x, {})
                   ELSE Able(cs, x) \cap {x.prefer}
<1>1. able \subseteq Creds
  BY DEF Candidates, Able
<1>2. CASE able = {} /\ Keep(q, Over("failed"), cs)
  BY <1>2, KeepGood, OverIsOK
<1>3. ASSUME NEW c \in able, Operate(q, x, cs, c, "first")
      PROVE  IInv'
  BY <1>1, <1>3, OperateGood
<1>4. QED BY <1>2, <1>3 DEF Route

LEMMA RunAgainGood ==
    ASSUME IInv, NEW q \in Requests, NEW x, NEW cs,
           NEW stage \in {"first", "recovery", "correction"},
           RequestOK(x), Free(cs, q), RunAgain(q, x, cs, stage)
    PROVE  IInv'
<1> DEFINE y == [x EXCEPT !.stage = stage, !.server = 0, !.transport = 0,
                          !.prefer = NoCred]
<1>1. RequestOK(y)
  <2>1. 0 \in 0..ServerRetries /\ 0 \in 0..TransportRetries
    BY RoutingAssumption
  <2>2. x \in RequestState
    BY DEF RequestOK
  <2>3. y \in RequestState /\ y.phase = x.phase /\ y.cred = x.cred
    BY <2>1, <2>2 DEF RequestState
  <2>4. QED BY <2>3 DEF RequestOK
<1>2. Route(q, y, cs)
  BY DEF RunAgain
<1>3. QED BY <1>1, <1>2, RouteGood

LEMMA CatchGood ==
    ASSUME IInv, NEW q \in Requests, NEW x, NEW cs, NEW e \in Errors,
           RequestOK(x), x.phase \in {"resumed", "first", "second"},
           Free(cs, q), Catch(q, x, cs, e)
    PROVE  IInv'
<1>1. CASE x.server < ServerRetries
           /\ Keep(q, [x EXCEPT !.phase = "wait", !.server = @ + 1], cs)
  <2> DEFINE y == [x EXCEPT !.phase = "wait", !.server = @ + 1]
  <2>1. x \in RequestState /\ x.cred \in Creds
    BY DEF RequestOK
  <2>2. x.server + 1 \in 0..ServerRetries
    BY <1>1, <2>1, RoutingAssumption DEF RequestState
  <2>3. y \in RequestState /\ y.phase = "wait" /\ y.cred = x.cred
    BY <2>1, <2>2 DEF RequestState
  <2>4. RequestOK(y)
    BY <2>1, <2>3 DEF RequestOK
  <2>5. QED BY <1>1, <2>3, <2>4, KeepGood
<1>2. CASE x.transport < TransportRetries
           /\ Keep(q, [x EXCEPT !.phase = "wait", !.transport = @ + 1], cs)
  <2> DEFINE y == [x EXCEPT !.phase = "wait", !.transport = @ + 1]
  <2>1. x \in RequestState /\ x.cred \in Creds
    BY DEF RequestOK
  <2>2. x.transport + 1 \in 0..TransportRetries
    BY <1>2, <2>1, RoutingAssumption DEF RequestState
  <2>3. y \in RequestState /\ y.phase = "wait" /\ y.cred = x.cred
    BY <2>1, <2>2 DEF RequestState
  <2>4. RequestOK(y)
    BY <2>1, <2>3 DEF RequestOK
  <2>5. QED BY <1>2, <2>3, <2>4, KeepGood
<1>3. CASE RunAgain(q, x, cs, "recovery")
  BY <1>3, RunAgainGood
<1>4. CASE Keep(q, Over("failed"), cs)
  BY <1>4, KeepGood, OverIsOK
<1>5. QED BY <1>1, <1>2, <1>3, <1>4 DEF Catch

-----------------------------------------------------------------------------
(* The steps of a request.                                                 *)

LEMMA SettledIsFree ==
    ASSUME IInv, NEW q \in Requests
    PROVE  req[q].phase \in {"resumed", "first", "second"} => Free(Settled(q), q)
<1>1. CASE req[q].phase = "resumed"
  BY <1>1, NotCounted DEF Settled
<1>2. CASE req[q].phase \in {"first", "second"}
  <2>1. creds \in [Creds -> CredState]
    BY DEF IInv, TypeOK
  <2>2. Free(Released(creds, req[q].cred), q)
    BY <1>2, <2>1, ReleasedIsFree
  <2>3. QED BY <1>2, <2>2 DEF Settled
<1>3. QED BY <1>1, <1>2

LEMMA FailGood ==
    ASSUME IInv, NEW q \in Requests, NEW e \in Errors,
           \/ FailResumed(q, e) \/ FailFirst(q, e) \/ FailSecond(q, e)
    PROVE  IInv'
<1> DEFINE x == req[q]
           counted == e.reason \in Counted(failoverOn)
           cs == Released(IF counted THEN Rested(creds, x) ELSE creds, x.cred)
           next == IF counted /\ ~x.delivered THEN Candidates(cs, x, {x.cred}) ELSE {}
           y == [x EXCEPT !.failovers = IF @ = 2 THEN 2 ELSE @ + 1]
<1>1. RequestOK(x) /\ x \in RequestState
  BY DEF IInv, RequestOK
<1>2. counted \in BOOLEAN
  OBVIOUS
<1>3. x.phase \in {"first", "second"} => Free(cs, q)
  BY <1>2, FailedIsFree
<1>4. CASE FailResumed(q, e)
  BY <1>1, <1>4, NotCounted, CatchGood DEF FailResumed
<1>5. CASE FailFirst(q, e)
  <2>1. x.phase = "first" /\ Free(cs, q)
    BY <1>3, <1>5 DEF FailFirst
  <2>2. CASE Catch(q, x, cs, e)
    BY <1>1, <2>1, <2>2, CatchGood
  <2>3. ASSUME NEW c \in next, Operate(q, y, cs, c, "second")
        PROVE  IInv'
    <3>1. c \in Creds
      BY DEF Candidates, Able
    <3>2. y \in RequestState /\ y.phase = x.phase /\ y.cred = x.cred
      BY <1>1 DEF RequestState
    <3>3. RequestOK(y)
      BY <1>1, <3>2 DEF RequestOK
    <3>4. QED BY <2>1, <2>3, <3>1, <3>3, OperateGood
  <2>4. QED BY <1>5, <2>2, <2>3 DEF FailFirst
<1>6. CASE FailSecond(q, e)
  <2>1. x.phase = "second" /\ Free(cs, q) /\ Catch(q, x, cs, e)
    BY <1>3, <1>6 DEF FailSecond
  <2>2. QED BY <1>1, <2>1, CatchGood
<1>7. QED BY <1>4, <1>5, <1>6

LEMMA RequestGood ==
    ASSUME IInv, NEW q \in Requests, Request(q)
    PROVE  IInv'
<1> DEFINE x == req[q]
<1>1. RequestOK(x) /\ x \in RequestState
  BY DEF IInv, RequestOK
<1>2. creds \in [Creds -> CredState]
  BY DEF IInv, TypeOK
<1>3. ASSUME NEW model \in {"fable", "other"}, Begin(q, model)
      PROVE  IInv'
  <2> DEFINE y == [x EXCEPT !.model = model]
  <2>1. x.phase = "idle" /\ Route(q, y, creds)
    BY <1>3 DEF Begin
  <2>2. y \in RequestState /\ y.phase = x.phase /\ y.cred = x.cred
    BY <1>1 DEF RequestState
  <2>3. RequestOK(y)
    BY <1>1, <2>2 DEF RequestOK
  <2>4. QED BY <2>1, <2>3, NotCounted, RouteGood
<1>4. ASSUME NEW c \in Creds, BeginResumed(q, c)
      PROVE  IInv'
  <2> DEFINE y == [x EXCEPT !.phase = "resumed", !.cred = c,
                            !.opened = TRUE, !.prefer = c]
  <2>1. x.phase = "idle" /\ Keep(q, y, creds)
    BY <1>4 DEF BeginResumed
  <2>2. y \in RequestState /\ y.phase = "resumed" /\ y.cred = c
    BY <1>1 DEF RequestState
  <2>3. RequestOK(y)
    BY <2>2 DEF RequestOK
  <2>4. QED BY <2>1, <2>2, <2>3, NotCounted, KeepGood
<1>5. CASE TokenReady(q)
  <2> DEFINE y == [x EXCEPT !.opened = TRUE, !.prefer = x.cred]
  <2>1. x.cred \in Creds /\ Keep(q, y, creds)
    BY <1>1, <1>5 DEF TokenReady, RequestOK
  <2>2. y \in RequestState /\ y.phase = x.phase /\ y.cred = x.cred
    BY <1>1, <2>1 DEF RequestState
  <2>3. RequestOK(y)
    BY <1>1, <2>2 DEF RequestOK
  <2>4. QED BY <2>1, <2>2, <2>3, SameUse
<1>6. CASE Emit(q)
  <2> DEFINE y == [x EXCEPT !.delivered = TRUE]
  <2>1. Keep(q, y, creds)
    BY <1>6 DEF Emit
  <2>2. y \in RequestState /\ y.phase = x.phase /\ y.cred = x.cred
    BY <1>1 DEF RequestState
  <2>3. RequestOK(y)
    BY <1>1, <2>2 DEF RequestOK
  <2>4. QED BY <2>1, <2>2, <2>3, SameUse
<1>7. CASE Outcome(q)
  <2>1. ASSUME NEW e \in Errors,
               FailResumed(q, e) \/ FailFirst(q, e) \/ FailSecond(q, e)
        PROVE  IInv'
    BY <2>1, FailGood
  <2>2. CASE Complete(q)
    BY <2>2, SettledIsFree, KeepGood, OverIsOK DEF Complete
  <2>3. CASE RefuseArguments(q)
    BY <1>1, <2>3, SettledIsFree, KeepGood, OverIsOK, RunAgainGood
       DEF RefuseArguments
  <2>4. CASE RefuseOutcome(q)
    BY <2>4, SettledIsFree, KeepGood, OverIsOK DEF RefuseOutcome
  <2>5. QED BY <1>7, <2>1, <2>2, <2>3, <2>4 DEF Outcome
<1>8. CASE WaitOver(q)
  BY <1>1, <1>8, NotCounted, RouteGood DEF WaitOver
<1>9. CASE Abort(q)
  <2>1. Free(IF x.phase = "wait" THEN creds ELSE Settled(q), q)
    BY <1>9, NotCounted, SettledIsFree DEF Abort
  <2>2. QED BY <1>9, <2>1, KeepGood, OverIsOK DEF Abort
<1>10. QED BY <1>3, <1>4, <1>5, <1>6, <1>7, <1>8, <1>9 DEF Request

-----------------------------------------------------------------------------
(* The steps of the operator and of the clock.                             *)

\* A replacement carries the count over, or the id begins from nothing.
LEMMA ReplaceGood ==
    ASSUME IInv, NEW c \in Creds, NEW state \in CredState,
           state.kept => state.present,
           \/ /\ creds[c].present /\ state.kept = creds[c].kept
              /\ state.inFlight = creds[c].inFlight
           \/ ~state.kept /\ state.inFlight = 0,
           Replace(c, state)
    PROVE  IInv'
<1>1. /\ req \in [Requests -> RequestState]
      /\ creds \in [Creds -> CredState]
      /\ failoverOn \in Policies /\ ultraLast \in UltraLast
      /\ \A p \in Requests : RequestOK(req[p])
  BY DEF IInv, TypeOK
<1>2. /\ creds' = [creds EXCEPT ![c] = state]
      /\ failoverOn' = failoverOn /\ ultraLast' = ultraLast
      /\ req' = [q \in Requests |-> [req[q] EXCEPT !.stale = @ \/ c = req[q].cred]]
  BY DEF Replace
<1>3. ASSUME NEW q \in Requests
      PROVE  /\ RequestOK(req'[q])
             /\ req'[q].phase = req[q].phase /\ req'[q].cred = req[q].cred
  <2>1. req[q] \in RequestState
    BY <1>1
  <2>2. req'[q] = [req[q] EXCEPT !.stale = req[q].stale \/ c = req[q].cred]
    BY <1>2
  <2>3. \A b \in BOOLEAN : LET y == [req[q] EXCEPT !.stale = b] IN
           y \in RequestState /\ y.phase = req[q].phase /\ y.cred = req[q].cred
    BY <2>1 DEF RequestState
  <2>4. (req[q].stale \/ c = req[q].cred) \in BOOLEAN
    OBVIOUS
  <2>5. QED BY <1>1, <2>2, <2>3, <2>4 DEF RequestOK
<1>4. req' \in [Requests -> RequestState]
  BY <1>2, <1>3 DEF RequestOK
<1>5. creds' \in [Creds -> CredState]
  BY <1>1, <1>2
<1>6. TypeOK'
  BY <1>1, <1>2, <1>4, <1>5 DEF TypeOK
<1>7. \A d : Users(d)' = Users(d)
  BY <1>3 DEF Users
<1>8. (\A d \in Creds : creds[d].kept => creds[d].present)'
  BY <1>1, <1>2 DEF IInv
<1>9. InFlightCounts'
  <2> SUFFICES ASSUME NEW d \in Creds, creds'[d].present
               PROVE  IF creds'[d].kept THEN creds'[d].inFlight = Cardinality(Users(d))
                      ELSE creds'[d].inFlight <= Cardinality(Users(d))
    BY <1>7 DEF InFlightCounts
  <2>1. CASE d = c /\ state.inFlight = 0 /\ ~state.kept
    <3>1. Cardinality(Users(d)) \in Nat
      BY UsersFinite
    <3>2. creds'[d].inFlight = 0 /\ ~creds'[d].kept
      BY <1>1, <1>2, <2>1
    <3>3. QED BY <2>1, <3>1, <3>2
  <2>2. CASE /\ d = c /\ state.inFlight = creds[c].inFlight
             /\ creds[c].present /\ state.kept = creds[c].kept
    BY <1>1, <1>2, <2>2 DEF IInv, InFlightCounts
  <2>3. CASE d # c
    BY <1>1, <1>2, <2>3 DEF IInv, InFlightCounts
  <2>4. QED BY <2>1, <2>2, <2>3
<1>10. QED BY <1>3, <1>6, <1>8, <1>9 DEF IInv, RequestOK, RequestState

LEMMA OperatorGood ==
    ASSUME IInv, NEW c \in Creds, Operator(c)
    PROVE  IInv'
<1> DEFINE s == creds[c]
<1>1. s \in CredState /\ 0 \in 0..Cooldown
  BY RoutingAssumption DEF IInv, TypeOK
<1>2. s.kept => s.present
  BY DEF IInv
<1>3. /\ Renewed(s) \in CredState
      /\ Renewed(s).present = s.present
      /\ Renewed(s).kept = s.kept
      /\ Renewed(s).inFlight = s.inFlight
  BY <1>1 DEF Renewed, CredState
<1>4. CASE ChangeKey(c)
  BY <1>2, <1>3, <1>4, ReplaceGood DEF ChangeKey
<1>5. CASE Disable(c)
  <2> DEFINE t == [s EXCEPT !.enabled = FALSE]
  <2>1. /\ t \in CredState /\ t.present = s.present
        /\ t.kept = s.kept /\ t.inFlight = s.inFlight
    BY <1>1 DEF CredState
  <2>2. QED BY <1>2, <1>5, <2>1, ReplaceGood DEF Disable
<1>6. CASE Enable(c)
  <2> DEFINE t == [Renewed(s) EXCEPT !.enabled = TRUE]
  <2>1. /\ t \in CredState /\ t.present = s.present
        /\ t.kept = s.kept /\ t.inFlight = s.inFlight
    BY <1>3 DEF CredState
  <2>2. QED BY <1>2, <1>6, <2>1, ReplaceGood DEF Enable
<1>7. CASE Remove(c)
  <2> DEFINE t == [Renewed(s) EXCEPT !.present = FALSE, !.inFlight = 0, !.kept = FALSE]
  <2>1. t \in CredState /\ ~t.kept /\ t.inFlight = 0
    BY <1>3 DEF CredState
  <2>2. QED BY <1>7, <2>1, ReplaceGood DEF Remove
<1>8. CASE Add(c)
  <2> DEFINE t == [Renewed(s) EXCEPT !.present = TRUE, !.enabled = TRUE,
                                     !.inFlight = 0]
  <2>1. t \in CredState /\ ~t.kept /\ t.inFlight = 0
    BY <1>2, <1>3, <1>8 DEF Add, CredState
  <2>2. QED BY <1>8, <2>1, ReplaceGood DEF Add
<1>9. QED BY <1>4, <1>5, <1>6, <1>7, <1>8 DEF Operator

LEMMA TickGood ==
    ASSUME IInv, Tick
    PROVE  IInv'
<1>1. /\ creds \in [Creds -> CredState]
      /\ failoverOn \in Policies /\ ultraLast \in UltraLast
      /\ req \in [Requests -> RequestState]
      /\ \A p \in Requests : RequestOK(req[p])
  BY DEF IInv, TypeOK
<1>2. /\ failoverOn' = failoverOn /\ ultraLast' = ultraLast /\ req' = req
      /\ creds' = [c \in Creds |->
                     [creds[c] EXCEPT !.rest = IF @ > 0 THEN @ - 1 ELSE 0,
                                      !.earned = @ \/ creds[c].rest = 1]]
  BY DEF Tick
<1>3. ASSUME NEW c \in Creds
      PROVE  /\ creds'[c] \in CredState
             /\ creds'[c].present = creds[c].present
             /\ creds'[c].kept = creds[c].kept
             /\ creds'[c].inFlight = creds[c].inFlight
  <2> DEFINE r == IF creds[c].rest > 0 THEN creds[c].rest - 1 ELSE 0
             g == creds[c].earned \/ creds[c].rest = 1
  <2>1. creds[c] \in CredState
    BY <1>1
  <2>2. r \in 0..Cooldown
    BY <2>1, RoutingAssumption DEF CredState
  <2>3. g \in BOOLEAN
    OBVIOUS
  <2>4. creds'[c] = [creds[c] EXCEPT !.rest = r, !.earned = g]
    BY <1>2
  <2> HIDE DEF r, g
  <2>5. QED BY <2>1, <2>2, <2>3, <2>4 DEF CredState
<1>4. creds' \in [Creds -> CredState]
  BY <1>2, <1>3
<1>5. TypeOK'
  BY <1>1, <1>2, <1>4 DEF TypeOK
<1>6. \A c : Users(c)' = Users(c)
  BY <1>2 DEF Users
<1>7. InFlightCounts'
  BY <1>3, <1>6 DEF IInv, InFlightCounts
<1>8. (\A c \in Creds : creds[c].kept => creds[c].present)'
  BY <1>3 DEF IInv
<1>9. QED BY <1>1, <1>2, <1>5, <1>7, <1>8 DEF IInv, RequestOK, RequestState

-----------------------------------------------------------------------------
(* The theorems.                                                           *)

LEMMA InitGood == Init => IInv
<1> SUFFICES ASSUME Init PROVE IInv
  OBVIOUS
<1>1. 0 \in 0..ServerRetries /\ 0 \in 0..TransportRetries /\ 0 \in 0..2
      /\ 0 \in 0..Cooldown
  BY RoutingAssumption
<1>2. NewRequest \in RequestState /\ NewRequest.phase = "idle"
  BY <1>1 DEF NewRequest, RequestState
<1>3. RequestOK(NewRequest)
  BY <1>2 DEF RequestOK
<1>4. TypeOK
  BY <1>1, <1>2 DEF Init, TypeOK, CredState
<1>5. ASSUME NEW c \in Creds
      PROVE  creds[c].present /\ creds[c].kept /\ creds[c].inFlight = Cardinality(Users(c))
  <2>1. Users(c) = {}
    BY <1>2 DEF Init, Users
  <2>2. QED BY <2>1, FS_EmptySet DEF Init
<1>6. InFlightCounts
  <2>1. \A c \in Creds : creds[c].inFlight = 0
    BY DEF Init
  <2>2. QED BY <1>5, <2>1 DEF InFlightCounts
<1>7. QED BY <1>3, <1>4, <1>5, <1>6 DEF Init, IInv

LEMMA NextGood == IInv /\ [Next]_vars => IInv'
<1> SUFFICES ASSUME IInv, [Next]_vars PROVE IInv'
  OBVIOUS
<1>1. ASSUME NEW q \in Requests, Request(q) PROVE IInv'
  BY <1>1, RequestGood
<1>2. ASSUME NEW c \in Creds, Operator(c) PROVE IInv'
  BY <1>2, OperatorGood
<1>3. CASE UpdatePolicy
  BY <1>3 DEF UpdatePolicy, IInv, TypeOK, InFlightCounts, Users,
     RequestOK, RequestState
<1>4. CASE Tick
  BY <1>4, TickGood
<1>5. CASE UNCHANGED vars
  BY <1>5 DEF vars, IInv, TypeOK, InFlightCounts, Users, RequestOK, RequestState
<1>6. QED BY <1>1, <1>2, <1>3, <1>4, <1>5 DEF Next

\* In every reachable state the router's counts are of their types: the retry
\* budgets are never exceeded and no in-flight count drops below zero, for any
\* number of requests, credentials, replacements and policies.
THEOREM RoutingTypes == Spec => []TypeOK
<1>1. Spec => []IInv
  BY InitGood, NextGood, PTL DEF Spec
<1>2. IInv => TypeOK
  BY DEF IInv
<1>3. QED BY <1>1, <1>2, PTL

\* Every pick of a credential is given back exactly once: what the router
\* reports in flight is the number of requests that use the credential, and
\* never more than that even if ids are removed and added while in use.
THEOREM PicksAreGivenBack == Spec => []InFlightCounts
<1>1. Spec => []IInv
  BY InitGood, NextGood, PTL DEF Spec
<1>2. IInv => InFlightCounts
  BY DEF IInv
<1>3. QED BY <1>1, <1>2, PTL

-----------------------------------------------------------------------------
(* The gate of the output, and the credential a retry remembers            *)

\* Output was delivered by an operation that is open and has not ended, and an
\* operation that is open is remembered by its credential.
GateOK(x) ==
    /\ x.delivered => x.opened /\ x.phase \in {"resumed", "first", "second"}
    /\ x.opened => x.cred \in Creds /\ x.prefer = x.cred

GateInv == IInv /\ \A q \in Requests : GateOK(req[q])

\* What may become of a request that is x: nothing runs again behind its output, and
\* a retry keeps its credential.
Follows(x, y) ==
    /\ GateOK(y)
    /\ x.delivered => \/ y.phase \in {"done", "failed"}
                      \/ y.phase = x.phase /\ y.opened = x.opened
    /\ x.phase = "wait" /\ x.opened /\ y.phase = "first" => y.cred = x.cred

\* A request that is over has no output left and remembers nothing.
LEMMA OverFollows ==
    ASSUME NEW x, NEW phase \in {"done", "failed"}
    PROVE  Follows(x, Over(phase))
<1>1. Over(phase).phase = phase /\ ~Over(phase).delivered /\ ~Over(phase).opened
  BY DEF Over, NewRequest
<1> QED
  BY <1>1 DEF Follows, GateOK

\* route() of a request that delivered nothing: it picks what the request prefers.
LEMMA RouteFollows ==
    ASSUME NEW q \in Requests, NEW x \in RequestState, ~x.delivered, NEW cs, Route(q, x, cs)
    PROVE  \E y : /\ req' = [req EXCEPT ![q] = y]
                  /\ GateOK(y)
                  /\ y.phase = "first" /\ x.prefer # NoCred => y.cred = x.prefer
<1>1. CASE Keep(q, Over("failed"), cs)
  <2>1. req' = [req EXCEPT ![q] = Over("failed")] /\ Over("failed").phase = "failed"
    BY <1>1 DEF Keep, Over, NewRequest
  <2> QED
    BY <2>1, OverFollows DEF Follows
<1>2. ASSUME NEW c, Operate(q, x, cs, c, "first"), x.prefer # NoCred => c = x.prefer
      PROVE  \E y : /\ req' = [req EXCEPT ![q] = y]
                    /\ GateOK(y)
                    /\ y.phase = "first" /\ x.prefer # NoCred => y.cred = x.prefer
  <2> DEFINE y == [x EXCEPT !.phase = "first", !.cred = c, !.stale = FALSE, !.opened = FALSE]
  <2>1. req' = [req EXCEPT ![q] = y]
    BY <1>2 DEF Operate, Keep
  <2>2. y.cred = c /\ ~y.opened /\ ~y.delivered
    BY DEF RequestState
  <2> QED
    BY <1>2, <2>1, <2>2 DEF GateOK
<1> QED
  BY <1>1, <1>2 DEF Route

\* A run of its own, for a request that delivered nothing.
LEMMA RunAgainFollows ==
    ASSUME NEW q \in Requests, NEW x \in RequestState, ~x.delivered, x.phase # "wait",
           NEW cs, NEW stage \in {"first", "recovery", "correction"}, RunAgain(q, x, cs, stage)
    PROVE  \E y : req' = [req EXCEPT ![q] = y] /\ Follows(x, y)
<1> DEFINE z == [x EXCEPT !.stage = stage, !.server = 0, !.transport = 0, !.prefer = NoCred]
<1>1. z \in RequestState /\ ~z.delivered /\ Route(q, z, cs)
  <2>1. 0 \in 0..ServerRetries /\ 0 \in 0..TransportRetries
    BY RoutingAssumption
  <2>2. z \in RequestState /\ z.delivered = x.delivered
    BY <2>1 DEF RequestState
  <2> QED
    BY <2>2 DEF RunAgain
<1> HIDE DEF z
<1>2. PICK y : req' = [req EXCEPT ![q] = y] /\ GateOK(y)
  BY <1>1, RouteFollows
<1> QED
  BY <1>2 DEF Follows

\* The catch of the loops: behind output every error is final.
LEMMA CatchFollows ==
    ASSUME NEW q \in Requests, NEW x \in RequestState, GateOK(x), x.phase # "wait",
           NEW cs, NEW e \in Errors, Catch(q, x, cs, e)
    PROVE  \E y : req' = [req EXCEPT ![q] = y] /\ Follows(x, y)
<1>1. CASE Keep(q, Over("failed"), cs)
  BY <1>1, OverFollows DEF Keep
<1>2. CASE ~x.delivered /\ RunAgain(q, x, cs, "recovery")
  BY <1>2, RunAgainFollows
<1>3. ASSUME ~x.delivered, NEW y, Keep(q, y, cs), y.phase = "wait", y.opened = x.opened,
             y.cred = x.cred, y.prefer = x.prefer, y.delivered = x.delivered
      PROVE  \E w : req' = [req EXCEPT ![q] = w] /\ Follows(x, w)
  <2>1. Follows(x, y)
    BY <1>3 DEF Follows, GateOK
  <2> QED
    BY <1>3, <2>1 DEF Keep
<1>4. CASE ~x.delivered /\ Keep(q, [x EXCEPT !.phase = "wait", !.server = @ + 1], cs)
  BY <1>3, <1>4 DEF RequestState
<1>5. CASE ~x.delivered /\ Keep(q, [x EXCEPT !.phase = "wait", !.transport = @ + 1], cs)
  BY <1>3, <1>5 DEF RequestState
<1> QED
  BY <1>1, <1>2, <1>4, <1>5 DEF Catch

\* A step of a request, whatever it is.
LEMMA RequestFollows ==
    ASSUME GateInv, NEW q \in Requests, Request(q)
    PROVE  \E y : req' = [req EXCEPT ![q] = y] /\ Follows(req[q], y)
<1> DEFINE x == req[q]
           Goal == \E y : req' = [req EXCEPT ![q] = y] /\ Follows(x, y)
<1>1. x \in RequestState /\ GateOK(x)
      /\ (x.phase \in {"resumed", "first", "second", "wait"} => x.cred \in Creds)
  BY DEF GateInv, IInv, TypeOK, RequestOK
<1>2. ASSUME NEW phase \in {"done", "failed"}, NEW cs, Keep(q, Over(phase), cs) PROVE Goal
  BY <1>2, OverFollows DEF Keep
<1>3. ASSUME NEW model \in {"fable", "other"}, Begin(q, model) PROVE Goal
  <2> DEFINE z == [x EXCEPT !.model = model]
  <2>1. z \in RequestState /\ ~z.delivered /\ ~x.delivered /\ x.phase = "idle"
    BY <1>1, <1>3 DEF RequestState, GateOK, Begin
  <2>2. PICK y : req' = [req EXCEPT ![q] = y] /\ GateOK(y)
    BY <1>3, <2>1, RouteFollows DEF Begin
  <2> QED
    BY <2>1, <2>2 DEF Follows
<1>4. ASSUME NEW c \in Creds, BeginResumed(q, c) PROVE Goal
  <2> DEFINE y == [x EXCEPT !.phase = "resumed", !.cred = c, !.opened = TRUE, !.prefer = c]
  <2>1. x.phase = "idle" /\ ~x.delivered /\ req' = [req EXCEPT ![q] = y]
    BY <1>1, <1>4 DEF BeginResumed, Keep, GateOK
  <2>2. y.cred = c /\ y.prefer = c /\ ~y.delivered
    BY <1>1, <2>1 DEF RequestState
  <2> QED
    BY <2>1, <2>2 DEF Follows, GateOK
<1>5. CASE TokenReady(q)
  <2> DEFINE y == [x EXCEPT !.opened = TRUE, !.prefer = x.cred]
  <2>1. /\ x.phase \in {"first", "second"} /\ ~x.opened /\ ~x.delivered
        /\ req' = [req EXCEPT ![q] = y]
    BY <1>1, <1>5 DEF TokenReady, Keep, GateOK
  <2>2. y.cred = x.cred /\ y.prefer = x.cred /\ y.delivered = x.delivered
    BY <1>1 DEF RequestState
  <2> QED
    BY <1>1, <2>1, <2>2 DEF Follows, GateOK
<1>6. CASE Emit(q)
  <2> DEFINE y == [x EXCEPT !.delivered = TRUE]
  <2>1. /\ x.phase \in {"resumed", "first", "second"} /\ x.opened /\ ~x.delivered
        /\ req' = [req EXCEPT ![q] = y]
    BY <1>6 DEF Emit, Keep
  <2>2. /\ y.phase = x.phase /\ y.opened = x.opened
        /\ y.cred = x.cred /\ y.prefer = x.prefer
    BY <1>1 DEF RequestState
  <2> QED
    BY <1>1, <2>1, <2>2 DEF Follows, GateOK
<1>7. ASSUME NEW e \in Errors, FailResumed(q, e) \/ FailFirst(q, e) \/ FailSecond(q, e)
      PROVE  Goal
  <2>1. x.phase \in {"resumed", "first", "second"}
    BY <1>7 DEF FailResumed, FailFirst, FailSecond
  <2>2. ASSUME NEW cs, Catch(q, x, cs, e) PROVE Goal
    BY <1>1, <2>1, <2>2, CatchFollows
  <2>3. ASSUME ~x.delivered, NEW cs, NEW c,
               Operate(q, [x EXCEPT !.failovers = IF @ = 2 THEN 2 ELSE @ + 1], cs, c, "second")
        PROVE  Goal
    <3> DEFINE n == IF x.failovers = 2 THEN 2 ELSE x.failovers + 1
               z == [x EXCEPT !.failovers = n]
               y == [z EXCEPT !.phase = "second", !.cred = c, !.stale = FALSE, !.opened = FALSE]
    <3>1. req' = [req EXCEPT ![q] = y]
      BY <2>3 DEF Operate, Keep
    <3>2. y.phase = "second" /\ ~y.opened /\ ~y.delivered
      <4> HIDE DEF n
      <4> QED
        BY <1>1, <2>3 DEF RequestState
    <3> HIDE DEF y
    <3> QED
      BY <2>3, <3>1, <3>2 DEF Follows, GateOK
  <2>4. CASE FailFirst(q, e)
    <3> DEFINE counted == e.reason \in Counted(failoverOn)
               cs == Released(IF counted THEN Rested(creds, x) ELSE creds, x.cred)
               next == IF counted /\ ~x.delivered THEN Candidates(cs, x, {x.cred}) ELSE {}
    <3>1. \/ Catch(q, x, cs, e)
          \/ \E c \in next :
               Operate(q, [x EXCEPT !.failovers = IF @ = 2 THEN 2 ELSE @ + 1], cs, c, "second")
      BY <2>4 DEF FailFirst
    <3>2. next # {} => ~x.delivered
      OBVIOUS
    <3> HIDE DEF next, cs, Goal
    <3> QED
      BY <2>2, <2>3, <3>1, <3>2
  <2> QED
    BY <1>7, <2>2, <2>4 DEF FailResumed, FailSecond
<1>8. CASE Complete(q) \/ RefuseOutcome(q) \/ Abort(q)
  BY <1>2, <1>8 DEF Complete, RefuseOutcome, Abort
<1>9. CASE RefuseArguments(q)
  <2>1. x.phase # "wait"
    BY <1>9 DEF RefuseArguments
  <2> QED
    BY <1>1, <1>2, <1>9, <2>1, RunAgainFollows DEF RefuseArguments
<1>10. CASE WaitOver(q)
  <2>1. ~x.delivered /\ Route(q, x, creds)
    BY <1>1, <1>10 DEF WaitOver, GateOK
  <2>2. PICK y : /\ req' = [req EXCEPT ![q] = y]
                 /\ GateOK(y)
                 /\ y.phase = "first" /\ x.prefer # NoCred => y.cred = x.prefer
    BY <1>1, <2>1, RouteFollows
  <2>3. x.opened => x.prefer = x.cred /\ x.prefer # NoCred
    BY <1>1, RoutingAssumption DEF GateOK
  <2> QED
    BY <2>1, <2>2, <2>3 DEF Follows
<1> QED
  BY <1>3, <1>4, <1>5, <1>6, <1>7, <1>8, <1>9, <1>10 DEF Request, Outcome

\* A step of the system, as every request sees it.
LEMMA NextFollows ==
    ASSUME GateInv, Next
    PROVE  \A q \in Requests : Follows(req[q], req'[q])
<1>1. /\ req \in [Requests -> RequestState]
      /\ \A q \in Requests : GateOK(req[q])
  BY DEF GateInv, IInv, TypeOK
<1>2. \A q \in Requests : Follows(req[q], req[q])
  BY <1>1 DEF Follows
<1>3. ASSUME NEW p \in Requests, Request(p)
      PROVE  \A q \in Requests : Follows(req[q], req'[q])
  BY <1>1, <1>2, <1>3, RequestFollows
<1>4. ASSUME NEW c \in Creds, NEW state, Replace(c, state)
      PROVE  \A q \in Requests : Follows(req[q], req'[q])
  <2> SUFFICES ASSUME NEW q \in Requests PROVE Follows(req[q], req'[q])
    OBVIOUS
  <2> DEFINE b == req[q].stale \/ c = req[q].cred
             y == [req[q] EXCEPT !.stale = b]
  <2>1. req'[q] = y
    BY <1>4 DEF Replace
  <2>2. /\ y.phase = req[q].phase /\ y.opened = req[q].opened
        /\ y.delivered = req[q].delivered
        /\ y.cred = req[q].cred /\ y.prefer = req[q].prefer
    <3> HIDE DEF b
    <3> QED
      BY <1>1 DEF RequestState
  <2> HIDE DEF y
  <2> QED
    BY <1>1, <2>1, <2>2 DEF Follows, GateOK
<1>5. ASSUME NEW c \in Creds, Operator(c)
      PROVE  \A q \in Requests : Follows(req[q], req'[q])
  BY <1>4, <1>5 DEF Operator, ChangeKey, Disable, Enable, Remove, Add
<1>6. CASE UpdatePolicy \/ Tick
  BY <1>2, <1>6 DEF UpdatePolicy, Tick
<1> QED
  BY <1>3, <1>5, <1>6 DEF Next

LEMMA GateInvariant == Spec => []GateInv
<1>1. Init => GateInv
  BY InitGood DEF Init, GateInv, GateOK, NewRequest
<1>2. GateInv /\ [Next]_vars => GateInv'
  <2> SUFFICES ASSUME GateInv, [Next]_vars PROVE GateInv'
    OBVIOUS
  <2>1. IInv'
    BY NextGood DEF GateInv
  <2>2. CASE Next
    BY <2>1, <2>2, NextFollows DEF GateInv, Follows
  <2>3. CASE UNCHANGED vars
    BY <2>1, <2>3 DEF vars, GateInv, GateOK
  <2> QED
    BY <2>2, <2>3
<1> QED
  BY <1>1, <1>2, PTL DEF Spec

\* Whatever fails, is refused, retried or replaced, and whatever the budgets: behind the
\* first output of a request nothing of it runs again.
THEOREM OutputIsNotReplayed == Spec => NoReplayAfterOutput
<1> DEFINE A == \A q \in Requests : req[q].delivered =>
                   \/ req'[q].phase \in {"done", "failed"}
                   \/ req'[q].phase = req[q].phase /\ req'[q].opened = req[q].opened
<1>1. GateInv /\ [Next]_vars => [A]_vars
  BY NextFollows DEF Follows
<1> QED
  BY <1>1, GateInvariant, PTL DEF Spec, NoReplayAfterOutput

\* A retry of a Run that failed goes to the credential the Run was opened with, for any
\* credentials, replacements and policies.
THEOREM RetriesKeepTheirCredential == Spec => RetryKeepsCredential
<1> DEFINE A == \A q \in Requests :
                   req[q].phase = "wait" /\ req[q].opened /\ req'[q].phase = "first" =>
                       req'[q].cred = req[q].cred
<1>1. GateInv /\ [Next]_vars => [A]_vars
  BY NextFollows DEF Follows
<1> QED
  BY <1>1, GateInvariant, PTL DEF Spec, RetryKeepsCredential
=============================================================================
