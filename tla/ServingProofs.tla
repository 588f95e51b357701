---------------------------- MODULE ServingProofs -----------------------------
(***************************************************************************)
(* Theorems about Serving, for every number of calls, every set of keys    *)
(* and models and every limit.                                             *)
(*                                                                         *)
(* The invariant has two parts.  Shape is local: what a call holds, sent   *)
(* and owes is determined by where it is.  Tally is global: each counter of*)
(* the limiter and of the metrics is the size of a set of calls, so a step *)
(* of one call changes each by at most one.                                *)
(***************************************************************************)
EXTENDS Serving, Trial, FiniteSetTheorems, TLAPS

\* Between its admission and its answer a call is being served.
Served ==
    {"completing", "opening", "consume", "pull", "ending", "failing", "returning"} \cup Frames

\* What a stream has sent when it is at pc.
SentAt(pc) ==
    CASE pc \in {"consume", "pull", "data", "finish", "error"} -> {"role", "data"}
      [] pc = "done" -> {"role", "data", "finish"}
      [] pc = "ending" -> {"role", "data", "finish", "done"}
      [] pc = "failing" -> {"role", "data", "error"}
      [] pc \in {"returning", "answered"} -> Frames
      [] OTHER -> {}

\* A call has its slot and its listeners while it is served, and its outcome after.
Settled(s) ==
    /\ s.held <=> s.pc \in Served
    /\ s.watched <=> s.held
    /\ s.running => s.held
    /\ s.held => s.outcome = "none"
    /\ s.pc \in {"idle", "listing"} => s.outcome = "none"
    /\ s.aborted => s.gone /\ s.pc \in Served \cup {"answered"}
    /\ s.aborted /\ s.pc = "answered" => s.outcome = "abort"

\* A stream owes its client an end until [DONE] or the error frame is sent.
Told(s) ==
    /\ s.sent \subseteq SentAt(s.pc) /\ ~({"done", "error"} \subseteq s.sent)
    /\ s.pc \in {"finish", "done", "ending"} \/ "done" \in s.sent => s.completed
    /\ s.pc = "ending" /\ ~s.gone => "done" \in s.sent
    /\ s.pc = "failing" /\ ~s.gone => "error" \in s.sent
    /\ s.ended => s.pc \in {"returning", "answered"}
    /\ s.pc = "returning" /\ ~s.gone =>
          s.ended /\ (s.terminal = "success" <=> "done" \in s.sent)
    /\ s.pc = "answered" /\ ~s.gone /\ "role" \in s.sent =>
          s.ended /\ (s.outcome = "success" <=> "done" \in s.sent)

Shape(s) == Settled(s) /\ Told(s)

Under(k) == {q \in Holders : call[q].key = k}
As(l) == {q \in Holders : call[q].label = l}
Over(l, o) == {q \in Calls : call[q].label = l /\ call[q].outcome = o}
Counted(l) == {q \in Calls : call[q].label = l /\ (call[q].held \/ call[q].outcome # "none")}

\* Each counter is the number of calls it stands for.
Tally ==
    /\ globalInFlight = Cardinality(Holders) /\ globalInFlight <= GlobalLimit
    /\ \A k \in ApiClients :
          perKeyInFlight[k] = Cardinality(Under(k)) /\ perKeyInFlight[k] <= KeyLimit
    /\ \A l \in Labels :
          /\ series[l]["in_flight"] = Cardinality(As(l))
          /\ series[l]["requests"] = Cardinality(Counted(l))
          /\ \A o \in Outcomes : series[l][o] = Cardinality(Over(l, o))
          /\ series[l]["requests"] = series[l]["in_flight"] + series[l]["success"]
                + series[l]["error"] + series[l]["abort"] + series[l]["rate_limited"]

Typed ==
    /\ call \in [Calls -> CallState]
    /\ globalInFlight \in Nat
    /\ perKeyInFlight \in [ApiClients -> Nat]
    /\ series \in [Labels -> [Counters -> Nat]]
    /\ tracked \subseteq Models /\ IsFiniteSet(tracked) /\ Cardinality(tracked) <= ModelLimit

IInv == Typed /\ (\A q \in Calls : Shape(call[q])) /\ Tally
-----------------------------------------------------------------------------
(* Counting calls                                                          *)

\* A set of calls that one call joins or leaves grows or shrinks by one.
LEMMA Sizes ==
    ASSUME NEW S \in SUBSET Calls
    PROVE  /\ IsFiniteSet(S) /\ Cardinality(S) \in Nat /\ Cardinality(S) <= Cardinality(Calls)
           /\ Cardinality(Calls) \in Nat
           /\ \A q \in Calls \ S : Cardinality(S \cup {q}) = Cardinality(S) + 1
           /\ \A q \in S : Cardinality(S \ {q}) = Cardinality(S) - 1
<1>1. IsFiniteSet(Calls)
  BY ServingAssumption
<1>2. IsFiniteSet(S) /\ Cardinality(S) <= Cardinality(Calls)
  BY <1>1, FS_Subset
<1>3. QED
  BY <1>1, <1>2, FS_CardinalityType, FS_AddElement, FS_RemoveElement

\* A step that changes neither slot, key, label nor outcome of a call counts nothing.
LEMMA GoesKeeps ==
    ASSUME IInv, NEW q \in Calls, NEW next \in CallState, Goes(q, next), Shape(next),
           next.held = call[q].held, next.key = call[q].key,
           next.label = call[q].label, next.outcome = call[q].outcome
    PROVE  IInv'
<1>1. /\ call \in [Calls -> CallState] /\ call' \in [Calls -> CallState]
      /\ call'[q] = next /\ \A r \in Calls \ {q} : call'[r] = call[r]
      /\ UNCHANGED <<globalInFlight, perKeyInFlight, tracked, series>>
  BY DEF IInv, Typed, Goes
<1>2. \A r \in Calls : /\ call'[r].held = call[r].held /\ call'[r].key = call[r].key
                       /\ call'[r].label = call[r].label
                       /\ call'[r].outcome = call[r].outcome
  BY <1>1
<1>3. /\ Holders' = Holders
      /\ \A k \in ApiClients : Under(k)' = Under(k)
      /\ \A l \in Labels : As(l)' = As(l) /\ Counted(l)' = Counted(l)
      /\ \A l \in Labels, o \in Outcomes : Over(l, o)' = Over(l, o)
  BY <1>2 DEF Holders, Under, As, Counted, Over
<1>4. Tally'
  BY <1>1, <1>3 DEF IInv, Tally
<1>5. Typed' /\ \A r \in Calls : Shape(call'[r])
  BY <1>1 DEF IInv, Typed
<1>6. QED
  BY <1>4, <1>5 DEF IInv

-----------------------------------------------------------------------------
(* Admission and the end                                                   *)

\* start: the label has one request more, in flight.
LEMMA StartTyped ==
    ASSUME Typed, NEW l \in Labels
    PROVE  /\ MetricsStart(l) \in [Labels -> [Counters -> Nat]]
           /\ MetricsStart(l)[l]["in_flight"] = series[l]["in_flight"] + 1
           /\ MetricsStart(l)[l]["requests"] = series[l]["requests"] + 1
           /\ \A n \in Outcomes : MetricsStart(l)[l][n] = series[l][n]
           /\ \A m \in Labels \ {l} : MetricsStart(l)[m] = series[m]
<1> DEFINE c == [series[l] EXCEPT !["requests"] = @ + 1, !["in_flight"] = @ + 1]
<1>1. /\ series \in [Labels -> [Counters -> Nat]] /\ series[l] \in [Counters -> Nat]
      /\ series[l]["in_flight"] \in Nat /\ series[l]["requests"] \in Nat
  BY DEF Typed, Counters
<1>2. /\ c \in [Counters -> Nat]
      /\ c["in_flight"] = series[l]["in_flight"] + 1
      /\ c["requests"] = series[l]["requests"] + 1
      /\ \A n \in Outcomes : c[n] = series[l][n]
  BY <1>1 DEF Counters, Outcomes
<1>3. MetricsStart(l) = [series EXCEPT ![l] = c]
  BY DEF MetricsStart
<1> HIDE DEF c
<1>4. QED
  BY <1>1, <1>2, <1>3

\* finish: the label has one outcome more and one call less in flight.
LEMMA FinishedTyped ==
    ASSUME NEW s \in [Labels -> [Counters -> Nat]], NEW l \in Labels, NEW o \in Outcomes,
           s[l]["in_flight"] > 0
    PROVE  /\ Finished(s, l, o) \in [Labels -> [Counters -> Nat]]
           /\ Finished(s, l, o)[l]["in_flight"] = s[l]["in_flight"] - 1
           /\ Finished(s, l, o)[l]["requests"] = s[l]["requests"]
           /\ Finished(s, l, o)[l][o] = s[l][o] + 1
           /\ \A n \in Outcomes \ {o} : Finished(s, l, o)[l][n] = s[l][n]
           /\ \A m \in Labels \ {l} : Finished(s, l, o)[m] = s[m]
<1> DEFINE c == [s[l] EXCEPT !["in_flight"] = @ - 1, ![o] = @ + 1]
<1>1. s[l] \in [Counters -> Nat] /\ s[l]["in_flight"] \in Nat
  BY DEF Counters
<1>2. /\ c \in [Counters -> Nat]
      /\ c["in_flight"] = s[l]["in_flight"] - 1 /\ c["requests"] = s[l]["requests"]
      /\ c[o] = s[l][o] + 1 /\ \A n \in Outcomes \ {o} : c[n] = s[l][n]
  BY <1>1 DEF Counters, Outcomes
<1>3. Finished(s, l, o) = [s EXCEPT ![l] = c]
  BY DEF Finished
<1> HIDE DEF c
<1>4. QED
  BY <1>2, <1>3
\* A call that is admitted joins the holders, under its key and its label.
LEMMA AdmittedKeeps ==
    ASSUME IInv, NEW q \in Calls, NEW l \in Labels, NEW next \in CallState, Shape(next),
           ~call[q].held, call[q].outcome = "none",
           next.held, next.key = call[q].key, next.label = l, next.outcome = "none",
           HasRoom(next.key),
           call' = [call EXCEPT ![q] = next],
           globalInFlight' = globalInFlight + 1,
           perKeyInFlight' = [perKeyInFlight EXCEPT ![next.key] = @ + 1],
           series' = MetricsStart(l),
           tracked' \subseteq Models, IsFiniteSet(tracked'), Cardinality(tracked') <= ModelLimit
    PROVE  IInv'
<1>1. /\ call \in [Calls -> CallState] /\ call' \in [Calls -> CallState]
      /\ call'[q] = next /\ \A r \in Calls \ {q} : call'[r] = call[r]
      /\ next.key \in ApiClients
  BY DEF IInv, Typed, CallState
<1>2. /\ Holders' = Holders \cup {q} /\ q \in Calls \ Holders
      /\ \A k \in ApiClients : Under(k)' =
            IF k = next.key THEN Under(k) \cup {q} ELSE Under(k)
      /\ \A m \in Labels : As(m)' = IF m = l THEN As(m) \cup {q} ELSE As(m)
      /\ \A m \in Labels : Counted(m)' = IF m = l THEN Counted(m) \cup {q} ELSE Counted(m)
      /\ \A m \in Labels, o \in Outcomes : Over(m, o)' = Over(m, o)
  BY <1>1 DEF Holders, Under, As, Counted, Over, Outcomes
<1>3. /\ Holders \in SUBSET Calls
      /\ \A k \in ApiClients : Under(k) \in SUBSET Calls /\ q \in Calls \ Under(k)
      /\ \A m \in Labels : /\ As(m) \in SUBSET Calls /\ q \in Calls \ As(m)
                           /\ Counted(m) \in SUBSET Calls /\ q \in Calls \ Counted(m)
  BY DEF Holders, Under, As, Counted
<1>4. /\ Cardinality(Holders') = Cardinality(Holders) + 1
      /\ \A k \in ApiClients : Cardinality(Under(k)') =
            IF k = next.key THEN Cardinality(Under(k)) + 1 ELSE Cardinality(Under(k))
      /\ \A m \in Labels : Cardinality(As(m)') =
            IF m = l THEN Cardinality(As(m)) + 1 ELSE Cardinality(As(m))
      /\ \A m \in Labels : Cardinality(Counted(m)') =
            IF m = l THEN Cardinality(Counted(m)) + 1 ELSE Cardinality(Counted(m))
  BY <1>2, <1>3, Sizes
<1>5. /\ series' \in [Labels -> [Counters -> Nat]]
      /\ series'[l]["in_flight"] = series[l]["in_flight"] + 1
      /\ series'[l]["requests"] = series[l]["requests"] + 1
      /\ \A n \in Outcomes : series'[l][n] = series[l][n]
      /\ \A m \in Labels \ {l} : series'[m] = series[m]
  BY StartTyped DEF IInv
<1>6. Typed'
  BY <1>1, <1>5 DEF IInv, Typed
<1>7. /\ globalInFlight' = Cardinality(Holders') /\ globalInFlight' <= GlobalLimit
      /\ \A k \in ApiClients : /\ perKeyInFlight'[k] = Cardinality(Under(k)')
                               /\ perKeyInFlight'[k] <= KeyLimit
  <2>1. globalInFlight' = Cardinality(Holders')
    BY <1>4 DEF IInv, Tally
  <2>2. globalInFlight + 1 <= GlobalLimit /\ perKeyInFlight[next.key] + 1 <= KeyLimit
    BY <1>1, ServingAssumption DEF HasRoom, IInv, Typed
  <2>3. \A k \in ApiClients : perKeyInFlight'[k] =
            IF k = next.key THEN perKeyInFlight[k] + 1 ELSE perKeyInFlight[k]
    BY <1>1 DEF IInv, Typed
  <2>4. \A k \in ApiClients : /\ perKeyInFlight[k] = Cardinality(Under(k))
                              /\ perKeyInFlight[k] <= KeyLimit
    BY DEF IInv, Tally
  <2>5. QED
    BY <1>4, <2>1, <2>2, <2>3, <2>4
<1>8. ASSUME NEW m \in Labels
      PROVE  /\ series'[m]["in_flight"] = Cardinality(As(m)')
             /\ series'[m]["requests"] = Cardinality(Counted(m)')
             /\ \A o \in Outcomes : series'[m][o] = Cardinality(Over(m, o)')
             /\ series'[m]["requests"] = series'[m]["in_flight"] + series'[m]["success"]
                  + series'[m]["error"] + series'[m]["abort"] + series'[m]["rate_limited"]
  <2>1. /\ series[m]["in_flight"] = Cardinality(As(m))
        /\ series[m]["requests"] = Cardinality(Counted(m))
        /\ \A o \in Outcomes : series[m][o] = Cardinality(Over(m, o))
        /\ series[m]["requests"] = series[m]["in_flight"] + series[m]["success"]
              + series[m]["error"] + series[m]["abort"] + series[m]["rate_limited"]
    BY DEF IInv, Tally
  <2>2. series[m] \in [Counters -> Nat]
    BY DEF IInv, Typed
  <2>3. \A o \in Outcomes : series'[m][o] = Cardinality(Over(m, o)')
    BY <1>2, <1>5, <2>1
  <2>4. /\ series'[m]["in_flight"] = Cardinality(As(m)')
        /\ series'[m]["requests"] = Cardinality(Counted(m)')
    <3>1. CASE m = l
      <4>1. /\ Cardinality(As(m)') = Cardinality(As(m)) + 1
            /\ Cardinality(Counted(m)') = Cardinality(Counted(m)) + 1
        BY <1>4, <3>1
      <4>2. /\ series'[m]["in_flight"] = series[m]["in_flight"] + 1
            /\ series'[m]["requests"] = series[m]["requests"] + 1
        BY <1>5, <3>1
      <4>3. QED
        BY <2>1, <4>1, <4>2
    <3>2. CASE m # l
      <4>1. series'[m] = series[m]
        BY <1>5, <3>2
      <4>2. /\ Cardinality(As(m)') = Cardinality(As(m))
            /\ Cardinality(Counted(m)') = Cardinality(Counted(m))
        BY <1>4, <3>2
      <4>3. QED
        BY <2>1, <4>1, <4>2
    <3>3. QED
      BY <3>1, <3>2
  <2>5. /\ series'[m]["success"] = series[m]["success"]
        /\ series'[m]["error"] = series[m]["error"]
        /\ series'[m]["abort"] = series[m]["abort"]
        /\ series'[m]["rate_limited"] = series[m]["rate_limited"]
    BY <1>5 DEF Outcomes
  <2>6. QED
    BY <1>5, <2>1, <2>2, <2>3, <2>4, <2>5 DEF Counters, Outcomes
<1>9. Tally'
  BY <1>7, <1>8 DEF Tally
<1>10. \A r \in Calls : Shape(call'[r])
  BY <1>1 DEF IInv
<1>11. QED
  BY <1>6, <1>9, <1>10 DEF IInv
\* A call over the limit is counted, and has its outcome at once.
LEMMA LimitedKeeps ==
    ASSUME IInv, NEW q \in Calls, NEW l \in Labels, NEW next \in CallState, Shape(next),
           ~call[q].held, call[q].outcome = "none",
           ~next.held, next.label = l, next.outcome = "rate_limited",
           call' = [call EXCEPT ![q] = next],
           UNCHANGED <<globalInFlight, perKeyInFlight>>,
           series' = Finished(MetricsStart(l), l, "rate_limited"),
           tracked' \subseteq Models, IsFiniteSet(tracked'), Cardinality(tracked') <= ModelLimit
    PROVE  IInv'
<1>1. /\ call \in [Calls -> CallState] /\ call' \in [Calls -> CallState]
      /\ call'[q] = next /\ \A r \in Calls \ {q} : call'[r] = call[r]
  BY DEF IInv, Typed
<1>2. /\ Holders' = Holders
      /\ \A k \in ApiClients : Under(k)' = Under(k)
      /\ \A m \in Labels : As(m)' = As(m)
      /\ \A m \in Labels : Counted(m)' = IF m = l THEN Counted(m) \cup {q} ELSE Counted(m)
      /\ \A m \in Labels, o \in Outcomes : Over(m, o)' =
            IF m = l /\ o = "rate_limited" THEN Over(m, o) \cup {q} ELSE Over(m, o)
  BY <1>1 DEF Holders, Under, As, Counted, Over, Outcomes
<1>3. /\ \A m \in Labels : Counted(m) \in SUBSET Calls /\ q \in Calls \ Counted(m)
      /\ \A m \in Labels, o \in Outcomes :
            Over(m, o) \in SUBSET Calls /\ q \in Calls \ Over(m, o)
  BY DEF Counted, Over, Outcomes
<1>4. /\ \A m \in Labels : Cardinality(Counted(m)') =
            IF m = l THEN Cardinality(Counted(m)) + 1 ELSE Cardinality(Counted(m))
      /\ \A m \in Labels, o \in Outcomes : Cardinality(Over(m, o)') =
            IF m = l /\ o = "rate_limited" THEN Cardinality(Over(m, o)) + 1
            ELSE Cardinality(Over(m, o))
  BY <1>2, <1>3, Sizes
<1> DEFINE started == MetricsStart(l)
<1>5. /\ started \in [Labels -> [Counters -> Nat]]
      /\ started[l]["in_flight"] = series[l]["in_flight"] + 1
      /\ started[l]["requests"] = series[l]["requests"] + 1
      /\ \A n \in Outcomes : started[l][n] = series[l][n]
      /\ \A m \in Labels \ {l} : started[m] = series[m]
  BY StartTyped DEF IInv
<1>6. series[l] \in [Counters -> Nat]
  BY DEF IInv, Typed
<1>7. series' = Finished(started, l, "rate_limited")
  OBVIOUS
<1> HIDE DEF started
<1>8. started[l]["in_flight"] > 0 /\ series[l]["in_flight"] \in Nat
  BY <1>5, <1>6 DEF Counters
<1>9. "rate_limited" \in Outcomes
  BY DEF Outcomes
<1>10. /\ series' \in [Labels -> [Counters -> Nat]]
       /\ series'[l]["in_flight"] = started[l]["in_flight"] - 1
       /\ series'[l]["requests"] = started[l]["requests"]
       /\ series'[l]["rate_limited"] = started[l]["rate_limited"] + 1
       /\ \A n \in Outcomes \ {"rate_limited"} : series'[l][n] = started[l][n]
       /\ \A m \in Labels \ {l} : series'[m] = started[m]
  BY <1>5, <1>7, <1>8, <1>9, FinishedTyped
<1>11. /\ series'[l]["in_flight"] = series[l]["in_flight"]
       /\ series'[l]["requests"] = series[l]["requests"] + 1
       /\ series'[l]["rate_limited"] = series[l]["rate_limited"] + 1
       /\ \A n \in Outcomes \ {"rate_limited"} : series'[l][n] = series[l][n]
       /\ \A m \in Labels \ {l} : series'[m] = series[m]
  BY <1>5, <1>8, <1>9, <1>10
<1>12. Typed'
  BY <1>1, <1>10 DEF IInv, Typed
<1>13. ASSUME NEW m \in Labels
       PROVE  /\ series'[m]["in_flight"] = Cardinality(As(m)')
              /\ series'[m]["requests"] = Cardinality(Counted(m)')
              /\ \A o \in Outcomes : series'[m][o] = Cardinality(Over(m, o)')
              /\ series'[m]["requests"] = series'[m]["in_flight"] + series'[m]["success"]
                   + series'[m]["error"] + series'[m]["abort"] + series'[m]["rate_limited"]
  <2>1. /\ series[m]["in_flight"] = Cardinality(As(m))
        /\ series[m]["requests"] = Cardinality(Counted(m))
        /\ \A o \in Outcomes : series[m][o] = Cardinality(Over(m, o))
        /\ series[m]["requests"] = series[m]["in_flight"] + series[m]["success"]
              + series[m]["error"] + series[m]["abort"] + series[m]["rate_limited"]
    BY DEF IInv, Tally
  <2>2. CASE m # l
    <3>1. series'[m] = series[m]
      BY <1>11, <2>2
    <3>2. /\ Cardinality(As(m)') = Cardinality(As(m))
          /\ Cardinality(Counted(m)') = Cardinality(Counted(m))
          /\ \A o \in Outcomes : Cardinality(Over(m, o)') = Cardinality(Over(m, o))
      BY <1>2, <1>4, <2>2
    <3>3. QED
      BY <2>1, <3>1, <3>2
  <2>3. CASE m = l
    <3>1. \A o \in Outcomes : series'[m][o] = Cardinality(Over(m, o)')
      BY <1>4, <1>9, <1>11, <2>1, <2>3
    <3>2. /\ series'[m]["in_flight"] = Cardinality(As(m)')
          /\ series'[m]["requests"] = Cardinality(Counted(m)')
      BY <1>2, <1>4, <1>11, <2>1, <2>3
    <3>3. /\ series'[m]["success"] = series[m]["success"]
          /\ series'[m]["error"] = series[m]["error"]
          /\ series'[m]["abort"] = series[m]["abort"]
      BY <1>11, <2>3 DEF Outcomes
    <3>4. series[m] \in [Counters -> Nat]
      BY <1>6, <2>3
    <3>5. series'[m]["requests"] = series'[m]["in_flight"] + series'[m]["success"]
             + series'[m]["error"] + series'[m]["abort"] + series'[m]["rate_limited"]
      BY <1>11, <2>1, <2>3, <3>3, <3>4 DEF Counters, Outcomes
    <3>6. QED
      BY <3>1, <3>2, <3>5
  <2>4. QED
    BY <2>2, <2>3
<1>14. Tally'
  <2>1. /\ globalInFlight' = Cardinality(Holders') /\ globalInFlight' <= GlobalLimit
        /\ \A k \in ApiClients : /\ perKeyInFlight'[k] = Cardinality(Under(k)')
                                 /\ perKeyInFlight'[k] <= KeyLimit
    BY <1>2 DEF IInv, Tally
  <2>2. QED
    BY <1>13, <2>1 DEF Tally
<1>15. \A r \in Calls : Shape(call'[r])
  BY <1>1 DEF IInv
<1>16. QED
  BY <1>12, <1>14, <1>15 DEF IInv

\* What a call settles when it ends: its slot, and one outcome of its label.
LEMMA ConcludedKeeps ==
    ASSUME IInv, NEW q \in Calls, NEW o \in Outcomes, NEW next \in CallState, Shape(next),
           call[q].held, call[q].outcome = "none",
           ~next.held, next.key = call[q].key, next.label = call[q].label, next.outcome = o,
           call' = [call EXCEPT ![q] = next],
           globalInFlight' = globalInFlight - 1,
           perKeyInFlight' = [perKeyInFlight EXCEPT ![next.key] = @ - 1],
           series' = Finished(series, next.label, o),
           UNCHANGED tracked
    PROVE  IInv'
<1> DEFINE l == next.label
<1>1. /\ call \in [Calls -> CallState] /\ call' \in [Calls -> CallState]
      /\ call'[q] = next /\ \A r \in Calls \ {q} : call'[r] = call[r]
      /\ next.key \in ApiClients /\ l \in Labels
  BY DEF IInv, Typed, CallState
<1>2. /\ Holders' = Holders \ {q}
      /\ \A k \in ApiClients : Under(k)' =
            IF k = next.key THEN Under(k) \ {q} ELSE Under(k)
      /\ \A m \in Labels : As(m)' = IF m = l THEN As(m) \ {q} ELSE As(m)
      /\ \A m \in Labels : Counted(m)' = Counted(m)
      /\ \A m \in Labels, n \in Outcomes : Over(m, n)' =
            IF m = l /\ n = o THEN Over(m, n) \cup {q} ELSE Over(m, n)
  BY <1>1 DEF Holders, Under, As, Counted, Over, Outcomes
<1>3. /\ Holders \in SUBSET Calls /\ q \in Holders
      /\ \A k \in ApiClients : Under(k) \in SUBSET Calls /\ (k = next.key => q \in Under(k))
      /\ \A m \in Labels : As(m) \in SUBSET Calls /\ (m = l => q \in As(m))
      /\ \A m \in Labels, n \in Outcomes :
            Over(m, n) \in SUBSET Calls /\ q \in Calls \ Over(m, n)
  BY DEF Holders, Under, As, Over, Outcomes
<1> HIDE DEF l
<1>4. /\ Cardinality(Holders') = Cardinality(Holders) - 1
      /\ \A k \in ApiClients : Cardinality(Under(k)') =
            IF k = next.key THEN Cardinality(Under(k)) - 1 ELSE Cardinality(Under(k))
      /\ \A m \in Labels : Cardinality(As(m)') =
            IF m = l THEN Cardinality(As(m)) - 1 ELSE Cardinality(As(m))
      /\ \A m \in Labels, n \in Outcomes : Cardinality(Over(m, n)') =
            IF m = l /\ n = o THEN Cardinality(Over(m, n)) + 1 ELSE Cardinality(Over(m, n))
  BY <1>2, <1>3, Sizes
<1>5. /\ Cardinality(Holders) \in Nat /\ Cardinality(Holders) - 1 \in Nat
      /\ Cardinality(Under(next.key)) - 1 \in Nat
      /\ Cardinality(As(l)) \in Nat /\ Cardinality(As(l)) - 1 \in Nat
  <2>1. /\ Holders \ {q} \in SUBSET Calls /\ Under(next.key) \ {q} \in SUBSET Calls
        /\ As(l) \ {q} \in SUBSET Calls
    BY <1>1, <1>3
  <2>2. /\ Cardinality(Holders \ {q}) \in Nat /\ Cardinality(Under(next.key) \ {q}) \in Nat
        /\ Cardinality(As(l) \ {q}) \in Nat /\ Cardinality(Holders) \in Nat
        /\ Cardinality(As(l)) \in Nat
    BY <1>1, <1>3, <2>1, Sizes
  <2>3. /\ Cardinality(Holders \ {q}) = Cardinality(Holders) - 1
        /\ Cardinality(Under(next.key) \ {q}) = Cardinality(Under(next.key)) - 1
        /\ Cardinality(As(l) \ {q}) = Cardinality(As(l)) - 1
    BY <1>1, <1>3, Sizes
  <2>4. QED
    BY <2>2, <2>3
<1>6. series \in [Labels -> [Counters -> Nat]] /\ series[l]["in_flight"] > 0
  BY <1>1, <1>5 DEF IInv, Typed, Tally
<1>7. series' = Finished(series, l, o)
  BY DEF l
<1>8. /\ series' \in [Labels -> [Counters -> Nat]]
      /\ series'[l]["in_flight"] = series[l]["in_flight"] - 1
      /\ series'[l]["requests"] = series[l]["requests"]
      /\ series'[l][o] = series[l][o] + 1
      /\ \A n \in Outcomes \ {o} : series'[l][n] = series[l][n]
      /\ \A m \in Labels \ {l} : series'[m] = series[m]
  BY <1>1, <1>6, <1>7, FinishedTyped
<1>9. /\ globalInFlight' = Cardinality(Holders') /\ globalInFlight' \in Nat
      /\ globalInFlight' <= GlobalLimit
  BY <1>4, <1>5, ServingAssumption DEF IInv, Tally, Typed
<1>10. /\ perKeyInFlight' \in [ApiClients -> Nat]
       /\ \A k \in ApiClients : /\ perKeyInFlight'[k] = Cardinality(Under(k)')
                                /\ perKeyInFlight'[k] <= KeyLimit
  <2>1. \A k \in ApiClients : perKeyInFlight[k] = Cardinality(Under(k))
                              /\ perKeyInFlight[k] <= KeyLimit /\ perKeyInFlight[k] \in Nat
    BY DEF IInv, Tally, Typed
  <2>2. \A k \in ApiClients : perKeyInFlight'[k] =
            IF k = next.key THEN perKeyInFlight[k] - 1 ELSE perKeyInFlight[k]
    BY <1>1 DEF IInv, Typed
  <2>3. perKeyInFlight' \in [ApiClients -> Nat]
    BY <1>1, <1>5, <2>1 DEF IInv, Typed
  <2>4. QED
    BY <1>1, <1>4, <2>1, <2>2, <2>3, ServingAssumption
<1>11. Typed'
  BY <1>1, <1>8, <1>9, <1>10 DEF IInv, Typed
<1>12. ASSUME NEW m \in Labels
       PROVE  /\ series'[m]["in_flight"] = Cardinality(As(m)')
              /\ series'[m]["requests"] = Cardinality(Counted(m)')
              /\ \A n \in Outcomes : series'[m][n] = Cardinality(Over(m, n)')
              /\ series'[m]["requests"] = series'[m]["in_flight"] + series'[m]["success"]
                   + series'[m]["error"] + series'[m]["abort"] + series'[m]["rate_limited"]
  <2>1. /\ series[m]["in_flight"] = Cardinality(As(m))
        /\ series[m]["requests"] = Cardinality(Counted(m))
        /\ \A n \in Outcomes : series[m][n] = Cardinality(Over(m, n))
        /\ series[m]["requests"] = series[m]["in_flight"] + series[m]["success"]
              + series[m]["error"] + series[m]["abort"] + series[m]["rate_limited"]
    BY DEF IInv, Tally
  <2>2. CASE m # l
    <3>1. series'[m] = series[m]
      BY <1>8, <2>2
    <3>2. /\ Cardinality(As(m)') = Cardinality(As(m))
          /\ Cardinality(Counted(m)') = Cardinality(Counted(m))
          /\ \A n \in Outcomes : Cardinality(Over(m, n)') = Cardinality(Over(m, n))
      BY <1>2, <1>4, <2>2
    <3>3. QED
      BY <2>1, <3>1, <3>2
  <2>3. CASE m = l
    <3>1. \A n \in Outcomes : series'[m][n] = Cardinality(Over(m, n)')
      BY <1>4, <1>8, <2>1, <2>3
    <3>2. /\ series'[m]["in_flight"] = Cardinality(As(m)')
          /\ series'[m]["requests"] = Cardinality(Counted(m)')
      BY <1>2, <1>4, <1>8, <2>1, <2>3
    <3>3. series[m] \in [Counters -> Nat]
      BY <1>6
    <3>4. series'[m]["requests"] = series'[m]["in_flight"] + series'[m]["success"]
             + series'[m]["error"] + series'[m]["abort"] + series'[m]["rate_limited"]
      <4>1. CASE o = "success"
        BY <1>8, <2>1, <2>3, <3>3, <4>1 DEF Counters, Outcomes
      <4>2. CASE o = "error"
        BY <1>8, <2>1, <2>3, <3>3, <4>2 DEF Counters, Outcomes
      <4>3. CASE o = "abort"
        BY <1>8, <2>1, <2>3, <3>3, <4>3 DEF Counters, Outcomes
      <4>4. CASE o = "rate_limited"
        BY <1>8, <2>1, <2>3, <3>3, <4>4 DEF Counters, Outcomes
      <4>5. QED
        BY <4>1, <4>2, <4>3, <4>4 DEF Outcomes
    <3>5. QED
      BY <3>1, <3>2, <3>4
  <2>4. QED
    BY <2>2, <2>3
<1>13. Tally'
  BY <1>9, <1>10, <1>12 DEF Tally
<1>14. \A r \in Calls : Shape(call'[r])
  BY <1>1 DEF IInv
<1>15. QED
  BY <1>11, <1>13, <1>14 DEF IInv
-----------------------------------------------------------------------------
(* The actions                                                             *)

\* The initial calls satisfy the invariant: nothing is held, nothing counted.
LEMMA InitInv ==
    ASSUME ServingInit PROVE IInv
<1>1. \A q \in Calls :
        /\ call[q].pc = "idle" /\ ~call[q].held /\ ~call[q].watched /\ ~call[q].running
        /\ call[q].outcome = "none" /\ ~call[q].aborted /\ ~call[q].ended
        /\ call[q].sent = {}
  BY DEF ServingInit
<1>2. \A q \in Calls : Shape(call[q])
  BY <1>1 DEF Shape, Settled, Told, Served, Frames, SentAt
<1>3. Typed
  <2>1. call \in [Calls -> CallState]
    BY DEF ServingInit, CallState, Labels, Outcomes, Frames
  <2>2. series \in [Labels -> [Counters -> Nat]] /\ perKeyInFlight \in [ApiClients -> Nat]
    BY DEF ServingInit
  <2>3. tracked = {} /\ Cardinality({}) = 0 /\ IsFiniteSet({}) /\ globalInFlight = 0
    BY FS_EmptySet DEF ServingInit
  <2>4. QED
    BY <2>1, <2>2, <2>3, ServingAssumption DEF Typed
<1>4. /\ Holders = {} /\ \A k \in ApiClients : Under(k) = {}
      /\ \A l \in Labels : As(l) = {} /\ Counted(l) = {}
      /\ \A l \in Labels, o \in Outcomes : Over(l, o) = {}
  BY <1>1 DEF Holders, Under, As, Counted, Over, Outcomes
<1>5. /\ globalInFlight = 0 /\ \A k \in ApiClients : perKeyInFlight[k] = 0
      /\ \A l \in Labels : /\ series[l]["in_flight"] = 0 /\ series[l]["requests"] = 0
                           /\ \A o \in Outcomes : series[l][o] = 0
  BY DEF ServingInit, Counters, Outcomes
<1>6. \A l \in Labels : /\ series[l]["success"] = 0 /\ series[l]["error"] = 0
                        /\ series[l]["abort"] = 0 /\ series[l]["rate_limited"] = 0
  BY <1>5 DEF Outcomes
<1>7. Tally
  <2>1. Cardinality({}) = 0 /\ 0 <= GlobalLimit /\ 0 <= KeyLimit
    BY FS_EmptySet, ServingAssumption
  <2>2. /\ globalInFlight = Cardinality(Holders) /\ globalInFlight <= GlobalLimit
        /\ \A k \in ApiClients :
              perKeyInFlight[k] = Cardinality(Under(k)) /\ perKeyInFlight[k] <= KeyLimit
    BY <1>4, <1>5, <2>1
  <2>3. ASSUME NEW l \in Labels
        PROVE  /\ series[l]["in_flight"] = Cardinality(As(l))
               /\ series[l]["requests"] = Cardinality(Counted(l))
               /\ \A o \in Outcomes : series[l][o] = Cardinality(Over(l, o))
               /\ series[l]["requests"] = series[l]["in_flight"] + series[l]["success"]
                    + series[l]["error"] + series[l]["abort"] + series[l]["rate_limited"]
    <3>1. /\ series[l]["in_flight"] = Cardinality(As(l))
          /\ series[l]["requests"] = Cardinality(Counted(l))
          /\ \A o \in Outcomes : series[l][o] = Cardinality(Over(l, o))
      BY <1>4, <1>5, <2>1
    <3>2. series[l]["requests"] = series[l]["in_flight"] + series[l]["success"]
             + series[l]["error"] + series[l]["abort"] + series[l]["rate_limited"]
      BY <1>5, <1>6
    <3>3. QED
      BY <3>1, <3>2
  <2>4. QED
    BY <2>2, <2>3 DEF Tally
<1>8. QED
  BY <1>2, <1>3, <1>7 DEF IInv

\* A call that waits for nothing yet is admitted or refused for want of a slot.
LEMMA AdmitKeeps ==
    ASSUME IInv, NEW q \in Calls, call[q].pc \in {"idle", "listing"}, Admit(q)
    PROVE  IInv'
<1> DEFINE l == Label(call[q].model)
<1>1. /\ call[q] \in CallState /\ Shape(call[q])
      /\ ~call[q].held /\ call[q].outcome = "none"
  BY DEF IInv, Typed, Shape, Settled, Served, Frames
<1>2. l \in Labels
  BY <1>1 DEF Label, Labels, CallState
<1>3. /\ tracked' \subseteq Models /\ IsFiniteSet(tracked') /\ Cardinality(tracked') <= ModelLimit
  <2>1. tracked \subseteq Models /\ IsFiniteSet(tracked) /\ Cardinality(tracked) <= ModelLimit
    BY DEF IInv, Typed
  <2>2. CASE tracked' = tracked
    BY <2>1, <2>2
  <2>3. CASE tracked' # tracked
    <3>1. tracked' = tracked \cup {l} /\ l # "__other__"
      BY <2>3 DEF Admit
    <3>2. /\ l = call[q].model /\ l \notin tracked
          /\ Cardinality(tracked) < ModelLimit
      BY <2>3, <3>1 DEF Label
    <3>3. /\ IsFiniteSet(tracked') /\ Cardinality(tracked') = Cardinality(tracked) + 1
          /\ Cardinality(tracked) \in Nat
      BY <2>1, <3>1, <3>2, FS_AddElement, FS_CardinalityType
    <3>4. tracked' \subseteq Models
      BY <1>1, <2>1, <3>1, <3>2 DEF CallState
    <3>5. QED
      BY <3>2, <3>3, <3>4, ServingAssumption
  <2>4. QED
    BY <2>2, <2>3
<1>4. CASE HasRoom(call[q].key)
  <2> DEFINE next == [call[q] EXCEPT
                !.pc = IF call[q].stream THEN "opening" ELSE "completing",
                !.label = l, !.watched = TRUE, !.held = TRUE, !.running = TRUE]
  <2>1. /\ call' = [call EXCEPT ![q] = next]
        /\ globalInFlight' = globalInFlight + 1
        /\ perKeyInFlight' = [perKeyInFlight EXCEPT ![call[q].key] = @ + 1]
        /\ series' = MetricsStart(l)
    BY <1>4 DEF Admit
  <2>2. /\ next \in CallState /\ next.held /\ next.key = call[q].key /\ next.label = l
        /\ next.outcome = call[q].outcome
    BY <1>1, <1>2 DEF CallState
  <2>3. Shape(next)
    BY <1>1 DEF CallState, Shape, Settled, Told, Served, Frames, SentAt
  <2> HIDE DEF next, l
  <2>4. QED
    BY <1>1, <1>2, <1>3, <1>4, <2>1, <2>2, <2>3, AdmittedKeeps
<1>5. CASE ~HasRoom(call[q].key)
  <2> DEFINE next == [call[q] EXCEPT
                !.pc = "answered", !.label = l, !.outcome = "rate_limited"]
  <2>1. /\ call' = [call EXCEPT ![q] = next]
        /\ series' = Finished(MetricsStart(l), l, "rate_limited")
        /\ UNCHANGED <<globalInFlight, perKeyInFlight>>
    BY <1>5 DEF Admit
  <2>2. /\ next \in CallState /\ ~next.held /\ next.label = l
        /\ next.outcome = "rate_limited"
    BY <1>1, <1>2 DEF CallState, Outcomes
  <2>3. Shape(next)
    BY <1>1 DEF CallState, Shape, Settled, Told, Served, Frames, SentAt
  <2> HIDE DEF next, l
  <2>4. QED
    BY <1>1, <1>2, <1>3, <2>1, <2>2, <2>3, LimitedKeeps
<1>6. QED
  BY <1>4, <1>5

\* The finally of a call that is being served, whose stream has told its end.
LEMMA ConcludeKeeps ==
    ASSUME IInv, NEW q \in Calls, NEW terminal \in Outcomes, Conclude(q, terminal),
           \/ call[q].pc \in {"completing", "opening"}
           \/ /\ call[q].pc = "returning" /\ ~call[q].running
              /\ terminal = call[q].terminal
    PROVE  IInv'
<1> DEFINE o == IF call[q].aborted THEN "abort" ELSE terminal
           next == [call[q] EXCEPT
              !.pc = "answered", !.watched = FALSE, !.held = FALSE, !.outcome = o,
              !.running = FALSE]
<1>1. call[q] \in CallState /\ Shape(call[q]) /\ o \in Outcomes
  BY DEF IInv, Typed, Outcomes
<1>2. call[q].held /\ call[q].outcome = "none"
  BY <1>1 DEF Shape, Settled, Served
<1>3. /\ call' = [call EXCEPT ![q] = next]
      /\ globalInFlight' = globalInFlight - 1
      /\ perKeyInFlight' = [perKeyInFlight EXCEPT ![call[q].key] = @ - 1]
      /\ series' = Finished(series, call[q].label, o)
      /\ UNCHANGED tracked
  <2> DEFINE running == call[q].running /\ call[q].pc = "returning"
             left == [call[q] EXCEPT
                !.pc = "answered", !.watched = FALSE, !.held = FALSE, !.outcome = o,
                !.running = running]
  <2>1. call' = [call EXCEPT ![q] = left]
    BY DEF Conclude
  <2>2. running = FALSE
    OBVIOUS
  <2> HIDE DEF running
  <2>3. left = next
    BY <2>2
  <2>4. call' = [call EXCEPT ![q] = next]
    BY <2>1, <2>3
  <2>5. QED
    BY <2>4 DEF Conclude
<1>4. /\ next \in CallState /\ ~next.held /\ next.key = call[q].key
      /\ next.label = call[q].label /\ next.outcome = o
  BY <1>1 DEF CallState
<1>5. Settled(next)
  BY <1>1 DEF CallState, Shape, Settled, Served, Frames
<1>6. Told(next)
  BY <1>1 DEF CallState, Shape, Settled, Told, Frames, SentAt
<1> HIDE DEF next, o
<1>7. QED
  BY <1>1, <1>2, <1>3, <1>4, <1>5, <1>6, ConcludedKeeps DEF Shape
-----------------------------------------------------------------------------
(* The stream                                                              *)

\* n is what a call that was s may become without any counter changing.
Follows(s, n) ==
    /\ n \in CallState /\ Shape(n)
    /\ n.held = s.held /\ n.key = s.key /\ n.label = s.label /\ n.outcome = s.outcome

\* catch: a stream that raises has an error frame to write, or nobody to tell.
LEMMA RaiseFollows ==
    ASSUME NEW s \in CallState, Shape(s), s.pc \in {"consume", "pull"}
    PROVE  Follows(s, Raise(s))
<1>1. CASE s.aborted \/ s.gone \/ s.ended
  <2>1. Raise(s) = [s EXCEPT !.pc = "returning", !.terminal = "error"]
    BY <1>1 DEF Raise, Leave
  <2>2. s.gone
    BY <1>1 DEF Shape, Settled, Told
  <2>3. Raise(s) \in CallState
    BY <2>1 DEF CallState, Outcomes
  <2>4. Settled(Raise(s))
    BY <2>1 DEF CallState, Shape, Settled, Served
  <2>5. Told(Raise(s))
    BY <2>1, <2>2 DEF CallState, Shape, Told, SentAt, Frames
  <2>6. QED
    BY <2>1, <2>3, <2>4, <2>5 DEF Follows, Shape, CallState
<1>2. CASE ~(s.aborted \/ s.gone \/ s.ended)
  <2>1. Raise(s) = [s EXCEPT !.pc = "error"]
    BY <1>2 DEF Raise
  <2>2. Raise(s) \in CallState
    BY <2>1 DEF CallState, Frames
  <2>3. Settled(Raise(s))
    BY <2>1 DEF CallState, Shape, Settled, Served, Frames
  <2>4. Told(Raise(s))
    BY <2>1 DEF CallState, Shape, Told, SentAt, Frames
  <2>5. QED
    BY <2>1, <2>2, <2>3, <2>4 DEF Follows, Shape, CallState
<1>3. QED
  BY <1>1, <1>2

\* reply.raw.end(): the terminal outcome is a success exactly when [DONE] was written.
LEMMA EndReplyFollows ==
    ASSUME NEW s \in CallState, Shape(s)
    PROVE  Follows(s, EndReply(s))
<1>1. CASE s.pc = "ending"
  <2>1. EndReply(s) =
          [s EXCEPT !.ended = TRUE, !.pc = "returning", !.terminal = "success"]
    BY <1>1 DEF EndReply, Leave
  <2>2. EndReply(s) \in CallState
    BY <2>1 DEF CallState, Outcomes
  <2>3. Settled(EndReply(s))
    BY <1>1, <2>1 DEF CallState, Shape, Settled, Served
  <2>4. Told(EndReply(s))
    BY <1>1, <2>1 DEF CallState, Shape, Told, SentAt, Frames
  <2>5. QED
    BY <2>1, <2>2, <2>3, <2>4 DEF Follows, Shape, CallState
<1>2. CASE s.pc = "failing"
  <2>1. EndReply(s) =
          [s EXCEPT !.ended = TRUE, !.pc = "returning", !.terminal = "error"]
    BY <1>2 DEF EndReply, Leave
  <2>2. EndReply(s) \in CallState
    BY <2>1 DEF CallState, Outcomes
  <2>3. Settled(EndReply(s))
    BY <1>2, <2>1 DEF CallState, Shape, Settled, Served
  <2>4. Told(EndReply(s))
    BY <1>2, <2>1 DEF CallState, Shape, Told, SentAt, Frames
  <2>5. QED
    BY <2>1, <2>2, <2>3, <2>4 DEF Follows, Shape, CallState
<1>3. CASE s.pc \notin {"ending", "failing"}
  BY <1>3 DEF EndReply, Follows
<1>4. QED
  BY <1>1, <1>2, <1>3

\* writeSse: the frame is sent, unless the client is gone, and the next step follows.
LEMMA WriteFrameKeeps ==
    ASSUME IInv, NEW q \in Calls, NEW blocks \in BOOLEAN, WriteFrame(q, blocks)
    PROVE  IInv'
<1> DEFINE s == call[q]
           sent == IF s.gone THEN s.sent ELSE s.sent \cup {s.pc}
           next == [s EXCEPT !.pc = NextFrame(s.pc), !.sent = sent, !.blocked = blocks]
<1>1. s \in CallState /\ Shape(s) /\ s.pc \in Frames
  BY DEF IInv, Typed, WriteFrame
<1>2. Goes(q, IF blocks THEN next ELSE EndReply(next))
  BY DEF WriteFrame
<1> HIDE DEF s
<1>3. /\ NextFrame(s.pc) \in {"consume", "pull", "done", "ending", "failing"}
      /\ s.pc = "role" => NextFrame(s.pc) = "consume"
      /\ s.pc = "data" => NextFrame(s.pc) = "pull"
      /\ s.pc = "finish" => NextFrame(s.pc) = "done"
      /\ s.pc = "done" => NextFrame(s.pc) = "ending"
      /\ s.pc = "error" => NextFrame(s.pc) = "failing"
  BY <1>1 DEF NextFrame, Frames
<1>4. sent \subseteq SentAt(NextFrame(s.pc)) /\ sent \subseteq Frames
  BY <1>1, <1>3 DEF Shape, Told, SentAt, Frames
<1>5. /\ ~({"done", "error"} \subseteq sent)
      /\ "done" \in sent => s.completed
      /\ NextFrame(s.pc) \in {"done", "ending"} => s.completed
      /\ NextFrame(s.pc) = "ending" /\ ~s.gone => "done" \in sent
      /\ NextFrame(s.pc) = "failing" /\ ~s.gone => "error" \in sent
      /\ ~s.ended
  BY <1>1, <1>3 DEF Shape, Told, SentAt, Frames
<1> HIDE DEF sent
<1> DEFINE pc == NextFrame(s.pc)
<1>6. next \in CallState
  <2>1. /\ sent \in SUBSET Frames
        /\ pc \in {"consume", "pull", "done", "ending", "failing"}
    BY <1>3, <1>4
  <2> HIDE DEF pc
  <2>2. [s EXCEPT !.pc = pc, !.sent = sent, !.blocked = blocks] \in CallState
    BY <1>1, <2>1 DEF CallState, Frames
  <2>3. QED
    BY <2>2 DEF pc
<1> HIDE DEF pc
<1>7. /\ next.pc = NextFrame(s.pc) /\ next.sent = sent /\ next.completed = s.completed
      /\ next.gone = s.gone /\ next.ended = s.ended /\ next.held = s.held
      /\ next.watched = s.watched /\ next.running = s.running /\ next.outcome = s.outcome
      /\ next.aborted = s.aborted /\ next.key = s.key /\ next.label = s.label
  BY <1>1 DEF CallState
<1> HIDE DEF next
<1>8. Told(next)
  BY <1>3, <1>4, <1>5, <1>7 DEF Told
<1>9. Settled(next)
  BY <1>1, <1>3, <1>7 DEF Shape, Settled, Served, Frames
<1>10. Follows(s, IF blocks THEN next ELSE EndReply(next))
  BY <1>6, <1>7, <1>8, <1>9, EndReplyFollows DEF Follows, Shape
<1>11. QED
  BY <1>2, <1>10, GoesKeeps DEF Follows, s

\* The steps between the frames: opening, pulling, consuming, the end of the backend.
LEMMA StreamKeeps ==
    ASSUME IInv, NEW q \in Calls,
           StreamOpens(q) \/ PullEvent(q) \/ PullThrows(q) \/ PullEnds(q) \/ Consume(q)
              \/ WriteDrained(q) \/ BackendLetsGo(q)
    PROVE  IInv'
<1> DEFINE s == call[q]
           over == [s EXCEPT !.running = FALSE]
<1>1. s \in CallState /\ Shape(s)
  BY DEF IInv, Typed
<1>2. ASSUME NEW n, Goes(q, n), Follows(s, n)
      PROVE  IInv'
  BY <1>2, GoesKeeps DEF Follows
<1>3. ASSUME s.pc = "pull" \/ s.pc = "returning"
      PROVE  Follows(s, over) /\ over.pc = s.pc /\ over.completed = s.completed
  BY <1>1, <1>3 DEF Follows, CallState, Shape, Settled, Told
<1>4. CASE StreamOpens(q)
  <2> DEFINE n == [s EXCEPT !.pc = "role"]
  <2>1. s.pc = "opening" /\ Goes(q, n)
    BY <1>4 DEF StreamOpens, At
  <2>2. Follows(s, n)
    BY <1>1, <2>1 DEF Follows, CallState, Shape, Settled, Told, Served, Frames, SentAt
  <2>3. QED
    BY <1>2, <2>1, <2>2
<1>5. CASE PullEvent(q)
  <2> DEFINE n == [s EXCEPT !.pc = "consume"]
  <2>1. s.pc = "pull" /\ Goes(q, n)
    BY <1>5 DEF PullEvent, At
  <2>2. Follows(s, n)
    BY <1>1, <2>1 DEF Follows, CallState, Shape, Settled, Told, Served, Frames, SentAt
  <2>3. QED
    BY <1>2, <2>1, <2>2
<1>6. ASSUME s.pc = "pull", Goes(q, Raise(over))
      PROVE  IInv'
  <2>1. over \in CallState /\ Shape(over) /\ over.pc = "pull"
    BY <1>3, <1>6 DEF Follows
  <2>2. Follows(over, Raise(over))
    BY <2>1, RaiseFollows
  <2>3. Follows(s, Raise(over))
    BY <1>3, <1>6, <2>2 DEF Follows
  <2>4. QED
    BY <1>2, <1>6, <2>3
<1>7. CASE PullThrows(q)
  BY <1>6, <1>7 DEF PullThrows, At
<1>8. CASE PullEnds(q)
  <2>1. s.pc = "pull"
    BY <1>8 DEF PullEnds, At
  <2> DEFINE n == [over EXCEPT !.pc = "finish"]
  <2>2. CASE s.completed /\ Goes(q, n)
    <3>1. /\ n = [s EXCEPT !.running = FALSE, !.pc = "finish"]
      OBVIOUS
    <3>2. Follows(s, n)
      BY <1>1, <2>1, <2>2, <3>1
         DEF Follows, CallState, Shape, Settled, Told, Served, Frames, SentAt
    <3>3. QED
      BY <1>2, <2>2, <3>2
  <2>3. CASE Goes(q, Raise(over))
    BY <1>6, <2>1, <2>3
  <2>4. QED
    BY <1>8, <2>2, <2>3 DEF PullEnds
<1>9. CASE Consume(q)
  <2>1. s.pc = "consume"
    BY <1>9 DEF Consume, At
  <2> DEFINE data == [s EXCEPT !.pc = "data"]
             pull == [s EXCEPT !.pc = "pull"]
             done == [s EXCEPT !.pc = "pull", !.completed = TRUE]
  <2>2. Follows(s, data)
    BY <1>1, <2>1 DEF Follows, CallState, Shape, Settled, Told, Served, Frames, SentAt
  <2>3. Follows(s, pull)
    BY <1>1, <2>1 DEF Follows, CallState, Shape, Settled, Told, Served, Frames, SentAt
  <2>4. Follows(s, done)
    BY <1>1, <2>1 DEF Follows, CallState, Shape, Settled, Told, Served, Frames, SentAt
  <2>5. Follows(s, Raise(s))
    BY <1>1, <2>1, RaiseFollows
  <2>6. Goes(q, data) \/ Goes(q, pull) \/ Goes(q, done) \/ Goes(q, Raise(s))
    BY <1>9 DEF Consume
  <2> HIDE DEF data, pull, done, s
  <2>7. QED
    BY <1>2, <2>2, <2>3, <2>4, <2>5, <2>6
<1>10. CASE WriteDrained(q)
  <2>1. Goes(q, EndReply(s)) /\ Follows(s, EndReply(s))
    BY <1>1, <1>10, EndReplyFollows DEF WriteDrained
  <2>2. QED
    BY <1>2, <2>1
<1>11. CASE BackendLetsGo(q)
  <2>1. s.pc = "returning" /\ Goes(q, over)
    BY <1>11 DEF BackendLetsGo
  <2>2. QED
    BY <1>2, <1>3, <2>1
<1>12. QED
  BY <1>4, <1>5, <1>7, <1>8, <1>9, <1>10, <1>11

\* The client leaves, or reads what a write waited for.
LEMMA ClientKeeps ==
    ASSUME IInv, NEW q \in Calls, Disconnect(q) \/ ClientReads(q)
    PROVE  IInv'
<1> DEFINE s == call[q]
<1>1. s \in CallState /\ Shape(s)
  BY DEF IInv, Typed
<1>2. CASE ClientReads(q)
  <2> DEFINE n == [s EXCEPT !.blocked = FALSE]
  <2>1. Goes(q, n) /\ n \in CallState
    BY <1>1, <1>2 DEF ClientReads, CallState
  <2>2. Shape(n) /\ n.held = s.held /\ n.key = s.key /\ n.label = s.label
        /\ n.outcome = s.outcome
    BY <1>1 DEF CallState, Shape, Settled, Told
  <2>3. QED
    BY <2>1, <2>2, GoesKeeps
<1>3. CASE Disconnect(q)
  <2> DEFINE aborted == s.watched /\ ~s.ended
             n == [s EXCEPT !.gone = TRUE, !.blocked = FALSE, !.aborted = aborted]
  <2>1. Goes(q, n) /\ s.pc \notin {"idle", "answered"}
    BY <1>3 DEF Disconnect
  <2>2. aborted \in BOOLEAN /\ (aborted => s.held)
    BY <1>1 DEF Shape, Settled
  <2> HIDE DEF aborted
  <2>3. n \in CallState
    BY <1>1, <2>2 DEF CallState
  <2>4. /\ n.held = s.held /\ n.key = s.key /\ n.label = s.label /\ n.outcome = s.outcome
        /\ n.pc = s.pc /\ n.watched = s.watched /\ n.running = s.running /\ n.gone
        /\ n.aborted = aborted /\ n.sent = s.sent /\ n.ended = s.ended
        /\ n.completed = s.completed
    BY <1>1 DEF CallState
  <2> HIDE DEF n
  <2>5. Settled(n)
    BY <1>1, <2>1, <2>2, <2>4 DEF Shape, Settled
  <2>6. Told(n)
    BY <1>1, <2>1, <2>4 DEF Shape, Told
  <2>7. QED
    BY <2>1, <2>3, <2>4, <2>5, <2>6, GoesKeeps DEF Shape
<1>4. QED
  BY <1>2, <1>3

\* Before it is admitted a call holds nothing: it may wait for the list, or be refused.
LEMMA UnservedKeeps ==
    ASSUME IInv, NEW q \in Calls, ReceiveCall(q) \/ ModelsListed(q)
    PROVE  IInv'
<1> DEFINE s == call[q]
           listing == [s EXCEPT !.pc = "listing"]
           answered == [s EXCEPT !.pc = "answered"]
<1>1. s \in CallState /\ Shape(s) /\ s.pc \in {"idle", "listing"}
  BY DEF IInv, Typed, ReceiveCall, ModelsListed
<1>2. Admit(q) \/ Goes(q, listing) \/ (s.pc = "listing" /\ Goes(q, answered))
  BY DEF ReceiveCall, ModelsListed, Refuse, Goes
<1>3. Follows(s, listing)
  BY <1>1 DEF Follows, CallState, Shape, Settled, Told, Served, Frames, SentAt
<1>4. Follows(s, answered)
  BY <1>1 DEF Follows, CallState, Shape, Settled, Told, Served, Frames, SentAt
<1>5. QED
  BY <1>1, <1>2, <1>3, <1>4, AdmitKeeps, GoesKeeps DEF Follows
-----------------------------------------------------------------------------
(* The invariant                                                           *)

\* Every step of every call keeps the invariant.
LEMMA NextInv ==
    ASSUME IInv, [ServingNext]_servingVars PROVE IInv'
<1>1. CASE UNCHANGED servingVars
  <2>1. UNCHANGED <<call, globalInFlight, perKeyInFlight, tracked, series>>
    BY <1>1 DEF servingVars
  <2>2. /\ Holders' = Holders /\ \A k \in ApiClients : Under(k)' = Under(k)
        /\ \A l \in Labels : As(l)' = As(l) /\ Counted(l)' = Counted(l)
        /\ \A l \in Labels, o \in Outcomes : Over(l, o)' = Over(l, o)
    BY <2>1 DEF Holders, Under, As, Counted, Over
  <2>3. Tally'
    BY <2>1, <2>2 DEF IInv, Tally
  <2>4. QED
    BY <2>1, <2>3 DEF IInv, Typed
<1>2. ASSUME NEW q \in Calls,
             CompletionReturns(q) \/ CompletionThrows(q) \/ StreamDoesNotOpen(q)
      PROVE  IInv'
  <2>1. call[q].pc \in {"completing", "opening"}
    BY <1>2 DEF CompletionReturns, CompletionThrows, StreamDoesNotOpen, At
  <2>2. Conclude(q, "success") \/ Conclude(q, "error")
    BY <1>2 DEF CompletionReturns, CompletionThrows, StreamDoesNotOpen
  <2>3. QED
    BY <2>1, <2>2, ConcludeKeeps DEF Outcomes
<1>3. ASSUME NEW q \in Calls, StreamConcludes(q)
      PROVE  IInv'
  <2>1. /\ call[q].pc = "returning" /\ ~call[q].running
        /\ Conclude(q, call[q].terminal)
    BY <1>3 DEF StreamConcludes, At
  <2>2. call[q].terminal \in Outcomes
    BY DEF IInv, Typed, CallState
  <2>3. QED
    BY <2>1, <2>2, ConcludeKeeps
<1>4. CASE ServingNext
  BY <1>2, <1>3, <1>4, UnservedKeeps, StreamKeeps, WriteFrameKeeps, ClientKeeps
     DEF ServingNext
<1>5. QED
  BY <1>1, <1>4

\* The invariant says what the route promises.
LEMMA InvSound ==
    ASSUME IInv PROVE ServingSound
<1>1. /\ Holders \in SUBSET Calls
      /\ \A k \in ApiClients : Under(k) \in SUBSET Calls
      /\ \A l \in Labels : As(l) \in SUBSET Calls /\ Counted(l) \in SUBSET Calls
      /\ \A l \in Labels, o \in Outcomes : Over(l, o) \in SUBSET Calls
  BY DEF Holders, Under, As, Counted, Over
<1>2. \A S \in SUBSET Calls : Cardinality(S) \in 0..Cardinality(Calls)
  BY Sizes
<1>3. ServingTypeOK
  <2>1. globalInFlight \in 0..Cardinality(Calls)
    BY <1>1, <1>2 DEF IInv, Tally
  <2>2. \A k \in ApiClients : perKeyInFlight[k] \in 0..Cardinality(Calls)
    BY <1>1, <1>2 DEF IInv, Tally
  <2>3. \A l \in Labels, n \in Counters : series[l][n] \in 0..Cardinality(Calls)
    <3> TAKE l \in Labels, n \in Counters
    <3>1. CASE n \in Outcomes
      <4>1. series[l][n] = Cardinality(Over(l, n)) /\ Over(l, n) \in SUBSET Calls
        BY <1>1, <3>1 DEF IInv, Tally
      <4>2. QED
        BY <1>2, <4>1
    <3>2. CASE n = "requests"
      <4>1. series[l][n] = Cardinality(Counted(l)) /\ Counted(l) \in SUBSET Calls
        BY <1>1, <3>2 DEF IInv, Tally
      <4>2. QED
        BY <1>2, <4>1
    <3>3. CASE n = "in_flight"
      <4>1. series[l][n] = Cardinality(As(l)) /\ As(l) \in SUBSET Calls
        BY <1>1, <3>3 DEF IInv, Tally
      <4>2. QED
        BY <1>2, <4>1
    <3>4. QED
      BY <3>1, <3>2, <3>3 DEF Counters
  <2>4. series \in [Labels -> [Counters -> 0..Cardinality(Calls)]]
    <3>1. /\ series \in [Labels -> [Counters -> Nat]]
      BY DEF IInv, Typed
    <3>2. \A l \in Labels : series[l] \in [Counters -> 0..Cardinality(Calls)]
      BY <2>3, <3>1
    <3>3. QED
      BY <3>1, <3>2
  <2>5. QED
    BY <2>1, <2>2, <2>4 DEF ServingTypeOK, IInv, Typed
<1>4. SlotsAreExact
  BY DEF SlotsAreExact, IInv, Tally, Under
<1>5. MetricsBalance
  BY DEF MetricsBalance, IInv, Typed, Tally, As
<1>6. AbortsAreCounted /\ SlotsCoverTheBackend
  BY DEF AbortsAreCounted, SlotsCoverTheBackend, IInv, Shape, Settled
<1>7. StreamsTellTheirEnd
  BY DEF StreamsTellTheirEnd, IInv, Shape, Told
<1>8. QED
  BY <1>3, <1>4, <1>5, <1>6, <1>7 DEF ServingSound

-----------------------------------------------------------------------------
(* Theorems                                                                *)

\* IInv is an invariant of the route.
THEOREM ServingInvariant == ServingSpec => []IInv
<1>1. QED
  BY InitInv, NextInv, PTL DEF ServingSpec

\* In every state the limiter and the metrics count exactly the calls they stand for, a
\* slot is held as long as the backend works on the call, a client that left is counted
\* as aborted, and a stream that began has told a client that stayed how it ended
\* (CompletionLimiter.acquire, CompletionMetrics, streamChatCompletion).
THEOREM ServingCorrect == ServingSpec => []ServingSound
<1>1. QED
  BY ServingInvariant, InvSound, PTL

-----------------------------------------------------------------------------
(***************************************************************************)
(* Theorems about a trial of the benchmark, for any number of commands,    *)
(* runs and records.                                                       *)
(*                                                                         *)
(* The invariant: a command that is settled left nothing behind (KidOK),   *)
(* whoever aborted stopped all that listen (Heard), a cancellation is the  *)
(* trigger's own unless the backend changed (Cancelled), every run is on   *)
(* record or on its way in front of the executor's barrier (Recorded), and *)
(* the executor's sample is of what it saw (Judged).                       *)
(***************************************************************************)

Kinds == {"run_open", "backend_flip", "trigger", "executor"}

ChildState ==
    [phase : {"preflight", "running"}, leader : {"none", "up", "gone"},
     helper : {"none", "quiet", "piped", "escaped"}, exit : {"none", "ok", "bad"},
     ended : BOOLEAN, runs : 0..MaxRecords, stop : Failures \cup {"none"},
     timer : {"none", "grace", "hard"}, settled : Failures \cup {"pending", "ok"}]

TriggerState ==
    [outcome : {"none", "armed", "waiting_for_run_open", "cancel_sent", "barrier_timeout"},
     wait : {"none", "open", "sync"}]

ControlState ==
    [external : BOOLEAN, aborted : {"no", "external", "trigger", "flip"}, changed : BOOLEAN]

BridgeState ==
    [wire : Seq(Kinds), opens : Nat, flips : {0, 1}, asked : SUBSET {"trigger", "executor"}]

ExecutorState ==
    [pc : {"running", "settling", "open", "sync", "done"}, error : Failures \cup {"none"},
     synced : BOOLEAN, sample : Failures \cup {"none", "passed", "backend_flip"},
     opened : Nat]

\* A command that is settled, or was killed, has no process but one that left its group.
KidOK(x) ==
    /\ x.phase = "preflight" => x.leader = "none" /\ x.helper = "none" /\ x.timer = "none"
    /\ x.timer = "hard" => x.leader = "gone" /\ x.helper \in {"none", "escaped"}
    /\ x.settled # "pending" =>
          /\ x.leader # "up" /\ x.helper \in {"none", "escaped"}
          /\ x.helper = "escaped" => x.settled = "lingering_descendant"
    /\ x.settled = "ok" => x.ended
    /\ x.ended => CanPrint(x)

Kids == child \in [Children -> ChildState] /\ \A c \in Children : KidOK(child[c])

\* After an abort no command is left to run on.
Heard(kids) ==
    control.aborted # "no" => \A c \in Children : Listening(kids[c]) => kids[c].stop # "none"

\* The trigger waits unless the operator aborted; it cancels in the bridge's lane when a
\* run is on record.
Cancelled ==
    /\ trigger \in TriggerState /\ control \in ControlState
    /\ control.aborted = "external" => control.external
    /\ control.aborted = "flip" => control.changed
    /\ trigger.wait # "none" =>
          /\ trigger.outcome = "waiting_for_run_open"
          /\ trial.lane = "yorha" /\ control.aborted # "external"
    /\ trigger.wait = "sync" => bridge.opens > 0
    /\ trigger.outcome = "cancel_sent" =>
          /\ control.aborted \in {"trigger", "flip"}
          /\ trial.lane = "yorha" => bridge.opens > 0

\* The runs of the commands, and those among the first k records on their way.
Runs == {r \in Children \X (1..MaxRecords) : r[2] <= child[r[1]].runs}
Openings(wire, k) == {i \in 1..k : wire[i] = "run_open"}

\* Every run is counted or on its way; nothing is sent in the comparator's own lane.
Recorded ==
    /\ trial \in [lane : {"native", "yorha"}, after : {"never", "first_event", "tool_decision"},
                  children : SUBSET Commands]
    /\ bridge \in BridgeState
    /\ bridge.opens + Cardinality(Openings(bridge.wire, Len(bridge.wire))) = Cardinality(Runs)
    /\ bridge.flips > 0 => control.changed
    /\ trial.lane = "native" => bridge.asked = {} /\ bridge.wire = <<>>

\* The executor asks once its commands are settled; its answer is behind their runs.
Asked ==
    /\ executor.pc \in {"running", "settling", "open"} =>
          /\ "executor" \notin bridge.asked
          /\ \A i \in DOMAIN bridge.wire : bridge.wire[i] # "executor"
    /\ \A k \in DOMAIN bridge.wire : bridge.wire[k] = "executor" /\ executor.error = "none" =>
          bridge.opens + Cardinality(Openings(bridge.wire, k)) >= Cardinality(Children)

\* The executor has the failure of a command, or all are well.
SampleSettled(kids) ==
    /\ executor.pc = "running" => executor.error = "none"
    /\ executor.pc # "running" /\ executor.error = "none" =>
          \A c \in Children : kids[c].settled = "ok"
    /\ executor.error # "none" => \E c \in Children : kids[c].settled = executor.error

Judged ==
    /\ executor \in ExecutorState
    /\ trial.lane = "native" => executor.pc \notin {"open", "sync"}
    /\ executor.pc # "done" => executor.sample = "none"
    /\ CancelledByItself /\ RunsAreCounted

TrialInv ==
    Kids /\ Heard(child) /\ Cancelled /\ Recorded /\ Asked /\ SampleSettled(child) /\ Judged

\* What a step may make of the commands while their runs stay as they are.
SampleFollows(kids) ==
    /\ kids \in [Children -> ChildState] /\ Heard(kids)
    /\ \A c \in Children :
         /\ KidOK(kids[c]) /\ kids[c].runs = child[c].runs
         /\ child[c].settled # "pending" => kids[c].settled = child[c].settled

-----------------------------------------------------------------------------
(* The commands                                                            *)

\* What follows from the commands alone goes on to hold.
LEMMA FollowsKeeps ==
    ASSUME TrialInv, UNCHANGED trial, SampleFollows(child')
    PROVE  /\ Kids' /\ Runs' = Runs /\ Heard(child')
           /\ UNCHANGED executor => SampleSettled(child)'
<1>1. child' \in [Children -> ChildState] /\ \A c \in Children :
         /\ KidOK(child'[c]) /\ child'[c].runs = child[c].runs
         /\ child[c].settled # "pending" => child'[c].settled = child[c].settled
  BY DEF SampleFollows
<1>2. Kids'
  BY <1>1 DEF Kids, KidOK, CanPrint, Children
<1>3. Runs' = Runs
  BY <1>1 DEF Runs, Children
<1>4. ASSUME UNCHANGED executor PROVE SampleSettled(child)'
  <2>1. SampleSettled(child) /\ executor \in ExecutorState
    BY DEF TrialInv, Judged
  <2>2. executor.error \in Failures \cup {"none"} /\ "pending" \notin Failures
    BY <2>1 DEF ExecutorState, Failures
  <2>3. QED
    BY <1>1, <1>4, <2>1, <2>2 DEF SampleSettled, Failures, Children
<1>5. Heard(child')
  BY DEF SampleFollows
<1>6. QED
  BY <1>2, <1>3, <1>4, <1>5

\* A step of the commands alone.
LEMMA KidsStep ==
    ASSUME TrialInv, SampleFollows(child'), UNCHANGED <<trial, trigger, control, bridge, executor>>
    PROVE  TrialInv'
<1>1. Kids' /\ Runs' = Runs /\ Heard(child') /\ SampleSettled(child)'
  BY FollowsKeeps
<1>2. Heard(child)'
  BY <1>1 DEF Heard, Listening, Children
<1>3. Cancelled'
  BY DEF TrialInv, Cancelled
<1>4. Recorded'
  BY <1>1 DEF TrialInv, Recorded, Openings
<1>5. Asked' /\ Judged'
  BY DEF TrialInv, Asked, Openings, Judged, CancelledByItself, RunsAreCounted, Children
<1>6. QED
  BY <1>1, <1>2, <1>3, <1>4, <1>5 DEF TrialInv

\* One command moves.
LEMMA OneFollows ==
    ASSUME TrialInv, NEW c \in Children, NEW x \in ChildState, KidOK(x), x.runs = child[c].runs,
           child[c].settled # "pending" => x.settled = child[c].settled,
           control.aborted # "no" /\ Listening(x) => x.stop # "none"
    PROVE  SampleFollows([child EXCEPT ![c] = x])
<1>1. /\ child \in [Children -> ChildState] /\ \A d \in Children : KidOK(child[d])
      /\ Heard(child)
  BY DEF TrialInv, Kids
<1>2. QED
  BY <1>1 DEF SampleFollows, Heard

LEMMA KidStep ==
    ASSUME TrialInv, NEW c \in Children, NEW x \in ChildState, KidOK(x), x.runs = child[c].runs,
           child[c].settled # "pending" => x.settled = child[c].settled,
           control.aborted # "no" /\ Listening(x) => x.stop # "none",
           child' = [child EXCEPT ![c] = x],
           UNCHANGED <<trial, trigger, control, bridge, executor>>
    PROVE  TrialInv'
<1>1. SampleFollows(child')
  BY OneFollows
<1>2. QED
  BY <1>1, KidsStep

\* A command that is asked to stop.
LEMMA StoppedIs ==
    ASSUME NEW x \in ChildState, KidOK(x), x.phase = "running", NEW class \in Failures
    PROVE  /\ Stopped(x, class) \in ChildState /\ KidOK(Stopped(x, class))
           /\ Stopped(x, class).runs = x.runs /\ Stopped(x, class).stop # "none"
           /\ Stopped(x, class).settled = x.settled /\ Stopped(x, class).phase = "running"
           /\ Stopped(x, class).leader = x.leader
<1> DEFINE y == [x EXCEPT !.stop = class, !.timer = "grace"]
<1>1. /\ y \in ChildState /\ y.runs = x.runs /\ y.stop = class /\ y.settled = x.settled
      /\ y.phase = "running" /\ y.leader = x.leader /\ y.helper = x.helper
      /\ y.ended = x.ended /\ y.timer = "grace"
  BY DEF ChildState
<1>2. KidOK(y)
  BY <1>1 DEF KidOK, CanPrint
<1>3. class # "none"
  BY DEF Failures
<1> HIDE DEF y
<1>4. CASE x.stop = "none"
  <2>1. Stopped(x, class) = y
    BY <1>4 DEF Stopped, y
  <2>2. QED
    BY <1>1, <1>2, <1>3, <2>1
<1>5. CASE x.stop # "none"
  <2>1. Stopped(x, class) = x
    BY <1>5 DEF Stopped
  <2>2. QED
    BY <1>5, <2>1
<1>6. QED
  BY <1>4, <1>5

\* After controller.abort() every command that listens is being stopped.
LEMMA AllStoppedFollows ==
    ASSUME TrialInv, NEW kids, SampleFollows(kids)
    PROVE  /\ SampleFollows(AllStopped(kids))
           /\ \A c \in Children : Listening(AllStopped(kids)[c]) => AllStopped(kids)[c].stop # "none"
<1>1. "cancel_failed" \in Failures
  BY DEF Failures
<1>2. ASSUME NEW c \in Children
      PROVE  /\ AllStopped(kids)[c] \in ChildState /\ KidOK(AllStopped(kids)[c])
             /\ AllStopped(kids)[c].runs = kids[c].runs
             /\ AllStopped(kids)[c].settled = kids[c].settled
             /\ Listening(AllStopped(kids)[c]) => AllStopped(kids)[c].stop # "none"
  <2>1. kids[c] \in ChildState /\ KidOK(kids[c])
    BY DEF SampleFollows
  <2>2. CASE Listening(kids[c]) /\ control.aborted = "no"
    <3>1. AllStopped(kids)[c] = Stopped(kids[c], "cancel_failed")
      BY <2>2 DEF AllStopped
    <3>2. kids[c].phase = "running"
      BY <2>2 DEF Listening
    <3>3. QED
      BY <1>1, <2>1, <3>1, <3>2, StoppedIs
  <2>3. CASE ~(Listening(kids[c]) /\ control.aborted = "no")
    <3>1. AllStopped(kids)[c] = kids[c]
      BY <2>3 DEF AllStopped
    <3>2. QED
      BY <2>1, <2>3, <3>1 DEF SampleFollows, Heard
  <2>4. QED
    BY <2>2, <2>3
<1>3. AllStopped(kids) \in [Children -> ChildState]
  BY <1>2 DEF AllStopped
<1>4. QED
  BY <1>2, <1>3 DEF SampleFollows, Heard

LEMMA PreflightFailsInv ==
    ASSUME TrialInv, NEW c \in Children, NEW class, PreflightFails(c, class)
    PROVE  TrialInv'
<1> DEFINE x == [child[c] EXCEPT !.settled = class]
<1>1. /\ child[c] \in ChildState /\ KidOK(child[c]) /\ child[c].phase = "preflight"
      /\ child[c].settled = "pending" /\ class \in Failures
  BY DEF TrialInv, Kids, PreflightFails, Failures
<1>2. /\ x \in ChildState /\ x.phase = "preflight" /\ x.settled = class /\ x.runs = child[c].runs
      /\ x.leader = child[c].leader /\ x.helper = child[c].helper /\ x.timer = child[c].timer
      /\ x.ended = child[c].ended
  BY <1>1 DEF ChildState
<1>3. /\ child' = [child EXCEPT ![c] = x]
      /\ UNCHANGED <<trial, trigger, control, bridge, executor>>
  BY DEF PreflightFails
<1> HIDE DEF x
<1>4. KidOK(x) /\ ~Listening(x)
  BY <1>1, <1>2 DEF KidOK, CanPrint, Listening, Failures
<1>5. QED
  BY <1>1, <1>2, <1>3, <1>4, KidStep

LEMMA SpawnInv ==
    ASSUME TrialInv, NEW c \in Children, NEW starts \in BOOLEAN, Spawn(c, starts)
    PROVE  TrialInv'
<1> DEFINE x == [child[c] EXCEPT !.phase = "running",
                                 !.leader = IF starts THEN "up" ELSE "gone",
                                 !.exit = IF starts THEN @ ELSE "bad"]
           y == IF control.aborted = "no" THEN x ELSE Stopped(x, "cancel_failed")
           z == IF starts THEN y ELSE Stopped(y, "harness_failure")
<1>1. /\ child[c] \in ChildState /\ KidOK(child[c]) /\ child[c].phase = "preflight"
      /\ child[c].settled = "pending"
  BY DEF TrialInv, Kids, Spawn
<1>2. /\ x \in ChildState /\ x.phase = "running" /\ x.settled = "pending"
      /\ x.runs = child[c].runs /\ x.timer = child[c].timer /\ x.helper = child[c].helper
      /\ x.ended = child[c].ended
  BY <1>1 DEF ChildState
<1>3. KidOK(x)
  BY <1>1, <1>2 DEF KidOK, CanPrint
<1>4. child' = [child EXCEPT ![c] = z] /\ UNCHANGED <<trial, trigger, control, bridge, executor>>
  BY DEF Spawn
<1> HIDE DEF x
<1>5. {"cancel_failed", "harness_failure"} \subseteq Failures
  BY DEF Failures
<1>6. /\ y \in ChildState /\ KidOK(y) /\ y.runs = child[c].runs /\ y.phase = "running"
      /\ y.settled = "pending" /\ (control.aborted # "no" => y.stop # "none")
  BY <1>2, <1>3, <1>5, StoppedIs
<1> HIDE DEF y
<1>7. /\ z \in ChildState /\ KidOK(z) /\ z.runs = child[c].runs
      /\ z.settled = "pending" /\ (control.aborted # "no" => z.stop # "none")
  BY <1>5, <1>6, StoppedIs
<1> HIDE DEF z
<1>8. QED
  BY <1>1, <1>4, <1>7, KidStep

\* Output that is refused, and the trial's time that is over.
LEMMA StopsInv ==
    ASSUME TrialInv, NEW c \in Children, NEW class \in Failures, Listening(child[c]),
           child' = [child EXCEPT ![c] = Stopped(@, class)],
           UNCHANGED <<trial, trigger, control, bridge, executor>>
    PROVE  TrialInv'
<1> DEFINE x == Stopped(child[c], class)
<1>1. /\ child[c] \in ChildState /\ KidOK(child[c]) /\ child[c].phase = "running"
      /\ child[c].settled = "pending"
  BY DEF TrialInv, Kids, Listening
<1>2. x \in ChildState /\ KidOK(x) /\ x.runs = child[c].runs /\ x.stop # "none"
  BY <1>1, StoppedIs
<1> HIDE DEF x
<1>3. child' = [child EXCEPT ![c] = x]
  BY DEF x
<1>4. QED
  BY <1>1, <1>2, <1>3, KidStep

LEMMA LeaderExitsInv ==
    ASSUME TrialInv, NEW c \in Children, NEW how \in {"ok", "bad"},
           NEW helper \in Helpers, LeaderExits(c, how, helper)
    PROVE  TrialInv'
<1> DEFINE x == [child[c] EXCEPT !.leader = "gone", !.exit = how, !.helper = helper]
<1>1. /\ child[c] \in ChildState /\ KidOK(child[c]) /\ child[c].leader = "up"
      /\ (control.aborted # "no" /\ Listening(child[c]) => child[c].stop # "none")
  BY DEF TrialInv, Kids, LeaderExits, Heard
<1>2. helper \in {"none", "quiet", "piped", "escaped"}
  BY TrialAssumption
<1>3. /\ x \in ChildState /\ x.settled = child[c].settled /\ x.runs = child[c].runs
      /\ x.phase = child[c].phase /\ x.timer = child[c].timer /\ x.ended = child[c].ended
      /\ x.stop = child[c].stop
  BY <1>1, <1>2 DEF ChildState
<1>4. child' = [child EXCEPT ![c] = x] /\ UNCHANGED <<trial, trigger, control, bridge, executor>>
  BY DEF LeaderExits
<1> HIDE DEF x
<1>5. KidOK(x)
  BY <1>1, <1>3 DEF KidOK, CanPrint
<1>6. control.aborted # "no" /\ Listening(x) => x.stop # "none"
  BY <1>1, <1>3 DEF Listening
<1>7. QED
  BY <1>3, <1>4, <1>5, <1>6, KidStep

LEMMA HelperExitsInv ==
    ASSUME TrialInv, NEW c \in Children, HelperExits(c)
    PROVE  TrialInv'
<1> DEFINE x == [child[c] EXCEPT !.helper = "none"]
<1>1. /\ child[c] \in ChildState /\ KidOK(child[c])
      /\ (control.aborted # "no" /\ Listening(child[c]) => child[c].stop # "none")
  BY DEF TrialInv, Kids, Heard
<1>2. /\ x \in ChildState /\ x.settled = child[c].settled /\ x.runs = child[c].runs
      /\ x.phase = child[c].phase /\ x.timer = child[c].timer /\ x.ended = child[c].ended
      /\ x.stop = child[c].stop /\ x.leader = child[c].leader /\ x.helper = "none"
  BY <1>1 DEF ChildState
<1>3. child' = [child EXCEPT ![c] = x] /\ UNCHANGED <<trial, trigger, control, bridge, executor>>
  BY DEF HelperExits
<1> HIDE DEF x
<1>4. KidOK(x)
  BY <1>1, <1>2 DEF KidOK, CanPrint
<1>5. control.aborted # "no" /\ Listening(x) => x.stop # "none"
  BY <1>1, <1>2 DEF Listening
<1>6. QED
  BY <1>2, <1>3, <1>4, <1>5, KidStep

LEMMA CloseInv ==
    ASSUME TrialInv, NEW c \in Children, NEW lingers \in BOOLEAN, Close(c, lingers)
    PROVE  TrialInv'
<1> DEFINE class(x) == CASE x.stop # "none" -> x.stop
                         [] x.stop = "none" /\ lingers -> "lingering_descendant"
                         [] x.exit # "ok" \/ ~x.ended -> "early_exit"
                         [] OTHER -> "ok"
           s == class(child[c])
           x == [child[c] EXCEPT !.settled = s, !.timer = "none", !.helper = "none"]
<1>1. /\ child[c] \in ChildState /\ KidOK(child[c]) /\ child[c].leader = "gone"
      /\ child[c].settled = "pending" /\ child[c].phase = "running"
  BY DEF TrialInv, Kids, Close, Listening
<1>2. s \in Failures \cup {"ok"} /\ (s = "ok" => child[c].ended)
  <2>1. child[c].stop \in Failures \cup {"none"}
    BY <1>1 DEF ChildState
  <2>2. {"lingering_descendant", "early_exit"} \subseteq Failures /\ "ok" \notin Failures
    BY DEF Failures
  <2>3. QED
    BY <2>1, <2>2
<1>3. child' = [child EXCEPT ![c] = x] /\ UNCHANGED <<trial, trigger, control, bridge, executor>>
  BY DEF Close, Closed
<1> HIDE DEF s
<1>4. /\ x \in ChildState /\ x.settled = s /\ x.runs = child[c].runs
      /\ x.phase = "running" /\ x.timer = "none" /\ x.ended = child[c].ended
      /\ x.leader = "gone" /\ x.helper = "none"
  BY <1>1, <1>2 DEF ChildState
<1> HIDE DEF x
<1>5. KidOK(x) /\ ~Listening(x)
  BY <1>1, <1>2, <1>4 DEF KidOK, CanPrint, Listening, Failures
<1>6. QED
  BY <1>1, <1>3, <1>4, <1>5, KidStep

LEMMA EscalationDueInv ==
    ASSUME TrialInv, NEW c \in Children, EscalationDue(c)
    PROVE  TrialInv'
<1> DEFINE x == [Killed(child[c]) EXCEPT !.timer = "hard"]
<1>1. /\ child[c] \in ChildState /\ KidOK(child[c]) /\ Listening(child[c])
      /\ child[c].settled = "pending" /\ child[c].phase = "running"
      /\ (control.aborted # "no" => child[c].stop # "none")
  BY DEF TrialInv, Kids, EscalationDue, Listening, Heard
<1>2. /\ x \in ChildState /\ x.settled = "pending" /\ x.runs = child[c].runs
      /\ x.phase = "running" /\ x.timer = "hard" /\ x.ended = child[c].ended
      /\ x.leader = "gone" /\ x.helper \in {"none", "escaped"} /\ x.stop = child[c].stop
  BY <1>1 DEF ChildState, Killed, Children
<1>3. child' = [child EXCEPT ![c] = x] /\ UNCHANGED <<trial, trigger, control, bridge, executor>>
  BY DEF EscalationDue
<1> HIDE DEF x
<1>4. KidOK(x)
  BY <1>1, <1>2 DEF KidOK, CanPrint
<1>5. QED
  BY <1>1, <1>2, <1>3, <1>4, KidStep

LEMMA HardStopInv ==
    ASSUME TrialInv, NEW c \in Children, HardStop(c)
    PROVE  TrialInv'
<1> DEFINE x == [child[c] EXCEPT !.settled = "lingering_descendant", !.timer = "none"]
<1>1. /\ child[c] \in ChildState /\ KidOK(child[c])
      /\ child[c].settled = "pending" /\ child[c].phase = "running" /\ child[c].timer = "hard"
  BY DEF TrialInv, Kids, HardStop, Listening
<1>2. /\ x \in ChildState /\ x.settled = "lingering_descendant" /\ x.runs = child[c].runs
      /\ x.phase = "running" /\ x.timer = "none" /\ x.ended = child[c].ended
      /\ x.leader = child[c].leader /\ x.helper = child[c].helper
  BY <1>1 DEF ChildState, Failures
<1>3. child' = [child EXCEPT ![c] = x] /\ UNCHANGED <<trial, trigger, control, bridge, executor>>
  BY DEF HardStop
<1> HIDE DEF x
<1>4. KidOK(x) /\ ~Listening(x)
  BY <1>1, <1>2 DEF KidOK, CanPrint, Listening
<1>5. QED
  BY <1>1, <1>2, <1>3, <1>4, KidStep

-----------------------------------------------------------------------------
(* The records on their way                                                *)

LEMMA OpeningsFinite ==
    ASSUME NEW s, NEW k \in Nat
    PROVE  IsFiniteSet(Openings(s, k)) /\ Cardinality(Openings(s, k)) \in Nat
<1>1. Openings(s, k) \subseteq 1..k /\ IsFiniteSet(1..k)
  BY FS_Interval DEF Openings
<1>2. IsFiniteSet(Openings(s, k))
  BY <1>1, FS_Subset
<1>3. QED
  BY <1>2, FS_CardinalityType

\* A message that is sent counts behind all others.
LEMMA AppendOpens ==
    ASSUME NEW s \in Seq(Kinds), NEW e \in Kinds
    PROVE  /\ \A k \in 0..Len(s) : Openings(Append(s, e), k) = Openings(s, k)
           /\ Cardinality(Openings(Append(s, e), Len(s) + 1)) =
                 Cardinality(Openings(s, Len(s))) + (IF e = "run_open" THEN 1 ELSE 0)
<1>1. /\ Len(s) \in Nat /\ Append(s, e)[Len(s) + 1] = e
      /\ \A i \in 1..Len(s) : Append(s, e)[i] = s[i]
  OBVIOUS
<1>2. \A k \in 0..Len(s) : Openings(Append(s, e), k) = Openings(s, k)
  BY <1>1 DEF Openings
<1>3. Openings(Append(s, e), Len(s) + 1) =
        Openings(s, Len(s)) \cup (IF e = "run_open" THEN {Len(s) + 1} ELSE {})
  BY <1>1 DEF Openings
<1>4. Len(s) + 1 \notin Openings(s, Len(s))
  BY <1>1 DEF Openings
<1>5. IsFiniteSet(Openings(s, Len(s))) /\ Cardinality(Openings(s, Len(s))) \in Nat
  BY <1>1, OpeningsFinite
<1>6. CASE e = "run_open"
  <2>1. Openings(Append(s, e), Len(s) + 1) = Openings(s, Len(s)) \cup {Len(s) + 1}
    BY <1>3, <1>6
  <2>2. Cardinality(Openings(s, Len(s)) \cup {Len(s) + 1}) = Cardinality(Openings(s, Len(s))) + 1
    BY <1>4, <1>5, FS_AddElement
  <2>3. QED
    BY <1>2, <1>6, <2>1, <2>2
<1>7. CASE e # "run_open"
  <2>1. Openings(Append(s, e), Len(s) + 1) = Openings(s, Len(s))
    BY <1>3, <1>7
  <2> DEFINE n == Cardinality(Openings(s, Len(s)))
  <2>2. n \in Nat /\ n = n + 0
    BY <1>5
  <2>3. QED
    BY <1>2, <1>7, <2>1, <2>2
<1>8. QED
  BY <1>6, <1>7

\* A message that is received counts no more, and those behind it move up.
LEMMA TailOpens ==
    ASSUME NEW s \in Seq(Kinds), s # <<>>, NEW k \in 0..Len(Tail(s))
    PROVE  Cardinality(Openings(s, k + 1)) =
             Cardinality(Openings(Tail(s), k)) + (IF Head(s) = "run_open" THEN 1 ELSE 0)
<1> DEFINE S == Openings(Tail(s), k)
           T == Openings(s, k + 1) \ {1}
           f == [i \in S |-> i + 1]
<1>1. /\ Len(s) \in Nat /\ Len(s) >= 1 /\ Len(Tail(s)) = Len(s) - 1 /\ Head(s) = s[1]
      /\ \A i \in 1..Len(Tail(s)) : Tail(s)[i] = s[i + 1]
  OBVIOUS
<1>2. k \in Nat /\ k + 1 <= Len(s)
  BY <1>1
<1>3. \A i \in S : i + 1 \in T
  BY <1>1, <1>2 DEF Openings
<1>4. \A j \in T : j - 1 \in S /\ j = (j - 1) + 1
  BY <1>1, <1>2 DEF Openings
<1>5. f \in Bijection(S, T)
  <2>1. S \subseteq Nat
    BY <1>2 DEF Openings
  <2>2. f \in [S -> T]
    BY <1>3
  <2>3. \A a, b \in S : f[a] = f[b] => a = b
    BY <2>1
  <2>4. \A t \in T : \E a \in S : f[a] = t
    BY <1>4
  <2>5. QED
    BY <2>2, <2>3, <2>4 DEF Bijection, Injection, Surjection, IsInjective
<1>6. /\ IsFiniteSet(S) /\ IsFiniteSet(Openings(s, k + 1))
      /\ Cardinality(S) \in Nat /\ Cardinality(Openings(s, k + 1)) \in Nat
  BY <1>2, OpeningsFinite
<1>7. Cardinality(T) = Cardinality(S)
  BY <1>5, <1>6, FS_Bijection DEF ExistsBijection
<1>8. 1 \in Openings(s, k + 1) <=> Head(s) = "run_open"
  BY <1>1, <1>2 DEF Openings
<1> HIDE DEF S, f
<1>9. Cardinality(T) = IF Head(s) = "run_open" THEN Cardinality(Openings(s, k + 1)) - 1
                       ELSE Cardinality(Openings(s, k + 1))
  BY <1>6, <1>8, FS_RemoveElement
<1>10. QED
  BY <1>6, <1>7, <1>9 DEF S

LEMMA ChildrenFinite ==
    ASSUME Recorded PROVE IsFiniteSet(Children)
<1>1. Children \subseteq Commands
  BY DEF Recorded, Children
<1>2. QED
  BY <1>1, TrialAssumption, FS_Subset

LEMMA RunsFinite ==
    ASSUME IsFiniteSet(Children)
    PROVE  IsFiniteSet(Runs) /\ Cardinality(Runs) \in Nat
<1>1. IsFiniteSet(1..MaxRecords) /\ IsFiniteSet(Children)
  BY TrialAssumption, FS_Interval
<1>2. IsFiniteSet(Children \X (1..MaxRecords))
  BY <1>1, FS_Product
<1>3. Runs \subseteq Children \X (1..MaxRecords)
  BY DEF Runs
<1>4. IsFiniteSet(Runs)
  BY <1>2, <1>3, FS_Subset
<1>5. QED
  BY <1>4, FS_CardinalityType

\* Commands that all had a run had one each.
LEMMA OneRunEach ==
    ASSUME IsFiniteSet(Children), child \in [Children -> ChildState],
           \A c \in Children : child[c].runs > 0
    PROVE  Cardinality(Runs) >= Cardinality(Children)
<1> DEFINE f == [c \in Children |-> <<c, 1>>]
<1>1. \A c \in Children : <<c, 1>> \in Runs
  <2>1. \A c \in Children : child[c].runs \in 0..MaxRecords /\ child[c].runs > 0
    BY DEF ChildState
  <2>2. MaxRecords \in Nat
    BY TrialAssumption
  <2>3. \A c \in Children : 1 \in 1..MaxRecords /\ 1 <= child[c].runs
    BY <2>1, <2>2
  <2>4. QED
    BY <2>3 DEF Runs
<1>2. f \in [Children -> Runs]
  BY <1>1
<1>3. \A a, b \in Children : f[a] = f[b] => a = b
  OBVIOUS
<1>4. f \in Injection(Children, Runs)
  BY <1>2, <1>3 DEF Injection, IsInjective
<1>5. IsFiniteSet(Runs) /\ Cardinality(Runs) \in Nat
  BY RunsFinite
<1>6. IsFiniteSet(Children) /\ Cardinality(Children) \in Nat
  BY FS_CardinalityType, TrialAssumption
<1> HIDE DEF f
<1>7. Cardinality(Children) <= Cardinality(Runs)
  BY <1>4, <1>5, FS_Injection
<1>8. QED
  BY <1>5, <1>6, <1>7

-----------------------------------------------------------------------------
(* The bridge                                                              *)

LEMMA Sending ==
    ASSUME bridge \in BridgeState, NEW e \in Kinds,
           NEW asks, asks \subseteq {"trigger", "executor"},
           bridge' = [bridge EXCEPT !.wire = Append(bridge.wire, e), !.asked = asks]
    PROVE  /\ bridge' \in BridgeState /\ bridge'.wire = Append(bridge.wire, e)
           /\ bridge'.opens = bridge.opens /\ bridge'.flips = bridge.flips
           /\ bridge'.asked = asks
<1> DEFINE w == Append(bridge.wire, e)
<1>1. w \in Seq(Kinds)
  BY DEF BridgeState
<1>2. bridge' = [bridge EXCEPT !.wire = w, !.asked = asks]
  OBVIOUS
<1> HIDE DEF w
<1>3. /\ bridge' \in BridgeState /\ bridge'.wire = w /\ bridge'.opens = bridge.opens
      /\ bridge'.flips = bridge.flips /\ bridge'.asked = asks
  BY <1>1, <1>2 DEF BridgeState
<1>4. QED
  BY <1>3 DEF w

\* A step that sends and counts nothing: what is asked of the bridge may grow.
LEMMA QuietKeeps ==
    ASSUME TrialInv, Runs' = Runs, bridge' \in BridgeState, UNCHANGED <<trial, executor>>,
           bridge'.wire = bridge.wire, bridge'.opens = bridge.opens,
           bridge'.flips = bridge.flips, control.changed => control'.changed,
           bridge'.asked \subseteq bridge.asked \cup {"trigger"},
           trial.lane = "native" => bridge'.asked = bridge.asked
    PROVE  Recorded' /\ Asked'
<1>1. Recorded'
  BY DEF TrialInv, Recorded, Openings
<1>2. Asked'
  BY DEF TrialInv, Asked, Openings, Children
<1>3. QED
  BY <1>1, <1>2

\* The executor stays where it is, and what its sample says stays so.
LEMMA JudgedKeeps ==
    ASSUME TrialInv, UNCHANGED <<trial, executor>>, bridge'.flips = bridge.flips,
           executor.pc = "done" => control'.aborted = control.aborted
    PROVE  Judged'
<1>1. CASE executor.pc = "done"
  BY <1>1 DEF TrialInv, Judged, CancelledByItself, RunsAreCounted, Children
<1>2. CASE executor.pc # "done"
  BY <1>2 DEF TrialInv, Judged, CancelledByItself, RunsAreCounted
<1>3. QED
  BY <1>1, <1>2

\* A message that is sent: a run with its record, a flip or the answer to a barrier.
LEMMA SendKeeps ==
    ASSUME TrialInv, NEW e \in Kinds, trial.lane = "yorha", UNCHANGED <<trial, control, executor>>,
           bridge' \in BridgeState, bridge'.wire = Append(bridge.wire, e),
           bridge'.opens = bridge.opens, bridge'.flips = bridge.flips,
           bridge'.asked \subseteq bridge.asked,
           Cardinality(Runs') = Cardinality(Runs) + (IF e = "run_open" THEN 1 ELSE 0),
           Cardinality(Runs) \in Nat,
           e = "executor" => /\ executor.pc \in {"sync", "done"}
                             /\ executor.error = "none" =>
                                   Cardinality(Runs) >= Cardinality(Children)
    PROVE  Recorded' /\ Asked'
<1> DEFINE w == bridge.wire
           n == Cardinality(Openings(w, Len(w)))
<1>1. /\ w \in Seq(Kinds) /\ Len(w) \in Nat /\ bridge.opens \in Nat
      /\ bridge.opens + n = Cardinality(Runs)
  BY DEF TrialInv, Recorded, BridgeState
<1>2. /\ \A k \in 0..Len(w) : Openings(Append(w, e), k) = Openings(w, k)
      /\ Cardinality(Openings(Append(w, e), Len(w) + 1)) =
            n + (IF e = "run_open" THEN 1 ELSE 0)
  BY <1>1, AppendOpens
<1>3. /\ Len(Append(w, e)) = Len(w) + 1 /\ Append(w, e)[Len(w) + 1] = e
      /\ \A i \in 1..Len(w) : Append(w, e)[i] = w[i]
      /\ DOMAIN w = 1..Len(w) /\ DOMAIN Append(w, e) = 1..(Len(w) + 1)
  BY <1>1
<1>4. n \in Nat
  BY <1>1, OpeningsFinite
<1> HIDE DEF n
<1>5. bridge'.opens + Cardinality(Openings(bridge'.wire, Len(bridge'.wire))) = Cardinality(Runs')
  BY <1>1, <1>2, <1>3, <1>4
<1>6. Recorded'
  <2>1. Cardinality(Runs)' = Cardinality(Runs')
    OBVIOUS
  <2>2. QED
    BY <1>5, <2>1 DEF TrialInv, Recorded, Openings
<1>7. Asked'
  <2>1. ASSUME executor.pc \in {"running", "settling", "open"}
        PROVE  /\ "executor" \notin bridge'.asked
               /\ \A i \in DOMAIN bridge'.wire : bridge'.wire[i] # "executor"
    <3>1. e # "executor" /\ "executor" \notin bridge.asked
      BY <2>1 DEF TrialInv, Asked
    <3>2. \A i \in DOMAIN w : w[i] # "executor"
      BY <2>1 DEF TrialInv, Asked
    <3>3. QED
      BY <1>1, <1>3, <3>1, <3>2
  <2>2. ASSUME NEW k \in DOMAIN bridge'.wire, bridge'.wire[k] = "executor",
               executor.error = "none"
        PROVE  bridge'.opens + Cardinality(Openings(bridge'.wire, k)) >= Cardinality(Children)
    <3>1. CASE k \in 1..Len(w)
      <4>1. w[k] = "executor" /\ Openings(bridge'.wire, k) = Openings(w, k)
        BY <1>1, <1>2, <1>3, <2>2, <3>1
      <4>2. bridge.opens + Cardinality(Openings(w, k)) >= Cardinality(Children)
        BY <1>3, <2>2, <3>1, <4>1 DEF TrialInv, Asked
      <4>3. QED
        BY <4>1, <4>2
    <3>2. CASE k = Len(w) + 1
      <4>1. e = "executor"
        BY <1>3, <2>2, <3>2
      <4>2. Cardinality(Runs) >= Cardinality(Children)
        BY <2>2, <4>1
      <4>3. Cardinality(Openings(bridge'.wire, k)) = n
        BY <1>2, <1>4, <3>2, <4>1
      <4>4. QED
        BY <1>1, <4>2, <4>3
    <3>3. QED
      BY <1>1, <1>3, <2>2, <3>1, <3>2
  <2>3. QED
    BY <2>1, <2>2 DEF Asked, Openings, Children
<1>8. QED
  BY <1>6, <1>7

LEMMA RunOpensInv ==
    ASSUME TrialInv, NEW c \in Children, RunOpens(c)
    PROVE  TrialInv'
<1> DEFINE x == [child[c] EXCEPT !.runs = @ + 1]
           r == <<c, child[c].runs + 1>>
<1>1. /\ child \in [Children -> ChildState] /\ child[c] \in ChildState /\ KidOK(child[c])
      /\ \A d \in Children : KidOK(child[d])
      /\ bridge \in BridgeState /\ MaxRecords \in Nat
      /\ child[c].runs \in 0..MaxRecords
      /\ (control.aborted # "no" /\ Listening(child[c]) => child[c].stop # "none")
  BY TrialAssumption DEF TrialInv, Kids, Recorded, Heard, ChildState
<1>2. /\ trial.lane = "yorha" /\ child[c].runs < MaxRecords
      /\ child' = [child EXCEPT ![c] = x]
      /\ bridge' = [bridge EXCEPT !.wire = Append(@, "run_open")]
      /\ UNCHANGED <<trial, trigger, control, executor>>
  BY DEF RunOpens
<1>3. /\ x \in ChildState /\ x.runs = child[c].runs + 1 /\ x.settled = child[c].settled
      /\ x.phase = child[c].phase /\ x.timer = child[c].timer /\ x.ended = child[c].ended
      /\ x.stop = child[c].stop /\ x.leader = child[c].leader /\ x.helper = child[c].helper
  <2>1. child[c].runs + 1 \in 0..MaxRecords
    BY <1>1, <1>2
  <2>2. QED
    BY <1>1, <2>1 DEF ChildState
<1> HIDE DEF x
<1>4. KidOK(x)
  BY <1>1, <1>3 DEF KidOK, CanPrint
<1>5. Kids'
  BY <1>1, <1>2, <1>3, <1>4 DEF Kids, KidOK, CanPrint, Children
<1>6. Heard(child)' /\ SampleSettled(child)'
  <2>1. \A d \in Children : /\ child'[d].settled = child[d].settled
                            /\ child'[d].phase = child[d].phase
                            /\ child'[d].stop = child[d].stop
    BY <1>1, <1>2, <1>3
  <2>2. Heard(child) /\ SampleSettled(child)
    BY DEF TrialInv
  <2>3. QED
    BY <1>2, <2>1, <2>2 DEF Heard, Listening, SampleSettled, Children
<1>7. Runs' = Runs \cup {r} /\ r \notin Runs
  <2>1. \A d \in Children : child'[d].runs =
          IF d = c THEN child[c].runs + 1 ELSE child[d].runs
    BY <1>1, <1>2, <1>3
  <2>2. \A d \in Children : child[d].runs \in 0..MaxRecords
    BY <1>1 DEF ChildState
  <2>3. QED
    BY <1>1, <1>2, <2>1, <2>2 DEF Runs, Children
<1>8. Cardinality(Runs') = Cardinality(Runs) + 1 /\ Cardinality(Runs) \in Nat
  <2>1. IsFiniteSet(Runs) /\ Cardinality(Runs) \in Nat
    BY RunsFinite, ChildrenFinite DEF TrialInv
  <2> HIDE DEF r
  <2>2. QED
    BY <1>7, <2>1, FS_AddElement
<1>9. /\ bridge' \in BridgeState /\ bridge'.wire = Append(bridge.wire, "run_open")
      /\ bridge'.opens = bridge.opens /\ bridge'.flips = bridge.flips
      /\ bridge'.asked = bridge.asked
  <2>1. bridge.asked \subseteq {"trigger", "executor"} /\ "run_open" \in Kinds
    BY <1>1 DEF BridgeState, Kinds
  <2>2. bridge' = [bridge EXCEPT !.wire = Append(bridge.wire, "run_open"), !.asked = bridge.asked]
    BY <1>1, <1>2 DEF BridgeState
  <2>3. QED
    BY <1>1, <2>1, <2>2, Sending
<1>10. Recorded' /\ Asked'
  <2>1. "run_open" \in Kinds
    BY DEF Kinds
  <2>2. QED
    BY <1>2, <1>8, <1>9, <2>1, SendKeeps
<1>11. Judged'
  BY <1>2, <1>9, JudgedKeeps
<1>12. Cancelled'
  BY <1>2, <1>9 DEF TrialInv, Cancelled
<1>13. QED
  BY <1>5, <1>6, <1>10, <1>11, <1>12 DEF TrialInv

\* A message with which no run begins.
LEMMA SendInv ==
    ASSUME TrialInv, NEW e \in Kinds \ {"run_open"}, trial.lane = "yorha",
           UNCHANGED <<trial, child, trigger, control, executor>>,
           bridge' \in BridgeState, bridge'.wire = Append(bridge.wire, e),
           bridge'.opens = bridge.opens, bridge'.flips = bridge.flips,
           bridge'.asked \subseteq bridge.asked,
           e = "executor" => /\ executor.pc \in {"sync", "done"}
                             /\ executor.error = "none" =>
                                   Cardinality(Runs) >= Cardinality(Children)
    PROVE  TrialInv'
<1>1. Kids' /\ Heard(child)' /\ SampleSettled(child)'
  BY DEF TrialInv, Kids, KidOK, CanPrint, Heard, Listening, SampleSettled, Children
<1>2. Runs' = Runs /\ Cardinality(Runs) \in Nat
  <2>1. Runs' = Runs
    BY DEF Runs, Children
  <2>2. QED
    BY <2>1, RunsFinite, ChildrenFinite DEF TrialInv
<1>3. Cardinality(Runs') = Cardinality(Runs) + 0
  BY <1>2
<1>4. Recorded' /\ Asked'
  BY <1>2, <1>3, SendKeeps
<1>5. Judged' /\ Cancelled'
  BY JudgedKeeps DEF TrialInv, Cancelled
<1>6. QED
  BY <1>1, <1>4, <1>5 DEF TrialInv

LEMMA FlipsInv ==
    ASSUME TrialInv, Flips
    PROVE  TrialInv'
<1>1. bridge \in BridgeState
  BY DEF TrialInv, Recorded
<1>2. /\ trial.lane = "yorha" /\ bridge' = [bridge EXCEPT !.wire = Append(@, "backend_flip")]
      /\ UNCHANGED <<trial, child, trigger, control, executor>>
  BY DEF Flips
<1>3. /\ bridge' \in BridgeState /\ bridge'.wire = Append(bridge.wire, "backend_flip")
      /\ bridge'.opens = bridge.opens /\ bridge'.flips = bridge.flips
      /\ bridge'.asked = bridge.asked
  <2>1. bridge.asked \subseteq {"trigger", "executor"} /\ "backend_flip" \in Kinds
    BY <1>1 DEF BridgeState, Kinds
  <2>2. bridge' = [bridge EXCEPT !.wire = Append(bridge.wire, "backend_flip"), !.asked = bridge.asked]
    BY <1>1, <1>2 DEF BridgeState
  <2>3. QED
    BY <1>1, <2>1, <2>2, Sending
<1>4. "backend_flip" \in Kinds \ {"run_open"} /\ "backend_flip" # "executor"
  BY DEF Kinds
<1>5. QED
  BY <1>2, <1>3, <1>4, SendInv

\* The executor asks when its commands are settled: if all are well, each had a run.
LEMMA RepliesInv ==
    ASSUME TrialInv, NEW who \in {"trigger", "executor"}, Replies(who)
    PROVE  TrialInv'
<1>1. /\ bridge \in BridgeState /\ who \in bridge.asked
      /\ bridge' = [bridge EXCEPT !.asked = @ \ {who}, !.wire = Append(@, who)]
      /\ UNCHANGED <<trial, child, trigger, control, executor>>
  BY DEF TrialInv, Recorded, Replies
<1>2. trial.lane = "yorha"
  BY <1>1 DEF TrialInv, Recorded
<1>3. /\ bridge' \in BridgeState /\ bridge'.wire = Append(bridge.wire, who)
      /\ bridge'.opens = bridge.opens /\ bridge'.flips = bridge.flips
      /\ bridge'.asked = bridge.asked \ {who}
  <2>1. bridge.asked \ {who} \subseteq {"trigger", "executor"} /\ who \in Kinds
    BY <1>1 DEF BridgeState, Kinds
  <2>2. bridge' = [bridge EXCEPT !.wire = Append(bridge.wire, who), !.asked = bridge.asked \ {who}]
    BY <1>1 DEF BridgeState
  <2>3. QED
    BY <1>1, <2>1, <2>2, Sending
<1>4. ASSUME who = "executor"
      PROVE  /\ executor.pc \in {"sync", "done"}
             /\ executor.error = "none" => Cardinality(Runs) >= Cardinality(Children)
  <2>1. executor.pc \in {"sync", "done"}
    BY <1>1, <1>4 DEF TrialInv, Asked, Judged, ExecutorState
  <2>2. ASSUME executor.error = "none"
        PROVE  Cardinality(Runs) >= Cardinality(Children)
    <3>1. \A c \in Children : child[c].settled = "ok"
      BY <2>1, <2>2 DEF TrialInv, SampleSettled
    <3>2. \A c \in Children : child[c].runs > 0
      BY <1>2, <3>1 DEF TrialInv, Kids, KidOK, CanPrint
    <3>3. QED
      BY <3>2, OneRunEach, ChildrenFinite DEF TrialInv, Kids
  <2>3. QED
    BY <2>1, <2>2
<1>5. who \in Kinds \ {"run_open"}
  BY DEF Kinds
<1>6. QED
  BY <1>1, <1>2, <1>3, <1>4, <1>5, SendInv

-----------------------------------------------------------------------------
(* The trigger                                                             *)

\* What the trigger hears while nobody has aborted.
LEMMA HearsInv ==
    ASSUME TrialInv, NEW kids, SampleFollows(kids), NEW what, TriggerHears(what, kids),
           control.aborted = "no", UNCHANGED <<trial, executor>>
    PROVE  TrialInv'
<1> DEFINE counts == /\ trigger.outcome = "armed" /\ AtWork
                     /\ what = "tool" \/ trial.after = "first_event"
<1>1. /\ trigger \in TriggerState /\ control \in ControlState /\ bridge \in BridgeState
      /\ trial.lane \in {"native", "yorha"}
  BY DEF TrialInv, Cancelled, Recorded
<1>2. /\ SampleFollows(AllStopped(kids))
      /\ \A c \in Children : Listening(AllStopped(kids)[c]) => AllStopped(kids)[c].stop # "none"
  BY AllStoppedFollows
<1>3. CASE ~counts
  <2>1. child' = kids /\ UNCHANGED <<trigger, control, bridge>>
    BY <1>3 DEF TriggerHears
  <2>2. QED
    BY <2>1, KidsStep
<1>4. CASE counts /\ trial.lane = "native"
  <2>1. /\ child' = AllStopped(kids) /\ UNCHANGED bridge
        /\ trigger' = [trigger EXCEPT !.outcome = "cancel_sent"]
        /\ control' = [control EXCEPT !.aborted = IF @ = "no" THEN "trigger" ELSE @]
    BY <1>4 DEF TriggerHears
  <2>2. /\ trigger' \in TriggerState /\ trigger'.outcome = "cancel_sent"
        /\ trigger'.wait = trigger.wait
        /\ control' \in ControlState /\ control'.aborted = "trigger"
        /\ control'.changed = control.changed
    BY <1>1, <2>1 DEF TriggerState, ControlState
  <2>3. Kids' /\ Runs' = Runs /\ SampleSettled(child)'
    BY <1>2, <2>1, FollowsKeeps
  <2>4. Heard(child)'
    BY <1>2, <2>1 DEF Heard, Listening, Children
  <2>5. trigger.wait = "none"
    BY <1>1, <1>4 DEF TrialInv, Cancelled, TriggerState
  <2>6. Cancelled'
    BY <1>4, <2>1, <2>2, <2>5 DEF Cancelled
  <2>7. Recorded' /\ Asked'
    BY <1>1, <2>1, <2>2, <2>3, QuietKeeps
  <2>8. Judged'
    BY <1>4, <2>1, JudgedKeeps DEF AtWork
  <2>9. QED
    BY <2>3, <2>4, <2>6, <2>7, <2>8 DEF TrialInv
<1>5. CASE counts /\ trial.lane = "yorha"
  <2>1. /\ child' = kids /\ UNCHANGED control
        /\ IF control.external
           THEN trigger' = [trigger EXCEPT !.outcome = "barrier_timeout"] /\ UNCHANGED bridge
           ELSE /\ trigger' = [trigger EXCEPT !.outcome = "waiting_for_run_open",
                                  !.wait = IF bridge.opens > 0 THEN "sync" ELSE "open"]
                /\ bridge' = IF bridge.opens > 0
                             THEN [bridge EXCEPT !.asked = @ \cup {"trigger"}] ELSE bridge
    BY <1>5 DEF TriggerHears
  <2>2. /\ bridge' \in BridgeState /\ bridge'.wire = bridge.wire
        /\ bridge'.opens = bridge.opens /\ bridge'.flips = bridge.flips
        /\ bridge'.asked \subseteq bridge.asked \cup {"trigger"}
    BY <1>1, <2>1 DEF BridgeState
  <2>3. /\ trigger' \in TriggerState
        /\ IF control.external
           THEN trigger'.outcome = "barrier_timeout" /\ trigger'.wait = trigger.wait
           ELSE /\ trigger'.outcome = "waiting_for_run_open"
                /\ trigger'.wait = IF bridge.opens > 0 THEN "sync" ELSE "open"
    BY <1>1, <2>1 DEF TriggerState
  <2>4. Kids' /\ Runs' = Runs /\ SampleSettled(child)' /\ Heard(child')
    BY <2>1, FollowsKeeps
  <2>5. Heard(child)'
    BY <2>1, <2>4 DEF Heard, Listening
  <2>6. trigger.wait = "none"
    BY <1>1, <1>5 DEF TrialInv, Cancelled, TriggerState
  <2>7. Cancelled'
    BY <1>1, <1>5, <2>1, <2>2, <2>3, <2>6 DEF TrialInv, Cancelled
  <2>8. Recorded' /\ Asked'
    BY <1>5, <2>1, <2>2, <2>4, QuietKeeps
  <2>9. Judged'
    BY <2>1, <2>2, JudgedKeeps
  <2>10. QED
    BY <2>4, <2>5, <2>7, <2>8, <2>9 DEF TrialInv
<1>6. QED
  BY <1>1, <1>3, <1>4, <1>5

LEMMA PrintsInv ==
    ASSUME TrialInv, NEW c \in Children, NEW what, Prints(c, what)
    PROVE  TrialInv'
<1> DEFINE x == [child[c] EXCEPT !.ended = @ \/ what = "end"]
<1>1. /\ child[c] \in ChildState /\ KidOK(child[c]) /\ Listening(child[c])
      /\ child[c].stop = "none" /\ CanPrint(child[c])
      /\ child[c].settled = "pending"
  BY DEF TrialInv, Kids, Prints, Listening
<1>2. control.aborted = "no"
  BY <1>1 DEF TrialInv, Heard
<1>3. /\ x \in ChildState /\ x.runs = child[c].runs /\ x.settled = "pending"
      /\ x.phase = child[c].phase /\ x.timer = child[c].timer /\ x.stop = child[c].stop
      /\ x.leader = child[c].leader /\ x.helper = child[c].helper
  BY <1>1 DEF ChildState
<1>4. TriggerHears(what, [child EXCEPT ![c] = x]) /\ UNCHANGED <<trial, executor>>
  BY DEF Prints
<1> HIDE DEF x
<1>5. KidOK(x)
  BY <1>1, <1>3 DEF KidOK, CanPrint
<1>6. SampleFollows([child EXCEPT ![c] = x])
  BY <1>1, <1>2, <1>3, <1>5, OneFollows
<1>7. QED
  BY <1>2, <1>4, <1>6, HearsInv

\* The wait of the trigger is over, or the operator's signal ends it.
LEMMA BarrierTimesOutInv ==
    ASSUME TrialInv, BarrierTimesOut
    PROVE  TrialInv'
<1>1. /\ trigger' = [outcome |-> "barrier_timeout", wait |-> "none"] /\ AtWork
      /\ UNCHANGED <<trial, child, control, bridge, executor>>
  BY DEF BarrierTimesOut
<1>2. Kids' /\ Heard(child)' /\ SampleSettled(child)'
  BY <1>1 DEF TrialInv, Kids, KidOK, CanPrint, Heard, Listening, SampleSettled, Children
<1>3. Cancelled'
  BY <1>1 DEF TrialInv, Cancelled, TriggerState
<1>4. Recorded' /\ Asked' /\ Judged'
  <2>1. Runs' = Runs
    BY <1>1 DEF Runs, Children
  <2>2. QED
    BY <1>1, <2>1, JudgedKeeps DEF TrialInv, Recorded, Asked, Openings, Children
<1>5. QED
  BY <1>2, <1>3, <1>4 DEF TrialInv

-----------------------------------------------------------------------------
(* The executor                                                            *)

\* The executor moves on with what its commands came to.
LEMMA SettledKeeps ==
    ASSUME TrialInv, UNCHANGED trial, SampleFollows(child'), executor'.error = executor.error,
           executor'.pc = "running" <=> executor.pc = "running"
    PROVE  SampleSettled(child)'
<1>1. \A c \in Children :
         child[c].settled # "pending" => child'[c].settled = child[c].settled
  BY DEF SampleFollows
<1>2. SampleSettled(child) /\ executor.error \in Failures \cup {"none"} /\ "pending" \notin Failures
  BY DEF TrialInv, Judged, ExecutorState, Failures
<1>3. QED
  BY <1>1, <1>2 DEF SampleSettled, Failures, Children

\* The commands may stay as they are.
LEMMA NothingMoves ==
    ASSUME TrialInv
    PROVE  SampleFollows(child)
BY DEF TrialInv, Kids, SampleFollows

\* A message that comes in: what is counted with it is no longer on its way.
LEMMA ReceiveKeeps ==
    ASSUME TrialInv, bridge.wire # <<>>, UNCHANGED trial, Runs' = Runs,
           executor'.error = executor.error, bridge' \in BridgeState,
           bridge'.wire = Tail(bridge.wire),
           bridge'.opens = bridge.opens + (IF Head(bridge.wire) = "run_open" THEN 1 ELSE 0),
           bridge'.flips > 0 => control'.changed,
           executor'.pc \in {"running", "settling", "open"} =>
              /\ executor.pc \in {"running", "settling", "open"}
              /\ bridge'.asked \subseteq bridge.asked \cup {"trigger"}
    PROVE  Recorded' /\ Asked'
<1> DEFINE w == bridge.wire
           one == IF Head(w) = "run_open" THEN 1 ELSE 0
<1>1. /\ w \in Seq(Kinds) /\ Len(w) \in Nat /\ Len(w) >= 1 /\ bridge.opens \in Nat
      /\ Len(Tail(w)) = Len(w) - 1
      /\ \A i \in 1..Len(Tail(w)) : Tail(w)[i] = w[i + 1]
      /\ DOMAIN w = 1..Len(w) /\ DOMAIN Tail(w) = 1..(Len(w) - 1)
  BY DEF TrialInv, Recorded, BridgeState
<1>2. trial.lane = "yorha"
  BY <1>1 DEF TrialInv, Recorded
<1>3. \A k \in 0..Len(Tail(w)) :
        /\ Cardinality(Openings(w, k + 1)) = Cardinality(Openings(Tail(w), k)) + one
        /\ Cardinality(Openings(Tail(w), k)) \in Nat
  <2>1. \A k \in 0..Len(Tail(w)) : k \in Nat
    BY <1>1
  <2>2. QED
    BY <1>1, <2>1, TailOpens, OpeningsFinite
<1>4. one \in Nat /\ bridge'.opens = bridge.opens + one
  OBVIOUS
<1> HIDE DEF one
<1>5. bridge'.opens + Cardinality(Openings(bridge'.wire, Len(bridge'.wire))) = Cardinality(Runs)
  <2> DEFINE k == Len(Tail(w))
  <2>1. k \in 0..Len(Tail(w)) /\ k + 1 = Len(w)
    BY <1>1
  <2>2. bridge.opens + Cardinality(Openings(w, k + 1)) = Cardinality(Runs)
    BY <2>1 DEF TrialInv, Recorded
  <2>3. Cardinality(Openings(w, k + 1)) = Cardinality(Openings(Tail(w), k)) + one
    BY <1>3, <2>1
  <2>4. Cardinality(Openings(Tail(w), k)) \in Nat
    BY <1>3, <2>1
  <2>5. QED
    BY <1>1, <1>4, <2>2, <2>3, <2>4
<1>6. Recorded'
  BY <1>2, <1>5 DEF TrialInv, Recorded, Openings
<1>7. ASSUME executor'.pc \in {"running", "settling", "open"}
      PROVE  /\ "executor" \notin bridge'.asked
             /\ \A i \in DOMAIN bridge'.wire : bridge'.wire[i] # "executor"
  <2>1. "executor" \notin bridge.asked /\ \A i \in DOMAIN w : w[i] # "executor"
    BY <1>7 DEF TrialInv, Asked
  <2>2. \A i \in DOMAIN Tail(w) : i + 1 \in DOMAIN w /\ Tail(w)[i] = w[i + 1]
    BY <1>1
  <2>3. QED
    BY <1>7, <2>1, <2>2
<1>8. ASSUME NEW k \in DOMAIN bridge'.wire, bridge'.wire[k] = "executor",
             executor'.error = "none"
      PROVE  bridge'.opens + Cardinality(Openings(bridge'.wire, k)) >= Cardinality(Children)
  <2>1. k \in 0..Len(Tail(w)) /\ k + 1 \in DOMAIN w /\ w[k + 1] = "executor"
    BY <1>1, <1>8
  <2>2. bridge.opens + Cardinality(Openings(w, k + 1)) >= Cardinality(Children)
    BY <1>8, <2>1 DEF TrialInv, Asked
  <2>3. Cardinality(Openings(w, k + 1)) = Cardinality(Openings(Tail(w), k)) + one
    BY <1>3, <2>1
  <2>4. Cardinality(Openings(Tail(w), k)) \in Nat
    BY <1>3, <2>1
  <2>5. bridge'.opens + Cardinality(Openings(bridge'.wire, k))
          = bridge.opens + Cardinality(Openings(w, k + 1))
    BY <1>1, <1>4, <2>3, <2>4
  <2>6. QED
    BY <2>2, <2>5
<1>9. Asked'
  BY <1>7, <1>8 DEF Asked, Openings, Children
<1>10. QED
  BY <1>6, <1>9

\* The sample: passed with an error only for a cancellation of the trigger's own.
LEMMA SampledIs ==
    ASSUME TrialInv, executor.pc # "done", NEW synced \in BOOLEAN, NEW x,
           x = Sampled(executor, bridge, synced)
    PROVE  /\ x \in ExecutorState /\ x.pc = "done" /\ x.error = executor.error
           /\ x.synced = synced /\ x.opened = bridge.opens
           /\ x.sample = "passed" /\ x.error # "none" =>
                 control.aborted = "trigger" /\ (trial.lane = "yorha" => x.opened > 0)
           /\ bridge.flips > 0 => x.sample \in {"backend_flip", "harness_failure"}
<1> DEFINE late == trigger.outcome = "barrier_timeout"
           class == IF executor.error = "none"
                    THEN IF late THEN "harness_failure"
                         ELSE IF control.changed \/ bridge.flips > 0 THEN "backend_flip"
                              ELSE "passed"
                    ELSE IF control.changed THEN "backend_flip"
                         ELSE IF executor.error = "cancel_failed" /\ trigger.outcome = "cancel_sent"
                              THEN "passed"
                              ELSE IF late THEN "harness_failure" ELSE executor.error
<1>1. x = [executor EXCEPT !.pc = "done", !.synced = synced, !.sample = class,
                           !.opened = bridge.opens]
  BY DEF Sampled
<1>2. /\ executor \in ExecutorState /\ bridge.opens \in Nat
      /\ executor.error \in Failures \cup {"none"}
      /\ {"harness_failure"} \subseteq Failures /\ "passed" \notin Failures
  BY DEF TrialInv, Judged, Recorded, BridgeState, ExecutorState, Failures
<1>3. class \in Failures \cup {"none", "passed", "backend_flip"}
  BY <1>2
<1>4. class = "passed" /\ executor.error # "none" =>
        ~control.changed /\ trigger.outcome = "cancel_sent"
  BY <1>2
<1>5. control.changed => class \in {"backend_flip", "harness_failure"}
  OBVIOUS
<1> HIDE DEF class
<1>6. /\ x \in ExecutorState /\ x.pc = "done" /\ x.error = executor.error
      /\ x.synced = synced /\ x.opened = bridge.opens /\ x.sample = class
  BY <1>1, <1>2, <1>3 DEF ExecutorState
<1>7. class = "passed" /\ executor.error # "none" =>
        control.aborted = "trigger" /\ (trial.lane = "yorha" => bridge.opens > 0)
  BY <1>4 DEF TrialInv, Cancelled
<1>8. bridge.flips > 0 => control.changed
  BY DEF TrialInv, Recorded
<1>9. QED
  BY <1>5, <1>6, <1>7, <1>8

LEMMA SampledInv ==
    ASSUME TrialInv, executor.pc \notin {"done", "running"}, NEW synced \in BOOLEAN,
           executor' = Sampled(executor, bridge, synced),
           UNCHANGED <<trial, child, trigger, control>>,
           bridge'.flips = bridge.flips, bridge'.opens = bridge.opens,
           Recorded', Asked',
           synced /\ executor.error = "none" => bridge.opens >= Cardinality(Children)
    PROVE  TrialInv'
<1>1. /\ executor' \in ExecutorState /\ executor'.pc = "done"
      /\ executor'.error = executor.error
      /\ executor'.synced = synced /\ executor'.opened = bridge.opens
      /\ executor'.sample = "passed" /\ executor'.error # "none" =>
            control.aborted = "trigger" /\ (trial.lane = "yorha" => executor'.opened > 0)
      /\ bridge.flips > 0 => executor'.sample \in {"backend_flip", "harness_failure"}
  BY SampledIs
<1>2. Judged'
  BY <1>1 DEF Judged, CancelledByItself, RunsAreCounted, Children
<1>3. Kids' /\ Heard(child)' /\ Cancelled'
  BY DEF TrialInv, Kids, KidOK, CanPrint, Heard, Listening, Cancelled, Children
<1>4. SampleSettled(child)'
  BY <1>1, NothingMoves, SettledKeeps
<1>5. QED
  BY <1>2, <1>3, <1>4 DEF TrialInv

\* The executor waits on, for a run or for the answer to its barrier.
LEMMA WaitsOn ==
    ASSUME TrialInv, executor.pc # "done", NEW pc \in {"settling", "open", "sync"},
           executor' = [executor EXCEPT !.pc = pc], trial.lane = "yorha", UNCHANGED trial
    PROVE  /\ Judged' /\ executor'.pc = pc /\ executor'.error = executor.error
<1>1. executor \in ExecutorState /\ executor.sample = "none"
  BY DEF TrialInv, Judged
<1>2. /\ executor' \in ExecutorState /\ executor'.pc = pc /\ executor'.sample = "none"
      /\ executor'.error = executor.error
  BY <1>1 DEF ExecutorState
<1>3. QED
  BY <1>2 DEF Judged, CancelledByItself, RunsAreCounted

\* The executor leaves the trigger or the wait for a run behind.
LEMMA GoesOnInv ==
    ASSUME TrialInv, executor.pc \in {"settling", "open"}, NEW pc \in {"open", "sync"},
           NEW ask \in BOOLEAN, ask => pc = "sync",
           ExecutorMoves([executor EXCEPT !.pc = pc], ask, bridge), trial.lane = "yorha",
           UNCHANGED <<trial, child, trigger, control>>
    PROVE  TrialInv'
<1>1. executor' = [executor EXCEPT !.pc = pc]
  BY DEF ExecutorMoves
<1>2. Judged' /\ executor'.pc = pc /\ executor'.error = executor.error
  BY <1>1, WaitsOn
<1>3. /\ bridge' \in BridgeState /\ bridge'.wire = bridge.wire
      /\ bridge'.opens = bridge.opens /\ bridge'.flips = bridge.flips
      /\ bridge'.asked = IF ask THEN bridge.asked \cup {"executor"} ELSE bridge.asked
  <2>1. bridge \in BridgeState
    BY DEF TrialInv, Recorded
  <2>2. bridge' = IF ask THEN [bridge EXCEPT !.asked = @ \cup {"executor"}] ELSE bridge
    BY DEF ExecutorMoves
  <2>3. QED
    BY <2>1, <2>2 DEF BridgeState
<1>4. Kids' /\ Runs' = Runs /\ Heard(child)'
  BY DEF TrialInv, Kids, KidOK, CanPrint, Heard, Listening, Runs, Children
<1>5. SampleSettled(child)'
  BY <1>2, NothingMoves, SettledKeeps
<1>6. Cancelled'
  BY <1>3 DEF TrialInv, Cancelled
<1>7. Recorded'
  BY <1>3, <1>4 DEF TrialInv, Recorded, Openings
<1>8. Asked'
  BY <1>2, <1>3 DEF TrialInv, Asked, Openings
<1>9. QED
  BY <1>2, <1>4, <1>5, <1>6, <1>7, <1>8 DEF TrialInv

LEMMA CommandsSettleInv ==
    ASSUME TrialInv, CommandsSettle
    PROVE  TrialInv'
<1>1. /\ executor \in ExecutorState /\ executor.pc = "running" /\ executor.error = "none"
      /\ executor.sample = "none" /\ UNCHANGED <<trial, child, trigger, control, bridge>>
  BY DEF TrialInv, Judged, SampleSettled, CommandsSettle
<1>2. PICK error \in Failures \cup {"none"} :
         /\ executor' = [executor EXCEPT !.pc = "settling", !.error = error]
         /\ error = "none" => \A c \in Children : child[c].settled = "ok"
         /\ error # "none" => \E c \in Children : child[c].settled = error
  <2>1. CASE \A c \in Children : child[c].settled = "ok"
    <3>1. "ok" \notin Failures
      BY DEF Failures
    <3>2. executor' = [executor EXCEPT !.pc = "settling"]
      BY <2>1, <3>1 DEF CommandsSettle
    <3>3. executor' = [executor EXCEPT !.pc = "settling", !.error = "none"]
      BY <1>1, <3>2 DEF ExecutorState
    <3>4. QED
      BY <2>1, <3>3
  <2>2. CASE ~\A c \in Children : child[c].settled = "ok"
    <3>1. PICK c \in Children :
            /\ child[c].settled \in Failures
            /\ executor' = [executor EXCEPT !.pc = "settling", !.error = child[c].settled]
      BY <2>2 DEF CommandsSettle
    <3>2. "none" \notin Failures
      BY DEF Failures
    <3>3. QED
      BY <3>1, <3>2
  <2>3. QED
    BY <2>1, <2>2
<1>3. /\ executor' \in ExecutorState /\ executor'.pc = "settling" /\ executor'.error = error
      /\ executor'.sample = "none"
  BY <1>1, <1>2 DEF ExecutorState
<1>4. Kids' /\ Runs' = Runs /\ Heard(child)' /\ Cancelled'
  BY <1>1 DEF TrialInv, Kids, KidOK, CanPrint, Heard, Listening, Runs, Cancelled, Children
<1>5. SampleSettled(child)'
  BY <1>1, <1>2, <1>3 DEF SampleSettled, Children
<1>6. Judged'
  BY <1>1, <1>3 DEF TrialInv, Judged, CancelledByItself, RunsAreCounted
<1>7. Recorded' /\ Asked'
  BY <1>1, <1>3, <1>4 DEF TrialInv, Recorded, Asked, Openings
<1>8. QED
  BY <1>4, <1>5, <1>6, <1>7 DEF TrialInv

LEMMA TriggerSettlesInv ==
    ASSUME TrialInv, TriggerSettles
    PROVE  TrialInv'
<1>1. /\ executor.pc = "settling" /\ UNCHANGED <<trial, child, trigger, control>>
      /\ trial.lane \in {"native", "yorha"}
  BY DEF TrialInv, Recorded, TriggerSettles
<1>2. CASE trial.lane = "native"
  <2>1. executor' = Sampled(executor, bridge, FALSE) /\ UNCHANGED bridge
    BY <1>2 DEF TriggerSettles
  <2>2. Runs' = Runs
    BY <1>1 DEF Runs, Children
  <2>3. Recorded'
    BY <1>1, <2>1, <2>2 DEF TrialInv, Recorded, Openings
  <2>4. executor'.pc = "done" /\ executor'.error = executor.error
    BY <1>1, <2>1, SampledIs
  <2>5. Asked'
    BY <1>1, <2>1, <2>4 DEF TrialInv, Asked, Openings, Children
  <2>6. QED
    BY <1>1, <2>1, <2>3, <2>5, SampledInv
<1>3. CASE trial.lane = "yorha" /\ executor.error = "none" /\ bridge.opens = 0
           /\ control.aborted = "no"
  <2>1. ExecutorMoves([executor EXCEPT !.pc = "open"], FALSE, bridge)
    BY <1>3 DEF TriggerSettles
  <2>2. QED
    BY <1>1, <1>3, <2>1, GoesOnInv
<1>4. CASE trial.lane = "yorha" /\ ~(executor.error = "none" /\ bridge.opens = 0
           /\ control.aborted = "no")
  <2>1. ExecutorMoves([executor EXCEPT !.pc = "sync"], TRUE, bridge)
    BY <1>4 DEF TriggerSettles
  <2>2. QED
    BY <1>1, <1>4, <2>1, GoesOnInv
<1>5. QED
  BY <1>1, <1>2, <1>3, <1>4

LEMMA OpenGivenUpInv ==
    ASSUME TrialInv, OpenGivenUp
    PROVE  TrialInv'
<1>1. /\ executor.pc = "open" /\ UNCHANGED <<trial, child, trigger, control>>
      /\ ExecutorMoves([executor EXCEPT !.pc = "sync"], TRUE, bridge)
  BY DEF OpenGivenUp
<1>2. trial.lane = "yorha"
  BY <1>1 DEF TrialInv, Judged, Recorded
<1>3. QED
  BY <1>1, <1>2, GoesOnInv

LEMMA SyncGivenUpInv ==
    ASSUME TrialInv, SyncGivenUp
    PROVE  TrialInv'
<1>1. /\ executor.pc = "sync" /\ executor' = Sampled(executor, bridge, FALSE)
      /\ UNCHANGED <<trial, child, trigger, control, bridge>>
  BY DEF SyncGivenUp
<1>2. Runs' = Runs
  BY <1>1 DEF Runs, Children
<1>3. Recorded'
  BY <1>1, <1>2 DEF TrialInv, Recorded, Openings
<1>4. executor'.pc = "done" /\ executor'.error = executor.error
  BY <1>1, SampledIs
<1>5. Asked'
  BY <1>1, <1>4 DEF TrialInv, Asked, Openings, Children
<1>6. QED
  BY <1>1, <1>3, <1>5, SampledInv

-----------------------------------------------------------------------------
(* Who aborts                                                              *)

LEMMA AbortKeeps ==
    ASSUME TrialInv, NEW who \in {"external", "trigger", "flip"}, NEW change \in ControlState,
           change.aborted = control.aborted, Abort(who, change), UNCHANGED trial
    PROVE  /\ SampleFollows(child') /\ Heard(child)'
           /\ control' \in ControlState
           /\ control'.aborted = IF control.aborted = "no" THEN who ELSE control.aborted
           /\ control'.external = change.external /\ control'.changed = change.changed
<1>1. child' = AllStopped(child) /\ control' = [change EXCEPT !.aborted = IF @ = "no" THEN who ELSE @]
  BY DEF Abort
<1>2. /\ SampleFollows(child')
      /\ \A c \in Children : Listening(child'[c]) => child'[c].stop # "none"
  BY <1>1, NothingMoves, AllStoppedFollows
<1>3. Heard(child)'
  BY <1>2 DEF Heard, Listening, Children
<1>4. QED
  BY <1>1, <1>2, <1>3 DEF ControlState

LEMMA InterruptInv ==
    ASSUME TrialInv, Interrupt
    PROVE  TrialInv'
<1> DEFINE change == [control EXCEPT !.external = TRUE]
<1>1. /\ AtWork /\ Abort("external", change) /\ UNCHANGED <<trial, bridge, executor>>
      /\ trigger' = IF trigger.wait # "none"
                    THEN [outcome |-> "barrier_timeout", wait |-> "none"] ELSE trigger
  BY DEF Interrupt
<1>2. control \in ControlState /\ trigger \in TriggerState
  BY DEF TrialInv, Cancelled
<1>3. /\ change \in ControlState /\ change.aborted = control.aborted
      /\ change.external = TRUE /\ change.changed = control.changed
  BY <1>2 DEF ControlState
<1> HIDE DEF change
<1>4. /\ SampleFollows(child') /\ Heard(child)'
      /\ control' \in ControlState
      /\ control'.aborted = IF control.aborted = "no" THEN "external" ELSE control.aborted
      /\ control'.external = TRUE /\ control'.changed = control.changed
  BY <1>1, <1>3, AbortKeeps
<1>5. Kids' /\ Runs' = Runs /\ SampleSettled(child)'
  BY <1>1, <1>4, FollowsKeeps
<1>6. /\ trigger' \in TriggerState /\ trigger'.wait = "none"
      /\ trigger'.outcome = "cancel_sent" => trigger.outcome = "cancel_sent"
  BY <1>1, <1>2 DEF TriggerState
<1>7. Cancelled'
  BY <1>1, <1>4, <1>6 DEF TrialInv, Cancelled
<1>8. Judged'
  BY <1>1, JudgedKeeps DEF AtWork
<1>9. Recorded' /\ Asked'
  BY <1>1, <1>4, <1>5 DEF TrialInv, Recorded, Asked, Openings, Children
<1>10. QED
  BY <1>4, <1>5, <1>7, <1>8, <1>9 DEF TrialInv

-----------------------------------------------------------------------------
(* What comes in                                                           *)

\* The record of a flip.
LEMMA FlipArrivesInv ==
    ASSUME TrialInv, Arrives, Head(bridge.wire) = "backend_flip"
    PROVE  TrialInv'
<1> DEFINE change == [control EXCEPT !.changed = TRUE]
<1>1. /\ AtWork /\ bridge.wire # <<>> /\ UNCHANGED <<trial, trigger, executor>>
      /\ bridge' = [[bridge EXCEPT !.wire = Tail(@)] EXCEPT !.flips = 1]
      /\ Abort("flip", change)
  BY DEF Arrives
<1>2. control \in ControlState /\ bridge \in BridgeState
  BY DEF TrialInv, Cancelled, Recorded
<1>3. /\ change \in ControlState /\ change.aborted = control.aborted
      /\ change.external = control.external /\ change.changed = TRUE
  BY <1>2 DEF ControlState
<1> HIDE DEF change
<1>4. /\ SampleFollows(child') /\ Heard(child)'
      /\ control' \in ControlState
      /\ control'.aborted = IF control.aborted = "no" THEN "flip" ELSE control.aborted
      /\ control'.external = control.external /\ control'.changed = TRUE
  BY <1>1, <1>3, AbortKeeps
<1>5. Kids' /\ Runs' = Runs /\ SampleSettled(child)'
  BY <1>1, <1>4, FollowsKeeps
<1>6. /\ bridge' \in BridgeState /\ bridge'.wire = Tail(bridge.wire)
      /\ bridge'.opens = bridge.opens /\ bridge'.asked = bridge.asked
  <2>1. Tail(bridge.wire) \in Seq(Kinds)
    BY <1>1, <1>2 DEF BridgeState
  <2> DEFINE w == Tail(bridge.wire)
  <2>2. bridge' = [bridge EXCEPT !.wire = w, !.flips = 1]
    BY <1>1, <1>2 DEF BridgeState
  <2> HIDE DEF w
  <2>3. w \in Seq(Kinds)
    BY <2>1 DEF w
  <2>4. bridge' \in BridgeState /\ bridge'.wire = w /\ bridge'.opens = bridge.opens
        /\ bridge'.asked = bridge.asked
    BY <1>2, <2>2, <2>3 DEF BridgeState
  <2>5. QED
    BY <2>4 DEF w
<1>7. Cancelled'
  BY <1>1, <1>4, <1>6 DEF TrialInv, Cancelled
<1>8. Judged'
  BY <1>1 DEF AtWork, TrialInv, Judged, CancelledByItself, RunsAreCounted
<1>9. Recorded' /\ Asked'
  <2>1. bridge.opens \in Nat
    BY <1>2 DEF BridgeState
  <2>2. bridge'.opens = bridge.opens + (IF Head(bridge.wire) = "run_open" THEN 1 ELSE 0)
    BY <1>6, <2>1
  <2>3. QED
    BY <1>1, <1>4, <1>5, <1>6, <2>2, ReceiveKeeps
<1>10. QED
  BY <1>4, <1>5, <1>7, <1>8, <1>9 DEF TrialInv

\* The answer to the barrier of the trigger, which cancels.
LEMMA TriggerArrivesInv ==
    ASSUME TrialInv, Arrives, Head(bridge.wire) = "trigger"
    PROVE  TrialInv'
<1>1. /\ AtWork /\ bridge.wire # <<>> /\ UNCHANGED <<trial, executor>>
      /\ bridge' = [bridge EXCEPT !.wire = Tail(@)]
      /\ IF trigger.wait = "sync"
         THEN /\ trigger' = [outcome |-> "cancel_sent", wait |-> "none"]
              /\ Abort("trigger", control)
         ELSE UNCHANGED <<trigger, child, control>>
  BY DEF Arrives
<1>2. control \in ControlState /\ bridge \in BridgeState
  BY DEF TrialInv, Cancelled, Recorded
<1>3. /\ SampleFollows(child') /\ Heard(child)' /\ control' \in ControlState
      /\ control'.external = control.external /\ control'.changed = control.changed
      /\ control'.aborted = IF control.aborted = "no" /\ trigger.wait = "sync"
                            THEN "trigger" ELSE control.aborted
  <2>1. CASE trigger.wait = "sync"
    BY <1>1, <1>2, <2>1, AbortKeeps
  <2>2. CASE trigger.wait # "sync"
    <3>1. UNCHANGED <<child, control>>
      BY <1>1, <2>2
    <3>2. SampleFollows(child')
      BY <3>1, NothingMoves
    <3>3. Heard(child)'
      BY <1>1, <3>1 DEF TrialInv, Heard, Listening, Children
    <3>4. QED
      BY <1>2, <2>2, <3>1, <3>2, <3>3
  <2>3. QED
    BY <2>1, <2>2
<1>4. Kids' /\ Runs' = Runs /\ SampleSettled(child)'
  BY <1>1, <1>3, FollowsKeeps
<1>5. /\ bridge' \in BridgeState /\ bridge'.wire = Tail(bridge.wire)
      /\ bridge'.opens = bridge.opens /\ bridge'.asked = bridge.asked
      /\ bridge'.flips = bridge.flips
  <2> DEFINE w == Tail(bridge.wire)
  <2>1. bridge' = [bridge EXCEPT !.wire = w] /\ w \in Seq(Kinds)
    BY <1>1, <1>2 DEF BridgeState
  <2> HIDE DEF w
  <2>2. /\ bridge' \in BridgeState /\ bridge'.wire = w /\ bridge'.opens = bridge.opens
        /\ bridge'.asked = bridge.asked /\ bridge'.flips = bridge.flips
    BY <1>2, <2>1 DEF BridgeState
  <2>3. QED
    BY <2>2 DEF w
<1>6. Cancelled'
  <2>1. CASE trigger.wait = "sync"
    <3>1. /\ trigger' \in TriggerState /\ trigger'.wait = "none"
          /\ trigger'.outcome = "cancel_sent"
      BY <1>1, <2>1 DEF TriggerState
    <3>2. /\ control.aborted # "external" /\ bridge.opens > 0
          /\ control.aborted \in {"no", "external", "trigger", "flip"}
      BY <1>2, <2>1 DEF TrialInv, Cancelled, ControlState
    <3>3. QED
      BY <1>1, <1>3, <1>5, <2>1, <3>1, <3>2 DEF TrialInv, Cancelled
  <2>2. CASE trigger.wait # "sync"
    BY <1>1, <1>3, <1>5, <2>2 DEF TrialInv, Cancelled
  <2>3. QED
    BY <2>1, <2>2
<1>7. Judged'
  BY <1>1, <1>5, JudgedKeeps DEF AtWork
<1>8. Recorded' /\ Asked'
  <2>1. bridge'.opens = bridge.opens + (IF Head(bridge.wire) = "run_open" THEN 1 ELSE 0)
    BY <1>2, <1>5 DEF BridgeState
  <2>2. bridge'.flips > 0 => control'.changed
    BY <1>3, <1>5 DEF TrialInv, Recorded
  <2>3. QED
    BY <1>1, <1>4, <1>5, <2>1, <2>2, ReceiveKeeps
<1>9. QED
  BY <1>3, <1>4, <1>6, <1>7, <1>8 DEF TrialInv

\* The record of a run, for which the trigger or the executor may have waited.
LEMMA OpenArrivesInv ==
    ASSUME TrialInv, Arrives, Head(bridge.wire) = "run_open"
    PROVE  TrialInv'
<1> DEFINE rest == [bridge EXCEPT !.wire = Tail(@)]
           opened == [rest EXCEPT !.opens = @ + 1]
           told == IF trigger.wait = "open" THEN [opened EXCEPT !.asked = @ \cup {"trigger"}]
                   ELSE opened
           asks == (IF trigger.wait = "open" THEN {"trigger"} ELSE {}) \cup
                   (IF executor.pc = "open" THEN {"executor"} ELSE {})
<1>1. /\ AtWork /\ bridge.wire # <<>> /\ UNCHANGED <<trial, child, control>>
      /\ trigger' = IF trigger.wait = "open" THEN [trigger EXCEPT !.wait = "sync"] ELSE trigger
      /\ ExecutorMoves(IF executor.pc = "open" THEN [executor EXCEPT !.pc = "sync"]
                       ELSE executor, executor.pc = "open", told)
  BY DEF Arrives
<1>2. /\ trigger \in TriggerState /\ bridge \in BridgeState /\ executor \in ExecutorState
      /\ trial.lane = "yorha"
  BY <1>1 DEF TrialInv, Cancelled, Recorded, Judged
<1>3. /\ bridge' \in BridgeState /\ bridge'.wire = Tail(bridge.wire)
      /\ bridge'.opens = bridge.opens + 1 /\ bridge'.flips = bridge.flips
      /\ bridge'.asked = bridge.asked \cup asks
  <2> DEFINE w == Tail(bridge.wire)
             n == bridge.opens + 1
  <2>1. w \in Seq(Kinds) /\ n \in Nat
    BY <1>1, <1>2 DEF BridgeState
  <2>2. rest = [bridge EXCEPT !.wire = w]
    OBVIOUS
  <2> HIDE DEF w, rest
  <2>3. rest \in BridgeState /\ rest.wire = w /\ rest.opens = bridge.opens
        /\ rest.asked = bridge.asked /\ rest.flips = bridge.flips
    BY <1>2, <2>1, <2>2 DEF BridgeState
  <2>4. opened = [rest EXCEPT !.opens = n]
    BY <2>3 DEF BridgeState
  <2> HIDE DEF n, opened
  <2>5. opened \in BridgeState /\ opened.wire = w /\ opened.opens = n
        /\ opened.asked = bridge.asked /\ opened.flips = bridge.flips
    BY <2>1, <2>3, <2>4 DEF BridgeState
  <2>6. /\ told \in BridgeState /\ told.wire = w /\ told.opens = n
        /\ told.asked = bridge.asked \cup (IF trigger.wait = "open" THEN {"trigger"} ELSE {})
        /\ told.flips = bridge.flips
    BY <2>5 DEF BridgeState
  <2> HIDE DEF told
  <2>7. bridge' = IF executor.pc = "open" THEN [told EXCEPT !.asked = @ \cup {"executor"}]
                  ELSE told
    BY <1>1 DEF ExecutorMoves
  <2>8. /\ bridge' \in BridgeState /\ bridge'.wire = w /\ bridge'.opens = n
        /\ bridge'.asked = bridge.asked \cup asks /\ bridge'.flips = bridge.flips
    BY <2>6, <2>7 DEF BridgeState
  <2>9. QED
    BY <2>8 DEF w, n
<1>4. executor' = IF executor.pc = "open" THEN [executor EXCEPT !.pc = "sync"] ELSE executor
  BY <1>1 DEF ExecutorMoves
<1>5. /\ Judged' /\ executor'.error = executor.error
      /\ executor'.pc = IF executor.pc = "open" THEN "sync" ELSE executor.pc
  <2>1. CASE executor.pc = "open"
    BY <1>1, <1>2, <1>4, <2>1, WaitsOn
  <2>2. CASE executor.pc # "open"
    BY <1>1, <1>3, <1>4, <2>2, JudgedKeeps
  <2>3. QED
    BY <2>1, <2>2
<1> HIDE DEF told, asks
<1>6. Kids' /\ Heard(child)' /\ Runs' = Runs
  BY <1>1 DEF TrialInv, Kids, KidOK, CanPrint, Heard, Listening, Runs, Children
<1>7. SampleSettled(child)'
  BY <1>1, <1>5, NothingMoves, SettledKeeps
<1>8. Cancelled'
  <2>1. bridge'.opens > 0
    BY <1>2, <1>3 DEF BridgeState
  <2>2. /\ trigger' \in TriggerState /\ trigger'.outcome = trigger.outcome
        /\ trigger'.wait = IF trigger.wait = "open" THEN "sync" ELSE trigger.wait
    BY <1>1, <1>2 DEF TriggerState
  <2>3. QED
    BY <1>1, <2>1, <2>2 DEF TrialInv, Cancelled
<1>9. Recorded' /\ Asked'
  <2>1. bridge'.opens = bridge.opens + (IF Head(bridge.wire) = "run_open" THEN 1 ELSE 0)
    BY <1>3
  <2>2. bridge'.flips > 0 => control'.changed
    BY <1>1, <1>3 DEF TrialInv, Recorded
  <2>3. executor'.pc \in {"running", "settling", "open"} =>
              /\ executor.pc \in {"running", "settling", "open"}
              /\ bridge'.asked \subseteq bridge.asked \cup {"trigger"}
    BY <1>3, <1>5 DEF asks
  <2>4. QED
    BY <1>1, <1>3, <1>5, <1>6, <2>1, <2>2, <2>3, ReceiveKeeps
<1>10. QED
  BY <1>5, <1>6, <1>7, <1>8, <1>9 DEF TrialInv

\* The answer to the barrier of the executor: every run before it was counted.
LEMMA ExecutorArrivesInv ==
    ASSUME TrialInv, Arrives, Head(bridge.wire) = "executor"
    PROVE  TrialInv'
<1>1. /\ AtWork /\ bridge.wire # <<>> /\ UNCHANGED <<trial, child, trigger, control>>
      /\ bridge' = [bridge EXCEPT !.wire = Tail(@)]
      /\ executor' = IF executor.pc = "sync" THEN Sampled(executor, bridge, TRUE) ELSE executor
  BY DEF Arrives
<1>2. bridge \in BridgeState
  BY DEF TrialInv, Recorded
<1>3. /\ bridge' \in BridgeState /\ bridge'.wire = Tail(bridge.wire)
      /\ bridge'.opens = bridge.opens /\ bridge'.asked = bridge.asked
      /\ bridge'.flips = bridge.flips
  <2> DEFINE w == Tail(bridge.wire)
  <2>1. bridge' = [bridge EXCEPT !.wire = w] /\ w \in Seq(Kinds)
    BY <1>1, <1>2 DEF BridgeState
  <2> HIDE DEF w
  <2>2. /\ bridge' \in BridgeState /\ bridge'.wire = w /\ bridge'.opens = bridge.opens
        /\ bridge'.asked = bridge.asked /\ bridge'.flips = bridge.flips
    BY <1>2, <2>1 DEF BridgeState
  <2>3. QED
    BY <2>2 DEF w
<1>4. /\ executor'.error = executor.error
      /\ executor'.pc = IF executor.pc = "sync" THEN "done" ELSE executor.pc
  <2>1. CASE executor.pc = "sync"
    BY <1>1, <2>1, SampledIs
  <2>2. CASE executor.pc # "sync"
    BY <1>1, <2>2
  <2>3. QED
    BY <2>1, <2>2
<1>5. Runs' = Runs
  BY <1>1 DEF Runs, Children
<1>6. Recorded' /\ Asked'
  <2>1. bridge'.opens = bridge.opens + (IF Head(bridge.wire) = "run_open" THEN 1 ELSE 0)
    BY <1>2, <1>3 DEF BridgeState
  <2>2. bridge'.flips > 0 => control'.changed
    BY <1>1, <1>3 DEF TrialInv, Recorded
  <2>3. executor'.pc \in {"running", "settling", "open"} =>
              /\ executor.pc \in {"running", "settling", "open"}
              /\ bridge'.asked \subseteq bridge.asked \cup {"trigger"}
    BY <1>3, <1>4
  <2>4. QED
    BY <1>1, <1>3, <1>4, <1>5, <2>1, <2>2, <2>3, ReceiveKeeps
<1>7. executor.error = "none" => bridge.opens >= Cardinality(Children)
  <2>1. 1 \in DOMAIN bridge.wire /\ bridge.wire[1] = "executor"
    BY <1>1, <1>2 DEF BridgeState
  <2>2. Openings(bridge.wire, 1) = {}
    BY <2>1 DEF Openings
  <2>3. bridge.opens + Cardinality({}) = bridge.opens
    BY <1>2, FS_EmptySet DEF BridgeState
  <2>4. executor.error = "none" =>
          bridge.opens + Cardinality(Openings(bridge.wire, 1)) >= Cardinality(Children)
    BY <2>1 DEF TrialInv, Asked
  <2>5. QED
    BY <2>2, <2>3, <2>4
<1>8. CASE executor.pc = "sync"
  <2>1. executor' = Sampled(executor, bridge, TRUE)
    BY <1>1, <1>8
  <2>2. QED
    BY <1>1, <1>3, <1>6, <1>7, <1>8, <2>1, SampledInv
<1>9. CASE executor.pc # "sync"
  <2>1. UNCHANGED executor
    BY <1>1, <1>9
  <2>2. Judged'
    BY <1>1, <1>3, <2>1, JudgedKeeps
  <2>3. Kids' /\ Heard(child)'
    BY <1>1 DEF TrialInv, Kids, KidOK, CanPrint, Heard, Listening, Children
  <2>4. Cancelled'
    BY <1>1, <1>3 DEF TrialInv, Cancelled
  <2>5. SampleSettled(child)'
    BY <1>1, <2>1 DEF TrialInv, SampleSettled, Children
  <2>6. QED
    BY <1>6, <2>2, <2>3, <2>4, <2>5 DEF TrialInv
<1>10. QED
  BY <1>8, <1>9

LEMMA ArrivesInv ==
    ASSUME TrialInv, Arrives
    PROVE  TrialInv'
<1>1. Head(bridge.wire) \in Kinds
  BY DEF TrialInv, Recorded, BridgeState, Arrives
<1>2. QED
  BY <1>1, OpenArrivesInv, FlipArrivesInv, TriggerArrivesInv, ExecutorArrivesInv DEF Kinds

-----------------------------------------------------------------------------
(* The theorems                                                            *)

LEMMA TrialStarts ==
    ASSUME TrialInit
    PROVE  TrialInv
<1>1. 0 \in 0..MaxRecords
  BY TrialAssumption
<1>2. NotSpawned \in ChildState /\ KidOK(NotSpawned)
  BY <1>1 DEF NotSpawned, ChildState, KidOK
<1>3. Kids /\ \A c \in Children : child[c].settled = "pending" /\ child[c].runs = 0
  BY <1>2 DEF TrialInit, Kids, NotSpawned
<1>4. Heard(child)
  BY DEF TrialInit, Heard
<1>5. Cancelled
  BY DEF TrialInit, Cancelled, TriggerState, ControlState
<1>6. Recorded
  <2>1. Runs = {} /\ Openings(<<>>, 0) = {}
    BY <1>3 DEF Runs, Openings
  <2>2. Cardinality(Runs) = 0 /\ Cardinality(Openings(<<>>, 0)) = 0
    BY <2>1, FS_EmptySet
  <2>3. bridge \in BridgeState /\ bridge.wire = <<>> /\ bridge.opens = 0 /\ bridge.flips = 0
        /\ bridge.asked = {} /\ Len(<<>>) = 0
    BY DEF TrialInit, BridgeState
  <2>4. QED
    BY <2>2, <2>3 DEF TrialInit, Recorded
<1>7. Asked /\ SampleSettled(child)
  BY DEF TrialInit, Asked, SampleSettled
<1>8. Judged
  BY DEF TrialInit, Judged, ExecutorState, CancelledByItself, RunsAreCounted
<1>9. QED
  BY <1>3, <1>4, <1>5, <1>6, <1>7, <1>8 DEF TrialInv

LEMMA TrialGoesOn ==
    ASSUME TrialInv, [TrialNext]_trialVars
    PROVE  TrialInv'
<1>1. ASSUME NEW c \in Children, NEW class \in {"missing_model", "timeout", "cancel_failed"},
             PreflightFails(c, class)
      PROVE  TrialInv'
  BY <1>1, PreflightFailsInv
<1>2. ASSUME NEW c \in Children, NEW starts \in BOOLEAN, Spawn(c, starts)
      PROVE  TrialInv'
  BY <1>2, SpawnInv
<1>3. ASSUME NEW c \in Children, NEW class \in Refusals, Breaks(c, class)
      PROVE  TrialInv'
  <2>1. class \in Failures
    BY TrialAssumption DEF Failures
  <2>2. QED
    BY <1>3, <2>1, StopsInv DEF Breaks
<1>4. ASSUME NEW c \in Children, NEW what \in {"text", "tool", "end"}, Prints(c, what)
      PROVE  TrialInv'
  BY <1>4, PrintsInv
<1>5. ASSUME NEW c \in Children, NEW how \in {"ok", "bad"}, NEW helper \in Helpers,
             LeaderExits(c, how, helper)
      PROVE  TrialInv'
  BY <1>5, LeaderExitsInv
<1>6. ASSUME NEW c \in Children, NEW lingers \in BOOLEAN, Close(c, lingers)
      PROVE  TrialInv'
  BY <1>6, CloseInv
<1>7. ASSUME NEW c \in Children, TimesOut(c)
      PROVE  TrialInv'
  <2>1. "timeout" \in Failures
    BY DEF Failures
  <2>2. QED
    BY <1>7, <2>1, StopsInv DEF TimesOut
<1>8. ASSUME NEW c \in Children, HelperExits(c) \/ EscalationDue(c) \/ HardStop(c) \/ RunOpens(c)
      PROVE  TrialInv'
  BY <1>8, HelperExitsInv, EscalationDueInv, HardStopInv, RunOpensInv
<1>9. ASSUME NEW who \in {"trigger", "executor"}, Replies(who)
      PROVE  TrialInv'
  BY <1>9, RepliesInv
<1>10. ASSUME \/ Flips \/ Arrives \/ BarrierTimesOut \/ Interrupt \/ CommandsSettle
              \/ TriggerSettles \/ OpenGivenUp \/ SyncGivenUp
       PROVE  TrialInv'
  BY <1>10, FlipsInv, ArrivesInv, BarrierTimesOutInv, InterruptInv, CommandsSettleInv,
     TriggerSettlesInv, OpenGivenUpInv, SyncGivenUpInv
<1>11. CASE UNCHANGED trialVars
  <2>1. UNCHANGED <<trial, child, trigger, control, bridge, executor>>
    BY <1>11 DEF trialVars
  <2>2. SampleFollows(child')
    BY <2>1, NothingMoves
  <2>3. QED
    BY <2>1, <2>2, KidsStep
<1>12. QED
  BY <1>1, <1>2, <1>3, <1>4, <1>5, <1>6, <1>7, <1>8, <1>9, <1>10, <1>11 DEF TrialNext

\* A command that is left pending has a peer, whose failure the sample tells.
LEMMA TrialSays ==
    ASSUME TrialInv
    PROVE  TrialSound
<1>1. TrialTypeOK
  BY DEF TrialInv, Kids, Cancelled, Judged, TrialTypeOK, ChildState, TriggerState, ExecutorState
<1>2. ASSUME executor.pc = "done", NEW c \in Children
      PROVE  \/ /\ child[c].settled = "pending" /\ Cardinality(Children) > 1
                /\ executor.error # "none"
             \/ /\ child[c].leader # "up" /\ child[c].helper \in {"none", "escaped"}
                /\ child[c].helper = "escaped" => child[c].settled = "lingering_descendant"
  <2>1. CASE child[c].settled # "pending"
    BY <2>1 DEF TrialInv, Kids, KidOK
  <2>2. CASE child[c].settled = "pending"
    <3>1. executor.error # "none" /\ executor.error \in Failures
      BY <1>2, <2>2 DEF TrialInv, SampleSettled, Judged, ExecutorState
    <3>2. PICK d \in Children : child[d].settled = executor.error
      BY <3>1 DEF TrialInv, SampleSettled
    <3>3. c # d
      BY <2>2, <3>1, <3>2 DEF Failures
    <3>4. Cardinality(Children) > 1
      <4>1. IsFiniteSet(Children) /\ Cardinality(Children) \in Nat
        BY ChildrenFinite, FS_CardinalityType DEF TrialInv
      <4>2. Cardinality(Children) # 0
        BY <4>1, FS_EmptySet
      <4>3. Cardinality(Children) # 1
        BY <3>3, <4>1, FS_Singleton
      <4>4. QED
        BY <4>1, <4>2, <4>3
    <3>5. QED
      BY <2>2, <3>1, <3>4
  <2>3. QED
    BY <2>1, <2>2
<1>3. ProcessesEnd
  BY <1>2 DEF ProcessesEnd
<1>4. QED
  BY <1>1, <1>3 DEF TrialInv, Judged, TrialSound

\* The inductive invariant, for any commands, runs and records.
THEOREM TrialInvariant ==
    TrialSpec => []TrialInv
<1>1. TrialInit => TrialInv
  BY TrialStarts
<1>2. TrialInv /\ [TrialNext]_trialVars => TrialInv'
  BY TrialGoesOn
<1>3. QED
  BY <1>1, <1>2, PTL DEF TrialSpec

\* The sample of a trial is of what its commands and the bridge did: no interrupted
\* trial passes for a cancellation that worked, no process outlives its sample unseen
\* and no run is missed behind an answered barrier (executor.ts, omo-process.ts).
THEOREM TrialCorrect ==
    TrialSpec => []TrialSound
<1>1. TrialInv => TrialSound
  BY TrialSays
<1>2. QED
  BY <1>1, TrialInvariant, PTL
=============================================================================
