--------------------------- MODULE BackendProofs ----------------------------
(***************************************************************************)
(* Theorems about AutoBackend and SessionPool: which backend a request is  *)
(* given, and which HTTP/2 session the cursor-api backend sends it over.   *)
(* They hold for any number of requests, any threshold and cooldown, and   *)
(* any number of keys, sessions and streams and size of the map.           *)
(*                                                                         *)
(* That the map of sessions stays within its size rests on eviction finding*)
(* an oldest entry.  The code reads it off the order of a Map; here the    *)
(* order is what each session remembers of the entries before it, and that *)
(* a map that is not empty has a first entry is part of the invariant, said*)
(* of every part of the map, so that it survives any removal.              *)
(***************************************************************************)
EXTENDS AutoBackend, SessionPool, Cli, FiniteSetTheorems, SequenceTheorems, TLAPS

-----------------------------------------------------------------------------
(* AutoBackend                                                             *)

\* The probe in flight is the one the re-probe awaits, and it is only sent, and
\* awaited, while the fallback serves.
SwitchInv ==
    /\ TypeOK
    /\ FallbackIsTemporary
    /\ probes = IF reprobe = "pending" THEN 1 ELSE 0
    /\ reprobe = "pending" => active = "cli"
    /\ active = "cli" => Cli

LEMMA SwitchInitGood == Init => SwitchInv
BY AutoAssumption DEF Init, SwitchInv, TypeOK, FallbackIsTemporary

\* A request that is sent somewhere, or ends, keeps the types of its two variables.
LEMMA RequestTypes ==
    ASSUME TypeOK, NEW q \in Requests,
           \/ \E backend \in {"api", "cli"} : Send(q, backend)
           \/ Ends(q)
    PROVE  /\ req' \in [Requests -> {"idle", "waiting", "woken", "api", "cli"}]
           /\ hurt' \subseteq Requests \cup {"probe"}
BY DEF TypeOK, Send, Ends

LEMMA StartGood ==
    ASSUME SwitchInv, NEW q \in Requests, Start(q)
    PROVE  SwitchInv'
<1>1. CASE Begin(q)
  <2>1. Send(q, active) /\ active \in {"api", "cli"}
    BY <1>1 DEF Begin, SwitchInv, TypeOK
  <2>2. TypeOK'
    BY <1>1, <2>1, RequestTypes DEF Begin, SwitchInv, TypeOK
  <2>3. QED BY <1>1, <2>2 DEF Begin, SwitchInv, FallbackIsTemporary
<1>2. CASE BeginReprobe(q)
  <2>1. TypeOK'
    BY <1>2 DEF BeginReprobe, SwitchInv, TypeOK
  <2>2. QED BY <1>2, <2>1 DEF BeginReprobe, ReprobeDue, SwitchInv, FallbackIsTemporary
<1>3. CASE Resume(q)
  <2>1. Send(q, active) /\ active \in {"api", "cli"}
    BY <1>3 DEF Resume, SwitchInv, TypeOK
  <2>2. TypeOK'
    BY <1>3, <2>1, RequestTypes DEF Resume, SwitchInv, TypeOK
  <2>3. QED BY <1>3, <2>2 DEF Resume, SwitchInv, FallbackIsTemporary
<1>4. QED BY <1>1, <1>2, <1>3 DEF Start

LEMMA FinishGood ==
    ASSUME SwitchInv, NEW q \in Requests, Finish(q)
    PROVE  SwitchInv'
<1>1. CASE Ordinary(q)
  <2>1. TypeOK'
    BY <1>1, AutoAssumption, RequestTypes DEF Ordinary, Ends, SwitchInv, TypeOK
  <2>2. QED BY <1>1, <2>1 DEF Ordinary, Ends, SwitchInv, FallbackIsTemporary
<1>2. ASSUME NEW kind \in {"transport", "auth"}, Fail(q, kind)
      PROVE  SwitchInv'
  <2> DEFINE count == IF kind = "transport" /\ fatal < FatalThreshold
                      THEN fatal + 1 ELSE FatalThreshold
  <2>1. count \in 0..FatalThreshold /\ Cooldown \in 0..Cooldown
    BY AutoAssumption DEF SwitchInv, TypeOK
  <2>2. Ends(q) /\ fatal' = count
    BY <1>2 DEF Fail
  <2>3. \/ active' = "cli" /\ cooldown' = Cooldown /\ Cli
        \/ active' = active /\ cooldown' = cooldown
    BY <1>2 DEF Fail
  <2>4. TypeOK'
    BY <2>1, <2>2, <2>3, RequestTypes DEF Ends, SwitchInv, TypeOK
  <2>5. QED BY <2>2, <2>3, <2>4, AutoAssumption DEF Ends, SwitchInv, FallbackIsTemporary
<1>3. CASE Unrecorded(q)
  <2>1. TypeOK'
    BY <1>3, RequestTypes DEF Unrecorded, Ends, SwitchInv, TypeOK
  <2>2. QED BY <1>3, <2>1 DEF Unrecorded, Ends, SwitchInv, FallbackIsTemporary
<1>4. QED BY <1>1, <1>2, <1>3 DEF Finish

LEMMA ProbeGood ==
    ASSUME SwitchInv, ProbeSettles
    PROVE  SwitchInv'
<1>1. Cooldown \in 0..Cooldown /\ 0 \in 0..FatalThreshold
      /\ Cooldown # NoCooldown
  BY AutoAssumption
<1>2. CASE ProbeSucceeds
  BY <1>1, <1>2 DEF ProbeSucceeds, ProbeReturns, SwitchInv, TypeOK, FallbackIsTemporary
<1>3. CASE ProbeFails
  BY <1>1, <1>3 DEF ProbeFails, ProbeReturns, SwitchInv, TypeOK, FallbackIsTemporary
<1>4. QED BY <1>2, <1>3 DEF ProbeSettles

LEMMA SwitchNextGood == SwitchInv /\ [Next]_vars => SwitchInv'
<1> SUFFICES ASSUME SwitchInv, [Next]_vars PROVE SwitchInv'
  OBVIOUS
<1>1. ASSUME NEW q \in Requests, Start(q) PROVE SwitchInv'
  BY <1>1, StartGood
<1>2. ASSUME NEW q \in Requests, Finish(q) PROVE SwitchInv'
  BY <1>2, FinishGood
<1>3. CASE ProbeSettles
  BY <1>3, ProbeGood
<1>4. CASE ProbeCleared
  BY <1>4 DEF ProbeCleared, SwitchInv, TypeOK, FallbackIsTemporary
<1>5. CASE Tick
  <2>1. cooldown \in 0..Cooldown /\ cooldown' \in 0..Cooldown /\ cooldown' # NoCooldown
    BY <1>5, AutoAssumption DEF Tick, SwitchInv, TypeOK
  <2>2. QED BY <1>5, <2>1 DEF Tick, SwitchInv, TypeOK, FallbackIsTemporary
<1>6. CASE Up
  BY <1>6 DEF Up, SwitchInv, TypeOK, FallbackIsTemporary
<1>7. CASE Down
  BY <1>7 DEF Down, SwitchInv, TypeOK, FallbackIsTemporary
<1>8. CASE UNCHANGED vars
  BY <1>8 DEF vars, SwitchInv, TypeOK, FallbackIsTemporary
<1>9. QED BY <1>1, <1>2, <1>3, <1>4, <1>5, <1>6, <1>7, <1>8 DEF Next

LEMMA SwitchInvariant == Spec => []SwitchInv
BY SwitchInitGood, SwitchNextGood, PTL DEF Spec

-----------------------------------------------------------------------------
\* Every reachable state has its types: the failure count stays within the
\* threshold and a cooldown within its length.
THEOREM SwitchTypes == Spec => []TypeOK
<1>1. SwitchInv => TypeOK
  BY DEF SwitchInv
<1>2. QED BY <1>1, SwitchInvariant, PTL

\* A bridge that began on cursor-api serves from the fallback exactly while a
\* cooldown is recorded, whatever order failures and probes arrive in.
THEOREM FallbackEnds == Spec => []FallbackIsTemporary
<1>1. SwitchInv => FallbackIsTemporary
  BY DEF SwitchInv
<1>2. QED BY <1>1, SwitchInvariant, PTL

\* However many requests find the cooldown over, one probe is in flight.
THEOREM ProbeIsShared == Spec => []OneProbe
<1>1. SwitchInv => OneProbe
  BY DEF SwitchInv, OneProbe
<1>2. QED BY <1>1, SwitchInvariant, PTL

-----------------------------------------------------------------------------
(* The refinement.                                                         *)

LEMMA BreakerStep ==
    ASSUME Startup = "api", SwitchInv, SwitchInv', [Next]_vars
    PROVE  [Breaker!Next]_(Breaker!vars)
<1> USE DEF breakerState, Breaker!vars
<1>1. \/ active = "api" /\ cooldown = NoCooldown
      \/ active = "cli" /\ cooldown \in 0..Cooldown
  BY DEF SwitchInv, FallbackIsTemporary, TypeOK
<1>2. CASE UNCHANGED <<active, cooldown, reprobe>>
  BY <1>2
<1>3. ASSUME NEW q \in Requests, BeginReprobe(q)
      PROVE  [Breaker!Next]_(Breaker!vars)
  <2>1. CASE reprobe = "none"
    BY <1>3, <2>1, <1>1 DEF BeginReprobe, ReprobeDue, Breaker!Next, Breaker!Probe
  <2>2. CASE reprobe # "none"
    BY <1>3, <2>2, <1>2 DEF BeginReprobe
  <2>3. QED BY <2>1, <2>2
<1>4. ASSUME NEW q \in Requests, NEW kind \in {"transport", "auth"}, Fail(q, kind)
      PROVE  [Breaker!Next]_(Breaker!vars)
  <2>1. /\ reprobe' = reprobe
        /\ \/ active' = "cli" /\ cooldown' = Cooldown /\ Cli
           \/ active' = active /\ cooldown' = cooldown
    BY <1>4 DEF Fail, Ends
  <2>2. CASE active' = "cli" /\ cooldown' = Cooldown /\ Cli
    <3>1. CASE active = "api"
      BY <2>1, <2>2, <3>1 DEF SwitchInv, Breaker!Next, Breaker!Trip
    <3>2. CASE active = "cli"
      BY <2>1, <2>2, <3>2 DEF Breaker!Next, Breaker!Extend
    <3>3. QED BY <1>1, <3>1, <3>2
  <2>3. QED BY <1>2, <2>1, <2>2
<1>5. CASE ProbeSucceeds
  BY <1>1, <1>5 DEF ProbeSucceeds, ProbeReturns, SwitchInv, Breaker!Next, Breaker!ProbeSucceeds
<1>6. CASE ProbeFails
  BY <1>1, <1>6 DEF ProbeFails, ProbeReturns, SwitchInv, Breaker!Next, Breaker!ProbeFails
<1>7. CASE ProbeCleared
  BY <1>1, <1>7 DEF ProbeCleared
<1>8. CASE Tick
  BY <1>1, <1>8 DEF Tick, Breaker!Next, Breaker!Wait
<1>9. QED
  BY <1>2, <1>3, <1>4, <1>5, <1>6, <1>7, <1>8
     DEF Next, Start, Finish, ProbeSettles, Begin, Resume, Ordinary, Unrecorded,
         Ends, Up, Down, vars

\* A bridge that began on cursor-api implements the breaker: nothing but a probe
\* ends the fallback, and a probe is sent only after a whole cooldown.
THEOREM SwitchIsBreaker ==
    ASSUME Startup = "api"
    PROVE  Spec => ImplementsBreaker
<1>1. Init => Breaker!Init
  BY DEF Init, Breaker!Init, breakerState
<1>2. SwitchInv /\ SwitchInv' /\ [Next]_vars => [Breaker!Next]_(Breaker!vars)
  BY BreakerStep
<1>3. QED BY <1>1, <1>2, SwitchInvariant, PTL DEF Spec, Breaker!Spec, ImplementsBreaker

-----------------------------------------------------------------------------
(* SessionPool                                                             *)

\* Every part of the map has an entry before which nothing of that part was put.
HasOldest(map, ses) ==
    \A part \in SUBSET InMap(map) :
        part # {} => \E s \in part : ses[s].before \cap part = {}

\* Each entry is under its own key, and neither told to close nor over.
EntriesUsable(map, ses) ==
    \A k \in PoolKeys : map[k] # NoSession =>
        /\ ses[map[k]].key = k
        /\ ses[map[k]].state \in {"open", "destroyed"}

\* What can still be given to a request is in the map.
OpenInMap(map, ses) ==
    \A s \in PoolSessions : ses[s].state = "open" => s \in InMap(map)

\* A map and its sessions, as an openStream or an event leaves them.
MapOK(map, ses) ==
    /\ map \in [PoolKeys -> PoolSessions \cup {NoSession}]
    /\ ses \in [PoolSessions -> SessionEntry]
    /\ Cardinality(InMap(map)) <= MaxSessions
    /\ EntriesUsable(map, ses) /\ OpenInMap(map, ses) /\ HasOldest(map, ses)

\* A shut pool has no entry, and waits for each session that flushes.
Shut ==
    poolClosed =>
        /\ \A k \in PoolKeys : entries[k] = NoSession
        /\ \A s \in PoolSessions :
              session[s].state \in {"open", "closing"} => s \in awaited \/ expired

PoolInv == PoolTypeOK /\ MapOK(entries, session) /\ Shut
-----------------------------------------------------------------------------
(* The map                                                                 *)

\* There are finitely many sessions, so the map can be counted.
LEMMA InMapFinite ==
    ASSUME NEW map
    PROVE  IsFiniteSet(InMap(map)) /\ Cardinality(InMap(map)) \in Nat
BY PoolAssumption, FS_Subset, FS_CardinalityType, InMap(map) \in SUBSET PoolSessions
   DEF InMap

\* Entries that go, whatever becomes of the sessions that have none, leave a good map.
LEMMA Shrinks ==
    ASSUME NEW map, NEW ses, MapOK(map, ses),
           NEW map2 \in [PoolKeys -> PoolSessions \cup {NoSession}],
           NEW ses2 \in [PoolSessions -> SessionEntry],
           \A k \in PoolKeys : map2[k] \in {map[k], NoSession},
           \A s \in InMap(map2) : /\ ses2[s].before \subseteq ses[s].before
                                  /\ ses2[s].key = ses[s].key
                                  /\ ses2[s].state \in {"open", "destroyed"},
           OpenInMap(map2, ses2)
    PROVE  MapOK(map2, ses2)
<1>1. InMap(map2) \subseteq InMap(map)
  BY PoolAssumption DEF InMap
<1>2. Cardinality(InMap(map2)) <= MaxSessions
  <2>1. Cardinality(InMap(map2)) <= Cardinality(InMap(map))
    BY <1>1, InMapFinite, FS_Subset
  <2>2. QED
    BY <2>1, InMapFinite, PoolAssumption DEF MapOK
<1>3. EntriesUsable(map2, ses2)
  <2> SUFFICES ASSUME NEW k \in PoolKeys, map2[k] # NoSession
               PROVE  /\ ses2[map2[k]].key = k
                      /\ ses2[map2[k]].state \in {"open", "destroyed"}
    BY DEF EntriesUsable
  <2>1. map2[k] = map[k] /\ map2[k] \in InMap(map2)
    BY DEF InMap
  <2>2. QED
    BY <2>1 DEF MapOK, EntriesUsable
<1>4. HasOldest(map2, ses2)
  <2> SUFFICES ASSUME NEW part \in SUBSET InMap(map2), part # {}
               PROVE  \E s \in part : ses2[s].before \cap part = {}
    BY DEF HasOldest
  <2>1. PICK s \in part : ses[s].before \cap part = {}
    BY <1>1 DEF MapOK, HasOldest
  <2>2. ses2[s].before \subseteq ses[s].before
    OBVIOUS
  <2>3. QED
    BY <2>1, <2>2
<1>5. QED
  BY <1>2, <1>3, <1>4 DEF MapOK

\* A session that is no longer open leaves with its entry.
LEMMA Drops ==
    ASSUME NEW map, NEW ses, MapOK(map, ses), NEW s \in PoolSessions,
           NEW ses2 \in [PoolSessions -> SessionEntry],
           \A r \in PoolSessions \ {s} : ses2[r] = ses[r],
           ses2[s].state # "open"
    PROVE  MapOK(RemoveEntry(map, s), ses2)
<1> DEFINE map2 == RemoveEntry(map, s)
<1>1. map2 \in [PoolKeys -> PoolSessions \cup {NoSession}]
  BY DEF MapOK, RemoveEntry
<1>2. \A k \in PoolKeys : map2[k] \in {map[k], NoSession} /\ map2[k] # s
  BY PoolAssumption DEF MapOK, RemoveEntry
<1>3. \A r \in InMap(map2) : /\ ses2[r].before \subseteq ses[r].before
                             /\ ses2[r].key = ses[r].key
                             /\ ses2[r].state \in {"open", "destroyed"}
  <2> SUFFICES ASSUME NEW k \in PoolKeys, map2[k] \in PoolSessions
               PROVE  /\ ses2[map2[k]] = ses[map2[k]]
                      /\ ses2[map2[k]].state \in {"open", "destroyed"}
    BY DEF InMap
  <2>1. map2[k] = map[k] /\ map2[k] # s
    BY <1>2, PoolAssumption
  <2>2. QED
    BY <2>1, PoolAssumption DEF MapOK, EntriesUsable
<1>4. OpenInMap(map2, ses2)
  BY DEF MapOK, OpenInMap, RemoveEntry, InMap
<1> HIDE DEF map2
<1>5. MapOK(map2, ses2)
  BY <1>1, <1>2, <1>3, <1>4, Shrinks
<1>6. QED
  BY <1>5 DEF map2

\* The end of openStream, whether request() threw or not.
LEMMA Requested ==
    ASSUME NEW map, NEW ses, MapOK(map, ses), PoolTypeOK,
           NEW t \in PoolStreams, NEW s \in PoolSessions, Request(t, s, map, ses)
    PROVE  MapOK(entries', session') /\ stream' \in [PoolStreams -> PoolStream]
<1>1. CASE entries' = map /\ session' = ses
           /\ stream' = [stream EXCEPT ![t] = [state |-> "open", on |-> s]]
  BY <1>1 DEF PoolTypeOK, PoolStream
<1>2. CASE /\ entries' = RemoveEntry(map, s) /\ session' = CloseEntry(ses, s)
           /\ UNCHANGED stream
  <2>1. ses \in [PoolSessions -> SessionEntry]
    BY DEF MapOK
  <2>2. /\ CloseEntry(ses, s) \in [PoolSessions -> SessionEntry]
        /\ \A r \in PoolSessions \ {s} : CloseEntry(ses, s)[r] = ses[r]
        /\ CloseEntry(ses, s)[s].state # "open"
    BY <2>1 DEF CloseEntry, SessionEntry
  <2>3. MapOK(RemoveEntry(map, s), CloseEntry(ses, s))
    BY <2>2, Drops
  <2>4. QED
    BY <1>2, <2>3 DEF PoolTypeOK
<1>3. QED
  BY <1>1, <1>2 DEF Request

-----------------------------------------------------------------------------
(* Opening a session                                                       *)

\* The map and the sessions of createEntry, before the bound is enforced.
Drained(k) == [entries EXCEPT ![k] = NoSession]

Entered(k, s) == [Drained(k) EXCEPT ![k] = s]

WithNew(k, s) ==
    [r \in PoolSessions |->
        IF r = s THEN [state |-> "open", key |-> k, before |-> InMap(Drained(k))]
        ELSE [session[r] EXCEPT !.before = @ \ {s}]]

Bounded(map, out) == [j \in PoolKeys |-> IF map[j] \in out THEN NoSession ELSE map[j]]

\* createEntry: the map has one entry more at most, its sessions are usable, and the new
\* one, put last, leaves the order of the others as it was.
LEMMA Enters ==
    ASSUME PoolInv, NEW k \in PoolKeys, ~Usable(k), NEW s \in PoolSessions \ Alive
    PROVE  /\ Entered(k, s) \in [PoolKeys -> PoolSessions \cup {NoSession}]
           /\ WithNew(k, s) \in [PoolSessions -> SessionEntry]
           /\ InMap(Drained(k)) \subseteq InMap(entries)
           /\ s \notin InMap(entries)
           /\ InMap(Entered(k, s)) = InMap(Drained(k)) \cup {s}
           /\ Cardinality(InMap(Entered(k, s))) <= MaxSessions + 1
           /\ EntriesUsable(Entered(k, s), WithNew(k, s))
           /\ OpenInMap(Entered(k, s), WithNew(k, s))
           /\ HasOldest(Entered(k, s), WithNew(k, s))
<1> DEFINE drained == Drained(k)
           map == Entered(k, s)
           ses == WithNew(k, s)
<1>1. /\ entries \in [PoolKeys -> PoolSessions \cup {NoSession}]
      /\ session \in [PoolSessions -> SessionEntry]
      /\ s \in PoolSessions /\ session[s].state = "none" /\ s # NoSession
  BY PoolAssumption DEF PoolInv, PoolTypeOK, Alive
<1>2. s \notin InMap(entries)
  BY <1>1 DEF InMap, PoolInv, MapOK, EntriesUsable
<1>3. /\ drained \in [PoolKeys -> PoolSessions \cup {NoSession}]
      /\ drained[k] = NoSession
      /\ \A j \in PoolKeys \ {k} : drained[j] = entries[j]
  BY <1>1 DEF Drained
<1>4. InMap(drained) \subseteq InMap(entries)
  BY <1>1, <1>3, PoolAssumption DEF InMap
<1>5. /\ map \in [PoolKeys -> PoolSessions \cup {NoSession}]
      /\ map[k] = s
      /\ \A j \in PoolKeys \ {k} : map[j] = entries[j]
  BY <1>1, <1>3 DEF Entered
<1>6. InMap(map) = InMap(drained) \cup {s}
  BY <1>1, <1>3, <1>5, PoolAssumption DEF InMap
<1>7. /\ ses \in [PoolSessions -> SessionEntry]
      /\ ses[s] = [state |-> "open", key |-> k, before |-> InMap(drained)]
      /\ \A r \in PoolSessions \ {s} : /\ ses[r].state = session[r].state
                                       /\ ses[r].key = session[r].key
                                       /\ ses[r].before = session[r].before \ {s}
  <2>1. InMap(drained) \in SUBSET PoolSessions
    BY DEF InMap
  <2>2. QED
    BY <1>1, <2>1 DEF WithNew, SessionEntry
<1> HIDE DEF drained, map, ses
<1>8. Cardinality(InMap(map)) <= MaxSessions + 1
  <2>1. Cardinality(InMap(drained)) <= Cardinality(InMap(entries))
    BY <1>4, InMapFinite, FS_Subset
  <2>2. Cardinality(InMap(map)) <= Cardinality(InMap(drained)) + 1
    BY <1>6, InMapFinite, FS_AddElement
  <2>3. Cardinality(InMap(entries)) <= MaxSessions
    BY DEF PoolInv, MapOK
  <2>4. QED
    BY <2>1, <2>2, <2>3, InMapFinite, PoolAssumption
<1>9. EntriesUsable(map, ses)
  <2> SUFFICES ASSUME NEW j \in PoolKeys, map[j] # NoSession
               PROVE  /\ ses[map[j]].key = j
                      /\ ses[map[j]].state \in {"open", "destroyed"}
    BY DEF EntriesUsable
  <2>1. CASE j = k
    BY <2>1, <1>5, <1>7
  <2>2. CASE j # k
    <3>1. map[j] = entries[j] /\ entries[j] \in PoolSessions \ {s}
      BY <2>2, <1>1, <1>2, <1>5 DEF InMap
    <3>2. QED
      BY <3>1, <1>7 DEF PoolInv, MapOK, EntriesUsable
  <2>3. QED
    BY <2>1, <2>2
<1>10. OpenInMap(map, ses)
  <2> SUFFICES ASSUME NEW r \in PoolSessions, ses[r].state = "open", r # s
               PROVE  r \in InMap(map)
    BY <1>6 DEF OpenInMap
  <2>1. session[r].state = "open"
    BY <1>7
  <2>2. PICK j \in PoolKeys : entries[j] = r
    BY <2>1 DEF PoolInv, MapOK, OpenInMap, InMap
  <2>3. j # k
    BY <2>1, <2>2, PoolAssumption DEF Usable
  <2>4. QED
    BY <2>2, <2>3, <1>5 DEF InMap
<1>11. HasOldest(map, ses)
  <2> SUFFICES ASSUME NEW part \in SUBSET InMap(map), part # {}
               PROVE  \E r \in part : ses[r].before \cap part = {}
    BY DEF HasOldest
  <2>1. CASE part = {s}
    BY <2>1, <1>2, <1>4, <1>7
  <2>2. CASE part # {s}
    <3>1. part \ {s} \in SUBSET InMap(entries) /\ part \ {s} # {}
      BY <2>2, <1>4, <1>6
    <3>2. PICK r \in part \ {s} : session[r].before \cap (part \ {s}) = {}
      BY <3>1 DEF PoolInv, MapOK, HasOldest
    <3>3. r \in PoolSessions \ {s}
      BY <3>1 DEF InMap
    <3>4. ses[r].before \cap part = {}
      BY <3>2, <3>3, <1>7
    <3>5. QED
      BY <3>2, <3>4
  <2>3. QED
    BY <2>1, <2>2
<1>12. QED
  BY <1>2, <1>4, <1>5, <1>6, <1>7, <1>8, <1>9, <1>10, <1>11 DEF drained, map, ses

\* What enforceBound displaces makes room, and never the session just opened.
LEMMA Evicts ==
    ASSUME PoolInv, NEW k \in PoolKeys, ~Usable(k), NEW s \in PoolSessions \ Alive,
           NEW out, out = Displaced(Entered(k, s), s)
    PROVE  /\ out \in SUBSET PoolSessions /\ s \notin out
           /\ Cardinality(InMap(Bounded(Entered(k, s), out))) <= MaxSessions
<1> DEFINE map == Entered(k, s)
           rest == InMap(map) \ {s}
<1>1. /\ InMap(map) = InMap(Drained(k)) \cup {s}
      /\ InMap(Drained(k)) \subseteq InMap(entries)
      /\ s \notin InMap(entries)
      /\ Cardinality(InMap(map)) <= MaxSessions + 1
  BY Enters
<1>2. out \in SUBSET PoolSessions /\ s \notin out
  BY DEF Displaced, InMap
<1>3. InMap(Bounded(map, out)) \subseteq InMap(map) \ out
  BY PoolAssumption, <1>2 DEF Bounded, InMap
<1> HIDE DEF map
<1>4. CASE Cardinality(InMap(map)) <= MaxSessions
  <2>1. Cardinality(InMap(Bounded(map, out))) <= Cardinality(InMap(map))
    BY <1>3, InMapFinite, FS_Subset
  <2>2. QED
    BY <1>2, <1>4, <2>1, InMapFinite, PoolAssumption DEF map
<1>5. CASE ~(Cardinality(InMap(map)) <= MaxSessions)
  <2>1. rest \in SUBSET InMap(entries)
    BY <1>1
  <2>2. rest # {}
    <3>1. SUFFICES ASSUME rest = {} PROVE FALSE
      OBVIOUS
    <3>2. InMap(map) = {s}
      BY <1>1, <3>1
    <3>3. Cardinality(InMap(map)) = 1
      BY <3>2, FS_Singleton
    <3>4. QED
      BY <3>3, <1>5, PoolAssumption
  <2>3. PICK o \in rest : session[o].before \cap rest = {}
    BY <2>1, <2>2 DEF PoolInv, MapOK, HasOldest
  <2>4. o \in out
    BY <2>3, <1>5 DEF Displaced, map
  <2>5. InMap(Bounded(map, out)) \subseteq InMap(map) \ {o} /\ o \in InMap(map)
    BY <1>3, <2>3, <2>4
  <2>6. /\ IsFiniteSet(InMap(map) \ {o})
        /\ Cardinality(InMap(map) \ {o}) = Cardinality(InMap(map)) - 1
    BY <2>5, InMapFinite, FS_RemoveElement
  <2>7. Cardinality(InMap(Bounded(map, out))) <= Cardinality(InMap(map) \ {o})
    BY <2>5, <2>6, FS_Subset
  <2>8. \A a, b, c \in Nat : a <= b /\ b = c - 1 /\ c <= MaxSessions + 1 => a <= MaxSessions
    BY PoolAssumption
  <2>9. Cardinality(InMap(Bounded(map, out))) <= MaxSessions
    <3>1. /\ Cardinality(InMap(Bounded(map, out))) \in Nat /\ Cardinality(InMap(map)) \in Nat
          /\ Cardinality(InMap(map) \ {o}) \in Nat
      BY <2>6, InMapFinite, FS_CardinalityType
    <3>2. Cardinality(InMap(map)) <= MaxSessions + 1
      BY <1>1 DEF map
    <3>3. QED
      BY <2>6, <2>7, <2>8, <3>1, <3>2
  <2>10. QED
    BY <1>2, <2>9 DEF map
<1>6. QED
  BY <1>4, <1>5

\* createEntry and enforceBound together leave a good map.
LEMMA Displaces ==
    ASSUME PoolInv, NEW k \in PoolKeys, ~Usable(k), NEW s \in PoolSessions \ Alive,
           NEW out, out = Displaced(Entered(k, s), s)
    PROVE  MapOK(Bounded(Entered(k, s), out), Displace(out, WithNew(k, s)))
<1> DEFINE map == Entered(k, s)
           ses == WithNew(k, s)
           map2 == Bounded(map, out)
           ses2 == Displace(out, ses)
<1>1. /\ map \in [PoolKeys -> PoolSessions \cup {NoSession}]
      /\ ses \in [PoolSessions -> SessionEntry]
      /\ EntriesUsable(map, ses) /\ OpenInMap(map, ses) /\ HasOldest(map, ses)
  BY Enters
<1>2. out \in SUBSET PoolSessions /\ Cardinality(InMap(map2)) <= MaxSessions
  BY Evicts
<1> HIDE DEF map, ses
<1>3. map2 \in [PoolKeys -> PoolSessions \cup {NoSession}]
  BY <1>1 DEF Bounded
<1>4. /\ ses2 \in [PoolSessions -> SessionEntry]
      /\ \A r \in PoolSessions : /\ ses2[r].before = ses[r].before
                                 /\ ses2[r].key = ses[r].key
      /\ \A r \in PoolSessions \ out : ses2[r] = ses[r]
      /\ \A r \in PoolSessions : ses2[r].state = "open" => ses[r].state = "open" /\ r \notin out
  BY <1>1 DEF Displace, SessionEntry
<1>5. \A j \in PoolKeys : map2[j] # NoSession => map2[j] = map[j] /\ map[j] \in PoolSessions \ out
  BY <1>1 DEF Bounded
<1>6. InMap(map2) \subseteq InMap(map)
  BY <1>5, PoolAssumption DEF InMap
<1>7. EntriesUsable(map2, ses2)
  BY <1>1, <1>4, <1>5 DEF EntriesUsable
<1>8. OpenInMap(map2, ses2)
  <2> SUFFICES ASSUME NEW r \in PoolSessions, ses2[r].state = "open"
               PROVE  r \in InMap(map2)
    BY DEF OpenInMap
  <2>1. r \notin out /\ r \in InMap(map)
    BY <1>1, <1>4 DEF OpenInMap
  <2>2. PICK j \in PoolKeys : map[j] = r
    BY <2>1 DEF InMap
  <2>3. map2[j] = r
    BY <2>1, <2>2 DEF Bounded
  <2>4. QED
    BY <2>3 DEF InMap
<1>9. HasOldest(map2, ses2)
  <2> SUFFICES ASSUME NEW part \in SUBSET InMap(map2), part # {}
               PROVE  \E r \in part : ses2[r].before \cap part = {}
    BY DEF HasOldest
  <2>1. PICK r \in part : ses[r].before \cap part = {}
    BY <1>1, <1>6 DEF HasOldest
  <2>2. r \in PoolSessions
    BY DEF InMap
  <2>3. QED
    BY <1>4, <2>1, <2>2
<1>10. MapOK(map2, ses2)
  BY <1>2, <1>3, <1>4, <1>7, <1>8, <1>9 DEF MapOK
<1>11. QED
  BY <1>10 DEF map, ses

-----------------------------------------------------------------------------
(* The invariant                                                           *)

\* The initial pool satisfies the invariant.
LEMMA PoolInitInv ==
    ASSUME PoolInit PROVE PoolInv
<1>1. PoolTypeOK
  BY DEF PoolInit, PoolTypeOK, SessionEntry, NoEntry, PoolStream, NoStream
<1>2. InMap(entries) = {}
  BY PoolAssumption DEF PoolInit, InMap
<1>3. Cardinality(InMap(entries)) <= MaxSessions
  BY <1>2, FS_EmptySet, PoolAssumption
<1>4. MapOK(entries, session)
  BY <1>1, <1>2, <1>3
     DEF MapOK, PoolTypeOK, PoolInit, EntriesUsable, OpenInMap, HasOldest, NoEntry
<1>5. Shut
  BY DEF PoolInit, Shut
<1>6. QED
  BY <1>1, <1>4, <1>5 DEF PoolInv

\* openStream on the session of the map.
LEMMA OpenOnEntryKeeps ==
    ASSUME PoolInv, NEW t \in PoolStreams, NEW k \in PoolKeys, OpenOnEntry(t, k)
    PROVE  PoolInv'
<1>1. MapOK(entries, session) /\ PoolTypeOK /\ ~poolClosed
  BY DEF PoolInv, OpenOnEntry
<1>2. entries[k] \in PoolSessions
  BY DEF OpenOnEntry, Usable, PoolInv, PoolTypeOK
<1>3. Request(t, entries[k], entries, session)
  BY DEF OpenOnEntry
<1>4. MapOK(entries', session') /\ stream' \in [PoolStreams -> PoolStream]
  BY <1>1, <1>2, <1>3, Requested
<1>5. MapOK(entries, session)' /\ PoolTypeOK'
  BY <1>1, <1>4 DEF OpenOnEntry, PoolTypeOK, MapOK, EntriesUsable, OpenInMap, HasOldest, InMap
<1>6. Shut'
  BY <1>1 DEF OpenOnEntry, Shut
<1>7. QED
  BY <1>5, <1>6 DEF PoolInv

\* openStream on a session it creates.
LEMMA OpenOnNewSessionKeeps ==
    ASSUME PoolInv, NEW t \in PoolStreams, NEW k \in PoolKeys, OpenOnNewSession(t, k)
    PROVE  PoolInv'
<1>1. PoolTypeOK /\ ~poolClosed /\ ~Usable(k) /\ UNCHANGED <<poolClosed, awaited, expired>>
  BY DEF PoolInv, OpenOnNewSession
<1>2. PICK s \in PoolSessions \ Alive :
          Request(t, s, Bounded(Entered(k, s), Displaced(Entered(k, s), s)),
                  Displace(Displaced(Entered(k, s), s), WithNew(k, s)))
  BY DEF OpenOnNewSession, Bounded, Entered, Drained, WithNew
<1> DEFINE out == Displaced(Entered(k, s), s)
<1>3. MapOK(Bounded(Entered(k, s), out), Displace(out, WithNew(k, s)))
  BY <1>1, Displaces
<1>4. MapOK(entries', session') /\ stream' \in [PoolStreams -> PoolStream]
  BY <1>1, <1>2, <1>3, Requested
<1>5. MapOK(entries, session)' /\ PoolTypeOK'
  BY <1>1, <1>4 DEF PoolTypeOK, MapOK, EntriesUsable, OpenInMap, HasOldest, InMap
<1>6. Shut'
  BY <1>1 DEF Shut
<1>7. QED
  BY <1>5, <1>6 DEF PoolInv

\* A session that stops taking streams leaves with its entry, and a shut pool goes on
\* waiting for it if it flushes.
LEMMA LeavingKeeps ==
    ASSUME PoolInv, NEW s \in PoolSessions,
           entries' = RemoveEntry(entries, s),
           NEW e \in SessionEntry, e.state # "open",
           session' = [session EXCEPT ![s] = e],
           stream' \in [PoolStreams -> PoolStream],
           UNCHANGED <<poolClosed, expired>>,
           awaited' \in SUBSET PoolSessions,
           awaited \ {s} \subseteq awaited',
           e.state = "closing" => session[s].state \in {"open", "closing"} /\ awaited' = awaited
    PROVE  PoolInv'
<1>1. MapOK(entries, session)
  BY DEF PoolInv
<1>2. /\ session' \in [PoolSessions -> SessionEntry]
      /\ \A r \in PoolSessions \ {s} : session'[r] = session[r]
      /\ session'[s] = e
  BY DEF PoolInv, PoolTypeOK
<1>3. MapOK(RemoveEntry(entries, s), session')
  BY <1>1, <1>2, Drops
<1>4. MapOK(entries, session)'
  BY <1>3 DEF MapOK, EntriesUsable, OpenInMap, HasOldest, InMap
<1>5. PoolTypeOK'
  BY <1>2, <1>4 DEF PoolInv, PoolTypeOK, MapOK
<1>6. Shut'
  <2> SUFFICES ASSUME poolClosed
               PROVE  /\ \A k \in PoolKeys : entries'[k] = NoSession
                      /\ \A r \in PoolSessions : session'[r].state \in {"open", "closing"}
                             => r \in awaited' \/ expired
    BY DEF Shut
  <2>1. \A k \in PoolKeys : entries'[k] = NoSession
    BY DEF PoolInv, Shut, RemoveEntry
  <2>2. \A r \in PoolSessions : session'[r].state \in {"open", "closing"}
            => r \in awaited' \/ expired
    BY <1>2 DEF PoolInv, Shut
  <2>3. QED
    BY <2>1, <2>2
<1>7. QED
  BY <1>4, <1>5, <1>6 DEF PoolInv

\* 'goaway', 'error' and 'close'.
LEMMA EventsKeep ==
    ASSUME PoolInv, NEW s \in PoolSessions, GoAway(s) \/ SessionFails(s) \/ SessionCloses(s)
    PROVE  PoolInv'
<1>0. /\ session \in [PoolSessions -> SessionEntry]
      /\ stream \in [PoolStreams -> PoolStream] /\ awaited \in SUBSET PoolSessions
  BY DEF PoolInv, PoolTypeOK
<1>1. CASE GoAway(s)
  <2>1. PICK state \in {"closing", "destroyed"} : session' = [session EXCEPT ![s].state = state]
    BY <1>1 DEF GoAway
  <2> DEFINE e == [session[s] EXCEPT !.state = state]
  <2>2. e \in SessionEntry /\ e.state = state /\ session' = [session EXCEPT ![s] = e]
    BY <1>0, <2>1 DEF SessionEntry
  <2> HIDE DEF e
  <2>3. QED
    BY <1>0, <1>1, <2>2, LeavingKeeps DEF GoAway
<1>2. CASE SessionFails(s)
  <2> DEFINE e == [session[s] EXCEPT !.state = "destroyed"]
  <2>1. e \in SessionEntry /\ e.state = "destroyed" /\ session' = [session EXCEPT ![s] = e]
    BY <1>0, <1>2 DEF SessionEntry, SessionFails
  <2>2. stream' \in [PoolStreams -> PoolStream]
    BY <1>0, <1>2 DEF SessionFails, DestroyStreams, PoolStream
  <2> HIDE DEF e
  <2>3. QED
    BY <1>0, <1>2, <2>1, <2>2, LeavingKeeps DEF SessionFails
<1>3. CASE SessionCloses(s)
  <2>1. NoEntry \in SessionEntry /\ NoEntry.state = "none"
    BY DEF SessionEntry, NoEntry
  <2>2. stream' \in [PoolStreams -> PoolStream]
    BY <1>0, <1>3 DEF SessionCloses, PoolStream, NoStream
  <2>3. QED
    BY <1>0, <1>3, <2>1, <2>2, LeavingKeeps DEF SessionCloses
<1>4. QED
  BY <1>1, <1>2, <1>3

\* A socket that ended leaves its entry behind, and it is not open any more.
LEMMA SocketEndsKeeps ==
    ASSUME PoolInv, NEW s \in PoolSessions, SocketEnds(s)
    PROVE  PoolInv'
<1>1. MapOK(entries, session) /\ session \in [PoolSessions -> SessionEntry]
  BY DEF PoolInv, PoolTypeOK
<1>2. /\ session' \in [PoolSessions -> SessionEntry]
      /\ \A r \in PoolSessions \ {s} : session'[r] = session[r]
      /\ session'[s].before = session[s].before
      /\ session'[s].key = session[s].key
      /\ session'[s].state = "destroyed"
  BY <1>1 DEF SocketEnds, SessionEntry
<1>3. OpenInMap(entries, session')
  BY <1>1, <1>2 DEF MapOK, OpenInMap
<1>4. \A r \in InMap(entries) : /\ session'[r].before \subseteq session[r].before
                                /\ session'[r].key = session[r].key
                                /\ session'[r].state \in {"open", "destroyed"}
  BY <1>1, <1>2, PoolAssumption DEF MapOK, EntriesUsable, InMap
<1>5. MapOK(entries, session')
  BY <1>1, <1>2, <1>3, <1>4, Shrinks DEF MapOK
<1>6. MapOK(entries, session)' /\ PoolTypeOK'
  BY <1>2, <1>5
     DEF SocketEnds, PoolInv, PoolTypeOK, MapOK, EntriesUsable, OpenInMap, HasOldest, InMap
<1>7. Shut'
  BY <1>2 DEF PoolInv, SocketEnds, Shut
<1>8. QED
  BY <1>6, <1>7 DEF PoolInv

\* shutdown: the map is empty and every session that was open is flushing.
LEMMA PoolShutdownKeeps ==
    ASSUME PoolInv, PoolShutdown
    PROVE  PoolInv'
<1>1. MapOK(entries, session) /\ session \in [PoolSessions -> SessionEntry]
  BY DEF PoolInv, PoolTypeOK
<1>2. entries' \in [PoolKeys -> PoolSessions \cup {NoSession}]
  BY DEF PoolShutdown
<1>3. InMap(entries') = {}
  BY PoolAssumption DEF PoolShutdown, InMap
<1>4. /\ session' \in [PoolSessions -> SessionEntry]
      /\ \A s \in PoolSessions : session'[s].state # "open"
      /\ \A s \in PoolSessions : session'[s].state = "closing" => s \in Awaits
  BY <1>1 DEF PoolShutdown, Displace, Alive, Awaits, SessionEntry
<1>5. MapOK(entries', session')
  <2>1. \A k \in PoolKeys : entries'[k] \in {entries[k], NoSession}
    BY DEF PoolShutdown
  <2>2. OpenInMap(entries', session')
    BY <1>4 DEF OpenInMap
  <2>3. QED
    BY <1>1, <1>2, <1>3, <1>4, <2>1, <2>2, Shrinks
<1>6. MapOK(entries, session)'
  BY <1>5 DEF MapOK, EntriesUsable, OpenInMap, HasOldest, InMap
<1>7. PoolTypeOK'
  <2>1. stream' \in [PoolStreams -> PoolStream]
    BY DEF PoolInv, PoolTypeOK, PoolShutdown, DestroyStreams, PoolStream
  <2>2. awaited' \subseteq PoolSessions
    BY DEF PoolShutdown, Awaits, Alive
  <2>3. QED
    BY <1>2, <1>4, <2>1, <2>2 DEF PoolInv, PoolTypeOK, PoolShutdown
<1>8. Shut'
  BY <1>4 DEF PoolShutdown, Shut
<1>9. QED
  BY <1>6, <1>7, <1>8 DEF PoolInv

\* Every step of the pool keeps the invariant.
LEMMA PoolNextInv ==
    ASSUME PoolInv, [PoolNext]_poolVars PROVE PoolInv'
<1>1. CASE \E t \in PoolStreams, k \in PoolKeys : OpenOnEntry(t, k) \/ OpenOnNewSession(t, k)
  BY <1>1, OpenOnEntryKeeps, OpenOnNewSessionKeeps
<1>2. CASE \E s \in PoolSessions :
             GoAway(s) \/ SessionFails(s) \/ SocketEnds(s) \/ SessionCloses(s)
  BY <1>2, EventsKeep, SocketEndsKeeps
<1>3. CASE \E t \in PoolStreams : StreamCloses(t)
  BY <1>3 DEF StreamCloses, PoolInv, PoolTypeOK, PoolStream, NoStream, MapOK, EntriesUsable,
              OpenInMap, HasOldest, InMap, Shut
<1>4. CASE PoolShutdown
  BY <1>4, PoolShutdownKeeps
<1>5. CASE ShutdownTimer
  BY <1>5 DEF ShutdownTimer, PoolInv, PoolTypeOK, MapOK, EntriesUsable, OpenInMap, HasOldest,
              InMap, Shut
<1>6. CASE UNCHANGED poolVars
  BY <1>6 DEF poolVars, PoolInv, PoolTypeOK, MapOK, EntriesUsable, OpenInMap, HasOldest,
              InMap, Shut
<1>7. QED
  BY <1>1, <1>2, <1>3, <1>4, <1>5, <1>6 DEF PoolNext

\* The invariant says what the pool promises.
LEMMA PoolInvSound ==
    ASSUME PoolInv PROVE PoolSound
<1>1. PoolTypeOK /\ PoolBounded
  BY DEF PoolInv, MapOK, PoolBounded, EntriesUsable
<1>2. NoLostSession
  BY DEF PoolInv, MapOK, OpenInMap, NoLostSession, Alive
<1>3. ShutdownFlushes
  BY DEF PoolInv, Shut, ShutdownFlushes
<1>4. QED
  BY <1>1, <1>2, <1>3 DEF PoolSound

-----------------------------------------------------------------------------
(* Theorems                                                                *)

\* PoolInv is an invariant of the pool.
THEOREM PoolInvariant == PoolSpec => []PoolInv
<1>1. QED
  BY PoolInitInv, PoolNextInv, PTL DEF PoolSpec

\* In every state the map is within its size and holds under each key a session that
\* was not told to close, no session that is still open is out of the map, and a
\* shutdown that did not give up has waited for every session's flush (openStream,
\* enforceBound, removeEntry, shutdown).
THEOREM PoolCorrect == PoolSpec => []PoolSound
<1>1. QED
  BY PoolInvariant, PoolInvSound, PTL

\* No openStream cuts a stream or destroys a session: making room drains.
THEOREM OpeningSpares == PoolSpec => OpeningSparesStreams
<1>1. ASSUME PoolInv, [PoolNext]_poolVars PROVE [SparesStreams]_poolVars
  <2> SUFFICES ASSUME NEW t \in PoolStreams, stream[t].state = "none", stream'[t].state = "open"
               PROVE  /\ \A u \in PoolStreams : stream[u].state = "open" => stream'[u] = stream[u]
                      /\ \A s \in PoolSessions :
                            session'[s].state = "destroyed" => session[s].state = "destroyed"
    BY DEF SparesStreams
  <2>0. /\ session \in [PoolSessions -> SessionEntry]
        /\ stream \in [PoolStreams -> PoolStream]
    BY <1>1 DEF PoolInv, PoolTypeOK
  <2>1. ASSUME NEW u \in PoolStreams, NEW k \in PoolKeys, OpenOnEntry(u, k)
        PROVE  /\ \A v \in PoolStreams : stream[v].state = "open" => stream'[v] = stream[v]
               /\ \A s \in PoolSessions :
                     session'[s].state = "destroyed" => session[s].state = "destroyed"
    BY <2>0, <2>1 DEF OpenOnEntry, Request, CloseEntry, SessionEntry
  <2>2. ASSUME NEW u \in PoolStreams, NEW k \in PoolKeys, OpenOnNewSession(u, k)
        PROVE  /\ \A v \in PoolStreams : stream[v].state = "open" => stream'[v] = stream[v]
               /\ \A s \in PoolSessions :
                     session'[s].state = "destroyed" => session[s].state = "destroyed"
    <3>1. PICK s \in PoolSessions \ Alive :
              Request(u, s, Bounded(Entered(k, s), Displaced(Entered(k, s), s)),
                      Displace(Displaced(Entered(k, s), s), WithNew(k, s)))
      BY <2>2 DEF OpenOnNewSession, Bounded, Entered, Drained, WithNew
    <3> DEFINE ses == Displace(Displaced(Entered(k, s), s), WithNew(k, s))
    <3>2. \A r \in PoolSessions : ses[r].state = "destroyed" => session[r].state = "destroyed"
      BY <2>0 DEF Displace, WithNew, SessionEntry
    <3>3. WithNew(k, s) \in [PoolSessions -> SessionEntry]
      <4>1. ~Usable(k)
        BY <2>2 DEF OpenOnNewSession
      <4>2. QED
        BY <1>1, <4>1, Enters
    <3>4. ses \in [PoolSessions -> SessionEntry]
      BY <3>3 DEF Displace, SessionEntry
    <3> HIDE DEF ses
    <3>5. Request(u, s, Bounded(Entered(k, s), Displaced(Entered(k, s), s)), ses)
      BY <3>1 DEF ses
    <3>6. stream[u].state = "none"
      BY <2>2 DEF OpenOnNewSession
    <3>7. session' = ses \/ session' = CloseEntry(ses, s)
      BY <3>5 DEF Request
    <3>8. \A v \in PoolStreams : stream[v].state = "open" => stream'[v] = stream[v]
      BY <2>0, <3>5, <3>6 DEF Request
    <3>9. QED
      BY <3>2, <3>4, <3>7, <3>8 DEF CloseEntry, SessionEntry
  <2>3. CASE \E s \in PoolSessions :
               GoAway(s) \/ SessionFails(s) \/ SocketEnds(s) \/ SessionCloses(s)
    <3>1. stream'[t] = stream[t] \/ stream'[t] = NoStream
      BY <2>0, <2>3 DEF GoAway, SessionFails, SocketEnds, SessionCloses, DestroyStreams
    <3>2. QED
      BY <3>1 DEF NoStream
  <2>4. CASE (\E u \in PoolStreams : StreamCloses(u)) \/ ShutdownTimer \/ UNCHANGED poolVars
    BY <2>0, <2>4 DEF StreamCloses, NoStream, ShutdownTimer, poolVars
  <2>5. CASE PoolShutdown
    BY <2>0, <2>5 DEF PoolShutdown, DestroyStreams
  <2>6. QED
    BY <1>1, <2>1, <2>2, <2>3, <2>4, <2>5 DEF PoolNext
<1>2. QED
  BY <1>1, PoolInvariant, PTL DEF PoolSpec, OpeningSparesStreams

-----------------------------------------------------------------------------
(***************************************************************************)
(* Theorems about Cli, for every number of completions and both modes.     *)
(*                                                                         *)
(* A completion has a child, a timer and, in a real workspace, the mutex   *)
(* exactly while its command is under way (Shape), and the queue is the    *)
(* completions that wait, each once (Queued).  The hand-over of the        *)
(* workspace to the first waiter, which every end of a command goes        *)
(* through, is one lemma; the actions only say how they get there.         *)
(***************************************************************************)

Real == workspaceMode = "real-workspace"

\* What a completion has, given where it is.
Shape(s) ==
    /\ s.pc \in {"idle", "creating", "waiting"} =>
          s.attempt = 0 /\ s.child = "none" /\ ~s.timer /\ ~s.holds /\ ~s.directory
    /\ s.pc = "waiting" => Real
    /\ s.pc \in {"idle", "waiting"} => ~s.aborted
    /\ s.pc = "creating" => ~Real
    /\ s.pc = "command" => s.child # "none" /\ (s.holds <=> Real)
    /\ s.pc \in {"cleaning", "answered"} => s.child = "none" /\ ~s.timer /\ ~s.holds
    /\ s.pc = "answered" => ~s.directory

CliTyped ==
    /\ prompt \in [Prompts -> PromptState]
    /\ workspaceMode \in WorkspaceModes
    /\ waiters \in Seq(Prompts)
    /\ mutexHeld \in BOOLEAN
    /\ registry \subseteq {p \in Prompts : prompt[p].pc = "command"}
    /\ cliShutdown \in [phase : {"none", "waiting", "done"}, commands : SUBSET Prompts]

Waiting == {p \in Prompts : prompt[p].pc = "waiting"}

\* A queue of completions, each in it once.
QueueOf(queue, S) == queue \in Seq(Prompts) /\ IsInjective(queue) /\ ToSet(queue) = S

\* The mutex is held by one completion, or free.
OneHolder ==
    /\ mutexHeld <=> \E p \in Prompts : prompt[p].holds
    /\ \A p, r \in Prompts : prompt[p].holds /\ prompt[r].holds => p = r

IInv ==
    /\ CliTyped
    /\ \A p \in Prompts : Shape(prompt[p])
    /\ OneHolder
    /\ QueueOf(waiters, Waiting)
    /\ waiters # <<>> => mutexHeld
-----------------------------------------------------------------------------
(* The queue                                                               *)

\* push: the new waiter is last.
LEMMA QueueGrows ==
    ASSUME NEW queue, NEW S, QueueOf(queue, S), NEW p \in Prompts, p \notin S
    PROVE  QueueOf(Append(queue, p), S \cup {p})
<1> DEFINE longer == Append(queue, p)
<1>1. queue \in Seq(Prompts) /\ Len(queue) \in Nat /\ DOMAIN queue = 1..Len(queue)
  BY DEF QueueOf
<1>2. /\ longer \in Seq(Prompts) /\ Len(longer) = Len(queue) + 1
      /\ \A i \in 1..Len(queue) : longer[i] = queue[i]
      /\ longer[Len(queue) + 1] = p
  BY <1>1, AppendProperties
<1>3. DOMAIN longer = 1..(Len(queue) + 1)
  BY <1>2
<1> HIDE DEF longer
<1>4. \A i \in 1..Len(queue) : queue[i] \in S /\ queue[i] # p
  BY <1>1 DEF QueueOf, ToSet
<1>5. \A i \in DOMAIN longer : i \in 1..Len(queue) \/ i = Len(queue) + 1
  BY <1>1, <1>3
<1>6. IsInjective(longer)
  BY <1>1, <1>2, <1>3, <1>4, <1>5 DEF IsInjective, QueueOf
<1>7. ToSet(longer) = S \cup {p}
  <2>1. ToSet(longer) \subseteq S \cup {p}
    BY <1>2, <1>4, <1>5 DEF ToSet
  <2>2. \A x \in S : \E i \in 1..Len(queue) : queue[i] = x
    BY <1>1 DEF QueueOf, ToSet
  <2>3. \A i \in 1..Len(queue) : i \in DOMAIN longer
    BY <1>1, <1>3
  <2>4. S \subseteq ToSet(longer)
    BY <1>2, <2>2, <2>3 DEF ToSet
  <2>5. p \in ToSet(longer)
    BY <1>1, <1>2, <1>3 DEF ToSet
  <2>6. QED
    BY <2>1, <2>4, <2>5
<1>8. QED
  BY <1>2, <1>6, <1>7 DEF QueueOf, longer

\* shift: the first waiter leaves.
LEMMA QueueShifts ==
    ASSUME NEW queue, NEW S, QueueOf(queue, S), queue # <<>>
    PROVE  /\ Head(queue) \in S /\ Head(queue) \in Prompts
           /\ QueueOf(Tail(queue), S \ {Head(queue)})
<1> DEFINE rest == Tail(queue)
<1>1. /\ queue \in Seq(Prompts) /\ Len(queue) \in Nat /\ DOMAIN queue = 1..Len(queue)
      /\ Len(queue) # 0 /\ Head(queue) = queue[1]
  BY DEF QueueOf
<1>2. /\ Head(queue) \in Prompts
      /\ rest \in Seq(Prompts) /\ Len(rest) = Len(queue) - 1
      /\ \A i \in 1..Len(rest) : rest[i] = queue[i + 1]
  BY <1>1, HeadTailProperties
<1>3. DOMAIN rest = 1..(Len(queue) - 1)
  BY <1>2
<1> HIDE DEF rest
<1>4. \A i, j \in 1..Len(queue) : queue[i] = queue[j] => i = j
  BY <1>1 DEF QueueOf, IsInjective
<1>5. \A x : x \in S <=> \E i \in 1..Len(queue) : queue[i] = x
  BY <1>1 DEF QueueOf, ToSet
<1>6. Head(queue) \in S
  BY <1>1, <1>5
<1>7. IsInjective(rest)
  BY <1>1, <1>2, <1>3, <1>4 DEF IsInjective
<1>8. ToSet(rest) = S \ {Head(queue)}
  <2>1. ToSet(rest) \subseteq S \ {Head(queue)}
    <3> SUFFICES ASSUME NEW i \in DOMAIN rest
                 PROVE  rest[i] \in S /\ rest[i] # queue[1]
      BY <1>1 DEF ToSet
    <3>1. i + 1 \in 1..Len(queue) /\ 1 \in 1..Len(queue) /\ i + 1 # 1 /\ rest[i] = queue[i + 1]
      BY <1>1, <1>2, <1>3
    <3>2. QED
      BY <1>4, <1>5, <3>1
  <2>2. S \ {Head(queue)} \subseteq ToSet(rest)
    <3> SUFFICES ASSUME NEW x \in S, x # queue[1]
                 PROVE  \E i \in DOMAIN rest : rest[i] = x
      BY <1>1 DEF ToSet
    <3>1. PICK i \in 1..Len(queue) : queue[i] = x
      BY <1>5
    <3>2. i - 1 \in DOMAIN rest /\ rest[i - 1] = x
      BY <1>1, <1>2, <1>3, <3>1
    <3>3. QED
      BY <3>2
  <2>3. QED
    BY <2>1, <2>2
<1>9. QED
  BY <1>2, <1>6, <1>7, <1>8 DEF QueueOf, rest

\* splice: a waiter that aborts leaves, wherever it is.
LEMMA QueueLoses ==
    ASSUME NEW queue, NEW S, QueueOf(queue, S), NEW p \in S
    PROVE  QueueOf(Without(queue, p), S \ {p})
<1> DEFINE n == Len(queue)
           at == CHOOSE i \in DOMAIN queue : queue[i] = p
           front == SubSeq(queue, 1, at - 1)
           back == SubSeq(queue, at + 1, n)
           left == front \o back
<1>1. queue \in Seq(Prompts) /\ n \in Nat /\ DOMAIN queue = 1..n
  BY DEF QueueOf
<1>2. \A x : x \in S <=> \E i \in 1..n : queue[i] = x
  BY <1>1 DEF QueueOf, ToSet
<1>3. at \in 1..n /\ queue[at] = p
  BY <1>1, <1>2
<1>4. Without(queue, p) = left
  BY DEF Without, RemoveAt, QueueOf
<1> HIDE DEF at, n
<1>5. \A i, j \in 1..n : queue[i] = queue[j] => i = j
  BY <1>1 DEF QueueOf, IsInjective
<1>6. \A i \in 1..n : queue[i] \in Prompts
  BY <1>1
<1>7. /\ front \in Seq(Prompts) /\ Len(front) = at - 1
      /\ \A i \in 1..(at - 1) : front[i] = queue[i]
  <2>1. 1 \in Int /\ at - 1 \in Int /\ \A i \in 1..(at - 1) : queue[i] \in Prompts
    BY <1>1, <1>3, <1>6
  <2>2. /\ front \in Seq(Prompts)
        /\ Len(front) = IF 1 <= at - 1 THEN at - 1 - 1 + 1 ELSE 0
        /\ \A i \in 1..(at - 1 - 1 + 1) : front[i] = queue[1 + i - 1]
    BY <2>1, SubSeqProperties
  <2>3. QED
    BY <1>1, <1>3, <2>2
<1>8. /\ back \in Seq(Prompts) /\ Len(back) = n - at
      /\ \A i \in 1..(n - at) : back[i] = queue[at + i]
  <2>1. at + 1 \in Int /\ n \in Int /\ \A i \in (at + 1)..n : queue[i] \in Prompts
    BY <1>1, <1>3, <1>6
  <2>2. /\ back \in Seq(Prompts)
        /\ Len(back) = IF at + 1 <= n THEN n - (at + 1) + 1 ELSE 0
        /\ \A i \in 1..(n - (at + 1) + 1) : back[i] = queue[(at + 1) + i - 1]
    BY <2>1, SubSeqProperties
  <2> HIDE DEF back
  <2>3. Len(back) = n - at
    <3>1. CASE at + 1 <= n
      BY <1>1, <1>3, <2>2, <3>1
    <3>2. CASE ~(at + 1 <= n)
      <4>1. at = n
        BY <1>1, <1>3, <3>2
      <4>2. QED
        BY <1>1, <2>2, <3>2, <4>1
    <3>3. QED
      BY <3>1, <3>2
  <2>4. ASSUME NEW i \in 1..(n - at) PROVE back[i] = queue[at + i]
    <3>1. i \in 1..(n - (at + 1) + 1) /\ (at + 1) + i - 1 = at + i
      BY <1>1, <1>3
    <3>2. QED
      BY <2>2, <3>1
  <2>5. QED
    BY <2>2, <2>3, <2>4
<1> HIDE DEF front, back
<1>9. /\ left \in Seq(Prompts) /\ Len(left) = n - 1
      /\ \A i \in 1..(n - 1) : left[i] = IF i < at THEN queue[i] ELSE queue[i + 1]
  <2>1. /\ left \in Seq(Prompts) /\ Len(left) = Len(front) + Len(back)
        /\ \A i \in 1..(Len(front) + Len(back)) :
              left[i] = IF i <= Len(front) THEN front[i] ELSE back[i - Len(front)]
    BY <1>7, <1>8, ConcatProperties
  <2> HIDE DEF left
  <2>2. Len(front) + Len(back) = n - 1 /\ Len(left) = n - 1
    BY <1>1, <1>3, <1>7, <1>8, <2>1
  <2>3. ASSUME NEW i \in 1..(n - 1), i < at PROVE left[i] = queue[i]
    <3>1. i \in 1..(at - 1) /\ i <= Len(front) /\ i \in 1..(Len(front) + Len(back))
      BY <1>1, <1>3, <1>7, <2>2, <2>3
    <3>2. QED
      BY <1>7, <2>1, <3>1
  <2>4. ASSUME NEW i \in 1..(n - 1), ~(i < at) PROVE left[i] = queue[i + 1]
    <3>1. /\ i - (at - 1) \in 1..(n - at) /\ at + (i - (at - 1)) = i + 1
          /\ ~(i <= at - 1)
      BY <1>1, <1>3, <2>4
    <3>2. left[i] = back[i - (at - 1)]
      BY <1>7, <2>1, <2>2, <3>1
    <3>3. QED
      BY <1>8, <3>1, <3>2
  <2>5. QED
    BY <2>1, <2>2, <2>3, <2>4
<1>10. DOMAIN left = 1..(n - 1)
  BY <1>9
<1> HIDE DEF left
<1>11. IsInjective(left)
  BY <1>1, <1>3, <1>5, <1>9, <1>10 DEF IsInjective
<1>12. ToSet(left) = S \ {p}
  <2>1. \A i \in DOMAIN left : left[i] \in S /\ left[i] # p
    BY <1>1, <1>2, <1>3, <1>5, <1>9, <1>10
  <2>2. ASSUME NEW x \in S, x # p
        PROVE  \E i \in DOMAIN left : left[i] = x
    <3>1. PICK i \in 1..n : queue[i] = x
      BY <1>2
    <3>2. i # at
      BY <1>3, <2>2, <3>1
    <3>3. CASE i < at
      BY <1>1, <1>3, <1>9, <1>10, <3>1, <3>3
    <3>4. CASE i > at
      <4>1. i - 1 \in DOMAIN left /\ left[i - 1] = x
        BY <1>1, <1>3, <1>9, <1>10, <3>1, <3>4
      <4>2. QED
        BY <4>1
    <3>5. QED
      BY <1>1, <1>3, <3>2, <3>3, <3>4
  <2>3. QED
    BY <2>1, <2>2 DEF ToSet
<1>13. QED
  BY <1>4, <1>9, <1>11, <1>12 DEF QueueOf
-----------------------------------------------------------------------------
(* The parts of a step                                                     *)

\* A step of one completion that neither takes nor gives back the workspace.
LEMMA LocalKeeps ==
    ASSUME IInv, NEW p \in Prompts, NEW next \in PromptState, Shape(next),
           prompt' = [prompt EXCEPT ![p] = next],
           UNCHANGED <<workspaceMode, waiters, mutexHeld>>,
           next.holds = prompt[p].holds,
           next.pc = "waiting" <=> prompt[p].pc = "waiting",
           registry' \in SUBSET (registry \cup {p}), p \in registry' => next.pc = "command",
           cliShutdown' \in [phase : {"none", "waiting", "done"}, commands : SUBSET Prompts]
    PROVE  IInv'
<1>1. /\ prompt' \in [Prompts -> PromptState] /\ prompt'[p] = next
      /\ \A r \in Prompts \ {p} : prompt'[r] = prompt[r]
  BY DEF IInv, CliTyped
<1>2. registry' \subseteq {r \in Prompts : prompt'[r].pc = "command"}
  BY <1>1 DEF IInv, CliTyped
<1>3. CliTyped'
  BY <1>1, <1>2 DEF IInv, CliTyped
<1>4. (\A r \in Prompts : Shape(prompt[r]))'
  BY <1>1 DEF IInv, Shape, Real
<1>5. \A r \in Prompts : prompt'[r].holds = prompt[r].holds
  BY <1>1
<1>6. OneHolder'
  BY <1>5 DEF IInv, OneHolder
<1>7. Waiting' = Waiting
  BY <1>1 DEF Waiting
<1>8. QueueOf(waiters, Waiting)' /\ (waiters # <<>> => mutexHeld)'
  BY <1>7 DEF IInv, QueueOf
<1>9. QED
  BY <1>3, <1>4, <1>6, <1>8 DEF IInv

\* The finally of a completion: the workspace is free again, or the first waiter's.
LEMMA ConcludingKeeps ==
    ASSUME IInv, NEW p \in Prompts, NEW s \in PromptState, s.child \in {"none", "exited"},
           NEW queue, QueueOf(queue, Waiting \ {p}), queue # <<>> => mutexHeld,
           s.holds => Real /\ \A r \in Prompts \ {p} : ~prompt[r].holds,
           prompt[p].holds => s.holds,
           Concluding(p, s, queue), UNCHANGED <<workspaceMode, cliShutdown>>
    PROVE  IInv'
<1> DEFINE over == [CommandOver(s) EXCEPT !.pc = "cleaning", !.holds = FALSE]
<1>1. /\ over \in PromptState /\ over.pc = "cleaning" /\ over.child = "none"
      /\ ~over.timer /\ ~over.holds
  BY DEF CommandOver, PromptState
<1>2. Shape(over)
  BY <1>1 DEF Shape
<1>3. CASE s.holds /\ queue # <<>>
  <2> DEFINE h == Head(queue)
             next == [Spawned(prompt[h]) EXCEPT !.holds = TRUE]
  <2>1. /\ h \in Waiting /\ h # p /\ h \in Prompts /\ prompt[h].pc = "waiting"
        /\ QueueOf(Tail(queue), (Waiting \ {p}) \ {h})
    <3>1. h \in Waiting \ {p} /\ QueueOf(Tail(queue), (Waiting \ {p}) \ {h})
      BY <1>3, QueueShifts
    <3>2. QED
      BY <3>1 DEF Waiting
  <2>2. /\ prompt[h] \in PromptState /\ prompt[h].attempt = 0
        /\ Shape(prompt[h]) /\ Real
    BY <1>3, <2>1 DEF IInv, CliTyped, Shape
  <2>3. /\ next \in PromptState /\ next.pc = "command" /\ next.child = "running"
        /\ next.holds
    <3>1. prompt[h].attempt + 1 \in 0..2
      BY <2>2
    <3>2. QED
      BY <2>2, <3>1 DEF Spawned, PromptState
  <2>4. Shape(next)
    BY <2>2, <2>3 DEF Shape
  <2>5. /\ prompt' = [prompt EXCEPT ![p] = over,
                                    ![h] = Spawned([prompt[h] EXCEPT !.holds = TRUE])]
        /\ waiters' = Tail(queue)
        /\ registry' = (registry \ {p}) \cup {h}
        /\ UNCHANGED mutexHeld
    BY <1>3, <2>1 DEF Concluding, IInv, CliTyped
  <2>6. Spawned([prompt[h] EXCEPT !.holds = TRUE]) = next
    BY <2>2 DEF Spawned, PromptState
  <2> HIDE DEF over, next, h
  <2>7. /\ prompt' \in [Prompts -> PromptState] /\ prompt'[p] = over /\ prompt'[h] = next
        /\ \A r \in Prompts \ {p, h} : prompt'[r] = prompt[r]
    BY <1>1, <2>1, <2>3, <2>5, <2>6 DEF IInv, CliTyped
  <2>8. registry' \subseteq {r \in Prompts : prompt'[r].pc = "command"}
    BY <1>1, <2>1, <2>3, <2>5, <2>7 DEF IInv, CliTyped
  <2>9. waiters' \in Seq(Prompts)
    BY <2>1, <2>5 DEF QueueOf
  <2>10. CliTyped'
    BY <2>5, <2>7, <2>8, <2>9 DEF IInv, CliTyped
  <2>11. (\A r \in Prompts : Shape(prompt[r]))'
    BY <1>2, <2>4, <2>7 DEF IInv, Shape, Real
  <2>12. mutexHeld
    BY <1>3
  <2>13. OneHolder'
    BY <1>1, <1>3, <2>1, <2>3, <2>5, <2>7, <2>12 DEF OneHolder
  <2>14. Waiting' = (Waiting \ {p}) \ {h}
    BY <1>1, <2>1, <2>3, <2>7 DEF Waiting
  <2>15. QueueOf(waiters, Waiting)' /\ (waiters # <<>> => mutexHeld)'
    BY <2>1, <2>5, <2>12, <2>14 DEF QueueOf
  <2>16. QED
    BY <2>10, <2>11, <2>13, <2>15 DEF IInv
<1>4. CASE ~(s.holds /\ queue # <<>>)
  <2>1. /\ prompt' = [prompt EXCEPT ![p] = over]
        /\ waiters' = queue
        /\ registry' = registry \ {p}
        /\ mutexHeld' = (mutexHeld /\ ~s.holds)
    BY <1>4 DEF Concluding
  <2> HIDE DEF over
  <2>2. /\ prompt' \in [Prompts -> PromptState] /\ prompt'[p] = over
        /\ \A r \in Prompts \ {p} : prompt'[r] = prompt[r]
    BY <1>1, <2>1 DEF IInv, CliTyped
  <2>3. registry' \subseteq {r \in Prompts : prompt'[r].pc = "command"}
    BY <2>1, <2>2 DEF IInv, CliTyped
  <2>4. CliTyped'
    BY <2>1, <2>2, <2>3 DEF IInv, CliTyped, QueueOf
  <2>5. (\A r \in Prompts : Shape(prompt[r]))'
    BY <1>2, <2>2 DEF IInv, Shape, Real
  <2>6. OneHolder'
    <3>1. CASE s.holds
      BY <1>1, <2>1, <2>2, <3>1 DEF OneHolder
    <3>2. CASE ~s.holds
      <4>1. \A r \in Prompts : prompt'[r].holds <=> prompt[r].holds
        BY <1>1, <2>2, <3>2
      <4>2. mutexHeld' <=> mutexHeld
        BY <2>1, <3>2
      <4>3. QED
        BY <4>1, <4>2 DEF IInv, OneHolder
    <3>3. QED
      BY <3>1, <3>2
  <2>7. Waiting' = Waiting \ {p}
    BY <1>1, <2>2 DEF Waiting
  <2>8. QueueOf(waiters, Waiting)' /\ (waiters # <<>> => mutexHeld)'
    BY <1>4, <2>1, <2>7 DEF QueueOf
  <2>9. QED
    BY <2>4, <2>5, <2>6, <2>8 DEF IInv
<1>5. QED
  BY <1>3, <1>4

\* The end of a command.
LEMMA ConcludeRunKeeps ==
    ASSUME IInv, NEW p \in Prompts, NEW s \in PromptState, s.child \in {"none", "exited"},
           prompt[p].pc # "waiting",
           s.holds => Real /\ \A r \in Prompts \ {p} : ~prompt[r].holds,
           prompt[p].holds => s.holds,
           ConcludeRun(p, s)
    PROVE  IInv'
<1>1. Waiting \ {p} = Waiting
  BY DEF Waiting
<1>2. QueueOf(waiters, Waiting \ {p}) /\ (waiters # <<>> => mutexHeld)
  BY <1>1 DEF IInv
<1>3. QED
  BY <1>2, ConcludingKeeps DEF ConcludeRun

\* A command starts in a workspace that nobody else holds, or ends at once.
LEMMA StartKeeps ==
    ASSUME IInv, NEW p \in Prompts, NEW s \in PromptState,
           s.child = "none", s.attempt \in {0, 1}, prompt[p].pc # "waiting",
           s.holds <=> Real,
           s.holds => \A r \in Prompts \ {p} : ~prompt[r].holds,
           prompt[p].holds => s.holds,
           StartCommand(p, s)
    PROVE  IInv'
<1>1. CASE ConcludeRun(p, s)
  BY <1>1, ConcludeRunKeeps
<1>2. CASE /\ prompt' = [prompt EXCEPT ![p] = Spawned(s)]
           /\ registry' = registry \cup {p}
           /\ mutexHeld' = (mutexHeld \/ s.holds)
           /\ UNCHANGED <<workspaceMode, waiters, cliShutdown>>
  <2> DEFINE next == Spawned(s)
  <2>1. /\ next \in PromptState /\ next.pc = "command" /\ next.child = "running"
        /\ next.holds = s.holds
    <3>1. s.attempt + 1 \in 0..2
      OBVIOUS
    <3>2. QED
      BY <3>1 DEF Spawned, PromptState
  <2>2. Shape(next)
    BY <2>1 DEF Shape
  <2> HIDE DEF next
  <2>3. /\ prompt' \in [Prompts -> PromptState] /\ prompt'[p] = next
        /\ \A r \in Prompts \ {p} : prompt'[r] = prompt[r]
    BY <1>2, <2>1 DEF IInv, CliTyped, next
  <2>4. registry' \subseteq {r \in Prompts : prompt'[r].pc = "command"}
    BY <1>2, <2>1, <2>3 DEF IInv, CliTyped
  <2>5. CliTyped'
    BY <1>2, <2>3, <2>4 DEF IInv, CliTyped
  <2>6. (\A r \in Prompts : Shape(prompt[r]))'
    BY <1>2, <2>2, <2>3 DEF IInv, Shape, Real
  <2>7. OneHolder'
    BY <1>2, <2>1, <2>3 DEF IInv, OneHolder
  <2>8. Waiting' = Waiting
    BY <2>1, <2>3 DEF Waiting
  <2>9. QueueOf(waiters, Waiting)' /\ (waiters # <<>> => mutexHeld)'
    BY <1>2, <2>8 DEF IInv, QueueOf
  <2>10. QED
    BY <2>5, <2>6, <2>7, <2>9 DEF IInv
<1>3. QED
  BY <1>1, <1>2 DEF StartCommand

\* A command is signalled, or is over because its child has exited.
LEMMA TerminateKeeps ==
    ASSUME IInv, NEW p \in Prompts, NEW s \in PromptState, Shape(s), s.pc = "command",
           prompt[p].pc = "command", s.child = prompt[p].child, s.holds = prompt[p].holds,
           Terminate(p, s)
    PROVE  IInv'
<1>1. cliShutdown \in [phase : {"none", "waiting", "done"}, commands : SUBSET Prompts]
  BY DEF IInv, CliTyped
<1>2. CASE s.ending # "none"
  <2>1. /\ prompt' = [prompt EXCEPT ![p] = s]
        /\ UNCHANGED <<workspaceMode, waiters, mutexHeld, registry, cliShutdown>>
    BY <1>2 DEF Terminate
  <2>2. QED
    BY <1>1, <2>1, LocalKeeps
<1>3. CASE s.ending = "none" /\ s.child = "exited"
  <2>1. ConcludeRun(p, s)
    BY <1>3 DEF Terminate
  <2>2. s.holds => Real /\ \A r \in Prompts \ {p} : ~prompt[r].holds
    BY DEF Shape, IInv, OneHolder
  <2>3. QED
    BY <1>3, <2>1, <2>2, ConcludeRunKeeps
<1>4. CASE s.ending = "none" /\ s.child # "exited"
  <2> DEFINE next == [s EXCEPT !.ending = "term", !.timer = FALSE]
  <2>1. /\ prompt' = [prompt EXCEPT ![p] = next]
        /\ UNCHANGED <<workspaceMode, waiters, mutexHeld, registry, cliShutdown>>
    BY <1>4 DEF Terminate
  <2>2. next \in PromptState /\ next.pc = "command" /\ next.holds = s.holds
    BY DEF PromptState
  <2>3. Shape(next)
    BY DEF PromptState, Shape
  <2> HIDE DEF next
  <2>4. QED
    BY <1>1, <2>1, <2>2, <2>3, LocalKeeps
<1>5. QED
  BY <1>2, <1>3, <1>4
-----------------------------------------------------------------------------
(* The actions                                                             *)

\* Nothing runs, waits or is held at first.
LEMMA InitInv ==
    ASSUME CliInit PROVE IInv
<1>1. CliTyped
  <2>1. prompt \in [Prompts -> PromptState]
    BY DEF CliInit, PromptState
  <2>2. cliShutdown \in [phase : {"none", "waiting", "done"}, commands : SUBSET Prompts]
    BY DEF CliInit
  <2>3. workspaceMode \in WorkspaceModes /\ waiters = <<>> /\ mutexHeld = FALSE /\ registry = {}
    BY DEF CliInit
  <2>4. <<>> \in Seq(Prompts)
    OBVIOUS
  <2>5. waiters \in Seq(Prompts) /\ mutexHeld \in BOOLEAN /\ registry \subseteq Prompts
    BY <2>3, <2>4
  <2>6. QED
    BY <2>1, <2>2, <2>3, <2>5 DEF CliTyped
<1>2. \A p \in Prompts : Shape(prompt[p])
  BY DEF CliInit, Shape
<1>3. OneHolder
  BY DEF CliInit, OneHolder
<1>4. Waiting = {} /\ waiters = <<>>
  BY DEF CliInit, Waiting
<1>5. <<>> \in Seq(Prompts) /\ DOMAIN <<>> = {}
  OBVIOUS
<1>6. QueueOf(<<>>, {})
  BY <1>5 DEF QueueOf, IsInjective, ToSet
<1>7. QED
  BY <1>1, <1>2, <1>3, <1>4, <1>6 DEF IInv

\* A completion begins: it creates its directory, takes the workspace, or queues.
LEMMA BeginKeeps ==
    ASSUME IInv, NEW p \in Prompts, BeginPrompt(p) \/ DirectoryCreated(p)
    PROVE  IInv'
<1> DEFINE s == prompt[p]
<1>1. /\ s \in PromptState /\ Shape(s) /\ ~s.holds
      /\ cliShutdown \in [phase : {"none", "waiting", "done"}, commands : SUBSET Prompts]
      /\ registry \subseteq {r \in Prompts : prompt[r].pc = "command"}
      /\ s.pc \in {"idle", "creating"}
  BY DEF IInv, CliTyped, Shape, BeginPrompt, DirectoryCreated
<1>2. workspaceMode = "chat-only" \/ Real
  BY CliAssumption DEF IInv, CliTyped, Real
<1>3. CASE BeginPrompt(p) /\ workspaceMode = "chat-only"
  <2> DEFINE next == [s EXCEPT !.pc = "creating"]
  <2>1. /\ s.pc = "idle" /\ prompt' = [prompt EXCEPT ![p] = next]
        /\ UNCHANGED <<workspaceMode, waiters, mutexHeld, registry, cliShutdown>>
    BY <1>3 DEF BeginPrompt
  <2>2. next \in PromptState /\ next.pc = "creating" /\ next.holds = s.holds
    BY <1>1 DEF PromptState
  <2>3. Shape(next)
    BY <1>1, <1>3, <2>1 DEF PromptState, Shape, Real
  <2> HIDE DEF next
  <2>4. QED
    BY <1>1, <2>1, <2>2, <2>3, LocalKeeps
<1>4. CASE BeginPrompt(p) /\ Real /\ mutexHeld
  <2> DEFINE next == [s EXCEPT !.pc = "waiting"]
  <2>1. /\ s.pc = "idle" /\ prompt' = [prompt EXCEPT ![p] = next]
        /\ waiters' = Append(waiters, p)
        /\ UNCHANGED <<workspaceMode, mutexHeld, registry, cliShutdown>>
    BY <1>4 DEF BeginPrompt, Real
  <2>2. next \in PromptState /\ next.pc = "waiting" /\ next.holds = s.holds
    BY <1>1 DEF PromptState
  <2>3. ~s.aborted
    BY <1>1, <2>1 DEF Shape
  <2>4. Shape(next)
    BY <1>1, <1>4, <2>1, <2>3 DEF PromptState, Shape
  <2> HIDE DEF next
  <2>5. /\ prompt' \in [Prompts -> PromptState] /\ prompt'[p] = next
        /\ \A r \in Prompts \ {p} : prompt'[r] = prompt[r]
    BY <2>1, <2>2 DEF IInv, CliTyped
  <2>6. Waiting' = Waiting \cup {p} /\ p \notin Waiting
    BY <2>1, <2>2, <2>5 DEF Waiting
  <2>7. QueueOf(waiters', Waiting \cup {p})
    BY <2>1, <2>6, QueueGrows DEF IInv
  <2>8. QueueOf(waiters, Waiting)'
    BY <2>6, <2>7 DEF QueueOf
  <2>9. registry' \subseteq {r \in Prompts : prompt'[r].pc = "command"}
    BY <1>1, <2>1, <2>5
  <2>10. CliTyped'
    BY <1>1, <2>1, <2>5, <2>7, <2>9 DEF IInv, CliTyped, QueueOf
  <2>11. (\A r \in Prompts : Shape(prompt[r]))'
    BY <2>1, <2>4, <2>5 DEF IInv, Shape, Real
  <2>12. \A r \in Prompts : prompt'[r].holds = prompt[r].holds
    BY <2>2, <2>5
  <2>13. OneHolder'
    BY <2>1, <2>12 DEF IInv, OneHolder
  <2>14. (waiters # <<>> => mutexHeld)'
    BY <1>4, <2>1
  <2>15. QED
    BY <2>8, <2>10, <2>11, <2>13, <2>14 DEF IInv
<1>5. CASE BeginPrompt(p) /\ Real /\ ~mutexHeld
  <2> DEFINE begun == [s EXCEPT !.holds = TRUE]
  <2>1. s.pc = "idle" /\ StartCommand(p, begun)
    BY <1>5 DEF BeginPrompt, Real
  <2>2. /\ begun \in PromptState /\ begun.child = "none" /\ begun.attempt = 0 /\ begun.holds
    BY <1>1, <2>1 DEF PromptState, Shape
  <2>3. \A r \in Prompts : ~prompt[r].holds
    BY <1>5 DEF IInv, OneHolder
  <2> HIDE DEF begun
  <2>4. QED
    BY <1>1, <1>5, <2>1, <2>2, <2>3, StartKeeps
<1>6. CASE DirectoryCreated(p)
  <2> DEFINE ready == [s EXCEPT !.directory = TRUE]
  <2>1. s.pc = "creating" /\ StartCommand(p, ready)
    BY <1>6 DEF DirectoryCreated
  <2>2. /\ ready \in PromptState /\ ready.child = "none" /\ ready.attempt = 0
        /\ ~ready.holds /\ ~Real
    BY <1>1, <2>1 DEF PromptState, Shape
  <2> HIDE DEF ready
  <2>3. QED
    BY <1>1, <2>1, <2>2, StartKeeps
<1>7. QED
  BY <1>2, <1>3, <1>4, <1>5, <1>6

\* The child of a command exits, closes its pipes, or was never started.
LEMMA ChildKeeps ==
    ASSUME IInv, NEW p \in Prompts, ChildExits(p) \/ ChildCloses(p) \/ SpawnFails(p)
    PROVE  IInv'
<1> DEFINE s == prompt[p]
<1>1. /\ s \in PromptState /\ Shape(s) /\ s.child # "none"
      /\ cliShutdown \in [phase : {"none", "waiting", "done"}, commands : SUBSET Prompts]
  BY DEF IInv, CliTyped, ChildExits, ChildCloses, SpawnFails
<1>2. s.pc = "command" /\ (s.holds <=> Real)
  BY <1>1 DEF Shape, PromptState
<1>3. s.holds => Real /\ \A r \in Prompts \ {p} : ~prompt[r].holds
  BY <1>2 DEF IInv, OneHolder
<1>4. Exited(s) \in PromptState /\ Exited(s).child = "none" /\ Exited(s).holds = s.holds
  BY <1>1 DEF Exited, PromptState
<1>5. CASE ConcludeRun(p, Exited(s))
  BY <1>2, <1>3, <1>4, <1>5, ConcludeRunKeeps
<1>6. CASE ChildExits(p) /\ s.ending = "none"
  <2> DEFINE next == [s EXCEPT !.child = "exited"]
  <2>1. /\ prompt' = [prompt EXCEPT ![p] = next] /\ registry' = registry \ {p}
        /\ UNCHANGED <<workspaceMode, waiters, mutexHeld, cliShutdown>>
    BY <1>6 DEF ChildExits
  <2>2. next \in PromptState /\ next.pc = "command" /\ next.holds = s.holds
    BY <1>1, <1>2 DEF PromptState
  <2>3. Shape(next)
    BY <1>1, <1>2 DEF PromptState, Shape
  <2> HIDE DEF next
  <2>4. QED
    BY <1>1, <1>2, <2>1, <2>2, <2>3, LocalKeeps
<1>7. CASE ChildCloses(p)
  <2>1. s.child = "exited"
    BY <1>7 DEF ChildCloses
  <2>2. CASE ConcludeRun(p, s)
    BY <1>1, <1>2, <1>3, <2>1, <2>2, ConcludeRunKeeps
  <2>3. CASE s.attempt = 1 /\ StartCommand(p, CommandOver(s))
    <3>1. /\ CommandOver(s) \in PromptState /\ CommandOver(s).child = "none"
          /\ CommandOver(s).attempt = 1 /\ CommandOver(s).holds = s.holds
      BY <1>1, <2>1, <2>3 DEF CommandOver, PromptState
    <3>2. QED
      BY <1>2, <1>3, <2>3, <3>1, StartKeeps
  <2>4. QED
    BY <1>7, <2>2, <2>3 DEF ChildCloses
<1>8. QED
  BY <1>5, <1>6, <1>7 DEF ChildExits, SpawnFails

\* A command is ended by its timeout, the limit of its output, or the client, who may
\* also leave while the completion waits or has no directory yet.
LEMMA EndingKeeps ==
    ASSUME IInv, NEW p \in Prompts, CommandTimeout(p) \/ OutputLimit(p) \/ ClientAborts(p)
    PROVE  IInv'
<1> DEFINE s == prompt[p]
           aborted == [s EXCEPT !.aborted = TRUE]
<1>1. /\ s \in PromptState /\ Shape(s)
      /\ cliShutdown \in [phase : {"none", "waiting", "done"}, commands : SUBSET Prompts]
      /\ registry \subseteq {r \in Prompts : prompt[r].pc = "command"}
  BY DEF IInv, CliTyped
<1>2. /\ aborted \in PromptState /\ aborted.pc = s.pc /\ aborted.child = s.child
      /\ aborted.holds = s.holds
  BY <1>1 DEF PromptState
<1>3. s.pc \in {"creating", "command"} => Shape(aborted)
  BY <1>1 DEF PromptState, Shape
<1>4. CASE CommandTimeout(p) \/ OutputLimit(p)
  <2>1. s.pc = "command" /\ Terminate(p, s)
    BY <1>1, <1>4 DEF CommandTimeout, OutputLimit, Shape, PromptState
  <2>2. QED
    BY <1>1, <2>1, TerminateKeeps
<1> HIDE DEF aborted
<1>5. CASE ClientAborts(p) /\ s.pc = "command"
  <2>1. Terminate(p, aborted)
    BY <1>2, <1>5 DEF ClientAborts, aborted
  <2>2. QED
    BY <1>2, <1>3, <1>5, <2>1, TerminateKeeps
<1>6. CASE ClientAborts(p) /\ s.pc = "waiting"
  <2>1. /\ Concluding(p, aborted, Without(waiters, p))
        /\ UNCHANGED <<workspaceMode, cliShutdown>>
    BY <1>2, <1>6 DEF ClientAborts, aborted
  <2>2. p \in Waiting /\ QueueOf(Without(waiters, p), Waiting \ {p})
    BY <1>6, QueueLoses DEF Waiting, IInv
  <2>3. mutexHeld
    <3>1. waiters # <<>>
      BY <2>2 DEF IInv, QueueOf, ToSet
    <3>2. QED
      BY <3>1 DEF IInv
  <2>4. aborted.child = "none" /\ ~aborted.holds /\ ~s.holds
    BY <1>1, <1>2, <1>6 DEF Shape
  <2>5. QED
    BY <1>2, <2>1, <2>2, <2>3, <2>4, ConcludingKeeps
<1>7. CASE ClientAborts(p) /\ s.pc = "creating"
  <2>1. /\ prompt' = [prompt EXCEPT ![p] = aborted]
        /\ UNCHANGED <<workspaceMode, waiters, mutexHeld, registry, cliShutdown>>
    BY <1>2, <1>7 DEF ClientAborts, aborted
  <2>2. QED
    BY <1>1, <1>2, <1>3, <1>7, <2>1, LocalKeeps
<1>8. QED
  BY <1>4, <1>5, <1>6, <1>7 DEF ClientAborts, aborted, PromptState

\* The grace of a signal is over, or a completion removes its directory.
LEMMA AfterKeeps ==
    ASSUME IInv, NEW p \in Prompts, GraceOver(p) \/ Cleanup(p)
    PROVE  IInv'
<1> DEFINE s == prompt[p]
<1>1. /\ s \in PromptState /\ Shape(s)
      /\ cliShutdown \in [phase : {"none", "waiting", "done"}, commands : SUBSET Prompts]
      /\ registry \subseteq {r \in Prompts : prompt[r].pc = "command"}
  BY DEF IInv, CliTyped
<1>2. CASE GraceOver(p)
  <2> DEFINE n == [s EXCEPT !.ending = "kill"]
  <2>1. /\ prompt' = [prompt EXCEPT ![p] = n]
        /\ UNCHANGED <<workspaceMode, waiters, mutexHeld, registry, cliShutdown>>
    BY <1>2 DEF GraceOver
  <2>2. n \in PromptState /\ n.pc = s.pc /\ n.holds = s.holds
    BY <1>1 DEF PromptState
  <2>3. Shape(n)
    BY <1>1 DEF PromptState, Shape
  <2> HIDE DEF n
  <2>4. QED
    BY <1>1, <2>1, <2>2, <2>3, LocalKeeps
<1>3. CASE Cleanup(p)
  <2> DEFINE n == [s EXCEPT !.pc = "answered", !.directory = FALSE]
  <2>1. /\ s.pc = "cleaning" /\ prompt' = [prompt EXCEPT ![p] = n]
        /\ UNCHANGED <<workspaceMode, waiters, mutexHeld, registry, cliShutdown>>
    BY <1>3 DEF Cleanup
  <2>2. n \in PromptState /\ n.pc = "answered" /\ n.holds = s.holds
    BY <1>1 DEF PromptState
  <2>3. Shape(n)
    BY <1>1, <2>1 DEF PromptState, Shape
  <2> HIDE DEF n
  <2>4. QED
    BY <1>1, <2>1, <2>2, <2>3, LocalKeeps
<1>4. QED
  BY <1>2, <1>3

\* shutdown signals the registered commands, and ends when they are over.
LEMMA ShutdownKeeps ==
    ASSUME IInv, ShutdownCli \/ ShutdownCliEnds
    PROVE  IInv'
<1>1. /\ prompt \in [Prompts -> PromptState] /\ \A p \in Prompts : Shape(prompt[p])
      /\ cliShutdown \in [phase : {"none", "waiting", "done"}, commands : SUBSET Prompts]
      /\ registry \subseteq {p \in Prompts : prompt[p].pc = "command"}
  BY DEF IInv, CliTyped
<1>2. UNCHANGED <<workspaceMode, waiters, mutexHeld, registry>>
  BY DEF ShutdownCli, ShutdownCliEnds
<1>3. cliShutdown' \in [phase : {"none", "waiting", "done"}, commands : SUBSET Prompts]
  <2>1. CASE ShutdownCli
    BY <1>1, <2>1 DEF ShutdownCli
  <2>2. CASE ShutdownCliEnds
    BY <1>1, <2>2 DEF ShutdownCliEnds
  <2>3. QED
    BY <2>1, <2>2
<1>4. /\ prompt' \in [Prompts -> PromptState]
      /\ \A p \in Prompts :
            /\ prompt'[p].pc = prompt[p].pc /\ prompt'[p].holds = prompt[p].holds
            /\ prompt'[p].attempt = prompt[p].attempt /\ prompt'[p].child = prompt[p].child
            /\ prompt'[p].directory = prompt[p].directory
            /\ prompt'[p].aborted = prompt[p].aborted
            /\ prompt'[p].timer => prompt[p].timer
  <2>1. CASE ShutdownCli
    <3> DEFINE signalled(p) == [prompt[p] EXCEPT !.ending = "term", !.timer = FALSE]
    <3>1. prompt' = [p \in Prompts |->
            IF p \in registry /\ prompt[p].ending = "none" THEN signalled(p) ELSE prompt[p]]
      BY <2>1 DEF ShutdownCli
    <3>2. ASSUME NEW p \in Prompts
          PROVE  /\ signalled(p) \in PromptState
                 /\ signalled(p).pc = prompt[p].pc /\ signalled(p).holds = prompt[p].holds
                 /\ signalled(p).attempt = prompt[p].attempt
                 /\ signalled(p).child = prompt[p].child
                 /\ signalled(p).directory = prompt[p].directory
                 /\ signalled(p).aborted = prompt[p].aborted
                 /\ ~signalled(p).timer
      BY <1>1 DEF PromptState
    <3> HIDE DEF signalled
    <3>3. QED
      BY <1>1, <3>1, <3>2
  <2>2. CASE ShutdownCliEnds
    BY <1>1, <2>2 DEF ShutdownCliEnds
  <2>3. QED
    BY <2>1, <2>2
<1>5. (\A p \in Prompts : Shape(prompt[p]))'
  BY <1>1, <1>2, <1>4 DEF Shape, Real
<1>6. CliTyped'
  BY <1>1, <1>2, <1>3, <1>4 DEF IInv, CliTyped
<1>7. OneHolder'
  BY <1>2, <1>4 DEF IInv, OneHolder
<1>8. Waiting' = Waiting
  BY <1>4 DEF Waiting
<1>9. QueueOf(waiters, Waiting)' /\ (waiters # <<>> => mutexHeld)'
  BY <1>2, <1>8 DEF IInv, QueueOf
<1>10. QED
  BY <1>5, <1>6, <1>7, <1>9 DEF IInv

\* Every step of the backend keeps the invariant.
LEMMA NextInv ==
    ASSUME IInv, [CliNext]_cliVars PROVE IInv'
<1>1. CASE UNCHANGED cliVars
  BY <1>1 DEF cliVars, IInv, CliTyped, Shape, Real, OneHolder, QueueOf, Waiting
<1>2. CASE CliNext
  BY <1>2, BeginKeeps, ChildKeeps, EndingKeeps, AfterKeeps, ShutdownKeeps DEF CliNext
<1>3. QED
  BY <1>1, <1>2

\* The invariant says what the backend promises.
LEMMA InvSound ==
    ASSUME IInv PROVE CliSound
<1>1. /\ prompt \in [Prompts -> PromptState] /\ \A p \in Prompts : Shape(prompt[p])
      /\ waiters \in Seq(Prompts) /\ IsInjective(waiters) /\ ToSet(waiters) = Waiting
  BY DEF IInv, CliTyped, QueueOf
<1>2. waiters \in SeqOf(Prompts, Cardinality(Prompts))
  <2> DEFINE n == Len(waiters)
  <2>1. n \in Nat /\ waiters \in [1..n -> Prompts]
    BY <1>1
  <2>2. waiters \in Injection(1..n, Prompts)
    BY <1>1, <2>1 DEF Injection
  <2>3. Cardinality(1..n) <= Cardinality(Prompts) /\ Cardinality(Prompts) \in Nat
    BY <2>2, FS_Injection, FS_CardinalityType, CliAssumption
  <2>4. Cardinality(1..n) = n
    BY <2>1, FS_Interval
  <2>5. n \in 0..Cardinality(Prompts)
    BY <2>1, <2>3, <2>4
  <2> HIDE DEF n
  <2>6. QED
    BY <2>1, <2>5 DEF SeqOf
<1>3. CliTypeOK
  BY <1>1, <1>2 DEF IInv, CliTyped, CliTypeOK
<1>4. WorkspaceExclusive
  <2>1. \A p \in Prompts : prompt[p].child # "none" => prompt[p].pc = "command"
    BY <1>1 DEF Shape, PromptState
  <2>2. QED
    BY <1>1, <2>1 DEF WorkspaceExclusive, Shape, Real, IInv, OneHolder
<1>5. NobodyWaitsInVain
  BY <1>1 DEF NobodyWaitsInVain, IInv, OneHolder, Waiting, Shape
<1>6. CommandsLeaveNothing
  BY <1>1 DEF CommandsLeaveNothing, IInv, CliTyped, Shape
<1>7. QED
  BY <1>3, <1>4, <1>5, <1>6 DEF CliSound

-----------------------------------------------------------------------------
(* Theorems                                                                *)

\* IInv is an invariant of the backend.
THEOREM CliInvariant == CliSpec => []IInv
<1>1. QED
  BY InitInv, NextInv, PTL DEF CliSpec

\* In every state at most one CLI runs in a real workspace, its mutex is held by one
\* completion or free, whoever waits is in the queue once and waits for a holder, and a
\* completion with an outcome has left no child, timer, entry or workspace behind
\* (WorkspaceMutex, createCursorCommandRunner, CursorChildRegistry).
THEOREM CliCorrect == CliSpec => []CliSound
<1>1. QED
  BY CliInvariant, InvSound, PTL
=============================================================================
