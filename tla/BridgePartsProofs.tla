------------------------- MODULE BridgePartsProofs --------------------------
(***************************************************************************)
(* Theorems about four parts of the bridge, for any values of their        *)
(* constants: what is remembered of credentials, how execs are answered,   *)
(* what the management API shows, and how the native context is read. Each *)
(* part has its invariant and its lemmas in a section of its own.          *)
(***************************************************************************)
EXTENDS CredentialCaches, ExecMessages, Management, NativeContext, FoldLemmas

-----------------------------------------------------------------------------
(***************************************************************************)
(* Credential caches: what is remembered of a credential is of its present *)
(* key, and is refreshed by one exchange and one operation at a time.      *)
(*                                                                         *)
(* An exchange that is still valid is the one its credential waits for, an *)
(* exchange its credential waits for is valid, and an exchange whose       *)
(* generation still stands was begun with the key configured now: so a     *)
(* token can enter the cache, and reach a caller, only with the key it is  *)
(* of, however often the key changed while it was fetched.                 *)
(***************************************************************************)

\* An exchange under way: of the present key while its generation stands.
FlightSound(f) ==
    \/ flight[f] = NoFlight
    \/ /\ flight[f].cred \in CacheCreds /\ flight[f].key \in ApiKeys
       /\ generation[flight[f].cred] = f => flight[f].key = config[flight[f].cred]
       /\ flight[f].valid => refreshing[flight[f].cred] = f

\* The exchange that callers of getToken join.
RefreshSound(c) ==
    \/ refreshing[c] = Nobody
    \/ /\ refreshing[c] \in Flights
       /\ flight[refreshing[c]].cred = c /\ flight[refreshing[c]].key = config[c]
       /\ flight[refreshing[c]].valid

\* s is what operation o may be in: it waits for an exchange of its own key, goes on
\* with the token of that key, and is the refresh of a usage it asks for.
OpSound(o, s) ==
    /\ s.stage # "idle" => s.cred \in CacheCreds /\ s.key \in ApiKeys
    /\ s.stage = "token" <=> s.flight # Nobody
    /\ s.flight # Nobody => flight[s.flight].cred = s.cred /\ flight[s.flight].key = s.key
    /\ s.token \in {Nobody, s.key}
    /\ s.stage \in {"entering", "startup", "load", "loaded"} => s.token = s.key
    /\ s.kind = "usage" => ~s.again
    /\ s.kind = "usage" /\ s.stage # "idle" => usageRefresh[s.cred] = o

TokensCurrent == \A c \in CacheCreds : tokens[c] \in {Nobody, config[c]}

IInv ==
    /\ CacheTypeOK
    /\ \A f \in Flights : FlightSound(f)
    /\ \A c \in CacheCreds : RefreshSound(c)
    /\ \A o \in Operations : OpSound(o, op[o])
    /\ TokensCurrent
    /\ DiscoveryIsCurrent
-----------------------------------------------------------------------------
(* The states an operation may go to                                       *)

\* An operation that is over is as before it began.
LEMMA NoOpIsSound ==
    ASSUME NEW o
    PROVE  NoOp \in OpState /\ OpSound(o, NoOp)
<1>1. NoOp \in OpState
  BY CacheAssumption DEF NoOp, OpState, Kinds, MaybeCred, MaybeKey, SlotCaches
<1>2. OpSound(o, NoOp)
  BY DEF NoOp, OpSound
<1>3. QED
  BY <1>1, <1>2

\* An operation that fails holds nothing any more.
LEMMA FailedIsSound ==
    ASSUME NEW o \in Operations, op[o] \in OpState, OpSound(o, op[o]),
           op[o].stage # "idle"
    PROVE  /\ Failed(o) \in OpState /\ OpSound(o, Failed(o))
           /\ FailedForGood(o) \in OpState /\ OpSound(o, FailedForGood(o))
<1>1. Failed(o) \in OpState /\ FailedForGood(o) \in OpState
  <2>1. 0 \in 0..StartupRpcs
    BY CacheAssumption
  <2>2. Failed(o) \in OpState
    BY <2>1 DEF Failed, OpState
  <2>3. QED
    BY <2>2 DEF FailedForGood, OpState
<1>2. OpSound(o, Failed(o)) /\ OpSound(o, FailedForGood(o))
  BY DEF Failed, FailedForGood, OpSound, OpState
<1>3. QED
  BY <1>1, <1>2

\* A step that leaves the tokens, the exchanges and the usage alone keeps the invariant
\* when what it does to each operation, slot and the advertised catalogue is sound.
LEMMA DiscoveryKeeps ==
    ASSUME IInv, UNCHANGED <<config, tokenVars, usageRefresh>>,
           op' \in [Operations -> OpState], \A o \in Operations : OpSound(o, op'[o]),
           slots' \in [CacheCreds -> SlotState],
           \A c \in CacheCreds : slots'[c].key \in {Nobody, config[c]},
           advertised' \in [cred : MaybeCred, key : MaybeKey],
           advertised'.cred # Nobody => config[advertised'.cred] = advertised'.key,
           listing' \in [op : Operations \cup {Nobody}, cred : MaybeCred],
           initialized' \in BOOLEAN
    PROVE  IInv'
<1>1. CacheTypeOK'
  BY DEF IInv, CacheTypeOK, tokenVars
<1>2. (\A f \in Flights : FlightSound(f))'
  BY DEF IInv, FlightSound, tokenVars
<1>3. (\A c \in CacheCreds : RefreshSound(c))'
  BY DEF IInv, RefreshSound, tokenVars
<1>4. (\A o \in Operations : OpSound(o, op[o]))'
  BY DEF OpSound, tokenVars
<1>5. TokensCurrent' /\ DiscoveryIsCurrent'
  BY DEF IInv, TokensCurrent, DiscoveryIsCurrent, tokenVars
<1>6. QED
  BY <1>1, <1>2, <1>3, <1>4, <1>5 DEF IInv

\* The same for a step that only changes operations.
LEMMA OperationsKeep ==
    ASSUME IInv,
           UNCHANGED <<config, tokenVars, discoveryVars, usageRefresh>>,
           op' \in [Operations -> OpState], \A o \in Operations : OpSound(o, op'[o])
    PROVE  IInv'
<1>1. /\ slots' = slots /\ advertised' = advertised /\ listing' = listing
      /\ initialized' = initialized
  BY DEF discoveryVars
<1>2. /\ slots \in [CacheCreds -> SlotState]
      /\ advertised \in [cred : MaybeCred, key : MaybeKey]
      /\ listing \in [op : Operations \cup {Nobody}, cred : MaybeCred]
      /\ initialized \in BOOLEAN
  BY DEF IInv, CacheTypeOK
<1>3. DiscoveryIsCurrent
  BY DEF IInv
<1>4. QED
  BY <1>1, <1>2, <1>3, DiscoveryKeeps DEF DiscoveryIsCurrent

\* One operation goes to a sound state.
LEMMA OneOperation ==
    ASSUME IInv, NEW o \in Operations, NEW s \in OpState, OpSound(o, s),
           op' = [op EXCEPT ![o] = s]
    PROVE  op' \in [Operations -> OpState] /\ \A p \in Operations : OpSound(p, op'[p])
BY DEF IInv, CacheTypeOK
-----------------------------------------------------------------------------
(* auth.ts                                                                 *)

\* getToken, whoever calls it: the usage of c is refreshed by o if o asks for it.
LEMMA GetTokenKeeps ==
    ASSUME IInv, NEW o \in Operations, NEW kind \in Kinds,
           NEW c \in CacheCreds, NEW again \in BOOLEAN, config[c] # Off,
           GetToken(o, kind, c, again), kind = "usage" => ~again,
           UNCHANGED <<config, slots, advertised, initialized>>,
           listing' \in [op : Operations \cup {Nobody}, cred : MaybeCred],
           usageRefresh' \in [CacheCreds -> Operations \cup {Nobody}],
           kind = "usage" => usageRefresh'[c] = o,
           \A p \in Operations : op[p].kind = "usage" /\ op[p].stage # "idle" /\ p # o
                                 => usageRefresh'[op[p].cred] = p
    PROVE  IInv'
<1> DEFINE begun == [NoOp EXCEPT !.kind = kind, !.cred = c, !.key = config[c], !.again = again]
           waiting(f) == [begun EXCEPT !.stage = "token", !.flight = f]
           entering == [begun EXCEPT !.stage = "entering", !.token = tokens[c]]
<1>1. config[c] \in ApiKeys /\ c \in MaybeCred /\ config[c] \in MaybeKey
  BY DEF IInv, CacheTypeOK, MaybeCred, MaybeKey
<1>2. begun \in OpState
  BY <1>1, NoOpIsSound DEF OpState, NoOp
<1>3. /\ begun.kind = kind /\ begun.cred = c /\ begun.key = config[c] /\ begun.again = again
      /\ begun.stage = "idle" /\ begun.flight = Nobody /\ begun.token = Nobody
  BY DEF NoOp
<1>4. \A p \in Operations : op[p] \in OpState /\ OpSound(p, op[p])
  BY DEF IInv, CacheTypeOK
<1>5. DiscoveryIsCurrent' /\ (CacheTypeOK => slots' \in [CacheCreds -> SlotState])
  BY DEF IInv, DiscoveryIsCurrent, CacheTypeOK
<1> HIDE DEF begun
<1>6. ASSUME NEW s \in OpState, op' = [op EXCEPT ![o] = s],
             s.kind = kind, s.cred = c, s.key = config[c], s.again = again,
             s.stage \in {"token", "entering"}, s.stage = "token" <=> s.flight # Nobody,
             s.flight # Nobody => /\ flight'[s.flight].cred = c
                                  /\ flight'[s.flight].key = config[c],
             s.token \in {Nobody, config[c]}, s.stage = "entering" => s.token = config[c],
             \A p \in Operations : op[p].flight # Nobody
                                   => flight'[op[p].flight] = flight[op[p].flight]
      PROVE  op' \in [Operations -> OpState] /\ (\A p \in Operations : OpSound(p, op[p]))'
  <2>1. op' \in [Operations -> OpState]
    BY <1>6 DEF IInv, CacheTypeOK
  <2>2. op'[o] = s /\ \A p \in Operations \ {o} : op'[p] = op[p]
    BY <1>6 DEF IInv, CacheTypeOK
  <2>3. ASSUME NEW p \in Operations PROVE OpSound(p, op[p])'
    <3>1. CASE p = o
      BY <1>1, <1>6, <2>2, <3>1 DEF OpSound
    <3>2. CASE p # o
      BY <1>4, <1>6, <2>2, <3>2 DEF OpSound
    <3>3. QED
      BY <3>1, <3>2
  <2>4. QED
    BY <2>1, <2>3
<1>7. CASE /\ tokens[c] # Nobody
           /\ op' = [op EXCEPT ![o] = entering]
           /\ UNCHANGED tokenVars
  <2>1. tokens[c] = config[c]
    BY <1>7 DEF IInv, TokensCurrent
  <2>2. entering \in OpState
    BY <1>1, <1>2, <2>1 DEF OpState
  <2>3. /\ entering.kind = kind /\ entering.cred = c /\ entering.key = config[c]
        /\ entering.again = again /\ entering.stage = "entering"
        /\ entering.flight = Nobody /\ entering.token = config[c]
    BY <1>2, <1>3, <2>1 DEF OpState
  <2> HIDE DEF entering
  <2>4. flight' = flight
    BY <1>7 DEF tokenVars
  <2>5. op' \in [Operations -> OpState] /\ (\A p \in Operations : OpSound(p, op[p]))'
    BY <1>6, <1>7, <2>2, <2>3, <2>4
  <2>6. CacheTypeOK'
    BY <1>5, <1>7, <2>5 DEF IInv, CacheTypeOK, tokenVars
  <2>7. (\A f \in Flights : FlightSound(f))' /\ (\A d \in CacheCreds : RefreshSound(d))'
    BY <1>7 DEF IInv, FlightSound, RefreshSound, tokenVars
  <2>8. TokensCurrent'
    BY <1>7 DEF IInv, TokensCurrent, tokenVars
  <2>9. QED
    BY <1>5, <2>5, <2>6, <2>7, <2>8 DEF IInv
<1>8. CASE /\ refreshing[c] # Nobody
           /\ op' = [op EXCEPT ![o] = waiting(refreshing[c])]
           /\ UNCHANGED tokenVars
  <2>1. /\ refreshing[c] \in Flights
        /\ flight[refreshing[c]].cred = c /\ flight[refreshing[c]].key = config[c]
    BY <1>8 DEF IInv, RefreshSound
  <2> DEFINE next == waiting(refreshing[c])
  <2>2. next \in OpState
    BY <1>2, <2>1 DEF OpState
  <2>3. /\ next.kind = kind /\ next.cred = c /\ next.key = config[c] /\ next.again = again
        /\ next.stage = "token" /\ next.flight = refreshing[c] /\ next.token = Nobody
    BY <1>2, <1>3 DEF OpState
  <2>4. op' = [op EXCEPT ![o] = next]
    BY <1>8
  <2> HIDE DEF next
  <2>5. flight' = flight
    BY <1>8 DEF tokenVars
  <2>6. op' \in [Operations -> OpState] /\ (\A p \in Operations : OpSound(p, op[p]))'
    BY <1>6, <1>8, <2>1, <2>2, <2>3, <2>4, <2>5
  <2>7. CacheTypeOK'
    BY <1>5, <1>8, <2>6 DEF IInv, CacheTypeOK, tokenVars
  <2>8. (\A f \in Flights : FlightSound(f))' /\ (\A d \in CacheCreds : RefreshSound(d))'
    BY <1>8 DEF IInv, FlightSound, RefreshSound, tokenVars
  <2>9. TokensCurrent'
    BY <1>8 DEF IInv, TokensCurrent, tokenVars
  <2>10. QED
    BY <1>5, <2>6, <2>7, <2>8, <2>9 DEF IInv
<1>9. CASE /\ refreshing[c] = Nobody
           /\ \E f \in {g \in Flights : flight[g] = NoFlight} :
                /\ flight' = [flight EXCEPT
                                ![f] = [cred |-> c, key |-> config[c], valid |-> TRUE]]
                /\ refreshing' = [refreshing EXCEPT ![c] = f]
                /\ generation' = [generation EXCEPT ![c] = f]
                /\ op' = [op EXCEPT ![o] = waiting(f)]
           /\ UNCHANGED tokens
  <2>1. PICK f \in Flights :
            /\ flight[f] = NoFlight
            /\ flight' = [flight EXCEPT
                            ![f] = [cred |-> c, key |-> config[c], valid |-> TRUE]]
            /\ refreshing' = [refreshing EXCEPT ![c] = f]
            /\ generation' = [generation EXCEPT ![c] = f]
            /\ op' = [op EXCEPT ![o] = waiting(f)]
    BY <1>9
  <2> DEFINE next == waiting(f)
  <2>2. next \in OpState
    BY <1>2 DEF OpState
  <2>3. /\ next.kind = kind /\ next.cred = c /\ next.key = config[c] /\ next.again = again
        /\ next.stage = "token" /\ next.flight = f /\ next.token = Nobody
    BY <1>2, <1>3 DEF OpState
  <2>4. op' = [op EXCEPT ![o] = next]
    BY <2>1
  <2> HIDE DEF next
  <2>5. f # Nobody /\ c # Nobody
    BY CacheAssumption
  <2>6. /\ flight' \in [Flights -> FlightState]
        /\ refreshing' \in [CacheCreds -> Flights \cup {Nobody}]
        /\ generation' \in [CacheCreds -> Flights \cup {Nobody}]
    BY <1>1, <2>1 DEF IInv, CacheTypeOK, FlightState
  <2>7. /\ flight'[f].cred = c /\ flight'[f].key = config[c] /\ flight'[f].valid
        /\ \A g \in Flights \ {f} : flight'[g] = flight[g]
        /\ refreshing'[c] = f /\ \A d \in CacheCreds \ {c} : refreshing'[d] = refreshing[d]
        /\ generation'[c] = f /\ \A d \in CacheCreds \ {c} : generation'[d] = generation[d]
        /\ flight'[f] # NoFlight
    BY <2>1, <2>5 DEF IInv, CacheTypeOK, NoFlight
  <2>8. flight[f].cred = Nobody /\ ~flight[f].valid
    BY <2>1 DEF NoFlight
  <2>9. \A p \in Operations : op[p].flight # Nobody
                              => op[p].flight \in Flights /\ op[p].flight # f
    <3>1. SUFFICES ASSUME NEW p \in Operations, op[p].flight # Nobody
                   PROVE  op[p].flight \in Flights /\ op[p].flight # f
      OBVIOUS
    <3>2. op[p].flight \in Flights
      BY <1>4, <3>1 DEF OpState
    <3>3. op[p].stage = "token" /\ flight[op[p].flight].cred = op[p].cred
      BY <1>4, <3>1 DEF OpSound
    <3>4. op[p].cred \in CacheCreds
      BY <1>4, <3>3 DEF OpSound
    <3>5. QED
      BY <2>8, <3>2, <3>3, <3>4, CacheAssumption
  <2>10. op' \in [Operations -> OpState] /\ (\A p \in Operations : OpSound(p, op[p]))'
    BY <1>6, <2>2, <2>3, <2>4, <2>5, <2>7, <2>9
  <2>11. CacheTypeOK'
    BY <1>5, <1>9, <2>6, <2>10 DEF IInv, CacheTypeOK
  <2>12. ASSUME NEW g \in Flights PROVE FlightSound(g)'
    <3>1. CASE g = f
      BY <1>1, <2>7, <3>1 DEF FlightSound
    <3>2. CASE g # f
      <4>1. FlightSound(g) /\ flight'[g] = flight[g]
        BY <2>7, <3>2 DEF IInv
      <4>2. CASE flight[g] = NoFlight
        BY <4>1, <4>2 DEF FlightSound, NoFlight
      <4>3. CASE flight[g] # NoFlight /\ flight[g].cred = c
        BY <1>9, <2>5, <2>7, <3>2, <4>1, <4>3, CacheAssumption DEF FlightSound
      <4>4. CASE flight[g] # NoFlight /\ flight[g].cred # c
        BY <2>7, <4>1, <4>4 DEF FlightSound
      <4>5. QED
        BY <4>2, <4>3, <4>4
    <3>3. QED
      BY <3>1, <3>2
  <2>13. ASSUME NEW d \in CacheCreds PROVE RefreshSound(d)'
    <3>1. CASE d = c
      BY <2>7, <3>1 DEF RefreshSound
    <3>2. CASE d # c
      <4>1. RefreshSound(d) /\ refreshing'[d] = refreshing[d]
        BY <2>7, <3>2 DEF IInv
      <4>2. refreshing[d] # f
        BY <2>5, <2>8, <4>1 DEF RefreshSound
      <4>3. QED
        BY <2>7, <4>1, <4>2 DEF RefreshSound
    <3>3. QED
      BY <3>1, <3>2
  <2>14. TokensCurrent'
    BY <1>9 DEF IInv, TokensCurrent
  <2>15. QED
    BY <1>5, <2>10, <2>11, <2>12, <2>13, <2>14 DEF IInv
<1>10. QED
  BY <1>7, <1>8, <1>9 DEF GetToken, begun
\* An exchange ends: those that waited for it go on with its token, or fail.
LEMMA FlightEnds ==
    ASSUME IInv, NEW f \in Flights, flight[f] # NoFlight,
           refreshing' = Forget(f), flight' = [flight EXCEPT ![f] = NoFlight],
           UNCHANGED <<config, generation, discoveryVars, usageRefresh>>,
           tokens' \in [CacheCreds -> MaybeKey], TokensCurrent',
           op' \in [Operations -> OpState],
           \A o \in Operations :
                IF op[o].flight = f THEN op'[o].flight = Nobody /\ OpSound(o, op'[o])
                ELSE op'[o] = op[o]
    PROVE  IInv'
<1>1. /\ refreshing' \in [CacheCreds -> Flights \cup {Nobody}]
      /\ \A c \in CacheCreds : refreshing'[c] = IF refreshing[c] = f THEN Nobody ELSE refreshing[c]
  BY DEF IInv, CacheTypeOK, Forget
<1>2. NoFlight \in FlightState
  BY DEF NoFlight, FlightState, MaybeCred, MaybeKey
<1>3. /\ flight' \in [Flights -> FlightState]
      /\ flight'[f] = NoFlight /\ \A g \in Flights \ {f} : flight'[g] = flight[g]
  BY <1>2 DEF IInv, CacheTypeOK
<1>4. CacheTypeOK'
  BY <1>1, <1>3 DEF IInv, CacheTypeOK, discoveryVars
<1>5. ASSUME NEW g \in Flights PROVE FlightSound(g)'
  <2>1. CASE g = f
    BY <1>3, <2>1 DEF FlightSound, NoFlight
  <2>2. CASE g # f
    <3>1. FlightSound(g) /\ flight'[g] = flight[g]
      BY <1>3, <2>2 DEF IInv
    <3>2. CASE flight[g] = NoFlight
      BY <3>1, <3>2 DEF FlightSound, NoFlight
    <3>3. CASE flight[g] # NoFlight
      BY <1>1, <2>2, <3>1, <3>3 DEF FlightSound
    <3>4. QED
      BY <3>2, <3>3
  <2>3. QED
    BY <2>1, <2>2
<1>6. ASSUME NEW c \in CacheCreds PROVE RefreshSound(c)'
  <2>1. RefreshSound(c)
    BY DEF IInv
  <2>2. CASE refreshing[c] \in {f, Nobody}
    BY <1>1, <2>2 DEF RefreshSound
  <2>3. CASE refreshing[c] \notin {f, Nobody}
    BY <1>1, <1>3, <2>1, <2>3 DEF RefreshSound
  <2>4. QED
    BY <2>2, <2>3
<1>7. ASSUME NEW o \in Operations PROVE OpSound(o, op[o])'
  <2>1. op[o] \in OpState /\ OpSound(o, op[o])
    BY DEF IInv, CacheTypeOK
  <2>2. CASE op[o].flight = f
    BY <2>2 DEF OpSound
  <2>3. CASE op[o].flight # f
    <3>1. op[o].flight # Nobody => op[o].flight \in Flights \ {f}
      BY <2>1, <2>3 DEF OpState
    <3>2. op'[o] = op[o]
      BY <2>3
    <3>3. QED
      BY <1>3, <2>1, <3>1, <3>2 DEF OpSound
  <2>4. QED
    BY <2>2, <2>3
<1>8. DiscoveryIsCurrent'
  BY DEF IInv, DiscoveryIsCurrent, discoveryVars
<1>9. QED
  BY <1>4, <1>5, <1>6, <1>7, <1>8 DEF IInv

LEMMA TokenFailsKeeps ==
    ASSUME IInv, NEW f \in Flights, TokenFails(f)
    PROVE  IInv'
<1>1. /\ flight[f] # NoFlight
      /\ op' = [o \in Operations |-> IF op[o].flight # f THEN op[o] ELSE Failed(o)]
      /\ refreshing' = Forget(f)
      /\ flight' = [flight EXCEPT ![f] = NoFlight]
      /\ UNCHANGED <<config, generation, discoveryVars, usageRefresh>>
      /\ tokens' = tokens
  BY DEF TokenFails
<1>2. tokens' \in [CacheCreds -> MaybeKey] /\ TokensCurrent'
  BY <1>1 DEF IInv, CacheTypeOK, TokensCurrent
<1>3. \A o \in Operations : op[o] \in OpState /\ OpSound(o, op[o])
  BY DEF IInv, CacheTypeOK
<1>4. ASSUME NEW o \in Operations, op[o].flight = f
      PROVE  Failed(o) \in OpState /\ OpSound(o, Failed(o)) /\ Failed(o).flight = Nobody
  <2>1. op[o].stage = "token"
    BY <1>3, <1>4, CacheAssumption DEF OpSound
  <2>2. Failed(o).flight = Nobody
    BY <1>3 DEF Failed, OpState
  <2>3. QED
    BY <1>3, <2>1, <2>2, FailedIsSound
<1>5. op' \in [Operations -> OpState]
  BY <1>1, <1>3, <1>4
<1>6. \A o \in Operations :
        IF op[o].flight = f THEN op'[o].flight = Nobody /\ OpSound(o, op'[o])
        ELSE op'[o] = op[o]
  BY <1>1, <1>4
<1>7. QED
  BY <1>1, <1>2, <1>5, <1>6, FlightEnds

\* A token is remembered only while the generation it was begun in stands.
LEMMA TokenArrivesKeeps ==
    ASSUME IInv, NEW f \in Flights, TokenArrives(f)
    PROVE  IInv'
<1> DEFINE c == flight[f].cred
           going(o) == [op[o] EXCEPT !.stage = "entering", !.flight = Nobody,
                                     !.token = flight[f].key]
<1>1. /\ flight[f] # NoFlight
      /\ refreshing' = Forget(f)
      /\ flight' = [flight EXCEPT ![f] = NoFlight]
      /\ UNCHANGED <<config, generation, discoveryVars, usageRefresh>>
  BY DEF TokenArrives
<1>2. c \in CacheCreds /\ flight[f].key \in ApiKeys
  BY <1>1 DEF IInv, FlightSound
<1>3. \A o \in Operations : op[o] \in OpState /\ OpSound(o, op[o])
  BY DEF IInv, CacheTypeOK
<1>4. ASSUME NEW o \in Operations, op[o].flight = f
      PROVE  /\ op[o].stage = "token"
             /\ op[o].cred = c /\ op[o].key = flight[f].key
  BY <1>3, <1>4, CacheAssumption DEF OpSound
<1>5. CASE generation[c] = f
  <2>1. /\ tokens' = [tokens EXCEPT ![c] = flight[f].key]
        /\ op' = [o \in Operations |-> IF op[o].flight # f THEN op[o] ELSE going(o)]
    BY <1>5 DEF TokenArrives
  <2>2. flight[f].key = config[c]
    BY <1>1, <1>5 DEF IInv, FlightSound
  <2>3. tokens' \in [CacheCreds -> MaybeKey] /\ TokensCurrent'
    BY <1>1, <1>2, <2>1, <2>2 DEF IInv, CacheTypeOK, TokensCurrent, MaybeKey
  <2>4. ASSUME NEW o \in Operations, op[o].flight = f
        PROVE  going(o) \in OpState /\ OpSound(o, going(o)) /\ going(o).flight = Nobody
    <3>1. going(o) \in OpState
      BY <1>2, <1>3 DEF OpState, MaybeKey
    <3>2. /\ going(o).flight = Nobody /\ going(o).stage = "entering"
          /\ going(o).token = flight[f].key /\ going(o).cred = op[o].cred
          /\ going(o).key = op[o].key /\ going(o).kind = op[o].kind
          /\ going(o).again = op[o].again
      BY <1>3 DEF OpState
    <3> HIDE DEF going
    <3>3. OpSound(o, going(o))
      BY <1>2, <1>3, <1>4, <2>4, <3>2 DEF OpSound
    <3>4. QED
      BY <3>1, <3>2, <3>3
  <2> HIDE DEF going, c
  <2>5. op' \in [Operations -> OpState]
    BY <1>3, <2>1, <2>4
  <2>6. \A o \in Operations :
          IF op[o].flight = f THEN op'[o].flight = Nobody /\ OpSound(o, op'[o])
          ELSE op'[o] = op[o]
    BY <2>1, <2>4
  <2>7. QED
    BY <1>1, <2>3, <2>5, <2>6, FlightEnds
<1>6. CASE generation[c] # f
  <2>1. /\ op' = [o \in Operations |-> IF op[o].flight # f THEN op[o] ELSE FailedForGood(o)]
        /\ tokens' = tokens
    BY <1>6 DEF TokenArrives
  <2>2. tokens' \in [CacheCreds -> MaybeKey] /\ TokensCurrent'
    BY <1>1, <2>1 DEF IInv, CacheTypeOK, TokensCurrent
  <2>3. ASSUME NEW o \in Operations, op[o].flight = f
        PROVE  /\ FailedForGood(o) \in OpState /\ OpSound(o, FailedForGood(o))
               /\ FailedForGood(o).flight = Nobody
    <3>1. FailedForGood(o) \in OpState /\ OpSound(o, FailedForGood(o))
      BY <1>3, <1>4, <2>3, FailedIsSound
    <3>2. FailedForGood(o).flight = Nobody
      BY <1>3 DEF FailedForGood, Failed, OpState
    <3>3. QED
      BY <3>1, <3>2
  <2> HIDE DEF c
  <2>4. op' \in [Operations -> OpState]
    BY <1>3, <2>1, <2>3
  <2>5. \A o \in Operations :
          IF op[o].flight = f THEN op'[o].flight = Nobody /\ OpSound(o, op'[o])
          ELSE op'[o] = op[o]
    BY <2>1, <2>3
  <2>6. QED
    BY <1>1, <2>2, <2>4, <2>5, FlightEnds
<1>7. QED
  BY <1>5, <1>6

\* updateCredentials takes back all that was learned with the old key: an exchange that
\* is still under way is no longer waited for by anyone who begins now.
LEMMA UpdateCredentialKeeps ==
    ASSUME IInv, NEW c \in CacheCreds, NEW v \in ApiKeys \cup {Off},
           UpdateCredential(c, v)
    PROVE  IInv'
<1>1. /\ config' = [config EXCEPT ![c] = v]
      /\ tokens' = [tokens EXCEPT ![c] = Nobody]
      /\ refreshing' = [refreshing EXCEPT ![c] = Nobody]
      /\ generation' = [generation EXCEPT ![c] = Nobody]
      /\ slots' = [slots EXCEPT ![c] = NoSlot]
  BY DEF UpdateCredential
<1>2. flight' = [f \in Flights |->
                    IF flight[f].cred = c THEN [flight[f] EXCEPT !.valid = FALSE] ELSE flight[f]]
  BY DEF UpdateCredential
<1>3. op' = [o \in Operations |->
                IF /\ op[o].cred = c /\ op[o].kind # "usage"
                   /\ op[o].stage \in {"startup", "load", "loaded"}
                THEN [op[o] EXCEPT !.aborted = TRUE] ELSE op[o]]
  BY DEF UpdateCredential
<1>4. /\ advertised' = IF advertised.cred = c THEN NotAdvertised ELSE advertised
      /\ listing' = IF listing.cred = c THEN NoListing ELSE listing
      /\ usageRefresh' = usageRefresh /\ initialized' = initialized
  BY DEF UpdateCredential, InvalidateUsage
<1>5. CacheTypeOK
  BY DEF IInv
<1>6. /\ NoSlot \in SlotState /\ NoSlot.key = Nobody
      /\ NotAdvertised \in [cred : MaybeCred, key : MaybeKey] /\ NotAdvertised.cred = Nobody
      /\ NoListing \in [op : Operations \cup {Nobody}, cred : MaybeCred]
  BY DEF NoSlot, SlotState, NotAdvertised, NoListing, MaybeCred, MaybeKey
<1>7. /\ flight' \in [Flights -> FlightState]
      /\ \A f \in Flights : /\ flight'[f].cred = flight[f].cred
                            /\ flight'[f].key = flight[f].key
                            /\ flight'[f].valid = (flight[f].valid /\ flight[f].cred # c)
  BY <1>2, <1>5 DEF CacheTypeOK, FlightState
<1>8. op' \in [Operations -> OpState]
  <2>1. \A s \in OpState : [s EXCEPT !.aborted = TRUE] \in OpState
    BY DEF OpState
  <2>2. QED
    BY <1>3, <1>5, <2>1 DEF CacheTypeOK
<1>9. CacheTypeOK'
  <2>1. /\ config' \in [CacheCreds -> ApiKeys \cup {Off}]
        /\ tokens' \in [CacheCreds -> MaybeKey]
        /\ refreshing' \in [CacheCreds -> Flights \cup {Nobody}]
        /\ generation' \in [CacheCreds -> Flights \cup {Nobody}]
        /\ slots' \in [CacheCreds -> SlotState]
    BY <1>1, <1>5, <1>6 DEF CacheTypeOK, MaybeKey
  <2>2. /\ advertised' \in [cred : MaybeCred, key : MaybeKey]
        /\ listing' \in [op : Operations \cup {Nobody}, cred : MaybeCred]
    BY <1>4, <1>5, <1>6 DEF CacheTypeOK
  <2>3. QED
    BY <1>4, <1>5, <1>7, <1>8, <2>1, <2>2 DEF CacheTypeOK
<1>10. ASSUME NEW f \in Flights PROVE FlightSound(f)'
  <2>1. FlightSound(f)
    BY DEF IInv
  <2>2. CASE flight[f] = NoFlight
    BY <1>2, <2>2, CacheAssumption DEF NoFlight, FlightSound
  <2>3. CASE flight[f] # NoFlight
    BY <1>1, <1>5, <1>7, <2>1, <2>3, CacheAssumption DEF FlightSound, CacheTypeOK
  <2>4. QED
    BY <2>2, <2>3
<1>11. ASSUME NEW d \in CacheCreds PROVE RefreshSound(d)'
  <2>1. CASE d = c
    BY <1>1, <1>5, <2>1 DEF RefreshSound, CacheTypeOK
  <2>2. CASE d # c
    <3>1. RefreshSound(d) /\ refreshing'[d] = refreshing[d] /\ config'[d] = config[d]
      BY <1>1, <1>5, <2>2 DEF IInv, CacheTypeOK
    <3>2. CASE refreshing[d] = Nobody
      BY <3>1, <3>2 DEF RefreshSound
    <3>3. CASE refreshing[d] # Nobody
      BY <1>7, <2>2, <3>1, <3>3 DEF RefreshSound
    <3>4. QED
      BY <3>2, <3>3
  <2>3. QED
    BY <2>1, <2>2
<1>12. ASSUME NEW o \in Operations PROVE OpSound(o, op[o])'
  <2>1. op[o] \in OpState /\ OpSound(o, op[o])
    BY <1>5 DEF IInv, CacheTypeOK
  <2>2. /\ op'[o].stage = op[o].stage /\ op'[o].cred = op[o].cred /\ op'[o].key = op[o].key
        /\ op'[o].flight = op[o].flight /\ op'[o].token = op[o].token
        /\ op'[o].kind = op[o].kind /\ op'[o].again = op[o].again
    BY <1>3, <2>1 DEF OpState
  <2>3. op[o].flight # Nobody => op[o].flight \in Flights
    BY <2>1 DEF OpState
  <2>4. QED
    BY <1>4, <1>7, <2>1, <2>2, <2>3 DEF OpSound
<1>13. TokensCurrent'
  BY <1>1, <1>5 DEF IInv, TokensCurrent, CacheTypeOK
<1>14. DiscoveryIsCurrent'
  <2>1. \A d \in CacheCreds : slots'[d].key \in {Nobody, config'[d]}
    BY <1>1, <1>5, <1>6 DEF IInv, DiscoveryIsCurrent, CacheTypeOK
  <2>2. advertised'.cred # Nobody => config'[advertised'.cred] = advertised'.key
    <3>1. CASE advertised.cred = c
      BY <1>4, <1>6, <3>1
    <3>2. CASE advertised.cred # c
      BY <1>1, <1>4, <1>5, <3>2 DEF IInv, DiscoveryIsCurrent, CacheTypeOK, MaybeCred
    <3>3. QED
      BY <3>1, <3>2
  <2>3. QED
    BY <2>1, <2>2 DEF DiscoveryIsCurrent
<1>15. QED
  BY <1>9, <1>10, <1>11, <1>12, <1>13, <1>14 DEF IInv
-----------------------------------------------------------------------------
(* The operations begin, and end                                           *)

LEMMA BeginKeeps ==
    ASSUME IInv, NEW o \in Operations, NEW kind \in Kinds,
           NEW c \in CacheCreds, Begin(o, kind, c)
    PROVE  IInv'
<1>1. /\ config[c] # Off
      /\ CanBegin(kind, c)
      /\ GetToken(o, kind, c, kind # "usage")
      /\ listing' = IF kind = "list" THEN [op |-> o, cred |-> Nobody] ELSE listing
      /\ usageRefresh' = IF kind = "usage" THEN [usageRefresh EXCEPT ![c] = o] ELSE usageRefresh
      /\ UNCHANGED <<config, slots, advertised, initialized>>
  BY DEF Begin
<1>2. listing' \in [op : Operations \cup {Nobody}, cred : MaybeCred]
  BY <1>1 DEF IInv, CacheTypeOK, MaybeCred
<1>3. usageRefresh' \in [CacheCreds -> Operations \cup {Nobody}]
  BY <1>1 DEF IInv, CacheTypeOK
<1>4. kind = "usage" => usageRefresh'[c] = o
  BY <1>1 DEF IInv, CacheTypeOK
<1>5. ASSUME NEW p \in Operations, op[p].kind = "usage", op[p].stage # "idle", p # o
      PROVE  usageRefresh'[op[p].cred] = p
  <2>1. op[p].cred \in CacheCreds /\ usageRefresh[op[p].cred] = p
    BY <1>5 DEF IInv, OpSound
  <2>2. CASE kind # "usage"
    BY <1>1, <2>1, <2>2
  <2>3. CASE kind = "usage"
    <3>1. usageRefresh[c] = Nobody
      BY <1>1, <2>3 DEF CanBegin
    <3>2. op[p].cred # c
      BY <2>1, <3>1, CacheAssumption
    <3>3. QED
      BY <1>1, <2>1, <2>3, <3>2 DEF IInv, CacheTypeOK
  <2>4. QED
    BY <2>2, <2>3
<1>6. (kind # "usage") \in BOOLEAN /\ (kind = "usage" => ~(kind # "usage"))
  OBVIOUS
<1>7. QED
  BY <1>1, <1>2, <1>3, <1>4, <1>5, <1>6, GetTokenKeeps

\* The refresh of a usage is of one credential: the router does not pick another.
LEMMA FailoverKeeps ==
    ASSUME IInv, NEW o \in Operations, NEW c \in CacheCreds, Failover(o, c)
    PROVE  IInv'
<1>1. /\ op[o].stage = "failed" /\ op[o].again
      /\ config[c] # Off
      /\ GetToken(o, op[o].kind, c, FALSE)
      /\ UNCHANGED <<config, discoveryVars, usageRefresh>>
  BY DEF Failover
<1>2. op[o] \in OpState /\ OpSound(o, op[o])
  BY DEF IInv, CacheTypeOK
<1>3. op[o].kind \in Kinds /\ op[o].kind # "usage"
  BY <1>1, <1>2 DEF OpSound, OpState
<1>4. /\ listing' \in [op : Operations \cup {Nobody}, cred : MaybeCred]
      /\ usageRefresh' \in [CacheCreds -> Operations \cup {Nobody}]
  BY <1>1 DEF IInv, CacheTypeOK, discoveryVars
<1>5. \A p \in Operations : op[p].kind = "usage" /\ op[p].stage # "idle" /\ p # o
                            => usageRefresh'[op[p].cred] = p
  BY <1>1 DEF IInv, OpSound
<1>6. UNCHANGED <<config, slots, advertised, initialized>>
  BY <1>1 DEF discoveryVars
<1>7. FALSE \in BOOLEAN
  OBVIOUS
<1>8. QED
  BY <1>1, <1>3, <1>4, <1>5, <1>6, <1>7, GetTokenKeeps

\* An operation ends, and with it the refresh of a usage that it was.
LEMMA EndingKeeps ==
    ASSUME IInv, NEW o \in Operations, op[o].stage # "idle",
           op' = [op EXCEPT ![o] = NoOp],
           UNCHANGED <<config, tokenVars, slots, advertised, initialized>>,
           listing' \in [op : Operations \cup {Nobody}, cred : MaybeCred],
           usageRefresh' = IF op[o].kind = "usage"
                           THEN [usageRefresh EXCEPT ![op[o].cred] = Nobody] ELSE usageRefresh
    PROVE  IInv'
<1>1. op' \in [Operations -> OpState] /\ op'[o] = NoOp
      /\ \A p \in Operations \ {o} : op'[p] = op[p]
  BY NoOpIsSound DEF IInv, CacheTypeOK
<1>2. op[o].cred \in CacheCreds /\ (op[o].kind = "usage" => usageRefresh[op[o].cred] = o)
  BY DEF IInv, OpSound
<1>3. usageRefresh' \in [CacheCreds -> Operations \cup {Nobody}]
  BY <1>2 DEF IInv, CacheTypeOK
<1>4. CacheTypeOK'
  BY <1>1, <1>3 DEF IInv, CacheTypeOK, tokenVars
<1>5. ASSUME NEW p \in Operations PROVE OpSound(p, op[p])'
  <2>1. CASE p = o
    BY <1>1, <2>1 DEF OpSound, NoOp
  <2>2. CASE p # o
    <3>1. op'[p] = op[p] /\ OpSound(p, op[p]) /\ flight' = flight
      BY <1>1, <2>2 DEF IInv, tokenVars
    <3>2. op[p].kind = "usage" /\ op[p].stage # "idle" => usageRefresh'[op[p].cred] = p
      <4>1. SUFFICES ASSUME op[p].kind = "usage", op[p].stage # "idle"
                     PROVE  usageRefresh'[op[p].cred] = p
        OBVIOUS
      <4>2. op[p].cred \in CacheCreds /\ usageRefresh[op[p].cred] = p
        BY <3>1, <4>1 DEF OpSound
      <4>3. CASE op[o].kind = "usage"
        <5>1. op[p].cred # op[o].cred
          BY <1>2, <2>2, <4>2, <4>3
        <5>2. QED
          BY <1>2, <4>2, <4>3, <5>1 DEF IInv, CacheTypeOK
      <4>4. CASE op[o].kind # "usage"
        BY <4>2, <4>4
      <4>5. QED
        BY <4>3, <4>4
    <3>3. QED
      BY <3>1, <3>2 DEF OpSound
  <2>3. QED
    BY <2>1, <2>2
<1>6. (\A f \in Flights : FlightSound(f))' /\ (\A c \in CacheCreds : RefreshSound(c))'
  BY DEF IInv, FlightSound, RefreshSound, tokenVars
<1>7. TokensCurrent' /\ DiscoveryIsCurrent'
  BY DEF IInv, TokensCurrent, DiscoveryIsCurrent, tokenVars
<1>8. QED
  BY <1>4, <1>5, <1>6, <1>7 DEF IInv

LEMMA OperationEndsKeeps ==
    ASSUME IInv, NEW o \in Operations, OperationEnds(o)
    PROVE  IInv'
<1>1. NoListing \in [op : Operations \cup {Nobody}, cred : MaybeCred]
  BY DEF NoListing, MaybeCred
<1>2. listing' \in [op : Operations \cup {Nobody}, cred : MaybeCred]
  BY <1>1 DEF OperationEnds, IInv, CacheTypeOK
<1>3. QED
  BY <1>2, EndingKeeps DEF OperationEnds

LEMMA UsageAnswersKeeps ==
    ASSUME IInv, NEW o \in Operations, UsageAnswers(o)
    PROVE  IInv'
<1>1. /\ op[o].stage = "load" /\ op[o].kind = "usage"
      /\ usageRefresh' = [usageRefresh EXCEPT ![op[o].cred] = Nobody]
      /\ op' = [op EXCEPT ![o] = NoOp]
      /\ UNCHANGED <<config, tokenVars, slots, advertised, initialized>>
      /\ listing' = listing
  BY DEF UsageAnswers, discoveryVars
<1>2. listing' \in [op : Operations \cup {Nobody}, cred : MaybeCred]
  BY <1>1 DEF IInv, CacheTypeOK
<1>3. QED
  BY <1>1, <1>2, EndingKeeps
-----------------------------------------------------------------------------
(* discovery.ts                                                            *)

\* The slot of an operation that goes on is of the present key.
LEMMA SlotIsCurrent ==
    ASSUME IInv, NEW o \in Operations, op[o].stage # "idle",
           config[op[o].cred] = op[o].key
    PROVE  /\ op[o].cred \in CacheCreds /\ op[o].key \in ApiKeys
           /\ SlotOf(o) \in SlotState /\ SlotOf(o).key \in {Nobody, config[op[o].cred]}
<1>1. op[o].cred \in CacheCreds /\ op[o].key \in ApiKeys
  BY DEF IInv, OpSound
<1>2. NoSlot \in SlotState /\ [NoSlot EXCEPT !.key = op[o].key] \in SlotState
      /\ [NoSlot EXCEPT !.key = op[o].key].key = op[o].key
  BY <1>1 DEF NoSlot, SlotState, MaybeKey
<1>3. slots[op[o].cred] \in SlotState /\ slots[op[o].cred].key \in {Nobody, config[op[o].cred]}
  BY <1>1 DEF IInv, CacheTypeOK, DiscoveryIsCurrent
<1>4. QED
  BY <1>1, <1>2, <1>3 DEF SlotOf

\* What a step does to one slot keeps the others, and the discovery current.
LEMMA OneSlot ==
    ASSUME IInv, NEW c \in CacheCreds, NEW s \in SlotState,
           s.key \in {Nobody, config[c]}, slots' = [slots EXCEPT ![c] = s]
    PROVE  /\ slots' \in [CacheCreds -> SlotState]
           /\ \A d \in CacheCreds : slots'[d].key \in {Nobody, config[d]}
<1>1. slots \in [CacheCreds -> SlotState]
  BY DEF IInv, CacheTypeOK
<1>2. \A d \in CacheCreds : slots[d].key \in {Nobody, config[d]}
  BY DEF IInv, DiscoveryIsCurrent
<1>3. QED
  BY <1>1, <1>2

\* A cache of a slot is loaded, found missing or expired.
LEMMA OneCache ==
    ASSUME IInv, NEW c \in CacheCreds, NEW x \in SlotCaches,
           NEW v \in {"none", "loading", "ready"}, slots' = [slots EXCEPT ![c].cache[x] = v]
    PROVE  /\ slots' \in [CacheCreds -> SlotState]
           /\ \A d \in CacheCreds : slots'[d].key \in {Nobody, config[d]}
<1> DEFINE s == [slots[c] EXCEPT !.cache[x] = v]
<1>1. slots[c] \in SlotState /\ slots[c].key \in {Nobody, config[c]}
  BY DEF IInv, CacheTypeOK, DiscoveryIsCurrent
<1>2. s \in SlotState /\ s.key = slots[c].key
  BY <1>1 DEF SlotState
<1>3. slots' = [slots EXCEPT ![c] = s]
  OBVIOUS
<1> HIDE DEF s
<1>4. QED
  BY <1>1, <1>2, <1>3, OneSlot

\* The rest of what DiscoveryKeeps asks for, of a step that leaves it alone.
LEMMA RestIsSound ==
    ASSUME IInv
    PROVE  /\ advertised \in [cred : MaybeCred, key : MaybeKey]
           /\ advertised.cred # Nobody => config[advertised.cred] = advertised.key
           /\ listing \in [op : Operations \cup {Nobody}, cred : MaybeCred]
           /\ initialized \in BOOLEAN
           /\ slots \in [CacheCreds -> SlotState]
           /\ \A c \in CacheCreds : slots[c].key \in {Nobody, config[c]}
           /\ op \in [Operations -> OpState] /\ \A o \in Operations : OpSound(o, op[o])
BY DEF IInv, CacheTypeOK, DiscoveryIsCurrent

\* An operation fails for good: its credential has changed, or its caller gave up.
LEMMA FailingKeeps ==
    ASSUME IInv, NEW o \in Operations, op[o].stage # "idle",
           op' = [op EXCEPT ![o] = FailedForGood(o)],
           UNCHANGED <<config, tokenVars, discoveryVars, usageRefresh>>
    PROVE  IInv'
<1>1. FailedForGood(o) \in OpState /\ OpSound(o, FailedForGood(o))
  BY RestIsSound, FailedIsSound
<1>2. op' \in [Operations -> OpState] /\ \A p \in Operations : OpSound(p, op'[p])
  BY <1>1, OneOperation
<1>3. QED
  BY <1>2, OperationsKeep

\* An operation that has its token goes on with it, to any later stage.
LEMMA GoesOnIsSound ==
    ASSUME IInv, NEW o \in Operations, NEW s \in OpState,
           op[o].stage \in {"entering", "startup", "load", "loaded"},
           s.stage \in {"startup", "load", "loaded"},
           s.kind = op[o].kind, s.cred = op[o].cred, s.key = op[o].key,
           s.flight = op[o].flight, s.token = op[o].token, s.again = op[o].again
    PROVE  OpSound(o, s)
<1>1. OpSound(o, op[o])
  BY DEF IInv
<1>2. QED
  BY <1>1 DEF OpSound

LEMMA EnterInitKeeps ==
    ASSUME IInv, NEW o \in Operations, EnterInit(o)
    PROVE  IInv'
<1> DEFINE s == [SlotOf(o) EXCEPT !.startup = o]
           next == [op[o] EXCEPT !.stage = "load", !.rpcs = StartupRpcs]
<1>1. /\ op[o].stage = "entering" /\ config[op[o].cred] = op[o].key
      /\ slots' = [slots EXCEPT ![op[o].cred] = s]
      /\ UNCHANGED <<config, tokenVars, advertised, listing, initialized, usageRefresh>>
  BY DEF EnterInit, Current
<1>2. op' = [op EXCEPT ![o] = next]
  BY DEF EnterInit
<1>3. op[o] \in OpState
  BY RestIsSound
<1>4. next \in OpState
  <2>1. StartupRpcs \in 0..StartupRpcs
    BY CacheAssumption
  <2>2. QED
    BY <1>3, <2>1 DEF OpState
<1>5. /\ next.stage = "load" /\ next.kind = op[o].kind /\ next.cred = op[o].cred
      /\ next.key = op[o].key /\ next.flight = op[o].flight /\ next.token = op[o].token
      /\ next.again = op[o].again
  BY <1>3 DEF OpState
<1>6. op[o].cred \in CacheCreds /\ SlotOf(o) \in SlotState
      /\ SlotOf(o).key \in {Nobody, config[op[o].cred]}
  BY <1>1, SlotIsCurrent
<1>7. s \in SlotState /\ s.key = SlotOf(o).key
  BY <1>6 DEF SlotState
<1> HIDE DEF s, next
<1>8. OpSound(o, next)
  BY <1>1, <1>4, <1>5, GoesOnIsSound
<1>9. op' \in [Operations -> OpState] /\ \A p \in Operations : OpSound(p, op'[p])
  BY <1>2, <1>4, <1>8, OneOperation
<1>10. /\ slots' \in [CacheCreds -> SlotState]
       /\ \A d \in CacheCreds : slots'[d].key \in {Nobody, config[d]}
  BY <1>1, <1>6, <1>7, OneSlot
<1>11. UNCHANGED <<config, tokenVars, usageRefresh>>
  BY <1>1
<1>12. QED
  BY <1>1, <1>9, <1>10, <1>11, RestIsSound, DiscoveryKeeps

LEMMA EnterSlotKeeps ==
    ASSUME IInv, NEW o \in Operations, EnterSlot(o)
    PROVE  IInv'
<1> DEFINE c == op[o].cred
           needs == Needs(op[o].kind)
           missing == Missing(SlotOf(o), needs)
           waits == [op[o] EXCEPT !.stage = "startup"]
           loads == [op[o] EXCEPT !.needs = missing,
                                  !.stage = IF needs = {} THEN "load" ELSE LoadStage(missing)]
<1>1. /\ op[o].stage = "entering" /\ config[op[o].cred] = op[o].key
      /\ listing' = IF listing.op = o THEN [listing EXCEPT !.cred = c] ELSE listing
      /\ UNCHANGED <<config, tokenVars, advertised, initialized, usageRefresh>>
  BY DEF EnterSlot, Current
<1>2. \/ /\ op' = [op EXCEPT ![o] = waits]
         /\ slots' = [slots EXCEPT ![c] = SlotOf(o)]
      \/ /\ op' = [op EXCEPT ![o] = loads]
         /\ slots' = [slots EXCEPT ![c] = Loading(SlotOf(o), needs)]
  BY DEF EnterSlot
<1>3. op[o] \in OpState
  BY RestIsSound
<1>4. c \in CacheCreds /\ SlotOf(o) \in SlotState /\ SlotOf(o).key \in {Nobody, config[c]}
  BY <1>1, SlotIsCurrent
<1>5. needs \subseteq SlotCaches /\ missing \subseteq SlotCaches
  BY DEF Needs, SlotCaches, Missing
<1>6. /\ Loading(SlotOf(o), needs) \in SlotState
      /\ Loading(SlotOf(o), needs).key = SlotOf(o).key
  BY <1>4 DEF Loading, SlotState
<1>7. (IF needs = {} THEN "load" ELSE LoadStage(missing)) \in {"load", "loaded"}
  BY DEF LoadStage
<1>8. waits \in OpState /\ waits.stage = "startup" /\ waits.kind = op[o].kind
      /\ waits.cred = op[o].cred /\ waits.key = op[o].key /\ waits.flight = op[o].flight
      /\ waits.token = op[o].token /\ waits.again = op[o].again
  BY <1>3 DEF OpState
<1> HIDE DEF needs, missing, waits
<1>9. loads \in OpState /\ loads.stage \in {"load", "loaded"} /\ loads.kind = op[o].kind
      /\ loads.cred = op[o].cred /\ loads.key = op[o].key /\ loads.flight = op[o].flight
      /\ loads.token = op[o].token /\ loads.again = op[o].again
  BY <1>3, <1>5, <1>7 DEF OpState
<1> HIDE DEF loads, c
<1>10. OpSound(o, waits) /\ OpSound(o, loads)
  BY <1>1, <1>8, <1>9, GoesOnIsSound
<1>11. op' \in [Operations -> OpState] /\ \A p \in Operations : OpSound(p, op'[p])
  BY <1>2, <1>8, <1>9, <1>10, OneOperation
<1>12. /\ slots' \in [CacheCreds -> SlotState]
       /\ \A d \in CacheCreds : slots'[d].key \in {Nobody, config[d]}
  BY <1>2, <1>4, <1>6, OneSlot
<1>13. listing' \in [op : Operations \cup {Nobody}, cred : MaybeCred]
  BY <1>1, <1>4, RestIsSound DEF MaybeCred
<1>14. UNCHANGED <<config, tokenVars, usageRefresh>>
  BY <1>1
<1>15. QED
  BY <1>1, <1>11, <1>12, <1>13, <1>14, RestIsSound, DiscoveryKeeps

\* A cache is filled: those that awaited it have it.
LEMMA CacheLoadsKeeps ==
    ASSUME IInv, NEW c \in CacheCreds, NEW x \in SlotCaches, CacheLoads(c, x)
    PROVE  IInv'
<1> DEFINE next(o) == [op[o] EXCEPT !.needs = @ \ {x}, !.stage = LoadStage(op[o].needs \ {x})]
<1>1. /\ slots' = [slots EXCEPT ![c].cache[x] = "ready"]
      /\ op' = [o \in Operations |-> IF ~AwaitsCache(o, c, x) THEN op[o] ELSE next(o)]
      /\ UNCHANGED <<config, tokenVars, advertised, listing, initialized, usageRefresh>>
  BY DEF CacheLoads
<1>2. ASSUME NEW o \in Operations, AwaitsCache(o, c, x)
      PROVE  next(o) \in OpState /\ OpSound(o, next(o))
  <2>1. op[o] \in OpState /\ op[o].stage = "load"
    BY <1>2, RestIsSound DEF AwaitsCache
  <2>2. LoadStage(op[o].needs \ {x}) \in {"load", "loaded"}
    BY DEF LoadStage
  <2>3. next(o) \in OpState /\ next(o).stage \in {"load", "loaded"}
        /\ next(o).kind = op[o].kind /\ next(o).cred = op[o].cred /\ next(o).key = op[o].key
        /\ next(o).flight = op[o].flight /\ next(o).token = op[o].token
        /\ next(o).again = op[o].again
    BY <2>1, <2>2 DEF OpState
  <2> HIDE DEF next
  <2>4. QED
    BY <2>1, <2>3, GoesOnIsSound
<1> HIDE DEF next
<1>3. op' \in [Operations -> OpState] /\ \A o \in Operations : OpSound(o, op'[o])
  BY <1>1, <1>2, RestIsSound
<1>4. /\ slots' \in [CacheCreds -> SlotState]
      /\ \A d \in CacheCreds : slots'[d].key \in {Nobody, config[d]}
  BY <1>1, OneCache
<1>5. UNCHANGED <<config, tokenVars, usageRefresh>>
  BY <1>1
<1>6. QED
  BY <1>1, <1>3, <1>4, <1>5, RestIsSound, DiscoveryKeeps

\* A cache is not filled: those that awaited it fail.
LEMMA CacheFailsKeeps ==
    ASSUME IInv, NEW c \in CacheCreds, NEW x \in SlotCaches, CacheFails(c, x)
    PROVE  IInv'
<1>1. /\ slots' = [slots EXCEPT ![c].cache[x] = "none"]
      /\ op' = [o \in Operations |-> IF AwaitsCache(o, c, x) THEN Failed(o) ELSE op[o]]
      /\ UNCHANGED <<config, tokenVars, advertised, listing, initialized, usageRefresh>>
  BY DEF CacheFails
<1>2. ASSUME NEW o \in Operations, AwaitsCache(o, c, x)
      PROVE  Failed(o) \in OpState /\ OpSound(o, Failed(o))
  BY <1>2, FailedIsSound, RestIsSound DEF AwaitsCache
<1>3. op' \in [Operations -> OpState] /\ \A o \in Operations : OpSound(o, op'[o])
  BY <1>1, <1>2, RestIsSound
<1>4. /\ slots' \in [CacheCreds -> SlotState]
      /\ \A d \in CacheCreds : slots'[d].key \in {Nobody, config[d]}
  BY <1>1, OneCache
<1>5. UNCHANGED <<config, tokenVars, usageRefresh>>
  BY <1>1
<1>6. QED
  BY <1>1, <1>3, <1>4, <1>5, RestIsSound, DiscoveryKeeps

LEMMA CacheExpiresKeeps ==
    ASSUME IInv, NEW c \in CacheCreds, NEW x \in SlotCaches, CacheExpires(c, x)
    PROVE  IInv'
<1>1. /\ slots' = [slots EXCEPT ![c].cache[x] = "none"]
      /\ UNCHANGED <<config, tokenVars, advertised, listing, initialized, usageRefresh, op>>
  BY DEF CacheExpires
<1>2. /\ slots' \in [CacheCreds -> SlotState]
      /\ \A d \in CacheCreds : slots'[d].key \in {Nobody, config[d]}
  BY <1>1, OneCache
<1>3. UNCHANGED <<config, tokenVars, usageRefresh>>
  BY <1>1
<1>4. QED
  BY <1>1, <1>2, <1>3, RestIsSound, DiscoveryKeeps

\* An operation of the discovery is over, and leaves a sound catalogue.
LEMMA FinishKeeps ==
    ASSUME IInv, NEW o \in Operations, Finish(o)
    PROVE  IInv'
<1>1. /\ op[o].stage = "loaded" /\ config[op[o].cred] = op[o].key
      /\ op' = [op EXCEPT ![o] = NoOp]
      /\ advertised' = IF op[o].kind = "list"
                       THEN [cred |-> op[o].cred, key |-> op[o].key] ELSE advertised
      /\ listing' = IF listing.op = o THEN NoListing ELSE listing
      /\ UNCHANGED <<config, tokenVars, slots, initialized, usageRefresh>>
  BY DEF Finish, Current
<1>2. op[o].cred \in CacheCreds /\ op[o].key \in ApiKeys
  BY <1>1, SlotIsCurrent
<1>3. op' \in [Operations -> OpState] /\ \A p \in Operations : OpSound(p, op'[p])
  BY <1>1, NoOpIsSound, OneOperation
<1>4. /\ advertised' \in [cred : MaybeCred, key : MaybeKey]
      /\ advertised'.cred # Nobody => config[advertised'.cred] = advertised'.key
  BY <1>1, <1>2, RestIsSound DEF MaybeCred, MaybeKey
<1>5. listing' \in [op : Operations \cup {Nobody}, cred : MaybeCred]
  BY <1>1, RestIsSound DEF NoListing, MaybeCred
<1>6. UNCHANGED <<config, tokenVars, usageRefresh>>
  BY <1>1
<1>7. QED
  BY <1>1, <1>3, <1>4, <1>5, <1>6, RestIsSound, DiscoveryKeeps

LEMMA ProbeAnswersKeeps ==
    ASSUME IInv, NEW o \in Operations, ProbeAnswers(o)
    PROVE  IInv'
<1>1. /\ op[o].stage = "load" /\ config[op[o].cred] = op[o].key
      /\ slots' = [slots EXCEPT ![op[o].cred].cache["endpoint"] = "ready"]
      /\ op' = [op EXCEPT ![o] = NoOp]
      /\ UNCHANGED <<config, tokenVars, advertised, listing, initialized, usageRefresh>>
  BY DEF ProbeAnswers, Current
<1>2. op[o].cred \in CacheCreds /\ "endpoint" \in SlotCaches
  BY <1>1, SlotIsCurrent DEF SlotCaches
<1>3. op' \in [Operations -> OpState] /\ \A p \in Operations : OpSound(p, op'[p])
  BY <1>1, NoOpIsSound, OneOperation
<1>4. /\ slots' \in [CacheCreds -> SlotState]
      /\ \A d \in CacheCreds : slots'[d].key \in {Nobody, config[d]}
  BY <1>1, <1>2, OneCache
<1>5. UNCHANGED <<config, tokenVars, usageRefresh>>
  BY <1>1
<1>6. QED
  BY <1>1, <1>3, <1>4, <1>5, RestIsSound, DiscoveryKeeps

LEMMA StartupAnswersKeeps ==
    ASSUME IInv, NEW o \in Operations, StartupAnswers(o)
    PROVE  IInv'
<1> DEFINE next == [op[o] EXCEPT !.rpcs = @ - 1]
<1>1. /\ op[o].stage = "load" /\ op[o].rpcs > 1
      /\ op' = [op EXCEPT ![o] = next]
      /\ UNCHANGED <<config, tokenVars, discoveryVars, usageRefresh>>
  BY RestIsSound DEF StartupAnswers
<1>2. op[o] \in OpState
  BY RestIsSound
<1>3. op[o].rpcs - 1 \in 0..StartupRpcs
  BY <1>1, <1>2, CacheAssumption DEF OpState
<1>4. /\ next \in OpState /\ next.stage = "load" /\ next.kind = op[o].kind
      /\ next.cred = op[o].cred /\ next.key = op[o].key /\ next.flight = op[o].flight
      /\ next.token = op[o].token /\ next.again = op[o].again
  BY <1>1, <1>2, <1>3 DEF OpState
<1> HIDE DEF next
<1>5. OpSound(o, next)
  BY <1>1, <1>4, GoesOnIsSound
<1>6. op' \in [Operations -> OpState] /\ \A p \in Operations : OpSound(p, op'[p])
  BY <1>1, <1>4, <1>5, OneOperation
<1>7. QED
  BY <1>1, <1>6, OperationsKeep

\* The startup of a slot is over: those that waited for it find its caches filled.
LEMMA StartupEndsKeeps ==
    ASSUME IInv, NEW o \in Operations, StartupEnds(o)
    PROVE  IInv'
<1> DEFINE c == op[o].cred
           slot == [slots[c] EXCEPT !.startup = Nobody, !.cache = [x \in SlotCaches |-> "ready"]]
           served(p) == [op[p] EXCEPT !.stage = "loaded"]
<1>1. /\ op[o].stage = "load" /\ config[c] = op[o].key
      /\ op' = [p \in Operations |->
                IF p = o THEN NoOp
                ELSE IF op[p].stage = "startup" /\ op[p].cred = c /\ ~op[p].aborted
                     THEN served(p) ELSE op[p]]
      /\ advertised' = [cred |-> c, key |-> op[o].key]
      /\ initialized' = TRUE
      /\ UNCHANGED <<config, tokenVars, listing, usageRefresh>>
  BY DEF StartupEnds, Current
<1>2. c \in CacheCreds /\ op[o].key \in ApiKeys
  BY <1>1, SlotIsCurrent
<1>3. slots' = [slots EXCEPT ![c] = slot]
  BY <1>2, RestIsSound DEF StartupEnds
<1>4. slots[c] \in SlotState /\ slots[c].key \in {Nobody, config[c]}
  BY <1>2, RestIsSound
<1>5. slot \in SlotState /\ slot.key = slots[c].key
  BY <1>4 DEF SlotState
<1> HIDE DEF slot
<1>6. /\ slots' \in [CacheCreds -> SlotState]
      /\ \A d \in CacheCreds : slots'[d].key \in {Nobody, config[d]}
  BY <1>2, <1>3, <1>4, <1>5, OneSlot
<1>7. ASSUME NEW p \in Operations, op[p].stage = "startup"
      PROVE  served(p) \in OpState /\ OpSound(p, served(p))
  <2>1. op[p] \in OpState
    BY RestIsSound
  <2>2. /\ served(p) \in OpState /\ served(p).stage = "loaded" /\ served(p).kind = op[p].kind
        /\ served(p).cred = op[p].cred /\ served(p).key = op[p].key
        /\ served(p).flight = op[p].flight /\ served(p).token = op[p].token
        /\ served(p).again = op[p].again
    BY <2>1 DEF OpState
  <2> HIDE DEF served
  <2>3. QED
    BY <1>7, <2>2, GoesOnIsSound
<1> HIDE DEF served
<1>8. op' \in [Operations -> OpState] /\ \A p \in Operations : OpSound(p, op'[p])
  BY <1>1, <1>7, NoOpIsSound, RestIsSound
<1>9. /\ advertised' \in [cred : MaybeCred, key : MaybeKey]
      /\ advertised'.cred # Nobody => config[advertised'.cred] = advertised'.key
  BY <1>1, <1>2 DEF MaybeCred, MaybeKey
<1>10. UNCHANGED <<config, tokenVars, usageRefresh>> /\ initialized' \in BOOLEAN
  BY <1>1
<1>11. listing' \in [op : Operations \cup {Nobody}, cred : MaybeCred]
  BY <1>1, RestIsSound
<1>12. QED
  BY <1>6, <1>8, <1>9, <1>10, <1>11, DiscoveryKeeps

\* A request of the startup or the probe failed, and with it those that waited for it.
LEMMA RequestFailsKeeps ==
    ASSUME IInv, NEW o \in Operations, RequestFails(o)
    PROVE  IInv'
<1> DEFINE c == op[o].cred
           slot == [slots[c] EXCEPT !.startup = Nobody]
<1>1. /\ op[o].stage = "load"
      /\ op' = [p \in Operations |->
                IF \/ p = o
                   \/ /\ op[o].kind = "init"
                      /\ op[p].stage = "startup" /\ op[p].cred = c /\ ~op[p].aborted
                THEN Failed(p) ELSE op[p]]
      /\ slots' = IF slots[c].startup = o THEN [slots EXCEPT ![c] = slot] ELSE slots
      /\ UNCHANGED <<config, tokenVars, advertised, listing, initialized, usageRefresh>>
  BY DEF RequestFails
<1>2. c \in CacheCreds
  BY <1>1, RestIsSound DEF OpSound
<1>3. slots[c] \in SlotState /\ slots[c].key \in {Nobody, config[c]}
  BY <1>2, RestIsSound
<1>4. slot \in SlotState /\ slot.key = slots[c].key
  BY <1>3 DEF SlotState
<1> HIDE DEF slot
<1>5. /\ slots' \in [CacheCreds -> SlotState]
      /\ \A d \in CacheCreds : slots'[d].key \in {Nobody, config[d]}
  BY <1>1, <1>2, <1>3, <1>4, OneSlot, RestIsSound
<1>6. ASSUME NEW p \in Operations, op[p].stage # "idle"
      PROVE  Failed(p) \in OpState /\ OpSound(p, Failed(p))
  BY <1>6, FailedIsSound, RestIsSound
<1>7. op' \in [Operations -> OpState] /\ \A p \in Operations : OpSound(p, op'[p])
  BY <1>1, <1>6, RestIsSound
<1>8. UNCHANGED <<config, tokenVars, usageRefresh>>
  BY <1>1
<1>9. QED
  BY <1>1, <1>5, <1>7, <1>8, RestIsSound, DiscoveryKeeps

LEMMA EnterUsageKeeps ==
    ASSUME IInv, NEW o \in Operations, EnterUsage(o)
    PROVE  IInv'
<1> DEFINE next == [op[o] EXCEPT !.stage = "load"]
<1>1. /\ op[o].stage = "entering"
      /\ op' = [op EXCEPT ![o] = next]
      /\ UNCHANGED <<config, tokenVars, discoveryVars, usageRefresh>>
  BY DEF EnterUsage
<1>2. op[o] \in OpState
  BY RestIsSound
<1>3. /\ next \in OpState /\ next.stage = "load" /\ next.kind = op[o].kind
      /\ next.cred = op[o].cred /\ next.key = op[o].key /\ next.flight = op[o].flight
      /\ next.token = op[o].token /\ next.again = op[o].again
  BY <1>2 DEF OpState
<1> HIDE DEF next
<1>4. OpSound(o, next)
  BY <1>1, <1>3, GoesOnIsSound
<1>5. op' \in [Operations -> OpState] /\ \A p \in Operations : OpSound(p, op'[p])
  BY <1>1, <1>3, <1>4, OneOperation
<1>6. QED
  BY <1>1, <1>5, OperationsKeep
-----------------------------------------------------------------------------
(* The specification                                                       *)

\* Nothing is remembered at first, and nothing is under way.
LEMMA InitInv ==
    ASSUME CacheInit PROVE IInv
<1>1. NoOp \in OpState /\ \A o \in Operations : OpSound(o, NoOp)
  BY NoOpIsSound
<1>2. /\ NoFlight \in FlightState
      /\ NoSlot \in SlotState /\ NoSlot.key = Nobody
      /\ NotAdvertised \in [cred : MaybeCred, key : MaybeKey] /\ NotAdvertised.cred = Nobody
      /\ NoListing \in [op : Operations \cup {Nobody}, cred : MaybeCred]
  BY DEF NoFlight, FlightState, NoSlot, SlotState, NotAdvertised, NoListing, MaybeCred, MaybeKey
<1>3. CacheTypeOK
  BY <1>1, <1>2 DEF CacheInit, CacheTypeOK, MaybeKey
<1>4. \A f \in Flights : FlightSound(f)
  BY DEF CacheInit, FlightSound
<1>5. \A c \in CacheCreds : RefreshSound(c)
  BY DEF CacheInit, RefreshSound
<1>6. \A o \in Operations : OpSound(o, op[o])
  BY <1>1 DEF CacheInit
<1>7. TokensCurrent /\ DiscoveryIsCurrent
  BY <1>2 DEF CacheInit, TokensCurrent, DiscoveryIsCurrent
<1>8. QED
  BY <1>3, <1>4, <1>5, <1>6, <1>7 DEF IInv

LEMMA NextInv ==
    ASSUME IInv, [CacheNext]_cacheVars PROVE IInv'
<1>1. ASSUME NEW f \in Flights, TokenArrives(f) \/ TokenFails(f) PROVE IInv'
  BY <1>1, TokenArrivesKeeps, TokenFailsKeeps
<1>2. ASSUME NEW o \in Operations, NEW c \in CacheCreds,
             Failover(o, c) \/ \E kind \in Kinds : Begin(o, kind, c)
      PROVE  IInv'
  BY <1>2, FailoverKeeps, BeginKeeps
<1>3. ASSUME NEW o \in Operations,
             OperationEnds(o) \/ EnterInit(o) \/ EnterSlot(o) \/ EnterUsage(o) \/ UsageAnswers(o)
      PROVE  IInv'
  BY <1>3, OperationEndsKeeps, EnterInitKeeps, EnterSlotKeeps, EnterUsageKeeps,
     UsageAnswersKeeps
<1>4. ASSUME NEW o \in Operations,
             Finish(o) \/ ProbeAnswers(o) \/ StartupAnswers(o) \/ StartupEnds(o)
             \/ RequestFails(o)
      PROVE  IInv'
  BY <1>4, FinishKeeps, ProbeAnswersKeeps, StartupAnswersKeeps, StartupEndsKeeps,
     RequestFailsKeeps
<1>5. ASSUME NEW o \in Operations, EnterStale(o) \/ Aborted(o) \/ CallerGivesUp(o)
      PROVE  IInv'
  <2>1. /\ op[o].stage # "idle"
        /\ op' = [op EXCEPT ![o] = FailedForGood(o)]
        /\ UNCHANGED <<config, tokenVars, discoveryVars, usageRefresh>>
    BY <1>5 DEF EnterStale, Aborted, CallerGivesUp
  <2>2. QED
    BY <2>1, FailingKeeps
<1>6. ASSUME NEW c \in CacheCreds, NEW x \in SlotCaches,
             CacheLoads(c, x) \/ CacheFails(c, x) \/ CacheExpires(c, x)
      PROVE  IInv'
  BY <1>6, CacheLoadsKeeps, CacheFailsKeeps, CacheExpiresKeeps
<1>7. ASSUME NEW c \in CacheCreds, NEW v \in ApiKeys \cup {Off}, UpdateCredential(c, v)
      PROVE  IInv'
  BY <1>7, UpdateCredentialKeeps
<1>8. CASE UNCHANGED cacheVars
  <2>1. UNCHANGED <<config, tokenVars, discoveryVars, usageRefresh>> /\ op' = op
    BY <1>8 DEF cacheVars
  <2>2. op' \in [Operations -> OpState] /\ \A o \in Operations : OpSound(o, op'[o])
    BY <2>1, RestIsSound
  <2>3. QED
    BY <2>1, <2>2, OperationsKeep
<1>9. QED
  BY <1>1, <1>2, <1>3, <1>4, <1>5, <1>6, <1>7, <1>8 DEF CacheNext

\* Two exchanges that are valid, or two refreshes of a usage, of one credential are one.
LEMMA InvSound ==
    ASSUME IInv PROVE CachesSound
<1>1. CacheTypeOK /\ DiscoveryIsCurrent
  BY DEF IInv
<1>2. TokensAreOwn
  BY DEF IInv, TokensCurrent, OpSound, TokensAreOwn
<1>3. OneRefresh
  <2>1. \A f \in Flights : flight[f].valid => refreshing[flight[f].cred] = f
    BY DEF IInv, FlightSound, NoFlight
  <2>2. QED
    BY <2>1 DEF OneRefresh
<1>4. UsageSingleFlight
  BY DEF IInv, OpSound, UsageSingleFlight
<1>5. QED
  BY <1>1, <1>2, <1>3, <1>4 DEF CachesSound

\* What prepare hands out was fetched with the key it is handed out for.
LEMMA HandingOut ==
    ASSUME IInv, [CacheNext]_cacheVars PROVE [HandsOutCurrent]_cacheVars
<1> SUFFICES ASSUME CacheNext, NEW o \in Operations,
                    op[o].stage = "loaded", op[o].kind = "prepare", op'[o].stage = "idle"
             PROVE  config[op[o].cred] = op[o].key /\ op[o].token = op[o].key
  BY DEF HandsOutCurrent
<1>1. op \in [Operations -> OpState] /\ op[o].token = op[o].key
  BY RestIsSound DEF OpSound
<1>2. op[o].stage \notin {"idle", "token", "entering", "startup", "load", "failed"}
  OBVIOUS
<1>3. SUFFICES ASSUME config[op[o].cred] # op[o].key PROVE op'[o].stage # "idle"
  BY <1>1
<1>4. ASSUME NEW f \in Flights, TokenArrives(f) \/ TokenFails(f) PROVE op'[o] = op[o]
  <2>1. op[o].flight # f
    BY <1>2, RestIsSound, CacheAssumption DEF OpSound
  <2>2. QED
    BY <1>4, <2>1 DEF TokenArrives, TokenFails
<1>5. ASSUME NEW p \in Operations, NEW s \in OpState, op' = [op EXCEPT ![p] = s],
             p # o \/ s.stage # "idle"
      PROVE  op'[o].stage # "idle"
  BY <1>1, <1>2, <1>5
<1>6. ASSUME NEW p \in Operations, NEW c \in CacheCreds,
             Failover(p, c) \/ \E kind \in Kinds : Begin(p, kind, c)
      PROVE  op'[o] = op[o]
  <2>1. p # o
    <3>1. NoOp.stage = "idle"
      BY DEF NoOp
    <3>2. op[p].stage \in {"failed", "idle"}
      BY <1>6, <3>1 DEF Failover, Begin
    <3>3. QED
      BY <1>2, <3>2
  <2>2. QED
    BY <1>1, <1>6, <2>1 DEF Failover, Begin, GetToken
<1>7. ASSUME NEW p \in Operations,
             OperationEnds(p) \/ EnterInit(p) \/ EnterSlot(p) \/ EnterUsage(p)
             \/ ProbeAnswers(p) \/ StartupAnswers(p) \/ UsageAnswers(p) \/ EnterStale(p)
             \/ CallerGivesUp(p)
      PROVE  op'[o] = op[o]
  <2>1. p # o
    <3>1. op[p].stage # "loaded"
      BY <1>7 DEF OperationEnds, EnterInit, EnterSlot, EnterUsage, ProbeAnswers,
         StartupAnswers, UsageAnswers, EnterStale, CallerGivesUp
    <3>2. QED
      BY <3>1
  <2>2. CASE OperationEnds(p) \/ EnterInit(p) \/ EnterSlot(p) \/ EnterUsage(p)
    BY <1>1, <2>1, <2>2 DEF OperationEnds, EnterInit, EnterSlot, EnterUsage
  <2>3. CASE ProbeAnswers(p) \/ StartupAnswers(p) \/ UsageAnswers(p)
    BY <1>1, <2>1, <2>3 DEF ProbeAnswers, StartupAnswers, UsageAnswers
  <2>4. CASE EnterStale(p) \/ CallerGivesUp(p)
    BY <1>1, <2>1, <2>4 DEF EnterStale, CallerGivesUp
  <2>5. QED
    BY <1>7, <2>2, <2>3, <2>4
<1>8. ASSUME NEW p \in Operations, Finish(p) PROVE op'[o] = op[o]
  <2>1. p # o
    BY <1>3, <1>8 DEF Finish, Current
  <2>2. QED
    BY <1>1, <1>8, <2>1 DEF Finish
<1>9. ASSUME NEW p \in Operations, StartupEnds(p) \/ RequestFails(p) PROVE op'[o] = op[o]
  BY <1>2, <1>9 DEF StartupEnds, RequestFails
<1>10. ASSUME NEW p \in Operations, Aborted(p) PROVE op'[o].stage # "idle"
  <2>1. op' = [op EXCEPT ![p] = FailedForGood(p)]
    BY <1>10 DEF Aborted
  <2>2. FailedForGood(p) \in OpState /\ FailedForGood(p).stage = "failed"
    <3>1. op[p] \in OpState /\ OpSound(p, op[p]) /\ op[p].stage # "idle"
      BY <1>10, RestIsSound DEF Aborted
    <3>2. FailedForGood(p).stage = "failed"
      BY <3>1 DEF FailedForGood, Failed, OpState
    <3>3. QED
      BY <3>1, <3>2, FailedIsSound
  <2>3. QED
    BY <1>5, <2>1, <2>2
<1>11. ASSUME NEW c \in CacheCreds, NEW x \in SlotCaches,
              CacheLoads(c, x) \/ CacheFails(c, x) \/ CacheExpires(c, x)
       PROVE  op'[o] = op[o]
  BY <1>2, <1>11 DEF CacheLoads, CacheFails, CacheExpires, AwaitsCache
<1>12. ASSUME NEW c \in CacheCreds, NEW v \in ApiKeys \cup {Off}, UpdateCredential(c, v)
       PROVE  op'[o].stage = op[o].stage
  BY <1>1, <1>12 DEF UpdateCredential, OpState
<1>13. QED
  BY <1>2, <1>4, <1>6, <1>7, <1>8, <1>9, <1>10, <1>11, <1>12 DEF CacheNext

\* The inductive invariant, for any number of credentials, operations and exchanges.
THEOREM CachesInvariant ==
    CacheSpec => []IInv
<1>1. CacheInit => IInv
  BY InitInv
<1>2. IInv /\ [CacheNext]_cacheVars => IInv'
  BY NextInv
<1>3. QED
  BY <1>1, <1>2, PTL DEF CacheSpec

\* Whatever changes while a token, a catalogue or a usage is fetched, what the bridge
\* remembers is of the present key, and nothing is fetched twice at a time (auth.ts,
\* discovery.ts, account-usage.ts).
THEOREM CachesCorrect ==
    CacheSpec => []CachesSound
<1>1. IInv => CachesSound
  BY InvSound
<1>2. QED
  BY <1>1, CachesInvariant, PTL

\* prepare never hands out an endpoint or a catalogue of a credential that has changed
\* between its awaits (discovery.ts, assertCurrent).
THEOREM PreparingIsCurrent ==
    CacheSpec => PreparedIsCurrent
<1>1. IInv /\ [CacheNext]_cacheVars => [HandsOutCurrent]_cacheVars
  BY HandingOut
<1>2. QED
  BY <1>1, CachesInvariant, PTL DEF CacheSpec, PreparedIsCurrent
-----------------------------------------------------------------------------
(***************************************************************************)
(* Execs: an exec is answered once and by the right party, held only for a *)
(* tool that may be called, and no call the bridge let upstream announce   *)
(* ends the Run.                                                           *)
(*                                                                         *)
(* The invariant says of each exec what its phase allows (ExecOK): nothing *)
(* is replied before it is answered, it is held under the id and for a     *)
(* tool its message gives it, and a reply is the bridge's own or the       *)
(* client's to that call. While the Run is live no exec has ended it and   *)
(* what was announced lets it go on (LiveOK); of a Run that is over the    *)
(* exec that ended it (EndedBy).                                           *)
(***************************************************************************)

IdKinds == {"toolCallId", "execId", "id"}

Calls == {<<>>} \cup ((IdKinds \cup {"random"}) \X Execs)

ReplyCases == {"shell", "read", "grep", "ls", "write", "delete", "fetch", "mcpArgs",
               "unsupported", NoCase} \cup Builtins \cup Immediate

Replies == [case : ReplyCases, of : {Own} \cup Calls]

ExecPhases == {"unsent", "ignored", "answered", "held", "told", "reading", "lost", "ends"}

ExecRecord ==
    [said : Messages \cup {NoMessage}, phase : ExecPhases, announced : BOOLEAN,
     replies : Seq(Replies), tool : Tools \cup {""}, call : Calls]

ExecStates ==
    /\ ask \in [tools : SUBSET Tools, choice : {"auto", "none", "required"} \cup Tools,
                native : BOOLEAN]
    /\ execRun \in [stage : {"open", "parked", "failed"}, rest : BOOLEAN,
                    why : {"none", "announcement", "kv"} \cup Execs]
    /\ exec \in [Execs -> ExecRecord]
    /\ blob \in [Blobs -> Blobs \cup {NoBlob}]

\* What is true of an exec whatever became of its Run.
ExecOK(e, x) ==
    /\ x.phase # "answered" => x.replies = <<>>
    /\ x.tool # "" => x.tool \in ToolsFor(x.said)
    /\ x.phase \in {"held", "told"} => x.tool # "" /\ x.call = CallId(e, x.said)
    /\ x.phase = "ignored" => x.said.case = NoCase
    /\ x.phase = "lost" => x.call = <<"random", e>>
    /\ \A i \in DOMAIN x.replies :
         \/ x.replies[i].of = Own
         \/ /\ x.replies[i].of = x.call
            /\ x.said.case = "mcpArgs" \/ x.replies[i].case = ResultCases[x.said.case]

\* What is true of it while the Run goes on.
LiveOK(x) ==
    /\ x.phase = "answered" => Len(x.replies) = 1
    /\ x.phase # "ends"
    /\ x.announced => Announcement(x.said) = "goes on"

\* The exec that ended the Run.
EndedBy(x) ==
    /\ x.phase = "ends"
    /\ x.announced => x.said.case \notin Announced \cup {"mcpArgs"}

ExecInv ==
    /\ ExecStates
    /\ \A e \in Execs : ExecOK(e, exec[e])
    /\ Live => \A e \in Execs : LiveOK(exec[e])
    /\ \A e \in Execs : execRun.why = e => EndedBy(exec[e])

-----------------------------------------------------------------------------
(* Names and ids                                                           *)

LEMMA FirstOfIs ==
    ASSUME NEW S, NEW names, DOMAIN names \subseteq 1..4, Range(names) \cap S # {}
    PROVE  FirstOf(names, S) \in Range(names) \cap S
<1> DEFINE at == {i \in DOMAIN names : names[i] \in S}
<1>1. at # {} /\ at \subseteq 1..4
  BY DEF Range
<1>2. \E i \in at : \A j \in at : i =< j
  <2>1. CASE 1 \in at
    BY <2>1, <1>1
  <2>2. CASE 1 \notin at /\ 2 \in at
    BY <2>2, <1>1
  <2>3. CASE 1 \notin at /\ 2 \notin at /\ 3 \in at
    BY <2>3, <1>1
  <2>4. CASE 1 \notin at /\ 2 \notin at /\ 3 \notin at
    BY <2>4, <1>1
  <2>5. QED
    BY <2>1, <2>2, <2>3, <2>4
<1>3. Min(at) \in at
  BY <1>2 DEF Min
<1>4. QED
  BY <1>3 DEF FirstOf, Range

\* The properties of a tool an argument may have, by argument.
ArgumentNames == {"path", "fileText", "workingDirectory", "command", "pattern", "outputMode",
                  "url"}

LEMMA ArgumentsAre == \A c : Arguments(c) \subseteq ArgumentNames
BY DEF Arguments, ArgumentNames

LEMMA NamesAre ==
    ASSUME NEW a \in ArgumentNames
    PROVE  DOMAIN Names(a) \subseteq 1..4 /\ a \in Range(Names(a))
<1>1. CASE a = "path"
  BY <1>1 DEF Names, Range
<1>2. CASE a = "fileText"
  BY <1>2 DEF Names, Range
<1>3. CASE a = "workingDirectory"
  BY <1>3 DEF Names, Range
<1>4. CASE a \notin {"path", "fileText", "workingDirectory"}
  BY <1>4 DEF Names, Range
<1>5. QED
  BY <1>1, <1>2, <1>3, <1>4

\* No name stands for two arguments.
LEMMA NamesApart ==
    ASSUME NEW a \in ArgumentNames, NEW b \in ArgumentNames, a # b
    PROVE  Range(Names(a)) \cap Range(Names(b)) = {}
<1>1. \A x \in ArgumentNames :
        Range(Names(x)) = CASE x = "path" -> {"path", "file_path"}
                            [] x = "fileText" -> {"fileText", "file_text", "content", "text"}
                            [] x = "workingDirectory" ->
                                 {"workingDirectory", "working_directory", "cwd"}
                            [] OTHER -> {x}
  <2> SUFFICES ASSUME NEW x \in ArgumentNames
               PROVE  Range(Names(x)) =
                        CASE x = "path" -> {"path", "file_path"}
                          [] x = "fileText" -> {"fileText", "file_text", "content", "text"}
                          [] x = "workingDirectory" ->
                               {"workingDirectory", "working_directory", "cwd"}
                          [] OTHER -> {x}
    OBVIOUS
  <2>1. CASE x = "path"
    BY <2>1 DEF Names, Range
  <2>2. CASE x = "fileText"
    BY <2>2 DEF Names, Range
  <2>3. CASE x = "workingDirectory"
    BY <2>3 DEF Names, Range
  <2>4. CASE x \notin {"path", "fileText", "workingDirectory"}
    BY <2>4 DEF Names, Range
  <2>5. QED
    BY <2>1, <2>2, <2>3, <2>4
<1>2. QED
  BY <1>1 DEF ArgumentNames

\* Whatever a client's tool is called with names one argument of upstream's, and none that
\* the tool has a property for is lost.
LEMMA ArgumentsAreMapped ==
    ASSUME NEW c, NEW t \in Tools
    PROVE  /\ \A name \in DOMAIN MappedArguments(c, t) :
                Cardinality(MappedArguments(c, t)[name]) = 1
           /\ \A a \in Arguments(c) :
                a \in Properties[t] =>
                  a \in UNION {MappedArguments(c, t)[n] : n \in DOMAIN MappedArguments(c, t)}
<1> DEFINE found == {a \in Arguments(c) : Range(Names(a)) \cap Properties[t] # {}}
           NameOf(a) == FirstOf(Names(a), Properties[t])
           mapped == MappedArguments(c, t)
<1>1. \A a \in found : NameOf(a) \in Range(Names(a)) \cap Properties[t]
  BY ArgumentsAre, NamesAre, FirstOfIs
<1>2. \A a \in found, b \in found : NameOf(a) = NameOf(b) => a = b
  BY <1>1, ArgumentsAre, NamesApart
<1>3. \A a \in Arguments(c) : a \in Properties[t] => a \in found
  BY ArgumentsAre, NamesAre
<1>4. CASE found = {}
  <2>1. mapped = [name \in Arguments(c) |-> {name}]
    BY <1>4 DEF MappedArguments
  <2>2. \A name \in Arguments(c) : Cardinality({name}) = 1
    BY FS_Singleton
  <2>3. QED
    BY <2>1, <2>2, <1>3, <1>4
<1>5. CASE found # {}
  <2>1. mapped = [name \in {NameOf(a) : a \in found} |-> {a \in found : NameOf(a) = name}]
    BY <1>5 DEF MappedArguments
  <2>2. \A a \in found : mapped[NameOf(a)] = {a}
    BY <2>1, <1>2
  <2>3. \A name \in DOMAIN mapped : Cardinality(mapped[name]) = 1
    <3>1. \A a \in found : Cardinality({a}) = 1
      BY FS_Singleton
    <3>2. \A name \in DOMAIN mapped : \E a \in found : mapped[name] = {a}
      BY <2>1, <2>2
    <3>3. QED
      BY <3>1, <3>2
  <2>4. \A a \in found : a \in UNION {mapped[n] : n \in DOMAIN mapped}
    BY <2>1, <2>2
  <2>5. \A a \in Arguments(c) :
          a \in Properties[t] => a \in UNION {mapped[n] : n \in DOMAIN mapped}
    BY <2>4, <1>3
  <2>6. QED
    BY <2>3, <2>5
<1>6. QED
  BY <1>4, <1>5

\* A call's id is one its message came with, or a random one where it came with none.
LEMMA CallIdIs ==
    ASSUME NEW e \in Execs, NEW said, said.ids \subseteq IdKinds
    PROVE  /\ CallId(e, said) \in Calls \ {<<>>} /\ CallId(e, said)[2] = e
           /\ \/ CallId(e, said) = <<"random", e>>
              \/ \E kind \in said.ids : CallId(e, said) = <<kind, e>>
<1> DEFINE from == IF said.case = "mcpArgs" THEN <<"toolCallId">>
                   ELSE <<"toolCallId", "execId", "id">>
<1>1. DOMAIN from \subseteq 1..4
  <2>1. CASE said.case = "mcpArgs"
    BY <2>1
  <2>2. CASE said.case # "mcpArgs"
    BY <2>2
  <2>3. QED
    BY <2>1, <2>2
<1>2. CASE Range(from) \cap said.ids = {}
  <2>1. CallId(e, said) = <<"random", e>>
    BY <1>2 DEF CallId
  <2>2. QED
    BY <2>1 DEF Calls
<1>3. CASE Range(from) \cap said.ids # {}
  <2>1. CallId(e, said) = <<FirstOf(from, said.ids), e>>
    BY <1>3 DEF CallId
  <2>2. FirstOf(from, said.ids) \in said.ids
    BY <1>1, <1>3, FirstOfIs
  <2>3. QED
    BY <2>1, <2>2 DEF Calls
<1>4. QED
  BY <1>2, <1>3

LEMMA Tuples ==
    /\ DOMAIN <<>> = {} /\ Len(<<>>) = 0
    /\ \A r : DOMAIN <<r>> = {1} /\ <<r>>[1] = r /\ Len(<<r>>) = 1
OBVIOUS

LEMMA OneToSeq ==
    ASSUME NEW r
    PROVE  SetToSeq({r}) = <<r>>
<1>1. Cardinality({r}) = 1
  BY FS_Singleton
<1>2. <<r>> \in [1..1 -> {r}] /\ IsInjective(<<r>>)
  BY DEF IsInjective
<1>3. \A f \in [1..1 -> {r}] : f = <<r>>
  <2> SUFFICES ASSUME NEW f \in [1..1 -> {r}] PROVE f = <<r>>
    OBVIOUS
  <2>1. f = [i \in 1..1 |-> r]
    OBVIOUS
  <2>2. <<r>> = [i \in 1..1 |-> r]
    OBVIOUS
  <2>3. QED
    BY <2>1, <2>2
<1>4. QED
  BY <1>1, <1>2, <1>3 DEF SetToSeq
-----------------------------------------------------------------------------
(* The messages                                                            *)

LEMMA SaidIs ==
    ASSUME ExecConstants, NEW said \in Messages \cup {NoMessage}
    PROVE  said \in MessageRecord
<1>1. NoMessage \in MessageRecord
  BY DEF NoMessage, MessageRecord, NoCase
<1>2. QED
  BY <1>1 DEF ExecConstants

LEMMA CasesApart ==
    /\ "mcpArgs" \notin Builtins \cup Immediate \cup {NoCase} \cup Announced
    /\ "mcpStateExecArgs" \notin Builtins \cup Announced
    /\ Builtins \cap Immediate = {} /\ NoCase \notin Builtins \cup Immediate \cup Announced
    /\ Announced \subseteq Builtins /\ "readArgs" \in Builtins
BY DEF Builtins, ShellCases, Immediate, NoCase, Announced

\* A call is held for a tool that may be called, and an exec is answered by it alone.
LEMMA ToolsForAre ==
    ASSUME ExecStates, NEW said
    PROVE  /\ ToolsFor(said) \subseteq Allowed
           /\ ToolsFor(said) # {} => said.case \in Builtins \cup {"mcpArgs"}
<1>1. CASE said.case = "mcpArgs"
  BY <1>1, CasesApart DEF ToolsFor
<1>2. CASE said.case # "mcpArgs" /\ said.case \in Builtins
  BY <1>2 DEF ToolsFor, Matching
<1>3. CASE said.case # "mcpArgs" /\ said.case \notin Builtins
  BY <1>3 DEF ToolsFor
<1>4. QED
  BY <1>1, <1>2, <1>3

LEMMA AllowedIs ==
    ASSUME ExecConstants, ExecStates, NEW t \in Allowed
    PROVE  /\ t \in ask.tools /\ t \in Tools /\ ask.choice # "none" /\ t \in Advertised
           /\ ask.choice \in Tools => t = ask.choice
<1>1. CASE ask.choice = "none"
  BY <1>1 DEF Allowed, ExecConstants
<1>2. CASE ask.choice \in Tools /\ ask.choice # "none"
  BY <1>2 DEF Allowed, ExecStates, Advertised
<1>3. CASE ask.choice \notin Tools /\ ask.choice # "none"
  BY <1>3 DEF Allowed, ExecStates, Advertised
<1>4. QED
  BY <1>1, <1>2, <1>3

LEMMA VerdictIs ==
    ASSUME ExecStates, NEW said
    PROVE  /\ Verdict(said) \in {"ignored", "answered", "reading", "held", "ends"}
           /\ Verdict(said) = "ignored" => said.case = NoCase
           /\ Verdict(said) = "held" => ToolsFor(said) # {}
           /\ Verdict(said) = "ends" =>
                /\ ~Served(said) /\ ToolsFor(said) = {} /\ said.case # "mcpArgs"
                /\ said.case \notin Immediate
<1>1. CASE said.case = NoCase
  BY <1>1, CasesApart DEF Verdict
<1>2. CASE said.case \in Immediate
  BY <1>2, CasesApart DEF Verdict
<1>3. CASE said.case # NoCase /\ said.case \notin Immediate /\ Served(said)
  BY <1>3, CasesApart DEF Verdict, Served
<1>4. CASE said.case # NoCase /\ said.case \notin Immediate /\ ~Served(said)
  BY <1>4, CasesApart DEF Verdict
<1>5. QED
  BY <1>1, <1>2, <1>3, <1>4

\* What an announcement lets go on ends no Run later, for the calls it names.
LEMMA AnnouncedGoesOn ==
    ASSUME ExecStates, NEW said, Announcement(said) = "goes on", Verdict(said) = "ends"
    PROVE  said.case \notin Announced \cup {"mcpArgs"}
<1>1. ~Served(said) /\ ToolsFor(said) = {} /\ said.case # "mcpArgs"
  BY VerdictIs
<1>2. SUFFICES ASSUME said.case \in Announced PROVE FALSE
  BY <1>1
<1>3. Matching(said.case) = {}
  BY <1>1, <1>2, CasesApart DEF ToolsFor
<1>4. Announcement(said) = "ends"
  BY <1>1, <1>2, <1>3, CasesApart DEF Announcement
<1>5. QED
  BY <1>4

\* What is held for could have been announced.
LEMMA HeldGoesOn ==
    ASSUME ExecStates, NEW said, NEW t \in ToolsFor(said), t # "",
           said.case \in Announced \cup {"mcpArgs"}
    PROVE  Announcement(said) = "goes on"
<1>1. Allowed # {}
  BY ToolsForAre
<1>2. CASE said.case = "mcpArgs"
  <2>1. said.tool = t /\ t \in Allowed /\ Attempted(said) = t
    BY <1>2, CasesApart DEF ToolsFor, Attempted
  <2>2. ~Served(said)
    BY <1>2 DEF Served
  <2>3. QED
    BY <1>1, <1>2, <2>1, <2>2, CasesApart DEF Announcement
<1>3. CASE said.case # "mcpArgs"
  <2>1. said.case \in Announced /\ Attempted(said) = "" /\ Matching(said.case) # {}
    BY <1>3, CasesApart DEF ToolsFor, Attempted
  <2>2. QED
    BY <1>1, <1>3, <2>1, CasesApart DEF Announcement
<1>4. QED
  BY <1>2, <1>3
-----------------------------------------------------------------------------
(* The Run                                                                 *)

\* What is true of the new execs for the request as it was, is true of them as it is.
LEMMA Carried ==
    ASSUME ask' = ask, ExecStates',
           \A e \in Execs : ExecOK(e, exec'[e]),
           Live' => \A e \in Execs : LiveOK(exec'[e]),
           \A e \in Execs : execRun'.why = e => EndedBy(exec'[e])
    PROVE  ExecInv'
<1>1. \A s : ToolsFor(s)' = ToolsFor(s)
  BY DEF ToolsFor, Matching, Allowed
<1>2. \A s : Announcement(s)' = Announcement(s)
  BY DEF Announcement, Matching, Allowed, Attempted, Served
<1>3. (\A e \in Execs : ExecOK(e, exec[e]))'
  BY <1>1 DEF ExecOK, ToolsFor, Matching, Allowed
<1>4. (Live => \A e \in Execs : LiveOK(exec[e]))'
  BY <1>2 DEF LiveOK, Announcement, Matching, Allowed, Attempted, Served
<1>5. (\A e \in Execs : execRun.why = e => EndedBy(exec[e]))'
  BY DEF EndedBy
<1>6. QED
  BY <1>3, <1>4, <1>5 DEF ExecInv

LEMMA AnnouncementIs == \A said : Announcement(said) \in {"ends", "goes on"}
BY DEF Announcement

LEMMA EndsIs ==
    ASSUME ExecStates, NEW why \in {"announcement", "kv"} \cup Execs, Ends(why)
    PROVE  /\ execRun' \in [stage : {"open", "parked", "failed"}, rest : BOOLEAN,
                            why : {"none", "announcement", "kv"} \cup Execs]
           /\ ~Live'
           /\ execRun'.why # execRun.why => execRun'.why = why /\ Live
BY DEF ExecStates, Ends, Live

LEMMA WrittenIs ==
    ASSUME ExecStates, NEW x \in ExecRecord, NEW r \in Replies, x.replies = <<>>
    PROVE  /\ Written(x, r) \in ExecRecord
           /\ Written(x, r).said = x.said /\ Written(x, r).phase = x.phase
           /\ Written(x, r).announced = x.announced /\ Written(x, r).tool = x.tool
           /\ Written(x, r).call = x.call
           /\ Written(x, r).replies = IF Live THEN <<r>> ELSE <<>>
<1>1. Append(x.replies, r) = <<r>> /\ <<r>> \in Seq(Replies)
  OBVIOUS
<1>2. CASE Live
  <2>1. Written(x, r) = [x EXCEPT !.replies = <<r>>]
    BY <1>1, <1>2 DEF Written
  <2>2. QED
    BY <1>1, <1>2, <2>1 DEF ExecRecord
<1>3. CASE ~Live
  BY <1>3 DEF Written
<1>4. QED
  BY <1>2, <1>3

LEMMA RefusalsAre == \A c \in Builtins : RefusalCases[c] \in ReplyCases
<1>1. \A c \in Builtins :
        RefusalCases[c] = CASE c \in {"shellArgs", "shellStreamArgs"} -> "shell"
                            [] c = "readArgs" -> "read"  [] c = "grepArgs" -> "grep"
                            [] c = "lsArgs" -> "ls" [] c = "writeArgs" -> "write"
                            [] c = "deleteArgs" -> "delete" [] c = "fetchArgs" -> "fetch"
                            [] OTHER -> c
  BY DEF RefusalCases
<1>2. QED
  BY <1>1 DEF ReplyCases

LEMMA AnswerIs ==
    ASSUME ExecConstants, NEW said \in Messages \cup {NoMessage}
    PROVE  ReplyTo(ExecAnswer(said), Own) \in Replies /\ ReplyTo("read", Own) \in Replies
<1>1. said.case \in ReplyCases
  BY SaidIs DEF MessageRecord, ReplyCases
<1>2. \A c \in Builtins : RefusalCases[c] \in ReplyCases
  BY RefusalsAre
<1>3. "read" \in ReplyCases
  BY DEF ReplyCases
<1>4. ExecAnswer(said) \in ReplyCases
  BY <1>1, <1>2, <1>3 DEF ExecAnswer
<1>5. \A c \in ReplyCases : ReplyTo(c, Own) \in Replies
  BY DEF ReplyTo, Replies
<1>6. QED
  BY <1>3, <1>4, <1>5

LEMMA NoExecIs ==
    ASSUME NEW e \in Execs
    PROVE  NoExec \in ExecRecord /\ ExecOK(e, NoExec) /\ LiveOK(NoExec)
<1>1. NoExec \in ExecRecord
  <2>1. <<>> \in Seq(Replies) /\ <<>> \in Calls
    BY DEF Calls
  <2>2. QED
    BY <2>1 DEF NoExec, ExecRecord, ExecPhases
<1>2. /\ NoExec.phase = "unsent" /\ NoExec.tool = "" /\ NoExec.replies = <<>>
      /\ ~NoExec.announced
  BY DEF NoExec
<1>3. DOMAIN NoExec.replies = {}
  BY <1>2, Tuples, Zenon
<1>4. ExecOK(e, NoExec)
  BY <1>2, <1>3 DEF ExecOK
<1>5. LiveOK(NoExec)
  BY <1>2 DEF LiveOK
<1>6. QED
  BY <1>1, <1>4, <1>5

LEMMA ExecInitInv ==
    ASSUME ExecConstants, ExecInit
    PROVE  ExecInv
<1>1. \A e \in Execs : NoExec \in ExecRecord
  BY NoExecIs
<1>2. ExecStates
  BY <1>1 DEF ExecInit, ExecStates
<1>3. ASSUME NEW e \in Execs
      PROVE  ExecOK(e, exec[e]) /\ LiveOK(exec[e]) /\ execRun.why # e
  <2>1. exec[e] = NoExec /\ execRun.why = "none"
    BY <1>3 DEF ExecInit
  <2>2. execRun.why # e
    BY <2>1 DEF ExecConstants
  <2>3. QED
    BY <2>1, <2>2, NoExecIs
<1>4. QED
  BY <1>2, <1>3 DEF ExecInv

LEMMA AnnounceKeeps ==
    ASSUME ExecConstants, ExecInv, NEW e \in Execs, NEW said \in Messages, Announce(e, said)
    PROVE  ExecInv'
<1> DEFINE y == [NoExec EXCEPT !.said = said, !.announced = TRUE]
<1>1. exec[e].phase = "unsent" /\ exec' = [exec EXCEPT ![e] = y] /\ ask' = ask /\ blob' = blob
  BY DEF Announce
<1>2. \/ Announcement(said) = "ends" /\ Ends("announcement")
      \/ Announcement(said) = "goes on" /\ execRun' = execRun
  BY AnnouncementIs DEF Announce
<1>3. /\ y \in ExecRecord /\ y.said = said /\ y.phase = "unsent" /\ y.tool = ""
      /\ y.replies = <<>>
  BY NoExecIs DEF NoExec, ExecRecord
<1>4. ExecStates
  BY DEF ExecInv
<1>5. ExecStates'
  BY <1>1, <1>2, <1>3, <1>4, EndsIs DEF ExecStates
<1>6. \A f \in Execs : exec'[f] = IF f = e THEN y ELSE exec[f]
  BY <1>1, <1>4 DEF ExecStates
<1>7. \A f \in Execs : ExecOK(f, exec'[f])
  <2>1. ExecOK(e, y)
    <3>1. DOMAIN y.replies = {}
      BY <1>3, Tuples, Zenon
    <3>2. QED
      BY <1>3, <3>1 DEF ExecOK
  <2>2. QED
    BY <1>6, <2>1 DEF ExecInv
<1>8. Live' => \A f \in Execs : LiveOK(exec'[f])
  <2>1. SUFFICES ASSUME Live', NEW f \in Execs PROVE LiveOK(exec'[f])
    OBVIOUS
  <2>2. Announcement(said) = "goes on" /\ Live
    BY <1>2, <1>4, <2>1, EndsIs DEF Live
  <2>3. LiveOK(y)
    BY <1>3, <2>2 DEF LiveOK
  <2>4. QED
    BY <1>6, <2>2, <2>3 DEF ExecInv
<1>9. \A f \in Execs : execRun'.why = f => EndedBy(exec'[f])
  <2>1. SUFFICES ASSUME NEW f \in Execs, execRun'.why = f PROVE EndedBy(exec'[f])
    OBVIOUS
  <2>2. execRun.why = f
    BY <1>2, <1>4, <2>1, EndsIs DEF ExecConstants
  <2>3. EndedBy(exec[f]) /\ f # e
    BY <1>1, <2>2 DEF ExecInv, EndedBy
  <2>4. QED
    BY <1>6, <2>3
<1>10. QED
  BY <1>1, <1>5, <1>7, <1>8, <1>9, Carried

LEMMA HandleExecKeeps ==
    ASSUME ExecConstants, ExecInv, NEW e \in Execs, NEW said \in Messages,
           HandleExec(e, said)
    PROVE  ExecInv'
<1> DEFINE verdict == Verdict(said)
           x(tool) == [exec[e] EXCEPT !.said = said, !.phase = verdict, !.tool = tool,
                                      !.call = CallId(e, said)]
           reply == ReplyTo(ExecAnswer(said), Own)
           y == exec'[e]
<1>1. /\ exec[e].phase = "unsent" /\ ask' = ask /\ blob' = blob
      /\ exec[e].announced => said = exec[e].said
  BY DEF HandleExec
<1>2. PICK tool \in ToolsFor(said) \cup {""} :
        /\ tool = "" <=> verdict # "held"
        /\ exec' = [exec EXCEPT ![e] = IF verdict = "answered"
                                       THEN Written(x(tool), reply) ELSE x(tool)]
  BY DEF HandleExec
<1>3. \/ verdict = "ends" /\ Ends(e)
      \/ verdict # "ends" /\ execRun' = execRun
  BY DEF HandleExec
<1>4. ExecStates /\ exec[e] \in ExecRecord /\ exec[e].replies = <<>>
  BY <1>1 DEF ExecInv, ExecStates, ExecOK
<1>5. verdict \in {"ignored", "answered", "reading", "held", "ends"}
  BY <1>4, VerdictIs
<1>6. x(tool) \in ExecRecord /\ reply \in Replies
  <2>1. tool \in Tools \cup {""}
    BY <1>2, <1>4, ToolsForAre, AllowedIs
  <2>2. CallId(e, said) \in Calls
    <3>1. said.ids \subseteq IdKinds
      <4>1. said \in MessageRecord
        BY SaidIs
      <4>2. QED
        BY <4>1 DEF MessageRecord, IdKinds
    <3>2. QED
      BY <3>1, CallIdIs
  <2>3. verdict \in ExecPhases
    BY <1>5 DEF ExecPhases
  <2>4. QED
    BY <1>4, <2>1, <2>2, <2>3, AnswerIs DEF ExecRecord
<1>7. /\ y \in ExecRecord /\ y.said = said /\ y.phase = verdict /\ y.tool = tool
      /\ y.call = CallId(e, said) /\ y.announced = exec[e].announced
      /\ y.replies = IF verdict = "answered" /\ Live THEN <<reply>> ELSE <<>>
  <2>1. y = IF verdict = "answered" THEN Written(x(tool), reply) ELSE x(tool)
    BY <1>2, <1>4 DEF ExecStates
  <2>2. /\ x(tool).said = said /\ x(tool).phase = verdict /\ x(tool).tool = tool
        /\ x(tool).call = CallId(e, said) /\ x(tool).announced = exec[e].announced
        /\ x(tool).replies = <<>>
    BY <1>4 DEF ExecRecord
  <2>3. CASE verdict = "answered"
    <3>1. y = Written(x(tool), reply)
      BY <2>1, <2>3
    <3> HIDE DEF verdict, x, reply, y
    <3>2. /\ Written(x(tool), reply) \in ExecRecord
          /\ Written(x(tool), reply).said = x(tool).said
          /\ Written(x(tool), reply).phase = x(tool).phase
          /\ Written(x(tool), reply).announced = x(tool).announced
          /\ Written(x(tool), reply).tool = x(tool).tool
          /\ Written(x(tool), reply).call = x(tool).call
          /\ Written(x(tool), reply).replies = IF Live THEN <<reply>> ELSE <<>>
      BY <1>4, <1>6, <2>2, WrittenIs
    <3>3. QED
      BY <3>1, <3>2, <2>2, <2>3
  <2>4. CASE verdict # "answered"
    BY <2>1, <2>2, <2>4, <1>6
  <2>5. QED
    BY <2>3, <2>4
<1>8. \A f \in Execs : exec'[f] = IF f = e THEN y ELSE exec[f]
  BY <1>2, <1>4 DEF ExecStates
<1> HIDE DEF verdict, x, reply, y
<1>9. ExecStates'
  <2>1. exec' \in [Execs -> ExecRecord]
    BY <1>2, <1>4, <1>7, <1>8 DEF ExecStates
  <2>2. execRun' \in [stage : {"open", "parked", "failed"}, rest : BOOLEAN,
                      why : {"none", "announcement", "kv"} \cup Execs]
    BY <1>3, <1>4, EndsIs DEF ExecStates
  <2>3. QED
    BY <1>1, <1>4, <2>1, <2>2 DEF ExecStates
<1>10. \A f \in Execs : ExecOK(f, exec'[f])
  <2>1. ExecOK(e, y)
    <3>1. y.phase # "answered" => y.replies = <<>>
      BY <1>7
    <3>2. y.tool # "" => y.tool \in ToolsFor(y.said)
      BY <1>2, <1>7
    <3>3. y.phase \in {"held", "told"} => y.tool # "" /\ y.call = CallId(e, y.said)
      BY <1>2, <1>5, <1>7
    <3>4. y.phase = "ignored" => y.said.case = NoCase
      BY <1>4, <1>7, VerdictIs DEF verdict
    <3>5. y.phase # "lost"
      BY <1>5, <1>7
    <3>6. \A i \in DOMAIN y.replies : y.replies[i].of = Own
      <4>1. reply.of = Own
        BY DEF reply, ReplyTo
      <4>2. CASE y.replies = <<reply>>
        <5>1. DOMAIN y.replies = {1} /\ y.replies[1] = reply
          BY <4>2, Tuples, Zenon
        <5>2. QED
          BY <4>1, <5>1
      <4>3. CASE y.replies = <<>>
        <5>1. DOMAIN y.replies = {}
          BY <4>3, Tuples, Zenon
        <5>2. QED
          BY <5>1
      <4>4. QED
        BY <1>7, <4>2, <4>3
    <3>7. QED
      BY <3>1, <3>2, <3>3, <3>4, <3>5, <3>6 DEF ExecOK
  <2>2. QED
    BY <1>8, <2>1 DEF ExecInv
<1>11. Live' => \A f \in Execs : LiveOK(exec'[f])
  <2>1. SUFFICES ASSUME Live', NEW f \in Execs PROVE LiveOK(exec'[f])
    OBVIOUS
  <2>2. verdict # "ends" /\ Live
    BY <1>3, <1>4, <2>1, EndsIs DEF Live
  <2>3. LiveOK(exec[e])
    BY <2>2 DEF ExecInv
  <2>4. LiveOK(y)
    <3>1. verdict = "answered" => Len(y.replies) = 1
      <4>1. Len(<<reply>>) = 1
        OBVIOUS
      <4>2. QED
        BY <1>7, <2>2, <4>1
    <3>2. y.announced => Announcement(y.said) = "goes on"
      BY <1>1, <1>7, <2>3 DEF LiveOK
    <3>3. QED
      BY <1>7, <2>2, <3>1, <3>2 DEF LiveOK
  <2>5. QED
    BY <1>8, <2>2, <2>4 DEF ExecInv
<1>12. \A f \in Execs : execRun'.why = f => EndedBy(exec'[f])
  <2>1. SUFFICES ASSUME NEW f \in Execs, execRun'.why = f PROVE EndedBy(exec'[f])
    OBVIOUS
  <2>2. CASE execRun.why = f
    <3>1. EndedBy(exec[f]) /\ f # e
      BY <1>1, <2>2 DEF ExecInv, EndedBy
    <3>2. QED
      BY <1>8, <3>1
  <2>3. CASE execRun.why # f
    <3>1. verdict = "ends" /\ f = e /\ Live
      BY <1>3, <1>4, <2>1, <2>3, EndsIs
    <3>2. y.announced => Announcement(y.said) = "goes on"
      BY <1>1, <1>7, <3>1 DEF ExecInv, LiveOK
    <3>3. y.announced => y.said.case \notin Announced \cup {"mcpArgs"}
      BY <1>4, <1>7, <3>1, <3>2, AnnouncedGoesOn DEF verdict
    <3>4. QED
      BY <1>7, <1>8, <3>1, <3>3 DEF EndedBy
  <2>4. QED
    BY <2>2, <2>3
<1>13. QED
  BY <1>1, <1>9, <1>10, <1>11, <1>12, Carried

\* The execs keep what they are where nothing but the Run and the blobs change.
LEMMA OthersKeep ==
    ASSUME ExecConstants, ExecInv, ask' = ask, exec' = exec, ExecStates',
           execRun'.why \in Execs => execRun'.why = execRun.why, Live' => Live
    PROVE  ExecInv'
<1>1. \A e \in Execs : ExecOK(e, exec'[e])
  BY DEF ExecInv
<1>2. Live' => \A e \in Execs : LiveOK(exec'[e])
  BY DEF ExecInv
<1>3. \A e \in Execs : execRun'.why = e => EndedBy(exec'[e])
  BY DEF ExecInv
<1>4. QED
  BY <1>1, <1>2, <1>3, Carried

LEMMA RunKeeps ==
    ASSUME ExecConstants, ExecInv,
           (\E b \in Blobs : SetBlob(b, b)) \/ UnknownKv \/ ChunkIsOver \/ UNCHANGED execVars
    PROVE  ExecInv'
<1>1. ExecStates
  BY DEF ExecInv
<1>2. ASSUME NEW b \in Blobs, SetBlob(b, b) PROVE ExecInv'
  <2>1. ask' = ask /\ exec' = exec /\ execRun' = execRun
    BY <1>2 DEF SetBlob
  <2>2. ExecStates'
    BY <1>1, <1>2, <2>1 DEF SetBlob, ExecStates
  <2>3. QED
    BY <2>1, <2>2, OthersKeep DEF Live
<1>3. ASSUME UnknownKv PROVE ExecInv'
  <2>1. ask' = ask /\ exec' = exec /\ blob' = blob /\ Ends("kv")
    BY <1>3 DEF UnknownKv
  <2>2. ExecStates'
    BY <1>1, <2>1, EndsIs DEF ExecStates
  <2>3. execRun'.why \in Execs => execRun'.why = execRun.why
    BY <1>1, <2>1, EndsIs DEF ExecConstants
  <2>4. ~Live'
    BY <1>1, <2>1, EndsIs
  <2>5. QED
    BY <2>1, <2>2, <2>3, <2>4, OthersKeep
<1>4. ASSUME ChunkIsOver PROVE ExecInv'
  <2>1. ask' = ask /\ exec' = exec /\ blob' = blob /\ execRun' = [execRun EXCEPT !.rest = FALSE]
    BY <1>4 DEF ChunkIsOver
  <2>2. ExecStates' /\ execRun'.why = execRun.why /\ execRun'.stage = execRun.stage
    BY <1>1, <2>1 DEF ExecStates
  <2>3. QED
    BY <2>1, <2>2, OthersKeep DEF Live
<1>5. ASSUME UNCHANGED execVars PROVE ExecInv'
  <2>1. ask' = ask /\ exec' = exec /\ blob' = blob /\ execRun' = execRun
    BY <1>5 DEF execVars
  <2>2. ExecStates'
    BY <1>1, <2>1 DEF ExecStates
  <2>3. QED
    BY <2>1, <2>2, OthersKeep DEF Live
<1>6. QED
  BY <1>2, <1>3, <1>4, <1>5

LEMMA ReadIsOverKeeps ==
    ASSUME ExecConstants, ExecInv, NEW e \in Execs, ReadIsOver(e)
    PROVE  ExecInv'
<1> DEFINE reply == ReplyTo("read", Own)
           w == Written(exec[e], reply)
           y == exec'[e]
<1>1. /\ exec[e].phase = "reading" /\ ask' = ask /\ blob' = blob /\ execRun' = execRun
      /\ exec' = [exec EXCEPT ![e] = [w EXCEPT !.phase = "answered"]]
  BY DEF ReadIsOver
<1>2. ExecStates /\ exec[e] \in ExecRecord /\ exec[e].replies = <<>> /\ ExecOK(e, exec[e])
  BY <1>1 DEF ExecInv, ExecStates, ExecOK
<1>3. reply \in Replies /\ reply.of = Own
  BY AnswerIs DEF ReplyTo, Replies, ReplyCases
<1> HIDE DEF reply
<1>4. /\ w \in ExecRecord /\ w.said = exec[e].said /\ w.announced = exec[e].announced
      /\ w.tool = exec[e].tool /\ w.call = exec[e].call
      /\ w.replies = IF Live THEN <<reply>> ELSE <<>>
  BY <1>2, <1>3, WrittenIs
<1> HIDE DEF w
<1>5. /\ y \in ExecRecord /\ y.said = exec[e].said /\ y.announced = exec[e].announced
      /\ y.tool = exec[e].tool /\ y.call = exec[e].call /\ y.phase = "answered"
      /\ y.replies = IF Live THEN <<reply>> ELSE <<>>
  <2>1. y = [w EXCEPT !.phase = "answered"]
    BY <1>1, <1>2 DEF ExecStates
  <2>2. QED
    BY <1>4, <2>1 DEF ExecRecord, ExecPhases
<1>6. \A f \in Execs : exec'[f] = IF f = e THEN y ELSE exec[f]
  BY <1>1, <1>2 DEF ExecStates
<1> HIDE DEF y
<1>7. ExecStates'
  BY <1>1, <1>2, <1>5, <1>6 DEF ExecStates
<1>8. \A f \in Execs : ExecOK(f, exec'[f])
  <2>1. \A i \in DOMAIN y.replies : y.replies[i].of = Own
    <3>1. CASE y.replies = <<reply>>
      <4>1. DOMAIN y.replies = {1} /\ y.replies[1] = reply
        BY <3>1, Tuples, Zenon
      <4>2. QED
        BY <1>3, <4>1
    <3>2. CASE y.replies = <<>>
      <4>1. DOMAIN y.replies = {}
        BY <3>2, Tuples, Zenon
      <4>2. QED
        BY <4>1
    <3>3. QED
      BY <1>5, <3>1, <3>2
  <2>2. ExecOK(e, y)
    BY <1>2, <1>5, <2>1 DEF ExecOK
  <2>3. QED
    BY <1>6, <2>2 DEF ExecInv
<1>9. Live' => \A f \in Execs : LiveOK(exec'[f])
  <2>1. SUFFICES ASSUME Live', NEW f \in Execs PROVE LiveOK(exec'[f])
    OBVIOUS
  <2>2. Live /\ \A g \in Execs : LiveOK(exec[g])
    BY <1>1, <2>1 DEF ExecInv, Live
  <2>3. Len(y.replies) = 1
    BY <1>5, <2>2, Tuples, Zenon
  <2>4. LiveOK(y)
    BY <1>5, <2>2, <2>3 DEF LiveOK
  <2>5. QED
    BY <1>6, <2>2, <2>4
<1>10. \A f \in Execs : execRun'.why = f => EndedBy(exec'[f])
  <2>1. \A f \in Execs : execRun'.why = f => EndedBy(exec[f]) /\ f # e
    BY <1>1 DEF ExecInv, EndedBy
  <2>2. QED
    BY <1>6, <2>1
<1>11. QED
  BY <1>1, <1>7, <1>8, <1>9, <1>10, Carried

LEMMA HoldExecKeeps ==
    ASSUME ExecConstants, ExecInv, HoldExec
    PROVE  ExecInv'
<1>1. /\ ask' = ask /\ blob' = blob /\ Live
      /\ exec' = [e \in Execs |-> IF exec[e].phase = "held"
                                  THEN [exec[e] EXCEPT !.phase = "told"] ELSE exec[e]]
      /\ execRun' = [execRun EXCEPT !.stage = "parked"]
  BY DEF HoldExec, Live
<1>2. ExecStates
  BY DEF ExecInv
<1>3. ASSUME NEW f \in Execs
      PROVE  /\ exec'[f] \in ExecRecord /\ exec'[f].said = exec[f].said
             /\ exec'[f].announced = exec[f].announced /\ exec'[f].replies = exec[f].replies
             /\ exec'[f].tool = exec[f].tool /\ exec'[f].call = exec[f].call
             /\ \/ exec[f].phase = "held" /\ exec'[f].phase = "told"
                \/ exec[f].phase # "held" /\ exec'[f].phase = exec[f].phase
  <2>1. exec[f] \in ExecRecord
    BY <1>2 DEF ExecStates
  <2>2. exec'[f] = IF exec[f].phase = "held"
                   THEN [exec[f] EXCEPT !.phase = "told"] ELSE exec[f]
    BY <1>1
  <2>3. QED
    BY <2>1, <2>2 DEF ExecRecord, ExecPhases
<1>4. ExecStates'
  BY <1>1, <1>2, <1>3 DEF ExecStates
<1>5. \A f \in Execs : ExecOK(f, exec'[f])
  <2> SUFFICES ASSUME NEW f \in Execs PROVE ExecOK(f, exec'[f])
    OBVIOUS
  <2>1. ExecOK(f, exec[f])
    BY DEF ExecInv
  <2>2. QED
    BY <1>3, <2>1 DEF ExecOK
<1>6. \A f \in Execs : LiveOK(exec'[f])
  <2> SUFFICES ASSUME NEW f \in Execs PROVE LiveOK(exec'[f])
    OBVIOUS
  <2>1. LiveOK(exec[f])
    BY <1>1 DEF ExecInv
  <2>2. QED
    BY <1>3, <2>1 DEF LiveOK
<1>7. \A f \in Execs : execRun'.why = f => EndedBy(exec'[f])
  <2> SUFFICES ASSUME NEW f \in Execs, execRun'.why = f PROVE EndedBy(exec'[f])
    OBVIOUS
  <2>1. EndedBy(exec[f])
    BY <1>1, <1>2 DEF ExecInv, ExecStates
  <2>2. QED
    BY <1>3, <2>1 DEF EndedBy
<1>8. QED
  BY <1>1, <1>4, <1>5, <1>6, <1>7, Carried

LEMMA ResumeKeeps ==
    ASSUME ExecConstants, ExecInv, Resume
    PROVE  ExecInv'
<1> DEFINE results == {exec[e].call : e \in {x \in Execs : exec[x].phase = "told"}}
           for(e) == {call \in results : e \in Waiting(call)}
           answer(e) == ResultOf(exec[e], exec[e].call)
<1>1. /\ ask' = ask /\ blob' = blob /\ Live
      /\ exec' = [e \in Execs |->
             CASE for(e) # {}
                    -> [exec[e] EXCEPT !.phase = "answered",
                                       !.replies = @ \o SetToSeq({ResultOf(exec[e], call) :
                                                                  call \in for(e)})]
               [] for(e) = {} /\ exec[e].phase = "told" -> [exec[e] EXCEPT !.phase = "lost"]
               [] OTHER -> exec[e]]
      /\ execRun' = [execRun EXCEPT !.stage = "open"]
  BY DEF Resume, Live
<1>2. ExecStates /\ \A e \in Execs : ExecOK(e, exec[e]) /\ LiveOK(exec[e])
  BY <1>1 DEF ExecInv
<1>3. ASSUME NEW e \in Execs, exec[e].phase = "told"
      PROVE  /\ exec[e].call \in Calls \ {<<>>} /\ exec[e].call[2] = e
             /\ \/ exec[e].call = <<"random", e>>
                \/ \E kind \in exec[e].said.ids : exec[e].call = <<kind, e>>
             /\ exec[e].said.case \in Builtins \cup {"mcpArgs"}
  <2>1. exec[e].call = CallId(e, exec[e].said) /\ exec[e].tool \in ToolsFor(exec[e].said)
    BY <1>2, <1>3 DEF ExecOK
  <2>2. exec[e].said \in MessageRecord
    BY <1>2, SaidIs DEF ExecStates, ExecRecord
  <2>3. exec[e].said.ids \subseteq IdKinds
    BY <2>2 DEF MessageRecord, IdKinds
  <2>4. QED
    BY <1>2, <2>1, <2>3, CallIdIs, ToolsForAre
<1>4. ASSUME NEW e \in Execs, for(e) # {}
      PROVE  for(e) = {exec[e].call} /\ exec[e].phase = "told"
  <2>1. ASSUME NEW call \in for(e) PROVE call = exec[e].call /\ exec[e].phase = "told"
    <3>1. PICK g \in Execs : exec[g].phase = "told" /\ call = exec[g].call
      BY <2>1
    <3>2. exec[e].phase = "told" /\ \E kind \in exec[e].said.ids : call = <<kind, e>>
      BY <2>1 DEF Waiting
    <3>3. call[2] = e
      BY <3>2
    <3>4. call[2] = g
      BY <3>1, <1>3
    <3>5. QED
      BY <3>1, <3>2, <3>3, <3>4
  <2>2. QED
    BY <1>4, <2>1
<1>5. ASSUME NEW e \in Execs, exec[e].phase = "told", for(e) = {}
      PROVE  exec[e].call = <<"random", e>>
  <2>1. SUFFICES ASSUME NEW kind \in exec[e].said.ids, exec[e].call = <<kind, e>>
                 PROVE  FALSE
    BY <1>3, <1>5
  <2>2. exec[e].call \in results
    BY <1>5
  <2>3. e \in Waiting(exec[e].call)
    BY <1>5, <2>1 DEF Waiting
  <2>4. QED
    BY <1>5, <2>2, <2>3
<1>6. ASSUME NEW e \in Execs, for(e) # {}
      PROVE  exec'[e] = [exec[e] EXCEPT !.phase = "answered", !.replies = <<answer(e)>>]
  <2>1. {ResultOf(exec[e], call) : call \in for(e)} = {answer(e)}
    BY <1>4, <1>6
  <2>2. SetToSeq({ResultOf(exec[e], call) : call \in for(e)}) = <<answer(e)>>
    BY <2>1, OneToSeq, Zenon
  <2>3. exec[e].replies = <<>>
    BY <1>2, <1>4, <1>6 DEF ExecOK
  <2>4. exec[e].replies \o <<answer(e)>> = <<answer(e)>>
    BY <2>3
  <2>5. exec'[e] = [exec[e] EXCEPT !.phase = "answered",
                                   !.replies = @ \o SetToSeq({ResultOf(exec[e], call) :
                                                              call \in for(e)})]
    BY <1>1, <1>6
  <2> HIDE DEF results, for, answer
  <2>6. QED
    BY <2>2, <2>4, <2>5
<1>7. ASSUME NEW e \in Execs, for(e) = {}
      PROVE  exec'[e] = IF exec[e].phase = "told" THEN [exec[e] EXCEPT !.phase = "lost"]
                        ELSE exec[e]
  <2> HIDE DEF results, for
  <2>1. QED
    BY <1>1, <1>7
<1>8. ASSUME NEW e \in Execs, exec[e].phase = "told"
      PROVE  /\ answer(e) \in Replies /\ answer(e).of = exec[e].call
             /\ exec[e].said.case = "mcpArgs" \/ answer(e).case = ResultCases[exec[e].said.case]
  <2>1. \A c \in Builtins : ResultCases[c] \in ReplyCases
    <3>1. \A c \in Builtins : RefusalCases[c] \in ReplyCases
      BY RefusalsAre
    <3>2. \A c \in Builtins :
            ResultCases[c] = CASE c \in ShellCases -> "shell"
                               [] c \in {"readArgs", "redactedReadArgs"} -> "read"
                               [] OTHER -> RefusalCases[c]
      BY DEF ResultCases
    <3>3. QED
      BY <3>1, <3>2 DEF ReplyCases
  <2>2. "mcpArgs" \in ReplyCases
    BY DEF ReplyCases
  <2>3. QED
    BY <1>3, <1>8, <2>1, <2>2 DEF ResultOf, ReplyTo, Replies
<1> HIDE DEF results, for, answer
<1>9. ASSUME NEW e \in Execs
      PROVE  /\ exec'[e] \in ExecRecord /\ ExecOK(e, exec'[e]) /\ LiveOK(exec'[e])
             /\ EndedBy(exec[e]) => EndedBy(exec'[e])
  <2>1. exec[e] \in ExecRecord /\ ExecOK(e, exec[e]) /\ LiveOK(exec[e])
    BY <1>2 DEF ExecStates
  <2>2. CASE for(e) # {}
    <3> DEFINE y == exec'[e]
    <3>1. exec[e].phase = "told" /\ y = [exec[e] EXCEPT !.phase = "answered",
                                                        !.replies = <<answer(e)>>]
      BY <1>4, <1>6, <2>2
    <3>2. /\ answer(e) \in Replies /\ answer(e).of = exec[e].call
          /\ exec[e].said.case = "mcpArgs" \/ answer(e).case = ResultCases[exec[e].said.case]
      BY <1>8, <3>1
    <3>3. <<answer(e)>> \in Seq(Replies)
      BY <3>2
    <3>4. /\ y \in ExecRecord /\ y.said = exec[e].said /\ y.announced = exec[e].announced
          /\ y.tool = exec[e].tool /\ y.call = exec[e].call /\ y.phase = "answered"
          /\ y.replies = <<answer(e)>>
      BY <2>1, <3>1, <3>3 DEF ExecRecord, ExecPhases
    <3> HIDE DEF y
    <3>5. DOMAIN y.replies = {1} /\ y.replies[1] = answer(e) /\ Len(y.replies) = 1
      BY <3>4, Tuples, Zenon
    <3>6. ExecOK(e, y)
      BY <2>1, <3>2, <3>4, <3>5 DEF ExecOK
    <3>7. LiveOK(y)
      BY <2>1, <3>4, <3>5 DEF LiveOK
    <3>8. ~EndedBy(exec[e])
      BY <3>1 DEF EndedBy
    <3>9. QED
      BY <3>4, <3>6, <3>7, <3>8 DEF y
  <2>3. CASE for(e) = {} /\ exec[e].phase = "told"
    <3> DEFINE y == exec'[e]
    <3>1. y = [exec[e] EXCEPT !.phase = "lost"] /\ exec[e].call = <<"random", e>>
      BY <1>5, <1>7, <2>3
    <3>2. /\ y \in ExecRecord /\ y.said = exec[e].said /\ y.announced = exec[e].announced
          /\ y.tool = exec[e].tool /\ y.call = exec[e].call /\ y.phase = "lost"
          /\ y.replies = exec[e].replies
      BY <2>1, <3>1 DEF ExecRecord, ExecPhases
    <3> HIDE DEF y
    <3>3. ExecOK(e, y)
      BY <2>1, <2>3, <3>1, <3>2 DEF ExecOK
    <3>4. LiveOK(y)
      BY <2>1, <3>2 DEF LiveOK
    <3>5. ~EndedBy(exec[e])
      BY <2>3 DEF EndedBy
    <3>6. QED
      BY <3>2, <3>3, <3>4, <3>5 DEF y
  <2>4. CASE for(e) = {} /\ exec[e].phase # "told"
    <3>1. exec'[e] = exec[e]
      BY <1>7, <2>4
    <3>2. QED
      BY <2>1, <3>1, Zenon
  <2>5. QED
    BY <2>2, <2>3, <2>4
<1>10. ExecStates'
  <2>1. exec' \in [Execs -> ExecRecord]
    BY <1>1, <1>9
  <2>2. QED
    BY <1>1, <1>2, <2>1 DEF ExecStates
<1>11. \A f \in Execs : execRun'.why = f => EndedBy(exec'[f])
  BY <1>1, <1>2, <1>9 DEF ExecInv, ExecStates
<1>12. QED
  BY <1>1, <1>9, <1>10, <1>11, Carried

LEMMA ExecKeeps ==
    ASSUME ExecConstants, ExecInv, [ExecNext]_execVars
    PROVE  ExecInv'
<1>1. ASSUME NEW e \in Execs, NEW said \in Messages, Announce(e, said) PROVE ExecInv'
  BY <1>1, AnnounceKeeps
<1>2. ASSUME NEW e \in Execs, NEW said \in Messages, HandleExec(e, said) PROVE ExecInv'
  BY <1>2, HandleExecKeeps
<1>3. ASSUME NEW e \in Execs, ReadIsOver(e) PROVE ExecInv'
  BY <1>3, ReadIsOverKeeps
<1>4. ASSUME HoldExec PROVE ExecInv'
  BY <1>4, HoldExecKeeps
<1>5. ASSUME Resume PROVE ExecInv'
  BY <1>5, ResumeKeeps
<1>6. ASSUME (\E b \in Blobs : SetBlob(b, b)) \/ UnknownKv \/ ChunkIsOver
               \/ UNCHANGED execVars
      PROVE  ExecInv'
  BY <1>6, RunKeeps
<1>7. QED
  BY <1>1, <1>2, <1>3, <1>4, <1>5, <1>6 DEF ExecNext

LEMMA ExecInvImplies ==
    ASSUME ExecConstants, ExecInv
    PROVE  ExecsSound
<1>1. ExecStates
  BY DEF ExecInv
<1>2. \A e \in Execs : exec[e] \in ExecRecord
  BY <1>1 DEF ExecStates
<1>3. ExecTypeOK
  BY <1>1, <1>2 DEF ExecTypeOK, ExecStates, ExecRecord, ExecPhases
<1>4. Answered
  <2>1. SUFFICES ASSUME Live, NEW e \in Execs
                 PROVE  /\ Len(exec[e].replies) = IF exec[e].phase = "answered" THEN 1 ELSE 0
                        /\ exec[e].phase = "ignored" => exec[e].said.case = NoCase
                        /\ exec[e].phase = "lost" => exec[e].call = <<"random", e>>
                        /\ exec[e].phase # "ends"
    BY DEF Answered
  <2>2. ExecOK(e, exec[e]) /\ LiveOK(exec[e])
    BY <2>1 DEF ExecInv
  <2>3. exec[e].phase # "answered" => Len(exec[e].replies) = 0
    BY <2>2, Tuples DEF ExecOK
  <2>4. QED
    BY <2>2, <2>3 DEF ExecOK, LiveOK
<1>5. OwnResult
  BY DEF OwnResult, ExecInv, ExecOK
<1>6. ASSUME NEW e \in Execs, exec[e].tool # ""
      PROVE  /\ exec[e].tool \in ToolsFor(exec[e].said) /\ exec[e].tool \in Allowed
             /\ exec[e].tool \in Tools
  BY <1>1, <1>6, ToolsForAre, AllowedIs DEF ExecInv, ExecOK
<1>7. HeldForItsTool
  <2> SUFFICES ASSUME NEW e \in Execs, exec[e].tool # ""
               PROVE  LET x == exec[e] IN
                        /\ x.tool \in ask.tools /\ ask.choice # "none"
                        /\ ask.choice \in Tools => x.tool = ask.choice
                        /\ x.said.case \in Builtins =>
                             LET mapped == MappedArguments(x.said.case, x.tool)
                             IN  /\ x.tool \in Aliases[x.said.case]
                                 /\ \A name \in DOMAIN mapped : Cardinality(mapped[name]) = 1
                                 /\ \A a \in Arguments(x.said.case) :
                                      a \in Properties[x.tool] =>
                                        a \in UNION {mapped[n] : n \in DOMAIN mapped}
    BY DEF HeldForItsTool
  <2>1. exec[e].said.case \in Builtins => exec[e].tool \in Aliases[exec[e].said.case]
    BY <1>6, CasesApart DEF ToolsFor, Matching
  <2>2. /\ exec[e].tool \in ask.tools /\ ask.choice # "none"
        /\ ask.choice \in Tools => exec[e].tool = ask.choice
    BY <1>1, <1>6, AllowedIs
  <2> DEFINE mapped == MappedArguments(exec[e].said.case, exec[e].tool)
  <2>3. /\ \A name \in DOMAIN mapped : Cardinality(mapped[name]) = 1
        /\ \A a \in Arguments(exec[e].said.case) :
             a \in Properties[exec[e].tool] => a \in UNION {mapped[n] : n \in DOMAIN mapped}
    <3>1. exec[e].tool \in Tools
      BY <1>6
    <3>2. QED
      BY <3>1, ArgumentsAreMapped, Zenon
  <2> HIDE DEF mapped
  <2>4. QED
    BY <2>1, <2>2, <2>3 DEF mapped
<1>8. AnnouncementsHold
  <2>1. ASSUME NEW e \in Execs, execRun.why = e /\ exec[e].announced
        PROVE  exec[e].said.case \notin Announced \cup {"mcpArgs"}
    BY <2>1 DEF ExecInv, EndedBy
  <2>2. ASSUME NEW e \in Execs, exec[e].tool # ""
        PROVE  /\ exec[e].tool \in Advertised
               /\ exec[e].said.case \in Announced \cup {"mcpArgs"}
                    => Announcement(exec[e].said) = "goes on"
    BY <1>1, <1>6, <2>2, AllowedIs, HeldGoesOn
  <2>3. QED
    BY <2>1, <2>2 DEF AnnouncementsHold
<1>9. QED
  BY <1>3, <1>4, <1>5, <1>7, <1>8 DEF ExecsSound

\* Whatever upstream asks of a Run and in whatever order the messages, the reads and the
\* results come, an exec is answered once and by the right party, held only for a tool that
\* may be called with all its arguments, and no call the bridge let upstream announce ends
\* the Run.
THEOREM EveryExecIsAnswered ==
    ASSUME ExecConstants
    PROVE  ExecSpec => []ExecsSound
<1>1. ExecInit => ExecInv
  BY ExecInitInv
<1>2. ExecInv /\ [ExecNext]_execVars => ExecInv'
  BY ExecKeeps
<1>3. ExecInv => ExecsSound
  BY ExecInvImplies
<1>4. QED
  BY <1>1, <1>2, <1>3, PTL DEF ExecSpec

-----------------------------------------------------------------------------
(***************************************************************************)
(* Management: what the dashboard shows is what the backend was told and   *)
(* what a restart would load, and the file stays one that can be read.     *)
(*                                                                         *)
(* What is in force is a function of the configuration that was read or    *)
(* written last (InForce), and a patch on its way was made from it         *)
(* (PatchOnItsWay); that the lists of overrides keep one entry for an id   *)
(* is what keeps the file valid.                                           *)
(***************************************************************************)

-----------------------------------------------------------------------------
(* The patches                                                             *)

CredentialSets == {C \in SUBSET ConfigCredential : \A c, d \in C : c.id = d.id => c = d}

Works == [credentials : CredentialSets, envPlan : AdminPlans \cup {"none"}, refused : BOOLEAN]

LEMMA UpdatedIs ==
    ASSUME AdminConstants, NEW work \in Works, NEW update \in CredentialUpdates
    PROVE  Updated(work, update) \in Works
<1> DEFINE existing == {c \in work.credentials : c.id = update.id}
           others == work.credentials \ existing
           was == IF existing = {} THEN [id |-> update.id, key |-> "none", plan |-> "none"]
                  ELSE CHOOSE c \in existing : TRUE
           key == Or(update.key, was.key)
           new == [id |-> update.id, key |-> key, plan |-> Or(update.plan, was.plan)]
<1>1. /\ work.credentials \in SUBSET ConfigCredential
      /\ \A c, d \in work.credentials : c.id = d.id => c = d
      /\ work.envPlan \in AdminPlans \cup {"none"} /\ work.refused \in BOOLEAN
  BY DEF Works, CredentialSets
<1>2. /\ update.id \in DashboardIds \cup {"env", "system"}
      /\ update.key \in AdminKeys \cup {"none"} /\ update.plan \in AdminPlans \cup {"none"}
  BY DEF CredentialUpdates
<1>3. was.key \in AdminKeys \cup {"none"} /\ was.plan \in AdminPlans \cup {"none"}
  <2>1. CASE existing = {}
    BY <2>1
  <2>2. CASE existing # {}
    <3>1. was \in existing
      BY <2>2
    <3>2. was \in ConfigCredential
      BY <1>1, <3>1
    <3>3. QED
      BY <3>2 DEF ConfigCredential
  <2>3. QED
    BY <2>1, <2>2
<1>4. key \in AdminKeys \cup {"none"} /\ Or(update.plan, was.plan) \in AdminPlans \cup {"none"}
  BY <1>2, <1>3 DEF Or
<1>5. others \in CredentialSets /\ \A c \in others : c.id # update.id
  BY <1>1 DEF CredentialSets
<1> HIDE DEF existing, others, was, key
<1>6. ASSUME update.id \notin {"env", "system"}, key # "none"
      PROVE  others \cup {new} \in CredentialSets
  <2>1. new \in ConfigCredential
    BY <1>2, <1>4, <1>6 DEF ConfigCredential
  <2>2. new.id = update.id
    OBVIOUS
  <2> HIDE DEF new
  <2>3. QED
    BY <1>5, <2>1, <2>2 DEF CredentialSets
<1>7. Updated(work, update) =
        CASE work.refused -> work
          [] update.id = "env" ->
                IF update.key # "none" \/ update.delete THEN [work EXCEPT !.refused = TRUE]
                ELSE [work EXCEPT !.envPlan = Or(update.plan, @)]
          [] update.id = "system" -> [work EXCEPT !.refused = TRUE]
          [] update.delete -> [work EXCEPT !.credentials = others]
          [] key = "none" -> [work EXCEPT !.refused = TRUE]
          [] OTHER -> [work EXCEPT !.credentials = others \cup {new}]
  BY DEF Updated, existing, others, was, key
<1> HIDE DEF new
<1>8. [work EXCEPT !.refused = TRUE] \in Works
  BY DEF Works
<1>9. [work EXCEPT !.envPlan = Or(update.plan, @)] \in Works
  BY <1>1, <1>2 DEF Works, Or
<1>10. [work EXCEPT !.credentials = others] \in Works
  BY <1>5 DEF Works
<1>11. update.id \notin {"env", "system"} /\ key # "none"
         => [work EXCEPT !.credentials = others \cup {new}] \in Works
  BY <1>6 DEF Works
<1>12. QED
  BY <1>7, <1>8, <1>9, <1>10, <1>11

\* Whatever the updates, ids stay unique and no id the bridge reserves comes in.
LEMMA AllUpdatedIs ==
    ASSUME AdminConstants, NEW b \in Works, NEW s \in Seq(CredentialUpdates)
    PROVE  FoldLeft(Updated, b, s) \in Works
<1> DEFINE n == Len(s)
           F == [p \in Works \X CredentialUpdates |-> Updated(p[1], p[2])]
           Folds(g) == g = [t \in SUBSET DOMAIN s |->
                              IF t = {} THEN b ELSE Updated(g[t \ {Max(t)}], s[Max(t)])]
<1>1. /\ n \in Nat /\ DOMAIN s = 1..n /\ \A i \in 1..n : s[i] \in CredentialUpdates
      /\ s \in [1..n -> CredentialUpdates]
  OBVIOUS
<1>2. F \in [Works \X CredentialUpdates -> Works]
  BY UpdatedIs
<1>3. PICK g \in [SUBSET (1..n) -> Works] : FoldsParts(g, F, b, s, n)
  <2> HIDE DEF F, n
  <2>1. /\ n \in Nat /\ b \in Works /\ F \in [Works \X CredentialUpdates -> Works]
        /\ s \in [1..n -> CredentialUpdates]
    BY <1>1, <1>2
  <2>2. QED
    BY <2>1, FoldExists, Zenon
<1>4. \A t \in SUBSET (1..n) : t # {} => g[t \ {Max(t)}] \in Works /\ s[Max(t)] \in CredentialUpdates
  BY <1>1, GreatestIs
<1>5. \A t \in SUBSET (1..n) :
        g[t] = IF t = {} THEN b ELSE Updated(g[t \ {Max(t)}], s[Max(t)])
  BY <1>3, <1>4 DEF FoldsParts
<1>6. Folds(g)
  BY <1>1, <1>5
<1>7. \E h : Folds(h) /\ FoldLeft(Updated, b, s) = h[DOMAIN s]
  BY <1>6 DEF FoldLeft, MapThenFoldSet
<1>8. PICK h : Folds(h) /\ FoldLeft(Updated, b, s) = h[DOMAIN s]
  BY <1>7
<1> DEFINE Good == {k \in Nat : k <= n => h[1..k] \in Works}
<1>9. ASSUME NEW k \in Nat, k <= n
      PROVE  h[1..k] = IF k = 0 THEN b ELSE Updated(h[1..(k - 1)], s[k])
  <2>1. 1..k \in SUBSET DOMAIN s
    BY <1>1, <1>9
  <2>2. h[1..k] = IF 1..k = {} THEN b ELSE Updated(h[(1..k) \ {Max(1..k)}], s[Max(1..k)])
    BY <1>8, <2>1
  <2>3. CASE k = 0
    BY <2>2, <2>3
  <2>4. CASE k # 0
    <3>1. 1..k # {} /\ Max(1..k) = k /\ (1..k) \ {k} = 1..(k - 1)
      BY <2>4, GreatestOfPrefix
    <3>2. QED
      BY <2>2, <2>4, <3>1
  <2>5. QED
    BY <2>3, <2>4
<1>10. 0 \in Good
  BY <1>9
<1>11. ASSUME NEW k \in Nat, k \in Good PROVE k + 1 \in Good
  <2>1. SUFFICES ASSUME k + 1 <= n PROVE h[1..(k + 1)] \in Works
    OBVIOUS
  <2>2. h[1..k] \in Works /\ s[k + 1] \in CredentialUpdates
    BY <1>1, <1>11, <2>1
  <2>3. h[1..(k + 1)] = Updated(h[1..k], s[k + 1])
    BY <1>9, <2>1
  <2>4. QED
    BY <2>2, <2>3, UpdatedIs
<1>12. n \in Good
  <2> HIDE DEF Good, n
  <2>1. QED
    BY <1>1, <1>10, <1>11, AllNumbers
<1>13. QED
  BY <1>1, <1>8, <1>12

-----------------------------------------------------------------------------
(* The overrides                                                           *)

Override == [id : OverrideIds, enabled : {"true", "false"}]

\* No id is named twice.
OverrideLists ==
    {s \in Seq(Override) : \A i, j \in DOMAIN s : s[i].id = s[j].id => i = j}

LEMMA OverrideListIs ==
    ASSUME NEW s \in OverrideLists
    PROVE  /\ s \in Seq(Override) /\ Len(s) \in Nat /\ DOMAIN s = 1..Len(s)
           /\ \A i \in 1..Len(s) : s[i] \in Override
           /\ \A i, j \in 1..Len(s) : s[i].id = s[j].id => i = j
BY DEF OverrideLists

LEMMA WithOverrideIs ==
    ASSUME NEW s \in OverrideLists, NEW o \in OverrideChanges
    PROVE  WithOverride(s, o) \in OverrideLists
<1> DEFINE n == Len(s)
           at == {i \in DOMAIN s : s[i].id = o.id}
<1>1. /\ s \in Seq(Override) /\ n \in Nat /\ DOMAIN s = 1..n
      /\ \A i \in 1..n : s[i] \in Override
      /\ \A i, j \in 1..n : s[i].id = s[j].id => i = j
  BY OverrideListIs
<1>2. o.enabled \in Decisions /\ (o.enabled # "default" => o \in Override)
  BY DEF OverrideChanges, NoOverride, Override, Decisions
<1>3. ASSUME at # {} PROVE Min(at) \in at /\ Min(at) \in 1..n
  <2>1. at \subseteq Nat
    BY <1>1
  <2>2. \E i \in at : \A j \in at : i <= j
    BY <1>3, <2>1, LeastOf
  <2>3. Min(at) \in at
    BY <2>2 DEF Min
  <2>4. QED
    BY <1>1, <2>3
<1>4. CASE o.enabled = "default" /\ at = {}
  <2>1. WithOverride(s, o) = s
    BY <1>4 DEF WithOverride
  <2>2. QED
    BY <2>1
<1>5. CASE o.enabled = "default" /\ at # {}
  <2> DEFINE m == Min(at)
             r == RemoveAt(s, m)
             old(i) == IF i < m THEN i ELSE i + 1
  <2>1. WithOverride(s, o) = r
    BY <1>5 DEF WithOverride
  <2>2. m \in 1..n
    BY <1>3, <1>5
  <2> HIDE DEF m, n
  <2>3. /\ SubSeq(s, 1, m - 1) \in Seq(Override) /\ Len(SubSeq(s, 1, m - 1)) = m - 1
        /\ \A i \in 1..(m - 1) : SubSeq(s, 1, m - 1)[i] = s[i]
    <3>1. 1 \in 1..(n + 1) /\ m - 1 \in 0..n /\ m - 1 \in Nat
      BY <1>1, <2>2
    <3>2. QED
      BY <1>1, <3>1, SubSeqProperties DEF n
  <2>4. /\ SubSeq(s, m + 1, n) \in Seq(Override) /\ Len(SubSeq(s, m + 1, n)) = n - m
        /\ \A i \in 1..(n - m) : SubSeq(s, m + 1, n)[i] = s[m + i]
    <3>1. m + 1 \in Int /\ n \in Int /\ \A i \in (m + 1)..n : s[i] \in Override
      BY <1>1, <2>2
    <3>2. /\ SubSeq(s, m + 1, n) \in Seq(Override)
          /\ Len(SubSeq(s, m + 1, n)) = IF m + 1 <= n THEN n - (m + 1) + 1 ELSE 0
          /\ \A i \in 1..(n - (m + 1) + 1) : SubSeq(s, m + 1, n)[i] = s[(m + 1) + i - 1]
      BY <3>1, SubSeqProperties
    <3>3. /\ n - (m + 1) + 1 = n - m /\ (~(m + 1 <= n) => n - m = 0)
          /\ \A i \in 1..(n - m) : (m + 1) + i - 1 = m + i
      BY <1>1, <2>2
    <3>4. QED
      BY <3>2, <3>3
  <2>5. /\ r \in Seq(Override) /\ Len(r) = n - 1 /\ DOMAIN r = 1..(n - 1)
        /\ \A i \in 1..(n - 1) : r[i] = s[old(i)]
    <3>1. r = SubSeq(s, 1, m - 1) \o SubSeq(s, m + 1, n)
      BY DEF RemoveAt, n
    <3> DEFINE p == SubSeq(s, 1, m - 1)
               q == SubSeq(s, m + 1, n)
    <3>2. /\ p \in Seq(Override) /\ q \in Seq(Override) /\ Len(p) = m - 1 /\ Len(q) = n - m
          /\ m \in Nat
      BY <1>1, <2>2, <2>3, <2>4
    <3> HIDE DEF p, q
    <3>3. /\ p \o q \in Seq(Override) /\ Len(p \o q) = n - 1 /\ DOMAIN (p \o q) = 1..(n - 1)
          /\ \A i \in 1..(n - 1) : (p \o q)[i] = IF i <= m - 1 THEN p[i] ELSE q[i - (m - 1)]
      <4>1. /\ p \o q \in Seq(Override) /\ Len(p \o q) = Len(p) + Len(q)
            /\ \A i \in 1..(Len(p) + Len(q)) :
                 (p \o q)[i] = IF i <= Len(p) THEN p[i] ELSE q[i - Len(p)]
        BY <3>2, ConcatProperties
      <4>2. (m - 1) + (n - m) = n - 1
        BY <1>1, <3>2
      <4>3. Len(p \o q) = n - 1 /\ DOMAIN (p \o q) = 1..Len(p \o q)
        BY <3>2, <4>1, <4>2
      <4>4. QED
        BY <3>2, <4>1, <4>2, <4>3
    <3>4. ASSUME NEW i \in 1..(n - 1) PROVE (p \o q)[i] = s[old(i)]
      <4>1. CASE i < m
        <5>1. i <= m - 1 /\ i \in 1..(m - 1)
          BY <1>1, <3>2, <4>1
        <5>2. QED
          BY <2>3, <3>3, <4>1, <5>1 DEF p
      <4>2. CASE ~(i < m)
        <5>1. ~(i <= m - 1) /\ i - (m - 1) \in 1..(n - m) /\ m + (i - (m - 1)) = i + 1
          BY <1>1, <3>2, <4>2
        <5>2. QED
          BY <2>4, <3>3, <4>2, <5>1 DEF q
      <4>3. QED
        BY <4>1, <4>2
    <3>5. QED
      BY <3>1, <3>3, <3>4 DEF p, q
  <2> HIDE DEF r
  <2>6. \A i, j \in 1..(n - 1) : r[i].id = r[j].id => i = j
    <3>1. SUFFICES ASSUME NEW i \in 1..(n - 1), NEW j \in 1..(n - 1), r[i].id = r[j].id
                   PROVE  i = j
      OBVIOUS
    <3>2. old(i) \in 1..n /\ old(j) \in 1..n
      BY <1>1, <2>2
    <3>3. old(i) = old(j)
      BY <1>1, <2>5, <3>1, <3>2
    <3>4. QED
      BY <1>1, <2>2, <3>3
  <2>7. QED
    BY <2>1, <2>5, <2>6 DEF OverrideLists
<1>6. CASE o.enabled # "default" /\ at # {}
  <2> DEFINE r == [s EXCEPT ![Min(at)] = o]
  <2>1. WithOverride(s, o) = r
    BY <1>6 DEF WithOverride
  <2>2. Min(at) \in 1..n /\ s[Min(at)].id = o.id /\ o \in Override
    BY <1>2, <1>3, <1>6
  <2>3. \A i \in 1..n : r[i] \in Override /\ r[i].id = s[i].id
    BY <1>1, <2>2
  <2>4. DOMAIN r = 1..n /\ r \in Seq(Override)
    BY <1>1, <2>2
  <2> HIDE DEF r, n
  <2>5. QED
    BY <1>1, <2>1, <2>3, <2>4 DEF OverrideLists
<1>7. CASE o.enabled # "default" /\ at = {}
  <2> DEFINE r == Append(s, o)
  <2>1. WithOverride(s, o) = r
    BY <1>7 DEF WithOverride
  <2>2. o \in Override /\ \A i \in 1..n : s[i].id # o.id
    BY <1>1, <1>2, <1>7
  <2>3. /\ r \in Seq(Override) /\ DOMAIN r = 1..(n + 1)
        /\ \A i \in 1..(n + 1) : r[i] = IF i = n + 1 THEN o ELSE s[i]
    BY <1>1, <2>2
  <2> HIDE DEF r, n
  <2>4. \A i, j \in 1..(n + 1) : r[i].id = r[j].id => i = j
    BY <1>1, <2>2, <2>3
  <2>5. QED
    BY <2>1, <2>3, <2>4 DEF OverrideLists
<1>8. QED
  BY <1>4, <1>5, <1>6, <1>7

LEMMA MigratedIs ==
    ASSUME NEW s \in OverrideLists
    PROVE  Migrated(s) \in [Families -> Decisions]
<1> DEFINE about(family) == {i \in DOMAIN s : Unified(s[i].id) = family}
           decision(family) == IF about(family) = {} THEN "default"
                               ELSE s[Max(about(family))].enabled
<1>1. ASSUME NEW family \in Families PROVE decision(family) \in Decisions
  <2>1. about(family) \in SUBSET (1..Len(s)) /\ Len(s) \in Nat
    BY OverrideListIs
  <2>2. CASE about(family) = {}
    BY <2>2 DEF Decisions
  <2>3. CASE about(family) # {}
    <3>1. Max(about(family)) \in about(family)
      BY <2>1, <2>3, GreatestIs
    <3>2. s[Max(about(family))] \in Override
      BY <2>1, <3>1, OverrideListIs
    <3>3. QED
      BY <2>3, <3>2 DEF Override, Decisions
  <2>4. QED
    BY <2>2, <2>3
<1>2. Migrated(s) = [family \in Families |-> decision(family)]
  BY DEF Migrated
<1>3. QED
  BY <1>1, <1>2

-----------------------------------------------------------------------------
(* The administration                                                      *)

Configs ==
    [credentials : CredentialSets, envPlan : AdminPlans \cup {"none"},
     policy : AdminPolicies \cup {"default"}, maxMode : Flags, overrides : OverrideLists]

AdminStates ==
    /\ adminFile \in [intact : BOOLEAN, config : Configs]
    /\ adminEnv \in Environments
    /\ admin \in [running : BOOLEAN, config : Configs, effective : SUBSET Effectives,
                  policy : AdminPolicies, maxMode : BOOLEAN]
    /\ modelPolicy \in [Families -> Decisions]
    /\ backendConfig \in [credentials : SUBSET Effectives, policy : AdminPolicies,
                          maxMode : BOOLEAN]
    /\ patch \in [phase : {"idle", "writing", "failed"}, config : Configs,
                  override : OverrideChanges, maxMode : Flags]

\* What is in force follows from the file that was read or written last, but for Max Mode
\* where the environment names it.
InForce ==
    /\ admin.effective = Effective(adminEnv.key, admin.config)
    /\ admin.policy = LoadedPolicy(admin.config)
    /\ modelPolicy = Migrated(admin.config.overrides)
    /\ adminEnv.maxMode = "unset" => admin.maxMode = (admin.config.maxMode = "true")
    /\ backendConfig = [credentials |-> admin.effective, policy |-> admin.policy,
                        maxMode |-> admin.maxMode]

\* A patch on its way says of Max Mode what the file will say.
PatchOnItsWay ==
    /\ patch.phase = "writing" =>
        /\ admin.running
        /\ patch.config.maxMode = IF patch.maxMode = "unset" THEN admin.config.maxMode
                                  ELSE patch.maxMode
    /\ admin.running /\ patch.phase = "idle" /\ adminFile.intact =>
        admin.config = adminFile.config

AdminInv == AdminStates /\ InForce /\ PatchOnItsWay

LEMMA EffectiveIs ==
    ASSUME NEW c \in Configs, NEW key \in AdminKeys \cup {"none"}
    PROVE  Effective(key, c) \in SUBSET Effectives
<1>1. /\ c.credentials \subseteq Effectives /\ c.envPlan \in AdminPlans \cup {"none"}
  BY DEF Configs, CredentialSets, ConfigCredential, Effectives
<1>2. key # "none" => [id |-> "env", key |-> key, plan |-> c.envPlan] \in Effectives
  BY <1>1 DEF Effectives
<1>3. [id |-> "system", key |-> "none", plan |-> "none"] \in Effectives
  BY DEF Effectives
<1>4. QED
  BY <1>1, <1>2, <1>3 DEF Effective

EnvKeyOf(effective) ==
    LET keys == {e.key : e \in {d \in effective : d.id = "env"}}
    IN  IF keys = {} THEN "none" ELSE CHOOSE k \in keys : TRUE

\* The key of the environment can be read back from what is in force.
LEMMA EnvKeyIs ==
    ASSUME AdminConstants, NEW c \in Configs, NEW key \in AdminKeys \cup {"none"}
    PROVE  EnvKeyOf(Effective(key, c)) = key
<1> DEFINE keys == {e.key : e \in {d \in Effective(key, c) : d.id = "env"}}
           env == [id |-> "env", key |-> key, plan |-> c.envPlan]
           system == [id |-> "system", key |-> "none", plan |-> "none"]
<1>1. \A d \in c.credentials : d.id # "env"
  BY DEF Configs, CredentialSets, ConfigCredential, AdminConstants
<1>2. env.id = "env" /\ env.key = key /\ system.id # "env"
  OBVIOUS
<1>3. Effective(key, c) = LET named == (IF key = "none" THEN {} ELSE {env}) \cup c.credentials
                          IN  IF named = {} THEN {system} ELSE named
  BY DEF Effective
<1> HIDE DEF env, system
<1>4. CASE key = "none"
  <2>1. {d \in Effective(key, c) : d.id = "env"} = {}
    BY <1>1, <1>2, <1>3, <1>4
  <2>2. keys = {}
    BY <2>1
  <2>3. QED
    BY <1>4, <2>2 DEF EnvKeyOf
<1>5. CASE key # "none"
  <2>1. {d \in Effective(key, c) : d.id = "env"} = {env}
    BY <1>1, <1>2, <1>3, <1>5
  <2>2. keys = {key}
    BY <1>2, <2>1
  <2>3. QED
    BY <2>2 DEF EnvKeyOf
<1>6. QED
  BY <1>4, <1>5

LEMMA LoadedAre ==
    ASSUME AdminConstants, NEW c \in Configs, NEW env \in Environments
    PROVE  /\ env.key \in AdminKeys \cup {"none"} /\ Effective(env.key, c) \in SUBSET Effectives
           /\ LoadedPolicy(c) \in AdminPolicies /\ LoadedMaxMode(env, c) \in BOOLEAN
           /\ Migrated(c.overrides) \in [Families -> Decisions]
<1>1. env.key \in AdminKeys \cup {"none"}
  BY DEF Environments
<1>2. c.policy \in AdminPolicies \cup {"default"} /\ c.overrides \in OverrideLists
  BY DEF Configs
<1>3. LoadedPolicy(c) \in AdminPolicies
  BY <1>2 DEF LoadedPolicy, AdminConstants
<1>4. LoadedMaxMode(env, c) \in BOOLEAN
  BY DEF LoadedMaxMode
<1>5. QED
  BY <1>1, <1>2, <1>3, <1>4, EffectiveIs, MigratedIs

LEMMA EmptyIs == EmptyConfig \in Configs
<1>1. <<>> \in OverrideLists /\ {} \in CredentialSets
  BY DEF OverrideLists, CredentialSets
<1>2. QED
  BY <1>1 DEF EmptyConfig, Configs, Flags

LEMMA NoPatchIs ==
    ASSUME NEW phase \in {"idle", "failed"}, NEW o \in OverrideChanges
    PROVE  /\ NoPatch(phase, o) \in [phase : {"idle", "writing", "failed"}, config : Configs,
                                     override : OverrideChanges, maxMode : Flags]
           /\ NoPatch(phase, o).phase = phase
BY EmptyIs DEF NoPatch, Flags

LEMMA AdminInit ==
    ASSUME AdminConstants, ManagementInit
    PROVE  AdminInv
<1>1. PICK env \in Environments, credentials \in SUBSET ConfigCredential,
           overrides \in SeqOf([id : OverrideIds, enabled : {"true", "false"}], 2) :
        LET stored == [EmptyConfig EXCEPT !.credentials = credentials,
                                          !.overrides = overrides]
        IN /\ Cardinality(credentials) <= 1 /\ ValidConfig(stored)
           /\ adminFile = [intact |-> TRUE, config |-> stored]
           /\ adminEnv = env
           /\ admin = [running |-> TRUE, config |-> stored,
                       effective |-> Effective(env.key, stored),
                       policy |-> LoadedPolicy(stored),
                       maxMode |-> LoadedMaxMode(env, stored)]
           /\ modelPolicy = Migrated(overrides)
           /\ backendConfig = [credentials |-> Effective(env.key, stored),
                               policy |-> LoadedPolicy(stored),
                               maxMode |-> LoadedMaxMode(env, stored)]
           /\ patch = NoPatch("idle", NoOverride)
  BY DEF ManagementInit
<1> DEFINE stored == [EmptyConfig EXCEPT !.credentials = credentials,
                                         !.overrides = overrides]
<1>3. /\ ValidConfig(stored)
      /\ adminFile = [intact |-> TRUE, config |-> stored]
      /\ adminEnv = env
      /\ admin = [running |-> TRUE, config |-> stored,
                  effective |-> Effective(env.key, stored),
                  policy |-> LoadedPolicy(stored),
                  maxMode |-> LoadedMaxMode(env, stored)]
      /\ modelPolicy = Migrated(overrides)
      /\ backendConfig = [credentials |-> Effective(env.key, stored),
                          policy |-> LoadedPolicy(stored),
                          maxMode |-> LoadedMaxMode(env, stored)]
      /\ patch = NoPatch("idle", NoOverride)
  BY <1>1
<1>2. EmptyConfig \in Configs /\ EmptyConfig.maxMode = "unset"
  BY EmptyIs DEF EmptyConfig
<1>4. /\ stored.credentials = credentials /\ stored.overrides = overrides
      /\ stored.maxMode = "unset"
  BY <1>2 DEF Configs
<1>5. credentials \in CredentialSets
  BY <1>3, <1>4 DEF ValidConfig, CredentialSets
<1>6. overrides \in OverrideLists
  <2>1. PICK m \in 0..2 : overrides \in [1..m -> Override]
    BY DEF SeqOf, Override
  <2>2. overrides \in Seq(Override) /\ DOMAIN overrides = 1..m
    BY <2>1
  <2>3. ASSUME NEW i \in 1..m, NEW j \in 1..m, overrides[i].id = overrides[j].id
        PROVE  i = j
    <3>1. \A x \in 1..m : \A y \in 1..(x - 1) : overrides[x].id # overrides[y].id
      BY <1>3, <1>4, <2>2 DEF ValidConfig
    <3>2. ~(i < j) /\ ~(j < i)
      BY <2>3, <3>1
    <3>3. QED
      BY <3>2
  <2>4. QED
    BY <2>2, <2>3 DEF OverrideLists
<1>7. stored \in Configs
  BY <1>2, <1>5, <1>6 DEF Configs
<1> HIDE DEF stored
<1>8. NoOverride \in OverrideChanges
  BY DEF OverrideChanges
<1>9. AdminStates
  BY <1>3, <1>4, <1>7, <1>8, LoadedAre, NoPatchIs DEF AdminStates
<1>10. InForce
  BY <1>3, <1>4 DEF InForce, LoadedMaxMode
<1>11. PatchOnItsWay
  BY <1>3, <1>8, NoPatchIs DEF PatchOnItsWay
<1>12. QED
  BY <1>9, <1>10, <1>11 DEF AdminInv

LEMMA PatchConfigKeeps ==
    ASSUME AdminConstants, AdminInv, NEW updates \in Seq(CredentialUpdates),
           NEW override \in OverrideChanges, NEW policy \in AdminPolicies \cup {"none"},
           NEW maxMode \in Flags, PatchConfig(updates, override, policy, maxMode)
    PROVE  AdminInv'
<1> DEFINE stored == admin.config
           base == [credentials |-> stored.credentials, envPlan |-> stored.envPlan,
                    refused |-> FALSE]
           work == FoldLeft(Updated, base, updates)
           next == [credentials |-> work.credentials, envPlan |-> work.envPlan,
                    policy |-> IF policy = "none" THEN stored.policy ELSE policy,
                    maxMode |-> IF maxMode = "unset" THEN stored.maxMode ELSE maxMode,
                    overrides |-> WithOverride(stored.overrides, override)]
<1>1. /\ admin.running
      /\ patch' = [phase |-> "writing", override |-> override, maxMode |-> maxMode,
                   config |-> next]
      /\ UNCHANGED <<adminFile, adminEnv, admin, modelPolicy, backendConfig>>
  BY DEF PatchConfig
<1>2. /\ stored.credentials \in CredentialSets /\ stored.envPlan \in AdminPlans \cup {"none"}
      /\ stored.policy \in AdminPolicies \cup {"default"} /\ stored.maxMode \in Flags
      /\ stored.overrides \in OverrideLists
  BY DEF AdminInv, AdminStates, Configs
<1>3. base \in Works
  BY <1>2 DEF Works
<1>4. work \in Works
  <2> HIDE DEF base
  <2>1. QED
    BY <1>3, AllUpdatedIs
<1>5. WithOverride(stored.overrides, override) \in OverrideLists
  BY <1>2, WithOverrideIs
<1> HIDE DEF work, base
<1>6. next \in Configs
  BY <1>2, <1>4, <1>5 DEF Configs, Works
<1>7. next.maxMode = IF maxMode = "unset" THEN stored.maxMode ELSE maxMode
  OBVIOUS
<1> HIDE DEF next
<1>8. AdminStates'
  BY <1>1, <1>6 DEF AdminInv, AdminStates
<1>9. InForce'
  BY <1>1 DEF AdminInv, InForce
<1>10. PatchOnItsWay'
  BY <1>1, <1>7 DEF PatchOnItsWay
<1>11. QED
  BY <1>8, <1>9, <1>10 DEF AdminInv

LEMMA PatchAppliesKeeps ==
    ASSUME AdminConstants, AdminInv, PatchApplies
    PROVE  AdminInv'
<1> DEFINE effective == Effective(adminEnv.key, patch.config)
<1>1. AdminStates /\ InForce /\ PatchOnItsWay
  BY DEF AdminInv
<1>2. admin.config \in Configs /\ patch.config \in Configs /\ adminEnv \in Environments
  BY <1>1 DEF AdminStates
<1>3. EnvKeyOf(admin.effective) = adminEnv.key
  <2>1. adminEnv.key \in AdminKeys \cup {"none"}
    BY <1>2 DEF Environments
  <2>2. admin.effective = Effective(adminEnv.key, admin.config)
    BY <1>1 DEF InForce
  <2>3. QED
    BY <1>2, <2>1, <2>2, EnvKeyIs
<1>4. /\ patch.phase = "writing"
      /\ adminFile' = [intact |-> TRUE, config |-> patch.config]
      /\ admin' = [admin EXCEPT !.config = patch.config, !.effective = effective,
                                !.policy = LoadedPolicy(patch.config),
                                !.maxMode = PatchedMaxMode]
      /\ backendConfig' = [credentials |-> effective, policy |-> LoadedPolicy(patch.config),
                           maxMode |-> PatchedMaxMode]
      /\ modelPolicy' = Migrated(patch.config.overrides)
      /\ patch' = NoPatch("idle", patch.override)
      /\ adminEnv' = adminEnv
  BY <1>3 DEF PatchApplies, EnvKeyOf
<1>5. /\ effective \in SUBSET Effectives /\ LoadedPolicy(patch.config) \in AdminPolicies
      /\ Migrated(patch.config.overrides) \in [Families -> Decisions]
  BY <1>2, LoadedAre
<1>6. PatchedMaxMode \in BOOLEAN
  BY <1>1 DEF PatchedMaxMode, AdminStates
<1>7. /\ admin'.running = admin.running /\ admin'.config = patch.config
      /\ admin'.effective = effective /\ admin'.policy = LoadedPolicy(patch.config)
      /\ admin'.maxMode = PatchedMaxMode
      /\ admin' \in [running : BOOLEAN, config : Configs, effective : SUBSET Effectives,
                     policy : AdminPolicies, maxMode : BOOLEAN]
  <2> HIDE DEF effective
  <2>1. QED
    BY <1>1, <1>2, <1>4, <1>5, <1>6 DEF AdminStates
<1>8. /\ patch' \in [phase : {"idle", "writing", "failed"}, config : Configs,
                     override : OverrideChanges, maxMode : Flags]
      /\ patch'.phase = "idle"
  <2>1. patch.override \in OverrideChanges
    BY <1>1 DEF AdminStates
  <2>2. QED
    BY <1>4, <2>1, NoPatchIs
<1>9. AdminStates'
  <2> HIDE DEF effective
  <2>1. backendConfig' \in [credentials : SUBSET Effectives, policy : AdminPolicies,
                            maxMode : BOOLEAN]
    BY <1>4, <1>5, <1>6
  <2>2. adminFile' \in [intact : BOOLEAN, config : Configs]
    BY <1>2, <1>4
  <2>3. QED
    BY <1>2, <1>4, <1>5, <1>7, <1>8, <2>1, <2>2 DEF AdminStates
<1>10. adminEnv.maxMode = "unset" => PatchedMaxMode = (patch.config.maxMode = "true")
  BY <1>1, <1>4 DEF PatchedMaxMode, InForce, PatchOnItsWay
<1>11. InForce'
  <2>1. /\ admin'.effective = Effective(adminEnv'.key, admin'.config)
        /\ admin'.policy = LoadedPolicy(admin'.config)
        /\ modelPolicy' = Migrated(admin'.config.overrides)
        /\ adminEnv'.maxMode = "unset" => admin'.maxMode = (admin'.config.maxMode = "true")
        /\ backendConfig' = [credentials |-> admin'.effective, policy |-> admin'.policy,
                             maxMode |-> admin'.maxMode]
    BY <1>4, <1>7, <1>10
  <2>2. QED
    BY <2>1 DEF InForce
<1>12. PatchOnItsWay'
  BY <1>4, <1>7, <1>8 DEF PatchOnItsWay
<1>13. QED
  BY <1>9, <1>11, <1>12 DEF AdminInv

LEMMA WriteOutcomesAre ==
    ASSUME AdminInv
    PROVE  WriteOutcomes \subseteq [intact : BOOLEAN, config : Configs]
<1>1. adminFile \in [intact : BOOLEAN, config : Configs] /\ patch.config \in Configs
  BY DEF AdminInv, AdminStates
<1>2. /\ [adminFile EXCEPT !.intact = FALSE] \in [intact : BOOLEAN, config : Configs]
      /\ [intact |-> TRUE, config |-> patch.config] \in [intact : BOOLEAN, config : Configs]
  BY <1>1
<1>3. QED
  BY <1>1, <1>2 DEF WriteOutcomes

LEMMA PatchWriteFailsKeeps ==
    ASSUME AdminConstants, AdminInv, PatchWriteFails
    PROVE  AdminInv'
<1>1. /\ adminFile' \in WriteOutcomes /\ patch' = NoPatch("failed", NoOverride)
      /\ UNCHANGED <<adminEnv, admin, modelPolicy, backendConfig>>
  BY DEF PatchWriteFails
<1>2. NoOverride \in OverrideChanges
  BY DEF OverrideChanges
<1>3. /\ patch' \in [phase : {"idle", "writing", "failed"}, config : Configs,
                     override : OverrideChanges, maxMode : Flags]
      /\ patch'.phase = "failed"
  BY <1>1, <1>2, NoPatchIs
<1>4. AdminStates'
  BY <1>1, <1>3, WriteOutcomesAre DEF AdminInv, AdminStates
<1>5. InForce'
  BY <1>1 DEF AdminInv, InForce
<1>6. QED
  BY <1>3, <1>4, <1>5 DEF AdminInv, PatchOnItsWay

LEMMA BridgeStopsKeeps ==
    ASSUME AdminConstants, AdminInv, BridgeStops
    PROVE  AdminInv'
<1>1. /\ admin' = [admin EXCEPT !.running = FALSE] /\ patch' = NoPatch("idle", NoOverride)
      /\ adminFile' \in WriteOutcomes \/ adminFile' = adminFile
      /\ UNCHANGED <<adminEnv, modelPolicy, backendConfig>>
  BY DEF BridgeStops
<1>2. NoOverride \in OverrideChanges
  BY DEF OverrideChanges
<1>3. /\ patch' \in [phase : {"idle", "writing", "failed"}, config : Configs,
                     override : OverrideChanges, maxMode : Flags]
      /\ patch'.phase = "idle"
  BY <1>1, <1>2, NoPatchIs
<1>4. /\ ~admin'.running /\ admin'.config = admin.config /\ admin'.effective = admin.effective
      /\ admin'.policy = admin.policy /\ admin'.maxMode = admin.maxMode
      /\ admin' \in [running : BOOLEAN, config : Configs, effective : SUBSET Effectives,
                     policy : AdminPolicies, maxMode : BOOLEAN]
  BY <1>1 DEF AdminInv, AdminStates
<1>5. adminFile' \in [intact : BOOLEAN, config : Configs]
  BY <1>1, WriteOutcomesAre DEF AdminInv, AdminStates
<1>6. AdminStates'
  BY <1>1, <1>3, <1>4, <1>5 DEF AdminInv, AdminStates
<1>7. InForce'
  BY <1>1, <1>4 DEF AdminInv, InForce
<1>8. QED
  BY <1>3, <1>4, <1>6, <1>7 DEF AdminInv, PatchOnItsWay

LEMMA StartBridgeKeeps ==
    ASSUME AdminConstants, AdminInv, NEW env \in Environments, StartBridge(env)
    PROVE  AdminInv'
<1> DEFINE stored == FileConfig(adminFile)
<1>1. stored \in Configs /\ (adminFile.intact => stored = adminFile.config)
  BY EmptyIs DEF FileConfig, AdminInv, AdminStates
<1>2. /\ adminEnv' = env /\ adminFile' = adminFile
      /\ admin' = [running |-> TRUE, config |-> stored,
                   effective |-> Effective(env.key, stored),
                   policy |-> LoadedPolicy(stored), maxMode |-> LoadedMaxMode(env, stored)]
      /\ modelPolicy' = Migrated(stored.overrides)
      /\ backendConfig' = [credentials |-> Effective(env.key, stored),
                           policy |-> LoadedPolicy(stored),
                           maxMode |-> LoadedMaxMode(env, stored)]
      /\ patch' = NoPatch("idle", NoOverride)
  BY DEF StartBridge, Loaded
<1> HIDE DEF stored
<1>3. NoOverride \in OverrideChanges
  BY DEF OverrideChanges
<1>4. /\ patch' \in [phase : {"idle", "writing", "failed"}, config : Configs,
                     override : OverrideChanges, maxMode : Flags]
      /\ patch'.phase = "idle"
  BY <1>2, <1>3, NoPatchIs
<1>5. AdminStates'
  BY <1>1, <1>2, <1>4, LoadedAre DEF AdminInv, AdminStates
<1>6. InForce'
  BY <1>2 DEF InForce, LoadedMaxMode
<1>7. PatchOnItsWay'
  BY <1>1, <1>2, <1>4 DEF PatchOnItsWay
<1>8. QED
  BY <1>5, <1>6, <1>7 DEF AdminInv

LEMMA AdminKeeps ==
    ASSUME AdminConstants, AdminInv, [ManagementNext]_managementVars
    PROVE  AdminInv'
<1>1. ASSUME NEW updates \in SeqOf(CredentialUpdates, MaxUpdates),
             PatchConfig(updates, NoOverride, "none", "unset")
      PROVE  AdminInv'
  <2>1. PICK m \in 0..MaxUpdates : updates \in [1..m -> CredentialUpdates]
    BY DEF SeqOf
  <2>2. updates \in Seq(CredentialUpdates)
    BY <2>1 DEF AdminConstants
  <2>3. NoOverride \in OverrideChanges /\ "unset" \in Flags
    BY DEF OverrideChanges, Flags
  <2>4. QED
    BY <1>1, <2>2, <2>3, PatchConfigKeeps
<1>2. ASSUME NEW override \in OverrideChanges, NEW policy \in AdminPolicies \cup {"none"},
             NEW maxMode \in Flags, PatchConfig(<<>>, override, policy, maxMode)
      PROVE  AdminInv'
  <2>1. <<>> \in Seq(CredentialUpdates)
    OBVIOUS
  <2>2. QED
    BY <1>2, <2>1, PatchConfigKeeps
<1>3. ASSUME UNCHANGED managementVars PROVE AdminInv'
  BY <1>3 DEF managementVars, AdminInv, AdminStates, InForce, PatchOnItsWay
<1>4. QED
  BY <1>1, <1>2, <1>3, PatchAppliesKeeps, PatchWriteFailsKeeps, BridgeStopsKeeps,
     StartBridgeKeeps DEF ManagementNext

LEMMA ConfigsAreValid ==
    ASSUME NEW c \in Configs
    PROVE  ValidConfig(c)
<1>1. /\ c.credentials \in CredentialSets /\ c.envPlan \in AdminPlans \cup {"none"}
      /\ c.policy \in AdminPolicies \cup {"default"} /\ c.maxMode \in Flags
      /\ c.overrides \in OverrideLists
  BY DEF Configs
<1>2. ASSUME NEW i \in DOMAIN c.overrides
      PROVE  /\ c.overrides[i] \in Override
             /\ \A j \in 1..(i - 1) : c.overrides[i].id # c.overrides[j].id
  <2>1. i \in 1..Len(c.overrides) /\ Len(c.overrides) \in Nat
    BY <1>1, OverrideListIs
  <2>2. \A j \in 1..(i - 1) : j \in 1..Len(c.overrides) /\ j # i
    BY <2>1
  <2>3. QED
    BY <1>1, <2>1, <2>2, OverrideListIs
<1>3. QED
  BY <1>1, <1>2 DEF ValidConfig, CredentialSets, Override

\* Whatever patches, failed writes, ends of the process and restarts led here, what the
\* dashboard shows is what the backend was told and what a restart would load, and the file
\* that is written stays one that can be read.
THEOREM RestartLoadsWhatIsShown ==
    ASSUME AdminConstants
    PROVE  ManagementSpec => []ManagementSound
<1>1. ManagementInit => AdminInv
  BY AdminInit
<1>2. AdminInv /\ [ManagementNext]_managementVars => AdminInv'
  BY AdminKeeps
<1>3. AdminInv => ManagementSound
  <2> SUFFICES ASSUME AdminInv PROVE ManagementSound
    OBVIOUS
  <2>1. ValidConfig(adminFile.config) /\ ValidConfig(admin.config) /\ ValidConfig(patch.config)
    BY ConfigsAreValid DEF AdminInv, AdminStates
  <2>2. ManagementTypeOK
    BY <2>1 DEF ManagementTypeOK, AdminInv, AdminStates
  <2>3. RestartKeepsConfig
    BY DEF RestartKeepsConfig, AdminInv, InForce, PatchOnItsWay, LoadedMaxMode
  <2>4. QED
    BY <2>2, <2>3 DEF ManagementSound
<1>4. QED
  BY <1>1, <1>2, <1>3, PTL DEF ManagementSpec

-----------------------------------------------------------------------------
(***************************************************************************)
(* Native context: files are read within the limits of their reader,       *)
(* whoever asks for them and whatever is asked for at once, and a load is  *)
(* ready when it has all it wants.                                         *)
(*                                                                         *)
(* What a reader has counted is the sum over its cache (ReaderFine), a     *)
(* read says what it still awaits (ReadFine), and a load reads every       *)
(* plugin it wants (LoadFine). Sums over a set are folds, which FoldLemmas *)
(* reasons about.                                                          *)
(***************************************************************************)

-----------------------------------------------------------------------------
(* The bytes a reader keeps                                               *)

Kept(urls) == FoldSet(AddBytes, 0, urls)

\* What a fold over a set of urls adds up, in whatever order it takes them.
LEMMA KeptIs ==
    ASSUME NEW S, IsFiniteSet(S), NEW g, Additive(g, SizeOf, S), NEW T \in SUBSET S
    PROVE  Kept(T) = g[T]
<1> DEFINE Folds(h) == h = [s \in SUBSET T |->
                              IF s = {} THEN 0
                              ELSE AddBytes(CHOOSE x \in s : TRUE, h[s \ {CHOOSE x \in s : TRUE}])]
           k == [s \in SUBSET T |-> g[s]]
<1>1. /\ g[{}] = 0 /\ \A t \in SUBSET S : \A x \in t : g[t] = g[t \ {x}] + SizeOf[x]
  BY DEF Additive
<1>2. ASSUME NEW s \in SUBSET T, s # {}
      PROVE  /\ (CHOOSE x \in s : TRUE) \in s /\ s \ {CHOOSE x \in s : TRUE} \in SUBSET T
             /\ s \in SUBSET S
  BY <1>2
<1>3. Folds(k)
  <2> DEFINE one(s) == CHOOSE x \in s : TRUE
  <2>1. ASSUME NEW s \in SUBSET T, s # {}
        PROVE  k[s] = AddBytes(one(s), k[s \ {one(s)}])
    <3>1. one(s) \in s /\ s \ {one(s)} \in SUBSET T /\ s \in SUBSET S
      BY <1>2, <2>1
    <3> HIDE DEF one
    <3>2. k[s] = g[s] /\ k[s \ {one(s)}] = g[s \ {one(s)}]
      BY <3>1
    <3>3. QED
      BY <1>1, <3>1, <3>2 DEF AddBytes
  <2>2. ASSUME NEW s \in SUBSET T
        PROVE  k[s] = IF s = {} THEN 0 ELSE AddBytes(one(s), k[s \ {one(s)}])
    <3> HIDE DEF one, k
    <3>1. k[{}] = 0
      BY <1>1 DEF k
    <3>2. QED
      BY <2>1, <3>1
  <2>3. k = [s \in SUBSET T |-> k[s]]
    OBVIOUS
  <2> HIDE DEF k
  <2>4. k = [s \in SUBSET T |-> IF s = {} THEN 0 ELSE AddBytes(one(s), k[s \ {one(s)}])]
    BY <2>2, <2>3
  <2>5. QED
    BY <2>4
<1>4. PICK h : Folds(h) /\ Kept(T) = h[T]
  <2>1. \E h : Folds(h) /\ Kept(T) = h[T]
    BY <1>3 DEF Kept, FoldSet, MapThenFoldSet
  <2>2. QED
    BY <2>1
<1>5. \A s \in SUBSET T : IsFiniteSet(s) /\ Cardinality(s) \in Nat
  BY FS_Subset, FS_CardinalityType
<1> DEFINE Ns == {n \in Nat : \A s \in SUBSET T : Cardinality(s) = n => h[s] = g[s]}
<1>6. 0 \in Ns
  <2>1. \A s \in SUBSET T : Cardinality(s) = 0 => s = {}
    BY <1>5, FS_EmptySet
  <2>2. h[{}] = 0
    BY <1>4
  <2>3. QED
    BY <1>1, <2>1, <2>2
<1>7. ASSUME NEW n \in Nat, n \in Ns PROVE n + 1 \in Ns
  <2>1. SUFFICES ASSUME NEW s \in SUBSET T, Cardinality(s) = n + 1 PROVE h[s] = g[s]
    OBVIOUS
  <2> DEFINE c == CHOOSE x \in s : TRUE
  <2>2. s # {}
    BY <2>1, FS_EmptySet
  <2>3. c \in s /\ s \ {c} \in SUBSET T /\ s \in SUBSET S
    BY <1>2, <2>2
  <2>4. h[s] = AddBytes(c, h[s \ {c}])
    BY <1>4, <2>2
  <2> HIDE DEF c
  <2>5. Cardinality(s \ {c}) = n
    BY <1>5, <2>1, <2>3, FS_RemoveElement
  <2>6. h[s \ {c}] = g[s \ {c}]
    BY <1>7, <2>3, <2>5
  <2>7. QED
    BY <1>1, <2>3, <2>4, <2>6 DEF AddBytes
<1> HIDE DEF Ns
<1>8. Cardinality(T) \in Ns
  BY <1>5, <1>6, <1>7, AllNumbers
<1>9. QED
  BY <1>4, <1>8 DEF Ns

LEMMA KeptGrows ==
    ASSUME SizeOf \in [Sources -> Nat], NEW T \in SUBSET Sources, IsFiniteSet(T),
           NEW url \in Sources
    PROVE  /\ Kept(T) \in Nat /\ Kept({}) = 0
           /\ Kept(T \cup {url}) \in Nat /\ Kept(T \cup {url}) <= Kept(T) + SizeOf[url]
<1> DEFINE S == T \cup {url}
<1>1. IsFiniteSet(S)
  BY FS_AddElement
<1>2. PICK g : Additive(g, SizeOf, S)
  <2>1. \A x \in S : SizeOf[x] \in Nat
    OBVIOUS
  <2> HIDE DEF S
  <2>2. QED
    BY <1>1, <2>1, AdditiveExists
<1>3. T \in SUBSET S /\ {} \in SUBSET S /\ S \in SUBSET S /\ url \in S
  OBVIOUS
<1> HIDE DEF S
<1>4. Kept(T) = g[T] /\ Kept({}) = g[{}] /\ Kept(S) = g[S]
  BY <1>1, <1>2, <1>3, KeptIs
<1>5. g[T] \in Nat /\ g[{}] = 0 /\ g[S] \in Nat
  BY <1>2, <1>3 DEF Additive
<1>6. g[S] = g[S \ {url}] + SizeOf[url]
  BY <1>2, <1>3 DEF Additive
<1>7. S \ {url} = T \/ S = T
  BY DEF S
<1>8. SizeOf[url] \in Nat
  OBVIOUS
<1>9. g[S] <= g[T] + SizeOf[url]
  BY <1>5, <1>6, <1>7, <1>8
<1>10. QED
  BY <1>4, <1>5, <1>9 DEF S

-----------------------------------------------------------------------------
(* A reader and its reads                                                  *)

ReadPhases == {"unused", "waiting", "fetching", "done", "failed"}

ReadRecord ==
    [url : Sources \cup {"none"}, kind : {"unused", "declared", "served"}, phase : ReadPhases,
     racing : SUBSET Reads, woken : BOOLEAN, fetched : BOOLEAN,
     why : {"none", "files", "bytes", "source", "aborted"},
     reply : {"none", "success", "error", "rejected", "routed", "dropped"}]

ReadingsType ==
    [reader : [cache : SUBSET Sources, attempts : Nat, total : Nat], read : [Reads -> ReadRecord]]

FetchedIn(s) == {r \in Reads : s.read[r].fetched}

\* One read, of the readings s: x is what the read is.
ReadFine(s, x) ==
    /\ x.phase = "unused" => x = NoRead
    /\ x.phase = "fetching" => x.fetched /\ x.url \in Sources
    /\ x.phase = "waiting" => /\ x.url \in Sources /\ ~x.fetched /\ x.why = "none"
                              /\ x.woken \/ x.racing \cap ActiveIn(s) # {}
    /\ x.phase \in {"waiting", "fetching"} => x.reply = "none"
    /\ x.why \in {"source", "bytes"} => x.fetched
    /\ x.phase = "done" /\ x.url \in Sources => x.url \in s.reader.cache
    /\ x.reply = "success" => x.phase = "done"
    /\ x.reply = "error" => x.phase = "failed"

\* The reader keeps within its limits.
ReaderFine(s) ==
    /\ IsFiniteSet(s.reader.cache)
    /\ \A url \in s.reader.cache : SizeOf[url] <= MaxBytes
    /\ Kept(s.reader.cache) <= MaxTotalBytes /\ Kept(s.reader.cache) <= s.reader.total
    /\ Cardinality(FetchedIn(s)) <= MaxFiles /\ Cardinality(FetchedIn(s)) <= s.reader.attempts
    /\ Cardinality(ActiveIn(s)) <= ActiveLimit

Fine(s) ==
    /\ s \in ReadingsType /\ ReaderFine(s)
    /\ \A r \in Reads : ReadFine(s, s.read[r])

\* What the reads of s were asked for is what those of t are.
SameReads(s, t) ==
    \A r \in Reads : /\ t.read[r].url = s.read[r].url /\ t.read[r].kind = s.read[r].kind
                     /\ t.read[r].phase = "unused" <=> s.read[r].phase = "unused"

LEMMA Numbers ==
    ASSUME NativeConstants
    PROVE  /\ MaxReads \in Nat /\ ActiveLimit \in Nat /\ MaxFiles \in Nat /\ MaxBytes \in Nat
           /\ MaxTotalBytes \in Nat /\ ActiveLimit # 0 /\ MaxReads # 0
           /\ SizeOf \in [Sources -> Nat] /\ "none" \notin Sources
BY DEF NativeConstants

LEMMA PartsOfReads ==
    ASSUME NativeConstants, NEW T \in SUBSET Reads
    PROVE  IsFiniteSet(T) /\ Cardinality(T) \in Nat
<1>1. IsFiniteSet(Reads)
  BY Numbers, FS_Interval DEF Reads
<1>2. QED
  BY <1>1, FS_Subset, FS_CardinalityType

\* Reads that are over are no longer raced, and whoever raced one has been woken.
LEMMA OverKeeps ==
    ASSUME NativeConstants, NEW s, s \in ReadingsType, ReaderFine(s),
           NEW rs \in SUBSET Reads, NEW phase \in {"done", "failed"},
           NEW why \in {"none", "bytes", "source", "aborted"},
           \A r \in Reads \ rs : ReadFine(s, s.read[r]),
           \A r \in rs : s.read[r].reply \notin {"success", "error"},
           phase = "done" => \A r \in rs : s.read[r].url \in s.reader.cache,
           why \in {"source", "bytes"} => \A r \in rs : s.read[r].fetched,
           \A r \in rs : s.read[r].phase # "unused"
    PROVE  /\ Fine(Over(s, rs, phase, why))
           /\ SameReads(s, Over(s, rs, phase, why))
           /\ Over(s, rs, phase, why).reader = s.reader
<1> DEFINE t == Over(s, rs, phase, why)
           over(r) == [s.read[r] EXCEPT !.phase = phase, !.why = why, !.racing = {}]
           woken(r) == [s.read[r] EXCEPT !.woken = TRUE]
<1>1. /\ s.reader \in [cache : SUBSET Sources, attempts : Nat, total : Nat]
      /\ s.read \in [Reads -> ReadRecord]
  BY DEF ReadingsType
<1>2. /\ t.reader = s.reader
      /\ t.read = [q \in Reads |->
                     IF q \in rs THEN over(q)
                     ELSE IF s.read[q].phase = "waiting" /\ s.read[q].racing \cap rs # {}
                          THEN woken(q) ELSE s.read[q]]
      /\ t = [reader |-> t.reader, read |-> t.read]
  <2> DEFINE f == [q \in Reads |->
                     IF q \in rs THEN over(q)
                     ELSE IF s.read[q].phase = "waiting" /\ s.read[q].racing \cap rs # {}
                          THEN woken(q) ELSE s.read[q]]
  <2>1. t = [s EXCEPT !.read = f]
    BY DEF Over
  <2> HIDE DEF f, t
  <2>2. t.reader = s.reader /\ t.read = f /\ t = [reader |-> t.reader, read |-> t.read]
    BY <2>1 DEF ReadingsType
  <2>3. QED
    BY <2>2 DEF f
<1>3. ASSUME NEW q \in Reads
      PROVE  /\ over(q) \in ReadRecord /\ over(q).phase = phase /\ over(q).why = why
             /\ over(q).url = s.read[q].url /\ over(q).kind = s.read[q].kind
             /\ over(q).fetched = s.read[q].fetched /\ over(q).reply = s.read[q].reply
             /\ woken(q) \in ReadRecord /\ woken(q).phase = s.read[q].phase
             /\ woken(q).why = s.read[q].why /\ woken(q).url = s.read[q].url
             /\ woken(q).kind = s.read[q].kind /\ woken(q).woken
             /\ woken(q).fetched = s.read[q].fetched /\ woken(q).reply = s.read[q].reply
  <2>1. s.read[q] \in ReadRecord
    BY <1>1
  <2>2. QED
    BY <2>1 DEF ReadRecord, ReadPhases
<1> HIDE DEF over, woken, t
<1>4. t.read \in [Reads -> ReadRecord] /\ t \in ReadingsType
  <2>1. \A q \in Reads : s.read[q] \in ReadRecord
    BY <1>1
  <2>2. t.read \in [Reads -> ReadRecord]
    BY <1>2, <1>3, <2>1
  <2>3. QED
    BY <1>1, <1>2, <2>2 DEF ReadingsType
<1>5. \A q \in Reads : q \in rs => t.read[q] = over(q)
  BY <1>2
<1>6. \A q \in Reads : q \notin rs /\ s.read[q].phase = "waiting" /\ s.read[q].racing \cap rs # {}
                       => t.read[q] = woken(q)
  BY <1>2
<1>7. \A q \in Reads : q \notin rs /\ ~(s.read[q].phase = "waiting" /\ s.read[q].racing \cap rs # {})
                       => t.read[q] = s.read[q]
  BY <1>2
<1>8. ASSUME NEW q \in Reads
      PROVE  /\ t.read[q].fetched = s.read[q].fetched
             /\ t.read[q].url = s.read[q].url /\ t.read[q].kind = s.read[q].kind
             /\ t.read[q].phase = IF q \in rs THEN phase ELSE s.read[q].phase
  BY <1>3, <1>5, <1>6, <1>7
<1>9. FetchedIn(t) = FetchedIn(s)
  BY <1>8 DEF FetchedIn
<1>10. ActiveIn(t) = ActiveIn(s) \ rs
  BY <1>8 DEF ActiveIn
<1>11. Cardinality(ActiveIn(t)) <= ActiveLimit
  <2>1. ActiveIn(s) \in SUBSET Reads
    BY DEF ActiveIn
  <2>2. IsFiniteSet(ActiveIn(s)) /\ Cardinality(ActiveIn(s)) \in Nat
    BY <2>1, PartsOfReads
  <2>3. ActiveIn(t) \in SUBSET ActiveIn(s) /\ ActiveIn(t) \in SUBSET Reads
    BY <1>10, <2>1
  <2>4. Cardinality(ActiveIn(t)) <= Cardinality(ActiveIn(s)) /\ Cardinality(ActiveIn(t)) \in Nat
    BY <2>2, <2>3, PartsOfReads, FS_Subset
  <2>5. Cardinality(ActiveIn(s)) <= ActiveLimit
    BY DEF ReaderFine
  <2>6. QED
    BY <2>2, <2>4, <2>5, Numbers
<1>12. ReaderFine(t)
  BY <1>2, <1>9, <1>11 DEF ReaderFine
<1>13. ASSUME NEW q \in Reads PROVE ReadFine(t, t.read[q])
  <2>1. CASE q \in rs
    <3>1. /\ t.read[q].phase = phase /\ t.read[q].why = why /\ t.read[q].url = s.read[q].url
          /\ t.read[q].fetched = s.read[q].fetched /\ t.read[q].reply = s.read[q].reply
      BY <1>3, <1>5, <2>1
    <3>2. QED
      BY <1>2, <2>1, <3>1 DEF ReadFine
  <2>2. CASE q \notin rs /\ s.read[q].phase = "waiting" /\ s.read[q].racing \cap rs # {}
    <3>1. t.read[q] = woken(q) /\ ReadFine(s, s.read[q])
      BY <1>6, <2>2
    <3>2. QED
      BY <1>3, <2>2, <3>1 DEF ReadFine
  <2>3. CASE q \notin rs /\ ~(s.read[q].phase = "waiting" /\ s.read[q].racing \cap rs # {})
    <3>1. t.read[q] = s.read[q] /\ ReadFine(s, s.read[q])
      BY <1>7, <2>3
    <3>2. s.read[q].phase = "waiting" => s.read[q].racing \cap ActiveIn(s) \subseteq ActiveIn(t)
      BY <1>10, <2>3
    <3>3. QED
      BY <1>2, <3>1, <3>2 DEF ReadFine
  <2>4. QED
    BY <2>1, <2>2, <2>3
<1>14. Fine(t)
  BY <1>4, <1>12, <1>13 DEF Fine
<1>15. SameReads(s, t)
  <2>1. \A q \in Reads : t.read[q].phase = "unused" <=> s.read[q].phase = "unused"
    BY <1>8
  <2>2. QED
    BY <1>8, <2>1 DEF SameReads
<1>16. QED
  BY <1>2, <1>14, <1>15 DEF t

\* The readings s with y for the read r, after n attempts.
Put(s, r, y, n) ==
    [reader |-> [s.reader EXCEPT !.attempts = n], read |-> [s.read EXCEPT ![r] = y]]

LEMMA PutIs ==
    ASSUME NEW s, s \in ReadingsType, NEW r \in Reads, NEW y \in ReadRecord, NEW n \in Nat
    PROVE  /\ Put(s, r, y, n) \in ReadingsType
           /\ Put(s, r, y, n).reader.cache = s.reader.cache
           /\ Put(s, r, y, n).reader.total = s.reader.total
           /\ Put(s, r, y, n).reader.attempts = n
           /\ Put(s, r, y, n).read[r] = y
           /\ \A q \in Reads : q # r => Put(s, r, y, n).read[q] = s.read[q]
<1>1. /\ s.reader \in [cache : SUBSET Sources, attempts : Nat, total : Nat]
      /\ s.read \in [Reads -> ReadRecord]
  BY DEF ReadingsType
<1> DEFINE reads == [s.read EXCEPT ![r] = y]
           counts == [s.reader EXCEPT !.attempts = n]
<1>2. reads \in [Reads -> ReadRecord] /\ reads[r] = y /\ \A q \in Reads : q # r => reads[q] = s.read[q]
  BY <1>1
<1>3. /\ counts \in [cache : SUBSET Sources, attempts : Nat, total : Nat]
      /\ counts.cache = s.reader.cache /\ counts.total = s.reader.total /\ counts.attempts = n
  BY <1>1
<1>4. Put(s, r, y, n) = [reader |-> counts, read |-> reads]
  BY DEF Put
<1> HIDE DEF reads, counts
<1>5. QED
  BY <1>2, <1>3, <1>4 DEF ReadingsType

LEMMA PutKeeps ==
    ASSUME NativeConstants, NEW s, Fine(s), NEW r \in Reads,
           s.read[r].phase \in {"unused", "waiting"},
           NEW y \in ReadRecord, NEW n \in Nat, s.reader.attempts <= n,
           y.phase # "unused", y.reply \notin {"success", "error"},
           y.phase \in {"waiting", "fetching"} => y.reply = "none",
           y.why \in {"none", "files", "aborted"},
           y.fetched => y.phase = "fetching",
           y.phase = "fetching" => /\ y.fetched /\ y.url \in Sources
                                   /\ Cardinality(ActiveIn(s)) < ActiveLimit
                                   /\ n = s.reader.attempts + 1 /\ n <= MaxFiles,
           y.phase = "waiting" => /\ y.url \in Sources /\ y.why = "none"
                                  /\ y.racing = ActiveIn(s) /\ ActiveIn(s) # {},
           y.phase = "done" /\ y.url \in Sources => y.url \in s.reader.cache
    PROVE  Fine(Put(s, r, y, n))
<1> DEFINE t == Put(s, r, y, n)
<1>1. s \in ReadingsType /\ ReaderFine(s) /\ \A q \in Reads : ReadFine(s, s.read[q])
  BY DEF Fine
<1>2. /\ t \in ReadingsType /\ t.reader.cache = s.reader.cache /\ t.reader.total = s.reader.total
      /\ t.reader.attempts = n /\ t.read[r] = y
      /\ \A q \in Reads : q # r => t.read[q] = s.read[q]
  BY <1>1, PutIs
<1> HIDE DEF t
<1>3. r \notin ActiveIn(s)
  BY DEF ActiveIn
<1>4. ActiveIn(t) = IF y.phase = "fetching" THEN ActiveIn(s) \cup {r} ELSE ActiveIn(s)
  BY <1>2, <1>3 DEF ActiveIn
<1>5. FetchedIn(t) \subseteq IF y.phase = "fetching" THEN FetchedIn(s) \cup {r} ELSE FetchedIn(s)
  BY <1>2 DEF FetchedIn
<1>6. /\ ActiveIn(s) \in SUBSET Reads /\ FetchedIn(s) \in SUBSET Reads
      /\ FetchedIn(t) \in SUBSET Reads
  BY DEF ActiveIn, FetchedIn
<1>7. /\ IsFiniteSet(ActiveIn(s)) /\ Cardinality(ActiveIn(s)) \in Nat
      /\ IsFiniteSet(FetchedIn(s)) /\ Cardinality(FetchedIn(s)) \in Nat
      /\ Cardinality(FetchedIn(t)) \in Nat
  BY <1>6, PartsOfReads
<1>8. /\ Cardinality(ActiveIn(s) \cup {r}) = Cardinality(ActiveIn(s)) + 1
      /\ IsFiniteSet(FetchedIn(s) \cup {r})
      /\ Cardinality(FetchedIn(s) \cup {r}) <= Cardinality(FetchedIn(s)) + 1
      /\ Cardinality(FetchedIn(s) \cup {r}) \in Nat
  <2>1. Cardinality(ActiveIn(s) \cup {r}) = Cardinality(ActiveIn(s)) + 1
    BY <1>3, <1>7, FS_AddElement
  <2>2. /\ IsFiniteSet(FetchedIn(s) \cup {r})
        /\ Cardinality(FetchedIn(s) \cup {r}) =
             IF r \in FetchedIn(s) THEN Cardinality(FetchedIn(s)) ELSE Cardinality(FetchedIn(s)) + 1
    BY <1>7, FS_AddElement
  <2>3. QED
    BY <1>7, <2>1, <2>2
<1>9. /\ Cardinality(ActiveIn(s)) <= ActiveLimit
      /\ Cardinality(FetchedIn(s)) <= MaxFiles
      /\ Cardinality(FetchedIn(s)) <= s.reader.attempts /\ s.reader.attempts \in Nat
      /\ ActiveLimit \in Nat /\ MaxFiles \in Nat
  BY <1>1, Numbers DEF ReaderFine, ReadingsType
<1>10. Cardinality(ActiveIn(t)) <= ActiveLimit
  BY <1>4, <1>7, <1>8, <1>9
<1>11. Cardinality(FetchedIn(t)) <= MaxFiles /\ Cardinality(FetchedIn(t)) <= n
  <2>1. CASE y.phase = "fetching"
    <3>1. FetchedIn(t) \in SUBSET (FetchedIn(s) \cup {r})
      BY <1>5, <2>1
    <3>2. Cardinality(FetchedIn(t)) <= Cardinality(FetchedIn(s) \cup {r})
      BY <1>8, <3>1, FS_Subset
    <3>3. n = s.reader.attempts + 1 /\ n <= MaxFiles
      BY <2>1
    <3>4. QED
      BY <1>7, <1>8, <1>9, <3>2, <3>3
  <2>2. CASE y.phase # "fetching"
    <3>1. FetchedIn(t) \in SUBSET FetchedIn(s)
      BY <1>5, <2>2
    <3>2. Cardinality(FetchedIn(t)) <= Cardinality(FetchedIn(s))
      BY <1>7, <3>1, FS_Subset
    <3>3. QED
      BY <1>7, <1>9, <3>2
  <2>3. QED
    BY <2>1, <2>2
<1>12. ReaderFine(t)
  BY <1>1, <1>2, <1>10, <1>11 DEF ReaderFine
<1>13. ActiveIn(s) \subseteq ActiveIn(t)
  BY <1>4
<1>14. ASSUME NEW q \in Reads, q # r PROVE ReadFine(t, t.read[q])
  <2>1. ReadFine(s, s.read[q]) /\ t.read[q] = s.read[q]
    BY <1>1, <1>2, <1>14
  <2>2. QED
    BY <1>2, <1>13, <2>1 DEF ReadFine
<1>15. ReadFine(t, y)
  BY <1>2, <1>13 DEF ReadFine
<1>16. Fine(t)
  BY <1>2, <1>12, <1>14, <1>15 DEF Fine
<1>17. QED
  BY <1>16 DEF t

\* Attempt and Wait, of the read r that x is put for, in terms of Put.
SlotSays(s, r, x, t) ==
    /\ x.url \in s.reader.cache =>
         Attempt(t, r) = Put(s, r, [x EXCEPT !.phase = "done"], s.reader.attempts)
    /\ x.url \notin s.reader.cache /\ s.reader.attempts + 1 > MaxFiles =>
         Attempt(t, r) = Put(s, r, [x EXCEPT !.phase = "failed", !.why = "files"],
                             s.reader.attempts + 1)
    /\ x.url \notin s.reader.cache /\ ~(s.reader.attempts + 1 > MaxFiles) =>
         Attempt(t, r) = Put(s, r, [x EXCEPT !.phase = "fetching", !.fetched = TRUE],
                             s.reader.attempts + 1)
    /\ Wait(t, r) = Put(s, r, [x EXCEPT !.phase = "waiting", !.racing = ActiveIn(t),
                                        !.woken = FALSE], s.reader.attempts)
    /\ [t EXCEPT !.read[r].phase = "done"] =
         Put(s, r, [x EXCEPT !.phase = "done"], s.reader.attempts)

LEMMA SlotIs ==
    ASSUME NEW s, s \in ReadingsType, NEW r \in Reads, NEW x \in ReadRecord,
           NEW t, t = Put(s, r, x, s.reader.attempts)
    PROVE  SlotSays(s, r, x, t)
<1>1. /\ s.reader \in [cache : SUBSET Sources, attempts : Nat, total : Nat]
      /\ s.read \in [Reads -> ReadRecord] /\ s.reader.attempts \in Nat
  BY DEF ReadingsType
<1>2. /\ t.reader = s.reader /\ t.read = [s.read EXCEPT ![r] = x] /\ t.read[r] = x
      /\ t = [reader |-> t.reader, read |-> t.read]
  BY <1>1 DEF Put
<1> DEFINE counted == [t EXCEPT !.reader.attempts = @ + 1]
<1>3. counted = [reader |-> [s.reader EXCEPT !.attempts = s.reader.attempts + 1], read |-> t.read]
      /\ counted.reader.attempts = s.reader.attempts + 1 /\ counted.read[r] = x
  BY <1>1, <1>2
<1>4. [s.reader EXCEPT !.attempts = s.reader.attempts] = s.reader
  BY <1>1
<1>5. \A y : [t.read EXCEPT ![r] = y] = [s.read EXCEPT ![r] = y]
  BY <1>1, <1>2
<1>6. ASSUME NEW y PROVE [t EXCEPT !.read[r] = y] = Put(s, r, y, s.reader.attempts)
  <2>1. [t EXCEPT !.read[r] = y] = [reader |-> t.reader, read |-> [t.read EXCEPT ![r] = y]]
    BY <1>2
  <2>2. QED
    BY <1>2, <1>4, <1>5, <2>1 DEF Put
<1> HIDE DEF counted
<1>7. ASSUME NEW y PROVE [counted EXCEPT !.read[r] = y] = Put(s, r, y, s.reader.attempts + 1)
  <2>1. [counted EXCEPT !.read[r] = y] =
          [reader |-> [s.reader EXCEPT !.attempts = s.reader.attempts + 1],
           read |-> [t.read EXCEPT ![r] = y]]
    BY <1>3
  <2>2. QED
    BY <1>5, <2>1 DEF Put
<1>8. [t EXCEPT !.read[r].phase = "done"] = [t EXCEPT !.read[r] = [x EXCEPT !.phase = "done"]]
  BY <1>1, <1>2
<1>9. [counted EXCEPT !.read[r].phase = "failed", !.read[r].why = "files"] =
        [counted EXCEPT !.read[r] = [x EXCEPT !.phase = "failed", !.why = "files"]]
  BY <1>1, <1>2, <1>3
<1>10. [counted EXCEPT !.read[r].phase = "fetching", !.read[r].fetched = TRUE] =
        [counted EXCEPT !.read[r] = [x EXCEPT !.phase = "fetching", !.fetched = TRUE]]
  BY <1>1, <1>2, <1>3
<1>11. Wait(t, r) = [t EXCEPT !.read[r] = [x EXCEPT !.phase = "waiting", !.racing = ActiveIn(t),
                                                    !.woken = FALSE]]
  BY <1>1, <1>2 DEF Wait
<1>12. Attempt(t, r) =
         CASE x.url \in s.reader.cache -> [t EXCEPT !.read[r].phase = "done"]
           [] x.url \notin s.reader.cache /\ counted.reader.attempts > MaxFiles
                -> [counted EXCEPT !.read[r].phase = "failed", !.read[r].why = "files"]
           [] OTHER
                -> [counted EXCEPT !.read[r].phase = "fetching", !.read[r].fetched = TRUE]
  BY <1>2 DEF Attempt, counted
<1>13. /\ x.url \in s.reader.cache => Attempt(t, r) = [t EXCEPT !.read[r].phase = "done"]
       /\ x.url \notin s.reader.cache /\ s.reader.attempts + 1 > MaxFiles =>
            Attempt(t, r) = [counted EXCEPT !.read[r].phase = "failed", !.read[r].why = "files"]
       /\ x.url \notin s.reader.cache /\ ~(s.reader.attempts + 1 > MaxFiles) =>
            Attempt(t, r) = [counted EXCEPT !.read[r].phase = "fetching", !.read[r].fetched = TRUE]
  BY <1>3, <1>12, Zenon
<1>14. QED
  BY <1>6, <1>7, <1>8, <1>9, <1>10, <1>11, <1>13 DEF SlotSays

\* What a read of url may become when it is looked at: over, fetched, or made to wait.
Became(s, u, r, x) ==
    /\ Fine(u) /\ u.reader.cache = s.reader.cache
    /\ u.read[r].url = x.url /\ u.read[r].kind = x.kind /\ u.read[r].phase # "unused"
    /\ \A q \in Reads : q # r => u.read[q] = s.read[q]

LEMMA SlotKeeps ==
    ASSUME NativeConstants, NEW s, Fine(s), NEW r \in Reads,
           s.read[r].phase \in {"unused", "waiting"},
           NEW x \in ReadRecord, x.phase \in {"unused", "waiting"}, x.url \in Sources,
           ~x.fetched, x.why = "none", x.reply = "none",
           NEW t, t = Put(s, r, x, s.reader.attempts)
    PROVE  /\ ActiveIn(t) = ActiveIn(s)
           /\ Cardinality(ActiveIn(t)) >= ActiveLimit => Became(s, Wait(t, r), r, x)
           /\ ~(Cardinality(ActiveIn(t)) >= ActiveLimit) => Became(s, Attempt(t, r), r, x)
           /\ x.url \in s.reader.cache =>
                Became(s, [t EXCEPT !.read[r].phase = "done"], r, x)
<1>0. s \in ReadingsType /\ s.reader.attempts \in Nat
  BY DEF Fine, ReadingsType
<1>1. s \in ReadingsType /\ s.reader.attempts \in Nat /\ SlotSays(s, r, x, t)
  BY <1>0, SlotIs
<1>2. t.read[r] = x /\ \A q \in Reads : q # r => t.read[q] = s.read[q]
  BY <1>1, PutIs
<1>3. ActiveIn(t) = ActiveIn(s)
  BY <1>2 DEF ActiveIn
<1>4. ActiveIn(s) \in SUBSET Reads
  BY DEF ActiveIn
<1>5. /\ Cardinality(ActiveIn(s)) \in Nat /\ ActiveLimit \in Nat /\ ActiveLimit # 0
      /\ MaxFiles \in Nat /\ (Cardinality(ActiveIn(s)) # 0 => ActiveIn(s) # {})
  BY <1>4, PartsOfReads, Numbers, FS_EmptySet
<1>6. ASSUME NEW y \in ReadRecord, NEW n \in Nat, Fine(Put(s, r, y, n)),
             y.url = x.url, y.kind = x.kind, y.phase # "unused"
      PROVE  Became(s, Put(s, r, y, n), r, x)
  BY <1>1, <1>6, PutIs DEF Became
<1>7. Became(s, Wait(t, r), r, x) \/ ~(Cardinality(ActiveIn(t)) >= ActiveLimit)
  <2> SUFFICES ASSUME Cardinality(ActiveIn(t)) >= ActiveLimit
               PROVE  Became(s, Wait(t, r), r, x)
    OBVIOUS
  <2> DEFINE y == [x EXCEPT !.phase = "waiting", !.racing = ActiveIn(t), !.woken = FALSE]
  <2>1. Wait(t, r) = Put(s, r, y, s.reader.attempts)
    BY <1>1 DEF SlotSays
  <2>2. ActiveIn(s) # {}
    BY <1>3, <1>5
  <2>3. /\ y \in ReadRecord /\ y.phase = "waiting" /\ y.racing = ActiveIn(s)
        /\ y.url = x.url /\ y.kind = x.kind /\ ~y.fetched /\ y.why = "none" /\ y.reply = "none"
    BY <1>3, <1>4 DEF ReadRecord, ReadPhases
  <2> HIDE DEF y
  <2>4. Fine(Put(s, r, y, s.reader.attempts))
    BY <1>1, <2>2, <2>3, PutKeeps
  <2>5. QED
    BY <1>1, <1>6, <2>1, <2>3, <2>4
<1>8. Became(s, Put(s, r, [x EXCEPT !.phase = "done"], s.reader.attempts), r, x)
      \/ x.url \notin s.reader.cache
  <2> SUFFICES ASSUME x.url \in s.reader.cache
               PROVE  Became(s, Put(s, r, [x EXCEPT !.phase = "done"], s.reader.attempts), r, x)
    OBVIOUS
  <2> DEFINE y == [x EXCEPT !.phase = "done"]
  <2>1. /\ y \in ReadRecord /\ y.phase = "done" /\ y.url = x.url /\ y.kind = x.kind
        /\ ~y.fetched /\ y.why = "none" /\ y.reply = "none"
    BY DEF ReadRecord, ReadPhases
  <2> HIDE DEF y
  <2>2. Fine(Put(s, r, y, s.reader.attempts))
    BY <1>1, <2>1, PutKeeps
  <2>3. Became(s, Put(s, r, y, s.reader.attempts), r, x)
    BY <1>1, <1>6, <2>1, <2>2
  <2>4. QED
    BY <2>3 DEF y
<1>9. Became(s, Attempt(t, r), r, x) \/ Cardinality(ActiveIn(t)) >= ActiveLimit
  <2> SUFFICES ASSUME ~(Cardinality(ActiveIn(t)) >= ActiveLimit)
               PROVE  Became(s, Attempt(t, r), r, x)
    OBVIOUS
  <2>1. CASE x.url \in s.reader.cache
    BY <1>1, <1>8, <2>1 DEF SlotSays
  <2>2. CASE x.url \notin s.reader.cache /\ s.reader.attempts + 1 > MaxFiles
    <3> DEFINE y == [x EXCEPT !.phase = "failed", !.why = "files"]
    <3>1. Attempt(t, r) = Put(s, r, y, s.reader.attempts + 1)
      BY <1>1, <2>2 DEF SlotSays
    <3>2. /\ y \in ReadRecord /\ y.phase = "failed" /\ y.url = x.url /\ y.kind = x.kind
          /\ ~y.fetched /\ y.why = "files" /\ y.reply = "none"
      BY DEF ReadRecord, ReadPhases
    <3> HIDE DEF y
    <3>3. s.reader.attempts + 1 \in Nat /\ s.reader.attempts <= s.reader.attempts + 1
      BY <1>1
    <3>4. Fine(Put(s, r, y, s.reader.attempts + 1))
      BY <1>1, <3>2, <3>3, PutKeeps
    <3>5. QED
      BY <1>6, <3>1, <3>2, <3>3, <3>4
  <2>3. CASE x.url \notin s.reader.cache /\ ~(s.reader.attempts + 1 > MaxFiles)
    <3> DEFINE y == [x EXCEPT !.phase = "fetching", !.fetched = TRUE]
    <3>1. Attempt(t, r) = Put(s, r, y, s.reader.attempts + 1)
      BY <1>1, <2>3 DEF SlotSays
    <3>2. /\ y \in ReadRecord /\ y.phase = "fetching" /\ y.url = x.url /\ y.kind = x.kind
          /\ y.fetched /\ y.why = "none" /\ y.reply = "none"
      BY DEF ReadRecord, ReadPhases
    <3> HIDE DEF y
    <3>3. /\ s.reader.attempts + 1 \in Nat /\ s.reader.attempts <= s.reader.attempts + 1
          /\ s.reader.attempts + 1 <= MaxFiles
      BY <1>1, <1>5, <2>3
    <3>4. Cardinality(ActiveIn(s)) < ActiveLimit
      BY <1>3, <1>5
    <3>5. Fine(Put(s, r, y, s.reader.attempts + 1))
      BY <1>1, <3>2, <3>3, <3>4, PutKeeps
    <3>6. QED
      BY <1>6, <3>1, <3>2, <3>3, <3>5
  <2>4. QED
    BY <2>1, <2>2, <2>3
<1>10. [t EXCEPT !.read[r].phase = "done"] = Put(s, r, [x EXCEPT !.phase = "done"], s.reader.attempts)
  BY <1>1 DEF SlotSays
<1>11. QED
  BY <1>3, <1>7, <1>8, <1>9, <1>10

\* A read that is asked for keeps everything else as it is.
LEMMA AskKeeps ==
    ASSUME NativeConstants, NEW s, Fine(s), NEW r \in Reads, s.read[r].phase = "unused",
           NEW url \in Sources, NEW kind \in {"declared", "served"}
    PROVE  Became(s, Ask(s, r, url, kind), r, [NoRead EXCEPT !.url = url, !.kind = kind])
<1> DEFINE x == [NoRead EXCEPT !.url = url, !.kind = kind]
           t == [s EXCEPT !.read[r] = x]
<1>1. /\ x \in ReadRecord /\ x.phase = "unused" /\ x.url = url /\ ~x.fetched
      /\ x.why = "none" /\ x.reply = "none"
  BY DEF ReadRecord, ReadPhases, NoRead
<1> HIDE DEF x
<1>2. s \in ReadingsType
  BY DEF Fine
<1>3. t = Put(s, r, x, s.reader.attempts)
  <2>1. /\ s = [reader |-> s.reader, read |-> s.read] /\ [s.reader EXCEPT !.attempts = s.reader.attempts] = s.reader
    BY <1>2 DEF ReadingsType
  <2>2. t = [reader |-> s.reader, read |-> [s.read EXCEPT ![r] = x]]
    BY <2>1
  <2>3. QED
    BY <2>1, <2>2 DEF Put
<1>4. Ask(s, r, url, kind) =
        IF url \in s.reader.cache THEN [t EXCEPT !.read[r].phase = "done"]
        ELSE IF Cardinality(ActiveIn(s)) >= ActiveLimit THEN Wait(t, r) ELSE Attempt(t, r)
  BY DEF Ask, x
<1> HIDE DEF t
<1>5. /\ ActiveIn(t) = ActiveIn(s)
      /\ Cardinality(ActiveIn(t)) >= ActiveLimit => Became(s, Wait(t, r), r, x)
      /\ ~(Cardinality(ActiveIn(t)) >= ActiveLimit) => Became(s, Attempt(t, r), r, x)
      /\ x.url \in s.reader.cache => Became(s, [t EXCEPT !.read[r].phase = "done"], r, x)
  BY <1>1, <1>3, SlotKeeps
<1>6. Became(s, Ask(s, r, url, kind), r, x)
  BY <1>1, <1>4, <1>5
<1>7. QED
  BY <1>6 DEF x

\* A waiter that looks again takes a free slot or waits for those there are.
LEMMA LoopKeeps ==
    ASSUME NativeConstants, NEW s, Fine(s), NEW r \in Reads, s.read[r].phase = "waiting"
    PROVE  Became(s, LoopAgain(s, r), r, s.read[r])
<1> DEFINE x == s.read[r]
<1>1. s \in ReadingsType /\ ReadFine(s, x) /\ x \in ReadRecord
  BY DEF Fine, ReadingsType
<1>2. /\ x.phase = "waiting" /\ x.url \in Sources /\ ~x.fetched
      /\ x.why = "none" /\ x.reply = "none"
  BY <1>1 DEF ReadFine
<1>3. s = Put(s, r, x, s.reader.attempts)
  <2>1. /\ s = [reader |-> s.reader, read |-> s.read]
        /\ [s.reader EXCEPT !.attempts = s.reader.attempts] = s.reader
        /\ [s.read EXCEPT ![r] = x] = s.read
    BY <1>1 DEF ReadingsType
  <2>2. QED
    BY <2>1 DEF Put
<1> HIDE DEF x
<1>4. /\ Cardinality(ActiveIn(s)) >= ActiveLimit => Became(s, Wait(s, r), r, x)
      /\ ~(Cardinality(ActiveIn(s)) >= ActiveLimit) => Became(s, Attempt(s, r), r, x)
  BY <1>1, <1>2, <1>3, SlotKeeps DEF x
<1>5. QED
  BY <1>4 DEF LoopAgain, x

\* The abort of a signal is the end of the reads that listen to it.
LEMMA AbortKeeps ==
    ASSUME NativeConstants, NEW s, Fine(s), NEW rs \in SUBSET Reads
    PROVE  /\ Fine(AbortReads(s, rs)) /\ SameReads(s, AbortReads(s, rs))
           /\ AbortReads(s, rs).reader = s.reader
<1> DEFINE ending == {r \in rs : s.read[r].phase \in {"waiting", "fetching"}}
<1>1. ending \in SUBSET Reads
  OBVIOUS
<1>2. /\ s \in ReadingsType /\ ReaderFine(s) /\ \A r \in Reads : ReadFine(s, s.read[r])
  BY DEF Fine
<1>3. \A r \in ending : s.read[r].reply = "none" /\ s.read[r].phase # "unused"
  BY <1>2 DEF ReadFine
<1>4. AbortReads(s, rs) = Over(s, ending, "failed", "aborted")
  BY DEF AbortReads
<1> HIDE DEF ending
<1>5. QED
  BY <1>1, <1>2, <1>3, <1>4, OverKeeps

\* A fetch that fails.
LEMMA FailKeeps ==
    ASSUME NativeConstants, NEW s, Fine(s), NEW r \in Reads, s.read[r].phase = "fetching"
    PROVE  /\ Fine(Over(s, {r}, "failed", "source"))
           /\ SameReads(s, Over(s, {r}, "failed", "source"))
           /\ Over(s, {r}, "failed", "source").reader = s.reader
<1>1. /\ s \in ReadingsType /\ ReaderFine(s) /\ \A q \in Reads : ReadFine(s, s.read[q])
  BY DEF Fine
<1>2. s.read[r].reply = "none" /\ s.read[r].fetched
  BY <1>1 DEF ReadFine
<1>3. {r} \in SUBSET Reads /\ \A q \in {r} : s.read[q].reply = "none" /\ s.read[q].fetched
                                             /\ s.read[q].phase # "unused"
  BY <1>2
<1>4. QED
  BY <1>1, <1>3, OverKeeps

\* A fetch that completes keeps its file, within the limits, or fails.
LEMMA CompleteKeeps ==
    ASSUME NativeConstants, NEW s, Fine(s), NEW r \in Reads, s.read[r].phase = "fetching",
           SizeOf[s.read[r].url] <= MaxBytes
    PROVE  /\ Fine(Complete(s, r)) /\ SameReads(s, Complete(s, r))
           /\ s.reader.cache \subseteq Complete(s, r).reader.cache
<1> DEFINE url == s.read[r].url
           counted == [s EXCEPT !.reader.total = @ + SizeOf[url]]
           kept == [counted EXCEPT !.reader.cache = @ \cup {url}]
<1>1. /\ s \in ReadingsType /\ ReaderFine(s) /\ \A q \in Reads : ReadFine(s, s.read[q])
      /\ s.reader \in [cache : SUBSET Sources, attempts : Nat, total : Nat]
      /\ s.read \in [Reads -> ReadRecord]
  BY DEF Fine, ReadingsType
<1>2. /\ url \in Sources /\ s.read[r].fetched /\ s.read[r].reply = "none"
      /\ SizeOf[url] \in Nat /\ SizeOf \in [Sources -> Nat]
  BY <1>1, Numbers DEF ReadFine
<1>3. s.reader.total + SizeOf[url] \in Nat /\ s.reader.total <= s.reader.total + SizeOf[url]
  BY <1>1, <1>2
<1>4. /\ counted \in ReadingsType /\ counted.read = s.read
      /\ counted.reader.total = s.reader.total + SizeOf[url]
      /\ counted.reader.cache = s.reader.cache /\ counted.reader.attempts = s.reader.attempts
  BY <1>1, <1>3 DEF ReadingsType
<1>5. /\ kept \in ReadingsType /\ kept.read = s.read
      /\ kept.reader.total = s.reader.total + SizeOf[url]
      /\ kept.reader.cache = s.reader.cache \cup {url}
      /\ kept.reader.attempts = s.reader.attempts
  <2> HIDE DEF counted
  <2>1. s.reader.cache \cup {url} \in SUBSET Sources
    BY <1>1, <1>2
  <2>2. QED
    BY <1>4, <2>1 DEF ReadingsType
<1>6. Complete(s, r) = IF s.reader.total + SizeOf[url] > MaxTotalBytes
                       THEN Over(counted, {r}, "failed", "bytes")
                       ELSE Over(kept, {r}, "done", "none")
  BY <1>4 DEF Complete
<1> HIDE DEF counted, kept
<1>7. /\ FetchedIn(counted) = FetchedIn(s) /\ ActiveIn(counted) = ActiveIn(s)
      /\ FetchedIn(kept) = FetchedIn(s) /\ ActiveIn(kept) = ActiveIn(s)
  BY <1>4, <1>5 DEF FetchedIn, ActiveIn
<1>8. /\ IsFiniteSet(s.reader.cache) /\ Kept(s.reader.cache) \in Nat
      /\ Kept(kept.reader.cache) \in Nat
      /\ Kept(kept.reader.cache) <= Kept(s.reader.cache) + SizeOf[url]
      /\ IsFiniteSet(kept.reader.cache)
      /\ Kept(s.reader.cache) <= s.reader.total /\ Kept(s.reader.cache) <= MaxTotalBytes
      /\ s.reader.total \in Nat /\ MaxTotalBytes \in Nat
  <2>1. IsFiniteSet(s.reader.cache) /\ s.reader.cache \in SUBSET Sources
    BY <1>1 DEF ReaderFine
  <2>2. IsFiniteSet(s.reader.cache \cup {url})
    BY <2>1, FS_AddElement
  <2>3. /\ Kept(s.reader.cache) \in Nat
        /\ Kept(s.reader.cache \cup {url}) \in Nat
        /\ Kept(s.reader.cache \cup {url}) <= Kept(s.reader.cache) + SizeOf[url]
    BY <1>2, <2>1, KeptGrows
  <2>4. QED
    BY <1>1, <1>5, <2>1, <2>2, <2>3, Numbers DEF ReaderFine
<1>9. {r} \in SUBSET Reads
  OBVIOUS
<1>10. CASE s.reader.total + SizeOf[url] > MaxTotalBytes
  <2>1. Kept(s.reader.cache) <= counted.reader.total
    BY <1>2, <1>4, <1>8
  <2>2. ReaderFine(counted)
    BY <1>1, <1>4, <1>7, <2>1 DEF ReaderFine
  <2>3. \A q \in Reads : ReadFine(counted, counted.read[q])
    BY <1>1, <1>4, <1>7 DEF ReadFine
  <2>4. \A q \in {r} : counted.read[q].reply = "none" /\ counted.read[q].fetched
                       /\ counted.read[q].phase # "unused"
    BY <1>2, <1>4
  <2>5. /\ Fine(Over(counted, {r}, "failed", "bytes"))
        /\ SameReads(counted, Over(counted, {r}, "failed", "bytes"))
        /\ Over(counted, {r}, "failed", "bytes").reader = counted.reader
    BY <1>4, <1>9, <2>2, <2>3, <2>4, OverKeeps
  <2>6. Complete(s, r) = Over(counted, {r}, "failed", "bytes")
    BY <1>6, <1>10
  <2>7. QED
    BY <1>4, <2>5, <2>6 DEF SameReads
<1>11. CASE ~(s.reader.total + SizeOf[url] > MaxTotalBytes)
  <2>1. Kept(kept.reader.cache) <= kept.reader.total /\ Kept(kept.reader.cache) <= MaxTotalBytes
    BY <1>2, <1>5, <1>8, <1>11
  <2>2. ReaderFine(kept)
    BY <1>1, <1>5, <1>7, <1>8, <2>1 DEF ReaderFine
  <2>3. \A q \in Reads : ReadFine(kept, kept.read[q])
    BY <1>1, <1>5, <1>7 DEF ReadFine
  <2>4. \A q \in {r} : kept.read[q].reply = "none" /\ kept.read[q].url \in kept.reader.cache
                       /\ kept.read[q].phase # "unused"
    BY <1>2, <1>5
  <2>5. /\ Fine(Over(kept, {r}, "done", "none"))
        /\ SameReads(kept, Over(kept, {r}, "done", "none"))
        /\ Over(kept, {r}, "done", "none").reader = kept.reader
    BY <1>5, <1>9, <2>2, <2>3, <2>4, OverKeeps
  <2>6. Complete(s, r) = Over(kept, {r}, "done", "none")
    BY <1>6, <1>11
  <2>7. QED
    BY <1>5, <2>5, <2>6 DEF SameReads
<1>12. QED
  BY <1>10, <1>11

-----------------------------------------------------------------------------
(* The load                                                                *)

LEMMA AskIsTyped ==
    ASSUME NativeConstants, NEW s, s \in ReadingsType, NEW r \in Reads, NEW url \in Sources,
           NEW kind \in {"declared", "served"}
    PROVE  Ask(s, r, url, kind) \in ReadingsType
<1> DEFINE x == [NoRead EXCEPT !.url = url, !.kind = kind]
           t == [s EXCEPT !.read[r] = x]
<1>1. x \in ReadRecord /\ x.url = url
  BY DEF ReadRecord, ReadPhases, NoRead
<1> HIDE DEF x
<1>2. t = Put(s, r, x, s.reader.attempts)
  <2>1. /\ s = [reader |-> s.reader, read |-> s.read]
        /\ [s.reader EXCEPT !.attempts = s.reader.attempts] = s.reader
    BY DEF ReadingsType
  <2>2. t = [reader |-> s.reader, read |-> [s.read EXCEPT ![r] = x]]
    BY <2>1
  <2>3. QED
    BY <2>1, <2>2 DEF Put
<1>3. Ask(s, r, url, kind) =
        IF url \in s.reader.cache THEN [t EXCEPT !.read[r].phase = "done"]
        ELSE IF Cardinality(ActiveIn(s)) >= ActiveLimit THEN Wait(t, r) ELSE Attempt(t, r)
  BY DEF Ask, x
<1> HIDE DEF t
<1>4. SlotSays(s, r, x, t) /\ s.reader.attempts \in Nat /\ s.reader.attempts + 1 \in Nat
  BY <1>1, <1>2, SlotIs DEF ReadingsType
<1>5. /\ [x EXCEPT !.phase = "done"] \in ReadRecord
      /\ [x EXCEPT !.phase = "failed", !.why = "files"] \in ReadRecord
      /\ [x EXCEPT !.phase = "fetching", !.fetched = TRUE] \in ReadRecord
      /\ [x EXCEPT !.phase = "waiting", !.racing = ActiveIn(t), !.woken = FALSE] \in ReadRecord
  BY <1>1 DEF ReadRecord, ReadPhases, ActiveIn
<1>6. \A y \in ReadRecord : /\ Put(s, r, y, s.reader.attempts) \in ReadingsType
                            /\ Put(s, r, y, s.reader.attempts + 1) \in ReadingsType
  BY <1>4, PutIs
<1>7. /\ Attempt(t, r) \in ReadingsType /\ Wait(t, r) \in ReadingsType
      /\ [t EXCEPT !.read[r].phase = "done"] \in ReadingsType
  BY <1>4, <1>5, <1>6, Zenon DEF SlotSays
<1>8. QED
  BY <1>3, <1>7

LEMMA SetToSeqIs ==
    ASSUME NEW S, IsFiniteSet(S)
    PROVE  /\ SetToSeq(S) \in [1..Cardinality(S) -> S]
           /\ \A x \in S : \E i \in 1..Cardinality(S) : SetToSeq(S)[i] = x
<1> DEFINE n == Cardinality(S)
<1>1. n \in Nat /\ ExistsBijection(1..n, S)
  BY FS_CardinalityType
<1> HIDE DEF n
<1>2. PICK b : b \in Bijection(1..n, S)
  BY <1>1 DEF ExistsBijection
<1>3. b \in [1..n -> S] /\ IsInjective(b)
  BY <1>2 DEF Bijection, Injection, IsInjective
<1>4. SetToSeq(S) \in [1..n -> S] /\ IsInjective(SetToSeq(S))
  BY <1>3 DEF SetToSeq, n
<1>5. SetToSeq(S) \in Injection(1..n, S)
  BY <1>4 DEF Injection, IsInjective
<1>6. Cardinality(1..n) = n
  BY <1>1, FS_Interval
<1>7. SetToSeq(S) \in Surjection(1..n, S)
  BY <1>5, <1>6, FS_Injection DEF n
<1>8. QED
  BY <1>4, <1>7 DEF Surjection, n

\* What the load has asked for, once it has asked for the first k files.
AskedFor(acc, files, k) ==
    /\ Fine(acc)
    /\ \A r \in Reads : r > k => acc.read[r] = NoRead
    /\ \A r \in Reads : r <= k => /\ acc.read[r].kind = "declared"
                                  /\ acc.read[r].url = files[r].url

LEMMA LoadKeeps ==
    ASSUME NativeConstants, Fine(Readings), \A r \in Reads : read[r] = NoRead,
           NEW plugins \in SUBSET Plugins, Validated(plugins)
    PROVE  /\ Fine(Load(plugins))
           /\ \A r \in Reads : Load(plugins).read[r].kind # "served"
           /\ \A p \in Enabled(plugins) : p.wanted =>
                \E r \in Reads : /\ Load(plugins).read[r].kind = "declared"
                                 /\ Load(plugins).read[r].url = p.url
<1> DEFINE S == {p \in Enabled(plugins) : p.wanted}
           files == Files(plugins)
           n == Len(files)
           E == 1..n
           s == [i \in 1..n |-> i]
           F == [p \in ReadingsType \X E |-> Ask(p[1], p[2], files[p[2]].url, "declared")]
           Folds(g) == g = [t \in SUBSET DOMAIN s |->
                              IF t = {} THEN Readings
                              ELSE Ask(g[t \ {Max(t)}], s[Max(t)], files[s[Max(t)]].url,
                                       "declared")]
<1>1. IsFiniteSet(S) /\ Cardinality(S) \in Nat /\ Cardinality(S) <= MaxReads
  <2> DEFINE all == {p \in Plugins : p.enabled /\ p.wanted /\ ValidSource(p)}
  <2>1. S \in SUBSET all
    BY DEF Validated, Enabled
  <2>2. all \in SUBSET Plugins /\ IsFiniteSet(Plugins) /\ Cardinality(all) <= MaxReads
    BY DEF NativeConstants
  <2> HIDE DEF S, all
  <2>3. IsFiniteSet(all) /\ Cardinality(all) \in Nat
    BY <2>2, FS_Subset, FS_CardinalityType
  <2>4. IsFiniteSet(S) /\ Cardinality(S) \in Nat /\ Cardinality(S) <= Cardinality(all)
    BY <2>1, <2>3, FS_Subset, FS_CardinalityType
  <2>5. QED
    BY <2>2, <2>3, <2>4, Numbers
<1>2. /\ files \in [1..Cardinality(S) -> S]
      /\ \A p \in S : \E i \in 1..Cardinality(S) : files[i] = p
  <2>1. files = SetToSeq(S)
    BY DEF Files
  <2> HIDE DEF files, S
  <2>2. QED
    BY <1>1, <2>1, SetToSeqIs
<1>3. n = Cardinality(S) /\ n \in Nat
  <2> HIDE DEF files, S
  <2>1. QED
    BY <1>1, <1>2
<1>4. \A p \in S : p.url \in Sources
  BY DEF NativeConstants, PluginRecord, Enabled
<1> HIDE DEF S, files
<1>5. \A i \in 1..n : i \in Reads /\ files[i].url \in Sources
  <2>1. \A i \in 1..n : i \in Reads
    BY <1>1, <1>3, Numbers DEF Reads
  <2>2. QED
    BY <1>2, <1>3, <1>4, <2>1
<1>6. DOMAIN s = 1..n /\ s \in [1..n -> E] /\ \A i \in 1..n : s[i] = i
  OBVIOUS
<1>7. F \in [ReadingsType \X E -> ReadingsType]
  <2>1. \A acc \in ReadingsType, i \in E : Ask(acc, i, files[i].url, "declared") \in ReadingsType
    BY <1>5, AskIsTyped
  <2>2. QED
    BY <2>1
<1>8. Readings \in ReadingsType
  BY DEF Fine
<1> HIDE DEF n, E
<1>9. PICK g \in [SUBSET (1..n) -> ReadingsType] : FoldsParts(g, F, Readings, s, n)
  <2> HIDE DEF F, s
  <2>1. QED
    BY <1>3, <1>6, <1>7, <1>8, FoldExists, Zenon
<1>10. \A t \in SUBSET (1..n) : t # {} => g[t \ {Max(t)}] \in ReadingsType /\ s[Max(t)] \in E
  BY <1>3, <1>6, GreatestIs
<1>11. \A t \in SUBSET (1..n) :
         g[t] = IF t = {} THEN Readings
                ELSE Ask(g[t \ {Max(t)}], s[Max(t)], files[s[Max(t)]].url, "declared")
  <2> HIDE DEF s
  <2>1. \A acc \in ReadingsType, i \in E :
          F[<<acc, i>>] = Ask(acc, i, files[i].url, "declared")
    OBVIOUS
  <2> HIDE DEF F
  <2>2. QED
    BY <1>9, <1>10, <2>1 DEF FoldsParts
<1>12. Folds(g)
  BY <1>6, <1>11
<1>13. PICK h : Folds(h) /\ Load(plugins) = h[DOMAIN s]
  <2>1. \E h : Folds(h) /\ Load(plugins) = h[DOMAIN s]
    BY <1>12 DEF Load, FoldLeft, MapThenFoldSet, n, files
  <2>2. QED
    BY <2>1
<1>14. \A t \in SUBSET (1..n) :
         h[t] = IF t = {} THEN Readings
                ELSE Ask(h[t \ {Max(t)}], s[Max(t)], files[s[Max(t)]].url, "declared")
  BY <1>6, <1>13
<1> DEFINE Ks == {k \in Nat : k <= n => AskedFor(h[1..k], files, k)}
<1>15. 0 \in Ks
  <2>1. 1..0 = {}
    OBVIOUS
  <2>2. h[1..0] = Readings
    BY <1>14, <2>1
  <2>3. \A r \in Reads : ~(r <= 0)
    BY Numbers DEF Reads
  <2>4. AskedFor(Readings, files, 0)
    BY <2>3 DEF AskedFor, Readings
  <2>5. QED
    BY <2>2, <2>4
<1>16. ASSUME NEW k \in Nat, k \in Ks PROVE k + 1 \in Ks
  <2>1. SUFFICES ASSUME k + 1 <= n PROVE AskedFor(h[1..(k + 1)], files, k + 1)
    OBVIOUS
  <2>2. /\ 1..(k + 1) \in SUBSET (1..n) /\ k + 1 \in Nat /\ k + 1 # 0 /\ 1..(k + 1) # {}
        /\ (k + 1) - 1 = k /\ k + 1 \in 1..n /\ k <= n
    BY <1>3, <2>1
  <2>3. Max(1..(k + 1)) = k + 1 /\ (1..(k + 1)) \ {k + 1} = 1..k
    BY <2>2, GreatestOfPrefix
  <2> DEFINE before == h[1..k]
             after == h[1..(k + 1)]
             url == files[k + 1].url
  <2>4. after = Ask(before, k + 1, url, "declared")
    BY <1>6, <1>14, <2>2, <2>3
  <2>5. AskedFor(before, files, k)
    BY <1>16, <2>2
  <2>6. k + 1 \in Reads /\ url \in Sources /\ k + 1 > k
    BY <1>5, <2>2
  <2>7. before.read[k + 1] = NoRead /\ before.read[k + 1].phase = "unused"
    BY <2>5, <2>6 DEF AskedFor, NoRead
  <2> HIDE DEF before, after, url
  <2>8. Became(before, after, k + 1, [NoRead EXCEPT !.url = url, !.kind = "declared"])
    BY <2>4, <2>5, <2>6, <2>7, AskKeeps DEF AskedFor
  <2>9. /\ Fine(after) /\ after.read[k + 1].url = url /\ after.read[k + 1].kind = "declared"
        /\ \A r \in Reads : r # k + 1 => after.read[r] = before.read[r]
    BY <2>8 DEF Became, NoRead
  <2>10. \A r \in Reads : r > k + 1 => after.read[r] = NoRead
    <3>1. \A r \in Reads : r > k + 1 => r > k /\ r # k + 1
      BY Numbers DEF Reads
    <3>2. QED
      BY <2>5, <2>9, <3>1 DEF AskedFor
  <2>11. \A r \in Reads : r <= k + 1 => /\ after.read[r].kind = "declared"
                                        /\ after.read[r].url = files[r].url
    <3>1. \A r \in Reads : r <= k + 1 => r <= k \/ r = k + 1
      BY Numbers DEF Reads
    <3>2. QED
      BY <2>5, <2>9, <3>1 DEF AskedFor, url
  <2>12. AskedFor(after, files, k + 1)
    BY <2>9, <2>10, <2>11 DEF AskedFor
  <2>13. QED
    BY <2>12 DEF after
<1>17. n \in Ks
  <2> HIDE DEF Ks
  <2>1. QED
    BY <1>3, <1>15, <1>16, AllNumbers
<1>18. AskedFor(Load(plugins), files, n)
  BY <1>3, <1>6, <1>13, <1>17
<1>19. \A r \in Reads : Load(plugins).read[r].kind # "served"
  <2>1. \A r \in Reads : r > n \/ r <= n
    BY <1>3, Numbers DEF Reads
  <2>2. QED
    BY <1>18, <2>1 DEF AskedFor, NoRead
<1>20. ASSUME NEW p \in Enabled(plugins), p.wanted
       PROVE  \E r \in Reads : /\ Load(plugins).read[r].kind = "declared"
                               /\ Load(plugins).read[r].url = p.url
  <2>1. PICK i \in 1..n : files[i] = p
    BY <1>2, <1>3, <1>20 DEF S
  <2>2. i \in Reads /\ i <= n
    BY <1>3, <1>5
  <2>3. QED
    BY <1>18, <2>1, <2>2 DEF AskedFor
<1>21. QED
  BY <1>18, <1>19, <1>20 DEF AskedFor

-----------------------------------------------------------------------------
(* The lines of a read                                                     *)

\* What SlicesSound says of one read.
SliceRight(total, offset, limit) ==
    LET from == IF offset < 0 THEN total + offset + 1 ELSE offset
        lines == {i \in 1..total : i >= from}
        first == {i \in lines : Cardinality({j \in lines : j <= i}) <= limit}
    IN  SliceOf(total, offset, limit) =
          CASE lines = {} -> 1..total
            [] lines # {} /\ limit = NoLimit -> lines
            [] OTHER -> first

LEMMA SliceIs ==
    ASSUME NEW total \in Nat, NEW offset \in Int, NEW limit \in Int, limit >= -1
    PROVE  SliceRight(total, offset, limit)
<1> DEFINE from == IF offset < 0 THEN total + offset + 1 ELSE offset
           lines == {i \in 1..total : i >= from}
           first == {i \in lines : Cardinality({j \in lines : j <= i}) <= limit}
           lo == IF from < 1 THEN 1 ELSE from
           start == SliceStart(total, offset)
           length == CASE limit # NoLimit -> limit
                       [] limit = NoLimit /\ offset < 0 -> -offset
                       [] OTHER -> total
<1>1. from \in Int /\ lo \in Nat /\ lo >= 1 /\ start = lo - 1 /\ start \in Nat
  BY DEF SliceStart
<1>2. /\ limit # NoLimit => length = limit /\ limit \in Nat
      /\ limit = NoLimit => length \in Int /\ start + length >= total
  BY DEF SliceStart, NoLimit
<1>3. SliceOf(total, offset, limit) =
        IF start < total THEN {i \in 1..total : start < i /\ i <= start + length} ELSE 1..total
  BY DEF SliceOf
<1>4. \A i \in 1..total : i >= from <=> i >= lo
  OBVIOUS
<1> HIDE DEF start, length
<1>5. lines = {i \in 1..total : i >= lo}
  BY <1>4
<1> HIDE DEF lo, from, lines
<1>6. lines # {} <=> start < total
  <2>1. ASSUME start < total PROVE lines # {}
    <3>1. total \in 1..total /\ total >= lo
      BY <1>1, <2>1
    <3>2. QED
      BY <1>5, <3>1
  <2>2. ASSUME ~(start < total) PROVE lines = {}
    <3>1. \A i \in 1..total : ~(i >= lo)
      BY <1>1, <2>2
    <3>2. QED
      BY <1>5, <3>1
  <2>3. QED
    BY <2>1, <2>2
<1>7. ASSUME NEW i \in lines PROVE Cardinality({j \in lines : j <= i}) = i - lo + 1
  <2>1. i \in 1..total /\ i >= lo /\ i \in Int /\ lo \in Int
    BY <1>1, <1>5
  <2>2. {j \in lines : j <= i} = lo..i
    <3>1. \A j : j \in 1..total /\ j >= lo /\ j <= i <=> j \in lo..i
      BY <1>1, <2>1
    <3>2. QED
      BY <1>5, <3>1
  <2>3. Cardinality(lo..i) = i - lo + 1
    BY <2>1, FS_Interval
  <2>4. QED
    BY <2>2, <2>3
<1>8. CASE lines = {}
  <2>1. SliceOf(total, offset, limit) = 1..total
    BY <1>3, <1>6, <1>8
  <2>2. QED
    BY <1>8, <2>1 DEF lines, from, SliceRight
<1>9. CASE lines # {} /\ limit = NoLimit
  <2>1. \A i \in 1..total : start < i /\ i <= start + length <=> i >= lo
    BY <1>1, <1>2, <1>9
  <2>2. SliceOf(total, offset, limit) = lines
    BY <1>3, <1>5, <1>6, <1>9, <2>1
  <2>3. QED
    BY <1>9, <2>2 DEF lines, from, SliceRight
<1>10. CASE lines # {} /\ limit # NoLimit
  <2>1. \A i \in 1..total : start < i /\ i <= start + length <=> i >= lo /\ i - lo + 1 <= limit
    BY <1>1, <1>2, <1>10
  <2>2. first = {i \in 1..total : i >= lo /\ i - lo + 1 <= limit}
    BY <1>5, <1>7
  <2>3. SliceOf(total, offset, limit) = first
    <3> HIDE DEF first
    <3>1. QED
      BY <1>3, <1>6, <1>10, <2>1, <2>2
  <2>4. QED
    BY <1>10, <2>3 DEF lines, from, SliceRight
<1>11. QED
  BY <1>8, <1>9, <1>10

-----------------------------------------------------------------------------
(* The invariant                                                           *)

AccountType ==
    [phase : {"metadata", "files", "ready", "failed"}, answered : 0..Metadata,
     plugins : SUBSET Plugins, aborted : BOOLEAN]

Wanted(plugins) == {p \in Enabled(plugins) : p.wanted}

\* The load a of an account, and the readings s.
LoadFine(a, s) ==
    /\ a \in AccountType
    /\ a.phase = "metadata" => \A r \in Reads : s.read[r] = NoRead
    /\ a.phase \in {"files", "ready"} \/ (\E r \in Reads : s.read[r].phase # "unused")
         => Validated(a.plugins)
    /\ a.phase = "files" => \A p \in Wanted(a.plugins) :
         \E r \in Reads : s.read[r].kind = "declared" /\ s.read[r].url = p.url
    /\ a.phase = "ready" => \A p \in Wanted(a.plugins) :
         p.front = "fine" /\ p.url \in s.reader.cache
    /\ \A r \in Reads : s.read[r].kind = "served" => a.phase = "ready"

ProfileNames == Persisted \cup {NoName} \cup {Fresh(c) : c \in Conversations}

ConversationType == [name : ProfileNames, profile : Profiles \cup {NoName}, persisted : Persisted \cup {NoName}]

\* A conversation that is open has the name its profile's repository has.
ProfilesFine(conversations, names) ==
    /\ conversations \in [Conversations -> ConversationType] /\ names \in [Profiles -> ProfileNames]
    /\ \A c \in Conversations : conversations[c].name # NoName =>
         /\ conversations[c].profile \in Profiles
         /\ names[conversations[c].profile] = conversations[c].name
         /\ conversations[c].persisted \in {NoName, conversations[c].name}

NativeInv ==
    /\ Fine(Readings) /\ LoadFine(account, Readings)
    /\ serving \in [ended : BOOLEAN, process : {"up", "down"}]
    /\ ProfilesFine(conversation, repositories)

LEMMA ReadingsAre ==
    ASSUME Fine(Readings)
    PROVE  /\ Readings \in ReadingsType /\ Readings.reader = reader /\ Readings.read = read
           /\ reader \in [cache : SUBSET Sources, attempts : Nat, total : Nat]
           /\ read \in [Reads -> ReadRecord]
BY DEF Fine, Readings, ReadingsType

LEMMA BecomesIs ==
    ASSUME NEW s, s \in ReadingsType, reader' = s.reader, read' = s.read
    PROVE  Readings' = s
BY DEF Readings, ReadingsType

\* Reads go on after the metadata only, and take nothing from the load.
LEMMA ReadsMove ==
    ASSUME NEW a, NEW s, NEW t, LoadFine(a, s), SameReads(s, t), a.phase # "metadata",
           s.reader.cache \subseteq t.reader.cache
    PROVE  LoadFine(a, t)
<1>1. \A r \in Reads : /\ t.read[r].url = s.read[r].url /\ t.read[r].kind = s.read[r].kind
                       /\ t.read[r].phase = "unused" <=> s.read[r].phase = "unused"
  BY DEF SameReads
<1>2. QED
  BY <1>1 DEF LoadFine

LEMMA BecameIsSame ==
    ASSUME NEW s, NEW u, NEW r \in Reads, Became(s, u, r, s.read[r]), s.read[r].phase # "unused"
    PROVE  SameReads(s, u)
BY DEF Became, SameReads

\* A new read, of kind served, leaves the others and the load as they are.
LEMMA ServedIsNew ==
    ASSUME NEW a, NEW s, NEW t, LoadFine(a, s), a.phase = "ready", NEW r \in Reads,
           \A q \in Reads : q # r => t.read[q] = s.read[q],
           s.reader.cache \subseteq t.reader.cache
    PROVE  LoadFine(a, t)
BY DEF LoadFine

-----------------------------------------------------------------------------
(* The steps                                                               *)

LEMMA LoadStepsKeep ==
    ASSUME NativeConstants, NativeInv, LoadSteps
    PROVE  NativeInv'
<1>1. /\ Fine(Readings) /\ LoadFine(account, Readings) /\ account \in AccountType
      /\ Readings \in ReadingsType /\ Readings.reader = reader /\ Readings.read = read
      /\ reader \in [cache : SUBSET Sources, attempts : Nat, total : Nat]
      /\ read \in [Reads -> ReadRecord]
  BY ReadingsAre DEF NativeInv, LoadFine
<1>2. ASSUME UNCHANGED <<serving, conversation, repositories>>, Fine(Readings'),
             LoadFine(account', Readings')
      PROVE  NativeInv'
  BY <1>2 DEF NativeInv, ProfilesFine, Fine, LoadFine
<1>3. ASSUME UNCHANGED <<reader, read>> PROVE Readings' = Readings
  BY <1>3 DEF Readings
<1>4. ASSUME LoadFails, UNCHANGED <<reader, read>>, account.phase \in {"metadata", "files"}
      PROVE  LoadFine(account', Readings)
  <2>1. /\ account' \in AccountType /\ account'.phase = "failed"
        /\ account'.plugins = account.plugins
    BY <1>1, <1>4 DEF LoadFails, AccountType
  <2>2. QED
    BY <1>1, <1>4, <2>1 DEF LoadFine
<1>5. CASE AnswerRpc
  <2>1. /\ account' \in AccountType /\ account'.phase = "metadata"
        /\ account'.plugins = account.plugins /\ account.phase = "metadata"
    BY <1>1, <1>5 DEF AnswerRpc, AccountType, Metadata
  <2>2. LoadFine(account', Readings)
    BY <1>1, <2>1 DEF LoadFine
  <2>3. QED
    BY <1>1, <1>2, <1>3, <1>5, <2>2 DEF AnswerRpc
<1>6. CASE RpcFails
  BY <1>1, <1>2, <1>3, <1>4, <1>6 DEF RpcFails
<1>7. ASSUME NEW skill \in Skills, NEW team \in {"absent", "valid", "invalid"},
             NEW user \in {"absent", "valid", "invalid"}, LastAnswer(skill, team, user)
      PROVE  NativeInv'
  <2>1. account.phase = "metadata" /\ UNCHANGED <<serving, conversation, repositories>>
    BY <1>7 DEF LastAnswer
  <2>2. CASE Validated(account.plugins) /\ reader' = Load(account.plugins).reader
             /\ read' = Load(account.plugins).read
             /\ account' = [account EXCEPT !.phase = "files", !.answered = Metadata]
    <3>1. account.plugins \in SUBSET Plugins /\ \A r \in Reads : read[r] = NoRead
      BY <1>1, <2>1 DEF LoadFine, AccountType
    <3> DEFINE t == Load(account.plugins)
    <3>2. /\ Fine(t) /\ \A r \in Reads : t.read[r].kind # "served"
          /\ \A p \in Enabled(account.plugins) : p.wanted =>
               \E r \in Reads : t.read[r].kind = "declared" /\ t.read[r].url = p.url
      BY <1>1, <2>2, <3>1, LoadKeeps
    <3> HIDE DEF t
    <3>3. Readings' = t
      BY <2>2, <3>2, BecomesIs DEF Fine, t
    <3> Metadata \in 0..Metadata
      BY DEF Metadata
    <3>4. /\ account' \in AccountType /\ account'.phase = "files"
          /\ account'.plugins = account.plugins
      BY <1>1, <2>2 DEF AccountType
    <3>5. LoadFine(account', t)
      BY <2>2, <3>2, <3>4 DEF LoadFine, Wanted
    <3>6. QED
      BY <1>2, <2>1, <3>2, <3>3, <3>5
  <2>3. CASE LoadFails /\ UNCHANGED <<reader, read>>
    BY <1>1, <1>2, <1>3, <1>4, <2>1, <2>3
  <2>4. QED
    BY <1>7, <2>2, <2>3 DEF LastAnswer
<1>8. CASE FilesSettle
  <2>1. /\ account.phase = "files" /\ UNCHANGED <<serving, conversation, repositories>>
        /\ UNCHANGED <<reader, read>>
    BY <1>8 DEF FilesSettle
  <2>2. CASE LoadFails
    BY <1>1, <1>2, <1>3, <1>4, <2>1, <2>2
  <2>3. CASE /\ \A r \in Declared : read[r].phase = "done" /\ read[r].url \notin Broken
             /\ account' = [account EXCEPT !.phase = "ready"]
    <3>1. /\ account' \in AccountType /\ account'.phase = "ready"
          /\ account'.plugins = account.plugins
      BY <1>1, <2>3 DEF AccountType
    <3>2. ASSUME NEW p \in Wanted(account.plugins)
          PROVE  p.front = "fine" /\ p.url \in reader.cache
      <4>1. PICK r \in Reads : read[r].kind = "declared" /\ read[r].url = p.url
        BY <1>1, <2>1 DEF LoadFine
      <4>2. read[r].phase = "done" /\ p.url \notin Broken
        BY <2>3, <4>1 DEF Declared
      <4>3. p \in Plugins /\ p \in PluginRecord /\ p \in Enabled(account.plugins) /\ p.wanted
        BY <1>1 DEF Wanted, Enabled, AccountType, NativeConstants
      <4>4. p.front = "fine"
        BY <4>2, <4>3 DEF Broken, PluginRecord
      <4>5. p.url \in Sources
        BY <4>3 DEF PluginRecord
      <4>6. ReadFine(Readings, read[r])
        BY <1>1 DEF Fine
      <4>7. QED
        BY <1>1, <4>1, <4>2, <4>4, <4>5, <4>6 DEF ReadFine
    <3>3. LoadFine(account', Readings)
      BY <1>1, <2>1, <3>1, <3>2 DEF LoadFine
    <3>4. QED
      BY <1>1, <1>2, <1>3, <2>1, <3>3
  <2>4. QED
    BY <1>8, <2>2, <2>3 DEF FilesSettle
<1>9. CASE Invalidate
  <2> DEFINE t == AbortReads(Readings, Reads)
  <2>1. Fine(t) /\ SameReads(Readings, t) /\ t.reader = Readings.reader
    BY <1>1, AbortKeeps
  <2>2. /\ reader' = t.reader /\ read' = t.read
        /\ account' = [account EXCEPT !.aborted = TRUE,
                                      !.phase = IF @ = "ready" THEN @ ELSE "failed"]
        /\ UNCHANGED <<serving, conversation, repositories>>
    BY <1>9 DEF Invalidate
  <2> HIDE DEF t
  <2>3. Readings' = t
    BY <2>1, <2>2, BecomesIs DEF Fine
  <2>4. /\ account' \in AccountType /\ account'.plugins = account.plugins
        /\ account'.phase = IF account.phase = "ready" THEN "ready" ELSE "failed"
    BY <1>1, <2>2 DEF AccountType
  <2>5. \A r \in Reads : /\ t.read[r].kind = read[r].kind
                         /\ t.read[r].phase = "unused" <=> read[r].phase = "unused"
    BY <1>1, <2>1 DEF SameReads
  <2>6. LoadFine(account', t)
    BY <1>1, <2>1, <2>4, <2>5 DEF LoadFine
  <2>7. QED
    BY <1>2, <2>1, <2>2, <2>3, <2>6
<1>10. QED
  BY <1>5, <1>6, <1>7, <1>8, <1>9 DEF LoadSteps

\* What is told to a Run changes nothing but the read's reply.
LEMMA ReplyKeeps ==
    ASSUME NativeConstants, NEW s, Fine(s), NEW r \in Reads, NEW y \in ReadRecord,
           s.read[r].phase \in {"done", "failed"}, y = [s.read[r] EXCEPT !.reply = y.reply],
           y.reply = "success" => y.phase = "done", y.reply = "error" => y.phase = "failed"
    PROVE  /\ Fine(Put(s, r, y, s.reader.attempts))
           /\ SameReads(s, Put(s, r, y, s.reader.attempts))
<1> DEFINE t == Put(s, r, y, s.reader.attempts)
           x == s.read[r]
<1>1. /\ s \in ReadingsType /\ ReaderFine(s) /\ \A q \in Reads : ReadFine(s, s.read[q])
      /\ s.reader.attempts \in Nat /\ x \in ReadRecord
  BY DEF Fine, ReadingsType
<1>2. /\ t \in ReadingsType /\ t.reader.cache = s.reader.cache /\ t.reader.total = s.reader.total
      /\ t.reader.attempts = s.reader.attempts /\ t.read[r] = y
      /\ \A q \in Reads : q # r => t.read[q] = s.read[q]
  BY <1>1, PutIs
<1>3. /\ y.url = x.url /\ y.kind = x.kind /\ y.phase = x.phase /\ y.racing = x.racing
      /\ y.woken = x.woken /\ y.fetched = x.fetched /\ y.why = x.why
  <2>1. \A z : LET w == [x EXCEPT !.reply = z]
               IN  /\ w.url = x.url /\ w.kind = x.kind /\ w.phase = x.phase
                   /\ w.racing = x.racing /\ w.woken = x.woken /\ w.fetched = x.fetched
                   /\ w.why = x.why
    BY <1>1 DEF ReadRecord
  <2>2. y = [x EXCEPT !.reply = y.reply]
    OBVIOUS
  <2> HIDE DEF x
  <2>3. QED
    BY <2>1, <2>2
<1> HIDE DEF t
<1>4. ActiveIn(t) = ActiveIn(s) /\ FetchedIn(t) = FetchedIn(s)
  BY <1>2, <1>3 DEF ActiveIn, FetchedIn
<1>5. ReaderFine(t)
  BY <1>1, <1>2, <1>4 DEF ReaderFine
<1>6. ASSUME NEW q \in Reads, q # r PROVE ReadFine(t, t.read[q])
  <2>1. ReadFine(s, s.read[q]) /\ t.read[q] = s.read[q]
    BY <1>1, <1>2, <1>6
  <2>2. QED
    BY <1>2, <1>4, <2>1 DEF ReadFine
<1>7. ReadFine(t, y)
  <2>1. ReadFine(s, x)
    BY <1>1
  <2>2. QED
    BY <1>2, <1>3, <2>1 DEF ReadFine
<1>8. Fine(t)
  BY <1>2, <1>5, <1>6, <1>7 DEF Fine
<1>9. SameReads(s, t)
  BY <1>2, <1>3 DEF SameReads
<1>10. QED
  BY <1>8, <1>9 DEF t

LEMMA SourceReadsKeep ==
    ASSUME NativeConstants, NativeInv, SourceReads
    PROVE  NativeInv'
<1>1. /\ Fine(Readings) /\ LoadFine(account, Readings)
      /\ Readings \in ReadingsType /\ Readings.reader = reader /\ Readings.read = read
      /\ read \in [Reads -> ReadRecord]
  BY ReadingsAre DEF NativeInv
<1>2. PICK r \in Reads : \/ FetchCompletes(r) \/ FetchFails(r) \/ LookAgain(r)
                         \/ ReadTimesOut(r) \/ Reply(r)
  BY DEF SourceReads
<1>3. account.phase # "metadata" /\ read[r].phase # "unused"
  <2>1. read[r].phase # "unused"
    BY <1>2 DEF FetchCompletes, FetchFails, LookAgain, ReadTimesOut, Reply
  <2>2. read[r] # NoRead
    BY <2>1 DEF NoRead
  <2>3. QED
    BY <1>1, <2>1, <2>2 DEF LoadFine
<1>4. ASSUME NEW t, Fine(t), SameReads(Readings, t), Readings.reader.cache \subseteq t.reader.cache,
             reader' = t.reader, read' = t.read,
             UNCHANGED <<account, serving, conversation, repositories>>
      PROVE  NativeInv'
  <2>1. Readings' = t
    BY <1>4, BecomesIs DEF Fine
  <2>2. LoadFine(account, t)
    BY <1>1, <1>3, <1>4, ReadsMove
  <2>3. Fine(Readings)' /\ LoadFine(account, Readings)'
    BY <1>4, <2>1, <2>2 DEF Fine, LoadFine
  <2>4. QED
    BY <1>4, <2>3 DEF NativeInv, ProfilesFine
<1>5. CASE FetchCompletes(r)
  <2> DEFINE t == Complete(Readings, r)
  <2>1. /\ Fine(t) /\ SameReads(Readings, t) /\ Readings.reader.cache \subseteq t.reader.cache
    BY <1>1, <1>5, CompleteKeeps DEF FetchCompletes
  <2>2. /\ reader' = t.reader /\ read' = t.read
        /\ UNCHANGED <<account, serving, conversation, repositories>>
    BY <1>5 DEF FetchCompletes, Becomes
  <2> HIDE DEF t
  <2>3. QED
    BY <1>4, <2>1, <2>2
<1>6. CASE FetchFails(r)
  <2> DEFINE t == Over(Readings, {r}, "failed", "source")
  <2>1. /\ Fine(t) /\ SameReads(Readings, t) /\ t.reader = Readings.reader
    BY <1>1, <1>6, FailKeeps DEF FetchFails
  <2>2. /\ reader' = t.reader /\ read' = t.read
        /\ UNCHANGED <<account, serving, conversation, repositories>>
    BY <1>6 DEF FetchFails, Becomes
  <2> HIDE DEF t
  <2>3. QED
    BY <1>4, <2>1, <2>2
<1>7. CASE LookAgain(r)
  <2> DEFINE t == LoopAgain(Readings, r)
  <2>1. Became(Readings, t, r, Readings.read[r])
    BY <1>1, <1>7, LoopKeeps DEF LookAgain
  <2>2. /\ reader' = t.reader /\ read' = t.read
        /\ UNCHANGED <<account, serving, conversation, repositories>>
    BY <1>7 DEF LookAgain, Becomes
  <2> HIDE DEF t
  <2>3. Fine(t) /\ SameReads(Readings, t) /\ t.reader.cache = Readings.reader.cache
    BY <1>1, <1>3, <2>1, BecameIsSame DEF Became
  <2>4. QED
    BY <1>4, <2>2, <2>3
<1>8. CASE ReadTimesOut(r)
  <2> DEFINE t == AbortReads(Readings, {r})
  <2>1. /\ Fine(t) /\ SameReads(Readings, t) /\ t.reader = Readings.reader
    BY <1>1, AbortKeeps
  <2>2. /\ reader' = t.reader /\ read' = t.read
        /\ UNCHANGED <<account, serving, conversation, repositories>>
    BY <1>8 DEF ReadTimesOut, Becomes
  <2> HIDE DEF t
  <2>3. QED
    BY <1>4, <2>1, <2>2
<1>9. CASE Reply(r)
  <2> DEFINE said == CASE serving.ended -> "dropped"
                       [] ~serving.ended /\ read[r].phase = "done" -> "success"
                       [] OTHER -> "error"
             y == [read[r] EXCEPT !.reply = said]
             t == Put(Readings, r, y, reader.attempts)
  <2>1. /\ read[r].phase \in {"done", "failed"}
        /\ read' = [read EXCEPT ![r] = y]
        /\ UNCHANGED <<account, reader, serving, conversation, repositories>>
    BY <1>1, <1>9 DEF Reply
  <2>2. /\ said \in {"dropped", "success", "error"}
        /\ said = "success" => read[r].phase = "done"
        /\ said = "error" => read[r].phase = "failed"
    BY <2>1
  <2> HIDE DEF said
  <2>3. y \in ReadRecord /\ y.reply = said /\ y.phase = read[r].phase
    BY <1>1, <2>2 DEF ReadRecord
  <2> HIDE DEF y
  <2>4. y = [Readings.read[r] EXCEPT !.reply = y.reply]
    BY <1>1, <2>3 DEF y
  <2>5. Fine(t) /\ SameReads(Readings, t)
    BY <1>1, <2>1, <2>2, <2>3, <2>4, ReplyKeeps
  <2>6. reader' = t.reader /\ read' = t.read
    <3>1. [reader EXCEPT !.attempts = reader.attempts] = reader
      BY <1>1 DEF ReadingsType
    <3>2. QED
      BY <1>1, <2>1, <3>1 DEF Put
  <2>7. Readings.reader.cache \subseteq t.reader.cache
    BY <1>1, <2>1, <2>6
  <2> HIDE DEF t
  <2>8. QED
    BY <1>4, <2>1, <2>5, <2>6, <2>7
<1>10. QED
  BY <1>2, <1>5, <1>6, <1>7, <1>8, <1>9

\* The next read is one that was never used.
LEMMA NextReadIs ==
    ASSUME NativeConstants, HasRead
    PROVE  NextRead \in Reads /\ read[NextRead].phase = "unused"
<1> DEFINE P(r) == /\ read[r].phase = "unused" /\ \A q \in 1..(r - 1) : read[q].phase # "unused"
           free == {r \in Reads : read[r].phase = "unused"}
<1>1. MaxReads \in Nat \ {0}
  BY DEF NativeConstants
<1>2. MaxReads \in free /\ free \in SUBSET Nat
  BY <1>1 DEF HasRead, Reads
<1>3. PICK n \in free : \A m \in free : n <= m
  BY <1>2, LeastOf
<1>4. n \in Reads /\ read[n].phase = "unused"
  BY <1>3
<1>5. ASSUME NEW q \in 1..(n - 1) PROVE read[q].phase # "unused"
  <2>1. q \in Reads /\ ~(n <= q)
    BY <1>1, <1>4 DEF Reads
  <2>2. QED
    BY <1>3, <2>1
<1>6. P(n)
  BY <1>4, <1>5
<1>7. NextRead = CHOOSE r \in Reads : P(r)
  BY DEF NextRead
<1> HIDE DEF P
<1>8. NextRead \in Reads /\ P(NextRead)
  BY <1>4, <1>6, <1>7
<1>9. QED
  BY <1>8 DEF P

LEMMA RunReadsKeep ==
    ASSUME NativeConstants, NativeInv, RunReads
    PROVE  NativeInv'
<1>1. /\ Fine(Readings) /\ LoadFine(account, Readings)
      /\ Readings \in ReadingsType /\ Readings.reader = reader /\ Readings.read = read
      /\ reader \in [cache : SUBSET Sources, attempts : Nat, total : Nat]
      /\ read \in [Reads -> ReadRecord]
      /\ serving \in [ended : BOOLEAN, process : {"up", "down"}]
  BY ReadingsAre DEF NativeInv
<1>2. ASSUME NEW t, Fine(t), LoadFine(account, t), reader' = t.reader, read' = t.read,
             serving' \in [ended : BOOLEAN, process : {"up", "down"}],
             UNCHANGED <<account, conversation, repositories>>
      PROVE  NativeInv'
  <2>1. Readings' = t
    BY <1>2, BecomesIs DEF Fine
  <2>2. Fine(Readings)' /\ LoadFine(account, Readings)'
    BY <1>2, <2>1 DEF Fine, LoadFine
  <2>3. QED
    BY <1>2, <2>2 DEF NativeInv, ProfilesFine
<1>3. ASSUME NEW path \in Paths, ServeRead(path) PROVE NativeInv'
  <2> DEFINE r == NextRead
             owned == [NoRead EXCEPT !.url = "none", !.kind = "served"]
  <2>1. /\ account.phase = "ready" /\ HasRead
        /\ UNCHANGED <<account, conversation, repositories>>
    BY <1>3 DEF ServeRead
  <2>2. r \in Reads /\ read[r].phase = "unused"
    BY <2>1, NextReadIs
  <2>3. /\ owned \in ReadRecord /\ owned.url = "none" /\ ~owned.fetched
        /\ owned.why = "none" /\ owned.reply = "none"
    BY DEF ReadRecord, ReadPhases, NoRead
  <2> HIDE DEF r
  <2>4. ASSUME NEW y \in ReadRecord, y.url = "none", ~y.fetched, y.phase \in {"done", "failed"},
               y.why \in {"none", "aborted"}, y.reply \notin {"success", "error"},
               read' = [read EXCEPT ![r] = y], reader' = reader,
               serving' \in [ended : BOOLEAN, process : {"up", "down"}]
        PROVE  NativeInv'
    <3> DEFINE t == Put(Readings, r, y, reader.attempts)
    <3>1. reader.attempts \in Nat /\ reader.attempts <= reader.attempts
      BY <1>1
    <3>2. y.url \notin Sources
      BY <2>4, Numbers
    <3>3. Fine(t)
      BY <1>1, <2>2, <2>4, <3>1, <3>2, PutKeeps
    <3>4. t.reader = reader /\ t.read = [read EXCEPT ![r] = y]
      <4>1. [reader EXCEPT !.attempts = reader.attempts] = reader
        BY <1>1
      <4>2. QED
        BY <1>1, <4>1 DEF Put
    <3> HIDE DEF t
    <3>5. /\ \A q \in Reads : q # r => t.read[q] = Readings.read[q]
          /\ Readings.reader.cache \subseteq t.reader.cache
      BY <1>1, <3>4
    <3>6. LoadFine(account, t)
      BY <1>1, <2>1, <2>2, <3>5, ServedIsNew
    <3>7. QED
      BY <1>2, <2>1, <2>4, <3>3, <3>4, <3>6
  <2>5. CASE /\ path = "invalid"
             /\ read' = [read EXCEPT ![r] = [owned EXCEPT !.phase = "done",
                           !.reply = IF serving.ended THEN "dropped" ELSE "rejected"]]
             /\ UNCHANGED <<reader, serving>>
    <3> DEFINE y == [owned EXCEPT !.phase = "done",
                                  !.reply = IF serving.ended THEN "dropped" ELSE "rejected"]
    <3>1. /\ y \in ReadRecord /\ y.url = "none" /\ ~y.fetched /\ y.phase = "done"
          /\ y.why = "none" /\ y.reply \notin {"success", "error"}
      BY DEF ReadRecord, ReadPhases, NoRead
    <3>2. read' = [read EXCEPT ![r] = y]
      BY <2>5
    <3> HIDE DEF y
    <3>3. QED
      BY <1>1, <2>4, <2>5, <3>1, <3>2
  <2>6. CASE /\ path = "unowned"
             /\ read' = [read EXCEPT ![r] = [owned EXCEPT !.phase = "done", !.reply = "routed"]]
             /\ UNCHANGED <<reader, serving>>
    <3> DEFINE y == [owned EXCEPT !.phase = "done", !.reply = "routed"]
    <3>1. /\ y \in ReadRecord /\ y.url = "none" /\ ~y.fetched /\ y.phase = "done"
          /\ y.why = "none" /\ y.reply \notin {"success", "error"}
      BY DEF ReadRecord, ReadPhases, NoRead
    <3>2. read' = [read EXCEPT ![r] = y]
      BY <2>6
    <3> HIDE DEF y
    <3>3. QED
      BY <1>1, <2>4, <2>6, <3>1, <3>2
  <2>7. CASE /\ read' = [read EXCEPT ![r] = [owned EXCEPT !.phase = "failed",
                                                          !.why = "aborted"]]
             /\ serving' = [serving EXCEPT !.process = IF serving.ended THEN "down" ELSE @]
             /\ UNCHANGED reader
    <3> DEFINE y == [owned EXCEPT !.phase = "failed", !.why = "aborted"]
    <3>1. /\ y \in ReadRecord /\ y.url = "none" /\ ~y.fetched /\ y.phase = "failed"
          /\ y.why = "aborted" /\ y.reply \notin {"success", "error"}
      BY DEF ReadRecord, ReadPhases, NoRead
    <3>2. read' = [read EXCEPT ![r] = y]
      BY <2>7
    <3>3. serving' \in [ended : BOOLEAN, process : {"up", "down"}]
      BY <1>1, <2>7
    <3> HIDE DEF y
    <3>4. QED
      BY <2>4, <2>7, <3>1, <3>2, <3>3
  <2>8. CASE /\ read' = [read EXCEPT ![r] = [owned EXCEPT !.phase = "done"]]
             /\ UNCHANGED <<reader, serving>>
    <3> DEFINE y == [owned EXCEPT !.phase = "done"]
    <3>1. /\ y \in ReadRecord /\ y.url = "none" /\ ~y.fetched /\ y.phase = "done"
          /\ y.why = "none" /\ y.reply \notin {"success", "error"}
      BY DEF ReadRecord, ReadPhases, NoRead
    <3>2. read' = [read EXCEPT ![r] = y]
      BY <2>8
    <3> HIDE DEF y
    <3>3. QED
      BY <1>1, <2>4, <2>8, <3>1, <3>2
  <2>9. CASE /\ path \in Sources /\ Becomes(Ask(Readings, r, path, "served"))
             /\ UNCHANGED serving
    <3> DEFINE t == Ask(Readings, r, path, "served")
    <3>1. Became(Readings, t, r, [NoRead EXCEPT !.url = path, !.kind = "served"])
      BY <1>1, <2>2, <2>9, AskKeeps
    <3>2. reader' = t.reader /\ read' = t.read
      BY <2>9 DEF Becomes
    <3> HIDE DEF t
    <3>3. /\ Fine(t) /\ \A q \in Reads : q # r => t.read[q] = Readings.read[q]
          /\ Readings.reader.cache \subseteq t.reader.cache
      BY <3>1 DEF Became
    <3>4. LoadFine(account, t)
      BY <1>1, <2>1, <2>2, <3>3, ServedIsNew
    <3>5. QED
      BY <1>1, <1>2, <2>1, <2>9, <3>2, <3>3, <3>4
  <2>10. QED
    BY <1>3, <2>5, <2>6, <2>7, <2>8, <2>9 DEF ServeRead, r
<1>4. CASE RunEnds
  <2> DEFINE t == AbortReads(Readings, {r \in Reads : read[r].kind = "served"})
  <2>1. /\ account.phase = "ready" /\ reader' = t.reader /\ read' = t.read
        /\ serving' = [serving EXCEPT !.ended = TRUE]
        /\ UNCHANGED <<account, conversation, repositories>>
    BY <1>4 DEF RunEnds, Becomes
  <2>2. /\ Fine(t) /\ SameReads(Readings, t) /\ t.reader = Readings.reader
    BY <1>1, AbortKeeps
  <2> HIDE DEF t
  <2>3. LoadFine(account, t)
    BY <1>1, <2>1, <2>2, ReadsMove
  <2>4. serving' \in [ended : BOOLEAN, process : {"up", "down"}]
    BY <1>1, <2>1
  <2>5. QED
    BY <1>2, <2>1, <2>2, <2>3, <2>4
<1>5. QED
  BY <1>3, <1>4 DEF RunReads

\* A conversation takes the name of its profile's repository, or gives it one.
LEMMA ConversationsKeep ==
    ASSUME NativeInv, ConversationsOpen
    PROVE  NativeInv'
<1>1. PICK c \in Conversations, profile \in Profiles, persisted \in Persisted \cup {NoName} :
        OpenConversation(c, profile, persisted)
  BY DEF ConversationsOpen
<1>2. /\ conversation \in [Conversations -> ConversationType] /\ repositories \in [Profiles -> ProfileNames]
      /\ \A d \in Conversations : conversation[d].name # NoName =>
           /\ conversation[d].profile \in Profiles
           /\ repositories[conversation[d].profile] = conversation[d].name
           /\ conversation[d].persisted \in {NoName, conversation[d].name}
  BY DEF NativeInv, ProfilesFine
<1>3. UNCHANGED <<account, reader, read, serving>> /\ conversation[c].name = NoName
  BY <1>1 DEF OpenConversation
<1>4. ProfilesFine(conversation', repositories')
  <2> DEFINE known == repositories[profile]
             name == CASE known # NoName -> known
                       [] known = NoName /\ persisted # NoName -> persisted
                       [] OTHER -> Fresh(c)
             opened == [name |-> name, profile |-> profile, persisted |-> persisted]
  <2>1. CASE UNCHANGED <<conversation, repositories>>
    BY <1>2, <2>1 DEF ProfilesFine
  <2>2. CASE /\ ~(known # NoName /\ persisted \notin {NoName, known})
             /\ conversation' = [conversation EXCEPT ![c] = opened]
             /\ repositories' = [repositories EXCEPT ![profile] = name]
    <3>1. /\ name \in ProfileNames /\ known \in ProfileNames
          /\ known # NoName => name = known
          /\ persisted \in {NoName, name}
      BY <1>2, <2>2 DEF ProfileNames
    <3> HIDE DEF name, known
    <3>2. opened \in ConversationType
      BY <3>1 DEF ConversationType
    <3>3. conversation' \in [Conversations -> ConversationType] /\ repositories' \in [Profiles -> ProfileNames]
      BY <1>2, <2>2, <3>1, <3>2
    <3>4. ASSUME NEW d \in Conversations, conversation'[d].name # NoName
          PROVE  /\ conversation'[d].profile \in Profiles
                 /\ repositories'[conversation'[d].profile] = conversation'[d].name
                 /\ conversation'[d].persisted \in {NoName, conversation'[d].name}
      <4>1. CASE d = c
        BY <1>2, <2>2, <3>1, <4>1
      <4>2. CASE d # c
        <5>1. conversation'[d] = conversation[d]
          BY <1>2, <2>2, <4>2
        <5>2. conversation[d].profile = profile => known = conversation[d].name
          BY <1>2, <3>4, <5>1 DEF known
        <5>3. conversation[d].profile = profile => name = conversation[d].name
          BY <3>1, <3>4, <5>1, <5>2
        <5>4. QED
          BY <1>2, <2>2, <3>4, <5>1, <5>3
      <4>3. QED
        BY <4>1, <4>2
    <3>5. QED
      BY <3>3, <3>4 DEF ProfilesFine
  <2>3. QED
    BY <1>1, <2>1, <2>2 DEF OpenConversation
<1>5. Fine(Readings)' /\ LoadFine(account, Readings)'
  <2>1. Readings' = Readings
    BY <1>3 DEF Readings
  <2>2. QED
    BY <1>3, <2>1 DEF NativeInv, Fine, LoadFine
<1>6. QED
  BY <1>3, <1>4, <1>5 DEF NativeInv, ProfilesFine

LEMMA NativeStarts ==
    ASSUME NativeConstants, NativeInit
    PROVE  NativeInv
<1>1. PICK plugins \in SUBSET Plugins :
        account = [phase |-> "metadata", answered |-> 0, plugins |-> plugins, aborted |-> FALSE]
  BY DEF NativeInit
<1>2. account \in AccountType /\ account.phase = "metadata"
  BY <1>1 DEF AccountType, Metadata
<1>3. /\ Readings.reader = [cache |-> {}, attempts |-> 0, total |-> 0]
      /\ Readings.read = [r \in Reads |-> NoRead]
      /\ Readings = [reader |-> Readings.reader, read |-> Readings.read]
  BY DEF NativeInit, Readings
<1>4. NoRead \in ReadRecord /\ NoRead.phase = "unused" /\ NoRead.kind = "unused"
      /\ NoRead.why = "none" /\ NoRead.reply = "none" /\ ~NoRead.fetched
  BY DEF NoRead, ReadRecord, ReadPhases
<1>5. Readings \in ReadingsType
  <2>1. Readings.read \in [Reads -> ReadRecord]
    BY <1>3, <1>4
  <2>2. Readings.reader \in [cache : SUBSET Sources, attempts : Nat, total : Nat]
    BY <1>3
  <2>3. QED
    BY <1>3, <2>1, <2>2 DEF ReadingsType
<1>6. \A r \in Reads : Readings.read[r] = NoRead
  BY <1>3
<1>7. ReaderFine(Readings)
  <2>1. ActiveIn(Readings) = {} /\ FetchedIn(Readings) = {}
    BY <1>4, <1>6 DEF ActiveIn, FetchedIn
  <2>2. IsFiniteSet({}) /\ Cardinality({}) = 0
    BY FS_EmptySet
  <2>3. Kept({}) = 0
    <3>1. Additive([t \in SUBSET {} |-> 0], SizeOf, {})
      BY DEF Additive
    <3>2. QED
      BY <2>2, <3>1, KeptIs
  <2>4. QED
    BY <1>3, <2>1, <2>2, <2>3, Numbers DEF ReaderFine
<1>8. Fine(Readings)
  BY <1>4, <1>5, <1>6, <1>7 DEF Fine, ReadFine
<1>9. LoadFine(account, Readings)
  BY <1>2, <1>4, <1>6 DEF LoadFine
<1>10. ProfilesFine(conversation, repositories)
  BY DEF NativeInit, ProfilesFine, ConversationType, ProfileNames
<1>11. serving \in [ended : BOOLEAN, process : {"up", "down"}]
  BY DEF NativeInit
<1>12. QED
  BY <1>8, <1>9, <1>10, <1>11 DEF NativeInv

LEMMA NativeSays ==
    ASSUME NativeConstants, NativeInv
    PROVE  NativeSound
<1>1. /\ Fine(Readings) /\ LoadFine(account, Readings) /\ ProfilesFine(conversation, repositories)
      /\ Readings.reader = reader /\ Readings.read = read
      /\ reader \in [cache : SUBSET Sources, attempts : Nat, total : Nat]
      /\ read \in [Reads -> ReadRecord] /\ account \in AccountType
  BY ReadingsAre DEF NativeInv, LoadFine
<1>2. ReaderFine(Readings) /\ \A r \in Reads : ReadFine(Readings, read[r])
  BY <1>1 DEF Fine
<1>3. ActiveIn(Readings) = Active /\ FetchedIn(Readings) = {r \in Reads : read[r].fetched}
  BY <1>1 DEF ActiveIn, Active, FetchedIn
<1>4. NativeTypeOK
  BY <1>1 DEF NativeTypeOK, AccountType, ReadRecord, ReadPhases
<1>5. ReaderSound
  <2>1. /\ Cardinality(Active) <= ActiveLimit
        /\ Cardinality({r \in Reads : read[r].fetched}) <= MaxFiles
        /\ \A url \in reader.cache : SizeOf[url] <= MaxBytes
        /\ FoldSet(AddBytes, 0, reader.cache) <= MaxTotalBytes
    BY <1>1, <1>2, <1>3 DEF ReaderFine, Kept
  <2>2. ASSUME NEW r \in Reads
        PROVE  /\ read[r].phase = "waiting" => read[r].woken \/ read[r].racing \cap Active # {}
               /\ read[r].why \in {"source", "bytes"} => read[r].fetched
               /\ read[r].phase = "done" /\ read[r].url \in Sources => Cached(read[r].url)
    BY <1>1, <1>2, <1>3 DEF ReadFine, Cached
  <2>3. QED
    BY <2>1, <2>2 DEF ReaderSound
<1>6. LoadSound
  <2>1. (\E r \in Reads : read[r].phase # "unused") => Validated(account.plugins)
    BY <1>1 DEF LoadFine
  <2>2. account.phase = "ready" => \A p \in Wanted(account.plugins) :
          p.front = "fine" /\ p.url \in reader.cache
    BY <1>1 DEF LoadFine
  <2>3. QED
    BY <2>1, <2>2 DEF LoadSound, Validated, ValidSource, Wanted, Cached
<1>7. RepliesSound
  BY <1>1, <1>2 DEF RepliesSound, ReadFine, LoadFine
<1>8. ProfilesAgree
  BY <1>1 DEF ProfilesAgree, ProfilesFine
<1>9. SlicesSound
  <2>1. \A total \in 1..3, offset \in -4..5, limit \in -1..3 : SliceRight(total, offset, limit)
    BY SliceIs
  <2>2. QED
    BY <2>1 DEF SlicesSound, SliceRight
<1>10. QED
  BY <1>4, <1>5, <1>6, <1>7, <1>8, <1>9 DEF NativeSound

\* Whatever the files of an account, and however its reads, Runs and conversations
\* interleave, what NativeSound says holds.
THEOREM ContextIsReadWithinItsLimits ==
    ASSUME NativeConstants
    PROVE  NativeSpec => []NativeSound
<1>1. NativeInit => NativeInv
  BY NativeStarts
<1>2. NativeInv /\ [NativeNext]_nativeVars => NativeInv'
  <2> SUFFICES ASSUME NativeInv, [NativeNext]_nativeVars PROVE NativeInv'
    OBVIOUS
  <2>1. CASE UNCHANGED nativeVars
    <3>1. Readings' = Readings
      BY <2>1 DEF Readings, nativeVars
    <3>2. Fine(Readings)' /\ LoadFine(account, Readings)'
      BY <2>1, <3>1 DEF NativeInv, Fine, LoadFine, nativeVars
    <3>3. QED
      BY <2>1, <3>2 DEF NativeInv, ProfilesFine, nativeVars
  <2>2. CASE NativeNext
    BY <2>2, LoadStepsKeep, SourceReadsKeep, RunReadsKeep, ConversationsKeep DEF NativeNext
  <2>3. QED
    BY <2>1, <2>2
<1>3. NativeInv => NativeSound
  BY NativeSays
<1>4. QED
  BY <1>1, <1>2, <1>3, PTL DEF NativeSpec
=============================================================================
