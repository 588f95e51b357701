--------------------------- MODULE CredentialCaches ---------------------------
(***************************************************************************)
(* What the bridge remembers of each credential, and how a change of the   *)
(* credentials takes it back: access tokens (auth.ts), the discovery slot  *)
(* of a credential with its cached endpoint and catalogue (discovery.ts,   *)
(* discovery-snapshot.ts) and the account usage (account-usage.ts), joined *)
(* by CursorApiBackend.updateCredentials.                                  *)
(*                                                                         *)
(* An operation is the async function of one caller; an action is the code *)
(* between two awaits.  A credential is its id and the API key configured  *)
(* for it; the data learned with a key is that key.  A time to live that   *)
(* runs out is an entry found missing.                                     *)
(***************************************************************************)
EXTENDS Naturals, FiniteSets

CONSTANTS
    CacheCreds,      \* credential ids
    ApiKeys,
    Off,             \* not a key: the credential is disabled or deleted
    Nobody,          \* no operation, no credential, no key
    Operations,      \* bound: the operations at a time
    Flights,         \* bound: the token exchanges at a time
    StartupRpcs      \* bound: the length of CURSOR_API_STARTUP_SEQUENCE

\* Nobody and Off stand for nothing that they are compared with.
ASSUME CacheAssumption ==
    /\ Nobody \notin CacheCreds \cup ApiKeys \cup Operations \cup Flights \cup {Off}
    /\ Off \notin ApiKeys
    /\ StartupRpcs \in Nat

VARIABLES
    config,          \* router.credentials(): the key of each enabled credential
    tokens,          \* auth.cached: the key whose token is cached
    refreshing,      \* auth.refreshes
    generation,      \* auth.generations
    flight,          \* the token exchanges under way
    slots,           \* discovery.slots
    advertised,      \* discovery.advertised
    listing,         \* discovery.listing: the operation, and its slot's credential
    initialized,     \* discovery.initialized
    usageRefresh,    \* usage.refreshes
    op               \* the operations

tokenVars == <<tokens, refreshing, generation, flight>>
discoveryVars == <<slots, advertised, listing, initialized>>
cacheVars == <<config, tokenVars, discoveryVars, usageRefresh, op>>

Kinds == {"list", "init", "probe", "prepare", "usage"}
SlotCaches == {"endpoint", "catalogue"}
MaybeKey == ApiKeys \cup {Nobody}
MaybeCred == CacheCreds \cup {Nobody}

\* valid: no invalidation since the exchange began (kept to state OneRefresh)
FlightState == [cred : MaybeCred, key : MaybeKey, valid : BOOLEAN]

SlotState ==
    [key : MaybeKey,                                     \* Nobody: there is no slot
     cache : [SlotCaches -> {"none", "loading", "ready"}],
     startup : Operations \cup {Nobody}]

OpState ==
    [stage : {"idle", "token", "entering", "startup", "load", "loaded", "failed"},
     kind : Kinds,
     cred : MaybeCred, key : MaybeKey,
     flight : Flights \cup {Nobody},     \* the exchange it waits for
     token : MaybeKey,                   \* the key its access token is of
     needs : SUBSET SlotCaches,          \* the caches it waits for
     rpcs : 0..StartupRpcs,              \* startup: requests left
     aborted : BOOLEAN,                  \* the controller of its slot was aborted
     again : BOOLEAN]                    \* the router may fail over to another credential

NoFlight == [cred |-> Nobody, key |-> Nobody, valid |-> FALSE]
NoSlot == [key |-> Nobody, cache |-> [x \in SlotCaches |-> "none"], startup |-> Nobody]
NoOp == [stage |-> "idle", kind |-> "list", cred |-> Nobody, key |-> Nobody,
         flight |-> Nobody, token |-> Nobody, needs |-> {}, rpcs |-> 0,
         aborted |-> FALSE, again |-> FALSE]
NoListing == [op |-> Nobody, cred |-> Nobody]
NotAdvertised == [cred |-> Nobody, key |-> Nobody]

CacheTypeOK ==
    /\ config \in [CacheCreds -> ApiKeys \cup {Off}]
    /\ tokens \in [CacheCreds -> MaybeKey]
    /\ refreshing \in [CacheCreds -> Flights \cup {Nobody}]
    /\ generation \in [CacheCreds -> Flights \cup {Nobody}]
    /\ flight \in [Flights -> FlightState]
    /\ slots \in [CacheCreds -> SlotState]
    /\ advertised \in [cred : MaybeCred, key : MaybeKey]
    /\ listing \in [op : Operations \cup {Nobody}, cred : MaybeCred]
    /\ initialized \in BOOLEAN
    /\ usageRefresh \in [CacheCreds -> Operations \cup {Nobody}]
    /\ op \in [Operations -> OpState]

CacheInit ==
    /\ config \in [CacheCreds -> ApiKeys \cup {Off}]
    /\ tokens = [c \in CacheCreds |-> Nobody]
    /\ refreshing = [c \in CacheCreds |-> Nobody]
    /\ generation = [c \in CacheCreds |-> Nobody]
    /\ flight = [f \in Flights |-> NoFlight]
    /\ slots = [c \in CacheCreds |-> NoSlot]
    /\ advertised = NotAdvertised
    /\ listing = NoListing
    /\ initialized = FALSE
    /\ usageRefresh = [c \in CacheCreds |-> Nobody]
    /\ op = [o \in Operations |-> NoOp]

-----------------------------------------------------------------------------
(* auth.ts                                                                 *)

\* getToken, called with the credential the router has just picked.  A cached token
\* may have come too near its expiration.
GetToken(o, kind, c, again) ==
    LET begun == [NoOp EXCEPT !.kind = kind, !.cred = c, !.key = config[c], !.again = again]
        waiting(f) == [begun EXCEPT !.stage = "token", !.flight = f]
    IN \/ /\ tokens[c] # Nobody
          /\ op' = [op EXCEPT ![o] = [begun EXCEPT !.stage = "entering", !.token = tokens[c]]]
          /\ UNCHANGED tokenVars
       \/ /\ refreshing[c] # Nobody
          /\ op' = [op EXCEPT ![o] = waiting(refreshing[c])]
          /\ UNCHANGED tokenVars
       \/ /\ refreshing[c] = Nobody
          /\ \E f \in {g \in Flights : flight[g] = NoFlight} :
                /\ flight' = [flight EXCEPT
                                ![f] = [cred |-> c, key |-> config[c], valid |-> TRUE]]
                /\ refreshing' = [refreshing EXCEPT ![c] = f]
                /\ generation' = [generation EXCEPT ![c] = f]
                /\ op' = [op EXCEPT ![o] = waiting(f)]
          /\ UNCHANGED tokens

\* Mutant: the exchange that ends forgets whichever exchange is under way.
Forget_Any(f) == [refreshing EXCEPT ![flight[f].cred] = Nobody]

\* finally of getToken: a later exchange of the credential stays known.
Forget(f) == [c \in CacheCreds |-> IF refreshing[c] = f THEN Nobody ELSE refreshing[c]]

Failed(o) == [op[o] EXCEPT !.stage = "failed", !.flight = Nobody, !.needs = {}, !.rpcs = 0]
FailedForGood(o) == [Failed(o) EXCEPT !.again = FALSE]

\* remember: CursorAuthInvalidatedError when the credential has changed meanwhile.
TokenArrives(f) ==
    LET c == flight[f].cred IN
    /\ flight[f] # NoFlight
    /\ IF generation[c] = f
       THEN /\ tokens' = [tokens EXCEPT ![c] = flight[f].key]
            /\ op' = [o \in Operations |->
                        IF op[o].flight # f THEN op[o]
                        ELSE [op[o] EXCEPT !.stage = "entering", !.flight = Nobody,
                                           !.token = flight[f].key]]
       ELSE /\ op' = [o \in Operations |->
                        IF op[o].flight # f THEN op[o] ELSE FailedForGood(o)]
            /\ UNCHANGED tokens
    /\ refreshing' = Forget(f)
    /\ flight' = [flight EXCEPT ![f] = NoFlight]
    /\ UNCHANGED <<config, generation, discoveryVars, usageRefresh>>

\* The exchange, the environment and the keychain have no token.
TokenFails(f) ==
    /\ flight[f] # NoFlight
    /\ op' = [o \in Operations |-> IF op[o].flight # f THEN op[o] ELSE Failed(o)]
    /\ refreshing' = Forget(f)
    /\ flight' = [flight EXCEPT ![f] = NoFlight]
    /\ UNCHANGED <<config, tokens, generation, discoveryVars, usageRefresh>>

-----------------------------------------------------------------------------
(* The operations begin                                                    *)

\* A caller of listModels or initialize joins the one under way, and a caller of the
\* usage of a credential joins its refresh: these begin no operation.
CanBegin(kind, c) ==
    CASE kind = "list" -> listing = NoListing
      [] kind = "init" -> ~initialized
                          /\ ~\E o \in Operations : op[o].stage # "idle" /\ op[o].kind = "init"
      [] kind = "usage" -> usageRefresh[c] = Nobody
      [] OTHER -> TRUE

Begin(o, kind, c) ==
    /\ op[o] = NoOp
    /\ config[c] # Off
    /\ CanBegin(kind, c)
    /\ GetToken(o, kind, c, kind # "usage")
    /\ listing' = IF kind = "list" THEN [op |-> o, cred |-> Nobody] ELSE listing
    /\ usageRefresh' = IF kind = "usage" THEN [usageRefresh EXCEPT ![c] = o] ELSE usageRefresh
    /\ UNCHANGED <<config, slots, advertised, initialized>>

\* route: another credential, once
Failover(o, c) ==
    /\ op[o].stage = "failed" /\ op[o].again
    /\ c # op[o].cred /\ config[c] # Off
    /\ GetToken(o, op[o].kind, c, FALSE)
    /\ UNCHANGED <<config, discoveryVars, usageRefresh>>

\* finally of listModels and of the usage refresh
OperationEnds(o) ==
    /\ op[o].stage = "failed"
    /\ op' = [op EXCEPT ![o] = NoOp]
    /\ listing' = IF listing.op = o THEN NoListing ELSE listing
    /\ usageRefresh' = IF op[o].kind = "usage"
                       THEN [usageRefresh EXCEPT ![op[o].cred] = Nobody] ELSE usageRefresh
    /\ UNCHANGED <<config, tokenVars, slots, advertised, initialized>>

-----------------------------------------------------------------------------
(* discovery.ts: slots and their caches                                    *)

\* assertCurrent
Current(o) == ~op[o].aborted /\ config[op[o].cred] = op[o].key

Needs(kind) ==
    CASE kind = "list" -> {"catalogue"}
      [] kind = "prepare" -> SlotCaches
      [] OTHER -> {}

\* DiscoveryCache.get: what is cached is taken, what is loading is awaited, the rest loads.
Missing(slot, needs) == {x \in needs : slot.cache[x] # "ready"}

Loading(slot, needs) ==
    [slot EXCEPT !.cache = [x \in SlotCaches |->
        IF x \in Missing(slot, needs) THEN "loading" ELSE slot.cache[x]]]

LoadStage(missing) == IF missing = {} THEN "loaded" ELSE "load"

\* slot: the credential's slot, a new one when it has none
SlotOf(o) ==
    IF slots[op[o].cred].key # Nobody THEN slots[op[o].cred]
    ELSE [NoSlot EXCEPT !.key = op[o].key]

EnterStale(o) ==
    /\ op[o].stage = "entering" /\ op[o].kind # "usage"
    /\ config[op[o].cred] # op[o].key
    /\ op' = [op EXCEPT ![o] = FailedForGood(o)]
    /\ UNCHANGED <<config, tokenVars, discoveryVars, usageRefresh>>

EnterInit(o) ==
    /\ op[o].stage = "entering" /\ op[o].kind = "init" /\ Current(o)
    /\ slots' = [slots EXCEPT ![op[o].cred] = [SlotOf(o) EXCEPT !.startup = o]]
    /\ op' = [op EXCEPT ![o].stage = "load", ![o].rpcs = StartupRpcs]
    /\ UNCHANGED <<config, tokenVars, advertised, listing, initialized, usageRefresh>>

\* probe asks by itself; listModels and prepare wait for the slot's startup first.
EnterSlot(o) ==
    LET c == op[o].cred
        needs == Needs(op[o].kind)
        missing == Missing(SlotOf(o), needs)
    IN
    /\ op[o].stage = "entering" /\ op[o].kind \in {"list", "prepare", "probe"} /\ Current(o)
    /\ listing' = IF listing.op = o THEN [listing EXCEPT !.cred = c] ELSE listing
    /\ IF needs # {} /\ SlotOf(o).startup # Nobody
       THEN /\ op' = [op EXCEPT ![o].stage = "startup"]
            /\ slots' = [slots EXCEPT ![c] = SlotOf(o)]
       ELSE /\ op' = [op EXCEPT ![o].needs = missing,
                                ![o].stage = IF needs = {} THEN "load" ELSE LoadStage(missing)]
            /\ slots' = [slots EXCEPT ![c] = Loading(SlotOf(o), needs)]
    /\ UNCHANGED <<config, tokenVars, advertised, initialized, usageRefresh>>

AwaitsCache(o, c, x) ==
    op[o].stage = "load" /\ ~op[o].aborted /\ op[o].cred = c /\ x \in op[o].needs

CacheLoads(c, x) ==
    /\ slots[c].cache[x] = "loading"
    /\ slots' = [slots EXCEPT ![c].cache[x] = "ready"]
    /\ op' = [o \in Operations |->
                IF ~AwaitsCache(o, c, x) THEN op[o]
                ELSE [op[o] EXCEPT !.needs = @ \ {x}, !.stage = LoadStage(op[o].needs \ {x})]]
    /\ UNCHANGED <<config, tokenVars, advertised, listing, initialized, usageRefresh>>

CacheFails(c, x) ==
    /\ slots[c].cache[x] = "loading"
    /\ slots' = [slots EXCEPT ![c].cache[x] = "none"]
    /\ op' = [o \in Operations |-> IF AwaitsCache(o, c, x) THEN Failed(o) ELSE op[o]]
    /\ UNCHANGED <<config, tokenVars, advertised, listing, initialized, usageRefresh>>

CacheExpires(c, x) ==
    /\ slots[c].cache[x] = "ready"
    /\ slots' = [slots EXCEPT ![c].cache[x] = "none"]
    /\ UNCHANGED <<config, tokenVars, advertised, listing, initialized, usageRefresh, op>>

-----------------------------------------------------------------------------
(* discovery.ts: the operations end                                        *)

\* Mutant: the slot is not asserted after the last await.
Finish_Unchecked(o) ==
    /\ op[o].stage = "loaded"
    /\ op' = [op EXCEPT ![o] = NoOp]
    /\ advertised' = IF op[o].kind = "list"
                     THEN [cred |-> op[o].cred, key |-> op[o].key] ELSE advertised
    /\ listing' = IF listing.op = o THEN NoListing ELSE listing
    /\ UNCHANGED <<config, tokenVars, slots, initialized, usageRefresh>>

\* listModels advertises what it listed, prepare hands out what it collected.
Finish(o) ==
    /\ op[o].stage = "loaded" /\ Current(o)
    /\ op' = [op EXCEPT ![o] = NoOp]
    /\ advertised' = IF op[o].kind = "list"
                     THEN [cred |-> op[o].cred, key |-> op[o].key] ELSE advertised
    /\ listing' = IF listing.op = o THEN NoListing ELSE listing
    /\ UNCHANGED <<config, tokenVars, slots, initialized, usageRefresh>>

\* awaitWithAbort and assertCurrent: the credential changed under the operation.
Aborted(o) ==
    /\ op[o].stage \in {"startup", "load", "loaded"} /\ op[o].kind # "usage"
    /\ ~Current(o)
    /\ op' = [op EXCEPT ![o] = FailedForGood(o)]
    /\ UNCHANGED <<config, tokenVars, discoveryVars, usageRefresh>>

ProbeAnswers(o) ==
    /\ op[o].stage = "load" /\ op[o].kind = "probe" /\ Current(o)
    /\ slots' = [slots EXCEPT ![op[o].cred].cache["endpoint"] = "ready"]
    /\ op' = [op EXCEPT ![o] = NoOp]
    /\ UNCHANGED <<config, tokenVars, advertised, listing, initialized, usageRefresh>>

\* One request of the startup sequence was answered; there are more.
StartupAnswers(o) ==
    /\ op[o].stage = "load" /\ op[o].kind = "init" /\ Current(o)
    /\ op[o].rpcs > 1
    /\ op' = [op EXCEPT ![o].rpcs = @ - 1]
    /\ UNCHANGED <<config, tokenVars, discoveryVars, usageRefresh>>

\* Those that waited for the startup of the slot find its caches filled.
StartupEnds(o) ==
    LET c == op[o].cred IN
    /\ op[o].stage = "load" /\ op[o].kind = "init" /\ Current(o)
    /\ op[o].rpcs = 1
    /\ slots' = [slots EXCEPT ![c] = [@ EXCEPT !.startup = Nobody,
                                               !.cache = [x \in SlotCaches |-> "ready"]]]
    /\ op' = [p \in Operations |->
                IF p = o THEN NoOp
                ELSE IF op[p].stage = "startup" /\ op[p].cred = c /\ ~op[p].aborted
                     THEN [op[p] EXCEPT !.stage = "loaded"] ELSE op[p]]
    /\ advertised' = [cred |-> c, key |-> op[o].key]
    /\ initialized' = TRUE
    /\ UNCHANGED <<config, tokenVars, listing, usageRefresh>>

\* A request of the startup or of the probe failed, or its time was over.
RequestFails(o) ==
    LET c == op[o].cred IN
    /\ op[o].stage = "load" /\ op[o].kind \in {"init", "probe"} /\ ~op[o].aborted
    /\ op' = [p \in Operations |->
                IF \/ p = o
                   \/ /\ op[o].kind = "init"
                      /\ op[p].stage = "startup" /\ op[p].cred = c /\ ~op[p].aborted
                THEN Failed(p) ELSE op[p]]
    /\ slots' = IF slots[c].startup = o THEN [slots EXCEPT ![c].startup = Nobody] ELSE slots
    /\ UNCHANGED <<config, tokenVars, advertised, listing, initialized, usageRefresh>>

\* The signal of the caller: awaitWithAbort leaves what it waited for to the others.
CallerGivesUp(o) ==
    /\ op[o].kind \in {"prepare", "usage"} /\ op[o].stage \in {"token", "startup", "load"}
    /\ op' = [op EXCEPT ![o] = FailedForGood(o)]
    /\ UNCHANGED <<config, tokenVars, discoveryVars, usageRefresh>>

-----------------------------------------------------------------------------
(* account-usage.ts                                                        *)

EnterUsage(o) ==
    /\ op[o].stage = "entering" /\ op[o].kind = "usage"
    /\ op' = [op EXCEPT ![o].stage = "load"]
    /\ UNCHANGED <<config, tokenVars, discoveryVars, usageRefresh>>

UsageAnswers(o) ==
    LET c == op[o].cred IN
    /\ op[o].stage = "load" /\ op[o].kind = "usage"
    /\ usageRefresh' = [usageRefresh EXCEPT ![c] = Nobody]
    /\ op' = [op EXCEPT ![o] = NoOp]
    /\ UNCHANGED <<config, tokenVars, discoveryVars>>

\* invalidate: a refresh under way stays, and stores what it learns.
InvalidateUsage == UNCHANGED usageRefresh

-----------------------------------------------------------------------------
(* backend.ts                                                              *)

\* updateCredentials: auth.invalidate, discovery.invalidateCredentials, usage.invalidate,
\* router.replaceCredentials, in one go.
UpdateCredential(c, v) ==
    /\ v # config[c]
    /\ config' = [config EXCEPT ![c] = v]
    /\ tokens' = [tokens EXCEPT ![c] = Nobody]
    /\ refreshing' = [refreshing EXCEPT ![c] = Nobody]
    /\ generation' = [generation EXCEPT ![c] = Nobody]
    /\ flight' = [f \in Flights |->
                    IF flight[f].cred = c THEN [flight[f] EXCEPT !.valid = FALSE] ELSE flight[f]]
    /\ slots' = [slots EXCEPT ![c] = NoSlot]
    /\ op' = [o \in Operations |->
                IF /\ op[o].cred = c /\ op[o].kind # "usage"
                   /\ op[o].stage \in {"startup", "load", "loaded"}
                THEN [op[o] EXCEPT !.aborted = TRUE] ELSE op[o]]
    /\ advertised' = IF advertised.cred = c THEN NotAdvertised ELSE advertised
    /\ listing' = IF listing.cred = c THEN NoListing ELSE listing
    /\ InvalidateUsage
    /\ UNCHANGED initialized

CacheNext ==
    \/ \E f \in Flights : TokenArrives(f) \/ TokenFails(f)
    \/ \E o \in Operations :
        \/ \E c \in CacheCreds : Failover(o, c) \/ \E kind \in Kinds : Begin(o, kind, c)
        \/ OperationEnds(o) \/ EnterStale(o) \/ EnterInit(o) \/ EnterSlot(o) \/ EnterUsage(o)
        \/ Finish(o) \/ Aborted(o) \/ ProbeAnswers(o) \/ StartupAnswers(o) \/ StartupEnds(o)
        \/ RequestFails(o) \/ CallerGivesUp(o) \/ UsageAnswers(o)
    \/ \E c \in CacheCreds, x \in SlotCaches :
        CacheLoads(c, x) \/ CacheFails(c, x) \/ CacheExpires(c, x)
    \/ \E c \in CacheCreds, v \in ApiKeys \cup {Off} : UpdateCredential(c, v)

CacheSpec == CacheInit /\ [][CacheNext]_cacheVars

-----------------------------------------------------------------------------
(* Properties                                                              *)

\* A token is only ever used with the key it was exchanged for: an exchange that was
\* under way when the key changed neither fills the cache nor serves a caller.
TokensAreOwn ==
    /\ \A c \in CacheCreds : tokens[c] \in {Nobody, config[c]}
    /\ \A o \in Operations : op[o].token \in {Nobody, op[o].key}

\* One exchange per credential since its last change: the end of an outdated exchange
\* does not make room for a second one, which would fail the callers of the first
\* with CursorAuthInvalidatedError although nothing changed.
OneRefresh ==
    \A f, g \in Flights :
        flight[f].valid /\ flight[g].valid /\ flight[f].cred = flight[g].cred => f = g

\* A slot and the advertised catalogue belong to the key configured now, whatever was
\* being listed, probed or started when the credential changed: listModels never
\* serves, and never fails on, the catalogue of a credential that is gone.
DiscoveryIsCurrent ==
    /\ \A c \in CacheCreds : slots[c].key \in {Nobody, config[c]}
    /\ advertised.cred # Nobody => config[advertised.cred] = advertised.key

\* What prepare hands out, endpoint, catalogue and variant, is of one credential and
\* its present key, though it took several awaits to collect.
HandsOutCurrent ==
    \A o \in Operations :
        op[o].stage = "loaded" /\ op[o].kind = "prepare" /\ op'[o].stage = "idle"
        => config[op[o].cred] = op[o].key /\ op[o].token = op[o].key

PreparedIsCurrent == [][HandsOutCurrent]_cacheVars

\* The usage of a credential is asked for once at a time, forced refreshes and
\* invalidations included.
UsageSingleFlight ==
    \A o, p \in Operations :
        /\ op[o].kind = "usage" /\ op[o].stage # "idle"
        /\ op[p].kind = "usage" /\ op[p].stage # "idle"
        /\ op[o].cred = op[p].cred
        => o = p

\* What each cache keeps is current, and each is filled by one refresh at a time.
CachesSound ==
    CacheTypeOK /\ TokensAreOwn /\ OneRefresh /\ DiscoveryIsCurrent /\ UsageSingleFlight
=============================================================================
