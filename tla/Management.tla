------------------------------ MODULE Management ------------------------------
(***************************************************************************)
(* The configuration of the bridge: the dashboard file, the environment,   *)
(* what PATCH /admin/config changes and what a restart loads               *)
(* (server/management.ts, dashboard-config.ts, config.ts, model-policy.ts, *)
(* credential-config.ts).                                                  *)
(*                                                                         *)
(* The handler runs in one piece, so patches never interleave; what can    *)
(* come in between is a write that fails and the end of the process, for   *)
(* the file is written in place.  A credential is its id, its key and its  *)
(* plan, which stands for all its metadata; the order of credentials is    *)
(* left out, the order of the overrides is not.  The two policies and the  *)
(* settings of the server are represented by one policy.                   *)
(***************************************************************************)
EXTENDS Naturals, Sequences, FiniteSets, SequencesExt

CONSTANTS
    DashboardIds,    \* ids of credentials of the dashboard file
    AdminKeys,       \* Cursor API keys
    AdminPlans,      \* plans of a credential
    AdminPolicies,   \* routing policies
    DefaultPolicy,   \* the one of the environment
    Families,        \* unified model ids
    LegacySlugs,     \* legacy slugs, all of them of LegacyFamily
    LegacyFamily,
    MaxUpdates       \* bound on the credential updates of a patch

VARIABLES
    adminFile,       \* the dashboard file
    adminEnv,        \* the environment the process was started with
    admin,           \* ManagementState
    modelPolicy,     \* ModelPolicy.overrides
    backendConfig,   \* what the backend was told
    patch            \* the patch being written, or the last one

managementVars == <<adminFile, adminEnv, admin, modelPolicy, backendConfig, patch>>

Flags == {"unset", "true", "false"}
Decisions == {"default", "true", "false"}
OverrideIds == Families \cup LegacySlugs

ConfigCredential == [id : DashboardIds, key : AdminKeys, plan : AdminPlans \cup {"none"}]

\* What the constants are: the ids the bridge reserves name no credential of the file.
AdminConstants ==
    /\ DashboardIds \cap {"env", "system"} = {}
    /\ DefaultPolicy \in AdminPolicies
    /\ MaxUpdates \in Nat

EmptyConfig ==
    [credentials |-> {}, envPlan |-> "none", policy |-> "default", maxMode |-> "unset",
     overrides |-> <<>>]

\* dashboardConfigSchema: ids are not reserved and name one credential each.
ValidConfig(config) ==
    /\ config.credentials \subseteq ConfigCredential
    /\ \A c, d \in config.credentials : c.id = d.id => c = d
    /\ config.envPlan \in AdminPlans \cup {"none"}
    /\ config.policy \in AdminPolicies \cup {"default"}
    /\ config.maxMode \in Flags
    /\ \A i \in DOMAIN config.overrides :
        /\ config.overrides[i].id \in OverrideIds
        /\ config.overrides[i].enabled \in {"true", "false"}
        /\ \A j \in 1..(i - 1) : config.overrides[i].id # config.overrides[j].id

Environments == [key : AdminKeys \cup {"none"}, maxMode : Flags]

Effectives ==
    [id : DashboardIds \cup {"env", "system"}, key : AdminKeys \cup {"none"},
     plan : AdminPlans \cup {"none"}]

ManagementTypeOK ==
    /\ AdminConstants
    /\ adminFile.intact \in BOOLEAN /\ ValidConfig(adminFile.config)
    /\ adminEnv \in Environments
    /\ admin.running \in BOOLEAN /\ ValidConfig(admin.config)
    /\ admin.effective \subseteq Effectives
    /\ admin.policy \in AdminPolicies /\ admin.maxMode \in BOOLEAN
    /\ modelPolicy \in [Families -> Decisions]
    /\ backendConfig.credentials \subseteq Effectives
    /\ backendConfig.policy \in AdminPolicies /\ backendConfig.maxMode \in BOOLEAN
    /\ patch.phase \in {"idle", "writing", "failed"} /\ ValidConfig(patch.config)
    /\ patch.maxMode \in Flags

-----------------------------------------------------------------------------
(* Loading: config.ts, credential-config.ts, model-policy.ts               *)

Effective(envKey, config) ==
    LET env == IF envKey = "none" THEN {}
               ELSE {[id |-> "env", key |-> envKey, plan |-> config.envPlan]}
        named == env \cup config.credentials
    IN IF named = {} THEN {[id |-> "system", key |-> "none", plan |-> "none"]} ELSE named

LoadedPolicy(config) == IF config.policy = "default" THEN DefaultPolicy ELSE config.policy

\* The environment decides, then the file.
LoadedMaxMode(env, config) ==
    IF env.maxMode # "unset" THEN env.maxMode = "true" ELSE config.maxMode = "true"

Unified(id) == IF id \in LegacySlugs THEN LegacyFamily ELSE id

\* Each override counts for its unified id; the later one in the file wins.
Migrated(overrides) ==
    [family \in Families |->
        LET about == {i \in DOMAIN overrides : Unified(overrides[i].id) = family}
        IN IF about = {} THEN "default" ELSE overrides[Max(about)].enabled]

\* readDashboardConfigFile: an unreadable file counts as an empty one.
FileConfig(file) == IF file.intact THEN file.config ELSE EmptyConfig

NoOverride == [id |-> "none", enabled |-> "default"]

NoPatch(phase, override) ==
    [phase |-> phase, config |-> EmptyConfig, override |-> override, maxMode |-> "unset"]

Loaded(env, config) ==
    /\ adminEnv' = env
    /\ admin' = [running |-> TRUE, config |-> config, effective |-> Effective(env.key, config),
                 policy |-> LoadedPolicy(config), maxMode |-> LoadedMaxMode(env, config)]
    /\ modelPolicy' = Migrated(config.overrides)
    /\ backendConfig' = [credentials |-> Effective(env.key, config),
                         policy |-> LoadedPolicy(config),
                         maxMode |-> LoadedMaxMode(env, config)]
    /\ patch' = NoPatch("idle", NoOverride)

\* A process that was started with a file somebody wrote.
ManagementInit ==
    \E env \in Environments, credentials \in SUBSET ConfigCredential,
       overrides \in SeqOf([id : OverrideIds, enabled : {"true", "false"}], 2) :
        LET config == [EmptyConfig EXCEPT !.credentials = credentials,
                                          !.overrides = overrides]
        IN /\ Cardinality(credentials) <= 1 /\ ValidConfig(config)
           /\ adminFile = [intact |-> TRUE, config |-> config]
           /\ adminEnv = env
           /\ admin = [running |-> TRUE, config |-> config,
                       effective |-> Effective(env.key, config),
                       policy |-> LoadedPolicy(config),
                       maxMode |-> LoadedMaxMode(env, config)]
           /\ modelPolicy = Migrated(overrides)
           /\ backendConfig = [credentials |-> Effective(env.key, config),
                               policy |-> LoadedPolicy(config),
                               maxMode |-> LoadedMaxMode(env, config)]
           /\ patch = NoPatch("idle", NoOverride)

\* The process starts again, the environment perhaps changed.
StartBridge(env) ==
    /\ ~admin.running
    /\ Loaded(env, FileConfig(adminFile))
    /\ UNCHANGED adminFile

-----------------------------------------------------------------------------
(* PATCH /admin/config: management.ts                                      *)

CredentialUpdates ==
    [id : DashboardIds \cup {"env", "system"}, key : AdminKeys \cup {"none"},
     plan : AdminPlans \cup {"none"}, delete : BOOLEAN]

Or(value, existing) == IF value = "none" THEN existing ELSE value

\* One update, on a working copy; the first that is refused refuses the patch.
Updated(work, update) ==
    LET existing == {c \in work.credentials : c.id = update.id}
        others == work.credentials \ existing
        was == IF existing = {} THEN [id |-> update.id, key |-> "none", plan |-> "none"]
               ELSE CHOOSE c \in existing : TRUE
        key == Or(update.key, was.key)
    IN CASE work.refused -> work
         [] update.id = "env" ->
                IF update.key # "none" \/ update.delete THEN [work EXCEPT !.refused = TRUE]
                ELSE [work EXCEPT !.envPlan = Or(update.plan, @)]
         [] update.id = "system" -> [work EXCEPT !.refused = TRUE]
         [] update.delete -> [work EXCEPT !.credentials = others]
         [] key = "none" -> [work EXCEPT !.refused = TRUE]
         [] OTHER -> [work EXCEPT !.credentials =
                        others \cup {[id |-> update.id, key |-> key,
                                      plan |-> Or(update.plan, was.plan)]}]

\* modelOverrides: null deletes a key, a new key comes last.
WithOverride(overrides, o) ==
    LET at == {i \in DOMAIN overrides : overrides[i].id = o.id} IN
    CASE o.enabled = "default" /\ at = {} -> overrides
      [] o.enabled = "default" /\ at # {} -> RemoveAt(overrides, Min(at))
      [] o.enabled # "default" /\ at # {} -> [overrides EXCEPT ![Min(at)] = o]
      [] o.enabled # "default" /\ at = {} -> Append(overrides, o)

OverrideChanges == {NoOverride} \cup [id : OverrideIds, enabled : Decisions]

\* Validated and merged; a refused patch is answered with 400 and changes nothing.
PatchConfig(updates, override, policy, maxMode) ==
    LET config == admin.config
        work == FoldLeft(Updated, [credentials |-> config.credentials,
                                   envPlan |-> config.envPlan, refused |-> FALSE], updates)
    IN /\ admin.running /\ patch.phase # "writing"
       /\ ~work.refused
       /\ patch' = [phase |-> "writing", override |-> override, maxMode |-> maxMode,
                    config |-> [credentials |-> work.credentials, envPlan |-> work.envPlan,
                                policy |-> IF policy = "none" THEN config.policy ELSE policy,
                                maxMode |-> IF maxMode = "unset" THEN config.maxMode ELSE maxMode,
                                overrides |-> WithOverride(config.overrides, override)]]
       /\ UNCHANGED <<adminFile, adminEnv, admin, modelPolicy, backendConfig>>

\* A patch that does not name Max Mode keeps what is in force, not what the file says.
PatchedMaxMode ==
    IF patch.maxMode = "unset" THEN admin.maxMode ELSE patch.maxMode = "true"

\* Mutant: the key of the environment is lost when the credentials are merged again.
PatchApplies_ForgetsEnv ==
    LET effective == Effective("none", patch.config) IN
    /\ patch.phase = "writing"
    /\ adminFile' = [intact |-> TRUE, config |-> patch.config]
    /\ admin' = [admin EXCEPT !.config = patch.config, !.effective = effective,
                              !.policy = LoadedPolicy(patch.config), !.maxMode = PatchedMaxMode]
    /\ backendConfig' = [credentials |-> effective, policy |-> LoadedPolicy(patch.config),
                         maxMode |-> PatchedMaxMode]
    /\ modelPolicy' = Migrated(patch.config.overrides)
    /\ patch' = NoPatch("idle", patch.override)
    /\ UNCHANGED adminEnv

\* The file is written; then the state, the backend and the model policy follow.
PatchApplies ==
    LET envKeys == {c.key : c \in {e \in admin.effective : e.id = "env"}}
        effective == Effective(IF envKeys = {} THEN "none" ELSE CHOOSE k \in envKeys : TRUE,
                               patch.config)
    IN /\ patch.phase = "writing"
       /\ adminFile' = [intact |-> TRUE, config |-> patch.config]
       /\ admin' = [admin EXCEPT !.config = patch.config, !.effective = effective,
                                 !.policy = LoadedPolicy(patch.config),
                                 !.maxMode = PatchedMaxMode]
       /\ backendConfig' = [credentials |-> effective, policy |-> LoadedPolicy(patch.config),
                            maxMode |-> PatchedMaxMode]
       /\ modelPolicy' = Migrated(patch.config.overrides)
       /\ patch' = NoPatch("idle", patch.override)
       /\ UNCHANGED adminEnv

\* What writeFileSync may leave: the old file, a part of the new one, or all of it.
WriteOutcomes ==
    {adminFile, [adminFile EXCEPT !.intact = FALSE], [intact |-> TRUE, config |-> patch.config]}

\* mkdir, write or chmod throws: 500, and nothing but the file has changed.
PatchWriteFails ==
    /\ patch.phase = "writing"
    /\ adminFile' \in WriteOutcomes
    /\ patch' = NoPatch("failed", NoOverride)
    /\ UNCHANGED <<adminEnv, admin, modelPolicy, backendConfig>>

\* The process ends, in the middle of a write perhaps.
BridgeStops ==
    /\ admin.running
    /\ admin' = [admin EXCEPT !.running = FALSE]
    /\ IF patch.phase = "writing" THEN adminFile' \in WriteOutcomes ELSE UNCHANGED adminFile
    /\ patch' = NoPatch("idle", NoOverride)
    /\ UNCHANGED <<adminEnv, modelPolicy, backendConfig>>

ManagementNext ==
    \/ \E updates \in SeqOf(CredentialUpdates, MaxUpdates) :
        PatchConfig(updates, NoOverride, "none", "unset")
    \/ \E override \in OverrideChanges, policy \in AdminPolicies \cup {"none"},
          maxMode \in Flags :
        PatchConfig(<<>>, override, policy, maxMode)
    \/ PatchApplies \/ PatchWriteFails
    \/ BridgeStops \/ \E env \in Environments : StartBridge(env)

ManagementSpec == ManagementInit /\ [][ManagementNext]_managementVars

-----------------------------------------------------------------------------
(* Properties                                                              *)

\* What the dashboard shows is what the backend was told and what a restart in the same
\* environment would load, whatever patches, failed writes and restarts led here; Max
\* Mode is the exception, which the environment decides again when it names it.
RestartKeepsConfig ==
    /\ admin.running =>
        /\ backendConfig = [credentials |-> admin.effective, policy |-> admin.policy,
                            maxMode |-> admin.maxMode]
    /\ admin.running /\ patch.phase = "idle" /\ adminFile.intact =>
        LET config == adminFile.config IN
        /\ admin.config = config
        /\ admin.effective = Effective(adminEnv.key, config)
        /\ admin.policy = LoadedPolicy(config)
        /\ modelPolicy = Migrated(config.overrides)
        /\ adminEnv.maxMode = "unset" => admin.maxMode = LoadedMaxMode(adminEnv, config)

\* The administration's state is of its type, and none of it is lost.
ManagementSound == ManagementTypeOK /\ RestartKeepsConfig

=============================================================================
