---------------------------- MODULE MCBridgeParts ----------------------------
(***************************************************************************)
(* What must never happen, in the parts of the bridge that share no state  *)
(* with each other: a behaviour is one of a single part, the scene, while  *)
(* the others rest in a state they begin in.  a1, a2 name what a part has  *)
(* two of and b1, b2 a second such pair, so that one symmetry serves every *)
(* part.                                                                   *)
(***************************************************************************)
EXTENDS CredentialCaches, Trial, Management, CliStream, Wire, NativeContext,
        ExecMessages, History, TLC

CONSTANTS a1, a2, b1, b2, c1, c2, d1, k1, m1, s1, s2, s3

VARIABLE scene

Symmetry == Permutations({a1, a2}) \cup Permutations({b1, b2})

-----------------------------------------------------------------------------
(* What the CLI, upstream and a client may say                             *)

Printed(type, text) == [type |-> type, text |-> text]

Result(text, isError, subtype, usage) ==
    [type |-> "result", text |-> text, isError |-> isError, subtype |-> subtype,
     usage |-> usage]

\* Answers in fragments, whole, in the result alone, refused, and outputs that keep to none.
MCOutputs ==
    LET says(text) == Printed("assistant", text)
        fine(text) == Result(text, FALSE, "none", TRUE)
    IN  {<<>>, <<fine(<<>>)>>, <<says(<<1>>), fine(<<1>>)>>, <<says(<<>>), fine(<<1>>)>>,
         <<says(<<1>>), says(<<2>>), says(<<1, 2>>), fine(<<1, 2>>)>>,
         <<Printed("thinking", <<9>>), says(<<1>>), Printed("junk", <<>>), says(<<1>>),
           Result(<<1>>, FALSE, "none", FALSE)>>,
         <<Printed("other", <<>>), Result(<<1>>, TRUE, "none", FALSE)>>,
         <<says(<<1>>), Result(<<1>>, FALSE, "error", FALSE)>>,
         <<says(<<1>>), says(<<2>>), fine(<<1, 2>>)>>,
         <<fine(<<1>>), says(<<2>>), fine(<<2>>)>>,
         <<says(<<1>>), says(<<1>>)>>}

Frame(kind, bytes, decoded, gzip, trailer) ==
    [kind |-> kind, bytes |-> bytes, decoded |-> decoded, gzip |-> gzip,
     trailer |-> trailer]

MCFrames ==
    {Frame("message", 0, 0, "no", "fine"), Frame("message", 2, 2, "no", "fine"),
     Frame("message", 1, 3, "yes", "fine"), Frame("message", 1, 1, "invalid", "fine"),
     Frame("badFlags", 1, 1, "no", "fine"), Frame("trailer", 1, 1, "no", "fine"),
     Frame("trailer", 2, 2, "no", "error")}

MCSizeOf == [s \in {s1, s2, s3} |-> CASE s = s1 -> 1 [] s = s2 -> 2 [] OTHER -> 3]

Plugin(enabled, source, file, wanted, front, url) ==
    [enabled |-> enabled, market |-> TRUE, source |-> source, file |-> file,
     wanted |-> wanted, front |-> front, url |-> url]

MCPlugins ==
    {Plugin(TRUE, "pinned", "inside", TRUE, "fine", s1),
     Plugin(TRUE, "pinned", "inside", TRUE, "fine", s2),
     Plugin(TRUE, "branch", "inside", TRUE, "fine", s1),
     Plugin(FALSE, "foreign", "inside", TRUE, "fine", s1),
     Plugin(TRUE, "pinned", "escapes", FALSE, "fine", s1),
     Plugin(TRUE, "pinned", "inside", TRUE, "broken", s3)}

Skill(named, enabled, front, files) ==
    [named |-> named, enabled |-> enabled, local |-> FALSE, front |-> front,
     cli |-> TRUE, files |-> files]

MCSkills ==
    {Skill(TRUE, TRUE, "fine", "fine"), Skill(FALSE, FALSE, "fine", "fine"),
     Skill(TRUE, TRUE, "broken", "fine"), Skill(TRUE, TRUE, "fine", "missing")}

\* The accounts of the scene: one plugin that is fine; or two, with those that are
\* passed over, with one that is refused, or with one that does not parse.
Accounts ==
    LET fine == {p \in MCPlugins : /\ p.enabled /\ p.wanted /\ p.front = "fine"
                                   /\ p.source = "pinned"}
        idle == {p \in MCPlugins : ~p.enabled \/ ~p.wanted}
    IN  {{p \in fine : p.url = s1}} \cup {fine \cup idle}
        \cup {fine \cup {p} : p \in MCPlugins \ (fine \cup idle)}

Says(case, tool, path, ids) == [case |-> case, tool |-> tool, path |-> path, ids |-> ids]

Ids == {"toolCallId", "execId", "id"}

MCMessages ==
    {Says("readArgs", "", path, Ids) : path \in {"invalid", "unowned", "owned"}} \cup
    {Says(case, "", "unowned", {"execId", "id"}) :
        case \in {"writeArgs", "shellArgs", "redactedReadArgs", "unsupported", "none"}} \cup
    {Says("mcpArgs", "read", "unowned", Ids), Says("mcpArgs", "read", "unowned", {"id"}),
     Says("mcpArgs", "undeclared", "unowned", Ids),
     Says("mcpStateExecArgs", "", "unowned", {})}

MCProperties ==
    [t \in {"read", "write"} |->
        IF t = "read" THEN {"file_path"} ELSE {"path", "content"}]

Message(role, content, calls, broken, answers) ==
    [role |-> role, content |-> content, calls |-> calls, broken |-> broken,
     answers |-> answers]

MCSaid ==
    {Message("system", "words", <<>>, FALSE, ""), Message("user", "words", <<>>, FALSE, ""),
     Message("user", "blank", <<>>, FALSE, ""),
     Message("user", "words", <<"t1">>, FALSE, "")} \cup
    {Message("assistant", "words", <<>>, FALSE, ""),
     Message("assistant", "blank", <<>>, FALSE, ""),
     Message("assistant", "empty", <<"t1">>, FALSE, ""),
     Message("assistant", "words", <<"t1", "t2">>, FALSE, ""),
     Message("assistant", "words", <<"t2", "t2">>, FALSE, ""),
     Message("assistant", "words", <<"t2">>, TRUE, "")} \cup
    {Message("tool", "words", <<>>, FALSE, id) : id \in {"t1", "t2", ""}} \cup
    {Message("tool", "blank", <<>>, FALSE, "t1")}

MCHistoryRequests == {[tools |-> TRUE, choice |-> choice] : choice \in {"auto", "none"}}

-----------------------------------------------------------------------------
(* How the parts begin: as the scene has it, or at rest                    *)

\* One credential and every operation, or two and the listing of models.
CachesInit ==
    /\ CacheInit
    /\ CASE scene = "cache" -> config[c2] = Off
         [] scene = "caches" -> TRUE
         [] OTHER -> \A c \in CacheCreds : config[c] = Off

\* One command of the benchmark, or two at once in the bridge's lane.
TrialsInit ==
    /\ TrialInit
    /\ CASE scene = "trial" -> Cardinality(trial.children) = 1
         [] scene = "peers" -> trial.children = Commands /\ trial.lane = "yorha"
         [] OTHER -> trial.children = Commands /\ trial.lane = "native"

\* The credentials and the max mode, or the routing policy and the overrides.
AdminInit ==
    /\ ManagementInit
    /\ scene # "settings" => admin.config.overrides = <<>>
    /\ scene # "credentials" => /\ admin.config.credentials = {}
                                /\ adminEnv = [key |-> "none", maxMode |-> "unset"]

PrintingInit ==
    /\ CliStreamInit
    /\ scene = "printing" \/ output = [lines |-> <<>>, newline |-> TRUE, tells |-> TRUE]

\* The frames of a Run, or the body of a unary call.
WiresInit ==
    /\ WireInit
    /\ scene = "frames" \/ frames = <<Frame("message", 0, 0, "no", "fine")>>
    /\ scene = "body" \/ body = NewBody(FALSE, "fetch", FALSE)

\* The files of an account, three files that wait for each other, or its conversations.
ContextInit ==
    /\ NativeInit
    /\ CASE scene = "reads" -> account.plugins \in Accounts
         [] scene = "queue" -> /\ account.plugins \in Accounts
                               /\ {p.url : p \in account.plugins} = Sources
         [] OTHER -> account.plugins = {}

ExecsInit ==
    /\ ExecInit
    /\ scene \in {"execs", "blobs"} \/ ask = [tools |-> {}, choice |-> "auto", native |-> FALSE]

HistoriesInit ==
    /\ HistoryInit
    /\ scene = "history" \/ /\ messages = <<Message("user", "words", <<>>, FALSE, "")>>
                            /\ request.choice = "auto"

PartsInit ==
    /\ scene \in {"cache", "caches", "trial", "peers", "credentials", "settings", "printing",
                   "frames", "body", "reads", "queue", "profiles", "execs", "blobs",
                   "history"}
    /\ CachesInit /\ TrialsInit /\ AdminInit /\ PrintingInit /\ WiresInit
    /\ ContextInit /\ ExecsInit /\ HistoriesInit

-----------------------------------------------------------------------------
(* The scenes: what a part does in them, and what rests meanwhile          *)

CachesNext ==
    \/ scene = "cache" /\ CacheNext /\ config'[c2] = Off
    \/ scene = "caches" /\ CacheNext /\ \A o \in Operations : op'[o].kind = "list"

\* Two commands at once leave no helpers, print what is accepted and are not interrupted.
TrialsNext ==
    /\ scene \in {"trial", "peers"} /\ TrialNext
    /\ scene = "peers" =>
         /\ ~control'.external
         /\ \A c \in Children : child'[c].helper = "none" /\ child'[c].stop \notin Refusals

AdminNext ==
    \/ /\ scene = "credentials" /\ ManagementNext
       /\ patch'.config.overrides = <<>> /\ patch'.config.policy = "default"
    \/ /\ scene = "settings" /\ ManagementNext
       /\ patch'.config.credentials = {} /\ patch'.config.envPlan = "none"
       /\ patch'.config.maxMode = "unset"
       /\ adminEnv' = [key |-> "none", maxMode |-> "unset"]

PrintingNext == scene = "printing" /\ CliStreamNext

WiresNext ==
    \/ scene = "frames" /\ WireNext /\ body' = body
    \/ scene = "body" /\ WireNext /\ decoder' = decoder

ContextNext ==
    \/ scene \in {"reads", "queue"} /\ NativeNext /\ conversation' = conversation
    \/ scene = "profiles" /\ NativeNext /\ read' = read /\ serving' = serving

ExecsNext ==
    \/ scene = "execs" /\ ExecNext /\ blob' = blob
    \/ scene = "blobs" /\ ExecNext /\ exec' = exec

HistoriesNext == scene = "history" /\ HistoryNext

configVars == <<cacheVars, managementVars, nativeVars>>

messageVars == <<cliStreamVars, wireVars, execVars, historyVars>>

ConfigNext ==
    \/ CachesNext /\ UNCHANGED <<managementVars, nativeVars>>
    \/ AdminNext /\ UNCHANGED <<cacheVars, nativeVars>>
    \/ ContextNext /\ UNCHANGED <<cacheVars, managementVars>>

MessagesNext ==
    \/ PrintingNext /\ UNCHANGED <<wireVars, execVars, historyVars>>
    \/ WiresNext /\ UNCHANGED <<cliStreamVars, execVars, historyVars>>
    \/ ExecsNext /\ UNCHANGED <<cliStreamVars, wireVars, historyVars>>
    \/ HistoriesNext /\ UNCHANGED <<cliStreamVars, wireVars, execVars>>

PartsNext ==
    /\ UNCHANGED scene
    /\ \/ TrialsNext /\ UNCHANGED <<configVars, messageVars>>
       \/ ConfigNext /\ UNCHANGED <<trialVars, messageVars>>
       \/ MessagesNext /\ UNCHANGED <<trialVars, configVars>>

PartsVars == <<scene, trialVars, configVars, messageVars>>

PartsSpec == PartsInit /\ [][PartsNext]_PartsVars
=============================================================================
