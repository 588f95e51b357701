--------------------------- MODULE NativeContext ---------------------------
(***************************************************************************)
(* The context a Cursor account brings with it: its metadata and the files *)
(* of its plugins, loaded once (native-context.ts, -metadata.ts), the      *)
(* reader both the load and later reads share (native-context-files.ts),   *)
(* the identity of a profile's repository (-repository.ts), and the reads  *)
(* that upstream asks a Run for (native-context-read.ts).                  *)
(*                                                                         *)
(* Data abstracted away: what a file says (its size, and whether its front *)
(* matter parses), descriptions and environments (whether a skill is       *)
(* wanted), the text of paths (what they are for the context).             *)
(***************************************************************************)
EXTENDS Integers, FiniteSets, SequencesExt

CONSTANTS
    Sources,        \* the files upstream can name, by url
    SizeOf,         \* the bytes of each
    Plugins,        \* what an account may have installed
    Skills,         \* the skills Cursor may manage for it
    MaxReads,       \* bound on the reads
    ActiveLimit,    \* 4 in the code
    MaxFiles,       \* maxSourceFiles
    MaxBytes,       \* maxSourceBytes
    MaxTotalBytes,  \* maxTotalSourceBytes
    Conversations, Profiles, Persisted, NoName

Metadata == 4     \* GetMe, GetManagedSkills, GetEffectiveUserPlugins, GetServerConfig

PluginRecord ==
    [enabled : BOOLEAN, market : BOOLEAN,
     source : {"pinned", "branch", "foreign"},      \* its repository and commit
     file : {"inside", "escapes", "elsewhere"},     \* its file's path and url
     wanted : BOOLEAN, front : {"fine", "broken"}, url : Sources]

SkillRecord ==
    [named : BOOLEAN, enabled : BOOLEAN, local : BOOLEAN, front : {"fine", "broken"},
     cli : BOOLEAN, files : {"fine", "missing", "misplaced"}]

\* githubSource, raw and relative: public content at a pinned commit, below gitPath.
ValidSource(plugin) == plugin.market /\ plugin.source = "pinned" /\ plugin.file = "inside"

\* What the constants are: every url is told from what stands for none, and the reads are
\* enough for the files of any account.
NativeConstants ==
    /\ Plugins \subseteq PluginRecord /\ IsFiniteSet(Plugins)
    /\ Skills \subseteq SkillRecord
    /\ SizeOf \in [Sources -> Nat]
    /\ {"none", "invalid", "unowned", "declared"} \cap Sources = {}
    /\ {MaxReads, ActiveLimit, MaxFiles, MaxBytes, MaxTotalBytes} \subseteq Nat \ {0}
    /\ Cardinality({p \in Plugins : p.enabled /\ p.wanted /\ ValidSource(p)}) <= MaxReads

VARIABLES
    account,       \* the loading of the account's context
    reader,        \* NativeSourceReader
    read,          \* its reads, in the order they were asked for
    serving,       \* the Run that upstream asks for reads
    conversation,  \* what forConversation gave each conversation
    repositories   \* the repository of each profile

nativeVars == <<account, reader, read, serving, conversation, repositories>>

Reads == 1..MaxReads

NoRead == [url |-> "none", kind |-> "unused", phase |-> "unused", racing |-> {},
           woken |-> FALSE, fetched |-> FALSE, why |-> "none", reply |-> "none"]

Active == {r \in Reads : read[r].phase = "fetching"}

Cached(url) == url \in reader.cache

(***************************************************************************)
(* NativeSourceReader                                                      *)
(***************************************************************************)

\* What a reader and its reads are: one value, so that a load starts many at once.
Readings == [reader |-> reader, read |-> read]

ActiveIn(s) == {r \in Reads : s.read[r].phase = "fetching"}

\* A slot is free: the cache once more, the count of files, the fetch.
Attempt(s, r) ==
    LET url == s.read[r].url
        counted == [s EXCEPT !.reader.attempts = @ + 1]
    IN  CASE url \in s.reader.cache -> [s EXCEPT !.read[r].phase = "done"]
          [] url \notin s.reader.cache /\ counted.reader.attempts > MaxFiles
               -> [counted EXCEPT !.read[r].phase = "failed", !.read[r].why = "files"]
          [] OTHER
               -> [counted EXCEPT !.read[r].phase = "fetching", !.read[r].fetched = TRUE]

\* A waiter races the operations that are pending now.
Wait(s, r) ==
    [s EXCEPT !.read[r] = [@ EXCEPT !.phase = "waiting", !.racing = ActiveIn(s),
                                    !.woken = FALSE]]

\* Mutant: the wait is an if, and two waiters take the slot that came free.
LoopAgain_If(s, r) == Attempt(s, r)

LoopAgain(s, r) ==
    IF Cardinality(ActiveIn(s)) >= ActiveLimit THEN Wait(s, r) ELSE Attempt(s, r)

\* NativeSourceReader.read
Ask(s, r, url, kind) ==
    LET asked == [s EXCEPT !.read[r] = [NoRead EXCEPT !.url = url, !.kind = kind]]
    IN  IF url \in s.reader.cache THEN [asked EXCEPT !.read[r].phase = "done"]
        ELSE IF Cardinality(ActiveIn(s)) >= ActiveLimit THEN Wait(asked, r)
             ELSE Attempt(asked, r)

\* These reads are over; whoever raced one of them looks again.
Over(s, rs, phase, why) ==
    [s EXCEPT !.read = [q \in Reads |->
        IF q \in rs THEN [@[q] EXCEPT !.phase = phase, !.why = why, !.racing = {}]
        ELSE IF @[q].phase = "waiting" /\ @[q].racing \cap rs # {}
             THEN [@[q] EXCEPT !.woken = TRUE]
             ELSE @[q]]]

\* The whole body is there, within its limit: it is counted, and kept.
Complete(s, r) ==
    LET url == s.read[r].url
        counted == [s EXCEPT !.reader.total = @ + SizeOf[url]]
    IN  IF counted.reader.total > MaxTotalBytes THEN Over(counted, {r}, "failed", "bytes")
        ELSE Over([counted EXCEPT !.reader.cache = @ \cup {url}], {r}, "done", "none")

\* The abort of a signal takes the reads that listen to it.
AbortReads(s, rs) ==
    Over(s, {r \in rs : s.read[r].phase \in {"waiting", "fetching"}}, "failed", "aborted")

NextRead == CHOOSE r \in Reads : /\ read[r].phase = "unused"
                                 /\ \A q \in 1..(r - 1) : read[q].phase # "unused"

HasRead == read[MaxReads].phase = "unused"

(***************************************************************************)
(* The load                                                                *)
(***************************************************************************)

Enabled(plugins) == {p \in plugins : p.enabled}

\* pluginFacts: every source before the first request.
Validated(plugins) == \A p \in Enabled(plugins) : ValidSource(p)

\* managedFacts throws: at a name before anything else, at front matter before it knows
\* that the skill is not for the command line, at files only of a skill it keeps.
Refuses(skill) ==
    \/ ~skill.named
    \/ /\ skill.enabled /\ skill.local
       /\ skill.front = "broken" \/ (skill.cli /\ skill.files # "fine")

\* nativeRepositoryEncryptionKey: an invalid team key does not fall back.
KeyOf(team, user) == IF team # "absent" THEN team ELSE user

\* The files the load fetches: wanted skills, and agents, of the enabled plugins.
Files(plugins) == SetToSeq({p \in Enabled(plugins) : p.wanted})

Load(plugins) ==
    LET files == Files(plugins)
    IN  FoldLeft(LAMBDA s, i : Ask(s, i, files[i].url, "declared"), Readings,
                 [i \in 1..Len(files) |-> i])

LoadFails == account' = [account EXCEPT !.phase = "failed"]

\* One of the four RPCs of Promise.all answers.
AnswerRpc ==
    /\ account.phase = "metadata" /\ account.answered < Metadata - 1
    /\ account' = [account EXCEPT !.answered = @ + 1]
    /\ UNCHANGED <<reader, read, serving, conversation, repositories>>

RpcFails ==
    /\ account.phase = "metadata"
    /\ LoadFails
    /\ UNCHANGED <<reader, read, serving, conversation, repositories>>

\* The last one answers: the metadata is parsed and the plugins' files are fetched.
LastAnswer(skill, team, user) ==
    /\ account.phase = "metadata" /\ account.answered = Metadata - 1
    /\ IF ~Refuses(skill) /\ KeyOf(team, user) = "valid" /\ Validated(account.plugins)
       THEN LET loading == Load(account.plugins)
            IN  /\ account' = [account EXCEPT !.phase = "files", !.answered = Metadata]
                /\ reader' = loading.reader /\ read' = loading.read
       ELSE LoadFails /\ UNCHANGED <<reader, read>>
    /\ UNCHANGED <<serving, conversation, repositories>>

Declared == {r \in Reads : read[r].kind = "declared"}

Broken == {p.url : p \in {q \in Enabled(account.plugins) : q.wanted /\ q.front = "broken"}}

\* Promise.all over the plugins' files: the first failure fails the load, the other
\* reads go on.
FilesSettle ==
    /\ account.phase = "files"
    /\ \/ /\ \E r \in Declared : \/ read[r].phase = "failed"
                                 \/ read[r].phase = "done" /\ read[r].url \in Broken
          /\ LoadFails
       \/ /\ \A r \in Declared : read[r].phase = "done" /\ read[r].url \notin Broken
          /\ account' = [account EXCEPT !.phase = "ready"]
    /\ UNCHANGED <<reader, read, serving, conversation, repositories>>

\* The credential's generation is over: its controller aborts.
Invalidate ==
    /\ ~account.aborted
    /\ LET s == AbortReads(Readings, Reads)
       IN  reader' = s.reader /\ read' = s.read
    /\ account' = [account EXCEPT !.aborted = TRUE,
                                  !.phase = IF @ = "ready" THEN @ ELSE "failed"]
    /\ UNCHANGED <<serving, conversation, repositories>>

(***************************************************************************)
(* Reads under way                                                         *)
(***************************************************************************)

Becomes(s) == reader' = s.reader /\ read' = s.read

FetchCompletes(r) ==
    /\ read[r].phase = "fetching" /\ SizeOf[read[r].url] <= MaxBytes
    /\ Becomes(Complete(Readings, r))
    /\ UNCHANGED <<account, serving, conversation, repositories>>

\* A status, a length, a body or an encoding that is refused, or a connection lost.
FetchFails(r) ==
    /\ read[r].phase = "fetching"
    /\ Becomes(Over(Readings, {r}, "failed", "source"))
    /\ UNCHANGED <<account, serving, conversation, repositories>>

LookAgain(r) ==
    /\ read[r].phase = "waiting" /\ read[r].woken
    /\ Becomes(LoopAgain(Readings, r))
    /\ UNCHANGED <<account, serving, conversation, repositories>>

\* sourceTimeoutMs, which the waiting counts against too.
ReadTimesOut(r) ==
    /\ read[r].phase \in {"waiting", "fetching"}
    /\ Becomes(AbortReads(Readings, {r}))
    /\ UNCHANGED <<account, serving, conversation, repositories>>

(***************************************************************************)
(* The Run's reads                                                         *)
(***************************************************************************)

\* locate and relativeSourcePath: what a path is for this context.
Paths == {"invalid", "unowned", "declared"} \cup Sources

\* serveNativeContextRead, on a readArgs message.  Once the Run is settled its signal is
\* aborted: readFile rejects, awaitWithAbort rejects for its own part and never looks at
\* that promise.  The rest of a chunk is handled after a message in it ended the Run.
ServeRead(path) ==
    /\ account.phase = "ready" /\ HasRead /\ serving.process = "up"
    /\ LET r == NextRead
           owned == [NoRead EXCEPT !.url = "none", !.kind = "served"]
       IN  \/ /\ path = "invalid"
              /\ read' = [read EXCEPT ![r] = [owned EXCEPT !.phase = "done",
                            !.reply = IF serving.ended THEN "dropped" ELSE "rejected"]]
              /\ UNCHANGED <<reader, serving>>
           \/ /\ path = "unowned"
              /\ read' = [read EXCEPT ![r] = [owned EXCEPT !.phase = "done",
                                                           !.reply = "routed"]]
              /\ UNCHANGED <<reader, serving>>
           \/ /\ path \notin {"invalid", "unowned"}
              /\ serving.ended \/ account.aborted
              /\ read' = [read EXCEPT ![r] = [owned EXCEPT !.phase = "failed",
                                                           !.why = "aborted"]]
              /\ serving' = [serving EXCEPT !.process = IF serving.ended THEN "down" ELSE @]
              /\ UNCHANGED reader
           \/ /\ path = "declared" /\ ~serving.ended /\ ~account.aborted
              /\ read' = [read EXCEPT ![r] = [owned EXCEPT !.phase = "done"]]
              /\ UNCHANGED <<reader, serving>>
           \/ /\ path \in Sources /\ ~serving.ended /\ ~account.aborted
              /\ Becomes(Ask(Readings, r, path, "served"))
              /\ UNCHANGED serving
    /\ UNCHANGED <<account, conversation, repositories>>

\* The continuation of a read that is served: nothing is told to a Run that is over.
Reply(r) ==
    /\ read[r].kind = "served" /\ read[r].reply = "none"
    /\ read[r].phase \in {"done", "failed"}
    /\ read' = [read EXCEPT ![r].reply =
                CASE serving.ended -> "dropped"
                  [] ~serving.ended /\ read[r].phase = "done" -> "success"
                  [] OTHER -> "error"]
    /\ UNCHANGED <<account, reader, serving, conversation, repositories>>

\* The Run is settled, or its request is aborted: readLifecycle.
RunEnds ==
    /\ ~serving.ended /\ account.phase = "ready"
    /\ Becomes(AbortReads(Readings, {r \in Reads : read[r].kind = "served"}))
    /\ serving' = [serving EXCEPT !.ended = TRUE]
    /\ UNCHANGED <<account, conversation, repositories>>

\* NativeReadArgs on a file of total lines: the lines of the answer.  Offset 0 counts
\* from the first line, a negative one from the end; NoLimit is no limit.
NoLimit == -1

SliceStart(total, offset) ==
    LET at == IF offset < 0 THEN total + offset ELSE offset - 1
    IN  IF at < 0 THEN 0 ELSE at

\* slice(start, start + (limit ?? (offset < 0 ? |offset| : total))), and the whole file
\* for a start past its end.
SliceOf(total, offset, limit) ==
    LET start == SliceStart(total, offset)
        length == CASE limit # NoLimit -> limit
                    [] limit = NoLimit /\ offset < 0 -> -offset
                    [] OTHER -> total
    IN  IF start < total THEN {i \in 1..total : start < i /\ i <= start + length}
        ELSE 1..total

(***************************************************************************)
(* Conversations                                                           *)
(***************************************************************************)

Fresh(c) == <<"uuid", c>>

\* forConversation: the repository of a profile is named once.
OpenConversation(c, profile, persisted) ==
    /\ account.phase = "ready" /\ ~account.aborted
    /\ conversation[c].name = NoName
    /\ LET known == repositories[profile]
           name == CASE known # NoName -> known
                     [] known = NoName /\ persisted # NoName -> persisted
                     [] OTHER -> Fresh(c)
           refused == known # NoName /\ persisted \notin {NoName, known}
       IN  IF refused THEN UNCHANGED <<conversation, repositories>>
           ELSE /\ conversation' = [conversation EXCEPT ![c] =
                                      [name |-> name, profile |-> profile,
                                       persisted |-> persisted]]
                /\ repositories' = [repositories EXCEPT ![profile] = name]
    /\ UNCHANGED <<account, reader, read, serving>>

NativeInit ==
    /\ \E plugins \in SUBSET Plugins :
         account = [phase |-> "metadata", answered |-> 0, plugins |-> plugins,
                    aborted |-> FALSE]
    /\ reader = [cache |-> {}, attempts |-> 0, total |-> 0]
    /\ read = [r \in Reads |-> NoRead]
    /\ serving = [ended |-> FALSE, process |-> "up"]
    /\ conversation = [c \in Conversations |->
                         [name |-> NoName, profile |-> NoName, persisted |-> NoName]]
    /\ repositories = [p \in Profiles |-> NoName]

LoadSteps ==
    \/ AnswerRpc \/ RpcFails
    \/ \E skill \in Skills, team, user \in {"absent", "valid", "invalid"} :
         LastAnswer(skill, team, user)
    \/ FilesSettle
    \/ Invalidate

SourceReads ==
    \E r \in Reads :
        \/ FetchCompletes(r) \/ FetchFails(r)
        \/ LookAgain(r)
        \/ ReadTimesOut(r)
        \/ Reply(r)

RunReads == (\E path \in Paths : ServeRead(path)) \/ RunEnds

ConversationsOpen ==
    \E c \in Conversations, profile \in Profiles, persisted \in Persisted \cup {NoName} :
        OpenConversation(c, profile, persisted)

NativeNext ==
    /\ serving.process = "up"
    /\ LoadSteps \/ SourceReads \/ RunReads \/ ConversationsOpen

NativeSpec == NativeInit /\ [][NativeNext]_nativeVars

(***************************************************************************)
(* Properties                                                              *)
(***************************************************************************)

NativeTypeOK ==
    /\ NativeConstants
    /\ account.phase \in {"metadata", "files", "ready", "failed"}
    /\ account.answered \in 0..Metadata
    /\ reader \in [cache : SUBSET Sources, attempts : Nat, total : Nat]
    /\ \A r \in Reads : /\ read[r].phase \in {"unused", "waiting", "fetching", "done", "failed"}
                        /\ read[r].racing \subseteq Reads
                        /\ read[r].reply \in {"none", "success", "error", "rejected", "routed",
                                              "dropped"}

AddBytes(url, sum) == sum + SizeOf[url]

\* Whatever is asked for together: no more fetches at a time, and no more in all, than
\* the limits say; what is kept is within its limits; a waiter has a fetch under way to
\* wait for, or has been woken; and a read fails for a reason of its own, never for the
\* failure of a read it waited for.
ReaderSound ==
    /\ Cardinality(Active) <= ActiveLimit
    /\ Cardinality({r \in Reads : read[r].fetched}) <= MaxFiles
    /\ \A url \in reader.cache : SizeOf[url] <= MaxBytes
    /\ FoldSet(AddBytes, 0, reader.cache) <= MaxTotalBytes
    /\ \A r \in Reads :
         /\ read[r].phase = "waiting" => read[r].woken \/ read[r].racing \cap Active # {}
         /\ read[r].why \in {"source", "bytes"} => read[r].fetched
         /\ read[r].phase = "done" /\ read[r].url \in Sources => Cached(read[r].url)

\* Nothing is asked of a plugin's host before every enabled plugin was validated, and a
\* context is only used when each of its files is there.
LoadSound ==
    /\ (\E r \in Reads : read[r].phase # "unused") =>
         \A p \in Enabled(account.plugins) : p.source = "pinned" /\ p.file = "inside"
    /\ account.phase = "ready" =>
         \A p \in Enabled(account.plugins) :
           p.wanted => p.front = "fine" /\ Cached(p.url)

\* A served read tells its Run its contents or an error, once it is over.
RepliesSound ==
    \A r \in Reads :
        /\ read[r].reply = "success" => read[r].phase = "done"
        /\ read[r].reply = "error" => read[r].phase = "failed"
        /\ read[r].kind = "served" => account.phase = "ready"

\* Conversations of a profile agree on its repository, and a persisted name is kept.
ProfilesAgree ==
    \A c, d \in Conversations :
        LET this == conversation[c] that == conversation[d]
        IN  /\ this.name # NoName => this.persisted \in {NoName, this.name}
            /\ this.name # NoName /\ that.name # NoName /\ this.profile = that.profile
                 => this.name = that.name

\* nativeReadResult against what the native ReadArgs mean: of the lines from the offset
\* on, or of the last -offset, the first limit; the whole file from past its end.
SlicesSound ==
    \A total \in 1..3, offset \in -4..5, limit \in -1..3 :
        LET from == IF offset < 0 THEN total + offset + 1 ELSE offset
            lines == {i \in 1..total : i >= from}
            first == {i \in lines : Cardinality({j \in lines : j <= i}) <= limit}
        IN  SliceOf(total, offset, limit) =
              CASE lines = {} -> 1..total
                [] lines # {} /\ limit = NoLimit -> lines
                [] OTHER -> first

\* The account's context is loaded and read within its limits, each read for itself; the
\* slices, of which the state says nothing, are looked at once, before the load.
NativeSound ==
    /\ NativeTypeOK /\ ReaderSound /\ LoadSound /\ RepliesSound /\ ProfilesAgree
    /\ account.answered = 0 => SlicesSound
=============================================================================
