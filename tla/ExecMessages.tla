---------------------------- MODULE ExecMessages ----------------------------
(***************************************************************************)
(* What upstream asks of a Run besides listening: to execute a tool, to    *)
(* read a file, to describe itself, to keep a blob.  Every exec is         *)
(* answered at once, held until the client brings the tool's result, read  *)
(* for, or ends the Run (exec-responses.ts, builtin-tool-promotion.ts,     *)
(* builtin-tool-results.ts, run-messages.ts, tool-call-policy.ts).         *)
(*                                                                         *)
(* Data abstracted away: names are those the client declared, lower-cased  *)
(* and without the bridge's prefix; texts of errors; the values of         *)
(* arguments (only which there are).  Calls differ in their arguments, so  *)
(* that none is taken for another (ToolStream has the rest).               *)
(***************************************************************************)
EXTENDS Integers, FiniteSets, SequencesExt

CONSTANTS
    Execs,        \* the execs upstream sends on a Run
    Messages,     \* what they may say
    Tools,        \* the tools a client may declare
    Properties,   \* of each tool: the properties of its parameters
    Blobs, NoBlob

VARIABLES
    ask,     \* the request: its tools, its tool_choice, whether it has a native context
    execRun, \* open, parked, failed; whether the chunk that failed it goes on; why
    exec,    \* what became of each exec
    blob     \* the blobs of the Run

execVars == <<ask, execRun, exec, blob>>

(***************************************************************************)
(* Which tools                                                             *)
(***************************************************************************)

\* allowedToolsForRequest
Allowed ==
    CASE ask.choice = "none" -> {}
      [] ask.choice \in Tools -> ask.tools \cap {ask.choice}
      [] OTHER -> ask.tools

\* What requestContextResult and mcpStateExecArgs tell upstream there is.
Advertised == IF ask.choice = "none" THEN {} ELSE ask.tools

ShellCases == {"shellArgs", "shellStreamArgs", "backgroundShellSpawnArgs",
               "forceBackgroundShellArgs", "miniSweAgentBashArgs"}

Builtins == ShellCases \cup {"readArgs", "redactedReadArgs", "grepArgs", "lsArgs",
                            "writeArgs", "deleteArgs", "fetchArgs"}

\* builtinNames
Aliases == [c \in Builtins |->
    CASE c \in ShellCases -> {"shell", "bash"}
      [] c \in {"readArgs", "redactedReadArgs"} -> {"read"}
      [] c = "grepArgs" -> {"grep"}
      [] c = "lsArgs" -> {"ls"}
      [] c = "writeArgs" -> {"write"}
      [] c = "deleteArgs" -> {"delete"}
      [] c = "fetchArgs" -> {"fetch"}]

\* builtinStartCases: the announcements that name a builtin.
Announced == {"readArgs", "shellArgs", "grepArgs", "lsArgs"}

\* declaredMatch
Matching(case) == Aliases[case] \cap Allowed

\* The arguments of a builtin, by the names upstream gives them.
Arguments(case) ==
    CASE case \in ShellCases -> {"command", "workingDirectory"}
      [] case = "grepArgs" -> {"pattern", "path", "outputMode"}
      [] case = "writeArgs" -> {"path", "fileText"}
      [] case = "fetchArgs" -> {"url"}
      [] OTHER -> {"path"}

\* argumentAliases
Names(argument) ==
    CASE argument = "path" -> <<"path", "file_path">>
      [] argument = "fileText" -> <<"fileText", "file_text", "content", "text">>
      [] argument = "workingDirectory" -> <<"workingDirectory", "working_directory", "cwd">>
      [] OTHER -> <<argument>>

\* The first of the names that is one of S.
FirstOf(names, S) == names[Min({i \in DOMAIN names : names[i] \in S})]

\* mappedArguments: from the names the tool sees to upstream's.
MappedArguments(case, tool) ==
    LET found == {a \in Arguments(case) : Range(Names(a)) \cap Properties[tool] # {}}
        NameOf(a) == FirstOf(Names(a), Properties[tool])
    IN  IF found = {} THEN [name \in Arguments(case) |-> {name}]
        ELSE [name \in {NameOf(a) : a \in found} |-> {a \in found : NameOf(a) = name}]

(***************************************************************************)
(* What is answered                                                        *)
(***************************************************************************)

\* emptyBuiltinResult: the case of an exec that is refused for want of any tool.
RefusalCases == [c \in Builtins |->
    CASE c \in {"shellArgs", "shellStreamArgs"} -> "shell"
      [] c = "readArgs" -> "read"  [] c = "grepArgs" -> "grep"  [] c = "lsArgs" -> "ls"
      [] c = "writeArgs" -> "write"  [] c = "deleteArgs" -> "delete"
      [] c = "fetchArgs" -> "fetch"
      [] OTHER -> c]    \* redactedReadResult, backgroundShellSpawnResult, ...

\* resultCases: the case of a result the client brought.
ResultCases == [c \in Builtins |->
    CASE c \in ShellCases -> "shell"
      [] c \in {"readArgs", "redactedReadArgs"} -> "read"
      [] OTHER -> RefusalCases[c]]

ReplyTo(case, of) == [case |-> case, of |-> of]

Own == <<"own">>   \* an answer of the bridge's, not a tool's

Immediate == {"requestContextArgs", "mcpAllowlistPrecheckArgs", "mcpStateExecArgs",
              "listMcpResourcesExecArgs"}

NoCase == "none"    \* a field the descriptors do not know

MessageRecord ==
    [case : Immediate \cup Builtins \cup {"mcpArgs", "unsupported", NoCase},
     tool : Tools \cup {"", "undeclared"},          \* of mcpArgs
     path : {"invalid", "unowned", "owned"},        \* of readArgs
     ids : SUBSET {"toolCallId", "execId", "id"}]

\* What the constants are.
ExecConstants ==
    /\ Execs \cap {"none", "announcement", "kv"} = {}
    /\ Tools \cap {"auto", "none", "required"} = {}
    /\ Messages \subseteq MessageRecord
    /\ Properties \in [Tools -> SUBSET STRING]

NoMessage == [case |-> NoCase, tool |-> "", path |-> "unowned", ids |-> {}]

NoExec == [said |-> NoMessage, phase |-> "unsent", announced |-> FALSE, replies |-> <<>>,
           tool |-> "", call |-> <<>>]

\* The id of the tool call an exec becomes; a call without one is given a random id.
CallId(e, said) ==
    LET from == IF said.case = "mcpArgs" THEN <<"toolCallId">>
                ELSE <<"toolCallId", "execId", "id">>
    IN  IF Range(from) \cap said.ids = {} THEN <<"random", e>>
        ELSE <<FirstOf(from, said.ids), e>>

Served(said) == said.case = "readArgs" /\ ask.native /\ said.path # "unowned"

\* The tool a call is held for, where it can be.
ToolsFor(said) ==
    CASE said.case = "mcpArgs" -> {said.tool} \cap Allowed
      [] said.case \in Builtins -> Matching(said.case)
      [] OTHER -> {}

\* handleExecResponse, for a message and the exec it is about.
Verdict(said) ==
    CASE said.case = NoCase -> "ignored"
      [] said.case \in Immediate -> "answered"
      [] Served(said) -> IF said.path = "owned" THEN "reading" ELSE "answered"
      [] ~Served(said) /\ ToolsFor(said) # {} -> "held"
      [] said.case = "mcpArgs" /\ ToolsFor(said) = {} -> "answered"
      [] ~Served(said) /\ said.case \in Builtins /\ ask.tools = {} -> "answered"
      [] OTHER -> "ends"

\* What it is answered with at once.
ExecAnswer(said) ==
    CASE said.case \in Builtins /\ ~Served(said) -> RefusalCases[said.case]
      [] Served(said) -> "read"
      [] OTHER -> said.case

(***************************************************************************)
(* What the announcement of a call decides                                 *)
(***************************************************************************)

\* attemptedToolName: of an MCP call only.
Attempted(said) == IF said.case = "mcpArgs" THEN said.tool ELSE ""

\* Mutant: an announced builtin is not looked up among the declared tools.
Announcement_AnyBuiltin(said) ==
    CASE said.case = "mcpStateExecArgs" \/ (Served(said) /\ said.path = "owned") -> "goes on"
      [] Allowed = {} \/ Attempted(said) \notin Allowed \cup {""} -> "ends"
      [] OTHER -> "goes on"

\* toolCallStarted
Announcement(said) ==
    CASE said.case = "mcpStateExecArgs" \/ (Served(said) /\ said.path = "owned") -> "goes on"
      [] ~(Served(said) /\ said.path = "owned") /\ said.case # "mcpStateExecArgs"
         /\ \/ Allowed = {}
            \/ Attempted(said) \notin Allowed \cup {""}
            \/ said.case \in Announced /\ Matching(said.case) = {}
            \/ /\ said.case \notin Announced /\ Attempted(said) = ""
               /\ ask.choice \in {"required"} \cup Tools
           -> "ends"
      [] OTHER -> "goes on"

(***************************************************************************)
(* The Run                                                                 *)
(***************************************************************************)

Live == execRun.stage \in {"open", "parked"}

\* A message of a chunk is handled although one before it ended the Run.
RunHears == Live \/ execRun.rest

\* finish, given an error: the rest of the chunk is handled all the same.
Ends(why) ==
    execRun' = IF Live THEN [stage |-> "failed", rest |-> TRUE, why |-> why] ELSE execRun

\* writeMessage: nothing reaches a Run that is over.
Written(x, reply) == IF Live THEN [x EXCEPT !.replies = Append(@, reply)] ELSE x

ExecInit ==
    /\ ask \in [tools : SUBSET Tools, choice : {"auto", "none", "required"} \cup Tools,
                native : BOOLEAN]
    /\ execRun = [stage |-> "open", rest |-> FALSE, why |-> "none"]
    /\ exec = [e \in Execs |-> NoExec]
    /\ blob = [b \in Blobs |-> NoBlob]

\* An interaction update announces the call upstream is about to make.
Announce(e, said) ==
    /\ RunHears /\ exec[e].phase = "unsent" /\ ~exec[e].announced
    /\ said.case \notin (Immediate \ {"mcpStateExecArgs"}) \cup {NoCase}
    /\ exec' = [exec EXCEPT ![e] = [NoExec EXCEPT !.said = said, !.announced = TRUE]]
    /\ IF Announcement(said) = "ends" THEN Ends("announcement") ELSE UNCHANGED execRun
    /\ UNCHANGED <<ask, blob>>

\* An exec message, whether its call was announced or not.
HandleExec(e, said) ==
    /\ RunHears /\ exec[e].phase = "unsent"
    /\ exec[e].announced => said = exec[e].said
    /\ \E tool \in ToolsFor(said) \cup {""} :
         LET verdict == Verdict(said)
             x == [exec[e] EXCEPT !.said = said, !.phase = verdict, !.tool = tool,
                                  !.call = CallId(e, said)]
         IN  /\ tool = "" <=> verdict # "held"
             /\ exec' = [exec EXCEPT ![e] = IF verdict = "answered"
                                            THEN Written(x, ReplyTo(ExecAnswer(said), Own)) ELSE x]
    /\ IF Verdict(said) = "ends" THEN Ends(e) ELSE UNCHANGED execRun
    /\ UNCHANGED <<ask, blob>>

\* A native read is over: its contents, or that it failed.
ReadIsOver(e) ==
    /\ exec[e].phase = "reading"
    /\ exec' = [exec EXCEPT ![e] = [Written(@, ReplyTo("read", Own)) EXCEPT !.phase = "answered"]]
    /\ UNCHANGED <<ask, execRun, blob>>

\* The calls are told the client, and the Run waits for their results.
HoldExec ==
    /\ execRun.stage = "open" /\ \E e \in Execs : exec[e].phase = "held"
    /\ exec' = [e \in Execs |-> IF exec[e].phase = "held"
                                THEN [exec[e] EXCEPT !.phase = "told"] ELSE exec[e]]
    /\ execRun' = [execRun EXCEPT !.stage = "parked"]
    /\ UNCHANGED <<ask, blob>>

\* execIdFor finds the call of a result, and its id the exec that waits for it.
Waiting(call) ==
    {e \in Execs : exec[e].phase = "told" /\ call \in {<<kind, e>> : kind \in exec[e].said.ids}}

\* sendHeldToolResult
ResultOf(x, call) ==
    ReplyTo(IF x.said.case = "mcpArgs" THEN "mcpArgs" ELSE ResultCases[x.said.case], call)

\* HeldRun.resume: the client brings a result for each call it was told.  A result whose
\* id is no exec's is dropped, and its exec still waits.
Resume ==
    /\ execRun.stage = "parked"
    /\ LET results == {exec[e].call : e \in {x \in Execs : exec[x].phase = "told"}}
           for(e) == {call \in results : e \in Waiting(call)}
       IN  exec' = [e \in Execs |->
             CASE for(e) # {}
                    -> [exec[e] EXCEPT !.phase = "answered",
                                       !.replies = @ \o SetToSeq({ResultOf(exec[e], call) :
                                                                  call \in for(e)})]
               [] for(e) = {} /\ exec[e].phase = "told" -> [exec[e] EXCEPT !.phase = "lost"]
               [] OTHER -> exec[e]]
    /\ execRun' = [execRun EXCEPT !.stage = "open"]
    /\ UNCHANGED <<ask, blob>>

\* handleKv
SetBlob(b, value) ==
    /\ RunHears
    /\ blob' = [blob EXCEPT ![b] = value]
    /\ UNCHANGED <<ask, execRun, exec>>

UnknownKv ==
    /\ RunHears
    /\ Ends("kv")
    /\ UNCHANGED <<ask, exec, blob>>

ChunkIsOver ==
    /\ execRun.rest
    /\ execRun' = [execRun EXCEPT !.rest = FALSE]
    /\ UNCHANGED <<ask, exec, blob>>

ExecNext ==
    \/ \E e \in Execs, said \in Messages : Announce(e, said) \/ HandleExec(e, said)
    \/ \E e \in Execs : ReadIsOver(e)
    \/ HoldExec \/ Resume
    \/ \E b \in Blobs : SetBlob(b, b)
    \/ UnknownKv
    \/ ChunkIsOver

ExecSpec == ExecInit /\ [][ExecNext]_execVars

(***************************************************************************)
(* Properties                                                              *)
(***************************************************************************)

ExecTypeOK ==
    /\ ExecConstants
    /\ execRun.stage \in {"open", "parked", "failed"} /\ execRun.rest \in BOOLEAN
    /\ \A e \in Execs :
         /\ exec[e].said \in Messages \cup {NoMessage}
         /\ exec[e].phase \in {"unsent", "ignored", "answered", "held", "told", "reading",
                               "lost", "ends"}
    /\ blob \in [Blobs -> Blobs \cup {NoBlob}]

\* Upstream waits for no exec of a Run that goes on but the ones being read, the ones
\* whose tool is executed, and two that nobody answers: a message of a kind the
\* descriptors do not know, and a call that came without an id of its own.
Answered ==
    Live => \A e \in Execs :
        LET x == exec[e]
        IN  /\ Len(x.replies) = IF x.phase = "answered" THEN 1 ELSE 0
            /\ x.phase = "ignored" => x.said.case = NoCase
            /\ x.phase = "lost" => x.call = <<"random", e>>
            /\ x.phase # "ends"

\* A result answers the call it was given for, as a result of its kind.
OwnResult ==
    \A e \in Execs : \A i \in DOMAIN exec[e].replies :
        LET x == exec[e] reply == x.replies[i]
        IN  /\ reply.of \in {Own, x.call}
            /\ reply.of = Own \/ x.said.case = "mcpArgs" \/ reply.case = ResultCases[x.said.case]

\* A client executes what it declared and tool_choice lets the model call, under a name
\* it declared, with every argument of upstream's that its tool has a property for.
HeldForItsTool ==
    \A e \in Execs :
        LET x == exec[e]
        IN  x.tool # "" =>
              /\ x.tool \in ask.tools /\ ask.choice # "none"
              /\ ask.choice \in Tools => x.tool = ask.choice
              /\ x.said.case \in Builtins =>
                   LET mapped == MappedArguments(x.said.case, x.tool)
                   IN  /\ x.tool \in Aliases[x.said.case]
                       /\ \A name \in DOMAIN mapped : Cardinality(mapped[name]) = 1
                       /\ \A a \in Arguments(x.said.case) :
                            a \in Properties[x.tool] => a \in UNION {mapped[n] : n \in DOMAIN mapped}

\* Whoever announces a call learns its fate: an exec ends no Run that its announcement
\* let go on, for the calls an announcement names; and whatever is held for has been
\* advertised, and could have been announced.
AnnouncementsHold ==
    /\ \A e \in Execs :
         execRun.why = e /\ exec[e].announced
           => exec[e].said.case \notin Announced \cup {"mcpArgs"}
    /\ \A e \in Execs :
         LET x == exec[e]
         IN  x.tool # "" =>
               /\ x.tool \in Advertised
               /\ x.said.case \in Announced \cup {"mcpArgs"} => Announcement(x.said) = "goes on"

\* What upstream asks of a Run is answered once and by the right party.
ExecsSound == ExecTypeOK /\ Answered /\ OwnResult /\ HeldForItsTool /\ AnnouncementsHold
=============================================================================
