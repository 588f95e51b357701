------------------------------- MODULE History -------------------------------
(***************************************************************************)
(* What Cursor is told of a conversation: the history of a request is      *)
(* checked (tool-history.ts) and becomes the prompt of the model, the      *)
(* turns of the conversation and the action of the Run (history.ts,        *)
(* history-turns.ts).  Messages arrive one by one: each state is a request *)
(* that ends with the last of them.                                        *)
(*                                                                         *)
(* Data abstracted away: a text is empty, blank or words, and known by the *)
(* message it is from; the arguments of a call are an object or broken;    *)
(* a blob is known by what it stores.                                      *)
(***************************************************************************)
EXTENDS Integers, FiniteSets, SequencesExt

CONSTANTS
    Said,         \* the messages a client may send
    HistoryRequests, \* what else a request may say about tools
    MaxMessages   \* bound on the messages of a request

Contents == {"empty", "blank", "words"}

\* What the constants are.
HistoryConstants ==
    /\ \A m \in Said : /\ m.role \in {"system", "user", "assistant", "tool"}
                       /\ m.content \in Contents
    /\ MaxMessages \in Nat \ {0}

VARIABLES
    messages,   \* of the request; NoId is a tool message without tool_call_id
    request     \* its tools, tool_choice and parallel_tool_calls

historyVars == <<messages, request>>

NoId == ""

(***************************************************************************)
(* assertValidToolHistory                                                  *)
(***************************************************************************)

Unchecked == [seen |-> {}, pending |-> {}, invalid |-> FALSE]

Repeats(calls) == ~IsInjective(calls)

\* Mutant: results may come late, after messages of other roles.
CheckMessage_Late(acc, m) ==
    [seen |-> acc.seen \cup ToSet(m.calls),
     pending |-> (acc.pending \cup ToSet(m.calls)) \ {m.answers},
     invalid |-> \/ acc.invalid
                 \/ m.calls # <<>> /\ m.role # "assistant"
                 \/ ToSet(m.calls) \cap acc.seen # {} \/ Repeats(m.calls)
                 \/ m.role = "tool" /\ m.answers \notin acc.pending]

CheckMessage(acc, m) ==
    [seen |-> acc.seen \cup ToSet(m.calls),
     pending |-> (acc.pending \cup ToSet(m.calls)) \ {m.answers},
     invalid |-> \/ acc.invalid
                 \/ acc.pending # {} /\ m.role # "tool"
                 \/ m.calls # <<>> /\ m.role # "assistant"
                 \/ ToSet(m.calls) \cap acc.seen # {} \/ Repeats(m.calls)
                 \/ m.role = "tool" /\ m.answers \notin acc.pending \cup ToSet(m.calls)]

Valid ==
    LET checked == FoldLeft(CheckMessage, Unchecked, messages)
    IN  ~checked.invalid /\ checked.pending = {}

(***************************************************************************)
(* buildCursorHistory                                                      *)
(***************************************************************************)

Latest == Last(messages)

\* The last message is the action of the Run when it is a user's.
HistoryLength == IF Latest.role = "user" THEN Len(messages) - 1 ELSE Len(messages)

Indices == [i \in 1..HistoryLength |-> i]

Call(i, id) == [from |-> i, id |-> id]

CallsOf(i) == [n \in DOMAIN messages[i].calls |-> Call(i, messages[i].calls[n])]

\* parsedArguments throws on a call in the part of the history it reads.
BrokenCall(reads) == \E i \in reads : messages[i].broken /\ messages[i].calls # <<>>

\* nativeToolInstruction, guidanceFor
Guidance ==
    /\ request.choice # "auto" /\ request.tools

\* The message a result is for: the last call of its id in the history.
NamedBy(id) ==
    LET callers == {i \in 1..HistoryLength : id \in ToSet(messages[i].calls)}
    IN  CHOOSE i \in callers : \A j \in callers : j <= i

PromptEntry(i) ==
    LET m == messages[i]
        text == IF m.content = "empty" THEN <<>> ELSE <<Call(i, NoId)>>
    IN  CASE m.role \in {"system", "user"}
               -> IF m.content = "words"
                  THEN <<[role |-> m.role, parts |-> <<Call(i, NoId)>>]>> ELSE <<>>
          [] m.role = "assistant"
               -> IF text \o CallsOf(i) = <<>> THEN <<>>
                  ELSE <<[role |-> m.role, parts |-> text \o CallsOf(i)]>>
          [] m.role = "tool"
               -> <<[role |-> m.role, parts |-> <<Call(NamedBy(m.answers), m.answers)>>]>>

GuidanceEntry == [role |-> "system", parts |-> <<>>]

\* rootPromptEntries
RootPrompt ==
    FlattenSeq([i \in 1..HistoryLength |-> PromptEntry(i)])
    \o (IF Guidance THEN <<GuidanceEntry>> ELSE <<>>)

\* The result of a call, wherever in the history it is.
ResultFor(id) == {i \in 1..HistoryLength : messages[i].role = "tool" /\ messages[i].answers = id}

Step(call, result) == [call |-> call, result |-> result]

Steps(i) ==
    LET m == messages[i]
        text == IF m.content = "empty" THEN <<>> ELSE <<Step(Call(i, NoId), {})>>
    IN  text \o [n \in DOMAIN m.calls |-> Step(Call(i, m.calls[n]), ResultFor(m.calls[n]))]

NoTurn == 0

\* The loop of buildConversationTurns.
TakeMessage(acc, i) ==
    CASE messages[i].role = "user"
           -> [turns |-> IF acc.user = NoTurn THEN acc.turns
                         ELSE Append(acc.turns, [user |-> acc.user, steps |-> acc.steps]),
               user |-> IF messages[i].content = "words" THEN i ELSE NoTurn,
               steps |-> <<>>]
      [] messages[i].role = "assistant" /\ acc.user # NoTurn
           -> [acc EXCEPT !.steps = @ \o Steps(i)]
      [] OTHER -> acc

Turns ==
    LET taken == FoldLeft(TakeMessage, [turns |-> <<>>, user |-> NoTurn, steps |-> <<>>], Indices)
    IN  IF taken.user = NoTurn THEN taken.turns
        ELSE Append(taken.turns, [user |-> taken.user, steps |-> taken.steps])

\* actionFor
Action ==
    IF Latest.role = "user" /\ Latest.content = "words"
    THEN [case |-> "userMessageAction", of |-> Len(messages)]
    ELSE [case |-> "resumeAction", of |-> 0]

HistoryIsBuilt == Valid /\ ~BrokenCall(1..HistoryLength)

(***************************************************************************)
(* Requests                                                                *)
(***************************************************************************)

HistoryInit == request \in HistoryRequests /\ \E m \in Said : messages = <<m>>

ClientAppends(m) ==
    /\ Len(messages) < MaxMessages
    /\ messages' = Append(messages, m)
    /\ UNCHANGED request

HistoryNext == \E m \in Said : ClientAppends(m)

HistorySpec == HistoryInit /\ [][HistoryNext]_historyVars

(***************************************************************************)
(* Properties                                                              *)
(***************************************************************************)

\* What a history may be, said of the whole of it: calls are an assistant's and each has
\* an id of its own; the messages after a call, up to the next of another role, are
\* results, one for each call; and there is no other result.
Paired ==
    LET groups == {i \in DOMAIN messages : messages[i].calls # <<>>}
        answersTo(i) ==
            {j \in i + 1..Len(messages) : \A k \in i + 1..j : messages[k].role = "tool"}
    IN  /\ \A i \in groups :
             /\ messages[i].role = "assistant"
             /\ Cardinality(answersTo(i)) = Len(messages[i].calls)
             /\ {messages[j].answers : j \in answersTo(i)} = ToSet(messages[i].calls)
             /\ Cardinality(ToSet(messages[i].calls)) = Len(messages[i].calls)
        /\ \A i, k \in groups : i # k => ToSet(messages[i].calls) \cap ToSet(messages[k].calls) = {}
        /\ \A j \in DOMAIN messages : messages[j].role = "tool" => \E i \in groups : j \in answersTo(i)

PartsOf(roles) ==
    FlattenSeq([n \in DOMAIN RootPrompt |->
        IF RootPrompt[n].role \in roles THEN RootPrompt[n].parts ELSE <<>>])

\* The model is prompted with each text of the conversation once and in its order, the
\* user's last words as the action of the Run and nowhere else; each call is followed by
\* its result under its own tool's name.
PromptTellsAll ==
    LET told == PartsOf({"system", "user", "assistant"})
        texts == SelectSeq(told, LAMBDA p : p.id = NoId)
        action == IF Action.case = "userMessageAction" THEN <<Action.of>> ELSE <<>>
        worded == {i \in DOMAIN messages :
                     \/ messages[i].role # "tool" /\ messages[i].content = "words"
                     \/ messages[i].role = "assistant" /\ messages[i].content = "blank"}
    IN  /\ [n \in DOMAIN texts |-> texts[n].from] \o action = SetToSortSeq(worded, <)
        /\ SelectSeq(told, LAMBDA p : p.id # NoId) =
             FlattenSeq([i \in 1..HistoryLength |-> CallsOf(i)])
        /\ ToSet(PartsOf({"tool"})) = {p \in ToSet(told) : p.id # NoId}
        /\ IsInjective(PartsOf({"tool"}))

\* A turn is a user's words and what the assistant said and did until the next user
\* message, each call with its own result; there is a turn for each of the user's words.
TurnsAreExchanges ==
    LET users == {i \in 1..HistoryLength : messages[i].role = "user"}
        ends(i) == {j \in i + 1..HistoryLength : \A u \in users : u <= i \/ u > j}
    IN  /\ [n \in DOMAIN Turns |-> Turns[n].user] =
             SetToSortSeq({i \in users : messages[i].content = "words"}, <)
        /\ \A n \in DOMAIN Turns :
             LET turn == Turns[n]
                 assistants == {j \in ends(turn.user) : messages[j].role = "assistant"}
             IN  /\ turn.steps = FlattenSeq([a \in 1..Cardinality(assistants) |->
                                               Steps(SetToSortSeq(assistants, <)[a])])
                 /\ \A s \in ToSet(turn.steps) :
                      s.call.id # NoId =>
                        /\ Cardinality(s.result) = 1
                        /\ \A r \in s.result : r > s.call.from

\* The bridge refuses a history exactly when its calls and results do not pair, and what
\* it makes of the others tells Cursor the same conversation three times over.
HistorySound ==
    /\ HistoryConstants
    /\ Valid <=> Paired
    /\ HistoryIsBuilt => PromptTellsAll /\ TurnsAreExchanges
=============================================================================
