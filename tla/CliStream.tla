------------------------------ MODULE CliStream -------------------------------
(***************************************************************************)
(* What the CLI prints and the client is told of it (cursor-cli-stream.ts, *)
(* cursor-cli-result.ts): a command prints JSON lines, cut anywhere, which *)
(* a normalizer turns into events and a queue hands to the completion.     *)
(*                                                                         *)
(* A text is a sequence of pieces.  A line has two halves, so that a chunk *)
(* can end in it, and its last newline may be missing.  The CLI prints an  *)
(* answer as fragments followed by the whole of it, or as the whole alone, *)
(* and a result at the end; lines that keep to that and lines that do not  *)
(* are both read.  The lengths behind an estimated usage are left out.     *)
(***************************************************************************)
EXTENDS Naturals, Sequences, SequencesExt

CONSTANT Outputs         \* the lines a command may print: sequences of Line

VARIABLES
    output,              \* the lines the command prints, [lines, newline, tells]
    printed,             \* how many units of them it has printed
    normalizer,          \* CursorStreamNormalizer
    queue,               \* AsyncEventQueue
    execution,           \* the command: running, or how it ended
    told,                \* the events the completion was given
    listener             \* where the completion stands

cliStreamVars == <<output, printed, normalizer, queue, execution, told, listener>>

\* A line, by what parseCursorStreamObject finds in it.
Line ==
    [type : {"thinking", "assistant", "other", "junk"}, text : Seq(Nat)] \cup
    [type : {"result"}, text : Seq(Nat), isError : BOOLEAN, subtype : {"none", "error"},
     usage : BOOLEAN]

Event ==
    [type : {"thinking", "content"}, text : Seq(Nat)] \cup
    [type : {"done"}, error : BOOLEAN, source : {"cli_reported", "estimated"}]

\* What the constants are.
CliStreamConstants == Outputs \subseteq Seq(Line)

NewLine == [half |-> 0]

\* The units of the output: of each line its halves and its newline, the last one
\* perhaps without.
Units(o) ==
    LET open == o.lines # <<>> /\ ~o.newline
    IN [u \in 1..(3 * Len(o.lines) - (IF open THEN 1 ELSE 0)) |->
          IF u % 3 = 0 THEN NewLine
          ELSE [half |-> u % 3, line |-> o.lines[1 + u \div 3]]]

\* A normalizer that has read nothing.
Unread == [lineBuffer |-> <<>>, assistantEvents |-> 0, pending |-> <<>>,
           fragmentsSeen |-> FALSE, done |-> FALSE]

CliStreamInit ==
    /\ \E lines \in Outputs, newline, tells \in BOOLEAN :
          output = [lines |-> lines, newline |-> newline, tells |-> tells]
    /\ printed = 0
    /\ normalizer = Unread
    /\ queue = [values |-> <<>>, waiting |-> FALSE, state |-> "open"]
    /\ execution = "running" /\ told = <<>> /\ listener = "idle"

-----------------------------------------------------------------------------
(* CursorStreamNormalizer.  Its operators take and give [n, events].       *)

Content(text) == <<[type |-> "content", text |-> text]>>

\* An assistant's text is held until the next shows that it was a fragment.
AssistantLine(n, text) ==
    [n |-> [n EXCEPT !.pending = <<text>>, !.assistantEvents = @ + 1,
                     !.fragmentsSeen = @ \/ n.pending # <<>>],
     events |-> IF n.pending = <<>> THEN <<>> ELSE Content(n.pending[1])]

\* Mutant: the text held at the end is told whether fragments were or not.
ResultLine_TellsPending(n, line) ==
    [n |-> [n EXCEPT !.pending = <<>>, !.done = TRUE],
     events |->
        (IF n.assistantEvents = 0 /\ line.text # <<>> THEN Content(line.text)
         ELSE IF n.pending # <<>> THEN Content(n.pending[1]) ELSE <<>>)
        \o <<[type |-> "done", error |-> line.isError \/ line.subtype = "error",
              source |-> IF line.usage THEN "cli_reported" ELSE "estimated"]>>]

\* The result: the text held is the whole answer, told only if no fragment was.
ResultLine(n, line) ==
    [n |-> [n EXCEPT !.pending = <<>>, !.done = TRUE],
     events |->
        (IF n.assistantEvents = 0 /\ line.text # <<>> THEN Content(line.text)
         ELSE IF ~n.fragmentsSeen /\ n.pending # <<>> THEN Content(n.pending[1]) ELSE <<>>)
        \o <<[type |-> "done", error |-> line.isError \/ line.subtype = "error",
              source |-> IF line.usage THEN "cli_reported" ELSE "estimated"]>>]

\* assistantText: the text of a message's blocks, undefined when there is none.
HasAssistantText(line) == line.type = "assistant" /\ line.text # <<>>

\* parseLine, of a line that is whole.
ReadLine(n, line) ==
    CASE line.type = "thinking" ->
           [n |-> n, events |-> <<[type |-> "thinking", text |-> line.text]>>]
      [] HasAssistantText(line) -> AssistantLine(n, line.text)
      [] line.type = "result" -> ResultLine(n, line)
      [] OTHER -> [n |-> n, events |-> <<>>]

\* parseLine, of the units up to a newline: half a line is no JSON.
ParseLine(n, units) ==
    IF Len(units) = 2 THEN ReadLine(n, units[1].line)
    ELSE [n |-> n, events |-> <<>>]

\* A newline ends the line that is in the buffer.
ReadUnit(acc, unit) ==
    LET parsed == ParseLine(acc.n, acc.n.lineBuffer)
    IN IF unit.half = 0
       THEN [n |-> [parsed.n EXCEPT !.lineBuffer = <<>>],
             events |-> acc.events \o parsed.events]
       ELSE [acc EXCEPT !.n.lineBuffer = Append(@, unit)]

\* push: the chunk joins the buffer, whose whole lines are parsed in turn.
PushChunk(n, chunk) == FoldLeft(ReadUnit, [n |-> n, events |-> <<>>], chunk)

\* finish: what no newline ended is parsed as a line.
FinishReading(n) == [ParseLine(n, n.lineBuffer) EXCEPT !.n.lineBuffer = <<>>]

-----------------------------------------------------------------------------
(* AsyncEventQueue, whose one waiter is the completion                     *)

\* push, of some events at once: the first goes to the waiter.
Enqueue(events) ==
    IF events = <<>> \/ queue.state # "open" THEN UNCHANGED <<queue, told, listener>>
    ELSE IF queue.waiting
         THEN /\ told' = Append(told, Head(events))
              /\ queue' = [queue EXCEPT !.waiting = FALSE, !.values = Tail(events)]
              /\ listener' = "idle"
         ELSE /\ queue' = [queue EXCEPT !.values = @ \o events]
              /\ UNCHANGED <<told, listener>>

\* The command is over: the events of its last line, then the end or the failure.
CloseQueue(events, state) ==
    LET waits == queue.waiting /\ events = <<>>
    IN /\ told' = IF queue.waiting /\ events # <<>> THEN Append(told, Head(events)) ELSE told
       /\ queue' = [values |-> IF queue.waiting /\ events # <<>>
                               THEN Tail(events) ELSE queue.values \o events,
                    waiting |-> FALSE, state |-> state]
       /\ listener' = CASE waits /\ state = "ended" -> "over"
                        [] waits /\ state = "failed" -> "threw"
                        [] queue.waiting /\ ~waits -> "idle"
                        [] listener = "leaving" -> "left"
                        [] OTHER -> listener

\* next: an event, the failure, the end, or a wait.
NextEvent ==
    /\ listener = "idle"
    /\ \/ /\ queue.values # <<>>
          /\ told' = Append(told, Head(queue.values))
          /\ queue' = [queue EXCEPT !.values = Tail(@)]
          /\ UNCHANGED listener
       \/ /\ queue.values = <<>> /\ queue.state # "open"
          /\ listener' = IF queue.state = "failed" THEN "threw" ELSE "over"
          /\ UNCHANGED <<queue, told>>
       \/ /\ queue.values = <<>> /\ queue.state = "open"
          /\ queue' = [queue EXCEPT !.waiting = TRUE]
          /\ listener' = "waiting"
          /\ UNCHANGED told
    /\ UNCHANGED <<output, printed, normalizer, execution>>

\* The completion is returned from between two events: the finally awaits the command.
LeaveStream ==
    /\ listener = "idle"
    /\ listener' = IF execution = "running" THEN "leaving" ELSE "left"
    /\ UNCHANGED <<output, printed, normalizer, queue, execution, told>>

-----------------------------------------------------------------------------
(* cursorCompletionEvents: the command                                     *)

\* A chunk: any run of what is still to be printed, told if the runner tells any.
Chunk ==
    /\ execution = "running"
    /\ \E upTo \in (printed + 1)..Len(Units(output)) :
          LET read == PushChunk(normalizer, SubSeq(Units(output), printed + 1, upTo))
          IN /\ printed' = upTo
             /\ IF output.tells
                THEN normalizer' = read.n /\ Enqueue(read.events)
                ELSE UNCHANGED <<normalizer, queue, told, listener>>
    /\ UNCHANGED <<output, execution>>

\* The command succeeds: output no chunk told is read whole, the rest as a line.
CommandSucceeds ==
    LET untold == IF output.tells \/ output.lines = <<>> THEN [n |-> normalizer, events |-> <<>>]
                  ELSE PushChunk(normalizer, Units(output) \o <<NewLine>>)
        read == FinishReading(untold.n)
    IN /\ execution = "running" /\ printed = Len(Units(output))
       /\ normalizer' = read.n
       /\ execution' = IF read.n.done THEN "succeeded" ELSE "failed"
       /\ CloseQueue(untold.events \o read.events, IF read.n.done THEN "ended" ELSE "failed")
       /\ UNCHANGED <<output, printed>>

\* It fails: its exit code, a signal, its timeout, the client's abort, too much output.
CommandFails ==
    /\ execution = "running"
    /\ execution' = "failed"
    /\ CloseQueue(<<>>, "failed")
    /\ UNCHANGED <<output, printed, normalizer>>

CliStreamNext == Chunk \/ CommandSucceeds \/ CommandFails \/ NextEvent \/ LeaveStream

CliStreamSpec == CliStreamInit /\ [][CliStreamNext]_cliStreamVars

-----------------------------------------------------------------------------
(* What must hold                                                          *)

Events == told \o queue.values

\* The text of the events, or lines, of a type.
TextOf(type, items) ==
    FoldLeft(LAMBDA text, item : IF item.type = type THEN text \o item.text ELSE text,
             <<>>, items)

\* parseCursorResult, of the same result printed alone: the unstreamed reading.
ParsedResult(line) ==
    IF line.isError THEN [kind |-> "error"]
    ELSE [kind |-> "text", text |-> line.text,
          source |-> IF line.usage THEN "cli_reported" ELSE "estimated"]

\* The output keeps to what the CLI prints: fragments and their whole, or the whole
\* alone, then a result.
Conforms ==
    LET lines == output.lines
        speaks == {i \in DOMAIN lines : HasAssistantText(lines[i])}
    IN /\ lines # <<>> /\ Last(lines).type = "result"
       /\ \A i \in 1..(Len(lines) - 1) : lines[i].type # "result"
       /\ \A i \in speaks : (\A j \in speaks : j <= i) =>
            /\ lines[i].text = Last(lines).text
            /\ TextOf("assistant", SubSeq(lines, 1, i - 1)) \in {<<>>, lines[i].text}

\* The text of an answer is told once, in order, and whole when the end is told;
\* thought is told as it came.
AnswerToldOnce ==
    LET content == TextOf("content", Events)
        result == Last(output.lines)
        read == ParsedResult(result)
    IN Conforms =>
       /\ IsPrefix(content, result.text)
       /\ normalizer.done => content = result.text
       /\ IsPrefix(TextOf("thinking", Events), TextOf("thinking", output.lines))
       \* The streamed and the unstreamed reading agree, but for subtype "error".
       /\ \A i \in DOMAIN Events : Events[i].type = "done" =>
             /\ i = Len(Events)
             /\ result.subtype = "none" => (Events[i].error <=> read.kind = "error")
             /\ read.kind = "text" => Events[i].source = read.source

\* Read in any cut, the lines give the events they give when read at once.
CutsTellTheSame ==
    LET whole == PushChunk(Unread, Append(Units(output), NewLine))
    IN /\ IsPrefix(Events, whole.events)
       /\ execution = "succeeded" => Events = whole.events

\* The completion is over at the end alone, and nothing told is kept from it.
EndIsHeard ==
    /\ listener = "over" => execution = "succeeded" /\ queue.values = <<>> /\ normalizer.done
    /\ listener = "threw" => execution = "failed" /\ queue.values = <<>>
    /\ listener = "left" => execution # "running"
    /\ queue.waiting <=> listener = "waiting"
    /\ queue.waiting => queue.state = "open" /\ queue.values = <<>>

CliStreamTypeOK ==
    /\ CliStreamConstants
    /\ \A i \in DOMAIN output.lines : output.lines[i] \in Line
    /\ printed \in 0..Len(Units(output))
    /\ \A i \in DOMAIN Events : Events[i].type \in {"thinking", "content", "done"}
    /\ queue.state \in {"open", "ended", "failed"}
    /\ execution \in {"running", "succeeded", "failed"}
    /\ listener \in {"idle", "waiting", "leaving", "left", "over", "threw"}

\* However the CLI's output is cut into chunks and whenever the command ends, the
\* client is told the answer once, in order, and its end or failure after all of it.
CliStreamSound ==
    CliStreamTypeOK /\ AnswerToldOnce /\ CutsTellTheSame /\ EndIsHeard
=============================================================================
