---------------------------- MODULE AnswerStream ----------------------------
(***************************************************************************)
(* The text of an answer, from the Run to the client of a stream.          *)
(*                                                                         *)
(* CursorApiCompletion.completeStream (completion.ts) feeds the text deltas*)
(* of a Run through a ToolTextStreamFilter (tool-call-stream.ts) into an   *)
(* AsyncQueue (async-queue.ts); streamChatCompletion (streaming.ts) takes  *)
(* the events from the queue, filters them once more and writes what is    *)
(* safe.  A filter holds back whatever may still turn out to be a tool     *)
(* call written as text.  While it has let nothing pass, the request may   *)
(* be tried again: after a retryable error, with another credential, or    *)
(* because the arguments of its calls are invalid.                         *)
(*                                                                         *)
(* Text is a sequence of pieces: the two halves of the marker              *)
(* [TOOL_CALLS:, a word, a space, a JSON fence, an opening brace, a first  *)
(* key that names tool calls and one that does not.  A chunk is any run of *)
(* pieces, so the marker may be cut in two; keys and fences are not cut.   *)
(* How tool calls themselves are streamed is in ToolStream.                *)
(***************************************************************************)
EXTENDS Naturals, Sequences, FiniteSets, SequencesExt

CONSTANTS
    Pieces,       \* the pieces of text that occur, some of AllPieces
    MaxPieces,    \* bound: pieces of text of all attempts
    MaxAttempts   \* bound: upstream Runs of the request

AllPieces == {"[TOOL_", "CALLS:", "word", " ", "fence", "{", "toolkey", "key"}

ASSUME AnswerStreamAssumption ==
    /\ Pieces \subseteq AllPieces
    /\ MaxPieces \in Nat
    /\ MaxAttempts \in Nat \ {0}

VARIABLES
    toolUse,    \* of the request: no tools, choice "none", "auto", "required"
    attempt,    \* the upstream Run: its number, its text, its native calls
    clean,      \* the filter was reset when this attempt began
    retried,    \* the last attempt before this one had invalid arguments
    hearing,    \* text the producer's filter was fed since it was reset
    upstream,   \* the producer's filter
    passed,     \* client-visible output reached the queue
    sent,       \* the calls of the outcome were streamed
    queue,      \* events between producer and consumer, and how it ends
    suppressor, \* the consumer's filter
    buffered,   \* text the consumer took
    answer      \* what the client has

answerVars == <<toolUse, attempt, clean, retried, hearing, upstream, passed, sent, queue,
                suppressor, buffered, answer>>

Declared == toolUse # "absent"
Inspects == toolUse \in {"auto", "required"}

-----------------------------------------------------------------------------
(* Texts.                                                                  *)

Marker == <<"[TOOL_", "CALLS:">>
MarkerAt(t) ==
    {i \in 1..(Len(t) - 1) : t[i] = Marker[1] /\ t[i + 1] = Marker[2]}
HasMarker(t) == MarkerAt(t) # {}
BeforeMarker(t) ==
    SubSeq(t, 1, (CHOOSE i \in MarkerAt(t) : \A j \in MarkerAt(t) : i <= j) - 1)

TrimStart(t) ==
    LET solid == {i \in DOMAIN t : t[i] # " "}
    IN  IF solid = {} THEN <<>>
        ELSE SubSeq(t, CHOOSE i \in solid : \A j \in solid : i <= j, Len(t))

\* classifyJsonObject: an object is a tool call when its first key says so.
ClassifyObject(t) ==
    LET inside == TrimStart(Tail(t))
    IN  IF t[1] # "{" THEN "stream"
        ELSE IF inside = <<>> THEN "wait"
        ELSE IF inside[1] = "toolkey" THEN "suppress" ELSE "stream"

\* classifyLeadingCandidate
Classify(t, inspect) ==
    IF t = SubSeq(Marker, 1, 1) THEN "wait"
    ELSE IF IsPrefix(Marker, t) THEN "suppress"
    ELSE IF ~inspect THEN "stream"
    ELSE IF t[1] # "fence" THEN ClassifyObject(t)
    ELSE LET fenced == TrimStart(Tail(t))
         IN  IF fenced = <<>> THEN "wait" ELSE ClassifyObject(fenced)

\* Text that parseToolCallsFromText may find calls in.
MayHoldCalls(t) ==
    \/ HasMarker(t)
    \/ TrimStart(t) # <<>> /\ Classify(TrimStart(t), TRUE) = "suppress"

-----------------------------------------------------------------------------
(* ToolTextStreamFilter.  A push returns the filter and what is safe.      *)

Filter == [mode : {"undecided", "streaming", "suppressed"},
           pending : Seq(AllPieces)]

FreshFilter == [mode |-> "undecided", pending |-> <<>>]

Suppressed(safe) ==
    [filter |-> [mode |-> "suppressed", pending |-> <<>>], safe |-> safe]

PassedOn(pending, safe) ==
    [filter |-> [mode |-> "streaming", pending |-> pending], safe |-> safe]

\* Mutant: the start of a marker at the end of a chunk is not held back.
Scan_NotHeld(t) ==
    IF HasMarker(t) THEN Suppressed(BeforeMarker(t)) ELSE PassedOn(<<>>, t)

\* The marker, or the start of one at the end of what has come so far.
Scan(t) ==
    IF HasMarker(t) THEN Suppressed(BeforeMarker(t))
    ELSE IF t # <<>> /\ Last(t) = Marker[1]
    THEN PassedOn(<<Last(t)>>, Front(t))
    ELSE PassedOn(<<>>, t)

Push(f, chunk, inspect) ==
    LET t       == f.pending \o chunk
        waiting == [filter |-> [f EXCEPT !.pending = t], safe |-> <<>>]
        verdict == Classify(TrimStart(t), inspect)
    IN  IF f.mode = "suppressed" THEN [filter |-> f, safe |-> <<>>]
        ELSE IF f.mode = "streaming" THEN Scan(t)
        ELSE IF TrimStart(t) = <<>> THEN waiting
        ELSE IF verdict = "wait" THEN waiting
        ELSE IF verdict = "suppress" THEN Suppressed(<<>>)
        ELSE Scan(t)

\* What a client may see of a text, however it is cut into chunks.
VisibleText(t, inspect) ==
    IF TrimStart(t) = <<>> THEN t
    ELSE IF Classify(TrimStart(t), inspect) = "suppress" THEN <<>>
    ELSE IF HasMarker(t) THEN BeforeMarker(t) ELSE t

-----------------------------------------------------------------------------
(* The producer.                                                           *)

AnswerInit ==
    /\ toolUse \in {"absent", "none", "auto", "required"}
    /\ attempt = [number |-> 1, text |-> <<>>, native |-> FALSE]
    /\ clean = TRUE /\ retried = FALSE
    /\ hearing = <<>> /\ upstream = FreshFilter
    /\ passed = FALSE /\ sent = FALSE
    /\ queue = [events |-> <<>>, end |-> "open"]
    /\ suppressor = FreshFilter /\ buffered = <<>>
    /\ answer = [text |-> <<>>, calls |-> FALSE, completed |-> FALSE, finish |-> "none"]

Content(t) == IF t = <<>> THEN <<>> ELSE <<[type |-> "content", text |-> t]>>
Call == <<[type |-> "call", text |-> <<>>]>>
Done == <<[type |-> "done", text |-> <<>>]>>

ConsumerUnchanged == UNCHANGED <<suppressor, buffered, answer>>

\* tool_choice "required" is buffered; without tools nothing is filtered.
Emits == toolUse # "required"
Producing == queue.end = "open"

Room == MaxPieces - Len(hearing) - (IF Emits THEN 0 ELSE Len(attempt.text))

TextDelta ==
    /\ Producing /\ Room > 0
    /\ \E chunk \in UNION {[1..n -> Pieces] : n \in 1..(IF Room > 1 THEN 2 ELSE 1)} :
         LET p == IF toolUse = "absent" THEN [filter |-> upstream, safe |-> chunk]
                  ELSE Push(upstream, chunk, toolUse = "auto")
         IN  /\ attempt' = [attempt EXCEPT !.text = @ \o chunk]
             /\ IF Emits
                THEN /\ hearing' = hearing \o chunk
                     /\ upstream' = p.filter
                     /\ queue' = [queue EXCEPT !.events = @ \o Content(p.safe)]
                     /\ passed' = (passed \/ p.safe # <<>>)
                ELSE UNCHANGED <<hearing, upstream, queue, passed>>
    /\ UNCHANGED <<toolUse, clean, retried, sent>> /\ ConsumerUnchanged

\* A declared tool is called natively; its events pass the filter by.
NativeCall ==
    /\ Producing /\ Inspects /\ ~attempt.native
    /\ attempt' = [attempt EXCEPT !.native = TRUE]
    /\ IF Emits
       THEN /\ queue' = [queue EXCEPT !.events = @ \o Call]
            /\ passed' = TRUE /\ sent' = TRUE
       ELSE UNCHANGED <<queue, passed, sent>>
    /\ UNCHANGED <<toolUse, clean, retried, hearing, upstream>>
    /\ ConsumerUnchanged

NextAttempt ==
    attempt' = [number |-> attempt.number + 1, text |-> <<>>, native |-> FALSE]

CanRetry == Producing /\ ~passed /\ attempt.number < MaxAttempts

ResetFilter == hearing' = <<>> /\ upstream' = FreshFilter

\* CursorApiCompletion.run: a retryable error before any visible output.
Retry ==
    /\ CanRetry
    /\ NextAttempt
    /\ ResetFilter
    /\ clean' = TRUE
    /\ UNCHANGED <<toolUse, retried, passed, sent, queue>> /\ ConsumerUnchanged

\* withCursorCredential: another credential, before any visible output.
FailsOver ==
    /\ CanRetry
    /\ NextAttempt
    /\ clean' = FALSE
    /\ UNCHANGED <<toolUse, retried, hearing, upstream, passed, sent, queue>>
    /\ ConsumerUnchanged

Fails == queue' = [queue EXCEPT !.end = "failed"]

\* An error nothing retries, or one after visible output.
AttemptFails ==
    /\ Producing
    /\ Fails
    /\ UNCHANGED <<toolUse, attempt, clean, retried, hearing, upstream, passed, sent>>
    /\ ConsumerUnchanged

\* The arguments of the calls are invalid: one more attempt, or the error.
InvalidArguments ==
    /\ Producing /\ Inspects
    /\ attempt.native \/ MayHoldCalls(attempt.text)
    /\ IF passed \/ retried \/ attempt.number = MaxAttempts
       THEN Fails /\ UNCHANGED <<attempt, clean, retried>>
       ELSE NextAttempt /\ retried' = TRUE /\ clean' = FALSE /\ UNCHANGED queue
    /\ UNCHANGED <<toolUse, hearing, upstream, passed, sent>> /\ ConsumerUnchanged

\* filter.finish()
Trailing ==
    IF upstream.mode = "suppressed" \/ ~Emits \/ ~Declared THEN <<>>
    ELSE upstream.pending

\* The whole text, when the filter let none of it pass.
Unfiltered(called, text) ==
    IF /\ Emits /\ Declared /\ ~called /\ ~passed /\ Trailing = <<>>
       /\ upstream.mode # "suppressed" /\ ~HasMarker(text)
    THEN text ELSE <<>>

(* The Run succeeds.  Its calls are the native ones, or the ones its text  *)
(* holds if that parses to calls of declared tools.                        *)
AttemptEnds ==
    /\ Producing /\ (attempt.text # <<>> \/ attempt.native)
    /\ \E called \in BOOLEAN :
         /\ attempt.native => called
         /\ called => \/ attempt.native
                      \/ Inspects /\ MayHoldCalls(attempt.text)
         /\ IF (retried \/ toolUse = "required") /\ ~called
            THEN Fails
            ELSE queue' =
                   [events |-> queue.events
                      \o (IF called /\ Emits THEN Call ELSE <<>>)
                      \o Content(Trailing)
                      \o (IF called /\ ~Emits THEN Content(Marker) ELSE <<>>)
                      \o Content(Unfiltered(called, attempt.text))
                      \o Done,
                    end |-> "ended"]
         /\ sent' = called
    /\ UNCHANGED <<toolUse, attempt, clean, retried, hearing, upstream, passed>>
    /\ ConsumerUnchanged

-----------------------------------------------------------------------------
(* The consumer.                                                           *)

ProducerUnchanged ==
    UNCHANGED <<toolUse, attempt, clean, retried, hearing, upstream, passed, sent>>

Telling == answer.finish = "none"

TakeEvent ==
    /\ Telling /\ queue.events # <<>>
    /\ LET event == Head(queue.events)
           p     == Push(suppressor, event.text, Inspects)
       IN  IF event.type = "content"
           THEN /\ suppressor' = p.filter
                /\ buffered' = buffered \o event.text
                /\ answer' = [answer EXCEPT !.text = @ \o p.safe]
           ELSE /\ answer' = [answer EXCEPT !.calls = @ \/ event.type = "call",
                                            !.completed = @ \/ event.type = "done"]
                /\ UNCHANGED <<suppressor, buffered>>
    /\ queue' = [queue EXCEPT !.events = Tail(@)]
    /\ ProducerUnchanged

StreamFails ==
    /\ Telling /\ queue.events = <<>> /\ queue.end = "failed"
    /\ answer' = [answer EXCEPT !.finish = "error"]
    /\ UNCHANGED <<suppressor, buffered, queue>> /\ ProducerUnchanged

\* The calls the consumer finds in the text it took.
ParsedCalls ==
    IF answer.calls \/ ~Inspects \/ ~MayHoldCalls(buffered)
    THEN {FALSE}
    ELSE IF toolUse = "required" THEN {TRUE} ELSE BOOLEAN

StreamEnds ==
    /\ Telling /\ queue.events = <<>> /\ queue.end = "ended"
    /\ \E parsed \in ParsedCalls :
         LET called == answer.calls \/ parsed
             rest   == IF called \/ suppressor.mode = "suppressed" THEN <<>>
                       ELSE suppressor.pending
         IN  answer' = [answer EXCEPT
                          !.text = @ \o rest,
                          !.calls = called,
                          !.finish = IF ~answer.completed THEN "error"
                                     ELSE IF called THEN "tool_calls" ELSE "stop"]
    /\ UNCHANGED <<suppressor, buffered, queue>> /\ ProducerUnchanged

AnswerNext ==
    \/ TextDelta \/ NativeCall
    \/ Retry \/ FailsOver \/ AttemptFails \/ InvalidArguments \/ AttemptEnds
    \/ TakeEvent \/ StreamFails \/ StreamEnds

AnswerSpec == AnswerInit /\ [][AnswerNext]_answerVars

-----------------------------------------------------------------------------

AnswerTypeOK ==
    /\ attempt.number \in 1..MaxAttempts
    /\ Len(hearing) <= MaxPieces
    /\ {upstream, suppressor} \subseteq Filter
    /\ queue.end \in {"open", "ended", "failed"}
    /\ answer.finish \in {"none", "stop", "tool_calls", "error"}

(* However the text is cut into chunks, through both filters and the queue,*)
(* the client sees the visible part of what the Run said, in order and     *)
(* nothing of a tool call written as text, and has all of it when the      *)
(* answer ends in text.  After a retry nothing of the failed attempt is in *)
(* it.                                                                     *)
TextIsChunkBlind ==
    LET said == IF clean THEN attempt.text ELSE hearing
        visible == VisibleText(said, toolUse = "auto")
    IN  /\ toolUse # "required" => IsPrefix(answer.text, visible)
        /\ answer.finish = "stop" => answer.text = visible

(* The client learns how the Run ended: calls when its outcome has calls,  *)
(* an error when it failed, and text otherwise.                            *)
EndIsTold ==
    /\ answer.finish \in {"stop", "tool_calls"} =>
         queue.end = "ended" /\ (answer.finish = "tool_calls" <=> sent)
    /\ answer.finish = "error" => queue.end = "failed"

(* The answer is the text of one attempt: the one that succeeded.          *)
AnswerIsOfOneAttempt ==
    answer.finish = "stop" =>
        answer.text = VisibleText(attempt.text, toolUse = "auto")

(* The text and the end of an answer together.                             *)
AnswerIsTold == AnswerTypeOK /\ TextIsChunkBlind /\ EndIsTold
=============================================================================
