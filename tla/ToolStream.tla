----------------------------- MODULE ToolStream -----------------------------
(***************************************************************************)
(* From the tool frames of a Cursor Run to the tool calls of an OpenAI     *)
(* stream.                                                                 *)
(*                                                                         *)
(* CursorToolStream (tool-stream.ts) reconciles what the upstream says of  *)
(* a call: the announcement, snapshots of its arguments, its completion    *)
(* as an update and as the exec that waits for the result, under ids that  *)
(* drift between these frames.  It streams starts and argument deltas to   *)
(* the response; runValidatedCursorCompletion (validated-run.ts) numbers   *)
(* the calls of one response and completes them; and                       *)
(* OpenAiToolStreamAccumulator (openai-tool-stream.ts) turns the events    *)
(* into deltas and throws on any sequence it holds impossible.             *)
(*                                                                         *)
(* One Run over several responses: it is parked when its calls have been   *)
(* surfaced, hears frames without an emitter while parked, and is resumed  *)
(* by the results.  The frames are handled one at a time on the event      *)
(* loop, so a frame is one action.                                         *)
(*                                                                         *)
(* Arguments are a sequence of two pieces, an opening and a value; the     *)
(* upstream's own text may space them otherwise than JSON.stringify does,  *)
(* which is the other opening.                                             *)
(***************************************************************************)
EXTENDS Naturals, Sequences, FiniteSets, SequencesExt

CONSTANTS
    UpstreamCalls,  \* calls the model makes on this Run
    ArgValues,      \* values of their arguments
    MaxFrames,      \* bound: tool frames of the Run
    MaxResponses    \* bound: OpenAI responses the Run answers

ASSUME ToolStreamAssumption ==
    /\ MaxFrames \in Nat
    /\ MaxResponses \in Nat \ {0}

VARIABLES
    made,       \* what the model means by each call, and what was said of it
    serial,     \* parallel_tool_calls = false: the stream shows one call
    tools,      \* CursorToolStream: slots, aliases
    heldCalls,  \* ids of the execs the upstream waits on
    resultOf,   \* exec ids with a result, and the slot whose result it is
    told,       \* slots surfaced by a response
    response,   \* what the accumulator of the current response knows
    stage,      \* of the Run
    rounds,     \* responses so far
    frames      \* tool frames so far

toolVars == <<made, serial, tools, heldCalls, resultOf, told, response, stage,
              rounds, frames>>

-----------------------------------------------------------------------------
(* Ids, names and texts.                                                   *)

\* The id of the envelope, the tool's own id, and an id it drifts to.
Ids == {"envelope", "tool", "drifted"} \X UpstreamCalls

Openings == {"{", "{ "}
Text(opening, value) == <<opening, value>>
Whole(text) == Len(text) = 2
SameArguments(a, b) == Whole(a) /\ Whole(b) /\ a[2] = b[2]

\* mcpArgsToToolCall: the structured arguments, as JSON.stringify writes them.
Canonical(k) == Text("{", made[k].value)

NoText == <<>>

\* A slot; `call' is the text of the completed call.
ToolSlot == [started : BOOLEAN, arguments : Seq(Openings \cup ArgValues),
             emittedStart : BOOLEAN, emitted : Seq(Openings \cup ArgValues),
             exec : Ids \cup {<<>>}, call : Seq(Openings \cup ArgValues)]

NewSlot == [started |-> FALSE, arguments |-> NoText, emittedStart |-> FALSE,
            emitted |-> NoText, exec |-> <<>>, call |-> NoText]

Completed(slot) == slot.call # NoText

\* visibleSlots(): a serial stream shows its first slot only.
VisibleSlots(x) == {i \in DOMAIN x.slots : serial => i = 1}

\* hasIncompleteStartedCalls()
Dangling(x) ==
    \E i \in VisibleSlots(x) : x.slots[i].started /\ ~Completed(x.slots[i])

-----------------------------------------------------------------------------
(* The accumulator.  Calls of a response are known by their slot: the id   *)
(* names the slot, and the index follows from the id.  `client' is what a  *)
(* client puts together from the deltas; `broken' is an exception.         *)

Started(r, i) == i \in DOMAIN r.calls

NoCalls == [calls |-> <<>>, client |-> <<>>, broken |-> FALSE]

Known(r, i, text, done) ==
    [j \in DOMAIN r.calls \cup {i} |->
        IF j = i THEN [text |-> text, done |-> done] ELSE r.calls[j]]

Heard(r, i, text) ==
    [j \in DOMAIN r.client \cup {i} |->
        IF j # i THEN r.client[j]
        ELSE IF j \in DOMAIN r.client THEN r.client[j] \o text ELSE text]

AccStart(r, i) ==
    IF Started(r, i) THEN r
    ELSE [r EXCEPT !.calls = Known(r, i, NoText, FALSE),
                   !.client = Heard(r, i, NoText)]

AccAppend(r, i, delta) ==
    IF ~Started(r, i) \/ r.calls[i].done
    THEN [r EXCEPT !.broken = TRUE]
    ELSE [r EXCEPT !.calls = Known(r, i, r.calls[i].text \o delta, FALSE),
                   !.client = Heard(r, i, delta)]

Sofar(r, i) == IF Started(r, i) THEN r.calls[i].text ELSE NoText

Contradicts(r, i, text) ==
    IF Started(r, i) /\ r.calls[i].done THEN Sofar(r, i) # text
    ELSE ~IsPrefix(Sofar(r, i), text)

(* complete(), for the texts of a batch of calls, which have nothing to do *)
(* with each other; the first that contradicts ends it all.                *)
AccComplete(r, texts) ==
    IF \E i \in DOMAIN texts : Contradicts(r, i, texts[i])
    THEN [r EXCEPT !.broken = TRUE]
    ELSE [r EXCEPT
            !.calls = [i \in DOMAIN r.calls \cup DOMAIN texts |->
                IF i \in DOMAIN texts THEN [text |-> texts[i], done |-> TRUE]
                ELSE r.calls[i]],
            !.client = [i \in DOMAIN r.client \cup DOMAIN texts |->
                IF i \in DOMAIN texts
                THEN Heard(r, i, SubSeq(texts[i], Len(Sofar(r, i)) + 1, Len(texts[i])))[i]
                ELSE r.client[i]]]

\* finish(): every call of the response must have completed.
AccFinish(r) ==
    [r EXCEPT !.broken = @ \/ \E i \in DOMAIN r.calls : ~r.calls[i].done]

-----------------------------------------------------------------------------
(* CursorToolStream.  x has the slots and aliases, the response that hears *)
(* the events, whether there is an emitter, and `bad', a                   *)
(* ToolCallReconciliationError.                                            *)

Stream == [slots |-> tools.slots, aliases |-> tools.aliases,
           response |-> response, emit |-> stage = "running", bad |-> FALSE]

Named(x, id) == IF id \in DOMAIN x.aliases THEN x.aliases[id] ELSE 0

Bound(x, ids, i) ==
    [a \in DOMAIN x.aliases \cup ids |-> IF a \in ids THEN i ELSE x.aliases[a]]

Clash(x, ids) ==
    \E a, b \in ids : Named(x, a) # 0 /\ Named(x, b) # 0 /\ Named(x, a) # Named(x, b)

\* slot(): the slot an identity names, or a new one.
SlotFor(x, ids) ==
    LET known == {Named(x, a) : a \in ids} \ {0}
    IN  IF known # {} THEN CHOOSE i \in known : TRUE ELSE Len(x.slots) + 1

WithSlot(x, ids) ==
    LET i == SlotFor(x, ids)
    IN  IF Clash(x, ids) THEN [x EXCEPT !.bad = TRUE]
        ELSE [x EXCEPT !.slots = IF i > Len(@) THEN Append(@, NewSlot) ELSE @,
                       !.aliases = Bound(x, ids, i)]

\* Mutant: an argument delta is sent for a call whose start was not.
EmitStart_Forgets(x, i) == [x EXCEPT !.slots[i].emittedStart = TRUE]

EmitStart(x, i) ==
    IF x.slots[i].emittedStart THEN x
    ELSE [x EXCEPT !.slots[i].emittedStart = TRUE,
                   !.response = AccStart(@, i)]

\* flushSlot(): what the response has not heard of the arguments yet.
FlushSlot(x, i) ==
    IF x.bad \/ ~x.emit \/ i \notin VisibleSlots(x) \/ ~x.slots[i].started THEN x
    ELSE LET y    == EmitStart(x, i)
             s    == y.slots[i]
             text == IF Completed(s) THEN s.call ELSE s.arguments
         IN  IF text = s.emitted THEN y
             ELSE IF ~IsPrefix(s.emitted, text) THEN [y EXCEPT !.bad = TRUE]
             ELSE [y EXCEPT
                     !.slots[i].emitted = text,
                     !.response = AccAppend(@, i,
                         SubSeq(text, Len(s.emitted) + 1, Len(text)))]

\* The text a call completes with: the streamed one when it says the same.
Agreed(s, text) ==
    IF s.arguments # NoText /\ SameArguments(s.arguments, text)
       /\ ~IsPrefix(s.arguments, text)
    THEN s.arguments ELSE text

\* completeSlot()
CompleteSlot(x, i, text) ==
    LET s == x.slots[i]
    IN  IF x.bad THEN x
        ELSE IF Completed(s) THEN [x EXCEPT !.bad = s.call # text]
        ELSE IF s.arguments # NoText /\ ~IsPrefix(s.arguments, text)
                /\ ~SameArguments(s.arguments, text)
        THEN [x EXCEPT !.bad = TRUE]
        ELSE FlushSlot(
               [x EXCEPT !.slots[i] =
                   [s EXCEPT !.started = TRUE,
                             !.call = Agreed(s, text),
                             !.arguments = IF @ = NoText THEN text ELSE @]], i)

\* uniqueCompatibleSlot(): the only slot these arguments can belong to, or 0.
Compatible(x, text) ==
    LET fits == {i \in DOMAIN x.slots :
                    \/ IsPrefix(x.slots[i].arguments, text)
                    \/ SameArguments(x.slots[i].arguments, text)}
    IN  IF Cardinality(fits) = 1 THEN CHOOSE i \in fits : TRUE ELSE 0

-----------------------------------------------------------------------------

ToolInit ==
    /\ made \in [UpstreamCalls ->
           [value : ArgValues, opening : Openings, said : {0},
            completed : {FALSE}, exec : {<<>>}]]
    /\ serial \in BOOLEAN
    /\ tools = [slots |-> <<>>, aliases |-> <<>>]
    /\ heldCalls = {} /\ resultOf = {} /\ told = {}
    /\ response = NoCalls
    /\ stage = "running" /\ rounds = 1 /\ frames = 0

Unseen(x) == {i \in DOMAIN x.slots : Completed(x.slots[i])} \ told

(* The end of a frame.  An exception fails the response, or the hold when  *)
(* there is nothing left to surface; a hold with calls to surface outlives *)
(* its transport.                                                          *)
Handled(x) ==
    /\ tools' = [slots |-> x.slots, aliases |-> x.aliases]
    /\ response' = x.response
    /\ stage' = IF ~x.bad THEN stage
                ELSE IF stage = "parked" /\ Unseen(x) # {} THEN "ended"
                ELSE "failed"
    /\ frames' = frames + 1
    /\ UNCHANGED <<serial, resultOf, told, rounds>>

FrameArrives == stage \in {"running", "parked"} /\ frames < MaxFrames

\* toolCallStarted: the tool's id may still be missing.
CallStarted(k) ==
    /\ FrameArrives
    /\ made[k].said = 0 /\ ~made[k].completed /\ made[k].exec = <<>>
    /\ \E id \in {<<"envelope", k>>, <<"tool", k>>} :
         LET ids == {<<"envelope", k>>, id}
             x   == WithSlot(Stream, ids)
             i   == SlotFor(Stream, ids)
         IN  Handled(IF x.bad THEN x
                     ELSE FlushSlot([x EXCEPT !.slots[i].started = TRUE], i))
    /\ UNCHANGED <<made, heldCalls>>

(* partialToolCall: a snapshot of the text so far or only the new piece,   *)
(* with or without the identity.                                           *)
PartialCall(k) ==
    /\ FrameArrives
    /\ made[k].said < 2 /\ ~made[k].completed /\ made[k].exec = <<>>
    /\ \E upto \in (made[k].said + 1)..2, cumulative, identified \in BOOLEAN :
         LET text     == Text(made[k].opening, made[k].value)
             snapshot == SubSeq(text, IF cumulative THEN 1 ELSE made[k].said + 1, upto)
             ids      == {<<"envelope", k>>, <<"tool", k>>}
             i == IF identified THEN SlotFor(Stream, ids)
                  ELSE Named(Stream, <<"envelope", k>>)
             x == IF identified THEN WithSlot(Stream, ids) ELSE Stream
             y == [x EXCEPT
                     !.slots[i].started = TRUE,
                     !.slots[i].arguments =
                         IF IsPrefix(@, snapshot) THEN snapshot ELSE @ \o snapshot]
         IN  /\ Handled(IF i = 0 \/ x.bad THEN x
                        ELSE IF x.slots[i].arguments = snapshot THEN y
                        ELSE FlushSlot(y, i))
             /\ made' = [made EXCEPT ![k].said = upto]
    /\ UNCHANGED heldCalls

\* toolCallCompleted
CallCompleted(k) ==
    /\ FrameArrives
    /\ LET ids == {<<"envelope", k>>, <<"tool", k>>}
       IN  Handled(CompleteSlot(WithSlot(Stream, ids), SlotFor(Stream, ids),
                                Canonical(k)))
    /\ made' = [made EXCEPT ![k].completed = TRUE]
    /\ UNCHANGED heldCalls

ExecOf(s, id) == IF s.exec = <<>> THEN id ELSE s.exec

(* mcpArgs: the exec the upstream waits on.  An id nobody has mentioned is *)
(* matched by its arguments.                                               *)
CallExec(k) ==
    /\ FrameArrives
    /\ made[k].exec = <<>>
    /\ \E id \in {<<"tool", k>>, <<"drifted", k>>} :
         LET like == IF Named(Stream, id) # 0 THEN Named(Stream, id)
                     ELSE Compatible(Stream, Canonical(k))
             x == IF like = 0 THEN WithSlot(Stream, {id})
                  ELSE [Stream EXCEPT !.aliases = Bound(Stream, {id}, like)]
             i == IF like = 0 THEN SlotFor(Stream, {id}) ELSE like
             y == [x EXCEPT !.slots[i].exec = ExecOf(x.slots[i], id)]
             z == CompleteSlot(y, i, Canonical(k))
         IN  /\ Handled(z)
             /\ heldCalls' = IF z.bad THEN heldCalls ELSE heldCalls \cup {id}
             /\ made' = [made EXCEPT ![k].exec = id]

Least(S) == {i \in S : \A j \in S : i <= j}

Batch(x) == IF serial THEN Least(Unseen(x)) ELSE Unseen(x)

(* The response of a batch: runValidatedCursorCompletion completes each of *)
(* its calls once more, and the accumulator must find all of them complete.*)
SurfacedTo(r) ==
    AccFinish(AccComplete(r, [i \in Batch(tools) |-> tools.slots[i].call]))

\* hold(): the settle window closes and no call the client saw start is open.
Settled == heldCalls # {} /\ Unseen(tools) # {} /\ ~Dangling(tools)

Surface ==
    /\ stage = "running" /\ Settled
    /\ response' = SurfacedTo(response)
    /\ told' = told \cup Batch(tools)
    /\ stage' = "parked"
    /\ UNCHANGED <<made, serial, tools, heldCalls, resultOf, rounds, frames>>

Answers(i) == {tools.slots[i].exec} \cap heldCalls

(* HeldRun.resume(): the results of the surfaced calls go to their execs,  *)
(* and calls that completed while the Run was parked are the next response.*)
ResumeWithResults ==
    /\ stage \in {"parked", "ended"} /\ rounds < MaxResponses
    /\ rounds' = rounds + 1
    /\ heldCalls' = heldCalls \ UNION {Answers(i) : i \in told}
    /\ resultOf' = resultOf \cup UNION {Answers(i) \X {i} : i \in told}
    /\ IF Unseen(tools) # {}
       THEN /\ response' = SurfacedTo(NoCalls)
            /\ told' = told \cup Batch(tools)
            /\ stage' = IF stage = "ended" /\ Unseen(tools) = Batch(tools)
                        THEN "done" ELSE stage
       ELSE /\ response' = NoCalls
            /\ stage' = IF stage = "ended" THEN "failed" ELSE "running"
            /\ UNCHANGED told
    /\ UNCHANGED <<made, serial, tools, frames>>

ToolNext ==
    \/ \E k \in UpstreamCalls :
         CallStarted(k) \/ PartialCall(k) \/ CallCompleted(k) \/ CallExec(k)
    \/ Surface
    \/ ResumeWithResults

ToolSpec == ToolInit /\ [][ToolNext]_toolVars

-----------------------------------------------------------------------------

ToolTypeOK ==
    /\ tools.slots \in Seq(ToolSlot)
    /\ \A id \in DOMAIN tools.aliases :
         id \in Ids /\ tools.aliases[id] \in DOMAIN tools.slots
    /\ heldCalls \subseteq Ids
    /\ told \subseteq DOMAIN tools.slots
    /\ stage \in {"running", "parked", "ended", "done", "failed"}
    /\ rounds \in 1..MaxResponses
    /\ frames \in 0..MaxFrames

(* An exec whose id nobody had announced was taken for another call.       *)
Crossed ==
    \E a, b \in DOMAIN tools.aliases :
        a[2] # b[2] /\ tools.aliases[a] = tools.aliases[b]

(* The reconciler never emits what the accumulator of the response throws  *)
(* on, however the frames of the calls interleave, drift, or arrive while  *)
(* the Run is parked, as long as no exec was taken for another call.       *)
StreamNeverBreaks == response.broken => Crossed

(* A response that finished left the client with exactly the calls it      *)
(* surfaced, with the arguments the Run knows.                             *)
ClientHasTheCalls ==
    stage = "parked" =>
        /\ DOMAIN response.client \subseteq told
        /\ \A i \in DOMAIN response.client :
             response.client[i] = tools.slots[i].call

(* The result of a surfaced call goes to an exec with its arguments.       *)
ResultsGoToTheirExec ==
    \A p \in resultOf : \E k \in UpstreamCalls :
        made[k].exec = p[1] /\ made[k].value = tools.slots[p[2]].call[2]

(* An exec the upstream waits on has a slot whose result will answer it,   *)
(* unless another call of the Run has the same arguments.                  *)
ExecsHaveASlot ==
    stage \in {"running", "parked"} => \A k \in UpstreamCalls :
        \/ made[k].exec \notin heldCalls
        \/ \E i \in DOMAIN tools.slots : tools.slots[i].exec = made[k].exec
        \/ \E j \in UpstreamCalls \ {k} : made[j].value = made[k].value

(* From the frames of the Run to the client and back to the execs, no call *)
(* is lost, mixed up or refused.                                           *)
ToolStreamSound ==
    ToolTypeOK /\ StreamNeverBreaks /\ ClientHasTheCalls /\ ResultsGoToTheirExec /\ ExecsHaveASlot
=============================================================================
