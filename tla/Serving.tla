------------------------------- MODULE Serving --------------------------------
(***************************************************************************)
(* POST /v1/chat/completions (server/chat.ts, lifecycle.ts, metrics.ts,    *)
(* streaming.ts): a call is validated, counted, given a concurrency slot,  *)
(* answered in one piece or as a stream of SSE frames, and on every way    *)
(* out its slot, its listeners and its metrics are settled.                *)
(*                                                                         *)
(* An action is the code between two awaits.  The backend, external here,  *)
(* answers, fails, or ends its stream early; the client may leave at any   *)
(* moment and may be slow to read.  A frame is its kind: what it says is   *)
(* left out.  A call is answered once, so the counters are bounded by      *)
(* Calls.                                                                  *)
(***************************************************************************)
EXTENDS Naturals, FiniteSets

CONSTANTS
    Calls,           \* requests of the route
    ApiClients,      \* the API keys of the clients
    Models,          \* unified model ids
    DefaultModel,    \* config.defaultModel: served without listing the models
    GlobalLimit,     \* CompletionLimiter.globalLimit
    KeyLimit,        \* CompletionLimiter.perKeyLimit
    ModelLimit       \* CompletionMetrics.modelLimit

\* Limits that are no positive integers are replaced by the defaults (config.ts).
ASSUME ServingAssumption ==
    IsFiniteSet(Calls) /\ {GlobalLimit, KeyLimit, ModelLimit} \subseteq Nat

VARIABLES
    call,            \* the local state of each call
    globalInFlight,
    perKeyInFlight,
    tracked,         \* metrics.models
    series           \* metrics.series

servingVars == <<call, globalInFlight, perKeyInFlight, tracked, series>>

Outcomes == {"success", "error", "abort", "rate_limited"}
Counters == Outcomes \cup {"requests", "in_flight"}
Labels == Models \cup {"__other__"}
Frames == {"role", "data", "finish", "done", "error"}

CallState ==
    [pc : {"idle", "listing", "completing", "opening", "consume", "pull", "ending",
           "failing", "returning", "answered"} \cup Frames,   \* a frame: the write to come
     key : ApiClients, model : Models, label : Labels, stream : BOOLEAN,
     gone : BOOLEAN,           \* the client closed the connection
     watched : BOOLEAN,        \* requestAbortSignal listens
     aborted : BOOLEAN,        \* its signal
     held : BOOLEAN,           \* a slot of the limiter
     blocked : BOOLEAN,        \* writeSse awaits drain or close
     sent : SUBSET Frames,
     ended : BOOLEAN,          \* reply.raw.end()
     completed : BOOLEAN,      \* a done event was consumed
     running : BOOLEAN,        \* the backend works on the call
     terminal : Outcomes,      \* what streamChatCompletion returns
     outcome : Outcomes \cup {"none"}]

ServingTypeOK ==
    /\ call \in [Calls -> CallState]
    /\ globalInFlight \in 0..Cardinality(Calls)
    /\ perKeyInFlight \in [ApiClients -> 0..Cardinality(Calls)]
    /\ tracked \subseteq Models
    /\ series \in [Labels -> [Counters -> 0..Cardinality(Calls)]]

ServingInit ==
    /\ call \in [Calls ->
        [pc : {"idle"}, key : ApiClients, model : Models, label : {"__other__"},
         stream : BOOLEAN, gone : {FALSE}, watched : {FALSE}, aborted : {FALSE},
         held : {FALSE}, blocked : {FALSE}, sent : {{}}, ended : {FALSE},
         completed : {FALSE}, running : {FALSE}, terminal : {"error"}, outcome : {"none"}]]
    /\ globalInFlight = 0
    /\ perKeyInFlight = [k \in ApiClients |-> 0]
    /\ tracked = {}
    /\ series = [l \in Labels |-> [n \in Counters |-> 0]]

-----------------------------------------------------------------------------
(* metrics.ts and the limiter                                              *)

\* start: a label of its own while there is room for it
Label(model) ==
    IF model \in tracked \/ Cardinality(tracked) < ModelLimit THEN model ELSE "__other__"

MetricsStart(label) == [series EXCEPT ![label].requests = @ + 1, ![label].in_flight = @ + 1]

Finished(counters, label, outcome) ==
    [counters EXCEPT ![label].in_flight = @ - 1, ![label][outcome] = @ + 1]

HasRoom(key) == globalInFlight < GlobalLimit /\ perKeyInFlight[key] < KeyLimit

-----------------------------------------------------------------------------
(* chat.ts                                                                 *)

\* metrics.start, limiter.acquire, and the call handed to the backend
Admit(q) ==
    LET label == Label(call[q].model) IN
    /\ tracked' = IF label = "__other__" THEN tracked ELSE tracked \cup {label}
    /\ IF HasRoom(call[q].key)
       THEN /\ globalInFlight' = globalInFlight + 1
            /\ perKeyInFlight' = [perKeyInFlight EXCEPT ![call[q].key] = @ + 1]
            /\ series' = MetricsStart(label)
            /\ call' = [call EXCEPT ![q] = [@ EXCEPT
                            !.pc = IF call[q].stream THEN "opening" ELSE "completing",
                            !.label = label, !.watched = TRUE, !.held = TRUE,
                            !.running = TRUE]]
       ELSE /\ series' = Finished(MetricsStart(label), label, "rate_limited")
            /\ call' = [call EXCEPT ![q] = [@ EXCEPT
                            !.pc = "answered", !.label = label, !.outcome = "rate_limited"]]
            /\ UNCHANGED <<globalInFlight, perKeyInFlight>>

\* 400, or the 500 of an error nobody catches: nothing was taken yet.
Refuse(q) ==
    /\ call' = [call EXCEPT ![q].pc = "answered"]
    /\ UNCHANGED <<globalInFlight, perKeyInFlight, tracked, series>>

\* A valid request for a model the policy enables.
ReceiveCall(q) ==
    /\ call[q].pc = "idle" /\ ~call[q].gone
    /\ IF call[q].model = DefaultModel THEN Admit(q)
       ELSE /\ call' = [call EXCEPT ![q].pc = "listing"]
            /\ UNCHANGED <<globalInFlight, perKeyInFlight, tracked, series>>

\* backend.listModels() lists the model, does not list it, or fails.
ModelsListed(q) == call[q].pc = "listing" /\ (Admit(q) \/ Refuse(q))

\* Mutant: a call that failed keeps its slot.
Conclude_KeepsSlot(q, terminal) ==
    LET outcome == IF call[q].aborted THEN "abort" ELSE terminal IN
    /\ IF outcome = "error" THEN UNCHANGED <<globalInFlight, perKeyInFlight>>
       ELSE /\ globalInFlight' = globalInFlight - 1
            /\ perKeyInFlight' = [perKeyInFlight EXCEPT ![call[q].key] = @ - 1]
    /\ series' = Finished(series, call[q].label, outcome)
    /\ call' = [call EXCEPT ![q] = [@ EXCEPT
            !.pc = "answered", !.watched = FALSE, !.held = FALSE, !.outcome = outcome,
            !.running = call[q].running /\ call[q].pc = "returning"]]
    /\ UNCHANGED tracked

\* finally: the listeners, the slot and the metrics
Conclude(q, terminal) ==
    LET outcome == IF call[q].aborted THEN "abort" ELSE terminal IN
    /\ globalInFlight' = globalInFlight - 1
    /\ perKeyInFlight' = [perKeyInFlight EXCEPT ![call[q].key] = @ - 1]
    /\ series' = Finished(series, call[q].label, outcome)
    /\ call' = [call EXCEPT ![q] = [@ EXCEPT
            !.pc = "answered", !.watched = FALSE, !.held = FALSE, !.outcome = outcome,
            !.running = call[q].running /\ call[q].pc = "returning"]]
    /\ UNCHANGED tracked

\* backend.complete
CompletionReturns(q) == call[q].pc = "completing" /\ Conclude(q, "success")

\* 502, or no answer when the client is gone
CompletionThrows(q) == call[q].pc = "completing" /\ Conclude(q, "error")

-----------------------------------------------------------------------------
(* streaming.ts                                                            *)

Goes(q, next) ==
    /\ call' = [call EXCEPT ![q] = next]
    /\ UNCHANGED <<globalInFlight, perKeyInFlight, tracked, series>>

At(q, pc) == call[q].pc = pc /\ ~call[q].blocked

\* The first event decides between a JSON answer and a stream.
StreamOpens(q) == At(q, "opening") /\ Goes(q, [call[q] EXCEPT !.pc = "role"])

StreamDoesNotOpen(q) == At(q, "opening") /\ Conclude(q, "error")

Leave(s, terminal) == [s EXCEPT !.pc = "returning", !.terminal = terminal]

\* catch: the error frame, when there is still somebody to tell
Raise(s) ==
    IF s.aborted \/ s.gone \/ s.ended THEN Leave(s, "error") ELSE [s EXCEPT !.pc = "error"]

NextFrame(pc) ==
    CASE pc = "role" -> "consume"
      [] pc = "data" -> "pull"
      [] pc = "finish" -> "done"
      [] pc = "done" -> "ending"
      [] pc = "error" -> "failing"

\* reply.raw.end(), after [DONE] or the error frame
EndReply(s) ==
    CASE s.pc = "ending" -> Leave([s EXCEPT !.ended = TRUE], "success")
      [] s.pc = "failing" -> Leave([s EXCEPT !.ended = TRUE], "error")
      [] OTHER -> s

\* writeSse: nothing to a connection that is gone; a full buffer makes it wait.
WriteFrame(q, blocks) ==
    LET s == call[q]
        next == [s EXCEPT !.pc = NextFrame(s.pc),
                          !.sent = IF s.gone THEN @ ELSE @ \cup {s.pc},
                          !.blocked = blocks]
    IN /\ s.pc \in Frames /\ ~s.blocked /\ ~(s.gone /\ blocks)
       /\ Goes(q, IF blocks THEN next ELSE EndReply(next))

WriteDrained(q) == (At(q, "ending") \/ At(q, "failing")) /\ Goes(q, EndReply(call[q]))

\* iterator.next: an event, the end, or the backend's error; done is the last event.
PullEvent(q) ==
    /\ At(q, "pull") /\ ~call[q].completed
    /\ Goes(q, [call[q] EXCEPT !.pc = "consume"])

PullThrows(q) ==
    /\ At(q, "pull")
    /\ Goes(q, Raise([call[q] EXCEPT !.running = FALSE]))

\* The end without a done event is an error, and so is a tool call left incomplete.
PullEnds(q) ==
    LET over == [call[q] EXCEPT !.running = FALSE] IN
    /\ At(q, "pull")
    /\ \/ call[q].completed /\ Goes(q, [over EXCEPT !.pc = "finish"])
       \/ Goes(q, Raise(over))

\* consume: a frame to write, nothing to write, the done event, or an event that throws
Consume(q) ==
    /\ At(q, "consume")
    /\ \/ Goes(q, [call[q] EXCEPT !.pc = "data"])
       \/ Goes(q, [call[q] EXCEPT !.pc = "pull"])
       \/ Goes(q, [call[q] EXCEPT !.pc = "pull", !.completed = TRUE])
       \/ Goes(q, Raise(call[q]))

\* iterator.return: the generator's finally waits until the backend has let go.
BackendLetsGo(q) ==
    call[q].pc = "returning" /\ call[q].running /\ Goes(q, [call[q] EXCEPT !.running = FALSE])

StreamConcludes(q) ==
    At(q, "returning") /\ ~call[q].running /\ Conclude(q, call[q].terminal)

-----------------------------------------------------------------------------
(* The client                                                              *)

\* Mutant: a write waits for 'drain' only.
Disconnect_StillBlocked(q) ==
    /\ call[q].pc \notin {"idle", "answered"} /\ ~call[q].gone
    /\ Goes(q, [call[q] EXCEPT !.gone = TRUE, !.aborted = call[q].watched /\ ~call[q].ended])

\* 'aborted' and 'close' abort the signal, unless the response has ended.
Disconnect(q) ==
    /\ call[q].pc \notin {"idle", "answered"} /\ ~call[q].gone
    /\ Goes(q, [call[q] EXCEPT !.gone = TRUE, !.blocked = FALSE,
                               !.aborted = call[q].watched /\ ~call[q].ended])

\* 'drain'
ClientReads(q) ==
    call[q].blocked /\ ~call[q].gone /\ Goes(q, [call[q] EXCEPT !.blocked = FALSE])

ServingNext ==
    \E q \in Calls :
        \/ ReceiveCall(q) \/ ModelsListed(q) \/ CompletionReturns(q) \/ CompletionThrows(q)
        \/ StreamOpens(q) \/ StreamDoesNotOpen(q)
        \/ \E blocks \in BOOLEAN : WriteFrame(q, blocks)
        \/ PullEvent(q) \/ PullThrows(q) \/ PullEnds(q) \/ Consume(q)
        \/ WriteDrained(q) \/ BackendLetsGo(q) \/ StreamConcludes(q)
        \/ Disconnect(q) \/ ClientReads(q)

\* The backend ends each answer, an aborted one soon; a client reads or leaves.
ServingProgress(q) ==
    \/ CompletionReturns(q) \/ CompletionThrows(q) \/ StreamOpens(q) \/ StreamDoesNotOpen(q)
    \/ WriteFrame(q, FALSE) \/ PullThrows(q) \/ PullEnds(q)
    \/ Consume(q)
    \/ WriteDrained(q) \/ BackendLetsGo(q) \/ StreamConcludes(q) \/ ClientReads(q)
    \/ ModelsListed(q)

ServingFairness ==
    \A q \in Calls :
        /\ WF_servingVars(ServingProgress(q))
        /\ SF_servingVars(PullThrows(q) \/ PullEnds(q))

ServingSpec == ServingInit /\ [][ServingNext]_servingVars /\ ServingFairness

-----------------------------------------------------------------------------
(* Properties                                                              *)

Holders == {q \in Calls : call[q].held}

\* The limiter counts exactly the calls that hold a slot, in all and per key, never
\* more than the limits: no way out of a call keeps a slot or gives it back twice.
SlotsAreExact ==
    /\ globalInFlight = Cardinality(Holders) /\ globalInFlight <= GlobalLimit
    /\ \A k \in ApiClients :
        /\ perKeyInFlight[k] = Cardinality({q \in Holders : call[q].key = k})
        /\ perKeyInFlight[k] <= KeyLimit

\* Every counted request is in flight or has one outcome, in a series whose label is
\* bounded; in_flight is the calls that hold a slot.
MetricsBalance ==
    /\ Cardinality(tracked) <= ModelLimit
    /\ \A l \in Labels :
        LET n == series[l] IN
        /\ n.requests = n.in_flight + n.success + n.error + n.abort + n.rate_limited
        /\ n.in_flight = Cardinality({q \in Holders : call[q].label = l})

\* A stream that began ends, for a client that stayed, with exactly one of [DONE] and
\* the error frame, and the metrics agree with the client: [DONE] is a success.
StreamsTellTheirEnd ==
    \A q \in Calls :
        LET s == call[q] IN
        /\ ~({"done", "error"} \subseteq s.sent)
        /\ s.pc = "answered" /\ "role" \in s.sent /\ ~s.gone
            => s.ended /\ (s.outcome = "success" <=> "done" \in s.sent)
        /\ "done" \in s.sent => s.completed

\* A client that leaves during its call, once the listeners are set, is counted as
\* aborted, whatever the backend answers meanwhile.
AbortsAreCounted ==
    \A q \in Calls : call[q].aborted /\ call[q].pc = "answered" => call[q].outcome = "abort"

\* No slot outlives the backend's work: [DONE], an error or an abort, it comes back.
SlotsComeBack == \A q \in Calls : call[q].held ~> ~call[q].held

\* A slot is given back only when the backend has let the call go.
SlotsCoverTheBackend == \A q \in Calls : call[q].running => call[q].held

\* Slots, metrics, the backend's work and what a stream tells its client agree,
\* whichever way each call ends.
ServingSound ==
    /\ ServingTypeOK /\ SlotsAreExact /\ MetricsBalance
    /\ AbortsAreCounted /\ SlotsCoverTheBackend /\ StreamsTellTheirEnd
=============================================================================
