----------------------------- MODULE SessionPool ------------------------------
(***************************************************************************)
(* H2SessionPool (h2-session-pool.ts): one HTTP/2 session per endpoint and *)
(* credential, at most MaxSessions of them in the map.  A session leaves   *)
(* the map when it is displaced, fails, is told to go away or closes, and  *)
(* its streams may go on meanwhile: it is drained, not cut.                *)
(*                                                                         *)
(* An action is one callback.  node:http2 is external: close() waits for   *)
(* the session's streams, destroy() does not, and the 'close' event comes  *)
(* later in both cases.  A slot of PoolSessions or PoolStreams is free     *)
(* again once its 'close' event has run.                                   *)
(***************************************************************************)
EXTENDS Naturals, FiniteSets

CONSTANTS
    PoolKeys,       \* an endpoint and a credential fingerprint
    PoolSessions,   \* bound: the sessions that exist at a time
    PoolStreams,    \* bound: the streams that exist at a time
    MaxSessions,    \* the size of the map, DEFAULT_MAX_SESSIONS
    NoSession

\* The constructor refuses a size that is no positive integer.
ASSUME PoolAssumption ==
    /\ MaxSessions \in Nat \ {0}
    /\ IsFiniteSet(PoolSessions)
    /\ NoSession \notin PoolSessions

VARIABLES
    entries,     \* the map: the session of each key
    session,     \* every session, those out of the map included
    stream,      \* the session of each stream and how far it is
    poolClosed,  \* shutdown was called
    awaited,     \* the sessions shutdown still waits for
    expired      \* shutdown gave up waiting

poolVars == <<entries, session, stream, poolClosed, awaited, expired>>

SessionEntry ==
    [state : {"none", "open", "closing", "destroyed"},
     key : PoolKeys \cup {NoSession},
     before : SUBSET PoolSessions]     \* the entries that were in the map first

PoolStream ==
    [state : {"none", "open", "cancelled"}, on : PoolSessions \cup {NoSession}]

NoEntry == [state |-> "none", key |-> NoSession, before |-> {}]
NoStream == [state |-> "none", on |-> NoSession]

PoolTypeOK ==
    /\ entries \in [PoolKeys -> PoolSessions \cup {NoSession}]
    /\ session \in [PoolSessions -> SessionEntry]
    /\ stream \in [PoolStreams -> PoolStream]
    /\ poolClosed \in BOOLEAN
    /\ awaited \subseteq PoolSessions
    /\ expired \in BOOLEAN

PoolInit ==
    /\ entries = [k \in PoolKeys |-> NoSession]
    /\ session = [s \in PoolSessions |-> NoEntry]
    /\ stream = [t \in PoolStreams |-> NoStream]
    /\ poolClosed = FALSE
    /\ awaited = {}
    /\ expired = FALSE

-----------------------------------------------------------------------------
(* Helpers                                                                 *)

\* What the session set of the pool holds.
Alive == {s \in PoolSessions : session[s].state # "none"}

InMap(map) == {s \in PoolSessions : \E k \in PoolKeys : map[k] = s}

StreamsOn(s) == {t \in PoolStreams : stream[t].on = s}

\* Mutant: the entry of the key goes, whichever session it holds.
RemoveEntry_AnySession(map, s) == [map EXCEPT ![session[s].key] = NoSession]

\* removeEntry: only this session's own entry goes.
RemoveEntry(map, s) ==
    [k \in PoolKeys |-> IF map[k] = s THEN NoSession ELSE map[k]]

\* closeEntry: close() lets the streams of the session end first.
CloseEntry(ses, s) ==
    IF ses[s].state = "open" THEN [ses EXCEPT ![s].state = "closing"] ELSE ses

\* wrapClientHttp2Stream.destroy on every stream of the sessions
DestroyStreams(of) ==
    [t \in PoolStreams |->
        IF stream[t].state = "open" /\ stream[t].on \in of
        THEN [stream[t] EXCEPT !.state = "cancelled"] ELSE stream[t]]

-----------------------------------------------------------------------------
(* openStream                                                              *)

\* usableEntry: the map's session, unless it is on its way out.
Usable(k) == entries[k] # NoSession /\ session[entries[k]].state = "open"

\* enforceBound: the oldest other entry, when there is one too many.
Displaced(map, current) ==
    IF Cardinality(InMap(map)) <= MaxSessions THEN {}
    ELSE {s \in InMap(map) \ {current} :
            session[s].before \cap (InMap(map) \ {current}) = {}}

\* Mutant: the displaced session is destroyed with its streams.
Displace_Destroys(out, ses) ==
    [s \in PoolSessions |->
        IF s \in out THEN [ses[s] EXCEPT !.state = "destroyed"] ELSE ses[s]]

Displace(out, ses) ==
    [s \in PoolSessions |->
        IF s \in out /\ ses[s].state = "open"
        THEN [ses[s] EXCEPT !.state = "closing"] ELSE ses[s]]

\* The new stream, or the drain of the session whose request() threw.
Request(t, s, map, ses) ==
    \/ /\ stream' = [stream EXCEPT ![t] = [state |-> "open", on |-> s]]
       /\ entries' = map /\ session' = ses
    \/ /\ entries' = RemoveEntry(map, s)
       /\ session' = CloseEntry(ses, s)
       /\ UNCHANGED stream

OpenOnEntry(t, k) ==
    /\ ~poolClosed /\ stream[t].state = "none"
    /\ Usable(k)
    /\ Request(t, entries[k], entries, session)
    /\ UNCHANGED <<poolClosed, awaited, expired>>

\* createEntry and enforceBound
OpenOnNewSession(t, k) ==
    /\ ~poolClosed /\ stream[t].state = "none"
    /\ ~Usable(k)
    /\ \E s \in PoolSessions \ Alive :
        LET drained == [entries EXCEPT ![k] = NoSession]
            map == [drained EXCEPT ![k] = s]
            out == Displaced(map, s)
            fresh == [r \in PoolSessions |->
                        IF r = s
                        THEN [state |-> "open", key |-> k, before |-> InMap(drained)]
                        ELSE [session[r] EXCEPT !.before = @ \ {s}]]
        IN Request(t, s,
                   [j \in PoolKeys |-> IF map[j] \in out THEN NoSession ELSE map[j]],
                   Displace(out, fresh))
    /\ UNCHANGED <<poolClosed, awaited, expired>>

-----------------------------------------------------------------------------
(* The events of the sessions and of their streams                         *)

\* 'goaway': without an error code the session may finish its streams.
GoAway(s) ==
    /\ session[s].state \in {"open", "closing"}
    /\ \E state \in {"closing", "destroyed"} :
        session' = [session EXCEPT ![s].state = state]
    /\ entries' = RemoveEntry(entries, s)
    /\ UNCHANGED <<stream, poolClosed, awaited, expired>>

\* 'error': the connection failed.
SessionFails(s) ==
    /\ session[s].state \in {"open", "closing"}
    /\ session' = [session EXCEPT ![s].state = "destroyed"]
    /\ entries' = RemoveEntry(entries, s)
    /\ stream' = DestroyStreams({s})
    /\ UNCHANGED <<poolClosed, awaited, expired>>

\* The socket ended without an error; the pool hears of it by 'close' alone.
SocketEnds(s) ==
    /\ session[s].state \in {"open", "closing"}
    /\ session' = [session EXCEPT ![s].state = "destroyed"]
    /\ UNCHANGED <<entries, stream, poolClosed, awaited, expired>>

StreamCloses(t) ==
    /\ stream[t].state # "none"
    /\ stream' = [stream EXCEPT ![t] = NoStream]
    /\ UNCHANGED <<entries, session, poolClosed, awaited, expired>>

\* 'close': a closing session has no stream left, a destroyed one takes them along.
SessionCloses(s) ==
    /\ \/ session[s].state = "closing" /\ StreamsOn(s) = {}
       \/ session[s].state = "destroyed"
    /\ entries' = RemoveEntry(entries, s)
    /\ session' = [session EXCEPT ![s] = NoEntry]
    /\ stream' = [t \in PoolStreams |-> IF t \in StreamsOn(s) THEN NoStream ELSE stream[t]]
    /\ awaited' = awaited \ {s}
    /\ UNCHANGED <<poolClosed, expired>>

-----------------------------------------------------------------------------
(* shutdown                                                                *)

\* closed flips when close() is called, so only destroyed sessions are not awaited.
Awaits == {s \in Alive : session[s].state # "destroyed"}

\* Mutant: the streams are left to end by themselves.
PoolShutdown_KeepsStreams ==
    /\ ~poolClosed
    /\ poolClosed' = TRUE
    /\ entries' = [k \in PoolKeys |-> NoSession]
    /\ session' = Displace(Alive, session)
    /\ awaited' = Awaits
    /\ UNCHANGED <<stream, expired>>

PoolShutdown ==
    /\ ~poolClosed
    /\ poolClosed' = TRUE
    /\ entries' = [k \in PoolKeys |-> NoSession]
    /\ stream' = DestroyStreams(Alive)
    /\ session' = Displace(Alive, session)
    /\ awaited' = Awaits
    /\ UNCHANGED expired

\* The timers of shutdown were all set at once.
ShutdownTimer ==
    /\ awaited # {}
    /\ awaited' = {}
    /\ expired' = TRUE
    /\ UNCHANGED <<entries, session, stream, poolClosed>>

PoolNext ==
    \/ \E t \in PoolStreams, k \in PoolKeys : OpenOnEntry(t, k) \/ OpenOnNewSession(t, k)
    \/ \E s \in PoolSessions :
        GoAway(s) \/ SessionFails(s) \/ SocketEnds(s) \/ SessionCloses(s)
    \/ \E t \in PoolStreams : StreamCloses(t)
    \/ PoolShutdown
    \/ ShutdownTimer

\* A 'close' event follows what caused it; nothing else has to happen.
PoolFairness ==
    /\ \A t \in PoolStreams : WF_poolVars(stream[t].state = "cancelled" /\ StreamCloses(t))
    /\ \A s \in PoolSessions : WF_poolVars(SessionCloses(s))

PoolSpec == PoolInit /\ [][PoolNext]_poolVars /\ PoolFairness

-----------------------------------------------------------------------------
(* Properties                                                              *)

\* The map holds at most MaxSessions entries, none of them told to close, and each
\* under its own key: a session that was displaced, failed or was told to go away
\* is never handed to a request again.
PoolBounded ==
    /\ Cardinality(InMap(entries)) <= MaxSessions
    /\ \A k \in PoolKeys : entries[k] # NoSession =>
        /\ session[entries[k]].key = k
        /\ session[entries[k]].state \in {"open", "destroyed"}

\* No session is forgotten: one that is out of the map is closing or destroyed, so it
\* ends with its last stream.  The late 'close' event of a session must not take the
\* entry of the session that replaced it.
NoLostSession ==
    \A s \in Alive \ InMap(entries) : session[s].state # "open"

\* Making room for a new session drains the one it displaces: no stream of another
\* request is cut, and no session is destroyed.
SparesStreams ==
    (\E t \in PoolStreams : stream[t].state = "none" /\ stream'[t].state = "open")
    => /\ \A t \in PoolStreams : stream[t].state = "open" => stream'[t] = stream[t]
       /\ \A s \in PoolSessions :
             session'[s].state = "destroyed" => session[s].state = "destroyed"

OpeningSparesStreams == [][SparesStreams]_poolVars

\* A shutdown that did not time out has waited until no session was flushing: the
\* peer has got the GOAWAY of each.
ShutdownFlushes ==
    poolClosed /\ awaited = {} /\ ~expired
        => \A s \in PoolSessions : session[s].state \notin {"open", "closing"}

\* After a shutdown every session closes, half-closed streams or not.
ShutdownEndsSessions == poolClosed ~> Alive = {}

\* The invariants of the map, its sessions and their end together.
PoolSound == PoolTypeOK /\ PoolBounded /\ NoLostSession /\ ShutdownFlushes
=============================================================================
