-------------------------- MODULE CredentialRouting --------------------------
(***************************************************************************)
(* How one chat request reaches a credential, and how often.               *)
(*                                                                         *)
(* Three loops are nested: runValidatedCursorCompletion runs a request     *)
(* again when its tool calls are refused (validated-run.ts), the loop of   *)
(* CursorApiCompletion.run retries server and transport failures           *)
(* (completion.ts), and CursorCredentialRouter.route fails over to a       *)
(* second credential (credentials.ts).  They share the gate that says      *)
(* whether output reached the client.  Meanwhile the dashboard replaces    *)
(* credentials and policies.                                               *)
(*                                                                         *)
(* An action is the code between two awaits: an operation's promise        *)
(* settles, and everything up to the next await happens.  Data abstracted  *)
(* away: the weights that choose among the candidates of a pick (any of    *)
(* them is chosen), the time of a cooldown (ticks), the text of an error   *)
(* (how the two classifications see it).  The locals of a request that has *)
(* ended are forgotten.                                                    *)
(***************************************************************************)
EXTENDS Naturals, FiniteSets

CONSTANTS
    Creds,             \* credential ids
    Ultra,             \* the ids whose credential can serve every model
    Requests,          \* chat requests, each sent once
    Cooldown,          \* CURSOR_BRIDGE_CREDENTIAL_COOLDOWN_MS, in ticks
    ServerRetries,     \* MAX_SERVER_RETRIES
    TransportRetries,  \* MAX_TRANSPORT_RETRIES
    Policies,          \* failover policies the operator chooses from
    UltraLast,         \* values the operator chooses for routing = ultra_last
    Removal,           \* credentials are removed and added again
    NoCred

ASSUME RoutingAssumption ==
    /\ Ultra \subseteq Creds
    /\ IsFiniteSet(Requests)
    /\ Cooldown \in Nat \ {0}
    /\ ServerRetries \in Nat /\ TransportRetries \in Nat
    /\ Policies \subseteq {"auth", "auth_or_quota", "auth_or_quota_or_5xx"}
    /\ UltraLast \subseteq BOOLEAN
    /\ Removal \in BOOLEAN
    /\ NoCred \notin Creds

VARIABLES
    creds,       \* the router's state of each id
    failoverOn,  \* the failover policy
    ultraLast,   \* the routing policy is ultra_last
    req          \* the state of each request

vars == <<creds, failoverOn, ultraLast, req>>

CredState ==
    [present : BOOLEAN, enabled : BOOLEAN, inFlight : Nat,
     rest : 0..Cooldown,    \* ticks until disabledUntil, 0 when not disabled
     earned : BOOLEAN,      \* it rests because what it is now has failed
     kept : BOOLEAN]        \* the id was never removed

RequestState ==
    [phase : {"idle", "resumed", "first", "second", "wait", "done", "failed"},
     model : {"fable", "other"},
     stage : {"first", "recovery", "correction"},  \* which run of the request
     cred : Creds \cup {NoCred},    \* of the operation in hand, or the last one
     stale : BOOLEAN,               \* the id's credential was replaced since
     opened : BOOLEAN,              \* its token is there, the Run is prepared or open
     prefer : Creds \cup {NoCred},  \* preferredCredentialId
     server : 0..ServerRetries, transport : 0..TransportRetries,
     delivered : BOOLEAN,           \* the semantic output gate
     failovers : 0..2]              \* failovers so far, 2 for more than one

\* cursorCredentialFailureReason and cursorRetryFailureKind of an error.
Errors ==
    {[reason |-> "auth", kind |-> "final"], [reason |-> "billing", kind |-> "final"],
     [reason |-> "cooldown", kind |-> "final"], [reason |-> "cooldown", kind |-> "server"],
     [reason |-> "none", kind |-> "server"], [reason |-> "none", kind |-> "transport"],
     [reason |-> "none", kind |-> "builtin"], [reason |-> "none", kind |-> "final"]}

Final == [reason |-> "none", kind |-> "final"]

\* policyAllows
Counted(policy) ==
    CASE policy = "auth" -> {"auth"}
      [] policy = "auth_or_quota" -> {"auth", "billing"}
      [] policy = "auth_or_quota_or_5xx" -> {"auth", "billing", "cooldown"}

-----------------------------------------------------------------------------
(* The router.  cs is its state, x a request.                              *)

Able(cs, x) ==
    {c \in Creds : /\ cs[c].present /\ cs[c].enabled /\ cs[c].rest = 0
                   /\ x.model = "fable" => c \in Ultra}

\* pick(): ultra_last keeps the Ultra credentials in reserve.
Candidates(cs, x, excluded) ==
    LET able == Able(cs, x) \ excluded IN
    IF ultraLast /\ able \ Ultra # {} THEN able \ Ultra ELSE able

Released(cs, c) ==
    IF cs[c].present
    THEN [cs EXCEPT ![c].inFlight = IF @ > 0 THEN @ - 1 ELSE 0] ELSE cs

\* disable(): by id, whatever the id's credential is by now.
Rested(cs, x) ==
    IF cs[x.cred].present
    THEN [cs EXCEPT ![x.cred].rest = Cooldown, ![x.cred].earned = ~x.stale] ELSE cs

NewRequest ==
    [phase |-> "idle", model |-> "other", stage |-> "first", cred |-> NoCred,
     stale |-> FALSE, opened |-> FALSE, prefer |-> NoCred, server |-> 0,
     transport |-> 0, delivered |-> FALSE, failovers |-> 0]

Over(phase) == [NewRequest EXCEPT !.phase = phase]

Keep(q, x, cs) ==
    /\ req' = [req EXCEPT ![q] = x]
    /\ creds' = cs
    /\ UNCHANGED <<failoverOn, ultraLast>>

\* The operation is called with credential c and awaits its token.
Operate(q, x, cs, c, phase) ==
    Keep(q, [x EXCEPT !.phase = phase, !.cred = c, !.stale = FALSE, !.opened = FALSE],
         [cs EXCEPT ![c].inFlight = @ + 1])

\* route(): pick() or pickById().  An error of these is not retried.
Route(q, x, cs) ==
    LET able == IF x.prefer = NoCred THEN Candidates(cs, x, {})
                ELSE Able(cs, x) \cap {x.prefer}
    IN  \/ /\ able = {}
           /\ Keep(q, Over("failed"), cs)
        \/ \E c \in able : Operate(q, x, cs, c, "first")

\* runMapped(): a run of its own, with budgets of its own.
RunAgain(q, x, cs, stage) ==
    Route(q, [x EXCEPT !.stage = stage, !.server = 0, !.transport = 0,
                       !.prefer = NoCred], cs)

\* Mutant: the retries of server failures are not counted.
Catch_NoBudget(q, x, cs, e) ==
    \/ /\ ~x.delivered /\ e.kind \in {"server", "transport"}
       /\ Keep(q, [x EXCEPT !.phase = "wait"], cs)
    \/ /\ x.delivered \/ e.kind \in {"builtin", "final"}
       /\ Keep(q, Over("failed"), cs)

\* The catch of the retry loop, and of runValidatedCursorCompletion.
Catch(q, x, cs, e) ==
    \/ /\ ~x.delivered /\ e.kind = "server" /\ x.server < ServerRetries
       /\ Keep(q, [x EXCEPT !.phase = "wait", !.server = @ + 1], cs)
    \/ /\ ~x.delivered /\ e.kind = "transport" /\ x.transport < TransportRetries
       /\ Keep(q, [x EXCEPT !.phase = "wait", !.transport = @ + 1], cs)
    \/ /\ ~x.delivered /\ e.kind = "builtin" /\ x.stage = "first"
       /\ RunAgain(q, x, cs, "recovery")
    \/ /\ \/ x.delivered
          \/ e.kind = "final"
          \/ e.kind = "server" /\ x.server = ServerRetries
          \/ e.kind = "transport" /\ x.transport = TransportRetries
          \/ e.kind = "builtin" /\ x.stage # "first"
       /\ Keep(q, Over("failed"), cs)

-----------------------------------------------------------------------------
Init ==
    /\ creds = [c \in Creds |->
                  [present |-> TRUE, enabled |-> TRUE, inFlight |-> 0,
                   rest |-> 0, earned |-> TRUE, kept |-> TRUE]]
    /\ failoverOn \in Policies
    /\ ultraLast \in UltraLast
    /\ req = [q \in Requests |-> NewRequest]

Begin(q, model) ==
    /\ req[q].phase = "idle"
    /\ Route(q, [req[q] EXCEPT !.model = model], creds)

\* The request answers a hold: resumeCursorRun instead of the router.
BeginResumed(q, c) ==
    /\ req[q].phase = "idle"
    /\ creds[c].present /\ creds[c].enabled
    /\ Keep(q, [req[q] EXCEPT !.phase = "resumed", !.cred = c,
                              !.opened = TRUE, !.prefer = c], creds)

\* Mutant: the loop does not remember the credential it used.
TokenReady_NotPreferred(q) ==
    /\ req[q].phase \in {"first", "second"} /\ ~req[q].opened
    /\ ~req[q].stale
    /\ Keep(q, [req[q] EXCEPT !.opened = TRUE], creds)

TokenReady(q) ==
    /\ req[q].phase \in {"first", "second"} /\ ~req[q].opened
    /\ ~req[q].stale
    /\ Keep(q, [req[q] EXCEPT !.opened = TRUE, !.prefer = req[q].cred], creds)

\* Text or a tool call reaches the client.
Emit(q) ==
    /\ req[q].phase \in {"resumed", "first", "second"} /\ req[q].opened
    /\ ~req[q].stale
    /\ ~req[q].delivered
    /\ Keep(q, [req[q] EXCEPT !.delivered = TRUE], creds)

\* An operation that is open on a stale credential is aborted; a token exchange
\* under way is not, and fails the way it fails.
MayFail(q, e) ==
    /\ ~req[q].opened => e.kind # "builtin"
    /\ req[q].opened /\ req[q].stale => e = Final

FailResumed(q, e) ==
    /\ req[q].phase = "resumed" /\ MayFail(q, e)
    /\ Catch(q, req[q], creds, e)

\* Mutant: the failover does not ask whether output was delivered.
FailFirst_Replays(q, e) ==
    LET x == req[q]
        counted == e.reason \in Counted(failoverOn)
        cs == Released(IF counted THEN Rested(creds, x) ELSE creds, x.cred)
        next == IF counted THEN Candidates(cs, x, {x.cred}) ELSE {}
    IN  /\ x.phase = "first" /\ MayFail(q, e)
        /\ \/ next = {} /\ Catch(q, x, cs, e)
           \/ \E c \in next :
                Operate(q, [x EXCEPT !.failovers = IF @ = 2 THEN 2 ELSE @ + 1],
                        cs, c, "second")

\* Mutant: the first credential is not released before the failover.
FailFirst_KeepsFirst(q, e) ==
    LET x == req[q]
        counted == e.reason \in Counted(failoverOn)
        cs == IF counted THEN Rested(creds, x) ELSE Released(creds, x.cred)
        next == IF counted /\ ~x.delivered THEN Candidates(cs, x, {x.cred}) ELSE {}
    IN  /\ x.phase = "first" /\ MayFail(q, e)
        /\ \/ next = {} /\ Catch(q, x, cs, e)
           \/ \E c \in next :
                Operate(q, [x EXCEPT !.failovers = IF @ = 2 THEN 2 ELSE @ + 1],
                        cs, c, "second")

FailFirst(q, e) ==
    LET x == req[q]
        counted == e.reason \in Counted(failoverOn)
        cs == Released(IF counted THEN Rested(creds, x) ELSE creds, x.cred)
        next == IF counted /\ ~x.delivered THEN Candidates(cs, x, {x.cred}) ELSE {}
    IN  /\ x.phase = "first" /\ MayFail(q, e)
        /\ \/ next = {} /\ Catch(q, x, cs, e)
           \/ \E c \in next :
                Operate(q, [x EXCEPT !.failovers = IF @ = 2 THEN 2 ELSE @ + 1],
                        cs, c, "second")

FailSecond(q, e) ==
    LET x == req[q]
        counted == e.reason \in Counted(failoverOn)
        cs == Released(IF counted THEN Rested(creds, x) ELSE creds, x.cred)
    IN  /\ x.phase = "second" /\ MayFail(q, e)
        /\ Catch(q, x, cs, e)

\* The operation's outcome, with its pick given back.
Settled(q) ==
    IF req[q].phase = "resumed" THEN creds ELSE Released(creds, req[q].cred)

Complete(q) ==
    /\ req[q].phase \in {"resumed", "first", "second"} /\ req[q].opened
    /\ ~req[q].stale
    /\ Keep(q, Over("done"), Settled(q))

\* The arguments of the outcome's tool calls are not valid: one more run, with
\* feedback, if the client saw nothing.
RefuseArguments(q) ==
    /\ req[q].phase \in {"resumed", "first", "second"} /\ req[q].opened
    /\ ~req[q].stale
    /\ IF req[q].delivered \/ req[q].stage = "correction"
       THEN Keep(q, Over("failed"), Settled(q))
       ELSE RunAgain(q, req[q], Settled(q), "correction")

\* The outcome has a call the request forbids, or lacks one it requires.
RefuseOutcome(q) ==
    /\ req[q].phase \in {"resumed", "first", "second"} /\ req[q].opened
    /\ ~req[q].stale
    /\ Keep(q, Over("failed"), Settled(q))

\* The retry; no hold is left that the request could resume.
WaitOver(q) ==
    /\ req[q].phase = "wait"
    /\ Route(q, req[q], creds)

\* The client disconnects: the operation rejects, its pick is given back, and
\* the error is neither counted nor retried.
Abort(q) ==
    /\ req[q].phase \in {"resumed", "first", "second", "wait"}
    /\ Keep(q, Over("failed"),
            IF req[q].phase = "wait" THEN creds ELSE Settled(q))

-----------------------------------------------------------------------------
(* The operator, and time                                                  *)

\* replaceCredentials: the in-flight count of an id is carried over, its
\* cooldown only if neither the key changed nor the credential was enabled.
Replace(c, state) ==
    /\ creds' = [creds EXCEPT ![c] = state]
    /\ req' = [q \in Requests |-> [req[q] EXCEPT !.stale = @ \/ c = req[q].cred]]
    /\ UNCHANGED <<failoverOn, ultraLast>>

Renewed(s) == [s EXCEPT !.rest = 0, !.earned = TRUE]

ChangeKey(c) ==
    /\ creds[c].present
    /\ Replace(c, Renewed(creds[c]))

Disable(c) ==
    /\ creds[c].present /\ creds[c].enabled
    /\ Replace(c, [creds[c] EXCEPT !.enabled = FALSE])

Enable(c) ==
    /\ creds[c].present /\ ~creds[c].enabled
    /\ Replace(c, [Renewed(creds[c]) EXCEPT !.enabled = TRUE])

Remove(c) ==
    /\ Removal /\ creds[c].present
    /\ Replace(c, [Renewed(creds[c]) EXCEPT !.present = FALSE, !.inFlight = 0,
                                            !.kept = FALSE])

Add(c) ==
    /\ ~creds[c].present
    /\ Replace(c, [Renewed(creds[c]) EXCEPT !.present = TRUE, !.enabled = TRUE,
                                            !.inFlight = 0])

UpdatePolicy ==
    /\ failoverOn' \in Policies
    /\ ultraLast' \in UltraLast
    /\ UNCHANGED <<creds, req>>

\* A tick of the clock that cooldowns are measured with.
Tick ==
    /\ \E c \in Creds : creds[c].rest > 0
    /\ creds' = [c \in Creds |->
                   [creds[c] EXCEPT !.rest = IF @ > 0 THEN @ - 1 ELSE 0,
                                     !.earned = @ \/ creds[c].rest = 1]]
    /\ UNCHANGED <<failoverOn, ultraLast, req>>

-----------------------------------------------------------------------------
\* The promise of the operation in hand settles.
Outcome(q) ==
    \/ \E e \in Errors : FailResumed(q, e)
    \/ \E e \in Errors : FailFirst(q, e)
    \/ \E e \in Errors : FailSecond(q, e)
    \/ Complete(q)
    \/ RefuseArguments(q)
    \/ RefuseOutcome(q)

Request(q) ==
    \/ \E model \in {"fable", "other"} : Begin(q, model)
    \/ \E c \in Creds : BeginResumed(q, c)
    \/ TokenReady(q)
    \/ Emit(q)
    \/ Outcome(q)
    \/ WaitOver(q)
    \/ Abort(q)

Operator(c) ==
    \/ ChangeKey(c)
    \/ Disable(c)
    \/ Enable(c)
    \/ Remove(c)
    \/ Add(c)

Next ==
    \/ \E q \in Requests : Request(q)
    \/ \E c \in Creds : Operator(c)
    \/ UpdatePolicy
    \/ Tick

Spec == Init /\ [][Next]_vars

\* A Run ends by its ceiling timer and an exchange by the timeouts of fetch;
\* the timer of the retry delay goes off.
Fairness == \A q \in Requests : WF_vars(Outcome(q)) /\ WF_vars(WaitOver(q))

FairSpec == Spec /\ Fairness

-----------------------------------------------------------------------------
(* What the loops must keep.                                               *)

\* Every variable has its type: budgets are not exceeded and no count of
\* requests in flight drops below zero.
TypeOK ==
    /\ creds \in [Creds -> CredState]
    /\ failoverOn \in Policies
    /\ ultraLast \in UltraLast
    /\ req \in [Requests -> RequestState]

Users(c) == {q \in Requests : req[q].phase \in {"first", "second"} /\ req[q].cred = c}

\* Every pick is given back, on each of the ways an operation ends and across
\* replacements: a credential is reported exactly as busy as it is, and one that
\* was removed and added again while requests used it never busier.
InFlightCounts ==
    \A c \in Creds : creds[c].present =>
        IF creds[c].kept THEN creds[c].inFlight = Cardinality(Users(c))
        ELSE creds[c].inFlight <= Cardinality(Users(c))

\* Once output reached the client nothing of the request runs again: no
\* failover, no retry, no second run after a refused tool call.
NoReplayAfterOutput ==
    [][\A q \in Requests : req[q].delivered =>
          \/ req'[q].phase \in {"done", "failed"}
          \/ req'[q].phase = req[q].phase /\ req'[q].opened = req[q].opened]_vars

\* A retry of a Run that failed goes to the credential the Run was opened with.
RetryKeepsCredential ==
    [][\A q \in Requests :
          req[q].phase = "wait" /\ req[q].opened /\ req'[q].phase = "first" =>
              req'[q].cred = req[q].cred]_vars

\* A credential rests because of a failure of what it is now, not of a key that
\* was replaced.
CooldownIsEarned ==
    \A c \in Creds : creds[c].present /\ creds[c].enabled /\ creds[c].rest > 0 =>
        creds[c].earned

\* A request moves to another credential at most once.
FailoverOnce == \A q \in Requests : req[q].failovers <= 1

\* Every request ends: the budgets bound the three loops together.
RequestsEnd ==
    \A q \in Requests :
        req[q].phase # "idle" ~> req[q].phase \in {"done", "failed"}

=============================================================================
