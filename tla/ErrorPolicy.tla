----------------------------- MODULE ErrorPolicy -----------------------------
(***************************************************************************)
(* What the bridge makes of an error: whether the Run is tried again       *)
(* (retry.ts), whether another credential is (credential-policy.ts), and   *)
(* what the auto backend counts (auto-runtime.ts).  The three judge the    *)
(* same chain of causes and read its provider details through the same     *)
(* inspection (provider-error.ts), each for itself.                        *)
(*                                                                         *)
(* The chain grows as the code grows it: upstream puts details into the    *)
(* error of a trailer, callers wrap what they caught.  Data abstracted     *)
(* away: the words of a message (whether they name a transport failure),   *)
(* the bytes of a detail (what its fields say, or that they are broken).   *)
(* In the text form of a detail the words of its error type are searched   *)
(* for, in the binary form its number is looked up; both are TypesOf.      *)
(***************************************************************************)
EXTENDS Integers, FiniteSets, SequencesExt

CONSTANTS
    Details,      \* the details upstream puts into a Connect error
    MaxParts      \* bound on the links and the details of an error

VARIABLE error    \* the chain of causes, outermost first

errorVars == <<error>>

Yes == "yes"
No == "no"

\* A detail without a meaning of its own says none; "foreign" is of another type
\* than aiserver.v1.ErrorDetails, and only searched for words and flags.
DetailRecord ==
    [type : {"none", "provider", "billing", "cooldown", "other", "broken", "foreign"},
     retryable : {"unset", Yes, No}, status : {"none", "400", "503"}]

\* What the constants are.
ErrorConstants ==
    /\ Details \subseteq DetailRecord
    /\ MaxParts \in 1..10    \* MAX_CAUSE_DEPTH: no chain is longer

Http(status, header) ==
    [type |-> "http", status |-> status, code |-> "none", header |-> header,
     details |-> {}, text |-> "neutral"]

Connect(code, header, text) ==
    [type |-> "connect", status |-> 0, code |-> code, header |-> header,
     details |-> {}, text |-> text]

Plain(type, text) ==
    [type |-> type, status |-> 0, code |-> "none", header |-> "none",
     details |-> {}, text |-> text]

Headers == {"none", "provider", "other"}

Codes == {"none", "resource_exhausted", "unavailable", "unauthenticated", "permission_denied"}

\* What the program throws: the status of a response, a frame or trailer of a
\* stream, a frame that does not decode, a socket, a Run's timer, anything else.
Roots ==
    {Http(s, h) : s \in {401, 402, 404, 429, 503}, h \in Headers}
    \cup {Connect(c, h, "neutral") : c \in Codes, h \in Headers}
    \cup {Connect("none", "none", "transport"), Plain("plain", "transport"),
          Plain("plain", "neutral"), Plain("timeout", "neutral")}

(***************************************************************************)
(* provider-error.ts.  A Connect error is read with its details in the     *)
(* order, and in the form, upstream happened to send.                      *)
(***************************************************************************)

Nothing ==
    [connect |-> FALSE, provider |-> FALSE, direct |-> FALSE, permanent |-> FALSE,
     veto |-> FALSE, server |-> FALSE, retryable |-> "unset", conflict |-> FALSE,
     status |-> "none", statusConflict |-> FALSE]

\* decodeProviderErrorValue knows a permanent error by its number; parseDebugDetail
\* does not, the search of the details for its name does.
Permanent(d) == d.type \in {"billing", "cooldown"}

\* Mutant: the last status counts, whatever came before.
ReadProvider_LastStatus(seen, d) ==
    LET contradicts == d.retryable # "unset" /\ seen.retryable \notin {"unset", d.retryable}
    IN  [seen EXCEPT
           !.provider = TRUE,
           !.server = @ \/ (d.retryable = No /\ d.status = "503"),
           !.conflict = @ \/ contradicts,
           !.retryable = IF @ = "unset" THEN d.retryable ELSE @,
           !.status = IF d.status # "none" THEN d.status ELSE @]

\* A provider's detail: its word on retries and its status, against those before.
ReadProvider(seen, d) ==
    LET contradicts == d.retryable # "unset" /\ seen.retryable \notin {"unset", d.retryable}
        disagrees == d.status # "none" /\ seen.status \notin {"none", d.status}
    IN  [seen EXCEPT
           !.provider = TRUE,
           !.server = @ \/ (d.retryable = No /\ d.status = "503"),
           !.conflict = @ \/ contradicts,
           !.retryable = IF @ = "unset" THEN d.retryable ELSE @,
           !.statusConflict = @ \/ disagrees,
           !.status = IF disagrees THEN "none"
                      ELSE IF d.status # "none" /\ ~seen.statusConflict THEN d.status ELSE @]

ReadDetail(header, form, seen, d) ==
    LET direct == d.type = "provider"
        isProvider == direct \/ (d.type = "none" /\ header = "provider")
        found == IF isProvider THEN ReadProvider(seen, d) ELSE seen
        permanent == form = "value" /\ Permanent(d)
    IN  CASE d.type = "foreign" -> seen
          [] d.type = "broken" -> [seen EXCEPT !.veto = TRUE]
          [] OTHER -> [found EXCEPT
                         !.direct = @ \/ direct,
                         !.permanent = @ \/ permanent,
                         !.veto = @ \/ permanent \/ (d.retryable = No /\ ~isProvider)]

\* What all the details say: nothing, where they contradict each other.
Reconciled(found) ==
    [found EXCEPT
       !.server = @ /\ ~found.statusConflict /\ ~found.conflict,
       !.retryable = IF found.permanent \/ found.conflict THEN "unset" ELSE @,
       !.status = IF found.permanent THEN "none" ELSE @]

InspectDetails(link, form, order) ==
    Reconciled(FoldLeft(LAMBDA seen, d : ReadDetail(link.header, form, seen, d),
                        [Nothing EXCEPT !.connect = TRUE,
                                        !.provider = link.header = "provider"],
                        order))

\* An error as one reader sees it: the form of its details, and their order.  The
\* links that wrap an error have none.
Views == [form : {"value", "debug"}, order : SetToSeqs(Last(error).details)]

\* The view of the decoded form, in some order.
AView == CHOOSE view \in Views : view.form = "value"

IsHttp(link) == link.type = "http"

IsConnect(link) == link.type = "connect"

IsTyped(link) == IsHttp(link) \/ IsConnect(link)

\* The outermost link that is what is looked for, or one that says nothing.
FirstLink(chain, Is(_)) ==
    LET first == SelectInSeq(chain, Is)
    IN  IF first = 0 THEN Plain("plain", "neutral") ELSE chain[first]

InspectLink(link, view) ==
    CASE link.type = "http" -> [Nothing EXCEPT !.provider = link.header = "provider"]
      [] link.type = "connect" -> InspectDetails(link, view.form, view.order)
      [] OTHER -> Nothing

\* inspectCursorProviderError: the first link that is typed.
Inspect(chain, view) == InspectLink(FirstLink(chain, IsTyped), view)

(***************************************************************************)
(* retry.ts                                                                *)
(***************************************************************************)

\* connectDetailsPolicy searches the readable details: names and flags.
Readable(link, form) == {d \in link.details : form = "debug" \/ d.type = "foreign"}

NamesPermanent(link, form) == \E d \in Readable(link, form) : Permanent(d)

FlaggedNo(link, form) == \E d \in Readable(link, form) : d.retryable = No

\* Mutant: details that contradict each other veto nothing.
ConnectDecision_ConflictRetries(link, seen, form, optIn) ==
    IF NamesPermanent(link, form) \/ seen.veto THEN "terminal"
    ELSE IF optIn /\ seen.server /\ link.code = "resource_exhausted" THEN "server"
    ELSE IF FlaggedNo(link, form) \/ (seen.retryable = No /\ ~seen.conflict) THEN "terminal"
    ELSE "none"

ConnectDecision(link, seen, form, optIn) ==
    IF NamesPermanent(link, form) \/ seen.veto \/ seen.conflict THEN "terminal"
    ELSE IF optIn /\ seen.provider /\ seen.server /\ link.code = "resource_exhausted"
    THEN "server"
    ELSE IF FlaggedNo(link, form) \/ seen.retryable = No THEN "terminal" ELSE "none"

LinkDecision(link, view, optIn) ==
    CASE link.type = "http" /\ link.status # 503 -> "terminal"
      [] link.type = "connect" ->
           ConnectDecision(link, InspectLink(link, view), view.form, optIn)
      [] OTHER -> "none"

Strongest(decisions) ==
    IF "terminal" \in decisions THEN "terminal"
    ELSE IF "server" \in decisions THEN "server" ELSE "none"

\* nestedConnectRetryDecision: any link of the chain may say so.
NestedDecision(chain, view, optIn) ==
    Strongest({LinkDecision(chain[i], view, optIn) : i \in DOMAIN chain})

\* Whether cursorRetryFailureKind goes no deeper than this link, and what it says.
Decides(link) == IsTyped(link) \/ link.text = "transport"

LinkKind(link) ==
    IF link.type = "http" THEN "server"
    ELSE IF link.text = "transport" \/ (link.type = "connect" /\ link.code = "unavailable")
    THEN "transport"
    ELSE IF link.type = "connect" /\ link.code \in {"none", "resource_exhausted"}
    THEN "server" ELSE "none"

RetryKind(chain, view, optIn) ==
    LET nested == NestedDecision(chain, view, optIn)
    IN  CASE nested = "terminal" -> "none"
          [] nested = "server" -> "server"
          [] OTHER -> LinkKind(FirstLink(chain, Decides))

Provider5xxEligible(chain, view) == NestedDecision(chain, view, TRUE) = "server"

\* classifyCursorRetry
Classify(chain, view, d) ==
    LET timeoutRetry == d.retryRunTimeout /\ Head(chain).type = "timeout"
        kind == IF timeoutRetry THEN "transport" ELSE RetryKind(chain, view, d.retryProvider5xx)
        eligible == Provider5xxEligible(chain, view)
        provider5xxRetry == d.retryProvider5xx /\ eligible /\ kind = "server"
    IN  [kind |-> kind,
         declined |->
           CASE provider5xxRetry /\ d.delivered -> "post_visible"
             [] provider5xxRetry /\ ~d.delivered /\ ~d.aborted /\ d.exhausted -> "retry_limit"
             [] ~d.retryProvider5xx /\ eligible /\ kind = "none" -> "flag_off"
             [] OTHER -> "none",
         reason |-> CASE timeoutRetry -> "run_timeout"
                      [] ~timeoutRetry /\ provider5xxRetry -> "provider_5xx"
                      [] OTHER -> "none"]

RetryDecisions ==
    [retryProvider5xx : BOOLEAN, retryRunTimeout : BOOLEAN, delivered : BOOLEAN,
     aborted : BOOLEAN, exhausted : BOOLEAN]

(***************************************************************************)
(* credential-policy.ts                                                    *)
(***************************************************************************)

\* detailsFailureReason: the one reason the details give, if they give one.
DetailsReason(link) ==
    LET reasons == {d.type : d \in link.details} \cap {"billing", "cooldown"}
    IN  IF Cardinality(reasons) = 1 THEN CHOOSE r \in reasons : TRUE ELSE "none"

\* classifiedFailureReason
FailureReason(chain, view) ==
    LET seen == Inspect(chain, view)
        \* failureSignals: the outermost status, the outermost code.
        status == FirstLink(chain, IsHttp).status
        code == FirstLink(chain, IsConnect).code
        said == DetailsReason(Last(chain))
        rejected == status \in {401, 403} \/ code = "unauthenticated"
        exhausted == seen.provider /\ code = "resource_exhausted"
    IN  IF rejected /\ ~seen.provider /\ ~seen.veto THEN "auth"
        ELSE IF status = 402 \/ said = "billing" THEN "billing"
        ELSE IF status \in {429, 503} \/ said = "cooldown" \/ exhausted THEN "cooldown"
        ELSE "none"

(***************************************************************************)
(* auto-runtime.ts                                                         *)
(***************************************************************************)

\* failureKind, for messages that name neither a protocol nor a status; errorText hides
\* the message of whatever wraps a Connect error.
AutoKind(chain, view) ==
    LET seen == Inspect(chain, view)
        link == Head(chain)
    IN  IF seen.provider \/ seen.veto THEN "ordinary"
        ELSE IF seen.connect /\ FirstLink(chain, IsTyped).code = "unauthenticated" THEN "auth"
        ELSE IF link.type = "http"
        THEN IF link.status \in {401, 403} THEN "auth"
             ELSE IF link.status \in 400..499 THEN "ordinary" ELSE "transport"
        ELSE IF \/ RetryKind(chain, view, FALSE) = "transport"
                \/ (~seen.connect /\ link.text = "transport")
        THEN "transport" ELSE "ordinary"

(***************************************************************************)
(* The error on its way                                                    *)
(***************************************************************************)

Parts == Len(error) + Cardinality(Last(error).details)

ErrorInit == \E root \in Roots : error = <<root>>

\* The trailer's error carries one more detail.
AddDetail(d) ==
    /\ Len(error) = 1 /\ error[1].type = "connect" /\ error[1].text = "neutral"
    /\ Parts < MaxParts
    /\ error' = [error EXCEPT ![1].details = @ \cup {d}]

\* A caller throws an error of its own with this one as its cause.
Wrap(text) ==
    /\ Parts < MaxParts
    /\ error' = <<Plain("plain", text)>> \o error

ErrorNext ==
    \/ \E d \in Details : AddDetail(d)
    \/ \E text \in {"neutral", "transport"} : Wrap(text)

ErrorSpec == ErrorInit /\ [][ErrorNext]_errorVars

ErrorTypeOK ==
    /\ ErrorConstants
    /\ [Last(error) EXCEPT !.details = {}] \in Roots
    /\ Last(error).details \subseteq Details
    /\ \A i \in DOMAIN error \ {Len(error)} : error[i].type = "plain"

\* Which of a Connect error's details upstream put first, and whether it spelled them
\* out or encoded them, changes no decision on a retry.  It changes the reason a
\* credential fails for in one case: a rejected token with a permanent detail.
DecisionsAgree ==
    /\ \A optIn \in BOOLEAN :
         Cardinality({RetryKind(error, view, optIn) : view \in Views}) = 1
    /\ \/ Cardinality({FailureReason(error, view) : view \in Views}) = 1
       \/ /\ Last(error).code = "unauthenticated"
          /\ \E d \in Last(error).details : Permanent(d)

\* The opt-in adds server retries and nothing else, each of them on the word of one
\* detail of the provider that no other detail contradicts or vetoes.
OptInIsNarrow ==
    LET off == RetryKind(error, AView, FALSE)
        on == RetryKind(error, AView, TRUE)
        details == Last(error).details
    IN  on # off =>
          /\ off = "none" /\ on = "server"
          /\ \E d \in details : d.retryable = No /\ d.status = "503"
          /\ \A d \in details :
               /\ d.type \notin {"billing", "cooldown", "broken"}
               /\ d.type = "provider" => d.status # "400" /\ d.retryable # Yes
               /\ d.type = "other" => d.retryable # No

\* Decisions without the opt-in, of requests that go on and have retries left.
Unopted == {d \in RetryDecisions : ~d.retryProvider5xx /\ ~d.aborted /\ ~d.exhausted}

\* The trace says flag_off of an error exactly when the flag would have retried it, in a
\* request that goes on and has retries left.
FlagOffIsTold ==
    LET view == AView
    IN  \A d \in Unopted :
            LET off == Classify(error, view, d)
                on == Classify(error, view, [d EXCEPT !.retryProvider5xx = TRUE])
            IN  off.declined = "flag_off" <=> on.reason = "provider_5xx" /\ off.kind = "none"

\* The auto backend counts what the other two see: a rejected token switches it at once
\* exactly when it rests the credential, and a transport failure that is tried again
\* counts towards the switch, unless it is the provider's.
AutoAgrees ==
    /\ Len(error) = 1 => \A view \in Views :
         AutoKind(error, view) = "auth" <=> FailureReason(error, view) = "auth"
    /\ \A view \in Views :
         RetryKind(error, view, FALSE) = "transport" /\ ~Inspect(error, view).provider
             => AutoKind(error, view) \in {"transport", "auth"}

\* retry.ts, provider-error.ts and credential-policy.ts read an error alike, whatever
\* the order and the form of its details, and the retries that
\* CURSOR_BRIDGE_RETRY_PROVIDER_5XX adds are the ones its documentation names.
ErrorPolicySound ==
    ErrorTypeOK /\ DecisionsAgree /\ OptInIsNarrow /\ FlagOffIsTold /\ AutoAgrees

\* What upstream adds to an error can only stop a retry: one more detail never makes
\* the default policy retry an error, nor retry it as something else; and no error
\* that wraps one that was refused is retried, with the opt-in or without.
MoreIsNoRetry ==
    LET kind == RetryKind(error, AView, FALSE)
        kindNow == RetryKind(error', AView', FALSE)
    IN  /\ Len(error') = Len(error) => kindNow \in {kind, "none"}
        /\ Len(error') > Len(error) => \A optIn \in BOOLEAN :
             NestedDecision(error, AView, optIn) = "terminal" =>
                 RetryKind(error', AView, optIn) = "none"

MoreNeverRetries == [][MoreIsNoRetry]_errorVars
=============================================================================
