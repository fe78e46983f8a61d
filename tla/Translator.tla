------------------------------ MODULE Translator ------------------------------
(***************************************************************************)
(* The translation stage together with the HTTP client it calls             *)
(* (src/conffy/providers/mt_openai_compat.py).                              *)
(*                                                                         *)
(* The coroutines of a caption share one client, and so the flag that says *)
(* whether requests carry the field reasoning_effort: one may clear it     *)
(* while the request of another one, with the field, is on its way.        *)
(* Between two answers a coroutine runs without interruption.              *)
(***************************************************************************)
EXTENDS Translation

VARIABLES
    server,      \* strict: it rejects the field; healthy: it makes no errors
    effort,      \* _reasoning_effort is set
    request      \* each language: its request to the server

client == <<server, effort, request>>

Servers == [strict : BOOLEAN, healthy : BOOLEAN]

\* Whether it is on its way, its payload has the field, its message has context,
\* and the requests of this call of translate() so far.
Requests == [posted : BOOLEAN, field : BOOLEAN, context : BOOLEAN, posts : Nat]
NoRequest == [posted |-> FALSE, field |-> FALSE, context |-> FALSE, posts |-> 0]

ClientTypeOK ==
    /\ server \in Servers
    /\ effort \in BOOLEAN
    /\ request \in [Langs -> Requests]

ClientInit ==
    /\ Init
    /\ server \in Servers
    /\ effort \in BOOLEAN
    /\ request = [l \in Langs |-> NoRequest]

-----------------------------------------------------------------------------
\* _post(): the payload goes to the server.
Post(l, field, context, posts) ==
    request' = [request EXCEPT ![l] =
        [posted |-> TRUE, field |-> field, context |-> context, posts |-> posts]]

\* A first request has the field if the flag is set; the first caption has no
\* context.
Call(l) == Post(l, effort, item > 1, 1)

Forget(l) == request' = [request EXCEPT ![l] = NoRequest]

\* The coroutine starts and calls translate().
Ask(l) ==
    /\ one[l] = "translating" /\ ~request[l].posted
    /\ Call(l)
    /\ UNCHANGED <<vars, server, effort>>

Awaiting(l) == one[l] = "translating" /\ request[l].posted

\* Whether the answer is the rejection of the field.
Rejected(l) == server.strict /\ request[l].field

\* Mutant of MayDrop: the flag is looked at instead of the payload.
MayDropFlag(l) == effort

MayDrop(l) == request[l].field

EffortAfter == FALSE

\* Status 400 about the field: it is dropped, and the request sent again.
DropField(l) ==
    /\ Awaiting(l) /\ Rejected(l) /\ MayDrop(l)
    /\ effort' = EffortAfter
    /\ Post(l, FALSE, request[l].context, request[l].posts + 1)
    /\ UNCHANGED <<vars, server>>

\* An answer far longer than the text: once more, without context.
AskBare(l) ==
    /\ Awaiting(l) /\ ~Rejected(l) /\ request[l].context
    /\ Post(l, effort, FALSE, request[l].posts + 1)
    /\ UNCHANGED <<vars, server, effort>>

Answered(l) ==
    /\ Awaiting(l) /\ ~Rejected(l)
    /\ Translated(l)
    /\ Forget(l)
    /\ UNCHANGED <<server, effort>>

\* No connection, a timeout, 429, 5xx or an empty text: ProviderError, retryable.
Errs(l) == Awaiting(l) /\ ~server.healthy

\* Mutant of NextAttempt: the attempt is not counted.
NextAttemptFree(l) == one[l] = "translating" /\ MayRetry(l) /\ UNCHANGED vars

NextAttempt(l) == Retry(l)

AskAgain(l) ==
    /\ Errs(l)
    /\ NextAttempt(l)
    /\ Call(l)
    /\ UNCHANGED <<server, effort>>

\* The last retryable error, or one that is not: another 4xx, also the rejection
\* of the field if it is not seen as such, an unreadable answer, a text spent on
\* reasoning.
Fail(l) ==
    /\ Errs(l) \/ (Awaiting(l) /\ Rejected(l) /\ ~MayDrop(l))
    /\ GiveUp(l)
    /\ Forget(l)
    /\ UNCHANGED <<server, effort>>

-----------------------------------------------------------------------------
ClientStep(l) ==
    \/ Ask(l) \/ DropField(l) \/ AskBare(l)
    \/ Answered(l) \/ AskAgain(l) \/ Fail(l)

EmitStep(l) == (Publish(l) \/ PublishFails(l)) /\ UNCHANGED client

StageStep == (Submit \/ CloseStage \/ CancelStage \/ Run) /\ UNCHANGED client

ClientNext == StageStep \/ \E l \in Langs : ClientStep(l) \/ EmitStep(l)

ClientSpec == ClientInit /\ [][ClientNext]_<<vars, client>>

\* As in Translation; the client has a timeout for every request.
FairClientSpec ==
    /\ ClientSpec
    /\ WF_<<vars, client>>(Run /\ UNCHANGED client)
    /\ \A l \in Langs : WF_<<vars, client>>(ClientStep(l) \/ EmitStep(l))

-----------------------------------------------------------------------------
\* For the stage the client is what Translation says of it: a text or an error
\* in the end, however often it asks.
Implements == FairSpec

\* A server that works costs no sentence, whether it takes the field or rejects
\* it, although requests that carry it may be on their way when the flag is
\* cleared.
FieldIsNoError == server.healthy => \A l \in Langs : errors[l] = {}

\* An attempt takes three requests at most: the rejection of the field is not
\* met again by the request without context.
FewRequests == \A l \in Langs : request[l].posts <= 3

=============================================================================
