----------------------------- MODULE NIMClient -----------------------------
(***************************************************************************)
(* The NIM client that all requests of the mesh share: __aenter__,         *)
(* complete with its retry, stream, __aexit__, and InferenceMesh's         *)
(* _dispatch_to_nim and handle_stream around them.  The coroutines of the  *)
(* requests interleave where they wait for the network or for the pause    *)
(* before a retry; everything in between is one step.                      *)
(*                                                                         *)
(* Every request enters the client once, so that the httpx client that its *)
(* __aenter__ creates has the name of the request.                         *)
(***************************************************************************)
EXTENDS Integers, FiniteSets

CONSTANTS
    Requests,       \* requests of the mesh, one coroutine each
    Streaming,      \* those that come through handle_stream
    NoClient        \* _client is None

ASSUME ClientAssumption ==
    /\ Streaming \subseteq Requests
    /\ NoClient \notin Requests

VARIABLES
    phase,    \* phase[r]: "new", "posting", "pausing" or "done"
    using,    \* using[r]: the client that the current attempt captured
    attempt,  \* attempt[r]: posts begun, or refused by a closed client
    current,  \* self._client
    open,     \* the httpx clients that are not closed
    answer,   \* answer[r]: "none", "nim", "simulated", or "failed" for a stream
    refused,  \* history: requests that NIM answered with an error
    overlaps  \* history: requests that were in progress with another one

history == <<refused, overlaps>>
vars    == <<phase, using, attempt, current, open, answer, history>>

-----------------------------------------------------------------------------

\* stop_after_attempt(2); stream is not retried.
MaxAttempts(r) == IF r \in Streaming THEN 1 ELSE 2

InProgress == {r \in Requests : phase[r] \in {"posting", "pausing"}}

\* Mutant: an existing client is used again.
EnterOnce(r) ==
    /\ current' = IF current = NoClient THEN r ELSE current
    /\ open' = IF current = NoClient THEN open \cup {r} ELSE open

\* __aenter__: a new client, whatever _client was.
Enter(r) ==
    /\ current' = r
    /\ open' = open \cup {r}

\* Mutant: nothing is closed.
ExitOpen(r, a) ==
    /\ phase' = [phase EXCEPT ![r] = "done"]
    /\ answer' = [answer EXCEPT ![r] = a]
    /\ UNCHANGED <<using, attempt, current, open>>

\* Return or exception, then __aexit__: it closes the client that _client
\* is now, and leaves _client as it is.
Exit(r, a) ==
    /\ phase' = [phase EXCEPT ![r] = "done"]
    /\ answer' = [answer EXCEPT ![r] = a]
    /\ open' = open \ {current}
    /\ UNCHANGED <<using, attempt, current>>

\* __aenter__ and the first attempt, up to the wait for the answer.
Begin(r) ==
    /\ phase[r] = "new"
    /\ Enter(r)
    /\ phase' = [phase EXCEPT ![r] = "posting"]
    /\ using' = [using EXCEPT ![r] = current']
    /\ attempt' = [attempt EXCEPT ![r] = 1]
    /\ overlaps' = IF InProgress = {} THEN overlaps ELSE overlaps \cup InProgress \cup {r}
    /\ UNCHANGED <<answer, refused>>

\* NIM answers.  An answer that is in the buffer when the client is closed
\* may still be read.
Answered(r) ==
    /\ phase[r] = "posting"
    /\ Exit(r, "nim")
    /\ UNCHANGED history

\* The post ends with an exception: NIM failed, or another request closed
\* the client meanwhile.
PostBreaks(r) ==
    /\ phase[r] = "posting"
    /\ \/ refused' = refused \cup {r}
       \/ using[r] \notin open /\ UNCHANGED refused
    /\ UNCHANGED overlaps

\* The exception of the last attempt reaches _dispatch_to_nim, which
\* answers in place of NIM, or the consumer of handle_stream.
GiveUp(r) == Exit(r, IF r \in Streaming THEN "failed" ELSE "simulated")

FailForGood(r) ==
    /\ PostBreaks(r)
    /\ attempt[r] = MaxAttempts(r)
    /\ GiveUp(r)

\* Mutant: every failure is retried.
PauseAlways(r) ==
    /\ PostBreaks(r)
    /\ phase' = [phase EXCEPT ![r] = "pausing"]
    /\ UNCHANGED <<using, attempt, current, open, answer>>

\* wait_exponential.
Pause(r) ==
    /\ PostBreaks(r)
    /\ attempt[r] < MaxAttempts(r)
    /\ phase' = [phase EXCEPT ![r] = "pausing"]
    /\ UNCHANGED <<using, attempt, current, open, answer>>

\* The second attempt takes the client that _client is by now.
RetryPosts(r) ==
    /\ phase[r] = "pausing"
    /\ current \in open
    /\ phase' = [phase EXCEPT ![r] = "posting"]
    /\ using' = [using EXCEPT ![r] = current]
    /\ attempt' = [attempt EXCEPT ![r] = @ + 1]
    /\ UNCHANGED <<current, open, answer, history>>

\* Mutant: the retry waits for an open client.
RetryWaits(r) ==
    /\ phase[r] = "pausing"
    /\ current \notin open
    /\ UNCHANGED vars

\* A closed client refuses at once, and there is no third attempt.
RetryRefused(r) ==
    /\ phase[r] = "pausing"
    /\ current \notin open
    /\ GiveUp(r)
    /\ UNCHANGED history

Progress(r) ==
    \/ Answered(r)
    \/ FailForGood(r)
    \/ Pause(r)
    \/ RetryPosts(r)
    \/ RetryRefused(r)

Init ==
    /\ phase = [r \in Requests |-> "new"]
    /\ using = [r \in Requests |-> NoClient]
    /\ attempt = [r \in Requests |-> 0]
    /\ current = NoClient
    /\ open = {}
    /\ answer = [r \in Requests |-> "none"]
    /\ refused = {}
    /\ overlaps = {}

Next == \E r \in Requests : Begin(r) \/ Progress(r)

\* Every await of the client ends: a post by its answer, an error or the
\* timeout of httpx, and a pause by its timer.
Fairness == \A r \in Requests : WF_vars(Progress(r))

Spec     == Init /\ [][Next]_vars
FairSpec == Spec /\ Fairness

-----------------------------------------------------------------------------
(* Properties.                                                             *)

\* Types: only clients of requests that have begun are ever open, captured
\* or current, and no request makes more attempts than it may.
TypeOK ==
    /\ phase \in [Requests -> {"new", "posting", "pausing", "done"}]
    /\ answer \in [Requests -> {"none", "nim", "simulated", "failed"}]
    /\ \A r \in Requests :
        /\ attempt[r] \in 0 .. MaxAttempts(r)
        /\ phase[r] = "new" => r \notin open \cup {current}
        /\ phase[r] # "new" => using[r] \in Requests /\ phase[using[r]] # "new"
    /\ open \subseteq Requests /\ refused \subseteq Requests /\ overlaps \subseteq Requests
    /\ current \in Requests \cup {NoClient}

\* A request that overlaps no other one, and that NIM does not refuse, gets
\* the answer of NIM, whatever happened to the client before.
HealthyIsAnswered ==
    \A r \in Requests \ (refused \cup overlaps) : answer[r] \in {"none", "nim"}

\* Only requests that overlap can leave a client open behind them; and
\* however they overlap and fail, the client that _client refers to is closed
\* once nobody uses it: what is left open then has no reference.
ClientsAreClosed ==
    /\ open \subseteq InProgress \cup overlaps
    /\ InProgress = {} => current \notin open

\* Every request that has begun ends with an answer, whatever NIM does and
\* whoever closes its client.
EveryRequestEnds == \A r \in Requests : phase[r] = "posting" ~> phase[r] = "done"

=============================================================================
