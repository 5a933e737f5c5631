--------------------------- MODULE NIMClientProofs ---------------------------
(***************************************************************************)
(* Theorems of NIMClient, for any set of requests: the types, which        *)
(* clients are left open, and that undisturbed requests are answered.      *)
(***************************************************************************)
EXTENDS NIMClient, TLAPS

-----------------------------------------------------------------------------
(* Types.                                                                  *)

\* What TypeOK needs besides itself: a request that pauses has an attempt
\* left, and the records of all requests are there.
Typed ==
    /\ TypeOK
    /\ using \in [Requests -> Requests \cup {NoClient}]
    /\ attempt \in [Requests -> 0 .. 2]
    /\ answer \in [Requests -> {"none", "nim", "simulated", "failed"}]
    /\ \A r \in Requests : phase[r] = "pausing" => attempt[r] < MaxAttempts(r)

LEMMA InitTyped == Init => Typed
  BY ClientAssumption DEF Init, Typed, TypeOK, MaxAttempts

\* The limit of attempts is one or two.
LEMMA AttemptLimit == \A r : MaxAttempts(r) \in {1, 2}
  BY DEF MaxAttempts

LEMMA ExitTyped ==
    ASSUME Typed, NEW r \in Requests, phase[r] # "new",
           NEW a \in {"nim", "simulated", "failed"}, Exit(r, a),
           refused' \in {refused, refused \cup {r}}, overlaps' = overlaps
    PROVE  Typed'
<1>1. /\ phase' = [phase EXCEPT ![r] = "done"]
      /\ answer' = [answer EXCEPT ![r] = a]
      /\ open' = open \ {current}
      /\ using' = using /\ attempt' = attempt /\ current' = current
  BY DEF Exit
<1>2. TypeOK'
  BY <1>1 DEF Typed, TypeOK, MaxAttempts
<1>3. QED
  BY <1>1, <1>2 DEF Typed, TypeOK, MaxAttempts

LEMMA BeginTyped == ASSUME Typed, NEW r \in Requests, Begin(r) PROVE Typed'
<1>1. /\ phase[r] = "new" /\ phase' = [phase EXCEPT ![r] = "posting"]
      /\ current' = r /\ open' = open \cup {r}
      /\ using' = [using EXCEPT ![r] = r] /\ attempt' = [attempt EXCEPT ![r] = 1]
      /\ answer' = answer /\ refused' = refused
  BY DEF Begin, Enter
<1>2. overlaps' \subseteq Requests
  BY DEF Begin, Typed, TypeOK, InProgress
<1>3. \A q \in Requests : attempt'[q] \in 0 .. MaxAttempts(q)
  BY <1>1, AttemptLimit DEF Typed, TypeOK
<1>4. \A q \in Requests :
        /\ phase'[q] = "new" => q \notin open' \cup {current'}
        /\ phase'[q] # "new" => using'[q] \in Requests /\ phase'[using'[q]] # "new"
  BY <1>1 DEF Typed, TypeOK
<1>5. phase' \in [Requests -> {"new", "posting", "pausing", "done"}]
      /\ using' \in [Requests -> Requests \cup {NoClient}] /\ attempt' \in [Requests -> 0 .. 2]
  BY <1>1 DEF Typed, TypeOK
<1>6. \A q \in Requests : phase'[q] = "pausing" => attempt'[q] < MaxAttempts(q)'
  BY <1>1 DEF Typed, TypeOK, MaxAttempts
<1>7. QED
  BY <1>1, <1>2, <1>3, <1>4, <1>5, <1>6 DEF Typed, TypeOK, MaxAttempts

LEMMA RetryTyped == ASSUME Typed, NEW r \in Requests, RetryPosts(r) PROVE Typed'
<1>1. /\ phase[r] = "pausing" /\ phase' = [phase EXCEPT ![r] = "posting"]
      /\ current \in open
      /\ using' = [using EXCEPT ![r] = current]
      /\ attempt' = [attempt EXCEPT ![r] = attempt[r] + 1]
      /\ UNCHANGED <<current, open, answer, refused, overlaps>>
  BY DEF RetryPosts, history
<1>2. current \in Requests /\ phase[current] # "new"
  BY <1>1 DEF Typed, TypeOK
<1>3. attempt[r] + 1 \in 0 .. MaxAttempts(r) /\ attempt[r] + 1 \in 0 .. 2
  BY <1>1, AttemptLimit DEF Typed, TypeOK
<1>4. \A q \in Requests : attempt'[q] \in 0 .. MaxAttempts(q)
  BY <1>1, <1>3 DEF Typed, TypeOK
<1>5. \A q \in Requests :
        /\ phase'[q] = "new" => q \notin open' \cup {current'}
        /\ phase'[q] # "new" => using'[q] \in Requests /\ phase'[using'[q]] # "new"
  BY <1>1, <1>2 DEF Typed, TypeOK
<1>6. phase' \in [Requests -> {"new", "posting", "pausing", "done"}]
      /\ using' \in [Requests -> Requests \cup {NoClient}] /\ attempt' \in [Requests -> 0 .. 2]
  BY <1>1, <1>2, <1>3 DEF Typed, TypeOK
<1>7. \A q \in Requests : phase'[q] = "pausing" => attempt'[q] < MaxAttempts(q)'
  BY <1>1 DEF Typed, TypeOK, MaxAttempts
<1>8. QED
  BY <1>1, <1>4, <1>5, <1>6, <1>7 DEF Typed, TypeOK, MaxAttempts

LEMMA PauseTyped == ASSUME Typed, NEW r \in Requests, Pause(r) PROVE Typed'
<1>1. /\ phase[r] = "posting" /\ phase' = [phase EXCEPT ![r] = "pausing"]
      /\ attempt[r] < MaxAttempts(r)
      /\ refused' \in {refused, refused \cup {r}}
      /\ UNCHANGED <<using, attempt, current, open, answer, overlaps>>
  BY DEF Pause, PostBreaks
<1>2. TypeOK'
  BY <1>1 DEF Typed, TypeOK, MaxAttempts
<1>3. QED
  BY <1>1, <1>2 DEF Typed, TypeOK, MaxAttempts

\* The steps that end a request, whichever way it came to its end.
Ends(r) == Answered(r) \/ FailForGood(r) \/ RetryRefused(r)

LEMMA EndsExits ==
    ASSUME NEW r \in Requests, Ends(r)
    PROVE  /\ phase[r] \in {"posting", "pausing"}
           /\ \E a \in {"nim", "simulated", "failed"} : Exit(r, a)
           /\ refused' \in {refused, refused \cup {r}} /\ overlaps' = overlaps
  BY DEF Ends, Answered, FailForGood, RetryRefused, PostBreaks, GiveUp, history

LEMMA NextTyped == Typed /\ [Next]_vars => Typed'
<1> SUFFICES ASSUME Typed, [Next]_vars PROVE Typed'
  OBVIOUS
<1>1. ASSUME NEW r \in Requests, Begin(r) PROVE Typed'
  BY <1>1, BeginTyped
<1>2. ASSUME NEW r \in Requests, Ends(r) PROVE Typed'
  BY <1>2, EndsExits, ExitTyped
<1>3. ASSUME NEW r \in Requests, Pause(r) PROVE Typed'
  BY <1>3, PauseTyped
<1>4. ASSUME NEW r \in Requests, RetryPosts(r) PROVE Typed'
  BY <1>4, RetryTyped
<1>5. CASE UNCHANGED vars
  BY <1>5 DEF Typed, TypeOK, MaxAttempts, vars, history
<1>6. QED
  BY <1>1, <1>2, <1>3, <1>4, <1>5 DEF Next, Progress, Ends

\* Only clients of requests that have begun are ever open, captured or
\* current, and no request posts more often than its retry allows.
THEOREM ClientTypeCorrect == Spec => []TypeOK
<1>1. Typed => TypeOK
  BY DEF Typed
<1>2. QED
  BY InitTyped, NextTyped, <1>1, PTL DEF Spec

-----------------------------------------------------------------------------
(* Requests that overlap no other one.                                     *)

\* A request in progress that has overlapped no other is the only one, and
\* holds the client that it has opened.
Undisturbed ==
    \A r \in InProgress \ overlaps :
        InProgress = {r} /\ current = r /\ using[r] = r /\ r \in open

LEMMA BeginUndisturbed ==
    ASSUME Typed, Undisturbed, NEW r \in Requests, Begin(r) PROVE Undisturbed'
<1>1. /\ phase' = [phase EXCEPT ![r] = "posting"] /\ phase[r] = "new"
      /\ current' = r /\ open' = open \cup {r}
      /\ using' = [using EXCEPT ![r] = r]
      /\ overlaps' = IF InProgress = {} THEN overlaps ELSE overlaps \cup InProgress \cup {r}
  BY DEF Begin, Enter
<1>2. InProgress' = InProgress \cup {r}
  BY <1>1 DEF InProgress, Typed, TypeOK
<1>3. CASE InProgress = {}
  BY <1>1, <1>2, <1>3 DEF Undisturbed, Typed
<1>4. CASE InProgress # {}
  BY <1>1, <1>2, <1>4 DEF Undisturbed
<1>5. QED
  BY <1>3, <1>4

LEMMA EndsUndisturbed ==
    ASSUME Typed, Undisturbed, NEW r \in Requests, Ends(r)
    PROVE  Undisturbed' /\ InProgress' = InProgress \ {r} /\ open' = open \ {current}
           /\ current' = current /\ overlaps' = overlaps /\ r \in InProgress
<1>1. PICK a : Exit(r, a)
  BY EndsExits
<1>2. InProgress' = InProgress \ {r} /\ r \in InProgress
  BY <1>1, EndsExits DEF Exit, InProgress, Typed, TypeOK
<1>3. overlaps' = overlaps
  BY EndsExits
<1>4. current' = current /\ open' = open \ {current}
  BY <1>1 DEF Exit
<1>5. InProgress' \ overlaps' = {}
  BY <1>2, <1>3 DEF Undisturbed
<1>6. QED
  BY <1>2, <1>3, <1>4, <1>5 DEF Undisturbed

\* A pause and a retry leave the requests in progress, and what is open.
LEMMA WaitsUndisturbed ==
    ASSUME Typed, Undisturbed, NEW r \in Requests, Pause(r) \/ RetryPosts(r)
    PROVE  Undisturbed' /\ UNCHANGED <<InProgress, current, open, overlaps>>
<1>1. InProgress' = InProgress /\ UNCHANGED <<current, open, overlaps>>
  BY DEF Pause, RetryPosts, PostBreaks, history, InProgress, Typed, TypeOK
<1>2. using' = using \/ using' = [using EXCEPT ![r] = current]
  BY DEF Pause, RetryPosts
<1>3. ASSUME NEW q \in InProgress' \ overlaps'
      PROVE  InProgress' = {q} /\ current' = q /\ using'[q] = q /\ q \in open'
  <2>1. q \in Requests /\ InProgress = {q} /\ current = q /\ using[q] = q /\ q \in open
    BY <1>1, <1>3 DEF Undisturbed, InProgress
  <2>2. using'[q] = q
    BY <1>2, <2>1 DEF Typed
  <2>3. QED
    BY <1>1, <2>1, <2>2
<1>4. Undisturbed'
  BY <1>3 DEF Undisturbed
<1>5. QED
  BY <1>1, <1>4

Inv == Typed /\ Undisturbed /\ ClientsAreClosed /\ HealthyIsAnswered

LEMMA NextClosed == Inv /\ [Next]_vars => Undisturbed' /\ ClientsAreClosed'
<1> SUFFICES ASSUME Inv, [Next]_vars PROVE Undisturbed' /\ ClientsAreClosed'
  OBVIOUS
<1> USE DEF Inv
<1>1. ASSUME NEW r \in Requests, Begin(r) PROVE Undisturbed' /\ ClientsAreClosed'
  <2>1. Undisturbed'
    BY <1>1, BeginUndisturbed
  <2>2. open' = open \cup {r} /\ InProgress' = InProgress \cup {r} /\ overlaps \subseteq overlaps'
    BY <1>1 DEF Begin, Enter, InProgress, Typed, TypeOK
  <2>3. QED
    BY <2>1, <2>2 DEF ClientsAreClosed
<1>2. ASSUME NEW r \in Requests, Ends(r) PROVE Undisturbed' /\ ClientsAreClosed'
  <2>1. /\ Undisturbed' /\ InProgress' = InProgress \ {r} /\ open' = open \ {current}
        /\ current' = current /\ overlaps' = overlaps /\ r \in InProgress
    BY <1>2, EndsUndisturbed
  <2>2. r \notin overlaps => r \notin open'
    BY <2>1 DEF Undisturbed
  <2>3. QED
    BY <2>1, <2>2 DEF ClientsAreClosed
<1>3. ASSUME NEW r \in Requests, Pause(r) \/ RetryPosts(r)
      PROVE  Undisturbed' /\ ClientsAreClosed'
  BY <1>3, WaitsUndisturbed DEF ClientsAreClosed
<1>4. CASE UNCHANGED vars
  BY <1>4 DEF Undisturbed, ClientsAreClosed, InProgress, vars, history
<1>5. QED
  BY <1>1, <1>2, <1>3, <1>4 DEF Next, Progress, Ends

\* A failure that NIM does not answer for comes from a client that another
\* request has closed.
LEMMA NextAnswered == Inv /\ [Next]_vars => HealthyIsAnswered'
<1> SUFFICES ASSUME Inv, [Next]_vars,
                    NEW q \in Requests, q \notin refused' \cup overlaps'
             PROVE  answer'[q] \in {"none", "nim"}
  BY DEF HealthyIsAnswered
<1> USE DEF Inv
<1>1. refused \subseteq refused' /\ overlaps \subseteq overlaps'
  BY DEF Next, Begin, Progress, Answered, FailForGood, Pause, RetryPosts, RetryRefused,
         PostBreaks, vars, history
<1>2. answer[q] \in {"none", "nim"} /\ answer \in [Requests -> {"none", "nim", "simulated", "failed"}]
  BY <1>1 DEF HealthyIsAnswered, Typed
<1>3. q \in InProgress => using[q] \in open /\ current \in open
  BY <1>1 DEF Undisturbed
<1>4. ASSUME NEW r \in Requests, Answered(r) PROVE answer'[q] \in {"none", "nim"}
  BY <1>2, <1>4 DEF Answered, Exit
<1>5. ASSUME NEW r \in Requests, FailForGood(r) PROVE answer'[q] \in {"none", "nim"}
  <2>1. q # r
    BY <1>3, <1>5 DEF FailForGood, PostBreaks, InProgress
  <2>2. QED
    BY <1>2, <1>5, <2>1 DEF FailForGood, GiveUp, Exit
<1>6. ASSUME NEW r \in Requests, RetryRefused(r) PROVE answer'[q] \in {"none", "nim"}
  <2>1. q # r
    BY <1>3, <1>6 DEF RetryRefused, InProgress
  <2>2. QED
    BY <1>2, <1>6, <2>1 DEF RetryRefused, GiveUp, Exit
<1>7. ASSUME NEW r \in Requests, Begin(r) \/ Pause(r) \/ RetryPosts(r)
      PROVE  answer'[q] \in {"none", "nim"}
  BY <1>2, <1>7 DEF Begin, Pause, RetryPosts
<1>8. CASE UNCHANGED vars
  BY <1>2, <1>8 DEF vars
<1>9. QED
  BY <1>4, <1>5, <1>6, <1>7, <1>8 DEF Next, Progress

LEMMA Invariant == Spec => []Inv
<1>1. Init => Inv
  <2>1. Init => Undisturbed /\ ClientsAreClosed /\ HealthyIsAnswered
    BY DEF Init, Undisturbed, ClientsAreClosed, HealthyIsAnswered, InProgress
  <2>2. QED
    BY <2>1, InitTyped DEF Inv
<1>2. Inv /\ [Next]_vars => Inv'
  BY NextTyped, NextClosed, NextAnswered DEF Inv
<1>3. QED
  BY <1>1, <1>2, PTL DEF Spec

\* However many requests overlap, fail and retry: a client stays open behind
\* its request only if that overlapped another, and the client that _client
\* refers to is closed once nobody uses it.
THEOREM OnlyOverlapsLeak == Spec => []ClientsAreClosed
<1>1. Inv => ClientsAreClosed
  BY DEF Inv
<1>2. QED
  BY <1>1, Invariant, PTL

\* A request that overlaps no other and is not refused by NIM is not answered
\* in place of NIM, whatever other requests did to the client before.
THEOREM UndisturbedAreAnswered == Spec => []HealthyIsAnswered
<1>1. Inv => HealthyIsAnswered
  BY DEF Inv
<1>2. QED
  BY <1>1, Invariant, PTL

=============================================================================
