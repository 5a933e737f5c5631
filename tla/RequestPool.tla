----------------------------- MODULE RequestPool -----------------------------
(***************************************************************************)
(* What the batch aggregator promises to those who submit: a request that  *)
(* was accepted waits until it is handed out, once, with at most Limit - 1 *)
(* others, and is neither taken back nor forgotten.                        *)
(***************************************************************************)
EXTENDS Integers, FiniteSets

CONSTANTS
    Requests,  \* the requests that can be submitted
    Limit      \* the largest batch

VARIABLES
    waiting,   \* accepted, and not handed out
    handed     \* the batches handed out, as sets of requests

Accept(r) ==
    /\ r \notin waiting \cup UNION handed
    /\ waiting' = waiting \cup {r}
    /\ UNCHANGED handed

Disjoint(batches) == \A a, b \in batches : a # b => a \cap b = {}

\* Some batches of those that wait, all at once.
HandOut ==
    LET new == handed' \ handed
    IN  /\ handed \subseteq handed'
        /\ Disjoint(new)
        /\ \A b \in new : b \subseteq waiting /\ Cardinality(b) \in 1 .. Limit
        /\ waiting' = waiting \ UNION new

Init == waiting = {} /\ handed = {}

Next == HandOut \/ \E r \in Requests : Accept(r)

Spec == Init /\ [][Next]_<<waiting, handed>>

=============================================================================
