-------------------------------- MODULE Detector --------------------------------
(***************************************************************************)
(* What AsyncBatchDetector promises the worker that owns it: a batch given  *)
(* to pushBatch is either refused on the spot, which only happens when      *)
(* batches are queued up, or it is inside for a while and then handed to    *)
(* the sink exactly once, or lost.  Batches leave in any order (several     *)
(* inference and post threads), never more than Capacity are inside, and    *)
(* none stays for ever.  The threads, queues and buffers are in Pipeline.   *)
(***************************************************************************)
EXTENDS Naturals, FiniteSets

CONSTANTS Batches,   \* what may be pushed
          RawCap,    \* capacity of q_raw_
          Capacity   \* how many batches fit into the whole pipeline

VARIABLES inFlight,  \* accepted, neither published nor lost yet
          published, \* handed to the sink
          lost,      \* accepted, then dropped by an error or by the shutdown
          refused,   \* pushBatch returned false
          open       \* the destructor has not begun

vars == <<inFlight, published, lost, refused, open>>

Pushed == inFlight \union published \union lost \union refused

Init ==
    /\ inFlight = {}
    /\ published = {}
    /\ lost = {}
    /\ refused = {}
    /\ open = TRUE

Accept(s) ==
    /\ open
    /\ s \notin Pushed
    /\ Cardinality(inFlight) < Capacity
    /\ inFlight' = inFlight \union {s}
    /\ UNCHANGED <<published, lost, refused, open>>

\* The variant refuses one batch early.
RefuseEarly(s) ==
    /\ open
    /\ s \notin Pushed
    /\ Cardinality(inFlight) >= RawCap - 1
    /\ refused' = refused \union {s}
    /\ UNCHANGED <<inFlight, published, lost, open>>

Refuse(s) ==
    /\ open
    /\ s \notin Pushed
    /\ Cardinality(inFlight) >= RawCap
    /\ refused' = refused \union {s}
    /\ UNCHANGED <<inFlight, published, lost, open>>

Publish(s) ==
    /\ s \in inFlight
    /\ inFlight' = inFlight \ {s}
    /\ published' = published \union {s}
    /\ UNCHANGED <<lost, refused, open>>

\* An exception loses the one batch its thread works on; the shutdown may
\* lose several at once.
Lose(S) ==
    /\ S # {}
    /\ S \subseteq inFlight
    /\ open => Cardinality(S) = 1
    /\ inFlight' = inFlight \ S
    /\ lost' = lost \union S
    /\ UNCHANGED <<published, refused, open>>

Close ==
    /\ open
    /\ open' = FALSE
    /\ UNCHANGED <<inFlight, published, lost, refused>>

Leave(s) ==
    \/ Publish(s)
    \/ \E S \in SUBSET inFlight : s \in S /\ Lose(S)

Next ==
    \/ \E s \in Batches : Accept(s) \/ Refuse(s) \/ Leave(s)
    \/ Close

\* No batch stays inside for ever.
Fairness == \A s \in Batches : WF_vars(Leave(s))

SafeSpec == Init /\ [][Next]_vars

Spec == SafeSpec /\ Fairness
================================================================================
