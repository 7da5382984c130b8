----------------------------- MODULE CountedLog -----------------------------
(***************************************************************************)
(* What the write path promises its callers, without queues, batches,      *)
(* retries or threads: accepted items are numbered in order, and each one  *)
(* is settled at most once, either made durable together with others, or   *)
(* lost and remembered as lost.  A commit takes a group of pending items   *)
(* that are older than all other pending ones: nothing overtakes.          *)
(***************************************************************************)
EXTENDS Naturals

VARIABLES accepted,  \* number of items accepted so far
          pending,   \* numbers of accepted items not settled yet
          durable,   \* numbers of items committed
          lost       \* numbers of items dropped, all of them counted

vars == <<accepted, pending, durable, lost>>

Init == accepted = 0 /\ pending = {} /\ durable = {} /\ lost = {}

Accept ==
  /\ accepted' = accepted + 1
  /\ pending' = pending \cup {accepted + 1}
  /\ UNCHANGED <<durable, lost>>

\* A full buffer admits a newcomer in exchange for one pending item.
Exchange ==
  \E i \in pending :
    /\ accepted' = accepted + 1
    /\ pending' = (pending \ {i}) \cup {accepted + 1}
    /\ lost' = lost \cup {i}
    /\ UNCHANGED durable

Oldest(S) == \A i \in S, j \in pending \ S : i < j

Commit ==
  \E S \in SUBSET pending :
    /\ Oldest(S)
    /\ pending' = pending \ S
    /\ durable' = durable \cup S
    /\ UNCHANGED <<accepted, lost>>

Lose ==
  \E S \in SUBSET pending :
    /\ Oldest(S)
    /\ pending' = pending \ S
    /\ lost' = lost \cup S
    /\ UNCHANGED <<accepted, durable>>

Next == Accept \/ Exchange \/ Commit \/ Lose

Spec == Init /\ [][Next]_vars
=============================================================================
