------------------------------ MODULE RootQueue ------------------------------
(***************************************************************************)
(* The queue of Merkle roots a group manager accepts proofs for, and the   *)
(* buffer of roots that fell out of it                                     *)
(* (waku_rln_relay/group_manager/group_manager_base.nim, and atomicBatch   *)
(* and backfillRootQueue of on_chain/group_manager.nim), as operators on   *)
(* records: roots, oldest first, and buffer.                               *)
(***************************************************************************)
EXTENDS Integers, Sequences

CONSTANT AcceptableRootWindowSize

ASSUME WindowAssumption == AcceptableRootWindowSize \in Nat \ {0}

EmptyWindow == [roots |-> <<>>, buffer |-> <<>>]

\* Faulty: lets the queue grow one past its capacity.
OverflowCountLate(q) == Len(q) - AcceptableRootWindowSize

OverflowCount(q) == Len(q) - AcceptableRootWindowSize + 1

\* Both overloads of slideRootQueue: the oldest roots make room for the new
\* one and become the buffer, which keeps nothing of what it held.
SlideRootQueue(w, root) ==
  LET n == OverflowCount(w.roots)
  IN  IF n > 0
      THEN [roots |-> Append(SubSeq(w.roots, n + 1, Len(w.roots)), root),
            buffer |-> SubSeq(w.roots, 1, n)]
      ELSE [roots |-> Append(w.roots, root), buffer |-> <<>>]

\* popLast of an empty deque is a Defect.
CanBackfill(w, n) == n <= Len(w.roots) /\ n <= Len(w.buffer)

\* Faulty: takes the roots out at the wrong end.
BackfillDroppingOldest(w, n) ==
  LET b == Len(w.buffer)
  IN  [roots |-> SubSeq(w.roots, n + 1, Len(w.roots)) \o [i \in 1..n |-> w.buffer[b - i + 1]],
       buffer |-> SubSeq(w.buffer, 1, b - n)]

\* The newest n roots go; the newest n of the buffer are put in their place,
\* the newest first.
BackfillRootQueue(w, n) ==
  LET b == Len(w.buffer)
  IN  [roots |-> SubSeq(w.roots, 1, Len(w.roots) - n)
                   \o [i \in 1..n |-> w.buffer[b - i + 1]],
       buffer |-> SubSeq(w.buffer, 1, b - n)]

ValidateRoot(w, root) == \E i \in DOMAIN w.roots : w.roots[i] = root
==============================================================================
