----------------------------- MODULE RootWindow -----------------------------
(***************************************************************************)
(* The window of acceptable roots under the answers of the Ethereum client *)
(* (getAndHandleEvents, handleEvents, handleRemovedEvents and              *)
(* backfillRootQueue of on_chain/group_manager.nim).  An answer is a table *)
(* of blocks: each gives the tree a batch and so a root, and some have     *)
(* events that a reorganisation removed.  The tree is external: a batch    *)
(* may bring any root, one the tree had before too, as when a block is     *)
(* handled a second time.                                                  *)
(***************************************************************************)
EXTENDS RootQueue

CONSTANTS
  Roots,
  MaxBatches,   \* bound on the batches
  MaxBlocks     \* bound on the blocks of one answer

ASSUME BoundsAssumption == MaxBatches \in Nat /\ MaxBlocks \in Nat

VARIABLES
  rootWindow,
  taken,        \* history: the tree's root after each batch, the newest last
  reorged,      \* the last answer reported removed events
  everReorged,  \* history: some answer did
  failed        \* a Defect ended the program

windowVars == <<rootWindow, taken, reorged, everReorged, failed>>

WindowInit ==
  /\ rootWindow = EmptyWindow
  /\ taken = <<>>
  /\ reorged = FALSE /\ everReorged = FALSE
  /\ failed = FALSE

\* Faulty: the root is read before the members are written.
SlidStale(w, rs, n) ==
  LET all == <<0>> \o taken \o rs
      After[i \in 0..Len(rs)] ==
        IF i = 0 THEN w ELSE SlideRootQueue(After[i - 1], all[Len(taken) + i])
  IN  After[n]

\* handleEvents after n blocks of those with the roots rs: one atomicBatch,
\* which reads the root after it has written the members, for each.
Slid(w, rs, n) ==
  LET After[i \in 0..Len(rs)] ==
        IF i = 0 THEN w ELSE SlideRootQueue(After[i - 1], rs[i])
  IN  After[n]

\* An answer in which n of the blocks have a removed event next to a new one.
\* An answer handled up to a failed write is one with fewer blocks and none
\* removed; the poll loop asks for it again.
GetAndHandleEvents(rs, n) ==
  LET w == Slid(rootWindow, rs, Len(rs))
  IN  /\ ~failed
      /\ Len(taken) + Len(rs) <= MaxBatches
      /\ taken' = taken \o rs
      /\ reorged' = (n > 0)
      /\ everReorged' = (everReorged \/ n > 0)
      /\ IF CanBackfill(w, n)
         THEN rootWindow' = BackfillRootQueue(w, n) /\ UNCHANGED failed
         ELSE failed' = TRUE /\ UNCHANGED rootWindow

\* A block of the answer has removed events only: the first of its new ones,
\* which handleEvents takes the index from, is not there.
HandleBlockWithoutNewEvents ==
  /\ ~failed
  /\ failed' = TRUE
  /\ UNCHANGED <<rootWindow, taken, reorged, everReorged>>

WindowNext ==
  \/ \E k \in 1..MaxBlocks : \E rs \in [1..k -> Roots], n \in 0..k : GetAndHandleEvents(rs, n)
  \/ HandleBlockWithoutNewEvents

WindowSpec == WindowInit /\ [][WindowNext]_windowVars

-----------------------------------------------------------------------------
(* Properties.                                                             *)

\* The shape of the state; the window keeps to its capacity.
WindowTypeOK ==
  /\ rootWindow.roots \in Seq(Roots) /\ Len(rootWindow.roots) <= AcceptableRootWindowSize
  /\ rootWindow.buffer \in Seq(Roots)
  /\ taken \in Seq(Roots)
  /\ {reorged, everReorged, failed} \subseteq BOOLEAN

\* q is the last roots of s, as many as the window has room for.
HoldsLast(q, s) ==
  /\ Len(q) = IF Len(s) < AcceptableRootWindowSize THEN Len(s) ELSE AcceptableRootWindowSize
  /\ \A i \in DOMAIN q : q[i] = s[Len(s) - Len(q) + i]

\* The window keeps to its capacity, and until the first reorganisation it
\* holds exactly the tree's latest roots in their order, however many blocks
\* an answer has and whichever of the roots are equal (slideRootQueue).
WindowSound ==
  /\ WindowTypeOK
  /\ ~everReorged => HoldsLast(rootWindow.roots, taken)

\* After an answer without removed events the proofs made from the current
\* tree are accepted, whatever reorganisations came before.
CurrentRootAccepted ==
  ~reorged /\ taken # <<>> => ValidateRoot(rootWindow, taken[Len(taken)])

\* backfillRootQueue takes back what the last block of a reorganised answer
\* did: it is either a Defect or leaves exactly the roots accepted that were
\* before that block, the one the block pushed out included.
BackfillUndoes ==
  [][reorged' /\ ~failed' =>
       LET rs == SubSeq(taken', Len(taken) + 1, Len(taken'))
           before == Slid(rootWindow, rs, Len(rs) - 1)
       IN  \A r \in Roots : ValidateRoot(rootWindow', r) <=> ValidateRoot(before, r)]_windowVars

\* What the field's comment says, "we store 5 in the buffer": the buffer holds
\* the roots that left the window, up to five of them.
BufferHoldsFive ==
  ~everReorged /\ Len(taken) \in AcceptableRootWindowSize..(AcceptableRootWindowSize + 5)
    => Len(rootWindow.buffer) = Len(taken) - AcceptableRootWindowSize
=============================================================================
