----------------------------- MODULE BlockStore -----------------------------
(***************************************************************************)
(* What an allocator promises, whatever it keeps its books in: the         *)
(* allocated blocks are pairwise disjoint sets of memory cells, and a      *)
(* block appears, vanishes or changes its length only as a whole.          *)
(***************************************************************************)
EXTENDS FiniteSets

CONSTANT Extent  \* the sets of cells a block may occupy

VARIABLE blocks  \* the extents of the allocated blocks

Init == blocks = {}

(* A new block takes cells no block has. *)
Allocate ==
  \E e \in Extent :
    /\ e \cap UNION blocks = {}
    /\ blocks' = blocks \cup {e}

Release ==
  \E e \in blocks : blocks' = blocks \ {e}

(* A block keeps part of its cells. *)
Shrink ==
  \E e \in blocks, f \in Extent :
    /\ f \subseteq e
    /\ blocks' = (blocks \ {e}) \cup {f}

(* A block keeps its cells and takes some that no block has. *)
Grow ==
  \E e \in blocks, f \in Extent :
    /\ e \subseteq f
    /\ (f \ e) \cap UNION blocks = {}
    /\ blocks' = (blocks \ {e}) \cup {f}

Next == Allocate \/ Release \/ Shrink \/ Grow

Spec == Init /\ [][Next]_blocks
=============================================================================
