---------------------------- MODULE MCAllocators ----------------------------
(* A small instance of Allocators; sizes from 57 on wrap when they are     *)
(* rounded to pages.                                                       *)
EXTENDS Allocators, TLC

Symmetry == Permutations(UnitAddr) \cup Permutations(PageAddr)
=============================================================================
