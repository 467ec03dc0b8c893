---------------------------- MODULE MCPetBitmap -----------------------------
(* The small instances of PetBitmap that TLC checks. *)
EXTENDS PetBitmapInv, TLC

Symmetry == Permutations(Page) \cup Permutations(Thread)
=============================================================================
