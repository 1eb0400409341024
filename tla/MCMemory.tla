------------------------------ MODULE MCMemory ------------------------------
(* Memory on small sets of calls, users and texts. *)
EXTENDS Memory, TLC

\* Calls, and texts, differ in nothing but their identity.
MemorySymmetry == Permutations(Call) \cup Permutations(Text)
=============================================================================
