-------------------------- MODULE MC_RegisterCache --------------------------
(***************************************************************************)
(* More registers than slots, and as many slots as an instruction locks.   *)
(***************************************************************************)
EXTENDS RegisterCache, TLC

\* An operation whose result tells both operands apart from their defaults.
Flip == [p \in {0, 1} \X {0, 1} |-> (p[1] + p[2] + 1) % 2]

Symmetry == Permutations(Regs) \union Permutations(Slots)
=============================================================================
