----------------------------- MODULE MC_Memory ------------------------------
(***************************************************************************)
(* A memory that ends in the middle of a word.  The addresses are those    *)
(* around its boundaries and the largest ones, where a sum wraps around.   *)
(***************************************************************************)
EXTENDS Memory

Words == {[i \in 0 .. 7 |-> 1]}

\* All of the memory, part of a word, one byte too many, and a size with which
\* the end wraps around to 2.
Parts == {<<0, Size>>, <<Size - 2, 2>>, <<Size - 3, 4>>,
          <<4, AddressLimit - 2>>}

Grants == {{"read", "write"}, {"read", "execute"}, {"write"}, {}}
=============================================================================
