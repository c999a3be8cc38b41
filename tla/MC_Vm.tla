------------------------------- MODULE MC_Vm --------------------------------
(***************************************************************************)
(* A program of a few instructions: every kind of them, with a jump to an  *)
(* instruction, one between two instructions and one outside the table.    *)
(***************************************************************************)
EXTENDS Vm

I(kind, target) == [kind |-> kind, target |-> target]
Plain(kinds) == {I(k, 0) : k \in kinds}

Program ==
    Plain({"access", "jalr", "Ecall", "Unsupported"})
      \union {I("jal", 0), I("jal", 6), I("branch", 4), I("branch", 8)}
=============================================================================
