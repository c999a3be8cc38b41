--------------------------- MODULE GuestExecution ---------------------------
(***************************************************************************)
(* What running guest code means, whoever runs it: instructions follow one *)
(* another as the instruction set says, and a run returns for a reason     *)
(* that is true of the pc it returns with.  An instruction may be any that *)
(* was at its address: there is no instruction that orders fetches after   *)
(* stores.                                                                 *)
(***************************************************************************)
EXTENDS Integers

CONSTANTS
    MaxBlocks,     \* instructions below max_executable_guest_address
    Targets,       \* where a jalr may go
    Instructions,
    Unfetchable    \* what is fetched from memory that is not executable

VARIABLES
    pc, running,
    fetchable,     \* what has been at each address
    reason         \* why the last run returned

vars == <<pc, running, fetchable, reason>>

Blocks == 0 .. MaxBlocks - 1
Aligned(a) == a % 4 = 0
InTable(a) == a \div 4 \in Blocks
At(a) == IF InTable(a) THEN fetchable[a \div 4] ELSE {Unfetchable}

Init ==
    /\ fetchable \in [Blocks -> SUBSET (Instructions \union {Unfetchable})]
    /\ pc = 0 /\ running = "no" /\ reason = "None"

Start ==
    /\ running = "no" /\ running' = "yes"
    /\ UNCHANGED <<pc, fetchable, reason>>

\* What was at an address stays fetchable, and more may come.
More == \A b \in Blocks : fetchable[b] \subseteq fetchable'[b]

\* Where an instruction goes; the lowest bit of a jalr's target may survive.
Successors(i) ==
    (IF i.kind \in {"next", "access", "branch"} THEN {pc + 4} ELSE {})
    \union (IF i.kind \in {"jal", "branch"} THEN {i.target} ELSE {})
    \union (IF i.kind = "jalr" THEN Targets \union {a - (a % 2) : a \in Targets}
            ELSE {})

Execute ==
    /\ running = "yes" /\ Aligned(pc)
    /\ \E i \in At(pc) \ {Unfetchable} :
         /\ pc' \in Successors(i)
         /\ IF i.kind = "access" THEN More ELSE UNCHANGED fetchable
    /\ UNCHANGED <<running, reason>>

\* A pc that cannot be executed is reported with itself, or with a jump to it.
Reported ==
    {pc} \union {i.target : i \in {j \in At(pc) \ {Unfetchable} :
                                    j.kind \in {"jal", "branch"}}}

True(why) ==
    CASE why = "UnalignedPc" -> \E a \in Reported : ~Aligned(a)
      [] why = "OutOfBoundsPc" -> \E a \in Reported : ~InTable(a)
      [] why = "InstructionFetchFault" -> Unfetchable \in At(pc)
      [] why = "MemoryFault" ->
           \E i \in At(pc) \ {Unfetchable} : i.kind = "access"
      [] OTHER -> \E i \in At(pc) \ {Unfetchable} : i.kind = why

Return ==
    /\ running = "yes" /\ running' = "no"
    /\ reason' \in {"UnalignedPc", "OutOfBoundsPc", "InstructionFetchFault",
                    "MemoryFault", "Ecall", "Ebreak", "UndefinedInstruction"}
    /\ True(reason')
    /\ UNCHANGED <<pc, fetchable>>

\* The process stops where the emulator has no answer: a multiplication that
\* it does not support, a pc that is not aligned, or outside the table.
Stop ==
    /\ running = "yes" /\ running' = "stopped"
    /\ \/ \E i \in At(pc) \ {Unfetchable} : i.kind = "Unsupported"
       \/ ~Aligned(pc) \/ ~InTable(pc)
    /\ UNCHANGED <<pc, fetchable, reason>>

\* The embedder sets a pc, or changes the program.
Outside ==
    /\ running = "no" /\ More
    /\ UNCHANGED <<running, reason>>

Next == Start \/ Execute \/ Return \/ Stop \/ Outside

Spec == Init /\ [][Next]_vars
=============================================================================
