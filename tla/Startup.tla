------------------------------- MODULE Startup -------------------------------
(***************************************************************************)
(* src/main.cpp: an image is loaded, its Vm gets a CodeBuffer that covers  *)
(* it, and a Cpu runs from the image's entrypoint.  Every turn of          *)
(* Executor::run enters translated code through the trampoline and goes on *)
(* where that left.  The Cpu may be run by other Vms, too, that share the  *)
(* CodeBuffer.                                                             *)
(***************************************************************************)
EXTENDS ElfLoader, Trampoline

\* 0 is no entrypoint.
ASSUME EntrypointsAssumption == Entrypoints \ {0} \subseteq Pcs

vars == <<loader_vars, trampoline_vars>>

Init == LoaderInit /\ TrampolineInit

LoadImage == LoaderNext /\ UNCHANGED trampoline_vars

\* Executor::run finds code for the pc, or generates it.
RunBlock ==
    /\ loader_at = "ready" /\ pc \div InstructionSize < TableSize
    /\ \E v \in Vms : Enter(v, pc)
    /\ UNCHANGED loader_vars

\* get indexes the table without a check, and nobody has looked where the
\* entrypoint is: what it reads is not defined, and nothing is said of what
\* comes after.
OutOfTable ==
    /\ loader_at = "ready" /\ place = "outside" /\ ~(pc \div InstructionSize < TableSize)
    /\ loader_at' = "stopped"
    /\ UNCHANGED <<image_vars, memory_vars, start_vars, trampoline_vars>>

RunGuest ==
    /\ \E reason \in Reasons, p \in Pcs : Guest(reason, p)
    /\ UNCHANGED loader_vars

\* cpu.set_reg(Pc, trampoline_block.exit_pc).
GoOn ==
    /\ Return
    /\ pc' = machine.block["exit_pc"][2]
    /\ UNCHANGED <<image_vars, memory_vars, loader_at, max_executable_address, sp>>

\* A verify has failed, or the table was left.
Stopped == loader_at = "stopped" /\ UNCHANGED vars

Next == LoadImage \/ Stopped \/ RunBlock \/ OutOfTable \/ RunGuest \/ GoOn
Spec == Init /\ [][Next]_vars
=============================================================================
