-------------------------------- MODULE Vm ---------------------------------
(***************************************************************************)
(* Running guest code (src/vm/Vm.cpp): the loop of Vm::run around the loop *)
(* of Executor::run around translated blocks (generate_block and the       *)
(* branches of both code generators), with Interpreter::step for what      *)
(* translated code leaves to it, or for everything.                        *)
(*                                                                         *)
(* An instruction is what it does to the pc; what an access of memory does *)
(* is the subject of Memory, registers are that of RegisterCache, and the  *)
(* translations are kept as CodeBuffer keeps them: for ever.               *)
(***************************************************************************)
EXTENDS Integers

CONSTANTS
    MaxBlocks,     \* CodeBuffer::max_block_count
    Instructions,  \* [kind, target] of what the program is made of
    Targets,       \* where a jalr may go
    Entries,       \* the pcs the embedder sets
    Unfetchable,   \* what is read from memory that is not executable
    NotTranslated,
    MaxChanges     \* changes of the program, by itself or by the embedder

Blocks == 0 .. MaxBlocks - 1
\* "access": what translated code may leave to the interpreter.
Kinds == {"next", "access", "jal", "branch", "jalr", "Ecall", "Ebreak",
          "UndefinedInstruction", "Unsupported"}

\* What is read for an instruction, and what is translated.
Fetched == Instructions \union {Unfetchable}
Code == UNION {[cs -> Fetched] : cs \in SUBSET (0 .. MaxBlocks)}

ASSUME BlocksAssumption == MaxBlocks \in Nat \ {0} /\ MaxChanges \in Nat
ASSUME InstructionsAssumption ==
    /\ Instructions \subseteq [kind: Kinds, target: Nat]
    /\ Unfetchable \notin Instructions
    /\ NotTranslated \notin Code
    /\ Targets \subseteq Nat /\ Entries \subseteq Nat /\ 0 \in Entries

VARIABLES
    code, executable,   \* the guest's memory, below the table's limit
    translated,         \* block -> its code: the instructions as they were read
    single_step,        \* PRINT_EXECUTION_LOG
    pc,                 \* Register::Pc of the Cpu
    at,                 \* where the thread is
    block, current_pc,  \* the translation that runs, and its instruction
    exit_reason,        \* ArchExitReason
    exit,               \* Exit::reason of the last run
    stopped,            \* the fatal_error or verify that ended the process
    \* for the properties:
    fetchable,          \* everything that has been at an address
    changes, turn       \* turn flips with every instruction that is executed

memory == <<code, executable, fetchable, changes>>
position == <<block, current_pc>>
vars == <<memory, translated, single_step, pc, at, position, exit_reason,
          exit, stopped, turn>>

Aligned(a) == a % 4 = 0
InTable(a) == a \div 4 \in Blocks

\* Memory::read with MemoryFlags::Execute.
Fetch(c) == IF c \in executable THEN code[c] ELSE Unfetchable

Init ==
    /\ code \in [Blocks -> Instructions] /\ executable \in SUBSET Blocks
    /\ fetchable = [c \in Blocks |-> {Fetch(c)}] /\ changes = 0
    /\ translated = [b \in Blocks |-> NotTranslated]
    /\ single_step \in BOOLEAN
    /\ pc = 0 /\ at = "idle" /\ block = 0 /\ current_pc = 0
    /\ exit_reason = "None" /\ exit = "None" /\ stopped = "no" /\ turn = TRUE

Unchanged == UNCHANGED <<memory, single_step>>
Retire == turn' = ~turn

\* The program is changed in one place; a translation of it is not.
Change ==
    /\ changes < MaxChanges /\ changes' = changes + 1
    /\ fetchable' = [c \in Blocks |-> fetchable[c] \union {Fetch(c)'}]
    /\ UNCHANGED single_step

Write ==
    /\ \E c \in Blocks, i \in Instructions : code' = [code EXCEPT ![c] = i]
    /\ UNCHANGED executable /\ Change

SetPermissions ==
    executable' \in SUBSET Blocks /\ UNCHANGED code /\ Change

(***************************************************************************)
(* The embedder: sets a pc, changes memory, runs.                          *)
(***************************************************************************)
SetPc ==
    /\ at = "idle" /\ pc' \in Entries
    /\ UNCHANGED <<memory, translated, single_step, at, position, exit_reason,
                   exit, stopped, turn>>

ChangeProgram ==
    /\ at = "idle" /\ (Write \/ SetPermissions)
    /\ UNCHANGED <<translated, pc, at, position, exit_reason, exit, stopped,
                   turn>>

\* Vm::run with a JIT executor, without one, and Vm::run_interpreter.
Run ==
    /\ at = "idle" /\ at' \in {"get", "interpreter"}
    /\ UNCHANGED <<memory, translated, single_step, pc, position, exit_reason,
                   exit, stopped, turn>>

(***************************************************************************)
(* Executor::run: get, or generate_block_code and insert, then the block.  *)
(* A block is read up to the first instruction that always leaves it.      *)
(***************************************************************************)
\* Mutant of Ends: a branch ends a block.
EndsAtBranches(c) ==
    \/ single_step
    \/ Fetch(c) = Unfetchable
    \/ Fetch(c).kind \notin {"next", "access"}
Ends(c) ==
    \/ single_step
    \/ Fetch(c) = Unfetchable
    \/ Fetch(c).kind \notin {"next", "access", "branch"}
Reached(b) == {e \in b .. MaxBlocks : \A c \in b .. e - 1 : ~Ends(c)}
\* After the last block of the table nothing is executable.
Translation(b) ==
    [c \in Reached(b) |-> IF c = MaxBlocks THEN Unfetchable ELSE Fetch(c)]

Enter(a) == at' = "block" /\ block' = a \div 4 /\ current_pc' = a

Get ==
    /\ at = "get" /\ Aligned(pc) /\ InTable(pc)
    /\ translated' =
           IF translated[pc \div 4] # NotTranslated THEN translated
           ELSE [translated EXCEPT ![pc \div 4] = Translation(pc \div 4)]
    /\ Enter(pc)
    /\ Unchanged /\ UNCHANGED <<pc, exit_reason, exit, stopped, turn>>

\* The verify of insert; and an index nobody checked: what get reads is not
\* defined, and nothing is said of what comes after.
GetFails ==
    /\ at = "get" /\ ~(Aligned(pc) /\ InTable(pc))
    /\ stopped' = IF Aligned(pc) THEN "outside the table" ELSE "misaligned"
    /\ at' = "stopped"
    /\ Unchanged
    /\ UNCHANGED <<translated, pc, position, exit_reason, exit, turn>>

(***************************************************************************)
(* A block runs, from the instructions it was made of.                     *)
(***************************************************************************)
This == translated[block][current_pc \div 4]
InBlock(kinds) ==
    at = "block" /\ This # Unfetchable /\ This.kind \in kinds

\* ret to the trampoline: the exit pc goes to the Cpu.
Exit(why, a) ==
    /\ at' = "exit" /\ exit_reason' = why /\ pc' = a
    /\ UNCHANGED position

Onward ==
    IF single_step THEN Exit("SingleStep", current_pc + 4)
    ELSE /\ current_pc' = current_pc + 4
         /\ UNCHANGED <<at, block, pc, exit_reason>>

\* Mutant of ValidatedBranch: single stepping is forgotten.
ValidatedBranchAlways(a, exit_pc) ==
    IF translated[a \div 4] = NotTranslated
      THEN Exit("BlockNotGenerated", exit_pc)
      ELSE Enter(a) /\ UNCHANGED <<pc, exit_reason>>

\* generate_validated_branch: on to code that is there, or out of the VM.
ValidatedBranch(a, exit_pc) ==
    IF single_step THEN Exit("SingleStep", exit_pc)
    ELSE IF translated[a \div 4] = NotTranslated
      THEN Exit("BlockNotGenerated", exit_pc)
      ELSE Enter(a) /\ UNCHANGED <<pc, exit_reason>>

StaticBranch(a) ==
    IF ~Aligned(a) THEN Exit("UnalignedPc", current_pc) /\ UNCHANGED turn
    ELSE IF ~InTable(a) THEN Exit("OutOfBoundsPc", current_pc) /\ UNCHANGED turn
    ELSE ValidatedBranch(a, a) /\ Retire

Masked(a) == a - (a % 2)

\* Mutant of DynamicBranch: the range check jumps to the wrong label.
DynamicBranchAnywhere(a) ==
    /\ IF ~Aligned(Masked(a)) THEN Exit("UnalignedPc", a)
       ELSE IF ~InTable(a) THEN Exit("BlockNotGenerated", a)
       ELSE ValidatedBranch(Masked(a), a)
    /\ Retire

DynamicBranch(a) ==
    /\ IF ~Aligned(Masked(a)) THEN Exit("UnalignedPc", a)
       ELSE IF ~InTable(a) THEN Exit("OutOfBoundsPc", a)
       ELSE ValidatedBranch(Masked(a), a)
    /\ Retire

Generated == Unchanged /\ UNCHANGED <<translated, exit, stopped>>

Sequential ==
    /\ InBlock({"next", "access", "branch"}) /\ Onward /\ Retire
    /\ Generated

\* A store of the guest hits its own program.
StoreToProgram ==
    /\ InBlock({"access"}) /\ Onward /\ Retire
    /\ Write /\ UNCHANGED <<translated, exit, stopped>>

Branch == InBlock({"jal", "branch"}) /\ StaticBranch(This.target) /\ Generated

Jump ==
    /\ InBlock({"jalr"})
    /\ \E a \in Targets : DynamicBranch(a)
    /\ Generated

\* Mutant of Trap: exits have base_pc where current_pc is meant.
TrapAtBase ==
    /\ \/ /\ at = "block" /\ This = Unfetchable
          /\ Exit("InstructionFetchFault", 4 * block)
       \/ /\ InBlock({"Ecall", "Ebreak", "UndefinedInstruction", "Unsupported"})
          /\ Exit(This.kind, 4 * block)
       \/ InBlock({"access"}) /\ Exit("MemoryFault", 4 * block)
    /\ UNCHANGED turn /\ Generated

\* Exits for the embedder, and for the interpreter: what the code cannot do,
\* and an access that its own check rejects.
Trap ==
    /\ \/ /\ at = "block" /\ This = Unfetchable
          /\ Exit("InstructionFetchFault", current_pc)
       \/ /\ InBlock({"Ecall", "Ebreak", "UndefinedInstruction", "Unsupported"})
          /\ Exit(This.kind, current_pc)
       \/ InBlock({"access"}) /\ Exit("MemoryFault", current_pc)
    /\ UNCHANGED turn /\ Generated

(***************************************************************************)
(* After an exit: Executor::run loops, Vm::run interprets or returns.      *)
(***************************************************************************)
Again ==
    /\ at = "exit" /\ exit_reason \in {"BlockNotGenerated", "SingleStep"}
    /\ at' = "get" /\ Generated
    /\ UNCHANGED <<pc, position, exit_reason, turn>>

\* Mutant of FallBack: the block is tried again.
FallBackToJit ==
    /\ at = "exit" /\ exit_reason \in {"MemoryFault", "Unsupported"}
    /\ at' = "get" /\ Generated
    /\ UNCHANGED <<pc, position, exit_reason, turn>>

FallBack ==
    /\ at = "exit" /\ exit_reason \in {"MemoryFault", "Unsupported"}
    /\ at' = "step" /\ Generated
    /\ UNCHANGED <<pc, position, exit_reason, turn>>

\* Mutant of SimpleExit: leaving a block leaves the run.
SimpleExitAlways ==
    /\ at = "exit" /\ exit_reason \notin {"MemoryFault", "Unsupported"}
    /\ at' = "idle" /\ exit' = exit_reason
    /\ Unchanged
    /\ UNCHANGED <<translated, pc, position, exit_reason, stopped, turn>>

SimpleExit ==
    /\ at = "exit"
    /\ exit_reason \notin {"BlockNotGenerated", "SingleStep", "MemoryFault",
                           "Unsupported"}
    /\ at' = "idle" /\ exit' = exit_reason
    /\ Unchanged
    /\ UNCHANGED <<translated, pc, position, exit_reason, stopped, turn>>

(***************************************************************************)
(* Interpreter::step, for one instruction of a JIT or for all of them.     *)
(***************************************************************************)
Stepping == at \in {"step", "interpreter"}
Now == IF InTable(pc) THEN Fetch(pc \div 4) ELSE Unfetchable
Interprets(kinds) ==
    Stepping /\ Aligned(pc) /\ Now # Unfetchable /\ Now.kind \in kinds

Stepped(a) ==
    /\ pc' = a /\ Retire
    /\ at' = IF at = "step" THEN "get" ELSE at
    /\ UNCHANGED <<translated, position, exit_reason, exit, stopped>>

StepOn ==
    /\ Interprets({"next", "access", "branch"})
    /\ Stepped(pc + 4) /\ Unchanged

StepStoreToProgram == Interprets({"access"}) /\ Stepped(pc + 4) /\ Write

StepBranch ==
    /\ Interprets({"jal", "branch"})
    /\ Stepped(Now.target) /\ Unchanged

StepJump ==
    /\ Interprets({"jalr"})
    /\ \E a \in Targets : Stepped(Masked(a))
    /\ Unchanged

StepExit ==
    /\ Stepping /\ at' = "idle"
    /\ \/ ~Aligned(pc) /\ exit' = "UnalignedPc"
       \/ /\ Aligned(pc) /\ Now = Unfetchable
          /\ exit' = "InstructionFetchFault"
       \/ Interprets({"access"}) /\ exit' = "MemoryFault"
       \/ /\ Interprets({"Ecall", "Ebreak", "UndefinedInstruction"})
          /\ exit' = Now.kind
    /\ Unchanged
    /\ UNCHANGED <<translated, pc, position, exit_reason, stopped, turn>>

\* fatal_error: multiply high instructions are not supported.
StepFails ==
    /\ Interprets({"Unsupported"})
    /\ stopped' = "not supported" /\ at' = "stopped"
    /\ Unchanged
    /\ UNCHANGED <<translated, pc, position, exit_reason, exit, turn>>

Stopped == at = "stopped" /\ UNCHANGED vars

Embedder == SetPc \/ ChangeProgram \/ Run
Translated ==
    Get \/ GetFails \/ Sequential \/ StoreToProgram \/ Branch \/ Jump \/ Trap
Step == StepOn \/ StepStoreToProgram \/ StepBranch \/ StepJump \/ StepExit
           \/ StepFails
Dispatch == Again \/ FallBack \/ SimpleExit
Next == Embedder \/ Translated \/ Dispatch \/ Step \/ Stopped

Spec == Init /\ [][Next]_vars

\* A run under way goes on.
FairSpec == Spec /\ WF_vars(Translated \/ Dispatch \/ Step)
-----------------------------------------------------------------------------
Reasons ==
    {"UnalignedPc", "OutOfBoundsPc", "InstructionFetchFault",
     "UndefinedInstruction", "MemoryFault", "Ecall", "Ebreak"}
Stops == {"no", "misaligned", "outside the table", "not supported"}

\* Every variable has its type.
TypeOK ==
    /\ code \in [Blocks -> Instructions] /\ executable \in SUBSET Blocks
    /\ translated \in [Blocks -> Code \union {NotTranslated}]
    /\ single_step \in BOOLEAN /\ turn \in BOOLEAN
    /\ pc \in Nat /\ block \in Blocks /\ current_pc \in Nat
    /\ at \in {"idle", "get", "block", "exit", "step", "interpreter",
              "stopped"}
    /\ exit_reason \in Reasons \union {"None", "Unsupported", "SingleStep",
                                    "BlockNotGenerated"}
    /\ exit \in Reasons \union {"None"} /\ stopped \in Stops
    /\ fetchable \in [Blocks -> SUBSET Fetched] /\ changes \in 0 .. MaxChanges

\* Translated code never runs off its translation, whatever became of the
\* program since it was read: it ends with what leaves the block
\* (generate_block's loop), also after a change of what it was made of.
StaysInBlock ==
    at = "block" =>
        /\ translated[block] # NotTranslated
        /\ Aligned(current_pc)
        /\ current_pc \div 4 \in DOMAIN translated[block]

\* "Make sure that we don't execute 2 instructions when single stepping
\* (branch + 1 instruction after the branch)": a block entered for a step of
\* the log has not run an instruction yet when it is still running.
OneInstructionPerStep ==
    single_step /\ at = "block" => current_pc = pc

\* What get does not check: the lookups that a run goes on with are in the
\* table, or one instruction past its end, where an instruction that was
\* interpreted or stepped was the last one.  The exception is a program that
\* has changed: a stale translation gives up an access, and the interpreter
\* finds a branch in its place, whose target nobody checks.
Rewritten(c) == \E i, j \in fetchable[c] : i # j
TableIndexIsSafe ==
    [][at # "idle" /\ at' = "get" =>
         \/ InTable(pc') \/ pc' = 4 * MaxBlocks
         \/ at = "step" /\ Rewritten(pc \div 4)]_vars

\* A run that is not over executes another instruction: leaving the block,
\* looking it up, generating it and falling back to the interpreter never
\* follow one another for ever.
RunsAdvance ==
    \A b \in BOOLEAN :
        (at \notin {"idle", "stopped"} /\ turn = b)
            ~> (at \in {"idle", "stopped"} \/ turn # b)

\* Translated code, interpreted code and their mix execute what the
\* instruction set says, and return with the pc that explains it.
Guest == INSTANCE GuestExecution WITH
    pc <- IF at = "block" THEN current_pc ELSE pc,
    running <- CASE at = "idle" -> "no"
                 [] at = "stopped" -> "stopped"
                 [] OTHER -> "yes",
    reason <- exit
ImplementsGuestExecution == Guest!Spec
=============================================================================
