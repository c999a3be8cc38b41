# A verification of riscv64_emulator

The repository is a user-mode emulator of a RISC-V machine (RV64IM without
atomics and floating point) in C++: an interpreter and two JIT compilers (AArch64
and x64) over one flat guest memory, and a small base library. It has no tests and
no documentation beyond its comments. This directory holds TLA+ models of it,
TLC configurations that check them on small instances, and proofs that TLAPS checks
for instances of any size.

Source paths below are relative to `src/src/vm/` unless they begin with `src/`.

## Inventory

| part | state | operations | interacts with | hard behaviour | correct when |
|---|---|---|---|---|---|
| `jit/CodeBuffer` (+ `ExecutableBuffer`) | executable buffer, `next_free_offset`, table block -> offset, mutex, dump | `get`, `insert`, `insert_standalone`, `dump_code_to_file` | shared by any number of executors; translated code reads the table by itself | unlocked reads against locked inserts, memory orders, a full buffer | a thread only runs complete code of the block it asked for, that it has synchronized with; each block is translated once and for ever |
| `jit/aarch64/RegisterCache` | slots, `register_to_slot`, free slots, a clock | `lock_registers`, `unlock_register(_dirty)`, snapshots, flushes, `finish_instruction` | called by `generate_instruction` in a pattern of its own for each instruction | eviction, faults and taken branches leave in the middle of an instruction | at every exit memory holds the guest's registers; a source is current when it is used |
| `Memory` | bytes, one permission byte for each | `read`, `write` (with and without flags), `set_permissions` | interpreter calls it; translated code accesses both arrays directly | bounds by alignment, wrap around, rejected accesses done again by the interpreter | one guest memory, whatever the path; nothing beyond the end is touched |
| `Vm`, `jit/*/Executor` | `Cpu` (registers, pc), the executor | `Vm::run`, `run_interpreter`, `Executor::run` | ties all of the above together | self-modifying programs, single stepping, fallback, loops without progress | execution is the instruction set's; a run returns for a true reason; it always advances |
| `Interpreter` | none | `step` | `Memory`, `Cpu` | 32 bit variants, shifts, divisions | one instruction as the instruction set says |
| code generators | pending exits, `current_pc` | `generate_block_code` | `RegisterCache` (AArch64), `CodeBuffer`, `Memory` | the same semantics as the interpreter, twice | as the interpreter |
| `Instruction` | none | decoder | interpreter, generators, display | immediates, reserved encodings | the table of the instruction set |
| `jit/*/Trampoline`, `x64/Abi` | none; a `TrampolineBlock` on the stack of `Executor::run` | `generate_trampoline` | executor, translated code | saves and restores in pairs, who keeps which register | callee saved registers, the stack and the return address survive; the caller gets the exit |
| `src/src/ElfLoader`, `main` | none | `load`, start up | `Memory`, `CodeBuffer` (its table size), `Vm` | ranges, segments in any order, a stack below them | what is executable is in the table, what is loaded is there and permitted |
| `CodeDump`, `ExecutionLog`, display | a file | writes | `CodeBuffer`, executor | the log makes every block a single step | a dump holds each block once |
| baselib `ForkJoinPool`, `AtomicIterator`, `JoinableThreads` | a task for each worker, `finished_threads`, `requested_exit`, threads | `parallel_for`, `run_task`, `exit` | not used by the emulator | tasks on the caller's stack, two condition variables, exit against work | no worker uses a task that is gone; `run_task` returns |
| baselib `RelaxedAtomicVector` | buffer, `capacity_`, `size_` | `push_back(_optional)`, `clear`, `set_capacity` | made for the bodies of a `parallel_for` | reservation against construction, failed reservations count | who synchronizes with the writers sees each element once |
| baselib `ConcurrentQueue`, `ConcurrentStack`, `FastConcurrentQueue` | items, `requested_exit`, mutex, condition variable | pushes of one or many, pops that wait or do not, `clear`, `request_exit` | not used by the emulator | lost wakeups, spurious ones, exit with items left | items are delivered once, in order, and nobody sleeps beside one |
| baselib containers, errors, files, time, random numbers, hashes | - | - | everywhere | linked list surgery | sequential |

`verify` and `fatal_error` end the process; every module has such a stop as a state
of its own. fmt is vendored; asmlib (the two assemblers) is not in the repository, so
an emitted instruction is taken to do what it is named for.

How the parts meet: `Vm::run` calls `Executor::run`, which asks the `CodeBuffer`
for the pc's block, has it generated (`RegisterCache`, `Memory::read` with Execute)
and inserted when it is missing, and enters it through the trampoline. Translated code
checks and accesses memory itself, goes from block to block through the table, and
leaves with an exit reason and a pc. `BlockNotGenerated` and `SingleStep` go round in
`Executor::run`; memory faults and unsupported instructions go to
`Interpreter::step` for one instruction; all else is returned to the embedder.

## Modules

**CodeBuffer** (abstract: **TranslationCache**). One action for each step of a
thread that another thread can see: `GetHit`/`GetMiss`, `Generate`, `Lock`,
`RecheckHit`/`RecheckMiss`, `Allocate` (the copy begins: its bytes are torn), `Copy`
(it is complete), `Publish` (the release store), `Dump`, `Unlock`, and the branches of
translated code. Happens-before is a set for each thread: `seen` holds the offsets
whose bytes it has an edge to; a release store attaches the set to the table entry,
an acquire load merges it, the mutex carries another. Offsets are taken modulo
`OffsetRange`, which is 2^32 in the code; a larger buffer, which the constructor would take, is
assumed away (`SizesAssumption`). `TranslationCache` says
that a block is translated at most once, at one instant, and that who asks gets it.

**RegisterCache** (abstract: **GuestRegisters**). The generator and the code it
emits are followed at once: blocks are straight-line, so a step of the
generator is also the execution of what it emits, and a conditional exit either ends
the block or goes on with what the generator believes unchanged. `host` and
`register_state` are what the emitted code has made of registers, `guest` is what the
instruction set says, a ghost that the invariants compare them with. `GuestRegisters` has no cache:
an instruction begins with the values of its sources, which are all that it computes, stores,
compares or jumps with, and changes its destination only. `RegisterCache` implements it without the ghost: the
registers are read off the cache and the memory (`Registers`), the operands off the host registers
the emitted code uses (`OperandValues`), at every step and not only at exits.

**Memory** (abstract: **GuestMemory**). Byte arrays rounded up to words, an access
under way and where it is: `Access` picks the JIT or the interpreter, `Translated`
performs what the inline checks accept, `FallBack` hands the rest to the interpreter,
`Interpreted` and `Fault` decide. `InRange` is 64 bit arithmetic (modulo
`AddressLimit`), for the guest's accesses and for the ranges of the embedder: a range whose sum wraps
around passes the check and is written through the permissions and out of the object. What follows
is undefined: the model ends there (`Overrun`, outcome "undefined"), and the properties except it.
`GuestMemory` has one path.

**Vm** (abstract: **GuestExecution**). An instruction is its effect on the pc. `Get`
translates and enters a block, `Sequential`, `Branch`, `Jump`, `Trap` and
`StoreToProgram` run it, `Again`, `FallBack` and `SimpleExit` are the two loops around
it, the `Step...` actions are the interpreter. A translation is kept as the
instructions that were read, so that a change of the program makes it stale.
`single_step` is the build with `PRINT_EXECUTION_LOG`. `GuestExecution` lets an
instruction be any that was ever at its address (the instruction set promises no more
without FENCE.I, which the emulator does not have), and requires that a run
returns with a reason that is true of the pc.
Nothing is executable beyond the table in `Vm`, as in `src/src/main.cpp`, which sizes the
table by the image.

**Decoder** (reference: **Encoding**). `Instruction`'s constructor, with the fall-through of
its cases as calls of one case from another. A word is given by the fields of the R
format (`OpcodeFields`, `RegisterFields`, `Functs7`: all of them in the code), and the other
immediates are made of these. `Encoding` is the table of the
instruction set and goes the other way, from an instruction to the fields.

**Alu** (reference: **InstructionSet**). One instruction that computes: arithmetic, a branch
condition, `lui`, `auipc`, a link with its jump, or a load, executed from any registers by `Interpret`, `RunAArch64` (or
`GiveUpAArch64` and then `Interpret`) or `RunX64`. Each engine has operators of its own, with its
special cases; `Result` and `Target` of `InstructionSet` are what each should compute. Memory holds at
each address a value of its own (`Content`), so that a load of the wrong address or with the
wrong extension shows. Registers have `Width = 2 * HalfWidth` bits, 64 in the code; and `HalfWidth` is
a power of two, as the counts of shifts need (`WidthAssumption`). `Power` and `LogicOfLowest`, which
gives `Bitwise` bit by bit, are recursive functions. What is undefined
in C++ (division by zero, signed overflow) ends the process or has AArch64's value.
For `Vm`, an instruction of kind "access" is also a multiplication or division into `x0`, which
AArch64 code gives up to the interpreter in the same way.

**ElfLoader**, **Trampoline**, and **Startup** which composes them. `ElfLoader` reads a list
of program headers: `Skip`, `LoadSegment`, `Refuse` or `Crash` for each, `Loaded`, and then `Prepare`,
which is `main` up to the run. The fields of a header are any 64 bit numbers and their sums are
taken modulo `AddressLimit`, as in the code, so the bounds checks accept ranges that wrap around: in the memory
the copy runs out of it and the process dies (`RunsOver`, `Crash`), in the file (`BeginsBeforeFile`) the
segment is loaded with what the host has before the file, or reading that ends the process (`Crash`). `Trampoline` writes the code of the three hosts (AArch64, x64
with the System V and the Windows ABI) as sequences of instructions, from the register
allocations and the pairs of `RegisterSaver` (which registers a callee has to save is stated for each
ABI and not taken from the list the code saves), and executes them on a host of registers and a
stack: `Enter` up to the call, `Guest` from the block's return to the trampoline's `ret`,
`Return`. In `Startup` the image decides the first pc and the table, each block leaves with
any pc, and each turn of `Executor::run` is on behalf of any of the Vms that share the buffer.

**ForkJoinPool**, **RelaxedAtomicVector**, and **Collect** which composes them as they are
meant to be used: the body of a `parallel_for` appends its index to a vector and may return
false, the owner reads, clears and resizes the vector between two calls. What a thread does
under a mutex is one action; a wait on a condition variable is a state that a notification, or
nothing, ends. `unreleased`, `released` and `visible` are the happens-before sets of the
elements, as in `CodeBuffer`: the vector has relaxed orders only, and the pool's
`finished_mutex` is what carries its elements to the owner.

**ConcurrentQueue** (abstract: **Channel**). The three blocking containers, which differ in
what a pop takes (`kind`). `Channel` has nobody asleep: who waits is served as soon as there is something.

The `MC_*` modules hold the constants that a configuration cannot write and the
symmetry sets. Operators whose comment begins with "Mutant of" are not part of the
model: each is a plausible bug, and the property it is listed with in `PROJECT.json`
is violated when it replaces the operator.

## Runs

| run | what it shows | bounds |
|---|---|---|
| `code_buffer` | the buffer: types, `RunsItsBlock`, `PublishedIsComplete`, `RunsWhatItSees`, `NoOrphans`, `DumpedOnce`, `TranslationsAreFinal`; `CallsReturn`: a lookup ends; and `TranslationCache` is implemented | 2 executors, 2 blocks and an odd address, code of 8 or 20 bytes, room for 1 to 3 allocations after the trampolines: it fills up in some orders |
| `code_buffer_odd` | violated: see findings | 1 executor |
| `register_cache` | `ExitsAreCoherent`, `SourcesAreCurrent`, `OneCache`, `VerifiesHold`, and `GuestRegisters` is implemented at every step | 4 registers, 3 slots, blocks of 3 instructions, values 0 and 1 |
| `memory` | `InBounds`, `PaddingIsUntouched`, and `GuestMemory` is implemented | 12 bytes (a word and a half), addresses at every boundary and at the top, a range of the embedder that wraps around, 64 in place of 2^64 |
| `memory_skip` | violated: see findings | as above, `SkipPermissionChecks` |
| `vm` | `StaysInBlock`, `OneInstructionPerStep`, `TableIndexIsSafe`; `RunsAdvance`: no loop without an instruction; and `GuestExecution` is implemented | all programs of two instructions out of eight, one change of the program at any time |
| `decoder` | `DecodesWhatIsEncoded`, `UndefinedIsReserved` | all opcodes that are decoded and one that is not, all `funct3`, ten values of bits 25 to 31, five of each register field: the ends of all fields, and each bit that selects something |
| `alu` | `InterpreterIsRight`, `AArch64IsRight`, `X64IsRight`, `StopsAreDivisions` | registers of 4 bits (halves of 2), x0 and two more: all values, all aliasing; two pcs |
| `alu_x64` | violated: see findings | as above |
| `fork_join` | `TasksOutliveTheirUse`, `CollectsAll`, `RunTaskReturns` | 2 workers, 3 calls of 0 or 3 iterations, capacities 0, 2 and 4 |
| `queue` | `NoLostWakeup`, and `Channel` is implemented | 3 threads that wait, 2 values, batches of up to 2, at most 3 items |
| `startup` | `AbiIsKept`, `GuestRunsForItsCaller`, `ExecutableIsInTable`, `ImageIsLoaded` | any two of 46 headers in a memory of 3 pages and a half, 8 pages in place of 2^64 bytes, 2 Vms with memories of two sizes, all three hosts |

Why the bounds are enough to be interesting: two executors race for one block and
for the last space. A block of
three instructions over more registers than slots evicts clean and dirty slots, with
locked ones next to them (an instruction locks at most three). A memory of a word and
a half has an end that is aligned for some sizes only. Two instructions make blocks
that contain each other, loops, and a fall off the end of the table.
Three iterations for two workers, and a capacity of two, make a worker come back for a second
one while the other fails or has left. Three threads are the fewest of which one can take an item
that another was woken for while the third sleeps. The headers are units of eight bytes around a page
boundary: any order, overlaps, an empty one, one out of the file, out of the memory, not loadable; and ranges that
wrap around: from before the file, through the memory and its permissions, an empty one in the topmost page.
The state spaces are finite without a state constraint; `MaxInstructions`,
`MaxChanges`, `MaxTasks` and `MaxItems` are the only counters, and they are guards.
Deadlock is checked everywhere: a stop of the process is an explicit stuttering
action.

Fairness. `CodeBuffer!FairSpec` asks weak fairness of each thread inside a call: the
operating system runs it, and a mutex that stays free is taken. No fairness among the
waiters is assumed, nor that guest code leaves a block. `Vm!FairSpec` asks only that a
run under way goes on, which a single thread does; which branch it takes, and whether
an access faults, is left open. `Collect!FairSpec`: every thread that does not wait goes on, and
bodies return; a sleeping worker and a blocked owner need a notification, and nobody has to call
`exit`. `ConcurrentQueue!FairSpec`: a thread that is awake gets the mutex; nobody has to push, and
no wakeup comes by itself. That is all `Channel`'s own fairness is derived from.

Findings. (1) `code_buffer_odd`: translated code clears the lowest bit of a jalr's
target for its own lookup and leaves with the unmasked one when the block is missing
(`jit/aarch64/CodeGenerator.cpp:268-291`; `x64` the same), so `insert` stops the process
with "guest address is misaligned". `GuestExecution` accepts the odd pc and the stop,
so that the rest can be checked. (2) `memory_skip`: the remark that the access size
need not be compared "because we have already checked for alignment"
(`jit/aarch64/CodeGenerator.cpp:173`) holds for sizes that are multiples of eight; else, with
`SkipPermissionChecks`, translated code accesses the padding of the last word. With permission checks the
padding's permissions, which nothing can set, save it (`PaddingIsUntouched`).
(3) `alu_x64`: an operation on two registers with rd = rs1 ignores rs2 on x64
(`jit/x64/CodeGenerator.cpp:569`, against its comment at 546): `xor x1, x1, x2` leaves `x1` as it is.

What the decoder and the three engines get wrong otherwise, no comment promises; it is
listed as exceptions in the properties of `Decoder` and `Alu`, each of which is needed: without
any one of them TLC finds a violation.
- Decoder: `sraiw` is looked for with bit 31 and not with bit 30 (`Instruction.cpp:108`), so
  that it is an undefined instruction; reserved shifts fall through to `lh` and `lhu` (line 71).
- Interpreter: `srai` and `sra` shift to the left (`Interpreter.cpp:223` and its like for registers), `mulw`
  divides; a division by zero is left to the host.
- AArch64: the quotient of a division by zero is 0. Multiplications and divisions into `x0` fall
  through to the unsupported instructions and are interpreted (`jit/aarch64/CodeGenerator.cpp:733`).
- x64: shifts of 32 bits are done with 64; the quotient that overflows is taken to be 0; the overflow of 32 bits is
  only noticed when the operands are sign extended, else the process traps, as it does for a division by
  zero; `slti` and `sltiu` of `x0` stop in the `verify` of `register_operand`.

Observations that the abstract modules make room for, without a finding. A jal or a
branch to a target that cannot be executed returns from translated code with the pc of
the jump, and from the interpreter with that of the target. Outside the table translated code
reports `OutOfBoundsPc`, the interpreter `InstructionFetchFault`. A load for `x0`
never faults in translated code and may in the interpreter. The last instruction of the
table, interpreted or single-stepped, leads to a lookup past the table that nothing
checks (`jit/CodeBuffer.cpp:51`). `TableIndexIsSafe` says that this is the only way there
within a run of a program that does not change. A run that is started with a pc outside the table is another. The
third was found by TLC: a translation made before its program was rewritten gives up an access,
`Vm::run` has the interpreter execute what is at that pc now, and if that is a branch its target goes
to the lookup unchecked.

Ranges of the embedder. `Memory::write` and `set_permissions` accept a range whose end wraps around 2^64
(`Memory.cpp:22` and `:69`), and `ElfLoader` passes sizes from the file to them
(`src/src/ElfLoader.cpp:90` and `:106`) and to `slice` (`:26`), which has a check like theirs without the
bound of the offset itself. No comment says otherwise, so these are not findings but named exceptions: `Overrun` and
`path # "overrun"` in `Memory`, `Crash` and `BeginsBeforeFile` in `ElfLoader`. The headers themselves are
read through `slice` too, at an offset that may wrap: what they say may be anything, as in the model. An
empty segment is not checked at all; in the topmost page it makes the table's size wrap to 0
(`src/src/main.cpp:31`, `EndsInLastPage`).

Startup. `main`'s stack is a call of `set_permissions(0x10, image.base, ...)`: it ends 16 bytes inside
the image and takes their `Execute` flag, takes whatever lies below the first segment, and fails unnoticed
when the base leaves no room for it (`src/src/main.cpp:28`); `ImageIsLoaded` names these. An
entrypoint outside of the image is looked up beyond the table (`src/src/main.cpp:42`, `OutOfTable`).
Trampolines: `needs_extra_push` (`jit/x64/Trampoline.cpp:21`) counts registers modulo 16 where it should count
them modulo 2; both ABIs save an even number, so the stack is aligned all the same (`AbiIsKept`). The
size of the memory is part of x64 code (`jit/x64/CodeGenerator.cpp:141`), so Vms that share a
`CodeBuffer` there need memories of one size (`OfOneSize`); on AArch64 they do not.
Pool: a `run_task` that overlaps an `exit` may wait for ever, as a worker that has not taken its
task leaves without it; a `run_task` after an `exit` returns at once and has done nothing.
Vector: an append that fails still counts in `size_`, which `size()` hides behind the capacity; but on a vector
of capacity 0 it makes `set_capacity` (`RelaxedAtomicVector.hpp:56`) accept it as empty and give it
elements nobody has constructed (`phantoms`). Queues: after `request_exit` what is left is
delivered to `pop_front_non_blocking` only.

## Proofs

| module | theorems | for |
|---|---|---|
| `CodeBuffer_proofs` | `TypeCorrect`, `ExecutionCorrect`, `PublicationCorrect`, `VisibilityCorrect`, `AllocationCorrect`, `TranslationsFinal`, `DumpCorrect`, `CodeBufferImplementsCache` | any executors, blocks, code sizes, buffer |
| `RegisterCache_proofs` | `TypeCorrect`, `ExitsCorrect`, `SourcesCorrect`, `CacheCorrect`, `VerifiesCorrect`, `CacheImplementsRegisters` | any registers, slots (three or more for `VerifiesCorrect`), block length, operation |
| `Memory_proofs` | `TypeCorrect`, `PaddingCorrect`, `BoundsCorrect`, `RefinementCorrect` | any size, addresses, data, ranges of the embedder (up to the first that wraps around) |
| `Vm_proofs` | `TypeCorrect`, `BlockCorrect`, `SteppingCorrect`, `TableCorrect`, `VmImplementsGuest` | any program, table, entries, changes |
| `Collect_proofs` | `PoolTypes`, `PoolTasksOutliveTheirUse`, `CollectUsesThePool`, `BodiesOutliveTheirUse`, `CollectionCorrect` | any workers, tasks, counts, vector |
| `ConcurrentQueue_proofs` | `WakeupsAreNotLost`, `IsAChannel` | any threads, values, batches, items |
| `Startup_proofs` | `TableCoversTheImage`, `ImageIsComplete` | any headers of 64 bit fields, memory, file, page size; with the exceptions the properties name |
| | `CallersAreSafe`, `GuestsAreCallers` | any Vms, memories, blocks and exits; each host |
| | `RestoresUndoSaves`, `PairsHaveWhatIsAdded` | any groups of registers; any registers added to the saver |
| `Instructions_proofs` | `DecodingCorrect`, `UndefinedCorrect` | every word of 32 bits |
| | `InterpreterCorrect`, `AArch64Correct`, `X64Correct`, `StopsCorrect`, `RegistersStayWords` | any width (64 bits in the code), contents of registers, immediates |

Assumptions are the named `ASSUME`s of the modules, which TLC evaluates in every run.

*CodeBuffer.* None of the invariants is inductive: that a thread runs the
right code depends on what every other thread may be about to write. `IInv` adds:
the mutex is held exactly between lock and unlock (`MutexInv`); a thread past the
recheck works on a block with no entry (`LocationInv`); every offset in the table, in
a thread's hand or in its trampoline is the start of complete code below
`next_free_offset` (`TableInv`, `EntryInv`, `ReadyInv`), while the one thread in the
mutex writes only above it; and each such offset is in the happens-before set that
travels with it. `Inductive` has one step for each action. Single-threaded buffers
(`Multithreaded` false) are assumed to have one executor, as the flag says. `DumpInv` adds what
the dump needs: the one thread that is about to dump has published, and nobody has dumped that
block before it. The refinement maps a thread to what it has asked for and what it holds (`Asked`, `Held`): a
lookup that finds is the cache's `Found`, a publication its `Translated`, wherever the thread
is in `insert`; locks, copies and rechecks are stutters.

*RegisterCache.* `CoherentAt(r)` says where the value of a guest register
is: in memory if it is not cached or clean, in its host register if it is
dirty, and in its host register in any case except while it is a destination
that is not written yet. With which registers are locked in which phase
(`OperandInv`), where a jalr's target is kept (`JumpInv`) and the snapshot being that of the
check (`PhaseInv`), this is inductive, and exits flush exactly the dirty slots. The refinement of
`GuestRegisters` follows: what is read off the cache is what the instruction set has (`ShowsGuest`), so
locks, evictions, snapshots and the moves of a jalr's target are stutters, and each instruction is a `Begin` where it
locks, and a `Finish`, `Jump` or `Leave` where its code has run. That no `verify` fails is counting: only slots of the
instruction in hand are locked (`LockInv`), so whatever is neither free nor evictable is one of its at
most three operands, and three slots suffice (`EnoughSlots`); the code has seventeen.

*Memory.* The padding's permissions are empty in every state, since each writer is
bounded by the size; so translated code, which checks the permissions of every byte it
accesses, accesses none of it. This is said up to the first range that wraps around (`DefinedBefore`); what is in range
without wrapping around ends inside the size. That needs `Sound`: permission checks are on or the size is a
multiple of the word size. The refinement follows with one lemma for each action, the wrap
around of `address + size` being a case of its own.

*Vm.* A translation does not follow the program, so nothing about what is in
memory now helps. `IInv` says instead what a translation keeps (`TranslationInv`): it
begins with its block, each of its instructions was once at its address (`fetchable`),
and after one that does not always leave the block the next one is there too. What
is given up to the interpreter was an access or an unsupported instruction at that
pc, and what goes round in `Executor::run` is in the table or right after it
(`ExitInv`). `TableCorrect` is about steps: only `Again` and one interpreted
instruction lead back to a lookup (`Lookups`), and the latter is the access that was given up
or something else that has taken its place, which is the exception the property names. The
refinement maps an instruction in a translation, one in the interpreter and a branch between blocks
to the same step of `GuestExecution`, and needs in addition that a run which is about to end has
a reason that is true where it ends (`ReasonInv`).

*Collect.* A worker must be between its task and the next one exactly when the owner may be in
`run_task`, and this is a matter of counting: `finished_threads` is the number of workers that have
returned from the current task (`Returned`), so it reaches the number of threads only when all
have, and those have no task in `thread_tasks` either. The invariant is proved of the pool alone;
`CollectUsesThePool` shows that `Collect` is one of its uses, step by step. `CollectionCorrect` counts
once more: every iteration taken has added one to `size_`, but those of `Pending` bodies, and a worker
stops only when the iterations or the slots have run out (`Counted`), so nothing is missing at the
end. The iterator, which is incremented in vain once by each worker, must not wrap for that. A slot below `size()`
has an element or one worker on its way to it (`Slots`), and an element is in what its worker has not
released yet or in what `finished_mutex` carries (`Synchronized`). After a failed `verify`, or
with `phantoms`, nothing is claimed.

*ConcurrentQueue.* `NoLostWakeup` is a count, too: each item beyond the threads that are awake
would be one nobody is on the way to. The refinement needs only that who sleeps waits.

*Startup.* Whatever has been loaded did not wrap around, as the process would have ended, so `End` is the largest end of what has been loaded, and the permissions at an address are
those of the last header that covers it; both are stated for the headers read so far. That the
table's entries, which are rounded up, cover the image, whose size is rounded up to pages, is
arithmetic modulo 2^64 (which nothing reaches but an image that ends in the topmost page) with `\div` by a constant that is not a number, which takes lemmas of its own (`Division`,
`RoundingUp`).

*Trampolines.* A run of straight-line code is a function of its machine, so the invariant says
which one it is: inside, the machine is what the code before the call makes of the caller's (`Inside`), and
after the return what the code after the call makes of that and of an exit (`TrampolineInv`). The
work is in what these machines hold. `RestoresUndoSaves` is an induction over the groups of
registers, for any groups: a register that is in several of them gets what was saved first, since it is
popped last. `PairsHaveWhatIsAdded` is one over what `RegisterSaver` is given: always a whole number of pairs,
`x30` filling the last one, and among them every register that is always saved or that the ABI asks
for. `SavesGrow` gives the height of the stack and with it its alignment at the call;
`LoadsExecute` and `StoresExecute` say what the context and the exit are copied to, for any
list of distinct registers; `HostsAreHosts` is the only place where the registers of each host are enumerated.
`RunInv` adds that the pcs between two turns are among `Pcs`, for which each entrypoint but 0 has to be
one (`EntrypointsAssumption`): in the code both are all 64 bit numbers.

*Decoder.* There is nothing to carry from state to state but that `decoded` is what the constructor makes
of `word`. The proof goes by opcode: for each the switch gives a type, and the format of that type reassembles the
immediate, sign included, from the fields (`Field` of `Encoding` takes it apart again), by arithmetic with `\div` and
`%` of powers of two that are numbers here. The converse, that nothing else is left undefined, is a
case for each encoding in the table.

*Alu.* `AluInv` is small: registers are words, `x0` is zero, and the instruction is one there is. That is
enough, as each property is about one step; but it is needed, as an engine reads registers that were
words before. All of the rest is about operators: for each engine and kind of instruction what
it computes is `Result`, for every width. That two's complement may be calculated in any representation
modulo `Power[Width]` (`SameRests`), that the extension of a half is the same value, how shifts by a
count modulo the width go with powers of two, and that the logic of bits is what it is bit by
bit are inductions, over `Nat` by a least counterexample (`WFMin`), since the induction theorems
with an operator as parameter cannot be used. The x64 part found a mistake in
the model that TLC had not reported: two arms of a `CASE` overlapped, and TLC takes the first one; the
arms are an `IF` now, in the order of the code.

Only model-checked: liveness (`CallsReturn`, `RunsAdvance`, `RunTaskReturns`, and the fairness in
`ImplementsChannel`), which is out of the prover's reach with everything that needs ENABLED. Every
invariant and every action property of the runs is a theorem, and so is the step simulation of every
refinement.

## Plan

Done in this order: the four modules with state, the most shared and most fragile first;
`Decoder` and `Alu`, which are functions; then the way into the emulator (`ElfLoader`, `Trampoline`,
`Startup`), with Vms of different memories on one `CodeBuffer`; and baselib's concurrency (`ForkJoinPool`,
`RelaxedAtomicVector`, `Collect`, `ConcurrentQueue`).

Every safety property the runs check is proved. `Vm` takes an instruction
for its effect on the pc and `Alu` for its values; one specification of both, and a theorem about it,
could be next. Liveness stays with TLC, and the rest is in the section below.

## Not modelled

- The encodings of emitted instructions: asmlib is not in the repository.
- `InstructionDisplay`, the formats of dumps and logs, fmt: output only. What the execution log
  does to execution is `single_step` in `Vm`.
- The platform's memory mapping and W^X switch in `ExecutableBuffer`, which on macOS is a property of the thread.
- Failures of allocation: of the memory, the buffer or the table, which end the process before anything is done.
- In `ElfLoader`, the constants of the ELF header and where in the file the program headers are: verifies
  before anything has been done.
- `ConcurrentContainer`: a lock around callbacks of users it does not have; what it promises depends on them.
  `PerThreadStorage` is an array.
- The sequential containers: `SmallVector`, `StaticVector` and `SumType` are about object lifetimes, which a
  model of values does not see; `IntrusiveLinkedList` and `Bitset` have no user in the repository.
- The small helpers of baselib: files, logs, time, random numbers, hashes, parsing.
- Data races other than the one on the code bytes do not occur in the modelled parts of the emulator: the table is atomic,
  all else is behind the mutex or owned by a thread. In the pool, `finished_threads` is reset and `threads.size()` read
  without a mutex: the first is ordered by the calls around it, the second races with `exit` only.
