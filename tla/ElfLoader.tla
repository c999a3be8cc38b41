------------------------------ MODULE ElfLoader ------------------------------
(***************************************************************************)
(* How a program gets into the guest's memory: ElfLoader::load             *)
(* (src/ElfLoader.cpp), and what main does with the image before it runs   *)
(* (src/main.cpp): the pages below become the stack, and the image's end   *)
(* the size of the translation table.                                      *)
(*                                                                         *)
(* An address counts bytes, or any larger unit that divides the constants. *)
(* A program header is read when its turn comes: its fields are any 64 bit *)
(* numbers, and every sum of them is taken modulo 2^64.  The byte at       *)
(* offset o of the file is o + 1, so that 0 is what was never written, and *)
(* what is greater than FileSize what the host has before the file.        *)
(***************************************************************************)
EXTENDS Integers, Sequences

CONSTANTS
    AddressLimit,      \* 2^64
    MemorySize, FileSize,
    PageSize,          \* 0x1000
    Guard,             \* 0x10, where main's stack begins
    WordSize,          \* 8
    InstructionSize,   \* 4
    ProgramHeaders,    \* what a header may say
    MaxHeaders,        \* bound: of phe_count
    Entrypoints

Flags == {"read", "write", "execute"}
Unsigned == 0 .. AddressLimit - 1
U64(n) == n % AddressLimit
HeaderType ==
    [loadable: BOOLEAN, memory_address: Unsigned, memory_size: Unsigned,
     file_offset: Unsigned, file_size: Unsigned, flags: SUBSET {"write", "execute"}]

ASSUME LoaderAssumption ==
    /\ AddressLimit \in Nat \ {0} /\ MemorySize \in Unsigned /\ FileSize \in Unsigned
    /\ PageSize \in Nat \ {0} /\ AddressLimit % PageSize = 0
    /\ InstructionSize \in 1 .. PageSize
    /\ Guard \in Nat /\ WordSize \in Nat \ {0} /\ WordSize + Guard <= PageSize
    /\ MaxHeaders \in Nat
    /\ ProgramHeaders \subseteq HeaderType /\ Entrypoints \subseteq Unsigned

VARIABLES
    headers, entrypoint,    \* the file
    contents, permissions,  \* the memory
    next,                   \* i, of the next header
    base_address, end_address,
    loader_at,              \* "loading", "loaded", "ready", or "stopped": the end
    max_executable_address, sp, pc

memory_vars == <<contents, permissions>>
image_vars == <<headers, entrypoint, next, base_address, end_address>>
start_vars == <<max_executable_address, sp, pc>>
loader_vars == <<image_vars, memory_vars, start_vars, loader_at>>

Memory == 0 .. MemorySize - 1

LoaderInit ==
    /\ headers \in UNION {[1 .. n -> ProgramHeaders] : n \in 0 .. MaxHeaders}
    /\ entrypoint \in Entrypoints
    /\ contents = [a \in Memory |-> 0] /\ permissions = [a \in Memory |-> {}]
    /\ next = 1 /\ base_address = 0 /\ end_address = 0
    /\ loader_at = IF entrypoint = 0 THEN "stopped" ELSE "loading"
    /\ max_executable_address = 0 /\ sp = 0 /\ pc = 0

Smaller(a, b) == IF a < b THEN a ELSE b
Larger(a, b) == IF a < b THEN b ELSE a

\* The bounds check of Memory::write and set_permissions, and of slice.
InMemory(address, size) ==
    address <= MemorySize /\ U64(address + size) <= MemorySize
InFile(offset, size) == U64(offset + size) <= FileSize
FileByte(offset) == U64(offset) + 1

Place(h) == h.memory_address .. h.memory_address + h.memory_size - 1
DataSize(h) == Smaller(h.file_size, h.memory_size)

Skip ==
    /\ loader_at = "loading" /\ next <= Len(headers) /\ ~headers[next].loadable
    /\ next' = next + 1
    /\ UNCHANGED <<headers, entrypoint, base_address, end_address, memory_vars,
                   start_vars, loader_at>>

\* A segment that has no place in a memory, a file or an image.
Refused(h, base) ==
    \/ base = 0 \/ base % PageSize # 0
    \/ ~InFile(h.file_offset, DataSize(h))
    \/ DataSize(h) > 0 /\ ~InMemory(h.memory_address, DataSize(h))
    \/ h.memory_size > 0 /\ ~InMemory(h.memory_address, h.memory_size)

\* Ranges that wrap around pass these checks: a segment with bytes of the host
\* from before the file, and one that ends before it begins.
BeginsBeforeFile(h) == h.file_offset + DataSize(h) >= AddressLimit
RunsOver(h) == h.memory_address + h.memory_size >= AddressLimit

\* The first segment is the base, whatever the order of the others.
Base(h) == IF base_address = 0 THEN h.memory_address ELSE base_address

Refuse ==
    /\ loader_at = "loading" /\ next <= Len(headers)
    /\ LET h == headers[next] IN h.loadable /\ Refused(h, Base(h))
    /\ loader_at' = "stopped"
    /\ UNCHANGED <<image_vars, memory_vars, start_vars>>

\* memcpy or memset runs out of the memory, through all of the address space;
\* or memcpy reads what is before the file, where there may be nothing.
Crash ==
    /\ loader_at = "loading" /\ next <= Len(headers)
    /\ LET h == headers[next] IN
         /\ h.loadable /\ ~Refused(h, Base(h))
         /\ RunsOver(h) \/ BeginsBeforeFile(h)
    /\ loader_at' = "stopped"
    /\ UNCHANGED <<image_vars, memory_vars, start_vars>>

\* Mutant of WriteSegment: all that the file has of a segment is written.
WriteWhole(h) ==
    contents' = [a \in Memory |->
        IF a \in h.memory_address .. h.memory_address + h.file_size - 1
          THEN FileByte(h.file_offset + (a - h.memory_address)) ELSE contents[a]]

WriteSegment(h) ==
    contents' = [a \in Memory |->
        IF a \in h.memory_address .. h.memory_address + DataSize(h) - 1
          THEN FileByte(h.file_offset + (a - h.memory_address)) ELSE contents[a]]

\* Mutant of End: the last segment is taken for the highest.
EndOfLast(h) == U64(h.memory_address + h.memory_size)

End(h) == Larger(end_address, U64(h.memory_address + h.memory_size))

LoadSegment ==
    /\ loader_at = "loading" /\ next <= Len(headers)
    /\ LET h == headers[next] IN
         /\ h.loadable /\ ~Refused(h, Base(h)) /\ ~RunsOver(h)
         /\ base_address' = Base(h)
         /\ end_address' = End(h)
         /\ WriteSegment(h)
         /\ permissions' = [a \in Memory |->
              IF a \in Place(h) THEN {"read"} \union h.flags ELSE permissions[a]]
    /\ next' = next + 1
    /\ UNCHANGED <<headers, entrypoint, start_vars, loader_at>>

AlignedSize ==
    LET size == U64(end_address - base_address)
    IN (U64(size + PageSize - 1) \div PageSize) * PageSize

Loaded ==
    /\ loader_at = "loading" /\ next > Len(headers)
    /\ loader_at' = "loaded"
    /\ UNCHANGED <<image_vars, memory_vars, start_vars>>

\* The CodeBuffer that main makes for the image.
TableSize ==
    U64(max_executable_address + InstructionSize - 1) \div InstructionSize

StackPlace == Guard .. Guard + base_address - 1
StackIsMapped == InMemory(Guard, base_address)

\* main: nobody looks at what set_permissions returns.
Prepare ==
    /\ loader_at = "loaded" /\ loader_at' = "ready"
    /\ permissions' = [a \in Memory |->
         IF StackIsMapped /\ a \in StackPlace THEN {"read", "write"} ELSE permissions[a]]
    /\ max_executable_address' = U64(base_address + AlignedSize)
    /\ sp' = U64(base_address - WordSize)
    /\ pc' = entrypoint
    /\ UNCHANGED <<image_vars, contents>>

LoaderNext == Skip \/ Refuse \/ Crash \/ LoadSegment \/ Loaded \/ Prepare
LoaderSpec == LoaderInit /\ [][LoaderNext]_loader_vars
-----------------------------------------------------------------------------
Indexes == DOMAIN headers
LoaderTypeOK ==
    /\ headers \in Seq(ProgramHeaders) /\ entrypoint \in Unsigned
    /\ contents \in [Memory -> Nat] /\ permissions \in [Memory -> SUBSET Flags]
    /\ next \in 1 .. Len(headers) + 1
    /\ base_address \in Unsigned /\ end_address \in Unsigned
    /\ loader_at \in {"loading", "loaded", "ready", "stopped"}
    /\ max_executable_address \in Unsigned /\ sp \in Unsigned

(***************************************************************************)
(* The translation table has an entry for every instruction that may be    *)
(* executed: get does not check its index, and branches out of the table   *)
(* are reported as out of bounds, although the interpreter would follow    *)
(* them.  Segments may come in any order, overlap, and end anywhere.  The  *)
(* exception is an empty segment, which nobody checks, in the topmost page *)
(* of the address space: rounded up to pages the image then ends at 0, and *)
(* the table has no entry at all.                                          *)
(***************************************************************************)
EndsInLastPage == end_address > AddressLimit - PageSize
ExecutableIsInTable ==
    loader_at = "ready" /\ ~EndsInLastPage =>
        \A a \in Memory :
            "execute" \in permissions[a] => a \div InstructionSize < TableSize

(***************************************************************************)
(* The guest starts with its image: each segment that no other one         *)
(* overlaps has the file's bytes, then zeros, and its own permissions; and *)
(* with a stack whose first word, below the image, is readable and         *)
(* writable.  The exceptions: main's stack, which begins at Guard and is   *)
(* as large as the image's base, takes its last Guard bytes, and what is   *)
(* below the first segment, from the image's permissions; there is no      *)
(* stack for an image whose base leaves no room for it in the memory; and  *)
(* a segment whose range in the file wraps around 2^64 is loaded, when the *)
(* host has anything there, with bytes that are not the file's.            *)
(***************************************************************************)
Alone(i) == \A j \in Indexes \ {i} :
    headers[j].loadable => Place(headers[i]) \intersect Place(headers[j]) = {}
HasItsContents(h) == \A a \in Place(h) :
    LET offset == a - h.memory_address
        position == h.file_offset + offset
    IN IF offset < h.file_size
         THEN BeginsBeforeFile(h) \/ (position < FileSize /\ contents[a] = position + 1)
         ELSE contents[a] = 0
HasItsPermissions(h) == \A a \in Place(h) \ StackPlace :
    permissions[a] = {"read"} \union h.flags
ImageIsLoaded ==
    loader_at = "ready" =>
        /\ \A i \in Indexes : headers[i].loadable /\ Alone(i) =>
              HasItsContents(headers[i]) /\ HasItsPermissions(headers[i])
        /\ (base_address > 0 /\ StackIsMapped) =>
              \A a \in sp .. sp + WordSize - 1 : permissions[a] = {"read", "write"}
=============================================================================
