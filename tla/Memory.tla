------------------------------ MODULE Memory -------------------------------
(***************************************************************************)
(* The guest's memory (src/vm/Memory.cpp), and the two ways guest code     *)
(* reaches it: the interpreter, through Memory::read and write, and        *)
(* translated code, which checks and accesses the bytes by itself          *)
(* (generate_validate_memory_access of both code generators) and, when its *)
(* own check fails, leaves to the interpreter, which decides (Vm::run).    *)
(*                                                                         *)
(* One object holds the contents, and after them the permissions of every  *)
(* byte; both are rounded up to whole 64 bit words.                        *)
(***************************************************************************)
EXTENDS Integers

CONSTANTS
    Size,                  \* the size of the memory
    AddressLimit,          \* 2^64
    NoRequest,
    Addresses,             \* what guest code computes as an address
    Bytes,
    Data,                  \* 64 bit values, by byte
    Ranges,                \* the <<address, size>> the embedder works on
    FlagSets,              \* and the permissions it gives
    SkipPermissionChecks   \* CodeBuffer::Flags::SkipPermissionChecks

Flags == {"read", "write", "execute"}
WordSize == 8

ASSUME SizeAssumption ==
    Size \in Nat /\ AddressLimit \in Nat /\ Size + WordSize < AddressLimit
ASSUME AccessAssumption ==
    /\ Addresses \subseteq 0 .. AddressLimit - 1
    /\ 0 \in Bytes /\ Data \subseteq [0 .. WordSize - 1 -> Bytes] /\ Data # {}
    /\ SkipPermissionChecks \in BOOLEAN
\* Two 64 bit numbers: their sum may wrap around.
ASSUME RangesAssumption ==
    /\ FlagSets \subseteq SUBSET Flags
    /\ Ranges \subseteq (0 .. AddressLimit - 1) \X (0 .. AddressLimit - 1)

\* A load for x0 is op "discard"; only loads and stores are translated.
Requests ==
    [op: {"load", "discard", "store"}, address: Addresses, size: {1, 2, 4, 8},
     data: Data] \union
    [op: {"fetch"}, address: Addresses, size: {4}, data: Data]
ASSUME NoRequestAssumption == NoRequest \notin Requests

VARIABLES contents, permissions,
          request, path,   \* the access under way, and where it is
          outcome, loaded  \* how it ended, and the bytes that it read
vars == <<contents, permissions, request, path, outcome, loaded>>

\* Memory::Memory.
Padded == ((Size + WordSize - 1) \div WordSize) * WordSize
Init ==
    /\ contents = [i \in 0 .. Padded - 1 |-> 0]
    /\ permissions = [i \in 0 .. Padded - 1 |-> {}]
    /\ request = NoRequest /\ path = "idle"
    /\ outcome = "none" /\ loaded = <<>>

\* Mutant of InRange: the words of the memory are counted, not its bytes.
InRangeOfWords(a, n) == a <= Padded /\ (a + n) % AddressLimit <= Padded

\* The bounds check of every function of Memory.
InRange(a, n) == a <= Size /\ (a + n) % AddressLimit <= Size
Place(a, n) == a .. a + n - 1
Needs(q) == CASE q.op = "store" -> "write" [] q.op = "fetch" -> "execute"
              [] OTHER -> "read"
Permitted(q) == \A i \in Place(q.address, q.size) : Needs(q) \in permissions[i]

(***************************************************************************)
(* The embedder: Memory::write without flags, and set_permissions.  What   *)
(* is out of range is refused as a whole.  But a range whose sum wraps     *)
(* around is in range: it is written up to the end of the words, through   *)
(* the permissions when those are next, and out of the object.  That is    *)
(* undefined, and nothing is said of what comes after.                     *)
(***************************************************************************)
Wraps(r) == r[1] + r[2] >= AddressLimit
Ended(r) ==
    /\ path' = IF InRange(r[1], r[2]) /\ Wraps(r) THEN "overrun" ELSE path
    /\ outcome' = IF ~InRange(r[1], r[2]) THEN "refused"
                  ELSE IF Wraps(r) THEN "undefined" ELSE "done"

\* MemoryFlags, in the bits of a byte.
Bit == [read |-> 1, write |-> 2, execute |-> 4]
FlagsOf(byte) == {f \in Flags : (byte \div Bit[f]) % 2 = 1}

Write ==
    /\ path = "idle"
    /\ \E r \in Ranges, d \in Data :
          /\ contents' = [i \in 0 .. Padded - 1 |->
                            IF InRange(r[1], r[2]) /\ i \in Place(r[1], r[2])
                            THEN d[(i - r[1]) % WordSize] ELSE contents[i]]
          /\ permissions' = [i \in 0 .. Padded - 1 |->
                               IF InRange(r[1], r[2]) /\ Wraps(r)
                               THEN FlagsOf(d[(Padded + i - r[1]) % WordSize])
                               ELSE permissions[i]]
          /\ Ended(r)
    /\ UNCHANGED <<request, loaded>>

SetPermissions ==
    /\ path = "idle"
    /\ \E r \in Ranges, f \in FlagSets :
          /\ permissions' = [i \in 0 .. Padded - 1 |->
                               IF InRange(r[1], r[2]) /\ i \in Place(r[1], r[2])
                               THEN f ELSE permissions[i]]
          /\ Ended(r)
    /\ UNCHANGED <<contents, request, loaded>>

Overrun == path = "overrun" /\ UNCHANGED vars

\* Guest code accesses memory, translated or in the interpreter.
Access ==
    /\ path = "idle"
    /\ request' \in Requests
    /\ path' \in IF request'.op = "fetch" THEN {"interpreted"}
                 ELSE {"interpreted", "translated"}
    /\ outcome' = "pending" /\ loaded' = <<>>
    /\ UNCHANGED <<contents, permissions>>

Finish == path' = "idle" /\ request' = NoRequest

\* The bytes are read, or written.
Perform(q) ==
    /\ outcome' = CASE q.op = "store" -> "stored"
                    [] q.op = "discard" -> "discarded"
                    [] OTHER -> "loaded"
    /\ loaded' = IF q.op \in {"store", "discard"} THEN loaded
                 ELSE [i \in 0 .. q.size - 1 |-> contents[q.address + i]]
    /\ contents' = [i \in 0 .. Padded - 1 |->
                      IF q.op = "store" /\ i \in Place(q.address, q.size)
                      THEN q.data[i - q.address] ELSE contents[i]]
    /\ Finish /\ UNCHANGED permissions

\* Mutant of Accepted: the mask covers the first byte.
AcceptedByFirstByte(q) ==
    /\ q.address % q.size = 0
    /\ q.address < Size
    /\ SkipPermissionChecks \/ Needs(q) \in permissions[q.address]

(***************************************************************************)
(* Translated code: the address is aligned, so that the bounds check can   *)
(* ignore the size, and the permissions of all bytes are compared at once. *)
(* Nothing at all is generated for a load for x0.                          *)
(***************************************************************************)
Accepted(q) ==
    /\ q.address % q.size = 0
    /\ q.address < Size
    /\ SkipPermissionChecks \/ Permitted(q)

Translated ==
    /\ path = "translated" /\ request.op # "discard"
    /\ Accepted(request) /\ Perform(request)

TranslatedAway ==
    /\ path = "translated" /\ request.op = "discard"
    /\ outcome' = "discarded" /\ Finish
    /\ UNCHANGED <<contents, permissions, loaded>>

\* Mutant of FallBack: what translated code rejects is a fault.
RejectedIsFault ==
    /\ path = "translated" /\ request.op # "discard"
    /\ ~Accepted(request)
    /\ outcome' = "fault" /\ Finish
    /\ UNCHANGED <<contents, permissions, loaded>>

\* The fault exit, and Interpreter::step from Vm::run.
FallBack ==
    /\ path = "translated" /\ request.op # "discard"
    /\ ~Accepted(request)
    /\ path' = "interpreted"
    /\ UNCHANGED <<contents, permissions, request, outcome, loaded>>

\* Memory::read and write with flags.
Checked(q) == InRange(q.address, q.size) /\ Permitted(q)

Interpreted ==
    /\ path = "interpreted" /\ Checked(request) /\ Perform(request)

\* Mutant of Fault: the exit is not filled in.
SilentFault ==
    /\ path = "interpreted" /\ ~Checked(request)
    /\ Finish /\ UNCHANGED <<contents, permissions, outcome, loaded>>

Fault ==
    /\ path = "interpreted" /\ ~Checked(request)
    /\ outcome' = "fault" /\ Finish
    /\ UNCHANGED <<contents, permissions, loaded>>

Next ==
    \/ Write \/ SetPermissions \/ Access
    \/ Translated \/ TranslatedAway \/ FallBack \/ Interpreted \/ Fault
    \/ Overrun

Spec == Init /\ [][Next]_vars
-----------------------------------------------------------------------------
TypeOK ==
    /\ contents \in [0 .. Padded - 1 -> Bytes]
    /\ permissions \in [0 .. Padded - 1 -> SUBSET Flags]
    /\ path \in {"idle", "translated", "interpreted", "overrun"}
    /\ IF path \in {"idle", "overrun"} THEN request = NoRequest
       ELSE request \in Requests
    /\ (path \in {"idle", "overrun"}) = (outcome # "pending")
    /\ outcome \in {"none", "done", "refused", "undefined", "pending", "stored",
                    "discarded", "loaded", "fault"}
    /\ loaded \in UNION {[0 .. n - 1 -> Bytes] : n \in {0, 1, 2, 4, 8}}

(***************************************************************************)
(* An access that translated code performs stays inside the memory,        *)
(* although its size is never compared with anything: "We don't need to    *)
(* account for the access size because we have already checked for         *)
(* alignment."                                                             *)
(***************************************************************************)
InBounds ==
    (path = "translated" /\ request.op # "discard" /\ Accepted(request)) =>
        request.address + request.size <= Size

(***************************************************************************)
(* The bytes between the size and the end of the last word are never       *)
(* written and never allow anything: translated code relies on it to       *)
(* reject what its bounds check lets through.  The exception is a write or *)
(* a grant of the embedder whose range wraps around 2^64: it is accepted,  *)
(* and goes through the padding and out of the memory.                     *)
(***************************************************************************)
PaddingIsUntouched ==
    path # "overrun" =>
        \A i \in Size .. Padded - 1 : contents[i] = 0 /\ permissions[i] = {}

(***************************************************************************)
(* The two paths and the fall back from one to the other give guest code   *)
(* one memory: GuestMemory.                                                *)
(***************************************************************************)
Guest == INSTANCE GuestMemory WITH
    contents <- [i \in 0 .. Size - 1 |-> contents[i]],
    permissions <- [i \in 0 .. Size - 1 |-> permissions[i]],
    Lenient <- SkipPermissionChecks
ImplementsGuestMemory == Guest!Spec
=============================================================================
