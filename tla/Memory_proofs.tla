--------------------------- MODULE Memory_proofs ----------------------------
(***************************************************************************)
(* For every size of the memory, every address and whatever the embedder   *)
(* does: translated code stays inside the memory although it never looks   *)
(* at the size of an access, and both paths to memory are one to the       *)
(* guest.                                                                  *)
(***************************************************************************)
EXTENDS Memory, TLAPS

\* The embedder does not at once skip the permission checks and choose a size
\* that is not a multiple of a word.
Sound == ~SkipPermissionChecks \/ Size % WordSize = 0
-----------------------------------------------------------------------------
(***************************************************************************)
(* Numbers.                                                                *)
(***************************************************************************)
LEMMA PaddedFacts ==
    /\ Padded \in Nat /\ Size \in Nat /\ Size <= Padded /\ Padded < Size + 8
    /\ Padded % 8 = 0
    /\ Size % 8 = 0 => Padded = Size
BY SizeAssumption DEF SizeAssumption, Padded, WordSize

\* Alignment stands in for the size: an aligned access that starts before the
\* end of a whole number of words ends there.
LEMMA AlignedEnds ==
    ASSUME NEW a \in Nat, NEW n \in {1, 2, 4, 8}, NEW end \in Nat,
           a % n = 0, a < end, end % 8 = 0
    PROVE  a + n <= end
<1>1. CASE n = 1 BY <1>1
<1>2. CASE n = 2 BY <1>2
<1>3. CASE n = 4 BY <1>3
<1>4. CASE n = 8 BY <1>4
<1> QED BY <1>1, <1>2, <1>3, <1>4

LEMMA NoWrap ==
    ASSUME NEW x \in Nat, NEW limit \in Nat, x < limit
    PROVE  x % limit = x
OBVIOUS

LEMMA RequestFacts ==
    ASSUME NEW q \in Requests
    PROVE  /\ q.address \in Nat /\ q.address < AddressLimit
           /\ q.size \in {1, 2, 4, 8} /\ q.data \in [0 .. 7 -> Bytes]
           /\ q.op \in {"load", "discard", "store", "fetch"}
<1>1. /\ q.address \in Addresses /\ q.data \in Data
      /\ q.size \in {1, 2, 4, 8}
      /\ q.op \in {"load", "discard", "store", "fetch"}
  BY DEF Requests
<1>2. q.address \in Nat /\ q.address < AddressLimit
  <2>1. Addresses \subseteq 0 .. AddressLimit - 1
    BY AccessAssumption DEF AccessAssumption
  <2>2. AddressLimit \in Nat
    BY SizeAssumption DEF SizeAssumption
  <2>3. q.address \in 0 .. AddressLimit - 1
    BY <1>1, <2>1
  <2> HIDE <1>1, <2>1
  <2> QED BY <2>2, <2>3
<1>3. q.data \in [0 .. 7 -> Bytes]
  <2>1. Data \subseteq [0 .. WordSize - 1 -> Bytes]
    BY AccessAssumption DEF AccessAssumption
  <2>2. WordSize - 1 = 7
    BY DEF WordSize
  <2> QED BY <1>1, <2>1, <2>2
<1> QED BY <1>1, <1>2, <1>3

\* What the interpreter lets through lies in the memory.
LEMMA InRangeFacts ==
    ASSUME NEW q \in Requests, InRange(q.address, q.size)
    PROVE  q.address + q.size <= Size
<1>1. q.address \in Nat /\ q.size \in Nat /\ q.size <= 8 /\ q.address <= Size
  BY RequestFacts DEF InRange
<1>2. q.address + q.size < AddressLimit
  BY <1>1, SizeAssumption DEF SizeAssumption, WordSize
<1>3. (q.address + q.size) % AddressLimit = q.address + q.size
  BY <1>1, <1>2, NoWrap, SizeAssumption DEF SizeAssumption
<1> QED BY <1>3 DEF InRange

\* What translated code lets through lies in the words of the memory.
LEMMA AcceptedFacts ==
    ASSUME NEW q \in Requests, Accepted(q)
    PROVE  /\ q.address + q.size <= Padded
           /\ Size % 8 = 0 => q.address + q.size <= Size
<1>1. q.address \in Nat /\ q.size \in {1, 2, 4, 8}
  BY RequestFacts
<1>2. q.address % q.size = 0 /\ q.address < Size /\ q.address < Padded
  BY <1>1, PaddedFacts DEF Accepted
<1>3. q.address + q.size <= Padded
  BY <1>1, <1>2, PaddedFacts, AlignedEnds
<1> QED BY <1>3, PaddedFacts

LEMMA RangeFacts ==
    ASSUME NEW r \in Ranges
    PROVE  /\ r[1] \in Nat /\ r[2] \in Nat
           /\ InRange(r[1], r[2]) /\ ~Wraps(r) => r[1] + r[2] <= Size
<1>1. AddressLimit \in Nat
  BY SizeAssumption DEF SizeAssumption
<1>2. r \in (0 .. AddressLimit - 1) \X (0 .. AddressLimit - 1)
  BY RangesAssumption DEF RangesAssumption
<1>3. r[1] \in Nat /\ r[2] \in Nat
  BY <1>1, <1>2
<1>4. ASSUME InRange(r[1], r[2]), ~Wraps(r)
      PROVE  r[1] + r[2] <= Size
  <2>1. r[1] + r[2] < AddressLimit
    BY <1>1, <1>3, <1>4 DEF Wraps
  <2>2. (r[1] + r[2]) % AddressLimit = r[1] + r[2]
    BY <1>1, <1>3, <2>1, NoWrap
  <2> QED BY <1>4, <2>2 DEF InRange
<1> QED BY <1>3, <1>4

\* The embedder goes on, or has run over the end.
LEMMA EndedFacts ==
    ASSUME NEW r \in Ranges, path = "idle", Ended(r)
    PROVE  /\ path' \in {"idle", "overrun"}
           /\ outcome' \in {"refused", "undefined", "done"}
           /\ path' # "overrun" => ~InRange(r[1], r[2]) \/ ~Wraps(r)
BY DEF Ended
-----------------------------------------------------------------------------
(***************************************************************************)
(* Types.                                                                  *)
(***************************************************************************)
LEMMA LoadedType ==
    ASSUME TypeOK, NEW q \in Requests, q.address + q.size <= Padded
    PROVE  [i \in 0 .. q.size - 1 |-> contents[q.address + i]]
              \in UNION {[0 .. n - 1 -> Bytes] : n \in {0, 1, 2, 4, 8}}
<1>1. q.address \in Nat /\ q.size \in {1, 2, 4, 8}
  BY RequestFacts
<1>2. \A i \in 0 .. q.size - 1 : contents[q.address + i] \in Bytes
  <2> SUFFICES ASSUME NEW i \in 0 .. q.size - 1
               PROVE  contents[q.address + i] \in Bytes
    OBVIOUS
  <2>1. q.address + i \in 0 .. Padded - 1
    BY <1>1, PaddedFacts
  <2> QED BY <2>1 DEF TypeOK
<1>3. [i \in 0 .. q.size - 1 |-> contents[q.address + i]]
         \in [0 .. q.size - 1 -> Bytes]
  BY <1>2
<1> QED BY <1>1, <1>3

LEMMA PerformType ==
    ASSUME TypeOK, NEW q \in Requests, q.address + q.size <= Padded, Perform(q)
    PROVE  TypeOK'
<1>1. contents' \in [0 .. Padded - 1 -> Bytes]
  <2> SUFFICES ASSUME NEW i \in 0 .. Padded - 1
               PROVE  (IF q.op = "store" /\ i \in Place(q.address, q.size)
                       THEN q.data[i - q.address] ELSE contents[i]) \in Bytes
    BY DEF Perform
  <2>1. CASE i \in Place(q.address, q.size)
    <3>1. i - q.address \in 0 .. 7
      BY <2>1, RequestFacts DEF Place
    <3>2. q.data[i - q.address] \in Bytes
      BY <3>1, RequestFacts
    <3> QED BY <3>2 DEF TypeOK
  <2>2. CASE i \notin Place(q.address, q.size)
    BY <2>2 DEF TypeOK
  <2> QED BY <2>1, <2>2
<1>2. /\ permissions' \in [0 .. Padded - 1 -> SUBSET Flags]
      /\ path' = "idle" /\ request' = NoRequest
  BY DEF Perform, Finish, TypeOK, Padded
<1>3. outcome' \in {"stored", "discarded", "loaded"}
  BY DEF Perform
<1>4. loaded' \in UNION {[0 .. n - 1 -> Bytes] : n \in {0, 1, 2, 4, 8}}
  <2>1. loaded' = loaded
        \/ loaded' = [i \in 0 .. q.size - 1 |-> contents[q.address + i]]
    BY DEF Perform
  <2> QED BY <2>1, LoadedType DEF TypeOK
<1> QED BY <1>1, <1>2, <1>3, <1>4 DEF TypeOK, Padded

LEMMA InitType == Init => TypeOK
<1> SUFFICES ASSUME Init PROVE TypeOK
  OBVIOUS
<1>1. contents \in [0 .. Padded - 1 -> Bytes]
  BY AccessAssumption DEF Init, AccessAssumption
<1>2. permissions \in [0 .. Padded - 1 -> SUBSET Flags]
  BY DEF Init
<1>3. <<>> \in [0 .. 0 - 1 -> Bytes]
  OBVIOUS
<1>4. loaded \in UNION {[0 .. n - 1 -> Bytes] : n \in {0, 1, 2, 4, 8}}
  BY <1>3 DEF Init
<1> QED BY <1>1, <1>2, <1>4 DEF Init, TypeOK

LEMMA NextType == TypeOK /\ [Next]_vars => TypeOK'
<1> SUFFICES ASSUME TypeOK, [Next]_vars PROVE TypeOK'
  OBVIOUS
<1>1. CASE Write
  <2>1. PICK r \in Ranges, d \in Data :
          /\ contents' = [i \in 0 .. Padded - 1 |->
                            IF InRange(r[1], r[2]) /\ i \in Place(r[1], r[2])
                            THEN d[(i - r[1]) % WordSize] ELSE contents[i]]
          /\ permissions' = [i \in 0 .. Padded - 1 |->
                               IF InRange(r[1], r[2]) /\ Wraps(r)
                               THEN FlagsOf(d[(Padded + i - r[1]) % WordSize])
                               ELSE permissions[i]]
          /\ Ended(r)
    BY <1>1 DEF Write
  <2>2. contents' \in [0 .. Padded - 1 -> Bytes]
    <3>1. ASSUME NEW i \in 0 .. Padded - 1
          PROVE  d[(i - r[1]) % WordSize] \in Bytes
      <4>1. i \in Int /\ r[1] \in Nat
        BY RangeFacts
      <4>2. (i - r[1]) % WordSize \in 0 .. WordSize - 1
        BY <4>1 DEF WordSize
      <4>3. d \in [0 .. WordSize - 1 -> Bytes]
        BY AccessAssumption DEF AccessAssumption
      <4> QED BY <4>2, <4>3
    <3> QED BY <2>1, <3>1 DEF TypeOK
  <2>3. permissions' \in [0 .. Padded - 1 -> SUBSET Flags]
    <3>1. \A byte : FlagsOf(byte) \in SUBSET Flags
      BY DEF FlagsOf
    <3> QED BY <2>1, <3>1 DEF TypeOK
  <2>4. UNCHANGED <<request, loaded>> /\ path = "idle"
    BY <1>1 DEF Write
  <2>5. /\ path' \in {"idle", "overrun"}
        /\ outcome' \in {"refused", "undefined", "done"}
    BY <2>1, <2>4, EndedFacts
  <2> QED BY <2>2, <2>3, <2>4, <2>5 DEF TypeOK, Padded
<1>2. CASE SetPermissions
  <2>1. PICK r \in Ranges, f \in FlagSets :
          /\ permissions' = [i \in 0 .. Padded - 1 |->
                               IF InRange(r[1], r[2]) /\ i \in Place(r[1], r[2])
                               THEN f ELSE permissions[i]]
          /\ Ended(r)
    BY <1>2 DEF SetPermissions
  <2>2. permissions' \in [0 .. Padded - 1 -> SUBSET Flags]
    <3>1. f \in SUBSET Flags
      BY RangesAssumption DEF RangesAssumption
    <3> QED BY <2>1, <3>1 DEF TypeOK
  <2>3. UNCHANGED <<contents, request, loaded>> /\ path = "idle"
    BY <1>2 DEF SetPermissions
  <2>4. /\ path' \in {"idle", "overrun"}
        /\ outcome' \in {"refused", "undefined", "done"}
    BY <2>1, <2>3, EndedFacts
  <2> QED BY <2>2, <2>3, <2>4 DEF TypeOK, Padded
<1>3. CASE Access
  <2>1. <<>> \in [0 .. 0 - 1 -> Bytes]
    OBVIOUS
  <2>2. loaded' \in UNION {[0 .. n - 1 -> Bytes] : n \in {0, 1, 2, 4, 8}}
    BY <1>3, <2>1 DEF Access
  <2>3. /\ request' \in Requests /\ outcome' = "pending"
        /\ path' \in {"interpreted", "translated"}
        /\ UNCHANGED <<contents, permissions>>
    BY <1>3 DEF Access
  <2> QED BY <2>2, <2>3 DEF TypeOK, Padded
<1>4. CASE Translated
  BY <1>4, AcceptedFacts, PerformType DEF Translated, TypeOK
<1>5. CASE TranslatedAway
  BY <1>5 DEF TranslatedAway, Finish, TypeOK, Padded
<1>6. CASE FallBack
  BY <1>6 DEF FallBack, TypeOK, Padded
<1>7. CASE Interpreted
  <2>1. request \in Requests
    BY <1>7 DEF Interpreted, TypeOK
  <2>2. request.address + request.size <= Size
    BY <1>7, <2>1, InRangeFacts DEF Interpreted, Checked
  <2>3. request.address + request.size <= Padded
    BY <2>1, <2>2, RequestFacts, PaddedFacts
  <2> QED BY <1>7, <2>1, <2>3, PerformType DEF Interpreted
<1>8. CASE Fault
  BY <1>8 DEF Fault, Finish, TypeOK, Padded
<1>9. CASE Overrun \/ UNCHANGED vars
  BY <1>9 DEF Overrun, vars, TypeOK, Padded
<1> QED
  BY <1>1, <1>2, <1>3, <1>4, <1>5, <1>6, <1>7, <1>8, <1>9 DEF Next

(***************************************************************************)
(* Every byte, request and outcome is what it should be; a load never      *)
(* reads what is not there, or its bytes would have no type.               *)
(***************************************************************************)
THEOREM TypeCorrect == Spec => []TypeOK
BY InitType, NextType, PTL DEF Spec
-----------------------------------------------------------------------------
(***************************************************************************)
(* The padding, and the bounds of translated accesses.                     *)
(***************************************************************************)
LEMMA PaddingPerform ==
    ASSUME TypeOK, PaddingIsUntouched, path # "overrun", NEW q \in Requests,
           q.address + q.size <= Size, Perform(q)
    PROVE  PaddingIsUntouched'
<1> SUFFICES ASSUME NEW i \in Size .. Padded - 1
             PROVE  contents'[i] = 0 /\ permissions'[i] = {}
  BY DEF PaddingIsUntouched, Padded
<1>1. i \notin Place(q.address, q.size) /\ i \in 0 .. Padded - 1
  BY RequestFacts, PaddedFacts DEF Place
<1>2. contents'[i] = contents[i] /\ permissions'[i] = permissions[i]
  BY <1>1 DEF Perform
<1> QED BY <1>2 DEF PaddingIsUntouched

\* What makes the alignment check of translated code enough: a whole number of
\* words, or a padding that allows nothing.
LEMMA AcceptedInBounds ==
    ASSUME Sound, TypeOK, PaddingIsUntouched, path # "overrun",
           NEW q \in Requests, Accepted(q)
    PROVE  q.address + q.size <= Size
<1>1. CASE Size % WordSize = 0
  BY <1>1, AcceptedFacts DEF WordSize
<1>2. CASE ~SkipPermissionChecks
  <2> SUFFICES ASSUME ~(q.address + q.size <= Size) PROVE FALSE
    OBVIOUS
  <2>1. Size \in Place(q.address, q.size) /\ Size \in Size .. Padded - 1
    BY RequestFacts, AcceptedFacts, PaddedFacts DEF Accepted, Place
  <2>2. Needs(q) \in permissions[Size]
    BY <1>2, <2>1 DEF Accepted, Permitted
  <2>3. permissions[Size] = {}
    BY <2>1 DEF PaddingIsUntouched
  <2> QED BY <2>2, <2>3
<1> QED BY <1>1, <1>2 DEF Sound

LEMMA NextPadding ==
    Sound /\ TypeOK /\ PaddingIsUntouched /\ [Next]_vars => PaddingIsUntouched'
<1> SUFFICES ASSUME Sound, TypeOK, PaddingIsUntouched, [Next]_vars
             PROVE  PaddingIsUntouched'
  OBVIOUS
<1>1. CASE Write
  <2> SUFFICES ASSUME path' # "overrun", NEW i \in Size .. Padded - 1
               PROVE  contents'[i] = 0 /\ permissions'[i] = {}
    BY DEF PaddingIsUntouched, Padded
  <2>1. PICK r \in Ranges, d \in Data :
          /\ contents' = [k \in 0 .. Padded - 1 |->
                            IF InRange(r[1], r[2]) /\ k \in Place(r[1], r[2])
                            THEN d[(k - r[1]) % WordSize] ELSE contents[k]]
          /\ permissions' = [k \in 0 .. Padded - 1 |->
                               IF InRange(r[1], r[2]) /\ Wraps(r)
                               THEN FlagsOf(d[(Padded + k - r[1]) % WordSize])
                               ELSE permissions[k]]
          /\ Ended(r)
    BY <1>1 DEF Write
  <2>2. path = "idle" /\ (~InRange(r[1], r[2]) \/ ~Wraps(r))
    BY <1>1, <2>1, EndedFacts DEF Write
  <2>3. InRange(r[1], r[2]) => i \notin Place(r[1], r[2])
    BY <2>2, RangeFacts, PaddedFacts DEF Place
  <2>4. i \in 0 .. Padded - 1
    BY PaddedFacts
  <2>5. contents'[i] = contents[i] /\ permissions'[i] = permissions[i]
    BY <2>1, <2>2, <2>3, <2>4
  <2> QED BY <2>2, <2>5 DEF PaddingIsUntouched
<1>2. CASE SetPermissions
  <2> SUFFICES ASSUME path' # "overrun", NEW i \in Size .. Padded - 1
               PROVE  contents'[i] = 0 /\ permissions'[i] = {}
    BY DEF PaddingIsUntouched, Padded
  <2>1. PICK r \in Ranges, f \in FlagSets :
          /\ permissions' = [k \in 0 .. Padded - 1 |->
                               IF InRange(r[1], r[2]) /\ k \in Place(r[1], r[2])
                               THEN f ELSE permissions[k]]
          /\ Ended(r)
    BY <1>2 DEF SetPermissions
  <2>2. path = "idle" /\ (~InRange(r[1], r[2]) \/ ~Wraps(r))
    BY <1>2, <2>1, EndedFacts DEF SetPermissions
  <2>3. InRange(r[1], r[2]) => i \notin Place(r[1], r[2])
    BY <2>2, RangeFacts, PaddedFacts DEF Place
  <2>4. i \in 0 .. Padded - 1
    BY PaddedFacts
  <2>5. contents' = contents /\ permissions'[i] = permissions[i]
    BY <1>2, <2>1, <2>3, <2>4 DEF SetPermissions
  <2> QED BY <2>2, <2>5 DEF PaddingIsUntouched
<1>3. CASE Translated
  <2>1. request \in Requests
    BY <1>3 DEF Translated, TypeOK
  <2> QED BY <1>3, <2>1, AcceptedInBounds, PaddingPerform DEF Translated
<1>4. CASE Interpreted
  <2>1. request \in Requests
    BY <1>4 DEF Interpreted, TypeOK
  <2> QED BY <1>4, <2>1, InRangeFacts, PaddingPerform DEF Interpreted, Checked
<1>5. CASE \/ Access \/ TranslatedAway \/ FallBack \/ Fault
           \/ Overrun \/ UNCHANGED vars
  <2>1. /\ UNCHANGED <<contents, permissions>>
        /\ path = "overrun" => path' = path
    BY <1>5 DEF Access, TranslatedAway, FallBack, Fault, Overrun, vars
  <2> QED BY <2>1 DEF PaddingIsUntouched, Padded
<1> QED BY <1>1, <1>2, <1>3, <1>4, <1>5 DEF Next

LEMMA InitPadding == Init => PaddingIsUntouched
<1> SUFFICES ASSUME Init, NEW i \in Size .. Padded - 1
             PROVE  contents[i] = 0 /\ permissions[i] = {}
  BY DEF PaddingIsUntouched
<1>1. i \in 0 .. Padded - 1
  BY PaddedFacts
<1> QED BY <1>1 DEF Init

(***************************************************************************)
(* Nothing is ever written to, or allowed in, the padding, whatever a      *)
(* guest accesses and the embedder writes and allows, for 64 bit addresses *)
(* and sizes of any value: until a range of the embedder wraps around      *)
(* 2^64, where what is defined ends.                                       *)
(***************************************************************************)
THEOREM PaddingCorrect == Sound => (Spec => []PaddingIsUntouched)
<1> SUFFICES ASSUME Sound PROVE Spec => []PaddingIsUntouched
  OBVIOUS
<1>1. Init => TypeOK /\ PaddingIsUntouched
  BY InitType, InitPadding
<1>2. (TypeOK /\ PaddingIsUntouched) /\ [Next]_vars
         => (TypeOK /\ PaddingIsUntouched)'
  BY NextType, NextPadding
<1> QED BY <1>1, <1>2, PTL DEF Spec

(***************************************************************************)
(* The comment of both code generators is right under Sound: alignment and *)
(* the start of an access keep all of it inside the memory.                *)
(***************************************************************************)
THEOREM BoundsCorrect == Sound => (Spec => []InBounds)
<1> SUFFICES ASSUME Sound PROVE Spec => []InBounds
  OBVIOUS
<1>1. TypeOK /\ PaddingIsUntouched => InBounds
  BY AcceptedInBounds DEF InBounds, TypeOK
<1> QED BY <1>1, TypeCorrect, PaddingCorrect, PTL
-----------------------------------------------------------------------------
(***************************************************************************)
(* Refinement: to the guest both paths to memory are GuestMemory.          *)
(***************************************************************************)
FetchesAreInterpreted == path = "translated" => request.op # "fetch"

LEMMA NextFetches ==
    FetchesAreInterpreted /\ [Next]_vars => FetchesAreInterpreted'
BY DEF FetchesAreInterpreted, Next, Write, SetPermissions, Ended, Access,
       Translated, TranslatedAway, FallBack, Interpreted, Fault, Perform,
       Finish, Overrun, vars

\* Nothing comes after what is undefined.
DefinedBefore == outcome = "undefined" => path = "overrun"

LEMMA NextDefined == DefinedBefore /\ [Next]_vars => DefinedBefore'
BY DEF DefinedBefore, Next, Write, SetPermissions, Ended, Access, Translated,
       TranslatedAway, FallBack, Interpreted, Fault, Perform, Finish, Overrun,
       vars

\* The part of the words that is the guest's.
GuestContents == [i \in 0 .. Size - 1 |-> contents[i]]
GuestPermissions == [i \in 0 .. Size - 1 |-> permissions[i]]

LEMMA InitRefines == Init => Guest!Init
<1> SUFFICES ASSUME Init PROVE Guest!Init
  OBVIOUS
<1>1. \A i \in 0 .. Size - 1 : i \in 0 .. Padded - 1
  BY PaddedFacts
<1>2. GuestContents = [i \in 0 .. Size - 1 |-> 0]
  BY <1>1 DEF Init, GuestContents
<1>3. GuestPermissions = [i \in 0 .. Size - 1 |-> {}]
  BY <1>1 DEF Init, GuestPermissions
<1> QED BY <1>2, <1>3 DEF Init, Guest!Init, GuestContents, GuestPermissions

\* The checks, on bytes that exist, are those of GuestMemory.
LEMMA GoodRefines ==
    ASSUME NEW q \in Requests
    PROVE  /\ Guest!Exists(q) <=> q.address + q.size <= Size
           /\ q.address + q.size <= Size =>
                 (Guest!Allows(q) <=> Permitted(q))
<1>1. Guest!Exists(q) <=> q.address + q.size <= Size
  BY DEF Guest!Exists
<1>2. ASSUME q.address + q.size <= Size
      PROVE  Guest!Allows(q) <=> Permitted(q)
  <2>1. \A i \in Place(q.address, q.size) : i \in 0 .. Size - 1
    BY <1>2, RequestFacts, PaddedFacts DEF Place
  <2>2. Guest!Needs(q) = Needs(q)
    BY DEF Guest!Needs, Needs
  <2>3. Guest!Place(q) = Place(q.address, q.size)
    BY DEF Guest!Place, Place
  <2> QED BY <2>1, <2>2, <2>3 DEF Guest!Allows, Permitted
<1> QED BY <1>1, <1>2

LEMMA PerformRefines ==
    ASSUME TypeOK, request \in Requests,
           request.address + request.size <= Size,
           \/ Permitted(request)
           \/ SkipPermissionChecks /\ request.op # "fetch",
           Perform(request)
    PROVE  Guest!Answer
<1>1. request # NoRequest /\ request' = NoRequest
  BY NoRequestAssumption DEF NoRequestAssumption, Perform, Finish
<1>2. \/ Guest!Good(request)
      \/ SkipPermissionChecks /\ Guest!Exists(request) /\ request.op # "fetch"
  BY GoodRefines DEF Guest!Good
<1>3. \A i \in 0 .. request.size - 1 : request.address + i \in 0 .. Size - 1
  BY RequestFacts, PaddedFacts
<1>4. [i \in 0 .. request.size - 1 |-> contents[request.address + i]]
        = [i \in 0 .. request.size - 1 |-> GuestContents[request.address + i]]
  BY <1>3 DEF GuestContents
<1>5. GuestContents'
        = [i \in 0 .. Size - 1 |->
             IF request.op = "store" /\ i \in Guest!Place(request)
             THEN request.data[i - request.address] ELSE GuestContents[i]]
  <2>1. \A i \in 0 .. Size - 1 : i \in 0 .. Padded - 1
    BY PaddedFacts
  <2>2. Guest!Place(request) = Place(request.address, request.size)
    BY DEF Guest!Place, Place
  <2>3. \A i \in 0 .. Size - 1 :
          contents'[i] = IF /\ request.op = "store"
                            /\ i \in Place(request.address, request.size)
                         THEN request.data[i - request.address]
                         ELSE contents[i]
    BY <2>1 DEF Perform
  <2> QED BY <2>2, <2>3 DEF GuestContents
<1>6. GuestPermissions' = GuestPermissions
  BY DEF Perform, GuestPermissions
<1>7. outcome' = CASE request.op = "store" -> "stored"
                   [] request.op = "discard" -> "discarded"
                   [] OTHER -> "loaded"
  BY DEF Perform
<1>8. loaded' = IF request.op \in {"store", "discard"} THEN loaded
                ELSE [i \in 0 .. request.size - 1 |->
                         GuestContents[request.address + i]]
  BY <1>4 DEF Perform
<1> QED
  BY <1>1, <1>2, <1>5, <1>6, <1>7, <1>8
     DEF Guest!Answer, GuestContents, GuestPermissions

\* What the embedder changes is still of the type of the guest's memory.
LEMMA OutsideRefines ==
    ASSUME TypeOK, TypeOK', DefinedBefore, Write \/ SetPermissions
    PROVE  Guest!Outside
<1>1. request = NoRequest /\ outcome # "undefined"
  BY DEF Write, SetPermissions, TypeOK, DefinedBefore
<1>2. \A i \in 0 .. Size - 1 : i \in 0 .. Padded - 1
  BY PaddedFacts
<1>3. GuestContents' \in [0 .. Size - 1 -> Bytes]
  <2>1. contents' \in [0 .. Padded - 1 -> Bytes]
    BY DEF TypeOK, Padded
  <2> QED BY <1>2, <2>1 DEF GuestContents
<1>4. GuestPermissions' \in [0 .. Size - 1 -> SUBSET Flags]
  <2>1. permissions' \in [0 .. Padded - 1 -> SUBSET Flags]
    BY DEF TypeOK, Padded
  <2> QED BY <1>2, <2>1 DEF GuestPermissions
<1>5. UNCHANGED <<request, loaded>>
      /\ outcome' \in {"done", "refused", "undefined"}
  BY DEF Write, SetPermissions, Ended
<1> QED
  BY <1>1, <1>3, <1>4, <1>5
     DEF Guest!Outside, GuestContents, GuestPermissions, Flags

LEMMA NextRefines ==
    ASSUME Sound, TypeOK, TypeOK', PaddingIsUntouched, FetchesAreInterpreted,
           DefinedBefore, [Next]_vars
    PROVE  [Guest!Next]_(Guest!vars)
<1>1. path \in {"translated", "interpreted"}
         => request \in Requests /\ request # NoRequest
  BY NoRequestAssumption DEF NoRequestAssumption, TypeOK
<1>2. CASE Write \/ SetPermissions
  BY <1>2, OutsideRefines DEF Guest!Next
<1>3. CASE Access
  <2>1. request = NoRequest /\ outcome # "undefined"
    BY <1>3 DEF Access, TypeOK, DefinedBefore
  <2>2. GuestContents' = GuestContents /\ GuestPermissions' = GuestPermissions
    BY <1>3 DEF Access, GuestContents, GuestPermissions
  <2>3. Guest!Access
    BY <1>3, <2>1, <2>2 DEF Access, Guest!Access, GuestContents,
                            GuestPermissions
  <2> QED BY <2>3 DEF Guest!Next
<1>4. CASE Translated
  <2>1. request \in Requests
    BY <1>1, <1>4 DEF Translated
  <2>2. request.address + request.size <= Size
    BY <1>4, <2>1, AcceptedInBounds DEF Translated
  <2>3. \/ Permitted(request)
        \/ SkipPermissionChecks /\ request.op # "fetch"
    BY <1>4 DEF Translated, Accepted, FetchesAreInterpreted
  <2>4. Guest!Answer
    BY <1>4, <2>1, <2>2, <2>3, PerformRefines DEF Translated
  <2> QED BY <2>4 DEF Guest!Next
<1>5. CASE TranslatedAway
  <2>1. GuestContents' = GuestContents /\ GuestPermissions' = GuestPermissions
    BY <1>5 DEF TranslatedAway, GuestContents, GuestPermissions
  <2>2. Guest!Discard
    BY <1>1, <1>5, <2>1 DEF TranslatedAway, Finish, Guest!Discard,
                            GuestContents, GuestPermissions
  <2> QED BY <2>2 DEF Guest!Next
<1>6. CASE Interpreted
  <2>1. request \in Requests
    BY <1>1, <1>6 DEF Interpreted
  <2>2. request.address + request.size <= Size /\ Permitted(request)
    BY <1>6, <2>1, InRangeFacts DEF Interpreted, Checked
  <2>3. Guest!Answer
    BY <1>6, <2>1, <2>2, PerformRefines DEF Interpreted
  <2> QED BY <2>3 DEF Guest!Next
<1>7. CASE Fault
  <2>1. request \in Requests
    BY <1>1, <1>7 DEF Fault
  <2>2. ~Guest!Good(request)
    <3> SUFFICES ASSUME Guest!Good(request) PROVE FALSE
      OBVIOUS
    <3>1. request.address + request.size <= Size /\ Permitted(request)
      BY <2>1, GoodRefines DEF Guest!Good
    <3>2. InRange(request.address, request.size)
      <4>1. /\ request.address \in Nat /\ request.size \in Nat
            /\ request.address <= Size
            /\ request.address + request.size < AddressLimit
        BY <2>1, <3>1, RequestFacts, SizeAssumption
           DEF SizeAssumption, WordSize
      <4>2. (request.address + request.size) % AddressLimit
              = request.address + request.size
        BY <4>1, NoWrap, SizeAssumption DEF SizeAssumption
      <4> QED BY <3>1, <4>1, <4>2 DEF InRange
    <3> QED BY <1>7, <3>1, <3>2 DEF Fault, Checked
  <2>3. GuestContents' = GuestContents /\ GuestPermissions' = GuestPermissions
    BY <1>7 DEF Fault, GuestContents, GuestPermissions
  <2>4. Guest!Fault
    BY <1>1, <1>7, <2>2, <2>3 DEF Fault, Finish, Guest!Fault, GuestContents,
                                  GuestPermissions
  <2> QED BY <2>4 DEF Guest!Next
<1>8. CASE FallBack \/ Overrun \/ UNCHANGED vars
  <2>1. UNCHANGED <<contents, permissions, request, outcome, loaded>>
    BY <1>8 DEF FallBack, Overrun, vars
  <2>2. UNCHANGED Guest!vars
    BY <2>1 DEF Guest!vars
  <2> QED BY <2>2
<1> QED BY <1>2, <1>3, <1>4, <1>5, <1>6, <1>7, <1>8 DEF Next

(***************************************************************************)
(* The interpreter, translated code and the fall back from the one to the  *)
(* other implement one memory whose accesses succeed exactly when they     *)
(* should.                                                                 *)
(***************************************************************************)
THEOREM RefinementCorrect == Sound => (Spec => ImplementsGuestMemory)
<1> SUFFICES ASSUME Sound PROVE Spec => ImplementsGuestMemory
  OBVIOUS
<1>1. Init => FetchesAreInterpreted /\ DefinedBefore
  BY DEF Init, FetchesAreInterpreted, DefinedBefore
<1>2. Spec => [](FetchesAreInterpreted /\ DefinedBefore)
  BY <1>1, NextFetches, NextDefined, PTL DEF Spec
<1>3. TypeOK /\ TypeOK' /\ PaddingIsUntouched /\ FetchesAreInterpreted
        /\ DefinedBefore /\ [Next]_vars => [Guest!Next]_(Guest!vars)
  BY NextRefines
<1> QED
  BY <1>2, <1>3, InitRefines, TypeCorrect, PaddingCorrect, PTL
     DEF Spec, Guest!Spec, ImplementsGuestMemory
=============================================================================
