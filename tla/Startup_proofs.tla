--------------------------- MODULE Startup_proofs ---------------------------
(***************************************************************************)
(* For every program header and every size of memory, file and page: what  *)
(* may be executed is in the translation table, and the image is in the    *)
(* memory, whatever runs afterwards.  For every number of Vms and every    *)
(* block, exit and memory: who calls translated code gets back what the    *)
(* ABI of its host owes it.                                                *)
(***************************************************************************)
EXTENDS Startup, TLAPS, SequenceTheorems, WellFoundedInduction

\* The sizes of the image and the table are rounded up.
LEMMA Division ==
    ASSUME NEW n \in Int, NEW d \in Nat \ {0}
    PROVE  /\ n \div d \in Int /\ n % d \in 0 .. d - 1
           /\ n = d * (n \div d) + (n % d)
  BY SMT

LEMMA RoundingUp ==
    ASSUME NEW n \in Int, NEW d \in Nat \ {0}
    PROVE  ((n + d - 1) \div d) * d \in Int /\ ((n + d - 1) \div d) * d >= n
  <1> DEFINE m == n + d - 1
             q == m \div d
  <1>1. q \in Int /\ m % d \in 0 .. d - 1 /\ m = d * q + (m % d)
    BY Division
  <1>2. m - (m % d) = d * q /\ m - (m % d) >= n  BY <1>1
  <1>3. d * q = q * d /\ q * d \in Int  BY <1>1
  <1> QED  BY <1>1, <1>2, <1>3

LEMMA InTable ==
    ASSUME NEW a \in Nat, NEW n \in Int, a < n, NEW d \in Nat \ {0}
    PROVE  a \div d < (n + d - 1) \div d
  <1> DEFINE q == (n + d - 1) \div d
             p == a \div d
  <1>1. q \in Int /\ q * d >= n  BY RoundingUp, Division
  <1>2. p \in Int /\ a = d * p + (a % d) /\ a % d \in 0 .. d - 1  BY Division
  <1>3. SUFFICES ASSUME q <= p PROVE FALSE  BY <1>1, <1>2
  <1>4. q * d <= p * d  BY <1>1, <1>2, <1>3
  <1>5. p * d <= a  BY <1>2
  <1> QED  BY <1>1, <1>4, <1>5

LEMMA AtLeastAPage ==
    ASSUME NEW n \in Nat \ {0}, NEW d \in Nat \ {0}, n % d = 0
    PROVE  n >= d
  <1>1. n \div d \in Int /\ n = d * (n \div d)  BY Division
  <1>2. SUFFICES ASSUME n \div d <= 0 PROVE FALSE
    <2>1. CASE n \div d >= 1
      <3>1. d * (n \div d) >= d * 1  BY <1>1, <2>1
      <3> QED  BY <1>1, <3>1
    <2> QED  BY <1>1, <2>1
  <1>3. d * (n \div d) <= 0  BY <1>1, <1>2
  <1> QED  BY <1>1, <1>3

\* No number of pages is in the last one of the address space, but all of them.
LEMMA NotInLastPage ==
    ASSUME NEW d \in Nat \ {0}, NEW limit \in Nat, limit % d = 0,
           NEW a \in Nat, a % d = 0, NEW q \in Int, a + q * d < limit
    PROVE  a + q * d <= limit - d
  <1> DEFINE k == limit \div d
             b == a \div d
  <1>1. k \in Int /\ limit = d * k  BY Division
  <1>2. b \in Int /\ a = d * b  BY Division
  <1> HIDE DEF k, b
  <1>3. d * (k - b - q) = limit - (a + q * d)  BY <1>1, <1>2
  <1>4. k - b - q \in Int /\ d * (k - b - q) > 0  BY <1>1, <1>2, <1>3
  <1>5. k - b - q >= 1
    <2>1. SUFFICES ASSUME k - b - q <= 0 PROVE FALSE  BY <1>4
    <2>2. d * (k - b - q) <= 0  BY <1>4, <2>1
    <2> QED  BY <1>4, <2>2
  <1>6. d * (k - b - q) >= d * 1  BY <1>4, <1>5
  <1> QED  BY <1>3, <1>6

LEMMA Unwrapped ==
    ASSUME NEW n \in Int
    PROVE  /\ U64(n) \in Unsigned
           /\ n \in Unsigned => U64(n) = n
  BY LoaderAssumption DEF U64, Unsigned

-----------------------------------------------------------------------------
Loading == loader_at \in {"loading", "loaded"}
Mine(i) == headers[i].loadable /\ Alone(i)

\* While headers are read: what they have left in the memory so far.
Executables == Loading =>
    \A a \in Memory : "execute" \in permissions[a] => a < end_address
Unread == loader_at = "loading" => \A i \in Indexes : Mine(i) /\ i >= next =>
    \A a \in Place(headers[i]) \intersect Memory : contents[a] = 0
Present(i) == Place(headers[i]) \subseteq Memory /\ HasItsContents(headers[i])
Permitted(i) == \A a \in Place(headers[i]) :
    permissions[a] = {"read"} \union headers[i].flags
Read == loader_at # "stopped" => \A i \in Indexes : Mine(i) /\ i < next =>
    Present(i) /\ (Loading => Permitted(i))
AllRead == loader_at \in {"loaded", "ready"} => next > Len(headers)
BaseIsAPage == base_address % PageSize = 0 /\ base_address <= end_address

LoaderInv == LoaderTypeOK /\ Executables /\ Unread /\ Read /\ AllRead /\ BaseIsAPage

\* Below AddressLimit a number is what it is.
LEMMA FieldsAre ==
    ASSUME NEW h \in HeaderType
    PROVE  /\ h.memory_address \in Nat /\ h.memory_size \in Nat
           /\ h.file_offset \in Nat /\ h.file_size \in Nat
           /\ h.memory_address < AddressLimit /\ h.file_offset < AddressLimit
           /\ h.flags \subseteq {"write", "execute"}
           /\ DataSize(h) \in Nat
  <1>1. Unsigned \subseteq Nat /\ \A n \in Unsigned : n < AddressLimit
    BY LoaderAssumption DEF Unsigned
  <1>2. /\ h.memory_address \in Unsigned /\ h.memory_size \in Unsigned
        /\ h.file_offset \in Unsigned /\ h.file_size \in Unsigned
        /\ h.flags \subseteq {"write", "execute"}
    BY DEF HeaderType
  <1>3. DataSize(h) \in {h.file_size, h.memory_size}  BY DEF DataSize, Smaller
  <1> QED  BY <1>1, <1>2, <1>3

LEMMA HeaderTypes ==
    ASSUME LoaderTypeOK
    PROVE  /\ Indexes = 1 .. Len(headers) /\ Len(headers) \in Nat
           /\ \A i \in Indexes :
                /\ headers[i] \in HeaderType
                /\ DataSize(headers[i]) \in Nat
                /\ DataSize(headers[i]) <= headers[i].memory_size
                /\ DataSize(headers[i]) <= headers[i].file_size
                /\ \/ DataSize(headers[i]) = headers[i].file_size
                   \/ DataSize(headers[i]) = headers[i].memory_size
  <1>1. Indexes = 1 .. Len(headers) /\ Len(headers) \in Nat
    BY DEF LoaderTypeOK, Indexes
  <1>2. \A i \in Indexes : headers[i] \in HeaderType
    BY <1>1, LoaderAssumption DEF LoaderTypeOK
  <1> QED  BY <1>1, <1>2, FieldsAre DEF DataSize, Smaller

LEMMA LoaderInitInv == LoaderInit => LoaderInv
  <1> SUFFICES ASSUME LoaderInit PROVE LoaderInv  OBVIOUS
  <1>1. headers \in Seq(ProgramHeaders)  BY LoaderAssumption DEF LoaderInit
  <1>2. 0 % PageSize = 0 /\ 0 \in Unsigned  BY LoaderAssumption DEF Unsigned
  <1>3. LoaderTypeOK
    BY <1>1, <1>2, LoaderAssumption DEF LoaderInit, LoaderTypeOK, Flags
  <1>4. Executables /\ Unread /\ Read /\ AllRead /\ BaseIsAPage
    BY <1>2, <1>3, HeaderTypes
    DEF LoaderInit, Executables, Unread, Read, AllRead, BaseIsAPage, Indexes
  <1> QED  BY <1>3, <1>4 DEF LoaderInv

\* The segment that is read now: it is in the memory, whole; and its bytes are
\* the file's, or begin before it.
LEMMA SegmentFits ==
    ASSUME LoaderTypeOK, NEW h \in HeaderType, NEW b, ~Refused(h, b), ~RunsOver(h)
    PROVE  /\ Place(h) \subseteq Memory
           /\ h.memory_address + h.memory_size \in Unsigned
           /\ BeginsBeforeFile(h) \/ h.file_offset + DataSize(h) <= FileSize
  <1> USE FieldsAre
  <1>1. h.memory_address + h.memory_size \in Unsigned
    BY LoaderAssumption DEF RunsOver, Unsigned
  <1>2. U64(h.memory_address + h.memory_size) = h.memory_address + h.memory_size
    BY <1>1, Unwrapped
  <1>3. Place(h) \subseteq Memory
    <2>1. CASE h.memory_size = 0  BY <2>1 DEF Place
    <2>2. CASE h.memory_size > 0
      <3>1. h.memory_address + h.memory_size <= MemorySize
        BY <1>2, <2>2 DEF Refused, InMemory
      <3>2. MemorySize \in Int  BY LoaderAssumption DEF Unsigned
      <3> QED  BY <3>1, <3>2 DEF Place, Memory
    <2> QED  BY <2>1, <2>2
  <1>4. ASSUME ~BeginsBeforeFile(h)
        PROVE  h.file_offset + DataSize(h) <= FileSize
    <2>1. h.file_offset + DataSize(h) \in Unsigned
      BY <1>4, LoaderAssumption DEF BeginsBeforeFile, Unsigned
    <2>2. U64(h.file_offset + DataSize(h)) <= FileSize  BY DEF Refused, InFile
    <2> QED  BY <2>1, <2>2, Unwrapped
  <1> QED  BY <1>1, <1>3, <1>4

LEMMA LoadSegmentInv ==
    ASSUME LoaderInv, LoadSegment
    PROVE  LoaderInv'
  <1> DEFINE h == headers[next]
  <1>t. LoaderTypeOK /\ loader_at = "loading" /\ loader_at' = "loading"
    BY DEF LoaderInv, LoadSegment
  <1>h. /\ next \in Indexes /\ h \in HeaderType /\ h.loadable
        /\ DataSize(h) \in Nat /\ DataSize(h) <= h.memory_size
        /\ DataSize(h) <= h.file_size
        /\ DataSize(h) = h.file_size \/ DataSize(h) = h.memory_size
    <2>1. next \in Indexes
      BY <1>t, HeaderTypes DEF LoaderTypeOK, LoadSegment
    <2> QED  BY <1>t, <2>1, HeaderTypes DEF LoadSegment
  <1>f. /\ h.memory_address \in Nat /\ h.memory_size \in Nat
        /\ h.file_offset \in Nat /\ h.file_size \in Nat
        /\ h.flags \subseteq {"write", "execute"}
    BY <1>h, FieldsAre
  <1>u. headers' = headers /\ next' = next + 1 /\ next \in Nat
    BY <1>t DEF LoadSegment, LoaderTypeOK
  <1>r. ~Refused(h, Base(h)) /\ ~RunsOver(h)
    BY DEF LoadSegment
  <1>p. /\ Place(h) \subseteq Memory
        /\ h.memory_address + h.memory_size \in Unsigned
        /\ U64(h.memory_address + h.memory_size) = h.memory_address + h.memory_size
        /\ BeginsBeforeFile(h) \/ h.file_offset + DataSize(h) <= FileSize
    <2> HIDE DEF h
    <2>1. h.memory_address + h.memory_size \in Int  BY <1>f
    <2> QED  BY <1>t, <1>h, <1>r, <2>1, SegmentFits, Unwrapped
  <1>w. \A a \in Memory : contents'[a] =
          IF a \in h.memory_address .. h.memory_address + DataSize(h) - 1
            THEN FileByte(h.file_offset + (a - h.memory_address)) ELSE contents[a]
    BY DEF LoadSegment, WriteSegment
  <1>s. \A a \in Memory : permissions'[a] =
          IF a \in Place(h) THEN {"read"} \union h.flags ELSE permissions[a]
    BY DEF LoadSegment
  <1>d. h.memory_address .. h.memory_address + DataSize(h) - 1 \subseteq Place(h)
    BY <1>f, <1>h DEF Place
  <1>o. \A i \in Indexes : Mine(i) /\ i # next =>
          Place(headers[i]) \intersect Place(h) = {}
    BY <1>h DEF Mine, Alone
  <1>l. Unsigned \subseteq Nat  BY LoaderAssumption DEF Unsigned
  <1>a. /\ base_address' = Base(h) /\ base_address' \in Unsigned
        /\ end_address' = Larger(end_address, h.memory_address + h.memory_size)
        /\ end_address' \in Unsigned
    <2>1. h.memory_address \in Unsigned  BY <1>h DEF HeaderType
    <2>2. base_address' = Base(h) /\ end_address' = End(h)  BY DEF LoadSegment
    <2>3. base_address \in Unsigned /\ end_address \in Unsigned
      BY <1>t DEF LoaderTypeOK
    <2> HIDE DEF h
    <2> QED  BY <1>p, <2>1, <2>2, <2>3 DEF Base, End, Larger
  <1>e. base_address' \in Nat /\ end_address' \in Nat /\ end_address \in Nat
    BY <1>a, <1>l, <1>t DEF LoaderTypeOK
  <1>1. LoaderTypeOK'
    <2>1. contents' \in [Memory -> Nat]
      <3>1. \A a \in h.memory_address .. h.memory_address + DataSize(h) - 1 :
              FileByte(h.file_offset + (a - h.memory_address)) \in Nat
        <4> HIDE DEF h
        <4>1. TAKE a \in h.memory_address .. h.memory_address + DataSize(h) - 1
        <4> DEFINE o == h.file_offset + (a - h.memory_address)
        <4>2. o \in Int  BY <1>f, <1>h
        <4> HIDE DEF o
        <4>3. U64(o) \in Nat  BY <4>2, <1>l, Unwrapped
        <4>4. FileByte(o) \in Nat  BY <4>3 DEF FileByte
        <4> QED  BY <4>4 DEF o
      <3> QED  BY <1>t, <3>1 DEF LoadSegment, WriteSegment, LoaderTypeOK
    <2>2. permissions' \in [Memory -> SUBSET Flags]
      BY <1>f, <1>t DEF LoadSegment, LoaderTypeOK, Flags
    <2>4. next' \in 1 .. Len(headers) + 1
      BY <1>t, <1>u DEF LoadSegment, LoaderTypeOK
    <2> QED
      BY <1>t, <1>u, <1>a, <2>1, <2>2, <2>4 DEF LoadSegment, LoaderTypeOK, start_vars
  <1>2. Executables'
    <2>1. end_address' >= end_address /\ end_address' >= h.memory_address + h.memory_size
      <3> HIDE DEF h
      <3> QED  BY <1>f, <1>a, <1>e DEF Larger
    <2>2. \A a \in Memory : "execute" \in permissions[a] => a < end_address
      BY <1>t DEF LoaderInv, Executables, Loading
    <2>e. end_address' \in Int /\ h.memory_address + h.memory_size \in Int
      BY <1>f, <1>e
    <2>p. \A a \in Place(h) : a \in Int /\ a <= h.memory_address + h.memory_size - 1
      BY <1>f DEF Place
    <2>3. \A a \in Place(h) : a < end_address' /\ a \in Int
      <3> HIDE DEF h
      <3> QED  BY <2>1, <2>e, <2>p, <1>f
    <2>4. ASSUME NEW a \in Memory, "execute" \in permissions'[a]
          PROVE  a < end_address'
      <3>1. CASE a \in Place(h)  BY <2>3, <3>1
      <3>2. CASE a \notin Place(h)
        <4>1. a < end_address  BY <1>s, <2>2, <2>4, <3>2
        <4>2. a \in Int /\ end_address \in Int /\ end_address' \in Int
          BY <1>e, LoaderAssumption DEF Memory
        <4> QED  BY <2>1, <4>1, <4>2
      <3> QED  BY <3>1, <3>2
    <2> QED  BY <2>4 DEF Executables
  <1>3. Unread'
    <2> SUFFICES ASSUME NEW i \in Indexes, Mine(i), i >= next',
                        NEW a \in Place(headers[i]) \intersect Memory
                 PROVE  contents'[a] = 0
      BY <1>u DEF Unread, Mine, Alone, Indexes
    <2>1. i # next /\ i >= next  BY <1>u, <1>t, HeaderTypes
    <2>2. contents[a] = 0  BY <1>t, <2>1 DEF LoaderInv, Unread
    <2>3. a \notin Place(h)  BY <1>o, <2>1
    <2> QED  BY <1>w, <1>d, <2>2, <2>3
  <1>4. Read'
    <2> SUFFICES ASSUME NEW i \in Indexes, Mine(i), i < next'
                 PROVE  Present(i)' /\ Permitted(i)'
      BY <1>u DEF Read, Mine, Alone, Indexes
    <2>1. CASE i = next
      <3>1. \A a \in Place(h) : contents[a] = 0
        BY <1>t, <1>h, <1>p, <2>1, HeaderTypes DEF LoaderInv, Unread
      <3>2. ASSUME NEW a \in Place(h)
            PROVE  LET position == h.file_offset + (a - h.memory_address) IN
                   IF a - h.memory_address < h.file_size
                     THEN BeginsBeforeFile(h)
                          \/ (position < FileSize /\ contents'[a] = position + 1)
                     ELSE contents'[a] = 0
        <4>1. /\ a \in Int /\ a >= h.memory_address
              /\ a <= h.memory_address + h.memory_size - 1
          BY <1>f DEF Place
        <4>2. CASE a < h.memory_address + DataSize(h)
          <5> DEFINE position == h.file_offset + (a - h.memory_address)
          <5>1. a - h.memory_address < h.file_size  BY <4>1, <4>2, <1>f, <1>h
          <5>2. contents'[a] = FileByte(position)
            BY <4>1, <4>2, <1>w, <1>p, <1>f, <1>h
          <5>3. ASSUME ~BeginsBeforeFile(h)
                PROVE  position < FileSize /\ FileByte(position) = position + 1
            <6> HIDE DEF h
            <6>1. position \in Nat /\ position < h.file_offset + DataSize(h)
              BY <4>1, <4>2, <1>f, <1>h
            <6>2. position < FileSize
              BY <5>3, <6>1, <1>p, <1>f, <1>h, LoaderAssumption DEF Unsigned
            <6>3. position \in Unsigned
              BY <6>1, <6>2, LoaderAssumption DEF Unsigned
            <6> HIDE DEF position
            <6>4. U64(position) = position  BY <6>1, <6>3, Unwrapped
            <6> QED  BY <6>2, <6>4 DEF FileByte
          <5> QED  BY <5>1, <5>2, <5>3
        <4>3. CASE ~(a < h.memory_address + DataSize(h))
          <5>1. ~(a - h.memory_address < h.file_size)  BY <4>1, <4>3, <1>f, <1>h
          <5>2. a \notin h.memory_address .. h.memory_address + DataSize(h) - 1
            BY <4>1, <4>3, <1>f, <1>h
          <5> QED  BY <5>1, <5>2, <3>1, <1>w, <1>p
        <4> QED  BY <4>2, <4>3
      <3>3. Present(i)'
        BY <1>p, <1>u, <2>1, <3>2 DEF Present, HasItsContents, Place
      <3>4. Permitted(i)'  BY <1>p, <1>s, <1>u, <2>1 DEF Permitted, Place
      <3> QED  BY <3>3, <3>4
    <2>2. CASE i # next
      <3>1. i < next  BY <1>u, <1>t, <2>2, HeaderTypes
      <3>2. Present(i) /\ Permitted(i)
        BY <1>t, <3>1 DEF LoaderInv, Read, Loading
      <3>3. \A a \in Place(headers[i]) :
              /\ a \in Memory
              /\ contents'[a] = contents[a] /\ permissions'[a] = permissions[a]
        BY <1>o, <1>w, <1>d, <1>s, <2>2, <3>2 DEF Present
      <3> QED
        BY <1>u, <3>2, <3>3 DEF Present, HasItsContents, Permitted, Place
    <2> QED  BY <2>1, <2>2
  <1>5. AllRead'  BY <1>t DEF AllRead
  <1>6. BaseIsAPage'
    <2>1. base_address' % PageSize = 0  BY <1>a, <1>r DEF Refused
    <2>2. base_address' \in {base_address, h.memory_address}
      BY <1>a DEF Base
    <2>3. base_address <= end_address /\ base_address \in Nat
      BY <1>t, <1>l DEF LoaderInv, BaseIsAPage, LoaderTypeOK
    <2>4. end_address' >= end_address /\ end_address' >= h.memory_address
      <3> HIDE DEF h
      <3> QED  BY <1>f, <1>a, <1>e DEF Larger
    <2>5. base_address' <= end_address'
      <3> HIDE DEF h
      <3> QED  BY <2>2, <2>3, <2>4, <1>e, <1>f
    <2> QED  BY <2>1, <2>5 DEF BaseIsAPage
  <1> QED  BY <1>1, <1>2, <1>3, <1>4, <1>5, <1>6 DEF LoaderInv

LEMMA SkipInv ==
    ASSUME LoaderInv, Skip
    PROVE  LoaderInv'
  <1> USE DEF Skip, memory_vars, start_vars
  <1>t. LoaderTypeOK /\ next \in Indexes /\ ~headers[next].loadable
    <2>1. LoaderTypeOK  BY DEF LoaderInv
    <2> QED  BY <2>1, HeaderTypes DEF LoaderTypeOK
  <1>1. LoaderTypeOK'  BY <1>t, HeaderTypes DEF LoaderTypeOK
  <1>2. Executables' /\ AllRead' /\ BaseIsAPage'
    BY DEF LoaderInv, Executables, AllRead, BaseIsAPage, Loading
  <1>3. Unread'
    <2>1. \A i \in Indexes : i >= next' => i >= next  BY <1>t, HeaderTypes
    <2> QED  BY <2>1 DEF LoaderInv, Unread, Mine, Alone, Indexes
  <1>4. Read'
    <2>1. \A i \in Indexes : Mine(i) /\ i < next' => i < next
      BY <1>t, HeaderTypes DEF Mine
    <2> QED
      BY <2>1
      DEF LoaderInv, Read, Mine, Alone, Indexes, Loading, Present, HasItsContents,
          Permitted
  <1> QED  BY <1>1, <1>2, <1>3, <1>4 DEF LoaderInv

LEMMA LoadedInv ==
    ASSUME LoaderInv, Loaded
    PROVE  LoaderInv'
  BY DEF Loaded, image_vars, memory_vars, start_vars, LoaderInv, LoaderTypeOK,
         Executables, Unread, Read, AllRead, BaseIsAPage, Loading, Mine, Alone,
         Indexes, Present, HasItsContents, Permitted

\* A verify stops everything.
LEMMA StoppedInv ==
    ASSUME LoaderInv, UNCHANGED <<image_vars, memory_vars, start_vars>>,
           loader_at' = "stopped"
    PROVE  LoaderInv'
  BY DEF image_vars, memory_vars, start_vars, LoaderInv, LoaderTypeOK,
         Executables, Unread, Read, AllRead, BaseIsAPage, Loading

\* What main does, and what the image is afterwards.
LEMMA PrepareInv ==
    ASSUME LoaderInv, Prepare
    PROVE  LoaderInv' /\ ExecutableIsInTable' /\ ImageIsLoaded'
  <1> USE DEF Prepare, image_vars
  <1>t. LoaderTypeOK /\ Executables /\ Read /\ AllRead /\ BaseIsAPage
    BY DEF LoaderInv
  <1>n. /\ base_address \in Nat /\ end_address \in Nat /\ next > Len(headers)
        /\ PageSize \in Nat \ {0} /\ InstructionSize \in Nat \ {0}
        /\ Guard \in Nat /\ WordSize \in Nat \ {0} /\ WordSize + Guard <= PageSize
        /\ MemorySize \in Nat /\ AddressLimit \in Nat /\ AddressLimit % PageSize = 0
        /\ InstructionSize <= PageSize /\ Unsigned \subseteq Nat
        /\ base_address < AddressLimit /\ base_address <= end_address
        /\ base_address % PageSize = 0
    BY <1>t, LoaderAssumption DEF LoaderTypeOK, AllRead, Unsigned, BaseIsAPage
  <1>s. \A a \in Memory : permissions'[a] =
          IF StackIsMapped /\ a \in StackPlace THEN {"read", "write"} ELSE permissions[a]
    OBVIOUS
  <1>z. AlignedSize \in Int
    <2> DEFINE size == U64(end_address - base_address)
               m == U64(size + PageSize - 1)
               q == m \div PageSize
    <2>1. end_address - base_address \in Int  BY <1>n
    <2>2. size \in Nat  BY <1>n, <2>1, Unwrapped
    <2> HIDE DEF size
    <2>3. size + PageSize - 1 \in Int  BY <1>n, <2>2
    <2>4. m \in Nat  BY <1>n, <2>3, Unwrapped
    <2> HIDE DEF m
    <2>5. q \in Int  BY <1>n, <2>4, Division
    <2> HIDE DEF q
    <2>6. q * PageSize \in Int  BY <1>n, <2>5
    <2> QED  BY <2>6 DEF AlignedSize, q, m, size
  \* The rounded end of the image, when that exists.
  <1>m. ASSUME ~EndsInLastPage
        PROVE  /\ max_executable_address' >= end_address
               /\ max_executable_address' \in Nat
               /\ max_executable_address' <= AddressLimit - PageSize
    <2> DEFINE size == end_address - base_address
               m == size + PageSize - 1
               q == m \div PageSize
    <2>1. end_address <= AddressLimit - PageSize  BY <1>m, <1>n DEF EndsInLastPage
    <2>2. size \in Unsigned /\ m \in Unsigned
      BY <1>n, <2>1 DEF Unsigned
    <2>3. U64(size) = size /\ U64(m) = m  BY <2>2, <1>n, Unwrapped
    <2>4. AlignedSize = q * PageSize  BY <2>3 DEF AlignedSize
    <2>5. q \in Int /\ m % PageSize \in 0 .. PageSize - 1
          /\ m = PageSize * q + (m % PageSize)
      <3>1. m \in Int  BY <1>n
      <3> HIDE DEF m
      <3> QED  BY <1>n, <3>1, Division
    <2> HIDE DEF q
    <2>6. PageSize * q = q * PageSize /\ q * PageSize \in Int  BY <1>n, <2>5
    <2>7. q * PageSize <= m /\ q * PageSize >= size  BY <1>n, <2>5, <2>6
    <2>8. base_address + q * PageSize < AddressLimit
      BY <1>n, <2>1, <2>6, <2>7
    <2>9. base_address + q * PageSize <= AddressLimit - PageSize
      BY <1>n, <2>5, <2>8, NotInLastPage
    <2>10. base_address + AlignedSize \in Unsigned
      BY <1>n, <2>4, <2>6, <2>7, <2>8 DEF Unsigned
    <2>11. max_executable_address' = base_address + q * PageSize
      BY <2>4, <2>10, <1>n, Unwrapped
    <2> HIDE DEF Prepare
    <2> QED  BY <1>n, <2>6, <2>7, <2>9, <2>10, <2>4, <2>11
  <1>1. LoaderTypeOK'
    <2>1. permissions' \in [Memory -> SUBSET Flags]
      BY <1>t DEF LoaderTypeOK, Flags
    <2>2. max_executable_address' \in Unsigned /\ sp' \in Unsigned
      BY <1>n, <1>z, Unwrapped
    <2> QED  BY <1>t, <2>1, <2>2 DEF LoaderTypeOK
  <1>2. LoaderInv'
    <2>1. Unread' /\ Executables' /\ AllRead' /\ BaseIsAPage'
      BY <1>t DEF Unread, Executables, Loading, AllRead, BaseIsAPage
    <2>2. Read'
      BY <1>t DEF Read, Loading, Mine, Alone, Indexes, Present, HasItsContents
    <2> QED  BY <1>1, <2>1, <2>2 DEF LoaderInv
  <1>3. ExecutableIsInTable'
    <2> DEFINE n == max_executable_address'
    <2> SUFFICES ASSUME ~EndsInLastPage, NEW a \in Memory,
                        "execute" \in permissions'[a]
                 PROVE  a \div InstructionSize < TableSize'
      BY DEF ExecutableIsInTable, EndsInLastPage
    <2>1. a \in Nat /\ a < end_address
      BY <1>s, <1>t, <1>n DEF Executables, Loading, Memory
    <2>2. n \in Nat /\ a < n /\ n <= AddressLimit - PageSize
      BY <1>n, <1>m, <2>1
    <2> HIDE DEF Prepare
    <2>3. TableSize' = U64(n + InstructionSize - 1) \div InstructionSize
      BY DEF TableSize, U64
    <2> HIDE DEF n
    <2>4. n + InstructionSize - 1 \in Unsigned
      BY <1>n, <2>2 DEF Unsigned
    <2>5. U64(n + InstructionSize - 1) = n + InstructionSize - 1
      BY <1>n, <2>2, <2>4, Unwrapped
    <2>6. a \div InstructionSize < (n + InstructionSize - 1) \div InstructionSize
      BY <1>n, <2>1, <2>2, InTable
    <2> QED  BY <2>3, <2>5, <2>6
  <1>4. ImageIsLoaded'
    <2>1. ASSUME NEW i \in Indexes, headers[i].loadable, Alone(i)
          PROVE  HasItsContents(headers[i])' /\ HasItsPermissions(headers[i])'
      <3>0. i < next /\ Mine(i)
        <4>1. i \in 1 .. Len(headers) /\ Len(headers) \in Nat
          BY <1>t, HeaderTypes
        <4>2. next \in Int
          BY <1>t, <4>1 DEF LoaderTypeOK
        <4> HIDE DEF Prepare
        <4> QED  BY <1>n, <2>1, <4>1, <4>2 DEF Mine
      <3>1. Present(i) /\ Permitted(i)
        BY <1>t, <3>0 DEF Read, Loading
      <3> QED
        BY <1>s, <3>1
        DEF Present, Permitted, HasItsContents, HasItsPermissions, Place, StackPlace
    <2>2. ASSUME base_address > 0, StackIsMapped,
                 NEW a \in sp' .. sp' + WordSize - 1
          PROVE  permissions'[a] = {"read", "write"}
      <3>1. base_address >= PageSize
        BY <1>n, <1>t, <2>2, AtLeastAPage DEF BaseIsAPage
      <3>0. sp' = base_address - WordSize
        <4>1. base_address - WordSize \in Unsigned
          BY <1>n, <3>1 DEF Unsigned
        <4> QED  BY <1>n, <4>1, Unwrapped
      <3>2. a \in Int /\ a >= base_address - WordSize /\ a <= base_address - 1
        BY <1>n, <2>2, <3>0
      <3>3. a >= Guard /\ a <= Guard + base_address - 1  BY <1>n, <3>1, <3>2
      <3>4. a \in StackPlace  BY <1>n, <3>2, <3>3 DEF StackPlace
      <3>5. a \in Memory
        <4>1. base_address <= AddressLimit - PageSize
          <5> DEFINE none == 0
          <5>1. none \in Int /\ base_address + none * PageSize = base_address  BY <1>n
          <5> HIDE DEF none
          <5>2. base_address + none * PageSize <= AddressLimit - PageSize
            BY <1>n, <5>1, NotInLastPage
          <5> QED  BY <5>1, <5>2
        <4>2. Guard + base_address \in Unsigned  BY <1>n, <4>1 DEF Unsigned
        <4>3. Guard + base_address <= MemorySize
          BY <1>n, <2>2, <4>2, Unwrapped DEF StackIsMapped, InMemory
        <4> QED  BY <1>n, <3>2, <3>3, <4>3 DEF Memory
      <3> QED  BY <1>s, <2>2, <3>4, <3>5
    <2> QED
      BY <2>1, <2>2
      DEF ImageIsLoaded, Alone, Indexes, StackIsMapped, InMemory, HasItsContents,
          HasItsPermissions, StackPlace
  <1> QED  BY <1>2, <1>3, <1>4

\* Whatever runs later leaves the image alone, and only moves the pc.
LEMMA RunningInv ==
    ASSUME LoaderInv,
           UNCHANGED <<image_vars, memory_vars, loader_at, max_executable_address, sp>>
    PROVE  /\ LoaderInv'
           /\ ExecutableIsInTable => ExecutableIsInTable'
           /\ ImageIsLoaded => ImageIsLoaded'
  <1> USE DEF image_vars, memory_vars
  <1>1. LoaderInv'
    BY DEF LoaderInv, LoaderTypeOK, Executables, Unread, Read, AllRead,
           BaseIsAPage, Loading, Mine, Alone, Indexes, Present, HasItsContents,
           Permitted
  <1>2. ExecutableIsInTable => ExecutableIsInTable'
    BY DEF ExecutableIsInTable, TableSize, EndsInLastPage
  <1>3. ImageIsLoaded => ImageIsLoaded'
    BY DEF ImageIsLoaded, Alone, Indexes, HasItsContents, HasItsPermissions,
           StackPlace, StackIsMapped
  <1> QED  BY <1>1, <1>2, <1>3

Inv == LoaderInv /\ ExecutableIsInTable /\ ImageIsLoaded

LEMMA InvStep == Inv /\ [Next]_vars => Inv'
  <1> SUFFICES ASSUME Inv, [Next]_vars PROVE Inv'  OBVIOUS
  <1> USE DEF Inv
  <1>0. ASSUME LoaderInv', loader_at' # "ready" PROVE Inv'
    BY <1>0 DEF ExecutableIsInTable, ImageIsLoaded
  <1>1. CASE Skip
    BY <1>0, <1>1, SkipInv DEF Skip
  <1>2. CASE LoadSegment
    BY <1>0, <1>2, LoadSegmentInv DEF LoadSegment
  <1>3. CASE Loaded
    BY <1>0, <1>3, LoadedInv DEF Loaded
  <1>4. CASE Refuse
    BY <1>0, <1>4, StoppedInv DEF Refuse
  <1>8. CASE Crash
    BY <1>0, <1>8, StoppedInv DEF Crash
  <1>5. CASE Prepare
    BY <1>5, PrepareInv
  <1>6. CASE OutOfTable
    BY <1>0, <1>6, StoppedInv DEF OutOfTable
  <1>7. CASE RunBlock \/ RunGuest \/ GoOn \/ Stopped \/ UNCHANGED vars
    <2>1. UNCHANGED <<image_vars, memory_vars, loader_at, max_executable_address, sp>>
      BY <1>7 DEF RunBlock, RunGuest, GoOn, Stopped, vars, loader_vars, start_vars
    <2> QED  BY <2>1, RunningInv
  <1> QED
    BY <1>1, <1>2, <1>3, <1>4, <1>5, <1>6, <1>7, <1>8
    DEF Next, LoadImage, LoaderNext

LEMMA Invariant == Spec => []Inv
  <1>1. Init => Inv
    BY LoaderInitInv DEF Init, Inv, LoaderInit, ExecutableIsInTable, ImageIsLoaded
  <1> QED  BY <1>1, InvStep, PTL DEF Spec

\* Nothing that may be executed is outside of the translation table, whatever
\* the order, the overlap and the sizes of the segments: unless the image ends
\* in the topmost page of the address space, where the table has no entry.
THEOREM TableCoversTheImage == Spec => []ExecutableIsInTable
  BY Invariant, PTL DEF Inv

\* Every segment that overlaps no other is loaded, and the stack is there, for
\* all 64 bit fields that a header may have: with main's two exceptions, and
\* with bytes that are not the file's where the range in the file wraps around.
THEOREM ImageIsComplete == Spec => []ImageIsLoaded
  BY Invariant, PTL DEF Inv

-----------------------------------------------------------------------------
\* Up to n.
LEMMA Induction ==
    ASSUME NEW S, 0 \in S, \A n \in Nat : n \in S => n + 1 \in S
    PROVE  \A n \in Nat : n \in S
  <1> DEFINE T == Nat \ S
  <1>1. SUFFICES ASSUME T # {} PROVE FALSE  OBVIOUS
  <1>2. \E x \in T : \A y \in T : ~(<<y, x>> \in OpToRel(<, Nat))
    BY <1>1, WFMin, NatLessThanWellFounded, Zenon
  <1>3. PICK x \in T : \A y \in T : ~(y < x)
    <2>1. \A x, y \in Nat : y < x => <<y, x>> \in OpToRel(<, Nat)  BY DEF OpToRel
    <2> QED  BY <1>2, <2>1
  <1>4. x # 0  OBVIOUS
  <1>5. x - 1 \in Nat /\ x - 1 < x /\ x = (x - 1) + 1  BY <1>4
  <1>6. x - 1 \in S  BY <1>3, <1>5
  <1> QED  BY <1>5, <1>6

LEMMA InductionUpTo ==
    ASSUME NEW k \in Nat, NEW S, 0 \in S, \A n \in 0 .. k - 1 : n \in S => n + 1 \in S
    PROVE  \A n \in 0 .. k : n \in S
  <1> DEFINE T == {n \in Nat : n <= k => n \in S}
  <1>1. 0 \in T  OBVIOUS
  <1>2. \A n \in Nat : n \in T => n + 1 \in T
    <2>1. TAKE n \in Nat
    <2>2. HAVE n \in T
    <2>3. CASE n + 1 <= k  BY <2>2, <2>3
    <2>4. CASE ~(n + 1 <= k)  BY <2>4
    <2> QED  BY <2>3, <2>4
  <1> HIDE DEF T
  <1>3. \A n \in Nat : n \in T  BY <1>1, <1>2, Induction
  <1> QED  BY <1>3 DEF T

-----------------------------------------------------------------------------
\* What code does: the machines before, between and after its instructions.
Run(f, m, code) ==
    f[0] = m /\ \A n \in 1 .. Len(code) : f[n] = Step(f[n - 1], code[n])

LEMMA SameRun ==
    ASSUME NEW m, NEW code, Len(code) \in Nat, NEW f, NEW g, Run(f, m, code), Run(g, m, code)
    PROVE  \A n \in 0 .. Len(code) : f[n] = g[n]
  <1> DEFINE S == {n \in 0 .. Len(code) : f[n] = g[n]}
  <1>1. 0 \in S  BY DEF Run
  <1>2. ASSUME NEW n \in 0 .. Len(code) - 1, n \in S PROVE n + 1 \in S
    <2>1. n + 1 \in 1 .. Len(code) /\ (n + 1) - 1 = n  OBVIOUS
    <2>2. f[n + 1] = Step(f[n], code[n + 1]) /\ g[n + 1] = Step(g[n], code[n + 1])
      BY <2>1 DEF Run
    <2> QED  BY <1>2, <2>1, <2>2
  <1> HIDE DEF S
  <1>3. \A n \in 0 .. Len(code) : n \in S  BY <1>1, <1>2, InductionUpTo
  <1> QED  BY <1>3 DEF S

LEMMA Execution ==
    ASSUME NEW m, NEW code, Len(code) \in Nat
    PROVE  \E f : Run(f, m, code) /\ Execute(m, code) = f[Len(code)]
  <1> DEFINE Part(n, g) == g = [i \in 0 .. n |-> IF i = 0 THEN m ELSE Step(g[i - 1], code[i])]
             S == {n \in Nat : \E g : Part(n, g)}
  <1>1. 0 \in S
    <2>1. Part(0, [i \in 0 .. 0 |-> m])  OBVIOUS
    <2> QED  BY <2>1
  <1>2. ASSUME NEW n \in Nat, n \in S PROVE n + 1 \in S
    <2>1. PICK g : Part(n, g)  BY <1>2
    <2> DEFINE h == [i \in 0 .. n + 1 |->
                        IF i = n + 1 THEN Step(g[n], code[n + 1]) ELSE g[i]]
    <2>2. ASSUME NEW i \in 0 .. n + 1
          PROVE  h[i] = IF i = 0 THEN m ELSE Step(h[i - 1], code[i])
      <3>1. CASE i = n + 1
        <4>1. i - 1 = n /\ n \in 0 .. n + 1 /\ n # n + 1 /\ i # 0  BY <3>1
        <4> QED  BY <3>1, <4>1
      <3>2. CASE i # n + 1
        <4>1. i \in 0 .. n  BY <3>2
        <4>2. h[i] = g[i]  BY <3>2
        <4>3. g[i] = IF i = 0 THEN m ELSE Step(g[i - 1], code[i])  BY <2>1, <4>1
        <4>4. CASE i = 0  BY <4>2, <4>3, <4>4
        <4>5. CASE i # 0
          <5>1. i - 1 \in 0 .. n + 1 /\ i - 1 # n + 1  BY <4>1, <4>5
          <5>2. h[i - 1] = g[i - 1]  BY <5>1
          <5> QED  BY <4>2, <4>3, <4>5, <5>2
        <4> QED  BY <4>4, <4>5
      <3> QED  BY <3>1, <3>2
    <2>3. Part(n + 1, h)
      <3>1. h = [i \in 0 .. n + 1 |-> h[i]]  OBVIOUS
      <3> HIDE DEF h
      <3> QED  BY <2>2, <3>1
    <2> HIDE DEF h
    <2>4. \E f : Part(n + 1, f)  BY <2>3, Zenon
    <2> QED  BY <2>4
  <1> HIDE DEF S
  <1>3. Len(code) \in S  BY <1>1, <1>2, Induction
  <1> DEFINE after == CHOOSE g : Part(Len(code), g)
  <1>4. Part(Len(code), after)
    <2>1. \E g : Part(Len(code), g)  BY <1>3 DEF S
    <2> QED  BY <2>1, Zenon
  <1>5. Execute(m, code) = after[Len(code)]  BY DEF Execute
  <1> HIDE DEF after
  <1>6. Run(after, m, code)
    <2>1. after[0] = m  BY <1>4
    <2>2. ASSUME NEW n \in 1 .. Len(code) PROVE after[n] = Step(after[n - 1], code[n])
      BY <1>4
    <2> QED  BY <2>1, <2>2 DEF Run
  <1> QED  BY <1>5, <1>6

LEMMA RunExecutes ==
    ASSUME NEW m, NEW code, Len(code) \in Nat, NEW f, Run(f, m, code)
    PROVE  Execute(m, code) = f[Len(code)]
  <1>1. PICK g : Run(g, m, code) /\ Execute(m, code) = g[Len(code)]  BY Execution
  <1> QED  BY <1>1, SameRun

\* Code after code.
LEMMA ExecuteBoth ==
    ASSUME NEW m, NEW I, NEW code \in Seq(I), NEW more \in Seq(I)
    PROVE  Execute(m, code \o more) = Execute(Execute(m, code), more)
  <1> DEFINE k == Len(code)
             l == Len(more)
  <1>1. /\ k \in Nat /\ l \in Nat /\ Len(code \o more) = k + l
        /\ \A n \in 1 .. k : (code \o more)[n] = code[n]
        /\ \A n \in 1 .. l : (code \o more)[k + n] = more[n]
    <2>1. \A n \in 1 .. l : k + n - k = n /\ k + n > k /\ k + n \in 1 .. k + l  OBVIOUS
    <2> QED  BY <2>1, ConcatProperties
  <1> HIDE DEF k, l
  <1>2. PICK f : Run(f, m, code \o more) /\ Execute(m, code \o more) = f[k + l]
    <2>1. Len(code \o more) \in Nat  BY <1>1
    <2>2. \E f : Run(f, m, code \o more) /\ Execute(m, code \o more) = f[Len(code \o more)]
      BY <2>1, Execution, Zenon
    <2> QED  BY <1>1, <2>2
  <1>3. Run(f, m, code)  BY <1>1, <1>2 DEF Run, k
  <1>4. Execute(m, code) = f[k]  BY <1>1, <1>3, RunExecutes DEF k
  <1> DEFINE g == [n \in 0 .. l |-> f[k + n]]
  <1>5. Run(g, f[k], more)
    <2>1. g[0] = f[k]  BY <1>1
    <2>2. ASSUME NEW n \in 1 .. l PROVE g[n] = Step(g[n - 1], more[n])
      <3>1. k + n \in 1 .. k + l /\ (k + n) - 1 = k + (n - 1) /\ n - 1 \in 0 .. l
        BY <1>1
      <3>2. f[k + n] = Step(f[k + (n - 1)], (code \o more)[k + n])
        BY <1>1, <1>2, <3>1 DEF Run
      <3> QED  BY <1>1, <3>1, <3>2
    <2> QED  BY <2>1, <2>2 DEF Run, l
  <1>6. Execute(f[k], more) = g[l]  BY <1>1, <1>5, RunExecutes DEF l
  <1> QED  BY <1>1, <1>2, <1>4, <1>6

-----------------------------------------------------------------------------
Machines(V, F) == [registers : [Registers -> V], stack : Seq(V), block : [F -> V]]

\* The values of a group of registers.
AreValues(values, registers, g) ==
    Len(values) = Len(g) /\ \A i \in 1 .. Len(g) : values[i] = registers[g[i]]

LEMMA ValuesAre ==
    ASSUME NEW m, NEW g \in Seq(Registers)
    PROVE  /\ AreValues(Values(m, g), m.registers, g)
           /\ \A V : m.registers \in [Registers -> V] => Values(m, g) \in Seq(V)
  <1>1. g \in [1 .. Len(g) -> Registers] /\ Len(g) \in Nat  BY LenProperties
  <1>2. Values(m, g) = [i \in 1 .. Len(g) |-> m.registers[g[i]]]  BY <1>1 DEF Values
  <1>3. ASSUME NEW V, m.registers \in [Registers -> V] PROVE Values(m, g) \in Seq(V)
    <2>1. \A i \in 1 .. Len(g) : m.registers[g[i]] \in V  BY <1>1, <1>3
    <2> QED  BY <1>1, <1>2, <2>1
  <1> QED  BY <1>1, <1>2, <1>3 DEF AreValues

LEMMA PushStep ==
    ASSUME NEW V, NEW F, NEW m \in Machines(V, F), NEW g \in Seq(Registers)
    PROVE  /\ Step(m, Push(g)).registers = m.registers
           /\ Step(m, Push(g)).block = m.block
           /\ Step(m, Push(g)).stack = Values(m, g) \o m.stack
           /\ Step(m, Push(g)) \in Machines(V, F)
  <1>1. Step(m, Push(g)) = [m EXCEPT !.stack = Values(m, g) \o @]
    BY DEF Step, Push, Instruction
  <1>2. m.registers \in [Registers -> V] /\ m.stack \in Seq(V)  BY DEF Machines
  <1>3. Values(m, g) \in Seq(V)  BY <1>2, ValuesAre, Zenon
  <1>4. Values(m, g) \o m.stack \in Seq(V)  BY <1>2, <1>3, ConcatProperties, Zenon
  <1> QED  BY <1>1, <1>4 DEF Machines

LEMMA PopStep ==
    ASSUME NEW V, NEW F, NEW m \in Machines(V, F), NEW g \in Seq(Registers),
           NEW w \in [Registers -> V], NEW values \in Seq(V), NEW rest \in Seq(V),
           m.stack = values \o rest, AreValues(values, w, g)
    PROVE  /\ Step(m, Pop(g)).registers =
                [r \in Registers |-> IF r \in ToSet(g) THEN w[r] ELSE m.registers[r]]
           /\ Step(m, Pop(g)).block = m.block
           /\ Step(m, Pop(g)).stack = rest
           /\ Step(m, Pop(g)) \in Machines(V, F)
  <1>1. g \in [1 .. Len(g) -> Registers] /\ Len(g) \in Nat /\ DOMAIN g = 1 .. Len(g)
    BY LenProperties
  <1>0. Len(values) = Len(g) /\ \A i \in 1 .. Len(g) : values[i] = w[g[i]]
    BY DEF AreValues
  <1> DEFINE popped == [r \in DOMAIN m.registers |->
               IF r \in ToSet(g) THEN m.stack[Position(g, r)] ELSE m.registers[r]]
  <1>2. Step(m, Pop(g)) =
          [m EXCEPT !.registers = popped,
                    !.stack = SubSeq(m.stack, Len(g) + 1, Len(m.stack))]
    BY DEF Step, Pop, Instruction, Machines
  <1>3. /\ Len(m.stack) = Len(g) + Len(rest) /\ Len(rest) \in Nat
        /\ \A i \in 1 .. Len(g) : m.stack[i] = values[i]
    <2>1. \A i \in 1 .. Len(g) : i \in 1 .. Len(g) + Len(rest) /\ i <= Len(g)
      BY <1>1, LenProperties
    <2>2. Len(rest) \in Nat /\ Len(m.stack) = Len(g) + Len(rest)
      <3>1. Len(rest) \in Nat  BY LenProperties, Zenon
      <3>2. Len(values \o rest) = Len(values) + Len(rest)  BY ConcatProperties, Zenon
      <3> QED  BY <1>0, <3>1, <3>2, Zenon
    <2>3. \A i \in 1 .. Len(values) + Len(rest) :
            (values \o rest)[i] = IF i <= Len(values) THEN values[i] ELSE rest[i - Len(values)]
      BY ConcatProperties
    <2> QED  BY <1>0, <2>1, <2>2, <2>3
  <1>4. ASSUME NEW r \in ToSet(g) PROVE m.stack[Position(g, r)] = w[r]
    <2>1. \E n \in DOMAIN g : g[n] = r  BY DEF ToSet
    <2>2. Position(g, r) \in DOMAIN g /\ g[Position(g, r)] = r  BY <2>1 DEF Position
    <2> QED  BY <1>0, <1>1, <1>3, <2>2
  <1>5. popped = [r \in Registers |-> IF r \in ToSet(g) THEN w[r] ELSE m.registers[r]]
    <2>1. DOMAIN m.registers = Registers  BY DEF Machines
    <2> QED  BY <1>4, <2>1
  <1>6. SubSeq(m.stack, Len(g) + 1, Len(m.stack)) = rest
    BY <1>0, <1>1, <1>3, SubSeqOfConcat2
  <1> HIDE DEF popped
  <1>7. Step(m, Pop(g)).registers = popped /\ Step(m, Pop(g)).block = m.block
        /\ Step(m, Pop(g)).stack = rest
        /\ Step(m, Pop(g)) = [registers |-> popped, stack |-> rest, block |-> m.block]
    BY <1>2, <1>6 DEF Machines
  <1>8. popped \in [Registers -> V]  BY <1>5 DEF Machines
  <1> QED  BY <1>5, <1>7, <1>8 DEF Machines

-----------------------------------------------------------------------------
\* All registers of groups, and pushing them.
LEMMA SavesRun ==
    ASSUME NEW V, NEW F, NEW m \in Machines(V, F), NEW groups \in Seq(Seq(Registers)),
           NEW f, Run(f, m, Saves(groups)), NEW n \in 0 .. Len(groups)
    PROVE  f[n] \in Machines(V, F) /\ f[n].registers = m.registers /\ f[n].block = m.block
  <1> DEFINE S == {i \in 0 .. Len(groups) : /\ f[i] \in Machines(V, F)
                                            /\ f[i].registers = m.registers
                                            /\ f[i].block = m.block}
  <1>1. Len(groups) \in Nat /\ DOMAIN groups = 1 .. Len(groups)
        /\ Saves(groups) = [i \in 1 .. Len(groups) |-> Push(groups[i])]
    BY LenProperties DEF Saves
  <1>2. 0 \in S  BY <1>1 DEF Run
  <1>3. ASSUME NEW i \in 0 .. Len(groups) - 1, i \in S PROVE i + 1 \in S
    <2>1. i + 1 \in 1 .. Len(groups) /\ (i + 1) - 1 = i  BY <1>1
    <2>2. f[i + 1] = Step(f[i], Push(groups[i + 1]))
      <3>1. Len(Saves(groups)) = Len(groups) /\ Saves(groups)[i + 1] = Push(groups[i + 1])
        BY <1>1, <2>1
      <3> QED  BY <2>1, <3>1 DEF Run
    <2>3. groups[i + 1] \in Seq(Registers)  BY <2>1, ElementOfSeq
    <2> QED  BY <1>3, <2>1, <2>2, <2>3, PushStep
  <1> HIDE DEF S
  <1>4. n \in S  BY <1>1, <1>2, <1>3, InductionUpTo
  <1> QED  BY <1>4 DEF S

\* Where each step of the saves leads.
LEMMA SavesStep ==
    ASSUME NEW V, NEW F, NEW m \in Machines(V, F), NEW groups \in Seq(Seq(Registers)),
           NEW f, Run(f, m, Saves(groups)), NEW n \in 1 .. Len(groups)
    PROVE  \E values \in Seq(V) : /\ f[n].stack = values \o f[n - 1].stack
                                   /\ AreValues(values, m.registers, groups[n])
  <1>1. Len(groups) \in Nat /\ DOMAIN groups = 1 .. Len(groups)
        /\ Saves(groups) = [i \in 1 .. Len(groups) |-> Push(groups[i])]
    BY LenProperties DEF Saves
  <1>2. n - 1 \in 0 .. Len(groups)  BY <1>1
  <1>3. f[n - 1] \in Machines(V, F) /\ f[n - 1].registers = m.registers
    BY <1>2, SavesRun
  <1>4. f[n] = Step(f[n - 1], Push(groups[n]))
    <2>1. Len(Saves(groups)) = Len(groups) /\ Saves(groups)[n] = Push(groups[n])
      BY <1>1
    <2> QED  BY <2>1 DEF Run
  <1>5. groups[n] \in Seq(Registers)  BY ElementOfSeq
  <1> DEFINE before == f[n - 1]
             group == groups[n]
             values == Values(before, group)
  <1>6. before \in Machines(V, F) /\ group \in Seq(Registers)  BY <1>3, <1>5
  <1> HIDE DEF before, group
  <1>7. /\ values \in Seq(V) /\ AreValues(values, before.registers, group)
        /\ Step(before, Push(group)).stack = values \o before.stack
    <2>1. before.registers \in [Registers -> V]  BY <1>6 DEF Machines
    <2> QED  BY <1>6, <2>1, ValuesAre, PushStep, Zenon
  <1> HIDE DEF values
  <1> QED  BY <1>3, <1>4, <1>7 DEF before, group

LEMMA Growth ==
    ASSUME NEW k \in Nat, NEW c \in Nat, NEW size,
           \A n \in 0 .. k : size[n] \in Nat,
           \A n \in 1 .. k : size[n] = c + size[n - 1]
    PROVE  size[k] = size[0] + c * k
  <1> DEFINE S == {n \in 0 .. k : size[n] = size[0] + c * n}
  <1>1. 0 \in S
    <2>1. c * 0 = 0 /\ size[0] \in Nat  OBVIOUS
    <2> QED  BY <2>1
  <1>2. ASSUME NEW n \in 0 .. k - 1, n \in S PROVE n + 1 \in S
    <2>1. n + 1 \in 1 .. k /\ (n + 1) - 1 = n  OBVIOUS
    <2>2. size[n + 1] = c + size[n] /\ size[n] = size[0] + c * n  BY <1>2, <2>1
    <2>3. c * (n + 1) = c * n + c /\ c * n \in Int  OBVIOUS
    <2>4. size[n + 1] = size[0] + c * (n + 1)  BY <2>2, <2>3
    <2> QED  BY <2>1, <2>4
  <1> HIDE DEF S
  <1>3. \A n \in 0 .. k : n \in S  BY <1>1, <1>2, InductionUpTo, Zenon
  <1>4. k \in S  BY <1>3
  <1> QED  BY <1>4 DEF S

LEMMA SavesExecute ==
    ASSUME NEW V, NEW F, NEW m \in Machines(V, F), NEW groups \in Seq(Seq(Registers))
    PROVE  /\ Execute(m, Saves(groups)) \in Machines(V, F)
           /\ Execute(m, Saves(groups)).registers = m.registers
           /\ Execute(m, Saves(groups)).block = m.block
  <1>1. Len(groups) \in Nat /\ Len(Saves(groups)) = Len(groups)
    BY LenProperties DEF Saves
  <1>2. PICK f : Run(f, m, Saves(groups)) /\ Execute(m, Saves(groups)) = f[Len(groups)]
    <2>1. \E f : Run(f, m, Saves(groups)) /\ Execute(m, Saves(groups)) = f[Len(Saves(groups))]
      BY <1>1, Execution, Zenon
    <2> QED  BY <1>1, <2>1
  <1>3. Len(groups) \in 0 .. Len(groups)  BY <1>1
  <1> QED  BY <1>2, <1>3, SavesRun

\* Groups of one length.
Each(groups, c) == \A n \in 1 .. Len(groups) : Len(groups[n]) = c

Longer(e, m, c, k) == Len(e.stack) = Len(m.stack) + c * k

LEMMA SavesGrow ==
    ASSUME NEW V, NEW F, NEW m \in Machines(V, F), NEW groups \in Seq(Seq(Registers)),
           NEW c \in Nat, Each(groups, c)
    PROVE  Longer(Execute(m, Saves(groups)), m, c, Len(groups))
  <1>a. Len(groups) \in Nat /\ Len(Saves(groups)) = Len(groups)
    BY LenProperties DEF Saves
  <1>b. PICK f : Run(f, m, Saves(groups)) /\ Execute(m, Saves(groups)) = f[Len(groups)]
    <2>1. \E f : Run(f, m, Saves(groups)) /\ Execute(m, Saves(groups)) = f[Len(Saves(groups))]
      BY <1>a, Execution, Zenon
    <2> QED  BY <1>a, <2>1
  <1>c. Len(groups) \in 0 .. Len(groups)  BY <1>a
  <1>0. c * 0 = 0 /\ Len(m.stack) \in Nat  BY LenProperties DEF Machines
  <1> DEFINE size == [n \in 0 .. Len(groups) |-> Len(f[n].stack)]
  <1>1. ASSUME NEW n \in 0 .. Len(groups) PROVE size[n] \in Nat
    <2>1. f[n].stack \in Seq(V)  BY <1>b, SavesRun DEF Machines
    <2> QED  BY <2>1, LenProperties
  <1>2. ASSUME NEW n \in 1 .. Len(groups) PROVE size[n] = c + size[n - 1]
    <2>1. n - 1 \in 0 .. Len(groups) /\ n \in 0 .. Len(groups)  BY <1>a
    <2>2. PICK values \in Seq(V) :
            /\ f[n].stack = values \o f[n - 1].stack
            /\ AreValues(values, m.registers, groups[n])
      <3>1. Run(f, m, Saves(groups))  BY <1>b
      <3> HIDE DEF size
      <3> QED  BY <3>1, SavesStep, ZenonT(30)
    <2> DEFINE rest == f[n - 1].stack
    <2>3. rest \in Seq(V)  BY <1>b, <2>1, SavesRun DEF Machines
    <2> HIDE DEF rest
    <2>4. Len(values \o rest) = Len(values) + Len(rest)
      BY <2>3, ConcatProperties, Zenon
    <2> QED  BY <2>1, <2>2, <2>4 DEF rest, AreValues, Each
  <1>3. size[0] = Len(m.stack)  BY <1>a, <1>b DEF Run
  <1>4. size[Len(groups)] = Len(f[Len(groups)].stack)  BY <1>c
  <1> HIDE DEF size
  <1>5. size[Len(groups)] = size[0] + c * Len(groups)
    <2> DEFINE k == Len(groups)
    <2>1. k \in Nat /\ (\A n \in 0 .. k : size[n] \in Nat)
          /\ (\A n \in 1 .. k : size[n] = c + size[n - 1])
      BY <1>a, <1>1, <1>2
    <2> HIDE DEF k
    <2> QED  BY <2>1, Growth DEF k
  <1> QED  BY <1>b, <1>3, <1>4, <1>5 DEF Longer

\* What is saved is restored, whatever has become of the registers: groups of
\* any length, and registers that are saved more than once.
In(groups) == {r \in Registers : \E j \in 1 .. Len(groups) : r \in ToSet(groups[j])}

LEMMA OneMore ==
    ASSUME NEW N \in Nat, NEW k \in 0 .. N - 1
    PROVE  \A j : j \in N - (k + 1) + 1 .. N <=> j = N - k \/ j \in N - k + 1 .. N
  OBVIOUS

THEOREM RestoresUndoSaves ==
    ASSUME NEW V, NEW F, NEW m \in Machines(V, F), NEW groups \in Seq(Seq(Registers)),
           NEW late \in Machines(V, F), late.stack = Execute(m, Saves(groups)).stack
    PROVE  /\ Execute(late, Restores(groups)) \in Machines(V, F)
           /\ Execute(late, Restores(groups)).registers =
                [r \in Registers |-> IF r \in In(groups) THEN m.registers[r]
                                     ELSE late.registers[r]]
           /\ Execute(late, Restores(groups)).stack = m.stack
           /\ Execute(late, Restores(groups)).block = late.block
  <1> DEFINE N == Len(groups)
  <1>1. N \in Nat /\ Len(Saves(groups)) = N  BY LenProperties DEF Saves
  <1>2. PICK f : Run(f, m, Saves(groups)) /\ Execute(m, Saves(groups)) = f[N]
    <2>1. \E f : Run(f, m, Saves(groups)) /\ Execute(m, Saves(groups)) = f[Len(Saves(groups))]
      BY <1>1, Execution, Zenon
    <2> QED  BY <1>1, <2>1
  <1>3. /\ Len(Restores(groups)) = N
        /\ \A k \in 1 .. N : Restores(groups)[k] = Pop(groups[N - k + 1])
    <2>1. Restores(groups) = [k \in 1 .. N |-> Pop(Reverse(groups)[k])]
      BY <1>1 DEF Restores, Reverse
    <2>2. \A k \in 1 .. N : Reverse(groups)[k] = groups[(N - k) + 1]  BY DEF Reverse
    <2> QED  BY <1>1, <2>1, <2>2
  <1>4. PICK g : Run(g, late, Restores(groups)) /\ Execute(late, Restores(groups)) = g[N]
    <2>1. Len(Restores(groups)) \in Nat  BY <1>1, <1>3
    <2>2. \E g : Run(g, late, Restores(groups))
                 /\ Execute(late, Restores(groups)) = g[Len(Restores(groups))]
      BY <2>1, Execution, Zenon
    <2> QED  BY <1>3, <2>2
  <1> DEFINE Popped(k) == {r \in Registers : \E j \in N - k + 1 .. N : r \in ToSet(groups[j])}
             Back(k) == [r \in Registers |-> IF r \in Popped(k) THEN m.registers[r]
                                             ELSE late.registers[r]]
             S == {k \in 0 .. N : /\ g[k] \in Machines(V, F)
                                  /\ g[k].stack = f[N - k].stack
                                  /\ g[k].block = late.block
                                  /\ g[k].registers = Back(k)}
  <1>5. 0 \in S
    <2>1. g[0] = late  BY <1>4 DEF Run
    <2>2. Popped(0) = {}  BY <1>1
    <2>3. late.registers = Back(0)
      <3>1. late.registers = [r \in Registers |-> late.registers[r]]  BY DEF Machines
      <3> HIDE DEF Popped
      <3> QED  BY <2>2, <3>1
    <2> HIDE DEF Back
    <2> QED  BY <1>1, <1>2, <2>1, <2>3
  <1>6. ASSUME NEW k \in 0 .. N - 1, k \in S PROVE k + 1 \in S
    <2>1. /\ k + 1 \in 1 .. N /\ (k + 1) - 1 = k /\ k \in 0 .. N
          /\ N - (k + 1) + 1 = N - k /\ (N - k) - 1 = N - (k + 1) /\ N - k \in 1 .. N
          /\ N - (k + 1) \in 0 .. N
      BY <1>1
    <2> DEFINE group == groups[N - k]
               rest == f[N - (k + 1)].stack
    <2>2. g[k + 1] = Step(g[k], Pop(group))  BY <1>3, <1>4, <2>1 DEF Run
    <2>3. group \in Seq(Registers)  BY <2>1, ElementOfSeq
    <2>4. \E values \in Seq(V) : /\ f[N - k].stack = values \o f[(N - k) - 1].stack
                                 /\ AreValues(values, m.registers, group)
      BY <1>2, <2>1, SavesStep
    <2>5. PICK values \in Seq(V) :
            g[k].stack = values \o rest /\ AreValues(values, m.registers, group)
      BY <1>6, <2>1, <2>4
    <2>6. rest \in Seq(V)  BY <1>2, <2>1, SavesRun DEF Machines
    <2>7. g[k] \in Machines(V, F) /\ m.registers \in [Registers -> V]
      BY <1>6 DEF Machines
    <2> HIDE DEF group, rest
    <2> DEFINE now == g[k]
               w == m.registers
    <2>a. /\ now \in Machines(V, F) /\ w \in [Registers -> V]
          /\ now.stack = values \o rest /\ AreValues(values, w, group)
      BY <2>5, <2>7
    <2> HIDE DEF now, w
    <2>b. /\ Step(now, Pop(group)).registers =
               [r \in Registers |-> IF r \in ToSet(group) THEN w[r] ELSE now.registers[r]]
          /\ Step(now, Pop(group)).block = now.block
          /\ Step(now, Pop(group)).stack = rest
          /\ Step(now, Pop(group)) \in Machines(V, F)
      BY <2>3, <2>6, <2>a, PopStep
    <2>8. /\ g[k + 1].registers =
               [r \in Registers |-> IF r \in ToSet(group) THEN m.registers[r]
                                    ELSE g[k].registers[r]]
          /\ g[k + 1].block = g[k].block /\ g[k + 1].stack = rest
          /\ g[k + 1] \in Machines(V, F)
      BY <2>2, <2>b DEF now, w
    <2>9. g[k + 1].registers = Back(k + 1)
      <3>1. g[k].registers = Back(k)  BY <1>6
      <3>2. \A r \in Registers : r \in Popped(k + 1) <=> r \in ToSet(group) \/ r \in Popped(k)
        <4>1. \A j : j \in N - (k + 1) + 1 .. N <=> j = N - k \/ j \in N - k + 1 .. N
          <5> HIDE DEF N
          <5> QED  BY <1>1, OneMore
        <4> QED  BY <4>1 DEF group
      <3> HIDE DEF Popped
      <3> QED  BY <2>8, <3>1, <3>2
    <2> HIDE DEF Back
    <2> QED  BY <1>6, <2>1, <2>8, <2>9 DEF rest
  <1>7. N \in S
    <2> HIDE DEF S
    <2>1. \A k \in 0 .. N : k \in S  BY <1>1, <1>5, <1>6, InductionUpTo, Zenon
    <2> QED  BY <1>1, <2>1
  <1>8. f[N - N] = m  BY <1>1, <1>2 DEF Run
  <1>9. Popped(N) = In(groups)  BY <1>1 DEF In
  <1> HIDE DEF Popped
  <1> QED  BY <1>4, <1>7, <1>8, <1>9

-----------------------------------------------------------------------------
\* RegisterSaver: the pairs after each register.
Saver(f, added) == f[0] = <<>> /\ \A n \in 1 .. Len(added) : f[n] = Add(f[n - 1], added[n])

LEMMA Saving ==
    ASSUME NEW added, Len(added) \in Nat
    PROVE  \E f : Saver(f, added) /\ PairsOf(added) = f[Len(added)]
  <1> DEFINE Part(n, g) == g = [i \in 0 .. n |-> IF i = 0 THEN <<>>
                                                 ELSE Add(g[i - 1], added[i])]
             S == {n \in Nat : \E g : Part(n, g)}
  <1>1. 0 \in S
    <2>1. Part(0, [i \in 0 .. 0 |-> <<>>])  OBVIOUS
    <2> QED  BY <2>1
  <1>2. ASSUME NEW n \in Nat, n \in S PROVE n + 1 \in S
    <2>1. PICK g : Part(n, g)  BY <1>2
    <2> DEFINE h == [i \in 0 .. n + 1 |->
                        IF i = n + 1 THEN Add(g[n], added[n + 1]) ELSE g[i]]
    <2>2. ASSUME NEW i \in 0 .. n + 1
          PROVE  h[i] = IF i = 0 THEN <<>> ELSE Add(h[i - 1], added[i])
      <3>1. CASE i = n + 1
        <4>1. i - 1 = n /\ n \in 0 .. n + 1 /\ n # n + 1 /\ i # 0  BY <3>1
        <4> QED  BY <3>1, <4>1
      <3>2. CASE i # n + 1
        <4>1. i \in 0 .. n  BY <3>2
        <4>2. h[i] = g[i]  BY <3>2
        <4>3. g[i] = IF i = 0 THEN <<>> ELSE Add(g[i - 1], added[i])  BY <2>1, <4>1
        <4>4. CASE i = 0  BY <4>2, <4>3, <4>4
        <4>5. CASE i # 0
          <5>1. i - 1 \in 0 .. n + 1 /\ i - 1 # n + 1  BY <4>1, <4>5
          <5>2. h[i - 1] = g[i - 1]  BY <5>1
          <5> QED  BY <4>2, <4>3, <4>5, <5>2
        <4> QED  BY <4>4, <4>5
      <3> QED  BY <3>1, <3>2
    <2>3. Part(n + 1, h)
      <3>1. h = [i \in 0 .. n + 1 |-> h[i]]  OBVIOUS
      <3> HIDE DEF h
      <3> QED  BY <2>2, <3>1
    <2> HIDE DEF h
    <2>4. \E f : Part(n + 1, f)  BY <2>3, Zenon
    <2> QED  BY <2>4
  <1> HIDE DEF S
  <1>3. Len(added) \in S  BY <1>1, <1>2, Induction
  <1> DEFINE pairs == CHOOSE g : Part(Len(added), g)
  <1>4. Part(Len(added), pairs)
    <2>1. \E g : Part(Len(added), g)  BY <1>3 DEF S
    <2> QED  BY <2>1, Zenon
  <1>5. PairsOf(added) = pairs[Len(added)]  BY DEF PairsOf
  <1> HIDE DEF pairs
  <1>6. Saver(pairs, added)
    <2>1. pairs[0] = <<>>  BY <1>4
    <2>2. ASSUME NEW n \in 1 .. Len(added) PROVE pairs[n] = Add(pairs[n - 1], added[n])
      BY <1>4
    <2> QED  BY <2>1, <2>2 DEF Saver
  <1> QED  BY <1>5, <1>6

\* Registers two by two.  X30 fills a pair, and is in the first one.
Paired(pairs) == /\ pairs \in Seq(Registers \X Registers)
                 /\ pairs # <<>> => pairs[1][1] = X30
Among(pairs, r) == \E j \in 1 .. Len(pairs) : r = pairs[j][1] \/ r = pairs[j][2]

LEMMA AddAlwaysKeeps ==
    ASSUME NEW pairs, Paired(pairs), NEW r \in Registers, pairs = <<>> => r = X30
    PROVE  /\ Paired(AddAlways(pairs, r)) /\ AddAlways(pairs, r) # <<>>
           /\ \A q : Among(AddAlways(pairs, r), q) => Among(pairs, q) \/ q = r \/ q = X30
           /\ \A q : Among(pairs, q) \/ q = r => Among(AddAlways(pairs, r), q)
  <1>1. X30 \in Registers  BY DEF X30, Registers
  <1>2. pairs \in [1 .. Len(pairs) -> Registers \X Registers] /\ Len(pairs) \in Nat
        /\ DOMAIN pairs = 1 .. Len(pairs)
    BY LenProperties DEF Paired
  <1>3. (\E p \in ToSet(pairs) : r \in ToSet(p)) <=> Among(pairs, r)
    <2>1. ASSUME NEW j \in 1 .. Len(pairs) PROVE ToSet(pairs[j]) = {pairs[j][1], pairs[j][2]}
      <3>1. PICK a \in Registers, b \in Registers : pairs[j] = <<a, b>>  BY <1>2
      <3>2. ToSet(<<a, b>>) = {a, b}  BY DEF ToSet
      <3> QED  BY <3>1, <3>2
    <2>2. ToSet(pairs) = {pairs[j] : j \in 1 .. Len(pairs)}  BY <1>2 DEF ToSet
    <2> QED  BY <2>1, <2>2 DEF Among
  <1>4. CASE Among(pairs, r)
    <2>1. AddAlways(pairs, r) = pairs  BY <1>3, <1>4 DEF AddAlways
    <2>2. pairs # <<>>  BY <1>4 DEF Among
    <2> QED  BY <1>4, <2>1, <2>2
  <1>5. CASE ~Among(pairs, r) /\ pairs # <<>> /\ Last(pairs)[2] = X30
    <2> DEFINE l == Len(pairs)
               new == [pairs EXCEPT ![l][2] = r]
    <2>1. AddAlways(pairs, r) = new  BY <1>3, <1>5 DEF AddAlways
    <2>2. l \in 1 .. l /\ 1 \in 1 .. l  BY <1>2, <1>5, EmptySeq DEF Paired
    <2>3. pairs[l][2] = X30  BY <1>5 DEF Last
    <2>4. /\ Len(new) = l /\ new \in [1 .. l -> Registers \X Registers]
          /\ new[l][1] = pairs[l][1] /\ new[l][2] = r
          /\ \A j \in 1 .. l : j # l => new[j] = pairs[j]
      <3>1. PICK a \in Registers, b \in Registers : pairs[l] = <<a, b>>  BY <1>2, <2>2
      <3>2. new = [pairs EXCEPT ![l] = <<a, r>>]
        <4>1. [<<a, b>> EXCEPT ![2] = r] = <<a, r>>  OBVIOUS
        <4>2. new = [pairs EXCEPT ![l] = [pairs[l] EXCEPT ![2] = r]]  OBVIOUS
        <4> QED  BY <3>1, <4>1, <4>2
      <3> QED  BY <1>2, <2>2, <3>1, <3>2
    <2> HIDE DEF new
    <2>5. new \in Seq(Registers \X Registers) /\ new # <<>>
      <3>1. new \in Seq(Registers \X Registers)
        <4> DEFINE T == Registers \X Registers
        <4>1. l \in Nat /\ new \in [1 .. l -> T]  BY <1>2, <2>4
        <4> HIDE DEF l, T
        <4>2. new \in Seq(T)  BY <4>1, SeqDef
        <4> QED  BY <4>2 DEF T
      <3>2. Len(<<>>) = 0  BY EmptySeq
      <3>3. \A k \in Nat : k \in 1 .. k => k # 0  OBVIOUS
      <3>4. l # 0  BY <1>2, <2>2, <3>3
      <3>5. Len(new) = l  BY <2>4
      <3> HIDE DEF l
      <3> QED  BY <3>1, <3>2, <3>4, <3>5
    <2>6. new[1][1] = X30  BY <1>5, <2>2, <2>4 DEF Paired
    <2>7. \A j \in 1 .. l : new[j][1] = pairs[j][1]  BY <2>4
    <2>8. \A j \in 1 .. l : j # l => new[j][2] = pairs[j][2]  BY <2>4
    <2>9. ASSUME NEW q, Among(pairs, q) \/ q = r PROVE Among(new, q)
      <3>1. CASE q = r  BY <2>2, <2>4, <3>1 DEF Among
      <3>2. CASE q = X30  BY <2>2, <2>4, <2>6, <3>2 DEF Among
      <3>3. CASE Among(pairs, q) /\ q # X30
        BY <2>3, <2>4, <2>7, <2>8, <3>3 DEF Among
      <3> QED  BY <2>9, <3>1, <3>2, <3>3
    <2>10. ASSUME NEW q, Among(new, q) PROVE Among(pairs, q) \/ q = r
      BY <2>4, <2>7, <2>8, <2>10 DEF Among
    <2> QED  BY <2>1, <2>5, <2>6, <2>9, <2>10 DEF Paired
  <1>6. CASE ~Among(pairs, r) /\ ~(pairs # <<>> /\ Last(pairs)[2] = X30)
    <2> DEFINE new == Append(pairs, <<r, X30>>)
    <2>1. AddAlways(pairs, r) = new  BY <1>3, <1>6 DEF AddAlways
    <2>2. /\ new \in Seq(Registers \X Registers) /\ Len(new) = Len(pairs) + 1
          /\ new[Len(pairs) + 1] = <<r, X30>>
          /\ \A j \in 1 .. Len(pairs) : new[j] = pairs[j]
      BY <1>1, <1>2, AppendProperties DEF Paired
    <2> HIDE DEF new
    <2>3. \A j : j \in 1 .. Len(new) <=> j \in 1 .. Len(pairs) \/ j = Len(pairs) + 1
      BY <1>2, <2>2
    <2>4. new # <<>>  BY <1>2, <2>2
    <2>5. new[1][1] = X30
      <3>1. CASE pairs = <<>>  BY <2>2, <3>1
      <3>2. CASE pairs # <<>>
        <4>1. 1 \in 1 .. Len(pairs)  BY <1>2, <3>2, EmptySeq DEF Paired
        <4> QED  BY <2>2, <3>2, <4>1 DEF Paired
      <3> QED  BY <3>1, <3>2
    <2>6. Paired(new)  BY <2>2, <2>5 DEF Paired
    <2>7. \A q : Among(new, q) <=> Among(pairs, q) \/ q = r \/ q = X30
      <3>1. new[Len(pairs) + 1][1] = r /\ new[Len(pairs) + 1][2] = X30  BY <2>2
      <3> QED  BY <2>2, <2>3, <3>1 DEF Among
    <2> QED  BY <2>1, <2>4, <2>6, <2>7
  <1> QED  BY <1>4, <1>5, <1>6

Wanted(a) == a.always \/ a.register \in AArch64.callee_saved
Addition == [register : Registers, always : BOOLEAN]

\* Whatever is added to a saver, X30 first, is in a pair, and nothing else.
THEOREM PairsHaveWhatIsAdded ==
    ASSUME NEW added \in Seq(Addition), added # <<>>,
           added[1] = [register |-> X30, always |-> TRUE]
    PROVE  /\ Paired(PairsOf(added))
           /\ \A q : Among(PairsOf(added), q) <=>
                       \E n \in 1 .. Len(added) : Wanted(added[n]) /\ q = added[n].register
  <1> DEFINE N == Len(added)
             Sought(n, q) == \E j \in 1 .. n : Wanted(added[j]) /\ q = added[j].register
  <1>1. N \in Nat \ {0} /\ added \in [1 .. N -> Addition]  BY LenProperties, EmptySeq
  <1>2. PICK f : Saver(f, added) /\ PairsOf(added) = f[N]  BY <1>1, Saving
  <1> DEFINE S == {n \in 0 .. N : /\ Paired(f[n]) /\ (n > 0 => f[n] # <<>>)
                                  /\ n = 0 => f[n] = <<>>
                                  /\ \A q : Among(f[n], q) <=> Sought(n, q)}
  <1>3. 0 \in S
    <2>1. f[0] = <<>>  BY <1>2 DEF Saver
    <2>2. Paired(<<>>)  BY EmptySeq DEF Paired
    <2>3. \A q : ~Among(<<>>, q) /\ ~Sought(0, q)
      <3>1. Len(<<>>) = 0  BY EmptySeq
      <3> QED  BY <3>1 DEF Among
    <2> HIDE DEF Sought
    <2> QED  BY <1>1, <2>1, <2>2, <2>3
  <1>4. ASSUME NEW n \in 0 .. N - 1, n \in S PROVE n + 1 \in S
    <2>1. n + 1 \in 1 .. N /\ (n + 1) - 1 = n /\ n + 1 \in 0 .. N /\ n + 1 > 0  BY <1>1
    <2> DEFINE a == added[n + 1]
               pairs == f[n]
    <2>2. f[n + 1] = Add(pairs, a)  BY <1>2, <2>1 DEF Saver
    <2>3. a.register \in Registers /\ a.always \in BOOLEAN  BY <1>1, <2>1 DEF Addition
    <2>4. \A q : Sought(n + 1, q) <=> Sought(n, q) \/ (Wanted(a) /\ q = a.register)
      <3>1. \A j : j \in 1 .. n + 1 <=> j \in 1 .. n \/ j = n + 1  BY <2>1
      <3> QED  BY <3>1
    <2>5. n = 0 => Wanted(a) /\ a.register = X30  BY DEF Wanted
    <2>6. n > 0 => Sought(n, X30)
      <3>1. ASSUME n > 0 PROVE 1 \in 1 .. n  BY <3>1
      <3>2. Wanted(added[1]) /\ added[1].register = X30  BY DEF Wanted
      <3> QED  BY <3>1, <3>2
    <2>7. /\ Paired(pairs) /\ (n > 0 => pairs # <<>>) /\ (n = 0 => pairs = <<>>)
          /\ \A q : Among(pairs, q) <=> Sought(n, q)
      BY <1>4
    <2>8. n = 0 \/ n > 0  BY <1>1
    <2> HIDE DEF a, pairs, Sought
    <2>9. CASE Wanted(a)
      <3> DEFINE new == AddAlways(pairs, a.register)
      <3>1. f[n + 1] = new  BY <2>2, <2>9 DEF Add, Wanted
      <3>2. /\ Paired(new) /\ new # <<>>
            /\ \A q : Among(new, q) => Among(pairs, q) \/ q = a.register \/ q = X30
            /\ \A q : Among(pairs, q) \/ q = a.register => Among(new, q)
        BY <2>3, <2>5, <2>7, <2>8, AddAlwaysKeeps
      <3> HIDE DEF new
      <3>3. \A q : Among(new, q) <=> Sought(n + 1, q)
        BY <2>4, <2>5, <2>6, <2>7, <2>8, <2>9, <3>2
      <3> QED  BY <2>1, <3>1, <3>2, <3>3
    <2>10. CASE ~Wanted(a)
      <3>1. f[n + 1] = pairs  BY <2>2, <2>10 DEF Add, Wanted
      <3>2. n > 0  BY <2>5, <2>8, <2>10
      <3>3. \A q : Among(pairs, q) <=> Sought(n + 1, q)  BY <2>4, <2>7, <2>10
      <3> QED  BY <2>1, <2>7, <3>1, <3>2, <3>3
    <2> QED  BY <2>9, <2>10
  <1>5. N \in S
    <2> HIDE DEF S
    <2>1. \A n \in 0 .. N : n \in S  BY <1>1, <1>3, <1>4, InductionUpTo, Zenon
    <2> QED  BY <1>1, <2>1
  <1> QED  BY <1>2, <1>5

Wants(added) == {added[n].register : n \in {k \in 1 .. Len(added) : Wanted(added[k])}}

LEMMA WantsBoth ==
    ASSUME NEW s \in Seq(Addition), NEW t \in Seq(Addition)
    PROVE  s \o t \in Seq(Addition) /\ Wants(s \o t) = Wants(s) \union Wants(t)
  <1> DEFINE k == Len(s)
             l == Len(t)
             u == s \o t
  <1>1. k \in Nat /\ l \in Nat  BY LenProperties
  <1>2. /\ u \in Seq(Addition) /\ Len(u) = k + l
        /\ \A i \in 1 .. k + l : u[i] = IF i <= k THEN s[i] ELSE t[i - k]
    BY ConcatProperties
  <1> HIDE DEF k, l, u
  <1>3. \A i \in 1 .. k : u[i] = s[i] /\ i \in 1 .. k + l  BY <1>1, <1>2
  <1>4. \A i \in 1 .. l : u[k + i] = t[i] /\ k + i \in 1 .. k + l
    <2>1. \A i \in 1 .. l : k + i \in 1 .. k + l /\ ~(k + i <= k) /\ (k + i) - k = i
      BY <1>1
    <2> QED  BY <1>2, <2>1
  <1>5. \A i \in 1 .. k + l : (i \in 1 .. k /\ u[i] = s[i])
                              \/ (i - k \in 1 .. l /\ u[i] = t[i - k])
    BY <1>1, <1>2
  <1>6. ASSUME NEW q \in Wants(u) PROVE q \in Wants(s) \union Wants(t)
    <2>1. PICK i \in 1 .. k + l : Wanted(u[i]) /\ q = u[i].register
      BY <1>2 DEF Wants
    <2>2. CASE i \in 1 .. k /\ u[i] = s[i]  BY <2>1, <2>2 DEF Wants, k
    <2>3. CASE i - k \in 1 .. l /\ u[i] = t[i - k]  BY <2>1, <2>3 DEF Wants, l
    <2> QED  BY <1>5, <2>2, <2>3
  <1>7. ASSUME NEW q \in Wants(s) PROVE q \in Wants(u)
    <2>1. PICK i \in 1 .. k : Wanted(s[i]) /\ q = s[i].register  BY DEF Wants, k
    <2> QED  BY <1>2, <1>3, <2>1 DEF Wants
  <1>8. ASSUME NEW q \in Wants(t) PROVE q \in Wants(u)
    <2>1. PICK i \in 1 .. l : Wanted(t[i]) /\ q = t[i].register  BY DEF Wants, l
    <2> QED  BY <1>2, <1>4, <2>1 DEF Wants
  <1> QED  BY <1>2, <1>6, <1>7, <1>8 DEF u

LEMMA WantsOfAlways ==
    ASSUME NEW r \in Registers
    PROVE  Always(r) \in Seq(Addition) /\ Wants(Always(r)) = {r}
  <1> DEFINE a == [register |-> r, always |-> TRUE]
  <1>1. a \in Addition /\ Wanted(a) /\ a.register = r  BY DEF Addition, Wanted
  <1>2. Always(r) = <<a>>  BY DEF Always
  <1> HIDE DEF a
  <1>3. <<a>> \in Seq(Addition) /\ Len(<<a>>) = 1 /\ <<a>>[1] = a  BY <1>1
  <1> QED  BY <1>1, <1>2, <1>3 DEF Wants

LEMMA WantsOfCalleeSaved ==
    ASSUME NEW regs \in Seq(Registers)
    PROVE  /\ CalleeSaved(regs) \in Seq(Addition)
           /\ Wants(CalleeSaved(regs)) = ToSet(regs) \intersect AArch64.callee_saved
  <1> DEFINE all == CalleeSaved(regs)
  <1>1. Len(regs) \in Nat /\ regs \in [1 .. Len(regs) -> Registers]
        /\ DOMAIN regs = 1 .. Len(regs)
    BY LenProperties
  <1>2. all = [i \in 1 .. Len(regs) |-> [register |-> regs[i], always |-> FALSE]]
    BY <1>1 DEF CalleeSaved
  <1>3. \A i \in 1 .. Len(regs) : [register |-> regs[i], always |-> FALSE] \in Addition
    BY <1>1 DEF Addition
  <1>4. all \in Seq(Addition) /\ Len(all) = Len(regs)  BY <1>1, <1>2, <1>3
  <1>5. \A i \in 1 .. Len(all) : /\ all[i].register = regs[i]
                                 /\ Wanted(all[i]) <=> regs[i] \in AArch64.callee_saved
    BY <1>2, <1>4 DEF Wanted
  <1> HIDE DEF all
  <1>6. Wants(all) = ToSet(regs) \intersect AArch64.callee_saved
    BY <1>1, <1>4, <1>5 DEF Wants, ToSet
  <1> QED  BY <1>4, <1>6 DEF all

LEMMA ConcatFirst ==
    ASSUME NEW S, NEW s \in Seq(S), NEW t \in Seq(S), Len(s) > 0
    PROVE  Len(s \o t) > 0 /\ (s \o t)[1] = s[1]
  <1>1. Len(s) \in Nat /\ Len(t) \in Nat  BY LenProperties
  <1>2. Len(s \o t) = Len(s) + Len(t)  BY ConcatProperties, Zenon
  <1>3. 1 \in 1 .. Len(s) + Len(t) /\ 1 <= Len(s)  BY <1>1
  <1>4. (s \o t)[1] = IF 1 <= Len(s) THEN s[1] ELSE t[1 - Len(s)]
    <2>1. \A i \in 1 .. Len(s) + Len(t) :
            (s \o t)[i] = IF i <= Len(s) THEN s[i] ELSE t[i - Len(s)]
      BY ConcatProperties
    <2> QED  BY <1>3, <2>1
  <1> QED  BY <1>1, <1>2, <1>3, <1>4

\* What is saved on AArch64: all that the ABI asks for, the return address and
\* the trampoline's own register.
LEMMA PairsAre ==
    /\ Paired(Pairs)
    /\ \A q : Among(Pairs, q) <=> q = X30 \/ q = AArch64.trampoline_block
                                  \/ q \in AArch64.callee_saved
  <1> DEFINE low == ContextRegisters(AArch64) \o Scratch
                      \o <<AArch64.exit_reason, AArch64.exit_pc>>
             tb == AArch64.trampoline_block
             a == Always(X30)
             b == CalleeSaved(low)
             c == Always(tb)
             d == CalleeSaved(Cache)
  <1>1. AArch64.callee_saved = 19 .. 28 /\ tb = 8 /\ X30 = 30
        /\ AArch64.context = ContextA64 /\ AArch64.exit_reason = 0 /\ AArch64.exit_pc = 1
    BY DEF AArch64, X30
  <1>2. low \in Seq(0 .. 10)
    <2>1. ContextRegisters(AArch64) = <<0, 1, 2, 3, 4, 5, 6>>
      BY <1>1 DEF ContextRegisters, ContextA64
    <2>2. <<0, 1, 2, 3, 4, 5, 6>> \in Seq(0 .. 10)  OBVIOUS
    <2>3. Scratch \in Seq(0 .. 10)  BY DEF Scratch
    <2>4. <<AArch64.exit_reason, AArch64.exit_pc>> \in Seq(0 .. 10)  BY <1>1
    <2>5. ContextRegisters(AArch64) \o Scratch \in Seq(0 .. 10)
      BY <2>1, <2>2, <2>3, ConcatProperties
    <2> QED  BY <2>4, <2>5, ConcatProperties
  <1> HIDE DEF low
  <1>3. /\ low \in Seq(Registers) /\ ToSet(low) \intersect 19 .. 28 = {}
    <2>1. 0 .. 10 \subseteq Registers /\ 0 .. 10 \intersect 19 .. 28 = {}  BY DEF Registers
    <2>2. \A n \in DOMAIN low : low[n] \in 0 .. 10  BY <1>2, LenProperties
    <2>3. ToSet(low) \subseteq 0 .. 10  BY <2>2 DEF ToSet
    <2> QED  BY <1>2, <2>1, <2>3, SeqMonotonic
  <1>4. Cache \in Seq(Registers)  BY DEF Cache, Registers
  <1>5. ToSet(Cache) \intersect 19 .. 28 = 19 .. 28
    <2>1. \A q \in 19 .. 28 : Cache[q - 11] = q /\ q - 11 \in DOMAIN Cache  BY DEF Cache
    <2> QED  BY <2>1 DEF ToSet
  <1>6. tb \in Registers /\ X30 \in Registers  BY <1>1 DEF Registers
  <1>7. /\ a \in Seq(Addition) /\ b \in Seq(Addition) /\ c \in Seq(Addition)
        /\ d \in Seq(Addition)
        /\ Wants(a) = {X30} /\ Wants(b) = {} /\ Wants(c) = {tb} /\ Wants(d) = 19 .. 28
    BY <1>1, <1>3, <1>4, <1>5, <1>6, WantsOfAlways, WantsOfCalleeSaved
  <1>8. Added = a \o b \o c \o d  BY DEF Added, low
  <1>9. a[1] = [register |-> X30, always |-> TRUE] /\ Len(a) = 1  BY DEF Always
  <1> HIDE DEF a, b, c, d
  <1>10. a \o b \in Seq(Addition) /\ Wants(a \o b) = {X30}  BY <1>7, WantsBoth
  <1> DEFINE e == a \o b
             g == e \o c
  <1>11. g \in Seq(Addition) /\ Wants(g) = {X30, tb}
    <2> HIDE DEF e
    <2>1. e \in Seq(Addition) /\ Wants(e) = {X30}  BY <1>10 DEF e
    <2>2. Wants(e \o c) = Wants(e) \union Wants(c) /\ e \o c \in Seq(Addition)
      BY <1>7, <2>1, WantsBoth, Zenon
    <2> QED  BY <1>7, <2>1, <2>2
  <1>12. Added \in Seq(Addition) /\ Wants(Added) = {X30, tb} \union 19 .. 28
    <2> HIDE DEF g
    <2> QED  BY <1>7, <1>8, <1>11, WantsBoth DEF g
  <1>13. Added # <<>> /\ Added[1] = [register |-> X30, always |-> TRUE]
    <2>1. Len(a) > 0  BY <1>9
    <2>2. Len(e) > 0 /\ e[1] = a[1]
      <3>1. a \in Seq(Addition) /\ b \in Seq(Addition)  BY <1>7
      <3> QED  BY <2>1, <3>1, ConcatFirst
    <2>3. e \in Seq(Addition)  BY <1>10
    <2> HIDE DEF e
    <2>4. Len(g) > 0 /\ g[1] = e[1]  BY <1>7, <2>2, <2>3, ConcatFirst, Zenon
    <2> HIDE DEF g
    <2>5. Added = g \o d  BY <1>8 DEF g, e
    <2>6. Len(Added) > 0 /\ Added[1] = g[1]
      BY <1>7, <1>11, <2>4, <2>5, ConcatFirst, Zenon
    <2> QED  BY <1>9, <2>2, <2>4, <2>6, EmptySeq
  <1>14. /\ Paired(Pairs)
         /\ \A q : Among(Pairs, q) <=>
                     \E n \in 1 .. Len(Added) : Wanted(Added[n]) /\ q = Added[n].register
    BY <1>12, <1>13, PairsHaveWhatIsAdded DEF Pairs
  <1>15. \A q : Among(Pairs, q) <=> q \in Wants(Added)  BY <1>14 DEF Wants
  <1> QED  BY <1>1, <1>12, <1>14, <1>15

-----------------------------------------------------------------------------
LEMMA ExecuteOne ==
    ASSUME NEW m, NEW i
    PROVE  Execute(m, <<i>>) = Step(m, i)
  <1>1. Len(<<i>>) = 1 /\ <<i>>[1] = i  OBVIOUS
  <1>2. PICK f : Run(f, m, <<i>>) /\ Execute(m, <<i>>) = f[1]
    <2>1. \E f : Run(f, m, <<i>>) /\ Execute(m, <<i>>) = f[Len(<<i>>)]
      BY <1>1, Execution
    <2> QED  BY <1>1, <2>1
  <1>3. 1 \in 1 .. 1 /\ 1 - 1 = 0  OBVIOUS
  <1> QED  BY <1>1, <1>2, <1>3 DEF Run

LEMMA MovStep ==
    ASSUME NEW V, NEW F, NEW m \in Machines(V, F), NEW to \in Registers,
           NEW from \in Registers
    PROVE  /\ Step(m, Mov(to, from)).registers =
                [m.registers EXCEPT ![to] = m.registers[from]]
           /\ Step(m, Mov(to, from)).stack = m.stack
           /\ Step(m, Mov(to, from)).block = m.block
           /\ Step(m, Mov(to, from)) \in Machines(V, F)
  <1>1. Step(m, Mov(to, from)) = [m EXCEPT !.registers[to] = m.registers[from]]
    BY DEF Step, Mov, Instruction
  <1>2. [m.registers EXCEPT ![to] = m.registers[from]] \in [Registers -> V]
    BY DEF Machines
  <1> QED  BY <1>1, <1>2 DEF Machines

LEMMA LoadStep ==
    ASSUME NEW V, NEW F, NEW m \in Machines(V, F), NEW r \in Registers,
           NEW from \in Registers, NEW field \in F, IsBlock(m.registers[from])
    PROVE  /\ Step(m, Load(r, from, field)).registers =
                [m.registers EXCEPT ![r] = m.block[field]]
           /\ Step(m, Load(r, from, field)).stack = m.stack
           /\ Step(m, Load(r, from, field)).block = m.block
           /\ Step(m, Load(r, from, field)) \in Machines(V, F)
  <1>1. Step(m, Load(r, from, field)) = [m EXCEPT !.registers[r] = m.block[field]]
    BY DEF Step, Load, Instruction
  <1>2. [m.registers EXCEPT ![r] = m.block[field]] \in [Registers -> V]
    BY DEF Machines
  <1> QED  BY <1>1, <1>2 DEF Machines

LEMMA StoreStep ==
    ASSUME NEW V, NEW F, NEW m \in Machines(V, F), NEW r \in Registers,
           NEW to \in Registers, NEW field \in F, IsBlock(m.registers[to])
    PROVE  /\ \A f \in F : Step(m, Store(r, to, field)).block[f] =
                             IF f = field THEN m.registers[r] ELSE m.block[f]
           /\ Step(m, Store(r, to, field)).stack = m.stack
           /\ Step(m, Store(r, to, field)).registers = m.registers
           /\ Step(m, Store(r, to, field)) \in Machines(V, F)
  <1>1. Step(m, Store(r, to, field)) = [m EXCEPT !.block[field] = m.registers[r]]
    BY DEF Step, Store, Instruction
  <1>2. [m.block EXCEPT ![field] = m.registers[r]] \in [F -> V]
    BY DEF Machines
  <1> QED  BY <1>1, <1>2 DEF Machines

\* What a host gives each field of the block, a register of its own.
HasContext(h, F) ==
    /\ h.context \in Seq(Registers \X F) /\ h.trampoline_block \in Registers
    /\ \A i \in 1 .. Len(h.context) : h.context[i][1] # h.trampoline_block
    /\ \A i, j \in 1 .. Len(h.context) : h.context[i][1] = h.context[j][1] => i = j

LEMMA LoadsExecute ==
    ASSUME NEW V, NEW F, NEW m \in Machines(V, F), NEW h, HasContext(h, F),
           IsBlock(m.registers[h.trampoline_block])
    PROVE  /\ Execute(m, Loads(h)) \in Machines(V, F)
           /\ Execute(m, Loads(h)).stack = m.stack
           /\ Execute(m, Loads(h)).block = m.block
           /\ \A i \in 1 .. Len(h.context) :
                 Execute(m, Loads(h)).registers[h.context[i][1]] = m.block[h.context[i][2]]
           /\ \A r \in Registers : (\A i \in 1 .. Len(h.context) : h.context[i][1] # r) =>
                 Execute(m, Loads(h)).registers[r] = m.registers[r]
  <1> DEFINE N == Len(h.context)
             reg(i) == h.context[i][1]
             field(i) == h.context[i][2]
             tb == h.trampoline_block
  <1>1. /\ N \in Nat /\ DOMAIN h.context = 1 .. N
        /\ \A i \in 1 .. N : h.context[i] \in Registers \X F
    BY LenProperties DEF HasContext
  <1>2. \A i \in 1 .. N : reg(i) \in Registers /\ field(i) \in F /\ reg(i) # tb
    BY <1>1 DEF HasContext
  <1>3. \A i, j \in 1 .. N : reg(i) = reg(j) => i = j  BY DEF HasContext
  <1>4. tb \in Registers  BY DEF HasContext
  <1>5. Len(Loads(h)) = N /\ \A i \in 1 .. N : Loads(h)[i] = Load(reg(i), tb, field(i))
    BY <1>1 DEF Loads
  <1>6. PICK f : Run(f, m, Loads(h)) /\ Execute(m, Loads(h)) = f[N]
    <2>1. \E f : Run(f, m, Loads(h)) /\ Execute(m, Loads(h)) = f[Len(Loads(h))]
      BY <1>1, <1>5, Execution
    <2> QED  BY <1>5, <2>1
  <1> DEFINE S == {k \in 0 .. N :
                     /\ f[k] \in Machines(V, F) /\ f[k].stack = m.stack
                     /\ f[k].block = m.block
                     /\ \A i \in 1 .. k : f[k].registers[reg(i)] = m.block[field(i)]
                     /\ \A r \in Registers : (\A i \in 1 .. N : reg(i) # r) =>
                           f[k].registers[r] = m.registers[r]}
  <1>7. 0 \in S  BY <1>1, <1>6 DEF Run
  <1> HIDE DEF reg, field, tb, N
  <1>8. ASSUME NEW k \in 0 .. N - 1, k \in S PROVE k + 1 \in S
    <2>1. k + 1 \in 1 .. N /\ (k + 1) - 1 = k /\ k + 1 \in 0 .. N  BY <1>1
    <2> DEFINE now == f[k]
               new == f[k + 1]
    <2>2. new = Step(now, Load(reg(k + 1), tb, field(k + 1)))
      BY <1>5, <1>6, <2>1 DEF Run
    <2>3. now \in Machines(V, F) /\ now.registers[tb] = m.registers[tb]
      BY <1>2, <1>4, <1>8
    <2>4. /\ now.block = m.block /\ now.stack = m.stack
          /\ \A i \in 1 .. k : now.registers[reg(i)] = m.block[field(i)]
          /\ \A r \in Registers : (\A i \in 1 .. N : reg(i) # r) =>
                now.registers[r] = m.registers[r]
      BY <1>8
    <2>5. IsBlock(now.registers[tb])  BY <2>3 DEF tb
    <2> HIDE DEF now, new
    <2>6. /\ new.registers = [now.registers EXCEPT ![reg(k + 1)] = now.block[field(k + 1)]]
          /\ new.stack = now.stack /\ new.block = now.block /\ new \in Machines(V, F)
      <3> DEFINE r == reg(k + 1)
                 x == field(k + 1)
      <3>1. r \in Registers /\ x \in F  BY <1>2, <2>1
      <3> HIDE DEF r, x
      <3>2. /\ Step(now, Load(r, tb, x)).registers = [now.registers EXCEPT ![r] = now.block[x]]
            /\ Step(now, Load(r, tb, x)).stack = now.stack
            /\ Step(now, Load(r, tb, x)).block = now.block
            /\ Step(now, Load(r, tb, x)) \in Machines(V, F)
        BY <1>4, <2>3, <2>5, <3>1, LoadStep
      <3> QED  BY <2>2, <3>2 DEF r, x
    <2>7. DOMAIN now.registers = Registers  BY <2>3 DEF Machines
    <2>8. ASSUME NEW i \in 1 .. k + 1 PROVE new.registers[reg(i)] = m.block[field(i)]
      <3>1. i \in 1 .. N /\ (i = k + 1 \/ i \in 1 .. k)  BY <1>1
      <3>2. CASE i = k + 1  BY <1>2, <2>1, <2>4, <2>6, <2>7, <3>2
      <3>3. CASE i \in 1 .. k
        <4>1. i # k + 1  BY <3>3
        <4>2. reg(i) # reg(k + 1)  BY <1>3, <2>1, <3>1, <4>1
        <4>3. now.registers[reg(i)] = m.block[field(i)]  BY <2>4, <3>3
        <4> QED  BY <1>2, <2>6, <2>7, <3>1, <4>2, <4>3
      <3> QED  BY <3>1, <3>2, <3>3
    <2>9. ASSUME NEW r \in Registers, \A i \in 1 .. N : reg(i) # r
          PROVE  new.registers[r] = m.registers[r]
      <3>1. reg(k + 1) # r  BY <2>1, <2>9
      <3> QED  BY <2>4, <2>6, <2>7, <2>9, <3>1
    <2> QED  BY <2>1, <2>4, <2>6, <2>8, <2>9 DEF new
  <1>9. N \in S
    <2> HIDE DEF S
    <2>1. \A k \in 0 .. N : k \in S  BY <1>1, <1>7, <1>8, InductionUpTo, Zenon
    <2> QED  BY <1>1, <2>1
  <1> QED  BY <1>6, <1>9 DEF N, reg, field

-----------------------------------------------------------------------------
\* The hosts.
AllFields(h) == Fields(h) \union {"exit_reason", "exit_pc"}
IsHost(h) ==
    /\ HasContext(h, AllFields(h))
    /\ {h.argument, h.exit_reason, h.exit_pc, h.trampoline_block} \subseteq Registers
    /\ h.argument \notin h.callee_saved /\ h.argument # X30
    /\ h.trampoline_block \notin {h.exit_reason, h.exit_pc}
    /\ h.exit_reason # h.exit_pc
    /\ h.trampoline_block # X30 /\ h.trampoline_block \notin h.callee_saved
IsX64(h) ==
    /\ OnX64(h) /\ h.saved \in Seq(Registers) /\ ToSet(h.saved) = h.callee_saved
    /\ Len(h.saved) % 2 = 0 /\ ~NeedsExtraPush(h)
IsAArch64(h) ==
    /\ ~OnX64(h) /\ h = AArch64
    /\ h.callee_saved \subseteq Registers /\ X30 \notin {h.exit_reason, h.exit_pc}
    /\ {h.exit_reason, h.exit_pc} \intersect h.callee_saved = {}

LEMMA AArch64IsHost == IsHost(AArch64) /\ IsAArch64(AArch64)
  <1> DEFINE h == AArch64
             c == ContextA64
  <1>1. /\ h.context = c /\ h.callee_saved = 19 .. 28 /\ h.argument = 0
        /\ h.trampoline_block = 8 /\ h.exit_reason = 0 /\ h.exit_pc = 1
        /\ h.name = "aarch64"
    BY DEF AArch64
  <1>2. c = <<<<0, "register_state">>, <<1, "memory_base">>, <<2, "permissions_base">>,
              <<3, "memory_size">>, <<4, "block_base">>, <<5, "max_executable_pc">>,
              <<6, "code_base">>>>
    BY DEF ContextA64
  <1>3. DOMAIN c = 1 .. 7 /\ Len(c) = 7  BY <1>2
  <1>4. \A i \in 1 .. 7 : c[i][1] = i - 1 /\ c[i] = <<c[i][1], c[i][2]>>
    <2>1. \A i \in 1 .. 7 : i \in {1, 2, 3, 4, 5, 6, 7}  OBVIOUS
    <2>2. c[1][1] = 0 /\ c[1] = <<c[1][1], c[1][2]>>  BY <1>2
    <2>3. c[2][1] = 1 /\ c[2] = <<c[2][1], c[2][2]>>  BY <1>2
    <2>4. c[3][1] = 2 /\ c[3] = <<c[3][1], c[3][2]>>  BY <1>2
    <2>5. c[4][1] = 3 /\ c[4] = <<c[4][1], c[4][2]>>  BY <1>2
    <2>6. c[5][1] = 4 /\ c[5] = <<c[5][1], c[5][2]>>  BY <1>2
    <2>7. c[6][1] = 5 /\ c[6] = <<c[6][1], c[6][2]>>  BY <1>2
    <2>8. c[7][1] = 6 /\ c[7] = <<c[7][1], c[7][2]>>  BY <1>2
    <2> HIDE DEF c
    <2> QED  BY <2>1, <2>2, <2>3, <2>4, <2>5, <2>6, <2>7, <2>8
  <1> HIDE DEF c, h
  <1>5. \A i \in 1 .. 7 : i - 1 \in Registers  BY DEF Registers
  <1>6. Fields(h) = {c[i][2] : i \in 1 .. 7}  BY <1>1, <1>3 DEF Fields
  <1>7. \A i \in 1 .. 7 : c[i] \in Registers \X AllFields(h)
    <2>1. TAKE i \in 1 .. 7
    <2>2. c[i][1] \in Registers /\ c[i][2] \in AllFields(h)
      BY <1>4, <1>5, <1>6 DEF AllFields
    <2>3. c[i] = <<c[i][1], c[i][2]>>  BY <1>4
    <2> QED  BY <2>2, <2>3, Zenon
  <1>8. c \in Seq(Registers \X AllFields(h))
    <2>1. c = [i \in 1 .. 7 |-> c[i]]  BY <1>2, <1>3
    <2> QED  BY <1>7, <2>1
  <1>10. HasContext(h, AllFields(h))
    <2>1. \A i \in 1 .. 7 : c[i][1] # 8  BY <1>4
    <2>2. \A i, j \in 1 .. 7 : c[i][1] = c[j][1] => i = j  BY <1>4
    <2>3. 8 \in Registers  BY DEF Registers
    <2> QED  BY <1>1, <1>3, <1>8, <2>1, <2>2, <2>3 DEF HasContext
  <1>11. {0, 1, 8} \subseteq Registers /\ 19 .. 28 \subseteq Registers  BY DEF Registers
  <1>12. IsHost(h)
    <2>1. {h.argument, h.exit_reason, h.exit_pc, h.trampoline_block} \subseteq Registers
      BY <1>1, <1>11
    <2> QED  BY <1>1, <1>10, <2>1 DEF IsHost, X30
  <1> QED  BY <1>1, <1>11, <1>12 DEF IsAArch64, OnX64, h, X30

LEMMA X64IsHost ==
    ASSUME NEW name, name # "aarch64",
           NEW saved \in Seq(Registers), Len(saved) % 2 = 0, (Len(saved) + 1) % 16 # 0,
           11 \notin ToSet(saved), NEW argument \in {1, 7}, argument \notin ToSet(saved)
    PROVE  LET h == X64(name, saved, ToSet(saved), argument) IN IsHost(h) /\ IsX64(h)
  <1> DEFINE h == X64(name, saved, ToSet(saved), argument)
             c == ContextX64
  <1>1. /\ h.context = c /\ h.callee_saved = ToSet(saved) /\ h.argument = argument
        /\ h.trampoline_block = 11 /\ h.exit_reason = 0 /\ h.exit_pc = 3
        /\ h.name = name /\ h.saved = saved
    BY DEF X64
  <1>2. c = <<<<6, "register_state">>, <<7, "memory_base">>, <<8, "permissions_base">>,
              <<9, "code_base">>, <<10, "block_base">>>>
    BY DEF ContextX64
  <1>3. DOMAIN c = 1 .. 5 /\ Len(c) = 5  BY <1>2
  <1>4. \A i \in 1 .. 5 : c[i][1] = i + 5 /\ c[i] = <<c[i][1], c[i][2]>>
    <2>1. \A i \in 1 .. 5 : i \in {1, 2, 3, 4, 5}  OBVIOUS
    <2>2. c[1][1] = 6 /\ c[1] = <<c[1][1], c[1][2]>>  BY <1>2
    <2>3. c[2][1] = 7 /\ c[2] = <<c[2][1], c[2][2]>>  BY <1>2
    <2>4. c[3][1] = 8 /\ c[3] = <<c[3][1], c[3][2]>>  BY <1>2
    <2>5. c[4][1] = 9 /\ c[4] = <<c[4][1], c[4][2]>>  BY <1>2
    <2>6. c[5][1] = 10 /\ c[5] = <<c[5][1], c[5][2]>>  BY <1>2
    <2> HIDE DEF c
    <2> QED  BY <2>1, <2>2, <2>3, <2>4, <2>5, <2>6
  <1> HIDE DEF c, h
  <1>5. \A i \in 1 .. 5 : i + 5 \in Registers  BY DEF Registers
  <1>6. Fields(h) = {c[i][2] : i \in 1 .. 5}  BY <1>1, <1>3 DEF Fields
  <1>7. \A i \in 1 .. 5 : c[i] \in Registers \X AllFields(h)
    <2>1. TAKE i \in 1 .. 5
    <2>2. c[i][1] \in Registers /\ c[i][2] \in AllFields(h)
      BY <1>4, <1>5, <1>6 DEF AllFields
    <2>3. c[i] = <<c[i][1], c[i][2]>>  BY <1>4
    <2> QED  BY <2>2, <2>3, Zenon
  <1>8. c \in Seq(Registers \X AllFields(h))
    <2>1. c = [i \in 1 .. 5 |-> c[i]]  BY <1>2, <1>3
    <2> QED  BY <1>7, <2>1
  <1>10. HasContext(h, AllFields(h))
    <2>1. \A i \in 1 .. 5 : c[i][1] # 11
      <3>1. \A i \in 1 .. 5 : i + 5 # 11  OBVIOUS
      <3> QED  BY <1>4, <3>1, Zenon
    <2>2. \A i, j \in 1 .. 5 : c[i][1] = c[j][1] => i = j
      <3>1. \A i, j \in 1 .. 5 : i + 5 = j + 5 => i = j  OBVIOUS
      <3>2. TAKE i, j \in 1 .. 5
      <3>3. c[i][1] = i + 5 /\ c[j][1] = j + 5  BY <1>4, Zenon
      <3> QED  BY <3>1, <3>3, Zenon
    <2>3. 11 \in Registers  BY DEF Registers
    <2> QED  BY <1>1, <1>3, <1>8, <2>1, <2>2, <2>3 DEF HasContext
  <1>11. {0, 1, 3, 7, 11} \subseteq Registers  BY DEF Registers
  <1>12. IsHost(h)
    <2>1. {h.argument, h.exit_reason, h.exit_pc, h.trampoline_block} \subseteq Registers
      BY <1>1, <1>11
    <2> QED  BY <1>1, <1>10, <2>1 DEF IsHost, X30
  <1>13. IsX64(h)  BY <1>1 DEF IsX64, OnX64, NeedsExtraPush
  <1> QED  BY <1>12, <1>13 DEF h

LEMMA HostsAreHosts ==
    ASSUME NEW h \in Hosts
    PROVE  IsHost(h) /\ (IsX64(h) \/ IsAArch64(h))
  <1>1. CASE h = AArch64  BY <1>1, AArch64IsHost
  <1>2. CASE h = SystemV
    <2> DEFINE saved == <<3, 5, 12, 13, 14, 15>>
    <2>1. saved \in Seq(Registers) /\ Len(saved) = 6 /\ DOMAIN saved = 1 .. 6
      BY DEF Registers
    <2>2. \A n \in 1 .. 6 : saved[n] \notin {1, 7, 11}  OBVIOUS
    <2>4. ToSet(saved) = {3, 5} \union 12 .. 15  BY DEF ToSet
    <2> HIDE DEF saved
    <2>3. \A r \in {1, 7, 11} : r \notin ToSet(saved)  BY <2>1, <2>2 DEF ToSet
    <2>5. Len(saved) % 2 = 0 /\ (Len(saved) + 1) % 16 # 0  BY <2>1
    <2>6. /\ IsHost(X64("systemv", saved, ToSet(saved), 7))
          /\ IsX64(X64("systemv", saved, ToSet(saved), 7))
      BY <2>1, <2>3, <2>5, X64IsHost
    <2> QED  BY <1>2, <2>4, <2>6 DEF SystemV, saved
  <1>3. CASE h = Windows
    <2> DEFINE saved == <<3, 5, 7, 6, 12, 13, 14, 15>>
    <2>1. saved \in Seq(Registers) /\ Len(saved) = 8 /\ DOMAIN saved = 1 .. 8
      BY DEF Registers
    <2>2. \A n \in 1 .. 8 : saved[n] \notin {1, 11}  OBVIOUS
    <2>4. ToSet(saved) = {3, 5, 6, 7} \union 12 .. 15  BY DEF ToSet
    <2> HIDE DEF saved
    <2>3. \A r \in {1, 11} : r \notin ToSet(saved)  BY <2>1, <2>2 DEF ToSet
    <2>5. Len(saved) % 2 = 0 /\ (Len(saved) + 1) % 16 # 0  BY <2>1
    <2>6. /\ IsHost(X64("windows", saved, ToSet(saved), 1))
          /\ IsX64(X64("windows", saved, ToSet(saved), 1))
      BY <2>1, <2>3, <2>5, X64IsHost
    <2> QED  BY <1>3, <2>4, <2>6 DEF Windows, saved
  <1> QED  BY <1>1, <1>2, <1>3 DEF Hosts

-----------------------------------------------------------------------------
\* The code of the trampolines.
Operations == {"mov", "push", "pop", "load", "store"}
Instructions(F) == [op : Operations, regs : Seq(Registers), field : F \union {""}]
Code(F) == Seq(Instructions(F))

LEMMA CodeOfGroups ==
    ASSUME NEW F, NEW groups \in Seq(Seq(Registers))
    PROVE  Saves(groups) \in Code(F) /\ Restores(groups) \in Code(F)
  <1> DEFINE N == Len(groups)
  <1>1. N \in Nat /\ DOMAIN groups = 1 .. N
        /\ \A n \in 1 .. N : groups[n] \in Seq(Registers)
    BY LenProperties
  <1>2. \A n \in 1 .. N : (N - n) + 1 \in 1 .. N  BY <1>1
  <1>3. Saves(groups) = [n \in 1 .. N |-> Push(groups[n])]
    BY <1>1 DEF Saves
  <1>4. Restores(groups) = [n \in 1 .. N |-> Pop(groups[(N - n) + 1])]
    <2>1. DOMAIN Reverse(groups) = 1 .. N  BY DEF Reverse
    <2>2. Restores(groups) = [n \in 1 .. N |-> Pop(Reverse(groups)[n])]
      BY <2>1 DEF Restores
    <2>3. \A n \in 1 .. N : Reverse(groups)[n] = groups[(N - n) + 1]
      BY DEF Reverse
    <2> QED  BY <2>2, <2>3
  <1>5. ASSUME NEW g \in Seq(Registers)
        PROVE  Push(g) \in Instructions(F) /\ Pop(g) \in Instructions(F)
    BY DEF Push, Pop, Instruction, Instructions, Operations
  <1>6. Saves(groups) \in [1 .. N -> Instructions(F)]
    <2>1. \A n \in 1 .. N : Push(groups[n]) \in Instructions(F)  BY <1>1, <1>5
    <2> HIDE DEF N
    <2> QED  BY <1>3, <2>1
  <1>7. Restores(groups) \in [1 .. N -> Instructions(F)]
    <2>1. \A n \in 1 .. N : Pop(groups[(N - n) + 1]) \in Instructions(F)
      BY <1>1, <1>2, <1>5
    <2> HIDE DEF N
    <2> QED  BY <1>4, <2>1
  <1> HIDE DEF N
  <1> QED  BY <1>1, <1>6, <1>7, SeqDef DEF Code

LEMMA CodeOfHost ==
    ASSUME NEW h, IsHost(h)
    PROVE  /\ TakeArgument(h) \in Code(AllFields(h)) /\ Loads(h) \in Code(AllFields(h))
           /\ Stores(h) \in Code(AllFields(h))
  <1> DEFINE F == AllFields(h)
             N == Len(h.context)
  <1>1. ASSUME NEW a \in Registers, NEW b \in Registers, NEW f \in F
        PROVE  Mov(a, b) \in Instructions(F) /\ Load(a, b, f) \in Instructions(F)
               /\ Store(a, b, f) \in Instructions(F)
    <2>1. <<a, b>> \in Seq(Registers)  OBVIOUS
    <2> HIDE DEF F
    <2> QED  BY <2>1 DEF Mov, Load, Store, Instruction, Instructions, Operations
  <1>2. N \in Nat /\ DOMAIN h.context = 1 .. N
        /\ \A n \in 1 .. N : h.context[n][1] \in Registers /\ h.context[n][2] \in F
    <2>1. h.context \in Seq(Registers \X F)  BY DEF IsHost, HasContext
    <2> HIDE DEF F
    <2>2. h.context \in [1 .. N -> Registers \X F] /\ N \in Nat
      BY <2>1, LenProperties
    <2> QED  BY <2>2
  <1>3. /\ h.argument \in Registers /\ h.exit_reason \in Registers
        /\ h.exit_pc \in Registers /\ h.trampoline_block \in Registers
        /\ "exit_reason" \in F /\ "exit_pc" \in F
    BY DEF IsHost, AllFields
  <1>4. Loads(h) \in [1 .. N -> Instructions(F)]
    <2>1. Loads(h) = [n \in 1 .. N |->
                        Load(h.context[n][1], h.trampoline_block, h.context[n][2])]
      BY <1>2 DEF Loads
    <2>2. \A n \in 1 .. N : Load(h.context[n][1], h.trampoline_block, h.context[n][2])
                              \in Instructions(F)
      <3> HIDE DEF F, N
      <3> QED  BY <1>1, <1>2, <1>3
    <2> HIDE DEF F, N
    <2> QED  BY <2>1, <2>2
  <1> DEFINE I == Instructions(F)
             a == Mov(h.trampoline_block, h.argument)
             b == Store(h.exit_reason, h.trampoline_block, "exit_reason")
             c == Store(h.exit_pc, h.trampoline_block, "exit_pc")
  <1>5. a \in I /\ b \in I /\ c \in I
    <2> HIDE DEF F
    <2> QED  BY <1>1, <1>3
  <1>6. TakeArgument(h) = <<a>> /\ Stores(h) = <<b, c>>  BY DEF TakeArgument, Stores
  <1> HIDE DEF a, b, c
  <1>7. Code(F) = Seq(I)  BY DEF Code
  <1> HIDE DEF I
  <1>8. <<a>> \in Seq(I) /\ <<b, c>> \in Seq(I)  BY <1>5
  <1>9. Loads(h) \in Seq(I)
    <2> HIDE DEF F, N
    <2> QED  BY <1>2, <1>4, SeqDef DEF I
  <1> QED  BY <1>6, <1>7, <1>8, <1>9

LEMMA ExecuteMore ==
    ASSUME NEW m, NEW F, NEW code \in Code(F), NEW more \in Code(F)
    PROVE  code \o more \in Code(F)
           /\ Execute(m, code \o more) = Execute(Execute(m, code), more)
  <1> DEFINE I == Instructions(F)
  <1>1. Code(F) = Seq(I)  BY DEF Code
  <1> HIDE DEF I
  <1>2. code \in Seq(I) /\ more \in Seq(I)  BY <1>1
  <1>3. code \o more \in Seq(I)  BY <1>2, ConcatProperties, Zenon
  <1>4. Execute(m, code \o more) = Execute(Execute(m, code), more)
    BY <1>2, ExecuteBoth
  <1> QED  BY <1>1, <1>3, <1>4

LEMMA TakeExecutes ==
    ASSUME NEW V, NEW F, NEW m \in Machines(V, F), NEW h, IsHost(h)
    PROVE  /\ Execute(m, TakeArgument(h)).registers =
                [m.registers EXCEPT ![h.trampoline_block] = m.registers[h.argument]]
           /\ Execute(m, TakeArgument(h)).stack = m.stack
           /\ Execute(m, TakeArgument(h)).block = m.block
           /\ Execute(m, TakeArgument(h)) \in Machines(V, F)
  <1>1. h.trampoline_block \in Registers /\ h.argument \in Registers  BY DEF IsHost
  <1>2. Execute(m, TakeArgument(h)) = Step(m, Mov(h.trampoline_block, h.argument))
    BY ExecuteOne DEF TakeArgument
  <1> QED  BY <1>1, <1>2, MovStep

LEMMA TwoInARow ==
    ASSUME NEW a, NEW b
    PROVE  <<a>> \o <<b>> = <<a, b>>
  <1> DEFINE S == {a, b}
             s == <<a>>
             t == <<b>>
             u == s \o t
  <1>1. s \in Seq(S) /\ t \in Seq(S) /\ Len(s) = 1 /\ Len(t) = 1 /\ s[1] = a /\ t[1] = b
    OBVIOUS
  <1> HIDE DEF s, t, S
  <1>0. s \in Seq(S) /\ t \in Seq(S)  BY <1>1
  <1>2. /\ u \in Seq(S) /\ Len(u) = Len(s) + Len(t)
        /\ \A i \in 1 .. Len(s) + Len(t) :
              u[i] = IF i <= Len(s) THEN s[i] ELSE t[i - Len(s)]
    BY <1>0, ConcatProperties
  <1>3. u \in [1 .. 2 -> S] /\ u[1] = a /\ u[2] = b
    <2> HIDE DEF u
    <2> QED  BY <1>1, <1>2, LenProperties
  <1> HIDE DEF u
  <1>4. u = [i \in 1 .. 2 |-> IF i = 1 THEN a ELSE b]  BY <1>3
  <1>5. <<a, b>> = [i \in 1 .. 2 |-> IF i = 1 THEN a ELSE b]  OBVIOUS
  <1> QED  BY <1>4, <1>5 DEF u, s, t

LEMMA StoresExecute ==
    ASSUME NEW V, NEW h, IsHost(h), NEW m \in Machines(V, AllFields(h)),
           IsBlock(m.registers[h.trampoline_block])
    PROVE  /\ Execute(m, Stores(h)) \in Machines(V, AllFields(h))
           /\ Execute(m, Stores(h)).registers = m.registers
           /\ Execute(m, Stores(h)).stack = m.stack
           /\ Execute(m, Stores(h)).block["exit_reason"] = m.registers[h.exit_reason]
           /\ Execute(m, Stores(h)).block["exit_pc"] = m.registers[h.exit_pc]
  <1> DEFINE F == AllFields(h)
             tb == h.trampoline_block
             reason == h.exit_reason
             epc == h.exit_pc
  <1>1. tb \in Registers /\ reason \in Registers /\ epc \in Registers
        /\ "exit_reason" \in F /\ "exit_pc" \in F /\ m \in Machines(V, F)
        /\ IsBlock(m.registers[tb])
    BY DEF IsHost, AllFields
  <1> DEFINE x == "exit_reason"
             y == "exit_pc"
             a == Store(reason, tb, x)
             b == Store(epc, tb, y)
             n == Step(m, a)
             o == Step(n, b)
  <1>2. Stores(h) = <<a, b>>  BY DEF Stores
  <1>3. Execute(m, Stores(h)) = o
    <2> HIDE DEF a, b, n, o
    <2>1. <<a>> \o <<b>> = <<a, b>>
      BY TwoInARow
    <2>2. <<a>> \in Seq({a, b}) /\ <<b>> \in Seq({a, b})  OBVIOUS
    <2>3. Execute(m, <<a>> \o <<b>>) = Execute(Execute(m, <<a>>), <<b>>)
      <3> DEFINE c == <<a>>
                 d == <<b>>
                 I == {a, b}
      <3>1. c \in Seq(I) /\ d \in Seq(I)  BY <2>2
      <3> HIDE DEF c, d, I
      <3>2. Execute(m, c \o d) = Execute(Execute(m, c), d)  BY <3>1, ExecuteBoth
      <3> QED  BY <3>2 DEF c, d
    <2>4. Execute(m, <<a>>) = n /\ Execute(n, <<b>>) = o
      BY ExecuteOne, Zenon DEF n, o
    <2> QED  BY <1>2, <2>1, <2>3, <2>4, Zenon
  <1>x. x \in F /\ y \in F /\ x # y  BY <1>1
  <1> HIDE DEF F, tb, reason, epc, x, y
  <1>4. /\ n \in Machines(V, F) /\ n.registers = m.registers /\ n.stack = m.stack
        /\ \A f \in F : n.block[f] = IF f = x THEN m.registers[reason] ELSE m.block[f]
    <2> HIDE DEF b, o
    <2> QED  BY <1>1, <1>x, StoreStep
  <1>5. IsBlock(n.registers[tb])  BY <1>1, <1>4
  <1> HIDE DEF n
  <1>6. /\ o \in Machines(V, F) /\ o.registers = n.registers /\ o.stack = n.stack
        /\ \A f \in F : o.block[f] = IF f = y THEN n.registers[epc] ELSE n.block[f]
    <2> HIDE DEF a
    <2> QED  BY <1>1, <1>x, <1>4, <1>5, StoreStep
  <1> HIDE DEF o
  <1>7. o.block[x] = m.registers[reason] /\ o.block[y] = m.registers[epc]
    BY <1>x, <1>4, <1>6
  <1> QED  BY <1>3, <1>4, <1>6, <1>7 DEF F, reason, epc, x, y

-----------------------------------------------------------------------------
\* The groups that are saved.
LEMMA SinglesAre ==
    ASSUME NEW regs \in Seq(Registers)
    PROVE  /\ Singles(regs) \in Seq(Seq(Registers)) /\ Len(Singles(regs)) = Len(regs)
           /\ Each(Singles(regs), 1)
           /\ In(Singles(regs)) = ToSet(regs)
  <1> DEFINE N == Len(regs)
             groups == Singles(regs)
  <1>1. /\ N \in Nat /\ DOMAIN regs = 1 .. N /\ \A n \in 1 .. N : regs[n] \in Registers
    BY LenProperties
  <1>2. groups = [n \in 1 .. N |-> <<regs[n]>>]  BY <1>1 DEF Singles
  <1>3. ASSUME NEW r \in Registers
        PROVE  <<r>> \in Seq(Registers) /\ Len(<<r>>) = 1 /\ ToSet(<<r>>) = {r}
    BY DEF ToSet
  <1> HIDE DEF N
  <1>4. groups \in [1 .. N -> Seq(Registers)]  BY <1>1, <1>2, <1>3
  <1>5. groups \in Seq(Seq(Registers)) /\ Len(groups) = N
    <2> HIDE DEF groups
    <2> QED  BY <1>1, <1>4, SeqDef, LenProperties
  <1>6. \A n \in 1 .. N : Len(groups[n]) = 1 /\ ToSet(groups[n]) = {regs[n]}
    BY <1>1, <1>2, <1>3
  <1> HIDE DEF groups
  <1>7. ToSet(regs) = {regs[n] : n \in 1 .. N}  BY <1>1 DEF ToSet
  <1>8. In(groups) = ToSet(regs)  BY <1>1, <1>5, <1>6, <1>7 DEF In
  <1> QED  BY <1>5, <1>6, <1>8 DEF groups, N, Each

LEMMA KeptAre ==
    ASSUME NEW h, IsHost(h), IsX64(h)
    PROVE  /\ Kept(h) \in Seq(Seq(Registers)) /\ Len(Kept(h)) = 1
           /\ Each(Kept(h), 1)
           /\ In(Kept(h)) = {h.trampoline_block}
  <1> DEFINE tb == h.trampoline_block
             s == <<tb>>
  <1>1. tb \in Registers  BY DEF IsHost
  <1>2. s \in Seq(Registers) /\ Len(s) = 1 /\ DOMAIN s = 1 .. 1 /\ s[1] = tb  BY <1>1
  <1>3. Kept(h) = Singles(s)
    <2>1. Kept(h) = [i \in 1 .. 1 |-> <<tb>>]  BY DEF Kept, IsX64
    <2>2. Singles(s) = [i \in 1 .. 1 |-> <<s[i]>>]  BY <1>2 DEF Singles
    <2>3. \A i \in 1 .. 1 : s[i] = tb
      <3>1. \A i \in 1 .. 1 : i = 1  OBVIOUS
      <3> HIDE DEF s
      <3> QED  BY <1>2, <3>1
    <2> HIDE DEF s
    <2> QED  BY <2>1, <2>2, <2>3
  <1> HIDE DEF s
  <1>4. ToSet(s) = {tb}  BY <1>2 DEF ToSet
  <1> QED  BY <1>2, <1>3, <1>4, SinglesAre

LEMMA PairsAreGroups ==
    /\ Pairs \in Seq(Seq(Registers))
    /\ Each(Pairs, 2)
    /\ In(Pairs) = {X30, AArch64.trampoline_block} \union AArch64.callee_saved
  <1>1. /\ Pairs \in [1 .. Len(Pairs) -> Registers \X Registers] /\ Len(Pairs) \in Nat
    BY PairsAre, LenProperties DEF Paired
  <1>2. ASSUME NEW n \in 1 .. Len(Pairs)
        PROVE  /\ Pairs[n] \in Seq(Registers) /\ Len(Pairs[n]) = 2
               /\ ToSet(Pairs[n]) = {Pairs[n][1], Pairs[n][2]}
    <2>1. PICK a \in Registers, b \in Registers : Pairs[n] = <<a, b>>  BY <1>1
    <2>2. <<a, b>> \in Seq(Registers) /\ Len(<<a, b>>) = 2 /\ ToSet(<<a, b>>) = {a, b}
      BY DEF ToSet
    <2> QED  BY <2>1, <2>2
  <1>3. Pairs \in Seq(Seq(Registers))
    <2>1. Pairs \in [1 .. Len(Pairs) -> Seq(Registers)]  BY <1>1, <1>2
    <2> QED  BY <1>1, <2>1, SeqDef
  <1>4. \A r \in Registers : r \in In(Pairs) <=> Among(Pairs, r)
    BY <1>2 DEF In, Among
  <1>5. {X30, AArch64.trampoline_block} \union AArch64.callee_saved \subseteq Registers
    BY DEF X30, AArch64, Registers
  <1>6. \A r \in In(Pairs) : r \in Registers  BY DEF In
  <1> QED  BY <1>2, <1>3, <1>4, <1>5, <1>6, PairsAre DEF Each

LEMMA ExecuteThree ==
    ASSUME NEW m, NEW F, NEW a \in Code(F), NEW b \in Code(F), NEW c \in Code(F)
    PROVE  /\ a \o b \o c \in Code(F)
           /\ Execute(m, a \o b \o c) = Execute(Execute(Execute(m, a), b), c)
  <1> DEFINE d == a \o b
  <1>1. d \in Code(F) /\ Execute(m, d) = Execute(Execute(m, a), b)  BY ExecuteMore
  <1> HIDE DEF d
  <1>2. d \o c \in Code(F) /\ Execute(m, d \o c) = Execute(Execute(m, d), c)
    BY <1>1, ExecuteMore
  <1> QED  BY <1>1, <1>2 DEF d

LEMMA ExecuteFour ==
    ASSUME NEW m, NEW F, NEW a \in Code(F), NEW b \in Code(F), NEW c \in Code(F),
           NEW d \in Code(F)
    PROVE  Execute(m, a \o b \o c \o d) =
             Execute(Execute(Execute(Execute(m, a), b), c), d)
  <1> DEFINE e == a \o b \o c
  <1>1. e \in Code(F) /\ Execute(m, e) = Execute(Execute(Execute(m, a), b), c)
    BY ExecuteThree
  <1> HIDE DEF e
  <1>2. Execute(m, e \o d) = Execute(Execute(m, e), d)  BY <1>1, ExecuteMore
  <1> QED  BY <1>1, <1>2 DEF e

-----------------------------------------------------------------------------
\* From the call to translated code, on an x64 host: each part of the code.
LEMMA X64Enters ==
    ASSUME NEW V, NEW h, IsHost(h), IsX64(h), NEW m \in Machines(V, AllFields(h)),
           IsBlock(m.registers[h.argument])
    PROVE  \E a, c \in Machines(V, AllFields(h)) :
             /\ a = Execute(m, Saves(Singles(h.saved)))
             /\ c.stack = a.stack /\ c.block = m.block
             /\ IsBlock(c.registers[h.trampoline_block])
             /\ \A i \in 1 .. Len(h.context) :
                   c.registers[h.context[i][1]] = m.block[h.context[i][2]]
             /\ Execute(m, Prologue(h)) = Execute(c, Saves(Kept(h)))
  <1> DEFINE F == AllFields(h)
             groups == Singles(h.saved)
             a == Execute(m, Saves(groups))
             b == Execute(a, TakeArgument(h))
             c == Execute(b, Loads(h))
  <1>1. groups \in Seq(Seq(Registers)) /\ Kept(h) \in Seq(Seq(Registers))
    BY SinglesAre, KeptAre DEF IsX64
  <1>2. h.trampoline_block \in Registers /\ h.argument \in Registers /\ HasContext(h, F)
    BY DEF IsHost
  <1>3. Execute(m, Prologue(h)) = Execute(c, Saves(Kept(h)))
    <2>1. /\ Saves(groups) \in Code(F) /\ TakeArgument(h) \in Code(F)
          /\ Loads(h) \in Code(F) /\ Saves(Kept(h)) \in Code(F)
      BY <1>1, CodeOfGroups, CodeOfHost
    <2>2. Prologue(h) = Saves(groups) \o TakeArgument(h) \o Loads(h) \o Saves(Kept(h))
      BY DEF Prologue, IsX64
    <2> HIDE DEF groups, F
    <2> QED  BY <2>1, <2>2, ExecuteFour
  <1> HIDE DEF groups, F
  <1>4. m \in Machines(V, F)  BY DEF F
  <1>5. a \in Machines(V, F) /\ a.registers = m.registers /\ a.block = m.block
    BY <1>1, <1>4, SavesExecute
  <1> HIDE DEF a
  <1>6. /\ b.registers = [a.registers EXCEPT ![h.trampoline_block] = a.registers[h.argument]]
        /\ b.stack = a.stack /\ b.block = a.block /\ b \in Machines(V, F)
    BY <1>5, TakeExecutes
  <1>7. IsBlock(b.registers[h.trampoline_block])
    <2>1. DOMAIN a.registers = Registers  BY <1>5 DEF Machines
    <2>2. b.registers[h.trampoline_block] = m.registers[h.argument]
      BY <1>2, <1>5, <1>6, <2>1
    <2> QED  BY <2>2
  <1> HIDE DEF b
  <1>8. /\ c \in Machines(V, F) /\ c.stack = b.stack /\ c.block = b.block
        /\ \A i \in 1 .. Len(h.context) :
              c.registers[h.context[i][1]] = b.block[h.context[i][2]]
        /\ \A r \in Registers : (\A i \in 1 .. Len(h.context) : h.context[i][1] # r) =>
              c.registers[r] = b.registers[r]
    <2>0. b \in Machines(V, F) /\ HasContext(h, F) /\ IsBlock(b.registers[h.trampoline_block])
      BY <1>2, <1>6, <1>7
    <2> QED  BY <2>0, LoadsExecute
  <1>9. \A i \in 1 .. Len(h.context) : h.context[i][1] # h.trampoline_block
    BY DEF IsHost, HasContext
  <1> HIDE DEF c
  <1>10. c.registers[h.trampoline_block] = b.registers[h.trampoline_block]
    BY <1>2, <1>8, <1>9
  <1>11. /\ a = Execute(m, Saves(Singles(h.saved)))
         /\ c.stack = a.stack /\ c.block = m.block
         /\ IsBlock(c.registers[h.trampoline_block])
         /\ \A i \in 1 .. Len(h.context) :
               c.registers[h.context[i][1]] = m.block[h.context[i][2]]
    BY <1>5, <1>6, <1>7, <1>8, <1>10 DEF a, groups
  <1> QED  BY <1>3, <1>5, <1>8, <1>11 DEF F

\* The stack at the call.
Deeper(h, e, m) == Len(e.stack) =
    Len(m.stack) + (IF OnX64(h) THEN Len(h.saved) + 1 ELSE 2 * Len(Pairs))

LEMMA X64Call ==
    ASSUME NEW V, NEW h, IsHost(h), IsX64(h), NEW m \in Machines(V, AllFields(h)),
           IsBlock(m.registers[h.argument])
    PROVE  /\ Execute(m, Prologue(h)) \in Machines(V, AllFields(h))
           /\ Execute(m, Prologue(h)).block = m.block
           /\ \A i \in 1 .. Len(h.context) :
                 Execute(m, Prologue(h)).registers[h.context[i][1]] =
                   m.block[h.context[i][2]]
           /\ Deeper(h, Execute(m, Prologue(h)), m)
  <1> DEFINE F == AllFields(h)
             groups == Singles(h.saved)
             e == Execute(m, Prologue(h))
  <1>1. PICK a \in Machines(V, F), c \in Machines(V, F) :
             /\ a = Execute(m, Saves(groups))
             /\ c.stack = a.stack /\ c.block = m.block
             /\ \A i \in 1 .. Len(h.context) :
                   c.registers[h.context[i][1]] = m.block[h.context[i][2]]
             /\ e = Execute(c, Saves(Kept(h)))
    <2> HIDE DEF e
    <2> QED  BY X64Enters DEF e
  <1>2. /\ groups \in Seq(Seq(Registers)) /\ Len(groups) = Len(h.saved)
        /\ Each(groups, 1)
    BY SinglesAre DEF IsX64
  <1>3. /\ Kept(h) \in Seq(Seq(Registers)) /\ Len(Kept(h)) = 1
        /\ Each(Kept(h), 1)
    BY KeptAre
  <1>4. Len(m.stack) \in Nat /\ Len(h.saved) \in Nat
    <2>1. m.stack \in Seq(V) /\ h.saved \in Seq(Registers)  BY DEF Machines, IsX64
    <2> QED  BY <2>1, LenProperties
  <1> HIDE DEF groups, e, F
  <1>5. m \in Machines(V, F)  BY DEF F
  <1> DEFINE one == 1
             k == Len(groups)
             l == Len(Kept(h))
  <1>w. one \in Nat /\ Each(groups, one) /\ Each(Kept(h), one)
    BY <1>2, <1>3
  <1> HIDE DEF one
  <1>6. Len(a.stack) = Len(m.stack) + one * k
    <2>1. m \in Machines(V, F) /\ groups \in Seq(Seq(Registers)) /\ one \in Nat
          /\ Each(groups, one)
      BY <1>2, <1>5, <1>w
    <2> HIDE DEF k
    <2>2. Longer(Execute(m, Saves(groups)), m, one, Len(groups))
      BY <2>1, SavesGrow
    <2> QED  BY <1>1, <2>2 DEF k, Longer
  <1>7. /\ e \in Machines(V, F) /\ e.registers = c.registers /\ e.block = c.block
    BY <1>1, <1>3, SavesExecute
  <1>10. Len(e.stack) = Len(c.stack) + one * l
    <2> DEFINE kept == Kept(h)
    <2>1. kept \in Seq(Seq(Registers)) /\ one \in Nat
          /\ Each(kept, one)
      BY <1>3, <1>w
    <2> HIDE DEF kept, l
    <2>2. Longer(Execute(c, Saves(kept)), c, one, Len(kept))
      BY <2>1, SavesGrow
    <2> QED  BY <1>1, <2>2 DEF kept, l, Longer
  <1>8. Len(e.stack) = Len(m.stack) + Len(h.saved) + 1
    <2>1. \A x, y \in Nat : (x + 1 * y) + 1 * 1 = x + y + 1  OBVIOUS
    <2>2. /\ Len(a.stack) = Len(m.stack) + 1 * Len(h.saved)
          /\ Len(e.stack) = Len(a.stack) + 1 * 1
      BY <1>1, <1>2, <1>3, <1>6, <1>10, Zenon DEF one
    <2> QED  BY <1>4, <2>1, <2>2, Zenon
  <1>9. /\ e.block = m.block
        /\ \A i \in 1 .. Len(h.context) :
                 e.registers[h.context[i][1]] = m.block[h.context[i][2]]
    BY <1>1, <1>7
  <1>11. Deeper(h, e, m)
    <2>1. OnX64(h)  BY DEF IsX64
    <2>2. \A x, y \in Nat : x + y + 1 = x + (y + 1)  OBVIOUS
    <2> QED  BY <1>4, <1>8, <2>1, <2>2 DEF Deeper
  <1> QED  BY <1>7, <1>9, <1>11 DEF e, F

LEMMA X64Return ==
    ASSUME NEW V, NEW h, IsHost(h), IsX64(h), NEW m \in Machines(V, AllFields(h)),
           IsBlock(m.registers[h.argument]),
           NEW late \in Machines(V, AllFields(h)),
           late.stack = Execute(m, Prologue(h)).stack
    PROVE  /\ Execute(late, Epilogue(h)).stack = m.stack
           /\ \A r \in h.callee_saved :
                 Execute(late, Epilogue(h)).registers[r] = m.registers[r]
           /\ Execute(late, Epilogue(h)).block["exit_reason"] = late.registers[h.exit_reason]
           /\ Execute(late, Epilogue(h)).block["exit_pc"] = late.registers[h.exit_pc]
           /\ Execute(late, Epilogue(h)) \in Machines(V, AllFields(h))
  <1> DEFINE F == AllFields(h)
             tb == h.trampoline_block
             groups == Singles(h.saved)
             kept == Kept(h)
             e == Execute(m, Prologue(h))
  <1>1. PICK a \in Machines(V, F), c \in Machines(V, F) :
             /\ a = Execute(m, Saves(groups)) /\ c.stack = a.stack
             /\ IsBlock(c.registers[tb]) /\ e = Execute(c, Saves(kept))
    <2> HIDE DEF e
    <2> QED  BY X64Enters DEF e
  <1>2. /\ groups \in Seq(Seq(Registers)) /\ In(groups) = h.callee_saved
        /\ kept \in Seq(Seq(Registers)) /\ In(kept) = {tb}
    BY SinglesAre, KeptAre DEF IsX64
  <1>3. /\ tb \in Registers /\ h.exit_reason \in Registers /\ h.exit_pc \in Registers
        /\ h.exit_reason # tb /\ h.exit_pc # tb
    BY DEF IsHost
  <1> DEFINE l == Execute(late, Restores(kept))
             n == Execute(l, Stores(h))
             o == Execute(n, Restores(groups))
  <1>4. Execute(late, Epilogue(h)) = o
    <2>1. /\ Restores(groups) \in Code(F) /\ Stores(h) \in Code(F)
          /\ Restores(kept) \in Code(F)
      BY <1>2, CodeOfGroups, CodeOfHost
    <2>2. Epilogue(h) = Restores(kept) \o Stores(h) \o Restores(groups)
      BY DEF Epilogue, IsX64
    <2> HIDE DEF groups, kept, F
    <2> QED  BY <2>1, <2>2, ExecuteThree
  <1> HIDE DEF e, F, tb, groups, kept
  <1>5. m \in Machines(V, F) /\ late \in Machines(V, F) /\ late.stack = e.stack
    BY DEF F, e
  <1>6. /\ l \in Machines(V, F) /\ l.stack = c.stack
        /\ l.registers = [r \in Registers |-> IF r \in In(kept) THEN c.registers[r]
                                              ELSE late.registers[r]]
    <2>1. late.stack = Execute(c, Saves(kept)).stack  BY <1>1, <1>5
    <2> QED  BY <1>1, <1>2, <1>5, <2>1, RestoresUndoSaves
  <1> HIDE DEF l
  <1>7. /\ l.registers[tb] = c.registers[tb]
        /\ l.registers[h.exit_reason] = late.registers[h.exit_reason]
        /\ l.registers[h.exit_pc] = late.registers[h.exit_pc]
    BY <1>2, <1>3, <1>6
  <1>8. /\ n \in Machines(V, F) /\ n.stack = l.stack
        /\ n.block["exit_reason"] = l.registers[h.exit_reason]
        /\ n.block["exit_pc"] = l.registers[h.exit_pc]
    <2>1. l \in Machines(V, AllFields(h)) /\ IsBlock(l.registers[h.trampoline_block])
      BY <1>1, <1>6, <1>7 DEF F, tb
    <2> QED  BY <2>1, StoresExecute DEF F
  <1> HIDE DEF n
  <1>9. /\ o \in Machines(V, F) /\ o.stack = m.stack /\ o.block = n.block
        /\ o.registers = [r \in Registers |-> IF r \in In(groups) THEN m.registers[r]
                                              ELSE n.registers[r]]
    <2>1. n.stack = Execute(m, Saves(groups)).stack  BY <1>1, <1>6, <1>8
    <2> QED  BY <1>2, <1>5, <1>8, <2>1, RestoresUndoSaves
  <1> HIDE DEF o
  <1>10. \A r \in h.callee_saved : r \in Registers /\ o.registers[r] = m.registers[r]
    <2>1. In(groups) \subseteq Registers  BY DEF In
    <2> QED  BY <1>2, <1>9, <2>1
  <1> QED  BY <1>4, <1>7, <1>8, <1>9, <1>10 DEF F

-----------------------------------------------------------------------------
\* The same on AArch64.
LEMMA AArch64Enters ==
    ASSUME NEW V, NEW h, IsHost(h), IsAArch64(h), NEW m \in Machines(V, AllFields(h)),
           IsBlock(m.registers[h.argument])
    PROVE  \E a \in Machines(V, AllFields(h)) :
             /\ a.stack = m.stack /\ a.block = m.block
             /\ IsBlock(a.registers[h.trampoline_block])
             /\ \A r \in Registers \ {h.trampoline_block} : a.registers[r] = m.registers[r]
             /\ LET e == Execute(m, Prologue(h)) IN
                  /\ e \in Machines(V, AllFields(h)) /\ e.block = m.block
                  /\ e.stack = Execute(a, Saves(Pairs)).stack
                  /\ \A i \in 1 .. Len(h.context) :
                        e.registers[h.context[i][1]] = m.block[h.context[i][2]]
  <1> DEFINE F == AllFields(h)
             a == Execute(m, TakeArgument(h))
             b == Execute(a, Saves(Pairs))
             c == Execute(b, Loads(h))
             e == Execute(m, Prologue(h))
  <1>1. Pairs \in Seq(Seq(Registers))  BY PairsAreGroups
  <1>2. h.trampoline_block \in Registers /\ h.argument \in Registers /\ HasContext(h, F)
    BY DEF IsHost
  <1>3. e = c
    <2>1. TakeArgument(h) \in Code(F) /\ Saves(Pairs) \in Code(F) /\ Loads(h) \in Code(F)
      BY <1>1, CodeOfGroups, CodeOfHost
    <2>2. Prologue(h) = TakeArgument(h) \o Saves(Pairs) \o Loads(h)
      BY DEF Prologue, IsAArch64
    <2> HIDE DEF F
    <2> QED  BY <2>1, <2>2, ExecuteThree
  <1> HIDE DEF F, e
  <1>4. m \in Machines(V, F)  BY DEF F
  <1>5. /\ a.registers = [m.registers EXCEPT ![h.trampoline_block] = m.registers[h.argument]]
        /\ a.stack = m.stack /\ a.block = m.block /\ a \in Machines(V, F)
    BY <1>4, TakeExecutes
  <1> HIDE DEF a
  <1>6. /\ a.registers[h.trampoline_block] = m.registers[h.argument]
        /\ \A r \in Registers \ {h.trampoline_block} : a.registers[r] = m.registers[r]
    <2>1. DOMAIN m.registers = Registers  BY <1>4 DEF Machines
    <2> QED  BY <1>2, <1>5, <2>1
  <1>7. b \in Machines(V, F) /\ b.registers = a.registers /\ b.block = a.block
    BY <1>1, <1>5, SavesExecute
  <1> HIDE DEF b
  <1>8. /\ c \in Machines(V, F) /\ c.stack = b.stack /\ c.block = b.block
        /\ \A i \in 1 .. Len(h.context) :
              c.registers[h.context[i][1]] = b.block[h.context[i][2]]
    <2>1. b \in Machines(V, F) /\ HasContext(h, F) /\ IsBlock(b.registers[h.trampoline_block])
      BY <1>2, <1>6, <1>7
    <2> QED  BY <2>1, LoadsExecute
  <1> HIDE DEF c
  <1>9. /\ e \in Machines(V, F) /\ e.block = m.block /\ e.stack = b.stack
        /\ \A i \in 1 .. Len(h.context) :
              e.registers[h.context[i][1]] = m.block[h.context[i][2]]
    BY <1>3, <1>5, <1>7, <1>8
  <1>10. IsBlock(a.registers[h.trampoline_block])  BY <1>6
  <1> QED  BY <1>5, <1>6, <1>9, <1>10 DEF F, e, b

LEMMA AArch64Call ==
    ASSUME NEW V, NEW h, IsHost(h), IsAArch64(h), NEW m \in Machines(V, AllFields(h)),
           IsBlock(m.registers[h.argument])
    PROVE  /\ Execute(m, Prologue(h)) \in Machines(V, AllFields(h))
           /\ Execute(m, Prologue(h)).block = m.block
           /\ \A i \in 1 .. Len(h.context) :
                 Execute(m, Prologue(h)).registers[h.context[i][1]] =
                   m.block[h.context[i][2]]
           /\ Deeper(h, Execute(m, Prologue(h)), m)
  <1> DEFINE F == AllFields(h)
             e == Execute(m, Prologue(h))
  <1>1. PICK a \in Machines(V, F) :
             /\ a.stack = m.stack
             /\ e \in Machines(V, F) /\ e.block = m.block
             /\ e.stack = Execute(a, Saves(Pairs)).stack
             /\ \A i \in 1 .. Len(h.context) :
                   e.registers[h.context[i][1]] = m.block[h.context[i][2]]
    <2> HIDE DEF e
    <2> QED  BY AArch64Enters DEF e
  <1> DEFINE two == 2
  <1>2. Pairs \in Seq(Seq(Registers)) /\ Each(Pairs, two) /\ two \in Nat
    BY PairsAreGroups
  <1> HIDE DEF two, F, e
  <1>3. Longer(Execute(a, Saves(Pairs)), a, two, Len(Pairs))  BY <1>2, SavesGrow
  <1>4. Deeper(h, e, m)  BY <1>1, <1>3 DEF Longer, Deeper, IsAArch64, two
  <1> QED  BY <1>1, <1>4 DEF F, e

LEMMA AArch64Return ==
    ASSUME NEW V, NEW h, IsHost(h), IsAArch64(h), NEW m \in Machines(V, AllFields(h)),
           IsBlock(m.registers[h.argument]),
           NEW late \in Machines(V, AllFields(h)),
           late.stack = Execute(m, Prologue(h)).stack
    PROVE  /\ Execute(late, Epilogue(h)).stack = m.stack
           /\ \A r \in h.callee_saved \union {X30} :
                 Execute(late, Epilogue(h)).registers[r] = m.registers[r]
           /\ Execute(late, Epilogue(h)).block["exit_reason"] = late.registers[h.exit_reason]
           /\ Execute(late, Epilogue(h)).block["exit_pc"] = late.registers[h.exit_pc]
           /\ Execute(late, Epilogue(h)) \in Machines(V, AllFields(h))
  <1> DEFINE F == AllFields(h)
             tb == h.trampoline_block
             e == Execute(m, Prologue(h))
  <1>1. PICK a \in Machines(V, F) :
             /\ a.stack = m.stack
             /\ IsBlock(a.registers[tb])
             /\ \A r \in Registers \ {tb} : a.registers[r] = m.registers[r]
             /\ e.stack = Execute(a, Saves(Pairs)).stack
    <2> HIDE DEF e
    <2> QED  BY AArch64Enters DEF e
  <1>2. /\ Pairs \in Seq(Seq(Registers))
        /\ In(Pairs) = {X30, tb} \union h.callee_saved
    BY PairsAreGroups DEF IsAArch64
  <1>3. /\ tb \in Registers /\ h.exit_reason \in Registers /\ h.exit_pc \in Registers
        /\ h.exit_reason \notin In(Pairs) /\ h.exit_pc \notin In(Pairs)
        /\ tb \notin h.callee_saved /\ tb # X30
    BY <1>2 DEF IsHost, IsAArch64
  <1> DEFINE l == Execute(late, Restores(Pairs))
             n == Execute(l, Stores(h))
  <1>4. Execute(late, Epilogue(h)) = n
    <2>1. Restores(Pairs) \in Code(F) /\ Stores(h) \in Code(F)
      BY <1>2, CodeOfGroups, CodeOfHost
    <2>2. Epilogue(h) = Restores(Pairs) \o Stores(h)  BY DEF Epilogue, IsAArch64
    <2> HIDE DEF F
    <2> QED  BY <2>1, <2>2, ExecuteMore
  <1> HIDE DEF e, F, tb
  <1>5. late \in Machines(V, F) /\ late.stack = e.stack  BY DEF F, e
  <1>6. /\ l \in Machines(V, F) /\ l.stack = a.stack
        /\ l.registers = [r \in Registers |-> IF r \in In(Pairs) THEN a.registers[r]
                                              ELSE late.registers[r]]
    <2>1. late.stack = Execute(a, Saves(Pairs)).stack  BY <1>1, <1>5
    <2> QED  BY <1>2, <1>5, <2>1, RestoresUndoSaves
  <1> HIDE DEF l
  <1>7. /\ l.registers[tb] = a.registers[tb]
        /\ l.registers[h.exit_reason] = late.registers[h.exit_reason]
        /\ l.registers[h.exit_pc] = late.registers[h.exit_pc]
    BY <1>2, <1>3, <1>6
  <1>8. /\ n \in Machines(V, F) /\ n.stack = l.stack /\ n.registers = l.registers
        /\ n.block["exit_reason"] = l.registers[h.exit_reason]
        /\ n.block["exit_pc"] = l.registers[h.exit_pc]
    <2>1. l \in Machines(V, AllFields(h)) /\ IsBlock(l.registers[h.trampoline_block])
      BY <1>1, <1>6, <1>7 DEF F, tb
    <2> QED  BY <2>1, StoresExecute DEF F
  <1> HIDE DEF n
  <1>9. \A r \in h.callee_saved \union {X30} : n.registers[r] = m.registers[r]
    <2>1. In(Pairs) \subseteq Registers  BY DEF In
    <2>2. \A r \in h.callee_saved \union {X30} : r \in In(Pairs) /\ r \in Registers \ {tb}
      BY <1>2, <1>3, <2>1
    <2>3. \A r \in In(Pairs) : r \in Registers => l.registers[r] = a.registers[r]
      BY <1>6
    <2> QED  BY <1>1, <1>8, <2>2, <2>3
  <1> QED  BY <1>1, <1>4, <1>6, <1>7, <1>8, <1>9 DEF F

-----------------------------------------------------------------------------
\* What a machine holds on the way: a caller's, a Vm's, an exit's.
Names == {"caller", "block", "none", "trampoline", "guest", "pc"}
Value(h) == (Names \union Reasons \union AllFields(h))
              \X (Registers \union Vms \union Pcs \union {0})

LEMMA CalledIsMachine ==
    ASSUME host \in Hosts, NEW v \in Vms
    PROVE  /\ Called(v) \in Machines(Value(host), AllFields(host))
           /\ IsBlock(Called(v).registers[host.argument])
           /\ \A r \in Registers \ {host.argument} : Called(v).registers[r] = Caller(r)
           /\ Called(v).stack = IF OnX64(host) THEN <<ReturnAddress>> ELSE <<>>
           /\ \A f \in Fields(host) : Called(v).block[f] = <<f, v>>
  <1> DEFINE F == AllFields(host)
             V == Value(host)
             m == Called(v)
  <1>1. host.argument \in Registers  BY HostsAreHosts DEF IsHost
  <1>2. /\ \A r \in Registers : Caller(r) \in V
        /\ <<"block", v>> \in V /\ NoExit \in V /\ ReturnAddress \in V
        /\ \A f \in F : <<f, v>> \in V
    <2> DEFINE N == Registers \union Vms \union Pcs \union {0}
               T == Names \union Reasons \union F
    <2>1. V = T \X N  BY DEF Value
    <2>2. {"caller", "block", "none"} \subseteq T /\ F \subseteq T  BY DEF Names
    <2>3. Registers \subseteq N /\ v \in N /\ 0 \in N /\ X30 \in Registers
      BY DEF X30, Registers
    <2> HIDE DEF N, T, V, F
    <2> QED  BY <2>1, <2>2, <2>3 DEF Caller, NoExit, ReturnAddress
  <1>3. /\ m.registers = [r \in Registers |-> IF r = host.argument THEN <<"block", v>>
                                              ELSE Caller(r)]
        /\ m.stack = IF OnX64(host) THEN <<ReturnAddress>> ELSE <<>>
        /\ m.block = Block(v)
        /\ m = [registers |-> m.registers, stack |-> m.stack, block |-> m.block]
    BY DEF Called, Idle
  <1>4. Block(v) = [f \in F |-> IF f \in Fields(host) THEN <<f, v>> ELSE NoExit]
    BY DEF Block, AllFields
  <1> HIDE DEF V, m
  <1>5. m.registers \in [Registers -> V]  BY <1>2, <1>3
  <1>6. m.stack \in Seq(V)
    <2>1. <<ReturnAddress>> \in Seq(V) /\ <<>> \in Seq(V)  BY <1>2
    <2> QED  BY <1>3, <2>1
  <1>7. m.block \in [F -> V]
    <2> HIDE DEF F
    <2> QED  BY <1>2, <1>3, <1>4
  <1>8. m \in Machines(V, F)  BY <1>3, <1>5, <1>6, <1>7 DEF Machines
  <1>9. m.registers[host.argument] = <<"block", v>>  BY <1>1, <1>3
  <1>10. IsBlock(m.registers[host.argument])  BY <1>9 DEF IsBlock
  <1>11. \A r \in Registers \ {host.argument} : m.registers[r] = Caller(r)  BY <1>3
  <1>12. \A f \in Fields(host) : m.block[f] = <<f, v>>  BY <1>3, <1>4 DEF AllFields
  <1> QED  BY <1>3, <1>8, <1>10, <1>11, <1>12 DEF V, m

\* Translated code, and the exit it leaves with.
Inside == Branched(Execute(Called(vm), Prologue(host)))
Exit(reason, p) == <<<<reason, 0>>, <<"pc", p>>>>

TrampolineInv ==
    /\ host \in Hosts /\ memory_size \in [Vms -> MemorySizes]
    /\ place \in Places /\ baked \in [Pcs -> MemorySizes \union {0}]
    /\ place # "outside" => vm \in Vms /\ entry \in Pcs
    /\ \A p \in Pcs : baked[p] = 0 \/ \E v \in Vms : baked[p] = memory_size[v]
    /\ place = "guest" => \E v \in Vms : baked[entry] = memory_size[v]
    /\ place = "guest" => machine = Inside
    /\ place = "returned" => \E reason \in Reasons, p \in Pcs :
         left = Exit(reason, p) /\ machine = Execute(Exited(Inside, left), Epilogue(host))

LEMMA TrampolineStarts == TrampolineInit => TrampolineInv
  BY DEF TrampolineInit, TrampolineInv, Places

LEMMA EnterKeeps ==
    ASSUME TrampolineInv, NEW v \in Vms, NEW p \in Pcs, Enter(v, p)
    PROVE  TrampolineInv'
  <1> USE DEF Enter
  <1>1. /\ host \in Hosts /\ memory_size \in [Vms -> MemorySizes]
        /\ baked \in [Pcs -> MemorySizes \union {0}]
        /\ \A q \in Pcs : baked[q] = 0 \/ \E w \in Vms : baked[q] = memory_size[w]
    BY DEF TrampolineInv
  <1>2. \A q \in Pcs : baked'[q] = IF q = p /\ baked[p] = 0 THEN memory_size[v] ELSE baked[q]
    BY <1>1
  <1>3. baked' \in [Pcs -> MemorySizes \union {0}]  BY <1>1
  <1>4. \E w \in Vms : baked'[p] = memory_size[w]  BY <1>1, <1>2
  <1>5. \A q \in Pcs : baked'[q] = 0 \/ \E w \in Vms : baked'[q] = memory_size[w]
    BY <1>1, <1>2
  <1>6. machine' = Inside'  BY DEF Inside, Branched, Called, Block, Idle
  <1>7. place' = "guest" /\ vm' = v /\ entry' = p /\ host' = host
        /\ memory_size' = memory_size
    OBVIOUS
  <1> HIDE DEF Enter
  <1> QED  BY <1>1, <1>3, <1>4, <1>5, <1>6, <1>7 DEF TrampolineInv, Places

LEMMA GuestKeeps ==
    ASSUME TrampolineInv, NEW reason \in Reasons, NEW p \in Pcs, Guest(reason, p)
    PROVE  TrampolineInv'
  <1>1. Inside' = Inside
    BY DEF Guest, Inside, Branched, Called, Block, Idle
  <1>2. Exited(Inside, left)' = Exited(Inside, left')
    BY <1>1 DEF Guest, Exited
  <1>3. left' = Exit(reason, p) /\ machine' = Execute(Exited(Inside, left'), Epilogue(host))
    BY DEF Guest, TrampolineInv, Exit
  <1>4. /\ place = "guest" /\ place' = "returned"
        /\ UNCHANGED <<host, memory_size, vm, entry, baked>>
    BY DEF Guest
  <1>5. machine' = Execute(Exited(Inside, left)', Epilogue(host'))
    BY <1>2, <1>3, <1>4
  <1> QED  BY <1>3, <1>4, <1>5 DEF TrampolineInv, Places

LEMMA ReturnKeeps ==
    ASSUME TrampolineInv, Return
    PROVE  TrampolineInv'
  BY DEF TrampolineInv, Return, Places

LEMMA StutterKeeps ==
    ASSUME TrampolineInv, UNCHANGED trampoline_vars
    PROVE  TrampolineInv'
  <1>1. Inside' = Inside
    BY DEF trampoline_vars, Inside, Branched, Called, Block, Idle
  <1>2. Exited(Inside, left)' = Exited(Inside, left)
    BY <1>1 DEF trampoline_vars, Exited
  <1> QED  BY <1>1, <1>2 DEF TrampolineInv, trampoline_vars

LEMMA TailOfBoth ==
    ASSUME NEW S, NEW s \in Seq(S), NEW t \in Seq(S), Len(s) = 1
    PROVE  Tail(s \o t) = t
  <1> DEFINE u == s \o t
  <1>1. /\ u \in Seq(S) /\ Len(u) = 1 + Len(t) /\ Len(t) \in Nat
        /\ \A i \in 1 .. Len(t) : u[i + 1] = t[i]
    <2>1. /\ u \in Seq(S) /\ Len(u) = Len(s) + Len(t) /\ Len(t) \in Nat
          /\ \A i \in 1 .. Len(s) + Len(t) :
                u[i] = IF i <= Len(s) THEN s[i] ELSE t[i - Len(s)]
      BY ConcatProperties, LenProperties
    <2>2. \A i \in 1 .. Len(t) : i + 1 \in 1 .. Len(s) + Len(t) /\ ~(i + 1 <= Len(s))
                                 /\ (i + 1) - Len(s) = i
      BY <2>1
    <2> HIDE DEF u
    <2> QED  BY <2>1, <2>2
  <1> HIDE DEF u
  <1>2. u # <<>>  BY <1>1, EmptySeq
  <1>3. /\ Tail(u) \in Seq(S) /\ Len(Tail(u)) = Len(t)
        /\ \A i \in 1 .. Len(Tail(u)) : Tail(u)[i] = u[i + 1]
    BY <1>1, <1>2, HeadTailProperties
  <1> DEFINE v == Tail(u)
  <1> HIDE DEF v
  <1>4. v \in Seq(S) /\ Len(v) = Len(t) /\ \A i \in 1 .. Len(v) : v[i] = t[i]
    BY <1>1, <1>3 DEF v
  <1>5. v = t  BY <1>4, SeqEqual
  <1> QED  BY <1>5 DEF u, v

\* Where the guest starts: the context is its Vm's.
LEMMA InsideIs ==
    ASSUME TrampolineInv, place # "outside"
    PROVE  /\ Execute(Called(vm), Prologue(host)) \in Machines(Value(host), AllFields(host))
           /\ Inside \in Machines(Value(host), AllFields(host))
           /\ \A i \in 1 .. Len(host.context) :
                 Inside.registers[host.context[i][1]] = <<host.context[i][2], vm>>
           /\ Len(Inside.stack) % 2 = (IF OnX64(host) THEN 1 ELSE 0)
           /\ OnX64(host) =>
                Tail(Inside.stack) = Execute(Called(vm), Prologue(host)).stack
           /\ ~OnX64(host) =>
                Inside.stack = Execute(Called(vm), Prologue(host)).stack
  <1> DEFINE V == Value(host)
             F == AllFields(host)
             m == Called(vm)
             e == Execute(m, Prologue(host))
  <1>1. host \in Hosts /\ vm \in Vms  BY DEF TrampolineInv
  <1>2. IsHost(host) /\ (IsX64(host) \/ IsAArch64(host))  BY <1>1, HostsAreHosts
  <1>3. /\ m \in Machines(V, F) /\ IsBlock(m.registers[host.argument])
        /\ m.stack = IF OnX64(host) THEN <<ReturnAddress>> ELSE <<>>
        /\ \A f \in Fields(host) : m.block[f] = <<f, vm>>
    BY <1>1, CalledIsMachine
  <1>4. /\ host.context \in Seq(Registers \X F)
        /\ \A i \in 1 .. Len(host.context) : /\ host.context[i][2] \in Fields(host)
                                             /\ host.context[i][1] \in Registers
    <2>1. host.context \in Seq(Registers \X F)  BY <1>2 DEF IsHost, HasContext
    <2>2. /\ DOMAIN host.context = 1 .. Len(host.context)
          /\ \A i \in 1 .. Len(host.context) : host.context[i] \in Registers \X F
      BY <2>1, LenProperties
    <2> QED  BY <2>1, <2>2 DEF Fields
  <1>5. ReturnToTrampoline \in V
    <2>1. "trampoline" \in Names \union Reasons \union F  BY DEF Names
    <2> HIDE DEF F
    <2> QED  BY <2>1 DEF Value, ReturnToTrampoline, F
  <1> HIDE DEF V, F, m, e
  <1>6. CASE IsX64(host)
    <2>1. /\ e \in Machines(V, F) /\ e.block = m.block
          /\ \A i \in 1 .. Len(host.context) :
                e.registers[host.context[i][1]] = m.block[host.context[i][2]]
          /\ Deeper(host, e, m)
      <3>1. IsHost(host) /\ m \in Machines(V, AllFields(host))
            /\ IsBlock(m.registers[host.argument])
        BY <1>2, <1>3 DEF F
      <3> QED  BY <1>6, <3>1, X64Call DEF e, F
    <2>2. OnX64(host) /\ host.saved \in Seq(Registers) /\ Len(host.saved) % 2 = 0
      BY <1>6 DEF IsX64
    <2>3. Inside = [e EXCEPT !.stack = <<ReturnToTrampoline>> \o @]
      BY <2>2 DEF Inside, Branched, e, m
    <2> DEFINE s == <<ReturnToTrampoline>>
               t == e.stack
    <2>4. s \in Seq(V) /\ Len(s) = 1  BY <1>5
    <2>5. t \in Seq(V)  BY <2>1 DEF Machines
    <2> HIDE DEF s, t
    <2>6. s \o t \in Seq(V) /\ Len(s \o t) = 1 + Len(t) /\ Tail(s \o t) = t
      <3>1. s \o t \in Seq(V) /\ Len(s \o t) = Len(s) + Len(t)
        BY <2>4, <2>5, ConcatProperties
      <3>2. Len(t) \in Nat  BY <2>5, LenProperties
      <3>3. Tail(s \o t) = t  BY <2>4, <2>5, TailOfBoth
      <3> QED  BY <2>4, <3>1, <3>2, <3>3
    <2>7. /\ Inside \in Machines(V, F) /\ Inside.registers = e.registers
          /\ Inside.stack = s \o t
      BY <2>1, <2>3, <2>6 DEF Machines, s, t
    <2>8. Len(Inside.stack) % 2 = 1
      <3>1. Len(m.stack) = 1  BY <1>3, <2>2
      <3>2. Len(host.saved) \in Nat  BY <2>2, LenProperties
      <3>3. \A n \in Nat : n % 2 = 0 => (1 + (1 + n + 1)) % 2 = 1  OBVIOUS
      <3>4. Len(Inside.stack) = 1 + (1 + Len(host.saved) + 1)
        BY <2>1, <2>2, <2>6, <2>7, <3>1 DEF Deeper, t
      <3> QED  BY <2>2, <3>2, <3>3, <3>4
    <2>9. \A i \in 1 .. Len(host.context) :
             Inside.registers[host.context[i][1]] = <<host.context[i][2], vm>>
      BY <1>3, <1>4, <2>1, <2>7
    <2> QED  BY <2>1, <2>2, <2>6, <2>7, <2>8, <2>9 DEF V, F, e, m, t
  <1>7. CASE IsAArch64(host)
    <2>1. /\ e \in Machines(V, F) /\ e.block = m.block
          /\ \A i \in 1 .. Len(host.context) :
                e.registers[host.context[i][1]] = m.block[host.context[i][2]]
          /\ Deeper(host, e, m)
      <3>1. IsHost(host) /\ m \in Machines(V, AllFields(host))
            /\ IsBlock(m.registers[host.argument])
        BY <1>2, <1>3 DEF F
      <3> QED  BY <1>7, <3>1, AArch64Call DEF e, F
    <2>2. ~OnX64(host)  BY <1>7 DEF IsAArch64
    <2>3. Inside = [e EXCEPT !.registers[X30] = ReturnToTrampoline]
      BY <2>2 DEF Inside, Branched, e, m
    <2>4. /\ Inside \in Machines(V, F) /\ Inside.stack = e.stack
          /\ \A r \in Registers \ {X30} : Inside.registers[r] = e.registers[r]
      BY <1>5, <2>1, <2>3 DEF Machines
    <2>5. Len(Inside.stack) % 2 = 0
      <3>1. Len(m.stack) = 0  BY <1>3, <2>2, EmptySeq
      <3>2. Len(Pairs) \in Nat  BY PairsAreGroups, LenProperties
      <3>3. \A n \in Nat : (0 + 2 * n) % 2 = 0  OBVIOUS
      <3> QED  BY <2>1, <2>2, <2>4, <3>1, <3>2, <3>3 DEF Deeper
    <2>6. \A i \in 1 .. Len(host.context) : host.context[i][1] # X30
      <3>1. host.context = ContextA64  BY <1>7 DEF IsAArch64, AArch64
      <3> QED  BY <3>1 DEF ContextA64, X30
    <2>9. \A i \in 1 .. Len(host.context) :
             Inside.registers[host.context[i][1]] = <<host.context[i][2], vm>>
      BY <1>3, <1>4, <2>1, <2>4, <2>6
    <2> QED  BY <2>1, <2>2, <2>4, <2>5, <2>9 DEF V, F, e, m
  <1> QED  BY <1>2, <1>6, <1>7

\* Where it returns: the exit is in its registers, and the stack as it was.
LEMMA LateIs ==
    ASSUME TrampolineInv, place = "returned"
    PROVE  LET late == Exited(Inside, left) IN
             /\ late \in Machines(Value(host), AllFields(host))
             /\ late.stack = Execute(Called(vm), Prologue(host)).stack
             /\ late.registers[host.exit_reason] = left[1]
             /\ late.registers[host.exit_pc] = left[2]
  <1> DEFINE V == Value(host)
             F == AllFields(host)
             e == Execute(Called(vm), Prologue(host))
             late == Exited(Inside, left)
             w(r) == CASE r = host.exit_reason -> left[1]
                       [] r = host.exit_pc -> left[2]
                       [] OTHER -> IF r \in host.clobbers THEN Garbage
                                   ELSE Inside.registers[r]
  <1>1. /\ e \in Machines(V, F) /\ Inside \in Machines(V, F)
        /\ OnX64(host) => Tail(Inside.stack) = e.stack
        /\ ~OnX64(host) => Inside.stack = e.stack
    BY InsideIs
  <1>2. /\ host.exit_reason \in Registers /\ host.exit_pc \in Registers
        /\ host.exit_reason # host.exit_pc
    BY HostsAreHosts DEF TrampolineInv, IsHost
  <1>3. PICK reason \in Reasons, p \in Pcs : left = Exit(reason, p)  BY DEF TrampolineInv
  <1>4. left[1] \in V /\ left[2] \in V /\ Garbage \in V
    <2>1. left[1] = <<reason, 0>> /\ left[2] = <<"pc", p>>  BY <1>3 DEF Exit
    <2>2. {"pc", "guest"} \subseteq Names  BY DEF Names
    <2> HIDE DEF F
    <2> QED  BY <2>1, <2>2 DEF Value, Garbage
  <1>5. late.registers = [r \in Registers |-> w(r)]
        /\ late.stack = e.stack /\ late.block = Inside.block
        /\ late = [registers |-> late.registers, stack |-> late.stack, block |-> late.block]
    <2>1. PICK a \in [Registers -> V], t \in Seq(V), c \in [F -> V] :
            Inside = [registers |-> a, stack |-> t, block |-> c]
      <3> HIDE DEF V, F
      <3> QED  BY <1>1 DEF Machines
    <2> DEFINE regs == [r \in Registers |-> w(r)]
               s == IF OnX64(host) THEN Tail(Inside.stack) ELSE Inside.stack
    <2>2. late = [Inside EXCEPT !.registers = regs, !.stack = s]
      BY DEF Exited
    <2>3. s = e.stack  BY <1>1
    <2> HIDE DEF late, e, w, V, F, regs, s
    <2>4. late = [registers |-> regs, stack |-> s, block |-> Inside.block]
      BY <2>1, <2>2
    <2> QED  BY <2>3, <2>4 DEF regs
  <1>6. \A r \in Registers : w(r) \in V
    <2>1. TAKE r \in Registers
    <2>2. Inside.registers[r] \in V  BY <1>1 DEF Machines
    <2> HIDE DEF V
    <2>3. CASE r = host.exit_reason  BY <1>4, <2>3
    <2>4. CASE r # host.exit_reason /\ r = host.exit_pc  BY <1>4, <2>4
    <2>5. CASE r # host.exit_reason /\ r # host.exit_pc  BY <1>4, <2>2, <2>5
    <2> QED  BY <2>3, <2>4, <2>5
  <1>7. w(host.exit_reason) = left[1] /\ w(host.exit_pc) = left[2]  BY <1>2
  <1> HIDE DEF late, e, w, V, F
  <1>8. late \in Machines(V, F)  BY <1>1, <1>5, <1>6 DEF Machines
  <1>9. late.registers[host.exit_reason] = left[1] /\ late.registers[host.exit_pc] = left[2]
    BY <1>2, <1>5, <1>7
  <1> QED  BY <1>5, <1>8, <1>9 DEF late, e, V, F

LEMMA ReturnedIs ==
    ASSUME TrampolineInv, place = "returned"
    PROVE  /\ \A r \in host.callee_saved : machine.registers[r] = Caller(r)
           /\ IF OnX64(host) THEN machine.stack = <<ReturnAddress>>
              ELSE machine.stack = <<>> /\ machine.registers[X30] = ReturnAddress
           /\ machine.block["exit_reason"] = left[1] /\ machine.block["exit_pc"] = left[2]
  <1> DEFINE V == Value(host)
             F == AllFields(host)
             m == Called(vm)
             late == Exited(Inside, left)
             x == Execute(late, Epilogue(host))
  <1>1. host \in Hosts /\ vm \in Vms /\ machine = x  BY DEF TrampolineInv
  <1>2. IsHost(host) /\ (IsX64(host) \/ IsAArch64(host))  BY <1>1, HostsAreHosts
  <1>3. /\ m \in Machines(V, F) /\ IsBlock(m.registers[host.argument])
        /\ m.stack = IF OnX64(host) THEN <<ReturnAddress>> ELSE <<>>
        /\ \A r \in Registers \ {host.argument} : m.registers[r] = Caller(r)
    BY <1>1, CalledIsMachine
  <1>4. /\ late \in Machines(V, F)
        /\ late.stack = Execute(m, Prologue(host)).stack
        /\ late.registers[host.exit_reason] = left[1]
        /\ late.registers[host.exit_pc] = left[2]
    BY LateIs
  <1>5. host.argument \notin host.callee_saved /\ host.argument # X30 /\ X30 \in Registers
    BY <1>2 DEF IsHost, X30, Registers
  <1> HIDE DEF V, m, late, x
  <1>6. CASE IsX64(host)
    <2>1. /\ x.stack = m.stack
          /\ \A r \in host.callee_saved : x.registers[r] = m.registers[r]
          /\ x.block["exit_reason"] = late.registers[host.exit_reason]
          /\ x.block["exit_pc"] = late.registers[host.exit_pc]
      BY <1>2, <1>3, <1>4, <1>6, X64Return DEF x
    <2>2. OnX64(host) /\ host.callee_saved \subseteq Registers
      <3>1. host.saved \in Seq(Registers) /\ ToSet(host.saved) = host.callee_saved
        BY <1>6 DEF IsX64
      <3>2. \A n \in DOMAIN host.saved : host.saved[n] \in Registers
        BY <3>1, LenProperties
      <3> QED  BY <1>6, <3>1, <3>2 DEF IsX64, ToSet
    <2> QED  BY <1>1, <1>3, <1>4, <1>5, <2>1, <2>2
  <1>7. CASE IsAArch64(host)
    <2>1. /\ x.stack = m.stack
          /\ \A r \in host.callee_saved \union {X30} : x.registers[r] = m.registers[r]
          /\ x.block["exit_reason"] = late.registers[host.exit_reason]
          /\ x.block["exit_pc"] = late.registers[host.exit_pc]
      BY <1>2, <1>3, <1>4, <1>7, AArch64Return DEF x
    <2>2. ~OnX64(host) /\ host.callee_saved \subseteq Registers  BY <1>7 DEF IsAArch64
    <2> QED  BY <1>1, <1>3, <1>4, <1>5, <2>1, <2>2 DEF ReturnAddress
  <1> QED  BY <1>2, <1>6, <1>7

LEMMA TrampolineIsSafe == TrampolineInv => AbiIsKept /\ GuestRunsForItsCaller
  <1> SUFFICES ASSUME TrampolineInv PROVE AbiIsKept /\ GuestRunsForItsCaller  OBVIOUS
  <1>1. AbiIsKept
    <2>1. ASSUME place = "guest"
          PROVE  Len(machine.stack) % 2 = (IF OnX64(host) THEN 1 ELSE 0)
      <3>1. machine = Inside  BY <2>1 DEF TrampolineInv
      <3> QED  BY <2>1, <3>1, InsideIs
    <2> QED  BY <2>1, ReturnedIs DEF AbiIsKept
  <1>2. ASSUME place = "guest"
        PROVE  \A i \in DOMAIN host.context :
                 machine.registers[host.context[i][1]] = <<host.context[i][2], vm>>
    <2>1. machine = Inside /\ host \in Hosts  BY <1>2 DEF TrampolineInv
    <2>2. host.context \in Seq(Registers \X AllFields(host))
      BY <2>1, HostsAreHosts DEF IsHost, HasContext
    <2>3. DOMAIN host.context = 1 .. Len(host.context)  BY <2>2, LenProperties
    <2> QED  BY <1>2, <2>1, <2>3, InsideIs
  <1>3. ASSUME place = "guest", OnX64(host) => OfOneSize PROVE Bound = memory_size[vm]
    <2>1. host \in Hosts /\ vm \in Vms /\ \E v \in Vms : baked[entry] = memory_size[v]
      BY <1>3 DEF TrampolineInv
    <2>2. CASE OnX64(host)  BY <1>3, <2>1, <2>2 DEF Bound, OfOneSize
    <2>3. CASE ~OnX64(host)
      <3>1. host = AArch64  BY <2>1, <2>3, HostsAreHosts DEF IsX64, IsAArch64
      <3>2. host.context = ContextA64  BY <3>1 DEF AArch64
      <3>3. 4 \in DOMAIN ContextA64 /\ ContextA64[4] = <<3, "memory_size">>
        BY DEF ContextA64
      <3>4. machine.registers[host.context[4][1]] = <<host.context[4][2], vm>>
        BY <1>2, <1>3, <3>2, <3>3
      <3>5. host.context[4][1] = 3  BY <3>2, <3>3
      <3>6. machine.registers[3][2] = vm  BY <3>4, <3>5
      <3> QED  BY <2>3, <3>6 DEF Bound
    <2> QED  BY <2>2, <2>3
  <1> QED  BY <1>1, <1>2, <1>3, ReturnedIs DEF GuestRunsForItsCaller

-----------------------------------------------------------------------------
\* Blocks run from the entrypoint, and from where the last one has left.
RunsTranslated ==
    /\ entrypoint \in Entrypoints
    /\ loader_at # "stopped" => entrypoint # 0
    /\ loader_at = "ready" => pc \in Pcs

RunInv == TrampolineInv /\ RunsTranslated

LEMMA RunStep == RunInv /\ [Next]_vars => RunInv'
  <1> SUFFICES ASSUME RunInv, [Next]_vars PROVE RunInv'  OBVIOUS
  <1> USE DEF RunInv
  <1>1. CASE LoadImage
    <2>1. TrampolineInv'  BY <1>1, StutterKeeps DEF LoadImage
    <2>2. RunsTranslated'
      <3>1. CASE Prepare
        <4>0. loader_at = "loaded" /\ RunsTranslated  BY <3>1 DEF Prepare
        <4>1. entrypoint \in Entrypoints \ {0}  BY <4>0 DEF RunsTranslated
        <4> QED  BY <3>1, <4>1, EntrypointsAssumption
                 DEF RunsTranslated, Prepare, image_vars
      <3>2. CASE Skip  BY <3>2 DEF RunsTranslated, Skip
      <3>3. CASE LoadSegment  BY <3>3 DEF RunsTranslated, LoadSegment
      <3>4. CASE Loaded  BY <3>4 DEF RunsTranslated, Loaded, image_vars
      <3>5. CASE Refuse  BY <3>5 DEF RunsTranslated, Refuse, image_vars
      <3>6. CASE Crash  BY <3>6 DEF RunsTranslated, Crash, image_vars
      <3> QED  BY <1>1, <3>1, <3>2, <3>3, <3>4, <3>5, <3>6 DEF LoadImage, LoaderNext
    <2> QED  BY <2>1, <2>2
  <1>2. CASE RunBlock
    <2>1. pc \in Pcs  BY <1>2 DEF RunBlock, RunsTranslated
    <2>2. PICK v \in Vms : Enter(v, pc)  BY <1>2 DEF RunBlock
    <2>3. TrampolineInv'  BY <2>1, <2>2, EnterKeeps
    <2> QED
      BY <1>2, <2>3 DEF RunBlock, RunsTranslated, loader_vars, image_vars, start_vars
  <1>3. CASE OutOfTable
    <2>1. TrampolineInv'  BY <1>3, StutterKeeps DEF OutOfTable
    <2> QED  BY <1>3, <2>1 DEF OutOfTable, RunsTranslated, image_vars
  <1>4. CASE RunGuest
    <2>1. PICK reason \in Reasons, p \in Pcs : Guest(reason, p)  BY <1>4 DEF RunGuest
    <2>2. TrampolineInv'  BY <2>1, GuestKeeps
    <2> QED
      BY <1>4, <2>2 DEF RunGuest, RunsTranslated, loader_vars, image_vars, start_vars
  <1>5. CASE GoOn
    <2>1. TrampolineInv'  BY <1>5, ReturnKeeps DEF GoOn
    <2>2. PICK reason \in Reasons, p \in Pcs : left = Exit(reason, p)
      BY <1>5 DEF GoOn, Return, TrampolineInv
    <2>3. machine.block["exit_pc"] = <<"pc", p>>
      BY <1>5, <2>2, ReturnedIs DEF GoOn, Return, Exit
    <2>4. pc' = p  BY <1>5, <2>3 DEF GoOn
    <2> QED  BY <1>5, <2>1, <2>4 DEF GoOn, RunsTranslated, image_vars
  <1>6. CASE UNCHANGED vars
    <2>1. TrampolineInv'  BY <1>6, StutterKeeps DEF vars
    <2> QED
      BY <1>6, <2>1 DEF vars, RunsTranslated, loader_vars, image_vars, start_vars
  <1> QED  BY <1>1, <1>2, <1>3, <1>4, <1>5, <1>6 DEF Next, Stopped

LEMMA Running == Spec => []RunInv
  <1>1. Init => RunInv
    BY TrampolineStarts DEF Init, LoaderInit, RunInv, RunsTranslated
  <1> QED  BY <1>1, RunStep, PTL DEF Spec

\* The ABI is kept on every host, whatever pairs and groups the registers are
\* saved in: the caller of a trampoline gets its callee-saved registers, its
\* return address and its stack back, and the stack is aligned at the call.
THEOREM CallersAreSafe == Spec => []AbiIsKept
  BY Running, TrampolineIsSafe, PTL DEF RunInv

\* Translated code runs with its caller's context, and the caller gets its exit,
\* for all Vms that share a CodeBuffer: on x64 if their memories are of one size.
THEOREM GuestsAreCallers == Spec => []GuestRunsForItsCaller
  BY Running, TrampolineIsSafe, PTL DEF RunInv
=============================================================================
