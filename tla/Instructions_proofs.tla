------------------------ MODULE Instructions_proofs ------------------------
(***************************************************************************)
(* For every word: what it is decoded to, against how the instruction set  *)
(* encodes it.  For every width and every contents of the registers: what  *)
(* the interpreter and the code of the two generators compute for every    *)
(* arithmetic instruction, against what the instruction set says.          *)
(***************************************************************************)
EXTENDS Decoder, Alu, TLAPS, WellFoundedInduction

-----------------------------------------------------------------------------
\* Numbers.
LEMMA Division ==
    ASSUME NEW n \in Int, NEW d \in Nat \ {0}
    PROVE  /\ n \div d \in Int /\ n % d \in 0 .. d - 1
           /\ n = d * (n \div d) + (n % d)
  BY SMT

LEMMA QuotientAndRest ==
    ASSUME NEW d \in Nat \ {0}, NEW r \in 0 .. d - 1, NEW q \in Int
    PROVE  (r + d * q) % d = r /\ (r + d * q) \div d = q
  BY SMT

\* Numbers that are the same modulo m.
Congruent(x, y, m) == \E q \in Int : x = y + m * q

LEMMA SameRest ==
    ASSUME NEW m \in Nat \ {0}, NEW x \in Int, NEW y \in Int, Congruent(x, y, m)
    PROVE  x % m = y % m
  <1>0. PICK q \in Int : x = y + m * q  BY DEF Congruent
  <1> DEFINE r == y % m
             p == y \div m
  <1>1. p \in Int /\ r \in 0 .. m - 1 /\ y = m * p + r  BY Division
  <1> HIDE DEF r, p
  <1>2. p + q \in Int /\ m * (p + q) = m * p + m * q  BY <1>1
  <1>3. x = r + m * (p + q)  BY <1>0, <1>1, <1>2
  <1>4. x % m = r  BY <1>1, <1>2, <1>3, QuotientAndRest
  <1> QED  BY <1>4 DEF r

LEMMA Difference ==
    ASSUME NEW m \in Nat \ {0}, NEW x \in Int, NEW y \in Int, x % m = y % m
    PROVE  \E q \in Int : x = y + m * q
  <1> DEFINE r == y % m
             p == y \div m
             o == x \div m
  <1>1. p \in Int /\ r \in 0 .. m - 1 /\ y = m * p + r  BY Division
  <1>2. o \in Int /\ x = m * o + r  BY Division
  <1> HIDE DEF r, p, o
  <1>3. o - p \in Int /\ m * (o - p) = m * o - m * p  BY <1>1, <1>2
  <1>4. x = y + m * (o - p)  BY <1>1, <1>2, <1>3
  <1> QED  BY <1>3, <1>4

LEMMA RestOfRest ==
    ASSUME NEW m \in Nat \ {0}, NEW x \in Int
    PROVE  x % m \in Int /\ (x % m) % m = x % m
  <1>1. x % m \in Int /\ x \div m \in Int  BY Division
  <1>2. x = (x % m) + m * (x \div m)  BY Division
  <1>3. Congruent(x, x % m, m)  BY <1>1, <1>2 DEF Congruent
  <1> QED  BY <1>1, <1>3, SameRest

IsSame(x, y, m) == x % m = y % m
LEMMA SameRests ==
    ASSUME NEW m \in Nat \ {0}, NEW x \in Int, NEW y \in Int, NEW v \in Int, NEW w \in Int,
           IsSame(x, v, m), IsSame(y, w, m)
    PROVE  /\ (x + y) % m = (v + w) % m
           /\ (x - y) % m = (v - w) % m
           /\ (x * y) % m = (v * w) % m
  <1>1. PICK p \in Int : x = v + m * p  BY Difference DEF IsSame
  <1>2. PICK q \in Int : y = w + m * q  BY Difference DEF IsSame
  <1>3. /\ p + q \in Int /\ m * (p + q) = m * p + m * q
        /\ p - q \in Int /\ m * (p - q) = m * p - m * q  BY <1>1, <1>2
  <1>4. x + y = (v + w) + m * (p + q) /\ x - y = (v - w) + m * (p - q)
    BY <1>1, <1>2, <1>3
  <1>5. (x + y) % m = (v + w) % m
    <2>1. x + y \in Int /\ v + w \in Int  OBVIOUS
    <2>2. Congruent(x + y, v + w, m)  BY <1>3, <1>4 DEF Congruent
    <2> QED  BY <2>1, <2>2, SameRest
  <1>6. (x - y) % m = (v - w) % m
    <2>1. x - y \in Int /\ v - w \in Int  OBVIOUS
    <2>2. Congruent(x - y, v - w, m)  BY <1>3, <1>4 DEF Congruent
    <2> QED  BY <2>1, <2>2, SameRest
  <1>7. (x * y) % m = (v * w) % m
    <2> DEFINE d == v * q + p * w + m * p * q
    <2>1. x * y \in Int /\ v * w \in Int /\ d \in Int  BY <1>1, <1>2
    <2>2. (v + m * p) * (w + m * q) = v * w + m * d  BY SMT
    <2>3. x * y = v * w + m * d  BY <1>1, <1>2, <2>2
    <2> HIDE DEF d
    <2>4. Congruent(x * y, v * w, m)  BY <2>1, <2>3 DEF Congruent
    <2> QED  BY <2>1, <2>4, SameRest
  <1> QED  BY <1>5, <1>6, <1>7

LEMMA RestOfMultiple ==
    ASSUME NEW m \in Nat \ {0}, NEW e \in Nat \ {0}, NEW x \in Int
    PROVE  (x % (m * e)) % m = x % m
  <1> DEFINE d == m * e
  <1>1. d \in Nat \ {0}  OBVIOUS
  <1> DEFINE r == x % d
             q == x \div d
  <1>2. q \in Int /\ r \in Int /\ x = d * q + r
    <2> HIDE DEF d
    <2> QED  BY <1>1, Division
  <1> HIDE DEF r, q
  <1>3. e * q \in Int /\ d * q = m * (e * q)  BY <1>2
  <1>4. x = r + m * (e * q)  BY <1>2, <1>3
  <1>5. Congruent(x, r, m)  BY <1>3, <1>4 DEF Congruent
  <1>6. x % m = r % m  BY <1>2, <1>5, SameRest
  <1> QED  BY <1>6 DEF r

-----------------------------------------------------------------------------
\* Definitions by recursion.
LEMMA Induction ==
    ASSUME NEW S, 0 \in S, \A n \in Nat : n \in S => n + 1 \in S
    PROVE  \A n \in Nat : n \in S
  <1> DEFINE T == Nat \ S
  <1>1. SUFFICES ASSUME T # {} PROVE FALSE  OBVIOUS
  <1>2. \E x \in T : \A y \in T : ~(<<y, x>> \in OpToRel(<, Nat))
    BY <1>1, WFMin, NatLessThanWellFounded, Zenon
  <1>3. PICK x \in T : \A y \in T : ~(y < x)
    <2>1. \A x, y \in Nat : y < x => <<y, x>> \in OpToRel(<, Nat)  BY DEF OpToRel
    <2> QED  BY <1>2, <2>1
  <1>4. x # 0  OBVIOUS
  <1>5. x - 1 \in Nat /\ x - 1 < x /\ x = (x - 1) + 1  BY <1>4
  <1>6. x - 1 \in S  BY <1>3, <1>5
  <1> QED  BY <1>5, <1>6

IsRecursive(f, base, step) == f[0] = base /\ \A n \in Nat : f[n + 1] = step[n][f[n]]

\* Data that is defined step by step exists.
LEMMA Recursion ==
    ASSUME NEW S, NEW base \in S, NEW step \in [Nat -> [S -> S]]
    PROVE  \E f \in [Nat -> S] : IsRecursive(f, base, step)
  <1> DEFINE Part(n, g) == /\ g \in [0 .. n -> S] /\ g[0] = base
                           /\ \A m \in 0 .. n - 1 : g[m + 1] = step[m][g[m]]
             Long == {n \in Nat : \E g : Part(n, g)}
  <1>1. \A n \in Nat : \E g : Part(n, g)
    <2>1. 0 \in Long
      <3>1. Part(0, [m \in 0 .. 0 |-> base])  OBVIOUS
      <3> QED  BY <3>1
    <2>2. ASSUME NEW n \in Nat, n \in Long PROVE n + 1 \in Long
      <3>1. PICK g : Part(n, g)  BY <2>2
      <3> DEFINE h == [m \in 0 .. n + 1 |-> IF m = n + 1 THEN step[n][g[n]] ELSE g[m]]
      <3>2. step[n][g[n]] \in S  BY <3>1
      <3>3. h \in [0 .. n + 1 -> S] /\ h[0] = base
        <4>1. \A m \in 0 .. n + 1 : m = n + 1 \/ m \in 0 .. n  OBVIOUS
        <4>2. \A m \in 0 .. n : g[m] \in S  BY <3>1
        <4>3. 0 \in 0 .. n + 1 /\ 0 # n + 1 /\ g[0] = base  BY <3>1
        <4> QED  BY <3>2, <4>1, <4>2, <4>3
      <3>4. ASSUME NEW m \in 0 .. n PROVE h[m + 1] = step[m][h[m]]
        <4>1. CASE m = n  BY <4>1
        <4>2. CASE m # n  BY <3>1, <4>2
        <4> QED  BY <4>1, <4>2
      <3>5. (n + 1) - 1 = n  OBVIOUS
      <3>6. Part(n + 1, h)
        <4> HIDE DEF h
        <4> QED  BY <3>3, <3>4, <3>5
      <3> HIDE DEF h, Part
      <3> QED  BY <3>6
    <2> HIDE DEF Part
    <2>3. \A n \in Nat : n \in Long  BY <2>1, <2>2, Induction
    <2> QED  BY <2>3
  <1>2. ASSUME NEW n \in Nat, NEW g, NEW h, Part(n, g), Part(n + 1, h)
        PROVE  g[n] = h[n]
    <2> DEFINE Same == {m \in Nat : m <= n => g[m] = h[m]}
    <2>1. 0 \in Same  BY <1>2
    <2>2. ASSUME NEW m \in Nat, m \in Same PROVE m + 1 \in Same
      <3>1. CASE m + 1 <= n  BY <1>2, <2>2, <3>1
      <3>2. CASE ~(m + 1 <= n)  BY <3>2
      <3> QED  BY <3>1, <3>2
    <2> HIDE DEF Part, Same
    <2>3. n \in Same  BY <2>1, <2>2, Induction
    <2> QED  BY <2>3 DEF Same
  <1> DEFINE G(n) == CHOOSE g : Part(n, g)
             f == [n \in Nat |-> G(n)[n]]
  <1>3. \A n \in Nat : Part(n, G(n))
    <2> HIDE DEF Part
    <2> QED  BY <1>1
  <1>4. f \in [Nat -> S] /\ f[0] = base
    <2> HIDE DEF G
    <2>1. \A n \in Nat : n \in 0 .. n  OBVIOUS
    <2>2. \A n \in Nat : G(n)[n] \in S  BY <1>3, <2>1
    <2>3. G(0)[0] = base  BY <1>3
    <2> QED  BY <2>2, <2>3
  <1>5. ASSUME NEW n \in Nat PROVE f[n + 1] = step[n][f[n]]
    <2> HIDE DEF G, Part
    <2>1. n + 1 \in Nat /\ Part(n, G(n)) /\ Part(n + 1, G(n + 1))  BY <1>3
    <2>2. G(n)[n] = G(n + 1)[n]  BY <1>2, <2>1
    <2>3. G(n + 1)[n + 1] = step[n][G(n + 1)[n]]
      <3>1. n \in 0 .. (n + 1) - 1  OBVIOUS
      <3> QED  BY <2>1, <3>1 DEF Part
    <2> QED  BY <2>1, <2>2, <2>3
  <1> HIDE DEF f
  <1> QED  BY <1>4, <1>5 DEF IsRecursive

LEMMA PowerSteps ==
    /\ Power \in [Nat -> Nat] /\ Power[0] = 1
    /\ \A n \in Nat : Power[n + 1] = 2 * Power[n]
  <1> DEFINE step == [n \in Nat |-> [v \in Nat |-> 2 * v]]
  <1>1. step \in [Nat -> [Nat -> Nat]] /\ 1 \in Nat  OBVIOUS
  <1>2. PICK f \in [Nat -> Nat] : f[0] = 1 /\ \A n \in Nat : f[n + 1] = step[n][f[n]]
    <2> HIDE DEF step
    <2>1. \E f \in [Nat -> Nat] : IsRecursive(f, 1, step)  BY <1>1, Recursion
    <2> QED  BY <2>1 DEF IsRecursive
  <1>3. f = [n \in Nat |-> IF n = 0 THEN 1 ELSE 2 * f[n - 1]]
    <2>0. \A n \in Nat : f[n + 1] = 2 * f[n]  BY <1>2
    <2>1. \A n \in Nat : f[n] = IF n = 0 THEN 1 ELSE 2 * f[n - 1]
      <3> SUFFICES ASSUME NEW n \in Nat, n # 0 PROVE f[n] = 2 * f[n - 1]  BY <1>2
      <3>1. n - 1 \in Nat /\ (n - 1) + 1 = n  OBVIOUS
      <3>2. f[(n - 1) + 1] = 2 * f[n - 1]  BY <2>0, <3>1
      <3> QED  BY <3>1, <3>2
    <2> QED  BY <2>1
  <1>4. Power = [n \in Nat |-> IF n = 0 THEN 1 ELSE 2 * Power[n - 1]]
    BY <1>3 DEF Power
  <1>5. \A n \in Nat : Power[n] = IF n = 0 THEN 1 ELSE 2 * Power[n - 1]  BY <1>4
  <1>6. \A n \in Nat : n + 1 \in Nat /\ n + 1 # 0 /\ (n + 1) - 1 = n  OBVIOUS
  <1>7. Power[0] = 1 /\ \A n \in Nat : Power[n + 1] = 2 * Power[n]  BY <1>5, <1>6
  <1> DEFINE S == {n \in Nat : Power[n] \in Nat}
  <1>8. 0 \in S /\ \A n \in Nat : n \in S => n + 1 \in S  BY <1>7
  <1> HIDE DEF S
  <1>9. \A n \in Nat : n \in S  BY <1>8, Induction
  <1> QED  BY <1>4, <1>7, <1>9 DEF S

-----------------------------------------------------------------------------
\* Words and immediates.
LEMMA PowersOfTwo ==
    /\ 2 ^ 0 = 1 /\ 2 ^ 1 = 2 /\ 2 ^ 3 = 8 /\ 2 ^ 4 = 16 /\ 2 ^ 5 = 32 /\ 2 ^ 6 = 64
    /\ 2 ^ 7 = 128 /\ 2 ^ 8 = 256 /\ 2 ^ 11 = 2048 /\ 2 ^ 12 = 4096
    /\ 2 ^ 13 = 8192 /\ 2 ^ 15 = 32768 /\ 2 ^ 19 = 524288 /\ 2 ^ 20 = 1048576
    /\ 2 ^ 25 = 33554432
  BY SMT

\* The immediates of the formats, taken apart: s is the sign.
PartsOfI(imm, a, m, s) ==
    /\ a \in 0 .. 31 /\ m \in 0 .. 63 /\ s \in 0 .. 1
    /\ imm = a + 32 * m - s * 2048
LEMMA BitsOfI ==
    ASSUME NEW imm, NEW a, NEW m, NEW s, PartsOfI(imm, a, m, s)
    PROVE  /\ -2048 <= imm /\ imm < 2048
           /\ (imm \div 1) % 32 = a /\ (imm \div 32) % 128 = 64 * s + m
  <1> USE DEF PartsOfI
  <1>1. -2048 <= imm /\ imm < 2048 /\ imm \div 1 = imm  BY SMT
  <1>2. imm % 32 = a  BY SMT
  <1>3. imm \div 32 = 64 * s + m + 128 * (-s)  BY SMT
  <1>4. (64 * s + m + 128 * (-s)) % 128 = 64 * s + m  BY SMT
  <1> QED  BY <1>1, <1>2, <1>3, <1>4, SMT

PartsOfB(imm, k, l, m, s) ==
    /\ k \in 0 .. 15 /\ l \in 0 .. 1 /\ m \in 0 .. 63 /\ s \in 0 .. 1
    /\ imm = 2 * k + 32 * m + 2048 * l - s * 4096
LEMMA BitsOfB ==
    ASSUME NEW imm, NEW k, NEW l, NEW m, NEW s, PartsOfB(imm, k, l, m, s)
    PROVE  /\ -4096 <= imm /\ imm < 4096 /\ imm % 2 = 0
           /\ (imm \div 2) % 16 = k /\ (imm \div 2048) % 2 = l
           /\ (imm \div 4096) % 2 = s /\ (imm \div 32) % 64 = m
  <1> USE DEF PartsOfB
  <1>1. -4096 <= imm /\ imm < 4096 /\ imm % 2 = 0  BY SMT
  <1>2. imm \div 2 = k + 16 * (m + 64 * l - s * 128)  BY SMT
  <1>3. imm \div 32 = m + 64 * (l - s * 2)  BY SMT
  <1>4. imm \div 2048 = l + 2 * (-s)  BY SMT
  <1>5. imm \div 4096 = -s /\ (-s) % 2 = s  BY SMT
  <1>6. (k + 16 * (m + 64 * l - s * 128)) % 16 = k  BY SMT
  <1>7. (m + 64 * (l - s * 2)) % 64 = m  BY SMT
  <1>8. (l + 2 * (-s)) % 2 = l  BY SMT
  <1> QED  BY <1>1, <1>2, <1>3, <1>4, <1>5, <1>6, <1>7, <1>8, SMT

PartsOfU(imm, f, a, b, m, s) ==
    /\ f \in 0 .. 7 /\ a \in 0 .. 31 /\ b \in 0 .. 31 /\ m \in 0 .. 63 /\ s \in 0 .. 1
    /\ imm = 4096 * (f + 8 * a + 256 * b + 8192 * m - s * 524288)
LEMMA BitsOfU ==
    ASSUME NEW imm, NEW f, NEW a, NEW b, NEW m, NEW s, PartsOfU(imm, f, a, b, m, s)
    PROVE  /\ imm % 4096 = 0 /\ (imm \div 4096) % 8 = f
           /\ (imm \div 32768) % 32 = a /\ (imm \div 1048576) % 32 = b
           /\ (imm \div 33554432) % 128 = 64 * s + m
  <1> USE DEF PartsOfU
  <1>1. imm % 4096 = 0  BY SMT
  <1>2. imm \div 4096 = f + 8 * (a + 32 * b + 1024 * m - s * 65536)  BY SMT
  <1>3. imm \div 32768 = a + 32 * (b + 32 * m - s * 2048)  BY SMT
  <1>4. imm \div 1048576 = b + 32 * (m - s * 64)  BY SMT
  <1>5. imm \div 33554432 = 64 * s + m + 128 * (-s)  BY SMT
  <1>6. (f + 8 * (a + 32 * b + 1024 * m - s * 65536)) % 8 = f  BY SMT
  <1>7. (a + 32 * (b + 32 * m - s * 2048)) % 32 = a  BY SMT
  <1>8. (b + 32 * (m - s * 64)) % 32 = b  BY SMT
  <1>9. (64 * s + m + 128 * (-s)) % 128 = 64 * s + m  BY SMT
  <1> QED  BY <1>1, <1>2, <1>3, <1>4, <1>5, <1>6, <1>7, <1>8, <1>9, SMT

PartsOfJ(imm, k, l, m, s, f, a) ==
    /\ k \in 0 .. 15 /\ l \in 0 .. 1 /\ m \in 0 .. 63 /\ s \in 0 .. 1
    /\ f \in 0 .. 7 /\ a \in 0 .. 31
    /\ imm = 2 * k + 32 * m + 2048 * l + 4096 * f + 32768 * a - s * 1048576
LEMMA BitsOfJ ==
    ASSUME NEW imm, NEW k, NEW l, NEW m, NEW s, NEW f, NEW a, PartsOfJ(imm, k, l, m, s, f, a)
    PROVE  /\ -1048576 <= imm /\ imm < 1048576 /\ imm % 2 = 0
           /\ (imm \div 2) % 16 = k /\ (imm \div 2048) % 2 = l
           /\ (imm \div 1048576) % 2 = s /\ (imm \div 32) % 64 = m
           /\ (imm \div 4096) % 8 = f /\ (imm \div 32768) % 32 = a
  <1> USE DEF PartsOfJ
  <1>1. -1048576 <= imm /\ imm < 1048576  BY SMT
  <1>2. imm % 2 = 0  BY SMT
  <1>3. imm \div 2 = k + 16 * (m + 64 * l + 128 * f + 1024 * a - s * 32768)  BY SMT
  <1>4. imm \div 32 = m + 64 * (l + 2 * f + 16 * a - s * 512)  BY SMT
  <1>5. imm \div 2048 = l + 2 * (f + 8 * a - s * 256)  BY SMT
  <1>6. imm \div 4096 = f + 8 * (a - s * 32)  BY SMT
  <1>7. imm \div 32768 = a + 32 * (-s)  BY SMT
  <1>8. imm \div 1048576 = -s /\ (-s) % 2 = s  BY SMT
  <1>9. (k + 16 * (m + 64 * l + 128 * f + 1024 * a - s * 32768)) % 16 = k  BY SMT
  <1>10. (m + 64 * (l + 2 * f + 16 * a - s * 512)) % 64 = m  BY SMT
  <1>11. (l + 2 * (f + 8 * a - s * 256)) % 2 = l  BY SMT
  <1>12. (f + 8 * (a - s * 32)) % 8 = f  BY SMT
  <1>13. (a + 32 * (-s)) % 32 = a  BY SMT
  <1>14. (imm \div 2) % 16 = k /\ (imm \div 32) % 64 = m  BY <1>3, <1>9, <1>4, <1>10, SMT
  <1>15. (imm \div 2048) % 2 = l /\ (imm \div 4096) % 8 = f  BY <1>5, <1>11, <1>6, <1>12, SMT
  <1>16. (imm \div 32768) % 32 = a /\ (imm \div 1048576) % 2 = s  BY <1>7, <1>13, <1>8, SMT
  <1> QED  BY <1>1, <1>2, <1>14, <1>15, <1>16, SMT

-----------------------------------------------------------------------------
\* The immediates of words.
AnyWord == [opcode: 0 .. 127, rd: 0 .. 31, funct3: 0 .. 7,
            rs1: 0 .. 31, rs2: 0 .. 31, funct7: 0 .. 127]

LEMMA WordsAreWords == Words \subseteq AnyWord
  <1> SUFFICES ASSUME NEW w \in Words PROVE w \in AnyWord  OBVIOUS
  <1>1. /\ w.opcode \in OpcodeFields /\ w.funct3 \in 0 .. 7 /\ w.funct7 \in Functs7
        /\ w.rd \in RegisterFields /\ w.rs1 \in RegisterFields /\ w.rs2 \in RegisterFields
    BY DEF Words
  <1>2. w = [opcode |-> w.opcode, rd |-> w.rd, funct3 |-> w.funct3,
             rs1 |-> w.rs1, rs2 |-> w.rs2, funct7 |-> w.funct7]
    BY DEF Words
  <1> QED  BY <1>1, <1>2, FieldsAssumption DEF AnyWord

LEMMA LastBit ==
    ASSUME NEW x \in 0 .. 31
    PROVE  x \div 2 \in 0 .. 15 /\ x % 2 \in 0 .. 1 /\ x = 2 * (x \div 2) + (x % 2)
  <1> DEFINE q == x \div 2
             r == x % 2
  <1>1. q \in Int /\ r \in 0 .. 1 /\ x = 2 * q + r  BY Division
  <1> HIDE DEF q, r
  <1>2. q \in 0 .. 15  BY <1>1, SMT
  <1> QED  BY <1>1, <1>2, SMT DEF q, r

Sign(w) == Bit(w, 31)
LEMMA FirstBit ==
    ASSUME NEW w \in AnyWord
    PROVE  /\ Sign(w) \in 0 .. 1 /\ w.funct7 % 64 \in 0 .. 63
           /\ w.funct7 = 64 * Sign(w) + (w.funct7 % 64)
  <1> DEFINE y == w.funct7
             q == y \div 64
             r == y % 64
  <1>1. y \in 0 .. 127  BY DEF AnyWord
  <1>2. q \in Int /\ r \in 0 .. 63 /\ y = 64 * q + r
    <2> HIDE DEF y
    <2> QED  BY <1>1, Division
  <1>3. Sign(w) = q % 2  BY PowersOfTwo, SMT DEF Sign, Bit
  <1> HIDE DEF y, q, r
  <1>4. q \in 0 .. 1  BY <1>1, <1>2, SMT
  <1>5. q % 2 = q  BY <1>4, SMT
  <1> QED  BY <1>2, <1>3, <1>4, <1>5, SMT DEF y, r

LEMMA ImmediateOfI ==
    ASSUME NEW w \in AnyWord, NEW imm, imm = ImmediateI(w)
    PROVE  /\ Fits(imm, 11)
           /\ w.rs2 = Field(imm, 0, 5) /\ w.funct7 = Field(imm, 5, 7)
  <1> DEFINE a == w.rs2
             m == w.funct7 % 64
             s == Sign(w)
  <1>1. a \in 0 .. 31 /\ m \in 0 .. 63 /\ s \in 0 .. 1 /\ w.funct7 = 64 * s + m
    BY FirstBit DEF AnyWord
  <1>2. imm = SignExtend(w, a + 32 * m, 11)  BY DEF ImmediateI
  <1> HIDE DEF a, m
  <1>3. imm = a + 32 * m - s * 2048  BY <1>1, <1>2, PowersOfTwo, SMT DEF SignExtend, Sign
  <1> HIDE DEF s
  <1>4. PartsOfI(imm, a, m, s)  BY <1>1, <1>3, SMT DEF PartsOfI
  <1>5. /\ -2048 <= imm /\ imm < 2048
        /\ (imm \div 1) % 32 = a /\ (imm \div 32) % 128 = 64 * s + m
    BY <1>4, BitsOfI, SMT
  <1>6. w.rs2 = a  BY DEF a
  <1> QED  BY <1>1, <1>5, <1>6, PowersOfTwo, SMT DEF Field, Fits

LEMMA ImmediateOfS ==
    ASSUME NEW w \in AnyWord, NEW imm, imm = ImmediateS(w)
    PROVE  /\ Fits(imm, 11)
           /\ w.rd = Field(imm, 0, 5) /\ w.funct7 = Field(imm, 5, 7)
  <1> DEFINE a == w.rd
             m == w.funct7 % 64
             s == Sign(w)
  <1>1. a \in 0 .. 31 /\ m \in 0 .. 63 /\ s \in 0 .. 1 /\ w.funct7 = 64 * s + m
    BY FirstBit DEF AnyWord
  <1>2. imm = SignExtend(w, a + 32 * m, 11)  BY DEF ImmediateS
  <1> HIDE DEF a, m
  <1>3. imm = a + 32 * m - s * 2048  BY <1>1, <1>2, PowersOfTwo, SMT DEF SignExtend, Sign
  <1> HIDE DEF s
  <1>4. PartsOfI(imm, a, m, s)  BY <1>1, <1>3, SMT DEF PartsOfI
  <1>5. /\ -2048 <= imm /\ imm < 2048
        /\ (imm \div 1) % 32 = a /\ (imm \div 32) % 128 = 64 * s + m
    BY <1>4, BitsOfI, SMT
  <1>6. w.rd = a  BY DEF a
  <1> QED  BY <1>1, <1>5, <1>6, PowersOfTwo, SMT DEF Field, Fits

LEMMA ImmediateOfB ==
    ASSUME NEW w \in AnyWord, NEW imm, imm = ImmediateB(w)
    PROVE  /\ Fits(imm, 12) /\ imm % 2 = 0
           /\ w.rd = 2 * Field(imm, 1, 4) + Field(imm, 11, 1)
           /\ w.funct7 = 64 * Field(imm, 12, 1) + Field(imm, 5, 6)
  <1> DEFINE k == w.rd \div 2
             l == w.rd % 2
             m == w.funct7 % 64
             s == Sign(w)
  <1>1. /\ k \in 0 .. 15 /\ l \in 0 .. 1 /\ w.rd = 2 * k + l
        /\ m \in 0 .. 63 /\ s \in 0 .. 1 /\ w.funct7 = 64 * s + m
    BY LastBit, FirstBit DEF AnyWord
  <1>2. imm = SignExtend(w, 2 * k + 32 * m + 2048 * l, 12)
    BY PowersOfTwo DEF ImmediateB
  <1> HIDE DEF k, l, m
  <1>3. imm = 2 * k + 32 * m + 2048 * l - s * 4096
    BY <1>1, <1>2, PowersOfTwo, SMT DEF SignExtend, Sign
  <1> HIDE DEF s
  <1>4. PartsOfB(imm, k, l, m, s)  BY <1>1, <1>3, SMT DEF PartsOfB
  <1>5. /\ -4096 <= imm /\ imm < 4096 /\ imm % 2 = 0
        /\ (imm \div 2) % 16 = k /\ (imm \div 2048) % 2 = l
        /\ (imm \div 4096) % 2 = s /\ (imm \div 32) % 64 = m
    BY <1>4, BitsOfB, SMT
  <1> QED  BY <1>1, <1>5, PowersOfTwo, SMT DEF Field, Fits

LEMMA ImmediateOfU ==
    ASSUME NEW w \in AnyWord, NEW imm, imm = ImmediateU(w)
    PROVE  /\ imm % 2 ^ 12 = 0 /\ w.funct3 = Field(imm, 12, 3)
           /\ w.rs1 = Field(imm, 15, 5) /\ w.rs2 = Field(imm, 20, 5)
           /\ w.funct7 = Field(imm, 25, 7)
  <1> DEFINE f == w.funct3
             a == w.rs1
             b == w.rs2
             m == w.funct7 % 64
             s == Sign(w)
  <1>1. /\ f \in 0 .. 7 /\ a \in 0 .. 31 /\ b \in 0 .. 31
        /\ m \in 0 .. 63 /\ s \in 0 .. 1 /\ w.funct7 = 64 * s + m
    BY FirstBit DEF AnyWord
  <1>2. imm = 2 ^ 12 * SignExtend(w, f + 2 ^ 3 * a + 2 ^ 8 * b + 2 ^ 13 * m, 19)
    BY DEF ImmediateU
  <1> HIDE DEF f, a, b, m
  <1>3. imm = 4096 * (f + 8 * a + 256 * b + 8192 * m - s * 524288)
    BY <1>1, <1>2, PowersOfTwo, SMT DEF SignExtend, Sign
  <1> HIDE DEF s
  <1>4. PartsOfU(imm, f, a, b, m, s)  BY <1>1, <1>3, SMT DEF PartsOfU
  <1>5. /\ imm % 4096 = 0 /\ (imm \div 4096) % 8 = f
        /\ (imm \div 32768) % 32 = a /\ (imm \div 1048576) % 32 = b
        /\ (imm \div 33554432) % 128 = 64 * s + m
    BY <1>4, BitsOfU, SMT
  <1>6. w.funct3 = f /\ w.rs1 = a /\ w.rs2 = b  BY DEF f, a, b
  <1> QED  BY <1>1, <1>5, <1>6, PowersOfTwo, SMT DEF Field

LEMMA ImmediateOfJ ==
    ASSUME NEW w \in AnyWord, NEW imm, imm = ImmediateJ(w)
    PROVE  /\ Fits(imm, 20) /\ imm % 2 = 0
           /\ w.rs2 = 2 * Field(imm, 1, 4) + Field(imm, 11, 1)
           /\ w.funct7 = 64 * Field(imm, 20, 1) + Field(imm, 5, 6)
           /\ w.funct3 = Field(imm, 12, 3) /\ w.rs1 = Field(imm, 15, 5)
  <1> DEFINE k == w.rs2 \div 2
             l == w.rs2 % 2
             m == w.funct7 % 64
             s == Sign(w)
             f == w.funct3
             a == w.rs1
  <1>1. /\ k \in 0 .. 15 /\ l \in 0 .. 1 /\ w.rs2 = 2 * k + l
        /\ f \in 0 .. 7 /\ a \in 0 .. 31
        /\ m \in 0 .. 63 /\ s \in 0 .. 1 /\ w.funct7 = 64 * s + m
    BY LastBit, FirstBit DEF AnyWord
  <1>2. imm = SignExtend(w, 2 * k + 32 * m + 2 ^ 11 * l + 2 ^ 12 * f + 2 ^ 15 * a, 20)
    BY DEF ImmediateJ
  <1> HIDE DEF k, l, m, f, a
  <1>3. imm = 2 * k + 32 * m + 2048 * l + 4096 * f + 32768 * a - s * 1048576
    BY <1>1, <1>2, PowersOfTwo, SMT DEF SignExtend, Sign
  <1> HIDE DEF s
  <1>4. PartsOfJ(imm, k, l, m, s, f, a)  BY <1>1, <1>3, SMT DEF PartsOfJ
  <1>5. /\ -1048576 <= imm /\ imm < 1048576 /\ imm % 2 = 0
        /\ (imm \div 2) % 16 = k /\ (imm \div 2048) % 2 = l
        /\ (imm \div 1048576) % 2 = s /\ (imm \div 32) % 64 = m
        /\ (imm \div 4096) % 8 = f /\ (imm \div 32768) % 32 = a
    BY <1>4, BitsOfJ, SMT
  <1>6. w.funct3 = f /\ w.rs1 = a  BY DEF f, a
  <1> QED  BY <1>1, <1>5, <1>6, PowersOfTwo, SMT DEF Field, Fits

-----------------------------------------------------------------------------
\* The encodings of an opcode.
EncodingsOf(opcode) == {e \in Encodings : e[3] = opcode}

LEMMA EncodingsOfOpcodes ==
    /\ EncodingsOf(Lui) = {<<"Lui", "U", Lui, Free, Free>>}
    /\ EncodingsOf(Auipc) = {<<"Auipc", "U", Auipc, Free, Free>>}
    /\ EncodingsOf(Jal) = {<<"Jal", "J", Jal, Free, Free>>}
    /\ EncodingsOf(Jalr) = {<<"Jalr", "I", Jalr, 0, Free>>}
    /\ EncodingsOf(Fence) = {<<"Fence", "I", Fence, 0, Free>>}
    /\ EncodingsOf(System) =
         {<<"Ecall", "System", System, 0, 0>>, <<"Ebreak", "System", System, 0, 0>>}
    /\ EncodingsOf(Branch) =
         {<<"Beq", "B", Branch, 0, Free>>, <<"Bne", "B", Branch, 1, Free>>,
          <<"Blt", "B", Branch, 4, Free>>, <<"Bge", "B", Branch, 5, Free>>,
          <<"Bltu", "B", Branch, 6, Free>>, <<"Bgeu", "B", Branch, 7, Free>>}
    /\ EncodingsOf(Load) =
         {<<"Lb", "I", Load, 0, Free>>, <<"Lh", "I", Load, 1, Free>>,
          <<"Lw", "I", Load, 2, Free>>, <<"Ld", "I", Load, 3, Free>>,
          <<"Lbu", "I", Load, 4, Free>>, <<"Lhu", "I", Load, 5, Free>>,
          <<"Lwu", "I", Load, 6, Free>>}
    /\ EncodingsOf(Store) =
         {<<"Sb", "S", Store, 0, Free>>, <<"Sh", "S", Store, 1, Free>>,
          <<"Sw", "S", Store, 2, Free>>, <<"Sd", "S", Store, 3, Free>>}
    /\ EncodingsOf(OpImm) =
         {<<"Addi", "I", OpImm, 0, Free>>, <<"Slti", "I", OpImm, 2, Free>>,
          <<"Sltiu", "I", OpImm, 3, Free>>, <<"Xori", "I", OpImm, 4, Free>>,
          <<"Ori", "I", OpImm, 6, Free>>, <<"Andi", "I", OpImm, 7, Free>>,
          <<"Slli", "Shift", OpImm, 1, 0>>, <<"Srli", "Shift", OpImm, 5, 0>>,
          <<"Srai", "Shift", OpImm, 5, 32>>}
    /\ EncodingsOf(OpImm32) =
         {<<"Addiw", "I", OpImm32, 0, Free>>, <<"Slliw", "Shift32", OpImm32, 1, 0>>,
          <<"Srliw", "Shift32", OpImm32, 5, 0>>, <<"Sraiw", "Shift32", OpImm32, 5, 32>>}
    /\ EncodingsOf(Op) =
         {<<"Add", "R", Op, 0, 0>>, <<"Sub", "R", Op, 0, 32>>, <<"Sll", "R", Op, 1, 0>>,
          <<"Slt", "R", Op, 2, 0>>, <<"Sltu", "R", Op, 3, 0>>, <<"Xor", "R", Op, 4, 0>>,
          <<"Srl", "R", Op, 5, 0>>, <<"Sra", "R", Op, 5, 32>>, <<"Or", "R", Op, 6, 0>>,
          <<"And", "R", Op, 7, 0>>, <<"Mul", "R", Op, 0, 1>>, <<"Mulh", "R", Op, 1, 1>>,
          <<"Mulhsu", "R", Op, 2, 1>>, <<"Mulhu", "R", Op, 3, 1>>,
          <<"Div", "R", Op, 4, 1>>, <<"Divu", "R", Op, 5, 1>>, <<"Rem", "R", Op, 6, 1>>,
          <<"Remu", "R", Op, 7, 1>>}
    /\ EncodingsOf(Op32) =
         {<<"Addw", "R", Op32, 0, 0>>, <<"Subw", "R", Op32, 0, 32>>,
          <<"Sllw", "R", Op32, 1, 0>>, <<"Srlw", "R", Op32, 5, 0>>,
          <<"Sraw", "R", Op32, 5, 32>>, <<"Mulw", "R", Op32, 0, 1>>,
          <<"Divw", "R", Op32, 4, 1>>, <<"Divuw", "R", Op32, 5, 1>>,
          <<"Remw", "R", Op32, 6, 1>>, <<"Remuw", "R", Op32, 7, 1>>}
    /\ \A opcode : opcode \notin Opcodes => EncodingsOf(opcode) = {}
  BY SMTT(30)
     DEF EncodingsOf, Encodings, Opcodes, Lui, Auipc, Jal, Jalr, Fence, System, Branch,
         Load, Store, OpImm, OpImm32, Op, Op32

\* What Defined asks of an encoding besides its opcode.
Fixes(e, w) ==
    /\ e[4] \in {Free, w.funct3}
    /\ CASE e[2] = "Shift" -> w.funct7 \div 2 = e[5] \div 2
         [] e[2] = "System" -> w.rd = 0 /\ w.rs1 = 0 /\ w.rs2 \in {0, 1} /\ w.funct7 = 0
         [] OTHER -> e[5] \in {Free, w.funct7}

LEMMA DefinedByOpcode ==
    ASSUME NEW w
    PROVE  Defined(w) <=> \E e \in EncodingsOf(w.opcode) : Fixes(e, w)
  BY DEF Defined, EncodingsOf, Fixes

Encoded(w) == \E e \in EncodingsOf(w.opcode) : Encodes(e, Decode(w), w)
LEMMA EncodedByOpcode ==
    ASSUME NEW w, Encoded(w)
    PROVE  \E e \in Encodings : Encodes(e, Decode(w), w)
  BY DEF Encoded, EncodingsOf

\* An instruction of each format encodes to its word.
LEMMA EncodesI ==
    ASSUME NEW w \in AnyWord, NEW type, NEW opcode, w.opcode = opcode
    PROVE  Encodes(<<type, "I", opcode, w.funct3, Free>>, MakeI(w, type, ImmediateI(w)), w)
  BY ImmediateOfI DEF Encodes, MakeI, Make
LEMMA EncodesS ==
    ASSUME NEW w \in AnyWord, NEW type, NEW opcode, w.opcode = opcode
    PROVE  Encodes(<<type, "S", opcode, w.funct3, Free>>,
                   Make(type, 0, w.rs1, w.rs2, ImmediateS(w)), w)
  BY ImmediateOfS DEF Encodes, Make
LEMMA EncodesB ==
    ASSUME NEW w \in AnyWord, NEW type, NEW opcode, w.opcode = opcode
    PROVE  Encodes(<<type, "B", opcode, w.funct3, Free>>,
                   Make(type, 0, w.rs1, w.rs2, ImmediateB(w)), w)
  BY ImmediateOfB DEF Encodes, Make
LEMMA EncodesU ==
    ASSUME NEW w \in AnyWord, NEW type, NEW opcode, w.opcode = opcode
    PROVE  Encodes(<<type, "U", opcode, Free, Free>>,
                   Make(type, w.rd, 0, 0, ImmediateU(w)), w)
  BY ImmediateOfU DEF Encodes, Make
LEMMA EncodesJ ==
    ASSUME NEW w \in AnyWord, NEW type, NEW opcode, w.opcode = opcode
    PROVE  Encodes(<<type, "J", opcode, Free, Free>>,
                   Make(type, w.rd, 0, 0, ImmediateJ(w)), w)
  BY ImmediateOfJ DEF Encodes, Make
LEMMA EncodesR ==
    ASSUME NEW w \in AnyWord, NEW type, NEW opcode, w.opcode = opcode
    PROVE  Encodes(<<type, "R", opcode, w.funct3, w.funct7>>,
                   Make(type, w.rd, w.rs1, w.rs2, 0), w)
  BY DEF Encodes, Make
LEMMA EncodesShift ==
    ASSUME NEW w \in AnyWord, NEW type, NEW opcode, w.opcode = opcode,
           NEW top \in {0, 32}, Shtype(w) = top \div 2
    PROVE  Encodes(<<type, "Shift", opcode, w.funct3, top>>, MakeI(w, type, Shamt(w)), w)
  <1> DEFINE a == w.rs2
             b == w.funct7 % 2
             imm == a + 32 * b
  <1>1. a \in 0 .. 31 /\ b \in 0 .. 1 /\ w.funct7 = 2 * (top \div 2) + b
    <2> DEFINE y == w.funct7
    <2>1. y \in Int /\ a \in 0 .. 31  BY DEF AnyWord
    <2> HIDE DEF y
    <2>2. y % 2 \in 0 .. 1 /\ y = 2 * (y \div 2) + (y % 2)  BY <2>1, Division
    <2>3. b \in 0 .. 1 /\ w.funct7 = 2 * Shtype(w) + b  BY <2>2 DEF Shtype, y
    <2> QED  BY <2>1, <2>3
  <1>2. imm = Shamt(w)  BY DEF Shamt
  <1>3. w.funct7 = top + b  BY <1>1
  <1> HIDE DEF a, b
  <1>4. imm \in 0 .. 63 /\ imm \div 1 = imm /\ imm % 32 = a /\ (imm \div 32) % 2 = b
    BY <1>1, SMT
  <1>5. a = Field(imm, 0, 5) /\ b = Field(imm, 5, 1)  BY <1>4, PowersOfTwo, SMT DEF Field
  <1>6. w.rs2 = Field(imm, 0, 5)  BY <1>5 DEF a
  <1> HIDE DEF imm
  <1> QED  BY <1>2, <1>3, <1>4, <1>5, <1>6 DEF Encodes, MakeI, Make
LEMMA EncodesShift32 ==
    ASSUME NEW w \in AnyWord, NEW type, NEW opcode, w.opcode = opcode
    PROVE  Encodes(<<type, "Shift32", opcode, w.funct3, w.funct7>>, MakeI(w, type, w.rs2), w)
  BY DEF Encodes, MakeI, Make

\* What the two properties say of a word.
Exceptional(w) == ReservedShift(w) \/ ReservedSraiw(w)
RightlyDecoded(w) ==
    /\ Decode(w) # Undefined => Encoded(w) \/ Exceptional(w)
    /\ (Decode(w) = Undefined) = ~Defined(w) \/ Exceptional(w) \/ Sraiw(w)

LEMMA AnEncoding ==
    ASSUME NEW w, NEW e, e \in EncodingsOf(w.opcode), Encodes(e, Decode(w), w),
           Fixes(e, w), Decode(w).type # "Undefined"
    PROVE  RightlyDecoded(w)
  <1>1. Decode(w) # Undefined  BY DEF Undefined, Make
  <1>2. Defined(w)  BY DefinedByOpcode
  <1> QED  BY <1>1, <1>2 DEF RightlyDecoded, Encoded
LEMMA NoEncoding ==
    ASSUME NEW w, \A e \in EncodingsOf(w.opcode) : ~Fixes(e, w), Decode(w) = Undefined
    PROVE  RightlyDecoded(w)
  BY DefinedByOpcode DEF RightlyDecoded

LEMMA DecodeByOpcode ==
    ASSUME NEW w
    PROVE  /\ w.opcode = OpImm => Decode(w) = DecodeOpImm(w)
           /\ w.opcode = Load => Decode(w) = DecodeLoad(w)
           /\ w.opcode = OpImm32 => Decode(w) = DecodeOpImm32(w)
           /\ w.opcode = System => Decode(w) = DecodeSystem(w)
           /\ w.opcode \in {Fence, Jalr, Jal, Store, Branch} =>
                Decode(w) =
                  CASE w.opcode = Jal -> DecodeJType(w)
                    [] w.opcode = Store -> DecodeSType(w)
                    [] w.opcode = Branch -> DecodeBType(w)
                    [] OTHER ->
                         IF w.funct3 # 0 THEN Undefined
                         ELSE MakeI(w, IF w.opcode = Fence THEN "Fence" ELSE "Jalr", ImmediateI(w))
           /\ w.opcode \in {Lui, Auipc} => Decode(w) = DecodeUType(w)
           /\ w.opcode \in {Op, Op32} => Decode(w) = DecodeRType(w)
           /\ w.opcode \notin Opcodes => Decode(w) = Undefined
  BY DEF Decode, DecodeIType, Opcodes, Lui, Auipc, Jal, Jalr, Fence, System, Branch,
         Load, Store, OpImm, OpImm32, Op, Op32

LEMMA LoadTable ==
    ASSUME NEW f \in 0 .. 6
    PROVE  /\ TypesLoad[f + 1] \notin {None, "Undefined"}
           /\ <<TypesLoad[f + 1], "I", Load, f, Free>> \in EncodingsOf(Load)
  <1>1. f \in {0, 1, 2, 3, 4, 5, 6}  OBVIOUS
  <1> DEFINE type == TypesLoad[f + 1]
  <1>2. <<type, f>> \in {<<"Lb", 0>>, <<"Lh", 1>>, <<"Lw", 2>>, <<"Ld", 3>>,
                         <<"Lbu", 4>>, <<"Lhu", 5>>, <<"Lwu", 6>>}
    BY <1>1 DEF TypesLoad
  <1> HIDE DEF type
  <1>3. <<type, "I", Load, f, Free>> \in EncodingsOf(Load)
    BY <1>2, EncodingsOfOpcodes
  <1>4. type \notin {None, "Undefined"}
    BY <1>2 DEF None
  <1> QED  BY <1>3, <1>4 DEF type

LEMMA LoadsAreRight ==
    ASSUME NEW w \in AnyWord, w.opcode = Load
    PROVE  RightlyDecoded(w)
  <1>1. w.funct3 \in 0 .. 7  BY DEF AnyWord
  <1>2. Decode(w) = DecodeLoad(w)
    BY DecodeByOpcode
  <1>3. CASE w.funct3 \in 0 .. 6
    <2> DEFINE type == Type(TypesLoad, w)
               e == <<type, "I", Load, w.funct3, Free>>
    <2>1. e \in EncodingsOf(Load) /\ type \notin {None, "Undefined"}
      BY <1>3, LoadTable DEF Type
    <2>2. Decode(w) = MakeI(w, type, ImmediateI(w))  BY <1>2, <2>1 DEF DecodeLoad
    <2>3. Encodes(e, Decode(w), w)  BY <2>1, <2>2, EncodesI
    <2>4. Fixes(e, w)  BY DEF Fixes
    <2>5. Decode(w).type # "Undefined"  BY <2>1, <2>2 DEF MakeI, Make
    <2> QED  BY <2>1, <2>3, <2>4, <2>5, AnEncoding
  <1>4. CASE w.funct3 = 7
    <2>1. Decode(w) = Undefined
      BY <1>2, <1>4 DEF DecodeLoad, DecodeOpImm32, Type, TypesLoad, None
    <2>2. \A e \in EncodingsOf(Load) : ~Fixes(e, w)
      BY <1>4, EncodingsOfOpcodes DEF Fixes, Free
    <2> QED  BY <2>1, <2>2, NoEncoding
  <1> QED  BY <1>1, <1>3, <1>4

LEMMA StoreTable ==
    ASSUME NEW f \in 0 .. 3
    PROVE  /\ TypesStore[f + 1] \notin {None, "Undefined"}
           /\ <<TypesStore[f + 1], "S", Store, f, Free>> \in EncodingsOf(Store)
  <1>1. f \in {0, 1, 2, 3}  OBVIOUS
  <1> DEFINE type == TypesStore[f + 1]
  <1>2. <<type, f>> \in {<<"Sb", 0>>, <<"Sh", 1>>, <<"Sw", 2>>, <<"Sd", 3>>}
    BY <1>1 DEF TypesStore
  <1> HIDE DEF type
  <1>3. <<type, "S", Store, f, Free>> \in EncodingsOf(Store)
    BY <1>2, EncodingsOfOpcodes
  <1>4. type \notin {None, "Undefined"}  BY <1>2 DEF None
  <1> QED  BY <1>3, <1>4 DEF type

LEMMA BranchTable ==
    ASSUME NEW f \in {0, 1, 4, 5, 6, 7}
    PROVE  /\ TypesBranch[f + 1] \notin {None, "Undefined"}
           /\ <<TypesBranch[f + 1], "B", Branch, f, Free>> \in EncodingsOf(Branch)
  <1>1. f \in {0, 1, 4, 5, 6, 7}  OBVIOUS
  <1> DEFINE type == TypesBranch[f + 1]
  <1>2. <<type, f>> \in {<<"Beq", 0>>, <<"Bne", 1>>, <<"Blt", 4>>, <<"Bge", 5>>, <<"Bltu", 6>>, <<"Bgeu", 7>>}
    BY <1>1 DEF TypesBranch
  <1> HIDE DEF type
  <1>3. <<type, "B", Branch, f, Free>> \in EncodingsOf(Branch)
    BY <1>2, EncodingsOfOpcodes
  <1>4. type \notin {None, "Undefined"}  BY <1>2 DEF None
  <1> QED  BY <1>3, <1>4 DEF type

LEMMA OpImmTable ==
    ASSUME NEW f \in {0, 2, 3, 4, 6, 7}
    PROVE  /\ TypesOpImm[f + 1] \notin {None, "Undefined"}
           /\ <<TypesOpImm[f + 1], "I", OpImm, f, Free>> \in EncodingsOf(OpImm)
  <1>1. f \in {0, 2, 3, 4, 6, 7}  OBVIOUS
  <1> DEFINE type == TypesOpImm[f + 1]
  <1>2. <<type, f>> \in {<<"Addi", 0>>, <<"Slti", 2>>, <<"Sltiu", 3>>, <<"Xori", 4>>, <<"Ori", 6>>, <<"Andi", 7>>}
    BY <1>1 DEF TypesOpImm
  <1> HIDE DEF type
  <1>3. <<type, "I", OpImm, f, Free>> \in EncodingsOf(OpImm)
    BY <1>2, EncodingsOfOpcodes
  <1>4. type \notin {None, "Undefined"}  BY <1>2 DEF None
  <1> QED  BY <1>3, <1>4 DEF type

LEMMA StoreIsRight ==
    ASSUME NEW w \in AnyWord, w.opcode = Store
    PROVE  RightlyDecoded(w)
  <1>1. w.funct3 \in 0 .. 7  BY DEF AnyWord
  <1>2. Decode(w) = DecodeSType(w)  BY DecodeByOpcode DEF Store, Branch, Jal
  <1>3. CASE w.funct3 \in 0 .. 3
    <2> DEFINE type == Type(TypesStore, w)
               e == <<type, "S", Store, w.funct3, Free>>
    <2>1. e \in EncodingsOf(Store) /\ type \notin {None, "Undefined"}
      BY <1>3, StoreTable DEF Type
    <2>2. Decode(w) = Make(type, 0, w.rs1, w.rs2, ImmediateS(w))
      BY <1>2, <2>1 DEF DecodeSType, MakeIf
    <2>3. Encodes(e, Decode(w), w)  BY <2>1, <2>2, EncodesS
    <2>4. Fixes(e, w)  BY DEF Fixes
    <2>5. Decode(w).type # "Undefined"  BY <2>1, <2>2 DEF Make
    <2> QED  BY <2>1, <2>3, <2>4, <2>5, AnEncoding
  <1>4. CASE w.funct3 \in {4, 5, 6, 7}
    <2>1. Decode(w) = Undefined
      BY <1>2, <1>4 DEF DecodeSType, MakeIf, Type, TypesStore, None
    <2>2. \A e \in EncodingsOf(Store) : ~Fixes(e, w)
      BY <1>4, EncodingsOfOpcodes DEF Fixes, Free
    <2> QED  BY <2>1, <2>2, NoEncoding
  <1> QED  BY <1>1, <1>3, <1>4

LEMMA BranchIsRight ==
    ASSUME NEW w \in AnyWord, w.opcode = Branch
    PROVE  RightlyDecoded(w)
  <1>1. w.funct3 \in 0 .. 7  BY DEF AnyWord
  <1>2. Decode(w) = DecodeBType(w)  BY DecodeByOpcode DEF Store, Branch, Jal
  <1>3. CASE w.funct3 \in {0, 1, 4, 5, 6, 7}
    <2> DEFINE type == Type(TypesBranch, w)
               e == <<type, "B", Branch, w.funct3, Free>>
    <2>1. e \in EncodingsOf(Branch) /\ type \notin {None, "Undefined"}
      BY <1>3, BranchTable DEF Type
    <2>2. Decode(w) = Make(type, 0, w.rs1, w.rs2, ImmediateB(w))
      BY <1>2, <2>1 DEF DecodeBType, MakeIf
    <2>3. Encodes(e, Decode(w), w)  BY <2>1, <2>2, EncodesB
    <2>4. Fixes(e, w)  BY DEF Fixes
    <2>5. Decode(w).type # "Undefined"  BY <2>1, <2>2 DEF Make
    <2> QED  BY <2>1, <2>3, <2>4, <2>5, AnEncoding
  <1>4. CASE w.funct3 \in {2, 3}
    <2>1. Decode(w) = Undefined
      BY <1>2, <1>4 DEF DecodeBType, MakeIf, Type, TypesBranch, None
    <2>2. \A e \in EncodingsOf(Branch) : ~Fixes(e, w)
      BY <1>4, EncodingsOfOpcodes DEF Fixes, Free
    <2> QED  BY <2>1, <2>2, NoEncoding
  <1> QED  BY <1>1, <1>3, <1>4

LEMMA UpperIsRight ==
    ASSUME NEW w \in AnyWord, w.opcode \in {Lui, Auipc}
    PROVE  RightlyDecoded(w)
  <1> DEFINE type == IF w.opcode = Lui THEN "Lui" ELSE "Auipc"
             e == <<type, "U", w.opcode, Free, Free>>
  <1>1. e \in EncodingsOf(w.opcode)  BY EncodingsOfOpcodes DEF Lui, Auipc
  <1>2. Decode(w) = Make(type, w.rd, 0, 0, ImmediateU(w))
    BY DecodeByOpcode DEF DecodeUType
  <1>3. Encodes(e, Decode(w), w)  BY <1>2, EncodesU
  <1>4. Fixes(e, w)  BY DEF Fixes
  <1>5. Decode(w).type # "Undefined"  BY <1>2 DEF Make
  <1> QED  BY <1>1, <1>3, <1>4, <1>5, AnEncoding

LEMMA JalIsRight ==
    ASSUME NEW w \in AnyWord, w.opcode = Jal
    PROVE  RightlyDecoded(w)
  <1> DEFINE e == <<"Jal", "J", Jal, Free, Free>>
  <1>1. e \in EncodingsOf(w.opcode)  BY EncodingsOfOpcodes
  <1>2. Decode(w) = Make("Jal", w.rd, 0, 0, ImmediateJ(w))
    BY DecodeByOpcode DEF DecodeJType, Fence, Jalr, Jal, Store, Branch
  <1>3. Encodes(e, Decode(w), w)  BY <1>2, EncodesJ
  <1>4. Fixes(e, w)  BY DEF Fixes
  <1>5. Decode(w).type # "Undefined"  BY <1>2 DEF Make
  <1> QED  BY <1>1, <1>3, <1>4, <1>5, AnEncoding

LEMMA FenceAndJalrAreRight ==
    ASSUME NEW w \in AnyWord, w.opcode \in {Fence, Jalr}
    PROVE  RightlyDecoded(w)
  <1> DEFINE type == IF w.opcode = Fence THEN "Fence" ELSE "Jalr"
             e == <<type, "I", w.opcode, 0, Free>>
  <1>1. EncodingsOf(w.opcode) = {e}  BY EncodingsOfOpcodes DEF Fence, Jalr
  <1>2. CASE w.funct3 = 0
    <2>1. Decode(w) = MakeI(w, type, ImmediateI(w))
      BY <1>2, DecodeByOpcode DEF Fence, Jalr, Jal, Store, Branch
    <2>2. Encodes(e, Decode(w), w)  BY <1>2, <2>1, EncodesI
    <2>3. Fixes(e, w)  BY <1>2 DEF Fixes
    <2>4. Decode(w).type # "Undefined"  BY <2>1 DEF MakeI, Make
    <2> QED  BY <1>1, <2>2, <2>3, <2>4, AnEncoding
  <1>3. CASE w.funct3 # 0
    <2>1. Decode(w) = Undefined
      BY <1>3, DecodeByOpcode DEF Fence, Jalr, Jal, Store, Branch
    <2>2. w.funct3 # Free  BY DEF AnyWord, Free
    <2>3. ~Fixes(e, w)  BY <1>3, <2>2 DEF Fixes, Free
    <2> QED  BY <1>1, <2>1, <2>3, NoEncoding
  <1> QED  BY <1>2, <1>3

LEMMA SystemIsRight ==
    ASSUME NEW w \in AnyWord, w.opcode = System
    PROVE  RightlyDecoded(w)
  <1>1. Decode(w) = DecodeSystem(w)  BY DecodeByOpcode
  <1>2. w.rs2 \in 0 .. 31 /\ w.funct7 \in 0 .. 127 /\ w.funct3 \in 0 .. 7  BY DEF AnyWord
  <1>3. \A n \in {0, 1} : ImmediateI(w) = n <=> w.rs2 = n /\ w.funct7 = 0
    <2> DEFINE a == w.rs2
               m == w.funct7 % 64
               s == Sign(w)
    <2>1. ImmediateI(w) = a + 32 * m - s * 2048
      BY FirstBit, PowersOfTwo, SMT DEF ImmediateI, SignExtend, Sign, AnyWord
    <2>2. a \in 0 .. 31 /\ m \in 0 .. 63 /\ s \in 0 .. 1 /\ w.funct7 = 64 * s + m
      BY <1>2, FirstBit
    <2> HIDE DEF m, s
    <2> QED  BY <2>1, <2>2, SMT
  <1>4. CASE w.funct3 = 0 /\ w.rs1 = 0 /\ w.rd = 0 /\ ImmediateI(w) \in {0, 1}
    <2> DEFINE type == IF ImmediateI(w) = 0 THEN "Ecall" ELSE "Ebreak"
               e == <<type, "System", System, 0, 0>>
    <2>1. Decode(w) = Make(type, 0, 0, 0, 0)  BY <1>1, <1>4 DEF DecodeSystem
    <2>2. e \in EncodingsOf(System)  BY EncodingsOfOpcodes
    <2>3. Encodes(e, Decode(w), w)  BY <1>3, <1>4, <2>1 DEF Encodes, Make, Free
    <2>4. Fixes(e, w)  BY <1>3, <1>4 DEF Fixes
    <2>5. Decode(w).type # "Undefined"  BY <2>1 DEF Make
    <2> QED  BY <2>2, <2>3, <2>4, <2>5, AnEncoding
  <1>5. CASE ~(w.funct3 = 0 /\ w.rs1 = 0 /\ w.rd = 0 /\ ImmediateI(w) \in {0, 1})
    <2>1. Decode(w) = Undefined  BY <1>1, <1>5 DEF DecodeSystem
    <2>2. \A e \in EncodingsOf(System) : ~Fixes(e, w)
      BY <1>2, <1>3, <1>5, EncodingsOfOpcodes DEF Fixes, Free
    <2> QED  BY <2>1, <2>2, NoEncoding
  <1> QED  BY <1>4, <1>5

LEMMA OpImm32IsRight ==
    ASSUME NEW w \in AnyWord, w.opcode = OpImm32
    PROVE  RightlyDecoded(w)
  <1>1. Decode(w) = DecodeOpImm32(w)  BY DecodeByOpcode
  <1>2. w.funct3 \in 0 .. 7 /\ w.funct7 \in 0 .. 127  BY DEF AnyWord
  <1>3. CASE w.funct3 = 0
    <2> DEFINE e == <<"Addiw", "I", OpImm32, 0, Free>>
    <2>1. Decode(w) = MakeI(w, "Addiw", ImmediateI(w))  BY <1>1, <1>3 DEF DecodeOpImm32
    <2>2. e \in EncodingsOf(OpImm32)  BY EncodingsOfOpcodes
    <2>3. Encodes(e, Decode(w), w)  BY <1>3, <2>1, EncodesI
    <2>4. Fixes(e, w)  BY <1>3 DEF Fixes
    <2>5. Decode(w).type # "Undefined"  BY <2>1 DEF MakeI, Make
    <2> QED  BY <2>2, <2>3, <2>4, <2>5, AnEncoding
  <1>4. CASE w.funct3 \in {1, 5} /\ w.funct7 = 0
    <2> DEFINE type == IF w.funct3 = 1 THEN "Slliw" ELSE "Srliw"
               e == <<type, "Shift32", OpImm32, w.funct3, 0>>
    <2>1. Decode(w) = MakeI(w, type, w.rs2)  BY <1>1, <1>4 DEF DecodeOpImm32, Shtype
    <2>2. e \in EncodingsOf(OpImm32)  BY <1>4, EncodingsOfOpcodes
    <2>3. Encodes(e, Decode(w), w)  BY <1>4, <2>1, EncodesShift32
    <2>4. Fixes(e, w)  BY <1>4 DEF Fixes
    <2>5. Decode(w).type # "Undefined"  BY <2>1 DEF MakeI, Make
    <2> QED  BY <2>2, <2>3, <2>4, <2>5, AnEncoding
  <1>5. CASE w.funct3 = 5 /\ Shtype(w) = 32
    <2>1. w.funct7 \in {64, 65}  BY <1>2, <1>5 DEF Shtype
    <2> QED  BY <1>5, <2>1 DEF RightlyDecoded, Exceptional, ReservedSraiw
  <1>6. CASE /\ w.funct3 # 0 /\ ~(w.funct3 \in {1, 5} /\ w.funct7 = 0)
             /\ ~(w.funct3 = 5 /\ Shtype(w) = 32)
    <2>1. Decode(w) = Undefined  BY <1>1, <1>6 DEF DecodeOpImm32
    <2>2. CASE w.funct3 = 5 /\ w.funct7 = 32
      BY <2>1, <2>2 DEF RightlyDecoded, Sraiw
    <2>3. CASE ~(w.funct3 = 5 /\ w.funct7 = 32)
      <3>1. \A e \in EncodingsOf(OpImm32) : ~Fixes(e, w)
        BY <1>2, <1>6, <2>3, EncodingsOfOpcodes DEF Fixes, Free
      <3> QED  BY <2>1, <3>1, NoEncoding
    <2> QED  BY <2>2, <2>3
  <1> QED  BY <1>2, <1>3, <1>4, <1>5, <1>6

LEMMA OpImmIsRight ==
    ASSUME NEW w \in AnyWord, w.opcode = OpImm
    PROVE  RightlyDecoded(w)
  <1>1. Decode(w) = DecodeOpImm(w)  BY DecodeByOpcode
  <1>2. w.funct3 \in 0 .. 7 /\ w.funct7 \in 0 .. 127  BY DEF AnyWord
  <1>3. CASE w.funct3 \in {0, 2, 3, 4, 6, 7}
    <2> DEFINE type == Type(TypesOpImm, w)
               e == <<type, "I", OpImm, w.funct3, Free>>
    <2>1. e \in EncodingsOf(OpImm) /\ type \notin {None, "Undefined"}
      BY <1>3, OpImmTable DEF Type
    <2>2. Decode(w) = MakeI(w, type, ImmediateI(w))
      BY <1>1, <1>3, <2>1 DEF DecodeOpImm
    <2>3. Encodes(e, Decode(w), w)  BY <2>1, <2>2, EncodesI
    <2>4. Fixes(e, w)  BY DEF Fixes
    <2>5. Decode(w).type # "Undefined"  BY <2>1, <2>2 DEF MakeI, Make
    <2> QED  BY <2>1, <2>3, <2>4, <2>5, AnEncoding
  <1>4. CASE /\ w.funct3 \in {1, 5}
             /\ Shtype(w) = 0 \/ (w.funct3 = 5 /\ Shtype(w) = 16)
    <2> DEFINE top == IF Shtype(w) = 0 THEN 0 ELSE 32
               type == CASE w.funct3 = 1 -> "Slli"
                         [] w.funct3 = 5 /\ Shtype(w) = 0 -> "Srli"
                         [] w.funct3 = 5 /\ Shtype(w) = 16 -> "Srai"
               e == <<type, "Shift", OpImm, w.funct3, top>>
    <2>1. Type(TypesOpImm, w) = None  BY <1>4 DEF Type, TypesOpImm, None
    <2>2. Decode(w) = MakeI(w, type, Shamt(w))  BY <1>1, <1>4, <2>1 DEF DecodeOpImm
    <2>3. e \in EncodingsOf(OpImm)  BY <1>4, EncodingsOfOpcodes
    <2>4. top \in {0, 32} /\ Shtype(w) = top \div 2  BY <1>4
    <2>5. Encodes(e, Decode(w), w)  BY <2>2, <2>4, EncodesShift
    <2>6. Fixes(e, w)  BY <2>4 DEF Fixes, Shtype
    <2>7. Decode(w).type # "Undefined"  BY <1>4, <2>2 DEF MakeI, Make
    <2> QED  BY <2>3, <2>5, <2>6, <2>7, AnEncoding
  <1>5. CASE /\ w.funct3 \in {1, 5}
             /\ ~(Shtype(w) = 0 \/ (w.funct3 = 5 /\ Shtype(w) = 16))
    <2>1. \A e \in EncodingsOf(OpImm) : ~Fixes(e, w)
      BY <1>5, EncodingsOfOpcodes DEF Fixes, Free, Shtype
    <2>2. ~Defined(w)  BY <2>1, DefinedByOpcode
    <2> QED  BY <1>5, <2>2 DEF RightlyDecoded, Exceptional, ReservedShift
  <1> QED  BY <1>2, <1>3, <1>4, <1>5

LEMMA OpTable ==
    ASSUME NEW f \in 0 .. 7, NEW g \in 0 .. 127, NEW type, type = TypesOp(g)[f + 1]
    PROVE  /\ type # "Undefined"
           /\ type # None => <<type, "R", Op, f, g>> \in EncodingsOf(Op)
           /\ type = None => \A e \in EncodingsOf(Op) : e[4] # f \/ e[5] # g
  <1>1. f \in {0, 1, 2, 3, 4, 5, 6, 7}  OBVIOUS
  <1>2. CASE g = 0
    <2>1. <<type, f>> \in {<<"Add", 0>>, <<"Sll", 1>>, <<"Slt", 2>>, <<"Sltu", 3>>, <<"Xor", 4>>, <<"Srl", 5>>, <<"Or", 6>>, <<"And", 7>>}
      BY <1>1, <1>2 DEF TypesOp
    <2> QED  BY <1>2, <2>1, EncodingsOfOpcodes DEF None
  <1>3. CASE g = 32
    <2>1. <<type, f>> \in {<<"Sub", 0>>, <<"Sra", 5>>} \/ (type = None /\ f \in {1, 2, 3, 4, 6, 7})
      BY <1>1, <1>3 DEF TypesOp
    <2> QED  BY <1>3, <2>1, EncodingsOfOpcodes DEF None
  <1>4. CASE g = 1
    <2>1. <<type, f>> \in {<<"Mul", 0>>, <<"Mulh", 1>>, <<"Mulhsu", 2>>, <<"Mulhu", 3>>, <<"Div", 4>>, <<"Divu", 5>>, <<"Rem", 6>>, <<"Remu", 7>>}
      BY <1>1, <1>4 DEF TypesOp
    <2> QED  BY <1>4, <2>1, EncodingsOfOpcodes DEF None
  <1>5. CASE g \notin {0, 32, 1}
    <2>1. type = None  BY <1>1, <1>5 DEF TypesOp
    <2> QED  BY <1>5, <2>1, EncodingsOfOpcodes DEF None
  <1> QED  BY <1>2, <1>3, <1>4, <1>5

LEMMA Op32Table ==
    ASSUME NEW f \in 0 .. 7, NEW g \in 0 .. 127, NEW type, type = TypesOp32(g)[f + 1]
    PROVE  /\ type # "Undefined"
           /\ type # None => <<type, "R", Op32, f, g>> \in EncodingsOf(Op32)
           /\ type = None => \A e \in EncodingsOf(Op32) : e[4] # f \/ e[5] # g
  <1>1. f \in {0, 1, 2, 3, 4, 5, 6, 7}  OBVIOUS
  <1>2. CASE g = 0
    <2>1. <<type, f>> \in {<<"Addw", 0>>, <<"Sllw", 1>>, <<"Srlw", 5>>} \/ (type = None /\ f \in {2, 3, 4, 6, 7})
      BY <1>1, <1>2 DEF TypesOp32
    <2> QED  BY <1>2, <2>1, EncodingsOfOpcodes DEF None
  <1>3. CASE g = 32
    <2>1. <<type, f>> \in {<<"Subw", 0>>, <<"Sraw", 5>>} \/ (type = None /\ f \in {1, 2, 3, 4, 6, 7})
      BY <1>1, <1>3 DEF TypesOp32
    <2> QED  BY <1>3, <2>1, EncodingsOfOpcodes DEF None
  <1>4. CASE g = 1
    <2>1. <<type, f>> \in {<<"Mulw", 0>>, <<"Divw", 4>>, <<"Divuw", 5>>, <<"Remw", 6>>, <<"Remuw", 7>>} \/ (type = None /\ f \in {1, 2, 3})
      BY <1>1, <1>4 DEF TypesOp32
    <2> QED  BY <1>4, <2>1, EncodingsOfOpcodes DEF None
  <1>5. CASE g \notin {0, 32, 1}
    <2>1. type = None  BY <1>1, <1>5 DEF TypesOp32
    <2> QED  BY <1>5, <2>1, EncodingsOfOpcodes DEF None
  <1> QED  BY <1>2, <1>3, <1>4, <1>5

LEMMA OpIsRight ==
    ASSUME NEW w \in AnyWord, w.opcode \in {Op, Op32}
    PROVE  RightlyDecoded(w)
  <1> DEFINE types == IF w.opcode = Op THEN TypesOp(w.funct7) ELSE TypesOp32(w.funct7)
             type == Type(types, w)
             e == <<type, "R", w.opcode, w.funct3, w.funct7>>
  <1>1. w.funct3 \in 0 .. 7 /\ w.funct7 \in 0 .. 127  BY DEF AnyWord
  <1>2. Decode(w) = MakeIf(type, w.rd, w.rs1, w.rs2, 0)
    BY DecodeByOpcode DEF DecodeRType
  <1>3. /\ type # "Undefined"
        /\ type # None => e \in EncodingsOf(w.opcode)
        /\ type = None => \A d \in EncodingsOf(w.opcode) : d[4] # w.funct3 \/ d[5] # w.funct7
    <2>1. CASE w.opcode = Op  BY <1>1, <2>1, OpTable DEF Type
    <2>2. CASE w.opcode # Op  BY <1>1, <2>2, Op32Table DEF Type
    <2> QED  BY <2>1, <2>2
  <1> HIDE DEF type
  <1>4. CASE type # None
    <2>1. Decode(w) = Make(type, w.rd, w.rs1, w.rs2, 0)  BY <1>2, <1>4 DEF MakeIf
    <2>2. Encodes(e, Decode(w), w)  BY <2>1, EncodesR
    <2>3. Fixes(e, w)  BY DEF Fixes
    <2>4. Decode(w).type # "Undefined"  BY <1>3, <2>1 DEF Make
    <2> QED  BY <1>3, <1>4, <2>2, <2>3, <2>4, AnEncoding
  <1>5. CASE type = None
    <2>1. Decode(w) = Undefined  BY <1>2, <1>5 DEF MakeIf
    <2>2. \A d \in EncodingsOf(w.opcode) : d[2] = "R" /\ d[4] # Free /\ d[5] # Free
      BY EncodingsOfOpcodes DEF Op, Op32, Free
    <2>3. \A d \in EncodingsOf(w.opcode) : ~Fixes(d, w)
      BY <1>3, <1>5, <2>2 DEF Fixes
    <2> QED  BY <2>1, <2>3, NoEncoding
  <1> QED  BY <1>4, <1>5

LEMMA OtherOpcodesAreRight ==
    ASSUME NEW w \in AnyWord, w.opcode \notin Opcodes
    PROVE  RightlyDecoded(w)
  <1>1. EncodingsOf(w.opcode) = {}  BY EncodingsOfOpcodes
  <1> QED  BY <1>1, DecodeByOpcode, NoEncoding

LEMMA WordsAreRightlyDecoded ==
    ASSUME NEW w \in AnyWord
    PROVE  RightlyDecoded(w)
  BY LoadsAreRight, StoreIsRight, BranchIsRight, UpperIsRight, JalIsRight,
     FenceAndJalrAreRight, SystemIsRight, OpImmIsRight, OpImm32IsRight, OpIsRight,
     OtherOpcodesAreRight DEF Opcodes
-----------------------------------------------------------------------------
DecoderInv ==
    /\ word \in Words
    /\ decoder_at = "decoded" => decoded = Decode(word)

LEMMA DecoderInvariant == DecoderSpec => []DecoderInv
  <1>1. DecoderInit => DecoderInv  BY DEF DecoderInit, DecoderInv
  <1>2. DecoderInv /\ [DecoderNext]_decoder_vars => DecoderInv'
    <2> SUFFICES ASSUME DecoderInv, [DecoderNext]_decoder_vars PROVE DecoderInv'
      OBVIOUS
    <2>1. CASE DecodeWord  BY <2>1 DEF DecoderInv, DecodeWord
    <2>2. CASE DecoderDone  BY <2>2 DEF DecoderInv, DecoderDone, decoder_vars
    <2>3. CASE UNCHANGED decoder_vars  BY <2>3 DEF DecoderInv, decoder_vars
    <2> QED  BY <2>1, <2>2, <2>3 DEF DecoderNext
  <1> QED  BY <1>1, <1>2, PTL DEF DecoderSpec

LEMMA DecodedWordIsRight ==
    ASSUME DecoderInv, decoder_at = "decoded"
    PROVE  decoded = Decode(word) /\ RightlyDecoded(word)
  BY WordsAreWords, WordsAreRightlyDecoded DEF DecoderInv

(***************************************************************************)
(* Instruction's constructor gives a word of any opcode, registers and     *)
(* functions an instruction whose encoding is that word, immediate and     *)
(* sign included; only reserved shifts are taken for instructions.         *)
(***************************************************************************)
THEOREM DecodingCorrect == DecoderSpec => []DecodesWhatIsEncoded
  <1>1. DecoderInv => DecodesWhatIsEncoded
    <2> SUFFICES ASSUME DecoderInv, decoder_at = "decoded", decoded # Undefined
                 PROVE  \/ \E e \in Encodings : Encodes(e, decoded, word)
                        \/ ReservedShift(word) \/ ReservedSraiw(word)
      BY DEF DecodesWhatIsEncoded
    <2> QED
      BY DecodedWordIsRight, EncodedByOpcode DEF RightlyDecoded, Exceptional
  <1> QED  BY <1>1, DecoderInvariant, PTL

(***************************************************************************)
(* What Instruction's constructor leaves undefined is exactly what encodes *)
(* no instruction, but for the shifts that it looks for by other bits.     *)
(***************************************************************************)
THEOREM UndefinedCorrect == DecoderSpec => []UndefinedIsReserved
  <1>1. DecoderInv => UndefinedIsReserved
    BY DecodedWordIsRight DEF UndefinedIsReserved, RightlyDecoded, Exceptional
  <1> QED  BY <1>1, DecoderInvariant, PTL

-----------------------------------------------------------------------------
\* Registers of any width: powers of two.
LEMMA PowerPositive == \A n \in Nat : Power[n] \in Nat \ {0} /\ n < Power[n]
  <1> DEFINE S == {n \in Nat : Power[n] \in Nat \ {0} /\ n < Power[n]}
  <1>1. 0 \in S  BY PowerSteps
  <1>2. ASSUME NEW n \in Nat, n \in S PROVE n + 1 \in S
    <2>1. Power[n + 1] = 2 * Power[n] /\ Power[n] \in Nat /\ n < Power[n]
      BY <1>2, PowerSteps
    <2> QED  BY <2>1
  <1> HIDE DEF S
  <1>3. \A n \in Nat : n \in S  BY <1>1, <1>2, Induction
  <1> QED  BY <1>3 DEF S

LEMMA PowerOfSum == \A m, n \in Nat : Power[m + n] = Power[m] * Power[n]
  <1> SUFFICES ASSUME NEW m \in Nat PROVE \A n \in Nat : Power[m + n] = Power[m] * Power[n]
    OBVIOUS
  <1> DEFINE S == {n \in Nat : Power[m + n] = Power[m] * Power[n]}
  <1>1. 0 \in S  BY PowerSteps
  <1>2. ASSUME NEW n \in Nat, n \in S PROVE n + 1 \in S
    <2>1. m + n \in Nat /\ m + (n + 1) = (m + n) + 1  OBVIOUS
    <2>2. Power[m + (n + 1)] = 2 * Power[m + n]  BY <2>1, PowerSteps
    <2>3. Power[n + 1] = 2 * Power[n]  BY PowerSteps
    <2>4. Power[m + n] = Power[m] * Power[n]  BY <1>2
    <2>5. Power[m] \in Nat /\ Power[n] \in Nat  BY PowerSteps
    <2>6. 2 * (Power[m] * Power[n]) = Power[m] * (2 * Power[n])  BY <2>5
    <2> QED  BY <2>2, <2>3, <2>4, <2>6
  <1> HIDE DEF S
  <1>3. \A n \in Nat : n \in S  BY <1>1, <1>2, Induction
  <1> QED  BY <1>3 DEF S

LEMMA PowerOfPredecessor ==
    ASSUME NEW n \in Nat \ {0}
    PROVE  Power[n - 1] \in Nat \ {0} /\ Power[n] = 2 * Power[n - 1]
  <1>1. n - 1 \in Nat /\ (n - 1) + 1 = n  OBVIOUS
  <1> QED  BY <1>1, PowerSteps, PowerPositive

Sizes == {HalfWidth, Width}
LEMMA Widths ==
    /\ HalfWidth \in Nat \ {0} /\ Width \in Nat \ {0} /\ HalfWidth < Width
    /\ \A half \in BOOLEAN : Bits(half) \in Sizes
    /\ \A n \in Sizes : n \in Nat \ {0} /\ \E e \in Nat \ {0} : Power[Width] = Power[n] * e
  <1>1. HalfWidth \in Nat \ {0}
    <2>1. PICK k \in 0 .. HalfWidth : HalfWidth = Power[k]  BY WidthAssumption
    <2> QED  BY <2>1, PowerPositive, WidthAssumption
  <1>2. Width \in Nat \ {0} /\ HalfWidth < Width /\ Width = HalfWidth + HalfWidth
    BY <1>1 DEF Width
  <1>3. Power[Width] = Power[HalfWidth] * Power[HalfWidth] /\ Power[HalfWidth] \in Nat \ {0}
    BY <1>1, <1>2, PowerOfSum, PowerPositive
  <1>4. Power[Width] = Power[Width] * 1  BY <1>2, PowerPositive
  <1> QED  BY <1>1, <1>2, <1>3, <1>4 DEF Sizes, Bits

\* The lowest bits of a number.
LEMMA LowType ==
    ASSUME NEW n \in Nat, NEW x \in Int
    PROVE  /\ Low(x, n) \in 0 .. Power[n] - 1 /\ Low(x, n) \in Int
           /\ Low(Low(x, n), n) = Low(x, n)
  <1>1. Power[n] \in Nat \ {0}  BY PowerPositive
  <1> QED  BY <1>1, Division, RestOfRest DEF Low

LEMMA LowOfSmall ==
    ASSUME NEW n \in Nat, NEW x \in 0 .. Power[n] - 1
    PROVE  Low(x, n) = x
  <1>1. Power[n] \in Nat \ {0}  BY PowerPositive
  <1> QED  BY <1>1 DEF Low

LEMMA LowOfWider ==
    ASSUME NEW n \in Sizes, NEW x \in Int
    PROVE  Low(Low(x, Width), n) = Low(x, n)
  <1>1. PICK e \in Nat \ {0} : Power[Width] = Power[n] * e  BY Widths
  <1>2. Power[n] \in Nat \ {0}  BY Widths, PowerPositive
  <1> QED  BY <1>1, <1>2, RestOfMultiple DEF Low

LEMMA LowOfSums ==
    ASSUME NEW n \in Nat, NEW x \in Int, NEW y \in Int, NEW v \in Int, NEW w \in Int,
           Low(x, n) = Low(v, n), Low(y, n) = Low(w, n)
    PROVE  /\ Low(x + y, n) = Low(v + w, n) /\ Low(x - y, n) = Low(v - w, n)
           /\ Low(x * y, n) = Low(v * w, n)
  <1> DEFINE m == Power[n]
  <1>1. m \in Nat \ {0}  BY PowerPositive
  <1>2. IsSame(x, v, m) /\ IsSame(y, w, m)  BY DEF Low, IsSame
  <1> HIDE DEF m
  <1>3. /\ (x + y) % m = (v + w) % m /\ (x - y) % m = (v - w) % m
        /\ (x * y) % m = (v * w) % m
    BY <1>1, <1>2, SameRests
  <1> QED  BY <1>3 DEF Low, m

LEMMA SignedType ==
    ASSUME NEW n \in Nat \ {0}, NEW x \in Int
    PROVE  /\ Signed(x, n) \in Int
           /\ -Power[n - 1] <= Signed(x, n) /\ Signed(x, n) < Power[n - 1]
           /\ Low(Signed(x, n), n) = Low(x, n)
  <1>1. Power[n - 1] \in Nat \ {0} /\ Power[n] = 2 * Power[n - 1]  BY PowerOfPredecessor
  <1>2. Low(x, n) \in 0 .. Power[n] - 1  BY LowType
  <1>3. Signed(x, n) \in Int /\ -Power[n - 1] <= Signed(x, n) /\ Signed(x, n) < Power[n - 1]
    BY <1>1, <1>2 DEF Signed
  <1>4. Congruent(Signed(x, n), Low(x, n), Power[n])
    <2>1. Low(x, n) = Low(x, n) + Power[n] * 0  BY <1>1, <1>2
    <2>2. Low(x, n) - Power[n] = Low(x, n) + Power[n] * (-1)  BY <1>1, <1>2
    <2> QED  BY <2>1, <2>2 DEF Signed, Congruent
  <1>5. Power[n] \in Nat \ {0} /\ Low(x, n) \in Int  BY <1>2, PowerPositive
  <1>6. Signed(x, n) % Power[n] = Low(x, n) % Power[n]
    BY <1>3, <1>4, <1>5, SameRest, Zenon
  <1>7. Low(Signed(x, n), n) = Low(Low(x, n), n)  BY <1>6 DEF Low
  <1> QED  BY <1>3, <1>7, LowType

LEMMA SignedByLow ==
    ASSUME NEW n, NEW x, NEW y, Low(x, n) = Low(y, n)
    PROVE  Signed(x, n) = Signed(y, n) /\ Extend(x, n) = Extend(y, n)
  BY DEF Signed, Extend

\* A number that fits is its own sign extension.
LEMMA SignedOfSmall ==
    ASSUME NEW n \in Nat \ {0}, NEW x \in Int, -Power[n - 1] <= x, x < Power[n - 1]
    PROVE  Signed(x, n) = x
  <1>1. Power[n - 1] \in Nat \ {0} /\ Power[n] = 2 * Power[n - 1]  BY PowerOfPredecessor
  <1>2. CASE x >= 0
    <2>1. Low(x, n) = x  BY <1>1, <1>2, LowOfSmall
    <2> QED  BY <1>1, <2>1 DEF Signed
  <1>3. CASE x < 0
    <2>1. x + Power[n] \in 0 .. Power[n] - 1  BY <1>1, <1>3
    <2>2. x = (x + Power[n]) + Power[n] * (-1)  BY <1>1
    <2>3. Power[n] \in Nat \ {0}  BY <1>1
    <2>4. Low(x, n) = x + Power[n]
      BY <2>1, <2>2, <2>3, QuotientAndRest DEF Low
    <2> QED  BY <1>1, <1>3, <2>4 DEF Signed
  <1> QED  BY <1>2, <1>3

LEMMA HalfPowers ==
    ASSUME NEW n \in Sizes
    PROVE  /\ Power[n - 1] \in Nat \ {0} /\ Power[Width - 1] \in Nat \ {0}
           /\ Power[n - 1] <= Power[Width - 1]
  <1> DEFINE p == Power[n - 1]
             q == Power[Width - 1]
  <1>1. PICK e \in Nat \ {0} : Power[Width] = Power[n] * e  BY Widths
  <1>2. p \in Nat \ {0} /\ Power[n] = 2 * p  BY Widths, PowerOfPredecessor
  <1>3. q \in Nat \ {0} /\ Power[Width] = 2 * q  BY Widths, PowerOfPredecessor
  <1> HIDE DEF p, q
  <1>4. 2 * q = 2 * (p * e) /\ p * e \in Nat  BY <1>1, <1>2, <1>3
  <1>5. q = p * e  BY <1>3, <1>4
  <1>6. p * e >= p * 1  BY <1>1, <1>2
  <1> QED  BY <1>2, <1>3, <1>5, <1>6 DEF p, q

LEMMA SizeIsNumber == \A n \in Sizes : n \in Nat \ {0}
  BY Widths
LEMMA WordIsSmall == Word = 0 .. Power[Width] - 1 /\ Power[Width] \in Nat \ {0} /\ Width \in Sizes
  BY Widths, PowerPositive DEF Word, Sizes

LEMMA ExtendType ==
    ASSUME NEW n \in Sizes, NEW x \in Int
    PROVE  /\ Extend(x, n) \in Word /\ Extend(x, n) \in Int
           /\ Low(Extend(x, n), n) = Low(x, n)
           /\ Signed(Extend(x, n), Width) = Signed(x, n)
           /\ Extend(Low(x, n), n) = Extend(x, n)
  <1> DEFINE s == Signed(x, n)
  <1>1. n \in Nat \ {0} /\ Width \in Nat \ {0}  BY Widths
  <1>2. /\ s \in Int /\ -Power[n - 1] <= s /\ s < Power[n - 1]
        /\ Low(s, n) = Low(x, n)
    BY <1>1, SignedType
  <1>3. Extend(x, n) = Low(s, Width)  BY DEF Extend
  <1> HIDE DEF s
  <1>4. Low(s, Width) \in Word /\ Low(s, Width) \in Int
    BY <1>1, <1>2, LowType, WordIsSmall
  <1>5. Low(Low(s, Width), n) = Low(x, n)  BY <1>2, LowOfWider
  <1>6. Signed(Low(s, Width), Width) = s
    <2>1. Signed(Low(s, Width), Width) = Signed(s, Width)
      BY <1>1, <1>2, LowType, SignedByLow
    <2>2. -Power[Width - 1] <= s /\ s < Power[Width - 1]  BY <1>2, HalfPowers
    <2> QED  BY <1>1, <1>2, <2>1, <2>2, SignedOfSmall
  <1>7. Extend(Low(x, n), n) = Extend(x, n)  BY <1>1, LowType, SignedByLow
  <1> QED  BY <1>3, <1>4, <1>5, <1>6, <1>7 DEF s

LEMMA ExtendWidth ==
    ASSUME NEW x \in Int
    PROVE  Extend(x, Width) = Low(x, Width) /\ Low(x, Width) \in Word
  BY Widths, SignedType, LowType, WordIsSmall DEF Extend

LEMMA WordType ==
    ASSUME NEW x \in Word
    PROVE  x \in Int /\ x \in Nat /\ Low(x, Width) = x /\ Extend(x, Width) = x
  <1>1. x \in 0 .. Power[Width] - 1 /\ x \in Nat  BY WordIsSmall
  <1>2. Low(x, Width) = x  BY <1>1, Widths, LowOfSmall
  <1> QED  BY <1>1, <1>2, ExtendWidth

LEMMA FlagType ==
    ASSUME NEW p \in BOOLEAN
    PROVE  Flag(p) \in Word /\ Extend(Flag(p), Width) = Flag(p)
  <1>1. 1 < Power[Width]  BY Widths, PowerPositive
  <1>2. 0 \in Word /\ 1 \in Word  BY <1>1, WordIsSmall
  <1> QED  BY <1>2, WordType DEF Flag

\* What is computed on bits has no more bits than they had.
LEMMA LogicOfBitsType ==
    ASSUME NEW operation \in Logic, NEW p \in 0 .. 1, NEW q \in 0 .. 1
    PROVE  LogicOfBits(operation, p, q) \in 0 .. 1
  <1>1. p \in {0, 1} /\ q \in {0, 1}  OBVIOUS
  <1> QED  BY <1>1 DEF LogicOfBits, Logic

LEMMA BitwiseType ==
    ASSUME NEW operation \in Logic, NEW x \in Int, NEW y \in Int
    PROVE  Bitwise(operation, x, y) \in Word
  <1> DEFINE bit(n) == LogicOfBits(operation, (x \div Power[n]) % 2, (y \div Power[n]) % 2)
             step == [n \in Nat |-> [v \in Nat |-> v + Power[n] * bit(n)]]
  <1>1. \A n \in Nat : bit(n) \in 0 .. 1 /\ Power[n] \in Nat \ {0} /\ Power[n + 1] = 2 * Power[n]
    <2> SUFFICES ASSUME NEW n \in Nat PROVE bit(n) \in 0 .. 1  BY PowerPositive, PowerSteps
    <2>1. Power[n] \in Nat \ {0}  BY PowerPositive
    <2>2. x \div Power[n] \in Int /\ y \div Power[n] \in Int  BY <2>1, Division
    <2>3. (x \div Power[n]) % 2 \in 0 .. 1 /\ (y \div Power[n]) % 2 \in 0 .. 1
      BY <2>2, SMT
    <2> QED  BY <2>3, LogicOfBitsType
  <1> HIDE DEF bit
  <1>2. step \in [Nat -> [Nat -> Nat]] /\ 0 \in Nat
    <2>1. \A n \in Nat, v \in Nat : v + Power[n] * bit(n) \in Nat  BY <1>1
    <2> QED  BY <2>1
  <1>3. PICK f \in [Nat -> Nat] :
            f[0] = 0 /\ \A n \in Nat : f[n + 1] = f[n] + Power[n] * bit(n)
    <2>1. \E f \in [Nat -> Nat] : IsRecursive(f, 0, step)
      <3> HIDE DEF step
      <3> QED  BY <1>2, Recursion
    <2> QED  BY <2>1 DEF IsRecursive
  <1>4. f = [n \in Nat |-> IF n = 0 THEN 0 ELSE f[n - 1] + Power[n - 1] * bit(n - 1)]
    <2>1. \A n \in Nat :
             f[n] = IF n = 0 THEN 0 ELSE f[n - 1] + Power[n - 1] * bit(n - 1)
      <3> SUFFICES ASSUME NEW n \in Nat, n # 0
                   PROVE  f[n] = f[n - 1] + Power[n - 1] * bit(n - 1)
        BY <1>3
      <3>1. n - 1 \in Nat /\ (n - 1) + 1 = n  OBVIOUS
      <3>2. f[(n - 1) + 1] = f[n - 1] + Power[n - 1] * bit(n - 1)  BY <1>3, <3>1
      <3> QED  BY <3>1, <3>2
    <2> QED  BY <2>1
  <1> DEFINE lowest == LogicOfLowest(operation, x, y)
  <1>5. lowest = [n \in Nat |->
                    IF n = 0 THEN 0 ELSE lowest[n - 1] + Power[n - 1] * bit(n - 1)]
    BY <1>4 DEF LogicOfLowest, bit
  <1> HIDE DEF lowest
  <1>6. \A n \in Nat :
           lowest[n] = IF n = 0 THEN 0 ELSE lowest[n - 1] + Power[n - 1] * bit(n - 1)
    BY <1>5
  <1> DEFINE S == {n \in Nat : lowest[n] \in 0 .. Power[n] - 1}
  <1>7. 0 \in S  BY <1>6, PowerSteps
  <1>8. ASSUME NEW n \in Nat, n \in S PROVE n + 1 \in S
    <2>1. n + 1 \in Nat /\ n + 1 # 0 /\ (n + 1) - 1 = n  OBVIOUS
    <2>2. lowest[n + 1] = lowest[n] + Power[n] * bit(n)  BY <1>6, <2>1
    <2>3. bit(n) = 0 \/ bit(n) = 1  BY <1>1
    <2>4. Power[n] * bit(n) \in 0 .. Power[n]  BY <1>1, <2>3
    <2>5. lowest[n + 1] \in 0 .. 2 * Power[n] - 1  BY <1>1, <1>8, <2>2, <2>4
    <2> QED  BY <1>1, <2>5
  <1> HIDE DEF S
  <1>9. Width \in S  BY <1>7, <1>8, Induction, Widths
  <1> QED  BY <1>9, WordIsSmall DEF S, Bitwise, lowest

\* Instructions and their operands, as they reach an engine.
LEMMA ImmediateIsWord ==
    ASSUME NEW x \in Immediates \union 0 .. Width - 1
    PROVE  x \in Word
  <1>1. CASE x \in Immediates
    <2>1. PICK v \in Word : x = Extend(v, HalfWidth)  BY <1>1, RegistersAssumption
    <2>2. v \in Int /\ HalfWidth \in Sizes  BY WordType DEF Sizes
    <2> QED  BY <2>1, <2>2, ExtendType
  <1>2. CASE x \in 0 .. Width - 1
    <2>1. Width \in Nat /\ Width < Power[Width] /\ Power[Width] \in Nat  BY Widths, PowerPositive
    <2> QED  BY <1>2, <2>1, WordIsSmall
  <1> QED  BY <1>1, <1>2

LEMMA InstructionType ==
    ASSUME NEW i \in Instructions
    PROVE  /\ i.operation \in Operations /\ i.half \in BOOLEAN /\ i.immediate \in BOOLEAN
           /\ i.half => i.operation \in OfHalves
           /\ i.operation = "Loadu" => i.half
           /\ i.immediate => i.operation \in WithImmediate
           /\ i.operation \in OnlyImmediate => i.immediate
           /\ i.imm \in Word /\ i.pc \in Word
           /\ i.rd \in Registers /\ i.rs1 \in Registers /\ i.rs2 \in Registers
  <1>1. PICK f \in Form, rd \in Registers, rs1 \in Registers, rs2 \in Registers,
             imm \in Immediates \union 0 .. Width - 1, pc \in Pcs \union {0} :
          i = [operation |-> f.operation, half |-> f.half, immediate |-> f.immediate,
               rd |-> rd, rs1 |-> rs1, rs2 |-> rs2, imm |-> imm, pc |-> pc]
    BY DEF Instructions
  <1>2. imm \in Word  BY ImmediateIsWord
  <1>3. 0 \in Word  BY WordIsSmall
  <1>4. pc \in Word  BY <1>3, PcsAssumption
  <1>5. /\ f.operation \in Operations /\ f.half \in BOOLEAN /\ f.immediate \in BOOLEAN
        /\ f.half => f.operation \in OfHalves
        /\ f.operation = "Loadu" => f.half
        /\ f.immediate => f.operation \in WithImmediate
        /\ f.operation \in OnlyImmediate => f.immediate
    BY DEF Form
  <1> QED  BY <1>1, <1>2, <1>4, <1>5

Executed(i, a, b, n) ==
    /\ i \in Instructions /\ Decoded(i) /\ a \in Word /\ b \in Word
    /\ i.immediate => b = i.imm
    /\ i.rs1 = Zero => a = 0
    /\ n = Bits(i.half)

LEMMA ExecutedType ==
    ASSUME NEW i, NEW a, NEW b, NEW n, Executed(i, a, b, n)
    PROVE  /\ n \in Sizes /\ n \in Nat \ {0}
           /\ a \in Int /\ b \in Int /\ a \in Word /\ b \in Word
           /\ i.imm \in Int /\ i.imm \in Word /\ i.pc \in Int /\ i.pc \in Word
           /\ i.half \in BOOLEAN /\ i.immediate \in BOOLEAN
           /\ n = IF i.half THEN HalfWidth ELSE Width
  <1>1. i \in Instructions /\ a \in Word /\ b \in Word /\ n = Bits(i.half)
    BY DEF Executed
  <1>2. i.imm \in Word /\ i.pc \in Word /\ i.half \in BOOLEAN /\ i.immediate \in BOOLEAN
    BY <1>1, InstructionType
  <1>3. n \in Sizes  BY <1>1, <1>2, Widths
  <1>4. \A x \in Word : x \in Int  BY WordType
  <1> QED  BY <1>1, <1>2, <1>3, <1>4, SizeIsNumber DEF Bits

LEMMA OperationsByKind ==
    ASSUME NEW i, NEW a, NEW b, NEW n, Executed(i, a, b, n)
    PROVE  /\ i.operation \in Operations
           /\ i.operation \in Logic \union Comparisons \union Conditions \union Upper \union Links
                => ~i.half /\ n = Width
           /\ i.operation \in OnlyImmediate => i.immediate /\ b = i.imm
           /\ i.operation = "Loadu" => i.half /\ n = HalfWidth
           /\ i.operation \in {"Sub", "Mul"} \union Divisions \union Conditions => ~i.immediate
           /\ i.operation \in Conditions => i.rd = Zero
           /\ i.operation \in Shifts /\ i.immediate => i.imm < n
  <1>1. i \in Instructions /\ Decoded(i) /\ n = Bits(i.half) /\ (i.immediate => b = i.imm)
    BY DEF Executed
  <1>2. /\ i.operation \in Operations /\ i.half \in BOOLEAN /\ i.immediate \in BOOLEAN
        /\ i.half => i.operation \in OfHalves
        /\ i.operation = "Loadu" => i.half
        /\ i.immediate => i.operation \in WithImmediate
        /\ i.operation \in OnlyImmediate => i.immediate
    BY <1>1, InstructionType
  <1>3. /\ i.operation \in Logic \union Comparisons \union Conditions \union Upper \union Links
             => i.operation \notin OfHalves
        /\ i.operation \in {"Sub", "Mul"} \union Divisions \union Conditions
             => i.operation \notin WithImmediate
    BY DEF Logic, Comparisons, Conditions, Upper, Links, OfHalves, Shifts, Divisions,
           SignedDivisions, Loads, WithImmediate, OnlyImmediate
  <1>4. i.operation \in Conditions => i.rd = Zero  BY <1>1 DEF Decoded, Zero
  <1>5. i.operation \in Shifts /\ i.immediate => i.imm < n  BY <1>1 DEF Decoded
  <1> QED  BY <1>1, <1>2, <1>3, <1>4, <1>5 DEF Bits

\* What is computed from the lowest bits has the same lowest bits.
LEMMA ExtendOfLow ==
    ASSUME NEW n \in Sizes, NEW x \in Int
    PROVE  Extend(Low(x, n), n) = Extend(x, n) /\ Extend(Low(x, Width), n) = Extend(x, n)
  BY LowOfWider, SignedByLow, ExtendType

LEMMA ExtendOfOperands ==
    ASSUME NEW n \in Sizes, NEW x \in Int, NEW y \in Int
    PROVE  /\ Extend(Low(x, n) + Low(y, n), n) = Extend(x + y, n)
           /\ Extend(Low(x, n) - Low(y, n), n) = Extend(x - y, n)
           /\ Extend(Low(x, n) * Low(y, n), n) = Extend(x * y, n)
  <1> DEFINE v == Low(x, n)
             w == Low(y, n)
  <1>1. n \in Nat /\ v \in Int /\ w \in Int /\ Low(v, n) = Low(x, n) /\ Low(w, n) = Low(y, n)
    BY SizeIsNumber, LowType
  <1> HIDE DEF v, w
  <1>2. /\ Low(v + w, n) = Low(x + y, n) /\ Low(v - w, n) = Low(x - y, n)
        /\ Low(v * w, n) = Low(x * y, n)
    BY <1>1, LowOfSums
  <1>3. /\ Extend(v + w, n) = Extend(x + y, n) /\ Extend(v - w, n) = Extend(x - y, n)
        /\ Extend(v * w, n) = Extend(x * y, n)
    BY <1>2, SignedByLow
  <1> QED  BY <1>3 DEF v, w

\* The count of a shift: sizes are powers of two, so that all bits but the lowest
\* are multiples of them.
LEMMA SizesArePowers ==
    ASSUME NEW n \in Sizes
    PROVE  \E e \in Nat \ {0} : Power[n] = n * e
  <1>1. PICK k \in 0 .. HalfWidth : HalfWidth = Power[k]  BY WidthAssumption
  <1>2. k + 1 \in Nat /\ Width = Power[k + 1]  BY <1>1, Widths, PowerSteps DEF Width
  <1>3. ASSUME NEW j \in Nat, n = Power[j], j <= n PROVE \E e \in Nat \ {0} : Power[n] = n * e
    <2>1. n - j \in Nat /\ j + (n - j) = n  BY <1>3, SizeIsNumber
    <2>2. Power[n] = Power[j] * Power[n - j]  BY <2>1, PowerOfSum
    <2>3. Power[n - j] \in Nat \ {0}  BY <2>1, PowerPositive
    <2> QED  BY <1>3, <2>2, <2>3
  <1>4. CASE n = HalfWidth  BY <1>1, <1>3, <1>4, Widths
  <1>5. CASE n = Width
    <2>1. k + 1 <= Width  BY <1>1, Widths DEF Width
    <2> QED  BY <1>2, <1>3, <1>5, <2>1
  <1> QED  BY <1>4, <1>5 DEF Sizes

LEMMA CountOfLow ==
    ASSUME NEW n \in Sizes, NEW b \in Int
    PROVE  Low(b, n) % n = b % n /\ b % n \in 0 .. n - 1 /\ b % n \in Nat
  <1>1. PICK e \in Nat \ {0} : Power[n] = n * e  BY SizesArePowers
  <1>2. n \in Nat \ {0}  BY SizeIsNumber
  <1>3. b % n \in 0 .. n - 1  BY <1>2, SMT
  <1>4. (b % (n * e)) % n = b % n  BY <1>2, RestOfMultiple
  <1>5. Low(b, n) % n = b % n  BY <1>1, <1>4, Zenon DEF Low
  <1> QED  BY <1>2, <1>3, <1>5

LEMMA CountOfHalf ==
    ASSUME NEW b \in Int, b % Width < HalfWidth
    PROVE  b % Width = b % HalfWidth
  <1>1. HalfWidth \in Nat \ {0} /\ Width = HalfWidth * 2  BY Widths DEF Width
  <1>2. (b % Width) % HalfWidth = b % HalfWidth
    <2>1. 2 \in Nat \ {0}  OBVIOUS
    <2>2. (b % (HalfWidth * 2)) % HalfWidth = b % HalfWidth  BY <1>1, <2>1, RestOfMultiple
    <2> QED  BY <1>1, <2>2, Zenon
  <1>3. b % Width \in 0 .. HalfWidth - 1  BY <1>1, SMT
  <1>4. (b % Width) % HalfWidth = b % Width  BY <1>1, <1>3, SMT
  <1> QED  BY <1>2, <1>4

LEMMA CountOfImmediate ==
    ASSUME NEW n \in Sizes, NEW b \in Nat, b < n
    PROVE  b % n = b
  <1>1. n \in Nat \ {0}  BY SizeIsNumber
  <1> QED  BY <1>1, SMT

\* A number that fits is the same in fewer bits.
LEMMA NarrowSigned ==
    ASSUME NEW n \in Sizes, NEW x \in Int,
           -Power[n - 1] <= Signed(x, Width), Signed(x, Width) < Power[n - 1]
    PROVE  Signed(x, n) = Signed(x, Width)
  <1> DEFINE s == Signed(x, Width)
  <1>1. n \in Nat \ {0} /\ Width \in Nat \ {0}  BY Widths
  <1>2. s \in Int /\ Low(s, Width) = Low(x, Width)  BY <1>1, SignedType
  <1>3. -Power[n - 1] <= s /\ s < Power[n - 1]  OBVIOUS
  <1> HIDE DEF s
  <1>4. Low(s, n) = Low(x, n)
    <2>1. Low(Low(s, Width), n) = Low(s, n) /\ Low(Low(x, Width), n) = Low(x, n)
      BY <1>2, LowOfWider
    <2> QED  BY <1>2, <2>1
  <1>5. Signed(s, n) = Signed(x, n)  BY <1>4, SignedByLow
  <1>6. Signed(s, n) = s  BY <1>1, <1>2, <1>3, SignedOfSmall
  <1> QED  BY <1>5, <1>6 DEF s

LEMMA SignedZero ==
    ASSUME NEW n \in Sizes, NEW x \in Int
    PROVE  Signed(x, n) = 0 <=> Low(x, n) = 0
  <1>1. n \in Nat \ {0} /\ Power[n] \in Nat \ {0} /\ Power[n - 1] \in Nat \ {0}
    BY SizeIsNumber, PowerPositive, PowerOfPredecessor
  <1>2. Low(x, n) = 0 => Signed(x, n) = 0  BY <1>1 DEF Signed
  <1>3. Low(0, n) = 0  BY <1>1, LowOfSmall
  <1>4. Signed(x, n) = 0 => Low(x, n) = 0  BY <1>1, <1>3, SignedType
  <1> QED  BY <1>2, <1>4

LEMMA SignedOfZero == Signed(0, Width) = 0
  <1>1. Width \in Sizes /\ Power[Width] \in Nat \ {0} /\ Width \in Nat  BY WordIsSmall, Widths
  <1>2. Low(0, Width) = 0  BY <1>1, LowOfSmall
  <1> QED  BY <1>1, <1>2, SignedZero

LEMMA ExtendOfShifted ==
    ASSUME NEW n \in Sizes, NEW x \in Int, NEW s \in Nat
    PROVE  /\ x * Power[s] \in Int
           /\ Extend(Low(x, n) * Power[s], n) = Extend(x * Power[s], n)
  <1> DEFINE c == Power[s]
             v == Low(x, n)
  <1>1. n \in Nat /\ c \in Int  BY SizeIsNumber, PowerPositive
  <1>2. v \in Int /\ Low(v, n) = v  BY <1>1, LowType
  <1> HIDE DEF c
  <1>3. Extend(Low(x, n) * Low(c, n), n) = Extend(x * c, n)  BY <1>1, ExtendOfOperands
  <1>4. Extend(Low(v, n) * Low(c, n), n) = Extend(v * c, n)  BY <1>1, <1>2, ExtendOfOperands
  <1> QED  BY <1>1, <1>2, <1>3, <1>4 DEF c

-----------------------------------------------------------------------------
\* What the instruction set says, without the bits that do not matter.
Says(i, a, b) == Result(i.operation, i.half, i.pc, a, b)

LEMMA SaysOfArithmetic ==
    ASSUME NEW i, NEW a, NEW b, NEW n, Executed(i, a, b, n)
    PROVE  /\ i.operation = "Add" => Says(i, a, b) = Extend(a + b, n)
           /\ i.operation = "Sub" => Says(i, a, b) = Extend(a - b, n)
           /\ i.operation = "Mul" => Says(i, a, b) = Extend(a * b, n)
  <1>0. n = Bits(i.half)  BY DEF Executed
  <1>1. n = Bits(i.half) /\ n \in Sizes /\ a \in Int /\ b \in Int
    BY ExecutedType DEF Executed
  <1>2. /\ i.operation = "Add" => Says(i, a, b) = Extend(Low(a, n) + Low(b, n), n)
        /\ i.operation = "Sub" => Says(i, a, b) = Extend(Low(a, n) - Low(b, n), n)
        /\ i.operation = "Mul" => Says(i, a, b) = Extend(Low(a, n) * Low(b, n), n)
    BY <1>0 DEF Says, Result, Logic, Links
  <1> QED  BY <1>1, <1>2, ExtendOfOperands

LEMMA SaysOfLogic ==
    ASSUME NEW i, NEW a, NEW b, NEW n, Executed(i, a, b, n), i.operation \in Logic
    PROVE  Says(i, a, b) = Bitwise(i.operation, a, b) /\ Bitwise(i.operation, a, b) \in Word
  <1>0. n = Bits(i.half)  BY DEF Executed
  <1>1. n = Bits(i.half) /\ n = Width /\ a \in Word /\ b \in Word
    BY ExecutedType, OperationsByKind DEF Executed
  <1>2. Low(a, n) = a /\ Low(b, n) = b /\ a \in Int /\ b \in Int  BY <1>1, WordType
  <1>3. Says(i, a, b) = Extend(Bitwise(i.operation, Low(a, n), Low(b, n)), n)
    BY <1>0 DEF Says, Result, Logic, Links
  <1>4. Bitwise(i.operation, a, b) \in Word  BY <1>2, BitwiseType
  <1> QED  BY <1>1, <1>2, <1>3, <1>4, WordType

LEMMA SaysOfShifts ==
    ASSUME NEW i, NEW a, NEW b, NEW n, Executed(i, a, b, n)
    PROVE  /\ i.operation = "Sll" => Says(i, a, b) = Extend(a * Power[b % n], n)
           /\ i.operation = "Srl" => Says(i, a, b) = Extend(Low(a, n) \div Power[b % n], n)
           /\ i.operation = "Sra" => Says(i, a, b) = Extend(Signed(a, n) \div Power[b % n], n)
  <1>0. n = Bits(i.half)  BY DEF Executed
  <1>1. n = Bits(i.half) /\ n \in Sizes /\ n \in Nat /\ a \in Int /\ b \in Int
    BY ExecutedType, SizeIsNumber DEF Executed
  <1>2. /\ i.operation = "Sll" => Says(i, a, b) = Extend(Low(a, n) * Power[b % n], n)
        /\ i.operation = "Srl" => Says(i, a, b) = Extend(Low(a, n) \div Power[b % n], n)
        /\ i.operation = "Sra" => Says(i, a, b) = Extend(Signed(a, n) \div Power[b % n], n)
    BY <1>0 DEF Says, Result, Logic, Links
  <1> QED  BY <1>1, <1>2, ExtendOfShifted, CountOfLow

Truth(operation, a, b) ==
    CASE operation = "Beq" -> a = b
      [] operation = "Bne" -> a # b
      [] operation \in {"Blt", "Slt"} -> Signed(a, Width) < Signed(b, Width)
      [] operation = "Bge" -> ~(Signed(a, Width) < Signed(b, Width))
      [] operation \in {"Bltu", "Sltu"} -> a < b
      [] operation = "Bgeu" -> ~(a < b)

LEMMA SaysOfComparisons ==
    ASSUME NEW i, NEW a, NEW b, NEW n, Executed(i, a, b, n),
           i.operation \in Comparisons \union Conditions
    PROVE  /\ Says(i, a, b) = Flag(Truth(i.operation, a, b))
           /\ Signed(a, Width) \in Int /\ Signed(b, Width) \in Int
  <1>1. n = Bits(i.half) /\ n = Width /\ a \in Word /\ b \in Word
    BY ExecutedType, OperationsByKind DEF Executed
  <1>2. Low(a, n) = a /\ Low(b, n) = b /\ a \in Int /\ b \in Int /\ Width \in Nat \ {0}
    BY <1>1, WordType, Widths
  <1> DEFINE sa == Signed(a, Width)
             sb == Signed(b, Width)
  <1>3. sa \in Int /\ sb \in Int  BY <1>2, SignedType
  <1>4. /\ i.operation = "Slt" => Says(i, a, b) = Extend(Flag(sa < sb), n)
        /\ i.operation = "Sltu" => Says(i, a, b) = Extend(Flag(a < b), n)
        /\ i.operation = "Beq" => Says(i, a, b) = Extend(Flag(a = b), n)
        /\ i.operation = "Bne" => Says(i, a, b) = Extend(Flag(a # b), n)
        /\ i.operation = "Blt" => Says(i, a, b) = Extend(Flag(sa < sb), n)
        /\ i.operation = "Bge" => Says(i, a, b) = Extend(Flag(sa >= sb), n)
        /\ i.operation = "Bltu" => Says(i, a, b) = Extend(Flag(a < b), n)
        /\ i.operation = "Bgeu" => Says(i, a, b) = Extend(Flag(a >= b), n)
    <2> HIDE DEF sa, sb
    <2> QED  BY <1>1, <1>2 DEF Says, Result, Logic, Links, sa, sb
  <1> HIDE DEF sa, sb
  <1>5. \A v \in {0, 1} : Extend(v, n) = v
    <2>1. 1 < Power[Width]  BY Widths, PowerPositive
    <2> QED  BY <1>1, <2>1, WordIsSmall, WordType
  <1>6. /\ i.operation \in {"Slt", "Blt"} => Says(i, a, b) = Flag(sa < sb)
        /\ i.operation \in {"Sltu", "Bltu"} => Says(i, a, b) = Flag(a < b)
        /\ i.operation = "Beq" => Says(i, a, b) = Flag(a = b)
        /\ i.operation = "Bne" => Says(i, a, b) = Flag(a # b)
        /\ i.operation = "Bge" => Says(i, a, b) = Flag(~(sa < sb))
        /\ i.operation = "Bgeu" => Says(i, a, b) = Flag(~(a < b))
    BY <1>2, <1>3, <1>4, <1>5 DEF Flag
  <1>7. /\ i.operation \in {"Slt", "Blt"} => (Truth(i.operation, a, b) <=> sa < sb)
        /\ i.operation \in {"Sltu", "Bltu"} => (Truth(i.operation, a, b) <=> a < b)
        /\ i.operation = "Beq" => (Truth(i.operation, a, b) <=> a = b)
        /\ i.operation = "Bne" => (Truth(i.operation, a, b) <=> a # b)
        /\ i.operation = "Bge" => (Truth(i.operation, a, b) <=> ~(sa < sb))
        /\ i.operation = "Bgeu" => (Truth(i.operation, a, b) <=> ~(a < b))
    BY DEF Truth, sa, sb
  <1>8. Says(i, a, b) = Flag(Truth(i.operation, a, b))
    BY <1>6, <1>7 DEF Comparisons, Conditions, Flag
  <1> QED  BY <1>3, <1>8 DEF sa, sb

LEMMA QuotientType ==
    ASSUME NEW x \in Int, NEW y \in Int, y # 0
    PROVE  /\ Quotient(x, y) \in Int /\ Remainder(x, y) \in Int
           /\ x \in Nat /\ y \in Nat => Quotient(x, y) = x \div y /\ Remainder(x, y) = x % y
  <1> DEFINE q == Magnitude(x) \div Magnitude(y)
  <1>1. Magnitude(x) \in Nat /\ Magnitude(y) \in Nat \ {0}  BY DEF Magnitude
  <1>2. q \in Int
    <2> HIDE DEF Magnitude
    <2> QED  BY <1>1, Division
  <1>3. Quotient(x, y) = q \/ Quotient(x, y) = -q  BY DEF Quotient
  <1> HIDE DEF q
  <1>4. Quotient(x, y) \in Int  BY <1>2, <1>3
  <1>5. Remainder(x, y) \in Int  BY <1>4 DEF Remainder
  <1>6. ASSUME x \in Nat, y \in Nat PROVE Quotient(x, y) = x \div y /\ Remainder(x, y) = x % y
    <2>1. Magnitude(x) = x /\ Magnitude(y) = y  BY <1>6 DEF Magnitude
    <2>2. ~(x < 0) /\ ~(y < 0)  BY <1>6
    <2>3. Quotient(x, y) = x \div y  BY <2>1, <2>2 DEF Quotient
    <2> DEFINE d == x \div y
               r == x % y
    <2>4. d \in Int /\ r \in Int /\ x = y * d + r  BY <1>6, Division
    <2>5. Remainder(x, y) = x - y * d  BY <2>3 DEF Remainder
    <2> HIDE DEF d, r
    <2>6. x - y * d = r  BY <2>4
    <2> QED  BY <2>3, <2>5, <2>6 DEF r
  <1> QED  BY <1>4, <1>5, <1>6

LEMMA SaysOfDivisions ==
    ASSUME NEW i, NEW a, NEW b, NEW n, Executed(i, a, b, n)
    PROVE  /\ i.operation = "Div" /\ Low(b, n) # 0 =>
                Says(i, a, b) = Extend(Quotient(Signed(a, n), Signed(b, n)), n)
           /\ i.operation = "Divu" /\ Low(b, n) # 0 =>
                Says(i, a, b) = Extend(Low(a, n) \div Low(b, n), n)
           /\ i.operation \in {"Rem", "Remu"} /\ Low(b, n) = 0 => Says(i, a, b) = Extend(a, n)
           /\ i.operation = "Rem" /\ Low(b, n) # 0 =>
                Says(i, a, b) = Extend(Remainder(Signed(a, n), Signed(b, n)), n)
           /\ i.operation = "Remu" /\ Low(b, n) # 0 =>
                Says(i, a, b) = Extend(Low(a, n) % Low(b, n), n)
  <1>0. n = Bits(i.half)  BY DEF Executed
  <1>1. Extend(Low(a, n), n) = Extend(a, n)  BY ExecutedType, ExtendOfLow
  <1> QED  BY <1>0, <1>1 DEF Says, Result, Logic, Links

LEMMA SaysOfMoves ==
    ASSUME NEW i, NEW a, NEW b, NEW n, Executed(i, a, b, n)
    PROVE  /\ i.operation = "Lui" => Says(i, a, b) = i.imm
           /\ i.operation = "Auipc" => Says(i, a, b) = Low(i.pc + i.imm, Width)
           /\ i.operation \in Links => Says(i, a, b) = Low(i.pc + 4, Width)
           /\ i.operation \in Loads => Says(i, a, b) = Loaded(i, Content(Low(a + i.imm, Width)))
           /\ \A x \in Int : Loaded(i, Content(Low(x, Width))) \in Word
  <1>0. n = Bits(i.half)  BY DEF Executed
  <1>1. /\ i.operation \in OnlyImmediate => b = i.imm
        /\ i.operation \in Upper \union Links => n = Width
        /\ i.operation = "Loadu" => n = HalfWidth
    BY OperationsByKind
  <1>2. i.operation = "Lui" => Says(i, a, b) = Extend(i.imm, Width)
    BY <1>0, <1>1 DEF Says, Result, Logic, Links, OnlyImmediate, Upper
  <1>3. i.operation = "Auipc" => Says(i, a, b) = Extend(i.pc + i.imm, Width)
    BY <1>0, <1>1 DEF Says, Result, Logic, Links, OnlyImmediate, Upper
  <1>4. i.operation \in Links => Says(i, a, b) = Extend(i.pc + 4, Width)
    BY <1>0, <1>1 DEF Says, Result, Logic, Links, OnlyImmediate
  <1>5. i.imm \in Word /\ i.imm \in Int /\ i.pc \in Int /\ n \in Sizes  BY ExecutedType
  <1>6. /\ Extend(i.imm, Width) = i.imm /\ Extend(i.pc + 4, Width) = Low(i.pc + 4, Width)
        /\ Extend(i.pc + i.imm, Width) = Low(i.pc + i.imm, Width)
    BY <1>5, WordType, ExtendWidth
  <1>7. ASSUME NEW x \in Int
        PROVE  /\ Loaded(i, Content(Low(x, Width))) \in Word
               /\ Extend(Low(Low(x, Width), HalfWidth), Width) = Low(Low(x, Width), HalfWidth)
    <2> DEFINE c == Low(x, Width)
    <2>1. c \in Int  BY Widths, LowType
    <2> HIDE DEF c
    <2>2. HalfWidth \in Sizes /\ HalfWidth \in Nat \ {0}  BY Widths DEF Sizes
    <2>3. Low(c, HalfWidth) \in 0 .. Power[HalfWidth] - 1 /\ Low(c, HalfWidth) \in Int
      BY <2>1, <2>2, LowType
    <2>4. PICK e \in Nat \ {0} : Power[Width] = Power[HalfWidth] * e  BY <2>2, Widths
    <2>5. Power[HalfWidth] \in Nat \ {0}  BY <2>2, PowerPositive
    <2>6. Power[HalfWidth] <= Power[HalfWidth] * e  BY <2>4, <2>5
    <2>7. Low(c, HalfWidth) \in Word  BY <2>3, <2>4, <2>5, <2>6, WordIsSmall
    <2>8. Extend(c, Bits(i.half)) \in Word  BY <1>0, <1>5, <2>1, ExtendType
    <2> QED  BY <2>7, <2>8, WordType DEF Loaded, Content, c
  <1>8. a + i.imm \in Int  BY ExecutedType
  <1>9. i.operation = "Load" =>
          Says(i, a, b) = Extend(Content(Low(a + i.imm, Width)), n)
    BY <1>0, <1>1 DEF Says, Result, Logic, Links, OnlyImmediate, Loads
  <1>10. i.operation = "Loadu" =>
          Says(i, a, b) = Extend(Low(Content(Low(a + i.imm, Width)), n), Width)
    BY <1>0, <1>1 DEF Says, Result, Logic, Links, OnlyImmediate, Loads
  <1>11. i.operation \in Loads => Says(i, a, b) = Loaded(i, Content(Low(a + i.imm, Width)))
    BY <1>0, <1>1, <1>7, <1>8, <1>9, <1>10 DEF Loads, Loaded, Content
  <1> QED  BY <1>2, <1>3, <1>4, <1>6, <1>7, <1>11

\* Every result is a word.
LEMMA ShiftedType ==
    ASSUME NEW n \in Sizes, NEW a \in Int, NEW s \in Nat
    PROVE  /\ a * Power[s] \in Int
           /\ Low(a, n) \div Power[s] \in Int /\ Signed(a, n) \div Power[s] \in Int
  <1>1. Power[s] \in Nat \ {0} /\ n \in Nat \ {0}  BY PowerPositive, SizeIsNumber
  <1>2. Low(a, n) \in Int /\ Signed(a, n) \in Int  BY <1>1, LowType, SignedType
  <1>3. a * Power[s] \in Int  BY <1>1
  <1> QED  BY <1>1, <1>2, <1>3, Division

LEMMA SaysType ==
    ASSUME NEW i, NEW a, NEW b, NEW n, Executed(i, a, b, n),
           ~(i.operation \in {"Div", "Divu"} /\ Low(b, n) = 0)
    PROVE  Says(i, a, b) \in Word
  <1>1. /\ n \in Sizes /\ n \in Nat \ {0} /\ a \in Int /\ b \in Int
        /\ i.imm \in Int /\ i.imm \in Word /\ i.pc \in Int /\ i.operation \in Operations
    BY ExecutedType, OperationsByKind
  <1>2. \A x \in Int : Extend(x, n) \in Word  BY <1>1, ExtendType
  <1>3. CASE i.operation \in {"Add", "Sub", "Mul"}
    <2>1. a + b \in Int /\ a - b \in Int /\ a * b \in Int  BY <1>1
    <2> QED  BY <1>2, <1>3, <2>1, SaysOfArithmetic
  <1>4. CASE i.operation \in Logic  BY <1>4, SaysOfLogic
  <1>5. CASE i.operation \in Shifts
    <2>1. b % n \in Nat  BY <1>1, CountOfLow
    <2>2. /\ a * Power[b % n] \in Int
          /\ Low(a, n) \div Power[b % n] \in Int /\ Signed(a, n) \div Power[b % n] \in Int
      BY <1>1, <2>1, ShiftedType
    <2> QED  BY <1>2, <1>5, <2>2, SaysOfShifts DEF Shifts
  <1>6. CASE i.operation \in Comparisons \union Conditions
    <2>1. 0 \in Word /\ 1 \in Word  BY FlagType DEF Flag
    <2> QED  BY <1>6, <2>1, SaysOfComparisons DEF Flag
  <1>7. CASE i.operation \in Divisions
    <2>1. Low(a, n) \in Nat /\ Low(b, n) \in Nat /\ Signed(a, n) \in Int /\ Signed(b, n) \in Int
      BY <1>1, LowType, SignedType, PowerPositive
    <2>2. Low(b, n) # 0 => Signed(b, n) # 0  BY <1>1, SignedZero
    <2>3. Low(b, n) # 0 => /\ Low(a, n) \div Low(b, n) \in Int /\ Low(a, n) % Low(b, n) \in Int
                           /\ Quotient(Signed(a, n), Signed(b, n)) \in Int
                           /\ Remainder(Signed(a, n), Signed(b, n)) \in Int
      <3>1. ASSUME NEW y \in Nat, NEW x \in Nat, y # 0 PROVE x \div y \in Int /\ x % y \in Int
        BY <3>1, Division
      <3> QED  BY <2>1, <2>2, <3>1, QuotientType
    <2> QED  BY <1>1, <1>2, <1>7, <2>3, SaysOfDivisions DEF Divisions, SignedDivisions
  <1>8. CASE i.operation \in Loads \union Upper \union Links
    <2>1. i.pc + i.imm \in Int /\ i.pc + 4 \in Int /\ a + i.imm \in Int  BY <1>1
    <2>2. Low(i.pc + i.imm, Width) \in Word /\ Low(i.pc + 4, Width) \in Word
      BY <2>1, ExtendWidth
    <2> QED  BY <1>1, <1>8, <2>1, <2>2, SaysOfMoves DEF Upper
  <1> QED
    BY <1>1, <1>3, <1>4, <1>5, <1>6, <1>7, <1>8
       DEF Operations, WithImmediate, OnlyImmediate, OfHalves

\* Where loads and jumps go.
LEMMA OffsetIs ==
    ASSUME NEW i, NEW a, NEW b, NEW n, Executed(i, a, b, n)
    PROVE  /\ i.operation \in Links =>
                Target(i.operation, i.pc, a, b) =
                  Low((IF i.operation = "Jal" THEN i.pc ELSE a) + i.imm, Width)
           /\ Low(a + i.imm, Width) \in Word /\ Low(i.pc + i.imm, Width) \in Word
           /\ i.rs1 = Zero => Low(a + i.imm, Width) = i.imm
           /\ i.imm = 0 => Low(a + i.imm, Width) = a
  <1>1. i.operation \in Links => b = i.imm  BY OperationsByKind DEF OnlyImmediate
  <1>2. a \in Word /\ i.imm \in Word /\ a \in Int /\ i.imm \in Int /\ i.pc \in Int
    BY ExecutedType
  <1>3. a + i.imm \in Int /\ i.pc + i.imm \in Int  BY <1>2
  <1>4. i.rs1 = Zero => a = 0  BY DEF Executed
  <1>5. Low(a, Width) = a /\ Low(i.imm, Width) = i.imm  BY <1>2, WordType
  <1>6. (i.rs1 = Zero => a + i.imm = i.imm) /\ (i.imm = 0 => a + i.imm = a)
    BY <1>2, <1>4
  <1> QED  BY <1>1, <1>3, <1>5, <1>6, ExtendWidth DEF Target

\* Both processors.
LEMMA ProcessorComputes ==
    ASSUME NEW i, NEW a, NEW b, NEW n, Executed(i, a, b, n),
           i.operation \in {"Add", "Sub", "Mul"} \union Logic \union Shifts
    PROVE  Extend(Processor(i.operation, n, a, b), n) = Says(i, a, b)
  <1> DEFINE x == Low(a, n)
             y == Low(b, n)
  <1>1. n \in Sizes /\ n \in Nat \ {0} /\ a \in Int /\ b \in Int /\ a \in Word /\ b \in Word
    BY ExecutedType
  <1>2. x \in Int /\ y \in Int  BY <1>1, LowType
  <1>3. CASE i.operation \in {"Add", "Sub", "Mul"}
    <2>1. x + y \in Int /\ x - y \in Int /\ x * y \in Int  BY <1>2
    <2>2. /\ i.operation = "Add" => Processor(i.operation, n, a, b) = Low(x + y, n)
          /\ i.operation = "Sub" => Processor(i.operation, n, a, b) = Low(x - y, n)
          /\ i.operation = "Mul" => Processor(i.operation, n, a, b) = Low(x * y, n)
      BY DEF Processor, Logic
    <2>3. /\ Extend(x + y, n) = Extend(a + b, n) /\ Extend(x - y, n) = Extend(a - b, n)
          /\ Extend(x * y, n) = Extend(a * b, n)
      BY <1>1, ExtendOfOperands
    <2> HIDE DEF x, y
    <2>4. /\ Extend(Low(x + y, n), n) = Extend(x + y, n)
          /\ Extend(Low(x - y, n), n) = Extend(x - y, n)
          /\ Extend(Low(x * y, n), n) = Extend(x * y, n)
      BY <1>1, <2>1, ExtendOfLow
    <2> QED  BY <1>3, <2>2, <2>3, <2>4, SaysOfArithmetic
  <1>4. CASE i.operation \in Logic
    <2>1. n = Width  BY <1>4, OperationsByKind
    <2>2. x = a /\ y = b  BY <1>1, <2>1, WordType
    <2>3. Processor(i.operation, n, a, b) = Low(Bitwise(i.operation, x, y), n)
      BY <1>4 DEF Processor, Logic
    <2> HIDE DEF x, y
    <2> QED  BY <1>4, <2>1, <2>2, <2>3, SaysOfLogic, WordType
  <1>5. CASE i.operation \in Shifts
    <2> DEFINE s == b % n
    <2>1. y % n = s /\ s \in Nat  BY <1>1, CountOfLow
    <2>2. /\ i.operation = "Sll" => Processor(i.operation, n, a, b) = Low(x * Power[y % n], n)
          /\ i.operation = "Srl" => Processor(i.operation, n, a, b) = Low(x \div Power[y % n], n)
          /\ i.operation = "Sra" =>
               Processor(i.operation, n, a, b) = Low(Signed(x, n) \div Power[y % n], n)
      BY DEF Processor, Logic
    <2>5. Signed(x, n) = Signed(a, n)  BY <1>1, LowType, SignedByLow
    <2> HIDE DEF s
    <2>3. /\ x * Power[s] \in Int /\ Extend(x * Power[s], n) = Extend(a * Power[s], n)
          /\ x \div Power[s] \in Int /\ Signed(a, n) \div Power[s] \in Int
      BY <1>1, <1>2, <2>1, ShiftedType, ExtendOfShifted
    <2> HIDE DEF x, y
    <2>4. /\ Extend(Low(x * Power[s], n), n) = Extend(x * Power[s], n)
          /\ Extend(Low(x \div Power[s], n), n) = Extend(x \div Power[s], n)
          /\ Extend(Low(Signed(a, n) \div Power[s], n), n) = Extend(Signed(a, n) \div Power[s], n)
      BY <1>1, <2>3, ExtendOfLow
    <2> QED  BY <1>5, <2>1, <2>2, <2>3, <2>4, <2>5, SaysOfShifts DEF Shifts, s, x
  <1> QED  BY <1>3, <1>4, <1>5

\* A condition that is inverted twice.
LEMMA SkipsComputes ==
    ASSUME NEW i, NEW a, NEW b, NEW n, Executed(i, a, b, n), i.operation \in Conditions
    PROVE  /\ Flag(~Holds(Skips[i.operation], a, b)) = Says(i, a, b)
           /\ Flag(~Holds(X64Skips[i.operation], a, b)) = Says(i, a, b)
  <1>1. Signed(a, Width) \in Int /\ Signed(b, Width) \in Int /\ a \in Int /\ b \in Int
    BY SaysOfComparisons, ExecutedType
  <1>2. Skips = X64Skips  BY DEF Skips, X64Skips
  <1>3. /\ Skips["Beq"] = "ne" /\ Skips["Bne"] = "eq" /\ Skips["Blt"] = "ge"
        /\ Skips["Bge"] = "lt" /\ Skips["Bltu"] = "not below" /\ Skips["Bgeu"] = "below"
    BY DEF Skips
  <1> DEFINE sa == Signed(a, Width)
             sb == Signed(b, Width)
  <1>5. /\ Holds("ne", a, b) <=> a # b
        /\ Holds("eq", a, b) <=> a = b
        /\ Holds("ge", a, b) <=> ~(sa < sb)
        /\ Holds("lt", a, b) <=> sa < sb
        /\ Holds("not below", a, b) <=> ~(a < b)
        /\ Holds("below", a, b) <=> a < b
    <2>1. (sa >= sb <=> ~(sa < sb)) /\ (a >= b <=> ~(a < b))  BY <1>1
    <2> HIDE DEF sa, sb
    <2> QED  BY <2>1 DEF Holds, sa, sb
  <1>6. /\ Truth("Beq", a, b) <=> a = b
        /\ Truth("Bne", a, b) <=> a # b
        /\ Truth("Blt", a, b) <=> sa < sb
        /\ Truth("Bge", a, b) <=> ~(sa < sb)
        /\ Truth("Bltu", a, b) <=> a < b
        /\ Truth("Bgeu", a, b) <=> ~(a < b)
    BY DEF Truth
  <1> HIDE DEF sa, sb
  <1>4. ~Holds(Skips[i.operation], a, b) <=> Truth(i.operation, a, b)
    BY <1>3, <1>5, <1>6 DEF Conditions
  <1> QED  BY <1>2, <1>4, SaysOfComparisons DEF Flag

LEMMA SetsComputes ==
    ASSUME NEW i, NEW a, NEW b, NEW n, Executed(i, a, b, n), i.operation \in Comparisons
    PROVE  Flag(Holds(Sets[i.operation], a, b)) = Says(i, a, b)
  <1>1. Sets["Slt"] = "lt" /\ Sets["Sltu"] = "below"  BY DEF Sets
  <1>2. Holds(Sets[i.operation], a, b) <=> Truth(i.operation, a, b)
    BY <1>1 DEF Holds, Truth, Comparisons
  <1> QED  BY <1>2, SaysOfComparisons DEF Flag

\* AArch64.
LEMMA AArch64AddComputes ==
    ASSUME NEW i, NEW a, NEW b, NEW n, Executed(i, a, b, n), i.operation = "Add"
    PROVE  AArch64Add(i, a, b) = Says(i, a, b)
  <1>1. /\ n = Bits(i.half) /\ (i.immediate => b = i.imm) /\ (i.rs1 = Zero => a = 0)
        /\ a \in Int /\ b \in Int
    BY ExecutedType DEF Executed
  <1>2. Says(i, a, b) = Extend(a + b, n)  BY SaysOfArithmetic
  <1>3. Extend(Processor("Add", n, a, b), n) = Says(i, a, b)  BY ProcessorComputes
  <1>4. (b = 0 => a + b = a) /\ (a = 0 => a + b = b)  BY <1>1
  <1> QED  BY <1>1, <1>2, <1>3, <1>4 DEF AArch64Add

LEMMA AArch64CompareComputes ==
    ASSUME NEW i, NEW a, NEW b, NEW n, Executed(i, a, b, n), i.operation \in Comparisons
    PROVE  Flag(AArch64Compare(i, a, b)) = Says(i, a, b)
  <1>1. (i.immediate => b = i.imm) /\ (i.rs1 = Zero => a = 0)  BY DEF Executed
  <1>2. CASE i.immediate /\ i.rs1 = Zero
    <2>1. Says(i, a, b) = Flag(Truth(i.operation, a, b))  BY SaysOfComparisons
    <2>2. AArch64Compare(i, a, b) <=> Truth(i.operation, a, b)
      BY <1>1, <1>2, SignedOfZero DEF AArch64Compare, Truth, Comparisons
    <2> QED  BY <2>1, <2>2 DEF Flag
  <1>3. CASE ~(i.immediate /\ i.rs1 = Zero)
    <2>1. AArch64Compare(i, a, b) = Holds(Sets[i.operation], a, b)
      BY <1>3 DEF AArch64Compare
    <2> QED  BY <2>1, SetsComputes
  <1> QED  BY <1>2, <1>3

SameLow(x, y, n) == Low(x, n) = Low(y, n)
SameRemainder(a, b, x, y, q, n) ==
    a - q * b \in Int /\ Extend(a - q * b, n) = Extend(x - y * q, n)
LEMMA RemainderByProduct ==
    ASSUME NEW n \in Sizes, NEW a \in Int, NEW b \in Int, NEW x \in Int, NEW y \in Int,
           NEW q \in Int, SameLow(x, a, n), SameLow(y, b, n)
    PROVE  SameRemainder(a, b, x, y, q, n)
  <1>1. n \in Nat  BY SizeIsNumber
  <1> DEFINE p == q * b
             r == q * y
  <1>2. p \in Int /\ r \in Int /\ r = y * q  OBVIOUS
  <1>3. Low(r, n) = Low(p, n)
    <2>1. Low(q, n) \in Int  BY <1>1, LowType
    <2> QED  BY <1>1, <2>1, LowOfSums DEF SameLow
  <1> HIDE DEF p, r
  <1>4. Low(a - p, n) = Low(x - r, n)  BY <1>1, <1>2, <1>3, LowOfSums DEF SameLow
  <1>5. Extend(a - p, n) = Extend(x - r, n)  BY <1>4, SignedByLow
  <1> QED  BY <1>2, <1>5 DEF p, SameRemainder

\* What a division divides, or divides by.
OfDivision(i, v, n) == IF i.operation \in SignedDivisions THEN Signed(v, n) ELSE Low(v, n)

LEMMA OperandsOfDivisions ==
    ASSUME NEW i, NEW a, NEW b, NEW n, Executed(i, a, b, n),
           NEW x, NEW y, x = OfDivision(i, a, n), y = OfDivision(i, b, n)
    PROVE  /\ x \in Int /\ y \in Int /\ SameLow(x, a, n) /\ SameLow(y, b, n)
           /\ y = 0 <=> Low(b, n) = 0
           /\ y # 0 => Quotient(x, y) \in Int /\ Remainder(x, y) \in Int
           /\ Divided(x, y) \in Int /\ x - y * Divided(x, y) \in Int
           /\ i.operation \in Divisions =>
                /\ y # 0 =>
                     /\ i.operation \in {"Rem", "Remu"} => Says(i, a, b) = Extend(Remainder(x, y), n)
                     /\ i.operation \in {"Div", "Divu"} => Says(i, a, b) = Extend(Quotient(x, y), n)
                /\ y = 0 /\ i.operation \in {"Rem", "Remu"} => Says(i, a, b) = Extend(x, n)
  <1>1. n = Bits(i.half) /\ n \in Sizes /\ n \in Nat \ {0} /\ a \in Int /\ b \in Int
    BY ExecutedType DEF Executed
  <1>2. ASSUME NEW v \in {a, b}
        PROVE  /\ Low(v, n) \in Nat /\ Low(Low(v, n), n) = Low(v, n)
               /\ Signed(v, n) \in Int /\ Low(Signed(v, n), n) = Low(v, n)
    <2>1. v \in Int /\ n \in Nat /\ Power[n] \in Nat  BY <1>1, PowerPositive
    <2>2. Low(v, n) \in 0 .. Power[n] - 1 /\ Low(Low(v, n), n) = Low(v, n)  BY <2>1, LowType
    <2> QED  BY <1>1, <2>1, <2>2, SignedType
  <1>3. x \in Int /\ y \in Int /\ SameLow(x, a, n) /\ SameLow(y, b, n)
    BY <1>2 DEF OfDivision, SameLow
  <1>4. y = 0 <=> Low(b, n) = 0  BY <1>1, SignedZero DEF OfDivision
  <1>5. y # 0 => Quotient(x, y) \in Int /\ Remainder(x, y) \in Int  BY <1>3, QuotientType
  <1>6. Divided(x, y) \in Int  BY <1>5 DEF Divided
  <1>7. x - y * Divided(x, y) \in Int  BY <1>3, <1>6
  <1>8. ASSUME i.operation \in Divisions, y # 0
        PROVE  /\ i.operation \in {"Rem", "Remu"} => Says(i, a, b) = Extend(Remainder(x, y), n)
               /\ i.operation \in {"Div", "Divu"} => Says(i, a, b) = Extend(Quotient(x, y), n)
    <2>1. i.operation \in {"Div", "Rem"} => x = Signed(a, n) /\ y = Signed(b, n)
      BY DEF OfDivision, SignedDivisions
    <2>2. i.operation \in {"Divu", "Remu"} => x = Low(a, n) /\ y = Low(b, n)
      BY DEF OfDivision, SignedDivisions
    <2>3. i.operation \in {"Divu", "Remu"} => Quotient(x, y) = x \div y /\ Remainder(x, y) = x % y
      <3>1. Low(a, n) \in Nat /\ Low(b, n) \in Nat  BY <1>2
      <3>2. i.operation \in {"Divu", "Remu"} => x \in Nat /\ y \in Nat  BY <2>2, <3>1
      <3> QED  BY <1>3, <1>8, <3>2, QuotientType
    <2> QED  BY <1>4, <1>8, <2>1, <2>2, <2>3, SaysOfDivisions
  <1>9. ASSUME i.operation \in {"Rem", "Remu"}, y = 0
        PROVE  Says(i, a, b) = Extend(x, n)
    <2>1. Says(i, a, b) = Extend(a, n)  BY <1>4, <1>9, SaysOfDivisions
    <2>2. Extend(x, n) = Extend(a, n)  BY <1>3, SignedByLow DEF SameLow
    <2> QED  BY <2>1, <2>2
  <1> QED  BY <1>3, <1>4, <1>5, <1>6, <1>7, <1>8, <1>9

LEMMA AArch64DivideComputes ==
    ASSUME NEW i, NEW a, NEW b, NEW n, Executed(i, a, b, n), i.operation \in Divisions
    PROVE  /\ AArch64Divide(i, a, b) \in Word
           /\ ~(i.operation \in {"Div", "Divu"} /\ Low(b, n) = 0) =>
                AArch64Divide(i, a, b) = Says(i, a, b)
  <1>1. n = Bits(i.half) /\ n \in Sizes /\ a \in Int /\ b \in Int
    BY ExecutedType DEF Executed
  <1> DEFINE x == OfDivision(i, a, n)
             y == OfDivision(i, b, n)
             q == Divided(x, y)
  <1>2. /\ i.operation \in {"Rem", "Remu"} => AArch64Divide(i, a, b) = Extend(a - q * b, n)
        /\ i.operation \in {"Div", "Divu"} => AArch64Divide(i, a, b) = Extend(q, n)
    BY <1>1 DEF AArch64Divide, OfDivision
  <1> HIDE DEF x, y
  <1>3. /\ x \in Int /\ y \in Int /\ SameLow(x, a, n) /\ SameLow(y, b, n)
        /\ y = 0 <=> Low(b, n) = 0
        /\ q \in Int
        /\ y # 0 =>
             /\ i.operation \in {"Rem", "Remu"} => Says(i, a, b) = Extend(Remainder(x, y), n)
             /\ i.operation \in {"Div", "Divu"} => Says(i, a, b) = Extend(Quotient(x, y), n)
        /\ y = 0 /\ i.operation \in {"Rem", "Remu"} => Says(i, a, b) = Extend(x, n)
    BY OperandsOfDivisions DEF x, y
  <1>4. /\ y # 0 => q = Quotient(x, y) /\ x - y * q = Remainder(x, y)
        /\ y = 0 => q = 0 /\ x - y * q = x
    BY <1>3 DEF Divided, Remainder
  <1> HIDE DEF q
  <1>5. SameRemainder(a, b, x, y, q, n)  BY <1>1, <1>3, RemainderByProduct
  <1>6. a - q * b \in Int /\ Extend(a - q * b, n) = Extend(x - y * q, n)
    BY <1>5 DEF SameRemainder
  <1>7. i.operation \in {"Rem", "Remu", "Div", "Divu"}  BY DEF Divisions, SignedDivisions
  <1>8. AArch64Divide(i, a, b) \in Word  BY <1>1, <1>2, <1>3, <1>6, <1>7, ExtendType
  <1>9. CASE i.operation \in {"Rem", "Remu"}  BY <1>2, <1>3, <1>4, <1>6, <1>8, <1>9
  <1>10. CASE i.operation \in {"Div", "Divu"}  BY <1>2, <1>3, <1>4, <1>8, <1>10
  <1> QED  BY <1>7, <1>9, <1>10

LEMMA AArch64ByOperation ==
    ASSUME NEW i, NEW a, NEW b, NEW n, n = Bits(i.half)
    PROVE  /\ i.operation = "Lui" => AArch64(i, a, b) = i.imm
           /\ i.operation = "Auipc" => AArch64(i, a, b) = Low(i.pc + i.imm, Width)
           /\ i.operation \in Links => AArch64(i, a, b) = Low(i.pc + 4, Width)
           /\ i.operation \in Loads => AArch64(i, a, b) = Loaded(i, Content(AArch64Offset(i, a)))
           /\ i.operation = "Add" => AArch64(i, a, b) = AArch64Add(i, a, b)
           /\ i.operation \in Comparisons => AArch64(i, a, b) = Flag(AArch64Compare(i, a, b))
           /\ i.operation \in Conditions =>
                AArch64(i, a, b) = Flag(~Holds(Skips[i.operation], a, b))
           /\ i.operation \in Divisions => AArch64(i, a, b) = AArch64Divide(i, a, b)
           /\ i.operation \in {"Sub", "Mul"} \union Logic \union Shifts =>
                AArch64(i, a, b) = Extend(Processor(i.operation, n, a, b), n)
  BY DEF AArch64, LoadedBy, Links, Loads, Comparisons, Conditions, Divisions, SignedDivisions,
         Logic, Shifts

LEMMA AArch64Computes ==
    ASSUME NEW i, NEW a, NEW b, NEW n, Executed(i, a, b, n)
    PROVE  /\ AArch64(i, a, b) \in Word
           /\ ~(i.operation \in {"Div", "Divu"} /\ Low(b, n) = 0) =>
                AArch64(i, a, b) = Says(i, a, b)
           /\ i.operation \in Links =>
                AArch64Target(i, a) = Target(i.operation, i.pc, a, b)
  <1>1. n = Bits(i.half) /\ i.operation \in Operations
    BY OperationsByKind DEF Executed
  <1>2. AArch64Offset(i, a) = Low(a + i.imm, Width)  BY OffsetIs DEF AArch64Offset
  <1>3. i.operation \in Links => AArch64Target(i, a) = Target(i.operation, i.pc, a, b)
    BY <1>2, OffsetIs DEF AArch64Target
  <1>4. CASE i.operation \in Divisions
    BY <1>1, <1>3, <1>4, AArch64ByOperation, AArch64DivideComputes DEF Links, Divisions
  <1>5. CASE i.operation \notin Divisions
    <2>1. AArch64(i, a, b) = Says(i, a, b)
      <3>1. CASE i.operation \in {"Sub", "Mul"} \union Logic \union Shifts
        BY <1>1, <3>1, AArch64ByOperation, ProcessorComputes
      <3>2. CASE i.operation = "Add"
        BY <1>1, <3>2, AArch64ByOperation, AArch64AddComputes
      <3>3. CASE i.operation \in Comparisons
        BY <1>1, <3>3, AArch64ByOperation, AArch64CompareComputes
      <3>4. CASE i.operation \in Conditions
        BY <1>1, <3>4, AArch64ByOperation, SkipsComputes
      <3>5. CASE i.operation \in Upper
        BY <1>1, <3>5, AArch64ByOperation, SaysOfMoves DEF Upper
      <3>6. CASE i.operation \in Links
        BY <1>1, <3>6, AArch64ByOperation, SaysOfMoves
      <3>7. CASE i.operation \in Loads
        BY <1>1, <1>2, <3>7, AArch64ByOperation, SaysOfMoves
      <3> QED
        BY <1>1, <1>5, <3>1, <3>2, <3>3, <3>4, <3>5, <3>6, <3>7
           DEF Operations, WithImmediate, OnlyImmediate, OfHalves
    <2> QED  BY <1>3, <1>5, <2>1, SaysType DEF Divisions, SignedDivisions
  <1> QED  BY <1>4, <1>5

\* The interpreter.
LEMMA InterpretedShiftComputes ==
    ASSUME NEW i, NEW a, NEW b, NEW n, Executed(i, a, b, n), i.operation \in Shifts
    PROVE  /\ InterpretedShift(i, a, b) \in Word
           /\ ~(i.operation = "Sra" /\ ~i.half) => InterpretedShift(i, a, b) = Says(i, a, b)
  <1>1. /\ n = Bits(i.half) /\ n \in Sizes /\ n \in Nat \ {0} /\ a \in Int /\ b \in Int
        /\ b \in Word /\ (i.immediate => b = i.imm /\ i.imm < n)
    BY ExecutedType, OperationsByKind DEF Executed
  <1>2. b % n \in Nat  BY <1>1, CountOfLow
  <1>3. i.immediate => b % n = b  BY <1>1, WordType, CountOfImmediate
  <1> DEFINE s == b % n
  <1>4. (IF i.immediate THEN b ELSE b % n) = s  BY <1>3
  <1> HIDE DEF s
  <1>5. /\ i.operation = "Sll" => InterpretedShift(i, a, b) = Extend(Low(a, n) * Power[s], n)
        /\ i.operation = "Srl" => InterpretedShift(i, a, b) = Extend(Low(a, n) \div Power[s], n)
        /\ i.operation = "Sra" /\ i.half =>
             InterpretedShift(i, a, b) = Extend(Signed(a, n) \div Power[s], n)
        /\ i.operation = "Sra" /\ ~i.half =>
             InterpretedShift(i, a, b) = Extend(Signed(a, n) * Power[s], n)
    BY <1>1, <1>4 DEF InterpretedShift
  <1>6. Extend(Low(a, n) * Power[s], n) = Extend(a * Power[s], n)
    BY <1>1, <1>2, ExtendOfShifted DEF s
  <1>7. ~(i.operation = "Sra" /\ ~i.half) => InterpretedShift(i, a, b) = Says(i, a, b)
    BY <1>5, <1>6, SaysOfShifts DEF Shifts, s
  <1>8. i.operation = "Sra" /\ ~i.half => InterpretedShift(i, a, b) \in Word
    <2>1. Signed(a, n) \in Int /\ Power[s] \in Int  BY <1>1, <1>2, SignedType, PowerPositive DEF s
    <2>2. Signed(a, n) * Power[s] \in Int  BY <2>1
    <2> QED  BY <1>1, <1>5, <2>2, ExtendType
  <1> QED  BY <1>7, <1>8, SaysType DEF Shifts

LEMMA InterpretedConditionComputes ==
    ASSUME NEW i, NEW a, NEW b, NEW n, Executed(i, a, b, n),
           i.operation \in Comparisons \union Conditions
    PROVE  Flag(InterpretedCondition(i.operation, a, b)) = Says(i, a, b)
  <1> DEFINE sa == Signed(a, Width)
             sb == Signed(b, Width)
  <1>1. sa \in Int /\ sb \in Int /\ a \in Int /\ b \in Int
    BY SaysOfComparisons, ExecutedType
  <1>2. (sa >= sb <=> ~(sa < sb)) /\ (a >= b <=> ~(a < b))  BY <1>1
  <1>3. InterpretedCondition(i.operation, a, b) <=> Truth(i.operation, a, b)
    <2> HIDE DEF sa, sb
    <2> QED  BY <1>2 DEF InterpretedCondition, Truth, Comparisons, Conditions, sa, sb
  <1> QED  BY <1>3, SaysOfComparisons DEF Flag

\* Everything that InterpretedDivision gives is a word or ends the process.
LEMMA InterpretedDivisionComputes ==
    ASSUME NEW i, NEW a, NEW b, NEW n, Executed(i, a, b, n),
           i.operation \in Divisions \/ (i.operation = "Mul" /\ i.half),
           NEW outcome \in InterpretedDivision(i, a, b)
    PROVE  \/ /\ outcome = Crash
              /\ \/ Low(b, n) = 0
                 \/ i.operation \in SignedDivisions /\ Overflows(a, b, n)
           \/ /\ outcome \in Word
              /\ \/ outcome = Says(i, a, b)
                 \/ i.operation = "Mul"
                 \/ i.operation \in {"Div", "Divu"} /\ Low(b, n) = 0
  <1>1. n = Bits(i.half) /\ n \in Sizes /\ a \in Int /\ b \in Int
    BY ExecutedType DEF Executed
  <1> DEFINE x == OfDivision(i, a, n)
             y == OfDivision(i, b, n)
             q == Divided(x, y)
  <1>2. \/ i.operation \in {"Rem", "Remu"} /\ outcome = Extend(x - y * q, n)
        \/ i.operation \notin {"Rem", "Remu"} /\ outcome = Extend(q, n)
        \/ /\ outcome = Crash
           /\ y = 0 \/ (i.operation \in SignedDivisions /\ Overflows(a, b, n))
    BY <1>1 DEF InterpretedDivision, OfDivision
  <1> HIDE DEF x, y
  <1>3. /\ y = 0 <=> Low(b, n) = 0
        /\ q \in Int /\ x - y * q \in Int
        /\ i.operation \in Divisions =>
             /\ y # 0 =>
                  /\ i.operation \in {"Rem", "Remu"} => Says(i, a, b) = Extend(Remainder(x, y), n)
                  /\ i.operation \in {"Div", "Divu"} => Says(i, a, b) = Extend(Quotient(x, y), n)
             /\ y = 0 /\ i.operation \in {"Rem", "Remu"} => Says(i, a, b) = Extend(x, n)
        /\ x \in Int
    BY OperandsOfDivisions DEF x, y
  <1>4. /\ y # 0 => q = Quotient(x, y) /\ x - y * q = Remainder(x, y)
        /\ y = 0 => x - y * q = x
    BY <1>3 DEF Divided, Remainder
  <1>5. i.operation \in {"Rem", "Remu", "Div", "Divu", "Mul"}  BY DEF Divisions, SignedDivisions
  <1>6. CASE outcome = Crash /\ (y = 0 \/ (i.operation \in SignedDivisions /\ Overflows(a, b, n)))
    BY <1>3, <1>6
  <1> HIDE DEF q
  <1>7. CASE i.operation \in {"Rem", "Remu"} /\ outcome = Extend(x - y * q, n)
    <2>1. outcome \in Word  BY <1>1, <1>3, <1>7, ExtendType
    <2>2. outcome = Says(i, a, b)  BY <1>3, <1>4, <1>7 DEF Divisions, SignedDivisions
    <2> QED  BY <2>1, <2>2
  <1>8. CASE i.operation \notin {"Rem", "Remu"} /\ outcome = Extend(q, n)
    <2>1. outcome \in Word  BY <1>1, <1>3, <1>8, ExtendType
    <2>2. CASE i.operation \in {"Div", "Divu"} /\ y # 0
      <3>1. i.operation \in Divisions  BY <2>2 DEF Divisions, SignedDivisions
      <3> QED  BY <1>3, <1>4, <1>8, <2>1, <2>2, <3>1
    <2> QED  BY <1>3, <1>5, <1>8, <2>1, <2>2
  <1> QED  BY <1>2, <1>6, <1>7, <1>8

LEMMA InterpretedByOperation ==
    ASSUME NEW i, NEW a, NEW b, NEW n, n = Bits(i.half)
    PROVE  /\ i.operation = "Add" => Interpreted(i, a, b) = {Extend(a + b, n)}
           /\ i.operation = "Sub" => Interpreted(i, a, b) = {Extend(a - b, n)}
           /\ i.operation \in Logic => Interpreted(i, a, b) = {Bitwise(i.operation, a, b)}
           /\ i.operation \in Shifts => Interpreted(i, a, b) = {InterpretedShift(i, a, b)}
           /\ i.operation \in Comparisons \union Conditions =>
                Interpreted(i, a, b) = {Flag(InterpretedCondition(i.operation, a, b))}
           /\ i.operation = "Mul" /\ ~i.half => Interpreted(i, a, b) = {Low(a * b, Width)}
           /\ i.operation \in Divisions \/ (i.operation = "Mul" /\ i.half) =>
                Interpreted(i, a, b) = InterpretedDivision(i, a, b)
           /\ i.operation = "Lui" => Interpreted(i, a, b) = {i.imm}
           /\ i.operation = "Auipc" => Interpreted(i, a, b) = {Low(i.pc + i.imm, Width)}
           /\ i.operation \in Links => Interpreted(i, a, b) = {Low(i.pc + 4, Width)}
           /\ i.operation \in Loads =>
                Interpreted(i, a, b) = {Loaded(i, Content(Low(a + i.imm, Width)))}
  BY DEF Interpreted, Links, Loads, Comparisons, Conditions, Divisions, SignedDivisions,
         Logic, Shifts

LEMMA InterpretedComputes ==
    ASSUME NEW i, NEW a, NEW b, NEW n, Executed(i, a, b, n), NEW outcome \in Interpreted(i, a, b)
    PROVE  \/ /\ outcome = Crash
              /\ \/ i.operation \in Divisions /\ Low(b, n) = 0
                 \/ i.operation \in SignedDivisions /\ Overflows(a, b, n)
                 \/ i.operation = "Mul" /\ i.half /\ Low(b, n) = 0
           \/ /\ outcome \in Word
              /\ \/ outcome = Says(i, a, b)
                 \/ i.operation = "Sra" /\ ~i.half
                 \/ i.operation = "Mul" /\ i.half
                 \/ i.operation \in {"Div", "Divu"} /\ Low(b, n) = 0
  <1>1. /\ n = Bits(i.half) /\ i.operation \in Operations /\ i.half \in BOOLEAN
        /\ a \in Int /\ b \in Int /\ n = IF i.half THEN HalfWidth ELSE Width
    BY ExecutedType, OperationsByKind DEF Executed
  <1>2. CASE i.operation \in Divisions \/ (i.operation = "Mul" /\ i.half)
    <2>1. outcome \in InterpretedDivision(i, a, b)  BY <1>1, <1>2, InterpretedByOperation
    <2>2. i.operation \in SignedDivisions => i.operation \in Divisions  BY DEF Divisions
    <2>3. i.operation \in {"Div", "Divu"} => i.operation \in Divisions
      BY DEF Divisions, SignedDivisions
    <2>4. i.operation = "Mul" => i.operation \notin Divisions  BY DEF Divisions, SignedDivisions
    <2> QED  BY <1>2, <2>1, <2>2, <2>3, <2>4, InterpretedDivisionComputes
  <1>3. CASE i.operation \in Shifts
    <2>1. outcome = InterpretedShift(i, a, b)  BY <1>1, <1>3, InterpretedByOperation
    <2> QED  BY <1>3, <2>1, InterpretedShiftComputes
  <1>4. CASE i.operation \notin Divisions \union Shifts /\ ~(i.operation = "Mul" /\ i.half)
    <2>1. outcome = Says(i, a, b)
      <3>1. CASE i.operation \in {"Add", "Sub"}
        <4>1. /\ i.operation = "Add" => outcome = Extend(a + b, n)
              /\ i.operation = "Sub" => outcome = Extend(a - b, n)
          <5>1. n = Bits(i.half)  BY DEF Executed
          <5>2. /\ i.operation = "Add" => Interpreted(i, a, b) = {Extend(a + b, n)}
                /\ i.operation = "Sub" => Interpreted(i, a, b) = {Extend(a - b, n)}
            BY <5>1, InterpretedByOperation
          <5> QED  BY <5>2
        <4> QED  BY <3>1, <4>1, SaysOfArithmetic
      <3>2. CASE i.operation = "Mul" /\ ~i.half
        <4>1. outcome = Low(a * b, Width) /\ n = Width  BY <1>1, <3>2, InterpretedByOperation
        <4>2. a * b \in Int  BY <1>1
        <4>3. Extend(a * b, Width) = Low(a * b, Width)  BY <4>2, ExtendWidth
        <4> QED  BY <3>2, <4>1, <4>3, SaysOfArithmetic
      <3>3. CASE i.operation \in Logic
        BY <1>1, <3>3, InterpretedByOperation, SaysOfLogic
      <3>4. CASE i.operation \in Comparisons \union Conditions
        BY <1>1, <3>4, InterpretedByOperation, InterpretedConditionComputes
      <3>5. CASE i.operation \in Upper
        BY <1>1, <3>5, InterpretedByOperation, SaysOfMoves DEF Upper
      <3>6. CASE i.operation \in Links \union Loads
        BY <1>1, <3>6, InterpretedByOperation, SaysOfMoves
      <3> QED
        BY <1>1, <1>4, <3>1, <3>2, <3>3, <3>4, <3>5, <3>6
           DEF Operations, WithImmediate, OnlyImmediate, OfHalves
    <2>2. outcome \in Word
      BY <1>4, <2>1, SaysType DEF Divisions, SignedDivisions
    <2> QED  BY <2>1, <2>2
  <1> QED  BY <1>2, <1>3, <1>4

LEMMA HalfOfEven ==
    ASSUME NEW x \in Int
    PROVE  (2 * (x \div 2)) \div 2 = x \div 2
  BY SMT

LEMMA InterpretedTargetIs ==
    ASSUME NEW i, NEW a, NEW b, NEW n, Executed(i, a, b, n), i.operation \in Links
    PROVE  InterpretedTarget(i, a) \div 2 = Target(i.operation, i.pc, a, b) \div 2
  <1>1. Low(a + i.imm, Width) \in Int  BY OffsetIs, WordType
  <1> DEFINE to == Low(a + i.imm, Width)
  <1>2. (2 * (to \div 2)) \div 2 = to \div 2
    <2> HIDE DEF to
    <2> QED  BY <1>1, HalfOfEven DEF to
  <1>3. CASE i.operation = "Jal"  BY <1>3, OffsetIs DEF InterpretedTarget
  <1>4. CASE i.operation # "Jal"
    <2>1. InterpretedTarget(i, a) = 2 * (to \div 2)  BY <1>4 DEF InterpretedTarget
    <2>2. Target(i.operation, i.pc, a, b) = to  BY <1>4, OffsetIs
    <2> QED  BY <1>2, <2>1, <2>2
  <1> QED  BY <1>3, <1>4

\* x64.
LEMMA ProcessorType ==
    ASSUME NEW operation \in {"Add", "Sub", "Mul"} \union Logic \union Shifts,
           NEW n \in Sizes, NEW a \in Int, NEW b \in Int
    PROVE  Processor(operation, n, a, b) \in Int
  <1> DEFINE x == Low(a, n)
             y == Low(b, n)
             s == y % n
  <1>1. n \in Nat \ {0} /\ n \in Nat  BY SizeIsNumber
  <1>2. x \in Int /\ y \in Int  BY <1>1, LowType
  <1>3. s \in Nat
    <2> HIDE DEF y
    <2> QED  BY <1>1, <1>2, CountOfLow
  <1>4. Signed(x, n) = Signed(a, n)  BY <1>1, LowType, SignedByLow
  <1>5. /\ a * Power[s] \in Int
        /\ Low(a, n) \div Power[s] \in Int /\ Signed(a, n) \div Power[s] \in Int
    <2> HIDE DEF s
    <2> QED  BY <1>3, ShiftedType
  <1>6. x * Power[s] \in Int
    <2> HIDE DEF s
    <2>1. Power[s] \in Int  BY <1>3, PowerPositive
    <2> QED  BY <1>2, <2>1
  <1>7. operation \in Logic => Bitwise(operation, x, y) \in Int
    <2> HIDE DEF x, y
    <2>1. \A v \in Word : v \in Int  BY WordType
    <2> QED  BY <1>2, <2>1, BitwiseType
  <1>8. /\ operation = "Add" => Processor(operation, n, a, b) = Low(x + y, n)
        /\ operation = "Sub" => Processor(operation, n, a, b) = Low(x - y, n)
        /\ operation = "Mul" => Processor(operation, n, a, b) = Low(x * y, n)
        /\ operation \in Logic => Processor(operation, n, a, b) = Low(Bitwise(operation, x, y), n)
        /\ operation = "Sll" => Processor(operation, n, a, b) = Low(x * Power[s], n)
        /\ operation = "Srl" => Processor(operation, n, a, b) = Low(x \div Power[s], n)
        /\ operation = "Sra" => Processor(operation, n, a, b) = Low(Signed(x, n) \div Power[s], n)
    BY DEF Processor, Logic
  <1>9. x + y \in Int /\ x - y \in Int /\ x * y \in Int  BY <1>2
  <1>10. x \div Power[s] \in Int /\ Signed(x, n) \div Power[s] \in Int  BY <1>4, <1>5
  <1> HIDE DEF x, y, s
  <1>11. \A v \in Int : Low(v, n) \in Int  BY <1>1, LowType
  <1>12. operation \in {"Add", "Sub", "Mul", "Sll", "Srl", "Sra"} \union Logic  BY DEF Shifts
  <1> QED  BY <1>6, <1>7, <1>8, <1>9, <1>10, <1>11, <1>12

\* What the shifts of halves, which are done in Width bits, need of their operands.
ShiftsHalf(i, a, b) ==
    /\ b % Width < HalfWidth
    /\ i.operation = "Srl" => a = Low(a, HalfWidth)
    /\ i.operation = "Sra" => a = Extend(a, HalfWidth)

LEMMA WideProcessorComputes ==
    ASSUME NEW i, NEW a, NEW b, NEW n, Executed(i, a, b, n),
           i.operation \in {"Add", "Sub"} \union Logic \union Shifts,
           i.operation \in Shifts /\ i.half => ShiftsHalf(i, a, b)
    PROVE  Extend(Processor(i.operation, Width, a, b), n) = Says(i, a, b)
  <1>1. /\ n = Bits(i.half) /\ n \in Sizes /\ a \in Int /\ b \in Int /\ a \in Word /\ b \in Word
        /\ i.half \in BOOLEAN /\ n = IF i.half THEN HalfWidth ELSE Width
    BY ExecutedType DEF Executed
  <1>2. Low(a, Width) = a /\ Low(b, Width) = b  BY <1>1, WordType
  <1>3. CASE ~i.half  BY <1>1, <1>3, ProcessorComputes
  <1>4. CASE i.half /\ i.operation \in {"Add", "Sub"}
    <2>1. /\ i.operation = "Add" => Processor(i.operation, Width, a, b) = Low(a + b, Width)
          /\ i.operation = "Sub" => Processor(i.operation, Width, a, b) = Low(a - b, Width)
      BY <1>2 DEF Processor, Logic
    <2>2. a + b \in Int /\ a - b \in Int  BY <1>1
    <2>3. /\ Extend(Low(a + b, Width), n) = Extend(a + b, n)
          /\ Extend(Low(a - b, Width), n) = Extend(a - b, n)
      BY <1>1, <2>2, ExtendOfLow
    <2> QED  BY <1>4, <2>1, <2>3, SaysOfArithmetic
  <1>5. CASE i.half /\ i.operation \in Shifts
    <2> DEFINE s == b % Width
    <2>1. s = b % n /\ s \in Nat
      BY <1>1, <1>5, CountOfHalf, CountOfLow DEF ShiftsHalf, Sizes
    <2>2. /\ i.operation = "Sll" => Processor(i.operation, Width, a, b) = Low(a * Power[s], Width)
          /\ i.operation = "Srl" => Processor(i.operation, Width, a, b) = Low(a \div Power[s], Width)
          /\ i.operation = "Sra" =>
               Processor(i.operation, Width, a, b) = Low(Signed(a, Width) \div Power[s], Width)
      BY <1>2 DEF Processor, Logic
    <2>3. n = HalfWidth  BY <1>1, <1>5
    <2>4. i.operation = "Srl" => a = Low(a, n)  BY <1>5, <2>3 DEF ShiftsHalf
    <2>5. i.operation = "Sra" => Signed(a, Width) = Signed(a, n)
      BY <1>1, <1>5, <2>3, ExtendType DEF ShiftsHalf
    <2> HIDE DEF s
    <2>6. /\ a * Power[s] \in Int
          /\ Low(a, n) \div Power[s] \in Int /\ Signed(a, n) \div Power[s] \in Int
      BY <1>1, <2>1, ShiftedType
    <2>7. /\ Extend(Low(a * Power[s], Width), n) = Extend(a * Power[s], n)
          /\ Extend(Low(Low(a, n) \div Power[s], Width), n) = Extend(Low(a, n) \div Power[s], n)
          /\ Extend(Low(Signed(a, n) \div Power[s], Width), n) = Extend(Signed(a, n) \div Power[s], n)
      BY <1>1, <2>6, ExtendOfLow
    <2>8. /\ i.operation = "Sll" => Says(i, a, b) = Extend(a * Power[s], n)
          /\ i.operation = "Srl" => Says(i, a, b) = Extend(Low(a, n) \div Power[s], n)
          /\ i.operation = "Sra" => Says(i, a, b) = Extend(Signed(a, n) \div Power[s], n)
      BY <2>1, SaysOfShifts
    <2> QED  BY <1>5, <2>2, <2>4, <2>5, <2>7, <2>8 DEF Shifts
  <1>6. i.operation \in Logic => ~i.half  BY OperationsByKind
  <1> QED  BY <1>1, <1>3, <1>4, <1>5, <1>6

LEMMA X64BinaryComputes ==
    ASSUME NEW i, NEW a, NEW b, NEW n, Executed(i, a, b, n),
           i.operation \in {"Add", "Sub"} \union Logic \union Shifts
    PROVE  /\ X64Binary(i, a, b) \in Word
           /\ \/ X64Binary(i, a, b) = Says(i, a, b)
              \/ InPlace(i) /\ ~i.immediate
              \/ i.operation \in Shifts /\ i.half /\ ~ShiftsHalf(i, a, b)
  <1>1. /\ n = Bits(i.half) /\ n \in Sizes /\ a \in Int /\ b \in Int /\ i.imm \in Word
        /\ i.imm \in Int /\ i.half \in BOOLEAN /\ n = IF i.half THEN HalfWidth ELSE Width
        /\ (i.immediate => b = i.imm) /\ (i.rs1 = Zero => a = 0)
    BY ExecutedType DEF Executed
  <1> DEFINE second == IF InPlace(i) THEN i.imm ELSE b
  <1>2. second \in Int /\ (~(InPlace(i) /\ ~i.immediate) => second = b)  BY <1>1
  <1>3. CASE i.operation = "Add" /\ i.immediate /\ (i.imm = 0 \/ (i.rs1 = Zero /\ ~i.half))
    <2>1. Says(i, a, b) = Extend(a + b, n)  BY <1>3, SaysOfArithmetic
    <2>2. (b = 0 => a + b = a) /\ (a = 0 => a + b = b)  BY <1>1
    <2>3. Extend(i.imm, Width) = i.imm /\ Extend(a, n) \in Word  BY <1>1, WordType, ExtendType
    <2>4. CASE i.rs1 = Zero /\ ~i.half
      <3>1. X64Binary(i, a, b) = i.imm  BY <1>3, <2>4 DEF X64Binary
      <3> QED  BY <1>1, <1>3, <2>1, <2>2, <2>3, <2>4, <3>1
    <2>5. CASE ~(i.rs1 = Zero /\ ~i.half)
      <3>1. X64Binary(i, a, b) = Extend(a, n)  BY <1>1, <1>3, <2>5 DEF X64Binary
      <3> QED  BY <1>1, <1>3, <2>1, <2>2, <2>3, <2>5, <3>1
    <2> QED  BY <2>4, <2>5
  <1>4. CASE ~(i.operation = "Add" /\ i.immediate /\ (i.imm = 0 \/ (i.rs1 = Zero /\ ~i.half)))
    <2>1. X64Binary(i, a, b) = Extend(Processor(i.operation, Width, a, second), n)
      BY <1>1, <1>4 DEF X64Binary
    <2>2. Processor(i.operation, Width, a, second) \in Int
      <3> HIDE DEF second
      <3> QED  BY <1>1, <1>2, ProcessorType, WordIsSmall
    <2>3. X64Binary(i, a, b) \in Word  BY <1>1, <2>1, <2>2, ExtendType
    <2> QED  BY <1>2, <2>1, <2>3, WideProcessorComputes
  <1> QED  BY <1>3, <1>4

LEMMA X64CompareComputes ==
    ASSUME NEW i, NEW a, NEW b, NEW n, Executed(i, a, b, n), i.operation \in Comparisons
    PROVE  \/ X64Compare(i, a, b) = Crash /\ i.rs1 = Zero
           \/ X64Compare(i, a, b) = Says(i, a, b)
  BY SetsComputes DEF X64Compare

LEMMA RemainderOfOverflow ==
    ASSUME NEW p \in Nat \ {0}
    PROVE  Remainder(-p, -1) = 0
  <1>1. \A q \in Nat \ {0} : Magnitude(-q) = q  BY DEF Magnitude
  <1>2. Magnitude(-p) = p /\ Magnitude(-1) = 1  BY <1>1
  <1>3. p \div 1 = p  BY SMT
  <1>4. (-p < 0) = (-1 < 0)  BY SMT
  <1>5. Quotient(-p, -1) = p  BY <1>2, <1>3, <1>4 DEF Quotient
  <1>6. (-p) - (-1) * p = 0  BY SMT
  <1> QED  BY <1>5, <1>6 DEF Remainder

\* What does not fit where a division of n bits looks for it.
LEMMA OverflowIsFound ==
    ASSUME NEW i, NEW a, NEW b, NEW n, Executed(i, a, b, n), i.operation \in SignedDivisions
    PROVE  /\ X64Overflows(i, a, b) => Overflows(a, b, n) /\ Low(b, n) # 0
           /\ Overflows(a, b, n) /\ a = Extend(a, n) /\ b = Extend(b, n) => X64Overflows(i, a, b)
           /\ Overflows(a, b, n) => Remainder(Signed(a, n), Signed(b, n)) = 0
  <1>1. n = Bits(i.half) /\ n \in Sizes /\ n \in Nat \ {0} /\ a \in Int /\ b \in Int
    BY ExecutedType DEF Executed
  <1>2. Power[n - 1] \in Nat \ {0}  BY <1>1, PowerOfPredecessor
  <1> DEFINE p == Power[n - 1]
  <1>3. ASSUME X64Overflows(i, a, b) PROVE Overflows(a, b, n) /\ Low(b, n) # 0
    <2>1. Signed(b, Width) = -1 /\ Signed(a, Width) = -p  BY <1>1, <1>3 DEF X64Overflows
    <2>2. Signed(b, n) = -1  BY <1>1, <1>2, <2>1, NarrowSigned
    <2>3. Signed(a, n) = -p  BY <1>1, <1>2, <2>1, NarrowSigned
    <2>4. Low(b, n) # 0  BY <1>1, <2>2, SignedZero
    <2> QED  BY <2>2, <2>3, <2>4 DEF Overflows
  <1>4. ASSUME Overflows(a, b, n), a = Extend(a, n), b = Extend(b, n)
        PROVE  X64Overflows(i, a, b)
    <2>1. Signed(a, Width) = Signed(a, n) /\ Signed(b, Width) = Signed(b, n)
      BY <1>1, <1>4, ExtendType
    <2> QED  BY <1>1, <1>4, <2>1 DEF Overflows, X64Overflows
  <1>5. ASSUME Overflows(a, b, n) PROVE Remainder(Signed(a, n), Signed(b, n)) = 0
    <2>1. Signed(a, n) = -p /\ Signed(b, n) = -1  BY <1>5 DEF Overflows
    <2> HIDE DEF p
    <2> QED  BY <1>2, <2>1, RemainderOfOverflow DEF p
  <1> QED  BY <1>3, <1>4, <1>5

LEMMA X64DivideComputes ==
    ASSUME NEW i, NEW a, NEW b, NEW n, Executed(i, a, b, n), i.operation \in Divisions
    PROVE  \/ /\ X64Divide(i, a, b) = Crash
              /\ \/ Low(b, n) = 0
                 \/ /\ i.operation \in SignedDivisions /\ Overflows(a, b, n)
                    /\ ~(a = Extend(a, n) /\ b = Extend(b, n))
           \/ /\ X64Divide(i, a, b) \in Word
              /\ \/ X64Divide(i, a, b) = Says(i, a, b)
                 \/ i.operation = "Div" /\ Overflows(a, b, n)
  <1>1. n = Bits(i.half) /\ n \in Sizes /\ a \in Int /\ b \in Int /\ n \in Nat \ {0}
    BY ExecutedType DEF Executed
  <1> DEFINE x == OfDivision(i, a, n)
             y == OfDivision(i, b, n)
  <1>2. i.operation \in {"Rem", "Remu", "Div", "Divu"}  BY DEF Divisions, SignedDivisions
  <1>3. CASE X64Overflows(i, a, b)
    <2>1. i.operation \in SignedDivisions  BY <1>3 DEF X64Overflows
    <2>2. Overflows(a, b, n) /\ Low(b, n) # 0 /\ Remainder(Signed(a, n), Signed(b, n)) = 0
      BY <1>3, <2>1, OverflowIsFound
    <2>3. X64Divide(i, a, b) = 0  BY <1>3 DEF X64Divide
    <2>4. 0 \in Word  BY WordIsSmall
    <2>5. CASE i.operation = "Rem"
      <3>1. Says(i, a, b) = Extend(0, n)  BY <2>2, <2>5, SaysOfDivisions
      <3>2. Signed(0, n) = 0
        <4>1. Power[n] \in Nat \ {0}  BY <1>1, PowerPositive
        <4>2. Low(0, n) = 0  BY <1>1, <4>1, LowOfSmall
        <4> QED  BY <1>1, <4>2, SignedZero
      <3>3. Extend(0, n) = 0  BY <2>4, <3>2, WordType DEF Extend
      <3> QED  BY <2>3, <2>4, <3>1, <3>3
    <2>6. CASE i.operation = "Div"  BY <2>2, <2>3, <2>4, <2>6
    <2> QED  BY <2>1, <2>5, <2>6 DEF SignedDivisions
  <1>4. CASE ~X64Overflows(i, a, b) /\ X64Traps(i, a, b)
    <2>1. X64Divide(i, a, b) = Crash  BY <1>4 DEF X64Divide
    <2>2. Low(b, n) = 0 \/ (i.operation \in SignedDivisions /\ Overflows(a, b, n))
      BY <1>1, <1>4 DEF X64Traps
    <2> QED  BY <1>4, <2>1, <2>2, OverflowIsFound
  <1>5. CASE ~X64Overflows(i, a, b) /\ ~X64Traps(i, a, b)
    <2>1. /\ i.operation \in {"Rem", "Remu"} => X64Divide(i, a, b) = Extend(Remainder(x, y), n)
          /\ i.operation \in {"Div", "Divu"} => X64Divide(i, a, b) = Extend(Quotient(x, y), n)
      BY <1>1, <1>5 DEF X64Divide, OfDivision
    <2>2. Low(b, n) # 0  BY <1>1, <1>5 DEF X64Traps
    <2> HIDE DEF x, y
    <2>3. /\ y # 0 /\ Quotient(x, y) \in Int /\ Remainder(x, y) \in Int
          /\ i.operation \in {"Rem", "Remu"} => Says(i, a, b) = Extend(Remainder(x, y), n)
          /\ i.operation \in {"Div", "Divu"} => Says(i, a, b) = Extend(Quotient(x, y), n)
      BY <2>2, OperandsOfDivisions DEF x, y
    <2>4. X64Divide(i, a, b) \in Word  BY <1>1, <1>2, <2>1, <2>3, ExtendType
    <2> QED  BY <1>2, <2>1, <2>3, <2>4
  <1> QED  BY <1>3, <1>4, <1>5

LEMMA X64ImmediateIs ==
    ASSUME NEW v \in Word
    PROVE  X64Immediate(v) = v
  <1>1. v \in Int /\ HalfWidth \in Sizes  BY WordType DEF Sizes
  <1>2. Extend(Low(v, HalfWidth), HalfWidth) = Extend(v, HalfWidth)  BY <1>1, ExtendOfLow
  <1> QED  BY <1>2 DEF X64Immediate

LEMMA X64ByOperation ==
    ASSUME NEW i, NEW a, NEW b
    PROVE  /\ i.operation \in Conditions =>
                X64(i, a, b) = Flag(~Holds(X64Skips[i.operation], a, b))
           /\ i.operation \notin Conditions /\ i.rd = Zero => X64(i, a, b) = 0
           /\ i.rd # Zero =>
                /\ i.operation = "Lui" => X64(i, a, b) = X64Immediate(i.imm)
                /\ i.operation = "Auipc" => X64(i, a, b) = X64Immediate(Low(i.pc + i.imm, Width))
                /\ i.operation \in Links => X64(i, a, b) = X64Immediate(Low(i.pc + 4, Width))
                /\ i.operation \in Loads => X64(i, a, b) = Loaded(i, Content(X64Offset(i, a)))
                /\ i.operation \in Comparisons => X64(i, a, b) = X64Compare(i, a, b)
                /\ i.operation = "Mul" => X64(i, a, b) = X64Multiply(i, a, b)
                /\ i.operation \in Divisions => X64(i, a, b) = X64Divide(i, a, b)
                /\ i.operation \in {"Add", "Sub"} \union Logic \union Shifts =>
                     X64(i, a, b) = X64Binary(i, a, b)
  <1>1. CASE i.operation \in Conditions  BY <1>1 DEF X64, Conditions, Links, Loads,
          Comparisons, Divisions, SignedDivisions, Logic, Shifts
  <1>2. CASE i.operation \notin Conditions /\ i.rd = Zero  BY <1>2 DEF X64
  <1>3. CASE i.operation \notin Conditions /\ i.rd # Zero
    <2>1. CASE i.operation \in {"Add", "Sub"} \union Logic \union Shifts
      BY <1>3, <2>1 DEF X64, Links, Loads, Comparisons, Divisions, SignedDivisions, Logic, Shifts
    <2>2. CASE i.operation \notin {"Add", "Sub"} \union Logic \union Shifts
      BY <1>3, <2>2 DEF X64, LoadedBy, Links, Loads, Comparisons, Divisions, SignedDivisions
    <2> QED  BY <2>1, <2>2
  <1> QED  BY <1>1, <1>2, <1>3

LEMMA X64Computes ==
    ASSUME NEW i, NEW a, NEW b, NEW n, Executed(i, a, b, n)
    PROVE  \/ /\ X64(i, a, b) = Crash
              /\ \/ i.operation \in Divisions /\ Low(b, n) = 0
                 \/ i.operation \in Comparisons /\ i.rs1 = Zero
                 \/ /\ i.operation \in SignedDivisions /\ Overflows(a, b, n)
                    /\ ~(a = Extend(a, n) /\ b = Extend(b, n))
           \/ /\ X64(i, a, b) \in Word
              /\ \/ X64(i, a, b) = Says(i, a, b)
                 \/ i.rd = Zero /\ i.operation \notin Conditions
                 \/ InPlace(i) /\ ~i.immediate
                 \/ i.operation \in Shifts /\ i.half /\ ~ShiftsHalf(i, a, b)
                 \/ i.operation = "Div" /\ Overflows(a, b, n)
  <1>1. i.operation \in Operations  BY OperationsByKind
  <1>2. CASE i.operation \in Conditions
    <2>1. X64(i, a, b) = Says(i, a, b)  BY <1>2, X64ByOperation, SkipsComputes
    <2> QED  BY <1>2, <2>1, SaysType DEF Conditions
  <1>3. CASE i.rd = Zero /\ i.operation \notin Conditions
    <2>1. X64(i, a, b) = 0 /\ 0 \in Word  BY <1>3, X64ByOperation, WordIsSmall
    <2> QED  BY <1>3, <2>1
  <1>4. CASE i.rd # Zero /\ i.operation \notin Conditions
    <2>1. CASE i.operation \in {"Add", "Sub"} \union Logic \union Shifts
      BY <1>4, <2>1, X64ByOperation, X64BinaryComputes
    <2>2. CASE i.operation \in Divisions
      BY <1>4, <2>2, X64ByOperation, X64DivideComputes
    <2>3. CASE i.operation = "Mul"
      <3>1. X64Multiply(i, a, b) = Extend(Processor(i.operation, n, a, b), n)
        BY <2>3 DEF X64Multiply, Executed
      <3>2. X64(i, a, b) = Says(i, a, b)  BY <1>4, <2>3, <3>1, X64ByOperation, ProcessorComputes
      <3> QED  BY <2>3, <3>2, SaysType
    <2>4. CASE i.operation \in Comparisons
      <3>1. X64(i, a, b) = X64Compare(i, a, b)  BY <1>4, <2>4, X64ByOperation
      <3>2. Says(i, a, b) \in Word  BY <2>4, SaysType DEF Comparisons
      <3> QED  BY <2>4, <3>1, <3>2, X64CompareComputes
    <2>5. CASE i.operation \in Upper \union Links \union Loads
      <3>1. i.imm \in Word /\ i.pc \in Int  BY ExecutedType
      <3>2. i.pc + 4 \in Int  BY <3>1
      <3>3. Low(i.pc + i.imm, Width) \in Word /\ Low(i.pc + 4, Width) \in Word
        BY <3>2, OffsetIs, ExtendWidth
      <3>4. X64Offset(i, a) = Low(a + i.imm, Width)  BY OffsetIs DEF X64Offset
      <3>5. CASE i.operation \in Upper
        BY <1>4, <3>1, <3>3, <3>5, X64ByOperation, X64ImmediateIs, SaysOfMoves DEF Upper
      <3>6. CASE i.operation \in Links
        BY <1>4, <3>3, <3>6, X64ByOperation, X64ImmediateIs, SaysOfMoves
      <3>7. CASE i.operation \in Loads
        <4>1. X64(i, a, b) = Says(i, a, b)  BY <1>4, <3>4, <3>7, X64ByOperation, SaysOfMoves
        <4> QED  BY <3>7, <4>1, SaysType DEF Loads
      <3> QED  BY <2>5, <3>5, <3>6, <3>7
    <2> QED
      BY <1>1, <1>4, <2>1, <2>2, <2>3, <2>4, <2>5
         DEF Operations, WithImmediate, OnlyImmediate, OfHalves
  <1> QED  BY <1>2, <1>3, <1>4

LEMMA X64TargetIs ==
    ASSUME NEW i, NEW a, NEW b, NEW n, Executed(i, a, b, n), i.operation \in Links
    PROVE  X64Target(i, a) = Target(i.operation, i.pc, a, b)
  BY OffsetIs DEF X64Target, X64Offset

-----------------------------------------------------------------------------
\* The registers are words at any time, and x0 is zero.
AluInv ==
    /\ instruction \in Instructions /\ Decoded(instruction)
    /\ registers \in [Registers -> Word] /\ registers[Zero] = 0

LEMMA OperandsAreExecuted ==
    ASSUME AluInv
    PROVE  Executed(instruction, A, B, N)
  <1>1. /\ instruction.rs1 \in Registers /\ instruction.rs2 \in Registers
        /\ instruction.imm \in Word
    BY InstructionType DEF AluInv
  <1> QED  BY <1>1 DEF AluInv, Executed, A, B, N, First, Second

LEMMA ExecuteKeepsWords ==
    ASSUME AluInv, NEW who, NEW outcomes, NEW jump, Execute(who, outcomes, jump),
           \A outcome \in outcomes : outcome \in Word \union {Crash}
    PROVE  AluInv'
  <1>1. UNCHANGED instruction  BY DEF Execute
  <1>2. instruction'.rd = instruction.rd /\ instruction.rd \in Registers
    BY <1>1, InstructionType DEF AluInv
  <1>3. 0 \in Word /\ Zero \in Registers  BY WordIsSmall, RegistersAssumption
  <1>4. PICK outcome \in outcomes :
           IF outcome = Crash THEN UNCHANGED registers ELSE Set(instruction.rd, outcome)
    BY DEF Execute
  <1>5. registers' \in [Registers -> Word] /\ registers'[Zero] = 0
    BY <1>2, <1>3, <1>4 DEF AluInv, Set
  <1>6. (instruction \in Instructions /\ Decoded(instruction))'
    BY <1>1 DEF AluInv, Instructions, Decoded
  <1> QED  BY <1>5, <1>6 DEF AluInv

LEMMA AluInvariant == Spec => []AluInv
  <1>1. Init => AluInv  BY DEF Init, AluInv
  <1>2. AluInv /\ [Next]_vars => AluInv'
    <2> SUFFICES ASSUME AluInv, [Next]_vars PROVE AluInv'
      OBVIOUS
    <2> USE OperandsAreExecuted
    <2>1. CASE Interpret
      <3>1. \A outcome \in Interpreted(instruction, A, B) : outcome \in Word \union {Crash}
        BY InterpretedComputes
      <3> QED  BY <2>1, <3>1, ExecuteKeepsWords DEF Interpret, A, B
    <2>2. CASE RunAArch64
      <3>1. AArch64(instruction, A, B) \in Word  BY AArch64Computes
      <3> QED  BY <2>2, <3>1, ExecuteKeepsWords DEF RunAArch64, A, B
    <2>3. CASE RunX64
      <3>1. X64(instruction, A, B) \in Word \union {Crash}  BY X64Computes
      <3> QED  BY <2>3, <3>1, ExecuteKeepsWords DEF RunX64, A, B
    <2>4. CASE UNCHANGED <<registers, instruction>>
      BY <2>4 DEF AluInv, Decoded, Instructions
    <2> QED  BY <2>1, <2>2, <2>3, <2>4 DEF Next, GiveUpAArch64, Finished, vars
  <1> QED  BY <1>1, <1>2, PTL DEF Spec

\* What is right for an outcome that is what the instruction set says.
LEMMA RightByOutcome ==
    ASSUME AluInv, NEW outcome, NEW jump,
           Set(instruction.rd, outcome),
           taken' = (Operation \in Conditions /\ outcome = 1),
           target' = IF Operation \in Links THEN jump ELSE 0,
           Operation \in Links => jump \div 2 = ShouldGoTo \div 2,
           outcome = Says(instruction, A, B) \/ (instruction.rd = Zero /\ Operation \notin Conditions)
    PROVE  Right
  <1>1. Should = Says(instruction, A, B)  BY DEF Should, Says, Operation
  <1>2. Operation \in Links => target' \div 2 = ShouldGoTo \div 2  OBVIOUS
  <1>3. CASE Operation \in Conditions
    <2>1. instruction.rd = Zero
      BY <1>3, OperandsAreExecuted, OperationsByKind DEF Operation
    <2>2. registers' = [registers EXCEPT ![Zero] = 0]  BY <2>1 DEF Set
    <2>3. registers' = registers  BY <2>2 DEF AluInv
    <2> QED  BY <1>1, <1>2, <1>3, <2>3 DEF Right
  <1>4. CASE Operation \notin Conditions
    <2>1. Set(instruction.rd, Should)  BY <1>1, <1>4 DEF Set
    <2> QED  BY <1>2, <1>4, <2>1 DEF Right
  <1> QED  BY <1>3, <1>4

LEMMA DoneByOutcome ==
    ASSUME NEW who, NEW outcomes, NEW jump, Execute(who, outcomes, jump), at' = "done"
    PROVE  \E outcome \in outcomes :
              /\ outcome # Crash /\ Set(instruction.rd, outcome)
              /\ taken' = (Operation \in Conditions /\ outcome = 1)
              /\ target' = IF Operation \in Links THEN jump ELSE 0
  <1>1. "stopped" # "done"  OBVIOUS
  <1> QED  BY <1>1 DEF Execute, Operation

LEMMA StoppedByOutcome ==
    ASSUME NEW who, NEW outcomes, NEW jump, Execute(who, outcomes, jump), at' = "stopped"
    PROVE  Crash \in outcomes
  <1>1. "stopped" # "done"  OBVIOUS
  <1> QED  BY <1>1 DEF Execute

(***************************************************************************)
(* AArch64: generate_instruction computes what the instruction set says,   *)
(* for every width, every contents of the registers and every immediate,   *)
(* but for quotients of divisions by zero.                                 *)
(***************************************************************************)
THEOREM AArch64Correct == Spec => AArch64IsRight
  <1>1. AluInv /\ [Next]_vars =>
          [Done("aarch64") => Right \/ (Operation \in {"Div", "Divu"} /\ DividesByZero)]_vars
    <2> SUFFICES ASSUME AluInv, Next, Done("aarch64"), vars' # vars,
                        ~(Operation \in {"Div", "Divu"} /\ DividesByZero)
                 PROVE  Right
      OBVIOUS
    <2>1. RunAArch64
      BY DEF Next, Interpret, GiveUpAArch64, RunX64, Finished, Execute, Done
    <2>2. Executed(instruction, A, B, N)  BY OperandsAreExecuted
    <2>3. AArch64(instruction, A, B) = Says(instruction, A, B)
      BY <2>2, AArch64Computes DEF Operation, DividesByZero, Divisions, SignedDivisions
    <2>4. Operation \in Links => AArch64Target(instruction, A) = ShouldGoTo
      BY <2>2, AArch64Computes DEF Operation, ShouldGoTo
    <2>5. /\ Set(instruction.rd, AArch64(instruction, A, B))
          /\ taken' = (Operation \in Conditions /\ AArch64(instruction, A, B) = 1)
          /\ target' = IF Operation \in Links THEN AArch64Target(instruction, A) ELSE 0
      BY <2>1, DoneByOutcome DEF RunAArch64, Done, A, B
    <2> QED  BY <2>3, <2>4, <2>5, RightByOutcome
  <1> QED  BY <1>1, AluInvariant, PTL DEF Spec, AArch64IsRight

(***************************************************************************)
(* Interpreter::step computes what the instruction set says for all that   *)
(* it finishes, for every width, but for the arithmetic shifts of whole    *)
(* registers, mulw, and quotients of divisions by zero.                    *)
(***************************************************************************)
THEOREM InterpreterCorrect == Spec => InterpreterIsRight
  <1>1. AluInv /\ [Next]_vars =>
          [Done("interpreter") =>
             \/ Right
             \/ Operation = "Sra" /\ ~instruction.half
             \/ Operation = "Mul" /\ instruction.half
             \/ Operation \in {"Div", "Divu"} /\ DividesByZero]_vars
    <2> SUFFICES ASSUME AluInv, Next, Done("interpreter"), vars' # vars,
                        ~(Operation = "Sra" /\ ~instruction.half),
                        ~(Operation = "Mul" /\ instruction.half),
                        ~(Operation \in {"Div", "Divu"} /\ DividesByZero)
                 PROVE  Right
      OBVIOUS
    <2>1. Interpret
      BY DEF Next, RunAArch64, GiveUpAArch64, RunX64, Finished, Execute, Done
    <2>2. Executed(instruction, A, B, N)  BY OperandsAreExecuted
    <2>3. PICK outcome \in Interpreted(instruction, A, B) :
             /\ outcome # Crash /\ Set(instruction.rd, outcome)
             /\ taken' = (Operation \in Conditions /\ outcome = 1)
             /\ target' = IF Operation \in Links THEN InterpretedTarget(instruction, A) ELSE 0
      BY <2>1, DoneByOutcome DEF Interpret, Done, A, B
    <2>4. outcome = Says(instruction, A, B)
      BY <2>2, <2>3, InterpretedComputes
         DEF Operation, DividesByZero, Divisions, SignedDivisions
    <2>5. Operation \in Links =>
            InterpretedTarget(instruction, A) \div 2 = ShouldGoTo \div 2
      BY <2>2, InterpretedTargetIs DEF Operation, ShouldGoTo
    <2> QED  BY <2>3, <2>4, <2>5, RightByOutcome
  <1> QED  BY <1>1, AluInvariant, PTL DEF Spec, InterpreterIsRight

(***************************************************************************)
(* x64: generate_instruction computes what the instruction set says, for   *)
(* every width, but for operations in place on two registers, shifts of    *)
(* halves whose operands are not as the shift needs them, and the quotient *)
(* that overflows.                                                         *)
(***************************************************************************)
THEOREM X64Correct == Spec => X64IsRight
  <1>1. AluInv /\ [Next]_vars =>
          [Done("x64") =>
             \/ Right
             \/ InPlace(instruction) /\ ~instruction.immediate
             \/ /\ Operation \in Shifts /\ instruction.half
                /\ \/ B % Width >= HalfWidth
                   \/ Operation = "Srl" /\ A # Low(A, HalfWidth)
                   \/ Operation = "Sra" /\ ~Extended(A)
             \/ Operation = "Div" /\ SignedOverflow]_vars
    <2> SUFFICES ASSUME AluInv, Next, Done("x64"), vars' # vars,
                        ~(InPlace(instruction) /\ ~instruction.immediate),
                        Operation \in Shifts /\ instruction.half =>
                          /\ ~(B % Width >= HalfWidth)
                          /\ Operation = "Srl" => A = Low(A, HalfWidth)
                          /\ Operation = "Sra" => Extended(A),
                        ~(Operation = "Div" /\ SignedOverflow)
                 PROVE  Right
      OBVIOUS
    <2>1. RunX64
      BY DEF Next, Interpret, RunAArch64, GiveUpAArch64, Finished, Execute, Done
    <2>2. Executed(instruction, A, B, N)  BY OperandsAreExecuted
    <2>3. /\ X64(instruction, A, B) # Crash
          /\ Set(instruction.rd, X64(instruction, A, B))
          /\ taken' = (Operation \in Conditions /\ X64(instruction, A, B) = 1)
          /\ target' = IF Operation \in Links THEN X64Target(instruction, A) ELSE 0
      BY <2>1, DoneByOutcome DEF RunX64, Done, A, B
    <2>4. Operation \in Shifts /\ instruction.half => ShiftsHalf(instruction, A, B)
      <3> SUFFICES ASSUME Operation \in Shifts, instruction.half
                   PROVE  ShiftsHalf(instruction, A, B)
        OBVIOUS
      <3>1. N = HalfWidth  BY <2>2, ExecutedType
      <3>2. B \in Int /\ Width \in Nat \ {0} /\ HalfWidth \in Nat
        BY <2>2, ExecutedType, Widths
      <3>3. B % Width < HalfWidth  BY <3>2, SMT
      <3> QED  BY <3>1, <3>3 DEF ShiftsHalf, Extended, Operation
    <2>5. Operation = "Div" => ~Overflows(A, B, N)
      BY DEF SignedOverflow, SignedDivisions
    <2>6. \/ X64(instruction, A, B) = Says(instruction, A, B)
          \/ instruction.rd = Zero /\ Operation \notin Conditions
      BY <2>2, <2>3, <2>4, <2>5, X64Computes DEF Operation
    <2>7. Operation \in Links => X64Target(instruction, A) = ShouldGoTo
      BY <2>2, X64TargetIs DEF Operation, ShouldGoTo
    <2> QED  BY <2>3, <2>6, <2>7, RightByOutcome
  <1> QED  BY <1>1, AluInvariant, PTL DEF Spec, X64IsRight

(***************************************************************************)
(* Only divisions end the process, the interpreter's mulw being one, and   *)
(* comparisons with an immediate that x64 verifies; never code for AArch64.*)
(***************************************************************************)
THEOREM StopsCorrect == Spec => StopsAreDivisions
  <1>1. AluInv /\ [Next]_vars =>
          [at' = "stopped" =>
             \/ /\ by' = "interpreter"
                /\ \/ DividesByZero \/ SignedOverflow
                   \/ Operation = "Mul" /\ instruction.half /\ Low(B, N) = 0
             \/ /\ by' = "x64"
                /\ \/ DividesByZero
                   \/ Operation \in Comparisons /\ instruction.rs1 = Zero
                   \/ SignedOverflow /\ ~(Extended(A) /\ Extended(B))]_vars
    <2> SUFFICES ASSUME AluInv, Next, at' = "stopped", vars' # vars
                 PROVE  \/ /\ by' = "interpreter"
                           /\ \/ DividesByZero \/ SignedOverflow
                              \/ Operation = "Mul" /\ instruction.half /\ Low(B, N) = 0
                        \/ /\ by' = "x64"
                           /\ \/ DividesByZero
                              \/ Operation \in Comparisons /\ instruction.rs1 = Zero
                              \/ SignedOverflow /\ ~(Extended(A) /\ Extended(B))
      OBVIOUS
    <2>1. Executed(instruction, A, B, N)  BY OperandsAreExecuted
    <2>2. CASE Interpret
      <3>1. Crash \in Interpreted(instruction, A, B) /\ by' = "interpreter"
        BY <2>2, StoppedByOutcome DEF Interpret, Execute, A, B
      <3> QED
        BY <2>1, <3>1, InterpretedComputes, CrashAssumption
           DEF DividesByZero, SignedOverflow, Operation
    <2>3. CASE RunAArch64
      <3>1. AArch64(instruction, A, B) = Crash
        BY <2>3, StoppedByOutcome DEF RunAArch64, A, B
      <3> QED  BY <2>1, <3>1, AArch64Computes, CrashAssumption
    <2>4. CASE RunX64
      <3>1. X64(instruction, A, B) = Crash /\ by' = "x64"
        BY <2>4, StoppedByOutcome DEF RunX64, Execute, A, B
      <3> QED
        BY <2>1, <3>1, X64Computes, CrashAssumption
           DEF DividesByZero, SignedOverflow, Operation, Extended
    <2> QED  BY <2>2, <2>3, <2>4 DEF Next, GiveUpAArch64, Finished
  <1> QED  BY <1>1, AluInvariant, PTL DEF Spec, StopsAreDivisions

(***************************************************************************)
(* Whoever executes an instruction, registers stay words of their width and*)
(* x0 stays zero.                                                          *)
(***************************************************************************)
THEOREM RegistersStayWords ==
    Spec => [](registers \in [Registers -> Word] /\ registers[Zero] = 0)
  <1>1. AluInv => registers \in [Registers -> Word] /\ registers[Zero] = 0
    BY DEF AluInv
  <1> QED  BY <1>1, AluInvariant, PTL
=============================================================================
