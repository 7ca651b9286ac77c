-------------------------- MODULE BitUnits_proofs --------------------------
(***************************************************************************)
(* Bits stored in units are strings of bits.                               *)
(***************************************************************************)
EXTENDS BitUnits, SequenceTheorems, Induction_lemmas

(* The bit number i of a storage, counted through its units.                *)
At(s, i) == s[i \div UnitSize][i % UnitSize]

(* Units enough for n bits.                                                *)
StorageOf(n) == [0 .. StorageSize(n) - 1 -> Units]

---------------------------------------------------------------------------
(* Division by the size of a unit.                                         *)

LEMMA DivMod ==
    ASSUME NEW i \in Nat
    PROVE  /\ i \div UnitSize \in Nat /\ i % UnitSize \in Positions
           /\ i = (i \div UnitSize) * UnitSize + (i % UnitSize)
  BY UnitAssumption DEF Positions

LEMMA Product ==
    ASSUME NEW u \in Nat
    PROVE  /\ u * UnitSize \in Nat
           /\ (u + 1) * UnitSize = u * UnitSize + UnitSize
  BY UnitAssumption

LEMMA ProductGrows ==
    ASSUME NEW u \in Nat, NEW v \in Nat, u < v
    PROVE  u * UnitSize + UnitSize <= v * UnitSize
<1> DEFINE d == v - (u + 1)
<1>1. d \in Nat /\ v = (u + 1) + d
  OBVIOUS
<1>2. v * UnitSize = (u + 1) * UnitSize + d * UnitSize /\ d * UnitSize \in Nat
  BY <1>1, UnitAssumption
<1>3. QED
  BY <1>2, Product, UnitAssumption

LEMMA DivModUnique ==
    ASSUME NEW u \in Nat, NEW p \in Positions
    PROVE  /\ u * UnitSize + p \in Nat
           /\ (u * UnitSize + p) \div UnitSize = u
           /\ (u * UnitSize + p) % UnitSize = p
<1> DEFINE i == u * UnitSize + p
           v == i \div UnitSize
           q == i % UnitSize
<1>1. u * UnitSize \in Nat /\ p \in Nat /\ p < UnitSize /\ i \in Nat
  BY Product, UnitAssumption DEF Positions
<1>2. v \in Nat /\ q \in Nat /\ q < UnitSize /\ i = v * UnitSize + q /\ v * UnitSize \in Nat
  BY <1>1, DivMod, Product, UnitAssumption DEF Positions
<1> HIDE DEF v, q
<1>3. ~(u < v) /\ ~(v < u)
  BY <1>1, <1>2, ProductGrows, UnitAssumption
<1>4. u = v
  BY <1>2, <1>3
<1>5. q = p
  BY <1>1, <1>2, <1>4
<1>6. QED
  BY <1>1, <1>4, <1>5 DEF v, q

(* Where the bits near a bit are: in its unit, or in the next one.         *)
LEMMA Near ==
    ASSUME NEW idx \in Nat, NEW j \in Nat
    PROVE  /\ idx \div UnitSize \in Nat /\ (idx \div UnitSize) + 1 \in Nat
           /\ idx % UnitSize \in Nat /\ idx % UnitSize < UnitSize
           /\ (idx % UnitSize) + j < UnitSize =>
                /\ (idx + j) \div UnitSize = idx \div UnitSize
                /\ (idx + j) % UnitSize = (idx % UnitSize) + j
           /\ (idx % UnitSize) + j >= UnitSize /\ (idx % UnitSize) + j < UnitSize + UnitSize =>
                /\ (idx + j) \div UnitSize = (idx \div UnitSize) + 1
                /\ (idx + j) % UnitSize = (idx % UnitSize) + j - UnitSize
<1> DEFINE u == idx \div UnitSize
           p == idx % UnitSize
<1>1. u \in Nat /\ p \in Nat /\ p < UnitSize /\ idx = u * UnitSize + p /\ u * UnitSize \in Nat
      /\ (u + 1) * UnitSize = u * UnitSize + UnitSize /\ u + 1 \in Nat
  BY DivMod, Product, UnitAssumption DEF Positions
<1> HIDE DEF u, p
<1>2. ASSUME p + j < UnitSize
      PROVE  (idx + j) \div UnitSize = u /\ (idx + j) % UnitSize = p + j
  <2>1. p + j \in Positions /\ idx + j = u * UnitSize + (p + j)
    BY <1>1, <1>2, UnitAssumption DEF Positions
  <2>2. QED
    BY <1>1, <2>1, DivModUnique
<1>3. ASSUME p + j >= UnitSize, p + j < UnitSize + UnitSize
      PROVE  (idx + j) \div UnitSize = u + 1 /\ (idx + j) % UnitSize = p + j - UnitSize
  <2>1. p + j - UnitSize \in Positions /\ idx + j = (u + 1) * UnitSize + (p + j - UnitSize)
    BY <1>1, <1>3, UnitAssumption DEF Positions
  <2>2. QED
    BY <1>1, <2>1, DivModUnique
<1>4. QED
  BY <1>1, <1>2, <1>3 DEF u, p

(* The units hold the bits, and fewer than a unit more.                    *)
LEMMA StorageHolds ==
    ASSUME NEW n \in Nat
    PROVE  /\ StorageSize(n) \in Nat
           /\ \A i \in Nat : i < n => i \div UnitSize \in 0 .. StorageSize(n) - 1
           /\ \A u \in 0 .. StorageSize(n) - 1 : u * UnitSize \in Nat /\ u * UnitSize < n
           /\ n = 0 => StorageSize(n) = 0
           /\ StorageSize(n) * UnitSize \in Nat /\ n <= StorageSize(n) * UnitSize
<1> DEFINE k == StorageSize(n)
           r == (n + UnitSize - 1) % UnitSize
<1>1. n + UnitSize - 1 \in Nat
  BY UnitAssumption
<1>2. k \in Nat /\ r \in Nat /\ r < UnitSize /\ n + UnitSize - 1 = k * UnitSize + r /\ k * UnitSize \in Nat
  BY <1>1, DivMod, Product, UnitAssumption DEF Positions, StorageSize
<1> HIDE DEF k, r
<1>3. ASSUME NEW i \in Nat, i < n PROVE i \div UnitSize \in 0 .. k - 1
  <2> DEFINE u == i \div UnitSize
             p == i % UnitSize
  <2>1. u \in Nat /\ p \in Nat /\ i = u * UnitSize + p /\ u * UnitSize \in Nat
    BY DivMod, Product DEF Positions
  <2> HIDE DEF u, p
  <2>2. u * UnitSize < k * UnitSize
    BY <1>2, <1>3, <2>1, UnitAssumption
  <2>3. ~(k < u) /\ k # u
    BY <1>2, <2>1, <2>2, ProductGrows, UnitAssumption
  <2>4. QED
    BY <1>2, <2>1, <2>3 DEF u
<1>4. ASSUME NEW u \in 0 .. k - 1 PROVE u * UnitSize \in Nat /\ u * UnitSize < n
  <2>1. u \in Nat /\ u < k /\ u * UnitSize \in Nat
    BY <1>2, Product
  <2>2. u * UnitSize + UnitSize <= k * UnitSize
    BY <1>2, <2>1, ProductGrows
  <2>3. QED
    BY <1>2, <2>1, <2>2, UnitAssumption
<1>5. ASSUME n = 0 PROVE k = 0
  <2>1. ~(0 < k)
    BY <1>2, <1>5, <1>4
  <2>2. QED
    BY <1>2, <2>1
<1>6. n <= k * UnitSize
  BY <1>2, UnitAssumption
<1>7. QED
  BY <1>2, <1>3, <1>4, <1>5, <1>6, Zenon DEF k

---------------------------------------------------------------------------
(* Units, position by position.                                            *)

LEMMA UnitOps ==
    ASSUME NEW u \in Units, NEW v \in Units, NEW p \in Positions
    PROVE  /\ And(u, v) \in Units /\ Or(u, v) \in Units /\ Xor(u, v) \in Units /\ Not(u) \in Units
           /\ And(u, v)[p] = IF u[p] = 1 /\ v[p] = 1 THEN 1 ELSE 0
           /\ Or(u, v)[p] = IF u[p] = 1 \/ v[p] = 1 THEN 1 ELSE 0
           /\ Xor(u, v)[p] = IF u[p] = v[p] THEN 0 ELSE 1
           /\ Not(u)[p] = 1 - u[p]
           /\ u[p] \in {0, 1}
  BY DEF Units, And, Or, Xor, Not

LEMMA Shifts ==
    ASSUME NEW u \in Units, NEW k \in Nat, NEW p \in Positions
    PROVE  /\ ShiftLeft(u, k) \in Units /\ ShiftRight(u, k) \in Units
           /\ ShiftLeft(u, k)[p] = IF p + k < UnitSize THEN u[p + k] ELSE 0
           /\ ShiftRight(u, k)[p] = IF p >= k THEN u[p - k] ELSE 0
<1>1. \A i \in Positions : (i + k < UnitSize => i + k \in Positions) /\ (i >= k => i - k \in Positions)
  BY UnitAssumption DEF Positions
<1>2. \A i \in Positions : (IF i + k < UnitSize THEN u[i + k] ELSE 0) \in {0, 1}
  BY <1>1 DEF Units
<1>3. \A i \in Positions : (IF i >= k THEN u[i - k] ELSE 0) \in {0, 1}
  BY <1>1 DEF Units
<1>4. QED
  BY <1>2, <1>3 DEF Units, ShiftLeft, ShiftRight

LEMMA Masks ==
    ASSUME NEW n \in Int, NEW shift \in Int, NEW p \in Positions
    PROVE  /\ Mask(n, shift) \in Units /\ Zero \in Units /\ Zero[p] = 0
           /\ Mask(n, shift)[p] = IF UnitSize - shift - n <= p /\ p < UnitSize - shift THEN 1 ELSE 0
  BY DEF Mask, Units, Zero

(* The bits that a storage of another length, or none, has in common.       *)
LEMMA AtIsBit ==
    ASSUME NEW n \in Nat, NEW s \in StorageOf(n), NEW i \in Nat, i < n
    PROVE  At(s, i) \in {0, 1}
  BY StorageHolds, DivMod DEF At, StorageOf, Units

(* A unit that is read has the bits at the right, and zeros before them.    *)
LEMMA ReadUnitIs ==
    ASSUME NEW n \in Nat, NEW s \in StorageOf(n), NEW u \in 0 .. StorageSize(n) - 1,
           NEW off \in Nat, NEW k \in Nat, off + k <= UnitSize
    PROVE  /\ ReadUnit(s, u, off, k) \in Units
           /\ \A p \in Positions :
                ReadUnit(s, u, off, k)[p] = IF p >= UnitSize - k THEN s[u][off + p - (UnitSize - k)] ELSE 0
<1>1. s[u] \in Units
  BY DEF StorageOf
<1>2. CASE k = 0
  <2>1. \A p \in Positions : ~(p >= UnitSize - k)
    BY <1>2, UnitAssumption DEF Positions
  <2>2. ReadUnit(s, u, off, k) = Zero /\ Zero \in Units /\ \A p \in Positions : Zero[p] = 0
    BY <1>2 DEF ReadUnit, Zero, Units
  <2>3. QED
    BY <2>1, <2>2
<1>3. CASE k # 0
  <2> DEFINE w == UnitSize - (off + k)
             t == ShiftRight(s[u], w)
  <2>1. w \in Nat
    BY UnitAssumption
  <2>2. t \in Units /\ \A p \in Positions : t[p] = IF p >= w THEN s[u][p - w] ELSE 0
    <3> HIDE DEF w
    <3>1. 0 \in Positions
      BY UnitAssumption DEF Positions
    <3>2. QED
      BY <1>1, <2>1, <3>1, Shifts
  <2>3. Mask(k, 0) \in Units /\ \A p \in Positions : Mask(k, 0)[p] = IF UnitSize - k <= p THEN 1 ELSE 0
    <3>1. \A p \in Positions : (UnitSize - 0 - k <= p /\ p < UnitSize - 0) <=> UnitSize - k <= p
      BY UnitAssumption DEF Positions
    <3>2. \A p \in Positions : Mask(k, 0)[p] = IF UnitSize - k <= p THEN 1 ELSE 0
      BY <3>1 DEF Mask
    <3>3. Mask(k, 0) \in Units
      BY DEF Mask, Units
    <3>4. QED
      BY <3>2, <3>3
  <2>4. ReadUnit(s, u, off, k) = And(t, Mask(k, 0))
    BY <1>3 DEF ReadUnit
  <2>5. \A p \in Positions : p >= UnitSize - k => p >= w /\ p - w = off + p - (UnitSize - k)
    BY UnitAssumption DEF Positions
  <2> HIDE DEF t, w
  <2>6. ASSUME NEW p \in Positions
        PROVE  ReadUnit(s, u, off, k)[p] = IF p >= UnitSize - k THEN s[u][off + p - (UnitSize - k)] ELSE 0
    <3>1. And(t, Mask(k, 0))[p] = IF t[p] = 1 /\ Mask(k, 0)[p] = 1 THEN 1 ELSE 0
      BY <2>2, <2>3, UnitOps
    <3>2. t[p] \in {0, 1}
      BY <2>2 DEF Units
    <3>3. CASE p >= UnitSize - k
      <4>1. t[p] = s[u][off + p - (UnitSize - k)]
        BY <2>2, <2>5, <3>3
      <4>2. Mask(k, 0)[p] = 1
        BY <2>3, <3>3
      <4>3. QED
        BY <2>4, <3>1, <3>2, <3>3, <4>1, <4>2
    <3>4. CASE ~(p >= UnitSize - k)
      <4>1. Mask(k, 0)[p] = 0
        BY <2>3, <3>4, UnitAssumption DEF Positions
      <4>2. QED
        BY <2>4, <3>1, <3>4, <4>1
    <3>5. QED
      BY <3>3, <3>4
  <2>7. ReadUnit(s, u, off, k) \in Units
    <3>1. 0 \in Positions
      BY UnitAssumption DEF Positions
    <3>2. QED
      BY <2>2, <2>3, <2>4, <3>1, UnitOps
  <2>8. QED
    BY <2>6, <2>7
<1>4. QED
  BY <1>2, <1>3

(* The bits that a storage has room for.                                   *)
Cells(n) == {i \in Nat : i \div UnitSize \in 0 .. StorageSize(n) - 1}

LEMMA Distance ==
    ASSUME NEW i \in Nat, NEW idx \in Nat
    PROVE  /\ i \div UnitSize \in Nat /\ i % UnitSize \in Nat /\ i % UnitSize < UnitSize
           /\ idx \div UnitSize \in Nat /\ idx % UnitSize \in Nat /\ idx % UnitSize < UnitSize
           /\ i \div UnitSize = idx \div UnitSize => i - idx = (i % UnitSize) - (idx % UnitSize)
           /\ i \div UnitSize = (idx \div UnitSize) + 1 =>
                i - idx = UnitSize + (i % UnitSize) - (idx % UnitSize)
           /\ idx <= i /\ i < idx + UnitSize =>
                i \div UnitSize \in {idx \div UnitSize, (idx \div UnitSize) + 1}
<1> DEFINE u == idx \div UnitSize
           p == idx % UnitSize
           v == i \div UnitSize
           q == i % UnitSize
<1>1. /\ u \in Nat /\ p \in Nat /\ p < UnitSize /\ idx = u * UnitSize + p /\ u * UnitSize \in Nat
      /\ (u + 1) * UnitSize = u * UnitSize + UnitSize
      /\ v \in Nat /\ q \in Nat /\ q < UnitSize /\ i = v * UnitSize + q /\ v * UnitSize \in Nat
  BY DivMod, Product, UnitAssumption DEF Positions
<1>2. ASSUME idx <= i, i < idx + UnitSize
      PROVE  v \in {u, u + 1}
  <2> DEFINE j == i - idx
  <2>1. j \in Nat /\ idx + j = i /\ p + j < UnitSize + UnitSize /\ p + j \in Nat
    BY <1>1, <1>2, UnitAssumption
  <2>2. v = (idx + j) \div UnitSize
    BY <2>1
  <2> HIDE DEF j
  <2>3. \/ p + j < UnitSize
        \/ p + j >= UnitSize /\ p + j < UnitSize + UnitSize
    BY <2>1, UnitAssumption
  <2>4. QED
    BY <2>1, <2>2, <2>3, Near
<1> HIDE DEF u, p, v, q
<1>3. v = u => i - idx = q - p
  BY <1>1
<1>4. v = u + 1 => i - idx = UnitSize + q - p
  BY <1>1, UnitAssumption
<1>5. QED
  BY <1>1, <1>2, <1>3, <1>4 DEF u, p, v, q

(* What is read: the bits of the range, at the right of a unit.             *)
LEMMA ReadIs ==
    ASSUME NEW n \in Nat, NEW s \in StorageOf(n), NEW idx \in Nat, NEW k \in 1 .. UnitSize,
           idx + k <= n
    PROVE  /\ Read(s, idx, k) \in Units
           /\ \A p \in Positions :
                Read(s, idx, k)[p] = IF p >= UnitSize - k THEN At(s, idx + (p - (UnitSize - k))) ELSE 0
<1> DEFINE u   == idx \div UnitSize
           off == idx % UnitSize
           n1  == UnitSize - off
           n2  == k - n1
<1>1. u \in Nat /\ off \in Nat /\ off < UnitSize /\ k \in Nat /\ k > 0 /\ k <= UnitSize
  BY DivMod, UnitAssumption DEF Positions
<1>2. u \in 0 .. StorageSize(n) - 1
  BY <1>1, StorageHolds
<1>3. \A j \in Nat : /\ off + j < UnitSize => At(s, idx + j) = s[u][off + j]
                     /\ off + j >= UnitSize /\ off + j < UnitSize + UnitSize =>
                          At(s, idx + j) = s[u + 1][off + j - UnitSize]
  BY Near DEF At
<1>4. Read(s, idx, k) = IF off + k <= UnitSize THEN ReadUnit(s, u, off, k)
                        ELSE Or(ShiftLeft(ReadUnit(s, u, off, n1), n2), ReadUnit(s, u + 1, 0, n2))
  BY DEF Read
<1>5. CASE off + k <= UnitSize
  <2> HIDE DEF u, off
  <2>1. /\ ReadUnit(s, u, off, k) \in Units
        /\ \A p \in Positions :
             ReadUnit(s, u, off, k)[p] = IF p >= UnitSize - k THEN s[u][off + p - (UnitSize - k)] ELSE 0
    BY <1>1, <1>2, <1>5, ReadUnitIs
  <2>2. ASSUME NEW p \in Positions, p >= UnitSize - k
        PROVE  At(s, idx + (p - (UnitSize - k))) = s[u][off + p - (UnitSize - k)]
    <3> DEFINE j == p - (UnitSize - k)
    <3>1. j \in Nat /\ off + j < UnitSize /\ off + j = off + p - (UnitSize - k)
      BY <1>1, <1>5, <2>2, UnitAssumption DEF Positions
    <3> HIDE DEF j
    <3>2. At(s, idx + j) = s[u][off + j]
      BY <1>3, <3>1
    <3>3. QED
      BY <3>1, <3>2 DEF j
  <2>3. QED
    BY <1>4, <1>5, <2>1, <2>2
<1>6. CASE ~(off + k <= UnitSize)
  <2>1. n1 \in Nat /\ n2 \in Nat /\ n2 > 0 /\ n1 + n2 = k /\ off + n1 = UnitSize /\ n2 <= off
    BY <1>1, <1>6, UnitAssumption
  <2>2. u + 1 \in 0 .. StorageSize(n) - 1
    <3>1. idx + n1 \in Nat /\ idx + n1 < n
      BY <2>1
    <3>2. (idx + n1) \div UnitSize = u + 1
      <4>1. n1 \in Nat /\ off + n1 >= UnitSize /\ off + n1 < UnitSize + UnitSize
        BY <2>1, UnitAssumption
      <4> HIDE DEF n1
      <4>2. QED
        BY <4>1, Near
    <3>3. QED
      BY <3>1, <3>2, StorageHolds
  <2> DEFINE r1 == ReadUnit(s, u, off, n1)
             r2 == ReadUnit(s, u + 1, 0, n2)
             t  == ShiftLeft(r1, n2)
  <2>3. /\ r1 \in Units
        /\ \A p \in Positions : r1[p] = IF p >= UnitSize - n1 THEN s[u][off + p - (UnitSize - n1)] ELSE 0
    <3> HIDE DEF u, off, n1, n2
    <3>1. off + n1 <= UnitSize /\ off \in Nat /\ n1 \in Nat
      BY <1>1, <2>1, UnitAssumption
    <3>2. ReadUnit(s, u, off, n1) \in Units
      BY <1>2, <3>1, ReadUnitIs
    <3>3. \A p \in Positions :
             ReadUnit(s, u, off, n1)[p] = IF p >= UnitSize - n1 THEN s[u][off + p - (UnitSize - n1)] ELSE 0
      BY <1>2, <3>1, ReadUnitIs
    <3>4. QED
      BY <3>2, <3>3
  <2>4. /\ r2 \in Units
        /\ \A p \in Positions : r2[p] = IF p >= UnitSize - n2 THEN s[u + 1][0 + p - (UnitSize - n2)] ELSE 0
    <3> HIDE DEF u, off, n1, n2
    <3>1. 0 \in Nat /\ 0 + n2 <= UnitSize
      BY <1>1, <2>1
    <3>2. QED
      BY <2>1, <2>2, <3>1, ReadUnitIs
  <2> HIDE DEF u, off, n1, n2, r1, r2
  <2>5. t \in Units /\ \A p \in Positions : t[p] = IF p + n2 < UnitSize THEN r1[p + n2] ELSE 0
    <3>1. 0 \in Positions
      BY UnitAssumption DEF Positions
    <3>2. QED
      BY <2>1, <2>3, <3>1, Shifts
  <2> HIDE DEF t
  <2>6. Read(s, idx, k) = Or(t, r2)
    BY <1>4, <1>6 DEF t, r1, r2
  <2>7. ASSUME NEW p \in Positions
        PROVE  Read(s, idx, k)[p] = IF p >= UnitSize - k THEN At(s, idx + (p - (UnitSize - k))) ELSE 0
    <3>0. t[p] \in {0, 1} /\ r2[p] \in {0, 1}
      BY <2>4, <2>5 DEF Units
    <3>1. Or(t, r2)[p] = (IF t[p] = 1 \/ r2[p] = 1 THEN 1 ELSE 0) /\ t[p] \in {0, 1} /\ r2[p] \in {0, 1}
      <4>1. Or(t, r2)[p] = (IF t[p] = 1 \/ r2[p] = 1 THEN 1 ELSE 0)
        BY DEF Or
      <4>2. QED
        BY <3>0, <4>1
    <3>2. p \in Nat /\ p < UnitSize
      BY UnitAssumption DEF Positions
    <3>3. CASE p < UnitSize - k
      <4>1. p + n2 < UnitSize /\ p + n2 \in Positions /\ ~(p + n2 >= UnitSize - n1) /\ ~(p >= UnitSize - n2)
            /\ ~(p >= UnitSize - k)
        BY <1>1, <2>1, <3>2, <3>3, UnitAssumption DEF Positions
      <4>2. t[p] = 0 /\ r2[p] = 0
        BY <2>3, <2>4, <2>5, <4>1
      <4>3. QED
        BY <2>6, <3>1, <4>1, <4>2
    <3>4. CASE UnitSize - k <= p /\ p < UnitSize - n2
      <4> DEFINE j == p - (UnitSize - k)
      <4>1. p + n2 < UnitSize /\ p + n2 \in Positions /\ p + n2 >= UnitSize - n1 /\ ~(p >= UnitSize - n2)
            /\ p >= UnitSize - k /\ j \in Nat /\ off + j < UnitSize
            /\ off + (p + n2) - (UnitSize - n1) = off + j
        BY <1>1, <2>1, <3>2, <3>4, UnitAssumption DEF Positions
      <4>2. t[p] = s[u][off + j] /\ r2[p] = 0
        BY <2>3, <2>4, <2>5, <4>1
      <4> HIDE DEF j
      <4>3. At(s, idx + j) = s[u][off + j]
        BY <1>3, <4>1
      <4>4. Or(t, r2)[p] = At(s, idx + j)
        BY <3>1, <4>2, <4>3
      <4>5. QED
        BY <2>6, <4>1, <4>4 DEF j
    <3>5. CASE UnitSize - n2 <= p
      <4> DEFINE j == p - (UnitSize - k)
      <4>1. ~(p + n2 < UnitSize) /\ p >= UnitSize - n2
            /\ p >= UnitSize - k /\ j \in Nat /\ off + j >= UnitSize /\ off + j < UnitSize + UnitSize
            /\ 0 + p - (UnitSize - n2) = off + j - UnitSize
        BY <1>1, <2>1, <3>2, <3>5, UnitAssumption
      <4>2. t[p] = 0 /\ r2[p] = s[u + 1][off + j - UnitSize]
        BY <2>4, <2>5, <4>1
      <4> HIDE DEF j
      <4>3. At(s, idx + j) = s[u + 1][off + j - UnitSize]
        BY <1>3, <4>1
      <4>4. Or(t, r2)[p] = At(s, idx + j)
        BY <3>1, <4>2, <4>3
      <4>5. QED
        BY <2>6, <4>1, <4>4 DEF j
    <3>6. QED
      BY <1>1, <2>1, <3>2, <3>3, <3>4, <3>5, UnitAssumption
  <2>8. Or(t, r2) \in Units
    <3>1. 0 \in Positions
      BY UnitAssumption DEF Positions
    <3>2. QED
      BY <2>4, <2>5, <3>1, UnitOps
  <2>9. QED
    BY <2>6, <2>7, <2>8
<1>7. QED
  BY <1>5, <1>6

(* A value of no more than k bits.                                         *)
Fits(value, k) == value \in Units /\ \A p \in Positions : p < UnitSize - k => value[p] = 0

(* One unit is written to, and in it only the range: unless the value has   *)
(* more bits, and they are not beyond the left end.                        *)
LEMMA WriteUnitIs ==
    ASSUME NEW n \in Nat, NEW s \in StorageOf(n), NEW u \in 0 .. StorageSize(n) - 1,
           NEW start \in Nat, NEW k \in Nat \ {0}, start + k <= UnitSize,
           NEW value \in Units, start = 0 \/ Fits(value, k)
    PROVE  /\ WriteUnit(s, u, start, k, value) \in StorageOf(n)
           /\ \A v \in 0 .. StorageSize(n) - 1 : v # u => WriteUnit(s, u, start, k, value)[v] = s[v]
           /\ \A p \in Positions :
                WriteUnit(s, u, start, k, value)[u][p] =
                  IF start <= p /\ p < start + k THEN value[p + UnitSize - (start + k)] ELSE s[u][p]
<1> DEFINE w == UnitSize - (start + k)
           m == Not(Mask(k, w))
           a == And(s[u], m)
           t == ShiftLeft(value, w)
           r == Or(a, t)
<1>1. s[u] \in Units /\ w \in Nat /\ DOMAIN s = 0 .. StorageSize(n) - 1 /\ k # 0
  BY UnitAssumption DEF StorageOf
<1>2. WriteUnit(s, u, start, k, value) = [s EXCEPT ![u] = r]
  BY <1>1 DEF WriteUnit
<1>3. m \in Units /\ \A p \in Positions : m[p] = IF start <= p /\ p < start + k THEN 0 ELSE 1
  <2>1. Mask(k, w) \in Units
    BY DEF Mask, Units
  <2>2. \A p \in Positions : Mask(k, w)[p] = IF UnitSize - w - k <= p /\ p < UnitSize - w THEN 1 ELSE 0
    BY DEF Mask
  <2>3. UnitSize - w - k = start /\ UnitSize - w = start + k
    BY UnitAssumption
  <2> HIDE DEF w
  <2>4. Not(Mask(k, w)) \in Units
    BY <2>1 DEF Not, Units
  <2>5. \A p \in Positions : Not(Mask(k, w))[p] = 1 - Mask(k, w)[p]
    BY DEF Not
  <2>6. QED
    BY <2>2, <2>3, <2>4, <2>5
<1>4. t \in Units /\ \A p \in Positions : t[p] = IF p + w < UnitSize THEN value[p + w] ELSE 0
  <2> HIDE DEF w
  <2>1. 0 \in Positions
    BY UnitAssumption DEF Positions
  <2>2. QED
    BY <1>1, <2>1, Shifts
<1> HIDE DEF m, t
<1>5. a \in Units /\ \A p \in Positions : a[p] = IF start <= p /\ p < start + k THEN 0 ELSE s[u][p]
  <2>1. a \in Units
    BY DEF And, Units
  <2>2. \A p \in Positions : a[p] = IF s[u][p] = 1 /\ m[p] = 1 THEN 1 ELSE 0
    BY DEF And
  <2>3. \A p \in Positions : s[u][p] \in {0, 1}
    BY <1>1 DEF Units
  <2> HIDE DEF a
  <2>4. QED
    BY <1>3, <2>1, <2>2, <2>3
<1> HIDE DEF a
<1>6. ASSUME NEW p \in Positions
      PROVE  t[p] = IF start <= p /\ p < start + k THEN value[p + UnitSize - (start + k)] ELSE 0
  <2>1. p \in Nat /\ p < UnitSize
    BY UnitAssumption DEF Positions
  <2>2. CASE start <= p /\ p < start + k
    <3>1. p + w < UnitSize /\ p + w = p + UnitSize - (start + k)
      BY <2>1, <2>2, UnitAssumption
    <3>2. QED
      BY <1>4, <2>2, <3>1
  <2>3. CASE p >= start + k
    <3>1. ~(p + w < UnitSize) /\ ~(p < start + k)
      BY <2>1, <2>3, UnitAssumption
    <3>2. QED
      BY <1>4, <3>1
  <2>4. CASE p < start
    <3>1. Fits(value, k)
      BY <2>1, <2>4
    <3>2. p + w \in Positions /\ p + w < UnitSize - k
      BY <2>1, <2>4, UnitAssumption DEF Positions
    <3>3. value[p + w] = 0
      BY <3>1, <3>2 DEF Fits
    <3>4. t[p] = 0
      BY <1>4, <3>3
    <3>5. ~(start <= p)
      BY <2>1, <2>4
    <3>6. QED
      BY <3>4, <3>5
  <2>5. \/ start <= p /\ p < start + k
        \/ p >= start + k
        \/ p < start
    BY <2>1
  <2>6. QED
    BY <2>2, <2>3, <2>4, <2>5
<1>7. r \in Units /\ \A p \in Positions : r[p] = IF a[p] = 1 \/ t[p] = 1 THEN 1 ELSE 0
  BY DEF Or, Units
<1>8. \A p \in Positions : a[p] \in {0, 1} /\ t[p] \in {0, 1}
  BY <1>4, <1>5 DEF Units
<1> HIDE DEF r
<1>9. ASSUME NEW p \in Positions
      PROVE  r[p] = IF start <= p /\ p < start + k THEN value[p + UnitSize - (start + k)] ELSE s[u][p]
  <2>1. (IF a[p] = 1 \/ t[p] = 1 THEN 1 ELSE 0) = IF start <= p /\ p < start + k THEN t[p] ELSE a[p]
    BY <1>5, <1>6, <1>8
  <2>2. QED
    BY <1>5, <1>6, <1>7, <2>1
<1>10. [s EXCEPT ![u] = r] \in StorageOf(n)
  BY <1>7 DEF StorageOf
<1>11. [s EXCEPT ![u] = r][u] = r /\ \A v \in 0 .. StorageSize(n) - 1 : v # u => [s EXCEPT ![u] = r][v] = s[v]
  BY <1>1
<1>12. QED
  BY <1>2, <1>9, <1>10, <1>11

(* What is written: the bits of the range, and no other.                   *)
LEMMA WriteIs ==
    ASSUME NEW n \in Nat, NEW s \in StorageOf(n), NEW idx \in Nat, NEW k \in 1 .. UnitSize,
           idx + k <= n, NEW value, Fits(value, k)
    PROVE  /\ Write(s, idx, k, value) \in StorageOf(n)
           /\ \A i \in Cells(n) :
                At(Write(s, idx, k, value), i) =
                  IF idx <= i /\ i < idx + k THEN value[UnitSize - k + (i - idx)] ELSE At(s, i)
<1> DEFINE u   == idx \div UnitSize
           off == idx % UnitSize
           n1  == UnitSize - off
           n2  == k - n1
           D   == 0 .. StorageSize(n) - 1
           s1  == Write(s, idx, k, value)
<1>1. u \in Nat /\ off \in Nat /\ off < UnitSize /\ k \in Nat \ {0} /\ k <= UnitSize /\ UnitSize \in Nat
  BY DivMod, UnitAssumption DEF Positions
<1>2. u \in D /\ value \in Units
  <2>1. idx < n
    BY <1>1
  <2>2. QED
    BY <2>1, StorageHolds DEF Fits
<1>3. ASSUME NEW i \in Cells(n)
      PROVE  LET v == i \div UnitSize
                 p == i % UnitSize
             IN /\ v \in D /\ p \in Positions /\ i \in Nat /\ At(s, i) = s[v][p] /\ At(s1, i) = s1[v][p]
                /\ v = u => i - idx = p - off
                /\ v = u + 1 => i - idx = UnitSize + p - off
                /\ idx <= i /\ i < idx + UnitSize => v \in {u, u + 1}
  <2>1. i \in Nat /\ i \div UnitSize \in D
    BY DEF Cells
  <2>2. QED
    BY <2>1, Distance, DivMod DEF At
<1>4. CASE off + k <= UnitSize
  <2>1. s1 = WriteUnit(s, u, off, k, value)
    BY <1>4 DEF Write
  <2> HIDE DEF u, off, s1
  <2>2. /\ s1 \in StorageOf(n)
        /\ \A v \in D : v # u => s1[v] = s[v]
        /\ \A p \in Positions :
             s1[u][p] = IF off <= p /\ p < off + k THEN value[p + UnitSize - (off + k)] ELSE s[u][p]
    BY <1>1, <1>2, <1>4, <2>1, WriteUnitIs
  <2>3. ASSUME NEW i \in Cells(n)
        PROVE  At(s1, i) = IF idx <= i /\ i < idx + k THEN value[UnitSize - k + (i - idx)] ELSE At(s, i)
    <3> DEFINE v == i \div UnitSize
               p == i % UnitSize
    <3>1. /\ v \in D /\ p \in Positions /\ i \in Nat /\ At(s, i) = s[v][p] /\ At(s1, i) = s1[v][p]
          /\ v = u => i - idx = p - off
          /\ v = u + 1 => i - idx = UnitSize + p - off
          /\ idx <= i /\ i < idx + UnitSize => v \in {u, u + 1}
      BY <1>3
    <3> HIDE DEF v, p
    <3>2. p \in Nat /\ p < UnitSize
      BY <1>1, <3>1 DEF Positions
    <3>3. CASE v = u
      <4>1. (idx <= i /\ i < idx + k) <=> (off <= p /\ p < off + k)
        BY <1>1, <3>1, <3>2, <3>3
      <4>2. off <= p => p + UnitSize - (off + k) = UnitSize - k + (i - idx)
        BY <1>1, <3>1, <3>2, <3>3
      <4>3. QED
        BY <2>2, <3>1, <3>3, <4>1, <4>2
    <3>4. CASE v # u
      <4>1. ~(idx <= i /\ i < idx + k)
        BY <1>1, <1>4, <3>1, <3>2, <3>4
      <4>2. QED
        BY <2>2, <3>1, <3>4, <4>1
    <3>5. QED
      BY <3>3, <3>4
  <2>4. QED
    BY <2>2, <2>3 DEF s1
<1>5. CASE ~(off + k <= UnitSize)
  <2>1. n1 \in Nat \ {0} /\ n2 \in Nat \ {0} /\ n1 + n2 = k /\ off + n1 = UnitSize /\ n2 <= off
    BY <1>1, <1>5
  <2>2. u + 1 \in D /\ u + 1 # u
    <3>1. idx + n1 \in Nat /\ idx + n1 < n
      BY <2>1
    <3>2. n1 \in Nat /\ off + n1 >= UnitSize /\ off + n1 < UnitSize + UnitSize
      BY <1>1, <2>1
    <3> HIDE DEF n1
    <3>3. (idx + n1) \div UnitSize = u + 1
      BY <3>2, Near
    <3>4. QED
      BY <1>1, <3>1, <3>3, StorageHolds
  <2> DEFINE t  == ShiftRight(value, n2)
             s0 == WriteUnit(s, u, off, n1, t)
  <2>3. s1 = WriteUnit(s0, u + 1, 0, n2, value)
    BY <1>5 DEF Write
  <2> HIDE DEF u, off, s1, n1, n2
  <2>4. t \in Units /\ \A p \in Positions : t[p] = IF p >= n2 THEN value[p - n2] ELSE 0
    <3>1. 0 \in Positions
      BY UnitAssumption DEF Positions
    <3>2. QED
      BY <1>2, <2>1, <3>1, Shifts
  <2>5. Fits(t, n1)
    <3> SUFFICES ASSUME NEW p \in Positions, p < UnitSize - n1
                 PROVE  t[p] = 0
      BY <2>4 DEF Fits
    <3>1. CASE p >= n2
      <4>1. p - n2 \in Positions /\ p - n2 < UnitSize - k
        BY <1>1, <2>1, <3>1 DEF Positions
      <4>2. QED
        BY <2>4, <3>1, <4>1 DEF Fits
    <3>2. CASE ~(p >= n2)
      BY <2>4, <3>2
    <3>3. QED
      BY <3>1, <3>2
  <2>6. /\ s0 \in StorageOf(n)
        /\ \A v \in D : v # u => s0[v] = s[v]
        /\ \A p \in Positions :
             s0[u][p] = IF off <= p /\ p < off + n1 THEN t[p + UnitSize - (off + n1)] ELSE s[u][p]
    <3>1. off + n1 <= UnitSize
      BY <1>1, <2>1
    <3> HIDE DEF t
    <3>2. QED
      BY <1>1, <1>2, <2>1, <2>4, <2>5, <3>1, WriteUnitIs
  <2> HIDE DEF t, s0
  <2>7. /\ s1 \in StorageOf(n)
        /\ \A v \in D : v # u + 1 => s1[v] = s0[v]
        /\ \A p \in Positions :
             s1[u + 1][p] = IF 0 <= p /\ p < 0 + n2 THEN value[p + UnitSize - (0 + n2)] ELSE s0[u + 1][p]
    <3>1. 0 \in Nat /\ 0 + n2 <= UnitSize
      BY <1>1, <2>1
    <3> DEFINE o == 0
               u1 == u + 1
               z == WriteUnit(s0, u1, o, n2, value)
    <3>2. /\ n2 \in Nat \ {0} /\ value \in Units /\ u1 \in 0 .. StorageSize(n) - 1 /\ s0 \in StorageOf(n)
          /\ o \in Nat /\ o + n2 <= UnitSize /\ o = 0
      BY <1>2, <2>1, <2>2, <2>6, <3>1
    <3> HIDE DEF o, u1
    <3>3. /\ z \in StorageOf(n)
          /\ \A v \in D : v # u1 => z[v] = s0[v]
          /\ \A p \in Positions :
               z[u1][p] = IF o <= p /\ p < o + n2 THEN value[p + UnitSize - (o + n2)] ELSE s0[u1][p]
      BY <3>2, WriteUnitIs
    <3> USE DEF o, u1
    <3> HIDE DEF z
    <3>4. s1 = z
      BY <2>3 DEF z
    <3>5. QED
      BY <3>2, <3>3, <3>4
  <2>8. ASSUME NEW i \in Cells(n)
        PROVE  At(s1, i) = IF idx <= i /\ i < idx + k THEN value[UnitSize - k + (i - idx)] ELSE At(s, i)
    <3> DEFINE v == i \div UnitSize
               p == i % UnitSize
    <3>1. /\ v \in D /\ p \in Positions /\ i \in Nat /\ At(s, i) = s[v][p] /\ At(s1, i) = s1[v][p]
          /\ v = u => i - idx = p - off
          /\ v = u + 1 => i - idx = UnitSize + p - off
          /\ idx <= i /\ i < idx + UnitSize => v \in {u, u + 1}
      BY <1>3
    <3> HIDE DEF v, p
    <3>2. p \in Nat /\ p < UnitSize
      BY <1>1, <3>1 DEF Positions
    <3>3. CASE v = u
      <4>1. (idx <= i /\ i < idx + k) <=> (off <= p /\ p < off + n1)
        BY <1>1, <2>1, <3>1, <3>2, <3>3
      <4>2. off <= p => p + UnitSize - (off + n1) = p /\ p >= n2 /\ p - n2 = UnitSize - k + (i - idx)
        BY <1>1, <2>1, <3>1, <3>2, <3>3
      <4>3. off <= p => t[p + UnitSize - (off + n1)] = value[UnitSize - k + (i - idx)]
        BY <2>4, <3>1, <4>2
      <4>4. s1[v] = s0[u]
        BY <2>2, <2>7, <3>1, <3>3
      <4>5. QED
        BY <2>6, <3>1, <3>3, <4>1, <4>3, <4>4
    <3>4. CASE v = u + 1
      <4>1. (idx <= i /\ i < idx + k) <=> p < n2
        BY <1>1, <2>1, <3>1, <3>2, <3>4
      <4>2. p + UnitSize - (0 + n2) = UnitSize - k + (i - idx)
        BY <1>1, <2>1, <3>1, <3>2, <3>4
      <4>3. s0[v] = s[v]
        BY <2>2, <2>6, <3>1, <3>4
      <4>4. (0 <= p /\ p < 0 + n2) <=> p < n2
        BY <2>1, <3>2
      <4>5. QED
        BY <2>7, <3>1, <3>4, <4>1, <4>2, <4>3, <4>4
    <3>5. CASE v # u /\ v # u + 1
      <4>1. ~(idx <= i /\ i < idx + k)
        BY <1>1, <3>1, <3>2, <3>5
      <4>2. QED
        BY <2>6, <2>7, <3>1, <3>5, <4>1
    <3>6. QED
      BY <3>3, <3>4, <3>5
  <2>9. QED
    BY <2>7, <2>8 DEF s1
<1>6. QED
  BY <1>4, <1>5

---------------------------------------------------------------------------
(* Storages are equal when their bits are.                                  *)
LEMMA BitsMakeStorage ==
    ASSUME NEW n \in Nat, NEW s \in StorageOf(n), NEW t \in StorageOf(n),
           \A i \in Cells(n) : At(s, i) = At(t, i)
    PROVE  s = t
<1>1. ASSUME NEW u \in 0 .. StorageSize(n) - 1 PROVE s[u] = t[u]
  <2>1. s[u] \in Units /\ t[u] \in Units
    BY DEF StorageOf
  <2>2. ASSUME NEW p \in Positions PROVE s[u][p] = t[u][p]
    <3> DEFINE i == u * UnitSize + p
    <3>1. u \in Nat /\ i \in Nat /\ i \div UnitSize = u /\ i % UnitSize = p
      BY DivModUnique, StorageHolds
    <3> HIDE DEF i
    <3>2. At(s, i) = At(t, i)
      BY <3>1 DEF Cells
    <3>3. QED
      BY <3>1, <3>2 DEF At
  <2>3. s[u] = [p \in Positions |-> s[u][p]] /\ t[u] = [p \in Positions |-> t[u][p]]
    BY <2>1 DEF Units
  <2>4. QED
    BY <2>2, <2>3
<1>2. s = [u \in 0 .. StorageSize(n) - 1 |-> s[u]] /\ t = [u \in 0 .. StorageSize(n) - 1 |-> t[u]]
  BY DEF StorageOf
<1>3. QED
  BY <1>1, <1>2

(* What is written unit by unit.                                           *)
LEMMA WriteViewIs ==
    ASSUME NEW n \in Nat, NEW s \in StorageOf(n), NEW idx \in Nat,
           NEW m \in Nat, NEW other \in StorageOf(m), NEW from \in Nat,
           NEW k \in Nat, idx + k <= n, from + k <= m
    PROVE  /\ WriteView(s, idx, other, from, k) \in StorageOf(n)
           /\ \A i \in Cells(n) :
                At(WriteView(s, idx, other, from, k), i) =
                  IF idx <= i /\ i < idx + k THEN At(other, from + (i - idx)) ELSE At(s, i)
<1> DEFINE c == StorageSize(k)
           S == StorageOf(n)
           done(j) == (j - 1) * UnitSize
           size(j) == Least(UnitSize, k - done(j))
           value(j) == Read(other, from + done(j), size(j))
           step(j, t) == Write(t, idx + done(j), size(j), value(j))
           upto(j) == Least(j * UnitSize, k)
           F(f) == [j \in 0 .. c |-> IF j = 0 THEN s ELSE step(j, f[j - 1])]
           written == CHOOSE f : f = F(f)
<1>1. WriteView(s, idx, other, from, k) = written[c]
  BY DEF WriteView
<1>2. c \in Nat /\ k <= c * UnitSize /\ c * UnitSize \in Nat
  BY StorageHolds
<1>3. \A j \in 1 .. c : /\ done(j) \in Nat /\ size(j) \in 1 .. UnitSize /\ done(j) + size(j) <= k
                        /\ upto(j - 1) = done(j) /\ upto(j) = done(j) + size(j)
  <2> SUFFICES ASSUME NEW j \in 1 .. c
               PROVE  /\ done(j) \in Nat /\ size(j) \in 1 .. UnitSize /\ done(j) + size(j) <= k
                      /\ upto(j - 1) = done(j) /\ upto(j) = done(j) + size(j)
    OBVIOUS
  <2>1. j - 1 \in 0 .. c - 1 /\ j - 1 \in Nat /\ (j - 1) + 1 = j
    BY <1>2
  <2>2. done(j) \in Nat /\ done(j) < k /\ j * UnitSize = done(j) + UnitSize
    <3>1. (j - 1) * UnitSize \in Nat /\ (j - 1) * UnitSize < k
      BY <2>1, StorageHolds
    <3>2. ((j - 1) + 1) * UnitSize = (j - 1) * UnitSize + UnitSize
      BY <2>1, Product
    <3>3. QED
      BY <2>1, <3>1, <3>2
  <2> HIDE DEF done
  <2>3. QED
    BY <2>2, UnitAssumption DEF Least, done
<1> HIDE DEF done, size, upto
<1>4. \A j \in 1 .. c : Fits(value(j), size(j))
  <2> SUFFICES ASSUME NEW j \in 1 .. c PROVE Fits(value(j), size(j))
    OBVIOUS
  <2> DEFINE a == from + done(j)
             b == size(j)
  <2>1. a \in Nat /\ b \in 1 .. UnitSize /\ a + b <= m
    BY <1>3
  <2> HIDE DEF a, b
  <2>2. /\ Read(other, a, b) \in Units
        /\ \A p \in Positions : Read(other, a, b)[p] = IF p >= UnitSize - b THEN At(other, a + (p - (UnitSize - b))) ELSE 0
    BY <2>1, ReadIs
  <2>3. \A p \in Positions : p < UnitSize - b => ~(p >= UnitSize - b)
    BY <2>1, UnitAssumption DEF Positions
  <2>4. Fits(Read(other, a, b), b)
    BY <2>2, <2>3 DEF Fits
  <2>5. QED
    BY <2>4 DEF a, b
<1>5. ASSUME NEW j \in 1 .. c, NEW t \in S
      PROVE  /\ step(j, t) \in S
             /\ \A i \in Cells(n) :
                  At(step(j, t), i) =
                    IF idx + done(j) <= i /\ i < idx + upto(j) THEN At(other, from + (i - idx)) ELSE At(t, i)
  <2> DEFINE a == idx + done(j)
             b == size(j)
             d == from + done(j)
             val == Read(other, d, b)
  <2>1. a \in Nat /\ b \in 1 .. UnitSize /\ a + b <= n /\ a + b = idx + upto(j) /\ d \in Nat /\ d + b <= m
        /\ done(j) \in Nat
    BY <1>3
  <2>2. Fits(val, b)
    BY <1>4
  <2>3. step(j, t) = Write(t, a, b, val)
    OBVIOUS
  <2> HIDE DEF step, b
  <2>4. \A p \in Positions : val[p] = IF p >= UnitSize - b THEN At(other, d + (p - (UnitSize - b))) ELSE 0
    <3> HIDE DEF d
    <3>1. QED
      BY <2>1, ReadIs
  <2> HIDE DEF val
  <2>5. /\ Write(t, a, b, val) \in StorageOf(n)
        /\ \A i \in Cells(n) :
             At(Write(t, a, b, val), i) = IF a <= i /\ i < a + b THEN val[UnitSize - b + (i - a)] ELSE At(t, i)
    <3> HIDE DEF a
    <3>1. QED
      BY <2>1, <2>2, WriteIs
  <2>6. ASSUME NEW i \in Cells(n), a <= i, i < a + b
        PROVE  val[UnitSize - b + (i - a)] = At(other, from + (i - idx))
    <3> DEFINE p == UnitSize - b + (i - a)
    <3>1. i \in Nat
      BY DEF Cells
    <3>2. p \in Positions /\ p >= UnitSize - b /\ d + (p - (UnitSize - b)) = from + (i - idx)
      BY <2>1, <2>6, <3>1, UnitAssumption DEF Positions
    <3> HIDE DEF p, d
    <3>3. val[p] = At(other, d + (p - (UnitSize - b)))
      BY <2>4, <3>2
    <3>4. QED
      BY <3>2, <3>3 DEF p
  <2>7. QED
    BY <2>1, <2>3, <2>5, <2>6
<1> HIDE DEF step
<1>6. written = F(written)
  <2> DEFINE g == [j \in 1 .. c |-> [t \in S |-> step(j, t)]]
  <2>1. Steps(g, c, S)
    BY <1>5 DEF Steps
  <2>2. PICK f : Results(f, g, c, S, s)
    <3> HIDE DEF g, c, S
    <3>1. s \in S
      BY DEF S
    <3>2. c \in Nat
      BY <1>2
    <3>3. QED
      BY <2>1, <3>1, <3>2, Iteration
  <2>3. \A j \in 0 .. c : f[j] = IF j = 0 THEN s ELSE step(j, f[j - 1])
    <3> SUFFICES ASSUME NEW j \in 0 .. c, j # 0 PROVE f[j] = step(j, f[j - 1])
      BY <2>2 DEF Results
    <3>1. j \in 1 .. c /\ f[j - 1] \in S
      BY <1>2, <2>2 DEF Results
    <3>2. QED
      BY <2>2, <3>1 DEF Results
  <2>4. f = F(f)
    <3> HIDE DEF c, S
    <3>1. QED
      BY <2>2, <2>3 DEF Results
  <2> HIDE DEF F
  <2>5. QED
    BY <2>4
<1> HIDE DEF written
<1>7. written[0] = s /\ \A j \in 1 .. c : written[j] = step(j, written[j - 1])
  <2> HIDE DEF c
  <2>1. QED
    BY <1>2, <1>6
<1> DEFINE Right(j) == /\ written[j] \in S
                       /\ \A i \in Cells(n) :
                            At(written[j], i) =
                              IF idx <= i /\ i < idx + upto(j) THEN At(other, from + (i - idx)) ELSE At(s, i)
           N == {j \in Nat : j <= c => Right(j)}
<1>8. 0 \in N
  <2>1. upto(0) = 0
    BY UnitAssumption DEF upto, Least
  <2>2. \A i \in Cells(n) : ~(idx <= i /\ i < idx + upto(0))
    BY <2>1 DEF Cells
  <2>3. QED
    BY <1>7, <2>2
<1>9. ASSUME NEW j \in Nat, j \in N PROVE j + 1 \in N
  <2> SUFFICES ASSUME j + 1 <= c PROVE Right(j + 1)
    OBVIOUS
  <2> HIDE DEF c
  <2>1. j + 1 \in 1 .. c /\ (j + 1) - 1 = j /\ j <= c
    BY <1>2
  <2>2. Right(j)
    BY <1>9, <2>1
  <2>3. written[j + 1] = step(j + 1, written[j])
    BY <1>7, <2>1
  <2>4. /\ step(j + 1, written[j]) \in S
        /\ \A i \in Cells(n) :
             At(step(j + 1, written[j]), i) =
               IF idx + done(j + 1) <= i /\ i < idx + upto(j + 1) THEN At(other, from + (i - idx))
               ELSE At(written[j], i)
    BY <1>5, <2>1, <2>2
  <2>5. upto(j) = done(j + 1) /\ upto(j + 1) >= upto(j) /\ upto(j) \in Nat /\ upto(j + 1) \in Nat
    BY <1>3, <2>1
  <2>6. ASSUME NEW i \in Cells(n)
        PROVE  At(written[j + 1], i) = IF idx <= i /\ i < idx + upto(j + 1) THEN At(other, from + (i - idx)) ELSE At(s, i)
    <3>1. i \in Nat
      BY DEF Cells
    <3>2. (idx <= i /\ i < idx + upto(j + 1))
            <=> (idx <= i /\ i < idx + upto(j)) \/ (idx + done(j + 1) <= i /\ i < idx + upto(j + 1))
      BY <2>5, <3>1
    <3>3. At(written[j], i) = IF idx <= i /\ i < idx + upto(j) THEN At(other, from + (i - idx)) ELSE At(s, i)
      BY <2>2
    <3>4. At(written[j + 1], i) = IF idx + done(j + 1) <= i /\ i < idx + upto(j + 1) THEN At(other, from + (i - idx)) ELSE At(written[j], i)
      BY <2>3, <2>4
    <3>5. QED
      BY <3>2, <3>3, <3>4
  <2>7. QED
    BY <2>3, <2>4, <2>6
<1>10. Right(c)
  <2>1. Nat \subseteq N
    <3> HIDE DEF N
    <3>1. QED
      BY <1>8, <1>9, SetInduction
  <2>2. QED
    BY <1>2, <2>1
<1>11. upto(c) = k
  BY <1>2 DEF upto, Least
<1>12. QED
  BY <1>1, <1>10, <1>11

---------------------------------------------------------------------------
(* An operator on units is one on their bits, and is 0 where both have 0.    *)
LEMMA ApplyIs ==
    ASSUME NEW op \in Ops, NEW u \in Units, NEW v \in Units
    PROVE  /\ Apply(op, u, v) \in Units
           /\ \A p \in Positions : Apply(op, u, v)[p] = Strings!Combine(op, u[p], v[p])
           /\ Strings!Combine(op, 0, 0) = 0
<1>1. \A p \in Positions : u[p] \in {0, 1} /\ v[p] \in {0, 1}
  BY DEF Units
<1>2. CASE op = "and"
  <2>1. Apply(op, u, v) = And(u, v)
    BY <1>2 DEF Apply
  <2>2. \A a, b \in {0, 1} : Strings!Combine(op, a, b) = IF a = 1 /\ b = 1 THEN 1 ELSE 0
    BY <1>2 DEF Strings!Combine
  <2>3. And(u, v) \in Units /\ \A p \in Positions : And(u, v)[p] = IF u[p] = 1 /\ v[p] = 1 THEN 1 ELSE 0
    BY DEF And, Units
  <2>4. QED
    BY <1>1, <2>1, <2>2, <2>3
<1>3. CASE op = "or"
  <2>1. Apply(op, u, v) = Or(u, v)
    BY <1>3 DEF Apply
  <2>2. \A a, b \in {0, 1} : Strings!Combine(op, a, b) = IF a = 1 \/ b = 1 THEN 1 ELSE 0
    BY <1>3 DEF Strings!Combine
  <2>3. Or(u, v) \in Units /\ \A p \in Positions : Or(u, v)[p] = IF u[p] = 1 \/ v[p] = 1 THEN 1 ELSE 0
    BY DEF Or, Units
  <2>4. QED
    BY <1>1, <2>1, <2>2, <2>3
<1>4. CASE op = "xor"
  <2>1. Apply(op, u, v) = Xor(u, v)
    BY <1>4 DEF Apply
  <2>2. \A a, b \in {0, 1} : Strings!Combine(op, a, b) = IF a = b THEN 0 ELSE 1
    BY <1>4 DEF Strings!Combine
  <2>3. Xor(u, v) \in Units /\ \A p \in Positions : Xor(u, v)[p] = IF u[p] = v[p] THEN 0 ELSE 1
    BY DEF Xor, Units
  <2>4. QED
    BY <1>1, <2>1, <2>2, <2>3
<1>5. QED
  BY <1>2, <1>3, <1>4 DEF Ops

(* Of two ranges aligned at the right, the bit of the second, which has m    *)
(* bits from `from` on, that meets the one d bits before the end of the      *)
(* first.                                                                  *)
Meets(other, from, m, d) == IF d <= m THEN At(other, from + (m - d)) ELSE 0

LEMMA BinOpIs ==
    ASSUME NEW op \in Ops, NEW len1 \in Nat, NEW s \in StorageOf(len1), NEW idx \in Nat,
           NEW n \in Nat, idx + n <= len1,
           NEW len2 \in Nat, NEW other \in StorageOf(len2), NEW from \in Nat,
           NEW m \in Nat, from + m <= len2
    PROVE  /\ BinOp(op, s, idx, n, other, from, m) \in StorageOf(len1)
           /\ \A i \in Cells(len1) :
                At(BinOp(op, s, idx, n, other, from, m), i) =
                  IF idx <= i /\ i < idx + n
                  THEN Strings!Combine(op, At(s, i), Meets(other, from, m, idx + n - i))
                  ELSE At(s, i)
<1> DEFINE c == StorageSize(n)
           S == StorageOf(len1)
           done(j) == (j - 1) * UnitSize
           off1(j) == Least(j * UnitSize, n)
           size1(j) == off1(j) - done(j)
           off2(j) == Least(off1(j), m)
           size2(j) == IF off1(j) > m THEN m + size1(j) - off1(j) ELSE size1(j)
           u2(j) == IF m + size1(j) > off1(j) THEN Read(other, from + m - off2(j), size2(j)) ELSE Zero
           step(j, t) == Write(t, idx + n - off1(j), size1(j),
                               Apply(op, Read(t, idx + n - off1(j), size1(j)), u2(j)))
           F(f) == [j \in 0 .. c |-> IF j = 0 THEN s ELSE step(j, f[j - 1])]
           applied == CHOOSE f : f = F(f)
<1>1. BinOp(op, s, idx, n, other, from, m) = applied[c]
  BY DEF BinOp
<1>2. c \in Nat /\ n <= c * UnitSize /\ c * UnitSize \in Nat
  BY StorageHolds
<1>3. \A j \in 1 .. c : /\ off1(j) \in Nat /\ size1(j) \in 1 .. UnitSize /\ off1(j) <= n
                        /\ off1(j - 1) \in Nat /\ off1(j - 1) + size1(j) = off1(j)
  <2> SUFFICES ASSUME NEW j \in 1 .. c
               PROVE  /\ off1(j) \in Nat /\ size1(j) \in 1 .. UnitSize /\ off1(j) <= n
                      /\ off1(j - 1) \in Nat /\ off1(j - 1) + size1(j) = off1(j)
    OBVIOUS
  <2>1. j - 1 \in 0 .. c - 1 /\ j - 1 \in Nat /\ (j - 1) + 1 = j
    BY <1>2
  <2>2. done(j) \in Nat /\ done(j) < n /\ j * UnitSize = done(j) + UnitSize
    <3>1. (j - 1) * UnitSize \in Nat /\ (j - 1) * UnitSize < n
      BY <2>1, StorageHolds
    <3>2. ((j - 1) + 1) * UnitSize = (j - 1) * UnitSize + UnitSize
      BY <2>1, Product
    <3>3. QED
      BY <2>1, <3>1, <3>2
  <2>3. off1(j - 1) = done(j)
    BY <2>2 DEF Least
  <2> HIDE DEF done
  <2>4. off1(j) \in Nat /\ off1(j) <= n /\ off1(j) > done(j) /\ off1(j) <= done(j) + UnitSize
    BY <2>2, UnitAssumption DEF Least
  <2> HIDE DEF off1
  <2>5. QED
    BY <2>2, <2>3, <2>4, UnitAssumption
<1> HIDE DEF done, size1, off1
<1>4. ASSUME NEW j \in 1 .. c
      PROVE  /\ u2(j) \in Units
             /\ \A p \in Positions :
                  /\ p >= UnitSize - size1(j) =>
                       u2(j)[p] = Meets(other, from, m, off1(j) - (p - (UnitSize - size1(j))))
                  /\ p < UnitSize - size1(j) => u2(j)[p] = 0
  <2> DEFINE o == off1(j)
             z == size1(j)
  <2>1. o \in Nat /\ z \in Nat /\ z >= 1 /\ z <= UnitSize /\ z <= o /\ UnitSize \in Nat
    BY <1>3, UnitAssumption
  <2>2. \A p \in Positions : p \in Nat /\ p < UnitSize
    BY <2>1 DEF Positions
  <2> HIDE DEF o, z
  <2>3. CASE ~(m + z > o)
    <3>1. u2(j) = Zero
      BY <2>3 DEF o, z
    <3>2. Zero \in Units /\ \A p \in Positions : Zero[p] = 0
      BY DEF Zero, Units
    <3>3. ASSUME NEW p \in Positions, p >= UnitSize - z
          PROVE  Meets(other, from, m, o - (p - (UnitSize - z))) = 0
      <4>1. ~(o - (p - (UnitSize - z)) <= m)
        BY <2>1, <2>2, <2>3, <3>3
      <4>2. QED
        BY <4>1 DEF Meets
    <3>4. QED
      BY <3>1, <3>2, <3>3 DEF o, z
  <2>4. CASE m + z > o
    <3> DEFINE a == from + m - off2(j)
               b == size2(j)
    <3>1. /\ a \in Nat /\ b \in 1 .. UnitSize /\ a + b <= len2 /\ b <= z
          /\ o <= m => a = from + m - o /\ b = z
          /\ o > m => a = from /\ b = m + z - o
      BY <2>1, <2>4 DEF Least, o, z
    <3>2. u2(j) = Read(other, a, b)
      BY <2>4 DEF o, z
    <3> HIDE DEF a, b, u2
    <3>3. /\ Read(other, a, b) \in Units
          /\ \A p \in Positions :
               Read(other, a, b)[p] = IF p >= UnitSize - b THEN At(other, a + (p - (UnitSize - b))) ELSE 0
      BY <3>1, ReadIs
    <3>4. ASSUME NEW p \in Positions, p >= UnitSize - z
          PROVE  u2(j)[p] = Meets(other, from, m, o - (p - (UnitSize - z)))
      <4> DEFINE d == o - (p - (UnitSize - z))
      <4>1. CASE p >= UnitSize - b
        <5>1. d <= m /\ from + (m - d) = a + (p - (UnitSize - b))
          BY <2>1, <2>2, <3>1, <3>4, <4>1
        <5> HIDE DEF d
        <5>2. Meets(other, from, m, d) = At(other, a + (p - (UnitSize - b)))
          BY <5>1 DEF Meets
        <5>3. QED
          BY <3>2, <3>3, <4>1, <5>2 DEF d
      <4>2. CASE ~(p >= UnitSize - b)
        <5>1. ~(d <= m)
          BY <2>1, <2>2, <3>1, <3>4, <4>2
        <5> HIDE DEF d
        <5>2. Meets(other, from, m, d) = 0
          BY <5>1 DEF Meets
        <5>3. QED
          BY <3>2, <3>3, <4>2, <5>2 DEF d
      <4>3. QED
        BY <4>1, <4>2
    <3>5. ASSUME NEW p \in Positions, p < UnitSize - z
          PROVE  u2(j)[p] = 0
      <4>1. ~(p >= UnitSize - b)
        BY <2>1, <2>2, <3>1, <3>5
      <4>2. QED
        BY <3>2, <3>3, <4>1
    <3>6. QED
      BY <3>2, <3>3, <3>4, <3>5 DEF o, z
  <2>5. QED
    BY <2>3, <2>4
<1> HIDE DEF u2, size2, off2
<1>5. ASSUME NEW j \in 1 .. c, NEW t \in S
      PROVE  /\ step(j, t) \in S
             /\ \A i \in Cells(len1) :
                  At(step(j, t), i) =
                    IF idx + n - off1(j) <= i /\ i < idx + n - off1(j - 1)
                    THEN Strings!Combine(op, At(t, i), Meets(other, from, m, idx + n - i)) ELSE At(t, i)
  <2> DEFINE a == idx + n - off1(j)
             b == size1(j)
             r == Read(t, a, b)
             val == Apply(op, r, u2(j))
  <2>1. a \in Nat /\ b \in 1 .. UnitSize /\ a + b <= len1 /\ a + b = idx + n - off1(j - 1)
        /\ off1(j) = idx + n - a /\ off1(j) \in Nat
    BY <1>3
  <2>2. step(j, t) = Write(t, a, b, val)
    OBVIOUS
  <2> HIDE DEF step, b
  <2>3. /\ r \in Units
        /\ \A p \in Positions : r[p] = IF p >= UnitSize - b THEN At(t, a + (p - (UnitSize - b))) ELSE 0
    <3> HIDE DEF a
    <3>1. QED
      BY <2>1, ReadIs
  <2>4. /\ u2(j) \in Units
        /\ \A p \in Positions :
             /\ p >= UnitSize - b => u2(j)[p] = Meets(other, from, m, off1(j) - (p - (UnitSize - b)))
             /\ p < UnitSize - b => u2(j)[p] = 0
    BY <1>4 DEF b
  <2> HIDE DEF r
  <2>5. /\ val \in Units
        /\ \A p \in Positions : val[p] = Strings!Combine(op, r[p], u2(j)[p])
        /\ Strings!Combine(op, 0, 0) = 0
    BY <2>3, <2>4, ApplyIs
  <2> HIDE DEF val
  <2>6. Fits(val, b)
    <3>1. ASSUME NEW p \in Positions, p < UnitSize - b PROVE val[p] = 0
      <4>1. ~(p >= UnitSize - b)
        BY <2>1, <3>1, UnitAssumption DEF Positions
      <4>2. r[p] = 0 /\ u2(j)[p] = 0
        BY <2>3, <2>4, <3>1, <4>1
      <4>3. QED
        BY <2>5, <4>2
    <3>2. QED
      BY <2>5, <3>1 DEF Fits
  <2>7. /\ Write(t, a, b, val) \in StorageOf(len1)
        /\ \A i \in Cells(len1) :
             At(Write(t, a, b, val), i) = IF a <= i /\ i < a + b THEN val[UnitSize - b + (i - a)] ELSE At(t, i)
    <3> HIDE DEF a
    <3>1. QED
      BY <2>1, <2>6, WriteIs
  <2>8. ASSUME NEW i \in Cells(len1), a <= i, i < a + b
        PROVE  val[UnitSize - b + (i - a)] = Strings!Combine(op, At(t, i), Meets(other, from, m, idx + n - i))
    <3> DEFINE p == UnitSize - b + (i - a)
    <3>1. i \in Nat
      BY DEF Cells
    <3>2. p \in Positions /\ p >= UnitSize - b /\ a + (p - (UnitSize - b)) = i
          /\ off1(j) - (p - (UnitSize - b)) = idx + n - i
      BY <2>1, <2>8, <3>1, UnitAssumption DEF Positions
    <3> HIDE DEF p
    <3>3. r[p] = At(t, i)
      BY <2>3, <3>2
    <3>4. u2(j)[p] = Meets(other, from, m, idx + n - i)
      BY <2>4, <3>2
    <3>5. val[p] = Strings!Combine(op, At(t, i), Meets(other, from, m, idx + n - i))
      BY <2>5, <3>2, <3>3, <3>4
    <3>6. QED
      BY <3>5 DEF p
  <2>9. QED
    BY <2>1, <2>2, <2>7, <2>8
<1> HIDE DEF step
<1>6. applied = F(applied)
  <2> DEFINE g == [j \in 1 .. c |-> [t \in S |-> step(j, t)]]
  <2>1. Steps(g, c, S)
    BY <1>5 DEF Steps
  <2>2. PICK f : Results(f, g, c, S, s)
    <3> HIDE DEF g, c, S
    <3>1. s \in S
      BY DEF S
    <3>2. c \in Nat
      BY <1>2
    <3>3. QED
      BY <2>1, <3>1, <3>2, Iteration
  <2>3. \A j \in 0 .. c : f[j] = IF j = 0 THEN s ELSE step(j, f[j - 1])
    <3> SUFFICES ASSUME NEW j \in 0 .. c, j # 0 PROVE f[j] = step(j, f[j - 1])
      BY <2>2 DEF Results
    <3>1. j \in 1 .. c /\ f[j - 1] \in S
      BY <1>2, <2>2 DEF Results
    <3>2. QED
      BY <2>2, <3>1 DEF Results
  <2>4. f = F(f)
    <3> HIDE DEF c, S
    <3>1. QED
      BY <2>2, <2>3 DEF Results
  <2> HIDE DEF F
  <2>5. QED
    BY <2>4
<1> HIDE DEF applied
<1>7. applied[0] = s /\ \A j \in 1 .. c : applied[j] = step(j, applied[j - 1])
  <2> HIDE DEF c
  <2>1. QED
    BY <1>2, <1>6
<1> DEFINE New1(i) == Strings!Combine(op, At(s, i), Meets(other, from, m, idx + n - i))
           Right(j) == /\ applied[j] \in S
                       /\ \A i \in Cells(len1) :
                            At(applied[j], i) = IF idx + n - off1(j) <= i /\ i < idx + n THEN New1(i) ELSE At(s, i)
           N == {j \in Nat : j <= c => Right(j)}
<1>8. 0 \in N
  <2>1. off1(0) = 0
    BY UnitAssumption DEF off1, Least
  <2>2. \A i \in Cells(len1) : ~(idx + n - off1(0) <= i /\ i < idx + n)
    BY <2>1 DEF Cells
  <2>3. QED
    BY <1>7, <2>2
<1>9. ASSUME NEW j \in Nat, j \in N PROVE j + 1 \in N
  <2> SUFFICES ASSUME j + 1 <= c PROVE Right(j + 1)
    OBVIOUS
  <2> HIDE DEF c
  <2>1. j + 1 \in 1 .. c /\ (j + 1) - 1 = j /\ j <= c
    BY <1>2
  <2>2. Right(j)
    BY <1>9, <2>1
  <2>3. applied[j + 1] = step(j + 1, applied[j])
    BY <1>7, <2>1
  <2>4. /\ step(j + 1, applied[j]) \in S
        /\ \A i \in Cells(len1) :
             At(step(j + 1, applied[j]), i) =
               IF idx + n - off1(j + 1) <= i /\ i < idx + n - off1(j)
               THEN Strings!Combine(op, At(applied[j], i), Meets(other, from, m, idx + n - i))
               ELSE At(applied[j], i)
    BY <1>5, <2>1, <2>2
  <2>5. off1(j) <= off1(j + 1) /\ off1(j) \in Nat /\ off1(j + 1) \in Nat
    BY <1>3, <2>1
  <2>6. ASSUME NEW i \in Cells(len1)
        PROVE  At(applied[j + 1], i) = IF idx + n - off1(j + 1) <= i /\ i < idx + n THEN New1(i) ELSE At(s, i)
    <3>1. i \in Nat
      BY DEF Cells
    <3>2. CASE idx + n - off1(j) <= i
      <4>1. ~(i < idx + n - off1(j)) /\ idx + n - off1(j + 1) <= i
        BY <2>5, <3>1, <3>2
      <4>2. QED
        BY <2>2, <2>3, <2>4, <3>2, <4>1
    <3>3. CASE ~(idx + n - off1(j) <= i)
      <4>1. i < idx + n - off1(j) /\ i < idx + n
        BY <2>5, <3>1, <3>3
      <4>2. At(applied[j], i) = At(s, i)
        BY <2>2, <3>3
      <4>3. QED
        BY <2>3, <2>4, <4>1, <4>2
    <3>4. QED
      BY <3>2, <3>3
  <2>7. QED
    BY <2>3, <2>4, <2>6
<1>10. Right(c)
  <2>1. Nat \subseteq N
    <3> HIDE DEF N
    <3>1. QED
      BY <1>8, <1>9, SetInduction
  <2>2. QED
    BY <1>2, <2>1
<1>11. idx + n - off1(c) = idx
  BY <1>2 DEF off1, Least
<1>12. QED
  BY <1>1, <1>10, <1>11

---------------------------------------------------------------------------
(* The last unit of n bits, and which of its bits are among them.           *)
LEMMA LastUnit ==
    ASSUME NEW n \in Nat, n # 0
    PROVE  LET last == StorageSize(n) - 1
           IN /\ last \in Nat
              /\ LastUnitMask(n) \in Units
              /\ \A p \in Positions : LastUnitMask(n)[p] = IF last * UnitSize + p < n THEN 1 ELSE 0
              /\ \A u \in 0 .. last : u # last => \A p \in Positions : u * UnitSize + p < n
<1> DEFINE q == n \div UnitSize
           rem == n % UnitSize
           last == StorageSize(n) - 1
<1>1. /\ q \in Nat /\ rem \in Nat /\ rem < UnitSize /\ n = q * UnitSize + rem /\ q * UnitSize \in Nat
      /\ UnitSize \in Nat \ {0} /\ (q + 1) * UnitSize = q * UnitSize + UnitSize
  BY DivMod, Product, UnitAssumption DEF Positions
<1>2. last \in Nat
  <2>1. 0 \div UnitSize \in 0 .. last
    BY StorageHolds
  <2>2. StorageSize(n) \in Nat
    BY StorageHolds
  <2>3. 0 \div UnitSize \in Nat
    BY DivMod
  <2>4. QED
    BY <2>1, <2>2, <2>3
<1>3. LastUnitMask(n) = IF rem = 0 THEN Mask(UnitSize, 0) ELSE Mask(rem, UnitSize - rem)
  BY DEF LastUnitMask
<1>4. LastUnitMask(n) \in Units
  BY <1>3 DEF Mask, Units
<1> HIDE DEF q, rem
<1>5. \A p \in Positions : LastUnitMask(n)[p] = IF last * UnitSize + p < n THEN 1 ELSE 0
  <2>1. CASE rem = 0
    <3>1. n + UnitSize - 1 = q * UnitSize + (UnitSize - 1) /\ UnitSize - 1 \in Positions
      BY <1>1, <2>1 DEF Positions
    <3>2. StorageSize(n) = q
      BY <1>1, <3>1, DivModUnique DEF StorageSize
    <3>3. last * UnitSize + UnitSize = n /\ last * UnitSize \in Nat
      <4>1. last + 1 = q
        BY <1>1, <3>2
      <4> HIDE DEF last
      <4>2. (last + 1) * UnitSize = last * UnitSize + UnitSize /\ last * UnitSize \in Nat
        BY <1>2, Product
      <4>3. QED
        BY <1>1, <2>1, <4>1, <4>2
    <3> HIDE DEF last
    <3>4. ASSUME NEW p \in Positions PROVE LastUnitMask(n)[p] = IF last * UnitSize + p < n THEN 1 ELSE 0
      <4>1. p \in Nat /\ p < UnitSize
        BY <1>1 DEF Positions
      <4>2. last * UnitSize + p < n
        BY <1>1, <3>3, <4>1
      <4>3. Mask(UnitSize, 0)[p] = 1
        BY <1>1, <4>1 DEF Mask
      <4>4. QED
        BY <1>3, <2>1, <4>2, <4>3
    <3>5. QED
      BY <3>4
  <2>2. CASE rem # 0
    <3>1. n + UnitSize - 1 = (q + 1) * UnitSize + (rem - 1) /\ rem - 1 \in Positions
      BY <1>1, <2>2 DEF Positions
    <3>2. StorageSize(n) = q + 1
      <4>1. q + 1 \in Nat
        BY <1>1
      <4>2. ((q + 1) * UnitSize + (rem - 1)) \div UnitSize = q + 1
        BY <3>1, <4>1, DivModUnique
      <4>3. QED
        BY <3>1, <4>2 DEF StorageSize
    <3>3. last = q
      BY <1>1, <3>2
    <3> HIDE DEF last
    <3>4. ASSUME NEW p \in Positions PROVE LastUnitMask(n)[p] = IF last * UnitSize + p < n THEN 1 ELSE 0
      <4>1. p \in Nat /\ p < UnitSize
        BY <1>1 DEF Positions
      <4>2. last * UnitSize + p < n <=> p < rem
        BY <1>1, <3>3, <4>1
      <4>3. Mask(rem, UnitSize - rem)[p] = IF p < rem THEN 1 ELSE 0
        BY <1>1, <4>1 DEF Mask
      <4>4. QED
        BY <1>3, <2>2, <4>2, <4>3
    <3>5. QED
      BY <3>4
  <2>3. QED
    BY <2>1, <2>2
<1>6. ASSUME NEW u \in 0 .. last, u # last, NEW p \in Positions
      PROVE  u * UnitSize + p < n
  <2>1. last * UnitSize \in Nat /\ last * UnitSize < n
    <3>1. last \in 0 .. StorageSize(n) - 1
      BY <1>2
    <3> HIDE DEF last
    <3>2. QED
      BY <3>1, StorageHolds
  <2>2. u \in Nat /\ u < last
    BY <1>2, <1>6
  <2>3. u * UnitSize + UnitSize <= last * UnitSize /\ u * UnitSize \in Nat
    BY <1>2, <2>2, ProductGrows, Product
  <2> HIDE DEF last
  <2>4. QED
    BY <1>1, <2>1, <2>3 DEF Positions
<1>7. QED
  BY <1>2, <1>4, <1>5, <1>6

(* The bits beyond the length are zero.                                    *)
TailZero(s, n) == \A i \in Cells(n) : i >= n => At(s, i) = 0

(* A storage from its units: each of its cells lies in one.                 *)
LEMMA CellIn ==
    ASSUME NEW n \in Nat, NEW i \in Cells(n)
    PROVE  /\ i \in Nat /\ i \div UnitSize \in 0 .. StorageSize(n) - 1 /\ i % UnitSize \in Positions
           /\ i = (i \div UnitSize) * UnitSize + (i % UnitSize)
           /\ (i \div UnitSize) * UnitSize \in Nat
<1>1. i \in Nat /\ i \div UnitSize \in 0 .. StorageSize(n) - 1
  BY DEF Cells
<1>2. QED
  BY <1>1, DivMod, Product

LEMMA BitsAreCells ==
    ASSUME NEW n \in Nat, NEW i \in Nat, i < n
    PROVE  i \in Cells(n)
  BY StorageHolds DEF Cells

LEMMA ClearedIs ==
    ASSUME NEW n \in Nat
    PROVE  Cleared(n) \in StorageOf(n) /\ \A i \in Cells(n) : At(Cleared(n), i) = 0
<1>1. Zero \in Units
  BY DEF Zero, Units
<1>2. Cleared(n) \in StorageOf(n)
  BY <1>1 DEF Cleared, StorageOf
<1>3. ASSUME NEW i \in Cells(n) PROVE At(Cleared(n), i) = 0
  <2>1. i \div UnitSize \in 0 .. StorageSize(n) - 1 /\ i % UnitSize \in Positions
    BY CellIn
  <2>2. Cleared(n)[i \div UnitSize] = Zero /\ Zero[i % UnitSize] = 0
    BY <2>1 DEF Cleared, Zero
  <2>3. QED
    BY <2>2 DEF At
<1>4. QED
  BY <1>2, <1>3

LEMMA FlippedIs ==
    ASSUME NEW n \in Nat, NEW s \in StorageOf(n)
    PROVE  /\ Flipped(s, n) \in StorageOf(n)
           /\ \A i \in Cells(n) : At(Flipped(s, n), i) = IF i < n THEN 1 - At(s, i) ELSE 0
<1> DEFINE D == 0 .. StorageSize(n) - 1
           last == StorageSize(n) - 1
           M == LastUnitMask(n)
<1>1. DOMAIN s = D /\ \A u \in D : s[u] \in Units
  BY DEF StorageOf
<1>2. \A u \in D : /\ Flipped(s, n)[u] = IF u = last THEN And(Not(s[u]), M) ELSE Not(s[u])
  BY <1>1 DEF Flipped
<1>3. ASSUME NEW u \in D
      PROVE  Not(s[u]) \in Units /\ \A p \in Positions : Not(s[u])[p] = 1 - s[u][p] /\ s[u][p] \in {0, 1}
  BY <1>1 DEF Not, Units
<1>4. ASSUME NEW u \in D
      PROVE  And(Not(s[u]), M) \in Units
             /\ \A p \in Positions : And(Not(s[u]), M)[p] = IF 1 - s[u][p] = 1 /\ M[p] = 1 THEN 1 ELSE 0
  <2>1. And(Not(s[u]), M) \in Units
    BY DEF And, Units
  <2>2. \A p \in Positions : And(Not(s[u]), M)[p] = IF Not(s[u])[p] = 1 /\ M[p] = 1 THEN 1 ELSE 0
    BY DEF And
  <2>3. QED
    BY <1>3, <2>1, <2>2
<1>5. Flipped(s, n) \in StorageOf(n)
  <2>1. \A u \in D : Flipped(s, n)[u] \in Units
    BY <1>2, <1>3, <1>4
  <2>2. Flipped(s, n) = [u \in D |-> Flipped(s, n)[u]]
    BY <1>1 DEF Flipped
  <2> HIDE DEF D
  <2>3. Flipped(s, n) \in [D -> Units]
    BY <2>1, <2>2
  <2>4. QED
    BY <2>3 DEF StorageOf, D
<1>6. ASSUME NEW i \in Cells(n)
      PROVE  At(Flipped(s, n), i) = IF i < n THEN 1 - At(s, i) ELSE 0
  <2> DEFINE u == i \div UnitSize
             p == i % UnitSize
  <2>1. i \in Nat /\ u \in D /\ p \in Positions /\ i = u * UnitSize + p
        /\ At(Flipped(s, n), i) = Flipped(s, n)[u][p] /\ At(s, i) = s[u][p]
    BY CellIn DEF At
  <2>2. n # 0
    BY <2>1, StorageHolds
  <2> HIDE DEF u, p
  <2>3. /\ M \in Units
        /\ M[p] = IF last * UnitSize + p < n THEN 1 ELSE 0
        /\ u # last => u * UnitSize + p < n
    BY <2>1, <2>2, LastUnit
  <2> HIDE DEF M, last
  <2>4. s[u][p] \in {0, 1} /\ Not(s[u])[p] = 1 - s[u][p]
    BY <1>3, <2>1
  <2>5. CASE u = last
    <3>1. Flipped(s, n)[u][p] = IF 1 - s[u][p] = 1 /\ M[p] = 1 THEN 1 ELSE 0
      BY <1>2, <1>4, <2>1, <2>5
    <3>2. M[p] = IF i < n THEN 1 ELSE 0
      BY <2>1, <2>3, <2>5
    <3>3. QED
      BY <2>1, <2>4, <3>1, <3>2
  <2>6. CASE u # last
    <3>1. Flipped(s, n)[u][p] = 1 - s[u][p]
      BY <1>2, <2>1, <2>4, <2>6
    <3>2. QED
      BY <2>1, <2>3, <2>6, <3>1
  <2>7. QED
    BY <2>5, <2>6
<1>7. QED
  BY <1>5, <1>6

(* The unit and the position of a bit further on, and of a bit before.      *)
LEMMA FurtherOn ==
    ASSUME NEW i \in Nat, NEW k \in Nat
    PROVE  /\ (i \div UnitSize) + (k \div UnitSize) \in Nat
           /\ (i % UnitSize) + (k % UnitSize) \in Nat
           /\ (i % UnitSize) + (k % UnitSize) < UnitSize + UnitSize
           /\ (i % UnitSize) + (k % UnitSize) < UnitSize =>
                /\ (i + k) \div UnitSize = (i \div UnitSize) + (k \div UnitSize)
                /\ (i + k) % UnitSize = (i % UnitSize) + (k % UnitSize)
           /\ (i % UnitSize) + (k % UnitSize) >= UnitSize =>
                /\ (i + k) \div UnitSize = ((i \div UnitSize) + (k \div UnitSize)) + 1
                /\ (i + k) % UnitSize = ((i % UnitSize) + (k % UnitSize)) - UnitSize
<1> DEFINE u == i \div UnitSize
           p == i % UnitSize
           w == k \div UnitSize
           r == k % UnitSize
           b == (u + w) * UnitSize + p
<1>1. /\ u \in Nat /\ p \in Positions /\ p \in Nat /\ p < UnitSize /\ i = u * UnitSize + p
      /\ w \in Nat /\ r \in Nat /\ r < UnitSize /\ k = w * UnitSize + r /\ UnitSize \in Nat
  BY DivMod, UnitAssumption DEF Positions
<1> HIDE DEF u, p, w, r
<1>2. u + w \in Nat /\ (u + w) * UnitSize = u * UnitSize + w * UnitSize /\ u * UnitSize \in Nat /\ w * UnitSize \in Nat
  BY <1>1, Product
<1>3. b \in Nat /\ b \div UnitSize = u + w /\ b % UnitSize = p
  BY <1>1, <1>2, DivModUnique
<1>4. i + k = b + r
  BY <1>1, <1>2
<1> HIDE DEF b
<1>5. /\ p + r < UnitSize => (b + r) \div UnitSize = u + w /\ (b + r) % UnitSize = p + r
      /\ p + r >= UnitSize /\ p + r < UnitSize + UnitSize =>
           (b + r) \div UnitSize = (u + w) + 1 /\ (b + r) % UnitSize = p + r - UnitSize
  <2>1. /\ (b % UnitSize) + r < UnitSize =>
             /\ (b + r) \div UnitSize = b \div UnitSize
             /\ (b + r) % UnitSize = (b % UnitSize) + r
        /\ (b % UnitSize) + r >= UnitSize /\ (b % UnitSize) + r < UnitSize + UnitSize =>
             /\ (b + r) \div UnitSize = (b \div UnitSize) + 1
             /\ (b + r) % UnitSize = (b % UnitSize) + r - UnitSize
    BY <1>1, <1>3, Near
  <2>2. b \div UnitSize = u + w /\ b % UnitSize = p
    BY <1>3
  <2>3. QED
    BY <2>1, <2>2, Zenon
<1>6. p + r \in Nat /\ p + r < UnitSize + UnitSize
  BY <1>1
<1>7. /\ p + r < UnitSize => (i + k) \div UnitSize = u + w /\ (i + k) % UnitSize = p + r
      /\ p + r >= UnitSize => (i + k) \div UnitSize = (u + w) + 1 /\ (i + k) % UnitSize = (p + r) - UnitSize
  BY <1>1, <1>4, <1>5, <1>6
<1>8. QED
  BY <1>2, <1>6, <1>7 DEF u, p, w, r

(* Shifting to the left relies on the zeros of the last unit.               *)
LEMMA ShiftedLeftIs ==
    ASSUME NEW n \in Nat, NEW s \in StorageOf(n), TailZero(s, n), NEW k \in Nat
    PROVE  /\ ShiftedLeft(s, n, k) \in StorageOf(n)
           /\ \A i \in Cells(n) : At(ShiftedLeft(s, n, k), i) = IF i + k < n THEN At(s, i + k) ELSE 0
<1> DEFINE whole == k \div UnitSize
           rem == k % UnitSize
           D == 0 .. StorageSize(n) - 1
           m == Mask(rem, UnitSize - rem)
           next(v) == ShiftRight(And(s[v + 1], m), UnitSize - rem)
           both(v) == Or(ShiftLeft(s[v], rem), next(v))
           moved(u) == IF rem > 0 /\ (u + whole) + 1 \in DOMAIN s THEN both(u + whole) ELSE ShiftLeft(s[u + whole], rem)
           t == [u \in DOMAIN s |-> IF u + whole \in DOMAIN s THEN moved(u) ELSE Zero]
<1>1. ShiftedLeft(s, n, k) = CASE n = 0 \/ k = 0 -> s [] k >= n -> Cleared(n) [] OTHER -> t
  BY DEF ShiftedLeft
<1>2. CASE n = 0 \/ k = 0
  <2>1. ShiftedLeft(s, n, k) = s
    <3>1. CASE n = 0
      <4>1. \A i : i \notin Cells(n)
        BY <3>1, StorageHolds DEF Cells
      <4>2. (IF k >= n THEN Cleared(n) ELSE t) \in {s, Cleared(n)}
        BY <3>1
      <4>3. Cleared(n) = s
        BY <4>1, ClearedIs, BitsMakeStorage
      <4>4. QED
        BY <1>1, <3>1, <4>3
    <3>2. CASE n # 0 /\ k = 0
      <4>1. ~(k >= n)
        BY <3>2
      <4>2. QED
        BY <1>1, <3>2, <4>1
    <3>3. QED
      BY <1>2, <3>1, <3>2
  <2>2. \A i \in Cells(n) : At(s, i) = IF i + k < n THEN At(s, i + k) ELSE 0
    <3>1. CASE k = 0
      <4>1. \A i \in Cells(n) : i \in Nat /\ i + k = i
        BY <3>1 DEF Cells
      <4>2. QED
        BY <4>1 DEF TailZero
    <3>2. CASE n = 0
      <4>1. \A i : i \notin Cells(n)
        BY <3>2, StorageHolds DEF Cells
      <4>2. QED
        BY <4>1
    <3>3. QED
      BY <1>2, <3>1, <3>2
  <2>3. QED
    BY <2>1, <2>2
<1>3. CASE n # 0 /\ k # 0 /\ k >= n
  <2>1. ShiftedLeft(s, n, k) = Cleared(n)
    BY <1>1, <1>3
  <2>2. \A i \in Cells(n) : ~(i + k < n)
    BY <1>3 DEF Cells
  <2>3. QED
    BY <2>1, <2>2, ClearedIs
<1>4. CASE n # 0 /\ k # 0 /\ ~(k >= n)
  <2>1. ShiftedLeft(s, n, k) = t
    BY <1>1, <1>4
  <2>2. /\ whole \in Nat /\ rem \in Nat /\ rem < UnitSize /\ UnitSize \in Nat
        /\ DOMAIN s = D /\ \A v \in D : s[v] \in Units
    <3>1. whole \in Nat /\ rem \in Nat /\ rem < UnitSize /\ UnitSize \in Nat
      BY DivMod, UnitAssumption DEF Positions
    <3>2. DOMAIN s = D /\ \A v \in D : s[v] \in Units
      BY DEF StorageOf
    <3>3. QED
      BY <3>1, <3>2
  <2>3. \A p \in Positions : p \in Nat /\ p < UnitSize
    BY <2>2 DEF Positions
  <2> HIDE DEF whole, rem, D
  <2>4. ASSUME NEW v \in D
        PROVE  /\ ShiftLeft(s[v], rem) \in Units
               /\ \A p \in Positions : ShiftLeft(s[v], rem)[p] = IF p + rem < UnitSize THEN s[v][p + rem] ELSE 0
    <3>1. s[v] \in Units /\ 0 \in Positions
      BY <2>2 DEF Positions
    <3>2. QED
      BY <2>2, <3>1, Shifts
  <2>5. ASSUME NEW v \in D, v + 1 \in D, rem > 0
        PROVE  /\ both(v) \in Units
               /\ \A p \in Positions : both(v)[p] = IF p + rem < UnitSize THEN s[v][p + rem] ELSE s[v + 1][p + rem - UnitSize]
    <3> DEFINE a == And(s[v + 1], m)
               c == UnitSize - rem
    <3>1. s[v + 1] \in Units
      BY <2>2, <2>5
    <3>2. a \in Units /\ \A p \in Positions : a[p] = IF s[v + 1][p] = 1 /\ m[p] = 1 THEN 1 ELSE 0
      BY DEF And, Units
    <3>3. \A p \in Positions : m[p] = IF p < rem THEN 1 ELSE 0
      <4>1. \A p \in Positions : (UnitSize - (UnitSize - rem) - rem <= p /\ p < UnitSize - (UnitSize - rem)) <=> p < rem
        BY <2>2, <2>3
      <4>2. QED
        BY <4>1 DEF Mask
    <3> HIDE DEF m, a
    <3>4. c \in Nat /\ 0 \in Positions
      BY <2>2 DEF Positions
    <3>5. ShiftRight(a, c) \in Units /\ \A p \in Positions : ShiftRight(a, c)[p] = IF p >= c THEN a[p - c] ELSE 0
      <4> HIDE DEF c
      <4>1. QED
        BY <3>2, <3>4, Shifts
    <3>6. next(v) = ShiftRight(a, c)
      BY DEF a
    <3> HIDE DEF next
    <3>7. both(v) \in Units /\ \A p \in Positions : both(v)[p] = IF ShiftLeft(s[v], rem)[p] = 1 \/ next(v)[p] = 1 THEN 1 ELSE 0
      BY DEF Or, Units
    <3> HIDE DEF both
    <3>8. ASSUME NEW p \in Positions
          PROVE  both(v)[p] = IF p + rem < UnitSize THEN s[v][p + rem] ELSE s[v + 1][p + rem - UnitSize]
      <4>1. CASE p + rem < UnitSize
        <5>1. next(v)[p] = 0
          BY <2>2, <2>3, <3>5, <3>6, <4>1
        <5>2. ShiftLeft(s[v], rem)[p] = s[v][p + rem]
          BY <2>4, <4>1
        <5>3. ShiftLeft(s[v], rem)[p] \in {0, 1}
          BY <2>4 DEF Units
        <5>4. QED
          BY <3>7, <4>1, <5>1, <5>2, <5>3
      <4>2. CASE ~(p + rem < UnitSize)
        <5> DEFINE q == p + rem - UnitSize
        <5>1. q \in Positions /\ q < rem /\ p - c = q /\ p >= c
          BY <2>2, <2>3, <4>2 DEF Positions
        <5> HIDE DEF q, c
        <5>2. next(v)[p] = a[q] /\ ShiftLeft(s[v], rem)[p] = 0
          BY <2>4, <3>5, <3>6, <4>2, <5>1
        <5>3. s[v + 1][q] \in {0, 1}
          BY <3>1, <5>1 DEF Units
        <5>4. a[q] = s[v + 1][q]
          BY <3>2, <3>3, <5>1, <5>3
        <5>5. both(v)[p] = s[v + 1][q]
          BY <3>7, <5>2, <5>3, <5>4
        <5>6. QED
          BY <4>2, <5>5 DEF q
      <4>3. QED
        BY <4>1, <4>2
    <3>9. QED
      BY <3>7, <3>8
  <2> HIDE DEF both
  <2>6. \A u \in D : t[u] \in Units
    <3>1. Zero \in Units
      BY DEF Zero, Units
    <3>2. \A u \in D : u + whole \in D => moved(u) \in Units
      BY <2>2, <2>4, <2>5
    <3> HIDE DEF moved
    <3>3. QED
      BY <2>2, <3>1, <3>2
  <2>7. t \in StorageOf(n)
    <3>1. t = [u \in D |-> t[u]]
      BY <2>2
    <3> HIDE DEF t
    <3>2. t \in [D -> Units]
      BY <2>6, <3>1
    <3>3. QED
      BY <3>2 DEF StorageOf, D
  <2>8. ASSUME NEW i \in Cells(n)
        PROVE  At(t, i) = IF i + k < n THEN At(s, i + k) ELSE 0
    <3> DEFINE u == i \div UnitSize
               p == i % UnitSize
               v == u + whole
               q == p + rem
               j == i + k
    <3>1. i \in Nat /\ u \in D /\ p \in Positions /\ At(t, i) = t[u][p] /\ j \in Nat /\ u \in Nat
      BY CellIn DEF At, D
    <3>2. /\ v \in Nat /\ q \in Nat /\ q < UnitSize + UnitSize
          /\ q < UnitSize => j \div UnitSize = v /\ j % UnitSize = q
          /\ q >= UnitSize => j \div UnitSize = v + 1 /\ j % UnitSize = q - UnitSize
      <4>1. i \in Nat /\ k \in Nat
        BY <3>1
      <4>2. v \in Nat /\ q \in Nat /\ q < UnitSize + UnitSize
        BY <4>1, FurtherOn DEF whole, rem
      <4>3. q < UnitSize => j \div UnitSize = v /\ j % UnitSize = q
        BY <4>1, FurtherOn DEF whole, rem
      <4>4. q >= UnitSize => j \div UnitSize = v + 1 /\ j % UnitSize = q - UnitSize
        BY <4>1, FurtherOn, Zenon DEF whole, rem
      <4>5. QED
        BY <4>2, <4>3, <4>4
    <3>3. (IF j < n THEN At(s, j) ELSE 0) = IF j \div UnitSize \in D THEN At(s, j) ELSE 0
      <4>1. j < n => j \div UnitSize \in D
        BY <3>1, StorageHolds DEF D
      <4>2. j \div UnitSize \in D /\ ~(j < n) => At(s, j) = 0
        BY <3>1 DEF TailZero, Cells, D
      <4>3. QED
        BY <4>1, <4>2
    <3>4. At(s, j) = s[j \div UnitSize][j % UnitSize]
      BY DEF At
    <3> HIDE DEF j
    <3>5. v + 1 \in D => v \in D
      BY <3>2, StorageHolds DEF D
    <3>6. t[u] = IF v \in D THEN moved(u) ELSE Zero
      BY <2>2, <3>1
    <3> HIDE DEF t
    <3>7. CASE q < UnitSize
      <4>1. CASE v \in D
        <5>1. moved(u)[p] = s[v][q]
          <6>1. CASE rem > 0 /\ v + 1 \in D
            BY <2>2, <2>5, <3>1, <3>7, <4>1, <6>1
          <6>2. CASE ~(rem > 0 /\ v + 1 \in D)
            BY <2>2, <2>4, <3>1, <3>7, <4>1, <6>2
          <6>3. QED
            BY <6>1, <6>2
        <5> HIDE DEF moved
        <5>2. QED
          BY <3>1, <3>2, <3>3, <3>4, <3>6, <3>7, <4>1, <5>1 DEF j
      <4>2. CASE v \notin D
        <5>1. Zero[p] = 0
          BY <3>1 DEF Zero
        <5> HIDE DEF moved
        <5>2. QED
          BY <3>1, <3>2, <3>3, <3>6, <3>7, <4>2, <5>1 DEF j
      <4>3. QED
        BY <4>1, <4>2
    <3>8. CASE ~(q < UnitSize)
      <4>1. rem > 0 /\ q >= UnitSize
        BY <2>2, <2>3, <3>1, <3>2, <3>8
      <4>2. CASE v + 1 \in D
        <5>1. v \in D
          BY <3>5, <4>2
        <5>2. moved(u) = both(v)
          BY <2>2, <4>1, <4>2
        <5>3. both(v)[p] = s[v + 1][q - UnitSize]
          <6> DEFINE v1 == v
          <6>1. v1 \in D /\ v1 + 1 \in D
            BY <4>2, <5>1
          <6> HIDE DEF v1
          <6>2. p \in Positions /\ ~(p + rem < UnitSize) /\ p \in Nat
            BY <2>3, <3>1, <3>8
          <6> HIDE DEF p
          <6>3. both(v1)[p] = IF p + rem < UnitSize THEN s[v1][p + rem] ELSE s[v1 + 1][p + rem - UnitSize]
            BY <2>5, <4>1, <6>1, <6>2
          <6>4. both(v1)[p] = s[v1 + 1][q - UnitSize]
            BY <2>2, <6>2, <6>3
          <6>5. QED
            BY <6>4 DEF v1
        <5> HIDE DEF moved
        <5>4. QED
          BY <3>1, <3>2, <3>3, <3>4, <3>6, <4>1, <4>2, <5>1, <5>2, <5>3 DEF j
      <4>3. CASE v + 1 \notin D
        <5>1. Zero[p] = 0
          BY <3>1 DEF Zero
        <5>2. v \in D => moved(u)[p] = 0
          BY <2>2, <2>4, <3>1, <3>8, <4>3
        <5> HIDE DEF moved
        <5>3. QED
          BY <3>1, <3>2, <3>3, <3>6, <4>1, <4>3, <5>1, <5>2 DEF j
      <4>4. QED
        BY <4>2, <4>3
    <3>9. QED
      BY <3>7, <3>8
  <2>9. QED
    BY <2>1, <2>7, <2>8
<1>5. QED
  BY <1>2, <1>3, <1>4

LEMMA Before ==
    ASSUME NEW i \in Nat, NEW k \in Nat, k <= i
    PROVE  /\ k \div UnitSize <= i \div UnitSize
           /\ i % UnitSize >= k % UnitSize =>
                /\ (i - k) \div UnitSize = (i \div UnitSize) - (k \div UnitSize)
                /\ (i - k) % UnitSize = (i % UnitSize) - (k % UnitSize)
           /\ i % UnitSize < k % UnitSize =>
                /\ (i \div UnitSize) - (k \div UnitSize) > 0
                /\ (i - k) \div UnitSize = ((i \div UnitSize) - (k \div UnitSize)) - 1
                /\ (i - k) % UnitSize = ((i % UnitSize) + UnitSize) - (k % UnitSize)
<1> DEFINE j == i - k
           u == i \div UnitSize
           p == i % UnitSize
           w == k \div UnitSize
           r == k % UnitSize
           v == j \div UnitSize
           q == j % UnitSize
<1>1. /\ u \in Nat /\ p \in Nat /\ p < UnitSize /\ w \in Nat /\ r \in Nat /\ r < UnitSize
      /\ j \in Nat /\ j + k = i /\ UnitSize \in Nat
  BY DivMod, UnitAssumption DEF Positions
<1> HIDE DEF j
<1>2. v \in Nat /\ q \in Nat /\ q < UnitSize
  BY <1>1, DivMod, UnitAssumption DEF Positions
<1>3. v + w \in Nat /\ q + r \in Nat /\ q + r < UnitSize + UnitSize
  BY <1>1, <1>2
<1>4. q + r < UnitSize => u = v + w /\ p = q + r
  BY <1>1, FurtherOn
<1>5. q + r >= UnitSize => u = (v + w) + 1 /\ p = (q + r) - UnitSize
  <2>1. q + r >= UnitSize => (j + k) \div UnitSize = (v + w) + 1 /\ (j + k) % UnitSize = (q + r) - UnitSize
    BY <1>1, FurtherOn, Zenon
  <2>2. QED
    BY <1>1, <2>1
<1> HIDE DEF u, p, w, r, v, q
<1>6. /\ w <= u
      /\ p >= r => v = u - w /\ q = p - r
      /\ p < r => u - w > 0 /\ v = (u - w) - 1 /\ q = (p + UnitSize) - r
  BY <1>1, <1>2, <1>3, <1>4, <1>5
<1>7. QED
  BY <1>6 DEF u, p, w, r, v, q, j

LEMMA NotBefore ==
    ASSUME NEW i \in Nat, NEW k \in Nat, i < k
    PROVE  /\ i \div UnitSize <= k \div UnitSize
           /\ i \div UnitSize = k \div UnitSize => i % UnitSize < k % UnitSize
<1> DEFINE u == i \div UnitSize
           p == i % UnitSize
           w == k \div UnitSize
           r == k % UnitSize
<1>1. /\ u \in Nat /\ p \in Nat /\ i = u * UnitSize + p /\ u * UnitSize \in Nat
      /\ w \in Nat /\ r \in Nat /\ r < UnitSize /\ k = w * UnitSize + r /\ w * UnitSize \in Nat
      /\ UnitSize \in Nat
  BY DivMod, Product, UnitAssumption DEF Positions
<1> HIDE DEF u, p, w, r
<1>2. ~(w < u)
  <2>1. w < u => w * UnitSize + UnitSize <= u * UnitSize
    BY <1>1, ProductGrows
  <2>2. QED
    BY <1>1, <2>1
<1>3. u = w => p < r
  BY <1>1
<1>4. QED
  BY <1>1, <1>2, <1>3 DEF u, p, w, r

(* Shifting to the right leaves zeros beyond the length again.              *)
LEMMA ShiftedRightIs ==
    ASSUME NEW n \in Nat, NEW s \in StorageOf(n), TailZero(s, n), NEW k \in Nat
    PROVE  /\ ShiftedRight(s, n, k) \in StorageOf(n)
           /\ \A i \in Cells(n) : At(ShiftedRight(s, n, k), i) = IF i < n /\ k <= i THEN At(s, i - k) ELSE 0
<1> DEFINE whole == k \div UnitSize
           rem == k % UnitSize
           D == 0 .. StorageSize(n) - 1
           last == StorageSize(n) - 1
           prev(v) == ShiftLeft(And(s[v - 1], Mask(rem, 0)), UnitSize - rem)
           one(v) == ShiftRight(s[v], rem)
           moved(u) == IF u - whole > 0 /\ rem > 0 THEN Or(one(u - whole), prev(u - whole)) ELSE one(u - whole)
           t == [u \in DOMAIN s |-> CASE u < whole -> Zero
                                      [] u = last  -> And(moved(u), LastUnitMask(n))
                                      [] OTHER     -> moved(u)]
<1>1. ShiftedRight(s, n, k) = CASE n = 0 \/ k = 0 -> s [] k >= n -> Cleared(n) [] OTHER -> t
  BY DEF ShiftedRight
<1>2. CASE n = 0
  <2>1. \A i : i \notin Cells(n)
    BY <1>2, StorageHolds DEF Cells
  <2>2. Cleared(n) = s
    BY <2>1, ClearedIs, BitsMakeStorage
  <2>3. ShiftedRight(s, n, k) = s
    BY <1>1, <1>2, <2>2
  <2>4. QED
    BY <2>1, <2>3
<1>3. CASE n # 0 /\ k = 0
  <2>1. ShiftedRight(s, n, k) = s
    <3>1. ~(k >= n)
      BY <1>3
    <3>2. QED
      BY <1>1, <1>3, <3>1
  <2>2. \A i \in Cells(n) : i \in Nat /\ i - k = i /\ k <= i
    BY <1>3 DEF Cells
  <2>3. QED
    BY <2>1, <2>2 DEF TailZero
<1>4. CASE n # 0 /\ k # 0 /\ k >= n
  <2>1. ShiftedRight(s, n, k) = Cleared(n)
    BY <1>1, <1>4
  <2>2. \A i \in Cells(n) : ~(i < n /\ k <= i)
    BY <1>4 DEF Cells
  <2>3. QED
    BY <2>1, <2>2, ClearedIs
<1>5. CASE n # 0 /\ k # 0 /\ ~(k >= n)
  <2>1. ShiftedRight(s, n, k) = t
    BY <1>1, <1>5
  <2>2. whole \in Nat /\ rem \in Nat /\ rem < UnitSize /\ UnitSize \in Nat
    BY DivMod, UnitAssumption DEF Positions
  <2>3. DOMAIN s = D /\ \A v \in D : s[v] \in Units
    BY DEF StorageOf
  <2>4. \A p \in Positions : p \in Nat /\ p < UnitSize
    BY <2>2 DEF Positions
  <2>5. last \in Nat /\ whole <= last
    <3>1. whole \in D
      BY <1>5, StorageHolds
    <3>2. StorageSize(n) \in Nat
      BY StorageHolds
    <3> HIDE DEF whole
    <3>3. QED
      BY <2>2, <3>1, <3>2
  <2>6. D = 0 .. last
    OBVIOUS
  <2> HIDE DEF whole, rem, D, last
  <2>7. ASSUME NEW v \in D
        PROVE  one(v) \in Units /\ \A p \in Positions : one(v)[p] = IF p >= rem THEN s[v][p - rem] ELSE 0
    <3>1. s[v] \in Units /\ 0 \in Positions
      BY <2>2, <2>3 DEF Positions
    <3>2. QED
      BY <2>2, <3>1, Shifts
  <2>8. ASSUME NEW v \in D, v - 1 \in D
        PROVE  /\ prev(v) \in Units
               /\ \A p \in Positions : prev(v)[p] = IF p < rem THEN s[v - 1][(p + UnitSize) - rem] ELSE 0
    <3> DEFINE a == And(s[v - 1], Mask(rem, 0))
               c == UnitSize - rem
    <3>1. s[v - 1] \in Units
      BY <2>3, <2>8
    <3>2. a \in Units /\ \A p \in Positions : a[p] = IF s[v - 1][p] = 1 /\ Mask(rem, 0)[p] = 1 THEN 1 ELSE 0
      BY DEF And, Units
    <3>3. \A p \in Positions : Mask(rem, 0)[p] = IF UnitSize - rem <= p THEN 1 ELSE 0
      <4>1. \A p \in Positions : (UnitSize - 0 - rem <= p /\ p < UnitSize - 0) <=> UnitSize - rem <= p
        BY <2>2, <2>4
      <4>2. QED
        BY <4>1 DEF Mask
    <3> HIDE DEF a
    <3>4. c \in Nat /\ 0 \in Positions
      BY <2>2 DEF Positions
    <3>5. ShiftLeft(a, c) \in Units /\ \A p \in Positions : ShiftLeft(a, c)[p] = IF p + c < UnitSize THEN a[p + c] ELSE 0
      <4> HIDE DEF c
      <4>1. QED
        BY <3>2, <3>4, Shifts
    <3>6. prev(v) = ShiftLeft(a, c)
      BY DEF a
    <3> HIDE DEF prev
    <3>7. ASSUME NEW p \in Positions
          PROVE  prev(v)[p] = IF p < rem THEN s[v - 1][(p + UnitSize) - rem] ELSE 0
      <4>1. CASE p < rem
        <5> DEFINE q == (p + UnitSize) - rem
        <5>1. q \in Positions /\ UnitSize - rem <= q /\ p + c = q /\ p + c < UnitSize
          BY <2>2, <2>4, <4>1 DEF Positions
        <5> HIDE DEF q, c
        <5>2. s[v - 1][q] \in {0, 1}
          BY <3>1, <5>1 DEF Units
        <5>3. a[q] = s[v - 1][q]
          BY <3>2, <3>3, <5>1, <5>2
        <5>4. QED
          BY <3>5, <3>6, <4>1, <5>1, <5>3 DEF q
      <4>2. CASE ~(p < rem)
        <5>1. ~(p + c < UnitSize)
          BY <2>2, <2>4, <4>2
        <5>2. QED
          BY <3>5, <3>6, <4>2, <5>1
      <4>3. QED
        BY <4>1, <4>2
    <3>8. QED
      BY <3>5, <3>6, <3>7
  <2> HIDE DEF one, prev
  <2>9. ASSUME NEW u \in D, whole <= u
        PROVE  /\ moved(u) \in Units
               /\ \A p \in Positions :
                    moved(u)[p] = IF p >= rem THEN s[u - whole][p - rem]
                                  ELSE IF u - whole > 0 THEN s[(u - whole) - 1][(p + UnitSize) - rem] ELSE 0
    <3> DEFINE v == u - whole
    <3>1. v \in D /\ v \in Nat /\ (v > 0 => v - 1 \in D)
      BY <2>2, <2>5, <2>6, <2>9
    <3>2. moved(u) = IF v > 0 /\ rem > 0 THEN Or(one(v), prev(v)) ELSE one(v)
      OBVIOUS
    <3> HIDE DEF v, moved
    <3>3. one(v) \in Units /\ \A p \in Positions : one(v)[p] = IF p >= rem THEN s[v][p - rem] ELSE 0
      BY <2>7, <3>1
    <3>4. CASE v > 0 /\ rem > 0
      <4>1. /\ prev(v) \in Units
            /\ \A p \in Positions : prev(v)[p] = IF p < rem THEN s[v - 1][(p + UnitSize) - rem] ELSE 0
        BY <2>8, <3>1, <3>4
      <4>2. \A p \in Positions : Or(one(v), prev(v))[p] = IF one(v)[p] = 1 \/ prev(v)[p] = 1 THEN 1 ELSE 0
        BY DEF Or
      <4>3. Or(one(v), prev(v)) \in Units
        BY DEF Or, Units
      <4>4. \A p \in Positions : one(v)[p] \in {0, 1} /\ prev(v)[p] \in {0, 1}
        BY <3>3, <4>1 DEF Units
      <4>5. ASSUME NEW p \in Positions
            PROVE  Or(one(v), prev(v))[p] = IF p >= rem THEN s[v][p - rem] ELSE s[v - 1][(p + UnitSize) - rem]
        <5>1. p >= rem <=> ~(p < rem)
          BY <2>2, <2>4
        <5>2. CASE p >= rem
          <6>1. one(v)[p] = s[v][p - rem] /\ prev(v)[p] = 0
            BY <3>3, <4>1, <5>1, <5>2
          <6>2. QED
            BY <4>2, <4>4, <5>2, <6>1
        <5>3. CASE ~(p >= rem)
          <6>1. one(v)[p] = 0 /\ prev(v)[p] = s[v - 1][(p + UnitSize) - rem]
            BY <3>3, <4>1, <5>1, <5>3
          <6>2. QED
            BY <4>2, <4>4, <5>3, <6>1
        <5>4. QED
          BY <5>2, <5>3
      <4>6. QED
        BY <3>2, <3>4, <4>3, <4>5 DEF v
    <3>5. CASE ~(v > 0 /\ rem > 0)
      <4>1. \A p \in Positions : p >= rem \/ ~(v > 0)
        BY <2>2, <2>4, <3>5
      <4>2. QED
        BY <3>2, <3>3, <3>5, <4>1 DEF v
    <3>6. QED
      BY <3>4, <3>5
  <2> HIDE DEF moved
  <2>10. \A u \in D : t[u] = IF u < whole THEN Zero ELSE IF u = last THEN And(moved(u), LastUnitMask(n)) ELSE moved(u)
    <3>1. ~(last < whole)
      BY <2>2, <2>5
    <3>2. QED
      BY <2>3, <3>1
  <2>11. t = [u \in D |-> t[u]]
    BY <2>3
  <2> HIDE DEF t
  <2>12. t \in StorageOf(n)
    <3>1. ASSUME NEW u \in D PROVE t[u] \in Units
      <4>1. Zero \in Units /\ And(moved(u), LastUnitMask(n)) \in Units
        BY DEF Zero, Units, And
      <4>2. ~(u < whole) => moved(u) \in Units
        BY <2>2, <2>5, <2>6, <2>9
      <4>3. QED
        BY <2>10, <4>1, <4>2
    <3>2. t \in [D -> Units]
      BY <2>11, <3>1
    <3>3. QED
      BY <3>2 DEF StorageOf, D
  <2>13. ASSUME NEW i \in Cells(n)
         PROVE  At(t, i) = IF i < n /\ k <= i THEN At(s, i - k) ELSE 0
    <3> DEFINE u == i \div UnitSize
               p == i % UnitSize
               r == IF k <= i THEN At(s, i - k) ELSE 0
    <3>1. i \in Nat /\ u \in D /\ p \in Positions /\ At(t, i) = t[u][p] /\ i = u * UnitSize + p /\ u \in Nat
      BY CellIn DEF At, D
    <3>2. r \in {0, 1}
      <4>1. ASSUME k <= i PROVE At(s, i - k) \in {0, 1}
        <5>1. i - k \in Nat /\ k \div UnitSize <= i \div UnitSize
          BY <3>1, <4>1, Before
        <5>2. (i - k) \div UnitSize \in D /\ (i - k) % UnitSize \in Positions
          <6> DEFINE j == i - k
          <6>1. j \div UnitSize \in Nat /\ j % UnitSize \in Positions
            BY <5>1, DivMod
          <6>2. j \div UnitSize <= i \div UnitSize
            <7>1. /\ i % UnitSize >= k % UnitSize => j \div UnitSize = (i \div UnitSize) - (k \div UnitSize)
                  /\ i % UnitSize < k % UnitSize => j \div UnitSize = ((i \div UnitSize) - (k \div UnitSize)) - 1
              BY <3>1, <4>1, Before
            <7>2. /\ i % UnitSize \in Nat /\ k % UnitSize \in Nat /\ k \div UnitSize \in Nat
              BY <3>1, DivMod DEF Positions
            <7> HIDE DEF j
            <7>3. QED
              BY <3>1, <7>1, <7>2
          <6> HIDE DEF j
          <6>3. j \div UnitSize \in D
            BY <2>5, <2>6, <3>1, <6>1, <6>2
          <6>4. QED
            BY <6>1, <6>3 DEF j
        <5>3. QED
          BY <2>3, <5>2 DEF At, Units
      <4>2. QED
        BY <4>1
    <3>3. (u < whole \/ (u = whole /\ p < rem)) => ~(k <= i)
      <4>1. ASSUME k <= i, u < whole \/ (u = whole /\ p < rem) PROVE FALSE
        <5>1. whole <= u /\ (p < rem => u - whole > 0)
          BY <3>1, <4>1, Before DEF whole, rem
        <5> HIDE DEF u, p
        <5>2. QED
          BY <2>2, <3>1, <4>1, <5>1
      <4>2. QED
        BY <4>1
    <3>4. ~(u < whole) => moved(u)[p] = r
      <4> SUFFICES ASSUME ~(u < whole) PROVE moved(u)[p] = r
        OBVIOUS
      <4>1. moved(u)[p] = IF p >= rem THEN s[u - whole][p - rem]
                          ELSE IF u - whole > 0 THEN s[(u - whole) - 1][(p + UnitSize) - rem] ELSE 0
        BY <2>2, <2>9, <3>1
      <4>2. CASE k <= i
        <5>1. /\ p >= rem => (i - k) \div UnitSize = u - whole /\ (i - k) % UnitSize = p - rem
              /\ p < rem => /\ u - whole > 0 /\ (i - k) \div UnitSize = (u - whole) - 1
                            /\ (i - k) % UnitSize = (p + UnitSize) - rem
          BY <3>1, <4>2, Before DEF whole, rem
        <5>2. At(s, i - k) = s[(i - k) \div UnitSize][(i - k) % UnitSize]
          BY DEF At
        <5>3. p >= rem \/ p < rem
          BY <2>2, <2>4, <3>1
        <5>4. p >= rem <=> ~(p < rem)
          BY <2>2, <2>4, <3>1
        <5> HIDE DEF u, p
        <5>5. QED
          BY <4>1, <4>2, <5>1, <5>2, <5>4
      <4>3. CASE ~(k <= i)
        <5>1. u <= whole /\ (u = whole => p < rem)
          BY <3>1, <4>3, NotBefore DEF whole, rem
        <5>2. p \in Nat
          BY <2>4, <3>1
        <5> HIDE DEF u, p
        <5>3. ~(u - whole > 0) /\ ~(p >= rem)
          BY <2>2, <3>1, <5>1, <5>2
        <5>4. QED
          BY <4>1, <4>3, <5>3
      <4>4. QED
        BY <4>2, <4>3
    <3>5. u < whole => r = 0
      <4>1. u < whole => ~(k <= i)
        BY <3>3
      <4> HIDE DEF u
      <4>2. QED
        BY <4>1
    <3>6. /\ LastUnitMask(n) \in Units
          /\ LastUnitMask(n)[p] = IF last * UnitSize + p < n THEN 1 ELSE 0
          /\ u # last => u * UnitSize + p < n
      BY <1>5, <2>6, <3>1, LastUnit DEF last
    <3> HIDE DEF r
    <3>7. CASE u < whole
      <4>1. Zero[p] = 0
        BY <3>1 DEF Zero
      <4>2. At(t, i) = 0
        BY <2>10, <3>1, <3>7, <4>1
      <4>3. QED
        BY <3>5, <3>7, <4>2 DEF r
    <3>8. CASE ~(u < whole) /\ u = last
      <4>1. And(moved(u), LastUnitMask(n))[p] = IF moved(u)[p] = 1 /\ LastUnitMask(n)[p] = 1 THEN 1 ELSE 0
        BY <3>1 DEF And
      <4>2. t[u] = And(moved(u), LastUnitMask(n))
        BY <2>10, <3>1, <3>8
      <4>3. LastUnitMask(n)[p] = IF i < n THEN 1 ELSE 0
        BY <3>1, <3>6, <3>8
      <4> HIDE DEF u, p
      <4>4. At(t, i) = IF i < n THEN r ELSE 0
        BY <3>1, <3>2, <3>4, <3>8, <4>1, <4>2, <4>3
      <4>5. QED
        BY <4>4 DEF r
    <3>9. CASE ~(u < whole) /\ u # last
      <4>1. t[u] = moved(u) /\ i < n
        BY <2>10, <3>1, <3>6, <3>9
      <4> HIDE DEF u, p
      <4>2. At(t, i) = r
        BY <3>1, <3>4, <3>9, <4>1
      <4>3. QED
        BY <4>1, <4>2 DEF r
    <3>10. QED
      BY <3>7, <3>8, <3>9
  <2>14. QED
    BY <2>1, <2>12, <2>13
<1>6. QED
  BY <1>2, <1>3, <1>4, <1>5

(* The storage with one bit written.                                       *)
WithBit(s, j, bit) == [s EXCEPT ![j \div UnitSize][j % UnitSize] = bit]

LEMMA WriteBitIs ==
    ASSUME NEW n \in Nat, NEW s \in StorageOf(n), NEW j \in Nat, j < n, NEW bit \in {0, 1}
    PROVE  /\ WithBit(s, j, bit) \in StorageOf(n)
           /\ \A i \in Cells(n) : At(WithBit(s, j, bit), i) = IF i = j THEN bit ELSE At(s, i)
<1> DEFINE t == WithBit(s, j, bit)
           v == j \div UnitSize
           q == j % UnitSize
           r == [s[v] EXCEPT ![q] = bit]
           D == 0 .. StorageSize(n) - 1
<1>1. v \in D /\ q \in Positions /\ j = v * UnitSize + q
  BY StorageHolds, DivMod
<1>2. s[v] \in Units /\ DOMAIN s = D
  BY <1>1 DEF StorageOf
<1> HIDE DEF v, q
<1>3. r \in Units /\ r[q] = bit /\ \A p \in Positions : p # q => r[p] = s[v][p]
  BY <1>1, <1>2 DEF Units
<1>4. t = [s EXCEPT ![v] = r]
  BY DEF v, q, WithBit
<1> HIDE DEF r, t
<1>5. t \in StorageOf(n)
  BY <1>3, <1>4 DEF StorageOf
<1>6. t[v] = r /\ \A u \in D : u # v => t[u] = s[u]
  BY <1>1, <1>2, <1>4
<1>7. ASSUME NEW i \in Cells(n) PROVE At(t, i) = IF i = j THEN bit ELSE At(s, i)
  <2> DEFINE u == i \div UnitSize
             p == i % UnitSize
  <2>1. u \in D /\ p \in Positions /\ i = u * UnitSize + p /\ At(t, i) = t[u][p] /\ At(s, i) = s[u][p]
    BY CellIn DEF At
  <2>2. i = j <=> (u = v /\ p = q)
    BY <2>1, <1>1 DEF v, q
  <2> HIDE DEF u, p
  <2>3. QED
    BY <1>3, <1>6, <2>1, <2>2
<1>8. QED
  BY <1>5, <1>7 DEF t

---------------------------------------------------------------------------
(* The invariant: every object has the units for its length, and no bit set *)
(* beyond it.                                                              *)
Good(s, n) == n \in Nat /\ s \in StorageOf(n) /\ TailZero(s, n)

IInv == /\ len \in [Names -> Nat]
        /\ storage = [x \in Names |-> storage[x]]
        /\ \A x \in Names : Good(storage[x], len[x])

(* The string in a storage, and the strings of all objects.                *)
Str(s, n) == [i \in 1 .. n |-> At(s, i - 1)]
Mapped == [x \in Names |-> BitsOf(x)]

LEMMA StrIs ==
    ASSUME NEW n, NEW s, Good(s, n)
    PROVE  /\ Str(s, n) \in Seq({0, 1}) /\ Len(Str(s, n)) = n /\ n \in Nat
           /\ \A i \in 1 .. n : Str(s, n)[i] = At(s, i - 1)
<1>1. n \in Nat /\ s \in StorageOf(n)
  BY DEF Good
<1>2. ASSUME NEW i \in 1 .. n PROVE At(s, i - 1) \in {0, 1}
  <2>1. i - 1 \in Nat /\ i - 1 < n
    BY <1>1
  <2>2. QED
    BY <1>1, <2>1, AtIsBit
<1>3. Str(s, n) \in [1 .. n -> {0, 1}]
  BY <1>2 DEF Str
<1>4. QED
  BY <1>1, <1>3 DEF Str

LEMMA MappedIs ==
    ASSUME IInv, NEW x \in Names
    PROVE  /\ Mapped[x] = Str(storage[x], len[x]) /\ BitsOf(x) = Str(storage[x], len[x])
           /\ len[x] \in Nat /\ Good(storage[x], len[x])
           /\ Mapped[x] \in Seq({0, 1}) /\ Len(Mapped[x]) = len[x]
           /\ \A i \in 1 .. len[x] : Mapped[x][i] = At(storage[x], i - 1)
<1>1. BitsOf(x) = Str(storage[x], len[x])
  BY DEF BitsOf, Bit, Str, At
<1>2. Mapped[x] = BitsOf(x)
  BY DEF Mapped
<1>3. len[x] \in Nat /\ Good(storage[x], len[x])
  BY DEF IInv
<1>4. QED
  BY <1>1, <1>2, <1>3, StrIs

(* An object that is given another storage is given another string.         *)
LEMMA Becomes ==
    ASSUME IInv, NEW x \in Names, NEW n, NEW s, Good(s, n), Become(x, n, s)
    PROVE  IInv' /\ Strings!Become(x, Str(s, n)) /\ Strings!Only(x)
<1>1. len' = [len EXCEPT ![x] = n] /\ storage' = [storage EXCEPT ![x] = s] /\ n \in Nat
  BY DEF Become, Good
<1>2. len' \in [Names -> Nat]
  BY <1>1 DEF IInv
<1>3. storage' = [y \in Names |-> storage'[y]]
  <2>1. DOMAIN storage = Names
    BY DEF IInv
  <2>2. QED
    BY <1>1, <2>1
<1>4. \A y \in Names : /\ storage'[y] = IF y = x THEN s ELSE storage[y]
                       /\ len'[y] = IF y = x THEN n ELSE len[y]
  <2>1. DOMAIN storage = Names /\ DOMAIN len = Names
    BY DEF IInv
  <2>2. QED
    BY <1>1, <2>1
<1>5. \A y \in Names : Good(storage'[y], len'[y])
  BY <1>4 DEF IInv
<1>6. IInv'
  <2>1. (\A y \in Names : Good(storage[y], len[y]))' <=> \A y \in Names : Good(storage'[y], len'[y])
    BY DEF Good, TailZero, StorageOf, At, Cells, StorageSize, Units, Positions
  <2>2. QED
    BY <1>2, <1>3, <1>5, <2>1 DEF IInv
<1>7. \A y \in Names : BitsOf(y)' = Str(storage'[y], len'[y])
  BY DEF BitsOf, Bit, Str, At
<1>8. \A y \in Names : BitsOf(y) = Str(storage[y], len[y])
  BY DEF BitsOf, Bit, Str, At
<1>9. \A y \in Names : BitsOf(y)' = IF y = x THEN Str(s, n) ELSE BitsOf(y)
  BY <1>4, <1>7, <1>8
<1>10. Mapped' = [Mapped EXCEPT ![x] = Str(s, n)]
  <2>1. Mapped' = [y \in Names |-> BitsOf(y)']
    BY DEF Mapped
  <2>2. [Mapped EXCEPT ![x] = Str(s, n)] = [y \in Names |-> IF y = x THEN Str(s, n) ELSE BitsOf(y)]
    BY DEF Mapped
  <2>3. QED
    BY <1>9, <2>1, <2>2
<1>11. Strings!Become(x, Str(s, n))
  BY <1>10 DEF Strings!Become, Mapped
<1>12. \A z \in Names \ {x} : Mapped'[z] = Mapped[z]
  BY <1>10 DEF Mapped
<1>13. Strings!Only(x)
  BY <1>12 DEF Strings!Only, Mapped
<1>14. QED
  BY <1>6, <1>11, <1>13

LEMMA Changes ==
    ASSUME IInv, NEW x \in Names, NEW s, Good(s, len[x]), Change(x, s)
    PROVE  IInv' /\ Strings!Become(x, Str(s, len[x])) /\ Strings!Only(x)
<1>1. len = [len EXCEPT ![x] = len[x]]
  BY DEF IInv
<1>2. Become(x, len[x], s)
  BY <1>1 DEF Become, Change
<1>3. QED
  BY <1>2, Becomes

---------------------------------------------------------------------------
(* Every operation keeps the invariant, and does to the strings what        *)
(* BitStrings says.                                                        *)
LEMMA NewDoes ==
    ASSUME IInv, NEW x \in Names, New(x)
    PROVE  IInv' /\ Strings!New(x) /\ Strings!Only(x)
<1>1. PICK n \in Lens : Become(x, n, Cleared(n))
  BY DEF New
<1>2. n \in Nat
  BY LensAssumption
<1>3. Good(Cleared(n), n)
  BY <1>2, ClearedIs DEF Good, TailZero
<1>4. Str(Cleared(n), n) = Strings!Zeros(n)
  <2>1. ASSUME NEW i \in 1 .. n PROVE At(Cleared(n), i - 1) = 0
    <3>1. i - 1 \in Cells(n)
      BY <1>2, BitsAreCells
    <3>2. QED
      BY <1>2, <3>1, ClearedIs
  <2>2. QED
    BY <2>1 DEF Str, Strings!Zeros
<1>5. IInv' /\ Strings!Become(x, Strings!Zeros(n)) /\ Strings!Only(x)
  BY <1>1, <1>3, <1>4, Becomes
<1>6. QED
  BY <1>5 DEF Strings!New

LEMMA FlipDoes ==
    ASSUME IInv, NEW x \in Names, Flip(x)
    PROVE  IInv' /\ Strings!Flip(x) /\ Strings!Only(x)
<1> DEFINE n == len[x]
           s == storage[x]
           t == Flipped(s, n)
           b == Mapped[x]
<1>1. Change(x, t)
  BY DEF Flip
<1>2. n \in Nat /\ Good(s, n) /\ s \in StorageOf(n) /\ Len(b) = n /\ \A i \in 1 .. n : b[i] = At(s, i - 1)
  BY MappedIs DEF Good
<1>3. t \in StorageOf(n) /\ \A i \in Cells(n) : At(t, i) = IF i < n THEN 1 - At(s, i) ELSE 0
  BY <1>2, FlippedIs
<1> HIDE DEF n, s, t, b
<1>4. Good(t, n)
  <2>1. \A i \in Cells(n) : i >= n => ~(i < n)
    BY <1>2 DEF Cells
  <2>2. QED
    BY <1>2, <1>3, <2>1 DEF Good, TailZero
<1>5. Str(t, n) = [i \in 1 .. Len(b) |-> 1 - b[i]]
  <2>1. ASSUME NEW i \in 1 .. n PROVE At(t, i - 1) = 1 - b[i]
    <3>1. i - 1 \in Cells(n) /\ i - 1 < n
      BY <1>2, BitsAreCells
    <3>2. QED
      BY <1>2, <1>3, <3>1
  <2>2. QED
    BY <1>2, <2>1 DEF Str
<1>6. IInv' /\ Strings!Become(x, Str(t, n)) /\ Strings!Only(x)
  BY <1>1, <1>4, Changes DEF n
<1>7. QED
  BY <1>5, <1>6 DEF Strings!Flip, b, Mapped

LEMMA ShiftDoes ==
    ASSUME IInv, NEW x \in Names, Shift(x)
    PROVE  IInv' /\ Strings!Shift(x) /\ Strings!Only(x)
<1> DEFINE n == len[x]
           s == storage[x]
           b == Mapped[x]
<1>1. PICK k \in 0 .. n + 1 : Change(x, ShiftedLeft(s, n, k)) \/ Change(x, ShiftedRight(s, n, k))
  BY DEF Shift
<1>2. /\ n \in Nat /\ Good(s, n) /\ s \in StorageOf(n) /\ TailZero(s, n)
      /\ Len(b) = n /\ \A i \in 1 .. n : b[i] = At(s, i - 1)
  BY MappedIs DEF Good
<1>3. k \in Nat /\ k \in 0 .. Len(b) + 1
  BY <1>2
<1>4. CASE Change(x, ShiftedLeft(s, n, k))
  <2> DEFINE t == ShiftedLeft(s, n, k)
  <2>1. t \in StorageOf(n) /\ \A i \in Cells(n) : At(t, i) = IF i + k < n THEN At(s, i + k) ELSE 0
    BY <1>2, <1>3, ShiftedLeftIs
  <2>2. Change(x, t)
    BY <1>4
  <2> HIDE DEF n, s, t, b
  <2>3. Good(t, n)
    <3>1. \A i \in Cells(n) : i >= n => ~(i + k < n)
      BY <1>2, <1>3 DEF Cells
    <3>2. QED
      BY <1>2, <2>1, <3>1 DEF Good, TailZero
  <2>4. Str(t, n) = Strings!Shifted(b, k)
    <3>1. ASSUME NEW i \in 1 .. n PROVE At(t, i - 1) = IF i + k \in 1 .. Len(b) THEN b[i + k] ELSE 0
      <4>1. i - 1 \in Cells(n) /\ i - 1 \in Nat
        BY <1>2, BitsAreCells
      <4>2. ((i - 1) + k < n <=> i + k \in 1 .. n) /\ (i + k) - 1 = (i - 1) + k
        BY <1>2, <1>3
      <4>3. QED
        BY <1>2, <2>1, <4>1, <4>2
    <3>2. QED
      BY <1>2, <3>1 DEF Str, Strings!Shifted
  <2>5. IInv' /\ Strings!Become(x, Str(t, n)) /\ Strings!Only(x)
    BY <2>2, <2>3, Changes DEF n
  <2>6. QED
    BY <1>3, <2>4, <2>5 DEF Strings!Shift, b, Mapped
<1>5. CASE Change(x, ShiftedRight(s, n, k))
  <2> DEFINE t == ShiftedRight(s, n, k)
  <2>1. t \in StorageOf(n) /\ \A i \in Cells(n) : At(t, i) = IF i < n /\ k <= i THEN At(s, i - k) ELSE 0
    BY <1>2, <1>3, ShiftedRightIs
  <2>2. Change(x, t)
    BY <1>5
  <2> HIDE DEF n, s, t, b
  <2>3. Good(t, n)
    <3>1. \A i \in Cells(n) : i >= n => ~(i < n)
      BY <1>2 DEF Cells
    <3>2. QED
      BY <1>2, <2>1, <3>1 DEF Good, TailZero
  <2>4. Str(t, n) = Strings!Shifted(b, -k)
    <3>1. ASSUME NEW i \in 1 .. n PROVE At(t, i - 1) = IF i + (-k) \in 1 .. Len(b) THEN b[i + (-k)] ELSE 0
      <4>1. i - 1 \in Cells(n) /\ i - 1 \in Nat
        BY <1>2, BitsAreCells
      <4>2. (((i - 1) < n /\ k <= i - 1) <=> i + (-k) \in 1 .. n) /\ (i + (-k)) - 1 = (i - 1) - k
        BY <1>2, <1>3
      <4>3. QED
        BY <1>2, <2>1, <4>1, <4>2
    <3>2. QED
      BY <1>2, <3>1 DEF Str, Strings!Shifted
  <2>5. IInv' /\ Strings!Become(x, Str(t, n)) /\ Strings!Only(x)
    BY <2>2, <2>3, Changes DEF n
  <2>6. QED
    BY <1>3, <2>4, <2>5 DEF Strings!Shift, b, Mapped
<1>6. QED
  BY <1>1, <1>4, <1>5

LEMMA CopyDoes ==
    ASSUME IInv, NEW x \in Names, NEW y \in Names, CopyOf(x, y)
    PROVE  IInv' /\ Strings!Copy(x, y) /\ Strings!Only(x)
<1>1. Become(x, len[y], storage[y]) /\ Good(storage[y], len[y]) /\ Mapped[y] = Str(storage[y], len[y])
  BY MappedIs DEF CopyOf
<1>2. IInv' /\ Strings!Become(x, Mapped[y]) /\ Strings!Only(x)
  BY <1>1, Becomes
<1>3. QED
  BY <1>2 DEF Strings!Copy, Mapped

LEMMA MoveDoes ==
    ASSUME IInv, NEW x \in Names, NEW y \in Names, Move(x, y)
    PROVE  IInv' /\ Strings!Move(x, y)
<1>1. CASE x = y
  <2>1. UNCHANGED vars
    BY <1>1 DEF Move
  <2>2. IInv'
    BY <2>1 DEF IInv, vars, Good, TailZero, StorageOf, At, Cells, StorageSize, Units, Positions
  <2>3. Mapped' = Mapped
    BY <2>1 DEF Mapped, vars, BitsOf, Bit
  <2>4. Mapped = [Mapped EXCEPT ![x] = Mapped[y], ![y] = IF y = x THEN @ ELSE <<>>]
    BY <1>1 DEF Mapped
  <2>5. QED
    BY <2>2, <2>3, <2>4 DEF Strings!Move, Mapped
<1>2. CASE x # y
  <2> DEFINE e == Cleared(0)
  <2>1. len' = [len EXCEPT ![x] = len[y], ![y] = 0] /\ storage' = [storage EXCEPT ![x] = storage[y], ![y] = e]
    BY <1>2 DEF Move
  <2>2. Good(e, 0)
    BY ClearedIs DEF Good, TailZero
  <2>3. DOMAIN len = Names /\ DOMAIN storage = Names /\ len \in [Names -> Nat]
        /\ \A z \in Names : Good(storage[z], len[z])
    BY DEF IInv
  <2> HIDE DEF e
  <2>4. len' \in [Names -> Nat] /\ storage' = [z \in Names |-> storage'[z]]
    BY <2>1, <2>3
  <2>5. \A z \in Names : /\ storage'[z] = IF z = y THEN e ELSE IF z = x THEN storage[y] ELSE storage[z]
                         /\ len'[z] = IF z = y THEN 0 ELSE IF z = x THEN len[y] ELSE len[z]
    BY <1>2, <2>1, <2>3
  <2>6. \A z \in Names : Good(storage'[z], len'[z])
    BY <2>2, <2>3, <2>5
  <2>7. IInv'
    <3>1. (\A z \in Names : Good(storage[z], len[z]))' <=> \A z \in Names : Good(storage'[z], len'[z])
      BY DEF Good, TailZero, StorageOf, At, Cells, StorageSize, Units, Positions
    <3>2. QED
      BY <2>4, <2>6, <3>1 DEF IInv
  <2>8. \A z \in Names : BitsOf(z)' = Str(storage'[z], len'[z])
    BY DEF BitsOf, Bit, Str, At
  <2>9. \A z \in Names : BitsOf(z) = Str(storage[z], len[z])
    BY DEF BitsOf, Bit, Str, At
  <2>10. Str(e, 0) = << >>
    BY DEF Str
  <2>11. \A z \in Names : BitsOf(z)' = IF z = y THEN << >> ELSE IF z = x THEN BitsOf(y) ELSE BitsOf(z)
    BY <2>5, <2>8, <2>9, <2>10
  <2>12. Mapped' = [z \in Names |-> BitsOf(z)']
    BY DEF Mapped
  <2>13. [Mapped EXCEPT ![x] = Mapped[y], ![y] = IF y = x THEN @ ELSE << >>]
           = [z \in Names |-> IF z = y THEN << >> ELSE IF z = x THEN BitsOf(y) ELSE BitsOf(z)]
    BY <1>2 DEF Mapped
  <2>14. Mapped' = [Mapped EXCEPT ![x] = Mapped[y], ![y] = IF y = x THEN @ ELSE << >>]
    BY <2>11, <2>12, <2>13
  <2>15. QED
    BY <2>7, <2>14 DEF Strings!Move, Mapped
<1>3. QED
  BY <1>1, <1>2

LEMMA RangeIs ==
    ASSUME NEW b \in Seq({0, 1}), NEW from \in Nat, NEW n \in Nat, from + n <= Len(b)
    PROVE  Strings!Range(b, from, n) = [i \in 1 .. n |-> b[from + i]]
           /\ Len(Strings!Range(b, from, n)) = n
<1>1. Strings!Range(b, from, n) = SubSeq(b, from + 1, from + n)
  BY DEF Strings!Range
<1> DEFINE r == [i \in 1 .. n |-> b[from + i]]
<1>2. SubSeq(b, from + 1, from + n) = [i \in 1 .. (from + n) - (from + 1) + 1 |-> b[i + (from + 1) - 1]]
  OBVIOUS
<1>3. (from + n) - (from + 1) + 1 = n /\ \A i \in 1 .. n : i + (from + 1) - 1 = from + i
  OBVIOUS
<1>4. SubSeq(b, from + 1, from + n) = r
  BY <1>2, <1>3
<1>5. Len(r) = n
  OBVIOUS
<1>6. QED
  BY <1>1, <1>4, <1>5

(* A storage in which n bits from idx on were replaced by those of v, and    *)
(* no other, is that of the string in which they were.                     *)
LEMMA ReplacedIs ==
    ASSUME NEW n \in Nat, NEW s, Good(s, n), NEW b \in Seq({0, 1}), b = Str(s, n),
           NEW t \in StorageOf(n), NEW idx \in Nat, NEW v, NEW k \in Nat, idx + k <= n, Len(v) = k,
           \A i \in Cells(n) : At(t, i) = IF idx <= i /\ i < idx + k THEN v[(i + 1) - idx] ELSE At(s, i)
    PROVE  Good(t, n) /\ Str(t, n) = Strings!Replaced(b, idx, v)
<1>1. Len(b) = n /\ \A i \in 1 .. n : b[i] = At(s, i - 1)
  BY StrIs
<1>2. Good(t, n)
  <2>1. ASSUME NEW i \in Cells(n), i >= n PROVE At(t, i) = 0
    <3>1. ~(i < idx + k)
      BY <2>1 DEF Cells
    <3>2. At(t, i) = At(s, i)
      BY <3>1
    <3>3. QED
      BY <2>1, <3>2 DEF Good, TailZero
  <2>2. QED
    BY <2>1 DEF Good, TailZero
<1>3. ASSUME NEW i \in 1 .. n
      PROVE  At(t, i - 1) = IF idx < i /\ i <= idx + Len(v) THEN v[i - idx] ELSE b[i]
  <2>1. i - 1 \in Cells(n)
    BY BitsAreCells
  <2>2. (idx <= i - 1 /\ i - 1 < idx + k) <=> (idx < i /\ i <= idx + Len(v))
    OBVIOUS
  <2>3. (i - 1) + 1 = i
    OBVIOUS
  <2>4. QED
    BY <1>1, <2>1, <2>2, <2>3
<1>4. Str(t, n) = Strings!Replaced(b, idx, v)
  BY <1>1, <1>3 DEF Str, Strings!Replaced
<1>5. QED
  BY <1>2, <1>4

LEMMA WriteBitDoes ==
    ASSUME IInv, NEW x \in Names, WriteBit(x)
    PROVE  IInv' /\ Strings!Write(x) /\ Strings!Only(x)
<1> DEFINE n == len[x]
           s == storage[x]
           b == Mapped[x]
<1>1. PICK j \in Offs(x), bit \in {0, 1} : Change(x, [s EXCEPT ![j \div UnitSize][j % UnitSize] = bit])
  BY DEF WriteBit
<1>2. n \in Nat /\ Good(s, n) /\ s \in StorageOf(n) /\ b \in Seq({0, 1}) /\ Len(b) = n /\ b = Str(s, n)
  BY MappedIs DEF Good
<1>3. j \in Nat /\ j < n /\ j + 1 <= n
  BY <1>2 DEF Offs
<1> DEFINE t == WithBit(s, j, bit)
           v == [i \in 1 .. 1 |-> bit]
<1>4. t \in StorageOf(n) /\ \A i \in Cells(n) : At(t, i) = IF i = j THEN bit ELSE At(s, i)
  <2> HIDE DEF n, s
  <2>1. QED
    BY <1>2, <1>3, WriteBitIs
<1>5. Change(x, t)
  BY <1>1 DEF WithBit
<1> HIDE DEF n, s, b, t
<1>6. \A i \in Cells(n) : At(t, i) = IF j <= i /\ i < j + 1 THEN v[(i + 1) - j] ELSE At(s, i)
  <2>1. \A i \in Cells(n) : (j <= i /\ i < j + 1 <=> i = j) /\ (i = j => (i + 1) - j = 1)
    BY <1>3 DEF Cells
  <2>2. v[1] = bit
    OBVIOUS
  <2> HIDE DEF v
  <2>3. QED
    BY <1>4, <2>1, <2>2
<1>7. v \in [1 .. 1 -> {0, 1}] /\ Len(v) = 1
  OBVIOUS
<1> HIDE DEF v
<1>8. Good(t, n) /\ Str(t, n) = Strings!Replaced(b, j, v)
  <2> DEFINE k == 1
  <2>1. k \in Nat /\ j + k <= n /\ Len(v) = k
    BY <1>3, <1>7
  <2>2. \A i \in Cells(n) : At(t, i) = IF j <= i /\ i < j + k THEN v[(i + 1) - j] ELSE At(s, i)
    BY <1>6
  <2> HIDE DEF k
  <2>3. QED
    BY <1>2, <1>3, <1>4, <2>1, <2>2, ReplacedIs
<1>9. IInv' /\ Strings!Become(x, Strings!Replaced(b, j, v)) /\ Strings!Only(x)
  BY <1>5, <1>8, Changes DEF n
<1>10. j \in 0 .. Len(b) - 1 /\ 1 \in 1 .. Strings!Least(UnitSize, Len(b) - j)
  BY <1>2, <1>3, UnitAssumption DEF Strings!Least
<1>11. QED
  BY <1>7, <1>9, <1>10 DEF Strings!Write, b, Mapped

LEMMA WriteValueDoes ==
    ASSUME IInv, NEW x \in Names, WriteValue(x)
    PROVE  IInv' /\ Strings!Write(x) /\ Strings!Only(x)
<1> DEFINE n == len[x]
           s == storage[x]
           b == Mapped[x]
<1>1. PICK idx \in Offs(x), k \in 1 .. UnitSize, value \in Units :
        View(x, idx, k) /\ value = And(value, Mask(k, 0)) /\ Change(x, Write(s, idx, k, value))
  BY DEF WriteValue
<1>2. n \in Nat /\ Good(s, n) /\ s \in StorageOf(n) /\ b \in Seq({0, 1}) /\ Len(b) = n /\ b = Str(s, n)
  BY MappedIs DEF Good
<1>3. idx \in Nat /\ idx < n /\ idx + k <= n /\ k \in Nat /\ k >= 1 /\ k <= UnitSize /\ UnitSize \in Nat
  BY <1>1, <1>2, UnitAssumption DEF Offs, View
<1> DEFINE t == Write(s, idx, k, value)
           v == [i \in 1 .. k |-> value[(UnitSize - k) + (i - 1)]]
<1>4. Fits(value, k)
  <2>1. ASSUME NEW p \in Positions, p < UnitSize - k PROVE value[p] = 0
    <3>1. Mask(k, 0)[p] = 0
      BY <1>3, <2>1 DEF Mask, Positions
    <3>2. And(value, Mask(k, 0))[p] = 0
      BY <3>1 DEF And
    <3>3. QED
      BY <1>1, <3>2
  <2>2. QED
    BY <2>1 DEF Fits
<1>5. /\ t \in StorageOf(n)
      /\ \A i \in Cells(n) : At(t, i) = IF idx <= i /\ i < idx + k THEN value[UnitSize - k + (i - idx)] ELSE At(s, i)
  BY <1>2, <1>3, <1>4, WriteIs
<1>6. Change(x, t)
  BY <1>1
<1> HIDE DEF n, s, b, t
<1>7. \A i \in Cells(n) : At(t, i) = IF idx <= i /\ i < idx + k THEN v[(i + 1) - idx] ELSE At(s, i)
  <2> SUFFICES ASSUME NEW i \in Cells(n), idx <= i, i < idx + k
               PROVE  value[UnitSize - k + (i - idx)] = v[(i + 1) - idx]
    BY <1>5
  <2>1. i \in Nat
    BY DEF Cells
  <2>2. (i + 1) - idx \in 1 .. k /\ (UnitSize - k) + (((i + 1) - idx) - 1) = UnitSize - k + (i - idx)
    BY <1>3, <2>1
  <2>3. QED
    BY <2>2
<1>8. v \in [1 .. k -> {0, 1}] /\ Len(v) = k
  <2>1. \A i \in 1 .. k : (UnitSize - k) + (i - 1) \in Positions
    BY <1>3 DEF Positions
  <2>2. \A i \in 1 .. k : value[(UnitSize - k) + (i - 1)] \in {0, 1}
    BY <2>1 DEF Units
  <2>3. QED
    BY <1>3, <2>2
<1> HIDE DEF v
<1>9. Good(t, n) /\ Str(t, n) = Strings!Replaced(b, idx, v)
  BY <1>2, <1>3, <1>5, <1>7, <1>8, ReplacedIs
<1>10. IInv' /\ Strings!Become(x, Strings!Replaced(b, idx, v)) /\ Strings!Only(x)
  BY <1>6, <1>9, Changes DEF n
<1>11. idx \in 0 .. Len(b) - 1 /\ k \in 1 .. Strings!Least(UnitSize, Len(b) - idx)
  BY <1>2, <1>3 DEF Strings!Least
<1>12. QED
  BY <1>8, <1>10, <1>11 DEF Strings!Write, b, Mapped

LEMMA WriteFromDoes ==
    ASSUME IInv, NEW x \in Names, NEW y \in Names, WriteFrom(x, y)
    PROVE  IInv' /\ Strings!WriteRange(x, y) /\ Strings!Only(x)
<1> DEFINE n == len[x]
           s == storage[x]
           b == Mapped[x]
           m == len[y]
           other == storage[y]
           c == Mapped[y]
<1>1. PICK idx \in Offs(x), from \in Offs(y), k \in Sizes(x) :
        View(x, idx, k) /\ View(y, from, k) /\ Change(x, WriteView(s, idx, other, from, k))
  BY DEF WriteFrom
<1>2. n \in Nat /\ Good(s, n) /\ s \in StorageOf(n) /\ b \in Seq({0, 1}) /\ Len(b) = n /\ b = Str(s, n)
  BY MappedIs DEF Good
<1>3. m \in Nat /\ Good(other, m) /\ other \in StorageOf(m) /\ c \in Seq({0, 1}) /\ Len(c) = m
      /\ \A i \in 1 .. m : c[i] = At(other, i - 1)
  BY MappedIs DEF Good
<1>4. idx \in Nat /\ idx < n /\ from \in Nat /\ from < m /\ k \in Nat /\ k >= 1 /\ idx + k <= n /\ from + k <= m
  BY <1>1, <1>2, <1>3 DEF Offs, Sizes, View
<1> DEFINE t == WriteView(s, idx, other, from, k)
           v == Strings!Range(c, from, k)
<1>5. Change(x, t)
  BY <1>1
<1> HIDE DEF n, s, b, m, other, c
<1>6. /\ t \in StorageOf(n)
      /\ \A i \in Cells(n) : At(t, i) = IF idx <= i /\ i < idx + k THEN At(other, from + (i - idx)) ELSE At(s, i)
  BY <1>2, <1>3, <1>4, WriteViewIs
<1>7. v = [i \in 1 .. k |-> c[from + i]] /\ Len(v) = k
  BY <1>3, <1>4, RangeIs
<1> HIDE DEF t, v
<1>8. \A i \in Cells(n) : At(t, i) = IF idx <= i /\ i < idx + k THEN v[(i + 1) - idx] ELSE At(s, i)
  <2> SUFFICES ASSUME NEW i \in Cells(n), idx <= i, i < idx + k
               PROVE  At(other, from + (i - idx)) = v[(i + 1) - idx]
    BY <1>6
  <2>1. i \in Nat
    BY DEF Cells
  <2> DEFINE j == (i + 1) - idx
  <2>2. j \in 1 .. k /\ from + j \in 1 .. m /\ (from + j) - 1 = from + (i - idx)
    BY <1>3, <1>4, <2>1
  <2> HIDE DEF j
  <2>3. v[j] = At(other, from + (i - idx))
    BY <1>3, <1>7, <2>2
  <2>4. QED
    BY <2>3 DEF j
<1>9. Good(t, n) /\ Str(t, n) = Strings!Replaced(b, idx, v)
  <2>1. t \in StorageOf(n) /\ idx \in Nat /\ k \in Nat /\ idx + k <= n /\ Len(v) = k
    BY <1>4, <1>6, <1>7
  <2>2. n \in Nat /\ Good(s, n) /\ b \in Seq({0, 1}) /\ b = Str(s, n)
    BY <1>2
  <2>3. QED
    BY <1>8, <2>1, <2>2, ReplacedIs
<1>10. IInv' /\ Strings!Become(x, Strings!Replaced(b, idx, v)) /\ Strings!Only(x)
  BY <1>5, <1>9, Changes DEF n
<1>11. /\ idx \in 0 .. Len(b) - 1 /\ from \in 0 .. Len(c) - 1
       /\ k \in 1 .. Strings!Least(Len(b) - idx, Len(c) - from)
  BY <1>2, <1>3, <1>4 DEF Strings!Least
<1>12. QED
  BY <1>10, <1>11 DEF Strings!WriteRange, b, c, v, Mapped

LEMMA AssignDoes ==
    ASSUME IInv, NEW x \in Names, NEW y \in Names, Assign(x, y)
    PROVE  IInv' /\ Strings!Apply(x, y) /\ Strings!Only(x)
<1> DEFINE n == len[x]
           s == storage[x]
           b == Mapped[x]
           l == len[y]
           other == storage[y]
           c == Mapped[y]
<1>1. PICK op \in Ops, idx \in Offs(x), k \in Sizes(x), from \in Offs(y), m \in Sizes(y) :
        View(x, idx, k) /\ View(y, from, m) /\ Change(x, BinOp(op, s, idx, k, other, from, m))
  BY DEF Assign
<1>2. n \in Nat /\ Good(s, n) /\ s \in StorageOf(n) /\ b \in Seq({0, 1}) /\ Len(b) = n /\ b = Str(s, n)
      /\ \A i \in 1 .. n : b[i] = At(s, i - 1)
  BY MappedIs DEF Good
<1>3. l \in Nat /\ Good(other, l) /\ other \in StorageOf(l) /\ c \in Seq({0, 1}) /\ Len(c) = l
      /\ \A i \in 1 .. l : c[i] = At(other, i - 1)
  BY MappedIs DEF Good
<1>4. /\ idx \in Nat /\ idx < n /\ k \in Nat /\ k >= 1 /\ idx + k <= n
      /\ from \in Nat /\ from < l /\ m \in Nat /\ m >= 1 /\ from + m <= l
  <2>1. /\ idx \in 0 .. n - 1 /\ k \in 1 .. n /\ idx + k <= n
        /\ from \in 0 .. l - 1 /\ m \in 1 .. l /\ from + m <= l
    BY <1>1 DEF Offs, Sizes, View
  <2>2. n \in Nat /\ l \in Nat
    BY <1>2, <1>3
  <2> HIDE DEF n, l
  <2>3. QED
    BY <2>1, <2>2
<1> DEFINE t == BinOp(op, s, idx, k, other, from, m)
           d == Strings!Range(b, idx, k)
           e == Strings!Range(c, from, m)
           v == Strings!Combined(op, d, e)
<1>5. Change(x, t)
  BY <1>1
<1> HIDE DEF n, s, b, l, other, c
<1>6. /\ t \in StorageOf(n)
      /\ \A i \in Cells(n) :
           At(t, i) = IF idx <= i /\ i < idx + k
                      THEN Strings!Combine(op, At(s, i), Meets(other, from, m, idx + k - i)) ELSE At(s, i)
  BY <1>2, <1>3, <1>4, BinOpIs
<1>7. d = [i \in 1 .. k |-> b[idx + i]] /\ Len(d) = k /\ e = [i \in 1 .. m |-> c[from + i]] /\ Len(e) = m
  <2>1. d = [i \in 1 .. k |-> b[idx + i]] /\ Len(d) = k
    BY <1>2, <1>4, RangeIs
  <2>2. e = [i \in 1 .. m |-> c[from + i]] /\ Len(e) = m
    BY <1>3, <1>4, RangeIs
  <2>3. QED
    BY <2>1, <2>2
<1> HIDE DEF t, d, e
<1>8. /\ v = [i \in 1 .. k |-> Strings!Combine(op, d[i], IF (i - k) + m > 0 THEN e[(i - k) + m] ELSE 0)]
      /\ Len(v) = k
  <2>1. k \in Nat /\ m \in Nat /\ Len(d) = k /\ Len(e) = m
    BY <1>4, <1>7
  <2>2. QED
    BY <2>1 DEF Strings!Combined
<1> HIDE DEF v
<1>9. \A i \in Cells(n) : At(t, i) = IF idx <= i /\ i < idx + k THEN v[(i + 1) - idx] ELSE At(s, i)
  <2> SUFFICES ASSUME NEW i \in Cells(n), idx <= i, i < idx + k
               PROVE  Strings!Combine(op, At(s, i), Meets(other, from, m, idx + k - i)) = v[(i + 1) - idx]
    BY <1>6
  <2>1. i \in Nat
    BY DEF Cells
  <2> DEFINE j == (i + 1) - idx
             q == (j - k) + m
  <2>2. j \in 1 .. k /\ idx + j \in 1 .. n /\ (idx + j) - 1 = i
    BY <1>2, <1>4, <2>1
  <2>3. (idx + k - i <= m <=> q > 0) /\ q <= m /\ q \in Int /\ from + (m - (idx + k - i)) = (from + q) - 1
    BY <1>4, <2>1, <2>2
  <2>4. d[j] = At(s, i)
    <3> HIDE DEF j
    <3>1. QED
      BY <1>2, <1>7, <2>2
  <2>5. Meets(other, from, m, idx + k - i) = IF q > 0 THEN e[q] ELSE 0
    <3>1. CASE q > 0
      <4>1. q \in 1 .. m /\ from + q \in 1 .. l
        BY <1>3, <1>4, <2>3, <3>1
      <4> HIDE DEF q
      <4>2. e[q] = At(other, (from + q) - 1)
        BY <1>3, <1>7, <4>1
      <4>3. QED
        BY <2>3, <3>1, <4>2 DEF Meets
    <3>2. CASE ~(q > 0)
      <4> HIDE DEF q
      <4>1. QED
        BY <2>3, <3>2 DEF Meets
    <3>3. QED
      BY <3>1, <3>2
  <2> HIDE DEF j
  <2>6. v[j] = Strings!Combine(op, d[j], IF q > 0 THEN e[q] ELSE 0)
    BY <1>8, <2>2
  <2> HIDE DEF q
  <2>7. v[j] = Strings!Combine(op, At(s, i), Meets(other, from, m, idx + k - i))
    BY <2>4, <2>5, <2>6
  <2>8. QED
    BY <2>7 DEF j
<1>10. Good(t, n) /\ Str(t, n) = Strings!Replaced(b, idx, v)
  <2>1. t \in StorageOf(n) /\ idx \in Nat /\ k \in Nat /\ idx + k <= n /\ Len(v) = k
    BY <1>4, <1>6, <1>8
  <2>2. n \in Nat /\ Good(s, n) /\ b \in Seq({0, 1}) /\ b = Str(s, n)
    BY <1>2
  <2>3. QED
    BY <1>9, <2>1, <2>2, ReplacedIs
<1>11. IInv' /\ Strings!Become(x, Strings!Replaced(b, idx, v)) /\ Strings!Only(x)
  BY <1>5, <1>10, Changes DEF n
<1>12. /\ idx \in 0 .. Len(b) - 1 /\ from \in 0 .. Len(c) - 1
       /\ k \in 1 .. Len(b) - idx /\ m \in 1 .. Len(c) - from /\ op \in {"and", "or", "xor"}
  BY <1>2, <1>3, <1>4 DEF Ops
<1>13. QED
  BY <1>11, <1>12 DEF Strings!Apply, b, c, d, e, v, Mapped

LEMMA WholeIs ==
    ASSUME NEW op \in Ops, NEW n, NEW s, Good(s, n), NEW m, NEW other, Good(other, m)
    PROVE  LET t == BinOp(op, s, 0, n, other, 0, m)
           IN Good(t, n) /\ Str(t, n) = Strings!Combined(op, Str(s, n), Str(other, m))
<1> DEFINE t == BinOp(op, s, 0, n, other, 0, m)
           b == Str(s, n)
           c == Str(other, m)
<1>1. /\ n \in Nat /\ s \in StorageOf(n) /\ TailZero(s, n) /\ m \in Nat /\ other \in StorageOf(m)
      /\ 0 + n <= n /\ 0 + m <= m /\ 0 \in Nat
  BY DEF Good
<1>2. /\ t \in StorageOf(n)
      /\ \A i \in Cells(n) :
           At(t, i) = IF 0 <= i /\ i < 0 + n
                      THEN Strings!Combine(op, At(s, i), Meets(other, 0, m, 0 + n - i)) ELSE At(s, i)
  BY <1>1, BinOpIs
<1>3. Len(b) = n /\ (\A i \in 1 .. n : b[i] = At(s, i - 1)) /\ Len(c) = m /\ \A i \in 1 .. m : c[i] = At(other, i - 1)
  BY StrIs
<1> HIDE DEF t, b, c
<1>4. Good(t, n)
  <2>1. \A i \in Cells(n) : i >= n => ~(i < 0 + n)
    BY <1>1 DEF Cells
  <2>2. QED
    BY <1>1, <1>2, <2>1 DEF Good, TailZero
<1>5. ASSUME NEW i \in 1 .. n
      PROVE  At(t, i - 1) = Strings!Combine(op, b[i], IF (i - n) + m > 0 THEN c[(i - n) + m] ELSE 0)
  <2> DEFINE q == (i - n) + m
             h == i - 1
  <2>1. h \in Cells(n) /\ h >= 0 /\ h < 0 + n /\ h \in Nat
    BY <1>1, BitsAreCells
  <2>2. (0 + n - h <= m <=> q > 0) /\ q <= m /\ q \in Int /\ 0 + (m - (0 + n - h)) = q - 1
    BY <1>1
  <2> HIDE DEF q
  <2>3. Meets(other, 0, m, 0 + n - h) = IF q > 0 THEN c[q] ELSE 0
    <3> HIDE DEF h
    <3>1. CASE q > 0
      <4>1. q \in 1 .. m
        BY <1>1, <2>2, <3>1
      <4>2. QED
        BY <1>3, <2>2, <3>1, <4>1 DEF Meets
    <3>2. CASE ~(q > 0)
      BY <2>2, <3>2 DEF Meets
    <3>3. QED
      BY <3>1, <3>2
  <2>4. b[i] = At(s, h)
    BY <1>3
  <2> HIDE DEF h
  <2>5. At(t, h) = Strings!Combine(op, b[i], IF q > 0 THEN c[q] ELSE 0)
    BY <1>2, <2>1, <2>3, <2>4
  <2>6. QED
    BY <2>5 DEF h, q
<1>6. Str(t, n) = Strings!Combined(op, b, c)
  <2>1. Strings!Combined(op, b, c) =
          [i \in 1 .. n |-> Strings!Combine(op, b[i], IF (i - n) + m > 0 THEN c[(i - n) + m] ELSE 0)]
    BY <1>3 DEF Strings!Combined
  <2>2. QED
    BY <1>5, <2>1 DEF Str
<1>7. QED
  BY <1>4, <1>6 DEF t, b, c

LEMMA OperatorDoes ==
    ASSUME IInv, NEW x \in Names, NEW y \in Names, Operator(x, y)
    PROVE  IInv' /\ Strings!Operator(x, y) /\ Strings!Only(x)
<1>1. PICK op \in Ops :
        IF len[y] > len[x]
        THEN Become(x, len[y], BinOp(op, storage[y], 0, len[y], storage[x], 0, len[x]))
        ELSE Change(x, BinOp(op, storage[x], 0, len[x], storage[y], 0, len[y]))
  BY DEF Operator
<1> DEFINE b == Mapped[x]
           c == Mapped[y]
<1>2. /\ b = Str(storage[x], len[x]) /\ Good(storage[x], len[x]) /\ Len(b) = len[x]
      /\ c = Str(storage[y], len[y]) /\ Good(storage[y], len[y]) /\ Len(c) = len[y]
  BY MappedIs
<1> DEFINE t == BinOp(op, storage[y], 0, len[y], storage[x], 0, len[x])
           u == BinOp(op, storage[x], 0, len[x], storage[y], 0, len[y])
<1>3. Good(t, len[y]) /\ Str(t, len[y]) = Strings!Combined(op, c, b)
  <2> HIDE DEF b, c
  <2>1. QED
    BY <1>2, WholeIs
<1>4. Good(u, len[x]) /\ Str(u, len[x]) = Strings!Combined(op, b, c)
  <2> HIDE DEF b, c
  <2>1. QED
    BY <1>2, WholeIs
<1>5. op \in {"and", "or", "xor"}
  BY DEF Ops
<1> HIDE DEF b, c, t, u
<1>6. CASE len[y] > len[x]
  <2>1. IInv' /\ Strings!Become(x, Strings!Combined(op, c, b)) /\ Strings!Only(x)
    BY <1>1, <1>3, <1>6, Becomes DEF t
  <2>2. Len(c) > Len(b)
    BY <1>2, <1>6
  <2>3. Strings!Become(x, IF Len(c) > Len(b) THEN Strings!Combined(op, c, b) ELSE Strings!Combined(op, b, c))
    BY <2>1, <2>2
  <2>4. QED
    BY <1>5, <2>1, <2>3 DEF Strings!Operator, b, c, Mapped
<1>7. CASE ~(len[y] > len[x])
  <2>1. IInv' /\ Strings!Become(x, Strings!Combined(op, b, c)) /\ Strings!Only(x)
    BY <1>1, <1>4, <1>7, Changes DEF u
  <2>2. ~(Len(c) > Len(b))
    BY <1>2, <1>7
  <2>3. Strings!Become(x, IF Len(c) > Len(b) THEN Strings!Combined(op, c, b) ELSE Strings!Combined(op, b, c))
    BY <2>1, <2>2
  <2>4. QED
    BY <1>5, <2>1, <2>3 DEF Strings!Operator, b, c, Mapped
<1>8. QED
  BY <1>6, <1>7

LEMMA CopyViewIs ==
    ASSUME NEW n \in Nat, NEW m \in Nat, NEW other \in StorageOf(m), NEW from \in Nat, from + n <= m
    PROVE  /\ CopyView(other, from, n) \in StorageOf(n)
           /\ \A i \in Cells(n) :
                At(CopyView(other, from, n), i) =
                  IF 0 <= i /\ i < 0 + n THEN At(other, from + (i - 0)) ELSE At(Cleared(n), i)
<1>1. PICK o \in Nat : o = 0
  OBVIOUS
<1>2. PICK k \in Nat : k = n
  OBVIOUS
<1>3. PICK z \in StorageOf(n) : z = Cleared(n)
  BY ClearedIs
<1>4. o + k <= n /\ from + k <= m
  BY <1>1, <1>2
<1>5. /\ WriteView(z, o, other, from, k) \in StorageOf(n)
      /\ \A i \in Cells(n) :
           At(WriteView(z, o, other, from, k), i) =
             IF o <= i /\ i < o + k THEN At(other, from + (i - o)) ELSE At(z, i)
  BY <1>4, WriteViewIs
<1>6. CopyView(other, from, n) = WriteView(z, o, other, from, k)
  BY <1>1, <1>2, <1>3 DEF CopyView
<1> DEFINE w == WriteView(z, o, other, from, k)
<1>7. /\ w \in StorageOf(n)
      /\ \A i \in Cells(n) : At(w, i) = IF o <= i /\ i < o + k THEN At(other, from + (i - o)) ELSE At(z, i)
  BY <1>5
<1>8. CopyView(other, from, n) = w
  BY <1>6
<1> HIDE DEF w
<1>9. QED
  BY <1>1, <1>2, <1>3, <1>7, <1>8

LEMMA CopyFromDoes ==
    ASSUME IInv, NEW x \in Names, NEW y \in Names, CopyFrom(x, y)
    PROVE  IInv' /\ Strings!CopyRange(x, y) /\ Strings!Only(x)
<1> DEFINE m == len[y]
           other == storage[y]
           c == Mapped[y]
<1>1. PICK from \in Offs(y), n \in Lens :
        n > 0 /\ View(y, from, n) /\ Become(x, n, CopyView(other, from, n))
  BY DEF CopyFrom
<1>2. m \in Nat /\ Good(other, m) /\ other \in StorageOf(m) /\ c \in Seq({0, 1}) /\ Len(c) = m
      /\ \A i \in 1 .. m : c[i] = At(other, i - 1)
  BY MappedIs DEF Good
<1>3. from \in Nat /\ from < m /\ n \in Nat /\ n >= 1 /\ from + n <= m /\ 0 + n <= n /\ 0 \in Nat
  BY <1>1, <1>2, LensAssumption DEF Offs, View
<1> DEFINE t == CopyView(other, from, n)
           v == Strings!Range(c, from, n)
<1>4. Become(x, n, t)
  BY <1>1
<1> HIDE DEF m, other, c
<1>5. /\ t \in StorageOf(n)
      /\ \A i \in Cells(n) : At(t, i) = IF 0 <= i /\ i < 0 + n THEN At(other, from + (i - 0)) ELSE At(Cleared(n), i)
  <2>1. m \in Nat /\ other \in StorageOf(m) /\ from \in Nat /\ n \in Nat /\ from + n <= m
    BY <1>2, <1>3
  <2>2. QED
    BY <2>1, CopyViewIs
<1>6. v = [i \in 1 .. n |-> c[from + i]]
  BY <1>2, <1>3, RangeIs
<1> HIDE DEF t, v
<1>7. Good(t, n)
  <2>1. \A i \in Cells(n) : i >= n => ~(i < 0 + n) /\ At(Cleared(n), i) = 0
    BY <1>3, ClearedIs DEF Cells
  <2>2. QED
    BY <1>3, <1>5, <2>1 DEF Good, TailZero
<1>8. Str(t, n) = v
  <2>1. ASSUME NEW i \in 1 .. n PROVE At(t, i - 1) = c[from + i]
    <3> DEFINE h == i - 1
    <3>1. h \in Cells(n) /\ h >= 0 /\ h < 0 + n /\ from + (h - 0) = (from + i) - 1 /\ from + i \in 1 .. m
      BY <1>2, <1>3, BitsAreCells
    <3> HIDE DEF h
    <3>2. At(t, h) = c[from + i]
      BY <1>2, <1>5, <3>1
    <3>3. QED
      BY <3>2 DEF h
  <2>2. QED
    BY <1>6, <2>1 DEF Str
<1>9. IInv' /\ Strings!Become(x, v) /\ Strings!Only(x)
  BY <1>4, <1>7, <1>8, Becomes
<1>10. from \in 0 .. Len(c) - 1 /\ n \in 1 .. Len(c) - from /\ n \in Lens
  BY <1>2, <1>3
<1>11. QED
  BY <1>9, <1>10 DEF Strings!CopyRange, c, v, Mapped

LEMMA NextDoes ==
    ASSUME IInv, Next
    PROVE  IInv' /\ Strings!Next
<1>1. PICK x \in Names :
        \/ New(x) \/ Flip(x) \/ Shift(x) \/ WriteBit(x) \/ WriteValue(x)
        \/ \E y \in Names :
             \/ CopyOf(x, y) \/ Move(x, y) \/ WriteFrom(x, y) \/ Assign(x, y)
             \/ Operator(x, y) \/ CopyFrom(x, y)
  BY DEF Next
<1>2. CASE \E y \in Names : Move(x, y)
  <2>1. IInv' /\ \E y \in Names : Strings!Move(x, y)
    BY <1>2, MoveDoes
  <2>2. QED
    BY <2>1 DEF Strings!Next
<1>3. CASE New(x) \/ Flip(x) \/ Shift(x) \/ WriteBit(x) \/ WriteValue(x)
  <2>1. IInv' /\ Strings!Only(x)
        /\ (Strings!New(x) \/ Strings!Flip(x) \/ Strings!Shift(x) \/ Strings!Write(x))
    BY <1>3, NewDoes, FlipDoes, ShiftDoes, WriteBitDoes, WriteValueDoes
  <2>2. QED
    BY <2>1 DEF Strings!Next
<1>4. CASE \E y \in Names : CopyOf(x, y) \/ WriteFrom(x, y) \/ Assign(x, y) \/ Operator(x, y) \/ CopyFrom(x, y)
  <2>1. PICK y \in Names : CopyOf(x, y) \/ WriteFrom(x, y) \/ Assign(x, y) \/ Operator(x, y) \/ CopyFrom(x, y)
    BY <1>4
  <2>2. IInv' /\ Strings!Only(x)
        /\ (\/ Strings!Copy(x, y) \/ Strings!WriteRange(x, y) \/ Strings!CopyRange(x, y)
            \/ Strings!Apply(x, y) \/ Strings!Operator(x, y))
    BY <2>1, CopyDoes, WriteFromDoes, AssignDoes, OperatorDoes, CopyFromDoes
  <2>3. QED
    BY <2>2 DEF Strings!Next
<1>5. QED
  BY <1>1, <1>2, <1>3, <1>4

LEMMA InitIs ==
    ASSUME Init
    PROVE  IInv /\ Strings!Init
<1> DEFINE e == Cleared(0)
<1>1. Good(e, 0)
  BY ClearedIs DEF Good, TailZero
<1>2. len = [x \in Names |-> 0] /\ storage = [x \in Names |-> e]
  BY DEF Init
<1> HIDE DEF e
<1>3. IInv
  BY <1>1, <1>2 DEF IInv
<1>4. \A x \in Names : BitsOf(x) = << >>
  <2> SUFFICES ASSUME NEW x \in Names PROVE BitsOf(x) = << >>
    OBVIOUS
  <2>1. BitsOf(x) = [i \in 1 .. 0 |-> Bit(x, i - 1)]
    BY <1>2 DEF BitsOf
  <2>2. QED
    BY <2>1
<1>5. QED
  BY <1>3, <1>4 DEF Strings!Init

LEMMA Stutters ==
    ASSUME IInv, UNCHANGED vars
    PROVE  IInv' /\ Mapped' = Mapped
<1>1. IInv'
  BY DEF IInv, vars, Good, TailZero, StorageOf, At, Cells, StorageSize, Units, Positions
<1>2. Mapped' = Mapped
  BY DEF Mapped, vars, BitsOf, Bit
<1>3. QED
  BY <1>1, <1>2

(* What is stored of every object is what its length needs, always.         *)
THEOREM StorageIsGood == Spec => []IInv
<1>1. Init => IInv
  BY InitIs
<1>2. IInv /\ [Next]_vars => IInv'
  BY NextDoes, Stutters
<1>3. QED
  BY <1>1, <1>2, PTL DEF Spec

(* No operation of the class Bits leaves a bit set beyond the length, on     *)
(* which the comparison of whole units and the shift to the left rely.      *)
THEOREM TailStaysZero == Spec => []TailIsZero
<1>1. IInv => TailIsZero
  <2> SUFFICES ASSUME IInv, NEW x \in Names, NEW u \in DOMAIN storage[x], NEW p \in Positions,
                      u * UnitSize + p >= len[x]
               PROVE  storage[x][u][p] = 0
    BY DEF TailIsZero
  <2> DEFINE i == u * UnitSize + p
  <2>1. len[x] \in Nat /\ storage[x] \in StorageOf(len[x]) /\ TailZero(storage[x], len[x])
    BY DEF IInv, Good
  <2>2. u \in 0 .. StorageSize(len[x]) - 1 /\ u \in Nat
    <3>1. DOMAIN storage[x] = 0 .. StorageSize(len[x]) - 1
      BY <2>1 DEF StorageOf
    <3>2. StorageSize(len[x]) \in Nat
      BY <2>1, StorageHolds
    <3>3. QED
      BY <3>1, <3>2
  <2>3. i \in Nat /\ i \div UnitSize = u /\ i % UnitSize = p
    BY <2>2, DivModUnique
  <2> HIDE DEF i
  <2>4. At(storage[x], i) = 0
    BY <2>1, <2>2, <2>3 DEF TailZero, Cells, i
  <2>5. QED
    BY <2>3, <2>4 DEF At
<1>2. QED
  BY <1>1, StorageIsGood, PTL

(* The class Bits does on its units what it promises on strings of bits.    *)
THEOREM UnitsImplementStrings == Spec => ImplementsStrings
<1>1. Init => Strings!Init
  BY InitIs
<1>2. IInv /\ [Next]_vars => [Strings!Next]_Mapped
  BY NextDoes, Stutters
<1>3. IInv /\ [Next]_vars => [Strings!Next]_([x \in Names |-> BitsOf(x)])
  BY <1>2 DEF Mapped
<1>4. QED
  BY <1>1, <1>3, StorageIsGood, PTL DEF ImplementsStrings, Strings!Spec, Spec

---------------------------------------------------------------------------
(* Comparing units is comparing bits.                                      *)
\* The k bits of s from the a-th on are those of t from the b-th on.
SameBits(s, a, t, b, k) == \A j \in 0 .. k - 1 : At(s, a + j) = At(t, b + j)

LEMMA SameReads ==
    ASSUME NEW n \in Nat, NEW s \in StorageOf(n), NEW a \in Nat, a <= n,
           NEW m \in Nat, NEW t \in StorageOf(m), NEW b \in Nat, b <= m,
           NEW k \in 1 .. UnitSize, a + k <= n, b + k <= m
    PROVE  Read(s, a, k) = Read(t, b, k) <=> SameBits(s, a, t, b, k)
<1> DEFINE r == Read(s, a, k)
           q == Read(t, b, k)
<1>1. /\ r \in Units
      /\ \A p \in Positions : r[p] = IF p >= UnitSize - k THEN At(s, a + (p - (UnitSize - k))) ELSE 0
  BY ReadIs
<1>2. /\ q \in Units
      /\ \A p \in Positions : q[p] = IF p >= UnitSize - k THEN At(t, b + (p - (UnitSize - k))) ELSE 0
  BY ReadIs
<1> HIDE DEF r, q
<1>3. ASSUME r = q, NEW j \in 0 .. k - 1 PROVE At(s, a + j) = At(t, b + j)
  <2> DEFINE p == j + (UnitSize - k)
  <2>1. p \in Positions /\ p >= UnitSize - k /\ p - (UnitSize - k) = j
    BY UnitAssumption DEF Positions
  <2> HIDE DEF p
  <2>2. QED
    BY <1>1, <1>2, <1>3, <2>1
<1>4. ASSUME \A j \in 0 .. k - 1 : At(s, a + j) = At(t, b + j) PROVE r = q
  <2>1. ASSUME NEW p \in Positions PROVE r[p] = q[p]
    <3>1. CASE p >= UnitSize - k
      <4> DEFINE j == p - (UnitSize - k)
      <4>1. j \in 0 .. k - 1
        BY <3>1, UnitAssumption DEF Positions
      <4> HIDE DEF j
      <4>2. At(s, a + j) = At(t, b + j)
        BY <1>4, <4>1
      <4>3. QED
        BY <1>1, <1>2, <3>1, <4>2 DEF j
    <3>2. CASE ~(p >= UnitSize - k)
      BY <1>1, <1>2, <3>2
    <3>3. QED
      BY <3>1, <3>2
  <2>2. r = [p \in Positions |-> r[p]] /\ q = [p \in Positions |-> q[p]]
    BY <1>1, <1>2 DEF Units
  <2>3. QED
    BY <2>1, <2>2
<1>5. QED
  BY <1>3, <1>4 DEF r, q, SameBits

LEMMA SameViews ==
    ASSUME NEW len1 \in Nat, NEW s \in StorageOf(len1), NEW idx \in Nat,
           NEW len2 \in Nat, NEW t \in StorageOf(len2), NEW from \in Nat,
           NEW n \in Nat, idx + n <= len1, from + n <= len2
    PROVE  SameView(s, idx, t, from, n) <=> SameBits(s, idx, t, from, n)
<1> DEFINE q == n \div UnitSize
           rem == n % UnitSize
           Units1 == \A k \in 0 .. q - 1 :
                       Read(s, idx + k * UnitSize, UnitSize) = Read(t, from + k * UnitSize, UnitSize)
           Rest == rem = 0 \/ Read(s, idx + n - rem, rem) = Read(t, from + n - rem, rem)
           Equal(i) == At(s, idx + i) = At(t, from + i)
<1>1. q \in Nat /\ rem \in Nat /\ rem < UnitSize /\ n = q * UnitSize + rem /\ q * UnitSize \in Nat
      /\ UnitSize \in Nat \ {0}
  BY DivMod, Product, UnitAssumption DEF Positions
<1>2. SameView(s, idx, t, from, n) <=> Units1 /\ Rest
  BY DEF SameView
<1> HIDE DEF q, rem
<1>3. ASSUME NEW k \in 0 .. q - 1
      PROVE  /\ k * UnitSize \in Nat /\ k * UnitSize + UnitSize <= n
             /\ Read(s, idx + k * UnitSize, UnitSize) = Read(t, from + k * UnitSize, UnitSize)
                  <=> \A j \in 0 .. UnitSize - 1 : Equal(k * UnitSize + j)
  <2> DEFINE c == k * UnitSize
  <2>1. k \in Nat /\ k < q
    BY <1>1
  <2>2. c \in Nat /\ c + UnitSize <= q * UnitSize
    BY <1>1, <2>1, Product, ProductGrows
  <2> HIDE DEF c
  <2>3. c + UnitSize <= n
    BY <1>1, <2>2
  <2>4. /\ idx + c \in Nat /\ idx + c <= len1 /\ (idx + c) + UnitSize <= len1
        /\ from + c \in Nat /\ from + c <= len2 /\ (from + c) + UnitSize <= len2 /\ UnitSize \in 1 .. UnitSize
    BY <1>1, <2>2, <2>3
  <2>5. Read(s, idx + c, UnitSize) = Read(t, from + c, UnitSize)
          <=> \A j \in 0 .. UnitSize - 1 : At(s, (idx + c) + j) = At(t, (from + c) + j)
    <3>1. PICK a \in Nat : a = idx + c
      BY <2>4
    <3>2. PICK b \in Nat : b = from + c
      BY <2>4
    <3>3. PICK u \in 1 .. UnitSize : u = UnitSize
      BY <2>4
    <3>4. a <= len1 /\ b <= len2 /\ a + u <= len1 /\ b + u <= len2
      BY <2>4, <3>1, <3>2, <3>3
    <3>5. Read(s, a, u) = Read(t, b, u) <=> SameBits(s, a, t, b, u)
      BY <3>4, SameReads
    <3>6. QED
      BY <3>1, <3>2, <3>3, <3>5 DEF SameBits
  <2>6. \A j \in 0 .. UnitSize - 1 : (idx + c) + j = idx + (c + j) /\ (from + c) + j = from + (c + j)
    BY <1>1, <2>2
  <2>7. QED
    BY <2>2, <2>3, <2>5, <2>6 DEF c
<1>4. ASSUME rem # 0
      PROVE  Rest <=> \A j \in 0 .. rem - 1 : Equal(q * UnitSize + j)
  <2> DEFINE c == q * UnitSize
  <2>1. c \in Nat /\ n = c + rem /\ rem \in 1 .. UnitSize
    BY <1>1, <1>4
  <2> HIDE DEF c
  <2>2. /\ idx + c \in Nat /\ idx + c <= len1 /\ (idx + c) + rem <= len1 /\ idx + n - rem = idx + c
        /\ from + c \in Nat /\ from + c <= len2 /\ (from + c) + rem <= len2 /\ from + n - rem = from + c
    BY <1>1, <2>1
  <2>3. Read(s, idx + c, rem) = Read(t, from + c, rem)
          <=> \A j \in 0 .. rem - 1 : At(s, (idx + c) + j) = At(t, (from + c) + j)
    <3>1. PICK a \in Nat : a = idx + c
      BY <2>2
    <3>2. PICK b \in Nat : b = from + c
      BY <2>2
    <3>3. PICK u \in 1 .. UnitSize : u = rem
      BY <2>1
    <3>4. a <= len1 /\ b <= len2 /\ a + u <= len1 /\ b + u <= len2
      BY <2>2, <3>1, <3>2, <3>3
    <3>5. Read(s, a, u) = Read(t, b, u) <=> SameBits(s, a, t, b, u)
      BY <3>4, SameReads
    <3>6. QED
      BY <3>1, <3>2, <3>3, <3>5 DEF SameBits
  <2>4. \A j \in 0 .. rem - 1 : (idx + c) + j = idx + (c + j) /\ (from + c) + j = from + (c + j)
    BY <1>1, <2>1
  <2>5. QED
    BY <1>4, <2>2, <2>3, <2>4 DEF c
<1>5. ASSUME Units1, Rest, NEW i \in 0 .. n - 1
      PROVE  Equal(i)
  <2> DEFINE k == i \div UnitSize
             p == i % UnitSize
  <2>1. /\ k \in Nat /\ p \in Nat /\ p < UnitSize /\ i = k * UnitSize + p /\ k * UnitSize \in Nat
        /\ i \in Nat /\ i < n
    BY <1>1, DivMod, Product DEF Positions
  <2> HIDE DEF k, p
  <2>2. ~(q < k)
    <3>1. q < k => q * UnitSize + UnitSize <= k * UnitSize
      BY <1>1, <2>1, ProductGrows
    <3>2. QED
      BY <1>1, <2>1, <3>1
  <2>3. CASE k < q
    <3>1. k \in 0 .. q - 1 /\ p \in 0 .. UnitSize - 1
      BY <1>1, <2>1, <2>3
    <3>2. Equal(k * UnitSize + p)
      BY <1>3, <1>5, <3>1
    <3>3. QED
      BY <2>1, <3>2
  <2>4. CASE k = q
    <3>1. rem # 0 /\ p \in 0 .. rem - 1
      BY <1>1, <2>1, <2>4
    <3>2. Equal(q * UnitSize + p)
      BY <1>4, <1>5, <3>1
    <3>3. QED
      BY <2>1, <2>4, <3>2
  <2>5. QED
    BY <1>1, <2>1, <2>2, <2>3, <2>4
<1>6. ASSUME \A i \in 0 .. n - 1 : Equal(i)
      PROVE  Units1 /\ Rest
  <2>1. ASSUME NEW k \in 0 .. q - 1
        PROVE  Read(s, idx + k * UnitSize, UnitSize) = Read(t, from + k * UnitSize, UnitSize)
    <3>1. k * UnitSize \in Nat /\ k * UnitSize + UnitSize <= n
      BY <1>3
    <3> DEFINE c == k * UnitSize
    <3>2. \A j \in 0 .. UnitSize - 1 : c + j \in 0 .. n - 1
      <4> HIDE DEF c
      <4>1. c \in Nat /\ c + UnitSize <= n
        BY <3>1 DEF c
      <4>2. QED
        BY <1>1, <4>1
    <3>3. \A j \in 0 .. UnitSize - 1 : Equal(k * UnitSize + j)
      BY <1>6, <3>2
    <3>4. QED
      BY <1>3, <3>3
  <2>2. Rest
    <3>1. CASE rem = 0
      BY <3>1
    <3>2. CASE rem # 0
      <4>1. \A j \in 0 .. rem - 1 : q * UnitSize + j \in 0 .. n - 1
        BY <1>1
      <4>2. QED
        BY <1>4, <1>6, <3>2, <4>1
    <3>3. QED
      BY <3>1, <3>2
  <2>3. QED
    BY <2>1, <2>2
<1>7. QED
  BY <1>2, <1>5, <1>6 DEF SameBits

LEMMA SameObjects ==
    ASSUME IInv, NEW x \in Names, NEW y \in Names
    PROVE  Same(x, y) <=> BitsOf(x) = BitsOf(y)
<1>1. ASSUME Same(x, y) PROVE BitsOf(x) = BitsOf(y)
  BY <1>1 DEF Same, BitsOf, Bit
<1>2. ASSUME BitsOf(x) = BitsOf(y) PROVE Same(x, y)
  <2> DEFINE n == len[x]
             s == storage[x]
             t == storage[y]
  <2>1. n = len[y]
    BY <1>2, MappedIs
  <2>2. n \in Nat /\ Good(s, n) /\ Good(t, n) /\ s \in StorageOf(n) /\ t \in StorageOf(n)
    BY <2>1, MappedIs DEF Good
  <2>3. Str(s, n) = Str(t, n)
    BY <1>2, <2>1, MappedIs
  <2> HIDE DEF n, s, t
  <2>4. ASSUME NEW i \in Cells(n) PROVE At(s, i) = At(t, i)
    <3>1. i \in Nat
      BY DEF Cells
    <3>2. CASE i < n
      <4>1. i + 1 \in 1 .. n /\ (i + 1) - 1 = i
        BY <2>2, <3>1, <3>2
      <4>2. Str(s, n)[i + 1] = At(s, i) /\ Str(t, n)[i + 1] = At(t, i)
        BY <4>1 DEF Str
      <4>3. QED
        BY <2>3, <4>2
    <3>3. CASE ~(i < n)
      <4>1. i >= n
        BY <2>2, <3>1, <3>3
      <4>2. QED
        BY <2>2, <4>1 DEF Good, TailZero
    <3>4. QED
      BY <3>2, <3>3
  <2>5. s = t
    BY <2>2, <2>4, BitsMakeStorage
  <2>6. QED
    BY <2>1, <2>5 DEF Same, n, s, t
<1>3. QED
  BY <1>1, <1>2

(* Objects, and views of them in any position, are equal exactly when their  *)
(* bits are: although Bits::operator== compares whole units, and that of     *)
(* views reads a unit at a time and then the rest.                         *)
THEOREM EqualityComparesBits == Spec => []EqualityIsOfBits
<1>1. IInv => EqualityIsOfBits
  <2> SUFFICES ASSUME IInv, NEW x \in Names, NEW y \in Names,
                      NEW idx \in Offs(x), NEW from \in Offs(y), NEW n \in Sizes(x),
                      View(x, idx, n), View(y, from, n)
               PROVE  SameView(storage[x], idx, storage[y], from, n)
                        <=> \A i \in 0 .. n - 1 : Bit(x, idx + i) = Bit(y, from + i)
    BY SameObjects DEF EqualityIsOfBits
  <2>1. /\ len[x] \in Nat /\ storage[x] \in StorageOf(len[x]) /\ idx \in Nat /\ n \in Nat /\ idx + n <= len[x]
        /\ len[y] \in Nat /\ storage[y] \in StorageOf(len[y]) /\ from \in Nat /\ from + n <= len[y]
    BY DEF IInv, Good, Offs, Sizes, View
  <2>2. SameView(storage[x], idx, storage[y], from, n)
          <=> \A i \in 0 .. n - 1 : At(storage[x], idx + i) = At(storage[y], from + i)
    <3>1. PICK n1 \in Nat : n1 = len[x]
      BY <2>1
    <3>2. PICK n2 \in Nat : n2 = len[y]
      BY <2>1
    <3>3. PICK s \in StorageOf(n1) : s = storage[x]
      BY <2>1, <3>1
    <3>4. PICK t \in StorageOf(n2) : t = storage[y]
      BY <2>1, <3>2
    <3>5. idx \in Nat /\ n \in Nat /\ from \in Nat /\ idx + n <= n1 /\ from + n <= n2
      BY <2>1, <3>1, <3>2
    <3>6. SameView(s, idx, t, from, n) <=> SameBits(s, idx, t, from, n)
      BY <3>5, SameViews
    <3>7. QED
      BY <3>3, <3>4, <3>6 DEF SameBits
  <2>3. QED
    BY <2>2 DEF Bit, At
<1>2. QED
  BY <1>1, StorageIsGood, PTL
=============================================================================
