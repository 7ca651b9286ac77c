------------------------------ MODULE BitUnits ------------------------------
(***************************************************************************)
(* The class Bits and its views: bits stored in units of a fixed size,     *)
(* from the left, the last unit filled up with zeros                       *)
(* (src/semantic/value/bits.cpp).                                          *)
(*                                                                         *)
(* A unit is a function from positions to bits, position 0 at the left.    *)
(* A value that is read or written is a unit with the bits at the right.   *)
(***************************************************************************)
EXTENDS Integers

CONSTANTS Names,    \* objects of the class Bits
          Lens,     \* lengths they may have
          UnitSize  \* bits of a unit

ASSUME UnitAssumption == UnitSize \in Nat \ {0}
ASSUME LensAssumption == Lens \subseteq Nat

VARIABLES len,      \* the length of every object
          storage   \* its units, numbered from 0

vars == <<len, storage>>

Least(a, b) == IF a < b THEN a ELSE b
-----------------------------------------------------------------------------
(* Units *)

Positions == 0..(UnitSize - 1)
Units == [Positions -> {0, 1}]
Zero  == [i \in Positions |-> 0]

And(u, v) == [i \in Positions |-> IF u[i] = 1 /\ v[i] = 1 THEN 1 ELSE 0]
Or(u, v)  == [i \in Positions |-> IF u[i] = 1 \/ v[i] = 1 THEN 1 ELSE 0]
Xor(u, v) == [i \in Positions |-> IF u[i] = v[i] THEN 0 ELSE 1]
Not(u)    == [i \in Positions |-> 1 - u[i]]
ShiftLeft(u, k)  == [i \in Positions |-> IF i + k < UnitSize THEN u[i + k] ELSE 0]
ShiftRight(u, k) == [i \in Positions |-> IF i >= k THEN u[i - k] ELSE 0]

\* n ones, with `shift` zeros at the right.
Mask(n, shift) ==
  [i \in Positions |-> IF UnitSize - shift - n <= i /\ i < UnitSize - shift THEN 1 ELSE 0]

StorageSize(n) == (n + UnitSize - 1) \div UnitSize
Cleared(n) == [u \in 0..(StorageSize(n) - 1) |-> Zero]
LastUnitMask(n) ==
  LET rem == n % UnitSize
  IN IF rem = 0 THEN Mask(UnitSize, 0) ELSE Mask(rem, UnitSize - rem)
-----------------------------------------------------------------------------
(* Reading and writing *)

ReadUnit(s, u, off, n) ==
  IF n = 0 THEN Zero ELSE And(ShiftRight(s[u], UnitSize - (off + n)), Mask(n, 0))

Read(s, idx, n) ==
  LET u   == idx \div UnitSize
      off == idx % UnitSize
      n1  == UnitSize - off
      n2  == n - n1
  IN IF off + n <= UnitSize THEN ReadUnit(s, u, off, n)
     ELSE Or(ShiftLeft(ReadUnit(s, u, off, n1), n2), ReadUnit(s, u + 1, 0, n2))

\* The value is not cut to n bits.
WriteUnit(s, u, start, n, value) ==
  LET shift == UnitSize - (start + n)
  IN IF n = 0 THEN s
     ELSE [s EXCEPT ![u] = Or(And(@, Not(Mask(n, shift))), ShiftLeft(value, shift))]

Write(s, idx, n, value) ==
  LET u   == idx \div UnitSize
      off == idx % UnitSize
      n1  == UnitSize - off
      n2  == n - n1
  IN IF off + n <= UnitSize THEN WriteUnit(s, u, off, n, value)
     ELSE WriteUnit(WriteUnit(s, u, off, n1, ShiftRight(value, n2)), u + 1, 0, n2, value)

\* A view from `from` on, of n bits, is written unit by unit.
WriteView(s, idx, other, from, n) ==
  LET written[k \in 0..StorageSize(n)] ==
        IF k = 0 THEN s
        ELSE LET done == (k - 1) * UnitSize
                 size == Least(UnitSize, n - done)
             IN Write(written[k - 1], idx + done, size, Read(other, from + done, size))
  IN written[StorageSize(n)]

CopyView(other, from, n) == WriteView(Cleared(n), 0, other, from, n)
-----------------------------------------------------------------------------
(* Operators *)

Apply(op, u, v) ==
  CASE op = "and" -> And(u, v) [] op = "or" -> Or(u, v) [] op = "xor" -> Xor(u, v)

\* Mutant: the other view is aligned at the left.
BinOpLeft(op, s, idx, n, other, from, m) ==
  LET applied[k \in 0..StorageSize(n)] ==
        IF k = 0 THEN s
        ELSE LET done == (k - 1) * UnitSize
                 size == Least(UnitSize, n - done)
                 size2 == Least(size, m - done)
             IN Write(applied[k - 1], idx + done, size,
                      Apply(op, Read(s, idx + done, size),
                            IF size2 > 0 THEN Read(other, from + done, size2) ELSE Zero))
  IN applied[StorageSize(n)]

\* Unit by unit from the right; off1 and off2 are offsets from the right.
BinOp(op, s, idx, n, other, from, m) ==
  LET applied[k \in 0..StorageSize(n)] ==
        IF k = 0 THEN s
        ELSE LET off1  == Least(k * UnitSize, n)
                 size1 == off1 - (k - 1) * UnitSize
                 off2  == Least(off1, m)
                 size2 == IF off1 > m THEN m + size1 - off1 ELSE size1
                 u2    == IF m + size1 > off1 THEN Read(other, from + m - off2, size2) ELSE Zero
             IN Write(applied[k - 1], idx + n - off1, size1,
                      Apply(op, Read(applied[k - 1], idx + n - off1, size1), u2))
  IN applied[StorageSize(n)]

\* Mutant: a rest that is shorter than a unit is not compared.
SameUnits(s, idx, t, from, n) ==
  \A k \in 0..(n \div UnitSize - 1) :
    Read(s, idx + k * UnitSize, UnitSize) = Read(t, from + k * UnitSize, UnitSize)

\* Two views of n bits are equal; two objects.
SameView(s, idx, t, from, n) ==
  LET rem == n % UnitSize
  IN /\ \A k \in 0..(n \div UnitSize - 1) :
          Read(s, idx + k * UnitSize, UnitSize) = Read(t, from + k * UnitSize, UnitSize)
     /\ rem = 0 \/ Read(s, idx + n - rem, rem) = Read(t, from + n - rem, rem)
Same(x, y) == len[x] = len[y] /\ storage[x] = storage[y]

Flipped(s, n) ==
  [u \in DOMAIN s |-> IF u = StorageSize(n) - 1 THEN And(Not(s[u]), LastUnitMask(n)) ELSE Not(s[u])]

\* Mutant: the bits that are shifted beyond the end are kept.
ShiftedRightUnmasked(s, n, shift) ==
  LET whole == shift \div UnitSize
      rem   == shift % UnitSize
      moved(u) == LET v == u - whole
                  IN IF v > 0 /\ rem > 0
                     THEN Or(ShiftRight(s[v], rem), ShiftLeft(And(s[v - 1], Mask(rem, 0)), UnitSize - rem))
                     ELSE ShiftRight(s[v], rem)
  IN IF shift >= n THEN Cleared(n)
     ELSE [u \in DOMAIN s |-> IF u < whole THEN Zero ELSE moved(u)]

\* Whole units are moved, and the rest taken from two neighbours.
ShiftedLeft(s, n, shift) ==
  LET whole == shift \div UnitSize
      rem   == shift % UnitSize
      from(u)  == u + whole
      moved(u) == IF rem > 0 /\ from(u) + 1 \in DOMAIN s
                  THEN Or(ShiftLeft(s[from(u)], rem),
                          ShiftRight(And(s[from(u) + 1], Mask(rem, UnitSize - rem)), UnitSize - rem))
                  ELSE ShiftLeft(s[from(u)], rem)
  IN CASE n = 0 \/ shift = 0 -> s
       [] shift >= n -> Cleared(n)
       [] OTHER -> [u \in DOMAIN s |-> IF from(u) \in DOMAIN s THEN moved(u) ELSE Zero]

ShiftedRight(s, n, shift) ==
  LET whole == shift \div UnitSize
      rem   == shift % UnitSize
      last  == StorageSize(n) - 1
      moved(u) == LET v == u - whole
                  IN IF v > 0 /\ rem > 0
                     THEN Or(ShiftRight(s[v], rem), ShiftLeft(And(s[v - 1], Mask(rem, 0)), UnitSize - rem))
                     ELSE ShiftRight(s[v], rem)
  IN CASE n = 0 \/ shift = 0 -> s
       [] shift >= n -> Cleared(n)
       [] OTHER -> [u \in DOMAIN s |-> CASE u < whole -> Zero
                                         [] u = last  -> And(moved(u), LastUnitMask(n))
                                         [] OTHER     -> moved(u)]
-----------------------------------------------------------------------------
(* Operations on objects *)

Init == /\ len = [x \in Names |-> 0]
        /\ storage = [x \in Names |-> Cleared(0)]

Become(x, n, s) == len' = [len EXCEPT ![x] = n] /\ storage' = [storage EXCEPT ![x] = s]
Change(x, s)    == storage' = [storage EXCEPT ![x] = s] /\ UNCHANGED len

\* A range of an object: a view.
View(x, off, n) == off + n <= len[x]
Offs(x)    == 0..(len[x] - 1)
Sizes(x)   == 1..len[x]
Ops        == {"and", "or", "xor"}

New(x)  == \E n \in Lens : Become(x, n, Cleared(n))
Flip(x) == Change(x, Flipped(storage[x], len[x]))
Shift(x) ==
  \E k \in 0..(len[x] + 1) : \/ Change(x, ShiftedLeft(storage[x], len[x], k))
                             \/ Change(x, ShiftedRight(storage[x], len[x], k))

CopyOf(x, y) == Become(x, len[y], storage[y])

\* What is moved from is left empty, unless it is moved to itself.
Move(x, y) ==
  IF x = y THEN UNCHANGED vars
  ELSE /\ len' = [len EXCEPT ![x] = len[y], ![y] = 0]
       /\ storage' = [storage EXCEPT ![x] = storage[y], ![y] = Cleared(0)]

WriteBit(x) ==
  \E i \in Offs(x), bit \in {0, 1} :
    LET u == i \div UnitSize
    IN Change(x, [storage[x] EXCEPT ![u][i % UnitSize] = bit])

\* The value that is written has no more bits than are written: see ToDatum.
WriteValue(x) ==
  \E idx \in Offs(x), n \in 1..UnitSize, value \in Units :
    /\ View(x, idx, n) /\ value = And(value, Mask(n, 0))
    /\ Change(x, Write(storage[x], idx, n, value))

\* The two views are of different objects.
WriteFrom(x, y) ==
  \E idx \in Offs(x), from \in Offs(y), n \in Sizes(x) :
    /\ x # y /\ View(x, idx, n) /\ View(y, from, n)
    /\ Change(x, WriteView(storage[x], idx, storage[y], from, n))

Assign(x, y) ==
  \E op \in Ops, idx \in Offs(x), n \in Sizes(x), from \in Offs(y), m \in Sizes(y) :
    /\ View(x, idx, n) /\ View(y, from, m)
    /\ x = y => idx = from /\ n = m
    /\ Change(x, BinOp(op, storage[x], idx, n, storage[y], from, m))

\* The longer operand is copied, and the other one applied to the copy.
Operator(x, y) ==
  \E op \in Ops :
    IF len[y] > len[x]
    THEN Become(x, len[y], BinOp(op, storage[y], 0, len[y], storage[x], 0, len[x]))
    ELSE Change(x, BinOp(op, storage[x], 0, len[x], storage[y], 0, len[y]))

CopyFrom(x, y) ==
  \E from \in Offs(y), n \in Lens :
    /\ n > 0 /\ View(y, from, n) /\ Become(x, n, CopyView(storage[y], from, n))

Next == \E x \in Names :
  \/ New(x) \/ Flip(x) \/ Shift(x) \/ WriteBit(x) \/ WriteValue(x)
  \/ \E y \in Names :
       \/ CopyOf(x, y) \/ Move(x, y) \/ WriteFrom(x, y) \/ Assign(x, y)
       \/ Operator(x, y) \/ CopyFrom(x, y)

Spec == Init /\ [][Next]_vars
-----------------------------------------------------------------------------
(* Properties *)

Bit(x, i)  == storage[x][i \div UnitSize][i % UnitSize]
BitsOf(x)  == [i \in 1..len[x] |-> Bit(x, i - 1)]

\* The bits of the last unit beyond the length are zero: Bits::empty and the shift
\* to the left assert it, comparing objects and shifting rely on it.
TailIsZero ==
  \A x \in Names : \A u \in DOMAIN storage[x] : \A i \in Positions :
    u * UnitSize + i >= len[x] => storage[x][u][i] = 0

\* Objects are equal when their bits are, although whole units are compared, and so
\* are views in any position: Bits::operator==, BitsView::operator==.
EqualityIsOfBits ==
  \A x, y \in Names :
    /\ Same(x, y) <=> BitsOf(x) = BitsOf(y)
    /\ \A idx \in Offs(x), from \in Offs(y), n \in Sizes(x) :
         View(x, idx, n) /\ View(y, from, n) =>
           (SameView(storage[x], idx, storage[y], from, n)
              <=> \A i \in 0..(n - 1) : Bit(x, idx + i) = Bit(y, from + i))

\* Every operation on units does what it promises on strings of bits, whatever
\* units a range lies in.
Strings == INSTANCE BitStrings WITH Chunk <- UnitSize, bits <- [x \in Names |-> BitsOf(x)]
ImplementsStrings == Strings!Spec
=============================================================================
