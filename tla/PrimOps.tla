------------------------------ MODULE PrimOps ------------------------------
(***************************************************************************)
(* The primitive types Int, Unsigned, Unary, Bool and Bits: what their     *)
(* operators and casts do with values of a fixed width                     *)
(* (libulam/utils/integer.hpp, src/semantic/type/builtin).                 *)
(*                                                                         *)
(* A type is an identifier and a size.  A value is a number; for Bits len  *)
(* is the number of bits it has, for the other types it is zero.  Unary    *)
(* and Bool values are the patterns of bits that represent them.  A result *)
(* says the type, the value, whether it is a constant and how the          *)
(* operation ended: "ok", "error" for a diagnostic and "stop" where an     *)
(* assertion fails or the processor traps.                                 *)
(***************************************************************************)
EXTENDS Integers, FiniteSetsExt

CONSTANTS MaxIntSize,   \* ULAM_MAX_INT_SIZE, the width of Integer and Unsigned
          DefaultSize,  \* of Int, Unsigned, Unary and Bits
          CIntSize      \* the width of int

ASSUME SizesAssumption ==
  /\ MaxIntSize \in Nat /\ DefaultSize \in Nat /\ CIntSize \in Nat
  /\ 1 < DefaultSize /\ DefaultSize < MaxIntSize
  /\ 1 < CIntSize /\ CIntSize <= MaxIntSize
  /\ MaxIntSize < 2^DefaultSize  \* a width is a number of the default size

Ids == {"Int", "Unsigned", "Unary", "Bool", "Bits"}
Type(id, size) == [id |-> id, size |-> size]
Boolean == Type("Bool", 1)

Number(n)    == [n |-> n, len |-> 0]
BitsOf(n, l) == [n |-> n % 2^l, len |-> l]
Unknown      == [n |-> 0, len |-> -1]
Unread       == [n |-> 0, len |-> -2]  \* of a variable, which is there but not known

Result(t, v, c) == [type |-> t, val |-> v, const |-> c, end |-> "ok"]
Failed(end)     == [type |-> Boolean, val |-> Unknown, const |-> FALSE, end |-> end]

Least(a, b) == IF a < b THEN a ELSE b
Most(a, b)  == IF a < b THEN b ELSE a
-----------------------------------------------------------------------------
(* Numbers of the width of the machine: libulam/utils/integer.hpp *)

ToInteger(n)  == ((n + 2^(MaxIntSize - 1)) % 2^MaxIntSize) - 2^(MaxIntSize - 1)
ToUnsigned(n) == n % 2^MaxIntSize

UnsignedMax(size) == 2^size - 1
IntegerMin(size)  == -(2^(size - 1))
IntegerMax(size)  == 2^(size - 1) - 1

MaxUnsigned == UnsignedMax(MaxIntSize)
MaxInteger  == IntegerMax(MaxIntSize)
MinInteger  == IntegerMin(MaxIntSize)

\* The division of C rounds towards zero.
Abs(n) == IF n < 0 THEN -n ELSE n
Quotient(a, b)  == IF (a < 0) = (b < 0) THEN Abs(a) \div Abs(b) ELSE -(Abs(a) \div Abs(b))
Remainder(a, b) == a - b * Quotient(a, b)

Bitsize(u) == IF u = 0 THEN 1 ELSE CHOOSE k \in 1..MaxIntSize : 2^(k - 1) <= u /\ u < 2^k
IntBitsize(n) ==
  IF n = 0 THEN 1
  ELSE LET size == Bitsize(IF n = MinInteger THEN MaxUnsigned ELSE Abs(n))
       IN IF n = IntegerMin(size) THEN size ELSE size + 1

Ones(k) == 2^k - 1
CountOnes(u) == Cardinality({k \in 0..(MaxIntSize - 1) : (u \div 2^k) % 2 = 1})

TruncateUnsigned(u, size) == Least(u, UnsignedMax(size))
TruncateInteger(n, size) ==
  IF n < 0 THEN Most(n, IntegerMin(size)) ELSE Least(n, IntegerMax(size))

\* Mutant: the lower limit is off by one.
SafeSumIntOff(l, r) ==
  CASE l < 0 /\ r < 0 -> IF r + 1 < MinInteger - l THEN MinInteger ELSE l + r
    [] l > 0 /\ r > 0 -> IF r > MaxInteger - l THEN MaxInteger ELSE l + r
    [] OTHER -> l + r

SafeSumInt(l, r) ==
  CASE l < 0 /\ r < 0 -> IF r < MinInteger - l THEN MinInteger ELSE l + r
    [] l > 0 /\ r > 0 -> IF r > MaxInteger - l THEN MaxInteger ELSE l + r
    [] OTHER -> l + r

SafeDiffInt(l, r) ==
  CASE r = MinInteger /\ l < 0  -> MaxInteger + l + 1
    [] r = MinInteger /\ l >= 0 -> MaxInteger
    [] OTHER -> SafeSumInt(l, -r)

\* The code compares the right operand with the most that can be added to it.
SafeSumUnsigned(l, r) ==
  IF r > MaxUnsigned - r THEN MaxUnsigned ELSE ToUnsigned(l + r)

SafeProdUnsigned(l, r) ==
  IF l # 0 /\ r > MaxUnsigned \div l THEN MaxUnsigned ELSE l * r

SafeProdInt(l, r) ==
  CASE l = 0 \/ r = 0 -> 0
    [] (l < 0) = (r < 0) /\ (l = MinInteger \/ r = MinInteger) -> MaxInteger
    [] l > 0 /\ r > 0 -> IF r > Quotient(MaxInteger, l) THEN MaxInteger ELSE l * r
    [] l < 0 /\ r < 0 -> IF r < Quotient(MaxInteger, l) THEN MaxInteger ELSE l * r
    [] l = -1 /\ r > 0 -> -r
    [] l > 0 /\ r < 0 -> IF r < Quotient(MinInteger, l) THEN MinInteger ELSE l * r
    [] OTHER          -> IF r > Quotient(MinInteger, l) THEN MinInteger ELSE l * r

\* Dividing the least integer by -1 traps.
Divides(l, r) == ~(l = MinInteger /\ r = -1)
SafeQuot(l, r) == IF r = 0 THEN 0 ELSE Quotient(l, r)
SafeRem(l, r)  == IF r = 0 THEN l ELSE Remainder(l, r)

IntegerToDatum(n, size) == n % 2^size

\* `1 << (size - 1)` is an int, so a shift by its width or more is by the rest
\* or takes the bit meant; the mask of a number of one bit is shifted by the
\* width of the widest number, and is empty or all ones.
SignBits(size) == {2^((size - 1) % CIntSize), 2^(size - 1)}
Extended(datum, size) ==
  {ToInteger(datum + 2^MaxIntSize - 2^size)} \union (IF size = 1 THEN {datum} ELSE {})
IntegersFromDatum(datum, size) ==
  UNION {IF size < MaxIntSize /\ (datum \div sign) % 2 = 1
         THEN Extended(datum, size) ELSE {ToInteger(datum)} : sign \in SignBits(size)}
-----------------------------------------------------------------------------
(* Operators of the types *)

Comparisons == {"Equal", "NotEqual", "Less", "LessOrEq", "Greater", "GreaterOrEq"}
Compare(op, a, b) ==
  \/ op = "Equal" /\ a = b
  \/ op = "NotEqual" /\ a # b
  \/ op \in {"Less", "LessOrEq"} /\ a < b
  \/ op \in {"Greater", "GreaterOrEq"} /\ a > b
  \/ op \in {"LessOrEq", "GreaterOrEq"} /\ a = b

IsTrue(n, size) == CountOnes(n) >= (size + 1) \div 2
BoolValue(b, size) == Number(IF b THEN Ones(size) ELSE 0)
UnaryValue(k) == Number(Ones(k))

Known(r) == r.val \notin {Unknown, Unread}
Both(l, r) == l.const /\ r.const /\ Known(l) /\ Known(r)

\* The size of the result of an operator on numbers.  Above the default size
\* the next limit is the greatest size, where nothing is truncated.
Cap(l, r) == IF l.size > DefaultSize \/ r.size > DefaultSize THEN MaxIntSize ELSE DefaultSize
ResultType(op, as, l, r) ==
  CASE op \in Comparisons -> Boolean
    [] op = "Prod" /\ ~as -> Type(l.id, Least(Cap(l, r), l.size + r.size))
    [] ~as /\ (op = "Sum" \/ (op = "Diff" /\ l.id = "Int")) ->
         Type(l.id, Least(Most(l.size, r.size) + 1, Cap(l, r)))
    [] OTHER -> l

IntArith(op, l, r) ==
  CASE op = "Prod" -> SafeProdInt(l, r)
    [] op = "Sum"  -> SafeSumInt(l, r)
    [] op = "Diff" -> SafeDiffInt(l, r)
    [] op = "Quot" -> SafeQuot(l, r)
    [] op = "Rem"  -> SafeRem(l, r)
UnsignedArith(op, l, r) ==
  CASE op = "Prod" -> SafeProdUnsigned(l, r)
    [] op = "Sum"  -> SafeSumUnsigned(l, r)
    [] op = "Diff" -> IF l > r THEN l - r ELSE 0
    [] op = "Quot" -> SafeQuot(l, r)
    [] op = "Rem"  -> SafeRem(l, r)

Truncates(op, as, id) ==
  \/ op \in {"Sum", "Diff"} /\ as
  \/ op = "Prod" /\ (as \/ id = "Int")

\* binary_op of Int and of Unsigned; `as` distinguishes AssignSum from Sum.
NumericOp(op, as, l, r) ==
  LET type  == ResultType(op, as, l.type, r.type)
      const == ~as /\ Both(l, r)
      exact == IF l.type.id = "Int" THEN IntArith(op, l.val.n, r.val.n)
                                    ELSE UnsignedArith(op, l.val.n, r.val.n)
  IN CASE ~Known(l) \/ ~Known(r) -> Result(type, Unknown, FALSE)
       [] op \in Comparisons ->
            Result(type, BoolValue(Compare(op, l.val.n, r.val.n), 1), const)
       [] op \in {"Quot", "Rem"} /\ ~Divides(l.val.n, r.val.n) -> Failed("stop")
       [] Truncates(op, as, l.type.id) ->
            Result(type, Number(IF l.type.id = "Int" THEN TruncateInteger(exact, type.size)
                                ELSE TruncateUnsigned(exact, type.size)), const)
       [] OTHER -> Result(type, Number(exact), const)

\* The size of the right operand is not looked at.
BoolOp(op, l, r) ==
  LET a == IsTrue(l.val.n, l.type.size)
      b == IsTrue(r.val.n, r.type.size)
      truth == CASE op = "And" -> a /\ b
                 [] op = "Or"  -> a \/ b
                 [] OTHER -> Compare(op, a, b)
  IN IF Known(l) /\ Known(r)
     THEN Result(l.type, BoolValue(truth, l.type.size), Both(l, r))
     ELSE Result(l.type, Unknown, FALSE)

Bit(n, k) == (n \div 2^k) % 2
Bitwise(op, a, b, len) ==
  LET bit(k) == CASE op = "BwAnd" -> Least(Bit(a, k), Bit(b, k))
                  [] op = "BwOr"  -> Most(Bit(a, k), Bit(b, k))
                  [] op = "BwXor" -> (Bit(a, k) + Bit(b, k)) % 2
  IN MapThenSumSet(LAMBDA k : bit(k) * 2^k, 0..(len - 1))

\* A constant is shifted as if it had as few bits as it needs.
ShiftSize(l, shift) ==
  LET size == IF l.const /\ Known(l) THEN Least(l.type.size, Bitsize(l.val.n)) ELSE l.type.size
  IN CASE shift = 0 -> size
       [] size > DefaultSize -> MaxIntSize
       [] OTHER -> DefaultSize
Shifted(n, shift, len) == BitsOf(n * 2^Least(shift, len), len)
ShiftLeft(l, r) ==
  LET unknown == ~Known(l) \/ ~Known(r)
      shift == IF unknown /\ ~(Known(r) /\ r.const) THEN 1 ELSE r.val.n
      size  == ShiftSize(l, shift)
  IN Result(Type("Bits", size),
            IF unknown THEN Unknown ELSE Shifted(l.val.n, shift, size), Both(l, r))

\* Both patterns are aligned at the right; the result is as long as the left.
BitsOp(op, as, l, r) ==
  LET len == l.val.len
      n == CASE op = "ShiftLeft"  -> Shifted(l.val.n, r.val.n, len).n
             [] op = "ShiftRight" -> l.val.n \div 2^Least(r.val.n, len)
             [] OTHER -> Bitwise(op, l.val.n, r.val.n, len)
      unknown == ~Known(l) \/ ~Known(r)
  IN CASE op \in Comparisons ->
            Result(Boolean, IF unknown THEN Unknown ELSE BoolValue(Compare(op, l.val, r.val), 1),
                   Both(l, r))
       [] op = "ShiftLeft" /\ ~as -> ShiftLeft(l, r)
       [] OTHER -> Result(l.type, IF unknown THEN Unknown ELSE BitsOf(n, len), ~as /\ Both(l, r))

BinaryOp(op, as, l, r) ==
  CASE l.type.id \in {"Int", "Unsigned"} -> NumericOp(op, as, l, r)
    [] l.type.id = "Bool" -> BoolOp(op, l, r)
    [] l.type.id = "Bits" -> BitsOp(op, as, l, r)
    [] OTHER -> Failed("stop")

\* The minus of an Int is one, those of Unsigned and Unary become Int.
MinusInt(t, n, const) ==
  CASE n < IntegerMin(t.size) -> Failed("stop")
    [] n = IntegerMin(t.size) -> Result(t, Number(IntegerMax(t.size)), const)
    [] OTHER -> Result(t, Number(-n), const)
MinusUnsigned(size, n, const) ==
  LET wider == Least(size + 1, IF size > DefaultSize THEN MaxIntSize ELSE DefaultSize)
  IN Result(Type("Int", wider), Number(Most(IntegerMin(wider), ToInteger(-n))), const)
MinusUnary(size, ones, const) ==
  IF ones > size \/ Bitsize(ones) > DefaultSize THEN Failed("stop")
  ELSE Result(Type("Int", Bitsize(ones)), Number(-ones), const)

Minus(r) ==
  CASE r.type.id = "Int"      -> MinusInt(r.type, r.val.n, r.const)
    [] r.type.id = "Unsigned" -> MinusUnsigned(r.type.size, r.val.n, r.const)
    [] OTHER -> MinusUnary(r.type.size, CountOnes(r.val.n), r.const)

LeastOf(t) == IF t.id = "Int" THEN IntegerMin(t.size) ELSE 0
MostOf(t) == CASE t.id = "Int" -> IntegerMax(t.size)
               [] t.id = "Unsigned" -> UnsignedMax(t.size)
               [] OTHER -> t.size
Step(op, t, n) == CASE op = "Inc" /\ n < MostOf(t)  -> n + 1
                    [] op = "Dec" /\ n > LeastOf(t) -> n - 1
                    [] OTHER -> n
\* Inc and Dec stand for the operators before and after an operand.  Those of
\* Unary clear the flag of a constant in a copy that is not used.
IncDec(op, r) ==
  LET ones == CountOnes(r.val.n)
  IN CASE r.type.id # "Unary" -> Result(r.type, Number(Step(op, r.type, r.val.n)), FALSE)
       [] ones > r.type.size -> Failed("stop")
       [] OTHER -> Result(r.type, UnaryValue(Step(op, r.type, ones)), r.const)

UnaryOp(op, r) ==
  CASE ~Known(r) -> Result(r.type, Unknown, FALSE)  \* the type of a minus may differ
    [] op \in {"Inc", "Dec"} -> IncDec(op, r)
    [] op = "Minus"  -> Minus(r)
    [] op = "Plus"   -> Result(r.type, r.val, r.const)
    [] op = "Negate" -> Result(r.type, BoolValue(~IsTrue(r.val.n, r.type.size), r.type.size), r.const)
    [] op = "BwNot"  -> Result(r.type, BitsOf(-1 - r.val.n, r.val.len), r.const)
=============================================================================
