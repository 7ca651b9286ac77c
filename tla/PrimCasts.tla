----------------------------- MODULE PrimCasts -----------------------------
(***************************************************************************)
(* Conversions between the primitive types: which are allowed, implicitly  *)
(* and explicitly, what they do, and which of them an operator asks for    *)
(* (src/semantic/type/builtin, src/semantic/type/prim.cpp,                 *)
(* src/semantic/type/ops.cpp).                                             *)
(*                                                                         *)
(* A target is a type, or an identifier alone: a type without a size.      *)
(***************************************************************************)
EXTENDS PrimOps

AnyOf(id) == Type(id, 0)
IsId(t) == t.size = 0

-----------------------------------------------------------------------------
(* Castability: is_castable_to_prim, by identifier and by type *)

IntToId(id, expl)   == id \in {"Int", "Bits"} \/ (expl /\ id # "Bool")
BoolToId(id, expl)  == id \in {"Bool", "Bits"} \/ expl
BitsToId(id, expl)  == id = "Bits" \/ expl
UnsignedToId(size, id) == id = "Bool" => size = 1
UnaryToId(size, id)    == id = "Bool" => size = 1

CastableToId(from, id, expl) ==
  CASE from.id = "Int"      -> IntToId(id, expl)
    [] from.id = "Unsigned" -> UnsignedToId(from.size, id)
    [] from.id = "Unary"    -> UnaryToId(from.size, id)
    [] from.id = "Bool"     -> BoolToId(id, expl)
    [] OTHER                -> BitsToId(id, expl)

IntTo(size, t, expl) ==
  \/ t.id \in {"Int", "Bits"} /\ t.size >= size
  \/ t.id # "Bool" /\ expl
UnsignedTo(from, t, expl) ==
  CASE t.id = "Bool"  -> from.size = 1
    [] t.id = "Int"   -> expl \/ t.size = Cap(from, t) \/ t.size > from.size
    [] t.id = "Unary" -> expl \/ UnsignedMax(from.size) <= t.size
    [] OTHER          -> expl \/ t.size >= from.size
UnaryTo(size, t, expl) ==
  CASE t.id = "Bool"     -> size = 1
    [] t.id = "Int"      -> expl \/ IntegerMax(t.size) >= size
    [] t.id = "Unsigned" -> expl \/ UnsignedMax(t.size) >= size
    [] OTHER             -> expl \/ t.size >= size
\* A Bool is a Bits of its size or more, even explicitly.
BoolTo(size, t, expl) == IF t.id = "Bits" THEN t.size >= size ELSE BoolToId(t.id, expl)
BitsTo(size, t, expl) == expl \/ (t.id = "Bits" /\ t.size >= size)

CastableToType(from, t, expl) ==
  CASE from.id = "Int"      -> IntTo(from.size, t, expl)
    [] from.id = "Unsigned" -> UnsignedTo(from, t, expl)
    [] from.id = "Unary"    -> UnaryTo(from.size, t, expl)
    [] from.id = "Bool"     -> BoolTo(from.size, t, expl)
    [] OTHER                -> BitsTo(from.size, t, expl)

\* The value of a constant may allow what its type does not: is_impl_castable_to_prim.
IntFits(n, t) ==
  CASE t.id \in {"Int", "Bits"} -> IntBitsize(n) <= t.size
    [] t.id = "Unsigned" -> n >= 0 /\ Bitsize(n) <= t.size
    [] t.id = "Unary"    -> n >= 0 /\ n <= t.size
    [] OTHER             -> FALSE
\* The size of an Unsigned is compared with the greatest Int of the target.
UnsignedFits(from, n, t) ==
  CASE t.id = "Unary"    -> n <= t.size
    [] t.id = "Int"      -> n = 0 \/ Bitsize(n) <= IntegerMax(t.size)
    [] t.id = "Unsigned" -> n = 0 \/ Bitsize(n) <= t.size
    [] OTHER             -> UnsignedTo(from, t, FALSE)

\* Bits that are there shrink implicitly, and grow if they are known.
BitsFit(r, t) == t.size < r.type.size \/ Known(r)

ImplCastable(r, t) ==
  LET const == Known(r) /\ r.const
  IN CASE IsId(t) /\ r.type.id = "Int" /\ t.id \in {"Unsigned", "Unary"} -> const /\ r.val.n >= 0
       [] IsId(t) -> CastableToId(r.type, t.id, FALSE)
       [] r.val # Unknown /\ r.type.id = "Bits" /\ t.id = "Bits" -> BitsFit(r, t)
       [] const /\ r.type.id = "Int"      -> IntFits(r.val.n, t)
       [] const /\ r.type.id = "Unsigned" -> UnsignedFits(r.type, r.val.n, t)
       [] OTHER -> CastableToType(r.type, t, FALSE)

ExplCastable(from, t) ==
  IF IsId(t) THEN CastableToId(from, t.id, TRUE) ELSE CastableToType(from, t, TRUE)
-----------------------------------------------------------------------------
(* Conversions: cast_to_prim *)

\* from_datum: a Bool becomes all zeros or all ones.
FromDatum(t, datum) ==
  CASE t.id = "Int"  -> {Number(n) : n \in IntegersFromDatum(datum, t.size)}
    [] t.id = "Bool" -> {BoolValue(IsTrue(datum, t.size), t.size)}
    [] t.id = "Bits" -> {BitsOf(datum, t.size)}
    [] OTHER -> {Number(datum)}

\* to_datum: only Int is cut to its size.
ToDatum(t, val) ==
  CASE t.id = "Int"  -> IntegerToDatum(val.n, t.size)
    [] t.id = "Bool" -> BoolValue(IsTrue(val.n, t.size), t.size).n
    [] OTHER -> val.n

Clamped(t, n) == Least(Most(n, LeastOf(t)), MostOf(t))

\* The number that a value of a type that counts stands for.
NumberOf(from, val) == IF from.id = "Unary" THEN CountOnes(val.n) ELSE val.n

\* A number that becomes Bits is cut to the smaller size, except Unsigned, whose
\* value is written as it is.
NumberTo(from, n, t) ==
  LET size == Least(from.size, t.size)
  IN CASE t.id = "Bool"  -> BoolValue(n # 0, t.size)
       [] t.id = "Unary" -> UnaryValue(Clamped(t, n))
       [] t.id # "Bits"  -> Number(Clamped(t, n))
       [] from.id = "Int" -> BitsOf(TruncateInteger(n, size) % 2^size, t.size)
       [] from.id = "Unary" -> BitsOf(Ones(Least(n, size)), t.size)
       [] OTHER -> BitsOf(n, t.size)

TruthTo(from, truth, t) ==
  CASE t.id = "Bool" -> BoolValue(truth, t.size)
    [] t.id = "Bits" -> BitsOf(BoolValue(truth, Least(from.size, t.size)).n, t.size)
    [] OTHER -> Number(IF truth THEN 1 ELSE 0)

\* The values that a known value of type `from` may become.
Converted(from, val, t) ==
  CASE from.id = "Bits" /\ t.id = "Bits" -> {BitsOf(val.n, t.size)}
    [] from.id = "Bits" -> FromDatum(t, val.n % 2^Least(from.size, t.size))
    [] from.id = "Bool" -> {TruthTo(from, IsTrue(val.n, from.size), t)}
    [] OTHER -> {NumberTo(from, NumberOf(from, val), t)}

\* A Unary is counted with the size of the target, which may be too small for it.
CastTo(r, t) ==
  CASE ~Known(r) -> {Result(t, Unknown, FALSE)}
    [] r.type.id = "Unary" /\ CountOnes(r.val.n) > t.size -> {Failed("stop")}
    [] OTHER -> {Result(t, v, r.const) : v \in Converted(r.type, r.val, t)}

\* Mutant: the value chooses the size whether or not it is a constant.
NumberSizeOfValue(from, n, const, id) ==
  IF id = "Unsigned" THEN Bitsize(Most(n, 0)) ELSE IntBitsize(n)

\* The size that a conversion to an identifier chooses: of a constant, what the
\* value needs; of another value, what the type needs.
IntSize(from, n, const, id) ==
  CASE const /\ id = "Unsigned" -> Bitsize(Most(n, 0))
    [] id = "Unsigned"          -> Most(1, from.size - 1)
    [] OTHER                    -> from.size
UnsignedSize(from, n, const, id) ==
  IF id = "Unsigned" THEN from.size
  ELSE Least((IF const THEN Bitsize(n) ELSE from.size) + 1, Cap(from, from))
UnarySize(from, n, const, id) ==
  LET most == IF const THEN n ELSE from.size
  IN IF id = "Unsigned" THEN Bitsize(most) ELSE IntBitsize(most)
NumberSize(from, n, const, id) ==
  CASE from.id = "Int"      -> IntSize(from, n, const, id)
    [] from.id = "Unsigned" -> UnsignedSize(from, n, const, id)
    [] OTHER                -> UnarySize(from, n, const, id)

\* An operand is only converted to an identifier that is not its own.  A Unary
\* becomes a constant whatever it was.
CastToId(r, id) ==
  LET from  == r.type
      const == Known(r) /\ r.const
      n     == IF Known(r) THEN NumberOf(from, r.val) ELSE 0
      t     == CASE id = "Bits" -> Type("Bits", from.size)
                 [] id = "Bool" -> Boolean
                 [] OTHER -> Type(id, NumberSize(from, n, const, id))
  IN CASE ~Known(r) -> Result(t, Unknown, FALSE)
       [] from.id = "Unary" /\ n > from.size -> Failed("stop")
       [] id = "Bits" -> Result(t, BitsOf(ToDatum(from, r.val), from.size),
                                const \/ from.id = "Unary")
       [] OTHER -> Result(t, NumberTo(from, n, t), const \/ from.id = "Unary")

Converts(r, t) == IF IsId(t) THEN {CastToId(r, t.id)} ELSE CastTo(r, t)
-----------------------------------------------------------------------------
(* Type operators and common types *)

TypeOps == {"minof", "maxof", "sizeof"}
AllOnes(t) == t.id \in {"Bool", "Unary"}
TypeOp(op, t) ==
  CASE op = "sizeof"  -> Result(Type("Unsigned", DefaultSize), Number(t.size), TRUE)
    [] t.id = "Bits"  -> Failed("error")
    [] AllOnes(t)     -> Result(t, Number(IF op = "minof" THEN 0 ELSE Ones(t.size)), TRUE)
    [] OTHER -> Result(t, Number(IF op = "minof" THEN LeastOf(t) ELSE MostOf(t)), TRUE)

\* common_prim: types of one identifier have the larger of the two in common;
\* with values, a constant may take the type of the other.
CommonTypes(l, r, values) ==
  LET takes(from, t) == IF values THEN ImplCastable(from, t)
                                ELSE CastableToType(from.type, t, FALSE)
  IN CASE l.type = r.type -> {l.type}
       [] l.type.id # r.type.id -> {}
       [] takes(r, l.type) -> {l.type}
       [] takes(l, r.type) -> {r.type}
       [] OTHER -> {}
-----------------------------------------------------------------------------
(* What an operator asks of its operands: binary_op_type_check *)

IsNumeric(t) == t.id \in {"Int", "Unsigned", "Unary"}
Equality == {"Equal", "NotEqual"}
Shifts   == {"ShiftLeft", "ShiftRight"}
Kind(op) ==
  CASE op = "Assign"     -> "Assign"
    [] op \in Equality   -> "Equality"
    [] op \in Comparisons -> "Comparison"
    [] op \in {"And", "Or", "Negate"} -> "Logical"
    [] op \in Shifts \union {"BwAnd", "BwOr", "BwXor", "BwNot"} -> "Bitwise"
    [] OTHER -> "Numeric"

\* An operand is used as it is, converted implicitly, or refused.
Wants(action, t) == [action |-> action, type |-> t]
AsIs == Wants("none", Boolean)
Refused == Wants("refuse", Boolean)
Matched(r, t) ==
  CASE r.type.id = t.id /\ (IsId(t) \/ r.type = t) -> AsIs
    [] ImplCastable(r, t) -> Wants("cast", t)
    [] OTHER -> Refused

\* The check of a type alone, for operands whose values are not looked at.
MatchedType(r, id) == Matched([r EXCEPT !.val = Unknown], AnyOf(id))

\* Of two numbers of different kinds the first identifier that one of them has
\* is the target of the other.
NumericWants(as, l, r) ==
  LET ids == {l.type.id, r.type.id}
      target == IF "Int" \in ids /\ ~(as /\ l.type.id = "Unsigned") THEN "Int" ELSE "Unsigned"
  IN CASE l.type.id = r.type.id /\ l.type.id = "Unary" ->
            <<MatchedType(l, "Unsigned"), Matched(r, AnyOf("Unsigned"))>>
       [] l.type.id = r.type.id   -> <<AsIs, AsIs>>
       [] ~IsNumeric(l.type)      -> <<MatchedType(l, "Int"), Matched(r, AnyOf("Int"))>>
       [] l.type.id = target      -> <<AsIs, Matched(r, AnyOf(target))>>
       [] OTHER                   -> <<Matched(l, AnyOf(target)), AsIs>>

\* An operator on numbers asserts that its right operand is one.
RightIsNumeric(op, l, r) ==
  \/ Kind(op) \in {"Assign", "Logical", "Bitwise"}
  \/ Kind(op) = "Equality" /\ ~IsNumeric(l.type)
  \/ IsNumeric(r.type)

OperandWants(op, as, l, r) ==
  CASE op = "Assign" -> <<AsIs, Matched(r, l.type)>>
    [] Kind(op) = "Equality" /\ ~IsNumeric(l.type) ->
         <<AsIs, Matched(r, IF l.type.id = "Bool" THEN AnyOf("Bool") ELSE l.type)>>
    [] Kind(op) = "Logical" -> <<MatchedType(l, "Bool"), MatchedType(r, "Bool")>>
    [] Kind(op) = "Bitwise" ->
         <<MatchedType(l, "Bits"), Matched(r, AnyOf(IF op \in Shifts THEN "Unsigned" ELSE "Bits"))>>
    [] OTHER -> NumericWants(as, l, r)

UnaryWants(op, r) ==
  CASE Kind(op) = "Numeric" -> IF IsNumeric(r.type) THEN AsIs ELSE Refused
    [] Kind(op) = "Logical" -> MatchedType(r, "Bool")
    [] Kind(op) = "Bitwise" -> MatchedType(r, "Bits")
=============================================================================
