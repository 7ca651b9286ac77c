----------------------------- MODULE MCExprEval -----------------------------
(* Instances of ExprEval: numbers of five bits, three by default. *)
EXTENDS ExprEval

Const(id, size, n) == Result(Type(id, size), Number(n), TRUE)

SmallLiterals ==
  {Const("Int", 2, 1), Const("Unsigned", 2, 3), Const("Int", 5, MinInteger), Const("Bool", 1, 1)}
SmallVarTypes  == [x |-> Type("Int", 2), b |-> Type("Bool", 2), n |-> Type("Unary", 2),
                   z |-> Type("Bits", 2)]
SmallInitVals  == [x |-> {Number(-2), Number(1)}, b |-> {Number(3)}, n |-> {Number(1)},
                   z |-> {BitsOf(2, 2)}]
SmallConstants == [c |-> Const("Int", 3, 3)]
SmallFields    == [p |-> Type("Unsigned", 3), q |-> Type("Int", 2)]
SmallOrder     == <<"p", "q">>
SmallCasts     == {Type("Unsigned", 3), Type("Bits", 3), Type("Int", 2)}
=============================================================================
