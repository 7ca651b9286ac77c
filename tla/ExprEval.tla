------------------------------ MODULE ExprEval ------------------------------
(***************************************************************************)
(* The evaluation of an expression on primitive values, twice: it is       *)
(* checked without being executed, as the body of a function is before     *)
(* anything calls it, and it is executed (src/sema/eval/expr_visitor.cpp,  *)
(* src/sema/eval/cast.cpp).  Checking knows the values of constants only   *)
(* and changes nothing; what it finds out about types and constants is     *)
(* what execution must do.                                                 *)
(*                                                                         *)
(* An expression is built in the order in which it is evaluated.  An       *)
(* operand keeps what checking and executing it gave; the operand of a     *)
(* branch that is not taken is only checked.  A place is a variable that   *)
(* the operand is the lvalue of: its value is read when it is used.        *)
(* Variables hold values; properties hold bits of one unit of storage, one *)
(* property next to the other, the last at the right.                      *)
(***************************************************************************)
EXTENDS PrimCasts, Sequences

CONSTANTS Literals,    \* results of literals and of type operators
          VarTypes,    \* a function from variables to their types
          FieldTypes,  \* a function from properties to their types
          FieldOrder,  \* the properties as they are stored, from the right
          Constants,   \* a function from constants to their results
          InitVals,    \* a function from variables to sets of initial values
          CastTypes,   \* targets of explicit casts
          Binaries, Unaries,  \* operators in use
          MaxOperands, \* bound: operands that wait for their operator
          MaxSteps     \* bound: leaves and operators of an expression


Vars   == DOMAIN VarTypes
Fields == DOMAIN FieldTypes
None   == "none"

VARIABLES local,  \* the values of variables and constants
          unit,   \* the unit of storage of the properties
          stack,  \* the operands that wait for their operator
          open,   \* the branches that have begun and not ended
          steps   \* leaves and operators so far

vars == <<local, unit, stack, open, steps>>
-----------------------------------------------------------------------------
(* Places *)

Before(f, g) == \E i, j \in 1..Len(FieldOrder) : i < j /\ FieldOrder[i] = f /\ FieldOrder[j] = g
Offset(f) == MapThenSumSet(LAMBDA g : FieldTypes[g].size, {g \in Fields : Before(g, f)})
UnitSize  == MapThenSumSet(LAMBDA g : FieldTypes[g].size, Fields)
BitsIn(u, f) == (u \div 2^Offset(f)) % 2^FieldTypes[f].size

TypeAt(place) == IF place \in Fields THEN FieldTypes[place]
                 ELSE IF place \in Vars THEN VarTypes[place] ELSE Constants[place].type
LoadFrom(values, u, place) ==
  IF place \in Fields THEN FromDatum(FieldTypes[place], BitsIn(u, place)) ELSE {values[place]}
Load(place) == LoadFrom(local, unit, place)

\* Mutant: the bits that were there before are not cleared.
UnitWithOr(u, f, val) ==
  Bitwise("BwOr", u, ToDatum(FieldTypes[f], val) * 2^Offset(f), UnitSize)

\* What is written is not cut to the size of the property.
UnitWith(u, f, val) ==
  Bitwise("BwOr", u - BitsIn(u, f) * 2^Offset(f),
          (ToDatum(FieldTypes[f], val) * 2^Offset(f)) % 2^UnitSize, UnitSize)

Written(place, val) ==
  IF place \in Fields THEN unit' = UnitWith(unit, place, val) /\ UNCHANGED local
                      ELSE local' = [local EXCEPT ![place] = val] /\ UNCHANGED unit
-----------------------------------------------------------------------------
(* Operands *)

\* chk is what checking found; lv is "var" if that is the lvalue of a variable,
\* "empty" for another lvalue, "no" for a value.  exe is what executing gave, at
\* place if that is an lvalue.  A regular operand is made by none of the steps
\* after which checking and executing may differ.
Operand(chk, lv, exe, place, regular, wrote, alive) ==
  [chk |-> chk, lv |-> lv, exe |-> exe, place |-> place,
   regular |-> regular, wrote |-> wrote, alive |-> alive]

Alive == \A i \in 1..Len(open) : open[i].alive
Running == \A i \in 1..Len(stack) : stack[i].chk.end = "ok" /\ stack[i].exe.end = "ok"
Ready(n) == /\ Running /\ steps < MaxSteps
            /\ Len(stack) >= n + (IF open = <<>> THEN 0 ELSE open[Len(open)].height)
Top(n) == stack[Len(stack) - n]

\* check: the value of what is not a constant is forgotten.
Noted(r) == IF r.const \/ r.val = Unread THEN r ELSE [r EXCEPT !.val = Unknown]

\* The results of reading an operand: an lvalue is read when it is used.
Values(o) ==
  IF o.place = None THEN {o.exe}
  ELSE {Result(o.exe.type, v, o.place \in DOMAIN Constants) : v \in Load(o.place)}

Fits(r) ==
  CASE ~Known(r) -> TRUE
    [] r.type.id = "Int"      -> r.val.n \in LeastOf(r.type)..MostOf(r.type)
    [] r.type.id = "Unsigned" -> r.val.n <= MostOf(r.type)
    [] r.type.id = "Unary"    -> r.val.n < 2^r.type.size
    [] OTHER -> TRUE

\* An operand that was only checked has no result of its own.
Skipped(chk) == [chk EXCEPT !.val = Unknown]

\* `res` replaces the n operands on top.
Replace(n, o) == stack' = SubSeq(stack, 1, Len(stack) - n) \o <<o>>
Count == steps' = steps + 1
-----------------------------------------------------------------------------
(* Operators on results *)

Recast(r, wants) ==
  CASE wants.action = "none" -> {r}
    [] wants.action = "cast" -> Converts(r, wants.type)
    [] OTHER -> {Failed("error")}

FirstFailure(l, r) == IF l.end # "ok" THEN l ELSE r
BinaryResults(op, as, l, r) ==
  LET wants == OperandWants(op, as, l, r)
      apply(a, b) == CASE a.end # "ok" \/ b.end # "ok" -> FirstFailure(a, b)
                       [] op = "Assign" -> b
                       [] OTHER -> BinaryOp(op, as, a, b)
  IN IF RightIsNumeric(op, l, r)
     THEN {apply(a, b) : a \in Recast(l, wants[1]), b \in Recast(r, wants[2])}
     ELSE {Failed("stop")}

UnaryResults(op, r) ==
  {IF a.end = "ok" THEN UnaryOp(op, a) ELSE a : a \in Recast(r, UnaryWants(op, r))}

CastResults(t, r) ==
  CASE r.type = t -> {r}
    [] ~ExplCastable(r.type, t) -> {Failed("error")}
    [] OTHER -> CastTo(r, t)

\* Converting a Unary that is not a constant makes a constant of it, and may
\* stop when the target is smaller.
FromUnary(r, wants) == wants.action = "cast" /\ r.type.id = "Unary" /\ ~r.const

\* The least value of a type is divided by -1: the quotient is beyond the type,
\* and at the width of the machine the division traps.
Traps(op, l, r) ==
  op \in {"Quot", "Rem"} /\ l.type.id = "Int" /\ l.val.n = IntegerMin(l.type.size) /\ r.val.n = -1
-----------------------------------------------------------------------------
(* Leaves *)

Init ==
  /\ local \in [Vars \union DOMAIN Constants -> UNION {InitVals[v] : v \in Vars}
                                                \union {Constants[c].val : c \in DOMAIN Constants}]
  /\ \A v \in Vars : local[v] \in InitVals[v]
  /\ \A c \in DOMAIN Constants : local[c] = Constants[c].val
  /\ unit = 0
  /\ stack = <<>> /\ open = <<>> /\ steps = 0

Push(o) == /\ Running /\ steps < MaxSteps
           /\ Len(stack) < MaxOperands + Len(open)
           /\ stack' = Append(stack, o) /\ Count
           /\ UNCHANGED <<local, unit, open>>

PushLiteral == \E r \in Literals : Push(Operand(r, "no", r, None, TRUE, FALSE, Alive))

PushVariable ==
  \E v \in Vars \union Fields :
    LET r == Result(TypeAt(v), IF v \in Vars THEN Unread ELSE Unknown, FALSE)
    IN Push(Operand(r, IF v \in Vars THEN "var" ELSE "empty", r, v, TRUE, FALSE, Alive))

PushConstant ==
  \E c \in DOMAIN Constants :
    Push(Operand(Constants[c], "var", Constants[c], c, TRUE, FALSE, Alive))
-----------------------------------------------------------------------------
(* Operators that do not assign *)

\* Executing follows an expression that the check accepted, on operands that
\* are executed; fits is false when an operand was out of its range.
Outcome(chk, lv, exe, place, regular, wrote, alive) ==
  IF alive /\ chk.end = "ok"
  THEN Operand(Noted(chk), lv, exe, place, regular, wrote, alive)
  ELSE Operand(Noted(chk), lv, Skipped(chk), None, regular, wrote, alive)

Read(o) == IF o.alive THEN Values(o) ELSE {o.chk}

\* The minus of a value that is not known has the type of the operand, and of a
\* value that is, Int.
Unary(op) ==
  /\ Ready(1) /\ Count
  /\ LET o == Top(0)
     IN \E chk \in UnaryResults(op, o.chk), r \in Read(o) :
          \E exe \in UnaryResults(op, r) :
            Replace(1, Outcome(chk, "no", exe, None,
                               /\ o.regular /\ Fits(r) /\ ~FromUnary(o.chk, UnaryWants(op, o.chk))
                               /\ ~(op = "Minus" /\ o.chk.type.id # "Int"),
                               o.wrote, o.alive))
  /\ UNCHANGED <<local, unit, open>>

\* An explicit cast.  A Unary that is not a constant is counted against the
\* size of the target.
Cast(t) ==
  /\ Ready(1) /\ Count
  /\ LET o == Top(0)
     IN \E chk \in CastResults(t, o.chk), r \in Read(o) :
          \E exe \in CastResults(t, r) :
            Replace(1, Outcome(chk, "no", exe, None,
                               /\ o.regular /\ Fits(r) /\ Cardinality(CastResults(t, r)) = 1
                               /\ ~(o.chk.type.id = "Unary" /\ t.size < o.chk.type.size),
                               o.wrote, o.alive))
  /\ UNCHANGED <<local, unit, open>>

\* A type operator on an expression: the expression is executed, but a branch of
\* which the check knows the result is not, and what it would assign is lost.
OfOperand(op) ==
  /\ Ready(1) /\ Count
  /\ LET o == Top(0)
     IN Replace(1, Outcome(TypeOp(op, o.chk.type), "no", TypeOp(op, o.exe.type), None,
                           o.regular /\ ~o.wrote, o.wrote, o.alive))
  /\ UNCHANGED <<local, unit, open>>

\* A left operand is read after the right one has been evaluated.  The check
\* takes a shift by an amount that it does not know for a shift by one.
Binary(op) ==
  /\ Ready(2) /\ Count
  /\ LET l == Top(1)
         r == Top(0)
         wants == OperandWants(op, FALSE, l.chk, r.chk)
     IN \E chk \in BinaryResults(op, FALSE, l.chk, r.chk), a \in Read(l), b \in Read(r) :
          \E exe \in BinaryResults(op, FALSE, a, b) :
            Replace(2, Outcome(chk, "no", exe, None,
                               /\ l.regular /\ r.regular /\ Fits(a) /\ Fits(b)
                               /\ ~FromUnary(l.chk, wants[1]) /\ ~FromUnary(r.chk, wants[2])
                               /\ ~Traps(op, a, b) /\ (op = "ShiftLeft" => Known(r.chk)),
                               l.wrote \/ r.wrote, l.alive))
  /\ UNCHANGED <<local, unit, open>>
-----------------------------------------------------------------------------
(* Assignment *)

\* An assignment to a constant is not refused; programs are taken not to do it.
Assignable(o) == o.lv # "no" /\ o.place \notin DOMAIN Constants
NotAssignable(n) ==
  /\ Replace(n, [Top(n - 1) EXCEPT !.chk = Failed("error")])
  /\ UNCHANGED <<local, unit>>

\* In execution only an operand that is an lvalue there can be assigned to.
Stored(o, exe) ==
  IF o.alive /\ o.place # None /\ exe.end = "ok"
  THEN Written(o.place, exe.val) ELSE UNCHANGED <<local, unit>>
Assigned(o, exe) == IF o.alive /\ o.place = None THEN Failed("error") ELSE exe

\* Increment and decrement, before or after the operand.
IncDecrement(op, post) ==
  /\ Ready(1) /\ Count /\ UNCHANGED open
  /\ LET o == Top(0)
     IN IF ~Assignable(o) \/ ~IsNumeric(o.chk.type)
        THEN NotAssignable(1)
        ELSE \E r \in Read(o) :
               LET exe == Assigned(o, UnaryOp(op, r))
                   res == IF exe.end = "ok" /\ post THEN r ELSE exe
               IN /\ Stored(o, exe)
                  /\ Replace(1, Outcome(o.chk, IF post THEN "no" ELSE o.lv, res,
                                        IF post THEN None ELSE o.place,
                                        o.regular /\ Fits(r), o.alive, o.alive))

\* A check that converts the left operand takes it for the result.
\* What is assigned is converted to the type of the variable, explicitly.
AssignOp(op) ==
  /\ Ready(2) /\ Count /\ UNCHANGED open
  /\ LET l == Top(1)
         r == Top(0)
         wants == OperandWants(op, TRUE, l.chk, r.chk)
         recast == wants[1].action = "cast"
     IN IF ~Assignable(l)
        THEN NotAssignable(2)
        ELSE \E chk \in BinaryResults(op, TRUE, l.chk, r.chk), a \in Read(l), b \in Read(r) :
             \E from \in BinaryResults(op, TRUE, a, b) :
             \E exe \in {Assigned(l, x) : x \in IF from.end = "ok" THEN CastResults(l.exe.type, from)
                                                ELSE {from}} :
               LET kept == IF recast THEN CHOOSE x \in Converts(l.chk, wants[1].type) : TRUE
                           ELSE l.chk
               IN /\ IF chk.end = "ok" THEN Stored(l, exe) ELSE UNCHANGED <<local, unit>>
                  /\ Replace(2, Outcome(IF chk.end = "ok" THEN kept ELSE chk,
                                        IF recast THEN "no" ELSE l.lv,
                                        [exe EXCEPT !.const = FALSE], l.place,
                                        /\ l.regular /\ r.regular /\ ~recast
                                        /\ (op = "Assign" \/ Fits(a)) /\ Fits(b)
                                        /\ ~FromUnary(r.chk, wants[2])
                                        /\ ~Traps(op, a, b)
                                        /\ Cardinality(CastResults(l.exe.type, from)) = 1,
                                        l.alive, l.alive))
-----------------------------------------------------------------------------
(* Operators that may not evaluate an operand *)

\* Mutant: `&&` and `||` stop at each other's value.
DecidesSwapped(op, o, r) ==
  LET truth == IF r.type.id = "Bool" THEN IsTrue(r.val.n, r.type.size) ELSE r.val.n # 0
  IN truth = (op = "And")

Decides(op, o, r) ==
  LET truth == IF r.type.id = "Bool" THEN IsTrue(r.val.n, r.type.size) ELSE r.val.n # 0
  IN truth = (op = "Or")

Mark(kind, alive, cond) ==
  [kind |-> kind, height |-> Len(stack), alive |-> alive, cond |-> cond]

\* The left operand of `&&` or `||`: its value decides whether the right one is
\* executed.
BeginLogical(op) ==
  /\ Ready(1) /\ steps < MaxSteps /\ UNCHANGED <<local, unit, stack, steps>>
  /\ \E r \in Read(Top(0)) :
       open' = Append(open, Mark(op, ~(Top(0).alive /\ Decides(op, Top(0), r)), Top(0)))
LastMark == open[Len(open)]
Ends(kinds) == /\ Running /\ open # <<>> /\ LastMark.kind \in kinds
               /\ Len(stack) = LastMark.height + 1
Close == open' = SubSeq(open, 1, Len(open) - 1)

\* The result is the left operand, as it is, or that of the operator.
EndLogical ==
  /\ Ends({"And", "Or"}) /\ steps < MaxSteps /\ Count /\ Close
  /\ LET op == LastMark.kind
         l == Top(1)
         r == Top(0)
         decided == l.alive /\ ~r.alive
         wants == OperandWants(op, FALSE, l.chk, r.chk)
     IN \E chk \in BinaryResults(op, FALSE, l.chk, r.chk), a \in Read(l), b \in Read(r) :
          \E exe \in IF decided THEN {l.exe} ELSE BinaryResults(op, FALSE, a, b) :
            Replace(2, Outcome(chk, "no", exe, IF decided THEN l.place ELSE None,
                               /\ l.regular /\ r.regular /\ Fits(a) /\ (decided \/ Fits(b))
                               /\ ~FromUnary(l.chk, wants[1]) /\ ~FromUnary(r.chk, wants[2])
                               /\ (decided => l.chk.type.id = "Bool"),
                               l.wrote \/ r.wrote, l.alive))
  /\ UNCHANGED <<local, unit>>

\* cast: an implicit conversion to a type.
ImplCast(r, t) ==
  CASE r.type = t -> {r}
    [] ImplCastable(r, t) -> CastTo(r, t)
    [] OTHER -> {Failed("error")}

\* The condition becomes a Bool; the branches follow.
BeginTernary ==
  /\ Ready(1) /\ steps < MaxSteps /\ UNCHANGED <<local, unit, steps>>
  /\ LET o == Top(0)
     IN \E chk \in ImplCast(o.chk, Boolean), r \in Read(o) :
          \E exe \in ImplCast(r, Boolean) :
            LET cond == Outcome(chk, "no", exe, None,
                                o.regular /\ Fits(r) /\ o.chk.type.id # "Unary", o.wrote, o.alive)
            IN IF cond.chk.end # "ok" \/ cond.exe.end # "ok"
               THEN Replace(1, cond) /\ UNCHANGED open
               ELSE /\ stack' = SubSeq(stack, 1, Len(stack) - 1)
                    /\ open' = Append(open, [kind |-> "then", height |-> Len(stack) - 1,
                                             alive |-> exe.val.n # 0, cond |-> cond])

Else ==
  /\ Ends({"then"}) /\ UNCHANGED <<local, unit, stack, steps>>
  /\ open' = [open EXCEPT ![Len(open)].kind = "else", ![Len(open)].alive = ~@,
                          ![Len(open)].height = @ + 1]

\* Whether the check has a value to look at: a variable is one, known or not.
\* In execution an unknown variable of a branch that is only checked is none.
Present(o) == o.chk.val # Unknown

\* A branch whose value the check knows is not executed again.
EndTernary ==
  /\ Ends({"else"}) /\ steps < MaxSteps /\ Count /\ Close
  /\ LET cond == LastMark.cond
         l == Top(1)
         r == Top(0)
         o == IF l.alive THEN l ELSE r
         types == CommonTypes(l.chk, r.chk, Present(l) /\ Present(r))
         exeTypes == CommonTypes(l.chk, r.chk, Known(l.chk) /\ Known(r.chk))
         known == IF cond.chk.val.n # 0 THEN l ELSE r
         regular == /\ l.regular /\ r.regular /\ cond.regular /\ types = exeTypes
                    /\ l.chk.type.id = "Unary" => l.chk.type = r.chk.type
         wrote == l.wrote \/ r.wrote \/ cond.wrote
     IN \E t \in types \union {Boolean}, a \in Read(o) :
        \E chk \in CASE types = {}       -> {Failed("error")}
                     [] t \notin types   -> {}
                     [] Known(cond.chk)  -> ImplCast(known.chk, t)
                     [] OTHER            -> {Result(t, Unknown, FALSE)} :
        \E u \in exeTypes \union {Boolean} :
        \E exe \in CASE exeTypes = {}    -> {Failed("error")}
                     [] u \notin exeTypes -> {}
                     [] Known(o.chk)     -> ImplCast(o.chk, u)
                     [] a.type = u       -> {o.exe}
                     [] OTHER            -> ImplCast(a, u) :
          LET lvalue == IF Known(cond.chk) THEN known.lv
                        ELSE IF l.lv # "no" /\ r.lv # "no" THEN "empty" ELSE "no"
          IN Replace(2, Outcome(chk, IF chk.type = l.chk.type \/ ~Known(cond.chk)
                                     THEN lvalue ELSE "no",
                                exe, IF exe.type = o.exe.type THEN o.place ELSE None,
                                regular /\ Fits(a), wrote, cond.alive))
  /\ UNCHANGED <<local, unit>>
-----------------------------------------------------------------------------
Next ==
  \/ PushLiteral \/ PushVariable \/ PushConstant
  \/ \E op \in Unaries : Unary(op)
  \/ \E t \in CastTypes : Cast(t)
  \/ \E op \in TypeOps : OfOperand(op)
  \/ \E op \in Binaries : Binary(op) \/ AssignOp(op)
  \/ AssignOp("Assign")
  \/ \E op \in {"Inc", "Dec"}, post \in BOOLEAN : IncDecrement(op, post)
  \/ \E op \in {"And", "Or"} : BeginLogical(op)
  \/ EndLogical \/ BeginTernary \/ Else \/ EndTernary

Spec == Init /\ [][Next]_vars
-----------------------------------------------------------------------------
(* What checking an expression says of executing it *)

Accepted(o) == o.alive /\ o.regular /\ o.chk.end = "ok"

\* A value that the check knows is the value that executing the expression
\* gives, in every state the variables can be in, and it changes none of them:
\* the check keeps the values of constants only (EvalExprVisitor::check), and
\* what is known of a branch is used instead of executing it.
FoldingSound ==
  \A i \in 1..Len(stack) :
    LET o == stack[i]
    IN Accepted(o) /\ Known(o.chk) =>
         /\ o.exe.end = "ok" /\ ~o.wrote
         /\ \A r \in Values(o) : r.type = o.chk.type /\ r.val = o.chk.val

\* An expression that the check accepts is executed without an error or a failed
\* assertion and has the type that the check found and a value in the range of it,
\* except that a sum or a product of the default size is not truncated; Bits are as
\* many as their type says.
CheckedTypeHolds ==
  \A i \in 1..Len(stack) :
    LET o == stack[i]
        r == o.exe
    IN Accepted(o) =>
         /\ r.end = "ok" /\ r.type = o.chk.type
         /\ Fits(r) \/ r.type.size = DefaultSize
         /\ Known(r) /\ r.type.id = "Bits" => r.val.len = r.type.size /\ r.val.n < 2^r.val.len

\* Assigning to a property changes the bits of no other, and what is read back
\* is what was assigned, converted to its type: UnsignedType::to_datum and
\* BitsView::write rely on values that fit.
StoresFaithful ==
  [][ LET o == stack'[Len(stack')]
      IN (unit' # unit \/ local' # local) /\ o.regular /\ Fits(o.exe) =>
           /\ \E f \in Fields : \A g \in Fields \ {f} : BitsIn(unit', g) = BitsIn(unit, g)
           /\ o.place # None => LoadFrom(local', unit', o.place) = {o.exe.val} ]_vars

\* The arithmetic of the machine's width on any value that comes up is exact or
\* stops at the limit that the exact result is beyond: safe_sum, safe_diff and
\* safe_prod.
ArithmeticSaturates ==
  Len(stack) = 1 =>
    LET res == Top(0).exe
        l == res.val.n
        Limited(n) == Least(Most(n, MinInteger), MaxInteger)
    IN IF res.type.id = "Int" /\ Fits(res)
       THEN \A r \in MinInteger..MaxInteger :
              /\ SafeSumInt(l, r) = Limited(l + r)
              /\ SafeDiffInt(l, r) = Limited(l - r)
              /\ SafeProdInt(l, r) = Limited(l * r)
       ELSE l >= 0 => \A r \in 0..MaxUnsigned :
                        SafeProdUnsigned(l, r) = Least(l * r, MaxUnsigned)
=============================================================================
