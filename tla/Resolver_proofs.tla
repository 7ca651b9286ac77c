--------------------------- MODULE Resolver_proofs ---------------------------
(***************************************************************************)
(* Proofs about the recursion of the resolver, for any classes and any     *)
(* programs of them: no definition is worked on by two calls at once, what *)
(* is resolved stays as it is but where an initialiser fails, a resolved   *)
(* class has all that its size is computed from and its default values,    *)
(* the rounds leave out only what expressions alone come across, and what  *)
(* fails is reported unless classes refer to each other in a circle.       *)
(***************************************************************************)
EXTENDS Resolver, Induction_lemmas, SequenceTheorems, FiniteSetTheorems, TLAPS

States == {"NotResolved", "Initializing", "Initialized", "Resolving", "Resolved", "Unresolvable"}
TypesOf == {t \in [of : {"none", "int", "class", "array", "running"}, cls : Classes \cup {None}] :
                t.of = "class" => t.cls \in Classes}
Funs == {"init", "resolve", "def"}

(* Where a resolved class is being given its default values.                *)
AtValues == {"values", "prop", "value"}

(* What a call works on, and the fields that its actions change. *)
IsFrame(fr, defs) ==
    \/ /\ fr.fun = "init" /\ fr.def \in Classes /\ fr.at \in Nat
       /\ {"fun", "def", "at"} \subseteq DOMAIN fr
    \/ /\ fr.fun = "resolve" /\ fr.def \in Classes
       /\ fr.at \in {"init", "enter", "deps", "funs"} \cup AtValues
       /\ fr.at \in AtValues => fr.todo \in Seq(defs)
       /\ fr.at \in {"prop", "value"} => fr.todo # <<>>
       /\ {"fun", "def", "at", "todo", "unions"} \subseteq DOMAIN fr
    \/ /\ fr.fun = "def" /\ fr.def \in defs
       /\ fr.at \in {"enter", "type", "dim"}
       /\ fr.type \in TypesOf
       /\ {"fun", "def", "at", "type"} \subseteq DOMAIN fr
    \/ /\ fr.fun = "type" /\ fr.cls \in Classes
       /\ fr.type \in TypesOf
       /\ {"fun", "cls", "type", "at", "n"} \subseteq DOMAIN fr

Typed ==
    /\ prog \in Programs
    /\ state \in [Classes \cup Defs -> States]
    /\ aliased \in [Defs -> TypesOf]
    /\ anc \in [Classes -> Seq(Classes)] /\ DOMAIN inh = Classes
    /\ \A c \in Classes : \A n \in DOMAIN inh[c] : inh[c][n] \in Defs
    /\ found \subseteq Classes
    /\ ret \in TypesOf
    /\ "phase" \in DOMAIN round
    /\ round.phase = "resolve" => "todo" \in DOMAIN round /\ round.todo \subseteq Classes

(* A call that has not yet looked at the state of its definition, or at     *)
(* whether its type is a class, is the last one and has called nothing.     *)
Unchecked(fr) ==
    \/ fr.fun = "def" /\ fr.at = "enter"
    \/ fr.fun = "type" /\ fr.at = "class" /\ fr.type.of # "class"

Stacked ==
    /\ stack \in Seq(ToSet(stack))
    /\ \A i \in DOMAIN stack : IsFrame(stack[i], Defs)
    /\ \A i \in DOMAIN stack :
         Unchecked(stack[i]) => i = Len(stack) /\ ret = Running

(* The state of a definition says whether a call works on it: what is being *)
(* resolved may have been found unresolvable meanwhile, by a call that came *)
(* back to it.                                                             *)
Marked ==
    /\ \A c \in Classes :
         /\ state[c] = "Initializing" <=> At("init", c) # {}
         /\ state[c] = "Resolving" => At("resolve", c) # {}
         /\ At("resolve", c) # {} => state[c] \in {"Resolving", "Unresolvable"}
    /\ \A d \in Defs :
         /\ state[d] = "Resolving" => At("def", d) # {}
         /\ At("def", d) # {} => state[d] \in {"Resolving", "Unresolvable"}

Single == \A fun \in Funs : \A d \in Classes \cup Defs : \A i, j \in At(fun, d) : i = j

IInv == Typed /\ Stacked /\ Marked /\ Single

-----------------------------------------------------------------------------
(* Stacks *)

LEMMA OwnElements ==
    ASSUME NEW S, NEW s \in Seq(S)
    PROVE  s \in Seq(ToSet(s))
<1>1. Len(s) \in Nat /\ DOMAIN s = 1..Len(s) /\ s \in [1..Len(s) -> S]
  BY LenProperties
<1>2. s \in [1..Len(s) -> ToSet(s)]
  BY <1>1 DEF ToSet
<1>3. QED
  BY <1>1, <1>2, SeqDef

(* The last element of a sequence is replaced, left out, or followed by another. *)
LEMMA FrontAppend ==
    ASSUME NEW s, s \in Seq(ToSet(s)), s # <<>>, NEW fr
    PROVE  /\ Append(Front(s), fr) \in Seq(ToSet(Append(Front(s), fr)))
           /\ Len(Append(Front(s), fr)) = Len(s)
           /\ DOMAIN Append(Front(s), fr) = 1..Len(s)
           /\ \A i \in 1..(Len(s) - 1) : Append(Front(s), fr)[i] = s[i]
           /\ Append(Front(s), fr)[Len(s)] = fr
<1> DEFINE n == Len(s)
           f == Front(s)
           t == Append(f, fr)
           S == ToSet(s) \cup {fr}
<1>1. n \in Nat /\ n # 0 /\ DOMAIN s = 1..n /\ s \in Seq(S) /\ fr \in S
  BY SeqMonotonic, EmptySeq
<1>2. f \in Seq(S) /\ Len(f) = n - 1 /\ \A i \in 1..(n - 1) : f[i] = s[i]
  BY <1>1 DEF Front
<1> HIDE DEF S, f, n
<1>3. /\ t \in Seq(S) /\ Len(t) = Len(f) + 1
      /\ \A i \in 1..Len(f) : t[i] = f[i]
      /\ t[Len(f) + 1] = fr
  BY <1>1, <1>2, AppendProperties
<1> HIDE DEF t
<1>4. Len(t) = n /\ DOMAIN t = 1..n /\ t \in Seq(ToSet(t))
  BY <1>1, <1>2, <1>3, OwnElements, LenProperties
<1>5. (\A i \in 1..(n - 1) : t[i] = s[i]) /\ t[n] = fr
  BY <1>1, <1>2, <1>3
<1>6. QED
  BY <1>4, <1>5 DEF t, f, n

LEMMA FrontOnly ==
    ASSUME NEW s, s \in Seq(ToSet(s)), s # <<>>
    PROVE  /\ Front(s) \in Seq(ToSet(Front(s)))
           /\ Len(Front(s)) = Len(s) - 1
           /\ DOMAIN Front(s) = 1..(Len(s) - 1)
           /\ \A i \in 1..(Len(s) - 1) : Front(s)[i] = s[i]
<1>1. Len(s) \in Nat /\ Len(s) # 0 /\ DOMAIN s = 1..Len(s)
  BY EmptySeq
<1>2. /\ Front(s) \in Seq(ToSet(s)) /\ Len(Front(s)) = Len(s) - 1
      /\ \A i \in 1..(Len(s) - 1) : Front(s)[i] = s[i]
  BY <1>1 DEF Front
<1>3. DOMAIN Front(s) = 1..(Len(s) - 1) /\ Front(s) \in Seq(ToSet(Front(s)))
  BY <1>2, OwnElements, LenProperties
<1>4. QED
  BY <1>2, <1>3

LEMMA Pushed ==
    ASSUME NEW s, s \in Seq(ToSet(s)), NEW fr
    PROVE  /\ Append(s, fr) \in Seq(ToSet(Append(s, fr)))
           /\ Len(Append(s, fr)) = Len(s) + 1
           /\ DOMAIN Append(s, fr) = 1..(Len(s) + 1)
           /\ \A i \in 1..Len(s) : Append(s, fr)[i] = s[i]
           /\ Append(s, fr)[Len(s) + 1] = fr
<1> DEFINE S == ToSet(s) \cup {fr}
<1>1. s \in Seq(S) /\ fr \in S
  BY SeqMonotonic
<1> HIDE DEF S
<1>2. /\ Append(s, fr) \in Seq(S) /\ Len(Append(s, fr)) = Len(s) + 1
      /\ \A i \in 1..Len(s) : Append(s, fr)[i] = s[i]
      /\ Append(s, fr)[Len(s) + 1] = fr
  BY <1>1, AppendProperties
<1>3. DOMAIN Append(s, fr) = 1..(Len(s) + 1) /\ Append(s, fr) \in Seq(ToSet(Append(s, fr)))
  BY <1>2, OwnElements, LenProperties
<1>4. QED
  BY <1>2, <1>3

-----------------------------------------------------------------------------
(* Calls, returns and what is worked on *)

LEMMA SameDefs == ASSUME prog' = prog PROVE Defs' = Defs
BY DEF Defs, Members

LEMMA TopFrame ==
    ASSUME Stacked, stack # <<>>
    PROVE  /\ Len(stack) \in Nat /\ DOMAIN stack = 1..Len(stack)
           /\ Len(stack) \in DOMAIN stack /\ Top = stack[Len(stack)]
           /\ IsFrame(Top, Defs)
           /\ \A fun, d : Len(stack) \in At(fun, d) <=> Works(Top, fun, d)
<1>1. /\ Len(stack) \in Nat /\ DOMAIN stack = 1..Len(stack)
      /\ Len(stack) \in DOMAIN stack
  BY EmptySeq, LenProperties DEF Stacked
<1>2. Top = stack[Len(stack)] /\ IsFrame(Top, Defs)
  BY <1>1 DEF Top, Stacked
<1>3. \A fun, d : Len(stack) \in At(fun, d) <=> Works(Top, fun, d)
  BY <1>1, <1>2 DEF At
<1>4. QED
  BY <1>1, <1>2, <1>3

(* The top of the stack, if the call goes on as fr. *)
TopAs(fr, fun, d) == IF Works(fr, fun, d) THEN {Len(stack)} ELSE {}

LEMMA Continues ==
    ASSUME Stacked, stack # <<>>, prog' = prog,
           NEW fr, IsFrame(fr, Defs), Continue(fr)
    PROVE  /\ Stacked'
           /\ \A fun, d : At(fun, d)' = (At(fun, d) \ {Len(stack)}) \cup TopAs(fr, fun, d)
<1>1. /\ Len(stack) \in Nat /\ DOMAIN stack = 1..Len(stack) /\ Len(stack) \in DOMAIN stack
  BY TopFrame
<1>2. /\ stack' \in Seq(ToSet(stack'))
      /\ Len(stack') = Len(stack) /\ DOMAIN stack' = 1..Len(stack)
      /\ \A i \in 1..(Len(stack) - 1) : stack'[i] = stack[i]
      /\ stack'[Len(stack)] = fr
  BY FrontAppend DEF Stacked, Continue
<1>3. \A i \in DOMAIN stack' : IsFrame(stack[i], Defs)'
  BY <1>1, <1>2, SameDefs DEF Stacked
<1>4. \A i \in 1..(Len(stack) - 1) : ~Unchecked(stack'[i])
  BY <1>1, <1>2 DEF Stacked
<1>5. Stacked'
  <2>1. ret' = Running
    BY DEF Continue
  <2>2. \A i \in DOMAIN stack' : Unchecked(stack'[i]) => i = Len(stack') /\ ret' = Running
    BY <1>1, <1>2, <1>4, <2>1
  <2>3. \A i \in DOMAIN stack' : Unchecked(stack[i])' <=> Unchecked(stack'[i])
    BY DEF Unchecked
  <2>4. QED
    BY <1>2, <1>3, <2>2, <2>3 DEF Stacked
<1>6. ASSUME NEW fun, NEW d
      PROVE  At(fun, d)' = (At(fun, d) \ {Len(stack)}) \cup TopAs(fr, fun, d)
  BY <1>1, <1>2 DEF At, TopAs
<1>7. QED
  BY <1>5, <1>6

LEMMA Calls ==
    ASSUME Stacked, stack # <<>>, prog' = prog,
           NEW fr, IsFrame(fr, Defs), ~Unchecked(fr),
           NEW callee, IsFrame(callee, Defs), \A fun, d : ~Works(callee, fun, d),
           Call(fr, callee)
    PROVE  /\ Stacked'
           /\ \A fun, d :
                At(fun, d)' = (At(fun, d) \ {Len(stack)}) \cup TopAs(fr, fun, d)
<1> DEFINE s == Append(Front(stack), fr)
<1>1. /\ Len(stack) \in Nat /\ DOMAIN stack = 1..Len(stack) /\ Len(stack) \in DOMAIN stack
  BY TopFrame
<1>2. /\ s \in Seq(ToSet(s)) /\ Len(s) = Len(stack)
      /\ \A i \in 1..(Len(stack) - 1) : s[i] = stack[i]
      /\ s[Len(stack)] = fr
  BY FrontAppend DEF Stacked
<1>3. stack' = Append(s, callee) /\ ret' = Running
  BY DEF Call
<1> HIDE DEF s
<1>4. /\ stack' \in Seq(ToSet(stack'))
      /\ Len(stack') = Len(stack) + 1 /\ DOMAIN stack' = 1..(Len(stack) + 1)
      /\ \A i \in 1..Len(stack) : stack'[i] = s[i]
      /\ stack'[Len(stack) + 1] = callee
  BY <1>2, <1>3, Pushed
<1>5. /\ \A i \in 1..(Len(stack) - 1) : stack'[i] = stack[i]
      /\ stack'[Len(stack)] = fr
  BY <1>1, <1>2, <1>4
<1>6. \A i \in DOMAIN stack' : IsFrame(stack[i], Defs)'
  BY <1>1, <1>4, <1>5, SameDefs DEF Stacked
<1>7. \A i \in 1..Len(stack) : ~Unchecked(stack'[i])
  BY <1>1, <1>5 DEF Stacked
<1>8. Stacked'
  BY <1>1, <1>3, <1>4, <1>6, <1>7 DEF Stacked
<1>9. ASSUME NEW fun, NEW d
      PROVE  At(fun, d)' = (At(fun, d) \ {Len(stack)}) \cup TopAs(fr, fun, d)
  <2>1. \A i \in DOMAIN stack' : Works(stack'[i], fun, d) <=>
            IF i = Len(stack) THEN Works(fr, fun, d)
            ELSE i \in 1..Len(stack) /\ Works(stack[i], fun, d)
    BY <1>1, <1>4, <1>5
  <2>2. QED
    BY <1>1, <1>4, <2>1 DEF At, TopAs
<1>10. QED
  BY <1>8, <1>9

LEMMA Returns ==
    ASSUME Stacked, stack # <<>>, prog' = prog, NEW type, Return(type)
    PROVE  /\ Stacked'
           /\ \A fun, d : At(fun, d)' = At(fun, d) \ {Len(stack)}
<1>1. /\ Len(stack) \in Nat /\ DOMAIN stack = 1..Len(stack) /\ Len(stack) \in DOMAIN stack
  BY TopFrame
<1>2. /\ stack' \in Seq(ToSet(stack'))
      /\ Len(stack') = Len(stack) - 1 /\ DOMAIN stack' = 1..(Len(stack) - 1)
      /\ \A i \in 1..(Len(stack) - 1) : stack'[i] = stack[i]
  BY FrontOnly DEF Stacked, Return
<1>3. \A i \in DOMAIN stack' : IsFrame(stack[i], Defs)'
  BY <1>1, <1>2, SameDefs DEF Stacked
<1>4. \A i \in DOMAIN stack' : ~Unchecked(stack'[i])
  BY <1>1, <1>2 DEF Stacked
<1>5. Stacked'
  BY <1>2, <1>3, <1>4 DEF Stacked
<1>6. ASSUME NEW fun, NEW d PROVE At(fun, d)' = At(fun, d) \ {Len(stack)}
  BY <1>1, <1>2 DEF At
<1>7. QED
  BY <1>5, <1>6

(* The first call of all. *)
LEMMA Starts ==
    ASSUME Stacked, stack = <<>>, prog' = prog, ret' = Running,
           NEW callee, IsFrame(callee, Defs), \A fun, d : ~Works(callee, fun, d),
           stack' = <<callee>>
    PROVE  /\ Stacked'
           /\ \A fun, d : At(fun, d)' = At(fun, d)
<1>1. /\ stack' \in Seq({callee}) /\ Len(stack') = 1 /\ DOMAIN stack' = {1}
      /\ stack'[1] = callee
  OBVIOUS
<1>2. stack' \in Seq(ToSet(stack'))
  BY <1>1, OwnElements
<1>3. IsFrame(stack[1], Defs)'
  BY <1>1, SameDefs
<1>4. Stacked'
  BY <1>1, <1>2, <1>3 DEF Stacked
<1>5. ASSUME NEW fun, NEW d PROVE At(fun, d) = {} /\ At(fun, d)' = {}
  BY <1>1 DEF At
<1>6. QED
  BY <1>4, <1>5

-----------------------------------------------------------------------------
(* Steps that change no state *)

LEMMA SameMarks ==
    ASSUME Marked, Single, UNCHANGED <<prog, state>>,
           \A fun, d : At(fun, d)' = At(fun, d)
    PROVE  Marked' /\ Single'
<1>1. Defs' = Defs
  BY SameDefs
<1>2. Marked'
  BY <1>1 DEF Marked
<1>3. Single'
  BY <1>1 DEF Single
<1>4. QED
  BY <1>2, <1>3

LEMMA Quiet ==
    ASSUME IInv, UNCHANGED <<prog, state, aliased, anc, inh, round>>,
           found' \subseteq Classes, ret' \in TypesOf,
           Stacked', \A fun, d : At(fun, d)' = At(fun, d)
    PROVE  IInv' /\ StaysResolved
<1>1. Marked' /\ Single'
  BY SameMarks DEF IInv
<1>2. Typed'
  BY SameDefs DEF IInv, Typed
<1>3. StaysResolved
  BY DEF StaysResolved
<1>4. QED
  BY <1>1, <1>2, <1>3 DEF IInv

LEMMA SimpleTypes ==
    /\ {Running, True, False, NoType, IntType} \subseteq TypesOf
    /\ \A c \in Classes : ClassType(c) \in TypesOf
    /\ Running # True /\ Running # False
BY DEF Running, True, False, NoType, IntType, ClassType, TypesOf

(* A call that has just been made has done nothing yet. *)
LEMMA Callees ==
    /\ \A c \in Classes : \A note :
         /\ IsFrame(InitCall(c, note), Defs) /\ IsFrame(ResolveCall(c, note), Defs)
         /\ \A fun, d : ~Works(InitCall(c, note), fun, d) /\ ~Works(ResolveCall(c, note), fun, d)
    /\ \A e \in Defs : IsFrame(DefCall(e), Defs) /\ \A fun, d : ~Works(DefCall(e), fun, d)
    /\ \A c \in Classes : \A path, i, except, full :
         /\ IsFrame(TypeCall(path, c, i, except, full), Defs)
         /\ \A fun, d : ~Works(TypeCall(path, c, i, except, full), fun, d)
<1>1. ASSUME NEW c \in Classes, NEW note
      PROVE  /\ IsFrame(InitCall(c, note), Defs) /\ IsFrame(ResolveCall(c, note), Defs)
             /\ \A fun, d : ~Works(InitCall(c, note), fun, d) /\ ~Works(ResolveCall(c, note), fun, d)
  BY DEF IsFrame, AtValues, InitCall, ResolveCall, Works
<1>2. ASSUME NEW e \in Defs
      PROVE  IsFrame(DefCall(e), Defs) /\ \A fun, d : ~Works(DefCall(e), fun, d)
  BY SimpleTypes DEF IsFrame, DefCall, Works
<1>3. ASSUME NEW c \in Classes, NEW path, NEW i, NEW except, NEW full
      PROVE  /\ IsFrame(TypeCall(path, c, i, except, full), Defs)
             /\ \A fun, d : ~Works(TypeCall(path, c, i, except, full), fun, d)
  BY SimpleTypes DEF IsFrame, TypeCall, Works
<1>4. QED
  BY <1>1, <1>2, <1>3

(* The call goes on as fr, having begun or ended nothing. *)
LEMMA GoesOn ==
    ASSUME IInv, stack # <<>>, UNCHANGED <<prog, state, defVars, round>>, found' = found,
           NEW fr, IsFrame(fr, Defs),
           \A fun, d : Works(fr, fun, d) <=> Works(Top, fun, d),
           \/ Continue(fr)
           \/ \E callee : /\ IsFrame(callee, Defs) /\ \A fun, d : ~Works(callee, fun, d)
                          /\ ~Unchecked(fr) /\ Call(fr, callee)
    PROVE  IInv' /\ StaysResolved
<1> USE DEF IInv
<1>1. \A fun, d : TopAs(fr, fun, d) = IF Len(stack) \in At(fun, d) THEN {Len(stack)} ELSE {}
  BY TopFrame DEF TopAs
<1>2. /\ Stacked'
      /\ \A fun, d : At(fun, d)' = (At(fun, d) \ {Len(stack)}) \cup TopAs(fr, fun, d)
  <2>1. CASE Continue(fr)
    BY <2>1, Continues
  <2>2. ASSUME NEW callee, IsFrame(callee, Defs), \A fun, d : ~Works(callee, fun, d),
               ~Unchecked(fr), Call(fr, callee)
        PROVE  <1>2!1 /\ <1>2!2
    BY <2>2, Calls
  <2>3. QED
    BY <2>1, <2>2
<1>3. \A fun, d : At(fun, d)' = At(fun, d)
  BY <1>1, <1>2
<1>4. ret' \in TypesOf /\ found' \subseteq Classes
  BY SimpleTypes DEF Continue, Call, Typed
<1>5. QED
  BY <1>2, <1>3, <1>4, Quiet DEF defVars

(* The call returns from work it had not begun. *)
LEMMA GoesBack ==
    ASSUME IInv, stack # <<>>, UNCHANGED <<prog, state, defVars, round>>,
           found' \subseteq Classes,
           \A fun, d : ~Works(Top, fun, d),
           NEW type \in TypesOf, Return(type)
    PROVE  IInv' /\ StaysResolved
<1> USE DEF IInv
<1>1. Stacked' /\ \A fun, d : At(fun, d)' = At(fun, d) \ {Len(stack)}
  BY Returns
<1>2. \A fun, d : At(fun, d)' = At(fun, d)
  BY <1>1, TopFrame
<1>3. QED
  BY <1>1, <1>2, Quiet DEF Return, defVars

-----------------------------------------------------------------------------
(* Looking up the name of a type *)

LEMMA NamesDefs ==
    ASSUME Typed, NEW c \in Classes, NEW n
    PROVE  /\ OwnAlias(c, n) \subseteq Defs
           /\ Typedef(c, n) \subseteq Defs
           /\ \A i, except : TypedefInScope(c, i, n, except) \subseteq Defs
<1>1. OwnAlias(c, n) \subseteq Defs
  BY DEF OwnAlias, Defs
<1>2. n \in DOMAIN inh[c] => inh[c][n] \in Defs
  BY DEF Typed
<1>3. QED
  BY <1>1, <1>2 DEF Typedef, TypedefInScope

(* The frame of a look-up, with another type or at another point. *)
LEMMA TypeFrame ==
    ASSUME IsFrame(Top, Defs), Top.fun = "type", NEW fr,
           fr = Top \/ (\E at : fr = [Top EXCEPT !.at = at])
           \/ (\E at : \E type \in TypesOf : fr = [Top EXCEPT !.at = at, !.type = type])
           \/ (\E type \in TypesOf : fr = AtNext(type))
    PROVE  IsFrame(fr, Defs)
<1>1. /\ Top.cls \in Classes /\ Top.type \in TypesOf
      /\ {"fun", "cls", "type", "at", "n"} \subseteq DOMAIN Top
  BY DEF IsFrame
<1>2. CASE fr = Top
  BY <1>2
<1>3. ASSUME NEW at, fr = [Top EXCEPT !.at = at] PROVE IsFrame(fr, Defs)
  BY <1>1, <1>3 DEF IsFrame
<1>4. ASSUME NEW at, NEW type \in TypesOf, fr = [Top EXCEPT !.at = at, !.type = type]
      PROVE  IsFrame(fr, Defs)
  BY <1>1, <1>4 DEF IsFrame
<1>5. ASSUME NEW type \in TypesOf, fr = AtNext(type)
      PROVE  IsFrame(fr, Defs)
  BY <1>1, <1>5 DEF IsFrame, AtNext
<1>6. QED
  BY <1>2, <1>3, <1>4, <1>5

(* A look-up works on no definition itself. *)
LEMMA TypeWorks ==
    ASSUME NEW fr, fr.fun = "type"
    PROVE  \A fun, d : ~Works(fr, fun, d)
BY DEF Works

LEMMA TypeStepInv ==
    ASSUME IInv, stack # <<>>, TypeStep
    PROVE  IInv' /\ StaysResolved
<1> USE DEF IInv
<1>1. Top.fun = "type" /\ UNCHANGED <<prog, state, defVars, round>> /\ found' = found
  BY DEF TypeStep, TypeBuiltin, TypeInScope, TypeInScopeDone, TypeExport, TypePrepare,
         TypePrepared, TypeUnprepared, TypeClass, TypeMember, TypeMemberDone
<1>2. /\ IsFrame(Top, Defs) /\ Top.cls \in Classes /\ Top.type \in TypesOf
      /\ {"fun", "cls", "type", "at", "n"} \subseteq DOMAIN Top
      /\ found' \subseteq Classes /\ ret \in TypesOf
      /\ \A fun, d : ~Works(Top, fun, d)
  BY <1>1, TopFrame, TypeWorks DEF IsFrame, Typed
<1> DEFINE Goal == IInv' /\ StaysResolved
<1>3. ASSUME NEW type \in TypesOf, Return(type) PROVE Goal
  BY <1>1, <1>2, <1>3, GoesBack
<1>4. ASSUME NEW fr, fr.fun = "type",
             fr = Top \/ (\E at : fr = [Top EXCEPT !.at = at])
             \/ (\E at : \E type \in TypesOf : fr = [Top EXCEPT !.at = at, !.type = type])
             \/ (\E type \in TypesOf : fr = AtNext(type))
      PROVE  /\ IsFrame(fr, Defs)
             /\ \A fun, d : Works(fr, fun, d) <=> Works(Top, fun, d)
  BY <1>1, <1>2, <1>4, TypeFrame, TypeWorks
<1>5. ASSUME NEW fr, IsFrame(fr, Defs), \A fun, d : Works(fr, fun, d) <=> Works(Top, fun, d),
             Continue(fr)
      PROVE  Goal
  BY <1>1, <1>5, GoesOn
<1>c. ASSUME NEW fr, IsFrame(fr, Defs), \A fun, d : Works(fr, fun, d) <=> Works(Top, fun, d),
             ~Unchecked(fr),
             \/ \E c \in Classes : Call(fr, ResolveCall(c, TRUE)) \/ Call(fr, InitCall(c, TRUE))
             \/ \E e \in Defs : Call(fr, DefCall(e))
      PROVE  Goal
  <2>1. PICK callee : /\ IsFrame(callee, Defs) /\ \A fun, d : ~Works(callee, fun, d)
                      /\ Call(fr, callee)
    BY <1>c, Callees
  <2>2. QED
    BY <1>1, <1>c, <2>1, GoesOn
<1>6. CASE TypeBuiltin
  BY <1>3, <1>6, SimpleTypes DEF TypeBuiltin
<1>7. CASE TypeInScope
  <2>1. PICK d \in InScope : Call(Top, DefCall(d))
    BY <1>7 DEF TypeInScope
  <2>2. d \in Defs
    BY <1>2, NamesDefs DEF InScope
  <2>3. ~Unchecked(Top)
    BY <1>1, <1>7 DEF TypeInScope, Unchecked
  <2>4. QED
    BY <1>2, <1>c, <2>1, <2>2, <2>3
<1>8. CASE TypeInScopeDone
  <2>1. Continue([Top EXCEPT !.at = "prepare", !.type = ret])
    BY <1>8 DEF TypeInScopeDone
  <2>2. [Top EXCEPT !.at = "prepare", !.type = ret].fun = "type"
    BY <1>1, <1>2
  <2>3. QED
    BY <1>2, <1>4, <1>5, <2>1, <2>2
<1>9. CASE TypeExport
  <2>1. CASE Name \in Classes
    <3>1. Continue([Top EXCEPT !.at = "prepare", !.type = ClassType(Name)])
      BY <1>9, <2>1 DEF TypeExport
    <3>2. [Top EXCEPT !.at = "prepare", !.type = ClassType(Name)].fun = "type"
      BY <1>1, <1>2
    <3>3. QED
      BY <1>4, <1>5, <2>1, <3>1, <3>2, SimpleTypes
  <2>2. CASE Name \notin Classes
    BY <1>3, <1>9, <2>2, SimpleTypes DEF TypeExport, FailType
  <2>3. QED
    BY <2>1, <2>2
<1>10. CASE TypePrepare
  <2>1. PICK callee \in Needed : Call(Top, callee)
    BY <1>10 DEF TypePrepare
  <2>u. ~Unchecked(Top)
    BY <1>1, <1>10 DEF TypePrepare, Unchecked
  <2>2. CASE Top.full /\ Top.type.cls # None
    <3>1. callee = ResolveCall(Top.type.cls, TRUE) /\ Top.type.cls \in Classes
      BY <1>2, <2>1, <2>2 DEF Needed, TypesOf
    <3>2. QED
      BY <1>2, <1>c, <2>1, <2>u, <3>1
  <2>3. CASE ~Top.full /\ Top.type.of = "class"
    <3>1. callee = InitCall(Top.type.cls, TRUE) /\ Top.type.cls \in Classes
      BY <1>2, <2>1, <2>3 DEF Needed, TypesOf
    <3>2. QED
      BY <1>2, <1>c, <2>1, <2>u, <3>1
  <2>4. QED
    BY <2>1, <2>2, <2>3 DEF Needed
<1>11. CASE TypePrepared
  <2>1. CASE Top.n = Len(Top.path)
    BY <1>2, <1>3, <1>11, <2>1 DEF TypePrepared
  <2>2. CASE Top.n # Len(Top.path)
    <3>1. Continue([Top EXCEPT !.at = "class"])
      BY <1>11, <2>2 DEF TypePrepared
    <3>2. [Top EXCEPT !.at = "class"].fun = "type"
      BY <1>1, <1>2
    <3>3. QED
      BY <1>4, <1>5, <3>1, <3>2
  <2>3. QED
    BY <2>1, <2>2
<1>12. CASE TypeUnprepared
  BY <1>3, <1>12, SimpleTypes DEF TypeUnprepared, FailType
<1>13. CASE TypeClass
  <2>1. CASE Top.type.of = "class"
    <3>1. Call(Top, InitCall(Top.type.cls, TRUE)) /\ Top.type.cls \in Classes
      BY <1>2, <1>13, <2>1 DEF TypeClass, TypesOf
    <3>2. ~Unchecked(Top)
      BY <1>1, <2>1 DEF Unchecked
    <3>3. QED
      BY <1>2, <1>c, <3>1, <3>2
  <2>2. CASE Top.type.of # "class"
    BY <1>3, <1>13, <2>2, SimpleTypes DEF TypeClass, FailType
  <2>3. QED
    BY <2>1, <2>2
<1>14. CASE TypeMember
  <2> DEFINE typedef == Typedef(Top.type.cls, NextName)
  <2>1. CASE typedef # {}
    <3>1. Top.type.of = "class" /\ Top.type.cls \in Classes
      BY <1>1, <1>2, <1>14, TopFrame DEF TypeMember, Returned, Stacked, Unchecked, TypesOf
    <3>2. PICK d \in typedef : Call([Top EXCEPT !.at = "member"], DefCall(d))
      BY <1>14, <2>1 DEF TypeMember
    <3>3. d \in Defs
      BY <3>1, NamesDefs
    <3>4. /\ [Top EXCEPT !.at = "member"].fun = "type"
          /\ ~Unchecked([Top EXCEPT !.at = "member"])
      BY <1>1, <1>2 DEF Unchecked
    <3>5. QED
      BY <1>4, <1>c, <3>2, <3>3, <3>4
  <2>2. CASE typedef = {} /\ NextName \in Classes \cap ToSet(anc[Top.type.cls])
    <3>1. Continue(AtNext(ClassType(NextName)))
      BY <1>14, <2>2 DEF TypeMember
    <3>2. AtNext(ClassType(NextName)).fun = "type"
      BY <1>1, <1>2 DEF AtNext
    <3>3. QED
      BY <1>4, <1>5, <2>2, <3>1, <3>2, SimpleTypes
  <2>3. CASE typedef = {} /\ NextName \notin Classes \cap ToSet(anc[Top.type.cls])
    BY <1>3, <1>14, <2>3, SimpleTypes DEF TypeMember, FailType
  <2>4. QED
    BY <2>1, <2>2, <2>3
<1>15. CASE TypeMemberDone
  <2>1. CASE ret = False
    BY <1>3, <1>15, <2>1, SimpleTypes DEF TypeMemberDone
  <2>2. CASE ret # False
    <3>1. Continue(AtNext(ret))
      BY <1>15, <2>2 DEF TypeMemberDone
    <3>2. AtNext(ret).fun = "type"
      BY <1>1, <1>2 DEF AtNext
    <3>3. QED
      BY <1>2, <1>4, <1>5, <3>1, <3>2
  <2>3. QED
    BY <2>1, <2>2
<1>16. QED
  BY <1>6, <1>7, <1>8, <1>9, <1>10, <1>11, <1>12, <1>13, <1>14, <1>15 DEF TypeStep

-----------------------------------------------------------------------------
(* Work is begun and ended *)

LEMMA Apart ==
    ASSUME Typed
    PROVE  Classes \cap Defs = {}
<1>1. \A b, c \in Classes : c \notin {<<b, i>> : i \in DOMAIN prog.members[b]}
  BY ProgramsAssumption DEF Typed
<1>2. QED
  BY <1>1 DEF Defs, Members

(* What is worked on depends on the kind of the call. *)
IsWork(fun, d) == fun \in Funs /\ d \in (IF fun = "def" THEN Defs ELSE Classes)

LEMMA WorkOfFrame ==
    ASSUME NEW fr, IsFrame(fr, Defs), NEW fun, NEW d, Works(fr, fun, d)
    PROVE  IsWork(fun, d) /\ \A f, e : Works(fr, f, e) <=> f = fun /\ e = d
BY DEF IsFrame, Works, IsWork, Funs

Fresh(fun) == IF fun = "resolve" THEN "Initialized" ELSE "NotResolved"
Mark(fun) == IF fun = "init" THEN "Initializing" ELSE "Resolving"

LEMMA MarksBegin ==
    ASSUME Typed, Marked, Single, prog' = prog,
           NEW fun, NEW d, IsWork(fun, d), NEW n,
           state[d] = Fresh(fun), SetState(d, Mark(fun)),
           \A f, e : At(f, e)' = IF f = fun /\ e = d THEN At(f, e) \cup {n} ELSE At(f, e)
    PROVE  Marked' /\ Single' /\ state' \in [Classes \cup Defs -> States]
<1>1. Defs' = Defs /\ Classes \cap Defs = {} /\ d \in Classes \cup Defs
  BY SameDefs, Apart DEF IsWork
<1>2. /\ state \in [Classes \cup Defs -> States]
      /\ state' = [state EXCEPT ![d] = Mark(fun)]
      /\ Mark(fun) \in States
  BY DEF Typed, SetState, Mark, States
<1>3. /\ state' \in [Classes \cup Defs -> States]
      /\ state'[d] = Mark(fun) /\ \A e \in Classes \cup Defs : e # d => state'[e] = state[e]
  BY <1>1, <1>2
<1>4. At(fun, d) = {} /\ At(fun, d)' = {n}
  <2>1. At(fun, d) = {}
    BY <1>1 DEF Marked, IsWork, Funs, Fresh
  <2>2. QED
    BY <2>1
<1>5. Marked'
  <2>1. ASSUME NEW c \in Classes
        PROVE  /\ state'[c] = "Initializing" <=> At("init", c)' # {}
               /\ state'[c] = "Resolving" => At("resolve", c)' # {}
               /\ At("resolve", c)' # {} => state'[c] \in {"Resolving", "Unresolvable"}
    <3>1. CASE c # d
      BY <1>3, <3>1 DEF Marked
    <3>2. CASE c = d /\ fun = "init"
      BY <1>3, <1>4, <3>2 DEF Marked, Fresh, Mark
    <3>3. CASE c = d /\ fun = "resolve"
      BY <1>3, <1>4, <3>3 DEF Marked, Fresh, Mark
    <3>4. QED
      BY <1>1, <3>1, <3>2, <3>3 DEF IsWork, Funs
  <2>2. ASSUME NEW e \in Defs
        PROVE  /\ state'[e] = "Resolving" => At("def", e)' # {}
               /\ At("def", e)' # {} => state'[e] \in {"Resolving", "Unresolvable"}
    <3>1. CASE e # d
      BY <1>3, <3>1 DEF Marked
    <3>2. CASE e = d
      BY <1>1, <1>3, <1>4, <3>2 DEF Mark, IsWork, Funs
    <3>3. QED
      BY <3>1, <3>2
  <2>3. QED
    BY <1>1, <2>1, <2>2 DEF Marked
<1>6. Single'
  BY <1>1, <1>4 DEF Single
<1>7. QED
  BY <1>3, <1>5, <1>6

LEMMA MarksEnd ==
    ASSUME Typed, Marked, Single, prog' = prog,
           NEW fun, NEW d, IsWork(fun, d), NEW n \in At(fun, d),
           NEW s, s \in {"Resolved", "Unresolvable"} \/ (fun = "init" /\ s = "Initialized"),
           SetState(d, s),
           \A f, e : At(f, e)' = IF f = fun /\ e = d THEN At(f, e) \ {n} ELSE At(f, e)
    PROVE  /\ Marked' /\ Single' /\ state' \in [Classes \cup Defs -> States]
           /\ state[d] # "Resolved"
           /\ \A e \in Classes \cup Defs : e # d => state'[e] = state[e]
<1>1. Defs' = Defs /\ Classes \cap Defs = {} /\ d \in Classes \cup Defs
  BY SameDefs, Apart DEF IsWork
<1>2. /\ state \in [Classes \cup Defs -> States]
      /\ state' = [state EXCEPT ![d] = s] /\ s \in States
  BY DEF Typed, SetState, States
<1>3. /\ state' \in [Classes \cup Defs -> States]
      /\ state'[d] = s /\ \A e \in Classes \cup Defs : e # d => state'[e] = state[e]
  BY <1>1, <1>2
<1>4. At(fun, d)' = {}
  BY <1>1 DEF Single, IsWork
<1>5. /\ fun = "init" => state[d] = "Initializing"
      /\ fun # "init" => state[d] \in {"Resolving", "Unresolvable"}
  BY DEF Marked, IsWork, Funs
<1>6. Marked'
  <2>1. ASSUME NEW c \in Classes
        PROVE  /\ state'[c] = "Initializing" <=> At("init", c)' # {}
               /\ state'[c] = "Resolving" => At("resolve", c)' # {}
               /\ At("resolve", c)' # {} => state'[c] \in {"Resolving", "Unresolvable"}
    <3>1. CASE c # d
      BY <1>3, <3>1 DEF Marked
    <3>2. CASE c = d /\ fun = "init"
      BY <1>3, <1>4, <1>5, <3>2 DEF Marked
    <3>3. CASE c = d /\ fun = "resolve"
      BY <1>3, <1>4, <1>5, <3>3 DEF Marked
    <3>4. QED
      BY <1>1, <3>1, <3>2, <3>3 DEF IsWork, Funs
  <2>2. ASSUME NEW e \in Defs
        PROVE  /\ state'[e] = "Resolving" => At("def", e)' # {}
               /\ At("def", e)' # {} => state'[e] \in {"Resolving", "Unresolvable"}
    <3>1. CASE e # d
      BY <1>3, <3>1 DEF Marked
    <3>2. CASE e = d
      BY <1>1, <1>3, <1>4, <3>2 DEF IsWork, Funs
    <3>3. QED
      BY <3>1, <3>2
  <2>3. QED
    BY <1>1, <2>1, <2>2 DEF Marked
<1>7. Single'
  BY <1>1 DEF Single
<1>8. QED
  BY <1>3, <1>5, <1>6, <1>7

(* A call begins: it goes on as fr, or calls another. *)
LEMMA Begins ==
    ASSUME IInv, stack # <<>>, UNCHANGED <<prog, defVars, round>>, found' \subseteq Classes,
           \A f, e : ~Works(Top, f, e),
           NEW fun, NEW d, state[d] = Fresh(fun), SetState(d, Mark(fun)),
           NEW fr, IsFrame(fr, Defs), Works(fr, fun, d),
           \/ Continue(fr)
           \/ \E callee : /\ IsFrame(callee, Defs) /\ \A f, e : ~Works(callee, f, e)
                          /\ ~Unchecked(fr) /\ Call(fr, callee)
    PROVE  IInv' /\ StaysResolved
<1> USE DEF IInv
<1>1. IsWork(fun, d) /\ \A f, e : Works(fr, f, e) <=> f = fun /\ e = d
  BY WorkOfFrame
<1>2. /\ Stacked'
      /\ \A f, e : At(f, e)' = (At(f, e) \ {Len(stack)}) \cup TopAs(fr, f, e)
  <2>1. CASE Continue(fr)
    BY <2>1, Continues
  <2>2. ASSUME NEW callee, IsFrame(callee, Defs), \A f, e : ~Works(callee, f, e),
               ~Unchecked(fr), Call(fr, callee)
        PROVE  <1>2!1 /\ <1>2!2
    BY <2>2, Calls
  <2>3. QED
    BY <2>1, <2>2
<1>3. \A f, e : At(f, e)' = IF f = fun /\ e = d THEN At(f, e) \cup {Len(stack)} ELSE At(f, e)
  <2>1. \A f, e : Len(stack) \notin At(f, e)
    BY TopFrame
  <2>2. \A f, e : TopAs(fr, f, e) = IF f = fun /\ e = d THEN {Len(stack)} ELSE {}
    BY <1>1 DEF TopAs
  <2>3. QED
    BY <1>2, <2>1, <2>2
<1>4. Marked' /\ Single' /\ state' \in [Classes \cup Defs -> States]
  BY <1>1, <1>3, MarksBegin
<1>5. ret' \in TypesOf
  BY SimpleTypes DEF Continue, Call
<1>6. Typed'
  BY <1>4, <1>5, SameDefs DEF Typed, defVars
<1>7. StaysResolved
  <2>1. state' = [state EXCEPT ![d] = Mark(fun)] /\ state[d] # "Resolved"
        /\ state \in [Classes \cup Defs -> States]
    BY DEF SetState, Fresh, Typed
  <2>2. QED
    BY <2>1 DEF StaysResolved, defVars
<1>8. QED
  BY <1>2, <1>4, <1>6, <1>7

(* A call ends what it worked on: it returns, or goes on as fr with the    *)
(* work behind it.                                                         *)
LEMMA Ends ==
    ASSUME IInv, stack # <<>>, UNCHANGED <<prog, anc, inh, round>>, found' \subseteq Classes,
           NEW fun, NEW d, Works(Top, fun, d),
           NEW s, s \in {"Resolved", "Unresolvable"} \/ (fun = "init" /\ s = "Initialized"),
           SetState(d, s),
           aliased' \in [Defs -> TypesOf], \A e \in Defs : e # d => aliased'[e] = aliased[e],
           \/ \E type \in TypesOf : Return(type)
           \/ \E fr : IsFrame(fr, Defs) /\ (\A f, e : ~Works(fr, f, e)) /\ Continue(fr)
    PROVE  IInv' /\ StaysResolved
<1> USE DEF IInv
<1>1. /\ IsWork(fun, d) /\ \A f, e : Works(Top, f, e) <=> f = fun /\ e = d
      /\ Len(stack) \in At(fun, d)
  BY WorkOfFrame, TopFrame
<1>2. /\ Stacked' /\ ret' \in TypesOf
      /\ \A f, e : At(f, e)' = At(f, e) \ {Len(stack)}
  <2>1. ASSUME NEW type \in TypesOf, Return(type)
        PROVE  <1>2!1 /\ <1>2!2
    BY <2>1, Returns DEF Return
  <2>2. ASSUME NEW fr, IsFrame(fr, Defs), \A f, e : ~Works(fr, f, e), Continue(fr)
        PROVE  <1>2!1 /\ <1>2!2
    <3>1. \A f, e : TopAs(fr, f, e) = {}
      BY <2>2 DEF TopAs
    <3>2. QED
      BY <2>2, <3>1, Continues, SimpleTypes DEF Continue
  <2>3. QED
    BY <2>1, <2>2
<1>3. \A f, e : At(f, e)' = IF f = fun /\ e = d THEN At(f, e) \ {Len(stack)} ELSE At(f, e)
  BY <1>1, <1>2, TopFrame
<1>4. /\ Marked' /\ Single' /\ state' \in [Classes \cup Defs -> States]
      /\ state[d] # "Resolved"
      /\ \A e \in Classes \cup Defs : e # d => state'[e] = state[e]
  BY <1>1, <1>3, MarksEnd
<1>5. Typed'
  BY <1>2, <1>4, SameDefs DEF Typed
<1>6. StaysResolved
  BY <1>4 DEF StaysResolved
<1>7. QED
  BY <1>2, <1>4, <1>5, <1>6

(* A call that comes back to what is under way, or finds it failed, gives  *)
(* it up and returns.                                                      *)
LEMMA GivesUp ==
    ASSUME IInv, stack # <<>>, UNCHANGED <<prog, defVars, round>>, found' \subseteq Classes,
           \A f, e : ~Works(Top, f, e),
           NEW d \in Classes \cup Defs, d \in Classes => state[d] = "Resolving",
           state[d] # "Resolved", SetState(d, "Unresolvable"),
           NEW type \in TypesOf, Return(type)
    PROVE  IInv' /\ StaysResolved
<1> USE DEF IInv
<1>1. Defs' = Defs /\ Classes \cap Defs = {}
  BY SameDefs, Apart
<1>2. Stacked' /\ \A f, e : At(f, e)' = At(f, e)
  <2>1. Stacked' /\ \A f, e : At(f, e)' = At(f, e) \ {Len(stack)}
    BY Returns
  <2>2. \A f, e : Len(stack) \notin At(f, e)
    BY TopFrame
  <2>3. QED
    BY <2>1, <2>2
<1>3. /\ state' \in [Classes \cup Defs -> States]
      /\ state'[d] = "Unresolvable"
      /\ \A e \in Classes \cup Defs : e # d => state'[e] = state[e]
  BY DEF SetState, Typed, States
<1>4. Marked'
  BY <1>1, <1>2, <1>3 DEF Marked
<1>5. Single'
  BY <1>1, <1>2 DEF Single
<1>6. Typed'
  BY <1>3, SameDefs DEF Typed, Return, defVars
<1>7. StaysResolved
  BY <1>3 DEF StaysResolved, defVars
<1>8. QED
  BY <1>2, <1>4, <1>5, <1>6, <1>7

-----------------------------------------------------------------------------
(* Lists of definitions *)

(* What a list joined to another has. *)
LEMMA Joined ==
    ASSUME NEW S, NEW s \in Seq(S), NEW t \in Seq(S)
    PROVE  s \o t \in Seq(S) /\ ToSet(s \o t) = ToSet(s) \cup ToSet(t)
<1>1. /\ s \o t \in Seq(S) /\ Len(s \o t) = Len(s) + Len(t) /\ Len(s) \in Nat /\ Len(t) \in Nat
      /\ \A i \in 1 .. Len(s) : (s \o t)[i] = s[i]
      /\ \A i \in 1 .. Len(t) : (s \o t)[Len(s) + i] = t[i]
      /\ DOMAIN s = 1 .. Len(s) /\ DOMAIN t = 1 .. Len(t)
  OBVIOUS
<1> DEFINE u == s \o t
<1> HIDE DEF u
<1>2. DOMAIN u = 1 .. Len(s) + Len(t)
  BY <1>1, LenProperties DEF u
<1>3. ASSUME NEW x \in ToSet(u) PROVE x \in ToSet(s) \cup ToSet(t)
  <2>1. PICK i \in 1 .. Len(s) + Len(t) : u[i] = x
    BY <1>2, <1>3 DEF ToSet
  <2>2. CASE i <= Len(s)
    BY <1>1, <2>1, <2>2 DEF ToSet, u
  <2>3. CASE ~(i <= Len(s))
    <3>1. i - Len(s) \in 1 .. Len(t) /\ Len(s) + (i - Len(s)) = i
      BY <1>1, <2>1, <2>3
    <3>2. u[i] = t[i - Len(s)]
      BY <1>1, <3>1 DEF u
    <3>3. QED
      BY <1>1, <2>1, <3>1, <3>2 DEF ToSet
  <2>4. QED
    BY <2>2, <2>3
<1>4. ASSUME NEW x \in ToSet(s) PROVE x \in ToSet(u)
  <2>1. PICK i \in 1 .. Len(s) : s[i] = x
    BY <1>1, <1>4 DEF ToSet
  <2>2. u[i] = x /\ i \in DOMAIN u
    BY <1>1, <1>2, <2>1 DEF u
  <2>3. QED
    BY <2>2 DEF ToSet
<1>5. ASSUME NEW x \in ToSet(t) PROVE x \in ToSet(u)
  <2>1. PICK i \in 1 .. Len(t) : t[i] = x
    BY <1>1, <1>5 DEF ToSet
  <2>2. u[Len(s) + i] = x /\ Len(s) + i \in DOMAIN u
    BY <1>1, <1>2, <2>1 DEF u
  <2>3. QED
    BY <2>2 DEF ToSet
<1>6. QED
  BY <1>1, <1>3, <1>4, <1>5 DEF u

(* What a list has when one more is added. *)
LEMMA Added ==
    ASSUME NEW S, NEW s \in Seq(S), NEW x \in S
    PROVE  Append(s, x) \in Seq(S) /\ ToSet(Append(s, x)) = ToSet(s) \cup {x}
<1>1. /\ Append(s, x) \in Seq(S) /\ Len(Append(s, x)) = Len(s) + 1 /\ Len(s) \in Nat
      /\ \A i \in 1 .. Len(s) : Append(s, x)[i] = s[i]
      /\ Append(s, x)[Len(s) + 1] = x /\ DOMAIN s = 1 .. Len(s)
  BY AppendProperties
<1> DEFINE u == Append(s, x)
<1> HIDE DEF u
<1>2. DOMAIN u = 1 .. Len(s) + 1
  BY <1>1, LenProperties DEF u
<1>3. ASSUME NEW y \in ToSet(u) PROVE y \in ToSet(s) \cup {x}
  <2>1. PICK i \in 1 .. Len(s) + 1 : u[i] = y
    BY <1>2, <1>3 DEF ToSet
  <2>2. i = Len(s) + 1 \/ i \in 1 .. Len(s)
    BY <1>1, <2>1
  <2>3. QED
    BY <1>1, <2>1, <2>2 DEF ToSet, u
<1>4. \A i \in 1 .. Len(s) : i \in DOMAIN u
  BY <1>1, <1>2
<1>5. Len(s) + 1 \in DOMAIN u
  BY <1>1, <1>2
<1>6. ToSet(s) \cup {x} \subseteq ToSet(u)
  BY <1>1, <1>4, <1>5 DEF ToSet, u
<1>7. QED
  BY <1>1, <1>3, <1>6 DEF u

(* The empty list is one of anything, and has nothing. *)
LEMMA NoneIn ==
    ASSUME NEW S
    PROVE  <<>> \in Seq(S) /\ ToSet(<<>>) = {}
BY DEF ToSet

(* The next of a list, and the rest.                                       *)
LEMMA NextAndRest ==
    ASSUME NEW S, NEW s \in Seq(S), s # <<>>
    PROVE  Head(s) \in S /\ Tail(s) \in Seq(S) /\ ToSet(s) = {Head(s)} \cup ToSet(Tail(s))
<1>1. /\ Len(s) \in Nat \ {0} /\ Head(s) = s[1] /\ Head(s) \in S /\ Tail(s) \in Seq(S)
      /\ Len(Tail(s)) = Len(s) - 1 /\ \A i \in 1 .. Len(s) - 1 : Tail(s)[i] = s[i + 1]
      /\ DOMAIN s = 1 .. Len(s)
  OBVIOUS
<1> DEFINE t == Tail(s)
<1> HIDE DEF t
<1>2. DOMAIN t = 1 .. Len(s) - 1
  BY <1>1, LenProperties DEF t
<1>3. ASSUME NEW x \in ToSet(s) PROVE x \in {Head(s)} \cup ToSet(t)
  <2>1. PICK i \in 1 .. Len(s) : s[i] = x
    BY <1>1, <1>3 DEF ToSet
  <2>2. i # 1 => i - 1 \in 1 .. Len(s) - 1 /\ (i - 1) + 1 = i
    BY <1>1, <2>1
  <2>3. i # 1 => i - 1 \in DOMAIN t /\ t[i - 1] = x
    BY <1>1, <1>2, <2>1, <2>2 DEF t
  <2>4. QED
    BY <1>1, <2>1, <2>3 DEF ToSet
<1>4. ASSUME NEW x \in ToSet(t) PROVE x \in ToSet(s)
  <2>1. PICK i \in 1 .. Len(s) - 1 : t[i] = x
    BY <1>2, <1>4 DEF ToSet
  <2>2. s[i + 1] = x /\ i + 1 \in DOMAIN s
    BY <1>1, <2>1 DEF t
  <2>3. QED
    BY <2>2 DEF ToSet
<1>5. Head(s) \in ToSet(s)
  BY <1>1 DEF ToSet
<1>6. QED
  BY <1>1, <1>3, <1>4, <1>5 DEF t

(* In whatever order a set of finitely many is put.                        *)
LEMMA Ordered ==
    ASSUME NEW S, IsFiniteSet(S), NEW s \in SetToSeqs(S)
    PROVE  s \in Seq(S) /\ ToSet(s) = S
<1> DEFINE n == Cardinality(S)
<1>1. n \in Nat
  BY FS_CardinalityType
<1>2. s \in [1 .. n -> S] /\ \A i, j \in 1 .. n : i # j => s[i] # s[j]
  BY DEF SetToSeqs
<1>3. IsFiniteSet(1 .. n) /\ Cardinality(1 .. n) = n
  <2> HIDE DEF n
  <2>1. Cardinality(1 .. n) = IF 1 > n THEN 0 ELSE n - 1 + 1
    BY <1>1, FS_Interval
  <2>2. IsFiniteSet(1 .. n)
    BY <1>1, FS_Interval
  <2>3. QED
    BY <1>1, <2>1, <2>2
<1>4. s \in Injection(1 .. n, S)
  BY <1>2 DEF Injection, IsInjective
<1>5. s \in Surjection(1 .. n, S)
  BY <1>3, <1>4, FS_Injection
<1>6. \A x \in S : \E i \in 1 .. n : s[i] = x
  BY <1>5 DEF Surjection
<1>7. s \in Seq(S)
  BY <1>1, <1>2
<1>8. ToSet(s) = S
  BY <1>2, <1>6 DEF ToSet
<1>9. QED
  BY <1>7, <1>8

(* A list has finitely many elements. *)
LEMMA ElementsFinite ==
    ASSUME NEW S, NEW s \in Seq(S)
    PROVE  IsFiniteSet(ToSet(s))
<1>1. Len(s) \in Nat /\ s \in [1 .. Len(s) -> ToSet(s)]
  BY OwnElements, LenProperties
<1>2. IsFiniteSet(1 .. Len(s))
  BY <1>1, FS_Interval
<1>3. \A x \in ToSet(s) : \E i \in 1 .. Len(s) : s[i] = x
  BY <1>1 DEF ToSet
<1>4. s \in Surjection(1 .. Len(s), ToSet(s))
  BY <1>1, <1>3 DEF Surjection
<1>5. QED
  BY <1>2, <1>4, FS_Surjection

(* The definitions of a kind that a class is given are all there are. *)
LEMMA DefsOfIs ==
    ASSUME prog \in Programs, NEW c \in Classes, NEW kind
    PROVE  /\ DefsOf(c, kind) \in Seq(Defs)
           /\ ToSet(DefsOf(c, kind)) = {d \in Defs : d[1] = c /\ Def(d).kind = kind}
<1> DEFINE n == Len(prog.members[c])
           S == Seq(Defs)
           Next1(i, s) == IF Def(<<c, i>>).kind = kind THEN Append(s, <<c, i>>) ELSE s
           F(f) == [i \in 0 .. n |-> IF i = 0 THEN <<>>
                                     ELSE IF Def(<<c, i>>).kind = kind THEN Append(f[i - 1], <<c, i>>)
                                     ELSE f[i - 1]]
           upto == CHOOSE f : f = F(f)
<1>1. n \in Nat /\ Members(c) = 1 .. n
  <2>1. prog.members[c] \in Seq(ToSet(prog.members[c]))
    BY ProgramsAssumption
  <2>2. QED
    BY <2>1, LenProperties DEF Members
<1>2. \A i \in 1 .. n : <<c, i>> \in Defs
  BY <1>1 DEF Defs
<1>3. DefsOf(c, kind) = upto[n]
  BY DEF DefsOf
<1>4. \A i \in 1 .. n : \A s \in S : Next1(i, s) \in S
  BY <1>2, Added
<1> HIDE DEF n
<1>5. upto = F(upto)
  <2> DEFINE g == [i \in 1 .. n |-> [s \in S |-> Next1(i, s)]]
  <2> HIDE DEF Next1
  <2>1. Steps(g, n, S)
    BY <1>4 DEF Steps
  <2>2. PICK f : Results(f, g, n, S, <<>>)
    <3> HIDE DEF g
    <3>1. <<>> \in S
      BY NoneIn
    <3> HIDE DEF S
    <3>2. QED
      BY <1>1, <2>1, <3>1, Iteration
  <2>3. \A i \in 0 .. n : f[i] = IF i = 0 THEN <<>> ELSE Next1(i, f[i - 1])
    <3> SUFFICES ASSUME NEW i \in 0 .. n, i # 0 PROVE f[i] = Next1(i, f[i - 1])
      BY <2>2 DEF Results
    <3>1. i \in 1 .. n /\ f[i - 1] \in S
      BY <1>1, <2>2 DEF Results
    <3>2. QED
      BY <2>2, <3>1 DEF Results
  <2>4. f = F(f)
    <3> HIDE DEF S
    <3>1. QED
      BY <2>2, <2>3 DEF Results, Next1
  <2> HIDE DEF F
  <2>5. QED
    BY <2>4
<1>6. upto[0] = <<>> /\ \A i \in 1 .. n : upto[i] = Next1(i, upto[i - 1])
  <2> HIDE DEF upto
  <2>1. 0 \in 0 .. n /\ \A i \in 1 .. n : i \in 0 .. n /\ i # 0
    BY <1>1
  <2>2. F(upto)[0] = <<>>
    BY <2>1
  <2>3. \A i \in 1 .. n : F(upto)[i] = Next1(i, upto[i - 1])
    BY <2>1
  <2> HIDE DEF F
  <2>4. QED
    BY <1>5, <2>2, <2>3
<1> HIDE DEF upto
<1> DEFINE Right(i) == upto[i] \in S /\ ToSet(upto[i]) = {<<c, j>> : j \in {j \in 1 .. i : Def(<<c, j>>).kind = kind}}
           N == {i \in 0 .. n : Right(i)}
<1>7. 0 \in N
  <2>1. upto[0] \in S /\ ToSet(upto[0]) = {}
    BY <1>6, NoneIn
  <2>2. 1 .. 0 = {} /\ 0 \in 0 .. n
    BY <1>1
  <2> HIDE DEF S
  <2>3. QED
    BY <2>1, <2>2
<1>8. ASSUME NEW i \in 1 .. n, i - 1 \in N PROVE i \in N
  <2>1. Right(i - 1) /\ i \in Nat /\ i \in 0 .. n
    <3> HIDE DEF Right
    <3>1. QED
      BY <1>1, <1>8
  <2>2. \A j : j \in 1 .. i <=> j \in 1 .. i - 1 \/ j = i
    BY <2>1
  <2>3. CASE Def(<<c, i>>).kind = kind
    <3>1. upto[i] = Append(upto[i - 1], <<c, i>>)
      BY <1>6, <2>3
    <3>2. upto[i] \in S /\ ToSet(upto[i]) = ToSet(upto[i - 1]) \cup {<<c, i>>}
      <4> DEFINE before == upto[i - 1]
                 d == <<c, i>>
      <4>1. before \in Seq(Defs) /\ d \in Defs /\ upto[i] = Append(before, d)
        BY <1>2, <2>1, <3>1
      <4> HIDE DEF before, d
      <4>2. upto[i] \in Seq(Defs) /\ ToSet(upto[i]) = ToSet(before) \cup {d}
        BY <4>1, Added
      <4>3. QED
        BY <4>2 DEF before, d
    <3>3. {<<c, j>> : j \in {j \in 1 .. i : Def(<<c, j>>).kind = kind}}
            = {<<c, j>> : j \in {j \in 1 .. i - 1 : Def(<<c, j>>).kind = kind}} \cup {<<c, i>>}
      BY <2>2, <2>3
    <3>4. QED
      BY <2>1, <3>2, <3>3
  <2>4. CASE Def(<<c, i>>).kind # kind
    <3>1. upto[i] = upto[i - 1]
      BY <1>6, <2>4
    <3>2. {j \in 1 .. i : Def(<<c, j>>).kind = kind} = {j \in 1 .. i - 1 : Def(<<c, j>>).kind = kind}
      BY <2>2, <2>4
    <3>3. QED
      BY <2>1, <3>1, <3>2
  <2>5. QED
    BY <2>3, <2>4
<1>9. Right(n)
  <2>1. 0 .. n \subseteq N
    <3> HIDE DEF N
    <3>1. QED
      BY <1>1, <1>7, <1>8, CountingUp
  <2>2. QED
    BY <1>1, <2>1
<1>10. {<<c, j>> : j \in {j \in 1 .. n : Def(<<c, j>>).kind = kind}} = {d \in Defs : d[1] = c /\ Def(d).kind = kind}
  <2>1. ASSUME NEW d \in Defs, d[1] = c PROVE \E j \in 1 .. n : d = <<c, j>>
    <3>1. PICK b \in Classes : \E i \in Members(b) : d = <<b, i>>
      BY DEF Defs
    <3>2. PICK i \in Members(b) : d = <<b, i>>
      BY <3>1
    <3>3. b = c
      BY <2>1, <3>2
    <3>4. QED
      BY <1>1, <3>2, <3>3
  <2>2. ASSUME NEW j \in 1 .. n PROVE <<c, j>> \in Defs /\ <<c, j>>[1] = c
    BY <1>2
  <2>3. {<<c, j>> : j \in {j \in 1 .. n : Def(<<c, j>>).kind = kind}} \subseteq
          {d \in Defs : d[1] = c /\ Def(d).kind = kind}
    BY <2>2
  <2>4. ASSUME NEW d \in Defs, d[1] = c, Def(d).kind = kind
        PROVE  d \in {<<c, j>> : j \in {j \in 1 .. n : Def(<<c, j>>).kind = kind}}
    <3>1. PICK j \in 1 .. n : d = <<c, j>>
      BY <2>1, <2>4
    <3>2. QED
      BY <2>4, <3>1
  <2>5. QED
    BY <2>3, <2>4
<1>11. QED
  BY <1>3, <1>9, <1>10

(* Those of a list of classes are all that any of these has. *)
LEMMA AllDefsOfIs ==
    ASSUME prog \in Programs, NEW list \in Seq(Classes), NEW kind
    PROVE  /\ AllDefsOf(list, kind) \in Seq(Defs)
           /\ ToSet(AllDefsOf(list, kind)) = {d \in Defs : d[1] \in ToSet(list) /\ Def(d).kind = kind}
<1> DEFINE n == Len(list)
           S == Seq(Defs)
           Of(c) == {d \in Defs : d[1] = c /\ Def(d).kind = kind}
           F(f) == [k \in 0 .. n |-> IF k = 0 THEN <<>> ELSE f[k - 1] \o DefsOf(list[k], kind)]
           upto == CHOOSE f : f = F(f)
<1>1. n \in Nat /\ DOMAIN list = 1 .. n /\ \A k \in 1 .. n : list[k] \in Classes
  OBVIOUS
<1>2. \A k \in 1 .. n : DefsOf(list[k], kind) \in S /\ ToSet(DefsOf(list[k], kind)) = Of(list[k])
  BY <1>1, DefsOfIs
<1>3. AllDefsOf(list, kind) = upto[n]
  BY DEF AllDefsOf
<1>4. \A k \in 1 .. n : \A s \in S : s \o DefsOf(list[k], kind) \in S
  BY <1>2, Joined
<1> HIDE DEF n
<1>5. upto = F(upto)
  <2> DEFINE g == [k \in 1 .. n |-> [s \in S |-> s \o DefsOf(list[k], kind)]]
  <2>1. Steps(g, n, S)
    BY <1>4 DEF Steps
  <2>2. PICK f : Results(f, g, n, S, <<>>)
    <3> HIDE DEF g
    <3>1. <<>> \in S
      BY NoneIn
    <3> HIDE DEF S
    <3>2. QED
      BY <1>1, <2>1, <3>1, Iteration
  <2>3. \A k \in 0 .. n : f[k] = IF k = 0 THEN <<>> ELSE f[k - 1] \o DefsOf(list[k], kind)
    <3> SUFFICES ASSUME NEW k \in 0 .. n, k # 0 PROVE f[k] = f[k - 1] \o DefsOf(list[k], kind)
      BY <2>2 DEF Results
    <3>1. k \in 1 .. n /\ f[k - 1] \in S
      BY <1>1, <2>2 DEF Results
    <3>2. QED
      BY <2>2, <3>1 DEF Results
  <2>4. f = F(f)
    <3> HIDE DEF S
    <3>1. QED
      BY <2>2, <2>3 DEF Results
  <2> HIDE DEF F
  <2>5. QED
    BY <2>4
<1>6. upto[0] = <<>> /\ \A k \in 1 .. n : upto[k] = upto[k - 1] \o DefsOf(list[k], kind)
  <2> HIDE DEF upto
  <2>1. 0 \in 0 .. n /\ \A k \in 1 .. n : k \in 0 .. n /\ k # 0
    BY <1>1
  <2>2. F(upto)[0] = <<>>
    BY <2>1
  <2>3. \A k \in 1 .. n : F(upto)[k] = upto[k - 1] \o DefsOf(list[k], kind)
    BY <2>1
  <2> HIDE DEF F
  <2>4. QED
    BY <1>5, <2>2, <2>3
<1> HIDE DEF upto
<1> DEFINE Right(k) == upto[k] \in S /\ ToSet(upto[k]) = UNION {Of(list[j]) : j \in 1 .. k}
           N == {k \in 0 .. n : Right(k)}
<1>7. 0 \in N
  <2>1. upto[0] \in S /\ ToSet(upto[0]) = {}
    BY <1>6, NoneIn
  <2>2. 1 .. 0 = {} /\ 0 \in 0 .. n
    BY <1>1
  <2> HIDE DEF S, Of
  <2>3. QED
    BY <2>1, <2>2
<1>8. ASSUME NEW k \in 1 .. n, k - 1 \in N PROVE k \in N
  <2> HIDE DEF Of
  <2>1. Right(k - 1) /\ k \in Nat /\ k \in 0 .. n
    <3> HIDE DEF Right
    <3>1. QED
      BY <1>1, <1>8
  <2>2. \A j : j \in 1 .. k <=> j \in 1 .. k - 1 \/ j = k
    BY <2>1
  <2>3. upto[k] \in S /\ ToSet(upto[k]) = ToSet(upto[k - 1]) \cup Of(list[k])
    <3>1. /\ upto[k] = upto[k - 1] \o DefsOf(list[k], kind) /\ upto[k - 1] \in S
          /\ DefsOf(list[k], kind) \in S /\ ToSet(DefsOf(list[k], kind)) = Of(list[k])
      BY <1>2, <1>6, <2>1
    <3>2. QED
      BY <3>1, Joined
  <2>4. UNION {Of(list[j]) : j \in 1 .. k} = (UNION {Of(list[j]) : j \in 1 .. k - 1}) \cup Of(list[k])
    BY <2>2
  <2>5. QED
    BY <2>1, <2>3, <2>4
<1>9. Right(n)
  <2>1. 0 .. n \subseteq N
    <3> HIDE DEF N
    <3>1. QED
      BY <1>1, <1>7, <1>8, CountingUp
  <2>2. QED
    BY <1>1, <2>1
<1>10. UNION {Of(list[j]) : j \in 1 .. n} = {d \in Defs : d[1] \in ToSet(list) /\ Def(d).kind = kind}
  BY <1>1 DEF ToSet
<1>11. QED
  BY <1>3, <1>9, <1>10

(* The properties of a class, own and inherited. *)
LEMMA PropertiesIs ==
    ASSUME Typed, NEW c \in Classes
    PROVE  Properties(c) \in Seq(Defs) /\ ToSet(Properties(c)) = PropsOf(c)
<1>1. anc[c] \in Seq(Classes) /\ <<c>> \in Seq(Classes) /\ prog \in Programs
  BY DEF Typed
<1> DEFINE first == <<c>>
           list == first \o anc[c]
<1>2. first \in Seq(Classes) /\ ToSet(first) = {c}
  BY DEF ToSet
<1> HIDE DEF first
<1>3. list \in Seq(Classes) /\ ToSet(list) = {c} \cup ToSet(anc[c])
  BY <1>1, <1>2, Joined
<1>4. Properties(c) = AllDefsOf(list, "prop")
  BY DEF Properties, first
<1> HIDE DEF list
<1>5. QED
  BY <1>1, <1>3, <1>4, AllDefsOfIs DEF PropsOf

(* An ancestor is added with its own to a list of classes. *)
LEMMA WithAncestorIs ==
    ASSUME NEW T, NEW list \in Seq(T), NEW p \in T, anc[p] \in Seq(T)
    PROVE  WithAncestor(list, p) \in Seq(T)
<1> DEFINE new == <<p>> \o anc[p]
           n == Len(new)
           S == Seq(T)
           F(f) == [k \in 0 .. n |->
                      IF k = 0 THEN list
                      ELSE IF new[k] \in ToSet(f[k - 1]) THEN f[k - 1] ELSE Append(f[k - 1], new[k])]
           upto == CHOOSE f : f = F(f)
           Next1(k, s) == IF new[k] \in ToSet(s) THEN s ELSE Append(s, new[k])
<1>1. new \in Seq(T)
  <2>1. <<p>> \in Seq(T) /\ anc[p] \in Seq(T)
    OBVIOUS
  <2>2. QED
    BY <2>1, Joined
<1>2. WithAncestor(list, p) = upto[n]
  BY DEF WithAncestor
<1> HIDE DEF new
<1>3. n \in Nat /\ \A k \in 1 .. n : new[k] \in T
  BY <1>1
<1>4. \A k \in 1 .. n : \A s \in S : Next1(k, s) \in S
  BY <1>3
<1> HIDE DEF n
<1>5. upto = F(upto)
  <2> DEFINE g == [k \in 1 .. n |-> [s \in S |-> Next1(k, s)]]
  <2> HIDE DEF Next1
  <2>1. Steps(g, n, S)
    BY <1>4 DEF Steps
  <2>2. PICK f : Results(f, g, n, S, list)
    <3> HIDE DEF g
    <3>1. list \in S
      OBVIOUS
    <3> HIDE DEF S
    <3>2. QED
      BY <1>3, <2>1, <3>1, Iteration
  <2>3. \A k \in 0 .. n : f[k] = IF k = 0 THEN list ELSE Next1(k, f[k - 1])
    <3> SUFFICES ASSUME NEW k \in 0 .. n, k # 0 PROVE f[k] = Next1(k, f[k - 1])
      BY <2>2 DEF Results
    <3>1. k \in 1 .. n /\ f[k - 1] \in S
      BY <1>3, <2>2 DEF Results
    <3>2. QED
      BY <2>2, <3>1 DEF Results
  <2>4. f = F(f)
    <3> HIDE DEF S
    <3>1. QED
      BY <2>2, <2>3 DEF Results, Next1
  <2> HIDE DEF F
  <2>5. QED
    BY <2>4
<1>6. upto[0] = list /\ \A k \in 1 .. n : upto[k] = Next1(k, upto[k - 1])
  <2> HIDE DEF upto
  <2>1. 0 \in 0 .. n /\ \A k \in 1 .. n : k \in 0 .. n /\ k # 0
    BY <1>3
  <2>2. F(upto)[0] = list
    BY <2>1
  <2>3. \A k \in 1 .. n : F(upto)[k] = Next1(k, upto[k - 1])
    BY <2>1
  <2> HIDE DEF F
  <2>4. QED
    BY <1>5, <2>2, <2>3
<1> HIDE DEF upto, Next1
<1> DEFINE N == {k \in 0 .. n : upto[k] \in S}
<1>7. 0 \in N
  BY <1>3, <1>6
<1>8. ASSUME NEW k \in 1 .. n, k - 1 \in N PROVE k \in N
  BY <1>3, <1>4, <1>6, <1>8
<1>9. 0 .. n \subseteq N
  <2> HIDE DEF N
  <2>1. QED
    BY <1>3, <1>7, <1>8, CountingUp
<1>10. QED
  BY <1>2, <1>3, <1>9

-----------------------------------------------------------------------------
(* The steps of the calls *)

LEMMA InitStepInv ==
    ASSUME IInv, stack # <<>>, InitStep
    PROVE  IInv' /\ StaysResolved
<1> USE DEF IInv
<1> DEFINE c == Top.def
           Goal == IInv' /\ StaysResolved
<1>1. /\ Top.fun = "init" /\ c \in Classes /\ Top.at \in Nat
      /\ {"fun", "def", "at"} \subseteq DOMAIN Top
      /\ UNCHANGED <<prog, aliased, round>> /\ found \subseteq Classes
      /\ IsFrame(Top, Defs) /\ ~Unchecked(Top)
  BY TopFrame DEF InitStep, InitEnter, InitParent, InitAddParent, InitFail, InitDone,
                  IsFrame, Unchecked, Typed, defVars
<1>2. \A type : Noted(type) \subseteq Classes
  BY <1>1 DEF Noted, IsNoted
<1>3. Top.at # 0 => Works(Top, "init", c)
  BY <1>1 DEF Works
<1>4. CASE InitEnter
  <2>1. /\ Top.at = 0 /\ UNCHANGED <<defVars>> /\ found' \subseteq Classes
        /\ \A f, e : ~Works(Top, f, e)
    BY <1>1, <1>2, <1>4 DEF InitEnter, Works
  <2>2. CASE state[c] = "NotResolved"
    <3> DEFINE fr == [Top EXCEPT !.at = 1]
    <3>1. SetState(c, Mark("init")) /\ Continue(fr) /\ state[c] = Fresh("init")
      BY <1>4, <2>2 DEF InitEnter, Mark, Fresh
    <3>2. IsFrame(fr, Defs) /\ Works(fr, "init", c)
      BY <1>1 DEF IsFrame, Works
    <3>3. UNCHANGED <<prog, defVars, round>>
      BY <1>1, <2>1
    <3> HIDE DEF fr
    <3>4. QED
      BY <2>1, <3>1, <3>2, <3>3, Begins
  <2>3. CASE state[c] # "NotResolved"
    <3>1. UNCHANGED state /\ (Return(True) \/ Return(False))
      BY <1>4, <2>3 DEF InitEnter
    <3>2. QED
      BY <1>1, <2>1, <3>1, GoesBack, SimpleTypes
  <2>4. QED
    BY <2>2, <2>3
<1>5. CASE InitParent
  <2>1. UNCHANGED <<state, defVars>> /\ found' = found
    BY <1>5 DEF InitParent
  <2>2. PICK path : Call(Top, TypeCall(path, c, 0, None, FALSE))
    BY <1>5 DEF InitParent
  <2>3. QED
    BY <1>1, <2>1, <2>2, Callees, GoesOn
<1>6. CASE InitAddParent
  <2> DEFINE fr == [Top EXCEPT !.at = @ + 1]
  <2>1. /\ Top.at # 0 /\ Continue(fr) /\ state' = state /\ found' = found
        /\ ret.cls \in Classes
    BY <1>6 DEF InitAddParent, Typed, TypesOf
  <2>2. IsFrame(fr, Defs) /\ Works(fr, "init", c)
    BY <1>1, <2>1 DEF IsFrame, Works
  <2>3. \A f, e : Works(fr, f, e) <=> Works(Top, f, e)
    BY <1>1, <1>3, <2>1, <2>2, WorkOfFrame
  <2>4. /\ Stacked'
        /\ \A f, e : At(f, e)' = (At(f, e) \ {Len(stack)}) \cup TopAs(fr, f, e)
    BY <1>1, <2>1, <2>2, Continues
  <2>5. \A f, e : At(f, e)' = At(f, e)
    BY <2>3, <2>4, TopFrame DEF TopAs
  <2>6. Marked' /\ Single'
    BY <1>1, <2>1, <2>5, SameMarks
  <2>7. /\ anc' \in [Classes -> Seq(Classes)] /\ DOMAIN inh' = Classes
        /\ \A d \in Classes : d # c => anc'[d] = anc[d]
        /\ \A d \in Classes : \A n \in DOMAIN inh'[d] : inh'[d][n] \in Defs
    <3>1. ASSUME NEW n \in DOMAIN WithMembers(c, ret.cls)
          PROVE  WithMembers(c, ret.cls)[n] \in Defs
      <4> DEFINE p == ret.cls
                 names == {Def(<<p, i>>).name : i \in {i \in Members(p) : Def(<<p, i>>).kind = "alias"}}
                            \cup DOMAIN inh[p]
                 new == {m \in names : Typedef(c, m) = {}}
      <4>1. CASE n \in new
        <5>1. Typedef(p, n) # {}
          <6>1. CASE n \in DOMAIN inh[p]
            BY <6>1 DEF Typedef
          <6>2. CASE n \notin DOMAIN inh[p]
            <7>1. PICK i \in Members(p) : Def(<<p, i>>).kind = "alias" /\ n = Def(<<p, i>>).name
              BY <4>1, <6>2
            <7>2. <<p, i>> \in OwnAlias(p, n)
              BY <7>1 DEF OwnAlias, Def
            <7>3. QED
              BY <7>2 DEF Typedef
          <6>3. QED
            BY <6>1, <6>2
        <5>2. Typedef(p, n) \subseteq Defs
          BY <2>1, NamesDefs
        <5>3. WithMembers(c, p)[n] = CHOOSE d \in Typedef(p, n) : TRUE
          BY <3>1, <4>1 DEF WithMembers
        <5>4. QED
          BY <5>1, <5>2, <5>3
      <4>2. CASE n \notin new
        <5>1. WithMembers(c, p)[n] = inh[c][n] /\ n \in DOMAIN inh[c]
          BY <3>1, <4>2 DEF WithMembers
        <5>2. QED
          BY <1>1, <5>1 DEF Typed
      <4>3. QED
        BY <4>1, <4>2
    <3>2. CASE UNCHANGED <<anc, inh>>
      BY <3>2 DEF Typed
    <3>3. CASE /\ anc' = [anc EXCEPT ![c] = WithAncestor(@, ret.cls)]
               /\ inh' = [inh EXCEPT ![c] = WithMembers(c, ret.cls)]
      <4>1. WithAncestor(anc[c], ret.cls) \in Seq(Classes)
        BY <1>1, <2>1, WithAncestorIs DEF Typed
      <4>2. QED
        BY <1>1, <3>1, <3>3, <4>1 DEF Typed
    <3>4. QED
      BY <1>6, <3>2, <3>3 DEF InitAddParent
  <2>8. Typed'
    BY <1>1, <2>1, <2>7, SameDefs, SimpleTypes DEF Typed, Continue
  <2>9. StaysResolved
    <3>1. state[c] = "Initializing"
      BY <1>1, <1>3, <2>1, TopFrame DEF Marked
    <3>2. QED
      BY <1>1, <2>1, <2>7, <3>1 DEF StaysResolved
  <2>10. QED
    BY <2>4, <2>6, <2>8, <2>9
<1>7. CASE InitFail \/ InitDone
  <2>1. PICK s \in {"Unresolvable", "Initialized"} :
          /\ SetState(c, s)
          /\ \E type \in TypesOf : Return(type)
    BY <1>7, SimpleTypes DEF InitFail, InitDone
  <2>2. UNCHANGED defVars /\ found' \subseteq Classes /\ Top.at # 0
    BY <1>1, <1>2, <1>7 DEF InitFail, InitDone
  <2>3. QED
    <3>1. PICK type \in TypesOf : Return(type)
      BY <2>1
    <3>2. /\ UNCHANGED <<prog, anc, inh, round>> /\ aliased' \in [Defs -> TypesOf]
          /\ \A e \in Defs : e # c => aliased'[e] = aliased[e]
      BY <1>1, <2>2 DEF defVars, Typed
    <3>3. QED
      BY <1>3, <2>1, <2>2, <3>1, <3>2, Ends
<1>8. QED
  BY <1>4, <1>5, <1>6, <1>7 DEF InitStep

(* The program stops where it is. *)
LEMMA Stands ==
    ASSUME IInv, UNCHANGED <<prog, state, defVars, round, found, stack, ret>>
    PROVE  IInv' /\ StaysResolved
<1> USE DEF IInv
<1>1. Stacked'
  <2>1. \A j \in DOMAIN stack' : IsFrame(stack[j], Defs)'
    BY SameDefs DEF Stacked
  <2>2. \A j \in DOMAIN stack' : Unchecked(stack[j])' <=> Unchecked(stack[j])
    BY DEF Unchecked
  <2>3. QED
    BY <2>1, <2>2 DEF Stacked
<1>2. \A fun, d : At(fun, d)' = At(fun, d)
  BY DEF At
<1>3. found' \subseteq Classes /\ ret' \in TypesOf
  BY DEF Typed
<1>4. QED
  BY <1>1, <1>2, <1>3, Quiet DEF defVars

LEMMA ResolveStepInv ==
    ASSUME IInv, stack # <<>>, ResolveStep
    PROVE  IInv' /\ StaysResolved
<1> USE DEF IInv
<1> DEFINE c == Top.def
           Goal == IInv' /\ StaysResolved
<1>1. /\ Top.fun = "resolve" /\ c \in Classes
      /\ Top.at \in {"init", "enter", "deps", "funs"}
      /\ {"fun", "def", "at", "todo", "unions"} \subseteq DOMAIN Top
      /\ UNCHANGED <<prog, defVars, round>> /\ found \subseteq Classes
      /\ IsFrame(Top, Defs) /\ ~Unchecked(Top)
  BY TopFrame DEF ResolveStep, ResolveInit, ResolveEnter, ResolveNext, ResolveFuns, ResolveFun,
                  ResolveFail, ResolveDone, IsFrame, Unchecked, Typed
<1>2. \A type : Noted(type) \subseteq Classes
  BY <1>1 DEF Noted, IsNoted
<1>3. \A f, e : Works(Top, f, e) <=> f = "resolve" /\ e = c /\ Top.at \in {"deps", "funs"}
  BY <1>1 DEF Works
<1>4. CASE ResolveInit
  <2> DEFINE fr == [Top EXCEPT !.at = "enter"]
  <2>1. /\ UNCHANGED <<state>> /\ found' = found /\ Top.at = "init"
        /\ Call(fr, InitCall(c, FALSE))
    BY <1>4 DEF ResolveInit
  <2>2. IsFrame(fr, Defs) /\ ~Unchecked(fr) /\ \A f, e : Works(fr, f, e) <=> Works(Top, f, e)
    BY <1>1, <1>3, <2>1 DEF IsFrame, AtValues, Unchecked, Works
  <2> HIDE DEF fr
  <2>3. QED
    BY <1>1, <2>1, <2>2, Callees, GoesOn
<1>5. CASE ResolveEnter
  <2>1. Top.at = "enter" /\ found' \subseteq Classes /\ \A f, e : ~Works(Top, f, e)
    BY <1>1, <1>2, <1>3, <1>5 DEF ResolveEnter
  <2>2. CASE UNCHANGED state /\ (Return(True) \/ Return(False))
    BY <1>1, <2>1, <2>2, GoesBack, SimpleTypes
  <2>3. CASE ret # False /\ state[c] = "Resolving"
    BY <1>1, <1>5, <2>1, <2>3, GivesUp, SimpleTypes DEF ResolveEnter
  <2>4. CASE ret # False /\ state[c] = "Initialized"
    <3> DEFINE fr == [Top EXCEPT !.at = "deps", !.todo = Dependencies(c)]
    <3>1. SetState(c, Mark("resolve")) /\ Continue(fr) /\ state[c] = Fresh("resolve")
      BY <1>5, <2>4 DEF ResolveEnter, WorkOn, Mark, Fresh
    <3>2. IsFrame(fr, Defs) /\ Works(fr, "resolve", c)
      BY <1>1 DEF IsFrame, AtValues, Works
    <3> HIDE DEF fr
    <3>3. QED
      BY <1>1, <2>1, <3>1, <3>2, Begins
  <2>5. CASE ret # False /\ state[c] = "Initializing"
    <3>1. UNCHANGED <<prog, state, defVars, round, found, stack, ret>>
      BY <1>1, <1>5, <2>5 DEF ResolveEnter
    <3>2. QED
      BY <3>1, Stands
  <2>6. QED
    <3>1. \/ ret = False \/ state[c] \in {"Unresolvable", "Resolved"}
          \/ ret # False /\ state[c] = "Resolving"
          \/ ret # False /\ state[c] = "Initialized"
          \/ ret # False /\ state[c] = "Initializing"
      BY <1>5 DEF ResolveEnter
    <3>2. ret = False \/ state[c] \in {"Unresolvable", "Resolved"} =>
            UNCHANGED state /\ (Return(True) \/ Return(False))
      BY <1>5 DEF ResolveEnter
    <3>3. QED
      BY <2>2, <2>3, <2>4, <2>5, <3>1, <3>2
<1>6. CASE ResolveNext \/ ResolveFuns \/ ResolveFun
  <2>1. UNCHANGED <<state>> /\ found' = found /\ Top.at \in {"deps", "funs"}
    BY <1>6 DEF ResolveNext, ResolveFuns, ResolveFun
  <2>2. ASSUME NEW todo, NEW at \in {"deps", "funs"}, NEW fr,
               fr = [Top EXCEPT !.todo = todo] \/ fr = [Top EXCEPT !.at = at, !.todo = todo]
        PROVE  IsFrame(fr, Defs) /\ ~Unchecked(fr) /\ \A f, e : Works(fr, f, e) <=> Works(Top, f, e)
    <3>1. fr.fun = "resolve" /\ fr.def = c /\ fr.at \in {"deps", "funs"} /\ DOMAIN fr = DOMAIN Top
      BY <1>1, <2>1, <2>2
    <3>2. QED
      BY <1>1, <1>3, <2>1, <3>1 DEF IsFrame, AtValues, Unchecked, Works
  <2>3. CASE ResolveNext \/ ResolveFun
    <3>1. PICK callee : /\ IsFrame(callee, Defs) /\ \A f, e : ~Works(callee, f, e)
                        /\ Call([Top EXCEPT !.todo = Tail(@)], callee)
      BY <2>3, Callees DEF ResolveNext, ResolveFun, NextOf
    <3>2. QED
      BY <1>1, <2>1, <2>2, <3>1, GoesOn
  <2>4. CASE ResolveFuns
    <3>1. PICK order : Continue([Top EXCEPT !.at = "funs", !.todo = order])
      BY <2>4 DEF ResolveFuns
    <3>2. QED
      BY <1>1, <2>1, <2>2, <3>1, GoesOn
  <2>5. QED
    BY <1>6, <2>3, <2>4
<1>7. CASE ResolveFail \/ ResolveDone
  <2>1. PICK s \in {"Unresolvable", "Resolved"} : SetState(c, s)
    BY <1>7 DEF ResolveFail, ResolveDone
  <2>2. \/ \E type \in TypesOf : Return(type)
        \/ \E fr : IsFrame(fr, Defs) /\ (\A f, e : ~Works(fr, f, e)) /\ Continue(fr)
    <3>1. CASE ResolveFail
      BY <3>1, SimpleTypes DEF ResolveFail
    <3>2. CASE ResolveDone
      <4> DEFINE fr == [Top EXCEPT !.at = "values", !.todo = Properties(c), !.unions = {}]
      <4>1. Properties(c) \in Seq(Defs)
        BY <1>1, PropertiesIs
      <4>2. Continue(fr)
        BY <3>2 DEF ResolveDone
      <4>3. IsFrame(fr, Defs) /\ \A f, e : ~Works(fr, f, e)
        BY <1>1, <4>1 DEF IsFrame, AtValues, Works
      <4> HIDE DEF fr
      <4>4. QED
        BY <4>2, <4>3
    <3>3. QED
      BY <1>7, <3>1, <3>2
  <2>3. found' \subseteq Classes /\ Works(Top, "resolve", c)
    BY <1>1, <1>3, <1>7 DEF ResolveFail, ResolveDone
  <2>4. /\ UNCHANGED <<prog, anc, inh, round>> /\ aliased' \in [Defs -> TypesOf]
        /\ \A e \in Defs : e # c => aliased'[e] = aliased[e]
    BY <1>1 DEF defVars, Typed
  <2>5. QED
    BY <2>1, <2>2, <2>3, <2>4, Ends
<1>8. QED
  BY <1>4, <1>5, <1>6, <1>7 DEF ResolveStep

(* The frame of a class that is being given its values, as it goes on.     *)
LEMMA ValueFrame ==
    ASSUME IsFrame(Top, Defs), Top.fun = "resolve", Top.at \in AtValues, Top.todo # <<>>,
           NEW fr,
           \/ \E unions : fr = NextValue(unions)
           \/ \E unions : fr = [Top EXCEPT !.at = "prop", !.unions = unions]
           \/ fr = [Top EXCEPT !.at = "value"]
    PROVE  IsFrame(fr, Defs) /\ ~Unchecked(fr) /\ \A f, e : ~Works(fr, f, e)
<1>1. /\ Top.def \in Classes /\ Top.todo \in Seq(Defs)
      /\ {"fun", "def", "at", "todo", "unions"} \subseteq DOMAIN Top
  BY DEF IsFrame
<1>2. Tail(Top.todo) \in Seq(Defs)
  BY <1>1, NextAndRest
<1>3. /\ fr.fun = "resolve" /\ fr.def \in Classes /\ fr.at \in AtValues
      /\ fr.todo \in Seq(Defs)
      /\ fr.at # "values" => fr.todo # <<>>
      /\ DOMAIN fr = DOMAIN Top
  BY <1>1, <1>2 DEF NextValue, AtValues
<1>4. IsFrame(fr, Defs)
  BY <1>1, <1>3 DEF IsFrame, AtValues
<1>5. ~Unchecked(fr) /\ \A f, e : ~Works(fr, f, e)
  BY <1>3 DEF AtValues, Unchecked, Works
<1>6. QED
  BY <1>4, <1>5

LEMMA ValueStepInv ==
    ASSUME IInv, stack # <<>>, ValueStep
    PROVE  IInv' /\ StaysResolved
<1> USE DEF IInv
<1> DEFINE c == Top.def
           d == Head(Top.todo)
           Goal == IInv' /\ StaysResolved
<1>1. /\ Top.fun = "resolve" /\ Top.at \in AtValues
      /\ UNCHANGED <<prog, aliased, anc, inh, round>> /\ found \subseteq Classes
      /\ IsFrame(Top, Defs)
  BY TopFrame DEF ValueStep, ValueNext, ValueGiven, ValueInit, ValueSet, ValueFail, ValuesDone,
                  Valuing, AtValues, Typed, defVars
<1>2. /\ c \in Classes /\ Top.todo \in Seq(Defs)
      /\ Top.at \in {"prop", "value"} => Top.todo # <<>>
      /\ {"fun", "def", "at", "todo", "unions"} \subseteq DOMAIN Top
      /\ \A f, e : ~Works(Top, f, e)
  BY <1>1 DEF IsFrame, AtValues, Works
<1>3. Top.todo # <<>> => d \in Defs /\ d[1] \in Classes
  BY <1>2 DEF Defs
<1>4. ASSUME NEW unions, Top.todo # <<>>, Continue(NextValue(unions))
      PROVE  Stacked' /\ (\A f, e : At(f, e)' = At(f, e)) /\ ret' \in TypesOf
  <2> DEFINE fr == NextValue(unions)
  <2>1. IsFrame(fr, Defs) /\ \A f, e : ~Works(fr, f, e)
    BY <1>1, <1>4, ValueFrame
  <2>2. Continue(fr)
    BY <1>4
  <2> HIDE DEF fr
  <2>3. /\ Stacked'
        /\ \A f, e : At(f, e)' = (At(f, e) \ {Len(stack)}) \cup TopAs(fr, f, e)
    BY <1>1, <1>4, <2>1, <2>2, Continues
  <2>4. \A f, e : Len(stack) \notin At(f, e) /\ TopAs(fr, f, e) = {}
    BY <1>2, <2>1, TopFrame DEF TopAs
  <2>5. ret' \in TypesOf
    BY <1>4, SimpleTypes DEF Continue
  <2>6. QED
    BY <2>3, <2>4, <2>5
<1>5. ASSUME NEW fr, IsFrame(fr, Defs), ~Unchecked(fr), \A f, e : ~Works(fr, f, e),
             NEW callee, IsFrame(callee, Defs), \A f, e : ~Works(callee, f, e),
             Call(fr, callee), UNCHANGED <<state, defVars>>, found' = found
      PROVE  Goal
  BY <1>1, <1>2, <1>5, GoesOn
<1>6. CASE ValueNext
  <2>1. Top.todo # <<>> /\ UNCHANGED <<state, defVars>> /\ found' = found
    BY <1>6 DEF ValueNext
  <2>2. CASE d[1] \in Top.unions
    <3>1. Continue(NextValue(Top.unions))
      BY <1>6, <2>2 DEF ValueNext
    <3>2. QED
      BY <1>1, <1>4, <2>1, <3>1, Quiet
  <2>3. CASE d[1] \notin Top.unions
    <3> DEFINE fr == [Top EXCEPT !.at = "prop", !.unions = @ \cup ({d[1]} \cap prog.unions)]
    <3>1. Call(fr, DefCall(d))
      BY <1>6, <2>3 DEF ValueNext
    <3>2. fr = [Top EXCEPT !.at = "prop", !.unions = Top.unions \cup ({d[1]} \cap prog.unions)]
      OBVIOUS
    <3>3. IsFrame(fr, Defs) /\ ~Unchecked(fr) /\ \A f, e : ~Works(fr, f, e)
      BY <1>1, <2>1, <3>2, ValueFrame
    <3> HIDE DEF fr
    <3>4. QED
      BY <1>3, <1>5, <2>1, <3>1, <3>3, Callees
  <2>4. QED
    BY <2>2, <2>3
<1>7. CASE ValueGiven \/ ValueSet
  <2>1. /\ Top.at \in {"prop", "value"} /\ state' = state /\ found' = found
        /\ Continue(NextValue(Top.unions))
    BY <1>7 DEF ValueGiven, ValueSet, Valuing
  <2>2. QED
    BY <1>1, <1>2, <1>4, <2>1, Quiet
<1>8. CASE ValueInit
  <2> DEFINE fr == [Top EXCEPT !.at = "value"]
  <2>1. /\ Top.at = "prop" /\ UNCHANGED <<state, defVars>> /\ found' = found
        /\ Call(fr, TypeCall(Def(d).init, d[1], d[2], None, TRUE))
    BY <1>8 DEF ValueInit, Valuing
  <2>2. IsFrame(fr, Defs) /\ ~Unchecked(fr) /\ \A f, e : ~Works(fr, f, e)
    BY <1>1, <1>2, <2>1, ValueFrame
  <2> HIDE DEF fr
  <2>3. QED
    BY <1>2, <1>3, <1>5, <2>1, <2>2, Callees
<1>9. CASE ValueFail
  <2>1. /\ Top.at = "value" /\ SetState(d, "Unresolvable") /\ found' = found /\ ret = False
        /\ Continue(NextValue(Top.unions))
    BY <1>9 DEF ValueFail, Valuing
  <2>2. /\ Stacked' /\ (\A f, e : At(f, e)' = At(f, e)) /\ ret' \in TypesOf
        /\ d \in Defs /\ Defs' = Defs /\ d \notin Classes
    BY <1>1, <1>2, <1>3, <1>4, <2>1, SameDefs, Apart
  <2>3. /\ state' \in [Classes \cup Defs -> States]
        /\ state'[d] = "Unresolvable"
        /\ \A e \in Classes \cup Defs : e # d => state'[e] = state[e]
    BY <2>1, <2>2 DEF SetState, Typed, States
  <2> HIDE DEF d
  <2>4. Marked'
    BY <2>2, <2>3 DEF Marked
  <2>5. Single'
    BY <2>2 DEF Single
  <2>6. Typed'
    BY <1>1, <2>1, <2>2, <2>3 DEF Typed
  <2>7. InitialiserFails(d)
    BY <1>1, <2>1 DEF InitialiserFails, Valuing, Idle, d
  <2>8. StaysResolved
    BY <1>1, <2>2, <2>3, <2>7 DEF StaysResolved
  <2>9. QED
    BY <2>2, <2>4, <2>5, <2>6, <2>8
<1>10. CASE ValuesDone
  <2>1. UNCHANGED <<state, defVars>> /\ Return(True) /\ found' = Noted(True)
    BY <1>10 DEF ValuesDone
  <2>2. found' \subseteq Classes
    BY <1>1, <1>2, <2>1 DEF Noted, IsNoted
  <2>3. QED
    BY <1>1, <1>2, <2>1, <2>2, GoesBack, SimpleTypes
<1>11. QED
  BY <1>6, <1>7, <1>8, <1>9, <1>10 DEF ValueStep

LEMMA DefStepInv ==
    ASSUME IInv, stack # <<>>, DefStep
    PROVE  IInv' /\ StaysResolved
<1> USE DEF IInv
<1> DEFINE d == Top.def
           Goal == IInv' /\ StaysResolved
<1>1. /\ Top.fun = "def" /\ d \in Defs /\ Top.at \in {"enter", "type", "dim"}
      /\ Top.type \in TypesOf
      /\ {"fun", "def", "at", "type"} \subseteq DOMAIN Top
      /\ UNCHANGED <<prog, anc, inh, round>> /\ found' = found /\ found \subseteq Classes
      /\ IsFrame(Top, Defs) /\ ret \in TypesOf
  BY TopFrame DEF DefStep, DefEnter, DefDim, DefFail, DefDone, IsFrame, Typed, defVars
<1>2. d[1] \in Classes
  BY <1>1 DEF Defs
<1>3. \A f, e : Works(Top, f, e) <=> f = "def" /\ e = d /\ Top.at # "enter"
  BY <1>1 DEF Works
<1>4. Returned => Top.at # "enter"
  BY <1>1, TopFrame DEF Stacked, Unchecked, Returned
<1>5. CASE DefEnter
  <2>1. UNCHANGED <<defVars>> /\ Top.at = "enter" /\ \A f, e : ~Works(Top, f, e)
    BY <1>3, <1>5 DEF DefEnter
  <2>2. CASE state[d] = "NotResolved"
    <3> DEFINE fr == [Top EXCEPT !.at = "type"]
    <3>1. PICK path, i, except, full : Call(fr, TypeCall(path, d[1], i, except, full))
      BY <1>5, <2>2 DEF DefEnter
    <3>2. SetState(d, Mark("def")) /\ state[d] = Fresh("def")
      BY <1>5, <2>2 DEF DefEnter, WorkOn, Mark, Fresh
    <3>3. IsFrame(fr, Defs) /\ Works(fr, "def", d) /\ ~Unchecked(fr)
      BY <1>1 DEF IsFrame, Works, Unchecked
    <3> HIDE DEF fr
    <3>4. QED
      BY <1>1, <1>2, <2>1, <3>1, <3>2, <3>3, Callees, Begins
  <2>3. CASE state[d] = "Resolved"
    <3>1. UNCHANGED state /\ Return(aliased[d]) /\ aliased[d] \in TypesOf
      BY <1>1, <1>5, <2>3 DEF DefEnter, CheckState, Typed
    <3>2. QED
      BY <1>1, <2>1, <3>1, GoesBack
  <2>4. CASE state[d] \notin {"NotResolved", "Resolved"}
    <3>1. SetState(d, "Unresolvable") /\ Return(False)
      BY <1>5, <2>4 DEF DefEnter, CheckState
    <3>2. d \notin Classes
      BY <1>1, Apart
    <3>3. QED
      BY <1>1, <2>1, <2>4, <3>1, <3>2, GivesUp, SimpleTypes
  <2>5. QED
    BY <2>2, <2>3, <2>4
<1>6. CASE DefDim
  <2> DEFINE fr == [Top EXCEPT !.at = "dim", !.type = ret]
  <2>1. PICK path, i : Call(fr, TypeCall(path, d[1], i, None, TRUE))
    BY <1>6 DEF DefDim
  <2>2. UNCHANGED <<state, defVars>> /\ Top.at = "type"
    BY <1>6 DEF DefDim
  <2>3. IsFrame(fr, Defs) /\ ~Unchecked(fr) /\ \A f, e : Works(fr, f, e) <=> Works(Top, f, e)
    BY <1>1, <1>3, <2>2 DEF IsFrame, Works, Unchecked
  <2> HIDE DEF fr
  <2>4. QED
    BY <1>1, <1>2, <2>1, <2>2, <2>3, Callees, GoesOn
<1>7. CASE DefFail
  <2>1. SetState(d, "Unresolvable") /\ Return(False) /\ UNCHANGED aliased /\ Works(Top, "def", d)
    BY <1>3, <1>4, <1>7 DEF DefFail, defVars
  <2>2. aliased' \in [Defs -> TypesOf] /\ \A e \in Defs : e # d => aliased'[e] = aliased[e]
    BY <2>1 DEF Typed
  <2>3. QED
    BY <1>1, <2>1, <2>2, Ends, SimpleTypes
<1>8. CASE DefDone
  <2> DEFINE type == IF Top.at = "dim" THEN ArrayOf(Top.type) ELSE ret
  <2>1. /\ SetState(d, "Resolved") /\ Works(Top, "def", d)
        /\ aliased' = [aliased EXCEPT ![d] = type] /\ Return(aliased'[d])
    BY <1>3, <1>4, <1>8 DEF DefDone
  <2>2. type \in TypesOf
    <3>1. ArrayOf(Top.type) \in TypesOf
      BY <1>1 DEF ArrayOf, TypesOf
    <3>2. QED
      BY <1>1, <3>1
  <2> HIDE DEF type
  <2>3. /\ aliased' \in [Defs -> TypesOf] /\ aliased'[d] \in TypesOf
        /\ \A e \in Defs : e # d => aliased'[e] = aliased[e]
    BY <1>1, <2>1, <2>2 DEF Typed
  <2>4. QED
    BY <1>1, <2>1, <2>3, Ends
<1>9. QED
  BY <1>5, <1>6, <1>7, <1>8 DEF DefStep

-----------------------------------------------------------------------------
(* The steps between calls *)

LEMMA BetweenCalls ==
    ASSUME IInv, stack = <<>>, UNCHANGED <<prog, state, defVars>>,
           found' \subseteq Classes, ret' = Running,
           "phase" \in DOMAIN round',
           round'.phase = "resolve" => "todo" \in DOMAIN round' /\ round'.todo \subseteq Classes,
           \/ stack' = stack
           \/ \E callee : /\ IsFrame(callee, Defs) /\ \A fun, d : ~Works(callee, fun, d)
                          /\ stack' = <<callee>>
    PROVE  IInv' /\ StaysResolved
<1> USE DEF IInv
<1>1. Stacked' /\ \A fun, d : At(fun, d)' = At(fun, d)
  <2>1. CASE stack' = stack
    <3>1. DOMAIN stack = {} /\ DOMAIN stack' = {}
      BY <2>1
    <3>2. stack' \in Seq(ToSet(stack'))
      BY <2>1 DEF Stacked
    <3>3. QED
      BY <3>1, <3>2 DEF Stacked, At
  <2>2. ASSUME NEW callee, IsFrame(callee, Defs), \A fun, d : ~Works(callee, fun, d),
               stack' = <<callee>>
        PROVE  <1>1!1 /\ <1>1!2
    BY <2>2, Starts
  <2>3. QED
    BY <2>1, <2>2
<1>2. Marked' /\ Single'
  BY <1>1, SameMarks
<1>3. Typed'
  BY SameDefs, SimpleTypes DEF Typed, defVars
<1>4. StaysResolved
  BY DEF StaysResolved, defVars
<1>5. QED
  BY <1>1, <1>2, <1>3, <1>4

LEMMA IdleStepInv ==
    ASSUME IInv, InitModules \/ ResolveSome \/ ResolvedSome \/ ResolveRest \/ RestNext
    PROVE  IInv' /\ StaysResolved
<1>1. /\ stack = <<>> /\ UNCHANGED <<prog, state, defVars>>
      /\ found \subseteq Classes /\ "phase" \in DOMAIN round
      /\ round.phase = "resolve" => "todo" \in DOMAIN round /\ round.todo \subseteq Classes
      /\ ret' = Running
  BY DEF InitModules, ResolveSome, ResolvedSome, ResolveRest, RestNext, Idle, IInv, Typed, Returned
<1>2. /\ DOMAIN StartRound = {"phase", "todo", "current", "good", "processed"}
      /\ StartRound.phase = "resolve" /\ StartRound.todo \subseteq Classes
  BY <1>1 DEF StartRound
<1>3. CASE InitModules
  <2>1. CASE round.k \in DOMAIN prog.listed
    <3>1. prog.listed[round.k] \in Classes
      BY <2>1, ProgramsAssumption DEF IInv, Typed, ToSet
    <3>2. /\ stack' = <<InitCall(prog.listed[round.k], TRUE)>> /\ found' = found
          /\ round' = [round EXCEPT !.k = @ + 1] /\ round.phase = "modules"
      BY <1>3, <2>1 DEF InitModules
    <3>3. "phase" \in DOMAIN round' /\ round'.phase = "modules"
      BY <1>1, <3>2
    <3>4. QED
      BY <1>1, <3>1, <3>2, <3>3, Callees, BetweenCalls
  <2>2. CASE round.k \notin DOMAIN prog.listed
    BY <1>1, <1>2, <1>3, <2>2, BetweenCalls DEF InitModules
  <2>3. QED
    BY <2>1, <2>2
<1>4. CASE ResolveSome
  <2>1. PICK c \in round.todo :
          /\ stack' = <<ResolveCall(c, FALSE)>>
          /\ round' = [round EXCEPT !.todo = @ \ {c}, !.current = {c}]
    BY <1>4 DEF ResolveSome
  <2>2. c \in Classes /\ found' = found /\ "todo" \in DOMAIN round
    BY <1>1, <1>4 DEF ResolveSome
  <2>3. DOMAIN round' = DOMAIN round /\ round'.todo = round.todo \ {c}
    BY <2>1, <2>2
  <2>4. round'.todo \subseteq Classes
    BY <1>1, <1>4, <2>3 DEF ResolveSome
  <2>5. QED
    BY <1>1, <2>1, <2>2, <2>3, <2>4, Callees, BetweenCalls
<1>5. CASE ResolvedSome
  <2>1. PICK good : round' = [round EXCEPT !.good = good]
    BY <1>5 DEF ResolvedSome
  <2>2. stack' = stack /\ found' = found
    BY <1>5 DEF ResolvedSome
  <2>3. /\ DOMAIN round' = DOMAIN round /\ round'.phase = round.phase
        /\ round'.todo = round.todo
    BY <2>1
  <2>4. QED
    BY <1>1, <2>2, <2>3, BetweenCalls
<1>6. CASE ResolveRest
  <2>1. stack' = stack /\ found' = found
    BY <1>6 DEF ResolveRest
  <2>2. "phase" \in DOMAIN round' /\ round'.phase \in {"done", "rest"}
    <3>1. CASE round.good = {}
      BY <1>1, <1>6, <3>1 DEF ResolveRest
    <3>2. CASE round.good # {}
      <4>1. PICK todo, processed :
              round' = [phase |-> "rest", todo |-> todo, processed |-> processed]
        BY <1>6, <3>2 DEF ResolveRest
      <4>2. QED
        BY <4>1
    <3>3. QED
      BY <3>1, <3>2
  <2>3. QED
    BY <1>1, <2>1, <2>2, BetweenCalls
<1>7. CASE RestNext
  <2>1. CASE round.todo # <<>>
    <3>1. PICK d \in Defs : stack' = <<DefCall(d)>>
      BY <1>7, <2>1 DEF RestNext, NextOf
    <3>2. round' = [round EXCEPT !.todo = Tail(@)] /\ round.phase = "rest" /\ found' = found
      BY <1>7, <2>1 DEF RestNext
    <3>3. "phase" \in DOMAIN round' /\ round'.phase = "rest"
      BY <1>1, <3>2
    <3>4. QED
      BY <1>1, <3>1, <3>2, <3>3, Callees, BetweenCalls
  <2>2. CASE round.todo = <<>>
    BY <1>1, <1>2, <1>7, <2>2, BetweenCalls DEF RestNext
  <2>3. QED
    BY <2>1, <2>2
<1>8. QED
  BY <1>3, <1>4, <1>5, <1>6, <1>7

-----------------------------------------------------------------------------

LEMMA InitInv == Init => IInv
<1> SUFFICES ASSUME Init PROVE IInv
  OBVIOUS
<1>1. Typed
  <2>1. /\ state \in [Classes \cup Defs -> States] /\ aliased \in [Defs -> TypesOf]
        /\ ret \in TypesOf
    BY SimpleTypes DEF Init, States
  <2>2. /\ anc \in [Classes -> Seq(Classes)] /\ DOMAIN inh = Classes
        /\ \A c \in Classes : DOMAIN inh[c] = {}
    BY DEF Init
  <2>3. "phase" \in DOMAIN round /\ round.phase # "resolve"
    BY DEF Init
  <2>4. QED
    BY <2>1, <2>2, <2>3 DEF Init, Typed
<1>2. Stacked /\ \A fun, d : At(fun, d) = {}
  <2>1. stack = <<>> /\ DOMAIN stack = {} /\ stack \in Seq(ToSet(stack))
    BY DEF Init
  <2>2. QED
    BY <2>1 DEF Stacked, At
<1>3. \A d \in Classes \cup Defs : state[d] = "NotResolved"
  BY DEF Init
<1>4. Marked
  BY <1>2, <1>3 DEF Marked
<1>5. Single
  BY <1>2 DEF Single
<1>6. QED
  BY <1>1, <1>2, <1>4, <1>5 DEF IInv

LEMMA StepInv == IInv /\ [Next]_vars => IInv' /\ StaysResolved
<1> SUFFICES ASSUME IInv, [Next]_vars PROVE IInv' /\ StaysResolved
  OBVIOUS
<1>1. CASE UNCHANGED vars
  <2>1. UNCHANGED <<prog, state, defVars, round, found, stack, ret>>
    BY <1>1 DEF vars, defVars
  <2>2. QED
    BY <2>1, Stands
<1>2. CASE stack # <<>> /\ InitStep
  BY <1>2, InitStepInv
<1>3. CASE stack # <<>> /\ (ResolveStep \/ ValueStep)
  BY <1>3, ResolveStepInv, ValueStepInv
<1>4. CASE stack # <<>> /\ DefStep
  BY <1>4, DefStepInv
<1>5. CASE stack # <<>> /\ TypeStep
  BY <1>5, TypeStepInv
<1>6. CASE InitModules \/ ResolveSome \/ ResolvedSome \/ ResolveRest \/ RestNext
  BY <1>6, IdleStepInv
<1>7. QED
  BY <1>1, <1>2, <1>3, <1>4, <1>5, <1>6 DEF Next, Idle

LEMMA InvGuards == IInv => RecursionGuarded
<1> SUFFICES ASSUME IInv PROVE RecursionGuarded
  OBVIOUS
<1>1. ASSUME NEW S, \A i, j \in S : i = j
      PROVE  Cardinality(S) <= 1
  <2>1. CASE S = {}
    BY <2>1, FS_EmptySet
  <2>2. CASE S # {}
    <3>1. PICK i : S = {i}
      BY <1>1, <2>2
    <3>2. Cardinality({i}) = 1
      BY FS_Singleton
    <3>3. QED
      BY <3>1, <3>2
  <2>3. QED
    BY <2>1, <2>2
<1>2. \A fun \in Funs : \A d \in Classes \cup Defs : Cardinality(At(fun, d)) <= 1
  BY <1>1 DEF IInv, Single
<1>3. QED
  BY <1>2 DEF RecursionGuarded, IInv, Marked, Funs

(* No definition is worked on by two calls at once, and its state says     *)
(* that one does: the states guard the recursion of init, do_resolve and   *)
(* resolve, for every program of any number of classes.                    *)
THEOREM Guarded == Spec => []RecursionGuarded
<1>1. IInv /\ [Next]_vars => IInv'
  BY StepInv
<1>2. QED
  BY <1>1, InitInv, InvGuards, PTL DEF Spec

(* What is resolved stays resolved, with the ancestors or the type it has, *)
(* however often the resolver comes back to it: only a property whose      *)
(* initialiser fails is no longer resolved, and it keeps its type.         *)
THEOREM Final == Spec => ResolvedIsFinal
<1>1. IInv /\ [Next]_vars => IInv'
  BY StepInv
<1>2. IInv /\ [Next]_vars => [StaysResolved]_vars
  BY StepInv
<1>3. QED
  BY <1>1, <1>2, InitInv, PTL DEF Spec, ResolvedIsFinal

-----------------------------------------------------------------------------
(* What a step does to the stack *)

(* A call that has just been made. *)
New(callee) ==
    \/ \E c, note : callee = InitCall(c, note) \/ callee = ResolveCall(c, note)
    \/ \E d : callee = DefCall(d)
    \/ \E path, c, i, except, full : callee = TypeCall(path, c, i, except, full)

(* A class is being given its default values. *)
GivesValues(fr) == fr.fun = "resolve" /\ fr.at \in AtValues

Calling == InitStep \/ ResolveStep \/ ValueStep \/ DefStep \/ TypeStep

Moves(fr, callee) ==
    \/ aborted' /\ UNCHANGED stack
    \/ Continue(fr)
    \/ New(callee) /\ Call(fr, callee)
    \/ \E type : Return(type)

(* The last call goes on, calls another or returns. *)
LEMMA StepFrames ==
    ASSUME IInv, stack # <<>>, Calling
    PROVE  \E fr, callee :
             /\ fr.fun = Top.fun
             /\ Top.fun # "type" => fr.def = Top.def
             /\ GivesValues(fr) => ValueStep \/ ResolveDone
             /\ Moves(fr, callee)
<1> DEFINE Frame(fr) == /\ fr.fun = Top.fun
                        /\ Top.fun # "type" => fr.def = Top.def
                        /\ GivesValues(fr) => ValueStep \/ ResolveDone
           Goal == \E fr, callee : Frame(fr) /\ Moves(fr, callee)
<1>1. IsFrame(Top, Defs) /\ {"fun"} \subseteq DOMAIN Top /\ (Top.fun # "type" => "def" \in DOMAIN Top)
  BY TopFrame DEF IInv, IsFrame
<1>2. ASSUME NEW fr, Frame(fr), Continue(fr) PROVE Goal
  BY <1>2 DEF Moves
<1>3. ASSUME NEW fr, Frame(fr), NEW callee, New(callee), Call(fr, callee) PROVE Goal
  BY <1>3 DEF Moves
<1>4. ASSUME NEW type, Return(type) PROVE Goal
  <2>1. \E fr : Frame(fr)
    <3> DEFINE fr == [fun |-> Top.fun, def |-> Top.def, at |-> "none"]
    <3>1. Frame(fr)
      BY DEF GivesValues, AtValues
    <3>2. QED
      BY <3>1
  <2>2. QED
    BY <1>4, <2>1 DEF Moves
<1>5. SUFFICES Goal
  OBVIOUS
<1> HIDE DEF Frame, Goal
<1>6. CASE InitStep
  <2>1. Top.fun = "init"
    BY <1>6 DEF InitStep, InitEnter, InitParent, InitAddParent, InitFail, InitDone
  <2>2. \A fr : fr.fun = "init" /\ fr.def = Top.def => Frame(fr)
    BY <2>1 DEF Frame, GivesValues
  <2>3. CASE InitEnter
    <3> DEFINE fr == [Top EXCEPT !.at = 1]
    <3>1. Return(True) \/ Return(False) \/ Continue(fr)
      BY <2>3 DEF InitEnter
    <3>2. fr.fun = "init" /\ fr.def = Top.def
      BY <1>1, <2>1
    <3> HIDE DEF fr
    <3>3. QED
      BY <1>2, <1>4, <2>2, <3>1, <3>2
  <2>4. CASE InitParent
    <3>1. PICK path : Call(Top, TypeCall(path, Top.def, 0, None, FALSE))
      BY <2>4 DEF InitParent
    <3>2. New(TypeCall(path, Top.def, 0, None, FALSE))
      BY DEF New
    <3>3. QED
      BY <1>3, <2>1, <2>2, <3>1, <3>2
  <2>5. CASE InitAddParent
    <3> DEFINE fr == [Top EXCEPT !.at = @ + 1]
    <3>1. Continue(fr) /\ fr.fun = "init" /\ fr.def = Top.def
      BY <1>1, <2>1, <2>5 DEF InitAddParent
    <3> HIDE DEF fr
    <3>2. QED
      BY <1>2, <2>2, <3>1
  <2>6. CASE InitFail \/ InitDone
    BY <1>4, <2>6 DEF InitFail, InitDone
  <2>7. QED
    BY <1>6, <2>3, <2>4, <2>5, <2>6 DEF InitStep
<1>7. CASE ResolveStep
  <2>1. /\ Top.fun = "resolve" /\ {"fun", "def", "at", "todo"} \subseteq DOMAIN Top
    BY <1>1, <1>7 DEF ResolveStep, ResolveInit, ResolveEnter, ResolveNext, ResolveFuns, ResolveFun,
                      ResolveFail, ResolveDone, IsFrame
  <2>2. ASSUME NEW fr, fr.fun = "resolve", fr.def = Top.def, fr.at \notin AtValues \/ ResolveDone
        PROVE  Frame(fr)
    BY <2>1, <2>2 DEF Frame, GivesValues
  <2>3. CASE ResolveInit
    <3> DEFINE fr == [Top EXCEPT !.at = "enter"]
    <3>1. Call(fr, InitCall(Top.def, FALSE)) /\ New(InitCall(Top.def, FALSE))
      BY <2>3 DEF ResolveInit, New
    <3>2. fr.fun = "resolve" /\ fr.def = Top.def /\ fr.at \notin AtValues
      BY <2>1 DEF AtValues
    <3> HIDE DEF fr
    <3>3. QED
      BY <1>3, <2>2, <3>1, <3>2
  <2>4. CASE ResolveEnter
    <3> DEFINE fr == [Top EXCEPT !.at = "deps", !.todo = Dependencies(Top.def)]
    <3>1. Return(True) \/ Return(False) \/ Continue(fr) \/ (aborted' /\ UNCHANGED stack)
      BY <2>4 DEF ResolveEnter
    <3>2. fr.fun = "resolve" /\ fr.def = Top.def /\ fr.at \notin AtValues
      BY <2>1 DEF AtValues
    <3>3. CASE aborted' /\ UNCHANGED stack
      <4> HIDE DEF fr
      <4>1. Frame(fr)
        BY <2>2, <3>2
      <4>2. QED
        BY <3>3, <4>1 DEF Moves, Goal
    <3> HIDE DEF fr
    <3>4. QED
      BY <1>2, <1>4, <2>2, <3>1, <3>2, <3>3
  <2>5. CASE ResolveNext \/ ResolveFun
    <3> DEFINE fr == [Top EXCEPT !.todo = Tail(@)]
    <3>1. PICK callee : New(callee) /\ Call(fr, callee)
      BY <2>5 DEF ResolveNext, ResolveFun, New
    <3>2. fr.fun = "resolve" /\ fr.def = Top.def /\ fr.at \notin AtValues
      BY <2>1, <2>5 DEF ResolveNext, ResolveFun, AtValues
    <3> HIDE DEF fr
    <3>3. QED
      BY <1>3, <2>2, <3>1, <3>2
  <2>6. CASE ResolveFuns
    <3>1. PICK order : Continue([Top EXCEPT !.at = "funs", !.todo = order])
      BY <2>6 DEF ResolveFuns
    <3> DEFINE fr == [Top EXCEPT !.at = "funs", !.todo = order]
    <3>2. fr.fun = "resolve" /\ fr.def = Top.def /\ fr.at \notin AtValues /\ Continue(fr)
      BY <2>1, <3>1 DEF AtValues
    <3> HIDE DEF fr
    <3>3. QED
      BY <1>2, <2>2, <3>2
  <2>7. CASE ResolveFail
    BY <1>4, <2>7 DEF ResolveFail
  <2>8. CASE ResolveDone
    <3> DEFINE fr == [Top EXCEPT !.at = "values", !.todo = Properties(Top.def), !.unions = {}]
    <3>1. fr.fun = "resolve" /\ fr.def = Top.def /\ Continue(fr)
      BY <2>1, <2>8 DEF ResolveDone
    <3> HIDE DEF fr
    <3>2. QED
      BY <1>2, <2>2, <2>8, <3>1
  <2>9. QED
    BY <1>7, <2>3, <2>4, <2>5, <2>6, <2>7, <2>8 DEF ResolveStep
<1>8. CASE ValueStep
  <2>1. /\ Top.fun = "resolve" /\ {"fun", "def", "at", "todo", "unions"} \subseteq DOMAIN Top
    BY <1>1, <1>8 DEF ValueStep, ValueNext, ValueGiven, ValueInit, ValueSet, ValueFail, ValuesDone,
                      Valuing, IsFrame
  <2>2. ASSUME NEW fr, fr.fun = "resolve", fr.def = Top.def PROVE Frame(fr)
    BY <1>8, <2>1, <2>2 DEF Frame
  <2>3. ASSUME NEW unions, Continue(NextValue(unions)) PROVE Goal
    <3> DEFINE fr == NextValue(unions)
    <3>1. fr.fun = "resolve" /\ fr.def = Top.def /\ Continue(fr)
      BY <2>1, <2>3 DEF NextValue
    <3> HIDE DEF fr
    <3>2. QED
      BY <1>2, <2>2, <3>1
  <2>4. ASSUME NEW at, NEW unions, NEW callee, New(callee),
               NEW fr, fr = [Top EXCEPT !.at = at] \/ fr = [Top EXCEPT !.at = at, !.unions = unions],
               Call(fr, callee)
        PROVE  Goal
    <3>1. fr.fun = "resolve" /\ fr.def = Top.def
      BY <2>1, <2>4
    <3>2. QED
      BY <1>3, <2>2, <2>4, <3>1
  <2>5. CASE ValueNext
    <3> DEFINE d == Head(Top.todo)
               unions == Top.unions \cup ({d[1]} \cap prog.unions)
    <3>1. \/ Continue(NextValue(Top.unions))
          \/ Call([Top EXCEPT !.at = "prop", !.unions = unions], DefCall(d))
      BY <2>5 DEF ValueNext
    <3>2. New(DefCall(d))
      BY DEF New
    <3>3. QED
      BY <2>3, <2>4, <3>1, <3>2
  <2>6. CASE ValueGiven \/ ValueSet \/ ValueFail
    BY <2>3, <2>6 DEF ValueGiven, ValueSet, ValueFail
  <2>7. CASE ValueInit
    <3>1. PICK path, e, i : Call([Top EXCEPT !.at = "value"], TypeCall(path, e, i, None, TRUE))
      BY <2>7 DEF ValueInit
    <3>2. New(TypeCall(path, e, i, None, TRUE))
      BY DEF New
    <3>3. QED
      BY <2>4, <3>1, <3>2
  <2>8. CASE ValuesDone
    BY <1>4, <2>8 DEF ValuesDone
  <2>9. QED
    BY <1>8, <2>5, <2>6, <2>7, <2>8 DEF ValueStep
<1>9. CASE DefStep
  <2>1. Top.fun = "def" /\ {"fun", "def", "at", "type"} \subseteq DOMAIN Top
    BY <1>1, <1>9 DEF DefStep, DefEnter, DefDim, DefFail, DefDone, IsFrame
  <2>2. ASSUME NEW fr, fr.fun = "def", fr.def = Top.def PROVE Frame(fr)
    BY <2>1, <2>2 DEF Frame, GivesValues
  <2>3. ASSUME NEW type, NEW callee, New(callee), NEW fr,
               fr = [Top EXCEPT !.at = "type"] \/ fr = [Top EXCEPT !.at = "dim", !.type = type],
               Call(fr, callee)
        PROVE  Goal
    <3>1. fr.fun = "def" /\ fr.def = Top.def
      BY <2>1, <2>3
    <3>2. QED
      BY <1>3, <2>2, <2>3, <3>1
  <2>4. \/ \E type : Return(type)
        \/ \E path, e, i, except, full :
             \/ Call([Top EXCEPT !.at = "type"], TypeCall(path, e, i, except, full))
             \/ Call([Top EXCEPT !.at = "dim", !.type = ret], TypeCall(path, e, i, except, full))
    BY <1>9 DEF DefStep, DefEnter, DefDim, DefFail, DefDone, CheckState
  <2>5. \A path, e, i, except, full : New(TypeCall(path, e, i, except, full))
    BY DEF New
  <2>6. QED
    BY <1>4, <2>3, <2>4, <2>5
<1>10. CASE TypeStep
  <2>1. Top.fun = "type" /\ {"fun", "cls", "type", "at", "n"} \subseteq DOMAIN Top
    BY <1>1, <1>10 DEF TypeStep, TypeBuiltin, TypeInScope, TypeInScopeDone, TypeExport, TypePrepare,
         TypePrepared, TypeUnprepared, TypeClass, TypeMember, TypeMemberDone, IsFrame
  <2>2. ASSUME NEW fr, fr.fun = "type" PROVE Frame(fr)
    BY <2>1, <2>2 DEF Frame, GivesValues
  <2>3. ASSUME NEW fr, \/ fr = Top \/ \E at : fr = [Top EXCEPT !.at = at]
                       \/ \E at, type : fr = [Top EXCEPT !.at = at, !.type = type]
                       \/ \E type : fr = AtNext(type)
        PROVE  Frame(fr)
    BY <2>1, <2>2, <2>3 DEF AtNext
  <2> DEFINE Fr(fr) == \/ fr = Top \/ \E at : fr = [Top EXCEPT !.at = at]
                       \/ \E at, type : fr = [Top EXCEPT !.at = at, !.type = type]
                       \/ \E type : fr = AtNext(type)
  <2>4. CASE TypeBuiltin \/ TypeUnprepared
    BY <1>4, <2>4 DEF TypeBuiltin, TypeUnprepared, FailType
  <2>5. CASE TypeInScope \/ TypePrepare \/ TypeClass
    <3>1. (\E type : Return(type)) \/ \E callee : New(callee) /\ Call(Top, callee)
      BY <2>5 DEF TypeInScope, TypePrepare, TypeClass, Needed, New, FailType
    <3>2. Frame(Top)
      BY <2>3
    <3>3. QED
      BY <1>3, <1>4, <3>1, <3>2
  <2>6. CASE TypeInScopeDone \/ TypeExport \/ TypePrepared \/ TypeMemberDone
    <3>1. \/ \E type : Return(type)
          \/ \E at, type : Continue([Top EXCEPT !.at = at, !.type = type])
          \/ \E at : Continue([Top EXCEPT !.at = at])
          \/ \E type : Continue(AtNext(type))
      BY <2>6 DEF TypeInScopeDone, TypeExport, TypePrepared, TypeMemberDone, FailType
    <3>2. QED
      BY <1>2, <1>4, <2>3, <3>1
  <2>7. CASE TypeMember
    <3>1. \/ \E type : Return(type)
          \/ \E d : Call([Top EXCEPT !.at = "member"], DefCall(d))
          \/ \E type : Continue(AtNext(type))
      BY <2>7 DEF TypeMember, FailType
    <3>2. \A d : New(DefCall(d))
      BY DEF New
    <3>3. QED
      BY <1>2, <1>3, <1>4, <2>3, <3>1, <3>2
  <2>8. QED
    BY <1>10, <2>4, <2>5, <2>6, <2>7 DEF TypeStep
<1>11. QED
  BY <1>6, <1>7, <1>8, <1>9, <1>10 DEF Calling

(* The frames there are then. *)
LEMMA FramesMoved ==
    ASSUME Stacked, stack # <<>>, NEW fr, NEW callee, Moves(fr, callee)
    PROVE  /\ \A j \in DOMAIN stack : j # Len(stack) => j \in DOMAIN stack' /\ stack'[j] = stack[j]
           /\ \A j \in DOMAIN stack' :
                \/ j \in DOMAIN stack /\ stack'[j] = stack[j] /\ (j # Len(stack) \/ stack' = stack)
                \/ j = Len(stack) /\ stack'[j] = fr
                \/ New(stack'[j])
<1> DEFINE n == Len(stack)
           s == Append(Front(stack), fr)
<1>1. n \in Nat /\ DOMAIN stack = 1..n /\ n # 0
  BY TopFrame, EmptySeq
<1>2. /\ s \in Seq(ToSet(s)) /\ Len(s) = n /\ DOMAIN s = 1..n /\ s[n] = fr
      /\ \A i \in 1..(n - 1) : s[i] = stack[i]
  BY FrontAppend DEF Stacked
<1>3. /\ Continue(fr) => stack' = s
      /\ Call(fr, callee) => stack' = Append(s, callee)
  BY DEF Continue, Call
<1>4. ASSUME NEW type, Return(type)
      PROVE  DOMAIN stack' = 1..(n - 1) /\ \A i \in 1..(n - 1) : stack'[i] = stack[i]
  BY <1>4, FrontOnly DEF Return, Stacked
<1> HIDE DEF s, n
<1>5. CASE UNCHANGED stack
  BY <1>5
<1>6. ASSUME Continue(fr)
      PROVE  /\ \A j \in DOMAIN stack : j # n => j \in DOMAIN stack' /\ stack'[j] = stack[j]
             /\ \A j \in DOMAIN stack' :
                  \/ j \in DOMAIN stack /\ stack'[j] = stack[j] /\ j # n
                  \/ j = n /\ stack'[j] = fr
  <2>1. \A j \in 1..n : j # n => j \in 1..(n - 1)
    BY <1>1
  <2>2. QED
    BY <1>1, <1>2, <1>3, <1>6, <2>1
<1>7. CASE New(callee) /\ Call(fr, callee)
  <2>1. /\ DOMAIN stack' = 1..(n + 1) /\ stack'[n + 1] = callee
        /\ \A i \in 1..n : stack'[i] = s[i]
    BY <1>2, <1>3, <1>7, Pushed
  <2>2. ASSUME NEW j \in DOMAIN stack, j # n
        PROVE  j \in DOMAIN stack' /\ stack'[j] = stack[j]
    <3>1. j \in 1..(n - 1) /\ j \in 1..n /\ j \in 1..(n + 1)
      BY <1>1, <2>2
    <3>2. QED
      BY <1>2, <2>1, <3>1
  <2>3. ASSUME NEW j \in DOMAIN stack'
        PROVE  \/ j \in DOMAIN stack /\ stack'[j] = stack[j] /\ j # n
               \/ j = n /\ stack'[j] = fr
               \/ stack'[j] = callee
    <3>1. j \in 1..(n - 1) \/ j = n \/ j = n + 1
      BY <1>1, <2>1, <2>3
    <3>2. n \in 1..n /\ \A i \in 1..(n - 1) : i \in 1..n /\ i # n
      BY <1>1
    <3>3. QED
      BY <1>1, <1>2, <2>1, <3>1, <3>2
  <2>4. QED
    BY <1>7, <2>2, <2>3 DEF n
<1>8. ASSUME NEW type, Return(type)
      PROVE  /\ \A j \in DOMAIN stack : j # n => j \in DOMAIN stack' /\ stack'[j] = stack[j]
             /\ \A j \in DOMAIN stack' : j \in DOMAIN stack /\ stack'[j] = stack[j] /\ j # n
  <2>1. /\ \A j \in 1..n : j # n => j \in 1..(n - 1)
        /\ \A j \in 1..(n - 1) : j \in 1..n /\ j # n
    BY <1>1
  <2>2. QED
    BY <1>1, <1>4, <1>8, <2>1
<1> DEFINE Old == \A j \in DOMAIN stack : j # n => j \in DOMAIN stack' /\ stack'[j] = stack[j]
           Now == \A j \in DOMAIN stack' :
                    \/ j \in DOMAIN stack /\ stack'[j] = stack[j] /\ (j # n \/ stack' = stack)
                    \/ j = n /\ stack'[j] = fr
                    \/ New(stack'[j])
<1>9. (\E type : Return(type)) => Old /\ Now
  BY <1>8
<1>10. Old /\ Now
  <2>1. UNCHANGED stack => Old /\ Now
    BY <1>5 DEF n
  <2>2. Continue(fr) => Old /\ Now
    BY <1>6 DEF n
  <2>3. New(callee) /\ Call(fr, callee) => Old /\ Now
    BY <1>7 DEF n
  <2> HIDE DEF Old, Now
  <2>4. QED
    BY <1>9, <2>1, <2>2, <2>3 DEF Moves
<1>11. QED
  BY <1>10 DEF n

-----------------------------------------------------------------------------
(* Types are kept *)

(* A definition that has a type is not worked on any more; it is resolved, *)
(* or its initialiser has failed.                                          *)
TInv ==
    \A d \in Defs :
        /\ state[d] = "Resolved" => aliased[d] # NoType
        /\ aliased[d] # NoType => /\ state[d] \in {"Resolved", "Unresolvable"}
                                 /\ At("def", d) = {}

StaysTyped == \A d \in Defs : aliased[d] # NoType => aliased'[d] = aliased[d]

(* A step that works on no other definition than before, and resolves none. *)
LEMMA SameTypes ==
    ASSUME TInv, UNCHANGED <<prog, aliased>>,
           \A d \in Defs : /\ state'[d] = "Resolved" => state[d] = "Resolved"
                           /\ state[d] \in {"Resolved", "Unresolvable"} =>
                                state'[d] \in {"Resolved", "Unresolvable"}
                           /\ At("def", d)' # {} => At("def", d) # {} \/ state[d] = "NotResolved"
    PROVE  TInv' /\ StaysTyped
<1>1. Defs' = Defs
  BY SameDefs
<1>2. QED
  BY <1>1 DEF TInv, StaysTyped

LEMMA NewWorks ==
    ASSUME NEW callee, New(callee)
    PROVE  /\ \A fun, d : ~Works(callee, fun, d)
           /\ ~GivesValues(callee)
<1>1. CASE \E c, note : callee = InitCall(c, note) \/ callee = ResolveCall(c, note)
  BY <1>1 DEF InitCall, ResolveCall, Works, GivesValues, AtValues
<1>2. CASE \E d : callee = DefCall(d)
  BY <1>2 DEF DefCall, Works, GivesValues
<1>3. CASE \E path, c, i, except, full : callee = TypeCall(path, c, i, except, full)
  BY <1>3 DEF TypeCall, Works, GivesValues
<1>4. QED
  BY <1>1, <1>2, <1>3 DEF New

(* The definitions worked on are those of before and that of the last call. *)
LEMMA WorkedOn ==
    ASSUME IInv, stack # <<>>, Calling, NEW d, At("def", d)' # {}, At("def", d) = {}
    PROVE  Top.fun = "def" /\ Top.def = d
<1>1. PICK fr, callee : /\ fr.fun = Top.fun
                        /\ Top.fun # "type" => fr.def = Top.def
                        /\ Moves(fr, callee)
  BY StepFrames
<1>2. PICK j \in DOMAIN stack' : Works(stack'[j], "def", d)
  BY DEF At
<1>3. ~(j \in DOMAIN stack /\ stack'[j] = stack[j])
  BY <1>2 DEF At
<1>4. ~New(stack'[j])
  BY <1>2, NewWorks
<1>5. stack'[j] = fr
  BY <1>1, <1>3, <1>4, FramesMoved DEF IInv
<1>6. QED
  BY <1>1, <1>2, <1>5 DEF Works

LEMMA StepTypes == IInv /\ TInv /\ [Next]_vars => TInv' /\ StaysTyped
<1> SUFFICES ASSUME IInv, TInv, [Next]_vars PROVE TInv' /\ StaysTyped
  OBVIOUS
<1>1. CASE UNCHANGED vars
  <2>1. UNCHANGED <<prog, state, aliased, stack>>
    BY <1>1 DEF vars
  <2>2. \A d : At("def", d)' = At("def", d)
    BY <2>1 DEF At
  <2>3. QED
    BY <2>1, <2>2, SameTypes
<1>2. CASE InitModules \/ ResolveSome \/ ResolvedSome \/ ResolveRest \/ RestNext
  <2>1. UNCHANGED <<prog, state, aliased>> /\ stack = <<>>
    BY <1>2 DEF InitModules, ResolveSome, ResolvedSome, ResolveRest, RestNext, Idle, defVars
  <2>2. \A d \in Defs : At("def", d)' = {}
    <3>1. stack' = <<>> \/ \E callee : New(callee) /\ stack' = <<callee>>
      BY <1>2, <2>1 DEF InitModules, ResolveSome, ResolvedSome, ResolveRest, RestNext, New
    <3>2. \A j \in DOMAIN stack' : New(stack'[j])
      BY <3>1
    <3>3. QED
      BY <3>2, NewWorks DEF At
  <2>3. QED
    BY <2>1, <2>2, SameTypes
<1>3. ASSUME stack # <<>>, Calling PROVE TInv' /\ StaysTyped
  <2>1. /\ IsFrame(Top, Defs) /\ Defs' = Defs /\ prog' = prog
        /\ state \in [Classes \cup Defs -> States] /\ aliased \in [Defs -> TypesOf]
        /\ Classes \cap Defs = {}
    <3>1. prog' = prog
      BY <1>3 DEF Calling, InitStep, InitEnter, InitParent, InitAddParent, InitFail, InitDone,
           ResolveStep, ResolveInit, ResolveEnter, ResolveNext, ResolveFuns, ResolveFun,
           ResolveFail, ResolveDone, ValueStep, ValueNext, ValueGiven, ValueInit, ValueSet,
           ValueFail, ValuesDone, DefStep, DefEnter, DefDim, DefFail, DefDone,
           TypeStep, TypeBuiltin, TypeInScope, TypeInScopeDone, TypeExport, TypePrepare,
           TypePrepared, TypeUnprepared, TypeClass, TypeMember, TypeMemberDone
    <3>2. QED
      BY <1>3, <3>1, TopFrame, SameDefs, Apart DEF IInv, Typed
  <2>2. CASE InitStep \/ ResolveStep
    <3>1. /\ Top.fun # "def" /\ Top.def \in Classes /\ aliased' = aliased
          /\ state' = state \/ \E x \in States : state' = [state EXCEPT ![Top.def] = x]
      BY <2>1, <2>2 DEF InitStep, InitEnter, InitParent, InitAddParent, InitFail, InitDone,
           ResolveStep, ResolveInit, ResolveEnter, ResolveNext, ResolveFuns, ResolveFun,
           ResolveFail, ResolveDone, defVars, SetState, WorkOn, IsFrame, States
    <3>2. \A d \in Defs : state'[d] = state[d]
      BY <2>1, <3>1
    <3>3. QED
      BY <1>3, <2>1, <3>1, <3>2, WorkedOn, SameTypes
  <2>3. CASE TypeStep
    <3>1. Top.fun # "def" /\ aliased' = aliased /\ state' = state
      BY <2>3 DEF TypeStep, TypeBuiltin, TypeInScope, TypeInScopeDone, TypeExport, TypePrepare,
           TypePrepared, TypeUnprepared, TypeClass, TypeMember, TypeMemberDone, defVars
    <3>2. QED
      BY <1>3, <2>1, <3>1, WorkedOn, SameTypes
  <2>4. CASE ValueStep
    <3>1. /\ Top.fun # "def" /\ aliased' = aliased
          /\ state' = state \/ \E x : state' = [state EXCEPT ![x] = "Unresolvable"]
      BY <2>4 DEF ValueStep, ValueNext, ValueGiven, ValueInit, ValueSet, ValueFail, ValuesDone,
           Valuing, defVars, SetState
    <3>2. \A d \in Defs : state'[d] = state[d] \/ state'[d] = "Unresolvable"
      BY <2>1, <3>1
    <3>3. QED
      BY <1>3, <2>1, <3>1, <3>2, WorkedOn, SameTypes
  <2>5. CASE DefStep
    <3>0. PICK e : e = Top.def
      OBVIOUS
    <3>1. e \in Defs /\ Top.fun = "def" /\ Top.at \in {"enter", "type", "dim"}
      BY <2>1, <2>5, <3>0 DEF DefStep, DefEnter, DefDim, DefFail, DefDone, IsFrame
    <3>2. Top.at # "enter" => At("def", e) # {}
      BY <1>3, <3>0, <3>1, TopFrame DEF IInv, Works
    <3>3. Returned => Top.at # "enter"
      BY <1>3, <3>1, TopFrame DEF IInv, Stacked, Unchecked, Returned
    <3>4. CASE DefEnter \/ DefDim \/ DefFail
      <4>1. /\ aliased' = aliased
            /\ \/ state' = state
               \/ state' = [state EXCEPT ![e] = "Resolving"] /\ state[e] = "NotResolved"
               \/ state' = [state EXCEPT ![e] = "Unresolvable"]
            /\ state[e] = "NotResolved" \/ At("def", e) # {} \/ \E type : Return(type)
        BY <3>0, <3>1, <3>2, <3>3, <3>4 DEF DefEnter, DefDim, DefFail, defVars, CheckState, SetState, WorkOn
      <4>2. \A d \in Defs : /\ state'[d] = "Resolved" => state[d] = "Resolved"
                            /\ state[d] \in {"Resolved", "Unresolvable"} =>
                                 state'[d] \in {"Resolved", "Unresolvable"}
        BY <2>1, <3>1, <4>1
      <4>3. (\E type : Return(type)) => \A d : At("def", d)' \subseteq At("def", d)
        BY <1>3, <2>1, Returns DEF IInv
      <4>4. \A d \in Defs : At("def", d)' # {} => At("def", d) # {} \/ state[d] = "NotResolved"
        BY <1>3, <3>0, <4>1, <4>3, WorkedOn
      <4>5. QED
        BY <2>1, <4>1, <4>2, <4>4, SameTypes
    <3>5. CASE DefDone
      <4> DEFINE type == IF Top.at = "dim" THEN ArrayOf(Top.type) ELSE ret
      <4>1. /\ state' = [state EXCEPT ![e] = "Resolved"] /\ aliased' = [aliased EXCEPT ![e] = type]
            /\ At("def", e) # {} /\ ret # NoType /\ \E t : Return(t)
        BY <3>0, <3>2, <3>3, <3>5 DEF DefDone, SetState
      <4>2. type # NoType
        <5>1. ArrayOf(Top.type).of \in {"int", "array"}
          BY <2>1, <3>1 DEF ArrayOf, IsFrame, TypesOf
        <5>2. NoType.of \notin {"int", "array"}
          BY DEF NoType
        <5>3. QED
          BY <4>1, <5>1, <5>2
      <4> HIDE DEF type
      <4>3. /\ state'[e] = "Resolved" /\ aliased'[e] # NoType
            /\ \A d \in Defs : d # e => state'[d] = state[d] /\ aliased'[d] = aliased[d]
        BY <2>1, <3>1, <4>1, <4>2
      <4>4. \A d : At("def", d)' \subseteq At("def", d)
        BY <1>3, <2>1, <4>1, Returns DEF IInv
      <4>5. At("def", e)' = {}
        <5>1. IInv'
          BY <1>3, <2>5, DefStepInv
        <5>2. QED
          BY <2>1, <3>1, <4>3, <5>1 DEF IInv, Marked
      <4>6. aliased[e] = NoType
        BY <3>1, <4>1 DEF TInv
      <4>7. TInv'
        BY <2>1, <4>3, <4>4, <4>5 DEF TInv
      <4>8. StaysTyped
        BY <4>3, <4>6 DEF StaysTyped
      <4>9. QED
        BY <4>7, <4>8
    <3>6. QED
      BY <2>5, <3>4, <3>5 DEF DefStep
  <2>6. QED
    BY <1>3, <2>2, <2>3, <2>4, <2>5 DEF Calling
<1>4. QED
  BY <1>1, <1>2, <1>3 DEF Next, Idle, Calling

LEMMA InitTypes == Init => TInv
<1> SUFFICES ASSUME Init PROVE TInv
  OBVIOUS
<1>1. \A d \in Defs : state[d] = "NotResolved" /\ aliased[d] = NoType
  BY DEF Init
<1>2. QED
  BY <1>1 DEF TInv

-----------------------------------------------------------------------------
(* Default values *)

ResolvedClasses == {c \in Classes : state[c] = "Resolved"}

(* The properties that a class still has to give a value. *)
Missing == [c \in Classes |-> {d \in PropsOf(c) : d \notin valued /\ d[1] \notin prog.unions}]

(* A call that gives values has those left to do on its list, unless the   *)
(* program has stopped.                                                    *)
Gives(fr, resolved, missing, unions, stopped) ==
    GivesValues(fr) => /\ fr.def \in resolved /\ fr.unions \subseteq unions
                       /\ stopped \/ missing[fr.def] \subseteq ToSet(fr.todo)

VInv ==
    /\ \A i \in DOMAIN stack : Gives(stack[i], ResolvedClasses, Missing, prog.unions, aborted)
    /\ \A c \in ResolvedClasses : aborted \/ BeingValued(c) \/ Missing[c] = {}

(* Resolved classes stay so, and miss no more than they did. *)
LEMMA MissNoMore ==
    ASSUME IInv, StaysResolved, prog' = prog, valued \subseteq valued'
    PROVE  /\ ResolvedClasses \subseteq ResolvedClasses'
           /\ \A c \in ResolvedClasses : Missing'[c] \subseteq Missing[c]
<1>1. ResolvedClasses \subseteq ResolvedClasses'
  BY Apart DEF ResolvedClasses, StaysResolved, IInv
<1>2. ASSUME NEW c \in ResolvedClasses PROVE Missing'[c] \subseteq Missing[c]
  <2>1. c \in Classes /\ anc'[c] = anc[c]
    BY DEF ResolvedClasses, StaysResolved
  <2>2. PropsOf(c)' = PropsOf(c)
    BY <2>1, SameDefs DEF PropsOf, Def
  <2>3. QED
    BY <2>1, <2>2 DEF Missing
<1>3. QED
  BY <1>1, <1>2

(* A step that resolves no class but that of the last call, which goes on  *)
(* giving values if it did.                                                *)
LEMMA VMoves ==
    ASSUME IInv, VInv, StaysResolved, prog' = prog, valued \subseteq valued', aborted => aborted',
           stack # <<>>, NEW fr, NEW callee, fr.fun = Top.fun, Moves(fr, callee),
           \A c \in ResolvedClasses' : \/ c \in ResolvedClasses
                                       \/ GivesValues(fr) /\ fr.def = c /\ Continue(fr),
           aborted' \/ (\E type : Return(type)) \/
             (/\ Gives(fr, ResolvedClasses', Missing', prog'.unions, aborted')
              /\ GivesValues(Top) => GivesValues(fr) /\ fr.def = Top.def),
           ~aborted' /\ GivesValues(Top) /\ (\E type : Return(type)) => Missing'[Top.def] = {},
           Gives(fr, ResolvedClasses', Missing', prog'.unions, TRUE)
    PROVE  VInv'
<1> DEFINE n == Len(stack)
<1>1. /\ ResolvedClasses \subseteq ResolvedClasses'
      /\ \A c \in ResolvedClasses : Missing'[c] \subseteq Missing[c]
  BY MissNoMore
<1>2. /\ \A j \in DOMAIN stack : j # n => j \in DOMAIN stack' /\ stack'[j] = stack[j]
      /\ \A j \in DOMAIN stack' :
           \/ j \in DOMAIN stack /\ stack'[j] = stack[j] /\ (j # n \/ stack' = stack)
           \/ j = n /\ stack'[j] = fr
           \/ New(stack'[j])
  BY FramesMoved DEF IInv
<1>3. n \in DOMAIN stack /\ Top = stack[n]
  BY TopFrame DEF IInv
<1>4. Continue(fr) \/ Call(fr, callee) => n \in DOMAIN stack' /\ stack'[n] = fr
  <2>1. n \in 1 .. n
    BY TopFrame DEF IInv
  <2>2. /\ DOMAIN Append(Front(stack), fr) = 1 .. n /\ Append(Front(stack), fr)[n] = fr
        /\ Append(Front(stack), fr) \in Seq(ToSet(Append(Front(stack), fr)))
        /\ Len(Append(Front(stack), fr)) = n /\ n \in Nat
    BY TopFrame, FrontAppend DEF IInv, Stacked
  <2>3. Continue(fr) => n \in DOMAIN stack' /\ stack'[n] = fr
    BY <2>1, <2>2 DEF Continue
  <2>4. ASSUME Call(fr, callee) PROVE n \in DOMAIN stack' /\ stack'[n] = fr
    <3> DEFINE s == Append(Front(stack), fr)
    <3>1. stack' = Append(s, callee)
      BY <2>4 DEF Call
    <3> HIDE DEF s
    <3>2. s \in Seq(ToSet(s)) /\ Len(s) = n /\ s[n] = fr
      BY <2>2 DEF s
    <3>3. n \in 1 .. n + 1
      BY <2>2, <2>1
    <3>4. QED
      BY <2>1, <3>1, <3>2, <3>3, Pushed
  <2>5. QED
    BY <2>3, <2>4
<1> HIDE DEF n
<1>5. ASSUME NEW i \in DOMAIN stack'
      PROVE  Gives(stack'[i], ResolvedClasses', Missing', prog'.unions, aborted')
  <2>1. ASSUME i \in DOMAIN stack, stack'[i] = stack[i]
        PROVE  Gives(stack'[i], ResolvedClasses', Missing', prog'.unions, aborted')
    <3>1. Gives(stack[i], ResolvedClasses, Missing, prog.unions, aborted)
      BY <2>1 DEF VInv
    <3>2. QED
      BY <1>1, <2>1, <3>1 DEF Gives
  <2>2. ASSUME New(stack'[i])
        PROVE  Gives(stack'[i], ResolvedClasses', Missing', prog'.unions, aborted')
    BY <2>2, NewWorks DEF Gives
  <2>3. ASSUME i = n, stack'[i] = fr, ~(i \in DOMAIN stack /\ stack'[i] = stack[i])
        PROVE  Gives(stack'[i], ResolvedClasses', Missing', prog'.unions, aborted')
    <3>1. CASE aborted'
      BY <2>3, <3>1 DEF Gives
    <3>2. CASE \E type : Return(type)
      <4>1. i \in 1 .. Len(stack) - 1
        BY <3>2, FrontOnly DEF Return, IInv, Stacked
      <4>2. FALSE
        BY <2>3, <4>1, TopFrame DEF IInv, n
      <4>3. QED
        BY <4>2
    <3>3. QED
      BY <2>3, <3>1, <3>2
  <2>4. QED
    BY <1>2, <2>1, <2>2, <2>3
<1>6. ASSUME NEW c \in ResolvedClasses', ~aborted' PROVE BeingValued(c)' \/ Missing'[c] = {}
  <2>1. CASE c \notin ResolvedClasses
    <3>1. GivesValues(fr) /\ fr.def = c /\ Continue(fr)
      BY <1>6, <2>1
    <3>2. n \in DOMAIN stack' /\ stack'[n] = fr
      BY <1>4, <3>1
    <3>3. QED
      BY <3>1, <3>2 DEF BeingValued, GivesValues, AtValues
  <2>2. ASSUME c \in ResolvedClasses, Missing[c] = {} PROVE Missing'[c] = {}
    BY <1>1, <2>2
  <2>3. ASSUME NEW j \in DOMAIN stack, GivesValues(stack[j]), stack[j].def = c
        PROVE  BeingValued(c)' \/ Missing'[c] = {}
    <3>1. CASE j # n
      BY <1>2, <2>3, <3>1 DEF BeingValued, GivesValues, AtValues
    <3>2. CASE j = n
      <4>1. GivesValues(Top) /\ Top.def = c
        BY <1>3, <2>3, <3>2
      <4>2. CASE \E type : Return(type)
        BY <1>6, <4>1, <4>2
      <4>3. CASE ~\E type : Return(type)
        <5>1. GivesValues(fr) /\ fr.def = c
          BY <1>6, <4>1, <4>3
        <5>2. Continue(fr) \/ Call(fr, callee)
          BY <1>6, <4>3 DEF Moves
        <5>3. QED
          BY <1>4, <5>1, <5>2 DEF BeingValued, GivesValues, AtValues
      <4>4. QED
        BY <4>2, <4>3
    <3>3. QED
      BY <3>1, <3>2
  <2>4. c \in ResolvedClasses =>
          Missing[c] = {} \/ \E j \in DOMAIN stack : GivesValues(stack[j]) /\ stack[j].def = c
    BY <1>6 DEF VInv, BeingValued, GivesValues, AtValues
  <2>5. QED
    BY <2>1, <2>2, <2>3, <2>4
<1>7. QED
  BY <1>5, <1>6 DEF VInv

(* A step of giving default values goes on with the next, or has given all. *)
LEMMA ValueStepValues == IInv /\ VInv /\ stack # <<>> /\ ~aborted /\ ValueStep => VInv'
<1> SUFFICES ASSUME IInv, VInv, stack # <<>>, ~aborted, ValueStep PROVE VInv'
  OBVIOUS
<1> DEFINE c == Top.def
           d == Head(Top.todo)
           new == {x \in {d} : aborted' \/ x \in valued' \/ x[1] \in prog.unions}
<1>1. /\ GivesValues(Top) /\ prog' = prog /\ anc' = anc /\ valued \subseteq valued'
      /\ IsFrame(Top, Defs)
  BY TopFrame DEF ValueStep, ValueNext, ValueGiven, ValueInit, ValueSet, ValueFail, ValuesDone,
                  Valuing, GivesValues, AtValues, IInv, defVars
<1>2. /\ c \in Classes /\ Top.todo \in Seq(Defs) /\ Top.fun = "resolve"
      /\ Top.at \in {"prop", "value"} => Top.todo # <<>>
      /\ {"fun", "def", "at", "todo", "unions"} \subseteq DOMAIN Top
  BY <1>1 DEF IsFrame, AtValues, GivesValues
<1>3. /\ c \in ResolvedClasses /\ Top.unions \subseteq prog.unions
      /\ Missing[c] \subseteq ToSet(Top.todo)
  <2>1. Len(stack) \in DOMAIN stack /\ Top = stack[Len(stack)]
    BY TopFrame DEF IInv
  <2>2. Gives(Top, ResolvedClasses, Missing, prog.unions, aborted)
    BY <2>1 DEF VInv
  <2>3. QED
    BY <1>1, <2>2 DEF Gives
<1>4. StaysResolved
  BY ValueStepInv
<1>5. /\ ResolvedClasses \subseteq ResolvedClasses'
      /\ \A b \in ResolvedClasses : Missing'[b] \subseteq Missing[b]
  BY <1>1, <1>4, MissNoMore
<1>6. ResolvedClasses' \subseteq ResolvedClasses
  <2>1. state' = state \/ state' = [state EXCEPT ![d] = "Unresolvable"]
    BY DEF ValueStep, ValueNext, ValueGiven, ValueInit, ValueSet, ValueFail, ValuesDone, SetState
  <2>2. state \in [Classes \cup Defs -> States]
    BY DEF IInv, Typed
  <2> HIDE DEF d
  <2>3. QED
    BY <2>1, <2>2 DEF ResolvedClasses
<1>7. ASSUME NEW fr, fr.fun = "resolve", fr.def = c, fr.at \in AtValues,
             fr.unions \subseteq prog.unions, Missing'[c] \subseteq ToSet(fr.todo) \/ aborted',
             NEW callee, Continue(fr) \/ (New(callee) /\ Call(fr, callee))
      PROVE  VInv'
  <2>1. /\ Gives(fr, ResolvedClasses', Missing', prog'.unions, aborted')
        /\ Gives(fr, ResolvedClasses', Missing', prog'.unions, TRUE)
    BY <1>1, <1>3, <1>5, <1>7 DEF Gives
  <2>2. Moves(fr, callee) /\ GivesValues(fr) /\ ~(\E type : Return(type))
    <3>1. ASSUME NEW type, Return(type) PROVE FALSE
      <4>1. Len(stack') = Len(stack) - 1 /\ Len(stack) \in Nat
        BY <3>1, FrontOnly, TopFrame DEF Return, IInv, Stacked
      <4> DEFINE s == Append(Front(stack), fr)
      <4>2. s \in Seq(ToSet(s)) /\ Len(s) = Len(stack)
        BY FrontAppend DEF IInv, Stacked
      <4>3. stack' = s \/ stack' = Append(s, callee)
        BY <1>7 DEF Continue, Call
      <4> HIDE DEF s
      <4>4. Len(stack') = Len(s) \/ Len(stack') = Len(s) + 1
        BY <4>2, <4>3, Pushed
      <4>5. QED
        BY <4>1, <4>2, <4>4
    <3>2. QED
      BY <1>7, <3>1 DEF Moves, GivesValues
  <2>3. QED
    BY <1>1, <1>2, <1>4, <1>6, <1>7, <2>1, <2>2, VMoves
<1>8. ASSUME NEW unions, unions \subseteq prog.unions, Top.todo # <<>>, d \in new,
             Continue(NextValue(unions))
      PROVE  VInv'
  <2> DEFINE fr == NextValue(unions)
  <2>1. /\ fr.fun = "resolve" /\ fr.def = c /\ fr.at = "values" /\ fr.unions = unions
        /\ fr.todo = Tail(Top.todo)
    BY <1>2 DEF NextValue
  <2>2. ToSet(Top.todo) = {d} \cup ToSet(Tail(Top.todo))
    BY <1>2, <1>8, NextAndRest
  <2>3. aborted' \/ d \notin Missing'[c]
    BY <1>1, <1>2, <1>8 DEF Missing
  <2> HIDE DEF fr
  <2>4. Missing'[c] \subseteq ToSet(fr.todo) \/ aborted'
    BY <1>3, <1>5, <2>1, <2>2, <2>3
  <2>5. Continue(fr)
    BY <1>8 DEF fr
  <2>6. QED
    BY <1>7, <1>8, <2>1, <2>4, <2>5 DEF AtValues
<1> HIDE DEF new
<1>9. CASE ValueNext
  <2>1. Top.todo # <<>> /\ UNCHANGED aborted
    BY <1>9 DEF ValueNext
  <2>2. CASE d[1] \in Top.unions
    <3>1. Continue(NextValue(Top.unions)) /\ d \in new
      BY <1>3, <1>9, <2>2 DEF ValueNext, new
    <3>2. QED
      BY <1>3, <1>8, <2>1, <3>1
  <2>3. CASE d[1] \notin Top.unions
    <3> DEFINE fr == [Top EXCEPT !.at = "prop", !.unions = @ \cup ({d[1]} \cap prog.unions)]
    <3>1. Call(fr, DefCall(d)) /\ New(DefCall(d))
      BY <1>9, <2>3 DEF ValueNext, New
    <3>2. /\ fr.fun = "resolve" /\ fr.def = c /\ fr.at = "prop" /\ fr.todo = Top.todo
          /\ fr.unions \subseteq prog.unions
      BY <1>2, <1>3
    <3> HIDE DEF fr
    <3>3. QED
      BY <1>3, <1>5, <1>7, <3>1, <3>2 DEF AtValues
  <2>4. QED
    BY <2>2, <2>3
<1>10. CASE ValueGiven \/ ValueSet \/ ValueFail
  <2>1. Top.todo # <<>> /\ Continue(NextValue(Top.unions))
    BY <1>2, <1>10 DEF ValueGiven, ValueSet, ValueFail, Valuing
  <2>2. aborted' \/ d \in valued'
    BY <1>10 DEF ValueGiven, ValueSet, ValueFail, defVars
  <2>3. d \in new
    BY <2>2 DEF new
  <2>4. QED
    BY <1>3, <1>8, <2>1, <2>3
<1>11. CASE ValueInit
  <2> DEFINE fr == [Top EXCEPT !.at = "value"]
             callee == TypeCall(Def(d).init, d[1], d[2], None, TRUE)
  <2>1. Call(fr, callee) /\ New(callee)
    BY <1>11 DEF ValueInit, New
  <2>2. /\ fr.fun = "resolve" /\ fr.def = c /\ fr.at = "value" /\ fr.todo = Top.todo
        /\ fr.unions = Top.unions
    BY <1>2
  <2> HIDE DEF fr, callee
  <2>3. QED
    BY <1>3, <1>5, <1>7, <2>1, <2>2 DEF AtValues
<1>12. CASE ValuesDone
  <2>1. Top.todo = <<>> /\ Return(True) /\ ~aborted'
    BY <1>12 DEF ValuesDone
  <2>2. Missing'[c] = {}
    <3>1. ToSet(<<>>) = {}
      BY DEF ToSet
    <3>2. QED
      BY <1>3, <1>5, <2>1, <3>1
  <2> DEFINE fr == [fun |-> Top.fun, at |-> "none"]
  <2>3. fr.fun = Top.fun /\ ~GivesValues(fr)
    BY DEF GivesValues, AtValues
  <2> HIDE DEF fr
  <2>4. Moves(fr, fr) /\ Gives(fr, ResolvedClasses', Missing', prog'.unions, TRUE)
    BY <2>1, <2>3 DEF Moves, Gives
  <2>5. QED
    BY <1>1, <1>4, <1>6, <2>1, <2>2, <2>3, <2>4, VMoves
<1>13. QED
  BY <1>9, <1>10, <1>11, <1>12 DEF ValueStep

LEMMA StepValues == IInv /\ VInv /\ [Next]_vars => VInv'
<1> SUFFICES ASSUME IInv, VInv, [Next]_vars PROVE VInv'
  OBVIOUS
<1>1. ASSUME UNCHANGED <<prog, state, anc, valued, aborted>>
      PROVE  /\ ResolvedClasses' = ResolvedClasses /\ Missing' = Missing
  <2>1. \A c : PropsOf(c)' = PropsOf(c)
    BY <1>1, SameDefs DEF PropsOf, Def
  <2>2. QED
    BY <1>1, <2>1 DEF ResolvedClasses, Missing
<1>2. CASE UNCHANGED vars
  <2>1. UNCHANGED <<prog, state, anc, valued, aborted, stack>>
    BY <1>2 DEF vars
  <2>2. \A c : BeingValued(c)' = BeingValued(c)
    BY <2>1 DEF BeingValued
  <2>3. QED
    BY <1>1, <2>1, <2>2 DEF VInv
<1>3. CASE InitModules \/ ResolveSome \/ ResolvedSome \/ ResolveRest \/ RestNext
  <2>1. UNCHANGED <<prog, state, anc, valued, aborted>> /\ stack = <<>>
    BY <1>3 DEF InitModules, ResolveSome, ResolvedSome, ResolveRest, RestNext, Idle, defVars
  <2>2. \A j \in DOMAIN stack' : New(stack'[j])
    <3>1. stack' = <<>> \/ \E callee : New(callee) /\ stack' = <<callee>>
      BY <1>3, <2>1 DEF InitModules, ResolveSome, ResolvedSome, ResolveRest, RestNext, New
    <3>2. QED
      BY <3>1
  <2>3. \A c : ~BeingValued(c)
    BY <2>1 DEF BeingValued
  <2>4. \A j \in DOMAIN stack' : Gives(stack'[j], ResolvedClasses', Missing', prog'.unions, aborted')
    BY <2>2, NewWorks DEF Gives
  <2>5. QED
    BY <1>1, <2>1, <2>3, <2>4 DEF VInv
<1>4. ASSUME stack # <<>>, ~aborted, Calling, ~ValueStep PROVE VInv'
  <2>1. /\ IsFrame(Top, Defs) /\ prog' = prog /\ valued' = valued /\ ~GivesValues(Top)
        /\ state \in [Classes \cup Defs -> States]
    <3>1. prog' = prog /\ valued' = valued /\ ~GivesValues(Top)
      BY <1>4 DEF Calling, InitStep, InitEnter, InitParent, InitAddParent, InitFail, InitDone,
           ResolveStep, ResolveInit, ResolveEnter, ResolveNext, ResolveFuns, ResolveFun,
           ResolveFail, ResolveDone, DefStep, DefEnter, DefDim, DefFail, DefDone,
           TypeStep, TypeBuiltin, TypeInScope, TypeInScopeDone, TypeExport, TypePrepare,
           TypePrepared, TypeUnprepared, TypeClass, TypeMember, TypeMemberDone,
           GivesValues, AtValues, defVars
    <3>2. QED
      BY <1>4, <3>1, TopFrame DEF IInv, Typed
  <2>2. StaysResolved
    BY <1>4, StepInv
  <2>3. CASE ~ResolveDone
    <3>1. PICK fr, callee : fr.fun = Top.fun /\ ~GivesValues(fr) /\ Moves(fr, callee)
      BY <1>4, <2>3, StepFrames
    <3>2. ResolvedClasses' \subseteq ResolvedClasses
      <4>1. CASE InitStep \/ ResolveStep \/ TypeStep
        <5>1. state' = state \/ \E x : x # "Resolved" /\ state' = [state EXCEPT ![Top.def] = x]
          BY <2>3, <4>1 DEF InitStep, InitEnter, InitParent, InitAddParent, InitFail, InitDone,
             ResolveStep, ResolveInit, ResolveEnter, ResolveNext, ResolveFuns, ResolveFun,
             ResolveFail, TypeStep, TypeBuiltin, TypeInScope, TypeInScopeDone, TypeExport, TypePrepare,
             TypePrepared, TypeUnprepared, TypeClass, TypeMember, TypeMemberDone, SetState, WorkOn
        <5>2. QED
          BY <2>1, <5>1 DEF ResolvedClasses
      <4>2. CASE DefStep
        <5>1. state' = state \/ \E x : state' = [state EXCEPT ![Top.def] = x]
          BY <4>2 DEF DefStep, DefEnter, DefDim, DefFail, DefDone, CheckState, SetState, WorkOn
        <5>2. Top.def \notin Classes
          BY <2>1, <4>2, Apart DEF IsFrame, DefStep, DefEnter, DefDim, DefFail, DefDone, IInv
        <5>3. QED
          BY <2>1, <5>1, <5>2 DEF ResolvedClasses
      <4>3. QED
        BY <1>4, <4>1, <4>2 DEF Calling
    <3>3. /\ Gives(fr, ResolvedClasses', Missing', prog'.unions, aborted')
          /\ Gives(fr, ResolvedClasses', Missing', prog'.unions, TRUE)
      BY <3>1 DEF Gives
    <3>4. QED
      BY <1>4, <2>1, <2>2, <3>1, <3>2, <3>3, VMoves
  <2>4. CASE ResolveDone
    <3>0. PICK c : c = Top.def
      OBVIOUS
    <3>1. /\ c \in Classes /\ {"fun", "def", "at", "todo", "unions"} \subseteq DOMAIN Top
          /\ Top.fun = "resolve"
      BY <2>1, <2>4, <3>0 DEF ResolveDone, IsFrame
    <3> DEFINE fr == [Top EXCEPT !.at = "values", !.todo = Properties(c), !.unions = {}]
    <3>2. /\ fr.fun = Top.fun /\ fr.def = c /\ fr.at = "values" /\ fr.todo = Properties(c)
          /\ fr.unions = {}
      BY <3>0, <3>1
    <3>3. Continue(fr) /\ state' = [state EXCEPT ![c] = "Resolved"] /\ anc' = anc
      BY <2>4, <3>0 DEF ResolveDone, SetState, defVars
    <3> HIDE DEF fr
    <3>4. ResolvedClasses' = ResolvedClasses \cup {c}
      BY <2>1, <3>1, <3>3 DEF ResolvedClasses
    <3>5. Missing'[c] \subseteq ToSet(fr.todo)
      <4>1. PropsOf(c)' = PropsOf(c)
        BY <2>1, <3>3, SameDefs DEF PropsOf, Def
      <4>2. ToSet(Properties(c)) = PropsOf(c)
        BY <3>1, PropertiesIs DEF IInv
      <4>3. QED
        BY <3>1, <3>2, <4>1, <4>2 DEF Missing
    <3>6. /\ Gives(fr, ResolvedClasses', Missing', prog'.unions, aborted')
          /\ Gives(fr, ResolvedClasses', Missing', prog'.unions, TRUE)
          /\ GivesValues(fr)
      BY <3>1, <3>2, <3>4, <3>5 DEF Gives, GivesValues, AtValues
    <3>7. Moves(fr, fr)
      BY <3>3 DEF Moves
    <3>8. QED
      BY <1>4, <2>1, <2>2, <3>1, <3>2, <3>3, <3>4, <3>6, <3>7, VMoves
  <2>5. QED
    BY <2>3, <2>4
<1>5. QED
  BY <1>2, <1>3, <1>4, ValueStepValues DEF Next, Idle, Calling

LEMMA InitValues == Init => VInv
<1> SUFFICES ASSUME Init PROVE VInv
  OBVIOUS
<1>1. ResolvedClasses = {} /\ stack = <<>>
  BY DEF Init, ResolvedClasses
<1>2. QED
  BY <1>1 DEF VInv

-----------------------------------------------------------------------------
(* What resolved classes need *)

(* Classes are good when they are resolved, definitions when they have a   *)
(* type, which they keep.                                                  *)
Good == ResolvedClasses \cup {d \in Defs : aliased[d] # NoType}
Props == {d \in Defs : Def(d).kind = "prop"}
Settled(type, good) == type.cls \in good \cup {None}

(* What a class is resolved from, before its functions, and these.         *)
Needs == [c \in Classes |-> ToSet(anc[c]) \cup PropsOf(c)]
FunsOf == [c \in Classes |-> {d \in Defs : d[1] = c /\ Def(d).kind = "fun"}]

(* What a call has resolved when it returns anything but False. *)
Answered(fr) == IF fr.fun \in {"resolve", "def"} THEN {fr.def} ELSE {}

(* A call has resolved all it needs but what is left to do, and what the   *)
(* call it waits for will have resolved.                                   *)
Progress(fr, answered, good, needs, funs, props) ==
    /\ fr.fun = "resolve" /\ fr.at = "deps" =>
         needs[fr.def] \subseteq ToSet(fr.todo) \cup good \cup answered
    /\ fr.fun = "resolve" /\ fr.at = "funs" =>
         /\ needs[fr.def] \subseteq good
         /\ funs[fr.def] \subseteq ToSet(fr.todo) \cup good \cup answered
    /\ fr.fun = "def" /\ fr.def \in props /\ fr.at = "dim" => Settled(fr.type, good)

(* A property waits for its type to be settled; so does the look-up of it. *)
Asks(fr, callee, props) ==
    /\ fr.fun = "type" /\ fr.full /\ fr.at = "prepare" =>
         callee.fun = "resolve" /\ callee.def = fr.type.cls
    /\ fr.fun = "def" /\ fr.def \in props /\ fr.at = "type" =>
         callee.fun = "type" /\ callee.full

(* What has been returned to a call is what it waited for. *)
Served(fr, type, good, props) ==
    /\ fr.fun = "type" /\ fr.full /\ fr.at = "prepare" /\ type # Running => Settled(fr.type, good)
    /\ fr.fun = "def" /\ fr.def \in props /\ fr.at = "type" => Settled(type, good)

Listed(fr, S) ==
    /\ fr.fun = "resolve" /\ fr.at \in {"deps", "funs"} => fr.todo \in Seq(S)
    /\ fr.fun = "type" => "full" \in DOMAIN fr

StackWhole ==
    /\ \A i \in DOMAIN stack : Listed(stack[i], Classes \cup Defs)
    /\ \A i \in DOMAIN stack : i # Len(stack) =>
         /\ Progress(stack[i], Answered(stack[i + 1]), Good, Needs, FunsOf, Props)
         /\ Asks(stack[i], stack[i + 1], Props)
    /\ stack # <<>> /\ ret # False =>
         /\ Progress(Top, {}, Good, Needs, FunsOf, Props)
         /\ Served(Top, ret, Good, Props)

PropsSettled == \A d \in Props \cap Good : Settled(aliased[d], Good)

(* No circles: what a class depends on was there before it. *)
ClassesWhole ==
    \A c \in Classes \cap Good :
        /\ Needs[c] \cup FunsOf[c] \subseteq Good
        /\ \A b \in DependsOn(c) : b # c /\ c \notin DependsOn(b)

WInv == StackWhole /\ PropsSettled /\ ClassesWhole

-----------------------------------------------------------------------------
(* What is resolved stays so, and the classes that are worked on keep their *)
(* ancestors.                                                               *)
Grows ==
    /\ prog' = prog /\ Defs' = Defs /\ Props' = Props /\ FunsOf' = FunsOf
    /\ Good \subseteq Good'
    /\ \A c \in Classes : c \in Good \/ At("resolve", c) # {} => Needs'[c] = Needs[c]

(* It does, when nothing resolved is undone and ancestors are only added to *)
(* a class that is being initialised.                                       *)
LEMMA ItGrows ==
    ASSUME IInv, StaysResolved, StaysTyped, prog' = prog,
           \A c \in Classes : state[c] # "Initializing" => anc'[c] = anc[c]
    PROVE  Grows
<1>1. Defs' = Defs
  BY SameDefs
<1>2. \A d : Def(d)' = Def(d)
  BY DEF Def
<1>3. Props' = Props /\ FunsOf' = FunsOf
  BY <1>1, <1>2 DEF Props, FunsOf
<1>4. Good \subseteq Good'
  <2>1. ResolvedClasses \subseteq ResolvedClasses'
    BY Apart DEF ResolvedClasses, StaysResolved, IInv
  <2>2. QED
    BY <1>1, <2>1 DEF Good, StaysTyped
<1>5. ASSUME NEW c \in Classes, anc'[c] = anc[c] PROVE Needs'[c] = Needs[c]
  BY <1>1, <1>2, <1>5 DEF Needs, PropsOf
<1>6. ASSUME NEW c \in Classes, c \in Good \/ At("resolve", c) # {} PROVE state[c] # "Initializing"
  BY <1>6, Apart DEF Good, ResolvedClasses, IInv, Marked
<1>7. QED
  BY <1>1, <1>3, <1>4, <1>5, <1>6 DEF Grows

(* A call that has got somewhere is as far when more is resolved. *)
LEMMA KeepsProgress ==
    ASSUME Grows, NEW fr, NEW answered,
           fr.fun = "resolve" /\ fr.at \in {"deps", "funs"} => fr.def \in Classes /\ At("resolve", fr.def) # {},
           Progress(fr, answered, Good, Needs, FunsOf, Props)
    PROVE  Progress(fr, answered, Good', Needs', FunsOf', Props')
<1>1. CASE fr.fun = "resolve" /\ fr.at \in {"deps", "funs"}
  BY <1>1 DEF Progress, Grows
<1>2. CASE fr.fun = "resolve" /\ fr.at \notin {"deps", "funs"}
  BY <1>2 DEF Progress
<1>3. CASE fr.fun # "resolve"
  BY <1>3 DEF Progress, Grows, Settled
<1>4. QED
  BY <1>1, <1>2, <1>3

(* The frames of calls that wait are in progress of what they work on. *)
LEMMA AtWork ==
    ASSUME IInv, NEW i \in DOMAIN stack, stack[i].fun = "resolve", stack[i].at \in {"deps", "funs"}
    PROVE  stack[i].def \in Classes /\ At("resolve", stack[i].def) # {}
<1>1. IsFrame(stack[i], Defs)
  BY DEF IInv, Stacked
<1>2. stack[i].def \in Classes
  BY <1>1 DEF IsFrame
<1>3. i \in At("resolve", stack[i].def)
  BY DEF At, Works
<1>4. QED
  BY <1>2, <1>3

(* The calls below the last one, when the last goes on as another frame.   *)
Below(n) ==
    /\ \A i \in 1 .. n - 1 : Listed(stack[i], Classes \cup Defs)
    /\ \A i \in 1 .. n - 2 :
         /\ Progress(stack[i], Answered(stack[i + 1]), Good', Needs', FunsOf', Props')
         /\ Asks(stack[i], stack[i + 1], Props')
    /\ n > 1 =>
         /\ Progress(stack[n - 1], Answered(stack[n]), Good', Needs', FunsOf', Props')
         /\ Asks(stack[n - 1], stack[n], Props')

(* What is known of the waiting calls stays true when more is resolved. *)
LEMMA KeepsBelow ==
    ASSUME IInv, StackWhole, Grows, stack # <<>>
    PROVE  Below(Len(stack))
<1> DEFINE n == Len(stack)
<1>1. n \in Nat /\ n # 0 /\ DOMAIN stack = 1 .. n
  BY TopFrame, EmptySeq DEF IInv
<1> HIDE DEF n
<1>2. ASSUME NEW i \in 1 .. n - 1
      PROVE  /\ Listed(stack[i], Classes \cup Defs)
             /\ Progress(stack[i], Answered(stack[i + 1]), Good', Needs', FunsOf', Props')
             /\ Asks(stack[i], stack[i + 1], Props')
  <2>1. i \in DOMAIN stack /\ i # n
    BY <1>1
  <2>2. /\ Listed(stack[i], Classes \cup Defs)
        /\ Progress(stack[i], Answered(stack[i + 1]), Good, Needs, FunsOf, Props)
        /\ Asks(stack[i], stack[i + 1], Props)
    BY <2>1 DEF StackWhole, n
  <2>3. stack[i].fun = "resolve" /\ stack[i].at \in {"deps", "funs"} =>
          stack[i].def \in Classes /\ At("resolve", stack[i].def) # {}
    BY <2>1, AtWork
  <2>4. Progress(stack[i], Answered(stack[i + 1]), Good', Needs', FunsOf', Props')
    BY <2>2, <2>3, KeepsProgress
  <2>5. Props' = Props
    BY DEF Grows
  <2>6. QED
    BY <2>2, <2>4, <2>5
<1>3. \A i \in 1 .. n - 2 : i \in 1 .. n - 1
  BY <1>1
<1>4. n > 1 => n - 1 \in 1 .. n - 1 /\ (n - 1) + 1 = n
  BY <1>1
<1>5. n > 1 =>
         /\ Progress(stack[n - 1], Answered(stack[n]), Good', Needs', FunsOf', Props')
         /\ Asks(stack[n - 1], stack[n], Props')
  <2> HIDE DEF Grows
  <2>1. QED
    BY <1>2, <1>4
<1>6. QED
  BY <1>2, <1>3, <1>5 DEF Below, n

(* A call that goes on is the same to the call that waits for it. *)
Same(fr, old) ==
    /\ fr.fun = old.fun
    /\ fr.fun \in {"resolve", "def"} => fr.def = old.def
    /\ fr.fun = "type" => fr.full = old.full

(* What waits for a call cannot tell it from how it was before. *)
LEMMA SameToCaller ==
    ASSUME NEW fr, NEW old, Same(fr, old)
    PROVE  /\ Answered(fr) = Answered(old)
           /\ \A below, props : Asks(below, old, props) => Asks(below, fr, props)
BY DEF Same, Answered, Asks

(* All the calls under the last one. *)
WaitingWhole(s, good, needs, funs, props) ==
    /\ \A i \in DOMAIN s : Listed(s[i], Classes \cup Defs)
    /\ \A i \in DOMAIN s : i # Len(s) =>
         /\ Progress(s[i], Answered(s[i + 1]), good, needs, funs, props)
         /\ Asks(s[i], s[i + 1], props)

(* A call goes on as fr. *)
LEMMA WContinues ==
    ASSUME IInv, StackWhole, Grows, stack # <<>>, NEW fr, Same(fr, Top), Listed(fr, Classes \cup Defs)
    PROVE  /\ WaitingWhole(Append(Front(stack), fr), Good', Needs', FunsOf', Props')
           /\ Append(Front(stack), fr) \in Seq(ToSet(Append(Front(stack), fr)))
           /\ Append(Front(stack), fr) # <<>>
           /\ Append(Front(stack), fr)[Len(Append(Front(stack), fr))] = fr
<1> DEFINE n == Len(stack)
           s == Append(Front(stack), fr)
           Whole(i) ==
             /\ Progress(s[i], Answered(s[i + 1]), Good', Needs', FunsOf', Props')
             /\ Asks(s[i], s[i + 1], Props')
<1>1. n \in Nat /\ n # 0 /\ Top = stack[n]
  BY TopFrame, EmptySeq DEF IInv
<1>2. /\ s \in Seq(ToSet(s)) /\ Len(s) = n /\ DOMAIN s = 1 .. n
      /\ \A i \in 1 .. n - 1 : s[i] = stack[i]
      /\ s[n] = fr
  BY FrontAppend DEF IInv, Stacked
<1>3. Below(n)
  BY KeepsBelow
<1> HIDE DEF s, n
<1>4. \A i \in 1 .. n : Listed(s[i], Classes \cup Defs)
  <2>1. \A i \in 1 .. n : i = n \/ i \in 1 .. n - 1
    BY <1>1
  <2>2. QED
    BY <1>2, <1>3, <2>1 DEF Below
<1>5. ASSUME NEW i \in 1 .. n - 2 PROVE Whole(i)
  <2>1. i \in 1 .. n - 1 /\ i + 1 \in 1 .. n - 1
    BY <1>1
  <2>2. s[i] = stack[i] /\ s[i + 1] = stack[i + 1]
    BY <1>2, <2>1
  <2>3. QED
    BY <1>3, <2>2 DEF Below
<1>6. ASSUME n > 1 PROVE Whole(n - 1)
  <2>1. n - 1 \in 1 .. n - 1 /\ (n - 1) + 1 = n
    BY <1>1, <1>6
  <2>2. s[n - 1] = stack[n - 1] /\ s[(n - 1) + 1] = fr
    BY <1>2, <2>1
  <2>3. /\ Progress(stack[n - 1], Answered(Top), Good', Needs', FunsOf', Props')
        /\ Asks(stack[n - 1], Top, Props')
    BY <1>1, <1>3, <1>6 DEF Below
  <2>4. QED
    BY <2>2, <2>3, SameToCaller
<1> HIDE DEF Whole
<1>7. ASSUME NEW i \in 1 .. n, i # n PROVE Whole(i)
  <2>1. i \in 1 .. n - 2 \/ (i = n - 1 /\ n > 1)
    BY <1>1, <1>7
  <2>2. QED
    BY <1>5, <1>6, <2>1
<1>8. WaitingWhole(s, Good', Needs', FunsOf', Props')
  BY <1>2, <1>4, <1>7 DEF WaitingWhole, Whole
<1>9. s # <<>>
  BY <1>1, <1>2, EmptySeq
<1>10. QED
  BY <1>2, <1>8, <1>9 DEF s

(* The three parts again, when more is resolved and no answer is lost. *)
LEMMA WholeAgain ==
    ASSUME prog' = prog, WaitingWhole(stack', Good', Needs', FunsOf', Props'),
           stack' # <<>> /\ ret' # False =>
             /\ Progress(Top', {}, Good', Needs', FunsOf', Props')
             /\ Served(Top', ret', Good', Props')
    PROVE  StackWhole'
<1>1. Defs' = Defs
  BY SameDefs
<1>2. QED
  BY <1>1 DEF StackWhole, WaitingWhole

(* The last call goes on as fr. *)
LEMMA WContinue ==
    ASSUME IInv, StackWhole, Grows, stack # <<>>, NEW fr, Same(fr, Top), Listed(fr, Classes \cup Defs),
           Continue(fr),
           Progress(fr, {}, Good', Needs', FunsOf', Props'),
           Served(fr, Running, Good', Props')
    PROVE  StackWhole'
<1> DEFINE s == Append(Front(stack), fr)
<1>1. /\ WaitingWhole(s, Good', Needs', FunsOf', Props') /\ s[Len(s)] = fr
  BY WContinues
<1>2. stack' = s /\ ret' = Running
  BY DEF Continue
<1> HIDE DEF s
<1>3. Top' = fr
  BY <1>1, <1>2 DEF Top
<1>4. QED
  BY <1>1, <1>2, <1>3, WholeAgain DEF Grows

(* The last call goes on as fr and calls another. *)
LEMMA WCall ==
    ASSUME IInv, StackWhole, Grows, stack # <<>>, NEW fr, Same(fr, Top), Listed(fr, Classes \cup Defs),
           NEW callee, Call(fr, callee), Listed(callee, Classes \cup Defs),
           Progress(fr, Answered(callee), Good', Needs', FunsOf', Props'), Asks(fr, callee, Props'),
           Progress(callee, {}, Good', Needs', FunsOf', Props'),
           Served(callee, Running, Good', Props')
    PROVE  StackWhole'
<1> DEFINE s == Append(Front(stack), fr)
           m == Len(s)
           t == Append(s, callee)
<1>1. /\ WaitingWhole(s, Good', Needs', FunsOf', Props') /\ s[m] = fr
      /\ s \in Seq(ToSet(s)) /\ s # <<>>
  BY WContinues
<1>2. stack' = t /\ ret' = Running
  BY DEF Call
<1>3. Top' = t[Len(t)]
  BY <1>2 DEF Top
<1> HIDE DEF s
<1>4. /\ Len(t) = m + 1 /\ DOMAIN t = 1 .. m + 1
      /\ \A i \in 1 .. m : t[i] = s[i]
      /\ t[m + 1] = callee
  BY <1>1, Pushed
<1>5. m \in Nat /\ m # 0 /\ DOMAIN s = 1 .. m
  BY <1>1, EmptySeq, LenProperties
<1> HIDE DEF t
<1>6. Top' = callee
  BY <1>3, <1>4
<1> DEFINE Whole(u, i) ==
             /\ Progress(u[i], Answered(u[i + 1]), Good', Needs', FunsOf', Props')
             /\ Asks(u[i], u[i + 1], Props')
<1>7. \A i \in 1 .. m : i # m => Whole(s, i)
  BY <1>1, <1>5 DEF WaitingWhole
<1>8. \A i \in 1 .. m : Listed(s[i], Classes \cup Defs)
  BY <1>1, <1>5 DEF WaitingWhole
<1> HIDE DEF m
<1>9. ASSUME NEW i \in 1 .. m PROVE Whole(t, i)
  <2>1. CASE i # m
    <3>1. i + 1 \in 1 .. m
      BY <1>5, <2>1
    <3>2. t[i] = s[i] /\ t[i + 1] = s[i + 1]
      BY <1>4, <3>1
    <3>3. QED
      BY <1>7, <2>1, <3>2
  <2>2. CASE i = m
    <3>1. t[i] = fr /\ t[i + 1] = callee
      BY <1>1, <1>4, <2>2
    <3>2. QED
      BY <3>1
  <2>3. QED
    BY <2>1, <2>2
<1>10. \A i \in DOMAIN t : Listed(t[i], Classes \cup Defs)
  <2>1. \A i \in DOMAIN t : i \in 1 .. m \/ i = m + 1
    BY <1>4, <1>5
  <2>2. QED
    BY <1>4, <1>8, <2>1
<1>11. \A i \in DOMAIN t : i # Len(t) => Whole(t, i)
  <2> HIDE DEF Whole
  <2>1. \A i \in DOMAIN t : i # Len(t) => i \in 1 .. m
    BY <1>4, <1>5
  <2>2. QED
    BY <1>9, <2>1
<1>12. WaitingWhole(stack', Good', Needs', FunsOf', Props')
  BY <1>2, <1>10, <1>11 DEF WaitingWhole
<1>13. QED
  BY <1>2, <1>6, <1>12, WholeAgain DEF Grows

(* The last call returns: what it was waited for is done, unless it says   *)
(* that it has failed.                                                     *)
LEMMA WReturn ==
    ASSUME IInv, StackWhole, Grows, stack # <<>>, NEW type, Return(type),
           type # False => Answered(Top) \subseteq Good',
           type # False /\ Top.fun = "type" /\ Top.full => Settled(type, Good')
    PROVE  StackWhole'
<1> DEFINE n == Len(stack)
           s == Front(stack)
<1>1. n \in Nat /\ n # 0 /\ Top = stack[n]
  BY TopFrame, EmptySeq DEF IInv
<1>2. Len(s) = n - 1 /\ DOMAIN s = 1 .. n - 1 /\ (\A i \in 1 .. n - 1 : s[i] = stack[i])
  BY FrontOnly DEF IInv, Stacked
<1>3. Below(n)
  BY KeepsBelow
<1>4. stack' = s /\ ret' = type
  BY DEF Return
<1>e. s # <<>> => n > 1
  <2>1. s \in Seq(ToSet(s))
    BY FrontOnly DEF IInv, Stacked
  <2> HIDE DEF s, n
  <2>2. QED
    BY <1>1, <1>2, <2>1, EmptySeq
<1> HIDE DEF s, n
<1>5. \A i \in DOMAIN s : Listed(s[i], Classes \cup Defs)
  BY <1>2, <1>3 DEF Below
<1>6. ASSUME NEW i \in DOMAIN s, i # Len(s)
      PROVE  /\ Progress(s[i], Answered(s[i + 1]), Good', Needs', FunsOf', Props')
             /\ Asks(s[i], s[i + 1], Props')
  <2>1. i \in 1 .. n - 2 /\ i \in 1 .. n - 1 /\ i + 1 \in 1 .. n - 1
    BY <1>1, <1>2, <1>6
  <2>2. s[i] = stack[i] /\ s[i + 1] = stack[i + 1]
    BY <1>2, <2>1
  <2>3. QED
    BY <1>3, <2>1, <2>2 DEF Below
<1>7. WaitingWhole(stack', Good', Needs', FunsOf', Props')
  BY <1>4, <1>5, <1>6 DEF WaitingWhole
<1>8. ASSUME s # <<>>, type # False
      PROVE  /\ Progress(Top', {}, Good', Needs', FunsOf', Props')
             /\ Served(Top', ret', Good', Props')
  <2> DEFINE below == stack[n - 1]
  <2>1. n > 1 /\ n - 1 \in 1 .. n - 1
    BY <1>1, <1>8, <1>e
  <2>2. Top' = below
    BY <1>2, <1>4, <2>1 DEF Top
  <2>3. /\ Progress(below, Answered(Top), Good', Needs', FunsOf', Props')
        /\ Asks(below, Top, Props')
    BY <1>1, <1>3, <2>1 DEF Below
  <2> HIDE DEF below
  <2>4. Answered(Top) \subseteq Good'
    BY <1>8
  <2>5. Progress(below, {}, Good', Needs', FunsOf', Props')
    BY <2>3, <2>4 DEF Progress
  <2>6. Served(below, type, Good', Props')
    <3>1. below.fun = "type" /\ below.full /\ below.at = "prepare" => Settled(below.type, Good')
      <4>1. SUFFICES ASSUME below.fun = "type" /\ below.full /\ below.at = "prepare"
                     PROVE  Settled(below.type, Good')
        OBVIOUS
      <4>2. Top.fun = "resolve" /\ Top.def = below.type.cls
        BY <2>3, <4>1 DEF Asks
      <4>3. below.type.cls \in Good'
        BY <2>4, <4>2 DEF Answered
      <4>4. QED
        BY <4>3 DEF Settled
    <3>2. below.fun = "def" /\ below.def \in Props' /\ below.at = "type" => Settled(type, Good')
      BY <1>8, <2>3 DEF Asks
    <3>3. QED
      BY <3>1, <3>2 DEF Served
  <2>7. QED
    BY <1>4, <2>2, <2>5, <2>6
<1>9. QED
  BY <1>4, <1>7, <1>8, WholeAgain DEF Grows

(* The first call of all. *)
LEMMA WStart ==
    ASSUME prog' = prog, NEW callee, stack' = <<callee>>, ret' = Running, Listed(callee, Classes \cup Defs),
           Progress(callee, {}, Good', Needs', FunsOf', Props'),
           Served(callee, Running, Good', Props')
    PROVE  StackWhole'
<1>1. Len(stack') = 1 /\ DOMAIN stack' = {1} /\ stack'[1] = callee /\ Top' = callee
  BY DEF Top
<1>2. WaitingWhole(stack', Good', Needs', FunsOf', Props')
  BY <1>1 DEF WaitingWhole
<1>3. QED
  BY <1>1, <1>2, WholeAgain

(* A call that has just been made needs nothing yet. *)
LEMMA CalleesWhole ==
    ASSUME NEW callee, NEW good, NEW needs, NEW funs, NEW props, NEW S,
           \/ \E c, note : callee = InitCall(c, note) \/ callee = ResolveCall(c, note)
           \/ \E d : callee = DefCall(d)
           \/ \E path, c, i, except, full : callee = TypeCall(path, c, i, except, full)
    PROVE  /\ Listed(callee, S)
           /\ Progress(callee, {}, good, needs, funs, props)
           /\ Served(callee, Running, good, props)
<1>1. CASE \E c, note : callee = InitCall(c, note)
  BY <1>1 DEF InitCall, Listed, Progress, Served
<1>2. CASE \E c, note : callee = ResolveCall(c, note)
  BY <1>2 DEF ResolveCall, Listed, Progress, Served
<1>3. CASE \E d : callee = DefCall(d)
  BY <1>3 DEF DefCall, Listed, Progress, Served
<1>4. CASE \E path, c, i, except, full : callee = TypeCall(path, c, i, except, full)
  BY <1>4 DEF TypeCall, Listed, Progress, Served
<1>5. QED
  BY <1>1, <1>2, <1>3, <1>4

-----------------------------------------------------------------------------
(* Resolved classes *)

(* The properties that go into a class depend on its ancestors only. *)
LEMMA SameNeeds ==
    ASSUME prog' = prog, NEW c, anc'[c] = anc[c]
    PROVE  PropsOf(c)' = PropsOf(c)
BY SameDefs DEF PropsOf, Def

(* What a class depends on is the types of its properties. *)
LEMMA SameDependsOn ==
    ASSUME prog' = prog, NEW c, anc'[c] = anc[c],
           \A d \in PropsOf(c) : aliased'[d] = aliased[d]
    PROVE  DependsOn(c)' = DependsOn(c)
<1>1. PropsOf(c)' = PropsOf(c)
  BY SameNeeds
<1>2. {aliased'[d].cls : d \in PropsOf(c)} = {aliased[d].cls : d \in PropsOf(c)}
  OBVIOUS
<1>3. QED
  BY <1>1, <1>2 DEF DependsOn

(* What a class that has all it needs depends on is resolved. *)
LEMMA DependsOnGood ==
    ASSUME PropsSettled, NEW c \in Classes, Needs[c] \subseteq Good
    PROVE  DependsOn(c) \subseteq Good
<1>1. ToSet(anc[c]) \subseteq Good /\ PropsOf(c) \subseteq Good
  BY DEF Needs
<1>2. PropsOf(c) \subseteq Props
  BY DEF PropsOf, Props
<1>3. \A d \in PropsOf(c) : aliased[d].cls \in Good \cup {None}
  BY <1>1, <1>2 DEF PropsSettled, Settled
<1>4. QED
  BY <1>1, <1>3 DEF DependsOn

(* A class that is resolved now had all it needs before: what it depends   *)
(* on is older than it, and cannot depend on it.                           *)
LEMMA KeepsClasses ==
    ASSUME IInv, WInv, StaysResolved, StaysTyped, Grows,
           \A c \in Classes : c \in Good' /\ c \notin Good =>
               /\ Needs[c] \cup FunsOf[c] \subseteq Good
               /\ anc'[c] = anc[c] /\ aliased' = aliased
    PROVE  ClassesWhole'
<1>1. prog' = prog /\ Good \subseteq Good' /\ FunsOf' = FunsOf
  BY DEF Grows
<1>2. ASSUME NEW c \in Classes, c \in Good'
      PROVE  /\ Needs[c] \cup FunsOf[c] \subseteq Good
             /\ anc'[c] = anc[c] /\ DependsOn(c)' = DependsOn(c)
  <2>1. CASE c \in Good
    <3>1. Needs[c] \cup FunsOf[c] \subseteq Good
      BY <2>1 DEF WInv, ClassesWhole
    <3>2. anc'[c] = anc[c]
      BY <2>1, Apart DEF StaysResolved, Good, ResolvedClasses, IInv
    <3>3. PropsOf(c) \subseteq Good \cap Defs
      BY <3>1 DEF Needs, PropsOf
    <3>4. \A d \in PropsOf(c) : aliased'[d] = aliased[d]
      BY <3>3, Apart DEF StaysTyped, Good, ResolvedClasses, IInv
    <3>5. QED
      BY <1>1, <3>1, <3>2, <3>4, SameDependsOn
  <2>2. CASE c \notin Good
    BY <1>1, <1>2, <2>2, SameDependsOn
  <2>3. QED
    BY <2>1, <2>2
<1>3. ASSUME NEW c \in Classes, c \in Good' PROVE DependsOn(c) \subseteq Good
  BY <1>2, <1>3, DependsOnGood DEF WInv
<1>4. \A c \in Classes : DependsOn(c) \subseteq Classes
  <2>1. \A c \in Classes : ToSet(anc[c]) \subseteq Classes
    BY DEF IInv, Typed, ToSet
  <2>2. \A d \in Defs : aliased[d].cls \in Classes \cup {None}
    BY DEF IInv, Typed, TypesOf
  <2>3. QED
    BY <2>1, <2>2 DEF DependsOn, PropsOf
<1>5. ASSUME NEW c \in Classes, c \in Good', NEW b \in DependsOn(c)
      PROVE  b # c /\ c \notin DependsOn(b) /\ b \in Classes /\ b \in Good'
  <2>1. b \in Classes /\ b \in Good /\ b \in Good'
    BY <1>1, <1>3, <1>4, <1>5
  <2>2. CASE c \in Good
    BY <2>1, <2>2 DEF WInv, ClassesWhole
  <2>3. CASE c \notin Good
    BY <1>3, <2>1, <2>3
  <2>4. QED
    BY <2>1, <2>2, <2>3
<1>6. ASSUME NEW c \in Classes, c \in Good'
      PROVE  Needs'[c] \cup FunsOf'[c] \subseteq Good'
  <2>1. Needs'[c] = Needs[c]
    BY <1>1, <1>2, <1>6, SameNeeds DEF Needs
  <2>2. QED
    BY <1>1, <1>2, <1>6, <2>1
<1>7. ASSUME NEW c \in Classes, c \in Good', NEW b \in DependsOn(c)'
      PROVE  b # c /\ c \notin DependsOn(b)'
  <2>1. b \in DependsOn(c)
    BY <1>2, <1>7
  <2>2. b # c /\ c \notin DependsOn(b) /\ b \in Classes /\ b \in Good'
    BY <1>5, <1>7, <2>1
  <2>3. QED
    BY <1>2, <2>2
<1>8. QED
  BY <1>6, <1>7 DEF ClassesWhole

(* Properties stay settled when one more definition is, if its type is      *)
(* settled.                                                                 *)
LEMMA KeepsProps ==
    ASSUME IInv, PropsSettled, StaysTyped, Grows,
           \A d \in Props : d \in Good' /\ d \notin Good => Settled(aliased'[d], Good')
    PROVE  PropsSettled'
<1>1. ASSUME NEW d \in Props, d \in Good PROVE Settled(aliased'[d], Good')
  <2>1. aliased'[d] = aliased[d]
    BY <1>1, Apart DEF StaysTyped, Good, ResolvedClasses, Props, IInv
  <2>2. Settled(aliased[d], Good)
    BY <1>1 DEF PropsSettled
  <2>3. QED
    BY <2>1, <2>2 DEF Settled, Grows
<1>2. QED
  BY <1>1 DEF PropsSettled, Grows

(* A step that resolves no class and gives no type. *)
LEMMA NothingNew ==
    ASSUME IInv, WInv, StaysResolved, StaysTyped, UNCHANGED <<prog, aliased>>,
           \A c \in Classes : state[c] # "Initializing" => anc'[c] = anc[c],
           \A c \in Classes : state'[c] = "Resolved" => state[c] = "Resolved",
           StackWhole'
    PROVE  WInv'
<1>1. Grows
  BY ItGrows
<1>2. Good' \subseteq Good
  BY SameDefs DEF Good, ResolvedClasses
<1>3. ClassesWhole' /\ PropsSettled'
  BY <1>1, <1>2, KeepsClasses, KeepsProps DEF WInv
<1>4. QED
  BY <1>3 DEF WInv

(* A call that initialises a class promises nothing. *)
LEMMA InitFrames ==
    ASSUME NEW fr, fr.fun = "init", NEW good, NEW needs, NEW funs, NEW props, NEW S
    PROVE  /\ Listed(fr, S) /\ Answered(fr) = {}
           /\ \A answered : Progress(fr, answered, good, needs, funs, props)
           /\ \A callee : Asks(fr, callee, props)
           /\ \A type : Served(fr, type, good, props)
BY DEF Listed, Answered, Progress, Asks, Served

(* The steps of a call that initialises a class. *)
LEMMA InitStepWhole ==
    ASSUME IInv, WInv, StaysTyped, stack # <<>>, InitStep
    PROVE  WInv'
<1> DEFINE c == Top.def
<1>1. /\ Top.fun = "init" /\ c \in Classes /\ {"fun", "def", "at"} \subseteq DOMAIN Top
      /\ UNCHANGED <<prog, aliased>> /\ state \in [Classes \cup Defs -> States]
      /\ ret \in TypesOf
  BY TopFrame DEF InitStep, InitEnter, InitParent, InitAddParent, InitFail, InitDone,
                  IsFrame, IInv, Typed, defVars
<1>2. StaysResolved
  BY InitStepInv
<1>3. \A d \in Classes : state[d] # "Initializing" => anc'[d] = anc[d]
  <2>1. CASE InitAddParent
    <3>1. state[c] = "Initializing"
      <4>1. Works(Top, "init", c)
        BY <1>1, <2>1 DEF InitAddParent, Works
      <4>2. QED
        BY <1>1, <4>1, TopFrame DEF IInv, Marked
    <3>2. anc' = anc \/ \E list : anc' = [anc EXCEPT ![c] = list]
      BY <2>1 DEF InitAddParent
    <3>3. anc \in [Classes -> Seq(Classes)]
      BY DEF IInv, Typed
    <3>4. QED
      BY <1>1, <3>1, <3>2, <3>3
  <2>2. CASE ~InitAddParent
    BY <2>2 DEF InitStep, InitEnter, InitParent, InitFail, InitDone, defVars
  <2>3. QED
    BY <2>1, <2>2
<1>4. \A x \in Classes : state'[x] = "Resolved" => state[x] = "Resolved"
  <2>1. state' = state \/ \E s \in {"Initializing", "Unresolvable", "Initialized"} : state' = [state EXCEPT ![c] = s]
    BY DEF InitStep, InitEnter, InitParent, InitAddParent, InitFail, InitDone, SetState
  <2>2. QED
    BY <1>1, <2>1
<1>5. Grows /\ StackWhole
  BY <1>1, <1>2, <1>3, ItGrows DEF WInv
<1>6. ASSUME NEW fr, fr.fun = "init", Continue(fr) PROVE StackWhole'
  <2>1. Same(fr, Top)  /\ Listed(fr, Classes \cup Defs) /\ Progress(fr, {}, Good', Needs', FunsOf', Props')
        /\ Served(fr, Running, Good', Props')
    BY <1>1, <1>6, InitFrames DEF Same
  <2>2. QED
    BY <1>5, <1>6, <2>1, WContinue
<1>7. ASSUME NEW type, Return(type) PROVE StackWhole'
  <2>1. Answered(Top) = {}
    BY <1>1, InitFrames
  <2>2. QED
    BY <1>1, <1>5, <1>7, <2>1, WReturn
<1>8. StackWhole'
  <2>1. CASE InitEnter
    <3>1. [Top EXCEPT !.at = 1].fun = "init"
      BY <1>1
    <3>2. Return(True) \/ Return(False) \/ Continue([Top EXCEPT !.at = 1])
      BY <2>1 DEF InitEnter
    <3>3. QED
      BY <1>6, <1>7, <3>1, <3>2
  <2>2. CASE InitParent
    <3>1. PICK path : Call(Top, TypeCall(path, c, 0, None, FALSE))
      BY <2>2 DEF InitParent
    <3> DEFINE callee == TypeCall(path, c, 0, None, FALSE)
    <3>2. /\ Same(Top, Top) /\ Listed(Top, Classes \cup Defs) /\ Asks(Top, callee, Props')
          /\ Progress(Top, Answered(callee), Good', Needs', FunsOf', Props')
      BY <1>1, InitFrames DEF Same
    <3>3. /\ Listed(callee, Classes \cup Defs) /\ Progress(callee, {}, Good', Needs', FunsOf', Props')
          /\ Served(callee, Running, Good', Props')
      BY CalleesWhole
    <3> HIDE DEF callee
    <3>4. Call(Top, callee)
      BY <3>1 DEF callee
    <3>5. QED
      BY <1>5, <3>2, <3>3, <3>4, WCall
  <2>3. CASE InitAddParent
    <3>1. [Top EXCEPT !.at = @ + 1].fun = "init" /\ Continue([Top EXCEPT !.at = @ + 1])
      BY <1>1, <2>3 DEF InitAddParent
    <3>2. QED
      BY <1>6, <3>1
  <2>4. CASE InitFail \/ InitDone
    BY <1>7, <2>4 DEF InitFail, InitDone
  <2>5. QED
    BY <2>1, <2>2, <2>3, <2>4 DEF InitStep
<1>9. QED
  BY <1>1, <1>2, <1>3, <1>4, <1>8, NothingNew

(* The steps of a call that resolves a class. *)
LEMMA ResolveStepWhole ==
    ASSUME IInv, WInv, StaysTyped, stack # <<>>, ResolveStep
    PROVE  WInv'
<1> DEFINE c == Top.def
           n == Len(stack)
           D == Classes \cup Defs
<1>1. /\ Top.fun = "resolve" /\ c \in Classes
      /\ Top.at \in {"init", "enter", "deps", "funs"}
      /\ {"fun", "def", "at", "todo"} \subseteq DOMAIN Top
      /\ UNCHANGED <<prog, aliased, anc>> /\ prog \in Programs
      /\ state \in [D -> States]
  BY TopFrame DEF ResolveStep, ResolveInit, ResolveEnter, ResolveNext, ResolveFuns, ResolveFun,
                  ResolveFail, ResolveDone, IsFrame, IInv, Typed, defVars
<1>2. StaysResolved
  BY ResolveStepInv
<1>3. \A d \in Classes : state[d] # "Initializing" => anc'[d] = anc[d]
  BY <1>1
<1>4. Grows /\ StackWhole
  BY <1>1, <1>2, <1>3, ItGrows DEF WInv
<1>5. /\ Good \subseteq Good' /\ Needs'[c] = Needs[c] /\ FunsOf' = FunsOf /\ Props' = Props
      /\ Defs' = Defs
  BY <1>1, <1>4, SameNeeds DEF Grows, Needs
<1>6. /\ Top.at \in {"deps", "funs"} => Top.todo \in Seq(D)
      /\ ret # False => Progress(Top, {}, Good, Needs, FunsOf, Props)
  <2>1. Listed(Top, D)
    BY TopFrame DEF IInv, WInv, StackWhole
  <2>2. QED
    BY <1>1, <2>1 DEF Listed, WInv, StackWhole
<1>7. ASSUME NEW fr, fr.fun = "resolve", fr.def = c, fr.todo \in Seq(D)
      PROVE  /\ Same(fr, Top) /\ Listed(fr, D)
             /\ \A callee, props : Asks(fr, callee, props)
             /\ \A type, good, props : Served(fr, type, good, props)
  BY <1>1, <1>7 DEF Same, Listed, Asks, Served
<1>8. ASSUME NEW type, Return(type), type # False => c \in Good' PROVE StackWhole'
  <2>1. Answered(Top) = {c}
    BY <1>1 DEF Answered
  <2>2. QED
    BY <1>1, <1>4, <1>8, <2>1, WReturn
<1> DEFINE NoNew == \A x \in Classes : state'[x] = "Resolved" => state[x] = "Resolved"
<1>9. CASE ResolveInit
  <2> DEFINE fr == [Top EXCEPT !.at = "enter"]
             callee == InitCall(c, FALSE)
  <2>1. Call(fr, callee) /\ state' = state
    BY <1>9 DEF ResolveInit
  <2>2. fr.fun = "resolve" /\ fr.def = c /\ fr.at = "enter"
    BY <1>1
  <2> HIDE DEF fr
  <2>3. Same(fr, Top) /\ Listed(fr, D) /\ Asks(fr, callee, Props')
        /\ Progress(fr, Answered(callee), Good', Needs', FunsOf', Props')
    BY <1>1, <2>2 DEF Same, Listed, Asks, Progress
  <2>4. Listed(callee, D) /\ Progress(callee, {}, Good', Needs', FunsOf', Props')
        /\ Served(callee, Running, Good', Props')
    BY CalleesWhole
  <2> HIDE DEF callee
  <2>5. StackWhole'
    BY <1>4, <2>1, <2>3, <2>4, WCall
  <2>6. QED
    BY <1>1, <1>2, <1>3, <2>1, <2>5, NothingNew
<1>10. CASE ResolveEnter
  <2>1. NoNew
    BY <1>1, <1>10 DEF ResolveEnter, SetState, WorkOn
  <2>2. StackWhole'
    <3>1. CASE Return(False)
      BY <1>8, <3>1
    <3>2. CASE Return(True) /\ state[c] = "Resolved"
      <4>1. c \in Good
        BY <1>1, <3>2 DEF Good, ResolvedClasses
      <4>2. QED
        BY <1>5, <1>8, <3>2, <4>1
    <3>3. CASE Continue([Top EXCEPT !.at = "deps", !.todo = Dependencies(c)])
      <4> DEFINE todo == Dependencies(c)
                 fr == [Top EXCEPT !.at = "deps", !.todo = todo]
      <4>1. todo \in Seq(D) /\ ToSet(todo) = Needs[c]
        <5>1. anc[c] \in Seq(Classes) /\ anc[c] \in Seq(D)
          <6>1. anc[c] \in Seq(Classes)
            BY <1>1 DEF IInv, Typed
          <6>2. QED
            BY <6>1, SeqMonotonic
        <5>4. Properties(c) \in Seq(Defs) /\ ToSet(Properties(c)) = PropsOf(c)
          BY <1>1, PropertiesIs DEF IInv
        <5>5. Properties(c) \in Seq(D)
          BY <5>4, SeqMonotonic
        <5>6. todo \in Seq(D) /\ ToSet(todo) = ToSet(anc[c]) \cup ToSet(Properties(c))
          BY <5>1, <5>5, Joined DEF Dependencies
        <5>7. QED
          BY <1>1, <5>4, <5>6 DEF Needs
      <4> HIDE DEF todo
      <4>a. fr.fun = "resolve" /\ fr.def = c /\ fr.at = "deps" /\ fr.todo = todo
        BY <1>1
      <4>3. Continue(fr)
        BY <3>3 DEF todo
      <4> HIDE DEF fr
      <4>2. Same(fr, Top) /\ Listed(fr, D) /\ Served(fr, Running, Good', Props')
        BY <1>7, <4>1, <4>a
      <4>4. Progress(fr, {}, Good', Needs', FunsOf', Props')
        BY <1>5, <4>1, <4>a DEF Progress
      <4>5. QED
        BY <1>4, <4>2, <4>3, <4>4, WContinue
    <3>4. CASE UNCHANGED <<stack, ret, state>>
      <4>1. Good' = Good /\ Needs' = Needs
        BY <1>1, <1>5, <3>4, SameNeeds DEF Good, ResolvedClasses, Needs
      <4>2. Top' = Top
        BY <3>4 DEF Top
      <4>3. QED
        BY <1>4, <1>5, <3>4, <4>1, <4>2 DEF StackWhole
    <3>5. QED
      BY <1>10, <3>1, <3>2, <3>3, <3>4 DEF ResolveEnter
  <2>3. QED
    BY <1>1, <1>2, <1>3, <2>1, <2>2, NothingNew
<1>11. CASE ResolveNext \/ ResolveFun
  <2>1. PICK callee :
          /\ Call([Top EXCEPT !.todo = Tail(@)], callee)
          /\ Answered(callee) = {Head(Top.todo)} /\ Top.todo # <<>>
          /\ \/ \E e, note : callee = InitCall(e, note) \/ callee = ResolveCall(e, note)
             \/ \E d : callee = DefCall(d)
    BY <1>11 DEF ResolveNext, ResolveFun, NextOf, Answered, ResolveCall, DefCall
  <2>2. Top.at \in {"deps", "funs"} /\ ret # False /\ state' = state
    BY <1>11 DEF ResolveNext, ResolveFun
  <2> DEFINE todo == Tail(Top.todo)
             fr == [Top EXCEPT !.todo = todo]
  <2>3. todo \in Seq(D) /\ ToSet(Top.todo) = Answered(callee) \cup ToSet(todo)
    BY <1>6, <2>1, <2>2, NextAndRest
  <2> HIDE DEF todo
  <2>a. fr.fun = "resolve" /\ fr.def = c /\ fr.at = Top.at /\ fr.todo = todo
    BY <1>1
  <2>5. Call(fr, callee)
    BY <2>1 DEF todo
  <2> HIDE DEF fr
  <2>4. Same(fr, Top) /\ Listed(fr, D) /\ Asks(fr, callee, Props')
    BY <1>7, <2>3, <2>a
  <2>6. Progress(fr, Answered(callee), Good', Needs', FunsOf', Props')
    BY <1>1, <1>5, <1>6, <2>2, <2>3, <2>a DEF Progress
  <2>7. Listed(callee, D) /\ Progress(callee, {}, Good', Needs', FunsOf', Props')
        /\ Served(callee, Running, Good', Props')
    BY <2>1, CalleesWhole
  <2>8. StackWhole'
    BY <1>4, <2>4, <2>5, <2>6, <2>7, WCall
  <2>9. QED
    BY <1>1, <1>2, <1>3, <2>2, <2>8, NothingNew
<1>12. CASE ResolveFuns
  <2>1. PICK order \in SetToSeqs(ToSet(DefsOf(c, "fun"))) :
          Continue([Top EXCEPT !.at = "funs", !.todo = order])
    BY <1>12 DEF ResolveFuns
  <2>2. Top.at = "deps" /\ ret # False /\ state' = state /\ Top.todo = <<>>
    BY <1>12 DEF ResolveFuns
  <2>3. order \in Seq(D) /\ ToSet(order) = FunsOf[c]
    <3>1. DefsOf(c, "fun") \in Seq(Defs) /\ ToSet(DefsOf(c, "fun")) = FunsOf[c]
      BY <1>1, DefsOfIs DEF FunsOf
    <3>2. IsFiniteSet(ToSet(DefsOf(c, "fun")))
      BY <3>1, ElementsFinite
    <3>3. order \in Seq(FunsOf[c]) /\ ToSet(order) = FunsOf[c]
      BY <3>1, <3>2, Ordered
    <3>4. FunsOf[c] \subseteq D
      BY <1>1 DEF FunsOf
    <3>5. QED
      BY <3>3, <3>4, SeqMonotonic
  <2> DEFINE fr == [Top EXCEPT !.at = "funs", !.todo = order]
  <2>a. fr.fun = "resolve" /\ fr.def = c /\ fr.at = "funs" /\ fr.todo = order
    BY <1>1
  <2>5. Continue(fr)
    BY <2>1
  <2> HIDE DEF fr
  <2>4. Same(fr, Top) /\ Listed(fr, D) /\ Served(fr, Running, Good', Props')
    BY <1>7, <2>3, <2>a
  <2>6. Needs[c] \subseteq Good
    BY <1>1, <1>6, <2>2, NoneIn DEF Progress
  <2>7. Progress(fr, {}, Good', Needs', FunsOf', Props')
    BY <1>5, <2>3, <2>a, <2>6 DEF Progress
  <2>8. StackWhole'
    BY <1>4, <2>4, <2>5, <2>7, WContinue
  <2>9. QED
    BY <1>1, <1>2, <1>3, <2>2, <2>8, NothingNew
<1>13. CASE ResolveFail
  <2>1. NoNew
    BY <1>1, <1>13 DEF ResolveFail, SetState
  <2>2. StackWhole'
    BY <1>8, <1>13 DEF ResolveFail
  <2>3. QED
    BY <1>1, <1>2, <1>3, <2>1, <2>2, NothingNew
<1>14. CASE ResolveDone
  <2> DEFINE fr == [Top EXCEPT !.at = "values", !.todo = Properties(c), !.unions = {}]
  <2>1. Top.at = "funs" /\ ret # False /\ Top.todo = <<>> /\ Continue(fr)
        /\ state' = [state EXCEPT ![c] = "Resolved"]
    BY <1>14 DEF ResolveDone, SetState
  <2>a. fr.fun = "resolve" /\ fr.def = c /\ fr.at = "values"
    BY <1>1
  <2> HIDE DEF fr
  <2>2. Good' = Good \cup {c}
    BY <1>1, <1>5, <2>1 DEF Good, ResolvedClasses
  <2>3. Needs[c] \cup FunsOf[c] \subseteq Good
    BY <1>1, <1>6, <2>1, NoneIn DEF Progress
  <2>4. StackWhole'
    <3>1. /\ Same(fr, Top) /\ Listed(fr, D) /\ Progress(fr, {}, Good', Needs', FunsOf', Props')
          /\ Served(fr, Running, Good', Props')
      BY <1>1, <2>a DEF Same, Listed, Progress, Served
    <3>2. QED
      BY <1>4, <2>1, <3>1, WContinue
  <2>5. ClassesWhole'
    BY <1>1, <1>2, <1>4, <2>2, <2>3, KeepsClasses
  <2>6. \A d \in Props : d # c
    BY <1>1, Apart DEF Props, IInv
  <2>7. PropsSettled'
    BY <1>4, <2>2, <2>6, KeepsProps DEF WInv
  <2>8. QED
    BY <2>4, <2>5, <2>7 DEF WInv
<1>15. QED
  BY <1>9, <1>10, <1>11, <1>12, <1>13, <1>14 DEF ResolveStep

(* The steps of a call that gives default values. *)
LEMMA ValueStepWhole ==
    ASSUME IInv, VInv, WInv, StaysTyped, stack # <<>>, ValueStep
    PROVE  WInv'
<1> DEFINE c == Top.def
           d == Head(Top.todo)
           D == Classes \cup Defs
<1>1. /\ GivesValues(Top) /\ UNCHANGED <<prog, aliased, anc>> /\ IsFrame(Top, Defs)
      /\ state \in [D -> States]
  BY TopFrame DEF ValueStep, ValueNext, ValueGiven, ValueInit, ValueSet, ValueFail, ValuesDone,
                  Valuing, GivesValues, AtValues, IInv, Typed, defVars
<1>2. /\ Top.fun = "resolve" /\ {"fun", "def", "at", "todo", "unions"} \subseteq DOMAIN Top
  BY <1>1 DEF IsFrame, AtValues, GivesValues
<1>3. StaysResolved
  BY ValueStepInv
<1>4. Grows /\ StackWhole
  BY <1>1, <1>3, ItGrows DEF WInv
<1>5. \A x \in Classes : state'[x] = "Resolved" => state[x] = "Resolved"
  <2>1. state' = state \/ state' = [state EXCEPT ![d] = "Unresolvable"]
    BY DEF ValueStep, ValueNext, ValueGiven, ValueInit, ValueSet, ValueFail, ValuesDone, SetState
  <2> HIDE DEF d
  <2>2. QED
    BY <1>1, <2>1
<1>6. SUFFICES StackWhole'
  BY <1>1, <1>3, <1>5, NothingNew
<1>7. ASSUME NEW fr, fr.fun = "resolve", fr.def = c, fr.at \in AtValues,
             NEW callee, Continue(fr) \/ (New(callee) /\ Call(fr, callee))
      PROVE  StackWhole'
  <2>1. /\ Same(fr, Top) /\ Listed(fr, D) /\ Asks(fr, callee, Props')
        /\ \A answered : Progress(fr, answered, Good', Needs', FunsOf', Props')
        /\ Served(fr, Running, Good', Props')
    BY <1>2, <1>7 DEF Same, Listed, Asks, Progress, Served, AtValues
  <2>2. New(callee) => /\ Listed(callee, D) /\ Progress(callee, {}, Good', Needs', FunsOf', Props')
                       /\ Served(callee, Running, Good', Props')
    BY CalleesWhole DEF New
  <2>3. QED
    BY <1>4, <1>7, <2>1, <2>2, WContinue, WCall
<1>8. ASSUME NEW unions, Continue(NextValue(unions)) PROVE StackWhole'
  <2> DEFINE fr == NextValue(unions)
  <2>1. fr.fun = "resolve" /\ fr.def = c /\ fr.at = "values"
    BY <1>2 DEF NextValue
  <2> HIDE DEF fr
  <2>2. Continue(fr)
    BY <1>8 DEF fr
  <2>3. QED
    BY <1>7, <2>1, <2>2 DEF AtValues
<1>9. CASE ValueNext /\ d[1] \in Top.unions
  BY <1>8, <1>9 DEF ValueNext
<1>10. CASE ValueNext /\ d[1] \notin Top.unions
  <2> DEFINE fr == [Top EXCEPT !.at = "prop", !.unions = @ \cup ({d[1]} \cap prog.unions)]
  <2>1. Call(fr, DefCall(d)) /\ New(DefCall(d))
    BY <1>10 DEF ValueNext, New
  <2>2. fr.fun = "resolve" /\ fr.def = c /\ fr.at = "prop"
    BY <1>2
  <2> HIDE DEF fr
  <2>3. QED
    BY <1>7, <2>1, <2>2 DEF AtValues
<1>11. CASE ValueGiven \/ ValueSet \/ ValueFail
  BY <1>8, <1>11 DEF ValueGiven, ValueSet, ValueFail
<1>12. CASE ValueInit
  <2> DEFINE fr == [Top EXCEPT !.at = "value"]
             callee == TypeCall(Def(d).init, d[1], d[2], None, TRUE)
  <2>1. Call(fr, callee) /\ New(callee)
    BY <1>12 DEF ValueInit, New
  <2>2. fr.fun = "resolve" /\ fr.def = c /\ fr.at = "value"
    BY <1>2
  <2> HIDE DEF fr, callee
  <2>3. QED
    BY <1>7, <2>1, <2>2 DEF AtValues
<1>13. CASE ValuesDone
  <2>1. Return(True)
    BY <1>13 DEF ValuesDone
  <2>2. Gives(Top, ResolvedClasses, Missing, prog.unions, aborted)
    BY TopFrame DEF VInv, IInv
  <2>3. Answered(Top) \subseteq Good'
    BY <1>1, <1>2, <1>4, <2>2 DEF Gives, Answered, Good, Grows
  <2>4. QED
    BY <1>2, <1>4, <2>1, <2>3, WReturn
<1>14. QED
  BY <1>9, <1>10, <1>11, <1>12, <1>13 DEF ValueStep

(* The steps of a call that resolves a definition. *)
LEMMA DefStepWhole ==
    ASSUME IInv, TInv, WInv, StaysTyped, stack # <<>>, DefStep
    PROVE  WInv'
<1> DEFINE d == Top.def
           D == Classes \cup Defs
<1>1. /\ Top.fun = "def" /\ d \in Defs /\ Top.type \in TypesOf
      /\ {"fun", "def", "at", "type"} \subseteq DOMAIN Top
      /\ UNCHANGED <<prog, anc>> /\ state \in [D -> States]
      /\ ret \in TypesOf
  BY TopFrame DEF DefStep, DefEnter, DefDim, DefFail, DefDone, IsFrame, IInv, Typed, defVars
<1>2. StaysResolved
  BY DefStepInv
<1>3. \A c \in Classes : state[c] # "Initializing" => anc'[c] = anc[c]
  BY <1>1
<1>4. Grows /\ StackWhole
  BY <1>1, <1>2, <1>3, ItGrows DEF WInv
<1>5. Good \subseteq Good' /\ Props' = Props /\ Defs' = Defs /\ Classes \cap Defs = {}
  BY <1>4, Apart DEF Grows, IInv
<1>6. ret # False =>
        /\ Progress(Top, {}, Good, Needs, FunsOf, Props)
        /\ Served(Top, ret, Good, Props)
  BY <1>4 DEF StackWhole
<1>7. ASSUME NEW fr, fr.fun = "def", fr.def = d
      PROVE  Same(fr, Top) /\ Listed(fr, D)
  BY <1>1, <1>7 DEF Same, Listed
<1>8. ASSUME NEW type, Return(type), type # False => d \in Good' PROVE StackWhole'
  <2>1. Answered(Top) = {d}
    BY <1>1 DEF Answered
  <2>2. QED
    BY <1>1, <1>4, <1>8, <2>1, WReturn
<1>9. ASSUME NEW fr, fr.fun = "def", fr.def = d, NEW path, NEW c, NEW i, NEW except, NEW full,
             Call(fr, TypeCall(path, c, i, except, full)),
             fr.at = "type" /\ d \in Props => full,
             fr.at = "dim" /\ d \in Props => Settled(fr.type, Good')
      PROVE  StackWhole'
  <2> DEFINE callee == TypeCall(path, c, i, except, full)
  <2>1. Call(fr, callee) /\ callee.fun = "type" /\ callee.full = full
    BY <1>9 DEF TypeCall
  <2>2. Listed(callee, D) /\ Progress(callee, {}, Good', Needs', FunsOf', Props')
        /\ Served(callee, Running, Good', Props')
    BY CalleesWhole
  <2> HIDE DEF callee
  <2>3. Asks(fr, callee, Props') /\ Progress(fr, Answered(callee), Good', Needs', FunsOf', Props')
    BY <1>5, <1>9, <2>1 DEF Asks, Progress
  <2>4. Same(fr, Top) /\ Listed(fr, D)
    BY <1>7, <1>9
  <2>5. QED
    BY <1>4, <2>1, <2>2, <2>3, <2>4, WCall
<1> DEFINE NoNew == \A x \in Classes : state'[x] = "Resolved" => state[x] = "Resolved"
<1>10. CASE DefEnter
  <2>1. NoNew /\ aliased' = aliased
    BY <1>1, <1>5, <1>10 DEF DefEnter, CheckState, SetState, WorkOn, defVars
  <2>2. StackWhole'
    <3>1. CASE Return(False)
      BY <1>8, <3>1
    <3>2. CASE Return(aliased[d]) /\ state[d] = "Resolved"
      <4>1. d \in Good
        BY <1>1, <3>2 DEF Good, TInv
      <4>2. QED
        BY <1>5, <1>8, <3>2, <4>1
    <3>3. CASE state[d] = "NotResolved"
      <4> DEFINE fr == [Top EXCEPT !.at = "type"]
      <4>1. PICK path, i, except : Call(fr, TypeCall(path, d[1], i, except, Def(d).kind = "prop"))
        BY <1>10, <3>3 DEF DefEnter
      <4>2. fr.fun = "def" /\ fr.def = d /\ fr.at = "type"
        BY <1>1
      <4>3. d \in Props => Def(d).kind = "prop"
        BY DEF Props
      <4> HIDE DEF fr
      <4>4. QED
        BY <1>9, <4>1, <4>2, <4>3
    <3>4. QED
      BY <1>10, <3>1, <3>2, <3>3 DEF DefEnter, CheckState
  <2>3. QED
    BY <1>1, <1>2, <1>3, <2>1, <2>2, NothingNew
<1>11. CASE DefDim
  <2> DEFINE fr == [Top EXCEPT !.at = "dim", !.type = ret]
  <2>1. PICK path, i : Call(fr, TypeCall(path, d[1], i, None, TRUE))
    BY <1>11 DEF DefDim
  <2>2. Top.at = "type" /\ ret # False /\ UNCHANGED <<state, aliased>>
    BY <1>11 DEF DefDim, False, defVars
  <2>3. fr.fun = "def" /\ fr.def = d /\ fr.at = "dim" /\ fr.type = ret
    BY <1>1
  <2> HIDE DEF fr
  <2>4. d \in Props => Settled(ret, Good')
    BY <1>1, <1>5, <1>6, <2>2 DEF Served, Settled
  <2>5. StackWhole'
    BY <1>9, <2>1, <2>3, <2>4
  <2>6. QED
    BY <1>1, <1>2, <1>3, <2>2, <2>5, NothingNew
<1>12. CASE DefFail
  <2>1. NoNew /\ aliased' = aliased
    BY <1>1, <1>12 DEF DefFail, SetState, defVars
  <2>2. StackWhole'
    BY <1>8, <1>12 DEF DefFail
  <2>3. QED
    BY <1>1, <1>2, <1>3, <2>1, <2>2, NothingNew
<1>13. CASE DefDone
  <2> DEFINE type == IF Top.at = "dim" THEN ArrayOf(Top.type) ELSE ret
  <2>1. /\ state' = [state EXCEPT ![d] = "Resolved"] /\ aliased' = [aliased EXCEPT ![d] = type]
        /\ Return(aliased'[d]) /\ ret # False
    BY <1>13 DEF DefDone, SetState, False
  <2>2. Good' = Good \cup {d}
    <3>1. type # NoType
      <4>1. ArrayOf(Top.type).of \in {"int", "array"}
        BY <1>1 DEF ArrayOf, TypesOf
      <4>2. NoType.of \notin {"int", "array"}
        BY DEF NoType
      <4>3. QED
        BY <2>1, <4>1, <4>2 DEF False
    <3>2. aliased \in [Defs -> TypesOf]
      BY DEF IInv, Typed
    <3> HIDE DEF type
    <3>3. ResolvedClasses' = ResolvedClasses
      BY <1>1, <1>5, <2>1 DEF ResolvedClasses
    <3>4. QED
      BY <1>1, <1>5, <2>1, <3>1, <3>2, <3>3 DEF Good
  <2>3. StackWhole'
    BY <1>8, <2>1, <2>2
  <2>4. d \in Props => Settled(type, Good')
    <3>1. CASE Top.at = "dim"
      <4>1. ArrayOf(Top.type).cls = Top.type.cls
        BY <1>1 DEF ArrayOf, TypesOf
      <4>2. d \in Props => Top.type.cls \in Good \cup {None}
        BY <1>1, <1>6, <2>1, <3>1 DEF Progress, Settled
      <4>3. QED
        BY <1>5, <3>1, <4>1, <4>2 DEF Settled
    <3>2. CASE Top.at # "dim"
      <4>1. Top.at = "type"
        <5>1. Top.at \in {"enter", "type", "dim"}
          BY <1>1, TopFrame DEF IsFrame, IInv
        <5>2. Top.at # "enter"
          BY <1>1, <1>13, TopFrame DEF DefDone, Returned, IInv, Stacked, Unchecked
        <5>3. QED
          BY <3>2, <5>1, <5>2
      <4>2. d \in Props => ret.cls \in Good \cup {None}
        BY <1>1, <1>6, <2>1, <4>1 DEF Served, Settled
      <4>3. QED
        BY <1>5, <3>2, <4>2 DEF Settled
    <3>3. QED
      BY <3>1, <3>2
  <2>5. aliased'[d] = type
    <3>1. DOMAIN aliased = Defs
      BY DEF IInv, Typed
    <3> HIDE DEF type
    <3>2. QED
      BY <1>1, <2>1, <3>1
  <2> HIDE DEF type
  <2>6. PropsSettled'
    BY <1>4, <2>2, <2>4, <2>5, KeepsProps DEF WInv
  <2>7. \A c \in Classes : c \in Good' => c \in Good
    BY <1>1, <1>5, <2>2
  <2>8. ClassesWhole'
    BY <1>2, <1>4, <2>7, KeepsClasses
  <2>9. QED
    BY <2>3, <2>6, <2>8 DEF WInv
<1>14. QED
  BY <1>10, <1>11, <1>12, <1>13 DEF DefStep

(* The steps of a call that looks a type up. *)
LEMMA TypeStepWhole ==
    ASSUME IInv, WInv, StaysTyped, stack # <<>>, TypeStep
    PROVE  WInv'
<1> DEFINE D == Classes \cup Defs
<1>1. /\ Top.fun = "type" /\ UNCHANGED <<prog, state, aliased, anc>> /\ Top.type \in TypesOf
      /\ {"fun", "cls", "type", "at", "n"} \subseteq DOMAIN Top
  BY TopFrame DEF TypeStep, TypeBuiltin, TypeInScope, TypeInScopeDone, TypeExport, TypePrepare,
                  TypePrepared, TypeUnprepared, TypeClass, TypeMember, TypeMemberDone, defVars,
                  IInv, IsFrame
<1>2. StaysResolved
  BY TypeStepInv
<1>3. \A c \in Classes : state[c] # "Initializing" => anc'[c] = anc[c]
  BY <1>1
<1>4. Grows /\ StackWhole
  BY <1>1, <1>2, <1>3, ItGrows DEF WInv
<1>5. Good \subseteq Good' /\ "full" \in DOMAIN Top
  <2>1. Listed(Top, D)
    BY <1>4, TopFrame DEF IInv, StackWhole
  <2>2. QED
    BY <1>1, <1>4, <2>1 DEF Grows, Listed
<1>6. SUFFICES StackWhole'
  BY <1>1, <1>2, <1>3, NothingNew
<1>7. ASSUME NEW type, Return(type), type # False /\ Top.full => Settled(type, Good') PROVE StackWhole'
  <2>1. Answered(Top) = {}
    BY <1>1 DEF Answered
  <2>2. QED
    BY <1>1, <1>4, <1>7, <2>1, WReturn
<1>8. ASSUME NEW fr, fr.fun = "type", fr.full = Top.full, "full" \in DOMAIN fr
      PROVE  /\ Same(fr, Top) /\ Listed(fr, D)
             /\ \A answered, good, needs, funs, props : Progress(fr, answered, good, needs, funs, props)
             /\ \A good, props : Served(fr, Running, good, props)
  BY <1>1, <1>8 DEF Same, Listed, Progress, Served
<1>9. ASSUME NEW fr, fr.fun = "type", fr.full = Top.full, "full" \in DOMAIN fr, Continue(fr)
      PROVE  StackWhole'
  <2>1. /\ Same(fr, Top) /\ Listed(fr, D) /\ Progress(fr, {}, Good', Needs', FunsOf', Props')
        /\ Served(fr, Running, Good', Props')
    BY <1>8, <1>9
  <2>2. QED
    BY <1>4, <1>9, <2>1, WContinue
<1>10. ASSUME NEW fr, fr.fun = "type", fr.full = Top.full, "full" \in DOMAIN fr,
              NEW callee, Call(fr, callee),
              \/ \E c, note : callee = InitCall(c, note) \/ callee = ResolveCall(c, note)
              \/ \E d : callee = DefCall(d),
              fr.full /\ fr.at = "prepare" => callee.fun = "resolve" /\ callee.def = fr.type.cls
       PROVE  StackWhole'
  <2>1. /\ Same(fr, Top) /\ Listed(fr, D) /\ Progress(fr, Answered(callee), Good', Needs', FunsOf', Props')
    BY <1>8, <1>10
  <2>2. Asks(fr, callee, Props')
    BY <1>10 DEF Asks
  <2>3. Listed(callee, D) /\ Progress(callee, {}, Good', Needs', FunsOf', Props')
        /\ Served(callee, Running, Good', Props')
    BY <1>10, CalleesWhole
  <2>4. QED
    BY <1>4, <1>10, <2>1, <2>2, <2>3, WCall
<1>11. CASE TypeBuiltin
  <2>1. Return(IntType) /\ IntType.cls = None
    BY <1>11 DEF TypeBuiltin, IntType
  <2>2. QED
    BY <1>7, <2>1 DEF Settled
<1>12. CASE TypeInScope
  <2>1. PICK d : Call(Top, DefCall(d))
    BY <1>12 DEF TypeInScope
  <2>2. Top.at = "spec"
    BY <1>12 DEF TypeInScope
  <2>3. QED
    BY <1>1, <1>5, <1>10, <2>1, <2>2
<1>13. ASSUME NEW fr, Continue(fr),
              \/ \E type, at : fr = [Top EXCEPT !.at = at, !.type = type]
              \/ \E at : fr = [Top EXCEPT !.at = at]
              \/ \E type : fr = AtNext(type)
       PROVE  StackWhole'
  <2>1. fr.fun = "type" /\ fr.full = Top.full /\ "full" \in DOMAIN fr
    BY <1>1, <1>5, <1>13 DEF AtNext
  <2>2. QED
    BY <1>9, <1>13, <2>1
<1>14. ASSUME Return(NoType) PROVE StackWhole'
  BY <1>7, <1>14 DEF False
<1>15. CASE TypeInScopeDone
  BY <1>13, <1>15 DEF TypeInScopeDone
<1>16. CASE TypeExport
  BY <1>13, <1>14, <1>16 DEF TypeExport, FailType
<1>17. CASE TypePrepare
  <2>1. PICK callee \in Needed : Call(Top, callee)
    BY <1>17 DEF TypePrepare
  <2>2. CASE Top.full /\ Top.type.cls # None
    <3>1. callee = ResolveCall(Top.type.cls, TRUE)
      BY <2>1, <2>2 DEF Needed
    <3>2. callee.fun = "resolve" /\ callee.def = Top.type.cls
      BY <3>1 DEF ResolveCall
    <3>3. QED
      BY <1>1, <1>5, <1>10, <2>1, <3>1, <3>2
  <2>3. CASE ~Top.full /\ Top.type.of = "class"
    <3>1. callee = InitCall(Top.type.cls, TRUE)
      BY <2>1, <2>3 DEF Needed
    <3>2. QED
      BY <1>1, <1>5, <1>10, <2>1, <2>3, <3>1
  <2>4. QED
    BY <2>1, <2>2, <2>3 DEF Needed
<1>18. CASE TypePrepared
  <2>1. CASE Top.n = Len(Top.path)
    <3>1. Return(Top.type) /\ Top.at = "prepare" /\ IF Returned THEN ret # False ELSE Needed = {}
      BY <1>18, <2>1 DEF TypePrepared
    <3>2. ASSUME Top.full PROVE Settled(Top.type, Good')
      <4>1. CASE Returned
        <5>1. Served(Top, ret, Good, Props)
          BY <1>4, <3>1, <4>1 DEF StackWhole
        <5>2. QED
          BY <1>1, <1>5, <3>1, <3>2, <4>1, <5>1 DEF Served, Settled, Returned
      <4>2. CASE ~Returned
        <5>1. Top.type.cls = None
          BY <3>1, <3>2, <4>2 DEF Needed
        <5>2. QED
          BY <5>1 DEF Settled
      <4>3. QED
        BY <4>1, <4>2
    <3>3. QED
      BY <1>7, <3>1, <3>2
  <2>2. CASE Top.n # Len(Top.path)
    <3>1. Continue([Top EXCEPT !.at = "class"])
      BY <1>18, <2>2 DEF TypePrepared
    <3>2. QED
      BY <1>13, <3>1
  <2>3. QED
    BY <2>1, <2>2
<1>19. CASE TypeUnprepared
  BY <1>14, <1>19 DEF TypeUnprepared, FailType
<1>20. CASE TypeClass
  <2>1. CASE Top.type.of = "class"
    <3>1. Call(Top, InitCall(Top.type.cls, TRUE)) /\ Top.at = "class"
      BY <1>20, <2>1 DEF TypeClass
    <3>2. QED
      BY <1>1, <1>5, <1>10, <3>1
  <2>2. CASE Top.type.of # "class"
    BY <1>14, <1>20, <2>2 DEF TypeClass, FailType
  <2>3. QED
    BY <2>1, <2>2
<1>21. CASE TypeMember
  <2> DEFINE fr == [Top EXCEPT !.at = "member"]
  <2>1. \/ \E d : Call(fr, DefCall(d))
        \/ Continue(AtNext(ClassType(NextName)))
        \/ Return(NoType)
    BY <1>21 DEF TypeMember, FailType
  <2>2. fr.fun = "type" /\ fr.full = Top.full /\ "full" \in DOMAIN fr /\ fr.at = "member"
    BY <1>1, <1>5
  <2> HIDE DEF fr
  <2>3. ASSUME NEW d, Call(fr, DefCall(d)) PROVE StackWhole'
    BY <1>10, <2>2, <2>3
  <2>4. QED
    BY <1>13, <1>14, <2>1, <2>3
<1>22. CASE TypeMemberDone
  BY <1>13, <1>14, <1>22 DEF TypeMemberDone
<1>23. QED
  BY <1>11, <1>12, <1>15, <1>16, <1>17, <1>18, <1>19, <1>20, <1>21, <1>22 DEF TypeStep

(* The steps between the calls. *)
LEMMA IdleStepWhole ==
    ASSUME IInv, WInv, StaysTyped,
           InitModules \/ ResolveSome \/ ResolvedSome \/ ResolveRest \/ RestNext
    PROVE  WInv'
<1>1. /\ stack = <<>> /\ UNCHANGED <<prog, state, aliased, anc>>
  BY DEF InitModules, ResolveSome, ResolvedSome, ResolveRest, RestNext, Idle, defVars
<1>2. StaysResolved
  BY IdleStepInv
<1>3. \/ stack' = <<>>
      \/ /\ ret' = Running
         /\ \/ \E c, note : stack' = <<InitCall(c, note)>> \/ stack' = <<ResolveCall(c, note)>>
            \/ \E d : stack' = <<DefCall(d)>>
  BY <1>1 DEF InitModules, ResolveSome, ResolvedSome, ResolveRest, RestNext, Returned
<1>4. StackWhole'
  <2>1. CASE stack' = <<>>
    <3>1. DOMAIN stack' = {}
      BY <2>1
    <3>2. QED
      BY <2>1, <3>1 DEF StackWhole
  <2>2. ASSUME ret' = Running, NEW callee, stack' = <<callee>>,
               \/ \E c, note : callee = InitCall(c, note) \/ callee = ResolveCall(c, note)
               \/ \E d : callee = DefCall(d)
        PROVE  StackWhole'
    <3>1. /\ Listed(callee, Classes \cup Defs) /\ Progress(callee, {}, Good', Needs', FunsOf', Props')
          /\ Served(callee, Running, Good', Props')
      BY <2>2, CalleesWhole
    <3>2. QED
      BY <1>1, <2>2, <3>1, WStart
  <2>3. QED
    BY <1>3, <2>1, <2>2
<1>5. QED
  BY <1>1, <1>2, <1>4, NothingNew

(* Nothing is resolved at first. *)
LEMMA InitWhole == Init => WInv
<1> SUFFICES ASSUME Init PROVE WInv
  OBVIOUS
<1>1. Good = {}
  BY DEF Init, Good, ResolvedClasses
<1>3. stack = <<>> /\ DOMAIN stack = {}
  BY DEF Init
<1>4. QED
  BY <1>1, <1>3 DEF WInv, StackWhole, PropsSettled, ClassesWhole

(* No step breaks it. *)
LEMMA StepWhole == IInv /\ TInv /\ VInv /\ WInv /\ [Next]_vars => WInv'
<1> SUFFICES ASSUME IInv, TInv, VInv, WInv, [Next]_vars PROVE WInv'
  OBVIOUS
<1>0. StaysTyped
  BY StepTypes
<1>1. CASE UNCHANGED vars
  <2>1. UNCHANGED <<prog, state, aliased, anc, stack, ret>>
    BY <1>1 DEF vars
  <2>2. /\ Defs' = Defs /\ Good' = Good /\ Props' = Props /\ FunsOf' = FunsOf /\ Needs' = Needs
        /\ Top' = Top /\ \A c : DependsOn(c)' = DependsOn(c)
    BY <2>1, SameDefs DEF Good, ResolvedClasses, Props, Def, FunsOf, Needs, PropsOf, Top, DependsOn
  <2>3. QED
    BY <2>1, <2>2 DEF WInv, StackWhole, PropsSettled, ClassesWhole
<1>2. CASE stack # <<>> /\ InitStep
  BY <1>0, <1>2, InitStepWhole
<1>3. CASE stack # <<>> /\ ResolveStep
  BY <1>0, <1>3, ResolveStepWhole
<1>4. CASE stack # <<>> /\ DefStep
  BY <1>0, <1>4, DefStepWhole
<1>5. CASE stack # <<>> /\ TypeStep
  BY <1>0, <1>5, TypeStepWhole
<1>6. CASE InitModules \/ ResolveSome \/ ResolvedSome \/ ResolveRest \/ RestNext
  BY <1>0, <1>6, IdleStepWhole
<1>7. CASE stack # <<>> /\ ValueStep
  BY <1>0, <1>7, ValueStepWhole
<1>8. QED
  BY <1>1, <1>2, <1>3, <1>4, <1>5, <1>6, <1>7 DEF Next, Idle

(* Then every resolved class is complete. *)
LEMMA WholeIsComplete == IInv /\ TInv /\ VInv /\ WInv => ResolvedIsComplete
<1> SUFFICES ASSUME IInv, TInv, VInv, WInv, NEW c \in Classes, state[c] = "Resolved"
             PROVE  /\ \A d \in PropsOf(c) : HasType(d)
                    /\ \A b \in DependsOn(c) : state[b] = "Resolved" /\ c \notin DependsOn(b) /\ b # c
                    /\ \A d \in PropsOf(c) : d \in valued \/ d[1] \in prog.unions
                                              \/ BeingValued(c) \/ aborted
  BY DEF ResolvedIsComplete
<1>1. c \in Good /\ c \in ResolvedClasses
  BY DEF Good, ResolvedClasses
<1>2. Needs[c] \subseteq Good /\ \A b \in DependsOn(c) : b # c /\ c \notin DependsOn(b)
  BY <1>1 DEF WInv, ClassesWhole
<1>3. DependsOn(c) \subseteq Good
  BY <1>2, DependsOnGood DEF WInv
<1>4. DependsOn(c) \subseteq Classes
  <2>1. ToSet(anc[c]) \subseteq Classes
    BY DEF IInv, Typed, ToSet
  <2>2. \A d \in Defs : aliased[d].cls \in Classes \cup {None}
    BY DEF IInv, Typed, TypesOf
  <2>3. QED
    BY <2>1, <2>2 DEF DependsOn, PropsOf
<1>5. \A d \in PropsOf(c) : HasType(d)
  <2>1. \A d \in PropsOf(c) : d \in Defs /\ aliased[d] # NoType
    BY <1>2, Apart DEF Needs, PropsOf, Good, ResolvedClasses, IInv
  <2>2. QED
    BY <2>1 DEF TInv, HasType
<1>6. \A b \in DependsOn(c) : state[b] = "Resolved"
  BY <1>3, <1>4, Apart DEF Good, ResolvedClasses, IInv
<1>7. \A d \in PropsOf(c) : d \in valued \/ d[1] \in prog.unions \/ BeingValued(c) \/ aborted
  BY <1>1 DEF VInv, Missing
<1>8. QED
  BY <1>2, <1>5, <1>6, <1>7

(* A resolved class has all that its size is computed from, and once its   *)
(* default values have been given each of its properties that is not of a  *)
(* union has one, in whatever order its definitions were come to and       *)
(* whatever failed on the way.                                             *)
THEOREM Complete == Spec => []ResolvedIsComplete
<1>1. IInv /\ [Next]_vars => IInv'
  BY StepInv
<1>2. IInv /\ TInv /\ [Next]_vars => TInv'
  BY StepTypes
<1>3. QED
  BY <1>1, <1>2, InitInv, InitTypes, InitValues, InitWhole, StepValues, StepWhole,
     WholeIsComplete, PTL DEF Spec

-----------------------------------------------------------------------------
(* The classes that a class leads to: what its text mentions, what is      *)
(* mentioned there, and nothing else.                                      *)
Closes(S) == \A d \in S : Mentions(d) \subseteq S

LEMMA ReachIs ==
    ASSUME NEW c \in Classes
    PROVE  /\ Mentions(c) \subseteq Reach(c) /\ Reach(c) \subseteq Classes
           /\ Closes(Reach(c))
           /\ \A S \in SUBSET Classes : Mentions(c) \subseteq S /\ Closes(S) => Reach(c) \subseteq S
<1> DEFINE n == Cardinality(Classes)
           step(S) == S \cup UNION {Mentions(d) : d \in S}
           F(f) == [k \in 0..n |-> IF k = 0 THEN Mentions(c) ELSE step(f[k - 1])]
           after == CHOOSE f : f = F(f)
           P == SUBSET Classes
<1>1. n \in Nat /\ Reach(c) = after[n]
  BY ClassesAssumption, FS_CardinalityType DEF Reach
<1>2. \A d : Mentions(d) \in P
  <2>1. ASSUME NEW d PROVE Mentions(d) \subseteq Classes
    <3> DEFINE paths == {prog.parents[d][i] : i \in DOMAIN prog.parents[d]}
                          \cup {Def(<<d, i>>).path : i \in Members(d)}
                          \cup {Def(<<d, i>>).dim : i \in Members(d)}
                          \cup {Def(<<d, i>>).init : i \in Members(d)}
               named == UNION {ToSet(p) : p \in paths}
    <3>1. Mentions(d) = named \cap Classes
      BY DEF Mentions
    <3> HIDE DEF named
    <3>2. QED
      BY <3>1
  <2>2. QED
    BY <2>1
<1>3. \A S \in P : step(S) \in P
  BY <1>2
<1> HIDE DEF n, P
<1>4. after = F(after)
  <2> DEFINE g == [k \in 1 .. n |-> [S \in P |-> step(S)]]
  <2> HIDE DEF step
  <2>1. Steps(g, n, P)
    BY <1>3 DEF Steps
  <2>2. PICK f : Results(f, g, n, P, Mentions(c))
    <3> HIDE DEF g
    <3>1. QED
      BY <1>1, <1>2, <2>1, Iteration
  <2>3. \A k \in 0 .. n : f[k] = IF k = 0 THEN Mentions(c) ELSE step(f[k - 1])
    <3> SUFFICES ASSUME NEW k \in 0 .. n, k # 0 PROVE f[k] = step(f[k - 1])
      BY <2>2 DEF Results
    <3>1. k \in 1 .. n /\ f[k - 1] \in P
      BY <1>1, <2>2 DEF Results
    <3>2. QED
      BY <2>2, <3>1 DEF Results
  <2>4. f = F(f)
    BY <2>2, <2>3 DEF Results
  <2> HIDE DEF F
  <2>5. QED
    BY <2>4
<1>5. after[0] = Mentions(c) /\ \A k \in 1 .. n : after[k] = step(after[k - 1])
  <2> HIDE DEF after, step
  <2>1. 0 \in 0 .. n /\ \A k \in 1 .. n : k \in 0 .. n /\ k # 0
    BY <1>1
  <2>2. F(after)[0] = Mentions(c)
    BY <2>1
  <2>3. \A k \in 1 .. n : F(after)[k] = step(after[k - 1])
    BY <2>1
  <2> HIDE DEF F
  <2>4. QED
    BY <1>4, <2>2, <2>3
<1> HIDE DEF after
<1>6. ASSUME NEW S \in P, Closes(S) PROVE step(S) = S
  BY <1>6 DEF Closes
<1>7. \A S \in P : IsFiniteSet(S) /\ Cardinality(S) \in Nat
  BY ClassesAssumption, FS_Subset, FS_CardinalityType DEF P
<1> DEFINE N == {k \in 0 .. n : /\ after[k] \in P /\ Mentions(c) \subseteq after[k]
                                /\ Closes(after[k]) \/ Cardinality(after[k]) >= k}
<1>8. 0 \in N
  <2>1. after[0] \in P /\ Cardinality(after[0]) >= 0
    BY <1>2, <1>5, <1>7
  <2>2. QED
    BY <1>1, <1>5, <2>1
<1>9. ASSUME NEW k \in 1 .. n, k - 1 \in N PROVE k \in N
  <2>1. PICK S : S = after[k - 1]
    OBVIOUS
  <2>2. PICK T : T = step(S)
    OBVIOUS
  <2>3. /\ S \in P /\ T \in P /\ after[k] = T /\ Mentions(c) \subseteq S /\ S \subseteq T
        /\ Closes(S) \/ Cardinality(S) >= k - 1
    BY <1>3, <1>5, <1>9, <2>1, <2>2
  <2>4. CASE Closes(S)
    <3>1. T = S /\ k \in 0 .. n
      BY <1>1, <1>6, <1>9, <2>2, <2>3, <2>4
    <3>2. QED
      BY <2>3, <2>4, <3>1
  <2>5. CASE ~Closes(S)
    <3>1. S # T
      <4>1. PICK d \in S : ~(Mentions(d) \subseteq S)
        BY <2>5 DEF Closes
      <4>2. QED
        BY <2>2, <4>1
    <3>2. Cardinality(S) < Cardinality(T)
      BY <1>7, <2>3, <3>1, FS_Subset
    <3>3. Cardinality(T) >= k
      BY <1>7, <1>9, <2>3, <2>5, <3>2
    <3>4. QED
      BY <2>3, <3>3
  <2>6. QED
    BY <2>4, <2>5
<1>10. 0 .. n \subseteq N
  <2> HIDE DEF N
  <2>1. QED
    BY <1>1, <1>8, <1>9, CountingUp
<1>11. PICK R : R = after[n]
  OBVIOUS
<1>12. R \in P /\ Mentions(c) \subseteq R /\ (Closes(R) \/ Cardinality(R) >= n)
  BY <1>1, <1>10, <1>11
<1>13. Closes(R)
  <2>1. SUFFICES ASSUME Cardinality(R) >= n PROVE R = Classes
    BY <1>2, <1>12 DEF Closes, P
  <2>2. R \subseteq Classes /\ Cardinality(R) \in Nat
    BY <1>7, <1>12 DEF P
  <2>3. R # Classes => Cardinality(R) < n
    BY <1>1, <2>2, ClassesAssumption, FS_Subset DEF n
  <2>4. QED
    BY <1>1, <2>1, <2>2, <2>3
<1>14. ASSUME NEW S \in P, Mentions(c) \subseteq S, Closes(S) PROVE R \subseteq S
  <2> DEFINE M == {k \in 0 .. n : after[k] \subseteq S}
  <2>1. 0 \in M
    BY <1>1, <1>5, <1>14
  <2>2. ASSUME NEW k \in 1 .. n, k - 1 \in M PROVE k \in M
    BY <1>5, <1>14, <2>2 DEF Closes
  <2>3. 0 .. n \subseteq M
    <3> HIDE DEF M
    <3>1. QED
      BY <1>1, <2>1, <2>2, CountingUp
  <2>4. QED
    BY <1>1, <1>11, <2>3
<1>15. QED
  BY <1>1, <1>11, <1>12, <1>13, <1>14 DEF P

(* Whatever a class leads to leads nowhere else. *)
LEMMA ReachOn ==
    ASSUME NEW c \in Classes, NEW d \in Reach(c)
    PROVE  d \in Classes /\ Reach(d) \subseteq Reach(c)
<1>1. d \in Classes /\ Reach(c) \in SUBSET Classes /\ Closes(Reach(c))
  BY ReachIs
<1>2. Mentions(d) \subseteq Reach(c)
  BY <1>1 DEF Closes
<1>3. QED
  BY <1>1, <1>2, ReachIs

LEMMA SameReach == ASSUME prog' = prog PROVE \A c : Reach(c)' = Reach(c)
<1>1. \A c : Mentions(c)' = Mentions(c)
  BY DEF Mentions, Def, Members
<1>2. ASSUME NEW c PROVE Reach(c)' = Reach(c)
  BY DEF Reach, Mentions, Def, Members
<1>3. QED
  BY <1>2

-----------------------------------------------------------------------------
(* Where the calls lead *)

(* The class whose text a call reads. *)
ClassOf(fr) == CASE fr.fun = "type" -> fr.cls
                 [] fr.fun = "def"  -> fr.def[1]
                 [] OTHER           -> fr.def

Down(c) == {c} \cup Reach(c)

(* A type that is found for a class is of one that it leads to.            *)
Under(type, c) == type.of = "class" \/ type.cls # None => type.cls \in Reach(c)

(* What the resolving of a class has on its list.                          *)
Due(x, c) == \/ x \in Classes /\ x \in Reach(c)
             \/ x \in Defs /\ x[1] \in Down(c) /\ Def(x).kind # "alias"

Downward(fr) ==
    /\ fr.fun = "type" =>
         /\ {"path", "n"} \subseteq DOMAIN fr
         /\ fr.path \in Seq(Names) /\ fr.n \in DOMAIN fr.path
         /\ fr.at \in {"class", "member"} => fr.n # Len(fr.path)
         /\ ToSet(fr.path) \cap Classes \subseteq Reach(fr.cls)
         /\ Under(fr.type, fr.cls)
         /\ fr.at \in {"prepare", "class"} => fr.type # NoType
    /\ fr.fun = "def" /\ fr.at = "dim" => fr.type # NoType /\ Under(fr.type, fr.def[1])
    /\ fr.fun = "resolve" /\ fr.at \in {"deps", "funs"} \cup AtValues =>
         \A x \in ToSet(fr.todo) : Due(x, fr.def)

(* A call leads to the classes its caller leads to, and beyond the caller's *)
(* own class when it resolves one.  Typedefs are only looked at for a name, *)
(* properties and functions only for the class.  An expression is that of a *)
(* class that has one.                                                     *)
Leads(fr, callee) ==
    /\ ClassOf(callee) \in Down(ClassOf(fr))
    /\ callee.fun = "resolve" => ClassOf(callee) \in Reach(ClassOf(fr))
    /\ callee.fun = "init" => \/ ClassOf(callee) \in Reach(ClassOf(fr))
                              \/ fr.fun = "resolve" /\ ClassOf(callee) = ClassOf(fr)
    /\ Evaluates(fr) => callee.fun = "type" /\ HasExpr(ClassOf(callee))
    /\ callee.fun = "def" =>
         IF Def(callee.def).kind = "alias"
           THEN fr.fun = "type" /\ (fr.at = "spec" \/ ClassOf(callee) \in Reach(ClassOf(fr)))
           ELSE fr.fun = "resolve"

Chain(s) ==
    \A i \in DOMAIN s : Downward(s[i]) /\ (i # Len(s) => Leads(s[i], s[i + 1]))

AncestorsUnder == \A c \in Classes : anc[c] \in Seq(Reach(c))
InheritedUnder ==
    \A c \in Classes : \A n \in DOMAIN inh[c] :
        Def(inh[c][n]).kind = "alias" /\ inh[c][n][1] \in Reach(c)
TypesUnder ==
    \A d \in Defs : Under(aliased[d], d[1]) /\ (state[d] = "Resolved" => aliased[d] # NoType)

DefStates == \A d \in Defs : state[d] \in {"NotResolved", "Resolving", "Resolved", "Unresolvable"}

DInv ==
    /\ Chain(stack)
    /\ stack # <<>> => Under(ret, ClassOf(Top))
    /\ AncestorsUnder /\ InheritedUnder /\ TypesUnder /\ DefStates

-----------------------------------------------------------------------------
(* What the program says does not change. *)
LEMMA SameText ==
    ASSUME prog' = prog
    PROVE  /\ Defs' = Defs /\ \A d : Def(d)' = Def(d)
           /\ \A c : Down(c)' = Down(c)
           /\ \A type, c : Under(type, c)' <=> Under(type, c)
           /\ \A fr : Downward(fr)' <=> Downward(fr)
           /\ \A fr, callee : Leads(fr, callee)' <=> Leads(fr, callee)
           /\ \A s : Chain(s)' <=> Chain(s)
<1>1. Defs' = Defs /\ (\A c : Reach(c)' = Reach(c)) /\ \A d : Def(d)' = Def(d)
  BY SameDefs, SameReach DEF Def
<1>2. (\A c : Down(c)' = Down(c)) /\ \A type, c : Under(type, c)' <=> Under(type, c)
  BY <1>1 DEF Down, Under
<1>3. \A x, c : Due(x, c)' <=> Due(x, c)
  BY <1>1, <1>2 DEF Due
<1>4. ASSUME NEW fr PROVE Downward(fr)' <=> Downward(fr)
  BY <1>1, <1>2, <1>3 DEF Downward
<1>e. (\A c : HasExpr(c)' <=> HasExpr(c)) /\ \A fr : Evaluates(fr)' <=> Evaluates(fr)
  BY DEF HasExpr, Evaluates, Members, Def
<1>5. ASSUME NEW fr, NEW callee PROVE Leads(fr, callee)' <=> Leads(fr, callee)
  BY <1>1, <1>2, <1>e DEF Leads, ClassOf
<1>6. ASSUME NEW s PROVE Chain(s)' <=> Chain(s)
  BY <1>4, <1>5 DEF Chain
<1>7. QED
  BY <1>1, <1>2, <1>4, <1>5, <1>6

LEMMA DownOn ==
    ASSUME NEW c \in Classes, NEW d \in Down(c)
    PROVE  /\ d \in Classes /\ Down(d) \subseteq Down(c) /\ Reach(d) \subseteq Reach(c)
           /\ \A type : Under(type, d) => Under(type, c)
<1>1. d \in Classes /\ Reach(d) \subseteq Reach(c)
  BY ReachOn DEF Down
<1>2. QED
  BY <1>1 DEF Down, Under

LEMMA ClassOfFrame ==
    ASSUME NEW fr, IsFrame(fr, Defs)
    PROVE  ClassOf(fr) \in Classes
<1>1. \A d \in Defs : d[1] \in Classes
  BY DEF Defs
<1>2. QED
  BY <1>1 DEF IsFrame, ClassOf

(* The last call goes on as fr. *)
Alike(fr, old) ==
    /\ fr.fun = old.fun
    /\ ClassOf(fr) = ClassOf(old)
    /\ fr.fun = "def" => fr.def = old.def

LEMMA DFront ==
    ASSUME IInv, DInv, stack # <<>>, NEW fr, Downward(fr), Alike(fr, Top)
    PROVE  \E s : /\ s = Append(Front(stack), fr)
                  /\ s \in Seq(ToSet(s)) /\ Len(s) = Len(stack) /\ s[Len(s)] = fr
                  /\ \A i \in 1 .. Len(stack) - 1 : s[i] = stack[i]
                  /\ Chain(s)
<1> DEFINE n == Len(stack)
<1>0. PICK s : s = Append(Front(stack), fr)
  OBVIOUS
<1>c. Chain(stack)
  BY DEF DInv
<1>1. /\ n \in Nat /\ DOMAIN stack = 1 .. n /\ Top = stack[n]
  BY TopFrame DEF IInv
<1>2. /\ s \in Seq(ToSet(s)) /\ Len(s) = n /\ DOMAIN s = 1 .. n
      /\ \A i \in 1 .. n - 1 : s[i] = stack[i]
      /\ s[n] = fr
  BY <1>0, FrontAppend DEF IInv, Stacked
<1> HIDE DEF n
<1>3. ASSUME NEW i \in DOMAIN s PROVE Downward(s[i])
  <2>1. i = n \/ i \in 1 .. n - 1
    BY <1>1, <1>2
  <2>2. QED
    BY <1>1, <1>2, <1>c, <2>1 DEF Chain, n
<1>4. ASSUME NEW i \in DOMAIN s, i # Len(s) PROVE Leads(s[i], s[i + 1])
  <2>1. i \in 1 .. n - 1 /\ i \in DOMAIN stack /\ i # n
    BY <1>1, <1>2, <1>4
  <2>2. Leads(stack[i], stack[i + 1]) /\ s[i] = stack[i]
    BY <1>2, <1>c, <2>1 DEF Chain, n
  <2>3. CASE i + 1 = n
    <3>1. s[i + 1] = fr /\ stack[i + 1] = Top
      BY <1>1, <1>2, <2>3
    <3>2. QED
      BY <2>2, <3>1 DEF Leads, Alike
  <2>4. CASE i + 1 # n
    <3>1. i + 1 \in 1 .. n - 1
      BY <1>1, <2>1, <2>4
    <3>2. QED
      BY <1>2, <2>2, <3>1
  <2>5. QED
    BY <2>3, <2>4
<1>5. QED
  BY <1>0, <1>2, <1>3, <1>4 DEF Chain, n

(* What a step makes of the stack and of what is returned. *)
Led ==
    /\ Chain(stack') /\ (stack' # <<>> => Under(ret', ClassOf(stack'[Len(stack')])))
    /\ \A i \in 1 .. Len(stack) - 1 : i \in DOMAIN stack' /\ stack'[i] = stack[i]

LEMMA RunningUnder == \A c : Under(Running, c) /\ Under(True, c) /\ Under(False, c)
BY DEF Running, True, False, IntType, NoType, Under

LEMMA DContinue ==
    ASSUME IInv, DInv, stack # <<>>, NEW fr, Downward(fr), Alike(fr, Top), Continue(fr)
    PROVE  Led
<1>1. PICK s :
        /\ s = Append(Front(stack), fr)
        /\ s \in Seq(ToSet(s)) /\ Len(s) = Len(stack) /\ s[Len(s)] = fr
        /\ \A i \in 1 .. Len(stack) - 1 : s[i] = stack[i]
        /\ Chain(s)
  BY DFront
<1>3. stack' = s /\ ret' = Running
  BY <1>1 DEF Continue
<1>4. Len(stack) \in Nat /\ DOMAIN s = 1 .. Len(stack)
  BY <1>1, LenProperties, TopFrame DEF IInv
<1>5. QED
  BY <1>1, <1>3, <1>4, RunningUnder DEF Led

LEMMA DCall ==
    ASSUME IInv, DInv, stack # <<>>, NEW fr, Downward(fr), Alike(fr, Top),
           NEW callee, Downward(callee), Leads(fr, callee), Call(fr, callee)
    PROVE  Led /\ Len(stack) \in DOMAIN stack' /\ stack'[Len(stack)] = fr
<1>1. PICK s :
        /\ s = Append(Front(stack), fr)
        /\ s \in Seq(ToSet(s)) /\ Len(s) = Len(stack) /\ s[Len(s)] = fr
        /\ \A i \in 1 .. Len(stack) - 1 : s[i] = stack[i]
        /\ Chain(s)
  BY DFront
<1>3. PICK n : n = Len(stack)
  OBVIOUS
<1>4. n \in Nat /\ DOMAIN s = 1 .. n
  BY <1>1, <1>3, LenProperties, TopFrame DEF IInv
<1>5. PICK t : t = Append(s, callee)
  OBVIOUS
<1>6. stack' = t /\ ret' = Running
  BY <1>1, <1>5 DEF Call
<1>7. /\ Len(t) = n + 1 /\ DOMAIN t = 1 .. n + 1
      /\ (\A i \in 1 .. n : t[i] = s[i]) /\ t[n + 1] = callee
  BY <1>1, <1>3, <1>5, Pushed
<1>8. ASSUME NEW i \in DOMAIN t PROVE Downward(t[i])
  <2>1. i = n + 1 \/ i \in 1 .. n
    BY <1>4, <1>7
  <2>2. QED
    BY <1>1, <1>4, <1>7, <2>1 DEF Chain
<1>9. ASSUME NEW i \in DOMAIN t, i # Len(t) PROVE Leads(t[i], t[i + 1])
  <2>1. i \in 1 .. n
    BY <1>4, <1>7, <1>9
  <2>2. CASE i = n
    BY <1>1, <1>3, <1>7, <2>1, <2>2
  <2>3. CASE i # n
    <3>1. i + 1 \in 1 .. n
      BY <1>4, <2>1, <2>3
    <3>2. Leads(s[i], s[i + 1])
      BY <1>1, <1>3, <1>4, <2>1, <2>3 DEF Chain
    <3>3. QED
      BY <1>7, <2>1, <3>1, <3>2
  <2>4. QED
    BY <2>2, <2>3
<1>10. Chain(t)
  BY <1>8, <1>9 DEF Chain
<1>11. \A i \in 1 .. n - 1 : i \in DOMAIN t /\ t[i] = stack[i]
  <2>1. \A i \in 1 .. n - 1 : i \in 1 .. n /\ i \in 1 .. n + 1
    BY <1>4
  <2>2. QED
    BY <1>1, <1>3, <1>7, <2>1
<1>12. n \in DOMAIN t /\ t[n] = fr
  <2>1. n # 0
    BY <1>3, EmptySeq DEF IInv, Stacked
  <2>2. n \in 1 .. n /\ n \in 1 .. n + 1
    BY <1>4, <2>1
  <2>3. QED
    BY <1>1, <1>3, <1>7, <2>2
<1>13. QED
  BY <1>3, <1>6, <1>10, <1>11, <1>12, RunningUnder DEF Led

LEMMA DReturn ==
    ASSUME IInv, DInv, stack # <<>>, NEW type, Under(type, ClassOf(Top)), Return(type)
    PROVE  /\ Led
           /\ stack' # <<>> => /\ Len(stack) - 1 \in DOMAIN stack /\ Len(stack') = Len(stack) - 1
                               /\ stack'[Len(stack')] = stack[Len(stack) - 1]
                               /\ Leads(stack[Len(stack) - 1], Top)
<1>1. PICK n : n = Len(stack)
  OBVIOUS
<1>2. /\ n \in Nat /\ n # 0 /\ DOMAIN stack = 1 .. n /\ Top = stack[n]
  BY <1>1, TopFrame, EmptySeq DEF IInv
<1>3. PICK s : s = Front(stack)
  OBVIOUS
<1>4. /\ s \in Seq(ToSet(s)) /\ Len(s) = n - 1 /\ DOMAIN s = 1 .. n - 1
      /\ \A i \in 1 .. n - 1 : s[i] = stack[i]
  BY <1>1, <1>3, FrontOnly DEF IInv, Stacked
<1>5. stack' = s /\ ret' = type
  BY <1>3 DEF Return
<1>6. Chain(s)
  <2>1. ASSUME NEW i \in DOMAIN s PROVE Downward(s[i])
    BY <1>2, <1>4 DEF DInv, Chain
  <2>2. ASSUME NEW i \in DOMAIN s, i # Len(s) PROVE Leads(s[i], s[i + 1])
    <3>1. i \in 1 .. n - 1 /\ i + 1 \in 1 .. n - 1 /\ i \in DOMAIN stack /\ i # n
      BY <1>2, <1>4, <2>2
    <3>2. QED
      BY <1>1, <1>4, <3>1 DEF DInv, Chain
  <2>3. QED
    BY <2>1, <2>2 DEF Chain
<1>7. ASSUME s # <<>>
      PROVE  /\ n - 1 \in DOMAIN stack /\ Len(s) = n - 1
             /\ s[Len(s)] = stack[n - 1] /\ Leads(stack[n - 1], Top)
             /\ Under(type, ClassOf(s[Len(s)]))
  <2>1. n - 1 # 0
    BY <1>4, <1>7, EmptySeq
  <2>2. n - 1 \in 1 .. n - 1 /\ n - 1 \in DOMAIN stack /\ n - 1 # n /\ (n - 1) + 1 = n
    BY <1>2, <2>1
  <2>3. Leads(stack[n - 1], Top) /\ s[n - 1] = stack[n - 1]
    BY <1>1, <1>2, <1>4, <2>2 DEF DInv, Chain
  <2>4. IsFrame(stack[n - 1], Defs)
    BY <2>2 DEF IInv, Stacked
  <2>5. Under(type, ClassOf(stack[n - 1]))
    BY <2>3, <2>4, ClassOfFrame, DownOn DEF Leads
  <2>6. QED
    BY <1>4, <2>2, <2>3, <2>5
<1>8. QED
  BY <1>1, <1>2, <1>4, <1>5, <1>6, <1>7 DEF Led

-----------------------------------------------------------------------------
(* The text of a class *)

(* What is read of a class is mentioned by it. *)
LEMMA Mentioned ==
    ASSUME prog \in Programs, NEW c \in Classes
    PROVE  /\ \A i \in DOMAIN prog.parents[c] :
                prog.parents[c][i] \in Seq(Names) \ {<<>>} /\ ToSet(prog.parents[c][i]) \cap Classes \subseteq Reach(c)
           /\ \A i \in Members(c) :
                /\ Def(<<c, i>>).path \in Seq(Names) \ {<<>>} /\ Def(<<c, i>>).dim \in Seq(Names)
                /\ Def(<<c, i>>).init \in Seq(Names)
                /\ ToSet(Def(<<c, i>>).path) \cap Classes \subseteq Reach(c)
                /\ ToSet(Def(<<c, i>>).dim) \cap Classes \subseteq Reach(c)
                /\ ToSet(Def(<<c, i>>).init) \cap Classes \subseteq Reach(c)
                /\ Def(<<c, i>>).kind \in Kinds
<1> DEFINE paths == {prog.parents[c][i] : i \in DOMAIN prog.parents[c]}
                      \cup {Def(<<c, i>>).path : i \in Members(c)}
                      \cup {Def(<<c, i>>).dim : i \in Members(c)}
                      \cup {Def(<<c, i>>).init : i \in Members(c)}
           named == UNION {ToSet(p) : p \in paths}
<1>1. Mentions(c) = named \cap Classes /\ Mentions(c) \subseteq Reach(c)
  BY ReachIs DEF Mentions
<1>2. \A p \in paths : ToSet(p) \subseteq named
  OBVIOUS
<1>3. \A p \in paths : ToSet(p) \cap Classes \subseteq Reach(c)
  <2> HIDE DEF named, paths
  <2>1. QED
    BY <1>1, <1>2
<1> HIDE DEF named
<1>4. /\ \A i \in DOMAIN prog.parents[c] : prog.parents[c][i] \in Seq(Names) \ {<<>>}
      /\ \A i \in Members(c) : /\ Def(<<c, i>>).path \in Seq(Names) \ {<<>>} /\ Def(<<c, i>>).dim \in Seq(Names)
                               /\ Def(<<c, i>>).init \in Seq(Names)
                               /\ Def(<<c, i>>).kind \in Kinds
  BY ProgramsAssumption DEF Members, Def
<1>5. QED
  BY <1>3, <1>4

LEMMA MentionedByDef ==
    ASSUME prog \in Programs, NEW d \in Defs
    PROVE  /\ d[1] \in Classes
           /\ Def(d).path \in Seq(Names) \ {<<>>} /\ Def(d).dim \in Seq(Names)
           /\ Def(d).init \in Seq(Names)
           /\ ToSet(Def(d).path) \cap Classes \subseteq Reach(d[1])
           /\ ToSet(Def(d).dim) \cap Classes \subseteq Reach(d[1])
           /\ ToSet(Def(d).init) \cap Classes \subseteq Reach(d[1])
           /\ Def(d).dim # <<>> \/ Def(d).init # <<>> => HasExpr(d[1])
           /\ Def(d).kind \in Kinds
<1>1. PICK c \in Classes : \E i \in Members(c) : d = <<c, i>>
  BY DEF Defs
<1>2. PICK i \in Members(c) : d = <<c, i>>
  BY <1>1
<1>3. d[1] = c
  BY <1>2
<1>4. Def(d).dim # <<>> \/ Def(d).init # <<>> => HasExpr(c)
  BY <1>2 DEF HasExpr
<1>5. QED
  BY <1>1, <1>2, <1>3, <1>4, Mentioned

(* A typedef that is found for a class is its own or an ancestor's. *)
LEMMA FoundTypedefs ==
    ASSUME IInv, InheritedUnder, NEW c \in Classes, NEW n
    PROVE  /\ \A d \in OwnAlias(c, n) : d \in Defs /\ d[1] = c /\ Def(d).kind = "alias"
           /\ \A d \in Typedef(c, n) : d \in Defs /\ d[1] \in Down(c) /\ Def(d).kind = "alias"
           /\ \A i, except : \A d \in TypedefInScope(c, i, n, except) :
                d \in Defs /\ d[1] \in Down(c) /\ Def(d).kind = "alias"
<1>1. ASSUME NEW d \in OwnAlias(c, n) PROVE d \in Defs /\ d[1] = c /\ Def(d).kind = "alias"
  <2>1. PICK i \in Members(c) : d = <<c, i>> /\ prog.members[c][i].kind = "alias"
    BY DEF OwnAlias
  <2>2. d \in Defs
    BY <2>1 DEF Defs
  <2>3. d[1] = c /\ d[2] = i
    BY <2>1
  <2>4. QED
    BY <2>1, <2>2, <2>3 DEF Def
<1>2. n \in DOMAIN inh[c] => inh[c][n] \in Defs /\ inh[c][n][1] \in Reach(c) /\ Def(inh[c][n]).kind = "alias"
  BY DEF IInv, Typed, InheritedUnder
<1>3. \A d \in Typedef(c, n) : d \in Defs /\ d[1] \in Down(c) /\ Def(d).kind = "alias"
  BY <1>1, <1>2 DEF Typedef, Down
<1>4. ASSUME NEW i, NEW except, NEW d \in TypedefInScope(c, i, n, except)
      PROVE  d \in Defs /\ d[1] \in Down(c) /\ Def(d).kind = "alias"
  <2>1. d \in OwnAlias(c, n) \/ (n \in DOMAIN inh[c] /\ d = inh[c][n])
    BY <1>4 DEF TypedefInScope
  <2>2. QED
    BY <1>1, <1>2, <2>1 DEF Down
<1>5. QED
  BY <1>1, <1>3, <1>4

(* A new call knows nothing but its class's text. *)
LEMMA CalleesDown ==
    /\ \A c, note : Downward(InitCall(c, note)) /\ Downward(ResolveCall(c, note))
    /\ \A d : Downward(DefCall(d))
    /\ \A c, i, except, full : \A path \in Seq(Names) \ {<<>>} :
         ToSet(path) \cap Classes \subseteq Reach(c) => Downward(TypeCall(path, c, i, except, full))
<1>1. \A c, note : Downward(InitCall(c, note)) /\ Downward(ResolveCall(c, note))
  BY DEF Downward, InitCall, ResolveCall, AtValues
<1>2. \A d : Downward(DefCall(d))
  BY DEF Downward, DefCall
<1>3. ASSUME NEW c, NEW i, NEW except, NEW full, NEW path \in Seq(Names) \ {<<>>},
             ToSet(path) \cap Classes \subseteq Reach(c)
      PROVE  Downward(TypeCall(path, c, i, except, full))
  <2>1. 1 \in DOMAIN path
    BY EmptySeq, LenProperties
  <2>2. Under(NoType, c)
    BY DEF Under, NoType
  <2>3. QED
    BY <1>3, <2>1, <2>2 DEF Downward, TypeCall
<1>4. QED
  BY <1>1, <1>2, <1>3

(* The class that a call is for. *)
LEMMA CalleesLead ==
    /\ \A c, note : /\ ClassOf(InitCall(c, note)) = c /\ InitCall(c, note).fun = "init"
                    /\ ClassOf(ResolveCall(c, note)) = c /\ ResolveCall(c, note).fun = "resolve"
    /\ \A d : ClassOf(DefCall(d)) = d[1] /\ DefCall(d).fun = "def" /\ DefCall(d).def = d
    /\ \A path, c, i, except, full :
         ClassOf(TypeCall(path, c, i, except, full)) = c /\ TypeCall(path, c, i, except, full).fun = "type"
BY DEF ClassOf, InitCall, ResolveCall, DefCall, TypeCall

(* A step that gives no ancestors and no types. *)
LEMMA DSame ==
    ASSUME DInv, UNCHANGED <<prog, aliased, anc, inh>>, Led,
           \A d \in Defs : state'[d] = state[d] \/ state'[d] \in {"Resolving", "Unresolvable"}
    PROVE  DInv'
<1>1. /\ Defs' = Defs /\ (\A d : Def(d)' = Def(d)) /\ (\A c : Reach(c)' = Reach(c))
      /\ (\A type, c : Under(type, c)' <=> Under(type, c)) /\ \A s : Chain(s)' <=> Chain(s)
  BY SameText, SameReach
<1>2. Chain(stack)' /\ (stack' # <<>> => Under(ret, ClassOf(Top))')
  BY <1>1 DEF Led, Top, ClassOf
<1>3. AncestorsUnder'
  BY <1>1 DEF DInv, AncestorsUnder
<1>4. InheritedUnder'
  BY <1>1 DEF DInv, InheritedUnder
<1>5. TypesUnder'
  BY <1>1 DEF DInv, TypesUnder
<1>6. DefStates'
  BY <1>1 DEF DInv, DefStates
<1>7. QED
  BY <1>2, <1>3, <1>4, <1>5, <1>6 DEF DInv

-----------------------------------------------------------------------------
(* The steps of a look-up. *)
LEMMA TypeStepDown ==
    ASSUME IInv, DInv, stack # <<>>, TypeStep
    PROVE  DInv' /\ Led /\ (ret' = False => errors' \/ (ret = False /\ Top.at = "member"))
<1> DEFINE c == Top.cls
           Quietly == ret' = False => errors' \/ (ret = False /\ Top.at = "member")
           Goal == Led /\ Quietly
<1>a. Top.fun = "type" /\ UNCHANGED <<prog, state, defVars>>
  BY DEF TypeStep, TypeBuiltin, TypeInScope, TypeInScopeDone, TypeExport, TypePrepare,
         TypePrepared, TypeUnprepared, TypeClass, TypeMember, TypeMemberDone
<1>b. IsFrame(Top, Defs) /\ prog \in Programs /\ ret \in TypesOf
  BY TopFrame DEF IInv, Typed
<1>1. /\ Top.fun = "type" /\ UNCHANGED <<prog, state, defVars>>
      /\ c \in Classes /\ Top.type \in TypesOf /\ ClassOf(Top) = c /\ prog \in Programs
      /\ {"fun", "cls", "type", "at", "n"} \subseteq DOMAIN Top /\ ret \in TypesOf
  BY <1>a, <1>b DEF IsFrame, ClassOf
<1>2. /\ "path" \in DOMAIN Top /\ Top.path \in Seq(Names) /\ Top.n \in DOMAIN Top.path
      /\ Top.at \in {"class", "member"} => Top.n # Len(Top.path)
      /\ ToSet(Top.path) \cap Classes \subseteq Reach(c)
      /\ Under(Top.type, c)
      /\ Top.at \in {"prepare", "class"} => Top.type # NoType
  <2>1. Downward(Top)
    BY TopFrame DEF IInv, DInv, Chain
  <2>2. QED
    BY <1>1, <2>1 DEF Downward
<1>3. Under(ret, c) /\ InheritedUnder /\ AncestorsUnder
  BY <1>1 DEF DInv
<1> HIDE DEF c
<1>4. SUFFICES Goal
  BY <1>1, DSame DEF defVars
<1>5. ASSUME NEW type, Return(type), Under(type, c), type # False \/ errors' \/ (ret = False /\ Top.at = "member")
      PROVE  Goal
  BY <1>1, <1>5, DReturn DEF Return
<1>6. ASSUME FailType PROVE Goal
  BY <1>5, <1>6, RunningUnder DEF FailType, False
<1>r. Running # False
  BY SimpleTypes
<1>7. ASSUME NEW fr, Downward(fr), Alike(fr, Top),
             \/ Continue(fr)
             \/ \E callee : Downward(callee) /\ Leads(fr, callee) /\ Call(fr, callee)
      PROVE  Goal
  <2>1. ret' = Running
    BY <1>7 DEF Continue, Call
  <2>2. QED
    BY <1>7, <1>r, <2>1, DContinue, DCall
<1>8. Downward(Top) /\ Alike(Top, Top)
  BY TopFrame DEF IInv, DInv, Chain, Alike
<1>9. ASSUME NEW fr, fr.fun = "type", fr.cls = c, fr.path = Top.path, {"path", "n"} \subseteq DOMAIN fr,
             fr.n \in DOMAIN fr.path, fr.at \in {"class", "member"} => fr.n # Len(fr.path),
             Under(fr.type, c), fr.at \in {"prepare", "class"} => fr.type # NoType
      PROVE  Downward(fr) /\ Alike(fr, Top)
  <2>1. Downward(fr)
    BY <1>2, <1>9 DEF Downward
  <2>2. ClassOf(fr) = c
    BY <1>9 DEF ClassOf
  <2>3. QED
    BY <1>1, <1>9, <2>1, <2>2 DEF Alike
<1>10. ASSUME NEW type, type # NoType, Under(type, c), Continue([Top EXCEPT !.at = "prepare", !.type = type])
       PROVE  Goal
  <2>1. PICK fr : fr = [Top EXCEPT !.at = "prepare", !.type = type]
    OBVIOUS
  <2>2. /\ fr.fun = "type" /\ fr.cls = c /\ fr.path = Top.path /\ {"path", "n"} \subseteq DOMAIN fr
        /\ fr.n = Top.n /\ fr.at = "prepare" /\ fr.type = type
    BY <1>1, <1>2, <2>1 DEF c
  <2>3. Downward(fr) /\ Alike(fr, Top)
    BY <1>2, <1>9, <1>10, <2>2
  <2>4. QED
    BY <1>7, <1>10, <2>1, <2>3
<1>11. ASSUME NEW type, type # NoType, Under(type, c), Top.at \in {"class", "member"}, Continue(AtNext(type))
       PROVE  Goal
  <2>1. PICK fr : fr = AtNext(type)
    OBVIOUS
  <2>2. /\ fr.fun = "type" /\ fr.cls = c /\ fr.path = Top.path /\ {"path", "n"} \subseteq DOMAIN fr
        /\ fr.n = Top.n + 1 /\ fr.type = type
        /\ fr.at = IF Top.n + 1 = Len(Top.path) THEN "prepare" ELSE "class"
    BY <1>1, <1>2, <2>1 DEF AtNext, c
  <2>3. Top.n + 1 \in DOMAIN Top.path
    <3>1. DOMAIN Top.path = 1 .. Len(Top.path) /\ Len(Top.path) \in Nat
      BY <1>2, LenProperties
    <3>2. QED
      BY <1>2, <1>11, <3>1
  <2>4. Downward(fr) /\ Alike(fr, Top)
    BY <1>9, <1>11, <2>2, <2>3
  <2>5. QED
    BY <1>7, <1>11, <2>1, <2>4
<1>12. ASSUME NEW callee, Downward(callee), Leads(Top, callee), Call(Top, callee) PROVE Goal
  BY <1>7, <1>8, <1>12
<1>13. ASSUME NEW n \in Classes, n \in Reach(c) PROVE ClassType(n) # NoType /\ Under(ClassType(n), c)
  BY <1>13 DEF ClassType, NoType, Under
<1>14. CASE TypeBuiltin
  <2>1. Return(IntType) /\ IntType # False /\ Under(IntType, c)
    BY <1>14, RunningUnder DEF TypeBuiltin, IntType, False, NoType, True
  <2>2. QED
    BY <1>5, <2>1
<1>15. CASE TypeInScope
  <2>1. PICK d \in InScope : Call(Top, DefCall(d)) /\ Top.at = "spec"
    BY <1>15 DEF TypeInScope
  <2>2. d[1] \in Down(c) /\ Def(d).kind = "alias"
    <3>1. PICK n, i, except : n = Name /\ i = Top.pos /\ except = Top.except
      OBVIOUS
    <3>2. d \in TypedefInScope(c, i, n, except)
      BY <2>1, <3>1 DEF InScope, c
    <3>3. c \in Classes /\ IInv /\ InheritedUnder
      BY <1>1, <1>3
    <3>4. \A x \in TypedefInScope(c, i, n, except) : x[1] \in Down(c) /\ Def(x).kind = "alias"
      BY ONLY <3>3, FoundTypedefs
    <3>5. QED
      BY <3>2, <3>4
  <2>3. Leads(Top, DefCall(d))
    BY <1>1, <2>1, <2>2, CalleesLead DEF Leads, Evaluates
  <2>4. QED
    BY <1>12, <2>1, <2>3, CalleesDown
<1>16. CASE TypeInScopeDone
  BY <1>3, <1>10, <1>16 DEF TypeInScopeDone, False
<1>17. CASE TypeExport
  <2>1. CASE Name \in Classes
    <3>1. Name \in ToSet(Top.path)
      BY <1>2 DEF Name, ToSet
    <3>2. Name \in Reach(c) /\ Continue([Top EXCEPT !.at = "prepare", !.type = ClassType(Name)])
      BY <1>2, <1>17, <2>1, <3>1 DEF TypeExport
    <3>3. QED
      BY <1>10, <1>13, <2>1, <3>2
  <2>2. CASE Name \notin Classes
    BY <1>6, <1>17, <2>2 DEF TypeExport
  <2>3. QED
    BY <2>1, <2>2
<1>18. CASE TypePrepare
  <2>1. PICK callee \in Needed : Call(Top, callee)
    BY <1>18 DEF TypePrepare
  <2>2. \/ Top.type.cls # None /\ callee = ResolveCall(Top.type.cls, TRUE)
        \/ Top.type.of = "class" /\ callee = InitCall(Top.type.cls, TRUE)
    BY <2>1 DEF Needed
  <2>3. Top.type.cls \in Reach(c)
    BY <1>2, <2>2 DEF Under
  <2>4. Leads(Top, callee) /\ Downward(callee)
    <3>1. CASE callee = ResolveCall(Top.type.cls, TRUE)
      <4>1. ClassOf(callee) = Top.type.cls /\ callee.fun = "resolve" /\ Downward(callee)
        BY <3>1, CalleesLead, CalleesDown
      <4>2. QED
        BY <1>1, <2>3, <4>1 DEF Leads, Down, Evaluates
    <3>2. CASE callee = InitCall(Top.type.cls, TRUE)
      <4>1. ClassOf(callee) = Top.type.cls /\ callee.fun = "init" /\ Downward(callee)
        BY <3>2, CalleesLead, CalleesDown
      <4>2. QED
        BY <1>1, <2>3, <4>1 DEF Leads, Down, Evaluates
    <3>3. QED
      BY <2>2, <3>1, <3>2
  <2>5. QED
    BY <1>12, <2>1, <2>4
<1>19. CASE TypePrepared
  <2>1. Top.at = "prepare"
    BY <1>19 DEF TypePrepared
  <2>2. CASE Top.n = Len(Top.path)
    BY <1>2, <1>5, <1>19, <2>1, <2>2 DEF TypePrepared, False
  <2>3. CASE Top.n # Len(Top.path)
    <3>1. PICK fr : fr = [Top EXCEPT !.at = "class"]
      OBVIOUS
    <3>2. /\ fr.fun = "type" /\ fr.cls = c /\ fr.path = Top.path /\ {"path", "n"} \subseteq DOMAIN fr
          /\ fr.n = Top.n /\ fr.type = Top.type
      BY <1>1, <1>2, <3>1 DEF c
    <3>3. Downward(fr) /\ Alike(fr, Top)
      BY <1>2, <1>9, <2>1, <2>3, <3>2
    <3>4. QED
      BY <1>7, <1>19, <2>3, <3>1, <3>3 DEF TypePrepared
  <2>4. QED
    BY <2>2, <2>3
<1>20. CASE TypeUnprepared
  BY <1>6, <1>20 DEF TypeUnprepared
<1>21. CASE TypeClass
  <2>1. CASE Top.type.of = "class"
    <3>1. Top.type.cls \in Reach(c) /\ Call(Top, InitCall(Top.type.cls, TRUE))
      BY <1>2, <1>21, <2>1 DEF Under, TypeClass
    <3>2. Leads(Top, InitCall(Top.type.cls, TRUE))
      <4>1. PICK callee : callee = InitCall(Top.type.cls, TRUE)
        OBVIOUS
      <4>2. ClassOf(callee) = Top.type.cls /\ callee.fun = "init"
        BY <4>1, CalleesLead
      <4>3. QED
        BY <1>1, <3>1, <4>1, <4>2 DEF Leads, Down, Evaluates
    <3>3. QED
      BY <1>12, <3>1, <3>2, CalleesDown
  <2>2. CASE Top.type.of # "class"
    BY <1>6, <1>21, <2>2 DEF TypeClass
  <2>3. QED
    BY <2>1, <2>2
<1>22. CASE TypeMember
  <2> DEFINE b == Top.type.cls
  <2>1. Top.at = "class" /\ Returned
    BY <1>22 DEF TypeMember
  <2>2. Top.type.of = "class"
    <3>1. ~Unchecked(Top)
      BY <2>1, TopFrame DEF IInv, Stacked, Returned
    <3>2. QED
      BY <1>1, <2>1, <3>1 DEF Unchecked
  <2>3. b \in Reach(c) /\ b \in Classes
    <3>1. b \in Classes
      BY <1>1, <2>2 DEF TypesOf
    <3>2. QED
      BY <1>2, <2>2, <3>1 DEF Under
  <2> HIDE DEF b
  <2>4. CASE \E d \in Typedef(b, NextName) : Call([Top EXCEPT !.at = "member"], DefCall(d))
    <3>1. PICK d \in Typedef(b, NextName) : Call([Top EXCEPT !.at = "member"], DefCall(d))
      BY <2>4
    <3>2. d[1] \in Down(b) /\ Def(d).kind = "alias"
      BY <1>3, <2>3, FoundTypedefs
    <3>3. d[1] \in Reach(c)
      BY <1>1, <2>3, <3>2, ReachOn DEF Down
    <3>4. PICK fr : fr = [Top EXCEPT !.at = "member"]
      OBVIOUS
    <3>5. /\ fr.fun = "type" /\ fr.cls = c /\ fr.path = Top.path /\ {"path", "n"} \subseteq DOMAIN fr
          /\ fr.n = Top.n /\ fr.type = Top.type /\ fr.at = "member"
      BY <1>1, <1>2, <3>4 DEF c
    <3>6. Downward(fr) /\ Alike(fr, Top)
      BY <1>2, <1>9, <2>1, <3>5
    <3>7. ClassOf(fr) = c
      BY <3>5 DEF ClassOf
    <3>8. Leads(fr, DefCall(d))
      BY <3>2, <3>3, <3>5, <3>7, CalleesLead DEF Leads, Down, Evaluates
    <3>9. QED
      BY <1>7, <3>1, <3>4, <3>6, <3>8, CalleesDown
  <2>5. CASE NextName \in Classes \cap ToSet(anc[b]) /\ Continue(AtNext(ClassType(NextName)))
    <3>1. NextName \in Reach(b)
      BY <1>3, <2>3, <2>5 DEF AncestorsUnder, ToSet
    <3>2. NextName \in Reach(c) /\ NextName \in Classes
      BY <1>1, <2>3, <2>5, <3>1, ReachOn
    <3>3. QED
      BY <1>11, <1>13, <2>1, <2>5, <3>2
  <2>6. CASE FailType
    BY <1>6, <2>6
  <2>7. QED
    BY <1>22, <2>4, <2>5, <2>6 DEF TypeMember, b
<1>23. CASE TypeMemberDone
  <2>1. Top.at = "member"
    BY <1>23 DEF TypeMemberDone
  <2>2. CASE ret = False
    BY <1>5, <1>23, <2>1, <2>2, RunningUnder DEF TypeMemberDone, False
  <2>3. CASE ret # False
    BY <1>3, <1>11, <1>23, <2>1, <2>3 DEF TypeMemberDone, False
  <2>4. QED
    BY <2>2, <2>3
<1>24. QED
  BY <1>14, <1>15, <1>16, <1>17, <1>18, <1>19, <1>20, <1>21, <1>22, <1>23 DEF TypeStep

(* The steps of a call that initialises a class. *)
LEMMA InitStepDown ==
    ASSUME IInv, DInv, stack # <<>>, InitStep
    PROVE  DInv' /\ Led
<1> DEFINE c == Top.def
<1>1. /\ Top.fun = "init" /\ UNCHANGED <<prog, aliased>>
      /\ state' = state \/ \E s : state' = [state EXCEPT ![c] = s]
  BY DEF InitStep, InitEnter, InitParent, InitAddParent, InitFail, InitDone, defVars, SetState
<1>a. IsFrame(Top, Defs) /\ prog \in Programs /\ ret \in TypesOf /\ state \in [Classes \cup Defs -> States]
      /\ DOMAIN anc = Classes /\ DOMAIN inh = Classes
  BY TopFrame DEF IInv, Typed
<1>2. c \in Classes /\ ClassOf(Top) = c /\ {"fun", "def", "at"} \subseteq DOMAIN Top
  BY <1>1, <1>a DEF IsFrame, ClassOf
<1>3. Under(ret, c) /\ InheritedUnder /\ AncestorsUnder
  BY <1>2 DEF DInv
<1>4. \A d \in Defs : state'[d] = state[d]
  <2>1. c \notin Defs
    BY <1>2, Apart DEF IInv
  <2>2. QED
    BY <1>1, <1>a, <2>1
<1> HIDE DEF c
<1>5. ASSUME NEW fr, fr.fun = "init", ClassOf(fr) = c PROVE Downward(fr) /\ Alike(fr, Top)
  BY <1>1, <1>2, <1>5 DEF Downward, Alike
<1>6. CASE InitEnter
  <2>1. CASE Return(True) \/ Return(False)
    BY <1>1, <1>4, <1>6, <2>1, RunningUnder, DReturn, DSame DEF InitEnter, defVars
  <2>2. CASE Continue([Top EXCEPT !.at = 1])
    <3>1. PICK fr : fr = [Top EXCEPT !.at = 1]
      OBVIOUS
    <3>2. fr.fun = "init" /\ fr.def = c
      BY <1>1, <1>2, <3>1 DEF c
    <3>3. ClassOf(fr) = c
      BY <3>2 DEF ClassOf
    <3>4. QED
      BY <1>1, <1>4, <1>5, <1>6, <2>2, <3>1, <3>2, <3>3, DContinue, DSame DEF InitEnter, defVars
  <2>3. QED
    BY <1>6, <2>1, <2>2 DEF InitEnter
<1>7. CASE InitParent
  <2>1. PICK path : path = prog.parents[c][Top.at]
    OBVIOUS
  <2>2. PICK callee : callee = TypeCall(path, c, 0, None, FALSE)
    OBVIOUS
  <2>3. Call(Top, callee) /\ UNCHANGED defVars /\ Top.at \in DOMAIN prog.parents[c]
    BY <1>7, <2>1, <2>2 DEF InitParent, c
  <2>4. path \in Seq(Names) \ {<<>>} /\ ToSet(path) \cap Classes \subseteq Reach(c)
    BY <1>2, <1>a, <2>1, <2>3, Mentioned
  <2>5. Downward(callee) /\ ClassOf(callee) = c /\ callee.fun = "type"
    <3>1. Downward(TypeCall(path, c, 0, None, FALSE))
      BY ONLY <2>4, CalleesDown
    <3>2. ClassOf(TypeCall(path, c, 0, None, FALSE)) = c /\ TypeCall(path, c, 0, None, FALSE).fun = "type"
      BY DEF TypeCall, ClassOf
    <3>3. QED
      BY ONLY <2>2, <3>1, <3>2
  <2>6. Leads(Top, callee)
    BY <1>1, <1>2, <2>5 DEF Leads, Down, Evaluates
  <2>7. QED
    BY <1>1, <1>2, <1>4, <1>5, <2>3, <2>5, <2>6, DCall, DSame DEF defVars
<1>8. CASE InitAddParent
  <2> DEFINE p == ret.cls
  <2>1. PICK fr : fr = [Top EXCEPT !.at = @ + 1]
    OBVIOUS
  <2>2. /\ Continue(fr) /\ ret.of = "class" /\ state' = state
        /\ \/ UNCHANGED <<anc, inh>>
           \/ /\ anc' = [anc EXCEPT ![c] = WithAncestor(@, p)]
              /\ inh' = [inh EXCEPT ![c] = WithMembers(c, p)]
    BY <1>8, <2>1 DEF InitAddParent, c
  <2>3. fr.fun = "init" /\ fr.def = c
    BY <1>1, <1>2, <2>1 DEF c
  <2>4. ClassOf(fr) = c
    BY <2>3 DEF ClassOf
  <2>5. Led
    BY <1>5, <2>2, <2>3, <2>4, DContinue
  <2>6. p \in Reach(c) /\ p \in Classes
    <3>1. p \in Reach(c)
      BY <1>3, <2>2 DEF Under
    <3>2. QED
      BY <1>2, <3>1, ReachIs
  <2> HIDE DEF p
  <2>7. CASE UNCHANGED <<anc, inh>>
    BY <1>1, <1>4, <2>5, <2>7, DSame DEF defVars
  <2>8. CASE /\ anc' = [anc EXCEPT ![c] = WithAncestor(@, p)]
             /\ inh' = [inh EXCEPT ![c] = WithMembers(c, p)]
    <3>1. WithAncestor(anc[c], p) \in Seq(Reach(c))
      <4>1. anc[c] \in Seq(Reach(c)) /\ anc[p] \in Seq(Reach(p)) /\ Reach(p) \subseteq Reach(c)
        BY <1>2, <1>3, <2>6, ReachOn DEF AncestorsUnder
      <4>2. anc[p] \in Seq(Reach(c))
        BY <4>1, SeqMonotonic
      <4>3. QED
        BY <2>6, <4>1, <4>2, WithAncestorIs
    <3>2. ASSUME NEW n \in DOMAIN WithMembers(c, p)
          PROVE  Def(WithMembers(c, p)[n]).kind = "alias" /\ WithMembers(c, p)[n][1] \in Reach(c)
      <4> DEFINE own == {Def(<<p, i>>).name : i \in {i \in Members(p) : Def(<<p, i>>).kind = "alias"}}
                 names == own \cup DOMAIN inh[p]
                 new == {m \in names : Typedef(c, m) = {}}
                 d == CHOOSE d \in Typedef(p, n) : TRUE
      <4>1. /\ n \in DOMAIN inh[c] \cup new
            /\ WithMembers(c, p)[n] = IF n \in new THEN d ELSE inh[c][n]
        BY <3>2 DEF WithMembers
      <4>2. ASSUME n \in names PROVE Typedef(p, n) # {}
        <5>1. CASE n \in own
          <6>1. PICK i \in Members(p) : Def(<<p, i>>).kind = "alias" /\ n = Def(<<p, i>>).name
            BY <5>1
          <6>2. <<p, i>>[1] = p /\ <<p, i>>[2] = i
            OBVIOUS
          <6>3. prog.members[p][i].kind = "alias" /\ n = prog.members[p][i].name
            BY <6>1, <6>2 DEF Def
          <6>4. <<p, i>> \in OwnAlias(p, n)
            BY <6>3 DEF OwnAlias
          <6>5. QED
            BY <6>4 DEF Typedef
        <5>2. CASE n \in DOMAIN inh[p]
          BY <5>2 DEF Typedef
        <5>3. QED
          BY <4>2, <5>1, <5>2
      <4>3. n \in new => n \in names
        OBVIOUS
      <4> HIDE DEF names, own, d, new
      <4>4. CASE n \in new
        <5>1. d \in Typedef(p, n)
          BY <4>2, <4>3, <4>4 DEF d
        <5>2. d[1] \in Down(p) /\ Def(d).kind = "alias"
          BY <1>3, <2>6, <5>1, FoundTypedefs
        <5>3. d[1] \in Reach(c)
          BY <1>2, <2>6, <5>2, ReachOn DEF Down
        <5>4. QED
          BY <4>1, <4>4, <5>2, <5>3
      <4>5. CASE n \notin new
        BY <1>2, <1>3, <4>1, <4>5 DEF InheritedUnder
      <4>6. QED
        BY <4>4, <4>5
    <3>3. /\ Defs' = Defs /\ (\A d : Def(d)' = Def(d)) /\ (\A x : Reach(x)' = Reach(x))
          /\ (\A type, x : Under(type, x)' <=> Under(type, x)) /\ \A s : Chain(s)' <=> Chain(s)
      BY <1>1, SameText, SameReach
    <3>4. Chain(stack)' /\ (stack' # <<>> => Under(ret, ClassOf(Top))')
      BY <2>5, <3>3 DEF Led, Chain, Top, ClassOf, Under, Downward, Leads
    <3>5. AncestorsUnder'
      BY <1>3, <1>a, <2>8, <3>1, <3>3 DEF AncestorsUnder
    <3>6. InheritedUnder'
      <4>1. \A x \in Classes : x # c => inh'[x] = inh[x]
        BY <1>a, <2>8
      <4>2. inh'[c] = WithMembers(c, p)
        BY <1>2, <1>a, <2>8
      <4>3. QED
        BY <1>3, <3>2, <3>3, <4>1, <4>2 DEF InheritedUnder
    <3>7. TypesUnder' /\ DefStates'
      BY <1>1, <1>4, <3>3 DEF DInv, TypesUnder, DefStates
    <3>8. QED
      BY <2>5, <3>4, <3>5, <3>6, <3>7 DEF DInv
  <2>9. QED
    BY <2>2, <2>7, <2>8
<1>9. CASE InitFail \/ InitDone
  BY <1>1, <1>4, <1>9, RunningUnder, DReturn, DSame DEF InitFail, InitDone, defVars
<1>10. QED
  BY <1>6, <1>7, <1>8, <1>9 DEF InitStep

(* The steps of a call that resolves a class. *)
LEMMA ResolveStepDown ==
    ASSUME IInv, WInv, DInv, stack # <<>>, ResolveStep
    PROVE  DInv' /\ (Led \/ UNCHANGED <<stack, ret>>)
<1> DEFINE c == Top.def
           D == Classes \cup Defs
<1>1. /\ Top.fun = "resolve" /\ UNCHANGED <<prog, aliased, anc, inh>>
      /\ state' = state \/ \E s : state' = [state EXCEPT ![c] = s]
  BY DEF ResolveStep, ResolveInit, ResolveEnter, ResolveNext, ResolveFuns, ResolveFun,
         ResolveFail, ResolveDone, defVars, SetState, WorkOn
<1>a. IsFrame(Top, Defs) /\ prog \in Programs /\ state \in [D -> States]
  BY TopFrame DEF IInv, Typed
<1>2. c \in Classes /\ ClassOf(Top) = c /\ {"fun", "def", "at", "todo"} \subseteq DOMAIN Top
  BY <1>1, <1>a DEF IsFrame, ClassOf
<1>3. Top.at \in {"deps", "funs"} => Top.todo \in Seq(D) /\ \A x \in ToSet(Top.todo) : Due(x, c)
  <2>1. Listed(Top, D) /\ Downward(Top)
    BY TopFrame DEF IInv, WInv, StackWhole, DInv, Chain
  <2>2. QED
    BY <1>1, <2>1 DEF Listed, Downward
<1>4. \A d \in Defs : state'[d] = state[d]
  <2>1. c \notin Defs
    BY <1>2, Apart DEF IInv
  <2>2. QED
    BY <1>1, <1>a, <2>1
<1> HIDE DEF c, D
<1>5. ASSUME NEW fr, fr.fun = "resolve", fr.def = c,
             fr.at \in {"deps", "funs", "values"} => \A x \in ToSet(fr.todo) : Due(x, c),
             fr.at \in {"enter", "deps", "funs", "values"}
      PROVE  Downward(fr) /\ Alike(fr, Top) /\ ClassOf(fr) = c /\ ~Evaluates(fr)
  BY <1>1, <1>2, <1>5 DEF Downward, Alike, ClassOf, AtValues, Evaluates
<1>s. ASSUME Led PROVE DInv'
  BY <1>1, <1>4, <1>s, DSame DEF defVars
<1>p. Properties(c) \in Seq(Defs) /\ \A x \in ToSet(Properties(c)) : Due(x, c)
  <2>1. Properties(c) \in Seq(Defs) /\ ToSet(Properties(c)) = PropsOf(c)
    BY <1>2, PropertiesIs DEF IInv
  <2>2. ToSet(anc[c]) \subseteq Reach(c)
    BY <1>2 DEF DInv, AncestorsUnder, ToSet
  <2>3. QED
    BY <2>1, <2>2 DEF PropsOf, Due, Down
<1>6. CASE ResolveInit
  <2>1. PICK fr : fr = [Top EXCEPT !.at = "enter"]
    OBVIOUS
  <2>2. PICK callee : callee = InitCall(c, FALSE)
    OBVIOUS
  <2>3. Call(fr, callee)
    BY <1>6, <2>1, <2>2 DEF ResolveInit, c
  <2>4. fr.fun = "resolve" /\ fr.def = c /\ fr.at = "enter"
    BY <1>1, <1>2, <2>1 DEF c
  <2>5. Downward(callee) /\ ClassOf(callee) = c /\ callee.fun = "init"
    BY <2>2, CalleesDown, CalleesLead
  <2>6. Downward(fr) /\ Alike(fr, Top) /\ ClassOf(fr) = c
    BY <1>5, <2>4
  <2>7. Leads(fr, callee)
    BY <1>5, <2>4, <2>5, <2>6 DEF Leads, Down
  <2>8. QED
    BY <1>s, <2>3, <2>5, <2>6, <2>7, DCall
<1>7. CASE ResolveEnter
  <2>1. CASE Return(True) \/ Return(False)
    BY <1>s, <2>1, RunningUnder, DReturn
  <2>2. CASE Continue([Top EXCEPT !.at = "deps", !.todo = Dependencies(c)])
    <3>1. PICK todo : todo = Dependencies(c)
      OBVIOUS
    <3>2. PICK fr : fr = [Top EXCEPT !.at = "deps", !.todo = todo]
      OBVIOUS
    <3>3. fr.fun = "resolve" /\ fr.def = c /\ fr.at = "deps" /\ fr.todo = todo
      BY <1>1, <1>2, <3>2 DEF c
    <3>4. \A x \in ToSet(todo) : Due(x, c)
      <4>1. anc[c] \in Seq(Reach(c)) /\ Reach(c) \subseteq Classes
        BY <1>2, ReachIs DEF DInv, AncestorsUnder
      <4>2. PICK list, props : list = anc[c] /\ props = Properties(c)
        OBVIOUS
      <4>3. list \in Seq(D) /\ props \in Seq(D) /\ ToSet(list) \subseteq Reach(c)
        <5>1. list \in Seq(Reach(c)) /\ props \in Seq(Defs)
          BY <1>p, <4>1, <4>2
        <5>2. list \in Seq(D) /\ props \in Seq(D)
          BY <4>1, <5>1, SeqMonotonic DEF D
        <5>3. QED
          BY <5>1, <5>2 DEF ToSet
      <4>4. todo = list \o props
        BY <3>1, <4>2 DEF Dependencies
      <4>5. ToSet(todo) = ToSet(list) \cup ToSet(props)
        BY <4>3, <4>4, Joined
      <4>6. QED
        BY <1>p, <4>1, <4>2, <4>3, <4>5 DEF Due
    <3>5. Downward(fr) /\ Alike(fr, Top)
      BY <1>5, <3>3, <3>4
    <3>6. Continue(fr)
      BY <2>2, <3>1, <3>2
    <3>7. QED
      BY <1>s, <3>5, <3>6, DContinue
  <2>3. CASE UNCHANGED <<stack, ret, state>>
    <3>1. Chain(stack)' /\ (stack' # <<>> => Under(ret, ClassOf(Top))')
      BY <1>1, <2>3, SameText DEF DInv, Top, ClassOf
    <3>2. AncestorsUnder' /\ InheritedUnder' /\ TypesUnder' /\ DefStates'
      <4>1. /\ Defs' = Defs /\ (\A d : Def(d)' = Def(d)) /\ (\A x : Reach(x)' = Reach(x))
            /\ (\A type, x : Under(type, x)' <=> Under(type, x))
        BY <1>1, SameText, SameReach
      <4>2. QED
        BY <1>1, <2>3, <4>1 DEF DInv, AncestorsUnder, InheritedUnder, TypesUnder, DefStates
    <3>3. QED
      BY <2>3, <3>1, <3>2 DEF DInv
  <2>4. QED
    BY <1>7, <2>1, <2>2, <2>3 DEF ResolveEnter, c
<1>8. ASSUME Top.at \in {"deps", "funs"}, Top.todo # <<>>, NEW callee,
             Call([Top EXCEPT !.todo = Tail(@)], callee),
             \/ Head(Top.todo) \in Classes /\ callee = ResolveCall(Head(Top.todo), TRUE)
             \/ Head(Top.todo) \in Defs /\ callee = DefCall(Head(Top.todo))
      PROVE  Led
  <2>1. PICK x : x = Head(Top.todo)
    OBVIOUS
  <2>2. Due(x, c) /\ \A y \in ToSet(Tail(Top.todo)) : Due(y, c)
    <3>1. ToSet(Top.todo) = {Head(Top.todo)} \cup ToSet(Tail(Top.todo))
      BY <1>3, <1>8, NextAndRest
    <3>2. QED
      BY <1>3, <1>8, <2>1, <3>1
  <2>3. PICK fr : fr = [Top EXCEPT !.todo = Tail(@)]
    OBVIOUS
  <2>4. fr.fun = "resolve" /\ fr.def = c /\ fr.todo = Tail(Top.todo) /\ fr.at = Top.at
    BY <1>1, <1>2, <2>3 DEF c
  <2>5. Downward(fr) /\ Alike(fr, Top) /\ ClassOf(fr) = c /\ ~Evaluates(fr)
    BY <1>5, <1>8, <2>2, <2>4
  <2>6. Downward(callee) /\ Leads(fr, callee)
    <3>0. Classes \cap Defs = {}
      BY Apart DEF IInv
    <3>1. CASE x \in Classes /\ callee = ResolveCall(x, TRUE)
      <4>1. Downward(callee) /\ ClassOf(callee) = x /\ callee.fun = "resolve"
        BY <3>1, CalleesDown, CalleesLead
      <4>2. x \in Reach(c)
        BY <2>2, <3>0, <3>1 DEF Due
      <4>3. QED
        BY <2>5, <4>1, <4>2 DEF Leads, Down
    <3>2. CASE x \in Defs /\ callee = DefCall(x)
      <4>1. Downward(callee) /\ ClassOf(callee) = x[1] /\ callee.fun = "def" /\ callee.def = x
        BY <3>2, CalleesDown, CalleesLead
      <4>2. x[1] \in Down(c) /\ Def(x).kind # "alias"
        BY <2>2, <3>0, <3>2 DEF Due
      <4>3. QED
        BY <2>4, <2>5, <4>1, <4>2 DEF Leads
    <3>3. QED
      BY <1>8, <2>1, <3>1, <3>2
  <2>7. Call(fr, callee)
    BY <1>8, <2>3
  <2>8. QED
    BY <2>5, <2>6, <2>7, DCall
<1>9. CASE ResolveNext
  <2>1. PICK callee :
          /\ Call([Top EXCEPT !.todo = Tail(@)], callee) /\ Top.at = "deps" /\ Top.todo # <<>>
          /\ \/ Head(Top.todo) \in Classes /\ callee = ResolveCall(Head(Top.todo), TRUE)
             \/ Head(Top.todo) \in Defs /\ callee = DefCall(Head(Top.todo))
    BY <1>9 DEF ResolveNext, NextOf
  <2>2. QED
    BY <1>8, <1>s, <2>1
<1>10. CASE ResolveFun
  <2>1. /\ Call([Top EXCEPT !.todo = Tail(@)], DefCall(Head(Top.todo))) /\ Top.at = "funs" /\ Top.todo # <<>>
        /\ Head(Top.todo) \in Defs
    BY <1>10 DEF ResolveFun, NextOf
  <2>2. QED
    BY <1>8, <1>s, <2>1
<1>11. CASE ResolveFuns
  <2>1. PICK order \in SetToSeqs(ToSet(DefsOf(c, "fun"))) : Continue([Top EXCEPT !.at = "funs", !.todo = order])
    BY <1>11 DEF ResolveFuns, c
  <2>2. ToSet(order) = ToSet(DefsOf(c, "fun"))
    <3>1. IsFiniteSet(ToSet(DefsOf(c, "fun")))
      BY <1>2, <1>a, DefsOfIs, ElementsFinite
    <3>2. QED
      BY <3>1, Ordered
  <2>3. \A x \in ToSet(order) : Due(x, c)
    <3>1. ToSet(DefsOf(c, "fun")) = {d \in Defs : d[1] = c /\ Def(d).kind = "fun"}
      BY <1>2, <1>a, DefsOfIs
    <3>2. QED
      BY <2>2, <3>1 DEF Due, Down
  <2>4. PICK fr : fr = [Top EXCEPT !.at = "funs", !.todo = order]
    OBVIOUS
  <2>5. fr.fun = "resolve" /\ fr.def = c /\ fr.todo = order /\ fr.at = "funs"
    BY <1>1, <1>2, <2>4 DEF c
  <2>6. Downward(fr) /\ Alike(fr, Top) /\ Continue(fr)
    BY <1>5, <2>1, <2>3, <2>4, <2>5
  <2>7. QED
    BY <1>s, <2>6, DContinue
<1>12. CASE ResolveFail
  BY <1>s, <1>12, RunningUnder, DReturn DEF ResolveFail
<1>13. CASE ResolveDone
  <2>1. PICK todo : todo = Properties(c)
    OBVIOUS
  <2>2. PICK fr : fr = [Top EXCEPT !.at = "values", !.todo = todo, !.unions = {}]
    OBVIOUS
  <2>3. Continue(fr)
    BY <1>13, <2>1, <2>2 DEF ResolveDone, c
  <2>4. fr.fun = "resolve" /\ fr.def = c /\ fr.at = "values" /\ fr.todo = todo
    BY <1>1, <1>2, <2>2 DEF c
  <2>5. Downward(fr) /\ Alike(fr, Top)
    BY <1>5, <1>p, <2>1, <2>4
  <2>6. QED
    BY <1>s, <2>3, <2>5, DContinue
<1>14. QED
  BY <1>6, <1>7, <1>9, <1>10, <1>11, <1>12, <1>13 DEF ResolveStep

(* The steps of giving default values. *)
LEMMA ValueStepDown ==
    ASSUME IInv, DInv, stack # <<>>, ValueStep
    PROVE  DInv' /\ Led
<1> DEFINE c == Top.def
           d == Head(Top.todo)
<1>1. /\ Top.fun = "resolve" /\ Top.at \in AtValues /\ UNCHANGED <<prog, aliased, anc, inh>>
      /\ state' = state \/ state' = [state EXCEPT ![d] = "Unresolvable"]
      /\ IsFrame(Top, Defs) /\ prog \in Programs /\ state \in [Classes \cup Defs -> States]
  BY TopFrame DEF ValueStep, ValueNext, ValueGiven, ValueInit, ValueSet, ValueFail, ValuesDone,
                  Valuing, AtValues, IInv, Typed, defVars, SetState
<1>2. /\ c \in Classes /\ Top.todo \in Seq(Defs) /\ ClassOf(Top) = c
      /\ Top.at \in {"prop", "value"} => Top.todo # <<>>
      /\ {"fun", "def", "at", "todo", "unions"} \subseteq DOMAIN Top
  BY <1>1 DEF IsFrame, AtValues, ClassOf
<1>3. \A x \in ToSet(Top.todo) : Due(x, c)
  <2>1. Downward(Top)
    BY TopFrame DEF IInv, DInv, Chain
  <2>2. QED
    BY <1>1, <2>1 DEF Downward
<1>4. ASSUME Top.todo # <<>>
      PROVE  /\ d \in Defs /\ d[1] \in Down(c) /\ Def(d).kind # "alias"
             /\ \A x \in ToSet(Tail(Top.todo)) : Due(x, c)
  <2>1. d \in Defs /\ ToSet(Top.todo) = {d} \cup ToSet(Tail(Top.todo))
    BY <1>2, <1>4, NextAndRest
  <2>2. Due(d, c) /\ d \notin Classes
    BY <1>3, <2>1, Apart DEF IInv
  <2> HIDE DEF d
  <2>3. QED
    BY <1>3, <2>1, <2>2 DEF Due
<1> HIDE DEF c, d
<1>5. \A x \in Defs : state'[x] = state[x] \/ state'[x] = "Unresolvable"
  BY <1>1
<1>6. SUFFICES Led
  BY <1>1, <1>5, <1>6, DSame
<1>7. ASSUME NEW fr, fr.fun = "resolve", fr.def = c, \A x \in ToSet(fr.todo) : Due(x, c)
      PROVE  Downward(fr) /\ Alike(fr, Top) /\ ClassOf(fr) = c
  BY <1>1, <1>2, <1>7 DEF Downward, Alike, ClassOf
<1>8. ASSUME Top.todo # <<>>, NEW unions, Continue(NextValue(unions)) PROVE Led
  <2>1. PICK fr : fr = NextValue(unions)
    OBVIOUS
  <2>2. fr.fun = "resolve" /\ fr.def = c /\ fr.todo = Tail(Top.todo)
    BY <1>1, <1>2, <2>1 DEF NextValue, c
  <2>3. Downward(fr) /\ Alike(fr, Top)
    BY <1>4, <1>7, <1>8, <2>2
  <2>4. QED
    BY <1>8, <2>1, <2>3, DContinue
<1>9. CASE ValueNext
  <2>1. CASE \E unions : Continue(NextValue(unions))
    BY <1>8, <1>9, <2>1 DEF ValueNext
  <2>2. CASE \E unions : Call([Top EXCEPT !.at = "prop", !.unions = unions], DefCall(d))
    <3>1. PICK fr, unions : /\ fr = [Top EXCEPT !.at = "prop", !.unions = unions]
                            /\ Call(fr, DefCall(d))
      BY <2>2
    <3>2. fr.fun = "resolve" /\ fr.def = c /\ fr.todo = Top.todo /\ ~Evaluates(fr)
      BY <1>1, <1>2, <3>1 DEF Evaluates, c
    <3>3. Downward(fr) /\ Alike(fr, Top) /\ ClassOf(fr) = c
      BY <1>3, <1>7, <3>2
    <3>4. PICK callee : callee = DefCall(d)
      OBVIOUS
    <3>5. /\ Downward(callee) /\ ClassOf(callee) = d[1]
          /\ callee.fun = "def" /\ callee.def = d
      BY <3>4, CalleesDown, CalleesLead
    <3>6. d[1] \in Down(c) /\ Def(d).kind # "alias"
      BY <1>4, <1>9 DEF ValueNext
    <3>7. Leads(fr, callee)
      BY <3>2, <3>3, <3>5, <3>6 DEF Leads
    <3>8. QED
      BY <3>1, <3>3, <3>4, <3>5, <3>7, DCall
  <2>3. QED
    BY <1>9, <2>1, <2>2 DEF ValueNext, d
<1>10. CASE ValueGiven \/ ValueSet \/ ValueFail
  <2>1. Top.todo # <<>> /\ Continue(NextValue(Top.unions))
    BY <1>2, <1>10 DEF ValueGiven, ValueSet, ValueFail, Valuing
  <2>2. QED
    BY <1>8, <2>1
<1>11. CASE ValueInit
  <2>1. PICK fr, path, b, i :
          /\ fr = [Top EXCEPT !.at = "value"] /\ path = Def(d).init /\ b = d[1] /\ i = d[2]
          /\ Call(fr, TypeCall(path, b, i, None, TRUE))
          /\ path # <<>> /\ Top.todo # <<>>
    BY <1>2, <1>11 DEF ValueInit, Valuing, d
  <2>2. fr.fun = "resolve" /\ fr.def = c /\ fr.todo = Top.todo
    BY <1>1, <1>2, <2>1 DEF c
  <2>3. Downward(fr) /\ Alike(fr, Top) /\ ClassOf(fr) = c
    BY <1>3, <1>7, <2>2
  <2>4. PICK callee : callee = TypeCall(path, b, i, None, TRUE)
    OBVIOUS
  <2>5. d \in Defs /\ b \in Down(c)
    BY <1>4, <2>1
  <2>6. /\ path \in Seq(Names) \ {<<>>} /\ ToSet(path) \cap Classes \subseteq Reach(b)
        /\ HasExpr(b)
    BY <1>1, <2>1, <2>5, MentionedByDef
  <2>7. Downward(callee) /\ ClassOf(callee) = b /\ callee.fun = "type"
    <3>1. Downward(TypeCall(path, b, i, None, TRUE))
      BY ONLY <2>6, CalleesDown
    <3>2. QED
      BY <2>4, <3>1 DEF TypeCall, ClassOf
  <2>8. Leads(fr, callee)
    BY <2>3, <2>5, <2>6, <2>7 DEF Leads
  <2>9. QED
    BY <2>1, <2>3, <2>4, <2>7, <2>8, DCall
<1>12. CASE ValuesDone
  BY <1>12, RunningUnder, DReturn DEF ValuesDone
<1>13. QED
  BY <1>9, <1>10, <1>11, <1>12 DEF ValueStep

(* The steps of a call that resolves a typedef, property or function. *)
LEMMA DefStepDown ==
    ASSUME IInv, DInv, stack # <<>>, DefStep
    PROVE  DInv' /\ Led
<1> DEFINE d == Top.def
           c == d[1]
<1>1. /\ Top.fun = "def" /\ UNCHANGED <<prog, anc, inh>>
      /\ state' = state \/ \E s \in {"Resolving", "Resolved", "Unresolvable"} : state' = [state EXCEPT ![d] = s]
  BY DEF DefStep, DefEnter, CheckState, DefDim, DefFail, DefDone, defVars, SetState, WorkOn
<1>a. IsFrame(Top, Defs) /\ prog \in Programs /\ state \in [Classes \cup Defs -> States]
      /\ aliased \in [Defs -> TypesOf]
  BY TopFrame DEF IInv, Typed
<1>2. d \in Defs /\ c \in Classes /\ ClassOf(Top) = c /\ {"fun", "def", "at", "type"} \subseteq DOMAIN Top
  BY <1>1, <1>a, MentionedByDef DEF IsFrame, ClassOf
<1>3. Downward(Top) /\ Under(ret, c) /\ TypesUnder
  BY <1>2, TopFrame DEF IInv, DInv, Chain
<1> HIDE DEF d, c
<1>4. ASSUME NEW fr, fr.fun = "def", fr.def = d, fr.at = "dim" => fr.type # NoType /\ Under(fr.type, c)
      PROVE  Downward(fr) /\ Alike(fr, Top) /\ ClassOf(fr) = c
  BY <1>1, <1>2, <1>4 DEF Downward, Alike, ClassOf, c, d
<1>5. ASSUME Led, UNCHANGED defVars,
             \A x \in Defs : state'[x] = state[x] \/ state'[x] \in {"Resolving", "Unresolvable"}
      PROVE  DInv'
  BY <1>1, <1>5, DSame DEF defVars
<1>6. ASSUME NEW fr, Downward(fr), Alike(fr, Top), ClassOf(fr) = c, NEW path \in Seq(Names) \ {<<>>},
             ToSet(path) \cap Classes \subseteq Reach(c), NEW i, NEW except, NEW full,
             Call(fr, TypeCall(path, c, i, except, full)), Evaluates(fr) => HasExpr(c)
      PROVE  Led
  <2>1. PICK callee : callee = TypeCall(path, c, i, except, full)
    OBVIOUS
  <2>2. ClassOf(callee) = c /\ callee.fun = "type"
    BY <2>1 DEF TypeCall, ClassOf
  <2>3. Downward(callee)
    BY <1>6, <2>1, CalleesDown
  <2>4. Leads(fr, callee)
    BY <1>6, <2>2 DEF Leads, Down
  <2>5. QED
    BY <1>6, <2>1, <2>3, <2>4, DCall
<1>7. CASE DefEnter
  <2>1. UNCHANGED defVars /\ Top.at = "enter"
    BY <1>7 DEF DefEnter
  <2>2. CASE state[d] # "NotResolved"
    <3>1. CheckState(d)
      BY <1>7, <2>2 DEF DefEnter, d
    <3>2. CASE state[d] = "Resolved"
      <4>1. Under(aliased[d], c)
        BY <1>2, <1>3 DEF TypesUnder, c
      <4>2. Return(aliased[d]) /\ state' = state
        BY <3>1, <3>2 DEF CheckState
      <4>3. QED
        BY <1>2, <1>5, <2>1, <4>1, <4>2, DReturn
    <3>3. CASE state[d] # "Resolved"
      <4>1. Return(False) /\ state' = [state EXCEPT ![d] = "Unresolvable"]
        BY <3>1, <3>3 DEF CheckState, SetState
      <4>2. QED
        BY <1>2, <1>5, <1>a, <2>1, <4>1, RunningUnder, DReturn
    <3>4. QED
      BY <3>2, <3>3
  <2>3. CASE state[d] = "NotResolved"
    <3>1. PICK fr, path, i, except, full :
            /\ fr = [Top EXCEPT !.at = "type"] /\ path = Def(d).path
            /\ Call(fr, TypeCall(path, c, i, except, full))
            /\ state' = [state EXCEPT ![d] = "Resolving"]
      BY <1>7, <2>3 DEF DefEnter, WorkOn, SetState, c, d
    <3>2. fr.fun = "def" /\ fr.def = d /\ fr.at = "type"
      BY <1>1, <1>2, <3>1 DEF d
    <3>3. Downward(fr) /\ Alike(fr, Top) /\ ClassOf(fr) = c
      BY <1>4, <3>2
    <3>4. path \in Seq(Names) \ {<<>>} /\ ToSet(path) \cap Classes \subseteq Reach(c)
      BY <1>2, <1>a, <3>1, MentionedByDef DEF c
    <3>5. Led
      BY <1>6, <3>1, <3>2, <3>3, <3>4 DEF Evaluates
    <3>6. QED
      BY <1>5, <1>a, <2>1, <3>1, <3>5
  <2>4. QED
    BY <2>2, <2>3
<1>8. CASE DefDim
  <2>1. PICK fr, path, i, type :
          /\ fr = [Top EXCEPT !.at = "dim", !.type = type] /\ path = Def(d).dim /\ type = ret
          /\ Call(fr, TypeCall(path, c, i, None, TRUE))
          /\ path # <<>> /\ type # NoType /\ UNCHANGED defVars /\ state' = state
    BY <1>8 DEF DefDim, c, d
  <2>2. fr.fun = "def" /\ fr.def = d /\ fr.type = type
    BY <1>1, <1>2, <2>1 DEF d
  <2>3. Downward(fr) /\ Alike(fr, Top) /\ ClassOf(fr) = c
    BY <1>3, <1>4, <2>1, <2>2
  <2>4. path \in Seq(Names) \ {<<>>} /\ ToSet(path) \cap Classes \subseteq Reach(c) /\ HasExpr(c)
    BY <1>2, <1>a, <2>1, MentionedByDef DEF c
  <2>5. Led
    BY <1>6, <2>1, <2>3, <2>4
  <2>6. QED
    BY <1>5, <2>1, <2>5
<1>9. CASE DefFail
  <2>1. Return(False) /\ UNCHANGED defVars /\ state' = [state EXCEPT ![d] = "Unresolvable"]
    BY <1>9 DEF DefFail, SetState, d
  <2>2. QED
    BY <1>5, <1>a, <2>1, RunningUnder, DReturn
<1>10. CASE DefDone
  <2>1. PICK type :
          /\ type = (IF Top.at = "dim" THEN ArrayOf(Top.type) ELSE ret)
          /\ aliased' = [aliased EXCEPT ![d] = type]
          /\ Return(aliased'[d]) /\ ret # NoType
          /\ state' = [state EXCEPT ![d] = "Resolved"]
    BY <1>10 DEF DefDone, SetState, d
  <2>2. type # NoType /\ Under(type, c)
    <3>1. CASE Top.at = "dim"
      <4>1. Top.type # NoType /\ Under(Top.type, c) /\ Top.type \in TypesOf
        BY <1>1, <1>3, <1>a, <3>1 DEF Downward, IsFrame, c, d
      <4>2. PICK t : t = Top.type
        OBVIOUS
      <4>3. /\ type = [t EXCEPT !.of = IF t.of = "int" THEN "int" ELSE "array"]
            /\ t \in [of : {"none", "int", "class", "array", "running"}, cls : Classes \cup {None}]
        BY <2>1, <3>1, <4>1, <4>2 DEF ArrayOf, TypesOf
      <4>4. type.of \in {"int", "array"} /\ type.cls = t.cls
        BY <4>3
      <4>5. QED
        BY <4>1, <4>2, <4>4 DEF Under, NoType
    <3>2. QED
      BY <1>3, <2>1, <3>1
  <2>3. aliased'[d] = type /\ \A x \in Defs : x # d => aliased'[x] = aliased[x] /\ state'[x] = state[x]
    BY <1>2, <1>a, <2>1
  <2>4. Led
    BY <1>2, <2>1, <2>2, <2>3, DReturn
  <2>5. /\ Defs' = Defs /\ (\A e : Def(e)' = Def(e)) /\ (\A x : Reach(x)' = Reach(x))
        /\ (\A t, x : Under(t, x)' <=> Under(t, x)) /\ \A s : Chain(s)' <=> Chain(s)
    BY <1>1, SameText, SameReach
  <2>6. Chain(stack)' /\ (stack' # <<>> => Under(ret, ClassOf(Top))')
    BY <2>4, <2>5 DEF Led, Chain, Top, ClassOf, Under, Downward, Leads
  <2>7. AncestorsUnder' /\ InheritedUnder'
    BY <1>1, <2>5 DEF DInv, AncestorsUnder, InheritedUnder
  <2>8. TypesUnder'
    BY <1>3, <2>2, <2>3, <2>5 DEF TypesUnder, c
  <2>9. DefStates'
    <3>1. state'[d] = "Resolved"
      BY <1>2, <1>a, <2>1
    <3>2. QED
      BY <2>3, <2>5, <3>1 DEF DInv, DefStates
  <2>10. QED
    BY <2>4, <2>6, <2>7, <2>8, <2>9 DEF DInv
<1>11. QED
  BY <1>7, <1>8, <1>9, <1>10 DEF DefStep

(* A round calls with nothing under way. *)
LEMMA IdleStepDown ==
    ASSUME DInv, stack = <<>>,
           InitModules \/ ResolveSome \/ ResolvedSome \/ ResolveRest \/ RestNext
    PROVE  DInv' /\ UNCHANGED <<prog, state>> /\ (errors => errors') /\ (stack' # <<>> => ret' = Running)
<1>1. UNCHANGED <<prog, state, defVars, errors>> /\ (stack' # <<>> => ret' = Running)
  BY DEF InitModules, ResolveSome, ResolvedSome, ResolveRest, RestNext, Returned
<1>2. \/ stack' = <<>>
      \/ \E callee : stack' = <<callee>> /\ Downward(callee)
  <2>1. \/ stack' = <<>>
        \/ \E c, note : stack' = <<InitCall(c, note)>> \/ stack' = <<ResolveCall(c, note)>>
        \/ \E d : stack' = <<DefCall(d)>>
    BY DEF InitModules, ResolveSome, ResolvedSome, ResolveRest, RestNext
  <2>2. QED
    BY <2>1, CalleesDown
<1>3. Led
  <2>1. Len(stack) = 0
    BY EmptySeq
  <2>2. Chain(stack')
    <3>1. CASE stack' = <<>>
      BY <3>1 DEF Chain
    <3>2. CASE \E callee : stack' = <<callee>> /\ Downward(callee)
      BY <3>2 DEF Chain
    <3>3. QED
      BY <1>2, <3>1, <3>2
  <2>3. \A i \in 1 .. Len(stack) - 1 : FALSE
    BY <2>1
  <2>4. QED
    BY <1>1, <2>2, <2>3, RunningUnder DEF Led
<1>4. QED
  BY <1>1, <1>3, DSame DEF defVars

LEMMA InitDown == Init => DInv
<1> SUFFICES ASSUME Init PROVE DInv
  OBVIOUS
<1>1. stack = <<>> /\ Chain(stack)
  BY DEF Init, Chain
<1>2. AncestorsUnder /\ InheritedUnder
  BY DEF Init, AncestorsUnder, InheritedUnder
<1>3. TypesUnder /\ DefStates
  <2>1. \A d \in Defs : aliased[d] = NoType /\ state[d] = "NotResolved"
    BY DEF Init
  <2>2. \A c : Under(NoType, c)
    BY DEF Under, NoType
  <2>3. QED
    BY <2>1, <2>2 DEF TypesUnder, DefStates
<1>4. QED
  BY <1>1, <1>2, <1>3 DEF DInv

(* No step breaks it. *)
LEMMA StepDown == IInv /\ WInv /\ DInv /\ [Next]_vars => DInv'
<1> SUFFICES ASSUME IInv, WInv, DInv, [Next]_vars PROVE DInv'
  OBVIOUS
<1>1. CASE UNCHANGED vars
  <2>1. UNCHANGED <<prog, state, aliased, anc, inh, stack, ret>>
    BY <1>1 DEF vars, defVars
  <2>2. /\ Defs' = Defs /\ (\A d : Def(d)' = Def(d)) /\ (\A c : Reach(c)' = Reach(c))
        /\ (\A type, c : Under(type, c)' <=> Under(type, c)) /\ \A s : Chain(s)' <=> Chain(s)
    BY <2>1, SameText, SameReach
  <2>3. Chain(stack)' /\ (stack' # <<>> => Under(ret, ClassOf(Top))')
    BY <2>1, <2>2 DEF DInv, Top, ClassOf
  <2>4. AncestorsUnder' /\ InheritedUnder' /\ TypesUnder' /\ DefStates'
    BY <2>1, <2>2 DEF DInv, AncestorsUnder, InheritedUnder, TypesUnder, DefStates
  <2>5. QED
    BY <2>3, <2>4 DEF DInv
<1>2. CASE stack # <<>> /\ (InitStep \/ ResolveStep \/ ValueStep \/ DefStep \/ TypeStep)
  BY <1>2, InitStepDown, ResolveStepDown, ValueStepDown, DefStepDown, TypeStepDown
<1>3. CASE InitModules \/ ResolveSome \/ ResolvedSome \/ ResolveRest \/ RestNext
  <2>1. stack = <<>>
    BY <1>3 DEF InitModules, ResolveSome, ResolvedSome, ResolveRest, RestNext, Idle
  <2>2. QED
    BY <1>3, <2>1, IdleStepDown
<1>4. QED
  BY <1>1, <1>2, <1>3 DEF Next, Idle

-----------------------------------------------------------------------------
(* Classes that are come across *)

Failed == {x \in Classes \cup Defs : state[x] = "Unresolvable"}
Over == Good \cup Failed

(* The classes that the rounds know of. *)
Known ==
    found \cup round.processed
      \cup (IF round.phase \in {"resolve", "done"} THEN round.todo \cup round.current \cup round.good ELSE {})

About(fr, c) == fr.fun \in {"init", "resolve"} /\ fr.def = c

(* A class that has failed for good: no call is resolving it any more.     *)
Lost(c) == c \in Failed /\ At("resolve", c) = {}

(* Only the first call of a round, and the one that initialises the class  *)
(* of a call that waits for it, note nothing.                              *)
Noting(fr, callee) ==
    /\ callee.fun = "init" /\ ~callee.note => About(fr, callee.def) /\ fr.fun = "resolve"
    /\ callee.fun = "resolve" => callee.note
    /\ fr.fun = "resolve" /\ fr.at = "enter" => callee.fun = "init" /\ callee.def = fr.def

HasNote(fr) == fr.fun \in {"init", "resolve"} => "note" \in DOMAIN fr

StackNotes ==
    /\ \A i \in DOMAIN stack : HasNote(stack[i])
    /\ \A i \in DOMAIN stack : i # Len(stack) => Noting(stack[i], stack[i + 1])
    /\ stack # <<>> /\ ret = False /\ Top.fun = "resolve" /\ Top.at = "enter" => Top.def \in Failed

FirstCall(fr) ==
    \/ round.phase = "modules" /\ fr.fun = "init" /\ fr.note
    \/ round.phase = "resolve" /\ fr.fun = "resolve" /\ round.current = {fr.def}
    \/ round.phase = "rest" /\ fr.fun = "def"

(* The rounds know of what was noted, but for what they failed to resolve. *)
Tracked(c) == c \in met => c \in Known \/ Lost(c)

(* What was looked at was noted, unless for an expression, or will be.     *)
Seen(c) ==
    state[c] # "NotResolved" =>
        c \in met \cup InExprs \cup Failed \/ \E i \in DOMAIN stack : About(stack[i], c)

NInv ==
    /\ StackNotes
    /\ stack # <<>> => FirstCall(stack[1])
    /\ Known \subseteq met
    /\ \A c \in Classes : Tracked(c) /\ Seen(c)

-----------------------------------------------------------------------------
(* What expressions lead to *)

(* The calls that an expression leads to are for classes that the class    *)
(* with the expression leads to.                                           *)
LEMMA ExprLeads ==
    ASSUME IInv, DInv, NEW i \in DOMAIN stack, Evaluates(stack[i]),
           NEW j \in DOMAIN stack, i < j, stack[j].fun \in {"init", "resolve"}
    PROVE  ClassOf(stack[j]) \in InExprs
<1> DEFINE n == Len(stack)
           b == ClassOf(stack[i + 1])
           m == j - (i + 1)
           N == {k \in 0 .. m :
                   /\ ClassOf(stack[(i + 1) + k]) \in Down(b)
                   /\ stack[(i + 1) + k].fun \in {"init", "resolve"} =>
                        ClassOf(stack[(i + 1) + k]) \in Reach(b)}
<1>1. n \in Nat /\ DOMAIN stack = 1 .. n
  BY LenProperties DEF IInv, Stacked
<1>2. \A k \in DOMAIN stack : ClassOf(stack[k]) \in Classes
  BY ClassOfFrame DEF IInv, Stacked
<1>3. Chain(stack)
  BY DEF DInv
<1>4. i + 1 \in DOMAIN stack /\ i # n
  BY <1>1
<1>5. m \in Nat /\ \A k \in 1 .. m : /\ (i + 1) + (k - 1) \in 1 .. n /\ (i + 1) + (k - 1) # n
                                    /\ ((i + 1) + (k - 1)) + 1 = (i + 1) + k
  BY <1>1
<1>6. stack[i + 1].fun = "type" /\ HasExpr(b) /\ b \in Classes
  BY <1>2, <1>3, <1>4 DEF Chain, Leads
<1> HIDE DEF b
<1>7. 0 \in N
  <2>1. (i + 1) + 0 = i + 1 /\ 0 \in 0 .. m
    BY <1>1, <1>5
  <2>2. QED
    BY <1>6, <2>1 DEF Down, b
<1>8. ASSUME NEW k \in 1 .. m, k - 1 \in N PROVE k \in N
  <2>1. PICK l : l = (i + 1) + (k - 1)
    OBVIOUS
  <2>2. l \in DOMAIN stack /\ l # n /\ l + 1 = (i + 1) + k /\ k \in 0 .. m
    BY <1>1, <1>5, <1>8, <2>1
  <2>3. Leads(stack[l], stack[l + 1])
    BY <1>3, <2>2 DEF Chain
  <2>4. PICK x, y : x = ClassOf(stack[l]) /\ y = ClassOf(stack[l + 1])
    OBVIOUS
  <2>5. /\ x \in Classes /\ x \in Down(b)
        /\ stack[l].fun \in {"init", "resolve"} => x \in Reach(b)
    BY <1>2, <1>8, <2>1, <2>2, <2>4
  <2>6. Down(x) \subseteq Down(b) /\ Reach(x) \subseteq Reach(b)
    BY <1>6, <2>5, DownOn
  <2>7. /\ y \in Down(x)
        /\ stack[l + 1].fun = "resolve" => y \in Reach(x)
        /\ stack[l + 1].fun = "init" => y \in Reach(x) \/ (stack[l].fun = "resolve" /\ y = x)
    BY <2>3, <2>4 DEF Leads
  <2>8. y \in Down(b) /\ (stack[l + 1].fun \in {"init", "resolve"} => y \in Reach(b))
    BY <2>5, <2>6, <2>7
  <2>9. QED
    BY <2>2, <2>4, <2>8
<1>9. 0 .. m \subseteq N
  <2> HIDE DEF N
  <2>1. QED
    BY <1>5, <1>7, <1>8, CountingUp
<1>10. m \in N /\ (i + 1) + m = j
  <2>1. \A p, q \in Int : (p + 1) + (q - (p + 1)) = q
    OBVIOUS
  <2>2. \A p \in Nat : p \in 0 .. p
    OBVIOUS
  <2>3. i \in Int /\ j \in Int /\ m \in Nat
    BY <1>1, <1>5
  <2>4. (i + 1) + m = j
    BY <2>1, <2>3
  <2>5. m \in 0 .. m
    <3> HIDE DEF m
    <3>1. QED
      BY <2>2, <2>3
  <2>6. m \in N
    <3> HIDE DEF m, N
    <3>1. QED
      BY <1>9, <2>5
  <2>7. QED
    BY <2>4, <2>6
<1>11. ClassOf(stack[j]) \in Reach(b)
  BY <1>10
<1>12. QED
  BY <1>6, <1>11 DEF InExprs

(* What a call says of its class is noted, or it is for an expression.     *)
LEMMA NotedOrExpr ==
    ASSUME IInv, DInv, stack # <<>>, Top.fun \in {"init", "resolve"}, ~Evaluates(Top),
           met' = Met(True), Top.note
    PROVE  Top.def \in met' \/ (InExpr /\ Top.def \in InExprs)
<1>1. CASE ~InExpr
  BY <1>1 DEF Met, IsNoted
<1>2. CASE InExpr
  <2>1. PICK i \in DOMAIN stack : Evaluates(stack[i])
    BY <1>2 DEF InExpr
  <2>2. Len(stack) \in DOMAIN stack /\ Top = stack[Len(stack)] /\ DOMAIN stack = 1 .. Len(stack)
    BY TopFrame DEF IInv
  <2>3. Len(stack) \in Nat
    BY LenProperties DEF IInv, Stacked
  <2>4. i < Len(stack)
    BY <2>1, <2>2, <2>3
  <2>5. ClassOf(Top) \in InExprs
    BY <2>1, <2>2, <2>4, ExprLeads
  <2>6. ClassOf(Top) = Top.def
    BY DEF ClassOf
  <2>7. QED
    BY <1>2, <2>5, <2>6
<1>3. QED
  BY <1>1, <1>2

LEMMA SameExprs == ASSUME prog' = prog PROVE InExprs' = InExprs
<1>1. (\A c : Reach(c)' = Reach(c)) /\ \A c : HasExpr(c)' <=> HasExpr(c)
  BY SameReach DEF HasExpr, Members, Def
<1>2. QED
  BY <1>1 DEF InExprs

(* What has failed for good stays so. *)
LEMMA StaysLost ==
    ASSUME IInv, VInv, stack # <<>>, Calling, NEW c \in Classes, Lost(c)
    PROVE  Lost(c)'
<1>1. /\ state[c] = "Unresolvable" /\ At("resolve", c) = {}
      /\ state \in [Classes \cup Defs -> States] /\ Classes \cap Defs = {}
  BY Apart DEF Lost, Failed, IInv, Typed
<1>2. Len(stack) \in DOMAIN stack /\ Top = stack[Len(stack)] /\ IsFrame(Top, Defs)
  BY TopFrame DEF IInv
<1>3. ASSUME NEW fr, NEW callee, Moves(fr, callee), ~Works(fr, "resolve", c)
      PROVE  At("resolve", c)' = {}
  <2>1. ASSUME NEW j \in DOMAIN stack', Works(stack'[j], "resolve", c) PROVE FALSE
    <3>1. \/ j \in DOMAIN stack /\ stack'[j] = stack[j]
          \/ stack'[j] = fr
          \/ New(stack'[j])
      BY <1>3, FramesMoved DEF IInv
    <3>2. QED
      BY <1>1, <1>3, <2>1, <3>1, NewWorks DEF At
  <2>2. QED
    BY <2>1 DEF At
<1>4. ASSUME At("resolve", c)' = {}, state'[c] = "Unresolvable" PROVE Lost(c)'
  BY <1>4 DEF Lost, Failed
<1>5. CASE About(Top, c)
  <2>1. \A at \in {"deps", "funs"} : ~(Top.fun = "resolve" /\ Top.at = at)
    BY <1>1, <1>2, <1>5 DEF At, Works, About
  <2>2. ~GivesValues(Top)
    <3>1. Gives(Top, ResolvedClasses, Missing, prog.unions, aborted)
      BY <1>2 DEF VInv
    <3>2. QED
      BY <1>1, <1>5, <3>1 DEF Gives, ResolvedClasses, About, GivesValues
  <2>3. Top.fun = "init" => Top.at = 0
    <3>1. At("init", c) = {}
      BY <1>1 DEF IInv, Marked
    <3>2. QED
      BY <1>2, <1>5, <3>1 DEF At, Works, About
  <2>4. \/ Top.fun = "init" /\ Top.at = 0 /\ Top.def = c
        \/ Top.fun = "resolve" /\ Top.at \in {"init", "enter"} /\ Top.def = c
    BY <1>2, <1>5, <2>1, <2>2, <2>3 DEF About, IsFrame, GivesValues
  <2>5. CASE Top.fun = "init"
    <3>1. InitEnter \/ InitParent \/ InitDone
      BY <2>4, <2>5, <1>2 DEF Calling, InitStep, InitAddParent, InitFail, ResolveStep, ValueStep,
         DefStep, TypeStep, ResolveInit, ResolveEnter, ResolveNext, ResolveFuns, ResolveFun,
         ResolveFail, ResolveDone, ValueNext, ValueGiven, ValueInit, ValueSet, ValueFail, ValuesDone,
         Valuing, DefEnter, DefDim, DefFail, DefDone, TypeBuiltin, TypeInScope, TypeInScopeDone,
         TypeExport, TypePrepare, TypePrepared, TypeUnprepared, TypeClass, TypeMember, TypeMemberDone
    <3>2. CASE InitParent
      <4>1. PICK callee : Call(Top, callee) /\ New(callee) /\ state' = state
        BY <3>2 DEF InitParent, New
      <4>2. QED
        BY <1>1, <1>3, <1>4, <2>5, <4>1 DEF Moves, Works
    <3>3. ~InitDone
      BY <2>4, <2>5 DEF InitDone
    <3>4. CASE InitEnter
      <4>1. Return(False) /\ state' = state
        BY <1>1, <2>4, <2>5, <3>4 DEF InitEnter
      <4>2. QED
        BY <1>1, <1>3, <1>4, <2>5, <4>1 DEF Moves, Works
    <3>5. QED
      BY <3>1, <3>2, <3>3, <3>4
  <2>6. CASE Top.fun = "resolve"
    <3>1. ResolveInit \/ ResolveEnter
      BY <2>4, <2>6 DEF Calling, InitStep, InitEnter, InitParent, InitDone, InitAddParent, InitFail,
         ResolveStep, ValueStep, DefStep, TypeStep, ResolveNext, ResolveFuns, ResolveFun,
         ResolveFail, ResolveDone, ValueNext, ValueGiven, ValueInit, ValueSet, ValueFail, ValuesDone,
         Valuing, DefEnter, DefDim, DefFail, DefDone, TypeBuiltin, TypeInScope, TypeInScopeDone,
         TypeExport, TypePrepare, TypePrepared, TypeUnprepared, TypeClass, TypeMember, TypeMemberDone
    <3>2. CASE ResolveInit
      <4> DEFINE fr == [Top EXCEPT !.at = "enter"]
                 callee == InitCall(c, FALSE)
      <4>1. Call(fr, callee) /\ New(callee) /\ state' = state
        BY <2>4, <2>6, <3>2 DEF ResolveInit, New
      <4>2. fr.at = "enter"
        BY <1>2, <2>6 DEF IsFrame
      <4> HIDE DEF fr, callee
      <4>3. QED
        BY <1>1, <1>3, <1>4, <4>1, <4>2 DEF Moves, Works
    <3>3. CASE ResolveEnter
      <4>1. Return(False) /\ state' = state
        BY <1>1, <2>4, <2>6, <3>3 DEF ResolveEnter
      <4>2. ~Works(Top, "resolve", c)
        BY <2>4, <2>6 DEF Works
      <4>3. QED
        BY <1>1, <1>3, <1>4, <4>1, <4>2 DEF Moves
    <3>4. QED
      BY <3>1, <3>2, <3>3
  <2>7. QED
    BY <1>5, <2>5, <2>6 DEF About
<1>6. CASE ~About(Top, c)
  <2>1. state'[c] = "Unresolvable"
    <3>1. ASSUME NEW x, NEW s, state' = state \/ state' = [state EXCEPT ![x] = s], x # c
          PROVE  state'[c] = "Unresolvable"
      BY <1>1, <3>1
    <3>2. CASE InitStep \/ ResolveStep \/ DefStep
      <4>1. /\ state' = state \/ \E s : state' = [state EXCEPT ![Top.def] = s]
            /\ Top.fun \in {"init", "resolve", "def"}
        BY <3>2 DEF InitStep, InitEnter, InitParent, InitDone, InitAddParent, InitFail,
           ResolveStep, DefStep, ResolveInit, ResolveEnter, ResolveNext, ResolveFuns, ResolveFun,
           ResolveFail, ResolveDone, DefEnter, DefDim, DefFail, DefDone, CheckState, SetState, WorkOn
      <4>2. Top.def # c
        BY <1>1, <1>2, <1>6, <4>1 DEF About, IsFrame
      <4>3. PICK s : state' = state \/ state' = [state EXCEPT ![Top.def] = s]
        BY <4>1
      <4>4. QED
        BY <3>1, <4>2, <4>3
    <3>3. CASE TypeStep
      <4>1. state' = state
        BY <3>3 DEF TypeStep, TypeBuiltin, TypeInScope, TypeInScopeDone,
          TypeExport, TypePrepare, TypePrepared, TypeUnprepared, TypeClass, TypeMember, TypeMemberDone
      <4>2. QED
        BY <1>1, <4>1
    <3>4. CASE ValueStep
      <4>1. PICK d : d = Head(Top.todo)
        OBVIOUS
      <4>2. /\ state' = state \/ (state' = [state EXCEPT ![d] = "Unresolvable"] /\ Top.at = "value")
            /\ Top.fun = "resolve"
        BY <3>4, <4>1 DEF ValueStep, ValueNext, ValueGiven, ValueInit, ValueSet, ValueFail, ValuesDone,
                    Valuing, SetState
      <4>3. Top.at = "value" => d \in Defs
        <5>1. Top.at = "value" => Top.todo \in Seq(Defs) /\ Top.todo # <<>>
          BY <1>2, <4>2 DEF IsFrame, AtValues
        <5>2. QED
          BY <4>1, <5>1, NextAndRest
      <4>4. CASE state' = state
        BY <1>1, <4>4
      <4>5. CASE state' = [state EXCEPT ![d] = "Unresolvable"] /\ Top.at = "value"
        BY <1>1, <3>1, <4>3, <4>5
      <4>6. QED
        BY <4>2, <4>4, <4>5
    <3>5. QED
      BY <3>2, <3>3, <3>4 DEF Calling
  <2>2. PICK fr, callee : /\ fr.fun = Top.fun
                          /\ Top.fun # "type" => fr.def = Top.def
                          /\ Moves(fr, callee)
    BY StepFrames
  <2>3. ~Works(fr, "resolve", c)
    BY <1>6, <2>2 DEF Works, About
  <2>4. QED
    BY <1>3, <1>4, <2>1, <2>2, <2>3
<1>7. QED
  BY <1>5, <1>6

-----------------------------------------------------------------------------
(* What the calls note *)

(* What a class is come across for is noted, by its call, by the one that  *)
(* waits for it, or by the round.                                          *)
LEMMA Covered ==
    ASSUME IInv, NInv, stack # <<>>, NEW c, About(Top, c)
    PROVE  \/ Top.note
           \/ c \in Known
           \/ Len(stack) > 1 /\ About(stack[Len(stack) - 1], c)
<1> DEFINE n == Len(stack)
<1>1. n \in Nat /\ n # 0 /\ DOMAIN stack = 1 .. n /\ Top = stack[n]
  BY TopFrame, EmptySeq DEF IInv
<1> HIDE DEF n
<1>2. \A i \in 1 .. n : i # n => Noting(stack[i], stack[i + 1])
  BY <1>1 DEF NInv, StackNotes, n
<1>3. ASSUME NEW i \in 1 .. n, stack[i].fun = "resolve", ~stack[i].note
      PROVE  stack[i].def \in Known
  <2>1. CASE i = 1
    <3>1. round.phase = "resolve" /\ round.current = {stack[i].def}
      BY <1>3, <2>1 DEF NInv, FirstCall
    <3>2. QED
      BY <3>1 DEF Known
  <2>2. CASE i # 1
    <3>1. i - 1 \in 1 .. n /\ i - 1 # n /\ (i - 1) + 1 = i
      BY <1>1, <2>2
    <3>2. Noting(stack[i - 1], stack[i])
      BY <1>2, <3>1
    <3>3. QED
      BY <1>3, <3>2 DEF Noting
  <2>3. QED
    BY <2>1, <2>2
<1>4. CASE Top.fun = "resolve"
  BY <1>1, <1>3, <1>4 DEF About
<1>5. CASE Top.fun = "init" /\ ~Top.note
  <2>1. n # 1
    BY <1>1, <1>5 DEF NInv, FirstCall
  <2>2. n - 1 \in 1 .. n /\ n - 1 # n /\ (n - 1) + 1 = n /\ n > 1
    BY <1>1, <2>1
  <2>3. About(stack[n - 1], c) /\ stack[n - 1].fun = "resolve"
    BY <1>1, <1>2, <1>5, <2>2 DEF Noting, About
  <2>4. QED
    BY <2>2, <2>3 DEF n
<1>6. QED
  BY <1>4, <1>5 DEF About

(* The call goes on as fr. *)
SameNote(fr, old) ==
    /\ fr.fun = old.fun
    /\ fr.fun \in {"init", "resolve"} => fr.def = old.def /\ fr.note = old.note /\ "note" \in DOMAIN fr
    /\ fr.fun = "def" => fr.def = old.def

(* What a call says of its class when it returns. *)
Reports(type) ==
    /\ Top.fun \in {"init", "resolve"} =>
         /\ type = False => Top.def \in Failed'
         /\ type # False /\ Top.note => Top.def \in met' \/ (InExpr /\ Top.def \in InExprs)
    /\ Top.fun = "resolve" => type # Running /\ (type # False => Top.def \in Good')
    /\ Top.fun = "def" => Top.def \in Over'

(* The steps of the calls change the state of no class but their own, and  *)
(* leave the rounds alone.                                                 *)
Local ==
    /\ prog' = prog /\ round' = round /\ Good \subseteq Good'
    /\ found \subseteq found' /\ met \subseteq met'
    /\ found' \subseteq found \cup met' /\ met' \subseteq met \cup found'
    /\ \A c \in Classes : state'[c] = state[c] \/ About(Top, c)
    /\ \A c \in Classes : Lost(c) => Lost(c)'
    /\ Over \cap Defs \subseteq Over'

(* A class that is tracked stays so. *)
LEMMA Tracks ==
    ASSUME IInv, NInv, stack # <<>>, Local,
           \A i \in 1 .. Len(stack) - 1 : i \in DOMAIN stack' /\ stack'[i] = stack[i],
           \/ \E fr : Len(stack) \in DOMAIN stack' /\ stack'[Len(stack)] = fr /\ SameNote(fr, Top)
           \/ \E type : Reports(type)
    PROVE  Known' \subseteq met' /\ \A c \in Classes : Tracked(c)' /\ Seen(c)'
<1> DEFINE n == Len(stack)
<1>1. n \in Nat /\ n # 0 /\ DOMAIN stack = 1 .. n /\ Top = stack[n]
  BY TopFrame, EmptySeq DEF IInv
<1>2. Known \subseteq Known' /\ found' \subseteq Known' /\ Known' \subseteq Known \cup found'
  BY DEF Local, Known
<1>3. Known' \subseteq met'
  <2>1. Known \subseteq met /\ met \subseteq met' /\ found' \subseteq found \cup met'
    BY DEF Local, NInv
  <2>2. found \subseteq Known
    BY DEF Known
  <2>3. QED
    BY ONLY <1>2, <2>1, <2>2
<1>4. ASSUME NEW c \in Classes PROVE Tracked(c)'
  BY <1>2 DEF Local, NInv, Tracked
<1>5. ASSUME NEW c \in Classes PROVE Seen(c)'
  <2>1. InExprs' = InExprs
    BY SameExprs DEF Local
  <2>2. ASSUME NEW i \in 1 .. n - 1, About(stack[i], c) PROVE Seen(c)'
    <3>1. i \in DOMAIN stack' /\ About(stack'[i], c)
      BY <2>2
    <3>2. QED
      BY <3>1 DEF Seen, About
  <2>3. CASE About(Top, c)
    <3>1. ASSUME NEW fr, n \in DOMAIN stack', stack'[n] = fr, SameNote(fr, Top) PROVE Seen(c)'
      <4>1. n \in DOMAIN stack' /\ About(stack'[n], c)
        BY <2>3, <3>1 DEF SameNote, About
      <4>2. QED
        BY <4>1 DEF Seen, About
    <3>2. ASSUME NEW type, Reports(type) PROVE Seen(c)'
      <4>1. CASE c \in Failed' \/ c \in met' \/ c \in InExprs
        BY <2>1, <4>1 DEF Seen
      <4>2. CASE ~Top.note
        <5>1. CASE c \in Known
          BY <1>2, <1>3, <4>1, <5>1
        <5>2. CASE n > 1 /\ About(stack[n - 1], c)
          <6>1. n - 1 \in 1 .. n - 1
            BY <1>1, <5>2
          <6>2. QED
            BY <2>2, <5>2, <6>1
        <5>3. QED
          BY <2>3, <4>2, <5>1, <5>2, Covered
      <4>3. QED
        BY <2>3, <3>2, <4>1, <4>2 DEF Reports, About
    <3>3. QED
      BY <3>1, <3>2
  <2>4. CASE ~About(Top, c)
    <3>1. state'[c] = state[c] /\ ~About(stack[n], c)
      BY <1>1, <2>4 DEF Local
    <3>2. CASE \E i \in DOMAIN stack : About(stack[i], c)
      <4>1. PICK i \in 1 .. n : About(stack[i], c)
        BY <1>1, <3>2
      <4>2. i \in 1 .. n - 1
        BY <1>1, <3>1, <4>1
      <4>3. QED
        BY <2>2, <4>1, <4>2
    <3>3. CASE state[c] = "NotResolved" \/ c \in met \cup InExprs \cup Failed
      BY <2>1, <3>1, <3>3 DEF Local, Seen, Failed
    <3>4. QED
      BY <3>2, <3>3 DEF NInv, Seen
  <2>5. QED
    BY <2>3, <2>4
<1>6. QED
  BY <1>3, <1>4, <1>5

-----------------------------------------------------------------------------
(* The stack, with what its calls note *)

(* The first call stays the first. *)
FirstStays ==
    /\ stack' # <<>> /\ stack'[1].fun = stack[1].fun
    /\ stack'[1].fun \in {"init", "resolve", "def"} => stack'[1].def = stack[1].def

(* The first call stays the first, whatever is called above it. *)
LEMMA FirstKept ==
    ASSUME IInv, NInv, stack # <<>>, round' = round,
           stack' # <<>>, stack'[1] = stack[1] \/ (Len(stack) = 1 /\ SameNote(stack'[1], Top))
    PROVE  FirstStays /\ FirstCall(stack[1])'
<1>1. Len(stack) = 1 => Top = stack[1]
  BY TopFrame DEF IInv
<1>2. FirstCall(stack[1])
  BY DEF NInv
<1>3. stack[1].fun \in {"init", "resolve", "def"}
  BY <1>2 DEF FirstCall
<1>4. CASE stack'[1] = stack[1]
  BY <1>2, <1>4 DEF FirstStays, FirstCall
<1>5. CASE SameNote(stack'[1], stack[1])
  BY <1>2, <1>3, <1>5 DEF FirstStays, FirstCall, SameNote
<1>6. QED
  BY <1>1, <1>4, <1>5

(* A call notes what it noted when it goes on. *)
LEMMA NotingSame ==
    ASSUME NEW below, NEW old, NEW fr, SameNote(fr, old), Noting(below, old)
    PROVE  Noting(below, fr)
BY DEF SameNote, Noting, About

(* The call goes on. *)
LEMMA NContinue ==
    ASSUME IInv, NInv, stack # <<>>, Local, NEW fr, SameNote(fr, Top), Continue(fr)
    PROVE  NInv' /\ FirstStays
<1> DEFINE n == Len(stack)
<1>1. n \in Nat /\ n # 0 /\ DOMAIN stack = 1 .. n /\ Top = stack[n]
  BY TopFrame, EmptySeq DEF IInv
<1>2. /\ stack' \in Seq(ToSet(stack')) /\ Len(stack') = n /\ DOMAIN stack' = 1 .. n
      /\ (\A i \in 1 .. n - 1 : stack'[i] = stack[i])
      /\ stack'[n] = fr /\ ret' = Running
  BY FrontAppend DEF IInv, Stacked, Continue
<1> HIDE DEF n
<1>3. \A i \in 1 .. n : i = n \/ i \in 1 .. n - 1
  BY <1>1
<1>4. \A i \in DOMAIN stack' : HasNote(stack'[i])
  <2>1. HasNote(fr) /\ \A i \in 1 .. n - 1 : HasNote(stack[i])
    BY <1>1 DEF HasNote, SameNote, NInv, StackNotes
  <2>2. QED
    BY <1>2, <1>3, <2>1
<1>5. ASSUME NEW i \in DOMAIN stack', i # Len(stack') PROVE Noting(stack'[i], stack'[i + 1])
  <2>1. i \in 1 .. n - 1 /\ i + 1 \in 1 .. n /\ i \in DOMAIN stack /\ i # Len(stack)
    BY <1>1, <1>2, <1>5 DEF n
  <2>2. Noting(stack[i], stack[i + 1]) /\ stack'[i] = stack[i]
    BY <1>2, <2>1 DEF NInv, StackNotes
  <2>3. stack'[i + 1] = stack[i + 1] \/ SameNote(stack'[i + 1], stack[i + 1])
    BY <1>1, <1>2, <1>3, <2>1
  <2>4. QED
    BY <2>2, <2>3, NotingSame
<1>6. StackNotes'
  <2>1. ret' # False
    BY <1>2, SimpleTypes
  <2>2. QED
    BY <1>4, <1>5, <2>1 DEF StackNotes
<1>7. FirstStays /\ FirstCall(stack[1])'
  <2>1. stack' # <<>>
    BY <1>1, <1>2, EmptySeq
  <2>2. n # 1 => 1 \in 1 .. n - 1
    BY <1>1
  <2>3. stack'[1] = stack[1] \/ (n = 1 /\ SameNote(stack'[1], Top))
    BY <1>2, <2>2
  <2>4. QED
    BY <2>1, <2>3, FirstKept DEF n, Local
<1>8. Known' \subseteq met' /\ \A c \in Classes : Tracked(c)' /\ Seen(c)'
  <2>1. n \in DOMAIN stack' /\ \A i \in 1 .. n - 1 : i \in DOMAIN stack' /\ stack'[i] = stack[i]
    BY <1>1, <1>2
  <2>2. QED
    BY <1>2, <2>1, Tracks DEF n
<1>9. QED
  BY <1>6, <1>7, <1>8 DEF NInv

(* The call makes another one. *)
LEMMA NCall ==
    ASSUME IInv, NInv, stack # <<>>, Local, NEW fr, SameNote(fr, Top), NEW callee, Call(fr, callee),
           HasNote(callee), Noting(fr, callee)
    PROVE  NInv' /\ FirstStays
<1> DEFINE n == Len(stack)
           s == Append(Front(stack), fr)
<1>1. n \in Nat /\ n # 0 /\ DOMAIN stack = 1 .. n /\ Top = stack[n]
  BY TopFrame, EmptySeq DEF IInv
<1>2. /\ s \in Seq(ToSet(s)) /\ Len(s) = n
      /\ \A i \in 1 .. n - 1 : s[i] = stack[i]
      /\ s[n] = fr
  BY FrontAppend DEF IInv, Stacked
<1>3. stack' = Append(s, callee) /\ ret' = Running
  BY DEF Call
<1> HIDE DEF s, n
<1>4. /\ stack' \in Seq(ToSet(stack')) /\ Len(stack') = n + 1 /\ DOMAIN stack' = 1 .. n + 1
      /\ \A i \in 1 .. n : stack'[i] = s[i]
      /\ stack'[n + 1] = callee
  BY <1>2, <1>3, Pushed
<1>5. (\A i \in 1 .. n - 1 : stack'[i] = stack[i]) /\ stack'[n] = fr
  BY <1>1, <1>2, <1>4
<1>6. \A i \in 1 .. n + 1 : i = n + 1 \/ i = n \/ i \in 1 .. n - 1
  BY <1>1
<1>7. \A i \in DOMAIN stack' : HasNote(stack'[i])
  <2>1. HasNote(fr) /\ \A i \in 1 .. n - 1 : HasNote(stack[i])
    BY <1>1 DEF HasNote, SameNote, NInv, StackNotes
  <2>2. QED
    BY <1>4, <1>5, <1>6, <2>1
<1>8. ASSUME NEW i \in DOMAIN stack', i # Len(stack') PROVE Noting(stack'[i], stack'[i + 1])
  <2>1. CASE i = n
    BY <1>4, <1>5, <2>1
  <2>2. CASE i # n
    <3>1. i \in 1 .. n - 1 /\ i + 1 \in 1 .. n /\ i \in DOMAIN stack /\ i # Len(stack)
      BY <1>1, <1>4, <1>8, <2>2 DEF n
    <3>2. Noting(stack[i], stack[i + 1]) /\ stack'[i] = stack[i]
      BY <1>5, <3>1 DEF NInv, StackNotes
    <3>3. i + 1 = n \/ i + 1 \in 1 .. n - 1
      BY <1>1, <3>1
    <3>4. stack'[i + 1] = stack[i + 1] \/ SameNote(stack'[i + 1], stack[i + 1])
      BY <1>1, <1>5, <3>3
    <3>5. QED
      BY <3>2, <3>4, NotingSame
  <2>3. QED
    BY <2>1, <2>2
<1>9. StackNotes'
  <2>1. ret' # False
    BY <1>3, SimpleTypes
  <2>2. QED
    BY <1>7, <1>8, <2>1 DEF StackNotes
<1>10. FirstStays /\ FirstCall(stack[1])'
  <2>1. stack' # <<>>
    BY <1>1, <1>4, EmptySeq
  <2>2. n # 1 => 1 \in 1 .. n - 1
    BY <1>1
  <2>3. stack'[1] = stack[1] \/ (n = 1 /\ SameNote(stack'[1], Top))
    BY <1>5, <2>2
  <2>4. QED
    BY <2>1, <2>3, FirstKept DEF n, Local
<1>11. Known' \subseteq met' /\ \A c \in Classes : Tracked(c)' /\ Seen(c)'
  <2>1. n \in DOMAIN stack' /\ \A i \in 1 .. n - 1 : i \in DOMAIN stack' /\ stack'[i] = stack[i]
    BY <1>1, <1>4, <1>5
  <2>2. QED
    BY <1>5, <2>1, Tracks DEF n
<1>12. QED
  BY <1>9, <1>10, <1>11 DEF NInv

(* The call returns, and its class was noted. *)
LEMMA NReturn ==
    ASSUME IInv, NInv, stack # <<>>, Local, NEW type, Return(type), Reports(type)
    PROVE  NInv' /\ (FirstStays \/ (stack' = <<>> /\ Top = stack[1] /\ DOMAIN stack = {1}))
<1> DEFINE n == Len(stack)
<1>1. n \in Nat /\ n # 0 /\ DOMAIN stack = 1 .. n /\ Top = stack[n]
  BY TopFrame, EmptySeq DEF IInv
<1>2. /\ stack' \in Seq(ToSet(stack')) /\ Len(stack') = n - 1 /\ DOMAIN stack' = 1 .. n - 1
      /\ (\A i \in 1 .. n - 1 : stack'[i] = stack[i]) /\ ret' = type
  BY FrontOnly DEF IInv, Stacked, Return
<1> HIDE DEF n
<1>3. \A i \in DOMAIN stack' : HasNote(stack'[i])
  <2>1. \A i \in 1 .. n - 1 : HasNote(stack[i])
    BY <1>1 DEF NInv, StackNotes
  <2>2. QED
    BY <1>2, <2>1
<1>4. ASSUME NEW i \in DOMAIN stack', i # Len(stack') PROVE Noting(stack'[i], stack'[i + 1])
  <2>1. i \in 1 .. n - 1 /\ i + 1 \in 1 .. n - 1 /\ i \in DOMAIN stack /\ i # Len(stack)
    BY <1>1, <1>2, <1>4 DEF n
  <2>2. QED
    BY <1>2, <2>1 DEF NInv, StackNotes
<1>5. stack' # <<>> => n > 1 /\ Top' = stack[n - 1] /\ n - 1 \in 1 .. n - 1
  <2>1. stack' # <<>> => n > 1
    BY <1>1, <1>2, EmptySeq
  <2>2. n > 1 => n - 1 \in 1 .. n - 1
    BY <1>1
  <2>3. QED
    BY <1>2, <2>1, <2>2 DEF Top
<1>6. ASSUME stack' # <<>>, type = False, Top'.fun = "resolve", Top'.at = "enter" PROVE Top'.def \in Failed'
  <2>1. n - 1 \in DOMAIN stack /\ n - 1 # Len(stack) /\ (n - 1) + 1 = n
    <3>1. n - 1 \in DOMAIN stack /\ n - 1 # n /\ (n - 1) + 1 = n
      BY <1>1, <1>5, <1>6
    <3>2. QED
      BY <3>1 DEF n
  <2>2. Noting(stack[n - 1], Top)
    BY <1>1, <2>1 DEF NInv, StackNotes
  <2>3. Top.fun = "init" /\ Top.def = stack[n - 1].def
    BY <1>5, <1>6, <2>2 DEF Noting
  <2>4. QED
    BY <1>5, <1>6, <2>3 DEF Reports
<1>7. StackNotes'
  BY <1>2, <1>3, <1>4, <1>6 DEF StackNotes
<1>8. stack' # <<>> => FirstStays /\ FirstCall(stack[1])'
  <2>1. stack' # <<>> => stack'[1] = stack[1]
    BY <1>1, <1>2, <1>5
  <2>2. QED
    BY <2>1, FirstKept DEF Local
<1>9. stack' = <<>> => Top = stack[1] /\ DOMAIN stack = {1}
  <2>1. stack' = <<>> => n = 1
    BY <1>1, <1>2, EmptySeq
  <2>2. QED
    BY <1>1, <2>1
<1>10. Known' \subseteq met' /\ \A c \in Classes : Tracked(c)' /\ Seen(c)'
  BY <1>2, Tracks DEF n
<1>11. QED
  BY <1>7, <1>8, <1>9, <1>10 DEF NInv

-----------------------------------------------------------------------------
(* The rounds *)

RoundTyped ==
    \/ round \in [phase : {"modules"}, k : Nat \ {0}, processed : {{}}]
    \/ /\ round \in [phase : {"resolve", "done"}, todo : SUBSET Classes, current : SUBSET Classes,
                     good : SUBSET Classes, processed : SUBSET Classes]
       /\ IsFiniteSet(round.good) /\ IsFiniteSet(round.current)
    \/ round \in [phase : {"rest"}, todo : Seq(Defs), processed : SUBSET Classes]

First(fun, d) == stack # <<>> /\ stack[1].fun = fun /\ stack[1].def = d

(* The listed classes that were come to have been noted, all of them when  *)
(* the rounds begin.                                                       *)
ModulesSeen ==
    /\ round.phase = "modules" =>
         /\ round.k <= Len(prog.listed) + 1
         /\ \A j \in 1 .. round.k - 1 :
              LET c == prog.listed[j] IN c \in met \/ Lost(c) \/ First("init", c)
    /\ round.phase # "modules" => \A c \in ToSet(prog.listed) : c \in met \/ Lost(c)

(* The classes of a round that were called have been resolved or failed.   *)
RoundResolved ==
    round.phase = "resolve" =>
        /\ stack = <<>> /\ ret = Running => round.current \subseteq round.good \cup Failed
        /\ stack = <<>> /\ ret # Running => round.current \subseteq (IF ret = False THEN Failed ELSE Good)
        /\ round.current = {} => found = {} /\ stack = <<>>
        /\ round.good \subseteq Good

RoundsDone ==
    round.phase = "done" =>
        /\ stack = <<>> /\ round.todo = {} /\ round.good = {}
        /\ round.current \subseteq Failed
        /\ round.current = {} => found = {}

AliasesOf(c) == {d \in Defs : d[1] = c /\ Def(d).kind = "alias"}

(* The typedefs of a class that is done with are done with, or are still   *)
(* on the list.                                                            *)
RestDone ==
    \A c \in round.processed :
        /\ c \in Good
        /\ \A d \in AliasesOf(c) :
             d \in Over \/ (round.phase = "rest" /\ (d \in ToSet(round.todo) \/ First("def", d)))

RInv == RoundTyped /\ ModulesSeen /\ RoundResolved /\ RoundsDone /\ RestDone

(* The steps of the calls. *)
LEMMA CallsRound ==
    ASSUME IInv, NInv, RInv, stack # <<>>, Local,
           \/ FirstStays
           \/ /\ stack' = <<>> /\ Top = stack[1] /\ DOMAIN stack = {1}
              /\ \E type : ret' = type /\ Reports(type)
    PROVE  RInv'
<1>1. Defs' = Defs /\ prog' = prog /\ round' = round /\ Good \subseteq Good'
      /\ \A c : AliasesOf(c)' = AliasesOf(c)
  BY SameDefs DEF Local, AliasesOf, Def
<1>2. FirstCall(stack[1])
  BY DEF NInv
<1>3. RoundTyped'
  BY <1>1 DEF RInv, RoundTyped
<1>4. ASSUME NEW c \in Classes, c \in met \/ Lost(c) PROVE c \in met' \/ Lost(c)'
  BY <1>4 DEF Local
<1>p. prog \in Programs /\ Classes \cap Defs = {}
  BY Apart DEF IInv, Typed
<1>5. ModulesSeen'
  <2>1. \A j \in DOMAIN prog.listed : prog.listed[j] \in Classes
    BY <1>p, ProgramsAssumption
  <2>2. CASE round.phase = "modules"
    <3>1. round.k \in Nat \ {0} /\ Len(prog.listed) \in Nat /\ DOMAIN prog.listed = 1 .. Len(prog.listed)
      BY <1>p, <2>2, ProgramsAssumption DEF RInv, RoundTyped
    <3>2. round.k <= Len(prog.listed) + 1
      BY <2>2 DEF RInv, ModulesSeen
    <3>3. ASSUME NEW j \in 1 .. round.k - 1, NEW c, c = prog.listed[j]
          PROVE  c \in met' \/ Lost(c)' \/ First("init", c)'
      <4>1. c \in Classes /\ (c \in met \/ Lost(c) \/ First("init", c))
        <5>1. j \in DOMAIN prog.listed
          BY <3>1, <3>2
        <5>2. QED
          BY <2>1, <2>2, <3>3, <5>1 DEF RInv, ModulesSeen
      <4>2. CASE c \in met \/ Lost(c)
        BY <1>4, <4>1, <4>2
      <4>3. CASE First("init", c)
        <5>1. CASE FirstStays
          BY <4>3, <5>1 DEF First, FirstStays
        <5>2. ASSUME stack' = <<>>, Top = stack[1], DOMAIN stack = {1}, NEW type, Reports(type)
              PROVE  c \in met' \/ Lost(c)'
          <6>1. Top.fun = "init" /\ Top.def = c
            BY <4>3, <5>2 DEF First
          <6>2. Top.note
            BY <1>2, <2>2, <5>2 DEF FirstCall
          <6>3. ~InExpr
            BY <5>2, <6>1 DEF InExpr, Evaluates
          <6>4. At("resolve", c)' = {}
            BY <5>2 DEF At
          <6>5. QED
            BY <5>2, <6>1, <6>2, <6>3, <6>4 DEF Reports, Lost
        <5>3. QED
          BY <5>1, <5>2
      <4>4. QED
        BY <4>1, <4>2, <4>3
    <3>4. QED
      BY <1>1, <2>2, <3>2, <3>3 DEF ModulesSeen
  <2>3. CASE round.phase # "modules"
    <3>1. \A c \in ToSet(prog.listed) : c \in Classes
      BY <2>1 DEF ToSet
    <3>2. QED
      BY <1>1, <1>4, <2>3, <3>1 DEF RInv, ModulesSeen
  <2>4. QED
    BY <2>2, <2>3
<1>6. RoundResolved'
  <2>1. SUFFICES ASSUME round.phase = "resolve" PROVE RoundResolved'
    BY <1>1 DEF RoundResolved
  <2>2. stack[1].fun = "resolve" /\ round.current = {stack[1].def}
    BY <1>2, <2>1 DEF FirstCall
  <2>3. round.good \subseteq Good'
    BY <1>1, <2>1 DEF RInv, RoundResolved
  <2>4. CASE FirstStays
    BY <1>1, <2>2, <2>3, <2>4 DEF RoundResolved, FirstStays
  <2>5. ASSUME Top = stack[1], NEW type, ret' = type, Reports(type) PROVE RoundResolved'
    <3>1. /\ type # Running
          /\ round.current \subseteq (IF type = False THEN Failed' ELSE Good')
      BY <2>2, <2>5 DEF Reports
    <3>2. QED
      BY <1>1, <2>2, <2>3, <2>5, <3>1 DEF RoundResolved
  <2>6. QED
    BY <2>4, <2>5
<1>7. RoundsDone'
  BY <1>1, <1>2 DEF RoundsDone, FirstCall
<1>8. RestDone'
  <2>1. SUFFICES ASSUME NEW c \in round.processed, NEW d \in AliasesOf(c), d \notin Over'
                 PROVE  /\ round.phase = "rest"
                        /\ d \in ToSet(round.todo) \/ First("def", d)'
    <3>1. \A c \in round.processed : c \in Good'
      BY <1>1 DEF RInv, RestDone
    <3>2. QED
      BY <1>1, <3>1 DEF RestDone
  <2>2. d \notin Over
    BY <2>1 DEF Local, AliasesOf
  <2>3. round.phase = "rest" /\ (d \in ToSet(round.todo) \/ First("def", d))
    BY <2>2 DEF RInv, RestDone
  <2>4. ASSUME First("def", d) PROVE First("def", d)'
    <3>1. ASSUME Top = stack[1], NEW type, Reports(type) PROVE FALSE
      BY <2>1, <2>4, <3>1 DEF First, Reports
    <3>2. FirstStays
      BY <3>1
    <3>3. QED
      BY <2>4, <3>2 DEF First, FirstStays
  <2>5. QED
    BY <2>3, <2>4
<1>9. QED
  BY <1>3, <1>5, <1>6, <1>7, <1>8 DEF RInv

(* A step of a call goes on, calls or returns. *)
LEMMA CallsStep ==
    ASSUME IInv, NInv, RInv, stack # <<>>, Local,
           \/ \E fr : SameNote(fr, Top) /\ Continue(fr)
           \/ \E fr, callee : /\ SameNote(fr, Top) /\ Call(fr, callee)
                              /\ HasNote(callee) /\ Noting(fr, callee)
           \/ \E type : Return(type) /\ Reports(type)
    PROVE  NInv' /\ RInv'
<1>1. ASSUME NEW fr, SameNote(fr, Top), Continue(fr) PROVE NInv' /\ RInv'
  BY <1>1, NContinue, CallsRound
<1>2. ASSUME NEW fr, NEW callee, SameNote(fr, Top), Call(fr, callee), HasNote(callee), Noting(fr, callee)
      PROVE  NInv' /\ RInv'
  BY <1>2, NCall, CallsRound
<1>3. ASSUME NEW type, Return(type), Reports(type) PROVE NInv' /\ RInv'
  <2>1. NInv' /\ (FirstStays \/ (stack' = <<>> /\ Top = stack[1] /\ DOMAIN stack = {1}))
    BY <1>3, NReturn
  <2>2. ret' = type
    BY <1>3 DEF Return
  <2>3. QED
    BY <1>3, <2>1, <2>2, CallsRound
<1>4. QED
  BY <1>1, <1>2, <1>3

(* A step that sets the state of its class, or of a definition, and        *)
(* nothing else, is local.                                                 *)
LEMMA LocalStep ==
    ASSUME IInv, TInv', VInv, StaysResolved, StaysTyped, prog' = prog, round' = round,
           UNCHANGED <<found, met>> \/ \E type : found' = Noted(type) /\ met' = Met(type),
           stack # <<>>, Calling, NEW x, NEW s,
           \/ state' = state
           \/ /\ state' = [state EXCEPT ![x] = s]
              /\ x \in Classes => About(Top, x)
              /\ x \in Over \cap Defs => s \in {"Resolved", "Unresolvable"}
    PROVE  Local
<1>1. Defs' = Defs /\ Classes \cap Defs = {} /\ state \in [Classes \cup Defs -> States]
  BY SameDefs, Apart DEF IInv, Typed
<1>2. Good \subseteq Good'
  BY <1>1 DEF Good, ResolvedClasses, StaysResolved, StaysTyped
<1>3. /\ found \subseteq found' /\ met \subseteq met'
      /\ found' \subseteq found \cup met' /\ met' \subseteq met \cup found'
  BY DEF Noted, Met
<1>4. \A c \in Classes : Lost(c) => Lost(c)'
  BY StaysLost
<1>5. \A c \in Classes : state'[c] = state[c] \/ About(Top, c)
  BY <1>1
<1>6. ASSUME NEW d \in Over \cap Defs PROVE d \in Over'
  <2>1. CASE d \in Good
    BY <1>2, <2>1 DEF Over
  <2>2. CASE state[d] = "Unresolvable" /\ state'[d] \in {"Resolved", "Unresolvable"}
    BY <1>1, <2>2 DEF Over, Good, Failed, TInv
  <2>3. state[d] = "Unresolvable" => state'[d] \in {"Resolved", "Unresolvable"}
    BY <1>1
  <2>4. QED
    BY <2>1, <2>2, <2>3 DEF Over, Failed
<1>7. QED
  BY <1>2, <1>3, <1>4, <1>5, <1>6 DEF Local

(* Nothing changes that this is about. *)
LEMMA StandsStill ==
    ASSUME NInv, RInv, UNCHANGED <<state, aliased, stack, ret, prog, round, found, met>>
    PROVE  NInv' /\ RInv'
<1>1. Defs' = Defs /\ Good' = Good /\ Failed' = Failed /\ Over' = Over /\ Known' = Known /\ Top' = Top
      /\ InExprs' = InExprs
  BY SameDefs, SameExprs DEF Good, ResolvedClasses, Failed, Over, Known, Top
<1>2. \A c : AliasesOf(c)' = AliasesOf(c) /\ (Lost(c)' <=> Lost(c))
  BY <1>1 DEF AliasesOf, Def, Lost, At, Works
<1>3. NInv'
  BY <1>1, <1>2 DEF NInv, StackNotes, FirstCall, Tracked, Seen
<1>4. RInv'
  BY <1>1, <1>2 DEF RInv, RoundTyped, ModulesSeen, RoundResolved, RoundsDone, RestDone, First
<1>5. QED
  BY <1>3, <1>4

(* The steps of a call that initialises a class. *)
LEMMA InitStepReach ==
    ASSUME IInv, TInv', VInv, DInv, NInv, RInv, StaysResolved, StaysTyped,
           stack # <<>>, InitStep
    PROVE  NInv' /\ RInv'
<1> DEFINE c == Top.def
<1>1. /\ Top.fun = "init" /\ c \in Classes /\ {"fun", "def", "at"} \subseteq DOMAIN Top
      /\ UNCHANGED <<prog, round>> /\ state \in [Classes \cup Defs -> States]
      /\ "note" \in DOMAIN Top
  <2>1. /\ Top.fun = "init" /\ UNCHANGED <<prog, round>>
    BY DEF InitStep, InitEnter, InitParent, InitAddParent, InitFail, InitDone
  <2>2. HasNote(Top)
    BY TopFrame DEF IInv, NInv, StackNotes
  <2>3. QED
    BY <2>1, <2>2, TopFrame DEF IsFrame, IInv, Typed, HasNote
<1>2. True # False
  BY DEF True, False, IntType, NoType
<1>3. UNCHANGED <<found, met>> \/ \E type : found' = Noted(type) /\ met' = Met(type)
  BY DEF InitStep, InitEnter, InitParent, InitAddParent, InitFail, InitDone
<1>4. state' = state \/ \E s \in {"Initializing", "Unresolvable", "Initialized"} : state' = [state EXCEPT ![c] = s]
  BY DEF InitStep, InitEnter, InitParent, InitAddParent, InitFail, InitDone, SetState
<1>5. Local
  <2>1. Calling /\ c \notin Defs
    BY <1>1, Apart DEF Calling, IInv
  <2>2. CASE state' = state
    BY <1>1, <1>3, <2>1, <2>2, LocalStep
  <2>3. CASE state' # state
    <3>1. PICK s : state' = [state EXCEPT ![c] = s]
      BY <1>4, <2>3
    <3>2. About(Top, c)
      BY <1>1 DEF About
    <3>3. QED
      BY <1>1, <1>3, <2>1, <3>1, <3>2, LocalStep
  <2>4. QED
    BY <2>2, <2>3
<1>n. ASSUME met' = Met(True) PROVE Top.note => c \in met' \/ (InExpr /\ c \in InExprs)
  BY <1>1, <1>n, NotedOrExpr DEF Evaluates
<1>6. \A at : LET fr == [Top EXCEPT !.at = at] IN SameNote(fr, Top)
  BY <1>1 DEF SameNote
<1>7. Defs' = Defs
  BY <1>1, SameDefs
<1>8. CASE InitEnter
  <2>1. CASE state[c] = "NotResolved"
    <3>1. Continue([Top EXCEPT !.at = 1])
      BY <1>8, <2>1 DEF InitEnter
    <3>2. QED
      BY <1>5, <1>6, <3>1, CallsStep
  <2>2. CASE state[c] = "Unresolvable"
    <3>1. Return(False) /\ state' = state
      BY <1>8, <2>2 DEF InitEnter
    <3>2. Reports(False)
      BY <1>1, <1>7, <2>2, <3>1 DEF Reports, Failed
    <3>3. QED
      BY <1>5, <3>1, <3>2, CallsStep
  <2>3. CASE state[c] \notin {"NotResolved", "Unresolvable"}
    <3>1. Return(True) /\ met' = Met(True)
      BY <1>8, <2>3 DEF InitEnter, Return
    <3>2. Top.note => c \in met' \/ (InExpr /\ c \in InExprs)
      BY <1>n, <3>1
    <3>3. Reports(True)
      BY <1>1, <1>2, <3>2 DEF Reports
    <3>4. QED
      BY <1>5, <3>1, <3>3, CallsStep
  <2>4. QED
    BY <2>1, <2>2, <2>3
<1>9. CASE InitParent
  <2>1. PICK path : Call(Top, TypeCall(path, c, 0, None, FALSE))
    BY <1>9 DEF InitParent
  <2>2. SameNote(Top, Top)
    BY <1>1 DEF SameNote
  <2>3. HasNote(TypeCall(path, c, 0, None, FALSE)) /\ Noting(Top, TypeCall(path, c, 0, None, FALSE))
    BY <1>1 DEF HasNote, Noting, TypeCall
  <2>4. QED
    BY <1>5, <2>1, <2>2, <2>3, CallsStep
<1>10. CASE InitAddParent
  <2>1. Continue([Top EXCEPT !.at = @ + 1])
    BY <1>10 DEF InitAddParent
  <2>2. SameNote([Top EXCEPT !.at = @ + 1], Top)
    BY <1>6
  <2>3. QED
    BY <1>5, <2>1, <2>2, CallsStep
<1>11. CASE InitFail
  <2>1. Return(False) /\ state' = [state EXCEPT ![c] = "Unresolvable"]
    BY <1>11 DEF InitFail, SetState
  <2>2. state'[c] = "Unresolvable"
    BY <1>1, <2>1
  <2>3. Reports(False)
    BY <1>1, <1>7, <2>2 DEF Reports, Failed
  <2>4. QED
    BY <1>5, <2>1, <2>3, CallsStep
<1>12. CASE InitDone
  <2>1. Return(True) /\ met' = Met(True)
    BY <1>12 DEF InitDone
  <2>2. Top.note => c \in met' \/ (InExpr /\ c \in InExprs)
    BY <1>n, <2>1
  <2>3. Reports(True)
    BY <1>1, <1>2, <2>2 DEF Reports
  <2>4. QED
    BY <1>5, <2>1, <2>3, CallsStep
<1>13. QED
  BY <1>8, <1>9, <1>10, <1>11, <1>12 DEF InitStep

(* The steps of a call that resolves a class. *)
LEMMA ResolveStepReach ==
    ASSUME IInv, TInv', VInv, DInv, NInv, RInv, StaysResolved, StaysTyped,
           stack # <<>>, ~aborted, ResolveStep
    PROVE  NInv' /\ RInv'
<1> DEFINE c == Top.def
<1>1. /\ Top.fun = "resolve" /\ c \in Classes
      /\ {"fun", "def", "at", "todo", "unions", "note"} \subseteq DOMAIN Top
      /\ UNCHANGED <<prog, round>> /\ state \in [Classes \cup Defs -> States]
  <2>1. /\ Top.fun = "resolve" /\ UNCHANGED <<prog, round>>
    BY DEF ResolveStep, ResolveInit, ResolveEnter, ResolveNext, ResolveFuns, ResolveFun,
           ResolveFail, ResolveDone
  <2>2. HasNote(Top)
    BY TopFrame DEF IInv, NInv, StackNotes
  <2>3. QED
    BY <2>1, <2>2, TopFrame DEF IsFrame, IInv, Typed, HasNote
<1>2. True # False /\ True # Running /\ False # Running
  BY SimpleTypes DEF True, False, IntType, NoType
<1>3. UNCHANGED <<found, met>> \/ \E type : found' = Noted(type) /\ met' = Met(type)
  BY DEF ResolveStep, ResolveInit, ResolveEnter, ResolveNext, ResolveFuns, ResolveFun,
         ResolveFail, ResolveDone
<1>4. state' = state \/ \E s \in {"Unresolvable", "Resolving", "Resolved"} : state' = [state EXCEPT ![c] = s]
  BY DEF ResolveStep, ResolveInit, ResolveEnter, ResolveNext, ResolveFuns, ResolveFun,
         ResolveFail, ResolveDone, SetState, WorkOn
<1>5. Local
  <2>1. Calling /\ c \notin Defs
    BY <1>1, Apart DEF Calling, IInv
  <2>2. CASE state' = state
    BY <1>1, <1>3, <2>1, <2>2, LocalStep
  <2>3. CASE state' # state
    <3>1. PICK s : state' = [state EXCEPT ![c] = s]
      BY <1>4, <2>3
    <3>2. About(Top, c)
      BY <1>1 DEF About
    <3>3. QED
      BY <1>1, <1>3, <2>1, <3>1, <3>2, LocalStep
  <2>4. QED
    BY <2>2, <2>3
<1>6. ASSUME NEW fr, \/ \E at, todo : fr = [Top EXCEPT !.at = at, !.todo = todo]
                     \/ \E at, todo, unions : fr = [Top EXCEPT !.at = at, !.todo = todo, !.unions = unions]
                     \/ \E todo : fr = [Top EXCEPT !.todo = todo]
                     \/ \E at : fr = [Top EXCEPT !.at = at]
      PROVE  SameNote(fr, Top)
  BY <1>1, <1>6 DEF SameNote
<1>7. Defs' = Defs
  BY <1>1, SameDefs
<1>8. ASSUME Return(False), state'[c] = "Unresolvable" PROVE NInv' /\ RInv'
  <2>1. Reports(False)
    BY <1>1, <1>2, <1>7, <1>8 DEF Reports, Failed
  <2>2. QED
    BY <1>5, <1>8, <2>1, CallsStep
<1>9. ASSUME Return(True), state'[c] = "Resolved", met' = Met(True), Top.at = "enter" PROVE NInv' /\ RInv'
  <2>1. Top.note => c \in met' \/ (InExpr /\ c \in InExprs)
    BY <1>1, <1>9, NotedOrExpr DEF Evaluates
  <2>2. c \in Good'
    BY <1>1, <1>9 DEF Good, ResolvedClasses
  <2>3. Reports(True)
    BY <1>1, <1>2, <2>1, <2>2 DEF Reports
  <2>4. QED
    BY <1>5, <1>9, <2>3, CallsStep
<1>10. CASE ResolveInit
  <2> DEFINE fr == [Top EXCEPT !.at = "enter"]
             callee == InitCall(c, FALSE)
  <2>1. Call(fr, callee)
    BY <1>10 DEF ResolveInit
  <2>2. SameNote(fr, Top) /\ fr.fun = "resolve" /\ fr.def = c
    BY <1>1, <1>6
  <2> HIDE DEF fr
  <2>3. HasNote(callee) /\ Noting(fr, callee)
    BY <2>2 DEF HasNote, Noting, InitCall, About
  <2> HIDE DEF callee
  <2>4. QED
    BY <1>5, <2>1, <2>2, <2>3, CallsStep
<1>11. CASE ResolveEnter
  <2>1. CASE ret = False \/ state[c] = "Unresolvable"
    <3>1. state[c] = "Unresolvable"
      BY <1>1, <1>11, <2>1 DEF ResolveEnter, NInv, StackNotes, Failed
    <3>2. Return(False) /\ state' = state
      BY <1>11, <2>1, <3>1 DEF ResolveEnter
    <3>3. QED
      BY <1>8, <3>1, <3>2
  <2>2. CASE ret # False /\ state[c] = "Resolved"
    <3>1. Return(True) /\ state' = state /\ aborted' = aborted
      BY <1>11, <2>2 DEF ResolveEnter
    <3>2. met' = Met(True) /\ Top.at = "enter"
      BY <1>11, <3>1 DEF ResolveEnter, Return
    <3>3. QED
      BY <1>9, <2>2, <3>1, <3>2
  <2>3. CASE ret # False /\ state[c] = "Resolving"
    <3>1. Return(False) /\ state' = [state EXCEPT ![c] = "Unresolvable"]
      BY <1>11, <2>3 DEF ResolveEnter, SetState
    <3>2. state'[c] = "Unresolvable"
      BY <1>1, <3>1
    <3>3. QED
      BY <1>8, <3>1, <3>2
  <2>4. CASE ret # False /\ state[c] = "Initialized"
    <3>1. Continue([Top EXCEPT !.at = "deps", !.todo = Dependencies(c)])
      BY <1>11, <2>4 DEF ResolveEnter
    <3>2. SameNote([Top EXCEPT !.at = "deps", !.todo = Dependencies(c)], Top)
      BY <1>6
    <3>3. QED
      BY <1>5, <3>1, <3>2, CallsStep
  <2>5. CASE ret # False /\ state[c] = "Initializing"
    <3>1. UNCHANGED <<state, aliased, stack, ret, prog, round, found, met>>
      BY <1>1, <1>11, <2>5 DEF ResolveEnter, defVars
    <3>2. QED
      BY <3>1, StandsStill
  <2>6. QED
    BY <1>11, <2>1, <2>2, <2>3, <2>4, <2>5 DEF ResolveEnter
<1>12. CASE ResolveNext \/ ResolveFun
  <2>1. PICK callee :
          /\ Call([Top EXCEPT !.todo = Tail(@)], callee)
          /\ \/ \E e : callee = ResolveCall(e, TRUE)
             \/ \E d : callee = DefCall(d)
    BY <1>12 DEF ResolveNext, ResolveFun
  <2> DEFINE fr == [Top EXCEPT !.todo = Tail(@)]
  <2>2. SameNote(fr, Top)
    BY <1>6
  <2>3. fr.fun = "resolve" /\ fr.at \in {"deps", "funs"}
    BY <1>1, <1>12 DEF ResolveNext, ResolveFun
  <2>4. Call(fr, callee)
    BY <2>1
  <2> HIDE DEF fr
  <2>5. HasNote(callee) /\ Noting(fr, callee)
    BY <2>1, <2>3 DEF HasNote, Noting, ResolveCall, DefCall
  <2>6. QED
    BY <1>5, <2>2, <2>4, <2>5, CallsStep
<1>13. CASE ResolveFuns
  <2>1. PICK order : Continue([Top EXCEPT !.at = "funs", !.todo = order])
    BY <1>13 DEF ResolveFuns
  <2>2. SameNote([Top EXCEPT !.at = "funs", !.todo = order], Top)
    BY <1>6
  <2>3. QED
    BY <1>5, <2>1, <2>2, CallsStep
<1>14. CASE ResolveFail
  <2>1. Return(False) /\ state' = [state EXCEPT ![c] = "Unresolvable"]
    BY <1>14 DEF ResolveFail, SetState
  <2>2. QED
    BY <1>1, <1>8, <2>1
<1>15. CASE ResolveDone
  <2>1. PICK fr, todo : /\ fr = [Top EXCEPT !.at = "values", !.todo = todo, !.unions = {}]
                        /\ Continue(fr)
    BY <1>15 DEF ResolveDone
  <2>2. SameNote(fr, Top)
    BY <1>6, <2>1
  <2>3. QED
    BY <1>5, <2>1, <2>2, CallsStep
<1>16. QED
  BY <1>10, <1>11, <1>12, <1>13, <1>14, <1>15 DEF ResolveStep

(* The steps of a call that gives a class its default values. *)
LEMMA ValueStepReach ==
    ASSUME IInv, TInv', VInv, DInv, NInv, RInv, StaysResolved, StaysTyped,
           stack # <<>>, ValueStep
    PROVE  NInv' /\ RInv'
<1>0. PICK c, d : c = Top.def /\ d = Head(Top.todo)
  OBVIOUS
<1>1. /\ Top.fun = "resolve" /\ Top.at \in AtValues /\ c \in Classes
      /\ Top.at = "value" => Top.todo \in Seq(Defs) /\ Top.todo # <<>>
      /\ {"fun", "def", "at", "todo", "unions", "note"} \subseteq DOMAIN Top
      /\ UNCHANGED <<prog, round>> /\ state \in [Classes \cup Defs -> States]
  <2>1. Top.fun = "resolve" /\ Top.at \in AtValues /\ UNCHANGED <<prog, round>>
    BY DEF ValueStep, ValueNext, ValueGiven, ValueInit, ValueSet, ValueFail, ValuesDone, Valuing, AtValues
  <2>2. HasNote(Top)
    BY TopFrame DEF IInv, NInv, StackNotes
  <2>3. QED
    BY <1>0, <2>1, <2>2, TopFrame DEF IsFrame, IInv, Typed, HasNote, AtValues
<1>2. True # False /\ True # Running
  BY SimpleTypes DEF True, False, IntType, NoType
<1>3. UNCHANGED <<found, met>> \/ \E type : found' = Noted(type) /\ met' = Met(type)
  BY DEF ValueStep, ValueNext, ValueGiven, ValueInit, ValueSet, ValueFail, ValuesDone
<1>4. state' = state \/ (state' = [state EXCEPT ![d] = "Unresolvable"] /\ Top.at = "value")
  BY <1>0 DEF ValueStep, ValueNext, ValueGiven, ValueInit, ValueSet, ValueFail, ValuesDone,
              Valuing, SetState
<1>5. Local
  <2>1. Calling
    BY DEF Calling
  <2>2. CASE state' = state
    BY <1>1, <1>3, <2>1, <2>2, LocalStep
  <2>3. CASE state' = [state EXCEPT ![d] = "Unresolvable"] /\ Top.at = "value"
    <3>1. d \in Defs
      BY <1>0, <1>1, <2>3, NextAndRest
    <3>2. d \notin Classes
      BY <3>1, Apart DEF IInv
    <3>3. QED
      BY <1>1, <1>3, <2>1, <2>3, <3>2, LocalStep
  <2>4. QED
    BY <1>4, <2>2, <2>3
<1>6. ASSUME NEW fr, \/ \E unions : fr = NextValue(unions)
                     \/ \E unions : fr = [Top EXCEPT !.at = "prop", !.unions = unions]
                     \/ fr = [Top EXCEPT !.at = "value"]
      PROVE  SameNote(fr, Top) /\ fr.fun = "resolve" /\ fr.at \in AtValues
  BY <1>1, <1>6 DEF SameNote, NextValue, AtValues
<1>7. ASSUME NEW unions, Continue(NextValue(unions)) PROVE NInv' /\ RInv'
  <2>1. SameNote(NextValue(unions), Top)
    BY <1>6
  <2>2. QED
    BY <1>5, <1>7, <2>1, CallsStep
<1>8. ASSUME NEW fr, \/ \E unions : fr = [Top EXCEPT !.at = "prop", !.unions = unions]
                     \/ fr = [Top EXCEPT !.at = "value"],
             NEW callee, Call(fr, callee),
             \/ \E e : callee = DefCall(e)
             \/ \E path, b, i : callee = TypeCall(path, b, i, None, TRUE)
      PROVE  NInv' /\ RInv'
  <2>1. SameNote(fr, Top) /\ fr.at \in AtValues
    BY <1>6, <1>8
  <2>2. callee.fun \in {"def", "type"}
    <3>1. /\ \A e : DefCall(e).fun = "def"
          /\ \A path, b, i : TypeCall(path, b, i, None, TRUE).fun = "type"
      BY DEF DefCall, TypeCall
    <3>2. CASE \E e : callee = DefCall(e)
      BY ONLY <3>1, <3>2
    <3>3. CASE \E path, b, i : callee = TypeCall(path, b, i, None, TRUE)
      BY ONLY <3>1, <3>3
    <3>4. QED
      BY <1>8, <3>2, <3>3
  <2>3. HasNote(callee) /\ Noting(fr, callee)
    BY <2>1, <2>2 DEF HasNote, Noting, AtValues
  <2>4. QED
    BY <1>5, <1>8, <2>1, <2>3, CallsStep
<1>9. CASE ValueNext
  <2>1. \/ Continue(NextValue(Top.unions))
        \/ \E fr, unions : fr = [Top EXCEPT !.at = "prop", !.unions = unions] /\ Call(fr, DefCall(d))
    BY <1>0, <1>9 DEF ValueNext
  <2>2. QED
    BY <1>7, <1>8, <2>1
<1>10. CASE ValueGiven \/ ValueSet \/ ValueFail
  BY <1>7, <1>10 DEF ValueGiven, ValueSet, ValueFail
<1>11. CASE ValueInit
  <2>1. PICK fr, callee : /\ fr = [Top EXCEPT !.at = "value"]
                          /\ callee = TypeCall(Def(d).init, d[1], d[2], None, TRUE)
                          /\ Call(fr, callee)
    BY <1>0, <1>11 DEF ValueInit
  <2>2. QED
    BY <1>8, <2>1
<1>12. CASE ValuesDone
  <2>1. Return(True) /\ met' = Met(True) /\ Top.at = "values"
    BY <1>12 DEF ValuesDone, Valuing
  <2>2. Top.note => c \in met' \/ (InExpr /\ c \in InExprs)
    BY <1>0, <1>1, <2>1, NotedOrExpr DEF Evaluates
  <2>3. c \in Good'
    <3>1. Gives(Top, ResolvedClasses, Missing, prog.unions, aborted)
      BY TopFrame DEF IInv, VInv
    <3>2. c \in Good
      BY <1>0, <1>1, <3>1 DEF Gives, GivesValues, Good
    <3>3. QED
      BY <1>5, <3>2 DEF Local
  <2>4. Reports(True)
    BY <1>0, <1>1, <1>2, <2>2, <2>3 DEF Reports
  <2>5. QED
    BY <1>5, <2>1, <2>4, CallsStep
<1>13. QED
  BY <1>9, <1>10, <1>11, <1>12 DEF ValueStep

(* The steps of a call that resolves a definition. *)
LEMMA DefStepReach ==
    ASSUME IInv, TInv', VInv, DInv, NInv, RInv, StaysResolved, StaysTyped,
           stack # <<>>, DefStep
    PROVE  NInv' /\ RInv'
<1> DEFINE d == Top.def
<1>1. /\ Top.fun = "def" /\ d \in Defs /\ UNCHANGED <<prog, round, found, met>>
      /\ {"fun", "def", "at", "type"} \subseteq DOMAIN Top
      /\ state \in [Classes \cup Defs -> States]
  BY TopFrame DEF DefStep, DefEnter, DefDim, DefFail, DefDone, IsFrame, IInv, Typed
<1>2. Defs' = Defs /\ d \notin Classes /\ Calling
  BY <1>1, SameDefs, Apart DEF IInv, Calling
<1>3. \/ state' = state
      \/ \E s \in {"Resolving", "Unresolvable", "Resolved"} :
           state' = [state EXCEPT ![d] = s] /\ (s = "Resolving" => state[d] = "NotResolved")
  BY DEF DefStep, DefEnter, DefDim, DefFail, DefDone, CheckState, SetState, WorkOn
<1>4. Local
  <2>1. CASE state' = state
    BY <1>1, <1>2, <2>1, LocalStep
  <2>2. CASE state' # state
    <3>1. PICK s \in {"Resolving", "Unresolvable", "Resolved"} :
            state' = [state EXCEPT ![d] = s] /\ (s = "Resolving" => state[d] = "NotResolved")
      BY <1>3, <2>2
    <3>2. d \in Over => s \in {"Resolved", "Unresolvable"}
      <4>1. CASE s = "Resolving" /\ d \in Good
        <5>1. aliased[d] # NoType /\ state'[d] = "Resolving"
          BY <1>1, <1>2, <3>1, <4>1 DEF Good, ResolvedClasses
        <5>2. aliased'[d] # NoType
          BY <1>1, <5>1 DEF StaysTyped
        <5>3. QED
          BY <1>1, <1>2, <5>1, <5>2 DEF TInv
      <4>2. QED
        BY <3>1, <4>1 DEF Over, Failed
    <3>3. QED
      BY <1>1, <1>2, <3>1, <3>2, LocalStep
  <2>3. QED
    BY <2>1, <2>2
<1>5. ASSUME NEW type, Return(type), state'[d] \in {"Resolved", "Unresolvable"}
      PROVE  NInv' /\ RInv'
  <2>1. d \in Over'
    BY <1>1, <1>2, <1>5 DEF Over, Good, Failed, TInv
  <2>2. Reports(type)
    BY <1>1, <2>1 DEF Reports
  <2>3. QED
    BY <1>4, <1>5, <2>2, CallsStep
<1>6. ASSUME NEW fr, \/ \E at : fr = [Top EXCEPT !.at = at]
                     \/ \E at, type : fr = [Top EXCEPT !.at = at, !.type = type],
             NEW path, NEW c, NEW i, NEW except, NEW full,
             Call(fr, TypeCall(path, c, i, except, full))
      PROVE  NInv' /\ RInv'
  <2>1. SameNote(fr, Top) /\ fr.fun = "def"
    BY <1>1, <1>6 DEF SameNote
  <2>2. HasNote(TypeCall(path, c, i, except, full)) /\ Noting(fr, TypeCall(path, c, i, except, full))
    BY <2>1 DEF HasNote, Noting, TypeCall
  <2>3. QED
    BY <1>4, <1>6, <2>1, <2>2, CallsStep
<1>7. CASE DefEnter
  <2>1. CASE state[d] = "NotResolved"
    <3>1. PICK path, i, except, full : Call([Top EXCEPT !.at = "type"], TypeCall(path, d[1], i, except, full))
      BY <1>7, <2>1 DEF DefEnter
    <3>2. QED
      BY <1>6, <3>1
  <2>2. CASE state[d] = "Resolved"
    <3>1. Return(aliased[d]) /\ state' = state
      BY <1>7, <2>2 DEF DefEnter, CheckState
    <3>2. QED
      BY <1>5, <2>2, <3>1
  <2>3. CASE state[d] \notin {"NotResolved", "Resolved"}
    <3>1. Return(False) /\ state' = [state EXCEPT ![d] = "Unresolvable"]
      BY <1>7, <2>3 DEF DefEnter, CheckState, SetState
    <3>2. QED
      BY <1>1, <1>5, <3>1
  <2>4. QED
    BY <2>1, <2>2, <2>3
<1>8. CASE DefDim
  <2>1. PICK path, i : Call([Top EXCEPT !.at = "dim", !.type = ret], TypeCall(path, d[1], i, None, TRUE))
    BY <1>8 DEF DefDim
  <2>2. QED
    BY <1>6, <2>1
<1>9. CASE DefFail
  <2>1. Return(False) /\ state' = [state EXCEPT ![d] = "Unresolvable"]
    BY <1>9 DEF DefFail, SetState
  <2>2. QED
    BY <1>1, <1>5, <2>1
<1>10. CASE DefDone
  <2>1. Return(aliased'[d]) /\ state' = [state EXCEPT ![d] = "Resolved"]
    BY <1>10 DEF DefDone, SetState
  <2>2. QED
    BY <1>1, <1>5, <2>1
<1>11. QED
  BY <1>7, <1>8, <1>9, <1>10 DEF DefStep

(* The steps of a call that looks a type up. *)
LEMMA TypeStepReach ==
    ASSUME IInv, TInv', VInv, DInv, NInv, RInv, StaysResolved, StaysTyped,
           stack # <<>>, TypeStep
    PROVE  NInv' /\ RInv'
<1>1. /\ Top.fun = "type" /\ UNCHANGED <<prog, round, found, met, state>>
      /\ {"fun", "cls", "type", "at", "n"} \subseteq DOMAIN Top
  BY TopFrame DEF TypeStep, TypeBuiltin, TypeInScope, TypeInScopeDone, TypeExport, TypePrepare,
                  TypePrepared, TypeUnprepared, TypeClass, TypeMember, TypeMemberDone, IInv, IsFrame
<1>2. Local
  BY <1>1, LocalStep DEF Calling
<1>3. ASSUME NEW type, Return(type) PROVE NInv' /\ RInv'
  <2>1. Reports(type)
    BY <1>1 DEF Reports
  <2>2. QED
    BY <1>2, <1>3, <2>1, CallsStep
<1>4. ASSUME NEW fr, \/ fr = Top
                     \/ \E at, type : fr = [Top EXCEPT !.at = at, !.type = type]
                     \/ \E at : fr = [Top EXCEPT !.at = at]
                     \/ \E type : fr = AtNext(type)
      PROVE  SameNote(fr, Top) /\ fr.fun = "type"
  BY <1>1, <1>4 DEF SameNote, AtNext
<1>5. \A c : /\ HasNote(InitCall(c, TRUE)) /\ HasNote(ResolveCall(c, TRUE)) /\ HasNote(DefCall(c))
             /\ \A fr : fr.fun = "type" =>
                  Noting(fr, InitCall(c, TRUE)) /\ Noting(fr, ResolveCall(c, TRUE)) /\ Noting(fr, DefCall(c))
  BY DEF HasNote, Noting, InitCall, ResolveCall, DefCall
<1>6. ASSUME NEW fr, \/ fr = Top
                     \/ \E at, type : fr = [Top EXCEPT !.at = at, !.type = type]
                     \/ \E at : fr = [Top EXCEPT !.at = at]
                     \/ \E type : fr = AtNext(type),
             \/ Continue(fr)
             \/ \E c : Call(fr, InitCall(c, TRUE)) \/ Call(fr, ResolveCall(c, TRUE)) \/ Call(fr, DefCall(c))
      PROVE  NInv' /\ RInv'
  <2>1. SameNote(fr, Top) /\ fr.fun = "type"
    BY <1>4, <1>6
  <2>2. \/ Continue(fr)
        \/ \E callee : Call(fr, callee) /\ HasNote(callee) /\ Noting(fr, callee)
    BY <1>5, <1>6, <2>1
  <2>3. QED
    BY <1>2, <2>1, <2>2, CallsStep
<1>7. CASE TypeBuiltin \/ TypeUnprepared
  BY <1>3, <1>7 DEF TypeBuiltin, TypeUnprepared, FailType
<1>8. CASE TypeInScope
  BY <1>6, <1>8 DEF TypeInScope
<1>9. CASE TypeInScopeDone
  BY <1>6, <1>9 DEF TypeInScopeDone
<1>10. CASE TypeExport
  BY <1>3, <1>6, <1>10 DEF TypeExport, FailType
<1>11. CASE TypePrepare
  <2>1. \E c : Call(Top, InitCall(c, TRUE)) \/ Call(Top, ResolveCall(c, TRUE))
    BY <1>11 DEF TypePrepare, Needed
  <2>2. QED
    BY <1>6, <2>1
<1>12. CASE TypePrepared
  BY <1>3, <1>6, <1>12 DEF TypePrepared
<1>13. CASE TypeClass
  BY <1>3, <1>6, <1>13 DEF TypeClass, FailType
<1>14. CASE TypeMember
  <2>1. \/ \E e : Call([Top EXCEPT !.at = "member"], DefCall(e))
        \/ Continue(AtNext(ClassType(NextName)))
        \/ Return(NoType)
    BY <1>14 DEF TypeMember, FailType
  <2>2. QED
    BY <1>3, <1>6, <2>1
<1>15. CASE TypeMemberDone
  BY <1>3, <1>6, <1>15 DEF TypeMemberDone
<1>16. QED
  BY <1>7, <1>8, <1>9, <1>10, <1>11, <1>12, <1>13, <1>14, <1>15 DEF TypeStep

(* Steps between the calls change nothing that is resolved. *)
LEMMA SameSets ==
    ASSUME UNCHANGED <<prog, state, aliased>>
    PROVE  /\ Defs' = Defs /\ Good' = Good /\ Failed' = Failed /\ Over' = Over
           /\ InExprs' = InExprs /\ \A c : AliasesOf(c)' = AliasesOf(c)
BY SameDefs, SameExprs DEF Good, ResolvedClasses, Failed, Over, AliasesOf, Def

(* Between the calls, no class is being resolved. *)
LEMMA LostBetween ==
    ASSUME stack = <<>>, UNCHANGED <<prog, state>>,
           stack' = <<>> \/ \E callee : New(callee) /\ stack' = <<callee>>
    PROVE  \A c \in Failed : Lost(c)'
<1>1. Failed' = Failed
  BY SameDefs DEF Failed
<1>2. ASSUME NEW c PROVE At("resolve", c)' = {}
  <2>1. CASE stack' = <<>>
    BY <2>1 DEF At
  <2>2. ASSUME NEW callee, New(callee), stack' = <<callee>> PROVE At("resolve", c)' = {}
    <3>1. DOMAIN stack' = {1} /\ stack'[1] = callee
      BY <2>2
    <3>2. ~Works(callee, "resolve", c)
      BY <2>2, NewWorks
    <3>3. QED
      BY <3>1, <3>2 DEF At, Works
  <2>3. QED
    BY <2>1, <2>2
<1>3. QED
  BY <1>1, <1>2 DEF Lost

(* No call is under way, or the first one of all is called. *)
LEMMA Idles ==
    ASSUME NInv, stack = <<>>, UNCHANGED <<prog, state, aliased, met>>,
           Known' \subseteq Known, \A c \in Known : c \in Known' \/ c \in Failed,
           \/ stack' = <<>>
           \/ \E callee : /\ stack' = <<callee>> /\ ret' = Running /\ HasNote(callee)
                          /\ New(callee) /\ FirstCall(callee)'
    PROVE  NInv'
<1>1. Failed' = Failed /\ InExprs' = InExprs
  BY SameSets
<1>2. \A c \in Failed : Lost(c)'
  BY LostBetween
<1>3. Known' \subseteq met'
  BY DEF NInv
<1>4. ASSUME NEW c \in Classes PROVE Tracked(c)' /\ Seen(c)'
  <2>1. c \in met => c \in Known \/ c \in Failed
    BY DEF NInv, Tracked, Lost
  <2>2. Tracked(c)'
    BY <1>2, <2>1 DEF Tracked
  <2>3. state[c] # "NotResolved" => c \in met \cup InExprs \cup Failed
    BY DEF NInv, Seen
  <2>4. Seen(c)'
    BY <1>1, <2>3 DEF Seen
  <2>5. QED
    BY <2>2, <2>4
<1>5. CASE stack' = <<>>
  BY <1>3, <1>4, <1>5 DEF NInv, StackNotes
<1>6. ASSUME NEW callee, stack' = <<callee>>, ret' = Running, HasNote(callee), FirstCall(callee)'
      PROVE  NInv'
  <2>1. stack' # <<>> /\ DOMAIN stack' = {1} /\ Len(stack') = 1 /\ stack'[1] = callee
    BY <1>6
  <2>2. StackNotes'
    BY <1>6, <2>1, SimpleTypes DEF StackNotes
  <2>3. FirstCall(stack[1])'
    BY <1>6, <2>1 DEF FirstCall
  <2>4. QED
    BY <1>3, <1>4, <2>2, <2>3 DEF NInv
<1>7. QED
  BY <1>5, <1>6

(* A round begins: with what has been found and not been done with. *)
LEMMA RoundBegins ==
    ASSUME IInv, NInv, RInv, stack = <<>>, UNCHANGED <<prog, state, aliased, met, stack>>, ret' = Running,
           round' = StartRound, found' = {}, round.phase \in {"modules", "rest"},
           round.phase = "modules" => round.k \notin DOMAIN prog.listed,
           round.phase = "rest" => round.todo = <<>>
    PROVE  NInv' /\ RInv'
<1>1. found \subseteq Classes /\ prog \in Programs
  BY DEF IInv, Typed
<1>2. round.processed \subseteq Classes
  BY DEF RInv, RoundTyped
<1>3. /\ round'.phase = "resolve" /\ round'.todo = found \ round.processed
      /\ round'.current = {} /\ round'.good = {} /\ round'.processed = round.processed
      /\ round' \in [phase : {"resolve", "done"}, todo : SUBSET Classes, current : SUBSET Classes,
                     good : SUBSET Classes, processed : SUBSET Classes]
  BY <1>1, <1>2 DEF StartRound
<1>4. Known \subseteq Known' /\ Known' \subseteq Known
  BY <1>3 DEF Known
<1>5. NInv'
  BY <1>4, Idles
<1>6. RoundTyped'
  BY <1>3, FS_EmptySet DEF RoundTyped
<1>7. \A c \in ToSet(prog.listed) : c \in met \/ Lost(c)
  <2>1. CASE round.phase = "modules"
    <3>1. /\ round.k \in Nat \ {0} /\ round.k <= Len(prog.listed) + 1
          /\ Len(prog.listed) \in Nat /\ DOMAIN prog.listed = 1 .. Len(prog.listed)
      BY <1>1, <2>1, ProgramsAssumption DEF RInv, RoundTyped, ModulesSeen
    <3>2. round.k = Len(prog.listed) + 1
      BY <2>1, <3>1
    <3>3. \A j \in DOMAIN prog.listed : j \in 1 .. round.k - 1
      BY <3>1, <3>2
    <3>4. \A j \in 1 .. round.k - 1 : prog.listed[j] \in met \/ Lost(prog.listed[j])
      BY <2>1 DEF RInv, ModulesSeen, First
    <3>5. QED
      BY <3>3, <3>4 DEF ToSet
  <2>2. CASE round.phase # "modules"
    BY <2>2 DEF RInv, ModulesSeen
  <2>3. QED
    BY <2>1, <2>2
<1>8. ModulesSeen' /\ RoundResolved' /\ RoundsDone'
  <2>1. \A c \in ToSet(prog.listed) : c \in Classes
    BY <1>1, ProgramsAssumption DEF ToSet
  <2>2. \A c \in ToSet(prog.listed) : c \in met' \/ Lost(c)'
    BY <1>7, <2>1, LostBetween DEF Lost
  <2>3. QED
    BY <1>3, <2>2 DEF ModulesSeen, RoundResolved, RoundsDone
<1>9. RestDone'
  <2>1. \A c \in round.processed : c \in Good /\ \A d \in AliasesOf(c) : d \in Over
    BY NoneIn DEF RInv, RestDone, First
  <2>2. QED
    BY <1>3, <2>1, SameSets DEF RestDone
<1>10. QED
  BY <1>5, <1>6, <1>8, <1>9 DEF RInv

(* The next module's class is initialised, or the rounds begin. *)
LEMMA InitModulesReach ==
    ASSUME IInv, NInv, RInv, InitModules
    PROVE  NInv' /\ RInv'
<1>1. stack = <<>> /\ UNCHANGED <<prog, state, aliased, met>> /\ ret' = Running
      /\ round.phase = "modules" /\ prog \in Programs
  BY DEF InitModules, Idle, IInv, Typed, defVars
<1>2. CASE round.k \notin DOMAIN prog.listed
  BY <1>1, <1>2, RoundBegins DEF InitModules
<1>3. CASE round.k \in DOMAIN prog.listed
  <2>0. PICK c, callee : c = prog.listed[round.k] /\ callee = InitCall(c, TRUE)
    OBVIOUS
  <2>1. stack' = <<callee>> /\ round' = [round EXCEPT !.k = @ + 1] /\ found' = found
    BY <1>3, <2>0 DEF InitModules
  <2>2. /\ round \in [phase : {"modules"}, k : Nat \ {0}, processed : {{}}]
    BY <1>1 DEF RInv, RoundTyped
  <2>3. /\ round' \in [phase : {"modules"}, k : Nat \ {0}, processed : {{}}]
        /\ round'.phase = "modules" /\ round'.k = round.k + 1 /\ round'.processed = round.processed
        /\ round.processed = {} /\ round.k \in Nat \ {0}
    BY <2>1, <2>2
  <2>4. /\ callee.fun = "init" /\ callee.def = c /\ callee.note = TRUE /\ HasNote(callee)
    BY <2>0 DEF InitCall, HasNote
  <2>n. New(callee)
    BY <2>0 DEF New
  <2>5. Known' = Known
    BY <1>1, <2>1, <2>3 DEF Known
  <2>6. FirstCall(callee)'
    BY <2>3, <2>4 DEF FirstCall
  <2>7. NInv'
    BY <1>1, <2>1, <2>4, <2>n, <2>5, <2>6, Idles
  <2>8. /\ Len(prog.listed) \in Nat /\ DOMAIN prog.listed = 1 .. Len(prog.listed)
    BY <1>1, ProgramsAssumption
  <2>9. stack' # <<>> /\ stack'[1].fun = "init" /\ stack'[1].def = c
    BY <2>1, <2>4
  <2>10. ModulesSeen'
    <3>1. \A e \in Classes : Lost(e) => Lost(e)'
      BY <1>1, <2>1, <2>n, LostBetween DEF Lost
    <3>2. round'.k <= Len(prog.listed) + 1 /\ round'.k - 1 = round.k
      BY <1>3, <2>3, <2>8
    <3>3. ASSUME NEW j \in 1 .. round.k, NEW e, e = prog.listed[j]
          PROVE  e \in met' \/ Lost(e)' \/ First("init", e)'
      <4>1. CASE j = round.k
        BY <2>0, <2>9, <3>3, <4>1 DEF First
      <4>2. CASE j # round.k
        <5>1. j \in 1 .. round.k - 1 /\ j \in DOMAIN prog.listed
          BY <1>3, <2>3, <2>8, <4>2
        <5>2. e \in met \/ Lost(e)
          BY <1>1, <3>3, <5>1 DEF RInv, ModulesSeen, First
        <5>3. e \in Classes
          BY <1>1, <3>3, <5>1, ProgramsAssumption
        <5>4. QED
          BY <1>1, <3>1, <5>2, <5>3
      <4>3. QED
        BY <4>1, <4>2
    <3>4. QED
      BY <1>1, <2>3, <3>2, <3>3 DEF ModulesSeen
  <2>11. RoundTyped' /\ RoundResolved' /\ RoundsDone' /\ RestDone'
    BY <2>3 DEF RoundTyped, RoundResolved, RoundsDone, RestDone
  <2>12. QED
    BY <2>7, <2>10, <2>11 DEF RInv
<1>4. QED
  BY <1>2, <1>3

(* A class of the round is resolved. *)
LEMMA ResolveSomeReach ==
    ASSUME IInv, NInv, RInv, ResolveSome
    PROVE  NInv' /\ RInv'
<1>1. /\ stack = <<>> /\ UNCHANGED <<prog, state, aliased, met, found>> /\ ret = Running /\ ret' = Running
      /\ round.phase = "resolve" /\ prog \in Programs
  BY DEF ResolveSome, Idle, Returned, defVars, IInv, Typed
<1>2. PICK c \in round.todo :
        /\ stack' = <<ResolveCall(c, FALSE)>>
        /\ round' = [round EXCEPT !.todo = @ \ {c}, !.current = {c}]
  BY DEF ResolveSome
<1>3. /\ round \in [phase : {"resolve", "done"}, todo : SUBSET Classes, current : SUBSET Classes,
                    good : SUBSET Classes, processed : SUBSET Classes]
      /\ IsFiniteSet(round.good) /\ IsFiniteSet(round.current)
  BY <1>1 DEF RInv, RoundTyped
<1>4. /\ round'.phase = "resolve" /\ round'.todo = round.todo \ {c} /\ round'.current = {c}
      /\ round'.good = round.good /\ round'.processed = round.processed
      /\ round' \in [phase : {"resolve", "done"}, todo : SUBSET Classes, current : SUBSET Classes,
                     good : SUBSET Classes, processed : SUBSET Classes]
  BY <1>1, <1>2, <1>3
<1>5. RoundTyped'
  <2>1. IsFiniteSet({c})
    BY FS_Singleton
  <2>2. IsFiniteSet(round'.current)
    BY <1>4, <2>1
  <2>3. IsFiniteSet(round'.good)
    BY <1>3, <1>4
  <2>4. QED
    BY <1>4, <2>2, <2>3 DEF RoundTyped
<1>6. /\ Good' = Good /\ Failed' = Failed /\ Over' = Over /\ \A e : AliasesOf(e)' = AliasesOf(e)
  BY <1>1, SameSets
<1> DEFINE callee == ResolveCall(c, FALSE)
<1>7. callee.fun = "resolve" /\ callee.def = c /\ HasNote(callee) /\ New(callee) /\ stack' = <<callee>>
  BY <1>2 DEF ResolveCall, HasNote, New
<1> HIDE DEF callee
<1>8. NInv'
  <2>1. FirstCall(callee)'
    BY <1>4, <1>7 DEF FirstCall
  <2>2. round.current \subseteq round.good \cup Failed
    BY <1>1 DEF RInv, RoundResolved
  <2>3. Known' \subseteq Known /\ \A e \in Known : e \in Known' \/ e \in Failed
    BY <1>1, <1>4, <2>2 DEF Known
  <2>4. QED
    BY <1>1, <1>7, <2>1, <2>3, Idles
<1>9. stack' # <<>>
  BY <1>7
<1>10. ModulesSeen' /\ RoundResolved' /\ RoundsDone'
  <2>1. \A e \in ToSet(prog.listed) : e \in Classes
    BY <1>1, ProgramsAssumption DEF ToSet
  <2>2. \A e \in ToSet(prog.listed) : e \in met' \/ Lost(e)'
    BY <1>1, <1>7, <2>1, LostBetween DEF Lost, RInv, ModulesSeen
  <2>3. QED
    BY <1>1, <1>4, <1>6, <1>9, <2>2 DEF RInv, ModulesSeen, RoundResolved, RoundsDone
<1>11. RestDone'
  BY <1>1, <1>4, <1>6 DEF RInv, RestDone
<1>12. QED
  BY <1>5, <1>8, <1>10, <1>11 DEF RInv

(* It was, or was not, and the round goes on or ends. *)
LEMMA ResolvedSomeReach ==
    ASSUME IInv, NInv, RInv, ResolvedSome
    PROVE  NInv' /\ RInv'
<1>1. /\ stack = <<>> /\ UNCHANGED <<prog, state, aliased, met, found, stack>> /\ ret # Running
      /\ ret' = Running /\ round.phase = "resolve"
  BY DEF ResolvedSome, Idle, Returned, defVars
<1> DEFINE good == IF ret = False THEN round.good ELSE round.good \cup round.current
<1>2. round' = [round EXCEPT !.good = good]
  BY DEF ResolvedSome
<1>3. /\ round \in [phase : {"resolve", "done"}, todo : SUBSET Classes, current : SUBSET Classes,
                    good : SUBSET Classes, processed : SUBSET Classes]
      /\ IsFiniteSet(round.good) /\ IsFiniteSet(round.current)
  BY <1>1 DEF RInv, RoundTyped
<1>4. good \subseteq Classes /\ IsFiniteSet(good) /\ round.good \subseteq good
  BY <1>3, FS_Union
<1>5. /\ good \subseteq Good /\ round.current \subseteq good \cup Failed
  BY <1>1 DEF RInv, RoundResolved
<1> HIDE DEF good
<1>6. /\ round'.phase = "resolve" /\ round'.todo = round.todo /\ round'.current = round.current
      /\ round'.good = good /\ round'.processed = round.processed
      /\ round' \in [phase : {"resolve", "done"}, todo : SUBSET Classes, current : SUBSET Classes,
                     good : SUBSET Classes, processed : SUBSET Classes]
  BY <1>1, <1>2, <1>3, <1>4
<1>7. /\ Good' = Good /\ Failed' = Failed /\ Over' = Over /\ \A e : AliasesOf(e)' = AliasesOf(e)
  BY <1>1, SameSets
<1>8. NInv'
  <2>1. good \subseteq round.good \cup round.current
    BY DEF good
  <2>2. Known \subseteq Known' /\ Known' \subseteq Known
    BY <1>1, <1>4, <1>6, <2>1 DEF Known
  <2>3. QED
    BY <1>1, <2>2, Idles
<1>l. \A c : Lost(c)' <=> Lost(c)
  BY <1>1, SameDefs DEF Lost, Failed, At, Works
<1>9. RoundTyped'
  BY <1>3, <1>4, <1>6 DEF RoundTyped
<1>10. ModulesSeen' /\ RoundResolved' /\ RoundsDone' /\ RestDone'
  BY <1>1, <1>5, <1>6, <1>7, <1>l DEF RInv, ModulesSeen, RoundResolved, RoundsDone, RestDone
<1>11. QED
  BY <1>8, <1>9, <1>10 DEF RInv

(* What the rounds left is listed. *)
LEMMA ResolveRestReach ==
    ASSUME IInv, NInv, RInv, ResolveRest
    PROVE  NInv' /\ RInv'
<1>1. /\ stack = <<>> /\ UNCHANGED <<prog, state, aliased, met, found, stack, ret>> /\ ret = Running
      /\ round.phase = "resolve" /\ round.todo = {} /\ prog \in Programs
  BY DEF ResolveRest, Idle, Returned, IInv, Typed, defVars
<1>2. /\ round \in [phase : {"resolve", "done"}, todo : SUBSET Classes, current : SUBSET Classes,
                    good : SUBSET Classes, processed : SUBSET Classes]
      /\ IsFiniteSet(round.good) /\ IsFiniteSet(round.current)
  BY <1>1 DEF RInv, RoundTyped
<1>3. /\ round.current \subseteq round.good \cup Failed /\ round.good \subseteq Good
      /\ round.current = {} => found = {}
  BY <1>1 DEF RInv, RoundResolved
<1>4. /\ Defs' = Defs /\ Good' = Good /\ Failed' = Failed /\ Over' = Over
      /\ \A e : AliasesOf(e)' = AliasesOf(e)
  BY <1>1, SameSets
<1>5. \A c \in round.processed : c \in Good /\ \A d \in AliasesOf(c) : d \in Over
  BY <1>1 DEF RInv, RestDone
<1>l. \A c : Lost(c)' <=> Lost(c)
  BY <1>1, SameDefs DEF Lost, Failed, At, Works
<1>6. \A c \in ToSet(prog.listed) : c \in met' \/ Lost(c)'
  BY <1>1, <1>l DEF RInv, ModulesSeen
<1>7. CASE round.good = {}
  <2>1. round' = [round EXCEPT !.phase = "done"]
    BY <1>7 DEF ResolveRest
  <2>2. /\ round'.phase = "done" /\ round'.todo = {} /\ round'.current = round.current
        /\ round'.good = {} /\ round'.processed = round.processed
        /\ round' \in [phase : {"resolve", "done"}, todo : SUBSET Classes, current : SUBSET Classes,
                       good : SUBSET Classes, processed : SUBSET Classes]
    BY <1>1, <1>2, <1>7, <2>1
  <2>3. Known' = Known
    BY <1>1, <1>7, <2>2 DEF Known
  <2>4. NInv'
    BY <1>1, <2>3, Idles
  <2>5. RoundTyped'
    BY <1>2, <1>7, <2>2 DEF RoundTyped
  <2>6. ModulesSeen' /\ RoundResolved' /\ RoundsDone' /\ RestDone'
    BY <1>1, <1>3, <1>4, <1>5, <1>6, <1>7, <2>2 DEF ModulesSeen, RoundResolved, RoundsDone, RestDone
  <2>7. QED
    BY <2>4, <2>5, <2>6 DEF RInv
<1>8. CASE round.good # {}
  <2>1. PICK order \in SetToSeqs(round.good) :
          round' = [phase |-> "rest", todo |-> AllDefsOf(order, "alias"),
                    processed |-> round.processed \cup round.good]
    BY <1>8 DEF ResolveRest
  <2>2. order \in Seq(Classes) /\ ToSet(order) = round.good
    <3>1. order \in Seq(round.good) /\ ToSet(order) = round.good
      BY <1>2, Ordered
    <3>2. QED
      BY <1>2, <3>1, SeqMonotonic
  <2> DEFINE todo == AllDefsOf(order, "alias")
  <2>3. todo \in Seq(Defs) /\ ToSet(todo) = {d \in Defs : d[1] \in round.good /\ Def(d).kind = "alias"}
    BY <1>1, <2>2, AllDefsOfIs
  <2> HIDE DEF todo
  <2>4. round' = [phase |-> "rest", todo |-> todo, processed |-> round.processed \cup round.good]
    BY <2>1 DEF todo
  <2>5. /\ round'.phase = "rest" /\ round'.todo = todo
        /\ round'.processed = round.processed \cup round.good
        /\ round' \in [phase : {"rest"}, todo : Seq(Defs), processed : SUBSET Classes]
    BY <1>2, <2>3, <2>4
  <2>6. NInv'
    <3>1. Known' \subseteq Known /\ \A e \in Known : e \in Known' \/ e \in Failed
      BY <1>1, <1>3, <2>5 DEF Known
    <3>2. QED
      BY <1>1, <3>1, Idles
  <2>7. RoundTyped'
    BY <1>4, <2>5 DEF RoundTyped
  <2>8. ModulesSeen' /\ RoundResolved' /\ RoundsDone'
    BY <1>1, <1>6, <2>5 DEF ModulesSeen, RoundResolved, RoundsDone
  <2>9. RestDone'
    <3>1. ASSUME NEW c \in round.good, NEW d \in AliasesOf(c) PROVE d \in ToSet(todo)
      BY <2>3, <3>1 DEF AliasesOf
    <3>2. QED
      BY <1>3, <1>4, <1>5, <2>5, <3>1 DEF RestDone
  <2>10. QED
    BY <2>6, <2>7, <2>8, <2>9 DEF RInv
<1>9. QED
  BY <1>7, <1>8

(* The next typedef that was left is resolved. *)
LEMMA RestNextReach ==
    ASSUME IInv, NInv, RInv, RestNext
    PROVE  NInv' /\ RInv'
<1>1. stack = <<>> /\ UNCHANGED <<prog, state, aliased, met>> /\ ret' = Running
      /\ round.phase = "rest" /\ prog \in Programs
  BY DEF RestNext, Idle, defVars, IInv, Typed
<1>2. CASE round.todo = <<>>
  BY <1>1, <1>2, RoundBegins DEF RestNext
<1>3. CASE round.todo # <<>>
  <2>1. PICK d \in Defs : d = Head(round.todo) /\ stack' = <<DefCall(d)>>
    BY <1>3 DEF RestNext, NextOf
  <2>2. round' = [round EXCEPT !.todo = Tail(@)] /\ found' = found
    BY <1>3 DEF RestNext
  <2>3. round \in [phase : {"rest"}, todo : Seq(Defs), processed : SUBSET Classes]
    BY <1>1 DEF RInv, RoundTyped
  <2>4. round.todo \in Seq(Defs)
    BY <2>3
  <2> DEFINE todo == Tail(round.todo)
  <2>5. todo \in Seq(Defs) /\ ToSet(round.todo) = {d} \cup ToSet(todo)
    BY <1>3, <2>1, <2>4, NextAndRest
  <2> HIDE DEF todo
  <2>6. /\ round'.phase = "rest" /\ round'.todo = todo /\ round'.processed = round.processed
        /\ round' \in [phase : {"rest"}, todo : Seq(Defs), processed : SUBSET Classes]
    <3>1. round' = [round EXCEPT !.todo = todo]
      BY <2>2 DEF todo
    <3>2. QED
      BY <2>3, <2>5, <3>1
  <2> DEFINE callee == DefCall(d)
  <2>7. callee.fun = "def" /\ callee.def = d /\ HasNote(callee) /\ New(callee) /\ stack' = <<callee>>
    BY <2>1 DEF DefCall, HasNote, New
  <2> HIDE DEF callee
  <2>8. NInv'
    <3>1. FirstCall(callee)'
      BY <2>6, <2>7 DEF FirstCall
    <3>2. Known' = Known
      BY <1>1, <2>2, <2>6 DEF Known
    <3>3. QED
      BY <1>1, <2>7, <3>1, <3>2, Idles
  <2>9. /\ Defs' = Defs /\ Good' = Good /\ Over' = Over
        /\ \A e : AliasesOf(e)' = AliasesOf(e)
    BY <1>1, SameSets
  <2>10. RoundTyped'
    BY <2>6, <2>9 DEF RoundTyped
  <2>11. ModulesSeen' /\ RoundResolved' /\ RoundsDone'
    <3>1. \A e \in ToSet(prog.listed) : e \in Classes
      BY <1>1, ProgramsAssumption DEF ToSet
    <3>2. \A e \in ToSet(prog.listed) : e \in met' \/ Lost(e)'
      BY <1>1, <2>7, <3>1, LostBetween DEF Lost, RInv, ModulesSeen
    <3>3. QED
      BY <1>1, <2>6, <3>2 DEF RInv, ModulesSeen, RoundResolved, RoundsDone
  <2>12. RestDone'
    <3>1. \A c \in round.processed :
            c \in Good /\ \A e \in AliasesOf(c) : e \in Over \/ e \in ToSet(todo) \/ e = d
      BY <1>1, <2>5 DEF RInv, RestDone, First
    <3>2. stack' # <<>> /\ stack'[1].fun = "def" /\ stack'[1].def = d
      BY <2>7
    <3>3. QED
      BY <2>6, <2>9, <3>1, <3>2 DEF RestDone, First
  <2>13. QED
    BY <2>8, <2>10, <2>11, <2>12 DEF RInv
<1>4. QED
  BY <1>2, <1>3

(* Nothing was come across at first. *)
LEMMA InitReach == Init => NInv /\ RInv
<1> SUFFICES ASSUME Init PROVE NInv /\ RInv
  OBVIOUS
<1>1. /\ stack = <<>> /\ DOMAIN stack = {} /\ ret = Running
      /\ round = [phase |-> "modules", k |-> 1, processed |-> {}]
      /\ prog \in Programs
      /\ \A x \in Classes : state[x] = "NotResolved"
      /\ found = {} /\ met = {}
  BY DEF Init
<1>2. NInv
  <2>1. Known = {}
    BY <1>1 DEF Known
  <2>2. QED
    BY <1>1, <2>1 DEF NInv, StackNotes, Tracked, Seen
<1>3. round \in [phase : {"modules"}, k : Nat \ {0}, processed : {{}}]
      /\ round.phase = "modules" /\ round.processed = {} /\ round.k = 1
  BY <1>1
<1>4. RoundTyped /\ RoundResolved /\ RoundsDone /\ RestDone
  BY <1>3 DEF RoundTyped, RoundResolved, RoundsDone, RestDone
<1>5. ModulesSeen
  <2>1. Len(prog.listed) \in Nat
    BY <1>1, ProgramsAssumption
  <2>2. QED
    BY <1>3, <2>1 DEF ModulesSeen
<1>6. QED
  BY <1>2, <1>4, <1>5 DEF RInv

(* No step breaks it. *)
LEMMA StepReach ==
    IInv /\ TInv /\ VInv /\ DInv /\ NInv /\ RInv /\ [Next]_vars => NInv' /\ RInv'
<1> SUFFICES ASSUME IInv, TInv, VInv, DInv, NInv, RInv, [Next]_vars PROVE NInv' /\ RInv'
  OBVIOUS
<1>0. TInv' /\ StaysTyped /\ StaysResolved
  BY StepInv, StepTypes
<1>1. CASE UNCHANGED vars
  BY <1>1, StandsStill DEF vars, defVars
<1>2. CASE stack # <<>> /\ InitStep
  BY <1>0, <1>2, InitStepReach
<1>3. CASE ~aborted /\ stack # <<>> /\ ResolveStep
  BY <1>0, <1>3, ResolveStepReach
<1>4. CASE stack # <<>> /\ ValueStep
  BY <1>0, <1>4, ValueStepReach
<1>5. CASE stack # <<>> /\ DefStep
  BY <1>0, <1>5, DefStepReach
<1>6. CASE stack # <<>> /\ TypeStep
  BY <1>0, <1>6, TypeStepReach
<1>7. CASE InitModules \/ ResolveSome \/ ResolvedSome \/ ResolveRest \/ RestNext
  BY <1>7, InitModulesReach, ResolveSomeReach, ResolvedSomeReach, ResolveRestReach, RestNextReach
<1>8. QED
  BY <1>1, <1>2, <1>3, <1>4, <1>5, <1>6, <1>7 DEF Next, Idle

(* When all is done, all that was come across is. *)
LEMMA InvReaches == IInv /\ TInv /\ WInv /\ NInv /\ RInv => RoundsReachAll
<1> SUFFICES ASSUME IInv, TInv, WInv, NInv, RInv, Done,
                    \A d \in Classes \cup Defs : state[d] # "Unresolvable", NEW c \in Classes
             PROVE  /\ c \in ToSet(prog.listed) \cup met =>
                         state[c] = "Resolved" /\ \A i \in Members(c) : state[<<c, i>>] = "Resolved"
                    /\ state[c] # "NotResolved" => c \in met \/ c \in InExprs
  BY DEF RoundsReachAll
<1>1. round.phase = "done" /\ Failed = {} /\ Over = Good /\ \A x : ~Lost(x)
  BY DEF Done, Failed, Over, Lost
<1>2. Known = round.processed /\ stack = <<>>
  BY <1>1 DEF Known, RInv, RoundsDone
<1>3. ASSUME c \in met
      PROVE  c \in Good /\ \A i \in Members(c) : <<c, i>> \in Good \cap Defs
  <2>1. c \in round.processed
    BY <1>1, <1>2, <1>3 DEF NInv, Tracked
  <2>2. c \in Good /\ AliasesOf(c) \subseteq Good
    BY <1>1, <2>1 DEF RInv, RestDone
  <2>3. PropsOf(c) \cup FunsOf[c] \subseteq Good
    BY <2>2 DEF WInv, ClassesWhole, Needs
  <2>4. ASSUME NEW i \in Members(c) PROVE <<c, i>> \in Good \cap Defs
    <3> DEFINE d == <<c, i>>
    <3>1. d \in Defs /\ d[1] = c
      BY <2>4 DEF Defs
    <3>2. Def(d).kind \in {"alias", "prop", "fun"}
      BY <2>4, ProgramsAssumption DEF IInv, Typed, Def, Kinds, Members
    <3> HIDE DEF d
    <3>3. QED
      BY <2>2, <2>3, <3>1, <3>2 DEF AliasesOf, PropsOf, FunsOf, d
  <2>5. QED
    BY <2>2, <2>4
<1>4. c \in ToSet(prog.listed) => c \in met
  BY <1>1 DEF RInv, ModulesSeen
<1>5. \A d \in Good \cap Defs : state[d] = "Resolved"
  BY Apart DEF Good, ResolvedClasses, TInv, IInv
<1>6. c \in Good => state[c] = "Resolved"
  BY Apart DEF Good, ResolvedClasses, IInv
<1>7. state[c] # "NotResolved" => c \in met \/ c \in InExprs
  BY <1>1, <1>2 DEF NInv, Seen
<1>8. QED
  BY <1>3, <1>4, <1>5, <1>6, <1>7

(* When nothing failed, every class that is listed or that was come across *)
(* outside of expressions, in whichever round, is resolved with all its    *)
(* members; any other is untouched or led to by an expression.             *)
THEOREM Reached == Spec => []RoundsReachAll
<1>1. Init => IInv /\ TInv /\ VInv /\ WInv /\ DInv /\ NInv /\ RInv
  BY InitInv, InitTypes, InitValues, InitWhole, InitDown, InitReach
<1>2. IInv /\ TInv /\ VInv /\ WInv /\ DInv /\ NInv /\ RInv /\ [Next]_vars
        => IInv' /\ TInv' /\ VInv' /\ WInv' /\ DInv' /\ NInv' /\ RInv'
  BY StepInv, StepTypes, StepValues, StepWhole, StepDown, StepReach
<1>3. QED
  BY <1>1, <1>2, InvReaches, PTL DEF Spec

-----------------------------------------------------------------------------
(* Circles *)

Circular == \E c \in Classes : c \in Reach(c)

(* A call leads back to the class of an earlier one only if the classes    *)
(* between them go round a circle.                                         *)
LEMMA Descend ==
    ASSUME IInv, DInv, NEW i \in DOMAIN stack, NEW j \in DOMAIN stack, i <= j
    PROVE  /\ ClassOf(stack[i]) \in Classes
           /\ ClassOf(stack[j]) \in Down(ClassOf(stack[i]))
<1> DEFINE n == Len(stack)
           m == j - i
           N == {k \in 0 .. m : ClassOf(stack[i + k]) \in Down(ClassOf(stack[i]))}
<1>1. n \in Nat /\ DOMAIN stack = 1 .. n
  BY LenProperties DEF IInv, Stacked
<1>2. \A k \in DOMAIN stack : ClassOf(stack[k]) \in Classes
  BY ClassOfFrame DEF IInv, Stacked
<1>3. Chain(stack)
  BY DEF DInv
<1>4. PICK s : s = stack
  OBVIOUS
<1>5. m \in Nat /\ \A k \in 1 .. m : i + (k - 1) \in 1 .. n /\ i + (k - 1) # n /\ (i + (k - 1)) + 1 = i + k
  BY <1>1
<1>6. 0 \in N
  <2>1. i + 0 = i /\ 0 \in 0 .. m
    BY <1>1, <1>5
  <2>2. QED
    BY <2>1 DEF Down
<1>7. ASSUME NEW k \in 1 .. m, k - 1 \in N PROVE k \in N
  <2>1. PICK l : l = i + (k - 1)
    OBVIOUS
  <2>2. l \in DOMAIN stack /\ l # n /\ l + 1 = i + k /\ k \in 0 .. m
    BY <1>1, <1>5, <1>7, <2>1
  <2>3. ClassOf(stack[l + 1]) \in Down(ClassOf(stack[l]))
    BY <1>3, <2>2 DEF Chain, Leads
  <2>4. ClassOf(stack[l]) \in Down(ClassOf(stack[i]))
    BY <1>7, <2>1
  <2>5. ClassOf(stack[l + 1]) \in Down(ClassOf(stack[i]))
    BY <1>2, <2>3, <2>4, DownOn
  <2>6. QED
    BY <2>2, <2>5
<1>8. 0 .. m \subseteq N
  <2> HIDE DEF N, m
  <2>1. QED
    BY <1>5, <1>6, <1>7, CountingUp
<1>9. m \in 0 .. m /\ i + m = j
  BY <1>1, <1>5
<1>10. ClassOf(stack[i + m]) \in Down(ClassOf(stack[i]))
  <2> HIDE DEF m
  <2>1. QED
    BY <1>8, <1>9
<1>11. QED
  BY <1>2, <1>9, <1>10

LEMMA Circle ==
    ASSUME IInv, DInv, NEW i \in DOMAIN stack, NEW j \in DOMAIN stack, i <= j, j # Len(stack),
           ClassOf(stack[j + 1]) \in Reach(ClassOf(stack[j])),
           ClassOf(stack[i]) \in Down(ClassOf(stack[j + 1]))
    PROVE  Circular
<1>1. PICK a, b, e : a = ClassOf(stack[i]) /\ b = ClassOf(stack[j]) /\ e = ClassOf(stack[j + 1])
  OBVIOUS
<1>2. a \in Classes /\ b \in Down(a) /\ b \in Classes
  BY <1>1, Descend, DownOn
<1>3. e \in Reach(a)
  BY <1>1, <1>2, DownOn
<1>4. e \in Classes /\ a \in Down(e)
  BY <1>1, <1>2, <1>3, ReachOn
<1>5. Reach(a) \subseteq Reach(e)
  BY <1>4, DownOn
<1>6. QED
  BY <1>3, <1>4, <1>5 DEF Circular

(* A class that is being resolved is come back to, by a call to resolve it. *)
LEMMA ClassCircle ==
    ASSUME IInv, DInv, stack # <<>>, Top.fun = "resolve", ~Works(Top, "resolve", Top.def),
           Top.def \in Classes, state[Top.def] = "Resolving"
    PROVE  Circular
<1>1. PICK n : n = Len(stack)
  OBVIOUS
<1>2. /\ n \in Nat /\ DOMAIN stack = 1 .. n /\ Top = stack[n]
      /\ n \notin At("resolve", Top.def)
  BY <1>1, TopFrame DEF IInv
<1>3. PICK i \in At("resolve", Top.def) : TRUE
  BY DEF IInv, Marked
<1>4. i \in 1 .. n /\ i # n /\ stack[i].fun = "resolve" /\ stack[i].def = Top.def
  BY <1>2, <1>3 DEF At, Works
<1>5. PICK j : j = n - 1
  OBVIOUS
<1>6. j \in DOMAIN stack /\ i <= j /\ j # n /\ j + 1 = n
  BY <1>2, <1>4, <1>5
<1>7. Leads(stack[j], stack[j + 1]) /\ stack[j + 1] = Top
  BY <1>1, <1>2, <1>6 DEF DInv, Chain
<1>8. ClassOf(stack[j + 1]) \in Reach(ClassOf(stack[j]))
  BY <1>7 DEF Leads
<1>9. ClassOf(stack[i]) = Top.def /\ ClassOf(Top) = Top.def
  BY <1>4 DEF ClassOf
<1>10. ClassOf(stack[i]) \in Down(ClassOf(stack[j + 1]))
  BY <1>7, <1>9 DEF Down
<1>11. QED
  BY <1>1, <1>2, <1>4, <1>6, <1>8, <1>10, Circle

(* So is what is being resolved of a class, by a call that resolves its    *)
(* class; or a typedef, from where it is looked for in scope.              *)
LEMMA DefCircle ==
    ASSUME IInv, DInv, stack # <<>>, Top.fun = "def", Top.at = "enter",
           At("def", Top.def) # {}
    PROVE  \/ Circular
           \/ /\ Def(Top.def).kind = "alias" /\ Len(stack) - 1 \in DOMAIN stack
              /\ stack[Len(stack) - 1].fun = "type" /\ stack[Len(stack) - 1].at = "spec"
<1>1. PICK n, d : n = Len(stack) /\ d = Top.def
  OBVIOUS
<1>2. /\ n \in Nat /\ DOMAIN stack = 1 .. n /\ Top = stack[n]
      /\ n \notin At("def", d)
  BY <1>1, TopFrame DEF IInv, Works
<1>3. PICK i \in At("def", d) : TRUE
  BY <1>1
<1>4. i \in 1 .. n /\ i # n /\ stack[i].fun = "def" /\ stack[i].def = d
  BY <1>2, <1>3 DEF At, Works
<1>5. PICK j : j = n - 1
  OBVIOUS
<1>6. j \in DOMAIN stack /\ i <= j /\ j # n /\ j + 1 = n
  BY <1>2, <1>4, <1>5
<1>7. Leads(stack[j], Top) /\ stack[j + 1] = Top
  BY <1>1, <1>2, <1>6 DEF DInv, Chain
<1>8. ClassOf(stack[i]) = d[1] /\ ClassOf(Top) = d[1]
  BY <1>1, <1>4 DEF ClassOf
<1>9. ClassOf(Top) \in Down(ClassOf(stack[j]))
  BY <1>7 DEF Leads
<1>10. CASE Def(d).kind = "alias"
  <2>1. stack[j].fun = "type" /\ (stack[j].at = "spec" \/ ClassOf(Top) \in Reach(ClassOf(stack[j])))
    BY <1>1, <1>7, <1>10 DEF Leads
  <2>2. CASE stack[j].at = "spec"
    BY <1>1, <1>5, <1>6, <1>10, <2>1, <2>2
  <2>3. CASE ClassOf(Top) \in Reach(ClassOf(stack[j]))
    <3>1. ClassOf(stack[i]) \in Down(ClassOf(stack[j + 1]))
      BY <1>7, <1>8 DEF Down
    <3>2. Circular
      BY <1>1, <1>2, <1>4, <1>6, <1>7, <2>3, <3>1, Circle
    <3>3. QED
      BY <3>2
  <2>4. QED
    BY <2>1, <2>2, <2>3
<1>11. CASE Def(d).kind # "alias"
  <2>1. stack[j].fun = "resolve"
    BY <1>1, <1>7, <1>11 DEF Leads
  <2>2. i # j
    BY <1>4, <2>1
  <2>3. PICK k : k = j - 1
    OBVIOUS
  <2>4. k \in DOMAIN stack /\ i <= k /\ k # n /\ k + 1 = j
    BY <1>2, <1>4, <1>6, <2>2, <2>3
  <2>5. Leads(stack[k], stack[k + 1])
    BY <1>1, <2>4 DEF DInv, Chain
  <2>6. ClassOf(stack[k + 1]) \in Reach(ClassOf(stack[k]))
    BY <2>1, <2>4, <2>5 DEF Leads
  <2>7. ClassOf(stack[i]) \in Down(ClassOf(stack[k + 1]))
    BY <1>8, <1>9, <2>4
  <2>8. Circular
    BY <1>1, <1>2, <1>4, <2>4, <2>6, <2>7, Circle
  <2>9. QED
    BY <2>8
<1>12. QED
  BY <1>10, <1>11

-----------------------------------------------------------------------------
(* Failures *)

(* Before an error is reported, nothing has failed but typedefs that are   *)
(* looked for where they themselves are being resolved, and false is only  *)
(* returned to such a look-up, which goes on to find a class.              *)
Blamed ==
    \A x \in Classes \cup Defs : state[x] = "Unresolvable" =>
        x \in Defs /\ Def(x).kind = "alias" /\ At("def", x) # {}
FalseOnly == stack # <<>> /\ ret = False => Top.fun = "type" /\ Top.at = "spec"
EInv == errors \/ Circular \/ (Blamed /\ FalseOnly)

(* Calls below the last one stay what they are. *)
Kept == \A i \in 1 .. Len(stack) - 1 : i \in DOMAIN stack' /\ stack'[i] = stack[i]

LEMMA StillAt ==
    ASSUME IInv, stack # <<>>, Kept, NEW x, NEW i \in At("def", x), i # Len(stack)
    PROVE  i \in At("def", x)'
<1>1. PICK n : n = Len(stack)
  OBVIOUS
<1>2. n \in Nat /\ DOMAIN stack = 1 .. n
  BY <1>1, TopFrame DEF IInv
<1>3. i \in 1 .. n /\ i # n /\ Works(stack[i], "def", x)
  BY <1>1, <1>2 DEF At
<1>4. i \in 1 .. n - 1
  BY <1>2, <1>3
<1>5. i \in DOMAIN stack' /\ stack'[i] = stack[i]
  BY <1>1, <1>4 DEF Kept
<1>6. QED
  BY <1>3, <1>5 DEF At, Works

LEMMA StillBlamed ==
    ASSUME IInv, Blamed, stack # <<>>, prog' = prog, Kept,
           \A x \in Classes \cup Defs : state'[x] = "Unresolvable" =>
              \/ state[x] = "Unresolvable" /\ ~Works(Top, "def", x)
              \/ x \in Defs /\ Def(x).kind = "alias" /\ At("def", x)' # {}
    PROVE  Blamed'
<1>1. Defs' = Defs /\ \A x : Def(x)' = Def(x)
  BY SameText
<1>2. SUFFICES ASSUME NEW x \in Classes \cup Defs, state'[x] = "Unresolvable"
               PROVE  x \in Defs /\ Def(x).kind = "alias" /\ At("def", x)' # {}
  BY <1>1 DEF Blamed
<1>3. ASSUME state[x] = "Unresolvable", ~Works(Top, "def", x)
      PROVE  x \in Defs /\ Def(x).kind = "alias" /\ At("def", x)' # {}
  <2>1. x \in Defs /\ Def(x).kind = "alias" /\ At("def", x) # {}
    BY <1>3 DEF Blamed
  <2>2. PICK i \in At("def", x) : TRUE
    BY <2>1
  <2>3. i # Len(stack)
    BY <1>3, TopFrame DEF IInv
  <2>4. i \in At("def", x)'
    BY <2>2, <2>3, StillAt
  <2>5. QED
    BY <2>1, <2>4
<1>4. QED
  BY <1>2, <1>3

LEMMA InitStepBlames ==
    ASSUME IInv, DInv, Blamed, FalseOnly, stack # <<>>, InitStep, ~errors'
    PROVE  Blamed' /\ FalseOnly'
<1> DEFINE c == Top.def
<1>1. Top.fun = "init" /\ prog' = prog
  BY DEF InitStep, InitEnter, InitParent, InitAddParent, InitFail, InitDone
<1>2. IsFrame(Top, Defs) /\ state \in [Classes \cup Defs -> States]
  BY TopFrame DEF IInv, Typed
<1>3. c \in Classes /\ c \notin Defs
  BY <1>1, <1>2, Apart DEF IsFrame, IInv
<1>4. state[c] # "Unresolvable" /\ ret # False
  BY <1>1, <1>3 DEF Blamed, FalseOnly
<1>5. /\ state' = state \/ \E s \in {"Initializing", "Initialized"} : state' = [state EXCEPT ![c] = s]
      /\ ret' # False
  <2>r. Running # False /\ True # False
    BY DEF Running, True, False, IntType, NoType
  <2>1. CASE InitEnter
    <3>1. \/ Return(True) /\ state' = state
          \/ SetState(c, "Initializing") /\ Continue([Top EXCEPT !.at = 1])
      BY <1>4, <2>1 DEF InitEnter
    <3>2. QED
      BY <2>r, <3>1 DEF Return, Continue, SetState
  <2>2. CASE InitParent
    BY <2>2, <2>r DEF InitParent, Call
  <2>3. CASE InitAddParent
    <3>1. ret' = Running /\ state' = state
      BY <2>3 DEF InitAddParent, Continue
    <3>2. QED
      BY <2>r, <3>1
  <2>4. CASE InitFail
    BY <1>4, <2>4 DEF InitFail, False
  <2>5. CASE InitDone
    BY <2>5, <2>r DEF InitDone, SetState, Return
  <2>6. QED
    BY <2>1, <2>2, <2>3, <2>4, <2>5 DEF InitStep
<1>6. Kept
  BY InitStepDown DEF Led, Kept
<1>7. \A x \in Classes \cup Defs : state'[x] = "Unresolvable" => state[x] = "Unresolvable" /\ ~Works(Top, "def", x)
  <2>1. \A x : ~Works(Top, "def", x)
    BY <1>1 DEF Works
  <2>2. QED
    BY <1>2, <1>5, <2>1
<1>8. Blamed'
  BY <1>1, <1>6, <1>7, StillBlamed
<1>9. FalseOnly'
  BY <1>5 DEF FalseOnly, False, NoType
<1>10. QED
  BY <1>8, <1>9

LEMMA ResolveStepBlames ==
    ASSUME IInv, WInv, DInv, Blamed, FalseOnly, stack # <<>>, ResolveStep
    PROVE  Circular \/ (Blamed' /\ FalseOnly')
<1> DEFINE c == Top.def
<1>1. Top.fun = "resolve" /\ prog' = prog
  BY DEF ResolveStep, ResolveInit, ResolveEnter, ResolveNext, ResolveFuns, ResolveFun,
         ResolveFail, ResolveDone
<1>2. IsFrame(Top, Defs) /\ state \in [Classes \cup Defs -> States]
  BY TopFrame DEF IInv, Typed
<1>3. c \in Classes /\ c \notin Defs
  BY <1>1, <1>2, Apart DEF IsFrame, IInv
<1>4. state[c] # "Unresolvable" /\ ret # False
  BY <1>1, <1>3 DEF Blamed, FalseOnly
<1>c. Top.at = "enter" /\ state[c] = "Resolving" => Circular
  BY <1>1, <1>3, ClassCircle DEF Works
<1>5. SUFFICES ASSUME ~Circular PROVE Blamed' /\ FalseOnly'
  OBVIOUS
<1>r. Running # False /\ True # False
  BY DEF Running, True, False, IntType, NoType
<1>6. /\ state' = state \/ \E s \in {"Resolving", "Resolved"} : state' = [state EXCEPT ![c] = s]
      /\ ret' # False
  <2>1. CASE ResolveInit \/ ResolveNext \/ ResolveFun
    <3>1. ret' = Running /\ state' = state
      BY <2>1 DEF ResolveInit, ResolveNext, ResolveFun, Call
    <3>2. QED
      BY <1>r, <3>1
  <2>2. CASE ResolveFuns
    <3>1. ret' = Running /\ state' = state
      BY <2>2 DEF ResolveFuns, Continue
    <3>2. QED
      BY <1>r, <3>1
  <2>3. CASE ResolveEnter
    <3>1. \/ Return(True) /\ UNCHANGED state
          \/ WorkOn(c) /\ Continue([Top EXCEPT !.at = "deps", !.todo = Dependencies(c)])
          \/ UNCHANGED <<state, stack, ret>>
      BY <1>4, <1>5, <1>c, <2>3 DEF ResolveEnter
    <3>2. \/ ret' = True /\ state' = state
          \/ ret' = Running /\ state' = [state EXCEPT ![c] = "Resolving"]
          \/ ret' = ret /\ state' = state
      BY <3>1 DEF Return, Continue, WorkOn, SetState
    <3>3. QED
      BY <1>4, <1>r, <3>2
  <2>4. CASE ResolveFail
    BY <1>4, <2>4 DEF ResolveFail
  <2>5. CASE ResolveDone
    BY <2>5, <1>r DEF ResolveDone, SetState, Continue
  <2>6. QED
    BY <2>1, <2>2, <2>3, <2>4, <2>5 DEF ResolveStep
<1>7. Kept
  <2>1. Led \/ UNCHANGED <<stack, ret>>
    BY ResolveStepDown
  <2>2. Len(stack) \in Nat /\ DOMAIN stack = 1 .. Len(stack)
    BY TopFrame DEF IInv
  <2>3. QED
    BY <2>1, <2>2 DEF Led, Kept
<1>8. \A x \in Classes \cup Defs : state'[x] = "Unresolvable" => state[x] = "Unresolvable" /\ ~Works(Top, "def", x)
  <2>1. \A x : ~Works(Top, "def", x)
    BY <1>1 DEF Works
  <2>2. QED
    BY <1>2, <1>6, <2>1
<1>9. Blamed'
  BY <1>1, <1>7, <1>8, StillBlamed
<1>10. FalseOnly'
  BY <1>6 DEF FalseOnly, False, NoType
<1>11. QED
  BY <1>9, <1>10

(* No initialiser fails before an error is reported. *)
LEMMA ValueStepBlames ==
    ASSUME IInv, DInv, Blamed, FalseOnly, stack # <<>>, ValueStep
    PROVE  Blamed' /\ FalseOnly'
<1>1. Top.fun = "resolve" /\ prog' = prog
  BY DEF ValueStep, ValueNext, ValueGiven, ValueInit, ValueSet, ValueFail, ValuesDone, Valuing
<1>2. ret # False
  BY <1>1 DEF FalseOnly
<1>3. state' = state /\ (ret' = Running \/ ret' = True)
  BY <1>2 DEF ValueStep, ValueNext, ValueGiven, ValueInit, ValueSet, ValueFail, ValuesDone,
              Call, Continue, Return
<1>4. Kept
  BY ValueStepDown DEF Led, Kept
<1>5. \A x : ~Works(Top, "def", x)
  BY <1>1 DEF Works
<1>6. Blamed'
  BY <1>1, <1>3, <1>4, <1>5, StillBlamed
<1>7. Running # False /\ True # False
  BY DEF Running, True, False, IntType, NoType
<1>8. FalseOnly'
  BY <1>3, <1>7 DEF FalseOnly, False, NoType
<1>9. QED
  BY <1>6, <1>8

LEMMA TypeStepBlames ==
    ASSUME IInv, DInv, Blamed, FalseOnly, stack # <<>>, TypeStep, ~errors'
    PROVE  Blamed' /\ FalseOnly'
<1>1. Top.fun = "type" /\ UNCHANGED <<prog, state>>
  BY DEF TypeStep, TypeBuiltin, TypeInScope, TypeInScopeDone, TypeExport, TypePrepare,
         TypePrepared, TypeUnprepared, TypeClass, TypeMember, TypeMemberDone
<1>2. Led /\ (ret' = False => ret = False /\ Top.at = "member")
  BY TypeStepDown
<1>3. ret' # False
  BY <1>2 DEF FalseOnly
<1>4. \A x : ~Works(Top, "def", x)
  BY <1>1 DEF Works
<1>5. Blamed'
  BY <1>1, <1>2, <1>4, StillBlamed DEF Led, Kept
<1>6. FalseOnly'
  BY <1>3 DEF FalseOnly, False, NoType
<1>7. QED
  BY <1>5, <1>6

LEMMA DefStepBlames ==
    ASSUME IInv, DInv, Blamed, FalseOnly, stack # <<>>, DefStep
    PROVE  Circular \/ (Blamed' /\ FalseOnly')
<1>0. PICK d : d = Top.def
  OBVIOUS
<1>1. Top.fun = "def" /\ prog' = prog
  BY DEF DefStep, DefEnter, DefDim, DefFail, DefDone
<1>2. IsFrame(Top, Defs) /\ state \in [Classes \cup Defs -> States] /\ aliased \in [Defs -> TypesOf]
  BY TopFrame DEF IInv, Typed
<1>3. d \in Defs /\ {"fun", "def", "at", "type"} \subseteq DOMAIN Top /\ Top.at \in {"enter", "type", "dim"}
  BY <1>0, <1>1, <1>2 DEF IsFrame
<1>4. ret # False
  BY <1>1 DEF FalseOnly
<1>5. Kept /\ Downward(Top) /\ TypesUnder /\ DefStates
  BY DefStepDown, TopFrame DEF Led, Kept, IInv, DInv, Chain
<1>6. SUFFICES ASSUME ~Circular PROVE Blamed' /\ FalseOnly'
  OBVIOUS
<1>r. Running # False /\ False = NoType
  BY DEF Running, False, NoType
<1>w. \A x : Works(Top, "def", x) <=> x = d /\ Top.at # "enter"
  BY <1>0, <1>1 DEF Works
<1>s. ASSUME NEW s \in States \ {"Unresolvable"}, state' = [state EXCEPT ![d] = s] PROVE Blamed'
  <2>1. \A x \in Classes \cup Defs : state'[x] = "Unresolvable" => state[x] = "Unresolvable" /\ x # d
    BY <1>2, <1>3, <1>s
  <2>2. QED
    BY <1>1, <1>5, <1>w, <2>1, StillBlamed
<1>f. ASSUME ret' # False PROVE FalseOnly'
  BY <1>f DEF FalseOnly, False, NoType
<1>7. CASE DefEnter
  <2>1. Top.at = "enter"
    BY <1>7 DEF DefEnter
  <2>2. CASE state[d] = "NotResolved"
    <3>1. ret' = Running /\ state' = [state EXCEPT ![d] = "Resolving"]
      BY <1>0, <1>7, <2>2 DEF DefEnter, Call, WorkOn, SetState
    <3>2. QED
      BY <1>f, <1>r, <1>s, <3>1 DEF States
  <2>3. CASE state[d] = "Resolved"
    <3>1. ret' = aliased[d] /\ state' = state
      BY <1>0, <1>7, <2>3 DEF DefEnter, CheckState, Return
    <3>2. aliased[d] # NoType
      BY <1>3, <1>5, <2>3 DEF TypesUnder
    <3>3. \A x \in Classes \cup Defs : state'[x] = "Unresolvable" => state[x] = "Unresolvable" /\ ~Works(Top, "def", x)
      BY <1>w, <2>1, <3>1
    <3>4. Blamed'
      BY <1>1, <1>5, <3>3, StillBlamed
    <3>5. QED
      BY <1>f, <1>r, <3>1, <3>2, <3>4
  <2>4. CASE state[d] \in {"Resolving", "Unresolvable"}
    <3>1. Return(False) /\ state' = [state EXCEPT ![d] = "Unresolvable"]
      BY <1>0, <1>7, <2>4 DEF DefEnter, CheckState, SetState
    <3>2. At("def", d) # {}
      BY <1>3, <2>4 DEF Blamed, IInv, Marked
    <3>3. /\ Def(d).kind = "alias" /\ Len(stack) - 1 \in DOMAIN stack
          /\ stack[Len(stack) - 1].fun = "type" /\ stack[Len(stack) - 1].at = "spec"
      BY <1>0, <1>1, <1>6, <2>1, <3>2, DefCircle
    <3>4. At("def", d)' # {}
      <4>1. PICK i \in At("def", d) : TRUE
        BY <3>2
      <4>2. i # Len(stack)
        BY <1>w, <2>1, TopFrame DEF IInv
      <4>3. i \in At("def", d)'
        BY <1>5, <4>1, <4>2, StillAt
      <4>4. QED
        BY <4>3
    <3>5. Blamed'
      <4>1. \A x \in Classes \cup Defs : state'[x] = "Unresolvable" =>
              \/ state[x] = "Unresolvable" /\ ~Works(Top, "def", x)
              \/ x \in Defs /\ Def(x).kind = "alias" /\ At("def", x)' # {}
        <5>1. SUFFICES ASSUME NEW x \in Classes \cup Defs, state'[x] = "Unresolvable", x # d
                       PROVE  state[x] = "Unresolvable" /\ ~Works(Top, "def", x)
          BY <1>3, <3>3, <3>4
        <5>2. QED
          BY <1>2, <1>3, <1>w, <3>1, <5>1
      <4>2. QED
        BY <1>1, <1>5, <4>1, StillBlamed
    <3>6. FalseOnly'
      <4>1. ClassOf(Top) = d[1] /\ Under(False, ClassOf(Top))
        BY <1>0, <1>1, RunningUnder DEF ClassOf
      <4>2. stack' # <<>> => stack'[Len(stack')] = stack[Len(stack) - 1]
        BY <3>1, <4>1, DReturn
      <4>3. QED
        BY <3>3, <4>2 DEF FalseOnly, Top
    <3>7. QED
      BY <3>5, <3>6
  <2>5. QED
    BY <1>3, <1>5, <2>2, <2>3, <2>4 DEF DefStates
<1>8. CASE DefDim
  <2>1. ret' = Running /\ state' = state
    BY <1>8 DEF DefDim, Call
  <2>2. PICK fr, path, i, type :
          /\ fr = [Top EXCEPT !.at = "dim", !.type = type] /\ path = Def(d).dim /\ type = ret
          /\ Call(fr, TypeCall(path, d[1], i, None, TRUE))
          /\ path # <<>> /\ type # NoType
    BY <1>0, <1>8 DEF DefDim
  <2>3. fr.fun = "def" /\ fr.def = d /\ fr.type = type /\ fr.at = "dim"
    BY <1>0, <1>1, <1>3, <2>2
  <2>4. ClassOf(fr) = d[1] /\ ClassOf(Top) = d[1] /\ Under(ret, d[1])
    BY <1>0, <1>1, <2>3 DEF ClassOf, DInv
  <2>5. Downward(fr) /\ Alike(fr, Top)
    BY <1>0, <1>1, <2>2, <2>3, <2>4 DEF Downward, Alike
  <2>6. PICK callee : callee = TypeCall(path, d[1], i, None, TRUE)
    OBVIOUS
  <2>7. ClassOf(callee) = d[1] /\ callee.fun = "type"
    BY <2>6 DEF TypeCall, ClassOf
  <2>8. Downward(callee) /\ HasExpr(d[1])
    <3>1. /\ path \in Seq(Names) \ {<<>>} /\ ToSet(path) \cap Classes \subseteq Reach(d[1])
          /\ HasExpr(d[1])
      BY <1>3, <2>2, MentionedByDef DEF IInv, Typed
    <3>2. QED
      BY <2>6, <3>1, CalleesDown
  <2>9. Leads(fr, callee)
    BY <2>3, <2>4, <2>7, <2>8 DEF Leads, Down
  <2>10. Len(stack) \in DOMAIN stack' /\ stack'[Len(stack)] = fr
    BY <2>2, <2>5, <2>6, <2>8, <2>9, DCall
  <2>11. At("def", d)' # {}
    <3>1. Works(fr, "def", d)
      BY <2>3 DEF Works
    <3>2. Len(stack) \in At("def", d)'
      BY <2>10, <3>1 DEF At, Works
    <3>3. QED
      BY <3>2
  <2>12. \A x \in Classes \cup Defs : state'[x] = "Unresolvable" =>
           \/ state[x] = "Unresolvable" /\ ~Works(Top, "def", x)
           \/ x \in Defs /\ Def(x).kind = "alias" /\ At("def", x)' # {}
    BY <1>w, <2>1, <2>11 DEF Blamed
  <2>13. Blamed'
    BY <1>1, <1>5, <2>12, StillBlamed
  <2>14. QED
    BY <1>f, <1>r, <2>1, <2>13
<1>9. CASE DefFail
  BY <1>4, <1>9 DEF DefFail, False
<1>10. CASE DefDone
  <2>1. PICK type :
          /\ type = (IF Top.at = "dim" THEN ArrayOf(Top.type) ELSE ret)
          /\ aliased' = [aliased EXCEPT ![d] = type]
          /\ ret' = aliased'[d] /\ ret # NoType
          /\ state' = [state EXCEPT ![d] = "Resolved"]
    BY <1>0, <1>10 DEF DefDone, SetState, Return
  <2>2. type # NoType
    <3>1. CASE Top.at = "dim"
      <4>1. Top.type # NoType /\ Top.type \in TypesOf
        BY <1>1, <1>2, <1>5, <3>1 DEF Downward, IsFrame
      <4>2. PICK u : u = Top.type
        OBVIOUS
      <4>3. /\ type = [u EXCEPT !.of = IF u.of = "int" THEN "int" ELSE "array"]
            /\ u \in [of : {"none", "int", "class", "array", "running"}, cls : Classes \cup {None}]
        BY <2>1, <3>1, <4>1, <4>2 DEF ArrayOf, TypesOf
      <4>4. type.of \in {"int", "array"}
        BY <4>3
      <4>5. QED
        BY <4>4 DEF NoType
    <3>2. QED
      BY <2>1, <3>1
  <2>3. ret' # False
    BY <1>2, <1>3, <1>r, <2>1, <2>2
  <2>4. QED
    BY <1>f, <1>s, <2>1, <2>3 DEF States
<1>11. QED
  BY <1>7, <1>8, <1>9, <1>10 DEF DefStep

LEMMA ErrorsStay == Next => UNCHANGED prog /\ (errors => errors')
<1> SUFFICES ASSUME Next PROVE UNCHANGED prog /\ (errors => errors')
  OBVIOUS
<1>0. ASSUME prog' = prog, (errors' = errors) \/ \E b : errors' = (errors \/ b)
      PROVE  UNCHANGED prog /\ (errors => errors')
  <2>1. errors => errors'
    BY ONLY <1>0, Zenon
  <2>2. QED
    BY <1>0, <2>1
<1>1. CASE InitStep
  <2>1. CASE InitFail
    BY <1>0, <2>1, Zenon DEF InitFail
  <2>2. CASE InitEnter \/ InitParent \/ InitAddParent \/ InitDone
    <3>1. prog' = prog /\ errors' = errors
      BY <2>2 DEF InitEnter, InitParent, InitAddParent, InitDone
    <3>2. QED
      BY <1>0, <3>1
  <2>3. QED
    BY <1>1, <2>1, <2>2 DEF InitStep
<1>2. CASE ResolveStep
  <2>1. prog' = prog /\ errors' = errors
    BY <1>2 DEF ResolveStep, ResolveInit, ResolveEnter, ResolveNext, ResolveFuns, ResolveFun,
                ResolveFail, ResolveDone
  <2>2. QED
    BY <1>0, <2>1
<1>v. CASE ValueStep
  <2>1. prog' = prog /\ errors' = errors
    BY <1>v DEF ValueStep, ValueNext, ValueGiven, ValueInit, ValueSet, ValueFail, ValuesDone
  <2>2. QED
    BY <1>0, <2>1
<1>3. CASE DefStep
  <2>1. CASE DefFail
    BY <1>0, <2>1, Zenon DEF DefFail
  <2>2. CASE DefEnter \/ DefDim \/ DefDone
    <3>1. prog' = prog /\ errors' = errors
      BY <2>2 DEF DefEnter, DefDim, DefDone
    <3>2. QED
      BY <1>0, <3>1
  <2>3. QED
    BY <1>3, <2>1, <2>2 DEF DefStep
<1>4. CASE TypeStep
  <2>1. CASE TypeBuiltin
    BY <2>1 DEF TypeBuiltin
  <2>2. CASE TypeExport
    BY <2>2 DEF TypeExport, FailType
  <2>3. CASE TypeUnprepared \/ TypeClass \/ TypeMember
    BY <2>3 DEF TypeUnprepared, TypeClass, TypeMember, FailType
  <2>4. CASE TypeInScope \/ TypeInScopeDone \/ TypePrepare \/ TypePrepared \/ TypeMemberDone
    BY <2>4 DEF TypeInScope, TypeInScopeDone, TypePrepare, TypePrepared, TypeMemberDone
  <2>5. QED
    BY <1>4, <2>1, <2>2, <2>3, <2>4 DEF TypeStep
<1>5. CASE InitModules \/ ResolveSome \/ ResolvedSome \/ ResolveRest \/ RestNext
  <2>1. prog' = prog /\ errors' = errors
    BY <1>5 DEF InitModules, ResolveSome, ResolvedSome, ResolveRest, RestNext
  <2>2. QED
    BY <1>0, <2>1
<1>6. QED
  BY <1>1, <1>2, <1>v, <1>3, <1>4, <1>5 DEF Next

LEMMA InitBlames == Init => EInv
BY DEF Init, EInv, Blamed, FalseOnly

LEMMA StepBlames == IInv /\ WInv /\ DInv /\ EInv /\ [Next]_vars => EInv'
<1> SUFFICES ASSUME IInv, WInv, DInv, EInv, [Next]_vars PROVE EInv'
  OBVIOUS
<1>1. CASE UNCHANGED vars
  <2>1. UNCHANGED <<prog, state, stack, ret, errors>>
    BY <1>1 DEF vars
  <2>2. Defs' = Defs /\ (\A d : Def(d)' = Def(d)) /\ \A c : Reach(c)' = Reach(c)
    BY <2>1, SameText, SameReach
  <2>3. QED
    BY <2>1, <2>2 DEF EInv, Circular, Blamed, FalseOnly, At, Top, Works
<1>2. CASE Next
  <2>1. UNCHANGED prog /\ (errors => errors') /\ (Circular => Circular')
    BY <1>2, ErrorsStay, SameReach DEF Circular
  <2>2. CASE stack # <<>>
    <3>1. InitStep \/ ResolveStep \/ ValueStep \/ DefStep \/ TypeStep
      BY <1>2, <2>2 DEF Next, Idle, InitModules, ResolveSome, ResolvedSome, ResolveRest, RestNext
    <3>2. SUFFICES ASSUME ~errors, ~errors', ~Circular PROVE Blamed' /\ FalseOnly'
      BY <2>1 DEF EInv
    <3>3. Blamed /\ FalseOnly
      BY <3>2 DEF EInv
    <3>4. QED
      BY <2>2, <3>1, <3>2, <3>3, InitStepBlames, ResolveStepBlames, ValueStepBlames, DefStepBlames,
         TypeStepBlames
  <2>3. CASE stack = <<>>
    <3>1. InitModules \/ ResolveSome \/ ResolvedSome \/ ResolveRest \/ RestNext
      BY <1>2, <2>3 DEF Next, Idle
    <3>2. UNCHANGED <<prog, state>> /\ (stack' # <<>> => ret' = Running)
      BY <2>3, <3>1, IdleStepDown
    <3>3. SUFFICES ASSUME Blamed, FalseOnly PROVE Blamed' /\ FalseOnly'
      BY <2>1, <3>2 DEF EInv
    <3>4. \A x \in Classes \cup Defs : state[x] # "Unresolvable"
      BY <2>3, <3>3 DEF Blamed, At
    <3>5. Blamed'
      BY <3>2, <3>4, SameDefs DEF Blamed
    <3>6. FalseOnly'
      BY <3>2 DEF FalseOnly, Running, False, NoType
    <3>7. QED
      BY <3>5, <3>6
  <2>4. QED
    BY <2>2, <2>3
<1>3. QED
  BY <1>1, <1>2

LEMMA InvReports == RInv /\ EInv => FailureReported
<1> SUFFICES ASSUME RInv, EInv, Done, ~errors, NEW d \in Classes \cup Defs, state[d] = "Unresolvable"
             PROVE  Circular
  BY DEF FailureReported, Circular
<1>1. stack = <<>>
  BY DEF Done, RInv, RoundsDone
<1>2. \A x : At("def", x) = {}
  BY <1>1 DEF At
<1>3. ~Blamed
  BY <1>2 DEF Blamed
<1>4. QED
  BY <1>3 DEF EInv

(* Whatever could not be resolved when all is done was reported, unless    *)
(* some class mentions itself, by way of whichever others: for any program *)
(* of finitely many classes.                                               *)
THEOREM FailuresReported == Spec => []FailureReported
<1>1. Init => IInv /\ TInv /\ VInv /\ WInv /\ DInv /\ NInv /\ RInv /\ EInv
  BY InitInv, InitTypes, InitValues, InitWhole, InitDown, InitReach, InitBlames
<1>2. IInv /\ TInv /\ VInv /\ WInv /\ DInv /\ NInv /\ RInv /\ EInv /\ [Next]_vars
        => IInv' /\ TInv' /\ VInv' /\ WInv' /\ DInv' /\ NInv' /\ RInv' /\ EInv'
  BY StepInv, StepTypes, StepValues, StepWhole, StepDown, StepReach, StepBlames
<1>3. QED
  BY <1>1, <1>2, InvReports, PTL DEF Spec
=============================================================================
