------------------------------ MODULE FunSets -------------------------------
(***************************************************************************)
(* Overriding: how FunSet::merge and Fun::add_override fill the tables a   *)
(* call on an object is dispatched with.                                   *)
(*                                                                         *)
(* Functions of one name and one parameter list, a key of the function     *)
(* set's map, are followed; functions of other keys do not affect them.    *)
(* A class declares at most one, which is named by the class.  Classes are *)
(* resolved in any order in which ancestors come first, and resolving one  *)
(* merges what its ancestors declare into its set, one at a time.  The     *)
(* function may be a conversion (toInt), which is inherited separately.    *)
(***************************************************************************)
EXTENDS Integers, Sequences, SequencesExt

CONSTANTS
    Classes,      \* classes, which also name the functions they declare
    Hierarchies   \* bound: [parents, ancestors: [Classes -> lists of classes]]

None == 0

ASSUME ClassesAssumption == Classes \subseteq Nat \ {None}

(* What cls::Ancestry promises of its lists. *)
ASSUME HierarchiesAssumption ==
    /\ Hierarchies \subseteq [parents   : [Classes -> Seq(Classes)],
                              ancestors : [Classes -> Seq(Classes)]]
    /\ \A h \in Hierarchies, c \in Classes :
          /\ ToSet(h.parents[c]) \subseteq ToSet(h.ancestors[c])
          /\ c \notin ToSet(h.ancestors[c])
          /\ \A a \in ToSet(h.ancestors[c]) :
                ToSet(h.ancestors[a]) \subseteq ToSet(h.ancestors[c])

VARIABLES
    hierarchy,    \* parents and ancestors of the classes
    declared,     \* what a class declares: "nothing", "plain", "virtual"
    map,          \* the function of a class's set with the key (_map, _funs)
    conv,         \* the function a class converts with (_convs)
    isVirtual,    \* functions that are virtual by now
    overridden,   \* the function a function overrides
    overrides,    \* [function -> [class -> function called on its objects]]
    resolved,     \* classes that have been resolved
    work,         \* the class being merged, what is left of its two loops
    climb,        \* the call of add_override that is under way
    aborted       \* an assertion has stopped the program

vars == <<hierarchy, declared, map, conv, isVirtual, overridden, overrides,
          resolved, work, climb, aborted>>

MaybeFun == Classes \cup {None}
Idle == [cls |-> None, parents |-> <<>>, others |-> <<>>]
NoClimb == [at |-> None, fun |-> None]

Parents(c) == hierarchy.parents[c]
Ancestors(c) == hierarchy.ancestors[c]
Declares(c) == declared[c] # "nothing"

-----------------------------------------------------------------------------

(* Every class has its own function in its set; virtual ones are marked. *)
Init ==
    /\ hierarchy \in Hierarchies
    /\ declared \in [Classes -> {"nothing", "plain", "virtual"}]
    /\ map = [c \in Classes |-> IF Declares(c) THEN c ELSE None]
    /\ conv = [c \in Classes |-> None]
    /\ isVirtual = {c \in Classes : declared[c] = "virtual"}
    /\ overridden = [f \in Classes |-> None]
    /\ overrides = [f \in Classes |-> [c \in Classes |-> None]]
    /\ resolved = {}
    /\ work = Idle
    /\ climb = NoClimb
    /\ aborted = FALSE

(* ClassResolver::do_resolve up to merge_fsets; resolving the set of       *)
(* functions makes its own a conversion.                                   *)
Resolve(c) ==
    /\ work = Idle
    /\ c \notin resolved
    /\ ToSet(Ancestors(c)) \subseteq resolved
    /\ work' = [cls |-> c, parents |-> Parents(c), others |-> Ancestors(c)]
    /\ conv' = [conv EXCEPT ![c] = map[c]]
    /\ UNCHANGED <<hierarchy, declared, map, isVirtual, overridden, overrides,
                   resolved, climb, aborted>>

(* Mutant: an inherited function replaces the one that is there. *)
InheritAlways(c, f) ==
    /\ map' = [map EXCEPT ![c] = f]
    /\ climb' = IF f \in isVirtual /\ overridden[f] # None
                THEN [at |-> overridden[f], fun |-> f]
                ELSE NoClimb

(* FunSet::merge of the function an ancestor declares itself: a function   *)
(* the class has none of is inherited, and the one it overrides hears of   *)
(* the class; else an inherited virtual function is overridden, unless the *)
(* class's function overrides another already.                             *)
InheritFun(c, f) ==
    /\ map[c] = None
    /\ map' = [map EXCEPT ![c] = f]
    /\ climb' = IF f \in isVirtual /\ overridden[f] # None
                THEN [at |-> overridden[f], fun |-> f]
                ELSE NoClimb

OverrideFun(c, f) ==
    /\ map[c] # None
    /\ f \in isVirtual
    /\ overridden[map[c]] = None
    /\ climb' = [at |-> f, fun |-> map[c]]
    /\ UNCHANGED map

HideFun(c, f) ==
    /\ map[c] # None
    /\ f \notin isVirtual \/ overridden[map[c]] # None
    /\ UNCHANGED <<map, climb>>

(* Conversions come from parents' whole tables. *)
InheritConv(c, b) ==
    conv' = IF conv[c] = None THEN [conv EXCEPT ![c] = conv[b]] ELSE conv

MergeFun(c, b) ==
    IF Declares(b) THEN InheritFun(c, b) \/ OverrideFun(c, b) \/ HideFun(c, b)
                   ELSE UNCHANGED <<map, climb>>

(* merge_fsets: parents first, *)
MergeParent ==
    /\ ~aborted
    /\ work.cls # None
    /\ climb = NoClimb
    /\ work.parents # <<>>
    /\ MergeFun(work.cls, Head(work.parents))
    /\ InheritConv(work.cls, Head(work.parents))
    /\ work' = [work EXCEPT !.parents = Tail(@)]
    /\ UNCHANGED <<hierarchy, declared, isVirtual, overridden, overrides, resolved, aborted>>

(* then the ancestors that are no parents. *)
MergeOther ==
    /\ ~aborted
    /\ work.cls # None
    /\ climb = NoClimb
    /\ work.parents = <<>>
    /\ work.others # <<>>
    /\ IF Head(work.others) \in ToSet(Parents(work.cls)) THEN UNCHANGED <<map, climb>>
       ELSE MergeFun(work.cls, Head(work.others))
    /\ work' = [work EXCEPT !.others = Tail(@)]
    /\ UNCHANGED <<hierarchy, declared, conv, isVirtual, overridden, overrides,
                   resolved, aborted>>

(* Mutant: the class is entered again. *)
NeverThere(g, c) == FALSE

(* Fun::add_override, a call that ends by calling itself for the function  *)
(* overridden in turn.  It asserts that the overridden function is virtual *)
(* and that a class that is in the table is there with the same function.  *)
AlreadyThere(g, c) == overrides[g][c] # None

(* Mutant: the overriding function is not made virtual. *)
EnterPlain(c, g, f) ==
    /\ isVirtual' = isVirtual
    /\ overridden' = IF overridden[f] = None THEN [overridden EXCEPT ![f] = g] ELSE overridden
    /\ overrides' = [overrides EXCEPT ![g] = [@ EXCEPT ![c] = f]]

Enter(c, g, f) ==
    /\ isVirtual' = isVirtual \cup {f}
    /\ overridden' = IF overridden[f] = None THEN [overridden EXCEPT ![f] = g] ELSE overridden
    /\ overrides' = [overrides EXCEPT ![g] = [@ EXCEPT ![c] = f]]

(* Mutant: only the function itself hears of the class. *)
Stop(g) == climb' = NoClimb

(* The tail call, which sees the link just set. *)
ClimbFrom(g) ==
    climb' = IF overridden'[g] = None THEN NoClimb ELSE [climb EXCEPT !.at = overridden'[g]]

AddOverride ==
    /\ ~aborted
    /\ climb # NoClimb
    /\ LET c == work.cls
           g == climb.at
           f == climb.fun
       IN  IF AlreadyThere(g, c)
           THEN /\ climb' = NoClimb
                /\ aborted' = (g \notin isVirtual \/ overrides[g][c] # f)
                /\ UNCHANGED <<isVirtual, overridden, overrides>>
           ELSE /\ Enter(c, g, f)
                /\ ClimbFrom(g)
                /\ aborted' = (g \notin isVirtual)
    /\ UNCHANGED <<hierarchy, declared, map, conv, resolved, work>>

Finish ==
    /\ ~aborted
    /\ work.cls # None
    /\ climb = NoClimb
    /\ work.parents = <<>>
    /\ work.others = <<>>
    /\ resolved' = resolved \cup {work.cls}
    /\ work' = Idle
    /\ UNCHANGED <<hierarchy, declared, map, conv, isVirtual, overridden, overrides,
                   climb, aborted>>

Next == (\E c \in Classes : Resolve(c)) \/ MergeParent \/ MergeOther \/ AddOverride \/ Finish

(* The loops of one thread go on until they end. *)
Spec == Init /\ [][Next]_vars /\ WF_vars(Next)

-----------------------------------------------------------------------------
(* Calls: a function is found in the set of the class an object is seen    *)
(* as, and replaced by what overrides it in the class the object is of.    *)

FindOverride(f, c) == IF overrides[f][c] # None THEN overrides[f][c] ELSE f
Call(view, c) == IF map[view] = None THEN None ELSE FindOverride(map[view], c)

-----------------------------------------------------------------------------
(* Properties *)

(* The tables hold functions; of the class a merge is under way for, and   *)
(* of no other, steps remain.                                              *)
TypeOK ==
    /\ hierarchy \in Hierarchies
    /\ declared \in [Classes -> {"nothing", "plain", "virtual"}]
    /\ map \in [Classes -> MaybeFun]
    /\ conv \in [Classes -> MaybeFun]
    /\ isVirtual \subseteq Classes
    /\ overridden \in [Classes -> MaybeFun]
    /\ overrides \in [Classes -> [Classes -> MaybeFun]]
    /\ resolved \subseteq Classes
    /\ work \in [cls : MaybeFun, parents : Seq(Classes), others : Seq(Classes)]
    /\ climb \in [at : MaybeFun, fun : MaybeFun]
    /\ climb.at = None <=> climb.fun = None
    /\ work.cls = None => climb = NoClimb
    /\ aborted \in BOOLEAN

(* The assertions of add_override hold whichever way a class is reached:   *)
(* what is overridden is virtual, and an override entered twice is the     *)
(* same function.  In particular a class's function, once chosen, is the   *)
(* one every table has for the class.                                      *)
OverridesAgree ==
    /\ ~aborted
    /\ \A g, c \in Classes : overrides[g][c] \in {None, map[c]}

(* A function declared virtual is; one that has the parameters of a        *)
(* virtual function of an ancestor is virtual when its class is resolved.  *)
VirtualInText(c) ==
    /\ Declares(c)
    /\ \E b \in {c} \cup ToSet(Ancestors(c)) : declared[b] = "virtual"

OverriderIsVirtual ==
    \A c \in resolved : VirtualInText(c) => c \in isVirtual

(* An object seen as one of its own class runs the function of its class's *)
(* set, however many tables that function has been entered in: this is how *)
(* a call with a base selected (eff_cls) stays in the base.                *)
OwnViewAgrees == \A c \in resolved : Call(c, c) = map[c]

(* Classes that inherit along one line only, as do all their ancestors. *)
Linear(c) == \A b \in {c} \cup ToSet(Ancestors(c)) : Len(Parents(b)) <= 1

(* The nearest declaration, by the text. *)
Nearest(c) ==
    LET line == <<c>> \o Ancestors(c)
        declaring == {i \in DOMAIN line : Declares(line[i])}
    IN  IF declaring = {} THEN None
        ELSE line[CHOOSE i \in declaring : \A j \in declaring : i <= j]

(* Where inheritance is single a virtual function is that of the nearest   *)
(* class that declares one, whichever ancestor an object is seen as, and   *)
(* whatever has been resolved and merged along several lines before or     *)
(* since.  A plain function is that of the view, as long as no class has   *)
(* made it virtual by inheriting it beside a virtual one.                  *)
LinearDispatch ==
    \A c \in resolved : Linear(c) =>
        /\ map[c] = Nearest(c)
        /\ \A view \in {c} \cup ToSet(Ancestors(c)) :
              LET f == Nearest(view)
              IN  /\ f # None /\ VirtualInText(f) => Call(view, c) = Nearest(c)
                  /\ f \notin isVirtual => Call(view, c) = f

(* The order of merge_fsets. *)
MergeOrder(c) ==
    Parents(c) \o SelectSeq(Ancestors(c), LAMBDA a : a \notin ToSet(Parents(c)))

(* With several parents the code promises less: a class's own function is  *)
(* called through the first of the virtual functions it inherits, in the   *)
(* order they are merged, and through those above that one in its line.    *)
FirstBaseDispatches ==
    \A c \in resolved :
        LET order == MergeOrder(c)
            virtuals == {i \in DOMAIN order : Declares(order[i]) /\ VirtualInText(order[i])}
            first == order[CHOOSE i \in virtuals : \A j \in virtuals : i <= j]
        IN  Declares(c) /\ virtuals # {} =>
              /\ FindOverride(first, c) = c
              /\ Linear(first) => \A b \in ToSet(Ancestors(first)) :
                    Declares(b) /\ VirtualInText(b) => FindOverride(b, c) = c

(* A class on one line converts with the method it would call, unless that *)
(* is inherited from the common base without being asked for: conversions  *)
(* come from named parents only.                                           *)
LinearConversion ==
    \A c \in resolved : Linear(c) =>
        LET named == {c} \cup UNION {ToSet(Parents(b)) : b \in {c} \cup ToSet(Ancestors(c))}
        IN  conv[c] = IF map[c] \in named THEN map[c] ELSE None

(* What a call runs, and what a conversion calls. *)
CallsDispatch == OwnViewAgrees /\ LinearDispatch /\ FirstBaseDispatches /\ LinearConversion

(* Every class is resolved: climbing from a function to the one it         *)
(* overrides ends, though the links may form a circle.                     *)
AllMerged == <>(resolved = Classes)
=============================================================================
