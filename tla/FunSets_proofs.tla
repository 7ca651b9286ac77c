--------------------------- MODULE FunSets_proofs ---------------------------
(***************************************************************************)
(* Proofs about overriding, for any classes and any hierarchy of them: the *)
(* assertions of Fun::add_override hold, an object seen as one of its own  *)
(* class runs its class's function, and what overrides a virtual function  *)
(* is virtual.                                                             *)
(***************************************************************************)
EXTENDS FunSets, SequenceTheorems, TLAPS

(* A function that overrides another, and the other, are virtual; so is    *)
(* what is in a table.                                                     *)
LinksAreVirtual ==
    /\ \A f \in Classes : overridden[f] # None => {f, overridden[f]} \subseteq isVirtual
    /\ \A g, c \in Classes : overrides[g][c] # None => overrides[g][c] \in isVirtual

(* add_override is called for the function of the class's set. *)
ClimbsForTheSet ==
    climb # NoClimb => climb.at \in isVirtual /\ climb.fun = map[work.cls]

(* A class keeps its own function; the word virtual is not forgotten. *)
OwnKept ==
    \A c \in Classes : /\ Declares(c) => map[c] = c
                       /\ declared[c] = "virtual" => c \in isVirtual

(* What the class has merged so far. *)
Merged ==
    {b \in ToSet(Ancestors(work.cls)) :
        IF b \in ToSet(Parents(work.cls)) THEN b \notin ToSet(work.parents)
                                          ELSE b \notin ToSet(work.others)}

(* Once it has merged a virtual function, its own is virtual or about to be. *)
Overriding ==
    work.cls # None =>
        /\ ToSet(Ancestors(work.cls)) \subseteq resolved
        /\ ToSet(work.parents) \subseteq ToSet(Ancestors(work.cls))
        /\ ToSet(work.others) \subseteq ToSet(Ancestors(work.cls))
        /\ Declares(work.cls) /\ (\E b \in Merged : VirtualInText(b)) =>
              work.cls \in isVirtual \/ climb # NoClimb

IInv ==
    /\ TypeOK
    /\ OverridesAgree
    /\ LinksAreVirtual
    /\ ClimbsForTheSet
    /\ OwnKept
    /\ Overriding
    /\ OverriderIsVirtual

-----------------------------------------------------------------------------

(* Taking the head off a list takes no other member off. *)
LEMMA TailMembers ==
    ASSUME NEW s \in Seq(Classes), s # <<>>
    PROVE  /\ Head(s) \in ToSet(s)
           /\ Tail(s) \in Seq(Classes)
           /\ ToSet(Tail(s)) \subseteq ToSet(s)
           /\ ToSet(s) \subseteq {Head(s)} \cup ToSet(Tail(s))
<1>1. /\ Tail(s) \in Seq(Classes)
      /\ Len(Tail(s)) = Len(s) - 1
      /\ \A i \in 1..Len(Tail(s)) : Tail(s)[i] = s[i + 1]
  BY HeadTailProperties
<1>2. Len(s) \in Nat /\ Len(s) # 0 /\ DOMAIN s = 1..Len(s) /\ Head(s) = s[1]
  OBVIOUS
<1>3. DOMAIN Tail(s) = 1..Len(Tail(s))
  BY <1>1
<1>4. ToSet(Tail(s)) \subseteq ToSet(s)
  BY <1>1, <1>2, <1>3 DEF ToSet
<1>5. ASSUME NEW i \in 1..Len(s), i # 1 PROVE s[i] \in ToSet(Tail(s))
  <2>1. i - 1 \in 1..Len(Tail(s)) /\ (i - 1) + 1 = i
    BY <1>1, <1>2, <1>5
  <2>2. Tail(s)[i - 1] = s[i]
    BY <1>1, <2>1
  <2>3. QED
    BY <1>3, <2>1, <2>2 DEF ToSet
<1>6. ToSet(s) \subseteq {Head(s)} \cup ToSet(Tail(s))
  BY <1>2, <1>5 DEF ToSet
<1>7. QED
  BY <1>1, <1>2, <1>4, <1>6 DEF ToSet

(* What a hierarchy says of a class. *)
LEMMA HierarchyFacts ==
    ASSUME TypeOK, NEW c \in Classes
    PROVE  /\ Parents(c) \in Seq(Classes)
           /\ Ancestors(c) \in Seq(Classes)
           /\ ToSet(Parents(c)) \subseteq ToSet(Ancestors(c))
           /\ ToSet(Ancestors(c)) \subseteq Classes
           /\ c \notin ToSet(Ancestors(c))
<1>1. hierarchy \in Hierarchies
  BY DEF TypeOK
<1>2. Parents(c) \in Seq(Classes) /\ Ancestors(c) \in Seq(Classes)
  BY <1>1, HierarchiesAssumption DEF Parents, Ancestors
<1>3. ToSet(Ancestors(c)) \subseteq Classes
  BY <1>2 DEF ToSet
<1>4. QED
  BY <1>1, <1>2, <1>3, HierarchiesAssumption DEF Parents, Ancestors

LEMMA InitInv == Init => IInv
<1> SUFFICES ASSUME Init PROVE IInv
  OBVIOUS
<1>1. TypeOK
  <2>1. map \in [Classes -> MaybeFun]
    BY DEF Init, MaybeFun
  <2>2. /\ work \in [cls : MaybeFun, parents : Seq(Classes), others : Seq(Classes)]
        /\ climb \in [at : MaybeFun, fun : MaybeFun]
        /\ climb.at = None <=> climb.fun = None
    BY DEF Init, MaybeFun, Idle, NoClimb
  <2>3. QED
    BY <2>1, <2>2 DEF Init, TypeOK, MaybeFun
<1>2. OverridesAgree /\ LinksAreVirtual
  BY DEF Init, OverridesAgree, LinksAreVirtual
<1>3. ClimbsForTheSet /\ Overriding /\ OverriderIsVirtual
  BY DEF Init, ClimbsForTheSet, Overriding, OverriderIsVirtual, Idle
<1>4. OwnKept
  BY DEF Init, OwnKept, Declares
<1>5. QED
  BY <1>1, <1>2, <1>3, <1>4 DEF IInv

-----------------------------------------------------------------------------

(* A class is taken up after its ancestors, and has merged nothing yet. *)
LEMMA ResolveStep ==
    ASSUME IInv, NEW c \in Classes, Resolve(c)
    PROVE  IInv'
<1> USE DEF IInv
<1>f. /\ Parents(c) \in Seq(Classes)
      /\ Ancestors(c) \in Seq(Classes)
      /\ ToSet(Parents(c)) \subseteq ToSet(Ancestors(c))
  BY HierarchyFacts
<1>u. /\ work = Idle
      /\ ToSet(Ancestors(c)) \subseteq resolved
      /\ work' = [cls |-> c, parents |-> Parents(c), others |-> Ancestors(c)]
      /\ conv' = [conv EXCEPT ![c] = map[c]]
      /\ UNCHANGED <<hierarchy, declared, map, isVirtual, overridden, overrides,
                     resolved, climb, aborted>>
  BY DEF Resolve
<1>n. climb = NoClimb
  BY <1>u DEF TypeOK, Idle
<1>1. TypeOK'
  <2>1. conv' \in [Classes -> MaybeFun]
    BY <1>u DEF TypeOK
  <2>2. work' \in [cls : MaybeFun, parents : Seq(Classes), others : Seq(Classes)]
    BY <1>f, <1>u DEF MaybeFun
  <2>3. work'.cls = None => climb' = NoClimb
    BY <1>n, <1>u
  <2>4. QED
    BY <1>u, <2>1, <2>2, <2>3 DEF TypeOK
<1>2. OverridesAgree' /\ LinksAreVirtual'
  BY <1>u DEF OverridesAgree, LinksAreVirtual
<1>3. ClimbsForTheSet'
  BY <1>n, <1>u DEF ClimbsForTheSet
<1>4. OwnKept' /\ OverriderIsVirtual'
  BY <1>u DEF OwnKept, OverriderIsVirtual, VirtualInText, Declares, Ancestors
<1>5. Overriding'
  <2>1. Merged' = {}
    BY <1>u DEF Merged, Parents, Ancestors
  <2>2. QED
    BY <1>f, <1>u, <2>1 DEF Overriding, Ancestors, Parents
<1>6. QED
  BY <1>1, <1>2, <1>3, <1>4, <1>5

(* Merging one function: the class's set has a function of its own or the  *)
(* first that comes, and what is overridden is told of it.                 *)
LEMMA MergeFunStep ==
    ASSUME IInv,
           work.cls # None, climb = NoClimb,
           NEW b \in Classes, b \in resolved,
           MergeFun(work.cls, b),
           UNCHANGED <<hierarchy, declared, isVirtual, overridden, overrides,
                       resolved, aborted>>,
           work'.cls = work.cls
    PROVE  /\ map' \in [Classes -> MaybeFun]
           /\ climb' \in [at : MaybeFun, fun : MaybeFun]
           /\ climb'.at = None <=> climb'.fun = None
           /\ OverridesAgree' /\ ClimbsForTheSet' /\ OwnKept'
           /\ Declares(work.cls) /\ VirtualInText(b) =>
                 work.cls \in isVirtual \/ climb' # NoClimb
<1> DEFINE c == work.cls
<1> USE DEF IInv
<1>c. c \in Classes
  BY DEF TypeOK, MaybeFun
<1>n. \A x \in Classes : x # None
  BY ClassesAssumption DEF None
<1>t. /\ map \in [Classes -> MaybeFun]
      /\ overridden \in [Classes -> MaybeFun]
      /\ isVirtual \subseteq Classes
  BY DEF TypeOK
<1>v. VirtualInText(b) => b \in isVirtual
  BY DEF OverriderIsVirtual
<1>1. CASE ~Declares(b)
  <2>1. map' = map /\ climb' = NoClimb
    BY <1>1 DEF MergeFun
  <2>2. /\ map' \in [Classes -> MaybeFun]
        /\ climb' \in [at : MaybeFun, fun : MaybeFun]
        /\ climb'.at = None <=> climb'.fun = None
    BY <1>t, <2>1 DEF NoClimb, MaybeFun
  <2>3. OverridesAgree' /\ OwnKept'
    BY <2>1 DEF OverridesAgree, OwnKept, Declares
  <2>4. QED
    BY <1>1, <2>1, <2>2, <2>3 DEF ClimbsForTheSet, VirtualInText
<1>2. CASE Declares(b) /\ InheritFun(c, b)
  <2>1. map[c] = None /\ map' = [map EXCEPT ![c] = b]
    BY <1>2 DEF InheritFun
  <2>2. ~Declares(c)
    BY <1>c, <1>n, <2>1 DEF OwnKept
  <2>3. map' \in [Classes -> MaybeFun] /\ map'[c] = b
    BY <1>c, <1>t, <2>1 DEF MaybeFun
  <2>4. OverridesAgree'
    <3>1. ASSUME NEW g \in Classes, NEW d \in Classes
          PROVE  overrides[g][d] \in {None, map'[d]}
      <4>1. overrides[g][d] \in {None, map[d]}
        BY DEF OverridesAgree
      <4>2. CASE d = c
        BY <2>1, <4>1, <4>2
      <4>3. CASE d # c
        BY <1>t, <2>1, <4>1, <4>3
      <4>4. QED
        BY <4>2, <4>3
    <3>2. QED
      BY <3>1 DEF OverridesAgree
  <2>5. OwnKept'
    <3>1. ASSUME NEW d \in Classes, Declares(d) PROVE map'[d] = d
      BY <1>t, <2>1, <2>2, <3>1 DEF OwnKept
    <3>2. QED
      BY <3>1 DEF OwnKept, Declares
  <2>6. CASE b \in isVirtual /\ overridden[b] # None
    <3>1. climb' = [at |-> overridden[b], fun |-> b]
      BY <1>2, <2>6 DEF InheritFun
    <3>2. overridden[b] \in isVirtual
      BY <2>6 DEF LinksAreVirtual
    <3>3. climb'.at \in Classes /\ climb'.fun \in Classes
      BY <1>t, <3>1, <3>2
    <3>4. ClimbsForTheSet'
      BY <2>3, <3>1, <3>2 DEF ClimbsForTheSet
    <3>5. climb' \in [at : MaybeFun, fun : MaybeFun]
      BY <1>t, <3>1, <3>2 DEF MaybeFun
    <3>6. QED
      BY <1>n, <2>2, <2>3, <2>4, <2>5, <3>3, <3>4, <3>5
  <2>7. CASE ~(b \in isVirtual /\ overridden[b] # None)
    <3>1. climb' = NoClimb
      BY <1>2, <2>7 DEF InheritFun
    <3>2. /\ climb' \in [at : MaybeFun, fun : MaybeFun]
          /\ climb'.at = None <=> climb'.fun = None
      BY <3>1 DEF NoClimb, MaybeFun
    <3>3. QED
      BY <2>2, <2>3, <2>4, <2>5, <3>1, <3>2 DEF ClimbsForTheSet
  <2>8. QED
    BY <2>6, <2>7
<1>3. CASE Declares(b) /\ OverrideFun(c, b)
  <2>1. map' = map /\ map[c] # None /\ b \in isVirtual /\ climb' = [at |-> b, fun |-> map[c]]
    BY <1>3 DEF OverrideFun
  <2>2. climb'.at = b /\ climb'.fun = map[c] /\ map[c] \in Classes
    BY <1>c, <1>t, <2>1 DEF MaybeFun
  <2>3. climb' \in [at : MaybeFun, fun : MaybeFun]
    BY <2>1, <2>2 DEF MaybeFun
  <2>4. OverridesAgree' /\ OwnKept'
    BY <2>1 DEF OverridesAgree, OwnKept, Declares
  <2>5. climb' # NoClimb
    BY <1>n, <2>2 DEF NoClimb
  <2>6. QED
    BY <1>n, <1>t, <2>1, <2>2, <2>3, <2>4, <2>5 DEF ClimbsForTheSet
<1>4. CASE Declares(b) /\ HideFun(c, b)
  <2>1. map' = map /\ climb' = NoClimb
    BY <1>4 DEF HideFun
  <2>2. /\ map' \in [Classes -> MaybeFun]
        /\ climb' \in [at : MaybeFun, fun : MaybeFun]
        /\ climb'.at = None <=> climb'.fun = None
    BY <1>t, <2>1 DEF NoClimb, MaybeFun
  <2>3. OverridesAgree' /\ OwnKept'
    BY <2>1 DEF OverridesAgree, OwnKept, Declares
  <2>4. Declares(c) /\ VirtualInText(b) => c \in isVirtual
    <3>1. SUFFICES ASSUME Declares(c), b \in isVirtual PROVE c \in isVirtual
      BY <1>v
    <3>2. map[c] = c /\ overridden[map[c]] # None
      BY <1>4, <1>c, <3>1 DEF HideFun, OwnKept
    <3>3. QED
      BY <1>c, <3>2 DEF LinksAreVirtual
  <2>5. QED
    BY <2>1, <2>2, <2>3, <2>4 DEF ClimbsForTheSet
<1>5. QED
  BY <1>1, <1>2, <1>3, <1>4 DEF MergeFun

(* A step of the first loop. *)
LEMMA MergeParentStep == ASSUME IInv, MergeParent PROVE IInv'
<1> DEFINE c == work.cls
           b == Head(work.parents)
<1> USE DEF IInv
<1>u. /\ c # None /\ climb = NoClimb /\ work.parents # <<>>
      /\ MergeFun(c, b)
      /\ work' = [work EXCEPT !.parents = Tail(work.parents)]
      /\ conv' = IF conv[c] = None THEN [conv EXCEPT ![c] = conv[b]] ELSE conv
      /\ UNCHANGED <<hierarchy, declared, isVirtual, overridden, overrides,
                     resolved, aborted>>
  BY DEF MergeParent, InheritConv
<1>w. work \in [cls : MaybeFun, parents : Seq(Classes), others : Seq(Classes)]
  BY DEF TypeOK
<1>c. c \in Classes
  BY <1>u, <1>w DEF MaybeFun
<1>s. /\ work.parents \in Seq(Classes)
      /\ b \in ToSet(work.parents)
      /\ Tail(work.parents) \in Seq(Classes)
      /\ ToSet(Tail(work.parents)) \subseteq ToSet(work.parents)
      /\ ToSet(work.parents) \subseteq {b} \cup ToSet(Tail(work.parents))
  BY <1>u, <1>w, TailMembers
<1>o. /\ ToSet(Ancestors(c)) \subseteq resolved
      /\ ToSet(work.parents) \subseteq ToSet(Ancestors(c))
      /\ ToSet(work.others) \subseteq ToSet(Ancestors(c))
      /\ Declares(c) /\ (\E x \in Merged : VirtualInText(x)) => c \in isVirtual
  BY <1>u DEF Overriding
<1>b. b \in Classes /\ b \in resolved
  BY <1>o, <1>s DEF TypeOK
<1>p. /\ work' \in [cls : MaybeFun, parents : Seq(Classes), others : Seq(Classes)]
      /\ work'.cls = c
      /\ work'.parents = Tail(work.parents)
      /\ work'.others = work.others
  BY <1>s, <1>u, <1>w
<1>m. /\ map' \in [Classes -> MaybeFun]
      /\ climb' \in [at : MaybeFun, fun : MaybeFun]
      /\ climb'.at = None <=> climb'.fun = None
      /\ OverridesAgree' /\ ClimbsForTheSet' /\ OwnKept'
      /\ Declares(c) /\ VirtualInText(b) => c \in isVirtual \/ climb' # NoClimb
  BY <1>b, <1>p, <1>u, MergeFunStep
<1>1. TypeOK'
  <2>1. conv' \in [Classes -> MaybeFun]
    BY <1>b, <1>c, <1>u DEF TypeOK
  <2>2. QED
    BY <1>m, <1>p, <1>u, <2>1 DEF TypeOK
<1>2. LinksAreVirtual'
  BY <1>u DEF LinksAreVirtual
<1>3. OverriderIsVirtual'
  BY <1>u DEF OverriderIsVirtual, VirtualInText, Declares, Ancestors
<1>4. Overriding'
  <2>1. Merged' \subseteq Merged \cup {b}
    BY <1>p, <1>s, <1>u DEF Merged, Ancestors, Parents
  <2>2. \A x : VirtualInText(x)' <=> VirtualInText(x)
    BY <1>u DEF VirtualInText, Declares, Ancestors
  <2>3. Declares(c) /\ (\E x \in Merged' : VirtualInText(x)) =>
            c \in isVirtual \/ climb' # NoClimb
    BY <1>m, <1>o, <2>1
  <2>4. Ancestors(c)' = Ancestors(c) /\ Declares(c)' = Declares(c)
    BY <1>p, <1>u DEF Ancestors, Declares
  <2>5. QED
    BY <1>o, <1>p, <1>s, <1>u, <2>2, <2>3, <2>4 DEF Overriding
<1>5. QED
  BY <1>1, <1>2, <1>3, <1>4, <1>m

(* A step of the second. *)
LEMMA MergeOtherStep == ASSUME IInv, MergeOther PROVE IInv'
<1> DEFINE c == work.cls
           b == Head(work.others)
<1> USE DEF IInv
<1>u. /\ c # None /\ climb = NoClimb /\ work.parents = <<>> /\ work.others # <<>>
      /\ IF b \in ToSet(Parents(c)) THEN UNCHANGED <<map, climb>> ELSE MergeFun(c, b)
      /\ work' = [work EXCEPT !.others = Tail(work.others)]
      /\ UNCHANGED <<hierarchy, declared, conv, isVirtual, overridden, overrides,
                     resolved, aborted>>
  BY DEF MergeOther
<1>w. work \in [cls : MaybeFun, parents : Seq(Classes), others : Seq(Classes)]
  BY DEF TypeOK
<1>s. /\ work.others \in Seq(Classes)
      /\ b \in ToSet(work.others)
      /\ Tail(work.others) \in Seq(Classes)
      /\ ToSet(Tail(work.others)) \subseteq ToSet(work.others)
      /\ ToSet(work.others) \subseteq {b} \cup ToSet(Tail(work.others))
  BY <1>u, <1>w, TailMembers
<1>o. /\ ToSet(Ancestors(c)) \subseteq resolved
      /\ ToSet(work.parents) \subseteq ToSet(Ancestors(c))
      /\ ToSet(work.others) \subseteq ToSet(Ancestors(c))
      /\ Declares(c) /\ (\E x \in Merged : VirtualInText(x)) => c \in isVirtual
  BY <1>u DEF Overriding
<1>b. b \in Classes /\ b \in resolved
  BY <1>o, <1>s DEF TypeOK
<1>p. /\ work' \in [cls : MaybeFun, parents : Seq(Classes), others : Seq(Classes)]
      /\ work'.cls = c
      /\ work'.parents = work.parents
      /\ work'.others = Tail(work.others)
  BY <1>s, <1>u, <1>w
<1>m. /\ map' \in [Classes -> MaybeFun]
      /\ climb' \in [at : MaybeFun, fun : MaybeFun]
      /\ climb'.at = None <=> climb'.fun = None
      /\ OverridesAgree' /\ ClimbsForTheSet' /\ OwnKept'
      /\ b \notin ToSet(Parents(c)) /\ Declares(c) /\ VirtualInText(b) =>
            c \in isVirtual \/ climb' # NoClimb
  <2>1. CASE b \in ToSet(Parents(c))
    <3>1. map' = map /\ climb' = climb
      BY <1>u, <2>1
    <3>2. OverridesAgree' /\ OwnKept'
      BY <1>u, <3>1 DEF OverridesAgree, OwnKept, Declares
    <3>3. QED
      BY <1>p, <1>u, <2>1, <3>1, <3>2 DEF ClimbsForTheSet, TypeOK
  <2>2. CASE b \notin ToSet(Parents(c))
    BY <1>b, <1>p, <1>u, <2>2, MergeFunStep
  <2>3. QED
    BY <2>1, <2>2
<1>1. TypeOK'
  BY <1>m, <1>p, <1>u DEF TypeOK
<1>2. LinksAreVirtual'
  BY <1>u DEF LinksAreVirtual
<1>3. OverriderIsVirtual'
  BY <1>u DEF OverriderIsVirtual, VirtualInText, Declares, Ancestors
<1>4. Overriding'
  <2>1. \A x \in Merged' : x \in Merged \/ (x = b /\ b \notin ToSet(Parents(c)))
    BY <1>p, <1>s, <1>u DEF Merged, Ancestors, Parents
  <2>2. \A x : VirtualInText(x)' <=> VirtualInText(x)
    BY <1>u DEF VirtualInText, Declares, Ancestors
  <2>3. Declares(c) /\ (\E x \in Merged' : VirtualInText(x)) =>
            c \in isVirtual \/ climb' # NoClimb
    BY <1>m, <1>o, <2>1
  <2>4. Ancestors(c)' = Ancestors(c) /\ Declares(c)' = Declares(c)
    BY <1>p, <1>u DEF Ancestors, Declares
  <2>5. QED
    BY <1>o, <1>p, <1>s, <1>u, <2>2, <2>3, <2>4 DEF Overriding
<1>5. QED
  BY <1>1, <1>2, <1>3, <1>4, <1>m

-----------------------------------------------------------------------------

(* add_override: what is called for is the class's function and is called  *)
(* for a virtual one, so neither assertion fails and the class is entered  *)
(* with its own function; the tail call is for a virtual function again.   *)
LEMMA AddOverrideStep == ASSUME IInv, AddOverride PROVE IInv'
<1> DEFINE c == work.cls
           g == climb.at
           f == climb.fun
<1> USE DEF IInv
<1>u. /\ climb # NoClimb
      /\ UNCHANGED <<hierarchy, declared, map, conv, resolved, work>>
  BY DEF AddOverride
<1>n. \A x \in Classes : x # None
  BY ClassesAssumption DEF None
<1>c. /\ c \in Classes
      /\ g \in isVirtual /\ f = map[c]
      /\ g \in Classes /\ f \in Classes
      /\ ~aborted
  <2>1. c \in Classes
    BY <1>u DEF TypeOK, MaybeFun
  <2>2. g \in isVirtual /\ f = map[c]
    BY <1>u DEF ClimbsForTheSet
  <2>3. g \in Classes /\ f \in Classes
    BY <1>n, <2>2 DEF TypeOK, MaybeFun
  <2>4. QED
    BY <2>1, <2>2, <2>3 DEF OverridesAgree
<1>t. /\ overridden \in [Classes -> MaybeFun]
      /\ overrides \in [Classes -> [Classes -> MaybeFun]]
      /\ isVirtual \subseteq Classes
  BY DEF TypeOK
<1>own. Declares(c) => f = c
  BY <1>c DEF OwnKept
<1>same. /\ \A x : VirtualInText(x)' <=> VirtualInText(x)
         /\ \A x : Declares(x)' <=> Declares(x)
         /\ \A x : Ancestors(x)' = Ancestors(x) /\ Merged' = Merged
  BY <1>u DEF VirtualInText, Declares, Ancestors, Merged, Parents
<1>1. CASE AlreadyThere(g, c)
  <2>1. /\ climb' = NoClimb
        /\ aborted' = (g \notin isVirtual \/ overrides[g][c] # f)
        /\ UNCHANGED <<isVirtual, overridden, overrides>>
    BY <1>1 DEF AddOverride
  <2>2. overrides[g][c] = f /\ f \in isVirtual
    BY <1>1, <1>c DEF AlreadyThere, OverridesAgree, LinksAreVirtual
  <2>3. aborted' = FALSE
    BY <1>c, <2>1, <2>2
  <2>4. TypeOK'
    BY <1>u, <2>1, <2>3 DEF TypeOK, NoClimb, MaybeFun
  <2>5. OverridesAgree' /\ LinksAreVirtual' /\ ClimbsForTheSet'
    BY <1>u, <2>1, <2>3 DEF OverridesAgree, LinksAreVirtual, ClimbsForTheSet
  <2>6. OwnKept' /\ OverriderIsVirtual'
    BY <1>u, <1>same, <2>1 DEF OwnKept, OverriderIsVirtual
  <2>7. Overriding'
    BY <1>own, <1>same, <1>u, <2>1, <2>2 DEF Overriding
  <2>8. QED
    BY <2>4, <2>5, <2>6, <2>7
<1>2. CASE ~AlreadyThere(g, c)
  <2>1. /\ isVirtual' = isVirtual \cup {f}
        /\ overridden' = IF overridden[f] = None THEN [overridden EXCEPT ![f] = g] ELSE overridden
        /\ overrides' = [overrides EXCEPT ![g] = [overrides[g] EXCEPT ![c] = f]]
        /\ climb' = IF overridden'[g] = None THEN NoClimb
                    ELSE [climb EXCEPT !.at = overridden'[g]]
        /\ aborted' = (g \notin isVirtual)
    BY <1>2 DEF AddOverride, Enter, ClimbFrom
  <2>2. aborted' = FALSE
    BY <1>c, <2>1
  <2>3. /\ overridden' \in [Classes -> MaybeFun]
        /\ \A x \in Classes : overridden'[x] # None =>
              {x, overridden'[x]} \subseteq isVirtual'
    <3>1. CASE overridden[f] = None
      <4>1. overridden' = [overridden EXCEPT ![f] = g]
        BY <2>1, <3>1
      <4>2. overridden' \in [Classes -> MaybeFun]
        BY <1>c, <1>t, <4>1 DEF MaybeFun
      <4>3. ASSUME NEW x \in Classes, overridden'[x] # None
            PROVE  {x, overridden'[x]} \subseteq isVirtual'
        <5>1. CASE x = f
          BY <1>c, <1>t, <2>1, <4>1, <5>1
        <5>2. CASE x # f
          BY <1>t, <2>1, <4>1, <4>3, <5>2 DEF LinksAreVirtual
        <5>3. QED
          BY <5>1, <5>2
      <4>4. QED
        BY <4>2, <4>3
    <3>2. CASE overridden[f] # None
      BY <1>t, <2>1, <3>2 DEF LinksAreVirtual
    <3>3. QED
      BY <3>1, <3>2
  <2>4. /\ overrides' \in [Classes -> [Classes -> MaybeFun]]
        /\ \A x, d \in Classes :
              overrides'[x][d] = IF x = g /\ d = c THEN f ELSE overrides[x][d]
    <3>1. [overrides[g] EXCEPT ![c] = f] \in [Classes -> MaybeFun]
      BY <1>c, <1>t DEF MaybeFun
    <3>2. QED
      BY <1>c, <1>t, <2>1, <3>1
  <2>5. /\ climb' \in [at : MaybeFun, fun : MaybeFun]
        /\ climb'.at = None <=> climb'.fun = None
        /\ climb' # NoClimb => climb'.at \in isVirtual' /\ climb'.fun = f
    <3>1. CASE overridden'[g] = None
      BY <2>1, <3>1 DEF NoClimb, MaybeFun
    <3>2. CASE overridden'[g] # None
      <4>1. climb' = [climb EXCEPT !.at = overridden'[g]]
        BY <2>1, <3>2
      <4>2. climb'.at = overridden'[g] /\ climb'.fun = f
        BY <4>1 DEF TypeOK
      <4>3. overridden'[g] \in isVirtual'
        BY <1>c, <2>3, <3>2
      <4>4. climb' \in [at : MaybeFun, fun : MaybeFun]
        BY <1>c, <2>3, <4>1 DEF TypeOK
      <4>5. QED
        BY <1>c, <1>n, <3>2, <4>2, <4>3, <4>4
    <3>3. QED
      BY <3>1, <3>2
  <2>6. TypeOK'
    BY <1>c, <1>t, <1>u, <2>1, <2>2, <2>3, <2>4, <2>5 DEF TypeOK
  <2>7. OverridesAgree'
    BY <1>c, <1>u, <2>2, <2>4 DEF OverridesAgree
  <2>8. LinksAreVirtual'
    BY <2>1, <2>3, <2>4 DEF LinksAreVirtual
  <2>9. ClimbsForTheSet'
    BY <1>c, <1>u, <2>5 DEF ClimbsForTheSet
  <2>10. OwnKept' /\ OverriderIsVirtual'
    BY <1>u, <1>same, <2>1 DEF OwnKept, OverriderIsVirtual
  <2>11. Overriding'
    BY <1>own, <1>same, <1>u, <2>1 DEF Overriding
  <2>12. QED
    BY <2>6, <2>7, <2>8, <2>9, <2>10, <2>11
<1>3. QED
  BY <1>1, <1>2

(* When both loops are through all ancestors have been merged, one of      *)
(* which has the virtual function, if any has.                             *)
LEMMA FinishStep == ASSUME IInv, Finish PROVE IInv'
<1> DEFINE c == work.cls
<1> USE DEF IInv
<1>u. /\ c # None /\ climb = NoClimb /\ work.parents = <<>> /\ work.others = <<>>
      /\ resolved' = resolved \cup {c}
      /\ work' = Idle
      /\ UNCHANGED <<hierarchy, declared, map, conv, isVirtual, overridden, overrides,
                     climb, aborted>>
  BY DEF Finish
<1>c. c \in Classes
  BY <1>u DEF TypeOK, MaybeFun
<1>1. TypeOK'
  <2>1. work' \in [cls : MaybeFun, parents : Seq(Classes), others : Seq(Classes)]
    BY <1>u DEF Idle, MaybeFun
  <2>2. QED
    BY <1>c, <1>u, <2>1 DEF TypeOK
<1>2. OverridesAgree' /\ LinksAreVirtual' /\ OwnKept'
  BY <1>u DEF OverridesAgree, LinksAreVirtual, OwnKept, Declares
<1>3. ClimbsForTheSet' /\ Overriding'
  BY <1>u DEF ClimbsForTheSet, Overriding, Idle
<1>4. VirtualInText(c) => c \in isVirtual
  <2>1. SUFFICES ASSUME VirtualInText(c) PROVE c \in isVirtual
    OBVIOUS
  <2>2. PICK a \in {c} \cup ToSet(Ancestors(c)) : declared[a] = "virtual"
    BY <2>1 DEF VirtualInText
  <2>3. CASE a = c
    BY <1>c, <2>2, <2>3 DEF OwnKept
  <2>4. CASE a # c
    <3>1. a \in Merged
      BY <1>u, <2>4 DEF Merged, ToSet
    <3>2. VirtualInText(a)
      BY <2>2 DEF VirtualInText, Declares
    <3>3. QED
      BY <1>u, <2>1, <3>1, <3>2 DEF Overriding, VirtualInText
  <2>5. QED
    BY <2>3, <2>4
<1>5. OverriderIsVirtual'
  BY <1>4, <1>u DEF OverriderIsVirtual, VirtualInText, Declares, Ancestors
<1>6. QED
  BY <1>1, <1>2, <1>3, <1>5

LEMMA StutterStep == ASSUME IInv, UNCHANGED vars PROVE IInv'
<1> USE DEF vars
<1>1. TypeOK'
  BY DEF IInv, TypeOK
<1>2. OverridesAgree' /\ LinksAreVirtual' /\ ClimbsForTheSet' /\ OwnKept'
  BY DEF IInv, OverridesAgree, LinksAreVirtual, ClimbsForTheSet, OwnKept, Declares
<1>3. Overriding' /\ OverriderIsVirtual'
  BY DEF IInv, Overriding, Merged, OverriderIsVirtual, VirtualInText, Declares,
         Ancestors, Parents
<1>4. QED
  BY <1>1, <1>2, <1>3 DEF IInv

-----------------------------------------------------------------------------

(* Overriding's tables stay consistent while they are filled.              *)
THEOREM Inductive == Spec => []IInv
<1>1. IInv /\ [Next]_vars => IInv'
  BY ResolveStep, MergeParentStep, MergeOtherStep, AddOverrideStep, FinishStep,
     StutterStep DEF Next
<1>2. QED
  BY InitInv, <1>1, PTL DEF Spec

(* The tables hold functions, whatever has been merged. *)
THEOREM TypeCorrect == Spec => []TypeOK
BY Inductive, PTL DEF IInv

(* The assertions of Fun::add_override hold in every hierarchy, and every  *)
(* table has, for a class, the function of the class's own set.            *)
THEOREM AssertionsHold == Spec => []OverridesAgree
BY Inductive, PTL DEF IInv

(* What has the parameters of a virtual function of an ancestor is virtual *)
(* once its class is resolved, along however many lines it inherits it.    *)
THEOREM VirtualIsInherited == Spec => []OverriderIsVirtual
BY Inductive, PTL DEF IInv

(* An object seen as one of its own class runs what the class's set has.   *)
THEOREM OwnView == Spec => []OwnViewAgrees
<1>1. IInv => OwnViewAgrees
  <2>1. SUFFICES ASSUME IInv, NEW c \in resolved PROVE Call(c, c) = map[c]
    BY DEF OwnViewAgrees
  <2>2. c \in Classes /\ map[c] \in MaybeFun
    BY <2>1 DEF IInv, TypeOK
  <2>3. CASE map[c] = None
    BY <2>3 DEF Call
  <2>4. CASE map[c] # None
    <3>1. overrides[map[c]][c] \in {None, map[c]}
      BY <2>1, <2>2, <2>4 DEF IInv, OverridesAgree, MaybeFun
    <3>2. QED
      BY <2>4, <3>1 DEF Call, FindOverride
  <2>5. QED
    BY <2>3, <2>4
<1>2. QED
  BY Inductive, <1>1, PTL
=============================================================================
