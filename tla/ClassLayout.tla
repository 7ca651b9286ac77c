---------------------------- MODULE ClassLayout -----------------------------
(***************************************************************************)
(* The ancestry of classes and the layout of their objects: the order in   *)
(* which direct and indirect ancestors are added (cls::Ancestry), the      *)
(* offset of the data each adds, the limit on the size of a class, the     *)
(* offsets of properties, and what reading, writing and converting an      *)
(* object to a base and back does with its bits.                           *)
(*                                                                         *)
(* Classes are initialised one after another, each after the classes its   *)
(* parent list names, and may be resolved at any later time once their     *)
(* ancestors are.                                                          *)
(***************************************************************************)
EXTENDS Integers, Sequences, SequencesExt, FiniteSets, FiniteSetsExt

CONSTANTS
    Classes,           \* 1..N, in the order they are initialised
    Shapes,            \* [Classes -> set of [kind, widths of the properties]]
    ParentLists,       \* bound: the lists of parents a class may name
    ObjectClasses,     \* bound: the classes objects are made of
    UrSelf,            \* the class that is an implicit base of all others, or 0
    AtomDataOff,       \* bits of an element's header
    AtomDataMaxSize,   \* bits of data an atom has room for
    BitsizeMod         \* 2^16: sizes are 16-bit numbers (bitsize_t)

Kinds == {"quark", "element", "transient", "union"}

ASSUME ClassesAssumption == IsFiniteSet(Classes) /\ Classes = 1..Cardinality(Classes)
ASSUME ShapesAssumption ==
    Shapes \in [Classes -> SUBSET [kind : Kinds, widths : Seq(Nat \ {0})]]
ASSUME ParentListsAssumption == ParentLists \subseteq Seq(Classes)
ASSUME ObjectClassesAssumption == ObjectClasses \subseteq Classes
ASSUME UrSelfAssumption == UrSelf \in {0, 1}
ASSUME SizesAssumption == {AtomDataOff, AtomDataMaxSize, BitsizeMod} \subseteq Nat \ {0}

VARIABLES
    cls,       \* [initialised classes -> what is known of them]
    object,    \* an object: its class and its bits, NoObject before there is one
    copy,      \* a copy of it as a base of its class
    aborted    \* an assertion has stopped the program

vars == <<cls, object, copy, aborted>>

NoObject == [cls |-> 0, bits |-> <<>>]

-----------------------------------------------------------------------------
(* Ancestry.  An entry of a class's list of ancestors tells whether it is  *)
(* a parent and which ancestors it pulled in (_deps_added).                *)

Lists == Seq([cls : Nat, parent : BOOLEAN, deps : Seq(Nat)])

Ancestor(c) == [cls |-> c, parent |-> FALSE, deps |-> <<>>]
Ids(list) == {list[i].cls : i \in DOMAIN list}
At(list, c) == CHOOSE i \in DOMAIN list : list[i].cls = c

(* Ancestor::add_dep_added and set_is_parent, of the i-th ancestor *)
AddDep(list, i, c) == [list EXCEPT ![i].deps = Append(@, c)]
SetParent(list, i) == [list EXCEPT ![i].parent = TRUE]

(* The loop of do_add over the ancestors of the class it has added: those  *)
(* that are missing are added, by add, and are dependencies of the class.  *)
Pull(list, c, add) ==
    LET upto[k \in 0..Len(cls[c].anc)] ==
          IF k = 0 THEN Append(list, Ancestor(c))
          ELSE LET a == cls[c].anc[k].cls
               IN  IF a \in Ids(upto[k - 1]) THEN upto[k - 1]
                   ELSE AddDep(add[<<upto[k - 1], a>>], Len(list) + 1, a)
    IN  upto[Len(cls[c].anc)]

(* do_add calls itself for classes that were initialised earlier, so that  *)
(* the number of the class bounds how deep it goes.                        *)
DoAdd(list, c) ==
    LET add[k \in 0..c] ==
          [p \in Lists \X DOMAIN cls |->
             IF k = 0 \/ p[2] \in Ids(p[1]) THEN p[1] ELSE Pull(p[1], p[2], add[k - 1])]
    IN  add[c][<<list, c>>]

(* Ancestry::add: a class named again is no second parent. *)
AddParent(ancestry, c) ==
    LET list == DoAdd(ancestry.anc, c)
        i == At(list, c)
    IN  IF list[i].parent THEN ancestry
        ELSE [anc     |-> SetParent(list, i),
              parents |-> Append(ancestry.parents, c)]

NoAncestors == [anc |-> <<>>, parents |-> <<>>]

AncestryOf(ps) ==
    LET upto[k \in 0..Len(ps)] ==
          IF k = 0 THEN NoAncestors ELSE AddParent(upto[k - 1], ps[k])
    IN  upto[Len(ps)]

(* add_common_base *)
WithCommonBase(list, c) == IF UrSelf \in {0, c} THEN list ELSE DoAdd(list, UrSelf)

-----------------------------------------------------------------------------
(* Sizes *)

Wrap(n) == n % BitsizeMod

SumUpTo(f, n) ==
    LET upto[k \in 0..n] == IF k = 0 THEN 0 ELSE upto[k - 1] + f[k] IN upto[n]
Total(seq) == SumUpTo(seq, Len(seq))
SumOf(seq) == Wrap(Total(seq))

DataOff(r) == IF r.kind = "element" THEN AtomDataOff ELSE 0
PropsBitsize(r) == IF r.kind = "union" THEN Max({0} \cup ToSet(r.widths)) ELSE SumOf(r.widths)
DirectBitsize(r) == Wrap(DataOff(r) + PropsBitsize(r))

SizesOf(list) == [i \in DOMAIN list |-> DirectBitsize(cls[list[i].cls])]

RequiredBitsize(r) == Wrap(DirectBitsize(r) + Total(SizesOf(r.anc)))

MaxBitsize(r) == IF r.kind = "element" THEN AtomDataOff + AtomDataMaxSize ELSE AtomDataMaxSize

Bitsize(r) ==
    CASE r.kind = "element"   -> AtomDataOff + AtomDataMaxSize
      [] r.kind = "transient" -> RequiredBitsize(r)
      [] OTHER                -> Min({AtomDataMaxSize, RequiredBitsize(r)})

(* Ancestry::init: each ancestor's data follows that of the ones before    *)
(* it; the size it added is its own and that of the dependencies it pulled *)
(* in, unless another ancestor has accounted for it.                       *)
AncestorOffset(r, c) == Wrap(SumUpTo(SizesOf(r.anc), At(r.anc, c) - 1))

WithDeps(a) == <<a.cls>> \o a.deps

(* Mutant: dependencies are not accounted for. *)
Alone(a) == {a.cls}

AccountedWith(a) == ToSet(WithDeps(a))

(* The classes accounted for by each of the ancestors and those before it. *)
Accounted(list) ==
    LET upto[k \in 0..Len(list)] ==
          CASE k = 0 -> {}
            [] k # 0 /\ list[k].cls \in upto[k - 1] -> upto[k - 1]
            [] OTHER -> upto[k - 1] \cup AccountedWith(list[k])
    IN  upto

SizesAdded(list) ==
    [k \in DOMAIN list |->
       IF list[k].cls \in Accounted(list)[k - 1] THEN 0
       ELSE SumOf([i \in DOMAIN WithDeps(list[k]) |-> DirectBitsize(cls[WithDeps(list[k])[i]])])]

(* The first of the sizes that takes a running total over the limit. *)
OverLimit(r, sizes) ==
    {k \in DOMAIN sizes : Wrap(DirectBitsize(r) + SumUpTo(sizes, k)) > MaxBitsize(r)}

(* first_prop_over_max_bitsize starts from the direct size, which has the  *)
(* properties in it already.                                               *)
PropOverLimit(r) == OverLimit(r, r.widths) # {}

ParentOverLimit(r) ==
    OverLimit(r, [k \in DOMAIN r.parents |-> SizesAdded(r.anc)[At(r.anc, r.parents[k])]]) # {}

-----------------------------------------------------------------------------
(* Properties of objects.  <<c, k>> is the k-th property of class c. *)

OwnProps(c, r) == [k \in DOMAIN r.widths |-> <<c, k>>]

(* ClassResolver::add_inherited_props: its own, its parents', the others'. *)
AllProps(c, r) ==
    LET n == Len(r.parents)
        from(k) == IF k <= n THEN r.parents[k] ELSE r.anc[k - n].cls
        upto[k \in 0..(n + Len(r.anc))] ==
          CASE k = 0 -> OwnProps(c, r)
            [] k > n /\ r.anc[k - n].parent -> upto[k - 1]
            [] OTHER -> upto[k - 1] \o OwnProps(from(k), cls[from(k)])
    IN  upto[n + Len(r.anc)]

Width(q) == cls[q[1]].widths[q[2]]

(* Class::init_layout and Prop::data_off_in. *)
OffsetInClass(q) ==
    LET r == cls[q[1]]
    IN  Wrap(DataOff(r) + IF r.kind = "union" THEN 0 ELSE SumUpTo(r.widths, q[2] - 1))

IsBase(b, c) == b \in Ids(cls[c].anc)

(* Mutant: inherited data is placed from the start of the object. *)
DataOffInAncestors(q, c) ==
    IF q[1] = c THEN OffsetInClass(q)
    ELSE Wrap(OffsetInClass(q) + AncestorOffset(cls[c], q[1]))

DataOffIn(q, c) ==
    IF q[1] = c THEN OffsetInClass(q)
    ELSE Wrap(OffsetInClass(q) + DirectBitsize(cls[c]) + AncestorOffset(cls[c], q[1]))

BitsOf(q, c) == (DataOffIn(q, c) + 1)..(DataOffIn(q, c) + Width(q))

Load(o, q) ==
    LET off == DataOffIn(q, o.cls) IN SubSeq(o.bits, off + 1, off + Width(q))
Store(o, q, v) ==
    LET off == DataOffIn(q, o.cls)
    IN  [o EXCEPT !.bits = [i \in DOMAIN @ |->
            IF i \in (off + 1)..(off + Width(q)) THEN v[i - off] ELSE @[i]]]

StoreAll(to, from, qs) ==
    LET upto[k \in 0..Len(qs)] ==
          IF k = 0 THEN to ELSE Store(upto[k - 1], qs[k], Load(from, qs[k]))
    IN  upto[Len(qs)]

(* Mutant: the inherited properties of the base are not assigned. *)
AssignOwn(to, from) ==
    LET elements == cls[to.cls].kind = "element" /\ cls[from.cls].kind = "element"
        base == IF IsBase(to.cls, from.cls) THEN to.cls ELSE from.cls
    IN  IF elements THEN from
        ELSE StoreAll(to, from, OwnProps(base, cls[base]))

(* Class::store: an element takes over all of another, which makes it one  *)
(* of the other's class; else the properties of the base are copied.       *)
Assign(to, from) ==
    LET elements == cls[to.cls].kind = "element" /\ cls[from.cls].kind = "element"
        shared == IF IsBase(to.cls, from.cls) THEN cls[to.cls].allProps
                                              ELSE cls[from.cls].allProps
    IN  IF elements THEN from
        ELSE StoreAll(to, from, shared)

Zero(c) == [cls |-> c, bits |-> [i \in 1..Bitsize(cls[c]) |-> 0]]

-----------------------------------------------------------------------------

Init ==
    /\ cls = <<>>
    /\ object = NoObject
    /\ copy = NoObject
    /\ aborted = FALSE

(* ClassResolver::init: parents in the order they are named, the common    *)
(* base last; it fails when a parent has, and is not looked at again.      *)
InitClass(shape, ps) ==
    LET c == Len(cls) + 1
        good == \A i \in DOMAIN ps : cls[ps[i]].state # "Unresolvable"
        ancestry == AncestryOf(ps)
        r == [kind     |-> shape.kind,
              widths   |-> shape.widths,
              parents  |-> ancestry.parents,
              anc      |-> WithCommonBase(ancestry.anc, c),
              allProps |-> <<>>,
              state    |-> "Initialized"]
        failed == [kind |-> shape.kind, widths |-> shape.widths, parents |-> <<>>, anc |-> <<>>,
                   allProps |-> <<>>, state |-> "Unresolvable"]
    IN  /\ c \in Classes
        /\ shape \in Shapes[c]
        /\ \A i \in DOMAIN ps : ps[i] < c
        /\ cls' = Append(cls, IF good THEN [r EXCEPT !.allProps = AllProps(c, r)] ELSE failed)
        /\ UNCHANGED <<object, copy, aborted>>

(* ClassResolver::resolve, the ancestors being resolved: the class must    *)
(* fit, and what does not is reported at a property or at a parent.        *)
ResolveClass(c) ==
    LET r == cls[c]
        failed == \E a \in Ids(r.anc) : cls[a].state = "Unresolvable"
        fits == RequiredBitsize(r) <= Bitsize(r)
    IN  /\ r.state = "Initialized"
        /\ failed \/ \A a \in Ids(r.anc) : cls[a].state = "Resolved"
        /\ cls' = [cls EXCEPT ![c].state = IF ~failed /\ fits THEN "Resolved" ELSE "Unresolvable"]
        /\ aborted' = (~failed /\ ~fits /\ ~PropOverLimit(r) /\ ~ParentOverLimit(r))
        /\ UNCHANGED <<object, copy>>

(* Bound: objects are made when every class has been looked at. *)
Settled == Len(cls) = Cardinality(Classes) /\ \A c \in DOMAIN cls : cls[c].state # "Initialized"

NewObject(c) ==
    /\ Settled
    /\ object = NoObject
    /\ cls[c].state = "Resolved"
    /\ object' = Zero(c)
    /\ UNCHANGED <<cls, copy, aborted>>

(* Bound: a property, all zeros in a new object, is set to all ones. *)
Ones(n) == [i \in 1..n |-> 1]

WriteProp(q) ==
    /\ object' = Store(object, q, Ones(Width(q)))
    /\ UNCHANGED <<cls, copy, aborted>>

WriteCopy(q) ==
    /\ copy' = Store(copy, q, Ones(Width(q)))
    /\ UNCHANGED <<cls, object, aborted>>

CopyAsBase(b) ==
    /\ copy' = Assign(Zero(b), object)
    /\ UNCHANGED <<cls, object, aborted>>

AssignBack ==
    /\ object' = Assign(object, copy)
    /\ UNCHANGED <<cls, copy, aborted>>

PropsOf(o) == IF o = NoObject THEN {} ELSE ToSet(cls[o.cls].allProps)

Next ==
    /\ ~aborted
    /\ \/ \E c \in Classes : \E shape \in Shapes[c], ps \in ParentLists : 
            c = Len(cls) + 1 /\ InitClass(shape, ps)
       \/ \E c \in DOMAIN cls : ResolveClass(c)
       \/ \E c \in DOMAIN cls \cap ObjectClasses : NewObject(c)
       \/ \E q \in PropsOf(object) : WriteProp(q)
       \/ \E q \in PropsOf(copy) : WriteCopy(q)
       \/ \E b \in DOMAIN cls :
            object # NoObject /\ IsBase(b, object.cls) /\ CopyAsBase(b)
       \/ copy # NoObject /\ AssignBack

Spec == Init /\ [][Next]_vars
-----------------------------------------------------------------------------

Usable(c) == cls[c].state # "Unresolvable"

(* The classes a class descends from, by the parents each names: the least *)
(* set that has its own and theirs.                                        *)
ClosedUnderParents(S) == \A a \in S : ToSet(cls[a].parents) \subseteq S

Above(c) ==
    LET closed == {S \in SUBSET (1..(c - 1)) :
                     ToSet(cls[c].parents) \subseteq S /\ ClosedUnderParents(S)}
    IN  {a \in 1..(c - 1) : \A S \in closed : a \in S} \cup ({UrSelf} \ {0, c})

(* The list of ancestors that Ancestry builds incrementally from the lists *)
(* of the parents is the set of all classes above, each of them once, with *)
(* no class before the one that pulled it in: is_base, and so every cast   *)
(* and every offset, rests on it (ancestry.cpp:57-83).                     *)
AncestryClosed ==
    \A c \in DOMAIN cls : Usable(c) =>
        /\ Ids(cls[c].anc) = Above(c)
        /\ Cardinality(Ids(cls[c].anc)) = Len(cls[c].anc)
        /\ \A i \in DOMAIN cls[c].anc : \A d \in ToSet(cls[c].anc[i].deps) :
              d \in Ids(cls[c].anc) /\ At(cls[c].anc, d) > i

(* "dependencies pulled in first time by current ancestor"                 *)
(* (ancestry.hpp:176): every ancestor was added as a parent or common base *)
(* or is the dependency of exactly one other, none is accounted for twice  *)
(* (the assertion of ancestry.cpp:98), and what ancestors are said to have *)
(* added sums up to all that is inherited (ancestry.cpp:85-105).           *)
SizesAddUp ==
    \A c \in DOMAIN cls : Usable(c) =>
        LET r == cls[c]
            pulledBy(a) == {i \in DOMAIN r.anc : a \in ToSet(r.anc[i].deps)}
        IN  /\ \A a \in Ids(r.anc) :
                 \/ Cardinality(pulledBy(a)) = 1
                 \/ pulledBy(a) = {} /\ a \in ToSet(r.parents) \cup {UrSelf}
            /\ \A i \in DOMAIN r.anc : r.anc[i].cls \notin Accounted(r.anc)[i - 1] =>
                 ToSet(r.anc[i].deps) \cap Accounted(r.anc)[i - 1] = {}
            /\ Wrap(DirectBitsize(r) + Total(SizesAdded(r.anc))) = RequiredBitsize(r)

AncestryAddsUp == AncestryClosed /\ SizesAddUp

SameUnion(q, s) == q[1] = s[1] /\ cls[q[1]].kind = "union"

(* The bits of a class and of all above it, were sizes not 16-bit numbers. *)
Extent(r) ==
    DataOff(r) + IF r.kind = "union" THEN PropsBitsize(r) ELSE Total(r.widths)
FullExtent(r) == Extent(r) + Total([i \in DOMAIN r.anc |-> Extent(cls[r.anc[i].cls])])

(* In a resolved class every property, own or inherited along any path,    *)
(* has its own bits within the object and off the element's header, except *)
(* that the properties of one union overlap (class.cpp:178-225, 663-670;   *)
(* prop.cpp:20-25).  Sizes are added up as 16-bit numbers, so that a class *)
(* of 2^16 bits or more may pass for a small one: there it does not hold.  *)
LayoutDisjoint ==
    \A c \in DOMAIN cls : cls[c].state = "Resolved" /\ FullExtent(cls[c]) < BitsizeMod =>
        LET ps == cls[c].allProps
        IN  /\ ToSet(ps) = UNION {{<<d, k>> : k \in DOMAIN cls[d].widths} : d \in {c} \cup Above(c)}
            /\ \A i \in DOMAIN ps :
                 /\ BitsOf(ps[i], c) \subseteq (DataOff(cls[c]) + 1)..Bitsize(cls[c])
                 /\ \A j \in 1..(i - 1) :
                      /\ ps[i] # ps[j]
                      /\ SameUnion(ps[i], ps[j]) \/ BitsOf(ps[i], c) \cap BitsOf(ps[j], c) = {}

(* Cells of a class, from the classes above it and the text alone. *)
CellsOfClass(c) ==
    LET above == {c} \cup Above(c)
        props == UNION {{<<d, k>> : k \in DOMAIN cls[d].widths} : d \in above}
    IN  {IF cls[q[1]].kind = "union" THEN <<q[1], 0>> ELSE q : q \in props}

CellWidth(x) == IF x[2] = 0 THEN PropsBitsize(cls[x[1]]) ELSE Width(x)

(* A cell is read where its class's data is placed in the object's class.  *)
CellBits(o, x) ==
    LET off == DataOffIn(<<x[1], IF x[2] = 0 THEN 1 ELSE x[2]>>, o.cls)
    IN  SubSeq(o.bits, off + 1, off + CellWidth(x))

CellsIn(o) == IF o = NoObject THEN <<>> ELSE [x \in CellsOfClass(o.cls) |-> CellBits(o, x)]

ResolvedClasses == {c \in DOMAIN cls : cls[c].state = "Resolved"}

Values == INSTANCE ObjectValues WITH
    cellsOf   <- [c \in ResolvedClasses |-> [x \in CellsOfClass(c) |-> CellWidth(x)]],
    atoms     <- {c \in ResolvedClasses : cls[c].kind = "element"},
    objectCls <- object.cls,
    object    <- CellsIn(object),
    copy      <- CellsIn(copy)

(* Objects behave as records of property values, whatever classes their    *)
(* class descends from: writes change one cell, a copy as a base has the   *)
(* base's cells with their values, and assigning it back changes these     *)
(* only (class.cpp:273-303, prop.cpp:7-32).                                *)
ImplementsValues == Values!Spec

=============================================================================
