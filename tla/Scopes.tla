------------------------------- MODULE Scopes -------------------------------
(***************************************************************************)
(* The scopes of one module, filled as sema::Init walks its syntax tree    *)
(* (once over the module's definitions, once over the bodies of its        *)
(* classes) and completed while the resolver works on it: templates are    *)
(* instantiated, ancestors and their members are added to classes, and     *)
(* classes exported by other modules are imported.                         *)
(*                                                                         *)
(* Lookups go through a chain of scopes: the class's own scope at the      *)
(* version of the point of use, the inherited symbols, the module's scope  *)
(* at the version the class was made at, the module's environment.         *)
(***************************************************************************)
EXTENDS Integers, Sequences, SequencesExt, FiniteSets, FiniteSetsExt

CONSTANTS
    TypeNames,     \* identifiers of classes and typedefs
    ClassNames,    \* those the module may define classes and templates under
    MemberNames,   \* identifiers of constants, properties and functions
    ParamName,     \* the member name every template uses for its parameter
    External,      \* classes exported by other modules
    ExtAncestors,  \* [External -> ancestors of the class, all in External]
    ExtMembers,    \* [External -> definitions the class has of its own]
    ModuleItems,   \* the definitions a module may contain: [kind, name]
    BodyItems,     \* the definitions a class body may contain
    ParentLists,   \* bound: the lists of parents a class may name
    MaxItems,      \* bound: definitions in the module
    MaxBody,       \* bound: definitions in all class bodies together
    NoDef, NoVersion

ASSUME NamesAssumption ==
    /\ ClassNames \cap External = {} /\ ClassNames \cup External \subseteq TypeNames
    /\ ParamName \in MemberNames /\ TypeNames \cap MemberNames = {}
ASSUME ExternalAssumption ==
    /\ ExtAncestors \in [External -> SUBSET External]
    /\ \A x \in External : ExtMembers[x] \in Seq(BodyItems)
ASSUME ModuleItemsAssumption ==
    ModuleItems \subseteq
        [kind : {"alias"}, name : TypeNames] \cup [kind : {"const"}, name : MemberNames]
          \cup [kind : {"class", "tpl"}, name : ClassNames]
ASSUME BodyItemsAssumption ==
    BodyItems \subseteq
        [kind : {"alias"}, name : TypeNames] \cup [kind : {"prop", "fset"}, name : MemberNames]
ASSUME ParentListsAssumption ==
    ParentLists \subseteq Seq((({"class", "inst"} \X ClassNames) \cup ({"ext"} \X External)))
ASSUME BoundsAssumption == MaxItems \in Nat /\ MaxBody \in Nat

Names == TypeNames \cup MemberNames

(* The definitions one scope can hold, by name and kind of Def. *)
ScopeDefs ==
    {<<it.name, it.kind>> : it \in ModuleItems \cup BodyItems} \cup {<<ParamName, "param">>}

INSTANCE ScopeTable WITH Defs <- ScopeDefs

(* Class objects: plain classes, templates and the instance of a template  *)
(* (one for each, all instances of a template being alike here), and the   *)
(* classes of other modules.                                               *)
ExtEntities == {"ext"} \X External

(* What a lookup returns: the definition and whose scope it is in. *)
Sym(owner, n, kind) == [owner |-> owner, name |-> n, kind |-> kind]
Module == <<"module">>
ExtClass(n) == Sym(<<"ext", n>>, n, "class")

VARIABLES
    pass,      \* RecVisitor::_pass, then the resolver
    text,      \* the module's definitions visited so far, in source order
    body,      \* [node -> definitions of the class body visited so far]
    mod,       \* the module's scope
    env,       \* the module's environment scope
    cls,       \* [class objects made so far -> their scopes and members]
    current,   \* position in text of the class whose body is visited
    aborted    \* an assertion has stopped the program

vars == <<pass, text, body, mod, env, cls, current, aborted>>

-----------------------------------------------------------------------------
(* Class objects *)

(* ClassBase::ClassBase: the view of the module is taken at the version it *)
(* has now.                                                                *)
ViewNow == Version(mod)

NewClass(view) ==
    [view    |-> view,
     table   |-> EmptyTable,
     members |-> [n \in Names |-> NoDef],
     inh     |-> [n \in Names |-> NoDef],
     anc     |-> <<>>,
     parents |-> <<>>,
     state   |-> "made"]

Has(c, n) == c.members[n] # NoDef

(* add_type_def, add_const, add_prop, add_param and add_fset of ClassBase:  *)
(* the definition goes to the scope and to the table of members.            *)
AddMember(c, owner, n, kind) ==
    [c EXCEPT !.table = DoSet(@, n, <<n, kind>>),
              !.members[n] = IF @ = NoDef THEN Sym(owner, n, kind) ELSE @]

(* Init on a member: a typedef or variable of a defined name is skipped or  *)
(* reported; a function joins the set of its name unless that is no set.    *)
Rejected(c, it) ==
    IF it.kind = "fset"
      THEN Has(c, it.name) /\ c.members[it.name].kind # "fset"
      ELSE Defines(c.table, it.name)

VisitedMember(c, owner, it) ==
    IF Rejected(c, it) \/ Has(c, it.name) THEN c
    ELSE AddMember(c, owner, it.name, it.kind)

(* ClassTpl::inst: the parameter, then every member of the template in the  *)
(* order it was added to it.                                                *)
Instance(tpl, inst, items, view) ==
    LET withParam == AddMember(NewClass(view), inst, ParamName, "param")
    IN  FoldLeft(LAMBDA c, it : VisitedMember(c, inst, it), withParam, items)

-----------------------------------------------------------------------------
(* Lookups *)

FoundIn(table, owner, n) ==
    IF Defines(table, n) THEN Sym(owner, n, table.symbols[n][2]) ELSE NoDef

FirstOf(candidates) ==
    LET found == SelectSeq(candidates, LAMBDA s : s # NoDef)
    IN  IF found = <<>> THEN NoDef ELSE Head(found)

Final(table, owner, n, w) == IF IsFinal(table, n, w) THEN FoundIn(table, owner, n) ELSE NoDef

(* PersScope::get on the module's scope at version w: a final definition,  *)
(* else what the environment has, else a definition that comes later.      *)
ModuleGet(n, w) ==
    FirstOf(<<Final(mod, Module, n, w), env[n], FoundIn(mod, Module, n)>>)

(* The same chain entered at the inherited symbols of class object c. *)
InheritedGet(c, n) == FirstOf(<<cls[c].inh[n], ModuleGet(n, cls[c].view)>>)

(* PersScope::get on the scope of class c at version w: for the types of   *)
(* typedefs, properties, constants, parameters and functions.              *)
ClassGet(c, n, w, local) ==
    IF local THEN ModuleGet(n, cls[c].view)
    ELSE FirstOf(<<Final(cls[c].table, c, n, w),
                   InheritedGet(c, n),
                   FoundIn(cls[c].table, c, n)>>)

(* Mutant: the last definition that is not final is the fallback. *)
BodyGetOuter(c, n, w, local) ==
    IF local THEN ModuleGet(n, cls[c].view)
    ELSE FirstOf(<<Final(cls[c].table, c, n, w), InheritedGet(c, n),
                   FoundIn(cls[c].table, c, n)>>)

(* BasicScope::get from the body of a function of class c whose scope      *)
(* version is w: the first definition that is not final is the fallback.   *)
BodyGet(c, n, w, local) ==
    IF local THEN ModuleGet(n, cls[c].view)
    ELSE FirstOf(<<Final(cls[c].table, c, n, w),
                   cls[c].inh[n],
                   Final(mod, Module, n, cls[c].view),
                   env[n],
                   FoundIn(cls[c].table, c, n),
                   FoundIn(mod, Module, n)>>)

-----------------------------------------------------------------------------
(* sema::Init, first pass: the definitions of the module *)

Item(kind, n) == [kind |-> kind, name |-> n]

(* Bodies are written under the class's node, which is also the object the *)
(* visitor fills: the class or the template.                               *)
Node(it) == <<it.kind, it.name>>

Define(n, kind) ==
    IF CanSet(mod, n, <<n, kind>>)
      THEN mod' = DoSet(mod, n, <<n, kind>>) /\ UNCHANGED aborted
      ELSE aborted' = TRUE /\ UNCHANGED mod

Reading == pass = "module" /\ Len(text) < MaxItems

(* A typedef or constant; one of a name defined already changes nothing.   *)
VisitDef(it) ==
    /\ Reading
    /\ it.kind \in {"alias", "const"}
    /\ text' = Append(text, it)
    /\ IF Defines(mod, it.name) THEN UNCHANGED <<mod, aborted>> ELSE Define(it.name, it.kind)
    /\ UNCHANGED <<pass, body, env, cls, current>>

(* Only classes and templates of the name count as an earlier definition.  *)
VisitClass(it) ==
    LET n == it.name
        kind == it.kind
        node == Node(it)
        fresh == NewClass(ViewNow)
    IN  /\ Reading
        /\ kind \in {"class", "tpl"}
        /\ text' = Append(text, it)
        /\ IF \E k \in {"class", "tpl"} : <<k, n>> \in DOMAIN cls
             THEN UNCHANGED <<mod, env, cls, body, aborted>>
             ELSE /\ Define(n, kind)
                  /\ env' = [env EXCEPT ![n] = IF @ = NoDef THEN Sym(Module, n, kind) ELSE @]
                  /\ cls' = [e \in DOMAIN cls \cup {node} |->
                               IF e # node THEN cls[e]
                               ELSE IF kind = "tpl" THEN AddMember(fresh, node, ParamName, "param")
                               ELSE fresh]
                  /\ body' = [e \in DOMAIN body \cup {node} |->
                                IF e = node THEN <<>> ELSE body[e]]
        /\ UNCHANGED <<pass, current>>

(* The position of the next class whose body is to be visited. *)
NextBody(k) ==
    LET later == {j \in (k + 1)..Len(text) :
                    text[j].kind \in {"class", "tpl"} /\
                    \A i \in 1..(j - 1) : text[i] # text[j]
                    /\ Node(text[j]) \in DOMAIN cls}
    IN  IF later = {} THEN 0 ELSE CHOOSE j \in later : \A i \in later : j <= i

EndModulePass ==
    /\ pass = "module"
    /\ cls # <<>>
    /\ current' = NextBody(0)
    /\ pass' = "classes"
    /\ UNCHANGED <<text, body, mod, env, cls, aborted>>

-----------------------------------------------------------------------------
(* sema::Init, second pass: the bodies of the classes *)

BodySize == MapThenSumSet(LAMBDA e : Len(body[e]), DOMAIN body)

(* The definition carries the version its scope had when it was visited.   *)
VisitMember(it) ==
    LET node == Node(text[current])
    IN  /\ pass = "classes"
        /\ BodySize < MaxBody
        /\ body' = [body EXCEPT ![node] =
                      Append(@, [kind |-> it.kind, name |-> it.name,
                                 at |-> Version(cls[node].table),
                                 kept |-> ~Rejected(cls[node], it)])]
        /\ cls' = [cls EXCEPT ![node] = VisitedMember(@, node, it)]
        /\ UNCHANGED <<pass, text, mod, env, current, aborted>>

EndBody ==
    /\ pass = "classes"
    /\ current' = NextBody(current)
    /\ pass' = IF current' = 0 THEN "resolve" ELSE pass
    /\ UNCHANGED <<text, body, mod, env, cls, aborted>>

-----------------------------------------------------------------------------
(* The resolver *)

NodeOf(e) == IF e[1] = "inst" THEN <<"tpl", e[2]>> ELSE e
KeptItems(e) == SelectSeq(body[NodeOf(e)], LAMBDA it : it.kept)

(* ClassTpl::type for arguments it has not seen: the instance views the    *)
(* module at the version it has by then.                                   *)
Instantiate(n) ==
    LET inst == <<"inst", n>>
    IN  /\ pass = "resolve"
        /\ <<"tpl", n>> \in DOMAIN cls
        /\ inst \notin DOMAIN cls
        /\ cls' = [e \in DOMAIN cls \cup {inst} |->
                     IF e # inst THEN cls[e]
                     ELSE Instance(<<"tpl", n>>, inst, KeptItems(inst), ViewNow)]
        /\ UNCHANGED <<pass, text, body, mod, env, current, aborted>>

Imported(envs, n) == [envs EXCEPT ![n] = IF @ = NoDef THEN ExtClass(n) ELSE @]

(* Module::add_import, when a type name has no definition in scope that    *)
(* fits the way it is written and another module exports it.               *)
Import(n) ==
    /\ pass = "resolve"
    /\ env[n] = NoDef
    /\ env' = Imported(env, n)
    /\ UNCHANGED <<pass, text, body, mod, cls, current, aborted>>

AncestorsOf(p) ==
    IF p[1] = "ext" THEN SetToSeq({<<"ext", m>> : m \in ExtAncestors[p[2]]})
    ELSE cls[p].anc
MembersOf(p) ==
    IF p[1] # "ext" THEN cls[p].members
    ELSE [n \in Names |-> FirstOf([k \in 1..Len(ExtMembers[p[2]]) |->
             IF ExtMembers[p[2]][k].name = n THEN Sym(p, n, ExtMembers[p[2]][k].kind) ELSE NoDef])]

(* Ancestry::do_add: the class and its ancestors, each once. *)
WithAncestor(anc, p) ==
    FoldLeft(LAMBDA seq, q : IF q \in ToSet(seq) THEN seq ELSE Append(seq, q),
             anc, <<p>> \o AncestorsOf(p))

ClassSym(p) == IF p[1] = "ext" THEN ExtClass(p[2]) ELSE Sym(Module, p[2], p[1])

(* Class::add_ancestor: nothing for a class inherited already; else names  *)
(* of its ancestors nothing else in the chain provides, and its members    *)
(* other than functions that this class does not have.                     *)
AddAncestor(c, p) ==
    IF p \in ToSet(c.anc) THEN [c EXCEPT !.parents = Append(@, p)]
    ELSE LET visible(inh, n) == inh[n] # NoDef \/ ModuleGet(n, c.view) # NoDef
             named == FoldLeft(LAMBDA inh, q :
                                 IF visible(inh, q[2]) THEN inh
                                 ELSE [inh EXCEPT ![q[2]] = ClassSym(q)],
                               c.inh, AncestorsOf(p))
             new == {n \in Names : /\ MembersOf(p)[n] # NoDef
                                   /\ MembersOf(p)[n].kind # "fset"
                                   /\ ~Has(c, n)}
         IN  [c EXCEPT
                !.anc = WithAncestor(@, p),
                !.parents = Append(@, p),
                !.inh = [n \in Names |-> IF n \in new /\ named[n] = NoDef
                                           THEN MembersOf(p)[n] ELSE named[n]],
                !.members = [n \in Names |-> IF n \in new THEN MembersOf(p)[n] ELSE @[n]]]

(* The parents named by a class are initialised before it, and naming one  *)
(* of another module imports it.                                           *)
MayBeParent(p) ==
    \/ p \in ExtEntities
    \/ p \in DOMAIN cls /\ p[1] # "tpl" /\ cls[p].state # "made"

(* ClassResolver::init, for parents that are initialised. *)
InitClass(e, ps) ==
    /\ pass = "resolve"
    /\ e[1] # "tpl" /\ cls[e].state = "made"
    /\ \A i \in DOMAIN ps : MayBeParent(ps[i])
    /\ env' = FoldLeft(LAMBDA en, p : IF p[1] = "ext" THEN Imported(en, p[2]) ELSE en, env, ps)
    /\ cls' = [cls EXCEPT ![e] =
                 [FoldLeft(LAMBDA c, p : AddAncestor(c, p), @, ps) EXCEPT !.state = "ready"]]
    /\ UNCHANGED <<pass, text, body, mod, current, aborted>>

FunSetsOf(p) == {n \in Names : MembersOf(p)[n] # NoDef /\ MembersOf(p)[n].kind = "fset"}

InheritedFunSets(c) ==
    {n \in MemberNames : \E i \in DOMAIN c.anc : n \in FunSetsOf(c.anc[i])}

NewFunSets(c) == {n \in InheritedFunSets(c) : ~Has(c, n)}

(* Mutant: they are imported as other members of ancestors are. *)
ImportFunSet(c, e, n) ==
    [c EXCEPT !.inh[n] = Sym(e, n, "fset"), !.members[n] = Sym(e, n, "fset")]

AddFunSet(c, e, n) == AddMember(c, e, n, "fset")

(* Class::merge_fsets: sets of functions inherited under a name the class  *)
(* has no member of are new definitions in its scope.                      *)
MergeFunSets(e) ==
    LET c == cls[e]
    IN  /\ pass = "resolve"
        /\ e[1] # "tpl" /\ c.state = "ready"
        /\ \A i \in DOMAIN c.anc : c.anc[i][1] # "ext" => cls[c.anc[i]].state = "merged"
        /\ \E order \in SetToSeqs(NewFunSets(c)) :
             cls' = [cls EXCEPT ![e] =
                       [FoldLeft(LAMBDA r, n : AddFunSet(r, e, n), @, order)
                          EXCEPT !.state = "merged"]]
        /\ UNCHANGED <<pass, text, body, mod, env, current, aborted>>

-----------------------------------------------------------------------------

Init ==
    /\ pass = "module"
    /\ text = <<>>
    /\ body = <<>>
    /\ mod = EmptyTable
    /\ env = [n \in Names |-> NoDef]
    /\ cls = <<>>
    /\ current = 0
    /\ aborted = FALSE

Next ==
    /\ ~aborted
    /\ \/ \E it \in ModuleItems : VisitDef(it)
       \/ \E it \in ModuleItems : VisitClass(it)
       \/ EndModulePass
       \/ \E it \in BodyItems : VisitMember(it)
       \/ EndBody
       \/ \E n \in ClassNames : Instantiate(n)
       \/ \E n \in External : Import(n)
       \/ \E e \in DOMAIN cls, ps \in ParentLists : InitClass(e, ps)
       \/ \E e \in DOMAIN cls : MergeFunSets(e)

Spec == Init /\ [][Next]_vars
=============================================================================
