---------------------------- MODULE ScopeMeaning ----------------------------
(***************************************************************************)
(* What a name means at a point of a program, defined from the text of the *)
(* program alone: the order of its definitions, the parents of its classes *)
(* and what has been imported.  The tables of Scopes are checked against   *)
(* it.                                                                     *)
(***************************************************************************)
EXTENDS Scopes

(* The definitions of class e's text: the parameter of a template is one.  *)
Declared(e) ==
    IF e[1] = "ext" THEN ExtMembers[e[2]]
    ELSE (IF e[1] \in {"tpl", "inst"} THEN <<Item("param", ParamName)>> ELSE <<>>)
            \o [i \in DOMAIN body[NodeOf(e)] |->
                  Item(body[NodeOf(e)][i].kind, body[NodeOf(e)][i].name)]

(* The first definition of n among the items, as one of scope `owner`. *)
Earliest(items, owner, n) ==
    LET found == SelectSeq(items, LAMBDA it : it.name = n)
    IN  IF found = <<>> THEN NoDef ELSE Sym(owner, n, Head(found).kind)

Own(e, n) == Earliest(Declared(e), e, n)

ParentsOf(e) == IF e[1] = "ext" THEN <<>> ELSE cls[e].parents

RECURSIVE Above(_)
Above(e) ==
    IF e[1] = "ext" THEN {<<"ext", m>> : m \in ExtAncestors[e[2]]}
    ELSE UNION {{p} \cup Above(p) : p \in ToSet(ParentsOf(e))}

(* A parent that an earlier parent already inherits adds nothing. *)
Contributes(ps, k) ==
    \A j \in 1..(k - 1) : ps[k] # ps[j] /\ ps[k] \notin Above(ps[j])

(* The type or variable e inherits under n: that of the first parent with  *)
(* one, unless e has a definition of its own.                              *)
RECURSIVE InheritedVar(_, _)
InheritedVar(e, n) ==
    LET ps == ParentsOf(e)
        PassedOn(p) == IF Own(p, n) = NoDef THEN InheritedVar(p, n)
                       ELSE IF Own(p, n).kind = "fset" THEN NoDef
                       ELSE Own(p, n)
    IN  IF Own(e, n) # NoDef THEN NoDef
        ELSE FirstOf([k \in DOMAIN ps |->
                        IF Contributes(ps, k) THEN PassedOn(ps[k]) ELSE NoDef])

(* The set of functions e inherits under n, once it is resolved. *)
InheritedFun(e, n) ==
    IF /\ e[1] # "tpl" /\ cls[e].state = "merged"
       /\ Own(e, n) = NoDef /\ InheritedVar(e, n) = NoDef
       /\ \E a \in Above(e) : Own(a, n) # NoDef /\ Own(a, n).kind = "fset"
    THEN Sym(e, n, "fset") ELSE NoDef

(* Where the module's text stands for class e: at its definition; for the  *)
(* instance of a template, at the end of the module.                       *)
TextBefore(e) ==
    IF e[1] = "inst" THEN text
    ELSE SubSeq(text, 1, (CHOOSE j \in DOMAIN text :
                            Node(text[j]) = e /\ \A i \in 1..(j - 1) : Node(text[i]) # e) - 1)

(* A class or template of the module, wherever it is defined, else an      *)
(* imported one.                                                           *)
Global(n) ==
    LET own == SelectSeq(text, LAMBDA it : it.name = n /\ it.kind \in {"class", "tpl"})
    IN  IF own # <<>> THEN Sym(Module, n, Head(own).kind)
        ELSE IF n \in External /\ env[n] # NoDef THEN ExtClass(n) ELSE NoDef

(* An ancestor that only the ancestors of e's parents know by name.        *)
AncestorName(e, n) ==
    LET named == {a \in UNION {Above(p) : p \in ToSet(ParentsOf(e))} :
                    a[1] = "ext" /\ a[2] = n}
    IN  IF named # {} THEN ExtClass(n) ELSE NoDef

(* A name inherited both as an ancestor's and as a member's: which one a   *)
(* class sees depends on the order of its parents and on what happens to   *)
(* be imported by then (the TODO at class.cpp:600).                        *)
Ambiguous(e, n) == AncestorName(e, n) # NoDef /\ InheritedVar(e, n) # NoDef

(* The meaning of n in the type of the i-th definition in the body of e.   *)
Meaning(e, n, i) ==
    FirstOf(<<Earliest(SubSeq(Declared(e), 1, Len(Declared(e)) - Len(body[NodeOf(e)]) + i - 1), e, n),
              InheritedVar(e, n),
              Earliest(TextBefore(e), Module, n),
              Global(n),
              Earliest(text, Module, n),
              AncestorName(e, n),
              Own(e, n),
              InheritedFun(e, n)>>)

(* ... and in the body of the function that the i-th definition is. *)
MeaningInBody(e, n, i) ==
    FirstOf(<<Earliest(SubSeq(Declared(e), 1, Len(Declared(e)) - Len(body[NodeOf(e)]) + i - 1), e, n),
              InheritedVar(e, n),
              Earliest(TextBefore(e), Module, n),
              Global(n),
              IF Earliest(text, Module, n) = NoDef THEN AncestorName(e, n) ELSE NoDef,
              Own(e, n),
              InheritedFun(e, n),
              Earliest(text, Module, n)>>)

(* local.n: the module alone. *)
MeaningLocal(e, n) ==
    FirstOf(<<Earliest(TextBefore(e), Module, n), Global(n), Earliest(text, Module, n)>>)

-----------------------------------------------------------------------------

(* The points a name is looked up from: the definitions of class and       *)
(* instance bodies that were kept, each with the scope version it carries. *)
(* (A template and its instance number their definitions alike.)           *)
Uses == {<<e, i>> \in (DOMAIN cls) \X (1..MaxBody) :
            /\ e[1] # "tpl"
            /\ i \in DOMAIN body[NodeOf(e)]
            /\ body[NodeOf(e)][i].kept}

VersionAt(e, i) == body[NodeOf(e)][i].at

Walked == pass = "resolve" /\ ~aborted

(* What PersScope::get finds for a name used in the type of a member is    *)
(* what the text means there, at any time of the resolution: definitions   *)
(* before the use in the class, then inherited ones, then the module's     *)
(* before the class, then global classes, and only then, from the outside  *)
(* in, definitions that come after the use (scope.cpp:216-243, with the    *)
(* versions sema::Init stamps and the view a class takes of its module).   *)
LexicalMeaning ==
    Walked => \A u \in Uses, n \in Names : ~Ambiguous(u[1], n) =>
        ClassGet(u[1], n, VersionAt(u[1], u[2]), FALSE) = Meaning(u[1], n, u[2])

(* The same for a name used in the body of a function, looked up with      *)
(* BasicScope::get (scope.cpp:121-173): it differs from a member's type    *)
(* only in that later definitions are preferred from the inside out.       *)
BodyMeaning ==
    Walked => \A u \in Uses, n \in Names : ~Ambiguous(u[1], n) =>
        BodyGet(u[1], n, VersionAt(u[1], u[2]), FALSE) = MeaningInBody(u[1], n, u[2])

(* A name marked local never means a definition of the class or of its     *)
(* ancestors, in either kind of lookup (the scp::Class branches of both).  *)
LocalMeaning ==
    Walked => \A u \in Uses, n \in Names :
        /\ ClassGet(u[1], n, VersionAt(u[1], u[2]), TRUE) = MeaningLocal(u[1], n)
        /\ BodyGet(u[1], n, VersionAt(u[1], u[2]), TRUE) = MeaningLocal(u[1], n)

(* All three: wherever a name is used, and however it is looked up.        *)
NamesMeanTheText == LexicalMeaning /\ BodyMeaning /\ LocalMeaning

(* The two ways to reach a member agree: Class::get, which C.N and c.n use *)
(* from outside, and a lookup in the class's scope as it is now; also for  *)
(* members imported from ancestors and sets of functions merged from them  *)
(* (class.cpp:594-661).                                                    *)
MembersAgree ==
    Walked => \A e \in DOMAIN cls, n \in Names :
       cls[e].members[n] # NoDef /\ ~Ambiguous(e, n) =>
            ClassGet(e, n, Version(cls[e].table), FALSE) = cls[e].members[n]

(* Once a class is initialised, what a name means in it does not depend on *)
(* what is resolved later, unless another module exports the name:         *)
(* instantiating templates, initialising other classes and merging         *)
(* functions never redirect a name that was found ("a scope state at the   *)
(* point of definition can be later restored", scope.hpp:160).             *)
StableMeaning ==
    \A u \in Uses, n \in Names \ External :
        Walked /\ cls[u[1]].state # "made" =>
            LET found == ClassGet(u[1], n, VersionAt(u[1], u[2]), FALSE)
            IN  found # NoDef => ClassGet(u[1], n, VersionAt(u[1], u[2]), FALSE)' = found

MeaningsStay == [][StableMeaning]_vars

=============================================================================
