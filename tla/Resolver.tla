------------------------------ MODULE Resolver ------------------------------
(***************************************************************************)
(* The resolver (sema/resolver.cpp, sema/resolver/class.cpp): classes,     *)
(* typedefs, properties and functions of a program are resolved on demand, *)
(* each call of the resolver resolving what it depends on first.  The      *)
(* recursion is modelled with its stack of calls, one frame for each call  *)
(* that has state of its own; `ret` is what the last call returned.        *)
(*                                                                         *)
(* A definition is a class or <<class, i>>, the i-th member of its body.   *)
(***************************************************************************)
EXTENDS Integers, Sequences, SequencesExt, FiniteSets

CONSTANTS
    Names,          \* names of types
    Classes,        \* those of the program's classes
    BuiltinInt,     \* the name of a builtin type
    Programs,       \* bound: the programs to resolve
    None            \* no class, no definition

(* A program: the classes its modules list, in order (instances of         *)
(* templates and classes of modules loaded on demand are not listed), and  *)
(* the parents and members of each class; some classes are unions.  A type *)
(* is written as a path of names; a member may have an array dimension, a  *)
(* property an initialiser, that depends on the size of the class another  *)
(* path names, or none (<<>>).                                             *)
Kinds == {"alias", "prop", "fun"}
ASSUME NamesAssumption == Classes \subseteq Names /\ BuiltinInt \in Names \ Classes
ASSUME ClassesAssumption == IsFiniteSet(Classes)
ASSUME ProgramsAssumption ==
    \A t \in Programs :
        /\ t.listed \in Seq(Classes) /\ t.unions \subseteq Classes
        /\ \A c \in Classes :
             /\ \A b \in Classes : c \notin {<<b, i>> : i \in DOMAIN t.members[b]}
             /\ \A i \in DOMAIN t.parents[c] : t.parents[c][i] \in Seq(Names) \ {<<>>}
             /\ t.members[c] \in Seq(ToSet(t.members[c]))
             /\ \A i \in DOMAIN t.members[c] :
                  /\ t.members[c][i].kind \in Kinds
                  /\ t.members[c][i].path \in Seq(Names) \ {<<>>}
                  /\ t.members[c][i].dim \in Seq(Names)
                  /\ t.members[c][i].init \in Seq(Names)
                  /\ t.members[c][i].kind # "prop" => t.members[c][i].init = <<>>

VARIABLES
    prog,        \* the program
    state,       \* [classes and definitions -> Def::State]
    aliased,     \* [resolved members -> their canonical type]
    anc,         \* [class -> its ancestors, in order]
    inh,         \* [class -> [name -> member imported from an ancestor]]
    imported,    \* classes that a lookup has imported into the module
    valued,      \* properties that have a default value
    found,       \* Resolver::_classes
    met,         \* history: all that have been in Resolver::_classes
    round,       \* the rounds of Resolver::resolve(Program)
    stack,       \* the calls under way
    ret,         \* what the last call returned, Running when it has not
    errors,      \* an error has been reported
    aborted      \* an assertion has stopped the program

vars == <<prog, state, aliased, anc, inh, imported, valued, found, met, round, stack, ret, errors,
          aborted>>
defVars == <<aliased, valued, anc, inh>>

-----------------------------------------------------------------------------
(* The program *)

Members(c) == DOMAIN prog.members[c]
Def(d) == prog.members[d[1]][d[2]]
Defs == UNION {{<<c, i>> : i \in Members(c)} : c \in Classes}

OwnAlias(c, n) ==
    {<<c, i>> : i \in {i \in Members(c) : prog.members[c][i].kind = "alias"
                                          /\ prog.members[c][i].name = n}}

(* Those of a kind, in order. *)
DefsOf(c, kind) ==
    LET upto[i \in 0 .. Len(prog.members[c])] ==
            IF i = 0 THEN <<>>
            ELSE IF Def(<<c, i>>).kind = kind THEN Append(upto[i - 1], <<c, i>>) ELSE upto[i - 1]
    IN  upto[Len(prog.members[c])]

(* Those that the classes of a list have, class by class. *)
AllDefsOf(list, kind) ==
    LET upto[k \in 0 .. Len(list)] ==
            IF k = 0 THEN <<>> ELSE upto[k - 1] \o DefsOf(list[k], kind)
    IN  upto[Len(list)]

(* Class::get of a typedef: its own, or one imported from an ancestor. *)
Typedef(c, n) ==
    IF OwnAlias(c, n) # {} THEN OwnAlias(c, n)
    ELSE IF n \in DOMAIN inh[c] THEN {inh[c][n]} ELSE {}

(* PersScope::get of a type name at the i-th member of class c (see        *)
(* Scopes), unless it gives a class: that is looked up again as an export. *)
TypedefInScope(c, i, n, except) ==
    LET own == OwnAlias(c, n) \ {except}
        before == {d \in own : d[2] < i}
    IN  IF before # {} THEN before
        ELSE IF n \in DOMAIN inh[c] THEN {inh[c][n]} \ {except}
        ELSE IF n \in ToSet(prog.listed) \cup imported THEN {}
        ELSE own

-----------------------------------------------------------------------------
(* Types.  Those of a member are kept canonical. *)

NoType == [of |-> "none", cls |-> None]
IntType == [of |-> "int", cls |-> None]
ClassType(c) == [of |-> "class", cls |-> c]
ArrayOf(t) == [t EXCEPT !.of = IF t.of = "int" THEN "int" ELSE "array"]

(* What a call that returns true or false is taken to return.  For a       *)
(* typedef that is resolved it is the type it stands for.                  *)
True == IntType
False == NoType

Running == [of |-> "running", cls |-> None]

-----------------------------------------------------------------------------
(* Calls *)

(* Those of the Resolver note the classes that are good, those of the      *)
(* ClassResolver alone do not.                                             *)
InitCall(c, note) == [fun |-> "init", def |-> c, at |-> 0, note |-> note]
ResolveCall(c, note) ==
    [fun |-> "resolve", def |-> c, at |-> "init", todo |-> <<>>, unions |-> {}, note |-> note]
DefCall(d) == [fun |-> "def", def |-> d, at |-> "enter", type |-> NoType]
TypeCall(path, c, i, except, full) ==
    [fun |-> "type", path |-> path, cls |-> c, pos |-> i, except |-> except, full |-> full,
     at |-> "spec", n |-> 1, type |-> NoType]

Top == stack[Len(stack)]
Returned == ret # Running

(* The top frame goes on as fr and calls another; or it returns. *)
Call(fr, callee) ==
    /\ stack' = Append(Append(Front(stack), fr), callee)
    /\ ret' = Running
Continue(fr) ==
    /\ stack' = Append(Front(stack), fr)
    /\ ret' = Running
Return(type) ==
    /\ stack' = Front(stack)
    /\ ret' = type

(* Mutant: classes that are come across are not noted. *)
NotNoted(type) == found

(* An expression is being evaluated: the types in it are resolved by a     *)
(* Resolver made for it (env().resolver()), and what that one notes is     *)
(* gone with it.                                                           *)
Evaluates(fr) ==
    \/ fr.fun = "def" /\ fr.at = "dim"
    \/ fr.fun = "resolve" /\ fr.at = "value"
InExpr == \E i \in DOMAIN stack : Evaluates(stack[i])

IsNoted(type) == Top.note /\ type = True /\ ~InExpr
Noted(type) == IF IsNoted(type) THEN found \cup {Top.def} ELSE found

Met(type) == IF IsNoted(type) THEN met \cup {Top.def} ELSE met

SetState(d, s) == state' = [state EXCEPT ![d] = s]

(* Mutant: what is being resolved is not marked. *)
WorkUnmarked(d) == UNCHANGED state

WorkOn(d) == SetState(d, "Resolving")

(* Mutant: a type is not found and nothing is said of it. *)
FailSilently == UNCHANGED errors /\ Return(NoType)

(* A type is not found, which is reported. *)
FailType == errors' = TRUE /\ Return(NoType)

-----------------------------------------------------------------------------
(* ClassResolver::init *)

InitEnter ==
    LET c == Top.def
    IN  /\ Top.fun = "init" /\ Top.at = 0
        /\ CASE state[c] = "Unresolvable" -> Return(False) /\ UNCHANGED state
             [] state[c] = "NotResolved" ->
                  SetState(c, "Initializing") /\ Continue([Top EXCEPT !.at = 1])
             [] OTHER -> Return(True) /\ UNCHANGED state
        /\ found' = Noted(ret') /\ met' = Met(ret')
        /\ UNCHANGED <<prog, defVars, imported, round, errors, aborted>>

(* resolve_class_name of the next parent, at version 0 of the scope. *)
InitParent ==
    /\ Top.fun = "init" /\ Top.at \in DOMAIN prog.parents[Top.def] /\ ~Returned
    /\ Call(Top, TypeCall(prog.parents[Top.def][Top.at], Top.def, 0, None, FALSE))
    /\ UNCHANGED <<prog, state, defVars, imported, found, met, round, errors, aborted>>

(* Ancestry::do_add: the class and what it descends from by now. *)
WithAncestor(list, p) ==
    LET new == <<p>> \o anc[p]
        upto[k \in 0 .. Len(new)] ==
            IF k = 0 THEN list
            ELSE IF new[k] \in ToSet(upto[k - 1]) THEN upto[k - 1] ELSE Append(upto[k - 1], new[k])
    IN  upto[Len(new)]

(* Class::add_ancestor: typedefs of an ancestor, its own or imported by it *)
(* so far, that this class has none of the name of.                        *)
WithMembers(c, p) ==
    LET names == {Def(<<p, i>>).name : i \in {i \in Members(p) : Def(<<p, i>>).kind = "alias"}}
                    \cup DOMAIN inh[p]
        new == {n \in names : Typedef(c, n) = {}}
    IN  [n \in DOMAIN inh[c] \cup new |->
            IF n \in new THEN CHOOSE d \in Typedef(p, n) : TRUE ELSE inh[c][n]]

InitAddParent ==
    LET c == Top.def
        p == ret.cls
    IN  /\ Top.fun = "init" /\ Top.at # 0 /\ Returned /\ ret.of = "class"
        /\ Continue([Top EXCEPT !.at = @ + 1])
        /\ IF p \in ToSet(anc[c]) THEN UNCHANGED <<anc, inh>>
           ELSE /\ anc' = [anc EXCEPT ![c] = WithAncestor(@, p)]
                /\ inh' = [inh EXCEPT ![c] = WithMembers(c, p)]
        /\ UNCHANGED <<prog, state, aliased, valued, imported, found, met, round, errors, aborted>>

(* A parent that is not found or is not a class. *)
InitFail ==
    /\ Top.fun = "init" /\ Top.at # 0 /\ Returned /\ ret.of # "class"
    /\ SetState(Top.def, "Unresolvable")
    /\ errors' = (errors \/ ret # NoType)
    /\ Return(False)
    /\ UNCHANGED <<prog, defVars, imported, found, met, round, aborted>>

InitDone ==
    /\ Top.fun = "init" /\ Top.at = Len(prog.parents[Top.def]) + 1 /\ ~Returned
    /\ SetState(Top.def, "Initialized")
    /\ Return(True)
    /\ found' = Noted(True) /\ met' = Met(True)
    /\ UNCHANGED <<prog, defVars, imported, round, errors, aborted>>

-----------------------------------------------------------------------------
(* ClassResolver::do_resolve *)

(* The class is initialised; its own state is looked at next. *)
ResolveInit ==
    /\ Top.fun = "resolve" /\ Top.at = "init" /\ ~Returned
    /\ Call([Top EXCEPT !.at = "enter"], InitCall(Top.def, FALSE))
    /\ UNCHANGED <<prog, state, defVars, imported, found, met, round, errors, aborted>>

(* Its own, then inherited ones.  (Mutant: nothing else is resolved.) *)
Properties(c) ==
    AllDefsOf(<<c>> \o anc[c], "prop")

(* Ancestors, then all properties. *)
Dependencies(c) ==
    anc[c] \o Properties(c)

ResolveEnter ==
    LET c == Top.def
    IN  /\ Top.fun = "resolve" /\ Top.at = "enter" /\ Returned
        /\ \/ /\ ret = False \/ state[c] = "Unresolvable"
              /\ Return(False) /\ UNCHANGED <<state, aborted>>
           \/ /\ ret # False /\ state[c] = "Resolved"
              /\ Return(True) /\ UNCHANGED <<state, aborted>>
           \/ /\ ret # False /\ state[c] = "Resolving"
              /\ SetState(c, "Unresolvable") /\ Return(False) /\ UNCHANGED aborted
           \/ /\ ret # False /\ state[c] = "Initialized"
              /\ WorkOn(c)
              /\ Continue([Top EXCEPT !.at = "deps", !.todo = Dependencies(c)])
              /\ UNCHANGED aborted
           \/ /\ ret # False /\ state[c] = "Initializing"
              /\ aborted' = TRUE /\ UNCHANGED <<state, stack, ret>>
        /\ found' = IF aborted' THEN found ELSE Noted(ret')
        /\ met' = IF aborted' THEN met ELSE Met(ret')
        /\ UNCHANGED <<prog, defVars, imported, round, errors>>

(* The next of a list, among the members of S. *)
NextOf(list, S) == {d \in S : list # <<>> /\ d = Head(list)}

ResolveNext ==
    /\ Top.fun = "resolve" /\ Top.at = "deps" /\ ret # False
    /\ \E callee \in {ResolveCall(c, TRUE) : c \in NextOf(Top.todo, Classes)}
                         \cup {DefCall(d) : d \in NextOf(Top.todo, Defs)} :
         Call([Top EXCEPT !.todo = Tail(@)], callee)
    /\ UNCHANGED <<prog, state, defVars, imported, found, met, round, errors, aborted>>

(* The sets of functions, kept by name: in any order. *)
ResolveFuns ==
    /\ Top.fun = "resolve" /\ Top.at = "deps" /\ ret # False /\ Top.todo = <<>>
    /\ \E order \in SetToSeqs(ToSet(DefsOf(Top.def, "fun"))) :
         Continue([Top EXCEPT !.at = "funs", !.todo = order])
    /\ UNCHANGED <<prog, state, defVars, imported, found, met, round, errors, aborted>>

ResolveFun ==
    /\ Top.fun = "resolve" /\ Top.at = "funs" /\ ret # False
    /\ \E d \in NextOf(Top.todo, Defs) : Call([Top EXCEPT !.todo = Tail(@)], DefCall(d))
    /\ UNCHANGED <<prog, state, defVars, imported, found, met, round, errors, aborted>>

ResolveFail ==
    /\ Top.fun = "resolve" /\ Top.at \in {"deps", "funs"} /\ ret = False
    /\ SetState(Top.def, "Unresolvable")
    /\ Return(False)
    /\ UNCHANGED <<prog, defVars, imported, found, met, round, errors, aborted>>

(* check_bitsize (see ClassLayout) passes; the values are to be given. *)
ResolveDone ==
    /\ Top.fun = "resolve" /\ Top.at = "funs" /\ ret # False /\ Top.todo = <<>>
    /\ SetState(Top.def, "Resolved")
    /\ Continue([Top EXCEPT !.at = "values", !.todo = Properties(Top.def), !.unions = {}])
    /\ UNCHANGED <<prog, defVars, imported, found, met, round, errors, aborted>>

-----------------------------------------------------------------------------
(* ClassResolver::init_default_data: every property, own and inherited, is *)
(* given its default value, of those of a union the first alone.           *)

Valuing(at) == Top.fun = "resolve" /\ Top.at = at
NextValue(unions) == [Top EXCEPT !.at = "values", !.todo = Tail(@), !.unions = unions]

ValueNext ==
    /\ Valuing("values") /\ Top.todo # <<>>
    /\ LET d == Head(Top.todo)
       IN  IF d[1] \in Top.unions THEN Continue(NextValue(Top.unions))
           ELSE Call([Top EXCEPT !.at = "prop", !.unions = @ \cup ({d[1]} \cap prog.unions)],
                     DefCall(d))
    /\ UNCHANGED <<prog, state, defVars, imported, found, met, round, errors, aborted>>

(* It has a value, or it cannot be resolved: then it must have one.        *)
ValueGiven ==
    /\ Valuing("prop") /\ Returned
    /\ ret = False \/ Head(Top.todo) \in valued
    /\ aborted' = (Head(Top.todo) \notin valued)
    /\ Continue(NextValue(Top.unions))
    /\ UNCHANGED <<prog, state, defVars, imported, found, met, round, errors>>

(* The initialiser depends on the size of a class. *)
ValueInit ==
    LET d == Head(Top.todo)
    IN  /\ Valuing("prop") /\ Returned /\ ret # False
        /\ d \notin valued /\ Def(d).init # <<>>
        /\ Call([Top EXCEPT !.at = "value"], TypeCall(Def(d).init, d[1], d[2], None, TRUE))
        /\ UNCHANGED <<prog, state, defVars, imported, found, met, round, errors, aborted>>

(* Evaluating the initialiser may have given the value: a second one is    *)
(* not set, an assertion stops the program.                                *)
ValueSet ==
    LET d == Head(Top.todo)
    IN  /\ Returned /\ ret # False
        /\ \/ Valuing("prop") /\ d \notin valued /\ Def(d).init = <<>>
           \/ Valuing("value")
        /\ aborted' = (d \in valued)
        /\ valued' = valued \cup {d}
        /\ Continue(NextValue(Top.unions))
        /\ UNCHANGED <<prog, state, aliased, anc, inh, imported, found, met, round, errors>>

(* The initialiser fails, and the value is needed all the same.            *)
ValueFail ==
    LET d == Head(Top.todo)
    IN  /\ Valuing("value") /\ ret = False
        /\ SetState(d, "Unresolvable")
        /\ aborted' = (d \notin valued)
        /\ Continue(NextValue(Top.unions))
        /\ UNCHANGED <<prog, defVars, imported, found, met, round, errors>>

ValuesDone ==
    /\ Valuing("values") /\ Top.todo = <<>>
    /\ Return(True)
    /\ found' = Noted(True) /\ met' = Met(True)
    /\ UNCHANGED <<prog, state, defVars, imported, round, errors, aborted>>

-----------------------------------------------------------------------------
(* Resolver::resolve of a typedef, property or function *)

(* Mutant: what has been resolved counts as being resolved again. *)
CheckStateOnce(d) == SetState(d, "Unresolvable") /\ Return(False)

(* check_state, of what has been resolved, has failed or is being resolved. *)
CheckState(d) ==
    IF state[d] = "Resolved" THEN Return(aliased[d]) /\ UNCHANGED state
    ELSE SetState(d, "Unresolvable") /\ Return(False)

(* check_state, then the type in the scope at the definition.  A property  *)
(* needs the class it is of resolved, a typedef excludes itself.           *)
DefEnter ==
    LET d == Top.def
        m == Def(d)
    IN  /\ Top.fun = "def" /\ Top.at = "enter"
        /\ IF state[d] # "NotResolved" THEN CheckState(d)
           ELSE /\ WorkOn(d)
                /\ Call([Top EXCEPT !.at = "type"],
                        TypeCall(m.path, d[1], d[2],
                                 IF m.kind = "alias" THEN d ELSE None, m.kind = "prop"))
        /\ UNCHANGED <<prog, defVars, imported, found, met, round, errors, aborted>>

(* apply_array_dims: the size of a class, which has to be resolved. *)
DefDim ==
    LET m == Def(Top.def)
    IN  /\ Top.fun = "def" /\ Top.at = "type" /\ Returned
        /\ ret # NoType /\ m.dim # <<>>
        /\ Call([Top EXCEPT !.at = "dim", !.type = ret],
                TypeCall(m.dim, Top.def[1], Top.def[2], None, TRUE))
        /\ UNCHANGED <<prog, state, defVars, imported, found, met, round, errors, aborted>>

DefFail ==
    /\ Top.fun = "def" /\ Returned /\ ret = NoType
    /\ SetState(Top.def, "Unresolvable")
    /\ errors' = (errors \/ Def(Top.def).kind = "fun")
    /\ Return(False)
    /\ UNCHANGED <<prog, defVars, imported, found, met, round, aborted>>

DefDone ==
    LET dim == Top.at = "dim"
    IN  /\ Top.fun = "def" /\ Returned /\ ret # NoType
        /\ dim \/ Def(Top.def).dim = <<>>
        /\ SetState(Top.def, "Resolved")
        /\ aliased' = [aliased EXCEPT ![Top.def] = IF dim THEN ArrayOf(Top.type) ELSE ret]
        /\ Return(aliased'[Top.def])
        /\ UNCHANGED <<prog, anc, inh, valued, imported, found, met, round, errors, aborted>>

-----------------------------------------------------------------------------
(* do_resolve_type_name *)

Name == Top.path[Top.n]

(* do_resolve_type_spec of the first name: a builtin type, a typedef in    *)
(* scope, or the class exported under the name (TypeExport).               *)
TypeBuiltin ==
    /\ Top.fun = "type" /\ Top.at = "spec" /\ ~Returned
    /\ Name = BuiltinInt
    /\ errors' = (errors \/ Len(Top.path) > 1)
    /\ Return(IntType)
    /\ UNCHANGED <<prog, state, defVars, imported, found, met, round, aborted>>

InScope == TypedefInScope(Top.cls, Top.pos, Name, Top.except)

TypeInScope ==
    /\ Top.fun = "type" /\ Top.at = "spec" /\ ~Returned
    /\ Name # BuiltinInt
    /\ \E d \in InScope : Call(Top, DefCall(d))
    /\ UNCHANGED <<prog, state, defVars, imported, found, met, round, errors, aborted>>

TypeInScopeDone ==
    /\ Top.fun = "type" /\ Top.at = "spec" /\ Returned /\ ret # False
    /\ Continue([Top EXCEPT !.at = "prepare", !.type = ret])
    /\ UNCHANGED <<prog, state, defVars, imported, found, met, round, errors, aborted>>

(* Nothing in scope, or a typedef that failed. *)
TypeExport ==
    /\ Top.fun = "type" /\ Top.at = "spec"
    /\ Name # BuiltinInt
    /\ IF Returned THEN ret = False ELSE InScope = {}
    /\ IF Name \in Classes
         THEN /\ imported' = imported \cup {Name}
              /\ Continue([Top EXCEPT !.at = "prepare", !.type = ClassType(Name)])
              /\ UNCHANGED errors
         ELSE FailType /\ UNCHANGED imported
    /\ UNCHANGED <<prog, state, defVars, found, met, round, aborted>>

(* prepare_resolved_type: the class is resolved, that of array items too,  *)
(* or a class is initialised; the first and the last type of the path are. *)
Needed ==
    CASE Top.full /\ Top.type.cls # None     -> {ResolveCall(Top.type.cls, TRUE)}
      [] ~Top.full /\ Top.type.of = "class"  -> {InitCall(Top.type.cls, TRUE)}
      [] OTHER                               -> {}

TypePrepare ==
    /\ Top.fun = "type" /\ Top.at = "prepare" /\ ~Returned
    /\ \E callee \in Needed : Call(Top, callee)
    /\ UNCHANGED <<prog, state, defVars, imported, found, met, round, errors, aborted>>

TypePrepared ==
    /\ Top.fun = "type" /\ Top.at = "prepare"
    /\ IF Returned THEN ret # False ELSE Needed = {}
    /\ IF Top.n = Len(Top.path) THEN Return(Top.type) ELSE Continue([Top EXCEPT !.at = "class"])
    /\ UNCHANGED <<prog, state, defVars, imported, found, met, round, errors, aborted>>

(* "cannot resolve": the class, at the first, the last or a middle name. *)
TypeUnprepared ==
    /\ Top.fun = "type" /\ Top.at \in {"prepare", "class"} /\ ret = False
    /\ FailType
    /\ UNCHANGED <<prog, state, defVars, imported, found, met, round, aborted>>

(* The next name is looked up in the class, which must be initialised. *)
TypeClass ==
    /\ Top.fun = "type" /\ Top.at = "class" /\ ~Returned
    /\ IF Top.type.of = "class"
         THEN Call(Top, InitCall(Top.type.cls, TRUE)) /\ UNCHANGED errors
         ELSE FailType
    /\ UNCHANGED <<prog, state, defVars, imported, found, met, round, aborted>>

NextName == Top.path[Top.n + 1]
AtNext(type) ==
    [Top EXCEPT !.type = type, !.n = @ + 1,
                !.at = IF Top.n + 1 = Len(Top.path) THEN "prepare" ELSE "class"]

TypeMember ==
    LET c == Top.type.cls
        typedef == Typedef(c, NextName)
    IN  /\ Top.fun = "type" /\ Top.at = "class" /\ Returned /\ ret # False
        /\ CASE typedef # {} ->
                  /\ \E d \in typedef : Call([Top EXCEPT !.at = "member"], DefCall(d))
                  /\ UNCHANGED errors
             [] typedef = {} /\ NextName \in Classes \cap ToSet(anc[c]) ->
                  Continue(AtNext(ClassType(NextName))) /\ UNCHANGED errors
             [] OTHER -> FailType
        /\ UNCHANGED <<prog, state, defVars, imported, found, met, round, aborted>>

TypeMemberDone ==
    /\ Top.fun = "type" /\ Top.at = "member" /\ Returned
    /\ IF ret = False THEN Return(NoType) ELSE Continue(AtNext(ret))
    /\ UNCHANGED <<prog, state, defVars, imported, found, met, round, errors, aborted>>

-----------------------------------------------------------------------------
(* Resolver::resolve(Program): every class of the modules is initialised,  *)
(* then rounds resolve the classes found so far, and the rest of those     *)
(* that could be, until a round resolves none.                             *)

Idle == stack = <<>>

(* Mutant: a round takes up what earlier rounds have resolved. *)
RestartRound ==
    [phase |-> "resolve", todo |-> found \cup round.processed, current |-> {},
     good |-> {}, processed |-> round.processed]

StartRound ==
    [phase |-> "resolve", todo |-> found \ round.processed, current |-> {},
     good |-> {}, processed |-> round.processed]

InitModules ==
    /\ Idle /\ round.phase = "modules"
    /\ IF round.k \in DOMAIN prog.listed
         THEN /\ stack' = <<InitCall(prog.listed[round.k], TRUE)>>
              /\ round' = [round EXCEPT !.k = @ + 1]
              /\ UNCHANGED found
         ELSE /\ round' = StartRound
              /\ found' = {}
              /\ UNCHANGED stack
    /\ ret' = Running
    /\ UNCHANGED <<prog, state, defVars, imported, met, errors, aborted>>

(* The classes of a round are kept in a set: any order. *)
ResolveSome ==
    /\ Idle /\ round.phase = "resolve" /\ ~Returned
    /\ \E c \in round.todo :
         /\ stack' = <<ResolveCall(c, FALSE)>>
         /\ round' = [round EXCEPT !.todo = @ \ {c}, !.current = {c}]
    /\ UNCHANGED <<prog, state, defVars, imported, found, met, ret, errors, aborted>>

ResolvedSome ==
    /\ Idle /\ round.phase = "resolve" /\ Returned
    /\ round' = [round EXCEPT !.good = IF ret = False THEN @ ELSE @ \cup round.current]
    /\ ret' = Running
    /\ UNCHANGED <<prog, state, defVars, imported, found, met, stack, errors, aborted>>

(* resolve_rest of every class that was resolved: all its typedefs. *)
ResolveRest ==
    /\ Idle /\ round.phase = "resolve" /\ ~Returned /\ round.todo = {}
    /\ IF round.good = {} THEN round' = [round EXCEPT !.phase = "done"]
       ELSE \E order \in SetToSeqs(round.good) :
              round' = [phase |-> "rest",
                        todo |-> AllDefsOf(order, "alias"),
                        processed |-> round.processed \cup round.good]
    /\ UNCHANGED <<prog, state, defVars, imported, found, met, stack, ret, errors, aborted>>

RestNext ==
    /\ Idle /\ round.phase = "rest"
    /\ IF round.todo # <<>>
         THEN /\ \E d \in NextOf(round.todo, Defs) : stack' = <<DefCall(d)>>
              /\ round' = [round EXCEPT !.todo = Tail(@)]
              /\ UNCHANGED found
         ELSE /\ round' = StartRound
              /\ found' = {}
              /\ UNCHANGED stack
    /\ ret' = Running
    /\ UNCHANGED <<prog, state, defVars, imported, met, errors, aborted>>

-----------------------------------------------------------------------------

Init ==
    /\ prog \in Programs
    /\ state = [d \in Classes \cup Defs |-> "NotResolved"]
    /\ aliased = [d \in Defs |-> NoType]
    /\ anc = [c \in Classes |-> <<>>]
    /\ inh = [c \in Classes |-> <<>>]
    /\ imported = {}
    /\ valued = {}
    /\ found = {}
    /\ met = {}
    /\ round = [phase |-> "modules", k |-> 1, processed |-> {}]
    /\ stack = <<>>
    /\ ret = Running
    /\ errors = FALSE
    /\ aborted = FALSE

InitStep == InitEnter \/ InitParent \/ InitAddParent \/ InitFail \/ InitDone

ResolveStep ==
    \/ ResolveInit \/ ResolveEnter \/ ResolveNext \/ ResolveFuns \/ ResolveFun
    \/ ResolveFail \/ ResolveDone

ValueStep == ValueNext \/ ValueGiven \/ ValueInit \/ ValueSet \/ ValueFail \/ ValuesDone

DefStep == DefEnter \/ DefDim \/ DefFail \/ DefDone

TypeStep ==
    \/ TypeBuiltin \/ TypeInScope \/ TypeInScopeDone \/ TypeExport
    \/ TypePrepare \/ TypePrepared \/ TypeUnprepared
    \/ TypeClass \/ TypeMember \/ TypeMemberDone

Next ==
    /\ ~aborted
    /\ \/ ~Idle /\ (InitStep \/ ResolveStep \/ ValueStep \/ DefStep \/ TypeStep)
       \/ InitModules \/ ResolveSome \/ ResolvedSome \/ ResolveRest \/ RestNext

(* The resolver is a plain computation: it goes on as long as it can. *)
Spec == Init /\ [][Next]_vars /\ WF_vars(Next)
-----------------------------------------------------------------------------

(* A call that is past the check of the state of what it works on. *)
Works(fr, fun, d) ==
    /\ fr.fun = fun /\ fr.def = d
    /\ \/ fun = "init" /\ fr.at # 0
       \/ fun = "resolve" /\ fr.at \in {"deps", "funs"}
       \/ fun = "def" /\ fr.at # "enter"
At(fun, d) == {i \in DOMAIN stack : Works(stack[i], fun, d)}

(* The states guard the recursion (resolver/class.cpp:11-49, check_state): *)
(* no definition is worked on by two calls at once, so that no program,    *)
(* however its classes refer to each other, recurses without end; and what *)
(* is Initializing or Resolving is being worked on, it has not been left   *)
(* behind by a return.                                                     *)
RecursionGuarded ==
    /\ \A c \in Classes :
         /\ Cardinality(At("init", c)) <= 1
         /\ Cardinality(At("resolve", c)) <= 1
         /\ state[c] = "Initializing" <=> At("init", c) # {}
         /\ state[c] = "Resolving" => At("resolve", c) # {}
    /\ \A d \in Defs :
         /\ Cardinality(At("def", d)) <= 1
         /\ state[d] = "Resolving" => At("def", d) # {}

PropsOf(c) == {d \in Defs : Def(d).kind = "prop" /\ d[1] \in {c} \cup ToSet(anc[c])}
DependsOn(c) == ToSet(anc[c]) \cup ({aliased[d].cls : d \in PropsOf(c)} \ {None})

(* The class is being given its default values.                            *)
BeingValued(c) ==
    \E i \in DOMAIN stack : /\ stack[i].fun = "resolve" /\ stack[i].def = c
                           /\ stack[i].at \in {"values", "prop", "value"}

(* A property is typed when it is resolved, and stays so when it is not    *)
(* any more because its initialiser has failed.                            *)
HasType(d) ==
    \/ state[d] = "Resolved"
    \/ state[d] = "Unresolvable" /\ aliased[d] # NoType

(* A resolved class has all that its size is computed from: its ancestors, *)
(* the types of the properties it has from them and the classes these are  *)
(* of are resolved, and do not in turn contain it (do_resolve).  It has    *)
(* all default values but those of unions, unless it is being given them   *)
(* or the program has stopped (init_default_data).                         *)
ResolvedIsComplete ==
    \A c \in Classes : state[c] = "Resolved" =>
        /\ \A d \in PropsOf(c) : HasType(d)
        /\ \A b \in DependsOn(c) : state[b] = "Resolved" /\ c \notin DependsOn(b) /\ b # c
        /\ \A d \in PropsOf(c) : d \in valued \/ d[1] \in prog.unions \/ BeingValued(c) \/ aborted

(* The initialiser of d has failed.                                        *)
InitialiserFails(d) ==
    /\ ~Idle /\ Valuing("value") /\ Head(Top.todo) = d
    /\ ret = False

(* What is resolved stays so and means the same, whatever fails later:     *)
(* code that was given a type or a size keeps using it.  Only a property   *)
(* whose initialiser fails is no longer resolved, and keeps its type.      *)
StaysResolved ==
    \A d \in Classes \cup Defs : state[d] = "Resolved" =>
        /\ state'[d] = "Resolved" \/ (d \in Defs /\ InitialiserFails(d))
        /\ d \in Classes => anc'[d] = anc[d]
        /\ d \in Defs => aliased'[d] = aliased[d]
ResolvedIsFinal == [][StaysResolved]_vars

Done == round.phase = "done"

(* The classes that the types, dimensions and initialisers of c mention.   *)
Mentions(c) ==
    LET paths == {prog.parents[c][i] : i \in DOMAIN prog.parents[c]}
                   \cup {Def(<<c, i>>).path : i \in Members(c)}
                   \cup {Def(<<c, i>>).dim : i \in Members(c)}
                   \cup {Def(<<c, i>>).init : i \in Members(c)}
    IN  (UNION {ToSet(p) : p \in paths}) \cap Classes

(* All that can be reached from c in at most as many steps as there are    *)
(* classes.                                                                *)
Reach(c) ==
    LET step(S) == S \cup UNION {Mentions(d) : d \in S}
        after[k \in 0..Cardinality(Classes)] == IF k = 0 THEN Mentions(c) ELSE step(after[k - 1])
    IN  after[Cardinality(Classes)]

(* The classes an expression may lead to: those that can be reached from a *)
(* class with a dimension or an initialiser.                               *)
HasExpr(c) == \E i \in Members(c) : Def(<<c, i>>).dim # <<>> \/ Def(<<c, i>>).init # <<>>
InExprs == UNION {Reach(c) : c \in {c \in Classes : HasExpr(c)}}

(* The rounds of resolve(Program) reach everything but what expressions    *)
(* alone come across: when nothing failed, every class that is listed or   *)
(* that was met outside of them, in whichever round, is resolved with all  *)
(* its members, and any other is untouched or led to by an expression.     *)
RoundsReachAll ==
    Done /\ (\A d \in Classes \cup Defs : state[d] # "Unresolvable") =>
        \A c \in Classes :
            /\ c \in ToSet(prog.listed) \cup met =>
                 state[c] = "Resolved" /\ \A i \in Members(c) : state[<<c, i>>] = "Resolved"
            /\ state[c] # "NotResolved" => c \in met \/ c \in InExprs

(* A program some definition of which could not be resolved gets an error  *)
(* reported, unless its classes refer to each other in a circle: only      *)
(* going round a circle ends without a report (do_resolve, check_state).   *)
FailureReported ==
    Done /\ ~errors /\ (\E d \in Classes \cup Defs : state[d] = "Unresolvable") =>
        \E c \in Classes : c \in Reach(c)

(* The resolver stops. *)
Terminates == <>(Done \/ aborted)
=============================================================================
