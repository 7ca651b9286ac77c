# A TLA+ model of libulam

libulam is a front end and interpreter for the ULAM language, written in C++. A
program of several modules is preprocessed, lexed and parsed into a syntax tree,
`sema::Init` fills the scopes of its modules and classes, `sema::Resolver` resolves
types, classes and functions on demand, and the evaluator runs code on objects
whose properties are bits. It is a sequential program: what is hard about it is not
threads but definitions that refer to each other in every direction, state that is
looked at in the middle of being computed, and tables that are read long after they
were filled.

Paths are relative to the repository (`src/...` and `libulam/...`).

## Inventory

| Part | State | Operations | Correct when |
| --- | --- | --- | --- |
| Persistent scopes (`semantic/scope*`) | a table of symbols, the sequence of changes, a version stamped on every definition; versions of views and iterations | set, find, view, sync, set_version, advance | any earlier version can be consulted later; an iteration sees each definition once |
| Scopes of modules and classes (`sema/init.cpp`, `sema/visitor.cpp`, `semantic/module.cpp`, `type/class/base.cpp`, `type/class_tpl.cpp`) | a scope for each module, an environment scope of imported and global classes, for each class its own scope, its inherited symbols and a table of members | define, add members, instantiate, import, inherit, merge, look up | a name means what the text says, whatever has been resolved by then |
| Class ancestry and layout (`type/class.cpp`, `type/class/ancestry.cpp`, `type/class/prop.cpp`) | ancestors with their dependencies, offsets, sizes; the bits of objects | init, resolve, check size, load, store, convert | properties do not overlap; conversion to a base and back changes only the base's properties |
| Resolver (`sema/resolver.cpp`, `sema/resolver/class.cpp`) | a state for each definition, the recursion's call stack, the set of classes found | init, resolve, resolve the type of a name, rounds over a program | it stops, resolves all it can, never returns what is half done as done, and reports failures |
| Function sets (`semantic/fun.cpp`, `type/conv.cpp`) | functions by parameter types, what overrides them by class, links to the overridden, conversions | add, merge, add an override, find a match | calls go by dynamic class whatever is resolved first; ambiguity is found |
| Evaluation: control (`sema/eval/visitor.cpp`, `env.cpp`, `funcall.cpp`, `cond.cpp`, `which.cpp`) | stacks of scopes and calls, as-conditions, loop counters | statements, calls, break, continue, return | scopes unwind, limits hold, references do not outlive variables |
| Evaluation: expressions (`expr_visitor.cpp`, `cast.cpp`, `init.cpp`) | values | operators, casts, initialisers | left operand first, consteval is tracked |
| Primitive types (`utils/integer.hpp`, `type/builtin/*`) | none | arithmetic and casts of fixed width | arithmetic saturates, results fit the type, a check and an execution agree |
| Values and bits (`semantic/value*`) | arrays of 64-bit units | read, write, shift, copy | behave as sequences of bits |
| Type registry and operators (`semantic/type.cpp`, `type/ops.cpp`, `semantic/ops.cpp`) | derived types by id | make array, reference; look up operators | one object for one type |
| Lexer, preprocessor (`lex.cpp`, `preproc.cpp`, `src_man.cpp`) | position, stack of sources, current token | scan, push and pop sources, skip to the end of a directive | literals end where they should, tokens know their place, every loop gets on |
| Parser (`parser.cpp`) | the current token and those put back, contexts of expressions, the number of errors | parse, put back, recover | every loop consumes input, nothing is lost or passed over silently |
| Literals and mangling | none | parse numbers and strings, mangle | overflow is found, names are distinct |
| Diagnostics, string pools, syntax tree, debug output | counts of errors, interned strings | | |

How they interact: `Init` fills scopes and makes class objects, whose constructors
take a view of the module's scope; the resolver looks names up through chains of
scopes, calls itself for what it finds, and changes scopes on the way (imports,
instances of templates, inherited names); a class that is resolved fixes its layout;
the evaluator is called by the resolver for constants and array sizes and calls it
for local definitions.

The hazards, each with its line and the properties that would catch it, are in
`PROJECT.json`.

## Plan

1. `ScopeTable`, `DefLog`, `PersScope` and its proofs: every other part looks names
   up in persistent scopes. *Done.*
2. `Scopes`, `ScopeMeaning`: how the scopes are filled, against the meaning of names
   in the text. *Done.*
3. `ClassLayout`, `ObjectValues`: ancestry and layout, against records of values.
   *Done.*
4. `Resolver`, `Resolver_proofs`: the recursion and its states. *Done, without template
   arguments, constants and functions' parameters.*
5. `FunSets`, `FunSets_proofs`: overrides merged along several parents, conversions.
   *Done.* The choice among overloads (`find_match`, `Fun::match`) follows.
6. `EvalCtl`, `EvalMeaning`: scopes and calls unwound by break, continue, return and
   errors, implementing a structured semantics. *Done, without native functions and the
   self of a call.*
7. `PrimOps`, `PrimCasts`, `ExprEval`: arithmetic of primitive types, and expressions
   checked and executed side by side. `BitUnits`, `BitStrings`: bits in units. *Done.*
8. `Lexer`, `Preproc`, and `Tokens`, `Grammar`, `Parser`: progress of every loop, what is
   lost, where it ends. *Done.*
9. Expressions on classes, arrays and strings; initialiser lists.
10. Template arguments and their instances, values of constants.
11. Literals and mangling as pure algorithms.
12. Proofs: for bits, the step simulation; for evaluation, that scopes and calls are
    balanced; for sources, that places and literals are right; for the resolver, that
    resolved classes are complete, its rounds leave out only what expressions come across and only
    circles fail without a report; for classes, that
    ancestries are closed and layouts disjoint. *Done.*

A bounded set of runs is worth keeping: one passing run for each component, and runs
that exhibit a disagreement only where a comment, a message or an assertion states the
opposite.

## Modules

**`ScopeTable`** is the value of one `PersScope`: `symbols` is its `SymbolTable`,
`changes` its `_changes`, `stamp` the `scope_version` that it writes into each
definition. The operations are those of `scope.cpp:188-265`. `SymbolTable::set` is an
`emplace`, so a second definition of a name leaves the first in the table, and
`do_set` then looks at the first: its assertion is `CanSet`.

**`PersScope`** adds views (`PersScopeView`) and iterations (`PersScopeIter`), and
its actions are the operations of the three classes in any order. An assertion that
fails sets `aborted`, after which nothing happens. **`DefLog`** is what a scope
promises, a log of definitions under distinct names, and `PersScope` implements it.

**`Scopes`** is one module of a program. `pass` is the pass of `RecVisitor`; the
actions `VisitDef`, `VisitClass` and `VisitMember` are what `Init` does with a
definition and choose the text as they go, so that the state graph ranges over every
text within the bounds. After the passes, `Instantiate`, `Import`, `InitClass` and
`MergeFunSets` are what the resolver does to scopes, in every order in which it could
be asked to. `PersScope::get` and `BasicScope::get` are `ClassGet` and `BodyGet`.
Classes of other modules (`External`) are given: their members and ancestors are
constants. A template has one parameter and one instance, and the order in which
function sets are merged is any, as they are kept in a hash map. **`ScopeMeaning`**
says from the text alone what a name means at a point, and states the properties.

**`ClassLayout`** initialises classes one after another and resolves them at any
later time. A class's record holds the `Ancestry` list with the dependencies of each
entry, its parents, and the list of all properties; sizes are sums modulo
`BitsizeMod`, as `bitsize_t` is 16 bits wide. One object and a copy of it as a base
are written, converted and assigned back. **`ObjectValues`** is the same object as a
record with a cell for each property. Values other than all zeros and all ones, the
element's id in the header, and default values are left out.

**`Resolver`** has one frame of `stack` for each C++ call that keeps state across
other calls: `ClassResolver::init` and `do_resolve`, `Resolver::resolve` of a
definition, `do_resolve_type_name`. Each action runs from one call or return to the
next. The program is chosen initially from `Programs`. Members of hash maps and
sets of pointers are taken in any order. When a class is `Resolved` its call goes on to
`init_default_data` (`ValueNext` to `ValuesDone`), which gives each property its default value
and evaluates initialisers. Of an expression, a dimension or an initialiser, what matters
is the class whose size it asks for: it is resolved by a `Resolver` made for the expression
(`env().resolver(true)`), and the classes that one notes are thrown away with it (`InExpr`,
`Noted`), so the rounds never hear of them. `found` is the set the rounds start from, `met` what has ever
been in it. Typedefs and constants of modules, the
common base `UrSelf`, template arguments, values of constants, and parameters and
overloads of functions are left out, and `check_bitsize` passes (see `ClassLayout`).

**`FunSets`** follows the functions of one name and one parameter list, which are a key
of `FunSet::_map`; functions of other keys do not affect them. A class declares at most
one, so a function is named by its class. The hierarchy and the declarations are chosen
initially. `Resolve` is the end of `ClassResolver::do_resolve`, `MergeParent` and
`MergeOther` are steps of the two loops of `merge_fsets`, `AddOverride` is one call of
`Fun::add_override`, whose last act is to call itself. `Call` is
`FunSet::find_match(dyn_cls, ...)` where one function matches. Classes are resolved in
any order in which ancestors come first: the resolver takes them from an unordered set
of pointers. Functions declared twice in a class (reported as an error), constructors,
operators (merged the same way) and pure virtual functions are left out.

**`PrimOps`** has the arithmetic of `utils/integer.hpp` and the operators of the five
primitive types; **`PrimCasts`** says which conversions are allowed, what they do and
which of them an operator asks for. A result has a type, a value, whether it is a
constant, and how it ended: a value, a diagnostic, or an assertion. `Unknown` is what a
check has in place of a value. The width of `Integer` is a constant, `int` has one of
its own as the code shifts an `int` where it means an `Integer`.

**`ExprEval`** builds an expression in the order in which the visitor evaluates it,
with a stack of operands, and keeps of each what *checking* it gave and what *executing*
it gave. `PushVariable` and `PushConstant` are names, `Unary`, `Binary`, `Cast`,
`AssignOp`, `IncDecrement`, `OfOperand` are the visits of their nodes, `BeginLogical` to
`EndTernary` the expressions of which a part may be skipped. An operand is a place while
it is an lvalue, read when it is used. Properties are in one unit of storage, next to
each other. The flag `regular` is set until an expression meets one of the known
irregularities below.

**`BitUnits`** is `Bits` and `BitsView`: every operation on units of a constant size, the
last filled up with zeros. **`BitStrings`** is what the class promises, strings of bits
that are read, written, shifted and combined, and `BitUnits` implements it.

**`Tokens`** has the tables of operators, **`Grammar`** one definition for each function
of the parser: the sequence of instructions it executes, from a small set (consume,
save and put back a token, report, skip to one of some tokens, branch, loop, call).
Of a function's locals and result only the facts later steps decide by are kept, such
as whether a node is null or an as-condition. **`Parser`** is the machine that executes
them: a frame for each call of a parse function, the tokens put back, the contexts of
expressions, the count of errors at which `Diag` exits the program. The text is chosen
token by token as it is read, so that the state graph ranges over all texts within the
bounds, and over every point of recovery in them.

**`Lexer`** is `Lex` over a text of characters: a step is a turn of one of its scanning
loops, and what `start` and `complete` write into the token is kept, with lines and
columns. **`Preproc`** adds the stack of sources and the directives: `Deliver` passes a
token on, `BeginDirective` to `FinishDirective` read a directive, `Search` and `GiveUp` are
its recovery, and `load` continues with the tokens of another text. `Overrun` is a read
past the terminating zero, where an assertion stops the program.

**`EvalCtl`** is the evaluator without the values of expressions: `frames` is what
remains to be done, and stands for the C++ stack. Destructors (`leave`, `leavecall`) and
handlers (`try`, `fun`) are frames, so that an exception (`thrown`) takes one frame after
another (`LeaveScope`, `Catch`, `Unwind`). `scopes` and `calls` are the stacks of
`EvalEnv`. A value is the object it refers to, and how many as-conditions have given it
another type. **`EvalMeaning`** gives the same programs a structured meaning, a function
from states to states, without stacks and exceptions.

Operators commented `Mutant:` are plausible mistakes in the definition that follows;
no module uses them. Each property is violated when the one listed for it in
`PROJECT.json` takes the place of that definition.

## Runs

| Run | Checks | Bounds |
| --- | --- | --- |
| `PersScope` | `PrefixVisible`, `ViewsInRange`, `IterationInOrder`, `VersionsRestorable`, `ImplementsDefLog` | three names, four definitions, one view, one iteration: a name is defined again, and views fall behind and are restored |
| `Scopes` | `NamesMeanTheText`, `MembersAgree`, `MeaningsStay` | three definitions in the module of a class, a template, a typedef and a constant, two members in all bodies, two external classes one of which descends from the other, one of whose names a typedef shares |
| `ClassLayout` | `AncestryAddsUp`, `LayoutDisjoint`, `ImplementsValues` | five classes (the common base, a union, a quark, an element, a quark or element), six lists of parents: an ancestor on two paths, one three levels up, an element above an element; atoms of six bits of data, so that some classes do not fit; objects of the last class, made when all are resolved |
| `Resolver` | `RecursionGuarded`, `ResolvedIsComplete`, `RoundsReachAll`, `FailureReported`, `ResolvedIsFinal`, `Terminates` | 671 programs of three classes: parents and properties named directly, through typedefs of other classes and of classes that are being initialised, typedefs that hide classes, dimensions, initialisers that depend on the class, its descendants, others and missing ones, unions, functions, missing names, lists of all classes and of some |
| `FunSets` | `OverridesAgree`, `OverriderIsVirtual`, `CallsDispatch`, `AllMerged` | the common base and four classes in 40 hierarchies with up to two parents each, every choice of plain, virtual or no function: two lines from one base that meet in a class with a class below it |
| `ExprEval` | `FoldingSound`, `CheckedTypeHolds`, `ArithmeticSaturates`, `StoresFaithful` | expressions of up to four leaves and operators on literals, a variable of each type, two neighbouring properties and a constant; `Integer` of five bits, default size three: values at the limits of their type, of the default size and of the machine are met |
| `BitUnits` | `TailIsZero`, `EqualityIsOfBits`, `ImplementsStrings` | two objects of lengths 0, 2 and 5 in units of two bits: none, one and three units, a last unit that is full and one that is not, ranges across one and two borders |
| `Parser` | `NothingLost`, `FailureReported`, `AcceptedIsBalanced`, `AbortsWhere`, `Ends` | fourteen beginnings, each inside the construct it is about, with two to six arbitrary tokens of up to eleven types; two errors (ten in the code) are enough for a text to go on after one and to stop at the next |
| `ParserAsCond` | `AsCondStandsAlone` is violated | conditions of up to seven tokens |
| `FrontEnd` | `LiteralsEnd`, `PlaceIsRight`, `StaysInside`, `ReadToTheEnd` | eight families of texts of three to five arbitrary characters after a beginning: comments and ends of lines, strings, characters, words and operators, each directive, sources that load each other and themselves, three read within each other |
| `Eval` | `ImplementsMeaning`, `UnwindRestores`, `JumpIsCaught` | every statement inside every other one, inside loops, `which` and conditions, with calls inside calls; two turns of a loop (150 in the code), four conditions that may hold |
| `EvalRefToLocal` | `ReturnsLiving` is violated | functions that return a reference to their variable, to their parameter, or a name that is not there |

What they show. `PrefixVisible`, `VersionsRestorable` and `ImplementsDefLog` are the
promise in `scope.hpp:160` that a state of the scope can be restored from any point.
`NamesMeanTheText` says that stamps, views and chains of scopes amount
to a definition of meaning that never mentions a version (`LexicalMeaning`,
`BodyMeaning`, `LocalMeaning` for module scope, class scope and local definitions); it shows that the two
lookups differ only in whether the class's or the module's later definitions win, and
that an inherited name hides a definition of the class that comes after the use.
Names inherited both as an ancestor's and as a member's are excluded
(`Ambiguous`): the code leaves them open in a TODO. `MembersAgree` ties `Class::get`
to lookups in the scope and holds although inherited symbols are in another table.
`AncestryAddsUp` says that lists built incrementally are the closure
of the parents, and sizes their sums, whatever order the parents come in. `LayoutDisjoint` and
`ImplementsValues` cover unions and elements that descend from elements.
`Resolver`'s `FailureReported` excludes circular programs because there, and only there, the
resolver is silent: circular inheritance is accepted without a report.
Three things the model shows of expressions are part of what the properties say:

- A class that is met only in a dimension or an initialiser is not noted for the rounds. It may be
  resolved, but its typedefs may stay unresolved and mistakes in them unreported; `RoundsReachAll`
  is of classes that are listed or met elsewhere, and says that no other class is touched but
  those that a class with an expression leads to (`InExprs`).
- A property whose initialiser fails is set `Unresolvable` though it, and its class, were
  `Resolved` (`resolver.cpp:202`). `ResolvedIsFinal` has this one exception, in which the type
  is kept. `init_default_data` does not look at the result and asks for the value, which
  the assertion at `prop.cpp:46-48` then refuses: the program stops.
- Giving a value may come back to the same property, as in `P { Int x = D.sizeof; } D : P {}`:
  resolving `D` for its size gives `x` a value, and the outer call stops at the assertion at
  `init.cpp:97`, as there is one already.

`ResolvedIsComplete` says that every class has the values of its properties (of a union
only the first is given one) once it is done with them. What the values contain is not modelled,
such as the empty one of a property whose class is still being given its own.

`FoldingSound` and `CheckedTypeHolds` are what the evaluator relies on when it checks a
function's body once and folds what is known: the value is the one that executing gives
in every state of the variables, and the type is the one found. They hold outside the
irregularities, which the model has and the executable shows:

- minus of an unknown `Unsigned` or `Unary` keeps the operand's type when checked, and
  `<<` by an unknown amount is checked as one by a single bit;
- a `Unary` that is not constant meets an assertion when it is narrowed
  (`unary.cpp:15`);
- `&&` and `||` return a left operand that decides them uncast, and compound assignments
  cast to the type of the result, not of the variable;
- sums and products of the default size are not truncated, so that an `Unsigned` can spill
  into its neighbour when it is stored, and a sum of `Unsigned` at 64 bits wraps;
- the least `Int` divided by -1 traps at 64 bits;
- a constant can be assigned to (`expr_visitor.cpp:379`).

`NothingLost` is about the tokens put back; `FailureReported` of `Parser` shows that one
failure is silent, a `which` without cases, which is dropped with the statement around it.
`Ends` holds only thanks to the limit of errors: a `virtual` given twice is reported without
taking a token until the program exits (`parse_class_var_or_fun_def`). `AbortsWhere` lists the eleven functions
in which a text can stop the program, by an assertion or a null pointer. The check that a parameter
list with an ellipsis belongs to a native function never fires. In `FrontEnd`, the exceptions the properties
name are what the code does: a carriage return alone is never got past (`lex.cpp:250`), an
escaped quote in a character falls through to what follows it, a directive without an end
is searched for past the end of the text, and a source that loads itself is pushed again without
limit (`preproc.cpp:178-199`). `MaxDepth` is a bound of the model, more sources than there are, so
only such a source meets it; it then simply stays there, and `ReadToTheEnd` excludes it
by name (`ReadWithinItself`), as a program that reads for ever. A comment at the end of a text keeps the type of the
token before it, and `/*/` is a whole comment.

`ImplementsMeaning` covers the flags that allow break and continue, the update of a `for`
that a continue still runs, the limit of iterations, the conditions that give a name
another type in a branch only, and errors. It includes what the code does with mistakes: a second variable
of a name is ignored, an unknown name is reported before whatever becomes of it, and then `return` and
`if` of it follow a null pointer while a case of a `which` ends the evaluation.

`LinearDispatch` is the meaning of virtual functions where inheritance is single, and
holds although other classes mark and link the same functions. With several parents
less holds, and `FirstBaseDispatches` says how much. The rest is what the model shows
and the executable confirms, though no comment or test states the opposite:

- In `C : A + B`, where all three declare a virtual `f`, a call of `f` on a `C` seen as
  a `B` runs `B.f`, as `C.f` is linked to `A.f` when `B.f` is merged (`fun.cpp:293`).
  If `D : A + B {}` is resolved before, `A.f` is linked to `B.f` and `C.f` is run.
- In `A : X + B`, `X : E`, `B : E`, where `E.f` is virtual and `B.f` overrides it, an
  `A` runs `B.f`; but `C : A {}` runs `E.f`, as `merge_fsets` takes ancestors that are
  no parents in the order they were added, in which `E` is before `B`. `E` may be the
  common base that every class has.
- `C : P + Q`, where `P.f` is plain and `Q.f` virtual, makes `P.f` virtual, for
  classes resolved later only.
- Conversions are not inherited from ancestors that are not named as parents, and are
  inherited from a parent with all it has inherited, methods from the parents'
  own first: with several parents `toInt` and the conversion may be different functions.

Disagreements (`findings`): an as-condition in parentheses is taken as an operand, and the
operator around it is lost, though the parser says that it "cannot be part of other
expression"; a function may return a reference to its own variable, though the evaluator
has a report of it. Both programs behave so in the executable. Others are known and
listed as hazards: a class after a typedef of the same name stops the program; so does the
report of an oversized chain of ancestors, and a parent that needs the size of the class;
an ancestor can be used that is only half initialised; an ancestor made from a template
cannot be named as a comment says. The models contain them, and what the properties say
excludes them by name.

Every bound is a constant of a configuration. `CHECK_DEADLOCK FALSE` is given where
the system stops: after an assertion, when everything is defined or resolved, at the end
of a text or a program, and where a bound on the steps of an expression is reached.

Fairness: `Resolver`, `FunSets`, `Parser` and `Preproc` have weak fairness of `Next`. They
are plain computations on one thread that never waits, so they go on as long as they
have a next step. `Terminates`, `AllMerged`, `Ends` and `ReadToTheEnd` are checked under
it; the other specifications are about safety.

## Proofs

`PersScope_proofs` proves the six properties of `PersScope` for any sets of names,
definitions, views and iterations, from the two assumptions of `ScopeTable`: the null
symbol is not a definition, and "no version" is not a version.

`TypeOK` and `PrefixVisible` are not inductive. The invariant is `IInv`: a definition
in the table has a stamp, the change recorded at that stamp has the name it is found
under, and each change has a symbol stamped with its position, so that versions,
changes and symbols correspond one to one. `SetIsDefinition` shows that a set that
gets past the assertion of `do_set` is a definition of a new name by a new
definition; `SetKeepsTable` and `GrowthKeepsPrefix` that such a step keeps the
invariant and every earlier prefix; `NextIInv` has a step for each action. From the
invariant follow the five state properties and, with `StepRestorable`, the action
property `VersionsRestorable`. `ScopeImplementsLog` maps a table to the entries that
its changes and symbols make and shows, with `LogOfDefinition`, that a definition
appends one entry and every other step stutters.

`FunSets_proofs` proves `OverridesAgree`, `OverriderIsVirtual` and `OwnViewAgrees`, a part
of `CallsDispatch`, of `FunSets` for any set of classes and any
hierarchies that have what `Ancestry` promises (`HierarchiesAssumption`: parents are
ancestors, ancestors are transitive, no class is its own). `OverridesAgree` and
`OverriderIsVirtual` are not inductive: the invariant adds that whatever is linked or in a table is virtual (`LinksAreVirtual`), that
`add_override` is always called for the function of the class's own set
(`ClimbsForTheSet`), that a class keeps its own function (`OwnKept`), and that once
one of the virtual functions of the ancestors has been merged the class's own is
virtual or about to be entered (`Overriding`). `MergeFunStep` treats the merge of one
function for both loops; then there is a lemma for each action. `OwnView` follows from
`OverridesAgree`. The assertions of `add_override` therefore never fail, also where its
comment expects an override to be entered twice.

`Resolver_proofs` proves `RecursionGuarded`, `ResolvedIsFinal`, `ResolvedIsComplete`,
`RoundsReachAll` and `FailureReported` of `Resolver` for any classes and any programs of them. The
assumptions (`NamesAssumption`, `ClassesAssumption`, `ProgramsAssumption`) say that names of builtin
types are not classes, that there are finitely many classes, that a program lists classes, that the
members of a class are a list, that only properties have initialisers, and that a class
is not one of the members; nothing is
assumed of how classes refer to each other. `RecursionGuarded` is not inductive: a call
that finds its definition free has to know that no call below works on it. The invariant
`IInv` adds that what a call works on is `Initializing`, or `Resolving` or found
`Unresolvable` meanwhile (`Marked`), that a definition has one call of each kind at most
(`Single`), and that a call that has looked at nothing yet is the last one, with no result
for it (`Stacked`), so that `DefDone` and `DefFail` only end what was begun. `Continues`, `Calls`,
`Returns` and `Starts` say what each way to change the stack does to the calls that
work on a definition; `GoesOn`, `GoesBack`, `Begins`, `Ends` and `GivesUp` are the five
kinds of steps, and each action is one of them, except `InitAddParent`. That no
definition goes back from `Resolved` is shown along with it: `Ends` needs `Marked`, for what
is worked on is not resolved yet. The one that does, a property whose initialiser fails, is the
exception of `ResolvedIsFinal`, so later invariants do not rest on the state of a definition but on its type:
what has one is not worked on any more (`TInv`) and keeps it (`StaysTyped`).

`ResolvedIsComplete` relates what a call has returned to what its caller then relies on, so its
invariant `WInv` says how far each waiting call is. A call that resolves a class has resolved
what the class needs (`Needs`: ancestors and properties, then functions), but for what is still on
its list and what the call above it will have resolved when that does not fail (`Progress`,
`Answered`). A property's call waits for the look-up of its type, which
waits for the class of the type to be resolved (`Asks`); what comes back is what was
waited for (`Served`), and so what a property is given is settled (`PropsSettled`). That nothing
resolved contains itself (`ClassesWhole`) needs no order of the classes: what a class
depends on was resolved before it was itself, and by `ResolvedIsFinal` still depends on what it
depended on then. What does not get lost again is `Good`: resolved classes, and definitions that have a type.
Default values are a ledger of their own (`VInv`): what a class is `Missing` is on the list of the call
that gives it values, until that returns (`Gives`).

`RoundsReachAll` is a matter of who notes a class that was come across. `NInv` says that only the
first call of a round, and the one that initialises the class of a waiting call, notes nothing
(`Noting`), so that each class that is no longer `NotResolved` has failed, is in `met`, is led to by
an expression, or will be noted by a call that is under way (`Seen`), and that each class in `met` is known to the
rounds, or could not be resolved by them (`Tracked`, `Lost`). A call inside an expression notes
nothing either: `ExprLeads` follows the calls above an expression to show that their classes are in
`InExprs`. `RInv` follows the rounds: which of the
listed classes were looked at (`ModulesSeen`), that the classes of a round have been resolved or
failed when it ends (`RoundResolved`), that the last round leaves nothing to do (`RoundsDone`), and
which typedefs of finished classes are left (`RestDone`). With `WInv` this covers all members: properties
and functions by the class, typedefs by the rounds. The lists of definitions are
recursive functions in the model, and what they contain is proved with `Iteration` of
`Induction_lemmas` (`DefsOfIs`, `AllDefsOfIs`).

`FailureReported` compares what failed with what the text of a class leads to in any number of steps.
`ReachIs` shows that as many steps as there are classes close the set: each step that adds nothing
is the last, and no more classes can be added than there are. It is why the classes must be finitely
many. `DInv` ties the calls to the text: a call reads the text of a class that its caller's leads to,
and of one beyond the caller's own when it resolves a class or follows a member of one, and an expression
is that of a class that has one (`Leads`);
whatever a class is given, types, ancestors and typedefs of these, is of classes it leads to (`Under`).
So a call that finds a class or a member being resolved has come back to a class that leads to itself
(`ClassCircle`, `DefCircle`), with one exception: a typedef that is looked for in scope within its own
class, which then counts as failed for as long as it is being resolved and is looked for again as a
class. `EInv` says that this is all that fails before something is reported (`Blamed`), and
that nothing else is told of it (`FalseOnly`). A typedef of the same name as a class really is
`Unresolvable` for a while in programs that resolve without an error (`HidingPrograms` of
`MCResolver`), and it is its own call that makes it `Resolved` in the end. A failing initialiser
needs a look-up that returned nothing, which `FalseOnly` rules out (`ValueStepBlames`).

`EvalCtl_proofs` proves `UnwindRestores` and `JumpIsCaught` for any program: the model
takes its statements (`Statements`) and names (`Names`) as constants, and what is assumed
of the programs (`StatementsAssumption`, `ProgramsAssumption`) is what the parser and the
type `Statements` give: each
statement is of one of the kinds, and its parts are statements. How deep statements nest is not
bounded. The invariant is a ledger: each frame of the evaluator that owes a scope, a level or a call
says what it found when it began, and what the stacks hold now is what the frames
below the last one owe. A jump, a return or an error only ever removes frames from the top,
each of which puts back what it owes (the destructors of `scope_raii`), so what is left
is balanced again.

`Induction_lemmas` has what the other proofs need of induction, without an operator as a
parameter: induction over a set of numbers (`SetInduction`), a function defined
by iteration as a set of its steps and results, and a least element of a set of numbers.

`BitUnits_proofs` proves `TailIsZero` and `EqualityIsOfBits`, and that `BitUnits` implements
`BitStrings`, for any size of a unit, any names and any lengths. The loops over units
are recursive functions, so the proofs go by `SetInduction` over the number of units done. The invariant is that
a string of bits has as many units as its length needs, each below two to the power
of its size, with zeros behind the length. `TailIsZero` is half of it, and it is what lets
`operator==` compare units: bits nobody can read would otherwise tell apart equal strings.
Each operation is then the one of `BitStrings`, bit by bit.

`ClassLayout_proofs` proves `AncestryAddsUp` and `LayoutDisjoint` for any number of classes, any
properties and any lists of parents. Nothing is assumed of the hierarchy but that a class names
classes initialised before it, which is a guard of `InitClass` (and circular inheritance never
gets there). `add` of `Ancestry` is a recursion over lists inside a recursion over
classes; both are recursive functions, whose proofs go by `Iteration` and by `SetInduction`
on the number of the class. The invariant says four things. Every list is a `Family`
(`Built`): each entry is a parent, the common base, or in the dependencies of
exactly one entry before it (`Sound`, `PulledIn`); it has the ancestors of each of its members;
and it is contained in every set of classes that is closed under parents (`Least`), which with
the former makes it the set `Above`. `Growing` is what adding one class does to such a list: it
extends it by that class and what only that class pulls in. The common base is in the list of every class
that may have it (`Based`), without which the list of a parent would not be closed. `Collected`
says that every property of the classes above is listed once, `Fitted` that a resolved class is no larger
than it may be. Sizes that were `added` are then a sum over the list regrouped by families, and equal the
sum in order modulo the width of a size, wrapped or not. Layout is different: ranges
of bits are disjoint because partial sums increase, which is so only while nothing wraps, and
`LayoutDisjoint` says so. A class of 65536 bits or more passes `check_bitsize` as a small one.

`Preproc_proofs` proves `PlaceIsRight`, `StaysInside` and `LiteralsEnd` for any texts of the
characters that `Lexer` tells apart (`TextsAssumption`) and any chains of `load` and
`use`. The invariant `IInv` says of each source that is being read that it stays inside of its
text, that its count of lines is the number of ends of lines before the start of the line
(`Counts`), and that what is noted as the start of a line is one, or lies where nobody has read yet
(`Noted`). `LiteralsEnd` needs to know whether a quote is escaped: `Reading` follows the escapes
from the opening quote, and `EndsRight` says where that stops. What makes the proof long is
that `lex` of a directive goes on in a text that has ended: an unnoted text can only be
left by a `load` whose type was kept from the token before (`Stuck`). A character in
single quotes is left out of `LiteralsEnd`, since the lexer does not treat an escaped quote in it.

Model-checked only: `Scopes`, `ExprEval`, `Parser`, the meaning of programs, and of `ClassLayout`
that objects behave as records (`ImplementsValues`).
Of `FunSets`, what depends on where declarations are in the
hierarchy (the rest of `CallsDispatch`). `ScopeMeaning` and `EvalMeaning` define
what names and programs mean with recursive operators, which
the prover does not take. `NothingLost`, `AcceptedIsBalanced` and the other properties of `Parser`
depend on every function of the grammar, one by one, and TLC's texts meet them all.
`Terminates`, `AllMerged`, `Ends` and `ReadToTheEnd` are liveness, which the prover does not do.

## Not modelled

- Numbers, characters and strings as values, and mangled names: conversions of text.
- Template arguments, values of constants, parameters of functions and what default values contain
  in the resolver;
  the choice among overloads; constructors; native functions; the self and the effective
  class of a call; evaluation without execution (`eval_noexec`), which nothing calls.
- Expressions on classes, arrays and strings, and initialiser lists.
- Of `Bits`, hexadecimal output, and `BitsView::empty`, which nothing calls.
- The type registry and the tables of operators: maps with one entry for each key.
- The search for files, numbers of language versions, formatting of diagnostics, string pools, the
  syntax tree and debug output: data or text without behaviour of their own.

`PROJECT.json` says for each part how far it is modelled.
