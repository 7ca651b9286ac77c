----------------------------- MODULE ScopeTable -----------------------------
(***************************************************************************)
(* The symbol table of a persistent scope (PersScope in                    *)
(* libulam/semantic/scope.hpp) as a value, and the operations on it.       *)
(*                                                                         *)
(* A persistent scope keeps, besides its table of symbols, the sequence    *)
(* `changes` of the names defined in it.  The version of a scope is the    *)
(* length of that sequence, and every definition is stamped with the       *)
(* version the scope had just before it was added.  A lookup at version w  *)
(* is final when the definition is older than w: the scope "as it was" at  *)
(* any earlier point can be consulted at any later one.                    *)
(***************************************************************************)
EXTENDS Naturals, Sequences

CONSTANTS
    Names,       \* str_id_t: the identifiers
    Defs,        \* Def objects: types, class templates, function sets, variables, properties
    NoDef,       \* the null Symbol*
    NoVersion    \* NoScopeVersion: a Def that no scope has stamped

ASSUME NoDefAssumption == NoDef \notin Defs
ASSUME NoVersionAssumption == NoVersion \notin Nat

Symbols == [Names -> Defs \cup {NoDef}]

(* What one PersScope holds; stamp is the part of each Def it writes. *)
Tables ==
    [symbols : Symbols,
     stamp   : [Defs -> Nat \cup {NoVersion}],
     changes : Seq(Names)]

EmptyTable ==
    [symbols |-> [n \in Names |-> NoDef],
     stamp   |-> [d \in Defs |-> NoVersion],
     changes |-> <<>>]

Version(t) == Len(t.changes)

Defines(t, n) == t.symbols[n] # NoDef

(* Mutant: a later definition replaces an earlier one. *)
Overwritten(symbols, n, d) == [symbols EXCEPT ![n] = d]

(* unordered_map::emplace: the first definition of a name stays. *)
Emplaced(symbols, n, d) ==
    IF symbols[n] = NoDef THEN [symbols EXCEPT ![n] = d] ELSE symbols

(* The definition do_set looks at: the one in the table afterwards. *)
Settled(t, n, d) == Emplaced(t.symbols, n, d)[n]

(* Mutant: nothing keeps a name from being defined again. *)
CanAlwaysSet(t, n, d) == TRUE

(* ulam_assert(!def->has_scope_version()) in PersScope::do_set. *)
CanSet(t, n, d) == t.stamp[Settled(t, n, d)] = NoVersion

DoSet(t, n, d) ==
    [symbols |-> Emplaced(t.symbols, n, d),
     stamp   |-> [t.stamp EXCEPT ![Settled(t, n, d)] = Version(t)],
     changes |-> Append(t.changes, n)]

(* Mutant: a definition is already visible at its own version. *)
IsFinalAtOnce(t, n, w) ==
    /\ Defines(t, n)
    /\ t.stamp[t.symbols[n]] \in Nat
    /\ t.stamp[t.symbols[n]] <= w

(* PersScope::find: the symbol, final when it is older than version w. *)
IsFinal(t, n, w) ==
    /\ Defines(t, n)
    /\ t.stamp[t.symbols[n]] \in Nat
    /\ t.stamp[t.symbols[n]] < w

(* Mutant: the last change of the scope instead of the view's. *)
NewestChange(t, w) == t.changes[Version(t)]

LastChange(t, w) == t.changes[w]

=============================================================================
