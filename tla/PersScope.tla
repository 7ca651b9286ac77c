----------------------------- MODULE PersScope ------------------------------
(***************************************************************************)
(* One persistent scope (PersScope), the views of it (PersScopeView) and   *)
(* the iterations over it (PersScopeIter), each view and iteration being a *)
(* version of its own that moves independently of the scope.               *)
(***************************************************************************)
EXTENDS ScopeTable

CONSTANTS
    Views,   \* PersScopeView objects that are moved with set_version and sync
    Iters    \* PersScopeIter objects: views that only advance

VARIABLES
    table,     \* the scope
    version,   \* [Views -> version of the view]
    cursor,    \* [Iters -> version of the iterator's view]
    visited,   \* [Iters -> names the iteration has returned so far]
    aborted    \* an assertion has stopped the program

vars == <<table, version, cursor, visited, aborted>>

TypeOK ==
    /\ table \in Tables
    /\ version \in [Views -> Nat]
    /\ cursor \in [Iters -> Nat]
    /\ visited \in [Iters -> Seq(Names)]
    /\ aborted \in BOOLEAN

Init ==
    /\ table = EmptyTable
    /\ version = [v \in Views |-> 0]
    /\ cursor = [i \in Iters |-> 0]
    /\ visited = [i \in Iters |-> <<>>]
    /\ aborted = FALSE

(* Scope::set of a definition the caller has just made. *)
Set(n, d) ==
    /\ table.stamp[d] = NoVersion
    /\ IF CanSet(table, n, d)
         THEN table' = DoSet(table, n, d) /\ UNCHANGED aborted
         ELSE aborted' = TRUE /\ UNCHANGED table
    /\ UNCHANGED <<version, cursor, visited>>

(* PersScopeView::do_set: only a view of the latest version may add. *)
SetThroughView(v, n, d) ==
    /\ table.stamp[d] = NoVersion
    /\ IF version[v] = Version(table) /\ CanSet(table, n, d)
         THEN /\ table' = DoSet(table, n, d)
              /\ version' = [version EXCEPT ![v] = Version(table')]
              /\ UNCHANGED aborted
         ELSE aborted' = TRUE /\ UNCHANGED <<table, version>>
    /\ UNCHANGED <<cursor, visited>>

(* PersScopeView::sync *)
Sync(v) ==
    /\ version' = [version EXCEPT ![v] = Version(table)]
    /\ UNCHANGED <<table, cursor, visited, aborted>>

(* Mutant: set_version_after goes one too far. *)
RestoreFurther(v, d, after) ==
    /\ table.stamp[d] \in Nat
    /\ version' = [version EXCEPT ![v] = table.stamp[d] + (IF after THEN 2 ELSE 0)]
    /\ UNCHANGED <<table, cursor, visited, aborted>>

(* set_version to the point of a definition, or set_version_after it. *)
Restore(v, d, after) ==
    /\ table.stamp[d] \in Nat
    /\ version' = [version EXCEPT ![v] = table.stamp[d] + (IF after THEN 1 ELSE 0)]
    /\ UNCHANGED <<table, cursor, visited, aborted>>

(* PersScope::begin: a view of version 0, not advanced yet. *)
Begin(i) ==
    /\ cursor' = [cursor EXCEPT ![i] = 0]
    /\ visited' = [visited EXCEPT ![i] = <<>>]
    /\ UNCHANGED <<table, version, aborted>>

(* PersScopeView::advance, as PersScopeIter::operator++ calls it. *)
Advance(i) ==
    /\ cursor[i] < Version(table)
    /\ cursor' = [cursor EXCEPT ![i] = @ + 1]
    /\ visited' = [visited EXCEPT ![i] = Append(@, LastChange(table, cursor[i] + 1))]
    /\ UNCHANGED <<table, version, aborted>>

Next ==
    /\ ~aborted
    /\ \/ \E n \in Names, d \in Defs : Set(n, d)
       \/ \E v \in Views, n \in Names, d \in Defs : SetThroughView(v, n, d)
       \/ \E v \in Views : Sync(v)
       \/ \E v \in Views, d \in Defs, after \in BOOLEAN : Restore(v, d, after)
       \/ \E i \in Iters : Begin(i)
       \/ \E i \in Iters : Advance(i)

Spec == Init /\ [][Next]_vars

-----------------------------------------------------------------------------

(* What the scope shows as defined at version w. *)
VisibleAt(w) == {n \in Names : IsFinal(table, n, w)}

(* The first w definitions, whatever has been added since. *)
FirstDefined(w) == {table.changes[k] : k \in 1..w}

(* The scope at version w is made of the first w definitions and of no     *)
(* other: PersScope::find reports a symbol final at w exactly when its     *)
(* name is one of the first w changes (scope.cpp:250-254, 258-265).        *)
PrefixVisible == \A w \in 0..Version(table) : VisibleAt(w) = FirstDefined(w)

(* Every view stays within the scope it shows, so that restoring a version *)
(* and reading the last change never go past the changes recorded          *)
(* (the assertions at view.cpp:53 and scope.cpp:212).                      *)
ViewsInRange ==
    /\ \A v \in Views : version[v] <= Version(table)
    /\ \A i \in Iters : cursor[i] <= Version(table)

(* An iteration over the scope returns the definitions in the order they   *)
(* were made and each of them once, also when definitions are added while  *)
(* it is under way (Module::resolve iterates the scope it resolves).       *)
IterationInOrder ==
    \A i \in Iters : visited[i] = SubSeq(table.changes, 1, cursor[i])

(* "A scope state at the point of definition can be later restored from    *)
(* any point" (scope.hpp:160): no step changes what any existing version   *)
(* of the scope shows for a name, neither the symbol it had nor that the   *)
(* name was not defined yet.                                               *)
Restorable ==
    \A w \in 0..Version(table), n \in Names :
        /\ IsFinal(table', n, w) <=> IsFinal(table, n, w)
        /\ IsFinal(table, n, w) => table'.symbols[n] = table.symbols[n]

VersionsRestorable == [][Restorable]_vars

(* The entries of the abstract log that the table stands for. *)
LogOf(t) == [k \in 1..Len(t.changes) |->
                [name |-> t.changes[k], def |-> t.symbols[t.changes[k]]]]

Abstract == INSTANCE DefLog WITH log <- LogOf(table)

(* The scope, with its views and iterations, implements the log: a set     *)
(* that gets past the assertion of do_set appends one entry under a new    *)
(* name, and every other operation leaves the entries alone.               *)
ImplementsDefLog == Abstract!Spec

=============================================================================
