-------------------------- MODULE PersScope_proofs --------------------------
(***************************************************************************)
(* Proofs that a persistent scope can be restored at every version, for    *)
(* any names, definitions, views and iterations.                           *)
(***************************************************************************)
EXTENDS PersScope, TLAPS

(* The k-th change is a defined name whose definition carries stamp k-1.   *)
Numbered(t) ==
    \A k \in 1..Len(t.changes) :
        /\ t.symbols[t.changes[k]] # NoDef
        /\ t.stamp[t.symbols[t.changes[k]]] = k - 1

(* Every defined name is recorded at the place its stamp tells.            *)
Placed(t) ==
    \A n \in Names : t.symbols[n] # NoDef =>
        /\ t.stamp[t.symbols[n]] \in 0..(Len(t.changes) - 1)
        /\ t.changes[t.stamp[t.symbols[n]] + 1] = n

(* A stamp is always a version the scope has passed. *)
StampsPassed(t) ==
    \A d \in Defs : t.stamp[d] \in Nat => t.stamp[d] < Len(t.changes)

TableInv(t) == Numbered(t) /\ Placed(t) /\ StampsPassed(t)

(* The inductive invariant: the table and the sequence of changes number   *)
(* the same definitions, and views and iterations stay inside it.          *)
IInv == TypeOK /\ TableInv(table) /\ ViewsInRange /\ IterationInOrder

-----------------------------------------------------------------------------

(* A definition that passes do_set's assertion is one of a new name: its   *)
(* effect is to add the symbol, stamp it with the old version and record   *)
(* the name.                                                               *)
LEMMA SetIsDefinition ==
    ASSUME NEW t \in Tables, TableInv(t),
           NEW n \in Names, NEW d \in Defs,
           t.stamp[d] = NoVersion, CanSet(t, n, d)
    PROVE  /\ t.symbols[n] = NoDef
           /\ DoSet(t, n, d) =
                [symbols |-> [t.symbols EXCEPT ![n] = d],
                 stamp   |-> [t.stamp EXCEPT ![d] = Len(t.changes)],
                 changes |-> Append(t.changes, n)]
<1>1. t.symbols[n] = NoDef
  <2>1. SUFFICES ASSUME t.symbols[n] # NoDef PROVE FALSE
    OBVIOUS
  <2>2. Settled(t, n, d) = t.symbols[n]
    BY <2>1 DEF Settled, Emplaced
  <2>3. t.stamp[t.symbols[n]] \in Nat
    BY <2>1 DEF TableInv, Placed, Tables
  <2>4. QED
    BY <2>2, <2>3, NoVersionAssumption DEF CanSet
<1>2. Emplaced(t.symbols, n, d) = [t.symbols EXCEPT ![n] = d]
  BY <1>1 DEF Emplaced
<1>3. Settled(t, n, d) = d
  BY <1>2 DEF Settled, Tables, Symbols
<1>4. QED
  BY <1>1, <1>2, <1>3 DEF DoSet, Version

(* A definition keeps the table well numbered and well typed. *)
LEMMA SetKeepsTable ==
    ASSUME NEW t \in Tables, TableInv(t),
           NEW n \in Names, NEW d \in Defs,
           t.stamp[d] = NoVersion, CanSet(t, n, d)
    PROVE  DoSet(t, n, d) \in Tables /\ TableInv(DoSet(t, n, d))
<1> DEFINE u == DoSet(t, n, d)
<1>1. /\ t.symbols[n] = NoDef
      /\ u = [symbols |-> [t.symbols EXCEPT ![n] = d],
              stamp   |-> [t.stamp EXCEPT ![d] = Len(t.changes)],
              changes |-> Append(t.changes, n)]
  BY SetIsDefinition
<1> HIDE DEF u
<1>t. /\ t.symbols \in [Names -> Defs \cup {NoDef}]
      /\ t.stamp \in [Defs -> Nat \cup {NoVersion}]
      /\ t.changes \in Seq(Names)
  BY DEF Tables, Symbols
<1>u. /\ u.symbols = [t.symbols EXCEPT ![n] = d]
      /\ u.stamp = [t.stamp EXCEPT ![d] = Len(t.changes)]
      /\ u.changes = Append(t.changes, n)
  BY <1>1
<1>2. u \in Tables
  BY <1>1, <1>t DEF Tables, Symbols
<1>3. Len(u.changes) = Len(t.changes) + 1 /\ u.changes[Len(t.changes) + 1] = n
  BY <1>u, <1>t
<1>4. \A k \in 1..Len(t.changes) : u.changes[k] = t.changes[k] /\ t.changes[k] \in Names
  BY <1>u, <1>t
<1>5. \A m \in Names : t.symbols[m] # NoDef => t.symbols[m] # d /\ m # n
  <2>1. SUFFICES ASSUME NEW m \in Names, t.symbols[m] # NoDef, t.symbols[m] = d
                 PROVE  FALSE
    BY <1>1
  <2>2. t.stamp[d] \in Nat
    BY <2>1, <1>t DEF TableInv, Placed
  <2>3. QED
    BY <2>2, NoVersionAssumption
<1>6. Numbered(u)
  <2>1. SUFFICES ASSUME NEW k \in 1..Len(u.changes)
                 PROVE  /\ u.symbols[u.changes[k]] # NoDef
                        /\ u.stamp[u.symbols[u.changes[k]]] = k - 1
    BY DEF Numbered
  <2>2. CASE k = Len(t.changes) + 1
    BY <2>2, <1>3, <1>u, <1>t, NoDefAssumption
  <2>3. CASE k \in 1..Len(t.changes)
    <3> DEFINE m == t.changes[k]
    <3>1. m \in Names /\ u.changes[k] = m
      BY <2>3, <1>4
    <3>2. t.symbols[m] # NoDef /\ t.stamp[t.symbols[m]] = k - 1
      BY <2>3 DEF TableInv, Numbered
    <3>3. t.symbols[m] # d /\ m # n /\ t.symbols[m] \in Defs
      BY <3>1, <3>2, <1>5, <1>t
    <3>4. u.symbols[m] = t.symbols[m] /\ u.stamp[t.symbols[m]] = t.stamp[t.symbols[m]]
      BY <3>1, <3>3, <1>u, <1>t
    <3>5. QED
      BY <3>1, <3>2, <3>4
  <2>4. QED
    BY <2>1, <2>2, <2>3, <1>3, <1>t
<1>7. Placed(u)
  <2>1. SUFFICES ASSUME NEW m \in Names, u.symbols[m] # NoDef
                 PROVE  /\ u.stamp[u.symbols[m]] \in 0..(Len(u.changes) - 1)
                        /\ u.changes[u.stamp[u.symbols[m]] + 1] = m
    BY DEF Placed
  <2>2. CASE m = n
    BY <2>2, <1>3, <1>u, <1>t
  <2>3. CASE m # n
    <3>1. u.symbols[m] = t.symbols[m] /\ t.symbols[m] # NoDef
      BY <2>1, <2>3, <1>u, <1>t
    <3>2. t.symbols[m] # d /\ t.symbols[m] \in Defs
      BY <3>1, <1>5, <1>t
    <3>3. /\ t.stamp[t.symbols[m]] \in 0..(Len(t.changes) - 1)
          /\ t.changes[t.stamp[t.symbols[m]] + 1] = m
      BY <3>1 DEF TableInv, Placed
    <3>4. u.stamp[u.symbols[m]] = t.stamp[t.symbols[m]]
      BY <3>1, <3>2, <1>u, <1>t
    <3>5. t.stamp[t.symbols[m]] + 1 \in 1..Len(t.changes)
      BY <3>3, <1>t
    <3>6. u.changes[t.stamp[t.symbols[m]] + 1] = m
      BY <3>3, <3>5, <1>4
    <3>7. t.stamp[t.symbols[m]] \in 0..(Len(u.changes) - 1)
      BY <3>3, <1>3, <1>t
    <3>8. QED
      BY <3>4, <3>6, <3>7
  <2>4. QED
    BY <2>2, <2>3
<1>8. StampsPassed(u)
  <2>1. SUFFICES ASSUME NEW e \in Defs, u.stamp[e] \in Nat
                 PROVE  u.stamp[e] < Len(u.changes)
    BY DEF StampsPassed
  <2>2. CASE e = d
    BY <2>2, <1>u, <1>3, <1>t
  <2>3. CASE e # d
    <3>1. u.stamp[e] = t.stamp[e]
      BY <2>3, <1>u, <1>t
    <3>2. t.stamp[e] < Len(t.changes)
      BY <3>1, <2>1 DEF TableInv, StampsPassed
    <3>3. QED
      BY <3>1, <3>2, <2>1, <1>3, <1>t
  <2>4. QED
    BY <2>2, <2>3
<1>9. QED
  BY <1>2, <1>6, <1>7, <1>8 DEF TableInv, u

-----------------------------------------------------------------------------

(* The set a view or the scope itself performs, as one fact about Next:    *)
(* the table changes only by a definition that passes the assertion.       *)
LEMMA TableChanges ==
    ASSUME IInv, [Next]_vars
    PROVE  \/ table' = table
           \/ \E n \in Names, d \in Defs :
                 table.stamp[d] = NoVersion /\ CanSet(table, n, d) /\ table' = DoSet(table, n, d)
<1>1. CASE UNCHANGED vars
  BY <1>1 DEF vars
<1>2. ASSUME NEW n \in Names, NEW d \in Defs, Set(n, d)
      PROVE  table' = table \/ (table.stamp[d] = NoVersion /\ CanSet(table, n, d) /\ table' = DoSet(table, n, d))
  BY <1>2 DEF Set
<1>3. ASSUME NEW v \in Views, NEW n \in Names, NEW d \in Defs, SetThroughView(v, n, d)
      PROVE  table' = table \/ (table.stamp[d] = NoVersion /\ CanSet(table, n, d) /\ table' = DoSet(table, n, d))
  BY <1>3 DEF SetThroughView
<1>4. QED
  BY <1>1, <1>2, <1>3 DEF Next, Sync, Restore, Begin, Advance

(* A definition only adds to what the scope has recorded. *)
LEMMA SetExtends ==
    ASSUME IInv, NEW n \in Names, NEW d \in Defs,
           table.stamp[d] = NoVersion, CanSet(table, n, d)
    PROVE  LET u == DoSet(table, n, d)
           IN  /\ u \in Tables /\ TableInv(u)
               /\ table.symbols[n] = NoDef
               /\ Len(u.changes) = Len(table.changes) + 1
               /\ u.changes[Len(table.changes) + 1] = n
               /\ \A k \in 1..Len(table.changes) : u.changes[k] = table.changes[k]
               /\ \A m \in Names : table.symbols[m] # NoDef =>
                     u.symbols[m] = table.symbols[m] /\ u.stamp[u.symbols[m]] = table.stamp[table.symbols[m]]
               /\ u.symbols[n] = d
               /\ \A m \in Names \ {n} : u.symbols[m] = table.symbols[m]
               /\ u.stamp[d] = Len(table.changes)
<1> DEFINE u == DoSet(table, n, d)
<1>1. table \in Tables /\ TableInv(table)
  BY DEF IInv, TypeOK
<1>2. u \in Tables /\ TableInv(u)
  BY <1>1, SetKeepsTable
<1>3. /\ table.symbols[n] = NoDef
      /\ u.symbols = [table.symbols EXCEPT ![n] = d]
      /\ u.stamp = [table.stamp EXCEPT ![d] = Len(table.changes)]
      /\ u.changes = Append(table.changes, n)
  BY <1>1, SetIsDefinition
<1> HIDE DEF u
<1>t. /\ table.symbols \in [Names -> Defs \cup {NoDef}]
      /\ table.stamp \in [Defs -> Nat \cup {NoVersion}]
      /\ table.changes \in Seq(Names)
  BY <1>1 DEF Tables, Symbols
<1>4. ASSUME NEW m \in Names, table.symbols[m] # NoDef
      PROVE  u.symbols[m] = table.symbols[m] /\ u.stamp[u.symbols[m]] = table.stamp[table.symbols[m]]
  <2>1. table.symbols[m] \in Defs /\ table.stamp[table.symbols[m]] \in Nat
    BY <1>4, <1>1, <1>t DEF TableInv, Placed
  <2>2. table.symbols[m] # d
    BY <2>1, NoVersionAssumption
  <2>3. QED
    BY <1>4, <2>1, <2>2, <1>3, <1>t
<1>5. /\ Len(u.changes) = Len(table.changes) + 1
      /\ u.changes[Len(table.changes) + 1] = n
      /\ \A k \in 1..Len(table.changes) : u.changes[k] = table.changes[k]
  BY <1>3, <1>t
<1>6. /\ u.symbols[n] = d
      /\ \A m \in Names \ {n} : u.symbols[m] = table.symbols[m]
      /\ u.stamp[d] = Len(table.changes)
  BY <1>3, <1>t
<1>7. QED
  BY <1>2, <1>3, <1>4, <1>5, <1>6 DEF u

LEMMA InitIInv == Init => IInv
<1> SUFFICES ASSUME Init PROVE IInv
  OBVIOUS
<1>1. table = EmptyTable /\ Len(table.changes) = 0
  BY DEF Init, EmptyTable
<1>2. table \in Tables
  <2>1. [n \in Names |-> NoDef] \in Symbols
    BY DEF Symbols
  <2>2. [d \in Defs |-> NoVersion] \in [Defs -> Nat \cup {NoVersion}]
    OBVIOUS
  <2>3. <<>> \in Seq(Names)
    OBVIOUS
  <2>4. QED
    BY <1>1, <2>1, <2>2, <2>3 DEF EmptyTable, Tables
<1>3. TypeOK
  <2>1. version \in [Views -> Nat] /\ cursor \in [Iters -> Nat] /\ aborted \in BOOLEAN
    BY DEF Init
  <2>2. [i \in Iters |-> <<>>] \in [Iters -> Seq(Names)]
    <3>1. <<>> \in Seq(Names)
      OBVIOUS
    <3>2. QED
      BY <3>1
  <2>3. QED
    BY <1>2, <2>1, <2>2 DEF Init, TypeOK
<1>4. TableInv(table)
  <2>1. Numbered(table)
    BY <1>1 DEF Numbered
  <2>2. Placed(table)
    BY <1>1 DEF Placed, EmptyTable
  <2>3. StampsPassed(table)
    BY <1>1, NoVersionAssumption DEF StampsPassed, EmptyTable
  <2>4. QED
    BY <2>1, <2>2, <2>3 DEF TableInv
<1>5. ViewsInRange
  BY <1>1 DEF Init, ViewsInRange, Version
<1>6. IterationInOrder
  BY <1>1 DEF Init, IterationInOrder, EmptyTable
<1>7. QED
  BY <1>3, <1>4, <1>5, <1>6 DEF IInv

(* What an iteration has visited stays the prefix it was when the scope    *)
(* grows.                                                                  *)
LEMMA GrowthKeepsPrefix ==
    ASSUME IInv, NEW n \in Names, NEW d \in Defs,
           table.stamp[d] = NoVersion, CanSet(table, n, d),
           NEW i \in Iters
    PROVE  SubSeq(DoSet(table, n, d).changes, 1, cursor[i]) = SubSeq(table.changes, 1, cursor[i])
<1>1. table \in Tables /\ TableInv(table) /\ table.changes \in Seq(Names)
  BY DEF IInv, TypeOK, Tables
<1>2. DoSet(table, n, d).changes = Append(table.changes, n)
  BY DEF DoSet
<1>3. cursor[i] \in Nat /\ cursor[i] <= Len(table.changes)
  BY DEF IInv, TypeOK, ViewsInRange, Version
<1>4. QED
  BY <1>1, <1>2, <1>3

LEMMA NextIInv == IInv /\ [Next]_vars => IInv'
<1> SUFFICES ASSUME IInv, [Next]_vars PROVE IInv'
  OBVIOUS
<1> USE DEF Version
<1>0. /\ table \in Tables /\ table.changes \in Seq(Names)
      /\ version \in [Views -> Nat] /\ cursor \in [Iters -> Nat]
      /\ visited \in [Iters -> Seq(Names)]
      /\ TableInv(table)
  BY DEF IInv, TypeOK, Tables
<1>1. CASE UNCHANGED vars
  BY <1>1 DEF vars, IInv, TypeOK, TableInv, Numbered, Placed, StampsPassed,
              ViewsInRange, IterationInOrder
<1>2. ASSUME NEW n \in Names, NEW d \in Defs, Set(n, d)
      PROVE  IInv'
  <2>1. CASE ~CanSet(table, n, d)
    BY <1>2, <2>1 DEF Set, IInv, TypeOK, TableInv, Numbered, Placed, StampsPassed,
              ViewsInRange, IterationInOrder
  <2>2. CASE CanSet(table, n, d)
    <3>1. table.stamp[d] = NoVersion /\ table' = DoSet(table, n, d)
          /\ UNCHANGED <<version, cursor, visited, aborted>>
      BY <1>2, <2>2 DEF Set
    <3>2. table' \in Tables /\ TableInv(table') /\ Len(table'.changes) = Len(table.changes) + 1
      BY <3>1, <2>2, SetExtends
    <3>3. TypeOK'
      BY <3>1, <3>2 DEF IInv, TypeOK
    <3>4. ViewsInRange'
      BY <3>1, <3>2, <1>0 DEF IInv, ViewsInRange
    <3>5. IterationInOrder'
      BY <3>1, <2>2, GrowthKeepsPrefix DEF IInv, IterationInOrder
    <3>6. TableInv(table)'
      BY <3>2 DEF TableInv, Numbered, Placed, StampsPassed
    <3>7. QED
      BY <3>3, <3>4, <3>5, <3>6 DEF IInv
  <2>3. QED
    BY <2>1, <2>2
<1>3. ASSUME NEW v \in Views, NEW n \in Names, NEW d \in Defs, SetThroughView(v, n, d)
      PROVE  IInv'
  <2>1. CASE ~(version[v] = Version(table) /\ CanSet(table, n, d))
    BY <1>3, <2>1 DEF SetThroughView, IInv, TypeOK, TableInv, Numbered, Placed,
              StampsPassed, ViewsInRange, IterationInOrder
  <2>2. CASE version[v] = Version(table) /\ CanSet(table, n, d)
    <3>1. table.stamp[d] = NoVersion /\ table' = DoSet(table, n, d)
          /\ version' = [version EXCEPT ![v] = Len(table'.changes)]
          /\ UNCHANGED <<cursor, visited, aborted>>
      BY <1>3, <2>2 DEF SetThroughView
    <3>2. table' \in Tables /\ TableInv(table') /\ Len(table'.changes) = Len(table.changes) + 1
      BY <3>1, <2>2, SetExtends
    <3>3. TypeOK'
      <4>1. Len(table'.changes) \in Nat
        BY <3>2, <1>0
      <4>2. version' \in [Views -> Nat]
        BY <4>1, <3>1, <1>0
      <4>3. QED
        BY <4>2, <3>1, <3>2 DEF IInv, TypeOK
    <3>4. ViewsInRange'
      BY <3>1, <3>2, <1>0 DEF IInv, ViewsInRange
    <3>5. IterationInOrder'
      BY <3>1, <2>2, GrowthKeepsPrefix DEF IInv, IterationInOrder
    <3>6. TableInv(table)'
      BY <3>2 DEF TableInv, Numbered, Placed, StampsPassed
    <3>7. QED
      BY <3>3, <3>4, <3>5, <3>6 DEF IInv
  <2>3. QED
    BY <2>1, <2>2
<1>4. ASSUME NEW v \in Views, Sync(v)
      PROVE  IInv'
  BY <1>4, <1>0 DEF Sync, IInv, TypeOK, TableInv, Numbered, Placed, StampsPassed,
                    ViewsInRange, IterationInOrder
<1>5. ASSUME NEW v \in Views, NEW d \in Defs, NEW after \in BOOLEAN, Restore(v, d, after)
      PROVE  IInv'
  <2>1. table.stamp[d] \in Nat /\ table.stamp[d] + 1 <= Len(table.changes)
    BY <1>5, <1>0 DEF Restore, TableInv, StampsPassed
  <2>2. TypeOK' /\ ViewsInRange'
    BY <1>5, <2>1, <1>0 DEF Restore, IInv, TypeOK, ViewsInRange
  <2>3. QED
    BY <1>5, <2>2 DEF Restore, IInv, TableInv, Numbered, Placed, StampsPassed,
                      IterationInOrder
<1>6. ASSUME NEW i \in Iters, Begin(i)
      PROVE  IInv'
  <2>1. SubSeq(table.changes, 1, 0) = <<>>
    BY <1>0
  <2>2. IterationInOrder'
    BY <1>6, <2>1, <1>0 DEF Begin, IInv, IterationInOrder
  <2>3. QED
    BY <1>6, <2>2, <1>0 DEF Begin, IInv, TypeOK, TableInv, Numbered, Placed,
                            StampsPassed, ViewsInRange
<1>7. ASSUME NEW i \in Iters, Advance(i)
      PROVE  IInv'
  <2>1. /\ cursor[i] \in Nat /\ cursor[i] + 1 <= Len(table.changes)
        /\ table.changes[cursor[i] + 1] \in Names
    BY <1>7, <1>0 DEF Advance
  <2>2. Append(SubSeq(table.changes, 1, cursor[i]), table.changes[cursor[i] + 1])
          = SubSeq(table.changes, 1, cursor[i] + 1)
    BY <2>1, <1>0
  <2>3. IterationInOrder'
    BY <1>7, <2>2, <1>0 DEF Advance, LastChange, IInv, IterationInOrder
  <2>4. TypeOK' /\ ViewsInRange'
    BY <1>7, <2>1, <1>0 DEF Advance, LastChange, IInv, TypeOK, ViewsInRange
  <2>5. QED
    BY <1>7, <2>3, <2>4 DEF Advance, IInv, TableInv, Numbered, Placed, StampsPassed
<1>8. QED
  BY <1>1, <1>2, <1>3, <1>4, <1>5, <1>6, <1>7 DEF Next

THEOREM Inductive == Spec => []IInv
BY InitIInv, NextIInv, PTL DEF Spec

(* In every reachable state the variables have their types (the scope's    *)
(* table, PersScope in scope.hpp, and its views and iterations).           *)
THEOREM TypeCorrect == Spec => []TypeOK
BY Inductive, PTL DEF IInv

(* Views and iterations never point past the scope they show: the          *)
(* assertions of view.cpp:53 and scope.cpp:212 cannot fail.                *)
THEOREM ViewsStayInRange == Spec => []ViewsInRange
BY Inductive, PTL DEF IInv

(* An iteration visits the definitions in order and once each, whatever is *)
(* added while it runs (PersScopeIter over a scope being resolved).        *)
THEOREM IterationIsInOrder == Spec => []IterationInOrder
BY Inductive, PTL DEF IInv

-----------------------------------------------------------------------------

LEMMA IInvPrefixVisible == IInv => PrefixVisible
<1> SUFFICES ASSUME IInv, NEW w \in 0..Version(table)
             PROVE  VisibleAt(w) = FirstDefined(w)
  BY DEF PrefixVisible
<1>0. /\ table.symbols \in [Names -> Defs \cup {NoDef}]
      /\ table.changes \in Seq(Names)
      /\ TableInv(table)
      /\ w \in Nat /\ w <= Len(table.changes)
  BY DEF IInv, TypeOK, Tables, Symbols, Version
<1>1. ASSUME NEW n \in VisibleAt(w)
      PROVE  n \in FirstDefined(w)
  <2>1. n \in Names /\ table.symbols[n] # NoDef /\ table.stamp[table.symbols[n]] < w
    BY <1>1 DEF VisibleAt, IsFinal, Defines
  <2>2. /\ table.stamp[table.symbols[n]] \in 0..(Len(table.changes) - 1)
        /\ table.changes[table.stamp[table.symbols[n]] + 1] = n
    BY <2>1, <1>0 DEF TableInv, Placed
  <2>3. table.stamp[table.symbols[n]] + 1 \in 1..w
    BY <2>1, <2>2, <1>0
  <2>4. QED
    BY <2>2, <2>3 DEF FirstDefined
<1>2. ASSUME NEW k \in 1..w
      PROVE  table.changes[k] \in VisibleAt(w)
  <2>1. k \in 1..Len(table.changes) /\ k - 1 \in Nat /\ k - 1 < w
    BY <1>0
  <2>2. table.changes[k] \in Names
    BY <2>1, <1>0
  <2>3. /\ table.symbols[table.changes[k]] # NoDef
        /\ table.stamp[table.symbols[table.changes[k]]] = k - 1
    BY <2>1, <1>0 DEF TableInv, Numbered
  <2>4. QED
    BY <2>1, <2>2, <2>3 DEF VisibleAt, IsFinal, Defines
<1>3. QED
  BY <1>1, <1>2 DEF FirstDefined

(* At every version a scope shows its first definitions and no other, for  *)
(* any names, definitions, views and iterations (PersScope::find).         *)
THEOREM PrefixIsVisible == Spec => []PrefixVisible
BY Inductive, IInvPrefixVisible, PTL

LEMMA StepRestorable == IInv /\ [Next]_vars => Restorable
<1> SUFFICES ASSUME IInv, [Next]_vars,
                    NEW w \in 0..Version(table), NEW m \in Names
             PROVE  /\ IsFinal(table', m, w) <=> IsFinal(table, m, w)
                    /\ IsFinal(table, m, w) => table'.symbols[m] = table.symbols[m]
  BY DEF Restorable
<1>0. w \in Nat /\ w <= Len(table.changes)
  BY DEF IInv, TypeOK, Tables, Version
<1>1. CASE table' = table
  BY <1>1
<1>2. ASSUME NEW n \in Names, NEW d \in Defs,
             table.stamp[d] = NoVersion, CanSet(table, n, d), table' = DoSet(table, n, d)
      PROVE  /\ IsFinal(table', m, w) <=> IsFinal(table, m, w)
             /\ IsFinal(table, m, w) => table'.symbols[m] = table.symbols[m]
  <2>1. CASE table.symbols[m] # NoDef
    <3>1. table'.symbols[m] = table.symbols[m]
          /\ table'.stamp[table'.symbols[m]] = table.stamp[table.symbols[m]]
      BY <1>2, <2>1, SetExtends
    <3>2. QED
      BY <2>1, <3>1 DEF IsFinal, Defines
  <2>2. CASE table.symbols[m] = NoDef /\ m # n
    <3>1. table'.symbols[m] = NoDef
      BY <1>2, <2>2, SetExtends
    <3>2. QED
      BY <2>2, <3>1 DEF IsFinal, Defines
  <2>3. CASE m = n
    <3>1. /\ table.symbols[m] = NoDef /\ table'.symbols[m] = d
          /\ table'.stamp[d] = Len(table.changes)
      BY <1>2, <2>3, SetExtends
    <3>2. ~(table'.stamp[table'.symbols[m]] < w)
      BY <3>1, <1>0
    <3>3. QED
      BY <3>1, <3>2 DEF IsFinal, Defines
  <2>4. QED
    BY <2>1, <2>2, <2>3
<1>3. QED
  BY <1>1, <1>2, TableChanges

(* "A scope state at the point of definition can be later restored from    *)
(* any point" (scope.hpp:160): no step of any scope, view or iteration     *)
(* changes what an existing version shows.                                 *)
THEOREM EveryVersionRestorable == Spec => VersionsRestorable
BY Inductive, StepRestorable, PTL DEF Spec, VersionsRestorable

-----------------------------------------------------------------------------

LEMMA LogOfDefinition ==
    ASSUME IInv, NEW n \in Names, NEW d \in Defs,
           table.stamp[d] = NoVersion, CanSet(table, n, d)
    PROVE  /\ LogOf(DoSet(table, n, d)) = Append(LogOf(table), [name |-> n, def |-> d])
           /\ n \notin Abstract!NamesIn(LogOf(table))
<1> DEFINE u == DoSet(table, n, d)
           L == Len(table.changes)
           e == [name |-> n, def |-> d]
<1>0. /\ table.symbols \in [Names -> Defs \cup {NoDef}]
      /\ table.changes \in Seq(Names) /\ L \in Nat
      /\ TableInv(table)
  BY DEF IInv, TypeOK, Tables, Symbols
<1>1. /\ table.symbols[n] = NoDef
      /\ Len(u.changes) = L + 1 /\ u.changes[L + 1] = n /\ u.symbols[n] = d
      /\ \A k \in 1..L : u.changes[k] = table.changes[k]
      /\ \A m \in Names \ {n} : u.symbols[m] = table.symbols[m]
  BY SetExtends
<1>2. \A k \in 1..L : table.changes[k] \in Names /\ table.changes[k] # n
  BY <1>0, <1>1 DEF TableInv, Numbered
<1> HIDE DEF u
<1>3. LogOf(u) = [k \in 1..(L + 1) |-> [name |-> u.changes[k], def |-> u.symbols[u.changes[k]]]]
  BY <1>1 DEF LogOf
<1>4. LogOf(table) = [k \in 1..L |-> [name |-> table.changes[k], def |-> table.symbols[table.changes[k]]]]
  BY DEF LogOf
<1>5. Append(LogOf(table), e) = [k \in 1..(L + 1) |-> IF k = L + 1 THEN e ELSE LogOf(table)[k]]
  <2>1. LogOf(table) \in Seq([name : Names, def : Defs \cup {NoDef}])
    BY <1>4, <1>2, <1>0
  <2>2. Len(LogOf(table)) = L
    BY <1>4, <1>0, <2>1
  <2>3. QED
    BY <2>1, <2>2, <1>0
<1>6. \A k \in 1..(L + 1) : LogOf(u)[k] = IF k = L + 1 THEN e ELSE LogOf(table)[k]
  BY <1>0, <1>1, <1>2, <1>3, <1>4
<1>7. LogOf(u) = Append(LogOf(table), e)
  BY <1>3, <1>5, <1>6
<1>8. n \notin Abstract!NamesIn(LogOf(table))
  BY <1>2, <1>4, <1>0 DEF Abstract!NamesIn
<1>9. QED
  BY <1>7, <1>8 DEF u

(* The scope implements the abstract log of definitions: a definition that *)
(* gets past the assertion of do_set is appended under a name the log did  *)
(* not have, and nothing else changes the log.                             *)
THEOREM ScopeImplementsLog == Spec => ImplementsDefLog
<1>1. Init => Abstract!Init
  BY DEF Init, EmptyTable, LogOf, Abstract!Init
<1>2. IInv /\ [Next]_vars => [Abstract!Next]_(LogOf(table))
  <2> SUFFICES ASSUME IInv, [Next]_vars
               PROVE  [Abstract!Next]_(LogOf(table))
    OBVIOUS
  <2>1. CASE table' = table
    BY <2>1 DEF LogOf
  <2>2. ASSUME NEW n \in Names, NEW d \in Defs,
               table.stamp[d] = NoVersion, CanSet(table, n, d), table' = DoSet(table, n, d)
        PROVE  Abstract!Next
    <3> DEFINE e == [name |-> n, def |-> d]
    <3>1. e \in Abstract!Entries
      BY DEF Abstract!Entries
    <3>2. Abstract!Define(e)
      BY <2>2, LogOfDefinition DEF Abstract!Define
    <3>3. QED
      BY <3>1, <3>2 DEF Abstract!Next
  <2>3. QED
    BY <2>1, <2>2, TableChanges
<1>3. QED
  BY <1>1, <1>2, Inductive, PTL DEF Spec, ImplementsDefLog, Abstract!Spec

=============================================================================
