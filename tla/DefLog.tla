------------------------------- MODULE DefLog -------------------------------
(***************************************************************************)
(* What a persistent scope promises: a log of definitions that only grows, *)
(* in which a name is defined at most once.  "A scope state at the point   *)
(* of definition can be later restored from any point"                     *)
(* (libulam/semantic/scope.hpp:160) says that the scope at version w is    *)
(* the first w entries, whatever was appended since.                       *)
(***************************************************************************)
EXTENDS Naturals, Sequences

CONSTANTS Names, Defs

VARIABLE log

Entries == [name : Names, def : Defs]

NamesIn(l) == {l[i].name : i \in DOMAIN l}

Init == log = <<>>

Define(e) ==
    /\ e.name \notin NamesIn(log)
    /\ log' = Append(log, e)

Next == \E e \in Entries : Define(e)

Spec == Init /\ [][Next]_log

=============================================================================
