---------------------------- MODULE ObjectValues ----------------------------
(***************************************************************************)
(* What an object promises, whatever its layout: it is a record of cells,  *)
(* one for each property it has, its class's own or inherited (a union's   *)
(* properties share one).  A write changes the written cell only.  A copy  *)
(* of the object as one of its bases has the base's cells (all of the      *)
(* object's when both are atoms), and assigning such a copy back changes   *)
(* those cells only.                                                       *)
(***************************************************************************)
EXTENDS Naturals

VARIABLES
    cellsOf,     \* [resolved classes -> [their cells -> width in bits]]
    atoms,       \* those of them whose objects are atoms
    objectCls,   \* the class of the object
    object,      \* [cells of the object -> bits], empty before there is one
    copy         \* the same for a copy of it as a base

None == <<>>

classes == <<cellsOf, atoms, objectCls>>

FitsIn(values, cells) ==
    /\ DOMAIN values = DOMAIN cells
    /\ \A x \in DOMAIN cells : values[x] \in [1..cells[x] -> {0, 1}]

Init == cellsOf = None /\ atoms = {} /\ objectCls = 0 /\ object = None /\ copy = None

(* One more class is resolved; what is known of the others stays. *)
Learn ==
    /\ UNCHANGED <<objectCls, object, copy>>
    /\ LET new == cellsOf' old == cellsOf IN
         \A c \in DOMAIN old : c \in DOMAIN new /\ new[c] = old[c]
    /\ atoms = atoms' \cap DOMAIN cellsOf

Create ==
    /\ object = None
    /\ objectCls' \in DOMAIN cellsOf
    /\ FitsIn(object', cellsOf[objectCls'])
    /\ UNCHANGED <<cellsOf, atoms, copy>>

(* At most one cell changes, and none has another width. *)
OneChanges(old, new) ==
    /\ DOMAIN new = DOMAIN old
    /\ \A x \in DOMAIN old : DOMAIN new[x] = DOMAIN old[x]
    /\ \A x, y \in {z \in DOMAIN old : new[z] # old[z]} : x = y

Write ==
    /\ UNCHANGED <<objectCls, copy>>
    /\ OneChanges(object, object')
    /\ UNCHANGED classes

WriteCopy ==
    /\ UNCHANGED <<objectCls, object>>
    /\ OneChanges(copy, copy')
    /\ UNCHANGED classes

CopyAsBase ==
    /\ UNCHANGED <<objectCls, object>>
    /\ LET from == object cells == cellsOf IN
         \E b \in DOMAIN cells :
           /\ DOMAIN cells[b] \subseteq DOMAIN from
           /\ copy' = IF {b, objectCls} \subseteq atoms THEN from
                      ELSE [x \in DOMAIN cells[b] |-> from[x]]
    /\ UNCHANGED classes

AssignBack ==
    /\ UNCHANGED <<objectCls, copy>>
    /\ LET from == copy to == object IN
         /\ DOMAIN from \subseteq DOMAIN to
         /\ object' = [x \in DOMAIN to |-> IF x \in DOMAIN from THEN from[x] ELSE to[x]]
    /\ UNCHANGED classes

Next == Write \/ WriteCopy \/ CopyAsBase \/ AssignBack \/ Create \/ Learn

Spec == Init /\ [][Next]_<<classes, object, copy>>

=============================================================================
