------------------------------ MODULE MCFunSets -----------------------------
(* The common base 1 and four classes: enough for two lines that meet in a *)
(* class that has a class below it.                                        *)
EXTENDS FunSets

MCParents ==
    {<<>>} \X {<<>>} \X {<<>>, <<2>>} \X {<<2>>, <<3>>, <<2, 3>>, <<3, 2>>}
           \X {<<3>>, <<4>>, <<3, 4>>, <<4, 3>>, <<2, 3>>}

(* Ancestry::do_add appends a class and what is new of its ancestors; the  *)
(* common base comes last.                                                 *)
AddAncestors(list, c, lists) ==
    list \o SelectSeq(<<c>> \o lists[c], LAMBDA a : a \notin ToSet(list))

AncestorLists(parents) ==
    LET lists[c \in Classes] ==
          LET named == FoldLeft(LAMBDA l, p : AddAncestors(l, p, lists), <<>>, parents[c])
          IN  IF c = 1 THEN <<>> ELSE AddAncestors(named, 1, lists)
    IN  lists

MCHierarchies == {[parents |-> p, ancestors |-> AncestorLists(p)] : p \in MCParents}
=============================================================================
