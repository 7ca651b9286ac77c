------------------------------ MODULE MCScopes ------------------------------
EXTENDS ScopeMeaning
CONSTANTS A, B, E, G, f, p
MCExtAncestors == [x \in External |-> IF x = E THEN {G} ELSE {}]
MCExtMembers == [x \in External |-> IF x = E THEN <<Item("prop", f)>> ELSE <<>>]
MCModuleItems == {Item("class", A), Item("tpl", B), Item("alias", G), Item("const", f)}
MCParentLists ==
    LET a == <<"class", A>>
        b == <<"inst", B>>
        x == <<"ext", E>>
    IN  {<<>>, <<a>>, <<b>>, <<b, x>>, <<x, b>>}
MCBodyItems == {Item("alias", G), Item("prop", f), Item("fset", f)}
=============================================================================
