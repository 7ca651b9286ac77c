----------------------------- MODULE MCResolver -----------------------------
(* Programs of three classes that refer to each other in every direction.  *)
EXTENDS Resolver

CONSTANTS A, B, C, D, T, U, Int32, px, f, g

Member(kind, name, path, dim) ==
    [kind |-> kind, name |-> name, path |-> path, dim |-> dim, init |-> <<>>]
Alias(name, path) == Member("alias", name, path, <<>>)
Prop(path) == Member("prop", px, path, <<>>)
Given(path, init) == [Prop(path) EXCEPT !.init = init]
Fun(name, path) == Member("fun", name, path, <<>>)

ClassText(parents, members) == [parents |-> parents, members |-> members]

TextsA ==
    {ClassText(<<>>, <<Alias(T, <<B>>), Prop(<<T>>)>>),
     ClassText(<<<<B>>>>, <<Prop(<<C>>)>>),
     ClassText(<<<<C>>, <<B>>>>, <<Fun(f, <<B>>), Alias(T, <<B>>)>>),
     ClassText(<<<<B, T>>>>, <<Prop(<<Int32>>)>>),
     ClassText(<<<<C, U>>>>, <<Alias(B, <<C>>), Prop(<<B, T>>)>>)}

TextsB ==
    {ClassText(<<>>, <<Alias(T, <<C>>), Prop(<<Int32>>)>>),
     ClassText(<<<<A>>>>, <<Prop(<<Int32>>)>>),
     ClassText(<<>>, <<Alias(T, <<C, U>>), Fun(f, <<A>>), Fun(g, <<C>>)>>),
     ClassText(<<<<C>>>>, <<Member("prop", px, <<Int32>>, <<A>>)>>),
     ClassText(<<<<C, U>>>>, <<Prop(<<U>>)>>),
     ClassText(<<<<C>>>>, <<Member("prop", px, <<Int32>>, <<C>>), Alias(T, <<Int32>>)>>)}

TextsC ==
    {ClassText(<<>>, <<Alias(U, <<A>>)>>),
     ClassText(<<>>, <<Alias(U, <<B, T>>), Prop(<<Int32>>)>>),
     ClassText(<<<<A>>>>, <<Alias(T, <<B>>), Prop(<<B>>)>>),
     ClassText(<<>>, <<Alias(U, <<B>>), Prop(<<D>>)>>),
     ClassText(<<<<A, T>>>>, <<Alias(U, <<Int32>>)>>),
     ClassText(<<>>, <<Alias(U, <<Int32>>), Prop(<<D>>)>>)}

Program(listed, a, b, c) ==
    [listed  |-> listed,
     unions  |-> {},
     parents |-> [x \in Classes |-> CASE x = A -> a.parents [] x = B -> b.parents [] OTHER -> c.parents],
     members |-> [x \in Classes |-> CASE x = A -> a.members [] x = B -> b.members [] OTHER -> c.members]]

(* A parent whose typedef has the size of the class that is being          *)
(* initialised for a dimension, of each kind of parent.                    *)
SizePrograms ==
    {Program(<<A, B, C>>, ClassText(<<parent>>, <<>>),
             ClassText(<<>>, <<Member("alias", T, <<C>>, dim), Alias(U, <<C>>)>>),
             ClassText(<<>>, own)) :
        parent \in {<<B>>, <<C>>, <<B, T>>, <<B, U>>},
        dim \in {<<>>, <<A>>, <<C>>},
        own \in {<<Prop(<<Int32>>)>>, <<Alias(T, <<B>>), Prop(<<Int32>>)>>,
                <<Fun(f, <<A>>), Fun(g, <<B>>)>>}}

(* A parent that is a typedef of a class which descends from this one.     *)
BasePrograms ==
    {Program(<<A, B, C>>, ClassText(<<parent>>, own), ClassText(<<>>, <<Prop(<<Int32>>)>>),
             ClassText(parents, <<Alias(T, <<B>>), Prop(<<Int32>>)>>)) :
        parent \in {<<B>>, <<C>>, <<C, T>>},
        parents \in {<<>>, <<<<A>>>>, <<<<B>>>>},
        own \in {<<>>, <<Prop(<<Int32>>)>>, <<Alias(U, <<C>>)>>}}

(* Typedefs with the names of classes, each of which leads to the other:   *)
(* what fails is looked for again as the class.                            *)
HidingPrograms ==
    {Program(<<A>>, ClassText(<<>>, own), ClassText(parents, <<Alias(T, <<C>>)>>),
             ClassText(<<>>, <<Prop(<<Int32>>)>>)) :
        parents \in {<<>>, <<<<C>>>>},
        own \in {<<Alias(B, <<C>>), Alias(C, <<B>>)>>,
                <<Prop(<<B>>), Alias(B, <<C>>), Alias(C, <<B>>)>>,
                <<Prop(<<B, T>>), Alias(B, <<C>>), Alias(C, <<B>>), Prop(<<C>>)>>,
                <<Alias(B, <<C>>), Alias(C, <<B, T>>), Fun(f, <<C>>)>>}}

(* Initialisers that depend on classes of every relation to their own, and *)
(* a class that expressions alone come across.                             *)
ValuePrograms ==
    {[Program(listed, ClassText(<<>>, <<Alias(T, <<C>>), Given(type, init), Prop(<<Int32>>)>>),
              ClassText(parents, <<Given(<<Int32>>, other)>>),
              ClassText(<<>>, <<Alias(U, <<B>>), Prop(<<Int32>>)>>)) EXCEPT !.unions = unions] :
        listed \in {<<A, B>>, <<B, A>>}, type \in {<<Int32>>, <<T>>},
        init \in {<<A>>, <<B>>, <<T>>, <<C, U>>, <<D>>},
        parents \in {<<>>, <<<<A>>>>}, other \in {<<>>, <<A>>, <<T>>}, unions \in {{}, {A}}}

MCPrograms ==
    {Program(listed, a, b, c) :
        listed \in {<<A, B, C>>, <<C, A>>}, a \in TextsA, b \in TextsB, c \in TextsC}
    \cup SizePrograms \cup BasePrograms \cup HidingPrograms
    \cup ValuePrograms
=============================================================================
