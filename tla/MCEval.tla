------------------------------- MODULE MCEval -------------------------------
(* Programs for the evaluation of statements: everything short that can be    *)
(* put inside a loop, a which or a condition, itself inside another.          *)
EXTENDS EvalMeaning

Program(main, body, returns) == [main |-> main, body |-> body, returns |-> returns]
Blk(ss) == <<"block", ss>>
None == <<"none">>

\* What may stand in the innermost place, with the name x declared or not.
Leafs == {<<"break">>, <<"continue">>, <<"var", "x">>, <<"use", "x">>}
Inner == Leafs \cup {<<"call", "x">>}

On(c, n) == [conds |-> c, branch |-> Blk(n)]

\* The statements that contain ss.
Around(ss) ==
    { Blk(ss), <<"if", <<"is", "x">>, Blk(ss), << <<"use", "x">> >> >>,
      <<"if", <<"as", "x">>, Blk(ss), <<>> >>,
      <<"while", <<"is", "x">>, Blk(ss)>>, <<"while", None, Blk(ss)>>,
      <<"for", <<"as", "x">>, Blk(ss)>>, <<"for", None, Blk(ss)>>,
      <<"which", << On(<< <<"is", "x">>, <<"as", "x">> >>, ss), On(<<None>>, << <<"use", "x">> >>) >> >>,
      <<"which", << On(<< <<"as", "x">> >>, << <<"use", "x">> >>), On(<< <<"is", "x">>, None >>, ss) >> >> }

Pairs(A, B) == {<<a, b>> : a \in A, b \in B}
Once == UNION {Around(ss) : ss \in Pairs(Inner, Inner)}
Single == UNION {Around(<<a>>) : a \in Inner}
Twice == UNION {Around(<<a, b>>) : a \in Single, b \in Leafs}
         \cup UNION {Around(<<a, b>>) : a \in Once, b \in { <<"use", "x">>, <<"break">> }}

Declared == <<"var", "x">>
Used == <<"use", "x">>

\* A function that declares, uses, jumps, and returns x or its parameter.
Bodies == { << <<"if", <<"is", "p">>, <<"return", "p">>, << <<"break">> >> >>, Used >>,
            << Declared, <<"while", <<"is", "x">>, <<"return", "x">> >> >> }

MCPrograms ==
    { Program(<<Declared, a, Used>>, b, r) : a \in Once, b \in Bodies, r \in BOOLEAN }
    \cup { Program(<<a, Used>>, <<>>, FALSE) : a \in Single }
    \cup { Program(<<Declared, a, Used>>, << <<"return", "p">> >>, TRUE) : a \in Twice }
    \cup { Program(<<Declared, <<"call", c>>, Used>>, <<a, <<"call", "p">>>>, r) :
               a \in Single, c \in {"x", ""}, r \in BOOLEAN }
    \cup { Program(<<a>>, <<>>, FALSE) : a \in {<<"return", "">>, <<"call", "">>, <<"break">>} }

MCNames == {"x", "p", "i"}

\* The statements above and their parts.
MCStatements ==
    Once \cup Single \cup Twice \cup UNION { {b[1], b[2]} : b \in Bodies }
    \cup {"var", "use", "return"} \X MCNames \cup {"return", "call"} \X (MCNames \cup {""})
    \cup { <<"break">>, <<"continue">> }
=============================================================================
