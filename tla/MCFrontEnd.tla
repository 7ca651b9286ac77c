----------------------------- MODULE MCFrontEnd -----------------------------
(* Texts for the lexer and the preprocessor: every text over a few characters *)
(* after a beginning, for each family of characters that matter together.     *)
EXTENDS Preproc

Alone(begin, more, chars) ==
    [begin |-> begin, more |-> more, chars |-> chars, loaded |-> {<<"nul">>}]

\* The other source: a name, a comment without an end of line, a directive
\* without its end, and a source that loads itself.
Loading(begin, more, chars) ==
    [begin |-> begin, more |-> more, chars |-> chars,
     loaded |-> {<<"G", "nul">>, <<"/", "/", "nul">>, <<"use", "G", "nul">>,
                 <<"load", "quot", "b", "quot", "semi", "nul">>}]

MCTexts ==
    { Alone(<<>>, 5, {"/", "*", "\\", "nl", "cr", "g"}),
      Alone(<<"quot">>, 5, {"quot", "\\", "nl", "cr", "'"}),
      Alone(<<"'">>, 5, {"'", "\\", "nl", "cr", "g"}),
      Alone(<<>>, 3, {"0", "1", "x", "b", "u", "G", "self", "Int", "@", ".", "+", "=", "<",
                      "sp", "FILE", "?"}),
      Alone(<<"use">>, 4, {"sp", "G", "semi", "/", "nl", "1"}),
      Alone(<<"ulam">>, 3, {"sp", "1", "semi", "/", "g"}),
      Loading(<<"load">>, 4, {"quot", "b", "semi", "<", ">", "/"}),
      Loading(<<"load", "quot", "b", "quot">>, 4, {"semi", "g", "/", "nl", "*"}) }
=============================================================================
