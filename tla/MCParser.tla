------------------------------ MODULE MCParser ------------------------------
(* Texts for the parser.  Each begins inside the construct it is about and    *)
(* goes on with any tokens of a few types, chosen so that every function and  *)
(* every way of recovering from an error is met.                              *)
EXTENDS Parser

Class == <<"Quark", "TypeIdent", "BraceL">>
Member == Class \o <<"BuiltinTypeIdent">>

\* Where the parser enters, what the text begins with, and what may follow.
Module(begin, more, types) ==
    [entry |-> "parse_module_file", begin |-> begin, more |-> more, types |-> types]
Stmts(begin, more, types) ==
    [entry |-> "parse_stmts", begin |-> begin, more |-> more, types |-> types]

MCTexts ==
    { Module(<<>>, 4, {"Local", "Typedef", "Constant", "TypeIdent", "Ident", "Quark",
                       "BraceL", "BraceR", "Semicol"}),
      Module(<<"Quark">>, 5, {"TypeIdent", "SelfClass", "Ident", "Equal", "ParenL", "ParenR", "Comma", "Colon", "Plus", "Period", "BraceL"}),
      Module(Class, 5, {"Typedef", "Local", "Period", "BuiltinTypeIdent", "SelfClass", "Virtual",
                        "Constant", "Ident", "ParenL", "Semicol", "BraceR"}),
      Module(Member \o <<"Ident">>, 5,
                       {"ParenL", "ParenR", "Native", "Ellipsis", "BuiltinTypeIdent",
                        "Ident", "Equal", "Comma", "BraceL", "Semicol"}),
      Module(Member \o <<"Operator">>, 5,
                       {"Plus", "Excl", "Is", "BracketL", "BracketR", "ParenL", "ParenR",
                        "BuiltinTypeIdent", "Ident", "Semicol", "BraceR"}),
      Stmts(<<>>, 5, {"BuiltinTypeIdent", "Local", "Period", "TypeIdent", "Ident", "Amp", "SizeOf",
                      "ParenL", "Semicol"}),
      Stmts(<<"BuiltinTypeIdent", "Ident">>, 5,
                     {"Equal", "BraceL", "BraceR", "ParenL", "BracketL", "BracketR",
                      "Period", "Ident", "Comma"}),
      Stmts(<<"BuiltinTypeIdent", "Ident", "Equal", "BraceL", "Period", "Ident", "Equal", "Number">>, 5,
                     {"Period", "Ident", "Equal", "Comma", "BraceL", "BraceR", "String"}),
      Stmts(<<>>, 5, {"If", "Else", "For", "While", "Return", "ParenL", "ParenR", "BraceL", "Semicol"}),
      Stmts(<<"Which", "ParenL">>, 6,
                     {"ParenR", "BraceL", "BraceR", "Case", "Otherwise", "Colon", "Ident", "As",
                      "TypeIdent", "Semicol"}),
      Stmts(<<"If", "ParenL">>, 5,
                     {"Ident", "As", "TypeIdent", "ParenL", "ParenR", "Excl", "AmpAmp", "Semicol"}),
      Stmts(<<"Ident">>, 4, {"Ident", "Plus", "PlusPlus", "Is", "Quest", "Colon", "Equal",
                      "BracketL", "BracketR", "ParenL"}),
      Stmts(<<"Ident", "Period">>, 4,
                     {"Self", "TypeIdent", "Operator", "Plus", "SizeOf", "InstanceOf",
                      "BracketL", "BracketR", "Ident", "ParenL", "ParenR"}),
      Stmts(<<>>, 2, {"Break", "Continue", "True", "Char", "ClassName", "Semicol"}) }

\* A condition.
CondTexts == {Stmts(<<"If", "ParenL">>, 7, {"Ident", "As", "TypeIdent", "ParenL", "ParenR", "Excl"})}
=============================================================================
