------------------------------ MODULE Grammar ------------------------------
(* The parse functions, each as the sequence of instructions it executes: one *)
(* definition per function, named as in the code.  Parser gives instructions  *)
(* their meaning.  Of a function's locals only the ones that decide something *)
(* are kept, as the set of facts that hold of its frame; of its result, a set *)
(* of tags, Null when the function fails.                                     *)
EXTENDS Sequences, Tokens

Null == {"null"}

-----------------------------------------------------------------------------
(* The instructions.                                                          *)

Eat == <<"consume">>
Save(i) == <<"save", i>>              \* keep the token as the i-th saved one
Putback(i) == <<"putback", i>>        \* go back to the i-th saved token
Report == <<"report">>                \* an error is emitted
Panic(T) == <<"panic", T, 0>>         \* skip to one of T, over bracketed text
Must(T) == <<"assert", T>>          \* an assertion on the token
Crash == <<"crash">>                  \* a null pointer is followed
Give(V) == <<"give", V>>              \* the value at hand becomes V
Done == <<"done">>                    \* return the value at hand
Note(F) == <<"note", F>>              \* local facts that hold from here on
Forget(F) == <<"forget", F>>
Keep(F) == <<"keep", F>>              \* the tags of F the value has, as facts
Either(s) == <<"either", s>>          \* decided by data left out of the model

\* A switch over what is seen: on the token, the facts of the frame, the value
\* at hand, or the context of the expression; the first case that matches.
Switch(what, cases, else) == <<"switch", what, cases, else>>
On(cases, else) == Switch("token", cases, else)
If(what, F, then, else) == Switch(what, << <<F, then>> >>, else)
IfTok(T, then) == If("token", T, then, <<>>)
IfFact(F, then) == If("facts", F, then, <<>>)

\* Loops that test the token at the head of each turn.
While(T, body) == <<"while", T, body>>
Until(T, body) == <<"until", T, body>>

\* A call with the facts F as arguments, and one that passes the flags of the
\* caller on; the parts of an expression also have a least precedence.
CallWith(f, F) == <<"call", f, F, FALSE, 0>>
Call(f) == CallWith(f, {})
CallOn(f) == <<"call", f, {}, TRUE, 0>>
CallAt(f, prec) == <<"call", f, {}, FALSE, prec>>

\* An expression's context: shared by reference by the functions that parse it.
OpenContext(F) == <<"open", F>>
CloseContext == <<"close">>           \* notes in the facts whether it has an as-cond
Flag(F) == <<"flag", F>>
Unflag(F) == <<"unflag", F>>

Infix == <<"infix">>                  \* continue with what follows an operand
Prefix == <<"prefix">>

Fail == Give(Null)
Leave(s) == s \o <<Done>>
OrElse(s) == If("value", Null, Leave(s), <<>>)
OrFail == OrElse(<<Fail>>)
Expect(T) == If("token", T, <<Eat>>, <<Report>>)
Need(T, s) == If("token", T, <<Eat>>, <<Report>> \o Leave(s))
Match(T) == If("token", T, <<>>, <<Report, Fail, Done>>)
Skip(t) == IfTok({t}, <<Eat>>)
SkipTo(t) == <<Panic({t}), Skip(t)>>
GiveUp(t) == SkipTo(t) \o <<Fail>>
Try(f) == <<Call(f), If("value", Null, <<Note({"bad"})>>, <<>>)>>
FailIfBad == IfFact({"bad"}, <<Fail, Done>>)

-----------------------------------------------------------------------------
(* Modules, classes and their members.                                        *)

parse_module_file == <<Eat, Call("parse_module")>>

parse_stmts == <<Eat, CallWith("parse_as_block", {"implicit"})>>

ModuleVarStart == {"Local", "Typedef", "Constant"} \cup TypeIdents

parse_module ==
    << Until({Eof},
         << On(<< <<ModuleVarStart, <<Call("parse_module_var_or_type_def")>> >>,
                  <<ClassKinds, <<Call("parse_class_def")>> >> >>,
               << Report,
                  Panic({"Semicol", "Local", "Typedef", "Constant"} \cup TypeIdents
                            \cup ClassKinds),
                  Skip("Semicol") >>) >>),
       Give({"module"}) >>

parse_module_var_or_type_def ==
    << Must(ModuleVarStart),
       If("token", {"Local"}, <<Eat>>, <<Report>>),
       If("token", {"Typedef"}, <<Call("parse_type_def")>>,
          << Must({"Constant"} \cup TypeIdents),
             If("token", {"Constant"}, <<Eat>>, <<Report>>),
             CallWith("parse_var_def_list", {"const"}) >>),
       Give({"void"}) >>

parse_class_def ==
    <<Call("parse_class_def_head"), OrFail, Call("parse_class_def_body"), Give({"class"})>>

parse_class_def_head ==
    << Must(ClassKinds), Eat,
       If("token", TypeIdents, <<>>, <<Report>>), Eat,
       IfTok({"ParenL"},
             << Call("parse_param_list"),
                If("value", Null, <<Panic({"Colon", "Plus", "BraceL"})>>, <<>>) >>),
       IfTok({"Plus", "Colon"}, <<Call("parse_class_parent_list")>>),
       Give({"class"}) >>

parse_class_parent_list ==
    << Must({"Plus", "Colon"}), Eat,
       Until({"BraceL", Eof},
         << Call("parse_type_name"),
            If("value", Null, <<Panic(TypeIdents \cup {"BraceL"})>>,
               << Note({"parent"}),
                  IfTok({"Plus"}, <<Eat, IfTok({"BraceL"}, <<Report>>)>>) >>) >>),
       If("facts", {"parent"}, <<Give({"parents"})>>, <<Report, Fail>>) >>

\* Mutant: the end of the text closes a class.
UnclosedClass == <<Expect({"BraceL"})>> \o SkipTo("BraceR") \o <<Give({"void"})>>

parse_class_def_body ==
    << Expect({"BraceL"}),
       Until({"BraceR", Eof},
         << On(<< <<{"Typedef"}, <<Call("parse_type_def")>> >>,
                  <<TypeStart \cup {"Virtual", "Override"},
                    <<Call("parse_class_var_or_fun_def")>> >>,
                  <<{"Constant"}, <<Eat, CallWith("parse_var_def_list", {"const"})>> >>,
                  <<{"Parameter"},
                    <<Eat, CallWith("parse_var_def_list", {"const", "param"})>> >> >>,
               <<Report, Fail>>),
            If("value", Null,
               << Panic({"Semicol", "BraceR", "Typedef", "Virtual", "Override", "Constant"}
                            \cup TypeStart),
                  Skip("Semicol") >>, <<>>) >>),
       If("token", {"BraceR"}, <<Eat>>, <<Report>> \o SkipTo("BraceR")),
       Give({"void"}) >>

parse_type_def ==
    << Must({"Typedef"}), Eat,
       Call("parse_type_name"), OrElse(GiveUp("Semicol")),
       Call("parse_type_expr"), OrElse(GiveUp("Semicol")),
       Expect({"Semicol"}), Give({"stmt"}) >>

\* Mutant: a second mark is passed over without an error.
SilentMark(fact) == If("facts", {fact}, <<>>, <<Note({fact}), Eat>>)

\* A second mark is reported and left where it is.
Mark(fact) == If("facts", {fact}, <<Report>>, <<Note({fact}), Eat>>)

\* is_self() of a type name looks into its first part.
IsSelf == If("value", {"hollow"}, <<Crash>>, <<Keep({"self"})>>)

parse_class_var_or_fun_def ==
    << Must(TypeStart \cup {"Virtual", "Override"}),
       While({"Virtual", "Override"},
             <<On(<< <<{"Virtual"}, <<Mark("virtual")>> >> >>, <<Mark("override")>>)>>),
       Call("parse_type_name"), OrFail, IsSelf,
       IfFact({"self"}, <<IfTok({"ParenL"},
           << IfFact({"virtual", "override"}, <<Report>>),
              Call("parse_constructor_def_rest"), Done >>)>>),
       IfTok({"BracketL"}, <<Call("parse_array_dims"), OrFail, Note({"array"})>>),
       Call("parse_is_ref"),
       On(<< <<{"Operator"}, <<Call("parse_op_fun_name"), OrFail, Keep({"pre", "post"}),
                               Note({"op"})>> >>,
             <<Idents, <<Eat>> >> >>,
          <<Report, Fail, Done>>),
       IfTok({"ParenL"},
          <<If("facts", {"op"}, <<CallOn("parse_op_fun_def_rest")>>,
               <<Call("parse_fun_def_rest")>>), Done>>),
       IfFact({"op", "virtual", "override"}, <<Report, Fail, Done>>),
       IfFact({"array"}, <<Report, Fail, Done>>),
       Call("parse_var_def_list_rest") >>

parse_op_fun_name ==
    << Eat,
       If("token", Overloadable, <<>>, <<Report, Fail, Done>>),
       IfTok(PrefixOps, <<Note({"pre"})>>),
       IfTok(BinaryOps \cup SuffixOps, <<Note({"post"})>>),
       If("token", {"BracketL"}, <<Eat, Need({"BracketR"}, <<Fail>>)>>, <<Eat>>),
       If("facts", {"pre"}, <<If("facts", {"post"}, <<Give({"pre", "post"})>>,
                                 <<Give({"pre"})>>)>>, <<Give({"post"})>>) >>

-----------------------------------------------------------------------------
(* Variables, functions, parameters and initial values.                       *)

parse_var_def_list ==
    << Call("parse_type_name"),
       OrElse(<<Panic({"Semicol", "BraceL", "BraceR"}), Skip("Semicol"), Fail>>),
       Call("parse_is_ref"),
       If("token", Idents, <<Eat>>,
          <<Report, Panic({"Semicol", "BraceL", "BraceR"}), Fail, Done>>),
       CallOn("parse_var_def_list_rest") >>

EndVarDefList == <<Expect({"Semicol"}), Give({"stmt"})>>

parse_var_def_list_rest ==
    << CallOn("parse_var_def_rest"), OrFail,
       Until({"Semicol", Eof},
         << If("token", {"Comma"},
               << Eat,
                  If("facts", {"const"}, <<Report>>,
                     <<IfTok({"Semicol"}, Leave(<<Report>> \o EndVarDefList))>>) >>,
               <<Report>>),
            CallOn("parse_var_def"),
            OrElse(EndVarDefList) >>) >>
    \o EndVarDefList

parse_var_def ==
    <<Call("parse_is_ref"), Match(Idents), Eat, CallOn("parse_var_def_rest")>>

\* Mutant: a variable is taken for an array whatever follows its name.
AlwaysDims ==
    On(<<>>, <<CallWith("parse_array_dims", {"allowEmpty"}), OrFail>>)

ArrayDims ==
    IfTok({"BracketL"}, <<CallWith("parse_array_dims", {"allowEmpty"}), OrFail,
                          Keep({"empty"}), Note({"array"})>>)

parse_var_def_rest == <<ArrayDims, CallOn("parse_init"), OrFail, Give({"var"})>>

\* The parameters have been moved into the function by the time an ellipsis is
\* looked for in them, so none is ever found and refused.
parse_fun_def_rest ==
    << Must({"ParenL"}),
       CallWith("parse_param_list", {"ellipsis"}),
       If("value", Null, <<Panic({"BraceL", "Native", "Semicol"}), Note({"bad"})>>,
          <<Keep({"dots", "none"})>>),
       IfTok({"Native"}, <<Note({"native"}), Eat>>),
       If("token", {"Semicol", "BraceL"}, <<>>, <<Report, Fail, Done>>),
       If("token", {"BraceL"},
          << IfFact({"native"}, <<Report, Note({"bad"})>>), Call("parse_as_block") >>,
          <<Eat>>),
       FailIfBad,
       If("facts", {"none"}, <<Give({"none"})>>, <<Give({"some"})>>) >>

\* The operator's arity is known only when its parameters have been read.
ArityOp ==
    If("value", {"none"},
       <<If("facts", {"pre"}, <<>>, <<Crash>>)>>, <<If("facts", {"post"}, <<>>, <<Crash>>)>>)

parse_op_fun_def_rest == <<Call("parse_fun_def_rest"), OrFail, ArityOp, Give({"fun"})>>

parse_constructor_def_rest ==
    << Call("parse_fun_def_rest"), OrFail,
       If("value", {"none"}, <<Report, Fail>>, <<Give({"fun"})>>) >>

parse_param_list ==
    << Must({"ParenL"}), Eat, Note({"none"}),
       Until({"ParenR", Eof},
         << If("token", {"Ellipsis"},
               << Eat,
                  If("facts", {"ellipsis"},
                     << IfFact({"dots"}, <<Report>>), Note({"dots"}),
                        If("token", {"ParenR"}, <<>>,
                           <<Report>> \o Leave(GiveUp("ParenR"))) >>,
                     <<Report>> \o Leave(GiveUp("ParenR"))) >>,
               << CallOn("parse_param"), OrElse(GiveUp("ParenR")), Forget({"none"}),
                  If("value", {"init"}, <<Note({"value"})>>, <<Forget({"value"})>>),
                  IfTok({"Comma"}, <<Eat, IfTok({"ParenR"}, <<Report>>)>>) >>) >>),
       Need({"ParenR"}, GiveUp("ParenR")),
       If("facts", {"dots"},
          <<If("facts", {"none"}, <<Give({"dots", "none"})>>, <<Give({"dots"})>>)>>,
          <<If("facts", {"none"}, <<Give({"none"})>>, <<Give({"some"})>>)>>) >>

parse_param ==
    << IfTok({"Constant"}, <<Eat>>),
       Call("parse_type_name"), OrFail,
       Call("parse_is_ref"), Match(Idents), Eat,
       ArrayDims, CallOn("parse_init"), OrFail >>

\* Whether a value was given, or Null; by the facts const, constructor, value
\* (one is required), array and empty (a dimension is left to the value).
InitListOrMap == <<Call("parse_init_list_or_map"), OrFail, Give({"init"}), Done>>

parse_init ==
    << IfTok({"Equal"},
             << Eat,
                If("token", {"BraceL"}, InitListOrMap,
                   <<Call("parse_expr"), OrFail, Give({"init"}), Done>>) >>),
       If("facts", {"array"}, <<>>,
          <<IfFact({"constructor"}, <<IfTok({"ParenL"}, InitListOrMap)>>)>>),
       IfFact({"empty"}, <<Report, Fail, Done>>),
       IfFact({"value"}, <<Report, Fail, Done>>),
       Give({"noInit"}) >>

parse_init_list_or_map ==
    << Must({"BraceL", "ParenL"}),
       IfTok({"ParenL"}, <<Call("parse_init_list"), Done>>),
       Save(1), Eat, IfTok({"Period"}, <<Note({"map"})>>), Putback(1),
       If("facts", {"map"}, <<Call("parse_init_map")>>, <<Call("parse_init_list")>>) >>

\* One value of a list or of a map that is closed by the token c.
InitItem(c) ==
    << If("token", {"BraceL"}, <<Call("parse_init_list_or_map")>>,
          <<CallWith("parse_expr", {"stopAtComma"})>>),
       OrElse(GiveUp(c)),
       If("token", {c}, <<>>, <<Need({"Comma"}, GiveUp(c))>>) >>

InitListUpTo(c) ==
    <<Eat, Until({c}, InitItem(c)), Need({c}, GiveUp(c)), Give({"list"})>>

parse_init_list ==
    << Must({"BraceL", "ParenL"}),
       If("token", {"BraceL"}, InitListUpTo("BraceR"), InitListUpTo("ParenR")) >>

\* A second label of one name is refused.
parse_init_map ==
    << Must({"BraceL"}), Eat,
       Until({"BraceR"},
         << Need({"Period"}, GiveUp("BraceR")),
            If("token", Idents, <<>>, <<Report>> \o Leave(GiveUp("BraceR"))),
            IfFact({"label"}, <<Either(<<Report>> \o Leave(GiveUp("BraceR")))>>),
            Note({"label"}), Eat,
            Need({"Equal"}, GiveUp("BraceR")) >>
         \o InitItem("BraceR")),
       Need({"BraceR"}, GiveUp("BraceR")), Give({"map"}) >>

-----------------------------------------------------------------------------
(* Statements.                                                                *)

parse_block == <<Call("parse_as_block"), Give({"stmt"})>>

parse_as_block ==
    << If("facts", {"implicit"}, <<>>, <<Need({"BraceL"}, <<Give({"void"})>>)>>),
       Until({"BraceR", Eof}, <<Call("parse_stmt")>>),
       If("facts", {"implicit"}, <<>>,
          <<If("token", {"BraceR"}, <<Eat>>, <<Report>> \o SkipTo("BraceR"))>>),
       Give({"void"}) >>

parse_stmt ==
    << On(<< <<{"Typedef"}, <<Call("parse_type_def")>> >>,
             <<{"Local"}, <<Call("parse_stmt_local")>> >>,
             <<TypeIdents \cup {"BuiltinTypeIdent"}, <<Call("parse_stmt_type")>> >>,
             <<{"Constant"}, <<Eat, CallWith("parse_var_def_list", {"const", "constructor"})>> >>,
             <<{"If"}, <<Call("parse_if")>> >>,
             <<{"For"}, <<Call("parse_for")>> >>,
             <<{"While"}, <<Call("parse_while")>> >>,
             <<{"Which"}, <<Call("parse_which")>> >>,
             <<{"Return"}, <<Call("parse_return")>> >>,
             <<{"Break"}, <<Call("parse_break")>> >>,
             <<{"Continue"}, <<Call("parse_continue")>> >>,
             <<{"BraceL"}, <<Call("parse_block")>> >>,
             <<{"Semicol"}, <<Eat, Give({"empty"})>> >> >>,
          <<Call("parse_expr_stmt")>>) >>

\* Mutant: the tokens are put back in the order they came.
SwappedPutback(typeCase, identCase) ==
    << Must({"Local"}), Save(1), Eat, Match({"Period"}), Save(2), Eat,
       On(<< <<TypeIdents \cup {"BuiltinTypeIdent"},
               <<Putback(1), Putback(2), Call(typeCase)>> >>,
             <<Idents, <<Putback(1), Putback(2), identCase>> >> >>,
          <<Report, Fail>>) >>

\* local.Name: what follows decides, so both tokens are put back.
LocalThen(typeCase, identCase) ==
    << Must({"Local"}), Save(1), Eat, Match({"Period"}), Save(2), Eat,
       On(<< <<TypeIdents \cup {"BuiltinTypeIdent"},
               <<Putback(2), Putback(1), Call(typeCase)>> >>,
             <<Idents, <<Putback(2), Putback(1), identCase>> >> >>,
          <<Report, Fail>>) >>

parse_stmt_local == LocalThen("parse_stmt_type", Call("parse_expr_stmt"))

parse_stmt_type ==
    << CallWith("parse_type_name", {"opOrConst"}),
       If("value", Null, <<>>, <<Note({"type"})>>),
       On(<< <<{"Period"},
               << Eat, CallOn("parse_class_const_or_type_op_rest"), Give({"stmt"}) >> >>,
             <<Idents \cup {"Amp"},
               << Call("parse_is_ref"), Must(Idents \cup TypeIdents), Eat,
                  CallWith("parse_var_def_list_rest", {"constructor"}) >> >> >>,
          <<Report, Fail>>) >>

parse_expr_stmt ==
    << Call("parse_expr"), OrFail,
       If("token", {"Semicol"}, <<Eat>>, <<Report>> \o SkipTo("Semicol")),
       Give({"stmt"}) >>

CloseParen == If("token", {"ParenR"}, <<Eat>>, <<Report>> \o SkipTo("ParenR"))
CloseParenOrBad ==
    If("token", {"ParenR"}, <<Eat>>, <<Report, Note({"bad"})>> \o SkipTo("ParenR"))

parse_if ==
    << Must({"If"}), Eat, Need({"ParenL"}, <<Fail>>) >> \o Try("parse_cond")
    \o <<CloseParen>> \o Try("parse_stmt")
    \o <<IfTok({"Else"}, <<Eat>> \o Try("parse_stmt")), FailIfBad, Give({"stmt"})>>

parse_for ==
    << Must({"For"}), Eat, Need({"ParenL"}, <<Fail>>), Call("parse_stmt"),
       Switch("value", << <<Null, <<Note({"bad"})>> >>, <<{"empty"}, <<>> >> >>,
              <<Note({"init"})>>),
       If("token", {"Semicol"}, <<>>,
          << Call("parse_cond"),
             Switch("value",
                    << <<Null, <<Note({"bad"})>> >>,
                       <<{"asCond"}, <<IfFact({"init"}, <<Report, Note({"bad"})>>)>> >> >>,
                    <<>>) >>),
       If("token", {"Semicol"}, <<Eat>>, <<Report, Note({"bad"})>>),
       If("token", {"ParenR"}, <<>>, Try("parse_expr")),
       CloseParenOrBad >>
    \o Try("parse_stmt") \o <<FailIfBad, Give({"stmt"})>>

parse_while ==
    << Must({"While"}), Eat, Need({"ParenL"}, <<Fail>>) >> \o Try("parse_cond")
    \o <<CloseParenOrBad>> \o Try("parse_stmt") \o <<FailIfBad, Give({"stmt"})>>

\* The flag ok decides only whether the cases are kept.
parse_which ==
    << Must({"Which"}), Eat, Need({"ParenL"}, <<Fail>>),
       If("token", {"ParenR"}, <<Note({"asWhich"})>>, Try("parse_expr")),
       CloseParenOrBad,
       Need({"BraceL"}, <<Fail>>),
       Until({"BraceR", Eof},
         << If("token", {"Case", "Otherwise"}, <<CallOn("parse_which_case")>>, <<Fail>>),
            OrElse(GiveUp("BraceR")) >>),
       If("token", {"BraceR"}, <<Eat>>, <<Report, Must({Eof}), Fail, Done>>),
       FailIfBad, Give({"stmt"}) >>

WhichCond ==
    << If("token", {"Otherwise"}, <<Eat>>,
          << Eat,
             If("facts", {"asWhich"}, <<OpenContext({"allowAsCond"})>>, <<OpenContext({})>>),
             CallAt("parse_expr_climb", 0), CloseContext, OrFail,
             If("facts", {"asWhich"},
                <<If("facts", {"asCond"}, <<>>, <<Report, Fail, Done>>)>>,
                <<IfFact({"asCond"}, <<Report, Fail, Done>>)>>) >>),
       Need({"Colon"}, <<Fail>>) >>

parse_which_case ==
    <<Must({"Case", "Otherwise"})>> \o WhichCond
    \o <<While({"Case", "Otherwise"}, WhichCond), Call("parse_block"), OrFail, Give({"case"})>>

parse_cond ==
    << OpenContext({"allowAsCond"}), CallAt("parse_expr_climb", 0), CloseContext, OrFail,
       If("facts", {"asCond"}, <<Give({"asCond"})>>, <<Give({"cond"})>>) >>

parse_return ==
    << Must({"Return"}), Eat, If("token", {"Semicol"}, <<>>, Try("parse_expr")),
       Expect({"Semicol"}), FailIfBad, Give({"stmt"}) >>

parse_break == <<Must({"Break"}), Eat, Expect({"Semicol"}), Give({"stmt"})>>
parse_continue == <<Must({"Continue"}), Eat, Expect({"Semicol"}), Give({"stmt"})>>

-----------------------------------------------------------------------------
(* Expressions.                                                               *)

parse_expr ==
    << If("facts", {"stopAtEqual"}, <<OpenContext({"stopAtEqual"})>>,
          <<If("facts", {"stopAtComma"}, <<OpenContext({"stopAtComma"})>>,
               <<OpenContext({})>>)>>),
       CallAt("parse_expr_climb", 0), CloseContext >>

check_expr_no_as_cond == If("context", {"asCond"}, <<Report, Fail, Done>>, <<>>)

\* The value at hand is the operand; an identifier is the last one of its context.
check_expr_can_have_as_cond ==
    << If("context", {"allowAsCond"}, <<>>, <<Report, Fail, Done>>),
       If("value", {"ident"}, <<>>, <<Report, Fail, Done>>) >>

Expr == Give({"expr"})

Forbidden(t, context) ==
    \/ t = "Comma" /\ "stopAtComma" \in context
    \/ t = "Equal" /\ "stopAtEqual" \in context

\* The rest of the operand's expression when the next token is t, and operators
\* of less than the precedence prec belong to a caller.  The right operand of an
\* operator may be missing: the operation is made all the same.
AfterOperand(t, prec, context) ==
    IF Forbidden(t, context) THEN <<>>
    ELSE
    CASE t \in BinaryOps /\ BinaryPrec(t) >= prec ->
             <<check_expr_no_as_cond>>
             \o (CASE t = "ParenL" -> <<Call("parse_funcall"), OrFail>>
                   [] t = "BracketL" -> <<Call("parse_array_access"), OrFail>>
                   [] t = "Period" -> <<Call("parse_member_access_or_type_op_or_op_call"), OrFail>>
                   [] t = "Quest" -> <<Call("parse_ternary_rest"), OrFail>>
                   [] OTHER -> <<Eat, CallAt("parse_expr_climb", RightPrec(t)), Expr>>)
             \o <<Infix>>
      [] t \in SuffixOps \ BinaryOps /\ SuffixPrec(t) >= prec ->
             <<Eat>>
             \o (CASE t = "As" -> check_expr_can_have_as_cond
                                  \o <<Call("parse_type_name"), OrFail, Flag({"asCond"}),
                                       Give({"asCond"})>>
                   [] t = "Is" -> <<check_expr_no_as_cond, Call("parse_type_name"), OrFail, Expr>>
                   [] OTHER -> <<check_expr_no_as_cond, Expr>>)
             \o <<Infix>>
      [] OTHER -> <<>>

parse_expr_climb_rest == <<Infix>>

\* An expression that begins with the token t.
BeforeOperand(t) ==
    IF t \in PrefixOps
    THEN << check_expr_no_as_cond, Eat, CallAt("parse_expr_climb", PrefixPrec(t)), Expr, Infix >>
    ELSE << Call("parse_expr_lhs"), OrFail, Infix >>

parse_expr_climb == <<Prefix>>

parse_expr_lhs ==
    << If("token", {"ParenL"}, <<>>, <<check_expr_no_as_cond>>),
       On(<< <<{"Local"}, <<Call("parse_expr_lhs_local")>> >>,
             <<TypeIdents \cup {"BuiltinTypeIdent"}, <<Call("parse_class_const_or_type_op")>> >>,
             <<Idents, <<CallWith("parse_ident", {"allowSelf", "allowLocal"})>> >>,
             <<{"Operator"}, <<Call("parse_op_call")>> >>,
             <<{"True", "False"}, <<Call("parse_bool_lit")>> >>,
             <<{"Number"}, <<Call("parse_num_lit")>> >>,
             <<{"Char"}, <<Call("parse_char_lit")>> >>,
             <<{"ClassName"}, <<Call("parse_class_name")>> >>,
             <<{"String"}, <<Call("parse_str_lit")>> >>,
             <<{"ParenL"}, <<Call("parse_paren_expr_or_cast")>> >> >>,
          <<Report, Panic({"Semicol"}), Fail>>) >>

parse_expr_lhs_local ==
    LocalThen("parse_class_const_or_type_op",
              CallWith("parse_ident", {"allowSelf", "allowLocal"}))

\* Parentheses end what the context forbids inside, and do not restore it.
EndParen ==
    << OrElse(GiveUp("ParenR")), Need({"ParenR"}, GiveUp("ParenR")),
       If("value", {"asCond"}, <<Give({"asCond"})>>, <<Expr>>) >>

parse_paren_expr_or_cast ==
    << Must({"ParenL"}), Eat,
       If("token", TypeIdents \cup {"BuiltinTypeIdent"},
          << CallWith("parse_type_name", {"opOrConst"}), OrElse(GiveUp("ParenR")),
             If("token", {"Period"}, <<>>,
                << Call("parse_full_type_name_rest"), OrElse(GiveUp("ParenR")),
                   Expect({"ParenR"}),
                   CallAt("parse_expr_climb", CastPrec), OrElse(GiveUp("ParenR")),
                   Expr, Done >>),
             Eat, CallWith("parse_class_const_or_type_op_rest", {"type"}),
             OrElse(GiveUp("ParenR")), Unflag({"stopAtComma", "stopAtEqual"}),
             CallAt("parse_expr_climb_rest", 0) >>,
          <<Unflag({"stopAtComma", "stopAtEqual"}), CallAt("parse_expr_climb", 0)>>) >>
    \o EndParen

parse_class_const_or_type_op ==
    << Must(TypeStart), CallWith("parse_type_name", {"opOrConst"}), OrFail,
       Need({"Period"}, <<Fail>>), CallWith("parse_class_const_or_type_op_rest", {"type"}) >>

parse_class_const_or_type_op_rest ==
    << On(<< <<Idents, <<Call("parse_class_const_rest")>> >>,
             <<TypeOps, <<CallOn("parse_type_op_rest")>> >> >>,
          <<Report, Fail>>) >>

\* Mutant: arguments of an operator that has none are refused without an error.
SilentTypeOp ==
    << Must(TypeOps), Eat,
       IfTok({"ParenL"}, <<Eat, Panic({"ParenR"}), Fail, Done>>), Expr >>

\* Of a type or of an expression, exactly one of which is given.
parse_type_op_rest ==
    << If("facts", {"type", "object"}, <<>>, <<Crash>>),
       Must(TypeOps),
       If("token", {"InstanceOf"}, <<Note({"instanceOf"})>>, <<>>), Eat,
       IfTok({"ParenL"},
             << If("facts", {"instanceOf"}, <<>>,
                   <<Report, Eat, Panic({"ParenR"}), Fail, Done>>),
                Call("parse_arg_list") >>),
       Expr >>

-----------------------------------------------------------------------------
(* Types.                                                                     *)

parse_type_expr ==
    << IfTok({"Amp"}, <<Eat>>), Call("parse_type_ident"), OrFail,
       IfTok({"BracketL"}, <<Call("parse_array_dims"), OrFail>>),
       Give({"type"}) >>

\* At the end of the text the dimensions are dropped without an error.
parse_array_dims ==
    << Must({"BracketL"}), Eat,
       Until({Eof},
         << If("token", {"BracketR"},
               <<If("facts", {"allowEmpty"}, <<Fail>>, <<Call("parse_expr")>>)>>,
               <<Call("parse_expr")>>),
            If("value", Null, <<Note({"empty"})>>, <<>>),
            Need({"BracketR"}, <<Fail>>),
            If("token", {"BracketL"}, <<Eat>>,
               <<If("facts", {"empty"}, <<Give({"empty"})>>, <<Give({"dims"})>>), Done>>) >>),
       Fail >>

parse_full_type_name_rest ==
    << IfTok({"BracketL"}, <<Call("parse_array_dims"), OrFail>>),
       Call("parse_is_ref"), Give({"type"}) >>

\* A name is made even when its first part is missing: then it is hollow.
parse_type_name ==
    << If("token", TypeStart, <<>>, <<Report, Fail, Done>>),
       Call("parse_type_spec"),
       If("value", Null, <<Note({"hollow"})>>, <<Keep({"self"})>>),
       While({"Period"},
         << Save(1), Eat,
            IfFact({"opOrConst"}, <<IfTok(Idents \cup TypeOps, Leave(<<Putback(1), Give({"type"})>>))>>),
            If("token", TypeIdents \ {"SelfClass"}, <<>>, <<Report, Fail, Done>>),
            CallWith("parse_type_ident", {"allowSuper"}) >>),
       Switch("facts", << <<{"hollow"}, <<Give({"hollow"})>> >>,
                          <<{"self"}, <<Give({"self"})>> >> >>, <<Give({"type"})>>) >>

parse_type_spec ==
    << Must(TypeStart),
       If("token", {"BuiltinTypeIdent"}, <<Eat>>,
          << CallWith("parse_type_ident", {"allowSelf", "allowSuper", "allowLocal"}),
             If("value", Null, <<Crash>>, <<Keep({"self", "super"})>>) >>),
       IfTok({"ParenL"},
             <<If("facts", {"self", "super"}, <<>>, <<Call("parse_arg_list"), OrFail>>)>>),
       If("facts", {"self"}, <<Give({"self"})>>, <<Give({"type"})>>) >>

\* self or Self, super or Super: only where the caller allows it, and never local.
Special(tag, allow) ==
    << Eat, If("facts", {allow}, <<>>, <<Report, Fail, Done>>),
       IfFact({"isLocal"}, <<Report, Fail, Done>>), Give({tag}) >>

parse_type_ident ==
    << Must(TypeIdents \cup {"Local"}),
       IfTok({"Local"},
             << If("facts", {"allowLocal"}, <<Note({"isLocal"})>>, <<Report>>), Eat,
                Expect({"Period"}), Match(TypeIdents) >>),
       On(<< <<{"SelfClass"}, Special("self", "allowSelf")>>,
             <<{"SuperClass"}, Special("super", "allowSuper")>> >>,
          <<Eat, Give({"type"})>>) >>

parse_is_ref == <<IfTok({"Amp"}, <<Eat>>), Give({"void"})>>

-----------------------------------------------------------------------------
(* Calls, members and literals.                                               *)

\* The location of the arguments is asked for whether or not there are any.
parse_funcall ==
    << Must({"ParenL"}), Call("parse_arg_list"), If("value", Null, <<Crash>>, <<>>) >>

OpToken ==
    << Eat, If("token", Overloadable, <<>>, <<Report, Fail, Done>>),
       IfTok(PrefixOps, <<Note({"pre"})>>),
       IfTok(BinaryOps \cup SuffixOps, <<Note({"post"})>>), Eat >>

parse_op_call ==
    <<Must({"Operator"})>> \o OpToken \o <<Call("parse_funcall"), ArityOp, Expr>>

parse_op_call_rest ==
    <<Must({"Operator"})>> \o OpToken
    \o <<Match({"ParenL"}), Call("parse_funcall"), ArityOp, Expr>>

parse_arg_list ==
    << Must({"ParenL"}), Eat, Note({"none"}),
       Until({"ParenR", Eof},
         << Call("parse_expr"), OrElse(GiveUp("ParenR")), Forget({"none"}),
            IfTok({"Comma"}, <<Eat, IfTok({"ParenR"}, <<Report>>)>>) >>),
       Need({"ParenR"}, GiveUp("ParenR")),
       If("facts", {"none"}, <<Give({"none"})>>, <<Give({"some"})>>) >>

parse_array_access ==
    << Must({"BracketL"}), Eat, Call("parse_expr"), OrElse(GiveUp("BracketR")),
       Need({"BracketR"}, GiveUp("BracketR")), Expr >>

parse_member_access_or_type_op_or_op_call ==
    << Must({"Period"}), Eat,
       IfTok(TypeIdents, <<Call("parse_base_type_select"), OrFail>>),
       On(<< <<Idents, <<Call("parse_member_access_rest")>> >>,
             <<{"Operator"}, <<Call("parse_op_call_rest")>> >>,
             <<TypeOps, <<CallWith("parse_type_op_rest", {"object"})>> >> >>,
          <<Report, Fail>>) >>

parse_member_access_rest == <<Must(Idents), Call("parse_ident"), Expr>>

BaseTypeSpec == <<Call("parse_type_spec"), OrFail, Skip("Period")>>

parse_base_type_select ==
    <<Must(TypeIdents)>> \o BaseTypeSpec \o
    << While(TypeIdents, BaseTypeSpec),
       IfTok({"BracketL"},
             << Eat, Call("parse_expr"), If("value", Null, <<Panic({"BracketR"})>>, <<>>),
                Expect({"BracketR"}), Expect({"Period"}) >>),
       Give({"base"}) >>

\* An assignment inside an arm is refused unless an option allows it.
parse_ternary_rest ==
    << Must({"Quest"}), Eat, CallWith("parse_expr", {"stopAtEqual"}),
       If("value", Null, <<Note({"bad"})>>, <<>>),
       Need({"Colon"}, <<Fail>>),
       CallWith("parse_expr", {"stopAtEqual"}),
       If("value", Null, <<Note({"bad"})>>, <<>>), FailIfBad, Expr >>

parse_class_const_rest == <<Must(Idents), Call("parse_ident"), OrFail, Expr>>

parse_ident ==
    << Must(Idents \cup {"Local"}),
       IfTok({"Local"},
             << If("facts", {"allowLocal"}, <<>>, <<Report>>), Eat,
                Expect({"Period"}), Match(Idents) >>),
       If("token", {"Ident"}, <<Eat>>,
          <<Eat, If("facts", {"allowSelf"}, <<>>, <<Report, Fail, Done>>)>>),
       Give({"ident"}) >>

parse_class_name == <<Must({"ClassName"}), Eat, Expr>>
parse_bool_lit == <<Must({"True", "False"}), Eat, Expr>>
parse_num_lit == <<Must({"Number"}), Eat, Expr>>
parse_char_lit == <<Must({"Char"}), Eat, Expr>>
parse_str_lit == <<Must({"String"}), Eat, Expr>>

-----------------------------------------------------------------------------
(* The functions by name.                                                     *)

Code ==
    [ parse_module_file |-> parse_module_file,
      parse_stmts |-> parse_stmts,
      parse_module |-> parse_module,
      parse_module_var_or_type_def |-> parse_module_var_or_type_def,
      parse_class_def |-> parse_class_def,
      parse_class_def_head |-> parse_class_def_head,
      parse_class_parent_list |-> parse_class_parent_list,
      parse_class_def_body |-> parse_class_def_body,
      parse_type_def |-> parse_type_def,
      parse_class_var_or_fun_def |-> parse_class_var_or_fun_def,
      parse_op_fun_name |-> parse_op_fun_name,
      parse_var_def_list |-> parse_var_def_list,
      parse_var_def_list_rest |-> parse_var_def_list_rest,
      parse_var_def |-> parse_var_def,
      parse_var_def_rest |-> parse_var_def_rest,
      parse_fun_def_rest |-> parse_fun_def_rest,
      parse_op_fun_def_rest |-> parse_op_fun_def_rest,
      parse_constructor_def_rest |-> parse_constructor_def_rest,
      parse_param_list |-> parse_param_list,
      parse_param |-> parse_param,
      parse_init |-> parse_init,
      parse_init_list_or_map |-> parse_init_list_or_map,
      parse_init_list |-> parse_init_list,
      parse_init_map |-> parse_init_map,
      parse_block |-> parse_block,
      parse_as_block |-> parse_as_block,
      parse_stmt |-> parse_stmt,
      parse_stmt_local |-> parse_stmt_local,
      parse_stmt_type |-> parse_stmt_type,
      parse_expr_stmt |-> parse_expr_stmt,
      parse_if |-> parse_if,
      parse_for |-> parse_for,
      parse_while |-> parse_while,
      parse_which |-> parse_which,
      parse_which_case |-> parse_which_case,
      parse_cond |-> parse_cond,
      parse_return |-> parse_return,
      parse_break |-> parse_break,
      parse_continue |-> parse_continue,
      parse_expr |-> parse_expr,
      parse_expr_climb_rest |-> parse_expr_climb_rest,
      parse_expr_climb |-> parse_expr_climb,
      parse_expr_lhs |-> parse_expr_lhs,
      parse_expr_lhs_local |-> parse_expr_lhs_local,
      parse_paren_expr_or_cast |-> parse_paren_expr_or_cast,
      parse_class_const_or_type_op |-> parse_class_const_or_type_op,
      parse_class_const_or_type_op_rest |-> parse_class_const_or_type_op_rest,
      parse_type_op_rest |-> parse_type_op_rest,
      parse_type_expr |-> parse_type_expr,
      parse_array_dims |-> parse_array_dims,
      parse_full_type_name_rest |-> parse_full_type_name_rest,
      parse_type_name |-> parse_type_name,
      parse_type_spec |-> parse_type_spec,
      parse_type_ident |-> parse_type_ident,
      parse_is_ref |-> parse_is_ref,
      parse_funcall |-> parse_funcall,
      parse_op_call |-> parse_op_call,
      parse_op_call_rest |-> parse_op_call_rest,
      parse_arg_list |-> parse_arg_list,
      parse_array_access |-> parse_array_access,
      parse_member_access_or_type_op_or_op_call |-> parse_member_access_or_type_op_or_op_call,
      parse_member_access_rest |-> parse_member_access_rest,
      parse_base_type_select |-> parse_base_type_select,
      parse_ternary_rest |-> parse_ternary_rest,
      parse_class_const_rest |-> parse_class_const_rest,
      parse_ident |-> parse_ident,
      parse_class_name |-> parse_class_name,
      parse_bool_lit |-> parse_bool_lit,
      parse_num_lit |-> parse_num_lit,
      parse_char_lit |-> parse_char_lit,
      parse_str_lit |-> parse_str_lit ]
=============================================================================
