------------------------------- MODULE Parser -------------------------------
(* Parser: recursive descent over the tokens of a text, with error recovery,  *)
(* as the machine that executes the functions of Grammar.  Tokens are read    *)
(* one at a time from a text that is not fixed in advance: the next token is  *)
(* chosen when it is read.                                                    *)
EXTENDS Grammar, SequencesExt

CONSTANTS
    Texts,       \* how a text may go: its entry point, the tokens it begins
                 \* with, how many more there may be and of which types
    ErrorLimit   \* Diag's MaxErrorNum: the program exits at this many errors

ASSUME TextsAssumption ==
    \A x \in Texts : /\ x.entry \in DOMAIN Code
                     /\ x.begin \in Seq(STRING) /\ x.more \in Nat /\ Eof \notin x.types

VARIABLES
    text,      \* the text being read, a member of Texts
    token,     \* the current token and its position
    back,      \* tokens put back, the next one first
    read,      \* how many tokens have been taken from the text
    open,      \* ghost: the closing tokens that are due, innermost first
    stack,     \* frames of the parse functions, the running one first
    contexts,  \* contexts of the expressions being parsed, innermost first
    value,     \* the value at hand: an operand, or what was last returned
    errors,    \* how many errors have been emitted
    end        \* "" while running; "done", "exit", or where the program aborts

vars == <<text, token, back, read, open, stack, contexts, value, errors, end>>
input == <<token, back, read, open>>

Frame(f, facts, prec) ==
    [fun |-> f, todo |-> Code[f], facts |-> facts, prec |-> prec, saved |-> <<>>]

Init ==
    /\ text \in Texts
    /\ token = <<"", 0>> /\ back = <<>> /\ read = 0 /\ open = <<>>
    /\ stack = <<Frame(text.entry, {}, 0)>>
    /\ contexts = <<>> /\ value = {} /\ errors = 0 /\ end = ""

-----------------------------------------------------------------------------
Top == Head(stack)
Instruction == Head(Top.todo)
Rest == Tail(Top.todo)
Tok == token[1]
Context == IF contexts = <<>> THEN {} ELSE Head(contexts)

Executes(i) == end = "" /\ Top.todo # <<>> /\ Instruction[1] = i

Returns == end = "" /\ IF Top.todo = <<>> THEN TRUE ELSE Instruction[1] = "done"

\* The running frame becomes f.
Becomes(f) == stack' = <<f>> \o Tail(stack)
Continue(s) == Becomes([Top EXCEPT !.todo = s])
WithFacts(F) == Becomes([Top EXCEPT !.todo = Rest, !.facts = F])

Abort(where) == end' = where /\ UNCHANGED <<text, input, stack, contexts, value, errors>>

\* The tokens that may come next in the text.
Offered ==
    IF read < Len(text.begin) THEN {text.begin[read + 1]}
    ELSE IF read < Len(text.begin) + text.more THEN text.types \cup {Eof} ELSE {Eof}

Due(due, t) ==
    IF t \in Opening THEN <<Closer[t]>> \o due
    ELSE IF t \notin Closing THEN due
    ELSE IF due # <<>> /\ Head(due) = t THEN Tail(due) ELSE <<"mismatch">> \o due

NextToken ==
    IF back # <<>>
    THEN token' = Head(back) /\ back' = Tail(back) /\ UNCHANGED <<read, open>>
    ELSE \E t \in Offered :
            /\ token' = <<t, read + 1>> /\ read' = read + 1
            /\ open' = Due(open, t) /\ UNCHANGED back

\* consume(): nothing may be asked for once the end of the text has been read.
Consume ==
    /\ Executes("consume")
    /\ IF back = <<>> /\ Tok = Eof
       THEN Abort("consume")
       ELSE NextToken /\ Continue(Rest) /\ UNCHANGED <<text, contexts, value, errors, end>>

\* panic(): up to one of the stop tokens or the end; what is between brackets
\* is passed over, whichever bracket closes it.
DoPanic ==
    /\ Executes("panic")
    /\ LET stop == Instruction[2]
           depth == Instruction[3]
           deeper == CASE Tok \in Opening -> depth + 1
                       [] depth > 0 /\ Tok \in Closing -> depth - 1
                       [] OTHER -> depth
       IN  IF Tok = Eof \/ (depth = 0 /\ Tok \in stop)
           THEN Continue(Rest) /\ UNCHANGED input
           ELSE NextToken /\ Continue(<< <<"panic", stop, deeper>> >> \o Rest)
    /\ UNCHANGED <<text, contexts, value, errors, end>>

SaveToken ==
    /\ Executes("save")
    /\ Becomes([Top EXCEPT !.todo = Rest,
                           !.saved = SubSeq(@, 1, Instruction[2] - 1) \o <<token>>])
    /\ UNCHANGED <<text, input, contexts, value, errors, end>>

putback ==
    /\ Executes("putback")
    /\ back' = <<token>> \o back /\ token' = Top.saved[Instruction[2]]
    /\ Continue(Rest) /\ UNCHANGED <<text, read, open, contexts, value, errors, end>>

Emit ==
    /\ Executes("report")
    /\ errors' = errors + 1
    /\ end' = IF errors' = ErrorLimit THEN "exit" ELSE ""
    /\ Continue(Rest) /\ UNCHANGED <<text, input, contexts, value>>

\* An assertion of the code on the current token, and a null pointer followed.
Check ==
    /\ Executes("assert")
    /\ IF Tok \in Instruction[2]
       THEN Continue(Rest) /\ UNCHANGED <<text, input, contexts, value, errors, end>>
       ELSE Abort(Top.fun)

FollowNull == Executes("crash") /\ Abort(Top.fun)

SetValue ==
    /\ Executes("give")
    /\ value' = Instruction[2]
    /\ Continue(Rest) /\ UNCHANGED <<text, input, contexts, errors, end>>

SetFacts ==
    /\ \/ Executes("note") /\ WithFacts(Top.facts \cup Instruction[2])
       \/ Executes("forget") /\ WithFacts(Top.facts \ Instruction[2])
       \/ Executes("keep") /\ WithFacts(Top.facts \cup (value \cap Instruction[2]))
    /\ UNCHANGED <<text, input, contexts, value, errors, end>>

Seen(what) ==
    CASE what = "token" -> {Tok}
      [] what = "facts" -> Top.facts
      [] what = "value" -> value
      [] what = "context" -> Context

Branch ==
    /\ Executes("switch")
    /\ LET cases == Instruction[3]
           fits == {i \in DOMAIN cases : cases[i][1] \cap Seen(Instruction[2]) # {}}
       IN  Continue((IF fits = {} THEN Instruction[4] ELSE cases[Min(fits)][2]) \o Rest)
    /\ UNCHANGED <<text, input, contexts, value, errors, end>>

Choose ==
    /\ Executes("either")
    /\ \/ Continue(Instruction[2] \o Rest)
       \/ Continue(Rest)
    /\ UNCHANGED <<text, input, contexts, value, errors, end>>

Loop ==
    /\ \/ Executes("while") /\ Continue(IF Tok \in Instruction[2]
                                        THEN Instruction[3] \o Top.todo ELSE Rest)
       \/ Executes("until") /\ Continue(IF Tok \notin Instruction[2]
                                        THEN Instruction[3] \o Top.todo ELSE Rest)
    /\ UNCHANGED <<text, input, contexts, value, errors, end>>

CallFunction ==
    /\ Executes("call")
    /\ stack' = << Frame(Instruction[2],
                         Instruction[3] \cup (IF Instruction[4] THEN Top.facts ELSE {}),
                         Instruction[5]),
                   [Top EXCEPT !.todo = Rest] >> \o Tail(stack)
    /\ UNCHANGED <<text, input, contexts, value, errors, end>>

\* A function ends with its last instruction or where it returns.
Return ==
    /\ Returns
    /\ stack' = Tail(stack)
    /\ end' = IF stack' = <<>> THEN "done" ELSE ""
    /\ UNCHANGED <<text, input, contexts, value, errors>>

ChangeContext ==
    /\ \/ Executes("open") /\ contexts' = <<Instruction[2]>> \o contexts /\ Continue(Rest)
       \/ /\ Executes("close")
          /\ contexts' = Tail(contexts)
          /\ WithFacts((Top.facts \ {"asCond"}) \cup (Context \cap {"asCond"}))
       \/ /\ Executes("flag")
          /\ contexts' = <<Context \cup Instruction[2]>> \o Tail(contexts) /\ Continue(Rest)
       \/ /\ Executes("unflag")
          /\ contexts' = <<Context \ Instruction[2]>> \o Tail(contexts) /\ Continue(Rest)
    /\ UNCHANGED <<text, input, value, errors, end>>

Climb ==
    /\ \/ Executes("prefix") /\ Continue(BeforeOperand(Tok) \o Rest)
       \/ Executes("infix") /\ Continue(AfterOperand(Tok, Top.prec, Context) \o Rest)
    /\ UNCHANGED <<text, input, contexts, value, errors, end>>

Next ==
    \/ Consume \/ DoPanic \/ SaveToken \/ putback \/ Emit \/ Check \/ FollowNull
    \/ SetValue \/ SetFacts \/ Branch \/ Choose \/ Loop \/ CallFunction \/ Return
    \/ ChangeContext \/ Climb

Spec == Init /\ [][Next]_vars /\ WF_vars(Next)

-----------------------------------------------------------------------------
(* Putting tokens back neither loses a token nor changes their order: the     *)
(* parser goes on with the text exactly as it was read.                       *)
NothingLost ==
    /\ token[2] + Len(back) = read
    /\ \A i \in DOMAIN back : back[i][2] = token[2] + i

(* What the parser cannot read does not vanish: a function that fails has had *)
(* an error reported, unless the text has ended.  A which whose body does not *)
(* begin with a case is the exception: it is dropped without a word, and the  *)
(* statement around it with it.                                               *)
MayDropSilently ==
    {"parse_which", "parse_stmt", "parse_if", "parse_for", "parse_while"}

FailureReported ==
    Returns /\ value = Null
        => errors > 0 \/ Tok = Eof \/ Top.fun \in MayDropSilently

(* A module taken without an error was read to its end, and its brackets      *)
(* match: no combination of nested recoveries passes over text silently.      *)
AcceptedIsBalanced ==
    end = "done" /\ errors = 0 /\ text.entry = "parse_module_file"
        => Tok = Eof /\ open = <<>>

(* The places where a text can end the program other than by the error limit: *)
(* every other assertion of the parser holds whatever the tokens are.         *)
KnownAborts ==
    {"consume", "parse_module_var_or_type_def", "parse_type_ident", "parse_type_spec",
     "parse_class_var_or_fun_def", "parse_op_fun_def_rest", "parse_stmt_type",
     "parse_type_op_rest", "parse_funcall", "parse_op_call", "parse_op_call_rest"}
AbortsWhere == end \in {"", "done", "exit"} \cup KnownAborts

(* Every text is parsed to an end: each turn of every loop takes a token or   *)
(* comes one nearer to the limit of errors.                                   *)
Ends == <>(end # "")

(* What the parser says of an as-cond when it refuses one: "as-cond cannot be *)
(* part of other expression".  A condition that has one is one.               *)
AsCondStandsAlone ==
    end = "" /\ Top.fun = "parse_cond" /\ "asCond" \in Top.facts /\ errors = 0
        => "asCond" \in value

=============================================================================
