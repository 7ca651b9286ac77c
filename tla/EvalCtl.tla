------------------------------ MODULE EvalCtl -------------------------------
(* Evaluation of statements and calls: EvalVisitor, EvalWhich, EvalCond and   *)
(* EvalFuncall over the stacks of EvalEnv.  What remains to be done is a      *)
(* stack of frames: a scope or a call is left, and an exception is caught, by *)
(* a frame of its own, as the destructors and the handlers of the code do it. *)
(* A value is the object it refers to, numbered as the objects are made, and  *)
(* how many conditions (x as T) have given it another type.  What a condition *)
(* yields is chosen when it is evaluated.                                     *)
EXTENDS Integers, Sequences, FiniteSets, TLC

CONSTANTS
    Names,      \* the names of variables
    Statements, \* the statements of the programs, the parts of each among them
    Programs,   \* the statements evaluated, the body of the function they call,
                \* its parameter and whether it returns a reference
    MaxLoop,    \* EvalOptions: max_loop_iterations
    MaxAsked,   \* bound on the conditions that may hold
    MaxCalls    \* bound on calls within each other

ASSUME BoundsAssumption == MaxLoop \in Nat /\ MaxAsked \in Nat /\ MaxCalls \in Nat \ {0}

\* A condition, of which <<"none">> always holds, and a case of a which.
Conditions == { <<"none">> } \cup ({"is", "as"} \X Names)
WhichCases(S) == [conds : Seq(Conditions) \ {<<>>}, branch : S]

\* The kinds of statements, with what each has for its parts.
Closed(S) ==
    \A s \in S :
        \/ s \in {"var", "use"} \X Names
        \/ s \in {"block"} \X Seq(S)
        \/ s \in {"if"} \X Conditions \X S \X Seq(S)
        \/ s \in {"while", "for"} \X Conditions \X S
        \/ s \in {"which"} \X Seq(WhichCases(S))
        \/ s \in { <<"break">>, <<"continue">> }
        \/ s \in {"return", "call"} \X (Names \cup {""})

ASSUME StatementsAssumption ==
    /\ Closed(Statements)
    /\ {"i", "p"} \subseteq Names /\ {"var", "use"} \X {"i"} \subseteq Statements

ASSUME ProgramsAssumption ==
    Programs \subseteq [main : Seq(Statements), body : Seq(Statements), returns : BOOLEAN]

VARIABLES
    prog,    \* the program evaluated
    frames,  \* what remains to be done, the next first
    scopes,  \* the scopes entered, the innermost last
    calls,   \* the functions called: how many
    count,   \* the objects made so far
    asked,   \* what the conditions evaluated so far have yielded
    log,     \* what the expression statements evaluated to
    errors,  \* how many errors have been reported
    thrown,  \* the exception on its way, "" if none
    result,  \* the value returned
    done,    \* a loop was left by break
    end      \* "" while running, then how the evaluation ended

vars == <<prog, frames, scopes, calls, count, asked, log, errors, thrown, result, done, end>>

Scope(flags, parent, vs) == [flags |-> flags, parent |-> parent, vars |-> vs]
NoVars == <<>>
NoValue == <<0, 0>>

Init ==
    /\ prog \in Programs
    /\ frames = prog.main
    /\ scopes = <<Scope({}, 0, NoVars)>>
    /\ calls = 0 /\ count = 0 /\ asked = <<>> /\ log = <<>> /\ errors = 0
    /\ thrown = "" /\ result = NoValue /\ done = FALSE /\ end = ""

-----------------------------------------------------------------------------
Top == Head(frames)
Rest == Tail(frames)
Runs(kind) == end = "" /\ thrown = "" /\ frames # <<>> /\ Top[1] = kind

Continue(fs) == frames' = fs \o Rest
Here == Len(scopes)

\* get(): the variable a name means in the scope at k, and in(): a flag of the
\* scope at k or of one around it.
Get(x, k) ==
    LET get[j \in 0 .. k] ==
            IF j = 0 THEN NoValue
            ELSE IF x \in DOMAIN scopes[j].vars THEN scopes[j].vars[x]
            ELSE get[scopes[j].parent]
    IN  get[k]
In(flag, k) ==
    LET in[j \in 0 .. k] == j # 0 /\ (flag \in scopes[j].flags \/ in[scopes[j].parent])
    IN  in[k]
Value(x) == Get(x, Here)

Enter(flags) == Append(scopes, Scope(flags, Here, NoVars))
\* Mutant: a scope is left by the statement, not by a destructor.
LeaveInOrder == IF thrown = "" THEN SubSeq(scopes, 1, Here - 1) ELSE scopes

Leave == SubSeq(scopes, 1, Here - 1)
Leaving == <<"leave">>

Same == UNCHANGED <<prog, end>>
Quiet == UNCHANGED <<calls, log, errors, thrown, result, done>>

Crash(how) ==
    end' = how /\ UNCHANGED <<prog, frames, scopes, calls, count, asked, log, thrown, result, done>>

\* A name that is not found is reported wherever it is evaluated.
Report == errors' = errors + 1

\* What a condition may yield.
Outcomes(c) ==
    IF c = <<"none">> THEN {TRUE}
    ELSE IF Len(asked) < MaxAsked THEN BOOLEAN ELSE {FALSE}
Asks(c, b) ==
    asked' = IF c = <<"none">> \/ Len(asked) = MaxAsked THEN asked ELSE Append(asked, b)

\* A condition evaluated in the innermost of ss: one that matches (x as T) is
\* followed by a scope in which x is a reference of type T.
Matches(c, b) == b /\ c[1] = "as"
Bound(c, b, ss) ==
    IF Matches(c, b)
    THEN LET v == Value(c[2]) IN
         Append(ss, Scope({"AsCond"}, Len(ss), c[2] :> <<v[1], v[2] + 1>>))
    ELSE ss
Unbound(c, b) == IF Matches(c, b) THEN <<Leaving>> ELSE <<>>
Fails(c) == c # <<"none">> /\ Value(c[2]) = NoValue

-----------------------------------------------------------------------------
\* A second variable of one name in a scope changes nothing but is made.
VarDef ==
    /\ Runs("var")
    /\ count' = count + 1
    /\ scopes' = [scopes EXCEPT ![Here].vars = @ @@ Top[2] :> <<count + 1, 0>>]
    /\ Continue(<<>>) /\ Same /\ Quiet /\ UNCHANGED asked

ExprStmt ==
    /\ Runs("use")
    /\ errors' = IF Value(Top[2]) = NoValue THEN errors + 1 ELSE errors
    /\ log' = Append(log, Value(Top[2]))
    /\ Continue(<<>>) /\ Same /\ UNCHANGED <<scopes, calls, count, asked, thrown, result, done>>

Block ==
    /\ Runs("block")
    /\ scopes' = Enter({})
    /\ Continue(Append(Top[2], Leaving)) /\ Same /\ Quiet /\ UNCHANGED <<count, asked>>

If ==
    /\ Runs("if")
    /\ LET c == Top[2] IN
       IF Fails(c) THEN Crash("crash") /\ Report
       ELSE \E b \in Outcomes(c) :
               /\ Asks(c, b) /\ scopes' = Bound(c, b, Enter({}))
               /\ Continue((IF b THEN <<Top[3]>> \o Unbound(c, b) ELSE Top[4]) \o <<Leaving>>)
               /\ Same /\ Quiet /\ UNCHANGED count

\* For and While: the scope of the loop, then its turns.
Loop ==
    /\ Runs("while") \/ Runs("for")
    /\ scopes' = Enter({"Break", "Continue"})
    /\ Continue((IF Top[1] = "for" THEN << <<"var", "i">> >> ELSE <<>>)
                \o << <<"turn", Top, 0>>, Leaving >>)
    /\ done' = FALSE
    /\ Same /\ UNCHANGED <<count, asked, calls, log, errors, thrown, result>>

Turn ==
    /\ Runs("turn") /\ ~done
    /\ LET c == Top[2][2]
           body == << Top[2][3], <<"try", {"break", "continue"}>> >>
       IN  IF Top[3] = MaxLoop
           THEN /\ thrown' = "error" /\ frames' = Rest
                /\ Same /\ UNCHANGED <<scopes, calls, count, asked, log, errors, result, done>>
           ELSE IF Fails(c) THEN Crash("crash") /\ Report
           ELSE \E b \in Outcomes(c) :
                   /\ Asks(c, b) /\ scopes' = Bound(c, b, Enter({}))
                   /\ Continue(IF b THEN body \o Unbound(c, b)
                                         \o << <<"again", Top[2]>>, Leaving,
                                               <<"turn", Top[2], Top[3] + 1>> >>
                               ELSE <<Leaving>>)
                   /\ Same /\ Quiet /\ UNCHANGED count

\* Mutant: the update is made before it is looked at how the body was left.
AgainAnyway ==
    /\ Runs("again")
    /\ Continue(IF Top[2][1] = "for" THEN << <<"use", "i">> >> ELSE <<>>)
    /\ Same /\ Quiet /\ UNCHANGED <<scopes, count, asked>>

\* A loop that was left by break makes no update and no other turn.
Again ==
    /\ Runs("again")
    /\ Continue(IF Top[2][1] = "for" /\ ~done THEN << <<"use", "i">> >> ELSE <<>>)
    /\ Same /\ Quiet /\ UNCHANGED <<scopes, count, asked>>

EndOfLoop ==
    /\ Runs("turn") /\ done
    /\ Continue(<<>>) /\ Same /\ Quiet /\ UNCHANGED <<scopes, count, asked>>

Which ==
    /\ Runs("which")
    /\ scopes' = Enter({"Break"})
    /\ Continue(<< <<"cases", Top[2]>>, <<"try", {"break"}>>, Leaving >>)
    /\ Same /\ Quiet /\ UNCHANGED <<count, asked>>

\* The next condition of the first case left; a default among them matches
\* before any is evaluated.
Case ==
    /\ Runs("cases")
    /\ LET first == Head(Top[2])
           default == \E i \in DOMAIN first.conds : first.conds[i] = <<"none">>
           c == IF default THEN <<"none">> ELSE Head(first.conds)
           left == IF Len(first.conds) > 1
                   THEN <<[first EXCEPT !.conds = Tail(@)]>> \o Tail(Top[2]) ELSE Tail(Top[2])
       IN  IF Top[2] = <<>>
           THEN Continue(<<>>) /\ Same /\ Quiet /\ UNCHANGED <<scopes, count, asked>>
           ELSE IF Fails(c) /\ c[1] = "as" THEN Crash("crash") /\ Report
           ELSE IF Fails(c)
           THEN /\ Report /\ thrown' = "error" /\ frames' = Rest
                /\ Same /\ UNCHANGED <<scopes, calls, count, asked, log, result, done>>
           ELSE \E b \in Outcomes(c) :
                   /\ Asks(c, b)
                   /\ scopes' = IF Matches(c, b) THEN Bound(c, b, scopes)
                                ELSE IF b THEN Enter({}) ELSE scopes
                   /\ Continue(IF b THEN <<first.branch, Leaving>> ELSE << <<"cases", left>> >>)
                   /\ Same /\ Quiet /\ UNCHANGED count

\* break and continue, where a scope around says that they may be.
Jump ==
    /\ Runs("break") \/ Runs("continue")
    /\ LET may == In(IF Top[1] = "break" THEN "Break" ELSE "Continue", Here) IN
       /\ thrown' = IF may THEN Top[1] ELSE ""
       /\ errors' = IF may THEN errors ELSE errors + 1
    /\ frames' = Rest /\ Same
    /\ UNCHANGED <<scopes, calls, count, asked, log, result, done>>

\* ret_res(): only an xvalue is compared with the level of the scope, and a
\* name is never one.
IsXvalue == FALSE

Return ==
    /\ Runs("return")
    /\ IF Top[2] # "" /\ Value(Top[2]) = NoValue THEN Crash("crash") /\ Report
       ELSE IF calls = 0 THEN Crash("crash") /\ UNCHANGED errors
       ELSE LET refused == (Top[2] # "") # prog.returns \/ IsXvalue
                v == IF Top[2] = "" \/ refused THEN NoValue ELSE Value(Top[2])
            IN  /\ thrown' = "return" /\ frames' = Rest /\ result' = v
                /\ errors' = IF refused THEN errors + 1 ELSE errors
                /\ Same /\ UNCHANGED <<scopes, calls, count, asked, log, done>>

\* Mutant: a function's scope is inside its caller's, as every other scope is.
CallersScope == Here

\* The scope a function's names are looked up in is its class's, not the caller's.
ParentOfFun == 0

\* do_funcall(): a literal is kept in a variable of the call's own.
Call ==
    /\ Runs("call")
    /\ LET literal == Top[2] = ""
           arg == IF literal THEN <<count + 1, 0>> ELSE Value(Top[2])
       IN  IF arg = NoValue
           THEN /\ errors' = errors + 1 /\ Continue(<<>>) /\ Same
                /\ UNCHANGED <<scopes, calls, count, asked, log, thrown, result, done>>
           ELSE IF calls = MaxCalls THEN Crash("deep") /\ UNCHANGED errors
           ELSE /\ count' = IF literal THEN count + 1 ELSE count
                /\ calls' = calls + 1
                /\ scopes' = Append(scopes, Scope({"Fun"}, ParentOfFun, "p" :> arg))
                /\ result' = NoValue
                /\ Continue(prog.body \o << <<"fun">>, <<"leavecall">>, <<"log">> >>)
                /\ Same /\ UNCHANGED <<asked, log, errors, thrown, done>>

\* The end of a function is reached: one that should return a value has not.
EndOfFun ==
    /\ Runs("fun")
    /\ errors' = IF prog.returns THEN errors + 1 ELSE errors
    /\ Continue(<<>>) /\ Same
    /\ UNCHANGED <<scopes, calls, count, asked, log, thrown, result, done>>

LogResult ==
    /\ Runs("log")
    /\ log' = Append(log, result)
    /\ Continue(<<>>) /\ Same
    /\ UNCHANGED <<scopes, calls, count, asked, errors, thrown, result, done>>

EndOfTry ==
    /\ Runs("try")
    /\ done' = FALSE /\ Continue(<<>>) /\ Same
    /\ UNCHANGED <<scopes, calls, count, asked, log, errors, thrown, result>>

\* Destructors: a scope is left, and a call with its scope, also on the way of
\* an exception.
LeaveScope ==
    /\ end = "" /\ frames # <<>> /\ Top[1] \in {"leave", "leavecall"}
    /\ scopes' = Leave
    /\ calls' = IF Top[1] = "leavecall" THEN calls - 1 ELSE calls
    /\ frames' = Rest /\ Same /\ UNCHANGED <<count, asked, log, errors, thrown, result, done>>

Catch ==
    /\ end = "" /\ thrown # "" /\ frames # <<>>
    /\ \/ Top[1] = "try" /\ thrown \in Top[2] /\ done' = (thrown = "break")
       \/ Top[1] = "fun" /\ thrown = "return" /\ UNCHANGED done
    /\ thrown' = "" /\ frames' = Rest
    /\ Same /\ UNCHANGED <<scopes, calls, count, asked, log, errors, result>>

Unwind ==
    /\ end = "" /\ thrown # "" /\ frames # <<>>
    /\ Top[1] \notin {"leave", "leavecall"}
    /\ ~(Top[1] = "try" /\ thrown \in Top[2]) /\ ~(Top[1] = "fun" /\ thrown = "return")
    /\ frames' = Rest
    /\ Same /\ UNCHANGED <<scopes, calls, count, asked, log, errors, thrown, result, done>>

Finish ==
    /\ end = "" /\ frames = <<>>
    /\ end' = IF thrown = "" THEN "done" ELSE thrown
    /\ UNCHANGED <<prog, frames, scopes, calls, count, asked, log, errors, thrown, result, done>>

Next ==
    \/ VarDef \/ ExprStmt \/ Block \/ If \/ Loop \/ Turn \/ Again \/ EndOfLoop \/ Which \/ Case \/ Jump
    \/ Return \/ Call \/ EndOfFun \/ LogResult \/ EndOfTry \/ LeaveScope \/ Catch
    \/ Unwind \/ Finish

Spec == Init /\ [][Next]_vars

-----------------------------------------------------------------------------
(* However an evaluation ends but by a crash, the scopes and the calls it     *)
(* entered have been left, so that the next one begins where this one did.    *)
UnwindRestores ==
    end # "" => end \in {"crash", "deep"} \/ (Here = 1 /\ calls = 0)

(* A break or a continue that is on its way is caught in the function it is   *)
(* in: the flags of the scopes, which allow it, agree with the handlers.      *)
JumpIsCaught ==
    thrown \in {"break", "continue"} =>
        \E i \in DOMAIN frames :
            /\ frames[i][1] = "try" /\ thrown \in frames[i][2]
            /\ \A j \in 1 .. i - 1 : frames[j][1] # "fun"

(* A reference that a call returns is to an object that is still there: the   *)
(* code means to report a "reference to local variable".                      *)
Alive(v) == \E k \in 1 .. Here : \E x \in DOMAIN scopes[k].vars : scopes[k].vars[x][1] = v[1]
ReturnsLiving == Runs("log") /\ result # NoValue => Alive(result)
=============================================================================
