---------------------------- MODULE EvalMeaning -----------------------------
(* What a program means, without stacks and exceptions: a statement takes a   *)
(* state and gives one, with the way it was left.  Names are those of the     *)
(* text: a statement sees the names declared around it in its function.       *)
EXTENDS EvalCtl

\* env: the names in sight; own: those declared in the same block; out: how a
\* statement was left, "" if by its end; within: the jumps it may contain.
Begin == [env |-> <<>>, own |-> {}, within |-> {}, count |-> 0, turn |-> 0, depth |-> 0,
          log |-> <<>>, errors |-> 0, result |-> NoValue, out |-> ""]

Sees(m, x) == x \in DOMAIN m.env
Named(m, x) == IF Sees(m, x) THEN m.env[x] ELSE NoValue
Declare(m, x, v) ==
    [m EXCEPT !.own = @ \cup {x}, !.env = IF x \in m.own THEN @ ELSE x :> v @@ @]

\* The next answer a condition got.
Answer(m) == m.turn < Len(asked) /\ asked[m.turn + 1]
Holds(m, c) == c = <<"none">> \/ Answer(m)
Asked(m, c) == IF c = <<"none">> THEN m ELSE [m EXCEPT !.turn = @ + 1]
Undefined(m, c) == c # <<"none">> /\ ~Sees(m, c[2])
\* A name that nothing declares is reported, and how that is left.
Unknown(m, how) == [m EXCEPT !.errors = @ + 1, !.out = how]

RECURSIVE Run(_, _), RunAll(_, _), Turns(_, _, _), Cases(_, _)

\* ss in a block of its own, and what is seen once it is left.
Inside(ss, m, names) ==
    LET r == RunAll(ss, [m EXCEPT !.own = DOMAIN names, !.env = names @@ @]) IN
    [r EXCEPT !.own = m.own, !.env = m.env, !.within = m.within]

\* The names of a branch taken because c holds.
Cast(m, c) == IF c[1] = "as" THEN c[2] :> <<m.env[c[2]][1], m.env[c[2]][2] + 1>> ELSE NoVars

RunAll(ss, m) == IF ss = <<>> \/ m.out # "" THEN m ELSE RunAll(Tail(ss), Run(Head(ss), m))

\* The turns of a loop from the n-th on.
Turns(s, m, n) ==
    LET c == s[2]
        body == Inside(<<s[3]>>, Asked(m, c), Cast(m, c))
        after == [body EXCEPT !.out = IF @ = "continue" THEN "" ELSE @]
        next == IF s[1] = "for" /\ after.out = "" THEN Run(<<"use", "i">>, after) ELSE after
    IN  IF n = MaxLoop THEN [m EXCEPT !.out = "error"]
        ELSE IF Undefined(m, c) THEN Unknown(m, "crash")
        ELSE IF ~Holds(m, c) THEN Asked(m, c)
        ELSE IF next.out = "break" THEN [next EXCEPT !.out = ""]
        ELSE IF next.out # "" THEN next
        ELSE Turns(s, next, n + 1)

\* The first case that has a default or a condition that holds.
Cases(cs, m) ==
    LET first == Head(cs)
        default == \E i \in DOMAIN first.conds : first.conds[i] = <<"none">>
        c == IF default THEN <<"none">> ELSE Head(first.conds)
        others == IF Len(first.conds) = 1 THEN Tail(cs)
                  ELSE <<[first EXCEPT !.conds = Tail(@)]>> \o Tail(cs)
    IN  IF cs = <<>> THEN m
        ELSE IF Undefined(m, c) THEN Unknown(m, IF c[1] = "as" THEN "crash" ELSE "error")
        ELSE IF Holds(m, c) THEN Inside(<<first.branch>>, Asked(m, c), Cast(m, c))
        ELSE Cases(others, Asked(m, c))

RunCall(s, m) ==
    LET arg == IF s[2] = "" THEN <<m.count + 1, 0>> ELSE Named(m, s[2])
        begin == [m EXCEPT !.env = "p" :> arg, !.own = {"p"}, !.within = {}, !.depth = @ + 1,
                           !.result = NoValue, !.count = IF s[2] = "" THEN @ + 1 ELSE @]
        ran == RunAll(prog.body, begin)
        missing == ran.out = "" /\ prog.returns
    IN  IF arg = NoValue THEN [m EXCEPT !.errors = @ + 1]
        ELSE IF m.depth = MaxCalls THEN [m EXCEPT !.out = "deep"]
        ELSE [ran EXCEPT !.env = m.env, !.own = m.own, !.within = m.within, !.depth = m.depth,
                         !.errors = IF missing THEN @ + 1 ELSE @,
                         !.log = IF ran.out \in {"", "return"} THEN Append(@, ran.result) ELSE @,
                         !.out = IF @ = "return" THEN "" ELSE @]

Run(s, m) ==
    CASE s[1] = "var" -> [Declare(m, s[2], <<m.count + 1, 0>>) EXCEPT !.count = @ + 1]
      [] s[1] = "use" -> [m EXCEPT !.log = Append(@, Named(m, s[2])),
                                   !.errors = IF Sees(m, s[2]) THEN @ ELSE @ + 1]
      [] s[1] = "block" -> Inside(s[2], m, NoVars)
      [] s[1] = "if" ->
            IF Undefined(m, s[2]) THEN Unknown(m, "crash")
            ELSE IF Holds(m, s[2]) THEN Inside(<<s[3]>>, Asked(m, s[2]), Cast(m, s[2]))
            ELSE Inside(s[4], Asked(m, s[2]), NoVars)
      [] s[1] \in {"while", "for"} ->
            LET loop == [m EXCEPT !.own = {}, !.within = {"break", "continue"}]
                r == IF s[1] = "for" THEN Turns(s, Run(<<"var", "i">>, loop), 0)
                     ELSE Turns(s, loop, 0)
            IN  [r EXCEPT !.env = m.env, !.own = m.own, !.within = m.within]
      [] s[1] = "which" ->
            LET r == Cases(s[2], [m EXCEPT !.own = {}, !.within = @ \cup {"break"}]) IN
            [r EXCEPT !.env = m.env, !.own = m.own, !.within = m.within,
                      !.out = IF @ = "break" THEN "" ELSE @]
      [] s[1] \in {"break", "continue"} ->
            IF s[1] \in m.within THEN [m EXCEPT !.out = s[1]] ELSE [m EXCEPT !.errors = @ + 1]
      [] s[1] = "return" ->
            LET refused == (s[2] # "") # prog.returns IN
            IF s[2] # "" /\ ~Sees(m, s[2]) THEN Unknown(m, "crash")
            ELSE IF m.depth = 0 THEN [m EXCEPT !.out = "crash"]
            ELSE [m EXCEPT !.out = "return", !.errors = IF refused THEN @ + 1 ELSE @,
                           !.result = IF refused \/ s[2] = "" THEN NoValue ELSE m.env[s[2]]]
      [] s[1] = "call" -> RunCall(s, m)

(* Stacks and exceptions come to what the program means: the same objects     *)
(* under the same names, as many errors, and the same end.                    *)
ImplementsMeaning ==
    end # "" =>
        LET m == RunAll(prog.main, Begin) IN
        /\ log = m.log /\ errors = m.errors /\ count = m.count
        /\ end = IF m.out = "" THEN "done" ELSE m.out
=============================================================================
