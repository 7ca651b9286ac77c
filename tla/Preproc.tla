------------------------------ MODULE Preproc -------------------------------
(* The preprocessor: Preproc over the lexers of the sources being read.  It   *)
(* passes tokens on, leaves out comments, and obeys the directives ulam, use  *)
(* and load; load continues with the tokens of another source.                *)
EXTENDS Lexer

CONSTANTS
    Texts,      \* what may be read: how the main text begins, how many more
                \* characters it may have and which, and the texts it may load
    MaxDepth    \* bound on the sources read within each other: a load beyond it is
                \* not followed

ASSUME TextsAssumption ==
    \A x \in Texts :
        /\ x.begin \in Seq(STRING) /\ x.more \in Nat /\ x.chars \in SUBSET STRING
        /\ \A l \in x.loaded : l \in Seq(STRING) /\ l # <<>> /\ l[Len(l)] = "nul"

\* More than there are sources, so that only one read within itself meets it.
ASSUME DepthAssumption == MaxDepth \in Nat /\ MaxDepth > 2

VARIABLES
    directive,  \* the directive being read and the source it loads
    wanted,     \* the type the next token should have, or "any"
    stop,       \* the types that end the search of a directive that failed, {} before
    version     \* the source that set the language version last, or "none"

vars == <<texts, lexvars, directive, wanted, stop, version>>

None == <<"none", "none">>

Init ==
    /\ \E x \in Texts : \E n \in 0 .. x.more : \E t \in [1 .. n -> x.chars], l \in x.loaded :
            texts = [a |-> x.begin \o t \o <<"nul">>, b |-> l]
    /\ sources = <<Lexer("a")>>
    /\ lexing = "blank" /\ esc = FALSE /\ token = NoToken /\ end = "running"
    /\ directive = None /\ wanted = "any" /\ stop = {} /\ version = "none"

-----------------------------------------------------------------------------
Receives == end = "running" /\ lexing = "done"

\* The next token, as a path if p, into a token whose type is t so far.
Ask(ls, p, t) ==
    /\ sources' = <<[Head(ls) EXCEPT !.path = p]>> \o Tail(ls)
    /\ lexing' = "blank" /\ token' = t /\ UNCHANGED esc

Passes == Receives /\ directive = None

\* operator>> goes on with the tokens the parser is to have.
Restart(ls) ==
    /\ directive' = None /\ wanted' = "any" /\ stop' = {}
    /\ Ask(ls, FALSE, [NoToken EXCEPT !.type =
           IF directive = None THEN token.type ELSE directive[1]])

NotToParser == {"Ulam", "Use", "Load", "Comment", "Eof"}

\* The type the parser sees of a token.
ParserType(t) ==
    IF t \in {"Self", "Super"} THEN "Ident"
    ELSE IF t \in {"SelfClass", "SuperClass"} THEN "TypeIdent"
    ELSE IF t = "IntT" THEN "BuiltinTypeIdent"
    ELSE IF t = "__File" THEN "String"
    ELSE t

Deliver ==
    /\ Passes /\ token.type \notin NotToParser
    /\ directive' = None /\ wanted' = "any" /\ stop' = {}
    /\ Ask(sources, FALSE, [token EXCEPT !.type = ParserType(@)])
    /\ UNCHANGED <<texts, end, version>>

SkipComment ==
    /\ Passes /\ token.type = "Comment"
    /\ Restart(sources) /\ UNCHANGED <<texts, end, version>>

\* At the end of a source the one that loaded it goes on.
LeaveSource ==
    /\ Passes /\ token.type = "Eof"
    /\ IF Len(sources) = 1
       THEN end' = "done" /\ UNCHANGED <<sources, lexing, esc, token, directive, wanted, stop>>
       ELSE Restart(Tail(sources)) /\ UNCHANGED end
    /\ UNCHANGED <<texts, version>>

BeginDirective ==
    /\ Passes /\ token.type \in {"Ulam", "Use", "Load"}
    /\ directive' = <<token.type, "none">>
    /\ wanted' = CASE token.type = "Ulam" -> "Number"
                   [] token.type = "Use" -> "TypeIdent"
                   [] OTHER -> "any"
    /\ stop' = {} /\ Ask(sources, token.type = "Load", NoToken)
    /\ UNCHANGED <<texts, end, version>>

InDirective == Receives /\ directive # None
Expected == stop = {} /\ token.type = wanted

\* The end of the directive is wanted next.
WantSemicol == wanted' = "Semicol" /\ stop' = {} /\ Ask(sources, FALSE, token)

\* preproc_ulam() and preproc_use(): the first token of the directive is right.
TakeArgument ==
    /\ InDirective /\ wanted \in {"Number", "TypeIdent"} /\ Expected
    /\ version' = IF wanted = "Number" THEN Lex.src ELSE version
    /\ WantSemicol /\ UNCHANGED <<texts, end, directive>>

\* preproc_load(): what is quoted names a source, or nothing.
PathOf ==
    LET closing == IF Text[token.from] = "<" THEN ">" ELSE "quot"
        closed == token.to > token.from /\ Text[token.to] = closing
        s == SubSeq(Text, token.from + 1, IF closed THEN token.to - 1 ELSE token.to)
    IN  IF Len(s) = 1 THEN s[1] ELSE "none"

Halt(how) == end' = how /\ UNCHANGED <<sources, lexing, esc, token, directive, wanted, stop>>

TakePath ==
    /\ InDirective /\ wanted = "any"
    /\ IF token.to = 0 \/ Text[token.from] \notin {"quot", "<"} THEN Halt("badpath")
       ELSE IF PathOf \notin DOMAIN texts THEN Halt("notfound")
       ELSE directive' = <<"Load", PathOf>> /\ WantSemicol /\ UNCHANGED end
    /\ UNCHANGED <<texts, version>>

FinishDirective ==
    /\ InDirective /\ wanted = "Semicol" /\ Expected
    /\ IF directive[1] # "Load" THEN Restart(sources)
       ELSE Len(sources) < MaxDepth /\ Restart(<<Lexer(directive[2])>> \o sources)
    /\ UNCHANGED <<texts, end, version>>

\* expect() when the token is not the one: the next one is read before any is
\* looked at, and on to one that stops.  The end of the text does not end it
\* when it is that first token.
Unexpected ==
    /\ InDirective /\ wanted # "any" /\ stop = {} /\ token.type # wanted
    /\ stop' = IF wanted = "Semicol" THEN {"Eof"} ELSE {"Semicol", "Eof"}
    /\ Ask(sources, FALSE, token)
    /\ UNCHANGED <<texts, end, directive, wanted, version>>

Search ==
    /\ InDirective /\ stop # {} /\ token.type \notin stop
    /\ Ask(sources, FALSE, token)
    /\ UNCHANGED <<texts, end, directive, wanted, stop, version>>

\* A directive given up is not reported.
GiveUp ==
    /\ InDirective /\ stop # {} /\ token.type \in stop
    /\ Restart(sources) /\ UNCHANGED <<texts, end, version>>

LexStep ==
    /\ Overrun \/ skip_whitespace \/ lex \/ lex_str \/ lex_chr \/ lex_comment \/ lex_ml_comment
    /\ UNCHANGED <<directive, wanted, stop, version>>

Next ==
    \/ LexStep \/ Deliver \/ SkipComment \/ LeaveSource \/ BeginDirective \/ TakeArgument
    \/ TakePath \/ FinishDirective \/ Unexpected \/ Search \/ GiveUp

Spec == Init /\ [][Next]_vars /\ WF_vars(Next)

-----------------------------------------------------------------------------
(* Where the text of a literal or a comment ends.                             *)

\* The character at k comes after an odd number of backslashes within the token.
Escaped(k) ==
    \E i \in token.from + 1 .. k - 1 :
        /\ \A j \in i .. k - 1 : Text[j] = "\\"
        /\ Text[i - 1] # "\\" \/ i = token.from + 1
        /\ (k - i) % 2 = 1

\* A line ends at k, and the place where its end begins.
EndOfLine(k) == Text[k] = "nl"
LineEndBegins(k) == IF Text[k - 1] = "cr" THEN k - 1 ELSE k

\* The first place from k on where P holds of the text.
Terminates(k, closing) ==
    \/ EndOfLine(k) /\ ~Escaped(LineEndBegins(k))
    \/ Text[k] = closing /\ ~Escaped(k)

TokenIs(type, opening) ==
    Receives /\ token.type = type /\ token.to > 0 /\ Text[token.from] = opening

\* The text has a quote that is escaped in a character.
EscapedQuote ==
    \E k \in 1 .. Len(Text) - 1 : Text[k] = "\\" /\ Text[k + 1] = "'"

(* A string or a character ends with the first quote or end of line that is   *)
(* not escaped, and only the end of the text ends it otherwise.  An escaped   *)
(* quote in a character is the exception: the code passes over what follows.  *)
LiteralsEnd ==
    \A q \in {"quot", "'"} :
        TokenIs(IF q = "'" THEN "Char" ELSE "String", q) /\ ~(q = "'" /\ EscapedQuote) =>
            /\ \A k \in token.from + 1 .. token.to - 1 : ~Terminates(k, q)
            /\ \/ token.to > token.from /\ Terminates(token.to, q)
               \/ Text[token.to + 1] = "nul"

(* A token is where its line and its column say.  The line is the one that    *)
(* the sources find for a message, which count them for themselves.           *)
LineBegins(n) ==
    IF n = 1 THEN 1
    ELSE 1 + CHOOSE k \in 1 .. Len(Text) :
                 Text[k] = "nl" /\ Cardinality({j \in 1 .. k : Text[j] = "nl"}) = n - 1
PlaceIsRight ==
    Receives /\ ~EscapedQuote =>
        /\ token.from = LineBegins(token.line) + token.column - 1
        /\ \A k \in LineBegins(token.line) .. token.from - 1 : Text[k] # "nl"

(* No character after the end of a text is looked at, unless the text has a    *)
(* directive, whose search may run into the end, or an escaped quote.         *)
StaysInside ==
    end = "overrun" =>
        EscapedQuote \/ \E k \in 1 .. Len(Text) : Text[k] \in {"ulam", "use", "load"}

\* The one character no turn of the lexer gets past, a carriage return alone.
AtLoneReturn == lexing = "blank" /\ Inside(Lex.cur) /\ At(0) = "cr" /\ At(1) # "nl"

\* A source is loaded while it is being read: it will load itself again.
ReadWithinItself ==
    \E i, j \in DOMAIN sources : i # j /\ sources[i].src = sources[j].src

(* Every text is read to its end, with two exceptions in which the code does  *)
(* go on for ever: a carriage return alone, and a source that loads itself.   *)
ReadToTheEnd == [](~ReadWithinItself) => <>(end # "running" \/ AtLoneReturn)
=============================================================================
