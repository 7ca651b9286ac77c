------------------------------- MODULE Lexer --------------------------------
(* Lexical analysis of a text: Lex.  A text is a sequence of characters that  *)
(* ends with "nul".  "sp" is a blank or a tab, and blanks, ends of lines,      *)
(* double quotes, commas, semicolons and braces go by a name; a letter may     *)
(* stand for a whole spelling, so that a keyword is a word of one letter.      *)
(* A turn of a scanning loop is a step; the preprocessor says when the next    *)
(* token is wanted.                                                           *)
EXTENDS Integers, Sequences, FiniteSets

VARIABLES
    texts,    \* the text of each source
    sources,  \* the lexers of the sources being read, the innermost first
    lexing,   \* what is being scanned, "done" when a token is complete
    esc,      \* the character before was an escape
    token,    \* the token being filled: type, first and last place, line, column
    end       \* "running", then how it ended

lexvars == <<sources, lexing, esc, token, end>>

Digits == {"0", "1"}
XDigits == Digits \cup {"b"}
UpperLetters == {"G", "Int", "Self", "FILE"}
Letters == {"b", "g", "u", "x", "ulam", "use", "load", "self"} \cup UpperLetters
WordChars == Digits \cup Letters

Keywords == [ulam |-> "Ulam", use |-> "Use", load |-> "Load", self |-> "Self",
             Self |-> "SelfClass", Int |-> "IntT", FILE |-> "__File"]

\* Tokens of other characters, each with what it is spelled; what begins a
\* comment, a string or a character is told from them first.
Symbols ==
    { << <<"!">>, "Excl">>, << <<"!", "=">>, "ExclEqual">>,
      << <<"#">>, "Sharp">>, << <<"$">>, "Dollar">>, << <<"%">>, "Percent">>,
      << <<"%", "=">>, "PercentEqual">>, << <<"&">>, "Amp">>,
      << <<"&", "&">>, "AmpAmp">>, << <<"&", "=">>, "AmpEqual">>,
      << <<"(">>, "ParenL">>, << <<")">>, "ParenR">>, << <<"*">>, "Ast">>,
      << <<"*", "=">>, "AstEqual">>, << <<"+">>, "Plus">>,
      << <<"+", "=">>, "PlusEqual">>, << <<"+", "+">>, "PlusPlus">>,
      << <<"comma">>, "Comma">>, << <<"-">>, "Minus">>,
      << <<"-", "=">>, "MinusEqual">>, << <<"-", "-">>, "MinusMinus">>,
      << <<".">>, "Period">>, << <<".", ".", ".">>, "Ellipsis">>,
      << <<"/">>, "Slash">>, << <<"/", "=">>, "SlashEqual">>,
      << <<":">>, "Colon">>, << <<"semi">>, "Semicol">>, << <<"<">>, "Less">>,
      << <<"<", "<">>, "LessLess">>, << <<"<", "=">>, "LessEqual">>,
      << <<"<", "<", "=">>, "LessLessEqual">>, << <<"=">>, "Equal">>,
      << <<"=", "=">>, "EqualEqual">>, << <<">">>, "Greater">>,
      << <<">", ">">>, "GreaterGreater">>, << <<">", "=">>, "GreaterEqual">>,
      << <<">", ">", "=">>, "GreaterGreaterEqual">>, << <<"?">>, "Quest">>,
      << <<"[">>, "BracketL">>, << <<"]">>, "BracketR">>, << <<"^">>, "Caret">>,
      << <<"^", "=">>, "CaretEqual">>, << <<"lbrace">>, "BraceL">>,
      << <<"rbrace">>, "BraceR">>, << <<"|">>, "Pipe">>,
      << <<"|", "|">>, "PipePipe">>, << <<"|", "=">>, "PipeEqual">>,
      << <<"~">>, "Tilde">> }

NoToken == [type |-> "Eof", from |-> 0, to |-> 0, line |-> 0, column |-> 0]

Lexer(s) == [src |-> s, cur |-> 1, line |-> 1, start |-> 1, path |-> FALSE]

-----------------------------------------------------------------------------
Lex == Head(sources)
Text == texts[Lex.src]
Inside(k) == k <= Len(Text)
At(k) == Text[Lex.cur + k]

Becomes(l) == sources' = <<l>> \o Tail(sources)
\* Mutant: an escape is not passed over.
StaysAtEscape(n) == Becomes([Lex EXCEPT !.cur = @ + (IF At(0) = "\\" THEN 0 ELSE n)])
advance(n) == Becomes([Lex EXCEPT !.cur = @ + n])
\* Mutant: the line begins where its first end was.
LineOnly(n) == Becomes([Lex EXCEPT !.cur = @ + n, !.line = @ + 1])
newline(n) == Becomes([Lex EXCEPT !.cur = @ + n, !.line = @ + 1, !.start = Lex.cur + n])

\* The token ends before place k.
complete(type, k) == token' = [token EXCEPT !.type = type, !.to = k - 1] /\ lexing' = "done"

\* The first place from k on whose character is not one of C.
After(k, C) ==
    CHOOSE j \in k .. Len(Text) : Text[j] \notin C /\ \A i \in k .. j - 1 : Text[i] \in C

\* Mutant: the end of the text is one more character.
NeverAtEnd == FALSE
AtEnd == At(0) = "nul"

Scans(what) == end = "running" /\ lexing = what /\ Inside(Lex.cur)
\* Mutant: an escape lasts.
EscapeLasts(e) == esc' = (e \/ esc) /\ UNCHANGED <<lexing, token>>
GoOn(e) == esc' = e /\ UNCHANGED <<lexing, token>>

\* The end of a line is one character or two.
LineEnd == IF At(0) = "nl" THEN 1 ELSE IF At(0) = "cr" /\ At(1) = "nl" THEN 2 ELSE 0

\* Nothing follows the character that ends the text.
Overrun ==
    /\ end = "running" /\ lexing # "done" /\ ~Inside(Lex.cur)
    /\ end' = "overrun" /\ UNCHANGED <<texts, sources, lexing, esc, token>>

skip_whitespace ==
    /\ Scans("blank")
    /\ IF LineEnd > 0 THEN newline(LineEnd) /\ UNCHANGED lexing
       ELSE IF At(0) = "sp" THEN advance(1) /\ UNCHANGED lexing
       ELSE IF At(0) = "cr" THEN UNCHANGED <<sources, lexing>>  \* for ever
       ELSE lexing' = "token" /\ UNCHANGED sources
    /\ UNCHANGED <<texts, esc, token, end>>

Place == [from |-> Lex.cur, line |-> Lex.line, column |-> Lex.cur + 1 - Lex.start]
Started == [token EXCEPT !.from = Place.from, !.line = Place.line, !.column = Place.column]

\* The longest token of Symbols at the lexer's place.
Symbol ==
    LET fits == {s \in Symbols :
                    /\ Lex.cur + Len(s[1]) - 1 <= Len(Text)
                    /\ SubSeq(Text, Lex.cur, Lex.cur + Len(s[1]) - 1) = s[1]}
    IN  IF fits = {} THEN <<>> ELSE CHOOSE s \in fits : \A r \in fits : Len(r[1]) <= Len(s[1])

Ends(type, k) ==
    /\ Becomes([Lex EXCEPT !.cur = k])
    /\ token' = [Started EXCEPT !.type = type, !.to = k - 1] /\ lexing' = "done"

\* The places where a number ends and where a word does.
NumberEnd ==
    LET prefix == At(0) = "0" /\ At(1) \in {"x", "b"}
        digits == IF At(0) = "0" /\ At(1) = "x" THEN XDigits ELSE Digits
        long == prefix /\ At(2) \in digits
        stop == After(Lex.cur + (IF long THEN 2 ELSE 1), digits)
    IN  IF Text[stop] = "u" THEN stop + 1 ELSE stop

lex ==
    /\ Scans("token")
    /\ esc' = FALSE
    /\ LET opens(what, n) ==
               lexing' = what /\ advance(n) /\ token' = Started
           c == At(0)
       IN  CASE c = "nul" -> Ends("Eof", Lex.cur + 1)
             [] c = "quot" -> opens("quot", 1)
             [] c = "<" /\ Lex.path -> opens(">", 1)
             [] c = "'" -> opens("'", 1)
             [] c = "/" /\ At(1) = "/" -> opens("comment", 1)
             [] c = "/" /\ At(1) = "*" -> opens("mlcomment", 1)
             [] c \in Digits -> Ends("Number", NumberEnd)
             [] c \in Letters -> LET k == After(Lex.cur, WordChars) IN
                    Ends(IF k = Lex.cur + 1 /\ c \in DOMAIN Keywords THEN Keywords[c]
                         ELSE IF c \in UpperLetters THEN "TypeIdent" ELSE "Ident", k)
             [] c = "@" -> Ends("InvalidAtKeyword", After(Lex.cur + 1, WordChars))
             [] c = "\\" /\ (At(1) = "nl" \/ (At(1) = "cr" /\ At(2) = "nl")) ->
                    LET n == IF At(1) = "nl" THEN 2 ELSE 3 IN
                    \* advance(), newline() and lex() again
                    newline(n) /\ token' = Started /\ lexing' = "blank"
             [] OTHER -> IF Symbol = <<>> THEN Ends("UnexpectedChar", Lex.cur + 1)
                         ELSE Ends(Symbol[2], Lex.cur + Len(Symbol[1]))
    /\ UNCHANGED <<texts, end>>

\* A string, or a path between angled brackets.
lex_str ==
    /\ Scans("quot") \/ Scans(">")
    /\ LET c == At(0)
           stops == ~esc /\ (LineEnd > 0 \/ c = lexing)
           n == IF LineEnd = 2 THEN 2 ELSE 1
       IN  /\ IF AtEnd THEN UNCHANGED sources
              ELSE IF LineEnd > 0 THEN newline(n) ELSE advance(1)
           /\ IF AtEnd THEN complete("String", Lex.cur) /\ UNCHANGED esc
              ELSE IF stops THEN complete("String", Lex.cur + n) /\ UNCHANGED esc
              ELSE GoOn(c = "\\" /\ ~esc)
    /\ UNCHANGED <<texts, end>>

\* A character.  After an escaped quote the code falls through to the case of
\* the escape and passes over one more character.
lex_chr ==
    /\ Scans("'")
    /\ LET c == At(0)
           stops == ~esc /\ (LineEnd > 0 \/ c = "'")
           n == IF LineEnd = 2 \/ (c = "'" /\ esc) THEN 2 ELSE 1
       IN  /\ IF AtEnd THEN UNCHANGED sources
              ELSE IF LineEnd > 0 THEN newline(n) ELSE advance(n)
           /\ IF AtEnd THEN complete("Char", Lex.cur) /\ UNCHANGED esc
              ELSE IF stops THEN complete("Char", Lex.cur + n) /\ UNCHANGED esc
              ELSE GoOn(c = "\\" /\ ~esc)
    /\ UNCHANGED <<texts, end>>

\* At the end of the text a comment returns without completing its token,
\* which keeps the type it had.
lex_comment ==
    /\ Scans("comment")
    /\ LET c == At(0)
           stops == ~esc /\ c \in {"nl", "cr"}
       IN  /\ IF LineEnd > 0 THEN newline(LineEnd)
              ELSE IF AtEnd \/ c = "cr" THEN UNCHANGED sources ELSE advance(1)
           /\ IF AtEnd THEN lexing' = "done" /\ UNCHANGED <<esc, token>>
              ELSE IF stops THEN complete("Comment", Lex.cur + LineEnd) /\ UNCHANGED esc
              ELSE GoOn(c = "\\" /\ ~esc)
    /\ UNCHANGED <<texts, end>>

lex_ml_comment ==
    /\ Scans("mlcomment")
    /\ LET c == At(0) IN
       IF AtEnd THEN lexing' = "done" /\ UNCHANGED <<sources, token>>
       ELSE IF c = "*" /\ At(1) = "/" THEN advance(2) /\ complete("Comment", Lex.cur + 2)
       ELSE /\ IF LineEnd > 0 THEN newline(LineEnd) ELSE advance(1)
            /\ UNCHANGED <<lexing, token>>
    /\ UNCHANGED <<texts, esc, end>>
=============================================================================
