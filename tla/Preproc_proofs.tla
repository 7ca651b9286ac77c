---------------------------- MODULE Preproc_proofs -----------------------------
(***************************************************************************)
(* What holds of the lexer and the preprocessor for every text: where a    *)
(* token is, where a literal ends, and that no text is read past its end.  *)
(***************************************************************************)
EXTENDS Preproc, FiniteSetTheorems, Induction_lemmas

-----------------------------------------------------------------------------
(* The tokens of other characters.                                         *)

Directives == {"Ulam", "Use", "Load"}
IsSymbol(s) ==
    /\ Len(s[1]) \in {1, 2, 3}
    /\ \A i \in 1 .. Len(s[1]) : s[1][i] \notin {"nl", "nul"}
    /\ s[2] \notin Directives \cup {"Eof"}

LEMMA SymbolsSpell == \A s \in Symbols : IsSymbol(s)
<1>1. \A s \in Symbols : s[2] \notin Directives \cup {"Eof"}
  BY DEF Symbols, Directives
<1>2. \A s \in Symbols : Len(s[1]) \in {1, 2, 3}
  BY DEF Symbols
<1>3. \A s \in Symbols : s[1][1] \notin {"nl", "nul"}
  BY DEF Symbols
<1>4. \A s \in Symbols : Len(s[1]) >= 2 => s[1][2] \notin {"nl", "nul"}
  BY DEF Symbols
<1>5. \A s \in Symbols : Len(s[1]) = 3 => s[1][3] \notin {"nl", "nul"}
  BY DEF Symbols
<1>6. QED
  BY <1>1, <1>2, <1>3, <1>4, <1>5 DEF IsSymbol

-----------------------------------------------------------------------------
(* Places in a text: lines, and where a line begins.                       *)

IsText(T) == T \in Seq(STRING) /\ Len(T) >= 1 /\ T[Len(T)] = "nul"

\* The ends of lines up to a place.
Newlines(T, k) == {j \in 1 .. k : T[j] = "nl"}

\* Place k is in the line-th line, which begins at place start.
Counts(T, k, line, start) ==
    /\ start \in 1 .. k /\ line = 1 + Cardinality(Newlines(T, start - 1))
    /\ start = 1 \/ T[start - 1] = "nl"
    /\ \A j \in start .. k - 1 : T[j] # "nl"

LEMMA NewlinesFinite ==
    ASSUME NEW T, NEW k \in Nat
    PROVE  IsFiniteSet(Newlines(T, k)) /\ Cardinality(Newlines(T, k)) \in Nat
<1>1. IsFiniteSet(1 .. k)
  BY FS_Interval
<1>2. IsFiniteSet(Newlines(T, k))
  BY <1>1, FS_Subset DEF Newlines
<1>3. QED
  BY <1>2, FS_CardinalityType

LEMMA NewlineCounts ==
    ASSUME NEW T, NEW k \in Nat, NEW m \in Nat, k < m, T[m] = "nl",
           \A j \in k + 1 .. m - 1 : T[j] # "nl"
    PROVE  Cardinality(Newlines(T, m)) = Cardinality(Newlines(T, k)) + 1
<1>1. Newlines(T, m) = Newlines(T, k) \cup {m} /\ m \notin Newlines(T, k)
  BY DEF Newlines
<1>2. QED
  BY <1>1, NewlinesFinite, FS_AddElement

LEMMA CountsBegin == ASSUME NEW T PROVE Counts(T, 1, 1, 1)
<1>1. Newlines(T, 0) = {}
  BY DEF Newlines
<1>2. QED
  BY <1>1, FS_EmptySet DEF Counts

LEMMA CountsOn ==
    ASSUME NEW T, NEW k \in Nat, NEW line, NEW start, NEW m \in Nat, k <= m,
           Counts(T, k, line, start), \A j \in k .. m - 1 : T[j] # "nl"
    PROVE  Counts(T, m, line, start)
BY DEF Counts

LEMMA CountsLine ==
    ASSUME NEW T, NEW k \in Nat, NEW line \in Nat, NEW start, NEW m \in Nat, k < m,
           Counts(T, k, line, start), T[m - 1] = "nl", \A j \in k .. m - 2 : T[j] # "nl"
    PROVE  Counts(T, m, line + 1, m)
<1>1. start \in 1 .. k /\ start - 1 \in Nat /\ m - 1 \in Nat /\ start - 1 < m - 1
  BY DEF Counts
<1>2. \A j \in (start - 1) + 1 .. (m - 1) - 1 : T[j] # "nl"
  BY <1>1 DEF Counts
<1>3. Cardinality(Newlines(T, m - 1)) = Cardinality(Newlines(T, start - 1)) + 1
  BY <1>1, <1>2, NewlineCounts
<1>4. Cardinality(Newlines(T, start - 1)) \in Nat
  BY <1>1, NewlinesFinite
<1>5. QED
  BY <1>1, <1>3, <1>4 DEF Counts

\* The line that is counted begins where the count says it begins.
LEMMA LineIs ==
    ASSUME IsText(Text), NEW k \in Nat, k <= Len(Text) + 1, NEW line, NEW start,
           Counts(Text, k, line, start)
    PROVE  LineBegins(line) = start
<1> DEFINE T == Text
           N(j) == Cardinality(Newlines(T, j))
<1>1. start \in 1 .. k /\ start - 1 \in Nat /\ line = 1 + N(start - 1) /\ N(start - 1) \in Nat
  BY NewlinesFinite DEF Counts
<1>2. CASE start = 1
  <2>1. Newlines(T, 0) = {}
    BY DEF Newlines
  <2>2. N(start - 1) = 0
    BY <1>2, <2>1, FS_EmptySet
  <2>3. QED
    BY <1>1, <1>2, <2>2 DEF LineBegins
<1>3. CASE start # 1
  <2> DEFINE e == start - 1
             IsEnd(j) == T[j] = "nl" /\ Cardinality({i \in 1 .. j : T[i] = "nl"}) = line - 1
  <2>1. e \in 1 .. Len(T) /\ T[e] = "nl" /\ start = 1 + e
    BY <1>1, <1>3 DEF Counts, IsText
  <2>2. N(e) = line - 1 /\ e \in Newlines(T, e)
    BY <1>1, <2>1 DEF Newlines
  <2>3. line # 1
    BY <1>1, <2>2, FS_EmptySet, NewlinesFinite
  <2>4. IsEnd(e)
    BY <2>1, <2>2 DEF Newlines
  <2>5. ASSUME NEW j \in 1 .. Len(T), IsEnd(j) PROVE j = e
    <3>1. N(j) = line - 1 /\ N(e) = line - 1 /\ j \in Nat /\ e \in Nat
      BY <2>1, <2>2, <2>5 DEF Newlines
    <3> HIDE DEF e
    <3>2. ASSUME NEW a \in Nat, NEW b \in Nat, a < b, T[b] = "nl", N(a) = N(b) PROVE FALSE
      <4>1. Newlines(T, a) \subseteq Newlines(T, b) /\ b \in Newlines(T, b) /\ b \notin Newlines(T, a)
        BY <3>2 DEF Newlines
      <4>2. IsFiniteSet(Newlines(T, b))
        BY NewlinesFinite
      <4>3. QED
        BY <3>2, <4>1, <4>2, FS_Subset
    <3>3. ~(j < e) /\ ~(e < j)
      BY <2>1, <2>5, <3>1, <3>2
    <3>4. QED
      BY <3>1, <3>3
  <2>6. LineBegins(line) = 1 + CHOOSE j \in 1 .. Len(T) : IsEnd(j)
    BY <2>3 DEF LineBegins
  <2>7. (CHOOSE j \in 1 .. Len(T) : IsEnd(j)) = e
    <3> HIDE DEF IsEnd, e, T
    <3>1. QED
      BY <2>1, <2>4, <2>5
  <2>8. QED
    BY <2>1, <2>6, <2>7
<1>4. QED
  BY <1>2, <1>3

-----------------------------------------------------------------------------
(* Escapes, and where a literal that begins at a place ends.               *)

\* What Escaped, Terminates and EscapedQuote say, of any text and any place.
Run(T, from, i, k) ==
    /\ i \in from + 1 .. k - 1 /\ \A j \in i .. k - 1 : T[j] = "\\"
    /\ T[i - 1] # "\\" \/ i = from + 1
EscapedIn(T, from, k) == \E i \in from + 1 .. k - 1 : Run(T, from, i, k) /\ (k - i) % 2 = 1
LineEndIn(T, k) == IF T[k] = "nl" THEN 1 ELSE IF T[k] = "cr" /\ T[k + 1] = "nl" THEN 2 ELSE 0
LineEndBeginsIn(T, k) == IF T[k - 1] = "cr" THEN k - 1 ELSE k
TerminatesIn(T, from, k, q) ==
    \/ T[k] = "nl" /\ ~EscapedIn(T, from, LineEndBeginsIn(T, k))
    \/ T[k] = q /\ ~EscapedIn(T, from, k)
EscapesQuote(T) == \E k \in 1 .. Len(T) - 1 : T[k] = "\\" /\ T[k + 1] = "'"

LEMMA SameEscapes ==
    /\ EscapedQuote <=> EscapesQuote(Text)
    /\ \A k, q : Terminates(k, q) <=> TerminatesIn(Text, token.from, k, q)
<1>1. \A k : Escaped(k) <=> EscapedIn(Text, token.from, k)
  BY DEF Escaped, EscapedIn, Run
<1>2. QED
  BY <1>1 DEF EscapedQuote, EscapesQuote, Terminates, TerminatesIn, EndOfLine, LineEndBegins,
              LineEndBeginsIn

LEMMA EscapedFirst ==
    ASSUME NEW T, NEW from \in Nat
    PROVE  ~EscapedIn(T, from, from + 1)
BY DEF EscapedIn

\* The backslashes before a place are one run.
LEMMA OneRun ==
    ASSUME NEW T, NEW from \in Nat, NEW k \in Nat, NEW i \in Nat, NEW m \in Nat,
           Run(T, from, i, k), Run(T, from, m, k)
    PROVE  i = m
<1>1. ASSUME NEW a \in Nat, NEW b \in Nat, Run(T, from, a, k), Run(T, from, b, k), a < b
      PROVE  FALSE
  <2>1. b - 1 \in a .. k - 1 /\ b # from + 1
    BY <1>1 DEF Run
  <2>2. QED
    BY <1>1, <2>1 DEF Run
<1>2. ~(i < m) /\ ~(m < i)
  BY <1>1
<1>3. QED
  BY <1>2

LEMMA RunExists ==
    ASSUME NEW T, NEW from \in Nat, NEW k \in Nat, from + 1 < k, T[k - 1] = "\\"
    PROVE  \E i \in from + 1 .. k - 1 : Run(T, from, i, k)
<1> DEFINE S == {i \in from + 1 .. k - 1 : \A j \in i .. k - 1 : T[j] = "\\"}
<1>1. k - 1 \in S /\ S \in SUBSET Nat
  BY DEF S
<1>2. PICK i \in S : \A j \in S : i <= j
  <2> HIDE DEF S
  <2>1. QED
    BY <1>1, LeastElement
<1>3. T[i - 1] # "\\" \/ i = from + 1
  <2> SUFFICES ASSUME T[i - 1] = "\\", i # from + 1 PROVE FALSE
    OBVIOUS
  <2>1. i - 1 \in S
    OBVIOUS
  <2>2. QED
    BY <1>1, <1>2, <2>1
<1>4. QED
  BY <1>2, <1>3 DEF Run

LEMMA Parity == \A n \in Nat : (n % 2 = 0 \/ n % 2 = 1) /\ (n % 2 = 1 <=> (n + 1) % 2 = 0)
OBVIOUS

\* A backslash escapes what follows unless it is escaped itself.
LEMMA EscapedNext ==
    ASSUME NEW T, NEW from \in Nat, NEW k \in Nat, from + 1 <= k
    PROVE  EscapedIn(T, from, k + 1) <=> T[k] = "\\" /\ ~EscapedIn(T, from, k)
<1>1. ASSUME NEW i \in from + 1 .. k - 1
      PROVE  /\ Run(T, from, i, k + 1) <=> Run(T, from, i, k) /\ T[k] = "\\"
             /\ (k - i) % 2 = 1 <=> ~((k + 1 - i) % 2 = 1)
  <2>1. Run(T, from, i, k + 1) <=> Run(T, from, i, k) /\ T[k] = "\\"
    BY DEF Run
  <2>2. k - i \in Nat /\ k + 1 - i = (k - i) + 1
    OBVIOUS
  <2> DEFINE n == k - i
  <2>3. n \in Nat /\ k + 1 - i = n + 1
    BY <2>2
  <2> HIDE DEF n
  <2>4. n % 2 = 1 <=> ~((n + 1) % 2 = 1)
    BY <2>3, Parity
  <2>5. QED
    BY <2>1, <2>3, <2>4 DEF n
<1>2. ASSUME EscapedIn(T, from, k + 1) PROVE T[k] = "\\" /\ ~EscapedIn(T, from, k)
  <2>1. PICK i \in from + 1 .. k : Run(T, from, i, k + 1) /\ (k + 1 - i) % 2 = 1
    BY <1>2 DEF EscapedIn
  <2>2. T[k] = "\\"
    BY <2>1 DEF Run
  <2>3. ASSUME EscapedIn(T, from, k) PROVE FALSE
    <3>1. PICK m \in from + 1 .. k - 1 : Run(T, from, m, k) /\ (k - m) % 2 = 1
      BY <2>3 DEF EscapedIn
    <3>2. Run(T, from, m, k + 1) /\ ~((k + 1 - m) % 2 = 1)
      BY <1>1, <2>2, <3>1
    <3>3. i = m
      BY <2>1, <3>2, OneRun
    <3>4. QED
      BY <2>1, <3>2, <3>3
  <2>4. QED
    BY <2>2, <2>3
<1>3. ASSUME T[k] = "\\", ~EscapedIn(T, from, k) PROVE EscapedIn(T, from, k + 1)
  <2>1. CASE from + 1 < k /\ T[k - 1] = "\\"
    <3>1. PICK i \in from + 1 .. k - 1 : Run(T, from, i, k)
      BY <2>1, RunExists
    <3>2. ~((k - i) % 2 = 1)
      BY <1>3, <3>1 DEF EscapedIn
    <3>3. Run(T, from, i, k + 1) /\ (k + 1 - i) % 2 = 1
      BY <1>1, <1>3, <3>1, <3>2
    <3>4. QED
      BY <3>3 DEF EscapedIn
  <2>2. CASE ~(from + 1 < k /\ T[k - 1] = "\\")
    <3>1. Run(T, from, k, k + 1) /\ (k + 1 - k) % 2 = 1
      BY <1>3, <2>2 DEF Run
    <3>2. QED
      BY <3>1 DEF EscapedIn
  <2>3. QED
    BY <2>1, <2>2
<1>4. QED
  BY <1>2, <1>3

\* A literal that began at from is being read at k, and one that is complete.
Reading(T, from, k, e, q) ==
    /\ e <=> EscapedIn(T, from, k)
    /\ \A j \in from + 1 .. k - 1 : ~TerminatesIn(T, from, j, q)
    /\ ~(T[k - 1] = "cr" /\ T[k] = "nl")
EndsRight(T, from, to, q) ==
    /\ \A j \in from + 1 .. to - 1 : ~TerminatesIn(T, from, j, q)
    /\ (to > from /\ TerminatesIn(T, from, to, q)) \/ T[to + 1] = "nul"

LEMMA ReadingBegins ==
    ASSUME NEW T, NEW from \in Nat, NEW q \in {"quot", "'"}, T[from] = q
    PROVE  Reading(T, from, from + 1, FALSE, q)
BY EscapedFirst DEF Reading

LEMMA ReadingEnds ==
    ASSUME NEW T, NEW from \in Nat, NEW k \in Nat, from + 1 <= k, NEW e \in BOOLEAN, NEW q,
           Reading(T, from, k, e, q), T[k] = "nul"
    PROVE  EndsRight(T, from, k - 1, q)
BY DEF Reading, EndsRight

\* One character of a literal, or two that end a line.
LEMMA ReadingGoesOn ==
    ASSUME NEW T, NEW from \in Nat, NEW k \in Nat, from + 1 <= k, NEW e \in BOOLEAN,
           NEW q \in {"quot", "'"}, Reading(T, from, k, e, q),
           NEW n, n = IF LineEndIn(T, k) = 2 THEN 2 ELSE 1
    PROVE  IF ~e /\ (LineEndIn(T, k) > 0 \/ T[k] = q)
           THEN EndsRight(T, from, k + n - 1, q)
           ELSE Reading(T, from, k + n, T[k] = "\\" /\ ~e, q)
<1>0. EscapedIn(T, from, k + 1) <=> T[k] = "\\" /\ ~EscapedIn(T, from, k)
  BY EscapedNext
<1>1. CASE T[k] = "nl"
  <2>1. n = 1 /\ LineEndIn(T, k) = 1 /\ LineEndBeginsIn(T, k) = k
    BY <1>1 DEF LineEndIn, LineEndBeginsIn, Reading
  <2>2. TerminatesIn(T, from, k, q) <=> ~e
    BY <1>1, <2>1 DEF TerminatesIn, Reading
  <2>3. ~EscapedIn(T, from, k + 1) /\ ~(T[k] = "\\" /\ ~e)
    BY <1>0, <1>1
  <2>4. CASE e
    BY <1>1, <2>1, <2>2, <2>3, <2>4 DEF Reading
  <2>5. CASE ~e
    BY <1>1, <2>1, <2>2, <2>5 DEF Reading, EndsRight
  <2>6. QED
    BY <2>4, <2>5
<1>2. CASE T[k] = "cr" /\ T[k + 1] = "nl"
  <2>1. n = 2 /\ LineEndIn(T, k) = 2 /\ LineEndBeginsIn(T, k + 1) = k
    BY <1>2 DEF LineEndIn, LineEndBeginsIn
  <2>2. ~TerminatesIn(T, from, k, q)
    BY <1>2 DEF TerminatesIn
  <2>3. TerminatesIn(T, from, k + 1, q) <=> ~e
    BY <1>2, <2>1 DEF TerminatesIn, Reading
  <2>4. ~EscapedIn(T, from, (k + 1) + 1)
    BY <1>2, EscapedNext
  <2>5. (k + 1) + 1 = k + n /\ k + n - 1 = k + 1
    BY <2>1
  <2>6. CASE e
    BY <1>2, <2>1, <2>2, <2>3, <2>4, <2>5, <2>6 DEF Reading
  <2>7. CASE ~e
    BY <1>2, <2>1, <2>2, <2>3, <2>5, <2>7 DEF Reading, EndsRight
  <2>8. QED
    BY <2>6, <2>7
<1>3. CASE T[k] # "nl" /\ ~(T[k] = "cr" /\ T[k + 1] = "nl")
  <2>1. n = 1 /\ LineEndIn(T, k) = 0
    BY <1>3 DEF LineEndIn
  <2>2. TerminatesIn(T, from, k, q) <=> T[k] = q /\ ~e
    BY <1>3 DEF TerminatesIn, Reading
  <2>3. CASE ~e /\ T[k] = q
    BY <2>1, <2>2, <2>3 DEF Reading, EndsRight
  <2>4. CASE ~(~e /\ T[k] = q)
    BY <1>0, <1>3, <2>1, <2>2, <2>4 DEF Reading
  <2>5. QED
    BY <2>1, <2>3, <2>4
<1>4. QED
  BY <1>1, <1>2, <1>3

\* There is a first place from k on where none of C is.
LEMMA AfterIs ==
    ASSUME IsText(Text), NEW k \in 1 .. Len(Text), NEW C, "nul" \notin C
    PROVE  /\ After(k, C) \in k .. Len(Text) /\ Text[After(k, C)] \notin C
           /\ \A i \in k .. After(k, C) - 1 : Text[i] \in C
<1> DEFINE S == {j \in k .. Len(Text) : Text[j] \notin C}
           Is(j) == Text[j] \notin C /\ \A i \in k .. j - 1 : Text[i] \in C
<1>1. Len(Text) \in S /\ S \in SUBSET Nat
  BY DEF IsText
<1>2. PICK j \in S : \A i \in S : j <= i
  <2> HIDE DEF S
  <2>1. QED
    BY <1>1, LeastElement
<1>3. j \in k .. Len(Text) /\ Is(j)
  BY <1>1, <1>2
<1>4. After(k, C) = CHOOSE i \in k .. Len(Text) : Is(i)
  BY DEF After
<1>5. Is(After(k, C)) /\ After(k, C) \in k .. Len(Text)
  <2> HIDE DEF Is
  <2>1. QED
    BY <1>3, <1>4
<1>6. QED
  BY <1>5

-----------------------------------------------------------------------------
(* What is true of a text that is being read.                              *)

Sources == {"a", "b"}
Lexers == [src : Sources, cur : Nat, line : Nat, start : Nat, path : BOOLEAN]
IsToken(t) ==
    /\ t = [type |-> t.type, from |-> t.from, to |-> t.to, line |-> t.line, column |-> t.column]
    /\ t.from \in Nat /\ t.to \in Nat /\ t.line \in Nat /\ t.column \in Nat
Scanned == {"quot", ">", "'", "comment", "mlcomment"}
Modes == Scanned \cup {"blank", "token", "done"}
Opener(m) == IF m = ">" THEN "<" ELSE IF m \in {"comment", "mlcomment"} THEN "/" ELSE m

\* The text has a word that begins a directive.
Directed(T) == \E k \in 1 .. Len(T) : T[k] \in {"ulam", "use", "load"}
Noted(T) == EscapesQuote(T) \/ Directed(T)

TextsGood == DOMAIN texts = Sources /\ \A s \in Sources : IsText(texts[s])

\* A lexer is at a place of its text, and has its line right.
Located(T, l) ==
    /\ l.start \in 1 .. l.cur /\ l.cur <= Len(T) + 1
    /\ EscapesQuote(T) \/ Counts(T, l.cur, l.line, l.start)

LexersGood ==
    /\ sources \in Seq(Lexers) /\ sources # <<>>
    /\ Located(Text, Lex)
    /\ \A i \in 2 .. Len(sources) :
          Located(texts[sources[i].src], sources[i]) /\ Noted(texts[sources[i].src])

\* The token t of text T, whose lexer is at place c, is right so far.
TokenGoodAt(T, c, m, e, t) ==
    /\ m \in Modes /\ e \in BOOLEAN /\ IsToken(t)
    /\ m \in Scanned \cup {"done"} =>
          /\ t.from \in 1 .. c - 1
          /\ EscapesQuote(T) \/ Counts(T, t.from, t.line, t.from + 1 - t.column)
    /\ m = "token" => T[c] # "nl"
    /\ m \in Scanned => T[t.from] = Opener(m)
    /\ m = "'" /\ e => t.from < c - 1 /\ T[c - 1] = "\\"
    /\ \A q \in {"quot", "'"} : ~(q = "'" /\ EscapesQuote(T)) =>
          /\ m = q => Reading(T, t.from, c, e, q)
          /\ m = "done" /\ T[t.from] = q => EndsRight(T, t.from, t.to, q)

\* The lexer stays in its text and is now at place k.
MovesTo(k) ==
    /\ texts' = texts
    /\ sources' \in Seq(Lexers) /\ sources' # <<>>
    /\ Lex'.cur = k /\ Text' = Text /\ Lex'.path = Lex.path
    /\ LexersGood'

LEMMA HeadIs ==
    ASSUME NEW S, NEW s \in Seq(S), s # <<>>, NEW x \in S
    PROVE  /\ <<x>> \o Tail(s) \in Seq(S) /\ <<x>> \o Tail(s) # <<>>
           /\ Len(<<x>> \o Tail(s)) = Len(s) /\ Head(<<x>> \o Tail(s)) = x
           /\ \A i \in 2 .. Len(s) : (<<x>> \o Tail(s))[i] = s[i]
           /\ Head(s) \in S
OBVIOUS

LEMMA TextIs ==
    ASSUME TextsGood, LexersGood
    PROVE  Lex \in Lexers /\ IsText(Text)
<1>1. Lex \in Lexers
  BY DEF LexersGood, Lex
<1>2. QED
  BY <1>1 DEF TextsGood, Text, Lexers

LEMMA Moves ==
    ASSUME TextsGood, LexersGood, texts' = texts, NEW l \in Lexers, l.src = Lex.src, l.path = Lex.path,
           sources' = <<l>> \o Tail(sources), Located(Text, l)
    PROVE  MovesTo(l.cur)
<1> DEFINE s == <<l>> \o Tail(sources)
<1>1. s \in Seq(Lexers) /\ s # <<>> /\ Len(s) = Len(sources) /\ Head(s) = l
      /\ \A i \in 2 .. Len(sources) : s[i] = sources[i]
  BY HeadIs DEF LexersGood
<1>2. sources' = s
  OBVIOUS
<1> HIDE DEF s
<1>3. Lex' = l
  BY <1>1, <1>2 DEF Lex
<1>4. Text' = Text
  BY <1>3 DEF Text
<1>5. Located(Text, l)'
  BY <1>3, <1>4 DEF Located
<1>6. LexersGood'
  BY <1>1, <1>2, <1>3, <1>4, <1>5 DEF LexersGood
<1>7. QED
  BY <1>1, <1>2, <1>3, <1>4, <1>6 DEF MovesTo

LEMMA Advances ==
    ASSUME TextsGood, LexersGood, texts' = texts, NEW n \in Nat, Lex.cur + n <= Len(Text) + 1, advance(n),
           EscapesQuote(Text) \/ \A j \in Lex.cur .. Lex.cur + n - 1 : Text[j] # "nl"
    PROVE  MovesTo(Lex.cur + n)
<1> DEFINE l == [Lex EXCEPT !.cur = @ + n]
<1>1. Lex \in Lexers
  BY TextIs
<1>2. /\ l \in Lexers /\ l.src = Lex.src /\ l.path = Lex.path /\ l.cur = Lex.cur + n
      /\ l.line = Lex.line /\ l.start = Lex.start
  BY <1>1 DEF Lexers
<1>3. Lex.cur \in Nat /\ Lex.start \in Nat
  BY <1>1 DEF Lexers
<1>4. Located(Text, Lex)
  BY DEF LexersGood
<1>5. sources' = <<l>> \o Tail(sources)
  BY DEF advance, Becomes
<1> HIDE DEF l
<1>6. ASSUME Counts(Text, Lex.cur, Lex.line, Lex.start), ~EscapesQuote(Text)
      PROVE  Counts(Text, Lex.cur + n, Lex.line, Lex.start)
  BY <1>3, <1>6, CountsOn
<1>7. Located(Text, l)
  BY <1>2, <1>3, <1>4, <1>6 DEF Located
<1>8. QED
  BY <1>2, <1>5, <1>7, Moves

LEMMA NewLines ==
    ASSUME TextsGood, LexersGood, texts' = texts, NEW n \in Nat, n >= 1, Lex.cur + n <= Len(Text) + 1,
           newline(n), Text[Lex.cur + n - 1] = "nl",
           \A j \in Lex.cur .. Lex.cur + n - 2 : Text[j] # "nl"
    PROVE  MovesTo(Lex.cur + n)
<1> DEFINE l == [Lex EXCEPT !.cur = @ + n, !.line = @ + 1, !.start = Lex.cur + n]
<1>1. Lex \in Lexers
  BY TextIs
<1>2. /\ l \in Lexers /\ l.src = Lex.src /\ l.path = Lex.path /\ l.cur = Lex.cur + n
      /\ l.line = Lex.line + 1 /\ l.start = Lex.cur + n
  <2> DEFINE c == Lex.cur + n
             i == Lex.line + 1
  <2>1. c \in Nat /\ i \in Nat /\ l = [Lex EXCEPT !.cur = c, !.line = i, !.start = c]
    BY <1>1 DEF Lexers
  <2> HIDE DEF c, i, l
  <2>2. l \in Lexers
    BY <1>1, <2>1 DEF Lexers
  <2>3. l.src = Lex.src /\ l.path = Lex.path /\ l.cur = c /\ l.line = i /\ l.start = c
    BY <1>1, <2>1 DEF Lexers
  <2>4. QED
    BY <2>2, <2>3 DEF c, i
<1>3. Lex.cur \in Nat /\ Lex.start \in Nat /\ Lex.line \in Nat
  BY <1>1 DEF Lexers
<1>4. Located(Text, Lex)
  BY DEF LexersGood
<1>5. sources' = <<l>> \o Tail(sources)
  BY DEF newline, Becomes
<1> HIDE DEF l
<1>6. ASSUME Counts(Text, Lex.cur, Lex.line, Lex.start)
      PROVE  Counts(Text, Lex.cur + n, Lex.line + 1, Lex.cur + n)
  <2> DEFINE m == Lex.cur + n
  <2>1. m \in Nat /\ Lex.cur < m /\ Text[m - 1] = "nl" /\ \A j \in Lex.cur .. m - 2 : Text[j] # "nl"
    <3> DEFINE cur == Lex.cur
    <3>1. cur \in Nat
      BY <1>3
    <3>2. Text[cur + n - 1] = "nl" /\ \A j \in cur .. cur + n - 2 : Text[j] # "nl"
      OBVIOUS
    <3> HIDE DEF cur
    <3>3. /\ (cur + n) \in Nat /\ cur < cur + n
          /\ (cur + n) - 1 = cur + n - 1 /\ (cur + n) - 2 = cur + n - 2
      BY <3>1
    <3>4. Text[(cur + n) - 1] = "nl" /\ \A j \in cur .. (cur + n) - 2 : Text[j] # "nl"
      BY <3>2, <3>3, Zenon
    <3>5. m = cur + n
      BY DEF cur
    <3> HIDE DEF m
    <3>6. m \in Nat /\ cur < m /\ Text[m - 1] = "nl" /\ \A j \in cur .. m - 2 : Text[j] # "nl"
      BY <3>3, <3>4, <3>5, Zenon
    <3>7. QED
      BY <3>6 DEF cur
  <2> HIDE DEF m
  <2>2. Counts(Text, m, Lex.line + 1, m)
    BY <1>3, <1>6, <2>1, CountsLine
  <2>3. QED
    BY <2>2 DEF m
<1>7. Located(Text, l)
  BY <1>2, <1>3, <1>4, <1>6 DEF Located
<1>8. QED
  BY <1>2, <1>5, <1>7, Moves

LEMMA SymbolIs ==
    ASSUME IsText(Text), Lex.cur \in 1 .. Len(Text), Symbol # <<>>
    PROVE  /\ Symbol \in Symbols /\ Lex.cur + Len(Symbol[1]) - 1 <= Len(Text)
           /\ \A i \in 1 .. Len(Symbol[1]) : Text[Lex.cur + i - 1] = Symbol[1][i]
<1> DEFINE fits == {s \in Symbols :
                       /\ Lex.cur + Len(s[1]) - 1 <= Len(Text)
                       /\ SubSeq(Text, Lex.cur, Lex.cur + Len(s[1]) - 1) = s[1]}
           Longest(s) == \A r \in fits : Len(r[1]) <= Len(s[1])
<1>1. Symbol = IF fits = {} THEN <<>> ELSE CHOOSE s \in fits : Longest(s)
  BY DEF Symbol
<1>2. fits # {} /\ Symbol = CHOOSE s \in fits : Longest(s)
  BY <1>1
<1>3. \A s \in fits : Len(s[1]) \in {1, 2, 3}
  BY SymbolsSpell DEF IsSymbol
<1>4. \E s \in fits : Longest(s)
  <2> DEFINE Of(n) == \E s \in fits : Len(s[1]) = n
             Upto(n) == \A s \in fits : Len(s[1]) <= n
  <2> HIDE DEF fits
  <2>1. ASSUME NEW s \in fits
        PROVE  /\ Len(s[1]) <= 3 /\ (~Of(3) => Len(s[1]) <= 2) /\ (~Of(3) /\ ~Of(2) => Len(s[1]) <= 1)
               /\ Of(1) \/ Of(2) \/ Of(3)
    <3> DEFINE n == Len(s[1])
    <3>1. n \in {1, 2, 3}
      BY <1>3
    <3>2. Of(n)
      OBVIOUS
    <3> HIDE DEF n, Of
    <3>3. n <= 3 /\ (~Of(3) => n <= 2) /\ (~Of(3) /\ ~Of(2) => n <= 1) /\ (Of(1) \/ Of(2) \/ Of(3))
      BY <3>1, <3>2
    <3>4. QED
      BY <3>3 DEF n
  <2>2. PICK n : Of(n) /\ Upto(n)
    <3>1. PICK s \in fits : TRUE
      BY <1>2
    <3>2. Upto(3) /\ (~Of(3) => Upto(2)) /\ (~Of(3) /\ ~Of(2) => Upto(1)) /\ (Of(1) \/ Of(2) \/ Of(3))
      BY <2>1, <3>1
    <3> HIDE DEF Of, Upto
    <3>3. QED
      BY <3>2
  <2>3. PICK s \in fits : Len(s[1]) = n
    BY <2>2
  <2>4. Longest(s)
    BY <2>2, <2>3
  <2>5. QED
    BY <2>4, Zenon
<1>5. Symbol \in fits
  <2> HIDE DEF fits, Longest
  <2>1. QED
    BY <1>2, <1>4
<1> DEFINE s == Symbol
           n == Len(s[1])
<1>6. s \in Symbols /\ n \in {1, 2, 3} /\ Lex.cur + n - 1 <= Len(Text)
      /\ SubSeq(Text, Lex.cur, Lex.cur + n - 1) = s[1]
  BY <1>3, <1>5
<1> HIDE DEF fits, s, n
<1>7. \A i \in 1 .. n : SubSeq(Text, Lex.cur, Lex.cur + n - 1)[i] = Text[Lex.cur + i - 1]
  BY <1>6 DEF IsText
<1>8. QED
  BY <1>6, <1>7 DEF s, n

\* What a token that is read at once is like, and where it ends.
EndsAt(type, k) ==
    /\ k \in Lex.cur + 1 .. Len(Text) + 1
    /\ type = "Eof" <=> Text[Lex.cur] = "nul"
    /\ k = Len(Text) + 1 => type = "Eof"
    /\ Text[Lex.cur] \notin {"quot", "'"}
    /\ \A j \in Lex.cur .. k - 1 : Text[j] # "nl"
    /\ type \in Directives => Directed(Text)

\* The types of the other tokens that are read at once.
LEMMA PlainTypes ==
    \A t \in {"Number", "InvalidAtKeyword", "UnexpectedChar"} :
        t # "Eof" /\ t \notin Directives
BY DEF Directives

LEMMA NumberEnds ==
    ASSUME TextsGood, LexersGood, Lex.cur \in 1 .. Len(Text), Text[Lex.cur] \in Digits
    PROVE  EndsAt("Number", NumberEnd)
<1> DEFINE c == Lex.cur
           T == Text
           prefix == T[c] = "0" /\ T[c + 1] \in {"x", "b"}
           digits == IF T[c] = "0" /\ T[c + 1] = "x" THEN XDigits ELSE Digits
           long == prefix /\ T[c + 2] \in digits
           k == c + (IF long THEN 2 ELSE 1)
           last == After(k, digits)
<1>1. c \in 1 .. Len(T) /\ IsText(T) /\ T[c] \in Digits /\ Len(T) \in Nat
  BY TextIs DEF IsText
<1>2. NumberEnd = IF T[last] = "u" THEN last + 1 ELSE last
  <2>1. c + 0 = c
    BY <1>1
  <2>2. QED
    BY <2>1 DEF NumberEnd, At
<1>a. T[c] \in {"0", "1"} /\ T[Len(T)] = "nul"
  BY <1>1 DEF IsText, Digits
<1>b. long => T[c + 1] \in {"x", "b"}
  OBVIOUS
<1>c. k = IF long THEN c + 2 ELSE c + 1
  BY <1>1
<1>3. k \in c + 1 .. Len(T) /\ \A j \in c .. k - 1 : T[j] \notin {"nl", "nul", "quot", "'"}
  <2> HIDE DEF long, k, digits, T
  <2>1. c \in Nat /\ c <= Len(T) /\ c # Len(T)
    BY <1>1, <1>a
  <2>2. CASE long
    <3>1. c + 1 # Len(T)
      BY <1>a, <1>b, <2>2
    <3>2. c + 2 \in c + 1 .. Len(T) /\ \A j \in c .. c + 1 : j = c \/ j = c + 1
      BY <1>1, <2>1, <3>1
    <3>3. (c + 2) - 1 = c + 1
      BY <2>1
    <3>4. QED
      BY <1>a, <1>b, <1>c, <2>2, <3>2, <3>3
  <2>3. CASE ~long
    <3>1. c + 1 \in c + 1 .. Len(T) /\ \A j \in c .. c : j = c
      BY <1>1, <2>1
    <3>2. (c + 1) - 1 = c
      BY <2>1
    <3>3. QED
      BY <1>a, <1>c, <2>3, <3>1, <3>2
  <2>4. QED
    BY <2>2, <2>3
<1>4. "nul" \notin digits /\ "nl" \notin digits /\ "u" \notin {"nl", "nul"}
  BY DEF XDigits, Digits
<1> HIDE DEF digits, k, T
<1>5. last \in k .. Len(T) /\ \A j \in k .. last - 1 : T[j] \in digits
  BY <1>1, <1>3, <1>4, AfterIs DEF T
<1> HIDE DEF last
<1>6. T[last] = "u" => last < Len(T)
  BY <1>1, <1>5 DEF IsText
<1>7. /\ NumberEnd \in c + 1 .. Len(T)
      /\ \A j \in c .. NumberEnd - 1 : T[j] # "nl"
  BY <1>1, <1>2, <1>3, <1>4, <1>5, <1>6
<1>8. T[c] \notin {"quot", "'", "nul"}
  BY <1>1 DEF Digits
<1> DEFINE m == NumberEnd
<1>9. m \in c + 1 .. Len(T) /\ \A j \in c .. m - 1 : T[j] # "nl"
  BY <1>7
<1> HIDE DEF m
<1>10. m \in c + 1 .. Len(T) + 1 /\ m # Len(T) + 1
  BY <1>1, <1>9
<1>11. EndsAt("Number", m)
  <2>1. m \in Lex.cur + 1 .. Len(Text) + 1 /\ ~(m = Len(Text) + 1)
    BY <1>10 DEF T
  <2>2. Text[Lex.cur] \notin {"quot", "'", "nul"} /\ \A j \in Lex.cur .. m - 1 : Text[j] # "nl"
    BY <1>8, <1>9 DEF T
  <2>3. "Number" # "Eof" /\ "Number" \notin Directives
    BY PlainTypes
  <2>4. QED
    BY <2>1, <2>2, <2>3 DEF EndsAt
<1>12. QED
  BY <1>11 DEF m

\* A word: the type is settled by what it begins with.
LEMMA WordEnds ==
    ASSUME TextsGood, LexersGood, Lex.cur \in 1 .. Len(Text), Text[Lex.cur] \in Letters,
           NEW type,
           (type = Keywords[Text[Lex.cur]] /\ Text[Lex.cur] \in DOMAIN Keywords)
             \/ type \in {"TypeIdent", "Ident"}
    PROVE  EndsAt(type, After(Lex.cur, WordChars))
<1> DEFINE c == Lex.cur
           k == After(c, WordChars)
<1>1. IsText(Text) /\ "nul" \notin WordChars /\ "nl" \notin WordChars /\ Letters \subseteq WordChars
  BY TextIs DEF WordChars, Letters, UpperLetters, Digits
<1>2. k \in c .. Len(Text) /\ Text[k] \notin WordChars /\ \A j \in c .. k - 1 : Text[j] \in WordChars
  BY <1>1, AfterIs
<1> HIDE DEF k
<1>3. k # c
  BY <1>1, <1>2
<1>4. Text[c] \notin {"quot", "'", "nul"}
  BY DEF Letters, UpperLetters
<1>5. type # "Eof" /\ (type \in Directives => Text[c] \in {"ulam", "use", "load"})
  BY DEF Keywords, Directives
<1>6. type \in Directives => Directed(Text)
  BY <1>5 DEF Directed
<1>7. QED
  BY <1>1, <1>2, <1>3, <1>4, <1>5, <1>6 DEF EndsAt, k, IsText

LEMMA SymbolEnds ==
    ASSUME TextsGood, LexersGood, Lex.cur \in 1 .. Len(Text), Text[Lex.cur] \notin {"nul", "nl", "quot", "'"},
           Symbol # <<>>
    PROVE  EndsAt(Symbol[2], Lex.cur + Len(Symbol[1]))
<1> DEFINE s == Symbol
           n == Len(s[1])
           c == Lex.cur
           k == c + n
<1>1. IsText(Text) /\ c \in 1 .. Len(Text) /\ Len(Text) \in Nat
  BY TextIs DEF IsText
<1>2. s \in Symbols /\ c + n - 1 <= Len(Text) /\ \A i \in 1 .. n : Text[c + i - 1] = s[1][i]
  BY <1>1, SymbolIs
<1>3. n \in {1, 2, 3} /\ (\A i \in 1 .. n : s[1][i] \notin {"nl", "nul"}) /\ s[2] \notin Directives /\ s[2] # "Eof"
  BY <1>2, SymbolsSpell DEF IsSymbol
<1> HIDE DEF s, n
<1>4. \A j \in c .. k - 1 : Text[j] \notin {"nl", "nul"}
  <2>1. ASSUME NEW j \in c .. k - 1 PROVE Text[j] \notin {"nl", "nul"}
    <3> DEFINE i == (j - c) + 1
    <3> HIDE DEF c
    <3>1. c \in Nat /\ n \in Nat /\ j \in c .. (c + n) - 1
      BY <1>1, <1>3 DEF k
    <3>2. i \in 1 .. n /\ c + i - 1 = j
      BY <3>1
    <3> HIDE DEF i
    <3>3. QED
      BY <1>2, <1>3, <3>2
  <2>2. QED
    BY <2>1
<1>5. k \in c + 1 .. Len(Text) + 1 /\ k - 1 \in c .. k - 1
  BY <1>1, <1>2, <1>3
<1>6. k # Len(Text) + 1
  BY <1>1, <1>4, <1>5 DEF IsText
<1>7. EndsAt(s[2], k)
  BY <1>1, <1>3, <1>4, <1>5, <1>6 DEF EndsAt
<1>8. QED
  BY <1>7 DEF s, n

\* A turn of lex() completes a token, begins one that is scanned further, or
\* passes over the end of a line that is escaped.
Completes == \E type, k : Ends(type, k) /\ EndsAt(type, k)
Opens ==
    \E m \in Scanned : lexing' = m /\ advance(1) /\ token' = Started /\ Text[Lex.cur] = Opener(m)
Splices ==
    \E n \in {2, 3} :
        /\ newline(n) /\ token' = Started /\ lexing' = "blank"
        /\ Text[Lex.cur] = "\\" /\ Text[Lex.cur + n - 1] = "nl"
        /\ \A j \in Lex.cur .. Lex.cur + n - 2 : Text[j] # "nl"
        /\ Lex.cur + n <= Len(Text)

LEMMA LexDoes ==
    ASSUME TextsGood, LexersGood, lex, Text[Lex.cur] # "nl"
    PROVE  /\ end = "running" /\ esc' = FALSE /\ texts' = texts /\ end' = end /\ Lex.cur \in 1 .. Len(Text)
           /\ Completes \/ Opens \/ Splices
<1> DEFINE c == Lex.cur
           T == Text
<1>1. end = "running" /\ esc' = FALSE /\ texts' = texts /\ end' = end /\ c \in 1 .. Len(T)
      /\ IsText(T) /\ Len(T) \in Nat /\ c \in Nat /\ T[c] # "nl" /\ Len(T) \in 1 .. Len(T)
      /\ T[Len(T)] = "nul"
  <2>1. end = "running" /\ esc' = FALSE /\ texts' = texts /\ end' = end /\ c <= Len(T)
    BY DEF lex, Scans, Inside
  <2>2. IsText(T) /\ Lex \in Lexers
    BY TextIs
  <2>3. Len(T) \in Nat /\ Len(T) >= 1 /\ T[Len(T)] = "nul" /\ c \in Nat /\ Lex.start \in Nat
    BY <2>2 DEF IsText, Lexers
  <2>4. Lex.start \in 1 .. c
    BY DEF LexersGood, Located
  <2>5. QED
    BY <2>1, <2>2, <2>3, <2>4
<1>2. At(0) = T[c] /\ At(1) = T[c + 1] /\ At(2) = T[c + 2]
  <2>1. c + 0 = c
    BY <1>1
  <2>2. QED
    BY <2>1 DEF At
<1> SUFFICES Completes \/ Opens \/ Splices
  BY <1>1
<1>3. CASE T[c] = "nul"
  <2>1. Ends("Eof", c + 1)
    BY <1>2, <1>3 DEF lex, Digits, Letters, UpperLetters
  <2>2. EndsAt("Eof", c + 1)
    <3> HIDE DEF c, T
    <3>1. c + 1 \in c + 1 .. Len(T) + 1 /\ T[c] \notin {"quot", "'"} /\ \A j \in c .. (c + 1) - 1 : T[j] # "nl"
      BY <1>1, <1>3
    <3>2. "Eof" \notin Directives
      BY DEF Directives
    <3>3. QED
      BY <1>3, <3>1, <3>2 DEF EndsAt, c, T
  <2>3. QED
    BY <1>1, <2>1, <2>2 DEF Completes
<1>4. CASE \/ T[c] = "quot" \/ T[c] = "'"
           \/ T[c] = "<" /\ Lex.path
           \/ T[c] = "/" /\ T[c + 1] \in {"/", "*"}
  <2>1. \E m \in Scanned : lexing' = m /\ advance(1) /\ token' = Started /\ T[c] = Opener(m)
    <3>1. CASE T[c] = "quot"
      <4>1. lexing' = "quot" /\ advance(1) /\ token' = Started
        BY <1>2, <3>1 DEF lex, Digits, Letters, UpperLetters
      <4>2. QED
        BY <3>1, <4>1 DEF Scanned, Opener
    <3>2. CASE T[c] = "'"
      <4>1. lexing' = "'" /\ advance(1) /\ token' = Started
        BY <1>2, <3>2 DEF lex, Digits, Letters, UpperLetters
      <4>2. QED
        BY <3>2, <4>1 DEF Scanned, Opener
    <3>3. CASE T[c] = "<" /\ Lex.path
      <4>1. lexing' = ">" /\ advance(1) /\ token' = Started
        BY <1>2, <3>3 DEF lex, Digits, Letters, UpperLetters
      <4>2. QED
        BY <3>3, <4>1 DEF Scanned, Opener
    <3>4. CASE T[c] = "/" /\ T[c + 1] = "/"
      <4>1. lexing' = "comment" /\ advance(1) /\ token' = Started
        BY <1>2, <3>4 DEF lex, Digits, Letters, UpperLetters
      <4>2. QED
        BY <3>4, <4>1 DEF Scanned, Opener
    <3>5. CASE T[c] = "/" /\ T[c + 1] = "*"
      <4>1. lexing' = "mlcomment" /\ advance(1) /\ token' = Started
        BY <1>2, <3>5 DEF lex, Digits, Letters, UpperLetters
      <4>2. QED
        BY <3>5, <4>1 DEF Scanned, Opener
    <3>6. QED
      BY <1>4, <3>1, <3>2, <3>3, <3>4, <3>5
  <2>2. QED
    BY <1>1, <2>1 DEF Opens
<1>5. CASE T[c] \in Digits
  <2>1. Ends("Number", NumberEnd)
    BY <1>2, <1>5 DEF lex, Digits, Letters, UpperLetters
  <2>2. EndsAt("Number", NumberEnd)
    BY <1>1, <1>5, NumberEnds
  <2>3. QED
    BY <1>1, <2>1, <2>2 DEF Completes
<1>6. CASE T[c] \in Letters
  <2> DEFINE k == After(c, WordChars)
             type == IF k = c + 1 /\ T[c] \in DOMAIN Keywords THEN Keywords[T[c]]
                     ELSE IF T[c] \in UpperLetters THEN "TypeIdent" ELSE "Ident"
  <2>1. Ends(type, k)
    BY <1>2, <1>6 DEF lex, Letters, UpperLetters, Digits
  <2>2. (type = Keywords[T[c]] /\ T[c] \in DOMAIN Keywords) \/ type \in {"TypeIdent", "Ident"}
    OBVIOUS
  <2> HIDE DEF type
  <2>3. EndsAt(type, k)
    BY <1>1, <1>6, <2>2, WordEnds
  <2>4. QED
    BY <1>1, <2>1, <2>3 DEF Completes
<1>7. CASE T[c] = "@"
  <2> DEFINE k == After(c + 1, WordChars)
  <2>1. Ends("InvalidAtKeyword", k)
    BY <1>2, <1>7 DEF lex, Letters, UpperLetters, Digits
  <2>2. c + 1 \in 1 .. Len(T)
    <3> HIDE DEF c, T
    <3>1. c # Len(T)
      BY <1>1, <1>7
    <3>2. QED
      BY <1>1, <3>1
  <2>3. "nul" \notin WordChars /\ "nl" \notin WordChars
    BY DEF WordChars, Letters, UpperLetters, Digits
  <2>4. k \in c + 1 .. Len(T) /\ \A j \in c + 1 .. k - 1 : T[j] \in WordChars
    BY <1>1, <2>2, <2>3, AfterIs
  <2> HIDE DEF k
  <2>5. k \in c + 1 .. Len(T) + 1 /\ k # Len(T) + 1 /\ T[c] \notin {"quot", "'", "nul"}
        /\ \A j \in c .. k - 1 : T[j] # "nl"
    <3> HIDE DEF c, T
    <3>1. QED
      BY <1>1, <1>7, <2>3, <2>4
  <2>6. EndsAt("InvalidAtKeyword", k)
    <3>1. "InvalidAtKeyword" # "Eof" /\ "InvalidAtKeyword" \notin Directives
      BY PlainTypes
    <3>2. QED
      BY <2>5, <3>1 DEF EndsAt
  <2>7. QED
    BY <1>1, <2>1, <2>6 DEF Completes
<1>8. CASE T[c] = "\\" /\ (T[c + 1] = "nl" \/ (T[c + 1] = "cr" /\ T[c + 2] = "nl"))
  <2> DEFINE n == IF T[c + 1] = "nl" THEN 2 ELSE 3
  <2>1. newline(n) /\ token' = Started /\ lexing' = "blank"
    BY <1>2, <1>8 DEF lex, Letters, UpperLetters, Digits
  <2>2. n \in {2, 3} /\ T[c + n - 1] = "nl" /\ (\A j \in c .. c + n - 2 : T[j] # "nl") /\ c + n <= Len(T)
    <3> HIDE DEF c, T
    <3>1. c + 1 <= Len(T)
      BY <1>1, <1>8
    <3>2. CASE T[c + 1] = "nl"
      <4>1. n = 2 /\ c + 1 # Len(T)
        BY <1>1, <3>2
      <4>2. QED
        BY <1>1, <1>8, <3>1, <3>2, <4>1
    <3>3. CASE T[c + 1] # "nl"
      <4>1. n = 3 /\ c + 1 # Len(T) /\ T[c + 1] = "cr" /\ T[c + 2] = "nl"
        BY <1>1, <1>8, <3>3
      <4>2. c + 2 # Len(T) /\ c + 3 <= Len(T)
        BY <1>1, <3>1, <4>1
      <4>3. \A j \in c .. c + 1 : j = c \/ j = c + 1
        BY <1>1
      <4>4. QED
        BY <1>1, <1>8, <4>1, <4>2, <4>3
    <3>4. QED
      BY <3>2, <3>3
  <2> HIDE DEF n
  <2>3. QED
    BY <1>1, <1>8, <2>1, <2>2 DEF Splices
<1>9. CASE /\ T[c] \notin {"nul", "quot", "'", "@"} /\ T[c] \notin Digits /\ T[c] \notin Letters
           /\ ~(T[c] = "<" /\ Lex.path) /\ ~(T[c] = "/" /\ T[c + 1] \in {"/", "*"})
           /\ ~(T[c] = "\\" /\ (T[c + 1] = "nl" \/ (T[c + 1] = "cr" /\ T[c + 2] = "nl")))
  <2>1. IF Symbol = <<>> THEN Ends("UnexpectedChar", c + 1) ELSE Ends(Symbol[2], c + Len(Symbol[1]))
    BY <1>2, <1>9 DEF lex, Digits, Letters, UpperLetters
  <2>2. CASE Symbol = <<>>
    <3>1. "UnexpectedChar" # "Eof" /\ "UnexpectedChar" \notin Directives
      BY PlainTypes
    <3>2. /\ c + 1 \in c + 1 .. Len(T) + 1 /\ c + 1 # Len(T) + 1 /\ T[c] \notin {"quot", "'", "nul"}
          /\ \A j \in c .. (c + 1) - 1 : T[j] # "nl"
      <4> HIDE DEF c, T
      <4>1. T[c] # "nul" /\ T[c] \notin {"quot", "'"}
        BY <1>9
      <4>2. QED
        BY <1>1, <4>1
    <3>3. EndsAt("UnexpectedChar", c + 1)
      BY <3>1, <3>2 DEF EndsAt
    <3>4. QED
      BY <1>1, <2>1, <2>2, <3>3 DEF Completes
  <2>3. CASE Symbol # <<>>
    <3>1. EndsAt(Symbol[2], c + Len(Symbol[1]))
      BY <1>1, <1>9, <2>3, SymbolEnds
    <3>2. QED
      BY <1>1, <2>1, <2>3, <3>1 DEF Completes
  <2>4. QED
    BY <2>2, <2>3
<1>10. QED
  <2> HIDE DEF T, c
  <2>1. QED
    BY <1>3, <1>4, <1>5, <1>6, <1>7, <1>8, <1>9

-----------------------------------------------------------------------------
(* Turns of the lexer.                                                     *)

\* A directive can only be read at the end of a text that has no word for one:
\* it is load, which the type of an earlier token was taken for.
Stuck(T, c, m, t) ==
    /\ wanted = "any" /\ stop = {}
    /\ \/ m \in {"blank", "token"} /\ c <= Len(T) /\ T[c] = "nul"
       \/ m = "done" /\ t.to # 0 /\ T[t.from] = "nul"
InsideAt(T, c, m, t) ==
    ~Noted(T) =>
        /\ directive = None \/ Stuck(T, c, m, t)
        /\ m # "done" => c <= Len(T)
        /\ directive = None =>
              /\ t.type \notin {"Ulam", "Use"}
              /\ m = "done" => /\ c <= Len(T) \/ t.type = "Eof"
                               /\ t.type = "Load" => c <= Len(T) /\ T[c] = "nul"

Scanning ==
    /\ TextsGood /\ LexersGood
    /\ TokenGoodAt(Text, Lex.cur, lexing, esc, token)
    /\ InsideAt(Text, Lex.cur, lexing, token)
ScannedOn ==
    /\ texts' = texts /\ end' = end /\ LexersGood' /\ Text' = Text
    /\ TokenGoodAt(Text, Lex'.cur, lexing', esc', token')
    /\ InsideAt(Text, Lex'.cur, lexing', token')

LEMMA Stays ==
    ASSUME TextsGood, LexersGood, texts' = texts, sources' = sources
    PROVE  MovesTo(Lex.cur)
BY DEF MovesTo, LexersGood, Lex, Text, Located

LEMMA PlaceIs ==
    ASSUME TextsGood, LexersGood
    PROVE  /\ IsText(Text) /\ Len(Text) \in Nat /\ Lex.cur \in Nat /\ Lex.cur >= 1 /\ Lex.cur <= Len(Text) + 1
           /\ Lex.line \in Nat /\ Lex.start \in 1 .. Lex.cur /\ Text[Len(Text)] = "nul" /\ Len(Text) >= 1
           /\ At(0) = Text[Lex.cur] /\ At(1) = Text[Lex.cur + 1]
           /\ LineEnd = LineEndIn(Text, Lex.cur)
           /\ EscapesQuote(Text) \/ Counts(Text, Lex.cur, Lex.line, Lex.start)
<1>1. IsText(Text) /\ Len(Text) \in Nat /\ Lex.cur \in Nat /\ Lex.line \in Nat /\ Lex.start \in Nat
  BY TextIs DEF IsText, Lexers
<1>2. /\ Lex.start \in 1 .. Lex.cur /\ Lex.cur <= Len(Text) + 1 /\ Text[Len(Text)] = "nul" /\ Len(Text) >= 1
      /\ EscapesQuote(Text) \/ Counts(Text, Lex.cur, Lex.line, Lex.start)
  BY <1>1 DEF LexersGood, Located, IsText
<1>3. Lex.cur + 0 = Lex.cur
  BY <1>1
<1>4. At(0) = Text[Lex.cur] /\ At(1) = Text[Lex.cur + 1]
  BY <1>3 DEF At
<1>5. LineEnd = LineEndIn(Text, Lex.cur)
  BY <1>4 DEF LineEnd, LineEndIn
<1>6. QED
  BY <1>1, <1>2, <1>4, <1>5

LEMMA LineEndIs ==
    ASSUME NEW T, IsText(T), NEW c \in 1 .. Len(T), NEW n, n = LineEndIn(T, c)
    PROVE  /\ n \in {0, 1, 2}
           /\ n > 0 => /\ c + n <= Len(T) /\ T[c + n - 1] = "nl" /\ T[c] \in {"nl", "cr"}
                       /\ \A j \in c .. c + n - 2 : T[j] # "nl"
           /\ n = 0 => T[c] # "nl"
<1>1. Len(T) \in Nat /\ T[Len(T)] = "nul"
  BY DEF IsText
<1>2. CASE T[c] = "nl"
  <2>1. n = 1 /\ c # Len(T)
    BY <1>1, <1>2 DEF LineEndIn
  <2>2. QED
    BY <1>1, <1>2, <2>1
<1>3. CASE T[c] = "cr" /\ T[c + 1] = "nl"
  <2>1. n = 2 /\ c # Len(T) /\ c + 1 # Len(T)
    BY <1>1, <1>3 DEF LineEndIn
  <2>2. \A j \in c .. c + n - 2 : j = c
    BY <2>1
  <2>3. QED
    BY <1>1, <1>3, <2>1, <2>2
<1>4. CASE T[c] # "nl" /\ ~(T[c] = "cr" /\ T[c + 1] = "nl")
  BY <1>4 DEF LineEndIn
<1>5. QED
  BY <1>2, <1>3, <1>4

LEMMA StartedIs ==
    ASSUME TextsGood, LexersGood, IsToken(token), NEW type, NEW to \in Nat,
           NEW s, s = Started \/ s = [Started EXCEPT !.type = type, !.to = to]
    PROVE  /\ IsToken(s) /\ s.from = Lex.cur
           /\ EscapesQuote(Text) \/ Counts(Text, s.from, s.line, s.from + 1 - s.column)
<1> DEFINE column == Lex.cur + 1 - Lex.start
<1>1. /\ Lex.cur \in Nat /\ Lex.line \in Nat /\ column \in Nat /\ Lex.cur + 1 - column = Lex.start
      /\ EscapesQuote(Text) \/ Counts(Text, Lex.cur, Lex.line, Lex.start)
  BY PlaceIs
<1>2. Started = [token EXCEPT !.from = Lex.cur, !.line = Lex.line, !.column = column]
  BY DEF Started, Place
<1> HIDE DEF column
<1>3. IsToken(s) /\ s.from = Lex.cur /\ s.line = Lex.line /\ s.column = column
  BY <1>1, <1>2 DEF IsToken
<1>4. QED
  BY <1>1, <1>3

\* A token that is being scanned is scanned further.
LEMMA Continues ==
    ASSUME NEW T, NEW c \in Nat, NEW m \in Scanned, NEW e, NEW t, TokenGoodAt(T, c, m, e, t),
           NEW d \in Nat, c <= d, NEW f \in BOOLEAN, (m = "'" /\ f) => (d = c + 1 /\ T[c] = "\\"),
           \A q \in {"quot", "'"} : ~(q = "'" /\ EscapesQuote(T)) /\ m = q => Reading(T, t.from, d, f, q)
    PROVE  TokenGoodAt(T, d, m, f, t)
<1>1. m \in Modes /\ m # "token" /\ m # "done"
  BY DEF Modes, Scanned
<1>2. t.from \in 1 .. d - 1 /\ t.from \in 1 .. c - 1
  BY <1>1 DEF TokenGoodAt
<1>3. (m = "'" /\ f) => t.from < d - 1 /\ T[d - 1] = "\\"
  BY <1>2
<1>4. QED
  BY <1>1, <1>2, <1>3 DEF TokenGoodAt

\* A token that is being scanned is complete, and may have been given a type.
Completed(u, t, type, k) == u = t \/ u = [t EXCEPT !.type = type, !.to = k]
EndedAt(T, m, t, u, k) ==
    /\ m \in {"quot", "'"} => u.to = k
    /\ \A q \in {"quot", "'"} : ~(q = "'" /\ EscapesQuote(T)) /\ m = q => EndsRight(T, t.from, k, q)

LEMMA Finishes ==
    ASSUME NEW T, NEW c \in Nat, NEW m \in Scanned, NEW e, NEW t, TokenGoodAt(T, c, m, e, t),
           NEW d \in Nat, c <= d, NEW f \in BOOLEAN, NEW type, NEW k \in Nat,
           NEW u, Completed(u, t, type, k), EndedAt(T, m, t, u, k)
    PROVE  TokenGoodAt(T, d, "done", f, u)
<1>1. IsToken(t) /\ T[t.from] = Opener(m) /\ t.from \in 1 .. c - 1
      /\ (EscapesQuote(T) \/ Counts(T, t.from, t.line, t.from + 1 - t.column))
  BY DEF TokenGoodAt
<1>2. IsToken(u) /\ u.from = t.from /\ u.line = t.line /\ u.column = t.column
  BY <1>1 DEF IsToken, Completed
<1>3. \A q \in {"quot", "'"} : T[t.from] = q => m = q
  BY <1>1 DEF Opener, Scanned
<1>4. t.from \in 1 .. d - 1
  BY <1>1
<1>5. "done" \in Modes /\ "done" \notin Scanned
  BY DEF Modes, Scanned
<1>6. ASSUME NEW q \in {"quot", "'"}, ~(q = "'" /\ EscapesQuote(T)), T[u.from] = q
      PROVE  EndsRight(T, u.from, u.to, q)
  BY <1>2, <1>3, <1>6 DEF EndedAt
<1>7. QED
  BY <1>1, <1>2, <1>4, <1>5, <1>6 DEF TokenGoodAt

LEMMA ScansOn ==
    ASSUME Scanning, lexing \in Scanned, NEW d \in Nat, Lex.cur <= d, MovesTo(d),
           EscapesQuote(Text) \/ d <= Len(Text), NEW f \in BOOLEAN, esc' = f,
           lexing' = lexing, token' = token, end' = end,
           (lexing = "'" /\ f) => (d = Lex.cur + 1 /\ Text[Lex.cur] = "\\"),
           \A q \in {"quot", "'"} : ~(q = "'" /\ EscapesQuote(Text)) /\ lexing = q =>
              Reading(Text, token.from, d, f, q)
    PROVE  ScannedOn
<1> DEFINE T == Text
           c == Lex.cur
           m == lexing
           t == token
<1>1. TokenGoodAt(T, c, m, esc, t) /\ InsideAt(T, c, m, t) /\ c \in Nat
  BY PlaceIs DEF Scanning
<1>2. /\ texts' = texts /\ LexersGood' /\ Text' = T /\ Lex'.cur = d
  BY DEF MovesTo
<1>3. TokenGoodAt(T, d, m, f, t)
  <2> HIDE DEF T, c, m, t
  <2>1. m \in Scanned /\ ((m = "'" /\ f) => (d = c + 1 /\ T[c] = "\\")) /\ c <= d
        /\ \A q \in {"quot", "'"} : ~(q = "'" /\ EscapesQuote(T)) /\ m = q => Reading(T, t.from, d, f, q)
    BY DEF T, c, m, t
  <2>2. QED
    BY <1>1, <2>1, Continues
<1>4. InsideAt(T, d, m, t)
  <2>1. m # "done" /\ m # "blank" /\ m # "token"
    BY DEF Scanned
  <2>2. ~Noted(T) => d <= Len(T)
    BY DEF Noted
  <2> HIDE DEF T, m, t, c
  <2>3. QED
    BY <1>1, <2>1, <2>2 DEF InsideAt, Stuck
<1>5. QED
  BY <1>2, <1>3, <1>4 DEF ScannedOn

LEMMA ScanEnds ==
    ASSUME Scanning, lexing \in Scanned, NEW d \in Nat, Lex.cur <= d, MovesTo(d),
           EscapesQuote(Text) \/ d <= Len(Text), esc' \in BOOLEAN, lexing' = "done", end' = end,
           NEW type \in {"String", "Char", "Comment"}, NEW k \in Nat,
           (token' = [token EXCEPT !.type = type, !.to = k])
             \/ (token' = token /\ lexing \notin {"quot", "'"} /\ d = Lex.cur /\ Text[d] = "nul"),
           \A q \in {"quot", "'"} : ~(q = "'" /\ EscapesQuote(Text)) /\ lexing = q =>
              EndsRight(Text, token.from, k, q)
    PROVE  ScannedOn
<1> DEFINE T == Text
           c == Lex.cur
           m == lexing
           t == token
           u == token'
           f == esc'
<1>1. TokenGoodAt(T, c, m, esc, t) /\ InsideAt(T, c, m, t) /\ c \in Nat /\ f \in BOOLEAN
  BY PlaceIs DEF Scanning
<1>2. /\ texts' = texts /\ LexersGood' /\ Text' = T /\ Lex'.cur = d
  BY DEF MovesTo
<1>3. u = t \/ u = [t EXCEPT !.type = type, !.to = k]
  OBVIOUS
<1>4. IsToken(t)
  BY <1>1 DEF TokenGoodAt
<1>5. m \in {"quot", "'"} => u.to = k
  BY <1>4 DEF IsToken
<1>6. (u = t /\ d = c /\ T[d] = "nul") \/ u.type = type
  BY <1>4 DEF IsToken
<1>7. TokenGoodAt(T, d, "done", f, u)
  <2> HIDE DEF T, c, m, t, u, f
  <2>1. m \in Scanned /\ c <= d /\ EndedAt(T, m, t, u, k)
    BY <1>5 DEF T, c, m, t, u, EndedAt
  <2>2. Completed(u, t, type, k)
    BY <1>3 DEF Completed
  <2>3. QED
    BY <1>1, <2>1, <2>2, Finishes
<1>8. InsideAt(T, d, "done", u)
  <2>1. m # "done" /\ m # "blank" /\ m # "token"
    BY DEF Scanned
  <2>2. ~Noted(T) => d <= Len(T)
    BY DEF Noted
  <2> HIDE DEF T, m, t, c, u
  <2>3. QED
    BY <1>1, <1>6, <2>1, <2>2 DEF InsideAt, Stuck
<1>9. QED
  BY <1>2, <1>7, <1>8 DEF ScannedOn

\* A turn passes over one character, or over the end of a line.
LEMMA PassesOver ==
    ASSUME TextsGood, LexersGood, texts' = texts, Lex.cur <= Len(Text), Text[Lex.cur] # "nul",
           IF LineEnd > 0 THEN newline(LineEnd) ELSE advance(1)
    PROVE  LET n == IF LineEnd = 2 THEN 2 ELSE 1 IN
           MovesTo(Lex.cur + n) /\ Lex.cur + n <= Len(Text)
<1> DEFINE c == Lex.cur
           T == Text
           e == LineEnd
           n == IF e = 2 THEN 2 ELSE 1
<1>1. /\ IsText(T) /\ Len(T) \in Nat /\ c \in 1 .. Len(T) /\ c \in Nat /\ T[Len(T)] = "nul"
      /\ e = LineEndIn(T, c)
  BY PlaceIs
<1>2. /\ e \in {0, 1, 2}
      /\ e > 0 => /\ c + e <= Len(T) /\ T[c + e - 1] = "nl" /\ T[c] \in {"nl", "cr"}
                  /\ \A j \in c .. c + e - 2 : T[j] # "nl"
      /\ e = 0 => T[c] # "nl"
  BY <1>1, LineEndIs
<1>3. CASE e > 0
  <2>1. n = e
    BY <1>2, <1>3
  <2>2. MovesTo(c + e)
    <3>1. newline(e)
      BY <1>3
    <3> HIDE DEF e
    <3>2. e \in Nat /\ e >= 1 /\ c + e <= Len(T) + 1
      BY <1>1, <1>2, <1>3
    <3>3. QED
      BY <1>2, <1>3, <3>1, <3>2, NewLines
  <2>3. QED
    BY <1>2, <1>3, <2>1, <2>2
<1>4. CASE e = 0
  <2>1. n = 1 /\ advance(1) /\ T[c] # "nl" /\ c < Len(T)
    <3>1. n = 1 /\ advance(1) /\ T[c] # "nl" /\ T[c] # "nul"
      BY <1>2, <1>4
    <3> HIDE DEF e, c, T
    <3>2. c # Len(T)
      BY <1>1, <3>1
    <3>3. QED
      BY <1>1, <3>1, <3>2
  <2>2. \A j \in c .. c + 1 - 1 : T[j] # "nl"
    <3> HIDE DEF c, T
    <3>1. QED
      BY <1>1, <2>1
  <2>3. MovesTo(c + 1)
    <3>1. c + 1 <= Len(T) + 1 /\ 1 \in Nat
      BY <1>1
    <3>2. QED
      BY <2>1, <2>2, <3>1, Advances
  <2>4. QED
    BY <1>1, <2>1, <2>3
<1>5. e > 0 \/ e = 0
  <2> HIDE DEF e
  <2>1. QED
    BY <1>2
<1>6. QED
  BY <1>3, <1>4, <1>5

\* A turn of lex_str() or lex_chr(), but for an escaped quote in a character.
TurnOf(type) ==
    LET n == IF LineEnd = 2 THEN 2 ELSE 1
        c == Lex.cur
    IN  /\ lexing \in {"quot", ">", "'"} /\ c <= Len(Text) /\ texts' = texts /\ end' = end
        /\ IF Text[c] = "nul" THEN sources' = sources /\ complete(type, c) /\ esc' = esc
           ELSE /\ IF LineEnd > 0 THEN newline(LineEnd) ELSE advance(1)
                /\ IF ~esc /\ (LineEnd > 0 \/ Text[c] = lexing)
                   THEN complete(type, c + n) /\ esc' = esc
                   ELSE GoOn(Text[c] = "\\" /\ ~esc)

LEMMA LiteralGoesOn ==
    ASSUME Scanning, NEW type \in {"String", "Char", "Comment"}, TurnOf(type)
    PROVE  ScannedOn
<1> DEFINE c == Lex.cur
           T == Text
           t == token
           n == IF LineEnd = 2 THEN 2 ELSE 1
           stops == ~esc /\ (LineEnd > 0 \/ T[c] = lexing)
           f == T[c] = "\\" /\ ~esc
<1>1. /\ TextsGood /\ LexersGood /\ TokenGoodAt(T, c, lexing, esc, t)
      /\ lexing \in {"quot", ">", "'"} /\ texts' = texts /\ end' = end /\ c <= Len(T)
  BY DEF Scanning, TurnOf
<1>2. lexing \in Scanned
  BY <1>1 DEF Scanned
<1>3. /\ c \in 1 .. Len(T) /\ c \in Nat /\ Len(T) \in Nat /\ At(0) = T[c]
      /\ LineEnd = LineEndIn(T, c)
  BY <1>1, PlaceIs
<1>4. t.from \in 1 .. c - 1 /\ t.from \in Nat /\ esc \in BOOLEAN
  BY <1>1, <1>2 DEF TokenGoodAt
<1>8. \A q \in {"quot", "'"} : ~(q = "'" /\ EscapesQuote(T)) /\ lexing = q =>
         Reading(T, t.from, c, esc, q)
  BY <1>1 DEF TokenGoodAt
<1>5. CASE T[c] = "nul"
  <2>1. sources' = sources /\ complete(type, c) /\ esc' = esc
    BY <1>3, <1>5 DEF TurnOf
  <2>2. MovesTo(c)
    BY <1>1, <2>1, Stays
  <2>3. \A q \in {"quot", "'"} : ~(q = "'" /\ EscapesQuote(T)) /\ lexing = q =>
           EndsRight(T, t.from, c - 1, q)
    BY <1>3, <1>4, <1>5, <1>8, ReadingEnds
  <2>4. c - 1 \in Nat /\ lexing' = "done" /\ token' = [token EXCEPT !.type = type, !.to = c - 1]
    BY <1>3, <2>1 DEF complete
  <2>5. ScannedOn
    <3> DEFINE k == c - 1
    <3>1. \A q \in {"quot", "'"} : ~(q = "'" /\ EscapesQuote(Text)) /\ lexing = q =>
             EndsRight(Text, token.from, k, q)
      BY <1>1, <2>3
    <3>2. c \in Nat /\ k \in Nat /\ Lex.cur <= c /\ c <= Len(Text) /\ MovesTo(c) /\ esc' \in BOOLEAN
      BY <1>1, <1>3, <1>4, <2>1, <2>2, <2>4
    <3>3. lexing' = "done" /\ token' = [token EXCEPT !.type = type, !.to = k]
      BY <2>4
    <3> HIDE DEF c, k
    <3>4. QED
      BY <1>1, <1>2, <3>1, <3>2, <3>3, ScanEnds
  <2>6. QED
    BY <2>5
<1>6. CASE T[c] # "nul"
  <2>1. IF LineEnd > 0 THEN newline(LineEnd) ELSE advance(1)
    BY <1>6 DEF TurnOf
  <2>2. MovesTo(c + n) /\ c + n <= Len(T)
    BY <1>1, <1>6, <2>1, PassesOver
  <2>3. /\ stops => complete(type, c + n) /\ esc' = esc
        /\ ~stops => GoOn(f)
    BY <1>3, <1>6 DEF TurnOf
  <2>4. ASSUME NEW q \in {"quot", "'"}, ~(q = "'" /\ EscapesQuote(T)), lexing = q
        PROVE  IF stops THEN EndsRight(T, t.from, c + n - 1, q)
               ELSE Reading(T, t.from, c + n, f, q)
    <3>1. t.from + 1 <= c /\ n = IF LineEndIn(T, c) = 2 THEN 2 ELSE 1
      BY <1>3, <1>4
    <3>2. stops <=> ~esc /\ (LineEndIn(T, c) > 0 \/ T[c] = q)
      BY <1>3, <2>4
    <3>3. Reading(T, t.from, c, esc, q)
      BY <1>8, <2>4
    <3> HIDE DEF n, stops, f
    <3>4. IF ~esc /\ (LineEndIn(T, c) > 0 \/ T[c] = q)
          THEN EndsRight(T, t.from, c + n - 1, q)
          ELSE Reading(T, t.from, c + n, T[c] = "\\" /\ ~esc, q)
      BY <1>3, <1>4, <3>1, <3>3, ReadingGoesOn
    <3>5. QED
      BY <3>2, <3>4 DEF f
  <2>5. n \in {1, 2} /\ c <= c + n /\ c + n \in Nat /\ c + n - 1 \in Nat
    BY <1>3
  <2> HIDE DEF n, f
  <2> DEFINE d == c + n
             k == c + n - 1
  <2>6. CASE stops
    <3>1. lexing' = "done" /\ token' = [token EXCEPT !.type = type, !.to = k] /\ esc' = esc
      <4>1. (c + n) - 1 = k
        BY <1>3, <2>5
      <4> HIDE DEF k
      <4>2. QED
        BY <2>3, <2>6, <4>1 DEF complete
    <3>2. \A q \in {"quot", "'"} : ~(q = "'" /\ EscapesQuote(Text)) /\ lexing = q =>
             EndsRight(Text, token.from, k, q)
      BY <1>1, <2>4, <2>6
    <3>3. d \in Nat /\ k \in Nat /\ Lex.cur <= d /\ d <= Len(Text) /\ MovesTo(d)
      BY <2>2, <2>5
    <3> HIDE DEF d, k
    <3>4. QED
      BY <1>1, <1>2, <1>4, <3>1, <3>2, <3>3, ScanEnds
  <2>7. CASE ~stops
    <3>1. lexing' = lexing /\ token' = token /\ esc' = f /\ f \in BOOLEAN
      BY <2>3, <2>7 DEF GoOn, f
    <3>2. \A q \in {"quot", "'"} : ~(q = "'" /\ EscapesQuote(Text)) /\ lexing = q =>
             Reading(Text, token.from, d, f, q)
      BY <1>1, <2>4, <2>7
    <3>3. d \in Nat /\ Lex.cur <= d /\ d <= Len(Text) /\ MovesTo(d)
      BY <2>2, <2>5
    <3>4. (lexing = "'" /\ f) => (d = Lex.cur + 1 /\ Text[Lex.cur] = "\\")
      BY <1>3 DEF f, n, LineEndIn
    <3> HIDE DEF d
    <3>5. QED
      BY <1>1, <1>2, <3>1, <3>2, <3>3, <3>4, ScansOn
  <2>8. QED
    BY <2>6, <2>7
<1>7. QED
  BY <1>5, <1>6

LEMMA LexString == ASSUME Scanning, lex_str PROVE ScannedOn
<1>1. /\ lexing \in {"quot", ">"} /\ Lex.cur <= Len(Text) /\ texts' = texts /\ end' = end
      /\ At(0) = Text[Lex.cur] /\ LineEnd \in {0, 1, 2}
  <2>1. TextsGood /\ LexersGood
    BY DEF Scanning
  <2>2. lexing \in {"quot", ">"} /\ Lex.cur <= Len(Text) /\ texts' = texts /\ end' = end
    BY DEF lex_str, Scans, Inside
  <2>3. QED
    BY <2>1, <2>2, PlaceIs DEF LineEnd
<1>2. TurnOf("String")
  BY <1>1 DEF lex_str, TurnOf, AtEnd
<1>3. QED
  BY <1>2, LiteralGoesOn

LEMMA LexCharacter == ASSUME Scanning, lex_chr PROVE ScannedOn
<1> DEFINE c == Lex.cur
           T == Text
<1>1. /\ TextsGood /\ LexersGood /\ TokenGoodAt(T, c, lexing, esc, token)
      /\ lexing = "'" /\ c <= Len(T) /\ texts' = texts /\ end' = end
  BY DEF Scanning, lex_chr, Scans, Inside
<1>2. /\ IsText(T) /\ Len(T) \in Nat /\ T[Len(T)] = "nul" /\ c \in Nat /\ c \in 1 .. Len(T)
      /\ At(0) = T[c] /\ LineEnd \in {0, 1, 2}
  BY <1>1, PlaceIs DEF LineEnd
<1>3. CASE ~(T[c] = "'" /\ esc)
  <2>1. TurnOf("Char")
    BY <1>1, <1>2, <1>3 DEF lex_chr, TurnOf, AtEnd
  <2>2. QED
    BY <2>1, LiteralGoesOn
<1>4. CASE T[c] = "'" /\ esc
  <2>1. LineEnd = 0 /\ advance(2) /\ GoOn(FALSE)
    <3>1. At(0) = "'" /\ LineEnd = 0 /\ ~AtEnd /\ esc
      BY <1>2, <1>4 DEF AtEnd, LineEnd
    <3>2. advance(2) /\ GoOn("'" = "\\" /\ ~esc)
      BY <3>1 DEF lex_chr
    <3>3. QED
      BY <3>1, <3>2 DEF GoOn
  <2>2. token.from \in 1 .. c - 1 /\ token.from < c - 1 /\ T[c - 1] = "\\"
    BY <1>1, <1>4 DEF TokenGoodAt, Scanned
  <2> HIDE DEF c, T
  <2>3. EscapesQuote(T)
    <3> DEFINE k == c - 1
    <3>1. k \in 1 .. Len(T) - 1 /\ k + 1 = c /\ T[k] = "\\"
      BY <1>2, <2>2
    <3> HIDE DEF k
    <3>2. QED
      BY <1>4, <3>1 DEF EscapesQuote
  <2>4. c # Len(T)
    BY <1>2, <1>4
  <2> DEFINE d == c + 2
  <2>5. d \in Nat /\ c <= d /\ d <= Len(T) + 1 /\ 2 \in Nat
    BY <1>2, <2>4
  <2>6. MovesTo(d)
    BY <1>1, <2>1, <2>3, <2>5, Advances DEF c, T
  <2>7. lexing' = lexing /\ token' = token /\ esc' = FALSE /\ lexing \in Scanned
    BY <1>1, <2>1 DEF GoOn, Scanned
  <2>8. \A q \in {"quot", "'"} : ~(~(q = "'" /\ EscapesQuote(Text)) /\ lexing = q)
    BY <1>1, <2>3 DEF T
  <2> HIDE DEF d
  <2>9. QED
    BY <1>1, <2>3, <2>5, <2>6, <2>7, <2>8, ScansOn DEF c, T
<1>5. QED
  BY <1>3, <1>4

LEMMA LexComment == ASSUME Scanning, lex_comment PROVE ScannedOn
<1> DEFINE c == Lex.cur
           T == Text
           n == IF T[c] = "cr" /\ LineEnd = 0 THEN 0 ELSE IF LineEnd = 2 THEN 2 ELSE 1
           d == IF T[c] = "nul" THEN c ELSE c + n
           f == T[c] = "\\" /\ ~esc
<1>1. /\ TextsGood /\ LexersGood /\ TokenGoodAt(T, c, lexing, esc, token)
      /\ lexing = "comment" /\ c <= Len(T) /\ texts' = texts /\ end' = end
  BY DEF Scanning, lex_comment, Scans, Inside
<1>2. /\ IsText(T) /\ Len(T) \in Nat /\ T[Len(T)] = "nul" /\ c \in Nat /\ c \in 1 .. Len(T)
      /\ At(0) = T[c] /\ LineEnd \in {0, 1, 2} /\ (T[c] = "nul" => LineEnd = 0)
  BY <1>1, PlaceIs DEF LineEnd
<1>3. lexing \in Scanned /\ lexing \notin {"quot", "'"} /\ esc \in BOOLEAN /\ f \in BOOLEAN
  BY <1>1 DEF Scanned, TokenGoodAt
<1>4. d \in Nat /\ c <= d
  BY <1>2
<1>5. MovesTo(d) /\ d <= Len(T)
  <2>1. CASE T[c] = "nul" \/ (T[c] = "cr" /\ LineEnd = 0)
    <3>1. sources' = sources /\ d = c
      BY <1>2, <2>1 DEF lex_comment, AtEnd
    <3>2. QED
      BY <1>1, <3>1, Stays
  <2>2. CASE T[c] # "nul" /\ ~(T[c] = "cr" /\ LineEnd = 0)
    <3>1. IF LineEnd > 0 THEN newline(LineEnd) ELSE advance(1)
      BY <1>2, <2>2 DEF lex_comment, AtEnd
    <3>2. d = c + IF LineEnd = 2 THEN 2 ELSE 1
      BY <2>2
    <3>3. QED
      BY <1>1, <2>2, <3>1, <3>2, PassesOver
  <2>3. QED
    BY <2>1, <2>2
<1>6. CASE T[c] = "nul"
  <2>1. lexing' = "done" /\ esc' = esc /\ token' = token /\ d = c
    BY <1>2, <1>6 DEF lex_comment, AtEnd
  <2> HIDE DEF d
  <2>2. 0 \in Nat /\ "Comment" \in {"String", "Char", "Comment"}
    OBVIOUS
  <2>3. QED
    BY <1>1, <1>3, <1>4, <1>5, <1>6, <2>1, <2>2, ScanEnds
<1>7. CASE T[c] # "nul"
  <2> DEFINE stops == ~esc /\ T[c] \in {"nl", "cr"}
             k == (c + LineEnd) - 1
  <2>1. CASE stops
    <3>1. lexing' = "done" /\ esc' = esc /\ token' = [token EXCEPT !.type = "Comment", !.to = k]
      BY <1>2, <1>7, <2>1 DEF lex_comment, AtEnd, complete
    <3>2. k \in Nat
      BY <1>2
    <3> HIDE DEF d, k
    <3>3. QED
      BY <1>1, <1>3, <1>4, <1>5, <3>1, <3>2, ScanEnds
  <2>2. CASE ~stops
    <3>1. lexing' = lexing /\ token' = token /\ esc' = f
      BY <1>2, <1>7, <2>2 DEF lex_comment, AtEnd, GoOn
    <3> HIDE DEF d, f
    <3>2. QED
      BY <1>1, <1>3, <1>4, <1>5, <3>1, ScansOn
  <2>3. QED
    BY <2>1, <2>2
<1>8. QED
  BY <1>6, <1>7

LEMMA LexLongComment == ASSUME Scanning, lex_ml_comment PROVE ScannedOn
<1> DEFINE c == Lex.cur
           T == Text
<1>1. /\ TextsGood /\ LexersGood /\ TokenGoodAt(T, c, lexing, esc, token)
      /\ lexing = "mlcomment" /\ c <= Len(T) /\ texts' = texts /\ end' = end /\ esc' = esc
  BY DEF Scanning, lex_ml_comment, Scans, Inside
<1>2. /\ IsText(T) /\ Len(T) \in Nat /\ T[Len(T)] = "nul" /\ c \in Nat /\ c \in 1 .. Len(T)
      /\ At(0) = T[c] /\ At(1) = T[c + 1] /\ LineEnd \in {0, 1, 2}
  BY <1>1, PlaceIs DEF LineEnd
<1>3. lexing \in Scanned /\ lexing \notin {"quot", "'"} /\ esc \in BOOLEAN
  BY <1>1 DEF Scanned, TokenGoodAt
<1>4. CASE T[c] = "nul"
  <2>1. lexing' = "done" /\ sources' = sources /\ token' = token
    BY <1>2, <1>4 DEF lex_ml_comment, AtEnd
  <2>2. MovesTo(c)
    BY <1>1, <2>1, Stays
  <2>3. 0 \in Nat /\ "Comment" \in {"String", "Char", "Comment"} /\ c <= c
    BY <1>2
  <2> HIDE DEF c
  <2>4. QED
    BY <1>1, <1>2, <1>3, <1>4, <2>1, <2>2, <2>3, ScanEnds DEF c
<1>5. CASE T[c] = "*" /\ T[c + 1] = "/"
  <2> DEFINE d == c + 2
             k == d - 1
  <2>1. advance(2) /\ lexing' = "done" /\ token' = [token EXCEPT !.type = "Comment", !.to = k]
    BY <1>2, <1>5 DEF lex_ml_comment, AtEnd, complete
  <2>2. d <= Len(T) /\ \A j \in c .. c + 2 - 1 : T[j] # "nl"
    <3> HIDE DEF c, T
    <3>1. c # Len(T) /\ c + 1 # Len(T)
      BY <1>2, <1>5
    <3>2. \A j \in c .. c + 2 - 1 : j = c \/ j = c + 1
      BY <1>2
    <3>3. QED
      BY <1>2, <1>5, <3>1, <3>2
  <2>3. d \in Nat /\ k \in Nat /\ c <= d /\ 2 \in Nat /\ c + 2 <= Len(T) + 1
    BY <1>2, <2>2
  <2>4. MovesTo(d)
    BY <1>1, <2>1, <2>2, <2>3, Advances
  <2> HIDE DEF d, k
  <2>5. QED
    BY <1>1, <1>3, <2>1, <2>2, <2>3, <2>4, ScanEnds
<1>6. CASE T[c] # "nul" /\ ~(T[c] = "*" /\ T[c + 1] = "/")
  <2> DEFINE n == IF LineEnd = 2 THEN 2 ELSE 1
             d == c + n
  <2>1. /\ IF LineEnd > 0 THEN newline(LineEnd) ELSE advance(1)
        /\ lexing' = lexing /\ token' = token
    BY <1>2, <1>6 DEF lex_ml_comment, AtEnd
  <2>2. MovesTo(d) /\ d <= Len(T)
    BY <1>1, <1>6, <2>1, PassesOver
  <2>3. d \in Nat /\ c <= d
    BY <1>2
  <2>4. lexing # "'"
    BY <1>1
  <2> HIDE DEF d
  <2>5. QED
    BY <1>1, <1>3, <2>1, <2>2, <2>3, <2>4, ScansOn
<1>7. QED
  BY <1>4, <1>5, <1>6

\* A turn that passes over something between tokens.
LEMMA GoesBlank ==
    ASSUME Scanning, lexing \in {"blank", "token"}, NEW d \in Nat, MovesTo(d), d <= Len(Text),
           lexing' = "blank", esc' \in BOOLEAN, end' = end,
           IsToken(token'), token'.type = token.type, Text[Lex.cur] # "nul"
    PROVE  ScannedOn
<1> DEFINE T == Text
           u == token'
           f == esc'
<1>1. texts' = texts /\ LexersGood' /\ Text' = T /\ Lex'.cur = d
  BY DEF MovesTo
<1>2. TokenGoodAt(T, d, "blank", f, u)
  <2>1. "blank" \in Modes /\ "blank" \notin Scanned /\ f \in BOOLEAN /\ IsToken(u)
    BY DEF Modes, Scanned
  <2> HIDE DEF T, u, f
  <2>2. QED
    BY <2>1 DEF TokenGoodAt
<1>3. InsideAt(T, d, "blank", u)
  <2>1. InsideAt(T, Lex.cur, lexing, token) /\ d <= Len(T) /\ T[Lex.cur] # "nul"
        /\ u.type = token.type
    BY DEF Scanning
  <2> HIDE DEF T, u
  <2>2. QED
    BY <2>1 DEF InsideAt, Stuck
<1>4. QED
  BY <1>1, <1>2, <1>3 DEF ScannedOn

LEMMA SkipWhitespace == ASSUME Scanning, skip_whitespace PROVE ScannedOn
<1> DEFINE c == Lex.cur
           T == Text
           n == IF LineEnd = 2 THEN 2 ELSE 1
           d == c + n
<1>1. /\ TextsGood /\ LexersGood /\ TokenGoodAt(T, c, lexing, esc, token)
      /\ lexing = "blank" /\ c <= Len(T) /\ texts' = texts /\ end' = end
      /\ esc' = esc /\ token' = token
  BY DEF Scanning, skip_whitespace, Scans, Inside
<1>2. /\ IsText(T) /\ Len(T) \in Nat /\ T[Len(T)] = "nul" /\ c \in Nat /\ c \in 1 .. Len(T)
      /\ At(0) = T[c] /\ LineEnd = LineEndIn(T, c) /\ d \in Nat
  BY <1>1, PlaceIs
<1>3. LineEnd \in {0, 1, 2} /\ (LineEnd > 0 => T[c] \in {"nl", "cr"}) /\ (LineEnd = 0 => T[c] # "nl")
  BY <1>2, LineEndIs
<1>4. IsToken(token) /\ esc \in BOOLEAN
  BY <1>1 DEF TokenGoodAt
<1>5. CASE LineEnd > 0 \/ T[c] = "sp"
  <2>1. /\ IF LineEnd > 0 THEN newline(LineEnd) ELSE advance(1)
        /\ lexing' = "blank"
    BY <1>1, <1>2, <1>5 DEF skip_whitespace
  <2>2. T[c] # "nul"
    BY <1>3, <1>5
  <2>3. MovesTo(d) /\ d <= Len(T)
    BY <1>1, <2>1, <2>2, PassesOver
  <2> HIDE DEF d
  <2>4. QED
    BY <1>1, <1>2, <1>4, <2>1, <2>2, <2>3, GoesBlank
<1>6. CASE LineEnd = 0 /\ T[c] = "cr"
  <2>1. sources' = sources /\ lexing' = "blank"
    BY <1>1, <1>2, <1>6 DEF skip_whitespace
  <2>2. MovesTo(c) /\ T[c] # "nul"
    BY <1>1, <1>6, <2>1, Stays
  <2> HIDE DEF c
  <2>3. QED
    BY <1>1, <1>2, <1>4, <2>1, <2>2, GoesBlank DEF c
<1>7. CASE LineEnd = 0 /\ T[c] \notin {"sp", "cr"}
  <2>1. sources' = sources /\ lexing' = "token"
    BY <1>2, <1>7 DEF skip_whitespace
  <2>2. MovesTo(c)
    BY <1>1, <2>1, Stays
  <2>3. texts' = texts /\ LexersGood' /\ Text' = T /\ Lex'.cur = c
    BY <2>2 DEF MovesTo
  <2>4. TokenGoodAt(T, c, "token", esc, token)
    <3>1. "token" \in Modes /\ "token" \notin Scanned /\ T[c] # "nl"
      BY <1>3, <1>7 DEF Modes, Scanned
    <3> HIDE DEF T, c
    <3>2. QED
      BY <1>4, <3>1 DEF TokenGoodAt
  <2>5. InsideAt(T, c, "token", token)
    <3>1. InsideAt(T, c, "blank", token)
      BY <1>1 DEF Scanning
    <3> HIDE DEF T, c
    <3>2. QED
      BY <3>1 DEF InsideAt, Stuck
  <2>6. QED
    BY <1>1, <2>1, <2>3, <2>4, <2>5 DEF ScannedOn
<1>8. QED
  <2>1. LineEnd = 0 \/ LineEnd > 0
    BY <1>3
  <2>2. QED
    BY <1>5, <1>6, <1>7, <2>1

LEMMA LexBegins == ASSUME Scanning, lex PROVE ScannedOn
<1> DEFINE c == Lex.cur
           T == Text
<1>1. /\ TextsGood /\ LexersGood /\ TokenGoodAt(T, c, lexing, esc, token)
      /\ InsideAt(T, c, lexing, token) /\ lexing = "token"
  BY DEF Scanning, lex, Scans
<1>2. T[c] # "nl" /\ IsToken(token)
  BY <1>1 DEF TokenGoodAt
<1>3. /\ esc' = FALSE /\ texts' = texts /\ end' = end /\ c \in 1 .. Len(T)
      /\ Completes \/ Opens \/ Splices
  BY <1>1, <1>2, LexDoes
<1>4. /\ IsText(T) /\ Len(T) \in Nat /\ T[Len(T)] = "nul" /\ c \in Nat /\ Lex \in Lexers
  BY <1>1, PlaceIs, TextIs
<1>5. ASSUME Completes PROVE ScannedOn
  <2>1. PICK type, k : Ends(type, k) /\ EndsAt(type, k)
    BY <1>5 DEF Completes
  <2>2. /\ k \in c + 1 .. Len(T) + 1 /\ (type = "Eof" <=> T[c] = "nul")
        /\ (k = Len(T) + 1 => type = "Eof") /\ T[c] \notin {"quot", "'"}
        /\ (\A j \in c .. k - 1 : T[j] # "nl") /\ (type \in Directives => Directed(T))
    BY <2>1 DEF EndsAt
  <2> DEFINE n == k - c
             u == token'
  <2>3. n \in Nat /\ k \in Nat /\ c + n = k /\ k <= Len(T) + 1 /\ k - 1 \in Nat /\ k - 1 # 0 /\ c \in 1 .. k - 1
    BY <1>3, <1>4, <2>2
  <2>4. advance(n)
    <3>1. [Lex EXCEPT !.cur = @ + n] = [Lex EXCEPT !.cur = k]
      BY <2>3
    <3> HIDE DEF n
    <3>2. QED
      BY <2>1, <3>1 DEF Ends, advance
  <2>5. MovesTo(k)
    <3> HIDE DEF n
    <3>1. \A j \in c .. c + n - 1 : T[j] # "nl"
      BY <1>4, <2>2, <2>3
    <3>2. MovesTo(c + n)
      BY <1>1, <1>3, <2>3, <2>4, <3>1, Advances
    <3>3. QED
      BY <2>3, <3>2
  <2>6. u = [Started EXCEPT !.type = type, !.to = k - 1] /\ lexing' = "done"
    BY <2>1 DEF Ends
  <2>7. IsToken(u) /\ u.from = c /\ (EscapesQuote(T) \/ Counts(T, u.from, u.line, u.from + 1 - u.column))
    <3> DEFINE to == k - 1
    <3>1. to \in Nat /\ u = [Started EXCEPT !.type = type, !.to = to]
      BY <2>3, <2>6
    <3> HIDE DEF to, u
    <3>2. QED
      BY <1>1, <1>2, <3>1, StartedIs
  <2>8. u.type = type /\ u.to = k - 1
    BY <1>2, <2>6 DEF IsToken, Started
  <2>9. TokenGoodAt(T, k, "done", FALSE, u)
    <3>1. "done" \in Modes /\ "done" \notin Scanned
      BY DEF Modes, Scanned
    <3> HIDE DEF T, u, c
    <3>2. QED
      BY <2>2, <2>3, <2>7, <3>1 DEF TokenGoodAt
  <2>10. InsideAt(T, k, "done", u)
    <3>1. ~Noted(T) => type \notin Directives
      BY <2>2 DEF Noted
    <3>2. "Eof" # "Load"
      OBVIOUS
    <3> HIDE DEF T, u, c
    <3>3. k <= Len(T) \/ k = Len(T) + 1
      BY <1>4, <2>2
    <3>4. QED
      BY <1>1, <2>2, <2>3, <2>7, <2>8, <3>1, <3>2, <3>3 DEF InsideAt, Stuck, Directives
  <2>11. texts' = texts /\ LexersGood' /\ Text' = T /\ Lex'.cur = k
    BY <2>5 DEF MovesTo
  <2>12. QED
    BY <1>3, <2>6, <2>9, <2>10, <2>11 DEF ScannedOn
<1>6. ASSUME Opens PROVE ScannedOn
  <2>1. PICK m \in Scanned : lexing' = m /\ advance(1) /\ token' = Started /\ T[c] = Opener(m)
    BY <1>6 DEF Opens
  <2> DEFINE d == c + 1
             u == token'
  <2>2. T[c] \notin {"nul", "nl"}
    BY <2>1 DEF Opener, Scanned
  <2>3. d \in Nat /\ c <= d /\ d <= Len(T) /\ c \in 1 .. d - 1
    <3> HIDE DEF c, T
    <3>1. c # Len(T)
      BY <1>4, <2>2
    <3>2. QED
      BY <1>3, <1>4, <3>1
  <2>4. MovesTo(c + 1)
    <3>1. c + 1 <= Len(T) + 1 /\ 1 \in Nat
      BY <1>3, <1>4
    <3>2. \A j \in c .. c + 1 - 1 : T[j] # "nl"
      <4> HIDE DEF c, T
      <4>1. QED
        BY <1>4, <2>2
    <3>3. QED
      BY <1>1, <1>3, <2>1, <3>1, <3>2, Advances
  <2>5. IsToken(u) /\ u.from = c /\ (EscapesQuote(T) \/ Counts(T, u.from, u.line, u.from + 1 - u.column))
    <3>1. 0 \in Nat /\ u = Started
      BY <2>1
    <3> HIDE DEF u
    <3>2. QED
      BY <1>1, <1>2, <3>1, StartedIs
  <2>6. u.type = token.type
    BY <1>2, <2>1 DEF IsToken, Started
  <2>7. TokenGoodAt(T, d, m, FALSE, u)
    <3>1. m \in Modes /\ m # "token" /\ m # "done"
      BY DEF Modes, Scanned
    <3>2. \A q \in {"quot", "'"} : m = q => Reading(T, c, d, FALSE, q)
      <4> HIDE DEF T, c
      <4>1. ASSUME NEW q \in {"quot", "'"}, m = q PROVE Reading(T, c, d, FALSE, q)
        <5>1. T[c] = q
          BY <2>1, <4>1 DEF Opener
        <5>2. QED
          BY <1>4, <5>1, ReadingBegins
      <4>2. QED
        BY <4>1
    <3> HIDE DEF T, u, d, c
    <3>3. QED
      BY <2>1, <2>3, <2>5, <3>1, <3>2 DEF TokenGoodAt
  <2>8. InsideAt(T, d, m, u)
    <3>1. m # "done"
      BY DEF Scanned
    <3> HIDE DEF T, u, d, c
    <3>2. QED
      BY <1>1, <2>2, <2>3, <2>6, <3>1 DEF InsideAt, Stuck
  <2>9. texts' = texts /\ LexersGood' /\ Text' = T /\ Lex'.cur = d
    BY <2>4 DEF MovesTo
  <2>10. QED
    BY <1>3, <2>1, <2>7, <2>8, <2>9 DEF ScannedOn
<1>7. ASSUME Splices PROVE ScannedOn
  <2>1. PICK n \in {2, 3} :
          /\ newline(n) /\ token' = Started /\ lexing' = "blank"
          /\ T[c] = "\\" /\ T[c + n - 1] = "nl"
          /\ \A j \in c .. c + n - 2 : T[j] # "nl"
          /\ c + n <= Len(T)
    BY <1>7 DEF Splices
  <2> DEFINE d == c + n
  <2>2. d \in Nat /\ d <= Len(T) /\ n \in Nat /\ n >= 1 /\ c + n <= Len(T) + 1
    BY <1>4, <2>1
  <2>3. MovesTo(d)
    BY <1>1, <1>3, <2>1, <2>2, NewLines
  <2>4. IsToken(token') /\ token'.type = token.type
    <3>1. 0 \in Nat /\ Started = Started
      OBVIOUS
    <3>2. IsToken(Started)
      BY <1>1, <1>2, <3>1, StartedIs
    <3>3. QED
      BY <1>2, <2>1, <3>2 DEF IsToken, Started
  <2> HIDE DEF d
  <2>5. QED
    BY <1>1, <1>3, <2>1, <2>2, <2>3, <2>4, GoesBlank
<1>8. QED
  BY <1>3, <1>5, <1>6, <1>7

LEMMA TurnKeeps ==
    ASSUME TextsGood, ScannedOn, UNCHANGED <<directive, wanted, stop>>
    PROVE  TextsGood' /\ Scanning'
<1>1. /\ texts' = texts /\ LexersGood' /\ Text' = Text
      /\ TokenGoodAt(Text', Lex'.cur, lexing', esc', token')
      /\ InsideAt(Text', Lex'.cur, lexing', token')
  BY DEF ScannedOn
<1>2. TextsGood'
  BY <1>1 DEF TextsGood
<1>3. TokenGoodAt(Text, Lex.cur, lexing, esc, token)'
  BY <1>1 DEF TokenGoodAt
<1>4. InsideAt(Text, Lex.cur, lexing, token)'
  BY <1>1 DEF InsideAt, Stuck
<1>5. LexersGood'
  BY <1>1
<1>6. QED
  BY <1>2, <1>3, <1>4, <1>5 DEF Scanning

-----------------------------------------------------------------------------
(* Steps of the preprocessor.                                              *)

\* The directive that is being read, and what it may want.
Taking ==
    \/ directive = None
    \/ directive[1] \in {"Ulam", "Use"} /\ wanted \in {"Number", "TypeIdent", "Semicol"}
    \/ /\ directive[1] = "Load"
       /\ \/ wanted = "any"
          \/ wanted = "Semicol" /\ directive[2] \in Sources

IInv ==
    /\ TextsGood
    /\ end = "running" => Scanning /\ Taking
    /\ end = "overrun" => Noted(Text)

\* Lexers to read from, the first of which is asked for a token.
LexersAre(ls) ==
    /\ ls \in Seq(Lexers) /\ ls # <<>>
    /\ Located(texts[Head(ls).src], Head(ls))
    /\ \A i \in 2 .. Len(ls) : Located(texts[ls[i].src], ls[i]) /\ Noted(texts[ls[i].src])

LEMMA Asks ==
    ASSUME TextsGood, texts' = texts, NEW ls, LexersAre(ls), NEW p \in BOOLEAN, NEW t, IsToken(t),
           Ask(ls, p, t), esc \in BOOLEAN, NEW T, T = texts[Head(ls).src],
           ~Noted(T) =>
              /\ Head(ls).cur <= Len(T)
              /\ IF directive' = None THEN t.type \notin {"Ulam", "Use"}
                 ELSE wanted' = "any" /\ stop' = {} /\ T[Head(ls).cur] = "nul"
    PROVE  TextsGood' /\ Scanning'
<1> DEFINE l == [Head(ls) EXCEPT !.path = p]
           s == <<l>> \o Tail(ls)
<1>1. ls \in Seq(Lexers) /\ ls # <<>> /\ Head(ls) \in Lexers
  BY HeadIs DEF LexersAre
<1>2. l \in Lexers /\ l.src = Head(ls).src /\ l.cur = Head(ls).cur /\ l.line = Head(ls).line
      /\ l.start = Head(ls).start
  BY <1>1 DEF Lexers
<1>3. sources' = s /\ lexing' = "blank" /\ token' = t /\ esc' = esc
  BY DEF Ask
<1> HIDE DEF l
<1>4. s \in Seq(Lexers) /\ s # <<>> /\ Len(s) = Len(ls) /\ Head(s) = l
      /\ \A i \in 2 .. Len(ls) : s[i] = ls[i]
  BY <1>1, <1>2, HeadIs
<1> HIDE DEF s
<1>5. Lex' = l /\ Text' = T
  BY <1>2, <1>3, <1>4 DEF Lex, Text
<1>6. Located(Text, Lex)'
  <2>1. Located(T, Head(ls))
    BY DEF LexersAre
  <2>2. QED
    BY <1>2, <1>5, <2>1 DEF Located
<1>7. LexersGood'
  BY <1>3, <1>4, <1>6 DEF LexersGood, LexersAre
<1>8. TextsGood'
  BY DEF TextsGood
<1>9. TokenGoodAt(Text, Lex.cur, lexing, esc, token)'
  <2>1. "blank" \in Modes /\ "blank" \notin Scanned
    BY DEF Modes, Scanned
  <2>2. QED
    BY <1>3, <2>1 DEF TokenGoodAt
<1>10. InsideAt(Text, Lex.cur, lexing, token)'
  BY <1>2, <1>3, <1>5 DEF InsideAt, Stuck
<1>11. QED
  BY <1>7, <1>8, <1>9, <1>10 DEF Scanning

LEMMA EndsWith ==
    ASSUME NEW S, NEW s \in Seq(S), NEW e \in S, NEW r, r = s \o <<e>>
    PROVE  r \in Seq(S) /\ Len(r) \in Nat /\ Len(r) >= 1 /\ r[Len(r)] = e
OBVIOUS

LEMMA Initially == Init => IInv
<1> SUFFICES ASSUME Init PROVE IInv
  OBVIOUS
<1>1. PICK x \in Texts : \E n \in 0 .. x.more : \E t \in [1 .. n -> x.chars], l \in x.loaded :
          texts = [a |-> x.begin \o t \o <<"nul">>, b |-> l]
  BY DEF Init
<1>2. PICK n \in 0 .. x.more : \E t \in [1 .. n -> x.chars], l \in x.loaded :
          texts = [a |-> x.begin \o t \o <<"nul">>, b |-> l]
  BY <1>1
<1>3. PICK t \in [1 .. n -> x.chars], l \in x.loaded :
          texts = [a |-> x.begin \o t \o <<"nul">>, b |-> l]
  BY <1>2
<1>4. /\ x.begin \in Seq(STRING) /\ x.more \in Nat /\ x.chars \in SUBSET STRING
      /\ l \in Seq(STRING) /\ l # <<>> /\ l[Len(l)] = "nul"
  BY TextsAssumption
<1>5. IsText(l)
  BY <1>4 DEF IsText
<1> DEFINE s == x.begin \o t
           T == s \o <<"nul">>
<1>6. IsText(T)
  <2>1. t \in Seq(STRING)
    BY <1>4
  <2>2. s \in Seq(STRING)
    BY <1>4, <2>1
  <2> HIDE DEF s
  <2>3. "nul" \in STRING
    <3>1. Len(l) \in 1 .. Len(l) /\ l[Len(l)] \in STRING
      BY <1>4
    <3>2. QED
      BY <1>4, <3>1
  <2>4. T \in Seq(STRING) /\ Len(T) \in Nat /\ Len(T) >= 1 /\ T[Len(T)] = "nul"
    BY <2>2, <2>3, EndsWith
  <2>5. QED
    BY <2>4 DEF IsText
<1>7. texts.a = T /\ texts.b = l /\ DOMAIN texts = {"a", "b"} /\ texts["a"] = T
  <2>1. texts = [a |-> T, b |-> l]
    BY <1>3
  <2> HIDE DEF T
  <2>2. QED
    BY <2>1
<1> HIDE DEF T
<1>8. TextsGood
  BY <1>5, <1>6, <1>7 DEF TextsGood, Sources
<1> DEFINE k == Lexer("a")
<1>9. k \in Lexers /\ k.src = "a" /\ k.cur = 1 /\ k.line = 1 /\ k.start = 1
  BY DEF Lexer, Lexers, Sources
<1>10. sources = <<k>> /\ lexing = "blank" /\ esc = FALSE /\ token = NoToken /\ end = "running"
       /\ directive = None
  BY DEF Init
<1> HIDE DEF k
<1>11. sources \in Seq(Lexers) /\ sources # <<>> /\ Lex = k /\ Len(sources) = 1
  BY <1>9, <1>10 DEF Lex
<1>12. Text = T
  BY <1>7, <1>9, <1>11 DEF Text
<1>13. LexersGood
  <2>1. Counts(T, 1, 1, 1) /\ 1 <= Len(T) + 1
    BY <1>6, CountsBegin DEF IsText
  <2>2. Located(T, k)
    BY <1>9, <2>1 DEF Located
  <2>3. QED
    BY <1>11, <1>12, <2>2 DEF LexersGood
<1>14. IsToken(token) /\ token.type = "Eof"
  BY <1>10 DEF IsToken, NoToken
<1>15. TokenGoodAt(Text, Lex.cur, lexing, esc, token)
  <2>1. "blank" \in Modes /\ "blank" \notin Scanned
    BY DEF Modes, Scanned
  <2>2. QED
    BY <1>10, <1>14, <2>1 DEF TokenGoodAt
<1>16. InsideAt(Text, Lex.cur, lexing, token)
  BY <1>6, <1>9, <1>10, <1>11, <1>12, <1>14 DEF InsideAt, IsText
<1>17. QED
  BY <1>8, <1>10, <1>13, <1>15, <1>16 DEF IInv, Scanning, Taking

LEMMA Received ==
    ASSUME IInv, Receives
    PROVE  /\ TextsGood /\ LexersGood /\ Taking /\ end = "running" /\ lexing = "done"
           /\ LexersAre(sources) /\ Text = texts[Head(sources).src] /\ Lex = Head(sources)
           /\ TokenGoodAt(Text, Lex.cur, "done", esc, token) /\ IsToken(token) /\ esc \in BOOLEAN
           /\ IsText(Text) /\ Lex \in Lexers
           /\ ~Noted(Text) =>
                 /\ directive = None \/ Stuck(Text, Lex.cur, "done", token)
                 /\ directive = None =>
                       /\ token.type \notin {"Ulam", "Use"}
                       /\ Lex.cur <= Len(Text) \/ token.type = "Eof"
                       /\ token.type = "Load" => Lex.cur <= Len(Text) /\ Text[Lex.cur] = "nul"
<1>1. TextsGood /\ LexersGood /\ Taking /\ end = "running" /\ lexing = "done"
      /\ TokenGoodAt(Text, Lex.cur, "done", esc, token) /\ InsideAt(Text, Lex.cur, "done", token)
  BY DEF IInv, Receives, Scanning
<1>2. IsToken(token) /\ esc \in BOOLEAN
  BY <1>1 DEF TokenGoodAt
<1>3. IsText(Text) /\ Lex \in Lexers
  BY <1>1, TextIs
<1>4. LexersAre(sources) /\ Text = texts[Head(sources).src] /\ Lex = Head(sources)
  BY <1>1 DEF LexersGood, LexersAre, Lex, Text
<1>5. QED
  BY <1>1, <1>2, <1>3, <1>4 DEF InsideAt

LEMMA TypeIs ==
    ASSUME NEW t, IsToken(t) \/ t = NoToken, NEW type
    PROVE  /\ IsToken([t EXCEPT !.type = type]) /\ [t EXCEPT !.type = type].type = type
           /\ IsToken(NoToken)
BY DEF IsToken, NoToken

LEMMA Restarts ==
    ASSUME IInv, Receives, texts' = texts, end' = end, NEW ls, LexersAre(ls), Restart(ls),
           NEW T, T = texts[Head(ls).src],
           ~Noted(T) =>
              /\ Head(ls).cur <= Len(T)
              /\ directive = None => token.type \notin {"Ulam", "Use"}
              /\ directive # None => directive[1] \notin {"Ulam", "Use"}
    PROVE  IInv'
<1> DEFINE type == IF directive = None THEN token.type ELSE directive[1]
           t == [NoToken EXCEPT !.type = type]
<1>1. Ask(ls, FALSE, t) /\ directive' = None
  BY DEF Restart
<1>2. IsToken(t) /\ t.type = type
  <2> HIDE DEF type
  <2>1. QED
    BY TypeIs
<1>3. ~Noted(T) => Head(ls).cur <= Len(T) /\ type \notin {"Ulam", "Use"}
  OBVIOUS
<1>4. TextsGood /\ esc \in BOOLEAN /\ end = "running"
  BY Received
<1> HIDE DEF t, type
<1>5. TextsGood' /\ Scanning'
  BY <1>1, <1>2, <1>3, <1>4, Asks
<1>6. QED
  BY <1>1, <1>4, <1>5 DEF IInv, Taking

LEMMA Delivered == ASSUME IInv, Deliver PROVE IInv'
<1> DEFINE type == ParserType(token.type)
           t == [token EXCEPT !.type = type]
<1>1. /\ Receives /\ directive = None /\ token.type \notin NotToParser /\ texts' = texts /\ end' = end
      /\ directive' = None /\ Ask(sources, FALSE, t)
  <2>1. /\ Receives /\ directive = None /\ token.type \notin NotToParser /\ texts' = texts /\ end' = end
        /\ directive' = None /\ Ask(sources, FALSE, [token EXCEPT !.type = ParserType(@)])
    BY DEF Deliver, Passes
  <2>2. [token EXCEPT !.type = ParserType(@)] = t
    OBVIOUS
  <2> HIDE DEF t
  <2>3. QED
    BY <2>1, <2>2
<1>2. IsToken(t) /\ t.type = type
  <2>1. IsToken(token)
    BY <1>1, Received
  <2> HIDE DEF type
  <2>2. QED
    BY <2>1, TypeIs
<1>3. type \notin {"Ulam", "Use"}
  BY <1>1 DEF ParserType, NotToParser
<1>4. TextsGood /\ esc \in BOOLEAN /\ end = "running" /\ LexersAre(sources)
      /\ Text = texts[Head(sources).src]
  BY <1>1, Received
<1>5. ~Noted(Text) => Head(sources).cur <= Len(Text)
  BY <1>1, Received DEF NotToParser
<1> HIDE DEF t, type
<1>6. TextsGood' /\ Scanning'
  BY <1>1, <1>2, <1>3, <1>4, <1>5, Asks
<1>7. QED
  BY <1>1, <1>4, <1>6 DEF IInv, Taking

LEMMA SkippedComment == ASSUME IInv, SkipComment PROVE IInv'
<1>1. /\ Receives /\ directive = None /\ token.type = "Comment" /\ texts' = texts /\ end' = end
      /\ Restart(sources)
  BY DEF SkipComment, Passes
<1>2. LexersAre(sources) /\ Text = texts[Head(sources).src]
      /\ (~Noted(Text) => Head(sources).cur <= Len(Text))
  BY <1>1, Received
<1>3. QED
  BY <1>1, <1>2, Restarts

\* A step that ends the run, but not by running over the end of a text.
LEMMA Ended ==
    ASSUME IInv, texts' = texts, end' \notin {"running", "overrun"}
    PROVE  IInv'
BY DEF IInv, TextsGood

LEMMA TailIs ==
    ASSUME NEW S, NEW s \in Seq(S), s # <<>>, Len(s) # 1, NEW r, r = Tail(s)
    PROVE  /\ r \in Seq(S) /\ r # <<>> /\ Len(s) \in Nat /\ Len(r) = Len(s) - 1 /\ Len(s) >= 2
           /\ \A i \in 1 .. Len(r) : r[i] = s[i + 1]
           /\ Head(r) = s[2]
<1>1. Len(s) \in Nat /\ Len(s) # 0
  OBVIOUS
<1>2. Len(s) >= 2
  <2> DEFINE n == Len(s)
  <2>1. n \in Nat /\ n # 0 /\ n # 1
    BY <1>1
  <2> HIDE DEF n
  <2>2. n >= 2
    BY <2>1
  <2>3. QED
    BY <2>2 DEF n
<1>3. r \in Seq(S) /\ Len(r) = Len(s) - 1 /\ \A i \in 1 .. Len(r) : r[i] = s[i + 1]
  BY <1>1
<1>4. Len(r) >= 1 /\ r[1] = s[2]
  BY <1>1, <1>2, <1>3
<1>5. r # <<>> /\ Head(r) = r[1]
  BY <1>3, <1>4
<1>6. QED
  BY <1>1, <1>2, <1>3, <1>4, <1>5

LEMMA LeftSource == ASSUME IInv, LeaveSource PROVE IInv'
<1>1. Receives /\ directive = None /\ token.type = "Eof" /\ texts' = texts
  BY DEF LeaveSource, Passes
<1>2. CASE Len(sources) = 1
  <2>1. end' = "done"
    BY <1>2 DEF LeaveSource
  <2>2. QED
    BY <1>1, <2>1, Ended
<1>3. CASE Len(sources) # 1
  <2> DEFINE ls == Tail(sources)
             T == texts[Head(ls).src]
  <2>1. Restart(ls) /\ end' = end
    BY <1>3 DEF LeaveSource
  <2>2. LexersAre(sources)
    BY <1>1, Received
  <2>3. sources \in Seq(Lexers) /\ sources # <<>>
    BY <2>2 DEF LexersAre
  <2>4. /\ ls \in Seq(Lexers) /\ ls # <<>> /\ Len(sources) \in Nat /\ Len(ls) = Len(sources) - 1
        /\ Len(sources) >= 2 /\ Head(ls) = sources[2]
        /\ \A i \in 1 .. Len(ls) : ls[i] = sources[i + 1]
    BY <1>3, <2>3, TailIs
  <2> HIDE DEF ls
  <2>a. \A i \in 2 .. Len(sources) : /\ Located(texts[sources[i].src], sources[i])
                                   /\ Noted(texts[sources[i].src])
    BY <2>2 DEF LexersAre
  <2>b. 2 \in 2 .. Len(sources) /\ \A i \in 2 .. Len(ls) : i \in 1 .. Len(ls) /\ i + 1 \in 2 .. Len(sources)
    BY <2>4
  <2>c. Located(T, Head(ls)) /\ Noted(T)
    BY <2>4, <2>a, <2>b
  <2>d. \A i \in 2 .. Len(ls) : Located(texts[ls[i].src], ls[i]) /\ Noted(texts[ls[i].src])
    BY <2>4, <2>a, <2>b
  <2>5. LexersAre(ls) /\ Noted(T)
    BY <2>4, <2>c, <2>d DEF LexersAre
  <2> HIDE DEF T
  <2>6. T = texts[Head(ls).src]
    BY DEF T
  <2>7. QED
    BY <1>1, <2>1, <2>5, <2>6, Restarts
<1>4. QED
  BY <1>2, <1>3

LEMMA BegunDirective == ASSUME IInv, BeginDirective PROVE IInv'
<1> DEFINE p == token.type = "Load"
<1>1. /\ Receives /\ directive = None /\ token.type \in {"Ulam", "Use", "Load"}
      /\ texts' = texts /\ end' = end /\ directive' = <<token.type, "none">> /\ stop' = {}
      /\ Ask(sources, p, NoToken)
      /\ token.type = "Ulam" => wanted' = "Number"
      /\ token.type = "Use" => wanted' = "TypeIdent"
      /\ token.type = "Load" => wanted' = "any"
  BY DEF BeginDirective, Passes
<1>2. directive' # None /\ directive'[1] = token.type
  BY <1>1 DEF None
<1>3. TextsGood /\ esc \in BOOLEAN /\ end = "running" /\ LexersAre(sources)
      /\ Text = texts[Head(sources).src] /\ Lex = Head(sources)
  BY <1>1, Received
<1>4. ~Noted(Text) => /\ Head(sources).cur <= Len(Text) /\ Text[Head(sources).cur] = "nul"
                      /\ wanted' = "any"
  BY <1>1, <1>3, Received
<1>5. IsToken(NoToken) /\ p \in BOOLEAN
  BY TypeIs
<1> HIDE DEF p
<1>6. TextsGood' /\ Scanning'
  BY <1>1, <1>2, <1>3, <1>4, <1>5, Asks
<1>7. Taking'
  BY <1>1, <1>2 DEF Taking
<1>8. QED
  BY <1>1, <1>3, <1>6, <1>7 DEF IInv

\* What is asked for within a directive, which has a word in the text.
LEMMA AsksOn ==
    ASSUME IInv, Receives, Noted(Text), texts' = texts, end' = end, Ask(sources, FALSE, token), Taking'
    PROVE  IInv'
<1>1. TextsGood /\ esc \in BOOLEAN /\ end = "running" /\ LexersAre(sources) /\ IsToken(token)
      /\ Text = texts[Head(sources).src]
  BY Received
<1>2. TextsGood' /\ Scanning'
  BY <1>1, Asks
<1>3. QED
  BY <1>1, <1>2 DEF IInv

LEMMA TookArgument == ASSUME IInv, TakeArgument PROVE IInv'
<1>1. /\ Receives /\ directive # None /\ wanted \in {"Number", "TypeIdent"} /\ wanted' = "Semicol"
      /\ directive' = directive /\ texts' = texts /\ end' = end /\ Ask(sources, FALSE, token)
  BY DEF TakeArgument, InDirective, WantSemicol
<1>2. Noted(Text) /\ Taking
  BY <1>1, Received DEF Stuck
<1>3. Taking'
  BY <1>1, <1>2 DEF Taking
<1>4. QED
  BY <1>1, <1>2, <1>3, AsksOn

LEMMA TookPath == ASSUME IInv, TakePath PROVE IInv'
<1>1. Receives /\ directive # None /\ wanted = "any" /\ texts' = texts
  BY DEF TakePath, InDirective
<1>2. CASE end' \in {"badpath", "notfound"}
  BY <1>1, <1>2, Ended
<1>3. CASE /\ ~(token.to = 0 \/ Text[token.from] \notin {"quot", "<"})
           /\ PathOf \in DOMAIN texts /\ directive' = <<"Load", PathOf>> /\ WantSemicol /\ end' = end
  <2>1. Noted(Text) /\ TextsGood
    BY <1>1, <1>3, Received DEF Stuck
  <2>2. PathOf \in Sources
    BY <1>3, <2>1 DEF TextsGood
  <2>3. Taking' /\ Ask(sources, FALSE, token)
    BY <1>3, <2>2 DEF Taking, WantSemicol
  <2>4. QED
    BY <1>1, <1>3, <2>1, <2>3, AsksOn
<1>4. QED
  BY <1>2, <1>3 DEF TakePath, Halt

LEMMA FinishedDirective == ASSUME IInv, FinishDirective PROVE IInv'
<1>1. Receives /\ directive # None /\ wanted = "Semicol" /\ texts' = texts /\ end' = end
  BY DEF FinishDirective, InDirective
<1>2. /\ Noted(Text) /\ Taking /\ LexersAre(sources) /\ Text = texts[Head(sources).src] /\ TextsGood
  BY <1>1, Received DEF Stuck
<1>3. CASE directive[1] # "Load"
  <2>1. Restart(sources)
    BY <1>3 DEF FinishDirective
  <2>2. QED
    BY <1>1, <1>2, <2>1, Restarts
<1>4. CASE directive[1] = "Load" /\ Restart(<<Lexer(directive[2])>> \o sources)
  <2> DEFINE l == Lexer(directive[2])
             ls == <<l>> \o sources
             T == texts[l.src]
  <2>1. directive[2] \in Sources
    BY <1>1, <1>2, <1>4 DEF Taking
  <2>2. l \in Lexers /\ l.src = directive[2] /\ l.cur = 1 /\ l.line = 1 /\ l.start = 1
    BY <2>1 DEF Lexer, Lexers
  <2>3. IsText(T)
    BY <1>2, <2>1, <2>2 DEF TextsGood
  <2>4. Restart(ls)
    BY <1>4
  <2> HIDE DEF l
  <2>5. sources \in Seq(Lexers) /\ Len(sources) \in Nat /\ sources # <<>> /\ Head(sources) = sources[1]
    BY <1>2 DEF LexersAre
  <2>6. ls \in Seq(Lexers) /\ ls # <<>> /\ Len(ls) = Len(sources) + 1 /\ Head(ls) = l
        /\ \A i \in 2 .. Len(ls) : ls[i] = sources[i - 1]
    BY <2>2, <2>5
  <2> HIDE DEF ls
  <2>7. Located(T, l)
    <3> HIDE DEF T
    <3>1. Counts(T, 1, 1, 1) /\ 1 <= Len(T) + 1
      BY <2>3, CountsBegin DEF IsText
    <3>2. QED
      BY <2>2, <3>1 DEF Located
  <2>8. ASSUME NEW i \in 2 .. Len(ls)
        PROVE  Located(texts[ls[i].src], ls[i]) /\ Noted(texts[ls[i].src])
    <3>1. CASE i = 2
      <4>1. ls[i] = Head(sources)
        BY <2>5, <2>6, <3>1
      <4>2. QED
        BY <1>2, <4>1 DEF LexersAre
    <3>2. CASE i # 2
      <4>1. i - 1 \in 2 .. Len(sources) /\ ls[i] = sources[i - 1]
        BY <2>5, <2>6, <3>2
      <4>2. QED
        BY <1>2, <4>1 DEF LexersAre
    <3>3. QED
      BY <3>1, <3>2
  <2>9. LexersAre(ls)
    BY <2>6, <2>7, <2>8 DEF LexersAre
  <2>10. T = texts[Head(ls).src] /\ Head(ls).cur <= Len(T)
    BY <2>2, <2>3, <2>6 DEF IsText
  <2> HIDE DEF T
  <2>11. directive # None /\ directive[1] \notin {"Ulam", "Use"}
    BY <1>1, <1>4
  <2>12. QED
    BY <1>1, <1>4, <2>4, <2>9, <2>10, <2>11, Restarts
<1>5. QED
  BY <1>3, <1>4 DEF FinishDirective

LEMMA FoundUnexpected == ASSUME IInv, Unexpected PROVE IInv'
<1>1. /\ Receives /\ directive # None /\ wanted # "any" /\ texts' = texts /\ end' = end
      /\ directive' = directive /\ wanted' = wanted /\ Ask(sources, FALSE, token)
  BY DEF Unexpected, InDirective
<1>2. Noted(Text) /\ Taking
  BY <1>1, Received DEF Stuck
<1>3. Taking'
  BY <1>1, <1>2 DEF Taking
<1>4. QED
  BY <1>1, <1>2, <1>3, AsksOn

LEMMA Searched == ASSUME IInv, Search PROVE IInv'
<1>1. /\ Receives /\ directive # None /\ stop # {} /\ texts' = texts /\ end' = end
      /\ directive' = directive /\ wanted' = wanted /\ Ask(sources, FALSE, token)
  BY DEF Search, InDirective
<1>2. Noted(Text) /\ Taking
  BY <1>1, Received DEF Stuck
<1>3. Taking'
  BY <1>1, <1>2 DEF Taking
<1>4. QED
  BY <1>1, <1>2, <1>3, AsksOn

LEMMA GaveUp == ASSUME IInv, GiveUp PROVE IInv'
<1>1. /\ Receives /\ directive # None /\ stop # {} /\ texts' = texts /\ end' = end
      /\ Restart(sources)
  BY DEF GiveUp, InDirective
<1>2. Noted(Text) /\ LexersAre(sources) /\ Text = texts[Head(sources).src]
  BY <1>1, Received DEF Stuck
<1>3. QED
  BY <1>1, <1>2, Restarts

LEMMA RanOver == ASSUME IInv, Overrun PROVE IInv'
<1>1. /\ end = "running" /\ lexing # "done" /\ ~(Lex.cur <= Len(Text)) /\ end' = "overrun"
      /\ texts' = texts /\ sources' = sources
  BY DEF Overrun, Inside
<1>2. TextsGood /\ InsideAt(Text, Lex.cur, lexing, token)
  BY <1>1 DEF IInv, Scanning
<1>3. Noted(Text)
  BY <1>1, <1>2 DEF InsideAt
<1>4. Text' = Text
  BY <1>1 DEF Text, Lex
<1>5. TextsGood'
  BY <1>1, <1>2 DEF TextsGood
<1>6. Noted(Text)'
  BY <1>3, <1>4 DEF Noted, EscapesQuote, Directed
<1>7. QED
  BY <1>1, <1>5, <1>6 DEF IInv

LEMMA TookTurn ==
    ASSUME IInv, UNCHANGED <<directive, wanted, stop, version>>,
           \/ skip_whitespace \/ lex \/ lex_str \/ lex_chr \/ lex_comment \/ lex_ml_comment
    PROVE  IInv'
<1>1. end = "running"
  BY DEF skip_whitespace, lex, lex_str, lex_chr, lex_comment, lex_ml_comment, Scans
<1>2. Scanning /\ Taking /\ TextsGood
  BY <1>1 DEF IInv
<1>3. ScannedOn
  BY <1>2, SkipWhitespace, LexBegins, LexString, LexCharacter, LexComment, LexLongComment
<1>4. TextsGood' /\ Scanning' /\ end' = end
  BY <1>2, <1>3, TurnKeeps DEF ScannedOn
<1>5. Taking'
  BY <1>2 DEF Taking
<1>6. QED
  BY <1>1, <1>4, <1>5 DEF IInv

LEMMA NextKeeps == ASSUME IInv, [Next]_vars PROVE IInv'
<1>1. ASSUME LexStep PROVE IInv'
  <2>1. UNCHANGED <<directive, wanted, stop, version>>
    BY <1>1 DEF LexStep
  <2>2. CASE Overrun
    BY <2>2, RanOver
  <2>3. CASE skip_whitespace \/ lex \/ lex_str \/ lex_chr \/ lex_comment \/ lex_ml_comment
    BY <2>1, <2>3, TookTurn
  <2>4. QED
    BY <1>1, <2>2, <2>3 DEF LexStep
<1>2. CASE UNCHANGED vars
  <2>1. /\ texts' = texts /\ sources' = sources /\ lexing' = lexing /\ esc' = esc /\ token' = token
        /\ end' = end /\ directive' = directive /\ wanted' = wanted /\ stop' = stop
    BY <1>2 DEF vars, lexvars
  <2>2. Lex' = Lex /\ Text' = Text
    BY <2>1 DEF Lex, Text
  <2>3. TextsGood => TextsGood'
    BY <2>1 DEF TextsGood
  <2>4. LexersGood => LexersGood'
    BY <2>1, <2>2 DEF LexersGood
  <2>5. TokenGoodAt(Text, Lex.cur, lexing, esc, token) => TokenGoodAt(Text, Lex.cur, lexing, esc, token)'
    BY <2>1, <2>2 DEF TokenGoodAt
  <2>6. InsideAt(Text, Lex.cur, lexing, token) => InsideAt(Text, Lex.cur, lexing, token)'
    BY <2>1, <2>2 DEF InsideAt, Stuck
  <2>7. Scanning => Scanning'
    BY <2>3, <2>4, <2>5, <2>6 DEF Scanning
  <2>8. Taking => Taking'
    BY <2>1 DEF Taking
  <2>9. Noted(Text) => Noted(Text)'
    BY <2>2 DEF Noted, EscapesQuote, Directed
  <2>10. QED
    BY <2>1, <2>3, <2>7, <2>8, <2>9 DEF IInv
<1>3. QED
  BY <1>1, <1>2, Delivered, SkippedComment, LeftSource, BegunDirective, TookArgument, TookPath,
     FinishedDirective, FoundUnexpected, Searched, GaveUp
     DEF Next

(* Of every text the lexers count the lines right, know whether the character  *)
(* before is an escape, and read a directive only where a word for one is in   *)
(* the text or a token kept the type of an earlier load.                       *)
THEOREM TextsAreRead == Spec => []IInv
<1>1. IInv /\ [Next]_vars => IInv'
  BY NextKeeps
<1>2. QED
  BY <1>1, Initially, PTL DEF Spec

(* Every token is at the line and the column it says, which begins where the   *)
(* sources, counting for themselves, find that line: newline() and advance()   *)
(* are called at the right places, in literals, comments and joined lines too, *)
(* unless a text has an escaped quote in a character.                          *)
THEOREM PlacesAreRight == Spec => []PlaceIsRight
<1>1. ASSUME IInv PROVE PlaceIsRight
  <2> SUFFICES ASSUME Receives, ~EscapedQuote
               PROVE  /\ token.from = LineBegins(token.line) + token.column - 1
                      /\ \A k \in LineBegins(token.line) .. token.from - 1 : Text[k] # "nl"
    BY DEF PlaceIsRight
  <2> DEFINE k == token.from
             start == k + 1 - token.column
  <2>1. /\ TokenGoodAt(Text, Lex.cur, "done", esc, token) /\ IsToken(token) /\ IsText(Text)
        /\ LexersGood /\ Lex \in Lexers
    BY <1>1, Received
  <2>2. ~EscapesQuote(Text)
    BY SameEscapes
  <2>3. k \in 1 .. Lex.cur - 1 /\ Counts(Text, k, token.line, start) /\ token.column \in Nat
    BY <2>1, <2>2 DEF TokenGoodAt, IsToken
  <2>4. k \in Nat /\ k <= Len(Text) + 1
    <3>1. Lex.cur \in Nat /\ Lex.cur <= Len(Text) + 1 /\ Len(Text) \in Nat
      BY <2>1 DEF LexersGood, Located, IsText, Lexers
    <3>2. k \in 1 .. Lex.cur - 1
      BY <2>3
    <3> DEFINE cur == Lex.cur
               top == Len(Text)
    <3> HIDE DEF k, cur, top
    <3>3. k \in 1 .. cur - 1 /\ cur \in Nat /\ cur <= top + 1 /\ top \in Nat
      BY <3>1, <3>2 DEF cur, top
    <3>4. k \in Nat /\ k <= top + 1
      BY <3>3
    <3>5. QED
      BY <3>4 DEF top
  <2> HIDE DEF start
  <2>5. LineBegins(token.line) = start
    BY <2>1, <2>3, <2>4, LineIs
  <2>6. \A j \in start .. k - 1 : Text[j] # "nl"
    BY <2>3 DEF Counts
  <2>7. k = start + token.column - 1
    BY <2>3, <2>4 DEF start
  <2>8. QED
    BY <2>5, <2>6, <2>7
<1>2. QED
  BY <1>1, TextsAreRead, PTL

(* The lexer looks at no character after the one that ends a text, unless the  *)
(* text has a word for a directive, which may be looked for past the end, or   *)
(* an escaped quote in a character.                                            *)
THEOREM TextsAreNotOverrun == Spec => []StaysInside
<1>1. ASSUME IInv PROVE StaysInside
  BY <1>1, SameEscapes DEF IInv, StaysInside, Noted, Directed
<1>2. QED
  BY <1>1, TextsAreRead, PTL

(* A string or a character ends with the first of its quotes and ends of lines *)
(* that is not escaped, or with the text: lex_str() and lex_chr() follow the   *)
(* escapes right whatever is between, but for an escaped quote in a character. *)
THEOREM LiteralsEndRight == Spec => []LiteralsEnd
<1>1. ASSUME IInv PROVE LiteralsEnd
  <2> SUFFICES ASSUME NEW q \in {"quot", "'"}, Receives, token.to > 0, Text[token.from] = q,
                      ~(q = "'" /\ EscapedQuote)
               PROVE  /\ \A k \in token.from + 1 .. token.to - 1 : ~Terminates(k, q)
                      /\ \/ token.to > token.from /\ Terminates(token.to, q)
                         \/ Text[token.to + 1] = "nul"
    BY DEF LiteralsEnd, TokenIs
  <2>1. TokenGoodAt(Text, Lex.cur, "done", esc, token)
    BY <1>1, Received
  <2>2. ~(q = "'" /\ EscapesQuote(Text))
    BY SameEscapes
  <2>3. EndsRight(Text, token.from, token.to, q)
    BY <2>1, <2>2 DEF TokenGoodAt
  <2>4. QED
    BY <2>3, SameEscapes DEF EndsRight
<1>2. QED
  BY <1>1, TextsAreRead, PTL
=============================================================================
