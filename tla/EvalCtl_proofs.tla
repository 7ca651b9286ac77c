---------------------------- MODULE EvalCtl_proofs ----------------------------
(***************************************************************************)
(* Proofs about the evaluation of statements, for any programs: whatever   *)
(* way an evaluation takes, its scopes and calls are left, and a jump that *)
(* a scope allows finds its handler.                                       *)
(***************************************************************************)
EXTENDS EvalCtl, SequenceTheorems, Induction_lemmas

Jumps == {"break", "continue"}
FlagOf(e) == IF e = "break" THEN "Break" ELSE "Continue"

Leaves == {"leave", "leavecall"}
Loops == {s \in Statements : s[1] \in {"while", "for"}}

(* What may be on the stack.                                               *)
Frames ==
    Statements \cup {<<"leave">>, <<"leavecall">>, <<"fun">>, <<"log">>}
    \cup ({"try"} \X (SUBSET Jumps)) \cup ({"turn"} \X Loops \X Nat) \cup ({"again"} \X Loops)
    \cup ({"cases"} \X Seq(WhichCases(Statements)))

(* A frame in which a jump of its own may start, to be caught below it: a  *)
(* loop catches those that start in it.                                    *)
Jumping == {"block", "if", "which", "cases", "break", "continue"}

(* A handler for e below the i-th frame, in the same function.             *)
Caught(fs, i, e) ==
    \E j \in i + 1 .. Len(fs) :
        /\ fs[j][1] = "try" /\ e \in fs[j][2]
        /\ \A k \in i + 1 .. j - 1 : fs[k][1] # "fun"

(* h[i] and g[i] are the scopes and the calls that will be there after the *)
(* first i frames; may[k] are the jumps that the scope k allows.           *)
Ledger(fs, may, c, h, g) ==
    /\ h \in [0 .. Len(fs) -> Nat] /\ g \in [0 .. Len(fs) -> Nat]
    /\ h[0] = Len(may) /\ g[0] = c
    /\ h[Len(fs)] = 1 /\ g[Len(fs)] = 0
    /\ \A i, j \in 0 .. Len(fs) : i <= j => h[j] <= h[i]
    /\ \A i \in 1 .. Len(fs) :
         /\ h[i - 1] = IF fs[i][1] \in Leaves THEN h[i] + 1 ELSE h[i]
         /\ g[i - 1] = IF fs[i][1] = "leavecall" THEN g[i] + 1 ELSE g[i]
         /\ fs[i][1] \in Jumping => \A e \in may[h[i - 1]] : Caught(fs, i, e)

Settled(fs, may, c) ==
    \E h, g \in [0 .. Len(fs) -> Nat] : Ledger(fs, may, c, h, g)

(* may says what the scopes ss allow.                                      *)
Allows(ss, may) ==
    /\ \E S : ss \in Seq(S)
    /\ may \in Seq(SUBSET Jumps) /\ Len(may) = Len(ss)
    /\ \A k \in 1 .. Len(ss) :
         /\ ss[k] = Scope(ss[k].flags, ss[k].parent, ss[k].vars)
         /\ ss[k].parent \in 0 .. k - 1
         /\ \A e \in Jumps :
              e \in may[k] <=> \/ FlagOf(e) \in ss[k].flags
                               \/ ss[k].parent # 0 /\ e \in may[ss[k].parent]

-----------------------------------------------------------------------------
(* Ledgers *)

LEMMA SettledEmpty ==
    Settled(<<>>, << {} >>, 0)
<1> DEFINE h == [i \in 0 .. 0 |-> 1]
           g == [i \in 0 .. 0 |-> 0]
<1>1. h \in [0 .. 0 -> Nat] /\ g \in [0 .. 0 -> Nat]
  OBVIOUS
<1>2. Ledger(<<>>, << {} >>, 0, h, g)
  BY DEF Ledger
<1>3. QED
  BY <1>1, <1>2 DEF Settled

(* Once nothing remains, one scope is left and no call.                    *)
LEMMA SettledDone ==
    ASSUME NEW may, NEW c, Settled(<<>>, may, c)
    PROVE  Len(may) = 1 /\ c = 0
BY DEF Settled, Ledger

(* The frame on top is taken off: a scope goes with one that leaves it.    *)
LEMMA SettledTail ==
    ASSUME NEW fs \in Seq(Frames), fs # <<>>, NEW may \in Seq(SUBSET Jumps), NEW c \in Nat,
           Settled(fs, may, c),
           NEW left, left = IF Head(fs)[1] \in Leaves THEN Len(may) - 1 ELSE Len(may),
           NEW c1, c1 = IF Head(fs)[1] = "leavecall" THEN c - 1 ELSE c
    PROVE  left \in 1 .. Len(may) /\ c1 \in Nat /\ Settled(Tail(fs), SubSeq(may, 1, left), c1)
<1> DEFINE ts == Tail(fs)
           may1 == SubSeq(may, 1, left)
<1>1. PICK h, g \in [0 .. Len(fs) -> Nat] : Ledger(fs, may, c, h, g)
  BY DEF Settled
<1>2. /\ Len(fs) \in Nat \ {0} /\ Len(ts) = Len(fs) - 1 /\ ts \in Seq(Frames)
      /\ \A i \in 1 .. Len(ts) : ts[i] = fs[i + 1]
      /\ Head(fs) = fs[1]
  OBVIOUS
<1>3. left = h[1] /\ c1 = g[1]
  <2>1. h[0] = Len(may) /\ g[0] = c /\ h[1] \in Nat /\ g[1] \in Nat
    BY <1>1, <1>2 DEF Ledger
  <2>2. /\ h[0] = IF fs[1][1] \in Leaves THEN h[1] + 1 ELSE h[1]
        /\ g[0] = IF fs[1][1] = "leavecall" THEN g[1] + 1 ELSE g[1]
    BY <1>1, <1>2 DEF Ledger
  <2>3. QED
    BY <1>2, <2>1, <2>2
<1>4. left \in 1 .. Len(may) /\ c1 \in Nat
  <2>1. 0 \in 0 .. Len(fs) /\ 1 \in 0 .. Len(fs) /\ Len(fs) \in 0 .. Len(fs) /\ 1 <= Len(fs)
    BY <1>2
  <2>2. h[Len(fs)] = 1 /\ h[0] = Len(may) /\ h[1] \in Nat /\ g[1] \in Nat
    BY <1>1, <2>1 DEF Ledger
  <2>3. h[Len(fs)] <= h[1] /\ h[1] <= h[0]
    BY <1>1, <2>1 DEF Ledger
  <2>4. QED
    BY <1>3, <2>2, <2>3
<1>5. Len(may1) = left /\ \A k \in 1 .. left : may1[k] = may[k]
  BY <1>4
<1> DEFINE h1 == [i \in 0 .. Len(ts) |-> h[i + 1]]
           g1 == [i \in 0 .. Len(ts) |-> g[i + 1]]
<1>6. h1 \in [0 .. Len(ts) -> Nat] /\ g1 \in [0 .. Len(ts) -> Nat]
  BY <1>2
<1>7. h1[0] = Len(may1) /\ g1[0] = c1 /\ h1[Len(ts)] = 1 /\ g1[Len(ts)] = 0
  BY <1>1, <1>2, <1>3, <1>5 DEF Ledger
<1>8. \A i, j \in 0 .. Len(ts) : i <= j => h1[j] <= h1[i]
  <2> SUFFICES ASSUME NEW i \in 0 .. Len(ts), NEW j \in 0 .. Len(ts), i <= j
               PROVE  h1[j] <= h1[i]
    OBVIOUS
  <2>1. h1[i] = h[i + 1] /\ h1[j] = h[j + 1]
    OBVIOUS
  <2> HIDE DEF h1, g1, ts
  <2>2. i + 1 \in 0 .. Len(fs) /\ j + 1 \in 0 .. Len(fs) /\ i + 1 <= j + 1
    BY <1>2
  <2>3. h[j + 1] <= h[i + 1]
    BY <1>1, <2>2 DEF Ledger
  <2>4. QED
    BY <2>1, <2>3
<1>9. \A i \in 0 .. Len(ts) : h1[i] \in 1 .. left
  <2> SUFFICES ASSUME NEW i \in 0 .. Len(ts) PROVE h1[i] \in 1 .. left
    OBVIOUS
  <2>1. 0 \in 0 .. Len(ts) /\ Len(ts) \in 0 .. Len(ts) /\ 0 <= i /\ i <= Len(ts)
    BY <1>2
  <2>2. h1[Len(ts)] <= h1[i] /\ h1[i] <= h1[0] /\ h1[i] \in Nat
    BY <1>6, <1>8, <2>1
  <2>3. QED
    BY <1>4, <1>5, <1>7, <2>2
<1>10. ASSUME NEW i \in 1 .. Len(ts)
      PROVE  /\ h1[i - 1] = IF ts[i][1] \in Leaves THEN h1[i] + 1 ELSE h1[i]
             /\ g1[i - 1] = IF ts[i][1] = "leavecall" THEN g1[i] + 1 ELSE g1[i]
             /\ ts[i][1] \in Jumping => \A e \in may1[h1[i - 1]] : Caught(ts, i, e)
  <2>1. i + 1 \in 1 .. Len(fs) /\ i - 1 \in 0 .. Len(ts) /\ i \in 0 .. Len(ts) /\ ts[i] = fs[i + 1]
    BY <1>2
  <2>2. h1[i - 1] = h[i] /\ h1[i] = h[i + 1] /\ g1[i - 1] = g[i] /\ g1[i] = g[i + 1] /\ (i + 1) - 1 = i
    BY <2>1
  <2> HIDE DEF h1, g1, ts, may1
  <2>3. ASSUME NEW e, Caught(fs, i + 1, e) PROVE Caught(ts, i, e)
    <3>1. PICK j \in (i + 1) + 1 .. Len(fs) :
            /\ fs[j][1] = "try" /\ e \in fs[j][2]
            /\ \A k \in (i + 1) + 1 .. j - 1 : fs[k][1] # "fun"
      BY <2>3 DEF Caught
    <3>2. j - 1 \in i + 1 .. Len(ts) /\ ts[j - 1] = fs[j]
      BY <1>2, <3>1
    <3>3. \A k \in i + 1 .. (j - 1) - 1 : ts[k] = fs[k + 1] /\ k + 1 \in (i + 1) + 1 .. j - 1
      BY <1>2, <3>1
    <3>4. QED
      BY <3>1, <3>2, <3>3 DEF Caught
  <2>4. may1[h1[i - 1]] = may[h[i]]
    <3>1. h1[i - 1] \in 1 .. left
      BY <1>9, <2>1
    <3>2. may1[h1[i - 1]] = may[h1[i - 1]]
      BY <1>5, <3>1
    <3>3. QED
      BY <2>2, <3>2
  <2>5. QED
    BY <1>1, <2>1, <2>2, <2>3, <2>4 DEF Ledger
<1>11. Ledger(ts, may1, c1, h1, g1)
  <2> HIDE DEF h1, g1, ts, may1
  <2>1. QED
    BY <1>6, <1>7, <1>8, <1>10 DEF Ledger
<1>12. Settled(ts, may1, c1)
  <2> HIDE DEF h1, g1, ts, may1
  <2>1. QED
    BY <1>6, <1>11 DEF Settled
<1>13. QED
  BY <1>4, <1>12

(* Frames that leave nothing are put on top of fs.                         *)
LEMMA SettledPush ==
    ASSUME NEW fs \in Seq(Frames), NEW ss \in Seq(Frames), NEW may \in Seq(SUBSET Jumps),
           NEW c \in Nat, Settled(fs, may, c),
           \A i \in 1 .. Len(ss) :
             /\ ss[i][1] \notin Leaves
             /\ ss[i][1] \in Jumping => \A e \in may[Len(may)] : Caught(ss \o fs, i, e)
    PROVE  Settled(ss \o fs, may, c)
<1> DEFINE ns == ss \o fs
           n == Len(ss)
<1>1. PICK h, g \in [0 .. Len(fs) -> Nat] : Ledger(fs, may, c, h, g)
  BY DEF Settled
<1>2. /\ Len(fs) \in Nat /\ n \in Nat /\ Len(ns) = n + Len(fs) /\ ns \in Seq(Frames)
      /\ \A i \in 1 .. n : ns[i] = ss[i]
      /\ \A i \in 1 .. Len(fs) : ns[n + i] = fs[i]
  OBVIOUS
<1> DEFINE h1 == [i \in 0 .. Len(ns) |-> IF i <= n THEN h[0] ELSE h[i - n]]
           g1 == [i \in 0 .. Len(ns) |-> IF i <= n THEN g[0] ELSE g[i - n]]
<1>3. h1 \in [0 .. Len(ns) -> Nat] /\ g1 \in [0 .. Len(ns) -> Nat]
  <2>1. ASSUME NEW i \in 0 .. Len(ns)
        PROVE  (IF i <= n THEN h[0] ELSE h[i - n]) \in Nat /\ (IF i <= n THEN g[0] ELSE g[i - n]) \in Nat
    <3> HIDE DEF n, ns
    <3>1. 0 \in 0 .. Len(fs) /\ (~(i <= n) => i - n \in 0 .. Len(fs))
      BY <1>2
    <3>2. QED
      BY <3>1
  <2> HIDE DEF n, ns
  <2>2. QED
    BY <2>1
<1>a. /\ \A i \in 0 .. n : h1[i] = h[0] /\ g1[i] = g[0]
      /\ \A i \in 0 .. Len(fs) : h1[n + i] = h[i] /\ g1[n + i] = g[i]
  <2> HIDE DEF n, ns
  <2>1. QED
    BY <1>2
<1> HIDE DEF h1, g1, n
<1>4. h1[0] = Len(may) /\ g1[0] = c /\ h1[Len(ns)] = 1 /\ g1[Len(ns)] = 0
  <2> HIDE DEF ns
  <2>1. h[0] = Len(may) /\ g[0] = c /\ h[Len(fs)] = 1 /\ g[Len(fs)] = 0
    BY <1>1 DEF Ledger
  <2>2. 0 \in 0 .. n /\ Len(fs) \in 0 .. Len(fs)
    BY <1>2
  <2>3. h1[0] = h[0] /\ g1[0] = g[0] /\ h1[n + Len(fs)] = h[Len(fs)] /\ g1[n + Len(fs)] = g[Len(fs)]
    BY <1>a, <2>2
  <2>4. QED
    BY <1>2, <2>1, <2>3
<1>5. \A i, j \in 0 .. Len(ns) : i <= j => h1[j] <= h1[i]
  <2> SUFFICES ASSUME NEW i \in 0 .. Len(ns), NEW j \in 0 .. Len(ns), i <= j
               PROVE  h1[j] <= h1[i]
    OBVIOUS
  <2> HIDE DEF ns
  <2>1. CASE j <= n
    <3>a. i \in 0 .. n /\ j \in 0 .. n /\ 0 \in 0 .. Len(fs)
      BY <1>2, <2>1
    <3>1. h1[j] = h[0] /\ h1[i] = h[0] /\ h[0] \in Nat
      BY <1>a, <3>a
    <3>2. QED
      BY <3>1
  <2>2. CASE n < j
    <3>1. j - n \in 0 .. Len(fs) /\ h1[j] = h[j - n]
      <4>1. j - n \in 0 .. Len(fs) /\ n + (j - n) = j
        BY <1>2, <2>2
      <4>2. QED
        BY <1>a, <4>1
    <3>2. \E k \in 0 .. Len(fs) : k <= j - n /\ h1[i] = h[k]
      <4>1. CASE i <= n
        <5>1. h1[i] = h[0] /\ 0 \in 0 .. Len(fs) /\ 0 <= j - n
          BY <1>2, <1>a, <3>1, <4>1
        <5>2. QED
          BY <5>1
      <4>2. CASE n < i
        <5>1. i - n \in 0 .. Len(fs) /\ n + (i - n) = i /\ i - n <= j - n
          BY <1>2, <4>2
        <5>2. QED
          BY <1>a, <5>1
      <4>3. QED
        BY <1>2, <4>1, <4>2
    <3>3. QED
      BY <1>1, <3>1, <3>2 DEF Ledger
  <2>3. QED
    BY <1>2, <2>1, <2>2
<1>6. ASSUME NEW i \in 1 .. Len(ns)
      PROVE  /\ h1[i - 1] = IF ns[i][1] \in Leaves THEN h1[i] + 1 ELSE h1[i]
             /\ g1[i - 1] = IF ns[i][1] = "leavecall" THEN g1[i] + 1 ELSE g1[i]
             /\ ns[i][1] \in Jumping => \A e \in may[h1[i - 1]] : Caught(ns, i, e)
  <2>1. CASE i <= n
    <3>1. i - 1 \in 0 .. n /\ i \in 0 .. n /\ i \in 1 .. n
      BY <1>2, <2>1
    <3>2. h1[i - 1] = h[0] /\ h1[i] = h[0] /\ g1[i - 1] = g[0] /\ g1[i] = g[0] /\ ns[i] = ss[i]
      BY <1>2, <1>a, <3>1
    <3>3. ss[i][1] \notin Leaves /\ (ss[i][1] \in Jumping => \A e \in may[Len(may)] : Caught(ns, i, e))
      BY <3>1 DEF n
    <3> HIDE DEF ns
    <3>4. h[0] = Len(may)
      BY <1>1 DEF Ledger
    <3>5. QED
      BY <3>2, <3>3, <3>4 DEF Leaves
  <2>2. CASE n < i
    <3> DEFINE m == i - n
    <3>1. m \in 1 .. Len(fs) /\ m - 1 \in 0 .. Len(fs) /\ m \in 0 .. Len(fs) /\ n + m = i /\ n + (m - 1) = i - 1
      <4> HIDE DEF ns
      <4>1. QED
        BY <1>2, <2>2
    <3> HIDE DEF m, ns
    <3>2. h1[i - 1] = h[m - 1] /\ h1[i] = h[m] /\ g1[i - 1] = g[m - 1] /\ g1[i] = g[m] /\ ns[i] = fs[m]
      BY <1>2, <1>a, <3>1
    <3>3. ASSUME NEW e, Caught(fs, m, e) PROVE Caught(ns, i, e)
      <4>1. PICK j \in m + 1 .. Len(fs) :
              /\ fs[j][1] = "try" /\ e \in fs[j][2]
              /\ \A k \in m + 1 .. j - 1 : fs[k][1] # "fun"
        BY <3>3 DEF Caught
      <4>2. n + j \in i + 1 .. Len(ns) /\ ns[n + j] = fs[j]
        BY <1>2, <3>1, <4>1
      <4>3. ASSUME NEW k \in i + 1 .. (n + j) - 1 PROVE ns[k][1] # "fun"
        <5>1. k - n \in m + 1 .. j - 1 /\ k - n \in 1 .. Len(fs) /\ n + (k - n) = k
          BY <1>2, <3>1, <4>1
        <5>2. ns[k] = fs[k - n]
          BY <1>2, <5>1
        <5>3. QED
          BY <4>1, <5>1, <5>2
      <4>4. QED
        BY <4>1, <4>2, <4>3 DEF Caught
    <3>4. QED
      BY <1>1, <3>1, <3>2, <3>3 DEF Ledger
  <2>3. QED
    <3> HIDE DEF ns
    <3>1. QED
      BY <1>2, <2>1, <2>2
<1>7. Ledger(ns, may, c, h1, g1)
  <2> HIDE DEF ns
  <2>1. QED
    BY <1>3, <1>4, <1>5, <1>6 DEF Ledger
<1>8. QED
  BY <1>3, <1>7 DEF Settled

(* A single frame that leaves nothing and in which no jump starts, or the  *)
(* jumps that start in it are caught below it.                             *)
LEMMA SettledCons ==
    ASSUME NEW fs \in Seq(Frames), NEW f \in Frames, NEW may \in Seq(SUBSET Jumps),
           NEW c \in Nat, Settled(fs, may, c), f[1] \notin Leaves,
           f[1] \in Jumping => \A e \in may[Len(may)] : Caught(fs, 0, e)
    PROVE  Settled(<<f>> \o fs, may, c)
<1> DEFINE ns == <<f>> \o fs
<1>1. /\ <<f>> \in Seq(Frames) /\ Len(<<f>>) = 1 /\ <<f>>[1] = f
      /\ Len(fs) \in Nat /\ Len(ns) = Len(fs) + 1
      /\ \A i \in 1 .. Len(fs) : ns[i + 1] = fs[i]
  OBVIOUS
<1>2. ASSUME NEW e, Caught(fs, 0, e) PROVE Caught(ns, 1, e)
  <2> HIDE DEF ns
  <2>1. PICK j \in 1 .. Len(fs) :
          fs[j][1] = "try" /\ e \in fs[j][2] /\ \A k \in 1 .. j - 1 : fs[k][1] # "fun"
    BY <1>2 DEF Caught
  <2>2. j + 1 \in 2 .. Len(ns) /\ ns[j + 1] = fs[j]
    BY <1>1, <2>1
  <2>3. ASSUME NEW k \in 2 .. (j + 1) - 1 PROVE ns[k][1] # "fun"
    <3>1. k - 1 \in 1 .. j - 1 /\ k - 1 \in 1 .. Len(fs) /\ (k - 1) + 1 = k
      BY <1>1, <2>1
    <3>2. ns[k] = fs[k - 1]
      BY <1>1, <3>1
    <3>3. QED
      BY <2>1, <3>1, <3>2
  <2>4. QED
    BY <2>1, <2>2, <2>3 DEF Caught
<1>3. \A i \in 1 .. Len(<<f>>) :
         /\ <<f>>[i][1] \notin Leaves
         /\ <<f>>[i][1] \in Jumping => \A e \in may[Len(may)] : Caught(<<f>> \o fs, i, e)
  BY <1>1, <1>2
<1>4. QED
  BY <1>1, <1>3, SettledPush

(* A handler below is below whatever is put on top that ends no function.  *)
LEMMA CaughtBelow ==
    ASSUME NEW fs \in Seq(Frames), NEW ss \in Seq(Frames), NEW i \in 0 .. Len(ss), NEW e,
           Caught(fs, 0, e), \A k \in 1 .. Len(ss) : ss[k][1] # "fun"
    PROVE  Caught(ss \o fs, i, e)
<1> DEFINE ns == ss \o fs
           n == Len(ss)
<1>1. /\ Len(fs) \in Nat /\ n \in Nat /\ Len(ns) = n + Len(fs)
      /\ \A k \in 1 .. n : ns[k] = ss[k]
      /\ \A k \in 1 .. Len(fs) : ns[n + k] = fs[k]
  OBVIOUS
<1>2. PICK j \in 1 .. Len(fs) :
        fs[j][1] = "try" /\ e \in fs[j][2] /\ \A k \in 1 .. j - 1 : fs[k][1] # "fun"
  BY DEF Caught
<1>3. \A k \in 1 .. n : ss[k][1] # "fun"
  OBVIOUS
<1>i. i \in 0 .. n
  OBVIOUS
<1> HIDE DEF ns, n
<1>4. n + j \in i + 1 .. Len(ns) /\ ns[n + j] = fs[j]
  BY <1>1, <1>2, <1>i
<1>5. ASSUME NEW k \in i + 1 .. (n + j) - 1 PROVE ns[k][1] # "fun"
  <2>1. CASE k <= n
    <3>1. k \in 1 .. n
      BY <1>1, <1>2, <1>i, <2>1
    <3>2. QED
      BY <1>1, <1>3, <3>1
  <2>2. CASE n < k
    <3>1. k - n \in 1 .. j - 1 /\ k - n \in 1 .. Len(fs) /\ n + (k - n) = k
      BY <1>1, <1>2, <1>i, <2>2
    <3>2. ns[k] = fs[k - n]
      BY <1>1, <3>1
    <3>3. QED
      BY <1>2, <3>1, <3>2
  <2>3. QED
    BY <1>1, <1>2, <1>i, <2>1, <2>2
<1>6. Caught(ns, i, e)
  BY <1>2, <1>4, <1>5 DEF Caught
<1>7. QED
  BY <1>6 DEF ns

(* The statements of a block or of a body.                                 *)
LEMMA SettledStmts ==
    ASSUME NEW fs \in Seq(Frames), NEW ss \in Seq(Frames), NEW may \in Seq(SUBSET Jumps),
           NEW c \in Nat, Settled(fs, may, c),
           \A i \in 1 .. Len(ss) : ss[i][1] \notin Leaves \cup {"fun"},
           \A e \in may[Len(may)] : Caught(fs, 0, e)
    PROVE  Settled(ss \o fs, may, c)
<1>1. ASSUME NEW i \in 1 .. Len(ss)
      PROVE  /\ ss[i][1] \notin Leaves
             /\ \A e \in may[Len(may)] : Caught(ss \o fs, i, e)
  <2>1. i \in 0 .. Len(ss)
    OBVIOUS
  <2>2. QED
    BY <2>1, CaughtBelow
<1>2. QED
  BY <1>1, SettledPush

(* A scope is entered, and a frame that leaves it put on top.              *)
LEMMA SettledEnter ==
    ASSUME NEW fs \in Seq(Frames), NEW f \in Frames, NEW may \in Seq(SUBSET Jumps),
           NEW c \in Nat, Settled(fs, may, c), f[1] \in Leaves, NEW x \in SUBSET Jumps,
           NEW c1, c1 = IF f[1] = "leavecall" THEN c + 1 ELSE c
    PROVE  Settled(<<f>> \o fs, Append(may, x), c1)
<1> DEFINE ns == <<f>> \o fs
           may1 == Append(may, x)
<1>1. PICK h, g \in [0 .. Len(fs) -> Nat] : Ledger(fs, may, c, h, g)
  BY DEF Settled
<1>2. /\ Len(fs) \in Nat /\ Len(ns) = Len(fs) + 1 /\ ns[1] = f /\ ns \in Seq(Frames)
      /\ \A i \in 1 .. Len(fs) : ns[i + 1] = fs[i]
      /\ Len(may) \in Nat /\ Len(may1) = Len(may) + 1
      /\ \A k \in 1 .. Len(may) : may1[k] = may[k]
  OBVIOUS
<1> DEFINE h1 == [i \in 0 .. Len(ns) |-> IF i = 0 THEN h[0] + 1 ELSE h[i - 1]]
           g1 == [i \in 0 .. Len(ns) |-> IF i = 0 THEN c1 ELSE g[i - 1]]
<1> HIDE DEF ns, may1
<1>3. /\ h1[0] = h[0] + 1 /\ g1[0] = c1
      /\ \A i \in 0 .. Len(fs) : h1[i + 1] = h[i] /\ g1[i + 1] = g[i]
  BY <1>2
<1>4. h1 \in [0 .. Len(ns) -> Nat] /\ g1 \in [0 .. Len(ns) -> Nat]
  <2>1. 0 \in 0 .. Len(fs) /\ \A i \in 0 .. Len(ns) : i # 0 => i - 1 \in 0 .. Len(fs)
    BY <1>2
  <2>2. c1 \in Nat
    OBVIOUS
  <2>3. h[0] + 1 \in Nat
    BY <2>1
  <2>4. QED
    BY <2>1, <2>2, <2>3
<1> HIDE DEF h1, g1
<1>5. h[0] = Len(may) /\ g[0] = c /\ h[Len(fs)] = 1 /\ g[Len(fs)] = 0
  BY <1>1 DEF Ledger
<1>6. h1[0] = Len(may1) /\ h1[Len(ns)] = 1 /\ g1[Len(ns)] = 0
  BY <1>2, <1>3, <1>5
<1>7. \A i, j \in 0 .. Len(ns) : i <= j => h1[j] <= h1[i]
  <2> SUFFICES ASSUME NEW i \in 0 .. Len(ns), NEW j \in 0 .. Len(ns), i <= j
               PROVE  h1[j] <= h1[i]
    OBVIOUS
  <2>1. CASE j = 0
    <3>a. i = 0
      BY <2>1
    <3>b. Len(ns) \in Nat
      BY <1>2
    <3>c. 0 \in 0 .. Len(ns)
      BY <3>b
    <3>1. i = 0 /\ h1[0] \in Nat
      BY <1>4, <3>a, <3>c
    <3>2. QED
      BY <2>1, <3>1
  <2>2. CASE j # 0 /\ i = 0
    <3>1. j - 1 \in 0 .. Len(fs) /\ (j - 1) + 1 = j /\ 0 \in 0 .. Len(fs) /\ 0 <= j - 1
      BY <1>2, <2>2
    <3>2. h[j - 1] <= h[0] /\ h1[j] = h[j - 1] /\ h[0] \in Nat /\ h[j - 1] \in Nat
      BY <1>1, <1>3, <3>1 DEF Ledger
    <3>3. QED
      BY <1>3, <2>2, <3>2
  <2>3. CASE j # 0 /\ i # 0
    <3>1. /\ j - 1 \in 0 .. Len(fs) /\ (j - 1) + 1 = j
          /\ i - 1 \in 0 .. Len(fs) /\ (i - 1) + 1 = i /\ i - 1 <= j - 1
      BY <1>2, <2>3
    <3>2. h[j - 1] <= h[i - 1] /\ h1[j] = h[j - 1] /\ h1[i] = h[i - 1]
      BY <1>1, <1>3, <3>1 DEF Ledger
    <3>3. QED
      BY <3>2
  <2>4. QED
    BY <2>1, <2>2, <2>3
<1>8. \A i \in 0 .. Len(fs) : h[i] \in 1 .. Len(may)
  <2> SUFFICES ASSUME NEW i \in 0 .. Len(fs) PROVE h[i] \in 1 .. Len(may)
    OBVIOUS
  <2>1. 0 \in 0 .. Len(fs) /\ Len(fs) \in 0 .. Len(fs) /\ 0 <= i /\ i <= Len(fs)
    BY <1>2
  <2>2. h[Len(fs)] <= h[i] /\ h[i] <= h[0] /\ h[i] \in Nat
    BY <1>1, <2>1 DEF Ledger
  <2>3. QED
    BY <1>2, <1>5, <2>2
<1>9. ASSUME NEW i \in 1 .. Len(ns)
      PROVE  /\ h1[i - 1] = IF ns[i][1] \in Leaves THEN h1[i] + 1 ELSE h1[i]
             /\ g1[i - 1] = IF ns[i][1] = "leavecall" THEN g1[i] + 1 ELSE g1[i]
             /\ ns[i][1] \in Jumping => \A e \in may1[h1[i - 1]] : Caught(ns, i, e)
  <2>1. CASE i = 1
    <3>1. h1[0] = h[0] + 1 /\ h1[1] = h[0] /\ g1[0] = c1 /\ g1[1] = c
      BY <1>2, <1>3, <1>5
    <3>2. f[1] \notin Jumping
      BY DEF Leaves, Jumping
    <3>3. QED
      BY <1>2, <2>1, <3>1, <3>2
  <2>2. CASE i # 1
    <3> DEFINE m == i - 1
    <3>1. m \in 1 .. Len(fs) /\ m \in 0 .. Len(fs) /\ m - 1 \in 0 .. Len(fs) /\ m + 1 = i
          /\ (m - 1) + 1 = i - 1
      BY <1>2, <2>2
    <3> HIDE DEF m
    <3>2. h1[i - 1] = h[m - 1] /\ h1[i] = h[m] /\ g1[i - 1] = g[m - 1] /\ g1[i] = g[m] /\ ns[i] = fs[m]
      BY <1>2, <1>3, <3>1
    <3>3. may1[h[m - 1]] = may[h[m - 1]]
      BY <1>2, <1>8, <3>1
    <3>4. ASSUME NEW e, Caught(fs, m, e) PROVE Caught(ns, i, e)
      <4>1. PICK j \in m + 1 .. Len(fs) :
              /\ fs[j][1] = "try" /\ e \in fs[j][2]
              /\ \A k \in m + 1 .. j - 1 : fs[k][1] # "fun"
        BY <3>4 DEF Caught
      <4>2. j + 1 \in i + 1 .. Len(ns) /\ ns[j + 1] = fs[j]
        BY <1>2, <3>1, <4>1
      <4>3. ASSUME NEW k \in i + 1 .. (j + 1) - 1 PROVE ns[k][1] # "fun"
        <5>1. k - 1 \in m + 1 .. j - 1 /\ k - 1 \in 1 .. Len(fs) /\ (k - 1) + 1 = k
          BY <1>2, <3>1, <4>1
        <5>2. ns[k] = fs[k - 1]
          BY <1>2, <5>1
        <5>3. QED
          BY <4>1, <5>1, <5>2
      <4>4. QED
        BY <4>1, <4>2, <4>3 DEF Caught
    <3>5. QED
      BY <1>1, <3>1, <3>2, <3>3, <3>4 DEF Ledger
  <2>3. QED
    BY <2>1, <2>2
<1>10. Ledger(ns, may1, c1, h1, g1)
  BY <1>3, <1>4, <1>6, <1>7, <1>9 DEF Ledger
<1>11. Settled(ns, may1, c1)
  BY <1>4, <1>10 DEF Settled
<1>12. QED
  BY <1>11 DEF ns, may1

-----------------------------------------------------------------------------
(* Scopes *)

(* A scope inside the innermost one, or, with parent 0, a function's.      *)
LEMMA AllowsEnter ==
    ASSUME NEW ss, NEW may, Allows(ss, may), NEW flags, NEW vs,
           NEW parent \in 0 .. Len(ss), NEW x \in SUBSET Jumps,
           \A e \in Jumps : e \in x <=> \/ FlagOf(e) \in flags
                                        \/ parent # 0 /\ e \in may[parent]
    PROVE  Allows(Append(ss, Scope(flags, parent, vs)), Append(may, x))
<1> DEFINE s1 == Append(ss, Scope(flags, parent, vs))
           m1 == Append(may, x)
           n == Len(ss)
<1>s. PICK S : ss \in Seq(S)
  BY DEF Allows
<1>t. s1 \in Seq(S \cup {Scope(flags, parent, vs)})
  BY <1>s
<1>1. /\ may \in Seq(SUBSET Jumps) /\ Len(may) = n /\ n \in Nat
      /\ \A k \in 1 .. n :
           /\ ss[k] = Scope(ss[k].flags, ss[k].parent, ss[k].vars)
           /\ ss[k].parent \in 0 .. k - 1
           /\ \A e \in Jumps :
                e \in may[k] <=> \/ FlagOf(e) \in ss[k].flags
                                 \/ ss[k].parent # 0 /\ e \in may[ss[k].parent]
  BY <1>s DEF Allows
<1>2. m1 \in Seq(SUBSET Jumps) /\ Len(m1) = n + 1 /\ Len(s1) = n + 1
  BY <1>s, <1>1
<1>3. /\ \A k \in 1 .. n : s1[k] = ss[k] /\ m1[k] = may[k]
      /\ s1[n + 1] = Scope(flags, parent, vs) /\ m1[n + 1] = x
  BY <1>s, <1>1
<1>p. parent \in 0 .. n
  OBVIOUS
<1> HIDE DEF s1, m1, n
<1>4. ASSUME NEW k \in 1 .. Len(s1)
      PROVE  /\ s1[k] = Scope(s1[k].flags, s1[k].parent, s1[k].vars)
             /\ s1[k].parent \in 0 .. k - 1
             /\ \A e \in Jumps :
                  e \in m1[k] <=> \/ FlagOf(e) \in s1[k].flags
                                  \/ s1[k].parent # 0 /\ e \in m1[s1[k].parent]
  <2>1. CASE k = n + 1
    <3>1. s1[k].flags = flags /\ s1[k].parent = parent /\ s1[k].vars = vs
      BY <1>3, <2>1 DEF Scope
    <3>2. parent # 0 => m1[parent] = may[parent]
      BY <1>1, <1>3, <1>p
    <3>3. parent \in 0 .. k - 1
      BY <1>1, <1>p, <2>1
    <3>4. QED
      BY <1>3, <2>1, <3>1, <3>2, <3>3
  <2>2. CASE k # n + 1
    <3>1. k \in 1 .. n
      BY <1>1, <1>2, <2>2
    <3>2. s1[k] = ss[k] /\ m1[k] = may[k]
      BY <1>3, <3>1
    <3>3. ss[k].parent # 0 => ss[k].parent \in 1 .. n
      <4>1. ss[k].parent \in 0 .. k - 1
        BY <1>1, <3>1
      <4> DEFINE q == ss[k].parent
      <4> HIDE DEF q
      <4>2. q \in 0 .. k - 1 /\ k \in 1 .. n => (q # 0 => q \in 1 .. n)
        BY <1>1
      <4>3. QED
        BY <3>1, <4>1, <4>2 DEF q
    <3>4. ss[k].parent # 0 => m1[ss[k].parent] = may[ss[k].parent]
      BY <1>3, <3>3
    <3>5. QED
      BY <1>1, <3>1, <3>2, <3>4
  <2>3. QED
    BY <2>1, <2>2
<1>5. Allows(s1, m1)
  BY <1>t, <1>2, <1>4 DEF Allows
<1>6. QED
  BY <1>5 DEF s1, m1

LEMMA AllowsLeave ==
    ASSUME NEW ss, NEW may, Allows(ss, may), NEW n \in 0 .. Len(ss)
    PROVE  Allows(SubSeq(ss, 1, n), SubSeq(may, 1, n))
<1> DEFINE s1 == SubSeq(ss, 1, n)
           m1 == SubSeq(may, 1, n)
<1>s. PICK S : ss \in Seq(S)
  BY DEF Allows
<1>t. s1 \in Seq(S)
  BY <1>s
<1>1. /\ may \in Seq(SUBSET Jumps) /\ Len(may) = Len(ss) /\ Len(ss) \in Nat
      /\ \A k \in 1 .. Len(ss) :
           /\ ss[k] = Scope(ss[k].flags, ss[k].parent, ss[k].vars)
           /\ ss[k].parent \in 0 .. k - 1
           /\ \A e \in Jumps :
                e \in may[k] <=> \/ FlagOf(e) \in ss[k].flags
                                 \/ ss[k].parent # 0 /\ e \in may[ss[k].parent]
  BY <1>s DEF Allows
<1>2. m1 \in Seq(SUBSET Jumps) /\ Len(m1) = n /\ Len(s1) = n
  BY <1>s, <1>1
<1>3. \A k \in 1 .. n : s1[k] = ss[k] /\ m1[k] = may[k] /\ k \in 1 .. Len(ss)
  BY <1>s, <1>1
<1> HIDE DEF s1, m1
<1>4. \A k \in 1 .. n : ss[k].parent # 0 => m1[ss[k].parent] = may[ss[k].parent]
  <2> SUFFICES ASSUME NEW k \in 1 .. n, ss[k].parent # 0
               PROVE  m1[ss[k].parent] = may[ss[k].parent]
    OBVIOUS
  <2>1. ss[k].parent \in 1 .. n
    BY <1>1, <1>3
  <2>2. QED
    BY <1>3, <2>1
<1>5. Allows(s1, m1)
  <2>1. ASSUME NEW k \in 1 .. n
        PROVE  /\ s1[k] = Scope(s1[k].flags, s1[k].parent, s1[k].vars)
               /\ s1[k].parent \in 0 .. k - 1
               /\ \A e \in Jumps :
                    e \in m1[k] <=> \/ FlagOf(e) \in s1[k].flags
                                    \/ s1[k].parent # 0 /\ e \in m1[s1[k].parent]
    <3>1. s1[k] = ss[k] /\ m1[k] = may[k] /\ k \in 1 .. Len(ss)
      BY <1>3
    <3>2. ss[k].parent # 0 => m1[ss[k].parent] = may[ss[k].parent]
      BY <1>4
    <3>3. QED
      BY <1>1, <3>1, <3>2
  <2>2. QED
    BY <1>t, <1>2, <2>1 DEF Allows
<1>6. QED
  BY <1>5 DEF s1, m1

(* A variable defined allows nothing.                                      *)
LEMMA AllowsDefine ==
    ASSUME NEW ss, NEW may, Allows(ss, may), NEW k \in 1 .. Len(ss), NEW vs
    PROVE  Allows([ss EXCEPT ![k].vars = vs], may)
<1> DEFINE s1 == [ss EXCEPT ![k].vars = vs]
<1>s. PICK S : ss \in Seq(S)
  BY DEF Allows
<1>t. s1 \in Seq(S \cup {[ss[k] EXCEPT !.vars = vs]})
  BY <1>s
<1>1. /\ may \in Seq(SUBSET Jumps) /\ Len(may) = Len(ss)
      /\ \A i \in 1 .. Len(ss) :
           /\ ss[i] = Scope(ss[i].flags, ss[i].parent, ss[i].vars)
           /\ ss[i].parent \in 0 .. i - 1
           /\ \A e \in Jumps :
                e \in may[i] <=> \/ FlagOf(e) \in ss[i].flags
                                 \/ ss[i].parent # 0 /\ e \in may[ss[i].parent]
  BY DEF Allows
<1>2. Len(s1) = Len(ss)
  BY <1>s
<1>3. ASSUME NEW i \in 1 .. Len(ss)
      PROVE  s1[i] = Scope(s1[i].flags, s1[i].parent, s1[i].vars) /\ s1[i].flags = ss[i].flags /\ s1[i].parent = ss[i].parent
  <2>1. CASE i # k
    <3>1. s1[i] = ss[i]
      BY <1>s, <2>1
    <3>2. QED
      BY <1>1, <3>1
  <2>2. CASE i = k
    <3>1. s1[i] = [ss[i] EXCEPT !.vars = vs]
      BY <1>s, <2>2
    <3>2. ss[i] = Scope(ss[i].flags, ss[i].parent, ss[i].vars)
      BY <1>1
    <3>3. s1[i] = Scope(ss[i].flags, ss[i].parent, vs)
      BY <3>1, <3>2 DEF Scope
    <3>4. QED
      BY <3>3 DEF Scope
  <2>3. QED
    BY <2>1, <2>2
<1> HIDE DEF s1
<1>4. Allows(s1, may)
  BY <1>t, <1>1, <1>2, <1>3 DEF Allows
<1>5. QED
  BY <1>4 DEF s1

(* What in() finds in the scopes is what they allow.                       *)
LEMMA InIsAllowed ==
    ASSUME NEW may, Allows(scopes, may), NEW k \in 1 .. Len(scopes), NEW e \in Jumps
    PROVE  In(FlagOf(e), k) <=> e \in may[k]
<1> DEFINE fl == FlagOf(e)
           F(f) == [j \in 0 .. k |-> j # 0 /\ (fl \in scopes[j].flags \/ f[scopes[j].parent])]
           f0 == [j \in 0 .. k |-> j # 0 /\ e \in may[j]]
           in == CHOOSE f : f = F(f)
<1>1. In(fl, k) <=> in[k]
  BY DEF In
<1>2. \A j \in 1 .. k : /\ scopes[j].parent \in 0 .. j - 1 /\ scopes[j].parent \in 0 .. k
                        /\ e \in may[j] <=> \/ fl \in scopes[j].flags
                                            \/ scopes[j].parent # 0 /\ e \in may[scopes[j].parent]
  <2> SUFFICES ASSUME NEW j \in 1 .. k
               PROVE  /\ scopes[j].parent \in 0 .. j - 1 /\ scopes[j].parent \in 0 .. k
                      /\ e \in may[j] <=> \/ fl \in scopes[j].flags
                                          \/ scopes[j].parent # 0 /\ e \in may[scopes[j].parent]
    OBVIOUS
  <2>1. j \in 1 .. Len(scopes)
    OBVIOUS
  <2>2. scopes[j].parent \in 0 .. j - 1
    BY <2>1 DEF Allows
  <2>3. QED
    BY <2>1, <2>2 DEF Allows
<1> HIDE DEF fl
<1>3. f0 = F(f0)
  <2>1. ASSUME NEW j \in 0 .. k
        PROVE  (j # 0 /\ e \in may[j]) = (j # 0 /\ (fl \in scopes[j].flags \/ f0[scopes[j].parent]))
    <3>1. CASE j = 0
      BY <3>1
    <3>2. CASE j # 0
      <4>1. j \in 1 .. k
        BY <3>2
      <4>2. f0[scopes[j].parent] <=> (scopes[j].parent # 0 /\ e \in may[scopes[j].parent])
        BY <1>2, <4>1
      <4> HIDE DEF f0
      <4>3. QED
        BY <1>2, <4>1, <4>2
    <3>3. QED
      BY <3>1, <3>2
  <2>2. QED
    BY <2>1
<1>4. in = F(in)
  <2> HIDE DEF F, f0
  <2>1. QED
    BY <1>3
<1> HIDE DEF in, f0
<1>5. \A j \in 0 .. k : in[j] <=> j # 0 /\ (fl \in scopes[j].flags \/ in[scopes[j].parent])
  BY <1>4
<1> DEFINE N == {n \in Nat : \A j \in 0 .. k : j <= n => (in[j] <=> j # 0 /\ e \in may[j])}
<1>6. 0 \in N
  <2>1. ASSUME NEW j \in 0 .. k, j <= 0 PROVE in[j] <=> j # 0 /\ e \in may[j]
    <3>1. j = 0
      BY <2>1
    <3>2. QED
      BY <1>5, <3>1
  <2>2. QED
    BY <2>1
<1>7. ASSUME NEW n \in Nat, n \in N PROVE n + 1 \in N
  <2>1. ASSUME NEW j \in 0 .. k, j <= n + 1 PROVE in[j] <=> j # 0 /\ e \in may[j]
    <3>1. CASE j = 0
      BY <1>5, <3>1
    <3>2. CASE j # 0
      <4>1. j \in 1 .. k
        BY <3>2
      <4> DEFINE p == scopes[j].parent
      <4>2. p \in 0 .. k /\ p <= n
        <5>1. p \in 0 .. j - 1 /\ p \in 0 .. k
          BY <1>2, <4>1
        <5>2. QED
          BY <2>1, <5>1
      <4>3. in[p] <=> p # 0 /\ e \in may[p]
        BY <1>7, <4>2
      <4>4. in[j] <=> (fl \in scopes[j].flags \/ in[p])
        BY <1>5, <3>2
      <4>5. e \in may[j] <=> (fl \in scopes[j].flags \/ (p # 0 /\ e \in may[p]))
        BY <1>2, <4>1
      <4> HIDE DEF p
      <4>6. QED
        BY <3>2, <4>3, <4>4, <4>5
    <3>3. QED
      BY <3>1, <3>2
  <2>2. QED
    BY <2>1
<1>8. k \in N
  <2> HIDE DEF N
  <2>1. Nat \subseteq N
    BY <1>6, <1>7, SetInduction
  <2>2. QED
    BY <2>1
<1>9. QED
  <2>1. k \in 0 .. k /\ k <= k /\ k # 0
    OBVIOUS
  <2>2. in[k] <=> k # 0 /\ e \in may[k]
    BY <1>8, <2>1
  <2>3. QED
    BY <1>1, <2>1, <2>2 DEF fl

-----------------------------------------------------------------------------
(* What remains, the scopes and the calls together                         *)

(* The frames leave all scopes but the first and all calls, and a jump     *)
(* that the innermost scope allows is caught in them, or is one of those   *)
(* in the set other.                                                       *)
Held(fs, ss, c, other) ==
    /\ fs \in Seq(Frames) /\ c \in Nat /\ other \in SUBSET Jumps
    /\ \E may : /\ Allows(ss, may) /\ Settled(fs, may, c)
                /\ \A e \in may[Len(may)] \ other : Caught(fs, 0, e)

LEMMA HeldSome ==
    ASSUME NEW fs, NEW ss, NEW c, NEW other, Held(fs, ss, c, other)
    PROVE  Len(ss) \in Nat \ {0} /\ \E S : ss \in Seq(S)
<1>1. PICK may : Allows(ss, may) /\ Settled(fs, may, c)
  BY DEF Held
<1>2. PICK h, g \in [0 .. Len(fs) -> Nat] : Ledger(fs, may, c, h, g)
  BY <1>1 DEF Settled
<1>3. 0 \in 0 .. Len(fs) /\ Len(fs) \in 0 .. Len(fs) /\ 0 <= Len(fs)
  BY DEF Held
<1>4. h[Len(fs)] = 1 /\ h[0] = Len(may) /\ h[Len(fs)] <= h[0]
  BY <1>2, <1>3 DEF Ledger
<1>5. QED
  BY <1>1, <1>2, <1>3, <1>4 DEF Allows

(* What is taken off the frames.                                           *)
LEMMA HeldTail ==
    ASSUME NEW fs, NEW ss, NEW c, Held(fs, ss, c, Jumps), fs # <<>>, Head(fs)[1] \notin Leaves
    PROVE  Held(Tail(fs), ss, c, IF Head(fs)[1] \in Jumping THEN {} ELSE Jumps)
<1>1. fs \in Seq(Frames) /\ c \in Nat
  BY DEF Held
<1>2. PICK may : Allows(ss, may) /\ Settled(fs, may, c)
  BY DEF Held
<1>3. may \in Seq(SUBSET Jumps) /\ SubSeq(may, 1, Len(may)) = may
  BY <1>2 DEF Allows
<1>4. Settled(Tail(fs), may, c)
  <2>1. Settled(Tail(fs), SubSeq(may, 1, Len(may)), c)
    BY <1>1, <1>2, <1>3, SettledTail DEF Leaves
  <2>2. QED
    BY <1>3, <2>1
<1>5. ASSUME Head(fs)[1] \in Jumping, NEW e \in may[Len(may)]
      PROVE  Caught(Tail(fs), 0, e)
  <2>1. PICK h, g \in [0 .. Len(fs) -> Nat] : Ledger(fs, may, c, h, g)
    BY <1>2 DEF Settled
  <2>2. 1 \in 1 .. Len(fs) /\ Head(fs) = fs[1] /\ Len(fs) \in Nat
    BY <1>1
  <2>3. Caught(fs, 1, e)
    BY <1>5, <2>1, <2>2 DEF Ledger
  <2>4. PICK j \in 2 .. Len(fs) :
          /\ fs[j][1] = "try" /\ e \in fs[j][2]
          /\ \A k \in 2 .. j - 1 : fs[k][1] # "fun"
    BY <2>3 DEF Caught
  <2>5. Len(Tail(fs)) = Len(fs) - 1 /\ \A k \in 1 .. Len(fs) - 1 : Tail(fs)[k] = fs[k + 1]
    BY <1>1, <2>2
  <2>6. j - 1 \in 1 .. Len(Tail(fs)) /\ Tail(fs)[j - 1] = fs[j]
    BY <2>2, <2>4, <2>5
  <2>7. \A k \in 1 .. (j - 1) - 1 : Tail(fs)[k] = fs[k + 1] /\ k + 1 \in 2 .. j - 1
    BY <2>2, <2>4, <2>5
  <2> DEFINE ts == Tail(fs)
             m == j - 1
  <2>8. m \in 0 + 1 .. Len(ts) /\ \A k \in 0 + 1 .. m - 1 : ts[k][1] # "fun"
    BY <2>4, <2>6, <2>7
  <2>9. ts[m][1] = "try" /\ e \in ts[m][2]
    BY <2>4, <2>6
  <2> HIDE DEF ts, m
  <2>10. Caught(ts, 0, e)
    BY <2>8, <2>9 DEF Caught
  <2>11. QED
    BY <2>10 DEF ts
<1>6. may[Len(may)] \subseteq Jumps
  <2>1. Len(ss) = Len(may) /\ Len(ss) \in Nat \ {0}
    BY <1>2, HeldSome DEF Allows
  <2>2. QED
    BY <1>3, <2>1
<1>7. Tail(fs) \in Seq(Frames)
  BY <1>1
<1>8. QED
  BY <1>1, <1>2, <1>4, <1>5, <1>6, <1>7 DEF Held

LEMMA HeldLeave ==
    ASSUME NEW fs, NEW ss, NEW c, Held(fs, ss, c, Jumps), fs # <<>>, Head(fs)[1] \in Leaves
    PROVE  Held(Tail(fs), SubSeq(ss, 1, Len(ss) - 1),
                IF Head(fs)[1] = "leavecall" THEN c - 1 ELSE c, Jumps)
<1>1. fs \in Seq(Frames) /\ c \in Nat
  BY DEF Held
<1>2. PICK may : Allows(ss, may) /\ Settled(fs, may, c)
  BY DEF Held
<1>3. may \in Seq(SUBSET Jumps) /\ Len(ss) = Len(may)
  BY <1>2 DEF Allows
<1> DEFINE n == Len(may) - 1
           c1 == IF Head(fs)[1] = "leavecall" THEN c - 1 ELSE c
<1>4. n \in 1 .. Len(may) /\ c1 \in Nat /\ Settled(Tail(fs), SubSeq(may, 1, n), c1)
  <2> HIDE DEF c1
  <2>1. c1 = IF Head(fs)[1] = "leavecall" THEN c - 1 ELSE c
    BY DEF c1
  <2>2. QED
    BY <1>1, <1>2, <1>3, <2>1, SettledTail
<1>5. Allows(SubSeq(ss, 1, n), SubSeq(may, 1, n))
  BY <1>2, <1>3, <1>4, AllowsLeave
<1>6. SubSeq(may, 1, n) \in Seq(SUBSET Jumps) /\ Len(SubSeq(may, 1, n)) = n
  BY <1>3, <1>4
<1>7. SubSeq(may, 1, n)[n] \subseteq Jumps
  BY <1>4, <1>6
<1>8. Tail(fs) \in Seq(Frames)
  BY <1>1
<1> HIDE DEF c1
<1>9. Held(Tail(fs), SubSeq(ss, 1, n), c1, Jumps)
  BY <1>4, <1>5, <1>6, <1>7, <1>8 DEF Held
<1>10. QED
  BY <1>3, <1>9 DEF c1

(* What is put on the frames.                                              *)
LEMMA CaughtCons ==
    ASSUME NEW fs \in Seq(Frames), NEW f \in Frames, NEW e, Caught(fs, 0, e), f[1] # "fun"
    PROVE  Caught(<<f>> \o fs, 0, e)
<1> DEFINE ss == <<f>>
<1>1. ss \in Seq(Frames) /\ 0 \in 0 .. Len(ss) /\ \A k \in 1 .. Len(ss) : ss[k][1] # "fun"
  OBVIOUS
<1> HIDE DEF ss
<1>2. Caught(ss \o fs, 0, e)
  BY <1>1, CaughtBelow
<1>3. QED
  BY <1>2 DEF ss

LEMMA HeldPush ==
    ASSUME NEW fs, NEW ss, NEW c, NEW other, Held(fs, ss, c, other),
           NEW f \in Frames, f[1] \notin Leaves \cup {"fun"}, f[1] \in Jumping => other = {}
    PROVE  Held(<<f>> \o fs, ss, c, other)
<1>1. fs \in Seq(Frames) /\ c \in Nat
  BY DEF Held
<1>2. PICK may : /\ Allows(ss, may) /\ Settled(fs, may, c)
                 /\ \A e \in may[Len(may)] \ other : Caught(fs, 0, e)
  BY DEF Held
<1>3. may \in Seq(SUBSET Jumps)
  BY <1>2 DEF Allows
<1>4. f[1] \in Jumping => \A e \in may[Len(may)] : Caught(fs, 0, e)
  BY <1>2
<1>5. Settled(<<f>> \o fs, may, c)
  BY <1>1, <1>2, <1>3, <1>4, SettledCons
<1>6. \A e \in may[Len(may)] \ other : Caught(<<f>> \o fs, 0, e)
  BY <1>1, <1>2, CaughtCons
<1>7. <<f>> \o fs \in Seq(Frames)
  BY <1>1
<1>8. QED
  BY <1>1, <1>2, <1>5, <1>6, <1>7 DEF Held

(* A handler.                                                              *)
LEMMA HeldTry ==
    ASSUME NEW fs, NEW ss, NEW c, NEW other, Held(fs, ss, c, other), NEW caught \in SUBSET Jumps
    PROVE  Held(<< <<"try", caught>> >> \o fs, ss, c, other \ caught)
<1> DEFINE f == <<"try", caught>>
<1>1. fs \in Seq(Frames) /\ c \in Nat /\ other \in SUBSET Jumps
  BY DEF Held
<1>2. f \in Frames /\ f[1] = "try" /\ f[2] = caught
  BY DEF Frames
<1> HIDE DEF f
<1>3. Held(<<f>> \o fs, ss, c, other)
  BY <1>2, HeldPush DEF Leaves, Jumping
<1>4. PICK may : /\ Allows(ss, may) /\ Settled(<<f>> \o fs, may, c)
                 /\ \A e \in may[Len(may)] \ other : Caught(<<f>> \o fs, 0, e)
  BY <1>3 DEF Held
<1>5. ASSUME NEW e \in caught PROVE Caught(<<f>> \o fs, 0, e)
  <2> DEFINE ns == <<f>> \o fs
  <2>1. 1 \in 0 + 1 .. Len(ns) /\ ns[1] = f
    BY <1>1
  <2> HIDE DEF ns
  <2>2. ns[1][1] = "try" /\ e \in ns[1][2] /\ \A k \in 0 + 1 .. 1 - 1 : ns[k][1] # "fun"
    BY <1>2, <2>1
  <2>3. Caught(ns, 0, e)
    BY <2>1, <2>2 DEF Caught
  <2>4. QED
    BY <2>3 DEF ns
<1>6. Held(<<f>> \o fs, ss, c, other \ caught)
  BY <1>1, <1>3, <1>4, <1>5 DEF Held
<1>7. QED
  BY <1>6 DEF f

(* Statements, where every jump the scope allows is caught.                *)
LEMMA HeldStmts ==
    ASSUME NEW fs, NEW ss, NEW c, Held(fs, ss, c, {}),
           NEW st \in Seq(Frames), \A i \in 1 .. Len(st) : st[i][1] \notin Leaves \cup {"fun"}
    PROVE  Held(st \o fs, ss, c, {})
<1>1. fs \in Seq(Frames) /\ c \in Nat
  BY DEF Held
<1>2. PICK may : /\ Allows(ss, may) /\ Settled(fs, may, c)
                 /\ \A e \in may[Len(may)] : Caught(fs, 0, e)
  BY DEF Held
<1>3. may \in Seq(SUBSET Jumps)
  BY <1>2 DEF Allows
<1>4. Settled(st \o fs, may, c)
  BY <1>1, <1>2, <1>3, SettledStmts
<1>5. ASSUME NEW e \in may[Len(may)] PROVE Caught(st \o fs, 0, e)
  <2>1. 0 \in 0 .. Len(st) /\ \A k \in 1 .. Len(st) : st[k][1] # "fun"
    OBVIOUS
  <2>2. QED
    BY <1>1, <1>2, <2>1, CaughtBelow
<1>6. st \o fs \in Seq(Frames)
  BY <1>1
<1>7. QED
  BY <1>1, <1>2, <1>4, <1>5, <1>6 DEF Held

(* A scope inside the innermost one: it allows what its flags add.         *)
LEMMA HeldEnter ==
    ASSUME NEW fs, NEW ss, NEW c, NEW other, Held(fs, ss, c, other), NEW flags, NEW vs
    PROVE  Held(<< <<"leave">> >> \o fs, Append(ss, Scope(flags, Len(ss), vs)), c,
                other \cup {e \in Jumps : FlagOf(e) \in flags})
<1> DEFINE new == {e \in Jumps : FlagOf(e) \in flags}
           f == <<"leave">>
<1>1. fs \in Seq(Frames) /\ c \in Nat /\ other \in SUBSET Jumps
  BY DEF Held
<1>2. PICK may : /\ Allows(ss, may) /\ Settled(fs, may, c)
                 /\ \A e \in may[Len(may)] \ other : Caught(fs, 0, e)
  BY DEF Held
<1>3. /\ may \in Seq(SUBSET Jumps) /\ Len(may) = Len(ss) /\ Len(ss) \in Nat \ {0}
      /\ may[Len(may)] \in SUBSET Jumps
  <2>1. may \in Seq(SUBSET Jumps) /\ Len(may) = Len(ss) /\ Len(ss) \in Nat \ {0}
    BY <1>2, HeldSome DEF Allows
  <2>2. QED
    BY <2>1
<1> DEFINE x == may[Len(may)] \cup new
           m1 == Append(may, x)
<1>4. x \in SUBSET Jumps
  BY <1>3
<1>5. Allows(Append(ss, Scope(flags, Len(ss), vs)), m1)
  <2>1. \A e \in Jumps : e \in x <=> (FlagOf(e) \in flags \/ (Len(ss) # 0 /\ e \in may[Len(ss)]))
    BY <1>3
  <2>2. Len(ss) \in 0 .. Len(ss)
    BY <1>3
  <2> HIDE DEF x
  <2>3. QED
    BY <1>2, <1>4, <2>1, <2>2, AllowsEnter
<1>6. f \in Frames /\ f[1] = "leave"
  BY DEF Frames
<1> HIDE DEF f
<1>7. Settled(<<f>> \o fs, m1, c)
  <2> HIDE DEF x
  <2>1. f[1] \in Leaves /\ c = IF f[1] = "leavecall" THEN c + 1 ELSE c
    BY <1>6 DEF Leaves
  <2>2. QED
    BY <1>1, <1>2, <1>3, <1>4, <1>6, <2>1, SettledEnter
<1>8. m1[Len(m1)] = x
  BY <1>3
<1>9. \A e \in m1[Len(m1)] \ (other \cup new) : Caught(<<f>> \o fs, 0, e)
  BY <1>1, <1>2, <1>6, <1>8, CaughtCons
<1>10. <<f>> \o fs \in Seq(Frames) /\ other \cup new \in SUBSET Jumps
  BY <1>1, <1>6
<1>11. Held(<<f>> \o fs, Append(ss, Scope(flags, Len(ss), vs)), c, other \cup new)
  <2> HIDE DEF m1, new
  <2>1. QED
    BY <1>1, <1>5, <1>7, <1>9, <1>10 DEF Held
<1>12. QED
  BY <1>11 DEF f

(* The scope of a function, in which nothing may be jumped out of.         *)
LEMMA HeldCall ==
    ASSUME NEW fs, NEW ss, NEW c, Held(fs, ss, c, Jumps), NEW vs
    PROVE  Held(<< <<"fun">> >> \o (<< <<"leavecall">> >> \o fs),
                Append(ss, Scope({"Fun"}, 0, vs)), c + 1, {})
<1> DEFINE f1 == <<"fun">>
           f2 == <<"leavecall">>
           fs2 == <<f2>> \o fs
           s1 == Append(ss, Scope({"Fun"}, 0, vs))
<1>1. fs \in Seq(Frames) /\ c \in Nat
  BY DEF Held
<1>2. PICK may : Allows(ss, may) /\ Settled(fs, may, c)
  BY DEF Held
<1>3. may \in Seq(SUBSET Jumps) /\ Len(may) = Len(ss) /\ Len(ss) \in Nat
  BY <1>2, HeldSome DEF Allows
<1> DEFINE m1 == Append(may, {})
<1>4. Allows(s1, m1)
  <2>1. \A e \in Jumps : e \in {} <=> (FlagOf(e) \in {"Fun"} \/ (0 # 0 /\ e \in may[0]))
    BY DEF Jumps, FlagOf
  <2>2. 0 \in 0 .. Len(ss)
    BY <1>3
  <2>3. QED
    BY <1>2, <2>1, <2>2, AllowsEnter
<1>5. f1 \in Frames /\ f1[1] = "fun" /\ f2 \in Frames /\ f2[1] = "leavecall"
  BY DEF Frames
<1> HIDE DEF f1, f2
<1>6. Settled(fs2, m1, c + 1)
  <2>1. f2[1] \in Leaves /\ c + 1 = IF f2[1] = "leavecall" THEN c + 1 ELSE c
    BY <1>5 DEF Leaves
  <2>2. QED
    BY <1>1, <1>2, <1>3, <1>5, <2>1, SettledEnter
<1>7. fs2 \in Seq(Frames) /\ <<f1>> \o fs2 \in Seq(Frames) /\ c + 1 \in Nat
  BY <1>1, <1>5
<1>8. m1 \in Seq(SUBSET Jumps) /\ m1[Len(m1)] = {}
  BY <1>3
<1> HIDE DEF m1, fs2, s1
<1>9. Settled(<<f1>> \o fs2, m1, c + 1)
  BY <1>5, <1>6, <1>7, <1>8, SettledCons DEF Leaves
<1>10. Held(<<f1>> \o fs2, s1, c + 1, {})
  BY <1>4, <1>7, <1>8, <1>9 DEF Held
<1>11. QED
  BY <1>10 DEF f1, f2, fs2, s1

LEMMA HeldDefine ==
    ASSUME NEW fs, NEW ss, NEW c, NEW other, Held(fs, ss, c, other), NEW vs
    PROVE  Held(fs, [ss EXCEPT ![Len(ss)].vars = vs], c, other)
<1>1. PICK may : /\ Allows(ss, may) /\ Settled(fs, may, c)
                 /\ \A e \in may[Len(may)] \ other : Caught(fs, 0, e)
  BY DEF Held
<1>2. Len(ss) \in 1 .. Len(ss)
  BY HeldSome
<1>3. Allows([ss EXCEPT ![Len(ss)].vars = vs], may)
  BY <1>1, <1>2, AllowsDefine
<1>4. QED
  BY <1>1, <1>3 DEF Held

LEMMA HeldMore ==
    ASSUME NEW fs, NEW ss, NEW c, NEW other, Held(fs, ss, c, other), NEW more \in SUBSET Jumps,
           other \subseteq more
    PROVE  Held(fs, ss, c, more)
BY DEF Held

(* A condition that matches (x as T) has a scope of its own.               *)
LEMMA HeldBound ==
    ASSUME NEW fs, NEW ss, NEW c, NEW other, Held(fs, ss, c, other), NEW cond, NEW b \in BOOLEAN
    PROVE  Held(Unbound(cond, b) \o fs, Bound(cond, b, ss), c, other)
<1>1. other \cup {e \in Jumps : FlagOf(e) \in {"AsCond"}} = other
  BY DEF Jumps, FlagOf
<1>2. CASE Matches(cond, b)
  <2> DEFINE vs == cond[2] :> <<Value(cond[2])[1], Value(cond[2])[2] + 1>>
  <2>1. Unbound(cond, b) = << <<"leave">> >>
    BY <1>2 DEF Unbound, Leaving
  <2>2. Bound(cond, b, ss) = Append(ss, Scope({"AsCond"}, Len(ss), vs))
    BY <1>2 DEF Bound
  <2> HIDE DEF vs
  <2>3. Held(<< <<"leave">> >> \o fs, Append(ss, Scope({"AsCond"}, Len(ss), vs)), c,
             other \cup {e \in Jumps : FlagOf(e) \in {"AsCond"}})
    BY HeldEnter
  <2>4. QED
    BY <1>1, <2>1, <2>2, <2>3
<1>3. CASE ~Matches(cond, b)
  <2>1. Unbound(cond, b) \o fs = fs
    BY <1>3 DEF Unbound, Held
  <2>2. Bound(cond, b, ss) = ss
    BY <1>3 DEF Bound
  <2>3. QED
    BY <2>1, <2>2
<1>4. QED
  BY <1>2, <1>3

(* What the parts of a frame are.                                          *)
LEMMA StatementParts ==
    ASSUME NEW s \in Statements
    PROVE  /\ s \in Frames /\ s[1] \notin Leaves \cup {"fun", "cases"}
           /\ s[1] \in {"var", "use", "block", "if", "while", "for", "which", "break", "continue",
                       "return", "call"}
           /\ s[1] = "block" => s[2] \in Seq(Frames) /\ \A i \in 1 .. Len(s[2]) : s[2][i] \in Statements
           /\ s[1] = "if" => s[3] \in Statements /\ s[4] \in Seq(Frames) /\ \A i \in 1 .. Len(s[4]) : s[4][i] \in Statements
           /\ s[1] \in {"while", "for"} => s \in Loops /\ s[3] \in Statements
           /\ s[1] = "which" => s[2] \in Seq(WhichCases(Statements))
<1>1. \/ s \in {"var", "use"} \X Names
      \/ s \in {"block"} \X Seq(Statements)
      \/ s \in {"if"} \X Conditions \X Statements \X Seq(Statements)
      \/ s \in {"while", "for"} \X Conditions \X Statements
      \/ s \in {"which"} \X Seq(WhichCases(Statements))
      \/ s \in { <<"break">>, <<"continue">> }
      \/ s \in {"return", "call"} \X (Names \cup {""})
  BY StatementsAssumption DEF Closed
<1>2. s \in Frames
  BY DEF Frames
<1>3. \A t \in Seq(Statements) : t \in Seq(Frames) /\ \A i \in 1 .. Len(t) : t[i] \in Statements
  <2>1. Statements \subseteq Frames
    BY DEF Frames
  <2>2. QED
    BY <2>1
<1>4. /\ s \in {"var", "use"} \X Names => s[1] \in {"var", "use"}
      /\ s \in {"block"} \X Seq(Statements) => s[1] = "block" /\ s[2] \in Seq(Statements)
  OBVIOUS
<1>5. s \in {"if"} \X Conditions \X Statements \X Seq(Statements) =>
        s[1] = "if" /\ s[3] \in Statements /\ s[4] \in Seq(Statements)
  OBVIOUS
<1>6. s \in {"while", "for"} \X Conditions \X Statements =>
        s[1] \in {"while", "for"} /\ s[3] \in Statements
  OBVIOUS
<1>7. s \in {"which"} \X Seq(WhichCases(Statements)) =>
        s[1] = "which" /\ s[2] \in Seq(WhichCases(Statements))
  OBVIOUS
<1>8. /\ s \in { <<"break">>, <<"continue">> } => s[1] \in Jumps
      /\ s \in {"return", "call"} \X (Names \cup {""}) => s[1] \in {"return", "call"}
  <2>1. s \in { <<"break">>, <<"continue">> } => s[1] \in Jumps
    BY DEF Jumps
  <2>2. s \in {"return", "call"} \X (Names \cup {""}) => s[1] \in {"return", "call"}
    OBVIOUS
  <2>3. QED
    BY <2>1, <2>2
<1>9. s[1] \in {"while", "for"} => s \in Loops
  BY DEF Loops
<1>10. \/ s[1] \in {"var", "use", "return", "call"} \cup Jumps
       \/ s[1] = "block" /\ s[2] \in Seq(Statements)
       \/ s[1] = "if" /\ s[3] \in Statements /\ s[4] \in Seq(Statements)
       \/ s[1] \in {"while", "for"} /\ s[3] \in Statements
       \/ s[1] = "which" /\ s[2] \in Seq(WhichCases(Statements))
  BY <1>1, <1>4, <1>5, <1>6, <1>7, <1>8
<1>11. QED
  BY <1>2, <1>3, <1>9, <1>10 DEF Jumps, Leaves

LEMMA FrameParts ==
    ASSUME NEW f \in Frames
    PROVE  /\ f[1] \in {"var", "use", "block", "if", "while", "for", "which", "break", "continue",
                        "return", "call"} => f \in Statements
           /\ f[1] = "cases" => f[2] \in Seq(WhichCases(Statements))
           /\ f[1] = "turn" => f[2] \in Loops /\ f[3] \in Nat
           /\ f[1] = "again" => f[2] \in Loops
<1>1. CASE f \in Statements
  BY <1>1, StatementParts
<1>2. CASE f \in {<<"leave">>, <<"leavecall">>, <<"fun">>, <<"log">>}
  BY <1>2
<1>3. CASE f \in {"try"} \X (SUBSET Jumps)
  BY <1>3
<1>4. CASE f \in {"turn"} \X Loops \X Nat
  BY <1>4
<1>5. CASE f \in {"again"} \X Loops
  BY <1>5
<1>6. CASE f \in {"cases"} \X Seq(WhichCases(Statements))
  BY <1>6
<1>7. QED
  BY <1>1, <1>2, <1>3, <1>4, <1>5, <1>6 DEF Frames

(* Sequences of frames, one by one.                                        *)
LEMMA ConsTwo ==
    ASSUME NEW fs \in Seq(Frames), NEW x \in Frames, NEW y \in Frames
    PROVE  <<x, y>> \o fs = <<x>> \o (<<y>> \o fs)
<1>1. <<x, y>> = <<x>> \o <<y>>
  <2> DEFINE s == <<x>> \o <<y>>
             t == <<x, y>>
  <2>1. s \in Seq(Frames) /\ t \in Seq(Frames) /\ Len(s) = 2 /\ Len(t) = 2
    OBVIOUS
  <2>2. s[1] = x /\ s[2] = y /\ t[1] = x /\ t[2] = y
    OBVIOUS
  <2> HIDE DEF s, t
  <2>3. \A i \in 1 .. Len(s) : s[i] = t[i]
    BY <2>1, <2>2
  <2>4. s = t
    BY <2>1, <2>3, SeqEqual
  <2>5. QED
    BY <2>4 DEF s, t
<1>2. <<x>> \in Seq(Frames) /\ <<y>> \in Seq(Frames)
  OBVIOUS
<1>3. QED
  BY <1>1, <1>2, ConcatAssociative

LEMMA ConsThree ==
    ASSUME NEW fs \in Seq(Frames), NEW a \in Frames, NEW b \in Frames, NEW c \in Frames
    PROVE  <<a, b, c>> \o fs = <<a>> \o (<<b>> \o (<<c>> \o fs))
<1>1. <<a, b, c>> = <<a>> \o <<b, c>>
  <2> DEFINE s == <<a>> \o <<b, c>>
             t == <<a, b, c>>
  <2>1. s \in Seq(Frames) /\ t \in Seq(Frames) /\ Len(s) = 3 /\ Len(t) = 3
    OBVIOUS
  <2>2. s[1] = a /\ s[2] = b /\ s[3] = c /\ t[1] = a /\ t[2] = b /\ t[3] = c
    OBVIOUS
  <2> HIDE DEF s, t
  <2>3. \A i \in 1 .. Len(s) : s[i] = t[i]
    BY <2>1, <2>2
  <2>4. s = t
    BY <2>1, <2>3, SeqEqual
  <2>5. QED
    BY <2>4 DEF s, t
<1>2. <<a>> \in Seq(Frames) /\ <<b, c>> \in Seq(Frames)
  OBVIOUS
<1>3. <<a, b, c>> \o fs = <<a>> \o (<<b, c>> \o fs)
  BY <1>1, <1>2, ConcatAssociative
<1>4. QED
  BY <1>3, ConsTwo

LEMMA ConsLast ==
    ASSUME NEW fs \in Seq(Frames), NEW f \in Frames, NEW st \in Seq(Frames)
    PROVE  /\ (st \o <<f>>) \o fs = st \o (<<f>> \o fs)
           /\ Append(st, f) \o fs = st \o (<<f>> \o fs)
<1>1. <<f>> \in Seq(Frames)
  OBVIOUS
<1>2. (st \o <<f>>) \o fs = st \o (<<f>> \o fs)
  BY <1>1, ConcatAssociative
<1>3. Append(st, f) = st \o <<f>>
  BY AppendIsConcat
<1>4. QED
  BY <1>2, <1>3

-----------------------------------------------------------------------------
(* The invariant                                                           *)

IInv ==
    /\ prog \in Programs
    /\ Held(frames, scopes, calls, Jumps)
    /\ thrown \in Jumps => Caught(frames, 0, thrown)
    /\ UnwindRestores

(* What a frame that runs leaves behind: the jumps that the scope allows   *)
(* are caught below it if it is one in which they may start.               *)
LEMMA HeldRest ==
    ASSUME IInv, NEW kind, Runs(kind), kind \notin Leaves
    PROVE  /\ Top \in Frames /\ Top[1] = kind /\ Rest \in Seq(Frames)
           /\ Held(Rest, scopes, calls, Jumps)
           /\ kind \in Jumping => Held(Rest, scopes, calls, {})
<1>1. Held(frames, scopes, calls, Jumps) /\ frames # <<>> /\ Head(frames)[1] = kind
  BY DEF IInv, Runs, Top
<1>2. Held(Rest, scopes, calls, IF kind \in Jumping THEN {} ELSE Jumps)
  BY <1>1, HeldTail DEF Rest
<1>3. Held(Rest, scopes, calls, Jumps)
  BY <1>2, HeldMore
<1>4. Top \in Frames /\ Rest \in Seq(Frames)
  BY <1>1 DEF Held, Top, Rest
<1>5. QED
  BY <1>1, <1>2, <1>3, <1>4 DEF Top

LEMMA HeldInner ==
    ASSUME NEW fs, NEW c, NEW other, Held(fs, scopes, c, other)
    PROVE  /\ Held(<<Leaving>> \o fs, Enter({}), c, other)
           /\ Held(<<Leaving>> \o fs, Enter({"Break"}), c, other \cup {"break"})
           /\ Held(<<Leaving>> \o fs, Enter({"Break", "Continue"}), c, Jumps)
<1>1. /\ {e \in Jumps : FlagOf(e) \in {}} = {}
      /\ {e \in Jumps : FlagOf(e) \in {"Break"}} = {"break"}
      /\ {e \in Jumps : FlagOf(e) \in {"Break", "Continue"}} = Jumps
  BY DEF Jumps, FlagOf
<1>2. \A flags : Held(<<Leaving>> \o fs, Enter(flags), c, other \cup {e \in Jumps : FlagOf(e) \in flags})
  BY HeldEnter DEF Leaving, Enter, Here
<1>3. other \subseteq Jumps
  BY DEF Held
<1>4. Held(<<Leaving>> \o fs, Enter({}), c, other \cup {e \in Jumps : FlagOf(e) \in {}})
  BY <1>2
<1>5. Held(<<Leaving>> \o fs, Enter({"Break"}), c, other \cup {e \in Jumps : FlagOf(e) \in {"Break"}})
  BY <1>2
<1>6. Held(<<Leaving>> \o fs, Enter({"Break", "Continue"}), c, other \cup {e \in Jumps : FlagOf(e) \in {"Break", "Continue"}})
  BY <1>2
<1>7. other \cup {} = other /\ other \cup Jumps = Jumps
  BY <1>3
<1>8. QED
  BY <1>1, <1>4, <1>5, <1>6, <1>7

(* Statements in order, where what follows them is held.                   *)
LEMMA HeldBlock ==
    ASSUME NEW fs, NEW ss, NEW c, Held(fs, ss, c, {}),
           NEW st \in Seq(Frames), \A i \in 1 .. Len(st) : st[i] \in Statements
    PROVE  Held(st \o fs, ss, c, {})
<1>1. \A i \in 1 .. Len(st) : st[i][1] \notin Leaves \cup {"fun"}
  BY StatementParts
<1>2. QED
  BY <1>1, HeldStmts

LEMMA HeldOne ==
    ASSUME NEW fs, NEW ss, NEW c, Held(fs, ss, c, {}), NEW s \in Statements
    PROVE  Held(<<s>> \o fs, ss, c, {})
<1>1. s \in Frames /\ s[1] \notin Leaves \cup {"fun"}
  BY StatementParts
<1>2. QED
  BY <1>1, HeldPush

-----------------------------------------------------------------------------
(* Steps                                                                   *)

LEMMA MadeFrames ==
    /\ \A s \in Loops, n \in Nat : <<"turn", s, n>> \in Frames
    /\ \A s \in Loops : <<"again", s>> \in Frames
    /\ \A cs \in Seq(WhichCases(Statements)) : <<"cases", cs>> \in Frames
    /\ <<"try", {"break"}>> \in Frames /\ <<"try", {"break", "continue"}>> \in Frames
<1>1. \A s \in Loops, n \in Nat : <<"turn", s, n>> \in Frames
  BY DEF Frames
<1>2. \A s \in Loops : <<"again", s>> \in Frames
  BY DEF Frames
<1>3. \A cs \in Seq(WhichCases(Statements)) : <<"cases", cs>> \in Frames
  BY DEF Frames
<1>4. <<"try", {"break"}>> \in Frames /\ <<"try", {"break", "continue"}>> \in Frames
  <2>1. \A e \in SUBSET Jumps : <<"try", e>> \in {"try"} \X (SUBSET Jumps)
    OBVIOUS
  <2>2. \A e \in SUBSET Jumps : <<"try", e>> \in Frames
    BY <2>1 DEF Frames
  <2>3. QED
    BY <2>2 DEF Jumps
<1>5. QED
  BY <1>1, <1>2, <1>3, <1>4

LEMMA LeavingIsFrame == Leaving \in Frames /\ <<"leave">> = Leaving
BY DEF Frames, Leaving

LEMMA VarDefHolds ==
    ASSUME IInv, VarDef
    PROVE  Held(frames, scopes, calls, Jumps)'
<1>1. Held(Rest, scopes, calls, Jumps) /\ Rest \in Seq(Frames)
  BY HeldRest DEF VarDef, Leaves
<1>2. frames' = Rest /\ calls' = calls
  BY <1>1, ConcatEmptySeq DEF VarDef, Continue, Quiet
<1>3. PICK vs : scopes' = [scopes EXCEPT ![Len(scopes)].vars = vs]
  <2>1. scopes' = [scopes EXCEPT ![Here].vars = @ @@ Top[2] :> <<count + 1, 0>>]
    BY DEF VarDef
  <2>2. scopes' = [scopes EXCEPT ![Len(scopes)].vars = scopes[Len(scopes)].vars @@ (Top[2] :> <<count + 1, 0>>)]
    BY <2>1 DEF Here
  <2>3. QED
    BY <2>2
<1>4. QED
  BY <1>1, <1>2, <1>3, HeldDefine

LEMMA BlockHolds ==
    ASSUME IInv, Block
    PROVE  Held(frames, scopes, calls, Jumps)'
<1>1. Held(Rest, scopes, calls, {}) /\ Rest \in Seq(Frames) /\ Top \in Frames /\ Top[1] = "block"
  BY HeldRest DEF Block, Leaves, Jumping
<1>2. Top[2] \in Seq(Frames) /\ \A i \in 1 .. Len(Top[2]) : Top[2][i] \in Statements
  BY <1>1, FrameParts, StatementParts
<1>3. frames' = Top[2] \o (<<Leaving>> \o Rest) /\ calls' = calls /\ scopes' = Enter({})
  <2>1. frames' = Append(Top[2], Leaving) \o Rest /\ calls' = calls /\ scopes' = Enter({})
    BY DEF Block, Continue, Quiet
  <2>2. Append(Top[2], Leaving) \o Rest = Top[2] \o (<<Leaving>> \o Rest)
    BY <1>1, <1>2, ConsLast, LeavingIsFrame
  <2>3. QED
    BY <2>1, <2>2
<1>4. Held(<<Leaving>> \o Rest, Enter({}), calls, {})
  BY <1>1, HeldInner
<1>5. Held(frames', scopes', calls', {})
  BY <1>2, <1>3, <1>4, HeldBlock
<1>6. QED
  BY <1>5, HeldMore

LEMMA CrashHolds ==
    ASSUME IInv, NEW how, Crash(how)
    PROVE  Held(frames, scopes, calls, Jumps)'
BY DEF IInv, Crash

LEMMA IfHolds ==
    ASSUME IInv, If
    PROVE  Held(frames, scopes, calls, Jumps)'
<1> DEFINE c == Top[2]
<1>1. CASE Fails(c)
  <2>1. Crash("crash")
    BY <1>1 DEF If
  <2>2. QED
    BY <2>1, CrashHolds
<1>2. CASE ~Fails(c)
  <2>1. Held(Rest, scopes, calls, {}) /\ Rest \in Seq(Frames) /\ Top \in Frames /\ Top[1] = "if"
    BY HeldRest DEF If, Leaves, Jumping
  <2>2. /\ Top[3] \in Statements /\ Top[3] \in Frames
        /\ Top[4] \in Seq(Frames) /\ \A i \in 1 .. Len(Top[4]) : Top[4][i] \in Statements
    BY <2>1, FrameParts, StatementParts
  <2>3. PICK b \in Outcomes(c) :
          /\ scopes' = Bound(c, b, Enter({})) /\ calls' = calls
          /\ frames' = ((IF b THEN <<Top[3]>> \o Unbound(c, b) ELSE Top[4]) \o <<Leaving>>) \o Rest
    BY <1>2 DEF If, Continue, Quiet
  <2>4. b \in BOOLEAN
    BY DEF Outcomes
  <2> DEFINE r1 == <<Leaving>> \o Rest
             u == Unbound(c, b)
  <2> HIDE DEF c
  <2>5. Held(r1, Enter({}), calls, {}) /\ r1 \in Seq(Frames)
    BY <2>1, HeldInner DEF Held
  <2>6. Held(u \o r1, Bound(c, b, Enter({})), calls, {}) /\ u \o r1 \in Seq(Frames)
    <3> HIDE DEF r1, u
    <3>1. Held(u \o r1, Bound(c, b, Enter({})), calls, {})
      BY <2>4, <2>5, HeldBound DEF u
    <3>2. QED
      BY <3>1 DEF Held
  <2>7. u \in Seq(Frames)
    BY LeavingIsFrame DEF Unbound
  <2>8. CASE b
    <3>1. <<Top[3]>> \in Seq(Frames) /\ <<Leaving>> \in Seq(Frames) /\ <<Top[3]>> \o u \in Seq(Frames)
      BY <2>2, <2>7, LeavingIsFrame
    <3>2. frames' = ((<<Top[3]>> \o u) \o <<Leaving>>) \o Rest
      BY <2>3, <2>8
    <3> HIDE DEF u
    <3>3. ((<<Top[3]>> \o u) \o <<Leaving>>) \o Rest = (<<Top[3]>> \o u) \o r1
      BY <2>1, <3>1, ConcatAssociative
    <3> HIDE DEF r1
    <3>4. (<<Top[3]>> \o u) \o r1 = <<Top[3]>> \o (u \o r1)
      BY <2>5, <2>7, <3>1, ConcatAssociative
    <3>5. Held(<<Top[3]>> \o (u \o r1), Bound(c, b, Enter({})), calls, {})
      BY <2>2, <2>6, HeldOne
    <3>6. Held(frames', scopes', calls', {})
      BY <2>3, <3>2, <3>3, <3>4, <3>5
    <3>7. QED
      BY <3>6, HeldMore
  <2>9. CASE ~b
    <3>1. <<Leaving>> \in Seq(Frames)
      BY LeavingIsFrame
    <3>2. frames' = (Top[4] \o <<Leaving>>) \o Rest
      BY <2>3, <2>9
    <3>3. (Top[4] \o <<Leaving>>) \o Rest = Top[4] \o r1
      BY <2>1, <2>2, LeavingIsFrame, ConsLast
    <3>4. Bound(c, b, Enter({})) = Enter({})
      BY <2>9 DEF Bound, Matches
    <3> HIDE DEF r1
    <3>5. Held(Top[4] \o r1, Enter({}), calls, {})
      BY <2>2, <2>5, HeldBlock
    <3>6. Held(frames', scopes', calls', {})
      BY <2>3, <3>2, <3>3, <3>4, <3>5
    <3>7. QED
      BY <3>6, HeldMore
  <2>10. QED
    BY <2>8, <2>9
<1>3. QED
  BY <1>1, <1>2

LEMMA LoopHolds ==
    ASSUME IInv, Loop
    PROVE  Held(frames, scopes, calls, Jumps)'
<1>1. PICK kind \in {"while", "for"} : Runs(kind)
  BY DEF Loop
<1>2. Held(Rest, scopes, calls, Jumps) /\ Rest \in Seq(Frames) /\ Top \in Frames /\ Top[1] = kind
  BY <1>1, HeldRest DEF Leaves
<1>3. Top \in Loops
  BY <1>1, <1>2, FrameParts, StatementParts
<1> DEFINE turn == <<"turn", Top, 0>>
           var == <<"var", "i">>
           r1 == <<Leaving>> \o Rest
<1>4. turn \in Frames /\ turn[1] = "turn"
  BY <1>3, MadeFrames
<1>5. var \in Frames /\ var[1] = "var"
  BY StatementsAssumption, StatementParts
<1> HIDE DEF turn, var
<1>6. Held(r1, scopes', calls, Jumps) /\ r1 \in Seq(Frames)
  BY <1>2, HeldInner DEF Loop, Held
<1> HIDE DEF r1
<1>7. Held(<<turn>> \o r1, scopes', calls, Jumps)
  BY <1>4, <1>6, HeldPush DEF Leaves, Jumping
<1>8. <<turn, Leaving>> \o Rest = <<turn>> \o r1
  BY <1>2, <1>4, LeavingIsFrame, ConsTwo DEF r1
<1>9. calls' = calls
  BY DEF Loop
<1>10. CASE kind = "while"
  <2>1. frames' = (<<>> \o <<turn, Leaving>>) \o Rest
    BY <1>2, <1>10 DEF Loop, Continue, turn
  <2>2. <<>> \o <<turn, Leaving>> = <<turn, Leaving>>
    BY <1>4, LeavingIsFrame, ConcatEmptySeq
  <2>3. QED
    BY <1>7, <1>8, <1>9, <2>1, <2>2
<1>11. CASE kind = "for"
  <2>1. frames' = (<<var>> \o <<turn, Leaving>>) \o Rest
    BY <1>2, <1>11 DEF Loop, Continue, turn, var
  <2>2. <<var>> \in Seq(Frames) /\ <<turn, Leaving>> \in Seq(Frames)
    BY <1>4, <1>5, LeavingIsFrame
  <2>3. frames' = <<var>> \o (<<turn>> \o r1)
    <3>1. (<<var>> \o <<turn, Leaving>>) \o Rest = <<var>> \o (<<turn, Leaving>> \o Rest)
      BY <1>2, <2>2, ConcatAssociative
    <3>2. QED
      BY <1>8, <2>1, <3>1
  <2>4. Held(<<var>> \o (<<turn>> \o r1), scopes', calls, Jumps)
    BY <1>5, <1>7, HeldPush DEF Leaves, Jumping
  <2>5. QED
    BY <1>9, <2>3, <2>4
<1>12. QED
  BY <1>1, <1>10, <1>11

LEMMA WhichHolds ==
    ASSUME IInv, Which
    PROVE  Held(frames, scopes, calls, Jumps)'
<1>1. Held(Rest, scopes, calls, {}) /\ Rest \in Seq(Frames) /\ Top \in Frames /\ Top[1] = "which"
  BY HeldRest DEF Which, Leaves, Jumping
<1>2. Top[2] \in Seq(WhichCases(Statements))
  BY <1>1, FrameParts, StatementParts
<1> DEFINE cases == <<"cases", Top[2]>>
           try == <<"try", {"break"}>>
           r1 == <<Leaving>> \o Rest
<1>3. cases \in Frames /\ cases[1] = "cases" /\ try \in Frames
  BY <1>2, MadeFrames
<1>4. Held(r1, scopes', calls, {"break"}) /\ r1 \in Seq(Frames)
  BY <1>1, HeldInner DEF Which, Held
<1> HIDE DEF cases, r1
<1>5. Held(<<try>> \o r1, scopes', calls, {"break"} \ {"break"})
  BY <1>4, HeldTry DEF Jumps
<1> HIDE DEF try
<1>6. Held(<<try>> \o r1, scopes', calls, {})
  BY <1>5
<1>7. Held(<<cases>> \o (<<try>> \o r1), scopes', calls, {})
  BY <1>3, <1>6, HeldPush DEF Leaves
<1>8. frames' = <<cases, try, Leaving>> \o Rest /\ calls' = calls
  BY DEF Which, Continue, Quiet, cases, try
<1>9. <<cases, try, Leaving>> \o Rest = <<cases>> \o (<<try>> \o r1)
  <2> DEFINE left == Leaving
             rest == Rest
  <2>1. left \in Frames /\ rest \in Seq(Frames)
    BY <1>1, LeavingIsFrame
  <2> HIDE DEF left, rest
  <2>2. <<cases, try, left>> \o rest = <<cases>> \o (<<try>> \o (<<left>> \o rest))
    BY <1>3, <2>1, ConsThree
  <2>3. QED
    BY <2>2 DEF left, rest, r1
<1>10. Held(frames', scopes', calls', {})
  BY <1>7, <1>8, <1>9
<1>11. QED
  BY <1>10, HeldMore

LEMMA AgainHolds ==
    ASSUME IInv, Again
    PROVE  Held(frames, scopes, calls, Jumps)'
<1>1. Held(Rest, scopes, calls, Jumps) /\ Rest \in Seq(Frames)
  BY HeldRest DEF Again, Leaves
<1> DEFINE use == <<"use", "i">>
<1>2. use \in Frames /\ use[1] = "use"
  BY StatementsAssumption, StatementParts
<1> HIDE DEF use
<1>3. Held(<<use>> \o Rest, scopes, calls, Jumps)
  BY <1>1, <1>2, HeldPush DEF Leaves, Jumping
<1>4. <<>> \o Rest = Rest
  BY <1>1, ConcatEmptySeq
<1>5. calls' = calls /\ scopes' = scopes /\ frames' \in {<<use>> \o Rest, <<>> \o Rest}
  BY DEF Again, Continue, Quiet, use
<1>6. QED
  BY <1>1, <1>3, <1>4, <1>5

LEMMA TurnHolds ==
    ASSUME IInv, Turn
    PROVE  Held(frames, scopes, calls, Jumps)'
<1> DEFINE s == Top[2]
           c == s[2]
<1>1. /\ Held(Rest, scopes, calls, Jumps) /\ Rest \in Seq(Frames)
      /\ Top \in Frames /\ Top[1] = "turn"
  BY HeldRest DEF Turn, Leaves
<1>2. s \in Loops /\ s[3] \in Statements /\ s[3] \in Frames /\ Top[3] \in Nat
  BY <1>1, FrameParts, StatementParts DEF Loops
<1>3. CASE Top[3] = MaxLoop
  BY <1>1, <1>3 DEF Turn
<1>4. CASE Top[3] # MaxLoop /\ Fails(c)
  <2>1. Crash("crash")
    BY <1>4 DEF Turn
  <2>2. QED
    BY <2>1, CrashHolds
<1>5. CASE Top[3] # MaxLoop /\ ~Fails(c)
  <2> DEFINE try == <<"try", {"break", "continue"}>>
             again == <<"again", s>>
             turn == <<"turn", s, Top[3] + 1>>
             body == <<s[3], try>>
             after == <<again, Leaving, turn>>
  <2>1. PICK b \in Outcomes(c) :
          /\ scopes' = Bound(c, b, Enter({})) /\ calls' = calls
          /\ frames' = (IF b THEN body \o Unbound(c, b) \o after ELSE <<Leaving>>) \o Rest
    BY <1>5 DEF Turn, Continue, Quiet
  <2>2. b \in BOOLEAN
    BY DEF Outcomes
  <2>3. /\ try \in Frames /\ turn \in Frames /\ again \in Frames /\ Leaving \in Frames
        /\ turn[1] = "turn" /\ again[1] = "again"
    BY <1>2, MadeFrames, LeavingIsFrame
  <2> DEFINE u == Unbound(c, b)
  <2>4. u \in Seq(Frames)
    BY LeavingIsFrame DEF Unbound
  <2> HIDE DEF try, again, turn, c, s, u
  <2>5. CASE b
    <3> DEFINE r1 == <<turn>> \o Rest
               r2 == <<Leaving>> \o r1
               r3 == <<again>> \o r2
               r4 == u \o r3
               r5 == <<try>> \o r4
    <3>1. Held(r1, scopes, calls, Jumps)
      BY <1>1, <2>3, HeldPush DEF Leaves, Jumping
    <3> HIDE DEF r1
    <3>2. Held(r2, Enter({}), calls, Jumps)
      BY <3>1, HeldInner
    <3> HIDE DEF r2
    <3>a. again \in Frames /\ again[1] \notin Leaves \cup {"fun"} /\ again[1] \notin Jumping
      BY <2>3 DEF Leaves, Jumping
    <3>b. Held(r3, Enter({}), calls, Jumps)
      BY <3>2, <3>a, HeldPush
    <3> HIDE DEF r3
    <3>3. Held(r3, Enter({}), calls, Jumps) /\ r1 \in Seq(Frames) /\ r2 \in Seq(Frames) /\ r3 \in Seq(Frames)
      BY <3>1, <3>2, <3>b DEF Held
    <3> USE DEF r3
    <3>4. Held(r4, Bound(c, b, Enter({})), calls, Jumps) /\ r4 \in Seq(Frames)
      <4> HIDE DEF r3
      <4>1. Held(r4, Bound(c, b, Enter({})), calls, Jumps)
        BY <2>2, <3>3, HeldBound DEF u
      <4> HIDE DEF r4
      <4>2. QED
        BY <4>1 DEF Held
    <3>5. Held(r5, scopes', calls, Jumps \ {"break", "continue"})
      <4>1. {"break", "continue"} \in SUBSET Jumps
        BY DEF Jumps
      <4> HIDE DEF r4
      <4>2. QED
        BY <2>1, <3>4, <4>1, HeldTry DEF try
    <3>6. Held(r5, scopes', calls, {}) /\ r5 \in Seq(Frames)
      BY <3>5 DEF Jumps, Held
    <3> HIDE DEF r3, r4, r5
    <3>7. Held(<<s[3]>> \o r5, scopes', calls, {})
      BY <1>2, <3>6, HeldOne
    <3>8. frames' = <<s[3]>> \o r5
      <4>1. body \in Seq(Frames) /\ after \in Seq(Frames) /\ body \o u \in Seq(Frames)
        BY <1>2, <2>3, <2>4
      <4>2. after \o Rest = r3
        <5> DEFINE left == Leaving
                   rest == Rest
        <5>1. left \in Frames /\ rest \in Seq(Frames)
          BY <1>1, <2>3
        <5> HIDE DEF left, rest
        <5>2. <<again, left, turn>> \o rest = <<again>> \o (<<left>> \o (<<turn>> \o rest))
          <6>1. again \in Frames /\ turn \in Frames
            BY <2>3
          <6> HIDE DEF after, body, r3
          <6>2. QED
            BY <5>1, <6>1, ConsThree
        <5>3. QED
          BY <5>2 DEF left, rest, r1, r2, r3
      <4>3. frames' = ((body \o u) \o after) \o Rest
        BY <2>1, <2>5 DEF u
      <4> DEFINE x == body \o u
      <4>4. (x \o after) \o Rest = x \o (after \o Rest)
        <5> HIDE DEF after, x
        <5>1. x \in Seq(Frames)
          BY <4>1 DEF x
        <5>2. QED
          BY <1>1, <4>1, <5>1, ConcatAssociative
      <4>5. (body \o u) \o r3 = body \o (u \o r3)
        <5> HIDE DEF body
        <5>1. body \in Seq(Frames) /\ u \in Seq(Frames) /\ r3 \in Seq(Frames)
          BY <2>4, <3>3, <4>1
        <5>2. QED
          BY <5>1, ConcatAssociative
      <4>6. body \o r4 = <<s[3]>> \o (<<try>> \o r4)
        BY <1>2, <2>3, <3>4, ConsTwo
      <4> HIDE DEF body, after
      <4>7. QED
        BY <4>2, <4>3, <4>4, <4>5, <4>6 DEF r4, r5
    <3>9. Held(frames', scopes', calls', {})
      BY <2>1, <3>7, <3>8
    <3>10. QED
      BY <3>9, HeldMore
  <2>6. CASE ~b
    <3>1. frames' = <<Leaving>> \o Rest
      BY <2>1, <2>6
    <3>2. Bound(c, b, Enter({})) = Enter({})
      BY <2>6 DEF Bound, Matches
    <3>3. QED
      BY <1>1, <2>1, <3>1, <3>2, HeldInner
  <2>7. QED
    BY <2>5, <2>6
<1>6. QED
  BY <1>3, <1>4, <1>5

(* What a case leaves for the next condition is a which again.             *)
LEMMA CasesLeft ==
    ASSUME NEW cs \in Seq(WhichCases(Statements)), cs # <<>>
    PROVE  /\ Head(cs).branch \in Statements
           /\ Tail(cs) \in Seq(WhichCases(Statements))
           /\ Len(Head(cs).conds) > 1 =>
                <<[Head(cs) EXCEPT !.conds = Tail(@)]>> \o Tail(cs) \in Seq(WhichCases(Statements))
<1> DEFINE first == Head(cs)
           rest == Tail(cs)
<1>1. first \in WhichCases(Statements) /\ rest \in Seq(WhichCases(Statements))
  OBVIOUS
<1> HIDE DEF first, rest
<1>2. first.branch \in Statements /\ first.conds \in Seq(Conditions)
  BY <1>1 DEF WhichCases
<1>3. ASSUME Len(first.conds) > 1
      PROVE  <<[first EXCEPT !.conds = Tail(@)]>> \o rest \in Seq(WhichCases(Statements))
  <2> DEFINE t == Tail(first.conds)
             new == [first EXCEPT !.conds = Tail(@)]
  <2> DEFINE s == first.conds
  <2>1. t \in Seq(Conditions) \ {<<>>}
    <3>1. s \in Seq(Conditions) /\ Len(s) > 1
      BY <1>2, <1>3
    <3> HIDE DEF s
    <3>2. Tail(s) \in Seq(Conditions) /\ Len(Tail(s)) = Len(s) - 1
      BY <3>1
    <3>3. Tail(s) # <<>>
      <4>1. Len(Tail(s)) # 0 /\ Len(<<>>) = 0
        BY <3>1, <3>2, EmptySeq
      <4>2. QED
        BY <4>1
    <3>4. QED
      BY <3>2, <3>3 DEF s
  <2>2. new = [conds |-> t, branch |-> first.branch]
    <3>1. first = [conds |-> s, branch |-> first.branch]
      BY <1>1 DEF WhichCases
    <3> HIDE DEF s
    <3> DEFINE made(x, y) == [conds |-> x, branch |-> y]
    <3>4. \A x, y, z : [made(x, y) EXCEPT !.conds = z] = made(z, y)
      OBVIOUS
    <3>5. first = made(s, first.branch)
      BY <3>1
    <3> HIDE DEF made
    <3>6. [made(s, first.branch) EXCEPT !.conds = Tail(s)] = made(Tail(s), first.branch)
      BY <3>4
    <3>2. [first EXCEPT !.conds = Tail(s)] = made(Tail(s), first.branch)
      BY <3>5, <3>6
    <3>3. QED
      BY <3>2 DEF s, made
  <2> HIDE DEF t, s
  <2>3. new \in WhichCases(Statements)
    BY <1>2, <2>1, <2>2 DEF WhichCases
  <2> HIDE DEF new
  <2>4. <<new>> \o rest \in Seq(WhichCases(Statements))
    BY <1>1, <2>3
  <2>5. QED
    BY <2>4 DEF new
<1>4. QED
  BY <1>1, <1>2, <1>3 DEF first, rest

LEMMA CaseHolds ==
    ASSUME IInv, Case
    PROVE  Held(frames, scopes, calls, Jumps)'
<1> DEFINE cs == Top[2]
           first == Head(cs)
           default == \E i \in DOMAIN first.conds : first.conds[i] = <<"none">>
           c == IF default THEN <<"none">> ELSE Head(first.conds)
           left == IF Len(first.conds) > 1
                   THEN <<[first EXCEPT !.conds = Tail(@)]>> \o Tail(cs) ELSE Tail(cs)
<1>1. /\ Held(Rest, scopes, calls, {}) /\ Held(Rest, scopes, calls, Jumps) /\ Rest \in Seq(Frames)
      /\ Top \in Frames /\ Top[1] = "cases"
  BY HeldRest DEF Case, Leaves, Jumping
<1>2. cs \in Seq(WhichCases(Statements))
  BY <1>1, FrameParts
<1>3. CASE cs = <<>>
  <2>1. frames' = <<>> \o Rest /\ scopes' = scopes /\ calls' = calls
    BY <1>3 DEF Case, Continue, Quiet
  <2>2. <<>> \o Rest = Rest
    BY <1>1, ConcatEmptySeq
  <2>3. QED
    BY <1>1, <2>1, <2>2
<1>4. CASE cs # <<>> /\ Fails(c)
  <2>1. Crash("crash") \/ (frames' = Rest /\ scopes' = scopes /\ calls' = calls)
    BY <1>4 DEF Case
  <2>2. QED
    BY <1>1, <2>1, CrashHolds
<1>5. CASE cs # <<>> /\ ~Fails(c)
  <2>1. PICK b \in Outcomes(c) :
          /\ scopes' = IF Matches(c, b) THEN Bound(c, b, scopes)
                       ELSE IF b THEN Enter({}) ELSE scopes
          /\ frames' = (IF b THEN <<first.branch, Leaving>> ELSE << <<"cases", left>> >>) \o Rest
          /\ calls' = calls
    BY <1>5 DEF Case, Continue, Quiet
  <2>2. b \in BOOLEAN
    BY DEF Outcomes
  <2>3. first.branch \in Statements /\ first.branch \in Frames /\ left \in Seq(WhichCases(Statements))
    BY <1>2, <1>5, CasesLeft, StatementParts
  <2> DEFINE branch == first.branch
             cases == <<"cases", left>>
             r1 == <<Leaving>> \o Rest
  <2>4. cases \in Frames /\ cases[1] = "cases" /\ branch \in Statements /\ branch \in Frames
    BY <2>3, MadeFrames
  <2> HIDE DEF branch, cases, c, first, cs
  <2>5. CASE b
    <3>1. Held(r1, scopes', calls, {})
      <4>1. CASE Matches(c, b)
        <5>1. Unbound(c, b) = <<Leaving>>
          BY <4>1 DEF Unbound
        <5>2. Held(Unbound(c, b) \o Rest, Bound(c, b, scopes), calls, {})
          BY <1>1, <2>2, HeldBound
        <5>3. QED
          BY <2>1, <4>1, <5>1, <5>2
      <4>2. CASE ~Matches(c, b)
        BY <1>1, <2>1, <2>5, <4>2, HeldInner
      <4>3. QED
        BY <4>1, <4>2
    <3>2. frames' = <<branch>> \o r1
      <4>1. frames' = <<branch, Leaving>> \o Rest
        BY <2>1, <2>5 DEF branch
      <4>2. QED
        BY <1>1, <2>4, <4>1, LeavingIsFrame, ConsTwo
    <3> HIDE DEF r1
    <3>3. Held(<<branch>> \o r1, scopes', calls, {})
      BY <2>4, <3>1, HeldOne
    <3>4. Held(frames', scopes', calls', {})
      BY <2>1, <3>2, <3>3
    <3>5. QED
      BY <3>4, HeldMore
  <2>6. CASE ~b
    <3>1. frames' = <<cases>> \o Rest
      BY <2>1, <2>6 DEF cases
    <3>2. scopes' = scopes
      BY <2>1, <2>6 DEF Matches
    <3>3. Held(<<cases>> \o Rest, scopes, calls, {})
      BY <1>1, <2>4, HeldPush DEF Leaves
    <3>4. Held(frames', scopes', calls', {})
      BY <2>1, <3>1, <3>2, <3>3
    <3>5. QED
      BY <3>4, HeldMore
  <2>7. QED
    BY <2>5, <2>6
<1>6. QED
  BY <1>3, <1>4, <1>5

LEMMA CallHolds ==
    ASSUME IInv, Call
    PROVE  Held(frames, scopes, calls, Jumps)'
<1> DEFINE literal == Top[2] = ""
           arg == IF literal THEN <<count + 1, 0>> ELSE Value(Top[2])
<1>1. Held(Rest, scopes, calls, Jumps) /\ Rest \in Seq(Frames)
  BY HeldRest DEF Call, Leaves
<1>2. CASE arg = NoValue
  <2>1. frames' = <<>> \o Rest /\ scopes' = scopes /\ calls' = calls
    BY <1>2 DEF Call, Continue
  <2>2. <<>> \o Rest = Rest
    BY <1>1, ConcatEmptySeq
  <2>3. QED
    BY <1>1, <2>1, <2>2
<1>3. CASE arg # NoValue /\ calls = MaxCalls
  <2>1. Crash("deep")
    BY <1>3 DEF Call
  <2>2. QED
    BY <2>1, CrashHolds
<1>4. CASE arg # NoValue /\ calls # MaxCalls
  <2> DEFINE fun == <<"fun">>
             leavecall == <<"leavecall">>
             log1 == <<"log">>
             body == prog.body
             r1 == <<log1>> \o Rest
             r2 == <<leavecall>> \o r1
             r3 == <<fun>> \o r2
             s1 == Append(scopes, Scope({"Fun"}, 0, "p" :> arg))
  <2>1. calls' = calls + 1 /\ scopes' = s1 /\ frames' = (body \o <<fun, leavecall, log1>>) \o Rest
    BY <1>4 DEF Call, Continue, ParentOfFun
  <2>2. body \in Seq(Frames) /\ \A i \in 1 .. Len(body) : body[i] \in Statements
    <3>1. body \in Seq(Statements)
      BY ProgramsAssumption DEF IInv
    <3>2. Statements \subseteq Frames
      BY StatementParts
    <3>3. QED
      BY <3>1, <3>2
  <2>3. fun \in Frames /\ leavecall \in Frames /\ log1 \in Frames /\ log1[1] = "log"
    BY DEF Frames
  <2>4. Held(r1, scopes, calls, Jumps)
    <3> HIDE DEF log1
    <3>1. QED
      BY <1>1, <2>3, HeldPush DEF Leaves, Jumping
  <2> HIDE DEF log1, r1, arg
  <2>5. Held(r3, s1, calls + 1, {}) /\ r3 \in Seq(Frames)
    <3>1. Held(r3, s1, calls + 1, {})
      BY <2>4, HeldCall
    <3> HIDE DEF r3
    <3>2. QED
      BY <3>1 DEF Held
  <2> HIDE DEF fun, leavecall, s1, body
  <2>6. <<fun, leavecall, log1>> \o Rest = r3
    BY <1>1, <2>3, ConsThree DEF r1
  <2>7. frames' = body \o r3
    <3>1. <<fun, leavecall, log1>> \in Seq(Frames)
      BY <2>3
    <3> DEFINE x == <<fun, leavecall, log1>>
    <3> HIDE DEF x
    <3>2. (body \o x) \o Rest = body \o (x \o Rest)
      BY <1>1, <2>2, <3>1, ConcatAssociative DEF x
    <3>3. QED
      BY <2>1, <2>6, <3>2 DEF x
  <2> HIDE DEF r3
  <2>8. Held(body \o r3, s1, calls + 1, {})
    BY <2>2, <2>5, HeldBlock
  <2>9. Held(frames', scopes', calls', {})
    BY <2>1, <2>7, <2>8
  <2>10. QED
    BY <2>9, HeldMore
<1>5. QED
  BY <1>2, <1>3, <1>4

(* A step that takes the frame on top and leaves scopes and calls alone.   *)
LEMMA PopHolds ==
    ASSUME IInv, NEW kind, Runs(kind), kind \notin Leaves,
           frames' \in {Rest, <<>> \o Rest}, scopes' = scopes, calls' = calls
    PROVE  Held(frames, scopes, calls, Jumps)'
<1>1. Held(Rest, scopes, calls, Jumps) /\ Rest \in Seq(Frames)
  BY HeldRest
<1>2. <<>> \o Rest = Rest
  BY <1>1, ConcatEmptySeq
<1>3. QED
  BY <1>1, <1>2

LEMMA ReturnHolds ==
    ASSUME IInv, Return
    PROVE  Held(frames, scopes, calls, Jumps)'
<1>1. Runs("return") /\ "return" \notin Leaves
  BY DEF Return, Leaves
<1>2. (\E how : Crash(how)) \/ (frames' = Rest /\ scopes' = scopes /\ calls' = calls)
  BY DEF Return
<1>3. QED
  BY <1>1, <1>2, CrashHolds, PopHolds

LEMMA LeaveHolds ==
    ASSUME IInv, LeaveScope
    PROVE  Held(frames, scopes, calls, Jumps)'
<1>1. Held(frames, scopes, calls, Jumps) /\ frames # <<>> /\ Head(frames)[1] \in Leaves
  BY DEF IInv, LeaveScope, Leaves, Top
<1>2. /\ frames' = Tail(frames) /\ scopes' = SubSeq(scopes, 1, Len(scopes) - 1)
      /\ calls' = IF Head(frames)[1] = "leavecall" THEN calls - 1 ELSE calls
  BY DEF LeaveScope, Leave, Here, Rest, Top
<1>3. QED
  BY <1>1, <1>2, HeldLeave

LEMMA ThrownHolds ==
    ASSUME IInv, Catch \/ Unwind
    PROVE  Held(frames, scopes, calls, Jumps)'
<1>1. Held(frames, scopes, calls, Jumps) /\ frames # <<>> /\ Head(frames)[1] \notin Leaves
  BY DEF IInv, Catch, Unwind, Leaves, Top
<1>2. frames' = Tail(frames) /\ scopes' = scopes /\ calls' = calls
  BY DEF Catch, Unwind, Rest
<1>3. Held(Tail(frames), scopes, calls, Jumps)
  <2>1. Held(Tail(frames), scopes, calls, IF Head(frames)[1] \in Jumping THEN {} ELSE Jumps)
    BY <1>1, HeldTail
  <2>2. QED
    BY <2>1, HeldMore
<1>4. QED
  BY <1>2, <1>3

LEMMA NextHolds ==
    ASSUME IInv, Next
    PROVE  Held(frames, scopes, calls, Jumps)'
<1>1. CASE VarDef \/ Block \/ If \/ Loop \/ Turn
  BY <1>1, VarDefHolds, BlockHolds, IfHolds, LoopHolds, TurnHolds
<1>2. CASE Again \/ Which \/ Case \/ Call \/ Return
  BY <1>2, AgainHolds, WhichHolds, CaseHolds, CallHolds, ReturnHolds
<1>3. CASE LeaveScope \/ Catch \/ Unwind
  BY <1>3, LeaveHolds, ThrownHolds
<1>4. CASE ExprStmt
  <2>1. Runs("use") /\ frames' = <<>> \o Rest /\ scopes' = scopes /\ calls' = calls
    BY <1>4 DEF ExprStmt, Continue
  <2>2. QED
    BY <2>1, PopHolds DEF Leaves
<1>5. CASE EndOfLoop
  <2>1. Runs("turn") /\ frames' = <<>> \o Rest /\ scopes' = scopes /\ calls' = calls
    BY <1>5 DEF EndOfLoop, Continue, Quiet
  <2>2. QED
    BY <2>1, PopHolds DEF Leaves
<1>6. CASE Jump
  <2>1. /\ Runs("break") \/ Runs("continue")
        /\ frames' = Rest /\ scopes' = scopes /\ calls' = calls
    BY <1>6 DEF Jump
  <2>2. QED
    BY <2>1, PopHolds DEF Leaves
<1>7. CASE EndOfFun
  <2>1. Runs("fun") /\ frames' = <<>> \o Rest /\ scopes' = scopes /\ calls' = calls
    BY <1>7 DEF EndOfFun, Continue
  <2>2. QED
    BY <2>1, PopHolds DEF Leaves
<1>8. CASE LogResult
  <2>1. Runs("log") /\ frames' = <<>> \o Rest /\ scopes' = scopes /\ calls' = calls
    BY <1>8 DEF LogResult, Continue
  <2>2. QED
    BY <2>1, PopHolds DEF Leaves
<1>9. CASE EndOfTry
  <2>1. Runs("try") /\ frames' = <<>> \o Rest /\ scopes' = scopes /\ calls' = calls
    BY <1>9 DEF EndOfTry, Continue
  <2>2. QED
    BY <2>1, PopHolds DEF Leaves
<1>10. CASE Finish
  BY <1>10 DEF Finish, IInv
<1>11. QED
  BY <1>1, <1>2, <1>3, <1>4, <1>5, <1>6, <1>7, <1>8, <1>9, <1>10 DEF Next

(* A jump starts where the scope allows it, and so where it is caught.     *)
LEMMA JumpCaught ==
    ASSUME IInv, Jump, thrown' \in Jumps
    PROVE  Caught(frames, 0, thrown)'
<1>1. PICK e \in Jumps : Runs(e) /\ thrown' = e /\ In(FlagOf(e), Here) /\ frames' = Rest
  <2>1. PICK e \in Jumps : Runs(e)
    BY DEF Jump, Jumps
  <2>2. Top[1] = e
    BY <2>1 DEF Runs
  <2>3. thrown' = IF In(FlagOf(e), Here) THEN e ELSE ""
    BY <2>2 DEF Jump, FlagOf
  <2>4. QED
    BY <2>1, <2>3 DEF Jump, Jumps
<1>2. Held(Rest, scopes, calls, {})
  BY <1>1, HeldRest DEF Leaves, Jumping, Jumps
<1>3. PICK may : Allows(scopes, may) /\ \A x \in may[Len(may)] : Caught(Rest, 0, x)
  BY <1>2 DEF Held
<1>4. Here \in 1 .. Len(scopes) /\ Here = Len(may)
  BY <1>2, <1>3, HeldSome DEF Here, Allows
<1>5. e \in may[Here]
  BY <1>1, <1>3, <1>4, InIsAllowed
<1>6. QED
  BY <1>1, <1>3, <1>4, <1>5

LEMMA CaughtTail ==
    ASSUME NEW fs \in Seq(Frames), fs # <<>>, NEW e, Caught(fs, 0, e),
           ~(Head(fs)[1] = "try" /\ e \in Head(fs)[2])
    PROVE  Head(fs)[1] # "fun" /\ Caught(Tail(fs), 0, e)
<1> DEFINE ts == Tail(fs)
<1>1. PICK j \in 0 + 1 .. Len(fs) :
        fs[j][1] = "try" /\ e \in fs[j][2] /\ \A k \in 0 + 1 .. j - 1 : fs[k][1] # "fun"
  BY DEF Caught
<1>2. Head(fs) = fs[1] /\ Len(fs) \in Nat \ {0} /\ Len(ts) = Len(fs) - 1 /\ \A k \in 1 .. Len(ts) : ts[k] = fs[k + 1]
  OBVIOUS
<1>3. j # 1
  BY <1>1, <1>2
<1>4. fs[1][1] # "fun"
  BY <1>1, <1>3
<1> DEFINE m == j - 1
<1>5. m \in 0 + 1 .. Len(ts) /\ ts[m] = fs[j]
  BY <1>1, <1>2, <1>3
<1>6. \A k \in 0 + 1 .. m - 1 : ts[k][1] # "fun"
  BY <1>1, <1>2, <1>3
<1> HIDE DEF ts, m
<1>7. Caught(ts, 0, e)
  BY <1>1, <1>5, <1>6 DEF Caught
<1>8. QED
  BY <1>2, <1>4, <1>7 DEF ts

LEMMA NextCaught ==
    ASSUME IInv, Next, thrown' \in Jumps
    PROVE  Caught(frames, 0, thrown)'
<1>1. CASE Jump
  BY <1>1, JumpCaught
<1>2. CASE LeaveScope \/ Unwind
  <2>1. thrown' = thrown /\ frames' = Tail(frames) /\ frames # <<>> /\ frames \in Seq(Frames)
    BY <1>2 DEF LeaveScope, Unwind, Rest, IInv, Held
  <2>2. ~(Head(frames)[1] = "try" /\ thrown \in Head(frames)[2])
    BY <1>2 DEF LeaveScope, Unwind, Top
  <2>3. Caught(frames, 0, thrown)
    BY <2>1 DEF IInv
  <2>4. QED
    BY <2>1, <2>2, <2>3, CaughtTail
<1>3. CASE Finish
  BY <1>3 DEF Finish, IInv
<1>4. CASE \E how : Crash(how)
  BY <1>4 DEF Crash, IInv
<1>5. CASE ~Jump /\ ~LeaveScope /\ ~Unwind /\ ~Finish /\ ~\E how : Crash(how)
  <2>1. thrown' \in {"", "return", "error"}
    BY <1>5 DEF Next, VarDef, ExprStmt, Block, If, Loop, Turn, Again, EndOfLoop, Which, Case,
                Return, Call, EndOfFun, LogResult, EndOfTry, Catch, Runs, Quiet
  <2>2. QED
    BY <2>1 DEF Jumps
<1>6. QED
  BY <1>1, <1>2, <1>3, <1>4, <1>5

LEMMA NextRestores ==
    ASSUME IInv, Next
    PROVE  UnwindRestores'
<1>1. end = ""
  BY DEF Next, VarDef, ExprStmt, Block, If, Loop, Turn, Again, EndOfLoop, Which, Case, Jump,
         Return, Call, EndOfFun, LogResult, EndOfTry, LeaveScope, Catch, Unwind, Finish, Runs
<1>2. CASE Finish
  <2>1. frames = <<>> /\ scopes' = scopes /\ calls' = calls
    BY <1>2 DEF Finish
  <2>2. PICK may : Allows(scopes, may) /\ Settled(<<>>, may, calls)
    BY <2>1 DEF IInv, Held
  <2>3. Len(may) = 1 /\ calls = 0
    BY <2>2, SettledDone
  <2>4. Len(scopes) = 1
    BY <2>2, <2>3 DEF Allows
  <2>5. QED
    BY <2>1, <2>3, <2>4 DEF UnwindRestores, Here
<1>3. CASE Crash("crash") \/ Crash("deep")
  <2>1. end' \in {"crash", "deep"}
    BY <1>3 DEF Crash
  <2>2. QED
    BY <2>1 DEF UnwindRestores
<1>4. CASE ~Finish /\ ~Crash("crash") /\ ~Crash("deep")
  <2>1. end' = end
    BY <1>4 DEF Next, VarDef, ExprStmt, Block, If, Loop, Turn, Again, EndOfLoop, Which, Case, Jump,
                Return, Call, EndOfFun, LogResult, EndOfTry, LeaveScope, Catch, Unwind, Same
  <2>2. QED
    BY <1>1, <2>1 DEF UnwindRestores
<1>5. QED
  BY <1>2, <1>3, <1>4

-----------------------------------------------------------------------------
(* Theorems                                                                *)

LEMMA InitIInv == Init => IInv
<1> SUFFICES ASSUME Init PROVE IInv
  OBVIOUS
<1>1. prog \in Programs /\ frames = prog.main /\ calls = 0 /\ thrown = "" /\ end = ""
  BY DEF Init
<1>2. Allows(<<Scope({}, 0, NoVars)>>, <<{}>>)
  <2> DEFINE sc == Scope({}, 0, NoVars)
             ss == <<sc>>
             may == <<{}>>
  <2>1. sc.flags = {} /\ sc.parent = 0 /\ sc = Scope(sc.flags, sc.parent, sc.vars)
    BY DEF Scope
  <2> HIDE DEF sc
  <2>2. ss \in Seq({sc}) /\ Len(ss) = 1 /\ ss[1] = sc
    OBVIOUS
  <2>3. may \in Seq(SUBSET Jumps) /\ Len(may) = 1 /\ may[1] = {}
    OBVIOUS
  <2> HIDE DEF ss, may
  <2>4. Allows(ss, may)
    <3>1. ASSUME NEW k \in 1 .. 1
          PROVE  /\ ss[k] = Scope(ss[k].flags, ss[k].parent, ss[k].vars)
                 /\ ss[k].parent \in 0 .. k - 1
                 /\ \A e \in Jumps :
                      e \in may[k] <=> \/ FlagOf(e) \in ss[k].flags
                                       \/ ss[k].parent # 0 /\ e \in may[ss[k].parent]
      <4>1. k = 1 /\ ss[k] = sc /\ may[k] = {}
        BY <2>2, <2>3
      <4>2. 0 \in 0 .. k - 1
        BY <4>1
      <4>3. \A e \in Jumps : FlagOf(e) \notin sc.flags /\ e \notin may[k] /\ sc.parent = 0
        BY <2>1, <4>1
      <4>4. ss[k] = Scope(ss[k].flags, ss[k].parent, ss[k].vars)
        BY <2>1, <4>1
      <4>5. ss[k].parent = 0 /\ ss[k].flags = sc.flags
        BY <2>1, <4>1
      <4>6. QED
        BY <4>2, <4>3, <4>4, <4>5
    <3>2. \E S : ss \in Seq(S)
      BY <2>2
    <3>3. QED
      BY <2>2, <2>3, <3>1, <3>2 DEF Allows
  <2>5. QED
    BY <2>4 DEF ss, sc, may
<1>3. Held(<<>>, scopes, 0, {})
  <2>1. <<>> \in Seq(Frames)
    OBVIOUS
  <2>2. <<{}>>[Len(<<{}>>)] = {}
    OBVIOUS
  <2>3. scopes = <<Scope({}, 0, NoVars)>>
    BY DEF Init
  <2>4. QED
    BY <1>2, <2>1, <2>2, <2>3, SettledEmpty DEF Held
<1>4. prog.main \in Seq(Frames) /\ \A i \in 1 .. Len(prog.main) : prog.main[i] \in Statements
  <2>1. prog.main \in Seq(Statements)
    BY <1>1, ProgramsAssumption
  <2>2. Statements \subseteq Frames
    BY StatementParts
  <2>3. QED
    BY <2>1, <2>2
<1>5. Held(prog.main \o <<>>, scopes, 0, {})
  BY <1>3, <1>4, HeldBlock
<1>6. prog.main \o <<>> = prog.main
  BY <1>4, ConcatEmptySeq
<1>7. Held(frames, scopes, calls, Jumps)
  <2>1. Held(frames, scopes, calls, {})
    BY <1>1, <1>5, <1>6
  <2>2. Jumps \in SUBSET Jumps /\ {} \subseteq Jumps
    OBVIOUS
  <2>3. QED
    BY <2>1, <2>2, HeldMore
<1>8. QED
  BY <1>1, <1>7 DEF IInv, UnwindRestores, Jumps

LEMMA NextIInv == IInv /\ [Next]_vars => IInv'
<1> SUFFICES ASSUME IInv, [Next]_vars PROVE IInv'
  OBVIOUS
<1>1. CASE Next
  <2>1. prog' = prog
    BY <1>1 DEF Next, VarDef, ExprStmt, Block, If, Loop, Turn, Again, EndOfLoop, Which, Case, Jump,
                Return, Call, EndOfFun, LogResult, EndOfTry, LeaveScope, Catch, Unwind, Finish,
                Same, Crash
  <2>2. QED
    BY <1>1, <2>1, NextHolds, NextCaught, NextRestores DEF IInv
<1>2. CASE UNCHANGED vars
  BY <1>2 DEF vars, IInv, UnwindRestores, Here
<1>3. QED
  BY <1>1, <1>2

LEMMA SpecIInv == Spec => []IInv
BY InitIInv, NextIInv, PTL DEF Spec

(* The destructors and the handlers that remain, of EvalStack::Raii and of *)
(* EvalEnv's scopes, leave every scope and every call that was entered:    *)
(* however an evaluation ends but by a crash, the next one begins where    *)
(* this one did.                                                           *)
THEOREM UnwindingRestores == Spec => []UnwindRestores
<1>1. IInv => UnwindRestores
  BY DEF IInv
<1>2. QED
  BY <1>1, SpecIInv, PTL

(* The flags in the scopes, by which break and continue are allowed, say   *)
(* what the handlers of EvalVisitor and EvalWhich catch: a jump on its way *)
(* is caught in the function it is in, in any program.                     *)
THEOREM JumpsAreCaught == Spec => []JumpIsCaught
<1>1. IInv => JumpIsCaught
  <2> SUFFICES ASSUME IInv, thrown \in {"break", "continue"}
               PROVE  \E i \in DOMAIN frames :
                        /\ frames[i][1] = "try" /\ thrown \in frames[i][2]
                        /\ \A j \in 1 .. i - 1 : frames[j][1] # "fun"
    BY DEF JumpIsCaught
  <2>1. frames \in Seq(Frames) /\ Caught(frames, 0, thrown)
    BY DEF IInv, Held, Jumps
  <2>2. PICK i \in 0 + 1 .. Len(frames) :
          /\ frames[i][1] = "try" /\ thrown \in frames[i][2]
          /\ \A j \in 0 + 1 .. i - 1 : frames[j][1] # "fun"
    BY <2>1 DEF Caught
  <2>3. i \in DOMAIN frames /\ 0 + 1 = 1
    BY <2>1, <2>2
  <2>4. QED
    BY <2>2, <2>3
<1>2. QED
  BY <1>1, SpecIInv, PTL
=============================================================================
