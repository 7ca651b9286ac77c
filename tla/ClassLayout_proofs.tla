------------------------ MODULE ClassLayout_proofs --------------------------
(***************************************************************************)
(* The ancestry of a class is all that is above it, each class once; what  *)
(* ancestors are said to have added sums up; and properties do not overlap *)
(* while sizes fit in their 16 bits.                                       *)
(***************************************************************************)
EXTENDS ClassLayout, SequenceTheorems, FiniteSetTheorems, Induction_lemmas

---------------------------------------------------------------------------
(* Sums.                                                                   *)

(* The sums of the first 0, 1, .. n of the numbers f has.                  *)
Sums(g, f, n) == g \in [0 .. n -> Nat] /\ g[0] = 0 /\ \A k \in 1 .. n : g[k] = g[k - 1] + f[k]

LEMMA SumsExist ==
    ASSUME NEW n \in Nat, NEW f, \A k \in 1 .. n : f[k] \in Nat
    PROVE  \E g : Sums(g, f, n)
<1> DEFINE step == [k \in 1 .. n |-> [s \in Nat |-> s + f[k]]]
<1>1. Steps(step, n, Nat)
  BY DEF Steps
<1>2. PICK g : Results(g, step, n, Nat, 0)
  <2> HIDE DEF step
  <2>1. QED
    BY <1>1, Iteration
<1>3. \A k \in 1 .. n : g[k - 1] \in Nat
  BY <1>2 DEF Results
<1>4. QED
  BY <1>2, <1>3 DEF Results, Sums

LEMMA SumUpToIsSum ==
    ASSUME NEW n \in Nat, NEW f, NEW g, Sums(g, f, n)
    PROVE  SumUpTo(f, n) = g[n]
<1> DEFINE F(u) == [k \in 0 .. n |-> IF k = 0 THEN 0 ELSE u[k - 1] + f[k]]
           upto == CHOOSE u : u = F(u)
<1>1. g = F(g)
  BY DEF Sums
<1>2. upto = F(upto)
  <2> HIDE DEF F
  <2>1. QED
    BY <1>1
<1>3. upto[0] = 0 /\ \A k \in 1 .. n : upto[k] = upto[k - 1] + f[k]
  <2> HIDE DEF upto
  <2>1. F(upto)[0] = 0 /\ \A k \in 1 .. n : F(upto)[k] = upto[k - 1] + f[k]
    OBVIOUS
  <2> HIDE DEF F
  <2>2. QED
    BY <1>2, <2>1
<1>4. SumUpTo(f, n) = upto[n]
  BY DEF SumUpTo
<1> HIDE DEF upto
<1> DEFINE N == {k \in 0 .. n : upto[k] = g[k]}
<1>5. 0 \in N
  BY <1>3 DEF Sums
<1>6. \A k \in 1 .. n : k - 1 \in N => k \in N
  BY <1>3 DEF Sums
<1>7. n \in N
  <2> HIDE DEF N
  <2>1. 0 .. n \subseteq N
    BY <1>5, <1>6, CountingUp
  <2>2. QED
    BY <2>1
<1>8. QED
  BY <1>4, <1>7

LEMMA SumUpToIs ==
    ASSUME NEW n \in Nat, NEW f, \A k \in 1 .. n : f[k] \in Nat
    PROVE  /\ \A k \in 0 .. n : SumUpTo(f, k) \in Nat
           /\ SumUpTo(f, 0) = 0
           /\ \A k \in 1 .. n : SumUpTo(f, k) = SumUpTo(f, k - 1) + f[k]
<1>1. PICK g : Sums(g, f, n)
  BY SumsExist
<1>2. ASSUME NEW k \in 0 .. n PROVE SumUpTo(f, k) = g[k]
  <2> DEFINE h == [j \in 0 .. k |-> g[j]]
  <2>1. k \in Nat /\ Sums(h, f, k) /\ h[k] = g[k]
    BY <1>1 DEF Sums
  <2> HIDE DEF h
  <2>2. QED
    BY <2>1, SumUpToIsSum
<1>3. QED
  BY <1>1, <1>2 DEF Sums

(* Sums of numbers that agree.                                             *)
LEMMA SumsAgree ==
    ASSUME NEW n \in Nat, NEW f, NEW g, \A k \in 1 .. n : f[k] \in Nat /\ g[k] = f[k]
    PROVE  SumUpTo(g, n) = SumUpTo(f, n)
<1> DEFINE N == {k \in 0 .. n : SumUpTo(g, k) = SumUpTo(f, k)}
<1>1. \A k \in 1 .. n : g[k] \in Nat
  OBVIOUS
<1>2. 0 \in N /\ \A k \in 1 .. n : k - 1 \in N => k \in N
  BY <1>1, SumUpToIs
<1>3. 0 .. n \subseteq N
  <2> HIDE DEF N
  <2>1. QED
    BY <1>2, CountingUp
<1>4. QED
  BY <1>3

LEMMA SumsGrow ==
    ASSUME NEW n \in Nat, NEW f, \A k \in 1 .. n : f[k] \in Nat, NEW i \in 0 .. n
    PROVE  SumUpTo(f, i) <= SumUpTo(f, n)
<1> DEFINE N == {k \in 0 .. n : i <= k => SumUpTo(f, i) <= SumUpTo(f, k)}
<1>1. \A k \in 0 .. n : SumUpTo(f, k) \in Nat
  BY SumUpToIs
<1>2. 0 \in N
  BY <1>1
<1>3. ASSUME NEW k \in 1 .. n, k - 1 \in N PROVE k \in N
  <2>1. k - 1 \in 0 .. n /\ k \in 0 .. n /\ SumUpTo(f, k) = SumUpTo(f, k - 1) + f[k] /\ f[k] \in Nat
    BY SumUpToIs
  <2>2. CASE i = k
    BY <1>1, <2>1, <2>2
  <2>3. CASE i # k
    BY <1>1, <1>3, <2>1, <2>3
  <2>4. QED
    BY <2>2, <2>3
<1>4. 0 .. n \subseteq N
  <2> HIDE DEF N
  <2>1. QED
    BY <1>2, <1>3, CountingUp
<1>5. QED
  BY <1>4

(* Each of the numbers comes after those before it, within the sum.        *)
LEMMA SumHolds ==
    ASSUME NEW n \in Nat, NEW f, \A k \in 1 .. n : f[k] \in Nat, NEW i \in 1 .. n
    PROVE  /\ SumUpTo(f, i - 1) \in Nat
           /\ SumUpTo(f, i - 1) + f[i] <= SumUpTo(f, n)
           /\ \A j \in 1 .. n : j < i => SumUpTo(f, j - 1) + f[j] <= SumUpTo(f, i - 1)
<1>1. /\ \A k \in 0 .. n : SumUpTo(f, k) \in Nat
      /\ \A k \in 1 .. n : SumUpTo(f, k) = SumUpTo(f, k - 1) + f[k]
  BY SumUpToIs
<1>2. i \in 0 .. n /\ i - 1 \in 0 .. n
  OBVIOUS
<1>3. SumUpTo(f, i) <= SumUpTo(f, n)
  BY <1>2, SumsGrow
<1>4. ASSUME NEW j \in 1 .. n, j < i PROVE SumUpTo(f, j) <= SumUpTo(f, i - 1)
  <2>1. i - 1 \in Nat /\ j \in 0 .. (i - 1) /\ \A k \in 1 .. (i - 1) : f[k] \in Nat
    BY <1>4
  <2>2. QED
    BY <2>1, SumsGrow
<1>5. QED
  BY <1>1, <1>2, <1>3, <1>4

---------------------------------------------------------------------------
(* 16-bit numbers.                                                         *)

LEMMA WrapIs ==
    ASSUME NEW n \in Nat
    PROVE  Wrap(n) \in Nat /\ Wrap(n) < BitsizeMod /\ (n < BitsizeMod => Wrap(n) = n) /\ Wrap(n) <= n
<1>1. BitsizeMod \in Nat /\ BitsizeMod > 0
  BY SizesAssumption
<1>2. QED
  BY <1>1 DEF Wrap

LEMMA WrapSplits ==
    ASSUME NEW n \in Nat
    PROVE  \E q \in Nat : q * BitsizeMod \in Nat /\ n = q * BitsizeMod + Wrap(n)
<1>1. BitsizeMod \in Nat /\ BitsizeMod > 0
  BY SizesAssumption
<1>2. n \div BitsizeMod \in Nat /\ (n \div BitsizeMod) * BitsizeMod \in Nat
      /\ n = (n \div BitsizeMod) * BitsizeMod + Wrap(n)
  BY <1>1 DEF Wrap
<1>3. QED
  BY <1>2

LEMMA WrapUnique ==
    ASSUME NEW q \in Nat, NEW p \in Nat, p < BitsizeMod
    PROVE  q * BitsizeMod + p \in Nat /\ Wrap(q * BitsizeMod + p) = p
<1>1. BitsizeMod \in Nat /\ BitsizeMod > 0
  BY SizesAssumption
<1>2. q * BitsizeMod \in Nat
  BY <1>1
<1> DEFINE i == q * BitsizeMod + p
<1>3. i \in Nat
  BY <1>2
<1>4. PICK v \in Nat : v * BitsizeMod \in Nat /\ i = v * BitsizeMod + Wrap(i)
  BY <1>3, WrapSplits
<1>5. Wrap(i) \in Nat /\ Wrap(i) < BitsizeMod
  BY <1>3, WrapIs
<1>6. ASSUME NEW a \in Nat, NEW b \in Nat, a < b PROVE a * BitsizeMod + BitsizeMod <= b * BitsizeMod
  <2> DEFINE d == b - (a + 1)
  <2>1. d \in Nat /\ b = (a + 1) + d
    BY <1>6
  <2>2. /\ b * BitsizeMod = (a + 1) * BitsizeMod + d * BitsizeMod
        /\ d * BitsizeMod \in Nat /\ a * BitsizeMod \in Nat
        /\ (a + 1) * BitsizeMod = a * BitsizeMod + BitsizeMod
    BY <1>1, <2>1
  <2>3. QED
    BY <1>1, <2>2
<1>7. i = q * BitsizeMod + p
  OBVIOUS
<1> HIDE DEF i
<1>8. ~(q < v) /\ ~(v < q)
  BY <1>1, <1>2, <1>4, <1>5, <1>6, <1>7
<1>9. q = v
  BY <1>8
<1>10. QED
  BY <1>2, <1>3, <1>4, <1>5, <1>7, <1>9

(* What is added to a wrapped number may be wrapped before, or not.        *)
LEMMA WrapAdds ==
    ASSUME NEW a \in Nat, NEW b \in Nat
    PROVE  Wrap(Wrap(a) + b) = Wrap(a + b)
<1>1. BitsizeMod \in Nat /\ BitsizeMod > 0
  BY SizesAssumption
<1>2. PICK q \in Nat : q * BitsizeMod \in Nat /\ a = q * BitsizeMod + Wrap(a)
  BY WrapSplits
<1>3. Wrap(a) \in Nat /\ Wrap(a) + b \in Nat /\ a + b \in Nat
  BY WrapIs
<1>4. PICK v \in Nat : v * BitsizeMod \in Nat /\ Wrap(a) + b = v * BitsizeMod + Wrap(Wrap(a) + b)
  BY <1>3, WrapSplits
<1> DEFINE p == Wrap(Wrap(a) + b)
<1>5. p \in Nat /\ p < BitsizeMod
  BY <1>3, WrapIs
<1>6. q + v \in Nat /\ (q + v) * BitsizeMod = q * BitsizeMod + v * BitsizeMod
  BY <1>1
<1>7. a + b = (q + v) * BitsizeMod + p
  BY <1>2, <1>3, <1>4, <1>5, <1>6
<1> HIDE DEF p
<1>8. Wrap((q + v) * BitsizeMod + p) = p
  BY <1>5, <1>6, WrapUnique
<1>9. QED
  BY <1>7, <1>8 DEF p

(* Equal but for wrapping, numbers stay so when something is added to both. *)
LEMMA WrapCongruent ==
    ASSUME NEW a \in Nat, NEW b \in Nat, NEW t \in Nat, Wrap(a) = Wrap(b)
    PROVE  Wrap(a + Wrap(t)) = Wrap(b + t)
<1>1. Wrap(a) \in Nat /\ Wrap(b) \in Nat /\ Wrap(t) \in Nat
  BY WrapIs
<1>2. Wrap(a + Wrap(t)) = Wrap(a + t)
  <2>1. a + Wrap(t) = Wrap(t) + a /\ a + t = t + a
    BY <1>1
  <2>2. QED
    BY <2>1, WrapAdds
<1>3. Wrap(Wrap(a) + t) = Wrap(a + t) /\ Wrap(Wrap(b) + t) = Wrap(b + t)
  BY WrapAdds
<1>4. QED
  BY <1>2, <1>3
---------------------------------------------------------------------------
(* Lists of ancestors.                                                     *)

Entries == [cls : Nat, parent : BOOLEAN, deps : Seq(Nat)]

(* Each ancestor once, its dependencies after it, each a dependency once.  *)
Distinct(l) == \A i, j \in DOMAIN l : l[i].cls = l[j].cls => i = j
DepsLater(l) ==
    \A i \in DOMAIN l : \A m \in DOMAIN l[i].deps :
        \E p \in DOMAIN l : p > i /\ l[p].cls = l[i].deps[m]
DepsOnce(l) ==
    \A i, j \in DOMAIN l : \A m \in DOMAIN l[i].deps : \A q \in DOMAIN l[j].deps :
        l[i].deps[m] = l[j].deps[q] => i = j /\ m = q
Sound(l) == l \in Lists /\ Distinct(l) /\ DepsLater(l) /\ DepsOnce(l)

(* The ancestors of the initialised classes: earlier ones, and theirs.     *)
Ordered ==
    /\ Len(cls) \in Nat /\ DOMAIN cls = 1 .. Len(cls)
    /\ \A d \in DOMAIN cls :
         /\ cls[d].anc \in Lists
         /\ \A a \in Ids(cls[d].anc) :
              a \in 1 .. (d - 1) /\ Ids(cls[a].anc) \subseteq Ids(cls[d].anc)

(* What adding class d makes of a list: d and what it pulls in follow what *)
(* was there.                                                              *)
PulledIn(m, from, c) ==
    \E j \in DOMAIN m : j > from /\ \E q \in DOMAIN m[j].deps : m[j].deps[q] = c
Growing(l, d, m) ==
    /\ Sound(m)
    /\ Len(l) < Len(m) /\ \A i \in DOMAIN l : m[i] = l[i]
    /\ m[Len(l) + 1].cls = d
    /\ \A i \in DOMAIN m : i > Len(l) =>
         /\ m[i].parent = FALSE
         /\ \A q \in DOMAIN m[i].deps : m[i].deps[q] \notin Ids(l) /\ m[i].deps[q] # d
         /\ i = Len(l) + 1 \/ PulledIn(m, Len(l), m[i].cls)
Grown(l, d, m) == Growing(l, d, m) /\ Ids(m) = Ids(l) \cup {d} \cup Ids(cls[d].anc)

LEMMA ListHas ==
    ASSUME NEW l \in Lists
    PROVE  /\ Len(l) \in Nat /\ DOMAIN l = 1 .. Len(l)
           /\ \A i \in 1 .. Len(l) :
                /\ l[i] \in Entries /\ l[i].cls \in Nat /\ l[i].parent \in BOOLEAN
                /\ l[i].deps \in Seq(Nat) /\ Len(l[i].deps) \in Nat
                /\ DOMAIN l[i].deps = 1 .. Len(l[i].deps)
<1>1. l \in Seq(Entries)
  BY DEF Lists, Entries
<1>2. \A i \in 1 .. Len(l) : l[i] \in Entries
  BY <1>1
<1>3. \A e \in Entries : e.cls \in Nat /\ e.parent \in BOOLEAN /\ e.deps \in Seq(Nat)
  BY DEF Entries
<1>4. \A s \in Seq(Nat) : Len(s) \in Nat /\ DOMAIN s = 1 .. Len(s)
  OBVIOUS
<1>5. QED
  BY <1>1, <1>2, <1>3, <1>4

LEMMA Replaced ==
    ASSUME NEW S, NEW h \in Seq(S), NEW n, NEW e, n \in 1 .. Len(h) => e \in S,
           NEW w, w = [h EXCEPT ![n] = e]
    PROVE  /\ w \in Seq(S) /\ Len(w) = Len(h) /\ DOMAIN w = DOMAIN h
           /\ \A i \in 1 .. Len(h) : w[i] = IF i = n THEN e ELSE h[i]
<1>1. DOMAIN h = 1 .. Len(h) /\ h \in [1 .. Len(h) -> S]
  OBVIOUS
<1>2. CASE n \in 1 .. Len(h)
  <2>1. w \in Seq(S)
    BY <1>2, ExceptSeq
  <2>2. Len(w) = Len(h)
    BY <1>2, ExceptSeq
  <2>3. \A i \in 1 .. Len(h) : w[i] = IF i = n THEN e ELSE h[i]
    BY <1>2, ExceptSeq
  <2>4. QED
    BY <1>1, <2>1, <2>2, <2>3
<1>3. CASE n \notin 1 .. Len(h)
  <2>1. w = h
    BY <1>1, <1>3
  <2>2. QED
    BY <1>1, <1>3, <2>1
<1>4. QED
  BY <1>2, <1>3

(* An entry that is changed: one more dependency.                          *)
LEMMA OneMoreDep ==
    ASSUME NEW h \in Lists, NEW n, NEW a \in Nat,
           NEW r, r = AddDep(h, n, a)
    PROVE  /\ r \in Lists /\ Len(r) = Len(h) /\ Ids(r) = Ids(h)
           /\ \A i \in 1 .. Len(h) : i # n => r[i] = h[i]
           /\ n \in 1 .. Len(h) =>
                /\ r[n].cls = h[n].cls /\ r[n].parent = h[n].parent
                /\ r[n].deps = Append(h[n].deps, a)
                /\ DOMAIN r[n].deps = 1 .. (Len(h[n].deps) + 1)
                /\ \A q \in DOMAIN h[n].deps : r[n].deps[q] = h[n].deps[q]
                /\ r[n].deps[Len(h[n].deps) + 1] = a
<1>1. h \in Seq(Entries)
  BY DEF Lists, Entries
<1>2. r = [h EXCEPT ![n] = [h[n] EXCEPT !.deps = Append(h[n].deps, a)]]
  BY DEF AddDep
<1>3. ASSUME NEW e \in Entries
      PROVE  /\ [e EXCEPT !.deps = Append(e.deps, a)] \in Entries
             /\ [e EXCEPT !.deps = Append(e.deps, a)].cls = e.cls
             /\ [e EXCEPT !.deps = Append(e.deps, a)].parent = e.parent
             /\ [e EXCEPT !.deps = Append(e.deps, a)].deps = Append(e.deps, a)
  <2>1. e.deps \in Seq(Nat)
    BY DEF Entries
  <2>2. Append(e.deps, a) \in Seq(Nat)
    BY <2>1
  <2> DEFINE deps == Append(e.deps, a)
  <2> HIDE DEF deps
  <2>3. [e EXCEPT !.deps = deps] \in Entries /\ [e EXCEPT !.deps = deps].cls = e.cls
        /\ [e EXCEPT !.deps = deps].parent = e.parent /\ [e EXCEPT !.deps = deps].deps = deps
    BY <2>2 DEF Entries, deps
  <2>4. QED
    BY <2>3 DEF deps
<1> DEFINE new == [h[n] EXCEPT !.deps = Append(h[n].deps, a)]
<1>4. n \in 1 .. Len(h) =>
        h[n] \in Entries /\ new \in Entries /\ new.cls = h[n].cls /\ new.parent = h[n].parent
        /\ new.deps = Append(h[n].deps, a)
  BY <1>1, <1>3
<1> HIDE DEF new
<1>5. r = [h EXCEPT ![n] = new]
  BY <1>2 DEF new
<1>6. r \in Seq(Entries) /\ Len(r) = Len(h) /\ DOMAIN r = DOMAIN h
      /\ \A i \in 1 .. Len(h) : r[i] = IF i = n THEN new ELSE h[i]
  <2>1. PICK e : e = new
    OBVIOUS
  <2>2. (n \in 1 .. Len(h) => e \in Entries) /\ r = [h EXCEPT ![n] = e]
    BY <1>4, <1>5, <2>1
  <2>3. r \in Seq(Entries)
    BY <1>1, <2>2, Replaced
  <2>4. Len(r) = Len(h) /\ DOMAIN r = DOMAIN h
    BY <1>1, <2>2, Replaced
  <2>5. \A i \in 1 .. Len(h) : r[i] = IF i = n THEN e ELSE h[i]
    BY <1>1, <2>2, Replaced
  <2>6. QED
    BY <2>1, <2>3, <2>4, <2>5
<1>7. Ids(r) = Ids(h)
  BY <1>1, <1>4, <1>6 DEF Ids
<1>8. ASSUME n \in 1 .. Len(h)
      PROVE  /\ DOMAIN r[n].deps = 1 .. (Len(h[n].deps) + 1)
             /\ \A q \in DOMAIN h[n].deps : r[n].deps[q] = h[n].deps[q]
             /\ r[n].deps[Len(h[n].deps) + 1] = a
  <2> DEFINE s == h[n].deps
  <2>1. s \in Seq(Nat) /\ r[n].deps = Append(s, a)
    BY <1>4, <1>6, <1>8, ListHas
  <2> HIDE DEF s
  <2>2. DOMAIN Append(s, a) = 1 .. (Len(s) + 1) /\ Append(s, a)[Len(s) + 1] = a
        /\ \A q \in DOMAIN s : Append(s, a)[q] = s[q]
    BY <2>1
  <2>3. QED
    BY <2>1, <2>2 DEF s
<1>9. QED
  BY <1>4, <1>6, <1>7, <1>8 DEF Lists, Entries

LEMMA IdsAre ==
    ASSUME NEW l \in Lists
    PROVE  /\ \A x : x \in Ids(l) <=> \E i \in 1 .. Len(l) : l[i].cls = x
           /\ Ids(l) \subseteq Nat
  BY ListHas DEF Ids

LEMMA DepsAreIds ==
    ASSUME NEW l, Sound(l), NEW i \in DOMAIN l, NEW q \in DOMAIN l[i].deps
    PROVE  l[i].deps[q] \in Ids(l)
<1>1. PICK p \in DOMAIN l : l[p].cls = l[i].deps[q]
  BY DEF Sound, DepsLater
<1>2. QED
  BY <1>1 DEF Ids

(* An entry that is added.                                                 *)
LEMMA OneMoreEntry ==
    ASSUME NEW l \in Lists, NEW d \in Nat, NEW m, m = Append(l, Ancestor(d))
    PROVE  /\ m \in Lists /\ Len(m) = Len(l) + 1
           /\ \A i \in 1 .. Len(l) : m[i] = l[i]
           /\ m[Len(l) + 1] = Ancestor(d)
           /\ Ancestor(d).cls = d /\ Ancestor(d).parent = FALSE
           /\ Ancestor(d).deps = <<>> /\ DOMAIN Ancestor(d).deps = {}
           /\ Ids(m) = Ids(l) \cup {d}
<1>1. Ancestor(d) \in Entries
  <2>1. <<>> \in Seq(Nat)
    OBVIOUS
  <2>2. QED
    BY <2>1 DEF Ancestor, Entries
<1>2. l \in Seq(Entries)
  BY DEF Lists, Entries
<1>3. m \in Seq(Entries)
  BY <1>1, <1>2, AppendProperties
<1>4. Len(m) = Len(l) + 1
  BY <1>1, <1>2, AppendProperties
<1>5. \A i \in 1 .. Len(l) : m[i] = l[i]
  BY <1>1, <1>2, AppendProperties
<1>6. m[Len(l) + 1] = Ancestor(d)
  BY <1>1, <1>2, AppendProperties
<1>7. Ancestor(d).cls = d /\ Ancestor(d).parent = FALSE /\ Ancestor(d).deps = <<>>
  BY DEF Ancestor
<1>8. DOMAIN Ancestor(d).deps = {}
  BY <1>7
<1>9. m \in Lists
  BY <1>3 DEF Lists, Entries
<1>10. Ids(m) = Ids(l) \cup {d}
  <2>1. Len(l) \in Nat /\ DOMAIN l = 1 .. Len(l) /\ DOMAIN m = 1 .. (Len(l) + 1)
    BY <1>4, <1>9, ListHas
  <2>2. \A i \in DOMAIN l : i \in DOMAIN m /\ m[i].cls = l[i].cls
    BY <1>5, <2>1
  <2>3. Len(l) + 1 \in DOMAIN m /\ m[Len(l) + 1].cls = d
    BY <1>6, <1>7, <2>1
  <2>4. \A i \in DOMAIN m : i \in DOMAIN l \/ i = Len(l) + 1
    BY <2>1
  <2>5. QED
    BY <2>2, <2>3, <2>4 DEF Ids
<1>11. QED
  BY <1>4, <1>5, <1>6, <1>7, <1>8, <1>9, <1>10

(* The loop of do_add begins with the class itself ..                      *)
LEMMA PullBegins ==
    ASSUME NEW l, Sound(l), NEW d \in Nat, d \notin Ids(l)
    PROVE  Growing(l, d, Append(l, Ancestor(d)))
<1> DEFINE n == Len(l) + 1
<1>1. PICK m : m = Append(l, Ancestor(d))
  OBVIOUS
<1>2. l \in Lists
  BY DEF Sound
<1>3. /\ m \in Lists /\ Len(m) = n
      /\ \A i \in 1 .. Len(l) : m[i] = l[i]
      /\ m[n].cls = d /\ m[n].parent = FALSE /\ DOMAIN m[n].deps = {}
  <2>1. m \in Lists /\ Len(m) = n
    <3>1. m \in Lists
      BY <1>1, <1>2, OneMoreEntry
    <3>2. Len(m) = Len(l) + 1
      BY <1>1, <1>2, OneMoreEntry
    <3>3. QED
      BY <3>1, <3>2
  <2>2. \A i \in 1 .. Len(l) : m[i] = l[i]
    BY <1>1, <1>2, OneMoreEntry
  <2>3. m[n] = Ancestor(d)
    BY <1>1, <1>2, OneMoreEntry
  <2>4. Ancestor(d).cls = d /\ Ancestor(d).parent = FALSE /\ DOMAIN Ancestor(d).deps = {}
    BY <1>1, <1>2, OneMoreEntry
  <2>5. QED
    BY <2>1, <2>2, <2>3, <2>4
<1>4. Len(l) \in Nat /\ DOMAIN l = 1 .. Len(l) /\ DOMAIN m = 1 .. n
  BY <1>2, <1>3, ListHas
<1>5. \A i \in DOMAIN m : i = n \/ (i # n /\ i \in DOMAIN l /\ m[i] = l[i] /\ m[i].cls \in Ids(l) /\ m[i].cls # d)
  BY <1>3, <1>4 DEF Ids
<1>6. Distinct(m)
  BY <1>3, <1>5 DEF Sound, Distinct
<1>7. DepsLater(m)
  <2> SUFFICES ASSUME NEW i \in DOMAIN m, NEW q \in DOMAIN m[i].deps
               PROVE  \E p \in DOMAIN m : p > i /\ m[p].cls = m[i].deps[q]
    BY DEF DepsLater
  <2>1. i \in DOMAIN l /\ m[i] = l[i]
    BY <1>3, <1>5
  <2>2. PICK p \in DOMAIN l : p > i /\ l[p].cls = l[i].deps[q]
    BY <2>1 DEF Sound, DepsLater
  <2>3. p \in DOMAIN m /\ m[p] = l[p]
    BY <1>3, <1>4
  <2>4. QED
    BY <2>1, <2>2, <2>3
<1>8. DepsOnce(m)
  <2> SUFFICES ASSUME NEW i \in DOMAIN m, NEW j \in DOMAIN m,
                      NEW p \in DOMAIN m[i].deps, NEW q \in DOMAIN m[j].deps,
                      m[i].deps[p] = m[j].deps[q]
               PROVE  i = j /\ p = q
    BY DEF DepsOnce
  <2>1. i \in DOMAIN l /\ m[i] = l[i] /\ j \in DOMAIN l /\ m[j] = l[j]
    BY <1>3, <1>5
  <2>2. QED
    BY <2>1 DEF Sound, DepsOnce
<1>9. \A i \in DOMAIN m : i > Len(l) => i = n
  BY <1>4
<1>10. Sound(m)
  BY <1>3, <1>6, <1>7, <1>8 DEF Sound
<1>11. Len(l) < Len(m) /\ \A i \in DOMAIN l : m[i] = l[i]
  BY <1>3, <1>4
<1>12. QED
  BY <1>1, <1>3, <1>9, <1>10, <1>11 DEF Growing

(* .. and goes on, when an ancestor of it is missing, with what adding     *)
(* that one makes of the list: it is one more dependency of the class.     *)
LEMMA PullContinues ==
    ASSUME NEW l \in Lists, NEW d \in Nat, NEW m, Growing(l, d, m),
           NEW a \in Nat, a \notin Ids(m), NEW h, Growing(m, a, h),
           NEW r, r = AddDep(h, Len(l) + 1, a)
    PROVE  Growing(l, d, r) /\ Ids(r) = Ids(h)
<1>1. PICK n : n = Len(l) + 1
  OBVIOUS
<1>2. m \in Lists /\ h \in Lists /\ Sound(m) /\ Sound(h)
  BY DEF Growing, Sound
<1>3. /\ Len(l) \in Nat /\ DOMAIN l = 1 .. Len(l)
      /\ Len(m) \in Nat /\ DOMAIN m = 1 .. Len(m)
      /\ Len(h) \in Nat /\ DOMAIN h = 1 .. Len(h)
      /\ Len(l) < Len(m) /\ Len(m) < Len(h)
  BY <1>2, ListHas DEF Growing
<1>4. n \in DOMAIN m /\ n \in DOMAIN h /\ n \notin DOMAIN l /\ n \in Nat
  BY <1>1, <1>3
<1>5. /\ \A i \in DOMAIN l : i \in DOMAIN m /\ m[i] = l[i]
      /\ \A i \in DOMAIN m : i \in DOMAIN h /\ h[i] = m[i]
      /\ m[n].cls = d /\ h[Len(m) + 1].cls = a
  BY <1>1, <1>3 DEF Growing
<1>6. /\ r \in Lists /\ Len(r) = Len(h) /\ Ids(r) = Ids(h)
      /\ \A i \in 1 .. Len(h) : i # n => r[i] = h[i]
      /\ r[n].cls = h[n].cls /\ r[n].parent = h[n].parent
      /\ DOMAIN r[n].deps = 1 .. (Len(h[n].deps) + 1)
      /\ \A q \in DOMAIN h[n].deps : r[n].deps[q] = h[n].deps[q]
      /\ r[n].deps[Len(h[n].deps) + 1] = a
  <2>1. r = AddDep(h, n, a)
    BY <1>1
  <2>2. n \in 1 .. Len(h)
    BY <1>3, <1>4
  <2>3. r \in Lists /\ Len(r) = Len(h) /\ Ids(r) = Ids(h) /\ \A i \in 1 .. Len(h) : i # n => r[i] = h[i]
    BY <1>2, <2>1, OneMoreDep
  <2>4. /\ r[n].cls = h[n].cls /\ r[n].parent = h[n].parent
        /\ DOMAIN r[n].deps = 1 .. (Len(h[n].deps) + 1)
        /\ \A q \in DOMAIN h[n].deps : r[n].deps[q] = h[n].deps[q]
        /\ r[n].deps[Len(h[n].deps) + 1] = a
    BY <1>2, <2>1, <2>2, OneMoreDep
  <2>5. QED
    BY <2>3, <2>4
<1>7. PICK k : k = Len(h[n].deps) + 1
  OBVIOUS
<1>8. DOMAIN h[n].deps = 1 .. Len(h[n].deps) /\ Len(h[n].deps) \in Nat
  BY <1>2, <1>3, <1>4, ListHas
<1>9. /\ k \in DOMAIN r[n].deps /\ r[n].deps[k] = a
      /\ \A q \in DOMAIN h[n].deps : q \in DOMAIN r[n].deps /\ r[n].deps[q] = h[n].deps[q]
      /\ \A q \in DOMAIN r[n].deps : q # k => q \in DOMAIN h[n].deps
  <2>1. PICK len : len = Len(h[n].deps)
    OBVIOUS
  <2>2. len \in Nat /\ DOMAIN h[n].deps = 1 .. len /\ DOMAIN r[n].deps = 1 .. (len + 1) /\ k = len + 1
    BY <1>6, <1>7, <1>8, <2>1
  <2>3. r[n].deps[k] = a
    BY <1>6, <1>7
  <2>4. \A q \in DOMAIN h[n].deps : r[n].deps[q] = h[n].deps[q]
    BY <1>6
  <2>5. /\ k \in 1 .. (len + 1)
        /\ \A q \in 1 .. len : q \in 1 .. (len + 1)
        /\ \A q \in 1 .. (len + 1) : q # k => q \in 1 .. len
    BY <2>2
  <2>6. QED
    BY <2>2, <2>3, <2>4, <2>5
<1>10. DOMAIN r = DOMAIN h
  BY <1>3, <1>6, ListHas
<1>11. /\ \A i \in DOMAIN h : r[i].cls = h[i].cls /\ r[i].parent = h[i].parent
       /\ \A i \in DOMAIN h : i # n => r[i].deps = h[i].deps /\ r[i] = h[i]
  BY <1>3, <1>6
<1>12. \A i \in DOMAIN h : \A q \in DOMAIN h[i].deps : q \in DOMAIN r[i].deps /\ r[i].deps[q] = h[i].deps[q]
  BY <1>9, <1>11
<1>13. \A i \in DOMAIN h : \A q \in DOMAIN r[i].deps :
          \/ q \in DOMAIN h[i].deps /\ r[i].deps[q] = h[i].deps[q]
          \/ i = n /\ q = k /\ r[i].deps[q] = a
  BY <1>9, <1>11
<1>14. \A i \in DOMAIN h : \A q \in DOMAIN h[i].deps : h[i].deps[q] # a
  <2> SUFFICES ASSUME NEW i \in DOMAIN h, NEW q \in DOMAIN h[i].deps PROVE h[i].deps[q] # a
    OBVIOUS
  <2>1. CASE i \in DOMAIN m
    BY <1>2, <1>5, <2>1, DepsAreIds
  <2>2. CASE i \notin DOMAIN m
    BY <1>3, <2>2 DEF Growing
  <2>3. QED
    BY <2>1, <2>2
<1> HIDE DEF Sound
<1>15. Distinct(r)
  BY <1>2, <1>10, <1>11 DEF Sound, Distinct
<1>16. DepsLater(r)
  <2> SUFFICES ASSUME NEW i \in DOMAIN h, NEW q \in DOMAIN r[i].deps
               PROVE  \E p \in DOMAIN h : p > i /\ r[p].cls = r[i].deps[q]
    BY <1>10 DEF DepsLater
  <2>1. CASE q \in DOMAIN h[i].deps /\ r[i].deps[q] = h[i].deps[q]
    <3>1. PICK p \in DOMAIN h : p > i /\ h[p].cls = h[i].deps[q]
      BY <1>2, <2>1 DEF Sound, DepsLater
    <3>2. QED
      BY <1>11, <2>1, <3>1
  <2>2. CASE i = n /\ q = k /\ r[i].deps[q] = a
    <3>1. Len(m) + 1 \in DOMAIN h /\ Len(m) + 1 > n
      BY <1>1, <1>3
    <3>2. QED
      BY <1>5, <1>11, <2>2, <3>1
  <2>3. QED
    BY <1>13, <2>1, <2>2
<1>17. DepsOnce(r)
  <2> SUFFICES ASSUME NEW i \in DOMAIN h, NEW j \in DOMAIN h,
                      NEW p \in DOMAIN r[i].deps, NEW q \in DOMAIN r[j].deps,
                      r[i].deps[p] = r[j].deps[q]
               PROVE  i = j /\ p = q
    BY <1>10 DEF DepsOnce
  <2>1. CASE /\ p \in DOMAIN h[i].deps /\ r[i].deps[p] = h[i].deps[p]
             /\ q \in DOMAIN h[j].deps /\ r[j].deps[q] = h[j].deps[q]
    BY <1>2, <2>1 DEF Sound, DepsOnce
  <2>2. CASE ~(/\ p \in DOMAIN h[i].deps /\ r[i].deps[p] = h[i].deps[p]
               /\ q \in DOMAIN h[j].deps /\ r[j].deps[q] = h[j].deps[q])
    BY <1>13, <1>14, <2>2
  <2>3. QED
    BY <2>1, <2>2
<1>18. Sound(r)
  BY <1>6, <1>15, <1>16, <1>17 DEF Sound
<1>19. Ids(l) \subseteq Ids(m) /\ d \in Ids(m)
  <2>1. Ids(l) \subseteq Ids(m)
    BY <1>5 DEF Ids
  <2>2. d \in Ids(m)
    BY <1>4, <1>5 DEF Ids
  <2>3. QED
    BY <2>1, <2>2
<1>20. ASSUME NEW i \in DOMAIN h, i > Len(l)
       PROVE  /\ r[i].parent = FALSE
              /\ \A q \in DOMAIN r[i].deps : r[i].deps[q] \notin Ids(l) /\ r[i].deps[q] # d
              /\ i = n \/ PulledIn(r, Len(l), r[i].cls)
  <2>1. CASE i \in DOMAIN m
    <3>1. /\ m[i].parent = FALSE
          /\ \A q \in DOMAIN m[i].deps : m[i].deps[q] \notin Ids(l) /\ m[i].deps[q] # d
          /\ i = n \/ PulledIn(m, Len(l), m[i].cls)
      BY <1>1, <1>20, <2>1 DEF Growing
    <3>2. h[i] = m[i]
      BY <1>5, <2>1
    <3>3. r[i].parent = FALSE
      BY <1>11, <3>1, <3>2
    <3>4. \A q \in DOMAIN r[i].deps : r[i].deps[q] \notin Ids(l) /\ r[i].deps[q] # d
      BY <1>13, <1>19, <3>1, <3>2
    <3>5. ASSUME i # n PROVE PulledIn(r, Len(l), r[i].cls)
      <4>1. PICK j \in DOMAIN m : j > Len(l) /\ \E q \in DOMAIN m[j].deps : m[j].deps[q] = m[i].cls
        BY <3>1, <3>5 DEF PulledIn
      <4>2. PICK q \in DOMAIN m[j].deps : m[j].deps[q] = m[i].cls
        BY <4>1
      <4>3. j \in DOMAIN h /\ h[j] = m[j]
        BY <1>5
      <4>4. q \in DOMAIN r[j].deps /\ r[j].deps[q] = r[i].cls
        BY <1>11, <1>12, <3>2, <4>2, <4>3
      <4>5. QED
        BY <1>10, <4>1, <4>3, <4>4 DEF PulledIn
    <3>6. QED
      BY <3>3, <3>4, <3>5
  <2>2. CASE i \notin DOMAIN m
    <3>1. i > Len(m) /\ i # n
      BY <1>3, <1>4, <2>2
    <3>2. /\ h[i].parent = FALSE
          /\ \A q \in DOMAIN h[i].deps : h[i].deps[q] \notin Ids(m)
          /\ i = Len(m) + 1 \/ PulledIn(h, Len(m), h[i].cls)
      BY <3>1 DEF Growing
    <3>3. r[i] = h[i]
      BY <1>11, <3>1
    <3>4. CASE i = Len(m) + 1
      <4>1. r[i].cls = a /\ n > Len(l)
        BY <1>1, <1>3, <1>5, <3>3, <3>4
      <4>2. PulledIn(r, Len(l), r[i].cls)
        BY <1>4, <1>9, <1>10, <4>1 DEF PulledIn
      <4>3. QED
        BY <1>19, <3>2, <3>3, <4>2
    <3>5. CASE PulledIn(h, Len(m), h[i].cls)
      <4>1. PICK j \in DOMAIN h : j > Len(m) /\ \E q \in DOMAIN h[j].deps : h[j].deps[q] = h[i].cls
        BY <3>5 DEF PulledIn
      <4>2. j > Len(l) /\ j # n
        BY <1>1, <1>3, <4>1
      <4>3. PulledIn(r, Len(l), r[i].cls)
        BY <1>10, <1>11, <3>3, <4>1, <4>2 DEF PulledIn
      <4>4. QED
        BY <1>19, <3>2, <3>3, <4>3
    <3>6. QED
      BY <3>2, <3>4, <3>5
  <2>3. QED
    BY <2>1, <2>2
<1>21. Len(l) < Len(r) /\ \A i \in DOMAIN l : r[i] = l[i]
  BY <1>3, <1>4, <1>5, <1>6, <1>11
<1>22. r[n].cls = d
  BY <1>4, <1>5, <1>6
<1>23. Ids(r) = Ids(h)
  BY <1>6
<1>24. r[Len(l) + 1].cls = d
  BY <1>1, <1>22
<1>25. \A i \in DOMAIN r : i > Len(l) =>
         /\ r[i].parent = FALSE
         /\ \A q \in DOMAIN r[i].deps : r[i].deps[q] \notin Ids(l) /\ r[i].deps[q] # d
         /\ i = Len(l) + 1 \/ PulledIn(r, Len(l), r[i].cls)
  BY <1>1, <1>10, <1>20
<1>26. Growing(l, d, r)
  BY <1>18, <1>21, <1>24, <1>25 DEF Growing
<1>27. QED
  BY <1>23, <1>26

(* What the loop of do_add has made of the list after each of its rounds.  *)
Adds == [Lists \X DOMAIN cls -> Lists]
Round(l, d, add, k, m) ==
    IF cls[d].anc[k].cls \in Ids(m) THEN m
    ELSE AddDep(add[<<m, cls[d].anc[k].cls>>], Len(l) + 1, cls[d].anc[k].cls)

LEMMA PullRuns ==
    ASSUME Ordered, NEW l \in Lists, NEW d \in DOMAIN cls, NEW add \in Adds
    PROVE  \E u \in [0 .. Len(cls[d].anc) -> Lists] :
             /\ u[0] = Append(l, Ancestor(d))
             /\ \A k \in 1 .. Len(cls[d].anc) : u[k] = Round(l, d, add, k, u[k - 1])
             /\ Pull(l, d, add) = u[Len(cls[d].anc)]
<1> DEFINE n == Len(cls[d].anc)
           F(u) == [k \in 0 .. n |->
                      IF k = 0 THEN Append(l, Ancestor(d))
                      ELSE IF cls[d].anc[k].cls \in Ids(u[k - 1]) THEN u[k - 1]
                           ELSE AddDep(add[<<u[k - 1], cls[d].anc[k].cls>>], Len(l) + 1, cls[d].anc[k].cls)]
           upto == CHOOSE u : u = F(u)
           g == [k \in 1 .. n |-> [m \in Lists |-> Round(l, d, add, k, m)]]
<1>1. Pull(l, d, add) = upto[n]
  BY DEF Pull
<1>2. n \in Nat /\ d \in Nat /\ \A k \in 1 .. n : cls[d].anc[k].cls \in DOMAIN cls /\ cls[d].anc[k].cls \in Nat
  <2>1. cls[d].anc \in Lists /\ d \in 1 .. Len(cls) /\ Len(cls) \in Nat
    BY DEF Ordered
  <2>2. \A k \in 1 .. n : cls[d].anc[k].cls \in Ids(cls[d].anc)
    BY <2>1, ListHas DEF Ids
  <2>3. \A a \in Ids(cls[d].anc) : a \in 1 .. (d - 1)
    BY DEF Ordered
  <2>4. DOMAIN cls = 1 .. Len(cls)
    BY DEF Ordered
  <2>5. n \in Nat
    BY <2>1, ListHas
  <2> HIDE DEF n
  <2>6. \A a \in 1 .. (d - 1) : a \in 1 .. Len(cls) /\ a \in Nat
    BY <2>1
  <2>7. QED
    BY <2>1, <2>2, <2>3, <2>4, <2>5, <2>6
<1>3. \A k \in 1 .. n : \A m \in Lists : Round(l, d, add, k, m) \in Lists
  <2> SUFFICES ASSUME NEW k \in 1 .. n, NEW m \in Lists PROVE Round(l, d, add, k, m) \in Lists
    OBVIOUS
  <2>1. PICK a \in DOMAIN cls : a = cls[d].anc[k].cls /\ a \in Nat
    BY <1>2
  <2>2. add[<<m, a>>] \in Lists
    BY <2>1 DEF Adds
  <2>3. AddDep(add[<<m, a>>], Len(l) + 1, a) \in Lists
    BY <2>1, <2>2, OneMoreDep
  <2>4. QED
    BY <2>1, <2>3 DEF Round
<1>4. Append(l, Ancestor(d)) \in Lists
  BY <1>2, OneMoreEntry
<1>5. PICK f : Results(f, g, n, Lists, Append(l, Ancestor(d)))
  <2>1. Steps(g, n, Lists)
    BY <1>3 DEF Steps
  <2> HIDE DEF g, n
  <2>2. QED
    BY <1>2, <1>4, <2>1, Iteration
<1>6. \A k \in 1 .. n : f[k] = Round(l, d, add, k, f[k - 1])
  <2> SUFFICES ASSUME NEW k \in 1 .. n PROVE f[k] = Round(l, d, add, k, f[k - 1])
    OBVIOUS
  <2>1. k - 1 \in 0 .. n
    BY <1>2
  <2>2. f[k - 1] \in Lists /\ f[k] = g[k][f[k - 1]]
    BY <1>5, <2>1 DEF Results
  <2>3. QED
    BY <2>2
<1>7. f = F(f)
  <2>1. f \in [0 .. n -> Lists] /\ f[0] = Append(l, Ancestor(d))
    BY <1>5 DEF Results
  <2>2. \A k \in 0 .. n : k = 0 \/ k \in 1 .. n
    BY <1>2
  <2>3. \A k \in 0 .. n : f[k] = IF k = 0 THEN Append(l, Ancestor(d)) ELSE Round(l, d, add, k, f[k - 1])
    BY <1>6, <2>1, <2>2
  <2> HIDE DEF n
  <2>4. QED
    BY <2>1, <2>3 DEF Round
<1>8. upto = F(upto)
  <2> HIDE DEF F
  <2>1. QED
    BY <1>7
<1>9. upto[0] = Append(l, Ancestor(d)) /\ \A k \in 1 .. n : upto[k] = Round(l, d, add, k, upto[k - 1])
  <2> HIDE DEF upto
  <2>1. 0 \in 0 .. n /\ \A k \in 1 .. n : k \in 0 .. n /\ k # 0
    BY <1>2
  <2>2. F(upto)[0] = Append(l, Ancestor(d))
    BY <2>1
  <2>3. \A k \in 1 .. n : F(upto)[k] = Round(l, d, add, k, upto[k - 1])
    BY <2>1 DEF Round
  <2> HIDE DEF F
  <2>4. QED
    BY <1>8, <2>2, <2>3
<1>10. upto \in [0 .. n -> Lists]
  <2> DEFINE N == {k \in 0 .. n : upto[k] \in Lists}
  <2>1. 0 \in N
    <3> HIDE DEF upto, n
    <3>1. upto[0] \in Lists
      BY <1>4, <1>9
    <3>2. 0 \in 0 .. n
      BY <1>2
    <3>3. QED
      BY <3>1, <3>2
  <2>2. ASSUME NEW k \in 1 .. n, k - 1 \in N PROVE k \in N
    <3>1. upto[k - 1] \in Lists /\ k \in 0 .. n
      BY <1>2, <2>2
    <3> HIDE DEF upto
    <3>2. QED
      BY <1>3, <1>9, <3>1
  <2>3. 0 .. n \subseteq N
    <3> HIDE DEF N, n, upto
    <3>1. QED
      BY <1>2, <2>1, <2>2, CountingUp
  <2>4. \A k \in 0 .. n : upto[k] \in Lists
    BY <2>3
  <2>5. upto = [k \in 0 .. n |-> upto[k]]
    <3> HIDE DEF upto
    <3>1. \A w : F(w) = [k \in 0 .. n |-> F(w)[k]]
      OBVIOUS
    <3> HIDE DEF F
    <3>2. QED
      BY <1>8, <3>1
  <2> HIDE DEF upto, n
  <2>6. QED
    BY <2>4, <2>5
<1> HIDE DEF upto
<1>11. QED
  BY <1>1, <1>9, <1>10

(* The loop adds what is missing of the ancestors of the class.            *)
LEMMA PullIs ==
    ASSUME Ordered, NEW l, Sound(l), NEW d \in DOMAIN cls, d \notin Ids(l), Ids(l) \subseteq DOMAIN cls,
           NEW add \in Adds,
           \A m, a : Sound(m) /\ Ids(m) \subseteq DOMAIN cls /\ a \in Ids(cls[d].anc) /\ a \notin Ids(m)
                       => Grown(m, a, add[<<m, a>>])
    PROVE  Grown(l, d, Pull(l, d, add))
<1> DEFINE n == Len(cls[d].anc)
           All == Ids(l) \cup {d} \cup Ids(cls[d].anc)
<1>1. l \in Lists /\ d \in Nat
  <2>1. d \in 1 .. Len(cls) /\ Len(cls) \in Nat
    BY DEF Ordered
  <2>2. QED
    BY <2>1 DEF Sound
<1>2. PICK u \in [0 .. n -> Lists] :
        /\ u[0] = Append(l, Ancestor(d))
        /\ \A k \in 1 .. n : u[k] = Round(l, d, add, k, u[k - 1])
        /\ Pull(l, d, add) = u[n]
  BY <1>1, PullRuns
<1>3. cls[d].anc \in Lists
  BY DEF Ordered
<1>4. n \in Nat /\ \A k \in 1 .. n : cls[d].anc[k].cls \in Ids(cls[d].anc)
  BY <1>3, ListHas DEF Ids
<1>5. \A a \in Ids(cls[d].anc) : a \in DOMAIN cls /\ a \in Nat /\ Ids(cls[a].anc) \subseteq Ids(cls[d].anc)
  <2>1. d \in 1 .. Len(cls) /\ Len(cls) \in Nat /\ DOMAIN cls = 1 .. Len(cls)
    BY DEF Ordered
  <2>2. \A a \in 1 .. (d - 1) : a \in DOMAIN cls /\ a \in Nat
    BY <2>1
  <2>3. QED
    BY <2>2 DEF Ordered
<1>6. All \subseteq DOMAIN cls
  BY <1>5
<1> DEFINE Done(k) == /\ Growing(l, d, u[k]) /\ Ids(l) \cup {d} \subseteq Ids(u[k])
                      /\ Ids(u[k]) \subseteq All
                      /\ \A j \in 1 .. k : cls[d].anc[j].cls \in Ids(u[k])
           N == {k \in 0 .. n : Done(k)}
<1>7. 0 \in N
  <2>1. Growing(l, d, u[0]) /\ Ids(u[0]) = Ids(l) \cup {d}
    <3>1. PICK m : m = Append(l, Ancestor(d)) /\ m = u[0]
      BY <1>2
    <3>2. Growing(l, d, m)
      BY <1>1, <3>1, PullBegins
    <3>3. Ids(m) = Ids(l) \cup {d}
      BY <1>1, <3>1, OneMoreEntry
    <3>4. QED
      BY <3>1, <3>2, <3>3
  <2>2. 1 .. 0 = {} /\ 0 \in 0 .. n
    BY <1>4
  <2>3. QED
    BY <2>1, <2>2
<1>8. ASSUME NEW k \in 1 .. n, k - 1 \in N PROVE k \in N
  <2>1. k \in Nat /\ k - 1 \in Nat /\ k \in 0 .. n /\ k - 1 \in 0 .. n
        /\ \A j \in 1 .. k : j = k \/ j \in 1 .. (k - 1)
    BY <1>4
  <2>2. Done(k - 1)
    BY <1>8
  <2>3. PICK m : m = u[k - 1]
    OBVIOUS
  <2>4. PICK a : a = cls[d].anc[k].cls
    OBVIOUS
  <2>5. /\ m \in Lists /\ Growing(l, d, m) /\ Ids(l) \cup {d} \subseteq Ids(m) /\ Ids(m) \subseteq All
        /\ \A j \in 1 .. (k - 1) : cls[d].anc[j].cls \in Ids(m)
    BY <1>2, <2>1, <2>2, <2>3
  <2>6. a \in Ids(cls[d].anc) /\ a \in Nat /\ Ids(cls[a].anc) \subseteq Ids(cls[d].anc)
    BY <1>4, <1>5, <2>4
  <2>7. u[k] = Round(l, d, add, k, m)
    BY <1>2, <2>3
  <2>8. CASE a \in Ids(m)
    <3>1. u[k] = m
      BY <2>4, <2>7, <2>8 DEF Round
    <3>2. \A j \in 1 .. k : cls[d].anc[j].cls \in Ids(m)
      BY <2>1, <2>4, <2>5, <2>8
    <3>3. Done(k)
      BY <2>5, <3>1, <3>2
    <3> HIDE DEF Done
    <3>4. QED
      BY <2>1, <3>3
  <2>9. CASE a \notin Ids(m)
    <3>1. PICK h : h = add[<<m, a>>]
      OBVIOUS
    <3>2. Grown(m, a, h)
      <4>1. Sound(m) /\ Ids(m) \subseteq DOMAIN cls
        BY <1>6, <2>5 DEF Growing
      <4> HIDE DEF All
      <4>2. QED
        BY <2>6, <2>9, <3>1, <4>1
    <3>3. u[k] = AddDep(h, Len(l) + 1, a)
      BY <2>4, <2>7, <2>9, <3>1 DEF Round
    <3>4. Growing(l, d, u[k]) /\ Ids(u[k]) = Ids(h)
      BY <1>1, <2>5, <2>6, <2>9, <3>2, <3>3, PullContinues DEF Grown
    <3>5. Ids(h) = Ids(m) \cup {a} \cup Ids(cls[a].anc)
      BY <3>2 DEF Grown
    <3>6. \A j \in 1 .. k : cls[d].anc[j].cls \in Ids(u[k])
      BY <2>1, <2>4, <2>5, <3>4, <3>5
    <3>7. Ids(l) \cup {d} \subseteq Ids(u[k]) /\ Ids(u[k]) \subseteq All
      BY <2>5, <2>6, <3>4, <3>5
    <3>8. Done(k)
      BY <3>4, <3>6, <3>7
    <3> HIDE DEF Done
    <3>9. QED
      BY <2>1, <3>8
  <2>10. QED
    BY <2>8, <2>9
<1>9. n \in N
  <2> HIDE DEF N, n
  <2>1. 0 .. n \subseteq N
    BY <1>4, <1>7, <1>8, CountingUp
  <2>2. n \in 0 .. n
    BY <1>4
  <2>3. QED
    BY <2>1, <2>2
<1>10. Done(n)
  BY <1>9
<1>11. Ids(cls[d].anc) \subseteq Ids(u[n])
  <2>1. ASSUME NEW x \in Ids(cls[d].anc) PROVE x \in Ids(u[n])
    <3>1. PICK j \in 1 .. n : cls[d].anc[j].cls = x
      BY <1>3, IdsAre
    <3>2. QED
      BY <1>10, <3>1
  <2>2. QED
    BY <2>1
<1>12. Growing(l, d, u[n]) /\ Ids(l) \cup {d} \subseteq Ids(u[n]) /\ Ids(u[n]) \subseteq All
  BY <1>10
<1>13. QED
  BY <1>2, <1>11, <1>12 DEF Grown

(* do_add, to a depth of k, of all classes to all lists.                   *)
AddAll(f) == [p \in Lists \X DOMAIN cls |-> IF p[2] \in Ids(p[1]) THEN p[1] ELSE Pull(p[1], p[2], f)]
First == [p \in Lists \X DOMAIN cls |-> p[1]]

LEMMA AddAllIs ==
    ASSUME Ordered, NEW f \in Adds
    PROVE  AddAll(f) \in Adds
<1>1. ASSUME NEW p \in Lists \X DOMAIN cls
      PROVE  (IF p[2] \in Ids(p[1]) THEN p[1] ELSE Pull(p[1], p[2], f)) \in Lists
  <2>1. PICK l \in Lists, d \in DOMAIN cls : l = p[1] /\ d = p[2]
    OBVIOUS
  <2>2. Len(cls[d].anc) \in 0 .. Len(cls[d].anc)
    <3>1. cls[d].anc \in Lists
      BY DEF Ordered
    <3>2. Len(cls[d].anc) \in Nat
      BY <3>1, ListHas
    <3>3. QED
      BY <3>2
  <2>3. Pull(l, d, f) \in Lists
    <3>1. PICK u \in [0 .. Len(cls[d].anc) -> Lists] : Pull(l, d, f) = u[Len(cls[d].anc)]
      BY PullRuns
    <3>2. QED
      BY <2>2, <3>1
  <2>4. QED
    BY <2>1, <2>3
<1>2. QED
  BY <1>1 DEF AddAll, Adds

LEMMA DoAddRuns ==
    ASSUME Ordered, NEW l, NEW c \in Nat
    PROVE  \E u \in [0 .. c -> Adds] :
             /\ u[0] = First
             /\ \A k \in 1 .. c : u[k] = AddAll(u[k - 1])
             /\ DoAdd(l, c) = u[c][<<l, c>>]
<1> DEFINE F(u) == [k \in 0 .. c |->
                      [p \in Lists \X DOMAIN cls |->
                         IF k = 0 \/ p[2] \in Ids(p[1]) THEN p[1] ELSE Pull(p[1], p[2], u[k - 1])]]
           upto == CHOOSE u : u = F(u)
           g == [k \in 1 .. c |-> [f \in Adds |-> AddAll(f)]]
<1>1. DoAdd(l, c) = upto[c][<<l, c>>]
  BY DEF DoAdd
<1>2. First \in Adds
  BY DEF First, Adds
<1>3. PICK f : Results(f, g, c, Adds, First)
  <2>1. Steps(g, c, Adds)
    BY AddAllIs DEF Steps
  <2> HIDE DEF g
  <2>2. QED
    BY <1>2, <2>1, Iteration
<1>4. ASSUME NEW k \in 1 .. c PROVE f[k] = AddAll(f[k - 1])
  <2>1. k - 1 \in 0 .. c
    OBVIOUS
  <2>2. f[k - 1] \in Adds /\ f[k] = g[k][f[k - 1]]
    BY <1>3, <2>1 DEF Results
  <2>3. QED
    BY <2>2
<1> DEFINE G(u, k) == [p \in Lists \X DOMAIN cls |->
                         IF k = 0 \/ p[2] \in Ids(p[1]) THEN p[1] ELSE Pull(p[1], p[2], u[k - 1])]
<1>5. ASSUME NEW u PROVE G(u, 0) = First /\ \A k \in 1 .. c : G(u, k) = AddAll(u[k - 1])
  BY DEF First, AddAll
<1>6. \A u : F(u) = [k \in 0 .. c |-> G(u, k)]
  OBVIOUS
<1> HIDE DEF F, G
<1>7. f = F(f)
  <2>1. f \in [0 .. c -> Adds] /\ f[0] = First
    BY <1>3 DEF Results
  <2>2. \A k \in 0 .. c : f[k] = G(f, k)
    BY <1>4, <1>5, <2>1
  <2>3. QED
    BY <1>6, <2>1, <2>2
<1>8. upto = F(upto)
  BY <1>7
<1> HIDE DEF upto
<1>9. upto = [k \in 0 .. c |-> G(upto, k)]
  BY <1>6, <1>8
<1>10. upto[0] = First /\ \A k \in 1 .. c : upto[k] = AddAll(upto[k - 1])
  <2>1. \A k \in 0 .. c : upto[k] = G(upto, k)
    BY <1>9
  <2>2. QED
    BY <1>5, <2>1
<1>11. upto \in [0 .. c -> Adds]
  <2> DEFINE N == {k \in 0 .. c : upto[k] \in Adds}
  <2>1. 0 \in N
    BY <1>2, <1>10
  <2>2. \A k \in 1 .. c : k - 1 \in N => k \in N
    BY <1>10, AddAllIs
  <2>3. 0 .. c \subseteq N
    <3> HIDE DEF N
    <3>1. QED
      BY <2>1, <2>2, CountingUp
  <2>4. \A k \in 0 .. c : G(upto, k) \in Adds
    BY <1>9, <2>3
  <2>5. QED
    BY <1>9, <2>4
<1>12. QED
  BY <1>1, <1>10, <1>11

LEMMA DoAddIs ==
    ASSUME Ordered, NEW l, Sound(l), Ids(l) \subseteq DOMAIN cls, NEW c \in DOMAIN cls
    PROVE  IF c \in Ids(l) THEN DoAdd(l, c) = l ELSE Grown(l, c, DoAdd(l, c))
<1>1. c \in Nat /\ c # 0
  <2>1. c \in 1 .. Len(cls) /\ Len(cls) \in Nat
    BY DEF Ordered
  <2>2. QED
    BY <2>1
<1>2. PICK u \in [0 .. c -> Adds] :
        /\ u[0] = First
        /\ \A k \in 1 .. c : u[k] = AddAll(u[k - 1])
        /\ DoAdd(l, c) = u[c][<<l, c>>]
  BY <1>1, DoAddRuns
<1> DEFINE Right(k) == \A m : \A a \in DOMAIN cls :
                         Sound(m) /\ Ids(m) \subseteq DOMAIN cls /\ a <= k /\ a \notin Ids(m)
                           => Grown(m, a, u[k][<<m, a>>])
           N == {k \in 0 .. c : Right(k)}
<1>3. 0 \in N
  <2>1. \A a \in DOMAIN cls : a \in Nat /\ ~(a <= 0)
    <3>1. Len(cls) \in Nat /\ DOMAIN cls = 1 .. Len(cls)
      BY DEF Ordered
    <3>2. QED
      BY <3>1
  <2>2. Right(0)
    BY <2>1
  <2>3. 0 \in 0 .. c
    BY <1>1
  <2> HIDE DEF Right
  <2>4. QED
    BY <2>2, <2>3
<1>4. ASSUME NEW k \in 1 .. c, k - 1 \in N PROVE k \in N
  <2>1. k \in 0 .. c /\ k - 1 \in 0 .. c /\ k \in Nat
    BY <1>1
  <2>2. Right(k - 1)
    BY <1>4
  <2>3. PICK f : f = u[k - 1]
    OBVIOUS
  <2>4. f \in Adds /\ u[k] = AddAll(f)
    BY <1>2, <2>1, <2>3
  <2>5. ASSUME NEW m, NEW a \in DOMAIN cls, Sound(m), Ids(m) \subseteq DOMAIN cls, a <= k, a \notin Ids(m)
        PROVE  Grown(m, a, u[k][<<m, a>>])
    <3>1. m \in Lists
      BY <2>5 DEF Sound
    <3>2. u[k][<<m, a>>] = Pull(m, a, f)
      BY <2>4, <2>5, <3>1 DEF AddAll
    <3>3. ASSUME NEW n, NEW b, Sound(n), Ids(n) \subseteq DOMAIN cls, b \in Ids(cls[a].anc), b \notin Ids(n)
          PROVE  Grown(n, b, f[<<n, b>>])
      <4>1. Len(cls) \in Nat /\ a \in 1 .. Len(cls) /\ b \in 1 .. (a - 1) /\ DOMAIN cls = 1 .. Len(cls)
        BY <3>3 DEF Ordered
      <4>2. b \in DOMAIN cls /\ b <= k - 1
        BY <2>1, <2>5, <4>1
      <4>3. QED
        BY <2>2, <2>3, <3>3, <4>2
    <3>4. QED
      BY <2>4, <2>5, <3>2, <3>3, PullIs
  <2>6. Right(k)
    BY <2>5
  <2> HIDE DEF Right
  <2>7. QED
    BY <2>1, <2>6
<1>5. Right(c)
  <2> HIDE DEF Right
  <2>1. 0 .. c \subseteq N
    <3> HIDE DEF N
    <3>1. QED
      BY <1>1, <1>3, <1>4, CountingUp
  <2>2. QED
    BY <1>1, <2>1
<1>6. CASE c \in Ids(l)
  <2>1. l \in Lists /\ c \in 1 .. c /\ c - 1 \in 0 .. c
    BY <1>1 DEF Sound
  <2>2. u[c] = AddAll(u[c - 1])
    BY <1>2, <2>1
  <2>3. DoAdd(l, c) = l
    BY <1>2, <1>6, <2>1, <2>2 DEF AddAll
  <2>4. QED
    BY <1>6, <2>3
<1>7. CASE c \notin Ids(l)
  <2>1. Grown(l, c, u[c][<<l, c>>])
    BY <1>1, <1>5, <1>7
  <2>2. QED
    BY <1>2, <1>7, <2>1
<1>8. QED
  BY <1>6, <1>7

---------------------------------------------------------------------------
(* The ancestry of a class, while it is built and after.                   *)

(* What is in every set of classes that has the parents of those it has.   *)
Closed(S) == \A a \in S \cap DOMAIN cls : ToSet(cls[a].parents) \subseteq S
Least(l, ps) ==
    \A S \in SUBSET Nat : ToSet(ps) \subseteq S /\ Closed(S) => Ids(l) \subseteq S \cup {UrSelf}

Injective(s) == \A i, j \in DOMAIN s : s[i] = s[j] => i = j

(* A list of ancestors and the parents among them; in one that is Nearly   *)
(* right class p is there without being a parent or pulled in.             *)
Flagged(l, a) == \E i \in DOMAIN l : l[i].parent = TRUE /\ l[i].cls = a
Complete(l) == Sound(l) /\ \A a \in Ids(l) : a \in DOMAIN cls /\ Ids(cls[a].anc) \subseteq Ids(l)
Parents(l, ps) == ps \in Seq(Nat) /\ Injective(ps) /\ \A a : a \in ToSet(ps) <=> Flagged(l, a)
Family(l, ps) ==
    /\ Complete(l)
    /\ Parents(l, ps)
    /\ \A a \in Ids(l) : a \in ToSet(ps) \cup {UrSelf} \/ PulledIn(l, 0, a)
    /\ Least(l, ps)
Nearly(l, ps, p) ==
    /\ Complete(l)
    /\ Parents(l, ps)
    /\ p \in Ids(l)
    /\ \A a \in Ids(l) : a \in ToSet(ps) \cup {UrSelf, p} \/ PulledIn(l, 0, a)
    /\ \A S \in SUBSET Nat : ToSet(ps) \subseteq S /\ p \in S /\ Closed(S) => Ids(l) \subseteq S \cup {UrSelf}

Built ==
    /\ Len(cls) \in Nat /\ DOMAIN cls = 1 .. Len(cls)
    /\ \A c \in DOMAIN cls :
         Family(cls[c].anc, cls[c].parents) /\ Ids(cls[c].anc) \subseteq 1 .. (c - 1)

LEMMA BuiltOrdered ==
    ASSUME Built
    PROVE  Ordered
<1>1. ASSUME NEW d \in DOMAIN cls
      PROVE  cls[d].anc \in Lists /\ \A a \in Ids(cls[d].anc) : a \in 1 .. (d - 1) /\ Ids(cls[a].anc) \subseteq Ids(cls[d].anc)
  <2>1. Complete(cls[d].anc) /\ Ids(cls[d].anc) \subseteq 1 .. (d - 1)
    BY DEF Built, Family
  <2>2. QED
    BY <2>1 DEF Complete, Sound
<1>2. QED
  BY <1>1 DEF Built, Ordered

(* The parents of a class are ancestors.                                   *)
LEMMA ParentsAreIds ==
    ASSUME NEW l, NEW ps, Parents(l, ps)
    PROVE  ToSet(ps) \subseteq Ids(l)
  BY DEF Parents, Flagged, Ids

LEMMA OneMoreParent ==
    ASSUME NEW ps \in Seq(Nat), NEW p \in Nat
    PROVE  /\ Append(ps, p) \in Seq(Nat)
           /\ \A a : a \in ToSet(Append(ps, p)) <=> a \in ToSet(ps) \/ a = p
           /\ Injective(ps) /\ p \notin ToSet(ps) => Injective(Append(ps, p))
<1> DEFINE qs == Append(ps, p)
           n == Len(ps) + 1
<1>1. qs \in Seq(Nat) /\ Len(qs) = n /\ (\A i \in 1 .. Len(ps) : qs[i] = ps[i]) /\ qs[n] = p
  BY AppendProperties
<1>2. Len(ps) \in Nat /\ DOMAIN ps = 1 .. Len(ps) /\ DOMAIN qs = 1 .. n
  BY <1>1
<1> HIDE DEF qs
<1>3. \A i \in DOMAIN qs : i = n \/ (i # n /\ i \in DOMAIN ps /\ qs[i] = ps[i])
  BY <1>1, <1>2
<1>4. n \in DOMAIN qs /\ \A i \in DOMAIN ps : i \in DOMAIN qs /\ qs[i] = ps[i]
  BY <1>1, <1>2
<1>5. \A a : a \in ToSet(qs) <=> a \in ToSet(ps) \/ a = p
  BY <1>1, <1>3, <1>4 DEF ToSet
<1>6. ASSUME Injective(ps), p \notin ToSet(ps) PROVE Injective(qs)
  BY <1>1, <1>3, <1>6 DEF Injective, ToSet
<1>7. QED
  BY <1>1, <1>5, <1>6 DEF qs

(* An ancestor that becomes a parent.                                      *)
LEMMA OneIsParent ==
    ASSUME NEW h \in Lists, NEW n \in DOMAIN h, NEW r, r = SetParent(h, n)
    PROVE  /\ r \in Lists /\ DOMAIN r = DOMAIN h
           /\ \A i \in DOMAIN h : r[i].cls = h[i].cls /\ r[i].deps = h[i].deps
           /\ \A i \in DOMAIN h : r[i].parent = TRUE <=> i = n \/ h[i].parent = TRUE
<1>1. h \in Seq(Entries)
  BY DEF Lists, Entries
<1>2. PICK e : e = [h[n] EXCEPT !.parent = TRUE]
  OBVIOUS
<1>3. r = [h EXCEPT ![n] = e]
  BY <1>2 DEF SetParent
<1>4. h[n] \in Entries /\ DOMAIN h = 1 .. Len(h)
  BY <1>1
<1>5. e \in Entries /\ e.cls = h[n].cls /\ e.deps = h[n].deps /\ e.parent = TRUE
  BY <1>2, <1>4 DEF Entries
<1>6. r \in Seq(Entries)
  BY <1>1, <1>3, <1>5, Replaced
<1>7. DOMAIN r = DOMAIN h /\ \A i \in 1 .. Len(h) : r[i] = IF i = n THEN e ELSE h[i]
  BY <1>1, <1>3, <1>4, <1>5, Replaced
<1>8. QED
  BY <1>4, <1>5, <1>6, <1>7 DEF Lists, Entries

LEMMA ParentMakesFamily ==
    ASSUME Built, NEW l, NEW ps, NEW p, Nearly(l, ps, p),
           NEW n \in DOMAIN l, l[n].cls = p, l[n].parent = FALSE
    PROVE  Family(SetParent(l, n), Append(ps, p)) /\ p \in Ids(SetParent(l, n))
<1>1. PICK r : r = SetParent(l, n)
  OBVIOUS
<1>2. l \in Lists /\ Sound(l) /\ Complete(l) /\ p \in Nat /\ ps \in Seq(Nat)
  <2>1. l \in Lists
    BY DEF Nearly, Complete, Sound
  <2>2. p \in Nat
    BY <2>1, IdsAre DEF Nearly
  <2>3. QED
    BY <2>1, <2>2 DEF Nearly, Complete, Parents
<1>3. /\ r \in Lists /\ DOMAIN r = DOMAIN l
      /\ \A i \in DOMAIN l : r[i].cls = l[i].cls /\ r[i].deps = l[i].deps
      /\ \A i \in DOMAIN l : r[i].parent = TRUE <=> i = n \/ l[i].parent = TRUE
  <2>1. l \in Lists /\ n \in DOMAIN l /\ r = SetParent(l, n)
    BY <1>1, <1>2
  <2>2. r \in Lists
    BY ONLY <2>1, OneIsParent
  <2>3. DOMAIN r = DOMAIN l
    BY ONLY <2>1, OneIsParent
  <2>4. \A i \in DOMAIN l : r[i].cls = l[i].cls
    BY ONLY <2>1, OneIsParent
  <2>5. \A i \in DOMAIN l : r[i].deps = l[i].deps
    BY ONLY <2>1, OneIsParent
  <2>6. \A i \in DOMAIN l : r[i].parent = TRUE <=> i = n \/ l[i].parent = TRUE
    BY ONLY <2>1, OneIsParent
  <2>7. QED
    BY <2>2, <2>3, <2>4, <2>5, <2>6
<1>4. Ids(r) = Ids(l)
  BY <1>3 DEF Ids
<1>5. Sound(r)
  <2>1. Distinct(r)
    BY <1>2, <1>3 DEF Sound, Distinct
  <2>2. DepsLater(r)
    BY <1>2, <1>3 DEF Sound, DepsLater
  <2>3. DepsOnce(r)
    BY <1>2, <1>3 DEF Sound, DepsOnce
  <2>4. QED
    BY <1>3, <2>1, <2>2, <2>3 DEF Sound
<1>6. Complete(r)
  BY <1>2, <1>4, <1>5 DEF Complete
<1>7. \A a : PulledIn(l, 0, a) => PulledIn(r, 0, a)
  BY <1>3 DEF PulledIn
<1>8. \A a : Flagged(r, a) <=> Flagged(l, a) \/ a = p
  BY <1>3 DEF Flagged
<1>9. p \notin ToSet(ps)
  <2>1. ASSUME NEW i \in DOMAIN l, l[i].parent = TRUE, l[i].cls = p PROVE FALSE
    BY <1>2, <2>1 DEF Sound, Distinct
  <2>2. QED
    BY <2>1 DEF Nearly, Parents, Flagged
<1>10. PICK qs : qs = Append(ps, p)
  OBVIOUS
<1>11. qs \in Seq(Nat) /\ Injective(qs) /\ \A a : a \in ToSet(qs) <=> a \in ToSet(ps) \/ a = p
  BY <1>2, <1>9, <1>10, OneMoreParent DEF Nearly, Parents
<1>12. Parents(r, qs)
  BY <1>8, <1>11 DEF Nearly, Parents
<1>13. \A a \in Ids(r) : a \in ToSet(qs) \cup {UrSelf} \/ PulledIn(r, 0, a)
  BY <1>4, <1>7, <1>11 DEF Nearly
<1>14. Least(r, qs)
  BY <1>4, <1>11 DEF Nearly, Least
<1>15. p \in Ids(r)
  BY <1>4 DEF Nearly
<1>16. QED
  BY <1>1, <1>6, <1>10, <1>12, <1>13, <1>14, <1>15 DEF Family

(* What do_add adds keeps what it needs to be the ancestry of a class.     *)
LEMMA GrownIsNearly ==
    ASSUME Built, NEW l, NEW ps, Family(l, ps), NEW p \in DOMAIN cls, NEW m, Grown(l, p, m)
    PROVE  Nearly(m, ps, p)
<1>1. l \in Lists /\ Sound(l) /\ Sound(m) /\ m \in Lists
  BY DEF Family, Complete, Sound, Grown, Growing
<1>2. Ids(m) = Ids(l) \cup {p} \cup Ids(cls[p].anc)
  BY DEF Grown
<1>3. /\ Len(l) \in Nat /\ DOMAIN l = 1 .. Len(l) /\ Len(m) \in Nat /\ DOMAIN m = 1 .. Len(m)
      /\ Len(l) < Len(m) /\ \A i \in DOMAIN l : m[i] = l[i]
      /\ m[Len(l) + 1].cls = p
      /\ \A i \in DOMAIN m : i > Len(l) =>
           /\ m[i].parent = FALSE
           /\ i = Len(l) + 1 \/ PulledIn(m, Len(l), m[i].cls)
  BY <1>1, ListHas DEF Grown, Growing
<1>4. \A i \in DOMAIN m : i \in DOMAIN l \/ i > Len(l)
  BY <1>3
<1>5. \A i \in DOMAIN l : i \in DOMAIN m
  BY <1>3
<1>6. Family(cls[p].anc, cls[p].parents)
  BY DEF Built
<1>7. Complete(m)
  BY <1>1, <1>2, <1>6 DEF Family, Complete
<1>8. \A a : Flagged(m, a) <=> Flagged(l, a)
  BY <1>3, <1>4, <1>5 DEF Flagged
<1>9. \A a : PulledIn(l, 0, a) => PulledIn(m, 0, a)
  BY <1>3, <1>5 DEF PulledIn
<1>10. \A a : PulledIn(m, Len(l), a) => PulledIn(m, 0, a)
  BY <1>3 DEF PulledIn
<1>11. ASSUME NEW a \in Ids(m) PROVE a \in ToSet(ps) \cup {UrSelf, p} \/ PulledIn(m, 0, a)
  <2>1. PICK i \in DOMAIN m : m[i].cls = a
    BY DEF Ids
  <2>2. CASE i \in DOMAIN l
    <3>1. a \in Ids(l)
      BY <1>3, <2>1, <2>2 DEF Ids
    <3>2. QED
      BY <1>9, <3>1 DEF Family
  <2>3. CASE i > Len(l)
    BY <1>3, <1>10, <2>1, <2>3
  <2>4. QED
    BY <1>4, <2>2, <2>3
<1>12. ASSUME NEW S \in SUBSET Nat, ToSet(ps) \subseteq S, p \in S, Closed(S)
       PROVE  Ids(m) \subseteq S \cup {UrSelf}
  <2>1. Ids(l) \subseteq S \cup {UrSelf}
    BY <1>12 DEF Family, Least
  <2>2. ToSet(cls[p].parents) \subseteq S
    BY <1>12 DEF Closed
  <2>3. Ids(cls[p].anc) \subseteq S \cup {UrSelf}
    BY <1>6, <1>12, <2>2 DEF Family, Least
  <2>4. QED
    BY <1>2, <1>12, <2>1, <2>3
<1>13. QED
  BY <1>2, <1>7, <1>8, <1>11, <1>12 DEF Family, Nearly, Parents

LEMMA AtIs ==
    ASSUME NEW l, Distinct(l), NEW i \in DOMAIN l
    PROVE  At(l, l[i].cls) = i
<1>1. At(l, l[i].cls) \in DOMAIN l /\ l[At(l, l[i].cls)].cls = l[i].cls
  BY DEF At
<1>2. QED
  BY <1>1 DEF Distinct

Ancestries == {x \in [anc : Lists, parents : Seq(Nat)] : Family(x.anc, x.parents)}

LEMMA AddParentIs ==
    ASSUME Built, NEW x \in Ancestries, NEW p \in DOMAIN cls
    PROVE  AddParent(x, p) \in Ancestries
<1>1. PICK l, ps : l = x.anc /\ ps = x.parents
  OBVIOUS
<1>2. Family(l, ps) /\ l \in Lists /\ ps \in Seq(Nat)
  BY <1>1 DEF Ancestries
<1>3. PICK m : m = DoAdd(l, p)
  OBVIOUS
<1>4. IF p \in Ids(l) THEN m = l ELSE Grown(l, p, m)
  <2>1. Sound(l) /\ Ids(l) \subseteq DOMAIN cls
    BY <1>2 DEF Family, Complete
  <2>2. QED
    BY <1>3, <2>1, BuiltOrdered, DoAddIs
<1>5. Nearly(m, ps, p)
  <2>1. CASE p \in Ids(l)
    BY <1>2, <1>4, <2>1 DEF Family, Nearly, Least
  <2>2. CASE p \notin Ids(l)
    BY <1>2, <1>4, <2>2, GrownIsNearly
  <2>3. QED
    BY <2>1, <2>2
<1>6. PICK n \in DOMAIN m : m[n].cls = p
  BY <1>5 DEF Nearly, Ids
<1>7. At(m, p) = n /\ m[n].parent \in BOOLEAN
  <2>1. Distinct(m) /\ m \in Lists
    BY <1>5 DEF Nearly, Complete, Sound
  <2>2. At(m, m[n].cls) = n
    BY <2>1, AtIs
  <2>3. m[n].parent \in BOOLEAN
    BY <2>1, ListHas
  <2>4. QED
    BY <1>6, <2>2, <2>3
<1>8. CASE m[n].parent = TRUE
  <2>1. AddParent(x, p) = x
    BY <1>1, <1>3, <1>7, <1>8 DEF AddParent
  <2>2. QED
    BY <2>1
<1>9. CASE m[n].parent = FALSE
  <2>1. PICK r, qs : r = SetParent(m, n) /\ qs = Append(ps, p)
    OBVIOUS
  <2>2. Family(r, qs)
    BY <1>5, <1>6, <1>9, <2>1, ParentMakesFamily
  <2>3. r \in Lists /\ qs \in Seq(Nat)
    BY <2>2 DEF Family, Complete, Sound, Parents
  <2>4. AddParent(x, p) = [anc |-> r, parents |-> qs]
    BY <1>1, <1>3, <1>7, <1>9, <2>1 DEF AddParent
  <2>5. QED
    BY <2>2, <2>3, <2>4 DEF Ancestries
<1>10. QED
  BY <1>7, <1>8, <1>9

LEMMA NoneIsFamily ==
    NoAncestors \in Ancestries
<1>1. NoAncestors.anc = <<>> /\ NoAncestors.parents = <<>> /\ NoAncestors = [anc |-> <<>>, parents |-> <<>>]
  BY DEF NoAncestors
<1>2. <<>> \in Seq(Nat) /\ DOMAIN <<>> = {}
  OBVIOUS
<1>3. <<>> \in Lists
  BY DEF Lists
<1>4. Ids(<<>>) = {} /\ ToSet(<<>>) = {}
  BY <1>2 DEF Ids, ToSet
<1>5. Family(<<>>, <<>>)
  <2>1. Complete(<<>>)
    BY <1>2, <1>3, <1>4 DEF Complete, Sound, Distinct, DepsLater, DepsOnce
  <2>2. Parents(<<>>, <<>>)
    BY <1>2, <1>4 DEF Parents, Injective, Flagged
  <2>3. QED
    BY <1>4, <2>1, <2>2 DEF Family, Least
<1>6. QED
  BY <1>1, <1>2, <1>3, <1>5 DEF Ancestries

(* The parents of a class, one after another, make it a family.            *)
LEMMA AncestryOfIs ==
    ASSUME Built, NEW ps \in Seq(DOMAIN cls)
    PROVE  AncestryOf(ps) \in Ancestries
<1> DEFINE n == Len(ps)
           F(u) == [k \in 0 .. n |-> IF k = 0 THEN NoAncestors ELSE AddParent(u[k - 1], ps[k])]
           upto == CHOOSE u : u = F(u)
           g == [k \in 1 .. n |-> [x \in Ancestries |-> AddParent(x, ps[k])]]
<1>1. AncestryOf(ps) = upto[n]
  BY DEF AncestryOf
<1>2. n \in Nat /\ \A k \in 1 .. n : ps[k] \in DOMAIN cls
  OBVIOUS
<1>3. PICK f : Results(f, g, n, Ancestries, NoAncestors)
  <2>1. Steps(g, n, Ancestries)
    BY <1>2, AddParentIs DEF Steps
  <2> HIDE DEF g, n
  <2>2. QED
    BY <1>2, <2>1, NoneIsFamily, Iteration
<1>4. ASSUME NEW k \in 1 .. n PROVE f[k] = AddParent(f[k - 1], ps[k])
  <2>1. k - 1 \in 0 .. n
    BY <1>2
  <2>2. f[k - 1] \in Ancestries /\ f[k] = g[k][f[k - 1]]
    BY <1>3, <2>1 DEF Results
  <2>3. QED
    BY <2>2
<1>5. f = F(f)
  <2>1. f \in [0 .. n -> Ancestries] /\ f[0] = NoAncestors
    BY <1>3 DEF Results
  <2>2. \A k \in 0 .. n : k = 0 \/ k \in 1 .. n
    BY <1>2
  <2> HIDE DEF n
  <2>3. QED
    BY <1>4, <2>1, <2>2
<1> HIDE DEF n
<1>6. upto = F(upto)
  <2> HIDE DEF F
  <2>1. QED
    BY <1>5
<1>7. upto[0] = NoAncestors /\ \A k \in 1 .. n : upto[k] = AddParent(upto[k - 1], ps[k])
  <2> HIDE DEF upto
  <2>1. F(upto)[0] = NoAncestors /\ \A k \in 1 .. n : F(upto)[k] = AddParent(upto[k - 1], ps[k])
    BY <1>2
  <2> HIDE DEF F
  <2>2. QED
    BY <1>6, <2>1
<1> HIDE DEF upto
<1> DEFINE N == {k \in 0 .. n : upto[k] \in Ancestries}
<1>8. 0 \in N
  BY <1>2, <1>7, NoneIsFamily
<1>9. \A k \in 1 .. n : k - 1 \in N => k \in N
  BY <1>2, <1>7, AddParentIs
<1>10. 0 .. n \subseteq N
  <2> HIDE DEF N
  <2>1. QED
    BY <1>2, <1>8, <1>9, CountingUp
<1>11. QED
  BY <1>1, <1>2, <1>10

(* The common base is added last, unless the class is that.                *)
LEMMA WithCommonBaseIs ==
    ASSUME Built, NEW l, NEW ps, Family(l, ps), NEW c \in Nat, c = Len(cls) + 1
    PROVE  /\ Family(WithCommonBase(l, c), ps)
           /\ UrSelf \in {0, c} \/ UrSelf \in Ids(WithCommonBase(l, c))
<1>1. CASE UrSelf \in {0, c}
  BY <1>1 DEF WithCommonBase
<1>2. CASE UrSelf \notin {0, c}
  <2>1. UrSelf = 1 /\ UrSelf \in DOMAIN cls
    BY <1>2, UrSelfAssumption DEF Built
  <2>2. PICK m : m = DoAdd(l, UrSelf) /\ m = WithCommonBase(l, c)
    BY <1>2 DEF WithCommonBase
  <2>3. IF UrSelf \in Ids(l) THEN m = l ELSE Grown(l, UrSelf, m)
    <3>1. Sound(l) /\ Ids(l) \subseteq DOMAIN cls
      BY DEF Family, Complete
    <3>2. QED
      BY <2>1, <2>2, <3>1, BuiltOrdered, DoAddIs
  <2>4. CASE UrSelf \in Ids(l)
    BY <2>2, <2>3, <2>4
  <2>5. CASE UrSelf \notin Ids(l)
    <3>1. Nearly(m, ps, UrSelf)
      BY <2>1, <2>3, <2>5, GrownIsNearly
    <3>2. ToSet(cls[UrSelf].parents) = {}
      <4>1. Ids(cls[UrSelf].anc) \subseteq 1 .. 0 /\ Family(cls[UrSelf].anc, cls[UrSelf].parents)
        BY <2>1 DEF Built
      <4>2. QED
        BY <4>1, ParentsAreIds DEF Family
    <3>3. Least(m, ps)
      <4> SUFFICES ASSUME NEW S \in SUBSET Nat, ToSet(ps) \subseteq S, Closed(S)
                   PROVE  Ids(m) \subseteq S \cup {UrSelf}
        BY DEF Least
      <4> DEFINE T == S \cup {UrSelf}
      <4>1. T \in SUBSET Nat /\ ToSet(ps) \subseteq T /\ UrSelf \in T
        BY <2>1
      <4>2. Closed(T)
        BY <3>2 DEF Closed
      <4>3. Ids(m) \subseteq T \cup {UrSelf}
        <5> HIDE DEF T
        <5>1. QED
          BY <3>1, <4>1, <4>2 DEF Nearly
      <4>4. QED
        BY <4>3
    <3>4. Family(m, ps)
      BY <3>1, <3>3 DEF Nearly, Family
    <3>5. QED
      BY <2>2, <3>1, <3>4 DEF Nearly
  <2>6. QED
    BY <2>4, <2>5
<1>3. QED
  BY <1>1, <1>2

---------------------------------------------------------------------------
(* The properties of a class, its own and inherited.                       *)

Pairs == Nat \X Nat
OwnOf(d, r) == {<<d, k>> : k \in DOMAIN r.widths}
Widths == Seq(Nat \ {0})

LEMMA OwnPropsAre ==
    ASSUME NEW d \in Nat, NEW r, r.widths \in Widths
    PROVE  /\ OwnProps(d, r) \in Seq(Pairs) /\ Injective(OwnProps(d, r))
           /\ ToSet(OwnProps(d, r)) = OwnOf(d, r)
<1> DEFINE n == Len(r.widths)
           s == OwnProps(d, r)
<1>1. n \in Nat /\ DOMAIN r.widths = 1 .. n
  BY DEF Widths
<1>2. s = [k \in 1 .. n |-> <<d, k>>]
  BY <1>1 DEF OwnProps
<1> HIDE DEF s, n
<1>3. s \in [1 .. n -> Pairs] /\ DOMAIN s = 1 .. n
  BY <1>1, <1>2 DEF Pairs
<1>4. s \in Seq(Pairs)
  BY <1>1, <1>3, SeqDef
<1>5. Injective(s)
  BY <1>2 DEF Injective
<1>6. ToSet(s) = OwnOf(d, r)
  BY <1>1, <1>2 DEF ToSet, OwnOf
<1>7. QED
  BY <1>4, <1>5, <1>6 DEF s

LEMMA Joined ==
    ASSUME NEW T, NEW s \in Seq(T), NEW t \in Seq(T)
    PROVE  /\ s \o t \in Seq(T)
           /\ ToSet(s \o t) = ToSet(s) \cup ToSet(t)
           /\ Injective(s) /\ Injective(t) /\ ToSet(s) \cap ToSet(t) = {} => Injective(s \o t)
<1> DEFINE u == s \o t
           m == Len(s)
           n == Len(t)
<1>1. /\ m \in Nat /\ n \in Nat /\ DOMAIN s = 1 .. m /\ DOMAIN t = 1 .. n
      /\ u \in Seq(T) /\ DOMAIN u = 1 .. (m + n)
      /\ \A i \in 1 .. (m + n) : u[i] = IF i <= m THEN s[i] ELSE t[i - m]
  OBVIOUS
<1> HIDE DEF u, m, n
<1>2. \A i \in DOMAIN u : \/ i \in DOMAIN s /\ u[i] = s[i] /\ i <= m
                          \/ i - m \in DOMAIN t /\ u[i] = t[i - m] /\ i > m
  BY <1>1
<1>3. \A i \in DOMAIN s : i \in DOMAIN u /\ u[i] = s[i]
  BY <1>1
<1>4. ASSUME NEW i \in DOMAIN t PROVE i + m \in DOMAIN u /\ u[i + m] = t[i]
  <2>1. i + m \in 1 .. (m + n) /\ ~(i + m <= m) /\ (i + m) - m = i
    BY <1>1
  <2>2. QED
    BY <1>1, <2>1
<1>5. ToSet(u) = ToSet(s) \cup ToSet(t)
  BY <1>2, <1>3, <1>4 DEF ToSet
<1>6. ASSUME Injective(s), Injective(t), ToSet(s) \cap ToSet(t) = {} PROVE Injective(u)
  <2> SUFFICES ASSUME NEW i \in DOMAIN u, NEW j \in DOMAIN u, u[i] = u[j] PROVE i = j
    BY DEF Injective
  <2>1. i \in Nat /\ j \in Nat
    BY <1>1
  <2>2. CASE i <= m /\ j <= m
    <3>1. i \in DOMAIN s /\ u[i] = s[i] /\ j \in DOMAIN s /\ u[j] = s[j]
      BY <1>1, <1>2, <2>1, <2>2
    <3>2. QED
      BY <1>6, <3>1 DEF Injective
  <2>3. CASE i > m /\ j > m
    <3>1. i - m \in DOMAIN t /\ u[i] = t[i - m] /\ j - m \in DOMAIN t /\ u[j] = t[j - m]
      BY <1>1, <1>2, <2>1, <2>3
    <3>2. i - m = j - m
      BY <1>6, <3>1 DEF Injective
    <3>3. QED
      BY <1>1, <2>1, <3>2
  <2>4. CASE (i <= m /\ j > m) \/ (i > m /\ j <= m)
    <3>1. \A e \in DOMAIN u : e <= m => u[e] \in ToSet(s)
      BY <1>1, <1>2 DEF ToSet
    <3>2. \A e \in DOMAIN u : e > m => u[e] \in ToSet(t)
      BY <1>1, <1>2 DEF ToSet
    <3>3. QED
      BY <1>6, <2>4, <3>1, <3>2
  <2>5. QED
    BY <1>1, <2>1, <2>2, <2>3, <2>4
<1>7. QED
  BY <1>1, <1>5, <1>6 DEF u

(* The classes whose properties are added one after another.               *)
From(r, k) == IF k <= Len(r.parents) THEN r.parents[k] ELSE r.anc[k - Len(r.parents)].cls
Skipped(r, k) == k > Len(r.parents) /\ r.anc[k - Len(r.parents)].parent = TRUE
Rounds(r) == Len(r.parents) + Len(r.anc)

LEMMA FromIs ==
    ASSUME Built, NEW r, Family(r.anc, r.parents)
    PROVE  /\ Rounds(r) \in Nat
           /\ \A k \in 1 .. Rounds(r) : ~Skipped(r, k) => From(r, k) \in Ids(r.anc)
           /\ \A j, k \in 1 .. Rounds(r) : ~Skipped(r, j) /\ ~Skipped(r, k) /\ From(r, j) = From(r, k) => j = k
           /\ \A a \in Ids(r.anc) : \E k \in 1 .. Rounds(r) : ~Skipped(r, k) /\ From(r, k) = a
<1> DEFINE n == Len(r.parents)
           m == Len(r.anc)
<1>1. r.anc \in Lists /\ r.parents \in Seq(Nat) /\ Distinct(r.anc) /\ Parents(r.anc, r.parents)
  BY DEF Family, Complete, Sound, Parents
<1>2. n \in Nat /\ m \in Nat /\ DOMAIN r.parents = 1 .. n /\ DOMAIN r.anc = 1 .. m /\ Rounds(r) = n + m
  <2>1. m \in Nat /\ DOMAIN r.anc = 1 .. m
    BY <1>1, ListHas
  <2>2. n \in Nat /\ DOMAIN r.parents = 1 .. n
    BY <1>1
  <2>3. QED
    BY <2>1, <2>2 DEF Rounds
<1>3. \A i \in DOMAIN r.anc : r.anc[i].parent = TRUE <=> r.anc[i].cls \in ToSet(r.parents)
  BY <1>1 DEF Parents, Flagged, Distinct
<1>4. ASSUME NEW k \in 1 .. Rounds(r), ~Skipped(r, k)
      PROVE  \/ k \in DOMAIN r.parents /\ From(r, k) = r.parents[k] /\ From(r, k) \in ToSet(r.parents)
             \/ k - n \in DOMAIN r.anc /\ From(r, k) = r.anc[k - n].cls /\ From(r, k) \notin ToSet(r.parents) /\ k > n
  <2>1. CASE k <= n
    <3>1. k \in DOMAIN r.parents
      BY <1>2, <2>1
    <3>2. QED
      BY <2>1, <3>1 DEF From, ToSet
  <2>2. CASE k > n
    <3>1. k - n \in DOMAIN r.anc /\ ~(k <= n)
      <4> HIDE DEF n, m
      <4>1. k \in Nat /\ k <= n + m
        BY <1>2
      <4>2. k - n \in 1 .. m /\ ~(k <= n)
        BY <1>2, <2>2, <4>1
      <4>3. QED
        BY <1>2, <4>2
    <3>2. From(r, k) = r.anc[k - n].cls /\ ~(r.anc[k - n].parent = TRUE)
      BY <1>4, <2>2, <3>1 DEF From, Skipped
    <3>3. QED
      BY <1>3, <2>2, <3>1, <3>2
  <2>3. QED
    BY <1>2, <2>1, <2>2
<1> HIDE DEF n, m
<1>5. ToSet(r.parents) \subseteq Ids(r.anc)
  BY <1>1, ParentsAreIds
<1>6. ASSUME NEW k \in 1 .. Rounds(r), ~Skipped(r, k) PROVE From(r, k) \in Ids(r.anc)
  BY <1>4, <1>5, <1>6 DEF Ids
<1>7. ASSUME NEW j \in 1 .. Rounds(r), NEW k \in 1 .. Rounds(r), ~Skipped(r, j), ~Skipped(r, k),
             From(r, j) = From(r, k)
      PROVE  j = k
  <2>1. CASE From(r, j) \in ToSet(r.parents)
    <3>1. j \in DOMAIN r.parents /\ k \in DOMAIN r.parents /\ r.parents[j] = r.parents[k]
      BY <1>4, <1>7, <2>1
    <3>2. QED
      BY <1>1, <3>1 DEF Parents, Injective
  <2>2. CASE From(r, j) \notin ToSet(r.parents)
    <3>1. j - n \in DOMAIN r.anc /\ k - n \in DOMAIN r.anc /\ r.anc[j - n].cls = r.anc[k - n].cls
      BY <1>4, <1>7, <2>2
    <3>2. j - n = k - n
      BY <1>1, <3>1 DEF Distinct
    <3>3. j \in Nat /\ k \in Nat
      BY <1>2
    <3>4. QED
      BY <1>2, <3>2, <3>3
  <2>3. QED
    BY <2>1, <2>2
<1>8. ASSUME NEW a \in Ids(r.anc) PROVE \E k \in 1 .. Rounds(r) : ~Skipped(r, k) /\ From(r, k) = a
  <2>1. CASE a \in ToSet(r.parents)
    <3>1. PICK k \in DOMAIN r.parents : r.parents[k] = a
      BY <2>1 DEF ToSet
    <3>2. k \in 1 .. Rounds(r) /\ k <= n /\ ~(k > n)
      BY <1>2
    <3>3. QED
      BY <3>1, <3>2 DEF n, Skipped, From
  <2>2. CASE a \notin ToSet(r.parents)
    <3>1. PICK i \in DOMAIN r.anc : r.anc[i].cls = a
      BY DEF Ids
    <3>2. ~(r.anc[i].parent = TRUE)
      BY <1>3, <2>2, <3>1
    <3>3. i + n \in 1 .. Rounds(r) /\ (i + n) - n = i /\ i + n > n /\ ~(i + n <= n)
      BY <1>2
    <3>4. QED
      BY <3>1, <3>2, <3>3 DEF n, Skipped, From
  <2>3. QED
    BY <2>1, <2>2
<1>9. QED
  BY <1>2, <1>6, <1>7, <1>8

(* All properties: each once, those of the class and those of each of its  *)
(* ancestors.                                                              *)
AllOf(c, r) == OwnOf(c, r) \cup UNION {OwnOf(a, cls[a]) : a \in Ids(r.anc)}

LEMMA AllPropsAre ==
    ASSUME Built, \A a \in DOMAIN cls : cls[a].widths \in Widths,
           NEW c \in Nat, c \notin DOMAIN cls,
           NEW r, r.widths \in Widths, Family(r.anc, r.parents)
    PROVE  /\ AllProps(c, r) \in Seq(Pairs) /\ Injective(AllProps(c, r))
           /\ ToSet(AllProps(c, r)) = AllOf(c, r)
<1> DEFINE n == Rounds(r)
           S == Seq(Pairs)
           Next1(s, k) == IF Skipped(r, k) THEN s ELSE s \o OwnProps(From(r, k), cls[From(r, k)])
           F(u) == [k \in 0 .. n |-> IF k = 0 THEN OwnProps(c, r) ELSE Next1(u[k - 1], k)]
           E(u) == [k \in 0 .. (Len(r.parents) + Len(r.anc)) |->
                      CASE k = 0 -> OwnProps(c, r)
                        [] k > Len(r.parents) /\ r.anc[k - Len(r.parents)].parent -> u[k - 1]
                        [] OTHER -> u[k - 1] \o
                             OwnProps(IF k <= Len(r.parents) THEN r.parents[k] ELSE r.anc[k - Len(r.parents)].cls,
                                      cls[IF k <= Len(r.parents) THEN r.parents[k] ELSE r.anc[k - Len(r.parents)].cls])]
           upto == CHOOSE u : u = F(u)
           g == [k \in 1 .. n |-> [s \in S |-> Next1(s, k)]]
<1>1. /\ n \in Nat
      /\ \A k \in 1 .. n : ~Skipped(r, k) => From(r, k) \in Ids(r.anc)
      /\ \A j, k \in 1 .. n : ~Skipped(r, j) /\ ~Skipped(r, k) /\ From(r, j) = From(r, k) => j = k
      /\ \A a \in Ids(r.anc) : \E k \in 1 .. n : ~Skipped(r, k) /\ From(r, k) = a
  BY FromIs
<1>2. Len(r.parents) \in Nat /\ \A k \in 1 .. n : k > Len(r.parents) => r.anc[k - Len(r.parents)].parent \in BOOLEAN
  <2>1. r.anc \in Lists /\ r.parents \in Seq(Nat)
    BY DEF Family, Complete, Sound, Parents
  <2>2. Len(r.parents) \in Nat /\ Len(r.anc) \in Nat
    BY <2>1, ListHas
  <2>3. \A i \in 1 .. Len(r.anc) : r.anc[i].parent \in BOOLEAN
    BY <2>1, ListHas
  <2>4. \A k \in 1 .. n : k > Len(r.parents) => k - Len(r.parents) \in 1 .. Len(r.anc)
    <3>1. PICK p, m : p = Len(r.parents) /\ m = Len(r.anc)
      OBVIOUS
    <3>2. n = p + m /\ p \in Nat /\ m \in Nat
      BY <2>2, <3>1 DEF Rounds
    <3> HIDE DEF n
    <3>3. \A k \in 1 .. n : k > p => k - p \in 1 .. m
      BY <3>2
    <3>4. QED
      BY <3>1, <3>3
  <2>5. QED
    BY <2>2, <2>3, <2>4
<1>3. \A u : E(u) = F(u)
  <2> SUFFICES ASSUME NEW u PROVE E(u) = F(u)
    OBVIOUS
  <2>1. \A k \in 0 .. n : k = 0 \/ (k \in 1 .. n /\ k # 0)
    BY <1>1
  <2>2. n = Len(r.parents) + Len(r.anc)
    BY DEF Rounds
  <2>3. ASSUME NEW k \in 0 .. n PROVE E(u)[k] = F(u)[k]
    <3>1. CASE k = 0
      <4>1. k \in 0 .. (Len(r.parents) + Len(r.anc))
        BY <2>2
      <4>2. ~(k > Len(r.parents) /\ r.anc[k - Len(r.parents)].parent)
        BY <1>2, <3>1
      <4>3. E(u)[k] = OwnProps(c, r)
        BY <3>1, <4>1, <4>2
      <4>4. F(u)[k] = OwnProps(c, r)
        BY <3>1
      <4>5. QED
        BY <4>3, <4>4
    <3>2. CASE k # 0
      <4>1. CASE Skipped(r, k)
        BY <1>2, <2>1, <2>2, <3>2, <4>1 DEF Skipped
      <4>2. CASE ~Skipped(r, k)
        <5>1. k \in 1 .. n /\ k \in 0 .. (Len(r.parents) + Len(r.anc))
          BY <2>1, <2>2, <3>2
        <5>2. ~(k > Len(r.parents) /\ r.anc[k - Len(r.parents)].parent)
          BY <1>2, <4>2, <5>1 DEF Skipped
        <5>3. E(u)[k] = u[k - 1] \o OwnProps(From(r, k), cls[From(r, k)])
          BY <3>2, <5>1, <5>2 DEF From
        <5>4. F(u)[k] = u[k - 1] \o OwnProps(From(r, k), cls[From(r, k)])
          BY <3>2, <4>2
        <5>5. QED
          BY <5>3, <5>4
      <4>3. QED
        BY <4>1, <4>2
    <3>3. QED
      BY <3>1, <3>2
  <2>4. DOMAIN E(u) = 0 .. n /\ DOMAIN F(u) = 0 .. n
    BY <2>2
  <2>5. E(u) = [k \in 0 .. n |-> E(u)[k]] /\ F(u) = [k \in 0 .. n |-> F(u)[k]]
    BY <2>2
  <2> HIDE DEF E, F, n
  <2>6. QED
    BY <2>3, <2>5
<1>4. AllProps(c, r) = upto[n]
  <2>1. AllProps(c, r) = (CHOOSE u : u = E(u))[Len(r.parents) + Len(r.anc)]
    BY DEF AllProps
  <2> HIDE DEF E, F
  <2>2. (CHOOSE u : u = E(u)) = upto
    BY <1>3
  <2>3. QED
    BY <2>1, <2>2 DEF Rounds
<1>5. \A k \in 1 .. n : ~Skipped(r, k) =>
        /\ From(r, k) \in DOMAIN cls
        /\ OwnProps(From(r, k), cls[From(r, k)]) \in S
        /\ Injective(OwnProps(From(r, k), cls[From(r, k)]))
        /\ ToSet(OwnProps(From(r, k), cls[From(r, k)])) = OwnOf(From(r, k), cls[From(r, k)])
  <2> SUFFICES ASSUME NEW k \in 1 .. n, ~Skipped(r, k), NEW a, a = From(r, k)
               PROVE  /\ a \in DOMAIN cls /\ OwnProps(a, cls[a]) \in S /\ Injective(OwnProps(a, cls[a]))
                      /\ ToSet(OwnProps(a, cls[a])) = OwnOf(a, cls[a])
    OBVIOUS
  <2>1. a \in DOMAIN cls
    BY <1>1 DEF Family, Complete
  <2>2. a \in Nat /\ cls[a].widths \in Widths
    BY <2>1 DEF Built
  <2>3. QED
    BY <2>1, <2>2, OwnPropsAre
<1>6. OwnProps(c, r) \in S /\ Injective(OwnProps(c, r)) /\ ToSet(OwnProps(c, r)) = OwnOf(c, r)
  BY OwnPropsAre
<1>7. \A k \in 1 .. n : \A s \in S : Next1(s, k) \in S
  BY <1>5, Joined
<1> HIDE DEF n, E
<1>8. upto = F(upto)
  <2> HIDE DEF Next1
  <2>1. Steps(g, n, S)
    BY <1>7 DEF Steps
  <2>2. PICK f : Results(f, g, n, S, OwnProps(c, r))
    <3> HIDE DEF g, S
    <3>1. QED
      BY <1>1, <1>6, <2>1, Iteration
  <2>3. \A k \in 1 .. n : f[k] = Next1(f[k - 1], k)
    <3> SUFFICES ASSUME NEW k \in 1 .. n PROVE f[k] = Next1(f[k - 1], k)
      OBVIOUS
    <3>1. k - 1 \in 0 .. n
      BY <1>1
    <3>2. f[k - 1] \in S /\ f[k] = g[k][f[k - 1]]
      BY <2>2, <3>1 DEF Results
    <3>3. QED
      BY <3>2
  <2>4. f = F(f)
    <3>1. f \in [0 .. n -> S] /\ f[0] = OwnProps(c, r)
      BY <2>2 DEF Results
    <3>2. \A k \in 0 .. n : k = 0 \/ k \in 1 .. n
      BY <1>1
    <3> HIDE DEF S
    <3>3. QED
      BY <2>3, <3>1, <3>2
  <2> HIDE DEF F
  <2>5. QED
    BY <2>4
<1>9. upto[0] = OwnProps(c, r) /\ \A k \in 1 .. n : upto[k] = Next1(upto[k - 1], k)
  <2> HIDE DEF upto, Next1
  <2>1. F(upto)[0] = OwnProps(c, r) /\ \A k \in 1 .. n : F(upto)[k] = Next1(upto[k - 1], k)
    BY <1>1
  <2> HIDE DEF F
  <2>2. QED
    BY <1>8, <2>1
<1> HIDE DEF upto
<1> DEFINE Seen(k) == {From(r, j) : j \in {i \in 1 .. k : ~Skipped(r, i)}}
           Set(k) == OwnOf(c, r) \cup UNION {OwnOf(a, cls[a]) : a \in Seen(k)}
           Right(k) == upto[k] \in S /\ Injective(upto[k]) /\ ToSet(upto[k]) = Set(k)
           N == {k \in 0 .. n : Right(k)}
<1>10. 0 \in N
  <2>1. 1 .. 0 = {} /\ 0 \in 0 .. n
    BY <1>1
  <2>2. Set(0) = OwnOf(c, r)
    BY <2>1
  <2> HIDE DEF Set
  <2>3. Right(0)
    BY <1>6, <1>9, <2>2
  <2> HIDE DEF Right
  <2>4. QED
    BY <2>1, <2>3
<1>11. ASSUME NEW k \in 1 .. n, k - 1 \in N PROVE k \in N
  <2>1. k \in 0 .. n /\ Right(k - 1) /\ \A j \in 1 .. k : j \in 1 .. n /\ (j = k \/ j \in 1 .. (k - 1))
    BY <1>1, <1>11
  <2>2. \A j \in 1 .. (k - 1) : j \in 1 .. k /\ j # k /\ j \in 1 .. n
    BY <1>1
  <2>3. CASE Skipped(r, k)
    <3>1. upto[k] = upto[k - 1]
      BY <1>9, <2>3
    <3>2. Seen(k) = Seen(k - 1)
      BY <2>1, <2>2, <2>3
    <3>3. Right(k)
      <4> HIDE DEF Seen, S
      <4>1. QED
        BY <2>1, <3>1, <3>2
    <3> HIDE DEF Right
    <3>4. QED
      BY <2>1, <3>3
  <2>4. CASE ~Skipped(r, k)
    <3>1. PICK a : a = From(r, k)
      OBVIOUS
    <3>2. PICK s : s = OwnProps(a, cls[a])
      OBVIOUS
    <3>3. s \in S /\ Injective(s) /\ ToSet(s) = OwnOf(a, cls[a]) /\ a \in DOMAIN cls
      BY <1>5, <2>4, <3>1, <3>2
    <3>4. upto[k] = upto[k - 1] \o s
      BY <1>9, <2>4, <3>1, <3>2
    <3>5. Seen(k) = Seen(k - 1) \cup {a}
      BY <2>1, <2>2, <2>4, <3>1
    <3>6. a \notin Seen(k - 1) /\ a # c
      BY <1>1, <2>2, <2>4, <3>1, <3>3
    <3> HIDE DEF Seen
    <3>7. Set(k) = Set(k - 1) \cup OwnOf(a, cls[a])
      BY <3>5
    <3>8. Set(k - 1) \cap OwnOf(a, cls[a]) = {}
      BY <3>6 DEF OwnOf
    <3> HIDE DEF Set
    <3>9. upto[k - 1] \in Seq(Pairs) /\ s \in Seq(Pairs)
      BY <2>1, <3>3
    <3>10. Injective(upto[k - 1]) /\ ToSet(upto[k - 1]) \cap ToSet(s) = {}
      BY <2>1, <3>3, <3>8
    <3>11. upto[k] \in Seq(Pairs) /\ Injective(upto[k]) /\ ToSet(upto[k]) = ToSet(upto[k - 1]) \cup ToSet(s)
      BY <3>3, <3>4, <3>9, <3>10, Joined
    <3>12. Right(k)
      BY <2>1, <3>3, <3>7, <3>11
    <3> HIDE DEF Right
    <3>13. QED
      BY <2>1, <3>12
  <2>5. QED
    BY <2>3, <2>4
<1>12. Right(n)
  <2> HIDE DEF Right
  <2>1. 0 .. n \subseteq N
    <3> HIDE DEF N
    <3>1. QED
      BY <1>1, <1>10, <1>11, CountingUp
  <2>2. QED
    BY <1>1, <2>1
<1>13. Seen(n) = Ids(r.anc)
  BY <1>1
<1>14. Set(n) = AllOf(c, r)
  BY <1>13 DEF AllOf
<1> HIDE DEF Set
<1>15. QED
  BY <1>4, <1>12, <1>14

---------------------------------------------------------------------------
(* The invariant: families are built, the common base is in all of them,   *)
(* the properties have been collected, and what is resolved fits.          *)

Records == [kind : Kinds, widths : Widths, parents : Seq(Nat), anc : Lists,
            allProps : Seq(Pairs), state : {"Initialized", "Resolved", "Unresolvable"}]

Based == \A c \in DOMAIN cls : Usable(c) => UrSelf \in {0, c} \/ UrSelf \in Ids(cls[c].anc)
Collected ==
    \A c \in DOMAIN cls : Usable(c) =>
        Injective(cls[c].allProps) /\ ToSet(cls[c].allProps) = AllOf(c, cls[c])
Fitted ==
    \A c \in DOMAIN cls : cls[c].state = "Resolved" => RequiredBitsize(cls[c]) <= Bitsize(cls[c])

IInv == cls \in Seq(Records) /\ Built /\ Based /\ Collected /\ Fitted

(* Sizes depend on the kinds and the properties of classes only.           *)
LEMMA SameSize ==
    ASSUME NEW r, NEW s, r.kind = s.kind, r.widths = s.widths
    PROVE  /\ DirectBitsize(r) = DirectBitsize(s) /\ Extent(r) = Extent(s)
           /\ DataOff(r) = DataOff(s) /\ PropsBitsize(r) = PropsBitsize(s)
  BY DEF DirectBitsize, DataOff, PropsBitsize, Extent

(* Classes that are kept, and may be followed by others, keep what holds of *)
(* them.                                                                   *)
Kept ==
    /\ DOMAIN cls \subseteq DOMAIN cls'
    /\ \A d \in DOMAIN cls :
         /\ cls'[d].kind = cls[d].kind /\ cls'[d].widths = cls[d].widths
         /\ cls'[d].parents = cls[d].parents /\ cls'[d].anc = cls[d].anc
         /\ cls'[d].allProps = cls[d].allProps

LEMMA FamilyKept ==
    ASSUME Kept, NEW l, NEW ps, Family(l, ps)
    PROVE  Family(l, ps)'
<1>1. Complete(l)'
  BY DEF Family, Complete, Kept
<1>2. Least(l, ps)'
  BY DEF Family, Least, Closed, Kept
<1>3. QED
  BY <1>1, <1>2 DEF Family

LEMMA AllOfKept ==
    ASSUME Built, Kept, NEW c \in DOMAIN cls
    PROVE  AllOf(c, cls[c])' = AllOf(c, cls[c])
<1>1. \A a \in DOMAIN cls : OwnOf(a, cls[a])' = OwnOf(a, cls[a])
  BY DEF OwnOf, Kept
<1>2. cls'[c].anc = cls[c].anc /\ Ids(cls[c].anc) \subseteq DOMAIN cls
  BY DEF Kept, Built, Family, Complete
<1>3. QED
  BY <1>1, <1>2 DEF AllOf

LEMMA SizesKept ==
    ASSUME Built, Kept, NEW l, Ids(l) \subseteq DOMAIN cls
    PROVE  SizesOf(l)' = SizesOf(l)
<1>1. ASSUME NEW i \in DOMAIN l PROVE DirectBitsize(cls[l[i].cls])' = DirectBitsize(cls[l[i].cls])
  <2>1. l[i].cls \in DOMAIN cls
    BY DEF Ids
  <2>2. cls'[l[i].cls].kind = cls[l[i].cls].kind /\ cls'[l[i].cls].widths = cls[l[i].cls].widths
    BY <2>1 DEF Kept
  <2>3. QED
    BY <2>2, SameSize
<1>2. QED
  BY <1>1 DEF SizesOf

LEMMA RequiredKept ==
    ASSUME Built, Kept, NEW c \in DOMAIN cls
    PROVE  RequiredBitsize(cls[c])' = RequiredBitsize(cls[c]) /\ Bitsize(cls[c])' = Bitsize(cls[c])
<1>1. cls'[c].kind = cls[c].kind /\ cls'[c].widths = cls[c].widths /\ cls'[c].anc = cls[c].anc
  BY DEF Kept
<1>2. Ids(cls[c].anc) \subseteq DOMAIN cls
  BY DEF Built, Family, Complete
<1>3. SizesOf(cls[c].anc)' = SizesOf(cls[c].anc)
  <2>1. PICK l : l = cls[c].anc
    OBVIOUS
  <2>2. SizesOf(l)' = SizesOf(l)
    BY <1>2, <2>1, SizesKept
  <2>3. QED
    BY <1>1, <2>1, <2>2
<1>4. DirectBitsize(cls[c])' = DirectBitsize(cls[c])
  BY <1>1, SameSize
<1>5. RequiredBitsize(cls[c])' = RequiredBitsize(cls[c])
  BY <1>1, <1>3, <1>4 DEF RequiredBitsize
<1>6. QED
  BY <1>1, <1>5 DEF Bitsize

LEMMA InitInvariant ==
    ASSUME Init
    PROVE  IInv
<1>1. cls = <<>> /\ Len(cls) = 0 /\ DOMAIN cls = {} /\ DOMAIN cls = 1 .. Len(cls) /\ cls \in Seq(Records)
  BY DEF Init
<1>2. QED
  BY <1>1 DEF IInv, Built, Based, Collected, Fitted

(* What is added to the classes.                                           *)
LEMMA OneMoreClass ==
    ASSUME IInv, NEW r \in Records, cls' = Append(cls, r)
    PROVE  /\ cls' \in Seq(Records) /\ Len(cls') = Len(cls) + 1 /\ DOMAIN cls' = 1 .. Len(cls')
           /\ \A d \in DOMAIN cls' : d = Len(cls) + 1 \/ d \in DOMAIN cls
           /\ \A d \in DOMAIN cls : cls'[d] = cls[d]
           /\ cls'[Len(cls) + 1] = r
           /\ Kept
<1>1. cls \in Seq(Records)
  BY DEF IInv
<1>2. cls' \in Seq(Records)
  BY <1>1, AppendProperties
<1>3. Len(cls') = Len(cls) + 1
  BY <1>1, AppendProperties
<1>4. \A d \in 1 .. Len(cls) : cls'[d] = cls[d]
  BY <1>1, AppendProperties
<1>5. cls'[Len(cls) + 1] = r
  BY <1>1, AppendProperties
<1>6. Len(cls) \in Nat /\ DOMAIN cls = 1 .. Len(cls) /\ DOMAIN cls' = 1 .. Len(cls')
  BY <1>1, <1>2
<1>7. DOMAIN cls \subseteq DOMAIN cls' /\ \A d \in DOMAIN cls' : d = Len(cls) + 1 \/ d \in DOMAIN cls
  BY <1>3, <1>6
<1>8. Kept
  BY <1>4, <1>6, <1>7 DEF Kept
<1>9. QED
  BY <1>2, <1>3, <1>4, <1>5, <1>6, <1>7, <1>8

(* A class that is added with what the invariant says of it.               *)
LEMMA AddedClass ==
    ASSUME IInv, NEW r \in Records, cls' = Append(cls, r), NEW c, c = Len(cls) + 1,
           Family(r.anc, r.parents), r.state # "Resolved",
           r.state # "Unresolvable" =>
             /\ UrSelf \in {0, c} \/ UrSelf \in Ids(r.anc)
             /\ Injective(r.allProps) /\ ToSet(r.allProps) = AllOf(c, r)
    PROVE  IInv'
<1>1. /\ cls' \in Seq(Records) /\ Len(cls') = c /\ DOMAIN cls' = 1 .. c
      /\ \A d \in DOMAIN cls' : d = c \/ d \in DOMAIN cls
      /\ \A d \in DOMAIN cls : cls'[d] = cls[d]
      /\ cls'[c] = r
      /\ Kept
  BY OneMoreClass
<1>2. Built /\ Len(cls) \in Nat /\ DOMAIN cls = 1 .. Len(cls) /\ c \in Nat /\ c - 1 = Len(cls)
  BY DEF IInv, Built
<1>3. Ids(r.anc) \subseteq DOMAIN cls
  BY DEF Family, Complete
<1>4. ASSUME NEW d \in DOMAIN cls'
      PROVE  Family(cls[d].anc, cls[d].parents)' /\ Ids(cls'[d].anc) \subseteq 1 .. (d - 1)
  <2>1. PICK l, ps : l = cls'[d].anc /\ ps = cls'[d].parents
    OBVIOUS
  <2>2. Family(l, ps) /\ Ids(l) \subseteq 1 .. (d - 1)
    <3>1. CASE d = c
      BY <1>1, <1>2, <1>3, <2>1, <3>1
    <3>2. CASE d \in DOMAIN cls
      BY <1>1, <1>2, <2>1, <3>2 DEF Built
    <3>3. QED
      BY <1>1, <3>1, <3>2
  <2>3. Family(l, ps)'
    BY <1>1, <2>2, FamilyKept
  <2>4. QED
    BY <2>1, <2>2, <2>3
<1>5. Built'
  BY <1>1, <1>2, <1>4 DEF Built
<1>6. Based'
  BY <1>1 DEF IInv, Based, Usable
<1>7. Collected'
  <2> SUFFICES ASSUME NEW d \in DOMAIN cls', Usable(d)'
               PROVE  Injective(cls'[d].allProps) /\ ToSet(cls'[d].allProps) = AllOf(d, cls[d])'
    BY DEF Collected
  <2>1. CASE d = c
    <3>1. \A a \in Ids(r.anc) : OwnOf(a, cls[a])' = OwnOf(a, cls[a])
      BY <1>1, <1>3
    <3>2. AllOf(d, cls[d])' = AllOf(c, r)
      <4>1. OwnOf(d, cls[d])' = OwnOf(c, r) /\ cls'[d].anc = r.anc
        BY <1>1, <2>1
      <4>2. AllOf(d, cls[d])' = OwnOf(d, cls[d])' \cup UNION {OwnOf(a, cls[a])' : a \in Ids(cls'[d].anc)}
        BY DEF AllOf
      <4>3. UNION {OwnOf(a, cls[a])' : a \in Ids(r.anc)} = UNION {OwnOf(a, cls[a]) : a \in Ids(r.anc)}
        BY <3>1
      <4>4. QED
        BY <4>1, <4>2, <4>3 DEF AllOf
    <3>3. QED
      BY <1>1, <2>1, <3>2 DEF Usable
  <2>2. CASE d \in DOMAIN cls
    <3>1. AllOf(d, cls[d])' = AllOf(d, cls[d])
      BY <1>1, <1>2, <2>2, AllOfKept
    <3>2. QED
      BY <1>1, <2>2, <3>1 DEF IInv, Collected, Usable
  <2>3. QED
    BY <1>1, <2>1, <2>2
<1>8. Fitted'
  <2> SUFFICES ASSUME NEW d \in DOMAIN cls', cls'[d].state = "Resolved"
               PROVE  RequiredBitsize(cls[d])' <= Bitsize(cls[d])'
    BY DEF Fitted
  <2>1. d \in DOMAIN cls /\ cls[d].state = "Resolved"
    BY <1>1
  <2>2. RequiredBitsize(cls[d])' = RequiredBitsize(cls[d]) /\ Bitsize(cls[d])' = Bitsize(cls[d])
    BY <1>1, <1>2, <2>1, RequiredKept
  <2>3. QED
    BY <2>1, <2>2 DEF IInv, Fitted
<1>9. QED
  BY <1>1, <1>5, <1>6, <1>7, <1>8 DEF IInv

(* A class that is initialised.                                            *)
LEMMA InitClassInvariant ==
    ASSUME IInv, NEW d \in Classes, NEW shape \in Shapes[d], NEW ps \in ParentLists,
           d = Len(cls) + 1, InitClass(shape, ps)
    PROVE  IInv'
<1> DEFINE c == Len(cls) + 1
           good == \A i \in DOMAIN ps : cls[ps[i]].state # "Unresolvable"
           ancestry == AncestryOf(ps)
           r == [kind     |-> shape.kind,
                 widths   |-> shape.widths,
                 parents  |-> ancestry.parents,
                 anc      |-> WithCommonBase(ancestry.anc, c),
                 allProps |-> <<>>,
                 state    |-> "Initialized"]
           failed == [kind |-> shape.kind, widths |-> shape.widths, parents |-> <<>>, anc |-> <<>>,
                      allProps |-> <<>>, state |-> "Unresolvable"]
           new == [r EXCEPT !.allProps = AllProps(c, r)]
<1>1. /\ \A i \in DOMAIN ps : ps[i] < c
      /\ cls' = Append(cls, IF good THEN new ELSE failed)
  BY DEF InitClass
<1>2. shape.kind \in Kinds /\ shape.widths \in Widths
  BY ShapesAssumption DEF Widths
<1>3. /\ Built /\ cls \in Seq(Records) /\ Len(cls) \in Nat /\ DOMAIN cls = 1 .. Len(cls)
      /\ c \in Nat /\ c \notin DOMAIN cls
  BY DEF IInv, Built
<1>4. <<>> \in Seq(Nat) /\ <<>> \in Lists /\ <<>> \in Seq(Pairs)
  BY DEF Lists
<1>5. CASE good
  <2>1. ps \in Seq(DOMAIN cls)
    <3>1. ps \in Seq(Classes)
      BY ParentListsAssumption
    <3>2. Len(ps) \in Nat /\ DOMAIN ps = 1 .. Len(ps) /\ \A i \in 1 .. Len(ps) : ps[i] \in Classes
      BY <3>1
    <3>3. \A x \in Classes : x \in Nat /\ x >= 1
      <4>1. Cardinality(Classes) \in Nat
        BY ClassesAssumption, FS_CardinalityType
      <4>2. PICK n \in Nat : n = Cardinality(Classes)
        BY <4>1
      <4>3. \A x \in 1 .. n : x \in Nat /\ x >= 1
        OBVIOUS
      <4>4. QED
        BY <4>2, <4>3, ClassesAssumption
    <3>4. \A i \in 1 .. Len(ps) : ps[i] \in DOMAIN cls
      <4> SUFFICES ASSUME NEW i \in 1 .. Len(ps) PROVE ps[i] \in DOMAIN cls
        OBVIOUS
      <4>1. PICK x, n : x = ps[i] /\ n = Len(cls)
        OBVIOUS
      <4>2. x \in Nat /\ x >= 1 /\ x < n + 1 /\ n \in Nat
        BY <1>1, <1>3, <3>2, <3>3, <4>1
      <4>3. x \in 1 .. n
        BY <4>2
      <4>4. QED
        BY <1>3, <4>1, <4>3
    <3>6. ps = [i \in 1 .. Len(ps) |-> ps[i]]
      BY <3>1
    <3>7. ps \in [1 .. Len(ps) -> DOMAIN cls]
      BY <3>4, <3>6
    <3>8. QED
      BY <3>2, <3>7, SeqDef
  <2>2. ancestry \in Ancestries
    BY <1>3, <2>1, AncestryOfIs
  <2>3. PICK l, qs : l = ancestry.anc /\ qs = ancestry.parents
    OBVIOUS
  <2>4. Family(l, qs)
    BY <2>2, <2>3 DEF Ancestries
  <2>5. PICK m : m = WithCommonBase(l, c)
    OBVIOUS
  <2> HIDE DEF ancestry
  <2>6. Family(m, qs) /\ (UrSelf \in {0, c} \/ UrSelf \in Ids(m))
    BY <1>3, <2>4, <2>5, WithCommonBaseIs
  <2>7. m \in Lists /\ qs \in Seq(Nat)
    BY <2>6 DEF Family, Complete, Sound, Parents
  <2>8. /\ r.kind = shape.kind /\ r.widths = shape.widths /\ r.parents = qs /\ r.anc = m
        /\ r = [kind |-> shape.kind, widths |-> shape.widths, parents |-> qs, anc |-> m,
                allProps |-> <<>>, state |-> "Initialized"]
    BY <2>3, <2>5
  <2> HIDE DEF r
  <2>9. PICK all : all = AllProps(c, r)
    OBVIOUS
  <2>10. \A a \in DOMAIN cls : cls[a].widths \in Widths
    <3>1. \A a \in 1 .. Len(cls) : cls[a] \in Records
      BY <1>3
    <3>2. \A e \in Records : e.widths \in Widths
      BY DEF Records
    <3>3. QED
      BY <1>3, <3>1, <3>2
  <2>11. all \in Seq(Pairs) /\ Injective(all) /\ ToSet(all) = AllOf(c, r)
    <3>1. r.widths \in Widths /\ Family(r.anc, r.parents)
      BY <1>2, <2>6, <2>8
    <3> HIDE DEF c
    <3>2. QED
      BY <1>3, <2>9, <2>10, <3>1, AllPropsAre
  <2>12. new = [kind |-> shape.kind, widths |-> shape.widths, parents |-> qs, anc |-> m,
                allProps |-> all, state |-> "Initialized"]
    BY <2>8, <2>9
  <2>13. AllOf(c, new) = AllOf(c, r)
    <3>1. new.anc = m /\ new.widths = r.widths
      BY <2>8, <2>12
    <3>2. QED
      BY <2>8, <3>1 DEF AllOf, OwnOf
  <2>14. new \in Records
    BY <1>2, <2>7, <2>11, <2>12 DEF Records
  <2>15. new.anc = m /\ new.parents = qs /\ new.allProps = all /\ new.state = "Initialized"
    BY <2>12
  <2> HIDE DEF new
  <2>16. cls' = Append(cls, new)
    BY <1>1, <1>5
  <2>17. QED
    BY <2>6, <2>11, <2>13, <2>14, <2>15, <2>16, AddedClass
<1>6. CASE ~good
  <2>1. /\ failed.kind = shape.kind /\ failed.widths = shape.widths
        /\ failed.parents = <<>> /\ failed.anc = <<>> /\ failed.allProps = <<>>
        /\ failed.state = "Unresolvable"
    OBVIOUS
  <2>2. failed \in Records
    BY <1>2, <1>4 DEF Records
  <2>3. Family(failed.anc, failed.parents)
    <3>1. Family(<<>>, <<>>)
      BY NoneIsFamily DEF Ancestries, NoAncestors
    <3>2. QED
      BY <2>1, <3>1
  <2>4. cls' = Append(cls, failed)
    BY <1>1, <1>6
  <2>5. failed.state # "Resolved" /\ failed.state = "Unresolvable"
    BY <2>1
  <2> HIDE DEF failed
  <2>6. QED
    BY <2>2, <2>3, <2>4, <2>5, AddedClass
<1>7. QED
  BY <1>5, <1>6

(* A class that is resolved, or is not.                                    *)
LEMMA ResolveClassInvariant ==
    ASSUME IInv, NEW c \in DOMAIN cls, ResolveClass(c)
    PROVE  IInv'
<1> DEFINE r == cls[c]
           failed == \E a \in Ids(r.anc) : cls[a].state = "Unresolvable"
           fits == RequiredBitsize(r) <= Bitsize(r)
           s == IF ~failed /\ fits THEN "Resolved" ELSE "Unresolvable"
<1>1. r.state = "Initialized" /\ cls' = [cls EXCEPT ![c] = [r EXCEPT !.state = s]]
  BY DEF ResolveClass
<1>2. s \in {"Resolved", "Unresolvable"} /\ (s = "Resolved" => fits)
  OBVIOUS
<1> HIDE DEF failed, s
<1>3. /\ Built /\ cls \in Seq(Records) /\ Len(cls) \in Nat /\ DOMAIN cls = 1 .. Len(cls)
      /\ r \in Records
  BY DEF IInv, Built
<1>4. PICK e : e = [r EXCEPT !.state = s]
  OBVIOUS
<1>5. e \in Records /\ e.state = s /\ e.kind = r.kind /\ e.widths = r.widths /\ e.parents = r.parents
      /\ e.anc = r.anc /\ e.allProps = r.allProps
  <2> HIDE DEF r
  <2>1. QED
    BY <1>2, <1>3, <1>4 DEF Records
<1>6. cls' \in Seq(Records) /\ Len(cls') = Len(cls) /\ DOMAIN cls' = DOMAIN cls
      /\ \A d \in 1 .. Len(cls) : cls'[d] = IF d = c THEN e ELSE cls[d]
  <2>1. (c \in 1 .. Len(cls) => e \in Records) /\ cls' = [cls EXCEPT ![c] = e]
    BY <1>1, <1>4, <1>5
  <2>2. cls' \in Seq(Records)
    BY <1>3, <2>1, Replaced
  <2>3. Len(cls') = Len(cls) /\ DOMAIN cls' = DOMAIN cls
    BY <1>3, <2>1, Replaced
  <2>4. \A d \in 1 .. Len(cls) : cls'[d] = IF d = c THEN e ELSE cls[d]
    BY <1>3, <2>1, Replaced
  <2>5. QED
    BY <2>2, <2>3, <2>4
<1>7. cls'[c] = e /\ \A d \in DOMAIN cls : d # c => cls'[d] = cls[d]
  BY <1>3, <1>6
<1>8. Kept
  BY <1>5, <1>6, <1>7 DEF Kept
<1>9. \A d \in DOMAIN cls : Usable(d)' => Usable(d)
  BY <1>1, <1>7 DEF Usable
<1>10. Built'
  <2>1. ASSUME NEW d \in DOMAIN cls'
        PROVE  Family(cls[d].anc, cls[d].parents)' /\ Ids(cls'[d].anc) \subseteq 1 .. (d - 1)
    <3>1. PICK l, ps : l = cls'[d].anc /\ ps = cls'[d].parents
      OBVIOUS
    <3>2. d \in DOMAIN cls /\ l = cls[d].anc /\ ps = cls[d].parents
      BY <1>6, <1>8, <3>1 DEF Kept
    <3>3. Family(l, ps) /\ Ids(l) \subseteq 1 .. (d - 1)
      BY <1>3, <3>2 DEF Built
    <3>4. Family(l, ps)'
      BY <1>8, <3>3, FamilyKept
    <3>5. QED
      BY <3>1, <3>3, <3>4
  <2>2. QED
    BY <1>3, <1>6, <2>1 DEF Built
<1>11. Based'
  BY <1>6, <1>8, <1>9 DEF IInv, Based, Kept
<1>12. Collected'
  <2> SUFFICES ASSUME NEW d \in DOMAIN cls', Usable(d)'
               PROVE  Injective(cls'[d].allProps) /\ ToSet(cls'[d].allProps) = AllOf(d, cls[d])'
    BY DEF Collected
  <2>1. d \in DOMAIN cls /\ Usable(d) /\ cls'[d].allProps = cls[d].allProps
    BY <1>6, <1>8, <1>9 DEF Kept
  <2>2. AllOf(d, cls[d])' = AllOf(d, cls[d])
    BY <1>3, <1>8, <2>1, AllOfKept
  <2>3. QED
    BY <2>1, <2>2 DEF IInv, Collected
<1>13. Fitted'
  <2> SUFFICES ASSUME NEW d \in DOMAIN cls', cls'[d].state = "Resolved"
               PROVE  RequiredBitsize(cls[d])' <= Bitsize(cls[d])'
    BY DEF Fitted
  <2>1. d \in DOMAIN cls
    BY <1>6
  <2>2. RequiredBitsize(cls[d])' = RequiredBitsize(cls[d]) /\ Bitsize(cls[d])' = Bitsize(cls[d])
    BY <1>3, <1>8, <2>1, RequiredKept
  <2>3. RequiredBitsize(cls[d]) <= Bitsize(cls[d])
    <3>1. CASE d = c
      BY <1>2, <1>5, <1>7, <3>1
    <3>2. CASE d # c
      BY <1>7, <2>1, <3>2 DEF IInv, Fitted
    <3>3. QED
      BY <3>1, <3>2
  <2>4. QED
    BY <2>2, <2>3
<1>14. QED
  BY <1>6, <1>10, <1>11, <1>12, <1>13 DEF IInv

LEMMA NextInvariant ==
    ASSUME IInv, [Next]_vars
    PROVE  IInv'
<1>1. ASSUME cls' = cls PROVE IInv'
  <2>1. /\ DOMAIN cls' = DOMAIN cls /\ Len(cls') = Len(cls)
        /\ \A d \in DOMAIN cls : cls'[d] = cls[d]
    BY <1>1
  <2>2. Built' = Built
    BY <1>1 DEF Built, Family, Complete, Least, Closed
  <2>3. Based' = Based /\ Collected' = Collected
    BY <1>1 DEF Based, Collected, Usable, AllOf
  <2>4. Fitted' = Fitted
    BY <1>1 DEF Fitted, RequiredBitsize, Bitsize, SizesOf
  <2>5. QED
    BY <1>1, <2>2, <2>3, <2>4 DEF IInv
<1>2. CASE UNCHANGED vars
  BY <1>1, <1>2 DEF vars
<1>3. ASSUME NEW c \in Classes, NEW shape \in Shapes[c], NEW ps \in ParentLists,
             c = Len(cls) + 1, InitClass(shape, ps)
      PROVE  IInv'
  BY <1>3, InitClassInvariant
<1>4. ASSUME NEW c \in DOMAIN cls, ResolveClass(c) PROVE IInv'
  BY <1>4, ResolveClassInvariant
<1>5. ASSUME NEW c, NewObject(c) PROVE IInv'
  BY <1>1, <1>5 DEF NewObject
<1>6. ASSUME NEW q, WriteProp(q) \/ WriteCopy(q) PROVE IInv'
  BY <1>1, <1>6 DEF WriteProp, WriteCopy
<1>7. ASSUME NEW b, CopyAsBase(b) \/ AssignBack PROVE IInv'
  BY <1>1, <1>7 DEF CopyAsBase, AssignBack
<1>8. QED
  BY <1>2, <1>3, <1>4, <1>5, <1>6, <1>7 DEF Next

THEOREM Invariant == Spec => []IInv
<1>1. Init => IInv
  BY InitInvariant
<1>2. IInv /\ [Next]_vars => IInv'
  BY NextInvariant
<1>3. QED
  BY <1>1, <1>2, PTL DEF Spec

---------------------------------------------------------------------------
(* The ancestors of a class are the classes above it.                      *)

LEMMA IdsCounted ==
    ASSUME NEW l \in Lists, Distinct(l)
    PROVE  Cardinality(Ids(l)) = Len(l)
<1> DEFINE f == [i \in 1 .. Len(l) |-> l[i].cls]
<1>1. Len(l) \in Nat /\ DOMAIN l = 1 .. Len(l)
  BY ListHas
<1>2. f \in Bijection(1 .. Len(l), Ids(l))
  <2>1. f \in [1 .. Len(l) -> Ids(l)]
    BY <1>1 DEF Ids
  <2>2. \A i, j \in 1 .. Len(l) : f[i] = f[j] => i = j
    BY <1>1 DEF Distinct
  <2>3. \A a \in Ids(l) : \E i \in 1 .. Len(l) : f[i] = a
    BY <1>1 DEF Ids
  <2> HIDE DEF f
  <2>4. QED
    BY <2>1, <2>2, <2>3 DEF Bijection, Injection, Surjection, IsInjective
<1>3. ExistsBijection(1 .. Len(l), Ids(l))
  BY <1>2 DEF ExistsBijection
<1>4. QED
  BY <1>1, <1>3, FS_CountingElements

LEMMA IdsAreAbove ==
    ASSUME IInv, NEW c \in DOMAIN cls, Usable(c)
    PROVE  Ids(cls[c].anc) = Above(c)
<1> DEFINE l == cls[c].anc
           ps == cls[c].parents
           closed == {S \in SUBSET (1..(c - 1)) : ToSet(ps) \subseteq S /\ ClosedUnderParents(S)}
<1>1. /\ Built /\ Len(cls) \in Nat /\ DOMAIN cls = 1 .. Len(cls) /\ c \in Nat
      /\ Family(l, ps) /\ Ids(l) \subseteq 1 .. (c - 1)
      /\ UrSelf \in {0, c} \/ UrSelf \in Ids(l)
  BY DEF IInv, Built, Based
<1>2. Above(c) = {a \in 1..(c - 1) : \A S \in closed : a \in S} \cup ({UrSelf} \ {0, c})
  BY DEF Above
<1>3. \A x \in 1 .. (c - 1) : x \in Nat /\ x # 0 /\ x # c /\ x \in DOMAIN cls
  BY <1>1
<1>4. ASSUME NEW a \in Ids(l), a # UrSelf, NEW S \in closed PROVE a \in S
  <2>1. S \in SUBSET Nat /\ ToSet(ps) \subseteq S
    BY <1>3
  <2>2. Closed(S)
    BY DEF Closed, ClosedUnderParents
  <2>3. QED
    BY <1>1, <1>4, <2>1, <2>2 DEF Family, Least
<1>5. Ids(l) \in closed
  <2>1. ToSet(ps) \subseteq Ids(l)
    BY <1>1, ParentsAreIds DEF Family
  <2>2. ASSUME NEW b \in Ids(l) PROVE ToSet(cls[b].parents) \subseteq Ids(l)
    <3>1. b \in DOMAIN cls /\ Ids(cls[b].anc) \subseteq Ids(l)
      BY <1>1 DEF Family, Complete
    <3>2. Parents(cls[b].anc, cls[b].parents)
      BY <1>1, <3>1 DEF Built, Family
    <3>3. QED
      BY <3>1, <3>2, ParentsAreIds
  <2>3. QED
    BY <1>1, <2>1, <2>2 DEF ClosedUnderParents
<1> HIDE DEF closed, l, ps
<1>6. Ids(l) \subseteq Above(c)
  BY <1>1, <1>2, <1>3, <1>4
<1>7. Above(c) \subseteq Ids(l)
  BY <1>1, <1>2, <1>5
<1>8. QED
  BY <1>6, <1>7 DEF l

LEMMA InvariantClosed ==
    ASSUME IInv
    PROVE  AncestryClosed
<1> SUFFICES ASSUME NEW c \in DOMAIN cls, Usable(c), NEW l, l = cls[c].anc
             PROVE  /\ Ids(l) = Above(c)
                    /\ Cardinality(Ids(l)) = Len(l)
                    /\ \A i \in DOMAIN l : \A d \in ToSet(l[i].deps) : d \in Ids(l) /\ At(l, d) > i
  BY DEF AncestryClosed
<1>1. Sound(l) /\ l \in Lists
  BY DEF IInv, Built, Family, Complete, Sound
<1>2. ASSUME NEW i \in DOMAIN l, NEW d \in ToSet(l[i].deps) PROVE d \in Ids(l) /\ At(l, d) > i
  <2>1. PICK m \in DOMAIN l[i].deps : l[i].deps[m] = d
    BY DEF ToSet
  <2>2. PICK p \in DOMAIN l : p > i /\ l[p].cls = d
    BY <1>1, <2>1 DEF Sound, DepsLater
  <2>3. At(l, d) = p
    BY <1>1, <2>2, AtIs DEF Sound
  <2>4. QED
    BY <2>2, <2>3 DEF Ids
<1>3. Ids(l) = Above(c)
  BY IdsAreAbove
<1>4. Cardinality(Ids(l)) = Len(l)
  BY <1>1, IdsCounted DEF Sound
<1>5. QED
  BY <1>2, <1>3, <1>4

---------------------------------------------------------------------------
(* The sizes that ancestors are said to have added.                        *)

LEMMA MaxIs ==
    ASSUME NEW s \in Widths
    PROVE  Max({0} \cup ToSet(s)) \in Nat /\ \A i \in DOMAIN s : s[i] <= Max({0} \cup ToSet(s))
<1> DEFINE n == Len(s)
           T(k) == {0} \cup {s[i] : i \in 1 .. k}
           N == {k \in 0 .. n : \E x \in T(k) : \A y \in T(k) : x >= y}
<1>1. n \in Nat /\ DOMAIN s = 1 .. n /\ \A i \in 1 .. n : s[i] \in Nat
  BY DEF Widths
<1> HIDE DEF n
<1>2. 0 \in N
  BY <1>1
<1>3. ASSUME NEW k \in 1 .. n, k - 1 \in N PROVE k \in N
  <2>1. PICK x \in T(k - 1) : \A y \in T(k - 1) : x >= y
    BY <1>3
  <2>2. T(k) = T(k - 1) \cup {s[k]}
    <3>1. \A i \in 1 .. k : i = k \/ i \in 1 .. (k - 1)
      BY <1>1
    <3>2. k \in 1 .. k /\ \A i \in 1 .. (k - 1) : i \in 1 .. k
      BY <1>1
    <3>3. QED
      BY <3>1, <3>2
  <2>3. x \in Nat /\ s[k] \in Nat /\ \A y \in T(k - 1) : y \in Nat
    <3>1. \A i \in 1 .. (k - 1) : i \in 1 .. n
      BY <1>1
    <3>2. QED
      BY <1>1, <3>1
  <2>4. k \in 0 .. n
    BY <1>1
  <2> HIDE DEF T
  <2>5. CASE x >= s[k]
    BY <2>1, <2>2, <2>4, <2>5
  <2>6. CASE x < s[k]
    BY <2>1, <2>2, <2>3, <2>4, <2>6
  <2>7. QED
    BY <2>3, <2>5, <2>6
<1>4. n \in N
  <2>1. 0 .. n \subseteq N
    <3> HIDE DEF N
    <3>1. QED
      BY <1>1, <1>2, <1>3, CountingUp
  <2>2. n \in 0 .. n
    BY <1>1
  <2> HIDE DEF N
  <2>3. QED
    BY <2>1, <2>2
<1>5. T(n) = {0} \cup ToSet(s)
  BY <1>1 DEF ToSet
<1>6. PICK x \in T(n) : \A y \in T(n) : x >= y
  BY <1>4
<1>7. Max(T(n)) \in T(n) /\ \A y \in T(n) : Max(T(n)) >= y
  <2> HIDE DEF T
  <2>1. QED
    BY <1>6 DEF Max
<1>8. \A y \in T(n) : y \in Nat
  BY <1>1
<1>9. \A i \in DOMAIN s : s[i] \in T(n)
  BY <1>1
<1> HIDE DEF T
<1>10. QED
  BY <1>5, <1>7, <1>8, <1>9

LEMMA SizesAreNat ==
    ASSUME NEW r, r.widths \in Widths
    PROVE  /\ DataOff(r) \in Nat /\ PropsBitsize(r) \in Nat /\ DirectBitsize(r) \in Nat
           /\ Total(r.widths) \in Nat /\ Extent(r) \in Nat
<1>1. DataOff(r) \in Nat
  BY SizesAssumption DEF DataOff
<1>2. Len(r.widths) \in Nat /\ \A k \in 1 .. Len(r.widths) : r.widths[k] \in Nat
  BY DEF Widths
<1>3. Total(r.widths) \in Nat
  <2>1. Len(r.widths) \in 0 .. Len(r.widths)
    BY <1>2
  <2>2. SumUpTo(r.widths, Len(r.widths)) \in Nat
    BY <1>2, <2>1, SumUpToIs
  <2>3. QED
    BY <2>2 DEF Total
<1>4. SumOf(r.widths) \in Nat
  BY <1>3, WrapIs DEF SumOf
<1>5. PropsBitsize(r) \in Nat
  BY <1>4, MaxIs DEF PropsBitsize
<1>6. DirectBitsize(r) \in Nat
  BY <1>1, <1>5, WrapIs DEF DirectBitsize
<1>7. QED
  BY <1>1, <1>3, <1>5, <1>6 DEF Extent

(* One of the numbers is greater.                                          *)
LEMMA SumsDiffer ==
    ASSUME NEW n \in Nat, NEW f, NEW g, \A k \in 1 .. n : f[k] \in Nat,
           NEW p \in 1 .. n, NEW d \in Nat, g[p] = f[p] + d, \A k \in 1 .. n : k # p => g[k] = f[k]
    PROVE  SumUpTo(g, n) = SumUpTo(f, n) + d
<1> DEFINE N == {k \in 0 .. n : SumUpTo(g, k) = SumUpTo(f, k) + IF k >= p THEN d ELSE 0}
<1>1. \A k \in 1 .. n : g[k] \in Nat
  BY SMT
<1>2. /\ \A k \in 0 .. n : SumUpTo(f, k) \in Nat
      /\ SumUpTo(f, 0) = 0 /\ SumUpTo(g, 0) = 0
      /\ \A k \in 1 .. n : /\ SumUpTo(f, k) = SumUpTo(f, k - 1) + f[k]
                           /\ SumUpTo(g, k) = SumUpTo(g, k - 1) + g[k]
  BY <1>1, SumUpToIs
<1>3. 0 \in N
  BY <1>2
<1>4. ASSUME NEW k \in 1 .. n, k - 1 \in N PROVE k \in N
  <2>1. k - 1 \in 0 .. n /\ k \in 0 .. n /\ SumUpTo(f, k - 1) \in Nat
    BY <1>2
  <2>2. SumUpTo(g, k - 1) = SumUpTo(f, k - 1) + IF k - 1 >= p THEN d ELSE 0
    BY <1>4
  <2>3. CASE k = p
    <3>1. SumUpTo(g, k) = SumUpTo(f, k) + d
      BY <1>2, <2>1, <2>2, <2>3
    <3>2. QED
      BY <2>1, <2>3, <3>1
  <2>4. CASE k # p
    <3>1. g[k] = f[k] /\ (k >= p <=> k - 1 >= p)
      BY <2>1, <2>4
    <3>2. SumUpTo(g, k) = SumUpTo(f, k) + IF k >= p THEN d ELSE 0
      BY <1>2, <2>1, <2>2, <3>1
    <3>3. QED
      BY <2>1, <3>2
  <2>5. QED
    BY <2>3, <2>4
<1>5. 0 .. n \subseteq N
  <2> HIDE DEF N
  <2>1. QED
    BY <1>3, <1>4, CountingUp
<1>6. n \in N /\ n >= p
  BY <1>5
<1>7. QED
  BY <1>6

(* The size of those classes of a list that are in a set.                  *)
Sized(l) == l \in Lists /\ Distinct(l) /\ \A a \in Ids(l) : DirectBitsize(cls[a]) \in Nat
SizesIn(l, A) == [p \in DOMAIN l |-> IF l[p].cls \in A THEN DirectBitsize(cls[l[p].cls]) ELSE 0]
SizeIn(l, A) == SumUpTo(SizesIn(l, A), Len(l))

LEMMA SizeInIs ==
    ASSUME NEW l, Sized(l), NEW A
    PROVE  SizeIn(l, A) \in Nat /\ \A k \in 1 .. Len(l) : SizesIn(l, A)[k] \in Nat
<1>1. Len(l) \in Nat /\ DOMAIN l = 1 .. Len(l)
  BY ListHas DEF Sized
<1>2. \A k \in 1 .. Len(l) : SizesIn(l, A)[k] \in Nat
  BY <1>1 DEF Sized, SizesIn, Ids
<1>3. QED
  <2>1. PICK n, f : n = Len(l) /\ f = SizesIn(l, A)
    OBVIOUS
  <2>2. n \in Nat /\ n \in 0 .. n /\ \A k \in 1 .. n : f[k] \in Nat
    BY <1>1, <1>2, <2>1
  <2>3. SumUpTo(f, n) \in Nat
    BY <2>2, SumUpToIs
  <2>4. QED
    BY <1>2, <2>1, <2>3 DEF SizeIn

LEMMA SizeInAdds ==
    ASSUME NEW l, Sized(l), NEW A, NEW x \in Ids(l), x \notin A
    PROVE  SizeIn(l, A \cup {x}) = SizeIn(l, A) + DirectBitsize(cls[x])
<1>1. Len(l) \in Nat /\ DOMAIN l = 1 .. Len(l)
  BY ListHas DEF Sized
<1>2. PICK p \in DOMAIN l : l[p].cls = x
  BY DEF Ids
<1>3. \A k \in DOMAIN l : l[k].cls = x => k = p
  BY <1>2 DEF Sized, Distinct
<1>4. PICK f, g, d : f = SizesIn(l, A) /\ g = SizesIn(l, A \cup {x}) /\ d = DirectBitsize(cls[x])
  OBVIOUS
<1>5. \A k \in 1 .. Len(l) : f[k] \in Nat
  BY <1>4, SizeInIs
<1>6. d \in Nat
  BY <1>4 DEF Sized
<1>7. g[p] = f[p] + d
  <2>1. f[p] = 0 /\ g[p] = d
    BY <1>2, <1>4 DEF SizesIn
  <2>2. QED
    BY <1>6, <2>1
<1>8. \A k \in 1 .. Len(l) : k # p => g[k] = f[k]
  BY <1>1, <1>3, <1>4 DEF SizesIn
<1>9. SumUpTo(g, Len(l)) = SumUpTo(f, Len(l)) + d
  <2>1. PICK n : n = Len(l)
    OBVIOUS
  <2>2. n \in Nat /\ p \in 1 .. n /\ (\A k \in 1 .. n : f[k] \in Nat) /\ \A k \in 1 .. n : k # p => g[k] = f[k]
    BY <1>1, <1>2, <1>5, <1>8, <2>1
  <2>3. SumUpTo(g, n) = SumUpTo(f, n) + d
    BY <1>6, <1>7, <2>2, SumsDiffer
  <2>4. QED
    BY <2>1, <2>3
<1>10. QED
  BY <1>4, <1>9 DEF SizeIn

LEMMA SizeInAddsAll ==
    ASSUME NEW l, Sized(l), NEW A, NEW w \in Seq(Nat), Injective(w),
           ToSet(w) \subseteq Ids(l), ToSet(w) \cap A = {},
           NEW f, f = [i \in DOMAIN w |-> DirectBitsize(cls[w[i]])]
    PROVE  Total(f) \in Nat /\ SizeIn(l, A \cup ToSet(w)) = SizeIn(l, A) + Total(f)
<1> DEFINE n == Len(w)
           W(k) == A \cup {w[i] : i \in 1 .. k}
           N == {k \in 0 .. n : SizeIn(l, W(k)) = SizeIn(l, A) + SumUpTo(f, k)}
<1>1. n \in Nat /\ DOMAIN w = 1 .. n /\ DOMAIN f = 1 .. n /\ Len(f) = n
  OBVIOUS
<1> HIDE DEF n
<1>2. \A k \in 1 .. n : w[k] \in Ids(l) /\ w[k] \notin A /\ f[k] = DirectBitsize(cls[w[k]]) /\ f[k] \in Nat
  BY <1>1 DEF ToSet, Sized
<1>3. /\ \A k \in 0 .. n : SumUpTo(f, k) \in Nat
      /\ SumUpTo(f, 0) = 0
      /\ \A k \in 1 .. n : SumUpTo(f, k) = SumUpTo(f, k - 1) + f[k]
  <2>1. n \in Nat /\ \A k \in 1 .. n : f[k] \in Nat
    BY <1>1, <1>2
  <2>2. \A k \in 0 .. n : SumUpTo(f, k) \in Nat
    BY ONLY <2>1, SumUpToIs
  <2>3. SumUpTo(f, 0) = 0
    BY ONLY <2>1, SumUpToIs
  <2>4. \A k \in 1 .. n : SumUpTo(f, k) = SumUpTo(f, k - 1) + f[k]
    BY ONLY <2>1, SumUpToIs
  <2>5. QED
    BY <2>2, <2>3, <2>4
<1>4. SizeIn(l, A) \in Nat
  BY SizeInIs
<1>5. 0 \in N
  <2>1. W(0) = A /\ 0 \in 0 .. n
    BY <1>1
  <2> HIDE DEF W
  <2>2. QED
    BY <1>3, <1>4, <2>1
<1>6. ASSUME NEW k \in 1 .. n, k - 1 \in N PROVE k \in N
  <2>1. W(k) = W(k - 1) \cup {w[k]}
    <3>1. \A i \in 1 .. k : i = k \/ i \in 1 .. (k - 1)
      BY <1>1
    <3>2. k \in 1 .. k /\ \A i \in 1 .. (k - 1) : i \in 1 .. k
      BY <1>1
    <3>3. QED
      BY <3>1, <3>2
  <2>2. w[k] \notin W(k - 1)
    <3>1. \A i \in 1 .. (k - 1) : i \in 1 .. n /\ i # k
      BY <1>1
    <3>2. QED
      BY <1>1, <1>2, <3>1 DEF Injective
  <2>3. k \in 0 .. n /\ k - 1 \in 0 .. n
    BY <1>1
  <2> HIDE DEF W
  <2>4. SizeIn(l, W(k)) = SizeIn(l, W(k - 1)) + f[k]
    <3>1. PICK B, x : B = W(k - 1) /\ x = w[k]
      OBVIOUS
    <3>2. x \in Ids(l) /\ x \notin B /\ W(k) = B \cup {x} /\ f[k] = DirectBitsize(cls[x])
      BY <1>2, <2>1, <2>2, <3>1
    <3>3. SizeIn(l, B \cup {x}) = SizeIn(l, B) + DirectBitsize(cls[x])
      BY <3>2, SizeInAdds
    <3>4. QED
      BY <3>1, <3>2, <3>3
  <2>5. SizeIn(l, W(k - 1)) = SizeIn(l, A) + SumUpTo(f, k - 1)
    BY <1>6
  <2>6. SizeIn(l, W(k)) = SizeIn(l, A) + SumUpTo(f, k)
    <3>1. PICK a, b, d : a = SizeIn(l, A) /\ b = SumUpTo(f, k - 1) /\ d = f[k]
      OBVIOUS
    <3>2. a \in Nat /\ b \in Nat /\ d \in Nat /\ SumUpTo(f, k) = b + d
      BY <1>2, <1>3, <1>4, <2>3, <3>1
    <3>3. SizeIn(l, W(k)) = (a + b) + d
      BY <2>4, <2>5, <3>1
    <3>4. (a + b) + d = a + (b + d)
      BY <3>2
    <3>5. QED
      BY <3>1, <3>2, <3>3, <3>4
  <2>7. QED
    BY <2>3, <2>6
<1>7. n \in N
  <2>1. 0 .. n \subseteq N
    <3> HIDE DEF N
    <3>1. QED
      BY <1>1, <1>5, <1>6, CountingUp
  <2>2. QED
    BY <1>1, <2>1
<1>8. W(n) = A \cup ToSet(w)
  BY <1>1 DEF ToSet
<1> HIDE DEF W
<1>9. QED
  BY <1>1, <1>3, <1>7, <1>8 DEF Total

---------------------------------------------------------------------------
(* The classes that are accounted for.                                     *)

Account(A, a) == IF a.cls \in A THEN A ELSE A \cup AccountedWith(a)

LEMMA WithDepsIs ==
    ASSUME NEW l, Sound(l), NEW i \in DOMAIN l
    PROVE  /\ WithDeps(l[i]) \in Seq(Nat) /\ Injective(WithDeps(l[i]))
           /\ ToSet(WithDeps(l[i])) = {l[i].cls} \cup ToSet(l[i].deps)
           /\ ToSet(WithDeps(l[i])) \subseteq Ids(l)
<1>1. PICK c, d : c = l[i].cls /\ d = l[i].deps
  OBVIOUS
<1>2. c \in Nat /\ d \in Seq(Nat)
  BY <1>1, ListHas DEF Sound
<1>3. <<c>> \in Seq(Nat) /\ Injective(<<c>>) /\ ToSet(<<c>>) = {c}
  <2>1. DOMAIN <<c>> = {1} /\ <<c>>[1] = c
    OBVIOUS
  <2>2. QED
    BY <1>2, <2>1 DEF Injective, ToSet
<1>4. Injective(d) /\ c \notin ToSet(d)
  <2>1. Injective(d)
    BY <1>1 DEF Sound, DepsOnce, Injective
  <2>2. ASSUME NEW m \in DOMAIN d, d[m] = c PROVE FALSE
    <3>1. PICK p \in DOMAIN l : p > i /\ l[p].cls = c
      BY <1>1, <2>2 DEF Sound, DepsLater
    <3>2. p = i
      BY <1>1, <3>1 DEF Sound, Distinct
    <3>3. i \in Nat
      BY ListHas DEF Sound
    <3>4. QED
      BY <3>1, <3>2, <3>3
  <2>3. QED
    BY <2>1, <2>2 DEF ToSet
<1>5. WithDeps(l[i]) = <<c>> \o d
  BY <1>1 DEF WithDeps
<1>6. ToSet(<<c>>) \cap ToSet(d) = {}
  BY <1>3, <1>4
<1>7. <<c>> \o d \in Seq(Nat) /\ ToSet(<<c>> \o d) = ToSet(<<c>>) \cup ToSet(d) /\ Injective(<<c>> \o d)
  <2>1. PICK s : s = <<c>>
    OBVIOUS
  <2>2. s \in Seq(Nat) /\ Injective(s) /\ ToSet(s) \cap ToSet(d) = {}
    BY <1>3, <1>6, <2>1
  <2>3. s \o d \in Seq(Nat) /\ ToSet(s \o d) = ToSet(s) \cup ToSet(d) /\ Injective(s \o d)
    BY <1>2, <1>4, <2>2, Joined
  <2>4. QED
    BY <2>1, <2>3
<1>8. c \in Ids(l) /\ ToSet(d) \subseteq Ids(l)
  BY <1>1, DepsAreIds DEF Ids, ToSet
<1>9. QED
  BY <1>1, <1>3, <1>5, <1>7, <1>8

LEMMA AccountedIs ==
    ASSUME NEW l, Sound(l), NEW A, A = Accounted(l)
    PROVE  A[0] = {} /\ \A k \in 1 .. Len(l) : A[k] = Account(A[k - 1], l[k])
<1> DEFINE n == Len(l)
           S == SUBSET Nat
           F(u) == [k \in 0 .. n |-> CASE k = 0 -> {}
                                       [] k # 0 /\ l[k].cls \in u[k - 1] -> u[k - 1]
                                       [] OTHER -> u[k - 1] \cup AccountedWith(l[k])]
           G(u) == [k \in 0 .. n |-> IF k = 0 THEN {} ELSE Account(u[k - 1], l[k])]
           g == [k \in 1 .. n |-> [s \in S |-> Account(s, l[k])]]
<1>1. n \in Nat /\ DOMAIN l = 1 .. n
  BY ListHas DEF Sound
<1>2. \A k \in 1 .. n : \A s \in S : Account(s, l[k]) \in S
  <2> SUFFICES ASSUME NEW k \in 1 .. n, NEW s \in S PROVE Account(s, l[k]) \in S
    OBVIOUS
  <2>1. WithDeps(l[k]) \in Seq(Nat)
    BY <1>1, WithDepsIs
  <2>2. AccountedWith(l[k]) \in SUBSET Nat
    <3>1. PICK w : w = WithDeps(l[k])
      OBVIOUS
    <3>2. \A i \in DOMAIN w : w[i] \in Nat
      BY <2>1, <3>1
    <3>3. QED
      BY <3>1, <3>2 DEF AccountedWith, ToSet
  <2>3. QED
    BY <2>2 DEF Account
<1>3. \A u : F(u) = G(u)
  BY DEF Account
<1>4. A = CHOOSE u : u = F(u)
  BY DEF Accounted
<1> HIDE DEF F, n
<1>5. PICK f : Results(f, g, n, S, {})
  <2>1. Steps(g, n, S)
    BY <1>2 DEF Steps
  <2>2. {} \in S
    OBVIOUS
  <2> HIDE DEF g, S
  <2>3. QED
    BY <1>1, <2>1, <2>2, Iteration
<1>6. \A k \in 1 .. n : f[k] = Account(f[k - 1], l[k])
  <2> SUFFICES ASSUME NEW k \in 1 .. n PROVE f[k] = Account(f[k - 1], l[k])
    OBVIOUS
  <2>1. k - 1 \in 0 .. n
    BY <1>1
  <2>2. f[k - 1] \in S /\ f[k] = g[k][f[k - 1]]
    BY <1>5, <2>1 DEF Results
  <2>3. QED
    BY <2>2
<1>7. f = G(f)
  <2>1. f \in [0 .. n -> S] /\ f[0] = {}
    BY <1>5 DEF Results
  <2>2. \A k \in 0 .. n : k = 0 \/ k \in 1 .. n
    BY <1>1
  <2> HIDE DEF S
  <2>3. QED
    BY <1>6, <2>1, <2>2
<1> HIDE DEF G
<1>8. A = G(A)
  <2>1. f = F(f)
    BY <1>3, <1>7
  <2>2. A = F(A)
    BY <1>4, <2>1
  <2>3. QED
    BY <1>3, <2>2
<1>9. G(A)[0] = {} /\ \A k \in 1 .. n : G(A)[k] = Account(A[k - 1], l[k])
  BY <1>1 DEF G
<1>10. QED
  BY <1>8, <1>9 DEF n

(* What is accounted for are ancestors that have been come to, and what    *)
(* they pulled in: no other ancestor's dependencies.                       *)
LEMMA AccountedHas ==
    ASSUME NEW l, Sound(l), NEW A, A = Accounted(l)
    PROVE  \A k \in 0 .. Len(l) :
             /\ \A i \in 1 .. k : l[i].cls \in A[k]
             /\ \A x \in A[k] : \E i \in 1 .. k : x \in ToSet(WithDeps(l[i]))
<1> DEFINE n == Len(l)
           Right(k) == /\ \A i \in 1 .. k : l[i].cls \in A[k]
                       /\ \A x \in A[k] : \E i \in 1 .. k : x \in ToSet(WithDeps(l[i]))
           N == {k \in 0 .. n : Right(k)}
<1>1. n \in Nat /\ DOMAIN l = 1 .. n
  BY ListHas DEF Sound
<1>2. A[0] = {} /\ \A k \in 1 .. n : A[k] = Account(A[k - 1], l[k])
  BY AccountedIs
<1>3. \A k \in 1 .. n : ToSet(WithDeps(l[k])) = {l[k].cls} \cup ToSet(l[k].deps)
  BY <1>1, WithDepsIs
<1> HIDE DEF n
<1>4. 0 \in N
  BY <1>1, <1>2
<1>5. ASSUME NEW k \in 1 .. n, k - 1 \in N PROVE k \in N
  <2>1. k \in 0 .. n /\ (\A i \in 1 .. k : i = k \/ i \in 1 .. (k - 1))
        /\ k \in 1 .. k /\ \A i \in 1 .. (k - 1) : i \in 1 .. k
    BY <1>1
  <2>2. Right(k - 1)
    BY <1>5
  <2>3. A[k - 1] \subseteq A[k] /\ A[k] \subseteq A[k - 1] \cup ToSet(WithDeps(l[k])) /\ l[k].cls \in A[k]
    <3>1. A[k] = Account(A[k - 1], l[k])
      BY <1>2
    <3>2. l[k].cls \in AccountedWith(l[k])
      BY <1>3 DEF AccountedWith
    <3>3. QED
      BY <3>1, <3>2 DEF Account, AccountedWith
  <2>4. Right(k)
    BY <2>1, <2>2, <2>3
  <2> HIDE DEF Right
  <2>5. QED
    BY <2>1, <2>4
<1>6. 0 .. n \subseteq N
  <2> HIDE DEF N
  <2>1. QED
    BY <1>1, <1>4, <1>5, CountingUp
<1>7. QED
  BY <1>6 DEF n

LEMMA NoneTwice ==
    ASSUME NEW l, Sound(l), NEW A, A = Accounted(l), NEW i \in DOMAIN l, l[i].cls \notin A[i - 1]
    PROVE  ToSet(WithDeps(l[i])) \cap A[i - 1] = {}
<1>1. Len(l) \in Nat /\ DOMAIN l = 1 .. Len(l) /\ i - 1 \in 0 .. Len(l) /\ i \in Nat
  BY ListHas DEF Sound
<1>2. ASSUME NEW d \in ToSet(l[i].deps), d \in A[i - 1] PROVE FALSE
  <2>1. PICK j \in 1 .. (i - 1) : d \in ToSet(WithDeps(l[j]))
    BY <1>1, <1>2, AccountedHas
  <2>2. j \in DOMAIN l /\ j \in Nat /\ j < i
    BY <1>1
  <2>3. d = l[j].cls \/ d \in ToSet(l[j].deps)
    BY <2>1, <2>2, WithDepsIs
  <2>4. PICK m \in DOMAIN l[i].deps : l[i].deps[m] = d
    BY DEF ToSet
  <2>5. CASE d = l[j].cls
    <3>1. PICK p \in DOMAIN l : p > i /\ l[p].cls = d
      BY <2>4 DEF Sound, DepsLater
    <3>2. p = j
      BY <2>2, <2>5, <3>1 DEF Sound, Distinct
    <3>3. QED
      BY <1>1, <2>2, <3>1, <3>2
  <2>6. CASE d \in ToSet(l[j].deps)
    <3>1. PICK q \in DOMAIN l[j].deps : l[j].deps[q] = d
      BY <2>6 DEF ToSet
    <3>2. i = j
      BY <2>2, <2>4, <3>1 DEF Sound, DepsOnce
    <3>3. QED
      BY <1>1, <2>2, <3>2
  <2>7. QED
    BY <2>3, <2>5, <2>6
<1>3. ToSet(WithDeps(l[i])) = {l[i].cls} \cup ToSet(l[i].deps)
  BY WithDepsIs
<1>4. QED
  BY <1>2, <1>3

(* What ancestors have added, up to each: the sizes of what has been       *)
(* accounted for.                                                          *)
LEMMA AddedSum ==
    ASSUME NEW l, Sound(l), Sized(l)
    PROVE  /\ \A k \in 1 .. Len(l) : SizesAdded(l)[k] \in Nat
           /\ Wrap(Total(SizesAdded(l))) = Wrap(Total(SizesOf(l)))
<1> DEFINE n == Len(l)
<1>1. PICK A, f : A = Accounted(l) /\ f = SizesAdded(l)
  OBVIOUS
<1>2. n \in Nat /\ DOMAIN l = 1 .. n
  BY ListHas DEF Sound
<1>3. A[0] = {} /\ \A k \in 1 .. n : A[k] = Account(A[k - 1], l[k])
  BY <1>1, AccountedIs
<1> HIDE DEF n
<1>4. ASSUME NEW k \in 1 .. n
      PROVE  \/ A[k] = A[k - 1] /\ f[k] = 0
             \/ \E t \in Nat : f[k] = Wrap(t) /\ SizeIn(l, A[k]) = SizeIn(l, A[k - 1]) + t
  <2>1. CASE l[k].cls \in A[k - 1]
    BY <1>1, <1>2, <1>3, <2>1 DEF Account, SizesAdded
  <2>2. CASE l[k].cls \notin A[k - 1]
    <3>1. PICK w, g, t : w = WithDeps(l[k]) /\ g = [i \in DOMAIN w |-> DirectBitsize(cls[w[i]])] /\ t = Total(g)
      OBVIOUS
    <3>2. f[k] = SumOf(g)
      BY <1>1, <1>2, <2>2, <3>1 DEF SizesAdded
    <3>3. w \in Seq(Nat) /\ Injective(w) /\ ToSet(w) \subseteq Ids(l)
      BY <1>2, <3>1, WithDepsIs
    <3>4. ToSet(w) \cap A[k - 1] = {}
      BY <1>1, <1>2, <2>2, <3>1, NoneTwice
    <3>5. t \in Nat /\ SizeIn(l, A[k - 1] \cup ToSet(w)) = SizeIn(l, A[k - 1]) + t
      <4>1. PICK B : B = A[k - 1]
        OBVIOUS
      <4>2. Total(g) \in Nat /\ SizeIn(l, B \cup ToSet(w)) = SizeIn(l, B) + Total(g)
        <5>1. g = [i \in DOMAIN w |-> DirectBitsize(cls[w[i]])] /\ ToSet(w) \cap B = {}
          BY <3>1, <3>4, <4>1
        <5>2. Total(g) \in Nat
          BY <3>3, <5>1, SizeInAddsAll
        <5>3. SizeIn(l, B \cup ToSet(w)) = SizeIn(l, B) + Total(g)
          BY <3>3, <5>1, SizeInAddsAll
        <5>4. QED
          BY <5>2, <5>3
      <4>3. QED
        BY <3>1, <4>1, <4>2
    <3>6. A[k] = A[k - 1] \cup ToSet(w)
      BY <1>3, <2>2, <3>1 DEF Account, AccountedWith
    <3>7. QED
      BY <3>1, <3>2, <3>5, <3>6 DEF SumOf
  <2>3. QED
    BY <2>1, <2>2
<1>5. \A k \in 1 .. n : f[k] \in Nat
  BY <1>4, WrapIs
<1>6. /\ \A k \in 0 .. n : SumUpTo(f, k) \in Nat
      /\ SumUpTo(f, 0) = 0
      /\ \A k \in 1 .. n : SumUpTo(f, k) = SumUpTo(f, k - 1) + f[k]
  <2>1. \A k \in 0 .. n : SumUpTo(f, k) \in Nat
    BY <1>2, <1>5, SumUpToIs
  <2>2. SumUpTo(f, 0) = 0
    BY <1>2, <1>5, SumUpToIs
  <2>3. \A k \in 1 .. n : SumUpTo(f, k) = SumUpTo(f, k - 1) + f[k]
    BY <1>2, <1>5, SumUpToIs
  <2>4. QED
    BY <2>1, <2>2, <2>3
<1> DEFINE N == {k \in 0 .. n : Wrap(SumUpTo(f, k)) = Wrap(SizeIn(l, A[k]))}
<1>7. 0 \in N
  <2>1. SizesIn(l, {}) = [p \in DOMAIN l |-> 0]
    BY DEF SizesIn
  <2>2. SumUpTo(SizesIn(l, {}), n) = 0
    <3> DEFINE z == [p \in DOMAIN l |-> 0]
               M == {k \in 0 .. n : SumUpTo(z, k) = 0}
    <3>1. \A k \in 1 .. n : z[k] = 0 /\ z[k] \in Nat
      BY <1>2
    <3> HIDE DEF z
    <3>2. 0 \in M /\ \A k \in 1 .. n : k - 1 \in M => k \in M
      BY <1>2, <3>1, SumUpToIs
    <3>3. 0 .. n \subseteq M
      <4> HIDE DEF M
      <4>1. QED
        BY <1>2, <3>2, CountingUp
    <3>4. n \in M
      BY <1>2, <3>3
    <3>5. QED
      BY <2>1, <3>4 DEF z
  <2>3. SizeIn(l, {}) = 0
    BY <2>2 DEF SizeIn, n
  <2>4. 0 \in 0 .. n /\ SizeIn(l, A[0]) = SumUpTo(f, 0)
    BY <1>2, <1>3, <1>6, <2>3
  <2>5. QED
    BY <2>4
<1>8. ASSUME NEW k \in 1 .. n, k - 1 \in N PROVE k \in N
  <2>1. k \in 0 .. n /\ k - 1 \in 0 .. n
    BY <1>2
  <2>2. PICK a, b : a = SumUpTo(f, k - 1) /\ b = SizeIn(l, A[k - 1])
    OBVIOUS
  <2>3. a \in Nat /\ b \in Nat /\ Wrap(a) = Wrap(b) /\ SumUpTo(f, k) = a + f[k]
    BY <1>6, <1>8, <2>1, <2>2, SizeInIs
  <2>4. CASE A[k] = A[k - 1] /\ f[k] = 0
    BY <2>1, <2>2, <2>3, <2>4
  <2>5. CASE \E t \in Nat : f[k] = Wrap(t) /\ SizeIn(l, A[k]) = SizeIn(l, A[k - 1]) + t
    <3>1. PICK t \in Nat : f[k] = Wrap(t) /\ SizeIn(l, A[k]) = b + t
      BY <2>2, <2>5
    <3>2. Wrap(a + Wrap(t)) = Wrap(b + t)
      BY <2>3, WrapCongruent
    <3>3. QED
      BY <2>1, <2>3, <3>1, <3>2
  <2>6. QED
    BY <1>4, <2>4, <2>5
<1>9. n \in N
  <2>1. 0 .. n \subseteq N
    <3> HIDE DEF N
    <3>1. QED
      BY <1>2, <1>7, <1>8, CountingUp
  <2>2. n \in 0 .. n
    BY <1>2
  <2> HIDE DEF N
  <2>3. QED
    BY <2>1, <2>2
<1>10. SizesIn(l, A[n]) = SizesOf(l)
  <2>1. n \in 0 .. n
    BY <1>2
  <2>2. \A p \in DOMAIN l : l[p].cls \in A[n]
    BY <1>1, <1>2, <2>1, AccountedHas DEF n
  <2>3. QED
    BY <2>2 DEF SizesIn, SizesOf
<1>11. Len(SizesOf(l)) = n /\ Len(f) = n
  <2>1. DOMAIN SizesOf(l) = 1 .. n /\ DOMAIN f = 1 .. n
    BY <1>1, <1>2 DEF SizesOf, SizesAdded
  <2>2. QED
    BY <1>2, <1>1, <2>1 DEF SizesOf, SizesAdded
<1>12. QED
  BY <1>1, <1>5, <1>9, <1>10, <1>11 DEF SizeIn, Total, n

LEMMA ClassHas ==
    ASSUME IInv, NEW c \in DOMAIN cls
    PROVE  /\ cls[c] \in Records /\ cls[c].kind \in Kinds /\ cls[c].widths \in Widths
           /\ Family(cls[c].anc, cls[c].parents) /\ Sound(cls[c].anc) /\ Sized(cls[c].anc)
           /\ Ids(cls[c].anc) \subseteq DOMAIN cls /\ Ids(cls[c].anc) \subseteq 1 .. (c - 1)
           /\ DOMAIN cls = 1 .. Len(cls) /\ Len(cls) \in Nat /\ c \in Nat
<1>1. Built /\ cls \in Seq(Records) /\ DOMAIN cls = 1 .. Len(cls) /\ Len(cls) \in Nat
  BY DEF IInv, Built
<1>2. \A d \in 1 .. Len(cls) : cls[d] \in Records
  BY <1>1
<1>3. \A e \in Records : e.kind \in Kinds /\ e.widths \in Widths
  BY DEF Records
<1>4. Family(cls[c].anc, cls[c].parents) /\ Ids(cls[c].anc) \subseteq 1 .. (c - 1)
  BY <1>1 DEF Built
<1>5. Sound(cls[c].anc) /\ Ids(cls[c].anc) \subseteq DOMAIN cls
  BY <1>4 DEF Family, Complete
<1>6. \A a \in DOMAIN cls : DirectBitsize(cls[a]) \in Nat
  BY <1>1, <1>2, <1>3, SizesAreNat
<1>7. Sized(cls[c].anc)
  BY <1>5, <1>6 DEF Sized, Sound
<1>8. QED
  BY <1>1, <1>2, <1>3, <1>4, <1>5, <1>7

LEMMA InvariantAddsUp ==
    ASSUME IInv
    PROVE  SizesAddUp
<1> SUFFICES ASSUME NEW c \in DOMAIN cls, Usable(c)
             PROVE  LET r == cls[c]
                        pulledBy(a) == {i \in DOMAIN r.anc : a \in ToSet(r.anc[i].deps)}
                    IN  /\ \A a \in Ids(r.anc) :
                             \/ Cardinality(pulledBy(a)) = 1
                             \/ pulledBy(a) = {} /\ a \in ToSet(r.parents) \cup {UrSelf}
                        /\ \A i \in DOMAIN r.anc : r.anc[i].cls \notin Accounted(r.anc)[i - 1] =>
                             ToSet(r.anc[i].deps) \cap Accounted(r.anc)[i - 1] = {}
                        /\ Wrap(DirectBitsize(r) + Total(SizesAdded(r.anc))) = RequiredBitsize(r)
  BY DEF SizesAddUp
<1> DEFINE r == cls[c]
           l == r.anc
           pulledBy(a) == {i \in DOMAIN l : a \in ToSet(l[i].deps)}
<1>1. Family(l, r.parents) /\ Sound(l) /\ Sized(l) /\ r.widths \in Widths
  BY ClassHas
<1> HIDE DEF l
<1>2. ASSUME NEW a \in Ids(l)
      PROVE  Cardinality(pulledBy(a)) = 1 \/ (pulledBy(a) = {} /\ a \in ToSet(r.parents) \cup {UrSelf})
  <2>1. CASE PulledIn(l, 0, a)
    <3>0. PICK j \in DOMAIN l : \E q \in DOMAIN l[j].deps : l[j].deps[q] = a
      BY <2>1 DEF PulledIn
    <3>1. PICK q \in DOMAIN l[j].deps : l[j].deps[q] = a
      BY <3>0
    <3>2. j \in pulledBy(a)
      BY <3>1 DEF ToSet
    <3>3. ASSUME NEW i \in pulledBy(a) PROVE i = j
      <4>1. PICK m \in DOMAIN l[i].deps : l[i].deps[m] = a
        BY DEF ToSet
      <4>2. QED
        BY <1>1, <3>1, <4>1 DEF Sound, DepsOnce
    <3> HIDE DEF pulledBy
    <3>4. pulledBy(a) = {j}
      BY <3>2, <3>3
    <3>5. QED
      BY <3>4, FS_Singleton
  <2>2. CASE ~PulledIn(l, 0, a)
    <3>1. a \in ToSet(r.parents) \cup {UrSelf}
      BY <1>1, <2>2 DEF Family
    <3>2. ASSUME NEW i \in DOMAIN l, a \in ToSet(l[i].deps) PROVE FALSE
      <4>1. i > 0
        <5>1. DOMAIN l = 1 .. Len(l)
          BY <1>1, ListHas DEF Sound
        <5>2. QED
          BY <5>1
      <4>2. QED
        BY <2>2, <3>2, <4>1 DEF PulledIn, ToSet
    <3>3. QED
      BY <3>1, <3>2
  <2>3. QED
    BY <2>1, <2>2
<1>3. ASSUME NEW i \in DOMAIN l, l[i].cls \notin Accounted(l)[i - 1]
      PROVE  ToSet(l[i].deps) \cap Accounted(l)[i - 1] = {}
  <2>1. PICK A : A = Accounted(l)
    OBVIOUS
  <2>2. ToSet(WithDeps(l[i])) \cap A[i - 1] = {}
    BY <1>1, <1>3, <2>1, NoneTwice
  <2>3. ToSet(WithDeps(l[i])) = {l[i].cls} \cup ToSet(l[i].deps)
    BY <1>1, WithDepsIs
  <2>4. QED
    BY <2>1, <2>2, <2>3
<1>4. Wrap(DirectBitsize(r) + Total(SizesAdded(l))) = Wrap(DirectBitsize(r) + Total(SizesOf(l)))
  <2>1. PICK n, f, g : n = Len(l) /\ f = SizesAdded(l) /\ g = SizesOf(l)
    OBVIOUS
  <2>2. n \in Nat /\ n \in 0 .. n /\ DOMAIN l = 1 .. n
    BY <1>1, <2>1, ListHas DEF Sound
  <2>3. (\A k \in 1 .. n : f[k] \in Nat) /\ Wrap(Total(f)) = Wrap(Total(g))
    BY <1>1, <2>1, AddedSum
  <2>4. \A k \in 1 .. n : g[k] \in Nat
    BY <1>1, <2>1, <2>2 DEF SizesOf, Sized, Ids
  <2>5. f = [k \in 1 .. n |-> f[k]] /\ g = [k \in 1 .. n |-> g[k]]
    BY <2>1, <2>2 DEF SizesAdded, SizesOf
  <2>6. Len(f) = n /\ Len(g) = n
    BY <2>2, <2>5
  <2>7. Total(f) \in Nat /\ Total(g) \in Nat
    <3>1. SumUpTo(f, n) \in Nat
      BY <2>2, <2>3, SumUpToIs
    <3>2. SumUpTo(g, n) \in Nat
      BY <2>2, <2>4, SumUpToIs
    <3>3. QED
      BY <2>6, <3>1, <3>2 DEF Total
  <2>8. PICK a, b, d : a = Total(f) /\ b = Total(g) /\ d = DirectBitsize(r)
    OBVIOUS
  <2>9. a \in Nat /\ b \in Nat /\ d \in Nat /\ Wrap(a) = Wrap(b)
    BY <1>1, <2>3, <2>7, <2>8, SizesAreNat
  <2>10. Wrap(a + d) = Wrap(b + d)
    <3>1. Wrap(Wrap(a) + d) = Wrap(a + d)
      BY <2>9, WrapAdds
    <3>2. Wrap(Wrap(b) + d) = Wrap(b + d)
      BY <2>9, WrapAdds
    <3>3. QED
      BY <2>9, <3>1, <3>2
  <2>11. d + a = a + d /\ d + b = b + d
    BY <2>9
  <2>12. QED
    BY <2>1, <2>8, <2>10, <2>11
<1>5. QED
  BY <1>2, <1>3, <1>4 DEF RequiredBitsize, l

(* The ancestors of a class are the classes above it, each once and before *)
(* those it pulled in, and what they added sums up (ancestry.cpp:57-105).  *)
THEOREM AncestriesAddUp == Spec => []AncestryAddsUp
<1>1. IInv => AncestryAddsUp
  BY InvariantClosed, InvariantAddsUp DEF AncestryAddsUp
<1>2. QED
  BY <1>1, Invariant, PTL

---------------------------------------------------------------------------
(* Where the properties of an object are.                                  *)

LEMMA ExtentIs ==
    ASSUME NEW r, r.widths \in Widths, Extent(r) < BitsizeMod
    PROVE  /\ DirectBitsize(r) = Extent(r) /\ DataOff(r) <= Extent(r)
           /\ Extent(r) = DataOff(r) + PropsBitsize(r)
           /\ r.kind # "union" => PropsBitsize(r) = Total(r.widths)
<1>1. DataOff(r) \in Nat /\ PropsBitsize(r) \in Nat /\ Total(r.widths) \in Nat /\ BitsizeMod \in Nat
  BY SizesAreNat, SizesAssumption
<1>2. CASE r.kind = "union"
  <2>1. Extent(r) = DataOff(r) + PropsBitsize(r)
    BY <1>2 DEF Extent
  <2>2. DirectBitsize(r) = Extent(r)
    BY <1>1, <2>1, WrapIs DEF DirectBitsize
  <2>3. QED
    BY <1>1, <1>2, <2>1, <2>2
<1>3. CASE r.kind # "union"
  <2>1. Extent(r) = DataOff(r) + Total(r.widths)
    BY <1>3 DEF Extent
  <2>2. PropsBitsize(r) = Total(r.widths)
    <3>1. Total(r.widths) < BitsizeMod
      BY <1>1, <2>1
    <3>2. QED
      BY <1>1, <1>3, <3>1, WrapIs DEF PropsBitsize, SumOf
  <2>3. DirectBitsize(r) = Extent(r)
    BY <1>1, <2>1, <2>2, WrapIs DEF DirectBitsize
  <2>4. QED
    BY <1>1, <1>3, <2>1, <2>2, <2>3
<1>4. QED
  BY <1>2, <1>3

(* Offsets in a class: after the header, one after another but in unions.  *)
LEMMA InClass ==
    ASSUME NEW d, NEW r, r = cls[d], r.widths \in Widths, Extent(r) < BitsizeMod,
           NEW k \in DOMAIN r.widths, NEW o, o = OffsetInClass(<<d, k>>)
    PROVE  /\ o \in Nat /\ DataOff(r) <= o /\ r.widths[k] \in Nat /\ r.widths[k] > 0
           /\ o + r.widths[k] <= Extent(r)
           /\ o = DataOff(r) + IF r.kind = "union" THEN 0 ELSE SumUpTo(r.widths, k - 1)
<1>1. PICK f, n, h : f = r.widths /\ n = Len(f) /\ h = DataOff(r)
  OBVIOUS
<1>2. n \in Nat /\ DOMAIN f = 1 .. n /\ \A i \in 1 .. n : f[i] \in Nat /\ f[i] > 0
  BY <1>1 DEF Widths
<1>3. h \in Nat /\ PropsBitsize(r) \in Nat /\ BitsizeMod \in Nat /\ Total(f) \in Nat
  BY <1>1, SizesAreNat, SizesAssumption
<1>4. o = Wrap(h + IF r.kind = "union" THEN 0 ELSE SumUpTo(f, k - 1))
  BY <1>1 DEF OffsetInClass
<1>5. Extent(r) = h + PropsBitsize(r) /\ (r.kind # "union" => PropsBitsize(r) = Total(f))
  BY <1>1, ExtentIs
<1>6. k \in 1 .. n /\ f[k] \in Nat /\ f[k] > 0
  BY <1>1, <1>2
<1>7. CASE r.kind = "union"
  <2>1. f[k] <= PropsBitsize(r)
    BY <1>1, <1>7, MaxIs DEF PropsBitsize
  <2>2. h < BitsizeMod
    BY <1>3, <1>5
  <2>3. o = h
    BY <1>3, <1>4, <1>7, <2>2, WrapIs
  <2>4. PICK w, t : w = f[k] /\ t = PropsBitsize(r)
    OBVIOUS
  <2>5. w \in Nat /\ t \in Nat /\ w > 0 /\ w <= t /\ o = h /\ Extent(r) = h + t
    BY <1>3, <1>5, <1>6, <2>1, <2>3, <2>4
  <2>6. o \in Nat /\ h <= o /\ o + w <= Extent(r)
    BY <1>3, <2>5
  <2>7. w = r.widths[k] /\ h = DataOff(r)
    BY <1>1, <2>4
  <2>8. o = DataOff(r) + IF r.kind = "union" THEN 0 ELSE SumUpTo(r.widths, k - 1)
    BY <1>3, <1>7, <2>5, <2>7
  <2>9. QED
    BY <2>5, <2>6, <2>7, <2>8
<1>8. CASE r.kind # "union"
  <2>1. SumUpTo(f, k - 1) \in Nat
    BY <1>2, <1>6, SumHolds
  <2>2. SumUpTo(f, k - 1) + f[k] <= SumUpTo(f, n)
    BY <1>2, <1>6, SumHolds
  <2>3. PICK s : s = SumUpTo(f, k - 1)
    OBVIOUS
  <2>4. s \in Nat /\ s + f[k] <= Total(f)
    BY <1>1, <2>1, <2>2, <2>3 DEF Total
  <2>5. Extent(r) = h + Total(f) /\ h + s \in Nat /\ h + s < BitsizeMod
    BY <1>3, <1>5, <1>6, <1>8, <2>4
  <2>6. o = h + s
    BY <1>4, <1>8, <2>3, <2>5, WrapIs
  <2>7. PICK w, t : w = f[k] /\ t = Total(f)
    OBVIOUS
  <2>8. w \in Nat /\ t \in Nat /\ w > 0 /\ s + w <= t /\ o = h + s /\ Extent(r) = h + t
    BY <1>3, <1>6, <2>4, <2>5, <2>6, <2>7
  <2>9. o \in Nat /\ h <= o /\ o + w <= Extent(r)
    BY <1>3, <2>4, <2>8
  <2>10. s = SumUpTo(r.widths, k - 1) /\ w = r.widths[k] /\ h = DataOff(r)
    BY <1>1, <2>3, <2>7
  <2>11. o = DataOff(r) + IF r.kind = "union" THEN 0 ELSE SumUpTo(r.widths, k - 1)
    BY <1>8, <2>8, <2>10
  <2>12. QED
    BY <2>8, <2>9, <2>10, <2>11
<1>9. QED
  BY <1>7, <1>8

(* Where the data of a class and of its ancestors begins.                  *)
Extents(l) == [i \in DOMAIN l |-> Extent(cls[l[i].cls])]
BaseOf(c, d) ==
    IF d = c THEN 0 ELSE Extent(cls[c]) + SumUpTo(Extents(cls[c].anc), At(cls[c].anc, d) - 1)

LEMMA ExtentsAre ==
    ASSUME IInv, NEW c \in DOMAIN cls, NEW l, l = cls[c].anc, NEW f, f = Extents(l), NEW n, n = Len(l)
    PROVE  /\ n \in Nat /\ DOMAIN l = 1 .. n /\ DOMAIN f = 1 .. n /\ Len(f) = n
           /\ \A i \in 1 .. n : f[i] \in Nat /\ f[i] = Extent(cls[l[i].cls])
           /\ Extent(cls[c]) \in Nat /\ Total(f) \in Nat
           /\ FullExtent(cls[c]) = Extent(cls[c]) + Total(f)
<1>1. n \in Nat /\ DOMAIN l = 1 .. n
  BY ClassHas, ListHas DEF Sound
<1>2. \A a \in DOMAIN cls : Extent(cls[a]) \in Nat
  BY ClassHas, SizesAreNat
<1>3. \A i \in DOMAIN l : l[i].cls \in DOMAIN cls
  BY ClassHas DEF Ids
<1>4. \A i \in 1 .. n : f[i] \in Nat /\ f[i] = Extent(cls[l[i].cls])
  BY <1>1, <1>2, <1>3 DEF Extents
<1>5. DOMAIN f = 1 .. n /\ Len(f) = n
  <2>1. f = [i \in 1 .. n |-> Extent(cls[l[i].cls])]
    BY <1>1 DEF Extents
  <2>2. QED
    BY <1>1, <2>1
<1>6. Total(f) \in Nat
  <2>1. n \in 0 .. n
    BY <1>1
  <2>2. SumUpTo(f, n) \in Nat
    BY <1>1, <1>4, <2>1, SumUpToIs
  <2>3. QED
    BY <1>5, <2>2 DEF Total
<1>7. FullExtent(cls[c]) = Extent(cls[c]) + Total(f)
  BY DEF FullExtent, Extents
<1>8. QED
  BY <1>1, <1>2, <1>4, <1>5, <1>6, <1>7

LEMMA FullExtentIs ==
    ASSUME IInv, NEW c \in DOMAIN cls
    PROVE  Extent(cls[c]) \in Nat /\ FullExtent(cls[c]) \in Nat
<1>1. PICK l, f, n : l = cls[c].anc /\ f = Extents(l) /\ n = Len(l)
  OBVIOUS
<1>2. Extent(cls[c]) \in Nat /\ Total(f) \in Nat /\ FullExtent(cls[c]) = Extent(cls[c]) + Total(f)
  BY <1>1, ExtentsAre
<1>3. QED
  BY <1>2

LEMMA BasesAre ==
    ASSUME IInv, NEW c \in DOMAIN cls, NEW d \in Ids(cls[c].anc)
    PROVE  /\ d # c /\ BaseOf(c, d) \in Nat /\ Extent(cls[d]) \in Nat
           /\ Extent(cls[c]) <= BaseOf(c, d)
           /\ BaseOf(c, d) + Extent(cls[d]) <= FullExtent(cls[c])
           /\ \A e \in Ids(cls[c].anc) : e # d =>
                \/ BaseOf(c, d) + Extent(cls[d]) <= BaseOf(c, e)
                \/ BaseOf(c, e) + Extent(cls[e]) <= BaseOf(c, d)
<1>1. PICK l, f, n, x : l = cls[c].anc /\ f = Extents(l) /\ n = Len(l) /\ x = Extent(cls[c])
  OBVIOUS
<1>2. /\ n \in Nat /\ DOMAIN l = 1 .. n /\ DOMAIN f = 1 .. n /\ Len(f) = n
      /\ \A i \in 1 .. n : f[i] \in Nat /\ f[i] = Extent(cls[l[i].cls])
      /\ x \in Nat /\ Total(f) \in Nat
      /\ FullExtent(cls[c]) = x + Total(f)
  BY <1>1, ExtentsAre
<1>3. Sound(l) /\ \A e \in Ids(l) : e # c
  BY <1>1, ClassHas
<1>4. ASSUME NEW e \in Ids(l)
      PROVE  \E p \in 1 .. n :
               /\ l[p].cls = e /\ BaseOf(c, e) = x + SumUpTo(f, p - 1) /\ Extent(cls[e]) = f[p]
  <2>1. PICK p \in 1 .. n : l[p].cls = e
    BY <1>2 DEF Ids
  <2>2. At(l, e) = p
    BY <1>2, <1>3, <2>1, AtIs DEF Sound
  <2>3. QED
    BY <1>1, <1>2, <1>3, <2>1, <2>2 DEF BaseOf
<1>5. PICK p \in 1 .. n : l[p].cls = d /\ BaseOf(c, d) = x + SumUpTo(f, p - 1) /\ Extent(cls[d]) = f[p]
  BY <1>1, <1>4
<1>6. ASSUME NEW i \in 1 .. n
      PROVE  /\ SumUpTo(f, i - 1) \in Nat
             /\ SumUpTo(f, i - 1) + f[i] <= Total(f)
             /\ \A j \in 1 .. n : j < i => SumUpTo(f, j - 1) + f[j] <= SumUpTo(f, i - 1)
  <2>1. \A k \in 1 .. n : f[k] \in Nat
    BY <1>2
  <2>2. SumUpTo(f, i - 1) \in Nat
    BY <1>2, <2>1, SumHolds
  <2>3. SumUpTo(f, i - 1) + f[i] <= SumUpTo(f, n)
    BY <1>2, <2>1, SumHolds
  <2>4. \A j \in 1 .. n : j < i => SumUpTo(f, j - 1) + f[j] <= SumUpTo(f, i - 1)
    BY <1>2, <2>1, SumHolds
  <2>5. QED
    BY <1>2, <2>2, <2>3, <2>4 DEF Total
<1>7. PICK a : a = SumUpTo(f, p - 1)
  OBVIOUS
<1>8. a \in Nat /\ f[p] \in Nat /\ a + f[p] <= Total(f) /\ BaseOf(c, d) = x + a
  BY <1>2, <1>5, <1>6, <1>7
<1>9. /\ d # c /\ BaseOf(c, d) \in Nat /\ Extent(cls[d]) \in Nat
      /\ x <= BaseOf(c, d) /\ BaseOf(c, d) + Extent(cls[d]) <= FullExtent(cls[c])
  <2>1. PICK b, t, w : b = BaseOf(c, d) /\ t = Extent(cls[d]) /\ w = Total(f)
    OBVIOUS
  <2>2. x \in Nat /\ t \in Nat /\ w \in Nat /\ b = x + a /\ a + t <= w /\ FullExtent(cls[c]) = x + w
    BY <1>2, <1>5, <1>8, <2>1
  <2>3. b \in Nat /\ x <= b /\ b + t <= FullExtent(cls[c])
    BY <1>8, <2>2
  <2>4. d # c
    BY <1>1, <1>3
  <2>5. QED
    BY <2>1, <2>2, <2>3, <2>4
<1>10. ASSUME NEW e \in Ids(l), e # d
       PROVE  \/ BaseOf(c, d) + Extent(cls[d]) <= BaseOf(c, e)
              \/ BaseOf(c, e) + Extent(cls[e]) <= BaseOf(c, d)
  <2>1. PICK q \in 1 .. n : l[q].cls = e /\ BaseOf(c, e) = x + SumUpTo(f, q - 1) /\ Extent(cls[e]) = f[q]
    BY <1>4
  <2>2. PICK b : b = SumUpTo(f, q - 1)
    OBVIOUS
  <2>3. b \in Nat /\ f[q] \in Nat /\ BaseOf(c, e) = x + b
    BY <1>2, <1>6, <2>1, <2>2
  <2>4. p # q /\ p \in Nat /\ q \in Nat
    BY <1>2, <1>5, <1>10, <2>1
  <2>5. CASE p < q
    <3>1. a + f[p] <= b
      BY <1>6, <1>7, <2>2, <2>5
    <3>2. (x + a) + f[p] <= x + b
      BY <1>2, <1>8, <2>3, <3>1
    <3>3. QED
      BY <1>5, <1>8, <2>3, <3>2
  <2>6. CASE q < p
    <3>1. b + f[q] <= a
      BY <1>6, <1>7, <2>2, <2>6
    <3>2. (x + b) + f[q] <= x + a
      BY <1>2, <1>8, <2>3, <3>1
    <3>3. QED
      BY <1>8, <2>1, <2>3, <3>2
  <2>7. QED
    BY <2>4, <2>5, <2>6
<1>11. QED
  BY <1>1, <1>9, <1>10

(* Nothing is wrapped in a class whose full extent needs no wrapping.      *)
LEMMA SizesAreExtents ==
    ASSUME IInv, NEW c \in DOMAIN cls, FullExtent(cls[c]) < BitsizeMod,
           NEW l, l = cls[c].anc, NEW n, n = Len(l)
    PROVE  \A i \in 1 .. n : SizesOf(l)[i] = Extents(l)[i]
<1> SUFFICES ASSUME NEW i \in 1 .. n PROVE SizesOf(l)[i] = Extents(l)[i]
  OBVIOUS
<1>1. PICK f, g : f = Extents(l) /\ g = SizesOf(l)
  OBVIOUS
<1>2. /\ n \in Nat /\ DOMAIN l = 1 .. n /\ f[i] = Extent(cls[l[i].cls])
      /\ Extent(cls[c]) \in Nat /\ Total(f) \in Nat /\ FullExtent(cls[c]) = Extent(cls[c]) + Total(f)
  BY <1>1, ExtentsAre
<1>3. l[i].cls \in Ids(l) /\ g[i] = DirectBitsize(cls[l[i].cls])
  BY <1>1, <1>2 DEF Ids, SizesOf
<1>4. PICK a : a = l[i].cls
  OBVIOUS
<1>5. a \in DOMAIN cls /\ a \in Ids(cls[c].anc)
  BY <1>3, <1>4, ClassHas
<1>6. /\ BaseOf(c, a) \in Nat /\ Extent(cls[a]) \in Nat
      /\ BaseOf(c, a) + Extent(cls[a]) <= FullExtent(cls[c])
  BY <1>5, BasesAre
<1>7. Extent(cls[a]) < BitsizeMod /\ cls[a].widths \in Widths
  <2>1. BitsizeMod \in Nat /\ FullExtent(cls[c]) \in Nat
    BY <1>2, SizesAssumption
  <2>2. Extent(cls[a]) < BitsizeMod
    BY <1>6, <2>1
  <2>3. QED
    BY <1>5, <2>2, ClassHas
<1>8. DirectBitsize(cls[a]) = Extent(cls[a])
  BY <1>7, ExtentIs
<1>9. QED
  BY <1>1, <1>2, <1>3, <1>4, <1>8

LEMMA RequiredIsExtent ==
    ASSUME IInv, NEW c \in DOMAIN cls, FullExtent(cls[c]) < BitsizeMod
    PROVE  RequiredBitsize(cls[c]) = FullExtent(cls[c]) /\ DataOff(cls[c]) <= Extent(cls[c])
<1>1. PICK l, f, g, n, x :
        l = cls[c].anc /\ f = Extents(l) /\ g = SizesOf(l) /\ n = Len(l) /\ x = Extent(cls[c])
  OBVIOUS
<1>2. /\ n \in Nat /\ DOMAIN l = 1 .. n /\ Len(f) = n
      /\ \A i \in 1 .. n : f[i] \in Nat
      /\ x \in Nat /\ Total(f) \in Nat
      /\ FullExtent(cls[c]) = x + Total(f)
  BY <1>1, ExtentsAre
<1>3. \A i \in 1 .. n : g[i] = f[i]
  BY <1>1, SizesAreExtents
<1>4. Len(g) = n
  <2>1. g = [i \in 1 .. n |-> DirectBitsize(cls[l[i].cls])]
    BY <1>1, <1>2 DEF SizesOf
  <2>2. QED
    BY <1>2, <2>1
<1>5. Total(g) = Total(f)
  <2>1. SumUpTo(g, n) = SumUpTo(f, n)
    BY <1>2, <1>3, SumsAgree
  <2>2. QED
    BY <1>2, <1>4, <2>1 DEF Total
<1>6. x < BitsizeMod /\ x + Total(f) < BitsizeMod /\ BitsizeMod \in Nat
  BY <1>2, SizesAssumption
<1>7. DirectBitsize(cls[c]) = x /\ DataOff(cls[c]) <= x
  BY <1>1, <1>6, ClassHas, ExtentIs
<1>8. RequiredBitsize(cls[c]) = Wrap(x + Total(f))
  BY <1>1, <1>5, <1>7 DEF RequiredBitsize
<1>9. QED
  BY <1>1, <1>2, <1>6, <1>7, <1>8, WrapIs

LEMMA PropPlaced ==
    ASSUME IInv, NEW c \in DOMAIN cls, FullExtent(cls[c]) < BitsizeMod,
           NEW d \in {c} \cup Ids(cls[c].anc), NEW k \in DOMAIN cls[d].widths
    PROVE  /\ Extent(cls[d]) < BitsizeMod /\ cls[d].widths \in Widths /\ Extent(cls[d]) \in Nat
           /\ BaseOf(c, d) \in Nat
           /\ BaseOf(c, d) + Extent(cls[d]) <= FullExtent(cls[c])
           /\ DataOffIn(<<d, k>>, c) = BaseOf(c, d) + OffsetInClass(<<d, k>>)
<1>1. PICK l, f, n, x : l = cls[c].anc /\ f = Extents(l) /\ n = Len(l) /\ x = Extent(cls[c])
  OBVIOUS
<1>2. /\ n \in Nat /\ DOMAIN l = 1 .. n /\ DOMAIN f = 1 .. n /\ Len(f) = n
      /\ \A i \in 1 .. n : f[i] \in Nat /\ f[i] = Extent(cls[l[i].cls])
      /\ x \in Nat /\ Total(f) \in Nat
      /\ FullExtent(cls[c]) = x + Total(f)
  BY <1>1, ExtentsAre
<1>3. BitsizeMod \in Nat /\ FullExtent(cls[c]) \in Nat /\ x < BitsizeMod
  BY <1>2, SizesAssumption
<1>4. cls[c].widths \in Widths /\ Ids(l) \subseteq DOMAIN cls /\ Sound(l)
  BY <1>1, ClassHas
<1>5. CASE d = c
  <2>1. BaseOf(c, d) = 0
    BY <1>5 DEF BaseOf
  <2>2. OffsetInClass(<<d, k>>) \in Nat
    BY <1>1, <1>3, <1>4, <1>5, InClass
  <2>3. DataOffIn(<<d, k>>, c) = OffsetInClass(<<d, k>>)
    BY <1>5 DEF DataOffIn
  <2>4. QED
    BY <1>1, <1>2, <1>3, <1>4, <1>5, <2>1, <2>2, <2>3
<1>6. CASE d # c
  <2>1. d \in Ids(l) /\ d \in DOMAIN cls
    BY <1>1, <1>4, <1>6
  <2>2. /\ BaseOf(c, d) \in Nat /\ Extent(cls[d]) \in Nat
        /\ BaseOf(c, d) + Extent(cls[d]) <= FullExtent(cls[c])
    BY <1>1, <2>1, BasesAre
  <2>3. Extent(cls[d]) < BitsizeMod /\ cls[d].widths \in Widths
    BY <1>3, <2>1, <2>2, ClassHas
  <2>4. PICK p \in 1 .. n : l[p].cls = d
    BY <1>2, <2>1 DEF Ids
  <2>5. At(l, d) = p
    BY <1>2, <1>4, <2>4, AtIs DEF Sound
  <2>6. BaseOf(c, d) = x + SumUpTo(f, p - 1)
    BY <1>1, <1>6, <2>5 DEF BaseOf
  <2>7. PICK s : s = SumUpTo(f, p - 1)
    OBVIOUS
  <2>8. s \in Nat
    BY <1>2, <2>7, SumHolds
  <2>9. AncestorOffset(cls[c], d) = s
    <3>1. PICK g : g = SizesOf(l)
      OBVIOUS
    <3>2. \A i \in 1 .. n : g[i] = f[i]
      BY <1>1, <3>1, SizesAreExtents
    <3>3. SumUpTo(g, p - 1) = s
      <4>1. p - 1 \in Nat /\ \A i \in 1 .. (p - 1) : i \in 1 .. n
        BY <1>2
      <4>2. \A i \in 1 .. (p - 1) : f[i] \in Nat /\ g[i] = f[i]
        BY <1>2, <3>2, <4>1
      <4>3. QED
        BY <2>7, <4>1, <4>2, SumsAgree
    <3>4. s < BitsizeMod
      BY <1>2, <1>3, <2>2, <2>6, <2>7, <2>8
    <3>5. AncestorOffset(cls[c], d) = Wrap(SumUpTo(g, p - 1))
      BY <1>1, <2>5, <3>1 DEF AncestorOffset
    <3>6. QED
      BY <2>8, <3>3, <3>4, <3>5, WrapIs
  <2>10. PICK o : o = OffsetInClass(<<d, k>>)
    OBVIOUS
  <2>11. o \in Nat /\ o + cls[d].widths[k] <= Extent(cls[d]) /\ cls[d].widths[k] \in Nat
    BY <2>3, <2>10, InClass
  <2>12. DirectBitsize(cls[c]) = x
    BY <1>1, <1>3, <1>4, ExtentIs
  <2>13. DataOffIn(<<d, k>>, c) = Wrap(o + x + s)
    BY <1>6, <2>9, <2>10, <2>12 DEF DataOffIn
  <2>14. o + x + s \in Nat /\ o + x + s < BitsizeMod /\ o + x + s = (x + s) + o
    <3>1. PICK w, t, u : w = cls[d].widths[k] /\ t = Extent(cls[d]) /\ u = FullExtent(cls[c])
      OBVIOUS
    <3>2. /\ w \in Nat /\ t \in Nat /\ u \in Nat /\ x \in Nat /\ s \in Nat /\ o \in Nat
          /\ u < BitsizeMod /\ BitsizeMod \in Nat
      BY <1>2, <1>3, <2>2, <2>8, <2>11, <3>1
    <3>3. o + w <= t
      BY <2>11, <3>1
    <3>4. (x + s) + t <= u
      BY <2>2, <2>6, <2>7, <3>1
    <3>5. QED
      BY <3>2, <3>3, <3>4
  <2>15. DataOffIn(<<d, k>>, c) = (x + s) + o
    BY <2>13, <2>14, WrapIs
  <2>16. QED
    BY <2>2, <2>3, <2>6, <2>7, <2>10, <2>15
<1>7. QED
  BY <1>5, <1>6

LEMMA BitsizeIsInt ==
    ASSUME IInv, NEW c \in DOMAIN cls, FullExtent(cls[c]) < BitsizeMod
    PROVE  Bitsize(cls[c]) \in Int
<1>1. RequiredBitsize(cls[c]) \in Nat
  BY RequiredIsExtent, FullExtentIs
<1>2. AtomDataOff \in Nat /\ AtomDataMaxSize \in Nat
  BY SizesAssumption
<1>3. PICK q : q = RequiredBitsize(cls[c])
  OBVIOUS
<1>4. Min({AtomDataMaxSize, q}) \in Int
  <2>1. \E x \in {AtomDataMaxSize, q} : \A y \in {AtomDataMaxSize, q} : x <= y
    BY <1>1, <1>2, <1>3
  <2>2. Min({AtomDataMaxSize, q}) \in {AtomDataMaxSize, q}
    BY <2>1 DEF Min
  <2>3. QED
    BY <1>1, <1>2, <1>3, <2>2
<1>5. QED
  BY <1>1, <1>2, <1>3, <1>4 DEF Bitsize

(* A property is within the data of its class, and so are its bits.        *)
LEMMA BitsPlaced ==
    ASSUME IInv, NEW c \in DOMAIN cls, FullExtent(cls[c]) < BitsizeMod,
           NEW d \in {c} \cup Ids(cls[c].anc), NEW k \in DOMAIN cls[d].widths,
           NEW o, o = OffsetInClass(<<d, k>>), NEW w, w = cls[d].widths[k]
    PROVE  /\ BitsOf(<<d, k>>, c) = (BaseOf(c, d) + o + 1) .. (BaseOf(c, d) + o + w)
           /\ o \in Nat /\ w \in Nat /\ BaseOf(c, d) \in Nat /\ Extent(cls[d]) \in Nat
           /\ o + w <= Extent(cls[d])
<1>1. /\ Extent(cls[d]) < BitsizeMod /\ cls[d].widths \in Widths /\ Extent(cls[d]) \in Nat
      /\ BaseOf(c, d) \in Nat
      /\ DataOffIn(<<d, k>>, c) = BaseOf(c, d) + o
  BY PropPlaced
<1>2. o \in Nat /\ w \in Nat /\ o + w <= Extent(cls[d])
  BY <1>1, InClass
<1>3. Width(<<d, k>>) = w
  BY DEF Width
<1>4. BitsOf(<<d, k>>, c) = (BaseOf(c, d) + o + 1) .. (BaseOf(c, d) + o + w)
  BY <1>1, <1>3 DEF BitsOf
<1>5. QED
  BY <1>1, <1>2, <1>4

LEMMA InvariantDisjoint ==
    ASSUME IInv
    PROVE  LayoutDisjoint
<1> SUFFICES ASSUME NEW c \in DOMAIN cls, cls[c].state = "Resolved", FullExtent(cls[c]) < BitsizeMod,
                    NEW ps, ps = cls[c].allProps
             PROVE  /\ ToSet(ps) = UNION {{<<d, k>> : k \in DOMAIN cls[d].widths} : d \in {c} \cup Above(c)}
                    /\ \A i \in DOMAIN ps :
                         /\ BitsOf(ps[i], c) \subseteq (DataOff(cls[c]) + 1)..Bitsize(cls[c])
                         /\ \A j \in 1..(i - 1) :
                              /\ ps[i] # ps[j]
                              /\ SameUnion(ps[i], ps[j]) \/ BitsOf(ps[i], c) \cap BitsOf(ps[j], c) = {}
  BY DEF LayoutDisjoint
<1> DEFINE D == {c} \cup Ids(cls[c].anc)
<1>1. Usable(c)
  BY DEF Usable
<1>2. Injective(ps) /\ ToSet(ps) = AllOf(c, cls[c]) /\ Ids(cls[c].anc) = Above(c)
  BY <1>1, IdsAreAbove DEF IInv, Collected
<1>3. ToSet(ps) = UNION {{<<d, k>> : k \in DOMAIN cls[d].widths} : d \in {c} \cup Above(c)}
  BY <1>2 DEF AllOf, OwnOf
<1>4. \A i \in DOMAIN ps : \E d \in D : \E k \in DOMAIN cls[d].widths : ps[i] = <<d, k>>
  BY <1>2 DEF AllOf, OwnOf, ToSet
<1>5. DOMAIN ps = 1 .. Len(ps) /\ Len(ps) \in Nat
  <2>1. cls[c].allProps \in Seq(Pairs)
    BY ClassHas DEF Records
  <2>2. QED
    BY <2>1
<1>6. ASSUME NEW d \in D, NEW k \in DOMAIN cls[d].widths
      PROVE  BitsOf(<<d, k>>, c) \subseteq (DataOff(cls[c]) + 1)..Bitsize(cls[c])
  <2>1. PICK o, w, a, t, x, u, h, b :
          /\ o = OffsetInClass(<<d, k>>) /\ w = cls[d].widths[k] /\ a = BaseOf(c, d)
          /\ t = Extent(cls[d]) /\ x = Extent(cls[c]) /\ u = FullExtent(cls[c])
          /\ h = DataOff(cls[c]) /\ b = Bitsize(cls[c])
    OBVIOUS
  <2>2. /\ BitsOf(<<d, k>>, c) = (a + o + 1) .. (a + o + w)
        /\ o \in Nat /\ w \in Nat /\ a \in Nat /\ t \in Nat /\ o + w <= t
    BY <2>1, BitsPlaced
  <2>3. a + t <= u
    BY <2>1, PropPlaced
  <2>4. u <= b
    <3>1. RequiredBitsize(cls[c]) = u
      BY <2>1, RequiredIsExtent
    <3>2. QED
      BY <2>1, <3>1 DEF IInv, Fitted
  <2>5. x \in Nat /\ u \in Nat /\ h \in Nat
    BY <2>1, FullExtentIs, ClassHas, SizesAreNat
  <2>6. h <= a + o
    <3>1. CASE d = c
      <4>1. a = 0
        BY <2>1, <3>1 DEF BaseOf
      <4>2. h <= o
        <5>1. Extent(cls[c]) < BitsizeMod /\ cls[c].widths \in Widths
          BY <3>1, PropPlaced
        <5>2. QED
          BY <2>1, <3>1, <5>1, InClass
      <4>3. QED
        BY <2>2, <2>5, <4>1, <4>2
    <3>2. CASE d # c
      <4>1. x <= a
        BY <2>1, <3>2, BasesAre
      <4>2. h <= x
        BY <2>1, RequiredIsExtent
      <4>3. QED
        BY <2>2, <2>5, <4>1, <4>2
    <3>3. QED
      BY <3>1, <3>2
  <2>7. b \in Int
    BY <2>1, BitsizeIsInt
  <2>8. (a + o + 1) .. (a + o + w) \subseteq (h + 1) .. b
    BY <2>2, <2>3, <2>4, <2>5, <2>6, <2>7
  <2>9. QED
    BY <2>1, <2>2, <2>8
<1>7. ASSUME NEW d \in D, NEW k \in DOMAIN cls[d].widths, NEW e \in D, NEW m \in DOMAIN cls[e].widths,
             <<d, k>> # <<e, m>>, ~SameUnion(<<d, k>>, <<e, m>>)
      PROVE  BitsOf(<<d, k>>, c) \cap BitsOf(<<e, m>>, c) = {}
  <2>1. PICK o, w, a, t : o = OffsetInClass(<<d, k>>) /\ w = cls[d].widths[k] /\ a = BaseOf(c, d) /\ t = Extent(cls[d])
    OBVIOUS
  <2>2. PICK p, v, b, s : p = OffsetInClass(<<e, m>>) /\ v = cls[e].widths[m] /\ b = BaseOf(c, e) /\ s = Extent(cls[e])
    OBVIOUS
  <2>3. /\ BitsOf(<<d, k>>, c) = (a + o + 1) .. (a + o + w)
        /\ o \in Nat /\ w \in Nat /\ a \in Nat /\ t \in Nat /\ o + w <= t
    BY <2>1, BitsPlaced
  <2>4. /\ BitsOf(<<e, m>>, c) = (b + p + 1) .. (b + p + v)
        /\ p \in Nat /\ v \in Nat /\ b \in Nat /\ s \in Nat /\ p + v <= s
    BY <2>2, BitsPlaced
  <2>5. a + o + w <= b + p \/ b + p + v <= a + o
    <3>1. CASE d # e
      <4>1. a + t <= b \/ b + s <= a
        <5>1. CASE d = c
          <6>1. a = 0 /\ e \in Ids(cls[c].anc)
            BY <2>1, <3>1, <5>1 DEF BaseOf
          <6>2. t <= b
            BY <2>1, <2>2, <5>1, <6>1, BasesAre
          <6>3. QED
            BY <2>3, <2>4, <6>1, <6>2
        <5>2. CASE e = c
          <6>1. b = 0 /\ d \in Ids(cls[c].anc)
            BY <2>2, <3>1, <5>2 DEF BaseOf
          <6>2. s <= a
            BY <2>1, <2>2, <5>2, <6>1, BasesAre
          <6>3. QED
            BY <2>3, <2>4, <6>1, <6>2
        <5>3. CASE d # c /\ e # c
          BY <2>1, <2>2, <3>1, <5>3, BasesAre
        <5>4. QED
          BY <5>1, <5>2, <5>3
      <4>2. QED
        BY <2>3, <2>4, <4>1
    <3>2. CASE d = e
      <4>1. k # m /\ cls[d].kind # "union"
        BY <1>7, <3>2 DEF SameUnion
      <4>2. PICK f, n, h : f = cls[d].widths /\ n = Len(f) /\ h = DataOff(cls[d])
        OBVIOUS
      <4>3. Extent(cls[d]) < BitsizeMod /\ f \in Widths
        BY <4>2, PropPlaced
      <4>4. n \in Nat /\ DOMAIN f = 1 .. n /\ \A i \in 1 .. n : f[i] \in Nat
        BY <4>2, <4>3 DEF Widths
      <4>5. o = h + SumUpTo(f, k - 1)
        BY <2>1, <4>1, <4>2, <4>3, InClass
      <4>6. p = h + SumUpTo(f, m - 1)
        BY <2>2, <3>2, <4>1, <4>2, <4>3, InClass
      <4>7. PICK x, y : x = SumUpTo(f, k - 1) /\ y = SumUpTo(f, m - 1)
        OBVIOUS
      <4>8. k \in 1 .. n /\ m \in 1 .. n /\ w = f[k] /\ v = f[m]
        BY <2>1, <2>2, <3>2, <4>2, <4>4
      <4>9. x \in Nat /\ y \in Nat /\ h \in Nat
        BY <4>2, <4>3, <4>4, <4>7, <4>8, SumHolds, SizesAreNat
      <4>10. a = b /\ o = h + x /\ p = h + y
        BY <2>1, <2>2, <3>2, <4>5, <4>6, <4>7
      <4>11. CASE k < m
        <5>1. x + w <= y
          BY <4>4, <4>7, <4>8, <4>11, SumHolds
        <5>2. a \in Nat /\ w \in Nat
          BY <2>3, <2>4
        <5>3. a + (h + x) + w <= a + (h + y)
          BY ONLY <4>9, <5>1, <5>2
        <5>4. a + o + w <= b + p
          BY <4>10, <5>3
        <5>5. QED
          BY <5>4
      <4>12. CASE m < k
        <5>1. y + v <= x
          BY <4>4, <4>7, <4>8, <4>12, SumHolds
        <5>2. a \in Nat /\ v \in Nat
          BY <2>3, <2>4
        <5>3. a + (h + y) + v <= a + (h + x)
          BY ONLY <4>9, <5>1, <5>2
        <5>4. b + p + v <= a + o
          BY <4>10, <5>3
        <5>5. QED
          BY <5>4
      <4>13. QED
        BY <4>1, <4>4, <4>8, <4>11, <4>12
    <3>3. QED
      BY <3>1, <3>2
  <2>6. ((a + o + 1) .. (a + o + w)) \cap ((b + p + 1) .. (b + p + v)) = {}
    BY <2>3, <2>4, <2>5
  <2>7. QED
    BY <2>3, <2>4, <2>6
<1>8. ASSUME NEW i \in DOMAIN ps
      PROVE  /\ BitsOf(ps[i], c) \subseteq (DataOff(cls[c]) + 1)..Bitsize(cls[c])
             /\ \A j \in 1..(i - 1) :
                  /\ ps[i] # ps[j]
                  /\ SameUnion(ps[i], ps[j]) \/ BitsOf(ps[i], c) \cap BitsOf(ps[j], c) = {}
  <2>1. PICK d \in D : \E k \in DOMAIN cls[d].widths : ps[i] = <<d, k>>
    BY <1>4
  <2>2. PICK k \in DOMAIN cls[d].widths : ps[i] = <<d, k>>
    BY <2>1
  <2>3. ASSUME NEW j \in 1 .. (i - 1)
        PROVE  ps[i] # ps[j] /\ (SameUnion(ps[i], ps[j]) \/ BitsOf(ps[i], c) \cap BitsOf(ps[j], c) = {})
    <3>1. j \in DOMAIN ps /\ j # i
      BY <1>5
    <3>2. ps[i] # ps[j]
      BY <1>2, <3>1 DEF Injective
    <3>3. PICK e \in D : \E m \in DOMAIN cls[e].widths : ps[j] = <<e, m>>
      BY <1>4, <3>1
    <3>4. PICK m \in DOMAIN cls[e].widths : ps[j] = <<e, m>>
      BY <3>3
    <3> HIDE DEF D
    <3>5. QED
      BY <1>7, <2>2, <3>2, <3>4
  <2>4. BitsOf(ps[i], c) \subseteq (DataOff(cls[c]) + 1)..Bitsize(cls[c])
    BY <1>6, <2>2
  <2>5. QED
    BY <2>3, <2>4
<1>9. QED
  BY <1>3, <1>8

(* In a resolved class whose sizes needed no wrapping, properties have     *)
(* bits of their own (class.cpp:178-225, prop.cpp:20-25).                  *)
THEOREM LayoutsDisjoint == Spec => []LayoutDisjoint
<1>1. IInv => LayoutDisjoint
  BY InvariantDisjoint
<1>2. QED
  BY <1>1, Invariant, PTL
=============================================================================
