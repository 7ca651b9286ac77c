----------------------------- MODULE BitStrings -----------------------------
(***************************************************************************)
(* What the class Bits promises: strings of bits, each read and written in *)
(* any range, shifted, flipped and combined with another that is aligned   *)
(* with it at the right.  It knows no units of storage.                    *)
(***************************************************************************)
EXTENDS Integers, Sequences

CONSTANTS Names,   \* of the strings
          Lens,    \* the lengths they may have
          Chunk    \* the most bits that are read or written at once

VARIABLE bits      \* a function from names to sequences of 0 and 1

Least(a, b) == IF a < b THEN a ELSE b
Zeros(n) == [i \in 1..n |-> 0]
Combine(op, a, b) ==
  CASE op = "and" -> a * b
    [] op = "or"  -> a + b - a * b
    [] op = "xor" -> (a + b) % 2

\* Of a string, n bits from position idx on, and the string with these replaced.
Range(s, idx, n) == SubSeq(s, idx + 1, idx + n)
Replaced(s, idx, t) ==
  [i \in 1..Len(s) |-> IF idx < i /\ i <= idx + Len(t) THEN t[i - idx] ELSE s[i]]

\* Aligned at the right, with zeros where the second is too short.
Combined(op, s, t) ==
  [i \in 1..Len(s) |-> LET j == i - Len(s) + Len(t)
                       IN Combine(op, s[i], IF j > 0 THEN t[j] ELSE 0)]

Shifted(s, k) ==
  [i \in 1..Len(s) |-> IF i + k \in 1..Len(s) THEN s[i + k] ELSE 0]
-----------------------------------------------------------------------------
Init == bits = [x \in Names |-> <<>>]

Become(x, s) == bits' = [bits EXCEPT ![x] = s]
New(x)      == \E n \in Lens : Become(x, Zeros(n))
Flip(x)     == Become(x, [i \in 1..Len(bits[x]) |-> 1 - bits[x][i]])
Shift(x)    == \E k \in 0..(Len(bits[x]) + 1) :
                 Become(x, Shifted(bits[x], k)) \/ Become(x, Shifted(bits[x], -k))
Copy(x, y)  == Become(x, bits[y])
Move(x, y)  == bits' = [bits EXCEPT ![x] = bits[y], ![y] = IF y = x THEN @ ELSE <<>>]
Write(x)    == \E idx \in 0..(Len(bits[x]) - 1) : \E n \in 1..Least(Chunk, Len(bits[x]) - idx) :
                 \E v \in [1..n -> {0, 1}] : Become(x, Replaced(bits[x], idx, v))
\* A range of one string becomes a range of another, as long.
WriteRange(x, y) ==
  \E idx \in 0..(Len(bits[x]) - 1), from \in 0..(Len(bits[y]) - 1) :
    \E n \in 1..Least(Len(bits[x]) - idx, Len(bits[y]) - from) :
      Become(x, Replaced(bits[x], idx, Range(bits[y], from, n)))
\* A string becomes a copy of a range.
CopyRange(x, y) ==
  \E from \in 0..(Len(bits[y]) - 1) : \E n \in 1..(Len(bits[y]) - from) :
    n \in Lens /\ Become(x, Range(bits[y], from, n))
\* A range of one string is combined with a range of another, of any length.
Apply(x, y) ==
  \E idx \in 0..(Len(bits[x]) - 1), from \in 0..(Len(bits[y]) - 1) :
    \E n \in 1..(Len(bits[x]) - idx), m \in 1..(Len(bits[y]) - from), op \in {"and", "or", "xor"} :
      Become(x, Replaced(bits[x], idx, Combined(op, Range(bits[x], idx, n), Range(bits[y], from, m))))
\* The result of an operator is as long as the longer of its operands.
Operator(x, y) ==
  \E op \in {"and", "or", "xor"} :
    Become(x, IF Len(bits[y]) > Len(bits[x]) THEN Combined(op, bits[y], bits[x])
                                             ELSE Combined(op, bits[x], bits[y]))

Only(x) == \A z \in Names \ {x} : bits'[z] = bits[z]
Next == \E x \in Names :
  \/ \E y \in Names : Move(x, y)
  \/ /\ Only(x)
     /\ \/ New(x) \/ Flip(x) \/ Shift(x) \/ Write(x)
        \/ \E y \in Names : \/ Copy(x, y) \/ WriteRange(x, y) \/ CopyRange(x, y)
                            \/ Apply(x, y) \/ Operator(x, y)

Spec == Init /\ [][Next]_bits
=============================================================================
