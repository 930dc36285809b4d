---------------------------- MODULE UISqrtProofs -----------------------------
(***************************************************************************)
(* uisqrt returns the integer square root of every number of 32 bits.      *)
(***************************************************************************)
EXTENDS UISqrt, TLAPS

-----------------------------------------------------------------------------
(* Division *)

\* The quotient and the remainder of \div, as facts of multiplication.
LEMMA Quotient ==
    ASSUME NEW m \in Nat, NEW d \in Nat \ {0}
    PROVE  /\ m \div d \in Nat
           /\ (m \div d) * d <= m
           /\ m < (m \div d) * d + d
<1>1. m \div d \in Nat
  BY SMT
<1>2. m = d * (m \div d) + (m % d) /\ m % d \in 0..(d - 1)
  BY SMT
<1> QED
  BY <1>1, <1>2, SMT

\* A quotient of at most g by g + 1 says that m is below the square of g + 1.
LEMMA BelowSquare ==
    ASSUME NEW m \in Nat, NEW g \in Nat
    PROVE  m \div (g + 1) <= g <=> m < (g + 1) * (g + 1)
<1> DEFINE q == m \div (g + 1)
<1>1. q \in Nat /\ q * (g + 1) <= m /\ m < q * (g + 1) + (g + 1)
  <2>1. g + 1 \in Nat \ {0}
    BY SMT
  <2> QED
    BY <2>1, Quotient
<1> HIDE DEF q
<1>2. q <= g => q * (g + 1) <= g * (g + 1)
  BY <1>1, SMT
<1>3. q > g => q * (g + 1) >= (g + 1) * (g + 1)
  BY <1>1, SMT
<1>4. q <= g <=> m < (g + 1) * (g + 1)
  BY <1>1, <1>2, <1>3, SMT
<1> QED
  BY <1>4 DEF q

-----------------------------------------------------------------------------
(* Newton's step *)

\* The mean of a guess and the quotient by it is again at least the root.
LEMMA StepStaysAbove ==
    ASSUME NEW m \in Nat \ {0}, NEW g \in Nat \ {0}
    PROVE  /\ NextGuess(m, g) \in Nat
           /\ m < (NextGuess(m, g) + 1) * (NextGuess(m, g) + 1)
           /\ NextGuess(m, g) > 0
<1> DEFINE q == m \div g
           h == (g + q) \div 2
<1>1. q \in Nat /\ q * g <= m /\ m < q * g + g
  BY Quotient
<1> HIDE DEF q
<1>2. h \in Nat /\ g + q <= 2 * h + 1
  BY <1>1, SMT
<1>3. g + q >= 2
  <2>1. CASE g = 1
    BY <1>1, <2>1, SMT
  <2>2. CASE g > 1
    BY <1>1, <2>2, SMT
  <2> QED
    BY <2>1, <2>2
<1>4. h > 0
  BY <1>1, <1>3, SMT
<1> HIDE DEF h
<1>5. (g + q + 1) * (g + q + 1) >= 4 * (g * (q + 1))
  <2>1. (g - (q + 1)) * (g - (q + 1)) >= 0
    BY <1>1, SMT
  <2>2. (g + (q + 1)) * (g + (q + 1)) = (g - (q + 1)) * (g - (q + 1)) + 4 * (g * (q + 1))
    BY <1>1, SMT
  <2> QED
    BY <2>1, <2>2, <1>1, SMT
<1>6. g * (q + 1) = q * g + g
  BY <1>1, SMT
<1>7. (2 * (h + 1)) * (2 * (h + 1)) >= (g + q + 1) * (g + q + 1)
  <2>1. 2 * (h + 1) >= g + q + 1
    BY <1>1, <1>2, SMT
  <2>2. \A a, b \in Nat : a >= b => a * a >= b * b
    BY SMT
  <2> QED
    BY <2>1, <2>2, <1>1, <1>2, SMT
<1>8. 4 * ((h + 1) * (h + 1)) > 4 * m
  BY <1>1, <1>2, <1>5, <1>6, <1>7, SMT
<1>9. m < (h + 1) * (h + 1)
  BY <1>8, <1>2, SMT
<1> QED
  BY <1>2, <1>4, <1>9 DEF h, q, NextGuess

\* A guess that Newton's step does not lower is at most the root.
LEMMA StepEnds ==
    ASSUME NEW m \in Nat \ {0}, NEW g \in Nat \ {0}, NextGuess(m, g) >= g
    PROVE  g * g <= m
<1> DEFINE q == m \div g
<1>1. q \in Nat /\ q * g <= m
  BY Quotient
<1>2. (g + q) \div 2 >= g
  BY DEF NextGuess
<1> HIDE DEF q
<1>3. q >= g
  BY <1>1, <1>2, SMT
<1>4. g * g <= q * g
  BY <1>1, <1>3, SMT
<1> QED
  BY <1>1, <1>4, SMT

\* A guess above the root is not far below the quotient, so their sum is small.
LEMMA SumIsSmall ==
    ASSUME NEW m \in Nat, NEW g \in Nat \ {0}, m < (g + 1) * (g + 1)
    PROVE  g + (m \div g) <= 2 * g + 2
<1> DEFINE q == m \div g
<1>1. q \in Nat /\ q * g <= m
  BY Quotient
<1> HIDE DEF q
<1>2. (g + 1) * (g + 1) = g * g + 2 * g + 1
  BY SMT
<1>3. q > g + 2 => q * g >= (g + 3) * g
  BY <1>1, SMT
<1>4. (g + 3) * g = g * g + 3 * g
  BY SMT
<1>5. q <= g + 2
  BY <1>1, <1>2, <1>3, <1>4, SMT
<1> QED
  BY <1>1, <1>5, SMT DEF q

-----------------------------------------------------------------------------
(* The first guess *)

\* The table never says too little: v < 2 ^ bit_length_table(v), with the powers
\* written out.
LEMMA TableIsEnough ==
    ASSUME NEW v \in 1..255
    PROVE  \/ bit_length_table(v) = 1 /\ v < 2
           \/ bit_length_table(v) = 2 /\ v < 4
           \/ bit_length_table(v) = 3 /\ v < 8
           \/ bit_length_table(v) = 4 /\ v < 16
           \/ bit_length_table(v) = 5 /\ v < 32
           \/ bit_length_table(v) = 6 /\ v < 64
           \/ bit_length_table(v) = 7 /\ v < 128
           \/ bit_length_table(v) = 8 /\ v < 256
  BY SMT DEF bit_length_table

\* The first guess for every bit length.
LEMMA FirstGuesses ==
    /\ FirstGuess(1) = 1
    /\ FirstGuess(2) = 2
    /\ FirstGuess(3) = 4
    /\ FirstGuess(4) = 4
    /\ FirstGuess(5) = 8
    /\ FirstGuess(6) = 16
    /\ FirstGuess(7) = 16
    /\ FirstGuess(8) = 32
    /\ FirstGuess(9) = 32
    /\ FirstGuess(10) = 64
    /\ FirstGuess(11) = 64
    /\ FirstGuess(12) = 128
    /\ FirstGuess(13) = 128
    /\ FirstGuess(14) = 256
    /\ FirstGuess(15) = 256
    /\ FirstGuess(16) = 512
    /\ FirstGuess(17) = 512
    /\ FirstGuess(18) = 1024
    /\ FirstGuess(19) = 1024
    /\ FirstGuess(20) = 2048
    /\ FirstGuess(21) = 2048
    /\ FirstGuess(22) = 4096
    /\ FirstGuess(23) = 4096
    /\ FirstGuess(24) = 8192
    /\ FirstGuess(25) = 8192
    /\ FirstGuess(26) = 16384
    /\ FirstGuess(27) = 16384
    /\ FirstGuess(28) = 32768
    /\ FirstGuess(29) = 32768
    /\ FirstGuess(30) = 65536
    /\ FirstGuess(31) = 65536
    /\ FirstGuess(32) = 131072
  BY SMT DEF FirstGuess, ShiftedOne

\* m is below D * 2 ^ i, where D is the weight of its first byte v and i the bit length
\* of v.
LEMMA ScaledTable ==
    ASSUME NEW m \in Nat, NEW D \in Nat \ {0}, m >= D, m \div D < 256
    PROVE  \/ bit_length_table(m \div D) = 1 /\ m < 2 * D
           \/ bit_length_table(m \div D) = 2 /\ m < 4 * D
           \/ bit_length_table(m \div D) = 3 /\ m < 8 * D
           \/ bit_length_table(m \div D) = 4 /\ m < 16 * D
           \/ bit_length_table(m \div D) = 5 /\ m < 32 * D
           \/ bit_length_table(m \div D) = 6 /\ m < 64 * D
           \/ bit_length_table(m \div D) = 7 /\ m < 128 * D
           \/ bit_length_table(m \div D) = 8 /\ m < 256 * D
<1> DEFINE v == m \div D
<1>1. v \in Nat /\ v * D <= m /\ m < v * D + D
  BY Quotient
<1>2. v < 256
  OBVIOUS
<1> HIDE DEF v
<1>3. v > 0
  BY <1>1, SMT
<1>4. v \in 1..255
  BY <1>1, <1>2, <1>3, SMT
<1>5. \A k \in Nat : v < k => m < k * D
  <2> TAKE k \in Nat
  <2> HAVE v < k
  <2>1. (v + 1) * D <= k * D
    BY <1>1, SMT
  <2>2. (v + 1) * D = v * D + D
    BY <1>1, SMT
  <2> QED
    BY <2>1, <2>2, <1>1, SMT
<1>6. \/ bit_length_table(v) = 1 /\ v < 2
      \/ bit_length_table(v) = 2 /\ v < 4
      \/ bit_length_table(v) = 3 /\ v < 8
      \/ bit_length_table(v) = 4 /\ v < 16
      \/ bit_length_table(v) = 5 /\ v < 32
      \/ bit_length_table(v) = 6 /\ v < 64
      \/ bit_length_table(v) = 7 /\ v < 128
      \/ bit_length_table(v) = 8 /\ v < 256
  BY <1>4, TableIsEnough
<1> QED
  BY <1>5, <1>6 DEF v

GoodGuess(m, g) == g \in Nat /\ 0 < g /\ g <= 131072 /\ m < (g + 1) * (g + 1)

\* A number of b bits is below the square of the first guess for b, plus one.
LEMMA GuessesFor1Byte ==
    ASSUME NEW m \in Nat
    PROVE  /\ m < 2 => GoodGuess(m, FirstGuess(1))
           /\ m < 4 => GoodGuess(m, FirstGuess(2))
           /\ m < 8 => GoodGuess(m, FirstGuess(3))
           /\ m < 16 => GoodGuess(m, FirstGuess(4))
           /\ m < 32 => GoodGuess(m, FirstGuess(5))
           /\ m < 64 => GoodGuess(m, FirstGuess(6))
           /\ m < 128 => GoodGuess(m, FirstGuess(7))
           /\ m < 256 => GoodGuess(m, FirstGuess(8))
  BY FirstGuesses, SMT DEF GoodGuess

\* The same, for the lengths of one more byte.
LEMMA GuessesFor2Bytes ==
    ASSUME NEW m \in Nat
    PROVE  /\ m < 512 => GoodGuess(m, FirstGuess(9))
           /\ m < 1024 => GoodGuess(m, FirstGuess(10))
           /\ m < 2048 => GoodGuess(m, FirstGuess(11))
           /\ m < 4096 => GoodGuess(m, FirstGuess(12))
           /\ m < 8192 => GoodGuess(m, FirstGuess(13))
           /\ m < 16384 => GoodGuess(m, FirstGuess(14))
           /\ m < 32768 => GoodGuess(m, FirstGuess(15))
           /\ m < 65536 => GoodGuess(m, FirstGuess(16))
  BY FirstGuesses, SMT DEF GoodGuess

\* The same, for the lengths of one more byte.
LEMMA GuessesFor3Bytes ==
    ASSUME NEW m \in Nat
    PROVE  /\ m < 131072 => GoodGuess(m, FirstGuess(17))
           /\ m < 262144 => GoodGuess(m, FirstGuess(18))
           /\ m < 524288 => GoodGuess(m, FirstGuess(19))
           /\ m < 1048576 => GoodGuess(m, FirstGuess(20))
           /\ m < 2097152 => GoodGuess(m, FirstGuess(21))
           /\ m < 4194304 => GoodGuess(m, FirstGuess(22))
           /\ m < 8388608 => GoodGuess(m, FirstGuess(23))
           /\ m < 16777216 => GoodGuess(m, FirstGuess(24))
  BY FirstGuesses, SMT DEF GoodGuess

\* The same, for the lengths of one more byte.
LEMMA GuessesFor4Bytes ==
    ASSUME NEW m \in Nat
    PROVE  /\ m < 33554432 => GoodGuess(m, FirstGuess(25))
           /\ m < 67108864 => GoodGuess(m, FirstGuess(26))
           /\ m < 134217728 => GoodGuess(m, FirstGuess(27))
           /\ m < 268435456 => GoodGuess(m, FirstGuess(28))
           /\ m < 536870912 => GoodGuess(m, FirstGuess(29))
           /\ m < 1073741824 => GoodGuess(m, FirstGuess(30))
           /\ m < 2147483648 => GoodGuess(m, FirstGuess(31))
           /\ m < 4294967296 => GoodGuess(m, FirstGuess(32))
  BY FirstGuesses, SMT DEF GoodGuess

\* The first guess is at least the root, whichever byte is the first one of m.
LEMMA FirstGuessIsAbove ==
    ASSUME NEW m \in UInt32, m # 0
    PROVE  GoodGuess(m, FirstGuess(bit_length(m)))
<1>1. m \in Nat /\ m \div 65536 < 65536
  BY DEF UInt32
<1>2. CASE m >= 16777216
  <2>1. m \div 16777216 < 256
    BY <1>1, <1>2, SMT
  <2>2. bit_length(m) = 24 + bit_length_table(m \div 16777216)
    BY <1>1, <1>2, SMT DEF bit_length
  <2>3. \/ bit_length(m) = 25 /\ m < 33554432
        \/ bit_length(m) = 26 /\ m < 67108864
        \/ bit_length(m) = 27 /\ m < 134217728
        \/ bit_length(m) = 28 /\ m < 268435456
        \/ bit_length(m) = 29 /\ m < 536870912
        \/ bit_length(m) = 30 /\ m < 1073741824
        \/ bit_length(m) = 31 /\ m < 2147483648
        \/ bit_length(m) = 32 /\ m < 4294967296
    <3> DEFINE v == bit_length_table(m \div 16777216)
    <3>1. \/ v = 1 /\ m < 2 * 16777216
          \/ v = 2 /\ m < 4 * 16777216
          \/ v = 3 /\ m < 8 * 16777216
          \/ v = 4 /\ m < 16 * 16777216
          \/ v = 5 /\ m < 32 * 16777216
          \/ v = 6 /\ m < 64 * 16777216
          \/ v = 7 /\ m < 128 * 16777216
          \/ v = 8 /\ m < 256 * 16777216
      BY <1>1, <1>2, <2>1, ScaledTable
    <3>2. bit_length(m) = 24 + v
      BY <2>2
    <3> HIDE DEF v
    <3> QED
      BY <1>1, <3>1, <3>2, SMT
  <2> QED
    BY <1>1, <2>3, GuessesFor4Bytes
<1>3. CASE m < 16777216 /\ m >= 65536
  <2>1. m \div 65536 < 256
    BY <1>1, <1>3, SMT
  <2>2. bit_length(m) = 16 + bit_length_table(m \div 65536)
    BY <1>1, <1>3, SMT DEF bit_length
  <2>3. \/ bit_length(m) = 17 /\ m < 131072
        \/ bit_length(m) = 18 /\ m < 262144
        \/ bit_length(m) = 19 /\ m < 524288
        \/ bit_length(m) = 20 /\ m < 1048576
        \/ bit_length(m) = 21 /\ m < 2097152
        \/ bit_length(m) = 22 /\ m < 4194304
        \/ bit_length(m) = 23 /\ m < 8388608
        \/ bit_length(m) = 24 /\ m < 16777216
    <3> DEFINE v == bit_length_table(m \div 65536)
    <3>1. \/ v = 1 /\ m < 2 * 65536
          \/ v = 2 /\ m < 4 * 65536
          \/ v = 3 /\ m < 8 * 65536
          \/ v = 4 /\ m < 16 * 65536
          \/ v = 5 /\ m < 32 * 65536
          \/ v = 6 /\ m < 64 * 65536
          \/ v = 7 /\ m < 128 * 65536
          \/ v = 8 /\ m < 256 * 65536
      BY <1>1, <1>3, <2>1, ScaledTable
    <3>2. bit_length(m) = 16 + v
      BY <2>2
    <3> HIDE DEF v
    <3> QED
      BY <1>1, <3>1, <3>2, SMT
  <2> QED
    BY <1>1, <2>3, GuessesFor3Bytes
<1>4. CASE m < 65536 /\ m >= 256
  <2>1. m \div 256 < 256
    BY <1>1, <1>4, SMT
  <2>2. bit_length(m) = 8 + bit_length_table(m \div 256)
    BY <1>1, <1>4, SMT DEF bit_length
  <2>3. \/ bit_length(m) = 9 /\ m < 512
        \/ bit_length(m) = 10 /\ m < 1024
        \/ bit_length(m) = 11 /\ m < 2048
        \/ bit_length(m) = 12 /\ m < 4096
        \/ bit_length(m) = 13 /\ m < 8192
        \/ bit_length(m) = 14 /\ m < 16384
        \/ bit_length(m) = 15 /\ m < 32768
        \/ bit_length(m) = 16 /\ m < 65536
    <3> DEFINE v == bit_length_table(m \div 256)
    <3>1. \/ v = 1 /\ m < 2 * 256
          \/ v = 2 /\ m < 4 * 256
          \/ v = 3 /\ m < 8 * 256
          \/ v = 4 /\ m < 16 * 256
          \/ v = 5 /\ m < 32 * 256
          \/ v = 6 /\ m < 64 * 256
          \/ v = 7 /\ m < 128 * 256
          \/ v = 8 /\ m < 256 * 256
      BY <1>1, <1>4, <2>1, ScaledTable
    <3>2. bit_length(m) = 8 + v
      BY <2>2
    <3> HIDE DEF v
    <3> QED
      BY <1>1, <3>1, <3>2, SMT
  <2> QED
    BY <1>1, <2>3, GuessesFor2Bytes
<1>5. CASE m < 256
  <2>1. bit_length(m) = bit_length_table(m)
    BY <1>1, <1>5, SMT DEF bit_length
  <2>2. m \in 1..255
    BY <1>1, <1>5, SMT
  <2>3. \/ bit_length(m) = 1 /\ m < 2
        \/ bit_length(m) = 2 /\ m < 4
        \/ bit_length(m) = 3 /\ m < 8
        \/ bit_length(m) = 4 /\ m < 16
        \/ bit_length(m) = 5 /\ m < 32
        \/ bit_length(m) = 6 /\ m < 64
        \/ bit_length(m) = 7 /\ m < 128
        \/ bit_length(m) = 8 /\ m < 256
    BY <2>1, <2>2, TableIsEnough
  <2> QED
    BY <1>1, <2>3, GuessesFor1Byte
<1> QED
  BY <1>1, <1>2, <1>3, <1>4, <1>5

-----------------------------------------------------------------------------
(* The loop *)

\* The argument is a number of 32 bits; in the loop the guess is good and the next one
\* follows from it; the returned number is the root.
IInv ==
    /\ n \in UInt32
    /\ pc \in {"call", "loop", "return"}
    /\ pc = "call" => x = 0
    /\ pc = "loop" => n # 0 /\ GoodGuess(n, x) /\ y = NextGuess(n, x)
    /\ pc = "return" => x \in Nat /\ IsRoot(n, x)

\* IInv holds at the call.
LEMMA IInvInit == Init => IInv
  BY InputsAssumption DEF Init, IInv

\* Every step of the loop keeps the guess good, and the last one leaves the root.
LEMMA IInvNext == IInv /\ [Next]_vars => IInv'
<1> SUFFICES ASSUME IInv, [Next]_vars PROVE IInv'
  OBVIOUS
<1>1. n \in Nat
  BY DEF IInv, UInt32
<1>2. CASE ReturnZero
  <2>1. x' = 0 /\ n' = 0 /\ pc' = "return"
    BY <1>2 DEF ReturnZero, IInv
  <2>2. IsRoot(n', x')
    BY <2>1, SMT DEF IsRoot
  <2> QED
    BY <1>2, <2>1, <2>2 DEF ReturnZero, IInv
<1>3. CASE Guess
  <2>1. n' = n /\ n # 0 /\ pc' = "loop"
    BY <1>3 DEF Guess
  <2>2. GoodGuess(n, FirstGuess(bit_length(n)))
    BY <2>1, FirstGuessIsAbove DEF IInv
  <2>3. x' = FirstGuess(bit_length(n)) /\ y' = NextGuess(n, x')
    BY <1>3 DEF Guess
  <2> QED
    BY <2>1, <2>2, <2>3 DEF IInv
<1>4. CASE Improve
  <2>1. n' = n /\ pc' = "loop" /\ pc = "loop" /\ x' = y /\ y' = NextGuess(n, y) /\ y < x
    BY <1>4 DEF Improve
  <2>2. n # 0 /\ GoodGuess(n, x) /\ y = NextGuess(n, x)
    BY <2>1 DEF IInv
  <2>3. y \in Nat /\ n < (y + 1) * (y + 1) /\ y > 0
    BY <1>1, <2>2, StepStaysAbove DEF GoodGuess
  <2>4. GoodGuess(n, y)
    BY <2>1, <2>2, <2>3, SMT DEF GoodGuess
  <2> QED
    BY <2>1, <2>2, <2>4 DEF IInv
<1>5. CASE Return
  <2>1. n' = n /\ x' = x /\ pc' = "return" /\ pc = "loop" /\ y >= x
    BY <1>5 DEF Return
  <2>2. n # 0 /\ GoodGuess(n, x) /\ y = NextGuess(n, x)
    BY <2>1 DEF IInv
  <2>3. x * x <= n
    BY <1>1, <2>1, <2>2, StepEnds DEF GoodGuess
  <2>4. x \in Nat /\ IsRoot(n, x)
    BY <2>2, <2>3 DEF IsRoot, GoodGuess
  <2> QED
    BY <2>1, <2>4 DEF IInv
<1>6. CASE UNCHANGED vars
  BY <1>6 DEF vars, IInv
<1> QED
  BY <1>2, <1>3, <1>4, <1>5, <1>6 DEF Next

\* The invariant implies what a run checks of a guess.
LEMMA IInvGuesses == IInv => GuessesFromAbove
<1> SUFFICES ASSUME IInv, pc = "loop"
             PROVE  /\ x > 0 /\ y > 0
                    /\ n \div (x + 1) <= x
                    /\ y = NextGuess(n, x)
                    /\ x <= 131072
                    /\ x + (n \div x) <= 2 * x + 2
  BY DEF GuessesFromAbove
<1>1. n \in Nat /\ n # 0 /\ GoodGuess(n, x) /\ y = NextGuess(n, x)
  BY DEF IInv, UInt32
<1>2. y > 0
  BY <1>1, StepStaysAbove DEF GoodGuess
<1>3. n \div (x + 1) <= x
  BY <1>1, BelowSquare DEF GoodGuess
<1>4. x + (n \div x) <= 2 * x + 2
  BY <1>1, SumIsSmall DEF GoodGuess
<1> QED
  BY <1>1, <1>2, <1>3, <1>4 DEF GoodGuess

\* uisqrt returns the integer square root of every number of 32 bits.
THEOREM UISqrtReturnsRoot == Spec => []ReturnsRoot
<1>1. IInv => ReturnsRoot
  BY DEF IInv, ReturnsRoot
<1> QED
  BY <1>1, IInvInit, IInvNext, PTL DEF Spec

\* Every guess of uisqrt is at least the root, so the loop divides by no zero, and its
\* sums stay far inside 32 bits.
THEOREM UISqrtGuessesFromAbove == Spec => []GuessesFromAbove
  BY IInvInit, IInvNext, IInvGuesses, PTL DEF Spec

=============================================================================
