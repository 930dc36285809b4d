------------------------------- MODULE UISqrt --------------------------------
(***************************************************************************)
(* The integer square root that weighs stakers (uisqrt, 32 bits wide):     *)
(* Newton's iteration from a power of two that a table of bit lengths      *)
(* suggests.                                                               *)
(***************************************************************************)
EXTENDS Integers

CONSTANT Inputs

\* the numbers of 32 bits
UInt32 == {m \in Nat : m \div 65536 < 65536}

ASSUME InputsAssumption == Inputs \subseteq UInt32

VARIABLES
    n,   \* the argument
    x,   \* the current guess
    y,   \* the next one
    pc   \* "call", "loop" or "return"

vars == << n, x, y, pc >>

\* As in the code, where only 16..24 have length 5, and 25..31 length 6.
bit_length_table(v) ==
    IF v = 0 THEN 255 ELSE
    IF v < 2 THEN 1 ELSE
    IF v < 4 THEN 2 ELSE
    IF v < 8 THEN 3 ELSE
    IF v < 16 THEN 4 ELSE
    IF v < 25 THEN 5 ELSE
    IF v < 64 THEN 6 ELSE
    IF v < 128 THEN 7 ELSE 8

\* Fault: the second byte counts for the first.
bit_length_short(v) ==
    IF v >= 16777216 THEN 24 + bit_length_table(v \div 16777216) ELSE
    IF v >= 65536 THEN 8 + bit_length_table(v \div 65536) ELSE
    IF v >= 256 THEN 8 + bit_length_table(v \div 256) ELSE bit_length_table(v)

bit_length(v) ==
    IF v >= 16777216 THEN 24 + bit_length_table(v \div 16777216) ELSE
    IF v >= 65536 THEN 16 + bit_length_table(v \div 65536) ELSE
    IF v >= 256 THEN 8 + bit_length_table(v \div 256) ELSE bit_length_table(v)

\* 1 << k, for k up to half of 32
ShiftedOne(k) ==
    << 1, 2, 4, 8, 16, 32, 64, 128, 256, 512, 1024, 2048, 4096, 8192, 16384, 32768, 65536 >>[k + 1]

\* b ^ x is not zero unless b equals x, so nearly every guess is doubled.
FirstGuess(b) ==
    LET half == ShiftedOne(b \div 2) IN IF b # half THEN 2 * half ELSE half

NextGuess(m, g) == (g + (m \div g)) \div 2

Init == n \in Inputs /\ x = 0 /\ y = 0 /\ pc = "call"

ReturnZero ==
    /\ pc = "call" /\ n = 0
    /\ pc' = "return"
    /\ UNCHANGED << n, x, y >>

Guess ==
    /\ pc = "call" /\ n # 0
    /\ x' = FirstGuess(bit_length(n))
    /\ y' = NextGuess(n, x')
    /\ pc' = "loop"
    /\ UNCHANGED n

\* Fault: the loop forgets to take the next guess.
ImproveNothing ==
    /\ pc = "loop" /\ y < x
    /\ y' = NextGuess(n, x)
    /\ UNCHANGED << n, x, pc >>

Improve ==
    /\ pc = "loop" /\ y < x
    /\ x' = y
    /\ y' = NextGuess(n, y)
    /\ UNCHANGED << n, pc >>

\* Fault: a guess next to the last is good enough.
ReturnEarly ==
    /\ pc = "loop" /\ y >= x - 1
    /\ pc' = "return"
    /\ UNCHANGED << n, x, y >>

Return ==
    /\ pc = "loop" /\ y >= x
    /\ pc' = "return"
    /\ UNCHANGED << n, x, y >>

Next == ReturnZero \/ Guess \/ Improve \/ Return

\* The call runs until it returns.
Spec == Init /\ [][Next]_vars /\ WF_vars(Next)

-----------------------------------------------------------------------------
(* Properties *)

IsRoot(m, r) == r * r <= m /\ m < (r + 1) * (r + 1)

\* What uisqrt returns is the integer square root of its argument, for the arguments
\* whose bit length the table gets wrong too.
ReturnsRoot == pc = "return" => IsRoot(n, x)

\* Every guess is at least the root, so the loop comes down to it and never divides by
\* zero, and no sum in it leaves 32 bits.
GuessesFromAbove ==
    pc = "loop" => /\ x > 0 /\ y > 0
                   /\ n \div (x + 1) <= x
                   /\ y = NextGuess(n, x)
                   /\ x <= 131072
                   /\ x + (n \div x) <= 2 * x + 2

\* The loop ends: uisqrt returns for every argument.
Returns == <>(pc = "return")

=============================================================================
