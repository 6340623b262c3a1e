----------------------------- MODULE SyncValue -----------------------------
(* The 64-bit numbers of the Synchronization extension                      *)
(* (include/extensions/sync.h and syncstr.h): a signed high word and an      *)
(* unsigned low word of 32 bits each, compared, added and subtracted by      *)
(* macros that work word by word.  The word size is a parameter: a word has  *)
(* 2 * Half values, 2^32 in the code and as few as 2 here.                   *)
EXTENDS Integers

CONSTANT Half           \* half the number of values of a word: 2^31 in the code

ASSUME HalfAssumption == Half \in Nat \ {0}

Word == 2 * Half

(* XSyncValue: an int and an unsigned int.                                  *)
XSyncValue == [hi : -Half .. Half - 1, lo : 0 .. Word - 1]

MaxValue == [hi |-> Half - 1, lo |-> Word - 1]
MinValue == [hi |-> -Half, lo |-> 0]

(* The macro tests the bit 0x80000000 of the high word.                     *)
IsNegative(v) == v.hi < 0
IsZero(v) == v.lo = 0 /\ v.hi = 0

GreaterThan(a, b) == a.hi > b.hi \/ (a.hi = b.hi /\ a.lo > b.lo)
LessThan(a, b) == a.hi < b.hi \/ (a.hi = b.hi /\ a.lo < b.lo)
GreaterOrEqual(a, b) == a.hi > b.hi \/ (a.hi = b.hi /\ a.lo >= b.lo)
LessOrEqual(a, b) == a.hi < b.hi \/ (a.hi = b.hi /\ a.lo <= b.lo)

(* Machine arithmetic: the sum or difference of two words, wrapped once.    *)
Unsigned(x) == IF x >= Word THEN x - Word ELSE IF x < 0 THEN x + Word ELSE x
Signed(x) == IF x >= Half THEN x - Word ELSE IF x < -Half THEN x + Word ELSE x

(* The overflow flag both macros compute, from the signs.                   *)
Overflows(a, b, result) == /\ IsNegative(a) = IsNegative(b)
                           /\ IsNegative(result) # IsNegative(a)

(* XSyncValueAdd: the high word is incremented when the low word of the sum *)
(* is less than that of a.                                                  *)
Carry(a, lo) == IF a.lo > lo THEN 1 ELSE 0
ValueAdd(a, b) == LET lo == Unsigned(a.lo + b.lo)
             IN  [hi |-> Signed(a.hi + b.hi + Carry(a, lo)), lo |-> lo]
AddOverflows(a, b) == Overflows(a, b, ValueAdd(a, b))

(* XSyncValueSubtract: the high word is decremented under the same          *)
(* condition as it is incremented by XSyncValueAdd, and the flag is         *)
(* computed from the same signs.                                            *)
ValueSubtract(a, b) == LET lo == Unsigned(a.lo - b.lo)
                    IN  [hi |-> Signed(a.hi - b.hi - Carry(a, lo)), lo |-> lo]
SubtractOverflows(a, b) == Overflows(a, b, ValueSubtract(a, b))
-----------------------------------------------------------------------------
(* What the words stand for.                                                *)
Int64(v) == v.hi * Word + v.lo
InRange(n) == -Half * Word <= n /\ n <= Half * Word - 1

(* A sum flagged as an overflow is one that does not fit, and every other   *)
(* sum is exact.                                                            *)
ExactSum(a, b) ==
    /\ AddOverflows(a, b) <=> ~InRange(Int64(a) + Int64(b))
    /\ ~AddOverflows(a, b) => Int64(ValueAdd(a, b)) = Int64(a) + Int64(b)

(* The comparisons of the macros, word by word, order two values as their   *)
(* numbers are.                                                             *)
ExactComparisons(a, b) ==
    /\ LessThan(a, b) <=> Int64(a) < Int64(b)
    /\ GreaterThan(a, b) <=> Int64(a) > Int64(b)
    /\ LessOrEqual(a, b) <=> Int64(a) <= Int64(b)
    /\ GreaterOrEqual(a, b) <=> Int64(a) >= Int64(b)
=============================================================================
