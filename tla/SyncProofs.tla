----------------------------- MODULE SyncProofs -----------------------------
(* The Synchronization extension, for any number of clients, counters and    *)
(* alarms and words of any size: its arithmetic is exact, its lists and      *)
(* pointers agree, no comparison that is TRUE waits, and the server uses no  *)
(* freed memory.                                                             *)
EXTENDS Sync, TLAPS, FiniteSetTheorems, WellFoundedInduction

(* Int64 is linear in the high word.                                        *)
LEMMA Product ==
    ASSUME NEW x \in Int, NEW y \in Int
    PROVE  /\ (x + y) * Word = x * Word + y * Word
           /\ (x - y) * Word = x * Word - y * Word
BY HalfAssumption DEF Word

LEMMA WordIsPositive == Half \in Int /\ Word \in Int /\ Word = 2 * Half /\ Half > 0
BY HalfAssumption DEF Word

(* A word more or less in the high word outweighs any low word.             *)
LEMMA Outweighs ==
    ASSUME NEW x \in Int, NEW y \in Int, x < y
    PROVE  x * Word + Word <= y * Word
<1>1. y - x >= 1 BY SMT
<1>2. PICK d \in Nat : y = x + 1 + d
  <2>1. y - x - 1 \in Nat /\ y = x + 1 + (y - x - 1) BY <1>1
  <2> QED BY <2>1
<1>3. y * Word = x * Word + 1 * Word + d * Word
  <2>1. (x + 1) * Word = x * Word + 1 * Word BY Product
  <2>2. (x + 1 + d) * Word = (x + 1) * Word + d * Word BY Product
  <2> QED BY <2>1, <2>2, <1>2, WordIsPositive
<1>4. d * Word >= 0 BY WordIsPositive
<1>5. x * Word \in Int /\ d * Word \in Int /\ y * Word \in Int /\ 1 * Word = Word BY WordIsPositive
<1> QED BY <1>3, <1>4, <1>5, WordIsPositive

(* The macros compare two values, word by word, as their numbers compare:   *)
(* a trigger is TRUE exactly when its counter has reached its test value.   *)
THEOREM ComparisonsAreExact ==
    ASSUME NEW a \in XSyncValue, NEW b \in XSyncValue
    PROVE  ExactComparisons(a, b)
<1>1. /\ a.hi \in Int /\ b.hi \in Int /\ a.lo \in Int /\ b.lo \in Int
      /\ 0 <= a.lo /\ a.lo < Word /\ 0 <= b.lo /\ b.lo < Word
  BY WordIsPositive DEF XSyncValue
<1> DEFINE A == a.hi * Word
           B == b.hi * Word
<1>2. A \in Int /\ B \in Int BY <1>1, WordIsPositive
<1>3. a.hi < b.hi => A + Word <= B BY <1>1, Outweighs
<1>4. b.hi < a.hi => B + Word <= A BY <1>1, Outweighs
<1>5. a.hi = b.hi => A = B OBVIOUS
<1>6. a.hi < b.hi \/ b.hi < a.hi \/ a.hi = b.hi BY <1>1
<1> HIDE DEF A, B
<1>7. Int64(a) = A + a.lo /\ Int64(b) = B + b.lo BY DEF Int64, A, B
<1>8. CASE a.hi < b.hi
  <2>1. A + a.lo < B + b.lo BY <1>1, <1>2, <1>3, <1>8, WordIsPositive
  <2> QED BY <2>1, <1>1, <1>2, <1>7, <1>8
          DEF ExactComparisons, LessThan, GreaterThan, LessOrEqual, GreaterOrEqual
<1>9. CASE b.hi < a.hi
  <2>1. B + b.lo < A + a.lo BY <1>1, <1>2, <1>4, <1>9, WordIsPositive
  <2> QED BY <2>1, <1>1, <1>2, <1>7, <1>9
          DEF ExactComparisons, LessThan, GreaterThan, LessOrEqual, GreaterOrEqual
<1>10. CASE a.hi = b.hi
  BY <1>1, <1>2, <1>5, <1>7, <1>10
     DEF ExactComparisons, LessThan, GreaterThan, LessOrEqual, GreaterOrEqual
<1> QED BY <1>6, <1>8, <1>9, <1>10

(* The low word of a sum and the carry out of it.                           *)
LEMMA LowWord ==
    ASSUME NEW a \in XSyncValue, NEW b \in XSyncValue
    PROVE  LET lo == Unsigned(a.lo + b.lo)
           IN  /\ lo \in Int /\ 0 <= lo /\ lo < Word
               /\ \/ Carry(a, lo) = 0 /\ a.lo + b.lo = lo
                  \/ Carry(a, lo) = 1 /\ a.lo + b.lo = lo + Word
<1>1. a.lo \in Int /\ b.lo \in Int /\ 0 <= a.lo /\ a.lo < Word /\ 0 <= b.lo /\ b.lo < Word
  BY WordIsPositive DEF XSyncValue
<1>2. CASE a.lo + b.lo >= Word
  <2>1. Unsigned(a.lo + b.lo) = a.lo + b.lo - Word BY <1>1, <1>2, WordIsPositive DEF Unsigned
  <2> QED BY <1>1, <1>2, <2>1, WordIsPositive DEF Carry
<1>3. CASE ~(a.lo + b.lo >= Word)
  <2>1. Unsigned(a.lo + b.lo) = a.lo + b.lo BY <1>1, <1>3, WordIsPositive DEF Unsigned
  <2> QED BY <1>1, <1>3, <2>1, WordIsPositive DEF Carry
<1> QED BY <1>2, <1>3

(* The flag computed from the signs is raised exactly when the high word of *)
(* the sum does not fit.                                                    *)
LEMMA SignsTell ==
    ASSUME NEW a \in XSyncValue, NEW b \in XSyncValue, NEW c \in {0, 1}, NEW lo
    PROVE  LET h == a.hi + b.hi + c
               fits == -Half <= h /\ h <= Half - 1
           IN  /\ Overflows(a, b, [hi |-> Signed(h), lo |-> lo]) <=> ~fits
               /\ fits => Signed(h) = h
<1>1. /\ a.hi \in Int /\ -Half <= a.hi /\ a.hi <= Half - 1
      /\ b.hi \in Int /\ -Half <= b.hi /\ b.hi <= Half - 1 /\ c \in Int /\ 0 <= c /\ c <= 1
  BY WordIsPositive DEF XSyncValue
<1> DEFINE h == a.hi + b.hi + c
           fits == -Half <= h /\ h <= Half - 1
<1>2. h \in Int BY <1>1
<1>3. fits => Signed(h) = h BY <1>2, WordIsPositive DEF Signed
<1>4. [hi |-> Signed(h), lo |-> lo].hi = Signed(h) OBVIOUS
<1>5. Overflows(a, b, [hi |-> Signed(h), lo |-> lo])
      <=> (a.hi < 0 <=> b.hi < 0) /\ ~(Signed(h) < 0 <=> a.hi < 0)
  BY <1>4 DEF Overflows, IsNegative
<1>6. CASE fits
  <2>1. Signed(h) = h BY <1>3, <1>6
  <2>2. ~((a.hi < 0 <=> b.hi < 0) /\ ~(h < 0 <=> a.hi < 0)) BY <1>1, WordIsPositive
  <2> QED BY <1>3, <1>5, <1>6, <2>1, <2>2
<1>7. CASE h >= Half
  <2>1. Signed(h) = h - Word BY <1>7 DEF Signed
  <2>2. Signed(h) < 0 /\ a.hi >= 0 /\ b.hi >= 0 BY <1>1, <1>2, <1>7, <2>1, WordIsPositive
  <2>3. ~fits BY <1>2, <1>7, WordIsPositive
  <2> QED BY <1>1, <1>5, <2>2, <2>3, WordIsPositive
<1>8. CASE h < -Half
  <2>1. Signed(h) = h + Word BY <1>2, <1>8, WordIsPositive DEF Signed
  <2>2. Signed(h) >= 0 /\ a.hi < 0 /\ b.hi < 0 BY <1>1, <1>2, <1>8, <2>1, WordIsPositive
  <2>3. ~fits BY <1>2, <1>8, WordIsPositive
  <2>4. ~(Signed(h) < 0) BY <1>2, <2>1, <2>2, WordIsPositive
  <2> QED BY <1>5, <2>2, <2>3, <2>4
<1> QED BY <1>2, <1>6, <1>7, <1>8, WordIsPositive

(* A high and a low word together are in range when the high word is.       *)
LEMMA RangeOfHighWord ==
    ASSUME NEW h \in Int, NEW lo \in Int, 0 <= lo, lo < Word
    PROVE  InRange(h * Word + lo) <=> -Half <= h /\ h <= Half - 1
<1> DEFINE H == h * Word
           N == Half * Word
<1>1. H \in Int /\ N \in Int BY WordIsPositive
<1>2. h < -Half => H + Word <= (-Half) * Word BY WordIsPositive, Outweighs
<1>3. -Half < h => (-Half) * Word + Word <= H BY WordIsPositive, Outweighs
<1>4. Half < h => N + Word <= H BY WordIsPositive, Outweighs
<1>5. h < Half => H + Word <= N BY WordIsPositive, Outweighs
<1>6. (-Half) * Word = -N BY WordIsPositive
<1>7. h = -Half => H = -N BY <1>6
<1>8. h = Half => H = N OBVIOUS
<1>9. -Half * Word = -N BY WordIsPositive
<1>10. InRange(h * Word + lo) <=> -N <= H + lo /\ H + lo <= N - 1 BY <1>9 DEF InRange
<1> HIDE DEF H, N
<1>11. CASE h < -Half BY <1>1, <1>2, <1>6, <1>10, <1>11, WordIsPositive
<1>12. CASE -Half <= h /\ h <= Half - 1
  <2>1. -N <= H BY <1>1, <1>3, <1>6, <1>7, <1>12, WordIsPositive
  <2>2. H + Word <= N BY <1>5, <1>12, WordIsPositive
  <2> QED BY <1>1, <1>10, <1>12, <2>1, <2>2, WordIsPositive
<1>13. CASE Half <= h
  <2>1. N <= H BY <1>1, <1>4, <1>8, <1>13, WordIsPositive
  <2> QED BY <1>1, <1>10, <1>13, <2>1, WordIsPositive
<1> QED BY <1>11, <1>12, <1>13, WordIsPositive

(* XSyncValueAdd, for words of any size: a sum is flagged exactly when it   *)
(* does not fit, and is exact when it does.                                 *)
THEOREM AddIsExact ==
    ASSUME NEW a \in XSyncValue, NEW b \in XSyncValue
    PROVE  ExactSum(a, b)
<1> DEFINE lo == Unsigned(a.lo + b.lo)
           c == Carry(a, lo)
           h == a.hi + b.hi + c
           fits == -Half <= h /\ h <= Half - 1
<1>1. a.hi \in Int /\ b.hi \in Int /\ a.lo \in Int /\ b.lo \in Int
  BY WordIsPositive DEF XSyncValue
<1>2. /\ lo \in Int /\ 0 <= lo /\ lo < Word
      /\ (c = 0 /\ a.lo + b.lo = lo) \/ (c = 1 /\ a.lo + b.lo = lo + Word)
  BY LowWord
<1>3. c \in {0, 1} BY <1>2
<1>4. ValueAdd(a, b) = [hi |-> Signed(h), lo |-> lo] BY DEF ValueAdd
<1>5. /\ AddOverflows(a, b) <=> ~fits
      /\ fits => Signed(h) = h
  BY <1>3, <1>4, SignsTell DEF AddOverflows
<1> HIDE DEF lo, c
<1>6. h \in Int BY <1>1, <1>3
<1>7. h * Word = a.hi * Word + b.hi * Word + c * Word
  <2>1. (a.hi + b.hi) * Word = a.hi * Word + b.hi * Word BY <1>1, Product
  <2>2. a.hi + b.hi \in Int /\ c \in Int BY <1>1, <1>3
  <2>3. (a.hi + b.hi + c) * Word = (a.hi + b.hi) * Word + c * Word BY <2>2, Product
  <2> QED BY <2>1, <2>3
<1>8. a.lo + b.lo = lo + c * Word BY <1>1, <1>2, WordIsPositive
<1>9. /\ a.hi * Word \in Int /\ b.hi * Word \in Int /\ c * Word \in Int /\ h * Word \in Int
  BY <1>1, <1>3, <1>6, WordIsPositive
<1>10. Int64(a) + Int64(b) = h * Word + lo
  <2> DEFINE A == a.hi * Word
             B == b.hi * Word
             C == c * Word
             H == h * Word
  <2>1. Int64(a) = A + a.lo /\ Int64(b) = B + b.lo BY DEF Int64
  <2>2. H = A + B + C /\ a.lo + b.lo = lo + C BY <1>7, <1>8
  <2>3. A \in Int /\ B \in Int /\ C \in Int BY <1>9
  <2> HIDE DEF A, B, C, H
  <2>4. A + a.lo + (B + b.lo) = H + lo BY <1>1, <1>2, <2>2, <2>3
  <2>5. H = h * Word BY DEF H
  <2> QED BY <2>1, <2>4, <2>5
<1>11. InRange(h * Word + lo) <=> fits BY <1>2, <1>6, RangeOfHighWord
<1>12. fits => Int64(ValueAdd(a, b)) = h * Word + lo BY <1>4, <1>5 DEF Int64
<1> QED BY <1>5, <1>10, <1>11, <1>12 DEF ExactSum

-----------------------------------------------------------------------------
(* Induction over the natural numbers, from the order's being well-founded. *)
Below == { p \in Nat \X Nat : p[1] < p[2] }

LEMMA BelowWellFounded == IsWellFoundedOn(Below, Nat)
BY NatLessThanWellFounded DEF OpToRel, Below

LEMMA Least ==
    ASSUME NEW T, T \in SUBSET Nat, T # {}
    PROVE  \E n \in T : \A m \in T : n <= m
<1>1. PICK n \in T : \A m \in T : ~(<<m, n>> \in Below) BY BelowWellFounded, WFMin
<1>2. ASSUME NEW m \in T PROVE n <= m
  <2>1. n \in Nat /\ m \in Nat /\ <<m, n>> \in Nat \X Nat OBVIOUS
  <2>2. ~(m < n) BY <1>1, <2>1 DEF Below
  <2> QED BY <2>1, <2>2
<1> QED BY <1>2

LEMMA Induct ==
    ASSUME NEW S, 0 \in S, \A n \in Nat : n \in S => n + 1 \in S
    PROVE  Nat \subseteq S
<1> SUFFICES ASSUME Nat \ S # {} PROVE FALSE OBVIOUS
<1>1. PICK n \in Nat \ S : \A m \in Nat \ S : n <= m BY Least
<1>2. n # 0 /\ n - 1 \in Nat /\ (n - 1) + 1 = n BY <1>1
<1> QED BY <1>1, <1>2

(* A non-empty set of indexes has a last one.                               *)
LEMMA LastOf ==
    ASSUME NEW n \in Nat, NEW s \in SUBSET (1 .. n), s # {}
    PROVE  /\ Max(s) \in s /\ \A x \in s : x <= Max(s)
           /\ n \in s => Max(s) = n
<1> DEFINE T == { n - x : x \in s }
<1>1. \A x \in s : x \in Nat /\ n - x \in Nat OBVIOUS
<1>2. T \in SUBSET Nat BY <1>1
<1>3. PICK x0 \in s : TRUE OBVIOUS
<1>4. n - x0 \in T OBVIOUS
<1>5. PICK m \in T : \A y \in T : m <= y BY <1>2, <1>4, Least
<1>6. PICK z \in s : m = n - z BY <1>5
<1>7. \A x \in s : z >= x
  <2> TAKE x \in s
  <2>1. n - x \in T OBVIOUS
  <2>2. n - z <= n - x BY <1>5, <1>6, <2>1
  <2> QED BY <1>1, <2>2
<1>8. Max(s) \in s /\ \A x \in s : Max(s) >= x BY <1>7 DEF Max
<1>9. s \subseteq 1 .. n OBVIOUS
<1>10. Max(s) \in 1 .. n BY <1>8, <1>9
<1>11. Max(s) \in Int /\ Max(s) <= n /\ \A x \in s : x \in Int
  <2> HIDE DEF T
  <2> QED BY <1>9, <1>10
<1>12. n \in s => Max(s) >= n BY <1>8
<1>13. \A x \in s : x <= Max(s) BY <1>8, <1>11
<1>14. n \in s => Max(s) = n BY <1>11, <1>12
<1> QED BY <1>8, <1>13, <1>14

(* A fold goes through the results of its steps.  FoldLeft is defined by a  *)
(* recursive function on sets of indexes, which exists because its steps    *)
(* stay in a set A.                                                         *)
Steps(g, n, base, f) ==
    \A s \in SUBSET (1 .. n) : g[s] = IF s = {} THEN base ELSE f[<<g[s \ {Max(s)}], Max(s)>>]

LEMMA FoldExists ==
    ASSUME NEW A, NEW n \in Nat, NEW base \in A, NEW f \in [A \X (1 .. n) -> A]
    PROVE  \E g \in [SUBSET (1 .. n) -> A] : Steps(g, n, base, f)
<1> DEFINE P(k) == k <= n => \E g \in [SUBSET (1 .. k) -> A] : Steps(g, k, base, f)
           S == { k \in Nat : P(k) }
<1>1. P(0)
  <2> DEFINE g == [s \in SUBSET (1 .. 0) |-> base]
  <2>1. g \in [SUBSET (1 .. 0) -> A] OBVIOUS
  <2>2. 1 .. 0 = {} OBVIOUS
  <2>3. ASSUME NEW s \in SUBSET (1 .. 0) PROVE s = {} /\ g[s] = base BY <2>2
  <2>4. Steps(g, 0, base, f) BY <2>3 DEF Steps
  <2> HIDE DEF g
  <2> QED BY <2>1, <2>4
<1>2. ASSUME NEW k \in Nat, P(k) PROVE P(k + 1)
  <2> SUFFICES ASSUME k + 1 <= n PROVE \E g \in [SUBSET (1 .. k + 1) -> A] : Steps(g, k + 1, base, f)
    OBVIOUS
  <2>1. k <= n OBVIOUS
  <2>2. PICK g \in [SUBSET (1 .. k) -> A] : Steps(g, k, base, f) BY <1>2, <2>1
  <2> DEFINE h == [s \in SUBSET (1 .. k + 1) |->
                     IF k + 1 \in s THEN f[<<g[s \ {k + 1}], k + 1>>] ELSE g[s]]
  <2>3. ASSUME NEW s \in SUBSET (1 .. k + 1)
        PROVE  h[s] \in A /\ h[s] = IF s = {} THEN base ELSE f[<<h[s \ {Max(s)}], Max(s)>>]
    <3>1. CASE k + 1 \in s
      <4>1. s \ {k + 1} \in SUBSET (1 .. k) /\ k + 1 \notin s \ {k + 1} /\ k + 1 \in 1 .. n OBVIOUS
      <4>2. Max(s) = k + 1 /\ s # {} BY <3>1, LastOf
      <4>3. s \ {k + 1} \in SUBSET (1 .. k + 1) OBVIOUS
      <4>4. h[s \ {k + 1}] = g[s \ {k + 1}] BY <4>1, <4>3
      <4>5. g[s \ {k + 1}] \in A BY <2>2, <4>1
      <4>6. h[s] = f[<<g[s \ {k + 1}], k + 1>>] BY <3>1
      <4>7. f[<<g[s \ {k + 1}], k + 1>>] \in A BY <4>1, <4>5
      <4> QED BY <4>2, <4>4, <4>6, <4>7
    <3>2. CASE k + 1 \notin s
      <4>1. s \in SUBSET (1 .. k) BY <3>2
      <4>2. h[s] = g[s] BY <3>2
      <4>3. g[s] \in A BY <2>2, <4>1
      <4>4. CASE s = {}
        <5>1. g[s] = base BY <2>2, <4>1, <4>4 DEF Steps
        <5> QED BY <4>2, <4>3, <4>4, <5>1
      <4>5. CASE s # {}
        <5>1. Max(s) \in s BY <4>1, <4>5, LastOf
        <5>2. s \ {Max(s)} \in SUBSET (1 .. k + 1) /\ k + 1 \notin s \ {Max(s)} BY <3>2
        <5>3. h[s \ {Max(s)}] = g[s \ {Max(s)}] BY <5>2
        <5>4. g[s] = f[<<g[s \ {Max(s)}], Max(s)>>] BY <2>2, <4>1, <4>5 DEF Steps
        <5> HIDE DEF h
        <5> QED BY <4>2, <4>3, <4>5, <5>3, <5>4
      <4> QED BY <4>4, <4>5
    <3> QED BY <3>1, <3>2
  <2>4. h \in [SUBSET (1 .. k + 1) -> A] BY <2>3
  <2>5. Steps(h, k + 1, base, f)
    <3> HIDE DEF h
    <3> QED BY <2>3 DEF Steps
  <2> HIDE DEF h
  <2> QED BY <2>4, <2>5
<1> HIDE DEF P
<1>3. 0 \in S BY <1>1
<1>4. ASSUME NEW k \in Nat, k \in S PROVE k + 1 \in S BY <1>2, <1>4
<1> HIDE DEF S
<1>5. Nat \subseteq S BY <1>3, <1>4, Induct
<1>6. P(n) BY <1>5 DEF S
<1>7. n <= n OBVIOUS
<1> QED BY <1>6, <1>7 DEF P

Follows(h, A, n, base, f) ==
    /\ n \in Nat /\ base \in A /\ f \in [A \X (1 .. n) -> A]
    /\ \A s \in SUBSET (1 .. n) :
          /\ s = {} => h[s] = base
          /\ s # {} /\ h[s \ {Max(s)}] \in A => h[s] = f[<<h[s \ {Max(s)}], Max(s)>>]

IsWalk(w, A, n, base, f) ==
    /\ w \in [0 .. n -> A] /\ w[0] = base
    /\ \A i \in 1 .. n : w[i - 1] \in A /\ w[i] = f[<<w[i - 1], i>>]

LEMMA WalkOf ==
    ASSUME NEW A, NEW n, NEW base, NEW f, NEW h, Follows(h, A, n, base, f)
    PROVE  \E w : IsWalk(w, A, n, base, f) /\ w[n] = h[1 .. n]
<1> USE DEF Follows
<1> DEFINE P(k) == k <= n => h[1 .. k] \in A
           S == { k \in Nat : P(k) }
<1>1. h[1 .. 0] = base
  <2>1. 1 .. 0 = {} /\ {} \in SUBSET (1 .. n) OBVIOUS
  <2> QED BY <2>1
<1>2. ASSUME NEW k \in Nat, k + 1 <= n, h[1 .. k] \in A
      PROVE  h[1 .. k + 1] \in A /\ h[1 .. k + 1] = f[<<h[1 .. k], k + 1>>]
  <2> DEFINE s == 1 .. k + 1
  <2>1. s \in SUBSET (1 .. k + 1) /\ k + 1 \in Nat OBVIOUS
  <2>2. s # {} /\ k + 1 \in s
    <3>1. 1 <= k + 1 OBVIOUS
    <3>2. k + 1 \in s BY <3>1
    <3> QED BY <3>2
  <2>3. s \in SUBSET (1 .. n)
    <3> SUFFICES ASSUME NEW x \in s PROVE x \in 1 .. n OBVIOUS
    <3> QED BY <1>2
  <2>4. s \ {k + 1} = 1 .. k OBVIOUS
  <2> HIDE DEF s
  <2>5. Max(s) = k + 1 BY <2>1, <2>2, LastOf
  <2>6. k + 1 \in 1 .. n BY <1>2
  <2>7. h[s] = f[<<h[1 .. k], k + 1>>] BY <1>2, <2>2, <2>3, <2>5, <2>4
  <2>8. f[<<h[1 .. k], k + 1>>] \in A BY <1>2, <2>6
  <2> QED BY <2>7, <2>8 DEF s
<1>3. 0 \in S BY <1>1
<1>4. ASSUME NEW k \in Nat, k \in S PROVE k + 1 \in S
  <2>1. P(k) BY <1>4
  <2>2. k + 1 <= n => k <= n OBVIOUS
  <2>3. P(k + 1) BY <1>2, <2>1, <2>2
  <2> HIDE DEF P
  <2> QED BY <2>3
<1>5. Nat \subseteq S
  <2> HIDE DEF S
  <2> QED BY <1>3, <1>4, Induct
<1>6. \A k \in 0 .. n : h[1 .. k] \in A BY <1>5
<1> DEFINE w == [i \in 0 .. n |-> h[1 .. i]]
<1>7. w \in [0 .. n -> A] BY <1>6
<1>8. ASSUME NEW i \in 1 .. n PROVE w[i - 1] \in A /\ w[i] = f[<<w[i - 1], i>>]
  <2>1. i - 1 \in 0 .. n /\ i - 1 \in Nat /\ i \in 0 .. n /\ i - 1 + 1 = i /\ i <= n OBVIOUS
  <2>2. h[1 .. i - 1] \in A BY <1>6, <2>1
  <2>3. h[1 .. i] = f[<<h[1 .. i - 1], i>>] BY <1>2, <2>1, <2>2
  <2> QED BY <2>1, <2>2, <2>3
<1>9. w[0] = base /\ w[n] = h[1 .. n] BY <1>1
<1> HIDE DEF w
<1> QED BY <1>7, <1>8, <1>9 DEF IsWalk

-----------------------------------------------------------------------------
(* Lists of triggers without repetition.                                    *)
LEMMA Joined ==
    ASSUME NEW T, NEW A \in Seq(T), NEW B \in Seq(T)
    PROVE  A \o B \in Seq(T) /\ Len(A \o B) = Len(A) + Len(B)
OBVIOUS

LEMMA SamePosition ==
    ASSUME NEW T, NEW L \in Seq(T), IsInjective(L),
           NEW i \in 1 .. Len(L), NEW j \in 1 .. Len(L), L[i] = L[j]
    PROVE  i = j
BY DEF IsInjective

LEMMA PositionOf ==
    ASSUME NEW T, NEW L \in Seq(T), IsInjective(L), NEW k \in 1 .. Len(L)
    PROVE  LET I == { i \in 1 .. Len(L) : L[i] = L[k] }
           IN  I # {} /\ Min(I) = k
<1> DEFINE I == { i \in 1 .. Len(L) : L[i] = L[k] }
<1>1. \A i \in I : i = k BY DEF IsInjective
<1>2. I = {k} BY <1>1
<1>3. Min(I) = k BY <1>2 DEF Min
<1> QED BY <1>2, <1>3

LEMMA AfterIs ==
    ASSUME NEW T, NEW L \in Seq(T), IsInjective(L), NEW k \in 1 .. Len(L)
    PROVE  After(L, L[k]) = IF k = Len(L) THEN None ELSE L[k + 1]
<1> DEFINE I == { i \in 1 .. Len(L) : L[i] = L[k] }
<1>1. I # {} /\ Min(I) = k BY PositionOf
<1>2. After(L, L[k]) = LET m == IF I # {} THEN Min(I) ELSE 0
                       IN  IF m = Len(L) THEN None ELSE L[m + 1]
  BY DEF After, SelectInSeq
<1> HIDE DEF I
<1> QED BY <1>1, <1>2

LEMMA RemoveFirstIs ==
    ASSUME NEW T, NEW L \in Seq(T), IsInjective(L), NEW k \in 1 .. Len(L)
    PROVE  LET R == RemoveFirst(L, L[k])
           IN  /\ R \in Seq(T) /\ Len(R) = Len(L) - 1
               /\ \A i \in 1 .. Len(L) - 1 : R[i] = IF i < k THEN L[i] ELSE L[i + 1]
<1>1. RemoveFirst(L, L[k]) = RemoveAt(L, k)
  <2> DEFINE I == { i \in 1 .. Len(L) : L[i] = L[k] }
  <2>1. I # {} /\ Min(I) = k BY PositionOf
  <2>2. RemoveFirst(L, L[k]) = IF \E i \in 1 .. Len(L) : L[i] = L[k]
                               THEN RemoveAt(L, IF I # {} THEN Min(I) ELSE 0) ELSE L
    BY DEF RemoveFirst, SelectInSeq
  <2>3. \E i \in 1 .. Len(L) : L[i] = L[k] OBVIOUS
  <2> HIDE DEF I
  <2> QED BY <2>1, <2>2, <2>3
<1>2. RemoveAt(L, k) = SubSeq(L, 1, k - 1) \o SubSeq(L, k + 1, Len(L)) BY DEF RemoveAt
<1> DEFINE A == SubSeq(L, 1, k - 1)
           B == SubSeq(L, k + 1, Len(L))
<1>3. A \in Seq(T) /\ Len(A) = k - 1 /\ \A i \in 1 .. k - 1 : A[i] = L[i] OBVIOUS
<1>4. B \in Seq(T) /\ Len(B) = Len(L) - k /\ \A i \in 1 .. Len(L) - k : B[i] = L[k + i] OBVIOUS
<1> HIDE DEF A, B
<1>5. /\ A \o B \in Seq(T) /\ Len(A \o B) = Len(L) - 1
      /\ \A i \in 1 .. Len(L) - 1 : (A \o B)[i] = IF i < k THEN L[i] ELSE L[i + 1]
  <2>1. A \o B \in Seq(T) /\ Len(A \o B) = Len(L) - 1
    <3>1. A \o B \in Seq(T) /\ Len(A \o B) = Len(A) + Len(B) BY <1>3, <1>4, Joined
    <3>2. Len(L) \in Nat /\ Len(A) + Len(B) = Len(L) - 1 BY <1>3, <1>4
    <3> QED BY <3>1, <3>2
  <2>2. ASSUME NEW i \in 1 .. Len(L) - 1 PROVE (A \o B)[i] = IF i < k THEN L[i] ELSE L[i + 1]
    <3>1. CASE i < k
      <4>1. i \in 1 .. k - 1 /\ i <= Len(A) BY <1>3, <3>1
      <4>2. (A \o B)[i] = A[i] BY <1>3, <1>4, <4>1
      <4> QED BY <1>3, <3>1, <4>1, <4>2
    <3>2. CASE ~(i < k)
      <4>1. i - (k - 1) \in 1 .. Len(L) - k /\ k + (i - (k - 1)) = i + 1 BY <3>2
      <4>2. i \in 1 .. Len(A) + Len(B) /\ i > Len(A) BY <1>3, <1>4, <3>2
      <4>3. (A \o B)[i] = B[i - Len(A)] BY <1>3, <1>4, <4>2
      <4> QED BY <1>3, <1>4, <3>2, <4>1, <4>3
    <3> QED BY <3>1, <3>2
  <2> QED BY <2>1, <2>2
<1> QED BY <1>1, <1>2, <1>5 DEF A, B

LEMMA WithoutOne ==
    ASSUME NEW T, NEW L \in Seq(T), IsInjective(L), NEW e
    PROVE  LET R == RemoveFirst(L, e)
           IN  /\ R \in Seq(T) /\ IsInjective(R)
               /\ \A u : Contains(R, u) <=> Contains(L, u) /\ u # e
<1>1. CASE ~Contains(L, e)
  <2>1. RemoveFirst(L, e) = L BY <1>1 DEF RemoveFirst, Contains
  <2> QED BY <1>1, <2>1
<1>2. CASE Contains(L, e)
  <2>1. PICK k \in 1 .. Len(L) : L[k] = e BY <1>2 DEF Contains
  <2> DEFINE R == RemoveFirst(L, e)
  <2>2. /\ R \in Seq(T) /\ Len(R) = Len(L) - 1
        /\ \A i \in 1 .. Len(L) - 1 : R[i] = IF i < k THEN L[i] ELSE L[i + 1]
    BY <2>1, RemoveFirstIs
  <2> HIDE DEF R
  <2>3. IsInjective(R)
    <3> SUFFICES ASSUME NEW i \in 1 .. Len(L) - 1, NEW j \in 1 .. Len(L) - 1, R[i] = R[j]
                 PROVE  i = j
      BY <2>2 DEF IsInjective
    <3> DEFINE p(m) == IF m < k THEN m ELSE m + 1
    <3>1. p(i) \in 1 .. Len(L) /\ p(j) \in 1 .. Len(L) OBVIOUS
    <3>2. R[i] = L[p(i)] /\ R[j] = L[p(j)] BY <2>2
    <3>3. p(i) = p(j)
      <4> HIDE DEF p
      <4> QED BY <3>1, <3>2, SamePosition
    <3> QED BY <3>3
  <2>4. ASSUME NEW u, Contains(R, u) PROVE Contains(L, u) /\ u # e
    <3>1. PICK i \in 1 .. Len(L) - 1 : R[i] = u BY <2>2, <2>4 DEF Contains
    <3>2. PICK j \in 1 .. Len(L) : L[j] = u /\ j # k BY <2>2, <3>1
    <3> QED BY <2>1, <3>2 DEF Contains, IsInjective
  <2>5. ASSUME NEW u, Contains(L, u), u # e PROVE Contains(R, u)
    <3>1. PICK j \in 1 .. Len(L) : L[j] = u BY <2>5 DEF Contains
    <3>2. j # k BY <2>1, <2>5, <3>1
    <3>3. PICK i \in 1 .. Len(L) - 1 : R[i] = u
      <4>1. CASE j < k BY <2>2, <3>1, <4>1
      <4>2. CASE j > k
        <5>1. j - 1 \in 1 .. Len(L) - 1 /\ ~(j - 1 < k) /\ (j - 1) + 1 = j BY <4>2
        <5>2. R[j - 1] = u BY <2>2, <3>1, <5>1
        <5> QED BY <5>1, <5>2
      <4> QED BY <3>2, <4>1, <4>2
    <3> QED BY <2>2, <3>3 DEF Contains
  <2> QED BY <2>2, <2>3, <2>4, <2>5 DEF R
<1> QED BY <1>1, <1>2

LEMMA WithOne ==
    ASSUME NEW T, NEW L \in Seq(T), IsInjective(L), NEW e \in T, ~Contains(L, e)
    PROVE  LET R == <<e>> \o L
           IN  /\ R \in Seq(T) /\ IsInjective(R)
               /\ \A u : Contains(R, u) <=> Contains(L, u) \/ u = e
<1> DEFINE R == <<e>> \o L
<1>1. /\ R \in Seq(T) /\ Len(R) = Len(L) + 1 /\ R[1] = e
      /\ \A i \in 1 .. Len(L) : R[i + 1] = L[i]
  OBVIOUS
<1> HIDE DEF R
<1>2. \A i \in 1 .. Len(R) : i = 1 \/ (i - 1 \in 1 .. Len(L) /\ R[i] = L[i - 1])
  <2> TAKE i \in 1 .. Len(R)
  <2>1. i # 1 => i - 1 \in 1 .. Len(L) /\ (i - 1) + 1 = i BY <1>1
  <2> QED BY <1>1, <2>1
<1>3. \A u : Contains(R, u) <=> Contains(L, u) \/ u = e
  <2> TAKE u
  <2>1. Contains(R, u) => Contains(L, u) \/ u = e BY <1>1, <1>2 DEF Contains
  <2>2. Contains(L, u) => Contains(R, u)
    <3> HAVE Contains(L, u)
    <3>1. PICK i \in 1 .. Len(L) : L[i] = u BY DEF Contains
    <3>2. i + 1 \in 1 .. Len(R) /\ R[i + 1] = u BY <1>1, <3>1
    <3> QED BY <3>2 DEF Contains
  <2>3. u = e => Contains(R, u) BY <1>1 DEF Contains
  <2> QED BY <2>1, <2>2, <2>3
<1>4. IsInjective(R)
  <2> SUFFICES ASSUME NEW i \in 1 .. Len(R), NEW j \in 1 .. Len(R), R[i] = R[j] PROVE i = j
    BY <1>1 DEF IsInjective
  <2>1. CASE i = 1 /\ j = 1 BY <2>1
  <2>2. CASE i = 1 /\ j # 1 BY <1>1, <1>2, <2>2 DEF Contains
  <2>3. CASE i # 1 /\ j = 1 BY <1>1, <1>2, <2>3 DEF Contains
  <2>4. CASE i # 1 /\ j # 1
    <3>1. L[i - 1] = L[j - 1] /\ i - 1 \in 1 .. Len(L) /\ j - 1 \in 1 .. Len(L) BY <1>2, <2>4
    <3>2. i - 1 = j - 1 BY <3>1 DEF IsInjective
    <3> QED BY <1>1, <3>2
  <2> QED BY <2>1, <2>2, <2>3, <2>4
<1> QED BY <1>1, <1>3, <1>4 DEF R
-----------------------------------------------------------------------------
(* The values.                                                              *)
LEMMA AddIsTyped ==
    ASSUME NEW a \in XSyncValue, NEW b \in XSyncValue
    PROVE  ValueAdd(a, b) \in XSyncValue
<1>1. LET lo == Unsigned(a.lo + b.lo)
      IN  lo \in Int /\ 0 <= lo /\ lo < Word /\ Carry(a, lo) \in {0, 1}
  BY LowWord
<1> DEFINE lo == Unsigned(a.lo + b.lo)
           h == a.hi + b.hi + Carry(a, lo)
<1>2. lo \in 0 .. Word - 1 BY <1>1, WordIsPositive
<1>3. Carry(a, lo) \in {0, 1} BY <1>1
<1> HIDE DEF lo
<1>4. h \in Int /\ -Word <= h /\ h <= Word - 1 BY <1>3, WordIsPositive DEF XSyncValue
<1> HIDE DEF h
<1>5. Signed(h) \in -Half .. Half - 1 BY <1>4, WordIsPositive DEF Signed
<1>6. ValueAdd(a, b) = [hi |-> Signed(h), lo |-> lo] BY DEF ValueAdd, h, lo
<1> QED BY <1>2, <1>5, <1>6 DEF XSyncValue

LEMMA ValuesTyped ==
    /\ Zero \in XSyncValue /\ One \in XSyncValue
    /\ MaxValue \in XSyncValue /\ MinValue \in XSyncValue
<1>1. Zero \in XSyncValue BY WordIsPositive DEF Zero, XSyncValue
<1>2. [hi |-> 0, lo |-> 1] \in XSyncValue BY WordIsPositive DEF XSyncValue
<1>3. One \in XSyncValue BY <1>1, <1>2, AddIsTyped DEF One
<1>4. MaxValue \in XSyncValue /\ MinValue \in XSyncValue
  BY WordIsPositive DEF MaxValue, MinValue, XSyncValue
<1> QED BY <1>1, <1>3, <1>4

-----------------------------------------------------------------------------
(* The types of the extension's data, and the lists: what is on the list of *)
(* a counter that is not being destroyed exists and points to it.           *)
AllCounters == Counters \cup {SERVERTIME}
AnyString == STRING \cup {"Absolute", "PositiveComparison"}  \* STRING: the provers do not know what is in it
TriggerType == [counter : AllCounters \cup {None, Freed}, value_type : AnyString,
                wait_value : XSyncValue, test_type : AnyString, CheckTrigger : TestTypes,
                test_value : XSyncValue, event_threshold : XSyncValue, delta : XSyncValue,
                state : {"Active", "Inactive"}]
States == [value : [AllCounters -> XSyncValue \cup {None}],
           list : [AllCounters -> Seq(Triggers)],
           trigger : UNION { [D -> TriggerType] : D \in SUBSET Triggers },
           bracket : [greater : XSyncValue, less : XSyncValue], timer : BOOLEAN,
           dying : Counters \cup {None}, gone : SUBSET Clients,
           notified : SUBSET (Triggers \ Alarms), refused : SUBSET Alarms,
           fate : {"running", "looping", "undefined"}]

Listed(s) ==
    \A c \in AllCounters \ {s.dying} :
        /\ IsInjective(s.list[c])
        /\ \A t \in Triggers : Contains(s.list[c], t) => t \in Live(s) /\ s.trigger[t].counter = c

LEMMA TheTable ==
    ASSUME NEW s \in States
    PROVE  s.trigger \in [Live(s) -> TriggerType] /\ Live(s) \subseteq Triggers
BY DEF States, Live

LEMMA OneOfStates ==
    ASSUME NEW s \in States, NEW t \in Live(s)
    PROVE  s.trigger[t] \in TriggerType
BY TheTable

LEMMA OnlyListed ==
    ASSUME NEW T, NEW L \in Seq(T), NEW u, Contains(L, u)
    PROVE  u \in T
BY DEF Contains

LEMMA OnTimerList ==
    ASSUME NEW s \in States, Listed(s)
    PROVE  s.list[SERVERTIME] \in Seq(Live(s))
<1>1. s.list[SERVERTIME] \in Seq(Triggers) /\ SERVERTIME \in AllCounters \ {s.dying}
  BY SyncAssumption DEF States, AllCounters
<1>2. \A i \in 1 .. Len(s.list[SERVERTIME]) : s.list[SERVERTIME][i] \in Live(s)
  BY <1>1 DEF Listed, Contains
<1> DEFINE L == s.list[SERVERTIME]
<1> HIDE DEF L
<1>3. L \in Seq(Triggers) /\ \A i \in 1 .. Len(L) : L[i] \in Live(s) BY <1>1, <1>2 DEF L
<1>4. L \in Seq(Live(s)) BY <1>3
<1> QED BY <1>4 DEF L

BracketType == [newgt : BOOLEAN, newlt : BOOLEAN, greater : XSyncValue, less : XSyncValue]

LEMMA NarrowedTyped ==
    ASSUME NEW s \in States, NEW b \in BracketType, NEW t \in Live(s)
    PROVE  Narrowed(s, b, t) \in BracketType
BY OneOfStates DEF TriggerType, BracketType, Narrowed

FirstBracket(s, startOver) ==
    [newgt |-> FALSE, newlt |-> FALSE,
     greater |-> IF startOver THEN MaxValue ELSE s.bracket.greater,
     less |-> IF startOver THEN MinValue ELSE s.bracket.less]

LEMMA FirstBracketTyped ==
    ASSUME NEW s \in States, NEW startOver \in BOOLEAN
    PROVE  FirstBracket(s, startOver) \in BracketType
BY ValuesTyped DEF States, FirstBracket, BracketType

(* SyncComputeBracketValues' walk of the list.                              *)
LEMMA BracketWalk ==
    ASSUME NEW s \in States, Listed(s), NEW startOver \in BOOLEAN
    PROVE  LET L == s.list[SERVERTIME]
           IN  \E w \in [0 .. Len(L) -> BracketType] :
                  /\ w[0] = FirstBracket(s, startOver)
                  /\ \A i \in 1 .. Len(L) : w[i - 1] \in BracketType /\ w[i] = Narrowed(s, w[i - 1], L[i])
                  /\ SyncComputeBracketValues(s, startOver) = SetBracket(s, w[Len(L)])
<1> DEFINE L == s.list[SERVERTIME]
           n == Len(L)
           first == FirstBracket(s, startOver)
           f == [p \in BracketType \X (1 .. n) |-> Narrowed(s, p[1], L[p[2]])]
           Is(h) == h = [I \in SUBSET (1 .. n) |->
                           IF I = {} THEN first ELSE Narrowed(s, h[I \ {Max(I)}], L[Max(I)])]
           h == CHOOSE i : Is(i)
<1>1. L \in Seq(Live(s)) /\ n \in Nat /\ DOMAIN L = 1 .. n BY OnTimerList
<1>2. first \in BracketType BY FirstBracketTyped
<1>3. f \in [BracketType \X (1 .. n) -> BracketType] BY <1>1, NarrowedTyped
<1>4. PICK g \in [SUBSET (1 .. n) -> BracketType] : Steps(g, n, first, f)
  <2> HIDE DEF f, n, first
  <2> QED BY <1>1, <1>2, <1>3, FoldExists
<1>5. ASSUME NEW I \in SUBSET (1 .. n), I # {}
      PROVE  Max(I) \in 1 .. n /\ I \ {Max(I)} \in SUBSET (1 .. n)
  BY <1>1, <1>5, LastOf
<1>6. \A I \in SUBSET (1 .. n) : g[I] = IF I = {} THEN first
                                       ELSE Narrowed(s, g[I \ {Max(I)}], L[Max(I)])
  <2> HIDE DEF n, first
  <2> QED BY <1>4, <1>5 DEF Steps
<1>7. Is(g)
  <2> HIDE DEF first, n
  <2> QED BY <1>6
<1>8. Is(h)
  <2> HIDE DEF Is
  <2> QED BY <1>7
<1>9. SyncComputeBracketValues(s, startOver) = SetBracket(s, h[1 .. n])
  BY <1>1 DEF SyncComputeBracketValues, FoldLeft, MapThenFoldSet, FirstBracket
<1>10. Follows(h, BracketType, n, first, f)
  <2> HIDE DEF h, first, n, L
  <2>1. \A I \in SUBSET (1 .. n) :
           /\ I = {} => h[I] = first
           /\ I # {} /\ h[I \ {Max(I)}] \in BracketType => h[I] = f[<<h[I \ {Max(I)}], Max(I)>>]
    BY <1>5, <1>8
  <2> HIDE DEF f
  <2> QED BY <1>1, <1>2, <1>3, <2>1 DEF Follows
<1>11. PICK w : IsWalk(w, BracketType, n, first, f) /\ w[n] = h[1 .. n]
  <2> HIDE DEF f, n, first, h
  <2> QED BY <1>10, WalkOf
<1>12. \A i \in 1 .. n : w[i] = Narrowed(s, w[i - 1], L[i]) BY <1>11 DEF IsWalk
<1> HIDE DEF h
<1> QED BY <1>9, <1>11, <1>12 DEF IsWalk

-----------------------------------------------------------------------------
(* SyncComputeBracketValues changes nothing but the bracket and the timer.   *)
Rest(r, s) == /\ r.value = s.value /\ r.trigger = s.trigger /\ r.dying = s.dying
              /\ r.gone = s.gone /\ r.notified = s.notified /\ r.refused = s.refused
              /\ r.fate = s.fate

LEMMA ComputesBracket ==
    ASSUME NEW s \in States, Listed(s), NEW startOver \in BOOLEAN
    PROVE  LET r == SyncComputeBracketValues(s, startOver)
           IN  r \in States /\ Listed(r) /\ Rest(r, s) /\ r.list = s.list
<1> DEFINE n == Len(s.list[SERVERTIME])
<1>1. PICK w \in [0 .. n -> BracketType] : SyncComputeBracketValues(s, startOver) = SetBracket(s, w[n])
  BY BracketWalk
<1>2. n \in Nat BY OnTimerList
<1>3. w[n] \in BracketType BY <1>2
<1> DEFINE b == w[n]
           tm == IF b.newgt \/ b.newlt THEN b.newgt ELSE s.timer
<1> HIDE DEF b, n
<1>4. b.newgt \in BOOLEAN /\ b.newlt \in BOOLEAN BY <1>3 DEF b, BracketType
<1>5. tm \in BOOLEAN BY <1>4 DEF States
<1>6. [greater |-> b.greater, less |-> b.less] \in [greater : XSyncValue, less : XSyncValue]
  BY <1>3 DEF b, BracketType
<1>7. SyncComputeBracketValues(s, startOver) =
      [s EXCEPT !.bracket = [greater |-> b.greater, less |-> b.less], !.timer = tm]
  BY <1>1 DEF SetBracket, b
<1> HIDE DEF tm
<1> DEFINE r == [s EXCEPT !.bracket = [greater |-> b.greater, less |-> b.less], !.timer = tm]
<1>8. r \in States BY <1>5, <1>6 DEF States
<1>9. Rest(r, s) /\ r.list = s.list BY DEF Rest, States
<1> HIDE DEF r
<1>10. Listed(r) BY <1>9 DEF Listed, Rest, Live
<1> QED BY <1>7, <1>8, <1>9, <1>10 DEF r

-----------------------------------------------------------------------------
(* The timer of SERVERTIME: what its brackets cover, and which operations    *)
(* leave them alone.                                                        *)
LEMMA OrderOfValues ==
    ASSUME NEW a \in XSyncValue, NEW b \in XSyncValue
    PROVE  /\ LessOrEqual(a, a) /\ (LessOrEqual(a, b) \/ LessThan(b, a))
           /\ LessThan(a, b) => LessOrEqual(a, b)
           /\ LessOrEqual(a, MaxValue) /\ (LessOrEqual(MaxValue, a) => a = MaxValue)
           /\ \A c \in XSyncValue : /\ LessOrEqual(a, b) /\ LessOrEqual(b, c) => LessOrEqual(a, c)
                                    /\ LessOrEqual(a, b) /\ LessThan(b, c) => LessThan(a, c)
<1>1. a.hi \in Int /\ a.lo \in Int /\ b.hi \in Int /\ b.lo \in Int BY WordIsPositive DEF XSyncValue
<1>2. LessOrEqual(a, MaxValue) /\ (LessOrEqual(MaxValue, a) => a = MaxValue)
  BY WordIsPositive DEF XSyncValue, MaxValue, LessOrEqual
<1>3. ASSUME NEW c \in XSyncValue
      PROVE  /\ LessOrEqual(a, b) /\ LessOrEqual(b, c) => LessOrEqual(a, c)
             /\ LessOrEqual(a, b) /\ LessThan(b, c) => LessThan(a, c)
  <2>1. c.hi \in Int /\ c.lo \in Int BY WordIsPositive DEF XSyncValue
  <2> QED BY <1>1, <2>1 DEF LessOrEqual, LessThan
<1>4. /\ LessOrEqual(a, a) /\ (LessOrEqual(a, b) \/ LessThan(b, a))
      /\ LessThan(a, b) => LessOrEqual(a, b)
  BY <1>1 DEF LessOrEqual, LessThan
<1> QED BY <1>2, <1>3, <1>4

OnTimer(s, t) == Contains(s.list[SERVERTIME], t)

(* An Await's comparison whose time is still to come.                       *)
Awaited(s, t) ==
    /\ s.trigger[t].test_type = "PositiveComparison" /\ s.trigger[t].test_value # MaxValue
    /\ LessThan(s.value[SERVERTIME], s.trigger[t].test_value)
InTime(s) ==
    \A t \in Triggers \ Alarms : OnTimer(s, t) /\ Awaited(s, t)
        => s.timer /\ LessOrEqual(s.bracket.greater, s.trigger[t].test_value)

OnlyComparisons(s) == \A t \in Triggers : OnTimer(s, t) => s.trigger[t].test_type \in Comparisons

(* What a step of the search does to the bracket.                           *)
LEMMA NarrowedIs ==
    ASSUME NEW s \in States, NEW b \in BracketType, NEW t \in Live(s)
    PROVE  LET r == Narrowed(s, b, t)
           IN  /\ LessOrEqual(r.greater, b.greater) /\ (b.newgt => r.newgt)
               /\ r.newgt \/ r.greater = b.greater
               /\ s.trigger[t].test_type \in Comparisons => r.newlt = b.newlt
               /\ Awaited(s, t) /\ (b.newgt \/ b.greater = MaxValue)
                  => r.newgt /\ LessOrEqual(r.greater, s.trigger[t].test_value)
<1> DEFINE q == s.trigger[t]
           r == Narrowed(s, b, t)
<1>1. /\ q.test_value \in XSyncValue /\ b.greater \in XSyncValue /\ b.newgt \in BOOLEAN /\ b.newlt \in BOOLEAN
      /\ b.less \in XSyncValue /\ MaxValue \in XSyncValue
  BY OneOfStates, ValuesTyped DEF TriggerType, BracketType
<1>2. /\ LessOrEqual(b.greater, b.greater)
      /\ LessThan(q.test_value, b.greater) => LessOrEqual(q.test_value, b.greater)
      /\ LessOrEqual(q.test_value, q.test_value)
      /\ LessOrEqual(b.greater, q.test_value) \/ LessThan(q.test_value, b.greater)
      /\ LessOrEqual(MaxValue, q.test_value) => q.test_value = MaxValue
  BY <1>1, OrderOfValues
<1>3. CASE q.test_type \notin {"PositiveComparison", "PositiveTransition"} \/ ~LessThan(s.value[SERVERTIME], q.test_value)
  <2>1. r = b BY <1>3 DEF Narrowed
  <2> QED BY <1>2, <1>3, <2>1 DEF Awaited
<1>4. CASE /\ q.test_type \in {"PositiveComparison", "PositiveTransition"} /\ LessThan(s.value[SERVERTIME], q.test_value)
           /\ LessThan(q.test_value, b.greater)
  <2>1. r = [b EXCEPT !.greater = q.test_value, !.newgt = TRUE] BY <1>4 DEF Narrowed
  <2>2. r.greater = q.test_value /\ r.newgt /\ r.newlt = b.newlt BY <2>1 DEF BracketType
  <2> QED BY <1>2, <1>4, <2>2
<1>5. CASE /\ q.test_type \in {"PositiveComparison", "PositiveTransition"} /\ LessThan(s.value[SERVERTIME], q.test_value)
           /\ ~LessThan(q.test_value, b.greater)
  <2>1. r = IF q.test_type = "PositiveTransition" /\ GreaterThan(q.test_value, b.less)
            THEN [b EXCEPT !.less = q.test_value, !.newlt = TRUE] ELSE b
    BY <1>5 DEF Narrowed
  <2>2. r.greater = b.greater /\ r.newgt = b.newgt BY <2>1 DEF BracketType
  <2>3. q.test_type \in Comparisons => r.newlt = b.newlt BY <2>1 DEF Comparisons
  <2>4. LessOrEqual(b.greater, q.test_value) BY <1>2, <1>5
  <2>5. Awaited(s, t) /\ (b.newgt \/ b.greater = MaxValue) => b.newgt BY <1>2, <2>4 DEF Awaited
  <2> QED BY <1>2, <2>2, <2>3, <2>4, <2>5
<1> QED BY <1>3, <1>4, <1>5

LEMMA UpTo ==
    ASSUME NEW n \in Nat, NEW S, 0 \in S, \A i \in Nat : i \in S /\ i + 1 \in 1 .. n => i + 1 \in S
    PROVE  0 .. n \subseteq S
<1> DEFINE T == { i \in Nat : i <= n => i \in S }
<1>1. 0 \in T OBVIOUS
<1>2. \A i \in Nat : i \in T => i + 1 \in T OBVIOUS
<1> HIDE DEF T
<1>3. Nat \subseteq T BY <1>1, <1>2, Induct
<1> QED BY <1>3 DEF T

(* How far the search has come after i elements of the list.                *)
BracketAt(b, first, s, i) ==
    /\ b \in BracketType
    /\ LessOrEqual(b.greater, first.greater) /\ (OnlyComparisons(s) => b.newlt = first.newlt)
    /\ b.newgt \/ b.greater = first.greater
    /\ first.greater = MaxValue =>
          \A j \in 1 .. i : Awaited(s, s.list[SERVERTIME][j])
              => b.newgt /\ LessOrEqual(b.greater, s.trigger[s.list[SERVERTIME][j]].test_value)

LEMMA BracketSteps ==
    ASSUME NEW s \in States, Listed(s), NEW first \in BracketType, NEW i \in Nat,
           i + 1 \in 1 .. Len(s.list[SERVERTIME]), NEW b, BracketAt(b, first, s, i)
    PROVE  BracketAt(Narrowed(s, b, s.list[SERVERTIME][i + 1]), first, s, i + 1)
<1> DEFINE L == s.list[SERVERTIME]
           t == L[i + 1]
           r == Narrowed(s, b, t)
<1>1. /\ b \in BracketType /\ L \in Seq(Live(s)) /\ SERVERTIME \in AllCounters
      /\ s.list[SERVERTIME] \in Seq(Triggers)
  BY OnTimerList DEF BracketAt, AllCounters, States
<1>2. t \in Live(s) /\ t \in Triggers /\ OnTimer(s, t) BY <1>1 DEF Contains, OnTimer
<1>3. r \in BracketType BY <1>1, <1>2, NarrowedTyped
<1>4. /\ LessOrEqual(r.greater, b.greater) /\ (b.newgt => r.newgt)
      /\ r.newgt \/ r.greater = b.greater
      /\ s.trigger[t].test_type \in Comparisons => r.newlt = b.newlt
      /\ Awaited(s, t) /\ (b.newgt \/ b.greater = MaxValue)
         => r.newgt /\ LessOrEqual(r.greater, s.trigger[t].test_value)
  BY <1>1, <1>2, NarrowedIs
<1> HIDE DEF r
<1>5. r.greater \in XSyncValue /\ b.greater \in XSyncValue /\ first.greater \in XSyncValue
  BY <1>1, <1>3 DEF BracketType
<1>6. LessOrEqual(r.greater, first.greater) BY <1>4, <1>5, OrderOfValues DEF BracketAt
<1>7. OnlyComparisons(s) => r.newlt = first.newlt BY <1>2, <1>4 DEF BracketAt, OnlyComparisons
<1>8. r.newgt \/ r.greater = first.greater BY <1>4 DEF BracketAt
<1>9. ASSUME first.greater = MaxValue, NEW j \in 1 .. i + 1, Awaited(s, L[j])
      PROVE  r.newgt /\ LessOrEqual(r.greater, s.trigger[L[j]].test_value)
  <2>1. CASE j = i + 1 BY <1>4, <1>9, <2>1 DEF BracketAt
  <2>2. CASE j \in 1 .. i
    <3>1. b.newgt /\ LessOrEqual(b.greater, s.trigger[L[j]].test_value) BY <1>9, <2>2 DEF BracketAt
    <3>2. j \in 1 .. Len(L) BY <1>1, <2>2
    <3>3. L[j] \in Live(s) BY <1>1, <3>2
    <3>4. s.trigger[L[j]].test_value \in XSyncValue BY <3>3, OneOfStates DEF TriggerType
    <3> QED BY <1>4, <1>5, <3>1, <3>4, OrderOfValues
  <2> QED BY <2>1, <2>2
<1>10. BracketAt(r, first, s, i + 1) BY <1>3, <1>6, <1>7, <1>8, <1>9 DEF BracketAt
<1> QED BY <1>10 DEF r

LEMMA BracketFound ==
    ASSUME NEW s \in States, Listed(s), NEW startOver \in BOOLEAN
    PROVE  \E b : /\ SyncComputeBracketValues(s, startOver) = SetBracket(s, b)
                  /\ BracketAt(b, FirstBracket(s, startOver), s, Len(s.list[SERVERTIME]))
<1> DEFINE L == s.list[SERVERTIME]
           n == Len(L)
           first == FirstBracket(s, startOver)
<1>1. PICK w \in [0 .. n -> BracketType] :
         /\ w[0] = first
         /\ \A i \in 1 .. n : w[i - 1] \in BracketType /\ w[i] = Narrowed(s, w[i - 1], L[i])
         /\ SyncComputeBracketValues(s, startOver) = SetBracket(s, w[n])
  BY BracketWalk
<1>2. n \in Nat /\ first \in BracketType BY OnTimerList, FirstBracketTyped
<1> HIDE DEF first
<1> DEFINE S == { i \in 0 .. n : BracketAt(w[i], first, s, i) }
<1>3. 0 \in S
  <2>1. first.greater \in XSyncValue BY <1>2 DEF BracketType
  <2>2. LessOrEqual(first.greater, first.greater) BY <2>1, OrderOfValues
  <2>3. BracketAt(first, first, s, 0) BY <1>2, <2>2 DEF BracketAt
  <2> QED BY <1>1, <1>2, <2>3
<1>4. ASSUME NEW i \in Nat, i \in S, i + 1 \in 1 .. n PROVE i + 1 \in S
  <2>1. w[i + 1] = Narrowed(s, w[i], L[i + 1]) /\ i + 1 \in 0 .. n BY <1>1, <1>2, <1>4
  <2>2. BracketAt(w[i + 1], first, s, i + 1) BY <1>2, <1>4, <2>1, BracketSteps
  <2> QED BY <2>1, <2>2
<1> HIDE DEF S
<1>5. 0 .. n \subseteq S BY <1>2, <1>3, <1>4, UpTo
<1>6. BracketAt(w[n], first, s, n) BY <1>2, <1>5 DEF S
<1> QED BY <1>1, <1>6 DEF first

LEMMA BracketIsSet ==
    ASSUME NEW s \in States, NEW b \in BracketType, NEW r, r = SetBracket(s, b)
    PROVE  /\ r.bracket.greater = b.greater /\ r.timer = IF b.newgt \/ b.newlt THEN b.newgt ELSE s.timer
           /\ r.value = s.value /\ r.trigger = s.trigger /\ r.list = s.list /\ r.refused = s.refused
BY DEF States, SetBracket

(* A search from the start covers every time that an Await waits for.       *)
LEMMA SearchCovers ==
    ASSUME NEW s \in States, Listed(s), NEW r, r = SyncComputeBracketValues(s, TRUE)
    PROVE  InTime(r)
<1> DEFINE L == s.list[SERVERTIME]
<1>1. PICK b : r = SetBracket(s, b) /\ BracketAt(b, FirstBracket(s, TRUE), s, Len(L))
  BY BracketFound
<1>2. b \in BracketType BY <1>1 DEF BracketAt
<1>3. /\ r.bracket.greater = b.greater /\ r.timer = (IF b.newgt \/ b.newlt THEN b.newgt ELSE s.timer)
      /\ r.value = s.value /\ r.trigger = s.trigger /\ r.list = s.list
  BY <1>1, <1>2, BracketIsSet
<1>4. FirstBracket(s, TRUE).greater = MaxValue BY DEF FirstBracket
<1>5. ASSUME NEW t \in Triggers \ Alarms, OnTimer(r, t), Awaited(r, t)
      PROVE  r.timer /\ LessOrEqual(r.bracket.greater, r.trigger[t].test_value)
  <2>1. L \in Seq(Live(s)) BY OnTimerList
  <2>2. PICK j \in 1 .. Len(L) : L[j] = t BY <1>3, <1>5, <2>1 DEF OnTimer, Contains
  <2>3. Awaited(s, t) BY <1>3, <1>5 DEF Awaited
  <2>4. b.newgt /\ LessOrEqual(b.greater, s.trigger[t].test_value) BY <1>1, <1>4, <2>2, <2>3 DEF BracketAt
  <2> QED BY <1>3, <2>4
<1> QED BY <1>5 DEF InTime

(* A search that goes on from the brackets keeps the times covered.         *)
LEMMA SearchKeeps ==
    ASSUME NEW s \in States, Listed(s), InTime(s), OnlyComparisons(s),
           NEW r, r = SyncComputeBracketValues(s, FALSE)
    PROVE  InTime(r)
<1>1. PICK b : r = SetBracket(s, b) /\ BracketAt(b, FirstBracket(s, FALSE), s, Len(s.list[SERVERTIME]))
  BY BracketFound
<1>2. b \in BracketType BY <1>1 DEF BracketAt
<1>3. /\ r.bracket.greater = b.greater /\ r.timer = (IF b.newgt \/ b.newlt THEN b.newgt ELSE s.timer)
      /\ r.value = s.value /\ r.trigger = s.trigger /\ r.list = s.list
  BY <1>1, <1>2, BracketIsSet
<1>4. FirstBracket(s, FALSE).greater = s.bracket.greater /\ ~FirstBracket(s, FALSE).newlt
  BY DEF FirstBracket
<1>5. ~b.newlt /\ LessOrEqual(b.greater, s.bracket.greater) BY <1>1, <1>4 DEF BracketAt
<1>6. b.greater \in XSyncValue /\ s.bracket.greater \in XSyncValue BY <1>2 DEF BracketType, States
<1>7. ASSUME NEW t \in Triggers \ Alarms, OnTimer(r, t), Awaited(r, t)
      PROVE  r.timer /\ LessOrEqual(r.bracket.greater, r.trigger[t].test_value)
  <2>1. OnTimer(s, t) /\ Awaited(s, t) BY <1>3, <1>7 DEF Awaited, OnTimer
  <2>2. s.timer /\ LessOrEqual(s.bracket.greater, s.trigger[t].test_value) BY <2>1 DEF InTime
  <2>3. SERVERTIME \in AllCounters \ {s.dying} BY SyncAssumption DEF AllCounters, States
  <2>4. t \in Live(s) BY <2>1, <2>3 DEF Listed, OnTimer
  <2>5. s.trigger[t].test_value \in XSyncValue BY <2>4, OneOfStates DEF TriggerType
  <2>6. LessOrEqual(b.greater, s.trigger[t].test_value) BY <1>5, <1>6, <2>2, <2>5, OrderOfValues
  <2>7. r.timer BY <1>3, <1>5, <2>2
  <2> QED BY <1>3, <2>6, <2>7
<1> QED BY <1>7 DEF InTime

(* What an operation may do to the timer: it leaves the brackets to times    *)
(* that are still waited for, or searches them anew.  Of the alarms in X no *)
(* test is promised.                                                        *)
SameTimer(r, s, X) ==
    /\ r.bracket = s.bracket /\ r.timer = s.timer /\ r.list[SERVERTIME] = s.list[SERVERTIME]
    /\ \A t \in Triggers : OnTimer(s, t) =>
          /\ t \in s.refused => t \in r.refused
          /\ t \notin X => /\ r.trigger[t].test_type = s.trigger[t].test_type
                           /\ t \notin Alarms => r.trigger[t].test_value = s.trigger[t].test_value
TimeMoves(r, s) == r.value[SERVERTIME] \in {s.value[SERVERTIME], now}

(* The clock does not run backwards.                                        *)
OnTime(s) ==
    now \in XSyncValue /\ s.value[SERVERTIME] \in XSyncValue /\ LessOrEqual(s.value[SERVERTIME], now)

Tells(r, s, X) == OnTime(s) => TimeMoves(r, s) /\ (InTime(r) \/ SameTimer(r, s, X))

LEMMA TimeMovesOn ==
    ASSUME NEW s, OnTime(s), NEW r, TimeMoves(r, s)
    PROVE  OnTime(r) /\ LessOrEqual(s.value[SERVERTIME], r.value[SERVERTIME])
BY OrderOfValues DEF OnTime, TimeMoves

LEMMA StaysInTime ==
    ASSUME NEW X \in SUBSET Alarms, NEW s \in States, Listed(s), OnTime(s), InTime(s),
           NEW r, TimeMoves(r, s), SameTimer(r, s, X)
    PROVE  InTime(r)
<1>1. OnTime(r) /\ LessOrEqual(s.value[SERVERTIME], r.value[SERVERTIME]) BY TimeMovesOn
<1>2. ASSUME NEW t \in Triggers \ Alarms, OnTimer(r, t), Awaited(r, t)
      PROVE  r.timer /\ LessOrEqual(r.bracket.greater, r.trigger[t].test_value)
  <2>1. OnTimer(s, t) BY <1>2 DEF OnTimer, SameTimer
  <2>2. r.trigger[t].test_type = s.trigger[t].test_type /\ r.trigger[t].test_value = s.trigger[t].test_value
    BY <1>2, <2>1 DEF SameTimer
  <2>3. SERVERTIME \in AllCounters \ {s.dying} BY SyncAssumption DEF AllCounters, States
  <2>4. t \in Live(s) BY <2>1, <2>3 DEF Listed, OnTimer
  <2>5. s.trigger[t].test_value \in XSyncValue BY <2>4, OneOfStates DEF TriggerType
  <2>6. s.value[SERVERTIME] \in XSyncValue /\ r.value[SERVERTIME] \in XSyncValue BY <1>1 DEF OnTime
  <2>7. LessThan(s.value[SERVERTIME], s.trigger[t].test_value)
    BY <1>1, <1>2, <2>2, <2>5, <2>6, OrderOfValues DEF Awaited
  <2>8. Awaited(s, t) BY <1>2, <2>2, <2>7 DEF Awaited
  <2>9. s.timer /\ LessOrEqual(s.bracket.greater, s.trigger[t].test_value) BY <2>1, <2>8 DEF InTime
  <2> QED BY <2>2, <2>9 DEF SameTimer
<1> QED BY <1>2 DEF InTime

LEMMA TellsOn ==
    ASSUME NEW X \in SUBSET Alarms, NEW s, NEW q \in States, Listed(q), Tells(q, s, X),
           NEW r, Tells(r, q, X)
    PROVE  Tells(r, s, X)
<1> SUFFICES ASSUME OnTime(s)
             PROVE  TimeMoves(r, s) /\ (InTime(r) \/ SameTimer(r, s, X))
  BY DEF Tells
<1>1. TimeMoves(q, s) /\ (InTime(q) \/ SameTimer(q, s, X)) BY DEF Tells
<1>2. OnTime(q) BY <1>1, TimeMovesOn
<1>3. TimeMoves(r, q) /\ (InTime(r) \/ SameTimer(r, q, X)) BY <1>2 DEF Tells
<1>4. TimeMoves(r, s) BY <1>1, <1>3 DEF TimeMoves
<1>5. CASE InTime(r) BY <1>4, <1>5
<1>6. CASE SameTimer(r, q, X) /\ InTime(q)
  <2>1. InTime(r) BY <1>2, <1>3, <1>6, StaysInTime
  <2> QED BY <1>4, <2>1
<1>7. CASE SameTimer(r, q, X) /\ SameTimer(q, s, X)
  <2>1. SameTimer(r, s, X) BY <1>7 DEF SameTimer, OnTimer
  <2> QED BY <1>4, <2>1
<1> QED BY <1>1, <1>3, <1>5, <1>6, <1>7

(* Between requests: unless a transition or an alarm whose change was       *)
(* refused is on the list, the timer covers what is waited for.             *)
Armed(s) ==
    (\A t \in Triggers : OnTimer(s, t) => t \notin s.refused /\ s.trigger[t].test_type \in Comparisons)
    => InTime(s)

LEMMA StaysArmed ==
    ASSUME NEW X \in SUBSET Alarms, NEW s \in States, Listed(s), OnTime(s), Armed(s),
           NEW r, Tells(r, s, X), InTime(r) \/ \A t \in X : OnTimer(r, t) => t \in r.refused
    PROVE  Armed(r)
<1> SUFFICES ASSUME \A t \in Triggers : OnTimer(r, t) => t \notin r.refused /\ r.trigger[t].test_type \in Comparisons,
                    ~InTime(r)
             PROVE  FALSE
  BY DEF Armed
<1>1. SameTimer(r, s, X) BY DEF Tells
<1>2. ASSUME NEW t \in Triggers, OnTimer(s, t)
      PROVE  t \notin s.refused /\ s.trigger[t].test_type \in Comparisons
  <2>1. OnTimer(r, t) BY <1>1, <1>2 DEF SameTimer, OnTimer
  <2>2. t \notin r.refused /\ t \notin X /\ r.trigger[t].test_type \in Comparisons BY <2>1
  <2> QED BY <1>1, <1>2, <2>2 DEF SameTimer
<1>3. InTime(s) BY <1>2 DEF Armed
<1> QED BY <1>1, <1>3, StaysInTime DEF Tells

LEMMA TellsNothing ==
    ASSUME NEW X, NEW s, NEW r, r.bracket = s.bracket, r.timer = s.timer,
           r.list[SERVERTIME] = s.list[SERVERTIME], r.value[SERVERTIME] = s.value[SERVERTIME],
           \A t \in Triggers : OnTimer(s, t) =>
              /\ t \in s.refused => t \in r.refused
              /\ r.trigger[t] = s.trigger[t] \/ t \in X
    PROVE  Tells(r, s, X)
BY DEF Tells, TimeMoves, SameTimer

LEMMA TellsLive ==
    ASSUME NEW X, NEW s, NEW r \in States, Listed(r), r.bracket = s.bracket, r.timer = s.timer,
           r.list[SERVERTIME] = s.list[SERVERTIME], r.value[SERVERTIME] = s.value[SERVERTIME],
           s.refused \subseteq r.refused, \A t \in Live(r) : r.trigger[t] = s.trigger[t] \/ t \in X
    PROVE  Tells(r, s, X)
<1>1. SERVERTIME \in AllCounters \ {r.dying} BY SyncAssumption DEF AllCounters, States
<1>2. \A t \in Triggers : OnTimer(s, t) => t \in Live(r) BY <1>1 DEF OnTimer, Listed
<1> QED BY <1>2, TellsNothing

LEMMA TellsOthers ==
    ASSUME NEW X, NEW s, NEW r, Tells(r, s, {})
    PROVE  Tells(r, s, X)
BY DEF Tells, SameTimer

LEMMA SearchTells ==
    ASSUME NEW X, NEW s \in States, Listed(s), NEW r, r = SyncComputeBracketValues(s, TRUE)
    PROVE  Tells(r, s, X) /\ InTime(r)
<1>1. InTime(r) BY SearchCovers
<1>2. r.value = s.value BY ComputesBracket DEF Rest
<1> QED BY <1>1, <1>2 DEF Tells, TimeMoves

-----------------------------------------------------------------------------
(* Registration: what the helpers change, and that they keep the types and  *)
(* the lists.                                                               *)
Unlinked(r, s, t) ==
    /\ r \in States /\ Listed(r) /\ Rest(r, s)
    /\ \A c \in AllCounters : r.list[c] = IF c = s.trigger[t].counter THEN RemoveFirst(s.list[c], t)
                                          ELSE s.list[c]

(* A trigger that leaves the list of SERVERTIME, or joins it, has the        *)
(* brackets searched anew.                                                  *)
Retimed(r, s, t) == Tells(r, s, {}) /\ (s.trigger[t].counter = SERVERTIME => InTime(r))

LEMMA DeletesFromList ==
    ASSUME NEW s \in States, Listed(s), NEW t,
           s.trigger[t].counter = None \/ s.trigger[t].counter # s.dying
    PROVE  /\ Unlinked(SyncDeleteTriggerFromCounter(s, t), s, t)
           /\ Retimed(SyncDeleteTriggerFromCounter(s, t), s, t)
<1> DEFINE c == s.trigger[t].counter
           u == [s EXCEPT !.list[c] = RemoveFirst(@, t)]
<1>1. CASE c = None
  <2>1. SyncDeleteTriggerFromCounter(s, t) = s
    BY <1>1, SyncAssumption DEF SyncDeleteTriggerFromCounter
  <2>2. None \notin AllCounters BY SyncAssumption DEF AllCounters
  <2>3. Retimed(s, s, t) BY <1>1, TellsNothing, SyncAssumption DEF Retimed
  <2> QED BY <1>1, <2>1, <2>2, <2>3 DEF Unlinked, Rest
<1>2. CASE c # None
  <2>1. \A d \in AllCounters \ {s.dying} : IsInjective(s.list[d]) /\ s.list[d] \in Seq(Triggers)
    BY DEF Listed, States
  <2>2. c \in AllCounters => LET R == RemoveFirst(s.list[c], t)
                             IN  /\ R \in Seq(Triggers) /\ IsInjective(R)
                                 /\ \A e : Contains(R, e) <=> Contains(s.list[c], e) /\ e # t
    BY <1>2, <2>1, WithoutOne
  <2> HIDE DEF c
  <2>3. /\ s = [s EXCEPT !.list = s.list]
        /\ u = [s EXCEPT !.list = [d \in AllCounters |->
                   IF d = c THEN RemoveFirst(s.list[d], t) ELSE s.list[d]]]
    BY DEF States
  <2>4. u \in States BY <2>2, <2>3 DEF States
  <2>5. Rest(u, s) /\ \A d \in AllCounters : u.list[d] = IF d = c THEN RemoveFirst(s.list[d], t)
                                                         ELSE s.list[d]
    BY <2>3 DEF Rest, States
  <2> HIDE DEF u
  <2>6. Listed(u)
    <3> SUFFICES ASSUME NEW d \in AllCounters \ {u.dying}
                 PROVE  /\ IsInjective(u.list[d])
                        /\ \A e \in Triggers : Contains(u.list[d], e) =>
                              e \in Live(u) /\ u.trigger[e].counter = d
      BY DEF Listed
    <3>1. d \in AllCounters \ {s.dying} BY <2>5 DEF Rest
    <3>2. u.trigger = s.trigger /\ Live(u) = Live(s) BY <2>5 DEF Rest, Live
    <3>3. CASE d = c BY <2>2, <2>5, <3>1, <3>2, <3>3 DEF Listed
    <3>4. CASE d # c BY <2>5, <3>1, <3>2, <3>4 DEF Listed
    <3> QED BY <3>3, <3>4
  <2>7. CASE c = SERVERTIME
    <3>1. SyncDeleteTriggerFromCounter(s, t) = SyncComputeBracketValues(u, TRUE)
      BY <1>2, <2>7 DEF SyncDeleteTriggerFromCounter, c, u
    <3> DEFINE r == SyncComputeBracketValues(u, TRUE)
    <3>2. r \in States /\ Listed(r) /\ Rest(r, u) /\ r.list = u.list
      BY <2>4, <2>6, ComputesBracket
    <3> HIDE DEF r
    <3>3. Unlinked(r, s, t) BY <2>5, <3>2 DEF Unlinked, Rest, c
    <3>4. InTime(r) BY <2>4, <2>6, SearchTells DEF r
    <3>5. Retimed(r, s, t) BY <2>5, <3>2, <3>4 DEF Retimed, Tells, TimeMoves, Rest
    <3> QED BY <3>1, <3>3, <3>5 DEF r
  <2>8. CASE c # SERVERTIME
    <3>1. SyncDeleteTriggerFromCounter(s, t) = u
      BY <1>2, <2>8 DEF SyncDeleteTriggerFromCounter, c, u
    <3>2. u.bracket = s.bracket /\ u.timer = s.timer BY <2>3 DEF u, States
    <3>3. u.list[SERVERTIME] = s.list[SERVERTIME] BY <2>5, <2>8 DEF AllCounters
    <3>4. Tells(u, s, {}) BY <2>5, <3>2, <3>3, TellsNothing DEF Rest
    <3>5. Retimed(u, s, t) BY <2>8, <3>4 DEF Retimed, c
    <3> QED BY <2>4, <2>5, <2>6, <3>1, <3>5 DEF Unlinked, c
  <2> QED BY <2>7, <2>8
<1> QED BY <1>1, <1>2

LEMMA WhatIsUnlinked ==
    ASSUME NEW s \in States, Listed(s), NEW t, NEW r, Unlinked(r, s, t), NEW c \in AllCounters \ {s.dying}
    PROVE  \A e \in Triggers :
              Contains(r.list[c], e) <=> Contains(s.list[c], e) /\ (e = t => c # s.trigger[t].counter)
<1>1. IsInjective(s.list[c]) /\ s.list[c] \in Seq(Triggers) BY DEF Listed, States
<1>2. \A e : Contains(RemoveFirst(s.list[c], t), e) <=> Contains(s.list[c], e) /\ e # t
  BY <1>1, WithoutOne
<1> QED BY <1>2 DEF Unlinked

Linked(r, s, t) ==
    /\ r \in States /\ Listed(r) /\ Rest(r, s)
    /\ \A c \in AllCounters :
          IF c = s.trigger[t].counter
          THEN \A e \in Triggers : Contains(r.list[c], e) <=> Contains(s.list[c], e) \/ e = t
          ELSE r.list[c] = s.list[c]

LEMMA AddsToList ==
    ASSUME NEW s \in States, Listed(s), s.dying = None, NEW t \in Live(s)
    PROVE  /\ Linked(SyncAddTriggerToCounter(s, t), s, t)
           /\ Retimed(SyncAddTriggerToCounter(s, t), s, t)
<1> DEFINE c == s.trigger[t].counter
           u == [s EXCEPT !.list[c] = IF Contains(@, t) THEN @ ELSE <<t>> \o @]
<1>1. None \notin AllCounters /\ t \in Triggers BY SyncAssumption, TheTable DEF AllCounters
<1>2. CASE c = None
  <2>1. SyncAddTriggerToCounter(s, t) = s BY <1>2, SyncAssumption DEF SyncAddTriggerToCounter
  <2>2. Retimed(s, s, t) BY <1>2, TellsNothing, SyncAssumption DEF Retimed
  <2> QED BY <1>1, <1>2, <2>1, <2>2 DEF Linked, Rest
<1>3. CASE c # None
  <2>1. \A d \in AllCounters : IsInjective(s.list[d]) /\ s.list[d] \in Seq(Triggers)
    BY <1>1 DEF Listed, States
  <2> DEFINE X == IF Contains(s.list[c], t) THEN s.list[c] ELSE <<t>> \o s.list[c]
  <2>2. c \in AllCounters => /\ X \in Seq(Triggers) /\ IsInjective(X)
                             /\ \A e : Contains(X, e) <=> Contains(s.list[c], e) \/ e = t
    <3> SUFFICES ASSUME c \in AllCounters
                 PROVE  /\ X \in Seq(Triggers) /\ IsInjective(X)
                        /\ \A e : Contains(X, e) <=> Contains(s.list[c], e) \/ e = t
      OBVIOUS
    <3> DEFINE L == s.list[c]
    <3>1. IsInjective(L) /\ L \in Seq(Triggers) BY <2>1
    <3> HIDE DEF L
    <3>2. CASE Contains(L, t) BY <3>1, <3>2 DEF L
    <3>3. CASE ~Contains(L, t)
      <4>1. LET R == <<t>> \o L
            IN  /\ R \in Seq(Triggers) /\ IsInjective(R)
                /\ \A e : Contains(R, e) <=> Contains(L, e) \/ e = t
        BY <1>1, <3>1, <3>3, WithOne
      <4> QED BY <3>3, <4>1 DEF L
    <3> QED BY <3>2, <3>3
  <2> HIDE DEF c
  <2>3. u = [s EXCEPT !.list = [d \in AllCounters |-> IF d = c THEN X ELSE s.list[d]]]
    BY DEF States
  <2> HIDE DEF X
  <2>4. u \in States BY <2>2, <2>3 DEF States
  <2>5. Rest(u, s) /\ \A d \in AllCounters : u.list[d] = IF d = c THEN X ELSE s.list[d]
    <3>1. Rest(u, s) BY <2>3 DEF Rest, States
    <3>2. u.list = [d \in AllCounters |-> IF d = c THEN X ELSE s.list[d]] BY <2>3 DEF States
    <3> QED BY <3>1, <3>2
  <2> HIDE DEF u
  <2>6. Listed(u)
    <3> SUFFICES ASSUME NEW d \in AllCounters
                 PROVE  /\ IsInjective(u.list[d])
                        /\ \A e \in Triggers : Contains(u.list[d], e) =>
                              e \in Live(u) /\ u.trigger[e].counter = d
      BY DEF Listed
    <3>1. d \in AllCounters \ {s.dying} BY <1>1
    <3>2. u.trigger = s.trigger /\ Live(u) = Live(s) BY <2>5 DEF Rest, Live
    <3>3. CASE d = c BY <2>2, <2>5, <3>1, <3>2, <3>3 DEF Listed, c
    <3>4. CASE d # c BY <2>5, <3>1, <3>2, <3>4 DEF Listed
    <3> QED BY <3>3, <3>4
  <2>7. \A d \in AllCounters :
          IF d = c THEN \A e \in Triggers : Contains(u.list[d], e) <=> Contains(s.list[d], e) \/ e = t
          ELSE u.list[d] = s.list[d]
    BY <2>2, <2>5
  <2>8. CASE c = SERVERTIME
    <3>1. SyncAddTriggerToCounter(s, t) = SyncComputeBracketValues(u, TRUE)
      BY <1>3, <2>8 DEF SyncAddTriggerToCounter, c, u
    <3> DEFINE r == SyncComputeBracketValues(u, TRUE)
    <3>2. r \in States /\ Listed(r) /\ Rest(r, u) /\ r.list = u.list
      BY <2>4, <2>6, ComputesBracket
    <3> HIDE DEF r
    <3>3. Linked(r, s, t) BY <2>5, <2>7, <3>2 DEF Linked, Rest, c
    <3>4. InTime(r) BY <2>4, <2>6, SearchTells DEF r
    <3>5. Retimed(r, s, t) BY <2>5, <3>2, <3>4 DEF Retimed, Tells, TimeMoves, Rest
    <3> QED BY <3>1, <3>3, <3>5 DEF r
  <2>9. CASE c # SERVERTIME
    <3>1. SyncAddTriggerToCounter(s, t) = u
      BY <1>3, <2>9 DEF SyncAddTriggerToCounter, c, u
    <3>2. u.bracket = s.bracket /\ u.timer = s.timer BY <2>3 DEF States
    <3>3. u.list[SERVERTIME] = s.list[SERVERTIME] BY <2>5, <2>9 DEF AllCounters
    <3>4. Tells(u, s, {}) BY <2>5, <3>2, <3>3, TellsNothing DEF Rest
    <3>5. Retimed(u, s, t) BY <2>9, <3>4 DEF Retimed, c
    <3> QED BY <2>4, <2>5, <2>6, <2>7, <3>1, <3>5 DEF Linked, c
  <2> QED BY <2>8, <2>9
<1> QED BY <1>2, <1>3

-----------------------------------------------------------------------------
(* The loop that updates an alarm: adding a delta other than 0 comes to an  *)
(* end, and the value it ends with, if it does not overflow, is one for     *)
(* which the test is FALSE.  Pos has the values for which it is TRUE.       *)
LEMMA Int64InRange ==
    ASSUME NEW v \in XSyncValue
    PROVE  Int64(v) \in Int /\ InRange(Int64(v))
<1>1. v.hi \in Int /\ v.lo \in Int /\ 0 <= v.lo /\ v.lo < Word /\ -Half <= v.hi /\ v.hi <= Half - 1
  BY WordIsPositive DEF XSyncValue
<1>2. InRange(v.hi * Word + v.lo) BY <1>1, RangeOfHighWord
<1>3. v.hi * Word \in Int BY <1>1, WordIsPositive
<1> QED BY <1>1, <1>2, <1>3 DEF Int64

LEMMA ZeroIsZero ==
    ASSUME NEW v \in XSyncValue
    PROVE  Int64(v) = 0 <=> IsZero(v)
<1>1. v.hi \in Int /\ v.lo \in Int /\ 0 <= v.lo /\ v.lo < Word BY WordIsPositive DEF XSyncValue
<1> DEFINE H == v.hi * Word
<1>2. H \in Int /\ 0 * Word = 0 BY <1>1, WordIsPositive
<1>3. v.hi = 0 => H = 0 BY <1>2
<1>4. 0 < v.hi => 0 * Word + Word <= H BY <1>1, Outweighs
<1>5. v.hi < 0 => H + Word <= 0 * Word BY <1>1, Outweighs
<1>6. Int64(v) = H + v.lo BY DEF Int64
<1> HIDE DEF H
<1>7. v.hi = 0 => (H + v.lo = 0 <=> v.lo = 0) BY <1>1, <1>3
<1>8. v.hi # 0 => H + v.lo # 0 BY <1>1, <1>2, <1>4, <1>5, WordIsPositive
<1> QED BY <1>6, <1>7, <1>8 DEF IsZero

IsRearm(f, delta, Pos) ==
    f = [test \in XSyncValue |->
            IF AddOverflows(test, delta) THEN [test |-> test, overflow |-> TRUE]
            ELSE IF ValueAdd(test, delta) \in Pos THEN f[ValueAdd(test, delta)]
                 ELSE [test |-> ValueAdd(test, delta), overflow |-> FALSE]]

(* How far a value is from the end of the range.                            *)
Left(test, delta) == IF Int64(delta) > 0 THEN Half * Word - 1 - Int64(test)
                     ELSE Int64(test) + Half * Word

LEMMA LeftIsNat ==
    ASSUME NEW test \in XSyncValue, NEW delta \in XSyncValue
    PROVE  Left(test, delta) \in Nat
<1> DEFINE N == Half * Word
<1>1. N \in Int /\ -Half * Word = -N BY WordIsPositive
<1>2. Int64(test) \in Int /\ Int64(delta) \in Int BY Int64InRange
<1>3. -N <= Int64(test) /\ Int64(test) <= N - 1 BY <1>1, Int64InRange DEF InRange
<1>4. Left(test, delta) = IF Int64(delta) > 0 THEN N - 1 - Int64(test) ELSE Int64(test) + N
  BY DEF Left
<1> HIDE DEF N
<1> QED BY <1>1, <1>2, <1>3, <1>4

LEMMA LeftDecreases ==
    ASSUME NEW test \in XSyncValue, NEW delta \in XSyncValue,
           ~IsZero(delta), ~AddOverflows(test, delta)
    PROVE  Left(ValueAdd(test, delta), delta) < Left(test, delta)
<1> DEFINE N == Half * Word
           sum == ValueAdd(test, delta)
<1>1. N \in Int BY WordIsPositive
<1>2. Int64(test) \in Int /\ Int64(delta) \in Int /\ Int64(delta) # 0 BY Int64InRange, ZeroIsZero
<1>3. Int64(sum) = Int64(test) + Int64(delta) BY AddIsExact DEF ExactSum
<1>4. /\ Left(test, delta) = IF Int64(delta) > 0 THEN N - 1 - Int64(test) ELSE Int64(test) + N
      /\ Left(sum, delta) = IF Int64(delta) > 0 THEN N - 1 - Int64(sum) ELSE Int64(sum) + N
  BY DEF Left
<1> HIDE DEF N, sum
<1>5. Left(sum, delta) < Left(test, delta) BY <1>1, <1>2, <1>3, <1>4
<1> QED BY <1>5 DEF sum

LEMMA AddingZero ==
    ASSUME NEW test \in XSyncValue, NEW delta \in XSyncValue, IsZero(delta)
    PROVE  ValueAdd(test, delta) = test /\ ~AddOverflows(test, delta)
<1>1. /\ test.hi \in Int /\ test.lo \in Int /\ 0 <= test.lo /\ test.lo < Word
      /\ -Half <= test.hi /\ test.hi <= Half - 1 /\ delta.hi = 0 /\ delta.lo = 0
      /\ test = [hi |-> test.hi, lo |-> test.lo]
  BY WordIsPositive DEF XSyncValue, IsZero
<1>2. Unsigned(test.lo + delta.lo) = test.lo BY <1>1, WordIsPositive DEF Unsigned
<1>3. Carry(test, test.lo) = 0 BY <1>1 DEF Carry
<1>4. Signed(test.hi + delta.hi + 0) = test.hi BY <1>1, WordIsPositive DEF Signed
<1>5. ValueAdd(test, delta) = [hi |-> test.hi, lo |-> test.lo] BY <1>2, <1>3, <1>4 DEF ValueAdd
<1>6. ValueAdd(test, delta) = test BY <1>1, <1>5
<1> QED BY <1>6 DEF AddOverflows, Overflows

LEMMA RearmExists ==
    ASSUME NEW delta \in XSyncValue, NEW Pos
    PROVE  \E f : IsRearm(f, delta, Pos)
<1>1. CASE IsZero(delta)
  <2> DEFINE f == [test \in XSyncValue |-> [test |-> test, overflow |-> FALSE]]
  <2>1. IsRearm(f, delta, Pos) BY <1>1, AddingZero DEF IsRearm
  <2> QED BY <2>1
<1>2. CASE ~IsZero(delta)
  <2> DEFINE D(m) == { v \in XSyncValue : Left(v, delta) < m }
             Next1(f, test) == IF AddOverflows(test, delta) THEN [test |-> test, overflow |-> TRUE]
                               ELSE IF ValueAdd(test, delta) \in Pos THEN f[ValueAdd(test, delta)]
                               ELSE [test |-> ValueAdd(test, delta), overflow |-> FALSE]
             P(m) == \E f : f = [test \in D(m) |-> Next1(f, test)]
             S == { m \in Nat : P(m) }
  <2>1. P(0)
    <3>1. D(0) = {} BY LeftIsNat
    <3> DEFINE f == [test \in {} |-> Zero]
    <3>2. f = [test \in D(0) |-> Next1(f, test)] BY <3>1
    <3> QED BY <3>2
  <2>2. ASSUME NEW m \in Nat, P(m) PROVE P(m + 1)
    <3>1. PICK f : f = [test \in D(m) |-> Next1(f, test)] BY <2>2
    <3> DEFINE g == [test \in D(m + 1) |-> Next1(f, test)]
    <3>2. ASSUME NEW test \in D(m + 1), ~AddOverflows(test, delta)
          PROVE  ValueAdd(test, delta) \in D(m)
      <4>1. ValueAdd(test, delta) \in XSyncValue BY AddIsTyped
      <4>2. Left(ValueAdd(test, delta), delta) < Left(test, delta) BY <1>2, <3>2, LeftDecreases
      <4>3. Left(ValueAdd(test, delta), delta) \in Nat /\ Left(test, delta) \in Nat
        BY <4>1, LeftIsNat
      <4> QED BY <4>1, <4>2, <4>3
    <3>3. D(m) \subseteq D(m + 1) BY LeftIsNat
    <3> HIDE DEF D, Next1
    <3>4. ASSUME NEW v \in D(m) PROVE g[v] = f[v]
      <4>1. g[v] = Next1(f, v) BY <3>3
      <4>2. f[v] = Next1(f, v) BY <3>1
      <4> QED BY <4>1, <4>2
    <3>5. ASSUME NEW test \in D(m + 1) PROVE Next1(f, test) = Next1(g, test)
      <4>1. ~AddOverflows(test, delta) => f[ValueAdd(test, delta)] = g[ValueAdd(test, delta)]
        BY <3>2, <3>4
      <4> HIDE DEF g
      <4> QED BY <4>1 DEF Next1
    <3>6. g = [test \in D(m + 1) |-> Next1(g, test)] BY <3>5
    <3> QED BY <3>6
  <2> HIDE DEF P
  <2>3. 0 \in S /\ \A m \in Nat : m \in S => m + 1 \in S BY <2>1, <2>2
  <2> HIDE DEF S
  <2>4. Nat \subseteq S BY <2>3, Induct
  <2> DEFINE M == Half * Word + Half * Word
  <2>5. M \in Nat BY WordIsPositive
  <2>6. D(M) = XSyncValue
    <3>1. ASSUME NEW v \in XSyncValue PROVE Left(v, delta) < M
      <4> DEFINE N == Half * Word
      <4>1. N \in Int /\ -Half * Word = -N /\ N > 0
        <5>1. N \in Int /\ -Half * Word = -N BY WordIsPositive
        <5>2. 0 * Word + Word <= Half * Word /\ 0 * Word = 0 BY WordIsPositive, Outweighs
        <5> QED BY <5>1, <5>2, WordIsPositive
      <4>2. Int64(v) \in Int /\ -N <= Int64(v) /\ Int64(v) <= N - 1 BY <4>1, Int64InRange DEF InRange
      <4>3. Left(v, delta) = IF Int64(delta) > 0 THEN N - 1 - Int64(v) ELSE Int64(v) + N BY DEF Left
      <4>4. M = N + N OBVIOUS
      <4> HIDE DEF N, M
      <4> QED BY <4>1, <4>2, <4>3, <4>4
    <3> QED BY <3>1
  <2>7. P(M) BY <2>4, <2>5 DEF S
  <2>8. PICK f : f = [test \in XSyncValue |-> Next1(f, test)] BY <2>6, <2>7 DEF P
  <2>9. IsRearm(f, delta, Pos) BY <2>8 DEF IsRearm
  <2> QED BY <2>9
<1> QED BY <1>1, <1>2

LEMMA RearmEnds ==
    ASSUME NEW delta \in XSyncValue, NEW Pos, NEW f, IsRearm(f, delta, Pos),
           NEW start \in XSyncValue, ~IsZero(delta) \/ start \notin Pos
    PROVE  LET u == f[start]
           IN  u.overflow \in BOOLEAN /\ u.test \in XSyncValue /\ (~u.overflow => u.test \notin Pos)
<1> DEFINE Good(u) == u.overflow \in BOOLEAN /\ u.test \in XSyncValue /\ (~u.overflow => u.test \notin Pos)
<1>1. ASSUME NEW test \in XSyncValue
      PROVE  f[test] = IF AddOverflows(test, delta) THEN [test |-> test, overflow |-> TRUE]
                       ELSE IF ValueAdd(test, delta) \in Pos THEN f[ValueAdd(test, delta)]
                       ELSE [test |-> ValueAdd(test, delta), overflow |-> FALSE]
  BY DEF IsRearm
<1>2. ASSUME NEW test \in XSyncValue,
             AddOverflows(test, delta) \/ ValueAdd(test, delta) \notin Pos
                \/ Good(f[ValueAdd(test, delta)])
      PROVE  Good(f[test])
  <2>1. ValueAdd(test, delta) \in XSyncValue BY AddIsTyped
  <2>2. Good([test |-> test, overflow |-> TRUE]) OBVIOUS
  <2>3. ValueAdd(test, delta) \notin Pos => Good([test |-> ValueAdd(test, delta), overflow |-> FALSE])
    BY <2>1
  <2> HIDE DEF Good
  <2> QED BY <1>1, <1>2, <2>2, <2>3
<1>3. CASE IsZero(delta)
  <2>1. ValueAdd(start, delta) \notin Pos BY <1>3, AddingZero
  <2> HIDE DEF Good
  <2>2. Good(f[start]) BY <1>2, <2>1
  <2> QED BY <2>2 DEF Good
<1>4. CASE ~IsZero(delta)
  <2> DEFINE P(m) == \A v \in XSyncValue : Left(v, delta) < m => Good(f[v])
             S == { m \in Nat : P(m) }
  <2> HIDE DEF Good
  <2>1. P(0) BY LeftIsNat
  <2>2. ASSUME NEW m \in Nat, P(m) PROVE P(m + 1)
    <3> SUFFICES ASSUME NEW v \in XSyncValue, Left(v, delta) < m + 1 PROVE Good(f[v]) OBVIOUS
    <3>1. CASE AddOverflows(v, delta) BY <1>2, <3>1
    <3>2. CASE ~AddOverflows(v, delta)
      <4>1. ValueAdd(v, delta) \in XSyncValue BY AddIsTyped
      <4>2. Left(ValueAdd(v, delta), delta) < Left(v, delta) BY <1>4, <3>2, LeftDecreases
      <4>3. Left(ValueAdd(v, delta), delta) \in Nat /\ Left(v, delta) \in Nat BY <4>1, LeftIsNat
      <4>4. Left(ValueAdd(v, delta), delta) < m BY <4>2, <4>3
      <4>5. Good(f[ValueAdd(v, delta)]) BY <2>2, <4>1, <4>4
      <4> QED BY <1>2, <4>5
    <3> QED BY <3>1, <3>2
  <2> HIDE DEF P
  <2>3. 0 \in S /\ \A m \in Nat : m \in S => m + 1 \in S BY <2>1, <2>2
  <2> HIDE DEF S
  <2>4. Nat \subseteq S BY <2>3, Induct
  <2>5. Left(start, delta) \in Nat /\ Left(start, delta) + 1 \in Nat
        /\ Left(start, delta) < Left(start, delta) + 1
    BY LeftIsNat
  <2>6. P(Left(start, delta) + 1) BY <2>4, <2>5 DEF S
  <2>7. Good(f[start]) BY <2>5, <2>6 DEF P
  <2> QED BY <2>7 DEF Good
<1> QED BY <1>3, <1>4

-----------------------------------------------------------------------------
(* Triggers that fire.                                                      *)
LEMMA WaitsAre ==
    ASSUME NEW s \in States, NEW cl
    PROVE  /\ Waits(s, cl) \subseteq Live(s) \ Alarms
           /\ \A t \in Waits(s, cl) : t \in {<<cl, 1>>, <<cl, 2>>}
           /\ cl \in Clients => \A t \in Live(s) : t \in {<<cl, 1>>, <<cl, 2>>} => t \in Waits(s, cl)
<1>1. Live(s) \subseteq Alarms \cup (Clients \X {1, 2}) BY TheTable DEF Triggers
<1>2. \A t \in Clients \X {1, 2} : t[1] = cl => t \in {<<cl, 1>>, <<cl, 2>>} OBVIOUS
<1>3. cl \in Clients => <<cl, 1>> \notin Alarms /\ <<cl, 2>> \notin Alarms
  <2>1. cl \in Clients => <<cl, 1>> \in Clients \X {1, 2} /\ <<cl, 2>> \in Clients \X {1, 2} OBVIOUS
  <2> QED BY <2>1, SyncAssumption
<1>4. <<cl, 1>>[1] = cl /\ <<cl, 2>>[1] = cl OBVIOUS
<1> QED BY <1>1, <1>2, <1>3, <1>4 DEF Waits

LEMMA Unlinks ==
    ASSUME NEW s \in States, Listed(s), NEW t, NEW r, r = Unlink(s, t)
    PROVE  /\ r \in States /\ Listed(r) /\ Rest(r, s)
           /\ \A c \in AllCounters \ {s.dying} :
                 /\ r.list[c] \in {s.list[c], RemoveFirst(s.list[c], t)}
                 /\ \A e \in Triggers : Contains(r.list[c], e) <=> Contains(s.list[c], e) /\ e # t
           /\ s.dying \in AllCounters => r.list[s.dying] = s.list[s.dying]
           /\ Tells(r, s, {})
<1>1. CASE t \notin Live(s) \/ s.trigger[t].counter = s.dying
  <2>1. r = s BY <1>1 DEF Unlink
  <2>2. \A c \in AllCounters \ {s.dying} : ~Contains(s.list[c], t)
    <3> SUFFICES ASSUME NEW c \in AllCounters \ {s.dying}, Contains(s.list[c], t) PROVE FALSE
      OBVIOUS
    <3>1. s.list[c] \in Seq(Triggers) BY DEF States
    <3>2. t \in Triggers BY <3>1, OnlyListed
    <3> QED BY <1>1, <3>2 DEF Listed
  <2>3. Tells(r, s, {}) BY <2>1, TellsNothing
  <2> QED BY <2>1, <2>2, <2>3 DEF Rest
<1>2. CASE ~(t \notin Live(s) \/ s.trigger[t].counter = s.dying)
  <2>1. r = SyncDeleteTriggerFromCounter(s, t) BY <1>2 DEF Unlink
  <2>2. Unlinked(r, s, t) /\ Tells(r, s, {}) BY <1>2, <2>1, DeletesFromList DEF Retimed
  <2>3. ASSUME NEW c \in AllCounters \ {s.dying}
        PROVE  /\ r.list[c] \in {s.list[c], RemoveFirst(s.list[c], t)}
               /\ \A e \in Triggers : Contains(r.list[c], e) <=> Contains(s.list[c], e) /\ e # t
    <3>1. r.list[c] \in {s.list[c], RemoveFirst(s.list[c], t)} BY <2>2 DEF Unlinked
    <3>2. \A e \in Triggers :
             Contains(r.list[c], e) <=> Contains(s.list[c], e) /\ (e = t => c # s.trigger[t].counter)
      BY <2>2, WhatIsUnlinked
    <3>3. t \in Triggers /\ Contains(s.list[c], t) => s.trigger[t].counter = c BY DEF Listed
    <3> QED BY <3>1, <3>2, <3>3
  <2>4. s.dying \in AllCounters => r.list[s.dying] = s.list[s.dying] BY <1>2, <2>2 DEF Unlinked
  <2> QED BY <2>2, <2>3, <2>4 DEF Unlinked
<1> QED BY <1>1, <1>2

(* What forgetting triggers that are on no list leaves.                     *)
LEMMA Forgets ==
    ASSUME NEW s \in States, Listed(s), NEW T,
           \A c \in AllCounters \ {s.dying} : \A e \in Triggers : Contains(s.list[c], e) => e \notin T,
           NEW r, r = Forget(s, T)
    PROVE  /\ r \in States /\ Listed(r)
           /\ r.value = s.value /\ r.list = s.list /\ r.dying = s.dying /\ r.gone = s.gone
           /\ r.notified = s.notified /\ r.refused = s.refused /\ r.fate = s.fate
           /\ r.bracket = s.bracket /\ r.timer = s.timer
           /\ Live(r) = Live(s) \ T
           /\ \A t \in Live(r) : r.trigger[t] = s.trigger[t]
<1> DEFINE g == [t \in Live(s) \ T |-> s.trigger[t]]
<1>1. r = [s EXCEPT !.trigger = g] BY DEF Forget, Live
<1>2. Live(s) \ T \in SUBSET Triggers /\ g \in [Live(s) \ T -> TriggerType] BY TheTable
<1>3. g \in UNION { [D -> TriggerType] : D \in SUBSET Triggers } BY <1>2
<1>4. DOMAIN g = Live(s) \ T /\ \A t \in Live(s) \ T : g[t] = s.trigger[t] OBVIOUS
<1> HIDE DEF g
<1>5. r \in States BY <1>1, <1>3 DEF States
<1>6. /\ r.value = s.value /\ r.list = s.list /\ r.dying = s.dying /\ r.gone = s.gone
      /\ r.notified = s.notified /\ r.refused = s.refused /\ r.fate = s.fate
      /\ r.bracket = s.bracket /\ r.timer = s.timer /\ r.trigger = g
  BY <1>1 DEF States
<1>7. Live(r) = Live(s) \ T BY <1>4, <1>6 DEF Live
<1>8. Listed(r) BY <1>4, <1>6, <1>7 DEF Listed
<1> QED BY <1>4, <1>5, <1>6, <1>7, <1>8

(* The client's Await is gone, from the lists as well.                      *)
AwaitFreed(r, s, cl) ==
    /\ r \in States /\ Listed(r)
    /\ r.value = s.value /\ r.dying = s.dying /\ r.gone = s.gone
    /\ r.refused = s.refused /\ r.fate = s.fate
    /\ Live(r) = Live(s) \ Waits(s, cl)
    /\ \A t \in Live(r) : r.trigger[t] = s.trigger[t]
    /\ \A c \in AllCounters \ {s.dying} : \A e \in Triggers :
          Contains(r.list[c], e) <=> Contains(s.list[c], e) /\ e \notin Waits(s, cl)
    /\ s.dying \in AllCounters => r.list[s.dying] = s.list[s.dying]
    /\ Tells(r, s, {})

LEMMA FreesAwait ==
    ASSUME NEW s \in States, Listed(s), NEW cl \in Clients
    PROVE  AwaitFreed(FreeAwait(s, cl), s, cl) /\ FreeAwait(s, cl).notified = s.notified
<1> DEFINE u == Unlink(s, <<cl, 1>>)
           v == Unlink(u, <<cl, 2>>)
           W == Waits(s, cl)
           r == Forget(v, W)
<1>1. FreeAwait(s, cl) = r BY DEF FreeAwait
<1>2. /\ u \in States /\ Listed(u) /\ Rest(u, s)
      /\ \A c \in AllCounters \ {s.dying} : \A e \in Triggers :
            Contains(u.list[c], e) <=> Contains(s.list[c], e) /\ e # <<cl, 1>>
      /\ s.dying \in AllCounters => u.list[s.dying] = s.list[s.dying]
      /\ Tells(u, s, {})
  BY Unlinks
<1> HIDE DEF u
<1>3. /\ v \in States /\ Listed(v) /\ Rest(v, u)
      /\ \A c \in AllCounters \ {u.dying} : \A e \in Triggers :
            Contains(v.list[c], e) <=> Contains(u.list[c], e) /\ e # <<cl, 2>>
      /\ u.dying \in AllCounters => v.list[u.dying] = u.list[u.dying]
      /\ Tells(v, u, {})
  BY <1>2, Unlinks
<1> HIDE DEF v
<1>4. Rest(v, s) BY <1>2, <1>3 DEF Rest
<1>5. Live(v) = Live(s) /\ v.trigger = s.trigger /\ v.dying = s.dying /\ u.dying = s.dying
  BY <1>2, <1>4 DEF Rest, Live
<1>6. ASSUME NEW c \in AllCounters \ {s.dying}, NEW e \in Triggers
      PROVE  Contains(v.list[c], e) <=> Contains(s.list[c], e) /\ e \notin W
  <2>1. Contains(v.list[c], e) <=> Contains(s.list[c], e) /\ e # <<cl, 1>> /\ e # <<cl, 2>>
    BY <1>2, <1>3, <1>5
  <2>2. Contains(s.list[c], e) => e \in Live(s) BY DEF Listed
  <2>3. e \in Live(s) => (e \in W <=> e \in {<<cl, 1>>, <<cl, 2>>}) BY WaitsAre
  <2> QED BY <2>1, <2>2, <2>3
<1> HIDE DEF W
<1>7. \A c \in AllCounters \ {v.dying} : \A e \in Triggers : Contains(v.list[c], e) => e \notin W
  BY <1>5, <1>6
<1>8. /\ r \in States /\ Listed(r)
      /\ r.value = v.value /\ r.list = v.list /\ r.dying = v.dying /\ r.gone = v.gone
      /\ r.notified = v.notified /\ r.refused = v.refused /\ r.fate = v.fate
      /\ r.bracket = v.bracket /\ r.timer = v.timer /\ Live(r) = Live(v) \ W
      /\ \A t \in Live(r) : r.trigger[t] = v.trigger[t]
  BY <1>3, <1>7, Forgets
<1> HIDE DEF r
<1>9. s.dying \in AllCounters => r.list[s.dying] = s.list[s.dying] BY <1>2, <1>3, <1>5, <1>8
<1>10. Tells(r, v, {}) BY <1>8, TellsLive
<1>11. Tells(v, s, {}) BY <1>2, <1>3, TellsOn
<1>12. Tells(r, s, {}) BY <1>3, <1>10, <1>11, TellsOn
<1>13. AwaitFreed(r, s, cl) BY <1>4, <1>5, <1>6, <1>8, <1>9, <1>12 DEF AwaitFreed, Rest, W
<1> QED BY <1>1, <1>4, <1>8, <1>13 DEF Rest

LEMMA FiresAwait ==
    ASSUME NEW s \in States, Listed(s), NEW t \in Triggers \ Alarms, t[1] \notin s.gone
    PROVE  AwaitFreed(SyncAwaitTriggerFired(s, t), s, t[1])
<1> DEFINE cl == t[1]
           sent == { u \in Waits(s, cl) : Reported(s, u) }
           N == s.notified \cup sent
           u == [s EXCEPT !.notified = N]
<1>1. cl \in Clients BY DEF Triggers
<1>2. SyncAwaitTriggerFired(s, t) = FreeAwait(u, cl) BY DEF SyncAwaitTriggerFired, States
<1> HIDE DEF cl
<1>3. N \in SUBSET (Triggers \ Alarms)
  <2>1. sent \subseteq Triggers \ Alarms BY WaitsAre, TheTable
  <2> HIDE DEF sent
  <2> QED BY <2>1 DEF States
<1> HIDE DEF N
<1>4. u \in States BY <1>3 DEF States
<1>5. /\ u.value = s.value /\ u.list = s.list /\ u.trigger = s.trigger /\ u.dying = s.dying
      /\ u.gone = s.gone /\ u.refused = s.refused /\ u.fate = s.fate
  BY DEF States
<1> HIDE DEF u
<1>6. Live(u) = Live(s) /\ Waits(u, cl) = Waits(s, cl) BY <1>5 DEF Live, Waits
<1>7. Listed(u) BY <1>5, <1>6 DEF Listed
<1>8. AwaitFreed(FreeAwait(u, cl), u, cl) BY <1>1, <1>4, <1>7, FreesAwait
<1>9. Tells(u, s, {}) /\ Tells(FreeAwait(u, cl), u, {})
  <2>1. u.bracket = s.bracket /\ u.timer = s.timer BY DEF u, States
  <2> QED BY <1>5, <1>8, <2>1, TellsNothing DEF AwaitFreed
<1>10. Tells(FreeAwait(u, cl), s, {}) BY <1>4, <1>7, <1>9, TellsOn
<1>11. AwaitFreed(FreeAwait(u, cl), s, cl) BY <1>5, <1>6, <1>8, <1>10 DEF AwaitFreed
<1> QED BY <1>2, <1>11 DEF cl

(* A client that goes has no connection left to be attended to.            *)
LEMMA FiresGone ==
    ASSUME NEW s, NEW t, t[1] \in s.gone
    PROVE  SyncAwaitTriggerFired(s, t) = [s EXCEPT !.fate = "undefined"]
BY DEF SyncAwaitTriggerFired

(* The new test value of an alarm: TRUE no more, unless a sum overflows.    *)
Still(s, a, test) ==
    LET r == s.trigger[a]
    IN  Test(r.CheckTrigger, s.value[r.counter], s.value[r.counter], test)

LEMMA UpdatedIs ==
    ASSUME NEW s \in States, NEW a \in Live(s)
    PROVE  \E f : /\ IsRearm(f, s.trigger[a].delta, { x \in XSyncValue : Still(s, a, x) })
                  /\ Updated(s, a) = f[s.trigger[a].test_value]
<1> DEFINE r == s.trigger[a]
           v == s.value[r.counter]
           Pos == { x \in XSyncValue : Still(s, a, x) }
           Is(f) == f = [test \in XSyncValue |->
                           IF AddOverflows(test, r.delta) THEN [test |-> test, overflow |-> TRUE]
                           ELSE IF Test(r.CheckTrigger, v, v, ValueAdd(test, r.delta))
                                THEN f[ValueAdd(test, r.delta)]
                                ELSE [test |-> ValueAdd(test, r.delta), overflow |-> FALSE]]
           f == CHOOSE g : Is(g)
<1>1. r.delta \in XSyncValue BY OneOfStates DEF TriggerType
<1>2. Updated(s, a) = f[r.test_value] BY DEF Updated
<1>3. \A test \in XSyncValue :
         ValueAdd(test, r.delta) \in Pos <=> Test(r.CheckTrigger, v, v, ValueAdd(test, r.delta))
  BY <1>1, AddIsTyped DEF Still
<1> HIDE DEF Pos, r, v
<1>4. ASSUME NEW g PROVE Is(g) <=> IsRearm(g, r.delta, Pos) BY <1>3 DEF IsRearm
<1> HIDE DEF Is
<1>5. \E g : Is(g) BY <1>1, <1>4, RearmExists
<1>6. IsRearm(f, r.delta, Pos) BY <1>4, <1>5
<1> HIDE DEF f
<1> QED BY <1>2, <1>6 DEF r, Pos

LEMMA UpdatesAlarm ==
    ASSUME NEW s \in States, NEW a \in Live(s),
           ~IsZero(s.trigger[a].delta) \/ ~Still(s, a, s.trigger[a].test_value)
    PROVE  LET u == Updated(s, a)
           IN  /\ u.overflow \in BOOLEAN /\ u.test \in XSyncValue
               /\ ~u.overflow => ~Still(s, a, u.test)
<1> DEFINE r == s.trigger[a]
           Pos == { x \in XSyncValue : Still(s, a, x) }
<1>1. r.delta \in XSyncValue /\ r.test_value \in XSyncValue BY OneOfStates DEF TriggerType
<1>2. PICK f : IsRearm(f, r.delta, Pos) /\ Updated(s, a) = f[r.test_value] BY UpdatedIs
<1>3. \A x \in XSyncValue : x \in Pos <=> Still(s, a, x) OBVIOUS
<1> DEFINE u == f[r.test_value]
<1> HIDE DEF Pos
<1>4. u.overflow \in BOOLEAN /\ u.test \in XSyncValue /\ (~u.overflow => u.test \notin Pos)
  BY <1>1, <1>2, <1>3, RearmEnds
<1> HIDE DEF u
<1> QED BY <1>2, <1>3, <1>4 DEF u

(* An assignment to an alarm's state or test value.                         *)
AlarmChanged(r, s, a, st, test) ==
    /\ r \in States /\ Listed(r)
    /\ r.value = s.value /\ r.list = s.list /\ r.dying = s.dying /\ r.gone = s.gone
    /\ r.notified = s.notified /\ r.refused = s.refused
    /\ r.bracket = s.bracket /\ r.timer = s.timer
    /\ Live(r) = Live(s) /\ \A t \in Live(s) \ {a} : r.trigger[t] = s.trigger[t]
    /\ r.trigger[a] = [s.trigger[a] EXCEPT !.state = st, !.test_value = test]

AlarmSet(r, s, a, st, test, fate) ==
    r = [s EXCEPT !.trigger[a] = [@ EXCEPT !.state = st, !.test_value = test], !.fate = fate]

LEMMA ChangesAlarm ==
    ASSUME NEW s \in States, Listed(s), NEW a \in Live(s),
           NEW st \in {"Active", "Inactive"}, NEW test \in XSyncValue,
           NEW fate \in {"running", "looping"}, NEW r, AlarmSet(r, s, a, st, test, fate)
    PROVE  AlarmChanged(r, s, a, st, test) /\ r.fate = fate
<1> DEFINE x == [s.trigger[a] EXCEPT !.state = st, !.test_value = test]
           g == [s.trigger EXCEPT ![a] = x]
<1>1. x \in TriggerType /\ x.counter = s.trigger[a].counter BY OneOfStates DEF TriggerType
<1>2. g \in [Live(s) -> TriggerType] /\ Live(s) \in SUBSET Triggers BY <1>1, TheTable
<1>3. g \in UNION { [D -> TriggerType] : D \in SUBSET Triggers } BY <1>2
<1>4. /\ DOMAIN g = Live(s) /\ g[a] = x /\ \A t \in Live(s) \ {a} : g[t] = s.trigger[t]
  BY <1>2, TheTable
<1>5. r = [s EXCEPT !.trigger = g, !.fate = fate] BY DEF AlarmSet
<1> HIDE DEF g
<1>6. r \in States BY <1>3, <1>5 DEF States
<1>7. /\ r.value = s.value /\ r.list = s.list /\ r.dying = s.dying /\ r.gone = s.gone
      /\ r.notified = s.notified /\ r.refused = s.refused /\ r.fate = fate
      /\ r.bracket = s.bracket /\ r.timer = s.timer /\ r.trigger = g
  BY <1>5 DEF States
<1>8. Live(r) = Live(s) BY <1>4, <1>7 DEF Live
<1> HIDE DEF x
<1>9. Listed(r) BY <1>1, <1>4, <1>7, <1>8 DEF Listed
<1> QED BY <1>4, <1>6, <1>7, <1>8, <1>9 DEF AlarmChanged, x

LEMMA AlarmTells ==
    ASSUME NEW s \in States, NEW a \in Live(s) \cap Alarms, NEW st, NEW test,
           NEW r, AlarmChanged(r, s, a, st, test)
    PROVE  Tells(r, s, {})
<1>1. r.trigger[a].test_type = s.trigger[a].test_type BY OneOfStates DEF AlarmChanged, TriggerType
<1>2. ASSUME NEW t \in Triggers, OnTimer(s, t)
      PROVE  /\ r.trigger[t].test_type = s.trigger[t].test_type
             /\ t \notin Alarms => r.trigger[t].test_value = s.trigger[t].test_value
  <2>1. SERVERTIME \in AllCounters \ {r.dying} BY SyncAssumption DEF AllCounters, AlarmChanged, States
  <2>2. t \in Live(s) BY <1>2, <2>1 DEF OnTimer, AlarmChanged, Listed
  <2> QED BY <1>1, <2>2 DEF AlarmChanged
<1> QED BY <1>2 DEF Tells, TimeMoves, SameTimer, AlarmChanged

LEMMA FiresAlarm ==
    ASSUME NEW s \in States, Listed(s), s.fate = "running", NEW a \in Live(s)
    PROVE  LET r == SyncAlarmTriggerFired(s, a)
               q == s.trigger[a]
           IN  \E st \in {"Active", "Inactive"}, test \in XSyncValue :
                  /\ AlarmChanged(r, s, a, st, test)
                  /\ r.fate \in {"running", "looping"}
                  /\ r.fate = "running" /\ st = "Active" /\ q.counter # None => ~Still(s, a, test)
                  /\ r.fate # "running" => /\ q.counter # None /\ IsZero(q.delta) /\ ~OneShot(q)
                                           /\ Still(s, a, q.test_value)
<1> DEFINE r == SyncAlarmTriggerFired(s, a)
           q == s.trigger[a]
           Sets(st, test, fate) ==
               r = [s EXCEPT !.trigger[a] = [q EXCEPT !.state = st, !.test_value = test], !.fate = fate]
           Fits(st, test, fate) ==
               /\ fate = "running" /\ st = "Active" /\ q.counter # None => ~Still(s, a, test)
               /\ fate # "running" => /\ q.counter # None /\ IsZero(q.delta) /\ ~OneShot(q)
                                      /\ Still(s, a, q.test_value)
<1>1. q.state \in {"Active", "Inactive"} /\ q.test_value \in XSyncValue
  BY OneOfStates DEF TriggerType
<1>2. IsTrue(s, a) <=> q.counter = None \/ Still(s, a, q.test_value)
  BY DEF IsTrue, CheckTrigger, Still
<1>3. q \in TriggerType BY OneOfStates
<1>4. [s.trigger EXCEPT ![a] = q] = s.trigger BY TheTable
<1>5. ASSUME NEW x
      PROVE  [s EXCEPT !.trigger[a] = x] = [s EXCEPT !.trigger[a] = x, !.fate = "running"]
  BY DEF States
<1>6. /\ q = [q EXCEPT !.state = q.state, !.test_value = q.test_value]
      /\ [q EXCEPT !.state = "Inactive"] = [q EXCEPT !.state = "Inactive", !.test_value = q.test_value]
  <2> HIDE DEF q
  <2> QED BY <1>3 DEF TriggerType
<1>7. ASSUME NEW v
      PROVE  [q EXCEPT !.test_value = v] = [q EXCEPT !.state = q.state, !.test_value = v]
  <2> HIDE DEF q
  <2> QED BY <1>3 DEF TriggerType
<1>8. s = [s EXCEPT !.trigger[a] = q, !.fate = "running"] BY <1>4 DEF States
<1>9. [s EXCEPT !.fate = "looping"] = [s EXCEPT !.trigger[a] = q, !.fate = "looping"]
  BY <1>4 DEF States
<1>10. \E st \in {"Active", "Inactive"}, test \in XSyncValue, fate \in {"running", "looping"} :
         Sets(st, test, fate) /\ Fits(st, test, fate)
  <2>1. CASE q.state # "Active"
    <3>1. r = s BY <2>1 DEF SyncAlarmTriggerFired
    <3> HIDE DEF r, q
    <3>2. Sets(q.state, q.test_value, "running") BY <1>6, <1>8, <3>1
    <3> QED BY <1>1, <2>1, <3>2
  <2>2. CASE q.state = "Active" /\ (q.counter = None \/ OneShot(q))
    <3>1. r = [s EXCEPT !.trigger[a] = [q EXCEPT !.state = "Inactive"]]
      BY <2>2 DEF SyncAlarmTriggerFired
    <3> HIDE DEF r, q
    <3>2. Sets("Inactive", q.test_value, "running") BY <1>5, <1>6, <3>1
    <3> QED BY <1>1, <3>2
  <2>3. CASE /\ q.state = "Active" /\ ~(q.counter = None \/ OneShot(q))
             /\ IsZero(q.delta) /\ IsTrue(s, a)
    <3>1. r = [s EXCEPT !.fate = "looping"] BY <2>3 DEF SyncAlarmTriggerFired
    <3> HIDE DEF r, q
    <3>2. Sets(q.state, q.test_value, "looping") BY <1>6, <1>9, <3>1
    <3> QED BY <1>1, <1>2, <2>3, <3>2
  <2>4. CASE /\ q.state = "Active" /\ ~(q.counter = None \/ OneShot(q))
             /\ ~(IsZero(q.delta) /\ IsTrue(s, a))
    <3> DEFINE u == Updated(s, a)
    <3>1. /\ u.overflow \in BOOLEAN /\ u.test \in XSyncValue
          /\ ~u.overflow => ~Still(s, a, u.test)
      BY <1>2, <2>4, UpdatesAlarm
    <3>2. r = Rearmed(s, a, u) BY <2>4 DEF SyncAlarmTriggerFired
    <3> HIDE DEF u
    <3>3. CASE u.overflow
      <4>1. r = [s EXCEPT !.trigger[a] = [q EXCEPT !.state = "Inactive"]] BY <3>2, <3>3 DEF Rearmed
      <4> HIDE DEF r, q
      <4>2. Sets("Inactive", q.test_value, "running") BY <1>5, <1>6, <4>1
      <4> QED BY <1>1, <4>2
    <3>4. CASE ~u.overflow
      <4>1. r = [s EXCEPT !.trigger[a] = [q EXCEPT !.test_value = u.test]] BY <3>2, <3>4 DEF Rearmed
      <4> HIDE DEF r, q
      <4>2. Sets(q.state, u.test, "running") BY <1>5, <1>7, <4>1
      <4> QED BY <1>1, <3>1, <3>4, <4>2
    <3> QED BY <3>3, <3>4
  <2> QED BY <2>1, <2>2, <2>3, <2>4
<1>11. PICK st \in {"Active", "Inactive"}, test \in XSyncValue, fate \in {"running", "looping"} :
         Sets(st, test, fate) /\ Fits(st, test, fate)
  BY <1>10
<1>12. AlarmChanged(r, s, a, st, test) /\ r.fate = fate
  <2>1. AlarmSet(r, s, a, st, test, fate) BY <1>11 DEF AlarmSet
  <2> HIDE DEF r
  <2> QED BY <2>1, ChangesAlarm
<1> HIDE DEF r, q
<1> QED BY <1>11, <1>12 DEF q, r

-----------------------------------------------------------------------------
(* What holds between the handlers' steps.                                  *)

(* A counter that a trigger points to exists, unless it was freed.          *)
Points(s) ==
    \A t \in Live(s) : s.trigger[t].counter \in AllCounters => Exists(s, s.trigger[t].counter)

(* A trigger outside of X is checked with its own test and is on its        *)
(* counter's list, if the counter is not being destroyed.                   *)
Kept(s, X) ==
    \A t \in Live(s) \ X :
        LET r == s.trigger[t]
        IN  /\ r.test_type = r.CheckTrigger /\ r.counter # Freed
            /\ r.counter \in AllCounters \ {s.dying} => Contains(s.list[r.counter], t)

(* No request has two conditions on one counter, and so no Await has.       *)
AllApart == \A conds \in WaitLists : IsInjective([i \in DOMAIN conds |-> conds[i].counter])
Apart(s) ==
    AllApart => \A t, u \in Live(s) \ Alarms :
                   t # u /\ t[1] = u[1] => s.trigger[t].counter # s.trigger[u].counter

(* A client that goes is still in an Await on a counter that is freed.      *)
Stranded(s) ==
    \E t \in Live(s) \ Alarms :
        /\ t[1] \in s.gone
        /\ s.trigger[t].counter = Freed \/ (s.trigger[t].counter = s.dying /\ s.dying # None)

Core(s) ==
    /\ s \in States /\ Listed(s) /\ s.refused \subseteq Live(s) /\ Points(s)
    /\ IF s.fate = "running" THEN Kept(s, s.refused) /\ Apart(s)
       ELSE s.refused # {} \/ ~AllApart \/ Stranded(s)

(* A comparison with a client's counter that waits is FALSE.                *)
QuietAt(s, t) ==
    LET r == s.trigger[t]
    IN  /\ r.counter \in Counters /\ r.CheckTrigger \in Comparisons
        /\ t \in Alarms => t \notin s.refused /\ r.state = "Active"
        => ~Still(s, t, r.test_value)
Quiet(s) == \A t \in Live(s) : QuietAt(s, t)

(* An assignment to fate.                                                   *)
LEMMA FateOnly ==
    ASSUME NEW s \in States, NEW f \in {"running", "looping", "undefined"}, NEW r, r = [s EXCEPT !.fate = f]
    PROVE  /\ r \in States /\ (Listed(s) => Listed(r)) /\ (Points(s) => Points(r))
           /\ r.value = s.value /\ r.list = s.list /\ r.trigger = s.trigger /\ r.dying = s.dying
           /\ r.gone = s.gone /\ r.refused = s.refused /\ r.fate = f /\ Live(r) = Live(s)
<1>1. /\ r \in States
      /\ r.value = s.value /\ r.list = s.list /\ r.trigger = s.trigger /\ r.dying = s.dying
      /\ r.gone = s.gone /\ r.refused = s.refused /\ r.fate = f
  BY DEF States
<1>2. Live(r) = Live(s) BY <1>1 DEF Live
<1> QED BY <1>1, <1>2 DEF Listed, Points, Exists

LEMMA QuietStays ==
    ASSUME NEW s, NEW r, NEW t, QuietAt(s, t), r.trigger[t] = s.trigger[t], r.refused = s.refused,
           s.trigger[t].counter \in Counters =>
               r.value[s.trigger[t].counter] = s.value[s.trigger[t].counter]
    PROVE  QuietAt(r, t)
BY DEF QuietAt, Still

LEMMA FreedAwaitKeepsCore ==
    ASSUME NEW s, Core(s), s.fate = "running", NEW cl, NEW r, AwaitFreed(r, s, cl)
    PROVE  Core(r) /\ (Quiet(s) => Quiet(r))
<1>1. r \in States /\ Listed(r) BY DEF AwaitFreed
<1>2. Waits(s, cl) \subseteq Live(s) \ Alarms BY WaitsAre DEF Core
<1>3. r.refused \subseteq Live(r)
  <2>1. s.refused \subseteq Alarms BY DEF Core, States
  <2> QED BY <1>2, <2>1 DEF Core, AwaitFreed
<1>4. \A t \in Live(r) : t \in Live(s) /\ t \notin Waits(s, cl) /\ r.trigger[t] = s.trigger[t]
  BY DEF AwaitFreed
<1>5. Points(r) BY <1>4 DEF Core, Points, AwaitFreed, Exists
<1>6. Kept(r, r.refused) /\ Apart(r)
  <2>1. Kept(s, s.refused) /\ Apart(s) BY DEF Core
  <2>2. Kept(r, r.refused)
    <3> SUFFICES ASSUME NEW t \in Live(r) \ r.refused
                 PROVE  LET q == r.trigger[t]
                        IN  /\ q.test_type = q.CheckTrigger /\ q.counter # Freed
                            /\ q.counter \in AllCounters \ {r.dying} => Contains(r.list[q.counter], t)
      BY DEF Kept
    <3>1. t \in Triggers BY <1>4, TheTable DEF Core
    <3>2. t \in Live(s) \ s.refused /\ t \notin Waits(s, cl) /\ r.trigger[t] = s.trigger[t]
          /\ r.dying = s.dying
      BY <1>4 DEF AwaitFreed
    <3> QED BY <2>1, <3>1, <3>2 DEF Kept, AwaitFreed
  <2>3. Apart(r) BY <1>4, <2>1 DEF Apart
  <2> QED BY <2>2, <2>3
<1>7. r.fate = s.fate /\ r.refused = s.refused /\ r.value = s.value BY DEF AwaitFreed
<1>8. Core(r) BY <1>1, <1>3, <1>5, <1>6, <1>7 DEF Core
<1>9. ASSUME Quiet(s) PROVE Quiet(r)
  <2> SUFFICES ASSUME NEW t \in Live(r) PROVE QuietAt(r, t) BY DEF Quiet
  <2>1. QuietAt(s, t) /\ r.trigger[t] = s.trigger[t] BY <1>4, <1>9 DEF Quiet
  <2> QED BY <1>7, <2>1, QuietStays
<1> QED BY <1>8, <1>9

(* A transition is never TRUE of a value that does not change.              *)
LEMMA TransitionsStandStill ==
    ASSUME NEW type \in {"PositiveTransition", "NegativeTransition"},
           NEW v \in XSyncValue, NEW test \in XSyncValue
    PROVE  ~Test(type, v, v, test)
<1>1. v.hi \in Int /\ v.lo \in Int /\ test.hi \in Int /\ test.lo \in Int
  BY WordIsPositive DEF XSyncValue
<1>2. ~(LessThan(v, test) /\ GreaterOrEqual(v, test)) BY <1>1 DEF LessThan, GreaterOrEqual
<1>3. ~(GreaterThan(v, test) /\ LessOrEqual(v, test)) BY <1>1 DEF GreaterThan, LessOrEqual
<1>4. CASE type = "PositiveTransition" BY <1>2, <1>4 DEF Test
<1>5. CASE type = "NegativeTransition" BY <1>3, <1>5 DEF Test
<1> QED BY <1>4, <1>5

LEMMA FiredAlarmKeepsCore ==
    ASSUME NEW s, Core(s), s.fate = "running", NEW a \in Live(s) \cap Alarms
    PROVE  LET r == SyncAlarmTriggerFired(s, a)
               q == s.trigger[a]
           IN  /\ Core(r) /\ r.fate \in {"running", "looping"}
               /\ \E st \in {"Active", "Inactive"}, test \in XSyncValue : AlarmChanged(r, s, a, st, test)
               /\ r.fate = "running" => QuietAt(r, a)
               /\ \A t \in Live(r) \ {a} : QuietAt(s, t) => QuietAt(r, t)
<1> DEFINE r == SyncAlarmTriggerFired(s, a)
           q == s.trigger[a]
<1>1. s \in States /\ Listed(s) /\ q \in TriggerType BY OneOfStates DEF Core
<1>2. PICK st \in {"Active", "Inactive"}, test \in XSyncValue :
         /\ AlarmChanged(r, s, a, st, test)
         /\ r.fate \in {"running", "looping"}
         /\ r.fate = "running" /\ st = "Active" /\ q.counter # None => ~Still(s, a, test)
         /\ r.fate # "running" => /\ q.counter # None /\ IsZero(q.delta) /\ ~OneShot(q)
                                  /\ Still(s, a, q.test_value)
  BY <1>1, FiresAlarm
<1> HIDE DEF r
<1>3. /\ r.trigger[a].counter = q.counter /\ r.trigger[a].test_type = q.test_type
      /\ r.trigger[a].CheckTrigger = q.CheckTrigger /\ r.trigger[a].state = st
      /\ r.trigger[a].test_value = test
  BY <1>1, <1>2 DEF AlarmChanged, TriggerType
<1>4. /\ r \in States /\ Listed(r) /\ Live(r) = Live(s) /\ r.value = s.value /\ r.list = s.list
      /\ r.refused = s.refused /\ r.dying = s.dying
      /\ \A t \in Live(s) \ {a} : r.trigger[t] = s.trigger[t]
  BY <1>2 DEF AlarmChanged
<1> HIDE DEF q
<1>5. \A t \in Live(s) : /\ r.trigger[t].counter = s.trigger[t].counter
                         /\ r.trigger[t].test_type = s.trigger[t].test_type
                         /\ r.trigger[t].CheckTrigger = s.trigger[t].CheckTrigger
  BY <1>3, <1>4 DEF q
<1>6. r.refused \subseteq Live(r) /\ Points(r) BY <1>4, <1>5 DEF Core, Points, Exists
<1>7. Kept(s, s.refused) /\ Apart(s) BY DEF Core
<1>8. Kept(r, r.refused) BY <1>4, <1>5, <1>7 DEF Kept
<1>9. Apart(r) BY <1>4, <1>5, <1>7 DEF Apart
<1>10. ASSUME r.fate # "running" PROVE r.refused # {}
  <2> SUFFICES ASSUME a \notin s.refused PROVE FALSE BY <1>4
  <2>1. q.test_type = q.CheckTrigger /\ q.counter # Freed BY <1>7 DEF Kept, q
  <2>2. q.counter # None /\ ~OneShot(q) /\ IsZero(q.delta) /\ Still(s, a, q.test_value)
    BY <1>2, <1>10
  <2>3. q.counter \in AllCounters /\ q.CheckTrigger \in TestTypes /\ q.test_value \in XSyncValue
    BY <1>1, <2>1, <2>2 DEF TriggerType
  <2>4. s.value[q.counter] \in XSyncValue
    BY <1>1, <2>3 DEF Core, Points, Exists, States, q
  <2>5. q.CheckTrigger \in {"PositiveTransition", "NegativeTransition"}
    BY <2>1, <2>2, <2>3 DEF OneShot, TestTypes, Comparisons
  <2>6. ~Still(s, a, q.test_value) BY <2>3, <2>4, <2>5, TransitionsStandStill DEF Still, q
  <2> QED BY <2>2, <2>6
<1>11. Core(r) BY <1>4, <1>6, <1>8, <1>9, <1>10 DEF Core
<1>12. ASSUME r.fate = "running" PROVE QuietAt(r, a)
  <2>1. None \notin Counters BY SyncAssumption
  <2>2. q.counter \in Counters /\ r.trigger[a].state = "Active" => ~Still(s, a, test)
    BY <1>2, <1>3, <1>12, <2>1
  <2>3. Still(r, a, test) <=> Still(s, a, test) BY <1>3, <1>4 DEF Still, q
  <2> QED BY <1>3, <2>2, <2>3 DEF QuietAt
<1>13. \A t \in Live(r) \ {a} : QuietAt(s, t) => QuietAt(r, t)
  BY <1>4, QuietStays
<1> QED BY <1>2, <1>11, <1>12, <1>13 DEF r

-----------------------------------------------------------------------------
(* SyncChangeCounter's walk of a counter's list.                            *)
WalkType ==
    { w \in [s : States, next : Triggers \cup {None}] : Listed(w.s) /\ w.s.dying = None /\ w.s.gone = {} }

LEMMA WalkedTyped ==
    ASSUME NEW w \in WalkType, NEW c \in AllCounters, NEW old, NEW t \in Triggers
    PROVE  Walked(w, c, old, t) \in WalkType
<1>1. /\ w.s \in States /\ Listed(w.s) /\ w.s.dying = None /\ w.s.gone = {} /\ w.next \in Triggers \cup {None}
      /\ w \in [s : States, next : Triggers \cup {None}]
  BY DEF WalkType
<1>2. CASE w.s.fate # "running" \/ t # w.next
  BY <1>2 DEF Walked
<1>3. CASE ~(w.s.fate # "running" \/ t # w.next) /\ ~Contains(w.s.list[c], t)
  <2>1. Walked(w, c, old, t) = [w EXCEPT !.s = [w.s EXCEPT !.fate = "undefined"]]
    BY <1>3 DEF Walked
  <2> DEFINE u == [w.s EXCEPT !.fate = "undefined"]
  <2>2. u \in States /\ u.list = w.s.list /\ u.trigger = w.s.trigger /\ u.dying = w.s.dying
        /\ u.gone = w.s.gone
    BY <1>1 DEF States
  <2> HIDE DEF u
  <2>3. Listed(u) BY <1>1, <2>2 DEF Listed, Live
  <2>4. [w EXCEPT !.s = u] \in WalkType BY <1>1, <2>2, <2>3 DEF WalkType
  <2> QED BY <2>1, <2>4 DEF u
<1>4. CASE w.s.fate = "running" /\ t = w.next /\ Contains(w.s.list[c], t)
  <2> DEFINE R == w.s.list[c]
             r == IF CheckTrigger(w.s, t, old) THEN TriggerFired(w.s, t) ELSE w.s
  <2>1. Walked(w, c, old, t) = [next |-> After(R, t), s |-> r] BY <1>4 DEF Walked
  <2>2. IsInjective(R) /\ R \in Seq(Triggers) /\ t \in Live(w.s)
    <3>1. None \notin AllCounters BY SyncAssumption DEF AllCounters
    <3> QED BY <1>1, <1>4, <3>1 DEF Listed, States
  <2>3. After(R, t) \in Triggers \cup {None}
    <3> HIDE DEF R
    <3>1. PICK k \in 1 .. Len(R) : R[k] = t BY <1>4 DEF Contains, R
    <3>2. After(R, t) = IF k = Len(R) THEN None ELSE R[k + 1] BY <2>2, <3>1, AfterIs
    <3>3. k # Len(R) => R[k + 1] \in Triggers BY <2>2
    <3> QED BY <3>2, <3>3
  <2>4. r \in States /\ Listed(r) /\ r.dying = None /\ r.gone = {}
    <3>1. CASE ~CheckTrigger(w.s, t, old) BY <1>1, <3>1
    <3>2. CASE CheckTrigger(w.s, t, old) /\ t \in Alarms
      <4>1. r = SyncAlarmTriggerFired(w.s, t) BY <3>2 DEF TriggerFired
      <4>2. \E st \in {"Active", "Inactive"}, test \in XSyncValue : AlarmChanged(r, w.s, t, st, test)
        BY <1>1, <1>4, <2>2, <4>1, FiresAlarm
      <4> QED BY <1>1, <4>2 DEF AlarmChanged
    <3>3. CASE CheckTrigger(w.s, t, old) /\ t \notin Alarms
      <4>1. r = SyncAwaitTriggerFired(w.s, t) BY <3>3 DEF TriggerFired
      <4>2. AwaitFreed(r, w.s, t[1]) BY <1>1, <3>3, <4>1, FiresAwait
      <4> QED BY <1>1, <4>2 DEF AwaitFreed
    <3> QED BY <3>1, <3>2, <3>3
  <2> HIDE DEF r, R
  <2> QED BY <2>1, <2>3, <2>4 DEF WalkType
<1> QED BY <1>2, <1>3, <1>4

FirstWalk(s, c, newval) == [s |-> [s EXCEPT !.value[c] = newval],
                            next |-> IF s.list[c] = <<>> THEN None ELSE Head(s.list[c])]

LEMMA FirstWalkTyped ==
    ASSUME NEW s \in States, Listed(s), s.dying = None, s.gone = {},
           NEW c \in AllCounters, NEW newval \in XSyncValue
    PROVE  LET w == FirstWalk(s, c, newval)
           IN  /\ w \in WalkType
               /\ w.s.value = [s.value EXCEPT ![c] = newval]
               /\ w.s.list = s.list /\ w.s.trigger = s.trigger /\ w.s.dying = s.dying
               /\ w.s.gone = s.gone /\ w.s.refused = s.refused /\ w.s.fate = s.fate
               /\ w.s.bracket = s.bracket /\ w.s.timer = s.timer
               /\ w.next = IF s.list[c] = <<>> THEN None ELSE s.list[c][1]
<1> DEFINE v == [s.value EXCEPT ![c] = newval]
           u == [s EXCEPT !.value = v]
           next == IF s.list[c] = <<>> THEN None ELSE s.list[c][1]
<1>1. v \in [AllCounters -> XSyncValue \cup {None}] BY DEF States
<1> HIDE DEF v
<1>2. /\ u \in States /\ u.value = v /\ u.list = s.list /\ u.trigger = s.trigger
      /\ u.dying = s.dying /\ u.gone = s.gone /\ u.refused = s.refused /\ u.fate = s.fate
      /\ u.bracket = s.bracket /\ u.timer = s.timer
  BY <1>1 DEF States
<1>3. s.list[c] \in Seq(Triggers) BY DEF States
<1>4. next \in Triggers \cup {None} /\ (s.list[c] # <<>> => Head(s.list[c]) = s.list[c][1])
  BY <1>3
<1>5. FirstWalk(s, c, newval) = [s |-> u, next |-> next] BY <1>4 DEF FirstWalk, v
<1> HIDE DEF u, next
<1>6. Listed(u) BY <1>2 DEF Listed, Live
<1>7. [s |-> u, next |-> next] \in WalkType BY <1>2, <1>4, <1>6 DEF WalkType
<1> QED BY <1>2, <1>5, <1>7 DEF next, v

LEMMA CounterWalk ==
    ASSUME NEW s \in States, Listed(s), s.dying = None, s.gone = {},
           NEW c \in AllCounters, NEW newval \in XSyncValue
    PROVE  LET L == s.list[c]
           IN  \E w \in [0 .. Len(L) -> WalkType] :
                  /\ w[0] = FirstWalk(s, c, newval)
                  /\ \A i \in 1 .. Len(L) : w[i - 1] \in WalkType /\ w[i] = Walked(w[i - 1], c, s.value[c], L[i])
                  /\ SyncChangeCounter(s, c, newval) = Bracketed(w[Len(L)].s, c)
<1> DEFINE L == s.list[c]
           n == Len(L)
           old == s.value[c]
           first == FirstWalk(s, c, newval)
           f == [p \in WalkType \X (1 .. n) |-> Walked(p[1], c, old, L[p[2]])]
           Is(h) == h = [I \in SUBSET (1 .. n) |->
                           IF I = {} THEN first ELSE Walked(h[I \ {Max(I)}], c, old, L[Max(I)])]
           h == CHOOSE i : Is(i)
<1>1. L \in Seq(Triggers) /\ n \in Nat /\ DOMAIN L = 1 .. n BY DEF States
<1>2. first \in WalkType BY FirstWalkTyped
<1>3. f \in [WalkType \X (1 .. n) -> WalkType] BY <1>1, WalkedTyped
<1>4. PICK g \in [SUBSET (1 .. n) -> WalkType] : Steps(g, n, first, f)
  <2> HIDE DEF f, n, first
  <2> QED BY <1>1, <1>2, <1>3, FoldExists
<1>5. ASSUME NEW I \in SUBSET (1 .. n), I # {}
      PROVE  Max(I) \in 1 .. n /\ I \ {Max(I)} \in SUBSET (1 .. n)
  BY <1>1, <1>5, LastOf
<1>6. \A I \in SUBSET (1 .. n) : g[I] = IF I = {} THEN first
                                       ELSE Walked(g[I \ {Max(I)}], c, old, L[Max(I)])
  <2> HIDE DEF n, first
  <2> QED BY <1>4, <1>5 DEF Steps
<1>7. Is(g)
  <2> HIDE DEF first, n
  <2> QED BY <1>6
<1>8. Is(h)
  <2> HIDE DEF Is
  <2> QED BY <1>7
<1>9. SyncChangeCounter(s, c, newval) = Bracketed(h[1 .. n].s, c)
  BY <1>1 DEF SyncChangeCounter, FoldLeft, MapThenFoldSet, FirstWalk
<1>10. Follows(h, WalkType, n, first, f)
  <2> HIDE DEF h, first, n, L
  <2>1. \A I \in SUBSET (1 .. n) :
           /\ I = {} => h[I] = first
           /\ I # {} /\ h[I \ {Max(I)}] \in WalkType => h[I] = f[<<h[I \ {Max(I)}], Max(I)>>]
    BY <1>5, <1>8
  <2> HIDE DEF f
  <2> QED BY <1>1, <1>2, <1>3, <2>1 DEF Follows
<1>11. PICK w : IsWalk(w, WalkType, n, first, f) /\ w[n] = h[1 .. n]
  <2> HIDE DEF f, n, first, h
  <2> QED BY <1>10, WalkOf
<1>12. \A i \in 1 .. n : w[i] = Walked(w[i - 1], c, old, L[i]) BY <1>11 DEF IsWalk
<1> HIDE DEF h
<1> QED BY <1>9, <1>11, <1>12 DEF IsWalk

(* What is left of a list is in the order the list had.                     *)
InOrder(R, L) ==
    \A m, p \in 1 .. Len(R), j, k \in 1 .. Len(L) : R[m] = L[j] /\ R[p] = L[k] /\ m < p => j < k

LEMMA StartsInOrder ==
    ASSUME NEW T, NEW L \in Seq(T), IsInjective(L)
    PROVE  InOrder(L, L)
<1> SUFFICES ASSUME NEW m \in 1 .. Len(L), NEW p \in 1 .. Len(L), NEW j \in 1 .. Len(L),
                    NEW k \in 1 .. Len(L), L[m] = L[j], L[p] = L[k], m < p
             PROVE  j < k
  BY DEF InOrder
<1>1. m = j /\ p = k BY SamePosition
<1> QED BY <1>1

LEMMA StaysInOrder ==
    ASSUME NEW T, NEW R \in Seq(T), IsInjective(R), NEW L \in Seq(T), InOrder(R, L), NEW e
    PROVE  InOrder(RemoveFirst(R, e), L)
<1>1. CASE ~Contains(R, e)
  <2>1. RemoveFirst(R, e) = R BY <1>1 DEF RemoveFirst, Contains
  <2> QED BY <2>1
<1>2. CASE Contains(R, e)
  <2>1. PICK i \in 1 .. Len(R) : R[i] = e BY <1>2 DEF Contains
  <2> DEFINE Q == RemoveFirst(R, e)
             pos(m) == IF m < i THEN m ELSE m + 1
  <2>2. Len(Q) = Len(R) - 1 /\ \A m \in 1 .. Len(R) - 1 : Q[m] = IF m < i THEN R[m] ELSE R[m + 1]
    BY <2>1, RemoveFirstIs
  <2> HIDE DEF Q
  <2>3. \A m \in 1 .. Len(Q) : pos(m) \in 1 .. Len(R) /\ Q[m] = R[pos(m)] BY <2>2
  <2>4. \A m, p \in 1 .. Len(Q) : m < p => pos(m) < pos(p) OBVIOUS
  <2> HIDE DEF pos
  <2>5. InOrder(Q, L)
    <3> SUFFICES ASSUME NEW m \in 1 .. Len(Q), NEW p \in 1 .. Len(Q), NEW j \in 1 .. Len(L),
                        NEW k \in 1 .. Len(L), Q[m] = L[j], Q[p] = L[k], m < p
                 PROVE  j < k
      BY DEF InOrder
    <3>1. R[pos(m)] = L[j] /\ R[pos(p)] = L[k] /\ pos(m) < pos(p) BY <2>3, <2>4
    <3> QED BY <2>3, <3>1 DEF InOrder
  <2> QED BY <2>5 DEF Q
<1> QED BY <1>1, <1>2

LEMMA AwaitKeepsOrder ==
    ASSUME NEW s \in States, Listed(s), NEW t \in Triggers \ Alarms, t[1] \notin s.gone,
           NEW c \in AllCounters \ {s.dying}, NEW L \in Seq(Triggers), InOrder(s.list[c], L)
    PROVE  InOrder(SyncAwaitTriggerFired(s, t).list[c], L)
<1> DEFINE cl == t[1]
           N == s.notified \cup { u \in Waits(s, cl) : Reported(s, u) }
           a == [s EXCEPT !.notified = N]
           u == Unlink(a, <<cl, 1>>)
           v == Unlink(u, <<cl, 2>>)
<1>1. SyncAwaitTriggerFired(s, t) = Forget(v, Waits(a, cl)) BY DEF SyncAwaitTriggerFired, FreeAwait, States
<1>2. N \in SUBSET (Triggers \ Alarms) BY WaitsAre, TheTable DEF States
<1> HIDE DEF N
<1>3. a \in States /\ a.list = s.list /\ a.trigger = s.trigger /\ a.dying = s.dying
  BY <1>2 DEF States
<1> HIDE DEF a
<1>4. Listed(a) BY <1>3 DEF Listed, Live
<1>5. u \in States /\ Listed(u) /\ u.dying = s.dying /\ u.list[c] \in {s.list[c], RemoveFirst(s.list[c], <<cl, 1>>)}
  BY <1>3, <1>4, Unlinks DEF Rest
<1> HIDE DEF u
<1>6. v \in States /\ Listed(v) /\ v.list[c] \in {u.list[c], RemoveFirst(u.list[c], <<cl, 2>>)}
  BY <1>5, Unlinks DEF Rest
<1> HIDE DEF v
<1>7. IsInjective(s.list[c]) /\ s.list[c] \in Seq(Triggers) BY DEF Listed, States
<1>8. IsInjective(u.list[c]) /\ u.list[c] \in Seq(Triggers) BY <1>5 DEF Listed, States
<1>9. InOrder(u.list[c], L) BY <1>5, <1>7, StaysInOrder
<1>10. InOrder(v.list[c], L) BY <1>6, <1>8, <1>9, StaysInOrder
<1>11. Forget(v, Waits(a, cl)).list = v.list BY <1>6 DEF Forget, States
<1> QED BY <1>1, <1>10, <1>11

(* The element after the i-th of a list, found in what is left of the list: *)
(* none of those between is left.                                           *)
NextFound(next, R, L, i) ==
    IF next = None THEN \A k \in 1 .. Len(L) : k > i => ~Contains(R, L[k])
    ELSE \E j \in 1 .. Len(L) : /\ j > i /\ L[j] = next
                                /\ \A k \in 1 .. Len(L) : k > i /\ k < j => ~Contains(R, L[k])

LEMMA FindsNext ==
    ASSUME NEW L \in Seq(Triggers), IsInjective(L), NEW R \in Seq(Triggers), IsInjective(R),
           InOrder(R, L), \A e \in Triggers : Contains(R, e) => Contains(L, e),
           NEW i \in 1 .. Len(L), Contains(R, L[i])
    PROVE  /\ NextFound(After(R, L[i]), R, L, i)
           /\ After(R, L[i]) # None => Contains(R, After(R, L[i])) /\ After(R, L[i]) # L[i]
<1>1. PICK p \in 1 .. Len(R) : R[p] = L[i] BY DEF Contains
<1>2. After(R, L[i]) = IF p = Len(R) THEN None ELSE R[p + 1] BY <1>1, AfterIs
<1>3. \A k \in 1 .. Len(L) : k > i => \A m \in 1 .. Len(R) : R[m] = L[k] => m > p
  <2> SUFFICES ASSUME NEW k \in 1 .. Len(L), k > i, NEW m \in 1 .. Len(R), R[m] = L[k] PROVE m > p
    OBVIOUS
  <2>1. m # p
    <3> SUFFICES ASSUME m = p PROVE FALSE OBVIOUS
    <3>1. L[i] = L[k] BY <1>1
    <3>2. i = k BY <3>1, SamePosition
    <3> QED BY <3>2
  <2>2. ~(m < p)
    <3> SUFFICES ASSUME m < p PROVE FALSE OBVIOUS
    <3>1. k < i BY <1>1 DEF InOrder
    <3> QED BY <3>1
  <2> QED BY <2>1, <2>2
<1>4. CASE p = Len(R)
  <2>1. After(R, L[i]) = None BY <1>2, <1>4
  <2>2. \A k \in 1 .. Len(L) : k > i => ~Contains(R, L[k]) BY <1>3, <1>4 DEF Contains
  <2> QED BY <2>1, <2>2 DEF NextFound
<1>5. CASE p # Len(R)
  <2>1. p + 1 \in 1 .. Len(R) /\ After(R, L[i]) = R[p + 1] /\ R[p + 1] \in Triggers BY <1>2, <1>5
  <2>2. R[p + 1] # None BY <2>1, SyncAssumption
  <2>3. Contains(R, R[p + 1]) BY <2>1 DEF Contains
  <2>4. PICK j \in 1 .. Len(L) : L[j] = R[p + 1] BY <2>1, <2>3 DEF Contains
  <2>5. j > i
    <3>1. p < p + 1 OBVIOUS
    <3> QED BY <1>1, <2>1, <2>4, <3>1 DEF InOrder
  <2>6. ASSUME NEW k \in 1 .. Len(L), k > i, k < j PROVE ~Contains(R, L[k])
    <3> SUFFICES ASSUME NEW m \in 1 .. Len(R), R[m] = L[k] PROVE FALSE BY DEF Contains
    <3>1. m > p BY <1>3, <2>6
    <3>2. ~(p + 1 < m)
      <4> SUFFICES ASSUME p + 1 < m PROVE FALSE OBVIOUS
      <4>1. j < k BY <2>1, <2>4 DEF InOrder
      <4> QED BY <2>6, <4>1
    <3>3. m = p + 1 BY <2>1, <3>1, <3>2
    <3>4. k = j BY <2>4, <3>3, SamePosition
    <3> QED BY <2>6, <3>4
  <2>7. R[p + 1] # L[i] BY <2>4, <2>5, SamePosition
  <2> QED BY <2>1, <2>2, <2>3, <2>4, <2>5, <2>6, <2>7 DEF NextFound
<1> QED BY <1>4, <1>5

LEMMA NextStays ==
    ASSUME NEW L \in Seq(Triggers), NEW R, NEW Q, NEW next, NEW i, NextFound(next, R, L, i),
           \A e \in Triggers : Contains(Q, e) => Contains(R, e)
    PROVE  NextFound(next, Q, L, i)
<1>1. \A k \in 1 .. Len(L) : L[k] \in Triggers OBVIOUS
<1>2. CASE next = None BY <1>1, <1>2 DEF NextFound
<1>3. CASE next # None
  <2>1. PICK j \in 1 .. Len(L) : /\ j > i /\ L[j] = next
                                 /\ \A k \in 1 .. Len(L) : k > i /\ k < j => ~Contains(R, L[k])
    BY <1>3 DEF NextFound
  <2> QED BY <1>1, <1>3, <2>1 DEF NextFound
<1> QED BY <1>2, <1>3

LEMMA NotNext ==
    ASSUME NEW L \in Seq(Triggers), NEW i \in Nat, i + 1 \in 1 .. Len(L), NEW R, NEW next,
           NextFound(next, R, L, i), L[i + 1] # next
    PROVE  NextFound(next, R, L, i + 1) /\ ~Contains(R, L[i + 1])
<1>1. \A k \in 1 .. Len(L) : k > i + 1 => k > i OBVIOUS
<1>2. CASE next = None
  <2>1. i + 1 > i OBVIOUS
  <2> QED BY <1>1, <1>2, <2>1 DEF NextFound
<1>3. CASE next # None
  <2>1. PICK j \in 1 .. Len(L) : /\ j > i /\ L[j] = next
                                 /\ \A k \in 1 .. Len(L) : k > i /\ k < j => ~Contains(R, L[k])
    BY <1>3 DEF NextFound
  <2>2. j > i + 1 BY <2>1
  <2>3. ~Contains(R, L[i + 1]) BY <2>1, <2>2
  <2>4. \A k \in 1 .. Len(L) : k > i + 1 /\ k < j => ~Contains(R, L[k]) BY <1>1, <2>1
  <2> QED BY <1>3, <2>1, <2>2, <2>3, <2>4 DEF NextFound
<1> QED BY <1>2, <1>3

(* Where the walk of the list of counter c is before its element i + 1: s   *)
(* is the state it started from.  What is still to come is quiet already or *)
(* on the rest of the list.                                                 *)
WalkKeeps(u, s, c, newval) ==
    /\ Core(u) /\ u.dying = None
    /\ u.value = [s.value EXCEPT ![c] = newval] /\ u.gone = s.gone /\ u.refused = s.refused
    /\ Live(u) \subseteq Live(s) /\ Live(s) \cap Alarms \subseteq Live(u)
    /\ \A t \in Live(u) : u.trigger[t].counter = s.trigger[t].counter

ToCome(t, L, i) == \E k \in 1 .. Len(L) : k > i /\ L[k] = t

WalkHere(w, L, c, i) ==
    /\ InOrder(w.s.list[c], L)
    /\ \A t \in Triggers : Contains(w.s.list[c], t) <=> Contains(L, t) /\ t \in Live(w.s)
    /\ NextFound(w.next, w.s.list[c], L, i)
    /\ AllApart /\ w.next # None => Contains(w.s.list[c], w.next)
    /\ \A t \in Live(w.s) : QuietAt(w.s, t) \/ ToCome(t, L, i)

WalkAt(w, s, c, newval, i) ==
    /\ w \in WalkType /\ WalkKeeps(w.s, s, c, newval)
    /\ w.s.fate = "running" => WalkHere(w, s.list[c], c, i)

LEMMA WalkStarts ==
    ASSUME NEW s, Core(s), s.dying = None, s.gone = {}, Quiet(s), s.fate = "running",
           NEW c \in AllCounters, NEW newval \in XSyncValue
    PROVE  WalkAt(FirstWalk(s, c, newval), s, c, newval, 0)
<1> DEFINE w == FirstWalk(s, c, newval)
           u == w.s
           L == s.list[c]
<1>1. s \in States /\ Listed(s) BY DEF Core
<1>2. /\ w \in WalkType
      /\ u.value = [s.value EXCEPT ![c] = newval]
      /\ u.list = s.list /\ u.trigger = s.trigger /\ u.dying = s.dying
      /\ u.gone = s.gone /\ u.refused = s.refused /\ u.fate = s.fate
      /\ w.next = IF L = <<>> THEN None ELSE L[1]
  BY <1>1, FirstWalkTyped
<1> HIDE DEF w
<1>3. u \in States /\ Listed(u) BY <1>2 DEF WalkType
<1>4. Live(u) = Live(s) BY <1>2 DEF Live
<1>5. None \notin XSyncValue /\ None \notin Triggers /\ None \notin AllCounters
  BY SyncAssumption DEF AllCounters
<1>6. \A d \in AllCounters : u.value[d] = IF d = c THEN newval ELSE s.value[d] BY <1>1, <1>2 DEF States
<1>7. Points(u) BY <1>2, <1>4, <1>5, <1>6 DEF Core, Points, Exists
<1>8. Kept(u, u.refused) BY <1>2, <1>4 DEF Core, Kept
<1>9. Apart(u) BY <1>2, <1>4 DEF Core, Apart
<1>10. Core(u) BY <1>2, <1>3, <1>4, <1>7, <1>8, <1>9 DEF Core
<1>11. WalkKeeps(u, s, c, newval) BY <1>2, <1>4, <1>10 DEF WalkKeeps
<1>12. L \in Seq(Triggers) /\ IsInjective(L) BY <1>1, <1>5 DEF States, Listed
<1>13. \A t \in Triggers : Contains(L, t) => t \in Live(s) /\ s.trigger[t].counter = c
  BY <1>1, <1>5 DEF Listed
<1>14. InOrder(L, L) BY <1>12, StartsInOrder
<1>15. NextFound(w.next, L, L, 0) /\ (w.next # None => Contains(L, w.next))
  <2>1. CASE L = <<>> BY <1>2, <2>1 DEF NextFound
  <2>2. CASE L # <<>>
    <3>1. 1 \in 1 .. Len(L) /\ L[1] \in Triggers /\ w.next = L[1] BY <1>2, <1>12, <2>2
    <3> QED BY <1>5, <3>1 DEF NextFound, Contains
  <2> QED BY <2>1, <2>2
<1>16. ASSUME NEW t \in Live(u) PROVE QuietAt(u, t) \/ ToCome(t, L, 0)
  <2>1. QuietAt(s, t) BY <1>4 DEF Quiet
  <2>2. CASE s.trigger[t].counter # c
    <3>1. s.trigger[t].counter \in Counters => u.value[s.trigger[t].counter] = s.value[s.trigger[t].counter]
      BY <1>6, <2>2 DEF AllCounters
    <3> QED BY <1>2, <2>1, <3>1, QuietStays
  <2>3. CASE s.trigger[t].counter = c /\ t \in s.refused
    <3>1. t \in Alarms BY <1>1, <2>3 DEF States
    <3> QED BY <1>2, <2>3, <3>1 DEF QuietAt
  <2>4. CASE s.trigger[t].counter = c /\ t \notin s.refused
    <3>1. Contains(L, t) BY <1>4, <1>5, <2>4 DEF Core, Kept
    <3>2. PICK k \in 1 .. Len(L) : L[k] = t BY <3>1 DEF Contains
    <3>3. k > 0 BY <1>12
    <3> QED BY <3>2, <3>3 DEF ToCome
  <2> QED BY <2>2, <2>3, <2>4
<1>17. WalkHere(w, L, c, 0)
  BY <1>2, <1>4, <1>13, <1>14, <1>15, <1>16 DEF WalkHere
<1>18. WalkAt(w, s, c, newval, 0) BY <1>2, <1>11, <1>17 DEF WalkAt
<1> QED BY <1>18 DEF w

(* The trigger the walk passes without firing.                              *)
LEMMA WalkPasses ==
    ASSUME NEW w, NEW s, NEW c \in AllCounters, Listed(s), s \in States, s.dying = None,
           NEW newval \in XSyncValue, NEW i \in Nat, i + 1 \in 1 .. Len(s.list[c]),
           WalkAt(w, s, c, newval, i), w.s.fate = "running", s.list[c][i + 1] # w.next
    PROVE  WalkAt(w, s, c, newval, i + 1)
<1> DEFINE L == s.list[c]
           R == w.s.list[c]
<1>1. WalkHere(w, L, c, i) /\ WalkKeeps(w.s, s, c, newval) BY DEF WalkAt
<1>2. None \notin AllCounters BY SyncAssumption DEF AllCounters
<1>3. L \in Seq(Triggers) /\ IsInjective(L) BY <1>2 DEF States, Listed
<1> HIDE DEF L, R
<1>4. i + 1 \in 1 .. Len(L) /\ L[i + 1] # w.next BY DEF L
<1>5. Len(L) \in Nat BY <1>3
<1>6. NextFound(w.next, R, L, i + 1) /\ ~Contains(R, L[i + 1])
  <2>1. NextFound(w.next, R, L, i) BY <1>1 DEF WalkHere, R
  <2> QED BY <1>3, <1>4, <2>1, NotNext
<1>7. L[i + 1] \in Triggers /\ Contains(L, L[i + 1]) BY <1>3, <1>4 DEF Contains
<1>8. L[i + 1] \notin Live(w.s) BY <1>1, <1>6, <1>7 DEF WalkHere, R
<1>9. ASSUME NEW t \in Live(w.s), ToCome(t, L, i) PROVE ToCome(t, L, i + 1)
  <2>1. PICK k \in 1 .. Len(L) : k > i /\ L[k] = t BY <1>9 DEF ToCome
  <2>2. k # i + 1 BY <1>8, <2>1
  <2>3. k > i + 1 BY <2>1, <2>2
  <2> QED BY <2>1, <2>3 DEF ToCome
<1>10. WalkHere(w, L, c, i + 1) BY <1>1, <1>6, <1>9 DEF WalkHere, R
<1> QED BY <1>10 DEF WalkAt, L

(* What a trigger that may fire leaves, for the rest of the walk.           *)
Leaves(r, u, t, c) ==
    /\ r \in States /\ Core(r) /\ r.dying = None /\ r.value = u.value /\ r.gone = u.gone
    /\ r.refused = u.refused
    /\ Live(r) \subseteq Live(u) /\ Live(u) \cap Alarms \subseteq Live(r)
    /\ \A e \in Live(r) : r.trigger[e].counter = u.trigger[e].counter
    /\ r.fate = "running" =>
          /\ \A e \in Triggers : Contains(r.list[c], e) <=> Contains(u.list[c], e) /\ e \in Live(r)
          /\ \A e \in Live(r) : QuietAt(u, e) \/ e = t => QuietAt(r, e)
          /\ AllApart => \A e \in Live(u) \ {t} : u.trigger[e].counter = c => e \in Live(r)

LEMMA NotYetTrue ==
    ASSUME NEW u, NEW t, ~CheckTrigger(u, t, u.value[u.trigger[t].counter])
           \/ \E old : u.trigger[t].CheckTrigger \in Comparisons /\ ~CheckTrigger(u, t, old)
    PROVE  QuietAt(u, t)
<1> DEFINE r == u.trigger[t]
           v == u.value[r.counter]
<1>1. r.CheckTrigger \in Comparisons =>
         \A old : Test(r.CheckTrigger, old, v, r.test_value) <=> Test(r.CheckTrigger, v, v, r.test_value)
  BY DEF Test, Comparisons
<1>2. r.CheckTrigger \in Comparisons => ~Test(r.CheckTrigger, v, v, r.test_value)
  BY <1>1 DEF CheckTrigger
<1> QED BY <1>2 DEF QuietAt, Still

LEMMA FiringLeaves ==
    ASSUME NEW u, Core(u), u.dying = None, u.gone = {}, u.fate = "running",
           NEW c \in AllCounters, NEW old, NEW t \in Triggers, Contains(u.list[c], t)
    PROVE  Leaves(IF CheckTrigger(u, t, old) THEN TriggerFired(u, t) ELSE u, u, t, c)
<1> SUFFICES ASSUME NEW r, r = IF CheckTrigger(u, t, old) THEN TriggerFired(u, t) ELSE u
             PROVE  Leaves(r, u, t, c)
  OBVIOUS
<1>1. u \in States /\ Listed(u) /\ None \notin AllCounters BY SyncAssumption DEF Core, AllCounters
<1>2. t \in Live(u) /\ u.trigger[t].counter = c BY <1>1 DEF Listed
<1>3. \A e \in Triggers : Contains(u.list[c], e) => e \in Live(u) BY <1>1 DEF Listed
<1>4. CASE ~CheckTrigger(u, t, old)
  <2>1. r = u BY <1>4
  <2>2. QuietAt(u, t)
    <3>1. CASE u.trigger[t].CheckTrigger \in Comparisons BY <1>4, <3>1, NotYetTrue
    <3>2. CASE u.trigger[t].CheckTrigger \notin Comparisons BY <3>2 DEF QuietAt
    <3> QED BY <3>1, <3>2
  <2> QED BY <1>1, <1>3, <2>1, <2>2 DEF Leaves
<1>5. CASE CheckTrigger(u, t, old) /\ t \in Alarms
  <2>1. r = SyncAlarmTriggerFired(u, t) BY <1>5 DEF TriggerFired
  <2>2. /\ Core(r)
        /\ \E st \in {"Active", "Inactive"}, test \in XSyncValue : AlarmChanged(r, u, t, st, test)
        /\ r.fate = "running" => QuietAt(r, t)
        /\ \A e \in Live(r) \ {t} : QuietAt(u, e) => QuietAt(r, e)
    BY <1>2, <1>5, <2>1, FiredAlarmKeepsCore
  <2>3. PICK st \in {"Active", "Inactive"}, test \in XSyncValue : AlarmChanged(r, u, t, st, test) BY <2>2
  <2>4. /\ r \in States /\ r.dying = None /\ r.value = u.value /\ r.gone = u.gone /\ r.refused = u.refused
        /\ r.list = u.list /\ Live(r) = Live(u)
        /\ \A e \in Live(r) \ {t} : r.trigger[e].counter = u.trigger[e].counter
    BY <2>3 DEF AlarmChanged
  <2>5. r.trigger[t].counter = u.trigger[t].counter
    <3>1. u.trigger[t] \in TriggerType BY <1>1, <1>2, OneOfStates
    <3> QED BY <2>3, <3>1 DEF AlarmChanged, TriggerType
  <2> QED BY <1>3, <2>2, <2>4, <2>5 DEF Leaves
<1>6. CASE CheckTrigger(u, t, old) /\ t \notin Alarms
  <2>1. r = SyncAwaitTriggerFired(u, t) BY <1>6 DEF TriggerFired
  <2> DEFINE cl == t[1]
  <2>2. AwaitFreed(r, u, cl) BY <1>1, <1>6, <2>1, FiresAwait
  <2>3. cl \in Clients BY <1>6 DEF Triggers
  <2>4. Waits(u, cl) \subseteq Live(u) \ Alarms /\ t \in Waits(u, cl) BY <1>1, <1>2, <1>6, WaitsAre DEF Waits
  <2>5. Core(r) BY <2>2, FreedAwaitKeepsCore
  <2>6. Live(r) = Live(u) \ Waits(u, cl) /\ \A e \in Live(r) : r.trigger[e] = u.trigger[e]
    BY <2>2 DEF AwaitFreed
  <2>7. r.value = u.value /\ r.refused = u.refused /\ r.gone = u.gone /\ r.dying = None /\ r \in States
    BY <2>2 DEF AwaitFreed
  <2>8. \A e \in Triggers : Contains(r.list[c], e) <=> Contains(u.list[c], e) /\ e \notin Waits(u, cl)
    BY <1>1, <2>2 DEF AwaitFreed
  <2>9. \A e \in Live(r) : QuietAt(u, e) \/ e = t => QuietAt(r, e)
    BY <2>4, <2>6, <2>7, QuietStays
  <2>10. ASSUME AllApart, NEW e \in Live(u) \ {t}, u.trigger[e].counter = c PROVE e \in Live(r)
    <3> SUFFICES ASSUME e \in Waits(u, cl) PROVE FALSE BY <2>6
    <3>1. e \in Live(u) \ Alarms /\ e[1] = t[1] BY DEF Waits
    <3>2. Apart(u) BY DEF Core
    <3> QED BY <1>2, <1>6, <2>10, <3>1, <3>2 DEF Apart
  <2> QED BY <1>3, <2>4, <2>5, <2>6, <2>7, <2>8, <2>9, <2>10 DEF Leaves
<1> QED BY <1>4, <1>5, <1>6

LEMMA FiringKeepsOrder ==
    ASSUME NEW u \in States, Listed(u), u.dying = None, u.gone = {}, u.fate = "running",
           NEW c \in AllCounters, NEW old, NEW t \in Live(u),
           NEW L \in Seq(Triggers), InOrder(u.list[c], L)
    PROVE  InOrder((IF CheckTrigger(u, t, old) THEN TriggerFired(u, t) ELSE u).list[c], L)
<1>1. t \in Triggers /\ c \in AllCounters \ {u.dying} BY TheTable, SyncAssumption DEF AllCounters
<1>2. CASE ~CheckTrigger(u, t, old) BY <1>2
<1>3. CASE CheckTrigger(u, t, old) /\ t \in Alarms
  <2> DEFINE r == SyncAlarmTriggerFired(u, t)
  <2>1. PICK st \in {"Active", "Inactive"}, test \in XSyncValue : AlarmChanged(r, u, t, st, test)
    BY FiresAlarm
  <2> HIDE DEF r
  <2>2. r.list = u.list BY <2>1 DEF AlarmChanged
  <2> QED BY <1>3, <2>2 DEF TriggerFired, r
<1>4. CASE CheckTrigger(u, t, old) /\ t \notin Alarms
  <2>1. InOrder(SyncAwaitTriggerFired(u, t).list[c], L) BY <1>1, <1>4, AwaitKeepsOrder
  <2> QED BY <1>4, <2>1 DEF TriggerFired
<1> QED BY <1>2, <1>3, <1>4

(* The trigger the walk has come to.                                        *)
LEMMA WalkFires ==
    ASSUME NEW w, NEW s, NEW c \in AllCounters, Listed(s), s \in States, s.dying = None,
           NEW newval \in XSyncValue, NEW i \in Nat, i + 1 \in 1 .. Len(s.list[c]),
           WalkAt(w, s, c, newval, i), w.s.fate = "running", s.list[c][i + 1] = w.next,
           Contains(w.s.list[c], w.next),
           NEW x, x = [next |-> After(w.s.list[c], w.next),
                       s |-> IF CheckTrigger(w.s, w.next, s.value[c]) THEN TriggerFired(w.s, w.next) ELSE w.s],
           x \in WalkType
    PROVE  WalkAt(x, s, c, newval, i + 1)
<1> DEFINE L == s.list[c]
           u == w.s
           r == x.s
           R == u.list[c]
           t == w.next
<1>1. WalkHere(w, L, c, i) /\ WalkKeeps(u, s, c, newval) BY DEF WalkAt
<1>2. None \notin AllCounters /\ None \notin Triggers BY SyncAssumption DEF AllCounters
<1>3. L \in Seq(Triggers) /\ IsInjective(L) BY <1>2 DEF States, Listed
<1>4. u \in States /\ Listed(u) /\ u.dying = None /\ u.gone = {} /\ Core(u)
  BY <1>1 DEF WalkKeeps, Core, WalkAt, WalkType
<1>5. R \in Seq(Triggers) /\ IsInjective(R) BY <1>2, <1>4 DEF States, Listed
<1>6. t \in Triggers /\ t \in Live(u) /\ u.trigger[t].counter = c
  <2>1. t \in Triggers BY <1>5, OnlyListed
  <2> QED BY <1>2, <1>4, <2>1 DEF Listed
<1>7. r = (IF CheckTrigger(u, t, s.value[c]) THEN TriggerFired(u, t) ELSE u) /\ x.next = After(R, t)
  OBVIOUS
<1>8. Leaves(r, u, t, c) BY <1>4, <1>6, <1>7, FiringLeaves
<1>9. InOrder(r.list[c], L)
  <2>1. InOrder(u.list[c], L) BY <1>1 DEF WalkHere
  <2>2. u.fate = "running" OBVIOUS
  <2> HIDE DEF L, u, t, r
  <2> DEFINE y == IF CheckTrigger(u, t, s.value[c]) THEN TriggerFired(u, t) ELSE u
  <2>3. InOrder(y.list[c], L) BY <1>3, <1>4, <1>6, <2>1, <2>2, FiringKeepsOrder
  <2> QED BY <1>7, <2>3
<1>10. i + 1 \in 1 .. Len(L) /\ L[i + 1] = t OBVIOUS
<1> HIDE DEF L, r, R, t, u
<1>11. /\ NextFound(x.next, R, L, i + 1)
       /\ x.next # None => Contains(R, x.next) /\ x.next # t
  <2>1. InOrder(R, L) /\ \A e \in Triggers : Contains(R, e) => Contains(L, e)
    BY <1>1 DEF WalkHere, R, u
  <2>2. Contains(R, t) BY DEF R, t, u
  <2> QED BY <1>3, <1>5, <1>7, <1>10, <2>1, <2>2, FindsNext
<1>12. WalkKeeps(r, s, c, newval) BY <1>1, <1>8 DEF WalkKeeps, Leaves
<1>13. ASSUME r.fate = "running" PROVE WalkHere(x, L, c, i + 1)
  <2>1. \A e \in Triggers : Contains(r.list[c], e) <=> Contains(R, e) /\ e \in Live(r)
    BY <1>8, <1>13 DEF Leaves, R
  <2>2. \A e \in Triggers : Contains(R, e) <=> Contains(L, e) /\ e \in Live(u)
    BY <1>1 DEF WalkHere, R, u
  <2>3. Live(r) \subseteq Live(u) BY <1>8 DEF Leaves
  <2>4. \A e \in Triggers : Contains(r.list[c], e) <=> Contains(L, e) /\ e \in Live(r)
    BY <2>1, <2>2, <2>3
  <2>5. NextFound(x.next, r.list[c], L, i + 1) BY <1>3, <1>11, <2>1, NextStays
  <2>6. ASSUME AllApart, x.next # None PROVE Contains(r.list[c], x.next)
    <3>1. Contains(R, x.next) /\ x.next # t BY <1>11, <2>6
    <3>2. x.next \in Triggers BY <1>5, <3>1, OnlyListed
    <3>3. x.next \in Live(u) /\ u.trigger[x.next].counter = c
      BY <1>2, <1>4, <3>1, <3>2 DEF Listed, R
    <3>4. x.next \in Live(r) BY <1>8, <1>13, <2>6, <3>1, <3>3 DEF Leaves
    <3> QED BY <2>1, <3>1, <3>2, <3>4
  <2>7. ASSUME NEW e \in Live(r) PROVE QuietAt(r, e) \/ ToCome(e, L, i + 1)
    <3>1. QuietAt(u, e) \/ ToCome(e, L, i) BY <1>1, <2>3 DEF WalkHere, u
    <3>2. QuietAt(u, e) \/ e = t => QuietAt(r, e) BY <1>8, <1>13 DEF Leaves
    <3>3. ToCome(e, L, i) => e = t \/ ToCome(e, L, i + 1)
      <4> SUFFICES ASSUME NEW k \in 1 .. Len(L), k > i, L[k] = e, e # t PROVE ToCome(e, L, i + 1)
        BY DEF ToCome
      <4>1. k # i + 1 BY <1>10
      <4>2. k > i + 1 BY <1>3, <4>1
      <4> QED BY <4>2 DEF ToCome
    <3> QED BY <3>1, <3>2, <3>3
  <2> QED BY <1>9, <2>4, <2>5, <2>6, <2>7 DEF WalkHere, r
<1> QED BY <1>12, <1>13 DEF WalkAt, L, r

LEMMA WalkSteps ==
    ASSUME NEW w, NEW s, NEW c \in AllCounters, Listed(s), s \in States, s.dying = None,
           NEW newval \in XSyncValue, NEW i \in Nat, i + 1 \in 1 .. Len(s.list[c]),
           WalkAt(w, s, c, newval, i)
    PROVE  WalkAt(Walked(w, c, s.value[c], s.list[c][i + 1]), s, c, newval, i + 1)
<1> DEFINE t == s.list[c][i + 1]
<1>1. s.list[c] \in Seq(Triggers) /\ w \in WalkType BY DEF States, WalkAt
<1>2. t \in Triggers BY <1>1
<1>3. Walked(w, c, s.value[c], t) \in WalkType BY <1>1, <1>2, WalkedTyped
<1> HIDE DEF t
<1>4. CASE w.s.fate # "running"
  <2>1. Walked(w, c, s.value[c], t) = w BY <1>4 DEF Walked
  <2> QED BY <1>4, <2>1 DEF WalkAt, t
<1>5. CASE w.s.fate = "running" /\ t # w.next
  <2>1. Walked(w, c, s.value[c], t) = w BY <1>5 DEF Walked
  <2>2. WalkAt(w, s, c, newval, i + 1) BY <1>5, WalkPasses DEF t
  <2> QED BY <2>1, <2>2 DEF t
<1>6. CASE w.s.fate = "running" /\ t = w.next /\ ~Contains(w.s.list[c], t)
  <2> DEFINE u == [w.s EXCEPT !.fate = "undefined"]
             x == [w EXCEPT !.s = u]
  <2>1. Walked(w, c, s.value[c], t) = x BY <1>6 DEF Walked
  <2>2. x \in WalkType /\ x.s = u BY <1>1, <1>3, <2>1 DEF WalkType
  <2>3. WalkHere(w, s.list[c], c, i) /\ WalkKeeps(w.s, s, c, newval) BY <1>6 DEF WalkAt
  <2>4. w.s \in States /\ Core(w.s) BY <2>3 DEF WalkKeeps, Core
  <2>5. /\ u \in States /\ u.value = w.s.value /\ u.list = w.s.list /\ u.trigger = w.s.trigger
        /\ u.dying = w.s.dying /\ u.gone = w.s.gone /\ u.refused = w.s.refused /\ u.fate = "undefined"
    BY <2>4 DEF States
  <2> HIDE DEF u
  <2>6. Live(u) = Live(w.s) BY <2>5 DEF Live
  <2>7. ~AllApart
    <3>1. w.next # None BY <1>2, <1>6, SyncAssumption
    <3> QED BY <1>6, <2>3, <3>1 DEF WalkHere
  <2>8. Listed(u) BY <2>4, <2>5, <2>6 DEF Core, Listed
  <2>9. Points(u) BY <2>4, <2>5, <2>6 DEF Core, Points, Exists
  <2>10. Core(u) BY <2>4, <2>5, <2>6, <2>7, <2>8, <2>9 DEF Core
  <2>11. WalkKeeps(u, s, c, newval) BY <2>3, <2>5, <2>6, <2>10 DEF WalkKeeps
  <2>12. WalkAt(x, s, c, newval, i + 1) BY <2>2, <2>5, <2>11 DEF WalkAt
  <2> QED BY <2>1, <2>12 DEF t
<1>7. CASE w.s.fate = "running" /\ t = w.next /\ Contains(w.s.list[c], t)
  <2> DEFINE x == Walked(w, c, s.value[c], t)
  <2>1. x = [next |-> After(w.s.list[c], w.next),
             s |-> IF CheckTrigger(w.s, w.next, s.value[c]) THEN TriggerFired(w.s, w.next) ELSE w.s]
    BY <1>7 DEF Walked
  <2> HIDE DEF x
  <2>2. WalkAt(x, s, c, newval, i + 1) BY <1>3, <1>7, <2>1, WalkFires DEF t, x
  <2> QED BY <2>2 DEF t, x
<1> QED BY <1>4, <1>5, <1>6, <1>7

WholeWalk(w, s, c, newval, n) ==
    /\ w \in [0 .. n -> WalkType] /\ w[0] = FirstWalk(s, c, newval)
    /\ \A i \in 1 .. n : w[i] = Walked(w[i - 1], c, s.value[c], s.list[c][i])
    /\ \A i \in 0 .. n : WalkAt(w[i], s, c, newval, i)
    /\ SyncChangeCounter(s, c, newval) = Bracketed(w[n].s, c)

LEMMA WalkHolds ==
    ASSUME NEW s, Core(s), s.dying = None, s.gone = {}, Quiet(s), s.fate = "running",
           NEW c \in AllCounters, NEW newval \in XSyncValue
    PROVE  \E w : WholeWalk(w, s, c, newval, Len(s.list[c]))
<1> DEFINE L == s.list[c]
           n == Len(L)
<1>1. s \in States /\ Listed(s) BY DEF Core
<1>2. PICK w \in [0 .. n -> WalkType] :
         /\ w[0] = FirstWalk(s, c, newval)
         /\ \A i \in 1 .. n : w[i - 1] \in WalkType /\ w[i] = Walked(w[i - 1], c, s.value[c], L[i])
         /\ SyncChangeCounter(s, c, newval) = Bracketed(w[n].s, c)
  BY <1>1, CounterWalk
<1>3. n \in Nat BY <1>1 DEF States
<1> DEFINE P(i) == i <= n => WalkAt(w[i], s, c, newval, i)
           S == { i \in Nat : P(i) }
<1>4. P(0) BY <1>2, WalkStarts
<1>5. ASSUME NEW i \in Nat, P(i) PROVE P(i + 1)
  <2> SUFFICES ASSUME i + 1 <= n PROVE WalkAt(w[i + 1], s, c, newval, i + 1) OBVIOUS
  <2>1. i + 1 \in 1 .. n /\ i <= n /\ (i + 1) - 1 = i BY <1>3
  <2>2. w[i + 1] = Walked(w[i], c, s.value[c], L[i + 1]) BY <1>2, <2>1
  <2>3. WalkAt(w[i], s, c, newval, i) BY <1>5, <2>1
  <2> QED BY <1>1, <2>1, <2>2, <2>3, WalkSteps
<1> HIDE DEF P
<1>6. 0 \in S /\ \A i \in Nat : i \in S => i + 1 \in S BY <1>4, <1>5
<1> HIDE DEF S
<1>7. Nat \subseteq S BY <1>6, Induct
<1>8. ASSUME NEW i \in 0 .. n PROVE WalkAt(w[i], s, c, newval, i)
  <2>1. i \in S /\ i <= n BY <1>3, <1>7
  <2>2. P(i) BY <2>1 DEF S
  <2> QED BY <2>1, <2>2 DEF P
<1>9. WholeWalk(w, s, c, newval, n)
  <2> HIDE DEF n
  <2> QED BY <1>2, <1>8 DEF WholeWalk
<1> QED BY <1>9

(* SyncChangeCounter keeps what holds between the steps, and leaves nothing *)
(* that waits TRUE; the triggers that remain point to the counters they did.*)
Changes(r, s) ==
    /\ Core(r) /\ r.dying = None /\ r.gone = s.gone
    /\ r.fate = "running" => Quiet(r)

(* What all steps but SyncChangeCounter's do: no counter that stays changes. *)
SameValues(r, s) == \A c \in Counters : r.value[c] \in {s.value[c], None}
Keeps(r, s) == Changes(r, s) /\ SameValues(r, s)

LEMMA BracketKeepsCore ==
    ASSUME NEW s, Core(s), NEW r \in States, Listed(r), Rest(r, s), r.list = s.list
    PROVE  Core(r) /\ (Quiet(s) => Quiet(r))
<1>1. Live(r) = Live(s) BY DEF Rest, Live
<1>2. Points(r) /\ r.refused \subseteq Live(r) BY <1>1 DEF Rest, Core, Points, Exists
<1>3. Kept(s, s.refused) => Kept(r, r.refused) BY <1>1 DEF Rest, Kept
<1>4. Apart(s) => Apart(r) BY <1>1 DEF Rest, Apart
<1>5. Core(r)
  <2>1. Stranded(s) => Stranded(r) BY <1>1 DEF Rest, Stranded
  <2> QED BY <1>2, <1>3, <1>4, <2>1 DEF Core, Rest
<1>6. ASSUME Quiet(s), NEW t \in Live(r) PROVE QuietAt(r, t)
  <2>1. QuietAt(s, t) BY <1>1, <1>6 DEF Quiet
  <2> QED BY <2>1, QuietStays DEF Rest
<1> QED BY <1>5, <1>6 DEF Quiet

LEMMA ChangingKeepsCore ==
    ASSUME NEW s, Core(s), s.dying = None, s.gone = {}, Quiet(s), s.fate = "running",
           NEW c \in AllCounters, NEW newval \in XSyncValue
    PROVE  LET r == SyncChangeCounter(s, c, newval)
           IN  Changes(r, s) /\ r.value = [s.value EXCEPT ![c] = newval]
<1> SUFFICES ASSUME NEW n, n = Len(s.list[c]), NEW r, r = SyncChangeCounter(s, c, newval)
             PROVE  Changes(r, s) /\ r.value = [s.value EXCEPT ![c] = newval]
  OBVIOUS
<1>1. s \in States /\ n \in Nat BY DEF Core, States
<1>2. PICK w : WholeWalk(w, s, c, newval, n) BY WalkHolds
<1>3. n \in 0 .. n BY <1>1
<1>8. WalkAt(w[n], s, c, newval, n) BY <1>2, <1>3 DEF WholeWalk
<1> DEFINE u == w[n].s
<1>9. Core(u) /\ u.dying = None /\ u.gone = s.gone /\ u.value = [s.value EXCEPT ![c] = newval]
  BY <1>8 DEF WalkAt, WalkKeeps
<1>10. ASSUME u.fate = "running" PROVE Quiet(u)
  <2>1. WalkHere(w[n], s.list[c], c, n) BY <1>8, <1>10 DEF WalkAt
  <2>2. \A t \in Live(u) : QuietAt(u, t) \/ ToCome(t, s.list[c], n) BY <2>1 DEF WalkHere
  <2>3. \A t : ~ToCome(t, s.list[c], n) BY <1>1 DEF ToCome
  <2> QED BY <2>2, <2>3 DEF Quiet
<1> HIDE DEF u
<1>11. r = Bracketed(u, c) BY <1>2 DEF u, WholeWalk
<1>12. CASE c = SERVERTIME /\ u.fate = "running"
  <2>1. r = SyncComputeBracketValues(u, FALSE) BY <1>11, <1>12 DEF Bracketed
  <2>2. r \in States /\ Listed(r) /\ Rest(r, u) /\ r.list = u.list
    BY <1>9, <2>1, ComputesBracket DEF Core
  <2>3. Core(r) /\ (Quiet(u) => Quiet(r)) BY <1>9, <2>2, BracketKeepsCore
  <2>4. Changes(r, s) BY <1>9, <1>10, <1>12, <2>2, <2>3 DEF Changes, Rest
  <2> QED BY <1>9, <2>2, <2>4 DEF Rest
<1>13. CASE ~(c = SERVERTIME /\ u.fate = "running")
  <2>1. r = u BY <1>11, <1>13 DEF Bracketed
  <2>2. Changes(u, s) BY <1>9, <1>10 DEF Changes
  <2> QED BY <1>9, <2>1, <2>2
<1> QED BY <1>12, <1>13

-----------------------------------------------------------------------------
(* FreeCounter.                                                             *)
AlarmLeft(r, s, a) ==
    /\ r \in States /\ Listed(r)
    /\ r.value = s.value /\ r.list = s.list /\ r.dying = s.dying /\ r.gone = s.gone
    /\ r.notified = s.notified /\ r.refused = s.refused /\ r.fate = s.fate
    /\ r.bracket = s.bracket /\ r.timer = s.timer
    /\ Live(r) = Live(s) /\ \A t \in Live(s) \ {a} : r.trigger[t] = s.trigger[t]
    /\ r.trigger[a].counter = None /\ r.trigger[a].state = "Inactive"
    /\ r.trigger[a].test_type = s.trigger[a].test_type
    /\ r.trigger[a].CheckTrigger = s.trigger[a].CheckTrigger

LEMMA LeavesItsCounter ==
    ASSUME NEW s \in States, Listed(s), NEW a \in Live(s), s.trigger[a].counter \in {s.dying, None}
    PROVE  AlarmLeft(SyncAlarmCounterDestroyed(s, a), s, a)
<1> DEFINE q == s.trigger[a]
           x == [q EXCEPT !.state = "Inactive", !.counter = None]
           g == [s.trigger EXCEPT ![a] = x]
           r == [s EXCEPT !.trigger = g]
<1>1. q \in TriggerType BY OneOfStates
<1>2. /\ x \in TriggerType /\ x.counter = None /\ x.state = "Inactive"
      /\ x.test_type = q.test_type /\ x.CheckTrigger = q.CheckTrigger
  BY <1>1 DEF TriggerType
<1>3. SyncAlarmCounterDestroyed(s, a) = r BY TheTable DEF SyncAlarmCounterDestroyed, States
<1> HIDE DEF x
<1>4. g \in [Live(s) -> TriggerType] /\ Live(s) \in SUBSET Triggers BY <1>2, TheTable
<1>5. g \in UNION { [D -> TriggerType] : D \in SUBSET Triggers } BY <1>4
<1>6. DOMAIN g = Live(s) /\ g[a] = x /\ \A t \in Live(s) \ {a} : g[t] = s.trigger[t]
  BY <1>4, TheTable
<1> HIDE DEF g
<1>7. r \in States BY <1>5 DEF States
<1>8. /\ r.value = s.value /\ r.list = s.list /\ r.dying = s.dying /\ r.gone = s.gone
      /\ r.notified = s.notified /\ r.refused = s.refused /\ r.fate = s.fate
      /\ r.bracket = s.bracket /\ r.timer = s.timer /\ r.trigger = g
  BY DEF States
<1> HIDE DEF r
<1>9. Live(r) = Live(s) BY <1>6, <1>8 DEF Live
<1>10. Listed(r)
  <2> SUFFICES ASSUME NEW c \in AllCounters \ {r.dying}
               PROVE  /\ IsInjective(r.list[c])
                      /\ \A t \in Triggers : Contains(r.list[c], t) => t \in Live(r) /\ r.trigger[t].counter = c
    BY DEF Listed
  <2>1. c # s.dying /\ c # None BY <1>8, SyncAssumption DEF AllCounters
  <2>2. \A t \in Triggers : Contains(s.list[c], t) => t \in Live(s) /\ s.trigger[t].counter = c /\ t # a
    BY <1>8, <2>1 DEF Listed
  <2> QED BY <1>6, <1>8, <1>9, <2>1, <2>2 DEF Listed
<1> QED BY <1>2, <1>3, <1>6, <1>7, <1>8, <1>9, <1>10 DEF AlarmLeft, q

(* Before the end of the list every trigger of it is the counter's or has   *)
(* been told.                                                               *)
DestroyType(L, c) ==
    { u \in States : /\ Listed(u) /\ u.dying = c
                     /\ \A k \in 1 .. Len(L) : L[k] \in Live(u) => u.trigger[L[k]].counter \in {c, None} }

LEMMA DestroyedTyped ==
    ASSUME NEW c \in Counters, NEW L \in Seq(Triggers), NEW u \in DestroyType(L, c), NEW k \in 1 .. Len(L)
    PROVE  CounterDestroyed(u, L[k]) \in DestroyType(L, c)
<1> DEFINE t == L[k]
<1> SUFFICES ASSUME NEW r, r = CounterDestroyed(u, t) PROVE r \in DestroyType(L, c) OBVIOUS
<1>1. u \in States /\ Listed(u) /\ u.dying = c BY DEF DestroyType
<1>2. \A j \in 1 .. Len(L) : L[j] \in Live(u) => u.trigger[L[j]].counter \in {c, None} BY DEF DestroyType
<1>3. t \in Triggers OBVIOUS
<1>4. CASE u.fate # "running" BY <1>4 DEF CounterDestroyed
<1>5. CASE u.fate = "running" /\ t \notin Live(u)
  <2>1. r = [u EXCEPT !.fate = "undefined"] BY <1>5 DEF CounterDestroyed
  <2>2. r \in States /\ r.list = u.list /\ r.trigger = u.trigger /\ r.dying = u.dying
    BY <1>1, <2>1 DEF States
  <2>3. Listed(r) BY <1>1, <2>2 DEF Listed, Live
  <2> QED BY <1>1, <1>2, <2>2, <2>3 DEF DestroyType, Live
<1>6. CASE u.fate = "running" /\ t \in Live(u) /\ t \in Alarms
  <2>1. r = SyncAlarmCounterDestroyed(u, t) BY <1>6 DEF CounterDestroyed
  <2>2. u.trigger[t].counter \in {u.dying, None} BY <1>1, <1>2, <1>6
  <2> HIDE DEF t
  <2>3. AlarmLeft(r, u, t) BY <1>1, <1>6, <2>1, <2>2, LeavesItsCounter
  <2>4. \A j \in 1 .. Len(L) : L[j] \in Live(r) => r.trigger[L[j]].counter \in {c, None}
    BY <1>2, <2>3 DEF AlarmLeft
  <2> QED BY <1>1, <2>3, <2>4 DEF DestroyType, AlarmLeft
<1>7. CASE u.fate = "running" /\ t \in Live(u) /\ t \notin Alarms /\ t[1] \in u.gone
  <2>1. r = [u EXCEPT !.fate = "undefined"] BY <1>7, FiresGone DEF CounterDestroyed
  <2>2. r \in States /\ Listed(r) /\ r.dying = u.dying /\ r.trigger = u.trigger /\ Live(r) = Live(u)
    BY <1>1, <2>1, FateOnly
  <2> QED BY <1>1, <1>2, <2>2 DEF DestroyType
<1>8. CASE u.fate = "running" /\ t \in Live(u) /\ t \notin Alarms /\ t[1] \notin u.gone
  <2>1. r = SyncAwaitTriggerFired(u, t) BY <1>8 DEF CounterDestroyed
  <2>2. AwaitFreed(r, u, t[1]) BY <1>1, <1>3, <1>8, <2>1, FiresAwait
  <2>3. \A j \in 1 .. Len(L) : L[j] \in Live(r) => r.trigger[L[j]].counter \in {c, None}
    BY <1>2, <2>2 DEF AwaitFreed
  <2> QED BY <1>1, <2>2, <2>3 DEF DestroyType, AwaitFreed
<1> QED BY <1>4, <1>5, <1>6, <1>7, <1>8

LEMMA DestroyStarts ==
    ASSUME NEW s \in States, Listed(s), s.dying = None, NEW c \in Counters,
           NEW u, u = [s EXCEPT !.dying = c]
    PROVE  /\ u \in DestroyType(s.list[c], c)
           /\ u.value = s.value /\ u.list = s.list /\ u.trigger = s.trigger /\ u.gone = s.gone
           /\ u.refused = s.refused /\ u.fate = s.fate /\ u.dying = c
<1>1. /\ u \in States /\ u.dying = c
      /\ u.value = s.value /\ u.list = s.list /\ u.trigger = s.trigger /\ u.gone = s.gone
      /\ u.refused = s.refused /\ u.fate = s.fate
  BY DEF States
<1>2. None \notin AllCounters /\ c \in AllCounters BY SyncAssumption DEF AllCounters
<1>3. Listed(u) BY <1>1, <1>2 DEF Listed, Live
<1>4. s.list[c] \in Seq(Triggers) BY <1>2 DEF States
<1>5. \A k \in 1 .. Len(s.list[c]) : s.trigger[s.list[c][k]].counter = c
  BY <1>2, <1>4 DEF Listed, Contains
<1> QED BY <1>1, <1>3, <1>5 DEF DestroyType

LEMMA DestroyWalk ==
    ASSUME NEW s \in States, Listed(s), s.dying = None, NEW c \in Counters
    PROVE  LET L == s.list[c]
           IN  \E w \in [0 .. Len(L) -> DestroyType(L, c)] :
                  /\ w[0] = [s EXCEPT !.dying = c]
                  /\ \A i \in 1 .. Len(L) : w[i] = CounterDestroyed(w[i - 1], L[i])
                  /\ FreeCounter(s, c) = Unpoint(w[Len(L)], c)
<1> DEFINE L == s.list[c]
           n == Len(L)
           A == DestroyType(L, c)
           first == [s EXCEPT !.dying = c]
           f == [p \in A \X (1 .. n) |-> CounterDestroyed(p[1], L[p[2]])]
           Is(h) == h = [I \in SUBSET (1 .. n) |->
                           IF I = {} THEN first ELSE CounterDestroyed(h[I \ {Max(I)}], L[Max(I)])]
           h == CHOOSE i : Is(i)
<1>1. L \in Seq(Triggers) /\ n \in Nat /\ DOMAIN L = 1 .. n BY DEF States, AllCounters
<1>2. first \in A BY DestroyStarts
<1> HIDE DEF A, L, n
<1>3. f \in [A \X (1 .. n) -> A] BY <1>1, DestroyedTyped DEF A, n
<1>4. PICK g \in [SUBSET (1 .. n) -> A] : Steps(g, n, first, f)
  <2> HIDE DEF f, first
  <2> QED BY <1>1, <1>2, <1>3, FoldExists
<1>5. ASSUME NEW I \in SUBSET (1 .. n), I # {}
      PROVE  Max(I) \in 1 .. n /\ I \ {Max(I)} \in SUBSET (1 .. n)
  BY <1>1, <1>5, LastOf
<1>6. \A I \in SUBSET (1 .. n) : g[I] = IF I = {} THEN first
                                       ELSE CounterDestroyed(g[I \ {Max(I)}], L[Max(I)])
  <2> HIDE DEF first
  <2> QED BY <1>4, <1>5 DEF Steps
<1>7. Is(g)
  <2> HIDE DEF first
  <2> QED BY <1>6
<1>8. Is(h)
  <2> HIDE DEF Is
  <2> QED BY <1>7
<1>9. FreeCounter(s, c) = Unpoint(h[1 .. n], c)
  BY <1>1 DEF FreeCounter, FoldLeft, MapThenFoldSet, L, n
<1>10. Follows(h, A, n, first, f)
  <2> HIDE DEF h, first
  <2>1. \A I \in SUBSET (1 .. n) :
           /\ I = {} => h[I] = first
           /\ I # {} /\ h[I \ {Max(I)}] \in A => h[I] = f[<<h[I \ {Max(I)}], Max(I)>>]
    BY <1>5, <1>8
  <2> HIDE DEF f
  <2> QED BY <1>1, <1>2, <1>3, <2>1 DEF Follows
<1>11. PICK w : IsWalk(w, A, n, first, f) /\ w[n] = h[1 .. n]
  <2> HIDE DEF f, first, h
  <2> QED BY <1>10, WalkOf
<1>12. \A i \in 1 .. n : w[i] = CounterDestroyed(w[i - 1], L[i]) BY <1>11 DEF IsWalk
<1> HIDE DEF h
<1> QED BY <1>9, <1>11, <1>12 DEF IsWalk, A, L, n

(* Where the walk of the destroyed counter's list is, after i elements.     *)
DestroyAt(u, s, c, i) ==
    /\ u \in DestroyType(s.list[c], c) /\ Core(u)
    /\ u.value = s.value /\ u.gone = s.gone /\ u.refused = s.refused
    /\ Live(u) \subseteq Live(s) /\ Live(s) \cap Alarms \subseteq Live(u)
    /\ \A t \in Live(u) : u.trigger[t].counter \in {s.trigger[t].counter, None}
    /\ \A t \in Live(u) \ Alarms : u.trigger[t].counter = s.trigger[t].counter
    /\ u.fate = "running" =>
          /\ Quiet(u)
          /\ \A k \in 1 .. Len(s.list[c]) :
                IF k <= i THEN s.list[c][k] \in Live(u) => u.trigger[s.list[c][k]].counter = None
                ELSE AllApart => s.list[c][k] \in Live(u)

LEMMA DestroyBegins ==
    ASSUME NEW s, Core(s), s.dying = None, Quiet(s), s.fate = "running", NEW c \in Counters,
           NEW u, u = [s EXCEPT !.dying = c]
    PROVE  DestroyAt(u, s, c, 0)
<1>1. s \in States /\ Listed(s) BY DEF Core
<1>2. /\ u \in DestroyType(s.list[c], c) /\ u \in States /\ Listed(u)
      /\ u.value = s.value /\ u.list = s.list /\ u.trigger = s.trigger /\ u.gone = s.gone
      /\ u.refused = s.refused /\ u.fate = s.fate /\ u.dying = c
  BY <1>1, DestroyStarts DEF DestroyType
<1>3. Live(u) = Live(s) BY <1>2 DEF Live
<1>4. None \notin AllCounters /\ c \in AllCounters BY SyncAssumption DEF AllCounters
<1>5. Points(u) BY <1>2, <1>3 DEF Core, Points, Exists
<1>6. Kept(u, u.refused) BY <1>2, <1>3, <1>4 DEF Core, Kept
<1>7. Apart(u) BY <1>2, <1>3 DEF Core, Apart
<1>8. Core(u) BY <1>2, <1>3, <1>5, <1>6, <1>7 DEF Core
<1>9. Quiet(u)
  <2> SUFFICES ASSUME NEW t \in Live(u) PROVE QuietAt(u, t) BY DEF Quiet
  <2>1. QuietAt(s, t) BY <1>3 DEF Quiet
  <2> QED BY <1>2, <2>1, QuietStays
<1>10. s.list[c] \in Seq(Triggers) BY <1>1, <1>4 DEF States
<1>11. \A k \in 1 .. Len(s.list[c]) : ~(k <= 0) /\ s.list[c][k] \in Live(s)
  BY <1>1, <1>4, <1>10 DEF Listed, Contains
<1> QED BY <1>2, <1>3, <1>8, <1>9, <1>11 DEF DestroyAt

LEMMA DestroySteps ==
    ASSUME NEW s, Core(s), s.dying = None, NEW c \in Counters,
           NEW u, NEW i \in Nat, i + 1 \in 1 .. Len(s.list[c]), DestroyAt(u, s, c, i)
    PROVE  DestroyAt(CounterDestroyed(u, s.list[c][i + 1]), s, c, i + 1)
<1> DEFINE L == s.list[c]
           t == L[i + 1]
<1> SUFFICES ASSUME NEW r, r = CounterDestroyed(u, t) PROVE DestroyAt(r, s, c, i + 1) OBVIOUS
<1>1. None \notin AllCounters /\ c \in AllCounters /\ None # Freed BY SyncAssumption DEF AllCounters
<1>2. s \in States /\ Listed(s) BY DEF Core
<1>3. L \in Seq(Triggers) /\ IsInjective(L) BY <1>1, <1>2 DEF States, Listed
<1>4. t \in Triggers /\ Contains(L, t) BY <1>3 DEF Contains
<1>5. t \in Live(s) /\ s.trigger[t].counter = c BY <1>1, <1>2, <1>4 DEF Listed
<1>6. i + 1 \in 1 .. Len(L) /\ t = L[i + 1] OBVIOUS
<1>7. r \in DestroyType(L, c)
  <2>1. u \in DestroyType(L, c) BY DEF DestroyAt
  <2> HIDE DEF L, t
  <2>2. CounterDestroyed(u, L[i + 1]) \in DestroyType(L, c) BY <1>3, <1>6, <2>1, DestroyedTyped
  <2> QED BY <1>6, <2>2
<1> HIDE DEF t
<1>8. /\ u \in States /\ Listed(u) /\ u.dying = c /\ Core(u)
      /\ \A k \in 1 .. Len(L) : L[k] \in Live(u) => u.trigger[L[k]].counter \in {c, None}
  BY DEF DestroyAt, DestroyType
<1>9. /\ u.value = s.value /\ u.gone = s.gone /\ u.refused = s.refused
      /\ Live(u) \subseteq Live(s) /\ Live(s) \cap Alarms \subseteq Live(u)
      /\ \A e \in Live(u) : u.trigger[e].counter \in {s.trigger[e].counter, None}
      /\ \A e \in Live(u) \ Alarms : u.trigger[e].counter = s.trigger[e].counter
  BY DEF DestroyAt
<1>10. u.fate = "running" =>
          /\ Quiet(u)
          /\ \A k \in 1 .. Len(L) :
                IF k <= i THEN L[k] \in Live(u) => u.trigger[L[k]].counter = None
                ELSE AllApart => L[k] \in Live(u)
  BY DEF DestroyAt
<1> HIDE DEF L
<1>11. \A k \in 1 .. Len(L) : k <= i + 1 => k <= i \/ L[k] = t BY <1>6
<1>12. \A k \in 1 .. Len(L) : ~(k <= i + 1) => ~(k <= i) /\ L[k] # t
  <2> SUFFICES ASSUME NEW k \in 1 .. Len(L), ~(k <= i + 1) PROVE ~(k <= i) /\ L[k] # t OBVIOUS
  <2>1. k # i + 1 /\ ~(k <= i) OBVIOUS
  <2> QED BY <1>3, <1>6, <2>1, SamePosition
<1>13. CASE u.fate # "running"
  <2>1. r = u BY <1>13 DEF CounterDestroyed
  <2> QED BY <1>13, <2>1 DEF DestroyAt
<1>14. CASE u.fate = "running" /\ t \notin Live(u)
  <2>1. r = [u EXCEPT !.fate = "undefined"] BY <1>14 DEF CounterDestroyed
  <2>2. /\ r \in States /\ r.value = u.value /\ r.list = u.list /\ r.trigger = u.trigger
        /\ r.dying = u.dying /\ r.gone = u.gone /\ r.refused = u.refused /\ r.fate = "undefined"
    BY <1>8, <2>1 DEF States
  <2>3. Live(r) = Live(u) BY <2>2 DEF Live
  <2>4. Listed(r) /\ Points(r) BY <1>8, <2>2, <2>3 DEF Core, Listed, Points, Exists
  <2>5. ~AllApart
    <3>1. ~(i + 1 <= i) OBVIOUS
    <3> QED BY <1>6, <1>10, <1>14, <3>1
  <2>6. Core(r) BY <1>8, <2>2, <2>3, <2>4, <2>5 DEF Core
  <2> QED BY <1>7, <1>9, <2>2, <2>3, <2>6 DEF DestroyAt, L
<1>15. CASE u.fate = "running" /\ t \in Live(u) /\ t \in Alarms
  <2>1. r = SyncAlarmCounterDestroyed(u, t) BY <1>15 DEF CounterDestroyed
  <2>2. u.trigger[t].counter \in {u.dying, None} BY <1>6, <1>8, <1>15
  <2>3. AlarmLeft(r, u, t) BY <1>8, <1>15, <2>1, <2>2, LeavesItsCounter
  <2>4. /\ r \in States /\ Listed(r) /\ Live(r) = Live(u) /\ r.value = u.value /\ r.list = u.list
        /\ r.dying = u.dying /\ r.gone = u.gone /\ r.refused = u.refused /\ r.fate = u.fate
        /\ \A e \in Live(u) \ {t} : r.trigger[e] = u.trigger[e]
        /\ r.trigger[t].counter = None
        /\ r.trigger[t].test_type = u.trigger[t].test_type
        /\ r.trigger[t].CheckTrigger = u.trigger[t].CheckTrigger
    BY <2>3 DEF AlarmLeft
  <2>5. Points(r) BY <1>1, <1>8, <2>4 DEF Core, Points, Exists
  <2>6. Kept(u, u.refused) /\ Apart(u) BY <1>8, <1>15 DEF Core
  <2>7. Kept(r, r.refused)
    <3> SUFFICES ASSUME NEW e \in Live(r) \ r.refused
                 PROVE  LET q == r.trigger[e]
                        IN  /\ q.test_type = q.CheckTrigger /\ q.counter # Freed
                            /\ q.counter \in AllCounters \ {r.dying} => Contains(r.list[q.counter], e)
      BY DEF Kept
    <3>1. CASE e = t BY <1>1, <2>4, <2>6, <3>1 DEF Kept
    <3>2. CASE e # t BY <2>4, <2>6, <3>2 DEF Kept
    <3> QED BY <3>1, <3>2
  <2>8. Apart(r) BY <1>15, <2>4, <2>6 DEF Apart
  <2>9. Core(r) BY <1>8, <1>15, <2>4, <2>5, <2>7, <2>8 DEF Core
  <2>10. Quiet(r)
    <3> SUFFICES ASSUME NEW e \in Live(r) PROVE QuietAt(r, e) BY DEF Quiet
    <3>1. CASE e = t BY <1>1, <2>4, <3>1 DEF QuietAt, AllCounters
    <3>2. CASE e # t
      <4>1. QuietAt(u, e) BY <1>10, <1>15, <2>4 DEF Quiet
      <4> QED BY <2>4, <3>2, <4>1, QuietStays
    <3> QED BY <3>1, <3>2
  <2>11. \A k \in 1 .. Len(L) :
            IF k <= i + 1 THEN L[k] \in Live(r) => r.trigger[L[k]].counter = None
            ELSE AllApart => L[k] \in Live(r)
    BY <1>10, <1>11, <1>12, <1>15, <2>4
  <2> QED BY <1>7, <1>9, <1>15, <2>4, <2>9, <2>10, <2>11 DEF DestroyAt, L
<1>16. CASE u.fate = "running" /\ t \in Live(u) /\ t \notin Alarms /\ t[1] \in u.gone
  <2>1. r = [u EXCEPT !.fate = "undefined"] BY <1>16, FiresGone DEF CounterDestroyed
  <2>2. /\ r \in States /\ Listed(r) /\ Points(r)
        /\ r.value = u.value /\ r.list = u.list /\ r.trigger = u.trigger /\ r.dying = u.dying
        /\ r.gone = u.gone /\ r.refused = u.refused /\ r.fate = "undefined" /\ Live(r) = Live(u)
    BY <1>8, <2>1, FateOnly DEF Core
  <2>3. Stranded(r)
    <3>1. u.trigger[t].counter = c BY <1>5, <1>9, <1>16
    <3>2. c # None BY <1>1
    <3> QED BY <1>8, <1>16, <2>2, <3>1, <3>2 DEF Stranded
  <2>4. Core(r) BY <1>8, <2>2, <2>3 DEF Core
  <2> QED BY <1>7, <1>9, <2>2, <2>4 DEF DestroyAt, L
<1>17. CASE u.fate = "running" /\ t \in Live(u) /\ t \notin Alarms /\ t[1] \notin u.gone
  <2> DEFINE W == Waits(u, t[1])
  <2>1. r = SyncAwaitTriggerFired(u, t) BY <1>17 DEF CounterDestroyed
  <2>2. AwaitFreed(r, u, t[1]) BY <1>4, <1>8, <1>17, <2>1, FiresAwait
  <2>3. Core(r) /\ Quiet(r) BY <1>8, <1>10, <1>17, <2>2, FreedAwaitKeepsCore
  <2>4. /\ r.value = u.value /\ r.gone = u.gone /\ r.refused = u.refused /\ r.fate = u.fate
        /\ Live(r) = Live(u) \ W
        /\ \A e \in Live(r) : r.trigger[e] = u.trigger[e]
    BY <2>2 DEF AwaitFreed
  <2>5. W \subseteq Live(u) \ Alarms BY <1>8, WaitsAre
  <2>6. t \in W BY <1>17 DEF Waits
  <2>7. ASSUME AllApart, NEW k \in 1 .. Len(L), ~(k <= i + 1) PROVE L[k] \in Live(r)
    <3> SUFFICES ASSUME L[k] \in W PROVE FALSE BY <1>10, <1>12, <1>17, <2>4, <2>7
    <3>1. L[k] \in Live(u) \ Alarms /\ L[k][1] = t[1] /\ L[k] # t BY <1>12, <2>7 DEF Waits
    <3>2. u.trigger[L[k]].counter # u.trigger[t].counter
      BY <1>8, <1>17, <2>7, <3>1 DEF Core, Apart
    <3>3. s.trigger[L[k]].counter = c
      <4>1. L[k] \in Triggers /\ Contains(L, L[k]) BY <1>3 DEF Contains
      <4> QED BY <1>1, <1>2, <4>1 DEF Listed, L
    <3> QED BY <1>5, <1>9, <1>17, <3>1, <3>2, <3>3
  <2>8. ASSUME NEW k \in 1 .. Len(L), k <= i + 1, L[k] \in Live(r) PROVE r.trigger[L[k]].counter = None
    <3>1. L[k] # t BY <2>4, <2>6, <2>8
    <3> QED BY <1>10, <1>11, <1>17, <2>4, <2>8, <3>1
  <2> HIDE DEF W
  <2> QED BY <1>7, <1>9, <1>17, <2>3, <2>4, <2>5, <2>7, <2>8 DEF DestroyAt, L
<1> QED BY <1>13, <1>14, <1>15, <1>17, <1>16

LEMMA Unpoints ==
    ASSUME NEW u \in States, Listed(u), NEW c \in Counters, u.dying = c, NEW r, r = Unpoint(u, c)
    PROVE  /\ r \in States /\ Listed(r) /\ r.dying = None /\ r.gone = u.gone /\ r.refused = u.refused
           /\ r.fate = u.fate /\ Live(r) = Live(u)
           /\ r.value = [u.value EXCEPT ![c] = None]
           /\ \A d \in AllCounters \ {c} : r.list[d] = u.list[d]
           /\ \A t \in Live(u) :
                 IF u.trigger[t].counter = c THEN r.trigger[t] = [u.trigger[t] EXCEPT !.counter = Freed]
                 ELSE r.trigger[t] = u.trigger[t]
<1> DEFINE g == [t \in Live(u) |-> IF u.trigger[t].counter = c
                                  THEN [u.trigger[t] EXCEPT !.counter = Freed] ELSE u.trigger[t]]
           v == [u.value EXCEPT ![c] = None]
           l == [u.list EXCEPT ![c] = <<>>]
<1>1. r = [u EXCEPT !.value = v, !.list = l, !.dying = None, !.trigger = g] BY DEF Unpoint, Live, States
<1>2. g \in [Live(u) -> TriggerType] /\ Live(u) \in SUBSET Triggers
  <2>1. \A t \in Live(u) : u.trigger[t] \in TriggerType BY OneOfStates
  <2>2. \A q \in TriggerType : [q EXCEPT !.counter = Freed] \in TriggerType BY DEF TriggerType
  <2> QED BY <2>1, <2>2, TheTable
<1>3. g \in UNION { [D -> TriggerType] : D \in SUBSET Triggers } BY <1>2
<1>4. v \in [AllCounters -> XSyncValue \cup {None}] BY DEF States
<1>5. l \in [AllCounters -> Seq(Triggers)] /\ c \in AllCounters
  <2>1. <<>> \in Seq(Triggers) /\ u.list \in [AllCounters -> Seq(Triggers)] /\ c \in AllCounters
    BY DEF States, AllCounters
  <2> QED BY <2>1
<1>6. /\ DOMAIN g = Live(u)
      /\ \A t \in Live(u) : IF u.trigger[t].counter = c THEN g[t] = [u.trigger[t] EXCEPT !.counter = Freed]
                            ELSE g[t] = u.trigger[t]
  OBVIOUS
<1>7. l[c] = <<>> /\ \A d \in AllCounters \ {c} : l[d] = u.list[d]
  <2>1. u.list \in [AllCounters -> Seq(Triggers)] BY DEF States
  <2> QED BY <1>5, <2>1
<1> HIDE DEF g, l
<1>8. r \in States
  <2> HIDE DEF v
  <2> QED BY <1>1, <1>3, <1>4, <1>5 DEF States
<1>9. /\ r.value = v /\ r.list = l /\ r.dying = None /\ r.trigger = g
      /\ r.gone = u.gone /\ r.refused = u.refused /\ r.fate = u.fate
  BY <1>1 DEF States
<1>10. Live(r) = Live(u) BY <1>6, <1>9 DEF Live
<1>11. Listed(r)
  <2> SUFFICES ASSUME NEW d \in AllCounters
               PROVE  /\ IsInjective(r.list[d])
                      /\ \A t \in Triggers : Contains(r.list[d], t) => t \in Live(r) /\ r.trigger[t].counter = d
    BY DEF Listed
  <2>1. CASE d = c
    <3>1. r.list[d] = <<>> BY <1>7, <1>9, <2>1
    <3> QED BY <3>1 DEF IsInjective, Contains
  <2>2. CASE d # c BY <1>6, <1>7, <1>9, <1>10, <2>2 DEF Listed
  <2> QED BY <2>1, <2>2
<1> QED BY <1>6, <1>7, <1>8, <1>9, <1>10, <1>11

LEMMA FreeingCounterTyped ==
    ASSUME NEW s \in States, Listed(s), s.dying = None, NEW c \in Counters
    PROVE  LET r == FreeCounter(s, c) IN r \in States /\ Listed(r) /\ r.dying = None
<1> DEFINE L == s.list[c]
           n == Len(L)
<1>1. n \in Nat BY DEF States, AllCounters
<1>2. PICK w \in [0 .. n -> DestroyType(L, c)] : FreeCounter(s, c) = Unpoint(w[n], c)
  BY DestroyWalk
<1> DEFINE u == w[n]
<1>3. u \in States /\ Listed(u) /\ u.dying = c
  <2>1. u \in DestroyType(L, c) BY <1>1
  <2> HIDE DEF u
  <2> QED BY <2>1 DEF DestroyType
<1> HIDE DEF u
<1>4. Unpoint(u, c) \in States /\ Listed(Unpoint(u, c)) /\ Unpoint(u, c).dying = None BY <1>3, Unpoints
<1> QED BY <1>2, <1>4 DEF u

(* FreeCounter keeps what holds between the steps.                          *)
LEMMA FreeingCounterKeepsCore ==
    ASSUME NEW s, Core(s), s.dying = None, Quiet(s), s.fate = "running", NEW c \in Counters
    PROVE  LET r == FreeCounter(s, c)
           IN  /\ Keeps(r, s) /\ r.refused = s.refused
               /\ Live(r) \subseteq Live(s) /\ Live(s) \cap Alarms \subseteq Live(r)
               /\ \A d \in AllCounters \ {c} : r.value[d] = s.value[d]
<1> DEFINE L == s.list[c]
           n == Len(L)
<1>1. s \in States /\ Listed(s) BY DEF Core
<1>2. n \in Nat /\ L \in Seq(Triggers) BY <1>1 DEF States, AllCounters
<1>3. PICK w \in [0 .. n -> DestroyType(L, c)] :
         /\ w[0] = [s EXCEPT !.dying = c]
         /\ \A i \in 1 .. n : w[i] = CounterDestroyed(w[i - 1], L[i])
         /\ FreeCounter(s, c) = Unpoint(w[n], c)
  BY <1>1, DestroyWalk
<1> DEFINE P(i) == i <= n => DestroyAt(w[i], s, c, i)
           S == { i \in Nat : P(i) }
<1>4. P(0) BY <1>3, DestroyBegins
<1>5. ASSUME NEW i \in Nat, P(i) PROVE P(i + 1)
  <2> SUFFICES ASSUME i + 1 <= n PROVE DestroyAt(w[i + 1], s, c, i + 1) OBVIOUS
  <2>1. i + 1 \in 1 .. n /\ i <= n /\ (i + 1) - 1 = i BY <1>2
  <2>2. w[i + 1] = CounterDestroyed(w[i], L[i + 1]) BY <1>3, <2>1
  <2>3. DestroyAt(w[i], s, c, i) BY <1>5, <2>1
  <2> QED BY <2>1, <2>2, <2>3, DestroySteps
<1> HIDE DEF P
<1>6. 0 \in S /\ \A i \in Nat : i \in S => i + 1 \in S BY <1>4, <1>5
<1> HIDE DEF S
<1>7. Nat \subseteq S BY <1>6, Induct
<1> DEFINE u == w[n]
<1>8. DestroyAt(u, s, c, n)
  <2>1. P(n) BY <1>2, <1>7 DEF S
  <2> QED BY <1>2, <2>1 DEF P
<1>9. FreeCounter(s, c) = Unpoint(u, c) BY <1>3
<1> HIDE DEF u
<1> SUFFICES ASSUME NEW r, r = Unpoint(u, c)
             PROVE  /\ Keeps(r, s) /\ r.refused = s.refused
                    /\ Live(r) \subseteq Live(s) /\ Live(s) \cap Alarms \subseteq Live(r)
                    /\ \A d \in AllCounters \ {c} : r.value[d] = s.value[d]
  BY <1>9
<1>10. u \in States /\ Listed(u) /\ u.dying = c /\ Core(u) BY <1>8 DEF DestroyAt, DestroyType
<1>11. /\ u.value = s.value /\ u.gone = s.gone /\ u.refused = s.refused
       /\ Live(u) \subseteq Live(s) /\ Live(s) \cap Alarms \subseteq Live(u)
       /\ \A t \in Live(u) : u.trigger[t].counter \in {s.trigger[t].counter, None}
  BY <1>8 DEF DestroyAt
<1>12. /\ r \in States /\ Listed(r) /\ r.dying = None /\ r.gone = u.gone /\ r.refused = u.refused
       /\ r.fate = u.fate /\ Live(r) = Live(u)
       /\ r.value = [u.value EXCEPT ![c] = None]
       /\ \A d \in AllCounters \ {c} : r.list[d] = u.list[d]
       /\ \A t \in Live(u) :
             IF u.trigger[t].counter = c THEN r.trigger[t] = [u.trigger[t] EXCEPT !.counter = Freed]
             ELSE r.trigger[t] = u.trigger[t]
  BY <1>10, Unpoints
<1>13. c \in AllCounters /\ None \notin AllCounters /\ Freed \notin AllCounters /\ c # None
  BY SyncAssumption DEF AllCounters
<1>14. \A t \in Live(u) : u.trigger[t] \in TriggerType BY <1>10, OneOfStates
<1>15. \A t \in Live(u) : u.trigger[t].counter = c => r.trigger[t].counter = Freed
  BY <1>12, <1>14 DEF TriggerType
<1>16. r.value[c] = None /\ \A d \in AllCounters \ {c} : r.value[d] = s.value[d]
  <2>1. u.value \in [AllCounters -> XSyncValue \cup {None}] BY <1>10 DEF States
  <2> QED BY <1>11, <1>12, <2>1
<1>17. Points(r)
  <2> SUFFICES ASSUME NEW t \in Live(u), r.trigger[t].counter \in AllCounters
               PROVE  Exists(r, r.trigger[t].counter)
    BY <1>12 DEF Points
  <2>1. u.trigger[t].counter # c /\ r.trigger[t] = u.trigger[t] BY <1>12, <1>13, <1>15
  <2> QED BY <1>10, <1>11, <1>16, <2>1 DEF Core, Points, Exists
<1>18. ASSUME u.fate = "running", NEW t \in Live(u) \ u.refused
       PROVE  u.trigger[t].counter # c /\ r.trigger[t] = u.trigger[t]
  <2> SUFFICES ASSUME u.trigger[t].counter = c PROVE FALSE BY <1>12
  <2>1. s.trigger[t].counter = c /\ t \in Live(s) \ s.refused BY <1>11, <1>13
  <2>2. s.dying # c /\ Contains(L, t) BY <1>13, <2>1 DEF Core, Kept
  <2>3. PICK k \in 1 .. n : L[k] = t BY <2>2 DEF Contains
  <2>4. u.trigger[t].counter = None BY <1>2, <1>8, <1>18, <2>3 DEF DestroyAt
  <2> QED BY <1>13, <2>4
<1>19. ASSUME u.fate = "running" PROVE Kept(r, r.refused) /\ Apart(r)
  <2>1. Kept(u, u.refused) /\ Apart(u) BY <1>10, <1>19 DEF Core
  <2>2. Kept(r, r.refused)
    <3> SUFFICES ASSUME NEW t \in Live(r) \ r.refused
                 PROVE  LET q == r.trigger[t]
                        IN  /\ q.test_type = q.CheckTrigger /\ q.counter # Freed
                            /\ q.counter \in AllCounters \ {r.dying} => Contains(r.list[q.counter], t)
      BY DEF Kept
    <3>1. u.trigger[t].counter # c /\ r.trigger[t] = u.trigger[t] /\ t \in Live(u) \ u.refused
      BY <1>12, <1>18, <1>19
    <3> QED BY <1>10, <1>12, <2>1, <3>1 DEF Kept
  <2>3. u.refused \subseteq Alarms BY <1>10 DEF States
  <2>4. \A t \in Live(r) \ Alarms : t \in Live(u) \ Alarms /\ r.trigger[t] = u.trigger[t]
    BY <1>12, <1>18, <1>19, <2>3
  <2>5. Apart(r) BY <2>1, <2>4 DEF Apart
  <2> QED BY <2>2, <2>5
<1>20. Core(r)
  <2>1. ASSUME Stranded(u) PROVE Stranded(r)
    <3>1. PICK t \in Live(u) \ Alarms : t[1] \in u.gone /\ u.trigger[t].counter \in {Freed, c}
      BY <1>10, <2>1 DEF Stranded
    <3>2. r.trigger[t].counter = Freed BY <1>12, <1>15, <3>1
    <3> QED BY <1>12, <3>1, <3>2 DEF Stranded
  <2> QED BY <1>10, <1>12, <1>17, <1>19, <2>1 DEF Core
<1>21. ASSUME r.fate = "running" PROVE Quiet(r)
  <2> SUFFICES ASSUME NEW t \in Live(r) PROVE QuietAt(r, t) BY DEF Quiet
  <2>1. QuietAt(u, t) BY <1>8, <1>12, <1>21 DEF DestroyAt, Quiet
  <2>2. CASE u.trigger[t].counter = c
    <3>1. Freed \notin Counters BY SyncAssumption
    <3> QED BY <1>12, <1>15, <2>2, <3>1 DEF QuietAt
  <2>3. CASE u.trigger[t].counter # c
    <3>1. u.trigger[t].counter \in Counters => r.value[u.trigger[t].counter] = u.value[u.trigger[t].counter]
      BY <1>11, <1>16, <2>3 DEF AllCounters
    <3> QED BY <1>12, <2>1, <2>3, <3>1, QuietStays
  <2> QED BY <2>2, <2>3
<1>22. SameValues(r, s)
  <2>1. Counters \subseteq AllCounters BY DEF AllCounters
  <2> QED BY <1>16, <2>1 DEF SameValues
<1> QED BY <1>11, <1>12, <1>16, <1>20, <1>21, <1>22 DEF Keeps, Changes

-----------------------------------------------------------------------------
(* A client's resources are freed.                                          *)
LEMMA FreesAlarm ==
    ASSUME NEW s \in States, Listed(s), s.dying = None, NEW a \in Alarms, s.trigger[a].counter # Freed,
           NEW r, r = FreeAlarm(s, a)
    PROVE  /\ r \in States /\ Listed(r) /\ r.dying = None
           /\ r.value = s.value /\ r.gone = s.gone /\ r.fate = s.fate /\ r.refused = s.refused \ {a}
           /\ Live(r) = Live(s) \ {a} /\ \A t \in Live(r) : r.trigger[t] = s.trigger[t]
           /\ \A c \in AllCounters : \A e \in Triggers : Contains(r.list[c], e) <=> Contains(s.list[c], e) /\ e # a
<1> DEFINE u == SyncDeleteTriggerFromCounter(s, a)
           v == [u EXCEPT !.refused = @ \ {a}]
<1>1. None \notin AllCounters /\ None # Freed BY SyncAssumption DEF AllCounters
<1>2. s.trigger[a].counter # s.dying \/ s.trigger[a].counter = None BY <1>1
<1>3. Unlinked(u, s, a) BY <1>2, DeletesFromList
<1>4. r = Forget(v, {a}) BY DEF FreeAlarm
<1>5. ASSUME NEW c \in AllCounters, NEW e \in Triggers
      PROVE  Contains(u.list[c], e) <=> Contains(s.list[c], e) /\ e # a
  <2>1. c \in AllCounters \ {s.dying} BY <1>1
  <2>2. Contains(u.list[c], e) <=> Contains(s.list[c], e) /\ (e = a => c # s.trigger[a].counter)
    BY <1>3, <2>1, WhatIsUnlinked
  <2>3. Contains(s.list[c], e) => s.trigger[e].counter = c BY <2>1 DEF Listed
  <2> QED BY <2>2, <2>3
<1> HIDE DEF u
<1>6. u \in States /\ Listed(u) /\ Rest(u, s) BY <1>3 DEF Unlinked
<1>7. /\ v \in States /\ v.list = u.list /\ v.trigger = u.trigger /\ v.dying = u.dying
      /\ v.value = u.value /\ v.gone = u.gone /\ v.fate = u.fate /\ v.refused = u.refused \ {a}
  BY <1>6 DEF States
<1> HIDE DEF v
<1>8. Listed(v) BY <1>6, <1>7 DEF Listed, Live
<1>9. \A c \in AllCounters \ {v.dying} : \A e \in Triggers : Contains(v.list[c], e) => e \notin {a}
  BY <1>5, <1>7
<1>10. /\ r \in States /\ Listed(r) /\ r.value = v.value /\ r.list = v.list /\ r.dying = v.dying
       /\ r.gone = v.gone /\ r.refused = v.refused /\ r.fate = v.fate /\ Live(r) = Live(v) \ {a}
       /\ \A t \in Live(r) : r.trigger[t] = v.trigger[t]
  BY <1>4, <1>7, <1>8, <1>9, Forgets
<1>11. Live(v) = Live(s) /\ v.trigger = s.trigger BY <1>6, <1>7 DEF Rest, Live
<1> QED BY <1>5, <1>6, <1>7, <1>10, <1>11 DEF Rest

LEMMA FreeingAlarmTyped ==
    ASSUME NEW s \in States, Listed(s), s.dying = None, NEW a \in Alarms
    PROVE  LET r == FreeAlarm(s, a) IN r \in States /\ Listed(r) /\ r.dying = None
<1>1. CASE s.trigger[a].counter = Freed
  <2>1. FreeAlarm(s, a) = [s EXCEPT !.fate = "undefined"] BY <1>1 DEF FreeAlarm
  <2> QED BY <2>1, FateOnly
<1>2. CASE s.trigger[a].counter # Freed BY <1>2, FreesAlarm
<1> QED BY <1>1, <1>2

LEMMA FreeingAlarmKeepsCore ==
    ASSUME NEW s, Core(s), s.dying = None, Quiet(s), s.fate = "running", NEW a \in Live(s) \cap Alarms
    PROVE  LET r == FreeAlarm(s, a) IN Keeps(r, s) /\ (Live(s) \cap Alarms) \ {a} \subseteq Live(r)
<1> SUFFICES ASSUME NEW r, r = FreeAlarm(s, a)
             PROVE  Keeps(r, s) /\ (Live(s) \cap Alarms) \ {a} \subseteq Live(r)
  OBVIOUS
<1>1. s \in States /\ Listed(s) /\ Kept(s, s.refused) /\ Apart(s) BY DEF Core
<1>2. CASE s.trigger[a].counter = Freed
  <2>1. r = [s EXCEPT !.fate = "undefined"] BY <1>2 DEF FreeAlarm
  <2>2. a \in s.refused BY <1>1, <1>2 DEF Kept
  <2>3. Core(r) BY <1>1, <2>1, <2>2, FateOnly DEF Core
  <2> QED BY <1>1, <2>1, <2>3, FateOnly DEF Keeps, SameValues, Changes
<1>3. CASE s.trigger[a].counter # Freed
  <2>1. /\ r \in States /\ Listed(r) /\ r.dying = None
        /\ r.value = s.value /\ r.gone = s.gone /\ r.fate = s.fate /\ r.refused = s.refused \ {a}
        /\ Live(r) = Live(s) \ {a} /\ \A t \in Live(r) : r.trigger[t] = s.trigger[t]
        /\ \A c \in AllCounters : \A e \in Triggers : Contains(r.list[c], e) <=> Contains(s.list[c], e) /\ e # a
    BY <1>1, <1>3, FreesAlarm
  <2>2. r.refused \subseteq Live(r) /\ Points(r) BY <2>1 DEF Core, Points, Exists
  <2>3. Live(s) \subseteq Triggers BY <1>1, TheTable
  <2>4. Kept(r, r.refused) BY <1>1, <2>1, <2>3 DEF Kept
  <2>5. Apart(r) BY <1>1, <2>1 DEF Apart
  <2>6. Quiet(r)
    <3> SUFFICES ASSUME NEW t \in Live(r) PROVE QuietAt(r, t) BY DEF Quiet
    <3>1. QuietAt(s, t) /\ t # a BY <2>1 DEF Quiet
    <3> QED BY <2>1, <3>1 DEF QuietAt, Still
  <2>7. Core(r) BY <2>1, <2>2, <2>4, <2>5 DEF Core
  <2> QED BY <2>1, <2>6, <2>7 DEF Keeps, SameValues, Changes
<1> QED BY <1>2, <1>3

(* One resource after the other.                                            *)
Resources == Counters \cup Alarms \cup (Clients \X {1, 2})
ReleaseType == { u \in States : Listed(u) /\ u.dying = None }

LEMMA ReleasedTyped ==
    ASSUME NEW u \in ReleaseType, NEW x \in Resources, NEW cl \in Clients
    PROVE  Release(u, x, cl) \in ReleaseType
<1>1. u \in States /\ Listed(u) /\ u.dying = None BY DEF ReleaseType
<1>2. CASE u.fate # "running" BY <1>2 DEF Release
<1>3. CASE u.fate = "running" /\ x \in Counters
  BY <1>1, <1>3, FreeingCounterTyped DEF Release, ReleaseType
<1>4. CASE u.fate = "running" /\ x \notin Counters /\ x \in Alarms
  BY <1>1, <1>4, FreeingAlarmTyped DEF Release, ReleaseType
<1>5. CASE u.fate = "running" /\ x \notin Counters /\ x \notin Alarms
  <2>1. Release(u, x, cl) = FreeAwait(u, cl) BY <1>5 DEF Release
  <2>2. AwaitFreed(FreeAwait(u, cl), u, cl) BY <1>1, FreesAwait
  <2> QED BY <1>1, <2>1, <2>2 DEF AwaitFreed, ReleaseType
<1> QED BY <1>2, <1>3, <1>4, <1>5

Releases(w, s, n, order, cl) ==
    /\ w \in [0 .. n -> ReleaseType] /\ w[0] = s
    /\ \A i \in 1 .. n : w[i] = Release(w[i - 1], order[i], cl)
    /\ FreeClientResources(s, order, cl) = w[n]

LEMMA ReleaseWalk ==
    ASSUME NEW s \in ReleaseType, NEW cl \in Clients, NEW n \in Nat, NEW order \in [1 .. n -> Resources]
    PROVE  \E w : Releases(w, s, n, order, cl)
<1> DEFINE A == ReleaseType
           f == [p \in A \X (1 .. n) |-> Release(p[1], order[p[2]], cl)]
           Is(h) == h = [I \in SUBSET (1 .. n) |->
                           IF I = {} THEN s ELSE Release(h[I \ {Max(I)}], order[Max(I)], cl)]
           h == CHOOSE i : Is(i)
<1>1. DOMAIN order = 1 .. n /\ s \in A OBVIOUS
<1> HIDE DEF A
<1>2. f \in [A \X (1 .. n) -> A] BY <1>1, ReleasedTyped DEF A
<1>3. PICK g \in [SUBSET (1 .. n) -> A] : Steps(g, n, s, f)
  <2> HIDE DEF f
  <2> QED BY <1>1, <1>2, FoldExists
<1>4. ASSUME NEW I \in SUBSET (1 .. n), I # {}
      PROVE  Max(I) \in 1 .. n /\ I \ {Max(I)} \in SUBSET (1 .. n)
  BY <1>4, LastOf
<1>5. \A I \in SUBSET (1 .. n) : g[I] = IF I = {} THEN s
                                       ELSE Release(g[I \ {Max(I)}], order[Max(I)], cl)
  BY <1>3, <1>4 DEF Steps
<1>6. Is(g) BY <1>5
<1>7. Is(h)
  <2> HIDE DEF Is
  <2> QED BY <1>6
<1>8. FreeClientResources(s, order, cl) = h[1 .. n]
  BY <1>1 DEF FreeClientResources, FoldLeft, MapThenFoldSet
<1>9. Follows(h, A, n, s, f)
  <2> HIDE DEF h
  <2>1. \A I \in SUBSET (1 .. n) :
           /\ I = {} => h[I] = s
           /\ I # {} /\ h[I \ {Max(I)}] \in A => h[I] = f[<<h[I \ {Max(I)}], Max(I)>>]
    BY <1>4, <1>7
  <2> HIDE DEF f
  <2> QED BY <1>1, <1>2, <2>1 DEF Follows
<1>10. PICK w : IsWalk(w, A, n, s, f) /\ w[n] = h[1 .. n]
  <2> HIDE DEF f, h
  <2> QED BY <1>9, WalkOf
<1>11. \A i \in 1 .. n : w[i] = Release(w[i - 1], order[i], cl) BY <1>10 DEF IsWalk
<1> HIDE DEF h
<1> QED BY <1>8, <1>10, <1>11 DEF IsWalk, A, Releases

LEMMA ReleasingKeepsCore ==
    ASSUME NEW s, Core(s), s.dying = None, Quiet(s), s.fate = "running", NEW cl \in Clients,
           NEW n \in Nat, NEW order \in [1 .. n -> Resources], IsInjective(order),
           \A i \in 1 .. n : order[i] \in Alarms => order[i] \in Live(s)
    PROVE  Keeps(FreeClientResources(s, order, cl), s)
<1>1. PICK w : Releases(w, s, n, order, cl)
  <2>1. s \in ReleaseType BY DEF Core, ReleaseType
  <2> QED BY <2>1, ReleaseWalk
<1> DEFINE Left1(u, i) == \A k \in 1 .. n : k > i /\ order[k] \in Alarms => order[k] \in Live(u)
           P(i) == i <= n => Keeps(w[i], s) /\ (w[i].fate = "running" => Left1(w[i], i))
           S == { i \in Nat : P(i) }
<1>2. P(0) BY <1>1 DEF Keeps, SameValues, Changes, Releases
<1>3. ASSUME NEW i \in Nat, P(i) PROVE P(i + 1)
  <2> SUFFICES ASSUME i + 1 <= n
               PROVE  Keeps(w[i + 1], s) /\ (w[i + 1].fate = "running" => Left1(w[i + 1], i + 1))
    OBVIOUS
  <2> DEFINE u == w[i]
             x == order[i + 1]
  <2>1. i + 1 \in 1 .. n /\ i <= n /\ (i + 1) - 1 = i OBVIOUS
  <2>2. w[i + 1] = Release(u, x, cl) BY <1>1, <2>1 DEF Releases
  <2>3. Keeps(u, s) /\ (u.fate = "running" => Left1(u, i)) BY <1>3, <2>1
  <2>4. \A k \in 1 .. n : k > i + 1 => k > i /\ order[k] # x
    <3> SUFFICES ASSUME NEW k \in 1 .. n, k > i + 1 PROVE k > i /\ order[k] # x OBVIOUS
    <3>1. DOMAIN order = 1 .. n /\ k # i + 1 OBVIOUS
    <3> QED BY <2>1, <3>1 DEF IsInjective
  <2>5. u.fate = "running" /\ x \in Alarms => x \in Live(u) BY <2>1, <2>3
  <2> HIDE DEF u, x
  <2> SUFFICES ASSUME NEW r, r = Release(u, x, cl)
               PROVE  Keeps(r, s) /\ (r.fate = "running" => Left1(r, i + 1))
    BY <2>2
  <2>6. CASE u.fate # "running"
    <3>1. r = u BY <2>6 DEF Release
    <3> QED BY <2>3, <2>6, <3>1
  <2>7. CASE u.fate = "running"
    <3>1. Core(u) /\ u.dying = None /\ Quiet(u) /\ u.gone = s.gone BY <2>3, <2>7 DEF Keeps, SameValues, Changes
    <3>2. Keeps(r, u) /\ (Live(u) \cap Alarms) \ {x} \subseteq Live(r)
      <4>1. CASE x \in Counters
        <5>1. r = FreeCounter(u, x) BY <2>7, <4>1 DEF Release
        <5> QED BY <2>7, <3>1, <4>1, <5>1, FreeingCounterKeepsCore
      <4>2. CASE x \notin Counters /\ x \in Alarms
        <5>1. r = FreeAlarm(u, x) BY <2>7, <4>2 DEF Release
        <5> QED BY <2>5, <2>7, <3>1, <4>2, <5>1, FreeingAlarmKeepsCore
      <4>3. CASE x \notin Counters /\ x \notin Alarms
        <5>1. r = FreeAwait(u, cl) BY <2>7, <4>3 DEF Release
        <5>2. AwaitFreed(r, u, cl) BY <3>1, <5>1, FreesAwait DEF Core
        <5>3. Waits(u, cl) \subseteq Live(u) \ Alarms BY <3>1, WaitsAre DEF Core
        <5>4. Core(r) /\ Quiet(r) BY <2>7, <3>1, <5>2, FreedAwaitKeepsCore
        <5> QED BY <3>1, <5>2, <5>3, <5>4 DEF AwaitFreed, Keeps, SameValues, Changes
      <4> QED BY <4>1, <4>2, <4>3
    <3>3. Keeps(r, s) BY <2>3, <3>2 DEF Keeps, SameValues, Changes
    <3>4. Left1(r, i + 1) BY <2>3, <2>4, <2>7, <3>2
    <3> QED BY <3>3, <3>4
  <2> QED BY <2>6, <2>7
<1> HIDE DEF P
<1>4. 0 \in S /\ \A i \in Nat : i \in S => i + 1 \in S BY <1>2, <1>3
<1> HIDE DEF S
<1>5. Nat \subseteq S BY <1>4, Induct
<1>6. P(n) BY <1>5 DEF S
<1>7. Keeps(w[n], s) BY <1>6 DEF P
<1> QED BY <1>1, <1>7 DEF Releases

-----------------------------------------------------------------------------
(* SyncInitTrigger.                                                         *)
TriggerIs(r, s, t, x) ==
    /\ r \in States /\ Listed(r)
    /\ r.value = s.value /\ r.list = s.list /\ r.dying = s.dying /\ r.gone = s.gone
    /\ r.refused = s.refused /\ r.fate = s.fate
    /\ Live(r) = Live(s) \cup {t} /\ \A e \in Live(s) \ {t} : r.trigger[e] = s.trigger[e]
    /\ r.trigger[t] = x

LEMMA AssignsTrigger ==
    ASSUME NEW s \in States, Listed(s), NEW t \in Triggers, NEW x \in TriggerType,
           \/ t \in Live(s) /\ x.counter = s.trigger[t].counter
           \/ \A c \in AllCounters \ {s.dying} : ~Contains(s.list[c], t),
           NEW g, DOMAIN g = Live(s) \cup {t}, g \in [Live(s) \cup {t} -> TriggerType],
           g[t] = x, \A e \in Live(s) \ {t} : g[e] = s.trigger[e],
           NEW r, r = [s EXCEPT !.trigger = g]
    PROVE  TriggerIs(r, s, t, x)
<1>1. Live(s) \cup {t} \in SUBSET Triggers BY TheTable
<1>2. g \in UNION { [D -> TriggerType] : D \in SUBSET Triggers } BY <1>1
<1>3. r \in States BY <1>2 DEF States
<1>4. /\ r.value = s.value /\ r.list = s.list /\ r.dying = s.dying /\ r.gone = s.gone
      /\ r.refused = s.refused /\ r.fate = s.fate /\ r.trigger = g
  BY DEF States
<1>5. Live(r) = Live(s) \cup {t} BY <1>4 DEF Live
<1>6. Listed(r)
  <2> SUFFICES ASSUME NEW c \in AllCounters \ {s.dying}, NEW e \in Triggers, Contains(s.list[c], e)
               PROVE  e \in Live(r) /\ r.trigger[e].counter = c
    BY <1>4 DEF Listed
  <2>1. e \in Live(s) /\ s.trigger[e].counter = c BY DEF Listed
  <2>2. CASE e = t BY <1>4, <1>5, <2>1, <2>2
  <2>3. CASE e # t BY <1>4, <1>5, <2>1, <2>3
  <2> QED BY <2>2, <2>3
<1> QED BY <1>3, <1>4, <1>5, <1>6 DEF TriggerIs

LEMMA SetsTrigger ==
    ASSUME NEW s \in States, Listed(s), NEW t \in Live(s), NEW x \in TriggerType,
           \/ x.counter = s.trigger[t].counter
           \/ \A c \in AllCounters \ {s.dying} : ~Contains(s.list[c], t),
           NEW r, r = [s EXCEPT !.trigger = [s.trigger EXCEPT ![t] = x]]
    PROVE  TriggerIs(r, s, t, x) /\ Live(r) = Live(s)
<1> DEFINE g == [s.trigger EXCEPT ![t] = x]
<1>1. t \in Triggers /\ Live(s) \cup {t} = Live(s) BY TheTable
<1>2. s.trigger \in [Live(s) -> TriggerType] BY TheTable
<1>3. /\ DOMAIN g = Live(s) \cup {t} /\ g \in [Live(s) \cup {t} -> TriggerType]
      /\ g[t] = x /\ \A e \in Live(s) \ {t} : g[e] = s.trigger[e]
  BY <1>1, <1>2
<1> HIDE DEF g
<1>4. TriggerIs(r, s, t, x) BY <1>1, <1>3, AssignsTrigger DEF g
<1> QED BY <1>1, <1>4 DEF TriggerIs

(* What every outcome leaves of the state s: only trigger t has changed.    *)
OthersStay(u, s, t) ==
    /\ u \in States /\ Listed(u) /\ u.dying = None
    /\ u.gone = s.gone /\ u.refused = s.refused /\ u.fate = s.fate
    /\ Live(u) = Live(s) /\ \A e \in Live(s) \ {t} : u.trigger[e] = s.trigger[e]
    /\ \A c \in Counters : u.value[c] = s.value[c]
    /\ \A c \in AllCounters : Exists(s, c) => Exists(u, c)
    /\ \A c \in AllCounters, e \in Triggers \ {t} : Contains(u.list[c], e) <=> Contains(s.list[c], e)

OnlyThis(u, s, t) ==
    /\ OthersStay(u, s, t)
    /\ u.trigger[t].test_type = s.trigger[t].test_type
    /\ u.trigger[t].delta = s.trigger[t].delta /\ u.trigger[t].state = s.trigger[t].state

(* It points to the new counter, and is not yet on its list.                *)
Pointed(u, s, t, new) ==
    /\ OnlyThis(u, s, t) /\ u.trigger[t].counter = new
    /\ \A c \in AllCounters : Contains(u.list[c], t) => Contains(s.list[c], t)
    /\ new = s.trigger[t].counter => \A c \in AllCounters : Contains(u.list[c], t) <=> Contains(s.list[c], t)

LEMMA PointsTo ==
    ASSUME NEW s \in States, Listed(s), s.dying = None, NEW t \in Live(s),
           NEW new \in AllCounters \cup {None}, NEW u, u = PointTo(s, t, new)
    PROVE  Pointed(u, s, t, new) /\ u.trigger[t].CheckTrigger = s.trigger[t].CheckTrigger
<1>1. None \notin AllCounters BY SyncAssumption DEF AllCounters
<1>2. CASE new = s.trigger[t].counter
  <2>1. u = s BY <1>2 DEF PointTo
  <2> QED BY <1>2, <2>1 DEF Pointed, OnlyThis, OthersStay
<1>3. CASE new # s.trigger[t].counter
  <2> DEFINE v == SyncDeleteTriggerFromCounter(s, t)
             x == [s.trigger[t] EXCEPT !.counter = new]
  <2>1. Unlinked(v, s, t) BY DeletesFromList
  <2>2. \A c \in AllCounters, e \in Triggers : Contains(v.list[c], e) <=> Contains(s.list[c], e) /\ e # t
    <3> SUFFICES ASSUME NEW c \in AllCounters, NEW e \in Triggers
                 PROVE  Contains(v.list[c], e) <=> Contains(s.list[c], e) /\ e # t
      OBVIOUS
    <3>1. c \in AllCounters \ {s.dying} BY <1>1
    <3>2. Contains(v.list[c], e) <=> Contains(s.list[c], e) /\ (e = t => c # s.trigger[t].counter)
      BY <2>1, <3>1, WhatIsUnlinked
    <3>3. Contains(s.list[c], e) => s.trigger[e].counter = c BY <3>1 DEF Listed
    <3> QED BY <3>2, <3>3
  <2>3. u = [v EXCEPT !.trigger[t].counter = new] BY <1>3 DEF PointTo
  <2> HIDE DEF v
  <2>4. v \in States /\ Listed(v) /\ Rest(v, s) BY <2>1 DEF Unlinked
  <2>5. v.trigger = s.trigger /\ Live(v) = Live(s) /\ v.dying = None BY <2>4 DEF Rest, Live
  <2>6. s.trigger[t] \in TriggerType BY OneOfStates
  <2>7. /\ x \in TriggerType /\ x.counter = new /\ x.test_type = s.trigger[t].test_type
        /\ x.delta = s.trigger[t].delta /\ x.state = s.trigger[t].state
        /\ x.CheckTrigger = s.trigger[t].CheckTrigger
    BY <2>6 DEF TriggerType
  <2>8. u = [v EXCEPT !.trigger = [v.trigger EXCEPT ![t] = x]]
    BY <2>3, <2>4, <2>5, TheTable DEF States
  <2> HIDE DEF x
  <2>9. t \in Triggers BY TheTable
  <2>10. \A c \in AllCounters \ {v.dying} : ~Contains(v.list[c], t) BY <2>2, <2>9
  <2>11. TriggerIs(u, v, t, x) /\ Live(u) = Live(v) BY <2>4, <2>5, <2>7, <2>8, <2>10, SetsTrigger
  <2>12. OnlyThis(u, s, t)
    BY <2>2, <2>4, <2>5, <2>7, <2>11 DEF TriggerIs, Rest, OnlyThis, OthersStay, Exists
  <2>13. u.trigger[t].counter = new /\ u.list = v.list BY <2>7, <2>11 DEF TriggerIs
  <2>14. \A c \in AllCounters : ~Contains(u.list[c], t) BY <2>2, <2>9, <2>13
  <2> QED BY <1>3, <2>7, <2>11, <2>12, <2>13, <2>14 DEF TriggerIs, Pointed
<1> QED BY <1>2, <1>3

LEMMA Asks ==
    ASSUME NEW s, NEW t, NEW new, NEW v \in States, now \in XSyncValue,
           Pointed(v, s, t, new), NEW u, u = Ask(v, new)
    PROVE  /\ Pointed(u, s, t, new) /\ u.trigger = v.trigger
           /\ new \in AllCounters /\ Exists(s, new) => u.value[new] \in XSyncValue
<1>1. CASE new # SERVERTIME
  <2>1. u = v BY <1>1 DEF Ask
  <2>2. new \in AllCounters /\ Exists(s, new) => v.value[new] \in XSyncValue
    BY DEF Pointed, OnlyThis, OthersStay, Exists, States
  <2> QED BY <2>1, <2>2
<1>2. CASE new = SERVERTIME
  <2> DEFINE x == [v.value EXCEPT ![SERVERTIME] = now]
  <2>1. v.value \in [AllCounters -> XSyncValue \cup {None}] /\ SERVERTIME \in AllCounters
    BY DEF States, AllCounters
  <2>2. /\ x \in [AllCounters -> XSyncValue \cup {None}] /\ x[SERVERTIME] = now
        /\ \A c \in AllCounters \ {SERVERTIME} : x[c] = v.value[c]
    BY <2>1
  <2>3. u = [v EXCEPT !.value = x] BY <1>2 DEF Ask, ServertimeQueryValue, States
  <2> HIDE DEF x
  <2>4. /\ u \in States /\ u.value = x /\ u.list = v.list /\ u.trigger = v.trigger
        /\ u.dying = v.dying /\ u.gone = v.gone /\ u.refused = v.refused /\ u.fate = v.fate
    BY <2>2, <2>3 DEF States
  <2>5. Live(u) = Live(v) BY <2>4 DEF Live
  <2>6. Listed(u) BY <2>4, <2>5 DEF Pointed, OnlyThis, OthersStay, Listed
  <2>7. SERVERTIME \notin Counters /\ None \notin XSyncValue /\ Counters \subseteq AllCounters
    BY SyncAssumption DEF AllCounters
  <2>8. \A c \in Counters : u.value[c] = v.value[c] BY <2>2, <2>4, <2>7
  <2>9. \A c \in AllCounters : Exists(v, c) => Exists(u, c) BY <2>2, <2>4, <2>7 DEF Exists
  <2>10. OnlyThis(u, s, t) BY <2>4, <2>5, <2>6, <2>8, <2>9 DEF Pointed, OnlyThis, OthersStay
  <2> QED BY <1>2, <2>2, <2>4, <2>10 DEF Pointed
<1> QED BY <1>1, <1>2

(* The trigger's test or test value is set.                                 *)
Assigned(u, v, t, x) == u = [v EXCEPT !.trigger = [v.trigger EXCEPT ![t] = x]]

LEMMA KeepsPointed ==
    ASSUME NEW s, NEW t, NEW new, NEW v \in States, t \in Live(v), Pointed(v, s, t, new),
           NEW x \in TriggerType, x.counter = new, x.test_type = v.trigger[t].test_type,
           x.delta = v.trigger[t].delta, x.state = v.trigger[t].state,
           NEW u, Assigned(u, v, t, x)
    PROVE  Pointed(u, s, t, new) /\ u.trigger[t] = x /\ u.value = v.value
<1>1. Listed(v) /\ x.counter = v.trigger[t].counter BY DEF Pointed, OnlyThis, OthersStay
<1>2. TriggerIs(u, v, t, x) /\ Live(u) = Live(v) BY <1>1, SetsTrigger DEF Assigned
<1>3. OnlyThis(u, s, t) BY <1>2 DEF Pointed, OnlyThis, OthersStay, TriggerIs, Exists
<1> QED BY <1>2, <1>3 DEF Pointed, TriggerIs

LEMMA InitsTest ==
    ASSUME NEW s, NEW t, NEW new, NEW v \in States, t \in Live(v), Pointed(v, s, t, new), NEW changes,
           NEW r, r = InitTest(v, t, changes)
    PROVE  /\ r.ok \in BOOLEAN /\ Pointed(r.s, s, t, new) /\ r.s.value = v.value
           /\ r.ok => r.s.trigger[t].CheckTrigger = IF "test_type" \in changes THEN s.trigger[t].test_type
                                                    ELSE v.trigger[t].CheckTrigger
<1> DEFINE q == v.trigger[t]
           x == [q EXCEPT !.CheckTrigger = q.test_type]
<1>1. q \in TriggerType BY OneOfStates
<1>2. CASE "value_type" \in changes /\ q.value_type \notin {"Absolute", "Relative"}
  <2>1. r.s = v /\ r.ok = FALSE BY <1>2 DEF InitTest, Error
  <2> QED BY <2>1
<1>3. CASE ~("value_type" \in changes /\ q.value_type \notin {"Absolute", "Relative"})
           /\ "test_type" \in changes /\ ~KnownType(q.test_type)
  <2>1. r.s = v /\ r.ok = FALSE BY <1>3 DEF InitTest, Error
  <2> QED BY <2>1
<1>4. CASE ~("value_type" \in changes /\ q.value_type \notin {"Absolute", "Relative"})
           /\ "test_type" \in changes /\ KnownType(q.test_type)
  <2>1. r = [ok |-> TRUE, s |-> [v EXCEPT !.trigger[t].CheckTrigger = q.test_type]]
    BY <1>4 DEF InitTest, Ok
  <2>2. q.test_type \in TestTypes BY <1>4 DEF KnownType
  <2>3. /\ x \in TriggerType /\ x.counter = q.counter /\ x.test_type = q.test_type /\ x.delta = q.delta
        /\ x.state = q.state /\ x.CheckTrigger = q.test_type
    BY <1>1, <2>2 DEF TriggerType
  <2>4. Assigned(r.s, v, t, x) BY <2>1, TheTable DEF States, Assigned
  <2>5. q.counter = new /\ q.test_type = s.trigger[t].test_type BY DEF Pointed, OnlyThis, OthersStay
  <2> HIDE DEF x
  <2>6. Pointed(r.s, s, t, new) /\ r.s.trigger[t] = x /\ r.s.value = v.value
    BY <2>3, <2>4, <2>5, KeepsPointed
  <2>7. r.ok = TRUE BY <2>1
  <2> QED BY <1>4, <2>3, <2>5, <2>6, <2>7
<1>5. CASE ~("value_type" \in changes /\ q.value_type \notin {"Absolute", "Relative"})
           /\ "test_type" \notin changes
  <2>1. r.s = v /\ r.ok = TRUE BY <1>5 DEF InitTest, Ok
  <2> QED BY <1>5, <2>1
<1> QED BY <1>2, <1>3, <1>4, <1>5

LEMMA InitsValue ==
    ASSUME NEW s, NEW t, NEW new \in AllCounters \cup {None}, NEW v \in States, t \in Live(v),
           Pointed(v, s, t, new), new # None => v.value[new] \in XSyncValue, NEW changes,
           NEW r, r = InitValue(v, t, changes)
    PROVE  /\ r.ok \in BOOLEAN /\ Pointed(r.s, s, t, new) /\ r.s \in States
           /\ r.s.trigger[t].CheckTrigger = v.trigger[t].CheckTrigger
<1> DEFINE q == v.trigger[t]
           Store(w) == [v EXCEPT !.trigger[t].test_value = w]
           sum == ValueAdd(v.value[q.counter], q.wait_value)
<1>1. q \in TriggerType BY OneOfStates
<1>2. q.counter = new BY DEF Pointed
<1>3. ASSUME NEW w \in XSyncValue, NEW u, u = Store(w)
      PROVE  /\ Pointed(u, s, t, new) /\ u \in States
             /\ u.trigger[t].CheckTrigger = v.trigger[t].CheckTrigger
  <2> DEFINE x == [q EXCEPT !.test_value = w]
  <2>1. /\ x \in TriggerType /\ x.counter = q.counter /\ x.test_type = q.test_type /\ x.delta = q.delta
        /\ x.state = q.state /\ x.CheckTrigger = q.CheckTrigger
    BY <1>1 DEF TriggerType
  <2>2. Assigned(u, v, t, x) BY <1>3, TheTable DEF States, Assigned
  <2> HIDE DEF x
  <2>3. Pointed(u, s, t, new) /\ u.trigger[t] = x BY <1>2, <2>1, <2>2, KeepsPointed
  <2> QED BY <2>1, <2>3 DEF Pointed, OnlyThis, OthersStay
<1>4. q.wait_value \in XSyncValue BY <1>1 DEF TriggerType
<1>5. q.counter # None => sum \in XSyncValue BY <1>2, <1>4, AddIsTyped
<1>6. r = IF {"value_type", "wait_value"} \cap changes = {} THEN Ok(v)
          ELSE IF q.value_type = "Absolute" THEN Ok(Store(q.wait_value))
          ELSE IF q.counter = None THEN Error(v)
          ELSE IF AddOverflows(v.value[q.counter], q.wait_value) THEN Error(Store(sum))
          ELSE Ok(Store(sum))
  BY DEF InitValue
<1> HIDE DEF q, Store, sum
<1>7. r.ok \in BOOLEAN /\ (r.s = v \/ r.s = Store(q.wait_value) \/ (q.counter # None /\ r.s = Store(sum)))
  BY <1>6 DEF Ok, Error
<1> QED BY <1>3, <1>4, <1>5, <1>7

InitDone(r, s, t, new, changes) ==
    /\ r.ok \in BOOLEAN /\ OnlyThis(r.s, s, t)
    /\ \/ r.s.trigger[t].counter = s.trigger[t].counter /\ ~r.ok
       \/ r.s.trigger[t].counter = new /\ (new # None => Exists(s, new))
    /\ ~r.ok => \A c \in AllCounters : Contains(r.s.list[c], t) => Contains(s.list[c], t)
    /\ r.ok => /\ r.s.trigger[t].CheckTrigger = IF "test_type" \in changes THEN s.trigger[t].test_type
                                                ELSE s.trigger[t].CheckTrigger
               /\ new \in AllCounters /\ (new = s.trigger[t].counter => Contains(s.list[new], t))
                  => Contains(r.s.list[new], t)

ListDone(r, s, t, new, v) ==
    /\ r.ok /\ OnlyThis(r.s, s, t) /\ r.s.trigger[t] = v.trigger[t]
    /\ new \in AllCounters /\ (new = s.trigger[t].counter => Contains(s.list[new], t))
       => Contains(r.s.list[new], t)

LEMMA InitsList ==
    ASSUME NEW s, NEW t, NEW new \in AllCounters \cup {None}, NEW v \in States, t \in Live(v),
           Pointed(v, s, t, new), NEW r, r = InitList(v, t, new # s.trigger[t].counter)
    PROVE  ListDone(r, s, t, new, v)
<1> DEFINE isNew == new # s.trigger[t].counter
<1>1. Listed(v) /\ v.dying = None /\ v.trigger[t].counter = new BY DEF Pointed, OnlyThis, OthersStay
<1>2. t \in Triggers BY TheTable
<1>3. CASE isNew
  <2> DEFINE u == SyncAddTriggerToCounter(v, t)
  <2>1. r.ok /\ r.s = u BY <1>3 DEF InitList, Ok
  <2>2. Linked(u, v, t) BY <1>1, AddsToList
  <2> HIDE DEF u
  <2>3. Rest(u, v) /\ u \in States /\ Listed(u) /\ Live(u) = Live(v) BY <2>2 DEF Linked, Rest, Live
  <2>4. \A c \in AllCounters, e \in Triggers \ {t} : Contains(u.list[c], e) <=> Contains(v.list[c], e)
    <3> SUFFICES ASSUME NEW c \in AllCounters, NEW e \in Triggers \ {t}
                 PROVE  Contains(u.list[c], e) <=> Contains(v.list[c], e)
      OBVIOUS
    <3>1. CASE c = new BY <1>1, <2>2, <3>1 DEF Linked
    <3>2. CASE c # new BY <1>1, <2>2, <3>2 DEF Linked
    <3> QED BY <3>1, <3>2
  <2>5. new \in AllCounters => Contains(u.list[new], t) BY <1>1, <1>2, <2>2 DEF Linked
  <2>6. OnlyThis(u, s, t) BY <2>3, <2>4 DEF Pointed, OnlyThis, OthersStay, Rest, Exists
  <2> QED BY <2>1, <2>3, <2>5, <2>6 DEF Rest, ListDone
<1>4. CASE ~isNew /\ new = SERVERTIME
  <2> DEFINE u == SyncComputeBracketValues(v, TRUE)
  <2>1. r.ok /\ r.s = u BY <1>1, <1>4 DEF InitList, Ok
  <2>2. u \in States /\ Listed(u) /\ Rest(u, v) /\ u.list = v.list BY <1>1, ComputesBracket
  <2> HIDE DEF u
  <2>3. Live(u) = Live(v) BY <2>2 DEF Rest, Live
  <2>4. OnlyThis(u, s, t) BY <2>2, <2>3 DEF Pointed, OnlyThis, OthersStay, Rest, Exists
  <2>5. new \in AllCounters /\ Contains(s.list[new], t) => Contains(u.list[new], t)
    BY <1>4, <2>2 DEF Pointed
  <2> QED BY <2>1, <2>2, <2>4, <2>5, <1>4 DEF Rest, ListDone
<1>5. CASE ~isNew /\ new # SERVERTIME
  <2>1. r.ok /\ r.s = v BY <1>1, <1>5 DEF InitList, Ok
  <2>2. new \in AllCounters /\ Contains(s.list[new], t) => Contains(v.list[new], t)
    BY <1>5 DEF Pointed
  <2> QED BY <1>5, <2>1, <2>2 DEF Pointed, ListDone
<1> QED BY <1>3, <1>4, <1>5

(* What SyncInitTrigger does to the one trigger, whether it fails or not.   *)
LEMMA InitsTrigger ==
    ASSUME NEW s \in States, Listed(s), s.dying = None, NEW t \in Live(s), now \in XSyncValue,
           NEW counter, NEW changes, NEW new \in AllCounters \cup {None},
           new = IF "counter" \in changes THEN counter ELSE s.trigger[t].counter,
           NEW r, r = SyncInitTrigger(s, t, counter, changes)
    PROVE  InitDone(r, s, t, new, changes)
<1>1. CASE new # None /\ ~Exists(s, new)
  <2>1. r.s = s /\ r.ok = FALSE BY <1>1 DEF SyncInitTrigger, Error
  <2>2. OnlyThis(s, s, t) BY DEF OnlyThis, OthersStay
  <2> QED BY <2>1, <2>2 DEF InitDone
<1>2. CASE new # None => Exists(s, new)
  <2> DEFINE v == PointTo(s, t, new)
             u == Ask(v, new)
             r2 == InitTest(u, t, changes)
             r3 == IF r2.ok THEN InitValue(r2.s, t, changes) ELSE r2
             r4 == IF r3.ok THEN InitList(r3.s, t, new # s.trigger[t].counter) ELSE r3
  <2>1. r = r4 BY <1>2 DEF SyncInitTrigger, Then
  <2>2. Pointed(v, s, t, new) /\ v.trigger[t].CheckTrigger = s.trigger[t].CheckTrigger BY PointsTo
  <2> HIDE DEF v
  <2>3. v \in States BY <2>2 DEF Pointed, OnlyThis, OthersStay
  <2>4. /\ Pointed(u, s, t, new) /\ u.trigger = v.trigger
        /\ new \in AllCounters /\ Exists(s, new) => u.value[new] \in XSyncValue
    BY <2>2, <2>3, Asks
  <2> HIDE DEF u
  <2>5. u \in States /\ t \in Live(u) BY <2>4 DEF Pointed, OnlyThis, OthersStay
  <2>6. /\ r2.ok \in BOOLEAN /\ Pointed(r2.s, s, t, new) /\ r2.s.value = u.value
        /\ r2.ok => r2.s.trigger[t].CheckTrigger = IF "test_type" \in changes THEN s.trigger[t].test_type
                                                   ELSE s.trigger[t].CheckTrigger
    BY <2>2, <2>4, <2>5, InitsTest
  <2> HIDE DEF r2
  <2>7. r2.s \in States /\ t \in Live(r2.s) BY <2>6 DEF Pointed, OnlyThis, OthersStay
  <2>8. new # None => r2.s.value[new] \in XSyncValue BY <1>2, <2>4, <2>6
  <2>9. /\ r3.ok \in BOOLEAN /\ Pointed(r3.s, s, t, new)
        /\ r3.ok => r3.s.trigger[t].CheckTrigger = IF "test_type" \in changes THEN s.trigger[t].test_type
                                                   ELSE s.trigger[t].CheckTrigger
    <3>1. CASE r2.ok
      <4>1. r3 = InitValue(r2.s, t, changes) BY <3>1
      <4> HIDE DEF r3
      <4>2. /\ r3.ok \in BOOLEAN /\ Pointed(r3.s, s, t, new)
            /\ r3.s.trigger[t].CheckTrigger = r2.s.trigger[t].CheckTrigger
        BY <2>6, <2>7, <2>8, <4>1, InitsValue
      <4> QED BY <2>6, <3>1, <4>2
    <3>2. CASE ~r2.ok BY <2>6, <3>2
    <3> QED BY <3>1, <3>2
  <2> HIDE DEF r3
  <2>10. r3.s \in States /\ t \in Live(r3.s) BY <2>9 DEF Pointed, OnlyThis, OthersStay
  <2>11. CASE r3.ok
    <3>1. r4 = InitList(r3.s, t, new # s.trigger[t].counter) BY <2>11
    <3> HIDE DEF r4
    <3>2. ListDone(r4, s, t, new, r3.s)
      BY <2>9, <2>10, <3>1, InitsList
    <3>3. r4.ok = TRUE
      <4>1. r4.ok = TRUE BY <3>1 DEF InitList, Ok
      <4> QED BY <4>1
    <3> QED BY <1>2, <2>1, <2>9, <2>11, <3>2, <3>3 DEF InitDone, Pointed, ListDone
  <2>12. CASE ~r3.ok
    <3>1. r4 = r3 BY <2>12
    <3> QED BY <1>2, <2>1, <2>9, <2>12, <3>1 DEF InitDone, Pointed
  <2> QED BY <2>9, <2>11, <2>12
<1> QED BY <1>1, <1>2

-----------------------------------------------------------------------------
(* SyncChangeAlarmAttributes.                                               *)
(* What a request can give.                                                 *)
Attributes == {"counter", "value_type", "wait_value", "test_type", "event_threshold", "delta"}

(* The attributes stored: the type, the counter and the test stay.          *)
IsGiven(g, r, req) ==
    /\ g \in TriggerType /\ g.counter = r.counter /\ g.CheckTrigger = r.CheckTrigger
    /\ g.state = r.state /\ g.test_value = r.test_value
    /\ "test_type" \notin DOMAIN req => g.test_type = r.test_type
    /\ "test_type" \in DOMAIN req => g.test_type = req["test_type"]

LEMMA GivenIs ==
    ASSUME NEW r \in TriggerType, NEW req, DOMAIN req \subseteq Attributes,
           \A f \in DOMAIN req : req[f] \in Attribute[f]
    PROVE  IsGiven(Given(r, req), r, req)
<1> DEFINE g == Given(r, req)
           D == {"counter", "value_type", "wait_value", "test_type", "CheckTrigger",
                 "test_value", "event_threshold", "delta", "state"}
           at(f) == IF f \in DOMAIN req \ {"counter"} THEN req[f] ELSE r[f]
<1>1. DOMAIN r = D BY DEF TriggerType
<1>2. g = [f \in D |-> at(f)] BY <1>1 DEF Given
<1>3. \A f \in D : g[f] = at(f) BY <1>2
<1>4. g = [counter |-> at("counter"), value_type |-> at("value_type"), wait_value |-> at("wait_value"),
           test_type |-> at("test_type"), CheckTrigger |-> at("CheckTrigger"), test_value |-> at("test_value"),
           event_threshold |-> at("event_threshold"), delta |-> at("delta"), state |-> at("state")]
  BY <1>2
<1>5. at("counter") = r.counter /\ at("CheckTrigger") = r.CheckTrigger
      /\ at("test_value") = r.test_value /\ at("state") = r.state
  BY DEF Attributes
<1>6. "value_type" \in DOMAIN req => req["value_type"] \in AnyString BY DEF Attribute, AnyString
<1>7. "wait_value" \in DOMAIN req => req["wait_value"] \in XSyncValue BY DEF Attribute
<1>8. "test_type" \in DOMAIN req => req["test_type"] \in AnyString BY DEF Attribute, AnyString
<1>9. "event_threshold" \in DOMAIN req => req["event_threshold"] \in XSyncValue BY DEF Attribute
<1>10. "delta" \in DOMAIN req => req["delta"] \in XSyncValue BY DEF Attribute
<1>11. /\ at("value_type") \in AnyString /\ at("wait_value") \in XSyncValue /\ at("test_type") \in AnyString
       /\ at("event_threshold") \in XSyncValue /\ at("delta") \in XSyncValue
  BY <1>6, <1>7, <1>8, <1>9, <1>10 DEF TriggerType
<1>12. /\ at("counter") \in AllCounters \cup {None, Freed} /\ at("CheckTrigger") \in TestTypes
       /\ at("test_value") \in XSyncValue /\ at("state") \in {"Active", "Inactive"}
  BY <1>5 DEF TriggerType
<1>13. "test_type" \notin DOMAIN req => at("test_type") = r.test_type BY DEF TriggerType
<1>14. "test_type" \in DOMAIN req => at("test_type") = req["test_type"] OBVIOUS
<1> HIDE DEF at, g
<1>15. g \in TriggerType BY <1>4, <1>11, <1>12 DEF TriggerType
<1>16. IsGiven(g, r, req) BY <1>4, <1>5, <1>13, <1>14, <1>15 DEF IsGiven
<1> QED BY <1>16 DEF g

LEMMA OthersStayOn ==
    ASSUME NEW u, NEW v, NEW s, NEW t, OthersStay(v, s, t), OthersStay(u, v, t)
    PROVE  OthersStay(u, s, t)
<1>1. Live(v) = Live(s) BY DEF OthersStay
<1> QED BY <1>1 DEF OthersStay

(* A trigger that may have been set up anew leaves the others as they were. *)
Besides(u, s, t) ==
    /\ u \in States /\ Listed(u) /\ u.refused \subseteq Live(u)
    /\ u.dying = None /\ u.gone = s.gone /\ u.refused = s.refused /\ u.fate = s.fate
    /\ Live(u) = Live(s)
    /\ Kept(u, s.refused \cup {t}) /\ Apart(u)
    /\ \A e \in Live(u) \ {t} : QuietAt(u, e)
    /\ \A e \in Live(u) \ {t} : u.trigger[e].counter \in AllCounters => Exists(u, u.trigger[e].counter)
    /\ \A c \in Counters : u.value[c] = s.value[c]

LEMMA OthersKept ==
    ASSUME NEW s, Core(s), Quiet(s), s.fate = "running", s.dying = None, NEW t \in Live(s) \cap Alarms,
           NEW u, OthersStay(u, s, t)
    PROVE  Besides(u, s, t)
<1>1. /\ u \in States /\ Listed(u) /\ u.dying = None
      /\ u.gone = s.gone /\ u.refused = s.refused /\ u.fate = s.fate
      /\ Live(u) = Live(s) /\ \A e \in Live(s) \ {t} : u.trigger[e] = s.trigger[e]
      /\ \A c \in Counters : u.value[c] = s.value[c]
      /\ \A c \in AllCounters : Exists(s, c) => Exists(u, c)
      /\ \A c \in AllCounters, e \in Triggers \ {t} : Contains(u.list[c], e) <=> Contains(s.list[c], e)
  BY DEF OthersStay
<1>2. s \in States /\ s.refused \subseteq Live(s) /\ Points(s) /\ Kept(s, s.refused) /\ Apart(s) BY DEF Core
<1>3. Live(s) \subseteq Triggers BY <1>2, TheTable
<1>4. Kept(u, s.refused \cup {t})
  <2> SUFFICES ASSUME NEW e \in Live(u) \ (s.refused \cup {t})
               PROVE  /\ u.trigger[e].test_type = u.trigger[e].CheckTrigger /\ u.trigger[e].counter # Freed
                      /\ u.trigger[e].counter \in AllCounters \ {u.dying}
                         => Contains(u.list[u.trigger[e].counter], e)
    BY DEF Kept
  <2>1. e \in Live(s) \ s.refused /\ e # t /\ u.trigger[e] = s.trigger[e] BY <1>1
  <2>2. /\ s.trigger[e].test_type = s.trigger[e].CheckTrigger /\ s.trigger[e].counter # Freed
        /\ s.trigger[e].counter \in AllCounters \ {s.dying} => Contains(s.list[s.trigger[e].counter], e)
    BY <1>2, <2>1 DEF Kept
  <2> QED BY <1>1, <1>3, <2>1, <2>2
<1>5. Apart(u)
  <2> SUFFICES ASSUME AllApart, NEW e \in Live(u) \ Alarms, NEW f \in Live(u) \ Alarms, e # f, e[1] = f[1]
               PROVE  u.trigger[e].counter # u.trigger[f].counter
    BY DEF Apart
  <2>1. e \in Live(s) \ {t} /\ f \in Live(s) \ {t} BY <1>1
  <2> QED BY <1>1, <1>2, <2>1 DEF Apart
<1>6. \A e \in Live(u) \ {t} : QuietAt(u, e)
  <2> SUFFICES ASSUME NEW e \in Live(u) \ {t} PROVE QuietAt(u, e) OBVIOUS
  <2>1. e \in Live(s) /\ u.trigger[e] = s.trigger[e] BY <1>1
  <2>2. QuietAt(s, e) BY <2>1 DEF Quiet
  <2> QED BY <1>1, <2>1, <2>2, QuietStays
<1>7. \A e \in Live(u) \ {t} : u.trigger[e].counter \in AllCounters => Exists(u, u.trigger[e].counter)
  BY <1>1, <1>2 DEF Points
<1>8. u.refused \subseteq Live(u) BY <1>1, <1>2
<1> QED BY <1>1, <1>4, <1>5, <1>6, <1>7, <1>8 DEF Besides

(* Of an alarm set up without an error.                                     *)
SetUp(u, s, a) ==
    /\ u.trigger[a].counter \in AllCounters \cup {None}
    /\ u.trigger[a].counter \in AllCounters => Exists(u, u.trigger[a].counter)
    /\ a \notin s.refused =>
          /\ u.trigger[a].test_type = u.trigger[a].CheckTrigger
          /\ u.trigger[a].counter \in AllCounters => Contains(u.list[u.trigger[a].counter], a)

LEMMA SetUpKeepsCore ==
    ASSUME NEW s, s.fate = "running", s.dying = None, NEW a \in Live(s), NEW u, Besides(u, s, a), SetUp(u, s, a)
    PROVE  Core(u)
<1>1. None \notin AllCounters /\ Freed \notin AllCounters \cup {None} BY SyncAssumption DEF AllCounters
<1>2. Points(u) BY DEF Points, Besides, SetUp
<1>3. Kept(u, u.refused)
  <2> SUFFICES ASSUME NEW e \in Live(u) \ u.refused
               PROVE  /\ u.trigger[e].test_type = u.trigger[e].CheckTrigger /\ u.trigger[e].counter # Freed
                      /\ u.trigger[e].counter \in AllCounters \ {u.dying}
                         => Contains(u.list[u.trigger[e].counter], e)
    BY DEF Kept
  <2>1. CASE e = a BY <1>1, <2>1 DEF SetUp, Besides
  <2>2. CASE e # a BY <2>2 DEF Besides, Kept
  <2> QED BY <2>1, <2>2
<1> QED BY <1>2, <1>3 DEF Core, Besides

(* What SyncChangeAlarmAttributes leaves.                                   *)
AttributesDone(r, s, a) ==
    /\ r.ok \in BOOLEAN /\ OthersStay(r.s, s, a)
    /\ r.ok => SetUp(r.s, s, a)
    /\ ~r.ok => \A c \in AllCounters : Contains(r.s.list[c], a) => Contains(s.list[c], a)
    /\ ~r.ok /\ r.s.trigger[a].counter \in AllCounters => Exists(r.s, r.s.trigger[a].counter)

LEMMA StoresAttributes ==
    ASSUME NEW s \in States, Listed(s), s.dying = None, NEW a \in Live(s),
           NEW req, Gives(req, AlarmFields), NEW u, u = Stored(s, a, req)
    PROVE  /\ OthersStay(u, s, a) /\ u.list = s.list /\ u.value = s.value
           /\ IsGiven(u.trigger[a], s.trigger[a], req)
<1> DEFINE x == Given(s.trigger[a], req)
<1>1. s.trigger[a] \in TriggerType BY OneOfStates
<1>2. DOMAIN req \subseteq Attributes /\ \A f \in DOMAIN req : req[f] \in Attribute[f]
  BY DEF Gives, AlarmFields, Attributes
<1>3. IsGiven(x, s.trigger[a], req) BY <1>1, <1>2, GivenIs
<1>4. u = [s EXCEPT !.trigger = [s.trigger EXCEPT ![a] = x]] BY TheTable DEF Stored, States
<1> HIDE DEF x
<1>5. x \in TriggerType /\ x.counter = s.trigger[a].counter BY <1>3 DEF IsGiven
<1>6. TriggerIs(u, s, a, x) /\ Live(u) = Live(s) BY <1>4, <1>5, SetsTrigger
<1>7. OthersStay(u, s, a) BY <1>6 DEF TriggerIs, OthersStay, Exists
<1> QED BY <1>3, <1>6, <1>7 DEF TriggerIs

(* The state is set at the end.                                             *)
LEMMA SetsState ==
    ASSUME NEW s, NEW v \in States, NEW a \in Live(v), OthersStay(v, s, a),
           NEW st \in {"Active", "Inactive"},
           NEW u, u = [v EXCEPT !.trigger[a].state = st]
    PROVE  /\ OthersStay(u, s, a) /\ u.list = v.list /\ u.value = v.value
           /\ u.trigger[a] = [v.trigger[a] EXCEPT !.state = st]
           /\ v.trigger[a] \in TriggerType
<1> DEFINE x == [v.trigger[a] EXCEPT !.state = st]
<1>1. v.trigger[a] \in TriggerType BY OneOfStates
<1>2. x \in TriggerType /\ x.counter = v.trigger[a].counter BY <1>1 DEF TriggerType
<1>3. u = [v EXCEPT !.trigger = [v.trigger EXCEPT ![a] = x]] BY TheTable DEF States
<1> HIDE DEF x
<1>4. Listed(v) BY DEF OthersStay
<1>5. TriggerIs(u, v, a, x) /\ Live(u) = Live(v) BY <1>2, <1>3, <1>4, SetsTrigger
<1>6. OthersStay(u, s, a) BY <1>5 DEF TriggerIs, OthersStay, Exists
<1> QED BY <1>1, <1>5, <1>6 DEF TriggerIs, x

LEMMA SetsAttributes ==
    ASSUME NEW s, Core(s), s.fate = "running", s.dying = None, NEW a \in Live(s),
           s.trigger[a].counter # Freed, now \in XSyncValue,
           NEW req, Gives(req, AlarmFields), NEW r, r = SyncChangeAlarmAttributes(s, a, req)
    PROVE  AttributesDone(r, s, a)
<1> DEFINE counter == IF "counter" \in DOMAIN req THEN req.counter ELSE s.trigger[a].counter
           u == Stored(s, a, req)
           new == IF "counter" \in DOMAIN req THEN counter ELSE u.trigger[a].counter
           q == SyncInitTrigger(u, a, counter, DOMAIN req)
           v == [q.s EXCEPT !.trigger[a].state = "Active"]
<1>1. s \in States /\ Listed(s) /\ Points(s) BY DEF Core
<1>2. /\ OthersStay(u, s, a) /\ u.list = s.list /\ u.value = s.value
      /\ IsGiven(u.trigger[a], s.trigger[a], req)
  BY <1>1, StoresAttributes
<1>3. r = IF {"delta", "test_type"} \cap DOMAIN req # {} /\ ~Matches(u.trigger[a]) THEN Error(u)
          ELSE IF q.ok THEN Ok(v) ELSE q
  BY DEF SyncChangeAlarmAttributes, CheckAttributes, Then
<1>4. s.trigger[a].counter \in AllCounters \cup {None}
  BY <1>1, OneOfStates DEF TriggerType
<1>5. counter \in AllCounters \cup {None}
  <2>1. CASE "counter" \in DOMAIN req
    <3>1. req["counter"] \in Attribute["counter"] BY <2>1 DEF Gives
    <3>2. req["counter"] \in AllCounters \cup {None} BY <3>1 DEF Attribute, AllCounters
    <3> QED BY <2>1, <3>2
  <2>2. CASE "counter" \notin DOMAIN req BY <1>4, <2>2
  <2> QED BY <2>1, <2>2
<1>6. u.trigger[a].counter = s.trigger[a].counter /\ u.trigger[a].CheckTrigger = s.trigger[a].CheckTrigger
      /\ ("test_type" \notin DOMAIN req => u.trigger[a].test_type = s.trigger[a].test_type)
  BY <1>2 DEF IsGiven
<1>7. new \in AllCounters \cup {None} BY <1>4, <1>5, <1>6
<1>8. u \in States /\ Listed(u) /\ u.dying = None /\ a \in Live(u) BY <1>2 DEF OthersStay
<1> HIDE DEF u
<1>9. InitDone(q, u, a, new, DOMAIN req) BY <1>7, <1>8, InitsTrigger
<1> HIDE DEF q, new, counter
<1>10. OthersStay(q.s, u, a) BY <1>9 DEF InitDone, OnlyThis
<1>11. OthersStay(q.s, s, a) BY <1>2, <1>10, OthersStayOn
<1>12. s.trigger[a].counter \in AllCounters => Exists(s, s.trigger[a].counter) BY <1>1 DEF Points
<1>13. a \notin s.refused => /\ s.trigger[a].test_type = s.trigger[a].CheckTrigger
                             /\ s.trigger[a].counter \in AllCounters => Contains(s.list[s.trigger[a].counter], a)
  <2>1. None \notin AllCounters BY SyncAssumption DEF AllCounters
  <2> QED BY <2>1 DEF Core, Kept
<1>14. CASE r = Error(u)
  <2>1. r.s = u /\ r.ok = FALSE BY <1>14 DEF Error
  <2>2. u.trigger[a].counter \in AllCounters => Exists(u, u.trigger[a].counter)
    BY <1>2, <1>6, <1>12 DEF Exists
  <2> QED BY <1>2, <2>1, <2>2 DEF AttributesDone
<1>15. CASE r = q /\ ~q.ok
  <2>1. \A c \in AllCounters : Contains(q.s.list[c], a) => Contains(s.list[c], a)
    BY <1>2, <1>9, <1>15 DEF InitDone
  <2>2. q.s.trigger[a].counter \in AllCounters => Exists(s, q.s.trigger[a].counter)
    <3>1. \/ q.s.trigger[a].counter = s.trigger[a].counter
          \/ q.s.trigger[a].counter = new /\ (new # None => Exists(u, new))
      BY <1>6, <1>9 DEF InitDone
    <3>2. Exists(u, new) => Exists(s, new) BY <1>2 DEF Exists
    <3>3. None \notin AllCounters BY SyncAssumption DEF AllCounters
    <3> QED BY <1>12, <3>1, <3>2, <3>3
  <2>3. q.s.trigger[a].counter \in AllCounters => Exists(q.s, q.s.trigger[a].counter)
    BY <1>11, <2>2 DEF OthersStay
  <2>4. q.ok \in BOOLEAN BY <1>9 DEF InitDone
  <2> QED BY <1>11, <1>15, <2>1, <2>3, <2>4 DEF AttributesDone
<1>16. CASE r = Ok(v) /\ q.ok
  <2>1. r.s = v /\ r.ok = TRUE BY <1>16 DEF Ok
  <2>2. q.s \in States /\ a \in Live(q.s) BY <1>8, <1>11 DEF OthersStay
  <2>3. /\ OthersStay(v, s, a) /\ v.list = q.s.list /\ v.value = q.s.value
        /\ v.trigger[a] = [q.s.trigger[a] EXCEPT !.state = "Active"]
        /\ q.s.trigger[a] \in TriggerType
    BY <1>11, <2>2, SetsState
  <2> HIDE DEF v
  <2>4. /\ v.trigger[a].counter = q.s.trigger[a].counter
        /\ v.trigger[a].test_type = q.s.trigger[a].test_type
        /\ v.trigger[a].CheckTrigger = q.s.trigger[a].CheckTrigger
    BY <2>3 DEF TriggerType
  <2>5. /\ q.s.trigger[a].counter = new /\ (new # None => Exists(u, new))
        /\ q.s.trigger[a].test_type = u.trigger[a].test_type
        /\ q.s.trigger[a].CheckTrigger = IF "test_type" \in DOMAIN req THEN u.trigger[a].test_type
                                         ELSE u.trigger[a].CheckTrigger
        /\ new \in AllCounters /\ (new = u.trigger[a].counter => Contains(u.list[new], a))
           => Contains(q.s.list[new], a)
    BY <1>9, <1>16 DEF InitDone, OnlyThis
  <2>6. new \in AllCounters => Exists(v, new)
    <3>1. new \in AllCounters => Exists(s, new)
      <4>1. None \notin AllCounters BY SyncAssumption DEF AllCounters
      <4> QED BY <1>2, <2>5, <4>1 DEF Exists
    <3> QED BY <2>3, <3>1 DEF OthersStay
  <2>7. ASSUME a \notin s.refused
        PROVE  /\ v.trigger[a].test_type = v.trigger[a].CheckTrigger
               /\ new \in AllCounters => Contains(v.list[new], a)
    <3>1. v.trigger[a].test_type = v.trigger[a].CheckTrigger BY <1>6, <1>13, <2>4, <2>5, <2>7
    <3>2. new \in AllCounters => Contains(v.list[new], a) BY <1>2, <1>6, <1>13, <2>3, <2>5, <2>7
    <3> QED BY <3>1, <3>2
  <2>8. SetUp(v, s, a) BY <1>7, <2>4, <2>5, <2>6, <2>7 DEF SetUp
  <2> QED BY <2>1, <2>3, <2>8 DEF AttributesDone
<1>17. (r = Error(u)) \/ (r = q /\ ~q.ok) \/ (r = Ok(v) /\ q.ok) BY <1>3
<1> QED BY <1>14, <1>15, <1>16, <1>17

(* The alarm goes off at once if it is TRUE.                                *)
LEMMA AtOnce ==
    ASSUME NEW u, Core(u), u.fate = "running", u.dying = None, NEW a \in Live(u) \cap Alarms,
           \A e \in Live(u) \ {a} : QuietAt(u, e),
           NEW x, x = IF IsTrue(u, a) THEN SyncAlarmTriggerFired(u, a) ELSE u
    PROVE  Keeps(x, u)
<1>1. CASE IsTrue(u, a)
  <2>1. x = SyncAlarmTriggerFired(u, a) BY <1>1
  <2>2. /\ Core(x)
        /\ \E st \in {"Active", "Inactive"}, test \in XSyncValue : AlarmChanged(x, u, a, st, test)
        /\ x.fate = "running" => QuietAt(x, a)
        /\ \A t \in Live(x) \ {a} : QuietAt(u, t) => QuietAt(x, t)
    BY <2>1, FiredAlarmKeepsCore
  <2>3. x.dying = None /\ x.gone = u.gone /\ Live(x) = Live(u) /\ x.value = u.value
    BY <2>2 DEF AlarmChanged
  <2>4. x.fate = "running" => Quiet(x) BY <2>2, <2>3 DEF Quiet
  <2> QED BY <2>2, <2>3, <2>4 DEF Keeps, SameValues, Changes
<1>2. CASE ~IsTrue(u, a)
  <2>1. ~CheckTrigger(u, a, u.value[u.trigger[a].counter]) BY <1>2 DEF IsTrue
  <2>2. QuietAt(u, a) BY <2>1, NotYetTrue
  <2>3. Quiet(u) BY <2>2 DEF Quiet
  <2> QED BY <1>2, <2>3 DEF Keeps, SameValues, Changes
<1> QED BY <1>1, <1>2

LEMMA KeepsOn ==
    ASSUME NEW x, NEW u, NEW s, Keeps(x, u), u.gone = s.gone, \A c \in Counters : u.value[c] = s.value[c]
    PROVE  Keeps(x, s)
BY DEF Keeps, SameValues, Changes

LEMMA ChangingAlarmKeepsCore ==
    ASSUME NEW s, Core(s), s.dying = None, Quiet(s), s.fate = "running", now \in XSyncValue,
           NEW a \in Live(s) \cap Alarms, s.trigger[a].counter # Freed,
           NEW req, Gives(req, AlarmFields)
    PROVE  Keeps(Changed(SyncChangeAlarmAttributes(s, a, req), a), s)
<1> DEFINE r == SyncChangeAlarmAttributes(s, a, req)
           u == r.s
           x == Changed(r, a)
<1>1. AttributesDone(r, s, a) BY SetsAttributes
<1>2. x = IF ~r.ok THEN [u EXCEPT !.refused = @ \cup {a}]
          ELSE IF IsTrue(u, a) THEN SyncAlarmTriggerFired(u, a) ELSE u
  BY DEF Changed
<1> HIDE DEF r, x
<1>3. Besides(u, s, a) BY <1>1, OthersKept DEF AttributesDone
<1>4. /\ u \in States /\ Listed(u) /\ u.dying = None /\ u.fate = "running" /\ u.gone = s.gone
      /\ u.refused = s.refused /\ Live(u) = Live(s) /\ u.refused \subseteq Live(u)
  BY <1>3 DEF Besides
<1>5. ASSUME r.ok PROVE Keeps(x, s)
  <2>1. Core(u) BY <1>1, <1>3, <1>5, SetUpKeepsCore DEF AttributesDone
  <2>2. \A e \in Live(u) \ {a} : QuietAt(u, e) BY <1>3 DEF Besides
  <2>3. Keeps(x, u) BY <1>2, <1>4, <1>5, <2>1, <2>2, AtOnce
  <2> QED BY <1>3, <1>4, <2>3, KeepsOn DEF Besides
<1>6. ASSUME ~r.ok PROVE Keeps(x, s)
  <2>1. x = [u EXCEPT !.refused = u.refused \cup {a}] BY <1>2, <1>4, <1>6 DEF States
  <2>2. /\ x \in States /\ x.refused = s.refused \cup {a} /\ x.value = u.value /\ x.list = u.list
        /\ x.trigger = u.trigger /\ x.dying = None /\ x.gone = s.gone /\ x.fate = "running"
    BY <1>4, <2>1 DEF States
  <2>3. Live(x) = Live(u) BY <2>2 DEF Live
  <2>4. Listed(x) BY <1>4, <2>2, <2>3 DEF Listed
  <2>5. Points(x)
    <3> SUFFICES ASSUME NEW e \in Live(x), x.trigger[e].counter \in AllCounters
                 PROVE  Exists(x, x.trigger[e].counter)
      BY DEF Points
    <3>1. CASE e = a BY <1>1, <1>6, <2>2, <3>1 DEF AttributesDone, Exists
    <3>2. CASE e # a BY <1>3, <2>2, <2>3, <3>2 DEF Besides, Exists
    <3> QED BY <3>1, <3>2
  <2>6. Kept(x, x.refused)
    <3> SUFFICES ASSUME NEW e \in Live(x) \ x.refused
                 PROVE  /\ x.trigger[e].test_type = x.trigger[e].CheckTrigger /\ x.trigger[e].counter # Freed
                        /\ x.trigger[e].counter \in AllCounters \ {x.dying}
                           => Contains(x.list[x.trigger[e].counter], e)
      BY DEF Kept
    <3> QED BY <1>3, <1>4, <2>2, <2>3 DEF Besides, Kept
  <2>7. Apart(x) BY <1>3, <2>2, <2>3 DEF Besides, Apart
  <2>8. Quiet(x)
    <3> SUFFICES ASSUME NEW e \in Live(x) PROVE QuietAt(x, e) BY DEF Quiet
    <3>1. CASE e = a BY <2>2, <3>1 DEF QuietAt
    <3>2. CASE e # a
      <4>1. QuietAt(u, e) BY <1>3, <2>3, <3>2 DEF Besides
      <4> QED BY <1>4, <2>2, <4>1 DEF QuietAt, Still
    <3> QED BY <3>1, <3>2
  <2>9. x.refused \subseteq Live(x) BY <1>4, <2>2, <2>3
  <2>10. SameValues(x, s) BY <1>3, <2>2 DEF Besides, SameValues
  <2> QED BY <2>2, <2>4, <2>5, <2>6, <2>7, <2>8, <2>9, <2>10 DEF Keeps, Changes, Core
<1>7. r.ok \in BOOLEAN BY <1>1 DEF AttributesDone
<1> QED BY <1>5, <1>6 DEF x, r

LEMMA NoTriggerTyped == NoTrigger \in TriggerType /\ NoTrigger.counter = None
<1>1. "PositiveComparison" \in TestTypes BY DEF TestTypes, Comparisons
<1>2. Zero \in XSyncValue /\ One \in XSyncValue BY ValuesTyped
<1> QED BY <1>1, <1>2 DEF NoTrigger, TriggerType, AnyString

(* A new trigger is registered.                                             *)
LEMMA Registers ==
    ASSUME NEW s \in States, Listed(s), s.dying = None, NEW t \in Triggers \ Live(s), NEW x \in TriggerType,
           NEW u, u = Register(s, t, x)
    PROVE  TriggerIs(u, s, t, x) /\ \A c \in AllCounters : ~Contains(u.list[c], t)
<1> DEFINE g == [e \in Live(s) \cup {t} |-> IF e = t THEN x ELSE s.trigger[e]]
<1>1. None \notin AllCounters BY SyncAssumption DEF AllCounters
<1>2. \A c \in AllCounters : ~Contains(s.list[c], t) BY <1>1 DEF Listed
<1>3. u = [s EXCEPT !.trigger = g] BY DEF Register, Live, States
<1>4. s.trigger \in [Live(s) -> TriggerType] BY TheTable
<1>5. DOMAIN g = Live(s) \cup {t} /\ g \in [Live(s) \cup {t} -> TriggerType] BY <1>4
<1>6. g[t] = x /\ \A e \in Live(s) \ {t} : g[e] = s.trigger[e] OBVIOUS
<1> HIDE DEF g
<1>7. TriggerIs(u, s, t, x) BY <1>2, <1>3, <1>5, <1>6, AssignsTrigger
<1> QED BY <1>2, <1>7 DEF TriggerIs

LEMMA NewAlarmKeepsCore ==
    ASSUME NEW s, Core(s), s.dying = None, Quiet(s), s.fate = "running",
           NEW a \in Alarms \ Live(s), NEW u, u = Register(s, a, NoTrigger)
    PROVE  /\ Keeps(u, s) /\ TriggerIs(u, s, a, NoTrigger) /\ a \notin u.refused
           /\ \A c \in AllCounters : ~Contains(u.list[c], a)
<1>1. None \notin AllCounters /\ Freed # None BY SyncAssumption DEF AllCounters
<1>2. s \in States /\ Listed(s) /\ s.refused \subseteq Live(s) /\ Points(s) /\ Kept(s, s.refused) /\ Apart(s)
  BY DEF Core
<1>3. a \in Triggers BY DEF Triggers
<1>4. TriggerIs(u, s, a, NoTrigger) /\ \A c \in AllCounters : ~Contains(u.list[c], a)
  BY <1>2, <1>3, NoTriggerTyped, Registers
<1>5. /\ u \in States /\ Listed(u)
      /\ u.value = s.value /\ u.list = s.list /\ u.dying = None /\ u.gone = s.gone
      /\ u.refused = s.refused /\ u.fate = "running"
      /\ Live(u) = Live(s) \cup {a} /\ \A e \in Live(s) \ {a} : u.trigger[e] = s.trigger[e]
      /\ u.trigger[a] = NoTrigger
  BY <1>4 DEF TriggerIs
<1>6. NoTrigger.counter = None /\ NoTrigger.test_type = NoTrigger.CheckTrigger BY DEF NoTrigger
<1>7. Points(u) BY <1>1, <1>2, <1>5, <1>6 DEF Points, Exists
<1>8. Kept(u, u.refused)
  <2> SUFFICES ASSUME NEW e \in Live(u) \ u.refused
               PROVE  /\ u.trigger[e].test_type = u.trigger[e].CheckTrigger /\ u.trigger[e].counter # Freed
                      /\ u.trigger[e].counter \in AllCounters \ {u.dying}
                         => Contains(u.list[u.trigger[e].counter], e)
    BY DEF Kept
  <2>1. CASE e = a BY <1>1, <1>5, <1>6, <2>1
  <2>2. CASE e # a BY <1>2, <1>5, <2>2 DEF Kept
  <2> QED BY <2>1, <2>2
<1>9. Apart(u)
  <2> SUFFICES ASSUME AllApart, NEW e \in Live(u) \ Alarms, NEW f \in Live(u) \ Alarms, e # f, e[1] = f[1]
               PROVE  u.trigger[e].counter # u.trigger[f].counter
    BY DEF Apart
  <2>1. e \in Live(s) \ {a} /\ f \in Live(s) \ {a} BY <1>5
  <2> QED BY <1>2, <1>5, <2>1 DEF Apart
<1>10. Quiet(u)
  <2> SUFFICES ASSUME NEW e \in Live(u) PROVE QuietAt(u, e) BY DEF Quiet
  <2>1. CASE e = a
    <3>1. Counters \subseteq AllCounters BY DEF AllCounters
    <3> QED BY <1>1, <1>5, <1>6, <2>1, <3>1 DEF QuietAt
  <2>2. CASE e # a
    <3>1. QuietAt(s, e) BY <1>5, <2>2 DEF Quiet
    <3> QED BY <1>5, <2>2, <3>1, QuietStays
  <2> QED BY <2>1, <2>2
<1>11. Core(u) BY <1>2, <1>5, <1>7, <1>8, <1>9 DEF Core
<1> QED BY <1>2, <1>4, <1>5, <1>10, <1>11 DEF Keeps, SameValues, Changes

LEMMA CreatingAlarmKeepsCore ==
    ASSUME NEW s, Core(s), s.dying = None, Quiet(s), s.fate = "running", now \in XSyncValue,
           NEW a \in Alarms \ Live(s), NEW req, Gives(req, AlarmFields)
    PROVE  Keeps(Created(SyncChangeAlarmAttributes(Register(s, a, NoTrigger), a, req), a), s)
<1> DEFINE p == Register(s, a, NoTrigger)
           r == SyncChangeAlarmAttributes(p, a, req)
           u == r.s
           v == [u EXCEPT !.trigger[a].state = "Inactive"]
           x == Created(r, a)
<1>1. /\ Keeps(p, s) /\ TriggerIs(p, s, a, NoTrigger) /\ a \notin p.refused
      /\ \A c \in AllCounters : ~Contains(p.list[c], a)
  BY NewAlarmKeepsCore
<1> HIDE DEF p
<1>2. /\ Core(p) /\ p.dying = None /\ p.gone = s.gone /\ p.fate = "running" /\ Quiet(p)
      /\ a \in Live(p) /\ p.trigger[a].counter = None /\ p.value = s.value
  BY <1>1, NoTriggerTyped DEF Keeps, SameValues, Changes, TriggerIs
<1>3. Freed # None /\ None \notin AllCounters BY SyncAssumption DEF AllCounters
<1>4. AttributesDone(r, p, a) BY <1>2, <1>3, SetsAttributes
<1>5. r.ok \in BOOLEAN BY <1>4 DEF AttributesDone
<1>6. x = IF ~r.ok THEN Forget(u, {a})
          ELSE IF u.trigger[a].counter = None THEN v
          ELSE IF IsTrue(u, a) THEN SyncAlarmTriggerFired(u, a) ELSE u
  BY <1>5 DEF Created
<1> HIDE DEF r, x
<1>7. Besides(u, p, a) BY <1>2, <1>4, OthersKept DEF AttributesDone
<1>8. /\ u \in States /\ Listed(u) /\ u.dying = None /\ u.fate = "running" /\ u.gone = s.gone
      /\ u.refused = p.refused /\ Live(u) = Live(p) /\ u.refused \subseteq Live(u)
      /\ \A c \in Counters : u.value[c] = s.value[c]
  BY <1>2, <1>7 DEF Besides
<1>9. ASSUME ~r.ok PROVE Keeps(x, s)
  <2>1. x = Forget(u, {a}) BY <1>6, <1>9
  <2>2. \A c \in AllCounters : ~Contains(u.list[c], a) BY <1>1, <1>4, <1>9 DEF AttributesDone
  <2>3. \A c \in AllCounters \ {u.dying} : \A e \in Triggers : Contains(u.list[c], e) => e \notin {a}
    BY <2>2
  <2>4. /\ x \in States /\ Listed(x)
        /\ x.value = u.value /\ x.list = u.list /\ x.dying = u.dying /\ x.gone = u.gone
        /\ x.refused = u.refused /\ x.fate = u.fate
        /\ Live(x) = Live(u) \ {a} /\ \A t \in Live(x) : x.trigger[t] = u.trigger[t]
    BY <1>8, <2>1, <2>3, Forgets
  <2>5. x.refused \subseteq Live(x) BY <1>1, <1>8, <2>4
  <2>6. Points(x) BY <1>7, <2>4 DEF Besides, Points, Exists
  <2>7. Kept(x, x.refused)
    <3> SUFFICES ASSUME NEW e \in Live(x) \ x.refused
                 PROVE  /\ x.trigger[e].test_type = x.trigger[e].CheckTrigger /\ x.trigger[e].counter # Freed
                        /\ x.trigger[e].counter \in AllCounters \ {x.dying}
                           => Contains(x.list[x.trigger[e].counter], e)
      BY DEF Kept
    <3> QED BY <1>7, <1>8, <2>4 DEF Besides, Kept
  <2>8. Apart(x) BY <1>7, <2>4 DEF Besides, Apart
  <2>9. Quiet(x)
    <3> SUFFICES ASSUME NEW e \in Live(x) PROVE QuietAt(x, e) BY DEF Quiet
    <3>1. QuietAt(u, e) BY <1>7, <2>4 DEF Besides
    <3> QED BY <2>4, <3>1, QuietStays
  <2> QED BY <1>8, <2>4, <2>5, <2>6, <2>7, <2>8, <2>9 DEF Keeps, SameValues, Changes, Core
<1>10. ASSUME r.ok, u.trigger[a].counter = None PROVE Keeps(x, s)
  <2>1. x = v BY <1>6, <1>10
  <2>2. OthersStay(u, p, a) /\ SetUp(u, p, a) BY <1>4, <1>10 DEF AttributesDone
  <2>3. /\ OthersStay(v, p, a) /\ v.list = u.list /\ v.value = u.value
        /\ v.trigger[a] = [u.trigger[a] EXCEPT !.state = "Inactive"]
        /\ u.trigger[a] \in TriggerType
    BY <1>2, <1>8, <2>2, SetsState
  <2> HIDE DEF v
  <2>4. /\ v.trigger[a].counter = u.trigger[a].counter
        /\ v.trigger[a].test_type = u.trigger[a].test_type
        /\ v.trigger[a].CheckTrigger = u.trigger[a].CheckTrigger
    BY <2>3 DEF TriggerType
  <2>5. SetUp(v, p, a) BY <2>2, <2>3, <2>4 DEF SetUp, Exists
  <2>6. Besides(v, p, a) BY <1>2, <2>3, OthersKept
  <2>7. Core(v) BY <1>2, <2>5, <2>6, SetUpKeepsCore
  <2>8. Quiet(v)
    <3> SUFFICES ASSUME NEW e \in Live(v) PROVE QuietAt(v, e) BY DEF Quiet
    <3>1. CASE e = a
      <4>1. v.trigger[a].counter \notin Counters BY <1>3, <1>10, <2>4 DEF AllCounters
      <4> QED BY <3>1, <4>1 DEF QuietAt
    <3>2. CASE e # a BY <2>6, <3>2 DEF Besides
    <3> QED BY <3>1, <3>2
  <2> QED BY <1>2, <2>1, <2>6, <2>7, <2>8 DEF Keeps, SameValues, Changes, Besides
<1>11. ASSUME r.ok, u.trigger[a].counter # None PROVE Keeps(x, s)
  <2>1. Core(u) BY <1>2, <1>4, <1>7, <1>11, SetUpKeepsCore DEF AttributesDone
  <2>2. \A e \in Live(u) \ {a} : QuietAt(u, e) BY <1>7 DEF Besides
  <2>3. a \in Live(u) \cap Alarms BY <1>2, <1>8
  <2>4. Keeps(x, u) BY <1>6, <1>8, <1>11, <2>1, <2>2, <2>3, AtOnce
  <2> QED BY <1>8, <2>4, KeepsOn
<1> QED BY <1>9, <1>10, <1>11 DEF x, r, p

-----------------------------------------------------------------------------
(* Await.                                                                   *)
AddOne(r, cl, conds, i) == IF r.ok THEN Condition(r.s, cl, conds[i], <<cl, i>>) ELSE r

LEMMA AddsInTurn ==
    ASSUME NEW s, NEW cl, NEW conds, DOMAIN conds \in {{1}, {1, 2}}
    PROVE  AddConditions(s, cl, conds) =
              IF DOMAIN conds = {1} THEN AddOne(Ok(s), cl, conds, 1)
              ELSE AddOne(AddOne(Ok(s), cl, conds, 1), cl, conds, 2)
<1> DEFINE D == DOMAIN conds
           op(r, i) == AddOne(r, cl, conds, i)
           b == Ok(s)
           seq == [i \in D |-> i]
           Is(h) == h = [I \in SUBSET D |-> IF I = {} THEN b ELSE op(h[I \ {Max(I)}], seq[Max(I)])]
           h == CHOOSE i : Is(i)
           g == [I \in SUBSET D |-> IF I = {} THEN b
                                    ELSE IF I = {1} THEN op(b, 1)
                                    ELSE IF I = {2} THEN op(b, 2)
                                    ELSE op(op(b, 1), 2)]
<1>1. DOMAIN seq = D /\ \A i \in D : seq[i] = i OBVIOUS
<1>2. AddConditions(s, cl, conds) = h[D]
  <2>1. AddConditions(s, cl, conds) =
          FoldLeft(LAMBDA r, i : Then(r, LAMBDA u : Condition(u, cl, conds[i], <<cl, i>>)), b, seq)
    BY DEF AddConditions
  <2> HIDE DEF seq, b
  <2> QED BY <1>1, <2>1 DEF FoldLeft, MapThenFoldSet, AddOne, Then
<1> HIDE DEF seq
<1>3. Max({1}) = 1 /\ Max({2}) = 2 /\ Max({1, 2}) = 2
  <2>1. 1 .. 1 = {1} /\ 1 .. 2 = {1, 2} OBVIOUS
  <2>2. {1} \in SUBSET (1 .. 1) /\ {2} \in SUBSET (1 .. 2) /\ {1, 2} \in SUBSET (1 .. 2) BY <2>1
  <2> QED BY <2>2, LastOf
<1>4. \A I \in SUBSET D : I \in {{}, {1}, {2}, {1, 2}} OBVIOUS
<1>5. {1} \ {1} = {} /\ {2} \ {2} = {} /\ {1, 2} \ {2} = {1} OBVIOUS
<1>6. \A I \in SUBSET D : I \ {Max(I)} \in SUBSET D OBVIOUS
<1> HIDE DEF op, b
<1>7. \A I \in SUBSET D : g[I] = IF I = {} THEN b ELSE op(g[I \ {Max(I)}], Max(I))
  <2> SUFFICES ASSUME NEW I \in SUBSET D, I # {} PROVE g[I] = op(g[I \ {Max(I)}], Max(I))
    OBVIOUS
  <2>1. {} \in SUBSET D OBVIOUS
  <2>2. CASE I = {1}
    <3>1. g[I] = op(b, 1) BY <2>2
    <3>2. g[I \ {Max(I)}] = b BY <1>3, <1>5, <2>1, <2>2
    <3> QED BY <1>3, <2>2, <3>1, <3>2
  <2>3. CASE I = {2}
    <3>1. g[I] = op(b, 2) BY <2>3
    <3>2. g[I \ {Max(I)}] = b BY <1>3, <1>5, <2>1, <2>3
    <3> QED BY <1>3, <2>3, <3>1, <3>2
  <2>4. CASE I = {1, 2}
    <3>1. g[I] = op(op(b, 1), 2) BY <2>4
    <3>2. {1} \in SUBSET D BY <2>4
    <3>3. g[I \ {Max(I)}] = op(b, 1) BY <1>3, <1>5, <2>4, <3>2
    <3> QED BY <1>3, <2>4, <3>1, <3>3
  <2> QED BY <1>4, <2>2, <2>3, <2>4
<1>8. Is(g)
  <2>1. \A I \in SUBSET D : I # {} => seq[Max(I)] = Max(I)
    <3> SUFFICES ASSUME NEW I \in SUBSET D, I # {} PROVE seq[Max(I)] = Max(I) OBVIOUS
    <3>1. Max(I) \in I BY <1>3, <1>4
    <3> QED BY <1>1, <3>1
  <2>2. \A I \in SUBSET D : g[I] = IF I = {} THEN b ELSE op(g[I \ {Max(I)}], seq[Max(I)])
    <3> HIDE DEF g
    <3> QED BY <1>7, <2>1
  <2> QED BY <2>2
<1>9. Is(h)
  <2> HIDE DEF Is, g
  <2> QED BY <1>8
<1> HIDE DEF g, h
<1>10. \A I \in SUBSET D : h[I] = IF I = {} THEN b ELSE op(h[I \ {Max(I)}], Max(I))
  <2> SUFFICES ASSUME NEW I \in SUBSET D PROVE h[I] = IF I = {} THEN b ELSE op(h[I \ {Max(I)}], Max(I))
    OBVIOUS
  <2>1. h[I] = IF I = {} THEN b ELSE op(h[I \ {Max(I)}], seq[Max(I)]) BY <1>9
  <2>2. I # {} => Max(I) \in D BY <1>3, <1>4
  <2> QED BY <1>1, <2>1, <2>2
<1>11. {} \in SUBSET D /\ {1} \in SUBSET D OBVIOUS
<1>12. h[{}] = b BY <1>10, <1>11
<1>13. h[{1}] = op(b, 1) BY <1>3, <1>5, <1>10, <1>11, <1>12
<1>14. CASE D = {1} BY <1>2, <1>13, <1>14 DEF op, b
<1>15. CASE D = {1, 2}
  <2>1. h[D] = op(op(b, 1), 2)
    <3>1. D \in SUBSET D /\ D # {} /\ Max(D) = 2 /\ D \ {2} = {1} BY <1>3, <1>5, <1>15
    <3>2. h[D] = op(h[D \ {Max(D)}], Max(D)) BY <1>10, <3>1
    <3> QED BY <1>13, <3>1, <3>2
  <2>2. {1, 2} # {1} OBVIOUS
  <2> QED BY <1>2, <1>15, <2>1, <2>2 DEF op, b
<1> QED BY <1>14, <1>15

(* The Await is gone, and all others wait for something.                    *)
LEMMA AwaitGone ==
    ASSUME NEW s, Core(s), s.dying = None, s.fate = "running", NEW cl, NEW r, AwaitFreed(r, s, cl),
           \A e \in Live(s) \ Waits(s, cl) : QuietAt(s, e)
    PROVE  Keeps(r, s)
<1>1. Core(r) BY FreedAwaitKeepsCore
<1>2. /\ r.value = s.value /\ r.refused = s.refused /\ r.dying = None /\ r.gone = s.gone
      /\ Live(r) = Live(s) \ Waits(s, cl) /\ \A t \in Live(r) : r.trigger[t] = s.trigger[t]
  BY DEF AwaitFreed
<1>3. \A e \in Live(r) : QuietAt(r, e)
  <2> SUFFICES ASSUME NEW e \in Live(r) PROVE QuietAt(r, e) OBVIOUS
  <2>1. QuietAt(s, e) BY <1>2
  <2> QED BY <1>2, <2>1, QuietStays
<1> QED BY <1>1, <1>2, <1>3 DEF Keeps, SameValues, Changes, Quiet

(* A trigger t that joins those of the state s; where it points to is left  *)
(* open.                                                                    *)
Joins(u, s, t) ==
    /\ u \in States /\ Listed(u) /\ u.dying = None
    /\ u.gone = s.gone /\ u.refused = s.refused /\ u.fate = s.fate
    /\ Live(u) = Live(s) \cup {t} /\ \A e \in Live(s) : u.trigger[e] = s.trigger[e]
    /\ \A c \in Counters : u.value[c] = s.value[c]
    /\ \A c \in AllCounters : Exists(s, c) => Exists(u, c)
    /\ \A c \in AllCounters, e \in Triggers \ {t} : Contains(u.list[c], e) <=> Contains(s.list[c], e)

LEMMA JoiningKeeps ==
    ASSUME NEW s, Core(s), s.fate = "running", s.dying = None, NEW t \in Triggers \ Live(s),
           NEW u, Joins(u, s, t)
    PROVE  /\ \A e \in Live(s) : QuietAt(s, e) => QuietAt(u, e)
           /\ \A e \in Live(s) \ u.refused :
                 /\ u.trigger[e].test_type = u.trigger[e].CheckTrigger /\ u.trigger[e].counter # Freed
                 /\ u.trigger[e].counter \in AllCounters \ {u.dying}
                    => Contains(u.list[u.trigger[e].counter], e)
           /\ \A e \in Live(s) : u.trigger[e].counter \in AllCounters => Exists(u, u.trigger[e].counter)
           /\ u.refused \subseteq Live(s)
<1>1. /\ u.dying = None /\ u.refused = s.refused
      /\ Live(u) = Live(s) \cup {t} /\ \A e \in Live(s) : u.trigger[e] = s.trigger[e]
      /\ \A c \in Counters : u.value[c] = s.value[c]
      /\ \A c \in AllCounters : Exists(s, c) => Exists(u, c)
      /\ \A c \in AllCounters, e \in Triggers \ {t} : Contains(u.list[c], e) <=> Contains(s.list[c], e)
  BY DEF Joins
<1>2. s \in States /\ s.refused \subseteq Live(s) /\ Points(s) /\ Kept(s, s.refused) BY DEF Core
<1>3. Live(s) \subseteq Triggers \ {t} BY <1>2, TheTable
<1>4. \A e \in Live(s) : QuietAt(s, e) => QuietAt(u, e)
  <2> SUFFICES ASSUME NEW e \in Live(s), QuietAt(s, e) PROVE QuietAt(u, e) OBVIOUS
  <2> QED BY <1>1, QuietStays
<1>5. \A e \in Live(s) \ u.refused :
         /\ u.trigger[e].test_type = u.trigger[e].CheckTrigger /\ u.trigger[e].counter # Freed
         /\ u.trigger[e].counter \in AllCounters \ {u.dying} => Contains(u.list[u.trigger[e].counter], e)
  <2> SUFFICES ASSUME NEW e \in Live(s) \ u.refused
               PROVE  /\ u.trigger[e].test_type = u.trigger[e].CheckTrigger /\ u.trigger[e].counter # Freed
                      /\ u.trigger[e].counter \in AllCounters \ {u.dying}
                         => Contains(u.list[u.trigger[e].counter], e)
    OBVIOUS
  <2>1. u.trigger[e] = s.trigger[e] /\ e \in Triggers \ {t} BY <1>1, <1>3
  <2>2. /\ s.trigger[e].test_type = s.trigger[e].CheckTrigger /\ s.trigger[e].counter # Freed
        /\ s.trigger[e].counter \in AllCounters \ {s.dying} => Contains(s.list[s.trigger[e].counter], e)
    BY <1>1, <1>2 DEF Kept
  <2> QED BY <1>1, <2>1, <2>2
<1>6. \A e \in Live(s) : u.trigger[e].counter \in AllCounters => Exists(u, u.trigger[e].counter)
  BY <1>1, <1>2 DEF Points
<1> QED BY <1>1, <1>2, <1>4, <1>5, <1>6

(* The conditions I of the Await are registered.                            *)
Adding(u, s, cl, conds, I) ==
    /\ Core(u) /\ u.dying = None /\ u.gone = s.gone /\ u.fate = "running"
    /\ \A c \in Counters : u.value[c] = s.value[c]
    /\ \A j \in {1, 2} : <<cl, j>> \in Live(u) => j \in I /\ u.trigger[<<cl, j>>].counter = conds[j].counter
    /\ \A e \in Live(u) \ Waits(u, cl) : QuietAt(u, e)

LEMMA ConditionGiven ==
    ASSUME NEW conds \in WaitLists, NEW i \in DOMAIN conds
    PROVE  /\ IsGiven(Given(NoTrigger, conds[i]), NoTrigger, conds[i])
           /\ DOMAIN conds[i] = ConditionFields
           /\ conds[i].counter \in AllCounters \cup {None}
<1>1. DOMAIN conds[i] = ConditionFields /\ Gives(conds[i], ConditionFields) BY SyncAssumption
<1> DEFINE c == conds[i]
<1> HIDE DEF c
<1>2. \A f \in DOMAIN c : c[f] \in Attribute[f] BY <1>1 DEF Gives, c
<1>3. DOMAIN c \subseteq Attributes /\ "counter" \in DOMAIN c
  BY <1>1 DEF ConditionFields, Attributes, c
<1>4. IsGiven(Given(NoTrigger, c), NoTrigger, c) BY <1>2, <1>3, NoTriggerTyped, GivenIs
<1>5. c["counter"] \in Attribute["counter"] BY <1>2, <1>3
<1>6. c["counter"] \in AllCounters \cup {None} BY <1>5 DEF Attribute, AllCounters
<1> QED BY <1>1, <1>4, <1>6 DEF c

(* SyncInitTrigger on a new trigger: the rest of the state is as before, and *)
(* the trigger is registered, or on no list.                                *)
LEMMA SetsCondition ==
    ASSUME NEW u \in States, Listed(u), u.dying = None, NEW t \in Triggers \ Live(u), now \in XSyncValue,
           NEW c, IsGiven(Given(NoTrigger, c), NoTrigger, c), DOMAIN c = ConditionFields,
           c.counter \in AllCounters,
           NEW q, q = SyncInitTrigger(Register(u, t, Given(NoTrigger, c)), t, c.counter, DOMAIN c)
    PROVE  /\ q.ok \in BOOLEAN /\ Joins(q.s, u, t)
           /\ q.ok => /\ q.s.trigger[t].counter = c.counter /\ Exists(q.s, c.counter)
                      /\ q.s.trigger[t].test_type = q.s.trigger[t].CheckTrigger
                      /\ Contains(q.s.list[c.counter], t)
           /\ ~q.ok => \A d \in AllCounters : ~Contains(q.s.list[d], t)
<1> DEFINE x == Given(NoTrigger, c)
           v == Register(u, t, x)
           new == c.counter
<1>1. None \notin AllCounters BY SyncAssumption DEF AllCounters
<1>2. x \in TriggerType /\ x.counter = None BY NoTriggerTyped DEF IsGiven
<1> HIDE DEF x
<1>3. TriggerIs(v, u, t, x) /\ \A d \in AllCounters : ~Contains(v.list[d], t) BY <1>2, Registers
<1> HIDE DEF v
<1>4. /\ v \in States /\ Listed(v) /\ v.dying = None /\ t \in Live(v)
      /\ v.value = u.value /\ v.list = u.list /\ v.gone = u.gone /\ v.refused = u.refused /\ v.fate = u.fate
      /\ Live(v) = Live(u) \cup {t} /\ \A e \in Live(u) : v.trigger[e] = u.trigger[e]
      /\ v.trigger[t].counter = None
  BY <1>2, <1>3 DEF TriggerIs
<1>5. "counter" \in DOMAIN c /\ "test_type" \in DOMAIN c BY DEF ConditionFields
<1>6. new \in AllCounters \cup {None} /\ new = IF "counter" \in DOMAIN c THEN c.counter ELSE v.trigger[t].counter
  BY <1>5
<1> HIDE DEF new
<1>7. InitDone(q, v, t, new, DOMAIN c) BY <1>4, <1>6, InitsTrigger DEF v, x
<1>8. OthersStay(q.s, v, t) BY <1>7 DEF InitDone, OnlyThis
<1>9. Joins(q.s, u, t)
  <2>1. \A e \in Live(u) : q.s.trigger[e] = u.trigger[e] BY <1>4, <1>8 DEF OthersStay
  <2> QED BY <1>4, <1>8, <2>1 DEF Joins, OthersStay, Exists
<1>10. ASSUME q.ok
       PROVE  /\ q.s.trigger[t].counter = new /\ Exists(q.s, new)
              /\ q.s.trigger[t].test_type = q.s.trigger[t].CheckTrigger
              /\ Contains(q.s.list[new], t)
  <2>1. new \in AllCounters BY DEF new
  <2>2. q.s.trigger[t].counter = new /\ Exists(v, new) BY <1>1, <1>7, <1>10, <2>1 DEF InitDone
  <2>3. Exists(q.s, new) BY <1>8, <2>1, <2>2 DEF OthersStay
  <2>4. q.s.trigger[t].test_type = q.s.trigger[t].CheckTrigger BY <1>5, <1>7, <1>10 DEF InitDone, OnlyThis
  <2>5. Contains(q.s.list[new], t) BY <1>1, <1>4, <1>7, <1>10, <2>1 DEF InitDone
  <2> QED BY <2>2, <2>3, <2>4, <2>5
<1>11. ~q.ok => \A d \in AllCounters : ~Contains(q.s.list[d], t) BY <1>3, <1>7 DEF InitDone
<1>12. q.ok \in BOOLEAN BY <1>7 DEF InitDone
<1> QED BY <1>9, <1>10, <1>11, <1>12 DEF new

OnNoList(u, t) == \A d \in AllCounters : ~Contains(u.list[d], t)

(* A condition that could not be set up is taken back.                      *)
TakenBack(w, u) ==
    /\ Core(w) /\ w.dying = None /\ w.gone = u.gone /\ w.fate = "running" /\ Live(w) = Live(u)
    /\ \A c \in Counters : w.value[c] = u.value[c]
    /\ \A e \in Live(u) : QuietAt(u, e) => QuietAt(w, e)

LEMMA TakesBack ==
    ASSUME NEW u, Core(u), u.fate = "running", u.dying = None, NEW t \in Triggers \ Live(u),
           NEW q, Joins(q, u, t), OnNoList(q, t), NEW w, w = Forget(q, {t})
    PROVE  TakenBack(w, u)
<1>1. /\ q \in States /\ Listed(q) /\ q.dying = None
      /\ q.gone = u.gone /\ q.refused = u.refused /\ q.fate = "running"
      /\ Live(q) = Live(u) \cup {t} /\ \A e \in Live(u) : q.trigger[e] = u.trigger[e]
      /\ \A c \in Counters : q.value[c] = u.value[c]
  BY DEF Joins
<1>2. /\ \A e \in Live(u) : QuietAt(u, e) => QuietAt(q, e)
      /\ \A e \in Live(u) \ q.refused :
            /\ q.trigger[e].test_type = q.trigger[e].CheckTrigger /\ q.trigger[e].counter # Freed
            /\ q.trigger[e].counter \in AllCounters \ {q.dying}
               => Contains(q.list[q.trigger[e].counter], e)
      /\ \A e \in Live(u) : q.trigger[e].counter \in AllCounters => Exists(q, q.trigger[e].counter)
      /\ q.refused \subseteq Live(u)
  BY JoiningKeeps
<1>3. \A c \in AllCounters \ {q.dying} : \A e \in Triggers : Contains(q.list[c], e) => e \notin {t}
  BY DEF OnNoList
<1>4. /\ w \in States /\ Listed(w)
      /\ w.value = q.value /\ w.list = q.list /\ w.dying = q.dying /\ w.gone = q.gone
      /\ w.refused = q.refused /\ w.fate = q.fate
      /\ Live(w) = Live(q) \ {t} /\ \A e \in Live(w) : w.trigger[e] = q.trigger[e]
  BY <1>1, <1>3, Forgets
<1>5. Live(w) = Live(u) BY <1>1, <1>4
<1>6. Points(w) BY <1>2, <1>4, <1>5 DEF Points, Exists
<1>7. Kept(w, w.refused)
  <2> SUFFICES ASSUME NEW e \in Live(w) \ w.refused
               PROVE  /\ w.trigger[e].test_type = w.trigger[e].CheckTrigger /\ w.trigger[e].counter # Freed
                      /\ w.trigger[e].counter \in AllCounters \ {w.dying}
                         => Contains(w.list[w.trigger[e].counter], e)
    BY DEF Kept
  <2> QED BY <1>2, <1>4, <1>5
<1>8. Apart(w)
  <2> SUFFICES ASSUME AllApart, NEW e \in Live(w) \ Alarms, NEW f \in Live(w) \ Alarms, e # f, e[1] = f[1]
               PROVE  w.trigger[e].counter # w.trigger[f].counter
    BY DEF Apart
  <2>1. Apart(u) BY DEF Core
  <2>2. e \in Live(u) \ Alarms /\ f \in Live(u) \ Alarms BY <1>5
  <2>3. u.trigger[e].counter # u.trigger[f].counter BY <2>1, <2>2 DEF Apart
  <2>4. w.trigger[e] = u.trigger[e] /\ w.trigger[f] = u.trigger[f] BY <1>1, <1>4, <1>5, <2>2
  <2> QED BY <2>3, <2>4
<1>9. \A e \in Live(u) : QuietAt(u, e) => QuietAt(w, e)
  <2> SUFFICES ASSUME NEW e \in Live(u), QuietAt(u, e) PROVE QuietAt(w, e) OBVIOUS
  <2>1. QuietAt(q, e) BY <1>2
  <2> QED BY <1>4, <1>5, <2>1, QuietStays
<1> QED BY <1>1, <1>2, <1>4, <1>5, <1>6, <1>7, <1>8, <1>9 DEF Core, TakenBack

(* A condition joins the others of the Await.                               *)
LEMMA JoinsAwait ==
    ASSUME NEW u, NEW s, NEW cl \in Clients, NEW conds \in WaitLists, NEW I \in SUBSET {1, 2},
           Adding(u, s, cl, conds, I), NEW i \in DOMAIN conds, i \in {1, 2}, i \notin I,
           I \subseteq DOMAIN conds, NEW q, Joins(q, u, <<cl, i>>),
           conds[i].counter \in AllCounters,
           q.trigger[<<cl, i>>].counter = conds[i].counter, Exists(q, conds[i].counter),
           q.trigger[<<cl, i>>].test_type = q.trigger[<<cl, i>>].CheckTrigger,
           Contains(q.list[conds[i].counter], <<cl, i>>)
    PROVE  Adding(q, s, cl, conds, I \cup {i})
<1> DEFINE t == <<cl, i>>
<1>1. Freed \notin AllCounters /\ None \notin AllCounters BY SyncAssumption DEF AllCounters
<1>2. Core(u) /\ u.dying = None /\ u.gone = s.gone /\ u.fate = "running" BY DEF Adding
<1>3. t \in Triggers \ Live(u) /\ t \notin Alarms /\ t[1] = cl
  <2>1. t \in Clients \X {1, 2} OBVIOUS
  <2>2. t \notin Alarms BY <2>1, SyncAssumption
  <2> QED BY <2>1, <2>2 DEF Adding, Triggers
<1>4. /\ \A e \in Live(u) : QuietAt(u, e) => QuietAt(q, e)
      /\ \A e \in Live(u) \ q.refused :
            /\ q.trigger[e].test_type = q.trigger[e].CheckTrigger /\ q.trigger[e].counter # Freed
            /\ q.trigger[e].counter \in AllCounters \ {q.dying}
               => Contains(q.list[q.trigger[e].counter], e)
      /\ \A e \in Live(u) : q.trigger[e].counter \in AllCounters => Exists(q, q.trigger[e].counter)
      /\ q.refused \subseteq Live(u)
  BY <1>2, <1>3, JoiningKeeps
<1>5. /\ q \in States /\ Listed(q) /\ q.dying = None /\ q.gone = s.gone /\ q.fate = "running"
      /\ Live(q) = Live(u) \cup {t} /\ \A e \in Live(u) : q.trigger[e] = u.trigger[e]
  BY <1>2 DEF Joins
<1>6. q.trigger[t].counter = conds[i].counter OBVIOUS
<1>7. Points(q) BY <1>4, <1>5 DEF Points
<1>8. Kept(q, q.refused)
  <2> SUFFICES ASSUME NEW e \in Live(q) \ q.refused
               PROVE  /\ q.trigger[e].test_type = q.trigger[e].CheckTrigger /\ q.trigger[e].counter # Freed
                      /\ q.trigger[e].counter \in AllCounters \ {q.dying}
                         => Contains(q.list[q.trigger[e].counter], e)
    BY DEF Kept
  <2>1. CASE e = t BY <1>1, <2>1
  <2>2. CASE e # t BY <1>4, <1>5, <2>2
  <2> QED BY <2>1, <2>2
<1> HIDE DEF t
<1>9. \A j \in {1, 2} : <<cl, j>> \in Live(q) =>
         j \in I \cup {i} /\ q.trigger[<<cl, j>>].counter = conds[j].counter
  <2> SUFFICES ASSUME NEW j \in {1, 2}, <<cl, j>> \in Live(q)
               PROVE  j \in I \cup {i} /\ q.trigger[<<cl, j>>].counter = conds[j].counter
    OBVIOUS
  <2>1. CASE j = i BY <1>6, <2>1 DEF t
  <2>2. CASE j # i
    <3>1. <<cl, j>> # t BY <2>2 DEF t
    <3>2. <<cl, j>> \in Live(u) BY <1>5, <3>1
    <3> QED BY <1>5, <3>2 DEF Adding
  <2> QED BY <2>1, <2>2
<1>10. \A e \in Live(q) \ Alarms : e[1] = cl => \E j \in {1, 2} : e = <<cl, j>>
  <2> SUFFICES ASSUME NEW e \in Live(q) \ Alarms, e[1] = cl PROVE \E j \in {1, 2} : e = <<cl, j>>
    OBVIOUS
  <2>1. e \in Clients \X {1, 2} BY <1>5, TheTable DEF Triggers
  <2> QED BY <2>1
<1>11. Apart(q)
  <2> SUFFICES ASSUME AllApart, NEW e \in Live(q) \ Alarms, NEW f \in Live(q) \ Alarms, e # f, e[1] = f[1]
               PROVE  q.trigger[e].counter # q.trigger[f].counter
    BY DEF Apart
  <2>1. CASE e[1] # cl
    <3>1. e \in Live(u) /\ f \in Live(u) BY <1>3, <1>5, <2>1
    <3>2. Apart(u) BY <1>2 DEF Core
    <3> QED BY <1>5, <3>1, <3>2 DEF Apart
  <2>2. CASE e[1] = cl
    <3>1. PICK j \in {1, 2} : e = <<cl, j>> BY <1>10, <2>2
    <3>2. PICK k \in {1, 2} : f = <<cl, k>> BY <1>10, <2>2
    <3>3. j \in DOMAIN conds /\ k \in DOMAIN conds /\ j # k BY <1>9, <3>1, <3>2
    <3> DEFINE g == [m \in DOMAIN conds |-> conds[m].counter]
    <3>4. IsInjective(g) BY DEF AllApart
    <3>5. g[j] = conds[j].counter /\ g[k] = conds[k].counter /\ DOMAIN g = DOMAIN conds BY <3>3
    <3> HIDE DEF g
    <3>6. g[j] # g[k] BY <3>3, <3>4, <3>5 DEF IsInjective
    <3>7. q.trigger[e].counter = conds[j].counter /\ q.trigger[f].counter = conds[k].counter
      BY <1>9, <3>1, <3>2
    <3> QED BY <3>5, <3>6, <3>7
  <2> QED BY <2>1, <2>2
<1>12. \A e \in Live(q) \ Waits(q, cl) : QuietAt(q, e)
  <2> SUFFICES ASSUME NEW e \in Live(q) \ Waits(q, cl) PROVE QuietAt(q, e) OBVIOUS
  <2>1. e # t BY <1>3, <1>5 DEF Waits
  <2>2. e \in Live(u) \ Waits(u, cl) BY <1>5, <2>1 DEF Waits
  <2>3. QuietAt(u, e) BY <2>2 DEF Adding
  <2> QED BY <1>4, <2>2, <2>3
<1>13. q.refused \subseteq Live(q) /\ \A c \in Counters : q.value[c] = s.value[c]
  BY <1>4, <1>5 DEF Joins, Adding
<1>14. Core(q) BY <1>5, <1>7, <1>8, <1>11, <1>13 DEF Core
<1> QED BY <1>5, <1>9, <1>12, <1>13, <1>14 DEF Adding

(* Every condition of the Await: registered with those before it, or it     *)
(* takes them back.                                                         *)
ConditionDone(r, s, cl, conds, I) ==
    r.ok \in BOOLEAN /\ (r.ok => Adding(r.s, s, cl, conds, I)) /\ (~r.ok => Keeps(r.s, s))

LEMMA SetsUpCondition ==
    ASSUME NEW u, NEW s, NEW cl \in Clients, now \in XSyncValue, NEW conds \in WaitLists,
           NEW I \in SUBSET {1, 2}, Adding(u, s, cl, conds, I), I \subseteq DOMAIN conds,
           NEW i \in DOMAIN conds, i \in {1, 2}, i \notin I,
           NEW r, r = Condition(u, cl, conds[i], <<cl, i>>)
    PROVE  ConditionDone(r, s, cl, conds, I \cup {i})
<1> DEFINE t == <<cl, i>>
           c == conds[i]
           q == SyncInitTrigger(Register(u, t, Given(NoTrigger, c)), t, c.counter, DOMAIN c)
           w == Forget(q.s, {t})
<1>1. None \notin AllCounters BY SyncAssumption DEF AllCounters
<1>2. /\ Core(u) /\ u.dying = None /\ u.gone = s.gone /\ u.fate = "running" /\ u \in States /\ Listed(u)
      /\ \A e \in Live(u) \ Waits(u, cl) : QuietAt(u, e)
      /\ \A d \in Counters : u.value[d] = s.value[d]
  BY DEF Adding, Core
<1>3. t \in Triggers \ Live(u) BY DEF Adding, Triggers
<1>4. IsGiven(Given(NoTrigger, c), NoTrigger, c) /\ DOMAIN c = ConditionFields
      /\ c.counter \in AllCounters \cup {None}
  BY ConditionGiven
<1>5. CASE c.counter = None
  <2>1. r.ok = FALSE /\ r.s = FreeAwait(u, cl) BY <1>5 DEF Condition, Error
  <2>2. AwaitFreed(r.s, u, cl) BY <1>2, <2>1, FreesAwait
  <2>3. Keeps(r.s, u) BY <1>2, <2>2, AwaitGone
  <2>4. Keeps(r.s, s) BY <1>2, <2>3, KeepsOn
  <2> QED BY <2>1, <2>4 DEF ConditionDone
<1>6. CASE c.counter # None
  <2>1. r = IF q.ok THEN q ELSE Error(FreeAwait(w, cl)) BY <1>6 DEF Condition, TakeBack
  <2>2. c.counter \in AllCounters BY <1>4, <1>6
  <2>3. /\ q.ok \in BOOLEAN /\ Joins(q.s, u, t)
        /\ q.ok => /\ q.s.trigger[t].counter = c.counter /\ Exists(q.s, c.counter)
                   /\ q.s.trigger[t].test_type = q.s.trigger[t].CheckTrigger
                   /\ Contains(q.s.list[c.counter], t)
        /\ ~q.ok => \A d \in AllCounters : ~Contains(q.s.list[d], t)
    <3> HIDE DEF t, c
    <3> QED BY <1>2, <1>3, <1>4, <2>2, SetsCondition
  <2> HIDE DEF q
  <2>4. CASE q.ok
    <3>1. r = q BY <2>1, <2>4
    <3>2. Adding(q.s, s, cl, conds, I \cup {i}) BY <2>2, <2>3, <2>4, JoinsAwait
    <3> QED BY <2>3, <2>4, <3>1, <3>2 DEF ConditionDone
  <2>5. CASE ~q.ok
    <3>1. r.ok = FALSE /\ r.s = FreeAwait(w, cl) BY <2>1, <2>5 DEF Error
    <3>2. OnNoList(q.s, t) BY <2>3, <2>5 DEF OnNoList
    <3>3. TakenBack(w, u) BY <1>2, <1>3, <2>3, <3>2, TakesBack
    <3>4. /\ Core(w) /\ w.dying = None /\ w.gone = u.gone /\ w.fate = "running" /\ Live(w) = Live(u)
          /\ \A d \in Counters : w.value[d] = u.value[d]
          /\ \A e \in Live(u) : QuietAt(u, e) => QuietAt(w, e)
      BY <3>3 DEF TakenBack
    <3> HIDE DEF w
    <3>5. w \in States /\ Listed(w) BY <3>4 DEF Core
    <3>6. AwaitFreed(r.s, w, cl) BY <3>1, <3>5, FreesAwait
    <3>7. Waits(w, cl) = Waits(u, cl) BY <3>4 DEF Waits
    <3>8. \A e \in Live(w) \ Waits(w, cl) : QuietAt(w, e) BY <1>2, <3>4, <3>7
    <3>9. Keeps(r.s, w) BY <3>4, <3>6, <3>8, AwaitGone
    <3>10. Keeps(r.s, s) BY <1>2, <3>4, <3>9, KeepsOn
    <3> QED BY <3>1, <3>10 DEF ConditionDone
  <2> QED BY <2>3, <2>4, <2>5
<1> QED BY <1>5, <1>6

LEMMA SetsUpConditions ==
    ASSUME NEW s, Core(s), s.dying = None, Quiet(s), s.fate = "running", NEW cl \in Clients,
           Waits(s, cl) = {}, now \in XSyncValue, NEW conds \in WaitLists
    PROVE  ConditionDone(AddConditions(s, cl, conds), s, cl, conds, DOMAIN conds)
<1> DEFINE r0 == Ok(s)
           r1 == AddOne(r0, cl, conds, 1)
           r2 == AddOne(r1, cl, conds, 2)
<1>1. DOMAIN conds \in {{1}, {1, 2}} BY SyncAssumption
<1>2. AddConditions(s, cl, conds) = IF DOMAIN conds = {1} THEN r1 ELSE r2 BY <1>1, AddsInTurn
<1>3. r0.ok = TRUE /\ r0.s = s BY DEF Ok
<1>4. Adding(s, s, cl, conds, {})
  <2>1. \A j \in {1, 2} : <<cl, j>> \notin Live(s) BY WaitsAre DEF Core
  <2> QED BY <2>1 DEF Adding, Quiet
<1>5. ConditionDone(r1, s, cl, conds, {1})
  <2>1. r1 = Condition(s, cl, conds[1], <<cl, 1>>) BY <1>3 DEF AddOne
  <2>2. {} \cup {1} = {1} /\ {} \in SUBSET {1, 2} /\ {} \subseteq DOMAIN conds /\ 1 \in DOMAIN conds
    BY <1>1
  <2> HIDE DEF r1
  <2>3. ConditionDone(r1, s, cl, conds, {} \cup {1}) BY <1>4, <2>1, <2>2, SetsUpCondition
  <2> QED BY <2>2, <2>3
<1> HIDE DEF r0, r1
<1>6. ASSUME DOMAIN conds = {1, 2} PROVE ConditionDone(r2, s, cl, conds, {1, 2})
  <2>1. CASE r1.ok
    <3>1. r2 = Condition(r1.s, cl, conds[2], <<cl, 2>>) BY <2>1 DEF AddOne
    <3>2. {1} \cup {2} = {1, 2} /\ {1} \in SUBSET {1, 2} /\ {1} \subseteq DOMAIN conds
          /\ 2 \in DOMAIN conds /\ 2 \notin {1} /\ 2 \in {1, 2}
      BY <1>6
    <3> HIDE DEF r2
    <3>3. Adding(r1.s, s, cl, conds, {1}) BY <1>5, <2>1 DEF ConditionDone
    <3>4. ConditionDone(r2, s, cl, conds, {1} \cup {2}) BY <3>1, <3>2, <3>3, SetsUpCondition
    <3> QED BY <3>2, <3>4
  <2>2. CASE ~r1.ok
    <3>1. r2 = r1 BY <2>2 DEF AddOne
    <3> QED BY <1>5, <2>2, <3>1 DEF ConditionDone
  <2> QED BY <2>1, <2>2
<1>7. {1, 2} # {1} OBVIOUS
<1> QED BY <1>1, <1>2, <1>5, <1>6, <1>7

LEMMA AwaitingKeepsCore ==
    ASSUME NEW s, Core(s), s.dying = None, s.gone = {}, Quiet(s), s.fate = "running", NEW cl \in Clients,
           Waits(s, cl) = {}, now \in XSyncValue, NEW conds \in WaitLists
    PROVE  Keeps(FireIfTrue(AddConditions(s, cl, conds), cl), s)
<1> DEFINE r == AddConditions(s, cl, conds)
           u == r.s
           x == FireIfTrue(r, cl)
           t == <<cl, 1>>
<1>1. ConditionDone(r, s, cl, conds, DOMAIN conds) BY SetsUpConditions
<1>2. x = IF r.ok /\ \E e \in Waits(u, cl) : IsTrue(u, e) THEN SyncAwaitTriggerFired(u, t) ELSE u
  BY DEF FireIfTrue
<1> HIDE DEF r, x
<1>3. CASE ~r.ok BY <1>1, <1>2, <1>3 DEF ConditionDone, x, r
<1>4. ASSUME r.ok PROVE Keeps(x, s)
  <2>1. /\ Core(u) /\ u.dying = None /\ u.gone = s.gone /\ u.fate = "running"
        /\ \A e \in Live(u) \ Waits(u, cl) : QuietAt(u, e)
        /\ \A c \in Counters : u.value[c] = s.value[c]
    BY <1>1, <1>4 DEF ConditionDone, Adding
  <2>2. CASE \E e \in Waits(u, cl) : IsTrue(u, e)
    <3>1. x = SyncAwaitTriggerFired(u, t) BY <1>2, <1>4, <2>2
    <3>2. t \in Triggers \ Alarms /\ t[1] = cl
      <4>1. t \in Clients \X {1, 2} OBVIOUS
      <4>2. t \notin Alarms BY <4>1, SyncAssumption
      <4> QED BY <4>1, <4>2 DEF Triggers
    <3>3. u \in States /\ Listed(u) BY <2>1 DEF Core
    <3> HIDE DEF t, u
    <3>4. AwaitFreed(x, u, cl) BY <2>1, <3>1, <3>2, <3>3, FiresAwait
    <3>5. Keeps(x, u) BY <2>1, <3>4, AwaitGone
    <3> QED BY <2>1, <3>5, KeepsOn
  <2>3. CASE \A e \in Waits(u, cl) : ~IsTrue(u, e)
    <3>1. x = u BY <1>2, <2>3
    <3>2. \A e \in Waits(u, cl) : QuietAt(u, e)
      <4> SUFFICES ASSUME NEW e \in Waits(u, cl) PROVE QuietAt(u, e) OBVIOUS
      <4>1. ~CheckTrigger(u, e, u.value[u.trigger[e].counter]) BY <2>3 DEF IsTrue
      <4> QED BY <4>1, NotYetTrue
    <3>3. Quiet(u) BY <2>1, <3>2 DEF Quiet
    <3> QED BY <2>1, <3>1, <3>3 DEF Keeps, SameValues, Changes
  <2> QED BY <2>2, <2>3
<1>5. r.ok \in BOOLEAN BY <1>1 DEF ConditionDone
<1> QED BY <1>3, <1>4, <1>5 DEF x, r

-----------------------------------------------------------------------------
(* The invariant.                                                           *)
Sound ==
    /\ Core(state) /\ state.dying = None
    /\ Running => state.gone = {} /\ Quiet(state)
    /\ now \in XSyncValue

Begun(s) ==
    /\ Core(s) /\ Quiet(s) /\ s.dying = None /\ s.gone = {} /\ s.fate = "running"
    /\ s.value = state.value /\ s.list = state.list /\ s.trigger = state.trigger
    /\ s.refused = state.refused /\ Live(s) = Live(state)

LEMMA FreshBegins ==
    ASSUME Sound, Running
    PROVE  Begun(Fresh)
<1> DEFINE s == Fresh
<1>1. /\ Core(state) /\ Quiet(state) /\ state.dying = None /\ state.gone = {} /\ state.fate = "running"
      /\ state \in States
  BY DEF Sound, Running, Core
<1>2. s = [state EXCEPT !.notified = {}] BY DEF Fresh
<1> HIDE DEF s
<1>3. /\ s \in States /\ s.value = state.value /\ s.list = state.list /\ s.trigger = state.trigger
      /\ s.dying = state.dying /\ s.gone = state.gone /\ s.refused = state.refused /\ s.fate = state.fate
  BY <1>1, <1>2 DEF States
<1>4. Live(s) = Live(state) BY <1>3 DEF Live
<1>5. Listed(s) BY <1>1, <1>3, <1>4 DEF Core, Listed
<1>6. Points(s) BY <1>1, <1>3, <1>4 DEF Core, Points, Exists
<1>7. Kept(s, s.refused) BY <1>1, <1>3, <1>4 DEF Core, Kept
<1>8. Apart(s) BY <1>1, <1>3, <1>4 DEF Core, Apart
<1>9. Quiet(s) BY <1>1, <1>3, <1>4 DEF Quiet, QuietAt, Still
<1>10. Core(s) BY <1>1, <1>3, <1>4, <1>5, <1>6, <1>7, <1>8 DEF Core
<1> QED BY <1>1, <1>3, <1>4, <1>9, <1>10 DEF Begun, s

LEMMA Ends ==
    ASSUME now \in XSyncValue, now' = now, NEW s, Begun(s), Changes(state', s)
    PROVE  Sound'
BY DEF Sound, Begun, Changes, Running

(* A counter that is not destroyed keeps its value.                         *)
ValuesStay == \A c \in Counters : Exists(state, c) /\ Exists(state', c) => state'.value[c] = state.value[c]

LEMMA KeepsAndEnds ==
    ASSUME now \in XSyncValue, now' = now, NEW s, Begun(s), Keeps(state', s)
    PROVE  Sound' /\ ValuesStay
BY Ends DEF Begun, Keeps, SameValues, ValuesStay, Exists

(* An assignment to a counter outside of SyncChangeCounter.                 *)
LEMMA ValueAssigned ==
    ASSUME NEW s, Begun(s), NEW c \in AllCounters, c \in Counters => ~Exists(s, c), NEW v \in XSyncValue,
           NEW u, u = [s EXCEPT !.value[c] = v]
    PROVE  Changes(u, s)
<1> DEFINE x == [s.value EXCEPT ![c] = v]
<1>1. /\ s \in States /\ Core(s) /\ Quiet(s) /\ s.dying = None /\ s.fate = "running"
      /\ Listed(s) /\ s.refused \subseteq Live(s) /\ Points(s) /\ Kept(s, s.refused) /\ Apart(s)
  BY DEF Begun, Core
<1>2. None \notin XSyncValue /\ SERVERTIME \notin Counters BY SyncAssumption
<1>3. s.value \in [AllCounters -> XSyncValue \cup {None}] BY <1>1 DEF States
<1>4. /\ x \in [AllCounters -> XSyncValue \cup {None}] /\ x[c] = v
      /\ \A d \in AllCounters \ {c} : x[d] = s.value[d]
  BY <1>3
<1>5. u = [s EXCEPT !.value = x] BY <1>1 DEF States
<1> HIDE DEF x
<1>6. /\ u \in States /\ u.value = x /\ u.list = s.list /\ u.trigger = s.trigger
      /\ u.dying = s.dying /\ u.gone = s.gone /\ u.refused = s.refused /\ u.fate = s.fate
  BY <1>1, <1>4, <1>5 DEF States
<1>7. Live(u) = Live(s) BY <1>6 DEF Live
<1>8. Listed(u) BY <1>1, <1>6, <1>7 DEF Listed
<1>9. \A d \in AllCounters : Exists(s, d) => Exists(u, d) BY <1>2, <1>4, <1>6 DEF Exists
<1>10. Points(u) BY <1>1, <1>6, <1>7, <1>9 DEF Points
<1>11. Kept(u, u.refused) BY <1>1, <1>6, <1>7 DEF Kept
<1>12. Apart(u) BY <1>1, <1>6, <1>7 DEF Apart
<1>13. Quiet(u)
  <2> SUFFICES ASSUME NEW t \in Live(u) PROVE QuietAt(u, t) BY DEF Quiet
  <2>1. QuietAt(s, t) BY <1>1, <1>7 DEF Quiet
  <2>2. s.trigger[t].counter \in Counters => u.value[s.trigger[t].counter] = s.value[s.trigger[t].counter]
    <3> SUFFICES ASSUME s.trigger[t].counter \in Counters
                 PROVE  u.value[s.trigger[t].counter] = s.value[s.trigger[t].counter]
      OBVIOUS
    <3>1. s.trigger[t].counter \in AllCounters BY DEF AllCounters
    <3>2. Exists(s, s.trigger[t].counter) BY <1>1, <1>7, <3>1 DEF Points
    <3>3. s.trigger[t].counter # c BY <3>2
    <3> QED BY <1>4, <1>6, <3>1, <3>3
  <2> QED BY <1>6, <2>1, <2>2, QuietStays
<1>14. Core(u) BY <1>1, <1>6, <1>7, <1>8, <1>10, <1>11, <1>12 DEF Core
<1> QED BY <1>1, <1>6, <1>13, <1>14 DEF Changes

LEMMA OthersValues ==
    ASSUME NEW s, Begun(s), NEW c \in AllCounters, c \in Counters => ~Exists(s, c), NEW v,
           state' = [s EXCEPT !.value[c] = v]
    PROVE  ValuesStay
<1>1. s \in States /\ s.value = state.value /\ Counters \subseteq AllCounters
  BY DEF Begun, Core, AllCounters
<1>2. state'.value = [s.value EXCEPT ![c] = v] BY <1>1 DEF States
<1>3. s.value \in [AllCounters -> XSyncValue \cup {None}] BY <1>1 DEF States
<1> QED BY <1>1, <1>2, <1>3 DEF ValuesStay, Exists

LEMMA CreateCounterSound ==
    ASSUME Sound, NEW c \in Counters, NEW v \in Values, CreateCounter(c, v)
    PROVE  Sound' /\ ValuesStay
<1>1. Begun(Fresh) BY FreshBegins DEF CreateCounter, Free
<1>2. v \in XSyncValue /\ c \in AllCounters BY SyncAssumption DEF AllCounters
<1>3. ~Exists(Fresh, c) BY <1>1 DEF CreateCounter, Exists, Begun
<1>4. Changes(state', Fresh) BY <1>1, <1>2, <1>3, ValueAssigned DEF CreateCounter
<1>5. state' = [Fresh EXCEPT !.value[c] = v] BY DEF CreateCounter
<1>6. ValuesStay BY <1>1, <1>2, <1>3, <1>5, OthersValues
<1> QED BY <1>1, <1>4, <1>6, Ends DEF Sound, CreateCounter

LEMMA QueryCounterSound ==
    ASSUME Sound, QueryCounter
    PROVE  Sound' /\ ValuesStay
<1>1. Begun(Fresh) BY FreshBegins DEF QueryCounter, Free
<1>2. now \in XSyncValue /\ SERVERTIME \in AllCounters /\ SERVERTIME \notin Counters
  BY SyncAssumption DEF AllCounters, Sound
<1>3. state' = [Fresh EXCEPT !.value[SERVERTIME] = now] BY DEF QueryCounter, ServertimeQueryValue
<1>4. Changes(state', Fresh) BY <1>1, <1>2, <1>3, ValueAssigned
<1>5. ValuesStay BY <1>1, <1>2, <1>3, OthersValues
<1> QED BY <1>1, <1>4, <1>5, Ends DEF Sound, QueryCounter

LEMMA SetCounterSound ==
    ASSUME Sound, NEW c \in Counters, NEW v \in Values, SetCounter(c, v)
    PROVE  Sound'
<1>1. Begun(Fresh) BY FreshBegins DEF SetCounter, Free
<1>2. v \in XSyncValue /\ c \in AllCounters BY SyncAssumption DEF AllCounters
<1>3. Changes(state', Fresh) BY <1>1, <1>2, ChangingKeepsCore DEF SetCounter, Begun
<1> QED BY <1>1, <1>3, Ends DEF Sound, SetCounter

LEMMA ChangeCounterSound ==
    ASSUME Sound, NEW c \in Counters, NEW v \in Values, ChangeCounter(c, v)
    PROVE  Sound'
<1>1. Begun(Fresh) BY FreshBegins DEF ChangeCounter, Free
<1>2. v \in XSyncValue /\ c \in AllCounters BY SyncAssumption DEF AllCounters
<1>3. state.value[c] \in XSyncValue BY <1>2 DEF ChangeCounter, Exists, Sound, Core, States
<1>4. ValueAdd(state.value[c], v) \in XSyncValue BY <1>2, <1>3, AddIsTyped
<1>5. CASE AddOverflows(state.value[c], v)
  <2>1. state' = Fresh BY <1>5 DEF ChangeCounter, Added
  <2>2. Changes(state', Fresh) BY <1>1, <2>1 DEF Changes, Begun
  <2> QED BY <1>1, <2>2, Ends DEF Sound, ChangeCounter
<1>6. CASE ~AddOverflows(state.value[c], v)
  <2>1. state' = SyncChangeCounter(Fresh, c, ValueAdd(state.value[c], v))
    BY <1>6 DEF ChangeCounter, Added
  <2>2. Changes(state', Fresh) BY <1>1, <1>2, <1>4, <2>1, ChangingKeepsCore DEF Begun
  <2> QED BY <1>1, <2>2, Ends DEF Sound, ChangeCounter
<1> QED BY <1>5, <1>6

LEMMA DestroyCounterSound ==
    ASSUME Sound, NEW c \in Counters, DestroyCounter(c)
    PROVE  Sound' /\ ValuesStay
<1>1. Begun(Fresh) BY FreshBegins DEF DestroyCounter, Free
<1>2. Keeps(state', Fresh) BY <1>1, FreeingCounterKeepsCore DEF DestroyCounter, Begun
<1> QED BY <1>1, <1>2, KeepsAndEnds DEF Sound, DestroyCounter

LEMMA AwaitSound ==
    ASSUME Sound, NEW cl \in Clients, NEW conds \in WaitLists, Await(cl, conds)
    PROVE  Sound' /\ ValuesStay
<1>1. Begun(Fresh) BY FreshBegins DEF Await, Free
<1>2. Waits(Fresh, cl) = {} BY <1>1 DEF Await, Free, Waits, Begun
<1>3. Keeps(state', Fresh) BY <1>1, <1>2, AwaitingKeepsCore DEF Await, Begun, Sound
<1> QED BY <1>1, <1>3, KeepsAndEnds DEF Sound, Await

LEMMA CreateAlarmSound ==
    ASSUME Sound, NEW a \in Alarms, NEW req \in AlarmRequests, CreateAlarm(a, req)
    PROVE  Sound' /\ ValuesStay
<1>1. Begun(Fresh) BY FreshBegins DEF CreateAlarm, Free
<1>2. a \in Alarms \ Live(Fresh) BY <1>1 DEF CreateAlarm, Begun
<1>3. Gives(req, AlarmFields) BY SyncAssumption
<1>4. Keeps(state', Fresh) BY <1>1, <1>2, <1>3, CreatingAlarmKeepsCore DEF CreateAlarm, Begun, Sound
<1> QED BY <1>1, <1>4, KeepsAndEnds DEF Sound, CreateAlarm

LEMMA ChangeAlarmSound ==
    ASSUME Sound, NEW a \in Alarms, NEW req \in AlarmRequests, ChangeAlarm(a, req)
    PROVE  Sound' /\ ValuesStay
<1> DEFINE s == Fresh
<1>1. Begun(s) BY FreshBegins DEF ChangeAlarm, Free
<1>2. state' = IF state.trigger[a].counter = Freed THEN [s EXCEPT !.fate = "undefined"]
               ELSE Changed(SyncChangeAlarmAttributes(s, a, req), a)
  BY DEF ChangeAlarm
<1> HIDE DEF s
<1>3. a \in Live(s) \cap Alarms /\ s.trigger = state.trigger BY <1>1 DEF ChangeAlarm, Begun
<1>4. Gives(req, AlarmFields) BY SyncAssumption
<1>5. CASE state.trigger[a].counter # Freed
  <2>1. Keeps(state', s) BY <1>1, <1>2, <1>3, <1>4, <1>5, ChangingAlarmKeepsCore DEF Begun, Sound
  <2> QED BY <1>1, <2>1, KeepsAndEnds DEF Sound, ChangeAlarm
<1>6. CASE state.trigger[a].counter = Freed
  <2>1. state' = [s EXCEPT !.fate = "undefined"] BY <1>2, <1>6
  <2>2. Core(s) /\ s \in States /\ Listed(s) /\ Points(s) /\ s.refused \subseteq Live(s)
        /\ Kept(s, s.refused) /\ s.dying = None
    BY <1>1 DEF Begun, Core
  <2>3. a \in s.refused BY <1>3, <1>6, <2>2 DEF Kept
  <2>4. /\ state' \in States /\ Listed(state') /\ Points(state') /\ state'.dying = s.dying
        /\ state'.gone = s.gone /\ state'.refused = s.refused /\ state'.fate = "undefined"
        /\ Live(state') = Live(s) /\ state'.value = s.value
    BY <2>1, <2>2, FateOnly
  <2>5. Core(state') BY <2>2, <2>3, <2>4 DEF Core
  <2>6. Keeps(state', s) BY <2>2, <2>4, <2>5 DEF Keeps, SameValues, Changes
  <2> QED BY <1>1, <2>6, KeepsAndEnds DEF Sound, ChangeAlarm
<1> QED BY <1>5, <1>6

LEMMA DestroyAlarmSound ==
    ASSUME Sound, NEW a \in Alarms, DestroyAlarm(a)
    PROVE  Sound' /\ ValuesStay
<1>1. Begun(Fresh) BY FreshBegins DEF DestroyAlarm, Free
<1>2. a \in Live(Fresh) \cap Alarms BY <1>1 DEF DestroyAlarm, Begun
<1>3. Keeps(state', Fresh) BY <1>1, <1>2, FreeingAlarmKeepsCore DEF DestroyAlarm, Begun
<1> QED BY <1>1, <1>3, KeepsAndEnds DEF Sound, DestroyAlarm

LEMMA WakeupSound ==
    ASSUME Sound, ServertimeWakeupHandler
    PROVE  Sound' /\ ValuesStay
<1>1. Begun(Fresh) BY FreshBegins DEF ServertimeWakeupHandler, TimerExpired
<1>2. now \in XSyncValue /\ SERVERTIME \in AllCounters BY DEF Sound, AllCounters
<1>3. Changes(state', Fresh) /\ state'.value = [Fresh.value EXCEPT ![SERVERTIME] = now]
  BY <1>1, <1>2, ChangingKeepsCore DEF ServertimeWakeupHandler, Begun
<1>4. ValuesStay
  <2>1. \A c \in Counters : c # SERVERTIME /\ c \in AllCounters BY SyncAssumption DEF AllCounters
  <2>2. Fresh.value \in [AllCounters -> XSyncValue \cup {None}] BY <1>1 DEF Begun, Core, States
  <2> QED BY <1>1, <1>3, <2>1, <2>2 DEF Begun, ValuesStay
<1> QED BY <1>1, <1>3, <1>4, Ends DEF Sound, ServertimeWakeupHandler

LEMMA TickSound ==
    ASSUME Sound, Tick
    PROVE  Sound' /\ ValuesStay
<1>1. now' \in XSyncValue BY ValuesTyped, AddIsTyped DEF Tick, Sound
<1>2. state' = state BY DEF Tick
<1> QED BY <1>1, <1>2 DEF Sound, Running, ValuesStay

(* The resources of a client are finitely many.                             *)
LEMMA MineFinite ==
    ASSUME Sound, NEW cl \in Clients
    PROVE  /\ Cardinality(Mine(cl)) \in Nat /\ Mine(cl) \subseteq Resources
           /\ \A x \in Mine(cl) : x \in Alarms => x \in Live(state)
<1> DEFINE T == {<<cl, 1>>} \cup {<<cl, 2>>}
           C == Counters \cup Alarms
<1>1. state \in States BY DEF Sound, Core
<1>2. IsFiniteSet(T)
  <2>1. IsFiniteSet({<<cl, 1>>}) /\ IsFiniteSet({<<cl, 2>>}) BY FS_Singleton
  <2> QED BY <2>1, FS_Union
<1>3. IsFiniteSet(C) BY SyncAssumption, FS_Union
<1>4. Waits(state, cl) \subseteq T BY <1>1, WaitsAre
<1> HIDE DEF T, C
<1>5. IsFiniteSet(C \cup T) BY <1>2, <1>3, FS_Union
<1>6. Mine(cl) \subseteq C \cup T BY <1>4 DEF Mine, C
<1>7. Cardinality(Mine(cl)) \in Nat
  <2>1. IsFiniteSet(Mine(cl)) BY <1>5, <1>6, FS_Subset
  <2> QED BY <2>1, FS_CardinalityType
<1>8. C \cup T \subseteq Resources BY DEF C, T, Resources
<1>9. \A x \in Mine(cl) : x \in Alarms => x \in Live(state)
  <2> SUFFICES ASSUME NEW x \in Mine(cl), x \in Alarms PROVE x \in Live(state) OBVIOUS
  <2>1. x \notin Counters BY SyncAssumption
  <2> QED BY <2>1 DEF Mine, Waits
<1> QED BY <1>6, <1>7, <1>8, <1>9

(* The client that is going is set, and cleared.                            *)
GoneOnly(u, s, g) ==
    /\ Core(u) /\ u.dying = s.dying /\ u.gone = g /\ u.fate = s.fate /\ Live(u) = Live(s)
    /\ u.value = s.value
    /\ Quiet(s) => Quiet(u)

LEMMA GoneIsSet ==
    ASSUME NEW s, Core(s), s.fate = "running", NEW g \in SUBSET Clients, NEW u, u = [s EXCEPT !.gone = g]
    PROVE  GoneOnly(u, s, g)
<1>1. s \in States BY DEF Core
<1>2. /\ u \in States /\ u.value = s.value /\ u.list = s.list /\ u.trigger = s.trigger
      /\ u.dying = s.dying /\ u.gone = g /\ u.refused = s.refused /\ u.fate = s.fate
  BY <1>1 DEF States
<1>3. Live(u) = Live(s) BY <1>2 DEF Live
<1>4. Listed(u) BY <1>2, <1>3 DEF Core, Listed
<1>5. Points(u) BY <1>2, <1>3 DEF Core, Points, Exists
<1>6. Kept(s, s.refused) => Kept(u, u.refused) BY <1>2, <1>3 DEF Kept
<1>7. Apart(s) => Apart(u) BY <1>2, <1>3 DEF Apart
<1>8. Quiet(s) => Quiet(u) BY <1>2, <1>3 DEF Quiet, QuietAt, Still
<1>9. Core(u) BY <1>2, <1>3, <1>4, <1>5, <1>6, <1>7 DEF Core
<1> QED BY <1>2, <1>3, <1>8, <1>9 DEF GoneOnly

LEMMA ClientGoneSound ==
    ASSUME Sound, NEW cl \in Clients, ClientGone(cl)
    PROVE  Sound' /\ ValuesStay
<1> DEFINE s == [Fresh EXCEPT !.gone = {cl}]
           n == Cardinality(Mine(cl))
<1>1. Begun(Fresh) BY FreshBegins DEF ClientGone
<1>2. PICK order \in SetToSeqs(Mine(cl)) : state' = Closed(FreeClientResources(s, order, cl))
  BY DEF ClientGone
<1>3. GoneOnly(s, Fresh, {cl}) BY <1>1, GoneIsSet DEF Begun
<1> HIDE DEF s
<1>4. /\ n \in Nat /\ Mine(cl) \subseteq Resources
      /\ \A x \in Mine(cl) : x \in Alarms => x \in Live(state)
  BY MineFinite
<1>5. order \in [1 .. n -> Mine(cl)] /\ \A i, j \in 1 .. n : i # j => order[i] # order[j]
  BY <1>2 DEF SetToSeqs
<1> HIDE DEF n
<1>6. order \in [1 .. n -> Resources] /\ IsInjective(order) BY <1>4, <1>5 DEF IsInjective
<1>7. Live(s) = Live(state) BY <1>1, <1>3 DEF Begun, GoneOnly
<1>8. \A i \in 1 .. n : order[i] \in Alarms => order[i] \in Live(s) BY <1>4, <1>5, <1>7
<1> DEFINE r == FreeClientResources(s, order, cl)
<1>9. Keeps(r, s) BY <1>1, <1>3, <1>4, <1>6, <1>8, ReleasingKeepsCore DEF Begun, GoneOnly
<1> HIDE DEF r
<1>10. state' = Closed(r) BY <1>2 DEF r
<1>11. CASE r.fate = "running"
  <2>1. state' = [r EXCEPT !.gone = {}] BY <1>10, <1>11 DEF Closed
  <2>2. GoneOnly(state', r, {}) BY <1>9, <1>11, <2>1, GoneIsSet DEF Keeps, Changes
  <2>3. Changes(state', Fresh) BY <1>1, <1>9, <2>2 DEF Keeps, Changes, GoneOnly, Begun
  <2>4. state'.value = r.value /\ s.value = Fresh.value BY <1>3, <2>2 DEF GoneOnly
  <2>5. SameValues(state', Fresh) BY <1>9, <2>4 DEF Keeps, SameValues
  <2>6. Keeps(state', Fresh) BY <2>3, <2>5 DEF Keeps
  <2> QED BY <1>1, <2>6, KeepsAndEnds DEF Sound, ClientGone
<1>12. CASE r.fate # "running"
  <2>1. state' = r BY <1>10, <1>12 DEF Closed
  <2>2. s.value = state.value BY <1>1, <1>3 DEF GoneOnly, Begun
  <2>3. ValuesStay BY <1>9, <2>1, <2>2 DEF Keeps, SameValues, ValuesStay, Exists
  <2> QED BY <1>9, <1>12, <2>1, <2>3 DEF Keeps, Changes, Sound, Running, ClientGone
<1> QED BY <1>11, <1>12

LEMMA InitSound ==
    ASSUME Init
    PROVE  Sound
<1> DEFINE V == [c \in AllCounters |-> IF c = SERVERTIME THEN Zero ELSE None]
           N == [c \in AllCounters |-> <<>>]
<1>1. state = [value |-> V, list |-> N, trigger |-> <<>>,
               bracket |-> [greater |-> MaxValue, less |-> MinValue],
               timer |-> FALSE, dying |-> None, gone |-> {},
               notified |-> {}, refused |-> {}, fate |-> "running"]
      /\ now = Zero
  BY DEF Init, AllCounters
<1>2. V \in [AllCounters -> XSyncValue \cup {None}] BY ValuesTyped
<1>3. N \in [AllCounters -> Seq(Triggers)] /\ \A c \in AllCounters : N[c] = <<>> OBVIOUS
<1> HIDE DEF V, N
<1>4. /\ state.value = V /\ state.list = N /\ state.trigger = <<>> /\ state.dying = None
      /\ state.gone = {} /\ state.refused = {} /\ state.fate = "running"
  BY <1>1
<1>5. Live(state) = {} BY <1>4 DEF Live
<1>6. <<>> \in UNION { [D -> TriggerType] : D \in SUBSET Triggers }
  <2>1. <<>> \in [{} -> TriggerType] OBVIOUS
  <2> QED BY <2>1
<1>7. state \in States BY <1>1, <1>2, <1>3, <1>6, ValuesTyped DEF States
<1>8. Listed(state)
  <2> SUFFICES ASSUME NEW c \in AllCounters
               PROVE  IsInjective(state.list[c]) /\ \A t \in Triggers : ~Contains(state.list[c], t)
    BY DEF Listed
  <2>1. state.list[c] = <<>> BY <1>3, <1>4
  <2> QED BY <2>1 DEF IsInjective, Contains
<1>9. Points(state) /\ Kept(state, state.refused) /\ Apart(state) /\ Quiet(state)
  BY <1>5 DEF Points, Kept, Apart, Quiet
<1>10. Core(state) BY <1>4, <1>7, <1>8, <1>9 DEF Core
<1> QED BY <1>1, <1>4, <1>9, <1>10, ValuesTyped DEF Sound

(* The invariant is inductive.                                              *)
LEMMA NextSound ==
    ASSUME Sound, [Next]_vars
    PROVE  Sound'
<1>1. CASE UNCHANGED vars BY <1>1 DEF vars, Sound, Running
<1>2. ASSUME NEW c \in Counters, NEW v \in Values,
             CreateCounter(c, v) \/ SetCounter(c, v) \/ ChangeCounter(c, v)
      PROVE  Sound'
  BY <1>2, CreateCounterSound, SetCounterSound, ChangeCounterSound
<1>3. ASSUME NEW c \in Counters, DestroyCounter(c) PROVE Sound' BY <1>3, DestroyCounterSound
<1>4. ASSUME NEW cl \in Clients, NEW conds \in WaitLists, Await(cl, conds) PROVE Sound'
  BY <1>4, AwaitSound
<1>5. ASSUME NEW a \in Alarms, NEW req \in AlarmRequests, CreateAlarm(a, req) \/ ChangeAlarm(a, req)
      PROVE  Sound'
  BY <1>5, CreateAlarmSound, ChangeAlarmSound
<1>6. ASSUME NEW a \in Alarms, DestroyAlarm(a) PROVE Sound' BY <1>6, DestroyAlarmSound
<1>7. ASSUME NEW cl \in Clients, ClientGone(cl) PROVE Sound' BY <1>7, ClientGoneSound
<1>8. CASE QueryCounter BY <1>8, QueryCounterSound
<1>9. CASE Tick BY <1>9, TickSound
<1>10. CASE ServertimeWakeupHandler BY <1>10, WakeupSound
<1> QED BY <1>1, <1>2, <1>3, <1>4, <1>5, <1>6, <1>7, <1>8, <1>9, <1>10 DEF Next

THEOREM AlwaysSound == Spec => []Sound
<1>1. Init => Sound BY InitSound
<1>2. Sound /\ [Next]_vars => Sound' BY NextSound
<1> QED BY <1>1, <1>2, PTL DEF Spec

(* A comparison that is TRUE of the words is TRUE of the numbers.           *)
LEMMA TrueComparison ==
    ASSUME NEW s \in States, Points(s), s = state, NEW t \in Live(s), OnCounter(t), Holds(t),
           s.trigger[t].test_type = s.trigger[t].CheckTrigger
    PROVE  s.trigger[t].CheckTrigger \in Comparisons /\ Still(s, t, s.trigger[t].test_value)
<1> DEFINE q == s.trigger[t]
           value == s.value[q.counter]
<1>1. q \in TriggerType BY OneOfStates
<1>2. q.counter \in AllCounters BY DEF OnCounter, AllCounters
<1>3. value \in XSyncValue BY <1>2 DEF Points, Exists, States
<1>4. q.test_value \in XSyncValue BY <1>1 DEF TriggerType
<1>5. ExactComparisons(value, q.test_value) BY <1>3, <1>4, ComparisonsAreExact
<1>6. \/ q.test_type = "PositiveComparison" /\ Int64(value) >= Int64(q.test_value)
      \/ q.test_type = "NegativeComparison" /\ Int64(value) <= Int64(q.test_value)
  BY DEF Holds
<1>7. CASE q.test_type = "PositiveComparison" /\ Int64(value) >= Int64(q.test_value)
  <2>1. GreaterOrEqual(value, q.test_value) BY <1>5, <1>7 DEF ExactComparisons
  <2> QED BY <1>7, <2>1 DEF Still, Test, Comparisons
<1>8. CASE q.test_type = "NegativeComparison" /\ Int64(value) <= Int64(q.test_value)
  <2>1. LessOrEqual(value, q.test_value) BY <1>5, <1>8 DEF ExactComparisons
  <2> QED BY <1>8, <2>1 DEF Still, Test, Comparisons
<1> QED BY <1>6, <1>7, <1>8

LEMMA SoundIsTyped ==
    ASSUME Sound
    PROVE  TypeOK
<1>1. state \in States /\ state.refused \subseteq Live(state) BY DEF Sound, Core
<1>2. Live(state) \subseteq Triggers BY <1>1, TheTable
<1>3. ASSUME NEW t \in Live(state)
      PROVE  /\ state.trigger[t].counter \in Counters \cup {SERVERTIME, None, Freed}
             /\ state.trigger[t].CheckTrigger \in TestTypes
             /\ state.trigger[t].test_value \in XSyncValue
             /\ t \in Alarms => state.trigger[t].state \in {"Active", "Inactive"}
  BY <1>1, OneOfStates DEF TriggerType, AllCounters
<1>4. /\ state.value \in [Counters \cup {SERVERTIME} -> XSyncValue \cup {None}]
      /\ state.bracket \in [greater : XSyncValue, less : XSyncValue]
      /\ state.timer \in BOOLEAN
      /\ state.refused \subseteq Alarms /\ state.gone \subseteq Clients
      /\ state.notified \subseteq Triggers \ Alarms
      /\ state.fate \in {"running", "looping", "undefined"}
  BY <1>1 DEF States, AllCounters
<1> QED BY <1>1, <1>2, <1>3, <1>4 DEF TypeOK, Sound

LEMMA SoundIsRegistered ==
    ASSUME Sound
    PROVE  Registered
<1> SUFFICES ASSUME Running PROVE Registered BY DEF Registered
<1>1. /\ state \in States /\ Listed(state) /\ state.dying = None /\ Kept(state, state.refused)
  BY DEF Sound, Core, Running
<1>2. None \notin AllCounters BY SyncAssumption DEF AllCounters
<1>3. state.list \in [AllCounters -> Seq(Triggers)] BY <1>1 DEF States
<1>4. ASSUME NEW c \in AllCounters
      PROVE  /\ IsInjective(state.list[c])
             /\ \A i \in DOMAIN state.list[c] :
                   state.list[c][i] \in Live(state) /\ state.trigger[state.list[c][i]].counter = c
  <2>1. IsInjective(state.list[c]) BY <1>1, <1>2 DEF Listed
  <2>2. ASSUME NEW i \in DOMAIN state.list[c]
        PROVE  state.list[c][i] \in Live(state) /\ state.trigger[state.list[c][i]].counter = c
    <3>1. state.list[c] \in Seq(Triggers) BY <1>3
    <3>2. i \in 1 .. Len(state.list[c]) BY <3>1
    <3>3. state.list[c][i] \in Triggers BY <3>1
    <3>4. Contains(state.list[c], state.list[c][i]) BY <3>2 DEF Contains
    <3> QED BY <1>1, <1>2, <3>3, <3>4 DEF Listed
  <2> QED BY <2>1, <2>2
<1>5. ASSUME NEW t \in Live(state) \ state.refused, state.trigger[t].counter # None
      PROVE  state.trigger[t].counter # Freed /\ Contains(state.list[state.trigger[t].counter], t)
  <2>1. state.trigger[t].counter \in AllCounters \cup {None, Freed} BY <1>1, OneOfStates DEF TriggerType
  <2> QED BY <1>1, <1>5, <2>1 DEF Kept
<1>6. DOMAIN state.list = AllCounters BY <1>3
<1> QED BY <1>4, <1>5, <1>6 DEF Registered

LEMMA SoundLeavesNothingTrue ==
    ASSUME Sound, Running, NEW t \in Live(state) \ state.refused, OnCounter(t),
           t \in Alarms => state.trigger[t].state = "Active"
    PROVE  ~Holds(t)
<1> SUFFICES ASSUME Holds(t) PROVE FALSE OBVIOUS
<1>1. state \in States /\ Points(state) /\ Kept(state, state.refused) /\ QuietAt(state, t)
  BY DEF Sound, Core, Running, Quiet
<1>2. state.trigger[t].test_type = state.trigger[t].CheckTrigger BY <1>1 DEF Kept
<1>3. state.trigger[t].CheckTrigger \in Comparisons /\ Still(state, t, state.trigger[t].test_value)
  BY <1>1, <1>2, TrueComparison
<1> QED BY <1>1, <1>3 DEF QuietAt, OnCounter

(* The extension's data are of their types after any sequence of requests,  *)
(* whatever the order in which a client's resources are freed.              *)
THEOREM TypesHold == Spec => []TypeOK
<1>1. Sound => TypeOK BY SoundIsTyped
<1> QED BY <1>1, AlwaysSound, PTL

(* The lists of the counters and the pointers of the triggers agree.        *)
THEOREM ListsAgree == Spec => []Registered
<1>1. Sound => Registered BY SoundIsRegistered
<1> QED BY <1>1, AlwaysSound, PTL

(* No client is left blocked on a comparison that is TRUE.                  *)
THEOREM NoWaitIsLost == Spec => []NothingTrueWaits
<1>1. ASSUME Sound PROVE NothingTrueWaits
  <2> SUFFICES ASSUME Running, NEW t \in Live(state) \ Alarms, OnCounter(t) PROVE ~Holds(t)
    BY DEF NothingTrueWaits
  <2>1. state.refused \subseteq Alarms BY <1>1 DEF Sound, Core, States
  <2> QED BY <1>1, <2>1, SoundLeavesNothingTrue
<1> QED BY <1>1, AlwaysSound, PTL

(* An Active alarm is armed with a comparison that is FALSE.                *)
THEOREM AlarmsAreRearmed == Spec => []AlarmsRearmed
<1>1. ASSUME Sound PROVE AlarmsRearmed
  <2> SUFFICES ASSUME Running, NEW a \in (Alarms \cap Live(state)) \ state.refused,
                      OnCounter(a), state.trigger[a].state = "Active"
               PROVE  ~Holds(a)
    BY DEF AlarmsRearmed
  <2> QED BY <1>1, SoundLeavesNothingTrue
<1> QED BY <1>1, AlwaysSound, PTL

(* The server neither loops nor uses what is freed, unless a ChangeAlarm    *)
(* was refused, an Await names one counter twice, or a client goes whose    *)
(* own counter is freed before the Await in which it waits for it.          *)
THEOREM ServerStaysSound == Spec => []StaysSound
<1>1. ASSUME Sound PROVE StaysSound
  <2> SUFFICES ASSUME state.refused = {}, AllApart, ~Running
               PROVE  \E cl \in state.gone : \E t \in Waits(state, cl) : state.trigger[t].counter = Freed
    BY DEF StaysSound, AllApart
  <2>1. Stranded(state) /\ state.dying = None BY <1>1 DEF Sound, Core, Running
  <2>2. PICK t \in Live(state) \ Alarms : t[1] \in state.gone /\ state.trigger[t].counter = Freed
    BY <2>1 DEF Stranded
  <2>3. t \in Waits(state, t[1]) BY <2>2 DEF Waits
  <2> QED BY <2>2, <2>3
<1> QED BY <1>1, AlwaysSound, PTL

-----------------------------------------------------------------------------
(* AlarmsAdvance: an alarm moves to the first value ahead.                  *)
LEMMA Multiples ==
    ASSUME NEW d \in Int, NEW j \in Int
    PROVE  /\ j * d \in Int /\ 0 * d = 0 /\ 1 * d = d /\ (j + 1) * d = j * d + d
           /\ \A k \in Int : j <= k => IF d >= 0 THEN j * d <= k * d ELSE j * d >= k * d
           /\ j >= 0 /\ d > 0 => j * d >= j
           /\ j >= 0 /\ d < 0 => j * d <= -j
<1>1. j * d \in Int /\ 0 * d = 0 /\ 1 * d = d /\ (j + 1) * d = j * d + d BY SMT
<1>2. ASSUME NEW k \in Int, j <= k PROVE IF d >= 0 THEN j * d <= k * d ELSE j * d >= k * d
  <2>1. k - j >= 0 /\ k * d = j * d + (k - j) * d /\ (k - j) * d \in Int /\ k * d \in Int BY <1>2
  <2>2. d >= 0 => (k - j) * d >= 0 BY <2>1
  <2>3. d < 0 => (k - j) * d <= 0 BY <2>1
  <2> QED BY <1>1, <2>1, <2>2, <2>3
<1>3. ASSUME j >= 0, d > 0 PROVE j * d >= j
  <2>1. d - 1 >= 0 /\ j * d = j + j * (d - 1) BY <1>3
  <2>2. j * (d - 1) >= 0 BY <1>3, <2>1
  <2> QED BY <1>1, <2>1, <2>2
<1>4. ASSUME j >= 0, d < 0 PROVE j * d <= -j
  <2>1. -d - 1 >= 0 /\ j * d = -j - j * (-d - 1) BY <1>4
  <2>2. j * (-d - 1) >= 0 BY <1>4, <2>1
  <2> QED BY <1>1, <2>1, <2>2
<1> QED BY <1>1, <1>2, <1>3, <1>4

(* The loop tries start + d, start + 2 d, ... in turn, and stops at the     *)
(* k-th.                                                                    *)
StopsAt(u, start, d, Pos, k) ==
    /\ \A j \in 1 .. k - 1 : \E p \in Pos \cap XSyncValue : Int64(p) = Int64(start) + j * d
    /\ u.overflow \in BOOLEAN
    /\ u.overflow => ~InRange(Int64(start) + k * d)
    /\ ~u.overflow => u.test \in XSyncValue \ Pos /\ Int64(u.test) = Int64(start) + k * d

LEMMA RearmStops ==
    ASSUME NEW delta \in XSyncValue, NEW Pos, NEW f, IsRearm(f, delta, Pos),
           NEW start \in XSyncValue, ~IsZero(delta) \/ start \notin Pos
    PROVE  \E k \in Nat \ {0} : StopsAt(f[start], start, Int64(delta), Pos, k)
<1> DEFINE d == Int64(delta)
           Good(v) == \E k \in Nat \ {0} : StopsAt(f[v], v, d, Pos, k)
<1>1. d \in Int /\ \A v \in XSyncValue : Int64(v) \in Int BY Int64InRange
<1>2. ASSUME NEW v \in XSyncValue
      PROVE  /\ f[v] = IF AddOverflows(v, delta) THEN [test |-> v, overflow |-> TRUE]
                       ELSE IF ValueAdd(v, delta) \in Pos THEN f[ValueAdd(v, delta)]
                       ELSE [test |-> ValueAdd(v, delta), overflow |-> FALSE]
             /\ ValueAdd(v, delta) \in XSyncValue
             /\ AddOverflows(v, delta) <=> ~InRange(Int64(v) + d)
             /\ ~AddOverflows(v, delta) => Int64(ValueAdd(v, delta)) = Int64(v) + d
  BY AddIsTyped, AddIsExact DEF IsRearm, ExactSum
<1> HIDE DEF d
<1>3. 1 * d = d /\ 1 - 1 = 0 /\ 1 .. 0 = {} BY <1>1, Multiples
<1>4. ASSUME NEW v \in XSyncValue, AddOverflows(v, delta) PROVE Good(v)
  <2>1. f[v] = [test |-> v, overflow |-> TRUE] BY <1>2, <1>4
  <2>2. f[v].overflow = TRUE BY <2>1
  <2>3. ~InRange(Int64(v) + d) BY <1>2, <1>4
  <2>4. \A j \in 1 .. 1 - 1 : FALSE BY <1>3
  <2>5. StopsAt(f[v], v, d, Pos, 1) BY <1>3, <2>2, <2>3, <2>4 DEF StopsAt
  <2> QED BY <2>5
<1>5. ASSUME NEW v \in XSyncValue, ~AddOverflows(v, delta), ValueAdd(v, delta) \notin Pos PROVE Good(v)
  <2>1. f[v] = [test |-> ValueAdd(v, delta), overflow |-> FALSE] BY <1>2, <1>5
  <2>2. f[v].overflow = FALSE /\ f[v].test = ValueAdd(v, delta) BY <2>1
  <2>3. ValueAdd(v, delta) \in XSyncValue \ Pos /\ Int64(ValueAdd(v, delta)) = Int64(v) + d BY <1>2, <1>5
  <2>4. \A j \in 1 .. 1 - 1 : FALSE BY <1>3
  <2>5. StopsAt(f[v], v, d, Pos, 1) BY <1>3, <2>2, <2>3, <2>4 DEF StopsAt
  <2> QED BY <2>5
<1>6. ASSUME NEW v \in XSyncValue, ~AddOverflows(v, delta), ValueAdd(v, delta) \in Pos,
             Good(ValueAdd(v, delta))
      PROVE  Good(v)
  <2> DEFINE x == ValueAdd(v, delta)
  <2>1. f[v] = f[x] /\ x \in XSyncValue \cap Pos /\ Int64(x) = Int64(v) + d BY <1>2, <1>6
  <2>2. PICK k \in Nat \ {0} : StopsAt(f[x], x, d, Pos, k) BY <1>6
  <2> HIDE DEF x
  <2>3. \A j \in Int : Int64(x) + j * d = Int64(v) + (j + 1) * d
    <3> TAKE j \in Int
    <3>1. j * d \in Int /\ (j + 1) * d = j * d + d BY <1>1, Multiples
    <3> QED BY <1>1, <2>1, <3>1
  <2>4. ASSUME NEW j \in 1 .. (k + 1) - 1
        PROVE  \E p \in Pos \cap XSyncValue : Int64(p) = Int64(v) + j * d
    <3>1. CASE j = 1 BY <1>3, <2>1, <3>1
    <3>2. CASE j # 1
      <4>1. j - 1 \in 1 .. k - 1 /\ (j - 1) + 1 = j /\ j - 1 \in Int BY <3>2
      <4>2. PICK p \in Pos \cap XSyncValue : Int64(p) = Int64(x) + (j - 1) * d
        BY <2>2, <4>1 DEF StopsAt
      <4>3. Int64(p) = Int64(v) + j * d BY <2>3, <4>1, <4>2
      <4> QED BY <4>3
    <3> QED BY <3>1, <3>2
  <2>5. Int64(x) + k * d = Int64(v) + (k + 1) * d BY <2>3
  <2>6. StopsAt(f[v], v, d, Pos, k + 1) BY <2>1, <2>2, <2>4, <2>5 DEF StopsAt
  <2>7. k + 1 \in Nat \ {0} OBVIOUS
  <2> QED BY <2>6, <2>7
<1> HIDE DEF Good
<1>7. CASE IsZero(delta)
  <2>1. ValueAdd(start, delta) \notin Pos BY <1>7, AddingZero
  <2> QED BY <1>4, <1>5, <2>1 DEF Good, d
<1>8. CASE ~IsZero(delta)
  <2> DEFINE P(m) == \A v \in XSyncValue : Left(v, delta) < m => Good(v)
             S == { m \in Nat : P(m) }
  <2>1. P(0) BY LeftIsNat
  <2>2. ASSUME NEW m \in Nat, P(m) PROVE P(m + 1)
    <3> SUFFICES ASSUME NEW v \in XSyncValue, Left(v, delta) < m + 1 PROVE Good(v) OBVIOUS
    <3>1. CASE AddOverflows(v, delta) \/ ValueAdd(v, delta) \notin Pos BY <1>4, <1>5, <3>1
    <3>2. CASE ~AddOverflows(v, delta) /\ ValueAdd(v, delta) \in Pos
      <4>1. Left(ValueAdd(v, delta), delta) < Left(v, delta) BY <1>8, <3>2, LeftDecreases
      <4>2. Left(ValueAdd(v, delta), delta) \in Nat /\ Left(v, delta) \in Nat BY <1>2, LeftIsNat
      <4>3. Left(ValueAdd(v, delta), delta) < m BY <4>1, <4>2
      <4>4. Good(ValueAdd(v, delta)) BY <1>2, <2>2, <4>3
      <4> QED BY <1>6, <3>2, <4>4
    <3> QED BY <3>1, <3>2
  <2> HIDE DEF P
  <2>3. 0 \in S /\ \A m \in Nat : m \in S => m + 1 \in S BY <2>1, <2>2
  <2> HIDE DEF S
  <2>4. Nat \subseteq S BY <2>3, Induct
  <2>5. Left(start, delta) \in Nat /\ Left(start, delta) + 1 \in Nat
        /\ Left(start, delta) < Left(start, delta) + 1
    BY LeftIsNat
  <2>6. P(Left(start, delta) + 1) BY <2>4, <2>5 DEF S
  <2>7. Good(start) BY <2>5, <2>6 DEF P
  <2> QED BY <2>7 DEF Good, d
<1> QED BY <1>7, <1>8

(* What AlarmsAdvance says of an alarm r and the number of its counter.     *)
FalseOf(r, value, n) ==
    /\ r.test_type = "PositiveComparison" => n > value
    /\ r.test_type = "NegativeComparison" => n < value
Multiple(r) == { Int64(r.test_value) + k * Int64(r.delta) : k \in 1 .. Word * Word }
AheadOf(r, value) == { n \in Multiple(r) : InRange(n) /\ FalseOf(r, value, n) }
FirstOf(n, r, value) ==
    n \in AheadOf(r, value) /\ \A m \in AheadOf(r, value) : IF Int64(r.delta) > 0 THEN n <= m ELSE n >= m
GoesTo(new, r, value) ==
    IF AheadOf(r, value) = {} THEN new = [r EXCEPT !.state = "Inactive"]
    ELSE /\ new = [r EXCEPT !.test_value = new.test_value]
         /\ FirstOf(Int64(new.test_value), r, value)
Advanced(new, r, old, v) ==
    IF ~Test(r.test_type, old, v, r.test_value) THEN new = r ELSE GoesTo(new, r, Int64(v))

TrueFor(r, v) == { x \in XSyncValue : Test(r.CheckTrigger, v, v, x) }

LEMMA TrueForIs ==
    ASSUME NEW r \in TriggerType, NEW v \in XSyncValue, r.CheckTrigger = r.test_type,
           NEW x \in XSyncValue
    PROVE  x \in TrueFor(r, v) <=> r.test_type \in Comparisons /\ ~FalseOf(r, Int64(v), Int64(x))
<1>1. r.test_type \in TestTypes BY DEF TriggerType
<1>2. ExactComparisons(v, x) BY ComparisonsAreExact
<1>3. Int64(v) \in Int /\ Int64(x) \in Int BY Int64InRange
<1>4. CASE r.test_type \in {"PositiveTransition", "NegativeTransition"}
  BY <1>4, TransitionsStandStill DEF TrueFor, Comparisons
<1>5. CASE r.test_type = "PositiveComparison"
  BY <1>2, <1>3, <1>5 DEF TrueFor, Comparisons, Test, FalseOf, ExactComparisons
<1>6. CASE r.test_type = "NegativeComparison"
  BY <1>2, <1>3, <1>6 DEF TrueFor, Comparisons, Test, FalseOf, ExactComparisons
<1> QED BY <1>1, <1>4, <1>5, <1>6 DEF TestTypes, Comparisons

LEMMA StopsAtFirst ==
    ASSUME NEW r \in TriggerType, NEW v \in XSyncValue, r.CheckTrigger = r.test_type,
           NEW u, NEW k \in Nat \ {0}, StopsAt(u, r.test_value, Int64(r.delta), TrueFor(r, v), k)
    PROVE  IF u.overflow THEN AheadOf(r, Int64(v)) = {}
           ELSE u.test \in XSyncValue /\ FirstOf(Int64(u.test), r, Int64(v))
<1> DEFINE d == Int64(r.delta)
           b == Int64(r.test_value)
           V == Int64(v)
           N == Half * Word
           A == AheadOf(r, V)
<1>1. d \in Int /\ b \in Int /\ V \in Int /\ InRange(b) BY Int64InRange DEF TriggerType
<1>2. N \in Int /\ -Half * Word = -N /\ Word * Word = 2 * N
  BY WordIsPositive
<1>3. \A n : InRange(n) <=> -N <= n /\ n <= N - 1 BY <1>2 DEF InRange
<1>4. StopsAt(u, r.test_value, d, TrueFor(r, v), k) OBVIOUS
<1>5. \A n \in A : n \in Multiple(r) /\ InRange(n) /\ FalseOf(r, V, n) BY DEF AheadOf
<1>6. \A n \in Multiple(r) : \E j \in 1 .. Word * Word : n = b + j * d BY DEF Multiple
<1>7. \A j \in 1 .. Word * Word : b + j * d \in Multiple(r) BY DEF Multiple
<1> HIDE DEF d, b, V, N
<1>8. ASSUME NEW n \in A PROVE \E j \in Int : j >= k /\ n = b + j * d
  <2>1. PICK j \in 1 .. Word * Word : n = b + j * d BY <1>5, <1>6
  <2>2. j \in Int /\ j >= 1 BY <1>2
  <2>3. ~(j < k)
    <3> SUFFICES ASSUME j < k PROVE FALSE OBVIOUS
    <3>1. j \in 1 .. k - 1 BY <2>2
    <3>2. PICK p \in TrueFor(r, v) \cap XSyncValue : Int64(p) = b + j * d BY <1>4, <3>1 DEF StopsAt, b
    <3>3. ~FalseOf(r, V, n) BY <2>1, <3>2, TrueForIs DEF V
    <3> QED BY <1>5, <3>3
  <2> QED BY <2>1, <2>2, <2>3
<1>9. CASE u.overflow
  <2> SUFFICES ASSUME NEW n \in A PROVE FALSE BY <1>9 DEF V
  <2>1. PICK j \in Int : j >= k /\ n = b + j * d BY <1>8
  <2>2. ~InRange(b + k * d) BY <1>4, <1>9 DEF StopsAt, b
  <2>3. k * d \in Int /\ j * d \in Int /\ 0 * d = 0
        /\ (IF d >= 0 THEN 0 * d <= k * d ELSE 0 * d >= k * d)
        /\ (IF d >= 0 THEN k * d <= j * d ELSE k * d >= j * d)
    BY <1>1, <2>1, Multiples
  <2>4. InRange(n) BY <1>5
  <2> QED BY <1>1, <1>2, <1>3, <2>1, <2>2, <2>3, <2>4
<1>10. CASE ~u.overflow
  <2> DEFINE n == Int64(u.test)
  <2>1. u.test \in XSyncValue \ TrueFor(r, v) /\ n = b + k * d BY <1>4, <1>10 DEF StopsAt, b
  <2>2. n \in Int /\ InRange(n) BY <2>1, Int64InRange
  <2>3. FalseOf(r, V, n)
    <3>1. r.test_type \in Comparisons => FalseOf(r, V, n) BY <2>1, TrueForIs DEF V
    <3>2. r.test_type \notin Comparisons => FalseOf(r, V, n) BY DEF FalseOf, Comparisons
    <3> QED BY <3>1, <3>2
  <2> HIDE DEF n
  <2>4. n \in A
    <3>1. CASE k = 1
      <4>1. 1 \in 1 .. Word * Word
        <5>1. N >= 1
          <6>1. 0 * Word + Word <= Half * Word /\ 0 * Word = 0 BY WordIsPositive, Outweighs
          <6> QED BY <6>1, WordIsPositive DEF N
        <5> QED BY <1>2, <5>1
      <4>2. n \in Multiple(r) BY <1>7, <2>1, <3>1, <4>1
      <4> QED BY <2>2, <2>3, <4>2 DEF AheadOf
    <3>2. CASE k # 1
      <4>1. k - 1 \in 1 .. k - 1 /\ k - 1 \in Int /\ k - 1 >= 0 BY <3>2
      <4>2. PICK p \in TrueFor(r, v) \cap XSyncValue : Int64(p) = b + (k - 1) * d
        BY <1>4, <4>1 DEF StopsAt, b
      <4>3. InRange(b + (k - 1) * d) BY <4>2, Int64InRange
      <4>4. d # 0
        <5> SUFFICES ASSUME d = 0 PROVE FALSE OBVIOUS
        <5>1. (k - 1) * d = 0 /\ k * d = 0 OBVIOUS
        <5>2. Int64(p) = n BY <2>1, <4>2, <5>1
        <5>3. FalseOf(r, V, Int64(p)) BY <2>3, <5>2
        <5> QED BY <4>2, <5>3, TrueForIs DEF V
      <4>5. (k - 1) * d \in Int /\ (d > 0 => (k - 1) * d >= k - 1) /\ (d < 0 => (k - 1) * d <= -(k - 1))
        BY <1>1, <4>1, Multiples
      <4>6. k - 1 <= 2 * N - 1 BY <1>1, <1>2, <1>3, <4>3, <4>4, <4>5
      <4>7. k \in 1 .. Word * Word BY <1>2, <4>6
      <4>8. n \in Multiple(r) BY <1>7, <2>1, <4>7
      <4> QED BY <2>2, <2>3, <4>8 DEF AheadOf
    <3> QED BY <3>1, <3>2
  <2>5. ASSUME NEW m \in A PROVE IF d > 0 THEN n <= m ELSE n >= m
    <3>1. PICK j \in Int : j >= k /\ m = b + j * d BY <1>8
    <3>2. k * d \in Int /\ j * d \in Int /\ (IF d >= 0 THEN k * d <= j * d ELSE k * d >= j * d)
      BY <1>1, <3>1, Multiples
    <3>3. d = 0 => k * d = 0 /\ j * d = 0 OBVIOUS
    <3> QED BY <1>1, <2>1, <3>1, <3>2, <3>3
  <2>6. FirstOf(n, r, V) BY <2>4, <2>5 DEF FirstOf, d
  <2> QED BY <1>10, <2>1, <2>6 DEF n, V
<1> QED BY <1>4, <1>9, <1>10 DEF StopsAt

(* An alarm that goes off moves ahead.                                      *)
LEMMA FiresAhead ==
    ASSUME NEW s \in States, s.fate = "running", NEW a \in Live(s),
           NEW q, q = s.trigger[a], q.state = "Active", q.counter \in Counters,
           s.value[q.counter] \in XSyncValue, q.CheckTrigger = q.test_type,
           NEW old, Test(q.test_type, old, s.value[q.counter], q.test_value),
           NEW r, r = SyncAlarmTriggerFired(s, a), r.fate = "running"
    PROVE  GoesTo(r.trigger[a], q, Int64(s.value[q.counter]))
<1> DEFINE v == s.value[q.counter]
<1>1. q \in TriggerType /\ q.delta \in XSyncValue /\ q.test_value \in XSyncValue
  BY OneOfStates DEF TriggerType
<1>2. ASSUME NEW x, r = [s EXCEPT !.trigger[a] = x] PROVE r.trigger[a] = x
  BY <1>2, TheTable DEF States
<1>3. q.counter # None /\ Int64(v) \in Int BY Int64InRange, SyncAssumption
<1>4. TrueFor(q, v) = { x \in XSyncValue : Still(s, a, x) } BY DEF TrueFor, Still
<1>5. CASE OneShot(q)
  <2>1. r.trigger[a] = [q EXCEPT !.state = "Inactive"] BY <1>2, <1>5 DEF SyncAlarmTriggerFired
  <2>2. q.test_type \in Comparisons /\ Int64(q.delta) = 0 BY <1>1, <1>5, ZeroIsZero DEF OneShot
  <2>3. Test(q.CheckTrigger, v, v, q.test_value) BY <2>2 DEF Test, Comparisons
  <2>4. ~FalseOf(q, Int64(v), Int64(q.test_value)) BY <1>1, <2>3, TrueForIs DEF TrueFor
  <2>5. Int64(q.test_value) \in Int BY <1>1, Int64InRange
  <2>6. \A n \in Multiple(q) : n = Int64(q.test_value)
    <3> SUFFICES ASSUME NEW k \in 1 .. Word * Word
                 PROVE  Int64(q.test_value) + k * Int64(q.delta) = Int64(q.test_value)
      BY DEF Multiple
    <3>1. k \in Int /\ k * 0 = 0 BY WordIsPositive
    <3> QED BY <2>2, <2>5, <3>1
  <2>7. AheadOf(q, Int64(v)) = {} BY <2>4, <2>6 DEF AheadOf
  <2> QED BY <2>1, <2>7 DEF GoesTo
<1>6. CASE ~OneShot(q)
  <2>1. IsTrue(s, a) <=> Still(s, a, q.test_value) BY <1>3 DEF IsTrue, CheckTrigger, Still
  <2>2. ~(IsZero(q.delta) /\ IsTrue(s, a))
    <3> SUFFICES ASSUME IsZero(q.delta), IsTrue(s, a) PROVE FALSE OBVIOUS
    <3>1. r = [s EXCEPT !.fate = "looping"] BY <1>3, <1>6 DEF SyncAlarmTriggerFired
    <3>2. r.fate = "looping" BY <3>1 DEF States
    <3> QED BY <3>2
  <2>3. r = Rearmed(s, a, Updated(s, a)) BY <1>3, <1>6, <2>2 DEF SyncAlarmTriggerFired
  <2>4. PICK f : IsRearm(f, q.delta, TrueFor(q, v)) /\ Updated(s, a) = f[q.test_value]
    BY <1>4, UpdatedIs
  <2>5. ~IsZero(q.delta) \/ q.test_value \notin TrueFor(q, v) BY <1>4, <2>1, <2>2
  <2> DEFINE u == f[q.test_value]
  <2> HIDE DEF v
  <2>6. PICK k \in Nat \ {0} : StopsAt(u, q.test_value, Int64(q.delta), TrueFor(q, v), k)
    BY <1>1, <2>4, <2>5, RearmStops
  <2> HIDE DEF u
  <2>7. IF u.overflow THEN AheadOf(q, Int64(v)) = {}
        ELSE u.test \in XSyncValue /\ FirstOf(Int64(u.test), q, Int64(v))
    BY <1>1, <2>6, StopsAtFirst DEF v
  <2>8. r = Rearmed(s, a, u) BY <2>3, <2>4 DEF u
  <2>9. CASE u.overflow
    <3>1. r.trigger[a] = [q EXCEPT !.state = "Inactive"] BY <1>2, <2>8, <2>9 DEF Rearmed
    <3> QED BY <2>7, <2>9, <3>1 DEF GoesTo, v
  <2>10. CASE ~u.overflow
    <3>1. r.trigger[a] = [q EXCEPT !.test_value = u.test] BY <1>2, <2>8, <2>10 DEF Rearmed
    <3>2. r.trigger[a].test_value = u.test BY <1>1, <3>1 DEF TriggerType
    <3>3. AheadOf(q, Int64(v)) # {} BY <2>7, <2>10 DEF FirstOf
    <3> QED BY <2>7, <2>10, <3>1, <3>2, <3>3 DEF GoesTo, v
  <2> QED BY <2>9, <2>10
<1> QED BY <1>5, <1>6

(* What the walk does to the active alarms of a client's counter c: those   *)
(* still to come are as they were, those passed have advanced.              *)
Moving(s, c, a) ==
    a \in (Alarms \cap Live(s)) \ s.refused /\ s.trigger[a].counter = c /\ s.trigger[a].state = "Active"
MovedAt(w, s, c, newval, i) ==
    w.s.fate = "running" =>
        \A a : Moving(s, c, a) =>
            IF ToCome(a, s.list[c], i) THEN w.s.trigger[a] = s.trigger[a]
            ELSE Advanced(w.s.trigger[a], s.trigger[a], s.value[c], newval)

LEMMA FiringAlone ==
    ASSUME NEW u \in States, Listed(u), u.fate = "running", u.gone = {}, NEW t \in Live(u), NEW old,
           NEW r, r = IF CheckTrigger(u, t, old) THEN TriggerFired(u, t) ELSE u,
           NEW a \in Alarms \cap Live(u), a # t
    PROVE  r.trigger[a] = u.trigger[a]
<1>1. t \in Triggers BY TheTable
<1>2. CASE ~CheckTrigger(u, t, old) BY <1>2
<1>3. CASE CheckTrigger(u, t, old) /\ t \in Alarms
  <2>1. r = SyncAlarmTriggerFired(u, t) BY <1>3 DEF TriggerFired
  <2>2. PICK st \in {"Active", "Inactive"}, test \in XSyncValue : AlarmChanged(r, u, t, st, test)
    BY <2>1, FiresAlarm
  <2> QED BY <2>2 DEF AlarmChanged
<1>4. CASE CheckTrigger(u, t, old) /\ t \notin Alarms
  <2>1. r = SyncAwaitTriggerFired(u, t) BY <1>4 DEF TriggerFired
  <2>2. AwaitFreed(r, u, t[1]) BY <1>1, <1>4, <2>1, FiresAwait
  <2>3. a \notin Waits(u, t[1]) BY DEF Waits
  <2> QED BY <2>2, <2>3 DEF AwaitFreed
<1> QED BY <1>2, <1>3, <1>4

LEMMA MovesSteps ==
    ASSUME NEW w, NEW s, Core(s), s.fate = "running", s.dying = None, NEW c \in Counters,
           NEW newval \in XSyncValue, NEW i \in Nat, i + 1 \in 1 .. Len(s.list[c]),
           WalkAt(w, s, c, newval, i), MovedAt(w, s, c, newval, i),
           NEW x, x = Walked(w, c, s.value[c], s.list[c][i + 1])
    PROVE  MovedAt(x, s, c, newval, i + 1)
<1> SUFFICES ASSUME x.s.fate = "running", NEW a, Moving(s, c, a)
             PROVE  IF ToCome(a, s.list[c], i + 1) THEN x.s.trigger[a] = s.trigger[a]
                    ELSE Advanced(x.s.trigger[a], s.trigger[a], s.value[c], newval)
  BY DEF MovedAt
<1> SUFFICES ASSUME NEW L, L = s.list[c], NEW t, t = L[i + 1], NEW q, q = s.trigger[a]
             PROVE  IF ToCome(a, L, i + 1) THEN x.s.trigger[a] = q
                    ELSE Advanced(x.s.trigger[a], q, s.value[c], newval)
  OBVIOUS
<1>1. /\ s \in States /\ Listed(s) /\ c \in AllCounters
      /\ None \notin AllCounters /\ None \notin Triggers
  BY SyncAssumption DEF Core, AllCounters
<1>2. L \in Seq(Triggers) /\ IsInjective(L)
  <2>1. L \in Seq(Triggers) BY <1>1 DEF States
  <2>2. c # s.dying BY <1>1
  <2> QED BY <1>1, <2>1, <2>2 DEF Listed
<1>3. i + 1 \in 1 .. Len(L) /\ t \in Triggers BY <1>2
<1>4. a \in Alarms \cap Live(s) /\ a \notin s.refused /\ q.counter = c /\ q.state = "Active"
  BY DEF Moving
<1>5. q.CheckTrigger = q.test_type BY <1>4 DEF Core, Kept
<1>6. w.s.fate = "running"
  <2> SUFFICES ASSUME w.s.fate # "running" PROVE FALSE OBVIOUS
  <2>1. x = w BY DEF Walked
  <2> QED BY <2>1
<1> SUFFICES ASSUME NEW u, u = w.s, NEW R, R = u.list[c]
             PROVE  IF ToCome(a, L, i + 1) THEN x.s.trigger[a] = q
                    ELSE Advanced(x.s.trigger[a], q, s.value[c], newval)
  OBVIOUS
<1>7. WalkKeeps(u, s, c, newval) /\ WalkHere(w, L, c, i) BY <1>6 DEF WalkAt
<1>8. /\ u \in States /\ Listed(u) /\ u.fate = "running" /\ u.gone = {} /\ a \in Live(u)
      /\ u.value[c] = newval /\ \A e \in Live(u) : u.trigger[e].counter = s.trigger[e].counter
  BY <1>1, <1>4, <1>6, <1>7 DEF WalkKeeps, Core, States, WalkAt, WalkType
<1>9. /\ \A e \in Triggers : Contains(R, e) <=> Contains(L, e) /\ e \in Live(u)
      /\ NextFound(w.next, R, L, i)
  BY <1>7 DEF WalkHere
<1>10. IF ToCome(a, L, i) THEN u.trigger[a] = q ELSE Advanced(u.trigger[a], q, s.value[c], newval)
  BY <1>6 DEF MovedAt
<1>11. a # t => (ToCome(a, L, i + 1) <=> ToCome(a, L, i))
  <2> SUFFICES ASSUME a # t, NEW k \in 1 .. Len(L), L[k] = a PROVE k > i + 1 <=> k > i
    BY DEF ToCome
  <2>1. k # i + 1 OBVIOUS
  <2> QED BY <1>2, <2>1
<1>12. ToCome(t, L, i) /\ ~ToCome(t, L, i + 1)
  <2>1. i + 1 > i OBVIOUS
  <2>2. \A k \in 1 .. Len(L) : L[k] = t => k = i + 1 BY <1>2, <1>3, SamePosition
  <2> QED BY <1>3, <2>1, <2>2 DEF ToCome
<1>13. CASE t # w.next
  <2>1. x = w BY <1>13 DEF Walked
  <2>2. ~Contains(R, t) BY <1>2, <1>3, <1>9, <1>13, NotNext
  <2>3. Contains(L, t) BY <1>3 DEF Contains
  <2>4. a # t BY <1>3, <1>8, <1>9, <2>2, <2>3
  <2> QED BY <1>10, <1>11, <2>1, <2>4
<1>14. CASE t = w.next /\ ~Contains(R, t)
  <2>1. x = [w EXCEPT !.s.fate = "undefined"] BY <1>6, <1>14 DEF Walked
  <2>2. w \in WalkType BY DEF WalkAt
  <2>3. x.s.fate = "undefined" BY <2>1, <2>2 DEF WalkType, States
  <2> QED BY <2>3
<1>15. CASE t = w.next /\ Contains(R, t)
  <2>1. x = [next |-> After(R, t), s |-> IF CheckTrigger(u, t, s.value[c]) THEN TriggerFired(u, t) ELSE u]
    BY <1>6, <1>15 DEF Walked
  <2>2. PICK r : r = x.s /\ r = IF CheckTrigger(u, t, s.value[c]) THEN TriggerFired(u, t) ELSE u
    BY <2>1
  <2>3. t \in Live(u) BY <1>3, <1>9, <1>15
  <2>4. CASE a # t
    <3>1. r.trigger[a] = u.trigger[a] BY <1>4, <1>8, <2>2, <2>3, <2>4, FiringAlone
    <3> QED BY <1>10, <1>11, <2>2, <2>4, <3>1
  <2>5. CASE a = t
    <3>1. u.trigger[a] = q BY <1>10, <1>12, <2>5
    <3>2. c # None BY <1>1, SyncAssumption
    <3>3. CheckTrigger(u, t, s.value[c]) <=> Test(q.test_type, s.value[c], newval, q.test_value)
      BY <1>4, <1>5, <1>8, <2>5, <3>1, <3>2 DEF CheckTrigger
    <3>4. CASE ~CheckTrigger(u, t, s.value[c])
      <4>1. r = u BY <2>2, <3>4
      <4> QED BY <1>12, <2>2, <2>5, <3>1, <3>3, <3>4, <4>1 DEF Advanced
    <3>5. CASE CheckTrigger(u, t, s.value[c])
      <4>1. r = SyncAlarmTriggerFired(u, t) /\ r.fate = "running"
        BY <1>4, <2>2, <2>5, <3>5 DEF TriggerFired
      <4>2. GoesTo(r.trigger[a], q, Int64(u.value[q.counter]))
        BY <1>4, <1>5, <1>8, <2>3, <2>5, <3>1, <3>3, <3>5, <4>1, FiresAhead
      <4> QED BY <1>4, <1>8, <1>12, <2>2, <2>5, <3>3, <3>5, <4>2 DEF Advanced
    <3> QED BY <3>4, <3>5
  <2> QED BY <2>4, <2>5
<1> QED BY <1>13, <1>14, <1>15

LEMMA MovesStart ==
    ASSUME NEW s, Core(s), s.fate = "running", s.dying = None, NEW c \in Counters, NEW newval \in XSyncValue
    PROVE  MovedAt(FirstWalk(s, c, newval), s, c, newval, 0)
<1> SUFFICES ASSUME NEW w, w = FirstWalk(s, c, newval), NEW a, Moving(s, c, a)
             PROVE  ToCome(a, s.list[c], 0) /\ w.s.trigger[a] = s.trigger[a]
  BY DEF MovedAt
<1>1. s \in States /\ Listed(s) /\ c \in AllCounters /\ None \notin AllCounters
  BY SyncAssumption DEF Core, AllCounters
<1>2. w.s.trigger = s.trigger BY <1>1 DEF FirstWalk, States
<1>3. Contains(s.list[c], a) BY <1>1 DEF Moving, Core, Kept
<1>4. PICK k \in 1 .. Len(s.list[c]) : s.list[c][k] = a BY <1>3 DEF Contains
<1>5. k > 0 BY <1>1 DEF States
<1> QED BY <1>2, <1>4, <1>5 DEF ToCome

(* A change of a client's counter changes no other counter, and moves the   *)
(* alarms it sets off ahead.                                                *)
LEMMA ChangingAdvances ==
    ASSUME NEW s, Core(s), s.dying = None, s.gone = {}, Quiet(s), s.fate = "running",
           NEW c \in Counters, NEW newval \in XSyncValue,
           NEW r, r = SyncChangeCounter(s, c, newval)
    PROVE  /\ r.value = [s.value EXCEPT ![c] = newval]
           /\ r.fate = "running" =>
                 \A a : Moving(s, c, a) => Advanced(r.trigger[a], s.trigger[a], s.value[c], newval)
<1> SUFFICES ASSUME NEW L, L = s.list[c], NEW n, n = Len(L)
             PROVE  /\ r.value = [s.value EXCEPT ![c] = newval]
                    /\ r.fate = "running" =>
                          \A a : Moving(s, c, a) => Advanced(r.trigger[a], s.trigger[a], s.value[c], newval)
  OBVIOUS
<1>1. c \in AllCounters /\ c # SERVERTIME BY SyncAssumption DEF AllCounters
<1>2. n \in Nat BY <1>1 DEF Core, States
<1>3. PICK w : WholeWalk(w, s, c, newval, n) BY <1>1, WalkHolds
<1>4. /\ \A i \in 0 .. n : WalkAt(w[i], s, c, newval, i)
      /\ w[0] = FirstWalk(s, c, newval)
      /\ \A i \in 1 .. n : w[i] = Walked(w[i - 1], c, s.value[c], L[i])
      /\ r = w[n].s
  BY <1>1, <1>3 DEF WholeWalk, Bracketed
<1> DEFINE P(i) == i <= n => MovedAt(w[i], s, c, newval, i)
           S == { i \in Nat : P(i) }
<1>5. P(0) BY <1>4, MovesStart
<1>6. ASSUME NEW i \in Nat, P(i) PROVE P(i + 1)
  <2> SUFFICES ASSUME i + 1 <= n PROVE MovedAt(w[i + 1], s, c, newval, i + 1) OBVIOUS
  <2>1. i + 1 \in 1 .. n /\ i \in 0 .. n /\ i <= n /\ (i + 1) - 1 = i BY <1>2
  <2>2. w[i + 1] = Walked(w[i], c, s.value[c], L[i + 1]) BY <1>4, <2>1
  <2>3. MovedAt(w[i], s, c, newval, i) /\ WalkAt(w[i], s, c, newval, i) BY <1>4, <1>6, <2>1
  <2> QED BY <2>1, <2>2, <2>3, MovesSteps
<1> HIDE DEF P
<1>7. 0 \in S /\ \A i \in Nat : i \in S => i + 1 \in S BY <1>5, <1>6
<1> HIDE DEF S
<1>8. Nat \subseteq S BY <1>7, Induct
<1>9. MovedAt(w[n], s, c, newval, n)
  <2>1. n \in S /\ n <= n BY <1>2, <1>8
  <2>2. P(n) BY <2>1 DEF S
  <2> QED BY <2>1, <2>2 DEF P
<1>10. \A a : ~ToCome(a, L, n) BY <1>2 DEF ToCome
<1>11. n \in 0 .. n BY <1>2
<1>12. WalkKeeps(r, s, c, newval) BY <1>4, <1>11 DEF WalkAt
<1> QED BY <1>4, <1>9, <1>10, <1>12 DEF MovedAt, WalkKeeps

(* What the action property says of one alarm and one counter.              *)
LEMMA AlarmAdvances ==
    ASSUME NEW a \in Alarms \cap Live(state), NEW c \in Counters,
           NEW r, r = state.trigger[a], r.state = "Active",
           state.value[c] \in XSyncValue, state'.value[c] \in XSyncValue,
           Advanced(state'.trigger[a], r, state.value[c], state'.value[c])
    PROVE  LET value == Int64(state'.value[c])
               Ahead == { n \in { Int64(r.test_value) + k * Int64(r.delta) : k \in 1 .. Word * Word } :
                              /\ InRange(n)
                              /\ r.test_type = "PositiveComparison" => n > value
                              /\ r.test_type = "NegativeComparison" => n < value }
               IsFirst(n) == \A m \in Ahead : IF Int64(r.delta) > 0 THEN n <= m ELSE n >= m
               new == state'.trigger[a]
           IN  IF ~Test(r.test_type, state.value[c], state'.value[c], r.test_value)
               THEN new = r
               ELSE IF Ahead = {} THEN new = [r EXCEPT !.state = "Inactive"]
               ELSE /\ new = [r EXCEPT !.test_value = new.test_value]
                    /\ Int64(new.test_value) \in Ahead /\ IsFirst(Int64(new.test_value))
<1>1. AheadOf(r, Int64(state'.value[c])) =
         { n \in { Int64(r.test_value) + k * Int64(r.delta) : k \in 1 .. Word * Word } :
               /\ InRange(n)
               /\ r.test_type = "PositiveComparison" => n > Int64(state'.value[c])
               /\ r.test_type = "NegativeComparison" => n < Int64(state'.value[c]) }
  BY DEF AheadOf, Multiple, FalseOf
<1> QED BY <1>1 DEF Advanced, GoesTo, FirstOf

(* Set- and ChangeCounter.                                                  *)
LEMMA ChangingStep ==
    ASSUME Sound, Running, NEW d \in Counters, NEW v \in XSyncValue,
           state' = SyncChangeCounter(Fresh, d, v), Running',
           NEW a \in Alarms \cap Live(state), NEW c \in Counters,
           NEW r, r = state.trigger[a], r.counter = c, r.state = "Active", a \notin state.refused,
           Exists(state, c), Exists(state', c), state'.value[c] # state.value[c]
    PROVE  Advanced(state'.trigger[a], r, state.value[c], state'.value[c])
<1>1. Begun(Fresh) BY FreshBegins
<1> SUFFICES ASSUME NEW s, s = Fresh
             PROVE  Advanced(state'.trigger[a], r, state.value[c], state'.value[c])
  OBVIOUS
<1>2. Begun(s) BY <1>1
<1>3. /\ state'.value = [s.value EXCEPT ![d] = v]
      /\ \A b : Moving(s, d, b) => Advanced(state'.trigger[b], s.trigger[b], s.value[d], v)
  BY <1>2, ChangingAdvances DEF Begun, Running
<1>4. s.value \in [AllCounters -> XSyncValue \cup {None}] /\ d \in AllCounters /\ c \in AllCounters
  BY <1>2 DEF Begun, Core, States, AllCounters
<1>5. c = d /\ state'.value[c] = v BY <1>2, <1>3, <1>4 DEF Begun
<1>6. Moving(s, d, a) BY <1>2, <1>5 DEF Moving, Begun
<1> QED BY <1>2, <1>3, <1>5, <1>6 DEF Begun

(* AlarmsAdvance: a change of a client's counter moves an alarm it sets off *)
(* to the first later value for which it is FALSE, or makes it inactive:    *)
(* the loops of SyncChangeCounter and of SyncAlarmTriggerFired.             *)
THEOREM AlarmsAdvanceRight == Spec => AlarmsAdvance
<1>1. ASSUME Sound, [Next]_vars, NEW a \in Alarms \cap Live(state), NEW c \in Counters,
             NEW r, r = state.trigger[a], r.counter = c, r.state = "Active", a \notin state.refused,
             Exists(state, c), Exists(state', c), state'.value[c] # state.value[c], Running'
      PROVE  Advanced(state'.trigger[a], r, state.value[c], state'.value[c])
  <2>1. ~ValuesStay BY <1>1 DEF ValuesStay
  <2>2. CASE \E d \in Counters, v \in Values : SetCounter(d, v)
    <3>1. PICK d \in Counters, v \in Values : SetCounter(d, v) BY <2>2
    <3>2. v \in XSyncValue BY SyncAssumption
    <3> QED BY <1>1, <3>1, <3>2, ChangingStep DEF SetCounter, Free
  <2>3. CASE \E d \in Counters, v \in Values : ChangeCounter(d, v)
    <3>1. PICK d \in Counters, v \in Values : ChangeCounter(d, v) BY <2>3
    <3>2. v \in XSyncValue /\ d \in AllCounters BY SyncAssumption DEF AllCounters
    <3>3. state.value[d] \in XSyncValue BY <1>1, <3>1, <3>2 DEF ChangeCounter, Exists, Sound, Core, States
    <3>4. ValueAdd(state.value[d], v) \in XSyncValue BY <3>2, <3>3, AddIsTyped
    <3>5. ~AddOverflows(state.value[d], v)
      <4> SUFFICES ASSUME AddOverflows(state.value[d], v) PROVE ValuesStay BY <2>1
      <4>1. state' = Fresh BY <3>1 DEF ChangeCounter, Added
      <4>2. Begun(Fresh) BY <1>1, <3>1, FreshBegins DEF ChangeCounter, Free
      <4> QED BY <4>1, <4>2 DEF Begun, ValuesStay
    <3> QED BY <1>1, <3>1, <3>4, <3>5, ChangingStep DEF ChangeCounter, Free, Added
  <2>4. CASE ~(\E d \in Counters, v \in Values : SetCounter(d, v) \/ ChangeCounter(d, v))
    <3> SUFFICES ValuesStay BY <2>1
    <3>1. CASE UNCHANGED vars BY <3>1 DEF vars, ValuesStay
    <3>2. ASSUME NEW d \in Counters, NEW v \in Values, CreateCounter(d, v) PROVE ValuesStay
      BY <1>1, <3>2, CreateCounterSound
    <3>3. ASSUME NEW d \in Counters, DestroyCounter(d) PROVE ValuesStay
      BY <1>1, <3>3, DestroyCounterSound
    <3>4. ASSUME NEW cl \in Clients, NEW conds \in WaitLists, Await(cl, conds) PROVE ValuesStay
      BY <1>1, <3>4, AwaitSound
    <3>5. ASSUME NEW b \in Alarms, NEW req \in AlarmRequests, CreateAlarm(b, req) \/ ChangeAlarm(b, req)
          PROVE  ValuesStay
      BY <1>1, <3>5, CreateAlarmSound, ChangeAlarmSound
    <3>6. ASSUME NEW b \in Alarms, DestroyAlarm(b) PROVE ValuesStay BY <1>1, <3>6, DestroyAlarmSound
    <3>7. ASSUME NEW cl \in Clients, ClientGone(cl) PROVE ValuesStay BY <1>1, <3>7, ClientGoneSound
    <3>8. CASE QueryCounter BY <1>1, <3>8, QueryCounterSound
    <3>9. CASE Tick BY <1>1, <3>9, TickSound
    <3>10. CASE ServertimeWakeupHandler BY <1>1, <3>10, WakeupSound
    <3> QED
      BY <1>1, <2>4, <3>1, <3>2, <3>3, <3>4, <3>5, <3>6, <3>7, <3>8, <3>9, <3>10 DEF Next
  <2> QED BY <2>2, <2>3, <2>4
<1>2. ASSUME Sound, Sound', NEW c \in Counters, Exists(state, c), Exists(state', c)
      PROVE  state.value[c] \in XSyncValue /\ state'.value[c] \in XSyncValue
  BY <1>2 DEF Sound, Core, States, Exists, AllCounters
<1>3. Sound /\ [Next]_vars => Sound' BY NextSound
<1>4. ASSUME Sound, [Next]_vars
      PROVE  [\A a \in Alarms \cap Live(state), c \in Counters :
                 LET r == state.trigger[a]
                     value == Int64(state'.value[c])
                     Ahead == { n \in { Int64(r.test_value) + k * Int64(r.delta) : k \in 1 .. Word * Word } :
                                    /\ InRange(n)
                                    /\ r.test_type = "PositiveComparison" => n > value
                                    /\ r.test_type = "NegativeComparison" => n < value }
                     IsFirst(n) == \A m \in Ahead : IF Int64(r.delta) > 0 THEN n <= m ELSE n >= m
                 IN  (/\ r.counter = c /\ r.state = "Active" /\ a \notin state.refused
                      /\ Exists(state, c) /\ Exists(state', c) /\ state'.value[c] # state.value[c]
                      /\ Running') =>
                     LET new == state'.trigger[a]
                     IN  IF ~Test(r.test_type, state.value[c], state'.value[c], r.test_value)
                         THEN new = r
                         ELSE IF Ahead = {} THEN new = [r EXCEPT !.state = "Inactive"]
                         ELSE /\ new = [r EXCEPT !.test_value = new.test_value]
                              /\ Int64(new.test_value) \in Ahead /\ IsFirst(Int64(new.test_value))
             ]_vars
  <2>1. ASSUME NEW a \in Alarms \cap Live(state), NEW c \in Counters,
               NEW r, r = state.trigger[a], r.counter = c, r.state = "Active", a \notin state.refused,
               Exists(state, c), Exists(state', c), state'.value[c] # state.value[c], Running'
        PROVE  Advanced(state'.trigger[a], r, state.value[c], state'.value[c])
    BY <1>1, <1>4, <2>1
  <2> QED BY <1>2, <1>3, <1>4, <2>1, AlarmAdvances
<1> QED BY <1>4, AlwaysSound, PTL DEF Spec, AlarmsAdvance

-----------------------------------------------------------------------------
(* SumsAreExact: the test value of an alarm that is created relative to a   *)
(* counter.                                                                 *)

(* What Given makes of a new trigger.                                       *)
LEMMA GivenRelative ==
    ASSUME NEW req, {"value_type", "wait_value"} \subseteq DOMAIN req
    PROVE  LET x == Given(NoTrigger, req)
           IN  /\ x.value_type = req.value_type /\ x.wait_value = req.wait_value /\ x.counter = None
<1> DEFINE D == {"counter", "value_type", "wait_value", "test_type", "CheckTrigger",
                 "test_value", "event_threshold", "delta", "state"}
<1>1. DOMAIN NoTrigger = D BY DEF NoTrigger
<1>2. Given(NoTrigger, req) = [f \in D |-> IF f \in DOMAIN req \ {"counter"} THEN req[f] ELSE NoTrigger[f]]
  BY <1>1 DEF Given
<1>3. NoTrigger.counter = None BY DEF NoTrigger
<1> QED BY <1>2, <1>3

(* InitTest leaves all but CheckTrigger.                                    *)
LEMMA TestLeaves ==
    ASSUME NEW v \in States, NEW t \in Live(v), NEW changes, NEW r, r = InitTest(v, t, changes)
    PROVE  /\ r.s.value = v.value
           /\ r.s.trigger[t].value_type = v.trigger[t].value_type
           /\ r.s.trigger[t].wait_value = v.trigger[t].wait_value
<1> DEFINE q == v.trigger[t]
           x == [q EXCEPT !.CheckTrigger = q.test_type]
           u == [v EXCEPT !.trigger = [v.trigger EXCEPT ![t] = x]]
<1>1. q \in TriggerType BY OneOfStates
<1>2. r.s = v \/ r.s = u
  <2>1. r.s = v \/ r.s = [v EXCEPT !.trigger[t].CheckTrigger = v.trigger[t].test_type]
    BY DEF InitTest, Error, Ok
  <2>2. [v EXCEPT !.trigger[t].CheckTrigger = v.trigger[t].test_type] = u BY TheTable DEF States
  <2> QED BY <2>1, <2>2
<1>3. x.value_type = q.value_type /\ x.wait_value = q.wait_value
  <2> HIDE DEF q
  <2> QED BY <1>1 DEF TriggerType
<1> HIDE DEF x
<1>4. v.trigger \in [Live(v) -> TriggerType] BY TheTable
<1>5. u.value = v.value /\ u.trigger[t] = x BY <1>4 DEF States
<1> HIDE DEF u
<1> QED BY <1>2, <1>3, <1>5

(* A relative test value is refused exactly when it does not fit.           *)
LEMMA InitsSum ==
    ASSUME NEW v \in States, NEW t \in Live(v), NEW changes, "wait_value" \in changes,
           v.trigger[t].value_type = "Relative", v.trigger[t].counter # None,
           v.value[v.trigger[t].counter] \in XSyncValue,
           NEW r, r = InitValue(v, t, changes), r.ok
    PROVE  /\ ~AddOverflows(v.value[v.trigger[t].counter], v.trigger[t].wait_value)
           /\ r.s.trigger[t].test_value = ValueAdd(v.value[v.trigger[t].counter], v.trigger[t].wait_value)
<1> DEFINE q == v.trigger[t]
           sum == ValueAdd(v.value[q.counter], q.wait_value)
           Store(w) == [v EXCEPT !.trigger[t].test_value = w]
           x == [q EXCEPT !.test_value = sum]
<1>1. q \in TriggerType BY OneOfStates
<1>2. r = IF AddOverflows(v.value[q.counter], q.wait_value) THEN Error(Store(sum)) ELSE Ok(Store(sum))
  <2>1. {"value_type", "wait_value"} \cap changes # {} /\ q.value_type # "Absolute" /\ q.counter # None
    BY SMT
  <2> QED BY <2>1 DEF InitValue
<1>3. ~AddOverflows(v.value[q.counter], q.wait_value) BY <1>2 DEF Error
<1>4. r.s = Store(sum) BY <1>2, <1>3 DEF Ok
<1> HIDE DEF sum
<1>5. Store(sum) = [v EXCEPT !.trigger = [v.trigger EXCEPT ![t] = x]] BY TheTable DEF States
<1>6. x.test_value = sum
  <2> HIDE DEF q
  <2> QED BY <1>1 DEF TriggerType
<1>7. v.trigger \in [Live(v) -> TriggerType] BY TheTable
<1> HIDE DEF x
<1>8. r.s.trigger[t] = x BY <1>4, <1>5, <1>7 DEF States
<1> QED BY <1>3, <1>6, <1>8 DEF sum

(* The same through SyncInitTrigger, for a trigger without a counter.       *)
LEMMA InitsRelative ==
    ASSUME NEW s \in States, Listed(s), s.dying = None, NEW t \in Live(s), now \in XSyncValue,
           s.trigger[t].counter = None, s.trigger[t].value_type = "Relative",
           NEW c \in Counters, NEW changes, {"counter", "wait_value"} \subseteq changes,
           NEW r, r = SyncInitTrigger(s, t, c, changes), r.ok
    PROVE  /\ s.value[c] \in XSyncValue /\ ~AddOverflows(s.value[c], s.trigger[t].wait_value)
           /\ r.s.trigger[t].test_value = ValueAdd(s.value[c], s.trigger[t].wait_value)
<1>1. /\ c \in AllCounters \cup {None} /\ c \in AllCounters /\ c # None /\ c # SERVERTIME
  BY SyncAssumption DEF AllCounters
<1>2. Exists(s, c)
  <2> SUFFICES ASSUME ~Exists(s, c) PROVE ~r.ok BY DEF Exists
  <2>1. r = Error(s) BY <1>1 DEF SyncInitTrigger
  <2> QED BY <2>1 DEF Error
<1> DEFINE v == PointTo(s, t, c)
           x == [s.trigger[t] EXCEPT !.counter = c]
           r2 == InitTest(v, t, changes)
           r3 == IF r2.ok THEN InitValue(r2.s, t, changes) ELSE r2
           r4 == IF r3.ok THEN InitList(r3.s, t, c # s.trigger[t].counter) ELSE r3
<1>3. r = r4
  <2>1. Ask(v, c) = v BY <1>1 DEF Ask
  <2> QED BY <1>1, <1>2, <2>1 DEF SyncInitTrigger, Then
<1>4. s.value[c] \in XSyncValue BY <1>1, <1>2 DEF States, Exists
<1>5. Pointed(v, s, t, c) BY <1>1, PointsTo
<1>6. v.trigger[t] = x /\ v.value = s.value
  <2>1. SyncDeleteTriggerFromCounter(s, t) = s BY <1>1, SyncAssumption DEF SyncDeleteTriggerFromCounter
  <2>2. v = [s EXCEPT !.trigger = [s.trigger EXCEPT ![t] = x]] BY <1>1, <2>1, TheTable DEF PointTo, States
  <2>3. s.trigger \in [Live(s) -> TriggerType] BY TheTable
  <2> HIDE DEF v, x
  <2> QED BY <2>2, <2>3 DEF States
<1>7. x.counter = c /\ x.value_type = "Relative" /\ x.wait_value = s.trigger[t].wait_value
  BY OneOfStates DEF TriggerType
<1> HIDE DEF v, x
<1>8. v \in States /\ t \in Live(v) BY <1>5 DEF Pointed, OnlyThis, OthersStay
<1>9. r2.ok \in BOOLEAN /\ Pointed(r2.s, s, t, c) /\ r2.s.value = v.value
  BY <1>5, <1>8, InitsTest
<1>10. r2.s.trigger[t].value_type = "Relative" /\ r2.s.trigger[t].wait_value = s.trigger[t].wait_value
  BY <1>6, <1>7, <1>8, TestLeaves
<1> HIDE DEF r2
<1>11. r2.s \in States /\ t \in Live(r2.s) BY <1>9 DEF Pointed, OnlyThis, OthersStay
<1>12. r2.s.trigger[t].counter = c BY <1>9 DEF Pointed
<1>13. r3.ok BY <1>3
<1>14. r3 = InitValue(r2.s, t, changes) BY <1>13
<1> HIDE DEF r3
<1>15. /\ ~AddOverflows(s.value[c], s.trigger[t].wait_value)
       /\ r3.s.trigger[t].test_value = ValueAdd(s.value[c], s.trigger[t].wait_value)
  BY <1>1, <1>4, <1>6, <1>9, <1>10, <1>11, <1>12, <1>13, <1>14, InitsSum
<1>16. Pointed(r3.s, s, t, c) /\ r3.s \in States
  BY <1>1, <1>4, <1>6, <1>9, <1>11, <1>14, InitsValue
<1>17. t \in Live(r3.s) BY <1>16 DEF Pointed, OnlyThis, OthersStay
<1>18. r = InitList(r3.s, t, c # s.trigger[t].counter) BY <1>3, <1>13
<1> HIDE DEF r4
<1>19. ListDone(r, s, t, c, r3.s) BY <1>1, <1>16, <1>17, <1>18, InitsList
<1> QED BY <1>4, <1>15, <1>19 DEF ListDone

(* And through SyncChangeAlarmAttributes.                                   *)
LEMMA AttributesRelative ==
    ASSUME NEW p \in States, Listed(p), p.dying = None, NEW a \in Live(p), now \in XSyncValue,
           p.trigger[a] = NoTrigger, NEW req, Gives(req, AlarmFields),
           {"counter", "value_type", "wait_value"} \subseteq DOMAIN req,
           req.counter \in Counters, req.value_type = "Relative",
           NEW r, r = SyncChangeAlarmAttributes(p, a, req), r.ok
    PROVE  /\ p.value[req.counter] \in XSyncValue /\ ~AddOverflows(p.value[req.counter], req.wait_value)
           /\ r.s.trigger[a].counter = req.counter
           /\ r.s.trigger[a].test_value = ValueAdd(p.value[req.counter], req.wait_value)
<1> DEFINE c == req.counter
           u == Stored(p, a, req)
           q == SyncInitTrigger(u, a, c, DOMAIN req)
           v == [q.s EXCEPT !.trigger[a].state = "Active"]
<1>1. /\ OthersStay(u, p, a) /\ u.list = p.list /\ u.value = p.value
      /\ IsGiven(u.trigger[a], p.trigger[a], req)
  BY StoresAttributes
<1>2. u.trigger[a] = Given(NoTrigger, req) BY TheTable DEF Stored, States
<1>3. /\ u.trigger[a].value_type = "Relative" /\ u.trigger[a].wait_value = req.wait_value
      /\ u.trigger[a].counter = None
  BY <1>2, GivenRelative
<1>4. r = IF {"delta", "test_type"} \cap DOMAIN req # {} /\ ~Matches(u.trigger[a]) THEN Error(u)
          ELSE IF q.ok THEN Ok(v) ELSE q
  BY DEF SyncChangeAlarmAttributes, CheckAttributes, Then
<1>5. u \in States /\ Listed(u) /\ u.dying = None /\ a \in Live(u) BY <1>1 DEF OthersStay
<1> HIDE DEF u
<1>6. q.ok /\ r.s = v
  <2>1. r # Error(u) BY DEF Error
  <2>2. q.ok BY <1>4, <2>1
  <2>3. r = Ok(v) BY <1>4, <2>1, <2>2
  <2> QED BY <2>2, <2>3 DEF Ok
<1>7. c \in Counters /\ {"counter", "wait_value"} \subseteq DOMAIN req OBVIOUS
<1>8. c \in AllCounters \cup {None} BY DEF AllCounters
<1>9. InitDone(q, u, a, c, DOMAIN req)
  <2>1. c = IF "counter" \in DOMAIN req THEN c ELSE u.trigger[a].counter OBVIOUS
  <2> HIDE DEF q, c
  <2> QED BY <1>5, <1>8, <2>1, InitsTrigger DEF q
<1> HIDE DEF c
<1>10. /\ u.value[c] \in XSyncValue /\ ~AddOverflows(u.value[c], u.trigger[a].wait_value)
       /\ q.s.trigger[a].test_value = ValueAdd(u.value[c], u.trigger[a].wait_value)
  BY <1>3, <1>5, <1>6, <1>7, InitsRelative
<1> HIDE DEF q
<1>11. q.s \in States /\ a \in Live(q.s) /\ OthersStay(q.s, u, a)
  BY <1>5, <1>9 DEF InitDone, OnlyThis, OthersStay
<1>12. q.s.trigger[a].counter = c BY <1>6, <1>9 DEF InitDone
<1>13. /\ OthersStay(v, u, a) /\ v.list = q.s.list /\ v.value = q.s.value
       /\ v.trigger[a] = [q.s.trigger[a] EXCEPT !.state = "Active"]
       /\ q.s.trigger[a] \in TriggerType
  BY <1>11, SetsState
<1> HIDE DEF v
<1>14. v.trigger[a].test_value = q.s.trigger[a].test_value /\ v.trigger[a].counter = q.s.trigger[a].counter
  BY <1>13 DEF TriggerType
<1> QED BY <1>1, <1>3, <1>6, <1>10, <1>12, <1>14 DEF c

(* CreateAlarm: with a sum that does not fit there is no alarm; one that is *)
(* for a later value has the sum.                                           *)
LEMMA CreatesExactly ==
    ASSUME NEW s, Core(s), s.dying = None, Quiet(s), s.fate = "running", now \in XSyncValue,
           NEW a \in Alarms \ Live(s), NEW req, Gives(req, AlarmFields),
           {"counter", "value_type", "wait_value"} \subseteq DOMAIN req,
           req.counter \in Counters, req.value_type = "Relative",
           NEW x, x = Created(SyncChangeAlarmAttributes(Register(s, a, NoTrigger), a, req), a),
           a \in Live(x)
    PROVE  LET sum == Int64(s.value[req.counter]) + Int64(req.wait_value)
           IN  /\ InRange(sum)
               /\ x.trigger[a].test_type = "PositiveComparison" /\ Int64(req.wait_value) > 0
                  => Int64(x.trigger[a].test_value) = sum
<1> DEFINE p == Register(s, a, NoTrigger)
           r == SyncChangeAlarmAttributes(p, a, req)
           u == r.s
           c == req.counter
<1>1. Keeps(p, s) /\ TriggerIs(p, s, a, NoTrigger) /\ a \notin p.refused BY NewAlarmKeepsCore
<1> HIDE DEF p
<1>2. /\ Core(p) /\ p.dying = None /\ p.fate = "running" /\ Quiet(p) /\ p \in States /\ Listed(p)
      /\ a \in Live(p) /\ p.trigger[a] = NoTrigger /\ p.trigger[a].counter = None /\ p.value = s.value
  BY <1>1, NoTriggerTyped DEF Keeps, Changes, TriggerIs, Core
<1>3. Freed # None /\ None \notin AllCounters BY SyncAssumption DEF AllCounters
<1>4. AttributesDone(r, p, a) BY <1>2, <1>3, SetsAttributes
<1>5. r.ok \in BOOLEAN /\ OthersStay(u, p, a) BY <1>4 DEF AttributesDone
<1>6. u \in States /\ Listed(u) /\ u.fate = "running" /\ a \in Live(u)
      /\ \A d \in Counters : u.value[d] = s.value[d]
  BY <1>2, <1>5 DEF OthersStay
<1>7. r.ok
  <2> SUFFICES ASSUME ~r.ok PROVE FALSE BY <1>5
  <2>1. x = Forget(u, {a}) BY DEF Created, p
  <2>2. Live(x) = Live(u) \ {a} BY <2>1, <1>6 DEF Forget, Live, States
  <2> QED BY <2>2
<1>8. /\ s.value[c] \in XSyncValue /\ ~AddOverflows(s.value[c], req.wait_value)
      /\ u.trigger[a].counter = c /\ u.trigger[a].test_value = ValueAdd(s.value[c], req.wait_value)
  BY <1>2, <1>7, AttributesRelative
<1>9. req.wait_value \in XSyncValue
  <2>1. req["wait_value"] \in Attribute["wait_value"] BY DEF Gives
  <2> QED BY <2>1 DEF Attribute
<1>10. ExactSum(s.value[c], req.wait_value) BY <1>8, <1>9, AddIsExact
<1>11. c \in Counters /\ c # None BY <1>3 DEF AllCounters
<1>12. x = IF IsTrue(u, a) THEN SyncAlarmTriggerFired(u, a) ELSE u
  <2>1. r = SyncChangeAlarmAttributes(Register(s, a, NoTrigger), a, req) BY DEF p
  <2> HIDE DEF r, c
  <2> QED BY <1>7, <1>8, <1>11, <2>1 DEF Created
<1>13. u.trigger[a].test_type = u.trigger[a].CheckTrigger BY <1>1, <1>4, <1>7 DEF AttributesDone, SetUp
<1> HIDE DEF r, u, c
<1>14. ASSUME x.trigger[a].test_type = "PositiveComparison", Int64(req.wait_value) > 0
       PROVE  ~IsTrue(u, a)
  <2>1. u.trigger[a].test_type = "PositiveComparison"
    <3>1. CASE IsTrue(u, a)
      <4>1. x = SyncAlarmTriggerFired(u, a) BY <1>12, <3>1
      <4>2. \E st \in {"Active", "Inactive"}, test \in XSyncValue : AlarmChanged(x, u, a, st, test)
        BY <1>6, <4>1, FiresAlarm
      <4>3. u.trigger[a] \in TriggerType BY <1>6, OneOfStates
      <4> QED BY <1>14, <4>2, <4>3 DEF AlarmChanged, TriggerType
    <3>2. CASE ~IsTrue(u, a) BY <1>12, <1>14, <3>2
    <3> QED BY <3>1, <3>2
  <2>2. ValueAdd(s.value[c], req.wait_value) \in XSyncValue BY <1>8, <1>9, AddIsTyped
  <2>3. /\ Int64(s.value[c]) \in Int /\ Int64(req.wait_value) \in Int
        /\ Int64(ValueAdd(s.value[c], req.wait_value)) = Int64(s.value[c]) + Int64(req.wait_value)
    BY <1>8, <1>9, <1>10, Int64InRange DEF ExactSum
  <2>4. ~(Int64(s.value[c]) >= Int64(ValueAdd(s.value[c], req.wait_value))) BY <1>14, <2>3
  <2>5. ~GreaterOrEqual(s.value[c], ValueAdd(s.value[c], req.wait_value))
    BY <1>8, <2>2, <2>4, ComparisonsAreExact DEF ExactComparisons
  <2> QED BY <1>6, <1>8, <1>11, <1>13, <2>1, <2>5 DEF IsTrue, CheckTrigger, Test
<1>15. InRange(Int64(s.value[c]) + Int64(req.wait_value)) BY <1>8, <1>10 DEF ExactSum
<1>16. ASSUME x.trigger[a].test_type = "PositiveComparison", Int64(req.wait_value) > 0
       PROVE  Int64(x.trigger[a].test_value) = Int64(s.value[c]) + Int64(req.wait_value)
  BY <1>8, <1>10, <1>12, <1>14, <1>16 DEF ExactSum
<1> QED BY <1>15, <1>16 DEF c

LEMMA ChangesExactly ==
    ASSUME Sound, NEW c \in Counters, NEW v \in Values, ChangeCounter(c, v)
    PROVE  LET sum == Int64(state.value[c]) + Int64(v)
           IN  IF InRange(sum) THEN Int64(state'.value[c]) = sum ELSE state'.value = state.value
<1>1. Begun(Fresh) BY FreshBegins DEF ChangeCounter, Free
<1>2. v \in XSyncValue /\ c \in AllCounters BY SyncAssumption DEF AllCounters
<1>3. state.value[c] \in XSyncValue BY <1>2 DEF ChangeCounter, Exists, Sound, Core, States
<1>4. ExactSum(state.value[c], v) BY <1>2, <1>3, AddIsExact
<1>5. CASE AddOverflows(state.value[c], v)
  <2>1. state' = Fresh BY <1>5 DEF ChangeCounter, Added
  <2> QED BY <1>1, <1>4, <1>5, <2>1 DEF ExactSum, Begun
<1>6. CASE ~AddOverflows(state.value[c], v)
  <2> DEFINE sum == ValueAdd(state.value[c], v)
  <2>1. state' = SyncChangeCounter(Fresh, c, sum) BY <1>6 DEF ChangeCounter, Added
  <2>2. sum \in XSyncValue BY <1>2, <1>3, AddIsTyped
  <2> HIDE DEF sum
  <2>3. state'.value = [Fresh.value EXCEPT ![c] = sum]
    BY <1>1, <1>2, <2>1, <2>2, ChangingKeepsCore DEF Begun
  <2>4. Fresh.value \in [AllCounters -> XSyncValue \cup {None}] BY <1>1 DEF Begun, Core, States
  <2>5. state'.value[c] = sum BY <1>2, <2>3, <2>4
  <2> QED BY <1>4, <1>6, <2>5 DEF ExactSum, sum
<1> QED BY <1>5, <1>6

(* SumsAreExact: ChangeCounter and the creation of an alarm refuse a sum    *)
(* exactly when it does not fit in two words, and store it exactly when it  *)
(* does (ProcSyncChangeCounter, SyncInitTrigger), in every reachable state. *)
THEOREM CountersAddExactly == Spec => SumsAreExact
<1>1. ASSUME Sound, [Next]_vars
      PROVE  [/\ \A c \in Counters, v \in Values :
                    ChangeCounter(c, v) =>
                    LET sum == Int64(state.value[c]) + Int64(v)
                    IN  IF InRange(sum) THEN Int64(state'.value[c]) = sum ELSE state'.value = state.value
              /\ \A a \in Alarms, req \in AlarmRequests :
                    /\ a \in Live(state') \ Live(state) /\ CreateAlarm(a, req)
                    /\ {"counter", "value_type", "wait_value"} \subseteq DOMAIN req
                    /\ req.counter \in Counters /\ req.value_type = "Relative"
                    => LET sum == Int64(state.value[req.counter]) + Int64(req.wait_value)
                       IN  /\ InRange(sum)
                           /\ /\ state'.trigger[a].test_type = "PositiveComparison"
                              /\ Int64(req.wait_value) > 0
                              => Int64(state'.trigger[a].test_value) = sum
             ]_vars
  <2>1. ASSUME NEW a \in Alarms, NEW req \in AlarmRequests,
               a \in Live(state') \ Live(state), CreateAlarm(a, req),
               {"counter", "value_type", "wait_value"} \subseteq DOMAIN req,
               req.counter \in Counters, req.value_type = "Relative"
        PROVE  LET sum == Int64(state.value[req.counter]) + Int64(req.wait_value)
               IN  /\ InRange(sum)
                   /\ state'.trigger[a].test_type = "PositiveComparison" /\ Int64(req.wait_value) > 0
                      => Int64(state'.trigger[a].test_value) = sum
    <3>1. Begun(Fresh) BY <1>1, <2>1, FreshBegins DEF CreateAlarm, Free
    <3>2. a \in Alarms \ Live(Fresh) /\ Fresh.value = state.value BY <2>1, <3>1 DEF Begun
    <3>3. Gives(req, AlarmFields) /\ now \in XSyncValue BY <1>1, SyncAssumption DEF Sound
    <3>4. state' = Created(SyncChangeAlarmAttributes(Register(Fresh, a, NoTrigger), a, req), a)
      BY <2>1 DEF CreateAlarm
    <3> QED BY <2>1, <3>1, <3>2, <3>3, <3>4, CreatesExactly DEF Begun
  <2> QED BY <1>1, <2>1, ChangesExactly
<1> QED BY <1>1, AlwaysSound, PTL DEF Spec, SumsAreExact

-----------------------------------------------------------------------------
(* The timer is set in time: what every operation does to it.               *)
LEMMA FateTells ==
    ASSUME NEW s \in States, NEW f, NEW r, r = [s EXCEPT !.fate = f]
    PROVE  Tells(r, s, {})
<1>1. /\ r.bracket = s.bracket /\ r.timer = s.timer /\ r.list = s.list /\ r.value = s.value
      /\ r.refused = s.refused /\ r.trigger = s.trigger
  BY DEF States
<1> QED BY <1>1, TellsNothing

LEMMA ReleasedAwaitTells ==
    ASSUME NEW s \in States, Listed(s), NEW t \in Triggers \ Alarms, NEW r, r = SyncAwaitTriggerFired(s, t)
    PROVE  Tells(r, s, {})
<1>1. CASE t[1] \in s.gone
  <2>1. r = [s EXCEPT !.fate = "undefined"] BY <1>1, FiresGone
  <2> QED BY <2>1, FateTells
<1>2. CASE t[1] \notin s.gone BY <1>2, FiresAwait DEF AwaitFreed
<1> QED BY <1>1, <1>2

LEMMA FiringTells ==
    ASSUME NEW s \in States, Listed(s), s.fate = "running", NEW t \in Live(s), NEW r, r = TriggerFired(s, t)
    PROVE  Tells(r, s, {})
<1>1. t \in Triggers BY TheTable
<1>2. CASE t \in Alarms
  <2>1. r = SyncAlarmTriggerFired(s, t) BY <1>2 DEF TriggerFired
  <2>2. \E st \in {"Active", "Inactive"}, test \in XSyncValue : AlarmChanged(r, s, t, st, test)
    BY <2>1, FiresAlarm
  <2> QED BY <1>2, <2>2, AlarmTells
<1>3. CASE t \notin Alarms
  <2>1. r = SyncAwaitTriggerFired(s, t) BY <1>3 DEF TriggerFired
  <2> QED BY <1>1, <1>3, <2>1, ReleasedAwaitTells
<1> QED BY <1>2, <1>3

LEMMA WalkTells ==
    ASSUME NEW w \in WalkType, NEW c \in AllCounters, NEW old, NEW t \in Triggers
    PROVE  Tells(Walked(w, c, old, t).s, w.s, {})
<1>1. /\ w.s \in States /\ Listed(w.s) /\ w.s.dying = None
      /\ w \in [s : States, next : Triggers \cup {None}]
  BY DEF WalkType
<1>2. CASE w.s.fate # "running" \/ t # w.next
  <2>1. Walked(w, c, old, t) = w BY <1>2 DEF Walked
  <2> QED BY <2>1, TellsNothing
<1>3. CASE ~(w.s.fate # "running" \/ t # w.next) /\ ~Contains(w.s.list[c], t)
  <2>1. Walked(w, c, old, t) = [w EXCEPT !.s = [w.s EXCEPT !.fate = "undefined"]]
    BY <1>3 DEF Walked
  <2>2. Walked(w, c, old, t).s = [w.s EXCEPT !.fate = "undefined"] BY <1>1, <2>1
  <2> QED BY <1>1, <2>2, FateTells
<1>4. CASE w.s.fate = "running" /\ t = w.next /\ Contains(w.s.list[c], t)
  <2> DEFINE r == IF CheckTrigger(w.s, t, old) THEN TriggerFired(w.s, t) ELSE w.s
  <2>1. Walked(w, c, old, t).s = r BY <1>4 DEF Walked
  <2>2. None \notin AllCounters BY SyncAssumption DEF AllCounters
  <2>3. t \in Live(w.s) BY <1>1, <1>4, <2>2 DEF Listed
  <2>4. Tells(TriggerFired(w.s, t), w.s, {}) BY <1>1, <1>4, <2>3, FiringTells
  <2>5. Tells(w.s, w.s, {}) BY TellsNothing
  <2>6. Tells(r, w.s, {}) BY <2>4, <2>5
  <2> QED BY <2>1, <2>6
<1> QED BY <1>2, <1>3, <1>4

(* SyncChangeCounter, up to the search that ends it.                        *)
LEMMA ChangingTells ==
    ASSUME NEW s \in States, Listed(s), s.dying = None, s.gone = {},
           NEW c \in AllCounters, NEW newval \in XSyncValue, c = SERVERTIME => newval = now
    PROVE  \E u \in States : /\ Listed(u) /\ u.dying = None /\ Tells(u, s, {})
                             /\ SyncChangeCounter(s, c, newval) = Bracketed(u, c)
<1> DEFINE L == s.list[c]
           n == Len(L)
<1>1. PICK w \in [0 .. n -> WalkType] :
         /\ w[0] = FirstWalk(s, c, newval)
         /\ \A i \in 1 .. n : w[i - 1] \in WalkType /\ w[i] = Walked(w[i - 1], c, s.value[c], L[i])
         /\ SyncChangeCounter(s, c, newval) = Bracketed(w[n].s, c)
  BY CounterWalk
<1>2. n \in Nat /\ L \in Seq(Triggers) BY DEF States
<1>3. \A i \in 1 .. n : L[i] \in Triggers BY <1>2
<1> DEFINE S == { i \in 0 .. n : Tells(w[i].s, s, {}) }
<1>4. 0 \in S
  <2> DEFINE u == FirstWalk(s, c, newval).s
  <2>1. /\ u.value = [s.value EXCEPT ![c] = newval] /\ u.list = s.list /\ u.trigger = s.trigger
        /\ u.refused = s.refused /\ u.bracket = s.bracket /\ u.timer = s.timer
    BY FirstWalkTyped
  <2> HIDE DEF u
  <2>2. s.value \in [AllCounters -> XSyncValue \cup {None}] /\ SERVERTIME \in AllCounters
    BY DEF States, AllCounters
  <2>3. TimeMoves(u, s) BY <2>1, <2>2 DEF TimeMoves
  <2>4. SameTimer(u, s, {}) BY <2>1 DEF SameTimer
  <2>5. Tells(u, s, {}) BY <2>3, <2>4 DEF Tells
  <2> QED BY <1>1, <1>2, <2>5 DEF u
<1>5. ASSUME NEW i \in Nat, i \in S, i + 1 \in 1 .. n PROVE i + 1 \in S
  <2>1. i + 1 \in 0 .. n /\ (i + 1) - 1 = i /\ i \in 0 .. n BY <1>2, <1>5
  <2>2. w[i + 1] = Walked(w[i], c, s.value[c], L[i + 1]) /\ w[i] \in WalkType BY <1>1, <1>5, <2>1
  <2>3. Tells(w[i + 1].s, w[i].s, {}) BY <1>3, <1>5, <2>2, WalkTells
  <2>4. Tells(w[i].s, s, {}) BY <1>5
  <2>5. w[i].s \in States /\ Listed(w[i].s) BY <2>2 DEF WalkType
  <2>6. Tells(w[i + 1].s, s, {}) BY <2>3, <2>4, <2>5, TellsOn
  <2> QED BY <2>1, <2>6
<1> HIDE DEF S
<1>6. 0 .. n \subseteq S BY <1>2, <1>4, <1>5, UpTo
<1>7. n \in 0 .. n BY <1>2
<1>8. Tells(w[n].s, s, {}) BY <1>6, <1>7 DEF S
<1>9. w[n].s \in States /\ Listed(w[n].s) /\ w[n].s.dying = None
  <2>1. w[n] \in WalkType BY <1>1, <1>7
  <2> QED BY <2>1 DEF WalkType
<1> QED BY <1>1, <1>8, <1>9

LEMMA ChangingKeepsTimer ==
    ASSUME NEW s \in States, Listed(s), s.dying = None, s.gone = {},
           NEW c \in Counters, NEW newval \in XSyncValue
    PROVE  Tells(SyncChangeCounter(s, c, newval), s, {})
<1>1. c # SERVERTIME /\ c \in AllCounters BY SyncAssumption DEF AllCounters
<1>2. PICK u \in States : Tells(u, s, {}) /\ SyncChangeCounter(s, c, newval) = Bracketed(u, c)
  BY <1>1, ChangingTells
<1> QED BY <1>1, <1>2 DEF Bracketed

(* When the timer has expired the search goes on from brackets that the     *)
(* clock has reached.                                                       *)
LEMMA TimerRearms ==
    ASSUME NEW s \in States, Listed(s), s.dying = None, s.gone = {}, OnTime(s), Armed(s), now \in XSyncValue,
           NEW r, r = SyncChangeCounter(s, SERVERTIME, now)
    PROVE  Armed(r)
<1>1. PICK u \in States : /\ Listed(u) /\ u.dying = None /\ Tells(u, s, {})
                          /\ r = Bracketed(u, SERVERTIME)
  BY ChangingTells DEF AllCounters
<1>2. Armed(u) BY <1>1, StaysArmed
<1>3. CASE u.fate # "running" BY <1>1, <1>2, <1>3 DEF Bracketed
<1>4. CASE u.fate = "running"
  <2>1. r = SyncComputeBracketValues(u, FALSE) BY <1>1, <1>4 DEF Bracketed
  <2>2. r.trigger = u.trigger /\ r.refused = u.refused /\ r.list = u.list
    BY <1>1, <2>1, ComputesBracket DEF Rest
  <2> SUFFICES ASSUME \A t \in Triggers : OnTimer(r, t) => t \notin r.refused /\ r.trigger[t].test_type \in Comparisons
               PROVE  InTime(r)
    BY DEF Armed
  <2>3. \A t \in Triggers : OnTimer(u, t) => t \notin u.refused /\ u.trigger[t].test_type \in Comparisons
    BY <2>2 DEF OnTimer
  <2>4. InTime(u) /\ OnlyComparisons(u) BY <1>2, <2>3 DEF Armed, OnlyComparisons
  <2> QED BY <1>1, <2>1, <2>4, SearchKeeps
<1> QED BY <1>3, <1>4

LEMMA LeavingTells ==
    ASSUME NEW s \in States, Listed(s), NEW a \in Live(s), s.trigger[a].counter \in {s.dying, None},
           NEW r, AlarmLeft(r, s, a)
    PROVE  Tells(r, s, {})
<1>1. SERVERTIME \in AllCounters \ {s.dying} /\ SERVERTIME # None BY SyncAssumption DEF AllCounters, States
<1>2. \A t \in Triggers : OnTimer(s, t) => t \in Live(s) /\ s.trigger[t].counter = SERVERTIME /\ t # a
  BY <1>1 DEF OnTimer, Listed
<1>3. \A t \in Triggers : OnTimer(s, t) => r.trigger[t] = s.trigger[t] BY <1>2 DEF AlarmLeft
<1> QED BY <1>3, TellsNothing DEF AlarmLeft

LEMMA DestroyingTells ==
    ASSUME NEW c \in Counters, NEW L \in Seq(Triggers), NEW u \in DestroyType(L, c), NEW k \in 1 .. Len(L)
    PROVE  Tells(CounterDestroyed(u, L[k]), u, {})
<1> DEFINE t == L[k]
<1> SUFFICES ASSUME NEW r, r = CounterDestroyed(u, t) PROVE Tells(r, u, {}) OBVIOUS
<1>1. u \in States /\ Listed(u) /\ u.dying = c BY DEF DestroyType
<1>2. t \in Live(u) => u.trigger[t].counter \in {u.dying, None} BY <1>1 DEF DestroyType
<1>3. t \in Triggers OBVIOUS
<1> HIDE DEF t
<1>4. CASE u.fate # "running"
  <2>1. r = u BY <1>4 DEF CounterDestroyed
  <2> QED BY <2>1, TellsNothing
<1>5. CASE u.fate = "running" /\ t \notin Live(u)
  <2>1. r = [u EXCEPT !.fate = "undefined"] BY <1>5 DEF CounterDestroyed
  <2> QED BY <1>1, <2>1, FateTells
<1>6. CASE u.fate = "running" /\ t \in Live(u) /\ t \in Alarms
  <2>1. r = SyncAlarmCounterDestroyed(u, t) BY <1>6 DEF CounterDestroyed
  <2>2. AlarmLeft(r, u, t) BY <1>1, <1>2, <1>6, <2>1, LeavesItsCounter
  <2> QED BY <1>1, <1>2, <1>6, <2>2, LeavingTells
<1>7. CASE u.fate = "running" /\ t \in Live(u) /\ t \notin Alarms
  <2>1. r = SyncAwaitTriggerFired(u, t) BY <1>7 DEF CounterDestroyed
  <2> QED BY <1>1, <1>3, <1>7, <2>1, ReleasedAwaitTells
<1> QED BY <1>4, <1>5, <1>6, <1>7

LEMMA UnpointingTells ==
    ASSUME NEW u \in States, Listed(u), NEW c \in Counters, u.dying = c, NEW r, r = Unpoint(u, c)
    PROVE  Tells(r, u, {})
<1>1. SERVERTIME \in AllCounters \ {c} BY SyncAssumption DEF AllCounters
<1>2. r.bracket = u.bracket /\ r.timer = u.timer BY DEF Unpoint, States
<1>3. /\ r.refused = u.refused /\ Live(r) = Live(u)
      /\ r.value = [u.value EXCEPT ![c] = None]
      /\ \A d \in AllCounters \ {c} : r.list[d] = u.list[d]
      /\ \A t \in Live(u) :
            IF u.trigger[t].counter = c THEN r.trigger[t] = [u.trigger[t] EXCEPT !.counter = Freed]
            ELSE r.trigger[t] = u.trigger[t]
  BY Unpoints
<1>4. r.value[SERVERTIME] = u.value[SERVERTIME] /\ r.list[SERVERTIME] = u.list[SERVERTIME]
  BY <1>1, <1>3 DEF States
<1>5. \A t \in Triggers : OnTimer(u, t) => t \in Live(u) /\ u.trigger[t].counter = SERVERTIME
  BY <1>1 DEF OnTimer, Listed
<1>6. \A t \in Triggers : OnTimer(u, t) => r.trigger[t] = u.trigger[t] BY <1>1, <1>3, <1>5
<1> QED BY <1>2, <1>3, <1>4, <1>6, TellsNothing

LEMMA FreeingCounterTells ==
    ASSUME NEW s \in States, Listed(s), s.dying = None, NEW c \in Counters
    PROVE  Tells(FreeCounter(s, c), s, {})
<1> DEFINE L == s.list[c]
           n == Len(L)
<1>1. n \in Nat /\ L \in Seq(Triggers) BY DEF States, AllCounters
<1>2. PICK w \in [0 .. n -> DestroyType(L, c)] :
         /\ w[0] = [s EXCEPT !.dying = c]
         /\ \A i \in 1 .. n : w[i] = CounterDestroyed(w[i - 1], L[i])
         /\ FreeCounter(s, c) = Unpoint(w[n], c)
  BY DestroyWalk
<1>3. \A i \in 0 .. n : w[i] \in States /\ Listed(w[i]) /\ w[i].dying = c /\ w[i] \in DestroyType(L, c)
  <2> HIDE DEF n, L
  <2>1. \A i \in 0 .. n : w[i] \in DestroyType(L, c) BY <1>2
  <2> QED BY <2>1 DEF DestroyType
<1> DEFINE S == { i \in 0 .. n : Tells(w[i], s, {}) }
<1>4. 0 \in S
  <2> DEFINE u == [s EXCEPT !.dying = c]
  <2>1. /\ u.value = s.value /\ u.list = s.list /\ u.trigger = s.trigger
        /\ u.refused = s.refused /\ u.bracket = s.bracket /\ u.timer = s.timer
    BY DEF States
  <2> HIDE DEF u
  <2>2. Tells(u, s, {}) BY <2>1, TellsNothing
  <2> QED BY <1>1, <1>2, <2>2 DEF u
<1>5. ASSUME NEW i \in Nat, i \in S, i + 1 \in 1 .. n PROVE i + 1 \in S
  <2>1. i + 1 \in 0 .. n /\ (i + 1) - 1 = i /\ i \in 0 .. n BY <1>1, <1>5
  <2>2. w[i + 1] = CounterDestroyed(w[i], L[i + 1]) /\ w[i] \in DestroyType(L, c) BY <1>2, <1>3, <1>5, <2>1
  <2>3. Tells(w[i + 1], w[i], {}) BY <1>1, <1>5, <2>2, DestroyingTells
  <2>4. Tells(w[i], s, {}) BY <1>5
  <2>5. w[i] \in States /\ Listed(w[i]) BY <1>3, <2>1
  <2>6. Tells(w[i + 1], s, {}) BY <2>3, <2>4, <2>5, TellsOn
  <2> QED BY <2>1, <2>6
<1> HIDE DEF S
<1>6. 0 .. n \subseteq S BY <1>1, <1>4, <1>5, UpTo
<1>7. n \in 0 .. n BY <1>1
<1>8. Tells(w[n], s, {}) BY <1>6, <1>7 DEF S
<1>9. Tells(FreeCounter(s, c), w[n], {}) BY <1>2, <1>3, <1>7, UnpointingTells
<1> QED BY <1>3, <1>7, <1>8, <1>9, TellsOn

LEMMA FreeingAlarmTells ==
    ASSUME NEW s \in States, Listed(s), s.dying = None, NEW a \in Alarms
    PROVE  Tells(FreeAlarm(s, a), s, {})
<1> SUFFICES ASSUME NEW r, r = FreeAlarm(s, a) PROVE Tells(r, s, {}) OBVIOUS
<1>1. CASE s.trigger[a].counter = Freed
  <2>1. r = [s EXCEPT !.fate = "undefined"] BY <1>1 DEF FreeAlarm
  <2> QED BY <2>1, FateTells
<1>2. CASE s.trigger[a].counter # Freed
  <2> DEFINE u == SyncDeleteTriggerFromCounter(s, a)
             v == [u EXCEPT !.refused = @ \ {a}]
  <2>1. r = Forget(v, {a}) BY <1>2 DEF FreeAlarm
  <2>2. Unlinked(u, s, a) /\ Retimed(u, s, a) BY DeletesFromList
  <2> HIDE DEF u
  <2>3. u \in States /\ Listed(u) /\ u.dying = None /\ u.trigger = s.trigger BY <2>2 DEF Unlinked, Rest
  <2>4. SERVERTIME \in AllCounters \ {s.dying} /\ a \in Triggers
    BY SyncAssumption DEF AllCounters, Triggers
  <2>5. ~OnTimer(u, a)
    <3>1. OnTimer(s, a) => s.trigger[a].counter = SERVERTIME BY <2>4 DEF Listed, OnTimer
    <3>2. Contains(u.list[SERVERTIME], a) <=>
             Contains(s.list[SERVERTIME], a) /\ SERVERTIME # s.trigger[a].counter
      BY <2>2, <2>4, WhatIsUnlinked
    <3> QED BY <3>1, <3>2 DEF OnTimer
  <2>6. \A t \in Triggers : OnTimer(u, t) => t \in Live(u) /\ t # a
    BY <2>3, <2>4, <2>5 DEF OnTimer, Listed
  <2>7. /\ r.bracket = u.bracket /\ r.timer = u.timer /\ r.list = u.list /\ r.value = u.value
        /\ r.refused = u.refused \ {a}
    BY <2>1, <2>3 DEF States, Forget
  <2>8. r.trigger = [t \in Live(u) \ {a} |-> u.trigger[t]] BY <2>1, <2>3 DEF States, Forget, Live
  <2>9. \A t \in Triggers : OnTimer(u, t) => r.trigger[t] = u.trigger[t] /\ (t \in u.refused => t \in r.refused)
    BY <2>6, <2>7, <2>8
  <2>10. Tells(r, u, {}) BY <2>7, <2>9, TellsNothing
  <2> QED BY <2>2, <2>3, <2>10, TellsOn DEF Retimed
<1> QED BY <1>1, <1>2

LEMMA ReleaseTells ==
    ASSUME NEW u \in ReleaseType, NEW x \in Resources, NEW cl \in Clients
    PROVE  Tells(Release(u, x, cl), u, {})
<1>1. u \in States /\ Listed(u) /\ u.dying = None BY DEF ReleaseType
<1>2. CASE u.fate # "running"
  <2>1. Release(u, x, cl) = u BY <1>2 DEF Release
  <2> QED BY <2>1, TellsNothing
<1>3. CASE u.fate = "running" /\ x \in Counters
  <2>1. Release(u, x, cl) = FreeCounter(u, x) BY <1>3 DEF Release
  <2> QED BY <1>1, <1>3, <2>1, FreeingCounterTells
<1>4. CASE u.fate = "running" /\ x \notin Counters /\ x \in Alarms
  <2>1. Release(u, x, cl) = FreeAlarm(u, x) BY <1>4 DEF Release
  <2> QED BY <1>1, <1>4, <2>1, FreeingAlarmTells
<1>5. CASE u.fate = "running" /\ x \notin Counters /\ x \notin Alarms
  <2>1. Release(u, x, cl) = FreeAwait(u, cl) BY <1>5 DEF Release
  <2>2. AwaitFreed(FreeAwait(u, cl), u, cl) BY <1>1, FreesAwait
  <2> QED BY <2>1, <2>2 DEF AwaitFreed
<1> QED BY <1>2, <1>3, <1>4, <1>5

LEMMA ReleasingTells ==
    ASSUME NEW s \in ReleaseType, NEW cl \in Clients, NEW n \in Nat, NEW order \in [1 .. n -> Resources]
    PROVE  LET r == FreeClientResources(s, order, cl)
           IN  r \in ReleaseType /\ Tells(r, s, {})
<1>1. PICK w : Releases(w, s, n, order, cl) BY ReleaseWalk
<1>2. /\ w \in [0 .. n -> ReleaseType] /\ w[0] = s
      /\ \A i \in 1 .. n : w[i] = Release(w[i - 1], order[i], cl)
      /\ FreeClientResources(s, order, cl) = w[n]
  BY <1>1 DEF Releases
<1> DEFINE S == { i \in 0 .. n : Tells(w[i], s, {}) }
<1>3. 0 \in S
  <2>1. Tells(s, s, {}) BY TellsNothing
  <2> QED BY <1>2, <2>1
<1>4. ASSUME NEW i \in Nat, i \in S, i + 1 \in 1 .. n PROVE i + 1 \in S
  <2>1. i + 1 \in 0 .. n /\ (i + 1) - 1 = i /\ i \in 0 .. n BY <1>4
  <2>2. w[i + 1] = Release(w[i], order[i + 1], cl) /\ w[i] \in ReleaseType BY <1>2, <1>4, <2>1
  <2>3. Tells(w[i + 1], w[i], {}) BY <1>4, <2>2, ReleaseTells
  <2>4. Tells(w[i], s, {}) BY <1>4
  <2>5. w[i] \in States /\ Listed(w[i]) BY <2>2 DEF ReleaseType
  <2>6. Tells(w[i + 1], s, {}) BY <2>3, <2>4, <2>5, TellsOn
  <2> QED BY <2>1, <2>6
<1> HIDE DEF S
<1>5. 0 .. n \subseteq S BY <1>3, <1>4, UpTo
<1>6. n \in 0 .. n OBVIOUS
<1>7. Tells(w[n], s, {}) BY <1>5, <1>6 DEF S
<1> QED BY <1>2, <1>6, <1>7

(* SyncInitTrigger, for a trigger of X or one that is not on the list.      *)
Loose(s, t, X) == t \in X \/ ~OnTimer(s, t)

LEMMA AssigningTells ==
    ASSUME NEW X, NEW v \in States, Listed(v), NEW t, Loose(v, t, X),
           NEW x, NEW u, Assigned(u, v, t, x)
    PROVE  Tells(u, v, X)
<1>1. /\ u.bracket = v.bracket /\ u.timer = v.timer /\ u.list = v.list /\ u.value = v.value
      /\ u.refused = v.refused /\ u.trigger = [v.trigger EXCEPT ![t] = x]
  BY DEF Assigned, States
<1>2. SERVERTIME \in AllCounters \ {v.dying} BY SyncAssumption DEF AllCounters, States
<1>3. \A e \in Triggers : OnTimer(v, e) => e \in Live(v) BY <1>2 DEF OnTimer, Listed
<1>4. v.trigger \in [Live(v) -> TriggerType] BY TheTable
<1>5. \A e \in Triggers : OnTimer(v, e) => u.trigger[e] = v.trigger[e] \/ e \in X
  BY <1>1, <1>3, <1>4 DEF Loose
<1> QED BY <1>1, <1>5, TellsNothing

LEMMA PointingTells ==
    ASSUME NEW X \in SUBSET Alarms, NEW s \in States, Listed(s), s.dying = None, NEW t \in Live(s),
           NEW new, NEW u, u = PointTo(s, t, new)
    PROVE  Tells(u, s, X)
<1>1. CASE new = s.trigger[t].counter
  <2>1. u = s BY <1>1 DEF PointTo
  <2> QED BY <2>1, TellsNothing
<1>2. CASE new # s.trigger[t].counter
  <2> DEFINE v == SyncDeleteTriggerFromCounter(s, t)
             x == [v.trigger[t] EXCEPT !.counter = new]
  <2>1. None \notin AllCounters /\ SERVERTIME \in AllCounters \ {s.dying} /\ t \in Triggers
    BY SyncAssumption, TheTable DEF AllCounters
  <2>2. Unlinked(v, s, t) /\ Retimed(v, s, t) BY DeletesFromList
  <2>3. u = [v EXCEPT !.trigger[t].counter = new] BY <1>2 DEF PointTo
  <2> HIDE DEF v
  <2>4. v \in States /\ Listed(v) /\ v.trigger = s.trigger BY <2>2 DEF Unlinked, Rest
  <2>5. Live(v) = Live(s) BY <2>4 DEF Live
  <2>6. Assigned(u, v, t, x) BY <2>3, <2>4, <2>5, TheTable DEF Assigned, States
  <2>7. ~OnTimer(v, t)
    <3>1. Contains(v.list[SERVERTIME], t) <=>
             Contains(s.list[SERVERTIME], t) /\ SERVERTIME # s.trigger[t].counter
      BY <2>1, <2>2, WhatIsUnlinked
    <3>2. Contains(s.list[SERVERTIME], t) => s.trigger[t].counter = SERVERTIME BY <2>1 DEF Listed
    <3> QED BY <3>1, <3>2 DEF OnTimer
  <2>8. Tells(u, v, X) BY <2>4, <2>6, <2>7, AssigningTells DEF Loose
  <2>9. Tells(v, s, X) BY <2>2, TellsOthers DEF Retimed
  <2> QED BY <2>4, <2>8, <2>9, TellsOn
<1> QED BY <1>1, <1>2

LEMMA AskingTells ==
    ASSUME NEW X, NEW v \in States, NEW c, NEW u, u = Ask(v, c)
    PROVE  Tells(u, v, X)
<1>1. CASE c # SERVERTIME
  <2>1. u = v BY <1>1 DEF Ask
  <2> QED BY <2>1, TellsNothing
<1>2. CASE c = SERVERTIME
  <2>1. u = [v EXCEPT !.value = [v.value EXCEPT ![SERVERTIME] = now]]
    BY <1>2 DEF Ask, ServertimeQueryValue, States
  <2>2. v.value \in [AllCounters -> XSyncValue \cup {None}] /\ SERVERTIME \in AllCounters
    BY DEF States, AllCounters
  <2>3. /\ u.bracket = v.bracket /\ u.timer = v.timer /\ u.list = v.list
        /\ u.refused = v.refused /\ u.trigger = v.trigger /\ u.value[SERVERTIME] = now
    BY <2>1, <2>2 DEF States
  <2> QED BY <2>3 DEF Tells, TimeMoves, SameTimer
<1> QED BY <1>1, <1>2

LEMMA TestingTells ==
    ASSUME NEW X, NEW v \in States, Listed(v), NEW t \in Live(v), Loose(v, t, X), NEW changes,
           NEW r, r = InitTest(v, t, changes) \/ r = InitValue(v, t, changes)
    PROVE  Tells(r.s, v, X)
<1>1. v.trigger \in [Live(v) -> TriggerType] BY TheTable
<1>2. r.s = v \/ \E x : Assigned(r.s, v, t, x)
  <2>1. CASE r = InitTest(v, t, changes)
    <3> DEFINE x == [v.trigger[t] EXCEPT !.CheckTrigger = v.trigger[t].test_type]
               u == [v EXCEPT !.trigger[t].CheckTrigger = v.trigger[t].test_type]
    <3>1. Assigned(u, v, t, x) BY <1>1 DEF Assigned, States
    <3>2. r = Error(v) \/ r = Ok(v) \/ r = Ok(u) BY <2>1 DEF InitTest
    <3> HIDE DEF u
    <3>3. r.s = v \/ r.s = u BY <3>2 DEF Error, Ok
    <3> QED BY <3>1, <3>3
  <2>2. CASE r = InitValue(v, t, changes)
    <3> DEFINE q == v.trigger[t]
               Store(w) == [v EXCEPT !.trigger[t].test_value = w]
               sum == ValueAdd(v.value[q.counter], q.wait_value)
               X1(w) == [v.trigger[t] EXCEPT !.test_value = w]
    <3>1. \A w : Assigned(Store(w), v, t, X1(w)) BY <1>1 DEF Assigned, States
    <3>2. r = IF {"value_type", "wait_value"} \cap changes = {} THEN Ok(v)
              ELSE IF q.value_type = "Absolute" THEN Ok(Store(q.wait_value))
              ELSE IF q.counter = None THEN Error(v)
              ELSE IF AddOverflows(v.value[q.counter], q.wait_value) THEN Error(Store(sum))
              ELSE Ok(Store(sum))
      BY <2>2 DEF InitValue
    <3> HIDE DEF q, Store, sum, X1
    <3>3. r.s = v \/ r.s = Store(q.wait_value) \/ r.s = Store(sum) BY <3>2 DEF Error, Ok
    <3> QED BY <3>1, <3>3
  <2> QED BY <2>1, <2>2
<1>3. Tells(v, v, X) BY TellsNothing
<1> QED BY <1>2, <1>3, AssigningTells

LEMMA ListingTells ==
    ASSUME NEW X, NEW v \in States, Listed(v), v.dying = None, NEW t \in Live(v), NEW isNew \in BOOLEAN,
           NEW r, r = InitList(v, t, isNew)
    PROVE  Tells(r.s, v, X) /\ (InTime(r.s) \/ ~OnTimer(r.s, t))
<1>1. None \notin AllCounters /\ SERVERTIME \in AllCounters /\ t \in Triggers
  BY SyncAssumption, TheTable DEF AllCounters
<1>2. OnTimer(v, t) => v.trigger[t].counter = SERVERTIME BY <1>1 DEF Listed, OnTimer
<1>3. CASE isNew
  <2> DEFINE u == SyncAddTriggerToCounter(v, t)
  <2>1. r.s = u BY <1>3 DEF InitList, Ok
  <2>2. Linked(u, v, t) /\ Retimed(u, v, t) BY AddsToList
  <2> HIDE DEF u
  <2>3. Tells(u, v, X) BY <2>2, TellsOthers DEF Retimed
  <2>4. CASE v.trigger[t].counter = SERVERTIME BY <2>1, <2>2, <2>3, <2>4 DEF Retimed
  <2>5. CASE v.trigger[t].counter # SERVERTIME
    <3>1. u.list[SERVERTIME] = v.list[SERVERTIME] BY <1>1, <2>2, <2>5 DEF Linked
    <3>2. ~OnTimer(u, t) BY <1>2, <2>5, <3>1 DEF OnTimer
    <3> QED BY <2>1, <2>3, <3>2
  <2> QED BY <2>4, <2>5
<1>4. CASE ~isNew /\ v.trigger[t].counter = SERVERTIME
  <2>1. r.s = SyncComputeBracketValues(v, TRUE) BY <1>4 DEF InitList, Ok
  <2> QED BY <2>1, SearchTells
<1>5. CASE ~isNew /\ v.trigger[t].counter # SERVERTIME
  <2>1. r.s = v BY <1>5 DEF InitList, Ok
  <2>2. Tells(v, v, X) BY TellsNothing
  <2> QED BY <1>2, <1>5, <2>1, <2>2
<1> QED BY <1>3, <1>4, <1>5

LEMMA StaysLoose ==
    ASSUME NEW X, NEW s, NEW t, Loose(s, t, X), NEW new, NEW v, Pointed(v, s, t, new)
    PROVE  Loose(v, t, X)
<1>1. SERVERTIME \in AllCounters BY DEF AllCounters
<1> QED BY <1>1 DEF Pointed, Loose, OnTimer

LEMMA InitingTells ==
    ASSUME NEW X \in SUBSET Alarms, NEW s \in States, Listed(s), s.dying = None, NEW t \in Live(s),
           Loose(s, t, X), now \in XSyncValue, NEW counter, NEW changes, NEW new \in AllCounters \cup {None},
           new = IF "counter" \in changes THEN counter ELSE s.trigger[t].counter,
           NEW r, r = SyncInitTrigger(s, t, counter, changes)
    PROVE  Tells(r.s, s, X) /\ (r.ok => InTime(r.s) \/ ~OnTimer(r.s, t))
<1>1. CASE new # None /\ ~Exists(s, new)
  <2>1. r.s = s /\ r.ok = FALSE BY <1>1 DEF SyncInitTrigger, Error
  <2> QED BY <2>1, TellsNothing
<1>2. CASE new # None => Exists(s, new)
  <2> DEFINE v == PointTo(s, t, new)
             u == Ask(v, new)
             r2 == InitTest(u, t, changes)
             r3 == IF r2.ok THEN InitValue(r2.s, t, changes) ELSE r2
             r4 == IF r3.ok THEN InitList(r3.s, t, new # s.trigger[t].counter) ELSE r3
  <2>1. r = r4 BY <1>2 DEF SyncInitTrigger, Then
  <2>2. Pointed(v, s, t, new) /\ Tells(v, s, X) BY PointsTo, PointingTells
  <2> HIDE DEF v
  <2>3. v \in States /\ Listed(v) BY <2>2 DEF Pointed, OnlyThis, OthersStay
  <2>4. /\ Pointed(u, s, t, new) /\ Tells(u, v, X)
        /\ new \in AllCounters /\ Exists(s, new) => u.value[new] \in XSyncValue
    BY <2>2, <2>3, Asks, AskingTells
  <2>5. Tells(u, s, X) BY <2>2, <2>3, <2>4, TellsOn
  <2> HIDE DEF u
  <2>6. u \in States /\ t \in Live(u) /\ Listed(u) BY <2>4 DEF Pointed, OnlyThis, OthersStay
  <2>7. Loose(u, t, X) BY <2>4, StaysLoose
  <2>8. r2.ok \in BOOLEAN /\ Pointed(r2.s, s, t, new) /\ r2.s.value = u.value
    BY <2>4, <2>6, InitsTest
  <2>9. Tells(r2.s, u, X) BY <2>6, <2>7, TestingTells
  <2>10. Tells(r2.s, s, X) BY <2>5, <2>6, <2>9, TellsOn
  <2> HIDE DEF r2
  <2>11. r2.s \in States /\ t \in Live(r2.s) /\ Listed(r2.s) BY <2>8 DEF Pointed, OnlyThis, OthersStay
  <2>12. Loose(r2.s, t, X) BY <2>8, StaysLoose
  <2>13. new # None => r2.s.value[new] \in XSyncValue BY <1>2, <2>4, <2>8
  <2>14. r3.ok \in BOOLEAN /\ Pointed(r3.s, s, t, new) /\ Tells(r3.s, s, X)
    <3>1. CASE r2.ok
      <4>1. r3 = InitValue(r2.s, t, changes) BY <3>1
      <4> HIDE DEF r3
      <4>2. r3.ok \in BOOLEAN /\ Pointed(r3.s, s, t, new) BY <2>8, <2>11, <2>13, <4>1, InitsValue
      <4>3. Tells(r3.s, r2.s, X) BY <2>11, <2>12, <4>1, TestingTells
      <4> QED BY <2>10, <2>11, <4>2, <4>3, TellsOn
    <3>2. CASE ~r2.ok BY <2>8, <2>10, <3>2
    <3> QED BY <2>8, <3>1, <3>2
  <2> HIDE DEF r3
  <2>15. r3.s \in States /\ t \in Live(r3.s) /\ Listed(r3.s) /\ r3.s.dying = None
    BY <2>14 DEF Pointed, OnlyThis, OthersStay
  <2>16. CASE r3.ok
    <3>1. r4 = InitList(r3.s, t, new # s.trigger[t].counter) BY <2>16
    <3> HIDE DEF r4
    <3>2. Tells(r4.s, r3.s, X) /\ (InTime(r4.s) \/ ~OnTimer(r4.s, t)) BY <2>15, <3>1, ListingTells
    <3> QED BY <2>1, <2>14, <2>15, <3>2, TellsOn
  <2>17. CASE ~r3.ok BY <2>1, <2>14, <2>17
  <2> QED BY <2>14, <2>16, <2>17
<1> QED BY <1>1, <1>2

(* Requests that set up an alarm.                                           *)
LEMMA AttributesTell ==
    ASSUME NEW s, Core(s), s.fate = "running", s.dying = None, NEW a \in Live(s) \cap Alarms,
           s.trigger[a].counter # Freed, now \in XSyncValue,
           NEW req, Gives(req, AlarmFields), NEW r, r = SyncChangeAlarmAttributes(s, a, req)
    PROVE  /\ Tells(r.s, s, {a})
           /\ OnTime(s) /\ r.ok => InTime(r.s) \/ ~OnTimer(r.s, a)
<1> DEFINE counter == IF "counter" \in DOMAIN req THEN req.counter ELSE s.trigger[a].counter
           u == Stored(s, a, req)
           new == IF "counter" \in DOMAIN req THEN counter ELSE u.trigger[a].counter
           q == SyncInitTrigger(u, a, counter, DOMAIN req)
           v == [q.s EXCEPT !.trigger[a].state = "Active"]
           X == {a}
<1>1. s \in States /\ Listed(s) /\ Points(s) BY DEF Core
<1>2. OthersStay(u, s, a) /\ IsGiven(u.trigger[a], s.trigger[a], req) BY <1>1, StoresAttributes
<1>3. r = IF {"delta", "test_type"} \cap DOMAIN req # {} /\ ~Matches(u.trigger[a]) THEN Error(u)
          ELSE IF q.ok THEN Ok(v) ELSE q
  BY DEF SyncChangeAlarmAttributes, CheckAttributes, Then
<1>4. s.trigger[a].counter \in AllCounters \cup {None} BY <1>1, OneOfStates DEF TriggerType
<1>5. counter \in AllCounters \cup {None}
  <2>1. CASE "counter" \in DOMAIN req
    <3>1. req["counter"] \in Attribute["counter"] BY <2>1 DEF Gives
    <3>2. req["counter"] \in AllCounters \cup {None} BY <3>1 DEF Attribute, AllCounters
    <3> QED BY <2>1, <3>2
  <2>2. CASE "counter" \notin DOMAIN req BY <1>4, <2>2
  <2> QED BY <2>1, <2>2
<1>6. new \in AllCounters \cup {None} BY <1>2, <1>4, <1>5 DEF IsGiven
<1>7. X \in SUBSET Alarms OBVIOUS
<1>8. Tells(u, s, X)
  <2>1. \E x : u = [s EXCEPT !.trigger = [s.trigger EXCEPT ![a] = x]]
    BY <1>1, TheTable DEF Stored, States
  <2> HIDE DEF u
  <2> QED BY <1>1, <2>1, AssigningTells DEF Assigned, Loose
<1>9. u \in States /\ Listed(u) /\ u.dying = None /\ a \in Live(u) BY <1>2 DEF OthersStay
<1> HIDE DEF u
<1>10. InitDone(q, u, a, new, DOMAIN req) BY <1>6, <1>9, InitsTrigger
<1>11. Tells(q.s, u, X) /\ (q.ok => InTime(q.s) \/ ~OnTimer(q.s, a))
  BY <1>6, <1>7, <1>9, InitingTells DEF Loose
<1> HIDE DEF q, new, counter
<1>12. Tells(q.s, s, X) BY <1>7, <1>8, <1>9, <1>11, TellsOn
<1>13. q.s \in States /\ Listed(q.s) /\ a \in Live(q.s) BY <1>9, <1>10 DEF InitDone, OnlyThis, OthersStay
<1>14. CASE r = Error(u)
  <2>1. r.s = u /\ r.ok = FALSE BY <1>14 DEF Error
  <2> QED BY <1>8, <2>1
<1>15. CASE r = q /\ ~q.ok BY <1>12, <1>15
<1>16. CASE r = Ok(v) /\ q.ok
  <2>1. r.s = v BY <1>16 DEF Ok
  <2> DEFINE x == [q.s.trigger[a] EXCEPT !.state = "Active"]
  <2>2. v = [q.s EXCEPT !.trigger = [q.s.trigger EXCEPT ![a] = x]] BY <1>13, TheTable DEF States
  <2>3. q.s.trigger[a] \in TriggerType BY <1>13, OneOfStates
  <2>4. x.test_type = q.s.trigger[a].test_type BY <2>3 DEF TriggerType
  <2> HIDE DEF x
  <2>5. /\ v.bracket = q.s.bracket /\ v.timer = q.s.timer /\ v.list = q.s.list /\ v.value = q.s.value
        /\ v.refused = q.s.refused /\ v.trigger = [q.s.trigger EXCEPT ![a] = x]
    BY <1>13, <2>2 DEF States
  <2> HIDE DEF v
  <2>6. SERVERTIME \in AllCounters \ {q.s.dying} BY <1>13, SyncAssumption DEF AllCounters, States
  <2>7. \A e \in Triggers : OnTimer(q.s, e) => e \in Live(q.s) BY <1>13, <2>6 DEF OnTimer, Listed
  <2>8. q.s.trigger \in [Live(q.s) -> TriggerType] BY <1>13, TheTable
  <2>9. \A e \in Triggers : OnTimer(q.s, e) =>
           /\ v.trigger[e].test_type = q.s.trigger[e].test_type
           /\ e \notin Alarms => v.trigger[e].test_value = q.s.trigger[e].test_value
    BY <2>4, <2>5, <2>7, <2>8
  <2>10. SameTimer(v, q.s, X) /\ TimeMoves(v, q.s) BY <2>5, <2>9 DEF SameTimer, TimeMoves
  <2>11. Tells(v, q.s, X) BY <2>10 DEF Tells
  <2>12. Tells(v, s, X) BY <1>7, <1>12, <1>13, <2>11, TellsOn
  <2>13. CASE ~OnTimer(q.s, a) BY <2>1, <2>5, <2>12, <2>13 DEF OnTimer
  <2>14. ASSUME OnTime(s), InTime(q.s) PROVE InTime(v)
    <3>1. OnTime(q.s) BY <1>12, <2>14, TimeMovesOn DEF Tells
    <3> QED BY <1>7, <1>13, <2>10, <2>14, <3>1, StaysInTime
  <2> QED BY <1>11, <1>16, <2>1, <2>12, <2>13, <2>14
<1>17. (r = Error(u)) \/ (r = q /\ ~q.ok) \/ (r = Ok(v) /\ q.ok) BY <1>3
<1> QED BY <1>14, <1>15, <1>16, <1>17

(* The alarm may go off at once.                                            *)
LEMMA AtOnceTells ==
    ASSUME NEW u \in States, Listed(u), u.fate = "running", NEW a \in Live(u) \cap Alarms,
           NEW x, x = IF IsTrue(u, a) THEN SyncAlarmTriggerFired(u, a) ELSE u
    PROVE  Tells(x, u, {}) /\ x.list = u.list
<1>1. CASE IsTrue(u, a)
  <2>1. x = SyncAlarmTriggerFired(u, a) BY <1>1
  <2>2. PICK st \in {"Active", "Inactive"}, test \in XSyncValue : AlarmChanged(x, u, a, st, test)
    BY <2>1, FiresAlarm
  <2>3. Tells(x, u, {}) BY <2>2, AlarmTells
  <2> QED BY <2>2, <2>3 DEF AlarmChanged
<1>2. CASE ~IsTrue(u, a)
  <2>1. x = u BY <1>2
  <2> QED BY <2>1, TellsNothing
<1> QED BY <1>1, <1>2

LEMMA StaysArmedAtOnce ==
    ASSUME NEW s \in States, Listed(s), OnTime(s), Armed(s), NEW a \in Alarms,
           NEW u \in States, Listed(u), Tells(u, s, {a}), InTime(u) \/ ~OnTimer(u, a),
           NEW x, Tells(x, u, {}), x.list = u.list
    PROVE  TimeMoves(x, s) /\ Armed(x)
<1> DEFINE X == {a}
<1>1. X \in SUBSET Alarms /\ Tells(u, s, X) /\ Tells(x, u, X) BY TellsOthers
<1> HIDE DEF X
<1>2. Tells(x, s, X) BY <1>1, TellsOn
<1>3. CASE ~OnTimer(u, a)
  <2>1. \A t \in X : ~OnTimer(x, t) BY <1>3 DEF OnTimer, X
  <2> QED BY <1>1, <1>2, <2>1, StaysArmed DEF Tells
<1>4. CASE InTime(u)
  <2>1. OnTime(u) BY <1>1, TimeMovesOn DEF Tells
  <2>2. InTime(x) \/ (SameTimer(x, u, {}) /\ TimeMoves(x, u)) BY <2>1 DEF Tells
  <2>3. InTime(x) BY <1>4, <2>1, <2>2, StaysInTime
  <2> QED BY <1>1, <1>2, <2>3, StaysArmed DEF Tells
<1> QED BY <1>3, <1>4

LEMMA ChangingAlarmKeepsArmed ==
    ASSUME NEW s, Core(s), s.dying = None, Quiet(s), s.fate = "running", OnTime(s), Armed(s),
           NEW a \in Live(s) \cap Alarms, s.trigger[a].counter # Freed,
           NEW req, Gives(req, AlarmFields),
           NEW x, x = Changed(SyncChangeAlarmAttributes(s, a, req), a)
    PROVE  TimeMoves(x, s) /\ Armed(x)
<1> DEFINE r == SyncChangeAlarmAttributes(s, a, req)
           u == r.s
           X == {a}
<1>1. now \in XSyncValue /\ s \in States /\ Listed(s) /\ X \in SUBSET Alarms BY DEF OnTime, Core
<1>2. AttributesDone(r, s, a) BY <1>1, SetsAttributes
<1>3. Tells(u, s, X) /\ (r.ok => InTime(u) \/ ~OnTimer(u, a)) BY <1>1, AttributesTell
<1>4. x = IF ~r.ok THEN [u EXCEPT !.refused = @ \cup {a}]
          ELSE IF IsTrue(u, a) THEN SyncAlarmTriggerFired(u, a) ELSE u
  BY DEF Changed
<1>5. r.ok \in BOOLEAN /\ u \in States /\ Listed(u) /\ u.fate = "running" /\ a \in Live(u) \cap Alarms
  BY <1>2 DEF AttributesDone, OthersStay
<1> HIDE DEF r, X
<1>6. CASE ~r.ok
  <2>1. /\ x.bracket = u.bracket /\ x.timer = u.timer /\ x.list = u.list /\ x.value = u.value
        /\ x.refused = u.refused \cup {a} /\ x.trigger = u.trigger
    BY <1>4, <1>5, <1>6 DEF States
  <2>2. Tells(x, u, X) BY <2>1, TellsNothing
  <2>3. Tells(x, s, X) BY <1>1, <1>3, <1>5, <2>2, TellsOn
  <2>4. \A t \in X : t \in x.refused BY <2>1 DEF X
  <2> QED BY <1>1, <2>3, <2>4, StaysArmed DEF Tells
<1>7. CASE r.ok
  <2>1. Tells(x, u, {}) /\ x.list = u.list BY <1>4, <1>5, <1>7, AtOnceTells
  <2> QED BY <1>1, <1>3, <1>5, <1>7, <2>1, StaysArmedAtOnce DEF X
<1> QED BY <1>5, <1>6, <1>7

(* A trigger that is on no list yet, or that is forgotten.                  *)
LEMMA RegisteringTells ==
    ASSUME NEW s \in States, Listed(s), NEW t, t \notin Live(s), NEW x
    PROVE  Tells(Register(s, t, x), s, {})
<1> DEFINE u == Register(s, t, x)
<1>1. /\ u.bracket = s.bracket /\ u.timer = s.timer /\ u.list = s.list /\ u.value = s.value
      /\ u.refused = s.refused
      /\ u.trigger = [e \in Live(s) \cup {t} |-> IF e = t THEN x ELSE s.trigger[e]]
  BY DEF Register, Live, States
<1> HIDE DEF u
<1>2. SERVERTIME \in AllCounters \ {s.dying} BY SyncAssumption DEF AllCounters, States
<1>3. \A e \in Triggers : OnTimer(s, e) => e \in Live(s) BY <1>2 DEF OnTimer, Listed
<1>4. \A e \in Triggers : OnTimer(s, e) => u.trigger[e] = s.trigger[e] BY <1>1, <1>3
<1>5. Tells(u, s, {}) BY <1>1, <1>4, TellsNothing
<1> QED BY <1>5 DEF u

LEMMA ForgettingTells ==
    ASSUME NEW q \in States, Listed(q), q.dying = None, NEW t,
           \A c \in AllCounters : ~Contains(q.list[c], t), NEW w, w = Forget(q, {t})
    PROVE  w \in States /\ Listed(w) /\ w.list = q.list /\ Tells(w, q, {})
<1>1. \A c \in AllCounters \ {q.dying} : \A e \in Triggers : Contains(q.list[c], e) => e \notin {t}
  OBVIOUS
<1>2. /\ w \in States /\ Listed(w) /\ w.value = q.value /\ w.list = q.list /\ w.refused = q.refused
      /\ w.bracket = q.bracket /\ w.timer = q.timer /\ \A e \in Live(w) : w.trigger[e] = q.trigger[e]
  BY <1>1, Forgets
<1> QED BY <1>2, TellsLive

LEMMA CreatingAlarmKeepsArmed ==
    ASSUME NEW s, Core(s), s.dying = None, Quiet(s), s.fate = "running", OnTime(s), Armed(s),
           NEW a \in Alarms \ Live(s), NEW req, Gives(req, AlarmFields),
           NEW x, x = Created(SyncChangeAlarmAttributes(Register(s, a, NoTrigger), a, req), a)
    PROVE  TimeMoves(x, s) /\ Armed(x)
<1> DEFINE p == Register(s, a, NoTrigger)
           r == SyncChangeAlarmAttributes(p, a, req)
           u == r.s
           v == [u EXCEPT !.trigger[a].state = "Inactive"]
<1>1. now \in XSyncValue /\ s \in States /\ Listed(s) BY DEF OnTime, Core
<1>2. /\ Keeps(p, s) /\ TriggerIs(p, s, a, NoTrigger) /\ Tells(p, s, {})
      /\ \A c \in AllCounters : ~Contains(p.list[c], a)
  BY <1>1, NewAlarmKeepsCore, RegisteringTells
<1>3. x = Created(r, a) OBVIOUS
<1> HIDE DEF p
<1>4. /\ Core(p) /\ p.dying = None /\ p.fate = "running" /\ Quiet(p)
      /\ a \in Live(p) \cap Alarms /\ p.trigger[a].counter = None /\ p \in States /\ Listed(p)
  BY <1>2, NoTriggerTyped DEF Keeps, Changes, TriggerIs
<1>5. Freed # None /\ None \notin AllCounters /\ SERVERTIME \in AllCounters
  BY SyncAssumption DEF AllCounters
<1>6. OnTime(p) BY <1>2, TimeMovesOn DEF Tells
<1>7. AttributesDone(r, p, a) BY <1>1, <1>4, <1>5, SetsAttributes
<1>8. Tells(u, p, {a}) /\ (r.ok => InTime(u) \/ ~OnTimer(u, a)) BY <1>1, <1>4, <1>5, <1>6, AttributesTell
<1>9. r.ok \in BOOLEAN /\ u \in States /\ Listed(u) /\ u.dying = None /\ u.fate = "running"
      /\ a \in Live(u) \cap Alarms
  BY <1>4, <1>7 DEF AttributesDone, OthersStay
<1>10. x = IF ~r.ok THEN Forget(u, {a})
           ELSE IF u.trigger[a].counter = None THEN v
           ELSE IF IsTrue(u, a) THEN SyncAlarmTriggerFired(u, a) ELSE u
  BY <1>3, <1>9 DEF Created
<1>11. OthersStay(u, p, a) /\ (~r.ok => \A c \in AllCounters : ~Contains(u.list[c], a))
  BY <1>2, <1>7 DEF AttributesDone
<1> HIDE DEF r
<1>12. Tells(x, u, {}) /\ x.list = u.list /\ (InTime(u) \/ ~OnTimer(u, a))
  <2>1. CASE ~r.ok
    <3>1. x = Forget(u, {a}) BY <1>10, <2>1
    <3>2. \A c \in AllCounters : ~Contains(u.list[c], a) BY <1>11, <2>1
    <3> QED BY <1>5, <1>9, <3>1, <3>2, ForgettingTells DEF OnTimer
  <2>2. CASE r.ok /\ u.trigger[a].counter = None
    <3>1. x = v BY <1>10, <2>2
    <3> DEFINE y == [u.trigger[a] EXCEPT !.state = "Inactive"]
    <3>2. Assigned(v, u, a, y) BY <1>9, TheTable DEF Assigned, States
    <3> HIDE DEF v
    <3>3. ~OnTimer(u, a)
      <4>1. a \in Triggers BY DEF Triggers
      <4> QED BY <1>5, <1>9, <2>2, <4>1 DEF Listed, OnTimer
    <3>4. Tells(v, u, {}) BY <1>9, <3>2, <3>3, AssigningTells DEF Loose
    <3>5. v.list = u.list BY <1>9, <3>2 DEF Assigned, States
    <3> QED BY <3>1, <3>3, <3>4, <3>5
  <2>3. CASE r.ok /\ u.trigger[a].counter # None
    <3>1. x = IF IsTrue(u, a) THEN SyncAlarmTriggerFired(u, a) ELSE u BY <1>10, <2>3
    <3> QED BY <1>8, <1>9, <2>3, <3>1, AtOnceTells
  <2> QED BY <1>9, <2>1, <2>2, <2>3
<1>13. Armed(p)
  <2>1. {} \in SUBSET Alarms /\ \A t \in {} : OnTimer(p, t) => t \in p.refused OBVIOUS
  <2> QED BY <1>1, <1>2, <2>1, StaysArmed
<1>14. TimeMoves(x, p) /\ Armed(x)
  <2> HIDE DEF u
  <2> QED BY <1>4, <1>6, <1>8, <1>9, <1>12, <1>13, StaysArmedAtOnce
<1>15. TimeMoves(p, s) BY <1>2 DEF Tells
<1> QED BY <1>14, <1>15 DEF TimeMoves

(* The conditions of an Await.                                              *)
LEMMA ConditionTells ==
    ASSUME NEW u \in States, Listed(u), u.dying = None, NEW cl \in Clients, now \in XSyncValue,
           NEW conds \in WaitLists, NEW i \in DOMAIN conds, i \in {1, 2}, <<cl, i>> \notin Live(u),
           NEW r, r = Condition(u, cl, conds[i], <<cl, i>>)
    PROVE  Tells(r.s, u, {})
<1> DEFINE t == <<cl, i>>
           c == conds[i]
           x == Given(NoTrigger, c)
           v == Register(u, t, x)
           q == SyncInitTrigger(v, t, c.counter, DOMAIN c)
           w == Forget(q.s, {t})
<1>1. t \in Triggers \ Live(u) BY DEF Triggers
<1>2. /\ IsGiven(x, NoTrigger, c) /\ DOMAIN c = ConditionFields
      /\ c.counter \in AllCounters \cup {None}
  BY ConditionGiven
<1>3. r = IF c.counter = None THEN Error(FreeAwait(u, cl))
          ELSE IF q.ok THEN q ELSE Error(FreeAwait(w, cl))
  BY DEF Condition, TakeBack
<1> HIDE DEF t, c
<1>4. CASE c.counter = None
  <2>1. r.s = FreeAwait(u, cl) BY <1>3, <1>4 DEF Error
  <2>2. AwaitFreed(r.s, u, cl) BY <2>1, FreesAwait
  <2> QED BY <2>2 DEF AwaitFreed
<1>5. CASE c.counter # None
  <2>1. c.counter \in AllCounters BY <1>2, <1>5
  <2>2. /\ q.ok \in BOOLEAN /\ Joins(q.s, u, t)
        /\ ~q.ok => \A d \in AllCounters : ~Contains(q.s.list[d], t)
    BY <1>1, <1>2, <2>1, SetsCondition
  <2>3. q.s \in States /\ Listed(q.s) /\ q.s.dying = None BY <2>2 DEF Joins
  <2>4. Tells(v, u, {}) BY <1>1, RegisteringTells
  <2>5. TriggerIs(v, u, t, x) /\ \A d \in AllCounters : ~Contains(v.list[d], t)
    BY <1>1, <1>2, Registers DEF IsGiven
  <2> HIDE DEF x
  <2>6. v \in States /\ Listed(v) /\ v.dying = None /\ t \in Live(v) BY <2>5 DEF TriggerIs
  <2>7. Loose(v, t, {}) BY <2>5 DEF Loose, OnTimer, AllCounters
  <2> HIDE DEF v
  <2>8. Tells(q.s, v, {})
    <3>1. "counter" \in DOMAIN c /\ {} \in SUBSET Alarms BY <1>2 DEF ConditionFields
    <3>2. c.counter = IF "counter" \in DOMAIN c THEN c.counter ELSE v.trigger[t].counter BY <3>1
    <3> QED BY <1>2, <2>6, <2>7, <3>1, <3>2, InitingTells
  <2> HIDE DEF q
  <2>9. Tells(q.s, u, {}) BY <2>4, <2>6, <2>8, TellsOn
  <2>10. CASE q.ok
    <3>1. r = q BY <1>3, <1>5, <2>10
    <3> QED BY <2>9, <3>1
  <2>11. CASE ~q.ok
    <3>1. r.s = FreeAwait(w, cl) BY <1>3, <1>5, <2>11 DEF Error
    <3>2. w \in States /\ Listed(w) /\ Tells(w, q.s, {}) BY <2>2, <2>3, <2>11, ForgettingTells
    <3> HIDE DEF w
    <3>3. AwaitFreed(r.s, w, cl) BY <3>1, <3>2, FreesAwait
    <3>4. Tells(r.s, w, {}) BY <3>3 DEF AwaitFreed
    <3>5. Tells(w, u, {}) BY <2>3, <2>9, <3>2, TellsOn
    <3> QED BY <3>2, <3>4, <3>5, TellsOn
  <2> QED BY <2>2, <2>10, <2>11
<1> QED BY <1>4, <1>5

LEMMA AwaitingTells ==
    ASSUME NEW s, Core(s), s.dying = None, Quiet(s), s.fate = "running", NEW cl \in Clients,
           Waits(s, cl) = {}, now \in XSyncValue, NEW conds \in WaitLists
    PROVE  Tells(FireIfTrue(AddConditions(s, cl, conds), cl), s, {})
<1> DEFINE r0 == Ok(s)
           r1 == AddOne(r0, cl, conds, 1)
           r2 == AddOne(r1, cl, conds, 2)
           r == AddConditions(s, cl, conds)
           u == r.s
           t == <<cl, 1>>
<1>1. DOMAIN conds \in {{1}, {1, 2}} BY SyncAssumption
<1>2. r = IF DOMAIN conds = {1} THEN r1 ELSE r2 BY <1>1, AddsInTurn
<1>3. r0.ok = TRUE /\ r0.s = s BY DEF Ok
<1>4. r1 = Condition(s, cl, conds[1], t) BY <1>3 DEF AddOne
<1>5. s \in States /\ Listed(s) BY DEF Core
<1>6. \A j \in {1, 2} : <<cl, j>> \notin Live(s) BY <1>5, WaitsAre
<1>7. Tells(r1.s, s, {})
  <2>1. 1 \in DOMAIN conds /\ 1 \in {1, 2} BY <1>1
  <2> HIDE DEF r1
  <2> QED BY <1>4, <1>5, <1>6, <2>1, ConditionTells
<1>8. ConditionDone(r1, s, cl, conds, {1})
  <2>1. {} \cup {1} = {1} /\ {} \in SUBSET {1, 2} /\ {} \subseteq DOMAIN conds /\ 1 \in DOMAIN conds
    BY <1>1
  <2>2. Adding(s, s, cl, conds, {}) BY <1>6 DEF Adding, Quiet
  <2> HIDE DEF r1
  <2>3. ConditionDone(r1, s, cl, conds, {} \cup {1}) BY <1>4, <2>1, <2>2, SetsUpCondition
  <2> QED BY <2>1, <2>3
<1> HIDE DEF r0, r1
<1>9. DOMAIN conds = {1, 2} => Tells(r2.s, s, {})
  <2> SUFFICES ASSUME DOMAIN conds = {1, 2} PROVE Tells(r2.s, s, {}) OBVIOUS
  <2>1. CASE ~r1.ok
    <3>1. r2 = r1 BY <2>1 DEF AddOne
    <3> QED BY <1>7, <3>1
  <2>2. CASE r1.ok
    <3>1. r2 = Condition(r1.s, cl, conds[2], <<cl, 2>>) BY <2>2 DEF AddOne
    <3>2. Adding(r1.s, s, cl, conds, {1}) BY <1>8, <2>2 DEF ConditionDone
    <3>3. r1.s \in States /\ Listed(r1.s) /\ r1.s.dying = None /\ <<cl, 2>> \notin Live(r1.s)
      BY <3>2 DEF Adding, Core
    <3>4. 2 \in DOMAIN conds /\ 2 \in {1, 2} OBVIOUS
    <3> HIDE DEF r2
    <3>5. Tells(r2.s, r1.s, {}) BY <3>1, <3>3, <3>4, ConditionTells
    <3> QED BY <1>7, <3>3, <3>5, TellsOn
  <2> QED BY <2>1, <2>2
<1>10. Tells(u, s, {})
  <2>1. {1, 2} # {1} OBVIOUS
  <2> HIDE DEF r, r2
  <2> QED BY <1>1, <1>2, <1>7, <1>9, <2>1
<1>11. ConditionDone(r, s, cl, conds, DOMAIN conds) BY SetsUpConditions
<1> DEFINE x == FireIfTrue(r, cl)
<1>12. x = IF r.ok /\ \E e \in Waits(u, cl) : IsTrue(u, e) THEN SyncAwaitTriggerFired(u, t) ELSE u
  BY DEF FireIfTrue
<1> HIDE DEF r, x
<1>13. CASE r.ok /\ \E e \in Waits(u, cl) : IsTrue(u, e)
  <2>1. x = SyncAwaitTriggerFired(u, t) BY <1>12, <1>13
  <2>2. u \in States /\ Listed(u) BY <1>11, <1>13 DEF ConditionDone, Adding, Core
  <2>3. t \in Triggers \ Alarms
    <3>1. t \in Clients \X {1, 2} OBVIOUS
    <3>2. t \notin Alarms BY <3>1, SyncAssumption
    <3> QED BY <3>1, <3>2 DEF Triggers
  <2> HIDE DEF t
  <2>4. Tells(x, u, {}) BY <2>1, <2>2, <2>3, ReleasedAwaitTells
  <2>5. Tells(x, s, {}) BY <1>10, <2>2, <2>4, TellsOn
  <2> QED BY <2>5 DEF x, r
<1>14. CASE ~(r.ok /\ \E e \in Waits(u, cl) : IsTrue(u, e))
  <2>1. x = u BY <1>12, <1>14
  <2> QED BY <1>10, <2>1 DEF x, r
<1> QED BY <1>13, <1>14

(* The invariant of the timer, on top of Sound.                             *)
Timed == OnTime(state) /\ Armed(state)

LEMMA FreshIsTimed ==
    ASSUME Sound, Timed, Running
    PROVE  Begun(Fresh) /\ OnTime(Fresh) /\ Armed(Fresh)
<1>1. Begun(Fresh) /\ state \in States /\ Listed(state) BY FreshBegins DEF Sound, Core
<1>2. /\ Fresh.bracket = state.bracket /\ Fresh.timer = state.timer /\ Fresh.list = state.list
      /\ Fresh.value = state.value /\ Fresh.refused = state.refused /\ Fresh.trigger = state.trigger
  BY <1>1 DEF Fresh, States
<1>3. Tells(Fresh, state, {}) BY <1>2, TellsNothing
<1>4. {} \in SUBSET Alarms /\ \A t \in {} : OnTimer(Fresh, t) => t \in Fresh.refused OBVIOUS
<1>5. Armed(Fresh) BY <1>1, <1>3, <1>4, StaysArmed DEF Timed
<1>6. OnTime(Fresh) BY <1>2 DEF OnTime, Timed
<1> QED BY <1>1, <1>5, <1>6

LEMMA EndsTimed ==
    ASSUME now' = now, NEW s, OnTime(s), TimeMoves(state', s), Armed(state')
    PROVE  Timed'
<1>1. OnTime(state') BY TimeMovesOn
<1> QED BY <1>1 DEF Timed, OnTime

LEMMA TellsAndEnds ==
    ASSUME now' = now, NEW s \in States, Listed(s), OnTime(s), Armed(s), Tells(state', s, {})
    PROVE  Timed'
<1>1. {} \in SUBSET Alarms /\ \A t \in {} : OnTimer(state', t) => t \in state'.refused OBVIOUS
<1>2. Armed(state') BY <1>1, StaysArmed
<1> QED BY <1>2, EndsTimed DEF Tells

LEMMA CounterTimed ==
    ASSUME Sound, Timed, NEW c \in Counters, NEW v \in Values,
           CreateCounter(c, v) \/ SetCounter(c, v) \/ ChangeCounter(c, v)
    PROVE  Timed'
<1> DEFINE s == Fresh
<1>1. Running /\ now' = now BY DEF CreateCounter, SetCounter, ChangeCounter, Free
<1>2. Begun(s) /\ OnTime(s) /\ Armed(s) BY <1>1, FreshIsTimed
<1>3. s \in States /\ Listed(s) /\ s.dying = None /\ s.gone = {} /\ s.value = state.value
  BY <1>2 DEF Begun, Core
<1>4. v \in XSyncValue /\ c \in AllCounters /\ c # SERVERTIME BY SyncAssumption DEF AllCounters
<1>5. Tells(state', s, {})
  <2>1. CASE CreateCounter(c, v)
    <3>1. state' = [s EXCEPT !.value[c] = v] BY <2>1 DEF CreateCounter
    <3>2. s.value \in [AllCounters -> XSyncValue \cup {None}] /\ SERVERTIME \in AllCounters
      BY <1>3 DEF States, AllCounters
    <3> HIDE DEF s
    <3>3. /\ state'.bracket = s.bracket /\ state'.timer = s.timer /\ state'.list = s.list
          /\ state'.refused = s.refused /\ state'.trigger = s.trigger
          /\ state'.value[SERVERTIME] = s.value[SERVERTIME]
      BY <1>3, <1>4, <3>1, <3>2 DEF States
    <3> QED BY <3>3, TellsNothing
  <2>2. CASE SetCounter(c, v)
    <3>1. state' = SyncChangeCounter(s, c, v) BY <2>2 DEF SetCounter
    <3> QED BY <1>3, <1>4, <3>1, ChangingKeepsTimer
  <2>3. CASE ChangeCounter(c, v) /\ AddOverflows(state.value[c], v)
    <3>1. state' = s BY <2>3 DEF ChangeCounter, Added
    <3> QED BY <3>1, TellsNothing
  <2>4. CASE ChangeCounter(c, v) /\ ~AddOverflows(state.value[c], v)
    <3>1. state' = SyncChangeCounter(s, c, ValueAdd(state.value[c], v)) BY <2>4 DEF ChangeCounter, Added
    <3>2. state.value[c] \in XSyncValue BY <1>3, <1>4, <2>4 DEF ChangeCounter, Exists, States
    <3>3. ValueAdd(state.value[c], v) \in XSyncValue BY <1>4, <3>2, AddIsTyped
    <3> QED BY <1>3, <3>1, <3>3, ChangingKeepsTimer
  <2> QED BY <2>1, <2>2, <2>3, <2>4
<1> QED BY <1>1, <1>2, <1>3, <1>5, TellsAndEnds

LEMMA DestroyCounterTimed ==
    ASSUME Sound, Timed, NEW c \in Counters, DestroyCounter(c)
    PROVE  Timed'
<1> DEFINE s == Fresh
<1>1. Running /\ now' = now BY DEF DestroyCounter, Free
<1>2. Begun(s) /\ OnTime(s) /\ Armed(s) BY <1>1, FreshIsTimed
<1>3. s \in States /\ Listed(s) /\ s.dying = None BY <1>2 DEF Begun, Core
<1>4. state' = FreeCounter(s, c) BY DEF DestroyCounter
<1> HIDE DEF s
<1>5. Tells(state', s, {}) BY <1>3, <1>4, FreeingCounterTells
<1> QED BY <1>1, <1>2, <1>3, <1>5, TellsAndEnds

LEMMA QueryCounterTimed ==
    ASSUME Sound, Timed, QueryCounter
    PROVE  Timed'
<1> DEFINE s == Fresh
<1>1. Running /\ now' = now BY DEF QueryCounter, Free
<1>2. Begun(s) /\ OnTime(s) /\ Armed(s) BY <1>1, FreshIsTimed
<1>3. s \in States /\ Listed(s) BY <1>2 DEF Begun, Core
<1>4. state' = Ask(s, SERVERTIME) BY DEF QueryCounter, Ask
<1> HIDE DEF s
<1>5. Tells(state', s, {}) BY <1>3, <1>4, AskingTells
<1> QED BY <1>1, <1>2, <1>3, <1>5, TellsAndEnds

LEMMA AwaitTimed ==
    ASSUME Sound, Timed, NEW cl \in Clients, NEW conds \in WaitLists, Await(cl, conds)
    PROVE  Timed'
<1> DEFINE s == Fresh
<1>1. Running /\ now' = now BY DEF Await, Free
<1>2. Begun(s) /\ OnTime(s) /\ Armed(s) BY <1>1, FreshIsTimed
<1>3. s \in States /\ Listed(s) BY <1>2 DEF Begun, Core
<1>4. Waits(s, cl) = {} BY <1>2 DEF Await, Free, Waits, Begun
<1>5. state' = FireIfTrue(AddConditions(s, cl, conds), cl) BY DEF Await
<1> HIDE DEF s
<1>6. Tells(state', s, {}) BY <1>2, <1>4, <1>5, AwaitingTells DEF Begun, Sound
<1> QED BY <1>1, <1>2, <1>3, <1>6, TellsAndEnds

LEMMA AlarmTimed ==
    ASSUME Sound, Timed, NEW a \in Alarms, NEW req \in AlarmRequests,
           CreateAlarm(a, req) \/ ChangeAlarm(a, req)
    PROVE  Timed'
<1> DEFINE s == Fresh
<1>1. Running /\ now' = now BY DEF CreateAlarm, ChangeAlarm, Free
<1>2. Begun(s) /\ OnTime(s) /\ Armed(s) BY <1>1, FreshIsTimed
<1>3. s \in States /\ Listed(s) /\ s.dying = None /\ s.trigger = state.trigger /\ Live(s) = Live(state)
  BY <1>2 DEF Begun, Core
<1>4. Gives(req, AlarmFields) BY SyncAssumption
<1>5. CASE CreateAlarm(a, req)
  <2>1. state' = Created(SyncChangeAlarmAttributes(Register(s, a, NoTrigger), a, req), a)
        /\ a \in Alarms \ Live(s)
    BY <1>3, <1>5 DEF CreateAlarm
  <2> HIDE DEF s
  <2>2. TimeMoves(state', s) /\ Armed(state') BY <1>2, <1>4, <2>1, CreatingAlarmKeepsArmed DEF Begun
  <2> QED BY <1>1, <1>2, <2>2, EndsTimed
<1>6. CASE ChangeAlarm(a, req) /\ state.trigger[a].counter # Freed
  <2>1. state' = Changed(SyncChangeAlarmAttributes(s, a, req), a) /\ a \in Live(s) \cap Alarms
    BY <1>3, <1>6 DEF ChangeAlarm
  <2> HIDE DEF s
  <2>2. TimeMoves(state', s) /\ Armed(state')
    BY <1>2, <1>3, <1>4, <1>6, <2>1, ChangingAlarmKeepsArmed DEF Begun
  <2> QED BY <1>1, <1>2, <2>2, EndsTimed
<1>7. CASE ChangeAlarm(a, req) /\ state.trigger[a].counter = Freed
  <2>1. state' = [s EXCEPT !.fate = "undefined"] BY <1>7 DEF ChangeAlarm
  <2> HIDE DEF s
  <2>2. Tells(state', s, {}) BY <1>3, <2>1, FateTells
  <2> QED BY <1>1, <1>2, <1>3, <2>2, TellsAndEnds
<1> QED BY <1>5, <1>6, <1>7

LEMMA DestroyAlarmTimed ==
    ASSUME Sound, Timed, NEW a \in Alarms, DestroyAlarm(a)
    PROVE  Timed'
<1> DEFINE s == Fresh
<1>1. Running /\ now' = now BY DEF DestroyAlarm, Free
<1>2. Begun(s) /\ OnTime(s) /\ Armed(s) BY <1>1, FreshIsTimed
<1>3. s \in States /\ Listed(s) /\ s.dying = None BY <1>2 DEF Begun, Core
<1>4. state' = FreeAlarm(s, a) BY DEF DestroyAlarm
<1> HIDE DEF s
<1>5. Tells(state', s, {}) BY <1>3, <1>4, FreeingAlarmTells
<1> QED BY <1>1, <1>2, <1>3, <1>5, TellsAndEnds

LEMMA GoneTells ==
    ASSUME NEW s \in States, Listed(s), NEW g \in SUBSET Clients, NEW u, u = [s EXCEPT !.gone = g]
    PROVE  u \in States /\ Listed(u) /\ u.dying = s.dying /\ Tells(u, s, {})
<1>1. /\ u \in States /\ u.value = s.value /\ u.list = s.list /\ u.trigger = s.trigger
      /\ u.dying = s.dying /\ u.refused = s.refused /\ u.bracket = s.bracket /\ u.timer = s.timer
  BY DEF States
<1>2. Listed(u) BY <1>1 DEF Listed, Live
<1>3. Tells(u, s, {}) BY <1>1, TellsNothing
<1> QED BY <1>1, <1>2, <1>3

LEMMA ClientGoneTimed ==
    ASSUME Sound, Timed, NEW cl \in Clients, ClientGone(cl)
    PROVE  Timed'
<1> DEFINE s == [Fresh EXCEPT !.gone = {cl}]
           n == Cardinality(Mine(cl))
<1>1. Begun(Fresh) /\ OnTime(Fresh) /\ Armed(Fresh) /\ now' = now BY FreshIsTimed DEF ClientGone
<1>2. Fresh \in States /\ Listed(Fresh) /\ Fresh.dying = None BY <1>1 DEF Begun, Core
<1>3. PICK order \in SetToSeqs(Mine(cl)) : state' = Closed(FreeClientResources(s, order, cl))
  BY DEF ClientGone
<1>4. s \in States /\ Listed(s) /\ s.dying = None /\ Tells(s, Fresh, {}) BY <1>2, GoneTells
<1> HIDE DEF s
<1>5. n \in Nat /\ Mine(cl) \subseteq Resources BY MineFinite
<1>6. order \in [1 .. n -> Mine(cl)] BY <1>3 DEF SetToSeqs
<1> HIDE DEF n
<1>7. order \in [1 .. n -> Resources] BY <1>5, <1>6
<1> DEFINE r == FreeClientResources(s, order, cl)
<1>8. r \in ReleaseType /\ Tells(r, s, {}) BY <1>4, <1>5, <1>7, ReleasingTells DEF ReleaseType
<1> HIDE DEF r
<1>9. state' \in {r, [r EXCEPT !.gone = {}]} BY <1>3 DEF r, Closed
<1>10. Tells(state', r, {})
  <2>1. Tells(r, r, {}) BY TellsNothing
  <2> QED BY <1>8, <1>9, <2>1, GoneTells DEF ReleaseType
<1>11. Tells(r, Fresh, {}) BY <1>4, <1>8, TellsOn
<1>12. Tells(state', Fresh, {}) BY <1>8, <1>10, <1>11, TellsOn DEF ReleaseType
<1> QED BY <1>1, <1>2, <1>12, TellsAndEnds

LEMMA WakeupTimed ==
    ASSUME Sound, Timed, ServertimeWakeupHandler
    PROVE  Timed'
<1> DEFINE s == Fresh
<1>1. Running /\ now' = now BY DEF ServertimeWakeupHandler, TimerExpired
<1>2. Begun(s) /\ OnTime(s) /\ Armed(s) BY <1>1, FreshIsTimed
<1>3. s \in States /\ Listed(s) /\ s.dying = None /\ s.gone = {} BY <1>2 DEF Begun, Core
<1>4. state' = SyncChangeCounter(s, SERVERTIME, now) BY DEF ServertimeWakeupHandler
<1>5. now \in XSyncValue /\ SERVERTIME \in AllCounters BY DEF Sound, AllCounters
<1> HIDE DEF s
<1>6. Armed(state') BY <1>2, <1>3, <1>4, <1>5, TimerRearms
<1>7. state'.value = [s.value EXCEPT ![SERVERTIME] = now]
  BY <1>2, <1>4, <1>5, ChangingKeepsCore DEF Begun
<1>8. TimeMoves(state', s) BY <1>3, <1>5, <1>7 DEF TimeMoves, States
<1> QED BY <1>1, <1>2, <1>6, <1>8, EndsTimed

LEMMA TickTimed ==
    ASSUME Sound, Timed, Tick
    PROVE  Timed'
<1>1. /\ now \in XSyncValue /\ One \in XSyncValue /\ MaxTime \in XSyncValue
      /\ state.value[SERVERTIME] \in XSyncValue /\ LessOrEqual(state.value[SERVERTIME], now)
  BY ValuesTyped, SyncAssumption DEF Timed, OnTime
<1>2. /\ Int64(now) \in Int /\ Int64(MaxTime) \in Int /\ InRange(Int64(now)) /\ InRange(Int64(MaxTime))
  BY <1>1, Int64InRange
<1>3. Int64(now) < Int64(MaxTime) BY <1>1, ComparisonsAreExact DEF ExactComparisons, Tick
<1>4. Int64(One) = 1
  <2>1. Unsigned(1) = 1 /\ Signed(0) = 0 BY WordIsPositive DEF Unsigned, Signed
  <2>2. One = [hi |-> 0, lo |-> 1] BY <2>1 DEF One, Zero, ValueAdd, Carry
  <2> QED BY <2>2, WordIsPositive DEF Int64
<1>5. InRange(Int64(now) + 1)
  <2> DEFINE H == Half * Word
  <2>1. H \in Int BY WordIsPositive
  <2>2. -Half * Word = -H BY WordIsPositive
  <2>3. -H <= Int64(now) /\ Int64(MaxTime) <= H - 1 BY <1>2, <2>2 DEF InRange
  <2> HIDE DEF H
  <2>4. -H <= Int64(now) + 1 /\ Int64(now) + 1 <= H - 1 BY <1>2, <1>3, <2>1, <2>3
  <2> QED BY <2>2, <2>4 DEF InRange, H
<1>6. Int64(now') = Int64(now) + 1 BY <1>1, <1>4, <1>5, AddIsExact DEF ExactSum, Tick
<1>7. now' \in XSyncValue BY <1>1, AddIsTyped DEF Tick
<1>8. LessOrEqual(now, now')
  <2>1. Int64(now) <= Int64(now') BY <1>2, <1>6
  <2> QED BY <1>1, <1>7, <2>1, ComparisonsAreExact DEF ExactComparisons
<1>9. LessOrEqual(state.value[SERVERTIME], now') BY <1>1, <1>7, <1>8, OrderOfValues
<1>10. state' = state BY DEF Tick
<1> QED BY <1>1, <1>7, <1>9, <1>10 DEF Timed, OnTime

LEMMA InitTimed ==
    ASSUME Init
    PROVE  Timed
<1>1. /\ state.list = [c \in Counters \cup {SERVERTIME} |-> <<>>] /\ now = Zero
      /\ state.value = [c \in Counters \cup {SERVERTIME} |-> IF c = SERVERTIME THEN Zero ELSE None]
  BY DEF Init
<1>2. state.list[SERVERTIME] = <<>> /\ state.value[SERVERTIME] = Zero BY <1>1
<1>3. InTime(state) BY <1>2 DEF InTime, OnTimer, Contains
<1>4. OnTime(state) BY <1>1, <1>2, ValuesTyped, OrderOfValues DEF OnTime
<1> QED BY <1>3, <1>4 DEF Timed, Armed

LEMMA NextTimed ==
    ASSUME Sound, Timed, [Next]_vars
    PROVE  Timed'
<1>1. CASE UNCHANGED vars BY <1>1 DEF vars, Timed, OnTime
<1>2. ASSUME NEW c \in Counters, NEW v \in Values,
             CreateCounter(c, v) \/ SetCounter(c, v) \/ ChangeCounter(c, v)
      PROVE  Timed'
  BY <1>2, CounterTimed
<1>3. ASSUME NEW c \in Counters, DestroyCounter(c) PROVE Timed' BY <1>3, DestroyCounterTimed
<1>4. ASSUME NEW cl \in Clients, NEW conds \in WaitLists, Await(cl, conds) PROVE Timed'
  BY <1>4, AwaitTimed
<1>5. ASSUME NEW a \in Alarms, NEW req \in AlarmRequests, CreateAlarm(a, req) \/ ChangeAlarm(a, req)
      PROVE  Timed'
  BY <1>5, AlarmTimed
<1>6. ASSUME NEW a \in Alarms, DestroyAlarm(a) PROVE Timed' BY <1>6, DestroyAlarmTimed
<1>7. ASSUME NEW cl \in Clients, ClientGone(cl) PROVE Timed' BY <1>7, ClientGoneTimed
<1>8. CASE QueryCounter BY <1>8, QueryCounterTimed
<1>9. CASE Tick BY <1>9, TickTimed
<1>10. CASE ServertimeWakeupHandler BY <1>10, WakeupTimed
<1> QED BY <1>1, <1>2, <1>3, <1>4, <1>5, <1>6, <1>7, <1>8, <1>9, <1>10 DEF Next

(* With the lists as they are, the invariant says what the property does.   *)
LEMMA TimedIsArmed ==
    ASSUME Sound, Timed
    PROVE  NextTimeArmed
<1> DEFINE L == state.list[SERVERTIME]
<1> SUFFICES ASSUME Running,
                    \A i \in DOMAIN L : L[i] \notin state.refused /\ state.trigger[L[i]].test_type \in Comparisons,
                    NEW j \in DOMAIN L, L[j] \notin Alarms,
                    state.trigger[L[j]].test_type = "PositiveComparison",
                    state.trigger[L[j]].test_value # MaxValue,
                    LessThan(state.value[SERVERTIME], state.trigger[L[j]].test_value)
             PROVE  state.timer /\ LessOrEqual(state.bracket.greater, state.trigger[L[j]].test_value)
  BY DEF NextTimeArmed
<1>1. L \in Seq(Triggers) /\ DOMAIN L = 1 .. Len(L) BY DEF Sound, Core, States, AllCounters
<1>2. \A t \in Triggers : OnTimer(state, t) => t \notin state.refused /\ state.trigger[t].test_type \in Comparisons
  BY <1>1 DEF OnTimer, Contains
<1>3. InTime(state) BY <1>2 DEF Timed, Armed
<1>4. L[j] \in Triggers \ Alarms /\ OnTimer(state, L[j]) BY <1>1 DEF OnTimer, Contains
<1>5. Awaited(state, L[j]) BY DEF Awaited
<1> QED BY <1>3, <1>4, <1>5 DEF InTime

(* The timer of SERVERTIME is set in time for whatever an Await's           *)
(* comparison waits for, as long as no transition is on its list.           *)
THEOREM TimerIsSetInTime == Spec => []NextTimeArmed
<1>1. Init => Timed BY InitTimed
<1>2. Sound /\ Timed /\ [Next]_vars => Timed' BY NextTimed
<1>3. Sound /\ Timed => NextTimeArmed BY TimedIsArmed
<1> QED BY <1>1, <1>2, <1>3, AlwaysSound, PTL DEF Spec

=============================================================================
