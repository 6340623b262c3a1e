--------------------------- MODULE PassiveGrabsProofs ---------------------------
(* What PassiveGrabs.tla does with its list, for any clients, keys, modifiers  *)
(* and modes, and lists of any length.                                         *)
EXTENDS PassiveGrabs, FiniteSetTheorems, TLAPS

--------------------------------------------------------------------------------
(* Sublists.                                                                   *)

IsIn(x, list) == \E n \in DOMAIN list : list[n] = x

IsAt(x, list, places) == \E i \in places : list[i] = x

LEMMA PlacesAreFinite ==
  ASSUME NEW L \in Nat, NEW kept \in SUBSET (1 .. L)
  PROVE  IsFiniteSet(kept) /\ Cardinality(kept) \in Nat
<1>1. 1 \in Int /\ L \in Int
  OBVIOUS
<1>2. IsFiniteSet(1 .. L)
  BY <1>1, FS_Interval
<1>3. IsFiniteSet(kept)
  BY <1>2, FS_Subset
<1> QED
  BY <1>3, FS_CardinalityType

(* The kept places, numbered from the first: every number up to how many they  *)
(* are is the number of one place.                                             *)
LEMMA PlacesAreNumbered ==
  ASSUME NEW L \in Nat, NEW kept \in SUBSET (1 .. L)
  PROVE  /\ Cardinality(kept) \in Nat
         /\ \A i \in kept : Cardinality({j \in kept : j < i}) + 1 \in 1 .. Cardinality(kept)
         /\ \A n \in 1 .. Cardinality(kept) :
              \E i \in kept : Cardinality({j \in kept : j < i}) = n - 1
<1> DEFINE Before(i) == {j \in kept : j < i}
           number == [i \in kept |-> Cardinality(Before(i)) + 1]
           N == Cardinality(kept)
<1>1. IsFiniteSet(kept) /\ N \in Nat
  BY PlacesAreFinite
<1>2. \A i \in kept : /\ IsFiniteSet(Before(i))
                      /\ Cardinality(Before(i)) \in Nat
                      /\ Cardinality(Before(i)) < N
  <2> SUFFICES ASSUME NEW i \in kept
               PROVE  /\ IsFiniteSet(Before(i))
                      /\ Cardinality(Before(i)) \in Nat
                      /\ Cardinality(Before(i)) < N
    OBVIOUS
  <2>1. Before(i) \in SUBSET kept /\ Before(i) # kept
    OBVIOUS
  <2>2. IsFiniteSet(Before(i)) /\ Cardinality(Before(i)) <= N /\ Cardinality(Before(i)) # N
    BY <1>1, <2>1, FS_Subset
  <2>3. Cardinality(Before(i)) \in Nat
    BY <2>2, FS_CardinalityType
  <2> QED
    BY <1>1, <2>2, <2>3
<1>3. \A i, j \in kept : i < j => Cardinality(Before(i)) < Cardinality(Before(j))
  <2> SUFFICES ASSUME NEW i \in kept, NEW j \in kept, i < j
               PROVE  Cardinality(Before(i)) < Cardinality(Before(j))
    OBVIOUS
  <2>1. Before(i) \in SUBSET Before(j) /\ Before(i) # Before(j)
    <3>1. i \in Before(j) /\ i \notin Before(i)
      OBVIOUS
    <3>2. \A x \in Before(i) : x < j
      <4>1. \A x, y, z \in 1 .. L : x < y /\ y < z => x < z
        OBVIOUS
      <4> QED
        BY <4>1
    <3> QED
      BY <3>1, <3>2
  <2>2. /\ Cardinality(Before(i)) <= Cardinality(Before(j))
        /\ Cardinality(Before(i)) # Cardinality(Before(j))
    BY <1>2, <2>1, FS_Subset
  <2> HIDE DEF Before
  <2> QED
    BY <1>2, <2>2
<1> HIDE DEF Before
<1>4. number \in Injection(kept, 1 .. N)
  <2>1. number \in [kept -> 1 .. N]
    BY <1>1, <1>2
  <2>2. \A i, j \in kept : number[i] = number[j] => i = j
    <3> SUFFICES ASSUME NEW i \in kept, NEW j \in kept, number[i] = number[j], i # j
                 PROVE  FALSE
      OBVIOUS
    <3>1. i < j \/ j < i
      OBVIOUS
    <3>2. Cardinality(Before(i)) = Cardinality(Before(j))
      BY <1>2
    <3> QED
      BY <1>2, <1>3, <3>1, <3>2
  <2> QED
    BY <2>1, <2>2 DEF Injection, IsInjective
<1>5. number \in Surjection(kept, 1 .. N)
  <2>1. IsFiniteSet(1 .. N) /\ Cardinality(1 .. N) = N
    <3>1. 1 \in Int /\ N \in Int
      BY <1>1
    <3> HIDE DEF N
    <3>2. IsFiniteSet(1 .. N) /\ Cardinality(1 .. N) = IF 1 > N THEN 0 ELSE N - 1 + 1
      BY <3>1, FS_Interval
    <3>3. N \in Nat
      BY <1>1 DEF N
    <3> QED
      BY <3>2, <3>3
  <2> HIDE DEF number, N
  <2>2. N = Cardinality(kept)
    BY DEF N
  <2> QED
    BY <1>4, <2>1, <2>2, FS_Injection
<1>6. \A n \in 1 .. N : \E i \in kept : Cardinality(Before(i)) = n - 1
  <2> SUFFICES ASSUME NEW n \in 1 .. N
               PROVE  \E i \in kept : Cardinality(Before(i)) = n - 1
    OBVIOUS
  <2>1. PICK i \in kept : number[i] = n
    BY <1>5 DEF Surjection
  <2> QED
    BY <1>1, <1>2, <2>1
<1>7. \A i \in kept : Cardinality(Before(i)) + 1 \in 1 .. N
  BY <1>1, <1>2
<1> QED
  BY <1>1, <1>6, <1>7 DEF Before

(* There is a first among some places of a list.                               *)
LEMMA FirstIsFound ==
  ASSUME NEW L \in Nat, NEW found \in SUBSET (1 .. L), found # {}
  PROVE  First(found) \in found
<1> DEFINE Before(i) == {j \in found : j < i}
<1>1. Cardinality(found) \in Nat \ {0}
  <2>1. IsFiniteSet(found)
    BY PlacesAreFinite
  <2> QED
    BY <2>1, FS_EmptySet, FS_CardinalityType
<1>2. PICK i \in found : Cardinality(Before(i)) = 0
  <2>1. \A n \in 1 .. Cardinality(found) : \E i \in found : Cardinality(Before(i)) = n - 1
    BY PlacesAreNumbered
  <2>2. 1 \in 1 .. Cardinality(found)
    BY <1>1
  <2>3. \E i \in found : Cardinality(Before(i)) = 1 - 1
    BY <2>1, <2>2
  <2> HIDE DEF Before
  <2> QED
    BY <2>3
<1>3. IsFiniteSet(Before(i))
  <2>1. Before(i) \in SUBSET (1 .. L)
    OBVIOUS
  <2> QED
    BY <2>1, PlacesAreFinite
<1>4. Before(i) = {}
  BY <1>2, <1>3, FS_EmptySet
<1>5. \A j \in found : i <= j
  BY <1>4
<1> QED
  BY <1>5 DEF First

(* A sublist has the elements at the kept places, and no others.               *)
LEMMA SublistElements ==
  ASSUME NEW L \in Nat, NEW kept \in SUBSET (1 .. L), NEW list,
         NEW T, \A i \in kept : list[i] \in T
  PROVE  /\ Sublist(list, kept) \in Seq(T)
         /\ \A x : IsIn(x, Sublist(list, kept)) <=> IsAt(x, list, kept)
<1> DEFINE Before(i) == {j \in kept : j < i}
           N == Cardinality(kept)
<1>1. /\ N \in Nat
      /\ \A i \in kept : Cardinality(Before(i)) + 1 \in 1 .. N
      /\ \A n \in 1 .. N : \E i \in kept : Cardinality(Before(i)) = n - 1
  BY PlacesAreNumbered
<1>2. \A n \in 1 .. N : Place(kept, n) \in kept /\ Cardinality(Before(Place(kept, n))) = n - 1
  BY <1>1 DEF Place
<1>3. DOMAIN Sublist(list, kept) = 1 .. N
  BY DEF Sublist
<1>4. \A n \in 1 .. N : Sublist(list, kept)[n] = list[Place(kept, n)]
  BY DEF Sublist
<1>5. Sublist(list, kept) \in Seq(T)
  <2>1. Sublist(list, kept) \in [1 .. N -> T]
    BY <1>2 DEF Sublist
  <2> QED
    BY <1>1, <2>1
<1>6. \A i \in kept : Place(kept, Cardinality(Before(i)) + 1) = i
  <2> SUFFICES ASSUME NEW i \in kept
               PROVE  Place(kept, Cardinality(Before(i)) + 1) = i
    OBVIOUS
  <2> DEFINE j == Place(kept, Cardinality(Before(i)) + 1)
  <2>1. Cardinality(Before(i)) \in Nat
    <3>1. Before(i) \in SUBSET (1 .. L)
      OBVIOUS
    <3> QED
      BY <3>1, PlacesAreFinite
  <2>2. j \in kept /\ Cardinality(Before(j)) = Cardinality(Before(i))
    <3> DEFINE m == Cardinality(Before(i)) + 1
    <3>1. m \in 1 .. N
      BY <1>1
    <3> HIDE DEF m
    <3>2. Place(kept, m) \in kept /\ Cardinality(Before(Place(kept, m))) = m - 1
      BY <1>2, <3>1
    <3>3. m - 1 = Cardinality(Before(i))
      BY <2>1 DEF m
    <3> QED
      BY <3>2, <3>3 DEF m
  <2>3. \A a, b \in kept : a < b => Cardinality(Before(a)) # Cardinality(Before(b))
    <3> SUFFICES ASSUME NEW a \in kept, NEW b \in kept, a < b,
                        Cardinality(Before(a)) = Cardinality(Before(b))
                 PROVE  FALSE
      OBVIOUS
    <3>1. IsFiniteSet(Before(b)) /\ Before(a) \in SUBSET Before(b)
      <4>1. \A x, y, z \in 1 .. L : x < y /\ y < z => x < z
        OBVIOUS
      <4>2. Before(b) \in SUBSET (1 .. L)
        OBVIOUS
      <4>3. Before(a) \subseteq Before(b)
        BY <4>1
      <4> QED
        BY <4>2, <4>3, PlacesAreFinite
    <3>2. a \in Before(b) /\ a \notin Before(a)
      OBVIOUS
    <3>3. Before(a) = Before(b)
      BY <3>1, FS_Subset
    <3> QED
      BY <3>2, <3>3
  <2>4. i \in Int /\ j \in Int
    <3>1. i \in 1 .. L /\ j \in 1 .. L
      BY <2>2
    <3> HIDE DEF j
    <3> QED
      BY <3>1
  <2> HIDE DEF j, Before
  <2> QED
    BY <2>2, <2>3, <2>4 DEF j
<1> HIDE DEF Before
<1>7. \A i \in kept : \E n \in 1 .. N : Sublist(list, kept)[n] = list[i]
  BY <1>1, <1>4, <1>6
<1>8. \A x : IsIn(x, Sublist(list, kept)) <=> IsAt(x, list, kept)
  BY <1>2, <1>3, <1>4, <1>7 DEF IsIn, IsAt
<1> QED
  BY <1>5, <1>8

--------------------------------------------------------------------------------
(* Details and grabs as what they cover.                                       *)
In(x, d, any) == IF d.exact = any THEN x \notin d.excluded ELSE x = d.exact

Covers(g, k, m) == In(k, g.detail, AnyKey) /\ In(m, g.modifiersDetail, AnyModifier)

(* A request names a grab by two details without masks.                        *)
Requests == [client : Clients, detail : {Exactly(x) : x \in AnyOrKeys},
             modifiersDetail : {Exactly(x) : x \in AnyOrModifiers}, mode : Modes \cup {{}}]

(* A detail supersedes a value if and only if it has it.                       *)
LEMMA DetailOfPress ==
  ASSUME NEW values, NEW any, any \notin values, NEW d \in Details(values, any),
         NEW x \in values
  PROVE  /\ DetailSupersedesSecond(d, Exactly(x), any) <=> In(x, d, any)
         /\ DetailSupersedesSecond(Exactly(x), d, any) => In(x, d, any)
BY DEF Details, DetailSupersedesSecond, IsInGrabMask, IdenticalExactDetails, Exactly, In

(* How a detail of the list and one of a request lie to each other: the second *)
(* covers the first, or the first loses one value and keeps the others, or     *)
(* they have nothing in common.                                                *)
LEMMA DetailAndRequest ==
  ASSUME NEW values, NEW any, any \notin values, NEW d \in Details(values, any),
         NEW e \in values \cup {any}
  PROVE  LET covered == DetailSupersedesSecond(Exactly(e), d, any)
             met == DetailSupersedesSecond(d, Exactly(e), any)
         IN  /\ covered => \A x \in values : In(x, d, any) => In(x, Exactly(e), any)
             /\ ~covered /\ met => d.exact = any /\ e \in values
             /\ ~covered /\ ~met => \A x \in values : ~(In(x, d, any) /\ In(x, Exactly(e), any))
             /\ (d.exact # any /\ met) \/ e = any => covered
BY DEF Details, DetailSupersedesSecond, IsInGrabMask, IdenticalExactDetails, Exactly, In

(* A value cleared in the mask of a wildcard is the one that it then lacks.    *)
LEMMA DetailNarrowed ==
  ASSUME NEW values, NEW any, any \notin values, NEW d \in Details(values, any),
         d.exact = any, NEW e \in values
  PROVE  /\ DeleteDetailFromMask(d, e) \in Details(values, any)
         /\ DeleteDetailFromMask(d, e).exact = any
         /\ \A x \in values : In(x, DeleteDetailFromMask(d, e), any)
                                  <=> In(x, d, any) /\ ~In(x, Exactly(e), any)
BY DEF Details, DeleteDetailFromMask, Exactly, In

(* The grabs that a press finds are the ones that cover it.                    *)
LEMMA PressMatches ==
  ASSUME NEW g \in Grabs, NEW k \in Keys, NEW m \in Modifiers
  PROVE  GrabMatchesSecond(CreateGrab(NoClient, Exactly(k), Exactly(m), {}), g)
           <=> Covers(g, k, m)
<1> DEFINE p == CreateGrab(NoClient, Exactly(k), Exactly(m), {})
<1>1. p.detail = Exactly(k) /\ p.modifiersDetail = Exactly(m)
  BY DEF CreateGrab
<1>2. g.detail \in Details(Keys, AnyKey) /\ g.modifiersDetail \in Details(Modifiers, AnyModifier)
  BY DEF Grabs
<1>3. /\ DetailsSupersede(g, p) <=> In(k, g.detail, AnyKey)
      /\ DetailsSupersede(p, g) => In(k, g.detail, AnyKey)
  BY <1>1, <1>2, AnyAssumption, DetailOfPress DEF DetailsSupersede
<1>4. /\ ModifiersSupersede(g, p) <=> In(m, g.modifiersDetail, AnyModifier)
      /\ ModifiersSupersede(p, g) => In(m, g.modifiersDetail, AnyModifier)
  BY <1>1, <1>2, AnyAssumption, DetailOfPress DEF ModifiersSupersede
<1> HIDE DEF p
<1>5. GrabMatchesSecond(p, g) <=> Covers(g, k, m)
  BY <1>3, <1>4 DEF GrabMatchesSecond, GrabSupersedesSecond, Covers
<1> QED
  BY <1>5 DEF p

(* What a request covers.                                                      *)
LEMMA RequestParts ==
  ASSUME NEW r \in Requests
  PROVE  /\ r.client \in Clients
         /\ r.detail.exact \in Keys \cup {AnyKey}
         /\ r.modifiersDetail.exact \in Modifiers \cup {AnyModifier}
         /\ r.detail = Exactly(r.detail.exact)
         /\ r.modifiersDetail = Exactly(r.modifiersDetail.exact)
BY DEF Requests, Exactly, AnyOrKeys, AnyOrModifiers

(* A grab and a request that have a combination in common match, whichever is  *)
(* the first.                                                                  *)
LEMMA RequestMatches ==
  ASSUME NEW g \in Grabs, NEW r \in Requests, NEW k \in Keys, NEW m \in Modifiers,
         Covers(g, k, m), Covers(r, k, m)
  PROVE  GrabMatchesSecond(r, g) /\ GrabMatchesSecond(g, r)
<1>1. g.detail \in Details(Keys, AnyKey) /\ g.modifiersDetail \in Details(Modifiers, AnyModifier)
  BY DEF Grabs
<1>2. DetailsSupersede(g, r) \/ DetailsSupersede(r, g)
  <2>1. LET e == r.detail.exact
        IN  DetailSupersedesSecond(Exactly(e), g.detail, AnyKey)
              \/ DetailSupersedesSecond(g.detail, Exactly(e), AnyKey)
    BY <1>1, RequestParts, AnyAssumption, DetailAndRequest DEF Covers
  <2> QED
    BY <2>1, RequestParts DEF DetailsSupersede
<1>3. ModifiersSupersede(g, r) \/ ModifiersSupersede(r, g)
  <2>1. LET e == r.modifiersDetail.exact
        IN  DetailSupersedesSecond(Exactly(e), g.modifiersDetail, AnyModifier)
              \/ DetailSupersedesSecond(g.modifiersDetail, Exactly(e), AnyModifier)
    BY <1>1, RequestParts, AnyAssumption, DetailAndRequest DEF Covers
  <2> QED
    BY <2>1, RequestParts DEF ModifiersSupersede
<1> QED
  BY <1>2, <1>3 DEF GrabMatchesSecond, GrabSupersedesSecond

(* What a request covers altogether is covered by it in each combination.      *)
LEMMA Superseded ==
  ASSUME NEW g \in Grabs, NEW r \in Requests, GrabSupersedesSecond(r, g),
         NEW k \in Keys, NEW m \in Modifiers, Covers(g, k, m)
  PROVE  Covers(r, k, m)
<1>1. g.detail \in Details(Keys, AnyKey) /\ g.modifiersDetail \in Details(Modifiers, AnyModifier)
  BY DEF Grabs
<1>2. In(k, r.detail, AnyKey)
  <2>1. DetailSupersedesSecond(Exactly(r.detail.exact), g.detail, AnyKey)
    BY RequestParts DEF GrabSupersedesSecond, DetailsSupersede
  <2> QED
    BY <1>1, <2>1, RequestParts, AnyAssumption, DetailAndRequest DEF Covers
<1>3. In(m, r.modifiersDetail, AnyModifier)
  <2>1. DetailSupersedesSecond(Exactly(r.modifiersDetail.exact), g.modifiersDetail, AnyModifier)
    BY RequestParts DEF GrabSupersedesSecond, ModifiersSupersede
  <2> QED
    BY <1>1, <2>1, RequestParts, AnyAssumption, DetailAndRequest DEF Covers
<1> QED
  BY <1>2, <1>3 DEF Covers

(* A concerned grab that the request does not cover altogether: its narrowed   *)
(* form, and the grab split from it, cover what it covered but the request     *)
(* does not.                                                                   *)
LEMMA Narrowed ==
  ASSUME NEW g \in Grabs, NEW r \in Requests,
         Concerned(g, r), ~GrabSupersedesSecond(r, g)
  PROVE  /\ Updated(g, r) \in Grabs /\ Updated(g, r).client = g.client
         /\ IsSplit(g, r) => NewGrab(g, r) \in Grabs /\ NewGrab(g, r).client = g.client
         /\ \A k \in Keys, m \in Modifiers :
              (Covers(Updated(g, r), k, m) \/ (IsSplit(g, r) /\ Covers(NewGrab(g, r), k, m)))
                <=> Covers(g, k, m) /\ ~Covers(r, k, m)
<1> DEFINE d == g.detail
           f == g.modifiersDetail
           e == r.detail.exact
           x == r.modifiersDetail.exact
<1>1. d \in Details(Keys, AnyKey) /\ f \in Details(Modifiers, AnyModifier)
  BY DEF Grabs
<1>2. /\ e \in Keys \cup {AnyKey} /\ x \in Modifiers \cup {AnyModifier}
      /\ r.detail = Exactly(e) /\ r.modifiersDetail = Exactly(x)
  BY RequestParts
<1> DEFINE keyCovered == DetailSupersedesSecond(Exactly(e), d, AnyKey)
           keyMet == DetailSupersedesSecond(d, Exactly(e), AnyKey)
           modCovered == DetailSupersedesSecond(Exactly(x), f, AnyModifier)
           modMet == DetailSupersedesSecond(f, Exactly(x), AnyModifier)
<1>3. (keyCovered \/ keyMet) /\ (modCovered \/ modMet) /\ ~(keyCovered /\ modCovered)
  BY <1>2 DEF Concerned, GrabMatchesSecond, GrabSupersedesSecond, DetailsSupersede,
              ModifiersSupersede
<1>4. /\ keyCovered => \A k \in Keys : In(k, d, AnyKey) => In(k, Exactly(e), AnyKey)
      /\ ~keyCovered => d.exact = AnyKey /\ e \in Keys
      /\ e = AnyKey => keyCovered
  BY <1>1, <1>2, <1>3, AnyAssumption, DetailAndRequest
<1>5. /\ modCovered => \A m \in Modifiers : In(m, f, AnyModifier) => In(m, Exactly(x), AnyModifier)
      /\ ~modCovered => f.exact = AnyModifier /\ x \in Modifiers
      /\ x = AnyModifier => modCovered
  BY <1>1, <1>2, <1>3, AnyAssumption, DetailAndRequest
<1> DEFINE d2 == DeleteDetailFromMask(d, e)
           f2 == DeleteDetailFromMask(f, x)
<1>6. d.exact = AnyKey /\ e \in Keys =>
        /\ d2 \in Details(Keys, AnyKey)
        /\ \A k \in Keys : In(k, d2, AnyKey) <=> In(k, d, AnyKey) /\ ~In(k, Exactly(e), AnyKey)
  BY <1>1, AnyAssumption, DetailNarrowed
<1>7. f.exact = AnyModifier /\ x \in Modifiers =>
        /\ f2 \in Details(Modifiers, AnyModifier)
        /\ \A m \in Modifiers : In(m, f2, AnyModifier)
                                   <=> In(m, f, AnyModifier) /\ ~In(m, Exactly(x), AnyModifier)
  BY <1>1, AnyAssumption, DetailNarrowed
<1>8. /\ WithoutKey(g, r) = [g EXCEPT !.detail = d2]
      /\ WithoutModifiers(g, r) = [g EXCEPT !.modifiersDetail = f2]
      /\ NewGrab(g, r) = [client |-> g.client, detail |-> Exactly(e),
                          modifiersDetail |-> f2, mode |-> g.mode]
  BY <1>2 DEF WithoutKey, WithoutModifiers, NewGrab, CreateGrab
<1>9. Updated(g, r) = IF LosesKey(g, r) THEN WithoutKey(g, r) ELSE WithoutModifiers(g, r)
  BY DEF Updated
<1>10. LosesKey(g, r) <=> IF (d.exact = AnyKey) = (f.exact = AnyModifier) THEN e # AnyKey
                          ELSE d.exact = AnyKey
  BY DEF LosesKey, AllKeys, AllModifiers
<1>11. IsSplit(g, r) <=> /\ (d.exact = AnyKey) = (f.exact = AnyModifier)
                         /\ e # AnyKey /\ x # AnyModifier
  BY DEF IsSplit, AllKeys, AllModifiers
<1> g = [client |-> g.client, detail |-> d, modifiersDetail |-> f, mode |-> g.mode]
  BY DEF Grabs
<1> g.client \in Clients /\ g.mode \in Modes
  BY DEF Grabs
<1>12. \A k, m : /\ Covers(g, k, m) <=> In(k, d, AnyKey) /\ In(m, f, AnyModifier)
                 /\ Covers(r, k, m) <=> In(k, Exactly(e), AnyKey) /\ In(m, Exactly(x), AnyModifier)
                 /\ Covers(WithoutKey(g, r), k, m) <=> In(k, d2, AnyKey) /\ In(m, f, AnyModifier)
                 /\ Covers(WithoutModifiers(g, r), k, m)
                      <=> In(k, d, AnyKey) /\ In(m, f2, AnyModifier)
                 /\ Covers(NewGrab(g, r), k, m)
                      <=> In(k, Exactly(e), AnyKey) /\ In(m, f2, AnyModifier)
  BY <1>2, <1>8 DEF Covers
<1>13. /\ d2 \in Details(Keys, AnyKey) => WithoutKey(g, r) \in Grabs
       /\ f2 \in Details(Modifiers, AnyModifier) => WithoutModifiers(g, r) \in Grabs
       /\ WithoutKey(g, r).client = g.client /\ WithoutModifiers(g, r).client = g.client
       /\ NewGrab(g, r).client = g.client
  BY <1>1, <1>8 DEF Grabs
<1>14. f2 \in Details(Modifiers, AnyModifier) /\ e \in Keys => NewGrab(g, r) \in Grabs
  <2>1. e \in Keys => Exactly(e) \in Details(Keys, AnyKey)
    BY DEF Details, Exactly
  <2> QED
    BY <1>8, <2>1 DEF Grabs
<1>15. /\ e = AnyKey => d.exact = AnyKey \/ keyCovered
       /\ \A k \in Keys : e = AnyKey => In(k, Exactly(e), AnyKey)
       /\ \A m \in Modifiers : x = AnyModifier => In(m, Exactly(x), AnyModifier)
  BY <1>4 DEF In, Exactly
<1> HIDE DEF keyCovered, keyMet, modCovered, modMet, d2, f2
<1>16. CASE d.exact = AnyKey /\ f.exact # AnyModifier
  BY <1>2, <1>3, <1>4, <1>5, <1>6, <1>9, <1>10, <1>11, <1>12, <1>13, <1>16
<1>17. CASE f.exact = AnyModifier /\ d.exact # AnyKey
  <2>1. Updated(g, r) = WithoutModifiers(g, r) /\ ~IsSplit(g, r)
    BY <1>9, <1>10, <1>11, <1>17
  <2>2. keyCovered /\ ~modCovered /\ x \in Modifiers
    BY <1>3, <1>4, <1>5, <1>17
  <2>3. WithoutModifiers(g, r) \in Grabs /\ WithoutModifiers(g, r).client = g.client
    BY <1>7, <1>13, <1>17, <2>2
  <2>4. \A k \in Keys, m \in Modifiers :
          Covers(WithoutModifiers(g, r), k, m) <=> Covers(g, k, m) /\ ~Covers(r, k, m)
    BY <1>4, <1>7, <1>12, <1>17, <2>2
  <2> QED
    BY <2>1, <2>3, <2>4
<1>18. CASE d.exact = AnyKey /\ f.exact = AnyModifier
  <2>1. CASE e = AnyKey
    <3>1. Updated(g, r) = WithoutModifiers(g, r) /\ ~IsSplit(g, r)
      BY <1>9, <1>10, <1>11, <1>18, <2>1
    <3>2. keyCovered /\ ~modCovered /\ x \in Modifiers
      BY <1>3, <1>4, <1>5, <2>1
    <3>3. WithoutModifiers(g, r) \in Grabs /\ WithoutModifiers(g, r).client = g.client
      BY <1>7, <1>13, <1>18, <3>2
    <3>4. \A k \in Keys, m \in Modifiers :
            Covers(WithoutModifiers(g, r), k, m) <=> Covers(g, k, m) /\ ~Covers(r, k, m)
      BY <1>4, <1>7, <1>12, <1>18, <3>2
    <3> QED
      BY <3>1, <3>3, <3>4
  <2>2. CASE x = AnyModifier
    BY <1>2, <1>3, <1>4, <1>5, <1>6, <1>9, <1>10, <1>11, <1>12, <1>13, <1>15, <1>18, <2>2
  <2>3. CASE e # AnyKey /\ x # AnyModifier
    <3>1. e \in Keys /\ x \in Modifiers
      BY <1>2, <2>3
    <3>2. \A k \in Keys : In(k, Exactly(e), AnyKey) => In(k, d, AnyKey)
      <4>1. keyMet
        <5>1. ~keyCovered
          BY <1>18, <2>3 DEF keyCovered, DetailSupersedesSecond, IsInGrabMask,
                             IdenticalExactDetails, Exactly
        <5> QED
          BY <1>3, <5>1
      <4> QED
        BY <1>1, <1>18, <2>3, <4>1, AnyAssumption
           DEF keyMet, DetailSupersedesSecond, IsInGrabMask, IdenticalExactDetails, Exactly, In
    <3>3. Updated(g, r) = WithoutKey(g, r) /\ IsSplit(g, r)
      BY <1>9, <1>10, <1>11, <1>18, <2>3
    <3>4. /\ WithoutKey(g, r) \in Grabs /\ WithoutKey(g, r).client = g.client
          /\ NewGrab(g, r) \in Grabs /\ NewGrab(g, r).client = g.client
      BY <1>6, <1>7, <1>13, <1>14, <1>18, <3>1
    <3>5. \A k \in Keys, m \in Modifiers :
            (Covers(WithoutKey(g, r), k, m) \/ Covers(NewGrab(g, r), k, m))
              <=> Covers(g, k, m) /\ ~Covers(r, k, m)
      BY <1>6, <1>7, <1>12, <1>18, <3>1, <3>2
    <3> QED
      BY <3>3, <3>4, <3>5
  <2> QED
    BY <2>1, <2>2, <2>3
<1>19. CASE d.exact # AnyKey /\ f.exact # AnyModifier
  BY <1>3, <1>4, <1>5, <1>19
<1> QED
  BY <1>16, <1>17, <1>18, <1>19

--------------------------------------------------------------------------------
(* The grabs of the list, whatever their order, and who has a combination.     *)
Members == {passiveGrabs[i] : i \in DOMAIN passiveGrabs}

Has(G, c, k, m) == \E g \in G : g.client = c /\ Covers(g, k, m)

(* No two clients have grabs of one combination.                               *)
OneClient(G) ==
  \A k \in Keys, m \in Modifiers, c, d \in Clients : Has(G, c, k, m) /\ Has(G, d, k, m) => c = d

IInv == TypeOK /\ OneClient(Members)

Goes(g, r) == Concerned(g, r) /\ GrabSupersedesSecond(r, g)

(* H is what becomes of the grabs G when a client releases what r covers.      *)
Ungrabbed(G, H, r) ==
  /\ \A h \in H : \E g \in G : \/ ~Goes(g, r) /\ h = Updated(g, r)
                               \/ IsSplit(g, r) /\ h = NewGrab(g, r)
  /\ \A g \in G : /\ ~Goes(g, r) => Updated(g, r) \in H
                  /\ IsSplit(g, r) => NewGrab(g, r) \in H

(* The client then has what it had but for what the request covers; the others *)
(* have what they had.                                                         *)
LEMMA UngrabTakesWhatIsNamed ==
  ASSUME NEW G \in SUBSET Grabs, NEW H, NEW r \in Requests, Ungrabbed(G, H, r)
  PROVE  /\ H \in SUBSET Grabs
         /\ \A c \in Clients, k \in Keys, m \in Modifiers :
              Has(H, c, k, m) <=> Has(G, c, k, m) /\ ~(c = r.client /\ Covers(r, k, m))
<1>1. ASSUME NEW g \in G, ~Goes(g, r)
      PROVE  /\ Updated(g, r) \in Grabs /\ Updated(g, r).client = g.client
             /\ IsSplit(g, r) => NewGrab(g, r) \in Grabs /\ NewGrab(g, r).client = g.client
             /\ \A k \in Keys, m \in Modifiers :
                  (Covers(Updated(g, r), k, m) \/ (IsSplit(g, r) /\ Covers(NewGrab(g, r), k, m)))
                    <=> Covers(g, k, m) /\ ~(g.client = r.client /\ Covers(r, k, m))
  <2>1. CASE Concerned(g, r)
    <3>1. ~GrabSupersedesSecond(r, g)
      BY <1>1, <2>1 DEF Goes
    <3>2. g.client = r.client
      BY <2>1 DEF Concerned
    <3> QED
      BY <2>1, <3>1, <3>2, Narrowed
  <2>2. CASE ~Concerned(g, r)
    <3>1. Updated(g, r) = g /\ ~IsSplit(g, r)
      BY <2>2 DEF Updated, IsSplit
    <3>2. \A k \in Keys, m \in Modifiers :
            Covers(g, k, m) => ~(g.client = r.client /\ Covers(r, k, m))
      BY <2>2, RequestMatches DEF Concerned
    <3> QED
      BY <3>1, <3>2
  <2> QED
    BY <2>1, <2>2
<1>2. \A g \in G : IsSplit(g, r) => ~Goes(g, r)
  BY DEF IsSplit, Goes
<1>3. H \in SUBSET Grabs
  BY <1>1, <1>2 DEF Ungrabbed
<1>4. ASSUME NEW c \in Clients, NEW k \in Keys, NEW m \in Modifiers, Has(H, c, k, m)
      PROVE  Has(G, c, k, m) /\ ~(c = r.client /\ Covers(r, k, m))
  <2>1. PICK h \in H : h.client = c /\ Covers(h, k, m)
    BY <1>4 DEF Has
  <2>2. PICK g \in G : \/ ~Goes(g, r) /\ h = Updated(g, r)
                       \/ IsSplit(g, r) /\ h = NewGrab(g, r)
    BY DEF Ungrabbed
  <2>3. ~Goes(g, r)
    BY <1>2, <2>2
  <2>4. g.client = c /\ Covers(g, k, m) /\ ~(g.client = r.client /\ Covers(r, k, m))
    <3>1. CASE h = Updated(g, r)
      BY <1>1, <2>1, <2>3, <3>1
    <3>2. CASE IsSplit(g, r) /\ h = NewGrab(g, r)
      BY <1>1, <2>1, <2>3, <3>2
    <3> QED
      BY <2>2, <3>1, <3>2
  <2> QED
    BY <2>4 DEF Has
<1>5. ASSUME NEW c \in Clients, NEW k \in Keys, NEW m \in Modifiers,
             Has(G, c, k, m), ~(c = r.client /\ Covers(r, k, m))
      PROVE  Has(H, c, k, m)
  <2>1. PICK g \in G : g.client = c /\ Covers(g, k, m)
    BY <1>5 DEF Has
  <2>2. ~Goes(g, r)
    <3>1. g \in Grabs
      OBVIOUS
    <3>2. SUFFICES ASSUME Goes(g, r) PROVE FALSE
      OBVIOUS
    <3>3. Covers(r, k, m) /\ g.client = r.client
      BY <2>1, <3>1, <3>2, Superseded DEF Goes, Concerned
    <3> QED
      BY <1>5, <2>1, <3>3
  <2>3. \/ Covers(Updated(g, r), k, m)
        \/ IsSplit(g, r) /\ Covers(NewGrab(g, r), k, m)
    BY <1>1, <1>5, <2>1, <2>2
  <2>4. Updated(g, r) \in H /\ (IsSplit(g, r) => NewGrab(g, r) \in H)
    BY <2>2 DEF Ungrabbed
  <2>5. Updated(g, r).client = c /\ (IsSplit(g, r) => NewGrab(g, r).client = c)
    BY <1>1, <2>1, <2>2
  <2> QED
    BY <2>3, <2>4, <2>5 DEF Has
<1> QED
  BY <1>3, <1>4, <1>5

--------------------------------------------------------------------------------
(* The grab that a press finds is of the client that has the combination.      *)
LEMMA OwnerHas ==
  ASSUME IInv, NEW k \in Keys, NEW m \in Modifiers
  PROVE  /\ Owner[<<k, m>>] \in Clients \cup {NoClient}
         /\ \A c \in Clients : Owner[<<k, m>>] = c <=> Has(Members, c, k, m)
<1> DEFINE found == Matching(k, m)
<1>1. passiveGrabs \in Seq(Grabs)
  BY DEF IInv, TypeOK
<1>2. DOMAIN passiveGrabs = 1 .. Len(passiveGrabs) /\ Len(passiveGrabs) \in Nat
  BY <1>1
<1>3. \A i \in DOMAIN passiveGrabs : passiveGrabs[i] \in Grabs
  BY <1>1
<1>4. found = {i \in DOMAIN passiveGrabs : Covers(passiveGrabs[i], k, m)}
  BY <1>3, PressMatches DEF Matching
<1>5. Owner[<<k, m>>] = IF found = {} THEN NoClient ELSE passiveGrabs[First(found)].client
  BY DEF Owner
<1>6. \A c : Has(Members, c, k, m) <=> \E i \in found : passiveGrabs[i].client = c
  BY <1>4 DEF Has, Members
<1>7. \A i \in found : passiveGrabs[i].client \in Clients
  BY <1>3, <1>4 DEF Grabs
<1>8. CASE found = {}
  BY <1>5, <1>6, <1>8, ClientsAssumption
<1>9. CASE found # {}
  <2>1. First(found) \in found
    <3>1. found \in SUBSET (1 .. Len(passiveGrabs))
      BY <1>2, <1>4
    <3> HIDE DEF found
    <3> QED
      BY <1>2, <1>9, <3>1, FirstIsFound
  <2> DEFINE o == passiveGrabs[First(found)].client
  <2>2. o \in Clients /\ Has(Members, o, k, m)
    BY <1>6, <1>7, <2>1
  <2>3. Owner[<<k, m>>] = o
    BY <1>5, <1>9
  <2>4. \A c, d \in Clients : Has(Members, c, k, m) /\ Has(Members, d, k, m) => c = d
    BY DEF IInv, OneClient
  <2> HIDE DEF o
  <2> QED
    BY <2>2, <2>3, <2>4
<1> QED
  BY <1>8, <1>9

--------------------------------------------------------------------------------
(* What each action does to the members of the list.                           *)

LEMMA ListFacts ==
  ASSUME TypeOK
  PROVE  /\ Len(passiveGrabs) \in Nat
         /\ DOMAIN passiveGrabs = 1 .. Len(passiveGrabs)
         /\ passiveGrabs \in [1 .. Len(passiveGrabs) -> Grabs]
         /\ Members \in SUBSET Grabs
BY DEF TypeOK, Members

LEMMA Asked ==
  ASSUME NEW c \in Clients, NEW key \in AnyOrKeys, NEW mods \in AnyOrModifiers
  PROVE  /\ CreateGrab(c, Exactly(key), Exactly(mods), {}) \in Requests
         /\ \A mode \in Modes : /\ CreateGrab(c, Exactly(key), Exactly(mods), mode) \in Requests
                               /\ CreateGrab(c, Exactly(key), Exactly(mods), mode) \in Grabs
         /\ \A mode : CreateGrab(c, Exactly(key), Exactly(mods), mode).client = c
         /\ \A mode : \A k \in Keys, m \in Modifiers :
              Covers(CreateGrab(c, Exactly(key), Exactly(mods), mode), k, m)
                <=> <<k, m>> \in Table!Named(key, mods)
<1>1. Exactly(key) \in Details(Keys, AnyKey) /\ Exactly(mods) \in Details(Modifiers, AnyModifier)
  BY DEF Exactly, Details, AnyOrKeys, AnyOrModifiers
<1>2. \A k \in Keys : In(k, Exactly(key), AnyKey) <=> k \in (IF key = AnyKey THEN Keys ELSE {key})
  BY DEF In, Exactly
<1>3. \A m \in Modifiers : In(m, Exactly(mods), AnyModifier)
                              <=> m \in (IF mods = AnyModifier THEN Modifiers ELSE {mods})
  BY DEF In, Exactly
<1>4. \A mode : \A k \in Keys, m \in Modifiers :
        Covers(CreateGrab(c, Exactly(key), Exactly(mods), mode), k, m)
          <=> In(k, Exactly(key), AnyKey) /\ In(m, Exactly(mods), AnyModifier)
  BY DEF Covers, CreateGrab
<1>5. \A mode : \A k \in Keys, m \in Modifiers :
        Covers(CreateGrab(c, Exactly(key), Exactly(mods), mode), k, m)
          <=> <<k, m>> \in Table!Named(key, mods)
  BY <1>2, <1>3, <1>4 DEF Table!Named
<1> QED
  BY <1>1, <1>5 DEF CreateGrab, Requests, Grabs

LEMMA ConcatMembers ==
  ASSUME NEW S, NEW s \in Seq(S), NEW t \in Seq(S)
  PROVE  /\ s \o t \in Seq(S)
         /\ \A x : IsIn(x, s \o t) <=> IsIn(x, s) \/ IsIn(x, t)
<1> DEFINE u == s \o t
<1>1. /\ u \in Seq(S) /\ Len(u) = Len(s) + Len(t) /\ Len(s) \in Nat /\ Len(t) \in Nat
      /\ DOMAIN s = 1 .. Len(s) /\ DOMAIN t = 1 .. Len(t) /\ DOMAIN u = 1 .. Len(s) + Len(t)
  OBVIOUS
<1>2. /\ \A i \in 1 .. Len(s) : u[i] = s[i]
      /\ \A i \in 1 .. Len(t) : u[Len(s) + i] = t[i]
  OBVIOUS
<1> HIDE DEF u
<1>3. \A i \in DOMAIN s : i \in DOMAIN u
  BY <1>1
<1>4. \A i \in DOMAIN t : Len(s) + i \in DOMAIN u
  BY <1>1
<1>5. \A i \in DOMAIN u : i \in DOMAIN s \/ (i - Len(s) \in DOMAIN t /\ u[i] = t[i - Len(s)])
  <2> SUFFICES ASSUME NEW i \in DOMAIN u, i \notin DOMAIN s
               PROVE  i - Len(s) \in DOMAIN t /\ u[i] = t[i - Len(s)]
    OBVIOUS
  <2>1. i - Len(s) \in 1 .. Len(t) /\ Len(s) + (i - Len(s)) = i
    BY <1>1
  <2>2. u[Len(s) + (i - Len(s))] = t[i - Len(s)]
    BY <1>2, <2>1
  <2> QED
    BY <1>1, <2>1, <2>2
<1>6. \A x : IsIn(x, u) <=> IsIn(x, s) \/ IsIn(x, t)
  BY <1>1, <1>2, <1>3, <1>4, <1>5 DEF IsIn
<1> QED
  BY <1>1, <1>6 DEF u

LEMMA AddStep ==
  ASSUME TypeOK, NEW g \in Grabs, AddPassiveGrabToList(g)
  PROVE  \/ UNCHANGED passiveGrabs
         \/ TypeOK' /\ ~ConflictsWith(g) /\ Members' = Members \cup {g}
<1> DEFINE one == <<g>>
           longer == one \o passiveGrabs
<1>1. /\ longer \in Seq(Grabs)
      /\ Tail(longer) = passiveGrabs
  BY DEF TypeOK
<1>2. one \in Seq(Grabs) /\ passiveGrabs \in Seq(Grabs)
  BY DEF TypeOK
<1>3. \A x : IsIn(x, longer) <=> x = g \/ IsIn(x, passiveGrabs)
  <2>1. DOMAIN one = {1} /\ one[1] = g
    OBVIOUS
  <2>2. \A x : IsIn(x, one) <=> x = g
    BY <2>1 DEF IsIn
  <2> HIDE DEF one
  <2> QED
    BY <1>2, <2>2, ConcatMembers
<1>4. CASE ~ConflictsWith(g) /\ passiveGrabs' = longer
  <2>1. TypeOK'
    BY <1>1, <1>4 DEF TypeOK
  <2> HIDE DEF longer
  <2>2. Members' = {longer[i] : i \in DOMAIN longer}
    BY <1>4 DEF Members
  <2>3. Members' = Members \cup {g}
    BY <1>3, <2>2 DEF Members, IsIn
  <2> QED
    BY <1>4, <2>1, <2>3
<1>5. CASE passiveGrabs' = Tail(longer)
  BY <1>1, <1>5
<1> QED
  BY <1>4, <1>5 DEF AddPassiveGrabToList

(* The grabs at some places are unlinked, the others stay.                     *)
LEMMA DeleteStep ==
  ASSUME TypeOK, NEW gone, passiveGrabs' = DeletePassiveGrabs(gone)
  PROVE  /\ TypeOK'
         /\ Members' = {passiveGrabs[i] : i \in DOMAIN passiveGrabs \ gone}
<1> DEFINE kept == DOMAIN passiveGrabs \ gone
           L == Len(passiveGrabs)
<1>1. L \in Nat /\ kept \in SUBSET (1 .. L) /\ passiveGrabs \in [1 .. L -> Grabs]
  BY ListFacts
<1>2. passiveGrabs' = Sublist(passiveGrabs, kept)
  BY DEF DeletePassiveGrabs
<1>3. \A i \in kept : passiveGrabs[i] \in Grabs
  BY <1>1
<1> HIDE DEF kept, L
<1>4. /\ Sublist(passiveGrabs, kept) \in Seq(Grabs)
      /\ \A x : IsIn(x, Sublist(passiveGrabs, kept)) <=> IsAt(x, passiveGrabs, kept)
  BY <1>1, <1>3, SublistElements
<1>5. TypeOK'
  BY <1>2, <1>4 DEF TypeOK
<1>6. Members' = {Sublist(passiveGrabs, kept)[n] : n \in DOMAIN Sublist(passiveGrabs, kept)}
  BY <1>2 DEF Members
<1>7. Members' = {passiveGrabs[i] : i \in kept}
  BY <1>4, <1>6 DEF IsIn, IsAt
<1> QED
  BY <1>5, <1>7 DEF kept

(* An UngrabKey that does not fail.                                            *)
LEMMA UngrabStep ==
  ASSUME TypeOK, NEW r \in Requests, DeletePassiveGrabFromList(r)
  PROVE  \/ UNCHANGED passiveGrabs
         \/ TypeOK' /\ Ungrabbed(Members, Members', r)
<1> DEFINE L == Len(passiveGrabs)
           D == DOMAIN passiveGrabs
           reversed == [i \in D |-> passiveGrabs[L + 1 - i]]
           split == {i \in D : IsSplit(reversed[i], r)}
           new == [i \in D |-> NewGrab(reversed[i], r)]
           kept == D \ Deleted(r)
           ups == Updates(r)
           left == Sublist(ups, kept)
           added == Sublist(new, split)
<1>1. L \in Nat /\ D = 1 .. L /\ passiveGrabs \in [1 .. L -> Grabs]
  BY ListFacts
<1>2. CASE passiveGrabs' = Added(r) \o left
  <2>1. Added(r) = added
    BY <1>1 DEF Added
  <2>2. \A i \in D : passiveGrabs[i] \in Grabs
    BY <1>1
  <2>3. \A i \in D : L + 1 - i \in D /\ L + 1 - (L + 1 - i) = i
    BY <1>1
  <2>4. \A i \in D : i \in Deleted(r) <=> Goes(passiveGrabs[i], r)
    BY DEF Deleted, Goes
  <2>5. \A g \in Grabs : ~Goes(g, r) => Updated(g, r) \in Grabs
    <3> SUFFICES ASSUME NEW g \in Grabs, ~Goes(g, r) PROVE Updated(g, r) \in Grabs
      OBVIOUS
    <3>1. CASE Concerned(g, r)
      BY <3>1, Narrowed DEF Goes
    <3>2. CASE ~Concerned(g, r)
      BY <3>2 DEF Updated
    <3> QED
      BY <3>1, <3>2
  <2>6. \A g \in Grabs : IsSplit(g, r) => NewGrab(g, r) \in Grabs
    BY Narrowed DEF IsSplit
  <2>7. \A i \in kept : ups[i] \in Grabs /\ ups[i] = Updated(passiveGrabs[i], r)
    BY <2>2, <2>4, <2>5 DEF Updates
  <2>8. \A i \in split : new[i] \in Grabs /\ new[i] = NewGrab(passiveGrabs[L + 1 - i], r)
    BY <2>2, <2>3, <2>6
  <2>10. kept \in SUBSET (1 .. L) /\ split \in SUBSET (1 .. L)
    BY <1>1
  <2>11. \A i \in D : i \in split <=> IsSplit(passiveGrabs[L + 1 - i], r)
    BY <2>3
  <2> HIDE DEF kept, split, new, L, reversed, D, ups
  <2>9. (\A i \in kept : ups[i] \in Grabs) /\ (\A i \in split : new[i] \in Grabs)
    BY <2>7, <2>8
  <2>12. left \in Seq(Grabs) /\ \A x : IsIn(x, left) <=> IsAt(x, ups, kept)
    BY <1>1, <2>9, <2>10, SublistElements
  <2>13. added \in Seq(Grabs) /\ \A x : IsIn(x, added) <=> IsAt(x, new, split)
    BY <1>1, <2>9, <2>10, SublistElements
  <2> HIDE DEF left, added
  <2>14. added \o left \in Seq(Grabs) /\ \A x : IsIn(x, added \o left) <=> IsIn(x, added) \/ IsIn(x, left)
    BY <2>12, <2>13, ConcatMembers
  <2>15. \A x : x \in Members' <=> IsAt(x, new, split) \/ IsAt(x, ups, kept)
    <3>1. \A x : x \in Members' <=> IsIn(x, added \o left)
      BY <1>2, <2>1 DEF Members, IsIn
    <3> QED
      BY <2>12, <2>13, <2>14, <3>1
  <2>16. TypeOK'
    BY <1>2, <2>1, <2>14 DEF TypeOK
  <2>17. \A i \in D : passiveGrabs[i] \in Members
    BY DEF Members, D
  <2>18. ASSUME NEW h \in Members'
         PROVE  \E g \in Members : (~Goes(g, r) /\ h = Updated(g, r))
                                    \/ (IsSplit(g, r) /\ h = NewGrab(g, r))
    <3>1. CASE IsAt(h, new, split)
      <4>1. PICK i \in split : h = new[i]
        BY <3>1 DEF IsAt
      <4>2. i \in D /\ L + 1 - i \in D
        BY <2>3, <4>1 DEF split
      <4> QED
        BY <2>8, <2>11, <2>17, <4>1, <4>2
    <3>2. CASE IsAt(h, ups, kept)
      <4>1. PICK i \in kept : h = ups[i]
        BY <3>2 DEF IsAt
      <4>2. i \in D /\ ~Goes(passiveGrabs[i], r)
        BY <2>4, <4>1 DEF kept
      <4> QED
        BY <2>7, <2>17, <4>1, <4>2
    <3> QED
      BY <2>15, <3>1, <3>2
  <2>19. ASSUME NEW g \in Members
         PROVE  /\ ~Goes(g, r) => Updated(g, r) \in Members'
                /\ IsSplit(g, r) => NewGrab(g, r) \in Members'
    <3>1. PICK i \in D : g = passiveGrabs[i]
      BY DEF Members, D
    <3>2. ASSUME ~Goes(g, r) PROVE Updated(g, r) \in Members'
      <4>1. i \in kept
        BY <2>4, <3>1, <3>2 DEF kept
      <4> QED
        BY <2>7, <2>15, <3>1, <4>1 DEF IsAt
    <3>3. ASSUME IsSplit(g, r) PROVE NewGrab(g, r) \in Members'
      <4> DEFINE j == L + 1 - i
      <4>1. j \in D /\ L + 1 - j = i
        BY <2>3
      <4> HIDE DEF j
      <4>2. j \in split
        BY <2>11, <3>1, <3>3, <4>1
      <4>3. new[j] = NewGrab(g, r)
        BY <2>8, <3>1, <4>1, <4>2
      <4> QED
        BY <2>15, <4>2, <4>3 DEF IsAt
    <3> QED
      BY <3>2, <3>3
  <2> QED
    BY <2>16, <2>18, <2>19 DEF Ungrabbed
<1>3. CASE \E n \in DOMAIN passiveGrabs : passiveGrabs' = BackedOut(r, n)
  BY <1>3 DEF BackedOut
<1> QED
  BY <1>2, <1>3 DEF DeletePassiveGrabFromList

--------------------------------------------------------------------------------
(* The owners, in terms of who has what.                                       *)
OwnersHave ==
  /\ Owner = [p \in Keys \X Modifiers |-> Owner[p]]
  /\ \A k \in Keys, m \in Modifiers :
       /\ Owner[<<k, m>>] \in Clients \cup {NoClient}
       /\ \A c \in Clients : Owner[<<k, m>>] = c <=> Has(Members, c, k, m)

LEMMA Owners == IInv => OwnersHave
BY OwnerHas DEF OwnersHave, Owner

LEMMA OwnersNext == IInv' => OwnersHave'
BY Owners, PTL

(* Two tables of owners are the same when everybody has the same in them.      *)
IsTable(s) ==
  /\ s = [p \in Keys \X Modifiers |-> s[p]]
  /\ \A k \in Keys, m \in Modifiers : s[<<k, m>>] \in Clients \cup {NoClient}

Alike(s, t) ==
  \A k \in Keys, m \in Modifiers, c \in Clients : s[<<k, m>>] = c <=> t[<<k, m>>] = c

LEMMA SameOwners ==
  ASSUME NEW s, NEW t, IsTable(s), IsTable(t), Alike(s, t)
  PROVE  s = t
<1>1. ASSUME NEW k \in Keys, NEW m \in Modifiers
      PROVE  s[<<k, m>>] = t[<<k, m>>]
  <2> DEFINE a == s[<<k, m>>]
             b == t[<<k, m>>]
  <2>1. /\ a \in Clients \cup {NoClient} /\ b \in Clients \cup {NoClient}
        /\ \A c \in Clients : a = c <=> b = c
    BY DEF IsTable, Alike
  <2> HIDE DEF a, b
  <2>2. a = b
    BY <2>1
  <2> QED
    BY <2>2 DEF a, b
<1>2. ASSUME NEW p \in Keys \X Modifiers
      PROVE  s[p] = t[p]
  <2>1. PICK k \in Keys, m \in Modifiers : p = <<k, m>>
    OBVIOUS
  <2> QED
    BY <1>1, <2>1
<1> QED
  BY <1>2 DEF IsTable

(* A GrabKey that changes the list gives its client all that it names, none of *)
(* which another client had.                                                   *)
LEMMA GrabStep ==
  ASSUME IInv, NEW c \in Clients, NEW key \in AnyOrKeys, NEW mods \in AnyOrModifiers,
         NEW mode \in Modes, GrabKey(c, key, mods, mode), ~UNCHANGED passiveGrabs
  PROVE  IInv' /\ Table!Grant(c, key, mods)
<1> DEFINE g == CreateGrab(c, Exactly(key), Exactly(mods), mode)
           named == Table!Named(key, mods)
<1>1. /\ g \in Requests /\ g \in Grabs /\ g.client = c
      /\ \A k \in Keys, m \in Modifiers : Covers(g, k, m) <=> <<k, m>> \in named
  <2>1. g \in Requests /\ g \in Grabs /\ g.client = c
    BY Asked
  <2>2. \A k \in Keys, m \in Modifiers : Covers(g, k, m) <=> <<k, m>> \in named
    BY Asked
  <2> QED
    BY <2>1, <2>2
<1> HIDE DEF g, named
<1>2. TypeOK' /\ ~ConflictsWith(g) /\ Members' = Members \cup {g}
  BY <1>1, AddStep DEF IInv, GrabKey, g
<1>3. \A k \in Keys, m \in Modifiers, d \in Clients :
        Has(Members', d, k, m) <=> Has(Members, d, k, m) \/ (d = c /\ <<k, m>> \in named)
  BY <1>1, <1>2 DEF Has
<1>4. \A k \in Keys, m \in Modifiers, d \in Clients :
        Has(Members, d, k, m) /\ <<k, m>> \in named => d = c
  <2> SUFFICES ASSUME NEW k \in Keys, NEW m \in Modifiers, NEW d \in Clients,
                      Has(Members, d, k, m), <<k, m>> \in named
               PROVE  d = c
    OBVIOUS
  <2>1. PICK i \in DOMAIN passiveGrabs : passiveGrabs[i].client = d /\ Covers(passiveGrabs[i], k, m)
    BY DEF Has, Members
  <2>2. passiveGrabs[i] \in Grabs
    BY ListFacts DEF IInv
  <2>3. GrabMatchesSecond(g, passiveGrabs[i])
    BY <1>1, <2>1, <2>2, RequestMatches
  <2> QED
    BY <1>1, <1>2, <2>1, <2>3 DEF ConflictsWith
<1>5. IInv'
  <2>1. OneClient(Members')
    <3> SUFFICES ASSUME NEW k \in Keys, NEW m \in Modifiers, NEW d \in Clients, NEW e \in Clients,
                        Has(Members', d, k, m), Has(Members', e, k, m)
                 PROVE  d = e
      BY DEF OneClient
    <3>1. Has(Members, d, k, m) /\ Has(Members, e, k, m) => d = e
      BY DEF OneClient, IInv
    <3>2. /\ Has(Members, d, k, m) \/ (d = c /\ <<k, m>> \in named)
          /\ Has(Members, e, k, m) \/ (e = c /\ <<k, m>> \in named)
      BY <1>3
    <3> QED
      BY <1>4, <3>1, <3>2
  <2> QED
    BY <1>2, <2>1 DEF IInv
<1>6. OwnersHave /\ OwnersHave'
  BY <1>5, Owners, OwnersNext
<1>7. Table!Grantable(Owner, c, key, mods)
  <2>1. \A k \in Keys, m \in Modifiers : <<k, m>> \in named => Owner[<<k, m>>] \in {NoClient, c}
    BY <1>4, <1>6 DEF OwnersHave
  <2>2. named \subseteq Keys \X Modifiers
    BY DEF named, Table!Named, AnyOrKeys, AnyOrModifiers
  <2>3. \A p \in named : Owner[p] \in {NoClient, c}
    BY <2>1, <2>2
  <2> QED
    BY <2>3 DEF named, Table!Grantable
<1>8. Owner' = Table!Granted(Owner, c, key, mods)
  <2> DEFINE t == [p \in Keys \X Modifiers |-> IF p \in named THEN c ELSE Owner[p]]
  <2>1. \A k \in Keys, m \in Modifiers :
          /\ t[<<k, m>>] = IF <<k, m>> \in named THEN c ELSE Owner[<<k, m>>]
          /\ t[<<k, m>>] \in Clients \cup {NoClient}
    BY <1>6 DEF OwnersHave
  <2>2. \A k \in Keys, m \in Modifiers :
          /\ Owner'[<<k, m>>] \in Clients \cup {NoClient}
          /\ \A d \in Clients : Owner'[<<k, m>>] = d <=> Has(Members', d, k, m)
    BY <1>6 DEF OwnersHave
  <2>3. Owner' = [p \in Keys \X Modifiers |-> Owner'[p]]
    BY <1>6 DEF OwnersHave
  <2>4. t = [p \in Keys \X Modifiers |-> t[p]]
    OBVIOUS
  <2> HIDE DEF t
  <2>5. \A k \in Keys, m \in Modifiers, d \in Clients : Owner'[<<k, m>>] = d <=> t[<<k, m>>] = d
    <3> SUFFICES ASSUME NEW k \in Keys, NEW m \in Modifiers, NEW d \in Clients
                 PROVE  Owner'[<<k, m>>] = d <=> t[<<k, m>>] = d
      OBVIOUS
    <3>1. Owner[<<k, m>>] = d <=> Has(Members, d, k, m)
      BY <1>6 DEF OwnersHave
    <3>2. Owner'[<<k, m>>] = d <=> Has(Members', d, k, m)
      BY <2>2
    <3>3. Has(Members', d, k, m) <=> Has(Members, d, k, m) \/ (d = c /\ <<k, m>> \in named)
      BY <1>3
    <3>4. Has(Members, d, k, m) /\ <<k, m>> \in named => d = c
      BY <1>4
    <3> QED
      BY <2>1, <3>1, <3>2, <3>3, <3>4
  <2>6. IsTable(Owner') /\ IsTable(t) /\ Alike(Owner', t)
    BY <2>1, <2>2, <2>3, <2>4, <2>5 DEF IsTable, Alike
  <2>7. Owner' = t
    BY <2>6, SameOwners
  <2> QED
    BY <2>7 DEF t, named, Table!Granted, Table!Combinations
<1> QED
  BY <1>5, <1>7, <1>8 DEF Table!Grant

(* Where a client only loses what is named, and the others lose nothing.       *)
LEMMA LossStep ==
  ASSUME IInv, TypeOK', NEW c \in Clients, NEW key, NEW mods,
         \A k \in Keys, m \in Modifiers, d \in Clients :
           Has(Members', d, k, m)
             <=> Has(Members, d, k, m) /\ ~(d = c /\ <<k, m>> \in Table!Named(key, mods))
  PROVE  IInv' /\ Table!Release(c, key, mods)
<1> DEFINE named == Table!Named(key, mods)
<1> HIDE DEF named
<1>1. \A k \in Keys, m \in Modifiers, d \in Clients :
        Has(Members', d, k, m) <=> Has(Members, d, k, m) /\ ~(d = c /\ <<k, m>> \in named)
  BY DEF named
<1>2. IInv'
  <2>1. OneClient(Members')
    BY <1>1 DEF OneClient, IInv
  <2> QED
    BY <2>1 DEF IInv
<1>3. OwnersHave /\ OwnersHave'
  BY <1>2, Owners, OwnersNext
<1> DEFINE t == [p \in Keys \X Modifiers |->
                  IF p \in named /\ Owner[p] = c THEN NoClient ELSE Owner[p]]
<1>4. \A k \in Keys, m \in Modifiers :
        /\ t[<<k, m>>] = IF <<k, m>> \in named /\ Owner[<<k, m>>] = c THEN NoClient
                         ELSE Owner[<<k, m>>]
        /\ t[<<k, m>>] \in Clients \cup {NoClient}
  BY <1>3 DEF OwnersHave
<1>5. t = [p \in Keys \X Modifiers |-> t[p]]
  OBVIOUS
<1> HIDE DEF t
<1>6. ASSUME NEW k \in Keys, NEW m \in Modifiers, NEW d \in Clients
      PROVE  Owner'[<<k, m>>] = d <=> t[<<k, m>>] = d
  <2>1. Owner[<<k, m>>] = d <=> Has(Members, d, k, m)
    BY <1>3 DEF OwnersHave
  <2>2. Owner'[<<k, m>>] = d <=> Has(Members', d, k, m)
    BY <1>3 DEF OwnersHave
  <2>3. Has(Members', d, k, m) <=> Has(Members, d, k, m) /\ ~(d = c /\ <<k, m>> \in named)
    BY <1>1
  <2> QED
    BY <1>4, <2>1, <2>2, <2>3, ClientsAssumption
<1>7. IsTable(Owner') /\ IsTable(t) /\ Alike(Owner', t)
  BY <1>3, <1>4, <1>5, <1>6 DEF IsTable, Alike, OwnersHave
<1>8. Owner' = t
  BY <1>7, SameOwners
<1> QED
  BY <1>2, <1>8 DEF t, named, Table!Release, Table!Released, Table!Combinations

(* An UngrabKey that changes the list takes what it names from its client.     *)
LEMMA UngrabKeyStep ==
  ASSUME IInv, NEW c \in Clients, NEW key \in AnyOrKeys, NEW mods \in AnyOrModifiers,
         UngrabKey(c, key, mods), ~UNCHANGED passiveGrabs
  PROVE  IInv' /\ Table!Release(c, key, mods)
<1> DEFINE r == CreateGrab(c, Exactly(key), Exactly(mods), {})
<1>1. r \in Requests /\ r.client = c
  BY Asked
<1>2. \A k \in Keys, m \in Modifiers : Covers(r, k, m) <=> <<k, m>> \in Table!Named(key, mods)
  BY Asked
<1> HIDE DEF r
<1>3. TypeOK' /\ Ungrabbed(Members, Members', r)
  BY <1>1, UngrabStep DEF IInv, UngrabKey, r
<1>4. Members \in SUBSET Grabs
  BY ListFacts DEF IInv
<1>5. \A d \in Clients, k \in Keys, m \in Modifiers :
        Has(Members', d, k, m) <=> Has(Members, d, k, m) /\ ~(d = r.client /\ Covers(r, k, m))
  BY <1>1, <1>3, <1>4, UngrabTakesWhatIsNamed
<1> QED
  BY <1>1, <1>2, <1>3, <1>5, LossStep

LEMMA NamedByAny ==
  \A k \in Keys, m \in Modifiers : <<k, m>> \in Table!Named(AnyKey, AnyModifier)
BY DEF Table!Named

(* A client that goes leaves no grab, and the others keep theirs.              *)
LEMMA GoneStep ==
  ASSUME IInv, NEW c \in Clients, FreeClientResources(c)
  PROVE  IInv' /\ Table!Release(c, AnyKey, AnyModifier)
<1> DEFINE gone == {i \in DOMAIN passiveGrabs : passiveGrabs[i].client = c}
<1>1. TypeOK' /\ Members' = {passiveGrabs[i] : i \in DOMAIN passiveGrabs \ gone}
  <2>1. passiveGrabs' = DeletePassiveGrabs(gone)
    BY DEF FreeClientResources
  <2> HIDE DEF gone
  <2> QED
    BY <2>1, DeleteStep DEF IInv
<1>2. Members' = {g \in Members : g.client # c}
  BY <1>1 DEF Members
<1>3. \A k \in Keys, m \in Modifiers, d \in Clients :
        Has(Members', d, k, m) <=> Has(Members, d, k, m) /\ d # c
  BY <1>2 DEF Has
<1> QED
  BY <1>1, <1>3, NamedByAny, LossStep

LEMMA WindowStep ==
  ASSUME IInv, DeleteWindowFromAnyEvents
  PROVE  IInv' /\ Table!Abandon
<1>1. TypeOK' /\ Members' = {passiveGrabs[i] : i \in DOMAIN passiveGrabs \ DOMAIN passiveGrabs}
  BY DeleteStep DEF IInv, DeleteWindowFromAnyEvents
<1>2. Members' = {}
  BY <1>1
<1>3. IInv'
  BY <1>1, <1>2 DEF IInv, OneClient, Has
<1>4. OwnersHave'
  BY <1>3, OwnersNext
<1>5. \A k \in Keys, m \in Modifiers : Owner'[<<k, m>>] = NoClient
  <2>1. \A k \in Keys, m \in Modifiers, d \in Clients : ~Has(Members', d, k, m)
    BY <1>2 DEF Has
  <2> QED
    BY <1>4, <2>1 DEF OwnersHave
<1>6. Owner' = [p \in Keys \X Modifiers |-> Owner'[p]]
  BY <1>4 DEF OwnersHave
<1>7. \A p \in Keys \X Modifiers : Owner'[p] = NoClient
  BY <1>5
<1> QED
  BY <1>3, <1>6, <1>7 DEF Table!Abandon, Table!Combinations

LEMMA StutterStep ==
  ASSUME IInv, UNCHANGED passiveGrabs
  PROVE  IInv' /\ Owner' = Owner
<1>1. IInv'
  BY DEF IInv, TypeOK, OneClient, Has, Members
<1>2. Owner' = Owner
  BY DEF Owner, Matching
<1> QED
  BY <1>1, <1>2

--------------------------------------------------------------------------------
LEMMA InitInvariant == Init => IInv
<1> SUFFICES ASSUME Init PROVE IInv
  OBVIOUS
<1>1. passiveGrabs = <<>>
  BY DEF Init
<1>2. TypeOK
  BY <1>1 DEF TypeOK
<1>3. Members = {}
  BY <1>1 DEF Members
<1> QED
  BY <1>2, <1>3 DEF IInv, OneClient, Has

LEMMA NextInvariant == IInv /\ [Next]_vars => IInv'
<1> SUFFICES ASSUME IInv, [Next]_vars PROVE IInv'
  OBVIOUS
<1>1. CASE UNCHANGED passiveGrabs
  BY <1>1, StutterStep
<1>2. ASSUME ~UNCHANGED passiveGrabs,
             NEW c \in Clients, NEW key \in AnyOrKeys, NEW mods \in AnyOrModifiers, NEW mode \in Modes,
             GrabKey(c, key, mods, mode)
      PROVE  IInv'
  BY <1>2, GrabStep
<1>3. ASSUME ~UNCHANGED passiveGrabs,
             NEW c \in Clients, NEW key \in AnyOrKeys, NEW mods \in AnyOrModifiers,
             UngrabKey(c, key, mods)
      PROVE  IInv'
  BY <1>3, UngrabKeyStep
<1>4. ASSUME NEW c \in Clients, FreeClientResources(c)
      PROVE  IInv'
  BY <1>4, GoneStep
<1>5. CASE DeleteWindowFromAnyEvents
  BY <1>5, WindowStep
<1> QED
  BY <1>1, <1>2, <1>3, <1>4, <1>5 DEF Next, vars

THEOREM Invariant == Spec => []IInv
<1> QED
  BY InitInvariant, NextInvariant, PTL DEF Spec

(* The masks of the list stay well formed (dix/grabs.c:347-402).               *)
THEOREM TypeCorrect == Spec => []TypeOK
<1>1. IInv => TypeOK
  BY DEF IInv
<1> QED
  BY <1>1, Invariant, PTL

(* No press of a key finds grabs of two clients, whatever was granted, narrowed*)
(* and split before (dix/grabs.c:285-294).                                     *)
THEOREM OneOwner == Spec => []Exclusive
<1>1. IInv => Exclusive
  <2> SUFFICES ASSUME IInv, NEW k \in Keys, NEW m \in Modifiers,
                      NEW i \in Matching(k, m), NEW j \in Matching(k, m)
               PROVE  passiveGrabs[i].client = passiveGrabs[j].client
    BY DEF Exclusive
  <2>1. /\ i \in DOMAIN passiveGrabs /\ j \in DOMAIN passiveGrabs
        /\ passiveGrabs[i] \in Grabs /\ passiveGrabs[j] \in Grabs
    BY ListFacts DEF IInv, Matching
  <2>2. Covers(passiveGrabs[i], k, m) /\ Covers(passiveGrabs[j], k, m)
    BY <2>1, PressMatches DEF Matching
  <2>3. /\ Has(Members, passiveGrabs[i].client, k, m)
        /\ Has(Members, passiveGrabs[j].client, k, m)
    BY <2>1, <2>2 DEF Has, Members
  <2>4. passiveGrabs[i].client \in Clients /\ passiveGrabs[j].client \in Clients
    BY <2>1 DEF Grabs
  <2> QED
    BY <2>3, <2>4 DEF IInv, OneClient
<1> QED
  BY <1>1, Invariant, PTL

(* A request acts on exactly the combinations it names and on no other         *)
(* client's, or on none (dix/grabs.c:274-307, 404-429).                        *)
THEOREM ActsExactly == Spec => ActsOnWhatIsNamed
<1> DEFINE Exact ==
      passiveGrabs' # passiveGrabs =>
        LET before == Owner  after == Owner'
        IN  \A c \in Clients, key \in AnyOrKeys, mods \in AnyOrModifiers :
              /\ (\E mode \in Modes : GrabKey(c, key, mods, mode))
                   => /\ Table!Grantable(before, c, key, mods)
                      /\ after = Table!Granted(before, c, key, mods)
              /\ UngrabKey(c, key, mods) => after = Table!Released(before, c, key, mods)
<1>1. IInv /\ [Next]_vars => [Exact]_vars
  <2> SUFFICES ASSUME IInv, passiveGrabs' # passiveGrabs,
                      NEW c \in Clients, NEW key \in AnyOrKeys, NEW mods \in AnyOrModifiers
               PROVE  /\ (\E mode \in Modes : GrabKey(c, key, mods, mode))
                           => /\ Table!Grantable(Owner, c, key, mods)
                              /\ Owner' = Table!Granted(Owner, c, key, mods)
                      /\ UngrabKey(c, key, mods) => Owner' = Table!Released(Owner, c, key, mods)
    BY DEF vars
  <2>1. ASSUME NEW mode \in Modes, GrabKey(c, key, mods, mode)
        PROVE  Table!Grantable(Owner, c, key, mods) /\ Owner' = Table!Granted(Owner, c, key, mods)
    BY <2>1, GrabStep DEF Table!Grant
  <2>2. ASSUME UngrabKey(c, key, mods)
        PROVE  Owner' = Table!Released(Owner, c, key, mods)
    BY <2>2, UngrabKeyStep DEF Table!Release
  <2> QED
    BY <2>1, <2>2
<1> QED
  BY <1>1, Invariant, PTL DEF Spec, ActsOnWhatIsNamed

(* The list implements the table of owners that the clients are promised.      *)
THEOREM ImplementsTable == Spec => Table!Spec
<1>1. Init => Table!Init
  <2> SUFFICES ASSUME Init PROVE Table!Init
    OBVIOUS
  <2>1. \A k, m : Matching(k, m) = {}
    BY DEF Init, Matching
  <2> QED
    BY <2>1 DEF Table!Init, Table!Combinations, Owner
<1>2. IInv /\ [Next]_vars => [Table!Next]_Owner
  <2> SUFFICES ASSUME IInv, Next, ~UNCHANGED passiveGrabs PROVE Table!Next
    BY StutterStep DEF vars
  <2>1. ASSUME NEW c \in Clients, NEW key \in AnyOrKeys, NEW mods \in AnyOrModifiers,
               NEW mode \in Modes, GrabKey(c, key, mods, mode)
        PROVE  Table!Next
    BY <2>1, GrabStep DEF Table!Next, AnyOrKeys, AnyOrModifiers
  <2>2. ASSUME NEW c \in Clients, NEW key \in AnyOrKeys, NEW mods \in AnyOrModifiers,
               UngrabKey(c, key, mods)
        PROVE  Table!Next
    BY <2>2, UngrabKeyStep DEF Table!Next, AnyOrKeys, AnyOrModifiers
  <2>3. ASSUME NEW c \in Clients, FreeClientResources(c)
        PROVE  Table!Next
    BY <2>3, GoneStep DEF Table!Next
  <2>4. ASSUME DeleteWindowFromAnyEvents
        PROVE  Table!Next
    BY <2>4, WindowStep DEF Table!Next
  <2> QED
    BY <2>1, <2>2, <2>3, <2>4 DEF Next
<1> QED
  BY <1>1, <1>2, Invariant, PTL DEF Spec, Table!Spec
================================================================================
