------------------------ MODULE ClientOutputProofs ------------------------
(* Proofs about ClientOutput, for every set of clients, messages, sizes of   *)
(* buffers and sockets, and alignment.                                       *)
EXTENDS ClientOutput, SequenceTheorems, TLAPS

-----------------------------------------------------------------------------
(* Padding.                                                                  *)

LEMMA PadsType == \A n \in Nat : Pads(n) \in Seq(Bytes) /\ Len(Pads(n)) = n
BY DEF Pads, Bytes

LEMMA PadLength == \A count \in Nat : padlength(count) \in Nat
BY OutputAssumption DEF padlength

LEMMA PaddedType ==
  ASSUME NEW extra \in Seq(Bytes)
  PROVE  /\ Padded(extra) \in Seq(Bytes)
         /\ Len(Padded(extra)) = Len(extra) + padlength(Len(extra))
<1> DEFINE pads == Pads(padlength(Len(extra)))
<1>1. pads \in Seq(Bytes) /\ Len(pads) = padlength(Len(extra))
  BY PadsType, PadLength
<1> HIDE DEF pads
<1>2. extra \o pads \in Seq(Bytes) /\ Len(extra \o pads) = Len(extra) + Len(pads)
  BY <1>1, ConcatProperties
<1> QED  BY <1>1, <1>2 DEF Padded, pads

LEMMA PaddedEmpty == Padded(<<>>) = <<>>
<1>1. padlength(0) = 0
  BY OutputAssumption DEF padlength
<1>2. Pads(0) = <<>>
  BY PadsType
<1> QED  BY <1>1, <1>2 DEF Padded

LEMMA MessageType == Messages \subseteq Seq(Bytes)
BY OutputAssumption, SeqMonotonic DEF Bytes

(* The elements of three sequences one after the other.                      *)
LEMMA ConcatThree ==
  ASSUME NEW S, NEW a \in Seq(S), NEW b \in Seq(S), NEW d \in Seq(S)
  PROVE  /\ a \o (b \o d) \in Seq(S) /\ (a \o b) \o d = a \o (b \o d)
         /\ Len(a \o (b \o d)) = Len(a) + Len(b) + Len(d)
         /\ \A i \in 1 .. Len(a) + Len(b) + Len(d) :
              (a \o (b \o d))[i] = IF i <= Len(a) THEN a[i]
                                   ELSE IF i <= Len(a) + Len(b) THEN b[i - Len(a)]
                                   ELSE d[i - Len(a) - Len(b)]
<1>1. /\ b \o d \in Seq(S) /\ Len(b \o d) = Len(b) + Len(d)
      /\ \A i \in 1 .. Len(b) + Len(d) :
           (b \o d)[i] = IF i <= Len(b) THEN b[i] ELSE d[i - Len(b)]
  BY ConcatProperties
<1>2. ASSUME NEW t \in Seq(S)
      PROVE  /\ a \o t \in Seq(S) /\ Len(a \o t) = Len(a) + Len(t)
             /\ \A i \in 1 .. Len(a) + Len(t) :
                  (a \o t)[i] = IF i <= Len(a) THEN a[i] ELSE t[i - Len(a)]
  BY ConcatProperties
<1>3. Len(a) \in Nat /\ Len(b) \in Nat /\ Len(d) \in Nat
  BY LenProperties
<1>4. (a \o b) \o d = a \o (b \o d)
  BY ConcatAssociative
<1>5. /\ a \o (b \o d) \in Seq(S) /\ Len(a \o (b \o d)) = Len(a) + Len(b \o d)
      /\ \A i \in 1 .. Len(a) + Len(b \o d) :
           (a \o (b \o d))[i] = IF i <= Len(a) THEN a[i] ELSE (b \o d)[i - Len(a)]
  BY <1>1, <1>2
<1> DEFINE bd == b \o d
           abd == a \o bd
<1>6. /\ Len(abd) = Len(a) + Len(b) + Len(d)
      /\ \A i \in 1 .. Len(a) + Len(b) + Len(d) :
           abd[i] = IF i <= Len(a) THEN a[i]
                    ELSE IF i <= Len(a) + Len(b) THEN b[i - Len(a)]
                    ELSE d[i - Len(a) - Len(b)]
  <2>1. /\ Len(bd) = Len(b) + Len(d)
        /\ \A i \in 1 .. Len(b) + Len(d) : bd[i] = IF i <= Len(b) THEN b[i] ELSE d[i - Len(b)]
    BY <1>1
  <2>2. /\ Len(abd) = Len(a) + Len(bd)
        /\ \A i \in 1 .. Len(a) + Len(bd) : abd[i] = IF i <= Len(a) THEN a[i] ELSE bd[i - Len(a)]
    BY <1>5
  <2> HIDE DEF abd, bd
  <2>3. Len(abd) = Len(a) + Len(b) + Len(d)
    BY <2>1, <2>2, <1>3
  <2>4. ASSUME NEW i \in 1 .. Len(a) + Len(b) + Len(d)
        PROVE  abd[i] = IF i <= Len(a) THEN a[i]
                        ELSE IF i <= Len(a) + Len(b) THEN b[i - Len(a)]
                        ELSE d[i - Len(a) - Len(b)]
    <3>1. CASE i <= Len(a)
      BY <2>1, <2>2, <1>3, <3>1
    <3>2. CASE i > Len(a)
      <4>1. i - Len(a) \in 1 .. Len(b) + Len(d)
        BY <3>2, <1>3
      <4>2. bd[i - Len(a)] = IF i - Len(a) <= Len(b) THEN b[i - Len(a)]
                             ELSE d[i - Len(a) - Len(b)]
        BY <4>1, <2>1, <1>3
      <4>3. abd[i] = bd[i - Len(a)]
        BY <2>1, <2>2, <1>3, <3>2
      <4> QED  BY <3>2, <4>2, <4>3, <1>3
    <3> QED  BY <3>1, <3>2, <1>3
  <2> QED  BY <2>3, <2>4
<1> QED  BY <1>4, <1>5, <1>6

LEMMA SuffixAt ==
  ASSUME NEW S, NEW t \in Seq(S), NEW w \in 0 .. Len(t)
  PROVE  /\ SubSeq(t, w + 1, Len(t)) \in Seq(S)
         /\ Len(SubSeq(t, w + 1, Len(t))) = Len(t) - w
         /\ \A i \in 1 .. Len(t) - w : SubSeq(t, w + 1, Len(t))[i] = t[w + i]
<1>1. Len(t) \in Nat
  BY LenProperties
<1>2. \A i \in w + 1 .. Len(t) : t[i] \in S
  BY <1>1, ElementOfSeq
<1>3. /\ SubSeq(t, w + 1, Len(t)) \in Seq(S)
      /\ Len(SubSeq(t, w + 1, Len(t))) = IF w + 1 <= Len(t) THEN Len(t) - (w + 1) + 1 ELSE 0
      /\ \A i \in 1 .. Len(t) - (w + 1) + 1 : SubSeq(t, w + 1, Len(t))[i] = t[w + 1 + i - 1]
  BY <1>1, <1>2, SubSeqProperties
<1> DEFINE u == SubSeq(t, w + 1, Len(t))
<1>4. /\ Len(u) = IF w + 1 <= Len(t) THEN Len(t) - (w + 1) + 1 ELSE 0
      /\ \A i \in 1 .. Len(t) - (w + 1) + 1 : u[i] = t[w + 1 + i - 1]
  BY <1>3
<1> HIDE DEF u
<1>5. Len(u) = Len(t) - w /\ \A i \in 1 .. Len(t) - w : u[i] = t[w + i]
  <2>1. Len(u) = Len(t) - w
    BY <1>1, <1>4
  <2>2. ASSUME NEW i \in 1 .. Len(t) - w
        PROVE  u[i] = t[w + i]
    <3>1. w + 1 + i - 1 = w + i /\ Len(t) - (w + 1) + 1 = Len(t) - w
      BY <1>1
    <3> QED  BY <3>1, <1>4
  <2> QED  BY <2>1, <2>2
<1> QED  BY <1>3, <1>5 DEF u

LEMMA Missing ==
  ASSUME NEW A \in Nat, NEW B \in Nat, NEW D \in Nat, NEW w \in 0 .. A + B + D,
         NEW F \in Nat, NEW G \in Nat, NEW used \in Nat,
         used = IF w < A THEN 0 ELSE w - A,
         F = IF w < A THEN A - w ELSE 0,
         G = IF used < B THEN B - used ELSE 0
  PROVE  ((A + B + D) - w) - (F + G) \in Nat
OBVIOUS

(* What is kept of a flush that was cut short is exactly what was not        *)
(* written (io.c:889-933).                                                   *)
LEMMA KeptIsRest ==
  ASSUME NEW buf \in Seq(Bytes), NEW extra \in Seq(Bytes),
         NEW written \in 0 .. Len(buf \o Padded(extra))
  PROVE  LET whole == buf \o Padded(extra)
         IN  Kept(buf, extra, written, Len(whole) - written)
               = SubSeq(whole, written + 1, Len(whole))
<1> DEFINE pads == Pads(padlength(Len(extra)))
           whole == buf \o (extra \o pads)
           front == IF written < Len(buf) THEN SubSeq(buf, written + 1, Len(buf)) ELSE <<>>
           used == IF written < Len(buf) THEN 0 ELSE written - Len(buf)
           back == SubSeq(extra, used + 1, Len(extra))
           missing == (Len(whole) - written) - Len(front \o back)
           fill == Pads(missing)
           kept == (front \o back) \o fill
<1>1. /\ pads \in Seq(Bytes) /\ \A i \in 1 .. Len(pads) : pads[i] = Pad
  <2>1. padlength(Len(extra)) \in Nat
    BY PadLength
  <2> HIDE DEF padlength
  <2> QED  BY <2>1, PadsType DEF Pads
<1>2. written \in 0 .. Len(whole) /\ kept = Kept(buf, extra, written, Len(whole) - written)
  BY DEF Padded, Kept
<1> HIDE DEF pads
<1>3. Len(buf) \in Nat /\ Len(extra) \in Nat /\ Len(pads) \in Nat
  BY <1>1, LenProperties
<1>4. /\ whole \in Seq(Bytes) /\ Len(whole) = Len(buf) + Len(extra) + Len(pads)
      /\ \A i \in 1 .. Len(buf) + Len(extra) + Len(pads) :
           whole[i] = IF i <= Len(buf) THEN buf[i]
                      ELSE IF i <= Len(buf) + Len(extra) THEN extra[i - Len(buf)]
                      ELSE pads[i - Len(buf) - Len(extra)]
  BY <1>1, ConcatThree
<1> HIDE DEF whole
<1>5. /\ front \in Seq(Bytes) /\ Len(front) = IF written < Len(buf) THEN Len(buf) - written ELSE 0
      /\ \A i \in 1 .. Len(front) : front[i] = buf[written + i]
  <2>1. CASE written < Len(buf)
    <3>1. written \in 0 .. Len(buf)
      BY <1>2, <1>3, <1>4, <2>1
    <3> QED  BY <2>1, <3>1, SuffixAt
  <2>2. CASE ~(written < Len(buf))
    BY <2>2
  <2> QED  BY <2>1, <2>2
<1>6. used \in Nat
  BY <1>2, <1>3, <1>4
<1> HIDE DEF front
<1>7. /\ back \in Seq(Bytes) /\ Len(back) = IF used < Len(extra) THEN Len(extra) - used ELSE 0
      /\ \A i \in 1 .. Len(back) : back[i] = extra[used + i]
  <2> HIDE DEF used
  <2>1. CASE used < Len(extra)
    <3>1. used \in 0 .. Len(extra)
      BY <2>1, <1>3, <1>6
    <3> QED  BY <2>1, <3>1, SuffixAt
  <2>2. CASE ~(used < Len(extra))
    <3>1. Len(extra) < used + 1 /\ used + 1 \in Int /\ Len(extra) \in Int
      BY <1>3, <1>6, <2>2
    <3>2. back = <<>>
      BY <3>1, SubSeqEmpty
    <3> HIDE DEF back
    <3> QED  BY <2>2, <3>2
  <2> QED  BY <2>1, <2>2
<1> HIDE DEF back
<1>8. Len(front \o back) = Len(front) + Len(back) /\ Len(front) \in Nat /\ Len(back) \in Nat
  BY <1>5, <1>7, ConcatProperties, LenProperties
<1> DEFINE A == Len(buf)  B == Len(extra)  D == Len(pads)  F == Len(front)  G == Len(back)
<1>9. /\ A \in Nat /\ B \in Nat /\ D \in Nat /\ F \in Nat /\ G \in Nat
      /\ written \in 0 .. A + B + D /\ Len(whole) = A + B + D
      /\ F = IF written < A THEN A - written ELSE 0
      /\ G = IF used < B THEN B - used ELSE 0
      /\ used = IF written < A THEN 0 ELSE written - A
  BY <1>2, <1>3, <1>4, <1>5, <1>7, <1>8
<1>10. missing = ((A + B + D) - written) - (F + G)
  BY <1>4, <1>8
<1> HIDE DEF missing, used, A, B, D, F, G
<1>11. missing \in Nat
  BY <1>6, <1>10, <1>9, Missing
<1>12. /\ fill \in Seq(Bytes) /\ Len(fill) = missing /\ \A i \in 1 .. Len(fill) : fill[i] = Pad
  BY <1>11, PadsType DEF Pads
<1> HIDE DEF fill
<1>13. \A i \in 1 .. A + B + D :
         whole[i] = IF i <= A THEN buf[i] ELSE IF i <= A + B THEN extra[i - A] ELSE Pad
  <2> TAKE i \in 1 .. A + B + D
  <2>1. whole[i] = IF i <= A THEN buf[i] ELSE IF i <= A + B THEN extra[i - A]
                   ELSE pads[i - A - B]
    BY <1>4 DEF A, B, D
  <2>2. CASE i > A + B
    <3>1. i - A - B \in 1 .. D
      BY <1>9, <2>2
    <3>2. pads[i - A - B] = Pad
      BY <1>1, <3>1 DEF D
    <3> QED  BY <1>9, <2>1, <2>2, <3>2
  <2> QED  BY <1>9, <2>1, <2>2
<1>14. /\ kept \in Seq(Bytes) /\ Len(kept) = F + G + missing
       /\ \A i \in 1 .. F + G + missing :
            kept[i] = IF i <= F THEN front[i] ELSE IF i <= F + G THEN back[i - F]
                      ELSE fill[i - F - G]
  <2> HIDE DEF kept
  <2>1. /\ front \o (back \o fill) \in Seq(Bytes)
        /\ (front \o back) \o fill = front \o (back \o fill)
        /\ Len(front \o (back \o fill)) = Len(front) + Len(back) + Len(fill)
        /\ \A i \in 1 .. Len(front) + Len(back) + Len(fill) :
             (front \o (back \o fill))[i] =
                IF i <= Len(front) THEN front[i]
                ELSE IF i <= Len(front) + Len(back) THEN back[i - Len(front)]
                ELSE fill[i - Len(front) - Len(back)]
    <3>1. front \in Seq(Bytes) /\ back \in Seq(Bytes) /\ fill \in Seq(Bytes)
      BY <1>5, <1>7, <1>12
    <3> QED  BY <3>1, ConcatThree, SMTT(60)
  <2>2. kept = front \o (back \o fill)
    BY <2>1 DEF kept
  <2> QED  BY <1>12, <2>1, <2>2 DEF F, G
<1> HIDE DEF kept
<1>15. F + G + missing = A + B + D - written /\ Len(kept) = Len(whole) - written
  BY <1>10, <1>11, <1>9, <1>14
<1> DEFINE rest == SubSeq(whole, written + 1, Len(whole))
<1>16. /\ rest \in Seq(Bytes) /\ Len(rest) = Len(whole) - written
       /\ \A i \in 1 .. Len(whole) - written : rest[i] = whole[written + i]
  BY <1>2, <1>4, SuffixAt
<1> HIDE DEF rest
<1>17. ASSUME NEW i \in 1 .. Len(kept)
       PROVE  kept[i] = rest[i]
  <2>1. /\ i \in 1 .. A + B + D - written /\ written + i \in 1 .. A + B + D
        /\ i \in 1 .. F + G + missing /\ i \in 1 .. Len(whole) - written
    <3>1. Len(kept) = A + B + D - written /\ Len(whole) = A + B + D
      BY <1>9, <1>14, <1>15
    <3>2. i \in 1 .. A + B + D - written
      BY <3>1
    <3> QED  BY <1>9, <1>15, <3>1, <3>2
  <2>2. PICK j \in 1 .. A + B + D : j = written + i
    BY <2>1
  <2>3. rest[i] = whole[j]
    BY <1>16, <2>1, <2>2
  <2>4. whole[j] = IF j <= A THEN buf[j] ELSE IF j <= A + B THEN extra[j - A] ELSE Pad
    BY <1>13
  <2>5. kept[i] = IF i <= F THEN front[i] ELSE IF i <= F + G THEN back[i - F]
                  ELSE fill[i - F - G]
    BY <1>14, <2>1
  <2>6. /\ i <= F <=> j <= A
        /\ i <= F + G <=> j <= A + B
        /\ i > F => used + (i - F) = j - A
    BY <1>6, <1>9, <2>1, <2>2
  <2>7. CASE i <= F
    <3>1. front[i] = buf[j]
      BY <1>5, <2>1, <2>2, <2>7 DEF F
    <3> QED  BY <2>4, <2>3, <2>5, <2>6, <2>7, <3>1
  <2>8. CASE i > F /\ i <= F + G
    <3>1. i - F \in 1 .. G
      BY <1>9, <2>1, <2>8
    <3>2. back[i - F] = extra[used + (i - F)]
      BY <1>7, <3>1 DEF G
    <3>3. ~(i <= F)
      BY <1>9, <2>8
    <3> QED  BY <2>4, <2>3, <2>5, <2>6, <2>8, <3>2, <3>3
  <2>9. CASE i > F + G
    <3>1. i - F - G \in 1 .. Len(fill) /\ ~(i <= F) /\ ~(i <= F + G)
      BY <1>11, <1>12, <1>9, <2>1, <2>9
    <3>2. fill[i - F - G] = Pad
      BY <1>12, <3>1
    <3> QED  BY <2>4, <2>3, <2>5, <2>6, <3>1, <3>2
  <2> QED  BY <1>9, <2>1, <2>7, <2>8, <2>9
<1>18. kept = rest
  BY <1>14, <1>15, <1>16, <1>17, SeqEqual
<1> QED  BY <1>2, <1>18 DEF rest, whole, pads, Padded
-----------------------------------------------------------------------------
(* What FlushClient does.                                                    *)

FitsIn(s) == \A c \in Clients : Len(s.buf[c]) <= s.size[c]
Told(s) == s.AnyClientsWriteBlocked <=> s.ClientsWriteBlocked # {}

(* All but the connection, the buffer and the blocking of c is as it was.    *)
OnlyChanges(s, t, c) ==
  /\ \A d \in Clients \ {c} : t.conn[d] = s.conn[d] /\ t.buf[d] = s.buf[d]
  /\ t.ClientsWriteBlocked \ {c} = s.ClientsWriteBlocked \ {c}
  /\ t.OutputPending \ {c} = s.OutputPending \ {c} /\ t.AllClients = s.AllClients

LEMMA FlushedDoes ==
  ASSUME NEW s \in Data, NEW c \in Clients, FitsIn(s), Told(s)
  PROVE  LET t == Flushed(s, c)
         IN  /\ t \in Data /\ FitsIn(t) /\ Told(t) /\ OnlyChanges(s, t, c)
             /\ t.conn = s.conn /\ t.buf[c] = <<>>
<1> DEFINE u == IF s.AnyClientsWriteBlocked THEN Unblocked(s, c) ELSE s
           t == Flushed(s, c)
<1>1. /\ u \in Data /\ Told(u) /\ u.conn = s.conn /\ u.buf = s.buf /\ u.size = s.size
      /\ u.ClientsWriteBlocked \ {c} = s.ClientsWriteBlocked \ {c}
      /\ u.OutputPending = s.OutputPending /\ u.AllClients = s.AllClients
  BY DEF Data, Unblocked, Told
<1>2. t = [u EXCEPT !.buf[c] = <<>>, !.size[c] = 0]
  BY DEF Flushed
<1> HIDE DEF u, t
<1>3. <<>> \in Seq(Bytes) /\ Len(<<>>) = 0 /\ 0 \in 0 .. MaxSize
  BY OutputAssumption
<1>4. t \in Data
  BY <1>1, <1>2, <1>3 DEF Data
<1>5. FitsIn(t)
  <2> SUFFICES ASSUME NEW d \in Clients  PROVE Len(t.buf[d]) <= t.size[d]
    BY DEF FitsIn
  <2>1. CASE d = c
    <3>1. t.buf[d] = <<>> /\ t.size[d] = 0
      BY <1>1, <1>2, <2>1 DEF Data
    <3> QED  BY <1>3, <3>1
  <2>2. CASE d # c
    <3>1. t.buf[d] = s.buf[d] /\ t.size[d] = s.size[d]
      BY <1>1, <1>2, <2>2 DEF Data
    <3> QED  BY <3>1 DEF FitsIn
  <2> QED  BY <2>1, <2>2
<1>6. Told(t) /\ OnlyChanges(s, t, c) /\ t.conn = s.conn /\ t.buf[c] = <<>>
  BY <1>1, <1>2 DEF Data, Told, OnlyChanges
<1> QED  BY <1>4, <1>5, <1>6 DEF t

LEMMA FailedDoes ==
  ASSUME NEW s \in Data, NEW c \in Clients, FitsIn(s), Told(s)
  PROVE  LET t == Failed(s, c)
         IN  /\ t \in Data /\ FitsIn(t) /\ Told(t) /\ OnlyChanges(s, t, c)
             /\ t.conn[c] = "closed" /\ t.buf[c] = <<>>
<1> DEFINE t == Failed(s, c)
<1>1. t = [s EXCEPT !.conn[c] = "closed", !.buf[c] = <<>>]
  BY DEF Failed
<1> HIDE DEF t
<1>2. <<>> \in Seq(Bytes) /\ Len(<<>>) = 0
  OBVIOUS
<1>3. t \in Data
  BY <1>1, <1>2 DEF Data
<1>4. FitsIn(t)
  <2> SUFFICES ASSUME NEW d \in Clients  PROVE Len(t.buf[d]) <= t.size[d]
    BY DEF FitsIn
  <2>1. s.size[d] \in Nat /\ t.size[d] = s.size[d]
    BY <1>1, OutputAssumption DEF Data
  <2>2. CASE d = c
    <3>1. t.buf[d] = <<>>
      BY <1>1, <2>2 DEF Data
    <3> QED  BY <1>2, <2>1, <3>1
  <2>3. CASE d # c
    <3>1. t.buf[d] = s.buf[d]
      BY <1>1, <2>3 DEF Data
    <3> QED  BY <2>1, <3>1 DEF FitsIn
  <2> QED  BY <2>2, <2>3
<1>5. Told(t) /\ OnlyChanges(s, t, c) /\ t.conn[c] = "closed" /\ t.buf[c] = <<>>
  BY <1>1 DEF Data, Told, OnlyChanges
<1> QED  BY <1>3, <1>4, <1>5 DEF t

LEMMA BlockedDoes ==
  ASSUME NEW s \in Data, NEW c \in Clients, FitsIn(s), Told(s),
         NEW extra \in Seq(Bytes), NEW memory \in BOOLEAN,
         NEW written \in 0 .. Len(s.buf[c] \o Padded(extra)) - 1
  PROVE  LET whole == s.buf[c] \o Padded(extra)
             t == Blocked(s, c, extra, written, Len(whole) - written, memory)
         IN  /\ t \in Data /\ FitsIn(t) /\ Told(t) /\ OnlyChanges(s, t, c)
             /\ \/ t.conn[c] = "closed" /\ t.buf[c] = <<>>
                \/ /\ t.conn = s.conn /\ c \in t.ClientsWriteBlocked
                   /\ t.buf[c] = SubSeq(whole, written + 1, Len(whole))
<1> DEFINE whole == s.buf[c] \o Padded(extra)
           notWritten == Len(whole) - written
           t == Blocked(s, c, extra, written, notWritten, memory)
           u == [s EXCEPT !.ClientsWriteBlocked = @ \cup {c}, !.AnyClientsWriteBlocked = TRUE]
           grows == notWritten > s.size[c]
           rest == SubSeq(whole, written + 1, Len(whole))
           size == IF grows THEN notWritten + BUFSIZE ELSE s.size[c]
<1>1. /\ u \in Data /\ FitsIn(u) /\ Told(u) /\ u.conn = s.conn /\ u.buf = s.buf
      /\ u.size = s.size /\ c \in u.ClientsWriteBlocked
      /\ u.ClientsWriteBlocked \ {c} = s.ClientsWriteBlocked \ {c}
      /\ u.OutputPending = s.OutputPending /\ u.AllClients = s.AllClients
  BY DEF Data, FitsIn, Told
<1>2. s.buf[c] \in Seq(Bytes) /\ whole \in Seq(Bytes) /\ Len(whole) \in Nat
  <2>1. s.buf[c] \in Seq(Bytes)
    BY DEF Data
  <2> QED  BY <2>1, PaddedType, ConcatProperties, LenProperties
<1>3. /\ written \in 0 .. Len(whole) /\ notWritten \in Nat \ {0}
  BY <1>2
<1>4. Kept(s.buf[c], extra, written, notWritten) = rest
  BY <1>2, <1>3, KeptIsRest
<1>5. rest \in Seq(Bytes) /\ Len(rest) = notWritten
  BY <1>2, <1>3, SuffixAt
<1>6. CASE grows /\ (~memory \/ notWritten + BUFSIZE > MaxSize)
  <2>1. t = Failed(u, c)
    BY <1>6 DEF Blocked
  <2> HIDE DEF t, u
  <2> QED  BY <1>1, <2>1, FailedDoes DEF OnlyChanges, t
<1>7. CASE ~(grows /\ (~memory \/ notWritten + BUFSIZE > MaxSize))
  <2>1. t = [u EXCEPT !.buf[c] = rest, !.size[c] = size]
    <3>1. t = [u EXCEPT !.buf[c] = Kept(@, extra, written, notWritten),
                        !.size[c] = IF grows THEN notWritten + BUFSIZE ELSE @]
      BY <1>7 DEF Blocked
    <3>2. u.buf[c] = s.buf[c] /\ u.size[c] = s.size[c]
      BY <1>1
    <3> HIDE DEF u, t, grows, notWritten, rest
    <3> QED  BY <1>4, <3>1, <3>2
  <2>2. size \in 0 .. MaxSize /\ notWritten <= size
    <3>1. s.size[c] \in 0 .. MaxSize
      BY DEF Data
    <3> HIDE DEF notWritten
    <3> QED  BY <1>3, <1>7, <3>1, OutputAssumption
  <2> HIDE DEF u, t, rest, size, notWritten, whole
  <2>3. t \in Data
    BY <1>1, <1>5, <2>1, <2>2 DEF Data
  <2>4. FitsIn(t)
    BY <1>1, <1>5, <2>1, <2>2 DEF Data, FitsIn
  <2>5. Told(t) /\ OnlyChanges(s, t, c)
    BY <1>1, <2>1 DEF Data, Told, OnlyChanges
  <2>6. t.conn = s.conn /\ c \in t.ClientsWriteBlocked /\ t.buf[c] = rest
    BY <1>1, <2>1 DEF Data
  <2> QED  BY <2>3, <2>4, <2>5, <2>6 DEF t, rest, notWritten, whole
<1> QED  BY <1>6, <1>7

(* One flush writes a beginning of what was to be written; the rest stays in *)
(* the buffer, or the connection is closed.                                  *)
Written(s, c, extra, r) ==
  LET whole == s.buf[c] \o Padded(extra)
  IN  /\ \E n \in 0 .. Len(whole) : r.sent = SubSeq(whole, 1, n)
      /\ s.conn[c] = "closed" => r.sent = <<>>
      /\ \/ r.os.conn = s.conn /\ (s.conn[c] = "open" => r.sent \o r.os.buf[c] = whole)
         \/ r.os.conn[c] = "closed" /\ r.os.buf[c] = <<>>

(* What holds of a call that writes to c; of its message and what was in the *)
(* buffer, nothing is left untracked.                                        *)
Served(s, c, extra, r) ==
  /\ r.os \in Data /\ FitsIn(r.os) /\ Told(r.os) /\ OnlyChanges(s, r.os, c)
  /\ r.os.buf[c] # <<>> => c \in r.os.OutputPending \cup r.os.ClientsWriteBlocked
  /\ r.sent \in Seq(Bytes) /\ Len(socket[c]) + Len(r.sent) <= SocketSize
  /\ Written(s, c, extra, r)

LEMMA FlushClientDoes ==
  ASSUME NEW s \in Data, NEW c \in Clients, FitsIn(s), Told(s), s.conn[c] # "none",
         NEW extra \in Seq(Bytes), NEW memory \in BOOLEAN, s.size[c] = 0 => extra = <<>>,
         socket \in [Clients -> Seq(Bytes)], Len(socket[c]) <= SocketSize
  PROVE  LET r == FlushClient(s, c, extra, memory)
         IN  /\ Served(s, c, extra, r)
             /\ r.os.buf[c] # <<>> => c \in r.os.ClientsWriteBlocked
<1> DEFINE whole == s.buf[c] \o Padded(extra)
           room == SocketSize - Len(socket[c])
           written == IF room < Len(whole) THEN room ELSE Len(whole)
           sent == SubSeq(whole, 1, written)
           r == FlushClient(s, c, extra, memory)
           Goal == /\ r.os \in Data /\ FitsIn(r.os) /\ Told(r.os) /\ OnlyChanges(s, r.os, c)
                   /\ r.os.buf[c] # <<>> => c \in r.os.ClientsWriteBlocked
                   /\ r.sent \in Seq(Bytes) /\ Len(socket[c]) + Len(r.sent) <= SocketSize
                   /\ Written(s, c, extra, r)
<1>1. SUFFICES Goal
  <2> HIDE DEF r
  <2> QED  BY DEF Served, r
<1>2. /\ s.buf[c] \in Seq(Bytes) /\ s.size[c] \in Nat /\ Len(s.buf[c]) \in Nat
      /\ Len(s.buf[c]) <= s.size[c] /\ s.conn[c] \in {"open", "closed"}
  BY OutputAssumption, LenProperties DEF Data, FitsIn
<1>3. whole \in Seq(Bytes) /\ Len(whole) \in Nat
  BY <1>2, PaddedType, ConcatProperties, LenProperties
<1>4. room \in Nat /\ Len(socket[c]) \in Nat
  BY OutputAssumption, LenProperties
<1>5. written \in 0 .. Len(whole) /\ Len(socket[c]) + written <= SocketSize
  BY <1>3, <1>4, OutputAssumption
<1>6. <<>> \in Seq(Bytes) /\ Len(<<>>) = 0
  OBVIOUS
<1>7. sent \in Seq(Bytes) /\ Len(sent) = written
  <2>1. \A i \in 1 .. written : whole[i] \in Bytes
    BY <1>3, <1>5, ElementOfSeq
  <2> HIDE DEF whole, written
  <2>2. written \in Int
    BY <1>5, <1>3
  <2> QED  BY <1>3, <1>5, <2>1, <2>2, SubSeqProperties
<1>8. <<>> = SubSeq(whole, 1, 0) /\ 0 \in 0 .. Len(whole)
  <2> HIDE DEF whole
  <2> QED  BY <1>3, SubSeqEmpty
<1>9. CASE s.size[c] = 0
  <2>1. r = Result(s, <<>>)
    BY <1>9 DEF FlushClient
  <2>2. s.buf[c] = <<>> /\ whole = <<>>
    <3>1. s.buf[c] = <<>>
      BY <1>2, <1>9, EmptySeq
    <3>2. <<>> \o <<>> = <<>>
      BY ConcatEmptySeq, <1>6
    <3> QED  BY <1>9, <3>1, <3>2, PaddedEmpty
  <2>3. <<>> \o <<>> = <<>>
    BY ConcatEmptySeq, <1>6
  <2> HIDE DEF r, whole, room, written, sent
  <2>4. Written(s, c, extra, r)
    BY <1>2, <1>8, <2>1, <2>2, <2>3 DEF Written, Result, whole
  <2> QED  BY <1>2, <1>4, <1>6, <2>1, <2>2, <2>4 DEF Result, OnlyChanges, r
<1>10. CASE s.size[c] > 0 /\ whole # <<>> /\ (s.conn[c] = "closed" \/ c \in dead)
  <2>1. r = Result(Failed(s, c), <<>>)
    BY <1>2, <1>10 DEF FlushClient
  <2> HIDE DEF r, whole, room, written, sent
  <2>2. Written(s, c, extra, r)
    BY <1>8, <2>1, FailedDoes DEF Written, Result, whole
  <2> QED  BY <1>2, <1>4, <1>6, <2>1, <2>2, FailedDoes DEF Result, r
<1>11. CASE /\ s.size[c] > 0 /\ whole # <<>> /\ s.conn[c] # "closed" /\ c \notin dead
            /\ written < Len(whole)
  <2> DEFINE t == Blocked(s, c, extra, written, Len(whole) - written, memory)
  <2>1. r = Result(t, sent)
    BY <1>2, <1>11 DEF FlushClient
  <2>2. /\ t \in Data /\ FitsIn(t) /\ Told(t) /\ OnlyChanges(s, t, c)
        /\ \/ t.conn[c] = "closed" /\ t.buf[c] = <<>>
           \/ /\ t.conn = s.conn /\ c \in t.ClientsWriteBlocked
              /\ t.buf[c] = SubSeq(whole, written + 1, Len(whole))
    <3>1. written \in 0 .. Len(whole) - 1
      BY <1>3, <1>5, <1>11
    <3>2. PICK w \in 0 .. Len(s.buf[c] \o Padded(extra)) - 1 : w = written
      BY <3>1
    <3>3. LET T == Blocked(s, c, extra, w, Len(whole) - w, memory)
          IN  /\ T \in Data /\ FitsIn(T) /\ Told(T) /\ OnlyChanges(s, T, c)
              /\ \/ T.conn[c] = "closed" /\ T.buf[c] = <<>>
                 \/ /\ T.conn = s.conn /\ c \in T.ClientsWriteBlocked
                    /\ T.buf[c] = SubSeq(whole, w + 1, Len(whole))
      BY BlockedDoes
    <3> HIDE DEF whole, written
    <3> QED  BY <3>2, <3>3
  <2>3. sent \o SubSeq(whole, written + 1, Len(whole)) = whole
    <3>1. SubSeq(whole, 1, Len(whole)) = whole
      BY <1>3, SubSeqFull
    <3>2. 1 \in 1 .. Len(whole) + 1 /\ written \in 1 - 1 .. Len(whole) /\ Len(whole) \in written .. Len(whole)
      BY <1>3, <1>5
    <3> HIDE DEF whole, written
    <3> QED  BY <1>3, <3>1, <3>2, ConcatAdjacentSubSeq
  <2> HIDE DEF r, t, whole, room
  <2>4. Written(s, c, extra, r)
    <3>1. sent = SubSeq(whole, 1, written)
      OBVIOUS
    <3> HIDE DEF sent, written
    <3> QED  BY <1>5, <1>11, <2>1, <2>2, <2>3, <3>1 DEF Written, Result, whole
  <2> HIDE DEF sent, written
  <2>5. r.os = t /\ r.sent = sent
    BY <2>1 DEF Result
  <2>6. r.os.buf[c] # <<>> => c \in r.os.ClientsWriteBlocked
    BY <2>2, <2>5
  <2>7. r.sent \in Seq(Bytes) /\ Len(socket[c]) + Len(r.sent) <= SocketSize
    BY <1>5, <1>7, <2>5
  <2> QED  BY <2>2, <2>4, <2>5, <2>6, <2>7 DEF r
<1>12. CASE /\ s.size[c] > 0
            /\ ~(whole # <<>> /\ (s.conn[c] = "closed" \/ c \in dead))
            /\ ~(whole # <<>> /\ s.conn[c] # "closed" /\ c \notin dead /\ written < Len(whole))
  <2>1. r = Result(Flushed(s, c), sent)
    BY <1>2, <1>12 DEF FlushClient
  <2>2. written = Len(whole)
    <3>1. CASE whole = <<>>
      BY <1>5, <1>6, <3>1
    <3>2. CASE whole # <<>>
      BY <1>3, <1>5, <1>12, <3>2
    <3> QED  BY <3>1, <3>2
  <2>3. sent = whole
    <3> HIDE DEF whole, written
    <3> QED  BY <1>3, <2>2, SubSeqFull
  <2>4. sent \o <<>> = whole
    <3> HIDE DEF whole, sent
    <3> QED  BY <1>3, <2>3, ConcatEmptySeq
  <2>5. sent = SubSeq(whole, 1, written) /\ (s.conn[c] = "closed" => sent = <<>>)
    BY <1>12, <2>3
  <2> HIDE DEF r, whole, room, written, sent
  <2>6. Written(s, c, extra, r)
    BY <1>5, <2>1, <2>4, <2>5, FlushedDoes DEF Written, Result, whole
  <2>7. r.os = Flushed(s, c) /\ r.sent = sent
    BY <2>1 DEF Result
  <2>8. /\ r.os \in Data /\ FitsIn(r.os) /\ Told(r.os) /\ OnlyChanges(s, r.os, c)
        /\ r.os.buf[c] = <<>>
    BY <2>7, FlushedDoes
  <2>9. r.sent \in Seq(Bytes) /\ Len(socket[c]) + Len(r.sent) <= SocketSize
    BY <1>5, <1>7, <2>7
  <2> QED  BY <2>6, <2>8, <2>9 DEF r
<1> QED  BY <1>2, <1>9, <1>10, <1>11, <1>12

LEMMA WriteToClientDoes ==
  ASSUME NEW s \in Data, NEW c \in Clients, FitsIn(s), Told(s), s.conn[c] # "none",
         NEW message \in Messages, NEW newSize \in NewSizes, NEW memory \in BOOLEAN,
         socket \in [Clients -> Seq(Bytes)], Len(socket[c]) <= SocketSize
  PROVE  Served(s, c, message, WriteToClient(s, c, message, newSize, memory))
<1> DEFINE t == [s EXCEPT !.size[c] = IF @ = 0 THEN newSize ELSE @]
           u == [t EXCEPT !.OutputPending = @ \ {c}, !.CriticalOutputPending = FALSE,
                          !.NewOutputPending = FALSE]
           whole == s.buf[c] \o Padded(message)
           r == WriteToClient(s, c, message, newSize, memory)
<1>1. /\ newSize \in 1 .. MaxSize /\ message \in Seq(Bytes)
      /\ s.size[c] \in 0 .. MaxSize /\ s.buf[c] \in Seq(Bytes) /\ s.conn[c] \in {"open", "closed"}
  BY OutputAssumption, MessageType DEF Data
<1>2. whole \in Seq(Bytes) /\ Len(whole) \in Nat
  BY <1>1, PaddedType, ConcatProperties, LenProperties
<1>3. <<>> = SubSeq(whole, 1, 0) /\ 0 \in 0 .. Len(whole) /\ <<>> \in Seq(Bytes) /\ Len(<<>>) = 0
  <2> HIDE DEF whole
  <2> QED  BY <1>2, SubSeqEmpty
<1>4. Len(socket[c]) \in Nat
  BY LenProperties
<1> DEFINE size == [s.size EXCEPT ![c] = IF s.size[c] = 0 THEN newSize ELSE s.size[c]]
<1>5. t = [s EXCEPT !.size = size] /\ size \in [Clients -> 0 .. MaxSize]
  <2>1. newSize \in 0 .. MaxSize
    BY <1>1, OutputAssumption
  <2> QED  BY <1>1, <2>1 DEF Data
<1>6. t \in Data /\ t.buf = s.buf /\ t.conn = s.conn /\ OnlyChanges(s, t, c) /\ Told(t)
  <2> HIDE DEF t, size
  <2> QED  BY <1>1, <1>5 DEF Data, OnlyChanges, Told
<1>7. FitsIn(t) /\ t.size[c] \in Nat \ {0}
  <2>1. t.size[c] \in Nat \ {0}
    BY <1>1, OutputAssumption DEF Data
  <2>2. ASSUME NEW d \in Clients  PROVE Len(t.buf[d]) <= t.size[d]
    <3>1. Len(s.buf[d]) <= s.size[d] /\ Len(s.buf[d]) \in Nat
      BY LenProperties DEF FitsIn, Data
    <3>2. CASE d = c /\ s.size[c] = 0
      BY <1>1, <1>6, <2>1, <3>1, <3>2
    <3>3. CASE ~(d = c /\ s.size[c] = 0)
      <4>1. t.size[d] = s.size[d]
        <5> HIDE DEF t
        <5> QED  BY <1>5, <3>3 DEF Data
      <4> QED  BY <1>6, <3>1, <4>1
    <3> QED  BY <3>2, <3>3
  <2> HIDE DEF t
  <2> QED  BY <2>1, <2>2 DEF FitsIn
<1>8. CASE s.size[c] = 0 /\ ~memory
  <2>1. r.os = Failed(s, c) /\ r.sent = <<>>
    BY <1>8 DEF WriteToClient, Result
  <2> HIDE DEF r, t, u
  <2>2. Written(s, c, message, r)
    <3> QED  BY <1>3, <2>1, FailedDoes DEF Written, whole
  <2> QED  BY <1>3, <1>4, <2>1, <2>2, FailedDoes DEF Served, r
<1>9. CASE (s.size[c] > 0 \/ memory) /\ Len(whole) <= t.size[c]
  <2> DEFINE v == PutIntoBuffer(t, c, message)
  <2>1. r.os = v /\ r.sent = <<>>
    BY <1>1, <1>9 DEF WriteToClient, Result
  <2>2. v = [t EXCEPT !.NewOutputPending = TRUE, !.OutputPending = @ \cup {c},
                      !.buf = [t.buf EXCEPT ![c] = whole]]
    BY <1>6 DEF PutIntoBuffer
  <2> HIDE DEF t, u, v, whole
  <2>3. v \in Data /\ v.conn = s.conn /\ v.buf[c] = whole /\ OnlyChanges(s, v, c) /\ Told(v)
    BY <1>2, <1>6, <2>2 DEF Data, OnlyChanges, Told
  <2>4. c \in v.OutputPending
    BY <1>6, <2>2 DEF Data
  <2>5. FitsIn(v)
    BY <1>6, <1>7, <1>9, <2>2 DEF Data, FitsIn
  <2>6. <<>> \o whole = whole
    BY <1>2, ConcatEmptySeq
  <2> HIDE DEF r
  <2>7. Written(s, c, message, r)
    BY <1>1, <1>3, <2>1, <2>3, <2>6 DEF Written, whole
  <2> QED  BY <1>3, <1>4, <2>1, <2>3, <2>4, <2>5, <2>7 DEF Served, r
<1>10. CASE (s.size[c] > 0 \/ memory) /\ ~(Len(whole) <= t.size[c])
  <2>1. r = FlushClient(u, c, message, memory)
    BY <1>1, <1>10 DEF WriteToClient
  <2>2. u \in Data /\ FitsIn(u) /\ Told(u) /\ u.conn = s.conn /\ u.buf = s.buf /\ OnlyChanges(s, u, c)
    <3>1. u = [t EXCEPT !.OutputPending = t.OutputPending \ {c}, !.CriticalOutputPending = FALSE,
                        !.NewOutputPending = FALSE]
      OBVIOUS
    <3> HIDE DEF t, u
    <3> QED  BY <1>6, <1>7, <3>1 DEF Data, FitsIn, Told, OnlyChanges
  <2>3. u.size[c] # 0
    BY <1>6, <1>7
  <2> HIDE DEF u, t, whole
  <2>4. Served(u, c, message, r)
    BY <1>1, <2>1, <2>2, <2>3, FlushClientDoes
  <2> HIDE DEF r
  <2>5. Written(s, c, message, r)
    BY <2>2, <2>4 DEF Served, Written
  <2>6. OnlyChanges(s, r.os, c)
    BY <2>2, <2>4 DEF Served, OnlyChanges
  <2> QED  BY <2>4, <2>5, <2>6 DEF Served, r
<1> HIDE DEF r
<1> QED  BY <1>1, <1>8, <1>9, <1>10 DEF r
-----------------------------------------------------------------------------
(* The invariant: it adds that nothing is left in the mask of a flush that   *)
(* has ended, and that the kernel keeps no more than it can.                 *)

TrackedIn(s, mask) ==
  /\ \A c \in Clients : s.buf[c] # <<>> =>
       c \in s.OutputPending \cup s.ClientsWriteBlocked \cup mask
  /\ Told(s)
  /\ \A c \in Clients : s.conn[c] = "none" =>
       c \notin s.AllClients \cup s.OutputPending \cup s.ClientsWriteBlocked \cup mask

Sound(s, mask) == s \in Data /\ FitsIn(s) /\ TrackedIn(s, mask)
LoopOK ==
  /\ loop \in [at : {"serve", "flush", "select"}, mask : SUBSET Clients,
               next : {"serve", "select"}]
  /\ loop.at # "flush" => loop.mask = {}
SocketOK ==
  /\ socket \in [Clients -> Seq(Bytes)] /\ \A c \in Clients : Len(socket[c]) <= SocketSize
IInv == Sound(os, loop.mask) /\ LoopOK /\ SocketOK /\ dead \in SUBSET Clients

LEMMA Implies == IInv => TypeOK /\ Fits /\ Tracked
BY DEF IInv, Sound, LoopOK, SocketOK, TypeOK, Fits, Tracked, FitsIn, TrackedIn, Told, Connected

(* A call that writes to c keeps it, and c is no longer in the mask.         *)
LEMMA ServedKeeps ==
  ASSUME IInv, NEW c \in Clients, Connected(os, c), NEW extra \in Seq(Bytes),
         NEW r, Served(os, c, extra, r)
  PROVE  /\ Sound(r.os, loop.mask \ {c}) /\ Sound(r.os, loop.mask)
         /\ r.os.conn[c] # "none"
         /\ Becomes(c, r) => SocketOK' /\ dead' \in SUBSET Clients
<1>1. r.os.conn[c] # "none"
  BY DEF Served, Written, Connected
<1>2. Sound(r.os, loop.mask \ {c}) /\ Sound(r.os, loop.mask)
  <2>1. \A d \in Clients : r.os.buf[d] # <<>> =>
          d \in r.os.OutputPending \cup r.os.ClientsWriteBlocked \cup (loop.mask \ {c})
    BY DEF IInv, Sound, TrackedIn, Served, OnlyChanges
  <2>2. \A d \in Clients : r.os.conn[d] = "none" =>
          d \notin r.os.AllClients \cup r.os.OutputPending \cup r.os.ClientsWriteBlocked \cup loop.mask
    BY <1>1 DEF IInv, Sound, TrackedIn, Served, OnlyChanges
  <2>3. r.os \in Data /\ FitsIn(r.os) /\ Told(r.os)
    BY DEF Served
  <2> QED  BY <2>1, <2>2, <2>3 DEF Sound, TrackedIn
<1>3. ASSUME Becomes(c, r)  PROVE SocketOK' /\ dead' \in SUBSET Clients
  <2>1. /\ socket[c] \in Seq(Bytes) /\ r.sent \in Seq(Bytes)
        /\ Len(socket[c]) + Len(r.sent) <= SocketSize
    BY DEF IInv, SocketOK, Served
  <2>2. socket[c] \o r.sent \in Seq(Bytes) /\ Len(socket[c] \o r.sent) = Len(socket[c]) + Len(r.sent)
    BY <2>1, ConcatProperties
  <2>3. socket' = [socket EXCEPT ![c] = socket[c] \o r.sent] /\ dead' = dead
    BY <1>3 DEF Becomes
  <2> QED  BY <2>1, <2>2, <2>3 DEF IInv, SocketOK
<1> QED  BY <1>1, <1>2, <1>3

LEMMA FlushNextServes ==
  ASSUME IInv, NEW c \in Clients, Connected(os, c), NEW memory \in BOOLEAN
  PROVE  Served(os, c, <<>>, FlushClient(os, c, <<>>, memory)) /\ <<>> \in Seq(Bytes)
<1>1. os \in Data /\ FitsIn(os) /\ Told(os) /\ os.conn[c] # "none"
  BY DEF IInv, Sound, TrackedIn, Connected
<1>2. socket \in [Clients -> Seq(Bytes)] /\ Len(socket[c]) <= SocketSize /\ <<>> \in Seq(Bytes)
  BY DEF IInv, SocketOK
<1> QED  BY <1>1, <1>2, FlushClientDoes

LEMMA WriteServes ==
  ASSUME IInv, NEW c \in Clients, Connected(os, c), NEW message \in Messages,
         NEW critical \in BOOLEAN, NEW newSize \in NewSizes, NEW memory \in BOOLEAN
  PROVE  LET s == [os EXCEPT !.CriticalOutputPending = @ \/ critical]
         IN  Served(os, c, message, WriteToClient(s, c, message, newSize, memory))
<1> DEFINE s == [os EXCEPT !.CriticalOutputPending = @ \/ critical]
           r == WriteToClient(s, c, message, newSize, memory)
<1>1. /\ s \in Data /\ s.conn = os.conn /\ s.buf = os.buf /\ s.size = os.size
      /\ s.AllClients = os.AllClients /\ s.OutputPending = os.OutputPending
      /\ s.ClientsWriteBlocked = os.ClientsWriteBlocked
      /\ s.AnyClientsWriteBlocked = os.AnyClientsWriteBlocked
  BY DEF IInv, Sound, Data
<1>2. FitsIn(s) /\ Told(s) /\ s.conn[c] # "none"
  BY <1>1 DEF IInv, Sound, TrackedIn, FitsIn, Told, Connected
<1> HIDE DEF s
<1>3. Served(s, c, message, r)
  BY <1>1, <1>2, WriteToClientDoes DEF IInv, SocketOK
<1> HIDE DEF r
<1>4. Served(os, c, message, r)
  BY <1>1, <1>3 DEF Served, OnlyChanges, Written
<1> QED  BY <1>4 DEF s, r

LEMMA CloseDownDoes ==
  ASSUME NEW s \in Data, NEW mask \in SUBSET Clients, Sound(s, mask),
         NEW S \in SUBSET Clients, mask \cap S = {}
  PROVE  LET t == CloseDownFileDescriptors(s, S)
         IN  /\ Sound(t, mask)
             /\ \A c \in Clients : c \notin S => t.conn[c] = s.conn[c] /\ t.buf[c] = s.buf[c]
             /\ \A c \in S : t.conn[c] = "none"
<1> DEFINE conn == [c \in Clients |-> IF c \in S THEN "none" ELSE s.conn[c]]
           buf == [c \in Clients |-> IF c \in S THEN <<>> ELSE s.buf[c]]
           size == [c \in Clients |-> IF c \in S THEN 0 ELSE s.size[c]]
           t == CloseDownFileDescriptors(s, S)
<1>1. t = [s EXCEPT !.conn = conn, !.buf = buf, !.size = size,
                    !.AllClients = @ \ S, !.OutputPending = @ \ S,
                    !.ClientsWriteBlocked = @ \ S,
                    !.AnyClientsWriteBlocked = @ /\ s.ClientsWriteBlocked \ S # {}]
  BY DEF CloseDownFileDescriptors
<1>2. /\ conn \in [Clients -> {"none", "open", "closed"}]
      /\ buf \in [Clients -> Seq(Bytes)] /\ size \in [Clients -> 0 .. MaxSize]
  BY OutputAssumption DEF Data
<1>3. \A c \in Clients : Len(buf[c]) <= size[c]
  <2> TAKE c \in Clients
  <2>1. CASE c \in S
    <3>1. buf[c] = <<>> /\ size[c] = 0 /\ Len(<<>>) = 0
      BY <2>1
    <3> QED  BY <3>1
  <2>2. CASE c \notin S
    <3>1. buf[c] = s.buf[c] /\ size[c] = s.size[c]
      BY <2>2
    <3> QED  BY <3>1 DEF Sound, FitsIn
  <2> QED  BY <2>1, <2>2
<1>4. /\ \A c \in Clients : c \notin S => conn[c] = s.conn[c] /\ buf[c] = s.buf[c]
      /\ \A c \in S : conn[c] = "none" /\ buf[c] = <<>>
  OBVIOUS
<1> HIDE DEF t, conn, buf, size
<1>5. t \in Data /\ FitsIn(t)
  BY <1>1, <1>2, <1>3 DEF Data, FitsIn
<1>6. /\ t.conn = conn /\ t.buf = buf /\ t.AllClients = s.AllClients \ S
      /\ t.OutputPending = s.OutputPending \ S
      /\ t.ClientsWriteBlocked = s.ClientsWriteBlocked \ S
      /\ t.AnyClientsWriteBlocked = (s.AnyClientsWriteBlocked /\ s.ClientsWriteBlocked \ S # {})
  BY <1>1 DEF Data
<1>7. TrackedIn(t, mask)
  <2>1. Told(t)
    BY <1>6 DEF Sound, TrackedIn, Told
  <2>2. \A c \in Clients : t.buf[c] # <<>> =>
          c \in t.OutputPending \cup t.ClientsWriteBlocked \cup mask
    BY <1>4, <1>6 DEF Sound, TrackedIn
  <2>3. \A c \in Clients : t.conn[c] = "none" =>
          c \notin t.AllClients \cup t.OutputPending \cup t.ClientsWriteBlocked \cup mask
    BY <1>4, <1>6 DEF Sound, TrackedIn
  <2> QED  BY <2>1, <2>2, <2>3 DEF TrackedIn
<1> QED  BY <1>4, <1>5, <1>6, <1>7 DEF Sound, t

(* FlushAllOutput moves the clients with output into the mask.               *)
LEMMA FlushAllKeeps ==
  ASSUME NEW s, Sound(s, {}), NEW next \in {"serve", "select"}, FlushAllOutput(s, next),
         IInv, KernelUnchanged
  PROVE  IInv' /\ os'.conn = s.conn /\ os'.buf = s.buf
<1>1. SocketOK' /\ dead' \in SUBSET Clients
  BY DEF IInv, KernelUnchanged, SocketOK
<1>2. CASE s.NewOutputPending
  <2> DEFINE t == [s EXCEPT !.NewOutputPending = FALSE, !.CriticalOutputPending = FALSE,
                            !.OutputPending = {}]
  <2>1. os' = t /\ loop' = [at |-> "flush", mask |-> s.OutputPending, next |-> next]
    BY <1>2 DEF FlushAllOutput
  <2>2. Sound(t, s.OutputPending) /\ t.conn = s.conn /\ t.buf = s.buf
    BY DEF Sound, Data, FitsIn, TrackedIn, Told
  <2>3. s.OutputPending \in SUBSET Clients
    BY DEF Sound, Data
  <2> HIDE DEF t
  <2>4. LoopOK' /\ loop'.mask = s.OutputPending
    BY <2>1, <2>3 DEF LoopOK
  <2> QED  BY <1>1, <2>1, <2>2, <2>4 DEF IInv, Sound, TrackedIn, FitsIn, Told, Data, Bytes
<1>3. CASE ~s.NewOutputPending
  <2>1. os' = s /\ loop' = [at |-> next, mask |-> {}, next |-> next]
    BY <1>3 DEF FlushAllOutput, Goes
  <2>2. LoopOK' /\ loop'.mask = {}
    BY <2>1 DEF LoopOK
  <2> QED  BY <1>1, <2>1, <2>2 DEF IInv, Sound, TrackedIn, FitsIn, Told, Data, Bytes
<1> QED  BY <1>2, <1>3
-----------------------------------------------------------------------------
(* What the clients see.                                                     *)

Stream == [c \in Clients |-> socket[c] \o IF os.conn[c] = "open" THEN os.buf[c] ELSE <<>>]
Open == {c \in Clients : os.conn[c] = "open"}
NothingSeen == UNCHANGED <<Stream, Open>>

LEMMA SeesNothing ==
  ASSUME UNCHANGED socket,
         \A c \in Clients : os'.conn[c] = "open" <=> os.conn[c] = "open",
         \A c \in Clients : os.conn[c] = "open" => os'.buf[c] = os.buf[c]
  PROVE  NothingSeen
<1>1. Stream' = Stream
  BY DEF Stream
<1>2. Open' = Open
  BY DEF Open
<1> QED  BY <1>1, <1>2 DEF NothingSeen

LEMMA PrefixOfConcat ==
  ASSUME NEW S, NEW a \in Seq(S), NEW w \in Seq(S), NEW k \in 0 .. Len(w)
  PROVE  /\ a \o SubSeq(w, 1, k) = SubSeq(a \o w, 1, Len(a) + k)
         /\ Len(a) + k \in 0 .. Len(a \o w)
<1>1. /\ Len(a) \in Nat /\ Len(w) \in Nat
      /\ a \o w \in Seq(S) /\ Len(a \o w) = Len(a) + Len(w)
      /\ \A i \in 1 .. Len(a) + Len(w) : (a \o w)[i] = IF i <= Len(a) THEN a[i] ELSE w[i - Len(a)]
  BY LenProperties, ConcatProperties
<1>2. \A i \in 1 .. k : w[i] \in S
  BY <1>1, ElementOfSeq
<1> DEFINE p == SubSeq(w, 1, k)
           x == a \o w
           u == a \o p
           v == SubSeq(x, 1, Len(a) + k)
<1>3. p \in Seq(S) /\ Len(p) = k /\ \A i \in 1 .. k : p[i] = w[i]
  <2>1. /\ SubSeq(w, 1, k) \in Seq(S) /\ Len(SubSeq(w, 1, k)) = (IF 1 <= k THEN k - 1 + 1 ELSE 0)
        /\ \A i \in 1 .. k - 1 + 1 : SubSeq(w, 1, k)[i] = w[1 + i - 1]
    BY <1>1, <1>2, SubSeqProperties
  <2> HIDE DEF p
  <2> QED  BY <1>1, <2>1 DEF p
<1> HIDE DEF p
<1>4. /\ u \in Seq(S) /\ Len(u) = Len(a) + k
      /\ \A i \in 1 .. Len(a) + k : u[i] = IF i <= Len(a) THEN a[i] ELSE p[i - Len(a)]
  BY <1>3, ConcatProperties
<1> HIDE DEF u
<1>5. Len(a) + k \in 0 .. Len(x) /\ \A i \in 1 .. Len(a) + k : x[i] \in S
  <2>1. Len(a) + k \in 0 .. Len(x)
    BY <1>1
  <2> HIDE DEF x
  <2> QED  BY <1>1, <2>1, ElementOfSeq DEF x
<1>6. v \in Seq(S) /\ Len(v) = Len(a) + k /\ \A i \in 1 .. Len(a) + k : v[i] = x[i]
  <2> DEFINE m == Len(a) + k
  <2>1. m \in Nat
    BY <1>1
  <2> HIDE DEF x
  <2>2. /\ SubSeq(x, 1, m) \in Seq(S) /\ Len(SubSeq(x, 1, m)) = (IF 1 <= m THEN m - 1 + 1 ELSE 0)
        /\ \A i \in 1 .. m - 1 + 1 : SubSeq(x, 1, m)[i] = x[1 + i - 1]
    BY <1>5, <2>1, SubSeqProperties
  <2>3. v = SubSeq(x, 1, m)
    OBVIOUS
  <2> HIDE DEF v, m
  <2> QED  BY <2>1, <2>2, <2>3 DEF m
<1>7. ASSUME NEW i \in 1 .. Len(u)  PROVE u[i] = v[i]
  <2>1. i \in 1 .. Len(a) + k /\ i \in 1 .. Len(a) + Len(w)
    BY <1>1, <1>4
  <2>2. x[i] = IF i <= Len(a) THEN a[i] ELSE w[i - Len(a)]
    BY <1>1, <2>1
  <2> HIDE DEF x, v
  <2>3. CASE i <= Len(a)
    BY <1>4, <1>6, <2>1, <2>2, <2>3
  <2>4. CASE ~(i <= Len(a))
    <3>1. i - Len(a) \in 1 .. k
      BY <1>1, <2>1, <2>4
    <3>2. p[i - Len(a)] = w[i - Len(a)]
      BY <1>3, <3>1
    <3> QED  BY <1>4, <1>6, <2>1, <2>2, <2>4, <3>2
  <2> QED  BY <2>3, <2>4
<1>8. u = v
  <2> HIDE DEF v
  <2> QED  BY <1>4, <1>6, <1>7, SeqEqual
<1> QED  BY <1>5, <1>8 DEF u, p

LEMMA TailOfConcat ==
  ASSUME NEW S, NEW a \in Seq(S), NEW b \in Seq(S), a # <<>>
  PROVE  a \o b # <<>> /\ Tail(a \o b) = Tail(a) \o b
<1>1. /\ a \o b \in Seq(S) /\ Len(a \o b) = Len(a) + Len(b)
      /\ \A i \in 1 .. Len(a) + Len(b) : (a \o b)[i] = IF i <= Len(a) THEN a[i] ELSE b[i - Len(a)]
  BY ConcatProperties
<1>2. Len(a) \in Nat \ {0} /\ Len(b) \in Nat
  BY EmptySeq, LenProperties
<1>3. a \o b # <<>>
  BY ConcatEqualIffEmpty
<1> DEFINE x == a \o b
           t == Tail(a)
           u == Tail(x)
           v == t \o b
<1>4. t \in Seq(S) /\ Len(t) = Len(a) - 1 /\ \A i \in 1 .. Len(t) : t[i] = a[i + 1]
  BY HeadTailProperties
<1> HIDE DEF t
<1>5. /\ v \in Seq(S) /\ Len(v) = Len(t) + Len(b)
      /\ \A i \in 1 .. Len(t) + Len(b) : v[i] = IF i <= Len(t) THEN t[i] ELSE b[i - Len(t)]
  BY <1>4, ConcatProperties
<1>6. u \in Seq(S) /\ Len(u) = Len(x) - 1 /\ \A i \in 1 .. Len(u) : u[i] = x[i + 1]
  <2> HIDE DEF x
  <2> QED  BY <1>1, <1>3, HeadTailProperties DEF x
<1> HIDE DEF u, v
<1>7. ASSUME NEW i \in 1 .. Len(u)  PROVE u[i] = v[i]
  <2>1. i + 1 \in 1 .. Len(a) + Len(b) /\ i \in 1 .. Len(t) + Len(b)
    BY <1>1, <1>2, <1>4, <1>6
  <2>2. x[i + 1] = IF i + 1 <= Len(a) THEN a[i + 1] ELSE b[i + 1 - Len(a)]
    BY <1>1, <2>1
  <2>3. u[i] = x[i + 1] /\ v[i] = IF i <= Len(t) THEN t[i] ELSE b[i - Len(t)]
    BY <1>5, <1>6, <2>1
  <2> HIDE DEF x
  <2>4. CASE i <= Len(t)
    <3>1. i + 1 <= Len(a) /\ i \in 1 .. Len(t)
      BY <1>2, <1>4, <2>1, <2>4
    <3> QED  BY <1>4, <2>2, <2>3, <2>4, <3>1
  <2>5. CASE ~(i <= Len(t))
    <3>1. ~(i + 1 <= Len(a)) /\ i + 1 - Len(a) = i - Len(t)
      BY <1>2, <1>4, <2>1, <2>5
    <3> QED  BY <2>2, <2>3, <2>5, <3>1
  <2> QED  BY <2>4, <2>5
<1>8. Len(u) = Len(v)
  BY <1>1, <1>2, <1>4, <1>5, <1>6
<1>9. u = v
  BY <1>5, <1>6, <1>7, <1>8, SeqEqual
<1> QED  BY <1>3, <1>9 DEF u, v, t

StreamStep == [Output!Next]_<<Stream, Open>>
OthersSame(c) ==
  \A d \in Clients \ {c} : os'.conn[d] = os.conn[d] /\ os'.buf[d] = os.buf[d]

LEMMA Associative ==
  \A a, b, d \in Seq(Bytes) : (a \o b) \o d = a \o (b \o d)
BY ConcatAssociative

(* The connection of c breaks after a beginning of its buffer and the        *)
(* message was written.                                                      *)
LEMMA Breaks ==
  ASSUME IInv, NEW c \in Clients, os.conn[c] = "open", NEW extra \in Seq(Bytes),
         NEW k \in 0 .. Len(os.buf[c] \o Padded(extra)),
         socket' = [socket EXCEPT ![c] = @ \o SubSeq(os.buf[c] \o Padded(extra), 1, k)],
         os'.conn[c] # "open", OthersSame(c)
  PROVE  Output!Break(c, Padded(extra))
<1> DEFINE whole == os.buf[c] \o Padded(extra)
           n == Len(socket[c]) + k
<1>1. os.buf[c] \in Seq(Bytes) /\ Padded(extra) \in Seq(Bytes) /\ socket[c] \in Seq(Bytes)
  BY PaddedType DEF IInv, Sound, Data, SocketOK
<1>2. whole \in Seq(Bytes) /\ (socket[c] \o os.buf[c]) \o Padded(extra) = socket[c] \o whole
  BY <1>1, Associative, ConcatProperties
<1> HIDE DEF whole
<1>3. socket[c] \o SubSeq(whole, 1, k) = SubSeq(socket[c] \o whole, 1, n) /\ n \in 0 .. Len(socket[c] \o whole)
  BY <1>1, <1>2, PrefixOfConcat DEF whole
<1>4. SubSeq(socket[c] \o whole, 1, n) \in Seq(Bytes)
  <2>1. SubSeq(whole, 1, k) \in Seq(Bytes)
    <3>1. k \in Nat /\ k \in 0 .. Len(whole) /\ Len(whole) \in Nat
      BY <1>2, LenProperties DEF whole
    <3>2. \A i \in 1 .. k : whole[i] \in Bytes
      BY <1>2, <3>1, ElementOfSeq
    <3> QED  BY <3>1, <3>2, SubSeqProperties
  <2> HIDE DEF n
  <2> QED  BY <1>1, <1>3, <2>1, ConcatProperties
<1>5. Stream[c] = socket[c] \o os.buf[c] /\ Stream[c] \o Padded(extra) = socket[c] \o whole
  BY <1>2 DEF Stream
<1> DEFINE new == SubSeq(socket[c] \o whole, 1, n)
<1>6. socket' = [socket EXCEPT ![c] = new]
  BY <1>3 DEF whole
<1>7. Stream' = [Stream EXCEPT ![c] = new]
  <2> HIDE DEF new, n
  <2>1. ASSUME NEW d \in Clients
        PROVE  (socket'[d] \o IF os'.conn[d] = "open" THEN os'.buf[d] ELSE <<>>)
                 = IF d = c THEN new ELSE Stream[d]
    <3>1. CASE d = c
      <4>1. socket'[d] = new
        BY <1>1, <1>6, <3>1 DEF IInv, SocketOK
      <4>2. new \o <<>> = new
        BY <1>4, ConcatEmptySeq DEF new
      <4> QED  BY <3>1, <4>1, <4>2
    <3>2. CASE d # c
      <4>1. socket'[d] = socket[d]
        BY <1>6, <3>2 DEF IInv, SocketOK
      <4>2. os'.conn[d] = os.conn[d] /\ os'.buf[d] = os.buf[d]
        BY <3>2 DEF OthersSame
      <4>3. Stream[d] = socket[d] \o IF os.conn[d] = "open" THEN os.buf[d] ELSE <<>>
        BY DEF Stream
      <4> HIDE DEF Stream
      <4> QED  BY <3>2, <4>1, <4>2, <4>3
    <3> QED  BY <3>1, <3>2
  <2>2. Stream' = [d \in Clients |-> socket'[d] \o IF os'.conn[d] = "open" THEN os'.buf[d] ELSE <<>>]
    BY DEF Stream
  <2>3. Stream' = [d \in Clients |-> IF d = c THEN new ELSE Stream[d]]
    BY <2>1, <2>2
  <2>4. Stream = [d \in Clients |-> Stream[d]]
    BY DEF Stream
  <2> HIDE DEF Stream
  <2> QED  BY <2>3, <2>4
<1>8. c \in Open /\ Open' = Open \ {c}
  BY DEF Open, OthersSame
<1>9. Output!Break(c, Padded(extra)) <=>
        /\ c \in Open /\ Open' = Open \ {c}
        /\ \E i \in 0 .. Len(Stream[c] \o Padded(extra)) :
             Stream' = [Stream EXCEPT ![c] = SubSeq(Stream[c] \o Padded(extra), 1, i)]
  BY DEF Output!Break, Stream, Open
<1> QED  BY <1>3, <1>5, <1>7, <1>8, <1>9

(* What was in the buffer and the message are in the socket or the buffer.   *)
AllKept(c, extra, sent) == sent \o os'.buf[c] = os.buf[c] \o Padded(extra)

LEMMA Passes ==
  ASSUME IInv, NEW c \in Clients, os.conn[c] = "open", NEW extra \in Seq(Bytes),
         NEW sent \in Seq(Bytes), os' \in Data, os'.conn[c] = "open", OthersSame(c),
         AllKept(c, extra, sent),
         socket' = [socket EXCEPT ![c] = @ \o sent]
  PROVE  /\ Stream' = [Stream EXCEPT ![c] = @ \o Padded(extra)]
         /\ Open' = Open /\ c \in Open
<1> DEFINE new == (socket[c] \o os.buf[c]) \o Padded(extra)
<1>1. /\ os.buf[c] \in Seq(Bytes) /\ Padded(extra) \in Seq(Bytes) /\ socket[c] \in Seq(Bytes)
      /\ os'.buf[c] \in Seq(Bytes)
  BY PaddedType DEF IInv, Sound, Data, SocketOK
<1>2. new = socket[c] \o (os.buf[c] \o Padded(extra))
  BY <1>1, Associative
<1>3. (socket[c] \o sent) \o os'.buf[c] = socket[c] \o (sent \o os'.buf[c])
  <2>1. PICK rest \in Seq(Bytes) : rest = os'.buf[c]
    BY <1>1
  <2>2. PICK before \in Seq(Bytes) : before = socket[c]
    BY <1>1
  <2>3. (before \o sent) \o rest = before \o (sent \o rest)
    BY Associative, Zenon
  <2> QED  BY <2>1, <2>2, <2>3
<1>4. (socket[c] \o sent) \o os'.buf[c] = new
  BY <1>2, <1>3 DEF AllKept
<1> HIDE DEF new
<1>5. ASSUME NEW d \in Clients
      PROVE  (socket'[d] \o IF os'.conn[d] = "open" THEN os'.buf[d] ELSE <<>>)
               = IF d = c THEN new ELSE Stream[d]
  <2>1. CASE d = c
    <3>1. socket'[d] = socket[c] \o sent
      BY <1>1, <2>1 DEF IInv, SocketOK
    <3>2. socket'[d] \o os'.buf[d] = new
      BY <1>4, <2>1, <3>1
    <3>3. os'.conn[d] = "open"
      BY <2>1
    <3> DEFINE new1 == socket'[d] \o IF os'.conn[d] = "open" THEN os'.buf[d] ELSE <<>>
    <3>4. new1 = socket'[d] \o os'.buf[d]
      BY <3>3, Zenon
    <3> HIDE DEF new1, Stream
    <3>5. new1 = IF d = c THEN new ELSE Stream[d]
      BY <2>1, <3>2, <3>4
    <3> QED  BY <3>5 DEF new1
  <2>2. CASE d # c
    <3>1. socket'[d] = socket[d]
      BY <2>2 DEF IInv, SocketOK
    <3>2. os'.conn[d] = os.conn[d] /\ os'.buf[d] = os.buf[d]
      BY <2>2 DEF OthersSame
    <3>3. Stream[d] = socket[d] \o IF os.conn[d] = "open" THEN os.buf[d] ELSE <<>>
      BY DEF Stream
    <3> HIDE DEF Stream
    <3> QED  BY <2>2, <3>1, <3>2, <3>3
  <2> QED  BY <2>1, <2>2
<1>6. Stream' = [d \in Clients |-> IF d = c THEN new ELSE Stream[d]]
  BY <1>5 DEF Stream
<1>7. Stream = [d \in Clients |-> Stream[d]] /\ new = Stream[c] \o Padded(extra)
  BY DEF Stream, new
<1>8. Open' = Open /\ c \in Open
  BY DEF Open, OthersSame
<1> HIDE DEF Stream
<1> QED  BY <1>6, <1>7, <1>8

(* A call that writes to c is a write of the abstract stream, a break of it, *)
(* or nothing.                                                               *)
LEMMA ServedMaps ==
  ASSUME IInv, NEW c \in Clients, Connected(os, c), NEW extra \in Seq(Bytes),
         NEW r, Served(os, c, extra, r), Becomes(c, r)
  PROVE  \/ /\ Stream' = [Stream EXCEPT ![c] = @ \o Padded(extra)]
            /\ Open' = Open /\ c \in Open
         \/ Output!Break(c, Padded(extra))
         \/ NothingSeen
<1>1. /\ os' = r.os /\ socket' = [socket EXCEPT ![c] = @ \o r.sent] /\ OthersSame(c)
      /\ r.sent \in Seq(Bytes) /\ os' \in Data /\ os.conn[c] \in {"open", "closed"}
  BY DEF Becomes, Served, OnlyChanges, OthersSame, Connected, IInv, Sound, Data
<1>2. CASE os.conn[c] = "closed"
  <2>1. r.sent = <<>> /\ os'.conn[c] = "closed"
    BY <1>1, <1>2 DEF Served, Written
  <2>2. socket[c] \o <<>> = socket[c]
    BY ConcatEmptySeq DEF IInv, SocketOK
  <2>3. socket' = socket
    BY <1>1, <2>1, <2>2 DEF IInv, SocketOK
  <2> QED  BY <1>1, <1>2, <2>1, <2>3, SeesNothing DEF OthersSame
<1>3. CASE os.conn[c] = "open" /\ os'.conn[c] = "open"
  <2>1. AllKept(c, extra, r.sent)
    BY <1>1, <1>3 DEF Served, Written, AllKept
  <2> QED  BY <1>1, <1>3, <2>1, Passes
<1>4. CASE os.conn[c] = "open" /\ os'.conn[c] # "open"
  <2>1. PICK k \in 0 .. Len(os.buf[c] \o Padded(extra)) :
          r.sent = SubSeq(os.buf[c] \o Padded(extra), 1, k)
    BY <1>1 DEF Served, Written
  <2> QED  BY <1>1, <1>4, <2>1, Breaks
<1> QED  BY <1>1, <1>2, <1>3, <1>4
-----------------------------------------------------------------------------
(* Each action keeps the invariant and is a step of the abstract stream.     *)

LEMMA FlushNextStep ==
  ASSUME IInv, NEW c \in Clients, NEW memory \in BOOLEAN, FlushNext(c, memory)
  PROVE  IInv' /\ StreamStep
<1> DEFINE r == FlushClient(os, c, <<>>, memory)
<1>1. /\ loop.at = "flush" /\ c \in loop.mask /\ Becomes(c, r) /\ os' = r.os
      /\ loop' = [loop EXCEPT !.mask = loop.mask \ {c}]
  BY DEF FlushNext, At, Becomes
<1>2. Connected(os, c)
  BY <1>1 DEF IInv, Sound, TrackedIn, Connected
<1>3. Served(os, c, <<>>, r) /\ <<>> \in Seq(Bytes)
  BY <1>2, FlushNextServes
<1> HIDE DEF r
<1>4. Sound(os', loop.mask \ {c}) /\ SocketOK' /\ dead' \in SUBSET Clients
  BY <1>1, <1>2, <1>3, ServedKeeps
<1>5. LoopOK' /\ loop'.mask = loop.mask \ {c}
  BY <1>1 DEF IInv, LoopOK
<1>6. IInv'
  BY <1>4, <1>5 DEF IInv, Sound, FitsIn, TrackedIn, Told, Data, Bytes
<1>7. StreamStep
  <2>1. CASE /\ Stream' = [Stream EXCEPT ![c] = @ \o Padded(<<>>)] /\ Open' = Open /\ c \in Open
    <3>1. socket[c] \in Seq(Bytes) /\ os.buf[c] \in Seq(Bytes)
      BY DEF IInv, Sound, Data, SocketOK
    <3>2. (socket[c] \o os.buf[c]) \o <<>> = socket[c] \o os.buf[c]
      BY <3>1, ConcatProperties, ConcatEmptySeq
    <3>3. Stream[c] \o Padded(<<>>) = Stream[c]
      BY <2>1, <3>2, PaddedEmpty DEF Stream, Open
    <3>4. Stream' = [Stream EXCEPT ![c] = Stream[c]]
      BY <2>1, <3>3
    <3>5. Stream' = Stream
      BY <3>4 DEF Stream
    <3> QED  BY <2>1, <3>5 DEF StreamStep
  <2>2. CASE Output!Break(c, Padded(<<>>))
    BY <2>2, PaddedEmpty DEF StreamStep, Output!Next
  <2> QED  BY <1>1, <1>2, <1>3, <2>1, <2>2, ServedMaps DEF StreamStep, NothingSeen
<1> QED  BY <1>6, <1>7

LEMMA WriteStep ==
  ASSUME IInv, NEW c \in Clients, NEW message \in Messages, NEW critical \in BOOLEAN,
         NEW newSize \in NewSizes, NEW memory \in BOOLEAN,
         Write(c, message, critical, newSize, memory)
  PROVE  IInv' /\ StreamStep
<1> DEFINE s == [os EXCEPT !.CriticalOutputPending = @ \/ critical]
           r == WriteToClient(s, c, message, newSize, memory)
<1>1. Connected(os, c) /\ Becomes(c, r) /\ os' = r.os /\ loop' = loop
  BY DEF Write, Becomes
<1>2. Served(os, c, message, r) /\ message \in Seq(Bytes)
  BY <1>1, WriteServes, MessageType
<1> HIDE DEF r
<1>3. Sound(os', loop.mask) /\ SocketOK' /\ dead' \in SUBSET Clients
  BY <1>1, <1>2, ServedKeeps
<1>4. IInv'
  BY <1>1, <1>3 DEF IInv, LoopOK, Sound, FitsIn, TrackedIn, Told, Data, Bytes
<1>5. StreamStep
  <2>1. CASE /\ Stream' = [Stream EXCEPT ![c] = @ \o Padded(message)] /\ Open' = Open /\ c \in Open
    <3>1. Output!Write(c, Padded(message))
      BY <2>1 DEF Output!Write, Stream, Open
    <3> QED  BY <3>1 DEF StreamStep, Output!Next
  <2>2. CASE Output!Break(c, Padded(message))
    BY <2>2 DEF StreamStep, Output!Next
  <2> QED  BY <1>1, <1>2, <2>1, <2>2, ServedMaps DEF StreamStep, NothingSeen
<1> QED  BY <1>4, <1>5

LEMMA CloseDownStep ==
  ASSUME IInv, NEW c \in Clients, NEW memory \in BOOLEAN, CloseDownConnection(c, memory)
  PROVE  IInv' /\ StreamStep
<1> DEFINE r == IF os.buf[c] = <<>> THEN Result(os, <<>>) ELSE FlushClient(os, c, <<>>, memory)
           t == CloseDownFileDescriptors(r.os, {c})
<1>1. /\ loop.at = "serve" /\ Connected(os, c) /\ os' = t
      /\ socket' = [socket EXCEPT ![c] = @ \o r.sent] /\ dead' = dead /\ loop' = loop
  BY DEF CloseDownConnection, At, Becomes, Result
<1>2. loop.mask = {} /\ socket[c] \in Seq(Bytes) /\ os.buf[c] \in Seq(Bytes) /\ os \in Data
  BY <1>1 DEF IInv, LoopOK, SocketOK, Sound, Data
<1>3. Served(os, c, <<>>, r)
  <2>1. CASE os.buf[c] = <<>>
    <3>1. r.os = os /\ r.sent = <<>>
      BY <2>1 DEF Result
    <3>2. <<>> \in Seq(Bytes) /\ Len(<<>>) = 0 /\ <<>> \o <<>> = <<>> /\ SubSeq(<<>>, 1, 0) = <<>>
      BY EmptySeq, ConcatEmptySeq, SubSeqEmpty
    <3> HIDE DEF r
    <3>3. Written(os, c, <<>>, r)
      BY <2>1, <3>1, <3>2, PaddedEmpty DEF Written
    <3>4. Len(socket[c]) \in Nat /\ Len(socket[c]) <= SocketSize
      BY <1>2, LenProperties DEF IInv, SocketOK
    <3> QED  BY <2>1, <3>1, <3>2, <3>3, <3>4 DEF Served, OnlyChanges, IInv, Sound, TrackedIn
  <2>2. CASE os.buf[c] # <<>>
    BY <1>1, <2>2, FlushNextServes
  <2> QED  BY <2>1, <2>2
<1> HIDE DEF r
<1>4. <<>> \in Seq(Bytes) /\ r.os \in Data
  BY <1>3, EmptySeq DEF Served
<1>5. Sound(r.os, {}) /\ OnlyChanges(os, r.os, c)
  BY <1>1, <1>2, <1>3, <1>4, ServedKeeps DEF Served
<1>6. /\ Sound(t, {}) /\ t.conn[c] = "none"
      /\ \A d \in Clients : d # c => t.conn[d] = r.os.conn[d] /\ t.buf[d] = r.os.buf[d]
  <2> HIDE DEF t
  <2> QED  BY <1>4, <1>5, CloseDownDoes DEF t
<1> HIDE DEF t
<1>7. OthersSame(c) /\ os'.conn[c] = "none"
  BY <1>1, <1>5, <1>6 DEF OthersSame, OnlyChanges
<1>8. SocketOK' /\ dead' \in SUBSET Clients
  <2>1. r.sent \in Seq(Bytes) /\ Len(socket[c]) + Len(r.sent) <= SocketSize
    BY <1>3 DEF Served
  <2>2. socket[c] \o r.sent \in Seq(Bytes) /\ Len(socket[c] \o r.sent) = Len(socket[c]) + Len(r.sent)
    BY <1>2, <2>1, ConcatProperties
  <2> QED  BY <1>1, <2>1, <2>2 DEF IInv, SocketOK
<1>9. IInv'
  BY <1>1, <1>2, <1>6, <1>8 DEF IInv, LoopOK, Sound, FitsIn, TrackedIn, Told, Data, Bytes
<1>10. StreamStep
  <2>1. CASE os.conn[c] = "open"
    <3>1. PICK k \in 0 .. Len(os.buf[c] \o Padded(<<>>)) :
            r.sent = SubSeq(os.buf[c] \o Padded(<<>>), 1, k)
      BY <1>3 DEF Served, Written
    <3>2. Output!Break(c, Padded(<<>>))
      BY <1>1, <1>4, <1>7, <2>1, <3>1, Breaks
    <3> QED  BY <3>2, PaddedEmpty DEF StreamStep, Output!Next
  <2>2. CASE os.conn[c] # "open"
    <3>1. os.conn[c] = "closed"
      BY <1>1, <1>2, <2>2 DEF Connected, Data
    <3>2. r.sent = <<>>
      BY <1>3, <3>1 DEF Served, Written
    <3>3. socket[c] \o <<>> = socket[c]
      BY <1>2, ConcatEmptySeq
    <3>4. socket' = socket
      BY <1>1, <3>2, <3>3 DEF IInv, SocketOK
    <3>5. NothingSeen
      BY <1>7, <2>2, <3>4, SeesNothing DEF OthersSame
    <3> QED  BY <3>5 DEF StreamStep, NothingSeen
  <2> QED  BY <2>1, <2>2
<1> QED  BY <1>9, <1>10

(* Of FlushAllOutput on data whose connections and buffers are the same to   *)
(* the clients.                                                              *)
LEMMA FlushAllStep ==
  ASSUME IInv, NEW s, Sound(s, {}), NEW next \in {"serve", "select"},
         FlushAllOutput(s, next) \/ (os' = s /\ Goes("serve")), KernelUnchanged,
         \A c \in Clients : s.conn[c] = "open" <=> os.conn[c] = "open",
         \A c \in Clients : os.conn[c] = "open" => s.buf[c] = os.buf[c]
  PROVE  IInv' /\ StreamStep
<1>1. IInv' /\ os'.conn = s.conn /\ os'.buf = s.buf
  <2>1. CASE FlushAllOutput(s, next)
    BY <2>1, FlushAllKeeps
  <2>2. CASE os' = s /\ Goes("serve")
    <3>1. LoopOK' /\ loop'.mask = {}
      BY <2>2 DEF Goes, LoopOK
    <3>2. SocketOK' /\ dead' \in SUBSET Clients
      BY DEF IInv, KernelUnchanged, SocketOK
    <3> QED  BY <2>2, <3>1, <3>2 DEF IInv, Sound, FitsIn, TrackedIn, Told, Data, Bytes
  <2> QED  BY <2>1, <2>2
<1>2. NothingSeen
  BY <1>1, SeesNothing DEF KernelUnchanged
<1> QED  BY <1>1, <1>2 DEF StreamStep, NothingSeen

LEMMA EndRoundStep ==
  ASSUME IInv, At("serve"), NEW next \in {"serve", "select"}, FlushAllOutput(os, next),
         KernelUnchanged
  PROVE  IInv' /\ StreamStep
<1>1. Sound(os, {})
  BY DEF IInv, LoopOK, At
<1> QED  BY <1>1, FlushAllStep

LEMMA CheckConnectionsStep ==
  ASSUME IInv, NEW input \in BOOLEAN, CheckConnections(input)
  PROVE  IInv' /\ StreamStep
<1> DEFINE S == Bad \cap os.AllClients
           s == CloseDownFileDescriptors(os, S)
<1>1. /\ At("select") /\ KernelUnchanged
      /\ FlushAllOutput(s, "select") \/ (os' = s /\ Goes("serve"))
  BY DEF CheckConnections, Waits
<1>2. os \in Data /\ Sound(os, {}) /\ S \in SUBSET Clients
  BY <1>1 DEF IInv, LoopOK, At, Sound, Data
<1>3. \A c \in S : os.conn[c] = "closed"
  BY DEF Bad
<1> HIDE DEF S
<1>4. /\ Sound(s, {}) /\ \A c \in S : s.conn[c] = "none"
      /\ \A c \in Clients : c \notin S => s.conn[c] = os.conn[c] /\ s.buf[c] = os.buf[c]
  BY <1>2, CloseDownDoes
<1> HIDE DEF s
<1>5. /\ \A c \in Clients : s.conn[c] = "open" <=> os.conn[c] = "open"
      /\ \A c \in Clients : os.conn[c] = "open" => s.buf[c] = os.buf[c]
  BY <1>3, <1>4
<1> QED  BY <1>1, <1>4, <1>5, FlushAllStep

LEMMA SelectFindsStep ==
  ASSUME IInv, NEW input \in BOOLEAN, SelectFinds(input)
  PROVE  IInv' /\ StreamStep
<1> DEFINE blocked == os.ClientsWriteBlocked \ Writable
           s == IF Writable = {} THEN os
                ELSE [os EXCEPT !.NewOutputPending = TRUE, !.OutputPending = @ \cup Writable,
                                !.ClientsWriteBlocked = blocked,
                                !.AnyClientsWriteBlocked = @ /\ blocked # {}]
<1>1. /\ At("select") /\ KernelUnchanged
      /\ FlushAllOutput(s, "select") \/ (os' = s /\ Goes("serve"))
  BY DEF SelectFinds, Waits
<1>2. os \in Data /\ Sound(os, {}) /\ Writable \subseteq os.ClientsWriteBlocked
  BY <1>1 DEF IInv, LoopOK, At, Sound, Writable
<1>3. /\ s.conn = os.conn /\ s.buf = os.buf /\ s.size = os.size /\ s.AllClients = os.AllClients
      /\ s.OutputPending = os.OutputPending \cup Writable
      /\ s.ClientsWriteBlocked = blocked /\ s \in Data
  BY <1>2 DEF Data
<1>4. Told(s)
  BY <1>2 DEF Sound, TrackedIn, Told, Data
<1> HIDE DEF s
<1>5. Sound(s, {})
  BY <1>2, <1>3, <1>4 DEF Sound, FitsIn, TrackedIn
<1> QED  BY <1>1, <1>3, <1>5, FlushAllStep

LEMMA FlushDoneStep == IInv /\ FlushDone => IInv' /\ StreamStep
<1> SUFFICES ASSUME IInv, FlushDone  PROVE IInv' /\ StreamStep
  OBVIOUS
<1>1. /\ loop.mask = {} /\ os' = os /\ KernelUnchanged
      /\ loop' = [at |-> loop.next, mask |-> {}, next |-> loop.next]
  BY DEF FlushDone, Goes
<1>2. LoopOK' /\ loop'.mask = {}
  BY <1>1 DEF IInv, LoopOK
<1>3. IInv'
  BY <1>1, <1>2 DEF IInv, Sound, FitsIn, TrackedIn, Told, Data, Bytes, SocketOK, KernelUnchanged
<1>4. NothingSeen
  BY <1>1, SeesNothing DEF KernelUnchanged
<1> QED  BY <1>3, <1>4 DEF StreamStep, NothingSeen

LEMMA FlushLaterStep ==
  ASSUME IInv, NEW c \in Clients, FlushLater(c)
  PROVE  IInv' /\ StreamStep
<1>1. /\ os' = [os EXCEPT !.OutputPending = os.OutputPending \cup {c}, !.NewOutputPending = TRUE]
      /\ loop' = [loop EXCEPT !.mask = loop.mask \ {c}] /\ KernelUnchanged
      /\ loop.at = "flush" /\ c \in loop.mask
  BY DEF FlushLater, At
<1>2. LoopOK' /\ loop'.mask = loop.mask \ {c}
  BY <1>1 DEF IInv, LoopOK
<1>3. /\ os' \in Data /\ os'.conn = os.conn /\ os'.buf = os.buf /\ os'.size = os.size
      /\ os'.OutputPending = os.OutputPending \cup {c} /\ os'.AllClients = os.AllClients
      /\ os'.ClientsWriteBlocked = os.ClientsWriteBlocked
      /\ os'.AnyClientsWriteBlocked = os.AnyClientsWriteBlocked
  BY <1>1 DEF IInv, Sound, Data
<1>4. Sound(os', loop.mask \ {c})
  BY <1>1, <1>3 DEF IInv, Sound, FitsIn, TrackedIn, Told
<1>5. IInv'
  BY <1>1, <1>2, <1>4 DEF IInv, Sound, FitsIn, TrackedIn, Told, Data, Bytes, SocketOK, KernelUnchanged
<1>6. NothingSeen
  BY <1>1, <1>3, SeesNothing DEF KernelUnchanged
<1> QED  BY <1>5, <1>6 DEF StreamStep, NothingSeen

LEMMA AttendStep ==
  ASSUME IInv, NEW c \in Clients, IgnoreClient(c) \/ AttendClient(c)
  PROVE  IInv' /\ StreamStep
<1>1. os \in Data /\ loop' = loop /\ KernelUnchanged /\ os.conn[c] # "none"
  BY DEF IInv, Sound, IgnoreClient, AttendClient, Connected
<1>2. PICK All \in SUBSET Clients :
        os' = [os EXCEPT !.AllClients = All] /\ All \subseteq os.AllClients \cup {c}
  <2>1. os.AllClients \cup {c} \in SUBSET Clients /\ os.AllClients \ {c} \in SUBSET Clients
    BY <1>1 DEF Data
  <2>2. CASE IgnoreClient(c)
    BY <2>1, <2>2 DEF IgnoreClient
  <2>3. CASE AttendClient(c)
    BY <2>1, <2>3 DEF AttendClient
  <2> QED  BY <2>2, <2>3
<1>3. /\ os' \in Data /\ os'.conn = os.conn /\ os'.buf = os.buf /\ os'.size = os.size
      /\ os'.OutputPending = os.OutputPending /\ os'.AllClients = All
      /\ os'.ClientsWriteBlocked = os.ClientsWriteBlocked
      /\ os'.AnyClientsWriteBlocked = os.AnyClientsWriteBlocked
  BY <1>1, <1>2 DEF Data
<1>4. Sound(os', loop.mask)
  BY <1>1, <1>2, <1>3 DEF IInv, Sound, FitsIn, TrackedIn, Told
<1>5. IInv'
  BY <1>1, <1>4 DEF IInv, LoopOK, Sound, FitsIn, TrackedIn, Told, Data, Bytes, SocketOK, KernelUnchanged
<1>6. NothingSeen
  BY <1>1, <1>3, SeesNothing DEF KernelUnchanged
<1> QED  BY <1>5, <1>6 DEF StreamStep, NothingSeen

LEMMA EstablishStep ==
  ASSUME IInv, NEW c \in Clients, EstablishNewConnection(c)
  PROVE  IInv' /\ StreamStep
<1>1. /\ os' = [os EXCEPT !.conn[c] = "open", !.AllClients = os.AllClients \cup {c}]
      /\ socket' = [socket EXCEPT ![c] = <<>>] /\ dead' = dead \ {c} /\ loop' = loop
      /\ os.conn[c] = "none"
  BY DEF EstablishNewConnection, Connected
<1>2. /\ os' \in Data /\ os'.conn = [os.conn EXCEPT ![c] = "open"] /\ os'.buf = os.buf
      /\ os'.size = os.size
      /\ os'.OutputPending = os.OutputPending /\ os'.AllClients = os.AllClients \cup {c}
      /\ os'.ClientsWriteBlocked = os.ClientsWriteBlocked
      /\ os'.AnyClientsWriteBlocked = os.AnyClientsWriteBlocked
  BY <1>1 DEF IInv, Sound, Data
<1>3. Sound(os', loop.mask)
  <2>1. \A d \in Clients : os'.conn[d] = "none" => os.conn[d] = "none" /\ d # c
    BY <1>2 DEF IInv, Sound, Data
  <2> QED  BY <1>2, <2>1 DEF IInv, Sound, FitsIn, TrackedIn, Told
<1>4. SocketOK' /\ dead' \in SUBSET Clients
  <2>1. <<>> \in Seq(Bytes) /\ Len(<<>>) = 0 /\ 0 <= SocketSize
    BY EmptySeq, OutputAssumption
  <2> QED  BY <1>1, <2>1 DEF IInv, SocketOK
<1>5. IInv'
  BY <1>1, <1>3, <1>4 DEF IInv, LoopOK, Sound, FitsIn, TrackedIn, Told, Data, Bytes
<1>6. os.buf[c] = <<>>
  BY <1>1 DEF IInv, Sound, TrackedIn
<1>7. Open' = Open \cup {c} /\ c \notin Open
  BY <1>1, <1>2 DEF Open, IInv, Sound, Data
<1>8. Stream' = [Stream EXCEPT ![c] = <<>>]
  <2>1. ASSUME NEW d \in Clients
        PROVE  (socket'[d] \o IF os'.conn[d] = "open" THEN os'.buf[d] ELSE <<>>)
                 = IF d = c THEN <<>> ELSE Stream[d]
    <3>1. CASE d = c
      <4>1. socket'[d] = <<>> /\ os'.buf[d] = <<>>
        BY <1>1, <1>2, <1>6, <3>1 DEF IInv, SocketOK
      <4>2. <<>> \o <<>> = <<>>
        BY EmptySeq, ConcatEmptySeq
      <4> QED  BY <3>1, <4>1, <4>2
    <3>2. CASE d # c
      <4>1. socket'[d] = socket[d] /\ os'.conn[d] = os.conn[d] /\ os'.buf[d] = os.buf[d]
        BY <1>1, <1>2, <3>2 DEF IInv, SocketOK, Sound, Data
      <4>2. Stream[d] = socket[d] \o IF os.conn[d] = "open" THEN os.buf[d] ELSE <<>>
        BY DEF Stream
      <4> HIDE DEF Stream
      <4> QED  BY <3>2, <4>1, <4>2
    <3> QED  BY <3>1, <3>2
  <2>2. Stream' = [d \in Clients |-> IF d = c THEN <<>> ELSE Stream[d]]
    BY <2>1 DEF Stream
  <2>3. Stream = [d \in Clients |-> Stream[d]]
    BY DEF Stream
  <2> HIDE DEF Stream
  <2> QED  BY <2>2, <2>3
<1>9. Output!Connect(c)
  BY <1>7, <1>8 DEF Output!Connect, Stream, Open
<1> QED  BY <1>5, <1>9 DEF StreamStep, Output!Next

LEMMA ReadStep ==
  ASSUME IInv, NEW c \in Clients, Read(c)
  PROVE  IInv' /\ StreamStep
<1>1. /\ socket[c] # <<>> /\ socket' = [socket EXCEPT ![c] = Tail(socket[c])]
      /\ os' = os /\ loop' = loop /\ dead' = dead
  BY DEF Read
<1>2. socket[c] \in Seq(Bytes) /\ os.buf[c] \in Seq(Bytes) /\ <<>> \in Seq(Bytes)
  BY EmptySeq DEF IInv, SocketOK, Sound, Data
<1>3. /\ Tail(socket[c]) \in Seq(Bytes) /\ Len(Tail(socket[c])) = Len(socket[c]) - 1
      /\ Len(socket[c]) \in Nat
  BY <1>1, <1>2, HeadTailProperties, LenProperties
<1>4. SocketOK'
  <2>1. Len(Tail(socket[c])) <= SocketSize
    BY <1>3, OutputAssumption DEF IInv, SocketOK
  <2> QED  BY <1>1, <1>3, <2>1 DEF IInv, SocketOK
<1>5. IInv'
  BY <1>1, <1>4 DEF IInv, LoopOK, Sound, FitsIn, TrackedIn, Told, Data, Bytes
<1> DEFINE rest == IF os.conn[c] = "open" THEN os.buf[c] ELSE <<>>
<1>6. rest \in Seq(Bytes)
  BY <1>2
<1> HIDE DEF rest
<1>7. socket[c] \o rest # <<>> /\ Tail(socket[c] \o rest) = Tail(socket[c]) \o rest
  BY <1>1, <1>2, <1>6, TailOfConcat
<1>8. Stream[c] = socket[c] \o rest
  BY DEF Stream, rest
<1>9. Stream' = [Stream EXCEPT ![c] = Tail(Stream[c])]
  <2>1. ASSUME NEW d \in Clients
        PROVE  (socket'[d] \o IF os'.conn[d] = "open" THEN os'.buf[d] ELSE <<>>)
                 = IF d = c THEN Tail(Stream[c]) ELSE Stream[d]
    <3>1. CASE d = c
      <4>1. socket'[d] = Tail(socket[c])
        BY <1>1, <3>1 DEF IInv, SocketOK
      <4>2. (IF os'.conn[d] = "open" THEN os'.buf[d] ELSE <<>>) = rest
        BY <1>1, <3>1 DEF rest
      <4> HIDE DEF Stream
      <4> QED  BY <1>7, <1>8, <3>1, <4>1, <4>2
    <3>2. CASE d # c
      <4>1. socket'[d] = socket[d]
        BY <1>1, <3>2 DEF IInv, SocketOK
      <4>2. Stream[d] = socket[d] \o IF os.conn[d] = "open" THEN os.buf[d] ELSE <<>>
        BY DEF Stream
      <4> HIDE DEF Stream
      <4> QED  BY <1>1, <3>2, <4>1, <4>2
    <3> QED  BY <3>1, <3>2
  <2>2. Stream' = [d \in Clients |-> IF d = c THEN Tail(Stream[c]) ELSE Stream[d]]
    BY <2>1 DEF Stream
  <2>3. Stream = [d \in Clients |-> Stream[d]]
    BY DEF Stream
  <2> HIDE DEF Stream
  <2> QED  BY <2>2, <2>3
<1>10. Open' = Open /\ Stream[c] # <<>>
  BY <1>1, <1>7, <1>8 DEF Open
<1>11. Output!Read(c)
  BY <1>9, <1>10 DEF Output!Read, Stream, Open
<1> QED  BY <1>5, <1>11 DEF StreamStep, Output!Next

LEMMA PeerGoneStep ==
  ASSUME IInv, NEW c \in Clients, PeerGone(c)
  PROVE  IInv' /\ StreamStep
<1>1. dead' = dead \cup {c} /\ os' = os /\ loop' = loop /\ socket' = socket
  BY DEF PeerGone
<1>2. IInv'
  BY <1>1 DEF IInv, LoopOK, Sound, FitsIn, TrackedIn, Told, Data, Bytes, SocketOK
<1>3. NothingSeen
  BY <1>1, SeesNothing
<1> QED  BY <1>2, <1>3 DEF StreamStep, NothingSeen
-----------------------------------------------------------------------------
LEMMA InitInv == Init => IInv
<1> SUFFICES ASSUME Init  PROVE IInv
  OBVIOUS
<1>1. <<>> \in Seq(Bytes) /\ Len(<<>>) = 0 /\ 0 \in 0 .. MaxSize /\ 0 <= SocketSize
  BY EmptySeq, OutputAssumption
<1>2. Sound(os, {})
  BY <1>1 DEF Init, Sound, Data, FitsIn, TrackedIn, Told
<1>3. LoopOK /\ loop.mask = {}
  BY DEF Init, LoopOK
<1>4. SocketOK /\ dead \in SUBSET Clients
  BY <1>1 DEF Init, SocketOK
<1> QED  BY <1>2, <1>3, <1>4 DEF IInv

LEMMA StutterStep == IInv /\ UNCHANGED vars => IInv' /\ StreamStep
BY DEF vars, IInv, LoopOK, Sound, FitsIn, TrackedIn, Told, Data, Bytes, SocketOK,
       StreamStep, Stream, Open

LEMMA NextStep == IInv /\ [Next]_vars => IInv' /\ StreamStep
<1> SUFFICES ASSUME IInv, Next  PROVE IInv' /\ StreamStep
  BY StutterStep
<1>1. CASE FlushDone
  BY <1>1, FlushDoneStep
<1>2. CASE FlushIfCriticalOutputPending \/ EndTurn \/ EndRound
  BY <1>2, EndRoundStep DEF FlushIfCriticalOutputPending, EndTurn, EndRound, Waits
<1>3. ASSUME NEW input \in BOOLEAN, CheckConnections(input) \/ SelectFinds(input)
      PROVE  IInv' /\ StreamStep
  BY <1>3, CheckConnectionsStep, SelectFindsStep
<1>4. ASSUME NEW c \in Clients, NEW memory \in BOOLEAN,
             FlushNext(c, memory) \/ CloseDownConnection(c, memory)
      PROVE  IInv' /\ StreamStep
  BY <1>4, FlushNextStep, CloseDownStep
<1>5. ASSUME NEW c \in Clients, NEW memory \in BOOLEAN, NEW message \in Messages,
             NEW critical \in BOOLEAN, NEW newSize \in NewSizes,
             Write(c, message, critical, newSize, memory)
      PROVE  IInv' /\ StreamStep
  BY <1>5, WriteStep
<1>6. ASSUME NEW c \in Clients,
             \/ FlushLater(c) \/ IgnoreClient(c) \/ AttendClient(c)
             \/ EstablishNewConnection(c) \/ Read(c) \/ PeerGone(c)
      PROVE  IInv' /\ StreamStep
  BY <1>6, FlushLaterStep, AttendStep, EstablishStep, ReadStep, PeerGoneStep
<1> QED  BY <1>1, <1>2, <1>3, <1>4, <1>5, <1>6 DEF Next

LEMMA Invariant == Spec => []IInv
BY InitInv, NextStep, PTL DEF Spec

(* The data have their types, whatever is written, flushed and closed.       *)
THEOREM TypeCorrect == Spec => []TypeOK
BY Invariant, Implies, PTL

(* No buffer is written past its end by a message, by what is moved to its   *)
(* front after a partial write, or by what is put into one that has grown    *)
(* (FlushClient, io.c:885-935).                                              *)
THEOREM BuffersFit == Spec => []Fits
BY Invariant, Implies, PTL

(* Output that is kept is always known to FlushAllOutput or to select, and   *)
(* nothing of a connection is left when its number is free.                  *)
THEOREM OutputTracked == Spec => []Tracked
BY Invariant, Implies, PTL

(* Buffers, partial writes and flushes implement one stream per client: what *)
(* it reads is what was written, and a beginning of it when the connection   *)
(* breaks.                                                                   *)
THEOREM ImplementsStream == Spec => ReadsWhatWasWritten
<1>1. Init => Output!Init
  <2> SUFFICES ASSUME Init  PROVE Output!Init
    OBVIOUS
  <2>1. <<>> \o <<>> = <<>>
    BY EmptySeq, ConcatEmptySeq
  <2> QED  BY <2>1 DEF Init, Output!Init
<1>2. IInv /\ [Next]_vars => [Output!Next]_<<Stream, Open>>
  BY NextStep DEF StreamStep
<1>3. IInv /\ [Next]_vars =>
        [Output!Next]_<<[c \in Clients |-> socket[c] \o IF os.conn[c] = "open" THEN os.buf[c] ELSE <<>>],
                        {c \in Clients : os.conn[c] = "open"}>>
  BY <1>2 DEF Stream, Open
<1> QED  BY <1>1, <1>3, Invariant, PTL DEF Spec, ReadsWhatWasWritten, Output!Spec
=============================================================================
