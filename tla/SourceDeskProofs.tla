--------------------------- MODULE SourceDeskProofs ---------------------------
(***************************************************************************)
(* For chains of any length: libobs's array stays the reverse of the       *)
(* helper's vector under every mix of adding, removing and moving.  The    *)
(* invariant adds what makes a filter's place unique: numbers are handed   *)
(* out in order and never twice, so no chain holds one twice.  The dock's  *)
(* other strips leave the filter chains alone.                             *)
(***************************************************************************)
EXTENDS SourceDesk, SequenceTheorems, TLAPS

Distinct(c) == \A i \in 1..Len(c), j \in 1..Len(c) : c[i] = c[j] => i = j
Below(c, n) == \A i \in 1..Len(c) : c[i] < n

IInv ==
  /\ live \subseteq Sources
  /\ chain \in [Sources -> Seq(Nat)]
  /\ engine \in [Sources -> Seq(Nat)]
  /\ nextNum \in [Sources -> Nat]
  /\ \A s \in Sources : Distinct(chain[s]) /\ Below(chain[s], nextNum[s])
  /\ ChainMirrorsEngine
-----------------------------------------------------------------------------
(* What the operators on sequences return, place by place.                 *)

LEMMA RemoveAtPlaces ==
  ASSUME NEW c \in Seq(Nat), NEW i \in 1..Len(c)
  PROVE  /\ RemoveAt(c, i) \in Seq(Nat)
         /\ Len(RemoveAt(c, i)) = Len(c) - 1
         /\ \A j \in 1..Len(c)-1 : RemoveAt(c, i)[j] = IF j < i THEN c[j] ELSE c[j+1]
<1> DEFINE a == SubSeq(c, 1, i-1)
           b == SubSeq(c, i+1, Len(c))
           p == a \o b
<1>0. Len(c) \in Nat /\ \A j \in 1..Len(c) : c[j] \in Nat
  BY LenProperties, ElementOfSeq
<1>1. /\ a \in Seq(Nat) /\ Len(a) = i-1
      /\ \A j \in 1..i-1 : a[j] = c[j]
  <2>1. \A j \in 1..i-1 : c[j] \in Nat
    BY <1>0
  <2>2. /\ a \in Seq(Nat)
        /\ Len(a) = IF 1 <= i-1 THEN i-1-1+1 ELSE 0
        /\ \A j \in 1..i-1-1+1 : a[j] = c[1+j-1]
    BY <1>0, <2>1, SubSeqProperties
  <2> QED BY <1>0, <2>2
<1>2. /\ b \in Seq(Nat) /\ Len(b) = Len(c) - i
      /\ \A j \in 1..Len(c)-i : b[j] = c[i+j]
  <2>1. \A j \in i+1..Len(c) : c[j] \in Nat
    BY <1>0
  <2>2. /\ b \in Seq(Nat)
        /\ Len(b) = IF i+1 <= Len(c) THEN Len(c)-(i+1)+1 ELSE 0
        /\ \A j \in 1..Len(c)-(i+1)+1 : b[j] = c[i+1+j-1]
    BY <1>0, <2>1, SubSeqProperties
  <2> QED BY <1>0, <2>2
<1>3. /\ p \in Seq(Nat) /\ Len(p) = Len(a) + Len(b)
      /\ \A j \in 1..Len(a)+Len(b) : p[j] = IF j <= Len(a) THEN a[j] ELSE b[j-Len(a)]
  BY <1>1, <1>2, ConcatProperties
<1>4. RemoveAt(c, i) = p
  BY DEF RemoveAt
<1> HIDE DEF a, b, p
<1>5. ASSUME NEW j \in 1..Len(c)-1
      PROVE  p[j] = IF j < i THEN c[j] ELSE c[j+1]
  <2>0. p[j] = IF j <= Len(a) THEN a[j] ELSE b[j-Len(a)]
    BY <1>0, <1>1, <1>2, <1>3
  <2>1. CASE j < i
    <3>1. j \in 1..i-1 /\ j <= Len(a)
      BY <1>0, <1>1, <2>1
    <3> QED BY <1>1, <2>0, <2>1, <3>1
  <2>2. CASE ~(j < i)
    <3>1. p[j] = b[j-(i-1)]
      BY <1>0, <1>1, <2>0, <2>2
    <3>2. j-(i-1) \in 1..Len(c)-i /\ i + (j-(i-1)) = j+1
      BY <1>0, <2>2
    <3> QED BY <1>2, <3>1, <3>2, <2>2
  <2> QED BY <2>1, <2>2
<1>6. p \in Seq(Nat) /\ Len(p) = Len(c) - 1
  BY <1>0, <1>1, <1>2, <1>3
<1> QED BY <1>4, <1>5, <1>6

\* r is c with f inserted before place i.
Inserts(r, c, i, f) ==
  /\ r \in Seq(Nat) /\ Len(r) = Len(c) + 1
  /\ \A j \in 1..Len(c)+1 : r[j] = IF j < i THEN c[j] ELSE IF j = i THEN f ELSE c[j-1]

LEMMA InsertAtPlaces ==
  ASSUME NEW c \in Seq(Nat), NEW i \in 1..Len(c)+1, NEW f \in Nat
  PROVE  Inserts(InsertAt(c, i, f), c, i, f)
<1> DEFINE a == SubSeq(c, 1, i-1)
           b == SubSeq(c, i, Len(c))
           m == a \o <<f>>
           p == m \o b
<1>0. Len(c) \in Nat /\ \A j \in 1..Len(c) : c[j] \in Nat
  BY LenProperties, ElementOfSeq
<1>1. /\ a \in Seq(Nat) /\ Len(a) = i-1
      /\ \A j \in 1..i-1 : a[j] = c[j]
  <2>1. \A j \in 1..i-1 : c[j] \in Nat
    BY <1>0
  <2>2. /\ a \in Seq(Nat)
        /\ Len(a) = IF 1 <= i-1 THEN i-1-1+1 ELSE 0
        /\ \A j \in 1..i-1-1+1 : a[j] = c[1+j-1]
    BY <1>0, <2>1, SubSeqProperties
  <2> QED BY <1>0, <2>2
<1>2. /\ b \in Seq(Nat) /\ Len(b) = Len(c) - i + 1
      /\ \A j \in 1..Len(c)-i+1 : b[j] = c[i+j-1]
  <2>1. \A j \in i..Len(c) : c[j] \in Nat
    BY <1>0
  <2>2. /\ b \in Seq(Nat)
        /\ Len(b) = IF i <= Len(c) THEN Len(c)-i+1 ELSE 0
        /\ \A j \in 1..Len(c)-i+1 : b[j] = c[i+j-1]
    BY <1>0, <2>1, SubSeqProperties
  <2> QED BY <1>0, <2>2
<1>3. <<f>> \in Seq(Nat) /\ Len(<<f>>) = 1 /\ <<f>>[1] = f
  OBVIOUS
<1> HIDE DEF a, b
<1>4. /\ m \in Seq(Nat) /\ Len(m) = i
      /\ \A j \in 1..i-1 : m[j] = c[j]
      /\ m[i] = f
  <2>1. /\ m \in Seq(Nat) /\ Len(m) = Len(a) + Len(<<f>>)
        /\ \A j \in 1..Len(a)+Len(<<f>>) :
             m[j] = IF j <= Len(a) THEN a[j] ELSE <<f>>[j-Len(a)]
    BY <1>1, <1>3, ConcatProperties
  <2>2. m[i] = <<f>>[i-(i-1)]
    BY <1>0, <1>1, <1>3, <2>1
  <2>3. i-(i-1) = 1
    BY <1>0
  <2> QED BY <1>0, <1>1, <1>3, <2>1, <2>2, <2>3
<1> HIDE DEF m
<1>5. /\ p \in Seq(Nat) /\ Len(p) = Len(m) + Len(b)
      /\ \A j \in 1..Len(m)+Len(b) : p[j] = IF j <= Len(m) THEN m[j] ELSE b[j-Len(m)]
  BY <1>2, <1>4, ConcatProperties
<1>6. InsertAt(c, i, f) = p
  BY DEF InsertAt, p, m, a, b
<1> HIDE DEF p
<1>7. ASSUME NEW j \in 1..Len(c)+1
      PROVE  p[j] = IF j < i THEN c[j] ELSE IF j = i THEN f ELSE c[j-1]
  <2>0. p[j] = IF j <= Len(m) THEN m[j] ELSE b[j-Len(m)]
    BY <1>0, <1>2, <1>4, <1>5
  <2>1. CASE j < i
    <3>1. j \in 1..i-1 /\ j <= Len(m)
      BY <1>0, <1>4, <2>1
    <3> QED BY <1>4, <2>0, <2>1, <3>1
  <2>3. CASE j = i
    BY <1>0, <1>4, <2>0, <2>3
  <2>2. CASE ~(j <= i)
    <3>1. p[j] = b[j-i]
      BY <1>0, <1>4, <2>0, <2>2
    <3>2. j-i \in 1..Len(c)-i+1 /\ i + (j-i) - 1 = j-1
      BY <1>0, <2>2
    <3> QED BY <1>2, <3>1, <3>2, <2>2
  <2> QED BY <1>0, <2>1, <2>2, <2>3
<1> QED BY <1>0, <1>2, <1>4, <1>5, <1>6, <1>7 DEF Inserts

LEMMA ReversePlaces ==
  ASSUME NEW c \in Seq(Nat)
  PROVE  /\ Reverse(c) \in Seq(Nat)
         /\ Len(Reverse(c)) = Len(c)
         /\ \A j \in 1..Len(c) : Reverse(c)[j] = c[Len(c)-j+1]
<1>0. Len(c) \in Nat /\ \A j \in 1..Len(c) : c[j] \in Nat
  BY LenProperties, ElementOfSeq
<1>1. \A j \in 1..Len(c) : Len(c)-j+1 \in 1..Len(c)
  BY <1>0
<1> QED BY <1>0, <1>1 DEF Reverse

\* Where a filter stands, when no number is there twice.
LEMMA PositionIsThePlace ==
  ASSUME NEW c \in Seq(Nat), Distinct(c), NEW i \in 1..Len(c)
  PROVE  Position(c, c[i]) = i
<1>1. DOMAIN c = 1..Len(c)
  BY LenProperties
<1>2. Position(c, c[i]) \in 1..Len(c) /\ c[Position(c, c[i])] = c[i]
  BY <1>1 DEF Position
<1> QED BY <1>2 DEF Distinct

LEMMA ReverseIsDistinct ==
  ASSUME NEW c \in Seq(Nat), Distinct(c)
  PROVE  Distinct(Reverse(c))
<1>0. Len(c) \in Nat
  BY LenProperties
<1>1. ASSUME NEW i \in 1..Len(c), NEW j \in 1..Len(c), Reverse(c)[i] = Reverse(c)[j]
      PROVE  i = j
  <2>1. c[Len(c)-i+1] = c[Len(c)-j+1]
    BY <1>1, ReversePlaces
  <2>2. Len(c)-i+1 \in 1..Len(c) /\ Len(c)-j+1 \in 1..Len(c)
    BY <1>0
  <2>3. Len(c)-i+1 = Len(c)-j+1
    BY <2>1, <2>2 DEF Distinct
  <2> QED BY <1>0, <2>3
<1> QED BY <1>1, ReversePlaces DEF Distinct
-----------------------------------------------------------------------------
(* The two numberings meet: each verb's two moves mirror each other.       *)

LEMMA RemovedMirrors ==
  ASSUME NEW c \in Seq(Nat), NEW i \in 1..Len(c)
  PROVE  Reverse(RemoveAt(c, i)) = RemoveAt(Reverse(c), Len(c)+1-i)
<1> DEFINE n == Len(c)
           r == RemoveAt(c, i)
           d == Reverse(c)
           k == n+1-i
           x == Reverse(r)
           y == RemoveAt(d, k)
<1>0. n \in Nat /\ n+1-i \in 1..n
  BY LenProperties
<1>1. r \in Seq(Nat) /\ Len(r) = n-1
      /\ \A j \in 1..n-1 : r[j] = IF j < i THEN c[j] ELSE c[j+1]
  BY RemoveAtPlaces
<1>2. /\ d \in Seq(Nat) /\ Len(d) = n
      /\ \A j \in 1..n : d[j] = c[n-j+1]
  BY ReversePlaces
<1> HIDE DEF n, r, d
<1>3. /\ y \in Seq(Nat) /\ Len(y) = n-1
      /\ \A j \in 1..n-1 : y[j] = IF j < n+1-i THEN d[j] ELSE d[j+1]
  <2>1. k \in 1..Len(d) /\ k = n+1-i
    BY <1>0, <1>2
  <2> HIDE DEF k
  <2>2. /\ y \in Seq(Nat) /\ Len(y) = Len(d)-1
        /\ \A j \in 1..Len(d)-1 : y[j] = IF j < k THEN d[j] ELSE d[j+1]
    BY <1>2, <2>1, RemoveAtPlaces
  <2> QED BY <1>2, <2>1, <2>2
<1>4. /\ x \in Seq(Nat) /\ Len(x) = n-1
      /\ \A j \in 1..n-1 : x[j] = r[n-1-j+1]
  <2>1. /\ x \in Seq(Nat) /\ Len(x) = Len(r)
        /\ \A j \in 1..Len(r) : x[j] = r[Len(r)-j+1]
    BY <1>1, ReversePlaces
  <2> QED BY <1>1, <2>1
<1> HIDE DEF k, x, y
<1>5. ASSUME NEW j \in 1..n-1
      PROVE  x[j] = y[j]
  <2>1. n-1-j+1 \in 1..n-1 /\ j \in 1..n /\ j+1 \in 1..n
    BY <1>0
  <2>2. x[j] = IF n-1-j+1 < i THEN c[n-1-j+1] ELSE c[n-1-j+1+1]
    BY <1>1, <1>4, <2>1
  <2>3. y[j] = IF j < n+1-i THEN c[n-j+1] ELSE c[n-(j+1)+1]
    BY <1>2, <1>3, <2>1
  <2>4. /\ n-1-j+1 = n-(j+1)+1 /\ n-1-j+1+1 = n-j+1
        /\ (n-1-j+1 < i) <=> ~(j < n+1-i)
    BY <1>0
  <2> QED BY <2>2, <2>3, <2>4
<1>6. x = y
  BY <1>3, <1>4, <1>5, SeqEqual
<1> QED BY <1>6 DEF x, y, k, d, n, r

LEMMA InsertedMirrors ==
  ASSUME NEW c \in Seq(Nat), NEW i \in 1..Len(c)+1, NEW f \in Nat
  PROVE  Reverse(InsertAt(c, i, f)) = InsertAt(Reverse(c), Len(c)+2-i, f)
<1> DEFINE n == Len(c)
           r == InsertAt(c, i, f)
           d == Reverse(c)
           k == n+2-i
           x == Reverse(r)
           y == InsertAt(d, k, f)
<1>0. n \in Nat /\ n+2-i \in 1..n+1
  BY LenProperties
<1>1. r \in Seq(Nat) /\ Len(r) = n+1
      /\ \A j \in 1..n+1 : r[j] = IF j < i THEN c[j] ELSE IF j = i THEN f ELSE c[j-1]
  <2>1. Inserts(r, c, i, f)
    BY InsertAtPlaces
  <2> HIDE DEF r
  <2> QED BY <2>1 DEF Inserts
<1>2. /\ d \in Seq(Nat) /\ Len(d) = n
      /\ \A j \in 1..n : d[j] = c[n-j+1]
  BY ReversePlaces
<1> HIDE DEF n, r, d
<1>3. /\ y \in Seq(Nat) /\ Len(y) = n+1
      /\ \A j \in 1..n+1 : y[j] = IF j < n+2-i THEN d[j]
                                  ELSE IF j = n+2-i THEN f ELSE d[j-1]
  <2>1. k \in 1..Len(d)+1 /\ k = n+2-i
    BY <1>0, <1>2
  <2> HIDE DEF k
  <2>2. /\ y \in Seq(Nat) /\ Len(y) = Len(d)+1
        /\ \A j \in 1..Len(d)+1 : y[j] = IF j < k THEN d[j]
                                         ELSE IF j = k THEN f ELSE d[j-1]
    <3>1. Inserts(y, d, k, f)
      BY <1>2, <2>1, InsertAtPlaces
    <3> HIDE DEF y
    <3> QED BY <3>1 DEF Inserts
  <2> QED BY <1>2, <2>1, <2>2
<1>4. /\ x \in Seq(Nat) /\ Len(x) = n+1
      /\ \A j \in 1..n+1 : x[j] = r[n+1-j+1]
  <2>1. /\ x \in Seq(Nat) /\ Len(x) = Len(r)
        /\ \A j \in 1..Len(r) : x[j] = r[Len(r)-j+1]
    BY <1>1, ReversePlaces
  <2> HIDE DEF x
  <2> QED BY <1>0, <1>1, <2>1
<1> HIDE DEF k, x, y
<1>5. ASSUME NEW j \in 1..n+1
      PROVE  x[j] = y[j]
  <2>1. n+1-j+1 \in 1..n+1
    BY <1>0
  <2>2. x[j] = IF n+1-j+1 < i THEN c[n+1-j+1]
               ELSE IF n+1-j+1 = i THEN f ELSE c[n+1-j+1-1]
    <3> DEFINE l == n+1-j+1
    <3>1. x[j] = r[l]
      BY <1>4
    <3>2. l \in 1..n+1
      BY <2>1
    <3> HIDE DEF l
    <3>3. r[l] = IF l < i THEN c[l] ELSE IF l = i THEN f ELSE c[l-1]
      BY <1>1, <3>2
    <3>4. x[j] = IF l < i THEN c[l] ELSE IF l = i THEN f ELSE c[l-1]
      BY <3>1, <3>3
    <3> QED BY <1>0, <2>1, <3>4 DEF l
  <2>3. CASE j < n+2-i
    <3>0. j \in 1..n
      BY <1>0, <2>3
    <3>1. y[j] = c[n-j+1]
      BY <1>2, <1>3, <2>3, <3>0
    <3>2. ~(n+1-j+1 < i) /\ n+1-j+1 # i /\ n+1-j+1-1 = n-j+1
      BY <1>0, <2>3
    <3> QED BY <2>2, <3>1, <3>2
  <2>4. CASE j = n+2-i
    <3>1. y[j] = f /\ ~(n+1-j+1 < i) /\ n+1-j+1 = i
      BY <1>0, <1>3, <2>4
    <3> QED BY <2>2, <3>1
  <2>5. CASE j > n+2-i
    <3>1. j-1 \in 1..n /\ ~(j < n+2-i) /\ j # n+2-i
      BY <1>0, <2>5
    <3>2. y[j] = c[n-(j-1)+1]
      BY <1>2, <1>3, <3>1
    <3>3. n+1-j+1 < i /\ n+1-j+1 = n-(j-1)+1
      BY <1>0, <2>5
    <3> QED BY <2>2, <3>2, <3>3
  <2> QED BY <1>0, <2>3, <2>4, <2>5
<1>6. x = y
  BY <1>3, <1>4, <1>5, SeqEqual
<1> QED BY <1>6 DEF x, y, k, d, n, r

LEMMA AppendedMirrors ==
  ASSUME NEW c \in Seq(Nat), NEW f \in Nat
  PROVE  /\ Append(c, f) \in Seq(Nat)
         /\ Reverse(Append(c, f)) = <<f>> \o Reverse(c)
<1> DEFINE n == Len(c)
           r == Append(c, f)
           x == Reverse(r)
           y == <<f>> \o Reverse(c)
<1>0. n \in Nat
  BY LenProperties
<1>1. r \in Seq(Nat) /\ Len(r) = n+1
      /\ \A j \in 1..n+1 : r[j] = IF j = n+1 THEN f ELSE c[j]
  BY <1>0
<1>2. /\ Reverse(c) \in Seq(Nat) /\ Len(Reverse(c)) = n
      /\ \A j \in 1..n : Reverse(c)[j] = c[n-j+1]
  BY ReversePlaces
<1>3. <<f>> \in Seq(Nat) /\ Len(<<f>>) = 1 /\ <<f>>[1] = f
  OBVIOUS
<1>4. /\ y \in Seq(Nat) /\ Len(y) = 1+n
      /\ \A j \in 1..1+n : y[j] = IF j <= 1 THEN <<f>>[j] ELSE Reverse(c)[j-1]
  BY <1>2, <1>3, ConcatProperties
<1> HIDE DEF r
<1>5. /\ x \in Seq(Nat) /\ Len(x) = n+1
      /\ \A j \in 1..n+1 : x[j] = r[n+1-j+1]
  BY <1>1, ReversePlaces, SMTT(40)
<1> HIDE DEF n, x, y
<1>6. ASSUME NEW j \in 1..n+1
      PROVE  x[j] = y[j]
  <2>1. CASE j = 1
    BY <1>0, <1>1, <1>3, <1>4, <1>5, <2>1
  <2>2. CASE j # 1
    <3>1. j-1 \in 1..n /\ ~(j <= 1) /\ n+1-j+1 \in 1..n+1 /\ n+1-j+1 # n+1
      BY <1>0, <2>2
    <3>2. y[j] = c[n-(j-1)+1]
      BY <1>2, <1>4, <1>0, <3>1, SMTT(40)
    <3>3. x[j] = c[n+1-j+1]
      BY <1>1, <1>5, <3>1, SMTT(40)
    <3>4. n-(j-1)+1 = n+1-j+1
      BY <1>0
    <3> QED BY <3>2, <3>3, <3>4
  <2> QED BY <2>1, <2>2
<1>7. x = y
  <2>1. Len(x) = Len(y)
    BY <1>0, <1>4, <1>5
  <2> QED BY <1>4, <1>5, <1>6, <2>1, SeqEqual
<1> QED BY <1>1, <1>7 DEF x, y, n, r
-----------------------------------------------------------------------------
(* No number is handed out twice, so none stands in a chain twice.         *)

LEMMA RemovedIsDistinct ==
  ASSUME NEW c \in Seq(Nat), Distinct(c), NEW i \in 1..Len(c),
         NEW n \in Nat, Below(c, n)
  PROVE  /\ Distinct(RemoveAt(c, i)) /\ Below(RemoveAt(c, i), n)
         /\ \A j \in 1..Len(RemoveAt(c, i)) : RemoveAt(c, i)[j] # c[i]
<1> DEFINE r == RemoveAt(c, i)
<1>0. Len(c) \in Nat
  BY LenProperties
<1>1. /\ r \in Seq(Nat) /\ Len(r) = Len(c)-1
      /\ \A j \in 1..Len(c)-1 : r[j] = IF j < i THEN c[j] ELSE c[j+1]
  BY RemoveAtPlaces
<1> HIDE DEF r
<1>2. \A j \in 1..Len(r) : \E l \in 1..Len(c) : /\ l # i /\ r[j] = c[l]
                                            /\ l = IF j < i THEN j ELSE j+1
  <2> TAKE j \in 1..Len(r)
  <2>1. CASE j < i
    <3>1. j \in 1..Len(c) /\ j # i /\ r[j] = c[j]
      BY <1>0, <1>1, <2>1
    <3> QED BY <2>1, <3>1
  <2>2. CASE ~(j < i)
    <3>1. j+1 \in 1..Len(c) /\ j+1 # i /\ r[j] = c[j+1]
      BY <1>0, <1>1, <2>2
    <3> QED BY <2>2, <3>1
  <2> QED BY <2>1, <2>2
<1>3. \A j \in 1..Len(r) : r[j] # c[i]
  BY <1>2 DEF Distinct
<1>4. Below(r, n)
  BY <1>2 DEF Below
<1>5. Distinct(r)
  <2>1. SUFFICES ASSUME NEW j \in 1..Len(r), NEW k \in 1..Len(r), r[j] = r[k]
                 PROVE  j = k
    BY DEF Distinct
  <2>2. PICK l \in 1..Len(c) : r[j] = c[l] /\ l = IF j < i THEN j ELSE j+1
    BY <1>2
  <2>3. PICK o \in 1..Len(c) : r[k] = c[o] /\ o = IF k < i THEN k ELSE k+1
    BY <1>2
  <2>4. l = o
    BY <2>1, <2>2, <2>3 DEF Distinct
  <2>5. j \in Nat /\ k \in Nat /\ i \in Nat
    BY <1>0, <1>1
  <2> QED BY <2>2, <2>3, <2>4, <2>5
<1> QED BY <1>3, <1>4, <1>5 DEF r

LEMMA InsertedIsDistinct ==
  ASSUME NEW c \in Seq(Nat), Distinct(c), NEW i \in 1..Len(c)+1,
         NEW n \in Nat, Below(c, n), NEW f \in Nat, f < n,
         \A j \in 1..Len(c) : c[j] # f
  PROVE  Distinct(InsertAt(c, i, f)) /\ Below(InsertAt(c, i, f), n)
<1> DEFINE r == InsertAt(c, i, f)
<1>0. Len(c) \in Nat
  BY LenProperties
<1>1. /\ r \in Seq(Nat) /\ Len(r) = Len(c)+1
      /\ \A j \in 1..Len(c)+1 : r[j] = IF j < i THEN c[j] ELSE IF j = i THEN f ELSE c[j-1]
  <2>1. Inserts(r, c, i, f)
    BY InsertAtPlaces
  <2> HIDE DEF r
  <2> QED BY <2>1 DEF Inserts
<1> HIDE DEF r
<1>2. \A j \in 1..Len(r) :
        \/ j = i /\ r[j] = f
        \/ \E l \in 1..Len(c) : /\ j # i /\ r[j] = c[l]
                               /\ l = IF j < i THEN j ELSE j-1
  <2> TAKE j \in 1..Len(r)
  <2>1. CASE j < i
    <3>1. j \in 1..Len(c) /\ j # i /\ r[j] = c[j]
      BY <1>0, <1>1, <2>1
    <3> QED BY <2>1, <3>1
  <2>2. CASE j = i
    <3>1. r[j] = f
      BY <1>0, <1>1, <2>2
    <3> QED BY <2>2, <3>1
  <2>3. CASE j > i
    <3>1. j-1 \in 1..Len(c) /\ j # i /\ ~(j < i) /\ r[j] = c[j-1]
      BY <1>0, <1>1, <2>3
    <3> QED BY <3>1
  <2> QED BY <1>0, <1>1, <2>1, <2>2, <2>3
<1>3. Below(r, n)
  BY <1>2 DEF Below
<1>4. Distinct(r)
  <2>1. SUFFICES ASSUME NEW j \in 1..Len(r), NEW k \in 1..Len(r), r[j] = r[k]
                 PROVE  j = k
    BY DEF Distinct
  <2>2. j \in Nat /\ k \in Nat /\ i \in Nat
    BY <1>0, <1>1
  <2>3. CASE j = i
    BY <1>2, <2>1, <2>3
  <2>4. CASE k = i
    BY <1>2, <2>1, <2>4
  <2>5. CASE j # i /\ k # i
    <3>1. PICK l \in 1..Len(c) : r[j] = c[l] /\ l = IF j < i THEN j ELSE j-1
      BY <1>2, <2>5
    <3>2. PICK o \in 1..Len(c) : r[k] = c[o] /\ o = IF k < i THEN k ELSE k-1
      BY <1>2, <2>5
    <3>3. l = o
      BY <2>1, <3>1, <3>2 DEF Distinct
    <3> QED BY <2>2, <2>5, <3>1, <3>2, <3>3
  <2> QED BY <2>3, <2>4, <2>5
<1> QED BY <1>3, <1>4 DEF r

LEMMA AppendedIsDistinct ==
  ASSUME NEW c \in Seq(Nat), Distinct(c), NEW n \in Nat, Below(c, n)
  PROVE  Distinct(Append(c, n)) /\ Below(Append(c, n), n+1)
<1> DEFINE r == Append(c, n)
<1>0. Len(c) \in Nat /\ \A j \in 1..Len(c) : c[j] \in Nat
  BY LenProperties, ElementOfSeq
<1>1. Len(r) = Len(c)+1
      /\ \A j \in 1..Len(c)+1 : r[j] = IF j = Len(c)+1 THEN n ELSE c[j]
  BY <1>0
<1> HIDE DEF r
<1>2. \A j \in 1..Len(r) :
        \/ j = Len(c)+1 /\ r[j] = n
        \/ j \in 1..Len(c) /\ r[j] = c[j]
  BY <1>0, <1>1
<1>3. Below(r, n+1)
  <2>1. SUFFICES ASSUME NEW j \in 1..Len(r) PROVE r[j] < n+1
    BY DEF Below
  <2>2. r[j] = n \/ (r[j] \in Nat /\ r[j] < n)
    BY <1>0, <1>2 DEF Below
  <2> QED BY <2>2
<1>4. Distinct(r)
  <2>1. \A j \in 1..Len(c) : c[j] # n
    BY <1>0 DEF Below
  <2> QED BY <1>2, <2>1 DEF Distinct
<1> QED BY <1>3, <1>4 DEF r
-----------------------------------------------------------------------------
(* The steps.  Whoever acts, one source is touched by one verb.            *)

Verb(s) ==
  \/ AddFilter(s) \/ RemoveSource(s)
  \/ \E f \in ToSet(chain[s]) : RemoveFilter(s, f)
  \/ \E f \in ToSet(chain[s]), index \in Nat : ReorderFilter(s, f, index)
  \/ UNCHANGED <<live, chain, engine, nextNum>>

LEMMA EveryStepIsAVerb ==
  ASSUME live \subseteq Sources, [Next]_vars
  PROVE  \/ \E s \in Sources : Verb(s)
         \/ UNCHANGED <<live, chain, engine, nextNum>>
<1>1. \A s : Has(s, insp.sel) => s \in Sources /\ insp.sel \in ToSet(chain[s])
  BY DEF Has
<1>2. ASSUME NEW s \in Sources, SelectSource(s) PROVE UNCHANGED <<live, chain, engine, nextNum>>
  BY <1>2 DEF SelectSource, NoEffect
<1>3. ASSUME NEW s \in Sources, ClientEdits(s) PROVE Verb(s)
  <2>1. \A index : index \in 0..Len(chain[s]) => index \in Nat
    OBVIOUS
  <2> QED BY <1>3, <2>1 DEF ClientEdits, Verb, SetFilterEnabled, SetFilterName
<1>4. ASSUME NEW s \in Sources, ClientRemovesSource(s) PROVE Verb(s)
  BY <1>4 DEF ClientRemovesSource, Verb
<1>5. ASSUME NEW f \in Ids, SelectRow(f) \/ StartRename(f)
      PROVE  UNCHANGED <<live, chain, engine, nextNum>>
  BY <1>5, SMTT(40) DEF SelectRow, StartRename, NoEffect
<1>6. ASSUME NEW r, ToggleRow(r) PROVE UNCHANGED <<live, chain, engine, nextNum>>
  BY <1>6, SMTT(40) DEF ToggleRow, SetFilterEnabled, NoEffect
<1>7. ASSUME NEW r, NEW name, EndRename(r, name)
      PROVE  UNCHANGED <<live, chain, engine, nextNum>>
  BY <1>7 DEF EndRename, SetFilterName, NoEffect
<1>8. ASSUME NEW r, NEW to \in Ids, DropRow(r, to)
      PROVE  (\E s \in Sources : Verb(s)) \/ UNCHANGED <<live, chain, engine, nextNum>>
  <2>1. to-1 \in Nat
    BY MaxFiltersAssumption DEF Ids
  <2>2. CASE ReorderFilter(insp.src, insp.rows[r].id, to-1)
    <3>1. insp.src \in Sources /\ insp.rows[r].id \in ToSet(chain[insp.src])
      BY <2>2 DEF ReorderFilter, Has
    <3> QED BY <2>1, <2>2, <3>1 DEF Verb
  <2>3. CASE NoEffect
    BY <2>3 DEF NoEffect
  <2> QED BY <1>8, <2>2, <2>3 DEF DropRow
<1>9. ASSUME AddFilterDialog PROVE \E s \in Sources : Verb(s)
  <2>1. AddFilter(insp.src) /\ insp.src \in Sources
    BY <1>9 DEF AddFilterDialog, AddFilter
  <2> QED BY <2>1 DEF Verb
<1>10. ASSUME RemoveSelectedFilter
       PROVE  (\E s \in Sources : Verb(s)) \/ UNCHANGED <<live, chain, engine, nextNum>>
  BY <1>1, <1>10 DEF RemoveSelectedFilter, Verb, NoEffect
<1>11. ASSUME PostedRefresh \/ PostedSourceRefresh
       PROVE  UNCHANGED <<live, chain, engine, nextNum>>
  BY <1>11 DEF PostedRefresh, PostedSourceRefresh, NoEffect
<1>12. CASE UNCHANGED vars
  BY <1>12 DEF vars
<1>13. CASE Next
  BY <1>13, <1>2, <1>3, <1>4, <1>5, <1>6, <1>7, <1>8, <1>9, <1>10, <1>11 DEF Next
<1> QED BY <1>12, <1>13

\* A verb that leaves one source in good order leaves all of them.
LEMMA OneSourceKept ==
  ASSUME IInv, NEW s \in Sources, NEW c \in Seq(Nat), NEW n \in Nat,
         live' \subseteq Sources,
         chain' = [chain EXCEPT ![s] = c],
         engine' = [engine EXCEPT ![s] = Reverse(c)],
         nextNum' = [nextNum EXCEPT ![s] = n],
         Distinct(c), Below(c, n)
  PROVE  IInv'
<1>0. Reverse(c) \in Seq(Nat)
  BY ReversePlaces
<1>1. /\ chain' \in [Sources -> Seq(Nat)]
      /\ engine' \in [Sources -> Seq(Nat)]
      /\ nextNum' \in [Sources -> Nat]
  BY <1>0 DEF IInv
<1>2. ASSUME NEW t \in Sources
      PROVE  /\ Distinct(chain'[t]) /\ Below(chain'[t], nextNum'[t])
             /\ engine'[t] = Reverse(chain'[t])
  <2>1. CASE t = s
    <3>1. chain'[t] = c /\ engine'[t] = Reverse(c) /\ nextNum'[t] = n
      BY <2>1 DEF IInv
    <3> QED BY <3>1
  <2>2. CASE t # s
    <3>1. chain'[t] = chain[t] /\ engine'[t] = engine[t] /\ nextNum'[t] = nextNum[t]
      BY <2>2 DEF IInv
    <3> QED BY <3>1 DEF IInv, ChainMirrorsEngine
  <2> QED BY <2>1, <2>2
<1>3. ChainMirrorsEngine'
  BY <1>2 DEF ChainMirrorsEngine
<1> QED BY <1>1, <1>2, <1>3 DEF IInv

\* Where a filter of the chain stands in the chain and in the array.
LEMMA BothPositions ==
  ASSUME NEW c \in Seq(Nat), Distinct(c), NEW f \in ToSet(c)
  PROVE  \E i \in 1..Len(c) :
           /\ c[i] = f /\ Position(c, f) = i
           /\ Position(Reverse(c), f) = Len(c)+1-i
<1>0. Len(c) \in Nat /\ DOMAIN c = 1..Len(c)
  BY LenProperties
<1>1. PICK i \in 1..Len(c) : c[i] = f
  BY <1>0 DEF ToSet
<1>2. Position(c, f) = i
  BY <1>1, PositionIsThePlace
<1>3. Len(c)+1-i \in 1..Len(c) /\ Len(c)-(Len(c)+1-i)+1 = i
  BY <1>0
<1>4. Reverse(c) \in Seq(Nat) /\ Distinct(Reverse(c)) /\ Len(Reverse(c)) = Len(c)
  BY ReversePlaces, ReverseIsDistinct
<1>5. Reverse(c)[Len(c)+1-i] = f
  BY <1>1, <1>3, ReversePlaces
<1>6. Position(Reverse(c), f) = Len(c)+1-i
  BY <1>3, <1>4, <1>5, PositionIsThePlace
<1> QED BY <1>1, <1>2, <1>6

LEMMA AddKeeps ==
  ASSUME IInv, NEW s \in Sources, AddFilter(s)
  PROVE  IInv'
<1>1. /\ chain[s] \in Seq(Nat) /\ nextNum[s] \in Nat
      /\ Distinct(chain[s]) /\ Below(chain[s], nextNum[s])
      /\ engine[s] = Reverse(chain[s])
  BY DEF IInv, ChainMirrorsEngine
<1>2. /\ Append(chain[s], nextNum[s]) \in Seq(Nat)
      /\ Reverse(Append(chain[s], nextNum[s])) = <<nextNum[s]>> \o Reverse(chain[s])
  BY <1>1, AppendedMirrors
<1>3. /\ Distinct(Append(chain[s], nextNum[s]))
      /\ Below(Append(chain[s], nextNum[s]), nextNum[s]+1)
  BY <1>1, AppendedIsDistinct
<1>4. /\ live' \subseteq Sources
      /\ chain' = [chain EXCEPT ![s] = Append(chain[s], nextNum[s])]
      /\ engine' = [engine EXCEPT ![s] = <<nextNum[s]>> \o engine[s]]
      /\ nextNum' = [nextNum EXCEPT ![s] = nextNum[s]+1]
  BY DEF AddFilter, IInv
<1>5. nextNum[s]+1 \in Nat
  BY <1>1
<1> QED BY <1>1, <1>2, <1>3, <1>4, <1>5, OneSourceKept

LEMMA RemoveSourceKeeps ==
  ASSUME IInv, NEW s \in Sources, RemoveSource(s)
  PROVE  IInv'
<1>1. << >> \in Seq(Nat) /\ Reverse(<< >>) = << >>
  BY DEF Reverse
<1>2. Distinct(<< >>) /\ Below(<< >>, nextNum[s])
  BY DEF Distinct, Below
<1>3. /\ live' \subseteq Sources
      /\ chain' = [chain EXCEPT ![s] = << >>]
      /\ engine' = [engine EXCEPT ![s] = Reverse(<< >>)]
      /\ nextNum' = [nextNum EXCEPT ![s] = nextNum[s]]
      /\ nextNum[s] \in Nat
  BY <1>1 DEF RemoveSource, IInv
<1> QED BY <1>1, <1>2, <1>3, OneSourceKept

LEMMA RemoveFilterKeeps ==
  ASSUME IInv, NEW s \in Sources, NEW f \in ToSet(chain[s]), RemoveFilter(s, f)
  PROVE  IInv'
<1> DEFINE c == chain[s]
<1>1. /\ c \in Seq(Nat) /\ nextNum[s] \in Nat
      /\ Distinct(c) /\ Below(c, nextNum[s])
      /\ engine[s] = Reverse(c)
  BY DEF IInv, ChainMirrorsEngine
<1>2. PICK i \in 1..Len(c) : /\ Position(c, f) = i
                            /\ Position(Reverse(c), f) = Len(c)+1-i
  BY <1>1, BothPositions
<1>3. /\ live' \subseteq Sources
      /\ chain' = [chain EXCEPT ![s] = RemoveAt(c, i)]
      /\ engine' = [engine EXCEPT ![s] = RemoveAt(Reverse(c), Len(c)+1-i)]
      /\ nextNum' = [nextNum EXCEPT ![s] = nextNum[s]]
  BY <1>1, <1>2 DEF RemoveFilter, IInv
<1> HIDE DEF c
<1>4. Reverse(RemoveAt(c, i)) = RemoveAt(Reverse(c), Len(c)+1-i)
  BY <1>1, RemovedMirrors
<1>5. RemoveAt(c, i) \in Seq(Nat)
  BY <1>1, RemoveAtPlaces
<1>6. Distinct(RemoveAt(c, i)) /\ Below(RemoveAt(c, i), nextNum[s])
  BY <1>1, RemovedIsDistinct
<1> QED BY <1>1, <1>3, <1>4, <1>5, <1>6, OneSourceKept

LEMMA ReorderKeeps ==
  ASSUME IInv, NEW s \in Sources, NEW f \in ToSet(chain[s]), NEW index \in Nat,
         ReorderFilter(s, f, index)
  PROVE  IInv'
<1> DEFINE c == chain[s]
           to == Target(s, index)
<1>1. /\ c \in Seq(Nat) /\ nextNum[s] \in Nat
      /\ Distinct(c) /\ Below(c, nextNum[s])
      /\ engine[s] = Reverse(c)
  BY DEF IInv, ChainMirrorsEngine
<1>2. PICK i \in 1..Len(c) : /\ c[i] = f /\ Position(c, f) = i
                            /\ Position(Reverse(c), f) = Len(c)+1-i
  BY <1>1, BothPositions
<1>3. Len(c) \in Nat /\ c[i] \in Nat /\ c[i] < nextNum[s]
  BY <1>1, <1>2, LenProperties, ElementOfSeq DEF Below
<1>4. to \in 1..Len(c)
  BY <1>2, <1>3 DEF Target
<1> DEFINE r == RemoveAt(c, i)
           m == InsertAt(r, to, f)
<1>5. /\ live' \subseteq Sources
      /\ chain' = [chain EXCEPT ![s] = m]
      /\ engine' = [engine EXCEPT ![s] =
                      InsertAt(RemoveAt(Reverse(c), Len(c)+1-i), Len(c)+1-to, f)]
      /\ nextNum' = [nextNum EXCEPT ![s] = nextNum[s]]
  BY <1>1, <1>2 DEF ReorderFilter, Moved, EngineTarget, IInv
<1> HIDE DEF c, to
<1>6. /\ r \in Seq(Nat) /\ Len(r) = Len(c)-1
      /\ Reverse(r) = RemoveAt(Reverse(c), Len(c)+1-i)
  BY <1>1, RemoveAtPlaces, RemovedMirrors
<1>7. /\ Distinct(r) /\ Below(r, nextNum[s])
      /\ \A j \in 1..Len(r) : r[j] # f
  BY <1>1, <1>2, RemovedIsDistinct
<1> HIDE DEF r
<1>8. to \in 1..Len(r)+1 /\ Len(r)+2-to = Len(c)+1-to
  BY <1>3, <1>4, <1>6
<1>9. /\ m \in Seq(Nat)
      /\ Reverse(m) = InsertAt(Reverse(r), Len(r)+2-to, f)
  <2>1. f \in Nat /\ r \in Seq(Nat) /\ to \in 1..Len(r)+1
    BY <1>2, <1>3, <1>6, <1>8
  <2>2. InsertAt(r, to, f) \in Seq(Nat)
    BY <2>1, InsertAtPlaces DEF Inserts
  <2>3. Reverse(InsertAt(r, to, f)) = InsertAt(Reverse(r), Len(r)+2-to, f)
    BY ONLY <2>1, InsertedMirrors
  <2> QED BY <2>2, <2>3
<1>10. Distinct(m) /\ Below(m, nextNum[s])
  BY <1>1, <1>2, <1>3, <1>6, <1>7, <1>8, InsertedIsDistinct
<1> HIDE DEF m
<1>11. engine' = [engine EXCEPT ![s] = Reverse(m)]
  BY <1>5, <1>6, <1>8, <1>9
<1> QED BY <1>1, <1>5, <1>9, <1>10, <1>11, OneSourceKept

LEMMA StepKeeps ==
  ASSUME IInv, [Next]_vars
  PROVE  IInv'
<1>1. CASE UNCHANGED <<live, chain, engine, nextNum>>
  BY <1>1 DEF IInv, ChainMirrorsEngine
<1>2. ASSUME NEW s \in Sources, Verb(s) PROVE IInv'
  BY <1>1, <1>2, AddKeeps, RemoveSourceKeeps, RemoveFilterKeeps, ReorderKeeps DEF Verb
<1> QED BY <1>1, <1>2, EveryStepIsAVerb DEF IInv

LEMMA MirrorBegins == Init => IInv
<1>1. << >> \in Seq(Nat) /\ Reverse(<< >>) = << >>
  BY DEF Reverse
<1> QED BY <1>1 DEF Init, IInv, ChainMirrorsEngine, Distinct, Below

\* Whatever clients and the window do in whatever order, and however long the
\* chains, the place a client is told is the place libobs applies the filter:
\* the two arrays are each other's reverse (AddFilter, RemoveFilter,
\* ReorderFilter).
THEOREM MirrorHolds == Spec => []ChainMirrorsEngine
<1>1. Init => IInv
  BY MirrorBegins
<1>2. IInv /\ [Next]_vars => IInv'
  BY StepKeeps
<1>3. IInv => ChainMirrorsEngine
  BY DEF IInv
<1> QED BY <1>1, <1>2, <1>3, PTL DEF Spec

-----------------------------------------------------------------------------
(* The chain beside the dock's other strips.                               *)

LEMMA DeskStepKeeps ==
  ASSUME IInv, [DeskNext]_deskVars
  PROVE  IInv'
<1>1. CASE UNCHANGED <<live, chain, engine, nextNum>>
  BY <1>1 DEF IInv, ChainMirrorsEngine
<1>2. CASE [Next]_vars
  BY <1>2, StepKeeps
<1>3. CASE Selection
  BY <1>2, <1>3 DEF Selection, Next
<1>4. CASE FilterStep
  BY <1>2, <1>4 DEF FilterStep, Next
<1>5. CASE AudioStep
  BY <1>1, <1>5 DEF AudioStep
<1>6. CASE MediaStep \/ PlaybackStep
  BY <1>1, <1>6 DEF MediaStep, PlaybackStep
<1> QED BY <1>2, <1>3, <1>4, <1>5, <1>6 DEF DeskNext, deskVars

\* Whatever is done to the selection, the mixer and the transport strip and in
\* whatever order clients and the window edit chains of any length, libobs's array
\* is the chain read backwards (AddFilter, RemoveFilter, ReorderFilter).
THEOREM DeskMirrorHolds == DeskSpec => []ChainMirrorsEngine
<1>1. DeskInit => IInv
  BY MirrorBegins DEF DeskInit
<1>2. IInv /\ [DeskNext]_deskVars => IInv'
  BY DeskStepKeeps
<1>3. IInv => ChainMirrorsEngine
  BY DEF IInv
<1> QED BY <1>1, <1>2, <1>3, PTL DEF DeskSpec

LEMMA LiveShrinks ==
  ASSUME IInv, [DeskNext]_deskVars
  PROVE  live' \subseteq live /\ live \subseteq Sources
<1>1. CASE [Next]_vars
  BY <1>1, EveryStepIsAVerb DEF IInv, Verb, AddFilter, RemoveSource, RemoveFilter, ReorderFilter
<1>2. CASE UNCHANGED live
  BY <1>2 DEF IInv
<1>3. CASE Selection \/ FilterStep
  BY <1>1, <1>3 DEF Selection, FilterStep, Next
<1>4. CASE AudioStep \/ MediaStep \/ PlaybackStep
  BY <1>2, <1>4 DEF AudioStep, MediaStep, PlaybackStep
<1> QED BY <1>1, <1>3, <1>4 DEF DeskNext, deskVars
-----------------------------------------------------------------------------
(* The transport strip: what a client was told, and where a seek goes.     *)

Owes(m) == m.told # m.state => m.heard > 0 \/ m.silent

\* One field of a file at a time.
Alike(n, m) == n.told = m.told /\ n.silent = m.silent

LEMMA FieldsSet ==
  ASSUME NEW m \in File, NEW st \in MediaStates, NEW pos \in Positions, NEW h \in Nat,
         NEW acts \in Seq(Actions \cup Positions)
  PROVE  /\ LET n == [m EXCEPT !.state = st]
            IN n \in File /\ Alike(n, m) /\ n.state = st /\ n.heard = m.heard
         /\ LET n == [m EXCEPT !.heard = h]
            IN n \in File /\ Alike(n, m) /\ n.state = m.state /\ n.heard = h
         /\ LET n == [m EXCEPT !.pos = pos]
            IN n \in File /\ Alike(n, m) /\ n.state = m.state /\ n.heard = m.heard
         /\ LET n == [m EXCEPT !.acts = acts]
            IN n \in File /\ Alike(n, m) /\ n.state = m.state /\ n.heard = m.heard /\ n.acts = acts
<1>1. LET n == [m EXCEPT !.state = st]
      IN n \in File /\ Alike(n, m) /\ n.state = st /\ n.heard = m.heard
  BY DEF File, Alike
<1>2. LET n == [m EXCEPT !.heard = h]
      IN n \in File /\ Alike(n, m) /\ n.state = m.state /\ n.heard = h
  BY DEF File, Alike
<1>3. LET n == [m EXCEPT !.pos = pos]
      IN n \in File /\ Alike(n, m) /\ n.state = m.state /\ n.heard = m.heard
  BY DEF File, Alike
<1>4. LET n == [m EXCEPT !.acts = acts]
      IN n \in File /\ Alike(n, m) /\ n.state = m.state /\ n.heard = m.heard /\ n.acts = acts
  BY DEF File, Alike
<1> QED BY <1>1, <1>2, <1>3, <1>4

\* A signal queues an evaluation, so a change of state is owed.
LEMMA SignalledOwes ==
  ASSUME NEW m \in File, NEW st \in MediaStates, NEW signal \in MediaSignals
  PROVE  LET n == Signalled(m, st, signal)
         IN n \in File /\ n.heard > 0 /\ n.state = st /\ Alike(n, m)
<1> DEFINE m1 == [m EXCEPT !.state = st]
<1>1. m1 \in File /\ Alike(m1, m) /\ m1.state = st /\ m1.heard = m.heard
  BY FieldsSet DEF File
<1>2. m.heard \in Nat /\ m.heard + 1 \in Nat /\ m.heard + 1 > 0
  BY DEF File
<1>3. Signalled(m, st, signal) = [m1 EXCEPT !.heard = m.heard + 1]
  BY <1>1 DEF Signalled
<1> HIDE DEF m1
<1>4. LET n == [m1 EXCEPT !.heard = m.heard + 1]
      IN n \in File /\ Alike(n, m1) /\ n.state = m1.state /\ n.heard = m.heard + 1
  BY <1>1, <1>2 DEF File, Alike
<1> QED BY <1>1, <1>2, <1>3, <1>4 DEF Alike

\* The video thread carries an action out, or the playback thread moves on.
LEMMA PerformedOwes ==
  ASSUME NEW m \in File, NEW act \in Actions \cup Positions
  PROVE  LET n == Performed(m, act)
         IN n \in File /\ Alike(n, m) /\ (n.heard > 0 \/ (n.state = m.state /\ n.heard = m.heard))
<1> DEFINE n == Performed(m, act)
<1>1. m.state \in MediaStates /\ "start" \in Positions
  BY DEF File, Positions
<1>2. CASE act \in {"play", "pause"}
  <2>1. "playing" \in MediaStates /\ "paused" \in MediaStates
    BY DEF MediaStates
  <2>2. n = IF act = "play" THEN Signalled(m, "playing", "media_play")
                            ELSE Signalled(m, "paused", "media_pause")
    BY <1>2 DEF Performed, Positions
  <2>3. "media_play" \in MediaSignals /\ "media_pause" \in MediaSignals
    BY DEF MediaSignals
  <2> HIDE DEF n
  <2> QED BY <2>1, <2>2, <2>3, SignalledOwes DEF n
<1>3. CASE act \in {"restart", "stop"}
  <2> DEFINE q == IF act = "restart" THEN Signalled(m, "playing", "media_restart")
                                     ELSE Signalled(m, "stopped", "media_stopped")
  <2>1. n = [q EXCEPT !.pos = "start"]
    BY <1>3 DEF Performed, Positions
  <2>2. q \in File /\ q.heard > 0 /\ Alike(q, m)
    BY SignalledOwes DEF MediaStates, MediaSignals
  <2> HIDE DEF q
  <2>3. LET r == [q EXCEPT !.pos = "start"]
        IN r \in File /\ Alike(r, q) /\ r.heard = q.heard
    BY <1>1, <2>2 DEF File, Alike
  <2> QED BY <2>1, <2>2, <2>3 DEF Alike
<1>4. CASE act \in Positions
  <2>1. n = [m EXCEPT !.pos = act]
    BY <1>4 DEF Performed, Positions
  <2>2. LET r == [m EXCEPT !.pos = act]
        IN r \in File /\ Alike(r, m) /\ r.state = m.state /\ r.heard = m.heard
    BY <1>4 DEF File, Alike
  <2> QED BY <2>1, <2>2
<1> QED BY <1>2, <1>3, <1>4 DEF Actions

\* What one file's change leaves of the others.
LEMMA FileChanges ==
  ASSUME MediaInv, live' \subseteq live, live \subseteq Sources,
         NEW s \in live, NEW m \in File, Owes(media[s]) => Owes(m),
         media' = [media EXCEPT ![s] = m]
  PROVE  media' \in [Sources -> File] /\ AnnouncedOrOwed'
<1>1. media \in [Sources -> File] /\ \A r \in live : Owes(media[r])
  BY DEF MediaInv, MediaType, AnnouncedOrOwed, Owes
<1>2. \A r \in live : Owes(media'[r])
  BY <1>1
<1> QED BY <1>1, <1>2 DEF AnnouncedOrOwed, Owes

LEMMA QueuedKeeps ==
  ASSUME MediaInv, live' \subseteq live, live \subseteq Sources,
         NEW s \in live, NEW act \in Actions \cup Positions, media' = Queued(s, act)
  PROVE  media' \in [Sources -> File] /\ AnnouncedOrOwed'
<1> DEFINE m == [media[s] EXCEPT !.acts = Append(media[s].acts, act)]
<1>1. media[s] \in File /\ media' = [media EXCEPT ![s] = m]
  BY DEF MediaInv, MediaType, Queued
<1>2. Append(media[s].acts, act) \in Seq(Actions \cup Positions)
  BY <1>1, AppendProperties DEF File
<1>3. m \in File /\ (Owes(media[s]) => Owes(m))
  BY <1>1, <1>2 DEF File, Owes
<1> HIDE DEF m
<1> QED BY <1>1, <1>3, FileChanges

\* refreshMediaStatus keeps the handle where a hand holds it, and notes when it does not.
LEMMA RefreshedLeads ==
  ASSUME NEW t \in Transport, Leads(t), NEW m \in File
  PROVE  /\ Refreshed(t, m) \in Transport /\ Leads(Refreshed(t, m))
         /\ Refreshed(t, m).hand = t.hand
<1>1. m.state \in MediaStates /\ m.pos \in Positions
  BY DEF File
<1>2. CASE m.state = "opening"
  BY <1>1, <1>2 DEF Refreshed, Transport, Leads
<1>3. CASE m.state # "opening"
  BY <1>1, <1>3 DEF Refreshed, Transport, Leads
<1> QED BY <1>2, <1>3

\* A seek is queued, or not when the file has no duration.
LEMMA SeekKeeps ==
  ASSUME MediaInv, live' \subseteq live, live \subseteq Sources, NEW pos \in Positions,
         \/ UNCHANGED media
         \/ \E s \in live : SeekMedia(s, pos)
  PROVE  media' \in [Sources -> File] /\ AnnouncedOrOwed'
<1>1. CASE UNCHANGED media
  BY <1>1 DEF MediaInv, MediaType, AnnouncedOrOwed
<1>2. ASSUME NEW s \in live, SeekMedia(s, pos) PROVE media' = Queued(s, pos) \/ UNCHANGED media
  BY <1>2 DEF SeekMedia
<1> QED BY <1>1, <1>2, QueuedKeeps

LEMMA FlushKeeps ==
  ASSUME MediaInv, live' \subseteq live, live \subseteq Sources, NEW t, t.pos \in Positions,
         FlushSeek(t)
  PROVE  media' \in [Sources -> File] /\ AnnouncedOrOwed'
BY SeekKeeps DEF FlushSeek

LEMMA ControlKeeps ==
  ASSUME MediaInv, live' \subseteq live, live \subseteq Sources, NEW s \in live,
         NEW action \in Actions, NEW who \in {"client", "window"}, ControlMedia(s, action, who)
  PROVE  media' \in [Sources -> File] /\ AnnouncedOrOwed' /\ waiting' = who
<1>1. Queues(s, action) \in Actions
  BY DEF Queues, Actions
<1> QED BY <1>1, QueuedKeeps DEF ControlMedia

LEMMA EvaluatedOwes ==
  ASSUME NEW m \in File
  PROVE  Evaluated(m) \in File /\ Owes(Evaluated(m))
BY DEF File, Owes, Evaluated

\* What libobs's threads and the main thread's evaluations do to the files.
LEMMA FilesNext ==
  ASSUME MediaInv, live' \subseteq live, live \subseteq Sources, NEW s \in Sources,
         VideoTick(s) \/ Playback(s) \/ QueuedEvaluation(s) \/ PollTick
  PROVE  media' \in [Sources -> File] /\ AnnouncedOrOwed' /\ UNCHANGED <<transport, waiting>>
<1> USE DEF MediaInv, MediaType
<1>1. ASSUME VideoTick(s) PROVE media' \in [Sources -> File] /\ AnnouncedOrOwed'
  <2> DEFINE acts == media[s].acts
             q == [media[s] EXCEPT !.acts = Tail(acts)]
             m == Performed(q, Head(acts))
  <2>0. media' = [media EXCEPT ![s] = m]
    BY <1>1, Zenon DEF VideoTick
  <2> HIDE DEF m
  <2>1. s \in live /\ acts # << >> /\ media[s] \in File /\ media' = [media EXCEPT ![s] = m]
    BY <1>1, <2>0 DEF VideoTick
  <2>2. acts \in Seq(Actions \cup Positions)
    BY <2>1 DEF File
  <2>3. Head(acts) \in Actions \cup Positions /\ Tail(acts) \in Seq(Actions \cup Positions)
    BY <2>1, <2>2, HeadTailProperties
  <2>4. q \in File /\ Alike(q, media[s]) /\ q.state = media[s].state /\ q.heard = media[s].heard
    BY <2>1, <2>3 DEF File, Alike
  <2> HIDE DEF q, acts
  <2>5. m \in File /\ Alike(m, q) /\ (m.heard > 0 \/ (m.state = q.state /\ m.heard = q.heard))
    BY <2>3, <2>4, PerformedOwes DEF m
  <2>6. Owes(media[s]) => Owes(m)
    BY <2>4, <2>5 DEF Owes, Alike
  <2> QED BY <2>1, <2>5, <2>6, FileChanges
<1>2. ASSUME Playback(s) PROVE media' \in [Sources -> File] /\ AnnouncedOrOwed'
  <2>1. s \in live /\ media[s] \in File
    BY <1>2 DEF Playback
  <2>2. CASE media' = [media EXCEPT ![s].state = "opening", ![s].silent = TRUE]
    <3> DEFINE m == [media[s] EXCEPT !.state = "opening", !.silent = TRUE]
    <3>1. m \in File /\ Owes(m)
      BY <2>1 DEF File, Owes, MediaStates
    <3>2. media' = [media EXCEPT ![s] = m]
      BY <2>1, <2>2
    <3> HIDE DEF m
    <3> QED BY <2>1, <3>1, <3>2, FileChanges
  <2>3. ASSUME NEW pos \in Positions, media' = [media EXCEPT ![s].pos = pos]
        PROVE  media' \in [Sources -> File] /\ AnnouncedOrOwed'
    <3> DEFINE m == [media[s] EXCEPT !.pos = pos]
    <3>1. m \in File /\ (Owes(media[s]) => Owes(m))
      BY <2>1 DEF File, Owes
    <3>2. media' = [media EXCEPT ![s] = m]
      BY <2>1, <2>3
    <3> HIDE DEF m
    <3> QED BY <2>1, <3>1, <3>2, FileChanges
  <2>4. ASSUME NEW st \in MediaStates, NEW signal \in MediaSignals,
               media' = [media EXCEPT ![s] = Signalled(media[s], st, signal)]
        PROVE  media' \in [Sources -> File] /\ AnnouncedOrOwed'
    <3> DEFINE m == Signalled(media[s], st, signal)
    <3>1. m \in File /\ Owes(m)
      BY <2>1, SignalledOwes DEF Owes
    <3> HIDE DEF m
    <3>2. media' = [media EXCEPT ![s] = m]
      BY <2>4 DEF m
    <3> QED BY <2>1, <3>1, <3>2, FileChanges
  <2>5. \/ media' = [media EXCEPT ![s].state = "opening", ![s].silent = TRUE]
        \/ media' = [media EXCEPT ![s] = Signalled(@, "ended", "media_ended")]
        \/ \E pos \in Positions : media' = [media EXCEPT ![s].pos = pos]
        \/ media' = [media EXCEPT ![s] = Signalled(@, "playing", "media_started")]
    BY <1>2 DEF Playback
  <2> QED BY <2>2, <2>3, <2>4, <2>5 DEF MediaStates, MediaSignals
<1>3. ASSUME QueuedEvaluation(s) PROVE media' \in [Sources -> File] /\ AnnouncedOrOwed'
  <2> DEFINE q == [media[s] EXCEPT !.heard = media[s].heard - 1]
  <2>0. media' = [media EXCEPT ![s] = Evaluated(q)]
    BY <1>3, Zenon DEF QueuedEvaluation
  <2> HIDE DEF q
  <2>1. /\ s \in live /\ media[s] \in File /\ media[s].heard > 0
        /\ media' = [media EXCEPT ![s] = Evaluated(q)]
    BY <1>3, <2>0 DEF QueuedEvaluation
  <2>2. q \in File
    <3>1. media[s].heard - 1 \in Nat /\ media[s] \in File
      BY <2>1 DEF File
    <3> QED BY ONLY <3>1 DEF File, q
  <2> QED BY <2>1, <2>2, EvaluatedOwes, FileChanges
<1>4. ASSUME PollTick PROVE media' \in [Sources -> File] /\ AnnouncedOrOwed'
  <2>1. media' = [r \in Sources |-> IF r \in live THEN Evaluated(media[r]) ELSE media[r]]
    BY <1>4 DEF PollTick
  <2>2. \A r \in Sources : media[r] \in File
    OBVIOUS
  <2>3. \A r \in live' : media'[r] \in File /\ Owes(media'[r])
    BY <2>1, <2>2, EvaluatedOwes
  <2>4. media' \in [Sources -> File]
    BY <2>1, <2>2, EvaluatedOwes, SMTT(40)
  <2> QED BY <2>3, <2>4 DEF AnnouncedOrOwed, Owes
<1>5. UNCHANGED <<transport, waiting>>
  BY DEF VideoTick, Playback, QueuedEvaluation, PollTick
<1> QED BY <1>1, <1>2, <1>3, <1>4, <1>5

\* The strip, let go of by a release or a click, read again from the file.
LEMMA RefreshKeeps ==
  ASSUME NEW t \in Transport, Leads(t), media' \in [Sources -> File], live \subseteq Sources,
         Refresh(t)
  PROVE  transport' \in Transport /\ Leads(transport')
BY RefreshedLeads DEF Refresh

LEMMA MediaNext ==
  ASSUME MediaInv, live' \subseteq live, live \subseteq Sources, [DeskNext]_deskVars
  PROVE  MediaInv'
<1>1. /\ media \in [Sources -> File] /\ transport \in Transport /\ Leads(transport)
      /\ waiting \in {"nobody", "client", "window"}
  BY DEF MediaInv, MediaType
<1>2. ASSUME media' \in [Sources -> File], AnnouncedOrOwed', transport' \in Transport,
             Leads(transport'), waiting' \in {"nobody", "client", "window"}
      PROVE  MediaInv'
  BY <1>2 DEF MediaInv, MediaType, Leads
<1>3. ASSUME UNCHANGED media PROVE media' \in [Sources -> File] /\ AnnouncedOrOwed'
  BY <1>3 DEF MediaInv, MediaType, AnnouncedOrOwed
<1>4. ASSUME UNCHANGED mediaVars PROVE MediaInv'
  BY <1>1, <1>2, <1>3, <1>4 DEF mediaVars
<1>5. ASSUME NEW s, s \in Sources \/ s = None, ~transport.down, Rebind(s) PROVE MediaInv'
  <2> DEFINE t == [transport EXCEPT !.refilled = transport.refilled \/ transport.trail]
  <2>1. t \in Transport /\ Leads(t) /\ [t EXCEPT !.down = FALSE] \in Transport
        /\ Leads([t EXCEPT !.down = FALSE])
    BY <1>1 DEF Transport, Leads
  <2>2. \/ transport' = [t EXCEPT !.down = FALSE]
        \/ s \in live /\ transport' = Refreshed(t, media[s])
        \/ transport' = t
    BY <1>5 DEF Rebind, MediaRebound
  <2> HIDE DEF t
  <2>3. transport' \in Transport /\ Leads(transport')
    BY <1>1, <1>5, <2>1, <2>2, RefreshedLeads
  <2> QED BY <1>1, <1>2, <1>3, <1>5, <2>3 DEF Rebind
<1>6. CASE Selection
  <2>1. ASSUME Rebind(None) PROVE MediaInv'
    <3> DEFINE t == [[transport EXCEPT !.refilled = transport.refilled \/ transport.trail]
                        EXCEPT !.down = FALSE]
    <3>1. t \in Transport /\ Leads(t)
      BY <1>1 DEF Transport, Leads
    <3>2. transport' = t
      BY <2>1 DEF Rebind, MediaRebound
    <3> HIDE DEF t
    <3> QED BY <1>1, <1>2, <1>3, <2>1, <3>1, <3>2 DEF Rebind
  <2>2. ASSUME NEW s \in Sources, HandsFree, SelectSource(s), Rebind(s) PROVE MediaInv'
    BY <1>5, <2>2 DEF HandsFree, SelectSource
  <2>3. CASE UNCHANGED mediaVars
    BY <1>4, <2>3
  <2> QED BY <1>6, <2>1, <2>2, <2>3 DEF Selection
<1>7. CASE FilterStep \/ AudioStep
  BY <1>4, <1>7 DEF FilterStep, AudioStep
<1>8. CASE MediaStep
  <2>1. ASSUME NEW pos \in Positions, MoveHandle(pos) PROVE MediaInv'
    <3> DEFINE t == [transport EXCEPT !.pos = pos, !.dirty = TRUE, !.hand = pos, !.refilled = FALSE]
               u(b) == [t EXCEPT !.trail = b]
    <3>1. t \in Transport /\ t.pos = pos /\ t.hand = pos
      BY <1>1 DEF Transport
    <3>2. /\ \/ transport' = u(FALSE) /\ FlushSeek(t)
             \/ transport' = u(TRUE) /\ UNCHANGED media
          /\ UNCHANGED waiting
      BY <2>1, Zenon DEF MoveHandle
    <3> HIDE DEF t
    <3>3. u(FALSE) \in Transport /\ Leads(u(FALSE)) /\ u(TRUE) \in Transport /\ Leads(u(TRUE))
      BY <3>1 DEF Transport, Leads
    <3> HIDE DEF u
    <3> QED BY <1>1, <1>2, <1>3, <3>1, <3>2, <3>3, FlushKeeps
  <2>2. ASSUME PressHandle PROVE MediaInv'
    <3>1. transport' \in Transport /\ Leads(transport')
      BY <1>1, <2>2 DEF PressHandle, Transport, Leads
    <3> QED BY <1>1, <1>2, <1>3, <2>2, <3>1 DEF PressHandle
  <2>3. ASSUME ReleaseHandle PROVE MediaInv'
    <3> DEFINE t == [transport EXCEPT !.down = FALSE, !.trail = FALSE]
               u == [transport EXCEPT !.down = FALSE]
    <3>1. t \in Transport /\ Leads(t) /\ u \in Transport /\ Leads(u)
      BY <1>1 DEF Transport, Leads
    <3>2. /\ \/ FlushSeek(transport) /\ Refresh(t)
             \/ UNCHANGED media /\ Refresh(u)
          /\ UNCHANGED waiting
      BY <2>3, Zenon DEF ReleaseHandle
    <3>3. media' \in [Sources -> File] /\ AnnouncedOrOwed'
      BY <1>1, <1>3, <3>2, FlushKeeps DEF Transport
    <3> HIDE DEF t, u
    <3>4. transport' \in Transport /\ Leads(transport')
      BY <3>1, <3>2, <3>3, RefreshKeeps
    <3> QED BY <1>1, <1>2, <3>2, <3>3, <3>4
  <2>4. ASSUME SeekTrailing PROVE MediaInv'
    <3>1. transport' \in Transport /\ Leads(transport')
      BY <1>1, <2>4 DEF SeekTrailing, Transport, Leads
    <3>2. media' \in [Sources -> File] /\ AnnouncedOrOwed'
      BY <1>1, <2>4, FlushKeeps DEF SeekTrailing, Transport
    <3> QED BY <1>1, <1>2, <2>4, <3>1, <3>2 DEF SeekTrailing
  <2>5. ASSUME NEW button \in {"play", "restart", "stop"}, ClickTransport(button) PROVE MediaInv'
    <3>1. PICK action \in Actions :
            /\ \/ insp.src \in live /\ ControlMedia(insp.src, action, "window")
               \/ UNCHANGED <<media, waiting>>
            /\ UNCHANGED transport
      BY <2>5 DEF ClickTransport, Actions
    <3> QED BY <1>1, <1>2, <1>3, <3>1, ControlKeeps
  <2>6. ASSUME NEW s \in Sources, ClientControlsMedia(s) PROVE MediaInv'
    <3>1. UNCHANGED transport /\ s \in live
      BY <2>6 DEF ClientControlsMedia
    <3>2. CASE \E action \in Actions : ControlMedia(s, action, "client")
      BY <1>1, <1>2, <3>1, <3>2, ControlKeeps
    <3>3. CASE \E pos \in Positions : SeekMedia(s, pos) /\ UNCHANGED waiting
      BY <1>1, <1>2, <3>1, <3>3, SeekKeeps
    <3> QED BY <2>6, <3>2, <3>3 DEF ClientControlsMedia, Actions
  <2>7. ASSUME MediaTimer PROVE MediaInv'
    <3>1. transport' \in Transport /\ Leads(transport')
      BY <1>1, <1>3, <2>7, RefreshKeeps DEF MediaTimer
    <3> QED BY <1>1, <1>2, <1>3, <2>7, <3>1 DEF MediaTimer
  <2>8. ASSUME NEW s \in Sources, QueuedEvaluation(s) \/ PollTick PROVE MediaInv'
    BY <1>1, <1>2, <2>8, FilesNext
  <2>9. ASSUME PollTick PROVE \E s \in Sources : PollTick
    BY <2>9 DEF PollTick
  <2> QED BY <1>8, <2>1, <2>2, <2>3, <2>4, <2>5, <2>6, <2>7, <2>8, <2>9 DEF MediaStep
<1>9. CASE PlaybackStep
  <2>1. ASSUME NEW s \in Sources, Playback(s) \/ VideoTick(s) PROVE MediaInv'
    BY <1>1, <1>2, <2>1, FilesNext
  <2>2. ASSUME WaitEnds PROVE MediaInv'
    <3>1. transport' \in Transport /\ Leads(transport')
      BY <1>1, <1>3, <2>2, RefreshKeeps DEF WaitEnds
    <3> QED BY <1>1, <1>2, <1>3, <2>2, <3>1 DEF WaitEnds
  <2> QED BY <1>9, <2>1, <2>2 DEF PlaybackStep
<1> QED BY <1>4, <1>6, <1>7, <1>8, <1>9 DEF DeskNext, deskVars

LEMMA MediaBegins == DeskInit => MediaInv
<1>1. << >> \in Seq(Actions \cup Positions)
  BY EmptySeq
<1>2. DeskInit => MediaType
  BY <1>1 DEF DeskInit, MediaInit, MediaType, File, Transport, MediaStates, Positions
<1>3. DeskInit => AnnouncedOrOwed /\ Leads(transport)
  BY DEF DeskInit, Init, MediaInit, AnnouncedOrOwed, Leads
<1> QED BY <1>2, <1>3 DEF MediaInv

LEMMA MediaInvariant == DeskSpec => [](IInv /\ MediaInv)
<1>1. DeskInit => IInv /\ MediaInv
  BY MirrorBegins, MediaBegins DEF DeskInit
<1>2. IInv /\ MediaInv /\ [DeskNext]_deskVars => (IInv /\ MediaInv)'
  BY DeskStepKeeps, LiveShrinks, MediaNext
<1> QED BY <1>1, <1>2, PTL DEF DeskSpec

\* Whoever controls a file and however its playback goes on by itself, a client
\* whose last mediaChanged is out of date has another one queued, or the change
\* was one that libobs does not signal and the poll will find it.
THEOREM ClientsAreToldOrOwed == DeskSpec => []AnnouncedOrOwed
<1>1. MediaInv => AnnouncedOrOwed
  BY DEF MediaInv
<1> QED BY <1>1, MediaInvariant, PTL

\* A seek that reaches the queue is of the selected file, and to the handle's place.
LEMMA SeekLands ==
  ASSUME MediaInv, live \subseteq Sources, NEW t, t.pos \in Positions, FlushSeek(t),
         NEW s \in Sources, NEW pos \in Positions,
         media'[s].acts = Append(media[s].acts, pos)
  PROVE  s = insp.src /\ pos = t.pos
<1>1. media \in [Sources -> File] /\ media[s].acts \in Seq(Actions \cup Positions)
  BY DEF MediaInv, MediaType, File
<1>2. \A p \in Positions : /\ Append(media[s].acts, p) # media[s].acts
                           /\ Append(media[s].acts, p) = Append(media[s].acts, pos) => p = pos
  BY <1>1, AppendProperties
<1>3. \/ UNCHANGED media
      \/ insp.src \in live /\ media' = Queued(insp.src, t.pos)
  BY DEF FlushSeek, SeekMedia
<1>4. CASE UNCHANGED media
  BY <1>2, <1>4
<1>5. CASE insp.src \in live /\ media' = Queued(insp.src, t.pos)
  <2>1. s # insp.src => media'[s] = media[s]
    BY <1>1, <1>5 DEF Queued
  <2>2. s = insp.src => media'[s].acts = Append(media[s].acts, t.pos)
    BY <1>1, <1>5 DEF Queued, File
  <2> QED BY <1>2, <2>1, <2>2
<1> QED BY <1>3, <1>4, <1>5

LEMMA SeekStep ==
  ASSUME IInv, MediaInv, [DeskNext]_deskVars,
         NEW s \in Sources, NEW pos \in Positions,
         media'[s].acts = Append(media[s].acts, pos), transport' # transport
  PROVE  s = insp.src /\ (pos = transport'.hand \/ transport.refilled)
<1>1. /\ media \in [Sources -> File] /\ transport \in Transport /\ Leads(transport)
      /\ live \subseteq Sources /\ transport.pos \in Positions
  BY DEF MediaInv, MediaType, IInv, Transport
<1>2. media' # media
  <2>1. media[s].acts \in Seq(Actions \cup Positions)
    BY <1>1 DEF File
  <2>2. Append(media[s].acts, pos) # media[s].acts
    BY <2>1, AppendProperties
  <2> QED BY <2>2
<1>3. ASSUME NEW p \in Positions, MoveHandle(p)
      PROVE  s = insp.src /\ (pos = transport'.hand \/ transport.refilled)
  <2> DEFINE t == [transport EXCEPT !.pos = p, !.dirty = TRUE, !.hand = p, !.refilled = FALSE]
             u(b) == [t EXCEPT !.trail = b]
  <2>1. t \in Transport /\ t.pos = p /\ t.hand = p
    BY <1>1 DEF Transport
  <2>2. \/ transport' = u(FALSE) /\ FlushSeek(t)
        \/ transport' = u(TRUE) /\ UNCHANGED media
    BY <1>3, Zenon DEF MoveHandle
  <2> HIDE DEF t
  <2>3. u(FALSE).hand = p
    BY <2>1 DEF Transport
  <2> HIDE DEF u
  <2> QED BY <1>1, <1>2, <2>1, <2>2, <2>3, SeekLands
<1>4. ASSUME ReleaseHandle
      PROVE  s = insp.src /\ (pos = transport'.hand \/ transport.refilled)
  <2> DEFINE t == [transport EXCEPT !.down = FALSE, !.trail = FALSE]
             u == [transport EXCEPT !.down = FALSE]
  <2>1. t \in Transport /\ Leads(t) /\ t.hand = transport.hand
    BY <1>1 DEF Transport, Leads
  <2>2. /\ transport.down
        /\ \/ transport.dirty /\ FlushSeek(transport) /\ Refresh(t)
           \/ UNCHANGED media /\ Refresh(u)
    BY <1>4, Zenon DEF ReleaseHandle
  <2> HIDE DEF t, u
  <2>3. transport.dirty /\ FlushSeek(transport) /\ Refresh(t)
    BY <1>2, <2>2
  <2>4. s = insp.src /\ pos = transport.pos /\ transport.pos = transport.hand
    BY <1>1, <2>2, <2>3, SeekLands DEF Leads
  <2>5. media' \in [Sources -> File]
    <3>1. CASE UNCHANGED media
      BY <1>1, <3>1
    <3>2. CASE insp.src \in live /\ media' = Queued(insp.src, transport.pos)
      <4>1. media[insp.src] \in File
        BY <1>1, <3>2
      <4>2. Append(media[insp.src].acts, transport.pos) \in Seq(Actions \cup Positions)
        BY <1>1, <4>1, AppendProperties DEF File
      <4>3. [media[insp.src] EXCEPT !.acts = Append(media[insp.src].acts, transport.pos)] \in File
        BY <4>1, <4>2 DEF File
      <4> QED BY <1>1, <3>2, <4>3 DEF Queued
    <3> QED BY <2>3, <3>1, <3>2 DEF FlushSeek, SeekMedia
  <2>6. transport'.hand = transport.hand
    BY <1>1, <2>1, <2>3, <2>5, RefreshedLeads DEF Refresh
  <2> QED BY <2>4, <2>6
<1>5. ASSUME SeekTrailing
      PROVE  s = insp.src /\ (pos = transport'.hand \/ transport.refilled)
  <2>1. transport.trail /\ FlushSeek(transport) /\ transport'.hand = transport.hand
    BY <1>1, <1>5 DEF SeekTrailing, Transport
  <2> QED BY <1>1, <2>1, SeekLands DEF Leads
<1>6. ASSUME UNCHANGED media PROVE FALSE
  BY <1>2, <1>6
<1>7. ASSUME UNCHANGED transport PROVE FALSE
  BY <1>7
<1>8. CASE Selection
  <2>1. UNCHANGED media
    BY <1>8 DEF Selection, Rebind, mediaVars
  <2> QED BY <1>6, <2>1
<1>9. CASE FilterStep \/ AudioStep
  BY <1>6, <1>9 DEF FilterStep, AudioStep, mediaVars
<1>10. CASE MediaStep
  <2>1. ASSUME NEW button, ClickTransport(button) PROVE UNCHANGED transport
    BY <2>1 DEF ClickTransport
  <2>2. ASSUME NEW r, ClientControlsMedia(r) \/ QueuedEvaluation(r) PROVE UNCHANGED transport
    BY <2>2 DEF ClientControlsMedia, QueuedEvaluation
  <2>3. ASSUME PressHandle \/ MediaTimer PROVE UNCHANGED media
    BY <2>3 DEF PressHandle, MediaTimer
  <2>4. ASSUME PollTick PROVE UNCHANGED transport
    BY <2>4 DEF PollTick
  <2> QED BY <1>3, <1>4, <1>5, <1>6, <1>7, <1>10, <2>1, <2>2, <2>3, <2>4 DEF MediaStep
<1>11. CASE PlaybackStep
  <2>1. ASSUME NEW r, Playback(r) \/ VideoTick(r) PROVE UNCHANGED transport
    BY <2>1 DEF Playback, VideoTick
  <2>2. ASSUME WaitEnds PROVE UNCHANGED media
    BY <2>2 DEF WaitEnds
  <2> QED BY <1>6, <1>7, <1>11, <2>1, <2>2 DEF PlaybackStep
<1>12. CASE UNCHANGED deskVars
  BY <1>7, <1>12 DEF deskVars, mediaVars
<1> QED BY <1>8, <1>9, <1>10, <1>11, <1>12 DEF DeskNext

\* Through any mixture of dragging, keys, refreshes, clients and removed sources, the
\* strip seeks only the selected file, and to where the user last put the handle, but
\* when the strip was filled again while that seek waited (flushSeek).
THEOREM SeeksGoWhereTheHandWent == DeskSpec => SeeksFollowTheHand
<1>1. IInv /\ MediaInv /\ [DeskNext]_deskVars =>
        [\A s \in Sources, pos \in Positions :
           media'[s].acts = Append(media[s].acts, pos) /\ transport' # transport
             => s = insp.src /\ (pos = transport'.hand \/ transport.refilled)]_mediaVars
  BY SeekStep
<1> QED BY <1>1, MediaInvariant, PTL DEF DeskSpec, SeeksFollowTheHand
-----------------------------------------------------------------------------
(* The inspector: rows, current row and pane.                              *)

\* A chain only ever holds numbers that were handed out.
LEMMA ChainNumbers ==
  ASSUME NEW c \in Seq(Nat), ToSet(c) \subseteq Ids
  PROVE  /\ \A n \in Ids : ToSet(Append(c, n)) \subseteq Ids
         /\ \A i \in 1..Len(c) : RemoveAt(c, i) \in Seq(Nat) /\ ToSet(RemoveAt(c, i)) \subseteq Ids
         /\ \A i \in 1..Len(c)+1, n \in Ids : ToSet(InsertAt(c, i, n)) \subseteq Ids
<1>0. /\ Ids \subseteq Nat /\ Len(c) \in Nat /\ \A j \in 1..Len(c) : c[j] \in Ids
  BY LenProperties, MaxFiltersAssumption DEF Ids, ToSet
<1>1. ASSUME NEW n \in Ids PROVE ToSet(Append(c, n)) \subseteq Ids
  <2>1. Append(c, n) \in Seq(Nat) /\ Len(Append(c, n)) = Len(c)+1
        /\ Append(c, n)[Len(c)+1] = n /\ \A j \in 1..Len(c) : Append(c, n)[j] = c[j]
    BY <1>0, AppendProperties
  <2>2. \A j \in 1..Len(c)+1 : Append(c, n)[j] \in Ids
    BY <1>0, <2>1
  <2> QED BY <2>1, <2>2 DEF ToSet
<1>2. ASSUME NEW i \in 1..Len(c)
      PROVE  RemoveAt(c, i) \in Seq(Nat) /\ ToSet(RemoveAt(c, i)) \subseteq Ids
  <2> DEFINE r == RemoveAt(c, i)
  <2>1. /\ r \in Seq(Nat) /\ Len(r) = Len(c) - 1
        /\ \A j \in 1..Len(c)-1 : r[j] = IF j < i THEN c[j] ELSE c[j+1]
    BY RemoveAtPlaces
  <2> HIDE DEF r
  <2>2. ASSUME NEW j \in 1..Len(c)-1 PROVE r[j] \in Ids
    <3>1. j \in 1..Len(c) /\ j+1 \in 1..Len(c)
      BY <1>0
    <3>2. c[j] \in Ids /\ c[j+1] \in Ids
      BY <1>0, <3>1
    <3> QED BY <2>1, <3>2
  <2>3. ToSet(r) \subseteq Ids
    BY <2>1, <2>2 DEF ToSet
  <2> QED BY <2>1, <2>3 DEF r
<1>3. ASSUME NEW i \in 1..Len(c)+1, NEW n \in Ids PROVE ToSet(InsertAt(c, i, n)) \subseteq Ids
  <2> DEFINE r == InsertAt(c, i, n)
  <2>1. Inserts(r, c, i, n)
    BY <1>0, InsertAtPlaces
  <2> HIDE DEF r
  <2>2. r \in Seq(Nat) /\ Len(r) = Len(c)+1
        /\ \A j \in 1..Len(c)+1 : r[j] = IF j < i THEN c[j] ELSE IF j = i THEN n ELSE c[j-1]
    BY <2>1 DEF Inserts
  <2>3. ASSUME NEW j \in 1..Len(c)+1 PROVE r[j] \in Ids
    <3>1. (j < i => j \in 1..Len(c)) /\ (j > i => j-1 \in 1..Len(c)) /\ (j < i \/ j = i \/ j > i)
      BY <1>0
    <3>2. (j < i => c[j] \in Ids) /\ (j > i => c[j-1] \in Ids) /\ ~(j < i /\ j > i) /\ ~(j = i /\ j > i)
      BY <1>0, <3>1
    <3> QED BY <2>2, <3>1, <3>2
  <2>4. ToSet(r) \subseteq Ids
    BY <2>2, <2>3 DEF ToSet
  <2> QED BY <2>4 DEF r
<1> QED BY <1>1, <1>2, <1>3

\* A change of one source's filters.
Edits(s) ==
  \/ AddFilter(s)
  \/ \E f \in ToSet(chain[s]) : RemoveFilter(s, f)
  \/ \E f \in ToSet(chain[s]), index \in Nat : ReorderFilter(s, f, index)
  \/ \E f \in ToSet(chain[s]), on \in BOOLEAN : SetFilterEnabled(s, f, on)
  \/ \E f \in ToSet(chain[s]), name \in Names : SetFilterName(s, f, name)

LEMMA EditsKeep ==
  ASSUME IInv, FiltersTyped, NEW s, Edits(s)
  PROVE  /\ FiltersTyped' /\ s \in live /\ s \in Sources /\ live' = live
         /\ \A r \in Sources : r # s => chain'[r] = chain[r] /\ attr'[r] = attr[r]
<1>1. /\ chain \in [Sources -> Seq(Nat)] /\ nextNum \in [Sources -> Nat]
      /\ attr \in [Sources -> [Ids -> [on : BOOLEAN, name : Names]]]
      /\ \A r \in Sources : nextNum[r] \in 1..MaxFilters+1 /\ ToSet(chain[r]) \subseteq Ids
      /\ live \subseteq Sources
  BY DEF IInv, FiltersTyped
<1>2. s \in live /\ s \in Sources /\ live' = live
  BY <1>1 DEF Edits, AddFilter, RemoveFilter, ReorderFilter, SetFilterEnabled, SetFilterName, Has
<1> DEFINE c == chain[s]
<1>3. c \in Seq(Nat) /\ ToSet(c) \subseteq Ids
  BY <1>1, <1>2
<1>4. ASSUME NEW d, ToSet(d) \subseteq Ids, NEW n \in 1..MaxFilters+1,
             chain' = [chain EXCEPT ![s] = d], nextNum' = [nextNum EXCEPT ![s] = n], attr' = attr
      PROVE  FiltersTyped' /\ \A r \in Sources : r # s => chain'[r] = chain[r] /\ attr'[r] = attr[r]
  <2>1. \A r \in Sources : /\ nextNum'[r] \in 1..MaxFilters+1 /\ ToSet(chain'[r]) \subseteq Ids
                           /\ r # s => chain'[r] = chain[r] /\ attr'[r] = attr[r]
    BY <1>1, <1>2, <1>4
  <2> QED BY <1>1, <1>4, <2>1 DEF FiltersTyped
<1>5. ASSUME NEW a \in [Ids -> [on : BOOLEAN, name : Names]],
             chain' = chain, nextNum' = nextNum, attr' = [attr EXCEPT ![s] = a]
      PROVE  FiltersTyped' /\ \A r \in Sources : r # s => chain'[r] = chain[r] /\ attr'[r] = attr[r]
  <2>1. attr' \in [Sources -> [Ids -> [on : BOOLEAN, name : Names]]]
    BY <1>1, <1>2, <1>5
  <2>2. \A r \in Sources : r # s => chain'[r] = chain[r] /\ attr'[r] = attr[r]
    BY <1>1, <1>5
  <2> QED BY <1>1, <1>5, <2>1, <2>2 DEF FiltersTyped
<1>6. nextNum' = nextNum => nextNum' = [nextNum EXCEPT ![s] = nextNum[s]]
  BY <1>1
<1>7. CASE AddFilter(s)
  <2>1. nextNum[s] \in Ids /\ nextNum[s]+1 \in 1..MaxFilters+1
    BY <1>1, <1>2, <1>7, MaxFiltersAssumption DEF AddFilter, Ids
  <2>2. ToSet(Append(c, nextNum[s])) \subseteq Ids
    BY <1>3, <2>1, ChainNumbers
  <2>3. chain' = [chain EXCEPT ![s] = Append(c, nextNum[s])]
        /\ nextNum' = [nextNum EXCEPT ![s] = nextNum[s]+1] /\ attr' = attr
    BY <1>7 DEF AddFilter
  <2> HIDE DEF c
  <2> QED BY <1>2, <1>4, <2>1, <2>2, <2>3
<1>8. ASSUME NEW f \in ToSet(c), RemoveFilter(s, f)
      PROVE  FiltersTyped' /\ \A r \in Sources : r # s => chain'[r] = chain[r] /\ attr'[r] = attr[r]
  <2>1. PICK i \in 1..Len(c) : Position(c, f) = i
    BY <1>2, <1>3, BothPositions DEF IInv
  <2>2. chain' = [chain EXCEPT ![s] = RemoveAt(c, i)] /\ nextNum' = nextNum /\ attr' = attr
    BY <1>8, <2>1 DEF RemoveFilter
  <2>3. ToSet(RemoveAt(c, i)) \subseteq Ids
    BY <1>3, ChainNumbers
  <2> HIDE DEF c
  <2> QED BY <1>1, <1>2, <1>4, <1>6, <2>2, <2>3
<1>9. ASSUME NEW f \in ToSet(c), NEW index \in Nat, ReorderFilter(s, f, index)
      PROVE  FiltersTyped' /\ \A r \in Sources : r # s => chain'[r] = chain[r] /\ attr'[r] = attr[r]
  <2>1. PICK i \in 1..Len(c) : Position(c, f) = i
    BY <1>2, <1>3, BothPositions DEF IInv
  <2>2. Len(c) \in Nat /\ f \in Ids
    BY <1>3, LenProperties
  <2> DEFINE to == Target(s, index)
             q == RemoveAt(c, i)
  <2>3. to \in 1..Len(c)
    BY <2>1, <2>2 DEF Target
  <2>4. chain' = [chain EXCEPT ![s] = InsertAt(q, to, f)] /\ nextNum' = nextNum /\ attr' = attr
    BY <1>9, <2>1 DEF ReorderFilter, Moved
  <2>5. q \in Seq(Nat) /\ ToSet(q) \subseteq Ids /\ Len(q) = Len(c)-1
    BY <1>3, ChainNumbers, RemoveAtPlaces
  <2> HIDE DEF to, q, c
  <2>6. to \in 1..Len(q)+1
    BY <2>2, <2>3, <2>5
  <2>7. ToSet(InsertAt(q, to, f)) \subseteq Ids
    BY <2>2, <2>5, <2>6, ChainNumbers
  <2> QED BY <1>1, <1>2, <1>4, <1>6, <2>4, <2>7
<1>10. ASSUME NEW f \in ToSet(c), NEW on \in BOOLEAN, SetFilterEnabled(s, f, on)
       PROVE  FiltersTyped' /\ \A r \in Sources : r # s => chain'[r] = chain[r] /\ attr'[r] = attr[r]
  <2> DEFINE a == [attr[s] EXCEPT ![f].on = on]
  <2>1. f \in Ids /\ attr[s] \in [Ids -> [on : BOOLEAN, name : Names]]
    BY <1>1, <1>2, <1>3
  <2>2. a \in [Ids -> [on : BOOLEAN, name : Names]]
    BY <2>1
  <2>3. chain' = chain /\ nextNum' = nextNum /\ attr' = [attr EXCEPT ![s] = a]
    BY <1>10 DEF SetFilterEnabled
  <2> HIDE DEF a
  <2> QED BY <1>5, <2>2, <2>3
<1>11. ASSUME NEW f \in ToSet(c), NEW name \in Names, SetFilterName(s, f, name)
       PROVE  FiltersTyped' /\ \A r \in Sources : r # s => chain'[r] = chain[r] /\ attr'[r] = attr[r]
  <2> DEFINE a == [attr[s] EXCEPT ![f].name = name]
  <2>1. f \in Ids /\ attr[s] \in [Ids -> [on : BOOLEAN, name : Names]]
    BY <1>1, <1>2, <1>3
  <2>2. a \in [Ids -> [on : BOOLEAN, name : Names]]
    BY <2>1
  <2>3. chain' = chain /\ nextNum' = nextNum /\ attr' = [attr EXCEPT ![s] = a]
    BY <1>11 DEF SetFilterName
  <2> HIDE DEF a
  <2> QED BY <1>5, <2>2, <2>3
<1> QED BY <1>2, <1>7, <1>8, <1>9, <1>10, <1>11 DEF Edits

\* onSelectionChanged and refreshNow of the inspector i.
LEMMA SelectedFollows ==
  ASSUME NEW i, Shaped(i), PaneFollows(i) \/ i.pane = Unbound, NEW f
  PROVE  LET n == Selected(i, f)
         IN /\ Shaped(n) /\ PaneFollows(n) /\ n.sel = f
            /\ n.src = i.src /\ n.rows = i.rows /\ n.queued = i.queued
BY DEF Shaped, PaneFollows, Selected, Unbound

LEMMA RefreshedFollows ==
  ASSUME NEW i, Shaped(i), PaneFollows(i) \/ (i.pane = Unbound /\ i.src # None), live' = live
  PROVE  LET n == RefreshNow(i)
         IN /\ Shaped(n) /\ PaneFollows(n) /\ n.src = i.src /\ n.queued = i.queued
            /\ i.src \notin live' => n = i
            /\ i.src \in live' => /\ n.rows = Infos(chain'[i.src], attr'[i.src])
                                  /\ n.sel \in RowIds(n) \cup {0}
<1>1. CASE i.src \notin live'
  BY <1>1 DEF RefreshNow, PaneFollows
<1>2. CASE i.src \in live'
  <2> DEFINE q == [i EXCEPT !.rows = Infos(chain'[i.src], attr'[i.src]), !.editing = 0]
             g == IF i.sel \in RowIds(q) THEN i.sel ELSE 0
  <2>1. RefreshNow(i) = Selected(q, g)
    BY <1>2 DEF RefreshNow
  <2>2. /\ Shaped(q) /\ q.src = i.src /\ q.sel = i.sel /\ q.pane = i.pane /\ q.queued = i.queued
        /\ q.rows = Infos(chain'[i.src], attr'[i.src])
    BY DEF Shaped
  <2>3. g \in RowIds(q) \cup {0}
    OBVIOUS
  <2> HIDE DEF q, g
  <2>4. PaneFollows(q) \/ q.pane = Unbound
    BY <2>2 DEF PaneFollows
  <2>5. LET n == Selected(q, g)
        IN /\ Shaped(n) /\ PaneFollows(n) /\ n.sel = g
           /\ n.src = q.src /\ n.rows = q.rows /\ n.queued = q.queued
    BY <2>2, <2>4, SelectedFollows
  <2> QED BY <1>2, <2>1, <2>2, <2>3, <2>5 DEF RowIds
<1> QED BY <1>1, <1>2

\* What a step leaves behind: a refresh posted, or rows that were refreshed, or an
\* inspector whose rows were left alone.
LEMMA QueuedHolds ==
  ASSUME InspectorInv, FiltersTyped', live' = live, listed' = listed,
         Shaped(insp'), PaneFollows(insp'), insp'.src = insp.src, insp.src \in Sources,
         insp'.queued = TRUE
  PROVE  InspectorInv'
<1>1. insp'.src # None
  BY NoneAssumption
<1>2. InspectorType' /\ SelectionListed' /\ RowsFollow'
  BY <1>1 DEF InspectorInv, InspectorType, PaneFollows, SelectionListed, RowsFollow
<1> QED BY <1>2 DEF InspectorInv

LEMMA RefreshedHolds ==
  ASSUME InspectorInv, FiltersTyped', live' = live, listed' = listed,
         NEW i, Shaped(i), PaneFollows(i) \/ (i.pane = Unbound /\ i.src # None),
         i.src \in Sources \cup {None}, i.queued \in BOOLEAN,
         i.src = None => i.rows = << >> /\ i.sel = 0,
         i.src \in listed \cup {None},
         insp' = RefreshNow(i), live \subseteq Sources
  PROVE  InspectorInv'
<1>1. /\ Shaped(insp') /\ PaneFollows(insp') /\ insp'.src = i.src /\ insp'.queued = i.queued
      /\ i.src \notin live' => insp' = i
      /\ i.src \in live' => /\ insp'.rows = Infos(chain'[i.src], attr'[i.src])
                            /\ insp'.sel \in RowIds(insp') \cup {0}
  BY RefreshedFollows
<1>2. InspectorType'
  BY <1>1 DEF InspectorInv, InspectorType, PaneFollows
<1>3. SelectionListed'
  BY <1>1 DEF InspectorInv, SelectionListed
<1>4. insp'.src = None => insp'.rows = << >> /\ insp'.sel = 0
  BY <1>1, NoneAssumption
<1>5. RowsFollow'
  BY <1>1, <1>4 DEF RowsFollow
<1> QED BY <1>2, <1>3, <1>5 DEF InspectorInv

LEMMA RowsKeptHolds ==
  ASSUME InspectorInv, NoEffect, listed' = listed,
         Shaped(insp'), PaneFollows(insp'), insp'.src = insp.src, insp'.queued = insp.queued,
         insp.src = None => insp'.rows = insp.rows /\ insp'.sel = insp.sel,
         insp.src \in live /\ ~insp.queued =>
           insp'.rows = insp.rows /\ insp'.sel \in RowIds(insp) \cup {0}
  PROVE  InspectorInv'
<1>1. FiltersTyped'
  BY DEF InspectorInv, FiltersTyped, NoEffect
<1>2. InspectorType' /\ SelectionListed'
  BY DEF InspectorInv, InspectorType, PaneFollows, SelectionListed, NoEffect
<1>3. insp'.rows = insp.rows => RowIds(insp') = RowIds(insp)
  BY DEF RowIds
<1>4. RowsFollow'
  BY <1>3 DEF InspectorInv, RowsFollow, NoEffect
<1> QED BY <1>1, <1>2, <1>4 DEF InspectorInv

\* No row is shown of no source.
LEMMA RowHasSource ==
  ASSUME InspectorInv
  PROVE  /\ insp.src = None => DOMAIN insp.rows = {} /\ RowIds(insp) = {} /\ insp.sel = 0
         /\ insp.src \in Sources \cup {None} /\ Shaped(insp) /\ PaneFollows(insp)
         /\ insp.src \in live /\ ~insp.queued =>
              insp.rows = Infos(chain[insp.src], attr[insp.src])
<1>1. insp.src = None => insp.rows = << >> /\ insp.sel = 0
  BY DEF InspectorInv, RowsFollow
<1>2. insp.src = None => DOMAIN insp.rows = {}
  BY <1>1
<1>3. insp.src = None => RowIds(insp) = {}
  BY <1>2 DEF RowIds
<1> QED BY <1>1, <1>2, <1>3 DEF InspectorInv, InspectorType, RowsFollow


\* Notified of the source it is bound to, the inspector has a refresh posted.
LEMMA NotifiedIsQueued ==
  ASSUME NEW i, Shaped(i), PaneFollows(i), NEW s
  PROVE  LET n == Notified(i, s)
         IN /\ Shaped(n) /\ PaneFollows(n) /\ n.src = i.src /\ n.rows = i.rows /\ n.sel = i.sel
            /\ s = i.src => n.queued = TRUE
            /\ s # i.src => n = i
BY DEF Shaped, PaneFollows, Notified

LEMMA SelectSourceHolds ==
  ASSUME IInv, InspectorInv, NEW s \in Sources, SelectSource(s)
  PROVE  InspectorInv'
<1> DEFINE i == [insp EXCEPT !.src = s, !.pane = Unbound]
<1>1. s \in listed /\ live' = live /\ NoEffect /\ listed' = listed /\ s # None
  BY NoneAssumption DEF SelectSource, NoEffect
<1>2. insp' = RefreshNow(i)
  BY <1>1 DEF SelectSource, SetSource
<1>3. Shaped(i) /\ i.pane = Unbound /\ i.src = s /\ i.queued \in BOOLEAN
  BY RowHasSource DEF Shaped, InspectorInv, InspectorType
<1>4. FiltersTyped' /\ live \subseteq Sources
  BY <1>1 DEF InspectorInv, FiltersTyped, NoEffect, IInv
<1> HIDE DEF i
<1> QED BY <1>1, <1>2, <1>3, <1>4, RefreshedHolds

LEMMA SelectRowHolds ==
  ASSUME InspectorInv, NEW f \in Ids, SelectRow(f) \/ StartRename(f)
  PROVE  InspectorInv'
<1>1. NoEffect /\ listed' = listed /\ f \in RowIds(insp)
  BY DEF SelectRow, StartRename, Row
<1>2. CASE SelectRow(f)
  <2>1. insp' = Selected(insp, f)
    BY <1>2 DEF SelectRow
  <2>2. /\ Shaped(insp') /\ PaneFollows(insp') /\ insp'.sel = f
        /\ insp'.src = insp.src /\ insp'.rows = insp.rows /\ insp'.queued = insp.queued
    BY <2>1, RowHasSource, SelectedFollows
  <2> QED BY <1>1, <2>2, RowHasSource, RowsKeptHolds
<1>3. CASE StartRename(f)
  <2>1. insp' = [insp EXCEPT !.editing = f]
    BY <1>3 DEF StartRename
  <2>2. /\ Shaped(insp') /\ PaneFollows(insp') /\ insp'.sel = insp.sel
        /\ insp'.src = insp.src /\ insp'.rows = insp.rows /\ insp'.queued = insp.queued
    BY <2>1, RowHasSource DEF Shaped, PaneFollows
  <2>3. insp.src \in live /\ ~insp.queued => insp.sel \in RowIds(insp) \cup {0}
    BY DEF InspectorInv, RowsFollow
  <2> QED BY <1>1, <2>2, <2>3, RowHasSource, RowsKeptHolds
<1> QED BY <1>2, <1>3

LEMMA AddDialogHolds ==
  ASSUME IInv, InspectorInv, AddFilterDialog
  PROVE  InspectorInv'
<1> DEFINE s == insp.src
           i == Notified(insp, s)
           j == RefreshNow(i)
<1>1. AddFilter(s) /\ insp' = Selected(j, nextNum[s]) /\ listed' = listed
  BY DEF AddFilterDialog
<1>2. FiltersTyped' /\ s \in live /\ s \in Sources /\ live' = live
  BY <1>1, EditsKeep DEF Edits, InspectorInv
<1>3. Shaped(i) /\ PaneFollows(i) /\ i.src = s /\ i.queued = TRUE
  BY RowHasSource, NotifiedIsQueued
<1> HIDE DEF i
<1>4. Shaped(j) /\ PaneFollows(j) /\ j.src = s /\ j.queued = TRUE
  BY <1>2, <1>3, RefreshedFollows
<1> HIDE DEF j
<1>5. Shaped(insp') /\ PaneFollows(insp') /\ insp'.src = insp.src /\ insp'.queued = TRUE
  BY <1>1, <1>4, SelectedFollows
<1> QED BY <1>1, <1>2, <1>5, QueuedHolds

LEMMA RemoveSelectedHolds ==
  ASSUME IInv, InspectorInv, RemoveSelectedFilter
  PROVE  InspectorInv'
<1> DEFINE s == insp.src
           i == Notified(insp, s)
<1>1. CASE Has(s, insp.sel)
  <2>1. /\ RemoveFilter(s, insp.sel) /\ insp.sel \in ToSet(chain[s])
        /\ insp' = RefreshNow(i) /\ listed' = listed
    BY <1>1 DEF RemoveSelectedFilter, Has
  <2>2. FiltersTyped' /\ s \in live /\ s \in Sources /\ live' = live /\ live \subseteq Sources
    BY <2>1, EditsKeep DEF Edits, InspectorInv, IInv
  <2>3. Shaped(i) /\ PaneFollows(i) /\ i.src = s /\ i.queued = TRUE
    BY RowHasSource, NotifiedIsQueued
  <2>4. s # None /\ s \in listed
    BY <2>2, NoneAssumption DEF InspectorInv, SelectionListed
  <2> HIDE DEF i
  <2> QED BY <2>1, <2>2, <2>3, <2>4, RefreshedHolds
<1>2. CASE ~Has(s, insp.sel)
  <2>1. NoEffect /\ insp' = insp /\ listed' = listed
    BY <1>2 DEF RemoveSelectedFilter
  <2>2. insp.src \in live /\ ~insp.queued => insp.sel \in RowIds(insp) \cup {0}
    BY DEF InspectorInv, RowsFollow
  <2> QED BY <2>1, <2>2, RowHasSource, RowsKeptHolds
<1> QED BY <1>1, <1>2

\* The row of a filter the helper knows shows what the helper would answer.
LEMMA RowIsAnswer ==
  ASSUME IInv, InspectorInv, insp.src \in live, ~insp.queued, NEW r \in DOMAIN insp.rows
  PROVE  LET f == insp.rows[r].id
         IN /\ Has(insp.src, f)
            /\ insp.rows[r] = [id |-> f, on |-> attr[insp.src][f].on, name |-> attr[insp.src][f].name]
            /\ attr[insp.src][f].on \in BOOLEAN
<1> DEFINE c == chain[insp.src]
           a == attr[insp.src]
           f == insp.rows[r].id
<1>1. insp.src \in Sources
  BY DEF IInv
<1>2. c \in Seq(Nat) /\ ToSet(c) \subseteq Ids /\ a \in [Ids -> [on : BOOLEAN, name : Names]]
  BY <1>1 DEF IInv, InspectorInv, FiltersTyped
<1>3. insp.rows = Infos(c, a)
  BY RowHasSource
<1>4. r \in DOMAIN c /\ insp.rows[r] = [id |-> c[r], on |-> a[c[r]].on, name |-> a[c[r]].name]
  BY <1>3 DEF Infos
<1>5. f = c[r] /\ insp.rows[r] = [id |-> f, on |-> a[f].on, name |-> a[f].name]
  BY <1>4
<1>6. c[r] \in ToSet(c)
  BY <1>2, <1>4 DEF ToSet
<1> HIDE DEF c, a, f
<1>7. a[f].on \in BOOLEAN
  BY <1>2, <1>5, <1>6
<1>8. f \in ToSet(c)
  BY <1>5, <1>6
<1> QED BY <1>5, <1>7, <1>8 DEF Has, c, a, f


LEMMA ToggleHolds ==
  ASSUME IInv, InspectorInv, NEW r \in DOMAIN insp.rows, ToggleRow(r)
  PROVE  InspectorInv'
<1> DEFINE s == insp.src
           f == insp.rows[r].id
           on == ~insp.rows[r].on
           shown == [insp EXCEPT !.rows[r].on = on]
<1>1. /\ Shaped(shown) /\ PaneFollows(shown) /\ shown.src = s
      /\ shown.sel = insp.sel /\ shown.queued = insp.queued
  BY RowHasSource DEF Shaped, PaneFollows
<1>2. s \in Sources
  BY RowHasSource
<1>3. CASE SetFilterEnabled(s, f, on) /\ insp' = Notified(shown, s)
  <2>1. f \in ToSet(chain[s]) /\ listed' = listed
    BY <1>3 DEF SetFilterEnabled, Has, ToggleRow
  <2>2. on \in BOOLEAN
    OBVIOUS
  <2> HIDE DEF f, on, shown
  <2>3. FiltersTyped' /\ live' = live
    BY <1>3, <2>1, <2>2, EditsKeep DEF Edits, InspectorInv
  <2>4. Shaped(insp') /\ PaneFollows(insp') /\ insp'.src = s /\ insp'.queued = TRUE
    BY <1>1, <1>3, NotifiedIsQueued
  <2> QED BY <1>2, <2>1, <2>3, <2>4, QueuedHolds
<1>4. CASE ~(Has(s, f) /\ attr[s][f].on # on) /\ NoEffect /\ insp' = shown
  <2>1. ~(s \in live /\ ~insp.queued)
    <3> SUFFICES ASSUME s \in live, ~insp.queued PROVE FALSE
      OBVIOUS
    <3>1. /\ Has(s, f) /\ attr[s][f].on \in BOOLEAN
          /\ insp.rows[r] = [id |-> f, on |-> attr[s][f].on, name |-> attr[s][f].name]
      BY RowIsAnswer, SMTT(40)
    <3>2. insp.rows[r].on = attr[s][f].on
      BY <3>1
    <3> QED BY <1>4, <3>1, <3>2
  <2>2. listed' = listed /\ s # None
    BY <1>2, NoneAssumption DEF ToggleRow
  <2> HIDE DEF shown
  <2> QED BY <1>1, <1>4, <2>1, <2>2, RowsKeptHolds
<1>5. \/ SetFilterEnabled(s, f, on) /\ insp' = Notified(shown, s)
      \/ ~(Has(s, f) /\ attr[s][f].on # on) /\ NoEffect /\ insp' = shown
  BY DEF ToggleRow
<1> QED BY <1>3, <1>4, <1>5

LEMMA RenameHolds ==
  ASSUME IInv, InspectorInv, NEW r \in DOMAIN insp.rows, NEW name \in Names, EndRename(r, name)
  PROVE  InspectorInv'
<1> DEFINE s == insp.src
           f == insp.rows[r].id
           shown == [insp EXCEPT !.rows[r].name = name, !.editing = 0]
<1>1. /\ Shaped(shown) /\ PaneFollows(shown) /\ shown.src = s
      /\ shown.sel = insp.sel /\ shown.queued = insp.queued
      /\ shown.rows = [insp.rows EXCEPT ![r].name = name]
  BY RowHasSource DEF Shaped, PaneFollows
<1>2. s \in Sources /\ s # None /\ listed' = listed
  BY RowHasSource, NoneAssumption DEF EndRename
<1>3. CASE SetFilterName(s, f, name) /\ insp' = Notified(shown, s)
  <2>1. f \in ToSet(chain[s])
    BY <1>3 DEF SetFilterName, Has
  <2> HIDE DEF f, shown
  <2>2. FiltersTyped' /\ live' = live
    BY <1>3, <2>1, EditsKeep DEF Edits, InspectorInv
  <2>3. Shaped(insp') /\ PaneFollows(insp') /\ insp'.src = s /\ insp'.queued = TRUE
    BY <1>1, <1>3, NotifiedIsQueued
  <2> QED BY <1>2, <2>2, <2>3, QueuedHolds
<1>4. CASE ~(Has(s, f) /\ attr[s][f].name # name) /\ NoEffect /\ insp' = shown
  <2>1. s \in live /\ ~insp.queued => shown.rows = insp.rows
    <3> SUFFICES ASSUME s \in live, ~insp.queued PROVE shown.rows = insp.rows
      OBVIOUS
    <3>1. /\ Has(s, f)
          /\ insp.rows[r] = [id |-> f, on |-> attr[s][f].on, name |-> attr[s][f].name]
      BY RowIsAnswer, SMTT(40)
    <3>2. attr[s][f].name = name
      BY <1>4, <3>1
    <3>3. [insp.rows[r] EXCEPT !.name = name] = insp.rows[r]
      BY <3>1, <3>2, SMTT(40)
    <3>4. insp.rows = Infos(chain[s], attr[s])
      BY RowHasSource
    <3>5. insp.rows = [j \in DOMAIN insp.rows |-> insp.rows[j]]
      BY <3>4 DEF Infos
    <3> HIDE DEF f, shown
    <3> QED BY <1>1, <3>3, <3>5
  <2>2. s \in live /\ ~insp.queued => insp.sel \in RowIds(insp) \cup {0}
    BY DEF InspectorInv, RowsFollow
  <2> HIDE DEF f, shown
  <2> QED BY <1>1, <1>2, <1>4, <2>1, <2>2, RowsKeptHolds
<1>5. \/ SetFilterName(s, f, name) /\ insp' = Notified(shown, s)
      \/ ~(Has(s, f) /\ attr[s][f].name # name) /\ NoEffect /\ insp' = shown
  BY DEF EndRename
<1> QED BY <1>3, <1>4, <1>5

LEMMA DropHolds ==
  ASSUME IInv, InspectorInv, NEW r \in DOMAIN insp.rows, NEW to \in Ids, DropRow(r, to)
  PROVE  InspectorInv'
<1> DEFINE s == insp.src
           f == insp.rows[r].id
<1>1. /\ Shaped(insp') /\ PaneFollows(insp') /\ insp'.src = s /\ insp'.queued = TRUE
      /\ listed' = listed
  BY RowHasSource DEF DropRow, Shaped, PaneFollows
<1>2. s \in Sources /\ to-1 \in Nat
  BY RowHasSource, MaxFiltersAssumption DEF Ids
<1>3. CASE ReorderFilter(s, f, to-1)
  <2>1. f \in ToSet(chain[s])
    BY <1>3 DEF ReorderFilter, Has
  <2> HIDE DEF f
  <2>2. FiltersTyped' /\ live' = live
    BY <1>2, <1>3, <2>1, EditsKeep DEF Edits, InspectorInv
  <2> QED BY <1>1, <1>2, <2>2, QueuedHolds
<1>4. CASE NoEffect
  <2>1. FiltersTyped' /\ live' = live
    BY <1>4 DEF InspectorInv, FiltersTyped, NoEffect
  <2> QED BY <1>1, <1>2, <2>1, QueuedHolds
<1>5. ReorderFilter(s, f, to-1) \/ NoEffect
  BY DEF DropRow
<1> QED BY <1>3, <1>4, <1>5

LEMMA ClientEditHolds ==
  ASSUME IInv, InspectorInv, NEW s \in Sources, ClientEdits(s)
  PROVE  InspectorInv'
<1>1. \A index : index \in 0..Len(chain[s]) => index \in Nat
  OBVIOUS
<1>2. Edits(s)
  BY <1>1 DEF ClientEdits, Edits
<1>3. insp' = Notified(insp, s) /\ listed' = listed
  BY DEF ClientEdits, Wire
<1>4. /\ FiltersTyped' /\ s \in live /\ live' = live
      /\ \A r \in Sources : r # s => chain'[r] = chain[r] /\ attr'[r] = attr[r]
  BY <1>2, EditsKeep DEF InspectorInv
<1>5. CASE s = insp.src
  <2>1. Shaped(insp') /\ PaneFollows(insp') /\ insp'.src = insp.src /\ insp'.queued = TRUE
    BY <1>3, <1>5, RowHasSource, NotifiedIsQueued
  <2> QED BY <1>3, <1>4, <1>5, <2>1, QueuedHolds
<1>6. CASE s # insp.src
  <2>1. insp' = insp
    BY <1>3, <1>6, RowHasSource, NotifiedIsQueued
  <2>2. InspectorType' /\ SelectionListed'
    BY <1>3, <1>4, <2>1 DEF InspectorInv, InspectorType, PaneFollows, SelectionListed
  <2>3. insp.src \in live => chain'[insp.src] = chain[insp.src] /\ attr'[insp.src] = attr[insp.src]
    BY <1>4, <1>6 DEF IInv
  <2>4. RowsFollow'
    BY <1>4, <2>1, <2>3 DEF InspectorInv, RowsFollow
  <2> QED BY <1>4, <2>2, <2>4 DEF InspectorInv
<1> QED BY <1>5, <1>6

LEMMA ClientRemovalHolds ==
  ASSUME IInv, InspectorInv, NEW s \in Sources, ClientRemovesSource(s)
  PROVE  InspectorInv'
<1>1. /\ live' = live \ {s} /\ chain' = [chain EXCEPT ![s] = << >>]
      /\ attr' = attr /\ nextNum' = nextNum /\ insp' = insp /\ listed' = listed
  BY DEF ClientRemovesSource, RemoveSource
<1>2. ToSet(<< >>) = {}
  BY DEF ToSet
<1>3. \A r \in Sources : chain'[r] = IF r = s THEN << >> ELSE chain[r]
  BY <1>1 DEF IInv
<1>4. FiltersTyped'
  BY <1>1, <1>2, <1>3 DEF InspectorInv, FiltersTyped
<1>5. InspectorType' /\ SelectionListed'
  BY <1>1 DEF InspectorInv, InspectorType, PaneFollows, SelectionListed
<1>6. insp.src \in live' => insp.src \in live /\ chain'[insp.src] = chain[insp.src]
  BY <1>1, <1>3 DEF IInv
<1>7. RowsFollow'
  BY <1>1, <1>6 DEF InspectorInv, RowsFollow
<1> QED BY <1>4, <1>5, <1>7 DEF InspectorInv

LEMMA PostedRefreshHolds ==
  ASSUME IInv, InspectorInv, PostedRefresh
  PROVE  InspectorInv'
<1> DEFINE i == [insp EXCEPT !.queued = FALSE]
<1>1. insp' = RefreshNow(i) /\ NoEffect /\ listed' = listed
  BY DEF PostedRefresh
<1>2. /\ Shaped(i) /\ PaneFollows(i) /\ i.src = insp.src /\ i.rows = insp.rows
      /\ i.sel = insp.sel /\ i.queued = FALSE
  BY RowHasSource DEF Shaped, PaneFollows
<1>3. FiltersTyped' /\ live \subseteq Sources /\ live' = live
  BY <1>1 DEF InspectorInv, FiltersTyped, NoEffect, IInv
<1>4. /\ insp.src \in Sources \cup {None} /\ insp.src \in listed \cup {None}
      /\ insp.src = None => insp.rows = << >> /\ insp.sel = 0
  BY DEF InspectorInv, InspectorType, SelectionListed, RowsFollow
<1> HIDE DEF i
<1> QED BY <1>1, <1>2, <1>3, <1>4, RefreshedHolds

LEMMA SourceRefreshHolds ==
  ASSUME IInv, InspectorInv, PostedSourceRefresh
  PROVE  InspectorInv'
<1>1. /\ NoEffect /\ listed' = live
      /\ insp' = IF insp.src \in live THEN insp ELSE [Closed EXCEPT !.queued = insp.queued]
  BY DEF PostedSourceRefresh, SetSource
<1>2. FiltersTyped' /\ live' = live /\ chain' = chain /\ attr' = attr
  BY <1>1 DEF InspectorInv, FiltersTyped, NoEffect
<1>3. CASE insp.src \in live
  <2>1. insp' = insp
    BY <1>1, <1>3
  <2> QED BY <1>1, <1>2, <1>3, <2>1
       DEF InspectorInv, InspectorType, PaneFollows, SelectionListed, RowsFollow
<1>4. CASE insp.src \notin live
  <2>1. insp' = [src |-> None, rows |-> << >>, sel |-> 0, pane |-> Unbound,
                 queued |-> insp.queued, editing |-> 0]
    BY <1>1, <1>4 DEF Closed
  <2>2. /\ Shaped(insp') /\ PaneFollows(insp') /\ insp'.src = None /\ insp'.rows = << >>
        /\ insp'.sel = 0 /\ insp'.queued = insp.queued
    BY <2>1 DEF Shaped, PaneFollows
  <2>3. None \notin live
    BY NoneAssumption DEF IInv
  <2> QED BY <1>1, <1>2, <2>2, <2>3
       DEF InspectorInv, InspectorType, PaneFollows, SelectionListed, RowsFollow
<1> QED BY <1>3, <1>4

LEMMA InspectorNext ==
  ASSUME IInv, InspectorInv, Next \/ UNCHANGED <<live, chain, attr, nextNum, insp, listed>>
  PROVE  InspectorInv'
<1>1. CASE UNCHANGED <<live, chain, attr, nextNum, insp, listed>>
  BY <1>1 DEF InspectorInv, FiltersTyped, InspectorType, PaneFollows, SelectionListed, RowsFollow
<1>2. CASE Next
  BY <1>2, SelectSourceHolds, SelectRowHolds, AddDialogHolds, RemoveSelectedHolds, ToggleHolds,
     RenameHolds, DropHolds, ClientEditHolds, ClientRemovalHolds, PostedRefreshHolds,
     SourceRefreshHolds DEF Next
<1> QED BY <1>1, <1>2

LEMMA InspectorBegins == Init => InspectorInv
<1> SUFFICES ASSUME Init PROVE InspectorInv
  OBVIOUS
<1>1. FiltersTyped
  <2>1. ToSet(<< >>) = {} /\ 1 \in 1..MaxFilters+1
    BY MaxFiltersAssumption DEF ToSet
  <2> QED BY <2>1 DEF Init, FiltersTyped, Names
<1>2. insp = [src |-> None, rows |-> << >>, sel |-> 0, pane |-> Unbound,
              queued |-> FALSE, editing |-> 0]
  BY DEF Init, Closed
<1>3. /\ Shaped(insp) /\ PaneFollows(insp) /\ insp.src = None /\ insp.rows = << >>
      /\ insp.sel = 0 /\ insp.queued = FALSE
  BY <1>2 DEF Shaped, PaneFollows
<1>4. None \notin live /\ listed = live /\ live = Sources
  BY NoneAssumption DEF Init
<1> QED BY <1>1, <1>3, <1>4 DEF InspectorInv, InspectorType, SelectionListed, RowsFollow

LEMMA InspectorInvariant == DeskSpec => [](IInv /\ InspectorInv)
<1>1. DeskInit => IInv /\ InspectorInv
  BY MirrorBegins, InspectorBegins DEF DeskInit
<1>2. [DeskNext]_deskVars => Next \/ UNCHANGED <<live, chain, attr, nextNum, insp, listed>>
  BY DEF DeskNext, deskVars, vars, Selection, FilterStep, AudioStep, MediaStep, PlaybackStep, Next
<1>3. IInv /\ InspectorInv /\ [DeskNext]_deskVars => (IInv /\ InspectorInv)'
  BY <1>2, DeskStepKeeps, InspectorNext
<1> QED BY <1>1, <1>3, PTL DEF DeskSpec

\* However many filters a chain has and whoever edits it, however far behind the rows
\* were when they were toggled, renamed or dropped: when no refresh is posted the
\* inspector shows the chain of the selected source as it is, its current row is one of
\* that chain and the configure pane edits that filter of that source
\* (FilterInspector::refreshNow, onSelectionChanged, onItemChanged, onRowsMoved).
THEOREM InspectorShowsTheChain == DeskSpec => []InspectorConverges
<1>1. IInv /\ InspectorInv => InspectorConverges
  <2> SUFFICES ASSUME IInv, InspectorInv, ~insp.queued, ~ListBehind
               PROVE  IF insp.src = None THEN insp.rows = << >> /\ insp.pane = Unbound
                      ELSE /\ insp.rows = Infos(chain[insp.src], attr[insp.src])
                           /\ insp.sel \in RowIds(insp) \cup {0}
                           /\ insp.pane = IF insp.sel = 0 THEN Unbound
                                          ELSE [src |-> insp.src, id |-> insp.sel]
    BY DEF InspectorConverges
  <2>1. insp.src # None => insp.src \in live
    BY DEF InspectorInv, SelectionListed, ListBehind
  <2>2. insp.pane = IF insp.sel = 0 THEN Unbound ELSE [src |-> insp.src, id |-> insp.sel]
    BY <2>1, RowHasSource DEF PaneFollows
  <2> QED BY <2>1, <2>2 DEF InspectorInv, RowsFollow
<1> QED BY <1>1, InspectorInvariant, PTL

-----------------------------------------------------------------------------
(* The mixer strip: the copies on their way and what the strip shows.      *)

\* What the queue q tells the control k last is v.
EndsAt(q, k, v) == \A i \in 1..Len(q) : LastWord(q, i, k) => q[i].value = v

LEMMA AppendTells ==
  ASSUME NEW q \in Seq(Copies), NEW c \in Copies, ~c.old
  PROVE  LET a == Append(q, c)
         IN /\ a \in Seq(Copies) /\ ToldIn(a, c.control) /\ EndsAt(a, c.control, c.value)
            /\ \A j \in Controls \ {c.control} :
                 /\ ToldIn(a, j) <=> ToldIn(q, j)
                 /\ \A v : EndsAt(q, j, v) => EndsAt(a, j, v)
<1> DEFINE a == Append(q, c)
<1>1. /\ a \in Seq(Copies) /\ Len(a) = Len(q)+1 /\ Len(q) \in Nat /\ a[Len(q)+1] = c
      /\ \A i \in 1..Len(q) : a[i] = q[i]
  BY AppendProperties, LenProperties
<1> HIDE DEF a
<1>2. Len(q)+1 \in 1..Len(a) /\ Tells(a, Len(q)+1, c.control)
  BY <1>1 DEF Tells
<1>3. ToldIn(a, c.control)
  BY <1>2 DEF ToldIn
<1>4. EndsAt(a, c.control, c.value)
  <2> SUFFICES ASSUME NEW i \in 1..Len(a), LastWord(a, i, c.control) PROVE a[i].value = c.value
    BY DEF EndsAt
  <2>1. ~(Len(q)+1 > i)
    BY <1>2 DEF LastWord
  <2>2. i = Len(q)+1
    BY <1>1, <2>1
  <2> QED BY <1>1, <2>2
<1>5. ASSUME NEW j \in Controls \ {c.control}
      PROVE  /\ ToldIn(a, j) <=> ToldIn(q, j)
             /\ \A v : EndsAt(q, j, v) => EndsAt(a, j, v)
  <2>1. \A i \in 1..Len(a) : Tells(a, i, j) <=> i \in 1..Len(q) /\ Tells(q, i, j)
    BY <1>1 DEF Tells
  <2>2. 1..Len(q) \subseteq 1..Len(a)
    BY <1>1
  <2>3. ToldIn(a, j) <=> ToldIn(q, j)
    BY <2>1, <2>2 DEF ToldIn
  <2>4. \A i \in 1..Len(a) : LastWord(a, i, j) => i \in 1..Len(q) /\ LastWord(q, i, j)
    BY <2>1, <2>2 DEF LastWord
  <2>5. \A v : EndsAt(q, j, v) => EndsAt(a, j, v)
    BY <1>1, <2>4 DEF EndsAt
  <2> QED BY <2>3, <2>5
<1> QED BY <1>1, <1>3, <1>4, <1>5 DEF a

LEMMA TailTells ==
  ASSUME NEW q \in Seq(Copies), q # << >>
  PROVE  /\ Tail(q) \in Seq(Copies) /\ Head(q) \in Copies
         /\ \A j \in Controls :
              /\ \A v : EndsAt(q, j, v) => EndsAt(Tail(q), j, v)
              /\ Head(q).control # j \/ Head(q).old => (ToldIn(Tail(q), j) <=> ToldIn(q, j))
              /\ \A v : /\ Head(q).control = j /\ ~Head(q).old
                        /\ EndsAt(q, j, v) /\ ~ToldIn(Tail(q), j)
                        => Head(q).value = v
<1> DEFINE r == Tail(q)
           h == Head(q)
<1>1. /\ r \in Seq(Copies) /\ Len(r) = Len(q)-1 /\ Len(q) \in Nat \ {0} /\ h = q[1]
      /\ \A i \in 1..Len(r) : r[i] = q[i+1]
  BY HeadTailProperties, LenProperties, EmptySeq
<1>2. h \in Copies
  BY <1>1, ElementOfSeq
<1> HIDE DEF r, h
<1>3. ASSUME NEW j \in Controls
      PROVE  /\ \A v : EndsAt(q, j, v) => EndsAt(r, j, v)
             /\ h.control # j \/ h.old => (ToldIn(r, j) <=> ToldIn(q, j))
             /\ \A v : /\ h.control = j /\ ~h.old /\ EndsAt(q, j, v) /\ ~ToldIn(r, j)
                       => h.value = v
  <2>1. \A i \in 1..Len(r) : i+1 \in 1..Len(q) /\ (Tells(r, i, j) <=> Tells(q, i+1, j))
    BY <1>1 DEF Tells
  <2>2. \A i \in 1..Len(q) : i = 1 \/ (i-1 \in 1..Len(r) /\ (i-1)+1 = i)
    BY <1>1
  <2>3. Tells(q, 1, j) <=> h.control = j /\ ~h.old
    BY <1>1 DEF Tells
  <2>4. \A i \in 1..Len(q) : Tells(q, i, j) => i = 1 \/ Tells(r, i-1, j)
    BY <2>1, <2>2
  <2>5. 1 \in 1..Len(q)
    BY <1>1
  <2>6. ASSUME NEW i \in 1..Len(r), LastWord(r, i, j) PROVE LastWord(q, i+1, j)
    <3>1. ASSUME NEW m \in 1..Len(q), m > i+1 PROVE ~Tells(q, m, j)
      <4>1. m-1 \in 1..Len(r) /\ m-1 > i /\ m # 1
        BY <1>1, <3>1
      <4>2. ~Tells(r, m-1, j)
        BY <2>6, <4>1 DEF LastWord
      <4> QED BY <2>4, <4>1, <4>2
    <3>2. Tells(q, i+1, j)
      BY <2>1, <2>6 DEF LastWord
    <3> QED BY <3>1, <3>2 DEF LastWord
  <2>7. \A v : EndsAt(q, j, v) => EndsAt(r, j, v)
    BY <1>1, <2>1, <2>6 DEF EndsAt
  <2>8. ToldIn(r, j) => ToldIn(q, j)
    BY <2>1 DEF ToldIn
  <2>9. h.control # j \/ h.old => (ToldIn(q, j) => ToldIn(r, j))
    BY <2>2, <2>3, <2>4 DEF ToldIn
  <2>10. h.control = j /\ ~h.old /\ ~ToldIn(r, j) => LastWord(q, 1, j)
    <3> SUFFICES ASSUME h.control = j, ~h.old, ~ToldIn(r, j) PROVE LastWord(q, 1, j)
      OBVIOUS
    <3>1. \A m \in 1..Len(q) : m > 1 => ~Tells(q, m, j)
      BY <2>2, <2>4 DEF ToldIn
    <3> QED BY <2>3, <3>1 DEF LastWord
  <2>11. \A v : /\ h.control = j /\ ~h.old /\ EndsAt(q, j, v) /\ ~ToldIn(r, j)
                => h.value = v
    BY <1>1, <2>5, <2>10 DEF EndsAt
  <2> QED BY <2>7, <2>8, <2>9, <2>11
<1> QED BY <1>1, <1>2, <1>3 DEF r, h

\* Copies of before the selection moved tell no control anything.
LEMMA AgedTells ==
  ASSUME copies \in Seq(Copies), Aged
  PROVE  /\ copies' \in Seq(Copies)
         /\ \A k, v : ~ToldIn(copies', k) /\ EndsAt(copies', k, v)
<1>1. Len(copies) \in Nat /\ DOMAIN copies = 1..Len(copies)
      /\ \A i \in 1..Len(copies) : copies[i] \in Copies
  BY LenProperties, ElementOfSeq
<1>2. /\ copies' = [i \in 1..Len(copies) |-> copies'[i]]
      /\ \A i \in 1..Len(copies) : copies'[i] = [copies[i] EXCEPT !.old = TRUE]
  BY <1>1 DEF Aged
<1>3. \A i \in 1..Len(copies) : copies'[i] \in Copies /\ copies'[i].old = TRUE
  BY <1>1, <1>2 DEF Copies
<1>4. copies' \in Seq(Copies) /\ Len(copies') = Len(copies)
  BY <1>1, <1>2, <1>3, LenProperties
<1>5. \A i \in 1..Len(copies') : \A k : ~Tells(copies', i, k)
  BY <1>3, <1>4 DEF Tells
<1> QED BY <1>4, <1>5 DEF ToldIn, EndsAt, LastWord


\* One field of the strip at a time: the others stay.
Rest(n, t, which) ==
  /\ "shown" \notin which => n.shown = t.shown
  /\ "down" \notin which => n.down = t.down
  /\ "focus" \notin which => n.focus = t.focus
  /\ "trail" \notin which => n.trail = t.trail
  /\ "hand" \notin which => n.hand = t.hand
  /\ "missed" \notin which => n.missed = t.missed
  /\ "stray" \notin which => n.stray = t.stray

LEMMA StripFieldSet ==
  ASSUME NEW t \in Strip
  PROVE  /\ \A x \in [Controls -> Levels] : LET n == [t EXCEPT !.shown = x]
              IN n \in Strip /\ n.shown = x /\ Rest(n, t, {"shown"})
         /\ \A x \in BOOLEAN : LET n == [t EXCEPT !.down = x]
              IN n \in Strip /\ n.down = x /\ Rest(n, t, {"down"})
         /\ \A x \in BOOLEAN : LET n == [t EXCEPT !.focus = x]
              IN n \in Strip /\ n.focus = x /\ Rest(n, t, {"focus"})
         /\ \A x \in [Controls -> BOOLEAN] : LET n == [t EXCEPT !.trail = x]
              IN n \in Strip /\ n.trail = x /\ Rest(n, t, {"trail"})
         /\ \A x \in [Controls -> Levels \cup {None}] : LET n == [t EXCEPT !.hand = x]
              IN n \in Strip /\ n.hand = x /\ Rest(n, t, {"hand"})
         /\ \A x \in [Controls -> BOOLEAN] : LET n == [t EXCEPT !.missed = x]
              IN n \in Strip /\ n.missed = x /\ Rest(n, t, {"missed"})
         /\ \A x \in [Controls -> BOOLEAN] : LET n == [t EXCEPT !.stray = x]
              IN n \in Strip /\ n.stray = x /\ Rest(n, t, {"stray"})
<1>1. ASSUME NEW x \in [Controls -> Levels]
      PROVE  LET n == [t EXCEPT !.shown = x] IN n \in Strip /\ n.shown = x /\ Rest(n, t, {"shown"})
  BY SMTT(40) DEF Strip, Rest
<1>2. ASSUME NEW x \in BOOLEAN
      PROVE  /\ LET n == [t EXCEPT !.down = x] IN n \in Strip /\ n.down = x /\ Rest(n, t, {"down"})
             /\ LET n == [t EXCEPT !.focus = x] IN n \in Strip /\ n.focus = x /\ Rest(n, t, {"focus"})
  BY SMTT(40) DEF Strip, Rest
<1>3. ASSUME NEW x \in [Controls -> BOOLEAN]
      PROVE  /\ LET n == [t EXCEPT !.trail = x] IN n \in Strip /\ n.trail = x /\ Rest(n, t, {"trail"})
             /\ LET n == [t EXCEPT !.missed = x]
                IN n \in Strip /\ n.missed = x /\ Rest(n, t, {"missed"})
             /\ LET n == [t EXCEPT !.stray = x] IN n \in Strip /\ n.stray = x /\ Rest(n, t, {"stray"})
  BY SMTT(40) DEF Strip, Rest
<1>4. ASSUME NEW x \in [Controls -> Levels \cup {None}]
      PROVE  LET n == [t EXCEPT !.hand = x] IN n \in Strip /\ n.hand = x /\ Rest(n, t, {"hand"})
  BY SMTT(40) DEF Strip, Rest
<1> QED BY <1>1, <1>2, <1>3, <1>4

LEMMA TakesFields ==
  ASSUME NEW t \in Strip, NEW which \in SUBSET Controls, NEW values \in [Controls -> Levels]
  PROVE  LET n == Takes(t, which, values)
         IN /\ n \in Strip
            /\ n.down = t.down /\ n.focus = t.focus /\ n.trail = t.trail
            /\ \A k \in Controls :
                 /\ n.shown[k] = IF k \in which THEN values[k] ELSE t.shown[k]
                 /\ n.hand[k] = IF k \in which /\ t.hand[k] # values[k] THEN None ELSE t.hand[k]
                 /\ n.missed[k] <=> t.missed[k] /\ k \notin which
                 /\ n.stray[k] <=> t.stray[k] /\ k \notin which
<1> DEFINE sh == [k \in Controls |-> IF k \in which THEN values[k] ELSE t.shown[k]]
           ha == [k \in Controls |-> IF k \in which /\ t.hand[k] # values[k] THEN None ELSE t.hand[k]]
           mi == [k \in Controls |-> t.missed[k] /\ k \notin which]
           st == [k \in Controls |-> t.stray[k] /\ k \notin which]
           n == [t EXCEPT !.shown = sh, !.hand = ha, !.missed = mi, !.stray = st]
<1>1. Takes(t, which, values) = n
  BY DEF Takes
<1>2. /\ t.shown \in [Controls -> Levels] /\ t.hand \in [Controls -> Levels \cup {None}]
      /\ t.missed \in [Controls -> BOOLEAN] /\ t.stray \in [Controls -> BOOLEAN]
  BY DEF Strip
<1>3. sh \in [Controls -> Levels]
  BY <1>2
<1>4. ha \in [Controls -> Levels \cup {None}]
  BY <1>2
<1>5. mi \in [Controls -> BOOLEAN] /\ st \in [Controls -> BOOLEAN]
  OBVIOUS
<1>6. \A k \in Controls :
        /\ sh[k] = IF k \in which THEN values[k] ELSE t.shown[k]
        /\ ha[k] = IF k \in which /\ t.hand[k] # values[k] THEN None ELSE t.hand[k]
        /\ mi[k] <=> t.missed[k] /\ k \notin which
        /\ st[k] <=> t.stray[k] /\ k \notin which
  OBVIOUS
<1> HIDE DEF sh, ha, mi, st
<1>7. /\ n \in Strip /\ n.shown = sh /\ n.hand = ha /\ n.missed = mi /\ n.stray = st
      /\ n.down = t.down /\ n.focus = t.focus /\ n.trail = t.trail
  <2> DEFINE a == [t EXCEPT !.shown = sh]
             b == [a EXCEPT !.hand = ha]
             c == [b EXCEPT !.missed = mi]
             d == [c EXCEPT !.stray = st]
  <2>1. n = d
    BY Zenon
  <2>2. a \in Strip /\ a.shown = sh /\ Rest(a, t, {"shown"})
    BY <1>3, StripFieldSet
  <2> HIDE DEF a
  <2>3. b \in Strip /\ b.hand = ha /\ Rest(b, a, {"hand"})
    BY <1>4, <2>2, StripFieldSet
  <2> HIDE DEF b
  <2>4. c \in Strip /\ c.missed = mi /\ Rest(c, b, {"missed"})
    BY <1>5, <2>3, StripFieldSet
  <2> HIDE DEF c
  <2>5. d \in Strip /\ d.stray = st /\ Rest(d, c, {"stray"})
    BY <1>5, <2>4, StripFieldSet
  <2> HIDE DEF d, n
  <2> QED BY <2>1, <2>2, <2>3, <2>4, <2>5 DEF Rest
<1> HIDE DEF n
<1> QED BY <1>1, <1>6, <1>7


LEMMA StillInStep ==
  ASSUME NEW t, NEW q, NEW v, NEW j, InStep(t, q, v, j),
         NEW n, NEW r, EndsAt(r, j, v), ToldIn(q, j) => ToldIn(r, j),
         n.shown[j] = t.shown[j], n.hand[j] = t.hand[j],
         t.missed[j] => n.missed[j], t.stray[j] => n.stray[j], InFlight(t, j) => InFlight(n, j)
  PROVE  InStep(n, r, v, j)
BY DEF InStep, EndsAt

\* SetSourceAudio of one control: the copy it posts is the last word about it.
LEMMA AudioSet ==
  ASSUME StripType, NEW s \in Sources, NEW k \in Controls, NEW v \in Levels,
         SetSourceAudio(s, k, v)
  PROVE  /\ level' \in [Sources -> [Controls -> Levels]] /\ copies' \in Seq(Copies)
         /\ level'[s][k] = v
         /\ \A r \in Sources, j \in Controls : r # s \/ j # k => level'[r][j] = level[r][j]
         /\ s # Bound => copies' = copies
         /\ s = Bound =>
              /\ EndsAt(copies, k, level[s][k]) => EndsAt(copies', k, v)
              /\ level[s][k] # v => ToldIn(copies', k)
              /\ \A j \in Controls \ {k} :
                   /\ ToldIn(copies', j) <=> ToldIn(copies, j)
                   /\ \A w : EndsAt(copies, j, w) => EndsAt(copies', j, w)
<1> DEFINE c == [control |-> k, value |-> v, old |-> FALSE]
<1>1. level \in [Sources -> [Controls -> Levels]] /\ copies \in Seq(Copies)
  BY DEF StripType
<1>2. level' = [level EXCEPT ![s][k] = v]
      /\ copies' = IF level[s][k] # v THEN IF s = Bound THEN Append(copies, c) ELSE copies
                   ELSE copies
  BY DEF SetSourceAudio, Announced
<1>3. c \in Copies /\ c.control = k /\ c.value = v /\ ~c.old
  BY DEF Copies
<1> HIDE DEF c
<1>4. /\ level' \in [Sources -> [Controls -> Levels]] /\ level'[s][k] = v
      /\ \A r \in Sources, j \in Controls : r # s \/ j # k => level'[r][j] = level[r][j]
  BY <1>1, <1>2
<1>5. CASE level[s][k] # v /\ s = Bound
  <2>1. copies' = Append(copies, c)
    BY <1>2, <1>5
  <2> QED BY <1>1, <1>3, <1>4, <1>5, <2>1, AppendTells
<1>6. CASE ~(level[s][k] # v /\ s = Bound)
  <2>1. copies' = copies
    BY <1>2, <1>6
  <2> QED BY <1>1, <1>4, <1>6, <2>1
<1> QED BY <1>5, <1>6

LEMMA Settled ==
  ASSUME NEW t \in Strip, NEW k \in Controls
  PROVE  LET n == [t EXCEPT !.trail[k] = FALSE]
         IN /\ n \in Strip /\ Rest(n, t, {"trail"})
            /\ \A j \in Controls : n.trail[j] <=> t.trail[j] /\ j # k
<1> DEFINE x == [t.trail EXCEPT ![k] = FALSE]
           n == [t EXCEPT !.trail = x]
<1>1. t.trail \in [Controls -> BOOLEAN]
  BY DEF Strip
<1>2. x \in [Controls -> BOOLEAN] /\ \A j \in Controls : x[j] <=> t.trail[j] /\ j # k
  BY <1>1
<1> HIDE DEF x
<1>3. n \in Strip /\ n.trail = x /\ Rest(n, t, {"trail"})
  BY <1>2, StripFieldSet
<1> HIDE DEF n
<1>4. n = [t EXCEPT !.trail[k] = FALSE]
  BY Zenon DEF n, x
<1> QED BY <1>2, <1>3, <1>4

\* A flush of the control k: what nobody works shows what libobs holds afterwards.
LEMMA FlushHolds ==
  ASSUME IInv, StripType, insp' = insp, live' = live, NEW t \in Strip, NEW k \in Controls,
         Flush(t, k),
         Bound \in live => /\ EndsAt(copies, k, level[Bound][k])
                           /\ \A j \in Controls \ {k} : InStep(t, copies, level[Bound][j], j)
  PROVE  /\ StripInv'
         /\ Bound \in live => /\ level'[Bound][k] = t.shown[k]
                              /\ t.hand[k] = t.shown[k] => strip'.hand[k] = t.hand[k]
                              /\ \A r \in Sources, j \in Controls :
                                   r # Bound \/ j # k => level'[r][j] = level[r][j]
         /\ Bound \notin live => level' = level
<1> DEFINE quiet == [t EXCEPT !.trail[k] = FALSE]
           sent == Takes(quiet, {k}, quiet.shown)
           free == {j \in Controls : ~InFlight(sent, j)}
           v == t.shown[k]
<1>1. /\ quiet \in Strip /\ Rest(quiet, t, {"trail"})
      /\ \A j \in Controls : quiet.trail[j] <=> t.trail[j] /\ j # k
  BY Settled
<1> HIDE DEF quiet
<1>2. /\ quiet.shown = t.shown /\ quiet.down = t.down /\ quiet.focus = t.focus
      /\ quiet.hand = t.hand /\ quiet.missed = t.missed /\ quiet.stray = t.stray
      /\ t.shown \in [Controls -> Levels]
  BY <1>1 DEF Rest, Strip
<1>0. Bound' = Bound
  BY DEF Bound
<1>3. CASE Bound \notin live
  <2>1. strip' = quiet /\ level' = level /\ copies' = copies
    BY <1>3 DEF Flush, quiet
  <2>2. StripType'
    BY <1>1, <2>1 DEF StripType
  <2> QED BY <1>0, <1>3, <2>1, <2>2 DEF StripInv
<1>4. CASE Bound \in live
  <2>1. Bound \in Sources /\ v \in Levels
    BY <1>2, <1>4 DEF IInv
  <2>2. SetSourceAudio(Bound, k, v) /\ strip' = Takes(sent, free, level'[Bound])
    BY <1>2, <1>4 DEF Flush, quiet
  <2>3. /\ level' \in [Sources -> [Controls -> Levels]] /\ copies' \in Seq(Copies)
        /\ level'[Bound][k] = v
        /\ \A r \in Sources, j \in Controls : r # Bound \/ j # k => level'[r][j] = level[r][j]
        /\ EndsAt(copies', k, v)
        /\ \A j \in Controls \ {k} :
             /\ ToldIn(copies', j) <=> ToldIn(copies, j)
             /\ \A w : EndsAt(copies, j, w) => EndsAt(copies', j, w)
    BY <1>4, <2>1, <2>2, AudioSet
  <2>4. /\ sent \in Strip
        /\ sent.down = t.down /\ sent.focus = t.focus /\ sent.trail = quiet.trail
        /\ \A j \in Controls :
             /\ sent.shown[j] = t.shown[j]
             /\ sent.hand[j] = IF j = k /\ t.hand[j] # t.shown[j] THEN None ELSE t.hand[j]
             /\ sent.missed[j] <=> t.missed[j] /\ j # k
             /\ sent.stray[j] <=> t.stray[j] /\ j # k
    BY <1>1, <1>2, TakesFields
  <2> HIDE DEF sent, v
  <2>5. level'[Bound] \in [Controls -> Levels] /\ free \in SUBSET Controls
    BY <2>1, <2>3
  <2> HIDE DEF free
  <2>6. /\ strip' \in Strip
        /\ strip'.down = t.down /\ strip'.focus = t.focus /\ strip'.trail = quiet.trail
        /\ \A j \in Controls :
             /\ strip'.shown[j] = IF j \in free THEN level'[Bound][j] ELSE sent.shown[j]
             /\ strip'.hand[j] = IF j \in free /\ sent.hand[j] # level'[Bound][j]
                                 THEN None ELSE sent.hand[j]
             /\ strip'.missed[j] <=> sent.missed[j] /\ j \notin free
             /\ strip'.stray[j] <=> sent.stray[j] /\ j \notin free
    BY <2>2, <2>4, <2>5, TakesFields
  <2>7. \A j \in Controls : InFlight(strip', j) <=> InFlight(sent, j)
    BY <2>4, <2>6 DEF InFlight
  <2>8. \A j \in Controls : j \notin free => InFlight(strip', j)
    BY <2>7 DEF free
  <2>9. StripType'
    BY <2>3, <2>6 DEF StripType
  <2>10. InStep(strip', copies', level'[Bound][k], k)
    <3>1. strip'.shown[k] = level'[Bound][k]
      BY <2>3, <2>4, <2>6 DEF v
    <3> QED BY <2>3, <3>1 DEF InStep, EndsAt
  <2>11. ASSUME NEW j \in Controls \ {k} PROVE InStep(strip', copies', level'[Bound][j], j)
    <3>1. level'[Bound][j] = level[Bound][j] /\ InStep(t, copies, level[Bound][j], j)
      BY <1>4, <2>1, <2>3
    <3>2. EndsAt(copies', j, level[Bound][j])
      BY <2>3, <3>1 DEF InStep, EndsAt
    <3>3. CASE j \in free
      <4>1. strip'.shown[j] = level[Bound][j]
        BY <2>6, <3>1, <3>3
      <4> QED BY <3>1, <3>2, <4>1 DEF InStep, EndsAt
    <3>4. CASE j \notin free
      <4>0. j \in Controls /\ j # k
        OBVIOUS
      <4>1. strip'.shown[j] = t.shown[j] /\ strip'.hand[j] = t.hand[j]
        BY <2>4, <2>6, <3>4, <4>0
      <4>3. (t.missed[j] => strip'.missed[j]) /\ (t.stray[j] => strip'.stray[j])
        BY <2>4, <2>6, <3>4, <4>0, Zenon
      <4>2. InFlight(strip', j)
        BY <2>8, <3>4
      <4> QED BY <2>3, <3>1, <3>2, <4>1, <4>2, <4>3, StillInStep
    <3> QED BY <3>3, <3>4
  <2>12. StripInv'
    BY <1>0, <2>9, <2>10, <2>11 DEF StripInv
  <2>13. t.hand[k] = t.shown[k] => strip'.hand[k] = t.hand[k]
    BY <2>3, <2>4, <2>6 DEF v
  <2> QED BY <1>4, <2>3, <2>12, <2>13 DEF v
<1> QED BY <1>3, <1>4


LEMMA TrailStarted ==
  ASSUME NEW t \in Strip, NEW k \in Controls
  PROVE  LET n == [t EXCEPT !.trail[k] = TRUE]
         IN /\ n \in Strip /\ Rest(n, t, {"trail"})
            /\ \A j \in Controls : n.trail[j] <=> t.trail[j] \/ j = k
<1> DEFINE x == [t.trail EXCEPT ![k] = TRUE]
           n == [t EXCEPT !.trail = x]
<1>1. t.trail \in [Controls -> BOOLEAN]
  BY DEF Strip
<1>2. x \in [Controls -> BOOLEAN] /\ \A j \in Controls : x[j] <=> t.trail[j] \/ j = k
  BY <1>1
<1> HIDE DEF x
<1>3. n \in Strip /\ n.trail = x /\ Rest(n, t, {"trail"})
  BY <1>2, StripFieldSet
<1> HIDE DEF n
<1>4. n = [t EXCEPT !.trail[k] = TRUE]
  BY Zenon DEF n, x
<1> QED BY <1>2, <1>3, <1>4

LEMMA HandsFields ==
  ASSUME NEW t \in Strip, NEW k \in Controls, NEW v \in Levels
  PROVE  LET n == Hands(t, k, v)
         IN /\ n \in Strip /\ Rest(n, t, {"shown", "hand"}) /\ n.shown[k] = v /\ n.hand[k] = v
            /\ \A j \in Controls \ {k} : n.shown[j] = t.shown[j] /\ n.hand[j] = t.hand[j]
<1> DEFINE x == [t.shown EXCEPT ![k] = v]
           y == [t.hand EXCEPT ![k] = v]
           m == [t EXCEPT !.shown = x]
           n == [m EXCEPT !.hand = y]
<1>1. t.shown \in [Controls -> Levels] /\ t.hand \in [Controls -> Levels \cup {None}]
  BY DEF Strip
<1>2. /\ x \in [Controls -> Levels] /\ x[k] = v
      /\ \A j \in Controls \ {k} : x[j] = t.shown[j]
  BY <1>1
<1>3. /\ y \in [Controls -> Levels \cup {None}] /\ y[k] = v
      /\ \A j \in Controls \ {k} : y[j] = t.hand[j]
  BY <1>1
<1>4. n = Hands(t, k, v)
  BY Zenon DEF Hands
<1> HIDE DEF x, y
<1>5. m \in Strip /\ m.shown = x /\ Rest(m, t, {"shown"})
  BY <1>2, StripFieldSet
<1> HIDE DEF m
<1>6. n \in Strip /\ n.hand = y /\ Rest(n, m, {"hand"})
  BY <1>3, <1>5, StripFieldSet
<1> HIDE DEF n
<1>7. Rest(n, t, {"shown", "hand"}) /\ n.shown = x
  BY <1>5, <1>6 DEF Rest
<1> QED BY <1>2, <1>3, <1>4, <1>6, <1>7

\* What the mixer strip is while it shows a source that exists.
LEMMA StripNow ==
  ASSUME IInv, StripInv
  PROVE  /\ strip \in Strip /\ copies \in Seq(Copies) /\ level \in [Sources -> [Controls -> Levels]]
         /\ Bound \in live =>
              /\ Bound \in Sources
              /\ \A k \in Controls : /\ InStep(strip, copies, level[Bound][k], k)
                                     /\ EndsAt(copies, k, level[Bound][k])
BY DEF StripInv, StripType, InStep, EndsAt, IInv

LEMMA StripKept ==
  ASSUME StripInv, insp'.src = insp.src, live' \subseteq live, UNCHANGED audioVars
  PROVE  StripInv'
<1>1. level' = level /\ strip' = strip /\ copies' = copies /\ Bound' = Bound
  BY DEF audioVars, Bound
<1> QED BY <1>1 DEF StripInv, StripType

\* A step of the user's that posts and sets nothing.
LEMMA StripHeld ==
  ASSUME IInv, StripInv, insp' = insp, live' = live, UNCHANGED <<level, copies>>,
         strip' \in Strip,
         \A k \in Controls :
           \/ /\ strip'.shown[k] = strip.shown[k] /\ strip'.hand[k] = strip.hand[k]
              /\ InFlight(strip, k) => InFlight(strip', k)
           \/ strip'.shown[k] = strip'.hand[k] /\ InFlight(strip', k),
         strip'.missed = strip.missed, strip'.stray = strip.stray
  PROVE  StripInv'
<1>1. Bound' = Bound
  BY DEF Bound
<1>2. StripType'
  BY StripNow DEF StripType
<1>3. ASSUME Bound \in live, NEW k \in Controls
      PROVE  InStep(strip', copies, level[Bound][k], k)
  <2>1. InStep(strip, copies, level[Bound][k], k) /\ EndsAt(copies, k, level[Bound][k])
    BY <1>3, StripNow
  <2>2. CASE /\ strip'.shown[k] = strip.shown[k] /\ strip'.hand[k] = strip.hand[k]
             /\ InFlight(strip, k) => InFlight(strip', k)
    BY <2>1, <2>2, StillInStep
  <2>3. CASE strip'.shown[k] = strip'.hand[k] /\ InFlight(strip', k)
    BY <2>1, <2>3 DEF InStep
  <2> QED BY <2>2, <2>3
<1> QED BY <1>1, <1>2, <1>3 DEF StripInv

LEMMA MoveGainHolds ==
  ASSUME IInv, StripInv, insp' = insp, live' = live, NEW v \in Levels, MoveGain(v)
  PROVE  StripInv'
<1> DEFINE t == Hands(strip, "gain", v)
<1>1. "gain" \in Controls
  BY DEF Controls
<1>2. /\ t \in Strip /\ Rest(t, strip, {"shown", "hand"})
      /\ t.shown["gain"] = v /\ t.hand["gain"] = v
      /\ \A j \in Controls \ {"gain"} : t.shown[j] = strip.shown[j] /\ t.hand[j] = strip.hand[j]
  BY <1>1, StripNow, HandsFields
<1>3. Flush(t, "gain") \/ (strip' = [t EXCEPT !.trail["gain"] = TRUE] /\ UNCHANGED <<level, copies>>)
  BY DEF MoveGain
<1> HIDE DEF t
<1>4. /\ t.missed = strip.missed /\ t.stray = strip.stray /\ t.trail = strip.trail
      /\ t.down = strip.down /\ t.focus = strip.focus
  BY <1>2 DEF Rest
<1>5. CASE Flush(t, "gain")
  <2>1. ASSUME Bound \in live, NEW j \in Controls \ {"gain"}
        PROVE  InStep(t, copies, level[Bound][j], j)
    <3>1. InStep(strip, copies, level[Bound][j], j) /\ EndsAt(copies, j, level[Bound][j])
      BY <2>1, StripNow
    <3>2. InFlight(strip, j) => InFlight(t, j)
      BY <1>4 DEF InFlight
    <3> QED BY <1>2, <1>4, <3>1, <3>2, StillInStep
  <2>2. StripType
    BY DEF StripInv
  <2> QED BY <1>1, <1>2, <1>5, <2>1, <2>2, StripNow, FlushHolds
<1>6. CASE strip' = [t EXCEPT !.trail["gain"] = TRUE] /\ UNCHANGED <<level, copies>>
  <2>1. /\ strip' \in Strip /\ Rest(strip', t, {"trail"})
        /\ \A j \in Controls : strip'.trail[j] <=> t.trail[j] \/ j = "gain"
    BY <1>1, <1>2, <1>6, TrailStarted
  <2>2. /\ strip'.missed = strip.missed /\ strip'.stray = strip.stray
        /\ strip'.down = strip.down /\ strip'.focus = strip.focus
        /\ strip'.shown = t.shown /\ strip'.hand = t.hand
    BY <1>4, <2>1 DEF Rest
  <2>3. InFlight(strip', "gain")
    BY <1>1, <2>1 DEF InFlight
  <2>4. \A j \in Controls : InFlight(strip, j) => InFlight(strip', j)
    BY <1>4, <2>1, <2>2 DEF InFlight
  <2> QED BY <1>2, <1>6, <2>1, <2>2, <2>3, <2>4, StripHeld
<1> QED BY <1>3, <1>5, <1>6

LEMMA TouchHolds ==
  ASSUME IInv, StripInv, insp' = insp, live' = live, PressGain \/ FocusSync
  PROVE  StripInv'
<1>1. UNCHANGED <<level, copies>>
  BY DEF PressGain, FocusSync
<1>2. /\ strip' \in Strip /\ Rest(strip', strip, {"down", "focus"})
      /\ strip.down => strip'.down
      /\ strip.focus => strip'.focus
  <2>1. CASE PressGain
    <3>1. strip' = [strip EXCEPT !.down = TRUE]
      BY <2>1 DEF PressGain
    <3>2. strip' \in Strip /\ strip'.down = TRUE /\ Rest(strip', strip, {"down"})
      BY <3>1, StripNow, StripFieldSet
    <3> QED BY <3>2 DEF Rest
  <2>2. CASE FocusSync
    <3>1. strip' = [strip EXCEPT !.focus = TRUE]
      BY <2>2 DEF FocusSync
    <3>2. strip' \in Strip /\ strip'.focus = TRUE /\ Rest(strip', strip, {"focus"})
      BY <3>1, StripNow, StripFieldSet
    <3> QED BY <3>2 DEF Rest
  <2> QED BY <2>1, <2>2
<1>3. /\ strip'.missed = strip.missed /\ strip'.stray = strip.stray
      /\ strip'.shown = strip.shown /\ strip'.hand = strip.hand /\ strip'.trail = strip.trail
  BY <1>2 DEF Rest
<1>4. \A j \in Controls : InFlight(strip, j) => InFlight(strip', j)
  BY <1>2, <1>3 DEF InFlight
<1> QED BY <1>1, <1>2, <1>3, <1>4, StripHeld

LEMMA TypeSyncHolds ==
  ASSUME IInv, StripInv, insp' = insp, live' = live, NEW v \in Levels, TypeSync(v)
  PROVE  StripInv'
<1> DEFINE t == Hands(strip, "sync", v)
<1>1. "sync" \in Controls
  BY DEF Controls
<1>2. /\ t \in Strip /\ Rest(t, strip, {"shown", "hand"})
      /\ t.shown["sync"] = v /\ t.hand["sync"] = v
      /\ \A j \in Controls \ {"sync"} : t.shown[j] = strip.shown[j] /\ t.hand[j] = strip.hand[j]
  BY <1>1, StripNow, HandsFields
<1>3. strip' = [t EXCEPT !.trail["sync"] = TRUE] /\ UNCHANGED <<level, copies>>
  BY DEF TypeSync
<1> HIDE DEF t
<1>4. /\ strip' \in Strip /\ Rest(strip', t, {"trail"})
      /\ \A j \in Controls : strip'.trail[j] <=> t.trail[j] \/ j = "sync"
  BY <1>1, <1>2, <1>3, TrailStarted
<1>5. /\ strip'.missed = strip.missed /\ strip'.stray = strip.stray
      /\ strip'.down = strip.down /\ strip'.focus = strip.focus
      /\ strip'.shown = t.shown /\ strip'.hand = t.hand /\ t.trail = strip.trail
  BY <1>2, <1>4 DEF Rest
<1>6. InFlight(strip', "sync")
  BY <1>1, <1>4 DEF InFlight
<1>7. \A j \in Controls : InFlight(strip, j) => InFlight(strip', j)
  BY <1>4, <1>5 DEF InFlight
<1> QED BY <1>2, <1>3, <1>4, <1>5, <1>6, <1>7, StripHeld


\* What a flush starts from: the strip, perhaps with the control's slider or box let go of.
LEMMA LetGo ==
  ASSUME IInv, StripInv, NEW k \in Controls, NEW t,
         \/ t = strip
         \/ t = [strip EXCEPT !.down = FALSE] /\ k = "gain"
         \/ t = [strip EXCEPT !.focus = FALSE] /\ k = "sync"
  PROVE  /\ t \in Strip /\ t.shown = strip.shown /\ t.hand = strip.hand
         /\ Bound \in live => /\ EndsAt(copies, k, level[Bound][k])
                              /\ \A j \in Controls \ {k} : InStep(t, copies, level[Bound][j], j)
<1>1. t \in Strip /\ Rest(t, strip, {"down", "focus"})
  <2>1. CASE t = strip
    BY <2>1, StripNow DEF Rest
  <2>2. CASE t = [strip EXCEPT !.down = FALSE]
    <3>1. t \in Strip /\ Rest(t, strip, {"down"})
      BY <2>2, StripNow, StripFieldSet
    <3> QED BY <3>1 DEF Rest
  <2>3. CASE t = [strip EXCEPT !.focus = FALSE]
    <3>1. t \in Strip /\ Rest(t, strip, {"focus"})
      BY <2>3, StripNow, StripFieldSet
    <3> QED BY <3>1 DEF Rest
  <2> QED BY <2>1, <2>2, <2>3
<1>2. /\ k # "gain" => t.down = strip.down
      /\ k # "sync" => t.focus = strip.focus
  <2>1. CASE t = strip
    BY <2>1
  <2>2. CASE t = [strip EXCEPT !.down = FALSE] /\ k = "gain"
    <3>1. Rest(t, strip, {"down"})
      BY <2>2, StripNow, StripFieldSet
    <3> QED BY <2>2, <3>1 DEF Rest
  <2>3. CASE t = [strip EXCEPT !.focus = FALSE] /\ k = "sync"
    <3>1. Rest(t, strip, {"focus"})
      BY <2>3, StripNow, StripFieldSet
    <3> QED BY <2>3, <3>1 DEF Rest
  <2> QED BY <2>1, <2>2, <2>3
<1>3. /\ t.missed = strip.missed /\ t.stray = strip.stray
      /\ t.shown = strip.shown /\ t.hand = strip.hand /\ t.trail = strip.trail
  BY <1>1 DEF Rest
<1>4. ASSUME Bound \in live, NEW j \in Controls \ {k}
      PROVE  InStep(t, copies, level[Bound][j], j)
  <2>1. InStep(strip, copies, level[Bound][j], j) /\ EndsAt(copies, j, level[Bound][j])
    BY <1>4, StripNow
  <2>2. InFlight(strip, j) => InFlight(t, j)
    BY <1>2, <1>3 DEF InFlight, Controls
  <2> QED BY <1>3, <2>1, <2>2, StillInStep
<1> QED BY <1>1, <1>3, <1>4, StripNow

LEMMA FlushStep ==
  ASSUME IInv, StripInv, insp' = insp, live' = live, NEW k \in Controls, NEW t,
         \/ t = strip
         \/ t = [strip EXCEPT !.down = FALSE] /\ k = "gain"
         \/ t = [strip EXCEPT !.focus = FALSE] /\ k = "sync",
         Flush(t, k)
  PROVE  StripInv'
<1>1. /\ t \in Strip
      /\ Bound \in live => /\ EndsAt(copies, k, level[Bound][k])
                           /\ \A j \in Controls \ {k} : InStep(t, copies, level[Bound][j], j)
  BY LetGo
<1>2. StripType
  BY DEF StripInv
<1> QED BY <1>1, <1>2, FlushHolds

LEMMA LetGoHolds ==
  ASSUME IInv, StripInv, insp' = insp, live' = live,
         ReleaseGain \/ LeaveSync \/ EnterSync \/ \E k \in Controls : TrailingTimeout(k)
  PROVE  StripInv'
<1>1. "gain" \in Controls /\ "sync" \in Controls
  BY DEF Controls
<1>2. CASE ReleaseGain
  <2>1. Flush([strip EXCEPT !.down = FALSE], "gain")
    BY <1>2 DEF ReleaseGain
  <2> QED BY <1>1, <2>1, FlushStep
<1>3. CASE LeaveSync
  <2>1. Flush([strip EXCEPT !.focus = FALSE], "sync")
    BY <1>3 DEF LeaveSync
  <2> QED BY <1>1, <2>1, FlushStep
<1>4. CASE EnterSync
  BY <1>1, <1>4, FlushStep DEF EnterSync
<1>5. CASE \E k \in Controls : TrailingTimeout(k)
  BY <1>5, FlushStep DEF TrailingTimeout
<1> QED BY <1>2, <1>3, <1>4, <1>5

LEMMA ClientSetsHolds ==
  ASSUME IInv, StripInv, insp' = insp, live' = live,
         NEW s \in Sources, NEW k \in Controls, NEW v \in Levels, ClientSetsAudio(s, k, v)
  PROVE  StripInv'
<1>1. SetSourceAudio(s, k, v) /\ level[s][k] # v /\ strip' = strip
  BY DEF ClientSetsAudio
<1>2. StripType
  BY DEF StripInv
<1>3. /\ level' \in [Sources -> [Controls -> Levels]] /\ copies' \in Seq(Copies)
      /\ level'[s][k] = v
      /\ \A r \in Sources, j \in Controls : r # s \/ j # k => level'[r][j] = level[r][j]
      /\ s # Bound => copies' = copies
      /\ s = Bound =>
           /\ EndsAt(copies, k, level[s][k]) => EndsAt(copies', k, v)
           /\ level[s][k] # v => ToldIn(copies', k)
           /\ \A j \in Controls \ {k} :
                /\ ToldIn(copies', j) <=> ToldIn(copies, j)
                /\ \A w : EndsAt(copies, j, w) => EndsAt(copies', j, w)
  BY <1>1, <1>2, AudioSet
<1>4. StripType'
  BY <1>1, <1>3, StripNow DEF StripType
<1>5. ASSUME Bound \in live, NEW j \in Controls
      PROVE  InStep(strip, copies', level'[Bound][j], j)
  <2>1. /\ InStep(strip, copies, level[Bound][j], j) /\ EndsAt(copies, j, level[Bound][j])
        /\ Bound \in Sources
    BY <1>5, StripNow
  <2>2. CASE s # Bound
    <3>1. level'[Bound][j] = level[Bound][j] /\ copies' = copies
      BY <1>3, <2>1, <2>2
    <3> QED BY <2>1, <3>1
  <2>3. CASE s = Bound /\ j = k
    <3>1. EndsAt(copies', k, v) /\ ToldIn(copies', k) /\ level'[Bound][k] = v
      BY <1>1, <1>3, <2>1, <2>3
    <3> QED BY <2>3, <3>1 DEF InStep, EndsAt
  <2>4. CASE s = Bound /\ j # k
    <3>1. /\ level'[Bound][j] = level[Bound][j] /\ EndsAt(copies', j, level[Bound][j])
          /\ ToldIn(copies', j) <=> ToldIn(copies, j)
      BY <1>3, <2>1, <2>4
    <3> QED BY <2>1, <3>1, StillInStep
  <2> QED BY <2>2, <2>3, <2>4
<1>6. Bound' = Bound
  BY DEF Bound
<1> QED BY <1>1, <1>4, <1>5, <1>6 DEF StripInv

LEMMA MissedSet ==
  ASSUME NEW t \in Strip, NEW k \in Controls, NEW b \in BOOLEAN
  PROVE  /\ LET n == [t EXCEPT !.missed[k] = b]
            IN /\ n \in Strip /\ Rest(n, t, {"missed"}) /\ (n.missed[k] <=> b)
               /\ \A j \in Controls \ {k} : n.missed[j] <=> t.missed[j]
         /\ LET n == [t EXCEPT !.stray[k] = b]
            IN /\ n \in Strip /\ Rest(n, t, {"stray"}) /\ (n.stray[k] <=> b)
               /\ \A j \in Controls \ {k} : n.stray[j] <=> t.stray[j]
<1> DEFINE x == [t.missed EXCEPT ![k] = b]
           y == [t.stray EXCEPT ![k] = b]
           n == [t EXCEPT !.missed = x]
           m == [t EXCEPT !.stray = y]
<1>1. t.missed \in [Controls -> BOOLEAN] /\ t.stray \in [Controls -> BOOLEAN]
  BY DEF Strip
<1>2. /\ x \in [Controls -> BOOLEAN] /\ (x[k] <=> b)
      /\ \A j \in Controls \ {k} : x[j] <=> t.missed[j]
  BY <1>1
<1>3. /\ y \in [Controls -> BOOLEAN] /\ (y[k] <=> b)
      /\ \A j \in Controls \ {k} : y[j] <=> t.stray[j]
  BY <1>1
<1>4. n = [t EXCEPT !.missed[k] = b] /\ m = [t EXCEPT !.stray[k] = b]
  BY Zenon
<1> HIDE DEF x, y
<1>5. n \in Strip /\ n.missed = x /\ Rest(n, t, {"missed"})
  BY <1>2, StripFieldSet
<1>6. m \in Strip /\ m.stray = y /\ Rest(m, t, {"stray"})
  BY <1>3, StripFieldSet
<1> HIDE DEF n, m
<1> QED BY <1>2, <1>3, <1>4, <1>5, <1>6


LEMMA PostedCopyHolds ==
  ASSUME IInv, StripInv, insp' = insp, live' = live, PostedCopy
  PROVE  StripInv'
<1> DEFINE c == Head(copies)
           k == c.control
           vals == [strip.shown EXCEPT ![k] = c.value]
           told == {k}
           taken == Takes(strip, told, vals)
           deaf == strip.missed[k] \/ ~c.old
<1>0. Bound' = Bound
  BY DEF Bound
<1>1. copies # << >> /\ copies' = Tail(copies) /\ level' = level
      /\ strip' = IF Bound = None THEN strip
                  ELSE IF InFlight(strip, k) THEN [strip EXCEPT !.missed[k] = deaf]
                  ELSE [taken EXCEPT !.stray[k] = c.old]
  BY DEF PostedCopy
<1>2. strip \in Strip /\ copies \in Seq(Copies) /\ level \in [Sources -> [Controls -> Levels]]
  BY StripNow
<1>3. /\ copies' \in Seq(Copies) /\ c \in Copies
      /\ \A j \in Controls :
           /\ \A v : EndsAt(copies, j, v) => EndsAt(copies', j, v)
           /\ c.control # j \/ c.old => (ToldIn(copies', j) <=> ToldIn(copies, j))
           /\ \A v : /\ c.control = j /\ ~c.old
                     /\ EndsAt(copies, j, v) /\ ~ToldIn(copies', j)
                     => c.value = v
  BY <1>1, <1>2, TailTells
<1>4. k \in Controls /\ c.old \in BOOLEAN /\ c.value \in Levels
  BY <1>3 DEF Copies
<1>5. strip.shown \in [Controls -> Levels] /\ strip.missed \in [Controls -> BOOLEAN]
  BY <1>2 DEF Strip
<1>6. /\ vals \in [Controls -> Levels] /\ vals[k] = c.value
      /\ \A j \in Controls \ {k} : vals[j] = strip.shown[j]
  BY <1>4, <1>5
<1>7. deaf \in BOOLEAN
  BY <1>4, <1>5
<1> HIDE DEF vals, c, deaf, k
<1>8. /\ taken \in Strip
      /\ taken.down = strip.down /\ taken.focus = strip.focus /\ taken.trail = strip.trail
      /\ \A j \in Controls :
           /\ taken.shown[j] = IF j \in told THEN vals[j] ELSE strip.shown[j]
           /\ taken.hand[j] = IF j \in told /\ strip.hand[j] # vals[j] THEN None ELSE strip.hand[j]
           /\ taken.missed[j] <=> strip.missed[j] /\ j \notin told
           /\ taken.stray[j] <=> strip.stray[j] /\ j \notin told
  <2>1. told \in SUBSET Controls
    BY <1>4
  <2> HIDE DEF told
  <2> QED BY <1>2, <1>6, <2>1, TakesFields
<1> HIDE DEF taken
<1>9. CASE Bound = None
  <2>1. strip' = strip /\ Bound \notin live
    BY <1>1, <1>9, NoneAssumption DEF IInv
  <2>2. StripType'
    BY <1>1, <1>2, <1>3, <2>1 DEF StripType
  <2> QED BY <1>0, <2>1, <2>2 DEF StripInv
<1>10. CASE Bound # None /\ InFlight(strip, k)
  <2>1. strip' = [strip EXCEPT !.missed[k] = deaf]
    BY <1>1, <1>10
  <2>2. /\ strip' \in Strip /\ Rest(strip', strip, {"missed"}) /\ (strip'.missed[k] <=> deaf)
        /\ \A j \in Controls \ {k} : strip'.missed[j] <=> strip.missed[j]
    BY <1>2, <1>4, <1>7, <2>1, MissedSet
  <2>3. /\ strip'.shown = strip.shown /\ strip'.hand = strip.hand /\ strip'.stray = strip.stray
        /\ strip'.down = strip.down /\ strip'.focus = strip.focus /\ strip'.trail = strip.trail
    BY <2>2 DEF Rest
  <2>4. \A j \in Controls : InFlight(strip', j) <=> InFlight(strip, j)
    BY <2>3 DEF InFlight
  <2>5. ASSUME Bound \in live, NEW j \in Controls
        PROVE  InStep(strip', copies', level[Bound][j], j)
    <3>1. InStep(strip, copies, level[Bound][j], j) /\ EndsAt(copies', j, level[Bound][j])
      BY <1>3, <2>5, StripNow
    <3>2. CASE j = k /\ ~c.old
      <4>1. strip'.missed[j] /\ InFlight(strip', j)
        BY <1>10, <2>2, <2>4, <3>2 DEF deaf
      <4> QED BY <3>1, <4>1 DEF InStep, EndsAt
    <3>3. CASE j # k \/ c.old
      <4>1. ToldIn(copies, j) => ToldIn(copies', j)
        BY <1>3, <3>3 DEF k
      <4>2. strip.missed[j] => strip'.missed[j]
        BY <2>2, <3>3 DEF deaf
      <4> QED BY <2>3, <2>4, <3>1, <4>1, <4>2, StillInStep
    <3> QED BY <1>4, <3>2, <3>3
  <2>6. StripType'
    BY <1>1, <1>2, <1>3, <2>2 DEF StripType
  <2> QED BY <1>0, <1>1, <2>5, <2>6 DEF StripInv
<1>11. CASE Bound # None /\ ~InFlight(strip, k)
  <2>1. strip' = [taken EXCEPT !.stray[k] = c.old]
    BY <1>1, <1>11
  <2>2. /\ strip' \in Strip /\ Rest(strip', taken, {"stray"}) /\ (strip'.stray[k] <=> c.old)
        /\ \A j \in Controls \ {k} : strip'.stray[j] <=> taken.stray[j]
    BY <1>4, <1>8, <2>1, MissedSet
  <2>3. /\ strip'.shown = taken.shown /\ strip'.hand = taken.hand /\ strip'.missed = taken.missed
        /\ strip'.down = strip.down /\ strip'.focus = strip.focus /\ strip'.trail = strip.trail
    BY <1>8, <2>2 DEF Rest
  <2>4. \A j \in Controls : InFlight(strip', j) <=> InFlight(strip, j)
    BY <2>3 DEF InFlight
  <2>5. ASSUME Bound \in live, NEW j \in Controls
        PROVE  InStep(strip', copies', level[Bound][j], j)
    <3>1. /\ InStep(strip, copies, level[Bound][j], j)
          /\ EndsAt(copies, j, level[Bound][j]) /\ EndsAt(copies', j, level[Bound][j])
      BY <1>3, <2>5, StripNow
    <3>2. CASE j = k
      <4>1. strip'.shown[k] = c.value
        BY <1>4, <1>6, <1>8, <2>3
      <4>2. ~c.old /\ ~ToldIn(copies', k) => c.value = level[Bound][k]
        BY <1>3, <1>4, <3>1, <3>2 DEF k
      <4> QED BY <2>2, <3>1, <3>2, <4>1, <4>2 DEF InStep, EndsAt
    <3>3. CASE j # k
      <4>1. ToldIn(copies, j) => ToldIn(copies', j)
        BY <1>3, <3>3 DEF k
      <4>2. strip'.shown[j] = strip.shown[j] /\ strip'.hand[j] = strip.hand[j]
        BY <1>8, <2>3, <3>3
      <4>3. (strip.missed[j] => strip'.missed[j]) /\ (strip.stray[j] => strip'.stray[j])
        BY <1>8, <2>2, <2>3, <3>3
      <4> QED BY <2>4, <3>1, <4>1, <4>2, <4>3, StillInStep
    <3> QED BY <3>2, <3>3
  <2>6. StripType'
    BY <1>1, <1>2, <1>3, <2>2 DEF StripType
  <2> QED BY <1>0, <1>1, <2>5, <2>6 DEF StripInv
<1> QED BY <1>9, <1>10, <1>11

\* The selection moves to s, which exists, or to none.
LEMMA RebindHolds ==
  ASSUME IInv, StripInv, NEW s, s \in Sources \/ s = None, insp'.src = s, live' = live, Rebind(s)
  PROVE  StripInv' /\ level' = level
<1> DEFINE dropped == [strip EXCEPT !.trail = Neither]
<1>1. strip' = AudioRebound(strip, s) /\ Aged /\ level' = level
  BY DEF Rebind
<1>2. strip \in Strip /\ copies \in Seq(Copies) /\ level \in [Sources -> [Controls -> Levels]]
      /\ live \subseteq Sources
  BY StripNow DEF IInv
<1>3. copies' \in Seq(Copies) /\ \A k, v : ~ToldIn(copies', k) /\ EndsAt(copies', k, v)
  BY <1>1, <1>2, AgedTells
<1>4. Neither \in [Controls -> BOOLEAN]
  BY DEF Neither
<1>5. dropped \in Strip
  BY <1>2, <1>4, StripFieldSet
<1> HIDE DEF dropped
<1>6. Bound' = s
  BY DEF Bound
<1>7. CASE s = None
  <2> DEFINE up == [dropped EXCEPT !.down = FALSE]
  <2>1. up \in Strip
    BY <1>5, StripFieldSet
  <2> HIDE DEF up
  <2>2. [up EXCEPT !.focus = FALSE] \in Strip
    BY <2>1, StripFieldSet
  <2>3. [dropped EXCEPT !.down = FALSE, !.focus = FALSE] = [up EXCEPT !.focus = FALSE]
    BY Zenon DEF up
  <2>4. strip' = [dropped EXCEPT !.down = FALSE, !.focus = FALSE]
    BY <1>1, <1>7 DEF AudioRebound, dropped
  <2>5. StripType' /\ s \notin live'
    BY <1>1, <1>2, <1>3, <1>7, <2>2, <2>3, <2>4, NoneAssumption DEF StripType
  <2> QED BY <1>1, <1>6, <2>5 DEF StripInv
<1>8. CASE s \in live /\ s # None
  <2>1. strip' = Takes(dropped, Controls, level[s])
    BY <1>1, <1>8 DEF AudioRebound, dropped
  <2>2. level[s] \in [Controls -> Levels]
    BY <1>2, <1>8
  <2>3. strip' \in Strip /\ \A k \in Controls : strip'.shown[k] = level[s][k]
    BY <1>5, <2>1, <2>2, TakesFields
  <2>4. \A k \in Controls : InStep(strip', copies', level[s][k], k)
    BY <1>3, <2>3 DEF InStep, EndsAt
  <2>5. StripType'
    BY <1>1, <1>2, <1>3, <2>3 DEF StripType
  <2> QED BY <1>1, <1>6, <2>4, <2>5 DEF StripInv
<1>9. CASE s \notin live /\ s # None
  <2>1. strip' = dropped
    BY <1>1, <1>9 DEF AudioRebound, dropped
  <2>2. StripType'
    BY <1>1, <1>2, <1>3, <1>5, <2>1 DEF StripType
  <2> QED BY <1>1, <1>6, <1>9, <2>2 DEF StripInv
<1> QED BY <1>7, <1>8, <1>9


\* Only onSelectionChanged moves the selection.
LEMMA SelectionStays ==
  ASSUME IInv, InspectorInv, FilterStep
  PROVE  insp'.src = insp.src
<1>1. Shaped(insp) /\ PaneFollows(insp)
  BY RowHasSource
<1>2. ASSUME NEW f \in Ids, SelectRow(f) \/ StartRename(f) PROVE insp'.src = insp.src
  <2>1. CASE SelectRow(f)
    BY <1>1, <2>1, SelectedFollows DEF SelectRow
  <2>2. CASE StartRename(f)
    BY <1>1, <2>2 DEF StartRename, Shaped
  <2> QED BY <1>2, <2>1, <2>2
<1>3. ASSUME NEW r \in DOMAIN insp.rows, ToggleRow(r) PROVE insp'.src = insp.src
  BY <1>1, <1>3 DEF ToggleRow, Notified, Shaped
<1>4. ASSUME NEW r \in DOMAIN insp.rows, NEW name \in Names, EndRename(r, name)
      PROVE  insp'.src = insp.src
  BY <1>1, <1>4 DEF EndRename, Notified, Shaped
<1>5. ASSUME NEW r \in DOMAIN insp.rows, NEW to \in Ids, DropRow(r, to)
      PROVE  insp'.src = insp.src
  BY <1>1, <1>5 DEF DropRow, Shaped
<1>6. CASE AddFilterDialog
  <2> DEFINE i == Notified(insp, insp.src)
             j == RefreshNow(i)
  <2>1. insp' = Selected(j, nextNum[insp.src]) /\ live' = live
    BY <1>6 DEF AddFilterDialog, AddFilter
  <2>2. Shaped(i) /\ PaneFollows(i) /\ i.src = insp.src
    BY <1>1, NotifiedIsQueued
  <2> HIDE DEF i
  <2>3. Shaped(j) /\ PaneFollows(j) /\ j.src = insp.src
    BY <2>1, <2>2, RefreshedFollows
  <2> HIDE DEF j
  <2> QED BY <2>1, <2>3, SelectedFollows
<1>7. CASE RemoveSelectedFilter
  <2> DEFINE i == Notified(insp, insp.src)
  <2>1. (insp' = RefreshNow(i) /\ live' = live) \/ insp' = insp
    BY <1>7 DEF RemoveSelectedFilter, RemoveFilter
  <2>2. Shaped(i) /\ PaneFollows(i) /\ i.src = insp.src
    BY <1>1, NotifiedIsQueued
  <2> HIDE DEF i
  <2> QED BY <2>1, <2>2, RefreshedFollows
<1>8. ASSUME NEW s \in Sources, ClientEdits(s) \/ ClientRemovesSource(s)
      PROVE  insp'.src = insp.src
  BY <1>1, <1>8, NotifiedIsQueued DEF ClientEdits, Wire, ClientRemovesSource
<1>9. CASE PostedRefresh
  <2> DEFINE i == [insp EXCEPT !.queued = FALSE]
  <2>1. insp' = RefreshNow(i) /\ live' = live
    BY <1>9 DEF PostedRefresh, NoEffect
  <2>2. Shaped(i) /\ PaneFollows(i) /\ i.src = insp.src
    BY <1>1 DEF Shaped, PaneFollows
  <2> HIDE DEF i
  <2> QED BY <2>1, <2>2, RefreshedFollows
<1> QED BY <1>2, <1>3, <1>4, <1>5, <1>6, <1>7, <1>8, <1>9 DEF FilterStep

LEMMA SelectionMoves ==
  ASSUME IInv, InspectorInv, StripInv, Selection
  PROVE  StripInv' /\ level' = level
<1>1. ASSUME NEW s \in Sources, SelectSource(s), Rebind(s) PROVE StripInv' /\ level' = level
  <2> DEFINE i == [insp EXCEPT !.src = s, !.pane = Unbound]
  <2>1. live' = live /\ s # None /\ insp' = RefreshNow(i)
    BY <1>1, NoneAssumption DEF SelectSource, NoEffect, SetSource
  <2>2. Shaped(i) /\ i.pane = Unbound /\ i.src = s
    BY RowHasSource DEF Shaped
  <2> HIDE DEF i
  <2>3. insp'.src = s
    BY <2>1, <2>2, RefreshedFollows
  <2> QED BY <1>1, <2>1, <2>3, RebindHolds
<1>2. CASE PostedSourceRefresh /\ insp.src \in live /\ UNCHANGED <<audioVars, mediaVars>>
  <2>1. insp' = insp /\ live' = live /\ UNCHANGED audioVars
    BY <1>2 DEF PostedSourceRefresh, NoEffect
  <2> QED BY <2>1, StripKept DEF audioVars
<1>3. CASE PostedSourceRefresh /\ insp.src \notin live /\ Rebind(None)
  <2>1. insp' = [Closed EXCEPT !.queued = insp.queued] /\ live' = live
    BY <1>3 DEF PostedSourceRefresh, SetSource, NoEffect
  <2>2. insp'.src = None
    BY <2>1 DEF Closed
  <2> QED BY <1>3, <2>1, <2>2, RebindHolds
<1> QED BY <1>1, <1>2, <1>3 DEF Selection

LEMMA StripNext ==
  ASSUME IInv, InspectorInv, StripInv, [DeskNext]_deskVars
  PROVE  StripInv'
<1>1. live' \subseteq live
  BY LiveShrinks
<1>2. CASE Selection
  BY <1>2, SelectionMoves
<1>3. CASE FilterStep
  BY <1>1, <1>3, SelectionStays, StripKept DEF FilterStep
<1>4. CASE AudioStep
  <2>1. insp' = insp /\ live' = live
    BY <1>4 DEF AudioStep
  <2> QED BY <1>4, <2>1, MoveGainHolds, TypeSyncHolds, TouchHolds, LetGoHolds, ClientSetsHolds,
          PostedCopyHolds DEF AudioStep
<1>5. CASE MediaStep \/ PlaybackStep \/ UNCHANGED deskVars
  <2>1. insp'.src = insp.src /\ UNCHANGED audioVars
    BY <1>5 DEF MediaStep, PlaybackStep, deskVars, vars
  <2> QED BY <1>1, <2>1, StripKept
<1> QED BY <1>2, <1>3, <1>4, <1>5 DEF DeskNext

LEMMA StripBegins == DeskInit => StripInv
<1> SUFFICES ASSUME DeskInit PROVE StripInv
  OBVIOUS
<1>1. /\ level = [s \in Sources |-> [k \in Controls |-> 0]] /\ copies = << >>
      /\ strip = [shown |-> [k \in Controls |-> 0], down |-> FALSE, focus |-> FALSE,
                  trail |-> Neither, hand |-> [k \in Controls |-> None],
                  missed |-> Neither, stray |-> Neither]
  BY DEF DeskInit, AudioInit
<1>2. strip \in Strip
  BY <1>1, SMTT(40) DEF Strip, Neither, Levels
<1>3. level \in [Sources -> [Controls -> Levels]] /\ copies \in Seq(Copies)
  BY <1>1 DEF Levels
<1>4. insp.src = None /\ None \notin live
  BY NoneAssumption DEF DeskInit, Init, Closed
<1> QED BY <1>2, <1>3, <1>4 DEF StripInv, StripType, Bound

LEMMA StripInvariant == DeskSpec => [](IInv /\ InspectorInv /\ StripInv)
<1>1. DeskInit => StripInv
  BY StripBegins
<1>2. IInv /\ InspectorInv /\ StripInv /\ [DeskNext]_deskVars => StripInv'
  BY StripNext
<1> QED BY <1>1, <1>2, InspectorInvariant, PTL DEF DeskSpec

LEMMA ToldInIsTold ==
  ASSUME copies \in Seq(Copies), NEW k \in Controls
  PROVE  ToldIn(copies, k) <=> Told(k)
<1>1. DOMAIN copies = 1..Len(copies)
  BY LenProperties
<1> QED BY <1>1 DEF ToldIn, Told, Tells

\* Whatever clients set and the user drags and types, in whatever order the window's
\* posted copies come in: once they are in, a control nobody is working shows what
\* libobs holds, but for a copy that was posted before the selection changed
\* (AudioMixerStrip::reconcile, onAudioChanged, handleSetSourceAudio).
THEOREM StripShowsTheLevel == DeskSpec => []StripSettles
<1>1. IInv /\ InspectorInv /\ StripInv => StripSettles
  <2> SUFFICES ASSUME IInv, StripInv, NEW k \in Controls, Bound \in live,
                      ~InFlight(strip, k), ~Told(k), ~strip.stray[k]
               PROVE  strip.shown[k] = level[Bound][k]
    BY DEF StripSettles
  <2>1. InStep(strip, copies, level[Bound][k], k) /\ copies \in Seq(Copies)
    BY StripNow
  <2> QED BY <2>1, ToldInIsTold DEF InStep
<1> QED BY <1>1, StripInvariant, PTL

LEMMA FlushWrites ==
  ASSUME IInv, StripInv, insp' = insp, live' = live, NEW k \in Controls, NEW t \in Strip,
         Flush(t, k),
         Bound \in live => /\ EndsAt(copies, k, level[Bound][k])
                           /\ \A j \in Controls \ {k} : InStep(t, copies, level[Bound][j], j),
         t.hand[k] = t.shown[k] \/ (t.hand = strip.hand /\ t.shown = strip.shown),
         NEW s \in Sources, NEW j \in Controls, level'[s][j] # level[s][j]
  PROVE  s = Bound /\ (level'[s][j] = strip'.hand[j] \/ strip.missed[j] \/ strip.stray[j] \/ Told(j))
<1>1. StripType
  BY DEF StripInv
<1>2. /\ Bound \in live => /\ level'[Bound][k] = t.shown[k]
                           /\ t.hand[k] = t.shown[k] => strip'.hand[k] = t.hand[k]
                           /\ \A r \in Sources, i \in Controls :
                                r # Bound \/ i # k => level'[r][i] = level[r][i]
      /\ Bound \notin live => level' = level
  BY <1>1, FlushHolds
<1>3. Bound \in live /\ s = Bound /\ j = k
  BY <1>2
<1>4. CASE t.hand[k] = t.shown[k]
  BY <1>2, <1>3, <1>4
<1>5. CASE t.hand[k] # t.shown[k]
  <2>1. InStep(strip, copies, level[Bound][k], k) /\ copies \in Seq(Copies)
    BY <1>3, StripNow
  <2>2. ~strip.missed[k] /\ ~strip.stray[k] /\ ~Told(k)
          => strip.shown[k] \in {level[Bound][k], strip.hand[k]}
    BY <2>1, ToldInIsTold DEF InStep
  <2> QED BY <1>2, <1>3, <1>5, <2>2
<1> QED BY <1>4, <1>5

LEMMA StripWrites ==
  ASSUME IInv, InspectorInv, StripInv, [DeskNext]_deskVars,
         NEW s \in Sources, NEW j \in Controls, level'[s][j] # level[s][j], strip' # strip
  PROVE  s = Bound /\ (level'[s][j] = strip'.hand[j] \/ strip.missed[j] \/ strip.stray[j] \/ Told(j))
<1> DEFINE Good == s = Bound /\ (level'[s][j] = strip'.hand[j] \/ strip.missed[j]
                                  \/ strip.stray[j] \/ Told(j))
<1>0. "gain" \in Controls /\ "sync" \in Controls
  BY DEF Controls
<1>1. ~Selection
  BY SelectionMoves
<1>2. ~FilterStep /\ ~MediaStep /\ ~PlaybackStep /\ ~UNCHANGED deskVars
  BY DEF FilterStep, MediaStep, PlaybackStep, deskVars, audioVars
<1>3. AudioStep
  BY <1>1, <1>2 DEF DeskNext
<1>4. insp' = insp /\ live' = live
  BY <1>3 DEF AudioStep
<1>5. ASSUME NEW k \in Controls, NEW t, Flush(t, k),
             \/ t = strip
             \/ t = [strip EXCEPT !.down = FALSE] /\ k = "gain"
             \/ t = [strip EXCEPT !.focus = FALSE] /\ k = "sync"
      PROVE  Good
  <2>1. /\ t \in Strip /\ t.shown = strip.shown /\ t.hand = strip.hand
        /\ Bound \in live => /\ EndsAt(copies, k, level[Bound][k])
                             /\ \A i \in Controls \ {k} : InStep(t, copies, level[Bound][i], i)
    BY <1>5, LetGo
  <2> QED BY <1>4, <1>5, <2>1, FlushWrites
<1>6. ASSUME NEW v \in Levels, MoveGain(v) PROVE Good
  <2> DEFINE t == Hands(strip, "gain", v)
  <2>1. /\ t \in Strip /\ Rest(t, strip, {"shown", "hand"})
        /\ t.shown["gain"] = v /\ t.hand["gain"] = v
        /\ \A i \in Controls \ {"gain"} : t.shown[i] = strip.shown[i] /\ t.hand[i] = strip.hand[i]
    BY <1>0, StripNow, HandsFields
  <2>2. Flush(t, "gain")
    BY <1>6 DEF MoveGain
  <2> HIDE DEF t
  <2>3. /\ t.missed = strip.missed /\ t.stray = strip.stray /\ t.trail = strip.trail
        /\ t.down = strip.down /\ t.focus = strip.focus
    BY <2>1 DEF Rest
  <2>4. ASSUME Bound \in live, NEW i \in Controls \ {"gain"}
        PROVE  InStep(t, copies, level[Bound][i], i)
    <3>1. InStep(strip, copies, level[Bound][i], i) /\ EndsAt(copies, i, level[Bound][i])
      BY <2>4, StripNow
    <3>2. InFlight(strip, i) => InFlight(t, i)
      BY <2>3 DEF InFlight
    <3> QED BY <2>1, <2>3, <3>1, <3>2, StillInStep
  <2> QED BY <1>0, <1>4, <2>1, <2>2, <2>4, StripNow, FlushWrites
<1>7. ~PressGain /\ ~FocusSync /\ ~(\E v \in Levels : TypeSync(v)) /\ ~PostedCopy
      /\ ~(\E r \in Sources, k \in Controls, v \in Levels : ClientSetsAudio(r, k, v))
  BY DEF PressGain, FocusSync, TypeSync, PostedCopy, ClientSetsAudio
<1>8. CASE ReleaseGain
  BY <1>0, <1>5, <1>8 DEF ReleaseGain
<1>9. CASE LeaveSync
  BY <1>0, <1>5, <1>9 DEF LeaveSync
<1>10. CASE EnterSync \/ \E k \in Controls : TrailingTimeout(k)
  BY <1>0, <1>5, <1>10 DEF EnterSync, TrailingTimeout
<1>11. Good
  BY <1>3, <1>6, <1>7, <1>8, <1>9, <1>10 DEF AudioStep
<1> QED BY <1>11

\* However clients, the copies that are posted and the user's hands interleave, and
\* however often the selection moves under a pending edit: the strip changes what libobs
\* holds only of the source it shows, and to what the user set there, unless a client's
\* newer value was on its way or ignored (AudioMixerStrip::setSource, flushGain,
\* flushSyncOffset).
THEOREM StripWritesWhatWasSet == DeskSpec => StripWritesEdits
<1>1. IInv /\ InspectorInv /\ StripInv /\ [DeskNext]_deskVars =>
        [\A s \in Sources, k \in Controls :
           level'[s][k] # level[s][k] /\ strip' # strip
             => /\ s = Bound
                /\ level'[s][k] = strip'.hand[k]
                   \/ strip.missed[k] \/ strip.stray[k] \/ Told(k)]_<<level, strip>>
  BY StripWrites
<1> QED BY <1>1, StripInvariant, PTL DEF DeskSpec, StripWritesEdits

=============================================================================
