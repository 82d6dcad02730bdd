--------------------------- MODULE RingOpsProofs ---------------------------
(***************************************************************************)
(* What the operators of RingOps compute, for every ring and every value   *)
(* of the constants.  Their loops are the subject of LoopProofs.           *)
(***************************************************************************)
EXTENDS RingOps, LoopProofs, SequenceTheorems

-----------------------------------------------------------------------------
(* Rings *)

(* The types and bounds of a ring's entries, which the arithmetic of every *)
(* lookup needs.                                                           *)
LEMMA RingTypes ==
  ASSUME NEW ring \in Seq(Entry)
  PROVE  /\ Len(ring) \in Nat
         /\ \A k \in 1 .. Len(ring) : /\ ring[k] \in Entry
                                     /\ ring[k].ip \in Peer
                                     /\ ring[k].pos \in Position
                                     /\ ring[k].pos \in Int
<1>1. Len(ring) \in Nat
  OBVIOUS
<1>2. ASSUME NEW k \in 1 .. Len(ring) PROVE ring[k] \in Entry
  OBVIOUS
<1>3. ASSUME NEW e \in Entry PROVE e.ip \in Peer /\ e.pos \in Position
  BY DEF Entry
<1>4. Position \subseteq Int
  BY RingAssumption DEF Position
<1>5. QED
  BY <1>1, <1>2, <1>3, <1>4

Sorted(ring) == \A i, j \in 1 .. Len(ring) : i < j => ring[i].pos < ring[j].pos

\* In order, positions may repeat.
Ordered(ring) == \A i, j \in 1 .. Len(ring) : i < j => ring[i].pos <= ring[j].pos

\* idx is where position pos belongs, and an entry of that position if any.
Lands(ring, pos, idx) ==
  /\ idx \in 1 .. Len(ring) + 1
  /\ \A k \in 1 .. Len(ring) : (k < idx => ring[k].pos <= pos)
  /\ \A k \in 1 .. Len(ring) : (k >= idx => ring[k].pos >= pos)
  /\ \A k \in 1 .. Len(ring) : ring[k].pos = pos => idx <= Len(ring) /\ ring[idx].pos = pos

\* idx splits the ring at position pos.
Splits(ring, pos, idx) ==
  /\ idx \in 1 .. Len(ring) + 1
  /\ \A k \in 1 .. Len(ring) : (k < idx => ring[k].pos < pos)
  /\ \A k \in 1 .. Len(ring) : (k >= idx => ring[k].pos >= pos)

(* What splice(idx, 0, entry) gives at each index.                         *)
LEMMA InsertAtFacts ==
  ASSUME NEW S, NEW s \in Seq(S), NEW i \in 1 .. Len(s) + 1, NEW e \in S
  PROVE  /\ InsertAt(s, i, e) \in Seq(S)
         /\ Len(InsertAt(s, i, e)) = Len(s) + 1
         /\ \A k \in 1 .. Len(s) + 1 :
              InsertAt(s, i, e)[k] = IF k < i THEN s[k] ELSE IF k = i THEN e ELSE s[k-1]
<1> DEFINE p == SubSeq(s, 1, i-1)
           q == SubSeq(s, i, Len(s))
<1>1. p \in Seq(S) /\ Len(p) = i-1 /\ \A k \in 1 .. i-1 : p[k] = s[k]
  OBVIOUS
<1>2. q \in Seq(S) /\ Len(q) = Len(s) - i + 1 /\ \A k \in 1 .. Len(s) - i + 1 : q[k] = s[k+i-1]
  OBVIOUS
<1> HIDE DEF p, q
<1> DEFINE r == p \o <<e>>
<1>3. r \in Seq(S) /\ Len(r) = i /\ r[i] = e /\ \A k \in 1 .. i-1 : r[k] = s[k]
  BY <1>1
<1>4. InsertAt(s, i, e) = r \o q
  BY DEF InsertAt, p, q
<1> HIDE DEF r
<1>5. r \o q \in Seq(S) /\ Len(r \o q) = Len(s) + 1
  <2>1. Len(s) \in Nat /\ Len(r) + Len(q) = Len(s) + 1
    BY <1>2, <1>3
  <2>2. r \o q \in Seq(S) /\ Len(r \o q) = Len(r) + Len(q)
    BY <1>2, <1>3, ConcatProperties
  <2>3. QED
    BY <2>1, <2>2
<1>6. ASSUME NEW k \in 1 .. Len(s) + 1
      PROVE  (r \o q)[k] = IF k < i THEN s[k] ELSE IF k = i THEN e ELSE s[k-1]
  <2>1. ASSUME k <= i PROVE (r \o q)[k] = r[k]
    BY <2>1, <1>2, <1>3
  <2>2. ASSUME k < i PROVE r[k] = s[k]
    <3>1. k \in 1 .. i-1
      BY <2>2
    <3>2. QED
      BY <3>1, <1>3
  <2>3. ASSUME k > i PROVE (r \o q)[k] = s[k-1]
    <3>1. k - i \in 1 .. Len(s) - i + 1 /\ (k - i) + i - 1 = k - 1
      BY <2>3
    <3>2. (r \o q)[k] = q[k-i]
      BY <2>3, <1>2, <1>3
    <3>3. QED
      BY <3>1, <3>2, <1>2
  <2>4. ASSUME k = i PROVE (r \o q)[k] = e
    BY <2>4, <2>1, <1>3
  <2>5. ASSUME k < i PROVE (r \o q)[k] = s[k]
    <3>1. k <= i
      BY <2>5
    <3>2. (r \o q)[k] = r[k]
      BY <3>1, <2>1
    <3>3. QED
      BY <2>5, <2>2, <3>2
  <2>6. k < i \/ (k = i /\ ~ (k < i)) \/ (k > i /\ ~ (k < i) /\ k # i)
    OBVIOUS
  <2>7. QED
    BY <2>3, <2>4, <2>5, <2>6
<1>7. QED
  BY <1>4, <1>5, <1>6

(* What splice(idx, 1) gives at each index.                                *)
LEMMA RemoveAtFacts ==
  ASSUME NEW S, NEW s \in Seq(S), NEW i \in 1 .. Len(s)
  PROVE  /\ RemoveAt(s, i) \in Seq(S)
         /\ Len(RemoveAt(s, i)) = Len(s) - 1
         /\ \A k \in 1 .. Len(s) - 1 :
              RemoveAt(s, i)[k] = IF k < i THEN s[k] ELSE s[k+1]
<1> DEFINE p == SubSeq(s, 1, i-1)
           q == SubSeq(s, i+1, Len(s))
<1>1. p \in Seq(S) /\ Len(p) = i-1 /\ \A k \in 1 .. i-1 : p[k] = s[k]
  OBVIOUS
<1>2. q \in Seq(S) /\ Len(q) = Len(s) - i /\ \A k \in 1 .. Len(s) - i : q[k] = s[k+i]
  OBVIOUS
<1>3. RemoveAt(s, i) = p \o q
  BY DEF RemoveAt
<1> HIDE DEF p, q
<1>4. p \o q \in Seq(S) /\ Len(p \o q) = Len(s) - 1
  <2>1. Len(s) \in Nat /\ Len(p) + Len(q) = Len(s) - 1
    BY <1>1, <1>2
  <2>2. p \o q \in Seq(S) /\ Len(p \o q) = Len(p) + Len(q)
    BY <1>1, <1>2, ConcatProperties
  <2>3. QED
    BY <2>1, <2>2
<1>5. ASSUME NEW k \in 1 .. Len(s) - 1
      PROVE  (p \o q)[k] = IF k < i THEN s[k] ELSE s[k+1]
  <2>1. ASSUME k < i PROVE (p \o q)[k] = s[k]
    BY <2>1, <1>1, <1>2
  <2>2. ASSUME k >= i PROVE (p \o q)[k] = s[k+1]
    <3>1. k - (i-1) \in 1 .. Len(s) - i /\ (k - (i-1)) + i = k + 1
      BY <2>2
    <3>2. (p \o q)[k] = q[k - (i-1)]
      BY <2>2, <1>1, <1>2
    <3>3. QED
      BY <3>1, <3>2, <1>2
  <2>3. k < i \/ (k >= i /\ ~ (k < i))
    OBVIOUS
  <2>4. QED
    BY <2>1, <2>2, <2>3
<1>6. QED
  BY <1>3, <1>4, <1>5

(* The binary search of getInsertionPoint ends, and on a ring in order it  *)
(* returns an index where the position belongs.                            *)
LEMMA SearchLands ==
  ASSUME NEW ring \in Seq(Entry), Ordered(ring), NEW pos \in Position
  PROVE  Lands(ring, pos, getInsertionPoint(ring, pos))
<1> DEFINE L == Len(ring)
           D == (1 .. L + 1) \X (0 .. L)
           mid(w) == (w[1] + w[2]) \div 2
           Body(h, w) == IF w[1] > w[2] THEN w[1]
                         ELSE IF ring[mid(w)].pos = pos THEN mid(w)
                         ELSE IF ring[mid(w)].pos < pos THEN h[<<mid(w) + 1, w[2]>>]
                         ELSE h[<<w[1], mid(w) - 1>>]
           size(w) == w[2] - w[1] + 1
           search == CHOOSE h : h = [w \in D |-> Body(h, w)]
<1>1. L \in Nat /\ \A k \in 1 .. L : ring[k].pos \in Int
  BY RingTypes
<1>2. pos \in Int
  BY RingAssumption DEF Position
<1>3. \A i, j \in 1 .. L : i < j => ring[i].pos <= ring[j].pos
  BY DEF Ordered
<1>4. getInsertionPoint(ring, pos) = search[<<1, L>>]
  BY DEF getInsertionPoint
<1>5. Lands(ring, pos, search[<<1, L>>]) <=>
        /\ search[<<1, L>>] \in 1 .. L + 1
        /\ \A k \in 1 .. L : (k < search[<<1, L>>] => ring[k].pos <= pos)
        /\ \A k \in 1 .. L : (k >= search[<<1, L>>] => ring[k].pos >= pos)
        /\ \A k \in 1 .. L : ring[k].pos = pos =>
             search[<<1, L>>] <= L /\ ring[search[<<1, L>>]].pos = pos
  BY DEF Lands
<1> HIDE DEF L
<1>6. \A w \in D : w[1] \in 1 .. L + 1 /\ w[2] \in 0 .. L /\ size(w) \in Int /\ size(w) <= L
  BY <1>1
<1>7. \A i \in 1 .. L + 1, j \in 0 .. L : <<i, j>> \in D /\ <<i, j>>[1] = i /\ <<i, j>>[2] = j
  OBVIOUS
<1>8. ASSUME NEW w \in D, w[1] <= w[2]
      PROVE  mid(w) \in 1 .. L /\ w[1] <= mid(w) /\ mid(w) <= w[2]
  BY <1>1, <1>6, <1>8
<1> HIDE DEF D, mid
<1> DEFINE right(w) == <<mid(w) + 1, w[2]>>
           left(w)  == <<w[1], mid(w) - 1>>
<1>9. ASSUME NEW w \in D, w[1] <= w[2]
      PROVE  /\ right(w) \in D /\ size(right(w)) < size(w) /\ size(right(w)) \in Nat
             /\ left(w) \in D /\ size(left(w)) < size(w) /\ size(left(w)) \in Nat
  <2>1. mid(w) + 1 \in 1 .. L + 1 /\ mid(w) - 1 \in 0 .. L /\ w[2] \in 0 .. L /\ w[1] \in 1 .. L + 1
    BY <1>1, <1>6, <1>8, <1>9
  <2>2. right(w) \in D /\ left(w) \in D
    BY <2>1, <1>7
  <2>3. size(right(w)) = w[2] - mid(w) /\ size(left(w)) = mid(w) - w[1]
    BY <2>1, <1>7, <1>8, <1>9
  <2>4. w[2] - mid(w) \in Nat /\ mid(w) - w[1] \in Nat
        /\ w[2] - mid(w) < size(w) /\ mid(w) - w[1] < size(w)
    <3>1. \A i, j, k \in Int : i <= k /\ k <= j =>
             j - k \in Nat /\ k - i \in Nat /\ j - k < j - i + 1 /\ k - i < j - i + 1
      OBVIOUS
    <3>2. w[1] \in Int /\ w[2] \in Int /\ mid(w) \in Int /\ w[1] <= mid(w) /\ mid(w) <= w[2]
      BY <2>1, <1>8, <1>9
    <3>3. QED
      BY <3>1, <3>2
  <2>5. QED
    BY <2>2, <2>3, <2>4
<1>m. \A w \in D : w[1] <= w[2] => ring[mid(w)].pos \in Int
  BY <1>1, <1>8
<1>w. \A w \in D : w[1] \in Int /\ w[2] \in Int
  BY <1>1, <1>6
<1>10. ASSUME NEW h, NEW w \in D
       PROVE  /\ w[1] > w[2] => Body(h, w) = w[1]
              /\ w[1] <= w[2] /\ ring[mid(w)].pos = pos => Body(h, w) = mid(w)
              /\ w[1] <= w[2] /\ ring[mid(w)].pos < pos => Body(h, w) = h[right(w)]
              /\ w[1] <= w[2] /\ ring[mid(w)].pos > pos => Body(h, w) = h[left(w)]
  BY <1>2, <1>m, <1>w
<1>11. ASSUME NEW w \in D
       PROVE  \/ w[1] > w[2]
              \/ w[1] <= w[2] /\ ring[mid(w)].pos = pos
              \/ w[1] <= w[2] /\ ring[mid(w)].pos < pos
              \/ w[1] <= w[2] /\ ring[mid(w)].pos > pos
  BY <1>1, <1>2, <1>6, <1>8
<1> HIDE DEF Body, right, left
<1>12. \E h \in [D -> Int] : h = [w \in D |-> Body(h, w)]
  <2> DEFINE P(n) == \E h \in [D -> Int] : \A w \in D : size(w) <= n => h[w] = Body(h, w)
  <2>1. P(0)
    <3>1. [w \in D |-> w[1]] \in [D -> Int]
      BY <1>6
    <3>2. \A w \in D : size(w) <= 0 => w[1] > w[2]
      BY <1>6
    <3>3. QED
      BY <3>1, <3>2, <1>10
  <2>2. ASSUME NEW n \in Nat, P(n) PROVE P(n+1)
    <3>1. PICK h \in [D -> Int] : \A w \in D : size(w) <= n => h[w] = Body(h, w)
      BY <2>2
    <3> DEFINE h2 == [w \in D |-> IF size(w) <= n THEN h[w] ELSE Body(h, w)]
    <3>2. ASSUME NEW w \in D PROVE Body(h, w) \in Int
      <4>1. CASE w[1] > w[2]
        BY <4>1, <1>10, <1>w
      <4>2. CASE w[1] <= w[2] /\ ring[mid(w)].pos = pos
        <5>1. mid(w) \in Int
          BY <4>2, <1>8
        <5>2. QED
          BY <4>2, <5>1, <1>10
      <4>3. CASE w[1] <= w[2] /\ ring[mid(w)].pos < pos
        BY <4>3, <1>9, <1>10
      <4>4. CASE w[1] <= w[2] /\ ring[mid(w)].pos > pos
        BY <4>4, <1>9, <1>10
      <4>5. QED
        BY <4>1, <4>2, <4>3, <4>4, <1>11
    <3>3. h2 \in [D -> Int]
      BY <3>2
    <3>4. ASSUME NEW w \in D, size(w) <= n+1 PROVE h2[w] = Body(h2, w)
      <4>1. \A v \in D : size(v) < size(w) => h2[v] = h[v]
        BY <3>4, <1>6
      <4>2. Body(h2, w) = Body(h, w)
        BY <4>1, <1>9, <1>10, <1>11
      <4>3. h2[w] = Body(h, w)
        BY <3>1
      <4>4. QED
        BY <4>2, <4>3
    <3>5. QED
      BY <3>3, <3>4
  <2> HIDE DEF P
  <2> DEFINE A == {n \in Nat : P(n)}
  <2>3. A = Nat
    <3>1. A \in SUBSET Nat /\ 0 \in A /\ \A n \in Nat : n \in A => n+1 \in A
      BY <2>1, <2>2
    <3>2. QED
      BY <3>1, NatInduct
  <2>4. P(L)
    BY <2>3, <1>1
  <2>5. PICK h \in [D -> Int] : \A w \in D : size(w) <= L => h[w] = Body(h, w)
    BY <2>4 DEF P
  <2>6. \A w \in D : h[w] = Body(h, w)
    BY <2>5, <1>6
  <2>7. QED
    BY <2>6
<1>13. search = [w \in D |-> Body(search, w)]
  BY <1>12
<1> HIDE DEF search
<1>14. \A w \in D : search[w] = Body(search, w)
  BY <1>13
<1> DEFINE Open(w) == /\ w[1] <= w[2] + 1
                      /\ \A k \in 1 .. L : k < w[1] => ring[k].pos < pos
                      /\ \A k \in 1 .. L : k > w[2] => ring[k].pos > pos
           Good(i) == /\ i \in 1 .. L + 1
                      /\ \A k \in 1 .. L : (k < i => ring[k].pos <= pos)
                      /\ \A k \in 1 .. L : (k >= i => ring[k].pos >= pos)
                      /\ \A k \in 1 .. L : ring[k].pos = pos => i <= L /\ ring[i].pos = pos
           Q(n) == \A w \in D : size(w) = n /\ Open(w) => Good(search[w])
<1>15. ASSUME NEW n \in Nat, \A k \in 0 .. n-1 : Q(k) PROVE Q(n)
  <2>1. SUFFICES ASSUME NEW w \in D, size(w) = n, Open(w) PROVE Good(search[w])
    OBVIOUS
  <2>2. ASSUME NEW v \in D, size(v) < n, size(v) \in Nat, Open(v) PROVE Good(search[v])
    BY <2>2, <1>15
  <2> HIDE DEF Q
  <2>3. CASE w[1] > w[2]
    <3>1. search[w] = w[1] /\ w[1] = w[2] + 1
      BY <2>1, <2>3, <1>6, <1>10, <1>14
    <3>2. w[1] \in 1 .. L + 1 /\ w[2] = w[1] - 1
      BY <3>1, <1>1, <1>6
    <3>3. \A k \in 1 .. L : k >= w[1] => k > w[2]
      BY <3>2, <1>1
    <3>4. \A k \in 1 .. L : k >= w[1] => ring[k].pos > pos
      BY <3>3, <2>1, <1>1, <1>2
    <3>5. \A k \in 1 .. L : k < w[1] => ring[k].pos < pos
      BY <2>1
    <3>6. \A k \in 1 .. L : ring[k].pos # pos
      BY <3>2, <3>4, <3>5, <1>1, <1>2
    <3>7. \A k \in 1 .. L : (k < w[1] => ring[k].pos <= pos) /\ (k >= w[1] => ring[k].pos >= pos)
      BY <3>2, <3>4, <3>5, <1>1, <1>2
    <3>8. QED
      BY <3>1, <3>2, <3>6, <3>7
  <2>4. CASE w[1] <= w[2] /\ ring[mid(w)].pos = pos
    <3>1. search[w] = mid(w) /\ mid(w) \in 1 .. L
      BY <2>4, <1>8, <1>10, <1>14
    <3>2. QED
      BY <3>1, <2>4, <1>1, <1>2, <1>3
  <2>5. CASE w[1] <= w[2] /\ ring[mid(w)].pos < pos
    <3>1. search[w] = search[right(w)]
      BY <2>5, <1>10, <1>14
    <3>2. right(w)[1] = mid(w) + 1 /\ right(w)[2] = w[2]
      BY DEF right
    <3>3. \A k \in 1 .. L : k < mid(w) + 1 => ring[k].pos < pos
      BY <2>5, <1>1, <1>2, <1>3, <1>8
    <3>4. Open(right(w))
      BY <3>2, <3>3, <2>1, <2>5, <1>6, <1>8
    <3>5. QED
      BY <3>1, <3>4, <2>1, <2>2, <2>5, <1>9
  <2>6. CASE w[1] <= w[2] /\ ring[mid(w)].pos > pos
    <3>1. search[w] = search[left(w)]
      BY <2>6, <1>10, <1>14
    <3>2. left(w)[1] = w[1] /\ left(w)[2] = mid(w) - 1
      BY DEF left
    <3>3. \A k \in 1 .. L : k > mid(w) - 1 => ring[k].pos > pos
      BY <2>6, <1>1, <1>2, <1>3, <1>8
    <3>4. Open(left(w))
      BY <3>2, <3>3, <2>1, <2>6, <1>6, <1>8
    <3>5. QED
      BY <3>1, <3>4, <2>1, <2>2, <2>6, <1>9
  <2>7. QED
    BY <2>3, <2>4, <2>5, <2>6, <1>11
<1> HIDE DEF Q
<1> DEFINE A == {n \in Nat : Q(n)}
<1>16. A = Nat
  <2>1. ASSUME NEW n \in Nat, \A k \in 0 .. n-1 : k \in A PROVE n \in A
    BY <2>1, <1>15
  <2>2. QED
    BY <2>1, NatStrongInduct
<1>17. Good(search[<<1, L>>])
  <2>1. <<1, L>> \in D /\ <<1, L>>[1] = 1 /\ <<1, L>>[2] = L
    BY <1>1, <1>7
  <2>2. size(<<1, L>>) = L /\ Open(<<1, L>>)
    BY <2>1, <1>1
  <2>3. Q(L)
    BY <1>16, <1>1
  <2>4. QED
    BY <2>1, <2>2, <2>3 DEF Q
<1>18. QED
  BY <1>4, <1>5, <1>17

(* Where no two entries share a position, that index splits the ring.      *)
LEMMA InsertionPoint ==
  ASSUME NEW ring \in Seq(Entry), Sorted(ring), NEW pos \in Position
  PROVE  Splits(ring, pos, getInsertionPoint(ring, pos))
<1> DEFINE idx == getInsertionPoint(ring, pos)
<1>1. Len(ring) \in Nat /\ pos \in Int /\ \A k \in 1 .. Len(ring) : ring[k].pos \in Int
  BY RingTypes, RingAssumption DEF Position
<1>2. \A i, j \in 1 .. Len(ring) : i < j => ring[i].pos < ring[j].pos
  BY DEF Sorted
<1>3. Ordered(ring)
  BY <1>1, <1>2 DEF Ordered
<1>4. Lands(ring, pos, idx)
  BY <1>3, SearchLands
<1> HIDE DEF idx
<1>5. /\ idx \in 1 .. Len(ring) + 1
      /\ \A k \in 1 .. Len(ring) : (k < idx => ring[k].pos <= pos)
      /\ \A k \in 1 .. Len(ring) : (k >= idx => ring[k].pos >= pos)
      /\ \A k \in 1 .. Len(ring) : ring[k].pos = pos => idx <= Len(ring) /\ ring[idx].pos = pos
  BY <1>4 DEF Lands
<1>6. ASSUME NEW k \in 1 .. Len(ring), k < idx PROVE ring[k].pos < pos
  <2>1. SUFFICES ASSUME ring[k].pos = pos PROVE FALSE
    BY <1>1, <1>5, <1>6
  <2>2. idx \in 1 .. Len(ring) /\ ring[idx].pos = pos
    BY <2>1, <1>1, <1>5
  <2>3. QED
    BY <2>1, <2>2, <1>1, <1>2, <1>6
<1>7. QED
  BY <1>5, <1>6 DEF Splits, idx

-----------------------------------------------------------------------------
(* A ring that holds exactly the entries E, in order of position *)

Placed(ring, E) == ring \in Seq(Entry) /\ Sorted(ring) /\ Range(ring) = E

(* The entries of a sequence, by index.                                    *)
LEMMA RangeFacts ==
  ASSUME NEW S, NEW s \in Seq(S)
  PROVE  \A e : e \in Range(s) <=> \E k \in 1 .. Len(s) : e = s[k]
  BY DEF Range

(* Inserting an entry at its insertion point keeps the order and adds that *)
(* entry alone.                                                            *)
LEMMA InsertPlaced ==
  ASSUME NEW ring, NEW E, Placed(ring, E), NEW e \in Entry, \A d \in E : d.pos # e.pos
  PROVE  Placed(InsertAt(ring, getInsertionPoint(ring, e.pos), e), E \cup {e})
<1> DEFINE idx == getInsertionPoint(ring, e.pos)
           t   == InsertAt(ring, idx, e)
           L   == Len(ring)
<1>1. ring \in Seq(Entry) /\ Sorted(ring) /\ Range(ring) = E
  BY DEF Placed
<1>2. L \in Nat /\ \A k \in 1 .. L : ring[k] \in Entry /\ ring[k].pos \in Int
  BY <1>1, RingTypes
<1>3. e.pos \in Position /\ e.pos \in Int
  BY RingAssumption DEF Entry, Position
<1>4. Splits(ring, e.pos, idx)
  BY <1>1, <1>3, InsertionPoint
<1>5. /\ idx \in 1 .. L + 1
      /\ \A k \in 1 .. L : (k < idx => ring[k].pos < e.pos)
      /\ \A k \in 1 .. L : (k >= idx => ring[k].pos >= e.pos)
  BY <1>4 DEF Splits
<1>6. \A d : d \in E <=> \E k \in 1 .. L : d = ring[k]
  BY <1>1, RangeFacts
<1>7. \A k \in 1 .. L : (k >= idx => ring[k].pos > e.pos)
  <2>1. \A k \in 1 .. L : ring[k].pos # e.pos
    BY <1>6
  <2>2. QED
    BY <2>1, <1>2, <1>3, <1>5
<1> HIDE DEF idx
<1>8. /\ t \in Seq(Entry) /\ Len(t) = L + 1
      /\ \A k \in 1 .. L + 1 : t[k] = IF k < idx THEN ring[k] ELSE IF k = idx THEN e ELSE ring[k-1]
  BY <1>1, <1>5, InsertAtFacts
<1>9. \A i, j \in 1 .. L : i < j => ring[i].pos < ring[j].pos
  BY <1>1 DEF Sorted
<1> HIDE DEF t, L
<1>10. /\ t[idx] = e
       /\ \A k \in 1 .. L : k < idx => t[k] = ring[k]
       /\ \A k \in 1 .. L : k >= idx => t[k+1] = ring[k]
  <2>1. t[idx] = e
    BY <1>5, <1>8, <1>2
  <2>2. ASSUME NEW k \in 1 .. L, k < idx PROVE t[k] = ring[k]
    BY <1>2, <2>2, <1>8
  <2>3. ASSUME NEW k \in 1 .. L, k >= idx PROVE t[k+1] = ring[k]
    <3>1. k+1 \in 1 .. L+1 /\ ~ (k+1 < idx) /\ k+1 # idx /\ (k+1)-1 = k
      BY <2>3, <1>2, <1>5
    <3>2. QED
      BY <3>1, <1>8
  <2>4. QED
    BY <2>1, <2>2, <2>3
<1>11. ASSUME NEW k \in 1 .. L + 1
       PROVE  \/ k < idx /\ k \in 1 .. L
              \/ k = idx
              \/ k > idx /\ k-1 \in 1 .. L /\ k-1 >= idx /\ t[k] = ring[k-1]
  <2>2. CASE k < idx
    BY <2>2, <1>2, <1>5
  <2>3. CASE k > idx
    <3>1. k-1 \in 1 .. L /\ k-1 >= idx /\ (k-1)+1 = k
      BY <2>3, <1>2, <1>5
    <3>2. t[k] = ring[k-1]
      BY <3>1, <1>10
    <3>3. QED
      BY <2>3, <3>1, <3>2
  <2>4. QED
    BY <2>2, <2>3, <1>2, <1>5
<1>12. Sorted(t)
  <2>1. SUFFICES ASSUME NEW i \in 1 .. L + 1, NEW j \in 1 .. L + 1, i < j
                 PROVE  t[i].pos < t[j].pos
    BY <1>8 DEF Sorted
  <2>2. CASE j < idx
    <3>1. i < idx /\ i \in 1 .. L /\ j \in 1 .. L
      BY <2>1, <2>2, <1>2, <1>5
    <3>2. QED
      BY <3>1, <2>1, <2>2, <1>9, <1>10
  <2>3. CASE j = idx
    <3>1. i < idx /\ i \in 1 .. L
      BY <2>1, <2>3, <1>2, <1>5
    <3>2. QED
      BY <3>1, <2>3, <1>5, <1>10
  <2>4. CASE j > idx
    <3>1. j-1 \in 1 .. L /\ j-1 >= idx /\ t[j] = ring[j-1]
      BY <2>4, <1>11, <1>5, <1>2
    <3>2. ring[j-1].pos > e.pos
      BY <3>1, <1>7
    <3>3. CASE i < idx
      <4>1. i \in 1 .. L /\ i < j-1
        BY <3>1, <3>3, <1>2, <1>5
      <4>2. QED
        BY <4>1, <3>1, <3>3, <1>9, <1>10
    <3>4. CASE i = idx
      BY <3>1, <3>2, <3>4, <1>10, <1>3, <1>2
    <3>5. CASE i > idx
      <4>1. i-1 \in 1 .. L /\ t[i] = ring[i-1] /\ i-1 < j-1
        BY <2>1, <3>5, <1>11, <1>5, <1>2
      <4>2. QED
        BY <4>1, <3>1, <1>9
    <3>6. QED
      BY <3>3, <3>4, <3>5, <1>2, <1>5
  <2>5. QED
    BY <2>2, <2>3, <2>4, <1>2, <1>5
<1>13. Range(t) = E \cup {e}
  <2>1. \A d : d \in Range(t) <=> \E k \in 1 .. L + 1 : d = t[k]
    BY <1>8, RangeFacts
  <2>2. ASSUME NEW k \in 1 .. L + 1 PROVE t[k] \in E \cup {e}
    BY <1>6, <1>10, <1>11
  <2>3. e \in Range(t)
    BY <2>1, <1>10, <1>5
  <2>4. ASSUME NEW d \in E PROVE d \in Range(t)
    <3>1. PICK k \in 1 .. L : d = ring[k]
      BY <1>6
    <3>2. k \in 1 .. L + 1 /\ k+1 \in 1 .. L + 1 /\ (k < idx \/ k >= idx)
      BY <1>2, <1>5
    <3>3. QED
      BY <3>1, <3>2, <2>1, <1>10
  <2>5. QED
    BY <2>1, <2>2, <2>3, <2>4
<1>14. QED
  BY <1>8, <1>12, <1>13 DEF Placed, idx, t

(* The insertion point of an entry on the ring is the entry's own index,   *)
(* and taking it out keeps the order and removes that entry alone.         *)
LEMMA RemovePlaced ==
  ASSUME NEW ring, NEW E, Placed(ring, E), NEW e \in E
  PROVE  LET idx == getInsertionPoint(ring, e.pos)
         IN  /\ idx \in 1 .. Len(ring) /\ ring[idx] = e
             /\ Placed(RemoveAt(ring, idx), E \ {e})
<1> DEFINE idx == getInsertionPoint(ring, e.pos)
           t   == RemoveAt(ring, idx)
           L   == Len(ring)
<1>1. ring \in Seq(Entry) /\ Sorted(ring) /\ Range(ring) = E
  BY DEF Placed
<1>2. L \in Nat /\ \A k \in 1 .. L : ring[k] \in Entry /\ ring[k].pos \in Int
  BY <1>1, RingTypes
<1>3. \A d : d \in E <=> \E k \in 1 .. L : d = ring[k]
  BY <1>1, RangeFacts
<1>4. e \in Entry /\ e.pos \in Position /\ e.pos \in Int
  BY <1>2, <1>3, RingAssumption DEF Entry, Position
<1>5. Splits(ring, e.pos, idx)
  BY <1>1, <1>4, InsertionPoint
<1>6. /\ idx \in 1 .. L + 1
      /\ \A k \in 1 .. L : (k < idx => ring[k].pos < e.pos)
      /\ \A k \in 1 .. L : (k >= idx => ring[k].pos >= e.pos)
  BY <1>5 DEF Splits
<1>7. \A i, j \in 1 .. L : i < j => ring[i].pos < ring[j].pos
  BY <1>1 DEF Sorted
<1> HIDE DEF idx, L
<1>8. idx \in 1 .. L /\ ring[idx] = e
  <2>1. PICK k \in 1 .. L : e = ring[k]
    BY <1>3
  <2>2. ~ (k < idx)
    BY <2>1, <1>2, <1>6
  <2>3. idx \in 1 .. L
    BY <2>2, <1>2, <1>6
  <2>4. ~ (idx < k)
    <3>1. SUFFICES ASSUME idx < k PROVE FALSE
      OBVIOUS
    <3>2. ring[idx].pos < ring[k].pos
      BY <3>1, <2>3, <1>7
    <3>3. ring[idx].pos >= e.pos
      BY <2>3, <1>2, <1>6
    <3>4. QED
      BY <3>2, <3>3, <2>1, <2>3, <1>2
  <2>5. QED
    BY <2>1, <2>2, <2>3, <2>4, <1>2
<1>9. /\ t \in Seq(Entry) /\ Len(t) = L - 1
      /\ \A k \in 1 .. L - 1 : t[k] = IF k < idx THEN ring[k] ELSE ring[k+1]
  BY <1>1, <1>8, RemoveAtFacts DEF L
<1> HIDE DEF t
<1>10. \A k \in 1 .. L - 1 : \/ k < idx /\ k \in 1 .. L /\ t[k] = ring[k]
                             \/ k >= idx /\ k+1 \in 1 .. L /\ t[k] = ring[k+1]
  <2>1. ASSUME NEW k \in 1 .. L - 1
        PROVE  /\ k \in 1 .. L /\ k+1 \in 1 .. L
               /\ k < idx \/ (k >= idx /\ ~ (k < idx))
    BY <1>2, <1>6
  <2>2. QED
    BY <2>1, <1>9
<1>11. Sorted(t)
  <2>1. SUFFICES ASSUME NEW i \in 1 .. L - 1, NEW j \in 1 .. L - 1, i < j
                 PROVE  t[i].pos < t[j].pos
    BY <1>9 DEF Sorted
  <2>2. CASE j < idx
    <3>1. i < idx
      BY <2>1, <2>2, <1>2, <1>6
    <3>2. i \in 1 .. L /\ j \in 1 .. L /\ t[i] = ring[i] /\ t[j] = ring[j]
      BY <3>1, <2>2, <1>10, <1>2, <1>6
    <3>3. QED
      BY <3>2, <2>1, <1>7
  <2>3. CASE j >= idx
    <3>1. j+1 \in 1 .. L /\ t[j] = ring[j+1]
      BY <2>3, <1>10, <1>2, <1>6
    <3>2. CASE i < idx
      <4>1. i \in 1 .. L /\ t[i] = ring[i] /\ i < j+1
        BY <3>2, <2>1, <1>10, <1>2, <1>6
      <4>2. QED
        BY <4>1, <3>1, <1>7
    <3>3. CASE i >= idx
      <4>1. i+1 \in 1 .. L /\ t[i] = ring[i+1] /\ i+1 < j+1
        BY <3>3, <2>1, <1>10, <1>2, <1>6
      <4>2. QED
        BY <4>1, <3>1, <1>7
    <3>4. QED
      BY <3>2, <3>3, <1>2, <1>6
  <2>4. QED
    BY <2>2, <2>3, <1>2, <1>6
<1>12. Range(t) = E \ {e}
  <2>1. \A d : d \in Range(t) <=> \E k \in 1 .. L - 1 : d = t[k]
    BY <1>9, RangeFacts
  <2>2. ASSUME NEW k \in 1 .. L, ring[k] = e PROVE k = idx
    <3>1. ~ (k < idx) /\ ~ (idx < k)
      BY <2>2, <1>2, <1>7, <1>8
    <3>2. QED
      BY <3>1, <1>2, <1>6
  <2>3. ASSUME NEW k \in 1 .. L - 1 PROVE t[k] \in E \ {e}
    <3>1. CASE k < idx /\ k \in 1 .. L /\ t[k] = ring[k]
      BY <3>1, <2>2, <1>3, <1>2, <1>6
    <3>2. CASE k >= idx /\ k+1 \in 1 .. L /\ t[k] = ring[k+1]
      <4>1. k+1 # idx
        BY <3>2, <1>2, <1>6
      <4>2. QED
        BY <4>1, <3>2, <2>2, <1>3
    <3>3. QED
      BY <3>1, <3>2, <1>10
  <2>4. ASSUME NEW d \in E \ {e} PROVE d \in Range(t)
    <3>1. PICK k \in 1 .. L : d = ring[k]
      BY <1>3
    <3>2. k # idx
      BY <3>1, <1>8
    <3>3. CASE k < idx
      <4>1. k \in 1 .. L - 1
        BY <3>3, <1>2, <1>8
      <4>2. t[k] = ring[k]
        BY <4>1, <3>3, <1>9
      <4>3. QED
        BY <4>1, <4>2, <3>1, <2>1
    <3>4. CASE k > idx
      <4>1. k-1 \in 1 .. L - 1 /\ ~ (k-1 < idx) /\ (k-1)+1 = k
        BY <3>4, <1>2, <1>8
      <4>2. t[k-1] = ring[k]
        BY <4>1, <1>9
      <4>3. QED
        BY <4>1, <4>2, <3>1, <2>1
    <3>5. QED
      BY <3>2, <3>3, <3>4, <1>2, <1>6
  <2>5. QED
    BY <2>1, <2>3, <2>4
<1>13. QED
  BY <1>8, <1>9, <1>11, <1>12 DEF Placed, idx, t, L

(* Two rings with the same entries are equal: the order of the entries     *)
(* does not depend on how they came.                                       *)
LEMMA PlacedUnique ==
  ASSUME NEW r1, NEW r2, NEW E, Placed(r1, E), Placed(r2, E)
  PROVE  r1 = r2
<1> DEFINE L1 == Len(r1)
           L2 == Len(r2)
<1>1. r1 \in Seq(Entry) /\ r2 \in Seq(Entry)
  BY DEF Placed
<1>2. L1 \in Nat /\ L2 \in Nat
      /\ (\A k \in 1 .. L1 : r1[k].pos \in Int) /\ (\A k \in 1 .. L2 : r2[k].pos \in Int)
  BY <1>1, RingTypes
<1>3. /\ \A i, j \in 1 .. L1 : i < j => r1[i].pos < r1[j].pos
      /\ \A i, j \in 1 .. L2 : i < j => r2[i].pos < r2[j].pos
  BY DEF Placed, Sorted
<1>4. /\ \A i \in 1 .. L1 : \E j \in 1 .. L2 : r1[i] = r2[j]
      /\ \A j \in 1 .. L2 : \E i \in 1 .. L1 : r1[i] = r2[j]
  <2>1. /\ \A d : d \in E <=> \E k \in 1 .. L1 : d = r1[k]
        /\ \A d : d \in E <=> \E k \in 1 .. L2 : d = r2[k]
    BY <1>1, RangeFacts DEF Placed
  <2>2. QED
    BY <2>1
<1> HIDE DEF L1, L2
<1> DEFINE A == {n \in Nat : (n \in 1 .. L1 \/ n \in 1 .. L2) =>
                             n \in 1 .. L1 /\ n \in 1 .. L2 /\ r1[n] = r2[n]}
<1>5. ASSUME NEW n \in Nat, \A k \in 0 .. n-1 : k \in A PROVE n \in A
  <2>1. ASSUME NEW k \in 1 .. n-1, k \in 1 .. L1 \/ k \in 1 .. L2
        PROVE  k \in 1 .. L1 /\ k \in 1 .. L2 /\ r1[k] = r2[k]
    <3>1. k \in 0 .. n-1
      OBVIOUS
    <3>2. k \in A
      BY <3>1, <1>5
    <3>3. QED
      BY <3>2, <2>1
  <2> HIDE DEF A
  <2>2. ASSUME NEW j \in 1 .. L2, n \in 1 .. L1, r1[n] = r2[j] PROVE j >= n
    <3>1. SUFFICES ASSUME j < n PROVE FALSE
      BY <1>2
    <3>2. j \in 1 .. n-1
      BY <3>1
    <3>3. j \in 1 .. L1 /\ r1[j] = r2[j]
      BY <3>2, <2>1
    <3>4. r1[j].pos < r1[n].pos
      BY <3>1, <3>3, <2>2, <1>3
    <3>5. QED
      BY <3>3, <3>4, <2>2, <1>2
  <2>3. ASSUME NEW i \in 1 .. L1, n \in 1 .. L2, r1[i] = r2[n] PROVE i >= n
    <3>1. SUFFICES ASSUME i < n PROVE FALSE
      BY <1>2
    <3>2. i \in 1 .. n-1
      BY <3>1
    <3>3. i \in 1 .. L2 /\ r1[i] = r2[i]
      BY <3>2, <2>1
    <3>4. r2[i].pos < r2[n].pos
      BY <3>1, <3>3, <2>3, <1>3
    <3>5. QED
      BY <3>3, <3>4, <2>3, <1>2
  <2>4. ASSUME n \in 1 .. L1 PROVE n \in 1 .. L2
    <3>1. PICK j \in 1 .. L2 : r1[n] = r2[j]
      BY <2>4, <1>4
    <3>2. QED
      BY <3>1, <2>2, <2>4, <1>2
  <2>5. ASSUME n \in 1 .. L2 PROVE n \in 1 .. L1
    <3>1. PICK i \in 1 .. L1 : r1[i] = r2[n]
      BY <2>5, <1>4
    <3>2. QED
      BY <3>1, <2>3, <2>5, <1>2
  <2>6. ASSUME n \in 1 .. L1, n \in 1 .. L2 PROVE r1[n] = r2[n]
    <3>1. PICK j \in 1 .. L2 : r1[n] = r2[j]
      BY <2>6, <1>4
    <3>2. PICK i \in 1 .. L1 : r1[i] = r2[n]
      BY <2>6, <1>4
    <3>3. j >= n /\ i >= n
      BY <3>1, <3>2, <2>2, <2>3, <2>6
    <3>4. n < j => r2[n].pos < r2[j].pos
      BY <2>6, <1>3
    <3>5. n < i => r1[n].pos < r1[i].pos
      BY <2>6, <1>3
    <3>6. ~ (n < j)
      BY <3>1, <3>2, <3>3, <3>4, <3>5, <2>6, <1>2
    <3>7. QED
      BY <3>1, <3>3, <3>6
  <2>7. QED
    BY <2>4, <2>5, <2>6 DEF A
<1>6. A = Nat
  BY <1>5, NatStrongInduct
<1>7. \A n \in Nat : (n \in 1 .. L1 <=> n \in 1 .. L2) /\ (n \in 1 .. L1 => r1[n] = r2[n])
  BY <1>6
<1>8. L1 = L2 /\ \A n \in 1 .. L1 : r1[n] = r2[n]
  <2>1. L1 \in 1 .. L1 \/ L1 = 0
    BY <1>2
  <2>2. L2 \in 1 .. L2 \/ L2 = 0
    BY <1>2
  <2>3. QED
    BY <2>1, <2>2, <1>2, <1>7
<1>9. QED
  BY <1>1, <1>8, SeqEqual DEF L1, L2

-----------------------------------------------------------------------------
(* Allocation and removal of a peer *)

\* The entries of peer p with index less than i.
FirstEntries(p, i, h) == {[ip |-> p, pos |-> h[<<p, j>>]] : j \in 0 .. i-1}

(* Where every entry has a position of its own, a position names its       *)
(* entry.                                                                  *)
LEMMA HashFacts ==
  ASSUME NEW h \in Hash, IsInjective(h)
  PROVE  /\ \A p \in Peer : \A i \in 0 .. VirtualNodes : [ip |-> p, pos |-> h[<<p, i>>]] \in Entry
         /\ \A p, q \in Peer : \A i, j \in 0 .. VirtualNodes :
              h[<<p, i>>] = h[<<q, j>>] => p = q /\ i = j
<1>1. h \in [Peer \X (0 .. VirtualNodes) -> Position]
  BY DEF Hash
<1>2. ASSUME NEW p \in Peer, NEW i \in 0 .. VirtualNodes
      PROVE  [ip |-> p, pos |-> h[<<p, i>>]] \in Entry
  BY <1>1 DEF Entry
<1>3. ASSUME NEW p \in Peer, NEW q \in Peer, NEW i \in 0 .. VirtualNodes, NEW j \in 0 .. VirtualNodes,
             h[<<p, i>>] = h[<<q, j>>]
      PROVE  p = q /\ i = j
  <2>1. <<p, i>> \in DOMAIN h /\ <<q, j>> \in DOMAIN h
    BY <1>1
  <2>2. <<p, i>> = <<q, j>>
    BY <2>1, <1>3 DEF IsInjective
  <2>3. QED
    BY <2>2
<1>4. QED
  BY <1>2, <1>3

(* Membership in EntriesOf, as the proofs use it.                          *)
LEMMA EntriesOfMember ==
  ASSUME NEW T, NEW h
  PROVE  \A d : d \in EntriesOf(T, h) <=>
                  \E q \in T : \E j \in 0 .. VirtualNodes : d = [ip |-> q, pos |-> h[<<q, j>>]]
  BY DEF EntriesOf

(* The entries of a set of peers are entries, each of one of those peers.  *)
LEMMA EntriesOfFacts ==
  ASSUME NEW h \in Hash, IsInjective(h), NEW S \in SUBSET Peer
  PROVE  /\ \A e : e \in EntriesOf(S, h) <=>
                   \E p \in S : \E i \in 0 .. VirtualNodes : e = [ip |-> p, pos |-> h[<<p, i>>]]
         /\ \A e \in EntriesOf(S, h) : e \in Entry /\ e.ip \in S
<1>1. \A e : e \in EntriesOf(S, h) <=>
            \E p \in S : \E i \in 0 .. VirtualNodes : e = [ip |-> p, pos |-> h[<<p, i>>]]
  BY EntriesOfMember
<1>2. ASSUME NEW e \in EntriesOf(S, h) PROVE e \in Entry /\ e.ip \in S
  <2>1. PICK p \in S : \E i \in 0 .. VirtualNodes : e = [ip |-> p, pos |-> h[<<p, i>>]]
    BY <1>1
  <2>2. PICK i \in 0 .. VirtualNodes : e = [ip |-> p, pos |-> h[<<p, i>>]]
    BY <2>1
  <2>3. p \in Peer
    OBVIOUS
  <2>4. e \in Entry
    BY <2>2, <2>3, HashFacts
  <2>5. QED
    BY <2>2, <2>4
<1>3. QED
  BY <1>1, <1>2

\* One turn of the loop of allocateOnRing.
placeEntry(p, h, i, r) ==
  InsertAt(r, getInsertionPoint(r, h[<<p, i-1>>]), [ip |-> p, pos |-> h[<<p, i-1>>]])

(* What each turn of the loop of allocateOnRing hands to the next, the     *)
(* ring has in the end.                                                    *)
LEMMA AllocateLoop ==
  ASSUME NEW h, NEW p, NEW ring, NEW I, ring \in I[0],
         \A i \in 0 .. VirtualNodes + 1 : I[i] \subseteq Seq(Entry),
         \A i \in 1 .. VirtualNodes + 1 : \A r \in I[i-1] : placeEntry(p, h, i, r) \in I[i]
  PROVE  allocateOnRing(ring, p, h) \in I[VirtualNodes + 1]
<1> DEFINE N == VirtualNodes + 1
           step(i, r) == placeEntry(p, h, i, r)
           F == [w \in (1 .. N) \X Seq(Entry) |-> step(w[1], w[2])]
           states == CHOOSE f : f = [i \in 0 .. N |-> IF i = 0 THEN ring ELSE step(i, f[i-1])]
<1>1. N \in Nat /\ \A i \in 1 .. N : i-1 \in 0 .. N /\ i \in 0 .. N /\ i # 0
  BY RingAssumption
<1>2. allocateOnRing(ring, p, h) = states[N]
  BY DEF allocateOnRing, placeEntry
<1>3. /\ ring \in I[0]
      /\ \A i \in 0 .. N : I[i] \subseteq Seq(Entry)
      /\ \A i \in 1 .. N : \A r \in I[i-1] : step(i, r) \in I[i]
  OBVIOUS
<1> HIDE DEF step
<1>4. ASSUME NEW i \in 1 .. N, NEW r \in I[i-1] PROVE F[<<i, r>>] = step(i, r) /\ step(i, r) \in I[i]
  BY <1>1, <1>3
<1> HIDE DEF F
<1>5. PICK f : /\ f[0] = ring
               /\ \A i \in 1 .. N : f[i] = F[<<i, f[i-1]>>]
               /\ \A i \in 0 .. N : f[i] \in I[i]
               /\ f = [i \in 0 .. N |-> f[i]]
  <2>1. StepsKeep(N, Seq(Entry), I, F)
    BY <1>3, <1>4 DEF StepsKeep
  <2>2. PICK f : StatesKept(N, I, ring, F, f)
    BY <1>1, <1>3, <2>1, LoopFunction
  <2>3. QED
    BY <2>2 DEF StatesKept
<1>6. f = [i \in 0 .. N |-> IF i = 0 THEN ring ELSE step(i, f[i-1])]
  <2>1. ASSUME NEW i \in 0 .. N PROVE f[i] = IF i = 0 THEN ring ELSE step(i, f[i-1])
    <3>1. CASE i = 0
      BY <3>1, <1>5
    <3>2. CASE i # 0
      <4>1. i \in 1 .. N
        BY <3>2, <1>1
      <4>2. QED
        BY <4>1, <3>2, <1>1, <1>4, <1>5
    <3>3. QED
      BY <3>1, <3>2
  <2>2. QED
    BY <2>1, <1>5
<1>7. states = [i \in 0 .. N |-> IF i = 0 THEN ring ELSE step(i, states[i-1])]
  BY <1>6
<1> HIDE DEF states
<1>8. states[0] = ring /\ \A i \in 1 .. N : states[i] = step(i, states[i-1])
  BY <1>1, <1>7, 0 \in 0 .. N
<1>9. \A i \in 0 .. N : states[i] \in I[i]
  <2>1. states[0] \in I[0]
    BY <1>3, <1>8
  <2>2. \A i \in 1 .. N : states[i-1] \in I[i-1] => states[i] \in I[i]
    BY <1>4, <1>8
  <2>3. N \in Nat
    BY <1>1
  <2> HIDE DEF N
  <2>4. QED
    BY <2>1, <2>2, <2>3, LoopInvariant
<1>10. QED
  BY <1>1, <1>2, <1>9, N \in 0 .. N

\* One turn of the loop of deallocateFromRing.
dropEntry(p, h, i, r) ==
  LET idx == getInsertionPoint(r, h[<<p, i-1>>])
  IN  IF idx <= Len(r) /\ r[idx].ip = p THEN RemoveAt(r, idx) ELSE r

(* The same for deallocateFromRing.                                        *)
LEMMA DeallocateLoop ==
  ASSUME NEW h, NEW p, NEW ring, NEW I, ring \in I[0],
         \A i \in 0 .. VirtualNodes + 1 : I[i] \subseteq Seq(Entry),
         \A i \in 1 .. VirtualNodes + 1 : \A r \in I[i-1] : dropEntry(p, h, i, r) \in I[i]
  PROVE  deallocateFromRing(ring, p, h) \in I[VirtualNodes + 1]
<1> DEFINE N == VirtualNodes + 1
           step(i, r) == dropEntry(p, h, i, r)
           F == [w \in (1 .. N) \X Seq(Entry) |-> step(w[1], w[2])]
           states == CHOOSE f : f = [i \in 0 .. N |-> IF i = 0 THEN ring ELSE step(i, f[i-1])]
<1>1. N \in Nat /\ \A i \in 1 .. N : i-1 \in 0 .. N /\ i \in 0 .. N /\ i # 0
  BY RingAssumption
<1>2. deallocateFromRing(ring, p, h) = states[N]
  BY DEF deallocateFromRing, dropEntry
<1>3. /\ ring \in I[0]
      /\ \A i \in 0 .. N : I[i] \subseteq Seq(Entry)
      /\ \A i \in 1 .. N : \A r \in I[i-1] : step(i, r) \in I[i]
  OBVIOUS
<1> HIDE DEF step
<1>4. ASSUME NEW i \in 1 .. N, NEW r \in I[i-1] PROVE F[<<i, r>>] = step(i, r) /\ step(i, r) \in I[i]
  BY <1>1, <1>3
<1> HIDE DEF F
<1>5. PICK f : /\ f[0] = ring
               /\ \A i \in 1 .. N : f[i] = F[<<i, f[i-1]>>]
               /\ \A i \in 0 .. N : f[i] \in I[i]
               /\ f = [i \in 0 .. N |-> f[i]]
  <2>1. StepsKeep(N, Seq(Entry), I, F)
    BY <1>3, <1>4 DEF StepsKeep
  <2>2. PICK f : StatesKept(N, I, ring, F, f)
    BY <1>1, <1>3, <2>1, LoopFunction
  <2>3. QED
    BY <2>2 DEF StatesKept
<1>6. f = [i \in 0 .. N |-> IF i = 0 THEN ring ELSE step(i, f[i-1])]
  <2>1. ASSUME NEW i \in 0 .. N PROVE f[i] = IF i = 0 THEN ring ELSE step(i, f[i-1])
    <3>1. CASE i = 0
      BY <3>1, <1>5
    <3>2. CASE i # 0
      <4>1. i \in 1 .. N
        BY <3>2, <1>1
      <4>2. QED
        BY <4>1, <3>2, <1>1, <1>4, <1>5
    <3>3. QED
      BY <3>1, <3>2
  <2>2. QED
    BY <2>1, <1>5
<1>7. states = [i \in 0 .. N |-> IF i = 0 THEN ring ELSE step(i, states[i-1])]
  BY <1>6
<1> HIDE DEF states
<1>8. states[0] = ring /\ \A i \in 1 .. N : states[i] = step(i, states[i-1])
  BY <1>1, <1>7, 0 \in 0 .. N
<1>9. \A i \in 0 .. N : states[i] \in I[i]
  <2>1. states[0] \in I[0]
    BY <1>3, <1>8
  <2>2. \A i \in 1 .. N : states[i-1] \in I[i-1] => states[i] \in I[i]
    BY <1>4, <1>8
  <2>3. N \in Nat
    BY <1>1
  <2> HIDE DEF N
  <2>4. QED
    BY <2>1, <2>2, <2>3, LoopInvariant
<1>10. QED
  BY <1>1, <1>2, <1>9, N \in 0 .. N

(* The same for the peers that initRing allocates.                         *)
LEMMA AllocateAllLoop ==
  ASSUME NEW h, NEW n \in Nat, NEW ps \in [1 .. n -> Peer], NEW I, << >> \in I[0],
         \A i \in 0 .. n : I[i] \subseteq Seq(Entry),
         \A i \in 1 .. n : \A r \in I[i-1] : allocateOnRing(r, ps[i], h) \in I[i]
  PROVE  allocateAll(ps, h) \in I[n]
<1> DEFINE N == n
           step(i, r) == allocateOnRing(r, ps[i], h)
           F == [w \in (1 .. N) \X Seq(Entry) |-> step(w[1], w[2])]
           states == CHOOSE f : f = [i \in 0 .. N |-> IF i = 0 THEN << >> ELSE step(i, f[i-1])]
<1>1. N \in Nat /\ \A i \in 1 .. N : i-1 \in 0 .. N /\ i \in 0 .. N /\ i # 0
  BY RingAssumption
<1>2. allocateAll(ps, h) = states[N]
  <2>1. ps \in Seq(Peer) /\ Len(ps) = n
    OBVIOUS
  <2>2. QED
    BY <2>1 DEF allocateAll
<1>3. /\ << >> \in I[0]
      /\ \A i \in 0 .. N : I[i] \subseteq Seq(Entry)
      /\ \A i \in 1 .. N : \A r \in I[i-1] : step(i, r) \in I[i]
  OBVIOUS
<1> HIDE DEF step
<1>4. ASSUME NEW i \in 1 .. N, NEW r \in I[i-1] PROVE F[<<i, r>>] = step(i, r) /\ step(i, r) \in I[i]
  BY <1>1, <1>3
<1> HIDE DEF F
<1>5. PICK f : /\ f[0] = << >>
               /\ \A i \in 1 .. N : f[i] = F[<<i, f[i-1]>>]
               /\ \A i \in 0 .. N : f[i] \in I[i]
               /\ f = [i \in 0 .. N |-> f[i]]
  <2>1. StepsKeep(N, Seq(Entry), I, F)
    BY <1>3, <1>4 DEF StepsKeep
  <2>2. PICK f : StatesKept(N, I, << >>, F, f)
    BY <1>1, <1>3, <2>1, LoopFunction
  <2>3. QED
    BY <2>2 DEF StatesKept
<1>6. f = [i \in 0 .. N |-> IF i = 0 THEN << >> ELSE step(i, f[i-1])]
  <2>1. ASSUME NEW i \in 0 .. N PROVE f[i] = IF i = 0 THEN << >> ELSE step(i, f[i-1])
    <3>1. CASE i = 0
      BY <3>1, <1>5
    <3>2. CASE i # 0
      <4>1. i \in 1 .. N
        BY <3>2, <1>1
      <4>2. QED
        BY <4>1, <3>2, <1>1, <1>4, <1>5
    <3>3. QED
      BY <3>1, <3>2
  <2>2. QED
    BY <2>1, <1>5
<1>7. states = [i \in 0 .. N |-> IF i = 0 THEN << >> ELSE step(i, states[i-1])]
  BY <1>6
<1> HIDE DEF states
<1>8. states[0] = << >> /\ \A i \in 1 .. N : states[i] = step(i, states[i-1])
  BY <1>1, <1>7, 0 \in 0 .. N
<1>9. \A i \in 0 .. N : states[i] \in I[i]
  <2>1. states[0] \in I[0]
    BY <1>3, <1>8
  <2>2. \A i \in 1 .. N : states[i-1] \in I[i-1] => states[i] \in I[i]
    BY <1>4, <1>8
  <2>3. N \in Nat
    BY <1>1
  <2> HIDE DEF N
  <2>4. QED
    BY <2>1, <2>2, <2>3, LoopInvariant
<1>10. QED
  BY <1>1, <1>2, <1>9, N \in 0 .. N

(* Allocating a peer that is not on the ring adds its entries and leaves   *)
(* the others, in order.                                                   *)
LEMMA AllocatePlaced ==
  ASSUME NEW h \in Hash, IsInjective(h), NEW S \in SUBSET Peer, NEW p \in Peer, p \notin S,
         NEW ring, Placed(ring, EntriesOf(S, h))
  PROVE  Placed(allocateOnRing(ring, p, h), EntriesOf(S \cup {p}, h))
<1> DEFINE N == VirtualNodes + 1
           entry(i) == [ip |-> p, pos |-> h[<<p, i-1>>]]
           E(i) == EntriesOf(S, h) \cup FirstEntries(p, i, h)
           I == [i \in 0 .. N |-> {r \in Seq(Entry) : Placed(r, E(i))}]
<1>1. N \in Nat /\ \A i \in 1 .. N : i-1 \in 0 .. VirtualNodes /\ i-1 \in 0 .. N /\ i \in 0 .. N
  BY RingAssumption
<1>2. ASSUME NEW i \in 1 .. N, NEW r, Placed(r, E(i-1)) PROVE Placed(placeEntry(p, h, i, r), E(i))
  <2>1. entry(i) \in Entry /\ entry(i).pos = h[<<p, i-1>>]
    BY <1>1, HashFacts
  <2>2. ASSUME NEW d \in E(i-1) PROVE d.pos # entry(i).pos
    <3>1. CASE d \in EntriesOf(S, h)
      <4>1. PICK q \in S, j \in 0 .. VirtualNodes : d = [ip |-> q, pos |-> h[<<q, j>>]]
        BY <3>1 DEF EntriesOf
      <4>2. q \in Peer /\ q # p
        OBVIOUS
      <4>3. QED
        BY <4>1, <4>2, <1>1, HashFacts
    <3>2. CASE d \in FirstEntries(p, i-1, h)
      <4>1. PICK j \in 0 .. (i-1)-1 : d = [ip |-> p, pos |-> h[<<p, j>>]]
        BY <3>2 DEF FirstEntries
      <4>2. j \in 0 .. VirtualNodes /\ j # i-1
        BY <1>1, RingAssumption
      <4>3. QED
        BY <4>1, <4>2, <1>1, HashFacts
    <3>3. QED
      BY <3>1, <3>2
  <2>3. Placed(placeEntry(p, h, i, r), E(i-1) \cup {entry(i)})
    <3> DEFINE e == entry(i)
    <3>1. placeEntry(p, h, i, r) = InsertAt(r, getInsertionPoint(r, e.pos), e)
      BY <2>1 DEF placeEntry
    <3>2. e \in Entry /\ Placed(r, E(i-1)) /\ \A d \in E(i-1) : d.pos # e.pos
      BY <2>1, <2>2, <1>2
    <3> HIDE DEF e, E
    <3>3. Placed(InsertAt(r, getInsertionPoint(r, e.pos), e), E(i-1) \cup {e})
      BY <3>2, InsertPlaced
    <3>4. QED
      BY <3>1, <3>3 DEF e
  <2>4. E(i) = E(i-1) \cup {entry(i)}
    <3>1. 0 .. i-1 = (0 .. (i-1)-1) \cup {i-1}
      OBVIOUS
    <3>2. QED
      BY <3>1 DEF FirstEntries
  <2>5. QED
    BY <2>3, <2>4
<1>3. ring \in I[0]
  <2>1. FirstEntries(p, 0, h) = {}
    BY DEF FirstEntries
  <2>2. E(0) = EntriesOf(S, h) /\ 0 \in 0 .. N
    BY <2>1, <1>1
  <2>3. QED
    BY <2>2 DEF Placed
<1> HIDE DEF E
<1>4. \A i \in 0 .. N : I[i] \subseteq Seq(Entry) /\ \A r : r \in I[i] <=> Placed(r, E(i))
  BY DEF Placed
<1> HIDE DEF I
<1>5. \A i \in 1 .. N : \A r \in I[i-1] : placeEntry(p, h, i, r) \in I[i]
  BY <1>1, <1>2, <1>4
<1>6. allocateOnRing(ring, p, h) \in I[N]
  BY <1>3, <1>4, <1>5, AllocateLoop
<1>7. Placed(allocateOnRing(ring, p, h), E(N))
  BY <1>1, <1>4, <1>6, N \in 0 .. N
<1>8. E(N) = EntriesOf(S \cup {p}, h)
  <2>1. 0 .. N-1 = 0 .. VirtualNodes
    BY RingAssumption
  <2>2. FirstEntries(p, N, h) = EntriesOf({p}, h)
    <3>1. FirstEntries(p, N, h) = {[ip |-> p, pos |-> h[<<p, j>>]] : j \in 0 .. VirtualNodes}
      BY <2>1 DEF FirstEntries
    <3>2. EntriesOf({p}, h) = {[ip |-> p, pos |-> h[<<p, j>>]] : j \in 0 .. VirtualNodes}
      BY DEF EntriesOf
    <3>3. QED
      BY <3>1, <3>2
  <2>3. EntriesOf(S, h) \cup EntriesOf({p}, h) = EntriesOf(S \cup {p}, h)
    BY DEF EntriesOf
  <2>4. QED
    BY <2>2, <2>3 DEF E
<1>9. QED
  BY <1>7, <1>8

(* Removing a peer takes away all of its entries and none of another's,    *)
(* whether or not the peer is on the ring.                                 *)
LEMMA DeallocatePlaced ==
  ASSUME NEW h \in Hash, IsInjective(h), NEW S \in SUBSET Peer, NEW p \in Peer,
         NEW ring, Placed(ring, EntriesOf(S, h))
  PROVE  Placed(deallocateFromRing(ring, p, h), EntriesOf(S \ {p}, h))
<1> DEFINE N == VirtualNodes + 1
           point(i, r) == getInsertionPoint(r, h[<<p, i-1>>])
           E(i) == EntriesOf(S, h) \ FirstEntries(p, i, h)
           I == [i \in 0 .. N |-> {r \in Seq(Entry) : Placed(r, E(i))}]
<1>1. N \in Nat /\ \A i \in 1 .. N : i-1 \in 0 .. VirtualNodes /\ i-1 \in 0 .. N /\ i \in 0 .. N
  BY RingAssumption
<1>2. ASSUME NEW i \in 1 .. N, NEW r, Placed(r, E(i-1)) PROVE Placed(dropEntry(p, h, i, r), E(i))
  <2> DEFINE e == [ip |-> p, pos |-> h[<<p, i-1>>]]
  <2>1. e \in Entry /\ e.pos = h[<<p, i-1>>] /\ e.pos \in Position /\ e.ip = p
    BY <1>1, HashFacts DEF Entry
  <2>2. E(i) = E(i-1) \ {e}
    <3>1. 0 .. i-1 = (0 .. (i-1)-1) \cup {i-1}
      OBVIOUS
    <3>2. QED
      BY <3>1 DEF FirstEntries
  <2>3. CASE p \in S
    <3>1. e \in E(i-1)
      <4>1. e \in EntriesOf(S, h)
        BY <2>3, <1>1 DEF EntriesOf
      <4>2. ASSUME e \in FirstEntries(p, i-1, h) PROVE FALSE
        <5>1. PICK j \in 0 .. (i-1)-1 : e = [ip |-> p, pos |-> h[<<p, j>>]]
          BY <4>2 DEF FirstEntries
        <5>2. j \in 0 .. VirtualNodes /\ j # i-1
          BY <1>1, RingAssumption
        <5>3. h[<<p, i-1>>] = h[<<p, j>>]
          BY <5>1
        <5>4. QED
          BY <5>2, <5>3, <1>1, HashFacts
      <4>3. QED
        BY <4>1, <4>2
    <3> HIDE DEF E, e
    <3>2. /\ getInsertionPoint(r, e.pos) \in 1 .. Len(r)
          /\ r[getInsertionPoint(r, e.pos)] = e
          /\ Placed(RemoveAt(r, getInsertionPoint(r, e.pos)), E(i-1) \ {e})
      BY <3>1, <1>2, RemovePlaced
    <3>3. Len(r) \in Nat
      BY <1>2, RingTypes DEF Placed
    <3>4. dropEntry(p, h, i, r) = RemoveAt(r, getInsertionPoint(r, e.pos))
      BY <2>1, <3>2, <3>3 DEF dropEntry
    <3>5. QED
      BY <2>2, <3>2, <3>4
  <2>4. CASE p \notin S
    <3>1. \A d \in EntriesOf(S, h) : d.ip # p
      BY <2>4, EntriesOfFacts
    <3>2. E(i) = E(i-1) /\ \A d \in E(i-1) : d.ip # p
      BY <3>1, <2>1, <2>2
    <3>3. r \in Seq(Entry) /\ Sorted(r) /\ Range(r) = E(i-1)
      BY <1>2 DEF Placed
    <3>4. \A k \in 1 .. Len(r) : r[k].ip # p
      <4>1. \A k \in 1 .. Len(r) : r[k] \in E(i-1)
        BY <3>3, RangeFacts
      <4>2. QED
        BY <4>1, <3>2
    <3>5. point(i, r) \in 1 .. Len(r) + 1
      BY <2>1, <3>3, InsertionPoint DEF Splits
    <3>6. ~ (point(i, r) <= Len(r) /\ r[point(i, r)].ip = p)
      BY <3>3, <3>4, <3>5, RingTypes
    <3>7. dropEntry(p, h, i, r) = r
      BY <3>6 DEF dropEntry
    <3>8. QED
      BY <3>2, <3>7, <1>2
  <2>5. QED
    BY <2>3, <2>4
<1>3. ring \in I[0]
  <2>1. FirstEntries(p, 0, h) = {}
    BY DEF FirstEntries
  <2>2. E(0) = EntriesOf(S, h) /\ 0 \in 0 .. N
    BY <2>1, <1>1
  <2>3. QED
    BY <2>2 DEF Placed
<1> HIDE DEF E
<1>4. \A i \in 0 .. N : I[i] \subseteq Seq(Entry) /\ \A r : r \in I[i] <=> Placed(r, E(i))
  BY DEF Placed
<1> HIDE DEF I
<1>5. \A i \in 1 .. N : \A r \in I[i-1] : dropEntry(p, h, i, r) \in I[i]
  BY <1>1, <1>2, <1>4
<1>6. deallocateFromRing(ring, p, h) \in I[N]
  BY <1>3, <1>4, <1>5, DeallocateLoop
<1>7. Placed(deallocateFromRing(ring, p, h), E(N))
  BY <1>1, <1>4, <1>6, N \in 0 .. N
<1>8. E(N) = EntriesOf(S \ {p}, h)
  <2>1. N-1 = VirtualNodes
    BY RingAssumption
  <2>2. ASSUME NEW q \in S, NEW j \in 0 .. VirtualNodes
        PROVE  [ip |-> q, pos |-> h[<<q, j>>]] \in FirstEntries(p, N, h) <=> q = p
    BY <2>1 DEF FirstEntries
  <2>3. ASSUME NEW d \in E(N) PROVE d \in EntriesOf(S \ {p}, h)
    <3>1. d \in EntriesOf(S, h) /\ d \notin FirstEntries(p, N, h)
      BY DEF E
    <3>2. PICK q \in S, j \in 0 .. VirtualNodes : d = [ip |-> q, pos |-> h[<<q, j>>]]
      BY <3>1, EntriesOfMember
    <3>3. q \in S \ {p}
      BY <2>2, <3>1, <3>2
    <3>4. QED
      BY <3>2, <3>3, EntriesOfMember
  <2>4. ASSUME NEW d \in EntriesOf(S \ {p}, h) PROVE d \in E(N)
    <3>1. PICK q \in S \ {p}, j \in 0 .. VirtualNodes : d = [ip |-> q, pos |-> h[<<q, j>>]]
      BY EntriesOfMember
    <3>2. d \in EntriesOf(S, h)
      BY <3>1, EntriesOfMember
    <3>3. d \notin FirstEntries(p, N, h)
      BY <2>2, <3>1
    <3>4. QED
      BY <3>2, <3>3 DEF E
  <2>5. QED
    BY <2>3, <2>4
<1>9. QED
  BY <1>7, <1>8

(* Allocating distinct peers one after the other, in any order, gives the  *)
(* ring of their entries.                                                  *)
LEMMA AllocateAllPlaced ==
  ASSUME NEW h \in Hash, IsInjective(h), NEW n \in Nat, NEW ps \in [1 .. n -> Peer],
         \A i, j \in 1 .. n : ps[i] = ps[j] => i = j
  PROVE  Placed(allocateAll(ps, h), EntriesOf({ps[k] : k \in 1 .. n}, h))
<1> DEFINE S(i) == {ps[k] : k \in 1 .. i}
           I == [i \in 0 .. n |-> {r \in Seq(Entry) : Placed(r, EntriesOf(S(i), h))}]
<1>1. \A i \in 1 .. n : i-1 \in 0 .. n /\ i \in 0 .. n
  OBVIOUS
<1>2. ASSUME NEW i \in 1 .. n, NEW r, Placed(r, EntriesOf(S(i-1), h))
      PROVE  Placed(allocateOnRing(r, ps[i], h), EntriesOf(S(i), h))
  <2>1. S(i-1) \in SUBSET Peer /\ ps[i] \in Peer
    OBVIOUS
  <2>2. ps[i] \notin S(i-1)
    <3>1. \A k \in 1 .. i-1 : k \in 1 .. n /\ k # i
      OBVIOUS
    <3>2. QED
      BY <3>1
  <2>3. S(i) = S(i-1) \cup {ps[i]}
    <3>1. 1 .. i = (1 .. i-1) \cup {i}
      OBVIOUS
    <3>2. QED
      BY <3>1
  <2> HIDE DEF S
  <2>4. QED
    BY <2>1, <2>2, <2>3, <1>2, AllocatePlaced
<1>3. << >> \in I[0]
  <2>1. S(0) = {} /\ 0 \in 0 .. n
    OBVIOUS
  <2>2. EntriesOf({}, h) = {}
    BY DEF EntriesOf
  <2>3. << >> \in Seq(Entry) /\ Sorted(<< >>) /\ Range(<< >>) = {}
    BY DEF Sorted, Range
  <2>4. QED
    BY <2>1, <2>2, <2>3 DEF Placed
<1> HIDE DEF S
<1>4. \A i \in 0 .. n : I[i] \subseteq Seq(Entry) /\ \A r : r \in I[i] <=> Placed(r, EntriesOf(S(i), h))
  BY DEF Placed
<1> HIDE DEF I
<1>5. \A i \in 1 .. n : \A r \in I[i-1] : allocateOnRing(r, ps[i], h) \in I[i]
  BY <1>1, <1>2, <1>4
<1>6. allocateAll(ps, h) \in I[n]
  BY <1>3, <1>4, <1>5, AllocateAllLoop
<1>7. Placed(allocateAll(ps, h), EntriesOf(S(n), h))
  BY <1>4, <1>6, n \in 0 .. n
<1>8. QED
  BY <1>7 DEF S

-----------------------------------------------------------------------------
(* Rings whose entries may share positions *)

\* Where the entry at index k of a ring was before an entry was inserted at,
\* or removed from, index i.
priorToInsert(i, k) == IF k < i THEN k ELSE k - 1
priorToRemove(i, k) == IF k < i THEN k ELSE k + 1

(* An insertion at i moves the other entries without changing their order, *)
(* and keeps each of them; so does a removal.                              *)
LEMMA InsertMoves ==
  ASSUME NEW L \in Nat, NEW i \in 1 .. L + 1
  PROVE  /\ \A k \in 1 .. L + 1 : k # i => priorToInsert(i, k) \in 1 .. L
         /\ \A k \in 1 .. L + 1 : (k < i => priorToInsert(i, k) < i)
                                  /\ (k > i => priorToInsert(i, k) >= i)
         /\ \A j, k \in 1 .. L + 1 : j # i /\ k # i /\ j < k => priorToInsert(i, j) < priorToInsert(i, k)
  BY DEF priorToInsert

LEMMA RemoveMoves ==
  ASSUME NEW L \in Nat, NEW i \in 1 .. L
  PROVE  /\ \A k \in 1 .. L - 1 : priorToRemove(i, k) \in 1 .. L /\ priorToRemove(i, k) # i
         /\ \A j, k \in 1 .. L - 1 : j < k => priorToRemove(i, j) < priorToRemove(i, k)
  BY DEF priorToRemove

LEMMA RemoveKeeps ==
  ASSUME NEW L \in Nat, NEW i \in 1 .. L, NEW m \in 1 .. L, m # i
  PROVE  \E k \in 1 .. L - 1 : priorToRemove(i, k) = m
<1>1. CASE m < i
  <2>1. m \in 1 .. L - 1 /\ priorToRemove(i, m) = m
    BY <1>1 DEF priorToRemove
  <2>2. QED
    BY <2>1
<1>2. CASE m > i
  <2>1. m - 1 \in 1 .. L - 1 /\ priorToRemove(i, m - 1) = m
    BY <1>2 DEF priorToRemove
  <2>2. QED
    BY <2>1
<1>3. QED
  BY <1>1, <1>2

(* Inserting an entry where its position belongs keeps the order and adds  *)
(* that entry alone.                                                       *)
LEMMA InsertOrdered ==
  ASSUME NEW ring \in Seq(Entry), Ordered(ring), NEW e \in Entry,
         NEW i, Lands(ring, e.pos, i)
  PROVE  /\ InsertAt(ring, i, e) \in Seq(Entry)
         /\ Ordered(InsertAt(ring, i, e))
         /\ Range(InsertAt(ring, i, e)) = Range(ring) \cup {e}
<1> DEFINE t == InsertAt(ring, i, e)
           L == Len(ring)
           from(k) == priorToInsert(i, k)
<1>1. L \in Nat /\ \A k \in 1 .. L : ring[k] \in Entry /\ ring[k].pos \in Int
  BY RingTypes
<1>2. e.pos \in Int
  BY RingAssumption DEF Entry, Position
<1>3. /\ i \in 1 .. L + 1
      /\ \A k \in 1 .. L : (k < i => ring[k].pos <= e.pos)
      /\ \A k \in 1 .. L : (k >= i => ring[k].pos >= e.pos)
  BY DEF Lands
<1>4. \A j, k \in 1 .. L : j < k => ring[j].pos <= ring[k].pos
  BY DEF Ordered
<1>5. /\ \A k \in 1 .. L + 1 : k # i => from(k) \in 1 .. L
      /\ \A k \in 1 .. L + 1 : (k < i => from(k) < i) /\ (k > i => from(k) >= i)
      /\ \A j, k \in 1 .. L + 1 : j # i /\ k # i /\ j < k => from(j) < from(k)
  <2>1. L \in Nat /\ i \in 1 .. L + 1
    BY <1>1, <1>3
  <2> HIDE DEF L
  <2>2. QED
    BY <2>1, InsertMoves
<1>6. t \in Seq(Entry) /\ Len(t) = L + 1
  BY <1>3, InsertAtFacts
<1>7. t[i] = e /\ \A k \in 1 .. L + 1 : k # i => t[k] = ring[from(k)]
  <2>1. \A k \in 1 .. L + 1 : t[k] = IF k < i THEN ring[k] ELSE IF k = i THEN e ELSE ring[k-1]
    BY <1>3, InsertAtFacts
  <2> HIDE DEF t
  <2>2. QED
    BY <2>1, <1>1, <1>3 DEF priorToInsert
<1> HIDE DEF t, L, from
<1>8. ASSUME NEW j \in 1 .. L + 1, NEW k \in 1 .. L + 1, j < k PROVE t[j].pos <= t[k].pos
  <2>1. CASE j = i
    <3>1. k > i /\ k # i /\ from(k) \in 1 .. L /\ from(k) >= i
      BY <2>1, <1>8, <1>5, <1>3, <1>1
    <3>2. QED
      BY <2>1, <3>1, <1>3, <1>7
  <2>2. CASE k = i
    <3>1. j < i /\ j # i /\ from(j) \in 1 .. L /\ from(j) < i
      BY <2>2, <1>8, <1>5, <1>3, <1>1
    <3>2. QED
      BY <2>2, <3>1, <1>3, <1>7
  <2>3. CASE j # i /\ k # i
    <3>1. from(j) \in 1 .. L /\ from(k) \in 1 .. L /\ from(j) < from(k)
      BY <2>3, <1>8, <1>5
    <3>2. QED
      BY <2>3, <3>1, <1>4, <1>7
  <2>4. QED
    BY <2>1, <2>2, <2>3
<1>9. Ordered(t)
  BY <1>6, <1>8 DEF Ordered
<1>10. Range(t) = Range(ring) \cup {e}
  <2>1. \A d : d \in Range(t) <=> \E k \in 1 .. L + 1 : d = t[k]
    BY <1>6, RangeFacts
  <2>2. \A d : d \in Range(ring) <=> \E k \in 1 .. L : d = ring[k]
    BY RangeFacts DEF L
  <2>3. ASSUME NEW d \in Range(t) PROVE d \in Range(ring) \cup {e}
    BY <2>1, <2>2, <1>5, <1>7
  <2>4. ASSUME NEW d \in Range(ring) PROVE d \in Range(t)
    <3>1. PICK m \in 1 .. L : d = ring[m]
      BY <2>2
    <3>2. PICK k \in 1 .. L + 1 : k # i /\ from(k) = m
      <4>1. L \in Nat /\ i \in 1 .. L + 1
        BY <1>1, <1>3
      <4>2. CASE m < i
        <5>1. m \in 1 .. L + 1 /\ m # i /\ from(m) = m
          BY <4>1, <4>2 DEF from, priorToInsert
        <5>2. QED
          BY <5>1
      <4>3. CASE ~ (m < i)
        <5>1. m + 1 \in 1 .. L + 1 /\ m + 1 # i /\ from(m + 1) = m
          BY <4>1, <4>3 DEF from, priorToInsert
        <5>2. QED
          BY <5>1
      <4>4. QED
        BY <4>2, <4>3
    <3>3. QED
      BY <3>1, <3>2, <2>1, <1>7
  <2>5. e \in Range(t)
    BY <2>1, <1>3, <1>7
  <2>6. QED
    BY <2>3, <2>4, <2>5
<1>11. QED
  BY <1>6, <1>9, <1>10 DEF t

(* Taking an entry out keeps the order and every entry that is not equal   *)
(* to it, and adds none.                                                   *)
LEMMA RemoveOrdered ==
  ASSUME NEW ring \in Seq(Entry), Ordered(ring), NEW i \in 1 .. Len(ring)
  PROVE  /\ RemoveAt(ring, i) \in Seq(Entry)
         /\ Ordered(RemoveAt(ring, i))
         /\ Range(RemoveAt(ring, i)) \subseteq Range(ring)
         /\ \A d \in Range(ring) : d # ring[i] => d \in Range(RemoveAt(ring, i))
<1> DEFINE t == RemoveAt(ring, i)
           L == Len(ring)
           from(k) == priorToRemove(i, k)
<1>1. L \in Nat /\ L - 1 \in Nat /\ i \in 1 .. L
  OBVIOUS
<1>2. \A j, k \in 1 .. L : j < k => ring[j].pos <= ring[k].pos
  BY DEF Ordered
<1>3. /\ \A k \in 1 .. L - 1 : from(k) \in 1 .. L /\ from(k) # i
      /\ \A j, k \in 1 .. L - 1 : j < k => from(j) < from(k)
  <2> HIDE DEF L
  <2>1. QED
    BY <1>1, RemoveMoves
<1>4. t \in Seq(Entry) /\ Len(t) = L - 1
  BY RemoveAtFacts
<1>5. \A k \in 1 .. L - 1 : t[k] = ring[from(k)]
  <2>1. \A k \in 1 .. L - 1 : t[k] = IF k < i THEN ring[k] ELSE ring[k+1]
    BY RemoveAtFacts
  <2> HIDE DEF t
  <2>2. QED
    BY <2>1 DEF priorToRemove
<1>6. \A d : d \in Range(ring) <=> \E k \in 1 .. L : d = ring[k]
  BY RangeFacts
<1> HIDE DEF t, L, from
<1>7. \A d : d \in Range(t) <=> \E k \in 1 .. L - 1 : d = t[k]
  BY <1>4, RangeFacts
<1>8. Ordered(t)
  <2>1. ASSUME NEW j \in 1 .. L - 1, NEW k \in 1 .. L - 1, j < k PROVE t[j].pos <= t[k].pos
    <3>1. from(j) \in 1 .. L /\ from(k) \in 1 .. L /\ from(j) < from(k)
      BY <2>1, <1>3
    <3>2. QED
      BY <3>1, <1>2, <1>5
  <2>2. QED
    BY <2>1, <1>4 DEF Ordered
<1>9. Range(t) \subseteq Range(ring)
  BY <1>3, <1>5, <1>6, <1>7
<1>10. ASSUME NEW d \in Range(ring), d # ring[i] PROVE d \in Range(t)
  <2>1. PICK m \in 1 .. L : d = ring[m]
    BY <1>6
  <2>2. PICK k \in 1 .. L - 1 : from(k) = m
    BY <2>1, <1>1, <1>10, RemoveKeeps DEF from
  <2>3. QED
    BY <2>1, <2>2, <1>5, <1>7
<1>11. QED
  BY <1>4, <1>8, <1>9, <1>10 DEF t

\* own gives every entry an index i of its peer, no two entries the same.
Slots(ring, own, h) ==
  /\ own \in Seq(0 .. VirtualNodes) /\ Len(own) = Len(ring)
  /\ \A k \in 1 .. Len(ring) : h[<<ring[k].ip, own[k]>>] = ring[k].pos
  /\ \A j, k \in 1 .. Len(ring) : j # k /\ ring[j].ip = ring[k].ip => own[j] # own[k]

(* An entry inserted with an index that its peer has not used.             *)
LEMMA InsertSlot ==
  ASSUME NEW h, NEW ring \in Seq(Entry), NEW own, Slots(ring, own, h),
         NEW e \in Entry, NEW j \in 0 .. VirtualNodes, h[<<e.ip, j>>] = e.pos,
         \A k \in 1 .. Len(ring) : ring[k].ip = e.ip => own[k] # j,
         NEW i \in 1 .. Len(ring) + 1
  PROVE  /\ Slots(InsertAt(ring, i, e), InsertAt(own, i, j), h)
         /\ \A k \in 1 .. Len(ring) + 1 :
              \/ k = i /\ InsertAt(own, i, j)[k] = j
              \/ k # i /\ \E m \in 1 .. Len(ring) : /\ InsertAt(ring, i, e)[k] = ring[m]
                                                    /\ InsertAt(own, i, j)[k] = own[m]
<1> DEFINE t == InsertAt(ring, i, e)
           u == InsertAt(own, i, j)
           L == Len(ring)
           from(k) == priorToInsert(i, k)
<1>1. /\ L \in Nat /\ i \in 1 .. L + 1
      /\ own \in Seq(0 .. VirtualNodes) /\ Len(own) = L
      /\ \A k \in 1 .. L : h[<<ring[k].ip, own[k]>>] = ring[k].pos
      /\ \A l, k \in 1 .. L : l # k /\ ring[l].ip = ring[k].ip => own[l] # own[k]
  BY DEF Slots
<1>2. /\ \A k \in 1 .. L + 1 : k # i => from(k) \in 1 .. L
      /\ \A l, k \in 1 .. L + 1 : l # i /\ k # i /\ l < k => from(l) < from(k)
  <2> HIDE DEF L
  <2>1. QED
    BY <1>1, InsertMoves
<1>i. ASSUME NEW S, NEW s \in Seq(S), i \in 1 .. Len(s) + 1, NEW x \in S
      PROVE  /\ InsertAt(s, i, x) \in Seq(S) /\ Len(InsertAt(s, i, x)) = Len(s) + 1
             /\ \A k \in 1 .. Len(s) + 1 :
                  InsertAt(s, i, x)[k] = IF k < i THEN s[k] ELSE IF k = i THEN x ELSE s[k-1]
  <2>1. InsertAt(s, i, x) \in Seq(S)
    BY <1>i, InsertAtFacts
  <2>2. Len(InsertAt(s, i, x)) = Len(s) + 1
    BY <1>i, InsertAtFacts
  <2>3. \A k \in 1 .. Len(s) + 1 :
          InsertAt(s, i, x)[k] = IF k < i THEN s[k] ELSE IF k = i THEN x ELSE s[k-1]
    BY <1>i, InsertAtFacts
  <2>4. QED
    BY <2>1, <2>2, <2>3
<1>3. /\ t \in Seq(Entry) /\ Len(t) = L + 1
      /\ \A k \in 1 .. L + 1 : t[k] = IF k < i THEN ring[k] ELSE IF k = i THEN e ELSE ring[k-1]
  BY <1>i
<1>4. /\ u \in Seq(0 .. VirtualNodes) /\ Len(u) = L + 1
      /\ \A k \in 1 .. L + 1 : u[k] = IF k < i THEN own[k] ELSE IF k = i THEN j ELSE own[k-1]
  <2> DEFINE V == 0 .. VirtualNodes
  <2>1. own \in Seq(V) /\ i \in 1 .. Len(own) + 1 /\ j \in V
    BY <1>1
  <2> HIDE DEF V, L
  <2>2. /\ u \in Seq(V) /\ Len(u) = Len(own) + 1
        /\ \A k \in 1 .. Len(own) + 1 :
             u[k] = IF k < i THEN own[k] ELSE IF k = i THEN j ELSE own[k-1]
    BY <2>1, <1>i, SMTT(20)
  <2> HIDE DEF u
  <2>3. QED
    BY <2>2, <1>1 DEF V
<1> HIDE DEF t, u, L
<1>5. t[i] = e /\ u[i] = j /\ \A k \in 1 .. L + 1 : k # i => t[k] = ring[from(k)] /\ u[k] = own[from(k)]
  BY <1>1, <1>3, <1>4 DEF priorToInsert
<1> HIDE DEF from
<1>6. \A k \in 1 .. L : ring[k].ip = e.ip => own[k] # j
  BY DEF L
<1>7. ASSUME NEW k \in 1 .. L + 1 PROVE h[<<t[k].ip, u[k]>>] = t[k].pos
  <2>1. CASE k = i
    BY <2>1, <1>5
  <2>2. CASE k # i
    BY <2>2, <1>1, <1>2, <1>5
  <2>3. QED
    BY <2>1, <2>2
<1>8. ASSUME NEW l \in 1 .. L + 1, NEW k \in 1 .. L + 1, l # k, t[l].ip = t[k].ip
      PROVE  u[l] # u[k]
  <2>1. CASE l = i
    BY <2>1, <1>2, <1>5, <1>6, <1>8
  <2>2. CASE k = i
    BY <2>2, <1>2, <1>5, <1>6, <1>8
  <2>3. CASE l # i /\ k # i
    <3>1. l < k \/ k < l
      BY <1>8, <1>1
    <3>2. from(l) \in 1 .. L /\ from(k) \in 1 .. L /\ from(l) # from(k)
      BY <2>3, <3>1, <1>1, <1>2
    <3>3. /\ t[l] = ring[from(l)] /\ u[l] = own[from(l)]
          /\ t[k] = ring[from(k)] /\ u[k] = own[from(k)]
      BY <2>3, <1>5
    <3>4. own[from(l)] # own[from(k)]
      BY <3>2, <3>3, <1>1, <1>8
    <3>5. QED
      BY <3>3, <3>4
  <2>4. QED
    BY <2>1, <2>2, <2>3
<1>9. Slots(t, u, h)
  BY <1>3, <1>4, <1>7, <1>8 DEF Slots
<1>10. \A k \in 1 .. L + 1 : \/ k = i /\ u[k] = j
                             \/ k # i /\ \E m \in 1 .. L : t[k] = ring[m] /\ u[k] = own[m]
  BY <1>2, <1>5
<1>11. QED
  BY <1>9, <1>10 DEF t, u, L

\* Without the entries at i, what is left are entries and indices as before.
SlotsMove(ring, own, i) ==
  \A k \in 1 .. Len(ring) - 1 :
    \E m \in 1 .. Len(ring) : /\ m # i
                              /\ RemoveAt(ring, i)[k] = ring[m]
                              /\ RemoveAt(own, i)[k] = own[m]

(* An entry taken out, its index with it.                                  *)
LEMMA RemoveSlot ==
  ASSUME NEW h, NEW ring \in Seq(Entry), NEW own, Slots(ring, own, h), NEW i \in 1 .. Len(ring)
  PROVE  Slots(RemoveAt(ring, i), RemoveAt(own, i), h) /\ SlotsMove(ring, own, i)
<1> DEFINE t == RemoveAt(ring, i)
           u == RemoveAt(own, i)
           L == Len(ring)
           from(k) == priorToRemove(i, k)
<1>1. /\ L \in Nat /\ L - 1 \in Nat /\ i \in 1 .. L
      /\ own \in Seq(0 .. VirtualNodes) /\ Len(own) = L
      /\ \A k \in 1 .. L : h[<<ring[k].ip, own[k]>>] = ring[k].pos
      /\ \A l, k \in 1 .. L : l # k /\ ring[l].ip = ring[k].ip => own[l] # own[k]
  BY DEF Slots
<1>2. /\ \A k \in 1 .. L - 1 : from(k) \in 1 .. L /\ from(k) # i
      /\ \A l, k \in 1 .. L - 1 : l < k => from(l) < from(k)
  <2> HIDE DEF L
  <2>1. QED
    BY <1>1, RemoveMoves
<1>3. /\ t \in Seq(Entry) /\ Len(t) = L - 1
      /\ \A k \in 1 .. L - 1 : t[k] = IF k < i THEN ring[k] ELSE ring[k+1]
  BY RemoveAtFacts
<1>4. /\ u \in Seq(0 .. VirtualNodes) /\ Len(u) = L - 1
      /\ \A k \in 1 .. L - 1 : u[k] = IF k < i THEN own[k] ELSE own[k+1]
  <2> HIDE DEF L
  <2>1. i \in 1 .. Len(own)
    BY <1>1
  <2>2. QED
    BY <2>1, <1>1, RemoveAtFacts
<1> HIDE DEF t, u, L
<1>5. \A k \in 1 .. L - 1 : t[k] = ring[from(k)] /\ u[k] = own[from(k)]
  BY <1>1, <1>3, <1>4 DEF priorToRemove
<1> HIDE DEF from
<1>6. ASSUME NEW k \in 1 .. L - 1 PROVE h[<<t[k].ip, u[k]>>] = t[k].pos
  <2>1. PICK m \in 1 .. L : t[k] = ring[m] /\ u[k] = own[m]
    BY <1>2, <1>5
  <2>2. h[<<ring[m].ip, own[m]>>] = ring[m].pos
    BY <1>1
  <2>3. QED
    BY <2>1, <2>2
<1>7. ASSUME NEW l \in 1 .. L - 1, NEW k \in 1 .. L - 1, l # k, t[l].ip = t[k].ip
      PROVE  u[l] # u[k]
  <2>1. l < k \/ k < l
    BY <1>7, <1>1
  <2>2. from(l) \in 1 .. L /\ from(k) \in 1 .. L /\ from(l) # from(k)
    BY <2>1, <1>1, <1>2
  <2>3. QED
    BY <2>2, <1>1, <1>5, <1>7
<1>8. Slots(t, u, h)
  BY <1>3, <1>4, <1>6, <1>7 DEF Slots
<1>9. \A k \in 1 .. L - 1 : \E m \in 1 .. L : m # i /\ t[k] = ring[m] /\ u[k] = own[m]
  BY <1>2, <1>5
<1>10. QED
  BY <1>8, <1>9 DEF t, u, L, SlotsMove

\* u is own but for the entries at i and m, whose indices are exchanged.
Swapped(ring, own, h, i, m, u) ==
  /\ Slots(ring, u, h)
  /\ u[i] = own[m] /\ u[m] = own[i]
  /\ \A k \in 1 .. Len(ring) : k # i /\ k # m => u[k] = own[k]

(* Two equal entries may exchange their indices.                           *)
LEMMA SwapSlots ==
  ASSUME NEW h, NEW ring \in Seq(Entry), NEW own, Slots(ring, own, h),
         NEW i \in 1 .. Len(ring), NEW m \in 1 .. Len(ring), ring[i] = ring[m]
  PROVE  \E u : Swapped(ring, own, h, i, m, u)
<1> DEFINE u == [k \in 1 .. Len(ring) |->
                   IF k = i THEN own[m] ELSE IF k = m THEN own[i] ELSE own[k]]
<1>1. /\ own \in Seq(0 .. VirtualNodes) /\ Len(own) = Len(ring)
      /\ \A k \in 1 .. Len(ring) : h[<<ring[k].ip, own[k]>>] = ring[k].pos
      /\ \A l, k \in 1 .. Len(ring) : l # k /\ ring[l].ip = ring[k].ip => own[l] # own[k]
  BY DEF Slots
<1>2. \A k \in 1 .. Len(ring) : own[k] \in 0 .. VirtualNodes
  <2> DEFINE V == 0 .. VirtualNodes
  <2>1. own \in Seq(V)
    BY <1>1
  <2> HIDE DEF V
  <2>2. \A k \in 1 .. Len(own) : own[k] \in V
    BY <2>1
  <2>3. QED
    BY <2>2, <1>1 DEF V
<1>3. u \in Seq(0 .. VirtualNodes) /\ Len(u) = Len(ring)
  BY <1>2
<1>4. /\ u[i] = own[m] /\ u[m] = own[i]
      /\ \A k \in 1 .. Len(ring) : k # i /\ k # m => u[k] = own[k]
  OBVIOUS
<1> HIDE DEF u
<1>5. \A k \in 1 .. Len(ring) : h[<<ring[k].ip, u[k]>>] = ring[k].pos
  BY <1>1, <1>4
<1>6. ASSUME NEW l \in 1 .. Len(ring), NEW k \in 1 .. Len(ring), l # k, ring[l].ip = ring[k].ip
      PROVE  u[l] # u[k]
  BY <1>1, <1>4, <1>6
<1>7. Slots(ring, u, h)
  BY <1>3, <1>5, <1>6 DEF Slots
<1>8. QED
  BY <1>4, <1>7 DEF Swapped

(* The positions of a peer are positions, whatever the hash.               *)
LEMMA HashTypes ==
  ASSUME NEW h \in Hash, NEW p \in Peer, NEW i \in 0 .. VirtualNodes
  PROVE  h[<<p, i>>] \in Position /\ [ip |-> p, pos |-> h[<<p, i>>]] \in Entry
  BY DEF Hash, Entry

(* The peers of a ring, by its entries.                                    *)
LEMMA MembersRange ==
  ASSUME NEW ring \in Seq(Entry)
  PROVE  \A p : p \in Members(ring) <=> \E e \in Range(ring) : e.ip = p
<1>1. DOMAIN ring = 1 .. Len(ring)
  OBVIOUS
<1>2. \A e : e \in Range(ring) <=> \E k \in 1 .. Len(ring) : e = ring[k]
  BY RangeFacts
<1>3. QED
  BY <1>1, <1>2 DEF Members

\* In order, and no entry there more often than its peer has it.
Loose(ring, h) == ring \in Seq(Entry) /\ Ordered(ring) /\ \E own : Slots(ring, own, h)

\* The ring r after i turns of the loop that allocates p on `ring`.
Allocating(r, ring, p, h, i) ==
  /\ r \in Seq(Entry) /\ Ordered(r)
  /\ Range(r) = Range(ring) \cup FirstEntries(p, i, h)
  /\ \E own : /\ Slots(r, own, h)
              /\ \A k \in 1 .. Len(r) : r[k].ip = p => own[k] < i

(* A turn inserts the entry with an index that p has not used.             *)
LEMMA AllocatingStep ==
  ASSUME NEW h \in Hash, NEW p \in Peer, NEW ring, NEW i \in 1 .. VirtualNodes + 1,
         NEW r, Allocating(r, ring, p, h, i-1)
  PROVE  Allocating(placeEntry(p, h, i, r), ring, p, h, i)
<1> DEFINE e == [ip |-> p, pos |-> h[<<p, i-1>>]]
           x == getInsertionPoint(r, h[<<p, i-1>>])
           t == InsertAt(r, x, e)
<1>1. i-1 \in 0 .. VirtualNodes /\ i-1 \in Int /\ i \in Int
  BY RingAssumption
<1>2. e \in Entry /\ e.pos \in Position /\ e.pos = h[<<p, i-1>>] /\ e.ip = p
  BY <1>1, HashTypes
<1>3. r \in Seq(Entry) /\ Ordered(r) /\ Range(r) = Range(ring) \cup FirstEntries(p, i-1, h)
  BY DEF Allocating
<1>4. PICK own : /\ Slots(r, own, h)
                 /\ \A k \in 1 .. Len(r) : r[k].ip = p => own[k] < i-1
  BY DEF Allocating
<1>5. Lands(r, e.pos, x)
  BY <1>2, <1>3, SearchLands
<1>6. x \in 1 .. Len(r) + 1
  BY <1>5 DEF Lands
<1>7. placeEntry(p, h, i, r) = t
  BY DEF placeEntry
<1> HIDE DEF e, x
<1>8. t \in Seq(Entry) /\ Ordered(t) /\ Range(t) = Range(r) \cup {e}
  BY <1>2, <1>3, <1>5, InsertOrdered
<1>9. Range(t) = Range(ring) \cup FirstEntries(p, i, h)
  <2>1. 0 .. i-1 = (0 .. (i-1)-1) \cup {i-1}
    BY <1>1
  <2>2. FirstEntries(p, i, h) = FirstEntries(p, i-1, h) \cup {e}
    BY <2>1 DEF FirstEntries, e
  <2>3. QED
    BY <2>2, <1>3, <1>8
<1>10. \A k \in 1 .. Len(r) : own[k] \in Int
  <2> DEFINE V == 0 .. VirtualNodes
  <2>1. own \in Seq(V) /\ Len(own) = Len(r) /\ V \subseteq Int
    BY <1>4, RingAssumption DEF Slots
  <2> HIDE DEF V
  <2>2. \A k \in 1 .. Len(own) : own[k] \in V
    BY <2>1
  <2>3. QED
    BY <2>1, <2>2
<1>11. \A k \in 1 .. Len(r) : r[k].ip = e.ip => own[k] # i-1
  BY <1>1, <1>2, <1>4, <1>10
<1> DEFINE u == InsertAt(own, x, i-1)
<1>12. /\ Slots(t, u, h)
       /\ \A k \in 1 .. Len(r) + 1 :
            \/ k = x /\ u[k] = i-1
            \/ k # x /\ \E m \in 1 .. Len(r) : t[k] = r[m] /\ u[k] = own[m]
  BY <1>1, <1>2, <1>3, <1>4, <1>6, <1>11, InsertSlot
<1>13. Len(t) = Len(r) + 1
  BY <1>2, <1>3, <1>6, InsertAtFacts
<1> HIDE DEF t, u
<1>14. ASSUME NEW k \in 1 .. Len(t), t[k].ip = p PROVE u[k] < i
  BY <1>1, <1>4, <1>10, <1>12, <1>13, <1>14
<1>15. QED
  BY <1>7, <1>8, <1>9, <1>12, <1>14 DEF Allocating

(* Allocating a peer that is not on the ring adds its entries and keeps    *)
(* the others and the order, whatever positions they share.                *)
LEMMA AllocateLoose ==
  ASSUME NEW h \in Hash, NEW p \in Peer, NEW ring, Loose(ring, h), p \notin Members(ring)
  PROVE  /\ Loose(allocateOnRing(ring, p, h), h)
         /\ Range(allocateOnRing(ring, p, h)) = Range(ring) \cup EntriesOf({p}, h)
<1> DEFINE N == VirtualNodes + 1
           I == [i \in 0 .. N |-> {r \in Seq(Entry) : Allocating(r, ring, p, h, i)}]
<1>1. N \in Nat /\ \A i \in 1 .. N : i-1 \in 0 .. N /\ i \in 0 .. N
  BY RingAssumption
<1>2. Allocating(ring, ring, p, h, 0)
  <2>1. ring \in Seq(Entry) /\ Ordered(ring)
    BY DEF Loose
  <2>2. PICK own : Slots(ring, own, h)
    BY DEF Loose
  <2>3. \A k \in 1 .. Len(ring) : ring[k].ip # p
    BY <2>1 DEF Members
  <2>4. FirstEntries(p, 0, h) = {}
    BY DEF FirstEntries
  <2>5. QED
    BY <2>1, <2>2, <2>3, <2>4 DEF Allocating
<1>3. \A i \in 0 .. N : I[i] \subseteq Seq(Entry) /\ \A r : r \in I[i] <=> Allocating(r, ring, p, h, i)
  BY DEF Allocating
<1> HIDE DEF I
<1>4. \A i \in 1 .. N : \A r \in I[i-1] : placeEntry(p, h, i, r) \in I[i]
  BY <1>1, <1>3, AllocatingStep
<1>5. ring \in I[0]
  BY <1>1, <1>2, <1>3, 0 \in 0 .. N
<1>6. allocateOnRing(ring, p, h) \in I[N]
  BY <1>3, <1>4, <1>5, AllocateLoop
<1>7. Allocating(allocateOnRing(ring, p, h), ring, p, h, N)
  BY <1>1, <1>3, <1>6, N \in 0 .. N
<1>8. FirstEntries(p, N, h) = EntriesOf({p}, h)
  <2>1. 0 .. N-1 = 0 .. VirtualNodes
    BY RingAssumption
  <2>2. FirstEntries(p, N, h) = {[ip |-> p, pos |-> h[<<p, j>>]] : j \in 0 .. VirtualNodes}
    BY <2>1 DEF FirstEntries
  <2>3. EntriesOf({p}, h) = {[ip |-> p, pos |-> h[<<p, j>>]] : j \in 0 .. VirtualNodes}
    BY DEF EntriesOf
  <2>4. QED
    BY <2>2, <2>3
<1>9. QED
  BY <1>7, <1>8 DEF Allocating, Loose

(* So does allocating distinct peers one after the other, in any order.    *)
LEMMA AllocateAllLoose ==
  ASSUME NEW h \in Hash, NEW n \in Nat, NEW ps \in [1 .. n -> Peer],
         \A i, j \in 1 .. n : ps[i] = ps[j] => i = j
  PROVE  /\ Loose(allocateAll(ps, h), h)
         /\ Range(allocateAll(ps, h)) = EntriesOf({ps[k] : k \in 1 .. n}, h)
<1> DEFINE S(i) == {ps[k] : k \in 1 .. i}
           Good(i, r) == Loose(r, h) /\ Range(r) = EntriesOf(S(i), h)
           I == [i \in 0 .. n |-> {r \in Seq(Entry) : Good(i, r)}]
<1>1. \A i \in 1 .. n : i-1 \in 0 .. n /\ i \in 0 .. n
  OBVIOUS
<1>2. ASSUME NEW i \in 1 .. n, NEW r, Good(i-1, r) PROVE Good(i, allocateOnRing(r, ps[i], h))
  <2>1. ps[i] \in Peer /\ ps[i] \notin S(i-1)
    <3>1. \A k \in 1 .. i-1 : k \in 1 .. n /\ k # i
      OBVIOUS
    <3>2. QED
      BY <3>1
  <2>2. S(i) = S(i-1) \cup {ps[i]}
    <3>1. 1 .. i = (1 .. i-1) \cup {i}
      OBVIOUS
    <3>2. QED
      BY <3>1
  <2> HIDE DEF S
  <2>3. r \in Seq(Entry) /\ Loose(r, h) /\ Range(r) = EntriesOf(S(i-1), h)
    BY <1>2 DEF Loose
  <2>4. ps[i] \notin Members(r)
    <3>1. ASSUME NEW e \in EntriesOf(S(i-1), h) PROVE e.ip \in S(i-1)
      <4>1. PICK q \in S(i-1) : \E j \in 0 .. VirtualNodes : e = [ip |-> q, pos |-> h[<<q, j>>]]
        BY EntriesOfMember
      <4>2. QED
        BY <4>1
    <3>2. QED
      BY <3>1, <2>1, <2>3, MembersRange
  <2>5. /\ Loose(allocateOnRing(r, ps[i], h), h)
        /\ Range(allocateOnRing(r, ps[i], h)) = EntriesOf(S(i-1), h) \cup EntriesOf({ps[i]}, h)
    BY <2>1, <2>3, <2>4, AllocateLoose
  <2>6. EntriesOf(S(i-1), h) \cup EntriesOf({ps[i]}, h) = EntriesOf(S(i), h)
    BY <2>2 DEF EntriesOf
  <2>7. QED
    BY <2>5, <2>6
<1>3. << >> \in I[0]
  <2>1. S(0) = {} /\ 0 \in 0 .. n
    OBVIOUS
  <2>2. EntriesOf({}, h) = {}
    BY DEF EntriesOf
  <2>3. << >> \in Seq(Entry) /\ Ordered(<< >>) /\ Range(<< >>) = {}
    BY DEF Ordered, Range
  <2>4. Slots(<< >>, << >>, h)
    BY DEF Slots
  <2>5. QED
    BY <2>1, <2>2, <2>3, <2>4 DEF Loose
<1> HIDE DEF S
<1>4. \A i \in 0 .. n : I[i] \subseteq Seq(Entry) /\ \A r : r \in I[i] <=> Good(i, r)
  BY DEF Loose
<1> HIDE DEF I, Good
<1>5. \A i \in 1 .. n : \A r \in I[i-1] : allocateOnRing(r, ps[i], h) \in I[i]
  BY <1>1, <1>2, <1>4
<1>6. allocateAll(ps, h) \in I[n]
  BY <1>3, <1>4, <1>5, AllocateAllLoop
<1>7. QED
  BY <1>4, <1>6, n \in 0 .. n DEF S, Good

\* Another peer than p has an entry at position x.
Shared(ring, p, x) == \E e \in Range(ring) : e.ip # p /\ e.pos = x

\* The ring r after i turns of the loop that removes p from `ring`: what p
\* still has at a position of its own has an index that is yet to come.
Deallocating(r, ring, p, h, i) ==
  /\ r \in Seq(Entry) /\ Ordered(r)
  /\ Range(r) \subseteq Range(ring)
  /\ \A e \in Range(ring) : e.ip # p => e \in Range(r)
  /\ \E own : /\ Slots(r, own, h)
              /\ \A k \in 1 .. Len(r) :
                   r[k].ip = p /\ ~ Shared(ring, p, r[k].pos) => own[k] >= i

(* A turn leaves none of p's entries with its index at a position of p's   *)
(* own: the search ends at an equal entry there, which it takes out, and   *)
(* the two exchange their indices before.                                  *)
LEMMA DeallocatingStep ==
  ASSUME NEW h \in Hash, NEW p \in Peer, NEW ring \in Seq(Entry), NEW i \in 1 .. VirtualNodes + 1,
         NEW r, Deallocating(r, ring, p, h, i-1)
  PROVE  Deallocating(dropEntry(p, h, i, r), ring, p, h, i)
<1> DEFINE pos == h[<<p, i-1>>]
           x == getInsertionPoint(r, pos)
           L == Len(r)
           own2(k) == r[k].ip = p /\ ~ Shared(ring, p, r[k].pos)
<1>1. i-1 \in 0 .. VirtualNodes /\ i-1 \in Int /\ i \in Int
  BY RingAssumption
<1>2. pos \in Position
  BY <1>1, HashTypes
<1>3. /\ r \in Seq(Entry) /\ Ordered(r) /\ L \in Nat
      /\ Range(r) \subseteq Range(ring)
      /\ \A e \in Range(ring) : e.ip # p => e \in Range(r)
  BY DEF Deallocating
<1>4. PICK own : /\ Slots(r, own, h)
                 /\ \A k \in 1 .. L : own2(k) => own[k] >= i-1
  BY DEF Deallocating
<1>5. Lands(r, pos, x)
  BY <1>2, <1>3, SearchLands
<1>6. x \in 1 .. L + 1 /\ \A k \in 1 .. L : r[k].pos = pos => x <= L /\ r[x].pos = pos
  BY <1>5 DEF Lands
<1>7. dropEntry(p, h, i, r) = IF x <= L /\ r[x].ip = p THEN RemoveAt(r, x) ELSE r
  BY DEF dropEntry
<1>8. \A k \in 1 .. L : r[k] \in Entry /\ r[k].pos \in Int
  BY <1>3, RingTypes
<1>9. \A u : Slots(r, u, h) => \A k \in 1 .. L : /\ u[k] \in Int
                                                 /\ h[<<r[k].ip, u[k]>>] = r[k].pos
  <2>1. SUFFICES ASSUME NEW u, Slots(r, u, h), NEW k \in 1 .. L
                 PROVE  u[k] \in Int /\ h[<<r[k].ip, u[k]>>] = r[k].pos
    OBVIOUS
  <2> DEFINE V == 0 .. VirtualNodes
  <2>2. u \in Seq(V) /\ Len(u) = L /\ V \subseteq Int
    BY <2>1, RingAssumption DEF Slots
  <2> HIDE DEF V
  <2>3. u[k] \in V
    BY <2>2
  <2>4. QED
    BY <2>1, <2>2, <2>3 DEF Slots
<1>10. \A j, k \in 1 .. L : j # k /\ r[j].ip = r[k].ip => own[j] # own[k]
  BY <1>4 DEF Slots
<1>o. \A k \in 1 .. L : own[k] \in Int
  BY <1>4, <1>9
<1>n. \A a \in Int : a >= i-1 /\ a # i-1 => a >= i
  BY <1>1
<1> HIDE DEF pos, x, own2
\* An entry whose turn it is.
<1>11. ASSUME NEW m \in 1 .. L, own2(m), own[m] = i-1
       PROVE  x \in 1 .. L /\ r[x].ip = p /\ r[x] = r[m]
  <2>1. r[m].ip = p /\ r[m].pos = pos
    BY <1>4, <1>9, <1>11 DEF own2, pos
  <2>2. x \in 1 .. L /\ r[x].pos = pos
    BY <2>1, <1>3, <1>6
  <2>3. r[x] \in Range(ring)
    BY <2>2, <1>3, RangeFacts
  <2>4. r[x].ip = p
    BY <2>1, <2>2, <2>3, <1>11 DEF own2, Shared
  <2>5. r[x] \in Entry /\ r[m] \in Entry
    BY <2>2, <1>8
  <2>6. r[x] = r[m]
    BY <2>1, <2>2, <2>4, <2>5 DEF Entry
  <2>7. QED
    BY <2>2, <2>4, <2>6
<1>12. CASE ~ (x <= L /\ r[x].ip = p)
  <2>1. dropEntry(p, h, i, r) = r
    BY <1>7, <1>12
  <2>2. ASSUME NEW k \in 1 .. L, own2(k) PROVE own[k] >= i
    <3>1. own[k] # i-1
      BY <2>2, <1>11, <1>12, <1>3
    <3>2. QED
      BY <3>1, <2>2, <1>4, <1>n, <1>o
  <2>3. QED
    BY <2>1, <2>2, <1>3, <1>4 DEF Deallocating, own2
<1>13. CASE x <= L /\ r[x].ip = p
  <2> DEFINE t == RemoveAt(r, x)
  <2>1. x \in 1 .. L
    BY <1>13, <1>6, <1>3
  \* Indices with which no entry but the one at x has its turn.
  <2>2. PICK u : /\ Slots(r, u, h)
                 /\ \A k \in 1 .. L : k # x /\ own2(k) => u[k] >= i
    <3>1. CASE \E m \in 1 .. L : own2(m) /\ own[m] = i-1
      <4>1. PICK m \in 1 .. L : own2(m) /\ own[m] = i-1
        BY <3>1
      <4>2. r[x] = r[m]
        BY <4>1, <1>11
      <4>3. PICK u : /\ Slots(r, u, h)
                     /\ u[x] = own[m] /\ u[m] = own[x]
                     /\ \A k \in 1 .. L : k # x /\ k # m => u[k] = own[k]
        <5>1. r \in Seq(Entry) /\ Slots(r, own, h) /\ x \in 1 .. Len(r) /\ m \in 1 .. Len(r)
          BY <2>1, <1>3, <1>4
        <5> HIDE DEF L
        <5>2. \E u : Swapped(r, own, h, x, m, u)
          BY <5>1, <4>2, SwapSlots
        <5>3. QED
          BY <5>2 DEF Swapped, L
      <4>4. ASSUME NEW k \in 1 .. L, k # x, own2(k) PROVE u[k] >= i
        <5>1. own2(x) /\ own[x] >= i-1 /\ own[k] >= i-1
          BY <4>1, <4>2, <4>4, <2>1, <1>4 DEF own2
        <5>2. CASE k = m
          <6>1. own[x] # own[m]
            BY <4>4, <5>2, <4>2, <2>1, <1>10
          <6>2. QED
            BY <6>1, <5>1, <5>2, <4>1, <4>3, <2>1, <1>n, <1>o
        <5>3. CASE k # m
          <6>1. own[k] # own[m]
            BY <4>1, <4>4, <5>3, <1>10 DEF own2
          <6>2. u[k] = own[k]
            BY <4>3, <4>4, <5>3
          <6>3. QED
            BY <6>1, <6>2, <5>1, <4>1, <1>n, <1>o
        <5>4. QED
          BY <5>2, <5>3
      <4>5. QED
        BY <4>3, <4>4
    <3>2. CASE ~ \E m \in 1 .. L : own2(m) /\ own[m] = i-1
      <4>1. ASSUME NEW k \in 1 .. L, own2(k) PROVE own[k] >= i
        BY <4>1, <3>2, <1>4, <1>n, <1>o
      <4>2. QED
        BY <4>1, <1>4
    <3>3. QED
      BY <3>1, <3>2
  <2>3. /\ t \in Seq(Entry) /\ Ordered(t)
        /\ Range(t) \subseteq Range(r)
        /\ \A d \in Range(r) : d # r[x] => d \in Range(t)
    BY <2>1, <1>3, RemoveOrdered
  <2>4. /\ Slots(t, RemoveAt(u, x), h)
        /\ \A k \in 1 .. L - 1 : \E m \in 1 .. L : m # x /\ t[k] = r[m] /\ RemoveAt(u, x)[k] = u[m]
    <3>1. Slots(r, u, h) /\ r \in Seq(Entry) /\ x \in 1 .. Len(r)
      BY <2>1, <2>2, <1>3
    <3>2. Slots(RemoveAt(r, x), RemoveAt(u, x), h) /\ SlotsMove(r, u, x)
      BY <3>1, RemoveSlot
    <3>3. \A k \in 1 .. Len(r) - 1 :
            \E m \in 1 .. Len(r) : m # x /\ RemoveAt(r, x)[k] = r[m] /\ RemoveAt(u, x)[k] = u[m]
      BY <3>2 DEF SlotsMove
    <3>4. QED
      BY <3>2, <3>3
  <2>5. Len(t) = L - 1
    BY <2>1, <1>3, RemoveAtFacts
  <2>6. dropEntry(p, h, i, r) = t
    BY <1>7, <1>13
  <2> DEFINE v == RemoveAt(u, x)
  <2> HIDE DEF t, v
  <2>7. ASSUME NEW k \in 1 .. Len(t), t[k].ip = p, ~ Shared(ring, p, t[k].pos) PROVE v[k] >= i
    <3>1. PICK m \in 1 .. L : m # x /\ t[k] = r[m] /\ v[k] = u[m]
      BY <2>4, <2>5 DEF v
    <3>2. QED
      BY <3>1, <2>2, <2>7 DEF own2
  <2>8. \A e \in Range(ring) : e.ip # p => e \in Range(t)
    BY <2>3, <1>3, <1>13
  <2>9. Range(t) \subseteq Range(ring)
    BY <2>3, <1>3
  <2>10. Slots(t, v, h)
    BY <2>4 DEF v
  <2>11. Deallocating(t, ring, p, h, i)
    BY <2>3, <2>7, <2>8, <2>9, <2>10 DEF Deallocating
  <2>12. QED
    BY <2>6, <2>11
<1>14. QED
  BY <1>12, <1>13

(* Removing a peer keeps the order and every entry of the others, whatever *)
(* positions they share, and leaves the peer's own only where another peer *)
(* has an entry too.                                                       *)
LEMMA DeallocateLoose ==
  ASSUME NEW h \in Hash, NEW p \in Peer, NEW ring, Loose(ring, h)
  PROVE  LET left == deallocateFromRing(ring, p, h)
         IN  /\ Loose(left, h)
             /\ Range(left) \subseteq Range(ring)
             /\ \A e \in Range(ring) : e.ip # p => e \in Range(left)
             /\ \A e \in Range(left) : e.ip = p => Shared(ring, p, e.pos)
<1> DEFINE N == VirtualNodes + 1
           left == deallocateFromRing(ring, p, h)
           I == [i \in 0 .. N |-> {r \in Seq(Entry) : Deallocating(r, ring, p, h, i)}]
<1>1. N \in Nat /\ \A i \in 1 .. N : i-1 \in 0 .. N /\ i \in 0 .. N
  BY RingAssumption
<1>2. ring \in Seq(Entry) /\ Ordered(ring)
  BY DEF Loose
<1>3. Deallocating(ring, ring, p, h, 0)
  <2>1. PICK own : Slots(ring, own, h)
    BY DEF Loose
  <2> DEFINE V == 0 .. VirtualNodes
  <2>2. own \in Seq(V) /\ Len(own) = Len(ring)
    BY <2>1 DEF Slots
  <2> HIDE DEF V
  <2>3. \A k \in 1 .. Len(ring) : own[k] \in V
    BY <2>2
  <2>4. \A k \in 1 .. Len(ring) : own[k] >= 0
    BY <2>3 DEF V
  <2>5. QED
    BY <2>1, <2>4, <1>2 DEF Deallocating
<1>4. \A i \in 0 .. N : I[i] \subseteq Seq(Entry) /\ \A r : r \in I[i] <=> Deallocating(r, ring, p, h, i)
  BY DEF Deallocating
<1> HIDE DEF I
<1>5. \A i \in 1 .. N : \A r \in I[i-1] : dropEntry(p, h, i, r) \in I[i]
  BY <1>1, <1>2, <1>4, DeallocatingStep
<1>6. ring \in I[0]
  BY <1>1, <1>3, <1>4, 0 \in 0 .. N
<1>7. left \in I[N]
  BY <1>4, <1>5, <1>6, DeallocateLoop
<1>8. Deallocating(left, ring, p, h, N)
  BY <1>1, <1>4, <1>7, N \in 0 .. N
<1> HIDE DEF left
<1>9. left \in Seq(Entry)
  BY <1>8 DEF Deallocating
<1>10. PICK own : /\ Slots(left, own, h)
                  /\ \A k \in 1 .. Len(left) :
                       left[k].ip = p /\ ~ Shared(ring, p, left[k].pos) => own[k] >= N
  BY <1>8 DEF Deallocating
<1>11. ASSUME NEW e \in Range(left), e.ip = p PROVE Shared(ring, p, e.pos)
  <2>1. PICK k \in 1 .. Len(left) : e = left[k]
    BY <1>9, RangeFacts
  <2> DEFINE V == 0 .. VirtualNodes
  <2>2. own \in Seq(V) /\ Len(own) = Len(left)
    BY <1>10 DEF Slots
  <2> HIDE DEF V
  <2>3. own[k] \in V
    BY <2>2
  <2>4. ~ (own[k] >= N)
    BY <2>3, RingAssumption DEF V
  <2>5. QED
    BY <2>1, <2>4, <1>10, <1>11
<1>12. /\ Loose(left, h)
       /\ Range(left) \subseteq Range(ring)
       /\ \A e \in Range(ring) : e.ip # p => e \in Range(left)
  BY <1>8 DEF Deallocating, Loose
<1>13. QED
  BY <1>11, <1>12 DEF left

-----------------------------------------------------------------------------
(* The walk of getPreferenceListForKey *)

\* How far position y lies clockwise of f.
clockwise(f, y) == (y - f) % RingSize

(* The remainder that clockwise takes, without wrap around and with.       *)
LEMMA Clockwise ==
  ASSUME NEW f \in Position, NEW y \in Position
  PROVE  /\ clockwise(f, y) = IF y >= f THEN y - f ELSE y - f + RingSize
         /\ clockwise(f, y) \in Nat
<1>1. f \in Int /\ y \in Int /\ RingSize \in Nat \ {0} /\ f >= 0 /\ y >= 0 /\ f < RingSize /\ y < RingSize
  BY RingAssumption DEF Position
<1>2. \A a \in Nat, n \in Nat \ {0} : a < n => a % n = a
  OBVIOUS
<1>3. \A a \in Int, n \in Nat \ {0} : -n < a /\ a < 0 => a % n = a + n
  OBVIOUS
<1>4. CASE y >= f
  BY <1>1, <1>2, <1>4 DEF clockwise
<1>5. CASE ~ (y >= f)
  BY <1>1, <1>3, <1>5 DEF clockwise
<1>6. QED
  BY <1>1, <1>4, <1>5

\* The positions of the entries of each peer, at least one and of no other peer.
Spread(at) ==
  /\ at \in [Peer -> SUBSET Position]
  /\ \A p \in Peer : at[p] # {}
  /\ \A p, q \in Peer : at[p] \cap at[q] # {} => p = q

dist(at, f, p) == Min({clockwise(f, y) : y \in at[p]})
Before(at, f, S, q) == {p \in S : dist(at, f, p) < dist(at, f, q)}

(* A non-empty set of naturals has the minimum that Min chooses.           *)
LEMMA MinFacts ==
  ASSUME NEW T \in SUBSET Nat, T # {}
  PROVE  Min(T) \in T /\ Min(T) \in Nat /\ \A t \in T : Min(T) <= t
<1>1. \E m \in T : \A k \in T : m <= k
  BY NatMin
<1>2. QED
  BY <1>1 DEF Min

(* The distance of a peer is that of its nearest entry.                    *)
LEMMA DistFacts ==
  ASSUME NEW at, Spread(at), NEW f \in Position, NEW p \in Peer
  PROVE  /\ dist(at, f, p) \in Nat
         /\ \E y \in at[p] : dist(at, f, p) = clockwise(f, y)
         /\ \A y \in at[p] : dist(at, f, p) <= clockwise(f, y)
<1> DEFINE T == {clockwise(f, y) : y \in at[p]}
<1>1. at[p] \subseteq Position /\ at[p] # {}
  BY DEF Spread
<1>2. T \in SUBSET Nat /\ T # {}
  BY <1>1, Clockwise
<1>3. Min(T) \in T /\ Min(T) \in Nat /\ \A t \in T : Min(T) <= t
  BY <1>2, MinFacts
<1>4. QED
  BY <1>3 DEF dist

\* The ring in order, and what of the peers S is on it: all their entries.
Holds(ring, at, S) ==
  /\ ring \in Seq(Entry) /\ Sorted(ring)
  /\ \A k \in 1 .. Len(ring) : ring[k].ip \in S /\ ring[k].pos \in at[ring[k].ip]
  /\ \A p \in S : \A y \in at[p] : \E k \in 1 .. Len(ring) : ring[k].ip = p /\ ring[k].pos = y

\* The index that a walk from index o visits after k others.
visit(ring, o, k) == ((o - 1 + k) % Len(ring)) + 1

\* The position of a walk, clockwise of its start.
far(ring, o, k) == clockwise(ring[o].pos, ring[visit(ring, o, k)].pos)

(* A walk visits every entry, in clockwise order.                          *)
LEMMA VisitFacts ==
  ASSUME NEW ring \in Seq(Entry), Sorted(ring), NEW o \in 1 .. Len(ring)
  PROVE  /\ \A k \in 0 .. Len(ring) - 1 : visit(ring, o, k) \in 1 .. Len(ring)
         /\ \A j \in 1 .. Len(ring) : \E k \in 0 .. Len(ring) - 1 : visit(ring, o, k) = j
         /\ \A k, l \in 0 .. Len(ring) - 1 : k < l => far(ring, o, k) < far(ring, o, l)
         /\ \A k \in 0 .. Len(ring) - 1 : far(ring, o, k) \in Nat
<1> DEFINE L == Len(ring)
           R == RingSize
<1>1. L \in Nat \ {0} /\ o \in Nat
  OBVIOUS
<1>2. \A a \in Nat, n \in Nat \ {0} : a < n => a % n = a
  OBVIOUS
<1>3. \A a \in Nat, n \in Nat \ {0} : n <= a /\ a < n + n => a % n = a - n
  OBVIOUS
<1>4. \A k \in 0 .. L - 1 : visit(ring, o, k) = IF o + k <= L THEN o + k ELSE o + k - L
  <2> SUFFICES ASSUME NEW k \in 0 .. L - 1
               PROVE  visit(ring, o, k) = IF o + k <= L THEN o + k ELSE o + k - L
    OBVIOUS
  <2>1. o - 1 + k \in Nat /\ o - 1 + k < L + L
    OBVIOUS
  <2> HIDE DEF L
  <2>2. CASE o + k <= L
    <3>1. (o - 1 + k) % L = o - 1 + k
      BY <1>1, <1>2, <2>1, <2>2
    <3>2. QED
      BY <3>1, <2>2, <1>1 DEF visit, L
  <2>3. CASE ~ (o + k <= L)
    <3>1. L <= o - 1 + k
      BY <1>1, <2>1, <2>3
    <3> DEFINE a == o - 1 + k
    <3>2. a \in Nat /\ L <= a /\ a < L + L
      BY <2>1, <3>1
    <3> HIDE DEF a
    <3>3. a % L = a - L
      BY <1>1, <1>3, <3>2
    <3>4. visit(ring, o, k) = a - L + 1
      BY <3>3 DEF visit, a, L
    <3>5. QED
      BY <3>4, <2>3, <1>1 DEF a
  <2>4. QED
    BY <2>2, <2>3
<1>5. \A k \in 1 .. L : ring[k].pos \in Position /\ ring[k].pos \in Int /\ 0 <= ring[k].pos /\ ring[k].pos < R
  BY RingTypes, RingAssumption DEF Position
<1>6. R \in Nat
  BY RingAssumption
<1>7. \A i, j \in 1 .. L : i < j => ring[i].pos < ring[j].pos
  BY DEF Sorted
<1>8. o \in 1 .. L
  OBVIOUS
<1>9. \A j \in 1 .. L : clockwise(ring[o].pos, ring[j].pos) =
         IF j >= o THEN ring[j].pos - ring[o].pos ELSE ring[j].pos - ring[o].pos + R
  <2> SUFFICES ASSUME NEW j \in 1 .. L
               PROVE  clockwise(ring[o].pos, ring[j].pos) =
                        IF j >= o THEN ring[j].pos - ring[o].pos ELSE ring[j].pos - ring[o].pos + R
    OBVIOUS
  <2>1. clockwise(ring[o].pos, ring[j].pos) =
          IF ring[j].pos >= ring[o].pos THEN ring[j].pos - ring[o].pos ELSE ring[j].pos - ring[o].pos + R
    BY <1>5, <1>8, Clockwise
  <2>2. CASE j < o
    BY <1>5, <1>7, <2>1, <2>2
  <2>3. CASE j = o
    BY <1>5, <2>1, <2>3
  <2>4. CASE j > o
    <3>1. ring[o].pos < ring[j].pos
      BY <1>7, <2>4
    <3>2. QED
      BY <3>1, <1>5, <2>1, <2>4
  <2>5. QED
    BY <2>2, <2>3, <2>4
<1> HIDE DEF L, R
<1>10. \A k \in 0 .. L - 1 : visit(ring, o, k) \in 1 .. L
  BY <1>1, <1>4, <1>8
<1>11. \A j \in 1 .. L : \E k \in 0 .. L - 1 : visit(ring, o, k) = j
  <2> SUFFICES ASSUME NEW j \in 1 .. L PROVE \E k \in 0 .. L - 1 : visit(ring, o, k) = j
    OBVIOUS
  <2>1. CASE j >= o
    <3>1. j - o \in 0 .. L - 1 /\ o + (j - o) = j /\ o + (j - o) <= L
      BY <1>1, <1>8, <2>1
    <3>2. visit(ring, o, j - o) = j
      BY <1>4, <3>1
    <3>3. QED
      BY <3>1, <3>2
  <2>2. CASE ~ (j >= o)
    <3>1. j - o + L \in 0 .. L - 1 /\ o + (j - o + L) - L = j /\ ~ (o + (j - o + L) <= L)
      BY <1>1, <1>8, <2>2
    <3>2. visit(ring, o, j - o + L) = j
      BY <1>4, <3>1
    <3>3. QED
      BY <3>1, <3>2
  <2>3. QED
    BY <2>1, <2>2
<1>12. ASSUME NEW k \in 0 .. L - 1, NEW l \in 0 .. L - 1, k < l
       PROVE  far(ring, o, k) < far(ring, o, l)
  <2> DEFINE u == visit(ring, o, k)
             w == visit(ring, o, l)
  <2>1. u \in 1 .. L /\ w \in 1 .. L /\ u \in Int /\ w \in Int
    BY <1>10
  <2>2. /\ u = IF o + k <= L THEN o + k ELSE o + k - L
        /\ w = IF o + l <= L THEN o + l ELSE o + l - L
    BY <1>4
  <2>3. /\ far(ring, o, k) = IF u >= o THEN ring[u].pos - ring[o].pos ELSE ring[u].pos - ring[o].pos + R
        /\ far(ring, o, l) = IF w >= o THEN ring[w].pos - ring[o].pos ELSE ring[w].pos - ring[o].pos + R
    BY <1>9, <2>1 DEF far
  <2> HIDE DEF u, w
  <2>4. (u >= o /\ w < o) \/ (u < w /\ (u >= o <=> w >= o))
    BY <2>2, <1>1, <1>8, <1>12
  <2>5. ring[u].pos \in Int /\ ring[w].pos \in Int /\ ring[o].pos \in Int /\ 0 <= ring[w].pos /\ ring[u].pos < R
    BY <1>5, <1>8, <2>1
  <2>6. u < w => ring[u].pos < ring[w].pos
    BY <1>7, <2>1
  <2>7. CASE u >= o /\ w < o
    <3>1. ~ (w >= o)
      BY <2>1, <2>7, <1>1
    <3>2. far(ring, o, k) = ring[u].pos - ring[o].pos /\ far(ring, o, l) = ring[w].pos - ring[o].pos + R
      BY <2>3, <2>7, <3>1
    <3>3. QED
      BY <2>5, <3>2, <1>6, SMTT(20)
  <2>8. CASE u < w /\ (u >= o <=> w >= o)
    <3>1. ring[u].pos < ring[w].pos
      BY <2>6, <2>8
    <3>2. CASE u >= o
      <4>1. far(ring, o, k) = ring[u].pos - ring[o].pos /\ far(ring, o, l) = ring[w].pos - ring[o].pos
        BY <2>3, <2>8, <3>2
      <4>2. QED
        BY <2>5, <3>1, <4>1
    <3>3. CASE ~ (u >= o)
      <4>1. /\ far(ring, o, k) = ring[u].pos - ring[o].pos + R
            /\ far(ring, o, l) = ring[w].pos - ring[o].pos + R
        BY <2>3, <2>8, <3>3
      <4>2. QED
        BY <2>5, <3>1, <4>1, <1>6
    <3>4. QED
      BY <3>2, <3>3
  <2>9. QED
    BY <2>4, <2>7, <2>8
<1>13. \A k \in 0 .. L - 1 : far(ring, o, k) \in Nat
  BY <1>5, <1>8, <1>10, Clockwise DEF far
<1>14. QED
  BY <1>10, <1>11, <1>12, <1>13 DEF L

(* The first visit to a peer finds its nearest entry, and the peers that   *)
(* the walk met before it are those whose nearest entry is nearer.         *)
LEMMA FirstVisit ==
  ASSUME NEW S \in SUBSET Peer, NEW at, Spread(at), NEW ring, Holds(ring, at, S),
         NEW o \in 1 .. Len(ring), NEW k \in 0 .. Len(ring) - 1,
         \A j \in 0 .. k - 1 : ring[visit(ring, o, j)].ip # ring[visit(ring, o, k)].ip
  PROVE  dist(at, ring[o].pos, ring[visit(ring, o, k)].ip) = far(ring, o, k)
<1> DEFINE L == Len(ring)
           f == ring[o].pos
           p == ring[visit(ring, o, k)].ip
<1>1. /\ \A i \in 0 .. L - 1 : visit(ring, o, i) \in 1 .. L
      /\ \A j \in 1 .. L : \E i \in 0 .. L - 1 : visit(ring, o, i) = j
      /\ \A i, j \in 0 .. L - 1 : i < j => far(ring, o, i) < far(ring, o, j)
      /\ \A i \in 0 .. L - 1 : far(ring, o, i) \in Nat
  BY VisitFacts DEF Holds
<1>2. L \in Nat /\ \A j \in 1 .. L : ring[j].ip \in S /\ ring[j].pos \in at[ring[j].ip] /\ ring[j].pos \in Position
  BY RingTypes DEF Holds
<1>3. f \in Position /\ p \in S /\ p \in Peer
  BY <1>1, <1>2
<1>4. /\ dist(at, f, p) \in Nat
      /\ \E y \in at[p] : dist(at, f, p) = clockwise(f, y)
      /\ \A y \in at[p] : dist(at, f, p) <= clockwise(f, y)
  BY <1>3, DistFacts
<1>5. ring[visit(ring, o, k)].pos \in at[p]
  BY <1>1, <1>2
<1>6. dist(at, f, p) <= far(ring, o, k)
  BY <1>4, <1>5 DEF far
<1>7. PICK y \in at[p] : dist(at, f, p) = clockwise(f, y)
  BY <1>4
<1>8. PICK j \in 1 .. L : ring[j].ip = p /\ ring[j].pos = y
  BY <1>3 DEF Holds
<1>9. PICK i \in 0 .. L - 1 : visit(ring, o, i) = j
  BY <1>1
<1>10. dist(at, f, p) = far(ring, o, i)
  BY <1>7, <1>8, <1>9 DEF far
<1>11. ring[visit(ring, o, i)].ip = ring[visit(ring, o, k)].ip
  BY <1>8, <1>9
<1>12. ~ (i < k)
  <2>1. i < k => i \in 0 .. k - 1
    BY <1>2
  <2>2. QED
    BY <1>11, <2>1
<1>13. k < i => far(ring, o, k) < far(ring, o, i)
  BY <1>1
<1>14. i = k
  <2>1. far(ring, o, k) \in Nat /\ far(ring, o, i) \in Nat
    BY <1>1
  <2>2. ~ (k < i)
    BY <2>1, <1>6, <1>10, <1>13
  <2>3. QED
    BY <2>2, <1>12
<1>15. QED
  BY <1>10, <1>14

\* The peers that the walk from o has met after k steps.
met(ring, o, k) == {ring[visit(ring, o, j)].ip : j \in 0 .. k}

\* k is the first step at which the walk meets a peer.
First(ring, o, k) == \A j \in 0 .. k - 1 : ring[visit(ring, o, j)].ip # ring[visit(ring, o, k)].ip

(* A peer that was met was met for the first time.                         *)
LEMMA FirstExists ==
  ASSUME NEW ring, NEW o, NEW k \in Nat
  PROVE  \E i \in 0 .. k : First(ring, o, i) /\ ring[visit(ring, o, i)].ip = ring[visit(ring, o, k)].ip
<1> DEFINE T == {i \in 0 .. k : ring[visit(ring, o, i)].ip = ring[visit(ring, o, k)].ip}
<1>1. T \in SUBSET Nat /\ T # {}
  BY k \in T
<1>2. PICK m \in T : \A i \in T : m <= i
  BY <1>1, NatMin
<1>3. First(ring, o, m)
  <2> SUFFICES ASSUME NEW j \in 0 .. m - 1, ring[visit(ring, o, j)].ip = ring[visit(ring, o, m)].ip
               PROVE  FALSE
    BY DEF First
  <2>1. j \in T /\ j < m
    BY <1>1
  <2>2. QED
    BY <1>1, <1>2, <2>1
<1>4. QED
  BY <1>3

(* The peers met before the first visit to one are those nearer than it.   *)
LEMMA MetBefore ==
  ASSUME NEW S \in SUBSET Peer, NEW at, Spread(at), NEW ring, Holds(ring, at, S),
         NEW o \in 1 .. Len(ring), NEW k \in 0 .. Len(ring) - 1, First(ring, o, k)
  PROVE  Before(at, ring[o].pos, S, ring[visit(ring, o, k)].ip) =
           met(ring, o, k - 1)
<1> DEFINE L == Len(ring)
           f == ring[o].pos
           ip(i) == ring[visit(ring, o, i)].ip
<1>1. /\ \A i \in 0 .. L - 1 : visit(ring, o, i) \in 1 .. L
      /\ \A j \in 1 .. L : \E i \in 0 .. L - 1 : visit(ring, o, i) = j
      /\ \A i, j \in 0 .. L - 1 : i < j => far(ring, o, i) < far(ring, o, j)
      /\ \A i \in 0 .. L - 1 : far(ring, o, i) \in Nat
  BY VisitFacts DEF Holds
<1>2. L \in Nat /\ k \in Nat
  BY DEF Holds
<1>3. \A i \in 0 .. L - 1 : ip(i) \in S
  BY <1>1 DEF Holds
<1>4. \A i \in 0 .. L - 1 : First(ring, o, i) => dist(at, f, ip(i)) = far(ring, o, i)
  BY FirstVisit DEF First
<1>5. ASSUME NEW i \in 0 .. L - 1
      PROVE  \E m \in 0 .. i : First(ring, o, m) /\ ip(m) = ip(i)
  BY FirstExists
<1>6. ASSUME NEW q \in Before(at, f, S, ip(k)) PROVE \E j \in 0 .. k - 1 : q = ip(j)
  <2>1. q \in S /\ q \in Peer /\ dist(at, f, q) < dist(at, f, ip(k))
    BY DEF Before
  <2>2. PICK y \in at[q] : TRUE
    BY <2>1 DEF Spread
  <2>3. PICK j \in 1 .. L : ring[j].ip = q
    BY <2>1 DEF Holds
  <2>4. PICK i \in 0 .. L - 1 : visit(ring, o, i) = j
    BY <1>1
  <2>5. PICK m \in 0 .. i : First(ring, o, m) /\ ip(m) = ip(i)
    BY <1>5
  <2>6. m \in 0 .. L - 1 /\ ip(m) = q
    BY <2>3, <2>4, <2>5
  <2> HIDE DEF ip
  <2>7. far(ring, o, m) < far(ring, o, k)
    BY <1>4, <2>1, <2>5, <2>6
  <2>8. m < k
    <3>1. k < m => far(ring, o, k) < far(ring, o, m)
      BY <1>1, <2>6
    <3>2. far(ring, o, k) \in Nat /\ far(ring, o, m) \in Nat
      BY <1>1, <2>6
    <3>3. ~ (k < m) /\ k # m
      BY <2>7, <3>1, <3>2
    <3>4. QED
      BY <3>3, <1>2
  <2>9. m \in 0 .. k - 1
    BY <2>6, <2>8
  <2>10. QED
    BY <2>6, <2>9
<1>7. ASSUME NEW j \in 0 .. k - 1 PROVE ip(j) \in Before(at, f, S, ip(k))
  <2>1. j \in 0 .. L - 1
    BY <1>2
  <2>2. PICK m \in 0 .. j : First(ring, o, m) /\ ip(m) = ip(j)
    BY <1>5, <2>1
  <2>3. m \in 0 .. L - 1 /\ m < k
    BY <2>1, <1>2
  <2>4. far(ring, o, m) < far(ring, o, k)
    BY <1>1, <2>3
  <2> HIDE DEF ip
  <2>5. dist(at, f, ip(j)) < dist(at, f, ip(k))
    BY <1>4, <2>2, <2>3, <2>4
  <2>6. QED
    BY <1>3, <2>1, <2>5 DEF Before
<1>8. QED
  BY <1>6, <1>7 DEF met

\* The list of the peers met by step k, in the order of their distance, up to rf.
Listed(ring, o, at, S, rf, k) ==
  {list \in Seq(S) :
     /\ Len(list) = IF Cardinality(met(ring, o, k)) <= rf THEN Cardinality(met(ring, o, k)) ELSE rf
     /\ Len(list) < rf => \A p : p \in met(ring, o, k) => \E i \in 1 .. Len(list) : list[i] = p
     /\ \A i \in 1 .. Len(list) :
          /\ list[i] \in met(ring, o, k)
          /\ Cardinality(Before(at, ring[o].pos, S, list[i])) = i - 1}

\* One step of the walk of getPreferenceListForKey.
choose(ring, o, rf, k, chosen) ==
  LET ip == ring[visit(ring, o, k)].ip
  IN  IF Len(chosen) >= rf \/ ip \in ToSet(chosen) THEN chosen ELSE Append(chosen, ip)

(* What a walk has met are peers of the ring, one more at most each step.  *)
LEMMA MetFacts ==
  ASSUME NEW S \in SUBSET Peer, NEW at, NEW ring, Holds(ring, at, S), NEW o \in 1 .. Len(ring)
  PROVE  /\ \A k \in 0 .. Len(ring) - 1 :
              /\ met(ring, o, k) \subseteq S /\ IsFiniteSet(met(ring, o, k))
              /\ Cardinality(met(ring, o, k)) \in Nat
              /\ ring[visit(ring, o, k)].ip \in S
         /\ \A k \in 1 .. Len(ring) - 1 :
              met(ring, o, k) = met(ring, o, k - 1) \cup {ring[visit(ring, o, k)].ip}
<1> DEFINE L == Len(ring)
<1>1. /\ \A i \in 0 .. L - 1 : visit(ring, o, i) \in 1 .. L
      /\ \A j \in 1 .. L : \E i \in 0 .. L - 1 : visit(ring, o, i) = j
  BY VisitFacts DEF Holds
<1>2. L \in Nat
  BY DEF Holds
<1>3. \A k \in 0 .. L - 1 : ring[visit(ring, o, k)].ip \in S
  BY <1>1 DEF Holds
<1>4. ASSUME NEW k \in 0 .. L - 1
      PROVE  /\ met(ring, o, k) \subseteq S /\ IsFiniteSet(met(ring, o, k))
             /\ Cardinality(met(ring, o, k)) \in Nat
  <2>1. \A j \in 0 .. k : j \in 0 .. L - 1
    BY <1>2
  <2>2. met(ring, o, k) \subseteq S
    BY <1>3, <2>1 DEF met
  <2>3. IsFiniteSet(met(ring, o, k))
    BY <2>2, RingAssumption, FS_Subset
  <2>4. QED
    BY <2>2, <2>3, FS_CardinalityType
<1>5. ASSUME NEW k \in 1 .. L - 1
      PROVE  met(ring, o, k) = met(ring, o, k - 1) \cup {ring[visit(ring, o, k)].ip}
  <2>1. 0 .. k = (0 .. k - 1) \cup {k}
    BY <1>2
  <2>2. QED
    BY <2>1 DEF met
<1>6. QED
  BY <1>3, <1>4, <1>5 DEF L

(* The whole walk meets every peer.                                        *)
LEMMA AllMet ==
  ASSUME NEW S \in SUBSET Peer, NEW at, Spread(at), NEW ring, Holds(ring, at, S),
         NEW o \in 1 .. Len(ring)
  PROVE  met(ring, o, Len(ring) - 1) = S
<1> DEFINE L == Len(ring)
<1>1. \A j \in 1 .. L : \E i \in 0 .. L - 1 : visit(ring, o, i) = j
  BY VisitFacts DEF Holds
<1>2. L - 1 \in 0 .. L - 1
  BY DEF Holds
<1>3. met(ring, o, L - 1) \subseteq S
  BY <1>2, MetFacts
<1>4. ASSUME NEW p \in S PROVE p \in met(ring, o, L - 1)
  <2>1. PICK y \in at[p] : TRUE
    BY DEF Spread
  <2>2. PICK j \in 1 .. L : ring[j].ip = p
    BY DEF Holds
  <2>3. PICK i \in 0 .. L - 1 : visit(ring, o, i) = j
    BY <1>1
  <2>4. QED
    BY <2>2, <2>3 DEF met
<1>5. QED
  BY <1>3, <1>4

(* The first step lists the owner.                                         *)
LEMMA ChooseFirst ==
  ASSUME NEW S \in SUBSET Peer, NEW at, Spread(at), NEW ring, Holds(ring, at, S),
         NEW o \in 1 .. Len(ring), NEW rf \in Nat \ {0}
  PROVE  choose(ring, o, rf, 0, << >>) \in Listed(ring, o, at, S, rf, 0)
<1> DEFINE ip == ring[visit(ring, o, 0)].ip
           list == choose(ring, o, rf, 0, << >>)
<1>1. 0 \in 0 .. Len(ring) - 1
  OBVIOUS
<1>2. met(ring, o, 0) = {ip} /\ ip \in S
  <2>1. \A j \in 0 .. 0 : j = 0
    OBVIOUS
  <2>2. 0 \in 0 .. 0
    OBVIOUS
  <2>3. met(ring, o, 0) = {ip}
    BY <2>1, <2>2 DEF met
  <2>4. ip \in S
    BY <1>1, MetFacts
  <2>5. QED
    BY <2>3, <2>4
<1>3. Before(at, ring[o].pos, S, ip) = {}
  <2>1. First(ring, o, 0)
    BY DEF First
  <2>2. Before(at, ring[o].pos, S, ip) = met(ring, o, 0 - 1)
    BY <1>1, <2>1, MetBefore
  <2>3. \A j \in 0 .. 0 - 1 : FALSE
    OBVIOUS
  <2>4. met(ring, o, 0 - 1) = {}
    BY <2>3 DEF met
  <2>5. QED
    BY <2>2, <2>4
<1>4. list = <<ip>>
  BY DEF choose, ToSet
<1>5. Cardinality(met(ring, o, 0)) = 1 /\ Cardinality(Before(at, ring[o].pos, S, ip)) = 0
  BY <1>2, <1>3, FS_Singleton, FS_EmptySet
<1> HIDE DEF ip, list
<1>6. list \in Seq(S) /\ Len(list) = 1 /\ \A i \in 1 .. 1 : i = 1 /\ list[i] = ip
  BY <1>2, <1>4
<1>7. \A p : p \in met(ring, o, 0) => \E i \in 1 .. 1 : list[i] = p
  BY <1>2, <1>6
<1>8. list \in Listed(ring, o, at, S, rf, 0)
  <2>1. Len(list) = IF Cardinality(met(ring, o, 0)) <= rf THEN Cardinality(met(ring, o, 0)) ELSE rf
    BY <1>5, <1>6
  <2>2. \A i \in 1 .. Len(list) : list[i] \in met(ring, o, 0)
    BY <1>2, <1>6
  <2>3. \A i \in 1 .. Len(list) : Cardinality(Before(at, ring[o].pos, S, list[i])) = i - 1
    <3> SUFFICES ASSUME NEW i \in 1 .. Len(list)
                 PROVE  Cardinality(Before(at, ring[o].pos, S, list[i])) = i - 1
      OBVIOUS
    <3>1. i = 1 /\ list[i] = ip
      BY <1>6
    <3>2. QED
      BY <1>5, <3>1
  <2>4. QED
    BY <1>6, <1>7, <2>1, <2>2, <2>3 DEF Listed
<1>9. QED
  BY <1>8 DEF list

(* Each further step keeps that the peers met are listed.                  *)
LEMMA ChooseNext ==
  ASSUME NEW S \in SUBSET Peer, NEW at, Spread(at), NEW ring, Holds(ring, at, S),
         NEW o \in 1 .. Len(ring), NEW rf \in Nat \ {0}, NEW k \in 1 .. Len(ring) - 1,
         NEW chosen \in Listed(ring, o, at, S, rf, k - 1)
  PROVE  choose(ring, o, rf, k, chosen) \in Listed(ring, o, at, S, rf, k)
<1> DEFINE f == ring[o].pos
           ip == ring[visit(ring, o, k)].ip
           old == met(ring, o, k - 1)
           new == met(ring, o, k)
           L == Len(chosen)
<1>1. k \in 0 .. Len(ring) - 1 /\ k - 1 \in 0 .. Len(ring) - 1
  OBVIOUS
<1>2. /\ new = old \cup {ip} /\ IsFiniteSet(old) /\ Cardinality(old) \in Nat /\ Cardinality(new) \in Nat
      /\ ip \in S /\ old \subseteq S
  <2>1. /\ \A i \in 0 .. Len(ring) - 1 :
             /\ met(ring, o, i) \subseteq S /\ IsFiniteSet(met(ring, o, i))
             /\ Cardinality(met(ring, o, i)) \in Nat
             /\ ring[visit(ring, o, i)].ip \in S
        /\ \A i \in 1 .. Len(ring) - 1 :
             met(ring, o, i) = met(ring, o, i - 1) \cup {ring[visit(ring, o, i)].ip}
    BY MetFacts
  <2>2. QED
    BY <1>1, <2>1
<1>3. /\ chosen \in Seq(S)
      /\ L = IF Cardinality(old) <= rf THEN Cardinality(old) ELSE rf
      /\ L < rf => \A p : p \in old => \E i \in 1 .. L : chosen[i] = p
      /\ \A i \in 1 .. L : chosen[i] \in old
      /\ \A i \in 1 .. L : Cardinality(Before(at, f, S, chosen[i])) = i - 1
  BY DEF Listed
<1>4. L \in Nat
  BY <1>3
<1>5. Cardinality(new) = IF ip \in old THEN Cardinality(old) ELSE Cardinality(old) + 1
  BY <1>2, FS_AddElement
<1>6. ip \in ToSet(chosen) <=> \E i \in 1 .. L : chosen[i] = ip
  <2>1. DOMAIN chosen = 1 .. L
    BY <1>3
  <2>2. QED
    BY <2>1 DEF ToSet
<1>7. choose(ring, o, rf, k, chosen) =
        IF L >= rf \/ ip \in ToSet(chosen) THEN chosen ELSE Append(chosen, ip)
  BY DEF choose
<1> HIDE DEF f, ip, old, new, L
<1>8. CASE L >= rf \/ ip \in ToSet(chosen)
  <2>1. L = IF Cardinality(new) <= rf THEN Cardinality(new) ELSE rf
    <3>1. CASE L >= rf
      BY <1>2, <1>3, <1>5, <3>1
    <3>2. CASE ip \in ToSet(chosen)
      <4>1. ip \in old
        BY <1>3, <1>6, <3>2
      <4>2. QED
        BY <1>3, <1>5, <4>1
    <3>3. QED
      BY <1>8, <3>1, <3>2
  <2>2. L < rf => \A p : p \in new => \E i \in 1 .. L : chosen[i] = p
    <3> SUFFICES ASSUME L < rf, NEW p \in new PROVE \E i \in 1 .. L : chosen[i] = p
      OBVIOUS
    <3>1. \E i \in 1 .. L : chosen[i] = ip
      BY <1>4, <1>6, <1>8
    <3>2. CASE p = ip
      BY <3>1, <3>2
    <3>3. CASE p # ip
      <4>1. p \in old
        BY <1>2, <3>3
      <4>2. QED
        BY <1>3, <4>1
    <3>4. QED
      BY <3>2, <3>3
  <2>3. \A i \in 1 .. L : chosen[i] \in new
    BY <1>2, <1>3
  <2>4. chosen \in Listed(ring, o, at, S, rf, k)
    BY <1>3, <2>1, <2>2, <2>3 DEF Listed, f, new, L
  <2>5. QED
    BY <1>7, <1>8, <2>4
<1>9. CASE ~ (L >= rf \/ ip \in ToSet(chosen))
  <2> DEFINE list == Append(chosen, ip)
  <2>1. L < rf /\ ip \notin ToSet(chosen)
    BY <1>4, <1>9
  <2>2. ip \notin old
    BY <1>3, <1>6, <2>1
  <2>3. L = Cardinality(old)
    BY <1>2, <1>3, <2>1
  <2>4. First(ring, o, k)
    <3> SUFFICES ASSUME NEW j \in 0 .. k - 1 PROVE ring[visit(ring, o, j)].ip # ip
      BY DEF First, ip
    <3>1. ring[visit(ring, o, j)].ip \in old
      BY DEF old, met
    <3>2. QED
      BY <2>2, <3>1
  <2>5. Before(at, f, S, ip) = old
    BY <1>1, <2>4, MetBefore DEF f, ip, old
  <2>6. /\ list \in Seq(S) /\ Len(list) = L + 1 /\ list[L + 1] = ip
        /\ \A i \in 1 .. L : list[i] = chosen[i]
    BY <1>2, <1>3, AppendProperties DEF L
  <2> HIDE DEF list
  <2>7. \A i \in 1 .. L + 1 : i \in 1 .. L \/ i = L + 1
    BY <1>4
  <2>8. Len(list) = IF Cardinality(new) <= rf THEN Cardinality(new) ELSE rf
    BY <1>2, <1>5, <2>1, <2>2, <2>3, <2>6
  <2>9. \A p : p \in new => \E i \in 1 .. L + 1 : list[i] = p
    <3>1. ASSUME NEW p, p \in old PROVE \E i \in 1 .. L + 1 : list[i] = p
      <4>1. PICK i \in 1 .. L : chosen[i] = p
        BY <1>3, <2>1, <3>1
      <4>2. i \in 1 .. L + 1
        BY <1>4
      <4>3. QED
        BY <2>6, <4>1, <4>2
    <3>2. L + 1 \in 1 .. L + 1
      BY <1>4
    <3>3. QED
      BY <1>2, <2>6, <3>1, <3>2
  <2>10. ASSUME NEW i \in 1 .. L + 1
         PROVE  list[i] \in new /\ Cardinality(Before(at, f, S, list[i])) = i - 1
    <3>1. CASE i \in 1 .. L
      BY <1>2, <1>3, <2>6, <3>1
    <3>2. CASE i = L + 1
      <4>1. list[i] = ip
        BY <2>6, <3>2
      <4>2. Cardinality(Before(at, f, S, list[i])) = L
        BY <2>3, <2>5, <4>1
      <4>3. i - 1 = L
        BY <1>4, <3>2
      <4>4. QED
        BY <1>2, <4>1, <4>2, <4>3
    <3>3. QED
      BY <2>7, <3>1, <3>2
  <2>11. list \in Listed(ring, o, at, S, rf, k)
    BY <2>6, <2>8, <2>9, <2>10 DEF Listed, f, new
  <2>12. QED
    BY <1>7, <1>9, <2>11 DEF list
<1>10. QED
  BY <1>8, <1>9

(* The loop of getPreferenceListForKey lists the peers it met.             *)
LEMMA WalkLists ==
  ASSUME NEW S \in SUBSET Peer, NEW at, Spread(at), NEW ring, Holds(ring, at, S),
         NEW x, getOwnerIdx(ring, x) \in 1 .. Len(ring), NEW rf \in Nat \ {0}
  PROVE  getPreferenceListForKey(ring, x, rf)
           \in Listed(ring, getOwnerIdx(ring, x), at, S, rf, Len(ring) - 1)
<1> DEFINE o == getOwnerIdx(ring, x)
           N == Len(ring) - 1
           step(k, r) == choose(ring, o, rf, k, r)
           I == [k \in 0 .. N |-> Listed(ring, o, at, S, rf, k)]
           F == [w \in (1 .. N) \X Seq(S) |-> step(w[1], w[2])]
           first == step(0, << >>)
           walk == CHOOSE f : f = [k \in 0 .. N |-> step(k, IF k = 0 THEN << >> ELSE f[k-1])]
<1>1. getPreferenceListForKey(ring, x, rf) = walk[N]
  BY DEF getPreferenceListForKey, choose, visit
<1>2. o \in 1 .. Len(ring)
  OBVIOUS
<1> HIDE DEF o
<1>3. N \in Nat /\ \A i \in 1 .. N : i-1 \in 0 .. N /\ i \in 0 .. N /\ i # 0
  BY <1>2 DEF Holds
<1>4. first \in I[0]
  BY <1>2, <1>3, ChooseFirst
<1>5. \A i \in 0 .. N : I[i] = Listed(ring, o, at, S, rf, i) /\ I[i] \subseteq Seq(S)
  BY DEF Listed
<1>6. ASSUME NEW i \in 1 .. N, NEW r \in I[i-1] PROVE F[<<i, r>>] = step(i, r) /\ step(i, r) \in I[i]
  <2>1. r \in Listed(ring, o, at, S, rf, i-1) /\ r \in Seq(S)
    BY <1>3, <1>5
  <2>2. step(i, r) \in Listed(ring, o, at, S, rf, i)
    BY <1>2, <2>1, ChooseNext
  <2>3. step(i, r) \in I[i]
    BY <1>3, <1>5, <2>2
  <2>4. F[<<i, r>>] = step(i, r)
    BY <2>1
  <2>5. QED
    BY <2>3, <2>4
<1> HIDE DEF step, I, F, first, N
<1>7. PICK f : /\ f[0] = first
               /\ \A i \in 1 .. N : f[i] = F[<<i, f[i-1]>>]
               /\ \A i \in 0 .. N : f[i] \in I[i]
               /\ f = [i \in 0 .. N |-> f[i]]
  <2>1. StepsKeep(N, Seq(S), I, F)
    BY <1>5, <1>6 DEF StepsKeep
  <2>2. PICK f : StatesKept(N, I, first, F, f)
    BY <1>3, <1>4, <2>1, LoopFunction
  <2>3. QED
    BY <2>2 DEF StatesKept
<1>8. f = [i \in 0 .. N |-> step(i, IF i = 0 THEN << >> ELSE f[i-1])]
  <2>1. ASSUME NEW i \in 0 .. N PROVE f[i] = step(i, IF i = 0 THEN << >> ELSE f[i-1])
    <3>1. CASE i = 0
      BY <3>1, <1>7 DEF first
    <3>2. CASE i # 0
      <4>1. i \in 1 .. N
        BY <3>2, <1>3
      <4>2. f[i] = step(i, f[i-1])
        BY <4>1, <1>3, <1>6, <1>7
      <4>3. QED
        BY <3>2, <4>2
    <3>3. QED
      BY <3>1, <3>2
  <2>2. QED
    BY <2>1, <1>7
<1>9. walk = [i \in 0 .. N |-> step(i, IF i = 0 THEN << >> ELSE walk[i-1])]
  BY <1>8
<1> HIDE DEF walk
<1>10. walk[0] = first /\ \A i \in 1 .. N : walk[i] = step(i, walk[i-1])
  <2>1. 0 \in 0 .. N
    BY <1>3
  <2>2. walk[0] = first
    BY <2>1, <1>9 DEF first
  <2>3. ASSUME NEW i \in 1 .. N PROVE walk[i] = step(i, walk[i-1])
    BY <1>3, <1>9
  <2>4. QED
    BY <2>2, <2>3
<1>11. \A i \in 0 .. N : walk[i] \in I[i]
  <2>1. walk[0] \in I[0]
    BY <1>4, <1>10
  <2>2. \A i \in 1 .. N : walk[i-1] \in I[i-1] => walk[i] \in I[i]
    BY <1>6, <1>10
  <2>3. QED
    BY <1>3, <2>1, <2>2, LoopInvariant
<1>12. walk[N] \in Listed(ring, o, at, S, rf, N)
  BY <1>3, <1>5, <1>11, N \in 0 .. N
<1>13. QED
  BY <1>1, <1>12 DEF o, N

\* The peers of S from position f on, clockwise, up to rf.
ClockwiseList(list, at, f, S, rf) ==
  /\ list \in Seq(S) /\ Cardinality(S) \in Nat
  /\ Len(list) = IF Cardinality(S) <= rf THEN Cardinality(S) ELSE rf
  /\ \A i \in 1 .. Len(list) : Cardinality(Before(at, f, S, list[i])) = i - 1

(* The preference list: as long as the replication factor and the ring     *)
(* allow, each member as far down as there are members nearer the owner.   *)
LEMMA PreferenceListFacts ==
  ASSUME NEW S \in SUBSET Peer, NEW at, Spread(at), NEW ring, Holds(ring, at, S),
         NEW x, getOwnerIdx(ring, x) \in 1 .. Len(ring), NEW rf \in Nat \ {0}
  PROVE  ClockwiseList(getPreferenceListForKey(ring, x, rf), at,
                       ring[getOwnerIdx(ring, x)].pos, S, rf)
<1> DEFINE o == getOwnerIdx(ring, x)
           list == getPreferenceListForKey(ring, x, rf)
<1>1. list \in Listed(ring, o, at, S, rf, Len(ring) - 1)
  BY WalkLists
<1>2. o \in 1 .. Len(ring)
  OBVIOUS
<1> HIDE DEF o, list
<1>3. met(ring, o, Len(ring) - 1) = S
  BY <1>2, AllMet
<1>4. Cardinality(S) \in Nat
  BY RingAssumption, FS_Subset, FS_CardinalityType
<1>5. ClockwiseList(list, at, ring[o].pos, S, rf)
  BY <1>1, <1>3, <1>4 DEF Listed, ClockwiseList
<1>6. QED
  BY <1>5 DEF o, list

-----------------------------------------------------------------------------
(* Tokens and positions *)

(* A token is a natural number.                                            *)
LEMMA TokenType == \A x \in Position : getToken(x) \in Nat
<1>1. tokenSize \in Nat \ {0}
  <2>1. 2 * RingSize + Tokens \in Nat /\ 2 * Tokens \in Nat \ {0} /\ 2 * RingSize + Tokens >= 2 * Tokens
    BY RingAssumption
  <2>2. \A x \in Nat, y \in Nat \ {0} : x >= y => x \div y \in Nat \ {0}
    OBVIOUS
  <2>3. QED
    BY <2>1, <2>2 DEF tokenSize
<1>2. \A x \in Nat, y \in Nat \ {0} : x \div y \in Nat
  OBVIOUS
<1>3. ASSUME NEW x \in Position PROVE getToken(x) \in Nat
  <2>1. x + tokenSize - 1 \in Nat
    BY <1>1, RingAssumption DEF Position
  <2>2. QED
    BY <1>1, <1>2, <2>1 DEF getToken
<1>4. QED
  BY <1>3

(* Tokens are in the order of the positions, and only position 0 is in     *)
(* token 0.                                                                *)
LEMMA TokenOrder ==
  ASSUME NEW x \in Position, NEW y \in Position
  PROVE  /\ getToken(x) \in Nat /\ getToken(y) \in Nat
         /\ x <= y => getToken(x) <= getToken(y)
         /\ x > 0 => getToken(x) > 0
<1>1. tokenSize \in Nat \ {0}
  <2>1. 2 * RingSize + Tokens \in Nat /\ 2 * Tokens \in Nat \ {0} /\ 2 * RingSize + Tokens >= 2 * Tokens
    BY RingAssumption
  <2>2. \A a \in Nat, b \in Nat \ {0} : a >= b => a \div b \in Nat \ {0}
    OBVIOUS
  <2>3. QED
    BY <2>1, <2>2 DEF tokenSize
<1>2. x \in Nat /\ y \in Nat
  BY RingAssumption DEF Position
<1>3. \A a \in Nat, b \in Nat, c \in Nat \ {0} : a <= b => a \div c <= b \div c
  OBVIOUS
<1>4. \A a \in Nat, c \in Nat \ {0} : a >= c => a \div c > 0
  OBVIOUS
<1>5. x + tokenSize - 1 \in Nat /\ y + tokenSize - 1 \in Nat
  BY <1>1, <1>2
<1>6. x <= y => getToken(x) <= getToken(y)
  <2>1. x <= y => x + tokenSize - 1 <= y + tokenSize - 1
    BY <1>1, <1>2
  <2>2. QED
    BY <1>1, <1>3, <1>5, <2>1 DEF getToken
<1>7. x > 0 => getToken(x) > 0
  <2>1. x > 0 => x + tokenSize - 1 >= tokenSize
    BY <1>1, <1>2
  <2>2. QED
    BY <1>1, <1>4, <1>5, <2>1 DEF getToken
<1>8. QED
  BY <1>6, <1>7, TokenType

\* The positions of the peers S.
All(at, S) == UNION {at[p] : p \in S}

(* A least element of a set is the one that Min chooses.                   *)
LEMMA MinIs ==
  ASSUME NEW T \in SUBSET Int, NEW m \in T, \A t \in T : m <= t
  PROVE  Min(T) = m
<1>1. Min(T) \in T /\ \A t \in T : Min(T) <= t
  BY DEF Min
<1>2. Min(T) \in Int /\ m \in Int /\ m <= Min(T) /\ Min(T) <= m
  BY <1>1
<1>3. QED
  BY <1>2

(* A greatest element of a set is the one that Max chooses.                *)
LEMMA MaxIs ==
  ASSUME NEW T \in SUBSET Int, NEW m \in T, \A t \in T : m >= t
  PROVE  Max(T) = m
<1>1. Max(T) \in T /\ \A t \in T : Max(T) >= t
  BY DEF Max
<1>2. Max(T) \in Int /\ m \in Int /\ m <= Max(T) /\ Max(T) <= m
  BY <1>1
<1>3. QED
  BY <1>2

(* A non-empty set of positions has the maximum that Max chooses.          *)
LEMMA MaxFacts ==
  ASSUME NEW T \in SUBSET Position, T # {}
  PROVE  Max(T) \in T /\ \A t \in T : t <= Max(T)
<1> DEFINE U == {RingSize - t : t \in T}
<1>1. \A t \in T : t \in Int /\ RingSize - t \in Nat /\ RingSize \in Int
  BY RingAssumption DEF Position
<1>2. U \in SUBSET Nat /\ U # {}
  BY <1>1
<1>3. PICK u \in U : \A k \in U : u <= k
  BY <1>2, NatMin
<1>4. PICK m \in T : u = RingSize - m
  BY <1>3
<1>5. ASSUME NEW t \in T PROVE m >= t
  <2>1. u <= RingSize - t
    BY <1>3
  <2>2. QED
    BY <1>1, <1>4, <2>1
<1>6. m \in T /\ \A t \in T : m >= t
  BY <1>5
<1>7. T \in SUBSET Int
  BY <1>1
<1>8. Max(T) = m
  BY <1>6, <1>7, MaxIs
<1>9. QED
  BY <1>1, <1>6, <1>8

-----------------------------------------------------------------------------
(* Distances and places in a list *)

(* So do the distances of the peers.                                       *)
LEMMA DistShift ==
  ASSUME NEW at, Spread(at), NEW f \in Position, NEW g \in Position, NEW p \in Peer, NEW c \in Nat,
         \A y \in at[p] : clockwise(g, y) = c + clockwise(f, y)
  PROVE  dist(at, g, p) = c + dist(at, f, p)
<1>1. /\ dist(at, f, p) \in Nat
      /\ \E y \in at[p] : dist(at, f, p) = clockwise(f, y)
      /\ \A y \in at[p] : dist(at, f, p) <= clockwise(f, y)
  BY DistFacts
<1>2. /\ dist(at, g, p) \in Nat
      /\ \E y \in at[p] : dist(at, g, p) = clockwise(g, y)
      /\ \A y \in at[p] : dist(at, g, p) <= clockwise(g, y)
  BY DistFacts
<1>3. PICK y \in at[p] : dist(at, f, p) = clockwise(f, y)
  BY <1>1
<1>4. PICK z \in at[p] : dist(at, g, p) = clockwise(g, z)
  BY <1>2
<1>5. dist(at, g, p) <= c + dist(at, f, p)
  BY <1>2, <1>3
<1>6. dist(at, f, p) <= clockwise(f, z) /\ dist(at, g, p) = c + clockwise(f, z)
  BY <1>1, <1>4
<1>7. y \in Position /\ z \in Position
  BY DEF Spread
<1>8. clockwise(f, z) \in Nat
  BY <1>7, Clockwise
<1>9. QED
  BY <1>1, <1>2, <1>5, <1>6, <1>8

(* Only the peer at position f is at distance 0 from it.                   *)
LEMMA DistZero ==
  ASSUME NEW at, Spread(at), NEW f \in Position, NEW p \in Peer
  PROVE  dist(at, f, p) = 0 <=> f \in at[p]
<1>1. /\ dist(at, f, p) \in Nat
      /\ \E y \in at[p] : dist(at, f, p) = clockwise(f, y)
      /\ \A y \in at[p] : dist(at, f, p) <= clockwise(f, y)
  BY DistFacts
<1>2. f \in Int /\ RingSize \in Int /\ \A y \in Position : y \in Int /\ 0 <= y /\ y < RingSize
  BY RingAssumption DEF Position
<1>3. \A y \in at[p] : y \in Position
  BY DEF Spread
<1>4. ASSUME NEW y \in at[p] PROVE clockwise(f, y) = IF y >= f THEN y - f ELSE y - f + RingSize
  BY <1>3, Clockwise
<1>5. ASSUME f \in at[p] PROVE dist(at, f, p) = 0
  <2>1. dist(at, f, p) <= f - f
    BY <1>1, <1>2, <1>4, <1>5
  <2>2. QED
    BY <1>1, <1>2, <2>1
<1>6. ASSUME dist(at, f, p) = 0 PROVE f \in at[p]
  <2>1. PICK y \in at[p] : clockwise(f, y) = 0
    BY <1>1, <1>6
  <2>2. y \in Int /\ 0 <= y /\ y < RingSize /\ 0 <= f /\ f < RingSize
    BY <1>2, <1>3
  <2>3. (IF y >= f THEN y - f ELSE y - f + RingSize) = 0
    BY <1>4, <2>1
  <2>4. y = f
    BY <1>2, <2>2, <2>3
  <2>5. QED
    BY <2>4
<1>7. QED
  BY <1>5, <1>6

(* No two peers are at the same distance.                                  *)
LEMMA DistDistinct ==
  ASSUME NEW at, Spread(at), NEW f \in Position, NEW p \in Peer, NEW q \in Peer,
         dist(at, f, p) = dist(at, f, q)
  PROVE  p = q
<1>1. PICK y \in at[p] : dist(at, f, p) = clockwise(f, y)
  BY DistFacts
<1>2. PICK z \in at[q] : dist(at, f, q) = clockwise(f, z)
  BY DistFacts
<1>3. y \in Position /\ z \in Position
  BY DEF Spread
<1>4. f \in Int /\ RingSize \in Int /\ \A w \in Position : w \in Int /\ 0 <= w /\ w < RingSize
  BY RingAssumption DEF Position
<1>5. /\ clockwise(f, y) = IF y >= f THEN y - f ELSE y - f + RingSize
      /\ clockwise(f, z) = IF z >= f THEN z - f ELSE z - f + RingSize
  BY <1>3, Clockwise
<1>6. y = z
  <2>1. /\ y \in Int /\ 0 <= y /\ y < RingSize
        /\ z \in Int /\ 0 <= z /\ z < RingSize
        /\ f \in Int /\ 0 <= f /\ f < RingSize /\ RingSize \in Int
    BY <1>3, <1>4
  <2>2. clockwise(f, y) = clockwise(f, z)
    BY <1>1, <1>2
  <2>3. QED
    BY <1>5, <2>1, <2>2
<1>7. QED
  BY <1>6 DEF Spread

(* A peer is in the list where fewer than rf peers are nearer.             *)
LEMMA ListedPeers ==
  ASSUME NEW S \in SUBSET Peer, NEW at, Spread(at), NEW f \in Position, NEW rf \in Nat \ {0},
         NEW list, ClockwiseList(list, at, f, S, rf), NEW q \in S
  PROVE  q \in Range(list) <=> Cardinality(Before(at, f, S, q)) < rf
<1> DEFINE A == Before(at, f, S, q)
           k == Cardinality(A) + 1
<1>1. /\ list \in Seq(S) /\ Cardinality(S) \in Nat
      /\ Len(list) = IF Cardinality(S) <= rf THEN Cardinality(S) ELSE rf
      /\ \A i \in 1 .. Len(list) : Cardinality(Before(at, f, S, list[i])) = i - 1
  BY DEF ClockwiseList
<1>2. \A e : e \in Range(list) <=> \E i \in 1 .. Len(list) : e = list[i]
  BY <1>1, RangeFacts
<1>3. \A p \in S : dist(at, f, p) \in Nat
  BY DistFacts
<1>4. IsFiniteSet(S)
  BY RingAssumption, FS_Subset
<1>5. \A p \in S : IsFiniteSet(Before(at, f, S, p)) /\ Cardinality(Before(at, f, S, p)) \in Nat
  BY <1>4, FS_Subset, FS_CardinalityType DEF Before
<1>6. ASSUME NEW p \in S, NEW r \in S, dist(at, f, p) < dist(at, f, r)
      PROVE  Cardinality(Before(at, f, S, p)) < Cardinality(Before(at, f, S, r))
  <2>1. Before(at, f, S, p) \subseteq Before(at, f, S, r)
    BY <1>3, <1>6 DEF Before
  <2>2. p \in Before(at, f, S, r) /\ p \notin Before(at, f, S, p)
    BY <1>3, <1>6 DEF Before
  <2>3. Before(at, f, S, p) # Before(at, f, S, r)
    BY <2>2
  <2>4. /\ Cardinality(Before(at, f, S, p)) <= Cardinality(Before(at, f, S, r))
        /\ Cardinality(Before(at, f, S, p)) # Cardinality(Before(at, f, S, r))
    BY <1>5, <2>1, <2>3, FS_Subset
  <2>5. QED
    BY <1>5, <2>4
<1>7. ASSUME q \in Range(list) PROVE Cardinality(A) < rf
  <2>1. PICK i \in 1 .. Len(list) : q = list[i]
    BY <1>2, <1>7
  <2>2. Cardinality(A) = i - 1
    BY <1>1, <2>1
  <2>3. QED
    BY <1>1, <2>2
<1>8. ASSUME Cardinality(A) < rf PROVE q \in Range(list)
  <2>1. Cardinality(A) < Cardinality(S)
    <3>1. A \subseteq S /\ q \notin A
      BY <1>3 DEF Before
    <3>2. A # S
      BY <3>1
    <3>3. Cardinality(A) <= Cardinality(S) /\ Cardinality(A) # Cardinality(S)
      BY <1>4, <3>1, <3>2, FS_Subset
    <3>4. QED
      BY <1>1, <1>5, <3>3
  <2>2. k \in 1 .. Len(list)
    BY <1>1, <1>5, <1>8, <2>1
  <2>3. list[k] \in S /\ Cardinality(Before(at, f, S, list[k])) = Cardinality(A)
    BY <1>1, <1>5, <2>2
  <2>4. dist(at, f, list[k]) = dist(at, f, q)
    <3>1. ~ (dist(at, f, list[k]) < dist(at, f, q)) /\ ~ (dist(at, f, q) < dist(at, f, list[k]))
      BY <1>5, <1>6, <2>3
    <3>2. QED
      BY <1>3, <2>3, <3>1
  <2>5. list[k] = q
    BY <2>3, <2>4, DistDistinct
  <2>6. QED
    BY <1>2, <2>2, <2>5
<1>9. QED
  BY <1>7, <1>8
=============================================================================
