----------------------------- MODULE LoopProofs -----------------------------
(***************************************************************************)
(* Induction over the naturals, and the recursive functions that stand for *)
(* loops.  Induction is on the set of numbers that satisfy the claim, the  *)
(* loop's step a function of its number and of the state it finds.         *)
(***************************************************************************)
EXTENDS Integers, TLAPS, FiniteSetTheorems, WellFoundedInduction

(* A non-empty set of naturals has a least element.                        *)
LEMMA NatMin ==
  ASSUME NEW T \in SUBSET Nat, T # {}
  PROVE  \E m \in T : \A k \in T : m <= k
<1> DEFINE U == {0 .. k-1 : k \in T}
<1>1. IsWellFoundedOn(StrictSubsetOrdering(Nat), FiniteSubsetsOf(Nat))
  BY FS_StrictSubsetOrderingWellFounded
<1>2. U \subseteq FiniteSubsetsOf(Nat)
  <2>1. SUFFICES ASSUME NEW k \in T PROVE 0 .. k-1 \in FiniteSubsetsOf(Nat)
    OBVIOUS
  <2>2. IsFiniteSet(0 .. k-1)
    BY FS_Interval, k \in Int, k-1 \in Int
  <2>3. QED
    BY <2>2 DEF FiniteSubsetsOf
<1>3. U # {}
  OBVIOUS
<1> HIDE DEF U
<1>4. \E x \in U : \A y \in U : ~ (<<y, x>> \in StrictSubsetOrdering(Nat))
  BY <1>1, <1>2, <1>3, WFMin
<1>5. PICK m \in T : \A k \in T : ~ (<<0 .. k-1, 0 .. m-1>> \in StrictSubsetOrdering(Nat))
  BY <1>4 DEF U
<1>6. ASSUME NEW k \in T PROVE m <= k
  <2>1. SUFFICES ASSUME k < m PROVE FALSE
    OBVIOUS
  <2>2. 0 .. k-1 \subseteq 0 .. m-1 /\ k \in 0 .. m-1 /\ k \notin 0 .. k-1
    BY <2>1
  <2>3. <<0 .. k-1, 0 .. m-1>> \in StrictSubsetOrdering(Nat)
    BY <2>2 DEF StrictSubsetOrdering
  <2>4. QED
    BY <2>3, <1>5
<1>7. QED
  BY <1>6

(* A set of naturals that holds n when it holds all smaller numbers is Nat. *)
LEMMA NatStrongInduct ==
  ASSUME NEW A \in SUBSET Nat, \A n \in Nat : (\A k \in 0 .. n-1 : k \in A) => n \in A
  PROVE  A = Nat
<1> DEFINE T == Nat \ A
<1>1. ASSUME T # {} PROVE FALSE
  <2>1. PICK m \in T : \A k \in T : m <= k
    BY <1>1, NatMin
  <2>2. QED
    BY <2>1
<1>2. QED
  BY <1>1

(* Induction over the naturals, for a set instead of a predicate.          *)
LEMMA NatInduct ==
  ASSUME NEW A \in SUBSET Nat, 0 \in A, \A n \in Nat : n \in A => n+1 \in A
  PROVE  A = Nat
<1>1. ASSUME NEW n \in Nat, \A k \in 0 .. n-1 : k \in A PROVE n \in A
  <2>1. CASE n = 0
    BY <2>1
  <2>2. CASE n # 0
    <3>1. n-1 \in Nat /\ n-1 \in 0 .. n-1 /\ (n-1)+1 = n
      BY <2>2
    <3>2. QED
      BY <3>1, <1>1
  <2>3. QED
    BY <2>1, <2>2
<1>2. QED
  BY <1>1, NatStrongInduct

(* A loop of N steps: h records its states, g computes each from the last. *)
LoopSteps(N, S) == [(1 .. N) \X S -> S]

LoopStates(N, S, a, g, h) ==
  h \in [0 .. N -> S] /\ h[0] = a /\ \A i \in 1 .. N : h[i] = g[<<i, h[i-1]>>]

(* A loop of N steps from a has a function that records its states.        *)
LEMMA LoopExists ==
  ASSUME NEW N \in Nat, NEW S, NEW a \in S, NEW g \in LoopSteps(N, S)
  PROVE  \E h : LoopStates(N, S, a, g, h)
<1> USE DEF LoopSteps
<1> DEFINE P(n) == \E h \in [0 .. n -> S] :
                     h[0] = a /\ \A i \in 1 .. n : h[i] = g[<<i, h[i-1]>>]
<1>1. P(0)
  <2>1. [i \in 0 .. 0 |-> a] \in [0 .. 0 -> S] /\ [i \in 0 .. 0 |-> a][0] = a
    OBVIOUS
  <2>2. \A i \in 1 .. 0 : FALSE
    OBVIOUS
  <2>3. QED
    BY <2>1, <2>2
<1>2. ASSUME NEW m \in Nat \ {0}, m <= N, P(m-1) PROVE P(m)
  <2>1. PICK h \in [0 .. m-1 -> S] :
          h[0] = a /\ \A i \in 1 .. m-1 : h[i] = g[<<i, h[i-1]>>]
    BY <1>2
  <2> DEFINE h2 == [i \in 0 .. m |-> IF i = m THEN g[<<m, h[m-1]>>] ELSE h[i]]
  <2>2. g[<<m, h[m-1]>>] \in S
    <3>1. m-1 \in 0 .. m-1
      OBVIOUS
    <3>2. h[m-1] \in S
      BY <3>1
    <3>3. <<m, h[m-1]>> \in (1 .. N) \X S
      BY <3>2, <1>2
    <3>4. QED
      BY <3>3
  <2>3. h2 \in [0 .. m -> S]
    <3>1. ASSUME NEW i \in 0 .. m, i # m PROVE h[i] \in S
      <4>1. i \in 0 .. m-1
        BY <3>1
      <4>2. QED
        BY <4>1
    <3>2. QED
      BY <3>1, <2>2
  <2>4. h2[0] = a
    BY <2>1
  <2>5. ASSUME NEW i \in 1 .. m PROVE h2[i] = g[<<i, h2[i-1]>>]
    <3>1. i-1 \in 0 .. m /\ i-1 # m /\ i \in 0 .. m
      OBVIOUS
    <3>2. h2[i-1] = h[i-1]
      BY <3>1
    <3>3. CASE i = m
      BY <3>1, <3>2, <3>3
    <3>4. CASE i # m
      <4>1. i \in 1 .. m-1
        BY <3>4
      <4>2. QED
        BY <4>1, <3>1, <3>2, <2>1
    <3>5. QED
      BY <3>3, <3>4
  <2>6. QED
    BY <2>3, <2>4, <2>5
<1> HIDE DEF P
<1> DEFINE A == {n \in Nat : n <= N => P(n)}
<1>3. ASSUME NEW n \in Nat, n \in A PROVE n+1 \in A
  <2>1. n+1 \in Nat \ {0} /\ (n+1)-1 = n /\ (n+1 <= N => n <= N)
    OBVIOUS
  <2>2. n+1 <= N => P(n+1)
    BY <2>1, <1>2, <1>3
  <2>3. QED
    BY <2>1, <2>2
<1>4. A = Nat
  <2>1. 0 \in A
    BY <1>1
  <2>2. QED
    BY <2>1, <1>3, NatInduct
<1>5. P(N)
  BY <1>4
<1>6. QED
  BY <1>5 DEF P, LoopStates

(* What each step of a loop hands to the next, every state of it has.      *)
LEMMA LoopInvariant ==
  ASSUME NEW N \in Nat, NEW I, NEW h, h[0] \in I[0],
         \A i \in 1 .. N : h[i-1] \in I[i-1] => h[i] \in I[i]
  PROVE  \A i \in 0 .. N : h[i] \in I[i]
<1> DEFINE A == {n \in Nat : n <= N => h[n] \in I[n]}
<1>1. ASSUME NEW n \in Nat, n \in A PROVE n+1 \in A
  <2>1. SUFFICES ASSUME n+1 <= N PROVE h[n+1] \in I[n+1]
    OBVIOUS
  <2>2. n+1 \in 1 .. N /\ (n+1)-1 = n /\ n <= N
    BY <2>1
  <2>3. QED
    BY <2>2, <1>1
<1>2. A = Nat
  BY <1>1, NatInduct
<1>3. QED
  BY <1>2

(* The sets I hold the states of a loop with step F: I[i] after i steps.   *)
StepsKeep(N, U, I, F) ==
  /\ \A i \in 0 .. N : I[i] \subseteq U
  /\ \A i \in 1 .. N : \A r \in I[i-1] : F[<<i, r>>] \in I[i]

StatesKept(N, I, a, F, h) ==
  /\ DOMAIN h = 0 .. N /\ h[0] = a
  /\ \A i \in 1 .. N : h[i] = F[<<i, h[i-1]>>]
  /\ \A i \in 0 .. N : h[i] \in I[i]
  /\ h = [i \in 0 .. N |-> h[i]]

(* The function of a loop whose step keeps the invariant sets I exists.    *)
LEMMA LoopFunction ==
  ASSUME NEW N \in Nat, NEW U, NEW I, NEW a \in I[0], NEW F, StepsKeep(N, U, I, F)
  PROVE  \E h : StatesKept(N, I, a, F, h)
<1> DEFINE g == [w \in (1 .. N) \X U |-> IF w[2] \in I[w[1]-1] THEN F[w] ELSE a]
<1>0. /\ \A i \in 0 .. N : I[i] \subseteq U
      /\ \A i \in 1 .. N : \A r \in I[i-1] : F[<<i, r>>] \in I[i]
  BY DEF StepsKeep
<1>1. a \in U /\ g \in [(1 .. N) \X U -> U]
  <2>1. a \in U
    BY <1>0, 0 \in 0 .. N
  <2>2. ASSUME NEW w \in (1 .. N) \X U, w[2] \in I[w[1]-1] PROVE F[w] \in U
    <3>1. w[1] \in 1 .. N /\ w[1] \in 0 .. N /\ w = <<w[1], w[2]>>
      OBVIOUS
    <3>2. F[<<w[1], w[2]>>] \in I[w[1]]
      BY <1>0, <3>1, <2>2
    <3>3. QED
      BY <1>0, <3>1, <3>2
  <2>3. QED
    BY <2>1, <2>2
<1> HIDE DEF g
<1>2. PICK h \in [0 .. N -> U] : h[0] = a /\ \A i \in 1 .. N : h[i] = g[<<i, h[i-1]>>]
  <2>1. g \in LoopSteps(N, U)
    BY <1>1 DEF LoopSteps
  <2>2. PICK h : LoopStates(N, U, a, g, h)
    BY <1>1, <2>1, LoopExists
  <2>3. QED
    BY <2>2 DEF LoopStates
<1>3. ASSUME NEW i \in 1 .. N, h[i-1] \in I[i-1]
      PROVE  h[i] = F[<<i, h[i-1]>>] /\ h[i] \in I[i]
  <2>1. i-1 \in 0 .. N
    OBVIOUS
  <2>2. h[i-1] \in U
    BY <2>1
  <2>3. <<i, h[i-1]>> \in (1 .. N) \X U /\ <<i, h[i-1]>>[1] = i /\ <<i, h[i-1]>>[2] = h[i-1]
    BY <2>2
  <2>4. g[<<i, h[i-1]>>] = F[<<i, h[i-1]>>]
    BY <2>3, <1>3 DEF g
  <2>5. QED
    BY <2>4, <1>0, <1>2, <1>3
<1>4. \A i \in 0 .. N : h[i] \in I[i]
  BY <1>2, <1>3, LoopInvariant
<1>5. \A i \in 1 .. N : i-1 \in 0 .. N
  OBVIOUS
<1>6. QED
  BY <1>2, <1>3, <1>4, <1>5 DEF StatesKept
=============================================================================
