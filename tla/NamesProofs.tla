----------------------------- MODULE NamesProofs -----------------------------
(***************************************************************************)
(* Proofs about Names, for any number of tasks, clock and name space.      *)
(***************************************************************************)
EXTENDS Names, WellFoundedInduction, TLAPS

\* The counter says how many names there are, and the low part of each is its
\* place among them.
CountInv ==
    /\ counter = Len(minted)
    /\ \A i \in 1..Len(minted) :
          minted[i].number = Number(minted[i].millis, i - 1)

Inv == TypeOK /\ CountInv

Minted == [millis : Nat, number : Nat]

\* Two numbers with different low parts are different, whatever is above.
LEMMA LowPartsTell ==
    ASSUME NEW W \in Nat \ {0}, NEW h \in Nat, NEW k \in Nat,
           NEW a \in 0..W - 1, NEW b \in 0..W - 1, h * W + a = k * W + b
    PROVE  a = b
  <1>1. (h - k) * W = b - a
    <2>1. (h - k) * W = h * W - k * W
      OBVIOUS
    <2>2. h * W \in Int /\ k * W \in Int
      OBVIOUS
    <2> QED BY <2>1, <2>2
  <1>2. CASE h = k
    BY <1>1, <1>2
  <1>3. CASE h > k
    <2>1. h - k - 1 \in Nat
      BY <1>3
    <2>2. (h - k) * W = (h - k - 1) * W + W /\ (h - k - 1) * W \in Nat
      BY <2>1
    <2> QED BY <1>1, <2>2
  <1>4. CASE k > h
    <2>1. k - h - 1 \in Nat
      BY <1>4
    <2>2. (h - k) * W = -((k - h - 1) * W + W) /\ (k - h - 1) * W \in Nat
      BY <2>1
    <2> QED BY <1>1, <2>2
  <1> QED BY <1>2, <1>3, <1>4

\* Counts less than W apart have different remainders.
LEMMA NearCountsDiffer ==
    ASSUME NEW W \in Nat \ {0}, NEW i \in Nat, NEW j \in Nat, i < j, j - i < W
    PROVE  i % W # j % W
  <1> DEFINE p == i \div W
             q == j \div W
  <1>1. i = p * W + (i % W) /\ i % W \in 0..W - 1 /\ p \in Nat
    OBVIOUS
  <1>2. j = q * W + (j % W) /\ j % W \in 0..W - 1 /\ q \in Nat
    OBVIOUS
  <1> HIDE DEF p, q
  <1> SUFFICES ASSUME i % W = j % W PROVE FALSE
    OBVIOUS
  <1>3. p * W \in Nat /\ q * W \in Nat /\ q * W - p * W = j - i
    BY <1>1, <1>2
  <1>4. CASE q <= p
    <2>1. p - q \in Nat
      BY <1>1, <1>2, <1>4
    <2>2. p * W = q * W + (p - q) * W /\ (p - q) * W \in Nat
      BY <1>1, <1>2, <2>1
    <2> QED BY <1>3, <2>2
  <1>5. CASE q > p
    <2>1. q - p - 1 \in Nat
      BY <1>1, <1>2, <1>5
    <2>2. q * W = p * W + (q - p - 1) * W + W /\ (q - p - 1) * W \in Nat
      BY <1>1, <1>2, <2>1
    <2> QED BY <1>3, <2>2
  <1> QED BY <1>1, <1>2, <1>4, <1>5

\* A number is one a u64 can hold, and its low part is the count's.
LEMMA NumberFits ==
    ASSUME NEW ms \in Nat, NEW count \in Nat
    PROVE  /\ ms % Spans \in 0..Spans - 1
           /\ count % PerMillisecond \in 0..PerMillisecond - 1
           /\ Number(ms, count) \in Numbers /\ Number(ms, count) \in Nat
  <1> DEFINE h == ms % Spans
             l == count % PerMillisecond
             W == PerMillisecond
  <1>1. W \in Nat \ {0} /\ Spans \in Nat \ {0}
    BY NamesAssumption
  <1>2. h \in 0..Spans - 1 /\ l \in 0..W - 1
    BY <1>1
  <1> HIDE DEF h, l, W
  <1>3. h * W \in Nat /\ (Spans - 1 - h) * W \in Nat
    BY <1>1, <1>2
  <1>4. W * Spans = h * W + (Spans - 1 - h) * W + W
    BY <1>1, <1>2
  <1>5. h * W + l \in 0..W * Spans - 1
    BY <1>1, <1>2, <1>3, <1>4
  <1>6. h * W + l \in Nat
    BY <1>1, <1>2, <1>3
  <1> QED BY <1>2, <1>5, <1>6 DEF h, l, W, Number, Numbers

\* No clock and no name yet.
LEMMA InitHolds == Init => Inv
  BY DEF Init, Inv, TypeOK, CountInv

\* Every step keeps the types and the count.
LEMMA InvStep == Inv /\ [Next]_vars => Inv'
  <1> SUFFICES ASSUME Inv, [Next]_vars PROVE Inv'
    OBVIOUS
  <1>0. CASE UNCHANGED vars
    BY <1>0 DEF vars, Inv, TypeOK, CountInv
  <1>1. CASE Tick
    BY <1>1 DEF Tick, Inv, TypeOK, CountInv
  <1>2. ASSUME NEW t \in Tasks, Read(t) PROVE Inv'
    <2>1. (IF clock < 0 THEN 0 ELSE clock) \in Nat
      BY NamesAssumption DEF Inv, TypeOK, Clocks
    <2> QED BY <1>2, <2>1 DEF Read, Inv, TypeOK, CountInv
  <1>3. ASSUME NEW t \in Tasks, Count(t) PROVE Inv'
    <2> DEFINE new == [millis |-> millis[t], number |-> Number(millis[t], counter)]
    <2>1. /\ millis[t] \in Nat /\ counter \in Nat /\ counter = Len(minted)
          /\ minted \in Seq([millis : Nat, number : Nat])
      BY <1>3 DEF Count, Inv, TypeOK, CountInv
    <2>2. Number(millis[t], counter) \in Nat
      BY <2>1, NumberFits
    <2>3. minted' = Append(minted, new) /\ new \in [millis : Nat, number : Nat]
      BY <1>3, <2>1, <2>2 DEF Count
    <2>4. TypeOK'
      <3>1. minted' \in Seq([millis : Nat, number : Nat])
        BY <2>1, <2>3
      <3>2. clock' \in Clocks /\ counter' \in Nat /\ millis' \in [Tasks -> {-1} \cup Nat]
        BY <1>3, <2>1 DEF Count, Inv, TypeOK
      <3> QED BY <3>1, <3>2 DEF TypeOK
    <2>5. /\ Len(minted') = Len(minted) + 1 /\ minted'[Len(minted) + 1] = new
          /\ \A i \in 1..Len(minted) : minted'[i] = minted[i]
      BY <2>1, <2>3
    <2>6. counter' = Len(minted')
      BY <1>3, <2>1, <2>5 DEF Count
    <2>7. \A i \in 1..Len(minted') :
             minted'[i].number = Number(minted'[i].millis, i - 1)
      <3> SUFFICES ASSUME NEW i \in 1..Len(minted) + 1
                   PROVE  minted'[i].number = Number(minted'[i].millis, i - 1)
        BY <2>5
      <3>1. CASE i \in 1..Len(minted)
        BY <2>5, <3>1 DEF Inv, CountInv
      <3>2. CASE i = Len(minted) + 1
        BY <2>1, <2>5, <3>2
      <3> QED BY <2>1, <3>1, <3>2
    <2> QED BY <2>4, <2>6, <2>7 DEF Inv, CountInv
  <1> QED BY <1>0, <1>1, <1>2, <1>3 DEF Next

\* The invariant holds throughout.
THEOREM Invariance == Spec => []Inv
  <1> QED BY InitHolds, InvStep, PTL DEF Spec

\* Every state of the mint is well formed.
THEOREM TypesHold == Spec => []TypeOK
  <1>1. Inv => TypeOK
    BY DEF Inv
  <1> QED BY Invariance, <1>1, PTL

-----------------------------------------------------------------------------
(* Induction over sets of naturals, and what a recursive function computes. *)

\* Every set of naturals that is not empty has a least element.
LEMMA LeastOf ==
    ASSUME NEW T, T \subseteq Nat, T # {}
    PROVE  \E x \in T : \A y \in T : x <= y
  <1>1. IsWellFoundedOn(OpToRel(<, Nat), Nat)
    BY NatLessThanWellFounded
  <1>2. \A x, y \in Nat : x < y => <<x, y>> \in OpToRel(<, Nat)
    BY DEF OpToRel
  <1>3. PICK x \in T : \A y \in T : <<y, x>> \notin OpToRel(<, Nat)
    BY <1>1, WFMin, Zenon
  <1>4. \A y \in T : ~(y < x)
    BY <1>2, <1>3, Zenon
  <1> QED BY <1>4

\* Induction over a set.
LEMMA Inductive ==
    ASSUME NEW T, 0 \in T, \A n \in Nat : n \in T => n + 1 \in T
    PROVE  \A n \in Nat : n \in T
  <1> DEFINE M == {n \in Nat : n \notin T}
  <1> SUFFICES ASSUME M # {} PROVE FALSE
    OBVIOUS
  <1>1. PICK x \in M : \A y \in M : x <= y
    <2>1. M \subseteq Nat
      OBVIOUS
    <2> HIDE DEF M
    <2> QED BY <2>1, LeastOf, Zenon
  <1>2. x \in Nat \ {0} /\ x - 1 \in Nat /\ x \notin T
    BY <1>1
  <1>3. x - 1 \in T
    BY <1>1, <1>2
  <1>4. (x - 1) + 1 \in T
    BY <1>2, <1>3
  <1> QED BY <1>2, <1>4

\* The first n + 1 terms of what a recursion by one step computes.
Terms(p, n, a, step) ==
    /\ p \in [0..n -> Nat]
    /\ p[0] = a
    /\ \A i \in Nat : i < n => p[i + 1] = step[p[i]]

\* Every number of terms can be computed.
LEMMA TermsExist ==
    ASSUME NEW a \in Nat, NEW step \in [Nat -> Nat]
    PROVE  \A n \in Nat : \E p : Terms(p, n, a, step)
  <1> DEFINE T == {n \in Nat : \E p : Terms(p, n, a, step)}
  <1>1. 0 \in T
    <2>1. Terms([i \in 0..0 |-> a], 0, a, step)
      BY DEF Terms
    <2> QED BY <2>1
  <1>2. ASSUME NEW n \in Nat, n \in T PROVE n + 1 \in T
    <2>1. PICK p : Terms(p, n, a, step)
      BY <1>2
    <2> DEFINE q == [i \in 0..n + 1 |-> IF i = n + 1 THEN step[p[n]] ELSE p[i]]
    <2>2. p \in [0..n -> Nat] /\ p[n] \in Nat /\ p[0] = a
      BY <2>1 DEF Terms
    <2>3. q \in [0..n + 1 -> Nat] /\ q[0] = a
      <3>1. ASSUME NEW i \in 0..n + 1 PROVE q[i] \in Nat
        <4>1. step[p[n]] \in Nat
          BY <2>2
        <4>2. i # n + 1 => i \in 0..n
          BY <3>1
        <4> QED BY <2>2, <4>1, <4>2
      <3>2. q[0] = a
        BY <2>2
      <3> QED BY <3>1, <3>2
    <2>4. ASSUME NEW i \in Nat, i < n + 1 PROVE q[i + 1] = step[q[i]]
      <3>0. /\ i + 1 \in 0..n + 1 /\ i \in 0..n + 1 /\ i # n + 1 /\ q[i] = p[i]
        BY <2>4
      <3>1. CASE i = n
        BY <3>0, <3>1
      <3>2. CASE i < n
        <4>1. p[i + 1] = step[p[i]]
          <5>1. \A l \in Nat : l < n => p[l + 1] = step[p[l]]
            BY <2>1 DEF Terms
          <5> HIDE DEF q
          <5> QED BY <3>2, <5>1
        <4>2. i + 1 # n + 1
          BY <3>2
        <4> QED BY <3>0, <4>1, <4>2
      <3> QED BY <2>4, <3>1, <3>2
    <2>5. Terms(q, n + 1, a, step)
      <3> HIDE DEF q
      <3> QED BY <2>3, <2>4 DEF Terms
    <2> QED BY <2>5
  <1>3. \A n \in Nat : n \in T
    <2> HIDE DEF T
    <2> QED BY <1>1, <1>2, Inductive
  <1> QED BY <1>3

\* And always come out the same.
LEMMA TermsAgree ==
    ASSUME NEW a \in Nat, NEW step \in [Nat -> Nat],
           NEW n \in Nat, NEW m \in Nat, n <= m,
           NEW p, NEW q, Terms(p, n, a, step), Terms(q, m, a, step)
    PROVE  p[n] = q[n]
  <1> DEFINE T == {i \in Nat : i <= n => p[i] = q[i]}
  <1>1. 0 \in T
    BY DEF Terms
  <1>2. ASSUME NEW i \in Nat, i \in T PROVE i + 1 \in T
    <2> SUFFICES ASSUME i + 1 <= n PROVE p[i + 1] = q[i + 1]
      OBVIOUS
    <2>1. i < n /\ i < m /\ p[i] = q[i]
      BY <1>2
    <2> QED BY <2>1 DEF Terms
  <1>3. \A i \in Nat : i \in T
    <2> HIDE DEF T
    <2> QED BY <1>1, <1>2, Inductive
  <1> QED BY <1>3

\* A recursion by one step is a function on every number.
LEMMA Iterates ==
    ASSUME NEW a \in Nat, NEW step \in [Nat -> Nat]
    PROVE  \E r \in [Nat -> Nat] : r[0] = a /\ \A k \in Nat : r[k + 1] = step[r[k]]
  <1> DEFINE c == [n \in Nat |-> CHOOSE p : Terms(p, n, a, step)]
             r == [n \in Nat |-> c[n][n]]
  <1>1. \A n \in Nat : Terms(c[n], n, a, step)
    BY TermsExist
  <1> HIDE DEF c
  <1>2. r \in [Nat -> Nat]
    <2>1. ASSUME NEW n \in Nat PROVE c[n][n] \in Nat
      BY <1>1 DEF Terms
    <2> QED BY <2>1
  <1>3. r[0] = a
    BY <1>1 DEF Terms
  <1>4. ASSUME NEW k \in Nat PROVE r[k + 1] = step[r[k]]
    <2>1. /\ k + 1 \in Nat /\ k <= k + 1
          /\ Terms(c[k], k, a, step) /\ Terms(c[k + 1], k + 1, a, step)
      BY <1>1
    <2>2. c[k + 1][k + 1] = step[c[k + 1][k]]
      BY <2>1 DEF Terms
    <2>3. c[k][k] = c[k + 1][k]
      <3> HIDE DEF r
      <3> DEFINE p == c[k]
                 q == c[k + 1]
                 m == k + 1
      <3>1. m \in Nat /\ k <= m /\ Terms(p, k, a, step) /\ Terms(q, m, a, step)
        BY <2>1
      <3> HIDE DEF p, q, m
      <3>2. p[k] = q[k]
        BY <3>1, TermsAgree
      <3> QED BY <3>2 DEF p, q
    <2> QED BY <2>1, <2>2, <2>3
  <1> HIDE DEF r
  <1> QED BY <1>2, <1>3, <1>4
-----------------------------------------------------------------------------
(* The letters of a name.                                                  *)

\* What is left of a number: all of it before the first letter, and with each
\* letter written, what its division by the base leaves.
LEMMA LeftOver ==
    ASSUME NEW n \in Nat
    PROVE  /\ Rest(n) \in [Nat -> Nat]
           /\ Rest(n)[0] = n
           /\ \A k \in Nat : Rest(n)[k + 1] = Rest(n)[k] \div Base
  <1> DEFINE step == [m \in Nat |-> m \div Base]
             F == Rest(n)
  <1>1. Base \in Nat \ {0}
    BY NamesAssumption
  <1>2. step \in [Nat -> Nat]
    BY <1>1
  <1>3. PICK r \in [Nat -> Nat] : r[0] = n /\ \A k \in Nat : r[k + 1] = step[r[k]]
    <2> HIDE DEF step, F
    <2>1. \A a \in Nat, g \in [Nat -> Nat] :
             \E r \in [Nat -> Nat] : r[0] = a /\ \A k \in Nat : r[k + 1] = g[r[k]]
      BY Iterates
    <2> QED BY <1>2, <2>1
  <1>4. r = [w \in Nat |-> IF w = 0 THEN n ELSE r[w - 1] \div Base]
    <2>1. ASSUME NEW w \in Nat, w # 0 PROVE r[w] = r[w - 1] \div Base
      <3>1. w - 1 \in Nat /\ (w - 1) + 1 = w
        BY <2>1
      <3>2. r[w] = step[r[w - 1]]
        BY <1>3, <3>1
      <3> QED BY <3>1, <3>2
    <2> QED BY <1>3, <2>1
  <1>5. F = [w \in Nat |-> IF w = 0 THEN n ELSE F[w - 1] \div Base]
    BY <1>4, Zenon DEF Rest
  <1> HIDE DEF F
  <1>6. F[0] = n /\ \A k \in Nat : F[k + 1] = F[k] \div Base
    <2>1. ASSUME NEW k \in Nat PROVE F[k + 1] = F[k] \div Base
      <3>1. k + 1 \in Nat /\ k + 1 # 0 /\ (k + 1) - 1 = k
        OBVIOUS
      <3> QED BY <1>5, <3>1
    <2>2. F[0] = n
      BY <1>5
    <2> QED BY <2>1, <2>2
  <1>7. F \in [Nat -> Nat]
    <2> DEFINE T == {k \in Nat : F[k] \in Nat}
    <2>1. 0 \in T
      BY <1>6
    <2>2. ASSUME NEW k \in Nat, k \in T PROVE k + 1 \in T
      <3>1. F[k] \in Nat /\ F[k + 1] = F[k] \div Base
        BY <1>6, <2>2
      <3>2. \A m \in Nat : m \div Base \in Nat
        BY <1>1
      <3> QED BY <3>1, <3>2
    <2>3. \A k \in Nat : k \in T
      <3> HIDE DEF T
      <3> QED BY <2>1, <2>2, Inductive
    <2> QED BY <1>5, <2>3
  <1> QED BY <1>6, <1>7 DEF F

\* Quotients and remainders keep the order of numbers.
LEMMA DivisionOrders ==
    ASSUME NEW d \in Nat \ {0}, NEW x \in Nat, NEW y \in Nat
    PROVE  /\ x <= y => x \div d <= y \div d
           /\ x < y /\ x \div d = y \div d => x % d < y % d
  <1> DEFINE p == x \div d
             q == y \div d
  <1>1. x = p * d + (x % d) /\ x % d \in 0..d - 1 /\ p \in Nat
    OBVIOUS
  <1>2. y = q * d + (y % d) /\ y % d \in 0..d - 1 /\ q \in Nat
    OBVIOUS
  <1> HIDE DEF p, q
  <1>3. ASSUME p > q PROVE x > y
    <2>1. p - q - 1 \in Nat
      BY <1>1, <1>2, <1>3
    <2>2. p * d = q * d + (p - q - 1) * d + d /\ (p - q - 1) * d \in Nat /\ q * d \in Nat
      BY <1>1, <1>2, <2>1
    <2> QED BY <1>1, <1>2, <2>2
  <1>4. ASSUME x < y, p = q PROVE x % d < y % d
    <2>1. p * d \in Nat
      BY <1>1
    <2> QED BY <1>1, <1>2, <1>4, <2>1
  <1> QED BY <1>1, <1>2, <1>3, <1>4 DEF p, q

\* Names sort as the numbers they are of.
LEMMA EncodeOrders ==
    ASSUME NEW a \in Numbers, NEW b \in Numbers, a < b
    PROVE  Before(Encode(a), Encode(b))
  <1> DEFINE A == Rest(a)
             B == Rest(b)
             K == {k \in Nat : A[k] = B[k]}
  <1>0. Base \in Nat \ {0} /\ Width \in Nat /\ a \in Nat /\ b \in Nat
    BY NamesAssumption DEF Numbers
  <1>1. /\ A \in [Nat -> Nat] /\ A[0] = a /\ \A k \in Nat : A[k + 1] = A[k] \div Base
        /\ B \in [Nat -> Nat] /\ B[0] = b /\ \A k \in Nat : B[k + 1] = B[k] \div Base
    BY <1>0, LeftOver
  <1>2. A[Width] = B[Width]
    BY NamesAssumption
  <1>3. Encode(a) = [i \in 1..Width |-> A[Width - i] % Base]
    BY DEF Encode
  <1>4. Encode(b) = [i \in 1..Width |-> B[Width - i] % Base]
    BY DEF Encode
  <1> HIDE DEF A, B
  <1>5. \A k \in Nat : A[k] <= B[k]
    <2> DEFINE T == {k \in Nat : A[k] <= B[k]}
    <2>1. 0 \in T
      BY <1>0, <1>1
    <2>2. ASSUME NEW k \in Nat, k \in T PROVE k + 1 \in T
      <3>1. A[k] \in Nat /\ B[k] \in Nat /\ A[k] <= B[k]
        BY <1>1, <2>2
      <3>2. A[k] \div Base <= B[k] \div Base
        BY <1>0, <3>1, DivisionOrders
      <3> QED BY <1>1, <3>2
    <2>3. \A k \in Nat : k \in T
      <3> HIDE DEF T
      <3> QED BY <2>1, <2>2, Inductive
    <2> QED BY <2>3
  <1>6. PICK k \in K : \A l \in K : k <= l
    <2>1. K \subseteq Nat /\ Width \in K
      BY <1>0, <1>2
    <2> HIDE DEF K
    <2> QED BY <2>1, LeastOf
  <1> DEFINE j == k - 1
             p == Width - j
  <1>7. k \in Nat \ {0} /\ k <= Width /\ A[k] = B[k]
    <2>1. 0 \notin K
      BY <1>0, <1>1
    <2>2. Width \in K
      BY <1>0, <1>2
    <2> QED BY <1>0, <1>6, <2>1, <2>2
  <1>8. j \in Nat /\ j + 1 = k /\ p \in 1..Width /\ Width - p = j
    BY <1>0, <1>7
  <1>9. A[j] < B[j] /\ A[j] \in Nat /\ B[j] \in Nat
    <2>1. j \notin K
      BY <1>6, <1>7, <1>8
    <2>2. A[j] # B[j] /\ A[j] <= B[j] /\ A[j] \in Nat /\ B[j] \in Nat
      BY <1>1, <1>5, <1>8, <2>1
    <2> QED BY <2>2
  <1>10. A[j] % Base < B[j] % Base
    <2>1. A[j] \div Base = B[j] \div Base
      BY <1>1, <1>7, <1>8
    <2> QED BY <1>0, <1>9, <2>1, DivisionOrders
  <1>11. \A n \in Nat : A[k + n] = B[k + n]
    <2> DEFINE T == {n \in Nat : A[k + n] = B[k + n]}
    <2>1. 0 \in T
      BY <1>7
    <2>2. ASSUME NEW n \in Nat, n \in T PROVE n + 1 \in T
      <3>1. k + n \in Nat /\ k + (n + 1) = (k + n) + 1
        BY <1>7
      <3> QED BY <1>1, <2>2, <3>1
    <2>3. \A n \in Nat : n \in T
      <3> HIDE DEF T
      <3> QED BY <2>1, <2>2, Inductive
    <2> QED BY <2>3
  <1>12. Encode(a)[p] < Encode(b)[p]
    BY <1>3, <1>4, <1>8, <1>10
  <1>13. ASSUME NEW l \in 1..p - 1 PROVE Encode(a)[l] = Encode(b)[l]
    <2>1. l \in 1..Width /\ Width - l - k \in Nat /\ k + (Width - l - k) = Width - l
      BY <1>0, <1>7, <1>8
    <2>2. A[Width - l] = B[Width - l]
      BY <1>11, <2>1
    <2> QED BY <1>3, <1>4, <2>1, <2>2
  <1> HIDE DEF p
  <1> QED BY <1>8, <1>12, <1>13 DEF Before

\* No two numbers have one name.
LEMMA EncodeTells ==
    ASSUME NEW a \in Numbers, NEW b \in Numbers, Encode(a) = Encode(b)
    PROVE  a = b
  <1>1. ASSUME NEW x \in Numbers, NEW y \in Numbers, x < y, Encode(x) = Encode(y)
        PROVE  FALSE
    <2>1. PICK k \in 1..Width : Encode(x)[k] < Encode(x)[k]
      BY <1>1, EncodeOrders DEF Before
    <2>2. Encode(x)[k] \in Nat
      <3>1. x \in Nat /\ Base \in Nat \ {0} /\ Width - k \in Nat
        BY NamesAssumption DEF Numbers
      <3>2. Rest(x)[Width - k] \in Nat
        BY <3>1, LeftOver
      <3> QED BY <3>1, <3>2 DEF Encode
    <2> QED BY <2>1, <2>2
  <1>2. a \in Int /\ b \in Int
    BY DEF Numbers
  <1> QED BY <1>1, <1>2

-----------------------------------------------------------------------------
(* What names promise.                                                     *)

\* Names that were counted near each other are different names.
LEMMA CountedApart == Inv => NamesApart
  <1> SUFFICES ASSUME Inv, NEW i \in 1..Len(minted), NEW j \in 1..Len(minted),
                      i < j, j - i < PerMillisecond,
                      Encode(minted[i].number) = Encode(minted[j].number)
               PROVE  FALSE
    BY DEF NamesApart
  <1> DEFINE W == PerMillisecond
             x == minted[i]
             y == minted[j]
  <1>1. /\ W \in Nat \ {0} /\ Spans \in Nat \ {0}
        /\ i - 1 \in Nat /\ j - 1 \in Nat /\ i - 1 < j - 1 /\ (j - 1) - (i - 1) < W
    BY NamesAssumption DEF Inv, TypeOK
  <1>2. x.millis \in Nat /\ y.millis \in Nat
    <2>1. minted \in Seq(Minted)
      BY DEF Inv, TypeOK, Minted
    <2>2. \A n \in 1..Len(minted) : minted[n] \in Minted
      BY <2>1
    <2>3. \A f \in Minted : f.millis \in Nat
      BY DEF Minted
    <2> QED BY <2>2, <2>3
  <1>3. x.number = Number(x.millis, i - 1) /\ y.number = Number(y.millis, j - 1)
    BY DEF Inv, CountInv
  <1>4. x.number \in Numbers /\ y.number \in Numbers
    BY <1>1, <1>2, <1>3, NumberFits
  <1>5. x.number = y.number
    BY <1>4, EncodeTells
  <1> DEFINE h == x.millis % Spans
             k == y.millis % Spans
             a == (i - 1) % W
             b == (j - 1) % W
  <1>6. h \in Nat /\ k \in Nat /\ a \in 0..W - 1 /\ b \in 0..W - 1
    <2>1. h \in 0..Spans - 1 /\ k \in 0..Spans - 1
      BY <1>2, NumberFits
    <2>2. a \in 0..W - 1 /\ b \in 0..W - 1
      BY <1>1, NumberFits
    <2> QED BY <1>1, <2>1, <2>2
  <1>7. h * W + a = k * W + b
    BY <1>3, <1>5 DEF Number
  <1>8. a # b
    BY <1>1, NearCountsDiffer
  <1> HIDE DEF W, h, k, a, b
  <1> QED BY <1>1, <1>6, <1>7, <1>8, LowPartsTell

\* No name comes again until PerMillisecond others have been minted.
THEOREM NamesAreApart == Spec => []NamesApart
  <1> QED BY Invariance, CountedApart, PTL

\* A number below the divisor is its own remainder.
LEMMA SmallRemainder ==
    ASSUME NEW d \in Nat \ {0}, NEW n \in Nat, n < d
    PROVE  n % d = n
  <1> DEFINE q == n \div d
  <1>1. n = q * d + (n % d) /\ n % d \in 0..d - 1 /\ q \in Nat
    OBVIOUS
  <1> HIDE DEF q
  <1>2. ASSUME q # 0 PROVE FALSE
    <2>1. q - 1 \in Nat
      BY <1>1, <1>2
    <2>2. q * d = (q - 1) * d + d /\ (q - 1) * d \in Nat
      BY <1>1, <2>1
    <2> QED BY <1>1, <2>2
  <1>3. q * d = 0
    BY <1>2
  <1> QED BY <1>1, <1>3

\* The millisecond stands above the counter, and within one the counter tells.
LEMMA NumbersOrder ==
    ASSUME NEW x \in Nat, NEW y \in Nat, NEW i \in Nat, NEW j \in Nat,
           \/ x < y /\ y < Spans
           \/ x = y /\ i < j /\ i \div PerMillisecond = j \div PerMillisecond
    PROVE  Number(x, i) < Number(y, j)
  <1> DEFINE W == PerMillisecond
             h == x % Spans
             k == y % Spans
             a == i % W
             b == j % W
  <1>1. W \in Nat \ {0} /\ Spans \in Nat \ {0}
    BY NamesAssumption
  <1>2. a \in 0..W - 1 /\ b \in 0..W - 1 /\ h \in Nat /\ k \in Nat
    <2>1. h \in 0..Spans - 1 /\ k \in 0..Spans - 1
      BY NumberFits
    <2>2. a \in 0..W - 1 /\ b \in 0..W - 1
      BY NumberFits
    <2> QED BY <1>1, <2>1, <2>2
  <1>3. CASE x < y /\ y < Spans
    <2>1. h = x /\ k = y
      BY <1>1, <1>3, SmallRemainder
    <2>2. k - h - 1 \in Nat
      BY <1>2, <1>3, <2>1
    <2> HIDE DEF W, h, k, a, b
    <2>3. k * W = h * W + (k - h - 1) * W + W /\ (k - h - 1) * W \in Nat /\ h * W \in Nat
      BY <1>1, <1>2, <2>2
    <2>4. h * W + a < k * W + b
      BY <1>1, <1>2, <2>3
    <2> QED BY <2>4 DEF Number, W, h, k, a, b
  <1>4. CASE x = y /\ i < j /\ i \div W = j \div W
    <2>1. a < b /\ h = k
      BY <1>1, <1>4, DivisionOrders
    <2> HIDE DEF W, h, k, a, b
    <2>2. h * W \in Nat
      BY <1>1, <1>2
    <2>3. h * W + a < k * W + b
      BY <1>1, <1>2, <2>1, <2>2
    <2> QED BY <2>3 DEF Number, W, h, k, a, b
  <1> QED BY <1>3, <1>4

\* The order of two names is that of their milliseconds and places.
LEMMA CountedInOrder == Inv => NamesSort
  <1> SUFFICES ASSUME Inv, NEW i \in 1..Len(minted), NEW j \in 1..Len(minted),
                      \/ minted[i].millis < minted[j].millis /\ minted[j].millis < Spans
                      \/ /\ minted[i].millis = minted[j].millis /\ i < j
                         /\ (i - 1) \div PerMillisecond = (j - 1) \div PerMillisecond
               PROVE  Before(Encode(minted[i].number), Encode(minted[j].number))
    BY DEF NamesSort
  <1> DEFINE x == minted[i].millis
             y == minted[j].millis
  <1>1. /\ x \in Nat /\ y \in Nat /\ i - 1 \in Nat /\ j - 1 \in Nat
    <2>1. minted \in Seq(Minted)
      BY DEF Inv, TypeOK, Minted
    <2>2. \A n \in 1..Len(minted) : minted[n] \in Minted
      BY <2>1
    <2>3. \A f \in Minted : f.millis \in Nat
      BY DEF Minted
    <2>4. Len(minted) \in Nat
      BY <2>1
    <2> QED BY <2>2, <2>3, <2>4
  <1>2. minted[i].number = Number(x, i - 1) /\ minted[j].number = Number(y, j - 1)
    BY DEF Inv, CountInv
  <1> HIDE DEF x, y
  <1>3. Number(x, i - 1) \in Numbers /\ Number(y, j - 1) \in Numbers
    BY <1>1, NumberFits
  <1>4. Number(x, i - 1) < Number(y, j - 1)
    <2>1. \/ x < y /\ y < Spans
          \/ x = y /\ i - 1 < j - 1 /\ (i - 1) \div PerMillisecond = (j - 1) \div PerMillisecond
      BY <1>1 DEF x, y
    <2> QED BY <1>1, <2>1, NumbersOrder
  <1> QED BY <1>2, <1>3, <1>4, EncodeOrders

\* Names sort by when their scans started.
THEOREM NamesAreSorted == Spec => []NamesSort
  <1> QED BY Invariance, CountedInOrder, PTL

=============================================================================
