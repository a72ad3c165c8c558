------------------------- MODULE MethodDispatch_proofs -------------------------
(***************************************************************************)
(* Proofs about methods and channels, for every set of providers and of    *)
(* priorities and any number of calls.                                     *)
(***************************************************************************)
EXTENDS MethodDispatch, SequenceTheorems, NaturalsInduction,
        WellFoundedInduction, TLAPS

\* By the priorities pr, s is in the order of calls, each provider once.
InOrder(s, pr) ==
  \A i, j \in 1 .. Len(s) : i < j => s[i] # s[j] /\ pr[s[i]] <= pr[s[j]]

\* Everything of s comes before everything of r.
Before(s, r, pr) ==
  \A p \in ToSet(s), q \in ToSet(r) : p # q /\ pr[p] <= pr[q]

\* The publications of s may have been handed on in the order of s.
InTurn(s) == \A i, j \in 1 .. Len(s) : i < j => MayPrecede(s[i], s[j])

(* What is registered and what the current call goes through: it has run   *)
(* the lower part of an ordered list and has the upper part still to run.  *)
Ordered ==
  /\ InOrder(providers, priority) /\ InOrder(iterating, priority)
  /\ InOrder(ran, priority) /\ Before(ran, iterating, priority)
  /\ ToSet(providers) \cup ToSet(offered) \subseteq used
  /\ Len(ran) + Len(iterating) <= Len(offered)

Open == outcome \in {NoOutcome, Failed}

(* How far each policy is with its call.                                   *)
Progress ==
  /\ iterating # Idle => outcome = NoOutcome
  /\ calls > 0 /\ iterating = Idle /\ ~IsChannel => outcome # NoOutcome
  /\ policy = "first_success" =>
       IF Open THEN threw = ToSet(ran)
       ELSE /\ ran # <<>> /\ outcome = Returned(Last(ran))
            /\ threw = ToSet(Front(ran))
  /\ policy = "first_provider" => Len(ran) <= 1 /\ (iterating # Idle => ran = <<>>)
  /\ policy # "first_provider" /\ Open =>
       ToSet(offered) \cap ToSet(providers) \subseteq ToSet(ran) \cup ToSet(iterating)

\* The handler of m has run, and those that have still to may come behind it.
HasRun(m) ==
  /\ m \in 1 .. calls /\ seen[m] <= calls /\ m \notin pending
  /\ \A n \in pending : MayPrecede(m, n)

(* The publications: those received have run in their turn, ahead of those *)
(* whose handler has still to; the one that is being handed on is behind   *)
(* what those who wait for it have received.                               *)
Published ==
  /\ \A p \in Providers : InTurn(received[p])
  /\ \A p \in Providers : \A m \in ToSet(received[p]) : HasRun(m)
  /\ running # 0 => HasRun(running)
  /\ IsChannel =>
       \A p \in ToSet(iterating) : \A m \in ToSet(received[p]) : MayPrecede(m, running)
  /\ IsChannel /\ iterating # Idle => running > 0
  /\ pending \subseteq 1 .. calls /\ visible <= calls
  /\ \A p \in Providers : joined[p] <= calls

(* Of the publications since it subscribed a subscriber has received all   *)
(* but those.                                                              *)
NoneMissed ==
  IsChannel =>
    \A p \in ToSet(providers) : \A n \in joined[p] + 1 .. calls :
      \/ n \in ToSet(received[p]) \cup pending
      \/ n = running /\ p \in ToSet(iterating)

IInv == TypeOK /\ Ordered /\ Progress /\ Published /\ NoneMissed

-----------------------------------------------------------------------------
(* Lemmas about sequences                                                  *)

LEMMA LeastElement ==
  ASSUME NEW T \in SUBSET Nat, T # {}
  PROVE  \E x \in T : \A y \in T : x <= y
<1> DEFINE R == OpToRel(<, Nat)
<1>1. IsWellFoundedOn(R, Nat)
  BY NatLessThanWellFounded, Zenon
<1>2. \A x, y \in Nat : x < y => <<x, y>> \in R
  BY DEF OpToRel
<1> HIDE DEF R
<1>3. PICK x \in T : \A y \in T : ~(<<y, x>> \in R)
  BY <1>1, WFMin
<1>4. \A y \in T : ~(y < x)
  BY <1>2, <1>3
<1> QED
  BY <1>3, <1>4

LEMMA ToSetFacts ==
  ASSUME NEW S, NEW s \in Seq(S)
  PROVE  /\ ToSet(s) \subseteq S
         /\ \A x : x \in ToSet(s) <=> \E i \in 1 .. Len(s) : s[i] = x
         /\ ToSet(s) = {} <=> s = <<>>
<1>1. DOMAIN s = 1 .. Len(s)
  OBVIOUS
<1>2. \A x : x \in ToSet(s) <=> \E i \in 1 .. Len(s) : s[i] = x
  BY <1>1 DEF ToSet
<1>3. ToSet(s) \subseteq S
  BY <1>2, ElementOfSeq
<1>4. ASSUME s # <<>>
      PROVE  s[1] \in ToSet(s)
  BY <1>2, <1>4, EmptySeq
<1>5. ASSUME s = <<>>
      PROVE  ToSet(s) = {}
  BY <1>2, <1>5
<1> QED
  BY <1>2, <1>3, <1>4, <1>5

LEMMA ConcatElements ==
  ASSUME NEW S, NEW s \in Seq(S), NEW t \in Seq(S),
         NEW m, m = Len(s), NEW k, k = Len(t), NEW r, r = s \o t
  PROVE  /\ r \in Seq(S) /\ Len(r) = m + k
         /\ \A j \in 1 .. m : r[j] = s[j]
         /\ \A j \in 1 .. k : r[m + j] = t[j]
<1>1. /\ r \in Seq(S) /\ Len(r) = m + k
      /\ \A j \in 1 .. m + k : r[j] = IF j <= m THEN s[j] ELSE t[j - m]
  BY ConcatProperties
<1>2. m \in Nat /\ k \in Nat
  OBVIOUS
<1>3. ASSUME NEW j \in 1 .. m
      PROVE  r[j] = s[j]
  BY <1>1, <1>2
<1>4. ASSUME NEW j \in 1 .. k
      PROVE  r[m + j] = t[j]
  <2>1. m + j \in 1 .. m + k /\ ~(m + j <= m) /\ m + j - m = j
    BY <1>2
  <2> QED
    BY <1>1, <2>1
<1> QED
  BY <1>1, <1>3, <1>4

\* r is s, of length n, with e in front of what was at i.
IsInserted(r, S, s, n, i, e) ==
  /\ r \in Seq(S) /\ Len(r) = n + 1
  /\ \A j \in 1 .. n + 1 :
       r[j] = IF j < i THEN s[j] ELSE IF j = i THEN e ELSE s[j - 1]

LEMMA InsertAtFacts ==
  ASSUME NEW S, NEW s \in Seq(S), NEW e \in S, NEW n, n = Len(s),
         NEW i \in 1 .. n + 1, NEW r, r = InsertAt(s, i, e)
  PROVE  IsInserted(r, S, s, n, i, e)
<1> DEFINE low == SubSeq(s, 1, i - 1)
           high == SubSeq(s, i, n)
<1>0. n \in Nat /\ i \in Nat /\ i >= 1 /\ i <= n + 1
  OBVIOUS
<1>1. /\ low \in Seq(S) /\ Len(low) = i - 1
      /\ \A j \in 1 .. i - 1 : low[j] = s[j]
  BY <1>0
<1>2. /\ high \in Seq(S) /\ Len(high) = n - i + 1
      /\ \A j \in 1 .. n - i + 1 : high[j] = s[i + j - 1]
  BY <1>0
<1>3. /\ <<e>> \in Seq(S) /\ Len(<<e>>) = 1 /\ <<e>>[1] = e
  OBVIOUS
<1>4. r = (low \o <<e>>) \o high
  BY DEF InsertAt
<1> HIDE DEF low, high
<1> DEFINE lower == low \o <<e>>
           l == i - 1
<1>l. /\ l = Len(low) /\ 1 = Len(<<e>>) /\ lower = low \o <<e>>
      /\ low \in Seq(S) /\ <<e>> \in Seq(S)
  BY <1>1, <1>3
<1> HIDE DEF lower, l
<1>5a. /\ lower \in Seq(S) /\ Len(lower) = l + 1
       /\ \A j \in 1 .. l : lower[j] = low[j]
       /\ \A j \in 1 .. 1 : lower[l + j] = <<e>>[j]
  BY <1>l, ConcatElements
<1>5. /\ lower \in Seq(S) /\ Len(lower) = i
      /\ \A j \in 1 .. i - 1 : lower[j] = s[j]
      /\ lower[i] = e
  <2>1. l + 1 = i /\ 1 \in 1 .. 1
    BY <1>0 DEF l
  <2>2. lower[l + 1] = e
    BY <1>3, <1>5a, <2>1
  <2>3. \A j \in 1 .. i - 1 : lower[j] = s[j]
    BY <1>1, <1>5a DEF l
  <2> QED
    BY <1>5a, <2>1, <2>2, <2>3
<1> DEFINE m == i
           k == n - i + 1
<1>k. lower \in Seq(S) /\ high \in Seq(S) /\ m = Len(lower) /\ k = Len(high)
  BY <1>2, <1>5 DEF lower
<1>r. r = lower \o high
  BY <1>4 DEF lower
<1> HIDE DEF m, k
<1>6. /\ r \in Seq(S) /\ Len(r) = m + k
      /\ \A j \in 1 .. m : r[j] = lower[j]
      /\ \A j \in 1 .. k : r[m + j] = high[j]
  BY <1>k, <1>r, ConcatElements
<1>7. r \in Seq(S) /\ Len(r) = n + 1
  BY <1>0, <1>6 DEF m, k
<1>8. ASSUME NEW j \in 1 .. n + 1
      PROVE  r[j] = IF j < i THEN s[j] ELSE IF j = i THEN e ELSE s[j - 1]
  <2>1. CASE j < i
    <3>1. j \in 1 .. i /\ j \in 1 .. i - 1
      BY <1>0, <2>1
    <3> QED
      BY <1>5, <1>6, <2>1, <3>1 DEF lower, m
  <2>2. CASE j = i
    <3>1. i \in 1 .. i /\ ~(j < i)
      BY <1>0, <2>2
    <3> QED
      BY <1>5, <1>6, <2>2, <3>1 DEF lower, m
  <2>3. CASE j > i
    <3>1. /\ j - i \in 1 .. n - i + 1 /\ i + (j - i) = j
          /\ i + (j - i) - 1 = j - 1 /\ ~(j < i) /\ j # i
      BY <1>0, <2>3
    <3>2. r[j] = high[j - i]
      BY <1>6, <3>1 DEF m, k
    <3>3. high[j - i] = s[j - 1]
      BY <1>2, <3>1
    <3> QED
      BY <3>1, <3>2, <3>3
  <2>4. j < i \/ j = i \/ j > i
    BY <1>0
  <2> QED
    BY <2>1, <2>2, <2>3, <2>4
<1> QED
  BY <1>7, <1>8 DEF IsInserted

\* r is s, of length n, without what was at i.
IsRemoved(r, S, s, n, i) ==
  /\ r \in Seq(S) /\ Len(r) = n - 1
  /\ \A j \in 1 .. n - 1 : r[j] = IF j < i THEN s[j] ELSE s[j + 1]

LEMMA RemoveAtFacts ==
  ASSUME NEW S, NEW s \in Seq(S), NEW n, n = Len(s), NEW i \in 1 .. n,
         NEW r, r = RemoveAt(s, i)
  PROVE  IsRemoved(r, S, s, n, i)
<1> DEFINE low == SubSeq(s, 1, i - 1)
           high == SubSeq(s, i + 1, n)
<1>0. n \in Nat /\ i \in Nat /\ i >= 1 /\ i <= n
  OBVIOUS
<1>1. /\ low \in Seq(S) /\ Len(low) = i - 1
      /\ \A j \in 1 .. i - 1 : low[j] = s[j]
  BY <1>0
<1>2. /\ high \in Seq(S) /\ Len(high) = n - i
      /\ \A j \in 1 .. n - i : high[j] = s[i + j]
  BY <1>0
<1>3. r = low \o high
  BY DEF RemoveAt
<1> HIDE DEF low, high
<1> DEFINE m == i - 1
           k == n - i
<1>k. low \in Seq(S) /\ high \in Seq(S) /\ m = Len(low) /\ k = Len(high)
  BY <1>1, <1>2
<1> HIDE DEF m, k
<1>4. /\ r \in Seq(S) /\ Len(r) = m + k
      /\ \A j \in 1 .. m : r[j] = low[j]
      /\ \A j \in 1 .. k : r[m + j] = high[j]
  BY <1>k, <1>3, ConcatElements
<1>5. r \in Seq(S) /\ Len(r) = n - 1
  BY <1>0, <1>4 DEF m, k
<1>6. ASSUME NEW j \in 1 .. n - 1
      PROVE  r[j] = IF j < i THEN s[j] ELSE s[j + 1]
  <2>1. CASE j < i
    <3>1. j \in 1 .. i - 1
      BY <1>0, <2>1
    <3> QED
      BY <1>1, <1>4, <2>1, <3>1 DEF m
  <2>2. CASE ~(j < i)
    <3>1. j - i + 1 \in 1 .. k /\ m + (j - i + 1) = j
      BY <1>0, <2>2 DEF m, k
    <3>2. r[j] = high[j - i + 1]
      BY <1>4, <3>1
    <3>3. j - i + 1 \in 1 .. n - i /\ i + (j - i + 1) = j + 1
      BY <1>0, <2>2
    <3>4. high[j - i + 1] = s[j + 1]
      BY <1>2, <3>3
    <3> QED
      BY <2>2, <3>2, <3>4
  <2> QED
    BY <2>1, <2>2
<1> QED
  BY <1>5, <1>6 DEF IsRemoved

\* By pr, e may be put into s, of length n, at i.
IsPlace(i, s, n, e, pr) ==
  /\ i \in 1 .. n + 1 /\ \A j \in 1 .. i - 1 : pr[s[j]] <= pr[e]
  /\ i <= n => ~(pr[s[i]] <= pr[e])

\* r consists of the elements of T, in the order of pr.
IsOrdered(r, S, pr, T) == r \in Seq(S) /\ InOrder(r, pr) /\ ToSet(r) = T

(* A new provider goes between those called before it and those behind.    *)
LEMMA InsertInOrder ==
  ASSUME NEW S, NEW s \in Seq(S), NEW e \in S, NEW pr \in [S -> Int],
         InOrder(s, pr), e \notin ToSet(s), NEW n, n = Len(s),
         NEW i, IsPlace(i, s, n, e, pr)
  PROVE  IsOrdered(InsertAt(s, i, e), S, pr, ToSet(s) \cup {e})
<1>p. /\ i \in 1 .. n + 1 /\ \A j \in 1 .. i - 1 : pr[s[j]] <= pr[e]
      /\ i <= n => ~(pr[s[i]] <= pr[e])
  BY DEF IsPlace
<1> DEFINE r == InsertAt(s, i, e)
<1>0. n \in Nat /\ i \in Nat /\ i >= 1 /\ i <= n + 1
  BY <1>p
<1>r. r = InsertAt(s, i, e)
  OBVIOUS
<1> HIDE DEF r
<1>1. /\ r \in Seq(S) /\ Len(r) = n + 1
      /\ \A j \in 1 .. n + 1 :
           r[j] = IF j < i THEN s[j] ELSE IF j = i THEN e ELSE s[j - 1]
  <2>1. IsInserted(r, S, s, n, i, e)
    BY <1>p, <1>r, InsertAtFacts
  <2> QED
    BY <2>1 DEF IsInserted
<1>2. \A x : x \in ToSet(s) <=> \E j \in 1 .. n : s[j] = x
  BY ToSetFacts
<1>3. \A x : x \in ToSet(r) <=> \E j \in 1 .. n + 1 : r[j] = x
  BY <1>1, ToSetFacts
<1>4. \A j \in 1 .. n : s[j] # e /\ s[j] \in S /\ pr[s[j]] \in Int
  BY <1>2, ElementOfSeq
<1>5. pr[e] \in Int
  OBVIOUS
<1>6. \A j, k \in 1 .. n : j < k => s[j] # s[k] /\ pr[s[j]] <= pr[s[k]]
  BY DEF InOrder
<1>7. \A k \in 1 .. n : k >= i => pr[e] <= pr[s[k]]
  <2> SUFFICES ASSUME NEW k \in 1 .. n, k >= i PROVE pr[e] <= pr[s[k]]
    OBVIOUS
  <2>1. i \in 1 .. n /\ i <= n
    BY <1>0
  <2>2. pr[s[i]] <= pr[s[k]]
    <3>1. CASE i = k
      BY <1>4, <3>1
    <3>2. CASE i < k
      BY <1>6, <2>1, <3>2
    <3> QED
      BY <1>0, <3>1, <3>2
  <2>3. pr[e] < pr[s[i]]
    BY <1>p, <1>4, <1>5, <2>1
  <2>4. pr[s[i]] \in Int /\ pr[s[k]] \in Int
    BY <1>4, <2>1
  <2> QED
    BY <1>5, <2>2, <2>3, <2>4
<1>8. ASSUME NEW j \in 1 .. n + 1, NEW k \in 1 .. n + 1, j < k
      PROVE  r[j] # r[k] /\ pr[r[j]] <= pr[r[k]]
  <2>1. CASE k < i
    <3>1. j \in 1 .. n /\ k \in 1 .. n /\ j < i
      BY <1>0, <1>8, <2>1
    <3> QED
      BY <1>1, <1>6, <1>8, <2>1, <3>1
  <2>2. CASE k = i
    <3>1. j \in 1 .. n /\ j < i /\ j \in 1 .. i - 1 /\ ~(k < i)
      BY <1>0, <1>8, <2>2
    <3>2. r[j] = s[j] /\ r[k] = e
      BY <1>1, <2>2, <3>1
    <3>3. s[j] # e /\ pr[s[j]] <= pr[e]
      BY <1>p, <1>4, <3>1
    <3> QED
      BY <3>2, <3>3
  <2>3. CASE k > i
    <3>1. k - 1 \in 1 .. n /\ k - 1 >= i
      BY <1>0, <2>3
    <3>2. r[k] = s[k - 1]
      BY <1>0, <1>1, <2>3
    <3>3. CASE j < i
      <4>1. j \in 1 .. n /\ j < k - 1 /\ r[j] = s[j]
        BY <1>0, <1>1, <2>3, <3>3
      <4> QED
        BY <1>6, <3>1, <3>2, <4>1
    <3>4. CASE j = i
      <4>1. r[j] = e
        BY <1>1, <3>4
      <4> QED
        BY <1>4, <1>7, <3>1, <3>2, <4>1
    <3>5. CASE j > i
      <4>1. j - 1 \in 1 .. n /\ j - 1 < k - 1
        BY <1>0, <1>8, <3>5
      <4>2. r[j] = s[j - 1]
        <5>1. j \in 1 .. n + 1 /\ ~(j < i) /\ j # i
          BY <1>0, <3>5
        <5> QED
          BY <1>1, <5>1
      <4> QED
        BY <1>6, <3>1, <3>2, <4>1, <4>2
    <3> QED
      BY <1>0, <3>3, <3>4, <3>5
  <2> QED
    BY <1>0, <2>1, <2>2, <2>3
<1>9. InOrder(r, pr)
  BY <1>1, <1>8 DEF InOrder
<1>10. ToSet(r) = ToSet(s) \cup {e}
  <2>1. ASSUME NEW j \in 1 .. n + 1
        PROVE  r[j] \in ToSet(s) \cup {e}
    <3>1. CASE j < i
      <4>1. j \in 1 .. n
        BY <1>0, <3>1
      <4> QED
        BY <1>1, <1>2, <3>1, <4>1
    <3>2. CASE j = i
      BY <1>1, <3>2
    <3>3. CASE j > i
      <4>1. j - 1 \in 1 .. n
        BY <1>0, <3>3
      <4>2. r[j] = s[j - 1]
        BY <1>0, <1>1, <3>3
      <4> QED
        BY <1>2, <4>1, <4>2
    <3> QED
      BY <1>0, <3>1, <3>2, <3>3
  <2>2. e \in ToSet(r)
    <3>1. i \in 1 .. n + 1 /\ r[i] = e
      BY <1>0, <1>1
    <3> QED
      BY <1>3, <3>1
  <2>3. ASSUME NEW j \in 1 .. n
        PROVE  s[j] \in ToSet(r)
    <3>1. CASE j < i
      <4>1. j \in 1 .. n + 1 /\ r[j] = s[j]
        BY <1>0, <1>1, <3>1
      <4> QED
        BY <1>3, <4>1
    <3>2. CASE ~(j < i)
      <4>1. j + 1 \in 1 .. n + 1 /\ ~(j + 1 < i) /\ j + 1 # i /\ j + 1 - 1 = j
        BY <1>0, <3>2
      <4>2. r[j + 1] = s[j]
        BY <1>1, <4>1
      <4> QED
        BY <1>3, <4>1, <4>2
    <3> QED
      BY <3>1, <3>2
  <2> QED
    BY <1>2, <1>3, <2>1, <2>2, <2>3
<1> QED
  BY <1>1, <1>9, <1>10 DEF r, IsOrdered

(* Taking one provider out leaves the others in their order.               *)
LEMMA RemoveInOrder ==
  ASSUME NEW S, NEW s \in Seq(S), NEW pr \in [S -> Int], InOrder(s, pr),
         NEW i \in 1 .. Len(s)
  PROVE  /\ RemoveAt(s, i) \in Seq(S) /\ Len(RemoveAt(s, i)) <= Len(s)
         /\ InOrder(RemoveAt(s, i), pr)
         /\ ToSet(RemoveAt(s, i)) = ToSet(s) \ {s[i]}
<1> DEFINE n == Len(s)
           r == RemoveAt(s, i)
<1>n. n = Len(s) /\ i \in 1 .. n /\ r = RemoveAt(s, i)
  OBVIOUS
<1> HIDE DEF n, r
<1>0. n \in Nat /\ i \in Nat /\ i >= 1 /\ i <= n
  BY <1>n
<1>1. /\ r \in Seq(S) /\ Len(r) = n - 1
      /\ \A j \in 1 .. n - 1 : r[j] = IF j < i THEN s[j] ELSE s[j + 1]
  <2>1. IsRemoved(r, S, s, n, i)
    BY <1>n, RemoveAtFacts
  <2> QED
    BY <2>1 DEF IsRemoved
<1>2. \A x : x \in ToSet(s) <=> \E j \in 1 .. n : s[j] = x
  BY <1>n, ToSetFacts
<1>3. \A x : x \in ToSet(r) <=> \E j \in 1 .. n - 1 : r[j] = x
  BY <1>1, ToSetFacts
<1>4. \A j, k \in 1 .. n : j < k => s[j] # s[k] /\ pr[s[j]] <= pr[s[k]]
  BY <1>n DEF InOrder
<1>5. \A j \in 1 .. n - 1 : j < i => j \in 1 .. n /\ r[j] = s[j]
  BY <1>0, <1>1
<1>6. \A j \in 1 .. n - 1 : ~(j < i) => j + 1 \in 1 .. n /\ r[j] = s[j + 1]
  BY <1>0, <1>1
<1>7. ASSUME NEW j \in 1 .. n - 1, NEW k \in 1 .. n - 1, j < k
      PROVE  r[j] # r[k] /\ pr[r[j]] <= pr[r[k]]
  <2>1. CASE k < i
    <3>1. j < i
      BY <1>0, <1>7, <2>1
    <3>2. j \in 1 .. n /\ k \in 1 .. n /\ r[j] = s[j] /\ r[k] = s[k]
      BY <1>5, <2>1, <3>1
    <3> QED
      BY <1>4, <1>7, <3>2
  <2>2. CASE ~(k < i) /\ j < i
    <3>1. /\ j \in 1 .. n /\ k + 1 \in 1 .. n /\ r[j] = s[j] /\ r[k] = s[k + 1]
      BY <1>5, <1>6, <2>2
    <3>2. j < k + 1
      BY <1>0, <1>7
    <3> QED
      BY <1>4, <3>1, <3>2
  <2>3. CASE ~(k < i) /\ ~(j < i)
    <3>1. /\ j + 1 \in 1 .. n /\ k + 1 \in 1 .. n
          /\ r[j] = s[j + 1] /\ r[k] = s[k + 1]
      BY <1>6, <2>3
    <3>2. j + 1 < k + 1
      BY <1>0, <1>7
    <3> QED
      BY <1>4, <3>1, <3>2
  <2> QED
    BY <2>1, <2>2, <2>3
<1>8. InOrder(r, pr)
  BY <1>1, <1>7 DEF InOrder
<1>9. ASSUME NEW j \in 1 .. n - 1
      PROVE  r[j] \in ToSet(s) /\ r[j] # s[i]
  <2>1. CASE j < i
    <3>1. j \in 1 .. n /\ r[j] = s[j]
      BY <1>5, <2>1
    <3> QED
      BY <1>n, <1>2, <1>4, <2>1, <3>1
  <2>2. CASE ~(j < i)
    <3>1. j + 1 \in 1 .. n /\ r[j] = s[j + 1] /\ i < j + 1
      BY <1>0, <1>6, <2>2
    <3> QED
      BY <1>n, <1>2, <1>4, <3>1
  <2> QED
    BY <2>1, <2>2
<1>10. ASSUME NEW j \in 1 .. n, s[j] # s[i]
       PROVE  s[j] \in ToSet(r)
  <2>1. CASE j < i
    <3>1. j \in 1 .. n - 1
      BY <1>0, <2>1
    <3> QED
      BY <1>3, <1>5, <2>1, <3>1
  <2>2. CASE j > i
    <3>1. j - 1 \in 1 .. n - 1 /\ ~(j - 1 < i) /\ j - 1 + 1 = j
      BY <1>0, <2>2
    <3>2. r[j - 1] = s[j]
      BY <1>6, <3>1
    <3> QED
      BY <1>3, <3>1, <3>2
  <2>3. j # i
    BY <1>10
  <2> QED
    BY <1>0, <2>1, <2>2, <2>3
<1>11. ToSet(r) = ToSet(s) \ {s[i]}
  BY <1>2, <1>3, <1>9, <1>10
<1> QED
  BY <1>n, <1>0, <1>1, <1>8, <1>11

LEMMA WithoutInOrder ==
  ASSUME NEW S, NEW s \in Seq(S), NEW pr \in [S -> Int], InOrder(s, pr), NEW p
  PROVE  /\ Without(s, p) \in Seq(S) /\ Len(Without(s, p)) <= Len(s)
         /\ InOrder(Without(s, p), pr)
         /\ ToSet(Without(s, p)) = ToSet(s) \ {p}
<1> DEFINE r == Without(s, p)
<1>1. CASE Contains(s, p)
  <2>1. PICK i \in 1 .. Len(s) : s[i] = p /\ Without(s, p) = RemoveAt(s, i)
    BY <1>1, Zenon DEF Contains, Without
  <2>2. /\ r \in Seq(S) /\ Len(r) <= Len(s) /\ InOrder(r, pr)
        /\ ToSet(r) = ToSet(s) \ {s[i]}
    BY <2>1, RemoveInOrder
  <2> QED
    BY <2>1, <2>2
<1>2. CASE ~Contains(s, p)
  <2>1. r = s
    BY <1>2 DEF Without
  <2>2. p \notin ToSet(s)
    BY <1>2, ToSetFacts DEF Contains
  <2> QED
    BY <2>1, <2>2
<1> QED
  BY <1>1, <1>2

(* The next one of an ordered list, and the rest of it.                    *)
LEMMA TailInOrder ==
  ASSUME NEW S, NEW s \in Seq(S), s # <<>>, NEW pr, InOrder(s, pr)
  PROVE  /\ Head(s) \in S /\ Head(s) \in ToSet(s)
         /\ Tail(s) \in Seq(S) /\ Len(Tail(s)) = Len(s) - 1
         /\ InOrder(Tail(s), pr)
         /\ ToSet(Tail(s)) = ToSet(s) \ {Head(s)}
         /\ \A q \in ToSet(Tail(s)) : pr[Head(s)] <= pr[q]
<1> DEFINE n == Len(s)
           r == Tail(s)
<1>0. n \in Nat /\ n >= 1
  BY EmptySeq
<1>1. /\ Head(s) = s[1] /\ r \in Seq(S) /\ Len(r) = n - 1
      /\ \A j \in 1 .. n - 1 : r[j] = s[j + 1]
  BY <1>0
<1>2. \A x : x \in ToSet(s) <=> \E j \in 1 .. n : s[j] = x
  BY ToSetFacts
<1>3. \A x : x \in ToSet(r) <=> \E j \in 1 .. n - 1 : r[j] = x
  BY <1>1, ToSetFacts
<1>4. \A j, k \in 1 .. n : j < k => s[j] # s[k] /\ pr[s[j]] <= pr[s[k]]
  BY DEF InOrder
<1> HIDE DEF n, r
<1>5. \A j \in 1 .. n - 1 : j + 1 \in 1 .. n /\ 1 < j + 1 /\ 1 \in 1 .. n
  BY <1>0
<1>6. ASSUME NEW j \in 1 .. n - 1, NEW k \in 1 .. n - 1, j < k
      PROVE  r[j] # r[k] /\ pr[r[j]] <= pr[r[k]]
  <2>1. /\ j + 1 \in 1 .. n /\ k + 1 \in 1 .. n /\ j + 1 < k + 1
        /\ r[j] = s[j + 1] /\ r[k] = s[k + 1]
    BY <1>0, <1>1, <1>6
  <2> QED
    BY <1>4, <2>1
<1>7. InOrder(r, pr)
  BY <1>1, <1>6 DEF InOrder
<1>8. ASSUME NEW j \in 1 .. n - 1
      PROVE  r[j] \in ToSet(s) /\ r[j] # s[1] /\ pr[s[1]] <= pr[r[j]]
  BY <1>1, <1>2, <1>4, <1>5
<1>9. ASSUME NEW j \in 1 .. n, s[j] # s[1]
      PROVE  s[j] \in ToSet(r)
  <2>1. j - 1 \in 1 .. n - 1 /\ j - 1 + 1 = j
    BY <1>0, <1>9
  <2> QED
    BY <1>1, <1>3, <2>1
<1>10. ToSet(r) = ToSet(s) \ {s[1]}
  BY <1>2, <1>3, <1>8, <1>9
<1>11. s[1] \in ToSet(s) /\ s[1] \in S
  <2>1. 1 \in 1 .. n
    BY <1>0
  <2> QED
    BY <1>2, <2>1, ToSetFacts
<1>12. \A q \in ToSet(r) : pr[s[1]] <= pr[q]
  BY <1>3, <1>8
<1> QED
  BY <1>1, <1>7, <1>10, <1>11, <1>12 DEF r, n

(* What is still to be visited, when a provider behind the front goes.     *)
LEMMA ConsInOrder ==
  ASSUME NEW S, NEW t \in Seq(S), NEW h \in S, NEW pr, InOrder(t, pr),
         \A q \in ToSet(t) : h # q /\ pr[h] <= pr[q]
  PROVE  /\ <<h>> \o t \in Seq(S) /\ <<h>> \o t # <<>>
         /\ Len(<<h>> \o t) = Len(t) + 1
         /\ InOrder(<<h>> \o t, pr) /\ ToSet(<<h>> \o t) = {h} \cup ToSet(t)
<1> DEFINE n == Len(t)
           r == <<h>> \o t
<1>0. n \in Nat
  OBVIOUS
<1>1. /\ r \in Seq(S) /\ Len(r) = n + 1 /\ r[1] = h
      /\ \A j \in 1 .. n : r[j + 1] = t[j]
  OBVIOUS
<1>2. \A x : x \in ToSet(t) <=> \E j \in 1 .. n : t[j] = x
  BY ToSetFacts
<1>3. \A x : x \in ToSet(r) <=> \E j \in 1 .. n + 1 : r[j] = x
  BY <1>1, ToSetFacts
<1>4. \A j, k \in 1 .. n : j < k => t[j] # t[k] /\ pr[t[j]] <= pr[t[k]]
  BY DEF InOrder
<1> HIDE DEF n, r
<1>5. \A j \in 1 .. n + 1 : j = 1 \/ (j - 1 \in 1 .. n /\ r[j] = t[j - 1])
  <2> SUFFICES ASSUME NEW j \in 1 .. n + 1, j # 1
               PROVE  j - 1 \in 1 .. n /\ r[j] = t[j - 1]
    OBVIOUS
  <2>1. j - 1 \in 1 .. n /\ j - 1 + 1 = j
    BY <1>0
  <2> QED
    BY <1>1, <2>1
<1>6. ASSUME NEW j \in 1 .. n + 1, NEW k \in 1 .. n + 1, j < k
      PROVE  r[j] # r[k] /\ pr[r[j]] <= pr[r[k]]
  <2>1. k - 1 \in 1 .. n /\ r[k] = t[k - 1]
    BY <1>0, <1>5, <1>6
  <2>2. CASE j = 1
    <3>1. t[k - 1] \in ToSet(t)
      BY <1>2, <2>1
    <3> QED
      BY <1>1, <2>1, <2>2, <3>1
  <2>3. CASE j # 1
    <3>1. j - 1 \in 1 .. n /\ r[j] = t[j - 1]
      BY <1>5, <2>3
    <3>2. j - 1 < k - 1
      BY <1>0, <1>6
    <3> QED
      BY <1>4, <2>1, <3>1, <3>2
  <2> QED
    BY <2>2, <2>3
<1>7. InOrder(r, pr)
  BY <1>1, <1>6 DEF InOrder
<1>8. \A j \in 1 .. n : j + 1 \in 1 .. n + 1
  BY <1>0
<1>9. 1 \in 1 .. n + 1
  BY <1>0
<1>10. ToSet(r) = {h} \cup ToSet(t)
  BY <1>1, <1>2, <1>3, <1>5, <1>8, <1>9
<1>11. r # <<>>
  BY <1>0, <1>1, EmptySeq
<1> QED
  BY <1>1, <1>7, <1>10, <1>11 DEF r, n

LEMMA AppendElements ==
  ASSUME NEW S, NEW s \in Seq(S), NEW e \in S
  PROVE  /\ Append(s, e) \in Seq(S) /\ Len(Append(s, e)) = Len(s) + 1
         /\ Append(s, e) # <<>>
         /\ Last(Append(s, e)) = e /\ Front(Append(s, e)) = s
         /\ ToSet(Append(s, e)) = ToSet(s) \cup {e}
         /\ \A j \in 1 .. Len(s) : Append(s, e)[j] = s[j]
         /\ Append(s, e)[Len(s) + 1] = e
<1> DEFINE n == Len(s)
           r == Append(s, e)
<1>0. n \in Nat
  OBVIOUS
<1>1. /\ r \in Seq(S) /\ Len(r) = n + 1 /\ r[n + 1] = e
      /\ \A j \in 1 .. n : r[j] = s[j]
  BY AppendProperties
<1>2. \A x : x \in ToSet(s) <=> \E j \in 1 .. n : s[j] = x
  BY ToSetFacts
<1>3. \A x : x \in ToSet(r) <=> \E j \in 1 .. n + 1 : r[j] = x
  BY <1>1, ToSetFacts
<1>4. Front(r) = s
  BY <1>0, <1>1 DEF Front
<1>5. Last(r) = e
  BY <1>0, <1>1 DEF Last
<1> HIDE DEF n, r
<1>6. \A j \in 1 .. n + 1 : j \in 1 .. n \/ j = n + 1
  BY <1>0
<1>7. (\A j \in 1 .. n : j \in 1 .. n + 1) /\ n + 1 \in 1 .. n + 1
  BY <1>0
<1>8. ToSet(r) = ToSet(s) \cup {e}
  BY <1>1, <1>2, <1>3, <1>6, <1>7
<1>9. r # <<>>
  BY <1>0, <1>1, EmptySeq
<1> QED
  BY <1>1, <1>4, <1>5, <1>8, <1>9 DEF r, n

LEMMA AppendInOrder ==
  ASSUME NEW S, NEW s \in Seq(S), NEW e \in S, NEW pr, InOrder(s, pr),
         \A q \in ToSet(s) : q # e /\ pr[q] <= pr[e]
  PROVE  InOrder(Append(s, e), pr)
<1> DEFINE n == Len(s)
           r == Append(s, e)
<1>0. n \in Nat
  OBVIOUS
<1>1. /\ Len(r) = n + 1 /\ r[n + 1] = e
      /\ \A j \in 1 .. n : r[j] = s[j]
  BY AppendElements
<1>2. \A j \in 1 .. n : s[j] \in ToSet(s)
  BY ToSetFacts
<1> HIDE DEF r
<1> SUFFICES ASSUME NEW j \in 1 .. n + 1, NEW k \in 1 .. n + 1, j < k
             PROVE  r[j] # r[k] /\ pr[r[j]] <= pr[r[k]]
  BY <1>1 DEF InOrder, r
<1>3. j \in 1 .. n
  BY <1>0
<1>4. CASE k = n + 1
  BY <1>1, <1>2, <1>3, <1>4
<1>5. CASE k # n + 1
  <2>1. k \in 1 .. n
    BY <1>0, <1>5
  <2> QED
    BY <1>1, <1>3, <2>1 DEF InOrder
<1> QED
  BY <1>4, <1>5

LEMMA AppendInTurn ==
  ASSUME NEW S, NEW s \in Seq(S), NEW e \in S, InTurn(s),
         \A x \in ToSet(s) : MayPrecede(x, e)
  PROVE  InTurn(Append(s, e))
<1> DEFINE n == Len(s)
           r == Append(s, e)
<1>0. n \in Nat
  OBVIOUS
<1>1. /\ Len(r) = n + 1 /\ r[n + 1] = e
      /\ \A j \in 1 .. n : r[j] = s[j]
  BY AppendElements
<1>2. \A j \in 1 .. n : s[j] \in ToSet(s)
  BY ToSetFacts
<1> HIDE DEF r
<1> SUFFICES ASSUME NEW j \in 1 .. n + 1, NEW k \in 1 .. n + 1, j < k
             PROVE  MayPrecede(r[j], r[k])
  BY <1>1 DEF InTurn, r
<1>3. j \in 1 .. n
  BY <1>0
<1>4. CASE k = n + 1
  BY <1>1, <1>2, <1>3, <1>4
<1>5. CASE k # n + 1
  <2>1. k \in 1 .. n
    BY <1>0, <1>5
  <2> QED
    BY <1>1, <1>3, <2>1 DEF InTurn
<1> QED
  BY <1>4, <1>5

-----------------------------------------------------------------------------
(* Steps                                                                   *)

LEMMA OutcomesDiffer ==
  /\ NoOutcome # Failed /\ NoOutcome # Undefined /\ NoOutcome # Done
  /\ Failed # Undefined /\ Failed # Done
  /\ \A p : Returned(p) # NoOutcome /\ Returned(p) # Failed
<1>1. /\ NoOutcome.kind = "none" /\ Failed.kind = "threw"
      /\ Undefined.kind = "undefined" /\ Done.kind = "done"
      /\ \A p : Returned(p).kind = "returned"
  BY DEF NoOutcome, Failed, Undefined, Done, Returned
<1> QED
  BY <1>1

LEMMA Types ==
  ASSUME IInv
  PROVE  /\ providers \in Seq(Providers) /\ iterating \in Seq(Providers)
         /\ offered \in Seq(Providers) /\ ran \in Seq(Providers)
         /\ ToSet(providers) \subseteq Providers
         /\ ToSet(iterating) \subseteq Providers
         /\ ToSet(ran) \subseteq Providers
         /\ priority \in [Providers -> Int]
         /\ calls \in Nat /\ running \in Nat /\ calls <= MaxCalls
         /\ running <= MaxCalls /\ MaxCalls \in Nat
         /\ joined \in [Providers -> 0 .. MaxCalls]
         /\ received \in [Providers -> Seq(1 .. MaxCalls)]
         /\ pending \subseteq Nat /\ visible \in Nat
         /\ urgency \in [1 .. MaxCalls -> Int] /\ seen \in [1 .. MaxCalls -> Nat]
<1>1. TypeOK
  BY DEF IInv
<1>2. MaxCalls \in Nat /\ Priorities \subseteq Int
  BY MethodDispatchAssumption DEF MethodDispatchAssumption
<1>3. /\ providers \in Seq(Providers) /\ iterating \in Seq(Providers)
      /\ offered \in Seq(Providers) /\ ran \in Seq(Providers)
  BY <1>1 DEF TypeOK
<1>4. /\ ToSet(providers) \subseteq Providers
      /\ ToSet(iterating) \subseteq Providers
      /\ ToSet(ran) \subseteq Providers
  BY <1>3, ToSetFacts
<1>5. priority \in [Providers -> Int]
  BY <1>1, <1>2 DEF TypeOK
<1>6. /\ calls \in Nat /\ running \in Nat /\ calls <= MaxCalls
      /\ running <= MaxCalls
  BY <1>1, <1>2 DEF TypeOK
<1>7. urgency \in [1 .. MaxCalls -> Int]
  <2>1. urgency \in [1 .. MaxCalls -> Priorities \cup {0}]
    BY <1>1 DEF TypeOK
  <2>2. Priorities \cup {0} \subseteq Int
    BY <1>2
  <2> QED
    BY <2>1, <2>2
<1>8. pending \subseteq Nat /\ visible \in Nat /\ seen \in [1 .. MaxCalls -> Nat]
  BY <1>1, <1>2 DEF TypeOK
<1> QED
  BY <1>1, <1>2, <1>3, <1>4, <1>5, <1>6, <1>7, <1>8 DEF TypeOK

\* What may precede may do so still if nothing of it changes.
LEMMA MayPrecedeStays ==
  ASSUME NEW m, NEW n, MayPrecede(m, n),
         urgency'[m] = urgency[m], urgency'[n] = urgency[n], seen'[m] = seen[m]
  PROVE  MayPrecede(m, n)'
BY DEF MayPrecede

LEMMA HasRunStays ==
  ASSUME NEW m, HasRun(m), UNCHANGED <<pending, urgency, seen>>,
         calls \in Nat, calls' \in Nat, calls <= calls', seen[m] \in Nat
  PROVE  HasRun(m)'
<1>1. /\ m \in 1 .. calls /\ seen[m] <= calls /\ m \notin pending
      /\ \A n \in pending : MayPrecede(m, n)
  BY DEF HasRun
<1>2. m \in 1 .. calls' /\ seen'[m] <= calls' /\ m \notin pending'
  BY <1>1
<1>3. \A n \in pending' : MayPrecede(m, n)'
  BY <1>1, MayPrecedeStays
<1> QED
  BY <1>2, <1>3 DEF HasRun

\* Steps that hand nothing on leave the publications in their turn.
LEMMA PublishedKept ==
  ASSUME IInv, UNCHANGED <<policy, received, pending, urgency, running, seen>>,
         calls' \in Nat, calls <= calls', calls' <= MaxCalls, visible' \in Nat,
         visible' <= calls', \A p \in Providers : joined'[p] <= calls',
         IsChannel => /\ ToSet(iterating') \subseteq ToSet(iterating)
                      /\ iterating' # Idle => iterating # Idle
  PROVE  Published'
<1>1. /\ \A p \in Providers : InTurn(received[p])
      /\ \A p \in Providers : \A m \in ToSet(received[p]) : HasRun(m)
      /\ running # 0 => HasRun(running)
      /\ IsChannel => \A p \in ToSet(iterating) : \A m \in ToSet(received[p]) :
                        MayPrecede(m, running)
      /\ IsChannel /\ iterating # Idle => running > 0
      /\ pending \subseteq 1 .. calls
  BY DEF IInv, Published
<1>2. /\ calls \in Nat /\ calls <= MaxCalls /\ MaxCalls \in Nat
      /\ seen \in [1 .. MaxCalls -> Nat]
  BY Types
<1>3. \A m : HasRun(m) => seen[m] \in Nat
  <2>1. \A m : m \in 1 .. calls => m \in 1 .. MaxCalls
    BY <1>2
  <2> QED
    BY <1>2, <2>1 DEF HasRun
<1>4. \A m : HasRun(m) => HasRun(m)'
  BY <1>2, <1>3, HasRunStays
<1>5. \A m, n : MayPrecede(m, n) => MayPrecede(m, n)'
  BY MayPrecedeStays
<1>6. \A p \in Providers : InTurn(received[p])'
  BY <1>1, <1>5 DEF InTurn
<1>7. \A p \in Providers : \A m \in ToSet(received'[p]) : HasRun(m)'
  BY <1>1, <1>4
<1>8. running' # 0 => HasRun(running)'
  BY <1>1, <1>4 DEF HasRun, MayPrecede
<1>9. IsChannel' <=> IsChannel
  BY DEF IsChannel
<1>10. IsChannel' => \A p \in ToSet(iterating') : \A m \in ToSet(received'[p]) :
                       MayPrecede(m, running)'
  BY <1>1, <1>9 DEF MayPrecede
<1>11. IsChannel' /\ iterating' # Idle => running' > 0
  BY <1>1, <1>9
<1>12. pending' \subseteq 1 .. calls'
  BY <1>1, <1>2
<1> QED
  BY <1>6, <1>7, <1>8, <1>10, <1>11, <1>12 DEF Published

(* The place of a new provider is behind those that are called before it,  *)
(* and before one that is not.                                             *)
LEMMA PlaceOfProvider ==
  ASSUME IInv, NEW p \in Providers
  PROVE  /\ InsertPlace(p) \in 1 .. Len(providers) + 1
         /\ \A j \in 1 .. InsertPlace(p) - 1 : CalledFirst(providers[j], p)
         /\ InsertPlace(p) <= Len(providers) =>
              ~CalledFirst(providers[InsertPlace(p)], p)
<1> DEFINE n == Len(providers)
           T == {i \in 1 .. n + 1 : i <= n => ~CalledFirst(providers[i], p)}
<1>0. n \in Nat
  BY Types
<1> HIDE DEF n
<1>1. T \in SUBSET Nat /\ n + 1 \in T
  BY <1>0
<1>2. PICK i \in T : \A j \in T : i <= j
  <2> HIDE DEF T
  <2> QED
    BY <1>1, LeastElement
<1>3. ASSUME NEW j \in 1 .. i - 1
      PROVE  CalledFirst(providers[j], p)
  <2>1. i \in 1 .. n + 1 /\ j \in 1 .. n + 1 /\ j < i /\ j <= n
    BY <1>0, <1>2
  <2>2. j \notin T
    BY <1>1, <1>2, <2>1
  <2> QED
    BY <2>1, <2>2
<1>4. /\ i \in 1 .. n + 1
      /\ i <= n => ~CalledFirst(providers[i], p)
  BY <1>2
<1>5. \E k \in 1 .. n + 1 :
        /\ \A j \in 1 .. k - 1 : CalledFirst(providers[j], p)
        /\ k <= n => ~CalledFirst(providers[k], p)
  BY <1>3, <1>4
<1> QED
  BY <1>5, Zenon DEF InsertPlace, n

LEMMA Registered ==
  ASSUME IInv, NEW p \in Providers, Register(p)
  PROVE  /\ providers' \in Seq(Providers) /\ InOrder(providers', priority)
         /\ ToSet(providers') = ToSet(providers) \cup {p}
<1>1. p \notin used /\ providers' = InsertAt(providers, InsertPlace(p), p)
  BY DEF Register
<1>2. ToSet(providers) \cup ToSet(offered) \subseteq used
  BY DEF IInv, Ordered
<1> DEFINE i == InsertPlace(p)
           n == Len(providers)
<1>3. IsPlace(i, providers, n, p, priority)
  BY PlaceOfProvider DEF CalledFirst, IsPlace
<1>4. /\ providers \in Seq(Providers) /\ priority \in [Providers -> Int]
      /\ InOrder(providers, priority) /\ p \notin ToSet(providers)
  BY <1>1, <1>2, Types DEF IInv, Ordered
<1>5. n = Len(providers) /\ providers' = InsertAt(providers, i, p)
  BY <1>1
<1> HIDE DEF i, n
<1>6. IsOrdered(InsertAt(providers, i, p), Providers, priority,
                ToSet(providers) \cup {p})
  BY <1>3, <1>4, <1>5, InsertInOrder
<1> QED
  BY <1>5, <1>6 DEF IsOrdered

LEMMA RegisterIInv ==
  ASSUME IInv, NEW p \in Providers, Register(p)
  PROVE  IInv'
<1>1. /\ p \notin used /\ used' = used \cup {p}
      /\ providers' = InsertAt(providers, InsertPlace(p), p)
      /\ joined' = [joined EXCEPT ![p] = calls]
      /\ UNCHANGED <<policy, priority, iterating, outcome, calls, offered, ran,
                     threw, pending, urgency, visible, running, seen, received>>
  BY DEF Register, queueVars
<1>2. ToSet(providers) \cup ToSet(offered) \subseteq used
  BY DEF IInv, Ordered
<1>3. /\ providers' \in Seq(Providers) /\ InOrder(providers', priority)
      /\ ToSet(providers') = ToSet(providers) \cup {p}
  BY Registered
<1>4. TypeOK'
  BY <1>1, <1>3, Types DEF IInv, TypeOK
<1>5. Ordered'
  BY <1>1, <1>2, <1>3 DEF IInv, Ordered
<1>6. Progress'
  <2>1. ToSet(offered) \cap ToSet(providers') = ToSet(offered) \cap ToSet(providers)
    BY <1>1, <1>2, <1>3
  <2> QED
    BY <1>1, <2>1 DEF IInv, Progress, Open, IsChannel
<1>7. Published'
  <2>1. \A q \in Providers : joined'[q] <= calls'
    BY <1>1, Types DEF IInv, Published
  <2>2. visible <= calls
    BY DEF IInv, Published
  <2>3. /\ calls' \in Nat /\ calls <= calls' /\ calls' <= MaxCalls
        /\ visible' \in Nat /\ visible' <= calls'
    BY <1>1, <2>2, Types
  <2> QED
    BY <1>1, <2>1, <2>3, PublishedKept
<1>8. NoneMissed'
  <2> SUFFICES ASSUME IsChannel, NEW q \in ToSet(providers'),
                      NEW n \in joined'[q] + 1 .. calls
               PROVE  \/ n \in ToSet(received[q]) \cup pending
                      \/ n = running /\ q \in ToSet(iterating)
    BY <1>1 DEF NoneMissed, IsChannel
  <2>1. CASE q = p
    <3>1. joined'[q] = calls
      BY <1>1, <2>1, Types
    <3> QED
      BY <3>1, Types
  <2>2. CASE q # p
    <3>1. q \in ToSet(providers) /\ joined'[q] = joined[q]
      BY <1>1, <1>3, <2>2, Types
    <3> QED
      BY <3>1 DEF IInv, NoneMissed
  <2> QED
    BY <2>1, <2>2
<1> QED
  BY <1>4, <1>5, <1>6, <1>7, <1>8 DEF IInv

(* Who unregisters is neither a provider nor waits for its turn.           *)
LEMMA Unregistered ==
  ASSUME IInv, NEW p \in Providers, Unregister(p)
  PROVE  /\ providers' \in Seq(Providers) /\ InOrder(providers', priority)
         /\ ToSet(providers') = ToSet(providers) \ {p}
         /\ iterating' \in Seq(Providers) /\ InOrder(iterating', priority)
         /\ Len(iterating') <= Len(iterating)
         /\ ToSet(iterating') \subseteq ToSet(iterating)
         /\ ToSet(iterating) \subseteq ToSet(iterating') \cup {p}
         /\ iterating' = Idle <=> iterating = Idle
         /\ iterating # Idle => /\ Head(iterating') = Head(iterating)
                                /\ ToSet(Tail(iterating')) = ToSet(Tail(iterating)) \ {p}
<1>1. /\ providers' = Without(providers, p)
      /\ iterating' = IF iterating = Idle THEN Idle
                      ELSE <<Head(iterating)>> \o Without(Tail(iterating), p)
      /\ UNCHANGED <<policy, priority, used, outcome, calls, offered, ran, threw,
                     pending, urgency, visible, running, seen, joined, received>>
  BY DEF Unregister, channelVars, queueVars
<1>2. /\ providers' \in Seq(Providers) /\ InOrder(providers', priority)
      /\ ToSet(providers') = ToSet(providers) \ {p}
  <2>1. /\ providers \in Seq(Providers) /\ priority \in [Providers -> Int]
        /\ InOrder(providers, priority)
    BY Types DEF IInv, Ordered
  <2> QED
    BY <1>1, <2>1, WithoutInOrder
<1>3. /\ iterating' \in Seq(Providers) /\ InOrder(iterating', priority)
      /\ Len(iterating') <= Len(iterating)
      /\ ToSet(iterating') \subseteq ToSet(iterating)
      /\ ToSet(iterating) \subseteq ToSet(iterating') \cup {p}
      /\ iterating' = Idle <=> iterating = Idle
      /\ iterating # Idle => /\ Head(iterating') = Head(iterating)
                             /\ ToSet(Tail(iterating')) = ToSet(Tail(iterating)) \ {p}
  <2>0. iterating \in Seq(Providers) /\ InOrder(iterating, priority)
    BY Types DEF IInv, Ordered
  <2>1. CASE iterating = Idle
    BY <1>1, <2>0, <2>1
  <2>2. CASE iterating # Idle
    <3> DEFINE h == Head(iterating)
               t == Tail(iterating)
               w == Without(t, p)
    <3>1. /\ h \in Providers /\ h \in ToSet(iterating)
          /\ t \in Seq(Providers) /\ Len(t) = Len(iterating) - 1
          /\ InOrder(t, priority) /\ ToSet(t) = ToSet(iterating) \ {h}
          /\ \A q \in ToSet(t) : priority[h] <= priority[q]
      BY <2>0, <2>2, TailInOrder DEF Idle
    <3>2. /\ w \in Seq(Providers) /\ Len(w) <= Len(t) /\ InOrder(w, priority)
          /\ ToSet(w) = ToSet(t) \ {p}
      <4>1. priority \in [Providers -> Int]
        BY Types
      <4>2. t \in Seq(Providers) /\ InOrder(t, priority)
        BY <3>1
      <4> HIDE DEF t
      <4> QED
        BY <4>1, <4>2, WithoutInOrder
    <3>3. iterating' = <<h>> \o w
      BY <1>1, <2>2
    <3>4. \A q \in ToSet(w) : h # q /\ priority[h] <= priority[q]
      BY <3>1, <3>2
    <3> HIDE DEF h, t, w
    <3>5. /\ iterating' \in Seq(Providers) /\ iterating' # <<>>
          /\ Len(iterating') = Len(w) + 1
          /\ InOrder(iterating', priority)
          /\ ToSet(iterating') = {h} \cup ToSet(w)
      BY <3>1, <3>2, <3>3, <3>4, ConsInOrder
    <3>6. Head(iterating') = h /\ ToSet(Tail(iterating')) = ToSet(w)
      <4>1. Head(iterating') = h
        <5>1. <<h>> \in Seq(Providers) /\ Len(<<h>>) = 1 /\ <<h>>[1] = h
          BY <3>1
        <5>2. iterating'[1] = <<h>>[1]
          BY <3>2, <3>3, <5>1, ConcatElements
        <5> QED
          BY <3>5, <5>1, <5>2
      <4>2. ToSet(Tail(iterating')) = ToSet(iterating') \ {Head(iterating')}
        BY <3>5, TailInOrder
      <4> QED
        BY <3>4, <3>5, <4>1, <4>2
    <3>7. Len(w) \in Nat /\ Len(t) \in Nat /\ Len(iterating) \in Nat
      BY <2>0, <3>1, <3>2
    <3>8. Len(iterating') <= Len(iterating)
      BY <3>1, <3>2, <3>5, <3>7
    <3> QED
      BY <2>2, <3>1, <3>2, <3>5, <3>6, <3>8 DEF Idle, h, t
  <2> QED
    BY <2>1, <2>2
<1> QED
  BY <1>2, <1>3

LEMMA UnregisterIInv ==
  ASSUME IInv, NEW p \in Providers, Unregister(p)
  PROVE  IInv'
<1>1. /\ providers' = Without(providers, p)
      /\ iterating' = IF iterating = Idle THEN Idle
                      ELSE <<Head(iterating)>> \o Without(Tail(iterating), p)
      /\ UNCHANGED <<policy, priority, used, outcome, calls, offered, ran, threw,
                     pending, urgency, visible, running, seen, joined, received>>
  BY DEF Unregister, channelVars, queueVars
<1>2. /\ providers' \in Seq(Providers) /\ InOrder(providers', priority)
      /\ ToSet(providers') = ToSet(providers) \ {p}
  BY Unregistered
<1>3. /\ iterating' \in Seq(Providers) /\ InOrder(iterating', priority)
      /\ Len(iterating') <= Len(iterating)
      /\ ToSet(iterating') \subseteq ToSet(iterating)
      /\ ToSet(iterating) \subseteq ToSet(iterating') \cup {p}
      /\ iterating' = Idle <=> iterating = Idle
  BY Unregistered
<1>4. TypeOK'
  BY <1>1, <1>2, <1>3, Types DEF IInv, TypeOK
<1>5. Ordered'
  <2>1. Before(ran, iterating', priority)
    BY <1>3 DEF IInv, Ordered, Before
  <2>2. Len(ran) + Len(iterating') <= Len(offered)
    <3>1. /\ Len(ran) \in Nat /\ Len(iterating) \in Nat /\ Len(iterating') \in Nat
          /\ Len(offered) \in Nat
      BY <1>3, Types
    <3> QED
      BY <1>3, <3>1 DEF IInv, Ordered
  <2> QED
    BY <1>1, <1>2, <1>3, <2>1, <2>2 DEF IInv, Ordered
<1>6. Progress'
  BY <1>1, <1>2, <1>3 DEF IInv, Progress, Open, IsChannel
<1>7. Published'
  <2>1. /\ visible <= calls
        /\ \A q \in Providers : joined[q] <= calls
    BY DEF IInv, Published
  <2>2. /\ calls' \in Nat /\ calls <= calls' /\ calls' <= MaxCalls
        /\ visible' \in Nat /\ visible' <= calls'
        /\ \A q \in Providers : joined'[q] <= calls'
    BY <1>1, <2>1, Types
  <2> QED
    BY <1>1, <1>3, <2>2, PublishedKept
<1>8. NoneMissed'
  BY <1>1, <1>2, <1>3 DEF IInv, NoneMissed, IsChannel
<1> QED
  BY <1>4, <1>5, <1>6, <1>7, <1>8 DEF IInv

(* A call begins with what is registered.                                  *)
LEMMA EmitParts ==
  ASSUME IInv, Emit
  PROVE  /\ Ordered' /\ Progress'
         /\ policy' = policy /\ priority' = priority /\ providers' = providers
         /\ used' = used /\ joined' = joined /\ received' = received
         /\ {iterating', offered', ran'} \subseteq Seq(Providers)
         /\ Len(ran') <= Len(offered') /\ threw' = {}
         /\ outcome' \in {NoOutcome, Undefined, Done, Failed}
<1>1. /\ offered' = providers /\ ran' = <<>> /\ threw' = {}
      /\ iterating' = providers
      /\ UNCHANGED <<policy, priority, providers, used, joined, received>>
  BY DEF Emit
<1>2. /\ providers # <<>> => outcome' = NoOutcome
      /\ providers = <<>> /\ policy = "first_provider" => outcome' = Undefined
      /\ providers = <<>> /\ IsChannel => outcome' = Done
      /\ providers = <<>> /\ policy # "first_provider" /\ ~IsChannel =>
           outcome' = Failed
  BY DEF Emit, IsChannel
<1>3. outcome' \in {NoOutcome, Undefined, Done, Failed}
  BY <1>2
<1>4. /\ ToSet(ran') = {} /\ Len(ran') = 0 /\ ran' \in Seq(Providers)
  <2>1. ran' = <<>> /\ ran' \in Seq(Providers) /\ Len(ran') = 0
    BY <1>1, EmptySeq
  <2> QED
    BY <2>1, ToSetFacts
<1>5. Len(providers) \in Nat /\ providers \in Seq(Providers)
  BY Types
<1>6. Ordered'
  <2>1. InOrder(ran', priority)
    BY <1>4 DEF InOrder
  <2>2. Before(ran', iterating', priority)
    BY <1>4 DEF Before
  <2>3. Len(ran') + Len(iterating') <= Len(offered')
    BY <1>1, <1>4, <1>5
  <2> QED
    BY <1>1, <2>1, <2>2, <2>3 DEF IInv, Ordered
<1>7. Progress'
  <2>1. iterating' # Idle => outcome' = NoOutcome
    BY <1>1, <1>2 DEF Idle
  <2>2. iterating' = Idle /\ ~IsChannel => outcome' # NoOutcome
    BY <1>1, <1>2, OutcomesDiffer DEF Idle, IsChannel
  <2>3. policy = "first_success" => outcome' \in {NoOutcome, Failed}
    BY <1>2 DEF IsChannel
  <2>4. threw' = ToSet(ran')
    BY <1>1, <1>4
  <2>5. Len(ran') <= 1 /\ ran' = <<>>
    BY <1>1, <1>4
  <2>6. ToSet(offered') \cap ToSet(providers') \subseteq ToSet(iterating')
    BY <1>1
  <2> QED
    BY <1>1, <2>1, <2>2, <2>3, <2>4, <2>5, <2>6 DEF Progress, Open, IsChannel
<1> QED
  BY <1>1, <1>3, <1>4, <1>5, <1>6, <1>7

LEMMA CallIInv ==
  ASSUME IInv, Call
  PROVE  IInv'
<1>1. /\ ~IsChannel /\ calls < MaxCalls /\ Emit /\ calls' = calls + 1
      /\ UNCHANGED <<pending, urgency, visible, running, seen>>
  BY DEF Call, queueVars
<1>2. /\ Ordered' /\ Progress'
      /\ policy' = policy /\ priority' = priority /\ providers' = providers
      /\ used' = used /\ joined' = joined /\ received' = received
      /\ {iterating', offered', ran'} \subseteq Seq(Providers)
      /\ Len(ran') <= Len(offered') /\ threw' = {}
      /\ outcome' \in {NoOutcome, Undefined, Done, Failed}
  BY <1>1, EmitParts
<1>3. /\ calls \in Nat /\ running \in Nat /\ calls <= MaxCalls
      /\ running <= MaxCalls /\ MaxCalls \in Nat
      /\ joined \in [Providers -> 0 .. MaxCalls]
      /\ visible \in Nat
  BY Types
<1>4. TypeOK'
  <2>1. calls' \in 0 .. MaxCalls
    BY <1>1, <1>3
  <2> QED
    BY <1>1, <1>2, <2>1 DEF IInv, TypeOK
<1>5. Published'
  <2>1. /\ visible <= calls
        /\ \A p \in Providers : joined[p] <= calls
    BY DEF IInv, Published
  <2>2. /\ calls' \in Nat /\ calls <= calls' /\ calls' <= MaxCalls
        /\ visible' \in Nat /\ visible' <= calls'
    BY <1>1, <1>3, <2>1
  <2>3. \A p \in Providers : joined'[p] <= calls'
    BY <1>1, <1>2, <1>3, <2>1
  <2> QED
    BY <1>1, <1>2, <2>2, <2>3, PublishedKept
<1>6. NoneMissed'
  BY <1>1, <1>2 DEF NoneMissed, IsChannel
<1> QED
  BY <1>2, <1>4, <1>5, <1>6 DEF IInv

LEMMA PublishIInv ==
  ASSUME IInv, NEW u \in Priorities, Publish(u)
  PROVE  IInv'
<1>1. /\ IsChannel /\ calls < MaxCalls /\ calls' = calls + 1
      /\ urgency' = [urgency EXCEPT ![calls'] = u]
      /\ pending' = IF providers # <<>> THEN pending \cup {calls'} ELSE pending
      /\ UNCHANGED <<policy, priority, providers, used, iterating, outcome,
                     offered, ran, threw, visible, running, seen, joined, received>>
  BY DEF Publish, HasSubscribers
<1>2. /\ calls \in Nat /\ running \in Nat /\ visible \in Nat /\ MaxCalls \in Nat
      /\ joined \in [Providers -> 0 .. MaxCalls]
      /\ providers \in Seq(Providers)
      /\ urgency \in [1 .. MaxCalls -> Int] /\ seen \in [1 .. MaxCalls -> Nat]
      /\ u \in Int
  BY MethodDispatchAssumption, Types DEF MethodDispatchAssumption
<1>3. /\ pending \subseteq 1 .. calls /\ visible <= calls
      /\ \A p \in Providers : joined[p] <= calls
  BY DEF IInv, Published
<1>4. calls' \in 1 .. MaxCalls /\ calls < calls'
  BY <1>1, <1>2
<1>5. \A m \in 1 .. calls : m \in 1 .. MaxCalls /\ m < calls' /\ m \in 1 .. calls'
  BY <1>1, <1>2
<1>6. ASSUME NEW m \in 1 .. calls
      PROVE  urgency'[m] = urgency[m] /\ urgency'[m] \in Int
  <2>1. m \in 1 .. MaxCalls /\ m # calls'
    BY <1>2, <1>4, <1>5
  <2>2. urgency[m] \in Int
    BY <1>2, <2>1
  <2>3. urgency'[m] = urgency[m]
    BY <1>1, <1>2, <2>1
  <2> QED
    BY <2>2, <2>3
<1>7. \A m, n \in 1 .. calls : MayPrecede(m, n) => MayPrecede(m, n)'
  BY <1>1, <1>6, MayPrecedeStays
<1>8. /\ pending' \subseteq pending \cup {calls'} /\ pending \subseteq pending'
      /\ providers # <<>> => calls' \in pending'
  BY <1>1
\* Who has run may precede the new one, which no poll has found.
<1>9. ASSUME NEW m, HasRun(m)
       PROVE  HasRun(m)'
  <2>1. /\ m \in 1 .. calls /\ seen[m] <= calls /\ m \notin pending
        /\ \A n \in pending : MayPrecede(m, n)
    BY <1>9 DEF HasRun
  <2>2. seen[m] \in Nat /\ m < calls'
    BY <1>2, <1>5, <1>6, <2>1
  <2>3. seen'[m] < calls' /\ seen'[m] <= calls'
    <3>1. seen'[m] \in Nat /\ seen'[m] <= calls
      BY <1>1, <2>1, <2>2
    <3>2. \A k \in Nat : k <= calls => k < calls' /\ k <= calls'
      BY <1>1, <1>2
    <3> QED
      BY <3>1, <3>2
  <2>4. ASSUME NEW n \in pending', n = calls'
        PROVE  MayPrecede(m, n)'
    <3>1. m < n /\ seen'[m] < n
      BY <2>2, <2>3, <2>4
    <3> QED
      BY <3>1 DEF MayPrecede
  <2>5. ASSUME NEW n \in pending', n # calls'
        PROVE  MayPrecede(m, n)'
    <3>1. n \in pending /\ n \in 1 .. calls
      BY <1>3, <1>8, <2>5
    <3> QED
      BY <1>7, <2>1, <3>1
  <2>6. \A n \in pending' : MayPrecede(m, n)'
    BY <2>4, <2>5
  <2>7. m \in 1 .. calls' /\ m \notin pending'
    <3>1. m \in 1 .. calls' /\ m # calls'
      BY <1>2, <1>5, <2>1, <2>2
    <3> QED
      BY <1>8, <2>1, <3>1
  <2> QED
    BY <2>3, <2>6, <2>7 DEF HasRun
<1>10. TypeOK'
  <2>1. calls' \in 0 .. MaxCalls /\ pending' \subseteq 1 .. MaxCalls
    <3>1. calls' \in 0 .. MaxCalls
      BY <1>2, <1>4
    <3>2. pending \subseteq 1 .. MaxCalls
      BY <1>3, <1>5
    <3> QED
      BY <1>4, <1>8, <3>1, <3>2
  <2>2. urgency' \in [1 .. MaxCalls -> Priorities \cup {0}]
    BY <1>1, <1>4 DEF IInv, TypeOK
  <2> QED
    BY <1>1, <2>1, <2>2 DEF IInv, TypeOK
<1>11. Ordered'
  BY <1>1 DEF IInv, Ordered
<1>12. Progress'
  BY <1>1 DEF IInv, Progress, Open, IsChannel
<1>13. Published'
  <2>1. /\ \A p \in Providers : InTurn(received[p])
        /\ \A p \in Providers : \A m \in ToSet(received[p]) : HasRun(m)
        /\ running # 0 => HasRun(running)
        /\ \A p \in ToSet(iterating) : \A m \in ToSet(received[p]) :
             MayPrecede(m, running)
        /\ iterating # Idle => running > 0
    BY <1>1 DEF IInv, Published
  <2>2. \A p \in Providers : \A m \in ToSet(received[p]) : m \in 1 .. calls
    BY <2>1 DEF HasRun
  <2>3. \A p \in Providers : InTurn(received[p])'
    <3> SUFFICES ASSUME NEW p \in Providers, NEW i \in 1 .. Len(received[p]),
                        NEW j \in 1 .. Len(received[p]), i < j
                 PROVE  MayPrecede(received[p][i], received[p][j])'
      BY <1>1 DEF InTurn
    <3>1. MayPrecede(received[p][i], received[p][j])
      BY <2>1 DEF InTurn
    <3>2. received[p][i] \in 1 .. calls /\ received[p][j] \in 1 .. calls
      <4>1. received[p] \in Seq(1 .. MaxCalls)
        BY Types
      <4>2. /\ received[p][i] \in ToSet(received[p])
            /\ received[p][j] \in ToSet(received[p])
        BY <4>1, ToSetFacts
      <4> QED
        BY <2>2, <4>2
    <3>3. MayPrecede(received[p][i], received[p][j])'
             = (\/ urgency'[received[p][i]] > urgency'[received[p][j]]
                \/ (/\ received[p][i] < received[p][j]
                    /\ \/ urgency'[received[p][i]] = urgency'[received[p][j]]
                       \/ seen'[received[p][i]] < received[p][j]))
      BY <1>1 DEF MayPrecede
    <3> QED
      BY <1>1, <1>6, <3>1, <3>2, <3>3 DEF MayPrecede
  <2>4. \A p \in Providers : \A m \in ToSet(received'[p]) : HasRun(m)'
    BY <1>1, <1>9, <2>1
  <2>5. running' # 0 => HasRun(running)'
    <3>1. running' = running /\ \A m : HasRun(m) => HasRun(m)'
      BY <1>1, <1>9
    <3> QED
      BY <2>1, <3>1 DEF HasRun, MayPrecede
  <2>6. \A p \in ToSet(iterating') : \A m \in ToSet(received'[p]) :
          MayPrecede(m, running)'
    <3> SUFFICES ASSUME NEW p \in ToSet(iterating), NEW m \in ToSet(received[p])
                 PROVE  MayPrecede(m, running)'
      BY <1>1
    <3>1. iterating # Idle /\ p \in Providers
      <4>1. <<>> \in Seq(Providers)
        OBVIOUS
      <4>2. ToSet(<<>>) = {}
        BY <4>1, ToSetFacts
      <4> QED
        BY <4>2, Types DEF Idle
    <3>2. m \in 1 .. calls /\ running \in 1 .. calls
      BY <1>2, <2>1, <2>2, <3>1 DEF HasRun
    <3>3. MayPrecede(m, running)
      BY <2>1
    <3> QED
      BY <1>1, <1>6, <3>2, <3>3 DEF MayPrecede
  <2>7. pending' \subseteq 1 .. calls' /\ visible' <= calls'
    BY <1>1, <1>2, <1>3, <1>4, <1>5, <1>8
  <2>8. \A p \in Providers : joined'[p] <= calls'
    BY <1>1, <1>2, <1>3
  <2>9. iterating' # Idle => running' > 0
    BY <1>1, <2>1
  <2> QED
    BY <2>3, <2>4, <2>5, <2>6, <2>7, <2>8, <2>9 DEF Published
<1>14. NoneMissed'
  <2> SUFFICES ASSUME NEW p \in ToSet(providers), NEW n \in joined[p] + 1 .. calls'
               PROVE  \/ n \in ToSet(received[p]) \cup pending'
                      \/ n = running /\ p \in ToSet(iterating)
    BY <1>1 DEF NoneMissed
  <2>1. CASE n = calls'
    <3>1. providers # <<>>
      BY <1>2, ToSetFacts
    <3> QED
      BY <1>8, <2>1, <3>1
  <2>2. CASE n # calls'
    <3>1. p \in Providers
      BY Types
    <3>2. n \in joined[p] + 1 .. calls
      BY <1>1, <1>2, <2>2, <3>1
    <3> QED
      BY <1>1, <1>8, <3>2 DEF IInv, NoneMissed
  <2> QED
    BY <2>1, <2>2
<1> QED
  BY <1>10, <1>11, <1>12, <1>13, <1>14 DEF IInv

LEMMA PollIInv ==
  ASSUME IInv, Poll
  PROVE  IInv'
<1>1. /\ visible' = calls
      /\ UNCHANGED <<policy, priority, providers, used, iterating, outcome, calls,
                     offered, ran, threw, pending, urgency, running, seen, joined,
                     received>>
  BY DEF Poll
<1>2. TypeOK'
  BY <1>1 DEF IInv, TypeOK
<1>3. Ordered' /\ Progress' /\ NoneMissed'
  BY <1>1 DEF IInv, Ordered, Progress, NoneMissed, Open, IsChannel
<1>4. Published'
  <2>1. calls \in Nat /\ calls <= MaxCalls /\ \A p \in Providers : joined[p] <= calls
    BY Types DEF IInv, Published
  <2> QED
    BY <1>1, <2>1, PublishedKept
<1> QED
  BY <1>2, <1>3, <1>4 DEF IInv

LEMMA RunPublishedIInv ==
  ASSUME IInv, RunPublished
  PROVE  IInv'
<1>0. PICK n \in pending :
        /\ n <= visible
        /\ \A m \in pending \ {n} : m <= visible => RunsFirst(n, m)
        /\ pending' = pending \ {n} /\ running' = n
        /\ seen' = [seen EXCEPT ![n] = visible]
  BY DEF RunPublished
<1>1. /\ IsChannel /\ Emit /\ iterating = Idle /\ iterating' = providers
      /\ visible' = 0 /\ calls' = calls /\ urgency' = urgency
  BY DEF RunPublished, Emit
<1>2. /\ Ordered' /\ Progress'
      /\ policy' = policy /\ priority' = priority /\ providers' = providers
      /\ used' = used /\ joined' = joined /\ received' = received
      /\ {iterating', offered', ran'} \subseteq Seq(Providers)
      /\ Len(ran') <= Len(offered') /\ threw' = {}
      /\ outcome' \in {NoOutcome, Undefined, Done, Failed}
  BY <1>1, EmitParts
<1>3. /\ calls \in Nat /\ visible \in Nat /\ calls <= MaxCalls /\ MaxCalls \in Nat
      /\ received \in [Providers -> Seq(1 .. MaxCalls)]
      /\ urgency \in [1 .. MaxCalls -> Int] /\ seen \in [1 .. MaxCalls -> Nat]
  BY Types
<1>4. /\ pending \subseteq 1 .. calls /\ visible <= calls
      /\ \A p \in Providers : InTurn(received[p])
      /\ \A p \in Providers : \A m \in ToSet(received[p]) : HasRun(m)
      /\ \A p \in Providers : joined[p] <= calls
  BY DEF IInv, Published
<1>5. \A m \in 1 .. calls : m \in 1 .. MaxCalls /\ urgency[m] \in Int
  BY <1>3
<1>6. /\ n \in 1 .. calls /\ n \in 1 .. MaxCalls /\ seen'[n] = visible
      /\ \A m \in 1 .. calls : m # n => seen'[m] = seen[m]
  BY <1>0, <1>3, <1>4, <1>5
<1>7. \A m, k \in 1 .. calls : m # n /\ MayPrecede(m, k) => MayPrecede(m, k)'
  BY <1>1, <1>6, MayPrecedeStays
\* What the poll has not found was published behind it.
<1>8. ASSUME NEW k \in pending'
      PROVE  MayPrecede(n, k)'
  <2>1. k \in pending /\ k # n /\ k \in 1 .. calls
    BY <1>0, <1>4
  <2>2. CASE k <= visible
    <3>1. RunsFirst(n, k)
      BY <1>0, <2>1, <2>2
    <3> QED
      BY <1>1, <3>1 DEF RunsFirst, MayPrecede
  <2>3. CASE ~(k <= visible)
    <3>1. n < k /\ seen'[n] < k
      BY <1>0, <1>3, <1>6, <2>1, <2>3
    <3> QED
      BY <3>1 DEF MayPrecede
  <2> QED
    BY <2>2, <2>3
<1>9. ASSUME NEW m, HasRun(m)
      PROVE  HasRun(m)' /\ MayPrecede(m, n)' /\ m # n
  <2>1. /\ m \in 1 .. calls /\ seen[m] <= calls /\ m \notin pending
        /\ \A k \in pending : MayPrecede(m, k)
    BY <1>9 DEF HasRun
  <2>2. m # n /\ m \notin pending'
    BY <1>0, <2>1
  <2>3. \A k \in pending : MayPrecede(m, k)'
    BY <1>4, <1>7, <2>1, <2>2
  <2>4. \A k \in pending' : MayPrecede(m, k)'
    BY <1>0, <2>3
  <2>5. m \in 1 .. calls' /\ seen'[m] <= calls'
    BY <1>1, <1>6, <2>1, <2>2
  <2> QED
    BY <1>0, <2>2, <2>3, <2>4, <2>5 DEF HasRun
<1>10. HasRun(n)'
  <2>1. n \in 1 .. calls' /\ seen'[n] <= calls' /\ n \notin pending'
    BY <1>0, <1>1, <1>4, <1>6
  <2> QED
    BY <1>8, <2>1 DEF HasRun
<1>11. TypeOK'
  <2>1. running' \in 0 .. MaxCalls /\ visible' \in 0 .. MaxCalls
    BY <1>0, <1>1, <1>3, <1>6
  <2>2. pending' \subseteq 1 .. MaxCalls
    BY <1>0, <1>4, <1>5
  <2>3. seen' \in [1 .. MaxCalls -> 0 .. MaxCalls]
    <3>1. visible \in 0 .. MaxCalls
      BY <1>3, <1>4
    <3> QED
      BY <1>0, <3>1 DEF IInv, TypeOK
  <2> QED
    BY <1>1, <1>2, <2>1, <2>2, <2>3 DEF IInv, TypeOK
<1>12. Published'
  <2>1. \A p \in Providers : \A m \in ToSet(received[p]) : m \in 1 .. calls /\ m # n
    BY <1>4, <1>9 DEF HasRun
  <2>2. \A p \in Providers : InTurn(received[p])'
    <3> SUFFICES ASSUME NEW p \in Providers, NEW i \in 1 .. Len(received[p]),
                        NEW j \in 1 .. Len(received[p]), i < j
                 PROVE  MayPrecede(received[p][i], received[p][j])'
      BY <1>2 DEF InTurn
    <3>1. MayPrecede(received[p][i], received[p][j])
      BY <1>4 DEF InTurn
    <3>2. /\ received[p][i] \in 1 .. calls /\ received[p][j] \in 1 .. calls
          /\ received[p][i] # n
      <4>1. received[p] \in Seq(1 .. MaxCalls)
        BY <1>3
      <4>2. /\ received[p][i] \in ToSet(received[p])
            /\ received[p][j] \in ToSet(received[p])
        BY <4>1, ToSetFacts
      <4> QED
        BY <2>1, <4>2
    <3> QED
      BY <1>1, <1>2, <1>6, <3>1, <3>2 DEF MayPrecede
  <2>3. \A p \in Providers : \A m \in ToSet(received'[p]) : HasRun(m)'
    BY <1>2, <1>4, <1>9
  <2>4. running' # 0 => HasRun(running)'
    BY <1>0, <1>10 DEF HasRun, MayPrecede
  <2>5. \A p \in ToSet(iterating') : \A m \in ToSet(received'[p]) :
          MayPrecede(m, running)'
    <3> SUFFICES ASSUME NEW p \in ToSet(iterating'), NEW m \in ToSet(received'[p])
                 PROVE  MayPrecede(m, running)'
      OBVIOUS
    <3>1. p \in Providers
      BY <1>1, Types
    <3>2. MayPrecede(m, n)'
      BY <1>2, <1>4, <1>9, <3>1
    <3> QED
      BY <1>0, <3>2 DEF MayPrecede
  <2>6. /\ iterating' # Idle => running' > 0
        /\ pending' \subseteq 1 .. calls' /\ visible' <= calls'
        /\ \A p \in Providers : joined'[p] <= calls'
    BY <1>0, <1>1, <1>2, <1>3, <1>4, <1>6
  <2> QED
    BY <2>2, <2>3, <2>4, <2>5, <2>6 DEF Published
<1>13. NoneMissed'
  <2> SUFFICES ASSUME NEW p \in ToSet(providers), NEW k \in joined[p] + 1 .. calls
               PROVE  \/ k \in ToSet(received[p]) \cup pending'
                      \/ k = running' /\ p \in ToSet(iterating')
    BY <1>1, <1>2 DEF NoneMissed
  <2>1. ToSet(iterating) = {}
    BY <1>1, Types, ToSetFacts DEF Idle
  <2>2. k \in ToSet(received[p]) \cup pending
    BY <1>1, <2>1 DEF IInv, NoneMissed
  <2> QED
    BY <1>0, <1>1, <2>2
<1> QED
  BY <1>2, <1>11, <1>12, <1>13 DEF IInv

(* Behind the last provider nothing is left to visit.                      *)
LEMMA AdvanceIsTail ==
  ASSUME IInv, iterating # Idle, Advance
  PROVE  /\ iterating' = Tail(iterating)
         /\ iterating' = Idle => outcome' = IF IsChannel THEN Done ELSE Failed
         /\ iterating' # Idle => outcome' = outcome
<1>0. iterating \in Seq(Providers) /\ iterating # <<>>
  BY Types DEF Idle
<1>1. CASE Len(iterating) = 1
  <2>1. iterating' = Idle /\ outcome' = IF IsChannel THEN Done ELSE Failed
    BY <1>1 DEF Advance, Finish
  <2>2. Tail(iterating) = <<>>
    <3>1. Tail(iterating) \in Seq(Providers) /\ Len(Tail(iterating)) = 0
      BY <1>0, <1>1
    <3> QED
      BY <3>1, EmptySeq
  <2> QED
    BY <2>1, <2>2 DEF Idle
<1>2. CASE Len(iterating) # 1
  <2>1. iterating' = Tail(iterating) /\ outcome' = outcome
    BY <1>2 DEF Advance
  <2>2. Tail(iterating) # <<>>
    <3>1. Len(iterating) \in Nat /\ Len(iterating) # 0
      BY <1>0, EmptySeq
    <3>2. Len(Tail(iterating)) = Len(iterating) - 1
      BY <1>0
    <3>3. Len(Tail(iterating)) # 0
      BY <1>2, <3>1, <3>2
    <3>4. Len(<<>>) = 0
      OBVIOUS
    <3> QED
      BY <3>3, <3>4, Zenon
  <2> QED
    BY <2>1, <2>2 DEF Idle
<1> QED
  BY <1>1, <1>2

(* What a provider does when its turn comes: the policy goes on with the   *)
(* next one, or the call is over.                                          *)
\* How a turn of the provider at the front ends, whichever way it went.
GoesOn ==
  /\ policy # "first_provider" /\ Advance
  /\ policy = "first_success" => threw' = threw \cup {Head(iterating)}

IsOver ==
  /\ iterating' = Idle
  /\ \/ /\ policy \in {"first_success", "first_provider"}
        /\ outcome' = Returned(Head(iterating)) /\ threw' = threw
     \/ policy = "first_provider" /\ outcome' = Failed

LEMMA TurnTaken ==
  ASSUME IInv, ProviderReturns \/ ProviderThrows
  PROVE  /\ Called /\ threw' \subseteq threw \cup {Head(iterating)}
         /\ GoesOn \/ IsOver
<1>1. Called
  BY DEF ProviderReturns, ProviderThrows
<1>2. CASE ProviderReturns
  <2>0. threw' = threw
    BY <1>2 DEF ProviderReturns
  <2>1. CASE ReturnsAtSuccess
    BY <1>1, <1>2, <2>0, <2>1 DEF ProviderReturns, Finish, ReturnsAtSuccess, IsOver
  <2>2. CASE ~ReturnsAtSuccess
    BY <1>1, <1>2, <2>0, <2>2 DEF ProviderReturns, ReturnsAtSuccess, GoesOn
  <2> QED
    BY <2>1, <2>2
<1>3. CASE ProviderThrows
  <2>0. threw' = threw \cup {Head(iterating)}
    BY <1>3 DEF ProviderThrows
  <2>1. CASE Catches
    BY <1>1, <1>3, <2>0, <2>1 DEF ProviderThrows, Catches, GoesOn
  <2>2. CASE ~Catches
    BY <1>1, <1>3, <2>0, <2>2 DEF ProviderThrows, Finish, Catches, IsOver
  <2> QED
    BY <2>1, <2>2
<1> QED
  BY <1>2, <1>3

LEMMA TurnIInv ==
  ASSUME IInv, ProviderReturns \/ ProviderThrows
  PROVE  IInv'
<1> DEFINE h == Head(iterating)
           t == Tail(iterating)
<1>1. /\ iterating # Idle /\ ran' = Append(ran, h)
      /\ UNCHANGED <<policy, priority, providers, used, calls, offered, pending,
                     urgency, visible, running, seen, joined>>
      /\ received' = IF IsChannel
                     THEN [received EXCEPT ![h] = Append(@, running)]
                     ELSE received
  BY TurnTaken DEF Called, queueVars
<1>2. iterating \in Seq(Providers) /\ InOrder(iterating, priority)
  BY Types DEF IInv, Ordered
<1>3. /\ h \in Providers /\ h \in ToSet(iterating)
      /\ t \in Seq(Providers) /\ Len(t) = Len(iterating) - 1
      /\ InOrder(t, priority) /\ ToSet(t) = ToSet(iterating) \ {h}
      /\ \A q \in ToSet(t) : priority[h] <= priority[q]
  BY <1>1, <1>2, TailInOrder DEF Idle
<1>4. /\ GoesOn => /\ iterating' = t
                   /\ iterating' = Idle => outcome' = IF IsChannel THEN Done ELSE Failed
                   /\ iterating' # Idle => outcome' = outcome
      /\ threw' \subseteq threw \cup {h}
      /\ GoesOn \/ IsOver
  BY <1>1, AdvanceIsTail, TurnTaken DEF GoesOn
<1> HIDE DEF h, t
<1>5. /\ ran' \in Seq(Providers) /\ Len(ran') = Len(ran) + 1 /\ ran' # <<>>
      /\ Last(ran') = h /\ Front(ran') = ran /\ ToSet(ran') = ToSet(ran) \cup {h}
  <2>1. ran \in Seq(Providers) /\ h \in Providers
    BY <1>3, Types
  <2>2. /\ Append(ran, h) \in Seq(Providers) /\ Len(Append(ran, h)) = Len(ran) + 1
        /\ Append(ran, h) # <<>>
        /\ Last(Append(ran, h)) = h /\ Front(Append(ran, h)) = ran
    BY <2>1, AppendElements
  <2>3. ToSet(Append(ran, h)) = ToSet(ran) \cup {h}
    BY <2>1, AppendElements
  <2> QED
    BY <1>1, <2>2, <2>3
<1>6. /\ iterating' \in Seq(Providers) /\ InOrder(iterating', priority)
      /\ ToSet(iterating') \subseteq ToSet(t)
      /\ Len(iterating') + 1 <= Len(iterating)
  <2>1. Len(iterating) \in Nat /\ Len(iterating) >= 1
    BY <1>1, <1>2, EmptySeq DEF Idle
  <2>2. CASE iterating' = t
    BY <1>3, <2>1, <2>2
  <2>3. CASE iterating' = Idle
    <3>1. iterating' \in Seq(Providers) /\ Len(iterating') = 0
      BY <2>3 DEF Idle
    <3>2. ToSet(iterating') = {}
      BY <2>3, <3>1, ToSetFacts DEF Idle
    <3>3. InOrder(iterating', priority)
      BY <3>1 DEF InOrder
    <3> QED
      BY <2>1, <3>1, <3>2, <3>3
  <2> QED
    BY <1>4, <2>2, <2>3 DEF IsOver
<1>7. outcome = NoOutcome
  BY <1>1 DEF IInv, Progress
<1>8. Ordered'
  <2>1. InOrder(ran', priority)
    <3>1. \A q \in ToSet(ran) : q # h /\ priority[q] <= priority[h]
      BY <1>3 DEF IInv, Ordered, Before
    <3>2. InOrder(ran, priority) /\ ran \in Seq(Providers) /\ h \in Providers
      BY <1>3, Types DEF IInv, Ordered
    <3>3. InOrder(Append(ran, h), priority)
      BY <3>1, <3>2, AppendInOrder
    <3> QED
      BY <1>1, <3>3
  <2>2. Before(ran', iterating', priority)
    BY <1>3, <1>5, <1>6 DEF IInv, Ordered, Before
  <2>3. Len(ran') + Len(iterating') <= Len(offered)
    <3>1. /\ Len(ran) \in Nat /\ Len(iterating) \in Nat /\ Len(iterating') \in Nat
          /\ Len(offered) \in Nat
      BY <1>6, Types
    <3>2. Len(ran) + Len(iterating) <= Len(offered)
      BY DEF IInv, Ordered
    <3> QED
      BY <1>5, <1>6, <3>1, <3>2
  <2> QED
    BY <1>1, <1>6, <2>1, <2>2, <2>3 DEF IInv, Ordered
<1>9. Progress'
  <2>0. policy' = policy /\ calls' = calls /\ (IsChannel' <=> IsChannel)
    BY <1>1 DEF IsChannel
  <2>1. iterating' # Idle => outcome' = NoOutcome
    BY <1>4, <1>7 DEF IsOver
  <2>2. iterating' = Idle => outcome' # NoOutcome
    BY <1>4, OutcomesDiffer DEF IsOver
  <2>3. policy = "first_success" =>
          IF Open' THEN threw' = ToSet(ran')
          ELSE /\ ran' # <<>> /\ outcome' = Returned(Last(ran'))
               /\ threw' = ToSet(Front(ran'))
    <3> SUFFICES ASSUME policy = "first_success"
                 PROVE  IF Open' THEN threw' = ToSet(ran')
                        ELSE /\ ran' # <<>> /\ outcome' = Returned(Last(ran'))
                             /\ threw' = ToSet(Front(ran'))
      OBVIOUS
    <3>1. threw = ToSet(ran)
      BY <1>7 DEF IInv, Progress, Open
    <3>2. CASE GoesOn
      <4>1. threw' = ToSet(ran')
        BY <1>5, <3>1, <3>2 DEF GoesOn, h
      <4>2. outcome' \in {NoOutcome, Failed}
        BY <1>4, <1>7, <3>2 DEF IsChannel
      <4> QED
        BY <4>1, <4>2 DEF Open
    <3>3. CASE IsOver
      <4>1. outcome' = Returned(h) /\ threw' = threw
        BY <3>3 DEF IsOver, h
      <4>2. ~Open'
        BY <4>1, OutcomesDiffer DEF Open
      <4> QED
        BY <1>5, <3>1, <4>1, <4>2
    <3> QED
      BY <1>4, <3>2, <3>3
  <2>4. policy = "first_provider" =>
          Len(ran') <= 1 /\ (iterating' # Idle => ran' = <<>>)
    <3> SUFFICES ASSUME policy = "first_provider"
                 PROVE  Len(ran') <= 1 /\ iterating' = Idle
      OBVIOUS
    <3>1. ran = <<>> /\ Len(ran) = 0
      BY <1>1 DEF IInv, Progress
    <3>2. IsOver
      BY <1>4 DEF GoesOn
    <3> QED
      BY <1>5, <3>1, <3>2 DEF IsOver
  <2>5. policy # "first_provider" /\ Open' =>
          ToSet(offered) \cap ToSet(providers)
            \subseteq ToSet(ran') \cup ToSet(iterating')
    <3> SUFFICES ASSUME policy # "first_provider", Open'
                 PROVE  ToSet(offered) \cap ToSet(providers)
                          \subseteq ToSet(ran') \cup ToSet(iterating')
      OBVIOUS
    <3>1. ToSet(offered) \cap ToSet(providers) \subseteq ToSet(ran) \cup ToSet(iterating)
      BY <1>7 DEF IInv, Progress, Open
    <3>2. GoesOn
      <4>1. ~IsOver
        BY OutcomesDiffer DEF IsOver, Open
      <4> QED
        BY <1>4, <4>1
    <3>3. iterating' = t
      BY <1>4, <3>2
    <3> QED
      BY <1>3, <1>5, <3>1, <3>3
  <2> QED
    BY <1>1, <2>0, <2>1, <2>2, <2>3, <2>4, <2>5 DEF Progress
<1>10. /\ received \in [Providers -> Seq(1 .. MaxCalls)]
       /\ running \in Nat /\ running <= MaxCalls /\ MaxCalls \in Nat
       /\ IsChannel => running \in 1 .. MaxCalls
  <2>1. /\ received \in [Providers -> Seq(1 .. MaxCalls)]
        /\ running \in Nat /\ running <= MaxCalls /\ MaxCalls \in Nat
    BY Types
  <2>2. IsChannel => running > 0
    BY <1>1 DEF IInv, Published
  <2> QED
    BY <2>1, <2>2
<1>11. IsChannel =>
         /\ received' \in [Providers -> Seq(1 .. MaxCalls)]
         /\ received'[h] = Append(received[h], running)
         /\ \A p \in Providers : p # h => received'[p] = received[p]
         /\ \A p \in Providers :
              ToSet(received'[p]) = ToSet(received[p]) \cup (IF p = h THEN {running} ELSE {})
         /\ \A p \in Providers : InTurn(received[p])'
  <2> SUFFICES ASSUME IsChannel
               PROVE  /\ received' \in [Providers -> Seq(1 .. MaxCalls)]
                      /\ received'[h] = Append(received[h], running)
                      /\ \A p \in Providers : p # h => received'[p] = received[p]
                      /\ \A p \in Providers : ToSet(received'[p]) =
                           ToSet(received[p]) \cup (IF p = h THEN {running} ELSE {})
                      /\ \A p \in Providers : InTurn(received[p])'
    OBVIOUS
  <2>1. received[h] \in Seq(1 .. MaxCalls) /\ running \in 1 .. MaxCalls
    BY <1>3, <1>10
  <2>2. /\ Append(received[h], running) \in Seq(1 .. MaxCalls)
        /\ ToSet(Append(received[h], running)) = ToSet(received[h]) \cup {running}
    <3> DEFINE S == 1 .. MaxCalls
    <3>1. received[h] \in Seq(S) /\ running \in S
      BY <2>1
    <3> HIDE DEF S
    <3>2. /\ Append(received[h], running) \in Seq(S)
          /\ ToSet(Append(received[h], running)) = ToSet(received[h]) \cup {running}
      BY <3>1, AppendElements
    <3> QED
      BY <3>2 DEF S
  <2>3. received' = [received EXCEPT ![h] = Append(received[h], running)]
    BY <1>1
  <2>4. /\ received' \in [Providers -> Seq(1 .. MaxCalls)]
        /\ received'[h] = Append(received[h], running)
        /\ \A p \in Providers : p # h => received'[p] = received[p]
    BY <1>3, <1>10, <2>2, <2>3
  <2>5. InTurn(Append(received[h], running))
    <3>1. InTurn(received[h]) /\ \A n \in ToSet(received[h]) : MayPrecede(n, running)
      BY <1>3 DEF IInv, Published
    <3> QED
      BY <2>1, <3>1, AppendInTurn
  <2>6. \A p \in Providers : InTurn(received[p])
    BY DEF IInv, Published
  <2>7. \A p \in Providers : ToSet(received'[p]) =
          ToSet(received[p]) \cup (IF p = h THEN {running} ELSE {})
    BY <2>2, <2>4
  <2>8. \A p \in Providers : InTurn(received'[p])
    BY <2>4, <2>5, <2>6
  <2>9. \A m, n : MayPrecede(m, n) => MayPrecede(m, n)'
    BY <1>1, MayPrecedeStays
  <2>10. \A p \in Providers : InTurn(received[p])'
    BY <2>8, <2>9 DEF InTurn
  <2> QED
    BY <2>4, <2>7, <2>10
<1>12. TypeOK'
  <2>1. received' \in [Providers -> Seq(1 .. MaxCalls)]
    BY <1>1, <1>10, <1>11
  <2>2. outcome' \in {NoOutcome, Failed, Undefined, Done}
                     \cup {Returned(p) : p \in Providers}
    BY <1>3, <1>4, <1>7 DEF IsOver, h
  <2>3. threw' \subseteq Providers
    <3>1. threw \subseteq Providers
      BY DEF IInv, TypeOK
    <3> QED
      BY <1>3, <1>4, <3>1
  <2>4. Len(ran') <= Len(offered')
    <3>1. /\ Len(ran') \in Nat /\ Len(iterating') \in Nat /\ Len(offered') \in Nat
      <4>1. Len(ran') \in Nat
        BY <1>5, LenProperties
      <4>2. Len(iterating') \in Nat
        BY <1>6, LenProperties
      <4>3. offered' = offered /\ offered \in Seq(Providers)
        BY <1>1, Types
      <4> QED
        BY <4>1, <4>2, <4>3, LenProperties
    <3>2. Len(ran') + Len(iterating') <= Len(offered')
      BY <1>8 DEF Ordered
    <3> QED
      BY <3>1, <3>2
  <2> QED
    BY <1>1, <1>5, <1>6, <2>1, <2>2, <2>3, <2>4 DEF IInv, TypeOK
<1>13. /\ IsChannel => GoesOn
       /\ IsChannel' <=> IsChannel
  BY <1>1, <1>4 DEF IsChannel, IsOver
<1>14. Published'
  <2>0. /\ calls \in Nat /\ seen \in [1 .. MaxCalls -> Nat] /\ calls <= MaxCalls
    BY Types
  <2>1. \A m : HasRun(m) => HasRun(m)'
    <3>1. ASSUME NEW m, HasRun(m)
          PROVE  seen[m] \in Nat
      <4>1. m \in 1 .. MaxCalls
        BY <1>10, <2>0, <3>1 DEF HasRun
      <4> QED
        BY <2>0, <4>1
    <3> QED
      BY <1>1, <2>0, <3>1, HasRunStays
  <2>2. \A m, n : MayPrecede(m, n) => MayPrecede(m, n)'
    BY <1>1, MayPrecedeStays
  <2>3. \A p \in Providers : InTurn(received[p])'
    <3>1. CASE IsChannel
      BY <1>11, <3>1
    <3>2. CASE ~IsChannel
      <4>1. received' = received /\ \A p \in Providers : InTurn(received[p])
        BY <1>1, <3>2 DEF IInv, Published
      <4> QED
        BY <2>2, <4>1 DEF InTurn
    <3> QED
      BY <3>1, <3>2
  <2>4. running # 0 => HasRun(running)'
    <3>1. running # 0 => HasRun(running)
      BY DEF IInv, Published
    <3> QED
      BY <1>1, <2>1, <3>1 DEF HasRun, MayPrecede
  <2>5. \A p \in Providers : \A m \in ToSet(received'[p]) : HasRun(m)'
    <3> SUFFICES ASSUME NEW p \in Providers, NEW m \in ToSet(received'[p])
                 PROVE  HasRun(m)'
      OBVIOUS
    <3>1. m \in ToSet(received[p]) \/ (IsChannel /\ m = running)
      BY <1>1, <1>11
    <3>2. CASE m \in ToSet(received[p])
      BY <2>1, <3>2 DEF IInv, Published
    <3>3. CASE IsChannel /\ m = running
      <4>1. running # 0 /\ HasRun(running)
        BY <1>10, <3>3 DEF IInv, Published
      <4> QED
        BY <2>1, <3>3, <4>1
    <3> QED
      BY <3>1, <3>2, <3>3
  <2>6. IsChannel =>
          \A p \in ToSet(iterating') : \A m \in ToSet(received'[p]) :
            MayPrecede(m, running)'
    <3> SUFFICES ASSUME IsChannel, NEW p \in ToSet(iterating'),
                        NEW m \in ToSet(received'[p])
                 PROVE  MayPrecede(m, running)'
      OBVIOUS
    <3>1. p \in ToSet(iterating) /\ p # h /\ p \in Providers
      BY <1>3, <1>6, Types
    <3>2. m \in ToSet(received[p])
      BY <1>11, <3>1
    <3>3. MayPrecede(m, running)
      BY <3>1, <3>2 DEF IInv, Published
    <3> QED
      BY <1>1, <3>3 DEF MayPrecede
  <2>7. running' # 0 => HasRun(running)'
    BY <1>1, <2>4
  <2>8. /\ IsChannel' /\ iterating' # Idle => running' > 0
        /\ pending' \subseteq 1 .. calls' /\ visible' <= calls'
        /\ \A p \in Providers : joined'[p] <= calls'
    <3>1. /\ pending \subseteq 1 .. calls /\ visible <= calls
          /\ \A p \in Providers : joined[p] <= calls
      BY DEF IInv, Published
    <3> QED
      BY <1>1, <1>10, <1>13, <3>1
  <2> QED
    BY <1>13, <2>3, <2>5, <2>6, <2>7, <2>8 DEF Published
<1>15. NoneMissed'
  <2> SUFFICES ASSUME IsChannel, NEW p \in ToSet(providers),
                      NEW n \in joined[p] + 1 .. calls
               PROVE  \/ n \in ToSet(received'[p]) \cup pending
                      \/ n = running /\ p \in ToSet(iterating')
    BY <1>1, <1>13 DEF NoneMissed
  <2>1. \/ n \in ToSet(received[p]) \cup pending
        \/ n = running /\ p \in ToSet(iterating)
    BY DEF IInv, NoneMissed
  <2>2. iterating' = t /\ p \in Providers
    BY <1>4, <1>13, Types
  <2> QED
    BY <1>3, <1>11, <2>1, <2>2
<1> QED
  BY <1>8, <1>9, <1>12, <1>14, <1>15 DEF IInv

LEMMA InitIInv == Init => IInv
<1> SUFFICES ASSUME Init
             PROVE  IInv
  OBVIOUS
<1>1. /\ MaxCalls \in Nat /\ calls = 0 /\ running = 0
      /\ providers = <<>> /\ iterating = <<>> /\ offered = <<>> /\ ran = <<>>
      /\ pending = {} /\ visible = 0 /\ used = {} /\ threw = {} /\ outcome = NoOutcome
      /\ joined = [p \in Providers |-> 0] /\ received = [p \in Providers |-> <<>>]
      /\ policy \in Policies /\ priority \in [Providers -> Priorities]
      /\ urgency = [n \in 1 .. MaxCalls |-> 0] /\ seen = [n \in 1 .. MaxCalls |-> 0]
  BY MethodDispatchAssumption DEF Init, Idle
<1>2. <<>> \in Seq(Providers) /\ <<>> \in Seq(1 .. MaxCalls) /\ Len(<<>>) = 0
  BY EmptySeq
<1>3. ToSet(<<>>) = {}
  BY <1>2, ToSetFacts
<1>4. TypeOK
  BY <1>1, <1>2 DEF TypeOK
<1>5. Ordered
  BY <1>1, <1>2, <1>3 DEF Ordered, InOrder, Before
<1>6. Progress
  BY <1>1, <1>2, <1>3 DEF Progress, Open, Idle
<1>7. InTurn(<<>>)
  BY <1>2 DEF InTurn
<1>8. Published
  BY <1>1, <1>3, <1>7 DEF Published, Idle
<1>9. NoneMissed
  BY <1>1, <1>3 DEF NoneMissed
<1> QED
  BY <1>4, <1>5, <1>6, <1>8, <1>9 DEF IInv

LEMMA NextIInv == IInv /\ [Next]_vars => IInv'
<1> SUFFICES ASSUME IInv, [Next]_vars
             PROVE  IInv'
  OBVIOUS
<1>1. CASE \E p \in Providers : Register(p) \/ Unregister(p)
  BY <1>1, RegisterIInv, UnregisterIInv
<1>2. CASE Call
  BY <1>2, CallIInv
<1>3. CASE \E u \in Priorities : Publish(u)
  BY <1>3, PublishIInv
<1>4. CASE Poll
  BY <1>4, PollIInv
<1>5. CASE RunPublished
  BY <1>5, RunPublishedIInv
<1>6. CASE ProviderReturns \/ ProviderThrows
  BY <1>6, TurnIInv
<1>7. CASE UNCHANGED vars
  BY <1>7 DEF vars, channelVars, queueVars, IInv, TypeOK, Ordered, Progress,
              Published, NoneMissed, Open, IsChannel, InTurn, HasRun, MayPrecede
<1> QED
  BY <1>1, <1>2, <1>3, <1>4, <1>5, <1>6, <1>7 DEF Next

(* The inductive invariant holds in every behaviour.                       *)
THEOREM Invariance == Spec => []IInv
<1> QED
  BY InitIInv, NextIInv, PTL DEF Spec

LEMMA IInvDispatch == IInv => DispatchInv
BY DEF IInv, Ordered, InOrder, DispatchInv, LowerCalledFirst

(* Within one call a provider runs at most once and never behind one of a  *)
(* higher priority, whoever registers or unregisters while the call runs.  *)
THEOREM LowerPrioritiesFirst == Spec => []DispatchInv
<1> QED
  BY Invariance, IInvDispatch, PTL

LEMMA IInvPolicies == IInv => PoliciesKept
<1> SUFFICES ASSUME IInv
             PROVE  PoliciesKept
  OBVIOUS
<1>1. Ended /\ ~IsChannel => outcome # NoOutcome
  BY DEF IInv, Progress, Ended
<1>2. FirstSuccess
  <2> SUFFICES ASSUME policy = "first_success", Ended
               PROVE  IF outcome = Failed
                      THEN threw = ToSet(ran)
                      ELSE /\ ran # <<>> /\ outcome = Returned(Last(ran))
                           /\ threw = ToSet(Front(ran))
    BY DEF FirstSuccess
  <2>1. outcome # NoOutcome
    BY <1>1 DEF IsChannel
  <2>2. Open <=> outcome = Failed
    BY <2>1 DEF Open
  <2>3. IF Open THEN threw = ToSet(ran)
        ELSE /\ ran # <<>> /\ outcome = Returned(Last(ran))
             /\ threw = ToSet(Front(ran))
    BY DEF IInv, Progress
  <2> QED
    BY <2>2, <2>3
<1>3. OnlyFirstCalled
  BY DEF IInv, Progress, OnlyFirstCalled
<1>4. AllTried
  <2> SUFFICES ASSUME policy # "first_provider", Ended, outcome = Failed
               PROVE  ToSet(offered) \cap ToSet(providers) \subseteq ToSet(ran)
    BY DEF AllTried
  <2>1. ToSet(iterating) = {}
    <3>1. iterating \in Seq(Providers) /\ iterating = <<>>
      BY Types DEF Ended, Idle
    <3> QED
      BY <3>1, ToSetFacts
  <2> QED
    BY <2>1 DEF IInv, Progress, Open
<1> QED
  BY <1>2, <1>3, <1>4 DEF PoliciesKept

(* first_success returns the value of the last provider it ran, behind     *)
(* ones that all threw, and throws only if every one did; first_provider   *)
(* never runs a second one; and a call that throws skipped nobody.         *)
THEOREM PoliciesAsDocumented == Spec => []PoliciesKept
<1> QED
  BY Invariance, IInvPolicies, PTL

LEMMA IInvSubscribers == IInv => SubscribersGetAll
<1> SUFFICES ASSUME IInv, NEW p \in ToSet(providers)
             PROVE  /\ \A i, j \in 1 .. Len(received[p]) :
                         i < j => MayPrecede(received[p][i], received[p][j])
                    /\ IsChannel /\ iterating = Idle =>
                         joined[p] + 1 .. calls
                           \subseteq ToSet(received[p]) \cup pending
  BY DEF SubscribersGetAll
<1>1. \A i, j \in 1 .. Len(received[p]) : i < j => MayPrecede(received[p][i], received[p][j])
  <2>1. p \in Providers
    BY Types
  <2> QED
    BY <2>1 DEF IInv, Published, InTurn
<1>2. ASSUME IsChannel, iterating = Idle
      PROVE  joined[p] + 1 .. calls \subseteq ToSet(received[p]) \cup pending
  <2>1. ToSet(iterating) = {}
    <3>1. iterating \in Seq(Providers) /\ iterating = <<>>
      BY <1>2, Types DEF Idle
    <3> QED
      BY <3>1, ToSetFacts
  <2> QED
    BY <1>2, <2>1 DEF IInv, NoneMissed
<1> QED
  BY <1>1, <1>2

(* Once its handler has run, a publication has reached every subscriber    *)
(* that had subscribed before it and still is, once, and only those whose  *)
(* handler is posted are open; a publication is never overtaken by a later *)
(* one of its priority, nor by one of a lower priority that ran behind a   *)
(* poll which had found both.                                              *)
THEOREM NoPublicationMissed == Spec => []SubscribersGetAll
<1> QED
  BY Invariance, IInvSubscribers, PTL

-----------------------------------------------------------------------------
(* Providers that come and go while a call runs                            *)

\* Those the current call has still to run, behind the one that is running.
Waiting == IF iterating = Idle THEN {} ELSE ToSet(Tail(iterating))

\* Who waits for its turn in a call is registered, and was when the call began:
\* a call runs no provider whose handle was released before its turn, and none
\* that was registered during the call.
OnlyTheConnectedWait ==
  /\ Waiting \subseteq ToSet(providers)
  /\ ToSet(iterating) \cup ToSet(ran) \subseteq ToSet(offered)

\* A call comes nearer to its end with each provider it runs, and nothing
\* that is registered, called or published meanwhile puts its end off.
CallsProgress ==
  [][iterating # Idle => /\ Len(iterating') <= Len(iterating)
                         /\ ran' # ran => Len(iterating') < Len(iterating)]_vars

LEMMA WaitingIs ==
  ASSUME IInv
  PROVE  /\ iterating = Idle => Waiting = {} /\ ToSet(iterating) = {}
         /\ iterating # Idle =>
              /\ Head(iterating) \in ToSet(iterating)
              /\ Waiting = ToSet(Tail(iterating))
              /\ Waiting = ToSet(iterating) \ {Head(iterating)}
<1>1. iterating \in Seq(Providers) /\ InOrder(iterating, priority)
  BY Types DEF IInv, Ordered
<1>2. CASE iterating = Idle
  <2>1. ToSet(iterating) = {}
    BY <1>1, <1>2, ToSetFacts DEF Idle
  <2> QED
    BY <1>2, <2>1 DEF Waiting
<1>3. CASE iterating # Idle
  <2>1. /\ Head(iterating) \in ToSet(iterating)
        /\ ToSet(Tail(iterating)) = ToSet(iterating) \ {Head(iterating)}
    BY <1>1, <1>3, TailInOrder DEF Idle
  <2> QED
    BY <1>3, <2>1 DEF Waiting
<1> QED
  BY <1>2, <1>3

\* What the turn of a provider leaves of the call.
LEMMA TurnSets ==
  ASSUME IInv, ProviderReturns \/ ProviderThrows
  PROVE  /\ iterating # Idle /\ UNCHANGED <<providers, offered>>
         /\ ToSet(iterating') = {} \/ ToSet(iterating') = Waiting
         /\ ToSet(ran') = ToSet(ran) \cup {Head(iterating)}
         /\ Len(iterating') < Len(iterating)
<1>1. /\ iterating # Idle /\ ran' = Append(ran, Head(iterating))
      /\ UNCHANGED <<providers, offered>>
  BY TurnTaken DEF Called
<1>2. iterating \in Seq(Providers) /\ iterating # <<>> /\ ran \in Seq(Providers)
  BY <1>1, Types DEF Idle
<1>3. /\ Len(iterating) \in Nat /\ Len(iterating) > 0
      /\ Len(Tail(iterating)) = Len(iterating) - 1
      /\ Head(iterating) \in Providers
  BY <1>2, EmptySeq
<1>4. ToSet(ran') = ToSet(ran) \cup {Head(iterating)}
  BY <1>1, <1>2, <1>3, AppendElements
<1>5. iterating' = Tail(iterating) \/ iterating' = Idle
  BY <1>1, AdvanceIsTail, TurnTaken DEF GoesOn, IsOver
<1>6. CASE iterating' = Tail(iterating)
  <2>1. ToSet(iterating') = Waiting
    BY <1>1, <1>6, WaitingIs
  <2> QED
    BY <1>1, <1>3, <1>4, <1>6, <2>1
<1>7. CASE iterating' = Idle
  <2>1. Idle \in Seq(Providers) /\ Len(Idle) = 0
    BY DEF Idle
  <2>2. ToSet(Idle) = {}
    BY <2>1, ToSetFacts DEF Idle
  <2> QED
    BY <1>1, <1>3, <1>4, <1>7, <2>1, <2>2
<1> QED
  BY <1>5, <1>6, <1>7

\* In the next state too.
LEMMA WaitingIsNext ==
  ASSUME IInv'
  PROVE  Len(iterating') \in Nat /\ Waiting' \subseteq ToSet(iterating')
<1>1. iterating' \in Seq(Providers) /\ InOrder(iterating', priority')
  BY DEF IInv, TypeOK, Ordered
<1>2. iterating' # Idle => ToSet(Tail(iterating')) \subseteq ToSet(iterating')
  BY <1>1, TailInOrder DEF Idle
<1> QED
  BY <1>1, <1>2 DEF Waiting

LEMMA OnlyTheConnectedStep ==
  ASSUME IInv, IInv', OnlyTheConnectedWait, [Next]_vars
  PROVE  OnlyTheConnectedWait'
<1> USE DEF OnlyTheConnectedWait
<1>0. Waiting' \subseteq ToSet(iterating')
  BY WaitingIsNext
<1>1. ASSUME NEW p \in Providers, Register(p)
      PROVE  OnlyTheConnectedWait'
  <2>1. ToSet(providers') = ToSet(providers) \cup {p}
    BY <1>1, Registered
  <2>2. UNCHANGED <<iterating, ran, offered>>
    BY <1>1 DEF Register
  <2> QED
    BY <2>1, <2>2 DEF Waiting
<1>2. ASSUME NEW p \in Providers, Unregister(p)
      PROVE  OnlyTheConnectedWait'
  <2>1. /\ ToSet(providers') = ToSet(providers) \ {p}
        /\ ToSet(iterating') \subseteq ToSet(iterating)
        /\ iterating' = Idle <=> iterating = Idle
        /\ iterating # Idle => ToSet(Tail(iterating')) = ToSet(Tail(iterating)) \ {p}
    BY <1>2, Unregistered
  <2>2. UNCHANGED <<ran, offered>>
    BY <1>2 DEF Unregister
  <2>3. Waiting' = Waiting \ {p}
    BY <2>1 DEF Waiting
  <2> QED
    BY <2>1, <2>2, <2>3
<1>3. CASE Emit
  <2>1. offered' = providers /\ iterating' = providers /\ ran' = <<>> /\ providers' = providers
    BY <1>3 DEF Emit
  <2>2. ToSet(ran') = {}
    <3>1. <<>> \in Seq(Providers)
      OBVIOUS
    <3> QED
      BY <2>1, <3>1, ToSetFacts
  <2> QED
    BY <1>0, <2>1, <2>2
<1>4. CASE ProviderReturns \/ ProviderThrows
  <2>1. /\ iterating # Idle /\ UNCHANGED <<providers, offered>>
        /\ ToSet(iterating') = {} \/ ToSet(iterating') = Waiting
        /\ ToSet(ran') = ToSet(ran) \cup {Head(iterating)}
    BY <1>4, TurnSets
  <2>2. Head(iterating) \in ToSet(iterating) /\ Waiting \subseteq ToSet(iterating)
    BY <2>1, WaitingIs
  <2> QED
    BY <1>0, <2>1, <2>2
<1>5. CASE (\E u \in Priorities : Publish(u)) \/ Poll \/ UNCHANGED vars
  <2>1. UNCHANGED <<providers, iterating, ran, offered>>
    BY <1>5 DEF Publish, Poll, vars
  <2> QED
    BY <2>1 DEF Waiting
<1> QED
  BY <1>1, <1>2, <1>3, <1>4, <1>5 DEF Next, Call, RunPublished

(* Who is unregistered while a call runs is not called by it any more,     *)
(* unless it is the provider that runs, and who registers is not called    *)
(* before the next call.                                                   *)
THEOREM ReleasedAreNotCalled == Spec => []OnlyTheConnectedWait
<1>1. Init => OnlyTheConnectedWait
  <2>1. ToSet(<<>>) = {}
    <3>1. <<>> \in Seq(Providers)
      OBVIOUS
    <3> QED
      BY <3>1, ToSetFacts
  <2> QED
    BY <2>1 DEF Init, OnlyTheConnectedWait, Waiting, Idle
<1>2. IInv /\ IInv' /\ OnlyTheConnectedWait /\ [Next]_vars => OnlyTheConnectedWait'
  BY OnlyTheConnectedStep
<1> QED
  BY <1>1, <1>2, Invariance, PTL DEF Spec

(* A call ends after at most as many turns as there were providers when it *)
(* began, if each of them returns or throws.                               *)
THEOREM CallsAreFinite == Spec => CallsProgress
<1>1. ASSUME IInv, Next, iterating # Idle
      PROVE  /\ Len(iterating') <= Len(iterating)
             /\ ran' # ran => Len(iterating') < Len(iterating)
  <2>0. Len(iterating) \in Nat /\ IInv'
    BY <1>1, Types, NextIInv
  <2>1. ASSUME NEW p \in Providers, Register(p) \/ Unregister(p)
        PROVE  Len(iterating') <= Len(iterating) /\ ran' = ran
    <3>1. CASE Register(p)
      BY <2>0, <3>1 DEF Register
    <3>2. CASE Unregister(p)
      <4>1. Len(iterating') <= Len(iterating)
        BY <1>1, <3>2, Unregistered
      <4> QED
        BY <3>2, <4>1 DEF Unregister
    <3> QED
      BY <2>1, <3>1, <3>2
  <2>2. CASE ProviderReturns \/ ProviderThrows
    <3>1. Len(iterating') < Len(iterating)
      BY <1>1, <2>2, TurnSets
    <3>2. Len(iterating') \in Nat
      BY <2>0, WaitingIsNext
    <3> QED
      BY <2>0, <3>1, <3>2
  <2>3. CASE (\E u \in Priorities : Publish(u)) \/ Poll
    BY <2>0, <2>3 DEF Publish, Poll
  <2>4. ~Call /\ ~RunPublished
    BY <1>1 DEF Call, RunPublished, Emit
  <2> QED
    BY <1>1, <2>1, <2>2, <2>3, <2>4 DEF Next
<1>2. IInv /\ [Next]_vars =>
        [iterating # Idle => /\ Len(iterating') <= Len(iterating)
                             /\ ran' # ran => Len(iterating') < Len(iterating)]_vars
  BY <1>1, Zenon
<1> QED
  BY <1>2, Invariance, PTL DEF Spec, CallsProgress
=============================================================================
