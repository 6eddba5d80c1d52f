---------------------- MODULE ConversationMemoryProofs ----------------------
(***************************************************************************)
(* ConversationMemory implements SessionMemory: for any messages, spaces   *)
(* and instances, and any cap, the transactions add up to one append after *)
(* the other.                                                              *)
(***************************************************************************)
EXTENDS ConversationMemory, Recursion, SequenceTheorems, TLAPS

\* A message has a session.
LEMMA KeyIsAKey ==
    ASSUME NEW m \in Messages
    PROVE  Key(m) \in Keys
BY DEF Keys

\* A message that has not ended has no turn of its answer.
LEMMA NotEnded ==
    ASSUME NEW x, x \in {"unsent"} \cup Running
    PROVE  x \notin Ended
BY DEF Running, Ended

\* Trimming keeps the type of what it trims.
LEMMA TrimmedType ==
    ASSUME NEW s \in Seq(Turns)
    PROVE  Trimmed(s) \in Seq(Turns)
<1>1. CASE Len(s) <= MaxTurns
  BY <1>1 DEF Trimmed
<1>2. CASE ~(Len(s) <= MaxTurns)
  <2>1. MaxTurns \in Nat \ {0} /\ Len(s) \in Nat
    BY MemoryAssumption
  <2>2. Len(s) - MaxTurns + 1 \in 1 .. Len(s) + 1 /\ Len(s) \in 0 .. Len(s)
    BY <1>2, <2>1
  <2>3. SubSeq(s, Len(s) - MaxTurns + 1, Len(s)) \in Seq(Turns)
    BY <2>1, <2>2
  <2> QED BY <1>2, <2>3 DEF Trimmed
<1> QED BY <1>1, <1>2

(***************************************************************************)
(* What a handler reads.                                                   *)
(***************************************************************************)

\* A turn counts something.
LEMMA CostIsNat ==
    ASSUME NEW t \in Turns
    PROVE  Cost(t) \in Nat
BY MemoryAssumption DEF Cost, Turns, Roles

\* The sums that Total is the last of.
LEMMA TotalSums ==
    ASSUME NEW s \in Seq(Turns)
    PROVE  \E f \in [0 .. Len(s) -> Nat] :
              /\ f[0] = 0 /\ \A k \in 1 .. Len(s) : f[k] = f[k - 1] + Cost(s[k])
              /\ Total(s) = f[Len(s)]
<1> DEFINE n == Len(s)
           sum(f) == [k \in 0 .. n |-> IF k = 0 THEN 0 ELSE f[k - 1] + Cost(s[k])]
           step == [k \in 1 .. n |-> [v \in Nat |-> v + Cost(s[k])]]
<1>1. step \in [1 .. n -> [Nat -> Nat]] /\ n \in Nat
  <2>1. \A k \in 1 .. n : Cost(s[k]) \in Nat
    BY CostIsNat
  <2> QED BY <2>1
<1>2. PICK f \in [0 .. n -> Nat] : Takes(f, n, 0, step)
  BY <1>1, FiniteRecursion
<1>3. f[0] = 0 /\ \A k \in 1 .. n : f[k] = f[k - 1] + Cost(s[k])
  <2>1. ASSUME NEW k \in 1 .. n
        PROVE  f[k] = f[k - 1] + Cost(s[k])
    <3>1. f[k - 1] \in Nat
      <4>1. k - 1 \in 0 .. n
        BY <1>1
      <4> HIDE DEF n
      <4> QED BY <4>1
    <3>2. f[k] = step[k][f[k - 1]]
      BY <1>2 DEF Takes
    <3>3. step[k] = [v \in Nat |-> v + Cost(s[k])]
      OBVIOUS
    <3> HIDE DEF step
    <3> QED BY <3>1, <3>2, <3>3
  <2> QED BY <1>2, <2>1 DEF Takes
<1>4. f = sum(f)
  <2>1. ASSUME NEW k \in 0 .. n
        PROVE  f[k] = IF k = 0 THEN 0 ELSE f[k - 1] + Cost(s[k])
    BY <1>1, <1>3
  <2>2. f = [k \in 0 .. n |-> f[k]]
    OBVIOUS
  <2> QED BY <2>1, <2>2, Zenon
<1> DEFINE upto == CHOOSE g : g = sum(g)
<1>5. upto = sum(upto)
  BY <1>4
<1>6. Total(s) = upto[n]
  BY DEF Total
<1> HIDE DEF upto
<1> DEFINE same == {k \in 0 .. n : upto[k] = f[k]}
<1>7. 0 \in same
  BY <1>1, <1>3, <1>5
<1>8. ASSUME NEW k \in 1 .. n, k - 1 \in same
      PROVE  k \in same
  BY <1>1, <1>3, <1>5, <1>8
<1> HIDE DEF same
<1>9. \A k \in 0 .. n : k \in same
  BY <1>1, <1>7, <1>8, BoundedInduction
<1>10. upto[n] = f[n]
  BY <1>1, <1>9 DEF same
<1> QED BY <1>3, <1>6, <1>10

\* What get_recent has in hand on its way.
KeptTurns == [kept : Seq(Turns), used : Nat, full : BOOLEAN]

\* One step of it keeps that.
LEMMA KeepKept ==
    ASSUME NEW t \in Turns, NEW acc \in KeptTurns
    PROVE  Keep(t, acc) \in KeptTurns
<1>1. Cost(t) \in Nat
  BY CostIsNat
<1>2. acc.kept \in Seq(Turns) /\ acc.used \in Nat /\ acc.used + Cost(t) \in Nat
      /\ <<t>> \o acc.kept \in Seq(Turns)
  BY <1>1 DEF KeptTurns
<1>3. CASE acc.full \/ (acc.used + Cost(t) > Budget /\ acc.kept # <<>>)
  <2>1. Keep(t, acc) = [acc EXCEPT !.full = TRUE]
    BY <1>3 DEF Keep
  <2> QED BY <2>1 DEF KeptTurns
<1>4. CASE ~(acc.full \/ (acc.used + Cost(t) > Budget /\ acc.kept # <<>>))
  <2>1. Keep(t, acc) = [acc EXCEPT !.kept = <<t>> \o acc.kept, !.used = acc.used + Cost(t)]
    BY <1>4 DEF Keep
  <2> QED BY <1>2, <2>1 DEF KeptTurns
<1> QED BY <1>3, <1>4

\* The steps of get_recent, of which Recent is the last.
LEMMA RecentSteps ==
    ASSUME NEW s \in Seq(Turns)
    PROVE  \E f \in [0 .. Len(s) -> KeptTurns] :
              /\ f[0] = NoneKept
              /\ \A k \in 1 .. Len(s) : f[k] = Keep(s[Len(s) - k + 1], f[k - 1])
              /\ Recent(s) = f[Len(s)].kept
<1> DEFINE n == Len(s)
           walk(f) == [k \in 0 .. n |-> IF k = 0 THEN NoneKept
                                        ELSE Keep(s[n - k + 1], f[k - 1])]
           step == [k \in 1 .. n |-> [v \in KeptTurns |-> Keep(s[n - k + 1], v)]]
<1>1. n \in Nat /\ \A k \in 1 .. n : s[n - k + 1] \in Turns
  OBVIOUS
<1>2. NoneKept \in KeptTurns
  BY Zenon, EmptySeq DEF NoneKept, KeptTurns
<1>3. step \in [1 .. n -> [KeptTurns -> KeptTurns]]
  <2>1. \A k \in 1 .. n : \A v \in KeptTurns : Keep(s[n - k + 1], v) \in KeptTurns
    BY <1>1, KeepKept
  <2> QED BY <2>1
<1>4. PICK f \in [0 .. n -> KeptTurns] : Takes(f, n, NoneKept, step)
  BY <1>1, <1>2, <1>3, FiniteRecursion
<1>5. ASSUME NEW k \in 1 .. n
      PROVE  f[k] = Keep(s[n - k + 1], f[k - 1])
  <2>1. f[k - 1] \in KeptTurns
    <3>1. k - 1 \in 0 .. n
      BY <1>1
    <3> HIDE DEF n
    <3> QED BY <3>1
  <2>2. f[k] = step[k][f[k - 1]]
    BY <1>4 DEF Takes
  <2>3. step[k] = [v \in KeptTurns |-> Keep(s[n - k + 1], v)]
    OBVIOUS
  <2> HIDE DEF step
  <2> QED BY <2>1, <2>2, <2>3
<1>6. f[0] = NoneKept
  BY <1>4 DEF Takes
<1>7. f = walk(f)
  <2>1. ASSUME NEW k \in 0 .. n
        PROVE  f[k] = IF k = 0 THEN NoneKept ELSE Keep(s[n - k + 1], f[k - 1])
    BY <1>1, <1>5, <1>6
  <2>2. f = [k \in 0 .. n |-> f[k]]
    OBVIOUS
  <2> QED BY <2>1, <2>2, Zenon
<1> DEFINE last == CHOOSE g : g = walk(g)
<1>8. last = walk(last)
  BY <1>7
<1>9. Recent(s) = last[n].kept
  BY DEF Recent
<1> HIDE DEF last
<1> DEFINE same == {k \in 0 .. n : last[k] = f[k]}
<1>10. 0 \in same
  BY <1>1, <1>6, <1>8
<1>11. ASSUME NEW k \in 1 .. n, k - 1 \in same
       PROVE  k \in same
  BY <1>1, <1>5, <1>8, <1>11
<1> HIDE DEF same
<1>12. \A k \in 0 .. n : k \in same
  BY <1>1, <1>10, <1>11, BoundedInduction
<1>13. last[n] = f[n]
  BY <1>1, <1>12 DEF same
<1> QED BY <1>5, <1>6, <1>9, <1>13

\* The last k turns of s, with one more.
LastOf(s, k) == SubSeq(s, Len(s) - k + 1, Len(s))

LEMMA OneMore ==
    ASSUME NEW s \in Seq(Turns), NEW k \in 0 .. Len(s) - 1
    PROVE  /\ LastOf(s, k) \in Seq(Turns) /\ Len(LastOf(s, k)) = k
           /\ LastOf(s, k + 1) = <<s[Len(s) - k]>> \o LastOf(s, k)
           /\ s[Len(s) - k] \in Turns
<1> DEFINE n == Len(s)  m == n - k  one == <<s[m]>>
<1>1. n \in Nat /\ m \in 1 .. n /\ s[m] \in Turns
  OBVIOUS
<1>2. /\ LastOf(s, k) \in Seq(Turns) /\ Len(LastOf(s, k)) = k
      /\ \A i \in 1 .. k : LastOf(s, k)[i] = s[m + i]
  BY <1>1 DEF LastOf
<1>3. /\ LastOf(s, k + 1) \in Seq(Turns) /\ Len(LastOf(s, k + 1)) = k + 1
      /\ \A i \in 1 .. k + 1 : LastOf(s, k + 1)[i] = s[m - 1 + i]
  BY <1>1 DEF LastOf
<1>4. one \in Seq(Turns) /\ Len(one) = 1 /\ one[1] = s[m]
  BY <1>1
<1>5. /\ one \o LastOf(s, k) \in Seq(Turns) /\ Len(one \o LastOf(s, k)) = k + 1
      /\ \A i \in 1 .. k + 1 :
            (one \o LastOf(s, k))[i] = IF i <= 1 THEN s[m] ELSE LastOf(s, k)[i - 1]
  BY <1>2, <1>4, ConcatProperties
<1>6. ASSUME NEW i \in 1 .. k + 1
      PROVE  LastOf(s, k + 1)[i] = (one \o LastOf(s, k))[i]
  <2>1. CASE i = 1
    BY <1>1, <1>3, <1>5, <2>1
  <2>2. CASE i # 1
    <3>1. i - 1 \in 1 .. k /\ m + (i - 1) = m - 1 + i
      BY <1>1, <2>2
    <3>2. LastOf(s, k)[i - 1] = s[m + (i - 1)]
      BY <1>2, <3>1
    <3> QED BY <1>3, <1>5, <2>2, <3>1, <3>2
  <2> QED BY <2>1, <2>2
<1>7. LastOf(s, k + 1) = one \o LastOf(s, k)
  BY <1>3, <1>5, <1>6, SeqEqual
<1> QED BY <1>1, <1>2, <1>7

\* get_recent returns turns.
LEMMA RecentType ==
    ASSUME NEW s \in Seq(Turns)
    PROVE  Recent(s) \in Seq(Turns)
<1>1. PICK f \in [0 .. Len(s) -> KeptTurns] : Recent(s) = f[Len(s)].kept
  BY RecentSteps
<1>2. f[Len(s)] \in KeptTurns
  <2>1. Len(s) \in 0 .. Len(s)
    OBVIOUS
  <2> QED BY <2>1
<1>3. f[Len(s)].kept \in Seq(Turns)
  BY <1>2 DEF KeptTurns
<1> QED BY <1>1, <1>3, Zenon

\* The total does not depend on the side that it is summed from.
LEMMA TotalOfOneMore ==
    ASSUME NEW t \in Turns, NEW s \in Seq(Turns)
    PROVE  /\ Total(s) \in Nat
           /\ Total(<<t>> \o s) = Cost(t) + Total(s)
<1> DEFINE n == Len(s)  more == <<t>> \o s
<1>1. n \in Nat /\ Cost(t) \in Nat
  BY CostIsNat
<1>2. /\ more \in Seq(Turns) /\ Len(more) = n + 1
      /\ more[1] = t /\ \A k \in 1 .. n : more[k + 1] = s[k]
  <2>1. <<t>> \in Seq(Turns) /\ Len(<<t>>) = 1 /\ <<t>>[1] = t
    OBVIOUS
  <2>2. /\ more \in Seq(Turns) /\ Len(more) = 1 + n
        /\ \A k \in 1 .. 1 + n : more[k] = IF k <= 1 THEN <<t>>[k] ELSE s[k - 1]
    BY <2>1, ConcatProperties
  <2> HIDE DEF more
  <2> QED BY <1>1, <2>1, <2>2
<1> HIDE DEF more
<1>3. PICK f \in [0 .. n -> Nat] :
         /\ f[0] = 0 /\ \A k \in 1 .. n : f[k] = f[k - 1] + Cost(s[k])
         /\ Total(s) = f[n]
  BY TotalSums
<1>4. PICK g \in [0 .. n + 1 -> Nat] :
         /\ g[0] = 0 /\ \A k \in 1 .. n + 1 : g[k] = g[k - 1] + Cost(more[k])
         /\ Total(more) = g[n + 1]
  BY <1>2, TotalSums
<1> DEFINE shifted == {k \in 0 .. n : g[k + 1] = Cost(t) + f[k]}
<1>5. 0 \in shifted
  <2>1. g[1] = g[0] + Cost(t)
    BY <1>1, <1>2, <1>4
  <2> QED BY <1>1, <1>3, <1>4, <2>1
<1>6. ASSUME NEW k \in 1 .. n, k - 1 \in shifted
      PROVE  k \in shifted
  <2>1. f[k] = f[k - 1] + Cost(s[k])
    BY <1>3
  <2>2. g[k + 1] = g[k] + Cost(s[k])
    <3>1. k + 1 \in 1 .. n + 1 /\ (k + 1) - 1 = k
      BY <1>1
    <3> QED BY <1>2, <1>4, <3>1
  <2>3. g[k] = Cost(t) + f[k - 1]
    BY <1>1, <1>6
  <2>4. f[k - 1] \in Nat /\ Cost(s[k]) \in Nat /\ k \in 0 .. n
    <3>1. k - 1 \in 0 .. n /\ s[k] \in Turns
      BY <1>1
    <3> HIDE DEF n
    <3> QED BY <1>1, <3>1, CostIsNat
  <2> HIDE DEF n
  <2> QED BY <1>1, <2>1, <2>2, <2>3, <2>4
<1> HIDE DEF shifted
<1>7. \A k \in 0 .. n : k \in shifted
  BY <1>1, <1>5, <1>6, BoundedInduction
<1>8. g[n + 1] = Cost(t) + f[n] /\ f[n] \in Nat
  BY <1>1, <1>7 DEF shifted
<1> QED BY <1>3, <1>4, <1>8 DEF more

\* What get_recent has in hand when it has seen the last k turns: the last j of
\* them, as many as the budget allows, or all of them.
Holding(acc, s, k) ==
    \E j \in 0 .. k :
        /\ acc.kept = LastOf(s, j) /\ acc.used = Total(LastOf(s, j))
        /\ k > 0 => j > 0
        /\ j <= 1 \/ Total(LastOf(s, j)) <= Budget
        /\ ~acc.full => j = k
        /\ acc.full => j < k /\ Total(LastOf(s, j + 1)) > Budget

\* One turn more is kept, or does not fit, or none is looked at any more.
LEMMA KeepHolds ==
    ASSUME NEW s \in Seq(Turns), NEW k \in 0 .. Len(s) - 1, NEW acc \in KeptTurns,
           Holding(acc, s, k)
    PROVE  Holding(Keep(s[Len(s) - k], acc), s, k + 1)
<1>1. PICK j \in 0 .. k :
        /\ acc.kept = LastOf(s, j) /\ acc.used = Total(LastOf(s, j))
        /\ k > 0 => j > 0
        /\ j <= 1 \/ Total(LastOf(s, j)) <= Budget
        /\ ~acc.full => j = k
        /\ acc.full => j < k /\ Total(LastOf(s, j + 1)) > Budget
  BY DEF Holding
<1>2. Len(s) \in Nat /\ Budget \in Nat /\ acc.full \in BOOLEAN
  <2>1. acc.full \in BOOLEAN
    BY Zenon DEF KeptTurns
  <2> QED BY <2>1, MemoryAssumption
<1>3. k \in Nat /\ k < Len(s) /\ j \in 0 .. Len(s) - 1
  BY <1>2
<1>4. PICK t \in Turns : t = s[Len(s) - k] /\ LastOf(s, k + 1) = <<t>> \o LastOf(s, k)
  BY <1>3, OneMore
<1>5. /\ Len(LastOf(s, j)) = j
      /\ LastOf(s, k) \in Seq(Turns) /\ Len(LastOf(s, k)) = k
  BY <1>3, OneMore
<1>6. /\ Total(LastOf(s, k)) \in Nat /\ Cost(t) \in Nat
      /\ Total(LastOf(s, k + 1)) = Total(LastOf(s, k)) + Cost(t)
  <2>1. /\ Total(LastOf(s, k)) \in Nat /\ Cost(t) \in Nat
        /\ Total(<<t>> \o LastOf(s, k)) = Cost(t) + Total(LastOf(s, k))
    BY <1>5, TotalOfOneMore, CostIsNat
  <2>2. Total(LastOf(s, k + 1)) = Total(<<t>> \o LastOf(s, k))
    BY <1>4, Zenon
  <2> QED BY <2>1, <2>2
<1>7. ASSUME acc.full
      PROVE  Holding(Keep(t, acc), s, k + 1)
  <2>1. Keep(t, acc) = [acc EXCEPT !.full = TRUE]
    BY <1>7 DEF Keep
  <2>2. Keep(t, acc).kept = acc.kept /\ Keep(t, acc).used = acc.used /\ Keep(t, acc).full
    BY <2>1 DEF KeptTurns
  <2>3. j \in 0 .. k + 1 /\ j > 0 /\ j < k + 1
    BY <1>1, <1>2, <1>3, <1>7
  <2> QED BY <1>1, <1>7, <2>2, <2>3 DEF Holding
<1>8. ASSUME ~acc.full, acc.used + Cost(t) > Budget, acc.kept # <<>>
      PROVE  Holding(Keep(t, acc), s, k + 1)
  <2>1. Keep(t, acc) = [acc EXCEPT !.full = TRUE]
    BY <1>8 DEF Keep
  <2>2. Keep(t, acc).kept = acc.kept /\ Keep(t, acc).used = acc.used /\ Keep(t, acc).full
    BY <2>1 DEF KeptTurns
  <2>3. j = k /\ Total(LastOf(s, j + 1)) > Budget
    BY <1>1, <1>6, <1>8
  <2>4. j > 0
    BY <1>1, <1>3, <1>5, <1>8
  <2>5. j \in 0 .. k + 1 /\ j < k + 1
    BY <1>3, <2>3
  <2> QED BY <1>1, <2>2, <2>3, <2>4, <2>5 DEF Holding
<1>9. ASSUME ~acc.full, ~(acc.used + Cost(t) > Budget /\ acc.kept # <<>>)
      PROVE  Holding(Keep(t, acc), s, k + 1)
  <2>1. Keep(t, acc) = [acc EXCEPT !.kept = <<t>> \o acc.kept, !.used = acc.used + Cost(t)]
    BY <1>9 DEF Keep
  <2>2. j = k /\ acc.kept = LastOf(s, k) /\ acc.used = Total(LastOf(s, k))
    BY <1>1, <1>9
  <2>3. /\ Keep(t, acc).kept = LastOf(s, k + 1)
        /\ Keep(t, acc).used = Total(LastOf(s, k + 1))
        /\ ~Keep(t, acc).full
    BY <1>4, <1>6, <1>9, <2>1, <2>2 DEF KeptTurns
  <2>4. k + 1 <= 1 \/ Total(LastOf(s, k + 1)) <= Budget
    <3>1. CASE acc.kept = <<>>
      BY <1>3, <1>5, <2>2, <3>1
    <3>2. CASE acc.kept # <<>>
      BY <1>2, <1>6, <1>9, <2>2, <3>2
    <3> QED BY <3>1, <3>2
  <2>5. k + 1 \in 0 .. k + 1 /\ k + 1 > 0
    BY <1>3
  <2> HIDE DEF Keep
  <2> QED BY <2>3, <2>4, <2>5 DEF Holding
<1> QED BY <1>4, <1>7, <1>8, <1>9

\* What get_recent returns of any session.
LEMMA RecentIsNewest ==
    ASSUME NEW s \in Seq(Turns)
    PROVE  NewestWithinBudget(Recent(s), s)
<1> DEFINE n == Len(s)
<1>1. n \in Nat
  OBVIOUS
<1>2. PICK f \in [0 .. n -> KeptTurns] :
         /\ f[0] = NoneKept
         /\ \A k \in 1 .. n : f[k] = Keep(s[n - k + 1], f[k - 1])
         /\ Recent(s) = f[n].kept
  BY RecentSteps
<1> DEFINE held == {k \in 0 .. n : Holding(f[k], s, k)}
<1>3. 0 \in held
  <2>1. LastOf(s, 0) = <<>>
    BY <1>1 DEF LastOf
  <2>2. Total(<<>>) = 0
    <3>1. <<>> \in Seq(Turns) /\ Len(<<>>) = 0
      OBVIOUS
    <3> QED BY <3>1, TotalSums
  <2>3. f[0].kept = <<>> /\ f[0].used = 0 /\ ~f[0].full
    BY <1>2 DEF NoneKept
  <2>4. 0 \in 0 .. 0 /\ ~(0 > 0) /\ 0 <= 1
    OBVIOUS
  <2>5. Holding(f[0], s, 0)
    BY <2>1, <2>2, <2>3, <2>4 DEF Holding
  <2> QED BY <1>1, <2>5
<1>4. ASSUME NEW k \in 1 .. n, k - 1 \in held
      PROVE  k \in held
  <2>1. PICK h \in 0 .. n - 1 : h = k - 1 /\ k = h + 1 /\ n - k + 1 = n - h
    BY <1>1
  <2>2. Holding(f[h], s, h) /\ f[h] \in KeptTurns
    <3>1. h \in 0 .. n
      BY <1>1
    <3> QED BY <1>4, <2>1, <3>1
  <2>3. f[k] = Keep(s[n - h], f[h])
    BY <1>2, <2>1
  <2>4. Holding(Keep(s[n - h], f[h]), s, h + 1)
    BY <2>2, KeepHolds
  <2>5. k \in 0 .. n
    BY <1>1
  <2> HIDE DEF n
  <2> QED BY <2>1, <2>3, <2>4, <2>5
<1> HIDE DEF held
<1>5. \A k \in 0 .. n : k \in held
  BY <1>1, <1>3, <1>4, BoundedInduction
<1>6. Holding(f[n], s, n) /\ f[n] \in KeptTurns
  BY <1>1, <1>5 DEF held
<1>7. PICK j \in 0 .. n :
        /\ f[n].kept = LastOf(s, j)
        /\ n > 0 => j > 0
        /\ j <= 1 \/ Total(LastOf(s, j)) <= Budget
        /\ ~f[n].full => j = n
        /\ f[n].full => j < n /\ Total(LastOf(s, j + 1)) > Budget
  BY <1>6 DEF Holding
<1>8. Recent(s) = LastOf(s, j) /\ Len(LastOf(s, j)) = j
  BY <1>1, <1>2, <1>7 DEF LastOf
<1>9. s # <<>> => n > 0
  BY <1>1
<1>10. s # <<>> => j > 0 /\ (j = 1 \/ Total(LastOf(s, j)) <= Budget)
  BY <1>1, <1>7, <1>9
<1>11. j < n => Total(LastOf(s, j + 1)) > Budget
  BY <1>1, <1>7
<1> HIDE DEF n
<1>12. j <= n
  BY <1>1
<1> QED BY <1>8, <1>10, <1>11, <1>12 DEF NewestWithinBudget, LastOf, n

(***************************************************************************)
(* The invariant.                                                          *)
(***************************************************************************)

\* Initially nothing is in a transaction.
LEMMA InitMemory == Init => MemoryInv
<1> SUFFICES ASSUME Init PROVE MemoryInv
  OBVIOUS
<1>1. TypeOK
  BY MemoryAssumption DEF Init, TypeOK, Roles, Turns
<1>2. TxnInv
  <2>1. 0 < MaxAttempts
    BY MemoryAssumption
  <2> QED BY <2>1 DEF Init, TxnInv
<1> QED BY <1>1, <1>2 DEF MemoryInv

\* What a handler read goes with it.
LEMMA EndsType ==
    ASSUME TypeOK, NEW m \in Messages, NEW place, EndsAt(m, place)
    PROVE  history' \in [Messages -> Seq(Turns)]
<1>1. <<>> \in Seq(Turns) /\ history \in [Messages -> Seq(Turns)]
  BY DEF TypeOK
<1>2. history' = [history EXCEPT ![m] = <<>>]
  BY DEF EndsAt
<1> QED BY ONLY <1>1, <1>2

\* What the steps before the appending leave as it is.
LEMMA HandlerSteps ==
    ASSUME MemoryInv, NEW m \in Messages, NEW place \in Running \cup Ended,
           pc[m] \notin Ended,
           pc' = [pc EXCEPT ![m] = place],
           history' \in [Messages -> Seq(Turns)],
           UNCHANGED <<doc, txn, resets, committed>>
    PROVE  MemoryInv'
<1> USE DEF MemoryInv, txn
<1>1. TypeOK'
  BY DEF TypeOK
<1>2. TxnInv'
  BY DEF TxnInv, TypeOK
<1> QED BY <1>1, <1>2

\* Writing a turn: what goes into the document, whoever else had read it.
LEMMA Writing ==
    ASSUME MemoryInv, NEW m \in Messages, pc[m] = "append", open[m] = "open",
           WriteTurn(m)
    PROVE  /\ open' \in [Messages -> {"no", "open", "stale"}]
           /\ snap' \in [Messages -> Seq(Turns)]
           /\ tries' \in [Messages -> 0 .. MaxAttempts]
           /\ committed' \subseteq Messages \X Roles
           /\ doc' \in [Keys -> Seq(Turns)]
           /\ \A n \in Messages : open'[n] = "open" => snap'[n] = doc'[Key(n)]
           /\ \A n \in Messages : open'[n] = "no" => tries'[n] < MaxAttempts
           /\ \E t \in Turns :
                 /\ t.of = m /\ t.role = role[m]
                 /\ doc' = [doc EXCEPT ![Key(m)] = Trimmed(Append(@, t))]
<1> USE DEF MemoryInv, TypeOK
<1>1. PICK scan \in Scans :
         doc' = [doc EXCEPT ![Key(m)] =
                   Trimmed(Append(snap[m], [of |-> m, role |-> role[m],
                                            text |-> Stored(scan)]))]
  BY DEF WriteTurn
<1> DEFINE t == [of |-> m, role |-> role[m], text |-> Stored(scan)]
<1>2. Stored(scan) \in Texts
  BY DEF Scans, Stored, Texts
<1>3. t \in Turns /\ t.of = m /\ t.role = role[m]
  BY <1>2 DEF Turns
<1>4. Key(m) \in Keys
  BY KeyIsAKey
<1>5. snap[m] = doc[Key(m)]
  BY DEF TxnInv
<1>6. Append(doc[Key(m)], t) \in Seq(Turns)
  BY <1>3, <1>4
<1>7. Trimmed(Append(doc[Key(m)], t)) \in Seq(Turns)
  BY <1>6, TrimmedType
<1> HIDE DEF t
<1>8. doc' = [doc EXCEPT ![Key(m)] = Trimmed(Append(doc[Key(m)], t))]
  BY <1>1, <1>5 DEF t
<1>9. doc' \in [Keys -> Seq(Turns)]
  BY <1>7, <1>8
<1>10. open' = [Outdated(Key(m)) EXCEPT ![m] = "no"]
  BY DEF WriteTurn
<1>11. open' \in [Messages -> {"no", "open", "stale"}]
  BY <1>10 DEF Outdated
<1>12. /\ snap' = [snap EXCEPT ![m] = <<>>]
       /\ tries' = [tries EXCEPT ![m] = 0]
       /\ committed' = committed \cup {<<m, role[m]>>}
  BY DEF WriteTurn
<1>13. snap' \in [Messages -> Seq(Turns)]
  BY <1>12
<1>14. tries' \in [Messages -> 0 .. MaxAttempts]
  BY <1>12, MemoryAssumption
<1>15. committed' \subseteq Messages \X Roles
  BY <1>12
<1>16. ASSUME NEW n \in Messages, open'[n] = "open"
       PROVE  snap'[n] = doc'[Key(n)]
  <2>1. n # m /\ open[n] = "open" /\ Key(n) # Key(m)
    BY <1>10, <1>16 DEF Outdated
  <2>2. snap[n] = doc[Key(n)] /\ snap'[n] = snap[n]
    BY <2>1, <1>12 DEF TxnInv
  <2>3. doc'[Key(n)] = doc[Key(n)]
    BY <2>1, <1>8, KeyIsAKey
  <2> QED BY <2>2, <2>3
<1>17. ASSUME NEW n \in Messages, open'[n] = "no"
       PROVE  tries'[n] < MaxAttempts
  <2>1. n = m \/ open[n] = "no"
    BY <1>10, <1>17 DEF Outdated
  <2>2. CASE n = m
    <3>1. tries'[n] = 0
      BY <2>2, <1>12
    <3> QED BY <3>1, MemoryAssumption
  <2>3. CASE n # m
    <3>1. tries'[n] = tries[n] /\ open[n] = "no"
      BY <2>1, <2>3, <1>12
    <3> QED BY <3>1 DEF TxnInv
  <2> QED BY <2>2, <2>3
<1> QED BY <1>3, <1>8, <1>9, <1>11, <1>13, <1>14, <1>15, <1>16, <1>17

\* A turn is written, and the handler goes on: to the answer, or to its end.
LEMMA WritingInv ==
    ASSUME MemoryInv, NEW m \in Messages, pc[m] = "append", open[m] = "open",
           WriteTurn(m), UNCHANGED resets,
           \/ NextTurn(m)
           \/ EndsAt(m, "replied") /\ UNCHANGED role
    PROVE  MemoryInv'
<1>1. pc' \in [Messages -> {"unsent"} \cup Running \cup Ended]
  BY DEF MemoryInv, TypeOK, NextTurn, EndsAt, Ended
<1>2. role' \in [Messages -> Roles]
  BY DEF MemoryInv, TypeOK, NextTurn, Roles
<1>3. TypeOK'
  <2>1. history' \in [Messages -> Seq(Turns)]
    BY EndsType DEF NextTurn, MemoryInv, TypeOK
  <2> QED BY <1>1, <1>2, <2>1, Writing DEF MemoryInv, TypeOK
<1>4. ASSUME NEW n \in Messages, pc'[n] \notin Ended
      PROVE  /\ <<n, "molli">> \notin committed'
             /\ <<n, "user">> \in committed' <=> role'[n] = "molli"
  <2>1. committed' = committed \cup {<<m, role[m]>>}
    BY DEF WriteTurn
  <2>2. CASE n # m
    <3>1. pc'[n] = pc[n] /\ role'[n] = role[n]
      BY <2>2 DEF MemoryInv, TypeOK, NextTurn, EndsAt
    <3> QED BY <2>1, <2>2, <3>1, <1>4 DEF MemoryInv, TxnInv
  <2>3. CASE n = m
    <3>1. role[m] = "user" /\ role' = [role EXCEPT ![m] = "molli"] /\ pc' = pc
      BY <2>3, <1>4 DEF MemoryInv, TypeOK, NextTurn, EndsAt, Ended
    <3>2. role'[m] = "molli" /\ <<m, "molli">> \notin committed
      BY <2>3, <3>1, <1>4 DEF MemoryInv, TypeOK, TxnInv
    <3> QED BY <2>1, <2>3, <3>1, <3>2
  <2> QED BY <2>2, <2>3
<1>5. TxnInv'
  BY <1>4, Writing DEF TxnInv
<1> QED BY <1>3, <1>5 DEF MemoryInv

\* A handler that stops appending leaves the others' transactions alone.
LEMMA CaughtInv ==
    ASSUME MemoryInv, NEW m \in Messages, Caught(m)
    PROVE  MemoryInv'
<1>0. history' \in [Messages -> Seq(Turns)]
  BY EndsType DEF Caught, MemoryInv
<1> USE DEF MemoryInv, TypeOK, Caught, CloseTxn, EndsAt
<1>1. TypeOK'
  BY <1>0, MemoryAssumption DEF Ended
<1>2. ASSUME NEW n \in Messages
      PROVE  /\ open'[n] = "open" => snap'[n] = doc'[Key(n)]
             /\ open'[n] = "no" => tries'[n] < MaxAttempts
             /\ pc'[n] \notin Ended =>
                   /\ <<n, "molli">> \notin committed'
                   /\ <<n, "user">> \in committed' <=> role'[n] = "molli"
  <2>1. CASE n # m
    BY <2>1 DEF TxnInv
  <2>2. CASE n = m
    <3>1. open'[n] = "no" /\ tries'[n] = 0 /\ pc'[n] = "replied"
      BY <2>2
    <3> QED BY <3>1, MemoryAssumption DEF Ended
  <2> QED BY <2>1, <2>2
<1>3. TxnInv'
  BY <1>2 DEF TxnInv
<1> QED BY <1>1, <1>3

\* Each step of a handler preserves the invariant.
LEMMA HandlerInv ==
    ASSUME MemoryInv, NEW m \in Messages, Receive(m) \/ Step(m) \/ Exception(m)
    PROVE  MemoryInv'
<1>1. CASE Receive(m)
  <2>1. pc[m] \notin Ended /\ "chain" \in Running
    BY <1>1 DEF Receive, Ended, Running
  <2>2. history' \in [Messages -> Seq(Turns)]
    BY <1>1 DEF Receive, MemoryInv, TypeOK
  <2> QED BY <1>1, <2>1, <2>2, HandlerSteps DEF Receive
<1>2. CASE Blocked(m)
  <2>1. pc[m] \notin Ended /\ "blocked" \in Ended
    BY <1>2 DEF Blocked, Ended
  <2>2. history' \in [Messages -> Seq(Turns)]
    BY <1>2, EndsType DEF Blocked, MemoryInv
  <2> QED BY <1>2, <2>1, <2>2, HandlerSteps DEF Blocked, EndsAt
<1>3. CASE ReadHistory(m)
  <2>1. pc[m] \notin Ended /\ "answering" \in Running
    BY <1>3 DEF ReadHistory, Ended, Running
  <2>2. history' \in [Messages -> Seq(Turns)]
    <3>1. doc[Key(m)] \in Seq(Turns) /\ history \in [Messages -> Seq(Turns)]
      BY KeyIsAKey DEF MemoryInv, TypeOK
    <3>2. Recent(doc[Key(m)]) \in Seq(Turns)
      BY <3>1, RecentType
    <3> QED BY <1>3, <3>1, <3>2 DEF ReadHistory
  <2> QED BY <1>3, <2>1, <2>2, HandlerSteps DEF ReadHistory
<1>4. CASE Fails(m)
  <2>1. pc[m] \notin Ended /\ "error" \in Ended
    BY <1>4 DEF Fails, Ended
  <2>2. history' \in [Messages -> Seq(Turns)]
    BY <1>4, EndsType DEF Fails, MemoryInv
  <2> QED BY <1>4, <2>1, <2>2, HandlerSteps DEF Fails, EndsAt
<1>5. CASE Answered(m)
  <2>1. pc[m] \notin Ended /\ "append" \in Running
    BY <1>5 DEF Answered, Ended, Running
  <2>2. history' \in [Messages -> Seq(Turns)]
    BY <1>5 DEF Answered, MemoryInv, TypeOK
  <2> QED BY <1>5, <2>1, <2>2, HandlerSteps DEF Answered
<1>6. CASE OpenTxn(m)
  <2> USE <1>6 DEF MemoryInv, TypeOK, OpenTxn
  <2>1. tries[m] < MaxAttempts
    BY DEF TxnInv
  <2>2. tries[m] + 1 \in 0 .. MaxAttempts
    BY <2>1, MemoryAssumption
  <2>3. doc[Key(m)] \in Seq(Turns)
    BY KeyIsAKey
  <2>4. TypeOK'
    BY <2>2, <2>3
  <2>5. ASSUME NEW n \in Messages
        PROVE  /\ open'[n] = "open" => snap'[n] = doc'[Key(n)]
               /\ open'[n] = "no" => tries'[n] < MaxAttempts
               /\ pc'[n] \notin Ended =>
                     /\ <<n, "molli">> \notin committed'
                     /\ <<n, "user">> \in committed' <=> role'[n] = "molli"
    <3>1. CASE n # m
      BY <3>1 DEF TxnInv
    <3>2. CASE n = m
      <4>1. open'[n] = "open" /\ snap'[n] = doc'[Key(n)]
        BY <3>2
      <4> QED BY <3>2, <4>1 DEF TxnInv
    <3> QED BY <3>1, <3>2
  <2>6. TxnInv'
    BY <2>5 DEF TxnInv
  <2> QED BY <2>4, <2>6
<1>7. CASE Commit(m)
  BY <1>7, WritingInv DEF Commit
<1>8. CASE CommitUnacknowledged(m)
  BY <1>8, WritingInv DEF CommitUnacknowledged
<1>9. CASE Abort(m)
  <2> USE <1>9 DEF MemoryInv, TypeOK, Abort, CloseTxn
  <2>1. TypeOK'
    OBVIOUS
  <2>2. TxnInv'
    BY DEF TxnInv
  <2> QED BY <2>1, <2>2
<1>10. CASE GiveUp(m) \/ AppendFails(m)
  BY <1>10, CaughtInv DEF GiveUp, AppendFails
<1> QED BY <1>1, <1>2, <1>3, <1>4, <1>5, <1>6, <1>7, <1>8, <1>9, <1>10
     DEF Step, Exception

\* A reset outdates the transactions that have read the session.
LEMMA ResetInv ==
    ASSUME MemoryInv, NEW space \in Spaces, Reset(space)
    PROVE  MemoryInv'
<1> USE DEF MemoryInv, TypeOK, Reset
<1>1. open' \in [Messages -> {"no", "open", "stale"}]
  BY DEF Outdated
<1>2. TypeOK'
  <2>1. resets' \in 0 .. MaxResets
    BY MemoryAssumption
  <2>2. doc' \in [Keys -> Seq(Turns)]
    <3>1. <<>> \in Seq(Turns) /\ doc \in [Keys -> Seq(Turns)]
      OBVIOUS
    <3>2. doc' = [doc EXCEPT ![KeyOf(space)] = <<>>]
      OBVIOUS
    <3> QED BY ONLY <3>1, <3>2
  <2> QED BY <1>1, <2>1, <2>2
<1>3. ASSUME NEW n \in Messages
      PROVE  /\ open'[n] = "open" => snap'[n] = doc'[Key(n)]
             /\ open'[n] = "no" => tries'[n] < MaxAttempts
  <2>1. open'[n] = "no" => open[n] = "no"
    BY DEF Outdated
  <2>2. ASSUME open'[n] = "open"
        PROVE  doc'[Key(n)] = doc[Key(n)] /\ open[n] = "open"
    <3>1. open[n] = "open" /\ Key(n) # KeyOf(space)
      BY <2>2 DEF Outdated
    <3> QED BY <3>1, KeyIsAKey
  <2> QED BY <2>1, <2>2 DEF TxnInv
<1>4. TxnInv'
  BY <1>3 DEF TxnInv
<1> QED BY <1>2, <1>4

\* The transactions of an instance that dies are gone with it.
LEMMA CrashInv ==
    ASSUME MemoryInv, NEW i \in Instances, Crash(i)
    PROVE  MemoryInv'
<1> USE DEF MemoryInv, TypeOK, Crash
<1>1. TypeOK'
  BY MemoryAssumption DEF Ended
<1>2. ASSUME NEW n \in Messages
      PROVE  /\ open'[n] = "open" => snap'[n] = doc'[Key(n)]
             /\ open'[n] = "no" => tries'[n] < MaxAttempts
             /\ pc'[n] \notin Ended =>
                   /\ <<n, "molli">> \notin committed'
                   /\ <<n, "user">> \in committed' <=> role'[n] = "molli"
  <2>1. CASE n \notin Dying(i)
    BY <2>1 DEF TxnInv
  <2>2. CASE n \in Dying(i)
    <3>1. open'[n] = "no" /\ tries'[n] = 0 /\ pc'[n] = "error"
      BY <2>2
    <3> QED BY <3>1, MemoryAssumption DEF Ended
  <2> QED BY <2>1, <2>2
<1>3. TxnInv'
  BY <1>2 DEF TxnInv
<1> QED BY <1>1, <1>3

\* The types, and what every open transaction knows, hold for ever.
THEOREM MemoryInvariant == Spec => []MemoryInv
<1>1. ASSUME MemoryInv, [Next]_vars PROVE MemoryInv'
  <2>1. CASE \E m \in Messages : Receive(m) \/ Step(m) \/ Exception(m)
    BY <1>1, <2>1, HandlerInv
  <2>2. CASE \E space \in Spaces : Reset(space)
    BY <1>1, <2>2, ResetInv
  <2>3. CASE \E i \in Instances : Crash(i)
    BY <1>1, <2>3, CrashInv
  <2>4. CASE UNCHANGED vars
    BY <1>1, <2>4 DEF MemoryInv, TypeOK, TxnInv, vars, txn
  <2> QED BY <1>1, <2>1, <2>2, <2>3, <2>4 DEF Next
<1> QED BY InitMemory, <1>1, PTL DEF Spec

\* Every variable has its type; nothing unscanned is ever stored.
THEOREM MemoryTypes == Spec => []TypeOK
<1>1. MemoryInv => TypeOK
  BY DEF MemoryInv
<1> QED BY MemoryInvariant, <1>1, PTL

\* A written turn is one Say of the abstract memory.
LEMMA WritingSays ==
    ASSUME MemoryInv, NEW m \in Messages, pc[m] = "append", open[m] = "open",
           WriteTurn(m)
    PROVE  \E t \in Memory!Turns : Memory!Say(t)
<1>1. PICK t \in Turns :
         /\ t.of = m /\ t.role = role[m]
         /\ doc' = [doc EXCEPT ![Key(m)] = Trimmed(Append(@, t))]
  BY Writing
<1>2. committed' = committed \cup {<<m, role[m]>>}
  BY DEF WriteTurn
<1>3. role[m] \in {"user", "molli"}
  BY DEF MemoryInv, TypeOK, Roles
<1>4. /\ <<m, role[m]>> \notin committed
      /\ role[m] = "molli" => <<m, "user">> \in committed
  BY <1>3 DEF MemoryInv, TxnInv, Ended
<1>5. \A s : Memory!Newest(s) = Trimmed(s)
  BY DEF Memory!Newest, Trimmed
<1>6. t \in Memory!Turns
  BY DEF Memory!Turns, Memory!Roles, Turns, Roles
<1>7. [n \in Messages |-> Key(n)][t.of] = Key(m)
  BY <1>1
<1>8. doc' = [doc EXCEPT ![[n \in Messages |-> Key(n)][t.of]] =
                Memory!Newest(Append(@, t))]
  BY <1>1, <1>5, <1>7
<1>9. Memory!Say(t)
  BY <1>1, <1>2, <1>4, <1>8 DEF Memory!Say
<1> QED BY <1>6, <1>9

\* Every step is a step of the abstract memory, or none.
LEMMA StepSimulates ==
    ASSUME MemoryInv, [Next]_vars
    PROVE  [Memory!Next]_<<doc, committed>>
<1>1. ASSUME NEW m \in Messages, Receive(m) \/ Step(m) \/ Exception(m)
      PROVE  Memory!Next \/ UNCHANGED <<doc, committed>>
  <2>1. CASE Commit(m)
    BY <2>1, WritingSays DEF Commit, Memory!Next
  <2>2. CASE CommitUnacknowledged(m)
    BY <2>2, WritingSays DEF CommitUnacknowledged, Memory!Next
  <2>3. CASE Receive(m) \/ Blocked(m) \/ ReadHistory(m) \/ Answered(m) \/ Fails(m)
    BY <2>3 DEF Receive, Blocked, ReadHistory, Answered, Fails
  <2>4. CASE OpenTxn(m) \/ Abort(m)
    BY <2>4 DEF OpenTxn, Abort
  <2>5. CASE GiveUp(m) \/ AppendFails(m)
    BY <2>5 DEF GiveUp, AppendFails, Caught
  <2> QED BY <1>1, <2>1, <2>2, <2>3, <2>4, <2>5 DEF Step, Exception
<1>2. ASSUME NEW space \in Spaces, Reset(space)
      PROVE  Memory!Next
  <2>1. KeyOf(space) \in Keys
    BY DEF Spaces, Keys, Key
  <2>2. Memory!Forget(KeyOf(space))
    BY <1>2 DEF Reset, Memory!Forget
  <2> QED BY <2>1, <2>2 DEF Memory!Next
<1>3. ASSUME NEW i \in Instances, Crash(i)
      PROVE  UNCHANGED <<doc, committed>>
  BY <1>3 DEF Crash
<1>4. CASE UNCHANGED vars
  BY <1>4 DEF vars
<1> QED BY <1>1, <1>2, <1>3, <1>4 DEF Next

\* The memory keeps what was said: the transactions of any number of
\* instances amount to one append after the other.
THEOREM ImplementsSessionMemory == Spec => KeepsWhatWasSaid
<1>1. Init => Memory!Init
  BY DEF Init, Memory!Init
<1>2. MemoryInv /\ [Next]_vars => [Memory!Next]_<<doc, committed>>
  BY StepSimulates
<1> QED BY <1>1, <1>2, MemoryInvariant, PTL DEF Spec, KeepsWhatWasSaid, Memory!Spec

(***************************************************************************)
(* Questions and answers.                                                  *)
(***************************************************************************)

\* An answer in it has before it what may stand there.
Unbroken(turns) ==
    \A i \in 2 .. Len(turns) :
        turns[i].role = "molli" => MayPrecede(turns[i - 1], turns[i].of)

\* The invariant behind PairsUnbroken.  A handler appends its question first,
\* and of the handlers of an instance one appends at a time; so the session
\* that its answer goes to ends in its question, or in a turn of another
\* instance, or has been reset.
PairInv ==
    /\ MemoryInv
    /\ \A k \in Keys : Unbroken(doc[k])
    /\ \A m \in Messages :
          /\ pc[m] \in {"unsent", "chain", "answering"} => role[m] = "user"
          /\ pc[m] = "append" =>
                \A n \in Messages : pc[n] = "append" /\ On[n] = On[m] => n = m
          /\ pc[m] = "append" /\ role[m] = "molli" /\ doc[Key(m)] # <<>> =>
                MayPrecede(doc[Key(m)][Len(doc[Key(m)])], m)

\* A turn may be appended that may stand after the last one.
LEMMA AppendUnbroken ==
    ASSUME NEW s \in Seq(Turns), Unbroken(s), NEW t \in Turns,
           t.role = "molli" /\ s # <<>> => MayPrecede(s[Len(s)], t.of)
    PROVE  Unbroken(Append(s, t))
<1> SUFFICES ASSUME NEW i \in 2 .. Len(Append(s, t)), Append(s, t)[i].role = "molli"
             PROVE  MayPrecede(Append(s, t)[i - 1], Append(s, t)[i].of)
  BY DEF Unbroken
<1>1. CASE i <= Len(s)
  <2>1. Append(s, t)[i] = s[i] /\ Append(s, t)[i - 1] = s[i - 1] /\ i \in 2 .. Len(s)
    BY <1>1
  <2> QED BY <2>1 DEF Unbroken
<1>2. CASE i = Len(s) + 1
  <2>1. Append(s, t)[i] = t /\ Append(s, t)[i - 1] = s[Len(s)] /\ s # <<>>
    BY <1>2
  <2> QED BY <2>1
<1> QED BY <1>1, <1>2

\* Trimming keeps neighbours, and the newest turn.
LEMMA TrimmedUnbroken ==
    ASSUME NEW s \in Seq(Turns), Unbroken(s), s # <<>>
    PROVE  /\ Unbroken(Trimmed(s))
           /\ Trimmed(s) # <<>> => Trimmed(s)[Len(Trimmed(s))] = s[Len(s)]
<1>1. CASE Len(s) <= MaxTurns
  BY <1>1 DEF Trimmed
<1>2. CASE ~(Len(s) <= MaxTurns)
  <2>1. MaxTurns \in Nat \ {0} /\ Len(s) \in Nat
    BY MemoryAssumption
  <2>2. PICK from \in 1 .. Len(s) : from = Len(s) - MaxTurns + 1
    BY <1>2, <2>1
  <2>3. Trimmed(s) = SubSeq(s, from, Len(s))
    BY <1>2, <2>2 DEF Trimmed
  <2>4. /\ Len(Trimmed(s)) = MaxTurns
        /\ \A i \in 1 .. MaxTurns : Trimmed(s)[i] = s[from + i - 1]
    BY <2>1, <2>2, <2>3
  <2>5. ASSUME NEW i \in 2 .. MaxTurns, Trimmed(s)[i].role = "molli"
        PROVE  MayPrecede(Trimmed(s)[i - 1], Trimmed(s)[i].of)
    <3>1. PICK j \in 1 .. MaxTurns : j = i - 1
      BY <2>1
    <3>2. PICK h \in 2 .. Len(s) : h = from + i - 1 /\ h - 1 = from + j - 1
      <4>1. from + i - 1 \in 2 .. Len(s)
        BY <2>1, <2>2
      <4>2. (from + i - 1) - 1 = from + j - 1
        BY <2>1, <2>2, <3>1
      <4> QED BY <4>1, <4>2
    <3>3. Trimmed(s)[i] = s[from + i - 1]
      <4>1. i \in 1 .. MaxTurns
        BY <2>1
      <4> QED BY <2>4, <4>1
    <3>4. Trimmed(s)[j] = s[from + j - 1]
      BY <2>4
    <3>5. Trimmed(s)[i] = s[h] /\ Trimmed(s)[i - 1] = s[h - 1]
      BY <3>1, <3>2, <3>3, <3>4
    <3>6. s[h].role = "molli" => MayPrecede(s[h - 1], s[h].of)
      BY DEF Unbroken
    <3> QED BY <2>5, <3>5, <3>6
  <2>6. Trimmed(s)[MaxTurns] = s[Len(s)]
    BY <2>1, <2>2, <2>4
  <2> QED BY <2>4, <2>5, <2>6 DEF Unbroken
<1> QED BY <1>1, <1>2

\* In the beginning nothing is remembered.
LEMMA InitPairs == Init => PairInv
BY InitMemory DEF Init, PairInv, Unbroken

\* What changes no session, and makes no handler append.
LEMMA NoTurnPairs ==
    ASSUME PairInv, MemoryInv', UNCHANGED <<doc, role>>,
           \A n \in Messages :
              /\ pc'[n] \in {"unsent", "chain", "answering"} =>
                    pc[n] \in {"unsent", "chain", "answering"}
              /\ pc'[n] = "append" => pc[n] = "append"
    PROVE  PairInv'
BY DEF PairInv, Unbroken, MayPrecede

\* A turn is written: the question of m, before which anything may stand, or
\* its answer, before which PairInv says what stands.
LEMMA WritingPairs ==
    ASSUME PairInv, NEW m \in Messages, pc[m] = "append", open[m] = "open",
           WriteTurn(m), MemoryInv',
           \/ NextTurn(m)
           \/ EndsAt(m, "replied") /\ UNCHANGED role
    PROVE  PairInv'
<1> DEFINE k == Key(m)
<1>1. MemoryInv /\ k \in Keys /\ doc[k] \in Seq(Turns) /\ Unbroken(doc[k])
  BY KeyIsAKey DEF PairInv, MemoryInv, TypeOK
<1>2. PICK t \in Turns :
         /\ t.of = m /\ t.role = role[m]
         /\ doc' = [doc EXCEPT ![k] = Trimmed(Append(@, t))]
  BY <1>1, Writing
<1> DEFINE s == Append(doc[k], t)
<1>3. /\ s \in Seq(Turns) /\ s # <<>> /\ s[Len(s)] = t
      /\ doc' = [doc EXCEPT ![k] = Trimmed(s)]
  BY <1>1, <1>2
<1>4. Unbroken(s)
  <2>1. t.role = "molli" /\ doc[k] # <<>> => MayPrecede(doc[k][Len(doc[k])], t.of)
    BY <1>2 DEF PairInv
  <2> QED BY <1>1, <2>1, AppendUnbroken
<1> HIDE DEF s
<1>5. /\ doc'[k] = Trimmed(s) /\ Unbroken(doc'[k])
      /\ doc'[k] # <<>> => doc'[k][Len(doc'[k])] = t
  <2>1. doc'[k] = Trimmed(s)
    BY <1>1, <1>3 DEF MemoryInv, TypeOK
  <2> QED BY <2>1, <1>3, <1>4, TrimmedUnbroken
<1>6. \A j \in Keys : j # k => doc'[j] = doc[j]
  BY <1>3 DEF MemoryInv, TypeOK
<1>7. \A j \in Keys : Unbroken(doc'[j])
  BY <1>5, <1>6 DEF PairInv
<1>8. ASSUME NEW n \in Messages, pc'[n] \in {"unsent", "chain", "answering"}
      PROVE  role'[n] = "user"
  BY <1>1, <1>8 DEF PairInv, MemoryInv, TypeOK, NextTurn, EndsAt
<1>9. \A n \in Messages : pc'[n] = "append" => pc[n] = "append"
  BY <1>1 DEF MemoryInv, TypeOK, NextTurn, EndsAt
<1>10. ASSUME NEW n \in Messages, pc'[n] = "append", role'[n] = "molli",
              doc'[Key(n)] # <<>>
       PROVE  MayPrecede(doc'[Key(n)][Len(doc'[Key(n)])], n)
  <2>1. pc[n] = "append"
    BY <1>9, <1>10
  <2>2. CASE n = m
    <3>1. role[m] = "user"
      BY <1>1, <1>10, <2>2 DEF MemoryInv, TypeOK, NextTurn, EndsAt, Roles
    <3> QED BY <1>2, <1>5, <1>10, <2>2, <3>1 DEF MayPrecede
  <2>3. CASE n # m
    <3>1. role[n] = "molli" /\ On[n] # On[m]
      BY <1>1, <1>10, <2>1, <2>3 DEF PairInv, MemoryInv, TypeOK, NextTurn
    <3>2. CASE Key(n) = k
      BY <1>2, <1>5, <1>10, <3>1, <3>2 DEF MayPrecede
    <3>3. CASE Key(n) # k
      BY <1>6, <1>10, <2>1, <3>1, <3>3, KeyIsAKey DEF PairInv
    <3> QED BY <3>2, <3>3
  <2> QED BY <2>2, <2>3
<1>11. (\A n \in Messages :
          /\ pc'[n] \in {"unsent", "chain", "answering"} => role'[n] = "user"
          /\ pc'[n] = "append" =>
                \A o \in Messages : pc'[o] = "append" /\ On[o] = On[n] => o = n)
  BY <1>8, <1>9 DEF PairInv
<1>12. \A n \in Messages :
          pc'[n] = "append" /\ role'[n] = "molli" /\ doc'[Key(n)] # <<>> =>
             MayPrecede(doc'[Key(n)][Len(doc'[Key(n)])], n)
  BY <1>10
<1> QED BY <1>7, <1>11, <1>12 DEF PairInv, Unbroken, MayPrecede

\* The last await of a handler returns when none of its instance appends.
LEMMA AnsweredPairs ==
    ASSUME PairInv, NEW m \in Messages, Answered(m), MemoryInv'
    PROVE  PairInv'
<1>1. /\ UNCHANGED <<doc, role>> /\ role[m] = "user"
      /\ \A n \in Messages : n # m => pc'[n] = pc[n]
      /\ pc'[m] = "append"
  BY DEF Answered, PairInv, MemoryInv, TypeOK, txn
<1>2. \A n \in Messages : pc[n] = "append" => On[n] # On[m]
  BY DEF Answered, Free, Busy
<1>3. \A k \in Keys : Unbroken(doc'[k])
  BY <1>1 DEF PairInv
<1>4. ASSUME NEW n \in Messages
      PROVE  /\ pc'[n] \in {"unsent", "chain", "answering"} => role'[n] = "user"
             /\ pc'[n] = "append" =>
                   \A o \in Messages : pc'[o] = "append" /\ On[o] = On[n] => o = n
             /\ pc'[n] = "append" /\ role'[n] = "molli" /\ doc'[Key(n)] # <<>> =>
                   MayPrecede(doc'[Key(n)][Len(doc'[Key(n)])], n)
  BY <1>1, <1>2 DEF PairInv
<1> QED BY <1>3, <1>4 DEF PairInv, Unbroken, MayPrecede

\* A reset empties a session; nothing is unbroken as it.
LEMMA ResetPairs ==
    ASSUME PairInv, NEW space \in Spaces, Reset(space), MemoryInv'
    PROVE  PairInv'
<1>1. \A k \in Keys : doc'[k] = <<>> \/ doc'[k] = doc[k]
  BY DEF Reset, PairInv, MemoryInv, TypeOK
<1>2. \A k \in Keys : Unbroken(doc'[k])
  BY <1>1 DEF PairInv, Unbroken
<1>3. UNCHANGED <<pc, role>>
  BY DEF Reset
<1>4. \A m \in Messages :
         /\ pc'[m] \in {"unsent", "chain", "answering"} => role'[m] = "user"
         /\ pc'[m] = "append" =>
               \A n \in Messages : pc'[n] = "append" /\ On[n] = On[m] => n = m
         /\ pc'[m] = "append" /\ role'[m] = "molli" /\ doc'[Key(m)] # <<>> =>
               MayPrecede(doc'[Key(m)][Len(doc'[Key(m)])], m)
  BY <1>1, <1>3, KeyIsAKey DEF PairInv
<1> QED BY <1>2, <1>4 DEF PairInv, Unbroken, MayPrecede

\* Every step keeps questions and answers together.
LEMMA PairStep ==
    ASSUME PairInv, [Next]_vars
    PROVE  PairInv'
<1>1. ASSUME NEW m \in Messages, Receive(m) \/ Step(m) \/ Exception(m)
      PROVE  PairInv'
  <2>1. MemoryInv'
    BY <1>1, HandlerInv DEF PairInv
  <2>2. CASE Commit(m)
    BY <2>1, <2>2, WritingPairs DEF Commit
  <2>3. CASE CommitUnacknowledged(m)
    BY <2>1, <2>3, WritingPairs DEF CommitUnacknowledged
  <2>4. CASE Answered(m)
    BY <2>1, <2>4, AnsweredPairs
  <2>5. CASE Receive(m) \/ Blocked(m) \/ ReadHistory(m) \/ Fails(m)
    <3>1. /\ pc[m] \in {"unsent", "chain", "answering"}
          /\ \A n \in Messages : n # m => pc'[n] = pc[n]
          /\ pc'[m] # "append"
          /\ UNCHANGED <<doc, role>>
      BY <2>5 DEF Receive, Blocked, ReadHistory, Fails, EndsAt, txn,
                  PairInv, MemoryInv, TypeOK
    <3> QED BY <2>1, <3>1, NoTurnPairs
  <2>6. CASE OpenTxn(m) \/ Abort(m)
    BY <2>1, <2>6, NoTurnPairs DEF OpenTxn, Abort
  <2>7. CASE GiveUp(m) \/ AppendFails(m)
    <3>1. /\ \A n \in Messages : n # m => pc'[n] = pc[n]
          /\ pc'[m] = "replied"
          /\ UNCHANGED <<doc, role>>
      BY <2>7 DEF GiveUp, AppendFails, Caught, EndsAt, PairInv, MemoryInv, TypeOK
    <3> QED BY <2>1, <3>1, NoTurnPairs
  <2> QED BY <1>1, <2>2, <2>3, <2>4, <2>5, <2>6, <2>7 DEF Step, Exception
<1>2. ASSUME NEW space \in Spaces, Reset(space) PROVE PairInv'
  BY <1>2, ResetInv, ResetPairs DEF PairInv
<1>3. ASSUME NEW i \in Instances, Crash(i) PROVE PairInv'
  <2>1. MemoryInv'
    BY <1>3, CrashInv DEF PairInv
  <2>2. UNCHANGED <<doc, role>> /\ \A n \in Messages : pc'[n] = "error" \/ pc'[n] = pc[n]
    BY <1>3 DEF Crash
  <2> QED BY <2>1, <2>2, NoTurnPairs
<1>4. CASE UNCHANGED vars
  BY <1>4, NoTurnPairs DEF vars, txn, PairInv, MemoryInv, TypeOK, TxnInv
<1> QED BY <1>1, <1>2, <1>3, <1>4 DEF Next

\* What a session ends in while an answer waits for its transaction.
THEOREM PairInvariant == Spec => []PairInv
BY InitPairs, PairStep, PTL DEF Spec

\* The question and the answer of a message are not separated by a turn of
\* their own instance, whatever the cap cuts off, a reset clears, or a crash
\* or an error leaves out.
THEOREM PairsAreUnbroken == Spec => []PairsUnbroken
<1>1. PairInv => PairsUnbroken
  BY DEF PairInv, PairsUnbroken, Unbroken
<1> QED BY PairInvariant, <1>1, PTL

\* What the property says of one step.
HistoryRead ==
    \A m \in Messages : pc[m] = "chain" /\ pc'[m] = "answering" =>
        NewestWithinBudget(history'[m], doc[Key(m)])

\* Only get_recent takes a handler from its guardrails to its answer.
LEMMA ReadsNewest ==
    ASSUME MemoryInv, [Next]_vars
    PROVE  HistoryRead
<1> SUFFICES ASSUME NEW m \in Messages, pc[m] = "chain", pc'[m] = "answering"
             PROVE  NewestWithinBudget(history'[m], doc[Key(m)])
  BY DEF HistoryRead
<1> USE DEF MemoryInv, TypeOK
<1>1. history'[m] = Recent(doc[Key(m)])
  <2>1. ASSUME NEW n \in Messages, Receive(n) \/ Step(n) \/ Exception(n)
        PROVE  ReadHistory(m)
    <3>1. n = m
      <4>1. Receive(n) \/ Step(n) \/ Exception(n) => pc'[m] = pc[m] \/ n = m
        BY DEF Receive, Step, Exception, Blocked, ReadHistory, Answered, OpenTxn,
                  Commit, CommitUnacknowledged, Abort, GiveUp, AppendFails, Caught,
                  Fails, NextTurn, EndsAt
      <4> QED BY <2>1, <4>1
    <3>2. CASE Blocked(m) \/ Fails(m)
      BY <3>2 DEF Blocked, Fails, EndsAt
    <3>3. Receive(m) \/ Step(m) \/ Exception(m)
      BY <2>1, <3>1
    <3> QED BY <3>2, <3>3
            DEF Receive, Step, Exception, Answered, OpenTxn, Commit,
                CommitUnacknowledged, Abort, GiveUp, AppendFails
  <2>2. ASSUME NEW space \in Spaces, Reset(space)
        PROVE  FALSE
    BY <2>2 DEF Reset
  <2>3. ASSUME NEW i \in Instances, Crash(i)
        PROVE  FALSE
    BY <2>3 DEF Crash
  <2>4. CASE UNCHANGED vars
    BY <2>4 DEF vars
  <2>5. ReadHistory(m) \/ UNCHANGED vars
    BY <2>1, <2>2, <2>3 DEF Next
  <2>6. history \in [Messages -> Seq(Turns)] \/ DOMAIN history = Messages
    OBVIOUS
  <2> QED BY <2>4, <2>5, <2>6 DEF ReadHistory
<1>2. PICK s \in Seq(Turns) : s = doc[Key(m)]
  BY KeyIsAKey
<1>3. NewestWithinBudget(Recent(s), s)
  BY RecentIsNewest
<1> QED BY <1>1, <1>2, <1>3, Zenon

\* A message is answered with the newest turns of its session, without a gap
\* and as many as the budget allows, however long each of them is.
THEOREM HistoryIsTheNewest == Spec => HistoryIsNewest
<1>1. MemoryInv /\ [Next]_vars => [HistoryRead]_vars
  BY ReadsNewest
<1>2. Spec => [][HistoryRead]_vars
  BY MemoryInvariant, <1>1, PTL DEF Spec
<1> QED BY <1>2 DEF HistoryRead, HistoryIsNewest
=============================================================================
