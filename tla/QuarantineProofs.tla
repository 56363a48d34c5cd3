-------------------------- MODULE QuarantineProofs ---------------------------
(***************************************************************************)
(* Proofs about Quarantine, for any number of goroutines, ranges and       *)
(* limits: no reservation is lost or unmapped twice, a retirement unmaps   *)
(* nobody else's memory, and the queue keeps as many of its newest entries *)
(* as the limits in force allow.                                           *)
(***************************************************************************)
EXTENDS Quarantine, WellFoundedInduction, TLAPS

In(s, r) == \E k \in 1 .. Len(s) : s[k] = r
Once(s) == \A j, k \in 1 .. Len(s) : s[j] = s[k] => j = k
Enters(p, r) == pc[p] = "append" /\ region[p] = r

TypeInv == TypeOK /\ evicted \in [Procs -> Seq(Ranges)]

\* What a goroutine owns is mapped for it, and for it alone.
RegionInv ==
  /\ \A p \in Procs : pc[p] \in {"live", "replace", "free"} => space[region[p]] = "region"
  /\ \A p, q \in Procs : region[p] # None /\ region[p] = region[q] => p = q

\* Each queue holds a range at most once, no two hold the same one, and what they
\* hold is what is reserved, but for the ranges munmap failed on.
QueueInv ==
  /\ Once(held)
  /\ \A p \in Procs : Once(evicted[p])
  /\ \A r \in Ranges :
       /\ In(held, r) => space[r] = "reserved"
       /\ \A p \in Procs : In(evicted[p], r) \/ Enters(p, r) =>
                              space[r] = "reserved" /\ ~In(held, r)
       /\ \A p, q \in Procs : In(evicted[p], r) => 
                                 ~Enters(q, r) /\ (In(evicted[q], r) => p = q)
       /\ space[r] = "reserved" =>
            r \in stuck \/ In(held, r) \/ \E p \in Procs : In(evicted[p], r) \/ Enters(p, r)

\* The byte counter is exact, and the queue within the limits now in force.
LimitInv == bytes = Total(held) /\ Fits(held, limits)

IInv == TypeInv /\ RegionInv /\ QueueInv /\ LimitInv

-----------------------------------------------------------------------------
(* Natural numbers, without a predicate parameter. *)

\* A set of natural numbers that is not empty has a least element.
LEMMA LeastElement ==
  ASSUME NEW S \in SUBSET Nat, S # {}
  PROVE  \E n \in S : \A m \in S : n <= m
<1> DEFINE less == {pair \in Nat \X Nat : pair[1] < pair[2]}
<1>1. IsWellFoundedOn(less, Nat)
  BY NatLessThanWellFounded, Zenon DEF OpToRel
<1>2. ASSUME NEW x \in Nat, NEW y \in Nat, <<y, x>> \notin less PROVE x <= y
  BY <1>2
<1> HIDE DEF less
<1>3. PICK x \in S : \A y \in S : <<y, x>> \notin less
  BY <1>1, WFMin
<1>4. QED
  BY <1>2, <1>3

\* Induction, on a set.
LEMMA SetInduction ==
  ASSUME NEW S \in SUBSET Nat, 0 \in S, \A n \in S : n + 1 \in S
  PROVE  S = Nat
<1> SUFFICES ASSUME Nat \ S # {} PROVE FALSE
  OBVIOUS
<1>1. PICK x \in Nat \ S : \A m \in Nat \ S : x <= m
  BY LeastElement
<1>2. x - 1 \in Nat /\ ~(x <= x - 1)
  BY <1>1
<1>3. x - 1 \in S
  BY <1>1, <1>2
<1>4. QED
  BY <1>1, <1>2, <1>3

-----------------------------------------------------------------------------
(* What Total computes. *)

\* The sums over the prefixes of s, as Total has them.
Sums(s, f) == f = [n \in 0 .. Len(s) |-> IF n = 0 THEN 0 ELSE f[n - 1] + Size[s[n]]]

\* There is such a function, with natural numbers for values.
LEMMA SumsExist ==
  ASSUME NEW s \in Seq(Ranges)
  PROVE  \E f \in [0 .. Len(s) -> Nat] : Sums(s, f)
<1> DEFINE Upto(m, f) == f = [n \in 0 .. m |-> IF n = 0 THEN 0 ELSE f[n - 1] + Size[s[n]]]
           S == {m \in Nat : m <= Len(s) => \E f \in [0 .. m -> Nat] : Upto(m, f)}
<1>1. 0 \in S
  <2> DEFINE f == [n \in 0 .. 0 |-> 0]
  <2>1. f \in [0 .. 0 -> Nat] /\ Upto(0, f)
    OBVIOUS
  <2>2. QED
    BY <2>1
<1>2. ASSUME NEW m \in S PROVE m + 1 \in S
  <2>0. m \in Nat /\ m + 1 \in Nat
    OBVIOUS
  <2> SUFFICES ASSUME m + 1 <= Len(s)
               PROVE  \E g \in [0 .. m + 1 -> Nat] : Upto(m + 1, g)
    <3> HIDE DEF Upto
    <3>1. QED
      BY <2>0
  <2>1. m \in Nat /\ Len(s) \in Nat /\ m + 1 \in 1 .. Len(s)
    OBVIOUS
  <2>2. PICK f \in [0 .. m -> Nat] : Upto(m, f)
    BY <2>1
  <2>3. Size[s[m + 1]] \in Nat
    BY <2>1, QuarantineAssumption
  <2> DEFINE g == [n \in 0 .. m + 1 |-> IF n = m + 1 THEN f[m] + Size[s[m + 1]] ELSE f[n]]
  <2>4. g \in [0 .. m + 1 -> Nat]
    BY <2>1, <2>3
  <2>5. ASSUME NEW n \in 0 .. m + 1
        PROVE  g[n] = IF n = 0 THEN 0 ELSE g[n - 1] + Size[s[n]]
    <3>1. CASE n = m + 1
      <4>1. m \in 0 .. m + 1 /\ m # m + 1 /\ n - 1 = m /\ n # 0
        BY <3>1, <2>1
      <4>2. g[m] = f[m] /\ g[n] = f[m] + Size[s[m + 1]]
        BY <4>1, <3>1
      <4>3. QED
        BY <4>1, <4>2, <3>1
    <3>2. CASE n # m + 1
      <4>1. n \in 0 .. m /\ g[n] = f[n]
        BY <3>2, <2>1
      <4>2. f[n] = IF n = 0 THEN 0 ELSE f[n - 1] + Size[s[n]]
        BY <4>1, <2>2
      <4>3. n # 0 => n - 1 \in 0 .. m + 1 /\ n - 1 # m + 1
        BY <4>1, <2>1
      <4>4. n # 0 => g[n - 1] = f[n - 1]
        BY <4>3
      <4>5. QED
        BY <4>1, <4>2, <4>4
    <3>3. QED
      BY <3>1, <3>2
  <2>6. Upto(m + 1, g)
    <3> HIDE DEF g
    <3>1. g = [n \in 0 .. m + 1 |-> g[n]]
      BY <2>4
    <3>2. QED
      BY <3>1, <2>5
  <2>7. QED
    BY <2>4, <2>6
<1>3. S = Nat
  <2> HIDE DEF S
  <2>1. S \in SUBSET Nat
    BY DEF S
  <2>2. QED
    BY <2>1, <1>1, <1>2, SetInduction
<1>4. Len(s) \in S
  BY <1>3
<1>5. QED
  BY <1>4 DEF Sums

\* Two of them agree as far as their sequences do.
LEMMA SumsAgree ==
  ASSUME NEW s \in Seq(Ranges), NEW t \in Seq(Ranges), Len(s) <= Len(t),
         \A n \in 1 .. Len(s) : s[n] = t[n],
         NEW f, Sums(s, f), NEW g, Sums(t, g)
  PROVE  f[Len(s)] = g[Len(s)]
<1> DEFINE S == {n \in Nat : n <= Len(s) => f[n] = g[n]}
<1>1. 0 \in S
  BY DEF Sums
<1>2. ASSUME NEW n \in S PROVE n + 1 \in S
  <2> SUFFICES ASSUME n + 1 <= Len(s) PROVE f[n + 1] = g[n + 1]
    BY <1>2
  <2>1. /\ n \in Nat /\ n + 1 \in 0 .. Len(s) /\ n + 1 \in 0 .. Len(t)
        /\ n + 1 \in 1 .. Len(s) /\ n + 1 # 0 /\ n + 1 - 1 = n
    OBVIOUS
  <2>2. f[n] = g[n]
    BY <2>1
  <2>3. f[n + 1] = f[n + 1 - 1] + Size[s[n + 1]]
    BY <2>1 DEF Sums
  <2>4. g[n + 1] = g[n + 1 - 1] + Size[t[n + 1]]
    BY <2>1 DEF Sums
  <2>5. QED
    BY <2>1, <2>2, <2>3, <2>4
<1>3. S = Nat
  <2> HIDE DEF S
  <2>1. S \in SUBSET Nat
    BY DEF S
  <2>2. QED
    BY <2>1, <1>1, <1>2, SetInduction
<1>4. QED
  BY <1>3

\* Total is the last of the sums.
LEMMA TotalIsSum ==
  ASSUME NEW s \in Seq(Ranges), NEW f, Sums(s, f)
  PROVE  Total(s) = f[Len(s)]
<1> DEFINE sum == CHOOSE g : Sums(s, g)
<1>1. Sums(s, sum)
  OBVIOUS
<1>2. Total(s) = sum[Len(s)]
  BY DEF Total, Sums
<1> HIDE DEF sum
<1>3. f[Len(s)] = sum[Len(s)]
  BY <1>1, SumsAgree
<1>4. QED
  BY <1>2, <1>3

\* Address space is counted in natural numbers; none is taken by no range.
LEMMA TotalType ==
  /\ \A s \in Seq(Ranges) : Total(s) \in Nat
  /\ Total(<<>>) = 0
<1>1. ASSUME NEW s \in Seq(Ranges) PROVE Total(s) \in Nat
  <2>1. PICK f \in [0 .. Len(s) -> Nat] : Sums(s, f)
    BY SumsExist
  <2>2. QED
    BY <2>1, TotalIsSum
<1>2. Total(<<>>) = 0
  <2>1. <<>> \in Seq(Ranges)
    OBVIOUS
  <2>2. PICK f \in [0 .. Len(<<>>) -> Nat] : Sums(<<>>, f)
    BY <2>1, SumsExist
  <2>3. f[0] = 0
    BY <2>2 DEF Sums
  <2>4. QED
    BY <2>1, <2>2, <2>3, TotalIsSum
<1>3. QED
  BY <1>1, <1>2

\* The append of retireSecretMem adds the range's length to the byte count.
LEMMA TotalAppend ==
  ASSUME NEW s \in Seq(Ranges), NEW r \in Ranges
  PROVE  Total(Append(s, r)) = Total(s) + Size[r]
<1> DEFINE t == Append(s, r)
<1>1. /\ t \in Seq(Ranges) /\ Len(s) \in Nat /\ Len(t) = Len(s) + 1
      /\ t[Len(s) + 1] = r /\ \A n \in 1 .. Len(s) : s[n] = t[n]
  OBVIOUS
<1> HIDE DEF t
<1>2. PICK f \in [0 .. Len(s) -> Nat] : Sums(s, f)
  BY SumsExist
<1>3. PICK g \in [0 .. Len(t) -> Nat] : Sums(t, g)
  BY <1>1, SumsExist
<1>4. f[Len(s)] = g[Len(s)]
  BY <1>1, <1>2, <1>3, SumsAgree
<1>5. Len(s) + 1 \in 0 .. Len(t) /\ Len(s) + 1 # 0 /\ Len(s) + 1 - 1 = Len(s)
  BY <1>1
<1>6. g[Len(s) + 1] = g[Len(s) + 1 - 1] + Size[t[Len(s) + 1]]
  BY <1>3, <1>5 DEF Sums
<1>7. Total(s) = f[Len(s)] /\ Total(t) = g[Len(t)]
  BY <1>1, <1>2, <1>3, TotalIsSum
<1>8. Total(t) = Total(s) + Size[r]
  BY <1>1, <1>4, <1>5, <1>6, <1>7
<1>9. QED
  BY <1>8 DEF t

\* trimLocked lowers the byte count by what it takes out.
LEMMA TotalSplit ==
  ASSUME NEW s \in Seq(Ranges), NEW n \in 0 .. Len(s)
  PROVE  Total(s) = Total(SubSeq(s, 1, n)) + Total(SubSeq(s, n + 1, Len(s)))
<1> DEFINE S == {m \in Nat : n + m <= Len(s) =>
                    Total(SubSeq(s, 1, n + m)) = Total(SubSeq(s, 1, n))
                                                 + Total(SubSeq(s, n + 1, n + m))}
<1>0. n \in Nat /\ Len(s) \in Nat
  OBVIOUS
<1>1. 0 \in S
  <2>1. SubSeq(s, n + 1, n + 0) = <<>> /\ n + 0 = n /\ SubSeq(s, 1, n) \in Seq(Ranges)
    BY <1>0
  <2>2. Total(SubSeq(s, 1, n)) \in Nat
    BY <2>1, TotalType
  <2>3. Total(SubSeq(s, n + 1, n + 0)) = 0
    BY <2>1, TotalType
  <2>4. Total(SubSeq(s, 1, n + 0)) = Total(SubSeq(s, 1, n)) + Total(SubSeq(s, n + 1, n + 0))
    BY <2>1, <2>2, <2>3
  <2>5. QED
    BY <2>4
<1>2. ASSUME NEW m \in S PROVE m + 1 \in S
  <2> SUFFICES ASSUME n + (m + 1) <= Len(s)
               PROVE  Total(SubSeq(s, 1, n + (m + 1))) = Total(SubSeq(s, 1, n))
                                                 + Total(SubSeq(s, n + 1, n + (m + 1)))
    BY <1>2
  <2>1. m \in Nat /\ n + m <= Len(s) /\ n + (m + 1) = n + m + 1 /\ n + m + 1 \in 1 .. Len(s)
    BY <1>0, <1>2
  <2> DEFINE a == SubSeq(s, 1, n)
             b == SubSeq(s, 1, n + m)
             c == SubSeq(s, n + 1, n + m)
             r == s[n + m + 1]
  <2>2. a \in Seq(Ranges) /\ b \in Seq(Ranges) /\ c \in Seq(Ranges) /\ r \in Ranges
    BY <1>0, <2>1
  <2>3. SubSeq(s, 1, n + (m + 1)) = Append(b, r)
    BY <1>0, <2>1
  <2>4. SubSeq(s, n + 1, n + (m + 1)) = Append(c, r)
    BY <1>0, <2>1
  <2>5. Total(b) = Total(a) + Total(c)
    BY <2>1
  <2> HIDE DEF a, b, c, r
  <2>6. Total(Append(b, r)) = Total(b) + Size[r] /\ Total(Append(c, r)) = Total(c) + Size[r]
    BY <2>2, TotalAppend
  <2>7. Total(a) \in Nat /\ Total(b) \in Nat /\ Total(c) \in Nat /\ Size[r] \in Nat
    BY <2>2, TotalType, QuarantineAssumption
  <2>8. Total(Append(b, r)) = Total(a) + Total(Append(c, r))
    BY <2>5, <2>6, <2>7
  <2>9. QED
    BY <2>3, <2>4, <2>8 DEF a
<1>3. S = Nat
  <2> HIDE DEF S
  <2>1. S \in SUBSET Nat
    BY DEF S
  <2>2. QED
    BY <2>1, <1>1, <1>2, SetInduction
<1>4. Len(s) - n \in Nat /\ n + (Len(s) - n) = Len(s) /\ Len(s) <= Len(s)
  BY <1>0
<1>5. Len(s) - n \in S
  BY <1>3, <1>4
<1>6. SubSeq(s, 1, Len(s)) = s
  OBVIOUS
<1>7. Total(SubSeq(s, 1, Len(s))) = Total(SubSeq(s, 1, n)) + Total(SubSeq(s, n + 1, Len(s)))
  BY <1>4, <1>5
<1>8. QED
  BY <1>6, <1>7
-----------------------------------------------------------------------------
(* The queue and its trim. *)

\* trimLocked takes the least number of entries that brings the queue within the
\* limits, and there always is one.
LEMMA ExcessFacts ==
  ASSUME NEW s \in Seq(Ranges), NEW b \in Nat, NEW l \in Limits
  PROVE  LET n == Excess(s, b, l) IN
         /\ n \in 0 .. Len(s)
         /\ \/ n = Len(s)
            \/ Len(s) - n <= l.Regions /\ b - Total(SubSeq(s, 1, n)) <= l.Bytes
         /\ \A m \in 0 .. n - 1 :
              Len(s) - m > l.Regions \/ b - Total(SubSeq(s, 1, m)) > l.Bytes
<1> DEFINE Enough(n) == \/ n = Len(s)
                        \/ Len(s) - n <= l.Regions /\ b - Total(SubSeq(s, 1, n)) <= l.Bytes
           TooFew(m) == Len(s) - m > l.Regions \/ b - Total(SubSeq(s, 1, m)) > l.Bytes
           S == {n \in 0 .. Len(s) : Enough(n)}
<1>1. S \in SUBSET Nat /\ S # {} /\ Len(s) \in Nat
  <2>1. Len(s) \in S
    OBVIOUS
  <2>2. QED
    BY <2>1
<1>2. PICK n \in S : \A m \in S : n <= m
  <2> HIDE DEF S
  <2>1. QED
    BY <1>1, LeastElement
<1>3. \A m \in 0 .. n - 1 : TooFew(m)
  <2> SUFFICES ASSUME NEW m \in 0 .. n - 1, ~TooFew(m) PROVE FALSE
    OBVIOUS
  <2>1. m \in 0 .. Len(s) /\ ~(n <= m)
    BY <1>1
  <2>2. Enough(m)
    <3>1. l.Regions \in Nat /\ l.Bytes \in Nat
      BY QuarantineAssumption
    <3>2. SubSeq(s, 1, m) \in Seq(Ranges)
      BY <1>1, <2>1
    <3>3. Total(SubSeq(s, 1, m)) \in Nat
      BY <3>2, TotalType
    <3>4. QED
      BY <1>1, <2>1, <3>1, <3>3
  <2>3. QED
    BY <2>1, <2>2, <1>2
<1>4. n \in 0 .. Len(s) /\ Enough(n)
  OBVIOUS
<1>5. QED
  BY <1>3, <1>4 DEF Excess
\* The two parts of a queue without repetitions.
LEMMA SplitFacts ==
  ASSUME NEW s \in Seq(Ranges), Once(s), NEW n \in 0 .. Len(s)
  PROVE  LET old == SubSeq(s, 1, n)
             new == SubSeq(s, n + 1, Len(s)) IN
         /\ old \in Seq(Ranges) /\ new \in Seq(Ranges) /\ Once(old) /\ Once(new)
         /\ \A r : In(s, r) <=> In(old, r) \/ In(new, r)
         /\ \A r : ~(In(old, r) /\ In(new, r))
<1> DEFINE old == SubSeq(s, 1, n)
           new == SubSeq(s, n + 1, Len(s))
<1>1. n \in Nat /\ Len(s) \in Nat /\ Len(s) - n \in Nat
  OBVIOUS
<1>2. /\ old \in Seq(Ranges) /\ Len(old) = n
      /\ \A k \in 1 .. n : old[k] = s[k] /\ k \in 1 .. Len(s)
  BY <1>1
<1>3. /\ new \in Seq(Ranges) /\ Len(new) = Len(s) - n
      /\ \A k \in 1 .. Len(s) - n : new[k] = s[n + k] /\ n + k \in 1 .. Len(s)
  BY <1>1
<1> HIDE DEF old, new
<1>4. Once(old) /\ Once(new)
  <2>1. Once(old)
    BY <1>2 DEF Once
  <2>2. ASSUME NEW j \in 1 .. Len(new), NEW k \in 1 .. Len(new), new[j] = new[k] PROVE j = k
    <3>1. n + j = n + k
      BY <2>2, <1>3 DEF Once
    <3>2. QED
      BY <3>1, <1>1
  <2>3. QED
    BY <2>1, <2>2 DEF Once
<1>5. ASSUME NEW r, In(s, r) PROVE In(old, r) \/ In(new, r)
  <2>1. PICK k \in 1 .. Len(s) : s[k] = r
    BY <1>5 DEF In
  <2>2. CASE k <= n
    BY <2>1, <2>2, <1>2 DEF In
  <2>3. CASE k > n
    <3>1. k - n \in 1 .. Len(s) - n /\ n + (k - n) = k
      BY <2>3, <1>1
    <3>2. new[k - n] = r
      BY <3>1, <2>1, <1>3
    <3>3. QED
      BY <3>1, <3>2, <1>3 DEF In
  <2>4. QED
    BY <2>2, <2>3, <1>1
<1>6. ASSUME NEW r, In(old, r) \/ In(new, r) PROVE In(s, r)
  BY <1>6, <1>2, <1>3 DEF In
<1>7. ASSUME NEW r, In(old, r), In(new, r) PROVE FALSE
  <2>1. PICK j \in 1 .. n : s[j] = r
    BY <1>7, <1>2 DEF In
  <2>2. PICK k \in 1 .. Len(s) - n : s[n + k] = r
    BY <1>7, <1>3 DEF In
  <2>3. j = n + k
    BY <2>1, <2>2, <1>2, <1>3 DEF Once
  <2>4. QED
    BY <2>1, <2>2, <2>3, <1>1
<1>8. QED
  BY <1>2, <1>3, <1>4, <1>5, <1>6, <1>7 DEF old, new

\* trimLocked splits the queue between held and the goroutine's evictions, counts
\* the bytes it leaves, and leaves as many of the newest as fit.
LEMMA TrimFacts ==
  ASSUME evicted \in [Procs -> Seq(Ranges)], NEW p \in Procs, NEW s \in Seq(Ranges),
         Once(s), NEW l \in Limits, trimLocked(p, s, Total(s), l)
  PROVE  /\ held' \in Seq(Ranges) /\ Once(held')
         /\ evicted' \in [Procs -> Seq(Ranges)] /\ Once(evicted'[p])
         /\ \A q \in Procs \ {p} : evicted'[q] = evicted[q]
         /\ \A r : In(s, r) <=> In(held', r) \/ In(evicted'[p], r)
         /\ \A r : ~(In(held', r) /\ In(evicted'[p], r))
         /\ bytes' = Total(held') /\ Fits(held', l)
         /\ \E k \in 0 .. Len(s) :
              /\ held' = Newest(s, k)
              /\ \A j \in k + 1 .. Len(s) : ~Fits(Newest(s, j), l)
<1> DEFINE n == Excess(s, Total(s), l)
<1>1. /\ n \in 0 .. Len(s)
      /\ \/ n = Len(s)
         \/ Len(s) - n <= l.Regions /\ Total(s) - Total(SubSeq(s, 1, n)) <= l.Bytes
      /\ \A m \in 0 .. n - 1 :
           Len(s) - m > l.Regions \/ Total(s) - Total(SubSeq(s, 1, m)) > l.Bytes
  <2>1. Total(s) \in Nat
    BY TotalType
  <2>2. QED
    BY <2>1, ExcessFacts
<1>2. /\ held' = SubSeq(s, n + 1, Len(s))
      /\ bytes' = Total(s) - Total(SubSeq(s, 1, n))
      /\ evicted' = [evicted EXCEPT ![p] = SubSeq(s, 1, n)]
  BY DEF trimLocked
<1> HIDE DEF n
<1>3. evicted'[p] = SubSeq(s, 1, n) /\ \A q \in Procs \ {p} : evicted'[q] = evicted[q]
  BY <1>2
<1>4. /\ held' \in Seq(Ranges) /\ Once(held') /\ evicted'[p] \in Seq(Ranges) /\ Once(evicted'[p])
      /\ \A r : In(s, r) <=> In(held', r) \/ In(evicted'[p], r)
      /\ \A r : ~(In(held', r) /\ In(evicted'[p], r))
  BY <1>1, <1>2, <1>3, SplitFacts
<1>5. evicted' \in [Procs -> Seq(Ranges)]
  BY <1>2, <1>3, <1>4
<1>6. l.Regions \in Nat /\ l.Bytes \in Nat /\ Len(s) \in Nat /\ n \in Nat
  BY <1>1, QuarantineAssumption
\* What is left of the byte count when m entries are gone.
<1>7. ASSUME NEW m \in 0 .. Len(s)
      PROVE  /\ Total(s) - Total(SubSeq(s, 1, m)) = Total(SubSeq(s, m + 1, Len(s)))
             /\ Len(SubSeq(s, m + 1, Len(s))) = Len(s) - m
             /\ Total(SubSeq(s, m + 1, Len(s))) \in Nat
  <2>1. SubSeq(s, 1, m) \in Seq(Ranges) /\ SubSeq(s, m + 1, Len(s)) \in Seq(Ranges)
    BY <1>6
  <2>2. /\ Total(s) \in Nat /\ Total(SubSeq(s, 1, m)) \in Nat
        /\ Total(SubSeq(s, m + 1, Len(s))) \in Nat
    BY <2>1, TotalType
  <2>3. Total(s) = Total(SubSeq(s, 1, m)) + Total(SubSeq(s, m + 1, Len(s)))
    BY TotalSplit
  <2>4. Len(SubSeq(s, m + 1, Len(s))) = Len(s) - m
    BY <1>6
  <2>5. QED
    BY <2>2, <2>3, <2>4
<1>8. bytes' = Total(held') /\ Len(held') = Len(s) - n /\ Total(held') \in Nat
  BY <1>1, <1>2, <1>7
<1>9. Fits(held', l)
  <2>1. CASE n = Len(s)
    <3>1. held' = <<>>
      BY <2>1, <1>2, <1>6
    <3>2. QED
      BY <3>1, <1>6, TotalType DEF Fits
  <2>2. CASE n # Len(s)
    BY <2>2, <1>1, <1>2, <1>8 DEF Fits
  <2>3. QED
    BY <2>1, <2>2
<1>10. ASSUME NEW j \in Len(s) - n + 1 .. Len(s) PROVE ~Fits(Newest(s, j), l)
  <2> DEFINE m == Len(s) - j
  <2>1. m \in 0 .. n - 1 /\ m \in 0 .. Len(s) /\ Len(s) - j + 1 = m + 1 /\ Len(s) - m = j
    BY <1>1, <1>6
  <2>2. Newest(s, j) = SubSeq(s, m + 1, Len(s))
    BY <2>1 DEF Newest
  <2> HIDE DEF m
  <2>3. Len(s) - m > l.Regions \/ Total(SubSeq(s, m + 1, Len(s))) > l.Bytes
    BY <2>1, <1>1, <1>7
  <2>4. Len(Newest(s, j)) = Len(s) - m
    BY <2>1, <2>2, <1>7
  <2>5. Total(Newest(s, j)) \in Nat /\ Len(s) - m \in Nat
    BY <2>1, <2>2, <1>6, <1>7
  <2>6. Len(Newest(s, j)) > l.Regions \/ Total(Newest(s, j)) > l.Bytes
    BY <2>2, <2>3, <2>4
  <2>7. ~(Len(Newest(s, j)) <= l.Regions /\ Total(Newest(s, j)) <= l.Bytes)
    <3> DEFINE a == Len(Newest(s, j))
               b == Total(Newest(s, j))
    <3>1. a \in Nat /\ b \in Nat /\ (a > l.Regions \/ b > l.Bytes)
      BY <2>4, <2>5, <2>6
    <3> HIDE DEF a, b
    <3>2. ~(a <= l.Regions /\ b <= l.Bytes)
      BY <3>1, <1>6
    <3>3. QED
      BY <3>2 DEF a, b
  <2>8. QED
    BY <2>7 DEF Fits
<1>11. held' = Newest(s, Len(s) - n) /\ Len(s) - n \in 0 .. Len(s)
  <2>1. Len(s) - (Len(s) - n) + 1 = n + 1 /\ Len(s) - n \in 0 .. Len(s)
    BY <1>1, <1>6
  <2>2. QED
    BY <2>1, <1>2 DEF Newest
<1>12. QED
  BY <1>3, <1>4, <1>5, <1>8, <1>9, <1>10, <1>11
-----------------------------------------------------------------------------
(* The inductive invariant. *)

\* The quarantine starts empty.
LEMMA InitIInv == Init => IInv
<1> SUFFICES ASSUME Init PROVE IInv
  OBVIOUS
<1>1. TypeInv
  BY QuarantineAssumption DEF Init, TypeInv, TypeOK, Contents
<1>2. RegionInv /\ QueueInv
  BY DEF Init, RegionInv, QueueInv, Once, In, Enters
<1>3. LimitInv
  <2>1. limits.Regions \in Nat /\ limits.Bytes \in Nat
    BY QuarantineAssumption DEF Init
  <2>2. QED
    BY <2>1, TotalType DEF Init, LimitInv, Fits
<1>4. QED
  BY <1>1, <1>2, <1>3 DEF IInv

\* A step that touches no queue.
LEMMA QueuesQuiet ==
  ASSUME QueueInv, TypeInv, UNCHANGED <<held, evicted, stuck>>,
         \A r \in Ranges : space'[r] = "reserved" <=> space[r] = "reserved",
         \A p \in Procs, r \in Ranges : Enters(p, r)' <=> Enters(p, r)
  PROVE  QueueInv'
BY DEF QueueInv

\* The range at the front of what releaseAll still has to unmap.
LEMMA HeadOut ==
  ASSUME NEW s \in Seq(Ranges), s # <<>>, Once(s)
  PROVE  /\ Head(s) \in Ranges /\ Tail(s) \in Seq(Ranges) /\ Once(Tail(s))
         /\ \A r : In(Tail(s), r) <=> In(s, r) /\ r # Head(s)
         /\ In(s, Head(s))
<1> DEFINE t == Tail(s)
<1>1. /\ Len(s) \in Nat /\ Len(s) >= 1 /\ Head(s) = s[1] /\ 1 \in 1 .. Len(s)
      /\ t \in Seq(Ranges) /\ Len(t) = Len(s) - 1
      /\ \A k \in 1 .. Len(t) : t[k] = s[k + 1] /\ k + 1 \in 1 .. Len(s) /\ k + 1 # 1
  OBVIOUS
<1> HIDE DEF t
<1>2. Once(t)
  <2> SUFFICES ASSUME NEW j \in 1 .. Len(t), NEW k \in 1 .. Len(t), t[j] = t[k] PROVE j = k
    BY DEF Once
  <2>1. j + 1 = k + 1
    BY <1>1 DEF Once
  <2>2. QED
    BY <2>1
<1>3. ASSUME NEW r, In(t, r) PROVE In(s, r) /\ r # Head(s)
  <2>1. PICK k \in 1 .. Len(t) : t[k] = r
    BY <1>3 DEF In
  <2>2. k + 1 \in 1 .. Len(s) /\ s[k + 1] = r /\ k + 1 # 1
    BY <2>1, <1>1
  <2>3. QED
    BY <2>2, <1>1 DEF In, Once
<1>4. ASSUME NEW r, In(s, r), r # Head(s) PROVE In(t, r)
  <2>1. PICK k \in 1 .. Len(s) : s[k] = r
    BY <1>4 DEF In
  <2>2. k # 1
    BY <2>1, <1>4, <1>1
  <2>3. k - 1 \in 1 .. Len(t) /\ k - 1 + 1 = k
    BY <2>1, <2>2, <1>1
  <2>4. t[k - 1] = r
    BY <2>1, <2>3, <1>1
  <2>5. QED
    BY <2>3, <2>4 DEF In
<1>5. In(s, Head(s)) /\ Head(s) \in Ranges
  BY <1>1 DEF In
<1>6. QED
  BY <1>1, <1>2, <1>3, <1>4, <1>5 DEF t
\* A range added at the end of a queue.
LEMMA LastIn ==
  ASSUME NEW s \in Seq(Ranges), Once(s), NEW x \in Ranges, ~In(s, x)
  PROVE  /\ Append(s, x) \in Seq(Ranges) /\ Once(Append(s, x))
         /\ \A r : In(Append(s, x), r) <=> In(s, r) \/ r = x
<1> DEFINE t == Append(s, x)
<1>1. /\ t \in Seq(Ranges) /\ Len(s) \in Nat /\ Len(t) = Len(s) + 1 /\ t[Len(s) + 1] = x
      /\ \A k \in 1 .. Len(s) : t[k] = s[k]
  OBVIOUS
<1> HIDE DEF t
<1>2. /\ \A k \in 1 .. Len(t) : k \in 1 .. Len(s) \/ k = Len(s) + 1
      /\ 1 .. Len(s) \subseteq 1 .. Len(t) /\ Len(s) + 1 \in 1 .. Len(t)
  BY <1>1
<1>3. Once(t)
  BY <1>1, <1>2 DEF Once, In
<1>4. \A r : In(t, r) <=> In(s, r) \/ r = x
  BY <1>1, <1>2 DEF In
<1>5. QED
  BY <1>1, <1>3, <1>4 DEF t

\* Every step keeps the inductive invariant.
LEMMA NextIInv == IInv /\ [Next]_vars => IInv'
<1> SUFFICES ASSUME IInv, [Next]_vars PROVE IInv'
  OBVIOUS
<1> USE QuarantineAssumption
<1> TypeInv /\ RegionInv /\ QueueInv /\ LimitInv
  BY DEF IInv
<1>0. \A p \in Procs : pc[p] \notin {"idle", "release"} => region[p] \in Ranges
  BY DEF TypeInv, TypeOK
<1>1. ASSUME MapForeign, UNCHANGED keepsRange PROVE IInv'
  <2>1. PICK r \in Ranges : space[r] = "free" /\ space' = [space EXCEPT ![r] = "foreign"]
    BY <1>1 DEF MapForeign
  <2>2. UNCHANGED <<limits, held, bytes, pc, region, evicted, stuck>>
    BY <1>1 DEF MapForeign
  <2>3. TypeInv'
    BY <2>1, <2>2, <1>1 DEF TypeInv, TypeOK, Contents
  <2>4. RegionInv'
    BY <2>1, <2>2, <1>0 DEF TypeInv, TypeOK, RegionInv
  <2>5. QueueInv'
    BY <2>1, <2>2, QueuesQuiet DEF TypeInv, TypeOK, Enters
  <2>6. LimitInv'
    BY <2>2 DEF LimitInv
  <2>7. QED
    BY <2>3, <2>4, <2>5, <2>6 DEF IInv
<1>2. ASSUME NEW p \in Procs, Allocate(p), UNCHANGED keepsRange PROVE IInv'
  <2>1. PICK r \in Ranges : /\ space[r] = "free"
                            /\ space' = [space EXCEPT ![r] = "region"]
                            /\ region' = [region EXCEPT ![p] = r]
    BY <1>2 DEF Allocate
  <2>2. /\ UNCHANGED <<limits, held, bytes, evicted, stuck>>
        /\ pc' = [pc EXCEPT ![p] = "live"] /\ pc[p] = "idle"
    BY <1>2 DEF Allocate, Goto
  <2>3. TypeInv'
    BY <2>1, <2>2, <1>2 DEF TypeInv, TypeOK, Contents
  <2>4. RegionInv'
    <3>1. ASSUME NEW q \in Procs, region[q] = r PROVE FALSE
      <4>1. pc[q] \in {"live", "replace", "free"} \/ Enters(q, r)
        BY <3>1 DEF TypeInv, TypeOK, Enters
      <4>2. QED
        BY <3>1, <4>1, <2>1 DEF RegionInv, QueueInv
    <3>2. QED
      BY <3>1, <2>1, <2>2, <1>0 DEF TypeInv, TypeOK, RegionInv
  <2>5. QueueInv'
    <3>1. \A q \in Procs, x \in Ranges : Enters(q, x)' <=> Enters(q, x)
      BY <2>1, <2>2 DEF TypeInv, TypeOK, Enters
    <3>2. QED
      BY <3>1, <2>1, <2>2, QueuesQuiet DEF TypeInv, TypeOK
  <2>6. LimitInv'
    BY <2>2 DEF LimitInv
  <2>7. QED
    BY <2>3, <2>4, <2>5, <2>6 DEF IInv
<1>3. ASSUME NEW p \in Procs, Admit(p), UNCHANGED keepsRange PROVE IInv'
  <2>1. PICK l \in {"replace", "free"} : pc' = [pc EXCEPT ![p] = l]
    BY <1>3 DEF Admit, Goto
  <2>2. UNCHANGED <<space, limits, held, bytes, region, evicted, stuck>> /\ pc[p] = "live"
    BY <1>3 DEF Admit
  <2>3. TypeInv'
    BY <2>1, <2>2, <1>3 DEF TypeInv, TypeOK
  <2>4. RegionInv'
    BY <2>1, <2>2 DEF TypeInv, TypeOK, RegionInv
  <2>5. QueueInv'
    BY <2>1, <2>2, QueuesQuiet DEF TypeInv, TypeOK, Enters
  <2>6. LimitInv'
    BY <2>2 DEF LimitInv
  <2>7. QED
    BY <2>3, <2>4, <2>5, <2>6 DEF IInv
<1>4. ASSUME NEW p \in Procs, QuarantineSecretMem(p), UNCHANGED keepsRange PROVE IInv'
  <2>1. PICK r \in Ranges : r = region[p] /\ space[r] = "region"
    BY <1>0, <1>4 DEF QuarantineSecretMem, RegionInv
  <2>2. /\ UNCHANGED <<limits, held, bytes, region, evicted, stuck>> /\ pc[p] = "replace"
        /\ pc' = [pc EXCEPT ![p] = "append"]
        /\ space' = [space EXCEPT ![r] = "reserved"]
    BY <2>1, <1>4 DEF QuarantineSecretMem, Goto
  <2>3. TypeInv'
    BY <2>1, <2>2, <1>4 DEF TypeInv, TypeOK, Contents
  <2>4. RegionInv'
    BY <2>1, <2>2, <1>0 DEF TypeInv, TypeOK, RegionInv
  <2>5. QueueInv'
    <3>1. \A q \in Procs, x \in Ranges : Enters(q, x)' <=> Enters(q, x) \/ (q = p /\ x = r)
      BY <2>1, <2>2 DEF TypeInv, TypeOK, Enters
    <3>2. /\ ~In(held, r)
          /\ \A q \in Procs : ~In(evicted[q], r) /\ ~Enters(q, r)
      BY <2>1 DEF QueueInv
    <3>3. space'[r] = "reserved" /\ \A x \in Ranges \ {r} : space'[x] = space[x]
      BY <2>2 DEF TypeInv, TypeOK
    <3>4. QED
      BY <3>1, <3>2, <3>3, <2>2 DEF QueueInv
  <2>6. LimitInv'
    BY <2>2 DEF LimitInv
  <2>7. QED
    BY <2>3, <2>4, <2>5, <2>6 DEF IInv
<1>5. ASSUME NEW p \in Procs, ReplaceFails(p) \/ FreeSecretMem(p), UNCHANGED keepsRange
      PROVE  IInv'
  <2>1. PICK r \in Ranges : r = region[p] /\ space[r] = "region" /\ pc[p] \in {"replace", "free"}
    BY <1>0, <1>5 DEF ReplaceFails, FreeSecretMem, RegionInv
  <2>2. UNCHANGED <<limits, held, bytes, evicted, stuck>>
    BY <1>5 DEF ReplaceFails, FreeSecretMem
  <2>3. \/ pc' = [pc EXCEPT ![p] = "free"] /\ UNCHANGED <<space, region>>
        \/ /\ pc' = [pc EXCEPT ![p] = "idle"]
           /\ region' = [region EXCEPT ![p] = None]
           /\ \E left \in {"region", "free"} : space' = [space EXCEPT ![r] = left]
    <3>1. space = [space EXCEPT ![r] = "region"]
      BY <2>1 DEF TypeInv, TypeOK
    <3>2. QED
      BY <3>1, <2>1, <1>5 DEF ReplaceFails, FreeSecretMem, Goto
  <2>4. TypeInv'
    <3>1. CASE pc' = [pc EXCEPT ![p] = "free"] /\ UNCHANGED <<space, region>>
      BY <3>1, <2>1, <2>2, <1>5 DEF TypeInv, TypeOK
    <3>2. CASE /\ pc' = [pc EXCEPT ![p] = "idle"]
               /\ region' = [region EXCEPT ![p] = None]
               /\ \E left \in {"region", "free"} : space' = [space EXCEPT ![r] = left]
      <4>1. space' \in [Ranges -> Contents]
        BY <3>2 DEF TypeInv, TypeOK, Contents
      <4>2. QED
        BY <4>1, <3>2, <2>1, <2>2, <1>5 DEF TypeInv, TypeOK
    <3>3. QED
      BY <3>1, <3>2, <2>3
  <2>5. RegionInv'
    <3>1. CASE pc' = [pc EXCEPT ![p] = "free"] /\ UNCHANGED <<space, region>>
      BY <3>1, <2>1, <1>0 DEF TypeInv, TypeOK, RegionInv
    <3>2. CASE /\ pc' = [pc EXCEPT ![p] = "idle"]
               /\ region' = [region EXCEPT ![p] = None]
               /\ \E left \in {"region", "free"} : space' = [space EXCEPT ![r] = left]
      <4>1. \A x \in Ranges \ {r} : space'[x] = space[x]
        BY <3>2 DEF TypeInv, TypeOK
      <4>2. \A q \in Procs \ {p} : region[q] # r
        BY <2>1 DEF RegionInv
      <4>3. QED
        BY <4>1, <4>2, <3>2, <2>1, <1>0, SMTT(30) DEF TypeInv, TypeOK, RegionInv
    <3>3. QED
      BY <3>1, <3>2, <2>3
  <2>6. QueueInv'
    <3>1. \A q \in Procs, x \in Ranges : Enters(q, x)' <=> Enters(q, x)
      BY <2>1, <2>3 DEF TypeInv, TypeOK, Enters
    <3>2. \A x \in Ranges : space'[x] = "reserved" <=> space[x] = "reserved"
      BY <2>1, <2>3 DEF TypeInv, TypeOK
    <3>3. QED
      BY <3>1, <3>2, <2>2, QueuesQuiet
  <2>7. LimitInv'
    BY <2>2 DEF LimitInv
  <2>8. QED
    BY <2>4, <2>5, <2>6, <2>7 DEF IInv
<1>6. ASSUME NEW p \in Procs, AppendHeld(p), UNCHANGED keepsRange PROVE IInv'
  <2>1. PICK r \in Ranges : r = region[p]
    BY <1>0, <1>6 DEF AppendHeld
  <2>2. /\ UNCHANGED <<space, limits, stuck>> /\ pc[p] = "append"
        /\ pc' = [pc EXCEPT ![p] = "release"]
        /\ region' = [region EXCEPT ![p] = None]
        /\ trimLocked(p, Append(held, r), bytes + Size[r], limits)
    BY <2>1, <1>6 DEF AppendHeld, Goto
  <2>3. Enters(p, r) /\ ~In(held, r) /\ evicted[p] = <<>> /\ held \in Seq(Ranges) /\ Once(held)
    BY <2>1, <2>2 DEF Enters, QueueInv, TypeInv, TypeOK
  <2> DEFINE s == Append(held, r)
  <2>4. s \in Seq(Ranges) /\ Once(s) /\ \A x : In(s, x) <=> In(held, x) \/ x = r
    BY <2>3, LastIn
  <2>5. Total(s) = bytes + Size[r]
    BY <2>3, TotalAppend DEF LimitInv
  <2>6. evicted \in [Procs -> Seq(Ranges)] /\ limits \in Limits
    BY DEF TypeInv, TypeOK
  <2> HIDE DEF s
  <2>7. /\ held' \in Seq(Ranges) /\ Once(held')
        /\ evicted' \in [Procs -> Seq(Ranges)] /\ Once(evicted'[p])
        /\ \A q \in Procs \ {p} : evicted'[q] = evicted[q]
        /\ \A x : In(s, x) <=> In(held', x) \/ In(evicted'[p], x)
        /\ \A x : ~(In(held', x) /\ In(evicted'[p], x))
        /\ bytes' = Total(held') /\ Fits(held', limits)
    <3>1. trimLocked(p, s, Total(s), limits)
      BY <2>2, <2>5 DEF s
    <3>2. QED
      BY <3>1, <2>4, <2>6, TrimFacts
  <2>8. TypeInv'
    <3>1. bytes' \in Nat
      BY <2>7, TotalType
    <3>2. QED
      BY <3>1, <2>2, <2>7, <1>6 DEF TypeInv, TypeOK
  <2>9. RegionInv'
    BY <2>2 DEF TypeInv, TypeOK, RegionInv
  <2>10. QueueInv'
    <3>1. \A q \in Procs, x \in Ranges : Enters(q, x)' <=> Enters(q, x) /\ q # p
      BY <2>2, <1>0 DEF TypeInv, TypeOK, Enters
    <3>2. \A x \in Ranges : Enters(p, x) <=> x = r
      BY <2>1, <2>2 DEF Enters
    <3>3. \A x : ~In(evicted[p], x)
      BY <2>3 DEF In
    <3>4. \A q \in Procs : Once(evicted'[q])
      BY <2>7 DEF QueueInv
    <3>5. ASSUME NEW x \in Ranges PROVE QueueInv!3!(x)'
      <4>1. /\ In(held', x) \/ In(evicted'[p], x) <=> In(held, x) \/ Enters(p, x)
            /\ ~(In(held', x) /\ In(evicted'[p], x))
        BY <2>4, <2>7, <3>2
      <4>2. \A q \in Procs : Enters(q, x) => q = p \/ ~Enters(p, x)
        BY <2>1 DEF Enters, RegionInv
      <4>3. QED
        BY <4>1, <4>2, <3>1, <3>3, <2>2, <2>7 DEF QueueInv
    <3>6. QED
      BY <3>4, <3>5, <2>7 DEF QueueInv
  <2>11. LimitInv'
    BY <2>2, <2>7 DEF LimitInv
  <2>12. QED
    BY <2>8, <2>9, <2>10, <2>11 DEF IInv
<1>7. ASSUME NEW p \in Procs, ReleaseQuarantined(p), UNCHANGED keepsRange PROVE IInv'
  <2> DEFINE s == evicted[p]
  <2>1. /\ s \in Seq(Ranges) /\ s # <<>> /\ Once(s) /\ pc[p] = "release"
        /\ UNCHANGED <<limits, held, bytes, pc, region>>
        /\ evicted' = [evicted EXCEPT ![p] = Tail(s)]
    BY <1>7 DEF ReleaseQuarantined, TypeInv, TypeOK, QueueInv
  <2>2. PICK r \in Ranges : r = Head(s)
    BY <2>1, HeadOut
  <2>3. /\ Tail(s) \in Seq(Ranges) /\ Once(Tail(s)) /\ In(s, r)
        /\ \A x : In(Tail(s), x) <=> In(s, x) /\ x # r
    BY <2>1, <2>2, HeadOut
  <2>4. \/ space' = [space EXCEPT ![r] = "free"] /\ UNCHANGED stuck
        \/ stuck' = stuck \cup {r} /\ UNCHANGED space
    BY <2>2, <1>7 DEF ReleaseQuarantined
  <2>5. evicted'[p] = Tail(s) /\ \A q \in Procs \ {p} : evicted'[q] = evicted[q]
    BY <2>1 DEF TypeInv
  <2>6. /\ space[r] = "reserved" /\ ~In(held, r)
        /\ \A q \in Procs : ~Enters(q, r) /\ (In(evicted[q], r) => q = p)
    BY <2>3 DEF QueueInv
  <2> HIDE DEF s
  <2>7. TypeInv'
    <3>1. evicted' \in [Procs -> Seq(Ranges)]
      BY <2>1, <2>3 DEF TypeInv
    <3>2. space' \in [Ranges -> Contents] /\ stuck' \subseteq Ranges
      BY <2>4 DEF TypeInv, TypeOK, Contents
    <3>3. \A q \in Procs : evicted'[q] # <<>> => pc'[q] = "release"
      BY <2>1, <2>5 DEF TypeInv, TypeOK
    <3>4. QED
      BY <3>1, <3>2, <3>3, <2>1, <1>7 DEF TypeInv, TypeOK
  <2>8. RegionInv'
    BY <2>1, <2>4, <2>6, <1>0 DEF TypeInv, TypeOK, RegionInv
  <2>9. QueueInv'
    <3>1. \A q \in Procs, x \in Ranges : Enters(q, x)' <=> Enters(q, x)
      BY <2>1 DEF Enters
    <3>2. \A q \in Procs : Once(evicted'[q])
      BY <2>3, <2>5 DEF QueueInv
    <3>3. \A q \in Procs, x \in Ranges : In(evicted'[q], x) <=> In(evicted[q], x) /\ x # r
      BY <2>3, <2>5, <2>6 DEF s
    <3>4. \A x \in Ranges : x # r => /\ space'[x] = space[x]
                                     /\ x \in stuck' <=> x \in stuck
      BY <2>4 DEF TypeInv, TypeOK
    <3>5. space'[r] = "reserved" => r \in stuck'
      BY <2>4, <2>6 DEF TypeInv, TypeOK
    <3>6. ASSUME NEW x \in Ranges PROVE QueueInv!3!(x)'
      <4>1. CASE x = r
        BY <4>1, <3>1, <3>3, <3>5, <2>1, <2>6
      <4>2. CASE x # r
        BY <4>2, <3>1, <3>3, <3>4, <2>1 DEF QueueInv
      <4>3. QED
        BY <4>1, <4>2
    <3>7. QED
      BY <3>2, <3>6, <2>1 DEF QueueInv
  <2>10. LimitInv'
    BY <2>1 DEF LimitInv
  <2>11. QED
    BY <2>7, <2>8, <2>9, <2>10 DEF IInv
<1>8. ASSUME NEW p \in Procs, ReleaseDone(p), UNCHANGED keepsRange PROVE IInv'
  <2>1. /\ UNCHANGED <<space, limits, held, bytes, region, evicted, stuck>>
        /\ pc[p] = "release" /\ evicted[p] = <<>> /\ pc' = [pc EXCEPT ![p] = "idle"]
    BY <1>8 DEF ReleaseDone, Goto
  <2>2. TypeInv'
    BY <2>1, <1>8 DEF TypeInv, TypeOK
  <2>3. RegionInv'
    BY <2>1 DEF TypeInv, TypeOK, RegionInv
  <2>4. QueueInv'
    BY <2>1, QueuesQuiet DEF TypeInv, TypeOK, Enters
  <2>5. LimitInv'
    BY <2>1 DEF LimitInv
  <2>6. QED
    BY <2>2, <2>3, <2>4, <2>5 DEF IInv
<1>9. ASSUME NEW p \in Procs, SetQuarantineLimits(p), UNCHANGED keepsRange PROVE IInv'
  <2>1. PICK l \in Limits : limits' = l /\ trimLocked(p, held, bytes, l)
    BY <1>9 DEF SetQuarantineLimits
  <2>2. /\ UNCHANGED <<space, region, stuck>> /\ pc[p] = "idle"
        /\ pc' = [pc EXCEPT ![p] = "release"]
    BY <1>9 DEF SetQuarantineLimits, Goto
  <2>3. evicted[p] = <<>> /\ held \in Seq(Ranges) /\ Once(held) /\ bytes = Total(held)
    BY <2>2 DEF QueueInv, LimitInv, TypeInv, TypeOK
  <2>4. /\ held' \in Seq(Ranges) /\ Once(held')
        /\ evicted' \in [Procs -> Seq(Ranges)] /\ Once(evicted'[p])
        /\ \A q \in Procs \ {p} : evicted'[q] = evicted[q]
        /\ \A x : In(held, x) <=> In(held', x) \/ In(evicted'[p], x)
        /\ \A x : ~(In(held', x) /\ In(evicted'[p], x))
        /\ bytes' = Total(held') /\ Fits(held', l)
    <3>1. evicted \in [Procs -> Seq(Ranges)] /\ trimLocked(p, held, Total(held), l)
      BY <2>1, <2>3 DEF TypeInv
    <3>2. QED
      BY <3>1, <2>3, TrimFacts
  <2>5. TypeInv'
    <3>1. bytes' \in Nat
      BY <2>4, TotalType
    <3>2. QED
      BY <3>1, <2>1, <2>2, <2>4, <1>9 DEF TypeInv, TypeOK
  <2>6. RegionInv'
    BY <2>2 DEF TypeInv, TypeOK, RegionInv
  <2>7. QueueInv'
    <3>1. \A q \in Procs, x \in Ranges : Enters(q, x)' <=> Enters(q, x)
      BY <2>2 DEF TypeInv, TypeOK, Enters
    <3>2. \A x : ~In(evicted[p], x)
      BY <2>3 DEF In
    <3>3. \A q \in Procs : Once(evicted'[q])
      BY <2>4 DEF QueueInv
    <3>4. ASSUME NEW x \in Ranges PROVE QueueInv!3!(x)'
      BY <3>1, <3>2, <2>2, <2>4 DEF QueueInv
    <3>5. QED
      BY <3>3, <3>4, <2>4 DEF QueueInv
  <2>8. LimitInv'
    BY <2>1, <2>4 DEF LimitInv
  <2>9. QED
    BY <2>5, <2>6, <2>7, <2>8 DEF IInv
<1>10. ASSUME UNCHANGED vars PROVE IInv'
  <2>1. TypeInv' /\ RegionInv' /\ LimitInv'
    BY <1>10 DEF vars, TypeInv, TypeOK, RegionInv, LimitInv
  <2>2. QueueInv'
    BY <1>10, QueuesQuiet DEF vars, Enters
  <2>3. QED
    BY <2>1, <2>2 DEF IInv
<1>11. QED
  BY <1>1, <1>2, <1>3, <1>4, <1>5, <1>6, <1>7, <1>8, <1>9, <1>10 DEF Next
-----------------------------------------------------------------------------
(* The theorems. *)

\* The inductive invariant holds in every state the quarantine can reach.
THEOREM Invariance == Spec => []IInv
<1>1. QED
  BY InitIInv, NextIInv, PTL DEF Spec

\* The set a queue stands for.
LEMMA ToSetIn ==
  ASSUME NEW s \in Seq(Ranges), NEW r
  PROVE  r \in ToSet(s) <=> In(s, r)
BY DEF ToSet, In

\* What is reserved is what the queue holds, admits or is letting go of, each range
\* once, unless munmap failed on it: retireSecretMem and releaseAll lose nothing and
\* unmap nothing twice, whatever SetQuarantineLimits does in between.
THEOREM Accounted == Spec => []ReservationsAccounted
<1>1. IInv => ReservationsAccounted
  <2> SUFFICES ASSUME IInv PROVE ReservationsAccounted
    OBVIOUS
  <2>1. TypeOK /\ evicted \in [Procs -> Seq(Ranges)] /\ held \in Seq(Ranges)
    BY DEF IInv, TypeInv, TypeOK
  <2>2. ASSUME NEW p \in Procs
        PROVE  /\ Entering(p) \in Seq(Ranges) /\ Once(Entering(p))
               /\ \A r : In(Entering(p), r) <=> Enters(p, r)
    <3>1. CASE pc[p] = "append"
      <4>1. Entering(p) = <<region[p]>> /\ region[p] \in Ranges
        BY <3>1, <2>1 DEF Entering, TypeOK
      <4>2. QED
        BY <3>1, <4>1 DEF Once, In, Enters
    <3>2. CASE pc[p] # "append"
      BY <3>2 DEF Entering, Once, In, Enters
    <3>3. QED
      BY <3>1, <3>2
  <2>3. ASSUME NEW x \in Places
        PROVE  \/ x = <<None, "held">> /\ Queue(x) = held
               \/ \E p \in Procs : x = <<p, "entering">> /\ Queue(x) = Entering(p)
               \/ \E p \in Procs : x = <<p, "evicted">> /\ Queue(x) = evicted[p]
    BY <2>3 DEF Places, Queue
  <2>4. /\ <<None, "held">> \in Places /\ Queue(<<None, "held">>) = held
        /\ \A p \in Procs : <<p, "entering">> \in Places /\ Queue(<<p, "entering">>) = Entering(p)
        /\ \A p \in Procs : <<p, "evicted">> \in Places /\ Queue(<<p, "evicted">>) = evicted[p]
    BY DEF Places, Queue
  <2>5. ASSUME NEW x \in Places
        PROVE  Queue(x) \in Seq(Ranges) /\ Once(Queue(x))
    BY <2>1, <2>2, <2>3 DEF IInv, QueueInv
  <2>6. ASSUME NEW x \in Places, NEW y \in Places, NEW r \in Ranges,
               In(Queue(x), r), In(Queue(y), r)
        PROVE  x = y
    <3>1. QueueInv!3!(r)
      BY DEF IInv, QueueInv
    <3>2. \A p, q \in Procs : Enters(p, r) /\ Enters(q, r) => p = q
      BY <2>1, QuarantineAssumption DEF IInv, RegionInv, Enters
    <3>3. CASE Queue(x) = held /\ x = <<None, "held">>
      BY <3>1, <3>3, <2>2, <2>3, <2>6
    <3>4. ASSUME NEW p \in Procs, x = <<p, "entering">>, Queue(x) = Entering(p) PROVE x = y
      BY <3>1, <3>2, <3>4, <2>2, <2>3, <2>6
    <3>5. ASSUME NEW p \in Procs, x = <<p, "evicted">>, Queue(x) = evicted[p] PROVE x = y
      BY <3>1, <3>5, <2>2, <2>3, <2>6
    <3>6. QED
      BY <3>3, <3>4, <3>5, <2>3
  <2>7. \A x \in Places : IsInjective(Queue(x))
    BY <2>5 DEF Once, IsInjective
  <2>8. \A x, y \in Places : x # y => ToSet(Queue(x)) \cap ToSet(Queue(y)) = {}
    <3> SUFFICES ASSUME NEW x \in Places, NEW y \in Places, x # y, NEW r,
                        r \in ToSet(Queue(x)), r \in ToSet(Queue(y))
                 PROVE  FALSE
      OBVIOUS
    <3>1. In(Queue(x), r) /\ In(Queue(y), r)
      BY <2>5, ToSetIn
    <3>2. r \in Ranges
      BY <3>1, <2>5 DEF In
    <3>3. QED
      BY <3>1, <3>2, <2>6
  <2>9. ASSUME NEW r \in Ranges
        PROVE  r \in UNION {ToSet(Queue(x)) : x \in Places} <=>
                 In(held, r) \/ \E p \in Procs : In(evicted[p], r) \/ Enters(p, r)
    <3>1. r \in UNION {ToSet(Queue(x)) : x \in Places} <=> \E x \in Places : In(Queue(x), r)
      BY <2>5, ToSetIn
    <3>2. QED
      BY <3>1, <2>2, <2>3, <2>4
  <2>10. QED
    BY <2>1, <2>7, <2>8, <2>9 DEF IInv, QueueInv, ReservationsAccounted
<1>2. QED
  BY <1>1, Invariance, PTL

\* A retirement unmaps only its own range: not what other code mapped into the hole
\* a failed MAP_FIXED left, nor a region another goroutine is using.
THEOREM OthersKept == Spec => OthersKeepTheirMemory
<1> DEFINE Kept ==
      /\ \A r \in Ranges : space[r] = "foreign" => space'[r] = "foreign"
      /\ \A p \in Procs : pc[p] = "live" /\ pc'[p] = "live"
                            => space'[region[p]] = "region"
<1>1. IInv /\ [Next]_vars => [Kept]_vars
  <2> SUFFICES ASSUME IInv, Next PROVE Kept
    OBVIOUS
  <2> TypeInv /\ RegionInv /\ QueueInv
    BY DEF IInv
  <2>0. \A p \in Procs : pc[p] \notin {"idle", "release"} => region[p] \in Ranges
    BY DEF TypeInv, TypeOK
  \* Whatever range changes was free, reserved or the actor's own region.
  <2>1. ASSUME NEW x \in Ranges, NEW v, space' = [space EXCEPT ![x] = v],
               \/ space[x] \in {"free", "reserved"}
               \/ space[x] = "region" /\ \E p \in Procs : region[p] = x /\ pc[p] # "live"
        PROVE  Kept
    BY <2>0, <2>1, SMTT(30) DEF TypeInv, TypeOK, RegionInv
  <2>2. ASSUME UNCHANGED space PROVE Kept
    BY <2>0, <2>2 DEF RegionInv
  <2> HIDE DEF Kept
  <2>3. CASE MapForeign
    BY <2>1, <2>3 DEF MapForeign
  <2>4. ASSUME NEW p \in Procs, Allocate(p) PROVE Kept
    BY <2>1, <2>4 DEF Allocate
  <2>5. ASSUME NEW p \in Procs, QuarantineSecretMem(p) \/ ReplaceFails(p) \/ FreeSecretMem(p)
        PROVE  Kept
    <3>1. region[p] \in Ranges /\ space[region[p]] = "region" /\ pc[p] # "live"
      BY <2>0, <2>5 DEF QuarantineSecretMem, ReplaceFails, FreeSecretMem, RegionInv
    <3>2. UNCHANGED space \/ \E v : space' = [space EXCEPT ![region[p]] = v]
      BY <2>5 DEF QuarantineSecretMem, ReplaceFails, FreeSecretMem
    <3>3. QED
      BY <3>1, <3>2, <2>1, <2>2
  <2>6. ASSUME NEW p \in Procs, ReleaseQuarantined(p) PROVE Kept
    <3>1. evicted[p] \in Seq(Ranges) /\ evicted[p] # <<>> /\ Once(evicted[p])
      BY <2>6 DEF ReleaseQuarantined, TypeInv, QueueInv
    <3>2. Head(evicted[p]) \in Ranges /\ In(evicted[p], Head(evicted[p]))
      BY <3>1, HeadOut
    <3>3. space[Head(evicted[p])] = "reserved"
      BY <3>2 DEF QueueInv
    <3>4. UNCHANGED space \/ space' = [space EXCEPT ![Head(evicted[p])] = "free"]
      BY <2>6 DEF ReleaseQuarantined
    <3>5. QED
      BY <3>2, <3>3, <3>4, <2>1, <2>2
  <2>7. ASSUME NEW p \in Procs,
               Admit(p) \/ AppendHeld(p) \/ ReleaseDone(p) \/ SetQuarantineLimits(p)
        PROVE  Kept
    BY <2>2, <2>7 DEF Admit, AppendHeld, ReleaseDone, SetQuarantineLimits
  <2>8. QED
    BY <2>3, <2>4, <2>5, <2>6, <2>7 DEF Next
<1>2. QED
  BY <1>1, Invariance, PTL DEF Spec, OthersKeepTheirMemory

\* The queue evicts the oldest first, as many as the limits now in force demand and
\* no more, and counts its bytes exactly.
THEOREM NewestKept == Spec => KeepsTheNewest
<1> DEFINE Kept ==
      LET added == {p \in Procs : pc[p] = "append" /\ pc'[p] # "append"}
          s == IF added = {} THEN held
               ELSE held \o Entering(CHOOSE p \in added : TRUE)
      IN  \E k \in 0 .. Len(s) :
            /\ held' = Newest(s, k)
            /\ Fits(held', limits')
            /\ bytes' = Total(held')
            /\ \A j \in k + 1 .. Len(s) : ~ Fits(Newest(s, j), limits')
<1>1. IInv /\ [Next]_vars => [Kept]_vars
  <2> SUFFICES ASSUME IInv, Next PROVE Kept
    OBVIOUS
  <2> TypeInv /\ QueueInv /\ LimitInv
    BY DEF IInv
  <2>0. held \in Seq(Ranges) /\ evicted \in [Procs -> Seq(Ranges)] /\ Once(held)
    BY DEF TypeInv, TypeOK, QueueInv
  <2> DEFINE added == {p \in Procs : pc[p] = "append" /\ pc'[p] # "append"}
  \* Nothing is appended and nothing trimmed.
  <2>1. ASSUME UNCHANGED <<held, limits, bytes>>, added = {} PROVE Kept
    <3>1. Newest(held, Len(held)) = held /\ Len(held) \in 0 .. Len(held)
      BY <2>0 DEF Newest
    <3>2. Fits(held', limits') /\ bytes' = Total(held') /\ held' = held
      BY <2>1 DEF LimitInv
    <3>3. \A j \in Len(held) + 1 .. Len(held) : FALSE
      BY <2>0
    <3>4. QED
      BY <2>1, <3>1, <3>2, <3>3
  <2>2. ASSUME NEW p \in Procs, AppendHeld(p) PROVE Kept
    <3>1. PICK r \in Ranges : r = region[p]
      BY <2>2 DEF AppendHeld, TypeInv, TypeOK
    <3>2. /\ UNCHANGED limits /\ pc[p] = "append" /\ pc' = [pc EXCEPT ![p] = "release"]
          /\ trimLocked(p, Append(held, r), bytes + Size[r], limits)
      BY <3>1, <2>2 DEF AppendHeld, Goto
    <3>3. added = {p}
      BY <3>2 DEF TypeInv, TypeOK
    <3>4. held \o Entering(CHOOSE q \in added : TRUE) = Append(held, r) /\ added # {}
      <4>1. (CHOOSE q \in added : TRUE) = p
        BY <3>3
      <4>2. Entering(p) = <<r>>
        BY <3>1, <3>2 DEF Entering
      <4>3. held \o <<r>> = Append(held, r)
        BY <2>0
      <4>4. added # {}
        BY <3>3
      <4> HIDE DEF added
      <4>5. QED
        BY <4>1, <4>2, <4>3, <4>4
    <3>5. ~In(held, r)
      BY <3>1, <3>2 DEF QueueInv, Enters
    <3>6. Append(held, r) \in Seq(Ranges) /\ Once(Append(held, r))
      BY <3>5, <2>0, LastIn
    <3>7. Total(Append(held, r)) = bytes + Size[r]
      BY <2>0, TotalAppend DEF LimitInv
    <3>8. limits \in Limits
      BY DEF TypeInv, TypeOK
    <3> DEFINE s == Append(held, r)
    <3> HIDE DEF s
    <3>9. /\ bytes' = Total(held') /\ Fits(held', limits)
          /\ \E k \in 0 .. Len(s) :
              /\ held' = Newest(s, k)
              /\ \A j \in k + 1 .. Len(s) : ~Fits(Newest(s, j), limits)
      <4>1. trimLocked(p, s, Total(s), limits) /\ s \in Seq(Ranges) /\ Once(s)
        BY <3>2, <3>6, <3>7 DEF s
      <4>2. QED
        BY <4>1, <3>8, <2>0, TrimFacts
    <3>10. QED
      BY <3>2, <3>4, <3>9 DEF s
  <2>3. ASSUME NEW p \in Procs, SetQuarantineLimits(p) PROVE Kept
    <3>1. PICK l \in Limits : limits' = l /\ trimLocked(p, held, bytes, l)
      BY <2>3 DEF SetQuarantineLimits
    <3>2. added = {}
      BY <2>3 DEF SetQuarantineLimits, Goto, TypeInv, TypeOK
    <3>3. bytes = Total(held)
      BY DEF LimitInv
    <3>4. /\ bytes' = Total(held') /\ Fits(held', l)
          /\ \E k \in 0 .. Len(held) :
              /\ held' = Newest(held, k)
              /\ \A j \in k + 1 .. Len(held) : ~Fits(Newest(held, j), l)
      <4>1. trimLocked(p, held, Total(held), l)
        BY <3>1, <3>3
      <4>2. QED
        BY <4>1, <2>0, TrimFacts
    <3>5. QED
      BY <3>1, <3>2, <3>4
  <2> HIDE DEF Kept
  <2>4. CASE MapForeign
    <3>1. added = {}
      BY <2>4 DEF MapForeign
    <3>2. QED
      BY <3>1, <2>1, <2>4 DEF MapForeign
  <2>5. ASSUME NEW p \in Procs,
               \/ Allocate(p) \/ Admit(p) \/ QuarantineSecretMem(p) \/ ReplaceFails(p)
               \/ FreeSecretMem(p) \/ ReleaseQuarantined(p) \/ ReleaseDone(p)
        PROVE  Kept
    <3>1. UNCHANGED <<held, limits, bytes>>
      BY <2>5 DEF Allocate, Admit, QuarantineSecretMem, ReplaceFails, FreeSecretMem,
                  ReleaseQuarantined, ReleaseDone
    <3>2. pc[p] # "append" /\ \A q \in Procs \ {p} : pc'[q] = pc[q]
      BY <2>5 DEF Allocate, Admit, QuarantineSecretMem, ReplaceFails, FreeSecretMem,
                  ReleaseQuarantined, ReleaseDone, Goto, TypeInv, TypeOK
    <3>3. QED
      BY <3>1, <3>2, <2>1
  <2>6. QED
    BY <2>2, <2>3, <2>4, <2>5 DEF Next
<1>2. QED
  BY <1>1, Invariance, PTL DEF Spec, KeepsTheNewest
=============================================================================
