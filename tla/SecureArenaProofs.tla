-------------------------- MODULE SecureArenaProofs --------------------------
(***************************************************************************)
(* Proofs about SecureArena, for any number of goroutines, slots and       *)
(* tenancies: the free list is sound, handles reach their own tenant only, *)
(* free slots are clean, a Release reports its own overrun, and a stale    *)
(* handle takes no secret away.                                            *)
(*                                                                         *)
(* The code's list is a chain of links, and an invariant about chains is   *)
(* awkward to keep.  The proofs have the list as a sequence instead, of    *)
(* which Acquire takes the head and the append of Release adds a last      *)
(* element; ListIsChain says that the walk of FreeListSound finds it.      *)
(***************************************************************************)
EXTENDS SecureArena, FiniteSetTheorems, WellFoundedInduction, TLAPS

HandleType == [idx : Links, generation : 0 .. MaxGen]
UsesHandle == {"borrowing", "inside", "releasing", "wiping", "pushing"}

\* p has claimed slot i and not yet appended it.
Holds(p, i) == pc[p] \in {"wiping", "pushing"} /\ handle[p].idx = i

\* p is between its claim of slot i and the end of the slot's wipe.
Wiping(p, i) == pc[p] = "wiping" /\ handle[p].idx = i

Odd(i) == generation[i] % 2 = 1

TypeInv == TypeOK /\ handle \in [Procs -> HandleType]

\* What a goroutine may rely on at each place: a borrowed handle is its slot's
\* tenant, a claimed one was until the claim.
LocalInv ==
  \A p \in Procs :
    /\ pc[p] \in UsesHandle => handle[p] \in Handles
    /\ pc[p] = "inside" =>
         /\ generation[handle[p].idx] = handle[p].generation
         /\ slab.mapped /\ ~slab.wiped
    /\ pc[p] = "wiping" => slab.mapped
    /\ pc[p] \in {"wiping", "pushing"} =>
         generation[handle[p].idx] = handle[p].generation + 1
    /\ violated[p] =>
         pc[p] = "pushing" /\ overran[handle[p].idx] = handle[p].generation
    /\ pc[p] = "acquiring" => (freeHead >= 0 => generation[freeHead] < MaxGen)

\* alloc has one holder, and a slot one Release that has claimed it.
OwnerInv ==
  /\ \A p, q \in Procs : pc[p] = "acquiring" /\ pc[q] = "acquiring" => p = q
  /\ \A p, q \in Procs, i \in Slots : Holds(p, i) /\ Holds(q, i) => p = q

\* fl is the free list: no slot twice, linked from freeHead to freeTail, and
\* made of exactly the free slots that no Release has in hand.
Chain(fl) ==
  /\ \A j, k \in 1 .. Len(fl) : fl[j] = fl[k] => j = k
  /\ freeHead = IF Len(fl) = 0 THEN -1 ELSE fl[1]
  /\ freeTail = IF Len(fl) = 0 THEN -1 ELSE fl[Len(fl)]
  /\ \A k \in 1 .. Len(fl) : next[fl[k]] = IF k = Len(fl) THEN -1 ELSE fl[k + 1]
  /\ live = Count - Len(fl)
  /\ \A i \in Slots : (\E k \in 1 .. Len(fl) : fl[k] = i) <=>
                        ~Odd(i) /\ \A p \in Procs : ~Holds(p, i)

ChainInv == \E fl \in Seq(Slots) : Chain(fl)

\* Whose bytes a slot can hold, and who can have run over its strip: its
\* tenant, or the one whose Release is about to wipe it.
MemoryInv ==
  \A i \in Slots :
    /\ Odd(i) => next[i] = -1
    /\ data[i] # 0 => ~slab.wiped /\ data[i] % 2 = 1
    /\ slab.mapped /\ data[i] # 0 => data[i] = generation[i] \/ \E p \in Procs : Wiping(p, i)
    /\ slab.mapped /\ ~slab.wiped /\ strip[i] # "armed" =>
         \/ Odd(i) /\ overran[i] = generation[i]
         \/ \E p \in Procs : Wiping(p, i) /\ overran[i] = handle[p].generation

IInv == TypeInv /\ LocalInv /\ OwnerInv /\ ChainInv /\ MemoryInv

-----------------------------------------------------------------------------
(* Lemmas about numbers, sequences and the free list. *)

\* Generations alternate between free and live.
LEMMA Parity ==
  ASSUME NEW n \in Nat
  PROVE  /\ n % 2 \in {0, 1}
         /\ n % 2 = 0 <=> (n + 1) % 2 = 1
         /\ n % 2 = 1 <=> (n + 1) % 2 = 0
OBVIOUS

\* A list without repetitions is no longer than the arena, so the walk from
\* freeHead, which gives up after Count + 1 slots, reaches its end.
LEMMA ListFits ==
  ASSUME NEW fl \in Seq(Slots), \A j, k \in 1 .. Len(fl) : fl[j] = fl[k] => j = k
  PROVE  Len(fl) <= Count
<1> Count \in Nat /\ Len(fl) \in Nat
  BY ArenaAssumption
<1>1. IsFiniteSet(1 .. Len(fl)) /\ Cardinality(1 .. Len(fl)) = Len(fl)
  <2>1. /\ IsFiniteSet(1 .. Len(fl))
        /\ Cardinality(1 .. Len(fl)) = IF 1 > Len(fl) THEN 0 ELSE Len(fl) - 1 + 1
    BY FS_Interval
  <2>2. QED
    BY <2>1
<1>2. IsFiniteSet(Slots) /\ Cardinality(Slots) = Count
  BY FS_Interval DEF Slots
<1>3. fl \in Injection(1 .. Len(fl), Slots)
  BY DEF Injection, IsInjective
<1>4. QED
  BY <1>1, <1>2, <1>3, FS_Injection

\* Natural numbers are well founded, stated without a predicate parameter.
LEMMA SetInduction ==
  ASSUME NEW S \in SUBSET Nat, 0 \in S, \A n \in S : n + 1 \in S
  PROVE  S = Nat
<1> DEFINE less == {pair \in Nat \X Nat : pair[1] < pair[2]}
<1>1. IsWellFoundedOn(less, Nat)
  BY NatLessThanWellFounded, Zenon DEF OpToRel
<1>2. ASSUME NEW x \in Nat, NEW y \in Nat, <<y, x>> \notin less PROVE x <= y
  BY <1>2
<1> HIDE DEF less
<1>3. SUFFICES ASSUME Nat \ S # {} PROVE FALSE
  OBVIOUS
<1>4. PICK x \in Nat \ S : \A y \in Nat \ S : <<y, x>> \notin less
  BY <1>1, <1>3, WFMin
<1>5. x - 1 \in S
  <2>1. x # 0 /\ x - 1 \in Nat
    BY <1>4
  <2>2. SUFFICES ASSUME x - 1 \notin S PROVE FALSE
    OBVIOUS
  <2>3. <<x - 1, x>> \notin less
    BY <2>1, <2>2, <1>4
  <2>4. x <= x - 1
    BY <2>1, <2>3, <1>2
  <2>5. QED
    BY <2>1, <2>4
<1>6. QED
  BY <1>4, <1>5

\* The walk from freeHead finds the chain.
LEMMA ListIsChain ==
  ASSUME TypeInv, NEW fl \in Seq(Slots), Chain(fl)
  PROVE  FreeList = fl
<1> DEFINE N == 0 .. Count + 1
           succ(seen) == IF seen = <<>> THEN freeHead ELSE next[Last(seen)]
           longer(seen) == IF succ(seen) < 0 THEN seen ELSE Append(seen, succ(seen))
           step(w) == [n \in N |-> IF n = 0 THEN <<>> ELSE longer(w[n - 1])]
           upTo(n) == SubSeq(fl, 1, IF n <= Len(fl) THEN n ELSE Len(fl))
           good == [n \in N |-> upTo(n)]
<1>1. Count \in Nat /\ Len(fl) \in Nat /\ Len(fl) <= Count
  BY ArenaAssumption, ListFits DEF Chain
<1>2. upTo(0) = <<>>
  BY <1>1
<1>3. ASSUME NEW n \in 1 .. Count + 1
      PROVE  upTo(n) = longer(upTo(n - 1))
  <2>1. CASE n <= Len(fl)
    <3> DEFINE seen == SubSeq(fl, 1, n - 1)
    <3>1. upTo(n) = SubSeq(fl, 1, n) /\ upTo(n - 1) = seen
      BY <2>1, <1>1
    <3>2. seen \in Seq(Slots) /\ Len(seen) = n - 1 /\ \A k \in 1 .. n - 1 : seen[k] = fl[k]
      BY <2>1, <1>1
    <3>3. SubSeq(fl, 1, n) = Append(seen, fl[n])
      BY <3>2, <2>1, <1>1
    <3> HIDE DEF seen, upTo
    <3>4. succ(seen) = fl[n]
      <4>1. CASE n = 1
        BY <4>1, <3>2, <2>1, <1>1 DEF Chain
      <4>2. CASE n # 1
        <5>1. seen # <<>> /\ Last(seen) = fl[n - 1]
          BY <4>2, <3>2 DEF Last
        <5>2. n - 1 \in 1 .. Len(fl) /\ n - 1 # Len(fl)
          BY <4>2, <2>1, <1>1
        <5>3. next[fl[n - 1]] = fl[n - 1 + 1]
          BY <5>2 DEF Chain
        <5>4. QED
          BY <5>1, <5>3
      <4>3. QED
        BY <4>1, <4>2
    <3>5. ~(fl[n] < 0)
      BY <2>1, <1>1 DEF Slots
    <3>6. QED
      BY <3>1, <3>3, <3>4, <3>5
  <2>2. CASE n > Len(fl)
    <3>1. upTo(n) = fl /\ upTo(n - 1) = fl
      BY <2>2, <1>1
    <3>2. succ(fl) = -1
      <4>1. CASE fl = <<>>
        BY <4>1 DEF Chain
      <4>2. CASE fl # <<>>
        <5>1. Len(fl) \in 1 .. Len(fl)
          BY <4>2, <1>1
        <5>2. QED
          BY <4>2, <5>1 DEF Chain, Last
      <4>3. QED
        BY <4>1, <4>2
    <3> HIDE DEF upTo, succ
    <3>3. longer(fl) = fl
      BY <3>2
    <3>4. QED
      BY <3>1, <3>3
  <2>3. QED
    BY <2>1, <2>2, <1>1
<1> HIDE DEF upTo, succ, longer
<1>4. good = step(good)
  <2>1. ASSUME NEW n \in N PROVE good[n] = step(good)[n]
    <3>1. CASE n = 0
      BY <3>1, <1>2
    <3>2. CASE n # 0
      <4>1. n \in 1 .. Count + 1 /\ n - 1 \in N
        BY <3>2, <1>1
      <4>2. QED
        BY <4>1, <3>2, <1>3
    <3>3. QED
      BY <3>1, <3>2
  <2>2. QED
    BY <2>1
<1>5. ASSUME NEW w, w = step(w) PROVE w[Count + 1] = fl
  <2> DEFINE S == {n \in Nat : n <= Count + 1 => w[n] = upTo(n)}
  <2>1. 0 \in S
    BY <1>5, <1>2, <1>1
  <2>2. ASSUME NEW n \in S PROVE n + 1 \in S
    <3>1. CASE n + 1 <= Count + 1
      <4>1. n + 1 \in 1 .. Count + 1 /\ n + 1 \in N /\ n + 1 - 1 = n
        BY <3>1, <1>1
      <4>2. w[n] = upTo(n)
        BY <4>1, <1>1
      <4>3. w[n + 1] = longer(w[n])
        <5>1. w[n + 1] = step(w)[n + 1]
          BY <1>5
        <5>2. QED
          BY <5>1, <4>1, <1>1
      <4>4. QED
        BY <4>1, <4>2, <4>3, <1>3
    <3>2. QED
      BY <3>1, <1>1
  <2>3. S = Nat
    <3> HIDE DEF S
    <3>1. S \in SUBSET Nat
      BY DEF S
    <3>2. QED
      BY <3>1, <2>1, <2>2, SetInduction
  <2>4. w[Count + 1] = upTo(Count + 1)
    BY <2>3, <1>1
  <2>5. QED
    BY <2>4, <1>1 DEF upTo
<1>6. QED
  BY <1>4, <1>5 DEF FreeList, longer, succ

-----------------------------------------------------------------------------
(* The inductive invariant. *)

\* A step that leaves the generations and the links alone, and claims or
\* appends no slot, keeps the chain.
LEMMA ChainQuiet ==
  ASSUME ChainInv, UNCHANGED <<generation, Lists>>,
         \A p \in Procs, i \in Slots : Holds(p, i)' <=> Holds(p, i)
  PROVE  ChainInv'
<1>1. PICK fl \in Seq(Slots) : Chain(fl)
  BY DEF ChainInv
<1>2. Chain(fl)'
  BY <1>1 DEF Chain, Lists, Odd
<1>3. QED
  BY <1>2 DEF ChainInv

\* The types of a goroutine's locals, whatever it returns from.
LEMMA ReturnType ==
  ASSUME TypeInv, NEW p \in Procs, Return(p), UNCHANGED generation
  PROVE  /\ pc' \in [Procs -> {"out", "acquiring", "borrowing", "inside", "releasing",
                                "wiping", "pushing", "destroying"}]
         /\ handle' \in [Procs -> HandleType]
         /\ \A q \in Procs : handle'[q] \in Handles' \cup {NoHandle}
         /\ violated' \in [Procs -> BOOLEAN]
<1>1. violated' \in [Procs -> BOOLEAN]
  BY Zenon DEF Return, TypeInv, TypeOK
<1>2. NoHandle \in HandleType
  BY ArenaAssumption DEF NoHandle, HandleType, Links
<1>3. Handles' = Handles
  BY DEF Handles
<1>4. QED
  BY <1>1, <1>2, <1>3 DEF Return, Goto, TypeInv, TypeOK

\* A handle in use names a slot and one of its tenancies.
LEMMA HandleFacts ==
  ASSUME TypeInv, LocalInv, NEW p \in Procs, pc[p] \in UsesHandle
  PROVE  /\ handle[p].idx \in Slots
         /\ handle[p].generation \in 1 .. MaxGen
         /\ handle[p].generation % 2 = 1
         /\ generation[handle[p].idx] \in 0 .. MaxGen
         /\ handle[p].generation <= generation[handle[p].idx]
<1>1. handle[p] \in Handles
  BY DEF LocalInv
<1>2. QED
  BY <1>1 DEF Handles, TypeInv, TypeOK

\* The slot that Acquire would take: free, in nobody's hands and clean.
LEMMA HeadFacts ==
  ASSUME IInv, freeHead >= 0
  PROVE  /\ freeHead \in Slots
         /\ ~Odd(freeHead)
         /\ \A q \in Procs : ~Holds(q, freeHead)
         /\ slab.mapped => data[freeHead] = 0
         /\ slab.mapped /\ ~slab.wiped => strip[freeHead] = "armed"
         /\ live < Count
<1>1. PICK fl \in Seq(Slots) : Chain(fl)
  BY DEF IInv, ChainInv
<1>2. Len(fl) \in Nat /\ Len(fl) # 0 /\ freeHead = fl[1] /\ 1 \in 1 .. Len(fl)
  BY <1>1 DEF Chain
<1>3. freeHead \in Slots /\ ~Odd(freeHead) /\ \A q \in Procs : ~Holds(q, freeHead)
  BY <1>1, <1>2 DEF Chain
<1>4. \A q \in Procs : ~Wiping(q, freeHead)
  BY <1>3 DEF Holds, Wiping
<1>5. live < Count
  BY <1>1, <1>2, ArenaAssumption DEF Chain
<1>6. QED
  BY <1>3, <1>4, <1>5 DEF IInv, MemoryInv, Odd

\* NewArena: the chain is the ascending sequence of all slots.
LEMMA InitIInv == Init => IInv
<1> SUFFICES ASSUME Init PROVE IInv
  OBVIOUS
<1> USE ArenaAssumption
<1>1. TypeInv
  <2>1. violated \in [Procs -> BOOLEAN]
    BY Zenon DEF Init
  <2>2. slab \in [mapped : BOOLEAN, prot : {"RO", "RW"}, readOnly : BOOLEAN,
                  wiped : BOOLEAN, destroyed : BOOLEAN]
    BY Zenon DEF Init
  <2>3. NoHandle \in HandleType
    BY DEF NoHandle, HandleType, Links
  <2>4. QED
    BY <2>1, <2>2, <2>3 DEF Init, TypeInv, TypeOK, Slots, Links
<1>2. LocalInv /\ OwnerInv
  BY DEF Init, LocalInv, OwnerInv, Holds, UsesHandle
<1>3. ChainInv
  <2> DEFINE fl == [k \in 1 .. Count |-> k - 1]
  <2>1. fl \in Seq(Slots) /\ Len(fl) = Count /\ Count >= 1
    BY DEF Slots
  <2>2. \A i \in Slots : i + 1 \in 1 .. Count /\ fl[i + 1] = i
    BY DEF Slots
  <2>3. \A i \in Slots : ~Odd(i)
    BY DEF Init, Odd
  <2>4. \A k \in 1 .. Count : fl[k] = k - 1 /\ fl[k] \in Slots
    BY DEF Slots
  <2> HIDE DEF fl
  <2>5. Chain(fl)
    BY <2>1, <2>2, <2>3, <2>4 DEF Chain, Init, Holds
  <2>6. QED
    BY <2>1, <2>5 DEF ChainInv
<1>4. MemoryInv
  BY DEF Init, MemoryInv, Odd
<1>5. QED
  BY <1>1, <1>2, <1>3, <1>4 DEF IInv

\* Returning from a method in which no slot is in hand changes nothing else.
LEMMA ReturnKeeps ==
  ASSUME IInv, NEW p \in Procs, Return(p), pc[p] \notin {"wiping", "pushing"},
         UNCHANGED <<generation, Lists, Memory, slab>>
  PROVE  IInv'
<1> TypeInv /\ LocalInv /\ OwnerInv /\ ChainInv /\ MemoryInv
  BY DEF IInv
<1>1. TypeInv'
  BY ReturnType DEF TypeInv, TypeOK, Lists, Memory
<1>2. LocalInv'
  BY DEF Return, TypeInv, TypeOK, LocalInv, UsesHandle, Handles, Goto, Lists, Memory
<1>3. OwnerInv'
  BY DEF Return, TypeInv, TypeOK, OwnerInv, Holds, Goto
<1>4. ChainInv'
  BY ChainQuiet DEF Return, Goto, TypeInv, TypeOK, Holds
<1>5. MemoryInv'
  <2>1. \A q \in Procs, i \in Slots :
          /\ Wiping(q, i)' <=> Wiping(q, i)
          /\ Wiping(q, i) => handle'[q] = handle[q]
    BY DEF Return, Goto, Wiping, TypeInv, TypeOK
  <2>2. QED
    BY <2>1 DEF MemoryInv, Odd, Lists, Memory
<1>6. QED
  BY <1>1, <1>2, <1>3, <1>4, <1>5 DEF IInv

\* The claim of Release: the compare-and-swap takes the slot from its tenant, and
\* from then on only this Release has it in hand.
LEMMA ClaimKeeps ==
  ASSUME IInv, NEW p \in Procs, pc[p] = "releasing", Unborrowed(handle[p]),
         generation[handle[p].idx] = handle[p].generation,
         generation' = [generation EXCEPT ![handle[p].idx] = @ + 1],
         Goto(p, IF slab.mapped THEN "wiping" ELSE "pushing"),
         UNCHANGED <<Lists, Memory, slab, Locals>>
  PROVE  IInv'
<1> USE ArenaAssumption
<1> TypeInv /\ LocalInv /\ OwnerInv /\ ChainInv /\ MemoryInv
  BY DEF IInv
<1>1. PICK i \in Slots : i = handle[p].idx
  BY HandleFacts DEF UsesHandle
<1>2. /\ generation[i] = handle[p].generation /\ Odd(i)
      /\ generation[i] \in Nat /\ generation[i] < MaxGen
  BY <1>1, HandleFacts DEF UsesHandle, Odd
<1>3. /\ generation' = [generation EXCEPT ![i] = generation[i] + 1]
      /\ generation'[i] = generation[i] + 1
      /\ \A j \in Slots \ {i} : generation'[j] = generation[j]
  BY <1>1 DEF TypeInv, TypeOK
<1>4. /\ ~Odd(i)'
      /\ \A j \in Slots \ {i} : Odd(j)' <=> Odd(j)
  BY <1>2, <1>3, Parity DEF Odd
<1>5. ASSUME NEW q \in Procs PROVE ~Holds(q, i)
  <2> SUFFICES ASSUME Holds(q, i) PROVE FALSE
    OBVIOUS
  <2>1. generation[i] = handle[q].generation + 1
    BY DEF Holds, LocalInv
  <2>2. handle[q].generation \in Nat /\ handle[q].generation % 2 = 1
    BY HandleFacts DEF Holds, UsesHandle
  <2>3. QED
    BY <2>1, <2>2, <1>2, Parity DEF Odd
<1>6. ASSUME NEW q \in Procs, pc[q] = "inside" PROVE handle[q].idx # i
  <2> SUFFICES ASSUME handle[q].idx = i PROVE FALSE
    OBVIOUS
  <2>1. handle[q].generation = generation[i]
    BY <1>6 DEF LocalInv
  <2>2. handle[q] \in Handles /\ handle[p] \in Handles
    BY <1>6 DEF LocalInv, UsesHandle
  <2>3. handle[q] = handle[p]
    BY <2>1, <2>2, <1>1, <1>2 DEF Handles
  <2>4. QED
    BY <2>3, <1>6 DEF Unborrowed
<1>7. freeHead # i
  <2>1. CASE freeHead >= 0
    BY <2>1, <1>2, HeadFacts
  <2>2. QED
    BY <2>1 DEF Slots
<1>8. /\ pc'[p] = IF slab.mapped THEN "wiping" ELSE "pushing"
      /\ \A q \in Procs \ {p} : pc'[q] = pc[q]
      /\ pc' \in [Procs -> {"out", "acquiring", "borrowing", "inside", "releasing",
                            "wiping", "pushing", "destroying"}]
      /\ UNCHANGED <<handle, violated, slab, freeHead, live, next, freeTail, data, strip, overran>>
  BY DEF Goto, TypeInv, TypeOK, Lists, Memory, Locals
<1>9. Handles \subseteq Handles'
  BY <1>1, <1>2, <1>3 DEF Handles, TypeInv, TypeOK
<1>10. \A q \in Procs, j \in Slots : Holds(q, j)' <=> Holds(q, j) \/ (q = p /\ j = i)
  BY <1>1, <1>8 DEF Holds
<1>11. TypeInv'
  <2>1. generation' \in [Slots -> 0 .. MaxGen]
    BY <1>1, <1>2, <1>3 DEF TypeInv, TypeOK
  <2>2. QED
    BY <2>1, <1>8, <1>9 DEF TypeInv, TypeOK
<1>12. LocalInv'
  <2> SUFFICES ASSUME NEW q \in Procs PROVE LocalInv!(q)'
    BY DEF LocalInv
  <2>1. pc'[q] \in UsesHandle => handle'[q] \in Handles'
    BY <1>8, <1>9 DEF LocalInv, UsesHandle
  <2>2. pc'[q] \in {"inside", "wiping", "pushing"} /\ q # p => 
           handle[q].idx \in Slots \ {i}
    BY <1>5, <1>6, <1>8, HandleFacts DEF UsesHandle, Holds
  <2>3. CASE q = p
    BY <2>1, <2>3, <1>1, <1>2, <1>3, <1>8 DEF LocalInv
  <2>4. CASE q # p
    <3>1. UNCHANGED <<pc[q], handle, violated, slab, overran, freeHead>>
      BY <2>4, <1>8
    <3>2. freeHead >= 0 => generation'[freeHead] = generation[freeHead]
      BY <1>3, <1>7, HeadFacts
    <3>3. pc[q] \in {"inside", "wiping", "pushing"} =>
             generation'[handle[q].idx] = generation[handle[q].idx]
      BY <2>2, <2>4, <1>3, <3>1
    <3>4. QED
      BY <2>1, <3>1, <3>2, <3>3 DEF LocalInv
  <2>5. QED
    BY <2>3, <2>4
<1>13. OwnerInv'
  BY <1>5, <1>8, <1>10 DEF OwnerInv
<1>14. ChainInv'
  <2>1. PICK fl \in Seq(Slots) : Chain(fl)
    BY DEF ChainInv
  <2>2. \A j \in Slots : ~Odd(j)' /\ (\A q \in Procs : ~Holds(q, j)') <=>
                        ~Odd(j) /\ (\A q \in Procs : ~Holds(q, j))
    BY <1>2, <1>4, <1>10
  <2>3. Chain(fl)'
    BY <2>1, <2>2, <1>8 DEF Chain
  <2>4. QED
    BY <2>3 DEF ChainInv
<1>15. MemoryInv'
  <2> SUFFICES ASSUME NEW j \in Slots PROVE MemoryInv!(j)'
    BY DEF MemoryInv
  <2>1. CASE j = i
    <3>1. \A q \in Procs : ~Wiping(q, i)
      BY <1>5 DEF Holds, Wiping
    <3>2. slab.mapped => Wiping(p, i)'
      BY <1>1, <1>8 DEF Wiping
    <3>3. QED
      BY <2>1, <3>1, <3>2, <1>2, <1>4, <1>8 DEF MemoryInv
  <2>2. CASE j # i
    <3>1. \A q \in Procs : Wiping(q, j)' <=> Wiping(q, j)
      BY <2>2, <1>1, <1>8 DEF Wiping
    <3>2. QED
      BY <2>2, <3>1, <1>3, <1>4, <1>8 DEF MemoryInv
  <2>3. QED
    BY <2>1, <2>2
<1>16. QED
  BY <1>11, <1>12, <1>13, <1>14, <1>15 DEF IInv

\* Every step keeps the inductive invariant.
LEMMA NextIInv == IInv /\ [Next]_vars => IInv'
<1> SUFFICES ASSUME IInv, [Next]_vars PROVE IInv'
  OBVIOUS
<1> USE ArenaAssumption
<1> TypeInv /\ LocalInv /\ OwnerInv /\ ChainInv /\ MemoryInv
  BY DEF IInv
<1>1. ASSUME NEW p \in Procs, AcquireCheck(p) PROVE IInv'
  <2>1. TypeInv'
    BY <1>1 DEF AcquireCheck, AllocFree, TypeInv, TypeOK, HandleType, Handles, NoHandle, Goto, Lists, Memory, Locals
  <2>2. LocalInv'
    BY <1>1 DEF AcquireCheck, AllocFree, TypeInv, TypeOK, LocalInv, UsesHandle, Handles, Goto, Lists, Memory, Locals
  <2>3. OwnerInv'
    BY <1>1 DEF AcquireCheck, AllocFree, TypeInv, TypeOK, OwnerInv, Holds, Goto, Lists, Memory, Locals
  <2>4. ChainInv'
    BY <1>1, ChainQuiet DEF AcquireCheck, AllocFree, Goto, TypeInv, TypeOK, Holds, Lists, Locals
  <2>5. MemoryInv'
    BY <1>1 DEF AcquireCheck, AllocFree, TypeInv, TypeOK, MemoryInv, LocalInv, Odd, Wiping, Goto, Lists, Memory, Locals
  <2>6. QED
    BY <2>1, <2>2, <2>3, <2>4, <2>5 DEF IInv
<1>2. ASSUME NEW p \in Procs, AcquireFull(p) PROVE IInv'
  <2>1. TypeInv'
    BY <1>2 DEF AcquireFull, TypeInv, TypeOK, HandleType, Handles, NoHandle, Goto, Lists, Memory, Locals
  <2>2. LocalInv'
    BY <1>2 DEF AcquireFull, TypeInv, TypeOK, LocalInv, UsesHandle, Handles, Goto, Lists, Memory, Locals
  <2>3. OwnerInv'
    BY <1>2 DEF AcquireFull, TypeInv, TypeOK, OwnerInv, Holds, Goto, Lists, Memory, Locals
  <2>4. ChainInv'
    BY <1>2, ChainQuiet DEF AcquireFull, Goto, TypeInv, TypeOK, Holds, Lists, Locals
  <2>5. MemoryInv'
    BY <1>2 DEF AcquireFull, TypeInv, TypeOK, MemoryInv, LocalInv, Odd, Wiping, Goto, Lists, Memory, Locals
  <2>6. QED
    BY <2>1, <2>2, <2>3, <2>4, <2>5 DEF IInv
<1>3. ASSUME NEW p \in Procs, Acquire(p) PROVE IInv'
  <2>a. /\ freeHead \in Slots /\ ~Odd(freeHead) /\ \A q \in Procs : ~Holds(q, freeHead)
        /\ (slab.mapped => data[freeHead] = 0) /\ live < Count
        /\ slab.mapped /\ ~slab.wiped => strip[freeHead] = "armed"
    BY <1>3, HeadFacts DEF Acquire
  <2>b. /\ generation' = [generation EXCEPT ![freeHead] = @ + 1]
        /\ generation[freeHead] \in 0 .. MaxGen /\ generation[freeHead] < MaxGen
    BY <1>3, <2>a DEF Acquire, LocalInv, TypeInv, TypeOK
  <2>1. TypeInv'
    <3>1. generation' \in [Slots -> 0 .. MaxGen] /\ Handles \subseteq Handles'
      <4>1. freeHead \in Slots
        BY <2>a
      <4>2. QED
        BY <4>1, <2>b DEF TypeInv, TypeOK, Handles
    <3>2. pc' \in [Procs -> {"out", "acquiring", "borrowing", "inside", "releasing",
                             "wiping", "pushing", "destroying"}]
      BY <1>3 DEF Acquire, Goto, TypeInv, TypeOK
    <3>3. live' \in 0 .. Count
      BY <1>3, <2>a DEF Acquire, TypeInv, TypeOK
    <3>4. next' \in [Slots -> Links] /\ freeHead' \in Links /\ freeTail' \in Links
      BY <1>3, <2>a DEF Acquire, TypeInv, TypeOK, Links
    <3>5. QED
      BY <1>3, <3>1, <3>2, <3>3, <3>4 DEF Acquire, TypeInv, TypeOK, Memory, Locals
  <2>2. LocalInv'
    <3> SUFFICES ASSUME NEW q \in Procs PROVE LocalInv!(q)'
      BY DEF LocalInv
    <3>1. Handles \subseteq Handles'
      BY <2>a, <2>b DEF TypeInv, TypeOK, Handles
    <3>2. pc'[q] \in UsesHandle => pc[q] \in UsesHandle /\ pc'[q] = pc[q]
      BY <1>3 DEF Acquire, Goto, UsesHandle, TypeInv, TypeOK
    <3>3. pc[q] \in {"inside", "wiping", "pushing"} =>
            /\ handle[q].idx # freeHead /\ handle[q].idx \in Slots
            /\ generation'[handle[q].idx] = generation[handle[q].idx]
      <4>1. pc[q] = "inside" => handle[q].idx # freeHead
        BY <2>a, HandleFacts DEF LocalInv, Odd, UsesHandle
      <4>2. pc[q] \in {"wiping", "pushing"} => handle[q].idx # freeHead
        BY <2>a DEF Holds
      <4>3. QED
        BY <4>1, <4>2, <2>b, HandleFacts DEF UsesHandle, TypeInv, TypeOK
    <3>4. pc'[q] # "acquiring"
      BY <1>3 DEF Acquire, Goto, OwnerInv, TypeInv, TypeOK
    <3>5. QED
      BY <3>1, <3>2, <3>3, <3>4, <1>3
      DEF Acquire, LocalInv, Memory, Locals, UsesHandle, Goto, TypeInv, TypeOK
  <2>3. OwnerInv'
    BY <1>3 DEF Acquire, TypeInv, TypeOK, OwnerInv, Holds, Goto, Lists, Memory, Locals
  <2>4. ChainInv'
    <3>1. PICK fl \in Seq(Slots) : Chain(fl)
      BY DEF ChainInv
    <3>2. fl # <<>> /\ Len(fl) \in Nat /\ Len(fl) >= 1 /\ freeHead = fl[1]
      BY <3>1, <1>3 DEF Chain, Acquire
    <3> DEFINE rest == Tail(fl)
    <3>3. /\ rest \in Seq(Slots) /\ Len(rest) = Len(fl) - 1
          /\ \A k \in 1 .. Len(rest) : rest[k] = fl[k + 1] /\ k + 1 \in 1 .. Len(fl)
      BY <3>2
    <3> HIDE DEF rest
    <3>4. \A k \in 1 .. Len(rest) : rest[k] \in Slots /\ rest[k] # freeHead
      BY <3>1, <3>2, <3>3 DEF Chain
    <3>5. \A k \in 1 .. Len(rest) : next'[rest[k]] = next[rest[k]]
      BY <3>4, <1>3 DEF Acquire, TypeInv, TypeOK
    <3>6. \A i \in Slots \ {freeHead} : /\ Odd(i)' <=> Odd(i)
                                        /\ \A q \in Procs : Holds(q, i)' <=> Holds(q, i)
      BY <1>3, <2>b DEF Acquire, Odd, Holds, Goto, Locals, TypeInv, TypeOK
    <3>7. generation'[freeHead] % 2 = 1
      <4>1. generation'[freeHead] = generation[freeHead] + 1
        BY <2>a, <2>b DEF TypeInv, TypeOK
      <4>2. generation[freeHead] \in Nat /\ generation[freeHead] % 2 # 1
        BY <2>a, <2>b DEF Odd
      <4>3. QED
        BY <4>1, <4>2, Parity
    <3>8. next[freeHead] = IF Len(fl) = 1 THEN -1 ELSE fl[2]
      <4>1. 1 \in 1 .. Len(fl) /\ 1 + 1 = 2
        BY <3>2
      <4>2. next[fl[1]] = IF 1 = Len(fl) THEN -1 ELSE fl[1 + 1]
        BY <4>1, <3>1 DEF Chain
      <4>3. QED
        BY <4>1, <4>2, <3>2
    <3>9. /\ freeHead' = IF Len(rest) = 0 THEN -1 ELSE rest[1]
          /\ freeTail' = IF Len(rest) = 0 THEN -1 ELSE rest[Len(rest)]
      <4>1. CASE Len(fl) = 1
        BY <4>1, <3>3, <3>8, <1>3 DEF Acquire
      <4>2. CASE Len(fl) # 1
        <5>1. Len(rest) \in 1 .. Len(rest) /\ 1 \in 1 .. Len(rest) /\ 2 \in 1 .. Len(fl)
          BY <4>2, <3>2, <3>3
        <5>2. rest[1] = fl[1 + 1] /\ rest[Len(rest)] = fl[Len(rest) + 1] /\ rest[1] \in Slots
          BY <5>1, <3>3, <3>4
        <5>3. 1 + 1 = 2 /\ Len(rest) + 1 = Len(fl) /\ Len(rest) # 0 /\ ~(rest[1] < 0)
          <6>1. ~(rest[1] < 0)
            BY <5>2 DEF Slots
          <6>2. QED
            BY <6>1, <4>2, <3>2, <3>3
        <5>4. next[freeHead] = rest[1]
          BY <5>2, <5>3, <4>2, <3>8
        <5>5. freeHead' = rest[1] /\ freeTail' = freeTail
          BY <5>3, <5>4, <1>3 DEF Acquire
        <5>6. freeTail = fl[Len(fl)]
          BY <3>1, <3>2 DEF Chain
        <5>7. QED
          BY <5>2, <5>3, <5>5, <5>6
      <4>3. QED
        BY <4>1, <4>2
    <3>10. \A i \in Slots : (\E k \in 1 .. Len(rest) : rest[k] = i) <=>
                               i # freeHead /\ \E k \in 1 .. Len(fl) : fl[k] = i
      <4> SUFFICES ASSUME NEW i \in Slots, NEW k \in 1 .. Len(fl), fl[k] = i, i # freeHead
                   PROVE  \E j \in 1 .. Len(rest) : rest[j] = i
        BY <3>3, <3>4
      <4>1. k - 1 \in 1 .. Len(rest) /\ k - 1 + 1 = k
        BY <3>2, <3>3
      <4>2. rest[k - 1] = fl[k - 1 + 1]
        BY <4>1, <3>3
      <4>3. QED
        BY <4>1, <4>2
    <3>11. Chain(rest)'
      <4>1. \A j, k \in 1 .. Len(rest) : rest[j] = rest[k] => j = k
        BY <3>1, <3>3 DEF Chain
      <4>2. \A k \in 1 .. Len(rest) : next'[rest[k]] = IF k = Len(rest) THEN -1 ELSE rest[k + 1]
        <5> SUFFICES ASSUME NEW k \in 1 .. Len(rest)
                     PROVE  next'[rest[k]] = IF k = Len(rest) THEN -1 ELSE rest[k + 1]
          OBVIOUS
        <5>1. k + 1 \in 1 .. Len(fl) /\ rest[k] = fl[k + 1] /\ k \in Nat
          BY <3>3
        <5>2. next[fl[k + 1]] = IF k + 1 = Len(fl) THEN -1 ELSE fl[k + 1 + 1]
          BY <5>1, <3>1 DEF Chain
        <5>3. k # Len(rest) => k + 1 \in 1 .. Len(rest)
          BY <3>2, <3>3
        <5>4. k # Len(rest) => rest[k + 1] = fl[k + 1 + 1]
          BY <5>3, <3>3
        <5>5. k = Len(rest) <=> k + 1 = Len(fl)
          BY <5>1, <3>2, <3>3
        <5>6. QED
          BY <5>1, <5>2, <5>4, <5>5, <3>5
      <4>3. live' = Count - Len(rest)
        BY <3>1, <3>2, <3>3, <1>3 DEF Chain, Acquire
      <4>4. \A i \in Slots : (\E k \in 1 .. Len(rest) : rest[k] = i) <=>
                               ~Odd(i)' /\ \A q \in Procs : ~Holds(q, i)'
        <5> SUFFICES ASSUME NEW i \in Slots
                     PROVE  (\E k \in 1 .. Len(rest) : rest[k] = i) <=>
                               ~Odd(i)' /\ \A q \in Procs : ~Holds(q, i)'
          OBVIOUS
        <5>1. CASE i = freeHead
          BY <5>1, <3>7, <3>10 DEF Odd
        <5>2. CASE i # freeHead
          <6>1. (\E k \in 1 .. Len(fl) : fl[k] = i) <=> ~Odd(i) /\ \A q \in Procs : ~Holds(q, i)
            BY <3>1 DEF Chain
          <6>2. QED
            BY <5>2, <6>1, <3>6, <3>10
        <5>3. QED
          BY <5>1, <5>2
      <4>5. QED
        BY <4>1, <4>2, <4>3, <4>4, <3>9 DEF Chain
    <3>12. QED
      BY <3>3, <3>11 DEF ChainInv
  <2>5. MemoryInv'
    <3>1. \A q \in Procs, i \in Slots : Wiping(q, i)' <=> Wiping(q, i)
      BY <1>3 DEF Acquire, Wiping, Goto, Locals, TypeInv, TypeOK
    <3>2. \A i \in Slots \ {freeHead} :
            generation'[i] = generation[i] /\ next'[i] = next[i] /\ (Odd(i)' <=> Odd(i))
      BY <1>3, <2>a, <2>b DEF Acquire, Odd, TypeInv, TypeOK
    <3>3. next'[freeHead] = -1
      BY <1>3, <2>a DEF Acquire, TypeInv, TypeOK
    <3>4. UNCHANGED <<data, strip, overran, slab, handle>>
      BY <1>3 DEF Acquire, Memory, Locals
    <3>5. QED
      BY <3>1, <3>2, <3>3, <3>4, <2>a DEF MemoryInv
  <2>6. QED
    BY <2>1, <2>2, <2>3, <2>4, <2>5 DEF IInv
<1>4. ASSUME NEW p \in Procs, Borrow(p) PROVE IInv'
  <2>1. TypeInv'
    <3>1. CASE Return(p)
      BY <3>1, <1>4, ReturnType DEF Borrow, TypeInv, TypeOK, Lists, Memory
    <3>2. CASE ~Return(p)
      BY <3>2, <1>4 DEF Borrow, TypeInv, TypeOK, Handles, Goto, Lists, Memory, Locals
    <3>3. QED
      BY <3>1, <3>2
  <2>2. LocalInv'
    BY <1>4 DEF Borrow, Return, TypeInv, TypeOK, LocalInv, UsesHandle, Handles, Goto, Lists, Memory, Locals
  <2>3. OwnerInv'
    BY <1>4 DEF Borrow, Return, TypeInv, TypeOK, OwnerInv, Holds, Goto, Lists, Memory, Locals
  <2>4. ChainInv'
    BY <1>4, ChainQuiet DEF Borrow, Return, Goto, TypeInv, TypeOK, Holds, Lists, Locals
  <2>5. MemoryInv'
    BY <1>4 DEF Borrow, Return, TypeInv, TypeOK, MemoryInv, LocalInv, Odd, Wiping, Goto, Lists, Memory, Locals
  <2>6. QED
    BY <2>1, <2>2, <2>3, <2>4, <2>5 DEF IInv
<1>5. ASSUME NEW p \in Procs, Write(p) PROVE IInv'
  <2>1. TypeInv'
    BY <1>5 DEF Write, TypeInv, TypeOK, HandleType, Handles, NoHandle, Goto, Lists, Memory, Locals
  <2>2. LocalInv'
    BY <1>5 DEF Write, TypeInv, TypeOK, LocalInv, UsesHandle, Handles, Goto, Lists, Memory, Locals
  <2>3. OwnerInv'
    BY <1>5 DEF Write, TypeInv, TypeOK, OwnerInv, Holds, Goto, Lists, Memory, Locals
  <2>4. ChainInv'
    BY <1>5, ChainQuiet DEF Write, Goto, TypeInv, TypeOK, Holds, Lists, Locals
  <2>5. MemoryInv'
    <3> DEFINE i == handle[p].idx
    <3>1. /\ i \in Slots /\ Odd(i) /\ slab.mapped /\ ~slab.wiped
          /\ handle[p].generation = generation[i]
      BY <1>5, HandleFacts DEF Write, LocalInv, UsesHandle, Odd
    <3>2. data' = [data EXCEPT ![i] = generation[i]]
      BY <3>1, <1>5 DEF Write
    <3>3. \A q \in Procs, j \in Slots : (Wiping(q, j)' <=> Wiping(q, j)) /\ (Odd(j)' <=> Odd(j))
      BY <1>5 DEF Write, Wiping, Odd, Locals
    <3>4. QED
      BY <3>1, <3>2, <3>3, <1>5 DEF Write, MemoryInv, Odd, Lists, Locals, TypeInv, TypeOK
  <2>6. QED
    BY <2>1, <2>2, <2>3, <2>4, <2>5 DEF IInv
<1>6. ASSUME NEW p \in Procs, Overrun(p) PROVE IInv'
  <2>1. TypeInv'
    BY <1>6 DEF Overrun, TypeInv, TypeOK, HandleType, Handles, NoHandle, Goto, Lists, Memory, Locals
  <2>2. LocalInv'
    BY <1>6 DEF Overrun, TypeInv, TypeOK, LocalInv, UsesHandle, Handles, Goto, Lists, Memory, Locals
  <2>3. OwnerInv'
    BY <1>6 DEF Overrun, TypeInv, TypeOK, OwnerInv, Holds, Goto, Lists, Memory, Locals
  <2>4. ChainInv'
    BY <1>6, ChainQuiet DEF Overrun, Goto, TypeInv, TypeOK, Holds, Lists, Locals
  <2>5. MemoryInv'
    <3> DEFINE i == handle[p].idx
    <3>1. i \in Slots /\ Odd(i) /\ handle[p].generation = generation[i]
      BY <1>6, HandleFacts DEF Overrun, LocalInv, UsesHandle, Odd
    <3>2. overran' = [overran EXCEPT ![i] = generation[i]] /\ strip' = [strip EXCEPT ![i] = "hit"]
      BY <3>1, <1>6 DEF Overrun
    <3>3. \A q \in Procs, j \in Slots : (Wiping(q, j)' <=> Wiping(q, j)) /\ (Odd(j)' <=> Odd(j))
      BY <1>6 DEF Overrun, Wiping, Odd, Locals
    <3>4. QED
      BY <3>1, <3>2, <3>3, <1>6 DEF Overrun, MemoryInv, Odd, Lists, Locals, TypeInv, TypeOK
  <2>6. QED
    BY <2>1, <2>2, <2>3, <2>4, <2>5 DEF IInv
<1>7. ASSUME NEW p \in Procs, EndBorrow(p) PROVE IInv'
  BY <1>7, ReturnKeeps DEF EndBorrow
<1>8. ASSUME NEW p \in Procs, Claim(p) PROVE IInv'
  <2>1. CASE Refused \/ generation[handle[p].idx] # handle[p].generation
    BY <2>1, <1>8, ReturnKeeps DEF Claim
  <2>2. CASE ~(Refused \/ generation[handle[p].idx] # handle[p].generation)
    BY <2>2, <1>8, ClaimKeeps DEF Claim
  <2>3. QED
    BY <2>1, <2>2
<1>9. ASSUME NEW p \in Procs, WipeSlot(p) PROVE IInv'
  <2>1. TypeInv'
    <3>1. violated' \in [Procs -> BOOLEAN]
      BY <1>9, Zenon DEF WipeSlot, TypeInv, TypeOK
    <3>2. Handles' = Handles
      BY <1>9 DEF WipeSlot, Handles
    <3>3. strip' \in [Slots -> {"armed", "hit", "zero"}] /\ data' \in [Slots -> 0 .. MaxGen]
      <4>1. /\ strip' = [strip EXCEPT ![handle[p].idx] = IF slab.wiped THEN @ ELSE "armed"]
            /\ data' = [data EXCEPT ![handle[p].idx] = 0]
        BY <1>9 DEF WipeSlot
      <4>2. PICK v \in {"armed", "hit", "zero"} : strip' = [strip EXCEPT ![handle[p].idx] = v]
        <5>1. strip[handle[p].idx] \in {"armed", "hit", "zero"}
          BY <1>9, HandleFacts DEF WipeSlot, UsesHandle, TypeInv, TypeOK
        <5>2. QED
          BY <4>1, <5>1
      <4>3. strip' \in [Slots -> {"armed", "hit", "zero"}]
        BY <4>2 DEF TypeInv, TypeOK
      <4>4. 0 \in 0 .. MaxGen
        OBVIOUS
      <4>5. data' \in [Slots -> 0 .. MaxGen]
        BY <4>1, <4>4 DEF TypeInv, TypeOK
      <4>6. QED
        BY <4>3, <4>5
    <3>4. pc' \in [Procs -> {"out", "acquiring", "borrowing", "inside", "releasing",
                             "wiping", "pushing", "destroying"}]
      BY <1>9 DEF WipeSlot, Goto, TypeInv, TypeOK
    <3>5. QED
      BY <3>1, <3>2, <3>3, <3>4, <1>9 DEF WipeSlot, TypeInv, TypeOK, Lists
  <2>2. LocalInv'
    <3>1. PICK i \in Slots : i = handle[p].idx
      BY <1>9, HandleFacts DEF WipeSlot, UsesHandle
    <3>2. ~Odd(i)
      <4>1. generation[i] = handle[p].generation + 1
        BY <3>1, <1>9 DEF WipeSlot, LocalInv
      <4>2. handle[p].generation \in Nat /\ handle[p].generation % 2 = 1
        BY <1>9, HandleFacts DEF WipeSlot, UsesHandle
      <4>3. QED
        BY <4>1, <4>2, Parity DEF Odd
    <3>3. ~slab.wiped /\ strip[i] # "armed" => overran[i] = handle[p].generation
      <4>1. slab.mapped
        BY <1>9 DEF WipeSlot, LocalInv
      <4>2. \A q \in Procs : Wiping(q, i) => q = p
        BY <3>1, <1>9 DEF WipeSlot, OwnerInv, Wiping, Holds
      <4>3. QED
        BY <4>1, <4>2, <3>2 DEF MemoryInv
    <3> SUFFICES ASSUME NEW q \in Procs PROVE LocalInv!(q)'
      BY DEF LocalInv
    <3>4. CASE q = p
      <4>1. violated'[p] => ~slab.wiped /\ strip[i] # "armed"
        BY <3>1, <1>9 DEF WipeSlot, TypeInv, TypeOK
      <4>2. pc'[p] = "pushing" /\ UNCHANGED <<generation, overran, handle>>
        BY <1>9 DEF WipeSlot, Goto, TypeInv, TypeOK
      <4>3. QED
        BY <3>4, <4>1, <4>2, <3>1, <3>3, <1>9 DEF WipeSlot, LocalInv, UsesHandle, Handles
    <3>5. CASE q # p
      <4>1. violated'[q] = violated[q] /\ pc'[q] = pc[q]
        BY <3>5, <1>9 DEF WipeSlot, Goto, TypeInv, TypeOK
      <4>2. QED
        BY <4>1, <1>9 DEF WipeSlot, LocalInv, Handles, Lists
    <3>6. QED
      BY <3>4, <3>5
  <2>3. OwnerInv'
    BY <1>9 DEF WipeSlot, TypeInv, TypeOK, OwnerInv, Holds, Goto, Lists, Memory, Locals
  <2>4. ChainInv'
    BY <1>9, ChainQuiet DEF WipeSlot, Goto, TypeInv, TypeOK, Holds, Lists, Locals
  <2>5. MemoryInv'
    BY <1>9 DEF WipeSlot, TypeInv, TypeOK, MemoryInv, LocalInv, Odd, Wiping, Goto, Lists, Memory, Locals
  <2>6. QED
    BY <2>1, <2>2, <2>3, <2>4, <2>5 DEF IInv
<1>10. ASSUME NEW p \in Procs, Push(p) PROVE IInv'
  <2>a. PICK i \in Slots : i = handle[p].idx
    BY <1>10, HandleFacts DEF Push, UsesHandle
  <2>b. ~Odd(i) /\ Holds(p, i)
    <3>1. generation[i] = handle[p].generation + 1
      BY <2>a, <1>10 DEF Push, LocalInv
    <3>2. handle[p].generation \in Nat /\ handle[p].generation % 2 = 1
      BY <1>10, HandleFacts DEF Push, UsesHandle
    <3>3. QED
      BY <3>1, <3>2, <2>a, <1>10, Parity DEF Odd, Holds, Push
  <2>c. PICK fl \in Seq(Slots) : Chain(fl)
    BY DEF ChainInv
  <2> DEFINE longer == Append(fl, i)
  <2>d. /\ longer \in Seq(Slots) /\ Len(fl) \in Nat /\ Len(longer) = Len(fl) + 1
        /\ longer[Len(fl) + 1] = i
        /\ \A k \in 1 .. Len(fl) : longer[k] = fl[k] /\ fl[k] \in Slots
    OBVIOUS
  <2> HIDE DEF longer
  <2>e. \A k \in 1 .. Len(fl) : fl[k] # i
    BY <2>b, <2>c DEF Chain
  <2>f. \A j, k \in 1 .. Len(longer) : longer[j] = longer[k] => j = k
    <3> SUFFICES ASSUME NEW j \in 1 .. Len(longer), NEW k \in 1 .. Len(longer),
                        longer[j] = longer[k]
                 PROVE  j = k
      OBVIOUS
    <3>1. j \in 1 .. Len(fl) \/ j = Len(fl) + 1
      BY <2>d
    <3>2. k \in 1 .. Len(fl) \/ k = Len(fl) + 1
      BY <2>d
    <3>3. QED
      BY <3>1, <3>2, <2>c, <2>d, <2>e, SMTT(30) DEF Chain
  <2>g. Len(fl) + 1 <= Count
    BY <2>d, <2>f, ListFits
  <2>h. /\ freeTail >= 0 <=> Len(fl) # 0
        /\ Len(fl) # 0 => Len(fl) \in 1 .. Len(fl) /\ freeTail = fl[Len(fl)]
    <3>1. CASE Len(fl) = 0
      BY <3>1, <2>c DEF Chain
    <3>2. CASE Len(fl) # 0
      <4>1. Len(fl) \in 1 .. Len(fl) /\ freeTail = fl[Len(fl)]
        BY <3>2, <2>c, <2>d DEF Chain
      <4>2. freeTail \in Slots
        BY <4>1, <2>d
      <4>3. QED
        BY <3>2, <4>1, <4>2 DEF Slots
    <3>3. QED
      BY <3>1, <3>2
  <2>i. /\ next'[i] = -1
        /\ \A j \in Slots \ {i} : next'[j] = IF Len(fl) # 0 /\ j = freeTail THEN i ELSE next[j]
    BY <2>a, <2>d, <2>e, <2>h, <1>10 DEF Push, TypeInv, TypeOK
  <2>1. TypeInv'
    <3>1. live' \in 0 .. Count
      BY <2>c, <2>d, <2>g, <1>10 DEF Push, Chain, TypeInv, TypeOK
    <3>2. i \in Links /\ -1 \in Links
      BY DEF Slots, Links
    <3>3. next' \in [Slots -> Links] /\ freeHead' \in Links /\ freeTail' \in Links
      <4>1. next' \in [Slots -> Links]
        BY <3>2, <2>a, <1>10 DEF Push, TypeInv, TypeOK
      <4>2. QED
        BY <4>1, <3>2, <2>a, <1>10 DEF Push, TypeInv, TypeOK
    <3>4. QED
      BY <3>1, <3>3, <1>10, ReturnType DEF Push, TypeInv, TypeOK, Memory
  <2>2. LocalInv'
    BY <1>10, SMTT(30) DEF Push, Return, AllocFree, TypeInv, TypeOK, LocalInv, UsesHandle, Handles, Goto, Lists, Memory, Locals
  <2>3. OwnerInv'
    BY <1>10 DEF Push, Return, AllocFree, TypeInv, TypeOK, OwnerInv, Holds, Goto, Lists, Memory, Locals
  <2>4. ChainInv'
    <3>1. /\ \A j \in Slots : Odd(j)' <=> Odd(j)
          /\ \A q \in Procs, j \in Slots : Holds(q, j)' <=> Holds(q, j) /\ q # p
      BY <2>a, <1>10 DEF Push, Return, Goto, Odd, Holds, TypeInv, TypeOK
    <3>2. \A q \in Procs : Holds(q, i) => q = p
      BY <2>b DEF OwnerInv
    <3>3. \A j \in Slots : (\E k \in 1 .. Len(longer) : longer[k] = j) <=>
                              j = i \/ \E k \in 1 .. Len(fl) : fl[k] = j
      <4> SUFFICES ASSUME NEW j \in Slots
                   PROVE  (\E k \in 1 .. Len(longer) : longer[k] = j) <=>
                              j = i \/ \E k \in 1 .. Len(fl) : fl[k] = j
        OBVIOUS
      <4>1. 1 .. Len(longer) = (1 .. Len(fl)) \cup {Len(fl) + 1}
        BY <2>d
      <4>2. QED
        BY <4>1, <2>d
    <3>4. \A j \in Slots : (\E k \in 1 .. Len(longer) : longer[k] = j) <=>
                              ~Odd(j)' /\ \A q \in Procs : ~Holds(q, j)'
      <4> SUFFICES ASSUME NEW j \in Slots
                   PROVE  (\E k \in 1 .. Len(longer) : longer[k] = j) <=>
                              ~Odd(j)' /\ \A q \in Procs : ~Holds(q, j)'
        OBVIOUS
      <4>1. (\E k \in 1 .. Len(fl) : fl[k] = j) <=> ~Odd(j) /\ \A q \in Procs : ~Holds(q, j)
        BY <2>c DEF Chain
      <4>2. CASE j = i
        BY <4>2, <3>1, <3>2, <3>3, <2>b
      <4>3. CASE j # i
        <5>1. ~Holds(p, j)
          BY <4>3, <2>a DEF Holds
        <5>2. QED
          BY <4>1, <4>3, <5>1, <3>1, <3>3
      <4>4. QED
        BY <4>2, <4>3
    <3>5. \A k \in 1 .. Len(longer) :
            next'[longer[k]] = IF k = Len(longer) THEN -1 ELSE longer[k + 1]
      <4> SUFFICES ASSUME NEW k \in 1 .. Len(longer)
                   PROVE  next'[longer[k]] = IF k = Len(longer) THEN -1 ELSE longer[k + 1]
        OBVIOUS
      <4>1. CASE k = Len(longer)
        BY <4>1, <2>d, <2>i
      <4>2. CASE k = Len(fl)
        <5>1. k \in 1 .. Len(fl) /\ k # Len(longer) /\ Len(fl) # 0
          BY <4>2, <2>d
        <5>2. longer[k] = freeTail /\ longer[k] \in Slots \ {i} /\ longer[k + 1] = i
          BY <4>2, <5>1, <2>d, <2>e, <2>h
        <5>3. QED
          BY <5>1, <5>2, <2>i
      <4>3. CASE k # Len(longer) /\ k # Len(fl)
        <5>1. k \in 1 .. Len(fl) /\ k + 1 \in 1 .. Len(fl)
          BY <4>3, <2>d
        <5>2. fl[k] # freeTail /\ fl[k] \in Slots \ {i}
          BY <4>3, <5>1, <2>c, <2>d, <2>e, <2>h DEF Chain
        <5>3. next'[fl[k]] = next[fl[k]]
          BY <5>2, <2>i
        <5>4. next[fl[k]] = fl[k + 1]
          BY <5>1, <4>3, <2>c DEF Chain
        <5>5. QED
          BY <5>1, <5>3, <5>4, <4>3, <2>d
      <4>4. QED
        BY <4>1, <4>2, <4>3
    <3>6. freeHead' = longer[1] /\ freeTail' = longer[Len(longer)]
      <4>1. freeTail' = i
        BY <2>a, <1>10 DEF Push
      <4>2. CASE Len(fl) = 0
        BY <4>2, <2>a, <2>d, <2>h, <1>10 DEF Push
      <4>3. CASE Len(fl) # 0
        <5>1. 1 \in 1 .. Len(fl) /\ freeHead = fl[1] /\ freeHead' = freeHead
          BY <4>3, <2>c, <2>d, <2>h, <1>10 DEF Push, Chain
        <5>2. QED
          BY <5>1, <4>1, <2>d
      <4>4. QED
        BY <4>1, <4>2, <4>3, <2>d
    <3>7. live' = Count - Len(longer)
      BY <2>c, <2>d, <1>10 DEF Push, Chain
    <3>8. Chain(longer)'
      BY <3>4, <3>5, <3>6, <3>7, <2>d, <2>f DEF Chain
    <3>9. QED
      BY <3>8, <2>d DEF ChainInv
  <2>5. MemoryInv'
    <3> SUFFICES ASSUME NEW j \in Slots PROVE MemoryInv!(j)'
      BY DEF MemoryInv
    <3>1. /\ \A q \in Procs : Wiping(q, j)' <=> Wiping(q, j)
          /\ \A q \in Procs : Wiping(q, j) => handle'[q] = handle[q]
      BY <1>10 DEF Push, Return, Goto, Wiping, TypeInv, TypeOK
    <3>2. UNCHANGED <<generation, data, strip, overran, slab>> /\ (Odd(j)' <=> Odd(j))
      BY <1>10 DEF Push, Memory, Odd
    <3>3. Odd(j) => next'[j] = -1
      <4>1. Len(fl) # 0 => freeTail \in Slots /\ ~Odd(freeTail)
        BY <2>c, <2>d, <2>h DEF Chain
      <4>2. Odd(j) => j # i /\ ~(Len(fl) # 0 /\ j = freeTail)
        BY <4>1, <2>b
      <4>3. Odd(j) => next'[j] = next[j]
        BY <4>2, <2>i
      <4>4. QED
        BY <4>3 DEF MemoryInv
    <3>4. MemoryInv!(j)
      BY DEF MemoryInv
    <3>5. /\ data'[j] # 0 => ~slab'.wiped /\ data'[j] % 2 = 1
          /\ slab'.mapped /\ data'[j] # 0 =>
               data'[j] = generation'[j] \/ \E q \in Procs : Wiping(q, j)'
      BY <3>1, <3>2, <3>4
    <3>6. slab'.mapped /\ ~slab'.wiped /\ strip'[j] # "armed" =>
            \/ Odd(j)' /\ overran'[j] = generation'[j]
            \/ \E q \in Procs : Wiping(q, j)' /\ overran'[j] = handle'[q].generation
      <4> SUFFICES ASSUME slab.mapped /\ ~slab.wiped /\ strip[j] # "armed",
                          ~(Odd(j) /\ overran[j] = generation[j])
                   PROVE  \E q \in Procs : Wiping(q, j)' /\ overran'[j] = handle'[q].generation
        BY <3>2
      <4>1. PICK q \in Procs : Wiping(q, j) /\ overran[j] = handle[q].generation
        BY <3>4
      <4>2. QED
        BY <4>1, <3>1, <3>2
    <3>7. QED
      BY <3>2, <3>3, <3>5, <3>6
  <2>6. QED
    BY <2>1, <2>2, <2>3, <2>4, <2>5 DEF IInv
<1>11. ASSUME NEW p \in Procs, Destroy(p) PROVE IInv'
  <2>1. TypeInv'
    BY <1>11 DEF Destroy, TypeInv, TypeOK, HandleType, Handles, NoHandle, Goto, Lists, Memory, Locals
  <2>2. LocalInv'
    BY <1>11 DEF Destroy, TypeInv, TypeOK, LocalInv, UsesHandle, Handles, Goto, Lists, Memory, Locals
  <2>3. OwnerInv'
    BY <1>11 DEF Destroy, TypeInv, TypeOK, OwnerInv, Holds, Goto, Lists, Memory, Locals
  <2>4. ChainInv'
    BY <1>11, ChainQuiet DEF Destroy, Goto, TypeInv, TypeOK, Holds, Lists, Locals
  <2>5. MemoryInv'
    BY <1>11 DEF Destroy, TypeInv, TypeOK, MemoryInv, LocalInv, Odd, Wiping, Goto, Lists, Memory, Locals
  <2>6. QED
    BY <2>1, <2>2, <2>3, <2>4, <2>5 DEF IInv
<1>12. ASSUME NEW p \in Procs, DestroySlab(p) PROVE IInv'
  <2>1. TypeInv'
    <3>1. slab' \in [mapped : BOOLEAN, prot : {"RO", "RW"}, readOnly : BOOLEAN,
                    wiped : BOOLEAN, destroyed : BOOLEAN]
      BY <1>12, Zenon DEF DestroySlab, TypeInv, TypeOK
    <3>2. QED
      BY <3>1, <1>12, ReturnType DEF DestroySlab, TypeInv, TypeOK, Lists
  <2>2. LocalInv'
    BY <1>12 DEF DestroySlab, Return, Exclusive, TypeInv, TypeOK, LocalInv, UsesHandle, Handles, Goto, Lists, Memory, Locals
  <2>3. OwnerInv'
    BY <1>12 DEF DestroySlab, Return, Exclusive, TypeInv, TypeOK, OwnerInv, Holds, Goto, Lists, Memory, Locals
  <2>4. ChainInv'
    BY <1>12, ChainQuiet DEF DestroySlab, Return, Exclusive, Goto, TypeInv, TypeOK, Holds, Lists, Locals
  <2>5. MemoryInv'
    BY <1>12 DEF DestroySlab, Return, Exclusive, TypeInv, TypeOK, MemoryInv, LocalInv, Odd, Wiping, Goto, Lists, Memory, Locals
  <2>6. QED
    BY <2>1, <2>2, <2>3, <2>4, <2>5 DEF IInv
<1>13. ASSUME NEW p \in Procs, NEW h \in Handles, WithBytes(p, h) PROVE IInv'
  <2>1. TypeInv'
    <3>1. h \in HandleType
      BY DEF Handles, HandleType, Slots, Links
    <3>2. Handles' = Handles
      BY <1>13 DEF WithBytes, Handles
    <3>3. QED
      BY <3>1, <3>2, <1>13 DEF WithBytes, TypeInv, TypeOK, Goto, Lists, Memory
  <2>2. LocalInv'
    BY <1>13 DEF WithBytes, TypeInv, TypeOK, LocalInv, UsesHandle, Handles, Goto, Lists, Memory, Locals
  <2>3. OwnerInv'
    BY <1>13 DEF WithBytes, TypeInv, TypeOK, OwnerInv, Holds, Goto, Lists, Memory, Locals
  <2>4. ChainInv'
    BY <1>13, ChainQuiet DEF WithBytes, Goto, TypeInv, TypeOK, Holds, Lists, Locals
  <2>5. MemoryInv'
    BY <1>13 DEF WithBytes, TypeInv, TypeOK, MemoryInv, LocalInv, Odd, Wiping, Goto, Lists, Memory, Locals
  <2>6. QED
    BY <2>1, <2>2, <2>3, <2>4, <2>5 DEF IInv
<1>14. ASSUME NEW p \in Procs, NEW h \in Handles, Release(p, h) PROVE IInv'
  <2>1. TypeInv'
    <3>1. h \in HandleType
      BY DEF Handles, HandleType, Slots, Links
    <3>2. Handles' = Handles
      BY <1>14 DEF Release, Handles
    <3>3. QED
      BY <3>1, <3>2, <1>14 DEF Release, TypeInv, TypeOK, Goto, Lists, Memory
  <2>2. LocalInv'
    BY <1>14 DEF Release, TypeInv, TypeOK, LocalInv, UsesHandle, Handles, Goto, Lists, Memory, Locals
  <2>3. OwnerInv'
    BY <1>14 DEF Release, TypeInv, TypeOK, OwnerInv, Holds, Goto, Lists, Memory, Locals
  <2>4. ChainInv'
    BY <1>14, ChainQuiet DEF Release, Goto, TypeInv, TypeOK, Holds, Lists, Locals
  <2>5. MemoryInv'
    BY <1>14 DEF Release, TypeInv, TypeOK, MemoryInv, LocalInv, Odd, Wiping, Goto, Lists, Memory, Locals
  <2>6. QED
    BY <2>1, <2>2, <2>3, <2>4, <2>5 DEF IInv
<1>15. ASSUME NEW ro \in BOOLEAN, SetReadOnly(ro) PROVE IInv'
  <2>1. TypeInv'
    BY <1>15 DEF SetReadOnly, Exclusive, TypeInv, TypeOK, HandleType, Handles, NoHandle, Goto, Lists, Memory, Locals
  <2>2. LocalInv'
    BY <1>15 DEF SetReadOnly, Exclusive, TypeInv, TypeOK, LocalInv, UsesHandle, Handles, Goto, Lists, Memory, Locals
  <2>3. OwnerInv'
    BY <1>15 DEF SetReadOnly, Exclusive, TypeInv, TypeOK, OwnerInv, Holds, Goto, Lists, Memory, Locals
  <2>4. ChainInv'
    BY <1>15, ChainQuiet DEF SetReadOnly, Exclusive, Goto, TypeInv, TypeOK, Holds, Lists, Locals
  <2>5. MemoryInv'
    BY <1>15 DEF SetReadOnly, Exclusive, TypeInv, TypeOK, MemoryInv, LocalInv, Odd, Wiping, Goto, Lists, Memory, Locals
  <2>6. QED
    BY <2>1, <2>2, <2>3, <2>4, <2>5 DEF IInv
<1>16. ASSUME EmergencyWipe PROVE IInv'
  <2>1. TypeInv'
    <3>1. slab' \in [mapped : BOOLEAN, prot : {"RO", "RW"}, readOnly : BOOLEAN,
                    wiped : BOOLEAN, destroyed : BOOLEAN]
      BY <1>16, ZenonT(40) DEF EmergencyWipe, TypeInv, TypeOK
    <3>2. QED
      BY <3>1, <1>16 DEF EmergencyWipe, TypeInv, TypeOK, Handles, Lists, Locals
  <2>2. LocalInv'
    BY <1>16 DEF EmergencyWipe, Exclusive, TypeInv, TypeOK, LocalInv, UsesHandle, Handles, Goto, Lists, Memory, Locals
  <2>3. OwnerInv'
    BY <1>16 DEF EmergencyWipe, Exclusive, TypeInv, TypeOK, OwnerInv, Holds, Goto, Lists, Memory, Locals
  <2>4. ChainInv'
    BY <1>16, ChainQuiet DEF EmergencyWipe, Exclusive, Goto, TypeInv, TypeOK, Holds, Lists, Locals
  <2>5. MemoryInv'
    <3>1. /\ \A q \in Procs, j \in Slots : Wiping(q, j)' <=> Wiping(q, j)
          /\ \A j \in Slots : Odd(j)' <=> Odd(j)
      BY <1>16 DEF EmergencyWipe, Wiping, Odd, Locals
    <3>2. CASE slab' = [slab EXCEPT !.wiped = TRUE, !.prot = "RW"] /\ data' = [i \in Slots |-> 0]
      <4>1. slab'.wiped
        BY <3>2 DEF TypeInv, TypeOK
      <4>2. QED
        BY <4>1, <3>1, <3>2, <1>16 DEF EmergencyWipe, MemoryInv, Odd, Lists
    <3>3. CASE UNCHANGED <<slab, data, strip>>
      <4>1. UNCHANGED <<generation, next, slab, data, strip, overran, handle>>
        BY <3>3, <1>16 DEF EmergencyWipe, Lists, Locals
      <4>2. QED
        BY <4>1, <3>1 DEF MemoryInv
    <3>4. QED
      BY <3>2, <3>3, <1>16 DEF EmergencyWipe
  <2>6. QED
    BY <2>1, <2>2, <2>3, <2>4, <2>5 DEF IInv
<1>17. ASSUME UNCHANGED vars PROVE IInv'
  <2>1. TypeInv'
    BY <1>17 DEF vars, TypeInv, TypeOK, HandleType, Handles, NoHandle, Goto, Lists, Memory, Locals
  <2>2. LocalInv'
    BY <1>17 DEF vars, TypeInv, TypeOK, LocalInv, UsesHandle, Handles, Goto, Lists, Memory, Locals
  <2>3. OwnerInv'
    BY <1>17 DEF vars, TypeInv, TypeOK, OwnerInv, Holds, Goto, Lists, Memory, Locals
  <2>4. ChainInv'
    BY <1>17, ChainQuiet DEF vars, Goto, TypeInv, TypeOK, Holds, Lists, Locals
  <2>5. MemoryInv'
    BY <1>17 DEF vars, TypeInv, TypeOK, MemoryInv, LocalInv, Odd, Wiping, Goto, Lists, Memory, Locals
  <2>6. QED
    BY <2>1, <2>2, <2>3, <2>4, <2>5 DEF IInv
<1>18. QED
  BY <1>1, <1>2, <1>3, <1>4, <1>5, <1>6, <1>7, <1>8, <1>9, <1>10, <1>11, <1>12, <1>13, <1>14, <1>15, <1>16, <1>17 DEF Next, Goroutine

-----------------------------------------------------------------------------
(* The theorems. *)

\* The inductive invariant holds in every state the arena can reach.
THEOREM Invariance == Spec => []IInv
<1>1. QED
  BY InitIInv, NextIInv, PTL DEF Spec

\* The slots a Release has claimed, counted.
LEMMA ClaimedCount ==
  ASSUME IInv, NEW i \in Slots
  PROVE  /\ (\A p \in Procs : ~Holds(p, i)) => Claimed(i) = {} /\ Cardinality(Claimed(i)) = 0
         /\ (\E p \in Procs : Holds(p, i)) => Cardinality(Claimed(i)) = 1
<1>1. ASSUME \A p \in Procs : ~Holds(p, i)
      PROVE  Claimed(i) = {} /\ Cardinality(Claimed(i)) = 0
  <2>1. Claimed(i) = {}
    BY <1>1 DEF Claimed, Holds
  <2>2. QED
    BY <2>1, FS_EmptySet
<1>2. ASSUME NEW p \in Procs, Holds(p, i)
      PROVE  Cardinality(Claimed(i)) = 1
  <2>1. Claimed(i) = {p}
    BY <1>2 DEF Claimed, Holds, IInv, OwnerInv
  <2>2. QED
    BY <2>1, FS_Singleton
<1>3. QED
  BY <1>1, <1>2

\* The free list of Acquire and Release never cycles, loses a slot or holds one
\* that is live or being released, and live counts the slots that are not on it.
THEOREM ListIsSound == Spec => []FreeListSound
<1>1. IInv => FreeListSound
  <2> SUFFICES ASSUME IInv PROVE FreeListSound
    OBVIOUS
  <2>1. TypeInv /\ TypeOK
    BY DEF IInv, TypeInv
  <2>2. PICK fl \in Seq(Slots) : Chain(fl)
    BY DEF IInv, ChainInv
  <2>3. FreeList = fl
    BY <2>1, <2>2, ListIsChain
  <2>4. \A i : i \in Free <=> \E k \in 1 .. Len(fl) : fl[k] = i
    BY <2>3 DEF Free
  <2>5. IsInjective(FreeList)
    BY <2>2, <2>3 DEF Chain, IsInjective
  <2>6. freeTail = IF FreeList = <<>> THEN -1 ELSE Last(FreeList)
    BY <2>2, <2>3 DEF Chain, Last
  <2>7. live = Count - Len(FreeList)
    BY <2>2, <2>3 DEF Chain
  <2>8. ASSUME NEW i \in Slots
        PROVE  /\ generation[i] % 2 = 1 => i \notin Free /\ Claimed(i) = {} /\ next[i] = -1
               /\ generation[i] % 2 = 0 =>
                    Cardinality(Claimed(i)) = IF i \in Free THEN 0 ELSE 1
    <3>1. i \in Free <=> ~Odd(i) /\ \A p \in Procs : ~Holds(p, i)
      BY <2>2, <2>4 DEF Chain
    <3>2. CASE generation[i] % 2 = 1
      <4>1. ASSUME NEW p \in Procs, Holds(p, i) PROVE FALSE
        <5>1. generation[i] = handle[p].generation + 1
          BY <4>1 DEF Holds, IInv, LocalInv
        <5>2. handle[p].generation \in Nat /\ handle[p].generation % 2 = 1
          BY <4>1, HandleFacts DEF Holds, UsesHandle, IInv
        <5>3. QED
          BY <5>1, <5>2, <3>2, Parity
      <4>2. Claimed(i) = {}
        BY <4>1, ClaimedCount
      <4>3. QED
        BY <3>1, <3>2, <4>2 DEF Odd, IInv, MemoryInv
    <3>3. CASE generation[i] % 2 # 1
      <4>1. i \in Free => Cardinality(Claimed(i)) = 0
        BY <3>1, ClaimedCount
      <4>2. i \notin Free => Cardinality(Claimed(i)) = 1
        BY <3>1, <3>3, ClaimedCount DEF Odd
      <4>3. QED
        BY <3>3, <4>1, <4>2
    <3>4. QED
      BY <3>2, <3>3
  <2>9. QED
    BY <2>1, <2>5, <2>6, <2>7, <2>8 DEF FreeListSound
<1>2. QED
  BY <1>1, Invariance, PTL

\* WithBytes hands a slot's bytes to the slot's tenant only, however stale the
\* handles that are borrowed and released meanwhile.
THEOREM TenantReads == Spec => []OnlyTheTenantReads
<1>1. IInv => OnlyTheTenantReads
  <2> SUFFICES ASSUME IInv, NEW p \in Procs, pc[p] = "inside"
               PROVE  /\ data[handle[p].idx] \in {0, handle[p].generation}
                      /\ \A q \in Procs : pc[q] = "inside" /\ handle[q].idx = handle[p].idx =>
                           handle[q] = handle[p]
    BY DEF OnlyTheTenantReads
  <2>1. TypeInv /\ LocalInv
    BY DEF IInv
  <2>2. PICK i \in Slots : i = handle[p].idx
    BY <2>1, HandleFacts DEF UsesHandle
  <2>3. /\ generation[i] = handle[p].generation
        /\ handle[p].generation \in Nat /\ handle[p].generation % 2 = 1
    BY <2>1, <2>2, HandleFacts DEF LocalInv, UsesHandle
  <2>4. ASSUME NEW q \in Procs, Wiping(q, i) PROVE FALSE
    <3>1. generation[i] = handle[q].generation + 1
      BY <2>1, <2>4 DEF Wiping, LocalInv
    <3>2. handle[q].generation \in Nat /\ handle[q].generation % 2 = 1
      BY <2>1, <2>4, HandleFacts DEF Wiping, UsesHandle
    <3>3. QED
      BY <3>1, <3>2, <2>3, Parity
  <2>5. data[i] \in {0, handle[p].generation}
    BY <2>1, <2>3, <2>4 DEF IInv, LocalInv, MemoryInv
  <2>6. ASSUME NEW q \in Procs, pc[q] = "inside", handle[q].idx = i PROVE handle[q] = handle[p]
    <3>1. handle[q].generation = generation[i]
      BY <2>1, <2>6 DEF LocalInv
    <3>2. handle[q] \in Handles /\ handle[p] \in Handles
      BY <2>1, <2>6 DEF LocalInv, UsesHandle
    <3>3. QED
      BY <3>1, <3>2, <2>2, <2>3, <2>6 DEF Handles
  <2>7. QED
    BY <2>2, <2>5, <2>6
<1>2. QED
  BY <1>1, Invariance, PTL

\* Acquire finds zeros and an armed strip, and no secret appears in a slab that
\* the emergency wipe has passed.
THEOREM FreeIsClean == Spec => []FreeSlotsAreClean
<1>1. IInv => FreeSlotsAreClean
  <2> SUFFICES ASSUME IInv PROVE FreeSlotsAreClean
    OBVIOUS
  <2>1. PICK fl \in Seq(Slots) : Chain(fl)
    BY DEF IInv, ChainInv
  <2>2. FreeList = fl
    BY <2>1, ListIsChain DEF IInv
  <2>3. ASSUME slab.mapped, NEW i \in Free
        PROVE  data[i] = 0 /\ (~slab.wiped => strip[i] = "armed")
    <3>1. PICK k \in 1 .. Len(fl) : fl[k] = i
      BY <2>2, <2>3 DEF Free
    <3>2. i \in Slots /\ ~Odd(i) /\ \A p \in Procs : ~Holds(p, i)
      BY <2>1, <3>1 DEF Chain
    <3>3. \A p \in Procs : ~Wiping(p, i)
      BY <3>2 DEF Holds, Wiping
    <3>4. QED
      BY <2>3, <3>2, <3>3 DEF IInv, MemoryInv, Odd
  <2>4. slab.wiped => \A i \in Slots : data[i] = 0
    BY DEF IInv, MemoryInv
  <2>5. QED
    BY <2>3, <2>4 DEF FreeSlotsAreClean
<1>2. QED
  BY <1>1, Invariance, PTL

\* Release blames the handle it was given only for that handle's own overrun.
THEOREM OwnOverrun == Spec => []ReportsOwnOverrun
<1>1. IInv => ReportsOwnOverrun
  BY DEF IInv, LocalInv, ReportsOwnOverrun
<1>2. QED
  BY <1>1, Invariance, PTL

\* A slab is read-only only if ReadOnly said so and no wipe came since, and a
\* Release that has claimed its slot keeps it as it is.
SlabInv ==
  /\ slab.mapped /\ slab.prot = "RO" => slab.readOnly /\ ~slab.wiped
  /\ \A p \in Procs : pc[p] = "wiping" => slab.mapped /\ slab.prot = "RW"

\* Release and the callbacks find pages they can write to: the slab's protection
\* changes under the exclusive lock only, and its flag with it.
THEOREM WritesFindPages == Spec => []SlabTakesItsWrites
<1>1. Init => SlabInv
  BY DEF Init, SlabInv
<1>2. IInv /\ SlabInv /\ [Next]_vars => SlabInv'
  <2> SUFFICES ASSUME IInv, SlabInv, [Next]_vars PROVE SlabInv'
    OBVIOUS
  <2> USE DEF SlabInv
  <2>0. TypeInv
    BY DEF IInv
  <2>1. ASSUME NEW p \in Procs, Claim(p) PROVE SlabInv'
    BY <2>0, <2>1, Zenon DEF Claim, Refused, Return, Goto, TypeInv, TypeOK
  <2>2. ASSUME NEW ro \in BOOLEAN, SetReadOnly(ro) PROVE SlabInv'
    BY <2>0, <2>2 DEF SetReadOnly, Exclusive, TypeInv, TypeOK
  <2>3. ASSUME EmergencyWipe PROVE SlabInv'
    BY <2>0, <2>3 DEF EmergencyWipe, Exclusive, TypeInv, TypeOK
  <2>4. ASSUME NEW p \in Procs, DestroySlab(p) \/ Destroy(p) PROVE SlabInv'
    BY <2>0, <2>4 DEF DestroySlab, Destroy, Exclusive, Return, Goto, TypeInv, TypeOK
  <2>5. ASSUME NEW p \in Procs, AcquireCheck(p) \/ AcquireFull(p) \/ Acquire(p) \/ WipeSlot(p) \/ Push(p)
        PROVE  SlabInv'
    BY <2>0, <2>5 DEF AcquireCheck, AcquireFull, Acquire, WipeSlot, Push, Return, Goto, TypeInv, TypeOK
  <2>6. ASSUME NEW p \in Procs, NEW h \in Handles, WithBytes(p, h) \/ Release(p, h) PROVE SlabInv'
    BY <2>0, <2>6 DEF WithBytes, Release, Goto, TypeInv, TypeOK
  <2>7. ASSUME NEW p \in Procs, Borrow(p) \/ Write(p) \/ Overrun(p) \/ EndBorrow(p) PROVE SlabInv'
    BY <2>0, <2>7 DEF Borrow, Write, Overrun, EndBorrow, Return, Goto, TypeInv, TypeOK
  <2>8. CASE UNCHANGED vars
    BY <2>8 DEF vars
  <2>9. QED
    BY <2>1, <2>2, <2>3, <2>4, <2>5, <2>6, <2>7, <2>8 DEF Next, Goroutine
<1>3. IInv /\ SlabInv => SlabTakesItsWrites
  BY DEF IInv, LocalInv, TypeInv, TypeOK, SlabInv, SlabTakesItsWrites
<1>4. QED
  BY <1>1, <1>2, <1>3, Invariance, PTL DEF Spec

\* A secret whose handle is live goes only when its own Release, the emergency
\* wipe or Destroy takes it: a Release held up with a stale handle wipes nothing.
THEOREM StaleHandlesTakeNothing == Spec => SecretOutlivesStaleHandles
<1> DEFINE Kept == \A i \in Slots :
                     /\ data[i] # 0
                     /\ generation[i] = data[i]
                     /\ data'[i] # data[i]
                     => slab'.wiped \/ ~slab'.mapped
<1>1. IInv /\ [Next]_vars => [Kept]_vars
  <2> SUFFICES ASSUME IInv, Next, NEW i \in Slots,
                      data[i] # 0, generation[i] = data[i], data'[i] # data[i]
               PROVE  slab'.wiped \/ ~slab'.mapped
    OBVIOUS
  <2>1. TypeInv /\ LocalInv /\ MemoryInv
    BY DEF IInv
  <2>2. ASSUME NEW p \in Procs, Write(p) PROVE FALSE
    <3>1. generation[handle[p].idx] = handle[p].generation
      BY <2>1, <2>2 DEF Write, LocalInv
    <3>2. QED
      BY <3>1, <2>1, <2>2 DEF Write, TypeInv, TypeOK
  <2>3. ASSUME NEW p \in Procs, WipeSlot(p) PROVE FALSE
    <3>1. handle[p].idx = i
      BY <2>1, <2>3 DEF WipeSlot, TypeInv, TypeOK
    <3>2. generation[i] = handle[p].generation + 1
      BY <3>1, <2>1, <2>3 DEF WipeSlot, LocalInv
    <3>3. handle[p].generation \in Nat /\ handle[p].generation % 2 = 1
      BY <2>1, <2>3, HandleFacts DEF WipeSlot, UsesHandle
    <3>4. data[i] % 2 = 1
      BY <2>1 DEF MemoryInv
    <3>5. QED
      BY <3>2, <3>3, <3>4, Parity
  <2>4. ASSUME EmergencyWipe PROVE slab'.wiped
    BY <2>1, <2>4 DEF EmergencyWipe, TypeInv, TypeOK
  <2>5. ASSUME NEW p \in Procs, DestroySlab(p) PROVE ~slab'.mapped
    BY <2>1, <2>5 DEF DestroySlab, TypeInv, TypeOK
  <2>6. QED
    BY <2>2, <2>3, <2>4, <2>5
    DEF Next, Goroutine, AcquireCheck, AcquireFull, Acquire, WithBytes, Release, Borrow,
        Overrun, EndBorrow, Claim, Push, Destroy, SetReadOnly, Memory
<1>2. QED
  BY <1>1, Invariance, PTL DEF Spec, SecretOutlivesStaleHandles
=============================================================================
