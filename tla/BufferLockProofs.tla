-------------------------- MODULE BufferLockProofs --------------------------
(***************************************************************************)
(* Proofs about BufferLock, for every finite set of goroutines and every   *)
(* bias larger than it: type correctness, mutual exclusion, no missed      *)
(* wakeup, and the refinement of RWLock (writer preference included).      *)
(*                                                                         *)
(* All four rest on IInv.  Its core is WordInv: the one atomic word counts *)
(* the readers and carries the bias exactly while a writer is in play, so  *)
(* its sign tells a reader, and its value tells a writer, who else is      *)
(* inside.                                                                 *)
(*                                                                         *)
(* The second part is about those who wait for such locks, KeyOps: calls   *)
(* that borrow several buffers, and the Destroys, do not wedge each other. *)
(***************************************************************************)
EXTENDS BufferLock, KeyOps, FiniteSetTheorems, NaturalsInduction, WellFoundedInduction, TLAPS

EnrollAt == {"enroll", "rparked"}
CountSets == {CountedAt, Locking, EnrollAt}

\* p has moved to l, nobody else has moved, and every count has followed.
Moved(p, l) ==
  /\ pc' \in [Procs -> PCs]
  /\ pc'[p] = l
  /\ \A q \in Procs \ {p} : pc'[q] = pc[q]
  /\ \A L \in CountSets :
       /\ Count(pc, L) \in Nat
       /\ Count(pc, L) <= Cardinality(Procs)
       /\ Count(pc', L) \in Nat
       /\ Count(pc', L) = Count(pc, L) + (IF l \in L THEN 1 ELSE 0)
                                       - (IF pc[p] \in L THEN 1 ELSE 0)

\* The number of goroutines is a natural number below the bias.
LEMMA ProcsFacts ==
  /\ Cardinality(Procs) \in Nat
  /\ bufMaxReaders \in Nat
  /\ Cardinality(Procs) < bufMaxReaders
  /\ NoProc \notin Procs
BY FS_CardinalityType, ProcsAssumption, BiasAssumption

\* A count is zero exactly when nobody is there: what lets a writer conclude
\* from the word alone that every reader has left.
LEMMA CountZero ==
  ASSUME NEW f \in [Procs -> PCs], NEW L
  PROVE  Count(f, L) = 0 <=> \A q \in Procs : f[q] \notin L
<1>1. Inside(f, L) \in SUBSET Procs
  BY DEF Inside
<1>2. IsFiniteSet(Inside(f, L))
  BY <1>1, ProcsAssumption, FS_Subset
<1>3. Count(f, L) = 0 <=> Inside(f, L) = {}
  BY <1>2, FS_EmptySet DEF Count
<1>4. QED
  BY <1>3 DEF Inside

\* Counting: every action moves one process with Goto, and that changes the
\* number of processes at the places in L exactly when it enters or leaves L.
\* The counts are what readers, writersWaiting and readersWaiting keep.
LEMMA PcMove ==
  ASSUME TypeOK, NEW p \in Procs, NEW l \in PCs, Goto(p, l)
  PROVE  Moved(p, l)
<1>1. pc \in [Procs -> PCs] /\ pc' = [pc EXCEPT ![p] = l]
  BY DEF TypeOK, Goto
<1>2. /\ pc' \in [Procs -> PCs]
      /\ pc'[p] = l
      /\ \A q \in Procs \ {p} : pc'[q] = pc[q]
  BY <1>1
<1>3. ASSUME NEW L \in CountSets
      PROVE  /\ Count(pc, L) \in Nat
             /\ Count(pc, L) <= Cardinality(Procs)
             /\ Count(pc', L) \in Nat
             /\ Count(pc', L) = Count(pc, L) + (IF l \in L THEN 1 ELSE 0)
                                             - (IF pc[p] \in L THEN 1 ELSE 0)
  <2>1. /\ Inside(pc, L) \in SUBSET Procs
        /\ Inside(pc', L) \in SUBSET Procs
    BY DEF Inside
  <2>2. /\ IsFiniteSet(Inside(pc, L))
        /\ IsFiniteSet(Inside(pc', L))
        /\ Cardinality(Inside(pc, L)) <= Cardinality(Procs)
    BY <2>1, ProcsAssumption, FS_Subset
  <2>3. Count(pc, L) \in Nat /\ Count(pc', L) \in Nat
    BY <2>2, FS_CardinalityType DEF Count
  <2>4. ASSUME pc[p] \in L, l \notin L
        PROVE  Count(pc', L) = Count(pc, L) - 1
    <3>1. Inside(pc', L) = Inside(pc, L) \ {p} /\ p \in Inside(pc, L)
      BY <2>4, <1>2 DEF Inside
    <3>2. QED
      BY <3>1, <2>2, FS_RemoveElement DEF Count
  <2>5. ASSUME pc[p] \notin L, l \in L
        PROVE  Count(pc', L) = Count(pc, L) + 1
    <3>1. Inside(pc', L) = Inside(pc, L) \cup {p} /\ p \notin Inside(pc, L)
      BY <2>5, <1>2 DEF Inside
    <3>2. QED
      BY <3>1, <2>2, FS_AddElement DEF Count
  <2>6. ASSUME pc[p] \in L <=> l \in L
        PROVE  Count(pc', L) = Count(pc, L)
    <3>1. Inside(pc', L) = Inside(pc, L)
      BY <2>6, <1>2 DEF Inside
    <3>2. QED
      BY <3>1 DEF Count
  <2>7. Count(pc', L) = Count(pc, L) + (IF l \in L THEN 1 ELSE 0)
                                     - (IF pc[p] \in L THEN 1 ELSE 0)
    BY <2>3, <2>4, <2>5, <2>6
  <2>8. QED
    BY <2>2, <2>3, <2>7 DEF Count
<1>4. QED
  BY <1>2, <1>3 DEF Moved

\* The word shows exactly the bias only when nobody is counted in it, and then
\* a writer is in play.
LEMMA Drained ==
  ASSUME IInv, readers = -bufMaxReaders
  PROVE  \A q \in Procs : ~At(q, "reading") /\ ~At(q, "bounced")
<1>1. Count(pc, CountedAt) \in Nat
  BY ProcsAssumption, FS_Subset, FS_CardinalityType DEF Count, Inside
<1>2. Count(pc, CountedAt) = 0
  BY <1>1, ProcsFacts DEF IInv, WordInv
<1>3. pc \in [Procs -> PCs]
  BY DEF IInv, TypeOK
<1>4. QED
  BY <1>2, <1>3, CountZero DEF At, CountedAt

\* newBufferRWLock establishes the inductive invariant.
LEMMA InitIInv == Init => IInv
<1> SUFFICES ASSUME Init PROVE IInv
  OBVIOUS
<1>1. TypeOK
  <2>1. pc \in [Procs -> PCs]
    BY DEF Init, PCs, AtRest
  <2>2. writerActive \in BOOLEAN
    BY Zenon DEF Init
  <2>3. QED
    BY <2>1, <2>2 DEF Init, TypeOK
<1>2. \A L : "idle" \notin L => Count(pc, L) = 0
  BY <1>1, CountZero DEF Init, TypeOK
<1>3. /\ Count(pc, CountedAt) = 0
      /\ Count(pc, Locking) = 0
      /\ Count(pc, {"enroll", "rparked"}) = 0
  BY <1>2 DEF CountedAt, Locking
<1>4. QED
  BY <1>1, <1>3, ProcsAssumption
  DEF Init, IInv, WordInv, FlagsInv, MuInv, WaitersInv, ParkInv, NoLostWakeup,
      ReadersOut, WriterInPlay, At

\* Every step keeps the inductive invariant.
LEMMA NextIInv == IInv /\ [Next]_vars => IInv'
<1> SUFFICES ASSUME IInv, [Next]_vars PROVE IInv'
  OBVIOUS
<1> USE DEF At, WriterInPlay, MuFree
<1>0. TypeOK /\ ReadersOut
  BY DEF IInv
<1>1. ASSUME NEW p \in Procs, rLock(p) PROVE IInv'
  <2>1. CASE readers + 1 > 0
    <3>1. Moved(p, "reading")
      BY <1>1, <2>1, <1>0, PcMove DEF rLock, PCs, AtRest, RLocking, Locking
    <3>2. TypeOK'
      BY <1>1, <2>1, <1>0, <3>1, ProcsFacts
      DEF rLock, Moved, IInv, TypeOK, FlagsInv, CountSets, EnrollAt, Locking
    <3>3. WordInv' /\ FlagsInv'
      BY <1>1, <2>1, <1>0, <3>1, ProcsFacts
      DEF rLock, Moved, IInv, TypeOK, WordInv, FlagsInv, CountSets, CountedAt,
          EnrollAt, Locking
    <3>4. MuInv' /\ WaitersInv'
      BY <1>1, <2>1, <1>0, <3>1, ProcsFacts
      DEF rLock, Moved, IInv, TypeOK, MuInv, WaitersInv
    <3>5. ParkInv' /\ NoLostWakeup'
      BY <1>1, <2>1, <1>0, <3>1, ProcsFacts
      DEF rLock, Moved, IInv, TypeOK, WordInv, FlagsInv, MuInv, WaitersInv,
          ParkInv, NoLostWakeup, CountSets, CountedAt, Locking
    <3>6. ReadersOut'
      BY <1>1, <2>1, <1>0, <3>1, ProcsFacts
      DEF rLock, Moved, IInv, TypeOK, WordInv, FlagsInv, ReadersOut, CountSets,
          CountedAt
    <3>7. QED
      BY <3>2, <3>3, <3>4, <3>5, <3>6 DEF IInv
  <2>2. CASE ~(readers + 1 > 0)
    <3>1. Moved(p, "bounced")
      BY <1>1, <2>2, <1>0, PcMove DEF rLock, PCs, AtRest, RLocking, Locking
    <3>2. TypeOK'
      BY <1>1, <2>2, <1>0, <3>1, ProcsFacts
      DEF rLock, Moved, IInv, TypeOK, FlagsInv, CountSets, EnrollAt, Locking
    <3>3. WordInv' /\ FlagsInv'
      BY <1>1, <2>2, <1>0, <3>1, ProcsFacts
      DEF rLock, Moved, IInv, TypeOK, WordInv, FlagsInv, CountSets, CountedAt,
          EnrollAt, Locking
    <3>4. MuInv' /\ WaitersInv'
      BY <1>1, <2>2, <1>0, <3>1, ProcsFacts
      DEF rLock, Moved, IInv, TypeOK, MuInv, WaitersInv
    <3>5. ParkInv' /\ NoLostWakeup'
      BY <1>1, <2>2, <1>0, <3>1, ProcsFacts
      DEF rLock, Moved, IInv, TypeOK, WordInv, FlagsInv, MuInv, WaitersInv,
          ParkInv, NoLostWakeup, CountSets, CountedAt, Locking
    <3>6. ReadersOut'
      BY <1>1, <2>2, <1>0, <3>1, ProcsFacts
      DEF rLock, Moved, IInv, TypeOK, WordInv, FlagsInv, ReadersOut, CountSets,
          CountedAt
    <3>7. QED
      BY <3>2, <3>3, <3>4, <3>5, <3>6 DEF IInv
  <2>3. QED
    BY <2>1, <2>2
<1>2. ASSUME NEW p \in Procs, rLockSlow(p) PROVE IInv'
  <2>1. Moved(p, "enroll")
    BY <1>2, <1>0, PcMove DEF rLockSlow, PCs, AtRest, RLocking, Locking
  <2>2. TypeOK'
    BY <1>2, <1>0, <2>1, ProcsFacts
    DEF rLockSlow, Moved, IInv, TypeOK, FlagsInv, CountSets, EnrollAt, Locking
  <2>3. WordInv' /\ FlagsInv'
    BY <1>2, <1>0, <2>1, ProcsFacts
    DEF rLockSlow, Moved, IInv, TypeOK, WordInv, FlagsInv, CountSets, CountedAt,
        EnrollAt, Locking
  <2>4. MuInv' /\ WaitersInv'
    BY <1>2, <1>0, <2>1, ProcsFacts
    DEF rLockSlow, Moved, IInv, TypeOK, MuInv, WaitersInv
  <2>5. ParkInv' /\ NoLostWakeup'
    BY <1>2, <1>0, <2>1, ProcsFacts
    DEF rLockSlow, Moved, IInv, TypeOK, WordInv, FlagsInv, MuInv, WaitersInv,
        ParkInv, NoLostWakeup, CountSets, CountedAt, Locking
  <2>6. ReadersOut'
    BY <1>2, <1>0, <2>1, ProcsFacts
    DEF rLockSlow, Moved, IInv, TypeOK, WordInv, FlagsInv, ReadersOut, CountSets,
        CountedAt
  <2>7. QED
    BY <2>2, <2>3, <2>4, <2>5, <2>6 DEF IInv
<1>3. ASSUME NEW p \in Procs, rLockEnroll(p) PROVE IInv'
  <2>1. Moved(p, "reading")
    BY <1>3, <1>0, PcMove DEF rLockEnroll, PCs, AtRest, RLocking, Locking
  <2>2. TypeOK'
    BY <1>3, <1>0, <2>1, ProcsFacts
    DEF rLockEnroll, Moved, IInv, TypeOK, FlagsInv, CountSets, EnrollAt, Locking
  <2>3. WordInv' /\ FlagsInv'
    BY <1>3, <1>0, <2>1, ProcsFacts
    DEF rLockEnroll, Moved, IInv, TypeOK, WordInv, FlagsInv, CountSets, CountedAt,
        EnrollAt, Locking
  <2>4. MuInv' /\ WaitersInv'
    BY <1>3, <1>0, <2>1, ProcsFacts
    DEF rLockEnroll, Moved, IInv, TypeOK, MuInv, WaitersInv
  <2>5. ParkInv' /\ NoLostWakeup'
    BY <1>3, <1>0, <2>1, ProcsFacts
    DEF rLockEnroll, Moved, IInv, TypeOK, WordInv, FlagsInv, MuInv, WaitersInv,
        ParkInv, NoLostWakeup, CountSets, CountedAt, Locking
  <2>6. ReadersOut'
    BY <1>3, <1>0, <2>1, ProcsFacts
    DEF rLockEnroll, Moved, IInv, TypeOK, WordInv, FlagsInv, ReadersOut,
        CountSets, CountedAt
  <2>7. QED
    BY <2>2, <2>3, <2>4, <2>5, <2>6 DEF IInv
<1>4. ASSUME NEW p \in Procs, rLockWait(p) PROVE IInv'
  <2>1. Moved(p, "rparked")
    BY <1>4, <1>0, PcMove DEF rLockWait, PCs, AtRest, RLocking, Locking
  <2>2. TypeOK'
    BY <1>4, <1>0, <2>1, ProcsFacts
    DEF rLockWait, Moved, IInv, TypeOK, FlagsInv, CountSets, EnrollAt, Locking
  <2>3. WordInv' /\ FlagsInv'
    BY <1>4, <1>0, <2>1, ProcsFacts
    DEF rLockWait, Moved, IInv, TypeOK, WordInv, FlagsInv, CountSets, CountedAt,
        EnrollAt, Locking
  <2>4. MuInv' /\ WaitersInv'
    BY <1>4, <1>0, <2>1, ProcsFacts
    DEF rLockWait, Moved, IInv, TypeOK, MuInv, WaitersInv
  <2>5. ParkInv' /\ NoLostWakeup'
    BY <1>4, <1>0, <2>1, ProcsFacts
    DEF rLockWait, Moved, IInv, TypeOK, WordInv, FlagsInv, MuInv, WaitersInv,
        ParkInv, NoLostWakeup, CountSets, CountedAt, Locking
  <2>6. ReadersOut'
    BY <1>4, <1>0, <2>1, ProcsFacts
    DEF rLockWait, Moved, IInv, TypeOK, WordInv, FlagsInv, ReadersOut, CountSets,
        CountedAt
  <2>7. QED
    BY <2>2, <2>3, <2>4, <2>5, <2>6 DEF IInv
<1>5. ASSUME NEW p \in Procs, rLockWake(p) PROVE IInv'
  <2>1. Moved(p, "enroll")
    BY <1>5, <1>0, PcMove DEF rLockWake, PCs, AtRest, RLocking, Locking
  <2>2. TypeOK'
    BY <1>5, <1>0, <2>1, ProcsFacts
    DEF rLockWake, Moved, IInv, TypeOK, FlagsInv, CountSets, EnrollAt, Locking
  <2>3. WordInv' /\ FlagsInv'
    BY <1>5, <1>0, <2>1, ProcsFacts
    DEF rLockWake, Moved, IInv, TypeOK, WordInv, FlagsInv, CountSets, CountedAt,
        EnrollAt, Locking
  <2>4. MuInv' /\ WaitersInv'
    BY <1>5, <1>0, <2>1, ProcsFacts
    DEF rLockWake, Moved, IInv, TypeOK, MuInv, WaitersInv
  <2>5. ParkInv' /\ NoLostWakeup'
    BY <1>5, <1>0, <2>1, ProcsFacts
    DEF rLockWake, Moved, IInv, TypeOK, WordInv, FlagsInv, MuInv, WaitersInv,
        ParkInv, NoLostWakeup, CountSets, CountedAt, Locking
  <2>6. ReadersOut'
    BY <1>5, <1>0, <2>1, ProcsFacts
    DEF rLockWake, Moved, IInv, TypeOK, WordInv, FlagsInv, ReadersOut, CountSets,
        CountedAt
  <2>7. QED
    BY <2>2, <2>3, <2>4, <2>5, <2>6 DEF IInv
<1>6. ASSUME NEW p \in Procs, rUnlock(p) PROVE IInv'
  <2>1. CASE readers - 1 = -bufMaxReaders
    <3>1. Moved(p, "handoff")
      BY <1>6, <2>1, <1>0, PcMove DEF rUnlock, PCs, AtRest, RLocking, Locking
    <3>2. TypeOK'
      BY <1>6, <2>1, <1>0, <3>1, ProcsFacts
      DEF rUnlock, Moved, IInv, TypeOK, FlagsInv, CountSets, EnrollAt, Locking
    <3>3. WordInv' /\ FlagsInv'
      BY <1>6, <2>1, <1>0, <3>1, ProcsFacts
      DEF rUnlock, Moved, IInv, TypeOK, WordInv, FlagsInv, CountSets, CountedAt,
          EnrollAt, Locking
    <3>4. MuInv' /\ WaitersInv'
      BY <1>6, <2>1, <1>0, <3>1, ProcsFacts
      DEF rUnlock, Moved, IInv, TypeOK, MuInv, WaitersInv
    <3>5. ParkInv' /\ NoLostWakeup'
      BY <1>6, <2>1, <1>0, <3>1, ProcsFacts
      DEF rUnlock, Moved, IInv, TypeOK, WordInv, FlagsInv, MuInv, WaitersInv,
          ParkInv, NoLostWakeup, CountSets, CountedAt, Locking
    <3>6. ReadersOut'
      BY <1>6, <2>1, <1>0, <3>1, ProcsFacts
      DEF rUnlock, Moved, IInv, TypeOK, WordInv, FlagsInv, ReadersOut, CountSets,
          CountedAt
    <3>7. QED
      BY <3>2, <3>3, <3>4, <3>5, <3>6 DEF IInv
  <2>2. CASE ~(readers - 1 = -bufMaxReaders)
    <3>1. Moved(p, "idle")
      BY <1>6, <2>2, <1>0, PcMove DEF rUnlock, PCs, AtRest, RLocking, Locking
    <3>2. TypeOK'
      BY <1>6, <2>2, <1>0, <3>1, ProcsFacts
      DEF rUnlock, Moved, IInv, TypeOK, FlagsInv, CountSets, EnrollAt, Locking
    <3>3. WordInv' /\ FlagsInv'
      BY <1>6, <2>2, <1>0, <3>1, ProcsFacts
      DEF rUnlock, Moved, IInv, TypeOK, WordInv, FlagsInv, CountSets, CountedAt,
          EnrollAt, Locking
    <3>4. MuInv' /\ WaitersInv'
      BY <1>6, <2>2, <1>0, <3>1, ProcsFacts
      DEF rUnlock, Moved, IInv, TypeOK, MuInv, WaitersInv
    <3>5. ParkInv' /\ NoLostWakeup'
      BY <1>6, <2>2, <1>0, <3>1, ProcsFacts
      DEF rUnlock, Moved, IInv, TypeOK, WordInv, FlagsInv, MuInv, WaitersInv,
          ParkInv, NoLostWakeup, CountSets, CountedAt, Locking
    <3>6. ReadersOut'
      BY <1>6, <2>2, <1>0, <3>1, ProcsFacts
      DEF rUnlock, Moved, IInv, TypeOK, WordInv, FlagsInv, ReadersOut, CountSets,
          CountedAt
    <3>7. QED
      BY <3>2, <3>3, <3>4, <3>5, <3>6 DEF IInv
  <2>3. QED
    BY <2>1, <2>2
<1>7. ASSUME NEW p \in Procs, rUnlockHandoff(p) PROVE IInv'
  <2>1. Moved(p, "idle")
    BY <1>7, <1>0, PcMove DEF rUnlockHandoff, PCs, AtRest, RLocking, Locking
  <2>2. TypeOK'
    BY <1>7, <1>0, <2>1, ProcsFacts
    DEF rUnlockHandoff, Moved, IInv, TypeOK, FlagsInv, CountSets, EnrollAt, Locking
  <2>3. WordInv' /\ FlagsInv'
    BY <1>7, <1>0, <2>1, ProcsFacts
    DEF rUnlockHandoff, Moved, IInv, TypeOK, WordInv, FlagsInv, CountSets,
        CountedAt, EnrollAt, Locking
  <2>4. MuInv' /\ WaitersInv'
    BY <1>7, <1>0, <2>1, ProcsFacts
    DEF rUnlockHandoff, Moved, IInv, TypeOK, MuInv, WaitersInv
  <2>5. ParkInv' /\ NoLostWakeup'
    BY <1>7, <1>0, <2>1, ProcsFacts
    DEF rUnlockHandoff, Moved, IInv, TypeOK, WordInv, FlagsInv, MuInv, WaitersInv,
        ParkInv, NoLostWakeup, CountSets, CountedAt, Locking
  <2>6. ReadersOut'
    BY <1>7, <1>0, <2>1, ProcsFacts
    DEF rUnlockHandoff, Moved, IInv, TypeOK, WordInv, FlagsInv, ReadersOut,
        CountSets, CountedAt
  <2>7. QED
    BY <2>2, <2>3, <2>4, <2>5, <2>6 DEF IInv
<1>8. ASSUME NEW p \in Procs, lock(p) PROVE IInv'
  <2>1. Moved(p, "drain")
    BY <1>8, <1>0, PcMove DEF lock, PCs, AtRest, RLocking, Locking
  <2>2. writersWaiting = 0 => \A q \in Procs : pc[q] \notin Locking
    BY CountZero DEF IInv, TypeOK, FlagsInv
  <2>3. writersWaiting = 0 /\ ~writerActive => waiters = {}
    BY <2>2 DEF IInv, TypeOK, WaitersInv, NoLostWakeup, Locking
  <2>4. TypeOK'
    BY <1>8, <1>0, <2>1, ProcsFacts
    DEF lock, Moved, IInv, TypeOK, FlagsInv, CountSets, EnrollAt, Locking
  <2>5. WordInv' /\ FlagsInv'
    BY <1>8, <1>0, <2>1, <2>3, ProcsFacts
    DEF lock, Moved, IInv, TypeOK, WordInv, FlagsInv, CountSets, CountedAt,
        EnrollAt, Locking
  <2>6. MuInv' /\ WaitersInv'
    BY <1>8, <1>0, <2>1, ProcsFacts
    DEF lock, Moved, IInv, TypeOK, MuInv, WaitersInv
  <2>7. ParkInv' /\ NoLostWakeup'
    BY <1>8, <1>0, <2>1, <2>3, ProcsFacts
    DEF lock, Moved, IInv, TypeOK, WordInv, FlagsInv, MuInv, WaitersInv, ParkInv,
        NoLostWakeup, CountSets, CountedAt, Locking
  <2>8. ReadersOut'
    BY <1>8, <1>0, <2>1, <2>3, ProcsFacts
    DEF lock, Moved, IInv, TypeOK, WordInv, FlagsInv, ReadersOut, CountSets,
        CountedAt
  <2>9. QED
    BY <2>4, <2>5, <2>6, <2>7, <2>8 DEF IInv
<1>9. ASSUME NEW p \in Procs, lockAcquire(p) PROVE IInv'
  <2>1. Moved(p, "writing")
    BY <1>9, <1>0, PcMove DEF lockAcquire, PCs, AtRest, RLocking, Locking
  <2>2. \A q \in Procs : pc[q] # "reading"
    BY <1>9, Drained DEF lockAcquire
  <2>3. writerActive' \in BOOLEAN
    BY <1>9, Zenon DEF lockAcquire
  <2>4. TypeOK'
    BY <1>9, <1>0, <2>1, <2>3, ProcsFacts
    DEF lockAcquire, Moved, IInv, TypeOK, FlagsInv, CountSets, EnrollAt, Locking
  <2>5. WordInv' /\ FlagsInv'
    BY <1>9, <1>0, <2>1, <2>2, ProcsFacts
    DEF lockAcquire, Moved, IInv, TypeOK, WordInv, FlagsInv, CountSets, CountedAt,
        EnrollAt, Locking
  <2>6. MuInv' /\ WaitersInv'
    BY <1>9, <1>0, <2>1, ProcsFacts
    DEF lockAcquire, Moved, IInv, TypeOK, MuInv, WaitersInv
  <2>7. ParkInv' /\ NoLostWakeup'
    BY <1>9, <1>0, <2>1, <2>2, ProcsFacts
    DEF lockAcquire, Moved, IInv, TypeOK, WordInv, FlagsInv, MuInv, WaitersInv,
        ParkInv, NoLostWakeup, CountSets, CountedAt, Locking
  <2>8. ReadersOut'
    BY <1>9, <1>0, <2>1, <2>2, ProcsFacts
    DEF lockAcquire, Moved, IInv, TypeOK, WordInv, FlagsInv, ReadersOut,
        CountSets, CountedAt
  <2>9. QED
    BY <2>4, <2>5, <2>6, <2>7, <2>8 DEF IInv
<1>10. ASSUME NEW p \in Procs, lockDrainTest(p) PROVE IInv'
  <2>1. Moved(p, "park")
    BY <1>10, <1>0, PcMove DEF lockDrainTest, PCs, AtRest, RLocking, Locking
  <2>2. TypeOK'
    BY <1>10, <1>0, <2>1, ProcsFacts
    DEF lockDrainTest, Moved, IInv, TypeOK, FlagsInv, CountSets, EnrollAt, Locking
  <2>3. WordInv' /\ FlagsInv'
    BY <1>10, <1>0, <2>1, ProcsFacts
    DEF lockDrainTest, Moved, IInv, TypeOK, WordInv, FlagsInv, CountSets,
        CountedAt, EnrollAt, Locking
  <2>4. MuInv' /\ WaitersInv'
    BY <1>10, <1>0, <2>1, ProcsFacts
    DEF lockDrainTest, Moved, IInv, TypeOK, MuInv, WaitersInv
  <2>5. ParkInv' /\ NoLostWakeup'
    BY <1>10, <1>0, <2>1, ProcsFacts
    DEF lockDrainTest, Moved, IInv, TypeOK, WordInv, FlagsInv, MuInv, WaitersInv,
        ParkInv, NoLostWakeup, CountSets, CountedAt, Locking
  <2>6. ReadersOut'
    BY <1>10, <1>0, <2>1, ProcsFacts
    DEF lockDrainTest, Moved, IInv, TypeOK, WordInv, FlagsInv, ReadersOut,
        CountSets, CountedAt
  <2>7. QED
    BY <2>2, <2>3, <2>4, <2>5, <2>6 DEF IInv
<1>11. ASSUME NEW p \in Procs, lockWait(p) PROVE IInv'
  <2>1. Moved(p, "wparked")
    BY <1>11, <1>0, PcMove DEF lockWait, PCs, AtRest, RLocking, Locking
  <2>2. TypeOK'
    BY <1>11, <1>0, <2>1, ProcsFacts
    DEF lockWait, Moved, IInv, TypeOK, FlagsInv, CountSets, EnrollAt, Locking
  <2>3. WordInv' /\ FlagsInv'
    BY <1>11, <1>0, <2>1, ProcsFacts
    DEF lockWait, Moved, IInv, TypeOK, WordInv, FlagsInv, CountSets, CountedAt,
        EnrollAt, Locking
  <2>4. MuInv' /\ WaitersInv'
    BY <1>11, <1>0, <2>1, ProcsFacts
    DEF lockWait, Moved, IInv, TypeOK, MuInv, WaitersInv
  <2>5. ParkInv' /\ NoLostWakeup'
    BY <1>11, <1>0, <2>1, ProcsFacts
    DEF lockWait, Moved, IInv, TypeOK, WordInv, FlagsInv, MuInv, WaitersInv,
        ParkInv, NoLostWakeup, CountSets, CountedAt, Locking
  <2>6. ReadersOut'
    BY <1>11, <1>0, <2>1, ProcsFacts
    DEF lockWait, Moved, IInv, TypeOK, WordInv, FlagsInv, ReadersOut, CountSets,
        CountedAt
  <2>7. QED
    BY <2>2, <2>3, <2>4, <2>5, <2>6 DEF IInv
<1>12. ASSUME NEW p \in Procs, lockWake(p) PROVE IInv'
  <2>1. Moved(p, "drain")
    BY <1>12, <1>0, PcMove DEF lockWake, PCs, AtRest, RLocking, Locking
  <2>2. TypeOK'
    BY <1>12, <1>0, <2>1, ProcsFacts
    DEF lockWake, Moved, IInv, TypeOK, FlagsInv, CountSets, EnrollAt, Locking
  <2>3. WordInv' /\ FlagsInv'
    BY <1>12, <1>0, <2>1, ProcsFacts
    DEF lockWake, Moved, IInv, TypeOK, WordInv, FlagsInv, CountSets, CountedAt,
        EnrollAt, Locking
  <2>4. MuInv' /\ WaitersInv'
    BY <1>12, <1>0, <2>1, ProcsFacts
    DEF lockWake, Moved, IInv, TypeOK, MuInv, WaitersInv
  <2>5. ParkInv' /\ NoLostWakeup'
    BY <1>12, <1>0, <2>1, ProcsFacts
    DEF lockWake, Moved, IInv, TypeOK, WordInv, FlagsInv, MuInv, WaitersInv,
        ParkInv, NoLostWakeup, CountSets, CountedAt, Locking
  <2>6. ReadersOut'
    BY <1>12, <1>0, <2>1, ProcsFacts
    DEF lockWake, Moved, IInv, TypeOK, WordInv, FlagsInv, ReadersOut, CountSets,
        CountedAt
  <2>7. QED
    BY <2>2, <2>3, <2>4, <2>5, <2>6 DEF IInv
<1>13. ASSUME NEW p \in Procs, tryLock(p) PROVE IInv'
  <2>1. Moved(p, "writing")
    BY <1>13, <1>0, PcMove DEF tryLock, PCs, AtRest, RLocking, Locking
  <2>2. Count(pc, CountedAt) = 0 /\ pc \in [Procs -> PCs]
    BY <1>13, <2>1 DEF tryLock, IInv, TypeOK, WordInv, Moved, CountSets
  <2>3. \A q \in Procs : pc[q] # "reading"
    BY <2>2, CountZero DEF CountedAt
  <2>4. writerActive' \in BOOLEAN
    BY <1>13, Zenon DEF tryLock
  <2>5. TypeOK'
    BY <1>13, <1>0, <2>1, <2>4, ProcsFacts
    DEF tryLock, Moved, IInv, TypeOK, FlagsInv, CountSets, EnrollAt, Locking
  <2>6. WordInv' /\ FlagsInv'
    BY <1>13, <1>0, <2>1, <2>3, ProcsFacts
    DEF tryLock, Moved, IInv, TypeOK, WordInv, FlagsInv, CountSets, CountedAt,
        EnrollAt, Locking
  <2>7. MuInv' /\ WaitersInv'
    BY <1>13, <1>0, <2>1, ProcsFacts
    DEF tryLock, Moved, IInv, TypeOK, MuInv, WaitersInv
  <2>8. ParkInv' /\ NoLostWakeup'
    BY <1>13, <1>0, <2>1, <2>3, ProcsFacts
    DEF tryLock, Moved, IInv, TypeOK, WordInv, FlagsInv, MuInv, WaitersInv,
        ParkInv, NoLostWakeup, CountSets, CountedAt, Locking
  <2>9. ReadersOut'
    BY <1>13, <1>0, <2>1, <2>3, ProcsFacts
    DEF tryLock, Moved, IInv, TypeOK, WordInv, FlagsInv, ReadersOut, CountSets,
        CountedAt
  <2>10. QED
    BY <2>5, <2>6, <2>7, <2>8, <2>9 DEF IInv
<1>14. ASSUME NEW p \in Procs, unlock(p) PROVE IInv'
  <2>1. Moved(p, "idle")
    BY <1>14, <1>0, PcMove DEF unlock, PCs, AtRest, RLocking, Locking
  <2>2. writerActive' \in BOOLEAN
    BY <1>14, Zenon DEF unlock
  <2>3. TypeOK'
    BY <1>14, <1>0, <2>1, <2>2, ProcsFacts
    DEF unlock, Moved, IInv, TypeOK, FlagsInv, CountSets, EnrollAt, Locking
  <2>4. WordInv' /\ FlagsInv'
    BY <1>14, <1>0, <2>1, ProcsFacts
    DEF unlock, Moved, IInv, TypeOK, WordInv, FlagsInv, CountSets, CountedAt,
        EnrollAt, Locking
  <2>5. MuInv' /\ WaitersInv'
    BY <1>14, <1>0, <2>1, ProcsFacts
    DEF unlock, Moved, IInv, TypeOK, MuInv, WaitersInv
  <2>6. ParkInv' /\ NoLostWakeup'
    BY <1>14, <1>0, <2>1, ProcsFacts
    DEF unlock, Moved, IInv, TypeOK, WordInv, FlagsInv, MuInv, WaitersInv,
        ParkInv, NoLostWakeup, CountSets, CountedAt, Locking
  <2>7. ReadersOut'
    BY <1>14, <1>0, <2>1, ProcsFacts
    DEF unlock, Moved, IInv, TypeOK, WordInv, FlagsInv, ReadersOut, CountSets,
        CountedAt
  <2>8. QED
    BY <2>3, <2>4, <2>5, <2>6, <2>7 DEF IInv
<1>15. ASSUME UNCHANGED vars PROVE IInv'
  BY <1>15 DEF vars, IInv, TypeOK, WordInv, FlagsInv, MuInv, WaitersInv, ParkInv,
     NoLostWakeup, ReadersOut, Count, Inside
<1>16. QED
  BY <1>1, <1>2, <1>3, <1>4, <1>5, <1>6, <1>7, <1>8, <1>9, <1>10, <1>11, <1>12,
      <1>13, <1>14, <1>15 DEF Next, Reader, Writer

\* The inductive invariant holds throughout.
THEOREM Invariance == Spec => []IInv
<1>1. Init => IInv
  BY InitIInv
<1>2. IInv /\ [Next]_vars => IInv'
  BY NextIInv
<1>3. QED
  BY <1>1, <1>2, PTL DEF Spec

\* Type correctness: in particular both counters guarded by mu never go below zero.
THEOREM TypeCorrectness == Spec => []TypeOK
<1>1. IInv => TypeOK
  BY DEF IInv
<1>2. QED
  BY <1>1, Invariance, PTL

\* Mutual exclusion: no borrow runs beside an unmap, a reprotection or a wipe,
\* whatever the number of goroutines and the interleaving of their fast paths.
THEOREM Exclusion == Spec => []MutualExclusion
<1>1. IInv => MutualExclusion
  BY DEF IInv, FlagsInv, ReadersOut, MutualExclusion, At
<1>2. QED
  BY <1>1, Invariance, PTL

\* No wakeup is missed, which the header of buflock.go argues informally.
THEOREM Wakeup == Spec => []NoLostWakeup
<1>1. IInv => NoLostWakeup
  BY DEF IInv
<1>2. QED
  BY <1>1, Invariance, PTL

\* bufferRWLock implements RWLock: callers may reason with the abstract lock.
\* BeginRead needs that no writer is in play, which rLock only infers from the
\* sign of the word; BeginWrite that nobody reads, which lock infers from its
\* value.
THEOREM Refinement == Spec => ImplementsRWLock
<1> USE DEF At, WriterInPlay, MuFree, Goto
<1>1. Init => Abstract!Init
  BY DEF Init, Abstract!Init, Locking
<1>2. IInv /\ [Next]_vars => [Abstract!Next]_(Abstract!vars)
  <2> SUFFICES ASSUME IInv, [Next]_vars PROVE [Abstract!Next]_(Abstract!vars)
    OBVIOUS
  <2> USE DEF Abstract!vars, Locking
  <2>0. pc \in [Procs -> PCs]
    BY DEF IInv, TypeOK
  <2>q. /\ writersWaiting = 0 => \A q \in Procs : pc[q] \notin Locking
        /\ ~writerActive => \A q \in Procs : pc[q] # "writing"
    BY <2>0, CountZero DEF IInv, FlagsInv
  <2>1. ASSUME NEW p \in Procs, rLock(p) PROVE Abstract!Next \/ UNCHANGED Abstract!vars
    <3>1. CASE readers + 1 > 0
      <4>1. ~WriterInPlay
        <5>1. Moved(p, "reading") /\ TypeOK
          BY <2>1, <3>1, PcMove DEF IInv, rLock, PCs, AtRest
        <5>2. QED
          BY <2>1, <3>1, <5>1, ProcsFacts
          DEF IInv, TypeOK, WordInv, Moved, CountSets, CountedAt, rLock
      <4>2. Abstract!BeginRead(p)
        BY <2>0, <2>q, <2>1, <3>1, <4>1
        DEF rLock, Abstract!BeginRead, Abstract!NoWriter, IInv, TypeOK
      <4>3. QED
        BY <4>2 DEF Abstract!Next
    <3>2. CASE ~(readers + 1 > 0)
      BY <2>0, <2>1, <3>2 DEF rLock
    <3>3. QED
      BY <3>1, <3>2
  <2>2. ASSUME NEW p \in Procs, rLockEnroll(p) PROVE Abstract!Next
    <3>1. Abstract!BeginRead(p)
      BY <2>0, <2>q, <2>2 DEF rLockEnroll, Abstract!BeginRead, Abstract!NoWriter,
          IInv, TypeOK
    <3>2. QED
      BY <3>1 DEF Abstract!Next
  <2>3. ASSUME NEW p \in Procs, rUnlock(p) PROVE Abstract!Next
    <3>1. Abstract!EndRead(p)
      BY <2>0, <2>3 DEF rUnlock, Abstract!EndRead
    <3>2. QED
      BY <3>1 DEF Abstract!Next
  <2>4. ASSUME NEW p \in Procs, lock(p) PROVE Abstract!Next
    <3>1. Abstract!AnnounceWrite(p)
      BY <2>0, <2>4 DEF lock, Abstract!AnnounceWrite
    <3>2. QED
      BY <3>1 DEF Abstract!Next
  <2>5. ASSUME NEW p \in Procs, lockAcquire(p) PROVE Abstract!Next
    <3>1. \A q \in Procs : pc[q] # "reading"
      BY <2>5, Drained DEF lockAcquire
    <3>2. Abstract!BeginWrite(p)
      BY <2>0, <2>q, <2>5, <3>1 DEF lockAcquire, Abstract!BeginWrite
    <3>3. QED
      BY <3>2 DEF Abstract!Next
  <2>6. ASSUME NEW p \in Procs, tryLock(p) PROVE Abstract!Next
    <3>1. Moved(p, "writing") /\ TypeOK
      BY <2>6, PcMove DEF IInv, tryLock, PCs, AtRest
    <3>2. Count(pc, CountedAt) = 0
      BY <2>6, <3>1 DEF tryLock, IInv, WordInv, Moved, CountSets
    <3>3. \A q \in Procs : pc[q] # "reading"
      BY <2>0, <3>2, CountZero DEF CountedAt
    <3>4. Abstract!TryWrite(p)
      BY <2>0, <2>q, <2>6, <3>3
      DEF tryLock, Abstract!TryWrite, Abstract!NoWriter, IInv, TypeOK
    <3>5. QED
      BY <3>4 DEF Abstract!Next
  <2>7. ASSUME NEW p \in Procs, unlock(p) PROVE Abstract!Next
    <3>1. Abstract!EndWrite(p)
      BY <2>0, <2>7 DEF unlock, Abstract!EndWrite
    <3>2. QED
      BY <3>1 DEF Abstract!Next
  <2>8. ASSUME NEW p \in Procs,
               \/ rLockSlow(p) \/ rLockWait(p) \/ rLockWake(p) \/ rUnlockHandoff(p)
               \/ lockDrainTest(p) \/ lockWait(p) \/ lockWake(p)
        PROVE  UNCHANGED Abstract!vars
    BY <2>0, <2>8 DEF rLockSlow, rLockWait, rLockWake, rUnlockHandoff,
        lockDrainTest,
       lockWait, lockWake
  <2>9. ASSUME UNCHANGED vars PROVE UNCHANGED Abstract!vars
    BY <2>9 DEF vars
  <2>10. QED
    BY <2>1, <2>2, <2>3, <2>4, <2>5, <2>6, <2>7, <2>8, <2>9 DEF Next, Reader, Writer
<1>3. QED
  BY <1>1, <1>2, Invariance, PTL DEF Spec, ImplementsRWLock, Abstract!Spec

-----------------------------------------------------------------------------
(* KeyOps: what calls on shared keys wait for. *)

OpsSpec == OpsInit /\ [][OpsNext]_opsVars

\* The buffers a call has yet to borrow are in LockOrder.
Orders ==
  {<<>>} \cup {<<a>> : a \in Buffers} \cup {o \in Buffers \X Buffers : o[1] < o[2]}

CallRecords ==
  [op : {"idle", "borrow", "take", "derive", "drain", "destroyAll"},
   todo : Orders, ws : SUBSET Workspaces, taken : SUBSET PoolSpaces]

OpsTypeOK ==
  /\ call \in [Callers -> CallRecords]
  /\ borrowers \in [Buffers -> SUBSET Callers]
  /\ gone \subseteq Buffers /\ waiting \subseteq Buffers /\ locked \subseteq Workspaces
  /\ free \subseteq PoolSpaces /\ pool \in {"open", "done", "closed"}

\* What a call carries at each of its steps; one call at most destroys the pool.
CallInv ==
  \A p \in Callers :
    /\ call[p].op = "idle" => call[p] = Idle
    /\ call[p].op \in {"take", "destroyAll"} => call[p].taken = {}
    /\ call[p].op \in {"take", "derive"} => \E b \in Keys : call[p].todo = <<b>>
    /\ call[p].op = "derive" => \E w \in Workspaces : call[p].ws = {w}
    /\ call[p].op = "drain" => pool = "done" /\ \A q \in Callers : call[q].op = "drain" => q = p

\* Only a call that goes on borrowing holds borrows, below all those to come.
HoldInv ==
  \A b \in Buffers : \A p \in borrowers[b] :
    /\ call[p].op = "borrow"
    /\ \A i \in DOMAIN call[p].todo : b < call[p].todo[i]

\* A locked mutex belongs to a Destroy or to a derivation under way, and a
\* workspace that the pool misses to a call.
OwnerInv ==
  /\ \A w \in locked : w \in waiting \/ \E p \in Callers : call[p].op = "borrow" /\ w \in call[p].ws
  /\ pool # "closed" => \A w \in PoolSpaces : w \in free \/ \E p \in Callers : w \in call[p].taken

\* A workspace of the pool is in one place, and none is out once the channel is closed.
LeaseInv ==
  /\ \A p \in Callers : free \cap call[p].taken = {}
  /\ \A p, q \in Callers : p # q => call[p].taken \cap call[q].taken = {}
  /\ pool = "closed" =>
       free = {} /\ \A p \in Callers : call[p].taken = {}

OpsInv == OpsTypeOK /\ CallInv /\ HoldInv /\ OwnerInv /\ LeaseInv

\* What the assumption says of the buffers.
LEMMA Ordinals ==
  /\ MaxOrder \in Nat /\ \A b \in Buffers : b \in Nat /\ b <= MaxOrder
  /\ Keys \subseteq Buffers /\ Workspaces \subseteq Buffers /\ PoolSpaces \subseteq Workspaces
  /\ PoolSpaces # {} /\ Keys \cap Workspaces = {}
BY OpsAssumption DEF Buffers

\* The first buffer of an order comes before all the others.
LEMMA OrderFacts ==
  ASSUME NEW o \in Orders, o # <<>>
  PROVE  /\ Head(o) \in Buffers /\ Tail(o) \in Orders
         /\ 1 \in DOMAIN o /\ Head(o) = o[1]
         /\ \A i \in DOMAIN Tail(o) : Head(o) < Tail(o)[i] /\ \E j \in DOMAIN o : Tail(o)[i] = o[j]
<1>1. CASE \E a \in Buffers : o = <<a>>
  <2>1. PICK a \in Buffers : o = <<a>>
    BY <1>1
  <2>2. Head(o) = a /\ Tail(o) = <<>> /\ DOMAIN o = 1 .. 1 /\ o[1] = a /\ DOMAIN Tail(o) = {}
    BY <2>1
  <2>3. QED
    BY <2>1, <2>2 DEF Orders
<1>2. CASE \E a, b \in Buffers : a < b /\ o = <<a, b>>
  <2>1. PICK a \in Buffers, b \in Buffers : a < b /\ o = <<a, b>>
    BY <1>2
  <2>2. Head(o) = a /\ Tail(o) = <<b>> /\ DOMAIN o = 1 .. 2 /\ o[1] = a /\ o[2] = b
    BY <2>1
  <2>3. DOMAIN Tail(o) = 1 .. 1 /\ Tail(o)[1] = b
    BY <2>2
  <2>4. QED
    BY <2>1, <2>2, <2>3 DEF Orders
<1>3. QED
  <2>1. ASSUME o \in Buffers \X Buffers, o[1] < o[2]
        PROVE  \E a, b \in Buffers : a < b /\ o = <<a, b>>
    BY <2>1
  <2>2. QED
    BY <1>1, <1>2, <2>1 DEF Orders

\* borrowOrdered puts two different buffers in order.
LEMMA OrderedPair ==
  ASSUME NEW a \in Buffers, NEW b \in Buffers, a # b
  PROVE  borrowOrdered(a, b) \in Orders
<1>1. a \in Nat /\ b \in Nat
  BY Ordinals
<1>2. CASE a < b
  BY <1>2 DEF borrowOrdered, Orders
<1>3. CASE ~(a < b)
  <2>1. b < a
    BY <1>1, <1>3
  <2>2. QED
    BY <1>3, <2>1 DEF borrowOrdered, Orders
<1>4. QED
  BY <1>2, <1>3

\* One call goes on and the others stay where they are.
LEMMA OneMoves ==
  ASSUME OpsInv, NEW p \in Callers, NEW d \in CallRecords, call' = [call EXCEPT ![p] = d]
  PROVE  /\ call' \in [Callers -> CallRecords] /\ call'[p] = d
         /\ \A q \in Callers : q # p => call'[q] = call[q]
BY DEF OpsInv, OpsTypeOK

\* A caller that is not in a call.
LEMMA IdleFacts ==
  /\ Idle \in CallRecords
  /\ Idle.op = "idle" /\ Idle.todo = <<>> /\ Idle.ws = {} /\ Idle.taken = {}
BY DEF Idle, CallRecords, Orders

\* Nobody has called yet.
LEMMA InitOps == OpsInit => OpsInv
<1> SUFFICES ASSUME OpsInit PROVE OpsInv
  OBVIOUS
<1>1. OpsTypeOK
  BY IdleFacts, Ordinals DEF OpsInit, OpsTypeOK
<1>2. CallInv
  BY IdleFacts DEF OpsInit, CallInv
<1>3. HoldInv
  BY DEF OpsInit, HoldInv
<1>4. OwnerInv
  BY DEF OpsInit, OwnerInv
<1>5. LeaseInv
  BY IdleFacts DEF OpsInit, LeaseInv
<1>6. QED
  BY <1>1, <1>2, <1>3, <1>4, <1>5 DEF OpsInv

\* A call begins.
LEMMA StartStep ==
  ASSUME OpsInv, NEW p \in Callers, NEW d \in CallRecords, Start(p, d),
         d.op \in {"borrow", "take", "derive", "destroyAll"}, d.taken = {},
         d.op \in {"take", "derive"} => \E b \in Keys : d.todo = <<b>>,
         d.op = "derive" => \E w \in Workspaces : d.ws = {w}
  PROVE  OpsInv'
<1>1. call' \in [Callers -> CallRecords] /\ call'[p] = d /\ \A q \in Callers : q # p => call'[q] = call[q]
  BY OneMoves DEF Start
<1>2. /\ call[p].op = "idle" /\ call[p].taken = {}
      /\ UNCHANGED <<borrowers, gone, waiting, locked, free, pool>>
  BY IdleFacts DEF Start
<1>3. OpsTypeOK'
  BY <1>1, <1>2 DEF OpsInv, OpsTypeOK
<1>4. CallInv'
  BY <1>1, <1>2 DEF OpsInv, CallInv
<1>5. HoldInv'
  BY <1>1, <1>2 DEF OpsInv, HoldInv, OpsTypeOK
<1>6. OwnerInv'
  BY <1>1, <1>2 DEF OpsInv, OwnerInv
<1>7. LeaseInv'
  BY <1>1, <1>2 DEF OpsInv, LeaseInv
<1>8. QED
  BY <1>3, <1>4, <1>5, <1>6, <1>7 DEF OpsInv

\* The entry points.
LEMMA EnterStep ==
  ASSUME OpsInv, NEW p \in Callers, Enter(p)
  PROVE  OpsInv'
<1>1. ASSUME NEW b \in Keys, BorrowOne(p, b) PROVE OpsInv'
  <2> DEFINE d == [Idle EXCEPT !.op = "borrow", !.todo = <<b>>]
  <2>1. d \in CallRecords /\ d.op = "borrow" /\ d.taken = {}
    BY IdleFacts, Ordinals DEF Idle, CallRecords, Orders
  <2>2. Start(p, d)
    BY <1>1 DEF BorrowOne
  <2> HIDE DEF d
  <2>3. QED
    BY <2>1, <2>2, StartStep
<1>2. ASSUME NEW b \in Keys, PoolDerive(p, b) PROVE OpsInv'
  <2> DEFINE d == [Idle EXCEPT !.op = "take", !.todo = <<b>>]
  <2>1. d \in CallRecords /\ d.op = "take" /\ d.taken = {} /\ d.todo = <<b>>
    BY IdleFacts, Ordinals DEF Idle, CallRecords, Orders
  <2>2. Start(p, d)
    BY <1>2 DEF PoolDerive
  <2> HIDE DEF d
  <2>3. QED
    BY <2>1, <2>2, StartStep
<1>3. ASSUME NEW a \in Keys, NEW b \in Keys, ConstantTimeEqual(p, a, b) PROVE OpsInv'
  <2> DEFINE d == [Idle EXCEPT !.op = "borrow", !.todo = borrowOrdered(a, b)]
  <2>1. borrowOrdered(a, b) \in Orders
    BY <1>3, OrderedPair, Ordinals DEF ConstantTimeEqual
  <2>2. d \in CallRecords /\ d.op = "borrow" /\ d.taken = {}
    BY <2>1 DEF Idle, CallRecords
  <2>3. Start(p, d)
    BY <1>3 DEF ConstantTimeEqual
  <2> HIDE DEF d
  <2>4. QED
    BY <2>2, <2>3, StartStep
<1>4. ASSUME NEW w \in Workspaces, NEW b \in Keys, Derive(p, w, b) PROVE OpsInv'
  <2> DEFINE d == [Idle EXCEPT !.op = "derive", !.ws = {w}, !.todo = <<b>>]
  <2>1. d \in CallRecords /\ d.op = "derive" /\ d.taken = {} /\ d.todo = <<b>> /\ d.ws = {w}
    BY IdleFacts, Ordinals DEF Idle, CallRecords, Orders
  <2>2. Start(p, d)
    BY <1>4 DEF Derive
  <2> HIDE DEF d
  <2>3. QED
    BY <2>1, <2>2, StartStep
<1>5. ASSUME PoolDestroy(p) PROVE OpsInv'
  <2> DEFINE d == [call[p] EXCEPT !.op = "drain"]
  <2>1. call[p] = Idle /\ call' = [call EXCEPT ![p] = d] /\ pool = "open" /\ pool' = "done"
        /\ UNCHANGED <<borrowers, gone, waiting, locked, free>>
    BY <1>5 DEF PoolDestroy
  <2>2. d \in CallRecords /\ d.op = "drain" /\ d.taken = {} /\ call[p].op = "idle" /\ call[p].taken = {}
    BY <2>1, IdleFacts DEF Idle, CallRecords
  <2> HIDE DEF d
  <2>3. call' \in [Callers -> CallRecords] /\ call'[p] = d /\ \A q \in Callers : q # p => call'[q] = call[q]
    BY <2>1, <2>2, OneMoves
  <2>4. OpsTypeOK'
    BY <2>1, <2>3 DEF OpsInv, OpsTypeOK
  <2>5. CallInv'
    BY <2>1, <2>2, <2>3 DEF OpsInv, CallInv
  <2>6. HoldInv'
    BY <2>1, <2>2, <2>3 DEF OpsInv, HoldInv, OpsTypeOK
  <2>7. OwnerInv'
    BY <2>1, <2>2, <2>3 DEF OpsInv, OwnerInv
  <2>8. LeaseInv'
    BY <2>1, <2>2, <2>3 DEF OpsInv, LeaseInv
  <2>9. QED
    BY <2>4, <2>5, <2>6, <2>7, <2>8 DEF OpsInv
<1>6. ASSUME NEW w \in Workspaces, WorkspaceDestroy(p, w) PROVE OpsInv'
  <2> DEFINE d == [Idle EXCEPT !.op = "destroyAll", !.ws = {w}]
  <2>1. d \in CallRecords /\ d.op = "destroyAll" /\ d.taken = {}
    BY IdleFacts DEF Idle, CallRecords
  <2>2. Start(p, d)
    BY <1>6 DEF WorkspaceDestroy
  <2> HIDE DEF d
  <2>3. QED
    BY <2>1, <2>2, StartStep
<1>7. QED
  BY <1>1, <1>2, <1>3, <1>4, <1>5, <1>6 DEF Enter

\* A workspace comes out of the pool's channel, or the channel is closed.
LEMMA TakeStep ==
  ASSUME OpsInv, NEW p \in Callers, PoolTake(p)
  PROVE  OpsInv'
<1>0. call[p] \in CallRecords /\ call[p].op = "take" /\ call[p].taken = {}
      /\ UNCHANGED <<borrowers, gone, waiting, locked, pool>>
  BY DEF PoolTake, OpsInv, OpsTypeOK, CallInv
<1>1. CASE \E w \in free :
             /\ free' = free \ {w}
             /\ call' = [call EXCEPT ![p] = [call[p] EXCEPT !.op = "derive", !.ws = {w}, !.taken = {w}]]
  <2>1. PICK w \in free :
          /\ free' = free \ {w}
          /\ call' = [call EXCEPT ![p] = [call[p] EXCEPT !.op = "derive", !.ws = {w}, !.taken = {w}]]
    BY <1>1
  <2> DEFINE d == [call[p] EXCEPT !.op = "derive", !.ws = {w}, !.taken = {w}]
  <2>2. w \in PoolSpaces /\ w \in Workspaces
    BY Ordinals DEF OpsInv, OpsTypeOK
  <2>3. d \in CallRecords /\ d.op = "derive" /\ d.ws = {w} /\ d.taken = {w} /\ d.todo = call[p].todo
    BY <1>0, <2>2 DEF CallRecords
  <2>4. call' = [call EXCEPT ![p] = d]
    BY <2>1
  <2> HIDE DEF d
  <2>5. call' \in [Callers -> CallRecords] /\ call'[p] = d /\ \A q \in Callers : q # p => call'[q] = call[q]
    BY <2>3, <2>4, OneMoves
  <2>6. OpsTypeOK'
    BY <1>0, <2>1, <2>5 DEF OpsInv, OpsTypeOK
  <2>7. CallInv'
    BY <1>0, <2>2, <2>3, <2>5 DEF OpsInv, CallInv
  <2>8. HoldInv'
    BY <1>0, <2>3, <2>5 DEF OpsInv, HoldInv, OpsTypeOK
  <2>9. OwnerInv'
    BY <1>0, <2>1, <2>2, <2>3, <2>5 DEF OpsInv, OwnerInv
  <2>10. LeaseInv'
    BY <1>0, <2>1, <2>2, <2>3, <2>5 DEF OpsInv, LeaseInv
  <2>11. QED
    BY <2>6, <2>7, <2>8, <2>9, <2>10 DEF OpsInv
<1>2. CASE pool = "closed" /\ call' = [call EXCEPT ![p] = Idle] /\ UNCHANGED free
  <2>1. call' \in [Callers -> CallRecords] /\ call'[p] = Idle /\ \A q \in Callers : q # p => call'[q] = call[q]
    BY <1>2, IdleFacts, OneMoves
  <2>2. OpsTypeOK'
    BY <1>0, <1>2, <2>1 DEF OpsInv, OpsTypeOK
  <2>3. CallInv'
    BY <1>0, <2>1, IdleFacts DEF OpsInv, CallInv
  <2>4. HoldInv'
    BY <1>0, <2>1 DEF OpsInv, HoldInv, OpsTypeOK
  <2>5. OwnerInv'
    BY <1>0, <1>2, <2>1 DEF OpsInv, OwnerInv
  <2>6. LeaseInv'
    BY <1>0, <1>2, <2>1, IdleFacts DEF OpsInv, LeaseInv
  <2>7. QED
    BY <2>2, <2>3, <2>4, <2>5, <2>6 DEF OpsInv
<1>3. QED
  BY <1>1, <1>2 DEF PoolTake

\* A derivation locks its workspace; workspace and output are two buffers.
LEMMA LockStep ==
  ASSUME OpsInv, NEW p \in Callers, DeriveLocked(p)
  PROVE  OpsInv'
<1>1. PICK b \in Keys, w \in Workspaces :
        /\ call[p] \in CallRecords /\ call[p].op = "derive" /\ call[p].todo = <<b>> /\ call[p].ws = {w}
        /\ call' = [call EXCEPT ![p] = [call[p] EXCEPT !.op = "borrow", !.todo = borrowOrdered(w, Head(call[p].todo))]]
  <2>1. call[p] \in CallRecords /\ call[p].op = "derive"
    BY DEF DeriveLocked, OpsInv, OpsTypeOK
  <2>2. PICK b \in Keys : call[p].todo = <<b>>
    BY <2>1 DEF OpsInv, CallInv
  <2>3. PICK v \in Workspaces : call[p].ws = {v}
    BY <2>1 DEF OpsInv, CallInv
  <2>4. PICK w \in call[p].ws :
          call' = [call EXCEPT ![p] = [call[p] EXCEPT !.op = "borrow", !.todo = borrowOrdered(w, Head(call[p].todo))]]
    BY DEF DeriveLocked
  <2>5. QED
    BY <2>1, <2>2, <2>3, <2>4
<1> DEFINE d == [call[p] EXCEPT !.op = "borrow", !.todo = borrowOrdered(w, Head(call[p].todo))]
<1>2. /\ locked' = locked \cup {w}
      /\ UNCHANGED <<borrowers, gone, waiting, free, pool>>
  BY <1>1 DEF DeriveLocked
<1>3. borrowOrdered(w, Head(call[p].todo)) \in Orders
  <2>1. Head(call[p].todo) = b /\ b # w
    BY <1>1, Ordinals
  <2>2. QED
    BY <2>1, OrderedPair, Ordinals
<1>4. d \in CallRecords /\ d.op = "borrow" /\ d.ws = {w} /\ d.taken = call[p].taken
  BY <1>1, <1>3 DEF CallRecords
<1>5. call' = [call EXCEPT ![p] = d]
  BY <1>1
<1> HIDE DEF d
<1>6. call' \in [Callers -> CallRecords] /\ call'[p] = d /\ \A q \in Callers : q # p => call'[q] = call[q]
  BY <1>4, <1>5, OneMoves
<1>7. OpsTypeOK'
  BY <1>2, <1>6 DEF OpsInv, OpsTypeOK
<1>8. CallInv'
  BY <1>2, <1>4, <1>6 DEF OpsInv, CallInv
<1>9. HoldInv'
  BY <1>1, <1>2, <1>6 DEF OpsInv, HoldInv, OpsTypeOK
<1>10. OwnerInv'
  BY <1>1, <1>2, <1>4, <1>6 DEF OpsInv, OwnerInv
<1>11. LeaseInv'
  BY <1>1, <1>2, <1>4, <1>6 DEF OpsInv, LeaseInv
<1>12. QED
  BY <1>7, <1>8, <1>9, <1>10, <1>11 DEF OpsInv

\* A call returns: its borrows end, its mutex is unlocked, its workspace is free.
LEMMA ReturnOps ==
  ASSUME OpsInv, NEW p \in Callers, call[p].op = "borrow", Return(p)
  PROVE  OpsInv'
<1>1. call' \in [Callers -> CallRecords] /\ call'[p] = Idle /\ \A q \in Callers : q # p => call'[q] = call[q]
  BY IdleFacts, OneMoves DEF Return
<1>2. /\ borrowers' = [b \in Buffers |-> borrowers[b] \ {p}]
      /\ locked' = locked \ call[p].ws /\ free' = free \cup call[p].taken
      /\ UNCHANGED <<gone, waiting, pool>>
  BY DEF Return
<1>3. call[p] \in CallRecords
  BY DEF OpsInv, OpsTypeOK
<1>4. OpsTypeOK'
  BY <1>1, <1>2, <1>3 DEF OpsInv, OpsTypeOK, CallRecords
<1>5. CallInv'
  BY <1>1, <1>2, IdleFacts DEF OpsInv, CallInv
<1>6. HoldInv'
  BY <1>1, <1>2 DEF OpsInv, HoldInv, OpsTypeOK
<1>7. OwnerInv'
  BY <1>1, <1>2 DEF OpsInv, OwnerInv
<1>8. LeaseInv'
  BY <1>1, <1>2, IdleFacts DEF OpsInv, LeaseInv
<1>9. QED
  BY <1>4, <1>5, <1>6, <1>7, <1>8 DEF OpsInv

\* The next buffer is borrowed.
LEMMA BorrowStep ==
  ASSUME OpsInv, NEW p \in Callers, Borrow(p)
  PROVE  OpsInv'
<1> DEFINE o == call[p].todo
           d == [call[p] EXCEPT !.todo = Tail(call[p].todo)]
<1>0. call[p] \in CallRecords /\ call[p].op = "borrow" /\ o \in Orders
  BY DEF Borrow, OpsInv, OpsTypeOK, CallRecords
<1>1. CASE o = <<>> \/ Head(o) \in gone
  BY <1>0, <1>1, ReturnOps DEF Borrow
<1>2. CASE o # <<>> /\ Head(o) \notin gone
  <2>1. /\ Head(o) \in Buffers /\ Tail(o) \in Orders
        /\ \A i \in DOMAIN Tail(o) : Head(o) < Tail(o)[i] /\ \E j \in DOMAIN o : Tail(o)[i] = o[j]
    BY <1>0, <1>2, OrderFacts
  <2>2. /\ borrowers' = [borrowers EXCEPT ![Head(o)] = @ \cup {p}]
        /\ call' = [call EXCEPT ![p] = d]
        /\ UNCHANGED <<gone, waiting, locked, free, pool>>
    BY <1>2 DEF Borrow
  <2>3. d \in CallRecords /\ d.op = "borrow" /\ d.todo = Tail(o) /\ d.ws = call[p].ws /\ d.taken = call[p].taken
    BY <1>0, <2>1 DEF CallRecords
  <2> HIDE DEF d
  <2>4. call' \in [Callers -> CallRecords] /\ call'[p] = d /\ \A q \in Callers : q # p => call'[q] = call[q]
    BY <2>2, <2>3, OneMoves
  <2>5. OpsTypeOK'
    BY <2>1, <2>2, <2>4 DEF OpsInv, OpsTypeOK
  <2>6. CallInv'
    BY <1>0, <2>2, <2>3, <2>4 DEF OpsInv, CallInv
  <2>7. HoldInv'
    <3> SUFFICES ASSUME NEW b \in Buffers, NEW q \in borrowers'[b]
                 PROVE  call'[q].op = "borrow" /\ \A i \in DOMAIN call'[q].todo : b < call'[q].todo[i]
      BY DEF HoldInv
    <3>1. q \in Callers /\ (q \in borrowers[b] \/ (q = p /\ b = Head(o)))
      BY <2>2 DEF OpsInv, OpsTypeOK
    <3>2. CASE q # p
      BY <2>4, <3>1, <3>2 DEF OpsInv, HoldInv
    <3>3. CASE q = p
      <4>1. call'[q].op = "borrow" /\ call'[q].todo = Tail(o)
        BY <2>3, <2>4, <3>3
      <4>2. CASE b = Head(o)
        BY <2>1, <4>1, <4>2
      <4>3. CASE q \in borrowers[b]
        <5>1. \A j \in DOMAIN o : b < o[j]
          BY <3>3, <4>3 DEF OpsInv, HoldInv
        <5>2. QED
          BY <2>1, <4>1, <5>1
      <4>4. QED
        BY <3>1, <4>2, <4>3
    <3>4. QED
      BY <3>2, <3>3
  <2>8. OwnerInv'
    BY <1>0, <2>2, <2>3, <2>4 DEF OpsInv, OwnerInv
  <2>9. LeaseInv'
    BY <1>0, <2>2, <2>3, <2>4 DEF OpsInv, LeaseInv
  <2>10. QED
    BY <2>5, <2>6, <2>7, <2>8, <2>9 DEF OpsInv
<1>3. QED
  BY <1>1, <1>2

\* The pool is emptied, its channel closed.
LEMMA DrainStep ==
  ASSUME OpsInv, NEW p \in Callers, PoolDrain(p)
  PROVE  OpsInv'
<1>0. call[p] \in CallRecords /\ call[p].op = "drain" /\ UNCHANGED <<borrowers, gone, waiting, locked>>
  BY DEF PoolDrain, OpsInv, OpsTypeOK
<1>1. CASE \E w \in free : /\ free' = free \ {w}
                           /\ call' = [call EXCEPT ![p] = [call[p] EXCEPT !.taken = call[p].taken \cup {w}]]
                           /\ UNCHANGED pool
  <2>1. PICK w \in free : /\ free' = free \ {w}
                          /\ call' = [call EXCEPT ![p] = [call[p] EXCEPT !.taken = call[p].taken \cup {w}]]
                          /\ UNCHANGED pool
    BY <1>1
  <2> DEFINE d == [call[p] EXCEPT !.taken = call[p].taken \cup {w}]
  <2>2. w \in PoolSpaces
    BY DEF OpsInv, OpsTypeOK
  <2>3. d \in CallRecords /\ d.op = "drain" /\ d.taken = call[p].taken \cup {w}
    BY <1>0, <2>2 DEF CallRecords
  <2>4. call' = [call EXCEPT ![p] = d]
    BY <2>1
  <2> HIDE DEF d
  <2>5. call' \in [Callers -> CallRecords] /\ call'[p] = d /\ \A q \in Callers : q # p => call'[q] = call[q]
    BY <2>3, <2>4, OneMoves
  <2>6. OpsTypeOK'
    BY <1>0, <2>1, <2>5 DEF OpsInv, OpsTypeOK
  <2>7. CallInv'
    BY <1>0, <2>1, <2>3, <2>5 DEF OpsInv, CallInv
  <2>8. HoldInv'
    BY <1>0, <2>5 DEF OpsInv, HoldInv, OpsTypeOK
  <2>9. OwnerInv'
    BY <1>0, <2>1, <2>3, <2>5 DEF OpsInv, OwnerInv
  <2>10. LeaseInv'
    BY <1>0, <2>1, <2>3, <2>5 DEF OpsInv, LeaseInv
  <2>11. QED
    BY <2>6, <2>7, <2>8, <2>9, <2>10 DEF OpsInv
<1>2. CASE /\ call[p].taken = PoolSpaces /\ pool' = "closed"
           /\ call' = [call EXCEPT ![p] = [Idle EXCEPT !.op = "destroyAll", !.ws = PoolSpaces]]
           /\ UNCHANGED free
  <2> DEFINE d == [Idle EXCEPT !.op = "destroyAll", !.ws = PoolSpaces]
  <2>1. d \in CallRecords /\ d.op = "destroyAll" /\ d.taken = {}
    BY IdleFacts, Ordinals DEF Idle, CallRecords
  <2>2. call' = [call EXCEPT ![p] = d]
    BY <1>2
  <2> HIDE DEF d
  <2>3. call' \in [Callers -> CallRecords] /\ call'[p] = d /\ \A q \in Callers : q # p => call'[q] = call[q]
    BY <2>1, <2>2, OneMoves
  <2>4. OpsTypeOK'
    BY <1>0, <1>2, <2>3 DEF OpsInv, OpsTypeOK
  <2>5. CallInv'
    BY <1>0, <1>2, <2>1, <2>3, ZenonT(40) DEF OpsInv, CallInv
  <2>6. HoldInv'
    BY <1>0, <2>3 DEF OpsInv, HoldInv, OpsTypeOK
  <2>7. OwnerInv'
    BY <1>0, <1>2, <2>3 DEF OpsInv, OwnerInv
  <2>8. LeaseInv'
    BY <1>0, <1>2, <2>1, <2>3, ZenonT(40) DEF OpsInv, LeaseInv, CallRecords, OpsTypeOK
  <2>9. QED
    BY <2>4, <2>5, <2>6, <2>7, <2>8 DEF OpsInv
<1>3. QED
  BY <1>1, <1>2 DEF PoolDrain

\* Workspaces are destroyed, and the call returns.
LEMMA DestroyAllStep ==
  ASSUME OpsInv, NEW p \in Callers, DestroyAll(p)
  PROVE  OpsInv'
<1>0. /\ call[p] \in CallRecords /\ call[p].op = "destroyAll" /\ call[p].taken = {}
      /\ UNCHANGED <<borrowers, gone, free, pool>>
  BY DEF DestroyAll, OpsInv, OpsTypeOK, CallInv
<1>1. CASE call' = [call EXCEPT ![p] = Idle] /\ UNCHANGED <<waiting, locked>>
  <2>1. call' \in [Callers -> CallRecords] /\ call'[p] = Idle /\ \A q \in Callers : q # p => call'[q] = call[q]
    BY <1>1, IdleFacts, OneMoves
  <2>2. OpsTypeOK'
    BY <1>0, <1>1, <2>1 DEF OpsInv, OpsTypeOK
  <2>3. CallInv'
    BY <1>0, <2>1, IdleFacts DEF OpsInv, CallInv
  <2>4. HoldInv'
    BY <1>0, <2>1 DEF OpsInv, HoldInv, OpsTypeOK
  <2>5. OwnerInv'
    BY <1>0, <1>1, <2>1 DEF OpsInv, OwnerInv
  <2>6. LeaseInv'
    BY <1>0, <1>1, <2>1, IdleFacts DEF OpsInv, LeaseInv
  <2>7. QED
    BY <2>2, <2>3, <2>4, <2>5, <2>6 DEF OpsInv
<1>2. CASE UNCHANGED call /\ \E w \in call[p].ws : waiting' = waiting \cup {w} /\ locked' = locked \cup {w}
  <2>1. PICK w \in call[p].ws : waiting' = waiting \cup {w} /\ locked' = locked \cup {w}
    BY <1>2
  <2>2. w \in Workspaces /\ w \in Buffers
    BY <1>0, Ordinals DEF CallRecords
  <2>3. OpsTypeOK'
    BY <1>0, <1>2, <2>1, <2>2 DEF OpsInv, OpsTypeOK
  <2>4. CallInv' /\ HoldInv'
    BY <1>0, <1>2 DEF OpsInv, CallInv, HoldInv
  <2>5. OwnerInv'
    BY <1>0, <1>2, <2>1 DEF OpsInv, OwnerInv
  <2>6. LeaseInv'
    BY <1>0, <1>2, <2>1 DEF OpsInv, LeaseInv
  <2>7. QED
    BY <2>3, <2>4, <2>5, <2>6 DEF OpsInv
<1>3. QED
  BY <1>1, <1>2 DEF DestroyAll

\* A Destroy asks for its buffer, and gets it.
LEMMA DestroyStep ==
  ASSUME OpsInv, NEW b \in Buffers, Destroy(b) \/ Destroyed(b)
  PROVE  OpsInv'
<1>1. CASE Destroy(b)
  <2>1. waiting' = waiting \cup {b} /\ UNCHANGED <<call, borrowers, gone, locked, free, pool>>
    BY <1>1 DEF Destroy
  <2>2. OpsTypeOK'
    BY <2>1 DEF OpsInv, OpsTypeOK
  <2>3. CallInv' /\ HoldInv'
    BY <2>1 DEF OpsInv, CallInv, HoldInv
  <2>4. OwnerInv'
    BY <2>1 DEF OpsInv, OwnerInv
  <2>5. LeaseInv'
    BY <2>1 DEF OpsInv, LeaseInv
  <2>6. QED
    BY <2>2, <2>3, <2>4, <2>5 DEF OpsInv
<1>2. CASE Destroyed(b)
  <2>1. /\ gone' = gone \cup {b} /\ waiting' = waiting \ {b} /\ locked' = locked \ {b}
        /\ UNCHANGED <<call, borrowers, free, pool>>
    BY <1>2 DEF Destroyed
  <2>2. OpsTypeOK'
    BY <2>1 DEF OpsInv, OpsTypeOK
  <2>3. CallInv' /\ HoldInv'
    BY <2>1 DEF OpsInv, CallInv, HoldInv
  <2>4. OwnerInv'
    BY <2>1 DEF OpsInv, OwnerInv
  <2>5. LeaseInv'
    BY <2>1 DEF OpsInv, LeaseInv
  <2>6. QED
    BY <2>2, <2>3, <2>4, <2>5 DEF OpsInv
<1>3. QED
  BY <1>1, <1>2

\* The calls know what they have and what is still to come, for any callers,
\* keys and workspaces.
THEOREM OpsInvariance == OpsSpec => []OpsInv
<1>1. OpsInv /\ [OpsNext]_opsVars => OpsInv'
  <2> SUFFICES ASSUME OpsInv, [OpsNext]_opsVars PROVE OpsInv'
    OBVIOUS
  <2>1. ASSUME NEW p \in Callers,
               \/ Enter(p) \/ PoolTake(p) \/ DeriveLocked(p) \/ Borrow(p) \/ PoolDrain(p) \/ DestroyAll(p)
        PROVE  OpsInv'
    BY <2>1, EnterStep, TakeStep, LockStep, BorrowStep, DrainStep, DestroyAllStep
  <2>2. ASSUME NEW b \in Buffers, Destroy(b) \/ Destroyed(b) PROVE OpsInv'
    BY <2>2, DestroyStep
  <2>3. CASE UNCHANGED opsVars
    BY <2>3 DEF opsVars, OpsInv, OpsTypeOK, CallInv, HoldInv, OwnerInv, LeaseInv
  <2>4. QED
    BY <2>1, <2>2, <2>3 DEF OpsNext
<1>2. QED
  BY <1>1, InitOps, PTL DEF OpsSpec

\* A call that cannot go on waits for somebody.
LEMMA Awaited ==
  ASSUME OpsInv, NEW p \in Callers, call[p] # Idle
  PROVE  Moves(p) \/ AwaitedCalls(p) # {} \/ AwaitedDestroys(p) # {}
<1> SUFFICES ASSUME AwaitedCalls(p) = {}, AwaitedDestroys(p) = {} PROVE Moves(p)
  OBVIOUS
<1>0. call[p] \in CallRecords /\ call[p].op # "idle"
  BY DEF OpsInv, OpsTypeOK, CallInv
<1>1. \A w \in locked : w \in waiting \/ \E q \in Callers : call[q].op = "borrow" /\ w \in call[q].ws
  BY DEF OpsInv, OwnerInv
<1>2. CASE call[p].op = "borrow"
  <2>1. call[p].todo # <<>> => Head(call[p].todo) \notin waiting
    BY <1>2 DEF AwaitedDestroys
  <2>2. QED
    BY <1>2, <2>1 DEF Moves
<1>3. CASE call[p].op = "derive"
  <2>1. ASSUME NEW w \in call[p].ws, w \in locked PROVE FALSE
    <3>1. w \notin waiting
      BY <1>3, <2>1 DEF AwaitedDestroys
    <3>2. PICK q \in Callers : call[q].op = "borrow" /\ w \in call[q].ws
      BY <1>1, <2>1, <3>1
    <3>3. QED
      BY <1>3, <2>1, <3>2 DEF AwaitedCalls
  <2>2. QED
    BY <1>3, <2>1 DEF Moves
<1>4. CASE call[p].op \in {"take", "drain"}
  <2>1. CASE free # {} \/ pool = "closed"
    <3>1. call[p].op = "drain" => pool = "done"
      BY DEF OpsInv, CallInv
    <3>2. QED
      BY <1>4, <2>1, <3>1 DEF Moves
  <2>2. CASE free = {} /\ pool # "closed"
    <3>1. \A q \in Callers : q # p => call[q].taken = {}
      BY <1>4, <2>2 DEF AwaitedCalls
    <3>2. \A w \in PoolSpaces : w \in call[p].taken
      BY <2>2, <3>1 DEF OpsInv, OwnerInv
    <3>3. call[p].taken = PoolSpaces /\ call[p].taken # {}
      BY <1>0, <3>2, Ordinals DEF CallRecords
    <3>4. call[p].op # "take"
      BY <3>3 DEF OpsInv, CallInv
    <3>5. QED
      BY <1>4, <3>3, <3>4 DEF Moves
  <2>3. QED
    BY <2>1, <2>2
<1>5. CASE call[p].op = "destroyAll"
  <2>1. waiting \cap call[p].ws = {}
    BY <1>5 DEF AwaitedDestroys
  <2>2. ASSUME NEW w \in call[p].ws, w \in locked PROVE FALSE
    <3>1. PICK q \in Callers : call[q].op = "borrow" /\ w \in call[q].ws
      BY <1>1, <2>1, <2>2
    <3>2. QED
      BY <1>5, <2>2, <3>1 DEF AwaitedCalls
  <2>3. QED
    BY <1>5, <2>1, <2>2 DEF Moves
<1>6. QED
  BY <1>0, <1>2, <1>3, <1>4, <1>5 DEF CallRecords

\* Of the natural numbers of a bounded set one is the largest.
LEMMA Topmost ==
  ASSUME NEW top \in Nat, NEW B \in SUBSET (0 .. top), B # {}
  PROVE  \E b \in B : \A c \in B : c <= b
<1> DEFINE above == {pair \in Nat \X Nat : pair[1] < pair[2]}
           S == {n \in 0 .. top : top - n \in B}
<1>1. IsWellFoundedOn(above, Nat)
  BY NatLessThanWellFounded, Zenon DEF OpToRel
<1>2. ASSUME NEW x \in Nat, NEW y \in Nat, <<y, x>> \notin above PROVE x <= y
  BY <1>2
<1>3. S \subseteq Nat /\ S # {}
  <2>1. PICK b : b \in B
    OBVIOUS
  <2>2. top - b \in 0 .. top /\ top - (top - b) = b
    BY <2>1
  <2>3. QED
    BY <2>1, <2>2
<1> HIDE DEF above
<1>4. PICK n \in S : \A m \in S : <<m, n>> \notin above
  <2> HIDE DEF S
  <2>1. QED
    BY <1>1, <1>3, WFMin
<1>5. ASSUME NEW c \in B PROVE c <= top - n
  <2>1. top - c \in S
    <3>1. top - c \in 0 .. top /\ top - (top - c) = c
      OBVIOUS
    <3>2. QED
      BY <3>1
  <2>2. n <= top - c
    BY <1>2, <1>3, <1>4, <2>1
  <2>3. QED
    BY <2>2
<1>6. QED
  BY <1>4, <1>5

\* In no set of calls and Destroys does each wait for one of the set: the
\* Destroy of its last buffer in LockOrder would wait for a call that has
\* nothing of the set left to borrow.
LEMMA NoCircle ==
  ASSUME OpsInv, NEW C \in SUBSET Callers, NEW B \in SUBSET waiting,
         \A p \in C : AwaitedCalls(p) \cap C # {} \/ AwaitedDestroys(p) \cap B # {},
         \A b \in B : borrowers[b] \cap C # {}
  PROVE  C = {} /\ B = {}
<1>1. B = {}
  <2> SUFFICES ASSUME B # {} PROVE FALSE
    OBVIOUS
  <2>1. B \in SUBSET (0 .. MaxOrder) /\ B \subseteq Buffers /\ MaxOrder \in Nat
    BY OpsAssumption DEF OpsInv, OpsTypeOK
  <2>2. PICK b \in B : \A c \in B : c <= b
    BY <2>1, Topmost
  <2>3. PICK p \in C : p \in borrowers[b]
    OBVIOUS
  <2>4. call[p].op = "borrow" /\ \A i \in DOMAIN call[p].todo : b < call[p].todo[i]
    BY <2>1, <2>3 DEF OpsInv, HoldInv
  <2>5. AwaitedCalls(p) = {}
    BY <2>4 DEF AwaitedCalls
  <2>6. PICK c \in B : call[p].todo # <<>> /\ c = Head(call[p].todo)
    BY <2>4, <2>5 DEF AwaitedDestroys
  <2>7. call[p].todo \in Orders
    BY DEF OpsInv, OpsTypeOK, CallRecords
  <2>8. b < c
    BY <2>4, <2>6, <2>7, OrderFacts
  <2>9. b \in Nat /\ c \in Nat /\ c <= b
    BY <2>1, <2>2
  <2>10. QED
    BY <2>8, <2>9
<1>2. \A p \in C : \E q \in C : q \in AwaitedCalls(p)
  BY <1>1
<1>3. \A p \in C : call[p].op # "borrow"
  BY <1>2 DEF AwaitedCalls
<1>4. \A p \in C : call[p].op \notin {"derive", "destroyAll"}
  BY <1>2, <1>3 DEF AwaitedCalls
<1>5. \A p \in C : call[p].op \in {"take", "drain"}
  BY <1>2, <1>3, <1>4 DEF AwaitedCalls
<1>6. \A p \in C : \E q \in C : q # p /\ call[q].op = "drain"
  <2>1. ASSUME NEW p \in C PROVE \E q \in C : q # p /\ call[q].op = "drain"
    <3>1. PICK q \in C : q # p /\ call[q].taken # {}
      BY <1>2, <1>5, <2>1 DEF AwaitedCalls
    <3>2. call[q].op # "take"
      BY <3>1 DEF OpsInv, CallInv
    <3>3. QED
      BY <1>5, <3>1, <3>2
  <2>2. QED
    BY <2>1
<1>7. C = {}
  BY <1>6 DEF OpsInv, CallInv
<1>8. QED
  BY <1>1, <1>7

\* However many callers share however many keys and workspaces, a call that cannot go on
\* waits for one that has not ended, and never in a circle: borrows in LockOrder, the
\* mutex of a workspace, the pool's channel and the Destroys do not deadlock.
THEOREM OpsNeverWedged == OpsSpec => []NeverWedged
<1>1. OpsInv => NeverWedged
  BY Awaited, NoCircle DEF NeverWedged, OpsInv, LeaseInv
<1>2. QED
  BY <1>1, OpsInvariance, PTL
=============================================================================
