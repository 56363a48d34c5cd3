----------------------------- MODULE SecureArena -----------------------------
(***************************************************************************)
(* SecureArena and ArenaSlot (src/securearena.go): a slab of slots, the    *)
(* generation that tells a live handle from a stale one, the intrusive     *)
(* FIFO free list, and the slab's protection, wipe and destruction.        *)
(*                                                                         *)
(* A handle is a slot and the odd generation Acquire gave it; every        *)
(* goroutine may use every handle ever handed out, the stale ones too.     *)
(* The slab's lock (BufferLock) is held shared by a borrow's callback and  *)
(* by Release up to its wipe; the methods that hold it exclusively are one *)
(* step each.  alloc is held by Acquire and by the append of Release.      *)
(***************************************************************************)
EXTENDS Integers, Sequences, FiniteSets, SequencesExt

CONSTANTS
  Procs,            \* the goroutines
  Count,            \* the slots of the arena
  MaxGen,           \* bound on a slot's generation
  Failing           \* whether a protection call may fail

ASSUME ArenaAssumption ==
  /\ IsFiniteSet(Procs)
  /\ Count \in Nat \ {0}
  /\ MaxGen \in Nat /\ MaxGen % 2 = 0     \* a tenancy that begins can end
  /\ Failing \in BOOLEAN

VARIABLES
  generation,       \* slotMeta.generation: even = free, odd = live
  next,             \* slotMeta.next: the next free slot, or -1
  freeHead,
  freeTail,
  live,             \* the number of acquired slots
  data,             \* each slot's contents: 0 is zeros, g what handle g wrote
  strip,            \* each slot's canary strip
  overran,          \* the last handle of each slot that ran over the strip
  slab,             \* the slab's flags and protection
  pc,               \* where each goroutine is
  handle,           \* the handle it is using
  violated          \* Release's local flag

vars == <<generation, next, freeHead, freeTail, live, data, strip, overran,
          slab, pc, handle, violated>>

Slots == 0 .. Count - 1
Links == -1 .. Count - 1
NoHandle == [idx |-> -1, generation |-> 0]

\* The handles Acquire has returned so far.
Handles ==
  {h \in [idx : Slots, generation : 1 .. MaxGen] :
     h.generation % 2 = 1 /\ h.generation <= generation[h.idx]}

TypeOK ==
  /\ generation \in [Slots -> 0 .. MaxGen]
  /\ next \in [Slots -> Links]
  /\ freeHead \in Links
  /\ freeTail \in Links
  /\ live \in 0 .. Count
  /\ data \in [Slots -> 0 .. MaxGen]
  /\ strip \in [Slots -> {"armed", "hit", "zero"}]
  /\ overran \in [Slots -> 0 .. MaxGen]
  /\ slab \in [mapped : BOOLEAN, prot : {"RO", "RW"}, readOnly : BOOLEAN,
               wiped : BOOLEAN, destroyed : BOOLEAN]
  /\ pc \in [Procs -> {"out", "acquiring", "borrowing", "inside", "releasing",
                       "wiping", "pushing", "destroying"}]
  /\ \A p \in Procs : handle[p] \in Handles \cup {NoHandle}
  /\ violated \in [Procs -> BOOLEAN]

\* NewArena: an armed, zero slab, and every slot on the list in ascending order.
Init ==
  /\ generation = [i \in Slots |-> 0]
  /\ next = [i \in Slots |-> IF i = Count - 1 THEN -1 ELSE i + 1]
  /\ freeHead = 0
  /\ freeTail = Count - 1
  /\ live = 0
  /\ data = [i \in Slots |-> 0]
  /\ strip = [i \in Slots |-> "armed"]
  /\ overran = [i \in Slots |-> 0]
  /\ slab = [mapped |-> TRUE, prot |-> "RW", readOnly |-> FALSE, wiped |-> FALSE,
             destroyed |-> FALSE]
  /\ pc = [p \in Procs |-> "out"]
  /\ handle = [p \in Procs |-> NoHandle]
  /\ violated = [p \in Procs |-> FALSE]

Lists == <<next, freeHead, freeTail, live>>
Memory == <<data, strip, overran>>
Locals == <<handle, violated>>

Goto(p, label) == pc' = [pc EXCEPT ![p] = label]

\* Return from a method: its locals are gone.
Return(p) ==
  /\ Goto(p, "out")
  /\ handle' = [handle EXCEPT ![p] = NoHandle]
  /\ violated' = [violated EXCEPT ![p] = FALSE]

AllocFree == \A p \in Procs : pc[p] # "acquiring"
Exclusive == \A p \in Procs : pc[p] \notin {"inside", "wiping"}

-----------------------------------------------------------------------------
(* Acquire *)

\* The checks, under alloc.  The bound on the generations is here, before the lock.
AcquireCheck(p) ==
  /\ pc[p] = "out"
  /\ AllocFree
  /\ freeHead >= 0 => generation[freeHead] < MaxGen
  /\ ~slab.destroyed
  /\ ~slab.wiped
  /\ Goto(p, "acquiring")
  /\ UNCHANGED <<generation, Lists, Memory, slab, Locals>>

\* ErrArenaFull.
AcquireFull(p) ==
  /\ pc[p] = "acquiring"
  /\ freeHead < 0
  /\ Goto(p, "out")
  /\ UNCHANGED <<generation, Lists, Memory, slab, Locals>>

\* The tail is left behind when the last free slot is taken.
AcquireKeepsTail(p) ==
  /\ pc[p] = "acquiring"
  /\ freeHead >= 0
  /\ freeHead' = next[freeHead]
  /\ next' = [next EXCEPT ![freeHead] = -1]
  /\ generation' = [generation EXCEPT ![freeHead] = @ + 1]
  /\ live' = live + 1
  /\ Goto(p, "out")
  /\ UNCHANGED <<freeTail, Memory, slab, Locals>>

\* Pop the head; even -> odd.
Acquire(p) ==
  /\ pc[p] = "acquiring"
  /\ freeHead >= 0
  /\ freeHead' = next[freeHead]
  /\ freeTail' = IF next[freeHead] < 0 THEN -1 ELSE freeTail
  /\ next' = [next EXCEPT ![freeHead] = -1]
  /\ generation' = [generation EXCEPT ![freeHead] = @ + 1]
  /\ live' = live + 1
  /\ Goto(p, "out")
  /\ UNCHANGED <<Memory, slab, Locals>>

-----------------------------------------------------------------------------
(* WithBytes and WithBytesErr *)

\* The advisory check, before the lock.
WithBytes(p, h) ==
  /\ pc[p] = "out"
  /\ ~slab.destroyed
  /\ Goto(p, "borrowing")
  /\ handle' = [handle EXCEPT ![p] = h]
  /\ UNCHANGED <<generation, Lists, Memory, slab, violated>>

\* The liveness check is dropped: it was made before the lock.
BorrowUnchecked(p) ==
  /\ pc[p] = "borrowing"
  /\ IF slab.mapped /\ ~slab.wiped
     THEN Goto(p, "inside") /\ UNCHANGED Locals
     ELSE Return(p)
  /\ UNCHANGED <<generation, Lists, Memory, slab>>

\* The checks under the shared lock, and the callback begins.
Borrow(p) ==
  /\ pc[p] = "borrowing"
  /\ IF /\ slab.mapped
        /\ ~slab.wiped
        /\ generation[handle[p].idx] = handle[p].generation
     THEN Goto(p, "inside") /\ UNCHANGED Locals
     ELSE Return(p)
  /\ UNCHANGED <<generation, Lists, Memory, slab>>

\* The callback writes its secret; on a read-only slab that is the caller's fault.
Write(p) ==
  /\ pc[p] = "inside"
  /\ ~slab.readOnly
  /\ data' = [data EXCEPT ![handle[p].idx] = handle[p].generation]
  /\ UNCHANGED <<generation, Lists, strip, overran, slab, pc, Locals>>

\* The callback's code runs past its slot.
Overrun(p) ==
  /\ pc[p] = "inside"
  /\ ~slab.readOnly
  /\ strip' = [strip EXCEPT ![handle[p].idx] = "hit"]
  /\ overran' = [overran EXCEPT ![handle[p].idx] = handle[p].generation]
  /\ UNCHANGED <<generation, Lists, data, slab, pc, Locals>>

EndBorrow(p) ==
  /\ pc[p] = "inside"
  /\ Return(p)
  /\ UNCHANGED <<generation, Lists, Memory, slab>>

-----------------------------------------------------------------------------
(* Release *)

\* The early check, before the lock.  By the single-owner rule no callback is
\* running on the handle when it is claimed: see Unborrowed.
Release(p, h) ==
  /\ pc[p] = "out"
  /\ generation[h.idx] = h.generation
  /\ Goto(p, "releasing")
  /\ handle' = [handle EXCEPT ![p] = h]
  /\ UNCHANGED <<generation, Lists, Memory, slab, violated>>

Unborrowed(h) == \A q \in Procs : ~(pc[q] = "inside" /\ handle[q] = h)

\* Refused with ErrReadOnly.
Refused == slab.mapped /\ slab.readOnly /\ ~slab.wiped

\* The early check is trusted, and the slot retired only by the append.
ClaimUnswapped(p) ==
  /\ pc[p] = "releasing"
  /\ Unborrowed(handle[p])
  /\ IF Refused
     THEN Return(p)
     ELSE /\ Goto(p, IF slab.mapped THEN "wiping" ELSE "pushing")
          /\ UNCHANGED Locals
  /\ UNCHANGED <<generation, Lists, Memory, slab>>

\* Under the shared lock: refuse, or claim the slot by the compare-and-swap.
Claim(p) ==
  LET i == handle[p].idx IN
  /\ pc[p] = "releasing"
  /\ Unborrowed(handle[p])
  /\ IF Refused \/ generation[i] # handle[p].generation
     THEN Return(p) /\ UNCHANGED generation
     ELSE /\ generation' = [generation EXCEPT ![i] = @ + 1]
          /\ Goto(p, IF slab.mapped THEN "wiping" ELSE "pushing")
          /\ UNCHANGED Locals
  /\ UNCHANGED <<Lists, Memory, slab>>

\* The strip is not armed again after a report.
WipeSlotUnarmed(p) ==
  LET i == handle[p].idx IN
  /\ pc[p] = "wiping"
  /\ violated' = [violated EXCEPT ![p] = ~slab.wiped /\ strip[i] # "armed"]
  /\ data' = [data EXCEPT ![i] = 0]
  /\ Goto(p, "pushing")
  /\ UNCHANGED <<generation, Lists, strip, overran, slab, handle>>

\* The strip is checked although the emergency wipe zeroed it.
WipeSlotChecksZeros(p) ==
  LET i == handle[p].idx IN
  /\ pc[p] = "wiping"
  /\ violated' = [violated EXCEPT ![p] = strip[i] # "armed"]
  /\ strip' = [strip EXCEPT ![i] = "armed"]
  /\ data' = [data EXCEPT ![i] = 0]
  /\ Goto(p, "pushing")
  /\ UNCHANGED <<generation, Lists, overran, slab, handle>>

\* Check the strip, arm it again, wipe the slot, let go of the lock.  After an
\* emergency wipe the strip holds zeros and is not looked at.
WipeSlot(p) ==
  LET i == handle[p].idx IN
  /\ pc[p] = "wiping"
  /\ violated' = [violated EXCEPT ![p] = ~slab.wiped /\ strip[i] # "armed"]
  /\ strip' = [strip EXCEPT ![i] = IF slab.wiped THEN @ ELSE "armed"]
  /\ data' = [data EXCEPT ![i] = 0]
  /\ Goto(p, "pushing")
  /\ UNCHANGED <<generation, Lists, overran, slab, handle>>

\* Append the slot to the free list, under alloc.
Push(p) ==
  LET i == handle[p].idx IN
  /\ pc[p] = "pushing"
  /\ AllocFree
  /\ live' = live - 1
  /\ next' = IF freeTail >= 0 THEN [next EXCEPT ![i] = -1, ![freeTail] = i]
             ELSE [next EXCEPT ![i] = -1]
  /\ freeHead' = IF freeTail >= 0 THEN freeHead ELSE i
  /\ freeTail' = i
  /\ Return(p)
  /\ UNCHANGED <<generation, Memory, slab>>

-----------------------------------------------------------------------------
(* ReadOnly, ReadWrite, the emergency wipe, Destroy *)

\* The protection changes under the feet of a Release: the lock is only shared.
SetReadOnlyShared(ro) ==
  /\ slab.mapped
  /\ ~slab.wiped
  /\ slab' = [slab EXCEPT !.readOnly = ro, !.prot = IF ro THEN "RO" ELSE "RW"]
  /\ UNCHANGED <<generation, Lists, Memory, pc, Locals>>

\* A failed protection call changes nothing.
SetReadOnly(ro) ==
  /\ Exclusive
  /\ slab.mapped
  /\ ~slab.wiped
  /\ slab' = [slab EXCEPT !.readOnly = ro, !.prot = IF ro THEN "RO" ELSE "RW"]
  /\ UNCHANGED <<generation, Lists, Memory, pc, Locals>>

\* A pass of the emergency wipe over the slab.  One that cannot restore write
\* access leaves it as it was.
EmergencyWipe ==
  /\ Exclusive
  /\ slab.mapped
  /\ \/ /\ slab' = [slab EXCEPT !.wiped = TRUE, !.prot = "RW"]
        /\ data' = [i \in Slots |-> 0]
        /\ strip' = [i \in Slots |-> "zero"]
     \/ /\ Failing
        /\ UNCHANGED <<slab, data, strip>>
  /\ UNCHANGED <<generation, Lists, overran, pc, Locals>>

\* Destroy refuses new callers first ...
Destroy(p) ==
  /\ pc[p] = "out"
  /\ slab' = [slab EXCEPT !.destroyed = TRUE]
  /\ Goto(p, "destroying")
  /\ UNCHANGED <<generation, Lists, Memory, Locals>>

\* ... and wipes and releases the slab under the exclusive lock, once.  With
\* write access not to be had, it is released as it is.
DestroySlab(p) ==
  /\ pc[p] = "destroying"
  /\ Exclusive
  /\ slab' = [slab EXCEPT !.mapped = FALSE]
  /\ \/ /\ slab.mapped
        /\ data' = [i \in Slots |-> 0]
        /\ strip' = [i \in Slots |-> "zero"]
     \/ (Failing \/ ~slab.mapped) /\ UNCHANGED <<data, strip>>
  /\ Return(p)
  /\ UNCHANGED <<generation, Lists, overran>>

-----------------------------------------------------------------------------

Goroutine(p) ==
  \/ AcquireCheck(p) \/ AcquireFull(p) \/ Acquire(p)
  \/ \E h \in Handles : WithBytes(p, h) \/ Release(p, h)
  \/ Borrow(p) \/ Write(p) \/ Overrun(p) \/ EndBorrow(p)
  \/ Claim(p) \/ WipeSlot(p) \/ Push(p)
  \/ Destroy(p) \/ DestroySlab(p)

Next ==
  \/ \E p \in Procs : Goroutine(p)
  \/ \E ro \in BOOLEAN : SetReadOnly(ro)
  \/ EmergencyWipe

Spec == Init /\ [][Next]_vars

-----------------------------------------------------------------------------
(* Properties *)

\* The free list from freeHead on, cut off where it would have to repeat.
FreeList ==
  LET walk[n \in 0 .. Count + 1] ==
        IF n = 0 THEN <<>>
        ELSE LET seen == walk[n - 1]
                 i == IF seen = <<>> THEN freeHead ELSE next[Last(seen)]
             IN  IF i < 0 THEN seen ELSE Append(seen, i)
  IN  walk[Count + 1]

Free == {FreeList[k] : k \in DOMAIN FreeList}

\* The slots a Release has claimed and not yet appended.
Claimed(i) == {p \in Procs : pc[p] \in {"wiping", "pushing"} /\ handle[p].idx = i}

\* The free list never becomes a cycle and never loses a slot: it holds each slot
\* at most once, ends at freeTail, and a slot with an even generation is either on
\* it or in the hands of exactly one Release, never both; LiveCount counts the rest.
FreeListSound ==
  /\ TypeOK
  /\ IsInjective(FreeList)
  /\ freeTail = IF FreeList = <<>> THEN -1 ELSE Last(FreeList)
  /\ \A i \in Slots :
       /\ generation[i] % 2 = 1 => i \notin Free /\ Claimed(i) = {} /\ next[i] = -1
       /\ generation[i] % 2 = 0 =>
            Cardinality(Claimed(i)) = IF i \in Free THEN 0 ELSE 1
  /\ live = Count - Len(FreeList)

\* Two handles of one slot are never borrowed together, and a borrower never sees
\* what another tenant wrote, whatever stale handles are used and released.
OnlyTheTenantReads ==
  \A p \in Procs : pc[p] = "inside" =>
    /\ data[handle[p].idx] \in {0, handle[p].generation}
    /\ \A q \in Procs : pc[q] = "inside" /\ handle[q].idx = handle[p].idx =>
         handle[q] = handle[p]

\* Nobody takes a tenant's secret away but the tenant's own Release, the emergency
\* wipe and Destroy: a Release of a stale handle that was held up does not zero the
\* secret of the slot's next tenant.
SecretOutlivesStaleHandles ==
  [][\A i \in Slots :
       /\ data[i] # 0
       /\ generation[i] = data[i]
       /\ data'[i] # data[i]
       => slab'.wiped \/ ~slab'.mapped]_vars

\* A free slot of a slab that is still there holds no secret, and its strip will
\* notice the next overrun (unless the slab is wiped); and nothing is written into a slab
\* after the emergency wipe has passed it.
FreeSlotsAreClean ==
  /\ slab.mapped => \A i \in Free : data[i] = 0 /\ (~slab.wiped => strip[i] = "armed")
  /\ slab.wiped => \A i \in Slots : data[i] = 0

\* Nothing faults on the slab: a Release wipes its slot, and a callback of a slab
\* not made read-only writes, only to pages that are there and writable, however
\* ReadOnly, the emergency wipe (after which a Release of a read-only slab goes
\* on, securearena.go:835) and Destroy come between its checks and its write.
SlabTakesItsWrites ==
  \A p \in Procs :
    pc[p] = "wiping" \/ (pc[p] = "inside" /\ ~slab.readOnly) =>
      slab.mapped /\ slab.prot = "RW"

\* Release reports an overrun only of the handle it releases: not one of an earlier
\* tenant, nor the zeros the emergency wipe left.
ReportsOwnOverrun ==
  \A p \in Procs : violated[p] => overran[handle[p].idx] = handle[p].generation
=============================================================================
