----------------------------- MODULE BufferLock -----------------------------
(***************************************************************************)
(* bufferRWLock (src/buflock.go), the reader-writer lock under every       *)
(* SecureBuffer and every arena region, at the granularity of its atomic   *)
(* operations.                                                             *)
(*                                                                         *)
(* One word, readers, holds the number of enrolled readers, minus          *)
(* bufMaxReaders while a writer is active or waiting.  The fast paths      *)
(* touch nothing else.  Everything else is guarded by mu and every wait is *)
(* a wait on cond.                                                         *)
(*                                                                         *)
(* A step contains at most one access to readers: a critical section of mu *)
(* that accesses it once is one step (nothing else in it is visible to a   *)
(* process that does not hold mu), and one that accesses it twice, or that *)
(* decides on its value and then waits, is split, with mu held in between. *)
(***************************************************************************)
EXTENDS Integers, FiniteSets

CONSTANTS
  Procs,            \* the goroutines using the lock
  bufMaxReaders,    \* the writer bias
  NoProc            \* mu's owner when it is free

\* "Any real reader count is far below it": the bias exceeds the number of
\* processes that can be counted in the word at once.
ASSUME ProcsAssumption == IsFiniteSet(Procs) /\ NoProc \notin Procs
ASSUME BiasAssumption == bufMaxReaders \in Nat /\ Cardinality(Procs) < bufMaxReaders

VARIABLES
  readers,          \* the atomic word
  writersWaiting,   \* guarded by mu
  writerActive,     \* guarded by mu
  readersWaiting,   \* guarded by mu; kept for tests, read by no branch
  mu,               \* the owner of the mutex, or NoProc
  waiters,          \* the processes on cond's notify list
  pc                \* where each process is

vars == <<readers, writersWaiting, writerActive, readersWaiting, mu, waiters, pc>>

(***************************************************************************)
(* Where a process can be.  A parked process is asleep while it is in      *)
(* waiters; once a Broadcast has removed it, it only has to get mu back.   *)
(***************************************************************************)
AtRest == {"idle", "reading", "writing"}
RLocking == {"bounced", "enroll", "rparked"}
Locking == {"drain", "park", "wparked"}
PCs == AtRest \cup RLocking \cup Locking \cup {"handoff"}

At(p, l) == pc[p] = l
Goto(p, l) == pc' = [pc EXCEPT ![p] = l]
MuFree == mu = NoProc
WriterInPlay == writerActive \/ writersWaiting > 0

TypeOK ==
  /\ readers \in Int
  /\ writersWaiting \in Nat
  /\ writerActive \in BOOLEAN
  /\ readersWaiting \in Nat
  /\ mu \in Procs \cup {NoProc}
  /\ waiters \in SUBSET Procs
  /\ pc \in [Procs -> PCs]

\* newBufferRWLock
Init ==
  /\ readers = 0
  /\ writersWaiting = 0
  /\ writerActive = FALSE
  /\ readersWaiting = 0
  /\ mu = NoProc
  /\ waiters = {}
  /\ pc = [p \in Procs |-> "idle"]

-----------------------------------------------------------------------------
(* Readers *)

\* rLock: one Add(1); its sign says whether a writer is in play.
rLock(p) ==
  /\ At(p, "idle")
  /\ readers' = readers + 1
  /\ Goto(p, IF readers + 1 > 0 THEN "reading" ELSE "bounced")
  /\ UNCHANGED <<writersWaiting, writerActive, readersWaiting, mu, waiters>>

\* rLockSlow, first half: undo the optimistic Add under mu; if that left exactly
\* the bias, it was what a waiting writer's drain check was stuck on.
rLockSlow(p) ==
  /\ At(p, "bounced")
  /\ MuFree
  /\ mu' = p
  /\ readers' = readers - 1
  /\ waiters' = IF readers - 1 = -bufMaxReaders THEN {} ELSE waiters
  /\ readersWaiting' = readersWaiting + 1
  /\ Goto(p, "enroll")
  /\ UNCHANGED <<writersWaiting, writerActive>>

\* The loop forgets the writers that wait and looks at the active one only.
rLockEnrollIgnoresWaiters(p) ==
  /\ At(p, "enroll")
  /\ ~writerActive
  /\ readersWaiting' = readersWaiting - 1
  /\ readers' = readers + 1
  /\ mu' = NoProc
  /\ Goto(p, "reading")
  /\ UNCHANGED <<writersWaiting, writerActive, waiters>>

\* rLockSlow, second half: no writer in play, so enroll for real and release mu.
rLockEnroll(p) ==
  /\ At(p, "enroll")
  /\ ~WriterInPlay
  /\ readersWaiting' = readersWaiting - 1
  /\ readers' = readers + 1
  /\ mu' = NoProc
  /\ Goto(p, "reading")
  /\ UNCHANGED <<writersWaiting, writerActive, waiters>>

\* The body of rLockSlow's wait loop: cond.Wait joins the list and releases mu.
rLockWait(p) ==
  /\ At(p, "enroll")
  /\ WriterInPlay
  /\ waiters' = waiters \cup {p}
  /\ mu' = NoProc
  /\ Goto(p, "rparked")
  /\ UNCHANGED <<readers, writersWaiting, writerActive, readersWaiting>>

\* cond.Wait returns: the process was broadcast to and takes mu back.
rLockWake(p) ==
  /\ At(p, "rparked")
  /\ p \notin waiters
  /\ MuFree
  /\ mu' = p
  /\ Goto(p, "enroll")
  /\ UNCHANGED <<readers, writersWaiting, writerActive, readersWaiting, waiters>>

\* rUnlock: one Add(-1); the last reader in front of a waiting writer has
\* still to hand off.
rUnlock(p) ==
  /\ At(p, "reading")
  /\ readers' = readers - 1
  /\ Goto(p, IF readers - 1 = -bufMaxReaders THEN "handoff" ELSE "idle")
  /\ UNCHANGED <<writersWaiting, writerActive, readersWaiting, mu, waiters>>

\* The broadcast is sent without holding mu.
rUnlockHandoffUnlocked(p) ==
  /\ At(p, "handoff")
  /\ waiters' = {}
  /\ Goto(p, "idle")
  /\ UNCHANGED <<readers, writersWaiting, writerActive, readersWaiting, mu>>

\* rUnlock's slow tail: Broadcast under mu.
rUnlockHandoff(p) ==
  /\ At(p, "handoff")
  /\ MuFree
  /\ waiters' = {}
  /\ Goto(p, "idle")
  /\ UNCHANGED <<readers, writersWaiting, writerActive, readersWaiting, mu>>

-----------------------------------------------------------------------------
(* Writers *)

\* lock, up to its wait loop: the first writer in installs the bias.
lock(p) ==
  /\ At(p, "idle")
  /\ MuFree
  /\ mu' = p
  /\ writersWaiting' = writersWaiting + 1
  /\ readers' = IF writersWaiting = 0 /\ ~writerActive
                THEN readers - bufMaxReaders ELSE readers
  /\ Goto(p, "drain")
  /\ UNCHANGED <<writerActive, readersWaiting, waiters>>

\* The writer looks at the active writer only, never at the count.
lockAcquireUndrained(p) ==
  /\ At(p, "drain")
  /\ ~writerActive
  /\ writersWaiting' = writersWaiting - 1
  /\ writerActive' = TRUE
  /\ mu' = NoProc
  /\ Goto(p, "writing")
  /\ UNCHANGED <<readers, readersWaiting, waiters>>

\* lock, the loop's exit: no writer active, and the count shows no reader.
lockAcquire(p) ==
  /\ At(p, "drain")
  /\ ~writerActive
  /\ readers = -bufMaxReaders
  /\ writersWaiting' = writersWaiting - 1
  /\ writerActive' = TRUE
  /\ mu' = NoProc
  /\ Goto(p, "writing")
  /\ UNCHANGED <<readers, readersWaiting, waiters>>

\* lock, the loop's test came out true: the process is about to Wait and
\* still holds mu, while readers may move under it.
lockDrainTest(p) ==
  /\ At(p, "drain")
  /\ writerActive \/ readers # -bufMaxReaders
  /\ Goto(p, "park")
  /\ UNCHANGED <<readers, writersWaiting, writerActive, readersWaiting, mu,
                 waiters>>

lockWait(p) ==
  /\ At(p, "park")
  /\ waiters' = waiters \cup {p}
  /\ mu' = NoProc
  /\ Goto(p, "wparked")
  /\ UNCHANGED <<readers, writersWaiting, writerActive, readersWaiting>>

lockWake(p) ==
  /\ At(p, "wparked")
  /\ p \notin waiters
  /\ MuFree
  /\ mu' = p
  /\ Goto(p, "drain")
  /\ UNCHANGED <<readers, writersWaiting, writerActive, readersWaiting, waiters>>

\* tryLock that succeeds: no writer in play and CompareAndSwap(0, -bufMaxReaders).
\* One that reports false leaves the lock, and its caller, as they were.
tryLock(p) ==
  /\ At(p, "idle")
  /\ MuFree
  /\ ~WriterInPlay
  /\ readers = 0
  /\ readers' = -bufMaxReaders
  /\ writerActive' = TRUE
  /\ Goto(p, "writing")
  /\ UNCHANGED <<writersWaiting, readersWaiting, mu, waiters>>

\* unlock wakes nobody.
unlockNoBroadcast(p) ==
  /\ At(p, "writing")
  /\ MuFree
  /\ writerActive' = FALSE
  /\ readers' = IF writersWaiting = 0 THEN readers + bufMaxReaders ELSE readers
  /\ Goto(p, "idle")
  /\ UNCHANGED <<writersWaiting, readersWaiting, mu, waiters>>

\* unlock: the last writer out lifts the bias; everyone is woken either way.
unlock(p) ==
  /\ At(p, "writing")
  /\ MuFree
  /\ writerActive' = FALSE
  /\ readers' = IF writersWaiting = 0 THEN readers + bufMaxReaders ELSE readers
  /\ waiters' = {}
  /\ Goto(p, "idle")
  /\ UNCHANGED <<writersWaiting, readersWaiting, mu>>

-----------------------------------------------------------------------------

Reader(p) ==
  \/ rLock(p) \/ rLockSlow(p) \/ rLockEnroll(p) \/ rLockWait(p) \/ rLockWake(p)
  \/ rUnlock(p) \/ rUnlockHandoff(p)

Writer(p) ==
  \/ lock(p) \/ lockAcquire(p) \/ lockDrainTest(p) \/ lockWait(p) \/ lockWake(p)
  \/ tryLock(p) \/ unlock(p)

Next == \E p \in Procs : Reader(p) \/ Writer(p)

Spec == Init /\ [][Next]_vars

(***************************************************************************)
(* Fairness.  A goroutine that runs is eventually scheduled, and a critical*)
(* section ends: borrows and writes are released.  Getting mu is strongly  *)
(* fair: sync.Mutex hands itself to the longest waiter once one has waited *)
(* a millisecond.  Nobody is obliged to start an operation.                *)
(***************************************************************************)
Fairness ==
  \A p \in Procs :
    /\ WF_vars(rLockEnroll(p) \/ rLockWait(p) \/ rUnlock(p))
    /\ WF_vars(lockAcquire(p) \/ lockDrainTest(p) \/ lockWait(p))
    /\ SF_vars(rLockSlow(p) \/ rLockWake(p) \/ rUnlockHandoff(p))
    /\ SF_vars(lockWake(p) \/ unlock(p))

FairSpec == Spec /\ Fairness

-----------------------------------------------------------------------------
(* Properties *)

\* A writer's munmap or mprotect never runs beside a borrow or another writer:
\* lock() returns only when every enrolled reader has left, and no rLock
\* succeeds before unlock.
MutualExclusion ==
  \A p, q \in Procs :
    At(p, "writing") /\ p # q => ~At(q, "reading") /\ ~At(q, "writing")

\* No wakeup is missed.  Whoever sleeps on cond still has a reason to: a reader,
\* that a writer is in play; a writer, that another one is active, that the
\* count is not drained, or that a last reader is on its way to the broadcast.
NoLostWakeup ==
  \A p \in waiters :
    /\ At(p, "rparked") => WriterInPlay
    /\ At(p, "wparked") => \/ writerActive
                           \/ readers # -bufMaxReaders
                           \/ \E q \in Procs : At(q, "handoff")

\* New readers cannot starve a writer: once one waits, one gets in.
WritersGetIn == writersWaiting > 0 ~> writerActive

\* A reader that was bounced by a writer is let in once writers stop coming.
ReadersResume ==
  \A p \in Procs :
    []([](~WriterInPlay) => (pc[p] \in RLocking ~> At(p, "reading")))

\* bufferRWLock implements the abstract lock, writer preference included.
Abstract ==
  INSTANCE RWLock WITH
    reading <- {p \in Procs : At(p, "reading")},
    writing <- {p \in Procs : At(p, "writing")},
    announced <- {p \in Procs : pc[p] \in Locking}

ImplementsRWLock == Abstract!Spec

-----------------------------------------------------------------------------
(* The inductive invariant *)

\* The processes that f (pc, now or next) puts at one of the places in L.
Inside(f, L) == {p \in Procs : f[p] \in L}
Count(f, L) == Cardinality(Inside(f, L))

CountedAt == {"reading", "bounced"}

\* The word is the number of processes counted in it, less the bias exactly
\* while a writer is in play.
WordInv ==
  readers = Count(pc, CountedAt) - (IF WriterInPlay THEN bufMaxReaders ELSE 0)

\* The flags guarded by mu describe the processes.
FlagsInv ==
  /\ writersWaiting = Count(pc, Locking)
  /\ readersWaiting = Count(pc, {"enroll", "rparked"})
  /\ writerActive <=> \E p \in Procs : At(p, "writing")
  /\ \A p, q \in Procs : At(p, "writing") /\ At(q, "writing") => p = q

\* mu is held between steps exactly in the split critical sections.
MuInv == \A p \in Procs : mu = p <=> pc[p] \in {"enroll", "drain", "park"}

\* Only parked processes are on the notify list.
WaitersInv == \A p \in waiters : pc[p] \in {"rparked", "wparked"}

\* A writer that decided to wait has not yet joined the list; a last reader
\* that drains the word meanwhile cannot broadcast before it has.
ParkInv ==
  \A p \in Procs :
    At(p, "park") => \/ writerActive
                     \/ readers # -bufMaxReaders
                     \/ \E q \in Procs : At(q, "handoff")

\* Nobody reads while a writer is active.
ReadersOut == \A q \in Procs : At(q, "reading") => ~writerActive

IInv ==
  /\ TypeOK
  /\ WordInv
  /\ FlagsInv
  /\ MuInv
  /\ WaitersInv
  /\ ParkInv
  /\ NoLostWakeup
  /\ ReadersOut
=============================================================================
