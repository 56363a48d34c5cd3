------------------------------- MODULE Janitor ------------------------------
(***************************************************************************)
(* The registry of secret mappings (src/registry.go) and everything that   *)
(* tears a mapping down: Destroy, the garbage-collection cleanup, and      *)
(* WipeAllSecrets with its two passes.                                     *)
(*                                                                         *)
(* A region is one mapping with its registration: its lock, its wiped flag *)
(* and its owner (a SecureBuffer, a SecureArena or the seal keyring).  The *)
(* lock is RWLock, which BufferLock is shown to implement: borrowed and    *)
(* lockedBy say who is inside, a job at "waiting" has announced itself.    *)
(* Each critical section of the registry's own mutex is one step.          *)
(*                                                                         *)
(* A job is one run of release, wipeInPlace or tryWipeInPlace.  It peeks   *)
(* at the registry, gets the region's lock, resolves its key again, and    *)
(* runs wipeAndFree: restore write access, then check, wipe and unmap.     *)
(* These are separate steps, because not everyone who changes a page's     *)
(* protection holds the lock.                                              *)
(***************************************************************************)
EXTENDS Integers, FiniteSets

CONSTANTS
  Regions,          \* mappings; each is allocated at most once
  ClosedAtRest,     \* those built WithClosedAtRest
  Keyring,          \* those that hold the seal prekey (sealauth.go)
  Wipes,            \* calls of WipeAllSecrets; each happens at most once
  Destroyers,       \* callers of Destroy on one region
  Protections,      \* the protections ReadOnly, Seal, ... may ask for
  Ciphered,         \* those whose Seal encrypts in place (Windows)
  Overrun,          \* the regions whose borrowers may write past the end
  Lost,             \* the regions whose owner may be lost without Destroy
  KeyMod,           \* the width of nextJanitorKey (2^64 in the code)
  NoRegion, NoJob

ASSUME RegionsAssumption ==
  /\ IsFiniteSet(Regions)
  /\ ClosedAtRest \subseteq Regions
  /\ Keyring \subseteq Regions \ ClosedAtRest
  /\ Ciphered \subseteq Regions \ (ClosedAtRest \cup Keyring)
  /\ Overrun \subseteq Regions
  /\ Lost \subseteq Regions \ Keyring
  /\ NoRegion \notin Regions
ASSUME ProtectionsAssumption == Protections \subseteq {"RW", "RO", "NONE"}
ASSUME KeyAssumption == KeyMod \in Nat \ {0}

Keys == 0 .. KeyMod - 1

DestroyJobs == [op : {"destroy"}, on : Regions, by : Destroyers]
CleanupJobs == [op : {"cleanup"}, on : Regions]
WipeJobs == [op : {"wipe"}, call : Wipes, key : Keys]
Jobs == DestroyJobs \cup CleanupJobs \cup WipeJobs

ASSUME JobsAssumption == NoJob \notin Jobs

VARIABLES
  regions,          \* the live set: key -> region, or NoRegion
  wiped,            \* the wiped set: key -> region, or NoRegion
  nextJanitorKey,
  mem,              \* "fresh", "mapped" or "freed"
  prot,             \* page protection: "RW", "RO" or "NONE"
  content,          \* "zero", "secret" or "cipher": sealCipher is set
  slack,            \* the canary zone: "canary", "over"(written) or "zero"
  isWiped,          \* the regions whose wiped flag is set
  owner,            \* how far each region's owner is
  janitorKey,       \* the owner's key; 0 means never registered
  borrowed,         \* the regions with a borrow in flight
  lockedBy,         \* the job that holds a region's lock exclusively
  pc,               \* where each job is
  target,           \* the region whose lock a job peeked at
  taken,            \* the region a job's key resolved to under that lock
  fromLive,         \* ... and whether it came from the live set, canary armed
  call,             \* each WipeAllSecrets: "idle", "pass1", "pass2", "returned"
  todo,             \* the keys its current pass still has to start
  deferred          \* the keys left for the second pass

registry == <<regions, wiped, nextJanitorKey>>
memory == <<mem, prot, content, slack>>
owners == <<isWiped, owner, janitorKey, borrowed>>
jobs == <<lockedBy, pc, target, taken, fromLive>>
calls == <<call, todo, deferred>>

VARIABLES
  \* History, for the properties only.
  covered,          \* the regions registered when a call of WipeAllSecrets began
  left,             \* the regions it reported as left unwiped
  overflowed,       \* the regions whose canary a borrower really overwrote
  reported,         \* the regions ErrCanaryViolation was reported for
  unchecked,        \* the regions zeroed as ciphertext, canary unseen
  unwiped           \* the regions released without the wipe, which is reported too

history == <<covered, left, overflowed, reported, unchecked, unwiped>>
vars == <<registry, memory, owners, jobs, calls, history>>

OwnerStates == {"absent", "unclosed", "unfilled", "unprotected", "failed", "live",
                "dropped", "destroyed"}
JobStates == {"idle", "peeked", "waiting", "held", "resolved", "writable", "done"}

TypeOK ==
  /\ regions \in [Keys -> Regions \cup {NoRegion}]
  /\ wiped \in [Keys -> Regions \cup {NoRegion}]
  /\ nextJanitorKey \in Keys
  /\ mem \in [Regions -> {"fresh", "mapped", "freed"}]
  /\ prot \in [Regions -> {"RW", "RO", "NONE"}]
  /\ content \in [Regions -> {"zero", "secret", "cipher"}]
  /\ slack \in [Regions -> {"canary", "over", "zero"}]
  /\ isWiped \in SUBSET Regions
  /\ owner \in [Regions -> OwnerStates]
  /\ janitorKey \in [Regions -> Keys]
  /\ borrowed \in SUBSET Regions
  /\ lockedBy \in [Regions -> Jobs \cup {NoJob}]
  /\ pc \in [Jobs -> JobStates]
  /\ target \in [Jobs -> Regions \cup {NoRegion}]
  /\ taken \in [Jobs -> Regions \cup {NoRegion}]
  /\ fromLive \in [Jobs -> BOOLEAN]
  /\ call \in [Wipes -> {"idle", "pass1", "pass2", "returned"}]
  /\ todo \in [Wipes -> SUBSET Keys]
  /\ deferred \in [Wipes -> SUBSET Keys]
  /\ covered \in [Wipes -> SUBSET Regions]
  /\ left \in [Wipes -> SUBSET Regions]
  /\ overflowed \in SUBSET Regions
  /\ reported \in SUBSET Regions
  /\ unchecked \in SUBSET Regions
  /\ unwiped \in SUBSET Regions
  /\ \A j \in Jobs :
       /\ target[j] = NoRegion <=> pc[j] \in {"idle", "done"}
       /\ taken[j] = NoRegion <=> pc[j] \notin {"resolved", "writable"}

\* No region is mapped and no call is running; the regions in gone and the calls
\* in over have come and gone.
InitAfter(gone, over) ==
  /\ regions = [k \in Keys |-> NoRegion]
  /\ wiped = [k \in Keys |-> NoRegion]
  /\ nextJanitorKey = 0
  /\ mem = [r \in Regions |-> IF r \in gone THEN "freed" ELSE "fresh"]
  /\ prot = [r \in Regions |-> "RW"]
  /\ content = [r \in Regions |-> "zero"]
  /\ slack = [r \in Regions |-> "canary"]
  /\ isWiped = {}
  /\ owner = [r \in Regions |-> IF r \in gone THEN "destroyed" ELSE "absent"]
  /\ janitorKey = [r \in Regions |-> 0]
  /\ borrowed = {}
  /\ lockedBy = [r \in Regions |-> NoJob]
  /\ pc = [j \in Jobs |-> "idle"]
  /\ target = [j \in Jobs |-> NoRegion]
  /\ taken = [j \in Jobs |-> NoRegion]
  /\ fromLive = [j \in Jobs |-> FALSE]
  /\ call = [w \in Wipes |-> IF w \in over THEN "returned" ELSE "idle"]
  /\ todo = [w \in Wipes |-> {}]
  /\ deferred = [w \in Wipes |-> {}]
  /\ covered = [w \in Wipes |-> {}]
  /\ left = [w \in Wipes |-> {}]
  /\ overflowed = {}
  /\ reported = {}
  /\ unchecked = {}
  /\ unwiped = {}

\* A process that has just started.
Init == InitAfter({}, {})

-----------------------------------------------------------------------------
(* The region lock *)

Waiting(r) == \E j \in Jobs : pc[j] = "waiting" /\ target[j] = r
ExclusiveFree(r) == lockedBy[r] = NoJob /\ r \notin borrowed
SharedFree(r) == lockedBy[r] = NoJob /\ ~Waiting(r)

\* tryLock never barges ahead of a writer that waits.
TryFree(r) == ExclusiveFree(r) /\ ~Waiting(r)

-----------------------------------------------------------------------------
(* Owners: construction, use, loss *)

\* nextJanitorKey.Add(1), and register's refusals: the reserved zero, and a key
\* that is filed in either set.
MintedKey == (nextJanitorKey + 1) % KeyMod
KeyRefused(k) == k = 0 \/ regions[k] # NoRegion \/ wiped[k] # NoRegion

\* Allocate, arm the canary, register: newSecureBuffer, NewArena and
\* initLocked.  The janitor knows the region before a secret is in it.
Register(r) ==
  /\ owner[r] = "absent"
  /\ ~KeyRefused(MintedKey)
  /\ nextJanitorKey' = MintedKey
  /\ regions' = [regions EXCEPT ![MintedKey] = r]
  /\ janitorKey' = [janitorKey EXCEPT ![r] = MintedKey]
  /\ mem' = [mem EXCEPT ![r] = "mapped"]
  /\ owner' = [owner EXCEPT ![r] =
                  IF r \in ClosedAtRest THEN "unclosed" ELSE "unfilled"]
  /\ UNCHANGED <<wiped, prot, content, slack, isWiped, borrowed, jobs, calls,
                 history>>

\* A refused registration: the constructor frees the mapping again and fails.  The
\* region stays for a constructor that is called later.
RegisterRefused(r) ==
  /\ owner[r] = "absent"
  /\ KeyRefused(MintedKey)
  /\ nextJanitorKey' = MintedKey
  /\ UNCHANGED <<regions, wiped, memory, owners, jobs, calls, history>>

\* newSecureBuffer's last step for a closed-at-rest buffer: PROT_NONE, with the
\* region registered and its lock not held.  On failure the buffer is destroyed.
CloseNewBuffer(r) ==
  /\ owner[r] = "unclosed"
  /\ \/ /\ prot' = [prot EXCEPT ![r] = "NONE"]
        /\ owner' = [owner EXCEPT ![r] = "unfilled"]
     \/ /\ owner' = [owner EXCEPT ![r] = "failed"]
        /\ UNCHANGED prot
  /\ UNCHANGED <<registry, mem, content, slack, isWiped, janitorKey, borrowed,
                 jobs, calls, history>>

\* The copy that does not look at the wiped flag.
fillInitialUnchecked(r) ==
  /\ owner[r] = "unfilled"
  /\ r \notin Keyring
  /\ ExclusiveFree(r)
  /\ content' = [content EXCEPT ![r] = "secret"]
  /\ owner' = [owner EXCEPT ![r] = "live"]
  /\ UNCHANGED <<registry, mem, prot, slack, isWiped, janitorKey, borrowed,
                 jobs, calls, history>>

\* fillInitial: copy the secret in, under the exclusive lock; refuse a region
\* that was wiped since it was registered.  Opening a closed-at-rest buffer for
\* the copy can fail too, and so can closing it again.
fillInitial(r) ==
  /\ owner[r] = "unfilled"
  /\ r \notin Keyring
  /\ ExclusiveFree(r)
  /\ \/ /\ r \notin isWiped
        /\ content' = [content EXCEPT ![r] = "secret"]
        /\ owner' = [owner EXCEPT ![r] = "live"]
        /\ UNCHANGED prot
     \/ /\ r \in ClosedAtRest \ isWiped
        /\ content' = [content EXCEPT ![r] = "secret"]
        /\ owner' = [owner EXCEPT ![r] = "failed"]
        /\ prot' = [prot EXCEPT ![r] = "RW"]
     \/ /\ r \in isWiped \cup ClosedAtRest
        /\ owner' = [owner EXCEPT ![r] = "failed"]
        /\ UNCHANGED <<content, prot>>
  /\ UNCHANGED <<registry, mem, slack, isWiped, janitorKey, borrowed, jobs, calls,
                 history>>

\* NewEmptyBuffer and NewArena return without filling.
ReturnEmpty(r) ==
  /\ owner[r] = "unfilled"
  /\ r \notin Keyring
  /\ owner' = [owner EXCEPT ![r] = "live"]
  /\ UNCHANGED <<registry, memory, isWiped, janitorKey, borrowed, jobs, calls,
                 history>>

\* initLocked fills the registered prekey under its lock, whether or not it was
\* wiped in between, and releases it when the random source fails.
FillPrekey(r) ==
  /\ owner[r] = "unfilled"
  /\ r \in Keyring
  /\ ExclusiveFree(r)
  /\ \/ /\ content' = [content EXCEPT ![r] = "secret"]
        /\ owner' = [owner EXCEPT ![r] = "unprotected"]
     \/ /\ owner' = [owner EXCEPT ![r] = "failed"]
        /\ UNCHANGED content
  /\ UNCHANGED <<registry, mem, prot, slack, isWiped, janitorKey, borrowed,
                 jobs, calls, history>>

\* initLocked's last step: PROT_READ, after the lock was released.
ProtectPrekey(r) ==
  /\ owner[r] = "unprotected"
  /\ \/ /\ prot' = [prot EXCEPT ![r] = "RO"]
        /\ owner' = [owner EXCEPT ![r] = "live"]
     \/ /\ owner' = [owner EXCEPT ![r] = "failed"]
        /\ UNCHANGED prot
  /\ UNCHANGED <<registry, mem, content, slack, isWiped, janitorKey, borrowed,
                 jobs, calls, history>>

\* A borrow: shared lock, not wiped; a closed-at-rest buffer is opened for it.
\* Sealed buffers (PROT_NONE otherwise) refuse.
Borrow(r) ==
  /\ owner[r] = "live"
  /\ SharedFree(r)
  /\ r \notin borrowed
  /\ r \notin isWiped
  /\ prot[r] # "NONE" \/ r \in ClosedAtRest
  /\ borrowed' = borrowed \cup {r}
  /\ prot' = IF r \in ClosedAtRest THEN [prot EXCEPT ![r] = "RW"] ELSE prot
  /\ UNCHANGED <<registry, mem, content, slack, isWiped, owner, janitorKey,
                 jobs, calls, history>>

\* The callback returns; it may have written its bytes, and past their end.  A
\* closed-at-rest buffer that cannot be closed stays open.
EndBorrow(r) ==
  /\ r \in borrowed
  /\ borrowed' = borrowed \ {r}
  /\ \/ UNCHANGED <<content, slack, overflowed>>
     \/ /\ prot[r] = "RW"
        /\ content' = [content EXCEPT ![r] = "secret"]
        /\ UNCHANGED <<slack, overflowed>>
     \/ /\ prot[r] = "RW"
        /\ r \in Overrun
        /\ slack' = [slack EXCEPT ![r] = "over"]
        /\ overflowed' = overflowed \cup {r}
        /\ UNCHANGED content
  /\ \/ prot' = IF r \in ClosedAtRest THEN [prot EXCEPT ![r] = "NONE"] ELSE prot
     \/ r \in ClosedAtRest /\ UNCHANGED prot
  /\ UNCHANGED <<registry, mem, isWiped, owner, janitorKey, jobs, calls,
                 covered, left, reported, unchecked, unwiped>>

\* ReadOnly, ReadWrite, Seal and Unseal, under the exclusive lock.  On Windows
\* Seal encrypts the whole region, the canary zone too, and Unseal decrypts it.
SetProtection(r, p) ==
  /\ owner[r] = "live"
  /\ r \notin isWiped \cup ClosedAtRest \cup Keyring
  /\ ExclusiveFree(r)
  /\ prot[r] # p
  /\ prot' = [prot EXCEPT ![r] = p]
  /\ \/ /\ r \in Ciphered /\ p = "NONE"
        /\ content' = [content EXCEPT ![r] = "cipher"]
     \/ /\ content[r] = "cipher" /\ p # "NONE"
        /\ content' = [content EXCEPT ![r] = "secret"]
     \/ /\ r \notin Ciphered \/ (content[r] # "cipher" /\ p # "NONE")
        /\ UNCHANGED content
  /\ UNCHANGED <<registry, mem, slack, owners, jobs, calls, history>>

\* The last handle becomes unreachable: nobody borrows or destroys any more.
Drop(r) ==
  /\ owner[r] = "live"
  /\ r \in Lost \ borrowed
  /\ \A j \in DestroyJobs : j.on = r => pc[j] = "idle"
  /\ owner' = [owner EXCEPT ![r] = "dropped"]
  /\ UNCHANGED <<registry, memory, isWiped, janitorKey, borrowed, jobs, calls,
                 history>>

-----------------------------------------------------------------------------
(* Starting a job *)

\* Only the live set is searched.
PeekLive(k) == {regions[k]} \ {NoRegion}

\* peekAny: the region filed under a key, in either set.
PeekAny(k) == {regions[k], wiped[k]} \ {NoRegion}

\* Destroy, up to its wait for the lock.
BeginDestroy(j) ==
  /\ j \in DestroyJobs
  /\ pc[j] = "idle"
  /\ j.on \notin Keyring
  /\ owner[j.on] \in {"live", "failed", "destroyed"}
  /\ janitorKey[j.on] # 0
  /\ pc' = [pc EXCEPT ![j] = "waiting"]
  /\ target' = [target EXCEPT ![j] = j.on]
  /\ UNCHANGED <<registry, memory, owners, lockedBy, taken, fromLive, calls,
                 history>>

\* release(key, false), its peek: the garbage-collection cleanup of a dropped
\* owner; and the seal keyring, giving up a prekey that was wiped or not set up.
BeginCleanup(j) ==
  /\ j \in CleanupJobs
  /\ pc[j] = "idle"
  /\ \/ owner[j.on] = "dropped"
     \/ j.on \in Keyring /\ owner[j.on] = "live" /\ j.on \in isWiped
     \/ j.on \in Keyring /\ owner[j.on] = "failed"
  /\ \/ \E r \in PeekAny(janitorKey[j.on]) :
          /\ target' = [target EXCEPT ![j] = r]
          /\ pc' = [pc EXCEPT ![j] = "waiting"]
     \/ /\ PeekAny(janitorKey[j.on]) = {}
        /\ pc' = [pc EXCEPT ![j] = "done"]
        /\ UNCHANGED target
  /\ UNCHANGED <<registry, memory, owners, lockedBy, taken, fromLive, calls,
                 history>>

\* WipeAllSecrets: copy the keys of both sets.
BeginWipeAll(w) ==
  /\ call[w] = "idle"
  /\ call' = [call EXCEPT ![w] = "pass1"]
  /\ todo' = [todo EXCEPT ![w] = {k \in Keys : PeekAny(k) # {}}]
  /\ covered' = [covered EXCEPT ![w] = UNION {PeekAny(k) : k \in Keys}]
  /\ UNCHANGED <<registry, memory, owners, jobs, deferred, left, overflowed,
                 reported, unchecked, unwiped>>

\* The job a call is running in its first pass, if any.
Running(w) ==
  {j \in WipeJobs : j.call = w /\ pc[j] \notin {"idle", "done"}}

\* tryWipeInPlace's peek.  The first pass takes the keys one at a time.
TryPeek(j) ==
  /\ j \in WipeJobs
  /\ call[j.call] = "pass1"
  /\ Running(j.call) = {}
  /\ j.key \in todo[j.call]
  /\ todo' = [todo EXCEPT ![j.call] = @ \ {j.key}]
  /\ \/ \E r \in PeekAny(j.key) :
          /\ target' = [target EXCEPT ![j] = r]
          /\ pc' = [pc EXCEPT ![j] = "peeked"]
     \/ /\ PeekAny(j.key) = {}
        /\ pc' = [pc EXCEPT ![j] = "done"]
        /\ UNCHANGED target
  /\ UNCHANGED <<registry, memory, owners, lockedBy, taken, fromLive, call,
                 deferred, history>>

\* tryWipeInPlace's tryLock; a lock that is held defers the key.
TryLock(j) ==
  /\ pc[j] = "peeked"
  /\ \/ /\ TryFree(target[j])
        /\ lockedBy' = [lockedBy EXCEPT ![target[j]] = j]
        /\ pc' = [pc EXCEPT ![j] = "held"]
        /\ UNCHANGED <<target, deferred>>
     \/ /\ ~TryFree(target[j])
        /\ deferred' = [deferred EXCEPT ![j.call] = @ \cup {j.key}]
        /\ pc' = [pc EXCEPT ![j] = "idle"]
        /\ target' = [target EXCEPT ![j] = NoRegion]
        /\ UNCHANGED lockedBy
  /\ UNCHANGED <<registry, memory, owners, taken, fromLive, call, todo,
                 history>>

\* What the first pass could not lock is given up.
SecondPassSkips(w) ==
  /\ call[w] = "pass1"
  /\ todo[w] = {}
  /\ Running(w) = {}
  /\ call' = [call EXCEPT ![w] = "pass2"]
  /\ UNCHANGED <<registry, memory, owners, jobs, todo, deferred, history>>

\* The first pass is over: the second one starts a goroutine per deferred key.
SecondPass(w) ==
  /\ call[w] = "pass1"
  /\ todo[w] = {}
  /\ Running(w) = {}
  /\ call' = [call EXCEPT ![w] = "pass2"]
  /\ todo' = [todo EXCEPT ![w] = deferred[w]]
  /\ UNCHANGED <<registry, memory, owners, jobs, deferred, history>>

\* One key after the other, like a loop over the deferred slice.
BlockingPeekInOrder(j) ==
  /\ j \in WipeJobs
  /\ call[j.call] = "pass2"
  /\ Running(j.call) = {}
  /\ j.key \in todo[j.call]
  /\ todo' = [todo EXCEPT ![j.call] = @ \ {j.key}]
  /\ \/ \E r \in PeekAny(j.key) :
          /\ target' = [target EXCEPT ![j] = r]
          /\ pc' = [pc EXCEPT ![j] = "waiting"]
     \/ /\ PeekAny(j.key) = {}
        /\ pc' = [pc EXCEPT ![j] = "done"]
        /\ UNCHANGED target
  /\ UNCHANGED <<registry, memory, owners, lockedBy, taken, fromLive, call,
                 deferred, history>>

\* wipeInPlace's peek, in a goroutine of its own.
BlockingPeek(j) ==
  /\ j \in WipeJobs
  /\ call[j.call] = "pass2"
  /\ j.key \in todo[j.call]
  /\ todo' = [todo EXCEPT ![j.call] = @ \ {j.key}]
  /\ \/ \E r \in PeekAny(j.key) :
          /\ target' = [target EXCEPT ![j] = r]
          /\ pc' = [pc EXCEPT ![j] = "waiting"]
     \/ /\ PeekAny(j.key) = {}
        /\ pc' = [pc EXCEPT ![j] = "done"]
        /\ UNCHANGED target
  /\ UNCHANGED <<registry, memory, owners, lockedBy, taken, fromLive, call,
                 deferred, history>>

\* wg.Wait returns, and WipeAllSecrets with it.
ReturnWipeAll(w) ==
  /\ call[w] = "pass2"
  /\ todo[w] = {}
  /\ Running(w) = {}
  /\ call' = [call EXCEPT ![w] = "returned"]
  /\ UNCHANGED <<registry, memory, owners, jobs, todo, deferred, history>>

\* lock() returns: whoever borrowed has left.
Acquire(j) ==
  /\ pc[j] = "waiting"
  /\ ExclusiveFree(target[j])
  /\ lockedBy' = [lockedBy EXCEPT ![target[j]] = j]
  /\ pc' = [pc EXCEPT ![j] = "held"]
  /\ UNCHANGED <<registry, memory, owners, target, taken, fromLive, calls,
                 history>>

-----------------------------------------------------------------------------
(* Resolving the key again, under the region's lock *)

Unlock(j) == lockedBy' = [lockedBy EXCEPT ![target[j]] = NoJob]

\* The job is over, and what it knew is forgotten.
Finish(j) ==
  /\ pc' = [pc EXCEPT ![j] = "done"]
  /\ target' = [target EXCEPT ![j] = NoRegion]
  /\ taken' = [taken EXCEPT ![j] = NoRegion]
  /\ fromLive' = [fromLive EXCEPT ![j] = FALSE]

\* The job's key does not name the region whose lock it holds (any more).
GiveUp(j) ==
  /\ Unlock(j)
  /\ Finish(j)
  /\ UNCHANGED <<registry, memory, owners, calls, history>>

Resolve(j, r, live) ==
  /\ pc' = [pc EXCEPT ![j] = "resolved"]
  /\ taken' = [taken EXCEPT ![j] = r]
  /\ fromLive' = [fromLive EXCEPT ![j] = live]

\* Delete the entry for k from whichever set holds it, the live set first.
TakeOut(k) ==
  IF regions[k] # NoRegion
  THEN regions' = [regions EXCEPT ![k] = NoRegion] /\ UNCHANGED wiped
  ELSE wiped' = [wiped EXCEPT ![k] = NoRegion] /\ UNCHANGED regions

\* takeAny that leaves the entry where it was.
TakeAnyKeepsEntry(j) ==
  /\ pc[j] = "held"
  /\ j \in DestroyJobs
  /\ \/ /\ owner[j.on] = "destroyed" \/ PeekAny(janitorKey[j.on]) = {}
        /\ GiveUp(j)
     \/ /\ owner[j.on] # "destroyed"
        /\ \E r \in PeekAny(janitorKey[j.on]) :
             Resolve(j, r, regions[janitorKey[j.on]] = r)
        /\ UNCHANGED <<registry, memory, owners, lockedBy, target, calls,
                       history>>

\* Destroy decrypts a sealed buffer before it is released, so that its canary can
\* be checked.  Write access or the decryption may fail.
DecryptForDestroy(r) ==
  \/ /\ content[r] = "cipher"
     /\ prot' = [prot EXCEPT ![r] = "RW"]
     /\ content' \in {content, [content EXCEPT ![r] = "secret"]}
  \/ UNCHANGED <<prot, content>>

\* Destroy under its lock: nothing to do for a destroyed owner; otherwise decrypt,
\* then takeAny.  (Its two registry sections are one step: the entry cannot move
\* between the sets while the region's lock is held.)
TakeAny(j) ==
  /\ pc[j] = "held"
  /\ j \in DestroyJobs
  /\ \/ /\ owner[j.on] = "destroyed" \/ PeekAny(janitorKey[j.on]) = {}
        /\ GiveUp(j)
     \/ /\ owner[j.on] # "destroyed"
        /\ \E r \in PeekAny(janitorKey[j.on]) :
             Resolve(j, r, regions[janitorKey[j.on]] = r)
        /\ TakeOut(janitorKey[j.on])
        /\ DecryptForDestroy(j.on)
        /\ UNCHANGED <<nextJanitorKey, mem, slack, owners, lockedBy, target, calls,
                       history>>

\* takeAnyIf: take the registration the job has locked, and no other.
TakeAnyIf(j) ==
  /\ pc[j] = "held"
  /\ j \in CleanupJobs
  /\ \/ /\ target[j] \notin PeekAny(janitorKey[j.on])
        /\ GiveUp(j)
     \/ /\ target[j] \in PeekAny(janitorKey[j.on])
        /\ Resolve(j, target[j], regions[janitorKey[j.on]] = target[j])
        /\ TakeOut(janitorKey[j.on])
        /\ UNCHANGED <<nextJanitorKey, memory, owners, lockedBy, target, calls,
                       history>>

\* The key alone identifies the region.
MoveToWipedByKey(j) ==
  /\ pc[j] = "held"
  /\ j \in WipeJobs
  /\ \/ /\ PeekAny(j.key) = {}
        /\ GiveUp(j)
     \/ /\ \E r \in PeekAny(j.key) :
             /\ Resolve(j, r, regions[j.key] = r)
             /\ regions' = [regions EXCEPT ![j.key] = NoRegion]
             /\ wiped' = [wiped EXCEPT ![j.key] = r]
        /\ UNCHANGED <<nextJanitorKey, memory, owners, lockedBy, target, calls,
                       history>>

\* moveToWipedIf: in one section of the registry's mutex, file the locked
\* registration in the wiped set.
MoveToWipedIf(j) ==
  /\ pc[j] = "held"
  /\ j \in WipeJobs
  /\ \/ /\ target[j] \notin PeekAny(j.key)
        /\ GiveUp(j)
     \/ /\ target[j] \in PeekAny(j.key)
        /\ Resolve(j, target[j], regions[j.key] = target[j])
        /\ regions' = [regions EXCEPT ![j.key] = NoRegion]
        /\ wiped' = [wiped EXCEPT ![j.key] = target[j]]
        /\ UNCHANGED <<nextJanitorKey, memory, owners, lockedBy, target, calls,
                       history>>

-----------------------------------------------------------------------------
(* wipeAndFree *)

\* restoreWriteAccess succeeds.
RestoreWriteAccess(j) ==
  /\ pc[j] = "resolved"
  /\ prot' = [prot EXCEPT ![taken[j]] = "RW"]
  /\ pc' = [pc EXCEPT ![j] = "writable"]
  /\ UNCHANGED <<registry, mem, content, slack, owners, lockedBy, target, taken,
                 fromLive, calls, history>>

\* restoreWriteAccess fails in a wipe pass: the region is left as it was, and
\* goes back to the live set if it came from there (errWipeSkipped, returnToLive).
WipeSkipped(j) ==
  /\ pc[j] = "resolved"
  /\ j \in WipeJobs
  /\ left' = [left EXCEPT ![j.call] = @ \cup {taken[j]}]
  /\ IF fromLive[j] /\ wiped[j.key] = taken[j]
     THEN /\ wiped' = [wiped EXCEPT ![j.key] = NoRegion]
          /\ regions' = [regions EXCEPT ![j.key] = taken[j]]
     ELSE UNCHANGED <<regions, wiped>>
  /\ Unlock(j)
  /\ Finish(j)
  /\ UNCHANGED <<nextJanitorKey, memory, owners, calls, covered, overflowed,
                 reported, unchecked, unwiped>>

\* The owner of a region that Destroy or the cleanup has released.
Released(r) ==
  /\ mem' = [mem EXCEPT ![r] = "freed"]
  /\ owner' = [owner EXCEPT ![r] = "destroyed"]

\* restoreWriteAccess fails in a release: the region is unmapped without a wipe.
ReleaseUnwiped(j) ==
  /\ pc[j] = "resolved"
  /\ j \notin WipeJobs
  /\ Released(taken[j])
  /\ unwiped' = unwiped \cup {taken[j]}
  /\ Unlock(j)
  /\ Finish(j)
  /\ UNCHANGED <<registry, prot, content, slack, isWiped, janitorKey, borrowed,
                 calls, covered, left, overflowed, reported, unchecked>>

\* The canary is verified in ciphertext, where the pattern cannot be, too.
CheckAlwaysAndWipe(j) ==
  /\ reported' = IF /\ fromLive[j]
                    /\ taken[j] \notin Keyring
                    /\ content[taken[j]] = "cipher" \/ slack[taken[j]] # "canary"
                 THEN reported \cup {taken[j]} ELSE reported
  /\ content' = [content EXCEPT ![taken[j]] = "zero"]
  /\ slack' = [slack EXCEPT ![taken[j]] = "zero"]
  /\ UNCHANGED unchecked

\* Verify the canary (a layout kept from the live set is armed; the wiped set's
\* is cleared and the keyring has none), but not in ciphertext; then zero the
\* whole region.
CheckAndWipe(j) ==
  /\ reported' = IF /\ fromLive[j]
                    /\ taken[j] \notin Keyring
                    /\ content[taken[j]] # "cipher"
                    /\ slack[taken[j]] # "canary"
                 THEN reported \cup {taken[j]} ELSE reported
  /\ unchecked' = IF content[taken[j]] = "cipher"
                  THEN unchecked \cup {taken[j]} ELSE unchecked
  /\ content' = [content EXCEPT ![taken[j]] = "zero"]
  /\ slack' = [slack EXCEPT ![taken[j]] = "zero"]

\* wipeAndFree(unmap = false), then markWiped.  (A job at "writable" whose pages
\* are not RW any more has faulted and goes no further: see NoFault.)
WipeInPlace(j) ==
  /\ pc[j] = "writable"
  /\ j \in WipeJobs
  /\ prot[taken[j]] = "RW"
  /\ CheckAndWipe(j)
  /\ isWiped' = isWiped \cup {taken[j]}
  /\ Unlock(j)
  /\ Finish(j)
  /\ UNCHANGED <<registry, mem, prot, owner, janitorKey, borrowed, calls,
                 covered, left, overflowed, unwiped>>

\* wipeAndFree(unmap = true): the region is retired, its owner knows.
WipeAndFree(j) ==
  /\ pc[j] = "writable"
  /\ j \notin WipeJobs
  /\ prot[taken[j]] = "RW"
  /\ CheckAndWipe(j)
  /\ Released(taken[j])
  /\ Unlock(j)
  /\ Finish(j)
  /\ UNCHANGED <<registry, prot, isWiped, janitorKey, borrowed, calls, covered,
                 left, overflowed, unwiped>>

-----------------------------------------------------------------------------

Owner(r) ==
  \/ Register(r) \/ RegisterRefused(r) \/ CloseNewBuffer(r)
  \/ fillInitial(r) \/ ReturnEmpty(r) \/ FillPrekey(r) \/ ProtectPrekey(r)
  \/ Borrow(r) \/ EndBorrow(r) \/ (\E p \in Protections : SetProtection(r, p))
  \/ Drop(r)

JobStep(j) ==
  \/ TryLock(j) \/ Acquire(j)
  \/ TakeAny(j) \/ TakeAnyIf(j) \/ MoveToWipedIf(j)
  \/ RestoreWriteAccess(j) \/ WipeSkipped(j) \/ ReleaseUnwiped(j)
  \/ WipeInPlace(j) \/ WipeAndFree(j)

Call(w) == BeginWipeAll(w) \/ SecondPass(w) \/ ReturnWipeAll(w)

Next ==
  \/ \E r \in Regions : Owner(r)
  \/ \E j \in Jobs :
       \/ BeginDestroy(j) \/ BeginCleanup(j)
       \/ TryPeek(j) \/ BlockingPeek(j) \/ JobStep(j)
  \/ \E w \in Wipes : Call(w)

Spec == Init /\ [][Next]_vars

(***************************************************************************)
(* Fairness.  Jobs and calls of WipeAllSecrets that have started keep      *)
(* running; lock() is only a wait for the borrows in front of it.  The     *)
(* runtime runs the cleanup of what was dropped, and a constructor that    *)
(* fails calls Destroy.  No borrow is obliged to end: a property that      *)
(* needs that says so.                                                     *)
(***************************************************************************)
Fairness ==
  /\ \A j \in Jobs :
       WF_vars(TryPeek(j) \/ BlockingPeek(j) \/ JobStep(j))
  /\ \A w \in Wipes : WF_vars(SecondPass(w) \/ ReturnWipeAll(w))
  /\ \A j \in CleanupJobs : WF_vars(BeginCleanup(j))
  /\ \A j \in DestroyJobs :
       WF_vars(owner[j.on] = "failed" /\ BeginDestroy(j))

FairSpec == Spec /\ Fairness

-----------------------------------------------------------------------------
(* Properties *)

Filed(r) == \E k \in Keys : r \in PeekAny(k)
AtWork == {j \in Jobs : pc[j] \in {"resolved", "writable"}}

\* A release (Destroy or cleanup) has taken the region and is wiping it.
BeingReleased(r) == \E j \in AtWork \ WipeJobs : taken[j] = r

\* Each region is freed exactly once, touched only while it is mapped, and not
\* lost: Destroy, the cleanup and the wipe passes may race, and the first taker
\* wins; a registered region is mapped and stays in one of the two sets until a
\* release takes it (the registry has no gap a cleanup could look into); and a
\* Destroy or a cleanup that has finished has unmapped its region.
FreedOnce ==
  /\ TypeOK
  /\ \A j \in AtWork : mem[taken[j]] = "mapped"
  /\ \A r \in Regions : /\ Filed(r) => mem[r] = "mapped"
                        /\ mem[r] = "mapped" => Filed(r) \/ BeingReleased(r)
  /\ \A j \in DestroyJobs \cup CleanupJobs : pc[j] = "done" => mem[j.on] = "freed"

\* The pages a job is about to read and zero are still as restoreWriteAccess left
\* them.
StillWritable(j) == pc[j] = "writable" => prot[taken[j]] = "RW"

\* wipeAndFree only ever runs on the region whose lock the job holds, with no
\* borrow in flight, even if keys are reused; and, but for the two owners that
\* change a protection outside the lock (see NoFault), it does not fault half way.
WipesWhatItLocked ==
  \A j \in AtWork :
    /\ taken[j] = target[j]
    /\ lockedBy[taken[j]] = j
    /\ taken[j] \notin borrowed
    /\ taken[j] \notin ClosedAtRest \cup Keyring => StillWritable(j)

\* No wipe faults half way, of any region.
NoFault == \A j \in AtWork : StillWritable(j)

\* A region the emergency wipe has filed, and nobody is working on under its lock,
\* holds zeros and its owner knows; a region whose wiped flag is set holds zeros.
HoldsZeros(r) ==
  /\ r \in isWiped => content[r] = "zero"
  /\ (\E k \in Keys : wiped[k] = r) /\ lockedBy[r] = NoJob =>
       content[r] = "zero" /\ r \in isWiped

\* Nothing brings the secret of a wiped buffer or arena back, although owners are
\* wiped while they are still being constructed and filled.
BuffersStayWiped == \A r \in Regions \ Keyring : HoldsZeros(r)

\* The wiped set's one invariant, of every region filed there.
WipedHoldsZeros == \A r \in Regions : HoldsZeros(r)

\* When WipeAllSecrets returns, every buffer and arena that was registered when it
\* was called has been zeroed or released, is reported as left unwiped, or is in
\* the hands of a concurrent release that holds its lock.  (A prekey may hold a
\* secret again: see WipedHoldsZeros.)
WipeAllIsComplete ==
  \A w \in Wipes :
    call[w] = "returned" =>
      \A r \in covered[w] \ (left[w] \cup Keyring) :
        mem[r] = "freed" \/ content[r] = "zero" \/ BeingReleased(r)

\* ErrCanaryViolation is reported for a region only if it was overwritten, and an
\* overwritten region is not released in silence, unless it was zeroed as
\* ciphertext: sealed on Windows, when the emergency wipe or the cleanup came, or
\* Destroy could not decrypt it (wipeAndFree).
CanaryReports ==
  /\ reported \subseteq overflowed
  /\ \A r \in overflowed : mem[r] = "freed" => r \in reported \cup unwiped \cup unchecked
  /\ unchecked \subseteq Ciphered

\* One borrow that never ends delays its own region only: a region whose borrows
\* do end is wiped, released or reported, whatever the others do.
NotHeldHostage ==
  \A w \in Wipes, r \in Regions :
    (([]<>(r \notin borrowed))
       => ((call[w] = "pass1" /\ r \in covered[w]) ~>
             \/ content[r] = "zero" \/ mem[r] = "freed" \/ r \in left[w]))

\* A region whose owner was dropped, or whose constructor gave up because it was
\* wiped meanwhile, is unmapped in the end, even if that races the emergency wipe.
OrphansReclaimed ==
  \A r \in Regions : owner[r] \in {"dropped", "failed"} ~> mem[r] = "freed"
=============================================================================
