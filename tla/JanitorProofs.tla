---------------------------- MODULE JanitorProofs ----------------------------
(***************************************************************************)
(* Proofs about Janitor, for any number of regions, callers of Destroy and *)
(* calls of WipeAllSecrets, and for keys of any width: each region is      *)
(* freed once and never lost, a wipe runs on the region whose lock it      *)
(* holds, what was wiped stays wiped, WipeAllSecrets leaves nothing it     *)
(* does not report, and canary violations are reported when they happened. *)
(***************************************************************************)
EXTENDS Janitor, TLAPS

Working(j) == pc[j] \in {"resolved", "writable"}
Locks(j) == pc[j] \in {"held", "resolved", "writable"}
Idle(j) == pc[j] \in {"idle", "done"}

\* A release has region r in hand: it is filed nowhere, and about to be unmapped.
Releasing(r) == \E j \in Jobs \ WipeJobs : Working(j) /\ taken[j] = r

\* The states an owner can be in beside the states of its mapping.
OwnerInv ==
  \A r \in Regions :
    /\ owner[r] = "absent" <=> mem[r] = "fresh"
    /\ owner[r] = "destroyed" <=> mem[r] = "freed"
    /\ mem[r] = "mapped" => janitorKey[r] # 0
    /\ mem[r] = "fresh" => r \notin isWiped
    /\ owner[r] = "unclosed" => r \in ClosedAtRest
    /\ owner[r] = "unprotected" => r \in Keyring
    /\ owner[r] = "dropped" =>
         r \notin Keyring /\ \A j \in DestroyJobs : j.on = r => pc[j] = "idle"
    /\ r \in borrowed => owner[r] = "live" /\ r \notin isWiped /\ lockedBy[r] = NoJob

\* A key files one region, in one of the sets, under that region's own key, and a
\* mapped region is filed unless a release has taken it.
FileInv ==
  /\ \A k \in Keys : regions[k] = NoRegion \/ wiped[k] = NoRegion
  /\ \A k \in Keys, r \in Regions :
       regions[k] = r => janitorKey[r] = k /\ mem[r] = "mapped" /\ r \notin isWiped
  /\ \A k \in Keys, r \in Regions :
       wiped[k] = r =>
         /\ janitorKey[r] = k /\ mem[r] = "mapped"
         /\ \/ r \in isWiped
            \/ \E j \in WipeJobs : Working(j) /\ taken[j] = r /\ fromLive[j]
  /\ \A r \in Regions :
       mem[r] = "mapped" =>
         regions[janitorKey[r]] = r \/ wiped[janitorKey[r]] = r \/ Releasing(r)

\* Who holds a region's lock.
LockInv ==
  /\ \A r \in Regions :
       lockedBy[r] # NoJob => Locks(lockedBy[r]) /\ target[lockedBy[r]] = r
  /\ \A j \in Jobs : Locks(j) => lockedBy[target[j]] = j

\* What a job knows of the region whose key it has resolved under the lock.
WorkInv ==
  \A j \in Jobs : Working(j) =>
    /\ taken[j] = target[j]
    /\ mem[taken[j]] = "mapped"
    /\ fromLive[j] <=> taken[j] \notin isWiped
    /\ j \in WipeJobs => wiped[j.key] = taken[j]
    /\ j \notin WipeJobs => \A k \in Keys : regions[k] # taken[j] /\ wiped[k] # taken[j]
    /\ pc[j] = "writable" /\ taken[j] \notin ClosedAtRest \cup Keyring => prot[taken[j]] = "RW"

\* A release works on its own region, and is not over before the region is.
ReleaseInv ==
  \A j \in Jobs \ WipeJobs :
    /\ ~Idle(j) => target[j] = j.on /\ mem[j.on] # "fresh" /\ pc[j] # "peeked"
    /\ pc[j] = "done" => mem[j.on] = "freed"
    /\ j \in DestroyJobs /\ pc[j] # "idle" => j.on \notin Keyring

ZeroInv == \A r \in Regions \ Keyring : r \in isWiped => content[r] = "zero"

\* The prekey is not writable for a borrower, and an overwritten canary is still
\* to be seen until it is reported or given up.
CanaryInv ==
  /\ \A r \in Keyring : owner[r] = "live" /\ r \notin isWiped =>
       prot[r] = "RO" \/ \E j \in Jobs : pc[j] = "writable" /\ taken[j] = r
  /\ reported \subseteq overflowed /\ unchecked \subseteq Ciphered
  /\ \A r \in Regions :
       /\ slack[r] = "zero" => r \in isWiped \/ mem[r] = "freed"
       /\ slack[r] = "over" => r \in overflowed
       /\ content[r] = "cipher" => r \in Ciphered
       /\ r \in overflowed =>
            /\ r \notin Keyring /\ slack[r] # "canary"
            /\ r \in isWiped \/ mem[r] = "freed" => r \in reported \cup unwiped \cup unchecked

\* The region that call w must still deal with, and has not lost sight of.
Pending(w, r) ==
  \/ janitorKey[r] \in todo[w]
  \/ call[w] = "pass1" /\ janitorKey[r] \in deferred[w]
  \/ \E j \in WipeJobs : j.call = w /\ j.key = janitorKey[r] /\ ~Idle(j) /\ target[j] = r

CallInv ==
  \A w \in Wipes :
    /\ \A r \in covered[w] :
         /\ mem[r] # "fresh"
         /\ r \in left[w] \/ r \in isWiped \/ mem[r] = "freed" \/ Releasing(r) \/ Pending(w, r)
    /\ \A j \in WipeJobs : j.call = w =>
         /\ pc[j] = "peeked" => call[w] = "pass1"
         /\ call[w] = "pass2" /\ j.key \in todo[w] => Idle(j)
         /\ call[w] = "returned" => Idle(j)
    /\ call[w] = "returned" => todo[w] = {}

IInv ==
  /\ TypeOK /\ OwnerInv /\ FileInv /\ LockInv /\ WorkInv /\ ReleaseInv /\ ZeroInv
  /\ CanaryInv /\ CallInv
-----------------------------------------------------------------------------
(* Jobs, locks and frames. *)

\* The three kinds of job, and what a job's record names.
LEMMA JobKinds ==
  /\ DestroyJobs \subseteq Jobs /\ CleanupJobs \subseteq Jobs /\ WipeJobs \subseteq Jobs
  /\ \A j \in WipeJobs : j \notin DestroyJobs /\ j \notin CleanupJobs
  /\ \A j \in DestroyJobs : j \notin CleanupJobs
  /\ Jobs \ WipeJobs = DestroyJobs \cup CleanupJobs
  /\ \A j \in WipeJobs : j.call \in Wipes /\ j.key \in Keys
  /\ \A j, q \in WipeJobs : j.call = q.call /\ j.key = q.key => j = q
  /\ \A j \in Jobs \ WipeJobs : j.on \in Regions
  /\ \A j, q \in CleanupJobs : j.on = q.on => j = q
<1>1. \A j \in DestroyJobs : j.op = "destroy" /\ j.on \in Regions
  BY DEF DestroyJobs
<1>2. \A j \in CleanupJobs : j.op = "cleanup" /\ j.on \in Regions
  BY DEF CleanupJobs
<1>3. \A j \in WipeJobs : j.op = "wipe" /\ j.call \in Wipes /\ j.key \in Keys
  BY DEF WipeJobs
<1>4. \A j, q \in WipeJobs : j.call = q.call /\ j.key = q.key => j = q
  BY DEF WipeJobs
<1>5. \A j, q \in CleanupJobs : j.on = q.on => j = q
  BY DEF CleanupJobs
<1>6. QED
  BY <1>1, <1>2, <1>3, <1>4, <1>5 DEF Jobs

\* A lock has one holder, and only the lock's holder works on the region.
LEMMA OneHolder ==
  ASSUME TypeOK, LockInv, NEW j \in Jobs, Locks(j)
  PROVE  /\ target[j] \in Regions /\ lockedBy[target[j]] = j
         /\ \A q \in Jobs : Locks(q) /\ target[q] = target[j] => q = j
<1>1. target[j] \in Regions
  BY DEF TypeOK, Locks
<1>2. QED
  BY <1>1 DEF LockInv

\* A working job holds the lock of the region it works on.
LEMMA Workers ==
  ASSUME TypeOK, LockInv, WorkInv, NEW j \in Jobs, Working(j)
  PROVE  /\ taken[j] \in Regions /\ taken[j] = target[j] /\ lockedBy[taken[j]] = j
         /\ \A q \in Jobs : Locks(q) /\ target[q] = taken[j] => q = j
         /\ \A q \in Jobs : Working(q) /\ taken[q] = taken[j] => q = j
<1>1. Locks(j) /\ taken[j] = target[j]
  BY DEF Working, Locks, WorkInv
<1>2. \A q \in Jobs : Working(q) => Locks(q) /\ taken[q] = target[q]
  BY DEF Working, Locks, WorkInv
<1>3. QED
  BY <1>1, <1>2, OneHolder

\* What an owner does to its protection, contents and state is no business of the
\* registry and the jobs.
LEMMA OwnerFrame ==
  ASSUME FileInv, LockInv, ReleaseInv, CallInv,
         UNCHANGED <<registry, mem, isWiped, janitorKey, jobs, calls, covered, left>>
  PROVE  FileInv' /\ LockInv' /\ ReleaseInv' /\ CallInv'
<1> USE DEF registry, jobs, calls, Working, Locks, Idle
<1>1. FileInv'
  BY DEF FileInv, Releasing
<1>2. LockInv'
  BY DEF LockInv
<1>3. ReleaseInv'
  BY DEF ReleaseInv
<1>4. CallInv'
  BY DEF CallInv, Pending, Releasing
<1>5. QED
  BY <1>1, <1>2, <1>3, <1>4

\* A job that starts, or takes a lock, leaves alone what is known of the regions
\* that are being worked on.
LEMMA StartFrame ==
  ASSUME FileInv, WorkInv, ZeroInv, CanaryInv,
         UNCHANGED <<registry, memory, owners, overflowed, reported, unchecked, unwiped>>,
         \A j \in Jobs : Working(j)' <=> Working(j),
         \A j \in Jobs : Working(j) =>
           /\ pc'[j] = pc[j] /\ target'[j] = target[j]
           /\ taken'[j] = taken[j] /\ fromLive'[j] = fromLive[j]
  PROVE  FileInv' /\ WorkInv' /\ ZeroInv' /\ CanaryInv'
<1> USE DEF registry, memory, owners
<1>0. WipeJobs \subseteq Jobs
  BY JobKinds
<1>1. FileInv'
  BY <1>0 DEF FileInv, Releasing
<1>2. WorkInv'
  BY DEF WorkInv
<1>3. ZeroInv'
  BY DEF ZeroInv
<1>4. CanaryInv'
  <2>1. \A j \in Jobs : pc[j] = "writable" => pc'[j] = "writable" /\ taken'[j] = taken[j]
    BY DEF Working
  <2>2. QED
    BY <2>1 DEF CanaryInv
<1>5. QED
  BY <1>1, <1>2, <1>3, <1>4

\* What peekAny returns for a key: the one region filed there, which is mapped and
\* has that key; and it finds every mapped region with that key no release has taken.
LEMMA PeekFacts ==
  ASSUME TypeOK, FileInv, NEW k \in Keys
  PROVE  /\ \A r \in PeekAny(k) : r \in Regions /\ janitorKey[r] = k /\ mem[r] = "mapped"
         /\ \A r, q \in PeekAny(k) : r = q
         /\ \A r \in Regions :
              mem[r] = "mapped" /\ janitorKey[r] = k => r \in PeekAny(k) \/ Releasing(r)
<1>1. regions[k] \in Regions \cup {NoRegion} /\ wiped[k] \in Regions \cup {NoRegion}
  BY DEF TypeOK
<1>2. QED
  BY <1>1, RegionsAssumption DEF FileInv, PeekAny

\* tryWipeInPlace's and wipeInPlace's peek.  A key that leaves todo is followed by
\* the job that peeked, unless the region is gone.
LEMMA PeekKeeps ==
  ASSUME IInv, NEW j \in WipeJobs, NEW s \in {"peeked", "waiting"},
         Idle(j), j.key \in todo[j.call],
         s = "peeked" => call[j.call] = "pass1",
         todo' = [todo EXCEPT ![j.call] = @ \ {j.key}],
         \/ \E r \in PeekAny(j.key) :
              target' = [target EXCEPT ![j] = r] /\ pc' = [pc EXCEPT ![j] = s]
         \/ /\ PeekAny(j.key) = {}
            /\ pc' = [pc EXCEPT ![j] = "done"]
            /\ UNCHANGED target,
         UNCHANGED <<registry, memory, owners, lockedBy, taken, fromLive, call,
                     deferred, history>>
  PROVE  IInv'
<1> USE RegionsAssumption DEF registry, memory, owners, history
<1> TypeOK /\ OwnerInv /\ FileInv /\ LockInv /\ WorkInv /\ ReleaseInv /\ ZeroInv /\ CanaryInv /\ CallInv
  BY DEF IInv
<1>0. j \in Jobs /\ j.call \in Wipes /\ j.key \in Keys
  BY JobKinds
<1>1. \A q \in Jobs \ {j} : pc'[q] = pc[q] /\ target'[q] = target[q]
  BY DEF TypeOK
<1>2. \/ \E r \in PeekAny(j.key) : target'[j] = r /\ pc'[j] = s
      \/ PeekAny(j.key) = {} /\ pc'[j] = "done" /\ target'[j] = NoRegion
  BY <1>0 DEF TypeOK, Idle
<1>3. pc' \in [Jobs -> JobStates] /\ target' \in [Jobs -> Regions \cup {NoRegion}]
  <2>1. pc' \in [Jobs -> JobStates]
    BY <1>0 DEF TypeOK, JobStates
  <2>2. \A r \in PeekAny(j.key) : r \in Regions
    BY <1>0, PeekFacts
  <2>3. target' \in [Jobs -> Regions \cup {NoRegion}]
    BY <1>0, <2>2 DEF TypeOK
  <2>4. QED
    BY <2>1, <2>3
<1>4. pc[j] \in {"idle", "done"} /\ pc'[j] \in {"peeked", "waiting", "done"}
  BY <1>2 DEF Idle
<1>5. todo' \in [Wipes -> SUBSET Keys]
  BY <1>0 DEF TypeOK
<1>6. \A w \in Wipes : todo'[w] = IF w = j.call THEN todo[w] \ {j.key} ELSE todo[w]
  BY <1>0, ZenonT(80) DEF TypeOK
<1>10. TypeOK'
  <2>1. \A q \in Jobs :
          /\ target'[q] = NoRegion <=> pc'[q] \in {"idle", "done"}
          /\ taken'[q] = NoRegion <=> pc'[q] \notin {"resolved", "writable"}
    <3>1. target'[j] = NoRegion <=> pc'[j] \in {"idle", "done"}
      BY <1>0, <1>2, <1>4, PeekFacts
    <3>2. taken'[j] = NoRegion
      BY <1>0, <1>4 DEF TypeOK
    <3>3. QED
      BY <3>1, <3>2, <1>1, <1>4 DEF TypeOK
  <2>2. QED
    BY <2>1, <1>3, <1>5 DEF TypeOK
<1>11. OwnerInv'
  <2>1. \A q \in DestroyJobs : pc'[q] = pc[q]
    BY <1>1, JobKinds
  <2>2. QED
    BY <2>1 DEF OwnerInv
<1>12. FileInv' /\ WorkInv' /\ ZeroInv' /\ CanaryInv'
  <2>1. \A q \in Jobs : Working(q)' <=> Working(q)
    BY <1>1, <1>4 DEF Working
  <2>2. \A q \in Jobs : Working(q) => pc'[q] = pc[q] /\ target'[q] = target[q]
    BY <1>1, <1>4 DEF Working
  <2>3. QED
    BY <2>1, <2>2, StartFrame
<1>13. LockInv'
  <2>1. \A q \in Jobs : Locks(q)' <=> Locks(q)
    BY <1>1, <1>4 DEF Locks
  <2>2. \A q \in Jobs : Locks(q) => target'[q] = target[q]
    BY <1>1, <1>4 DEF Locks
  <2>3. \A r \in Regions : lockedBy[r] # NoJob => lockedBy[r] \in Jobs
    BY DEF TypeOK
  <2>4. QED
    BY <2>1, <2>2, <2>3 DEF LockInv
<1>14. ReleaseInv'
  BY <1>0, <1>1 DEF ReleaseInv, Idle
<1>15. CallInv'
  <2>0. \A q \in Jobs : Working(q)' <=> Working(q)
    BY <1>1, <1>4 DEF Working
  <2>1. \A r : Releasing(r)' <=> Releasing(r)
    BY <2>0 DEF Releasing
  <2>2. SUFFICES ASSUME NEW w \in Wipes PROVE CallInv!(w)'
    BY DEF CallInv
  <2>3. ASSUME NEW r \in covered[w]
        PROVE r \in left[w] \/ r \in isWiped \/ mem[r] = "freed" \/ Releasing(r) \/ Pending(w, r)'
    <3>1. r \in Regions /\ mem[r] # "fresh" /\ janitorKey[r] \in Keys
      BY DEF CallInv, TypeOK
    <3>2. SUFFICES ASSUME mem[r] # "freed", ~Releasing(r), Pending(w, r)
                   PROVE  Pending(w, r)'
      BY DEF CallInv
    <3>3. r \in PeekAny(janitorKey[r])
      BY <3>1, <3>2, PeekFacts DEF TypeOK
    <3>4. CASE w = j.call /\ janitorKey[r] = j.key
      <4>1. target'[j] = r /\ pc'[j] = s
        BY <3>3, <3>4, <1>0, <1>2, PeekFacts
      <4>2. QED
        BY <4>1, <3>4 DEF Pending, Idle
    <3>5. CASE janitorKey[r] \in todo[w] /\ ~(w = j.call /\ janitorKey[r] = j.key)
      BY <3>5, <1>6 DEF Pending
    <3>6. CASE call[w] = "pass1" /\ janitorKey[r] \in deferred[w]
      BY <3>6 DEF Pending
    <3>7. ASSUME NEW q \in WipeJobs, q.call = w, q.key = janitorKey[r], ~Idle(q), target[q] = r
          PROVE Pending(w, r)'
      <4>1. q \in Jobs \ {j}
        BY <3>7, JobKinds
      <4>2. QED
        BY <4>1, <3>7, <1>1 DEF Pending, Idle
    <3>8. QED
      BY <3>2, <3>4, <3>5, <3>6, <3>7 DEF Pending
  <2>4. \A q \in WipeJobs : q.call = w =>
         /\ pc'[q] = "peeked" => call[w] = "pass1"
         /\ call[w] = "pass2" /\ q.key \in todo'[w] => Idle(q)'
         /\ call[w] = "returned" => Idle(q)'
    <3>1. ASSUME NEW q \in WipeJobs, q.call = w
          PROVE  /\ pc'[q] = "peeked" => call[w] = "pass1"
                 /\ call[w] = "pass2" /\ q.key \in todo'[w] => Idle(q)'
                 /\ call[w] = "returned" => Idle(q)'
      <4>1. CASE q = j
        <5>1. call[w] # "returned"
          BY <4>1, <3>1, <1>0 DEF CallInv
        <5>2. pc'[q] = "peeked" => call[w] = "pass1"
          BY <4>1, <3>1, <1>2
        <5>3. q.key \notin todo'[w]
          BY <4>1, <3>1, <1>0, <1>6
        <5>4. QED
          BY <5>1, <5>2, <5>3
      <4>2. CASE q # j
        BY <4>2, <3>1, <1>1, <1>6, JobKinds DEF CallInv, Idle
      <4>3. QED
        BY <4>1, <4>2
    <3>2. QED
      BY <3>1
  <2>5. call[w] = "returned" => todo'[w] = {}
    BY <1>6 DEF CallInv
  <2>6. QED
    BY <2>1, <2>3, <2>4, <2>5 DEF CallInv
<1>20. QED
  BY <1>10, <1>11, <1>12, <1>13, <1>14, <1>15 DEF IInv

\* A job that finishes forgets what it knew and leaves its lock free.
LEMMA FinishFacts ==
  ASSUME TypeOK, NEW j \in Jobs, target[j] \in Regions, Unlock(j), Finish(j)
  PROVE  /\ \A q \in Jobs \ {j} :
              /\ pc'[q] = pc[q] /\ target'[q] = target[q]
              /\ taken'[q] = taken[q] /\ fromLive'[q] = fromLive[q]
         /\ pc'[j] = "done" /\ target'[j] = NoRegion /\ taken'[j] = NoRegion
         /\ \A r \in Regions \ {target[j]} : lockedBy'[r] = lockedBy[r]
         /\ lockedBy'[target[j]] = NoJob
         /\ pc' \in [Jobs -> JobStates] /\ target' \in [Jobs -> Regions \cup {NoRegion}]
         /\ taken' \in [Jobs -> Regions \cup {NoRegion}] /\ fromLive' \in [Jobs -> BOOLEAN]
         /\ lockedBy' \in [Regions -> Jobs \cup {NoJob}]
         /\ \A q \in Jobs : /\ target'[q] = NoRegion <=> pc'[q] \in {"idle", "done"}
                            /\ taken'[q] = NoRegion <=> pc'[q] \notin {"resolved", "writable"}
<1>1. \A q \in Jobs \ {j} : pc'[q] = pc[q] /\ target'[q] = target[q] /\ taken'[q] = taken[q]
  BY DEF TypeOK, Finish
<1>2. \A q \in Jobs \ {j} : fromLive'[q] = fromLive[q]
  BY DEF TypeOK, Finish
<1>3. pc'[j] = "done" /\ target'[j] = NoRegion /\ taken'[j] = NoRegion
  BY DEF TypeOK, Finish
<1>4. /\ \A r \in Regions \ {target[j]} : lockedBy'[r] = lockedBy[r]
      /\ lockedBy'[target[j]] = NoJob
      /\ lockedBy' \in [Regions -> Jobs \cup {NoJob}]
  BY DEF TypeOK, Unlock
<1>5. /\ pc' \in [Jobs -> JobStates] /\ target' \in [Jobs -> Regions \cup {NoRegion}]
      /\ taken' \in [Jobs -> Regions \cup {NoRegion}]
  BY DEF TypeOK, Finish, JobStates
<1>6. fromLive' \in [Jobs -> BOOLEAN]
  <2>1. fromLive \in [Jobs -> BOOLEAN] /\ fromLive' = [fromLive EXCEPT ![j] = FALSE]
    BY DEF TypeOK, Finish
  <2>2. QED
    BY <2>1, Zenon
<1>7. \A q \in Jobs : /\ target'[q] = NoRegion <=> pc'[q] \in {"idle", "done"}
                      /\ taken'[q] = NoRegion <=> pc'[q] \notin {"resolved", "writable"}
  BY <1>1, <1>3 DEF TypeOK
<1>8. QED
  BY <1>1, <1>2, <1>3, <1>4, <1>5, <1>6, <1>7

\* A finished job holds no lock, and the others hold what they held.
LEMMA FinishLocks ==
  ASSUME TypeOK, LockInv, NEW j \in Jobs, Locks(j), Unlock(j), Finish(j)
  PROVE  LockInv'
<1>1. target[j] \in Regions /\ \A q \in Jobs : Locks(q) /\ target[q] = target[j] => q = j
  BY OneHolder
<1>2. \A q \in Jobs : Locks(q)' => q # j /\ Locks(q)
  BY <1>1, FinishFacts DEF Locks
<1>3. \A q \in Jobs \ {j} : Locks(q) => Locks(q)' /\ target'[q] = target[q]
  BY <1>1, FinishFacts DEF Locks
<1>4. ASSUME NEW r \in Regions, lockedBy'[r] # NoJob
      PROVE  Locks(lockedBy[r])' /\ target'[lockedBy'[r]] = r
  <2>1. r # target[j] /\ lockedBy'[r] = lockedBy[r] /\ lockedBy[r] \in Jobs
    BY <1>1, <1>4, FinishFacts DEF TypeOK
  <2>2. Locks(lockedBy[r]) /\ target[lockedBy[r]] = r
    BY <2>1, <1>4 DEF LockInv
  <2>3. lockedBy[r] \in Jobs \ {j}
    BY <2>1, <2>2
  <2>4. QED
    BY <1>3, <2>1, <2>2, <2>3
<1>5. ASSUME NEW q \in Jobs, Locks(q)' PROVE lockedBy'[target'[q]] = q
  <2>1. q # j /\ Locks(q) /\ target'[q] = target[q] /\ target[q] \in Regions
    BY <1>2, <1>3, <1>5, OneHolder
  <2>2. target[q] # target[j]
    BY <1>1, <2>1
  <2>3. QED
    BY <1>1, <2>1, <2>2, FinishFacts DEF LockInv
<1>6. QED
  BY <1>4, <1>5 DEF LockInv

\* The job's key does not name the region it locked, because somebody else has
\* released that region or is releasing it.
LEMMA GiveUpKeeps ==
  ASSUME IInv, NEW j \in Jobs, pc[j] = "held", GiveUp(j),
         j \notin WipeJobs => mem[j.on] = "freed",
         j \in WipeJobs => (janitorKey[target[j]] = j.key /\ mem[target[j]] = "mapped" => Releasing(target[j]))
  PROVE  IInv'
<1> USE RegionsAssumption, JobsAssumption DEF registry, memory, owners, calls, history
<1> TypeOK /\ OwnerInv /\ FileInv /\ LockInv /\ WorkInv /\ ReleaseInv /\ ZeroInv /\ CanaryInv /\ CallInv
  BY DEF IInv
<1>0. target[j] \in Regions /\ taken[j] = NoRegion /\ Unlock(j) /\ Finish(j) /\ Locks(j) /\ ~Idle(j)
  BY DEF TypeOK, GiveUp, Locks, Idle
<1>1. UNCHANGED <<registry, memory, owners, calls, history>>
  BY DEF GiveUp
<1>2. /\ \A q \in Jobs \ {j} : pc'[q] = pc[q] /\ target'[q] = target[q] /\ taken'[q] = taken[q]
      /\ \A q \in Jobs \ {j} : fromLive'[q] = fromLive[q]
      /\ pc'[j] = "done"
      /\ \A r \in Regions : lockedBy'[r] = NoJob \/ lockedBy'[r] = lockedBy[r]
  BY <1>0, FinishFacts
<1>3. \A q \in Jobs : Working(q)' <=> Working(q)
  BY <1>2 DEF Working
<1>10. TypeOK'
  BY <1>0, <1>1, FinishFacts DEF TypeOK
<1>11. OwnerInv'
  BY <1>1, <1>2, JobKinds DEF OwnerInv
<1>12. FileInv' /\ WorkInv' /\ ZeroInv' /\ CanaryInv'
  <2>1. \A q \in Jobs : Working(q) => q # j
    BY DEF Working
  <2>2. QED
    BY <1>1, <1>2, <1>3, <2>1, StartFrame
<1>13. LockInv'
  BY <1>0, FinishLocks
<1>14. ReleaseInv'
  BY <1>1, <1>2 DEF ReleaseInv, Idle
<1>15. CallInv'
  <2>1. \A r : Releasing(r)' <=> Releasing(r)
    BY <1>2, <1>3 DEF Releasing, Working
  <2>2. ASSUME NEW w \in Wipes, NEW r \in covered[w], Pending(w, r), ~(mem[r] = "freed"), ~Releasing(r)
        PROVE Pending(w, r)'
    <3>1. mem[r] = "mapped"
      BY <2>2 DEF CallInv, TypeOK
    <3>2. ASSUME NEW q \in WipeJobs, q.call = w, q.key = janitorKey[r], ~Idle(q), target[q] = r
          PROVE q # j
      BY <3>1, <3>2, <2>2
    <3>3. QED
      BY <1>1, <1>2, <2>2, <3>2, JobKinds DEF Pending, Idle
  <2>3. \A q \in WipeJobs : pc'[q] = pc[q] \/ pc'[q] = "done"
    BY <1>2, JobKinds
  <2>4. QED
    BY <1>1, <2>1, <2>2, <2>3 DEF CallInv, Idle
<1>20. QED
  BY <1>10, <1>11, <1>12, <1>13, <1>14, <1>15 DEF IInv

\* What the resolving job knows afterwards, and that only it has learnt something.
LEMMA ResolveFacts ==
  ASSUME TypeOK, NEW j \in Jobs, pc[j] = "held", NEW r \in Regions, NEW b \in BOOLEAN, Resolve(j, r, b), UNCHANGED target
  PROVE  /\ \A q \in Jobs \ {j} :
              /\ pc'[q] = pc[q] /\ taken'[q] = taken[q] /\ fromLive'[q] = fromLive[q]
         /\ pc'[j] = "resolved" /\ taken'[j] = r /\ fromLive'[j] = b
         /\ pc' \in [Jobs -> JobStates]
         /\ taken' \in [Jobs -> Regions \cup {NoRegion}] /\ fromLive' \in [Jobs -> BOOLEAN]
         /\ \A q \in Jobs : /\ target'[q] = NoRegion <=> pc'[q] \in {"idle", "done"}
                            /\ taken'[q] = NoRegion <=> pc'[q] \notin {"resolved", "writable"}
<1>1. \A q \in Jobs \ {j} : pc'[q] = pc[q] /\ taken'[q] = taken[q]
  BY DEF TypeOK, Resolve
<1>2. \A q \in Jobs \ {j} : fromLive'[q] = fromLive[q]
  BY DEF TypeOK, Resolve
<1>3. pc'[j] = "resolved" /\ taken'[j] = r
  BY DEF TypeOK, Resolve
<1>4. fromLive \in [Jobs -> BOOLEAN] /\ fromLive' = [fromLive EXCEPT ![j] = b]
  BY DEF TypeOK, Resolve
<1>5. fromLive' \in [Jobs -> BOOLEAN] /\ fromLive'[j] = b
  BY <1>4, Zenon
<1>6. pc' \in [Jobs -> JobStates] /\ taken' \in [Jobs -> Regions \cup {NoRegion}]
  BY DEF TypeOK, Resolve, JobStates
<1>7. \A q \in Jobs : /\ target'[q] = NoRegion <=> pc'[q] \in {"idle", "done"}
                      /\ taken'[q] = NoRegion <=> pc'[q] \notin {"resolved", "writable"}
  BY <1>1, <1>3, RegionsAssumption DEF TypeOK
<1>8. QED
  BY <1>1, <1>2, <1>3, <1>5, <1>6, <1>7

\* A key that resolves in the live set names a region that is not wiped; one that
\* resolves in the wiped set under the region's lock names a wiped one.
LEMMA LiveOrWiped ==
  ASSUME IInv, NEW j \in Jobs, pc[j] = "held", NEW k \in Keys, target[j] \in PeekAny(k)
  PROVE  /\ target[j] \in Regions /\ janitorKey[target[j]] = k /\ mem[target[j]] = "mapped"
         /\ regions[k] = target[j] <=> target[j] \notin isWiped
         /\ \A q \in Jobs : Working(q) => taken[q] # target[j]
<1> TypeOK /\ FileInv /\ LockInv /\ WorkInv
  BY DEF IInv
<1>1. target[j] \in Regions /\ janitorKey[target[j]] = k /\ mem[target[j]] = "mapped"
  BY PeekFacts
<1>2. \A q \in Jobs : Working(q) => taken[q] # target[j]
  BY OneHolder, Workers DEF Locks, Working
<1>3. target[j] \notin isWiped => regions[k] = target[j]
  BY <1>1, <1>2, JobKinds DEF PeekAny, FileInv
<1>4. regions[k] = target[j] => target[j] \notin isWiped
  BY <1>1 DEF FileInv
<1>5. QED
  BY <1>1, <1>2, <1>3, <1>4

\* Destroy or the cleanup takes its region out of the registry: from here on it is
\* the release's, and nobody else finds it.
LEMMA TakeOutKeeps ==
  ASSUME IInv, NEW j \in Jobs \ WipeJobs, pc[j] = "held", j.on \in PeekAny(janitorKey[j.on]),
         Resolve(j, j.on, regions[janitorKey[j.on]] = j.on), TakeOut(janitorKey[j.on]),
         DecryptForDestroy(j.on),
         UNCHANGED <<nextJanitorKey, mem, slack, owners, lockedBy, target, calls, history>>
  PROVE  IInv'
<1> USE RegionsAssumption, JobsAssumption DEF registry, memory, owners, calls, history
<1> TypeOK /\ OwnerInv /\ FileInv /\ LockInv /\ WorkInv /\ ReleaseInv /\ ZeroInv /\ CanaryInv /\ CallInv
  BY DEF IInv
<1>0. j.on \in Regions /\ target[j] = j.on /\ j \in Jobs
  BY JobKinds DEF ReleaseInv, Idle
<1> PICK k \in Keys : k = janitorKey[j.on]
  BY <1>0 DEF TypeOK
<1> PICK r \in Regions : r = j.on
  BY <1>0
<1>1. /\ mem[r] = "mapped"
      /\ regions[k] = r <=> r \notin isWiped
      /\ \A q \in Jobs : Working(q) => taken[q] # r
  BY <1>0, LiveOrWiped
<1>2. /\ regions'[k] = NoRegion /\ wiped'[k] = NoRegion
      /\ \A c \in Keys \ {k} : regions'[c] = regions[c] /\ wiped'[c] = wiped[c]
      /\ regions' \in [Keys -> Regions \cup {NoRegion}] /\ wiped' \in [Keys -> Regions \cup {NoRegion}]
  BY SMTT(30) DEF TakeOut, TypeOK, FileInv
<1>3. /\ \A q \in Jobs \ {j} : pc'[q] = pc[q] /\ taken'[q] = taken[q] /\ fromLive'[q] = fromLive[q]
      /\ pc'[j] = "resolved" /\ taken'[j] = r /\ fromLive'[j] = (regions[k] = r)
      /\ pc' \in [Jobs -> JobStates]
      /\ taken' \in [Jobs -> Regions \cup {NoRegion}] /\ fromLive' \in [Jobs -> BOOLEAN]
      /\ \A q \in Jobs : /\ target'[q] = NoRegion <=> pc'[q] \in {"idle", "done"}
                         /\ taken'[q] = NoRegion <=> pc'[q] \notin {"resolved", "writable"}
  <2>1. (regions[k] = r) \in BOOLEAN
    OBVIOUS
  <2>2. QED
    BY <1>0, <2>1, ResolveFacts
<1>4. /\ UNCHANGED <<nextJanitorKey, mem, slack, owners, lockedBy, target, calls, history>>
      /\ prot' \in [Regions -> {"RW", "RO", "NONE"}]
      /\ content' \in [Regions -> {"zero", "secret", "cipher"}]
      /\ \A s \in Regions \ {r} : prot'[s] = prot[s] /\ content'[s] = content[s]
      /\ \/ prot'[r] = prot[r] /\ content'[r] = content[r]
         \/ /\ content[r] = "cipher" /\ content'[r] # "zero"
            /\ r \in Ciphered /\ r \notin isWiped \cup Keyring \cup ClosedAtRest
  <2>1. content[r] = "cipher" => r \in Ciphered /\ r \notin isWiped \cup Keyring \cup ClosedAtRest
    BY DEF CanaryInv, ZeroInv
  <2>2. QED
    BY <2>1, SMTT(30) DEF DecryptForDestroy, TypeOK
<1>5. \A q \in Jobs : Working(q) => q # j
  BY DEF Working
<1>6. \A q \in Jobs : Working(q)' <=> Working(q) \/ q = j
  BY <1>3 DEF Working
<1>7. \A c \in Keys, s \in Regions : regions[c] = s \/ wiped[c] = s => janitorKey[s] = c
  BY DEF FileInv
<1>8. \A s \in Regions : regions[k] = s \/ wiped[k] = s => s = r
  <2>1. \A s, z \in PeekAny(k) : s = z
    BY PeekFacts
  <2>2. QED
    BY <2>1 DEF PeekAny
<1>9. \A s \in Regions : Releasing(s)' <=> Releasing(s) \/ s = r
  BY <1>0, <1>3, <1>5, <1>6 DEF Releasing
<1>10. TypeOK'
  BY <1>2, <1>3, <1>4 DEF TypeOK
<1>11. OwnerInv'
  BY <1>3, <1>4, JobKinds DEF OwnerInv
<1>12. FileInv'
  <2>1. \A c \in Keys : regions'[c] = NoRegion \/ wiped'[c] = NoRegion
    BY <1>2 DEF FileInv
  <2>2. \A c \in Keys, s \in Regions :
       regions'[c] = s => janitorKey[s] = c /\ mem[s] = "mapped" /\ s \notin isWiped
    BY <1>2 DEF FileInv
  <2>3. \A c \in Keys, s \in Regions :
       wiped'[c] = s =>
         /\ janitorKey[s] = c /\ mem[s] = "mapped"
         /\ \/ s \in isWiped
            \/ \E q \in WipeJobs : Working(q)' /\ taken'[q] = s /\ fromLive'[q]
    <3>1. \A q \in WipeJobs : Working(q) => Working(q)' /\ taken'[q] = taken[q] /\ fromLive'[q] = fromLive[q]
      BY <1>3, <1>6, JobKinds
    <3>2. QED
      BY <1>2, <3>1 DEF FileInv
  <2>4. \A s \in Regions :
       mem[s] = "mapped" =>
         regions'[janitorKey[s]] = s \/ wiped'[janitorKey[s]] = s \/ Releasing(s)'
    BY <1>2, <1>8, <1>9 DEF FileInv, TypeOK
  <2>5. QED
    BY <1>4, <2>1, <2>2, <2>3, <2>4 DEF FileInv
<1>13. LockInv'
  <2>1. \A q \in Jobs : Locks(q)' <=> Locks(q)
    BY <1>3 DEF Locks
  <2>2. \A s \in Regions : lockedBy[s] # NoJob => lockedBy[s] \in Jobs
    BY DEF TypeOK
  <2>3. QED
    BY <1>4, <2>1, <2>2 DEF LockInv
<1>14. WorkInv'
  <2>1. ASSUME NEW q \in Jobs, Working(q)', q # j PROVE WorkInv!(q)'
    <3>1. Working(q) /\ taken[q] # r /\ taken[q] \in Regions
      BY <1>1, <1>6, <2>1, Workers
    <3>2. q \in WipeJobs => q.key # k
      BY <1>8, <3>1 DEF WorkInv
    <3>3. QED
      BY <1>2, <1>3, <1>4, <2>1, <3>1, <3>2, JobKinds DEF WorkInv
  <2>2. WorkInv!(j)'
    <3>1. fromLive'[j] <=> r \notin isWiped'
      BY <1>1, <1>3, <1>4, Zenon DEF owners
    <3>2. \A c \in Keys : regions'[c] # r /\ wiped'[c] # r
      BY <1>0, <1>2, <1>7
    <3>3. taken'[j] = target'[j] /\ mem'[r] = "mapped" /\ pc'[j] # "writable" /\ taken'[j] = r
      BY <1>0, <1>1, <1>3, <1>4
    <3>4. QED
      BY <3>1, <3>2, <3>3 DEF WorkInv
  <2>3. QED
    BY <2>1, <2>2 DEF WorkInv
<1>15. ReleaseInv'
  BY <1>0, <1>3, <1>4 DEF ReleaseInv, Idle
<1>16. ZeroInv'
  BY <1>4 DEF ZeroInv
<1>17. CanaryInv'
  BY <1>3, <1>4 DEF CanaryInv
<1>18. CallInv'
  <2>1. \A w \in Wipes : \A s \in covered[w] : s \in Regions /\ (Pending(w, s) => Pending(w, s)')
    BY <1>3, <1>4, JobKinds DEF Pending, Idle, TypeOK
  <2>2. QED
    BY <1>3, <1>4, <1>9, <2>1, JobKinds DEF CallInv, Idle
<1>20. QED
  BY <1>10, <1>11, <1>12, <1>13, <1>14, <1>15, <1>16, <1>17, <1>18 DEF IInv

\* moveToWipedIf: a wipe pass files the region it has locked in the wiped set, and
\* the region is never out of the registry.
LEMMA MoveKeeps ==
  ASSUME IInv, NEW j \in WipeJobs, pc[j] = "held", target[j] \in PeekAny(j.key),
         Resolve(j, target[j], regions[j.key] = target[j]),
         regions' = [regions EXCEPT ![j.key] = NoRegion],
         wiped' = [wiped EXCEPT ![j.key] = target[j]],
         UNCHANGED <<nextJanitorKey, memory, owners, lockedBy, target, calls, history>>
  PROVE  IInv'
<1> USE RegionsAssumption, JobsAssumption DEF registry, memory, owners, calls, history
<1> TypeOK /\ OwnerInv /\ FileInv /\ LockInv /\ WorkInv /\ ReleaseInv /\ ZeroInv /\ CanaryInv /\ CallInv
  BY DEF IInv
<1>0. j \in Jobs /\ j.key \in Keys /\ target[j] \in Regions
  BY JobKinds, PeekFacts
<1> PICK k \in Keys : k = j.key
  BY <1>0
<1> PICK r \in Regions : r = target[j]
  BY <1>0
<1>1. /\ mem[r] = "mapped" /\ janitorKey[r] = k
      /\ regions[k] = r <=> r \notin isWiped
      /\ \A q \in Jobs : Working(q) => taken[q] # r
  BY <1>0, LiveOrWiped
<1>2. /\ regions'[k] = NoRegion /\ wiped'[k] = r
      /\ \A c \in Keys \ {k} : regions'[c] = regions[c] /\ wiped'[c] = wiped[c]
      /\ regions' \in [Keys -> Regions \cup {NoRegion}] /\ wiped' \in [Keys -> Regions \cup {NoRegion}]
  BY DEF TypeOK
<1>3. /\ \A q \in Jobs \ {j} : pc'[q] = pc[q] /\ taken'[q] = taken[q] /\ fromLive'[q] = fromLive[q]
      /\ pc'[j] = "resolved" /\ taken'[j] = r /\ fromLive'[j] = (regions[k] = r)
      /\ pc' \in [Jobs -> JobStates]
      /\ taken' \in [Jobs -> Regions \cup {NoRegion}] /\ fromLive' \in [Jobs -> BOOLEAN]
      /\ \A q \in Jobs : /\ target'[q] = NoRegion <=> pc'[q] \in {"idle", "done"}
                         /\ taken'[q] = NoRegion <=> pc'[q] \notin {"resolved", "writable"}
  <2>1. (regions[k] = r) \in BOOLEAN
    OBVIOUS
  <2>2. QED
    BY <1>0, <2>1, ResolveFacts
<1>4. UNCHANGED <<nextJanitorKey, memory, owners, lockedBy, target, calls, history>>
  OBVIOUS
<1>5. \A q \in Jobs : Working(q) => q # j
  BY DEF Working
<1>6. \A q \in Jobs : Working(q)' <=> Working(q) \/ q = j
  BY <1>0, <1>3 DEF Working
<1>8. \A s \in Regions : regions[k] = s \/ wiped[k] = s => s = r
  <2>1. \A s, z \in PeekAny(k) : s = z
    BY PeekFacts
  <2>2. QED
    BY <2>1 DEF PeekAny
<1>9. \A s \in Regions : Releasing(s)' <=> Releasing(s)
  BY <1>0, <1>3, <1>5, <1>6 DEF Releasing
<1>10. TypeOK'
  BY <1>2, <1>3, <1>4 DEF TypeOK
<1>11. OwnerInv'
  BY <1>3, <1>4, JobKinds DEF OwnerInv
<1>12. FileInv'
  <2>1. \A c \in Keys : regions'[c] = NoRegion \/ wiped'[c] = NoRegion
    BY <1>2 DEF FileInv
  <2>2. \A c \in Keys, s \in Regions :
       regions'[c] = s => janitorKey[s] = c /\ mem[s] = "mapped" /\ s \notin isWiped
    BY <1>2 DEF FileInv
  <2>3. \A c \in Keys, s \in Regions :
       wiped'[c] = s =>
         /\ janitorKey[s] = c /\ mem[s] = "mapped"
         /\ \/ s \in isWiped
            \/ \E q \in WipeJobs : Working(q)' /\ taken'[q] = s /\ fromLive'[q]
    <3>1. \A q \in WipeJobs : Working(q) => Working(q)' /\ taken'[q] = taken[q] /\ fromLive'[q] = fromLive[q]
      BY <1>3, <1>5, <1>6, JobKinds
    <3>2. r \in isWiped \/ (Working(j)' /\ taken'[j] = r /\ fromLive'[j])
      BY <1>0, <1>1, <1>3, <1>6
    <3>3. ASSUME NEW c \in Keys \ {k}, NEW s \in Regions, wiped[c] = s
          PROVE  /\ janitorKey[s] = c /\ mem[s] = "mapped"
                 /\ \/ s \in isWiped
                    \/ \E q \in WipeJobs : Working(q)' /\ taken'[q] = s /\ fromLive'[q]
      BY <3>1, <3>3 DEF FileInv
    <3>4. \A s \in Regions : wiped'[k] = s => s = r
      BY <1>2
    <3>5. QED
      BY <1>1, <1>2, <3>2, <3>3, <3>4
  <2>4. \A s \in Regions :
       mem[s] = "mapped" =>
         regions'[janitorKey[s]] = s \/ wiped'[janitorKey[s]] = s \/ Releasing(s)'
    BY <1>2, <1>8, <1>9 DEF FileInv, TypeOK
  <2>5. QED
    BY <1>4, <2>1, <2>2, <2>3, <2>4 DEF FileInv
<1>13. LockInv'
  <2>1. \A q \in Jobs : Locks(q)' <=> Locks(q)
    BY <1>3 DEF Locks
  <2>2. \A s \in Regions : lockedBy[s] # NoJob => lockedBy[s] \in Jobs
    BY DEF TypeOK
  <2>3. QED
    BY <1>4, <2>1, <2>2 DEF LockInv
<1>14. WorkInv'
  <2>1. ASSUME NEW q \in Jobs, Working(q)', q # j PROVE WorkInv!(q)'
    <3>1. Working(q) /\ taken[q] # r /\ taken[q] \in Regions
      BY <1>1, <1>6, <2>1, Workers
    <3>2. q \in WipeJobs => q.key # k
      BY <1>8, <3>1 DEF WorkInv
    <3>3. QED
      BY <1>2, <1>3, <1>4, <2>1, <3>1, <3>2, JobKinds DEF WorkInv
  <2>2. WorkInv!(j)'
    <3>1. fromLive'[j] <=> r \notin isWiped'
      BY <1>1, <1>3, <1>4, Zenon DEF owners
    <3>2. taken'[j] = target'[j] /\ mem'[r] = "mapped" /\ pc'[j] # "writable" /\ taken'[j] = r
      BY <1>0, <1>1, <1>3, <1>4
    <3>3. QED
      BY <3>1, <3>2, <1>2 DEF WorkInv
  <2>3. QED
    BY <2>1, <2>2 DEF WorkInv
<1>15. ReleaseInv'
  BY <1>0, <1>3, <1>4 DEF ReleaseInv, Idle
<1>16. ZeroInv'
  BY <1>4 DEF ZeroInv
<1>17. CanaryInv'
  BY <1>3, <1>4 DEF CanaryInv
<1>18. CallInv'
  <2>1. \A w \in Wipes : \A s \in covered[w] : s \in Regions /\ (Pending(w, s) => Pending(w, s)')
    <3>1. \A q \in WipeJobs : ~Idle(q) => ~Idle(q)'
      BY <1>3, JobKinds DEF Idle
    <3>2. QED
      BY <1>4, <3>1 DEF Pending, TypeOK
  <2>2. \A q \in WipeJobs : q = j \/ pc'[q] = pc[q]
    BY <1>3, JobKinds
  <2>3. QED
    BY <1>3, <1>4, <1>9, <2>1, <2>2 DEF CallInv, Idle
<1>20. QED
  BY <1>10, <1>11, <1>12, <1>13, <1>14, <1>15, <1>16, <1>17, <1>18 DEF IInv

\* What every step has in common that ends the work on a region.
LEMMA WorkerFinishes ==
  ASSUME IInv, NEW j \in Jobs, Working(j), Unlock(j), Finish(j)
  PROVE  /\ taken[j] \in Regions /\ target[j] = taken[j] /\ mem[taken[j]] = "mapped" /\ Locks(j) /\ ~Idle(j)
         /\ lockedBy[taken[j]] = j
         /\ \A q \in Jobs \ {j} : /\ pc'[q] = pc[q] /\ target'[q] = target[q]
                                  /\ taken'[q] = taken[q] /\ fromLive'[q] = fromLive[q]
         /\ pc'[j] = "done"
         /\ \A q \in Jobs : Working(q)' <=> Working(q) /\ q # j
         /\ \A q \in Jobs \ {j} : Working(q) => taken[q] # taken[j]
         /\ \A s \in Regions : lockedBy'[s] = NoJob \/ lockedBy'[s] = lockedBy[s]
<1> TypeOK /\ LockInv /\ WorkInv
  BY DEF IInv
<1>1. /\ taken[j] \in Regions /\ target[j] = taken[j] /\ mem[taken[j]] = "mapped" /\ Locks(j) /\ ~Idle(j)
      /\ lockedBy[taken[j]] = j
  BY Workers DEF WorkInv, Working, Locks, Idle
<1>2. \A q \in Jobs \ {j} : Working(q) => taken[q] # taken[j]
  BY Workers
<1>3. /\ \A q \in Jobs \ {j} : /\ pc'[q] = pc[q] /\ target'[q] = target[q]
                               /\ taken'[q] = taken[q] /\ fromLive'[q] = fromLive[q]
      /\ pc'[j] = "done"
      /\ \A s \in Regions : lockedBy'[s] = NoJob \/ lockedBy'[s] = lockedBy[s]
  BY <1>1, FinishFacts
<1>4. \A q \in Jobs : Working(q)' <=> Working(q) /\ q # j
  BY <1>3 DEF Working
<1>5. QED
  BY <1>1, <1>2, <1>3, <1>4

\* A job resolves its key under the lock: Destroy, the cleanup, a wipe pass.
LEMMA ResolveStep ==
  ASSUME IInv, NEW j \in Jobs
  PROVE  TakeAny(j) \/ TakeAnyIf(j) \/ MoveToWipedIf(j) => IInv'
<1> USE RegionsAssumption, JobsAssumption DEF registry, memory, owners, calls, history
<1> TypeOK /\ OwnerInv /\ FileInv /\ LockInv /\ WorkInv /\ ReleaseInv /\ ZeroInv /\ CanaryInv /\ CallInv
  BY DEF IInv
<1>0. ASSUME j \notin WipeJobs, pc[j] = "held"
      PROVE  /\ j.on \in Regions /\ target[j] = j.on /\ janitorKey[j.on] \in Keys
             /\ ~Releasing(j.on)
             /\ mem[j.on] = "mapped" => j.on \in PeekAny(janitorKey[j.on])
             /\ mem[j.on] # "mapped" => mem[j.on] = "freed"
  <2>1. j.on \in Regions /\ target[j] = j.on /\ janitorKey[j.on] \in Keys /\ mem[j.on] # "fresh"
    BY <1>0, JobKinds DEF ReleaseInv, Idle, TypeOK
  <2>2. ~Releasing(j.on)
    BY <1>0, <2>1, OneHolder, Workers DEF Releasing, Locks, Working
  <2>3. QED
    BY <2>1, <2>2, PeekFacts DEF TypeOK
<1>1. ASSUME TakeAny(j) PROVE IInv'
  <2>1. j \in Jobs \ WipeJobs /\ pc[j] = "held"
    BY <1>1, JobKinds DEF TakeAny
  <2>2. CASE owner[j.on] = "destroyed" \/ PeekAny(janitorKey[j.on]) = {}
    <3>1. GiveUp(j)
      BY <1>1, <2>2 DEF TakeAny
    <3>2. mem[j.on] = "freed"
      BY <1>0, <2>1, <2>2 DEF OwnerInv
    <3>3. QED
      BY <2>1, <3>1, <3>2, GiveUpKeeps
  <2>3. CASE owner[j.on] # "destroyed" /\ PeekAny(janitorKey[j.on]) # {}
    <3>1. j.on \in PeekAny(janitorKey[j.on])
      BY <1>0, <2>1, <2>3 DEF OwnerInv
    <3>2. \A r \in PeekAny(janitorKey[j.on]) : r = j.on
      BY <1>0, <2>1, <3>1, PeekFacts
    <3>3. /\ Resolve(j, j.on, regions[janitorKey[j.on]] = j.on)
          /\ TakeOut(janitorKey[j.on])
          /\ DecryptForDestroy(j.on)
          /\ UNCHANGED <<nextJanitorKey, mem, slack, owners, lockedBy, target, calls, history>>
      BY <1>1, <2>3, <3>2 DEF TakeAny
    <3>4. QED
      BY <2>1, <3>1, <3>3, TakeOutKeeps
  <2>4. QED
    BY <2>2, <2>3
<1>2. ASSUME TakeAnyIf(j) PROVE IInv'
  <2>1. j \in Jobs \ WipeJobs /\ pc[j] = "held" /\ target[j] = j.on
    BY <1>0, <1>2, JobKinds DEF TakeAnyIf
  <2>2. CASE target[j] \notin PeekAny(janitorKey[j.on])
    <3>1. GiveUp(j)
      BY <1>2, <2>2 DEF TakeAnyIf
    <3>2. mem[j.on] = "freed"
      BY <1>0, <2>1, <2>2
    <3>3. QED
      BY <2>1, <3>1, <3>2, GiveUpKeeps
  <2>3. CASE target[j] \in PeekAny(janitorKey[j.on])
    <3>1. /\ Resolve(j, j.on, regions[janitorKey[j.on]] = j.on)
          /\ TakeOut(janitorKey[j.on])
          /\ DecryptForDestroy(j.on)
          /\ UNCHANGED <<nextJanitorKey, mem, slack, owners, lockedBy, target, calls, history>>
      BY <1>2, <2>1, <2>3 DEF TakeAnyIf, DecryptForDestroy
    <3>2. QED
      BY <2>1, <2>3, <3>1, TakeOutKeeps
  <2>4. QED
    BY <2>2, <2>3
<1>3. ASSUME MoveToWipedIf(j) PROVE IInv'
  <2>1. j \in WipeJobs /\ pc[j] = "held" /\ target[j] \in Regions
    BY <1>3 DEF MoveToWipedIf, TypeOK
  <2>2. CASE target[j] \notin PeekAny(j.key)
    <3>1. GiveUp(j)
      BY <1>3, <2>2 DEF MoveToWipedIf
    <3>2. janitorKey[target[j]] = j.key /\ mem[target[j]] = "mapped" => Releasing(target[j])
      BY <2>1, <2>2, JobKinds, PeekFacts
    <3>3. QED
      BY <2>1, <3>1, <3>2, GiveUpKeeps
  <2>3. CASE target[j] \in PeekAny(j.key)
    BY <1>3, <2>1, <2>3, MoveKeeps DEF MoveToWipedIf
  <2>4. QED
    BY <2>2, <2>3
<1>4. QED
  BY <1>1, <1>2, <1>3

\* restoreWriteAccess changes the protection of the region the job has locked.
LEMMA RestoreKeeps ==
  ASSUME IInv, NEW j \in Jobs, RestoreWriteAccess(j)
  PROVE  IInv'
<1> USE RegionsAssumption, JobsAssumption DEF registry, memory, owners, calls, history
<1> TypeOK /\ OwnerInv /\ FileInv /\ LockInv /\ WorkInv /\ ReleaseInv /\ ZeroInv /\ CanaryInv /\ CallInv
  BY DEF IInv
<1>1. /\ taken[j] \in Regions /\ pc[j] = "resolved"
      /\ \A q \in Jobs \ {j} : Working(q) => taken[q] # taken[j]
  <2>1. pc[j] = "resolved" /\ Working(j)
    BY DEF RestoreWriteAccess, Working
  <2>2. QED
    BY <2>1, Workers
<1> PICK r \in Regions : r = taken[j]
  BY <1>1
<1>2. /\ prot'[r] = "RW" /\ \A s \in Regions \ {r} : prot'[s] = prot[s]
      /\ prot' \in [Regions -> {"RW", "RO", "NONE"}]
      /\ pc'[j] = "writable" /\ \A q \in Jobs \ {j} : pc'[q] = pc[q]
      /\ pc' \in [Jobs -> JobStates]
  BY DEF RestoreWriteAccess, TypeOK, JobStates
<1>3. UNCHANGED <<registry, mem, content, slack, owners, lockedBy, target, taken, fromLive, calls, history>>
  BY DEF RestoreWriteAccess
<1>4. \A q \in Jobs : /\ Working(q)' <=> Working(q)
                      /\ Locks(q)' <=> Locks(q)
                      /\ Idle(q)' <=> Idle(q)
                      /\ pc[q] \in {"idle", "done", "peeked"} \/ pc'[q] \in {"idle", "done", "peeked"} => pc'[q] = pc[q]
  BY <1>1, <1>2 DEF Working, Locks, Idle
<1>5. \A s : Releasing(s)' <=> Releasing(s)
  BY <1>3, <1>4 DEF Releasing
<1>10. TypeOK'
  <2>1. \A q \in Jobs : /\ target'[q] = NoRegion <=> pc'[q] \in {"idle", "done"}
                        /\ taken'[q] = NoRegion <=> pc'[q] \notin {"resolved", "writable"}
    BY <1>1, <1>2, <1>3 DEF TypeOK
  <2>2. QED
    BY <1>2, <1>3, <2>1 DEF TypeOK
<1>11. OwnerInv'
  BY <1>3, <1>4, JobKinds DEF OwnerInv
<1>12. FileInv'
  BY <1>3, <1>4, <1>5, JobKinds DEF FileInv
<1>13. LockInv'
  <2>1. \A s \in Regions : lockedBy[s] # NoJob => lockedBy[s] \in Jobs
    BY DEF TypeOK
  <2>2. QED
    BY <1>3, <1>4, <2>1 DEF LockInv
<1>14. WorkInv'
  <2>1. \A q \in Jobs : Working(q) => taken[q] \in Regions
    BY Workers
  <2>2. ASSUME NEW q \in Jobs, Working(q)' PROVE WorkInv!(q)'
    <3>1. pc'[q] = "writable" => prot'[taken[q]] = "RW" \/ (q # j /\ pc[q] = "writable" /\ prot'[taken[q]] = prot[taken[q]])
      BY <1>1, <1>2, <1>4, <2>1, <2>2
    <3>2. QED
      BY <1>3, <1>4, <2>2, <3>1 DEF WorkInv
  <2>3. QED
    BY <2>2 DEF WorkInv
<1>15. ReleaseInv'
  BY <1>3, <1>4 DEF ReleaseInv
<1>16. ZeroInv'
  BY <1>3 DEF ZeroInv
<1>17. CanaryInv'
  BY <1>1, <1>2, <1>3 DEF CanaryInv
<1>18. CallInv'
  <2>1. WipeJobs \subseteq Jobs
    BY JobKinds
  <2>2. QED
    BY <1>3, <1>4, <1>5, <2>1 DEF CallInv, Pending
<1>20. QED
  BY <1>10, <1>11, <1>12, <1>13, <1>14, <1>15, <1>16, <1>17, <1>18 DEF IInv

\* errWipeSkipped: the region is reported and filed where it came from.
LEMMA SkipKeeps ==
  ASSUME IInv, NEW j \in Jobs, WipeSkipped(j)
  PROVE  IInv'
<1> USE RegionsAssumption, JobsAssumption DEF registry, memory, owners, calls, history
<1> TypeOK /\ OwnerInv /\ FileInv /\ LockInv /\ WorkInv /\ ReleaseInv /\ ZeroInv /\ CanaryInv /\ CallInv
  BY DEF IInv
<1> j \in WipeJobs
  BY DEF WipeSkipped
<1>0. Working(j) /\ Unlock(j) /\ Finish(j)
  BY DEF WipeSkipped, Working
<1>1. /\ taken[j] \in Regions /\ target[j] = taken[j] /\ mem[taken[j]] = "mapped" /\ Locks(j) /\ ~Idle(j)
      /\ lockedBy[taken[j]] = j
      /\ \A q \in Jobs \ {j} : /\ pc'[q] = pc[q] /\ target'[q] = target[q]
                               /\ taken'[q] = taken[q] /\ fromLive'[q] = fromLive[q]
      /\ pc'[j] = "done"
      /\ \A q \in Jobs : Working(q)' <=> Working(q) /\ q # j
      /\ \A q \in Jobs \ {j} : Working(q) => taken[q] # taken[j]
      /\ \A s \in Regions : lockedBy'[s] = NoJob \/ lockedBy'[s] = lockedBy[s]
  BY <1>0, WorkerFinishes
<1>2. /\ pc' \in [Jobs -> JobStates] /\ target' \in [Jobs -> Regions \cup {NoRegion}]
      /\ taken' \in [Jobs -> Regions \cup {NoRegion}] /\ fromLive' \in [Jobs -> BOOLEAN]
      /\ lockedBy' \in [Regions -> Jobs \cup {NoJob}]
      /\ \A q \in Jobs : /\ target'[q] = NoRegion <=> pc'[q] \in {"idle", "done"}
                         /\ taken'[q] = NoRegion <=> pc'[q] \notin {"resolved", "writable"}
  BY <1>0, <1>1, FinishFacts
<1> PICK r \in Regions : r = taken[j]
  BY <1>1
<1> PICK k \in Keys : k = j.key
  BY JobKinds
<1>3. UNCHANGED <<nextJanitorKey, memory, owners, calls, covered, overflowed, reported, unchecked, unwiped>>
  BY DEF WipeSkipped
<1>4. wiped[k] = r /\ janitorKey[r] = k /\ regions[k] = NoRegion
  BY <1>0 DEF WorkInv, FileInv
<1>5. /\ \A c \in Keys \ {k} : regions'[c] = regions[c] /\ wiped'[c] = wiped[c]
      /\ \/ regions'[k] = r /\ wiped'[k] = NoRegion /\ r \notin isWiped
         \/ regions'[k] = NoRegion /\ wiped'[k] = r /\ r \in isWiped
      /\ regions' \in [Keys -> Regions \cup {NoRegion}] /\ wiped' \in [Keys -> Regions \cup {NoRegion}]
  <2>1. fromLive[j] <=> r \notin isWiped
    BY <1>0 DEF WorkInv
  <2>2. QED
    BY <1>4, <2>1, SMTT(30) DEF WipeSkipped, TypeOK
<1>6. /\ left' \in [Wipes -> SUBSET Regions] /\ r \in left'[j.call]
      /\ \A w \in Wipes : left[w] \subseteq left'[w]
  BY JobKinds DEF WipeSkipped, TypeOK
<1>7. \A s : Releasing(s)' <=> Releasing(s)
  BY <1>1 DEF Releasing
<1>10. TypeOK'
  BY <1>2, <1>3, <1>5, <1>6 DEF TypeOK
<1>11. OwnerInv'
  BY <1>1, <1>3, JobKinds DEF OwnerInv
<1>12. FileInv'
  <2>1. \A c \in Keys : regions'[c] = NoRegion \/ wiped'[c] = NoRegion
    BY <1>5 DEF FileInv
  <2>2. \A c \in Keys, s \in Regions :
       regions'[c] = s => janitorKey[s] = c /\ mem[s] = "mapped" /\ s \notin isWiped
    BY <1>1, <1>4, <1>5 DEF FileInv
  <2>3. \A c \in Keys, s \in Regions :
       wiped'[c] = s =>
         /\ janitorKey[s] = c /\ mem[s] = "mapped"
         /\ \/ s \in isWiped
            \/ \E q \in WipeJobs : Working(q)' /\ taken'[q] = s /\ fromLive'[q]
    <3>1. \A q \in WipeJobs \ {j} : Working(q) => Working(q)' /\ taken'[q] = taken[q] /\ fromLive'[q] = fromLive[q]
      BY <1>1, JobKinds
    <3>2. ASSUME NEW c \in Keys \ {k}, NEW s \in Regions, wiped[c] = s
          PROVE  /\ janitorKey[s] = c /\ mem[s] = "mapped" /\ s # r
                 /\ \/ s \in isWiped
                    \/ \E q \in WipeJobs : Working(q)' /\ taken'[q] = s /\ fromLive'[q]
      <4>1. janitorKey[s] = c /\ mem[s] = "mapped" /\ s # r
        BY <1>4, <3>2 DEF FileInv
      <4>2. QED
        BY <3>1, <3>2, <4>1 DEF FileInv
    <3>3. \A s \in Regions : wiped'[k] = s => s = r /\ r \in isWiped
      BY <1>5
    <3>4. QED
      BY <1>1, <1>4, <1>5, <3>2, <3>3
  <2>4. \A s \in Regions :
       mem[s] = "mapped" =>
         regions'[janitorKey[s]] = s \/ wiped'[janitorKey[s]] = s \/ Releasing(s)'
    <3>1. \A s \in Regions : janitorKey[s] \in Keys
      BY DEF TypeOK
    <3>2. QED
      BY <1>4, <1>5, <1>7, <3>1 DEF FileInv
  <2>5. QED
    BY <1>3, <2>1, <2>2, <2>3, <2>4 DEF FileInv
<1>13. LockInv'
  BY <1>0, <1>1, FinishLocks
<1>14. WorkInv'
  <2>1. ASSUME NEW q \in Jobs, Working(q)' PROVE WorkInv!(q)'
    <3>1. Working(q) /\ q # j /\ taken[q] # r /\ taken[q] \in Regions
      BY <1>1, <2>1, Workers
    <3>2. q \in WipeJobs => q.key # k
      BY <1>4, <3>1 DEF WorkInv
    <3>3. QED
      BY <1>1, <1>3, <1>5, <3>1, <3>2, JobKinds DEF WorkInv
  <2>2. QED
    BY <2>1 DEF WorkInv
<1>15. ReleaseInv'
  BY <1>1, <1>3 DEF ReleaseInv, Idle
<1>16. ZeroInv'
  BY <1>3 DEF ZeroInv
<1>17. CanaryInv'
  <2>1. pc[j] = "resolved"
    BY DEF WipeSkipped
  <2>2. QED
    BY <1>1, <1>3, <2>1 DEF CanaryInv
<1>18. CallInv'
  <2>1. \A q \in WipeJobs : q # j => pc'[q] = pc[q] /\ target'[q] = target[q]
    BY <1>1, JobKinds
  <2>2. \A w \in Wipes : \A s \in covered[w] : Pending(w, s) => s \in left'[w] \/ Pending(w, s)'
    BY <1>1, <1>3, <1>6, <2>1 DEF Pending, Idle
  <2>3. QED
    BY <1>1, <1>3, <1>6, <1>7, <2>1, <2>2 DEF CallInv, Idle
<1>20. QED
  BY <1>10, <1>11, <1>12, <1>13, <1>14, <1>15, <1>16, <1>17, <1>18 DEF IInv

\* A release unmaps its region.  It was filed nowhere, nobody else is at work on it,
\* and its owner learns of it in the same step.
LEMMA FreeFrame ==
  ASSUME IInv, NEW j \in Jobs \ WipeJobs, Working(j), Unlock(j), Finish(j), Released(taken[j]),
         UNCHANGED <<registry, prot, isWiped, janitorKey, borrowed, calls, covered, left, overflowed>>
  PROVE  /\ OwnerInv' /\ FileInv' /\ LockInv' /\ WorkInv' /\ ReleaseInv' /\ CallInv'
         /\ mem' \in [Regions -> {"fresh", "mapped", "freed"}] /\ owner' \in [Regions -> OwnerStates]
         /\ taken[j] \in Regions
         /\ \A s \in Regions \ {taken[j]} : mem'[s] = mem[s] /\ owner'[s] = owner[s]
         /\ owner'[taken[j]] = "destroyed" /\ mem'[taken[j]] = "freed"
<1> USE RegionsAssumption, JobsAssumption DEF registry, memory, owners, calls, history
<1> TypeOK /\ OwnerInv /\ FileInv /\ LockInv /\ WorkInv /\ ReleaseInv /\ ZeroInv /\ CanaryInv /\ CallInv
  BY DEF IInv
<1>0. Working(j) /\ Unlock(j) /\ Finish(j)
  OBVIOUS
<1>1. /\ taken[j] \in Regions /\ target[j] = taken[j] /\ mem[taken[j]] = "mapped" /\ Locks(j) /\ ~Idle(j)
      /\ lockedBy[taken[j]] = j
      /\ \A q \in Jobs \ {j} : /\ pc'[q] = pc[q] /\ target'[q] = target[q]
                               /\ taken'[q] = taken[q] /\ fromLive'[q] = fromLive[q]
      /\ pc'[j] = "done"
      /\ \A q \in Jobs : Working(q)' <=> Working(q) /\ q # j
      /\ \A q \in Jobs \ {j} : Working(q) => taken[q] # taken[j]
      /\ \A s \in Regions : lockedBy'[s] = NoJob \/ lockedBy'[s] = lockedBy[s]
  BY <1>0, WorkerFinishes
<1>2. /\ pc' \in [Jobs -> JobStates] /\ target' \in [Jobs -> Regions \cup {NoRegion}]
      /\ taken' \in [Jobs -> Regions \cup {NoRegion}] /\ fromLive' \in [Jobs -> BOOLEAN]
      /\ lockedBy' \in [Regions -> Jobs \cup {NoJob}]
      /\ \A q \in Jobs : /\ target'[q] = NoRegion <=> pc'[q] \in {"idle", "done"}
                         /\ taken'[q] = NoRegion <=> pc'[q] \notin {"resolved", "writable"}
  BY <1>0, <1>1, FinishFacts
<1> PICK r \in Regions : r = taken[j]
  BY <1>1
<1>3. UNCHANGED <<registry, prot, isWiped, janitorKey, borrowed, calls, covered, left, overflowed>>
  OBVIOUS
<1>4. /\ mem' \in [Regions -> {"fresh", "mapped", "freed"}] /\ owner' \in [Regions -> OwnerStates]
      /\ \A s \in Regions \ {r} : mem'[s] = mem[s] /\ owner'[s] = owner[s]
      /\ owner'[r] = "destroyed" /\ mem'[r] = "freed"
  BY DEF Released, TypeOK, OwnerStates
<1>5. /\ \A k \in Keys : regions[k] # r /\ wiped[k] # r
      /\ r = j.on /\ r \notin borrowed
  BY <1>0, <1>1 DEF WorkInv, ReleaseInv, OwnerInv
<1>6. \A s \in Regions \ {r} : Releasing(s)' <=> Releasing(s)
  BY <1>1 DEF Releasing
<1>11. OwnerInv'
  <2>0. \A q \in DestroyJobs : pc[q] = "idle" => pc'[q] = "idle"
    BY <1>1, JobKinds DEF Idle
  <2>1. \A s \in Regions : OwnerInv!(s)'
    <3>1. ASSUME NEW s \in Regions \ {r} PROVE OwnerInv!(s)'
      <4>1. mem'[s] = mem[s] /\ owner'[s] = owner[s]
        BY <1>4
      <4>2. lockedBy[s] = NoJob => lockedBy'[s] = NoJob
        BY <1>1
      <4>3. OwnerInv!(s)
        BY DEF OwnerInv
      <4>4. QED
        BY <1>3, <2>0, <4>1, <4>2, <4>3
    <3>2. OwnerInv!(r)'
      BY <1>1, <1>3, <1>4, <1>5 DEF OwnerInv
    <3>3. QED
      BY <3>1, <3>2
  <2>2. QED
    BY <2>1 DEF OwnerInv
<1>12. FileInv'
  <2>1. \A q \in WipeJobs : Working(q) => Working(q)' /\ taken'[q] = taken[q] /\ fromLive'[q] = fromLive[q]
    BY <1>1, JobKinds
  <2>2. \A k \in Keys, s \in Regions :
       regions[k] = s => janitorKey[s] = k /\ mem'[s] = "mapped" /\ s \notin isWiped
    BY <1>4, <1>5 DEF FileInv
  <2>3. \A k \in Keys, s \in Regions :
       wiped[k] = s =>
         /\ janitorKey[s] = k /\ mem'[s] = "mapped"
         /\ \/ s \in isWiped
            \/ \E q \in WipeJobs : Working(q)' /\ taken'[q] = s /\ fromLive'[q]
    BY <1>4, <1>5, <2>1 DEF FileInv
  <2>4. \A s \in Regions :
       mem'[s] = "mapped" =>
         regions[janitorKey[s]] = s \/ wiped[janitorKey[s]] = s \/ Releasing(s)'
    BY <1>4, <1>6 DEF FileInv
  <2>5. QED
    BY <1>3, <2>2, <2>3, <2>4 DEF FileInv
<1>13. LockInv'
  BY <1>0, <1>1, FinishLocks
<1>14. WorkInv'
  <2>1. ASSUME NEW q \in Jobs, Working(q)' PROVE WorkInv!(q)'
    <3>1. Working(q) /\ q # j /\ taken[q] # r /\ taken[q] \in Regions
      BY <1>1, <2>1, Workers
    <3>2. QED
      BY <1>1, <1>3, <1>4, <3>1, JobKinds DEF WorkInv
  <2>2. QED
    BY <2>1 DEF WorkInv
<1>15. ReleaseInv'
  BY <1>1, <1>3, <1>4, <1>5, JobKinds DEF ReleaseInv, Idle
<1>16. CallInv'
  <2>1. \A q \in WipeJobs : pc'[q] = pc[q] /\ target'[q] = target[q]
    BY <1>1, JobKinds
  <2>2. \A w \in Wipes : \A s \in covered[w] : s \in Regions /\ (Pending(w, s) => Pending(w, s)')
    BY <1>3, <2>1 DEF Pending, Idle, TypeOK
  <2>3. \A w \in Wipes : \A s \in covered[w] :
          /\ mem'[s] # "fresh"
          /\ s \in left[w] \/ s \in isWiped \/ mem'[s] = "freed" \/ Releasing(s)' \/ Pending(w, s)'
    BY <1>4, <1>6, <2>2 DEF CallInv
  <2>4. QED
    BY <1>3, <2>1, <2>3 DEF CallInv, Idle
<1>20. QED
  BY <1>1, <1>4, <1>11, <1>12, <1>13, <1>14, <1>15, <1>16

\* The release that could not make its region writable, and reports it.
LEMMA ReleaseUnwipedKeeps ==
  ASSUME IInv, NEW j \in Jobs, ReleaseUnwiped(j)
  PROVE  IInv'
<1> USE RegionsAssumption, JobsAssumption DEF registry, memory, owners, calls, history
<1> TypeOK /\ OwnerInv /\ FileInv /\ LockInv /\ WorkInv /\ ReleaseInv /\ ZeroInv /\ CanaryInv /\ CallInv
  BY DEF IInv
<1>0. Working(j) /\ Unlock(j) /\ Finish(j)
  BY DEF ReleaseUnwiped, Working
<1>1. /\ taken[j] \in Regions /\ target[j] = taken[j] /\ mem[taken[j]] = "mapped" /\ Locks(j) /\ ~Idle(j)
      /\ lockedBy[taken[j]] = j
      /\ \A q \in Jobs \ {j} : /\ pc'[q] = pc[q] /\ target'[q] = target[q]
                               /\ taken'[q] = taken[q] /\ fromLive'[q] = fromLive[q]
      /\ pc'[j] = "done"
      /\ \A q \in Jobs : Working(q)' <=> Working(q) /\ q # j
      /\ \A q \in Jobs \ {j} : Working(q) => taken[q] # taken[j]
      /\ \A s \in Regions : lockedBy'[s] = NoJob \/ lockedBy'[s] = lockedBy[s]
  BY <1>0, WorkerFinishes
<1>2. /\ pc' \in [Jobs -> JobStates] /\ target' \in [Jobs -> Regions \cup {NoRegion}]
      /\ taken' \in [Jobs -> Regions \cup {NoRegion}] /\ fromLive' \in [Jobs -> BOOLEAN]
      /\ lockedBy' \in [Regions -> Jobs \cup {NoJob}]
      /\ \A q \in Jobs : /\ target'[q] = NoRegion <=> pc'[q] \in {"idle", "done"}
                         /\ taken'[q] = NoRegion <=> pc'[q] \notin {"resolved", "writable"}
  BY <1>0, <1>1, FinishFacts
<1> PICK r \in Regions : r = taken[j]
  BY <1>1
<1>3. UNCHANGED <<registry, prot, content, slack, isWiped, janitorKey, borrowed, calls, covered, left, overflowed, reported, unchecked>>
  BY DEF ReleaseUnwiped
<1>4. /\ OwnerInv' /\ FileInv' /\ LockInv' /\ WorkInv' /\ ReleaseInv' /\ CallInv'
      /\ mem' \in [Regions -> {"fresh", "mapped", "freed"}] /\ owner' \in [Regions -> OwnerStates]
      /\ \A s \in Regions \ {r} : mem'[s] = mem[s] /\ owner'[s] = owner[s]
      /\ owner'[r] = "destroyed" /\ mem'[r] = "freed"
  BY <1>0, <1>3, FreeFrame DEF ReleaseUnwiped
<1>5. unwiped' = unwiped \cup {r}
  BY DEF ReleaseUnwiped
<1>6. TypeOK'
  BY <1>2, <1>3, <1>4, <1>5 DEF TypeOK
<1>7. ZeroInv'
  BY <1>3 DEF ZeroInv
<1>8. CanaryInv'
  <2>1. pc[j] = "resolved"
    BY DEF ReleaseUnwiped
  <2>2. \A s \in Keyring : owner'[s] = "live" /\ s \notin isWiped =>
          prot[s] = "RO" \/ \E q \in Jobs : pc'[q] = "writable" /\ taken'[q] = s
    BY <1>1, <1>4, <2>1 DEF CanaryInv
  <2>3. \A s \in Regions :
          /\ slack[s] = "zero" => s \in isWiped \/ mem'[s] = "freed"
          /\ s \in overflowed /\ (s \in isWiped \/ mem'[s] = "freed") => s \in reported \cup unwiped' \cup unchecked
    BY <1>4, <1>5 DEF CanaryInv
  <2>4. QED
    BY <1>3, <2>2, <2>3 DEF CanaryInv
<1>9. QED
  BY <1>4, <1>6, <1>7, <1>8 DEF IInv

\* checkCanary and the wipe of the region a job has locked: what is reported really
\* happened, and what happened is reported the first time the region is wiped.
LEMMA CheckFacts ==
  ASSUME IInv, NEW j \in Jobs, Working(j), CheckAndWipe(j), taken[j] \in Regions
  PROVE  /\ reported' \subseteq overflowed /\ reported \subseteq reported'
         /\ unchecked \subseteq unchecked' /\ unchecked' \subseteq Ciphered
         /\ taken[j] \in overflowed => taken[j] \in reported' \cup unwiped \cup unchecked'
         /\ reported' \in SUBSET Regions /\ unchecked' \in SUBSET Regions
         /\ content' \in [Regions -> {"zero", "secret", "cipher"}] /\ slack' \in [Regions -> {"canary", "over", "zero"}]
         /\ content'[taken[j]] = "zero" /\ slack'[taken[j]] = "zero"
         /\ \A s \in Regions \ {taken[j]} : content'[s] = content[s] /\ slack'[s] = slack[s]
<1> TypeOK /\ WorkInv /\ CanaryInv
  BY DEF IInv
<1>1. /\ content' \in [Regions -> {"zero", "secret", "cipher"}] /\ slack' \in [Regions -> {"canary", "over", "zero"}]
      /\ content'[taken[j]] = "zero" /\ slack'[taken[j]] = "zero"
      /\ \A s \in Regions \ {taken[j]} : content'[s] = content[s] /\ slack'[s] = slack[s]
  BY DEF TypeOK, CheckAndWipe
<1>2. mem[taken[j]] = "mapped" /\ (fromLive[j] <=> taken[j] \notin isWiped)
  BY DEF WorkInv
<1>3. /\ reported' \subseteq overflowed /\ reported \subseteq reported'
      /\ unchecked \subseteq unchecked' /\ unchecked' \subseteq Ciphered
  BY <1>2 DEF CheckAndWipe, CanaryInv, TypeOK
<1>4. taken[j] \in overflowed => taken[j] \in reported' \cup unwiped \cup unchecked'
  BY <1>2 DEF CheckAndWipe, CanaryInv
<1>5. QED
  BY <1>1, <1>3, <1>4, RegionsAssumption DEF TypeOK, CheckAndWipe

\* wipeAndFree(unmap = true).
LEMMA WipeAndFreeKeeps ==
  ASSUME IInv, NEW j \in Jobs, WipeAndFree(j)
  PROVE  IInv'
<1> USE RegionsAssumption, JobsAssumption DEF registry, memory, owners, calls, history
<1> TypeOK /\ OwnerInv /\ FileInv /\ LockInv /\ WorkInv /\ ReleaseInv /\ ZeroInv /\ CanaryInv /\ CallInv
  BY DEF IInv
<1>0. Working(j) /\ Unlock(j) /\ Finish(j)
  BY DEF WipeAndFree, Working
<1>1. /\ taken[j] \in Regions /\ target[j] = taken[j] /\ mem[taken[j]] = "mapped" /\ Locks(j) /\ ~Idle(j)
      /\ lockedBy[taken[j]] = j
      /\ \A q \in Jobs \ {j} : /\ pc'[q] = pc[q] /\ target'[q] = target[q]
                               /\ taken'[q] = taken[q] /\ fromLive'[q] = fromLive[q]
      /\ pc'[j] = "done"
      /\ \A q \in Jobs : Working(q)' <=> Working(q) /\ q # j
      /\ \A q \in Jobs \ {j} : Working(q) => taken[q] # taken[j]
      /\ \A s \in Regions : lockedBy'[s] = NoJob \/ lockedBy'[s] = lockedBy[s]
  BY <1>0, WorkerFinishes
<1>2. /\ pc' \in [Jobs -> JobStates] /\ target' \in [Jobs -> Regions \cup {NoRegion}]
      /\ taken' \in [Jobs -> Regions \cup {NoRegion}] /\ fromLive' \in [Jobs -> BOOLEAN]
      /\ lockedBy' \in [Regions -> Jobs \cup {NoJob}]
      /\ \A q \in Jobs : /\ target'[q] = NoRegion <=> pc'[q] \in {"idle", "done"}
                         /\ taken'[q] = NoRegion <=> pc'[q] \notin {"resolved", "writable"}
  BY <1>0, <1>1, FinishFacts
<1> PICK r \in Regions : r = taken[j]
  BY <1>1
<1>3. UNCHANGED <<registry, prot, isWiped, janitorKey, borrowed, calls, covered, left, overflowed, unwiped>>
  BY DEF WipeAndFree
<1>4. /\ OwnerInv' /\ FileInv' /\ LockInv' /\ WorkInv' /\ ReleaseInv' /\ CallInv'
      /\ mem' \in [Regions -> {"fresh", "mapped", "freed"}] /\ owner' \in [Regions -> OwnerStates]
      /\ \A s \in Regions \ {r} : mem'[s] = mem[s] /\ owner'[s] = owner[s]
      /\ owner'[r] = "destroyed" /\ mem'[r] = "freed"
  BY <1>0, <1>3, FreeFrame DEF WipeAndFree
<1>5. /\ reported' \subseteq overflowed /\ reported \subseteq reported'
      /\ unchecked \subseteq unchecked' /\ unchecked' \subseteq Ciphered
      /\ r \in overflowed => r \in reported' \cup unwiped \cup unchecked'
      /\ reported' \in SUBSET Regions /\ unchecked' \in SUBSET Regions
      /\ content' \in [Regions -> {"zero", "secret", "cipher"}] /\ slack' \in [Regions -> {"canary", "over", "zero"}]
      /\ content'[r] = "zero" /\ slack'[r] = "zero"
      /\ \A s \in Regions \ {r} : content'[s] = content[s] /\ slack'[s] = slack[s]
  BY <1>0, <1>1, CheckFacts DEF WipeAndFree
<1>6. TypeOK'
  BY <1>2, <1>3, <1>4, <1>5 DEF TypeOK
<1>7. ZeroInv'
  BY <1>3, <1>5 DEF ZeroInv
<1>8. CanaryInv'
  <2>2. \A s \in Keyring : owner'[s] = "live" /\ s \notin isWiped =>
          prot[s] = "RO" \/ \E q \in Jobs : pc'[q] = "writable" /\ taken'[q] = s
    BY <1>1, <1>4 DEF CanaryInv
  <2>3. \A s \in Regions :
          /\ slack'[s] = "zero" => s \in isWiped \/ mem'[s] = "freed"
          /\ slack'[s] = "over" => s \in overflowed
          /\ content'[s] = "cipher" => s \in Ciphered
          /\ s \in overflowed =>
               /\ s \notin Keyring /\ slack'[s] # "canary"
               /\ s \in isWiped \/ mem'[s] = "freed" => s \in reported' \cup unwiped \cup unchecked'
    BY <1>4, <1>5 DEF CanaryInv
  <2>4. QED
    BY <1>3, <1>5, <2>2, <2>3 DEF CanaryInv
<1>9. QED
  BY <1>4, <1>6, <1>7, <1>8 DEF IInv

\* wipeAndFree(unmap = false) and markWiped: the region holds zeros, its owner knows,
\* and it stays filed in the wiped set.
LEMMA WipeInPlaceKeeps ==
  ASSUME IInv, NEW j \in Jobs, WipeInPlace(j)
  PROVE  IInv'
<1> USE RegionsAssumption, JobsAssumption DEF registry, memory, owners, calls, history
<1> TypeOK /\ OwnerInv /\ FileInv /\ LockInv /\ WorkInv /\ ReleaseInv /\ ZeroInv /\ CanaryInv /\ CallInv
  BY DEF IInv
<1> j \in WipeJobs
  BY DEF WipeInPlace
<1>0. Working(j) /\ Unlock(j) /\ Finish(j)
  BY DEF WipeInPlace, Working
<1>1. /\ taken[j] \in Regions /\ target[j] = taken[j] /\ mem[taken[j]] = "mapped" /\ Locks(j) /\ ~Idle(j)
      /\ lockedBy[taken[j]] = j
      /\ \A q \in Jobs \ {j} : /\ pc'[q] = pc[q] /\ target'[q] = target[q]
                               /\ taken'[q] = taken[q] /\ fromLive'[q] = fromLive[q]
      /\ pc'[j] = "done"
      /\ \A q \in Jobs : Working(q)' <=> Working(q) /\ q # j
      /\ \A q \in Jobs \ {j} : Working(q) => taken[q] # taken[j]
      /\ \A s \in Regions : lockedBy'[s] = NoJob \/ lockedBy'[s] = lockedBy[s]
  BY <1>0, WorkerFinishes
<1>2. /\ pc' \in [Jobs -> JobStates] /\ target' \in [Jobs -> Regions \cup {NoRegion}]
      /\ taken' \in [Jobs -> Regions \cup {NoRegion}] /\ fromLive' \in [Jobs -> BOOLEAN]
      /\ lockedBy' \in [Regions -> Jobs \cup {NoJob}]
      /\ \A q \in Jobs : /\ target'[q] = NoRegion <=> pc'[q] \in {"idle", "done"}
                         /\ taken'[q] = NoRegion <=> pc'[q] \notin {"resolved", "writable"}
  BY <1>0, <1>1, FinishFacts
<1> PICK r \in Regions : r = taken[j]
  BY <1>1
<1> PICK k \in Keys : k = j.key
  BY JobKinds
<1>3. UNCHANGED <<registry, mem, prot, owner, janitorKey, borrowed, calls, covered, left, overflowed, unwiped>>
  BY DEF WipeInPlace
<1>4. wiped[k] = r /\ janitorKey[r] = k /\ \A c \in Keys : regions[c] # r
  BY <1>0 DEF WorkInv, FileInv
<1>5. /\ reported' \subseteq overflowed /\ reported \subseteq reported'
      /\ unchecked \subseteq unchecked' /\ unchecked' \subseteq Ciphered
      /\ r \in overflowed => r \in reported' \cup unwiped \cup unchecked'
      /\ reported' \in SUBSET Regions /\ unchecked' \in SUBSET Regions
      /\ content' \in [Regions -> {"zero", "secret", "cipher"}] /\ slack' \in [Regions -> {"canary", "over", "zero"}]
      /\ content'[r] = "zero" /\ slack'[r] = "zero"
      /\ \A s \in Regions \ {r} : content'[s] = content[s] /\ slack'[s] = slack[s]
  BY <1>0, <1>1, CheckFacts DEF WipeInPlace
<1>6. isWiped' = isWiped \cup {r}
  BY DEF WipeInPlace
<1>7. \A s : Releasing(s)' <=> Releasing(s)
  BY <1>1 DEF Releasing
<1>10. TypeOK'
  BY <1>2, <1>3, <1>5, <1>6 DEF TypeOK
<1>11. OwnerInv'
  BY <1>1, <1>3, <1>6, JobKinds DEF OwnerInv
<1>12. FileInv'
  <2>1. \A q \in WipeJobs \ {j} : Working(q) => Working(q)' /\ taken'[q] = taken[q] /\ fromLive'[q] = fromLive[q]
    BY <1>1, JobKinds
  <2>2. \A c \in Keys, s \in Regions :
       regions[c] = s => janitorKey[s] = c /\ mem[s] = "mapped" /\ s \notin isWiped'
    BY <1>4, <1>6 DEF FileInv
  <2>3. \A c \in Keys, s \in Regions :
       wiped[c] = s =>
         /\ janitorKey[s] = c /\ mem[s] = "mapped"
         /\ \/ s \in isWiped'
            \/ \E q \in WipeJobs : Working(q)' /\ taken'[q] = s /\ fromLive'[q]
    BY <1>6, <2>1 DEF FileInv
  <2>4. QED
    BY <1>3, <1>7, <2>2, <2>3 DEF FileInv
<1>13. LockInv'
  BY <1>0, <1>1, FinishLocks
<1>14. WorkInv'
  <2>1. ASSUME NEW q \in Jobs, Working(q)' PROVE WorkInv!(q)'
    <3>1. Working(q) /\ q # j /\ taken[q] # r /\ taken[q] \in Regions
      BY <1>1, <2>1, Workers
    <3>2. QED
      BY <1>1, <1>3, <1>6, <3>1, JobKinds DEF WorkInv
  <2>2. QED
    BY <2>1 DEF WorkInv
<1>15. ReleaseInv'
  BY <1>1, <1>3 DEF ReleaseInv, Idle
<1>16. ZeroInv'
  BY <1>5, <1>6 DEF ZeroInv
<1>17. CanaryInv'
  <2>2. \A s \in Keyring : owner[s] = "live" /\ s \notin isWiped' =>
          prot[s] = "RO" \/ \E q \in Jobs : pc'[q] = "writable" /\ taken'[q] = s
    BY <1>1, <1>6 DEF CanaryInv
  <2>3. \A s \in Regions :
          /\ slack'[s] = "zero" => s \in isWiped' \/ mem[s] = "freed"
          /\ slack'[s] = "over" => s \in overflowed
          /\ content'[s] = "cipher" => s \in Ciphered
          /\ s \in overflowed =>
               /\ s \notin Keyring /\ slack'[s] # "canary"
               /\ s \in isWiped' \/ mem[s] = "freed" => s \in reported' \cup unwiped \cup unchecked'
    BY <1>5, <1>6 DEF CanaryInv
  <2>4. QED
    BY <1>3, <1>5, <2>2, <2>3 DEF CanaryInv
<1>18. CallInv'
  <2>1. \A q \in WipeJobs : q # j => pc'[q] = pc[q] /\ target'[q] = target[q]
    BY <1>1, JobKinds
  <2>2. \A w \in Wipes : \A s \in covered[w] : Pending(w, s) => s \in isWiped' \/ Pending(w, s)'
    BY <1>1, <1>3, <1>6, <2>1 DEF Pending, Idle
  <2>3. QED
    BY <1>1, <1>3, <1>6, <1>7, <2>1, <2>2 DEF CallInv, Idle
<1>20. QED
  BY <1>10, <1>11, <1>12, <1>13, <1>14, <1>15, <1>16, <1>17, <1>18 DEF IInv
-----------------------------------------------------------------------------
(* The inductive invariant. *)

\* What an owner does with its region, registered or not.
LEMMA OwnerStep ==
  ASSUME IInv, NEW r \in Regions
  PROVE  /\ CloseNewBuffer(r) \/ fillInitial(r) \/ ReturnEmpty(r) \/ FillPrekey(r) => IInv'
         /\ ProtectPrekey(r) \/ Borrow(r) \/ EndBorrow(r) \/ Drop(r) => IInv'
         /\ \A p \in Protections : SetProtection(r, p) => IInv'
<1> USE RegionsAssumption, ProtectionsAssumption
<1> TypeOK /\ OwnerInv /\ FileInv /\ LockInv /\ WorkInv /\ ReleaseInv /\ ZeroInv /\ CanaryInv /\ CallInv
  BY DEF IInv
<1>0. \A j \in Jobs : Working(j) => lockedBy[taken[j]] = j /\ j # NoJob
  BY Workers, JobsAssumption
<1>1. ASSUME CloseNewBuffer(r) PROVE IInv'
  <2>1. TypeOK'
    BY <1>1, SMTT(30) DEF CloseNewBuffer, TypeOK, OwnerStates, registry, memory, owners, jobs, calls, history
  <2>2. OwnerInv'
    BY <1>1 DEF CloseNewBuffer, TypeOK, OwnerInv, registry, memory, owners, jobs, calls, history
  <2>3. FileInv' /\ LockInv' /\ ReleaseInv' /\ CallInv'
    BY <1>1, OwnerFrame DEF CloseNewBuffer, registry, memory, owners, jobs, calls, history
  <2>4. WorkInv'
    BY <1>0, <1>1 DEF CloseNewBuffer, TypeOK, WorkInv, Working, OwnerInv, registry, memory, owners, jobs, calls, history
  <2>5. ZeroInv'
    BY <1>1 DEF CloseNewBuffer, TypeOK, ZeroInv, OwnerInv, registry, memory, owners, jobs, calls, history
  <2>6. CanaryInv'
    BY <1>0, <1>1 DEF CloseNewBuffer, TypeOK, CanaryInv, OwnerInv, Working, registry, memory, owners, jobs, calls, history
  <2>7. QED
    BY <2>1, <2>2, <2>3, <2>4, <2>5, <2>6 DEF IInv
<1>2. ASSUME fillInitial(r) PROVE IInv'
  <2>1. TypeOK'
    BY <1>2, SMTT(30) DEF fillInitial, TypeOK, OwnerStates, registry, memory, owners, jobs, calls, history
  <2>2. OwnerInv'
    BY <1>2 DEF fillInitial, ExclusiveFree, TypeOK, OwnerInv, registry, memory, owners, jobs, calls, history
  <2>3. FileInv' /\ LockInv' /\ ReleaseInv' /\ CallInv'
    BY <1>2, OwnerFrame DEF fillInitial, registry, memory, owners, jobs, calls, history
  <2>4. WorkInv'
    BY <1>0, <1>2 DEF fillInitial, ExclusiveFree, TypeOK, WorkInv, Working, OwnerInv, registry, memory, owners, jobs, calls, history
  <2>5. ZeroInv'
    BY <1>2 DEF fillInitial, ExclusiveFree, TypeOK, ZeroInv, OwnerInv, registry, memory, owners, jobs, calls, history
  <2>6. CanaryInv'
    BY <1>0, <1>2 DEF fillInitial, ExclusiveFree, TypeOK, CanaryInv, OwnerInv, Working, registry, memory, owners, jobs, calls, history
  <2>7. QED
    BY <2>1, <2>2, <2>3, <2>4, <2>5, <2>6 DEF IInv
<1>3. ASSUME ReturnEmpty(r) PROVE IInv'
  <2>1. TypeOK'
    BY <1>3 DEF ReturnEmpty, TypeOK, OwnerStates, registry, memory, owners, jobs, calls, history
  <2>2. OwnerInv'
    BY <1>3 DEF ReturnEmpty, TypeOK, OwnerInv, registry, memory, owners, jobs, calls, history
  <2>3. FileInv' /\ LockInv' /\ ReleaseInv' /\ CallInv'
    BY <1>3, OwnerFrame DEF ReturnEmpty, registry, memory, owners, jobs, calls, history
  <2>4. WorkInv'
    BY <1>0, <1>3 DEF ReturnEmpty, TypeOK, WorkInv, Working, OwnerInv, registry, memory, owners, jobs, calls, history
  <2>5. ZeroInv'
    BY <1>3 DEF ReturnEmpty, TypeOK, ZeroInv, OwnerInv, registry, memory, owners, jobs, calls, history
  <2>6. CanaryInv'
    BY <1>0, <1>3 DEF ReturnEmpty, TypeOK, CanaryInv, OwnerInv, Working, registry, memory, owners, jobs, calls, history
  <2>7. QED
    BY <2>1, <2>2, <2>3, <2>4, <2>5, <2>6 DEF IInv
<1>4. ASSUME FillPrekey(r) PROVE IInv'
  <2>1. TypeOK'
    BY <1>4, SMTT(30) DEF FillPrekey, TypeOK, OwnerStates, registry, memory, owners, jobs, calls, history
  <2>2. OwnerInv'
    BY <1>4 DEF FillPrekey, ExclusiveFree, TypeOK, OwnerInv, registry, memory, owners, jobs, calls, history
  <2>3. FileInv' /\ LockInv' /\ ReleaseInv' /\ CallInv'
    BY <1>4, OwnerFrame DEF FillPrekey, registry, memory, owners, jobs, calls, history
  <2>4. WorkInv'
    BY <1>0, <1>4 DEF FillPrekey, ExclusiveFree, TypeOK, WorkInv, Working, OwnerInv, registry, memory, owners, jobs, calls, history
  <2>5. ZeroInv'
    BY <1>4 DEF FillPrekey, ExclusiveFree, TypeOK, ZeroInv, OwnerInv, registry, memory, owners, jobs, calls, history
  <2>6. CanaryInv'
    BY <1>0, <1>4 DEF FillPrekey, ExclusiveFree, TypeOK, CanaryInv, OwnerInv, Working, registry, memory, owners, jobs, calls, history
  <2>7. QED
    BY <2>1, <2>2, <2>3, <2>4, <2>5, <2>6 DEF IInv
<1>5. ASSUME ProtectPrekey(r) PROVE IInv'
  <2>1. TypeOK'
    <3>1. prot' \in [Regions -> {"RW", "RO", "NONE"}]
      BY <1>5 DEF ProtectPrekey, TypeOK
    <3>2. owner' \in [Regions -> OwnerStates]
      BY <1>5 DEF ProtectPrekey, TypeOK, OwnerStates
    <3>3. QED
      BY <3>1, <3>2, <1>5 DEF ProtectPrekey, TypeOK, registry, jobs, calls, history
  <2>2. OwnerInv'
    BY <1>5 DEF ProtectPrekey, TypeOK, OwnerInv, registry, memory, owners, jobs, calls, history
  <2>3. FileInv' /\ LockInv' /\ ReleaseInv' /\ CallInv'
    BY <1>5, OwnerFrame DEF ProtectPrekey, registry, memory, owners, jobs, calls, history
  <2>4. WorkInv'
    BY <1>0, <1>5 DEF ProtectPrekey, TypeOK, WorkInv, Working, OwnerInv, registry, memory, owners, jobs, calls, history
  <2>5. ZeroInv'
    BY <1>5 DEF ProtectPrekey, TypeOK, ZeroInv, OwnerInv, registry, memory, owners, jobs, calls, history
  <2>6. CanaryInv'
    BY <1>0, <1>5 DEF ProtectPrekey, TypeOK, CanaryInv, OwnerInv, Working, registry, memory, owners, jobs, calls, history
  <2>7. QED
    BY <2>1, <2>2, <2>3, <2>4, <2>5, <2>6 DEF IInv
<1>6. ASSUME Borrow(r) PROVE IInv'
  <2>1. TypeOK'
    BY <1>6 DEF Borrow, TypeOK, OwnerStates, registry, memory, owners, jobs, calls, history
  <2>2. OwnerInv'
    BY <1>6 DEF Borrow, SharedFree, TypeOK, OwnerInv, registry, memory, owners, jobs, calls, history
  <2>3. FileInv' /\ LockInv' /\ ReleaseInv' /\ CallInv'
    BY <1>6, OwnerFrame DEF Borrow, registry, memory, owners, jobs, calls, history
  <2>4. WorkInv'
    BY <1>0, <1>6 DEF Borrow, SharedFree, TypeOK, WorkInv, Working, OwnerInv, registry, memory, owners, jobs, calls, history
  <2>5. ZeroInv'
    BY <1>6 DEF Borrow, SharedFree, TypeOK, ZeroInv, OwnerInv, registry, memory, owners, jobs, calls, history
  <2>6. CanaryInv'
    BY <1>0, <1>6 DEF Borrow, SharedFree, TypeOK, CanaryInv, OwnerInv, Working, registry, memory, owners, jobs, calls, history
  <2>7. QED
    BY <2>1, <2>2, <2>3, <2>4, <2>5, <2>6 DEF IInv
<1>7. ASSUME EndBorrow(r) PROVE IInv'
  <2>1. TypeOK'
    <3>1. /\ prot' \in [Regions -> {"RW", "RO", "NONE"}] /\ borrowed' \in SUBSET Regions
          /\ content' \in [Regions -> {"zero", "secret", "cipher"}]
          /\ slack' \in [Regions -> {"canary", "over", "zero"}] /\ overflowed' \in SUBSET Regions
      BY <1>7 DEF EndBorrow, TypeOK
    <3>2. QED
      BY <1>7, <3>1 DEF EndBorrow, TypeOK, registry, jobs, calls
  <2>2. OwnerInv'
    BY <1>7 DEF EndBorrow, TypeOK, OwnerInv, registry, memory, owners, jobs, calls, history
  <2>3. FileInv' /\ LockInv' /\ ReleaseInv' /\ CallInv'
    BY <1>7, OwnerFrame DEF EndBorrow, registry, memory, owners, jobs, calls, history
  <2>4. WorkInv'
    BY <1>0, <1>7 DEF EndBorrow, TypeOK, WorkInv, Working, OwnerInv, registry, memory, owners, jobs, calls, history
  <2>5. ZeroInv'
    BY <1>7 DEF EndBorrow, TypeOK, ZeroInv, OwnerInv, registry, memory, owners, jobs, calls, history
  <2>6. CanaryInv'
    BY <1>0, <1>7 DEF EndBorrow, TypeOK, CanaryInv, OwnerInv, Working, registry, memory, owners, jobs, calls, history
  <2>7. QED
    BY <2>1, <2>2, <2>3, <2>4, <2>5, <2>6 DEF IInv
<1>8. ASSUME NEW p \in Protections, SetProtection(r, p) PROVE IInv'
  <2>1. TypeOK'
    BY <1>8, SMTT(30) DEF SetProtection, TypeOK, OwnerStates, registry, memory, owners, jobs, calls, history
  <2>2. OwnerInv'
    BY <1>8 DEF SetProtection, ExclusiveFree, TypeOK, OwnerInv, registry, memory, owners, jobs, calls, history
  <2>3. FileInv' /\ LockInv' /\ ReleaseInv' /\ CallInv'
    BY <1>8, OwnerFrame DEF SetProtection, registry, memory, owners, jobs, calls, history
  <2>4. WorkInv'
    BY <1>0, <1>8 DEF SetProtection, ExclusiveFree, TypeOK, WorkInv, Working, OwnerInv, registry, memory, owners, jobs, calls, history
  <2>5. ZeroInv'
    BY <1>8 DEF SetProtection, ExclusiveFree, TypeOK, ZeroInv, OwnerInv, registry, memory, owners, jobs, calls, history
  <2>6. CanaryInv'
    BY <1>0, <1>8 DEF SetProtection, ExclusiveFree, TypeOK, CanaryInv, OwnerInv, Working, registry, memory, owners, jobs, calls, history
  <2>7. QED
    BY <2>1, <2>2, <2>3, <2>4, <2>5, <2>6 DEF IInv
<1>9. ASSUME Drop(r) PROVE IInv'
  <2>1. TypeOK'
    BY <1>9 DEF Drop, TypeOK, OwnerStates, registry, memory, owners, jobs, calls, history
  <2>2. OwnerInv'
    BY <1>9 DEF Drop, TypeOK, OwnerInv, registry, memory, owners, jobs, calls, history
  <2>3. FileInv' /\ LockInv' /\ ReleaseInv' /\ CallInv'
    BY <1>9, OwnerFrame DEF Drop, registry, memory, owners, jobs, calls, history
  <2>4. WorkInv'
    BY <1>0, <1>9 DEF Drop, TypeOK, WorkInv, Working, OwnerInv, registry, memory, owners, jobs, calls, history
  <2>5. ZeroInv'
    BY <1>9 DEF Drop, TypeOK, ZeroInv, OwnerInv, registry, memory, owners, jobs, calls, history
  <2>6. CanaryInv'
    BY <1>0, <1>9 DEF Drop, TypeOK, CanaryInv, OwnerInv, Working, registry, memory, owners, jobs, calls, history
  <2>7. QED
    BY <2>1, <2>2, <2>3, <2>4, <2>5, <2>6 DEF IInv
<1>10. QED
  BY <1>1, <1>2, <1>3, <1>4, <1>5, <1>6, <1>7, <1>8, <1>9

\* A job looks up a region, and announces itself or takes the lock; a call of
\* WipeAllSecrets goes from one pass to the next.
LEMMA StartStep ==
  ASSUME IInv
  PROVE  /\ \A j \in Jobs : BeginDestroy(j) \/ BeginCleanup(j) \/ TryPeek(j) => IInv'
         /\ \A j \in Jobs : BlockingPeek(j) \/ TryLock(j) \/ Acquire(j) => IInv'
         /\ \A w \in Wipes : BeginWipeAll(w) \/ SecondPass(w) \/ ReturnWipeAll(w) => IInv'
<1> USE RegionsAssumption, JobsAssumption
<1> TypeOK /\ OwnerInv /\ FileInv /\ LockInv /\ WorkInv /\ ReleaseInv /\ ZeroInv /\ CanaryInv /\ CallInv
  BY DEF IInv
<1>1. ASSUME NEW j \in Jobs, BeginDestroy(j) PROVE IInv'
  <2>1. TypeOK'
    BY <1>1, JobKinds DEF BeginDestroy, TypeOK, JobStates, registry, memory, owners, jobs, calls, history
  <2>2. OwnerInv'
    BY <1>1, JobKinds DEF BeginDestroy, TypeOK, OwnerInv, registry, memory, owners, jobs, calls, history
  <2>3. FileInv' /\ WorkInv' /\ ZeroInv' /\ CanaryInv'
    BY <1>1, StartFrame DEF BeginDestroy, TypeOK, Working, registry, memory, owners, jobs, calls, history
  <2>4. LockInv'
    BY <1>1 DEF BeginDestroy, TypeOK, LockInv, Locks, registry, memory, owners, jobs, calls, history
  <2>5. ReleaseInv'
    BY <1>1, JobKinds DEF BeginDestroy, TypeOK, ReleaseInv, Idle, OwnerInv, registry, memory, owners, jobs, calls, history
  <2>6. CallInv'
    BY <1>1, JobKinds, SMTT(30) DEF BeginDestroy, TypeOK, CallInv, Pending, Idle, Releasing, Working, registry, memory, owners, jobs, calls, history
  <2>7. QED
    BY <2>1, <2>2, <2>3, <2>4, <2>5, <2>6 DEF IInv
<1>2. ASSUME NEW j \in Jobs, BeginCleanup(j) PROVE IInv'
  <2> j \in CleanupJobs /\ j.on \in Regions /\ janitorKey[j.on] \in Keys /\ pc[j] = "idle" /\ j \notin WipeJobs
    BY <1>2, JobKinds DEF BeginCleanup, TypeOK
  <2>1. mem[j.on] = "mapped"
    BY <1>2 DEF BeginCleanup, OwnerInv, TypeOK
  <2>2. ~Releasing(j.on)
    <3> SUFFICES ASSUME NEW q \in Jobs \ WipeJobs, Working(q), taken[q] = j.on PROVE FALSE
      BY DEF Releasing
    <3>1. q.on = j.on /\ pc[q] \notin {"idle", "done"}
      BY DEF WorkInv, ReleaseInv, Working, Idle
    <3>2. q \in DestroyJobs
      BY <3>1, JobKinds
    <3>3. QED
      BY <1>2, <3>1, <3>2 DEF BeginCleanup, OwnerInv, ReleaseInv
  <2>3. j.on \in PeekAny(janitorKey[j.on])
    BY <2>1, <2>2, PeekFacts
  <2>4. target' = [target EXCEPT ![j] = j.on] /\ pc' = [pc EXCEPT ![j] = "waiting"]
    BY <1>2, <2>3, PeekFacts DEF BeginCleanup
  <2>5. UNCHANGED <<registry, memory, owners, lockedBy, taken, fromLive, calls, history>>
    BY <1>2 DEF BeginCleanup
  <2>11. TypeOK'
    BY <2>4, <2>5 DEF TypeOK, JobStates, registry, memory, owners, jobs, calls, history
  <2>12. OwnerInv'
    BY <2>4, <2>5, JobKinds DEF TypeOK, OwnerInv, registry, memory, owners, jobs, calls, history
  <2>13. FileInv' /\ WorkInv' /\ ZeroInv' /\ CanaryInv'
    BY <2>4, <2>5, StartFrame DEF TypeOK, Working, registry, memory, owners, jobs, calls, history
  <2>14. LockInv'
    BY <2>4, <2>5 DEF TypeOK, LockInv, Locks, registry, memory, owners, jobs, calls, history
  <2>15. ReleaseInv'
    BY <2>4, <2>5, <2>1, JobKinds DEF TypeOK, ReleaseInv, Idle, registry, memory, owners, jobs, calls, history
  <2>16. CallInv'
    <3>1. \A q \in WipeJobs : pc'[q] = pc[q] /\ target'[q] = target[q]
      BY <2>4, JobKinds DEF TypeOK
    <3>2. \A r : Releasing(r)' <=> Releasing(r)
      BY <2>4, <2>5 DEF TypeOK, Releasing, Working
    <3>3. QED
      BY <2>5, <3>1, <3>2 DEF CallInv, Pending, Idle, memory, owners, calls, history
  <2>17. QED
    BY <2>11, <2>12, <2>13, <2>14, <2>15, <2>16 DEF IInv
<1>3. ASSUME NEW j \in Jobs, TryPeek(j) PROVE IInv'
  <2>1. j \in WipeJobs /\ Idle(j)
    BY <1>3 DEF TryPeek, Running, Idle
  <2>2. QED
    BY <1>3, <2>1, PeekKeeps DEF TryPeek
<1>4. ASSUME NEW j \in Jobs, BlockingPeek(j) PROVE IInv'
  <2>1. j \in WipeJobs /\ j.call \in Wipes
    BY <1>4, JobKinds DEF BlockingPeek
  <2>2. Idle(j)
    BY <1>4, <2>1 DEF BlockingPeek, CallInv
  <2>3. QED
    BY <1>4, <2>1, <2>2, PeekKeeps DEF BlockingPeek
<1>5. ASSUME NEW j \in Jobs, TryLock(j) PROVE IInv'
  <2> j \in WipeJobs /\ j.call \in Wipes /\ j.key \in Keys /\ target[j] \in Regions
    BY <1>5, JobKinds DEF TryLock, ReleaseInv, Idle, TypeOK
  <2>0. ASSUME TryFree(target[j]) PROVE TypeOK' /\ CallInv'
    <3>1. lockedBy' = [lockedBy EXCEPT ![target[j]] = j] /\ pc' = [pc EXCEPT ![j] = "held"] /\ UNCHANGED <<target, calls>>
      BY <1>5, <2>0 DEF TryLock, calls
    <3>2. TypeOK'
      BY <1>5, <3>1 DEF TryLock, TypeOK, JobStates, registry, memory, owners, jobs, calls, history
    <3>3. CallInv'
      BY <1>5, <3>1, JobKinds DEF TryLock, TypeOK, CallInv, Pending, Idle, Releasing, Working, registry, memory, owners, jobs, calls, history
    <3>4. QED
      BY <3>2, <3>3
  <2>0a. ASSUME ~TryFree(target[j]) PROVE TypeOK' /\ CallInv'
    <3>1. /\ deferred' = [deferred EXCEPT ![j.call] = deferred[j.call] \cup {j.key}]
          /\ pc' = [pc EXCEPT ![j] = "idle"] /\ target' = [target EXCEPT ![j] = NoRegion] /\ UNCHANGED lockedBy
      BY <1>5, <2>0a DEF TryLock
    <3>2. TypeOK'
      <4>1. deferred' \in [Wipes -> SUBSET Keys]
        BY <3>1 DEF TypeOK
      <4>2. QED
        BY <1>5, <3>1, <4>1 DEF TryLock, TypeOK, JobStates, registry, memory, owners, jobs, calls, history
    <3>3. CallInv'
      <4>1. \A q \in Jobs \ {j} : pc'[q] = pc[q] /\ target'[q] = target[q]
        BY <3>1 DEF TypeOK
      <4>2. call[j.call] = "pass1" /\ j.key \in deferred'[j.call] /\ pc'[j] = "idle"
        BY <1>5, <3>1 DEF TryLock, CallInv, TypeOK
      <4>3. \A w \in Wipes : deferred[w] \subseteq deferred'[w]
        BY <3>1 DEF TypeOK
      <4>4. UNCHANGED <<call, todo, covered, left, isWiped, mem, janitorKey, taken>>
        BY <1>5 DEF TryLock, memory, owners, history
      <4>5. \A r : Releasing(r)' <=> Releasing(r)
        BY <4>1, <4>4, <1>5, <4>2 DEF Releasing, Working, TryLock
      <4>6. \A w \in Wipes : \A r \in covered[w] : Pending(w, r) => Pending(w, r)'
        BY <4>1, <4>2, <4>3, <4>4, JobKinds DEF Pending, Idle
      <4>7. \A q \in WipeJobs : pc'[q] # "idle" => pc'[q] = pc[q]
        BY <4>1, <4>2, JobKinds
      <4>8. QED
        BY <4>4, <4>5, <4>6, <4>7, <4>1, JobKinds DEF CallInv, Idle
    <3>4. QED
      BY <3>2, <3>3
  <2>1. TypeOK'
    BY <2>0, <2>0a
  <2>2. OwnerInv'
    BY <1>5, JobKinds DEF TryLock, TryFree, ExclusiveFree, TypeOK, OwnerInv, registry, memory, owners, jobs, calls, history
  <2>3. FileInv' /\ WorkInv' /\ ZeroInv' /\ CanaryInv'
    BY <1>5, StartFrame DEF TryLock, TypeOK, Working, registry, memory, owners, jobs, calls, history
  <2>4. LockInv'
    BY <1>5, SMTT(30) DEF TryLock, TryFree, ExclusiveFree, TypeOK, LockInv, Locks, registry, memory, owners, jobs, calls, history
  <2>5. ReleaseInv'
    BY <1>5, JobKinds DEF TryLock, TryFree, ExclusiveFree, TypeOK, ReleaseInv, Idle, OwnerInv, registry, memory, owners, jobs, calls, history
  <2>6. CallInv'
    BY <2>0, <2>0a
  <2>7. QED
    BY <2>1, <2>2, <2>3, <2>4, <2>5, <2>6 DEF IInv
<1>6. ASSUME NEW j \in Jobs, Acquire(j) PROVE IInv'
  <2>1. TypeOK'
    BY <1>6, JobKinds, SMTT(30) DEF Acquire, ExclusiveFree, TypeOK, JobStates, registry, memory, owners, jobs, calls, history
  <2>2. OwnerInv'
    BY <1>6, JobKinds DEF Acquire, ExclusiveFree, TypeOK, OwnerInv, registry, memory, owners, jobs, calls, history
  <2>3. FileInv' /\ WorkInv' /\ ZeroInv' /\ CanaryInv'
    BY <1>6, StartFrame DEF Acquire, TypeOK, Working, registry, memory, owners, jobs, calls, history
  <2>4. LockInv'
    BY <1>6 DEF Acquire, ExclusiveFree, TypeOK, LockInv, Locks, registry, memory, owners, jobs, calls, history
  <2>5. ReleaseInv'
    BY <1>6, JobKinds DEF Acquire, ExclusiveFree, TypeOK, ReleaseInv, Idle, OwnerInv, registry, memory, owners, jobs, calls, history
  <2>6. CallInv'
    BY <1>6, JobKinds, SMTT(100) DEF Acquire, ExclusiveFree, TypeOK, CallInv, Pending, Idle, Releasing, Working, registry, memory, owners, jobs, calls, history
  <2>7. QED
    BY <2>1, <2>2, <2>3, <2>4, <2>5, <2>6 DEF IInv
<1>7. ASSUME NEW w \in Wipes, BeginWipeAll(w) PROVE IInv'
  <2>1. TypeOK'
    BY <1>7, JobKinds DEF BeginWipeAll, PeekAny, TypeOK, JobStates, registry, memory, owners, jobs, calls, history
  <2>2. OwnerInv'
    BY <1>7, JobKinds DEF BeginWipeAll, PeekAny, TypeOK, OwnerInv, registry, memory, owners, jobs, calls, history
  <2>3. FileInv' /\ WorkInv' /\ ZeroInv' /\ CanaryInv'
    BY <1>7, StartFrame DEF BeginWipeAll, TypeOK, Working, registry, memory, owners, jobs, calls, history
  <2>4. LockInv'
    BY <1>7 DEF BeginWipeAll, PeekAny, TypeOK, LockInv, Locks, registry, memory, owners, jobs, calls, history
  <2>5. ReleaseInv'
    BY <1>7, JobKinds DEF BeginWipeAll, PeekAny, TypeOK, ReleaseInv, Idle, OwnerInv, registry, memory, owners, jobs, calls, history
  <2>6. CallInv'
    <3>1. call[w] = "idle" /\ call'[w] = "pass1" /\ covered'[w] = UNION {PeekAny(k) : k \in Keys} /\ todo'[w] = {k \in Keys : PeekAny(k) # {}}
      BY <1>7 DEF BeginWipeAll, TypeOK
    <3>2. \A v \in Wipes \ {w} : call'[v] = call[v] /\ covered'[v] = covered[v] /\ todo'[v] = todo[v]
      BY <1>7 DEF BeginWipeAll, TypeOK
    <3>3. UNCHANGED <<isWiped, mem, janitorKey, pc, target, taken, left, deferred>>
      BY <1>7 DEF BeginWipeAll, memory, owners, jobs
    <3>4. \A r \in covered'[w] : mem[r] # "fresh" /\ Pending(w, r)'
      BY <3>1, <3>3, PeekFacts DEF Pending
    <3>5. \A v \in Wipes \ {w} : CallInv!(v)'
      BY <3>2, <3>3 DEF CallInv, Pending, Releasing, Working, Idle
    <3>6. CallInv!(w)'
      BY <3>1, <3>3, <3>4 DEF CallInv
    <3>7. QED
      BY <3>5, <3>6 DEF CallInv
  <2>7. QED
    BY <2>1, <2>2, <2>3, <2>4, <2>5, <2>6 DEF IInv
<1>8. ASSUME NEW w \in Wipes, SecondPass(w) PROVE IInv'
  <2>1. TypeOK'
    BY <1>8, JobKinds DEF SecondPass, Running, TypeOK, JobStates, registry, memory, owners, jobs, calls, history
  <2>2. OwnerInv'
    BY <1>8, JobKinds DEF SecondPass, Running, TypeOK, OwnerInv, registry, memory, owners, jobs, calls, history
  <2>3. FileInv' /\ WorkInv' /\ ZeroInv' /\ CanaryInv'
    BY <1>8, StartFrame DEF SecondPass, TypeOK, Working, registry, memory, owners, jobs, calls, history
  <2>4. LockInv'
    BY <1>8 DEF SecondPass, Running, TypeOK, LockInv, Locks, registry, memory, owners, jobs, calls, history
  <2>5. ReleaseInv'
    BY <1>8, JobKinds DEF SecondPass, Running, TypeOK, ReleaseInv, Idle, OwnerInv, registry, memory, owners, jobs, calls, history
  <2>6. CallInv'
    BY <1>8, JobKinds, SMTT(40) DEF SecondPass, Running, TypeOK, CallInv, Pending, Idle, Releasing, Working, registry, memory, owners, jobs, calls, history
  <2>7. QED
    BY <2>1, <2>2, <2>3, <2>4, <2>5, <2>6 DEF IInv
<1>9. ASSUME NEW w \in Wipes, ReturnWipeAll(w) PROVE IInv'
  <2>1. TypeOK'
    BY <1>9, JobKinds DEF ReturnWipeAll, Running, TypeOK, JobStates, registry, memory, owners, jobs, calls, history
  <2>2. OwnerInv'
    BY <1>9, JobKinds DEF ReturnWipeAll, Running, TypeOK, OwnerInv, registry, memory, owners, jobs, calls, history
  <2>3. FileInv' /\ WorkInv' /\ ZeroInv' /\ CanaryInv'
    BY <1>9, StartFrame DEF ReturnWipeAll, TypeOK, Working, registry, memory, owners, jobs, calls, history
  <2>4. LockInv'
    BY <1>9 DEF ReturnWipeAll, Running, TypeOK, LockInv, Locks, registry, memory, owners, jobs, calls, history
  <2>5. ReleaseInv'
    BY <1>9, JobKinds DEF ReturnWipeAll, Running, TypeOK, ReleaseInv, Idle, OwnerInv, registry, memory, owners, jobs, calls, history
  <2>6. CallInv'
    BY <1>9, JobKinds, SMTT(100) DEF ReturnWipeAll, Running, TypeOK, CallInv, Pending, Idle, Releasing, Working, registry, memory, owners, jobs, calls, history
  <2>7. QED
    BY <2>1, <2>2, <2>3, <2>4, <2>5, <2>6 DEF IInv
<1>10. QED
  BY <1>1, <1>2, <1>3, <1>4, <1>5, <1>6, <1>7, <1>8, <1>9

\* A constructor files its new mapping under a key that is free in both sets, or
\* frees it again.  Nobody has heard of the region before.
LEMMA RegisterStep ==
  ASSUME IInv, NEW r \in Regions
  PROVE  Register(r) \/ RegisterRefused(r) => IInv'
<1> USE RegionsAssumption, JobsAssumption DEF registry, memory, owners, calls, history
<1> TypeOK /\ OwnerInv /\ FileInv /\ LockInv /\ WorkInv /\ ReleaseInv /\ ZeroInv /\ CanaryInv /\ CallInv
  BY DEF IInv
<1> MintedKey \in Keys
  BY KeyAssumption DEF MintedKey, Keys, TypeOK
<1>1. ASSUME RegisterRefused(r) PROVE IInv'
  <2>1. nextJanitorKey' \in Keys /\ UNCHANGED <<regions, wiped, memory, owners, jobs, calls, history>>
    BY <1>1 DEF RegisterRefused
  <2>2. TypeOK'
    BY <2>1 DEF TypeOK, jobs
  <2>3. OwnerInv' /\ LockInv' /\ ReleaseInv' /\ ZeroInv' /\ CanaryInv'
    BY <2>1 DEF OwnerInv, LockInv, ReleaseInv, ZeroInv, CanaryInv, jobs, Locks, Idle
  <2>4. FileInv' /\ WorkInv'
    BY <2>1 DEF FileInv, WorkInv, jobs, Working, Releasing
  <2>5. CallInv'
    BY <2>1 DEF CallInv, Pending, jobs, Working, Releasing, Idle
  <2>6. QED
    BY <2>2, <2>3, <2>4, <2>5 DEF IInv
<1>2. ASSUME Register(r) PROVE IInv'
  <2> PICK k \in Keys : k = MintedKey
    OBVIOUS
  <2>1. owner[r] = "absent" /\ mem[r] = "fresh" /\ k # 0 /\ regions[k] = NoRegion /\ wiped[k] = NoRegion
    BY <1>2 DEF Register, KeyRefused, OwnerInv
  <2>2. /\ regions'[k] = r /\ \A c \in Keys \ {k} : regions'[c] = regions[c]
        /\ janitorKey'[r] = k /\ \A s \in Regions \ {r} : janitorKey'[s] = janitorKey[s]
        /\ mem'[r] = "mapped" /\ \A s \in Regions \ {r} : mem'[s] = mem[s]
        /\ owner'[r] \in {"unclosed", "unfilled"} /\ \A s \in Regions \ {r} : owner'[s] = owner[s]
        /\ owner'[r] = "unclosed" => r \in ClosedAtRest
        /\ nextJanitorKey' \in Keys
    BY <1>2 DEF Register, TypeOK
  <2>3. /\ regions' \in [Keys -> Regions \cup {NoRegion}] /\ janitorKey' \in [Regions -> Keys]
        /\ mem' \in [Regions -> {"fresh", "mapped", "freed"}] /\ owner' \in [Regions -> OwnerStates]
    BY <1>2 DEF Register, TypeOK, OwnerStates
  <2>4. UNCHANGED <<wiped, prot, content, slack, isWiped, borrowed, jobs, calls, history>>
    BY <1>2 DEF Register
  <2>5. /\ \A c \in Keys : regions[c] # r /\ wiped[c] # r
        /\ \A q \in Jobs : Working(q) => taken[q] \in Regions \ {r}
        /\ r \notin isWiped
    BY <2>1, Workers DEF FileInv, WorkInv, OwnerInv
  <2>6. \A q \in Jobs : /\ Working(q)' <=> Working(q)
                        /\ Locks(q)' <=> Locks(q)
                        /\ Idle(q)' <=> Idle(q)
    BY <2>4 DEF Working, Locks, Idle, jobs
  <2>7. \A s : Releasing(s)' <=> Releasing(s)
    BY <2>4, <2>6 DEF Releasing, jobs
  <2>11. TypeOK'
    BY <2>2, <2>3, <2>4 DEF TypeOK, jobs
  <2>12. OwnerInv'
    <3>1. OwnerInv!(r)'
      BY <2>1, <2>2, <2>4, <2>5 DEF OwnerInv, jobs
    <3>2. \A s \in Regions \ {r} : OwnerInv!(s)'
      BY <2>2, <2>4 DEF OwnerInv, jobs
    <3>3. QED
      BY <3>1, <3>2 DEF OwnerInv
  <2>13. FileInv'
    <3>1. \A c \in Keys : regions'[c] = NoRegion \/ wiped[c] = NoRegion
      BY <2>1, <2>2 DEF FileInv
    <3>2. \A c \in Keys, s \in Regions :
         regions'[c] = s => janitorKey'[s] = c /\ mem'[s] = "mapped" /\ s \notin isWiped
      BY <2>2, <2>5 DEF FileInv
    <3>3. \A c \in Keys, s \in Regions :
         wiped[c] = s =>
           /\ janitorKey'[s] = c /\ mem'[s] = "mapped"
           /\ \/ s \in isWiped
              \/ \E q \in WipeJobs : Working(q)' /\ taken'[q] = s /\ fromLive'[q]
      <4>1. \A q \in WipeJobs : Working(q) => Working(q)' /\ taken'[q] = taken[q] /\ fromLive'[q] = fromLive[q]
        BY <2>4, <2>6, JobKinds DEF jobs
      <4>2. QED
        BY <2>2, <2>5, <4>1 DEF FileInv
    <3>4. \A s \in Regions :
         mem'[s] = "mapped" =>
           regions'[janitorKey'[s]] = s \/ wiped[janitorKey'[s]] = s \/ Releasing(s)'
      <4>1. \A s \in Regions : janitorKey[s] \in Keys
        BY DEF TypeOK
      <4>2. QED
        BY <2>1, <2>2, <2>7, <4>1 DEF FileInv
    <3>5. QED
      BY <2>4, <3>1, <3>2, <3>3, <3>4 DEF FileInv
  <2>14. LockInv'
    <3>1. \A s \in Regions : lockedBy[s] # NoJob => lockedBy[s] \in Jobs
      BY DEF TypeOK
    <3>2. QED
      BY <2>4, <2>6, <3>1 DEF LockInv, jobs
  <2>15. WorkInv'
    BY <2>2, <2>4, <2>5, <2>6 DEF WorkInv, jobs
  <2>16. ReleaseInv'
    BY <2>1, <2>2, <2>4, <2>6, JobKinds DEF ReleaseInv, jobs
  <2>17. ZeroInv'
    BY <2>4 DEF ZeroInv
  <2>18. CanaryInv'
    <3>1. \A s \in Keyring : owner'[s] = "live" => owner[s] = "live"
      BY <2>2
    <3>2. \A s \in Regions : s # r => mem'[s] = mem[s]
      BY <2>2
    <3>3. slack[r] # "zero"
      BY <2>1, <2>5 DEF CanaryInv
    <3>4. QED
      BY <2>2, <2>4, <2>5, <3>1, <3>2, <3>3 DEF CanaryInv, jobs
  <2>19. CallInv'
    <3>1. \A w \in Wipes : \A s \in covered[w] : s \in Regions \ {r}
      BY <2>1 DEF CallInv, TypeOK
    <3>2. \A w \in Wipes : \A s \in covered[w] : Pending(w, s) => Pending(w, s)'
      BY <2>2, <2>4, <3>1 DEF Pending, Idle, jobs
    <3>3. QED
      BY <2>2, <2>4, <2>7, <3>1, <3>2 DEF CallInv, Idle, jobs
  <2>20. QED
    BY <2>11, <2>12, <2>13, <2>14, <2>15, <2>16, <2>17, <2>18, <2>19 DEF IInv
<1>3. QED
  BY <1>1, <1>2

\* A process that has just started, or one in which some mappings and calls of
\* WipeAllSecrets have come and gone.
LEMMA InitIInv ==
  ASSUME NEW gone, NEW over, InitAfter(gone, over)
  PROVE  IInv
<1> USE RegionsAssumption, JobsAssumption
<1>1. TypeOK
  <2>1. fromLive \in [Jobs -> BOOLEAN]
    BY Zenon DEF InitAfter
  <2>2. 0 \in Keys
    BY KeyAssumption DEF Keys
  <2>3. QED
    BY <2>1, <2>2 DEF InitAfter, TypeOK, OwnerStates, JobStates
<1>2. \A j \in Jobs : ~Working(j) /\ ~Locks(j) /\ Idle(j) /\ pc[j] = "idle"
  BY DEF InitAfter, Working, Locks, Idle
<1>3. OwnerInv /\ FileInv
  BY DEF InitAfter, OwnerInv, FileInv
<1>4. LockInv /\ WorkInv /\ ReleaseInv /\ ZeroInv
  BY <1>2 DEF InitAfter, LockInv, WorkInv, ReleaseInv, ZeroInv
<1>5. CanaryInv
  BY DEF InitAfter, CanaryInv
<1>6. CallInv
  BY <1>2, JobKinds DEF InitAfter, CallInv
<1>7. QED
  BY <1>1, <1>3, <1>4, <1>5, <1>6 DEF IInv

\* Every step of owners, jobs and calls keeps the invariant.
LEMMA NextIInv ==
  IInv /\ [Next]_vars => IInv'
<1> SUFFICES ASSUME IInv, [Next]_vars PROVE IInv'
  OBVIOUS
<1>1. ASSUME NEW r \in Regions, Owner(r) PROVE IInv'
  BY <1>1, OwnerStep, RegisterStep DEF Owner
<1>2. ASSUME NEW j \in Jobs, BeginDestroy(j) \/ BeginCleanup(j) \/ TryPeek(j) \/ BlockingPeek(j) PROVE IInv'
  BY <1>2, StartStep
<1>3. ASSUME NEW j \in Jobs, JobStep(j) PROVE IInv'
  BY <1>3, StartStep, ResolveStep, RestoreKeeps, SkipKeeps, ReleaseUnwipedKeeps,
     WipeInPlaceKeeps, WipeAndFreeKeeps DEF JobStep
<1>4. ASSUME NEW w \in Wipes, Call(w) PROVE IInv'
  BY <1>4, StartStep DEF Call
<1>5. CASE UNCHANGED vars
  <2> USE <1>5 DEF vars, registry, memory, owners, jobs, calls, history
  <2>1. TypeOK' /\ OwnerInv' /\ ZeroInv'
    BY DEF IInv, TypeOK, OwnerInv, ZeroInv
  <2>2. FileInv' /\ LockInv' /\ ReleaseInv' /\ CallInv'
    BY OwnerFrame DEF IInv
  <2>3. WorkInv' /\ CanaryInv'
    BY DEF IInv, WorkInv, CanaryInv, Working
  <2>4. QED
    BY <2>1, <2>2, <2>3 DEF IInv
<1>6. QED
  BY <1>1, <1>2, <1>3, <1>4, <1>5 DEF Next
-----------------------------------------------------------------------------
(* Theorems. *)

\* The registry, the locks, the jobs and the regions fit together in every state
\* that Destroy, the cleanup and WipeAllSecrets can reach in any interleaving.
THEOREM Invariance == Spec => []IInv
<1>1. Init => IInv
  BY InitIInv DEF Init
<1>2. QED
  BY <1>1, NextIInv, PTL DEF Spec

\* What a working job is for the properties.
LEMMA AtWorkFacts ==
  /\ AtWork = {j \in Jobs : Working(j)}
  /\ \A r : BeingReleased(r) <=> Releasing(r)
  BY DEF AtWork, BeingReleased, Releasing, Working

\* Whatever Destroy, the cleanup and the wipe passes do at the same time, a region is
\* unmapped by one of them only, touched while it is mapped, and never lost.
THEOREM RegionsFreedOnce == Spec => []FreedOnce
<1>1. IInv => FreedOnce
  <2> SUFFICES ASSUME IInv PROVE FreedOnce
    OBVIOUS
  <2> TypeOK /\ FileInv /\ WorkInv /\ ReleaseInv
    BY DEF IInv
  <2>1. \A j \in AtWork : mem[taken[j]] = "mapped"
    BY AtWorkFacts DEF WorkInv
  <2>2. \A r \in Regions : Filed(r) => mem[r] = "mapped"
    BY RegionsAssumption DEF Filed, PeekAny, FileInv
  <2>3. \A r \in Regions : mem[r] = "mapped" => Filed(r) \/ BeingReleased(r)
    BY RegionsAssumption, AtWorkFacts DEF Filed, PeekAny, FileInv, TypeOK
  <2>4. \A j \in DestroyJobs \cup CleanupJobs : pc[j] = "done" => mem[j.on] = "freed"
    BY JobKinds DEF ReleaseInv
  <2>5. QED
    BY <2>1, <2>2, <2>3, <2>4 DEF FreedOnce
<1>2. QED
  BY <1>1, Invariance, PTL

\* wipeAndFree works on the region whose lock the job holds, with nobody borrowing
\* it, although keys are reused and the key is resolved again after the wait.
THEOREM WipeUnderLock == Spec => []WipesWhatItLocked
<1>1. IInv => WipesWhatItLocked
  <2> SUFFICES ASSUME IInv, NEW j \in Jobs, Working(j)
               PROVE  /\ taken[j] = target[j]
                      /\ lockedBy[taken[j]] = j
                      /\ taken[j] \notin borrowed
                      /\ taken[j] \notin ClosedAtRest \cup Keyring => StillWritable(j)
    BY AtWorkFacts DEF WipesWhatItLocked
  <2>1. taken[j] \in Regions /\ taken[j] = target[j] /\ lockedBy[taken[j]] = j /\ j # NoJob
    BY Workers, JobsAssumption DEF IInv
  <2>2. taken[j] \notin borrowed
    BY <2>1 DEF IInv, OwnerInv
  <2>3. taken[j] \notin ClosedAtRest \cup Keyring => StillWritable(j)
    BY DEF IInv, WorkInv, StillWritable
  <2>4. QED
    BY <2>1, <2>2, <2>3
<1>2. QED
  BY <1>1, Invariance, PTL

\* No owner, however far its construction is, puts a secret back into a buffer that
\* the emergency wipe has zeroed.
THEOREM WipedForGood == Spec => []BuffersStayWiped
<1>1. IInv => BuffersStayWiped
  <2> SUFFICES ASSUME IInv, NEW r \in Regions \ Keyring PROVE HoldsZeros(r)
    BY DEF BuffersStayWiped
  <2>1. r \in isWiped => content[r] = "zero"
    BY DEF IInv, ZeroInv
  <2>2. ASSUME NEW k \in Keys, wiped[k] = r, lockedBy[r] = NoJob PROVE r \in isWiped
    BY <2>2, Workers, JobKinds, JobsAssumption DEF IInv, FileInv
  <2>3. QED
    BY <2>1, <2>2 DEF HoldsZeros
<1>2. QED
  BY <1>1, Invariance, PTL

\* A WipeAllSecrets that has returned left no registered secret it does not report:
\* what its first pass could not lock, the second has waited for.
THEOREM NothingLeftBehind == Spec => []WipeAllIsComplete
<1>1. IInv => WipeAllIsComplete
  <2> SUFFICES ASSUME IInv, NEW w \in Wipes, call[w] = "returned",
                      NEW r \in covered[w] \ (left[w] \cup Keyring)
               PROVE  mem[r] = "freed" \/ content[r] = "zero" \/ BeingReleased(r)
    BY DEF WipeAllIsComplete
  <2>1. ~Pending(w, r)
    BY DEF IInv, CallInv, Pending
  <2>2. r \in Regions
    BY DEF IInv, TypeOK
  <2>3. QED
    BY <2>1, <2>2, AtWorkFacts DEF IInv, CallInv, ZeroInv
<1>2. QED
  BY <1>1, Invariance, PTL

\* ErrCanaryViolation is neither invented by a second wipe of the same region nor
\* swallowed by a first one.
THEOREM CanaryTruth == Spec => []CanaryReports
<1>1. IInv => CanaryReports
  BY DEF IInv, CanaryInv, CanaryReports, TypeOK
<1>2. QED
  BY <1>1, Invariance, PTL
=============================================================================
