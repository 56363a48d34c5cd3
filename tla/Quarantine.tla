----------------------------- MODULE Quarantine -----------------------------
(***************************************************************************)
(* The destroy-time quarantine (src/quarantine.go): a bounded FIFO of the  *)
(* address ranges of destroyed regions, each kept as a no-access           *)
(* reservation so that a slice retained from a callback faults instead of  *)
(* reaching whatever was allocated there next.                             *)
(*                                                                         *)
(* The state is the address space, as a set of ranges, and the FIFO.       *)
(* q.mu is dropped between the admission check, the replacement of the     *)
(* mapping, the append and the unmapping of what the append evicted, so    *)
(* retireSecretMem is four steps; SetQuarantineLimits may come in between  *)
(* any two of them, and other code maps whatever range is unmapped.        *)
(***************************************************************************)
EXTENDS Integers, Sequences, FiniteSets, SequencesExt

CONSTANTS
  Procs,            \* the goroutines
  Ranges,           \* the address ranges
  Size,             \* the length of each range
  Limits,           \* the QuarantineLimits SetQuarantineLimits is given
  None

ASSUME QuarantineAssumption ==
  /\ IsFiniteSet(Procs) /\ IsFiniteSet(Ranges)
  /\ Size \in [Ranges -> Nat \ {0}]
  /\ Limits # {} /\ Limits \subseteq [Regions : Nat, Bytes : Nat]
  /\ None \notin Ranges

VARIABLES
  keepsRange,       \* quarantineFailureKeepsRange: TRUE on Windows
  space,            \* what is mapped at each range
  limits,           \* quarantine.limits
  held,             \* quarantine.held: oldest first
  bytes,            \* quarantine.bytes
  pc,               \* where each goroutine is
  region,           \* the region it owns
  evicted,          \* the reservations it has yet to unmap
  stuck             \* the reservations munmap failed on

vars == <<keepsRange, space, limits, held, bytes, pc, region, evicted, stuck>>

Contents ==
  { "free",         \* unmapped: any mmap may be placed here
    "region",       \* a region of this package
    "reserved",     \* a no-access reservation
    "foreign" }     \* a mapping of other code in the process

TypeOK ==
  /\ keepsRange \in BOOLEAN
  /\ space \in [Ranges -> Contents]
  /\ limits \in Limits
  /\ held \in Seq(Ranges)
  /\ bytes \in Nat
  /\ pc \in [Procs -> {"idle", "live", "replace", "free", "append", "release"}]
  /\ region \in [Procs -> Ranges \cup {None}]
  /\ \A p \in Procs : /\ evicted[p] \in Seq(Ranges)
                      /\ (region[p] = None) <=> (pc[p] \in {"idle", "release"})
                      /\ evicted[p] # <<>> => pc[p] = "release"
  /\ stuck \subseteq Ranges

-----------------------------------------------------------------------------

(***************************************************************************)
(* Address space taken by a queue of ranges.                               *)
(***************************************************************************)
Total(s) ==
  LET sum[n \in 0 .. Len(s)] == IF n = 0 THEN 0 ELSE sum[n - 1] + Size[s[n]]
  IN  sum[Len(s)]

(***************************************************************************)
(* How many of the oldest entries of queue s trimLocked removes: it counts *)
(* up while there are too many entries left, or the byte count, which it   *)
(* lowers as it goes, is too high.                                         *)
(***************************************************************************)
Excess(s, b, l) ==
  CHOOSE n \in 0 .. Len(s) :
    /\ \/ n = Len(s)
       \/ Len(s) - n <= l.Regions /\ b - Total(SubSeq(s, 1, n)) <= l.Bytes
    /\ \A m \in 0 .. n - 1 :
         Len(s) - m > l.Regions \/ b - Total(SubSeq(s, 1, m)) > l.Bytes

(***************************************************************************)
(* trimLocked, on queue s of b bytes: p takes the excess away with it.     *)
(***************************************************************************)
trimLockedNewest(p, s, b, l) ==
  LET n == Excess(s, b, l) IN
  /\ held' = SubSeq(s, 1, Len(s) - n)
  /\ bytes' = b - Total(SubSeq(s, Len(s) - n + 1, Len(s)))
  /\ evicted' = [evicted EXCEPT ![p] = SubSeq(s, Len(s) - n + 1, Len(s))]

trimLocked(p, s, b, l) ==
  LET n == Excess(s, b, l) IN
  /\ held' = SubSeq(s, n + 1, Len(s))
  /\ bytes' = b - Total(SubSeq(s, 1, n))
  /\ evicted' = [evicted EXCEPT ![p] = SubSeq(s, 1, n)]

-----------------------------------------------------------------------------

Init ==
  /\ keepsRange \in BOOLEAN
  /\ space = [r \in Ranges |-> "free"]
  /\ limits \in Limits
  /\ held = <<>>
  /\ bytes = 0
  /\ pc = [p \in Procs |-> "idle"]
  /\ region = [p \in Procs |-> None]
  /\ evicted = [p \in Procs |-> <<>>]
  /\ stuck = {}

Goto(p, l) == pc' = [pc EXCEPT ![p] = l]

(***************************************************************************)
(* The kernel places a mapping only where there is none: a new region of   *)
(* goroutine p, or one of other code.                                      *)
(***************************************************************************)
Allocate(p) ==
  /\ pc[p] = "idle"
  /\ \E r \in Ranges :
       /\ space[r] = "free"
       /\ space' = [space EXCEPT ![r] = "region"]
       /\ region' = [region EXCEPT ![p] = r]
  /\ Goto(p, "live")
  /\ UNCHANGED <<limits, held, bytes, evicted, stuck>>

MapForeign ==
  /\ \E r \in Ranges : /\ space[r] = "free"
                       /\ space' = [space EXCEPT ![r] = "foreign"]
  /\ UNCHANGED <<limits, held, bytes, pc, region, evicted, stuck>>

(***************************************************************************)
(* retireSecretMem, with the region's exclusive lock held and its contents *)
(* wiped.  The first section of q.mu decides whether to keep the range.    *)
(***************************************************************************)
Admit(p) ==
  /\ pc[p] = "live"
  /\ LET admit == /\ limits.Regions > 0
                  /\ Size[region[p]] <= limits.Bytes
     IN  Goto(p, IF admit THEN "replace" ELSE "free")
  /\ UNCHANGED <<space, limits, held, bytes, region, evicted, stuck>>

(***************************************************************************)
(* quarantineSecretMem.  Linux replaces the mapping with MAP_FIXED, which  *)
(* is atomic when it succeeds and may leave a hole when it fails: the      *)
(* range is then left alone.  Windows decommits, which never gives up the  *)
(* reservation: the range is then freed.                                   *)
(***************************************************************************)
QuarantineSecretMem(p) ==
  /\ pc[p] = "replace"
  /\ space' = [space EXCEPT ![region[p]] = "reserved"]
  /\ Goto(p, "append")
  /\ UNCHANGED <<limits, held, bytes, region, evicted, stuck>>

ReplaceFailsFrees(p) ==
  /\ pc[p] = "replace"
  /\ \E left \in {"region", "free"} :
       space' = [space EXCEPT ![region[p]] = left]
  /\ Goto(p, "free")
  /\ UNCHANGED <<limits, held, bytes, region, evicted, stuck>>

ReplaceFails(p) ==
  /\ pc[p] = "replace"
  /\ IF keepsRange
       THEN /\ Goto(p, "free")
            /\ UNCHANGED <<space, region>>
       ELSE /\ \E left \in {"region", "free"} :
                 space' = [space EXCEPT ![region[p]] = left]
            /\ region' = [region EXCEPT ![p] = None]
            /\ Goto(p, "idle")
  /\ UNCHANGED <<limits, held, bytes, evicted, stuck>>

(***************************************************************************)
(* freeSecretMem: the plain unmap, which may fail and leave the mapping.   *)
(***************************************************************************)
FreeSecretMem(p) ==
  /\ pc[p] = "free"
  /\ \/ space' = [space EXCEPT ![region[p]] = "free"]
     \/ UNCHANGED space
  /\ region' = [region EXCEPT ![p] = None]
  /\ Goto(p, "idle")
  /\ UNCHANGED <<limits, held, bytes, evicted, stuck>>

(***************************************************************************)
(* The second section of q.mu: append the range and trim to the limits in  *)
(* force now, which need not be the ones Admit saw.                        *)
(***************************************************************************)
AppendHeld(p) ==
  /\ pc[p] = "append"
  /\ trimLocked(p, Append(held, region[p]), bytes + Size[region[p]], limits)
  /\ region' = [region EXCEPT ![p] = None]
  /\ Goto(p, "release")
  /\ UNCHANGED <<space, limits, stuck>>

(***************************************************************************)
(* releaseAll, one reservation at a time: a munmap that fails leaves the   *)
(* range reserved for good, and the loop goes on to the next.              *)
(***************************************************************************)
ReleaseStopsAtFailure(p) ==
  /\ pc[p] = "release"
  /\ evicted[p] # <<>>
  /\ LET r == Head(evicted[p]) IN
       \/ /\ space' = [space EXCEPT ![r] = "free"]
          /\ evicted' = [evicted EXCEPT ![p] = Tail(@)]
          /\ UNCHANGED stuck
       \/ /\ stuck' = stuck \cup {r}
          /\ evicted' = [evicted EXCEPT ![p] = <<>>]
          /\ UNCHANGED space
  /\ UNCHANGED <<limits, held, bytes, pc, region>>

ReleaseQuarantined(p) ==
  /\ pc[p] = "release"
  /\ evicted[p] # <<>>
  /\ LET r == Head(evicted[p]) IN
       \/ /\ space' = [space EXCEPT ![r] = "free"]
          /\ UNCHANGED stuck
       \/ /\ stuck' = stuck \cup {r}
          /\ UNCHANGED space
  /\ evicted' = [evicted EXCEPT ![p] = Tail(@)]
  /\ UNCHANGED <<limits, held, bytes, pc, region>>

ReleaseDone(p) ==
  /\ pc[p] = "release"
  /\ evicted[p] = <<>>
  /\ Goto(p, "idle")
  /\ UNCHANGED <<space, limits, held, bytes, region, evicted, stuck>>

(***************************************************************************)
(* SetQuarantineLimits: new limits and the trim to them, in one section.   *)
(***************************************************************************)
SetQuarantineLimits(p) ==
  /\ pc[p] = "idle"
  /\ \E l \in Limits : /\ l # limits
                       /\ limits' = l
                       /\ trimLocked(p, held, bytes, l)
  /\ Goto(p, "release")
  /\ UNCHANGED <<space, region, stuck>>

Next ==
  /\ \/ MapForeign
     \/ \E p \in Procs :
          \/ Allocate(p) \/ Admit(p) \/ QuarantineSecretMem(p) \/ ReplaceFails(p)
          \/ FreeSecretMem(p) \/ AppendHeld(p) \/ ReleaseQuarantined(p)
          \/ ReleaseDone(p) \/ SetQuarantineLimits(p)
  /\ UNCHANGED keepsRange

Spec == Init /\ [][Next]_vars

-----------------------------------------------------------------------------

(***************************************************************************)
(* A slice retained from a callback faults as long as its range is held,   *)
(* and no range is lost or unmapped twice: what is held, or on its way in  *)
(* or out of the queue, is there once and is a reservation, and every      *)
(* reservation is one of those, unless unmapping it failed                 *)
(* (retireSecretMem replaces the mapping before it appends the range, and  *)
(* unmaps only what trimLocked took out; releaseAll goes on after a        *)
(* failure).                                                               *)
(***************************************************************************)
Entering(p) == IF pc[p] = "append" THEN <<region[p]>> ELSE <<>>

Places == {<<None, "held">>} \cup (Procs \X {"entering", "evicted"})

Queue(x) == IF x[2] = "held" THEN held
            ELSE IF x[2] = "entering" THEN Entering(x[1]) ELSE evicted[x[1]]

ReservationsAccounted ==
  /\ TypeOK
  /\ \A x \in Places : IsInjective(Queue(x))
  /\ \A x, y \in Places : x # y => ToSet(Queue(x)) \cap ToSet(Queue(y)) = {}
  /\ LET queued == UNION {ToSet(Queue(x)) : x \in Places} IN
       \A r \in Ranges : /\ r \in queued => space[r] = "reserved"
                        /\ space[r] = "reserved" => r \in queued \cup stuck

(***************************************************************************)
(* A retirement never unmaps memory that is not its own: not a mapping     *)
(* other code placed in the hole a failed MAP_FIXED left                   *)
(* (quarantineFailureKeepsRange), nor a region another goroutine is still  *)
(* using.                                                                  *)
(***************************************************************************)
OthersKeepTheirMemory ==
  [][ /\ \A r \in Ranges : space[r] = "foreign" => space'[r] = "foreign"
      /\ \A p \in Procs : pc[p] = "live" /\ pc'[p] = "live"
                            => space'[region[p]] = "region" ]_vars

(***************************************************************************)
(* The queue evicts the oldest first, as much as it must and no more:      *)
(* after any step it is the longest run of newest entries that the limits  *)
(* now in force allow, whatever limits a range was admitted under, and its *)
(* byte counter is exact (retireSecretMem, trimLocked,                     *)
(* SetQuarantineLimits).                                                   *)
(***************************************************************************)
Newest(s, k) == SubSeq(s, Len(s) - k + 1, Len(s))

Fits(s, l) == Len(s) <= l.Regions /\ Total(s) <= l.Bytes

KeepsTheNewest ==
  [][ LET added == {p \in Procs : pc[p] = "append" /\ pc'[p] # "append"}
          s == IF added = {} THEN held
               ELSE held \o Entering(CHOOSE p \in added : TRUE)
      IN  \E k \in 0 .. Len(s) :
            /\ held' = Newest(s, k)
            /\ Fits(held', limits')
            /\ bytes' = Total(held')
            /\ \A j \in k + 1 .. Len(s) : ~ Fits(Newest(s, j), limits') ]_vars
=============================================================================
