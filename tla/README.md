# Verification of secmem

TLA+ models of secmem, a Go library that keeps secrets in locked, guarded
memory outside the Go heap, with the TLC configurations that check them and
TLAPS proofs of their safety properties for every number of goroutines, regions,
slots, ranges, connections and files. Paths below are relative to `src/`.

## 1. The system

| Component | Source | State | Operations | Modelled in |
|---|---|---|---|---|
| buffer lock | `buflock.go` | one atomic word (reader count minus the writer bias), a mutex, a condition variable, waiter counts | rLock, rUnlock, lock, tryLock, unlock | `RWLock`, `BufferLock`, `BufferLockProofs` |
| janitor registry | `registry.go`, `region.go` | the live set and the wiped set (key to registration), the key counter | register, take, takeAny(If), peekAny, moveToWipedIf, returnToLive, release, wipeInPlace, tryWipeInPlace, WipeAllSecrets, wipeAndFree | `Janitor`, `JanitorProofs` |
| SecureBuffer | `securebuf.go`, `securebuf_access.go`, `closedatrest.go` | length, protection, seal flags and tag, opener count, wiped flag | construction, borrows, CopyIn/ReadFrom/Truncate, ReadOnly/ReadWrite, Seal/Unseal, Destroy | `SecureBuffer`, `SecureBufferProofs`, construction in `Janitor` |
| seal authentication | `sealauth.go`, `sealcipher_*.go` | one prekey per process, its generation and wiped flag | withPrekey, initLocked, sealAuthenticate, sealVerify, sealEncrypt, sealDecrypt | `SecureBuffer`, prekey registration in `Janitor` |
| SecureArena | `securearena.go` | slots with generations, the intrusive FIFO free list, canary strips, slab flags | Acquire, WithBytes(Err), Release, ReadOnly/ReadWrite, Destroy | `SecureArena`, `SecureArenaProofs` |
| destroy quarantine | `quarantine*.go` | FIFO of address ranges held as reservations, its limits and byte count | retireSecretMem, trimLocked, releaseAll, SetQuarantineLimits | `Quarantine`, `QuarantineProofs` |
| termination wipe | `terminationwipe.go`, `terminationignore_*.go` | a handler goroutine, its channel and registration | both installers, uninstall, the bounded wipe, re-raise, exit, re-registration | `TerminationWipe`, `TerminationWipeProofs` |
| canary, page allocation, options | `canary.go`, `mlock_*.go`, `options.go` | | armed, overwritten and zeroed zones; protection, page locks, unmapping | states and calls inside the modules above |
| register and stack scrubbing | `scrub*.go`, `vecclear_*` | thread pin, signal mask, the band of dead stack | Scrub, ScrubErr and their windows | `ScrubWindow`, `ExposureProofs` |
| httpauth transport | `httpauth/transport.go` | host table, token, request in flight | construction, RoundTrip, token injection | `Transport`, `ExposureProofs` |
| redaction | `redact/` | derived handlers, the message in progress | WithGroup, WithAttrs, Handle, Sanitize | `RedactHandler`, `Sanitizer` |
| keys and parsers | `secmem-crypto/` | the buffers and heap copies of a call | parsers, generators, key agreement, marshalling | `KeyCalls`, `ExposureProofs`; borrows of shared keys in `KeyOps`, `BufferLockProofs` |
| key derivation | `secmem-crypto/argon2_workspace.go`, `kdf.go`, `*_inplace.go` | workspace mutex, pool channel | Derive, pool Derive and Destroy, every borrow | `KeyOps`, `BufferLockProofs` |
| ssh agent example | `examples/hardened-ssh-agent/` | keyring, timers, connections, context | add, sign, list, remove, lock, unlock, expire, serve, shut down | `Keyring`, `Agent`, `AgentProofs` |
| hardening, capabilities, wiping primitives, linter, password-login | `harden*.go`, `capabilities.go`, `wipe_*`, `secmem-lint/`, `examples/password-login/` | | | not modelled (section 6) |

How they interact. Every SecureBuffer, every arena slab and the seal prekey is
a *region*: one mapping, one `bufferRWLock`, one wiped flag, one registration.
Callbacks borrow a region under the shared lock; whatever changes its state or
tears it down takes the lock exclusively. The registry has a mutex of its own,
never held while a region's lock is waited for: jobs peek at the registry, wait
for the region's lock, and resolve their key again under it. Destroy, the
cleanup that the garbage collector runs on a lost buffer, and WipeAllSecrets all
end in wipeAndFree; Destroy and the cleanup hand the range to the quarantine
instead of unmapping it. A termination signal runs WipeAllSecrets, bounded by a
timeout, and then gives the signal back. Around this core stand its users:
secmem-crypto keeps keys in SecureBuffers and computes inside borrows and Scrub
windows, the transport borrows a token for one request, the agent keeps sealed
secmem-crypto keys and runs the termination wipe, and the redactor keeps text
about any of them out of logs.

What is hard here: the lock's unlocked fast paths; who takes a region first when
Destroy, cleanup and two wipe passes race; keys looked up before a long wait;
callbacks that never return; protection calls, ciphers and page locks that fail
half way through Seal or Unseal; handles of slots that have a new tenant;
addresses other code may map at any moment; the window in which a signal meets
the default disposition; a call that fails after it has built half a key; a
redirect that carries a credential on; a panic or Goexit out of nested scrub
windows; deadlines of one clock enforced by timers of another; names that become
sensitive only when they are put together. `PROJECT.json` lists each as a hazard
at its line.

## 2. The modules

Common conventions. A critical section is one step. An operation that gives up
a lock between two sections is as many steps. A system call that can fail is a
choice. Operators whose names extend another's (`unlockNoBroadcast`,
`ClaimUnswapped`, ...) are plausible mistakes in that operation; no
specification uses them, they show that the properties notice.

**RWLock** is the abstract specification: a set of readers, at most one writer,
writers that have announced themselves and that new readers do not overtake.

**BufferLock** is `buflock.go` at the grain of its atomic instructions. `readers`
is the word; `writersWaiting`, `writerActive`, `readersWaiting` are guarded by
`mu`; `waiters` is the condition variable's notify list; `pc` says where each
goroutine is. A step accesses the word at most once, so `rLockSlow` (undo the
fast path's increment, then enrol) and `lock` (announce, test, wait) are split,
with `mu` held in between where the code holds it. `ImplementsRWLock` maps a
goroutine to reader, writer or waiter by its position.

**Janitor** has one record of facts per region (mapping, protection, contents,
canary slack, wiped flag, owner's progress, borrow, lock holder) and one *job*
per run of release, wipeInPlace or tryWipeInPlace: peeked, waiting or held,
resolved, writable, done. The lock is RWLock, which BufferLock implements.
Between `resolved` and `writable` lies restoreWriteAccess, between `writable` and
`done` the canary check, the wipe and the release: owners that change a
protection without the lock (`CloseNewBuffer`, `ProtectPrekey`) can come between.
A region of `Ciphered` may be sealed with the Windows cipher, and then its canary
is not looked at; a closed-at-rest buffer may fail to close, after its contents
were copied in and after a borrow. `KeyMod` is the width of the 64-bit key
counter, so that it wraps.

**SecureBuffer** is one buffer as a record. `build` is the way it was built:
closed at rest or not, authenticated seal or not, Windows or not, which services
fail. A call that can fail is the set of its outcomes and a method strings the
outcomes together in the code's order, with its rollbacks. Bytes are abstracted
to what the methods promise about them: how many layers of cipher, whether a bit
changed since the tag, up to where they may be non-zero. The tag is abstracted to
whether it fits the bytes left at rest and the prekey's generation (`TagFits`).

**SecureArena** lets every goroutine use every handle ever handed out. `data[i]`
is 0 or the generation of the tenant that wrote; the free list is the code's own,
by head, tail and next links. Release is four steps: the wait for
the shared lock, the checks and the compare-and-swap, the wipe, and the append
under `alloc`. Destroy of the slab has the branch in which write access cannot be
restored and the slab is released as it is.

**Quarantine** models the address space as ranges that are free, a region, a
reservation or foreign; other code maps any free range at any time. `keepsRange`
tells Windows, where a failed replacement keeps the range, from Linux, where it
may leave a hole.

**TerminationWipe** is the handler goroutine. `install` says which installer,
whether the platform re-raises, what was inherited as ignored, and whether the
application has a handler of its own. The kernel and os/signal are external
actions. WipeAllSecrets is taken at what the Janitor runs show of it, a secret a
step: the first pass zeroes what it finds free and defers the rest, the second
waits; pages that cannot be made writable are skipped, and the error goes nowhere;
a secret in Destroy's hands is none of its business. It runs in a goroutine of its
own: the timer may fire anywhere in it, in the first pass too, and it goes on
(`wipe["late"]`) while the handler gives the signal back. That the first pass is
over before a timeout of seconds ("By then every secret that was not borrowed is
already zeroed") is a matter of timing no model shows, and none is assumed.

**Keyring** is the agent's store. Every method runs under `k.mu`; Add, Sign, Lock
and Unlock are split where their key lies open, because the termination wipe
takes no notice of `k.mu`. `buffer[b]` is what a SecureBuffer is: none, open,
sealed or wiped. `wall` is the clock deadlines are written in, `timers` what is
left of the one-shot timers, which stand still while the machine is suspended.
**Agent** composes it with the server: the semaphore taken before Accept, the
goroutine of each connection, the request as its parser understands it, the
signal goroutine (destroy, then cancel), serve's and run's deferred calls. A
message comes in part by part, and is in memory from its first part on; a read
that fails wipes what has arrived. Sign is the sweep and the Unseal, the
signature, and the reseal, with clock and host free to move on in between. A
parsed add carries its constraints in order, and the last lifetime wins.
`asked` and `until` are history: what each constraint of a key's add may be taken
to grant. The
termination wipe that the agent installs re-raises into the agent's own signal
channel, so that here it is the wipe and nothing else; a re-raise that is lost is
TerminationWipe's matter.

**Transport** is one RoundTrip in the steps in which it holds no lock on the
token (measure, copy, send), beside an owner who calls Truncate, CopyIn, Seal,
Unseal, WipeAllSecrets or Destroy and a client that follows redirects. A nil
Transport, a nil request and one without a URL are requests too. `Promised` is the
reference for the decision: what the options say, read off the documentation of
the options and not off the host table that the code builds from them.

**RedactHandler** is the handlers derived from one, and the walk over a record's
attributes, a call of the walk a step. Keys are sequences of runes, since how a
name splits into components is what the property is about. Values are a graph, in
which a pointer may lead back to what holds it. `walk.todo` holds the calls still
to be made; `cells` is what was written, each cell the names around a piece of
text and the kind of text. Any value may have a method of its own beside its kind,
so that taking it apart is a possible mistake and not one the model rules out:
`Part` marks what is inside such a value, and the property is that no marked text
is written. A map key is printed by fmt, which knows fewer methods than the walk.

**Sanitizer** is the loop of Sanitize, a pass a step, over sequences of units that
stand for what the rules tell apart: a key name, twenty characters of a random run,
a quote, half a rune. All eighteen default rules are there, each by the end of the
match that begins at a place; a rule is a scan from the left that replaces what its
filter and the allowlist do not spare. Tags are text like any other: `[secret]` is
the tag of a rule whose name ends in a key name, its opening holds a colon that
url_password can take for its own, and an escape character before it makes a
terminal sequence of its first letters.

**ScrubWindow** has goroutines on threads, each a pin count and a stack of
windows; threads with a signal mask; and where copies of a secret lie: registers
and dead stack. The scheduler may move an unpinned goroutine and preempt an
unmasked thread at any step. Any goroutine may unlock its thread once too often,
the misuse that `restore` has its tripwire for; restore's check and its write are
two steps, and a goroutine without its pin can be moved in between, as the code
says. The secrets of one goroutine (`owner`) and the mask of one thread
(`subject`), any of them, are followed.

**KeyCalls** is one call of secmem-crypto that makes a key or a secret: one
action per source function, the buffers by role, each check in the code's order
(`First`), each error with what it destroys on the way out. A file is a record
whose `flaw` is the first thing wrong with it; `KeyFile` says which records are
files (only an armoured one has a frame or a footer that can be broken, say). Any
allocation, any opening or closing of a borrow and any wipe of a standard-library
copy may fail. `heap` has the copies the code tries to wipe; those of ECDSA and RSA
keys that nothing can reach are what the policy is for, and are checked as such. **KeyOps**
is the other half: what calls on *shared* keys wait for. Borrows in LockOrder,
the workspace mutex, the pool's channel, and a Destroy that holds back new
borrowers. `BorrowOne` stands for every operation that borrows one key and ends,
which to the others are one shape; the Destroy of a workspace is a call that waits
for the mutex, and a NewArgon2Pool that fails half way destroys what it has as
PoolDestroy does.

**MCExposure** puts Transport, RedactHandler, Sanitizer, ScrubWindow and KeyCalls
side by side; they share no state, and a behaviour exercises one of them.

## 3. Runs

| Run | Instance | Distinct states | What it shows |
|---|---|---|---|
| `lock` | 4 goroutines, bias 5 | 10 620 | exclusion, no lost wake-up, refinement of RWLock, progress of writers and readers |
| `registry` | a closed-at-rest buffer, the prekey and a plain buffer at one usable key, up to 2 WipeAllSecrets, 2 Destroys, a cleanup, 2 protections | 1 841 173 | freed once and never lost, a job wipes only the region it locked although keys are reused, a buffer that was wiped stays zero, complete on return, exact canary reports |
| `registry_live` | 2 buffers, one of which may be dropped | 182 234 | one endless borrow delays its own region only; orphans are unmapped |
| `buffer` | 2 goroutines, length 2, 16 builds | 51 874 | what a borrower sees, cipher and tag bookkeeping, protections, zero tail |
| `arena` | 3 goroutines, 2 slots, 2 tenancies each | 453 940 | the free list, handles and tenants, clean slots, canary reports, no write to a slab that is read-only or gone |
| `quarantine` | 2 goroutines, ranges of 1, 1 and 2 pages, 4 limits | 5 973 | reservations accounted for, no foreign memory touched, oldest evicted first and within the limits |
| `signal` | 2 kinds of signal, 12 installations; 1 secret with 3 signals, 2 secrets with one | 778 873 | secrets zeroed before the handler lets go, and what a timer that fires leaves behind; every signal ends the process or is passed on, later signals wipe too |
| `agent` | 2 connections, 2 slots, 1 key, 2 passphrases, lifetimes of up to 2 ticks, 2 ticks | 75 769 | keys sealed at rest and none leaked, no part of a message left in memory, no key taken out of its seal past its deadline, shutdown completes, expired keys are destroyed |
| `exposure` | 1 trip with a redirect, 10 option lists; 3 handlers over 15 batches of attributes; texts of up to 5 units over 12 alphabets, cut at 4 or not; 2 goroutines on 2 threads, windows nested two deep beside one more; every kind of key file with every flaw | 2 814 216 | where a credential goes, what is logged, that Sanitize is a fixpoint within 16 passes and leaves no field, run, break or broken rune, what scrub windows leave in registers, dead stack and signal masks, what a key call leaves behind, that errors after decryption do not tell |
| `keys` | 2 callers, 2 keys, 2 workspaces, a pool of 1 | 15 506 | nobody waits in a circle or for what nobody holds; every call returns and every Destroy completes |
| `closed_fault`, `prekey_wiped` | 1 region, 1 WipeAllSecrets | - | the two findings below |

Type invariants are conjuncts of a module's first invariant.

Why the bounds are enough. The lock's cases need two readers and two writers at
once; the bias only has to exceed the number of goroutines, as 2^30 does. The
registry never relates two regions except through keys and through the order of
a wipe pass: a region of each kind takes turns with a plain buffer at one key,
the plain buffer is alone with every actor doubled (`Gone` and `Over` name the
two settings), and `registry_live` has two regions for the order. The buffer's
exclusive methods are single steps, so two goroutines make every overlap of
borrowers, and a borrower with ReadFrom. An arena slot goes wrong over a stale
handle, its next tenant and a third party; two slots are the shortest list with
distinct head and tail. Three ranges of two sizes let one append evict two. The
agent's methods exclude one another, so two connections give every order, and
serve is seen both waiting for a slot and waiting for a client; one public key
is enough for replacement, as keys meet only in DestroyAll. Three buffers are a
key, its replacement and the lock's derivation. Trips share only the token,
which they do not change, so one suffices. Texts of five units hold a key, its
separator and value with a run or a tag before it, or a two-byte rune cut by
truncation at four; an alphabet has the units of one group of rules with what can
stand beside them. Two goroutines are a window and whoever is moved onto its
thread, two threads the one masked and the one moved to; threads are
interchangeable.
Three signals are the one being handled, one behind it, and one for a
handler that has registered again; secrets meet only in the order of a pass, so a
second one is there for one signal. A derivation and a pool Destroy
need two callers, and with two keys and the workspaces between them in LockOrder
every pair of borrows occurs in both orders. `MaxGen`, `MaxSignals`, `KeyMod`,
`MaxTime`, `MaxHops`, `MaxDraws`, `MaxDepth` and `MaxHandlers` cap counters in
the guards. Deadlock is checked for the lock, which is used for ever; the other
systems may stop once everything is destroyed, the process has ended or every
bound is used up. Run `keys` states the absence of deadlock as NeverWedged and CallsReturn.

Fairness. The lock: every goroutine inside an operation is scheduled (weak
fairness), and a contended acquisition of `mu`, for which sync.Mutex has its
starvation mode, is strong fairness; nobody has to start an operation, but a
reader leaves in the end. The registry: jobs, passes and the cleanup of a lost
buffer go on; a constructor that failed does call Destroy; a borrow need never
end. The signal handler: the runtime runs the handler and the wipe's goroutines,
the timer fires, the kernel delivers a re-raised signal; nobody promises that a
callback returns or that the application's handler exits. The agent: goroutines
run, reads and writes have a deadline (so a silent client's connection fails in
the end), time passes, and whoever waits for `k.mu` gets it (strong fairness, by
the starvation mode again); no client has to send, and the listener need not
fail. The keys: a call in progress goes on, and the workspace mutex and the
pool's channel serve their waiters in turn, as sync.Mutex and Go channels do;
nobody has to call or to destroy. The other runs check safety only and assume
none.

## 4. Proofs

Every proof has the same shape: an inductive invariant, `Init => IInv`, a lemma
per action (or per call) that keeps it, `Spec => []IInv` by PTL, and the
properties of the runs as consequences. TLC checked each invariant on the run's
instance before it was proved. The theorems hold for every value of the
constants that the modules' ASSUMEs admit; these say that sets are finite where
something is counted, that bounds are natural numbers, and that the values that
stand for "none" are not members of the sets they are added to. Where an
assumption says more, it is named below.

**BufferLockProofs** (`MutualExclusion`, `NoLostWakeup`, `ImplementsRWLock`), for
any finite set of goroutines and any bias above its size, as 2^30 is. Neither
exclusion nor the absence of lost wake-ups is inductive. `IInv` adds what the code
relies on tacitly: `WordInv` (the word is the number of counted goroutines,
phantoms of the fast path included, less the bias if a writer is in play),
`FlagsInv` (the guarded counts are the goroutines at those places, at most one
writes), `MuInv` (who holds the mutex between two steps), `WaitersInv` (only
parked goroutines are on the notify list), `ParkInv` (a writer that has decided
to wait but not yet joined the list cannot have missed the last reader: either
the word is not drained or that reader has still to take the mutex) and
`ReadersOut`. `CountZero` and `PcMove` say how a cardinality changes when one
goroutine moves. `Refinement` entitles the other modules to use RWLock in the
lock's place.

The same module proves `NeverWedged` of KeyOps, for any callers, keys, workspaces
and a pool of at least one: that nobody waits forever is liveness and stays with
TLC, but that nobody waits in a circle is an invariant. `HoldInv` says that a call
holds borrows only below those it has yet to make; so of a set of calls and
Destroys that all wait for each other, the Destroy of the buffer that comes last in
LockOrder (a uint64, hence bounded) would wait for a call with nothing of the set
left to borrow (`NoCircle`). `OwnerInv` and `LeaseInv` follow mutexes and
workspaces: whatever is taken is with a call under way, and with one only; a
Destroy of workspaces waits for mutexes alone and holds nothing.

**JanitorProofs** (`FreedOnce`, `WipesWhatItLocked`, `BuffersStayWiped`,
`WipeAllIsComplete`, `CanaryReports`), for any regions, callers and calls and for
a key counter of any width, wrapping included. The argument turns on `FileInv`
and `WorkInv`: a key files one region, in one of the two sets, under that region's
own key; a mapped region is filed unless a release has taken it; and a job that
has resolved its key *under the lock* has in hand the region it locked. `LockInv`
says who holds a lock, `ReleaseInv` that a release works on its own region and is
not over before the region is, `OwnerInv` which owner states go with which
mappings. `CallInv` is what makes WipeAllSecrets complete: each covered region is
wiped, freed, being released, reported, or still pending in one of three places
(to do, deferred to the second pass, or the target of a job under way).
`CanaryInv` names the one way to free an overwritten region in silence: it was
zeroed as ciphertext. The theorems start from a fresh process (`Spec`); `InitIInv` covers as well the
processes of the runs, in which some regions and calls have come and gone.

**SecureBufferProofs** (`BorrowersSeeTheSecret`, `SealDescribesTheBytes`,
`ProtectionMatchesState`, `TailIsZero`), for any number of goroutines, any size
and any set of services that may fail. A method is a chain of calls each of which
has a set of outcomes; there is a lemma per call on what holds of every outcome,
and the methods chain these in the code's order, rollbacks included. `SealInv`
relates seal fields and bytes, `PageInv` protection and page lock, `ZeroInv` the
length and what is filled. Inductiveness needs two facts no property states: the
opener count is the number of goroutines inside, and whoever has entered a borrow
keeps the buffer usable. That ErrIntegrity is never the answer to a prekey that was
replaced rests on the generation, which the tag and the check both carry.

**SecureArenaProofs** (`FreeListSound`, `OnlyTheTenantReads`,
`FreeSlotsAreClean`, `ReportsOwnOverrun`, `SlabTakesItsWrites` and the action
property `SecretOutlivesStaleHandles`), for any number of goroutines, slots and tenancies;
`MaxGen` is even, so that a tenancy that begins within the bound can end in it. An
invariant about a chain of links is awkward to keep: `ChainInv` says that *some*
sequence without repetition is linked from head to tail and consists of exactly
the free slots no Release has claimed; Acquire takes its head and Release's append
extends it. `ListIsChain` then shows that the walk of `FreeListSound` finds that
sequence. `MemoryInv` says whose bytes a slot can hold: its tenant's, or those of
the tenancy whose Release is about to wipe it. `SlabInv` says what a goroutine
between two steps of an operation has: a slab that is mapped and writable, as its
lock keeps it.

**QuarantineProofs** (`ReservationsAccounted` and the action properties
`OthersKeepTheirMemory`, `KeepsTheNewest`), for any goroutines, ranges, sizes and
limits. `RegionInv` (a goroutine's region is mapped for it alone), `QueueInv` (no
range twice in or between queues, and what is reserved is queued or one munmap
failed on), `LimitInv` (the byte counter is exact and the queue within the limits
in force). That trimLocked evicts as few as it can is a statement about the least
prefix whose removal fits.

**TerminationWipeProofs** (`WipedBeforeExit`), for any signals, secrets and
installations. `OwedInv` is the strengthening: a secret that the signal found is
settled (zeroed, with Destroy, or not to be made writable) or listed by the wipe in
progress, and once that is over settled or left to a wipe the timer cut short;
`BusyInv` says that what the second pass has, a callback had.

**AgentProofs** (`SecretsSealedAtRest` and the action property
`SignsWithinConstraints`), for any finite number of connections and keys, any
lifetimes, and any requests the parsers can make of a message (`Messages`).
`OwnerInv` gives each buffer one owner (a key, the agent's lock or the call under
way), `SealInv` seals every key that Sign does not have open, `GrantInv` ties a
key's deadline to the last lifetime its add was granted, also while that add is
under way, and `ServerInv` keeps what is in memory to the connections that read or
dispatch.

**ExposureProofs**, for the modules that run side by side in `exposure`, Sanitizer
excepted; each has its own specification there.

* Transport (`CredentialStaysHome`), for any options, hosts, trips and redirects.
  `Decide` shows that the host table lets a credential through only to where
  `Promised`, the reading of the options, admits it; `TripInv` carries that over
  the steps in which the token is measured, copied and sent.
* KeyCalls (`CallLeavesNothing`, `OneVerdict`), for any set of files that satisfy
  `KeyFile`. `At(pc, live)` lists for each place of each call which buffers are
  live, what the checks have established and whether the passphrase is used up.
* ScrubWindow (`WindowsCloseClean`), for any goroutines, threads, nesting and any
  misuse of pins. `PinnedInv` and `CopyInv` are about a goroutine that keeps its pins: it
  is on the thread it masked in every window, and its secrets are in that thread's
  registers and its own dead stack. `MaskInv` is about any thread, in the cases the
  tripwire can see (`Watched`): which saved masks may differ from the thread's own,
  those taken under another open window, or on a thread that a restore has
  reported. Beyond the tripwire are a restore moved between its check and its write,
  of which the code says so, and two goroutines that both left one thread while
  masking it: one then closes a window whose saved mask is out of date behind the
  other's back. TLC shows both when the exemption is dropped.
* RedactHandler (`SensitiveNeverLogged`), for any keys, any heap and any depth.
  The code carries a list of components down the walk and never looks back at the
  names; `RedactInv` says that this list is what `Components` makes of the names
  printed so far, for every handler and every pending call, and that no sensitive
  key is among them unless the call is to redact whatever it finds. `ComponentsAppend`
  (appending a name appends its components) and `CleanExtends` (a key in the
  longer path that was not in the shorter one ends in the part just added, where
  `match` looks) show what the code takes for granted.
Induction over data. What the prefix sums of the quarantine, the walk of the
arena's list, the search for the first failing check of a parser and the splitting
of a key compute is proved by taking the least
natural number at which it could fail (`LeastElement`, `NatSetHasMin`), from the
well-foundedness of the natural numbers. That the recursive functions exist is
proved the same way (`StepsExist`).

Only model-checked:

* liveness under fairness, as ENABLED is out of the prover's reach:
  `WritersGetIn`, `ReadersResume`, `NotHeldHostage`, `OrphansReclaimed`,
  `SignalEndsProcess`, `LaterSignalsWipeToo`, `ShutdownCompletes`,
  `ExpiredIsDestroyed`, `CallsReturn`;
* `SanitizeIsStable`. Eighteen rules whose tags can match one another have no bound
  on their passes that follows from their form: that a text settles is checked text
  by text.

## 5. Findings

1. **A region is closed without its lock** (`securebuf.go:346`, run
   `closed_fault`). newSecureBuffer registers a region and later makes it
   inaccessible without taking its lock. WipeAllSecrets may just have restored
   write access and be about to read the canary: it faults, in the middle of the
   emergency wipe. The seal keyring does the same when it makes the prekey
   read-only (`sealauth.go:167`).
2. **The prekey is filled after it was wiped** (`sealauth.go:159`, run
   `prekey_wiped`). initLocked does not look at the wiped flag under the lock, as
   fillInitial does. A region filed as wiped then holds a secret, until
   withPrekey notices and replaces it.
Observations that are not runs of their own: WipeAllIsComplete allows for a
Destroy that has taken a region and is about to zero it when WipeAllSecrets
returns, where the doc comment says every live buffer is wiped by then. The
comment on the arena's `freeHead` says a slot is on the list exactly when its
generation is even; between Release's compare-and-swap and its append it is
even and off the list, which is what FreeListSound states. A signal in the
channel when the handler is uninstalled may be dropped by select. With
InstallTerminationWipeNoExit, a signal that lands between Stop and the new Notify
is lost to the wipe if a co-handler, or an inherited ignore, absorbs it
(LaterSignalsWipeToo excludes both). The select at `terminationwipe.go:345`
between `done` and a queued signal is modelled (SelectDone) and no promise covers
which it takes.

Where a comment and the code disagree, the models follow the code, and the
properties say no more than holds of it:

* `terminationwipe.go:308-314` says that the installer never takes the exit out from
  under a co-installed graceful shutdown. Where the signal cannot be re-raised
  (Windows, an inherited ignore) InstallTerminationWipe exits all the same (line 111),
  as its own doc comment says; SignalEndsProcess counts that as an end.
* `keyring.go:158-160` says that an expired key can never produce a signature. Sign
  looks at the clock before it unseals the key (line 360) and not again before the
  signature (386): a tick in between, or a host that sleeps, makes it late.
  SignsWithinConstraints speaks of the Unseal.
* `proto.go:246-248` calls a silently dropped constraint the bug class to avoid;
  parseConstraints (269) keeps the last lifetime of an add that has two, and drops a
  shorter one before it. SignsWithinConstraints speaks of the last.
* `redact/sanitizer.go:181` says that tags never match a rule again.
  `[REDACTED:hex_secret]: x` is a secret_field, by the closing bracket that credSep
  (381) allows behind a key; what follows is redacted with it, and Sanitize settles.
* `redact/handler.go:61-62` says that a value with any of the rendering methods is
  never walked. A map key is printed by fmt (mapKeyName, 578), which knows Format, Error
  and String only: a key type that redacts itself by LogValue, MarshalText,
  MarshalJSON or GoString is printed field by field. SensitiveNeverLogged leaves such
  keys out (`guarded key`).

The agent's timers fire once and count the monotonic clock. If the wall clock is
set back, a timer finds its key unexpired and nothing arms it again; that the
wall clock is not set back is a premise of ExpiredIsDestroyed (Sign checks the
deadline itself and needs no timer). When closing a closed-at-rest blob fails
after the signer was built inside the borrow, parsePKCS8, parseSEC1,
parseOpenSSH and its encrypted form return the error and drop the signer
undestroyed, and GenerateRSASigner drops its buffer when the standard library's
copy cannot be wiped: the registry's cleanup reclaims them when the collector
runs. KeyCalls names them `dropped`, and CallLeavesNothing allows for exactly
these. Scrub's doc comment says that Goexit leaves fn's own frames unburned:
WindowsCloseClean speaks of the band below them.

## 6. Not modelled

* Hardening, capabilities, the wiping primitives and password-login: single
  system calls and a report of their results, straight-line stores, a sequential
  demonstration; no state or order a model would add.
* secmem-lint: an analysis of Go syntax trees, whose state is the syntax.
* The fallback ladder of allocSecretMem and the arithmetic of the canary's zones:
  Janitor and SecureArena have mappings and armed, overwritten or zeroed zones.
* SecureBuffer's wrappers (Scope, Secret): no state of their own.
* Scrubbing with runtime/secret and on platforms without signals, and what the
  assembly clears.
* Transport: ForceHTTP1, the validation of header names, the Basic encoding.
* Redaction: the cap on rendered bytes, the order of map keys, what fmt prints of the
  fields of a map key, the provider rules, the character classes behind the units.
* secmem-crypto: byte formats and mathematics. A parser is the order of its
  checks; a derivation is its borrows.

## 7. Plan

Done: RWLock, BufferLock, Janitor, SecureBuffer, SecureArena, Quarantine,
TerminationWipe, Keyring, Agent, Transport, RedactHandler, Sanitizer,
ScrubWindow, KeyCalls, KeyOps, and the proofs of section 4.

Next, by value: abstract specifications with their refinements proved, as for the
lock (a region that is mapped, wiped and freed in that order, which Janitor
refines; a pool of slots, which SecureArena refines).

Modules worth adding: `Allocation` (the ladder with its clean-up) and `Canary`
(the layout against a reference).
