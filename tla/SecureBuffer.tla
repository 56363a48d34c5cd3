---------------------------- MODULE SecureBuffer ----------------------------
(***************************************************************************)
(* One SecureBuffer (src/securebuf.go, securebuf_access.go,                *)
(* closedatrest.go, sealauth.go): its protection, seal, tag and length,    *)
(* under borrowers, mutators, the emergency wipe and every operating       *)
(* system call that can fail on the way.                                   *)
(*                                                                         *)
(* A method that holds the buffer's exclusive lock throughout is one step: *)
(* nobody else is inside.  Borrows hold the shared lock together, so       *)
(* entering, opening and closing are steps of their own; ReadFrom reads    *)
(* its source between two locks.                                           *)
(*                                                                         *)
(* The buffer is a record.  A call that can fail is the set of its         *)
(* outcomes [ok, b], and a method strings the outcomes together in the     *)
(* order of the code.                                                      *)
(***************************************************************************)
EXTENDS Integers, FiniteSets

CONSTANTS
  Procs,            \* the goroutines that use the buffer
  Size,             \* the length it was built with
  Builds,           \* the options and platforms the buffer may be built with
  MaxGen            \* bound on the prekey generations

\* mprotect, the in-place cipher, re-locking pages, and the seal prekey.
Services == {"mprotect", "cipher", "relock", "prekey"}

ASSUME BufferAssumption ==
  /\ IsFiniteSet(Procs)
  /\ Size \in Nat \ {0}
  /\ Builds \subseteq [closedAtRest : BOOLEAN, sealAuth : BOOLEAN,
                      windows : BOOLEAN, failing : SUBSET Services]
  /\ MaxGen \in Nat

VARIABLES
  build,            \* the one of Builds this buffer is
  buf,              \* the buffer: bufferState and the pages behind it
  key,              \* the process's seal prekey
  pc,               \* where each goroutine is
  size              \* the length ReadFrom saw before it read its source

vars == <<build, buf, key, pc, size>>

ClosedAtRest == build.closedAtRest  \* built WithClosedAtRest
SealAuth == build.sealAuth          \* not built WithUnauthenticatedSeal
Windows == build.windows            \* Seal has a cipher; PAGE_NOACCESS drops the lock
Failing == build.failing            \* the services that may fail

Prots == {"NONE", "RO", "RW"}

Buffers ==
  [live : BOOLEAN,          \* not destroyed
   wiped : BOOLEAN,         \* the flag the emergency wipe sets
   prot : Prots,            \* the pages' protection
   locked : BOOLEAN,        \* the pages cannot be swapped out
   layers : 0 .. 2,         \* how often the cipher has been applied
   flipped : BOOLEAN,       \* a bit changed since the tag was taken
   readOnly : BOOLEAN,
   sealed : BOOLEAN,
   sealCipher : BOOLEAN,
   sealTagged : BOOLEAN,
   fresh : BOOLEAN,         \* sealTag and sealNonce fit the bytes as left at rest
   sealGen : 0 .. MaxGen,
   openers : 0 .. Cardinality(Procs) + 1,
   len : 0 .. Size,
   filled : 0 .. Size]      \* the bytes from here on are zero

\* The prekey's generation, 0 before the first, and its wiped flag.  A prekey
\* that could not be replaced counts as wiped: it is replaced on the next use.
Keys == [gen : 0 .. MaxGen, wiped : BOOLEAN]

TypeOK ==
  /\ build \in Builds
  /\ buf \in Buffers
  /\ key \in Keys
  /\ pc \in [Procs -> {"out", "entered", "inside", "reading"}]
  /\ size \in [Procs -> 0 .. Size]

restProtection(b) ==
  IF ClosedAtRest THEN "NONE" ELSE IF b.readOnly THEN "RO" ELSE "RW"

\* A buffer that NewBuffer has filled and, if so built, closed.
Init ==
  /\ build \in Builds
  /\ buf = [live |-> TRUE, wiped |-> FALSE,
            prot |-> IF ClosedAtRest THEN "NONE" ELSE "RW",
            locked |-> ~(ClosedAtRest /\ Windows),
            layers |-> 0, flipped |-> FALSE,
            readOnly |-> FALSE, sealed |-> FALSE, sealCipher |-> FALSE,
            sealTagged |-> FALSE, fresh |-> FALSE, sealGen |-> 0,
            openers |-> 0, len |-> Size, filled |-> Size]
  /\ key = [gen |-> 0, wiped |-> FALSE]
  /\ pc = [p \in Procs |-> "out"]
  /\ size = [p \in Procs |-> 0]

-----------------------------------------------------------------------------
(* The operating system *)

\* The outcomes of a call to service s on b, which makes it b2; a call that
\* fails changes nothing.
Call(s, b, b2) ==
  {[ok |-> TRUE, b |-> b2]}
    \cup IF s \in Failing THEN {[ok |-> FALSE, b |-> b]} ELSE {}

\* A call that is not needed.
Skip(b) == {[ok |-> TRUE, b |-> b]}

\* On Windows a page that becomes inaccessible is no longer locked.
mprotect(b, p) ==
  Call("mprotect", b,
       [b EXCEPT !.prot = p, !.locked = @ /\ ~(Windows /\ p = "NONE")])

relock(b) ==
  IF Windows THEN Call("relock", b, [b EXCEPT !.locked = TRUE]) ELSE Skip(b)

\* sealEncrypt without its flag.
sealEncryptUnflagged(b) ==
  IF Windows THEN Call("cipher", b, [b EXCEPT !.layers = @ + 1, !.fresh = FALSE])
  ELSE Skip(b)

\* sealEncrypt and sealDecrypt with the flag that follows them.  The bytes at
\* rest are new either way: no earlier tag describes them.
sealEncrypt(b) ==
  IF Windows
  THEN Call("cipher", b,
            [b EXCEPT !.layers = @ + 1, !.sealCipher = TRUE, !.fresh = FALSE])
  ELSE Skip(b)
sealDecrypt(b) ==
  IF b.sealCipher
  THEN Call("cipher", b,
            [b EXCEPT !.layers = @ - 1, !.sealCipher = FALSE, !.fresh = FALSE])
  ELSE Skip(b)

-----------------------------------------------------------------------------
(* The seal prekey *)

\* withPrekey, from prekey k.  A prekey that is missing or wiped is replaced by
\* a new generation, which can fail; and the emergency wipe can come between
\* that and the prekey's lock.
withPrekey(k) ==
  LET needed == k.gen = 0 \/ k.wiped
      live == IF needed THEN [gen |-> k.gen + 1, wiped |-> FALSE] ELSE k
  IN {[ok |-> TRUE, key |-> live],
      [ok |-> FALSE, key |-> [live EXCEPT !.wiped = TRUE]]}
       \cup IF needed /\ "prekey" \in Failing THEN {[ok |-> FALSE, key |-> k]} ELSE {}

\* The emergency wipe may have reached the prekey since it was last used.
Since(k) == {k, [k EXCEPT !.wiped = k.gen > 0]}

\* sealAuthenticate: a new nonce, then the tag and the generation it was taken
\* under.
sealAuthenticate(b, k) ==
  {[ok |-> r.ok, key |-> r.key,
    b |-> IF r.ok
          THEN [b EXCEPT !.sealTagged = TRUE, !.sealGen = r.key.gen,
                         !.fresh = TRUE, !.flipped = FALSE]
          ELSE [b EXCEPT !.fresh = FALSE]]
     : r \in withPrekey(k)}

\* The tag that prekey k gives now is the one Seal took.
TagFits(b, k) == b.fresh /\ ~b.flipped /\ k.gen = b.sealGen

\* The generation is not compared.
sealVerifyAnyGen(b, k) ==
  {[err |-> IF ~r.ok THEN "ErrWiped" ELSE IF TagFits(b, r.key) THEN "nil" ELSE "ErrIntegrity",
    key |-> r.key] : r \in withPrekey(k)}

\* sealVerify: ErrWiped without the prekey the tag was taken under, ErrIntegrity
\* if the tag does not fit the bytes.
sealVerify(b, k) ==
  {[err |-> IF ~r.ok \/ r.key.gen # b.sealGen THEN "ErrWiped"
            ELSE IF TagFits(b, r.key) THEN "nil" ELSE "ErrIntegrity",
    key |-> r.key] : r \in withPrekey(k)}

-----------------------------------------------------------------------------
(* Locks and the checks at the top of every method *)

Inside == {p \in Procs : pc[p] \in {"entered", "inside"}}
Exclusive == Inside = {}
Usable(b) == b.live /\ ~b.wiped /\ ~b.sealed
Mutable(b) == Usable(b) /\ ~b.readOnly

-----------------------------------------------------------------------------
(* Closed at rest *)

\* open: the first one in makes the pages accessible and, on Windows, locks them
\* again; if that is refused it closes them and fails.
open(b) ==
  IF ~ClosedAtRest THEN Skip(b)
  ELSE IF b.openers > 0 THEN Skip([b EXCEPT !.openers = @ + 1])
  ELSE UNION {
    IF ~m.ok THEN {m}
    ELSE UNION {IF l.ok THEN {[ok |-> TRUE, b |-> [l.b EXCEPT !.openers = @ + 1]]}
                ELSE {[ok |-> FALSE, b |-> c.b] : c \in mprotect(l.b, "NONE")}
                  : l \in relock(m.b)}
      : m \in mprotect(b, IF b.readOnly THEN "RO" ELSE "RW")}

\* close() by whoever leaves first.
closeFirst(b) ==
  IF ~ClosedAtRest THEN Skip(b) ELSE mprotect([b EXCEPT !.openers = @ - 1], "NONE")

\* close: the last one out makes the pages inaccessible again; if that fails they
\* stay open, and the failure is reported.
close(b) ==
  LET c == [b EXCEPT !.openers = @ - 1] IN
  IF ~ClosedAtRest THEN Skip(b)
  ELSE IF c.openers > 0 THEN Skip(c)
  ELSE mprotect(c, "NONE")

-----------------------------------------------------------------------------
(* Borrowing: WithBytes, WithBytesErr, CopyOut, ByteAt, ConstantTimeEqual,
   ExposeString, and WriteTo up to the write *)

Enter(p) ==
  /\ pc[p] = "out"
  /\ Usable(buf)
  /\ pc' = [pc EXCEPT ![p] = "entered"]
  /\ UNCHANGED <<buf, key, size>>

Open(p) ==
  /\ pc[p] = "entered"
  /\ \E o \in open(buf) :
       /\ buf' = o.b
       /\ pc' = [pc EXCEPT ![p] = IF o.ok THEN "inside" ELSE "out"]
  /\ UNCHANGED <<key, size>>

\* The callback writes through its slice; on a read-only buffer that is the
\* caller's own fault.
WriteThrough(p) ==
  /\ pc[p] = "inside"
  /\ ~buf.readOnly
  /\ buf' = [buf EXCEPT !.filled = buf.len]
  /\ UNCHANGED <<key, pc, size>>

Leave(p) ==
  /\ pc[p] = "inside"
  /\ \E c \in close(buf) : buf' = c.b
  /\ pc' = [pc EXCEPT ![p] = "out"]
  /\ UNCHANGED <<key, size>>

-----------------------------------------------------------------------------
(* Mutators *)

\* store: open, copy n bytes in from the start, close.
store(b, n) ==
  UNION {IF ~o.ok THEN {o}
         ELSE close([o.b EXCEPT !.filled = IF n > @ THEN n ELSE @]) : o \in open(b)}

\* CopyIn and SetByteAt.
CopyIn ==
  /\ Exclusive
  /\ Mutable(buf)
  /\ \E n \in 1 .. buf.len : \E s \in store(buf, n) : buf' = s.b
  /\ UNCHANGED <<key, pc, size>>

\* ReadFrom, its first half: note the length, let go of the lock.
ReadFromBegin(p) ==
  /\ pc[p] = "out"
  /\ Mutable(buf)
  /\ pc' = [pc EXCEPT ![p] = "reading"]
  /\ size' = [size EXCEPT ![p] = buf.len]
  /\ UNCHANGED <<buf, key>>

\* ReadFrom, when its source fails.
ReadFromFails(p) ==
  /\ pc[p] = "reading"
  /\ pc' = [pc EXCEPT ![p] = "out"]
  /\ size' = [size EXCEPT ![p] = 0]
  /\ UNCHANGED <<buf, key>>

Lesser(a, b) == IF a < b THEN a ELSE b

\* The second half copies as many bytes as the buffer had room for then.
ReadFromEndStaleSize(p) ==
  /\ pc[p] = "reading"
  /\ Exclusive
  /\ pc' = [pc EXCEPT ![p] = "out"]
  /\ size' = [size EXCEPT ![p] = 0]
  /\ IF Mutable(buf)
     THEN \E n \in 0 .. size[p] : \E s \in store(buf, n) : buf' = s.b
     ELSE UNCHANGED buf
  /\ UNCHANGED key

\* ReadFrom, its second half: every check again, and no more bytes than there is
\* room for now.
ReadFromEnd(p) ==
  /\ pc[p] = "reading"
  /\ Exclusive
  /\ pc' = [pc EXCEPT ![p] = "out"]
  /\ size' = [size EXCEPT ![p] = 0]
  /\ IF Mutable(buf)
     THEN \E n \in 0 .. size[p] :
            \E s \in store(buf, Lesser(n, buf.len)) : buf' = s.b
     ELSE UNCHANGED buf
  /\ UNCHANGED key

\* Truncate: wipe the tail, then shorten; if the pages cannot be opened, or
\* closed again, the length stays.
Truncate(n) ==
  /\ Exclusive
  /\ Mutable(buf)
  /\ n < buf.len
  /\ \E o \in open(buf) :
       IF ~o.ok THEN buf' = o.b
       ELSE \E c \in close([o.b EXCEPT !.filled = Lesser(n, @)]) :
              buf' = IF c.ok THEN [c.b EXCEPT !.len = n] ELSE c.b
  /\ UNCHANGED <<key, pc, size>>

\* ReadOnly and ReadWrite.  A closed-at-rest buffer only notes the mode.
SetReadOnly(ro) ==
  /\ Exclusive
  /\ Usable(buf)
  /\ \E m \in IF ClosedAtRest THEN Skip(buf)
              ELSE mprotect(buf, IF ro THEN "RO" ELSE "RW") :
       buf' = IF m.ok THEN [m.b EXCEPT !.readOnly = ro] ELSE m.b
  /\ UNCHANGED <<key, pc, size>>

-----------------------------------------------------------------------------
(* Seal *)

\* reapplyReadOnly: best effort.
reapplyReadOnly(b) ==
  IF restProtection(b) = "RW" THEN {b}
  ELSE {m.b : m \in mprotect(b, restProtection(b))}

\* A failed decrypt is ignored: the buffer is left unsealed.
rollbackSealUnsealed(b) ==
  UNION {reapplyReadOnly([d.b EXCEPT !.sealTagged = FALSE]) : d \in sealDecrypt(b)}

\* rollbackSeal: undo the cipher; if that fails too the contents are ciphertext,
\* and the buffer is left sealed over them.
rollbackSeal(b) ==
  UNION {reapplyReadOnly(IF d.ok THEN [d.b EXCEPT !.sealTagged = FALSE]
                         ELSE [d.b EXCEPT !.sealed = TRUE]) : d \in sealDecrypt(b)}

\* Seal, once the bytes are at rest: protect them.
sealProtect(b) ==
  UNION {IF m.ok THEN {[m.b EXCEPT !.sealed = TRUE]} ELSE rollbackSeal(m.b)
           : m \in mprotect(b, "NONE")}

\* Seal: lift the protection for the cipher, encrypt, tag, protect.  Contents that
\* are ciphertext already are only closed off.
Seal ==
  /\ Exclusive
  /\ Usable(buf)
  /\ IF buf.sealCipher THEN buf' = [buf EXCEPT !.sealed = TRUE] /\ UNCHANGED key
     ELSE \E m \in IF buf.readOnly \/ ClosedAtRest THEN mprotect(buf, "RW")
                   ELSE Skip(buf) :
         IF ~m.ok THEN buf' = m.b /\ UNCHANGED key
         ELSE \E e \in sealEncrypt([m.b EXCEPT !.sealTagged = FALSE]) :
                IF ~e.ok THEN buf' \in reapplyReadOnly(e.b) /\ UNCHANGED key
                ELSE IF ~SealAuth THEN buf' \in sealProtect(e.b) /\ UNCHANGED key
                ELSE \E t \in sealAuthenticate(e.b, key) :
                       /\ buf' \in IF t.ok THEN sealProtect(t.b)
                                   ELSE rollbackSeal(t.b)
                       /\ key' = t.key
  /\ key'.gen <= MaxGen
  /\ UNCHANGED <<pc, size>>

-----------------------------------------------------------------------------
(* Unseal *)

\* Unseal failed: close the pages again, best effort, and stay sealed.
StaySealed(b) == {m.b : m \in mprotect(b, "NONE")}

\* Restoring the rest protection failed: encrypt, tag and protect again, each
\* best effort, with the flags following what happened.
SealAgain(b, k) ==
  UNION {
    LET untagged == [e.b EXCEPT !.sealTagged = FALSE] IN
    IF ~SealAuth THEN {[b |-> c, key |-> k] : c \in StaySealed(untagged)}
    ELSE UNION {{[b |-> c, key |-> t.key] : c \in StaySealed(t.b)}
                  : t \in UNION {sealAuthenticate(untagged, k2) : k2 \in Since(k)}}
      : e \in sealEncrypt(b)}

\* Unseal, once the bytes are verified: decrypt, restore the rest protection.
Reveal(b, k) ==
  UNION {
    IF ~d.ok THEN {[b |-> c, key |-> k] : c \in StaySealed(d.b)}
    ELSE UNION {IF m.ok
                THEN {[b |-> [m.b EXCEPT !.sealed = FALSE, !.sealTagged = FALSE],
                       key |-> k]}
                ELSE SealAgain(m.b, k)
                  : m \in IF restProtection(b) = "RW" THEN Skip(d.b)
                          ELSE mprotect(d.b, restProtection(b))}
      : d \in sealDecrypt(b)}

\* Unseal: lift the protection, lock the pages again, verify, reveal.
Unseal ==
  /\ Exclusive
  /\ buf.live /\ ~buf.wiped /\ buf.sealed
  /\ \E m \in mprotect(buf, "RW") :
       IF ~m.ok THEN buf' = m.b /\ UNCHANGED key
       ELSE \E l \in relock(m.b) :
              IF ~l.ok THEN buf' \in StaySealed(l.b) /\ UNCHANGED key
              ELSE \E v \in IF buf.sealTagged THEN sealVerify(l.b, key)
                            ELSE {[err |-> "nil", key |-> key]} :
                     IF v.err # "nil" THEN buf' \in StaySealed(l.b) /\ key' = v.key
                     ELSE \E r \in Reveal(l.b, v.key) : buf' = r.b /\ key' = r.key
  /\ key'.gen <= MaxGen
  /\ UNCHANGED <<pc, size>>

-----------------------------------------------------------------------------
(* The emergency wipe, destruction, and bits that flip *)

\* wipeAndFree's wipe in place and markWiped.
Wipe(b) ==
  [b EXCEPT !.layers = 0, !.flipped = FALSE, !.sealCipher = FALSE, !.filled = 0,
            !.wiped = TRUE]

\* A pass of the emergency wipe over this buffer.  A pass that cannot restore
\* write access leaves the buffer as it was.
EmergencyWipe ==
  /\ Exclusive
  /\ buf.live
  /\ \E m \in mprotect(buf, "RW") : buf' = IF m.ok THEN Wipe(m.b) ELSE m.b
  /\ UNCHANGED <<key, pc, size>>

\* ... and over the prekey, which is a region of its own.
EmergencyWipeKeyring ==
  /\ key.gen > 0
  /\ ~key.wiped
  /\ key' = [key EXCEPT !.wiped = TRUE]
  /\ UNCHANGED <<buf, pc, size>>

\* Destroy: a sealed buffer is verified first, which may make a prekey; whatever
\* comes of it, the region is wiped and released.
Destroy ==
  /\ Exclusive
  /\ buf.live
  /\ buf' = [buf EXCEPT !.live = FALSE, !.layers = 0, !.sealCipher = FALSE,
                        !.flipped = FALSE, !.len = 0, !.filled = 0]
  /\ IF buf.sealed /\ buf.sealTagged /\ ~buf.wiped
     THEN \E m \in mprotect(buf, "RW") :
            IF m.ok THEN \E v \in sealVerify(buf, key) : key' = v.key
            ELSE UNCHANGED key
     ELSE UNCHANGED key
  /\ key'.gen <= MaxGen
  /\ UNCHANGED <<pc, size>>

\* A bit of a dormant, tagged buffer changes, or changes back.
Flip ==
  /\ buf.live /\ ~buf.wiped /\ buf.sealed /\ buf.sealTagged
  /\ buf' = [buf EXCEPT !.flipped = ~@]
  /\ UNCHANGED <<key, pc, size>>

-----------------------------------------------------------------------------

Borrower(p) ==
  \/ Enter(p) \/ Open(p) \/ WriteThrough(p) \/ Leave(p)
  \/ ReadFromBegin(p) \/ ReadFromFails(p) \/ ReadFromEnd(p)

Next ==
  /\ \/ \E p \in Procs : Borrower(p)
     \/ CopyIn
     \/ \E n \in 0 .. Size : Truncate(n)
     \/ \E ro \in BOOLEAN : SetReadOnly(ro)
     \/ Seal
     \/ Unseal
     \/ EmergencyWipe
     \/ EmergencyWipeKeyring
     \/ Destroy
     \/ Flip
  /\ UNCHANGED build

Spec == Init /\ [][Next]_vars

-----------------------------------------------------------------------------
(* Properties *)

\* What a borrower is handed is the secret: readable, in locked pages, deciphered
\* exactly as often as enciphered, with no bit changed behind a tag, and neither
\* wiped nor destroyed - whichever calls failed before.
BorrowersSeeTheSecret ==
  \A p \in Procs :
    pc[p] = "inside" =>
      /\ Usable(buf)
      /\ buf.prot # "NONE"
      /\ buf.locked
      /\ buf.layers = 0
      /\ ~buf.flipped

\* What the seal's fields say is true of the bytes, whichever steps of Seal and
\* Unseal failed: the cipher flag says exactly whether there is one layer of
\* cipher to undo, and while there is, the buffer is sealed; a tag in force was
\* taken over the bytes as they were left at rest; and a verification reports
\* ErrIntegrity only if a bit did change, although the prekey may have been wiped
\* and made anew since the tag was taken.
SealDescribesTheBytes ==
  buf.live /\ ~buf.wiped =>
    /\ buf.layers = IF buf.sealCipher THEN 1 ELSE 0
    /\ buf.sealCipher => buf.sealed
    /\ buf.sealed /\ buf.sealTagged =>
         buf.fresh /\ \A v \in sealVerify(buf, key) : v.err = "ErrIntegrity" => buf.flipped

\* No method faults on the pages it passed its checks for: a buffer that may be
\* written is writable, and one that may be read is readable (a closed-at-rest
\* buffer once it is open).  Every borrow of a closed-at-rest buffer is counted,
\* and with none it is inaccessible, if no protection call fails.
ProtectionMatchesState ==
  /\ Usable(buf) =>
       /\ ~ClosedAtRest => buf.prot \in (IF buf.readOnly THEN {"RO", "RW"} ELSE {"RW"})
       /\ buf.openers > 0 => buf.prot = IF buf.readOnly THEN "RO" ELSE "RW"
  /\ ClosedAtRest =>
       /\ buf.openers = Cardinality({p \in Procs : pc[p] = "inside"})
       /\ Usable(buf) /\ buf.openers = 0 /\ "mprotect" \notin Failing =>
            buf.prot = "NONE"

\* The bytes that Truncate cut off stay zero, and all bytes of a wiped buffer,
\* whatever a ReadFrom that had passed its checks before still wants to copy.
TailIsZero ==
  /\ TypeOK
  /\ buf.filled <= IF buf.live /\ buf.wiped THEN 0 ELSE buf.len
=============================================================================
