------------------------- MODULE SecureBufferProofs -------------------------
(***************************************************************************)
(* Proofs about SecureBuffer, for any number of goroutines, any size and   *)
(* any set of services that may fail: what a borrower is handed is the     *)
(* secret, the seal's fields describe the bytes, the protection fits the   *)
(* state, and what was cut off or wiped stays zero.                        *)
(*                                                                         *)
(* A method is a chain of calls that may each fail.  There is a lemma for  *)
(* each call, on what holds of every outcome; the methods' steps chain     *)
(* them in the order of the code.                                          *)
(***************************************************************************)
EXTENDS SecureBuffer, FiniteSetTheorems, TLAPS

\* A buffer within a method: what is bounded between methods is not bounded yet.
Shape ==
  [live : BOOLEAN, wiped : BOOLEAN, prot : Prots, locked : BOOLEAN, layers : Nat,
   flipped : BOOLEAN, readOnly : BOOLEAN, sealed : BOOLEAN, sealCipher : BOOLEAN,
   sealTagged : BOOLEAN, fresh : BOOLEAN, sealGen : Nat, openers : Nat,
   len : 0 .. Size, filled : 0 .. Size]

\* The seal's fields and the bytes.
SealInv(b) ==
  /\ b.layers = IF b.sealCipher THEN 1 ELSE 0
  /\ b.sealCipher => b.sealed
  /\ b.sealed /\ b.sealTagged => b.fresh
  /\ b.flipped => b.sealed /\ b.sealTagged

\* The pages' protection and their lock in memory.
PageInv(b) ==
  /\ ~Windows => b.locked
  /\ Usable(b) /\ ~ClosedAtRest =>
       b.locked /\ b.prot \in (IF b.readOnly THEN {"RO", "RW"} ELSE {"RW"})
  /\ ~ClosedAtRest => b.openers = 0
  /\ Usable(b) /\ b.openers > 0 =>
       b.locked /\ b.prot = (IF b.readOnly THEN "RO" ELSE "RW")
  /\ Usable(b) /\ ClosedAtRest /\ b.openers = 0 /\ "mprotect" \notin Failing => b.prot = "NONE"

ZeroInv(b) ==
  /\ b.filled <= b.len
  /\ b.live /\ b.wiped => b.filled = 0

BufferInv(b) == b \in Shape /\ SealInv(b) /\ PageInv(b) /\ ZeroInv(b)

\* The buffer as Seal has it while it lies open: nothing is sealed yet.
Sealing(b) ==
  /\ b \in Shape /\ ZeroInv(b)
  /\ b.live /\ ~b.wiped /\ ~b.sealed /\ ~b.flipped /\ b.openers = 0
  /\ b.layers = IF b.sealCipher THEN 1 ELSE 0
  /\ b.sealTagged => b.fresh
  /\ b.prot = "RW"
  /\ ~(Windows /\ ClosedAtRest) => b.locked

\* A sealed buffer, whatever became of its pages.
Dormant(b) ==
  /\ b \in Shape /\ ZeroInv(b)
  /\ b.live /\ ~b.wiped /\ b.sealed /\ b.openers = 0
  /\ b.layers = IF b.sealCipher THEN 1 ELSE 0
  /\ b.sealTagged => b.fresh
  /\ b.flipped => b.sealTagged
  /\ ~Windows => b.locked

Insiders == {p \in Procs : pc[p] = "inside"}

IInv ==
  /\ TypeOK
  /\ BufferInv(buf)
  /\ buf.sealGen <= key.gen
  /\ ClosedAtRest => buf.openers = Cardinality(Insiders)
  /\ \A p \in Procs : pc[p] \in {"entered", "inside"} => Usable(buf)

\* c differs from b in its pages' protection and lock only.
Same(b, c) ==
  /\ c.live = b.live /\ c.wiped = b.wiped /\ c.layers = b.layers /\ c.flipped = b.flipped
  /\ c.readOnly = b.readOnly /\ c.sealed = b.sealed /\ c.sealCipher = b.sealCipher
  /\ c.sealTagged = b.sealTagged /\ c.fresh = b.fresh /\ c.sealGen = b.sealGen
  /\ c.openers = b.openers /\ c.len = b.len /\ c.filled = b.filled
-----------------------------------------------------------------------------
(* The calls. *)

\* mprotect changes the protection, and on Windows unlocks what it closes; if it
\* fails nothing has changed.
LEMMA Mprotect ==
  ASSUME NEW b \in Shape, NEW p \in Prots, NEW m \in mprotect(b, p)
  PROVE  /\ m.b \in Shape /\ m.ok \in BOOLEAN /\ Same(b, m.b)
         /\ m.ok => m.b.prot = p /\ (m.b.locked <=> b.locked /\ ~(Windows /\ p = "NONE"))
         /\ ~m.ok => m.b = b /\ "mprotect" \in Failing
<1> DEFINE c == [b EXCEPT !.prot = p, !.locked = @ /\ ~(Windows /\ p = "NONE")]
<1>1. c \in Shape
  BY DEF Shape
<1>2. Same(b, c) /\ c.prot = p
  BY DEF Shape, Same
<1>3. c.locked <=> b.locked /\ ~(Windows /\ p = "NONE")
  BY DEF Shape
<1>4. \/ m.ok = TRUE /\ m.b = c
      \/ m.ok = FALSE /\ m.b = b /\ "mprotect" \in Failing
  BY DEF mprotect, Call
<1> HIDE DEF c
<1>5. Same(b, b)
  BY DEF Same
<1>6. QED
  BY <1>1, <1>2, <1>3, <1>4, <1>5

\* Locking the pages again, which only Windows needs.
LEMMA Relock ==
  ASSUME NEW b \in Shape, NEW l \in relock(b)
  PROVE  /\ l.b \in Shape /\ l.ok \in BOOLEAN /\ Same(b, l.b) /\ l.b.prot = b.prot
         /\ l.ok => (Windows => l.b.locked) /\ (~Windows => l.b = b)
         /\ ~l.ok => l.b = b /\ Windows
<1> DEFINE c == [b EXCEPT !.locked = TRUE]
<1>1. c \in Shape
  BY DEF Shape
<1>2. Same(b, c) /\ c.prot = b.prot /\ c.locked
  BY DEF Shape, Same
<1>3. \/ Windows /\ l.ok = TRUE /\ l.b = c
      \/ Windows /\ l.ok = FALSE /\ l.b = b
      \/ ~Windows /\ l.ok = TRUE /\ l.b = b
  <2>1. CASE Windows
    <3>1. l \in Call("relock", b, c)
      BY <2>1 DEF relock
    <3> HIDE DEF c
    <3>2. QED
      BY <2>1, <3>1 DEF Call
  <2>2. CASE ~Windows
    <3>1. l \in Skip(b)
      BY <2>2 DEF relock
    <3>2. QED
      BY <2>2, <3>1 DEF Skip
  <2>3. QED
    BY <2>1, <2>2
<1> HIDE DEF c
<1>4. Same(b, b)
  BY DEF Same
<1>5. QED
  BY <1>1, <1>2, <1>3, <1>4

\* c is b with the cipher applied or undone, after which no earlier tag describes it.
Ciphered(b, c, layers, flag) ==
  /\ c.layers = layers /\ c.sealCipher = flag /\ c.fresh = FALSE
  /\ c.live = b.live /\ c.wiped = b.wiped /\ c.flipped = b.flipped
  /\ c.prot = b.prot /\ c.locked = b.locked
  /\ c.readOnly = b.readOnly /\ c.sealed = b.sealed
  /\ c.sealTagged = b.sealTagged /\ c.sealGen = b.sealGen
  /\ c.openers = b.openers /\ c.len = b.len /\ c.filled = b.filled

\* The cipher on plain bytes.
LEMMA Encrypt ==
  ASSUME NEW b \in Shape, b.layers = 0, ~b.sealCipher, NEW e \in sealEncrypt(b)
  PROVE  /\ e.b \in Shape /\ e.ok \in BOOLEAN
         /\ e.b = b \/ (e.ok /\ Ciphered(b, e.b, 1, TRUE))
<1> DEFINE c == [b EXCEPT !.layers = @ + 1, !.sealCipher = TRUE, !.fresh = FALSE]
<1>0. b.layers + 1 \in Nat
  OBVIOUS
<1>1. c \in Shape
  BY <1>0 DEF Shape
<1>2. Ciphered(b, c, 1, TRUE)
  BY DEF Shape, Ciphered
<1>3. \/ e.ok = TRUE /\ e.b = c
      \/ e.ok = FALSE /\ e.b = b
      \/ e.ok = TRUE /\ e.b = b
  BY DEF sealEncrypt, Call, Skip
<1> HIDE DEF c
<1>4. QED
  BY <1>1, <1>2, <1>3

\* The cipher undone, once: what was ciphertext is plain, or still what it was.
LEMMA Decrypt ==
  ASSUME NEW b \in Shape, b.layers = (IF b.sealCipher THEN 1 ELSE 0), NEW d \in sealDecrypt(b)
  PROVE  /\ d.b \in Shape /\ d.ok \in BOOLEAN
         /\ \/ d.b = b /\ (d.ok <=> ~b.sealCipher)
            \/ d.ok /\ Ciphered(b, d.b, 0, FALSE)
<1> DEFINE c == [b EXCEPT !.layers = @ - 1, !.sealCipher = FALSE, !.fresh = FALSE]
<1>1. CASE b.sealCipher
  <2>0. b.layers - 1 \in Nat
    BY <1>1
  <2>1. c \in Shape
    BY <2>0 DEF Shape
  <2>2. Ciphered(b, c, 0, FALSE)
    BY <1>1 DEF Shape, Ciphered
  <2>3. (d.ok = TRUE /\ d.b = c) \/ (d.ok = FALSE /\ d.b = b)
    BY <1>1 DEF sealDecrypt, Call
  <2> HIDE DEF c
  <2>4. QED
    BY <1>1, <2>1, <2>2, <2>3
<1>2. CASE ~b.sealCipher
  <2>1. d.ok = TRUE /\ d.b = b
    BY <1>2 DEF sealDecrypt, Skip
  <2>2. QED
    BY <1>2, <2>1
<1>3. QED
  BY <1>1, <1>2
-----------------------------------------------------------------------------
\* A key store that replaces its prekey never goes back to an earlier generation.
LEMMA Prekey ==
  ASSUME NEW k \in [gen : Nat, wiped : BOOLEAN], NEW r \in withPrekey(k)
  PROVE  r.key \in [gen : Nat, wiped : BOOLEAN] /\ r.key.gen >= k.gen /\ r.ok \in BOOLEAN
<1> DEFINE needed == k.gen = 0 \/ k.wiped
           live == IF needed THEN [gen |-> k.gen + 1, wiped |-> FALSE] ELSE k
           gone == [live EXCEPT !.wiped = TRUE]
<1>1. live \in [gen : Nat, wiped : BOOLEAN] /\ live.gen >= k.gen
  OBVIOUS
<1>2. r \in {[ok |-> TRUE, key |-> live], [ok |-> FALSE, key |-> gone]}
              \cup IF needed /\ "prekey" \in Failing THEN {[ok |-> FALSE, key |-> k]} ELSE {}
  BY Zenon DEF withPrekey
<1> HIDE DEF live, needed
<1>3. gone \in [gen : Nat, wiped : BOOLEAN] /\ gone.gen = live.gen
  BY <1>1
<1> HIDE DEF gone
<1>4. \/ r.ok = TRUE /\ r.key = live
      \/ r.ok = FALSE /\ r.key = gone
      \/ r.ok = FALSE /\ r.key = k
  BY <1>2
<1>5. k.gen >= k.gen /\ gone.gen >= k.gen
  BY <1>1, <1>3
<1>6. r.key \in {live, gone, k} /\ r.ok \in BOOLEAN
  BY <1>4
<1>7. r.key.gen >= k.gen
  BY <1>1, <1>5, <1>6
<1>8. r.key \in [gen : Nat, wiped : BOOLEAN]
  BY <1>1, <1>3, <1>6, Zenon
<1>9. QED
  BY <1>6, <1>7, <1>8

\* c is b with a new tag over its bytes.
Tagged(b, c, gen) ==
  /\ c.sealTagged = TRUE /\ c.fresh = TRUE /\ c.flipped = FALSE /\ c.sealGen = gen
  /\ c.live = b.live /\ c.wiped = b.wiped /\ c.layers = b.layers /\ c.sealCipher = b.sealCipher
  /\ c.prot = b.prot /\ c.locked = b.locked /\ c.readOnly = b.readOnly /\ c.sealed = b.sealed
  /\ c.openers = b.openers /\ c.len = b.len /\ c.filled = b.filled

\* c is b without one.
Untagged(b, c) ==
  /\ c.sealTagged = b.sealTagged /\ c.fresh = FALSE /\ c.flipped = b.flipped /\ c.sealGen = b.sealGen
  /\ c.live = b.live /\ c.wiped = b.wiped /\ c.layers = b.layers /\ c.sealCipher = b.sealCipher
  /\ c.prot = b.prot /\ c.locked = b.locked /\ c.readOnly = b.readOnly /\ c.sealed = b.sealed
  /\ c.openers = b.openers /\ c.len = b.len /\ c.filled = b.filled

\* sealAuthenticate takes the tag, or leaves a nonce that fits nothing.
LEMMA Authenticate ==
  ASSUME NEW b \in Shape, NEW k \in [gen : Nat, wiped : BOOLEAN], NEW t \in sealAuthenticate(b, k)
  PROVE  /\ t.b \in Shape /\ t.ok \in BOOLEAN
         /\ t.key \in [gen : Nat, wiped : BOOLEAN] /\ t.key.gen >= k.gen
         /\ t.ok => Tagged(b, t.b, t.key.gen)
         /\ ~t.ok => Untagged(b, t.b)
<1>1. PICK r \in withPrekey(k) :
        t = [ok |-> r.ok, key |-> r.key,
             b |-> IF r.ok
                   THEN [b EXCEPT !.sealTagged = TRUE, !.sealGen = r.key.gen,
                                  !.fresh = TRUE, !.flipped = FALSE]
                   ELSE [b EXCEPT !.fresh = FALSE]]
  BY DEF sealAuthenticate
<1>2. r.key \in [gen : Nat, wiped : BOOLEAN] /\ r.key.gen >= k.gen /\ r.ok \in BOOLEAN
  BY Prekey
<1> DEFINE c == [b EXCEPT !.sealTagged = TRUE, !.sealGen = r.key.gen,
                          !.fresh = TRUE, !.flipped = FALSE]
           u == [b EXCEPT !.fresh = FALSE]
<1>3. c \in Shape /\ u \in Shape
  BY <1>2 DEF Shape
<1>4. Tagged(b, c, r.key.gen)
  BY <1>2 DEF Shape, Tagged
<1>5. Untagged(b, u)
  BY DEF Shape, Untagged
<1>6. t.ok = r.ok /\ t.key = r.key /\ t.b = IF r.ok THEN c ELSE u
  BY <1>1
<1> HIDE DEF c, u
<1>7. QED
  BY <1>2, <1>3, <1>4, <1>5, <1>6

\* sealVerify changes the keyring only.
LEMMA Verify ==
  ASSUME NEW b \in Shape, NEW k \in [gen : Nat, wiped : BOOLEAN], NEW v \in sealVerify(b, k)
  PROVE  /\ v.key \in [gen : Nat, wiped : BOOLEAN] /\ v.key.gen >= k.gen
         /\ v.err = "nil" => b.fresh /\ ~b.flipped
         /\ v.err = "ErrIntegrity" => ~b.fresh \/ b.flipped
<1>1. PICK r \in withPrekey(k) :
        v = [err |-> IF ~r.ok \/ r.key.gen # b.sealGen THEN "ErrWiped"
                     ELSE IF TagFits(b, r.key) THEN "nil" ELSE "ErrIntegrity",
             key |-> r.key]
  BY DEF sealVerify
<1>2. /\ v.key = r.key
      /\ v.err = "nil" => b.fresh /\ ~b.flipped
      /\ v.err = "ErrIntegrity" => ~b.fresh \/ b.flipped
  BY <1>1 DEF TagFits
<1>3. QED
  BY <1>2, Prekey
-----------------------------------------------------------------------------
(* open and close. *)

\* c is b with n borrows counted.
Counted(b, c, n) ==
  /\ c.openers = n
  /\ c.live = b.live /\ c.wiped = b.wiped /\ c.layers = b.layers /\ c.flipped = b.flipped
  /\ c.readOnly = b.readOnly /\ c.sealed = b.sealed /\ c.sealCipher = b.sealCipher
  /\ c.sealTagged = b.sealTagged /\ c.fresh = b.fresh /\ c.sealGen = b.sealGen
  /\ c.len = b.len /\ c.filled = b.filled

\* open counts a borrow of a closed-at-rest buffer, or fails and counts none.
LEMMA OpenFacts ==
  ASSUME build \in Builds, NEW b, BufferInv(b), Usable(b), NEW o \in open(b)
  PROVE  /\ BufferInv(o.b) /\ o.ok \in BOOLEAN
         /\ Counted(b, o.b, b.openers + IF o.ok /\ ClosedAtRest THEN 1 ELSE 0)
<1> USE DEF BufferInv
<1> DEFINE more(x) == [x EXCEPT !.openers = @ + 1]
<1>1. ASSUME NEW x \in Shape
      PROVE  /\ more(x) \in Shape /\ more(x).prot = x.prot /\ more(x).locked = x.locked
             /\ Counted(x, more(x), x.openers + 1)
  <2>0. x.openers + 1 \in Nat
    BY DEF Shape
  <2>1. more(x) \in Shape
    BY <2>0 DEF Shape
  <2>2. QED
    BY <2>1 DEF Shape, Counted
<1> HIDE DEF more
<1>2. Counted(b, b, b.openers) /\ b.openers \in Nat /\ b.openers + 0 = b.openers
  BY DEF Counted, Shape
<1>3. CASE ~ClosedAtRest
  <2>1. o.ok = TRUE /\ o.b = b
    BY <1>3 DEF open, Skip
  <2>2. QED
    BY <1>2, <1>3, <2>1
<1>4. CASE ClosedAtRest /\ b.openers > 0
  <2>1. o.ok = TRUE /\ o.b = more(b)
    BY <1>4 DEF open, Skip, more
  <2>2. more(b) \in Shape /\ more(b).prot = b.prot /\ more(b).locked = b.locked /\ Counted(b, more(b), b.openers + 1)
    BY <1>1
  <2>3. BufferInv(more(b))
    BY <1>2, <1>4, <2>2 DEF Counted, SealInv, PageInv, ZeroInv, Usable
  <2>4. QED
    BY <1>4, <2>1, <2>2, <2>3
<1>5. CASE ClosedAtRest /\ ~(b.openers > 0)
  <2>0. b.openers = 0
    BY <1>2, <1>5
  <2>1. PICK m \in mprotect(b, IF b.readOnly THEN "RO" ELSE "RW") :
          o \in IF ~m.ok THEN {m}
                ELSE UNION {IF l.ok THEN {[ok |-> TRUE, b |-> more(l.b)]}
                            ELSE {[ok |-> FALSE, b |-> c.b] : c \in mprotect(l.b, "NONE")}
                              : l \in relock(m.b)}
    BY <1>5 DEF open, more
  <2>2. /\ m.b \in Shape /\ m.ok \in BOOLEAN /\ Same(b, m.b)
        /\ m.ok => /\ m.b.prot = (IF b.readOnly THEN "RO" ELSE "RW")
                   /\ m.b.locked <=> b.locked
        /\ ~m.ok => m.b = b
    BY Mprotect DEF Prots
  <2>3. CASE ~m.ok
    <3>1. o = m
      BY <2>1, <2>3
    <3>2. QED
      BY <1>2, <2>2, <2>3, <3>1
  <2>4. CASE m.ok
    <3>1. PICK l \in relock(m.b) :
            o \in IF l.ok THEN {[ok |-> TRUE, b |-> more(l.b)]}
                  ELSE {[ok |-> FALSE, b |-> c.b] : c \in mprotect(l.b, "NONE")}
      BY <2>1, <2>4
    <3>2. /\ l.b \in Shape /\ l.ok \in BOOLEAN /\ Same(b, l.b)
          /\ l.b.prot = (IF b.readOnly THEN "RO" ELSE "RW")
          /\ l.ok => (Windows => l.b.locked) /\ (~Windows => l.b = m.b)
          /\ ~Windows => l.b.locked
          /\ ~l.ok => Windows
      BY <2>2, <2>4, Relock DEF Same, PageInv
    <3>3. CASE l.ok
      <4>1. o.ok = TRUE /\ o.b = more(l.b)
        BY <3>1, <3>3
      <4>2. more(l.b) \in Shape /\ more(l.b).prot = l.b.prot /\ more(l.b).locked = l.b.locked /\ Counted(l.b, more(l.b), l.b.openers + 1)
        BY <1>1, <3>2
      <4>3. Counted(b, more(l.b), b.openers + 1)
        BY <3>2, <4>2 DEF Counted, Same
      <4>4. BufferInv(more(l.b))
        BY <1>2, <1>5, <2>0, <3>2, <3>3, <4>2, <4>3 DEF Counted, SealInv, PageInv, ZeroInv, Usable
      <4>5. QED
        BY <1>5, <4>1, <4>3, <4>4
    <3>4. CASE ~l.ok
      <4>1. PICK c \in mprotect(l.b, "NONE") : o.ok = FALSE /\ o.b = c.b
        BY <3>1, <3>4
      <4>2. /\ c.b \in Shape /\ c.ok \in BOOLEAN /\ Same(l.b, c.b)
            /\ c.ok => c.b.prot = "NONE"
            /\ ~c.ok => "mprotect" \in Failing
        BY <3>2, Mprotect DEF Prots
      <4>3. Counted(b, c.b, b.openers)
        BY <3>2, <4>2 DEF Counted, Same
      <4>4. BufferInv(c.b)
        BY <1>2, <1>5, <2>0, <3>2, <3>4, <4>2, <4>3 DEF Counted, SealInv, PageInv, ZeroInv, Usable
      <4>5. QED
        BY <1>2, <4>1, <4>3, <4>4
    <3>5. QED
      BY <3>2, <3>3, <3>4
  <2>5. QED
    BY <2>2, <2>3, <2>4
<1>6. QED
  BY <1>3, <1>4, <1>5

\* close counts a borrow less; the last one closes the pages, or reports that it
\* could not.
LEMMA CloseFacts ==
  ASSUME build \in Builds, NEW b, BufferInv(b), Usable(b), ClosedAtRest => b.openers > 0, NEW c \in close(b)
  PROVE  /\ BufferInv(c.b) /\ c.ok \in BOOLEAN
         /\ Counted(b, c.b, b.openers - IF ClosedAtRest THEN 1 ELSE 0)
<1> USE DEF BufferInv
<1> DEFINE less == [b EXCEPT !.openers = @ - 1]
<1>1. Counted(b, b, b.openers) /\ b.openers \in Nat /\ b.openers - 0 = b.openers
  BY DEF Counted, Shape
<1>2. CASE ~ClosedAtRest
  <2>1. c.ok = TRUE /\ c.b = b
    BY <1>2 DEF close, Skip
  <2>2. QED
    BY <1>1, <1>2, <2>1
<1>3. CASE ClosedAtRest
  <2>0. b.openers - 1 \in Nat
    BY <1>1, <1>3
  <2>1. less \in Shape
    BY <2>0 DEF Shape
  <2>2. less.prot = b.prot /\ less.locked = b.locked /\ Counted(b, less, b.openers - 1)
    BY <2>1 DEF Shape, Counted
  <2>3. c \in IF less.openers > 0 THEN Skip(less) ELSE mprotect(less, "NONE")
    BY <1>3 DEF close
  <2> HIDE DEF less
  <2>4. CASE less.openers > 0
    <3>1. c.ok = TRUE /\ c.b = less
      BY <2>3, <2>4 DEF Skip
    <3>2. BufferInv(less)
      BY <1>1, <1>3, <2>1, <2>2, <2>4 DEF Counted, SealInv, PageInv, ZeroInv, Usable
    <3>3. QED
      BY <1>3, <2>2, <3>1, <3>2
  <2>5. CASE ~(less.openers > 0)
    <3>1. /\ c.b \in Shape /\ c.ok \in BOOLEAN /\ Same(less, c.b)
          /\ c.ok => c.b.prot = "NONE" /\ (c.b.locked <=> less.locked /\ ~Windows)
          /\ ~c.ok => c.b = less /\ "mprotect" \in Failing
      BY <2>1, <2>3, <2>5, Mprotect DEF Prots
    <3>2. Counted(b, c.b, b.openers - 1) /\ c.b.openers = 0
      BY <1>1, <2>0, <2>2, <2>5, <3>1 DEF Counted, Same
    <3>3. BufferInv(c.b)
      BY <1>1, <1>3, <2>2, <3>1, <3>2 DEF Counted, SealInv, PageInv, ZeroInv, Usable
    <3>4. QED
      BY <1>3, <3>1, <3>2, <3>3
  <2>6. QED
    BY <2>4, <2>5
<1>4. QED
  BY <1>2, <1>3

\* store leaves the count as it was, and copies no further than it was told to.
LEMMA StoreFacts ==
  ASSUME build \in Builds, BufferAssumption, NEW b, BufferInv(b), Usable(b), NEW n \in 0 .. b.len, NEW c \in store(b, n)
  PROVE  /\ BufferInv(c.b) /\ c.b.openers = b.openers /\ c.b.sealGen = b.sealGen
         /\ Usable(c.b) /\ c.b.readOnly = b.readOnly
<1>1. PICK o \in open(b) : c \in IF ~o.ok THEN {o}
                                ELSE close([o.b EXCEPT !.filled = IF n > @ THEN n ELSE @])
  BY DEF store
<1>2. /\ BufferInv(o.b) /\ o.ok \in BOOLEAN
      /\ Counted(b, o.b, b.openers + IF o.ok /\ ClosedAtRest THEN 1 ELSE 0)
  BY OpenFacts
<1>3. b.openers \in Nat /\ b.len \in 0 .. Size
  BY DEF BufferInv, Shape
<1>4. CASE ~o.ok
  <2>1. c = o
    BY <1>1, <1>4
  <2>2. b.openers + (IF o.ok /\ ClosedAtRest THEN 1 ELSE 0) = b.openers
    BY <1>3, <1>4
  <2>3. Counted(b, o.b, b.openers)
    BY <1>2, <2>2
  <2>4. QED
    BY <1>2, <2>1, <2>3 DEF Counted, Usable
<1>5. CASE o.ok
  <2> DEFINE f == IF n > o.b.filled THEN n ELSE o.b.filled
             x == [o.b EXCEPT !.filled = f]
  <2>1. o.b \in Shape /\ f \in 0 .. Size /\ f <= o.b.len
    BY <1>2, <1>3, BufferAssumption DEF BufferInv, Shape, ZeroInv, Counted
  <2>2. c \in close(x)
    BY <1>1, <1>5
  <2> HIDE DEF f
  <2>3. /\ x \in Shape /\ x.filled = f /\ Counted(o.b, [x EXCEPT !.filled = o.b.filled], o.b.openers)
        /\ x.prot = o.b.prot /\ x.locked = o.b.locked
    BY <2>1 DEF Shape, Counted
  <2>4. /\ x.live = o.b.live /\ x.wiped = o.b.wiped /\ x.layers = o.b.layers /\ x.flipped = o.b.flipped
        /\ x.readOnly = o.b.readOnly /\ x.sealed = o.b.sealed /\ x.sealCipher = o.b.sealCipher
        /\ x.sealTagged = o.b.sealTagged /\ x.fresh = o.b.fresh /\ x.sealGen = o.b.sealGen
        /\ x.len = o.b.len /\ x.openers = o.b.openers
    BY <2>1 DEF Shape
  <2> HIDE DEF x
  <2>5. Usable(x)
    BY <1>2, <2>4 DEF Usable, Counted
  <2>6. BufferInv(x)
    BY <1>2, <2>1, <2>3, <2>4, <2>5 DEF BufferInv, SealInv, PageInv, ZeroInv, Usable
  <2>7. ClosedAtRest => x.openers > 0
    BY <1>2, <1>3, <1>5, <2>4 DEF Counted
  <2>8. BufferInv(c.b) /\ Counted(x, c.b, x.openers - IF ClosedAtRest THEN 1 ELSE 0)
    BY <2>2, <2>5, <2>6, <2>7, CloseFacts
  <2>9. QED
    BY <1>2, <1>3, <1>5, <2>4, <2>8 DEF Counted, Usable
<1>6. QED
  BY <1>2, <1>4, <1>5
-----------------------------------------------------------------------------
(* Seal. *)

\* A sealed buffer needs nothing of its pages.
LEMMA DormantIsFine ==
  ASSUME build \in Builds, NEW b, Dormant(b)
  PROVE  BufferInv(b)
  BY DEF Dormant, BufferInv, SealInv, PageInv, ZeroInv, Usable, Shape

\* Whatever is done to the protection of a sealed buffer, it stays one.
LEMMA ProtectDormant ==
  ASSUME build \in Builds, NEW b, Dormant(b), NEW p \in Prots, NEW m \in mprotect(b, p)
  PROVE  Dormant(m.b) /\ m.b.sealGen = b.sealGen
<1>1. /\ m.b \in Shape /\ m.ok \in BOOLEAN /\ Same(b, m.b)
      /\ m.ok => (m.b.locked <=> b.locked /\ ~(Windows /\ p = "NONE"))
      /\ ~m.ok => m.b = b
  BY Mprotect DEF Dormant
<1>2. ~Windows => m.b.locked
  BY <1>1 DEF Dormant
<1>3. QED
  BY <1>1, <1>2 DEF Dormant, Same, ZeroInv

\* What was open to be sealed, and is plain again, gets its protection back.
LEMMA ReapplyFacts ==
  ASSUME build \in Builds, NEW b, Sealing(b), ~b.sealCipher, NEW c \in reapplyReadOnly(b)
  PROVE  BufferInv(c) /\ c.openers = 0 /\ c.sealGen = b.sealGen
<1>1. /\ c \in Shape /\ Same(b, c)
      /\ c.prot \in {"RW", restProtection(b)}
      /\ c.prot = "NONE" \/ c.locked = b.locked
      /\ c.prot = restProtection(b) \/ "mprotect" \in Failing
      /\ ~Windows => c.locked = b.locked
  <2>1. b \in Shape /\ b.prot = "RW" /\ restProtection(b) \in Prots /\ Same(b, b)
    BY DEF Sealing, restProtection, Prots, Same
  <2>2. CASE restProtection(b) = "RW"
    <3>1. c = b
      BY <2>2 DEF reapplyReadOnly
    <3>2. QED
      BY <2>1, <2>2, <3>1
  <2>3. CASE restProtection(b) # "RW"
    <3>1. PICK m \in mprotect(b, restProtection(b)) : c = m.b
      BY <2>3 DEF reapplyReadOnly
    <3>2. /\ m.b \in Shape /\ m.ok \in BOOLEAN /\ Same(b, m.b)
          /\ m.ok => m.b.prot = restProtection(b) /\ (m.b.locked <=> b.locked /\ ~(Windows /\ restProtection(b) = "NONE"))
          /\ ~m.ok => m.b = b /\ "mprotect" \in Failing
      BY <2>1, Mprotect
    <3>3. b.locked \in BOOLEAN /\ m.b.locked \in BOOLEAN
      BY <2>1, <3>2 DEF Shape
    <3>4. CASE m.ok
      BY <3>1, <3>2, <3>3, <3>4
    <3>5. CASE ~m.ok
      BY <2>1, <3>1, <3>2, <3>5
    <3>6. QED
      BY <3>2, <3>4, <3>5
  <2>4. QED
    BY <2>2, <2>3
<1>2. c.openers = 0 /\ c.sealGen = b.sealGen
  BY <1>1 DEF Same, Sealing
<1>3. SealInv(c)
  BY <1>1 DEF Same, Sealing, SealInv
<1>4. ZeroInv(c)
  BY <1>1 DEF Same, Sealing, ZeroInv
<1>5. PageInv(c)
  BY <1>1, <1>2 DEF Same, Sealing, PageInv, restProtection, Usable
<1>6. QED
  BY <1>1, <1>2, <1>3, <1>4, <1>5 DEF BufferInv

\* rollbackSeal leaves plain bytes unsealed or ciphertext sealed.
LEMMA RollbackFacts ==
  ASSUME build \in Builds, NEW b, Sealing(b), NEW c \in rollbackSeal(b)
  PROVE  BufferInv(c) /\ c.openers = 0 /\ c.sealGen = b.sealGen
<1>1. b \in Shape /\ b.layers = (IF b.sealCipher THEN 1 ELSE 0)
  BY DEF Sealing
<1>2. PICK d \in sealDecrypt(b) :
        c \in reapplyReadOnly(IF d.ok THEN [d.b EXCEPT !.sealTagged = FALSE]
                              ELSE [d.b EXCEPT !.sealed = TRUE])
  BY DEF rollbackSeal
<1>3. /\ d.b \in Shape /\ d.ok \in BOOLEAN
      /\ \/ d.b = b /\ (d.ok <=> ~b.sealCipher)
         \/ d.ok /\ Ciphered(b, d.b, 0, FALSE)
  BY <1>1, Decrypt
<1>4. CASE d.ok
  <2> DEFINE x == [d.b EXCEPT !.sealTagged = FALSE]
  <2>1. x \in Shape
    BY <1>3 DEF Shape
  <2>2. /\ x.sealTagged = FALSE /\ x.live = d.b.live /\ x.wiped = d.b.wiped /\ x.layers = d.b.layers
        /\ x.flipped = d.b.flipped /\ x.sealed = d.b.sealed /\ x.sealCipher = d.b.sealCipher
        /\ x.prot = d.b.prot /\ x.locked = d.b.locked /\ x.sealGen = d.b.sealGen /\ x.openers = d.b.openers
        /\ x.len = d.b.len /\ x.filled = d.b.filled
    BY <1>3 DEF Shape
  <2>3. c \in reapplyReadOnly(x)
    BY <1>2, <1>4
  <2> HIDE DEF x
  <2>4. Sealing(x) /\ ~x.sealCipher /\ x.sealGen = b.sealGen
    BY <1>1, <1>3, <1>4, <2>1, <2>2, ZenonT(40) DEF Sealing, Ciphered, ZeroInv
  <2>5. QED
    BY <2>3, <2>4, ReapplyFacts
<1>5. CASE ~d.ok
  <2> DEFINE x == [d.b EXCEPT !.sealed = TRUE]
  <2>1. x \in Shape
    BY <1>3 DEF Shape
  <2>2. /\ x.sealed = TRUE /\ x.sealTagged = d.b.sealTagged /\ x.live = d.b.live /\ x.wiped = d.b.wiped /\ x.layers = d.b.layers
        /\ x.flipped = d.b.flipped /\ x.sealCipher = d.b.sealCipher /\ x.fresh = d.b.fresh
        /\ x.prot = d.b.prot /\ x.locked = d.b.locked /\ x.sealGen = d.b.sealGen /\ x.openers = d.b.openers
        /\ x.len = d.b.len /\ x.filled = d.b.filled
    BY <1>3 DEF Shape
  <2>3. c \in reapplyReadOnly(x)
    BY <1>2, <1>5
  <2> HIDE DEF x
  <2>4. Dormant(x) /\ x.sealGen = b.sealGen
    BY <1>1, <1>3, <1>5, <2>1, <2>2 DEF Sealing, Dormant, ZeroInv
  <2>5. Dormant(c) /\ c.sealGen = x.sealGen
    <3>1. c = x \/ \E m \in mprotect(x, restProtection(x)) : c = m.b
      BY <2>3 DEF reapplyReadOnly
    <3>2. restProtection(x) \in Prots
      BY DEF restProtection, Prots
    <3>3. QED
      BY <2>4, <3>1, <3>2, ProtectDormant
  <2>6. QED
    BY <2>4, <2>5, DormantIsFine DEF Dormant
<1>6. QED
  BY <1>3, <1>4, <1>5

\* Seal's last step.
LEMMA ProtectFacts ==
  ASSUME build \in Builds, NEW b, Sealing(b), NEW c \in sealProtect(b)
  PROVE  BufferInv(c) /\ c.openers = 0 /\ c.sealGen = b.sealGen
<1>1. b \in Shape
  BY DEF Sealing
<1>2. PICK m \in mprotect(b, "NONE") :
        c \in IF m.ok THEN {[m.b EXCEPT !.sealed = TRUE]} ELSE rollbackSeal(m.b)
  BY DEF sealProtect
<1>3. /\ m.b \in Shape /\ m.ok \in BOOLEAN /\ Same(b, m.b)
      /\ m.ok => (m.b.locked <=> b.locked /\ ~Windows)
      /\ ~m.ok => m.b = b
  BY <1>1, Mprotect DEF Prots
<1>4. CASE m.ok
  <2>1. c = [m.b EXCEPT !.sealed = TRUE]
    BY <1>2, <1>4
  <2>2. c \in Shape
    BY <1>3, <2>1 DEF Shape
  <2>3. /\ c.sealed = TRUE /\ c.sealTagged = m.b.sealTagged /\ c.live = m.b.live /\ c.wiped = m.b.wiped /\ c.layers = m.b.layers
        /\ c.flipped = m.b.flipped /\ c.sealCipher = m.b.sealCipher /\ c.fresh = m.b.fresh
        /\ c.locked = m.b.locked /\ c.sealGen = m.b.sealGen /\ c.openers = m.b.openers
        /\ c.len = m.b.len /\ c.filled = m.b.filled
    BY <1>3, <2>1 DEF Shape
  <2>4. Dormant(c) /\ c.sealGen = b.sealGen
    BY <1>3, <1>4, <2>2, <2>3 DEF Sealing, Dormant, ZeroInv, Same
  <2>5. QED
    BY <2>4, DormantIsFine DEF Dormant
<1>5. CASE ~m.ok
  BY <1>2, <1>3, <1>5, RollbackFacts
<1>6. QED
  BY <1>3, <1>4, <1>5
-----------------------------------------------------------------------------
(* Unseal. *)

\* Unseal that fails leaves the buffer sealed.
LEMMA StaySealedFacts ==
  ASSUME build \in Builds, NEW b, Dormant(b), NEW c \in StaySealed(b)
  PROVE  BufferInv(c) /\ c.openers = 0 /\ c.sealGen = b.sealGen
<1>1. PICK m \in mprotect(b, "NONE") : c = m.b
  BY DEF StaySealed
<1>2. Dormant(c) /\ c.sealGen = b.sealGen
  BY <1>1, ProtectDormant DEF Prots
<1>3. QED
  BY <1>2, DormantIsFine DEF Dormant

\* The bytes of a sealed buffer that Unseal has deciphered and could not hand out.
Plain(b) ==
  /\ b \in Shape /\ ZeroInv(b)
  /\ b.live /\ ~b.wiped /\ b.sealed /\ b.openers = 0
  /\ b.layers = 0 /\ ~b.sealCipher /\ ~b.flipped
  /\ ~Windows => b.locked

\* They are sealed again, with whatever of cipher and tag can still be had, and the
\* flags say which.
LEMMA SealAgainFacts ==
  ASSUME build \in Builds, NEW b, Plain(b), NEW k \in [gen : Nat, wiped : BOOLEAN],
         b.sealGen <= k.gen, NEW r \in SealAgain(b, k)
  PROVE  /\ BufferInv(r.b) /\ r.b.openers = 0
         /\ r.key \in [gen : Nat, wiped : BOOLEAN] /\ r.key.gen >= k.gen /\ r.b.sealGen <= r.key.gen
<1>0. b \in Shape /\ b.layers = 0 /\ ~b.sealCipher
  BY DEF Plain
<1>1. PICK e \in sealEncrypt(b) :
        r \in LET untagged == [e.b EXCEPT !.sealTagged = FALSE] IN
              IF ~SealAuth THEN {[b |-> c, key |-> k] : c \in StaySealed(untagged)}
              ELSE UNION {{[b |-> c, key |-> t.key] : c \in StaySealed(t.b)}
                            : t \in UNION {sealAuthenticate(untagged, k2) : k2 \in Since(k)}}
  BY DEF SealAgain
<1>2. /\ e.b \in Shape
      /\ e.b = b \/ Ciphered(b, e.b, 1, TRUE)
  BY <1>0, Encrypt
<1> DEFINE u == [e.b EXCEPT !.sealTagged = FALSE]
<1>3. u \in Shape
  BY <1>2 DEF Shape
<1>4. /\ u.sealTagged = FALSE /\ u.live = e.b.live /\ u.wiped = e.b.wiped /\ u.layers = e.b.layers
      /\ u.flipped = e.b.flipped /\ u.sealed = e.b.sealed /\ u.sealCipher = e.b.sealCipher
      /\ u.prot = e.b.prot /\ u.locked = e.b.locked /\ u.sealGen = e.b.sealGen /\ u.openers = e.b.openers
      /\ u.len = e.b.len /\ u.filled = e.b.filled
  BY <1>2 DEF Shape
<1>5. r \in IF ~SealAuth THEN {[b |-> c, key |-> k] : c \in StaySealed(u)}
            ELSE UNION {{[b |-> c, key |-> t.key] : c \in StaySealed(t.b)}
                          : t \in UNION {sealAuthenticate(u, k2) : k2 \in Since(k)}}
  BY <1>1
<1> HIDE DEF u
<1>6. Dormant(u) /\ u.sealGen = b.sealGen /\ ~u.flipped
  BY <1>2, <1>3, <1>4 DEF Plain, Dormant, Ciphered, ZeroInv
<1>7. CASE ~SealAuth
  <2>1. PICK c \in StaySealed(u) : r = [b |-> c, key |-> k]
    BY <1>5, <1>7
  <2>2. r.b = c /\ r.key = k /\ k.gen >= k.gen
    BY <2>1
  <2>3. BufferInv(c) /\ c.openers = 0 /\ c.sealGen = b.sealGen
    BY <1>6, StaySealedFacts
  <2>4. QED
    BY <2>2, <2>3
<1>8. CASE SealAuth
  <2>0. PICK t : /\ \E k2 \in Since(k) : t \in sealAuthenticate(u, k2)
                 /\ r \in {[b |-> c, key |-> t.key] : c \in StaySealed(t.b)}
    BY <1>5, <1>8
  <2>0a. PICK k2 \in Since(k) : t \in sealAuthenticate(u, k2)
    BY <2>0
  <2>1. PICK c \in StaySealed(t.b) : r = [b |-> c, key |-> t.key]
    BY <2>0
  <2>2. k2 \in [gen : Nat, wiped : BOOLEAN] /\ k2.gen = k.gen
    <3>1. \A v \in BOOLEAN : /\ [k EXCEPT !.wiped = v] \in [gen : Nat, wiped : BOOLEAN]
                             /\ [k EXCEPT !.wiped = v].gen = k.gen
      OBVIOUS
    <3>2. (k.gen > 0) \in BOOLEAN /\ k2 \in {k, [k EXCEPT !.wiped = (k.gen > 0)]}
      BY <2>0a DEF Since
    <3>3. QED
      BY <3>1, <3>2, Zenon
  <2>3. /\ t.b \in Shape /\ t.ok \in BOOLEAN
        /\ t.key \in [gen : Nat, wiped : BOOLEAN] /\ t.key.gen >= k.gen
        /\ t.ok => Tagged(u, t.b, t.key.gen)
        /\ ~t.ok => Untagged(u, t.b)
    BY <1>3, <2>0a, <2>2, Authenticate
  <2>4. Dormant(t.b) /\ t.b.sealGen <= t.key.gen
    <3>1. CASE t.ok
      <4>1. t.b.sealGen = t.key.gen /\ t.key.gen \in Nat
        BY <2>3, <3>1 DEF Tagged
      <4>2. Dormant(t.b)
        BY <1>6, <2>3, <3>1 DEF Tagged, Dormant, ZeroInv
      <4>3. QED
        BY <4>1, <4>2
    <3>2. CASE ~t.ok
      <4>1. u.sealGen \in Nat /\ t.b.sealGen = u.sealGen
        BY <1>3, <2>3, <3>2 DEF Untagged, Shape
      <4>2. t.b.sealGen <= t.key.gen
        BY <1>6, <2>3, <4>1
      <4>3. Dormant(t.b)
        BY <1>4, <1>6, <2>3, <3>2 DEF Untagged, Dormant, ZeroInv
      <4>4. QED
        BY <4>2, <4>3
    <3>3. QED
      BY <2>3, <3>1, <3>2
  <2>5. BufferInv(c) /\ c.openers = 0 /\ c.sealGen = t.b.sealGen
    BY <2>1, <2>4, StaySealedFacts
  <2>6. r.b = c /\ r.key = t.key
    BY <2>1
  <2>7. QED
    BY <2>3, <2>4, <2>5, <2>6
<1>9. QED
  BY <1>7, <1>8

\* Verified bytes are deciphered and handed out, or the buffer stays sealed.
LEMMA RevealFacts ==
  ASSUME build \in Builds, NEW b, Dormant(b), b.prot = "RW", b.locked, ~b.flipped,
         NEW k \in [gen : Nat, wiped : BOOLEAN], b.sealGen <= k.gen, NEW r \in Reveal(b, k)
  PROVE  /\ BufferInv(r.b) /\ r.b.openers = 0
         /\ r.key \in [gen : Nat, wiped : BOOLEAN] /\ r.key.gen >= k.gen /\ r.b.sealGen <= r.key.gen
<1>0. b \in Shape /\ b.layers = (IF b.sealCipher THEN 1 ELSE 0) /\ k.gen >= k.gen
  BY DEF Dormant
<1>1. PICK d \in sealDecrypt(b) :
        r \in IF ~d.ok THEN {[b |-> c, key |-> k] : c \in StaySealed(d.b)}
              ELSE UNION {IF m.ok
                          THEN {[b |-> [m.b EXCEPT !.sealed = FALSE, !.sealTagged = FALSE], key |-> k]}
                          ELSE SealAgain(m.b, k)
                            : m \in IF restProtection(b) = "RW" THEN Skip(d.b)
                                    ELSE mprotect(d.b, restProtection(b))}
  BY DEF Reveal
<1>2. /\ d.b \in Shape /\ d.ok \in BOOLEAN
      /\ \/ d.b = b /\ (d.ok <=> ~b.sealCipher)
         \/ d.ok /\ Ciphered(b, d.b, 0, FALSE)
  BY <1>0, Decrypt
<1>3. CASE ~d.ok
  <2>1. PICK c \in StaySealed(d.b) : r = [b |-> c, key |-> k]
    BY <1>1, <1>3
  <2>2. d.b = b
    BY <1>2, <1>3
  <2>3. BufferInv(c) /\ c.openers = 0 /\ c.sealGen = b.sealGen
    BY <2>1, <2>2, StaySealedFacts
  <2>4. r.b = c /\ r.key = k
    BY <2>1
  <2>5. QED
    BY <1>0, <2>3, <2>4
<1>4. CASE d.ok
  <2>1. PICK m \in IF restProtection(b) = "RW" THEN Skip(d.b) ELSE mprotect(d.b, restProtection(b)) :
          r \in IF m.ok THEN {[b |-> [m.b EXCEPT !.sealed = FALSE, !.sealTagged = FALSE], key |-> k]}
                ELSE SealAgain(m.b, k)
    BY <1>1, <1>4
  <2>2. /\ d.b.prot = "RW" /\ d.b.locked /\ d.b.sealGen = b.sealGen /\ d.b.readOnly = b.readOnly
        /\ Plain(d.b)
    BY <1>0, <1>2, <1>4 DEF Ciphered, Dormant, Plain, ZeroInv
  <2>3. /\ m.b \in Shape /\ m.ok \in BOOLEAN /\ Same(d.b, m.b)
        /\ m.ok => m.b.prot = restProtection(b) /\ (m.b.locked \/ (Windows /\ restProtection(b) = "NONE"))
        /\ ~m.ok => m.b = d.b
    <3>1. CASE restProtection(b) = "RW"
      <4>1. m.ok = TRUE /\ m.b = d.b
        BY <2>1, <3>1 DEF Skip
      <4>2. Same(d.b, d.b)
        BY DEF Same
      <4>3. QED
        BY <1>2, <2>2, <3>1, <4>1, <4>2
    <3>2. CASE restProtection(b) # "RW"
      <4>1. restProtection(b) \in Prots /\ m \in mprotect(d.b, restProtection(b))
        BY <2>1, <3>2 DEF restProtection, Prots
      <4>2. QED
        BY <1>2, <2>2, <4>1, Mprotect
    <3>3. QED
      BY <3>1, <3>2
  <2>4. CASE ~m.ok
    <3>1. r \in SealAgain(d.b, k)
      BY <2>1, <2>3, <2>4
    <3>2. QED
      BY <2>2, <3>1, SealAgainFacts
  <2>5. CASE m.ok
    <3>1. r = [b |-> [m.b EXCEPT !.sealed = FALSE, !.sealTagged = FALSE], key |-> k]
      BY <2>1, <2>5
    <3> DEFINE x == [m.b EXCEPT !.sealed = FALSE, !.sealTagged = FALSE]
    <3>2. x \in Shape
      BY <2>3 DEF Shape
    <3>3. /\ x.sealed = FALSE /\ x.sealTagged = FALSE /\ x.live = m.b.live /\ x.wiped = m.b.wiped /\ x.layers = m.b.layers
          /\ x.flipped = m.b.flipped /\ x.sealCipher = m.b.sealCipher /\ x.readOnly = m.b.readOnly
          /\ x.prot = m.b.prot /\ x.locked = m.b.locked /\ x.sealGen = m.b.sealGen /\ x.openers = m.b.openers
          /\ x.len = m.b.len /\ x.filled = m.b.filled
      BY <2>3 DEF Shape
    <3>4. r.b = x /\ r.key = k
      BY <3>1
    <3> HIDE DEF x
    <3>5. x.openers = 0 /\ x.sealGen = b.sealGen /\ SealInv(x) /\ ZeroInv(x)
      BY <2>2, <2>3, <3>3 DEF Same, Plain, SealInv, ZeroInv
    <3>6. x.prot = restProtection(b) /\ (x.locked \/ (Windows /\ restProtection(b) = "NONE")) /\ x.readOnly = b.readOnly
      BY <2>2, <2>3, <2>5, <3>3 DEF Same
    <3>7. PageInv(x)
      BY <3>5, <3>6 DEF PageInv, restProtection
    <3>8. QED
      BY <1>0, <3>2, <3>4, <3>5, <3>7 DEF BufferInv
  <2>6. QED
    BY <2>3, <2>4, <2>5
<1>5. QED
  BY <1>2, <1>3, <1>4
-----------------------------------------------------------------------------
(* The inductive invariant. *)

PC == {"out", "entered", "inside", "reading"}

\* What remains of a step once its outcome is known.
LEMMA Assemble ==
  ASSUME build \in Builds, UNCHANGED build, BufferInv(buf'),
         key' \in [gen : Nat, wiped : BOOLEAN], key'.gen <= MaxGen, buf'.sealGen <= key'.gen,
         pc' \in [Procs -> PC], size' \in [Procs -> 0 .. Size],
         ClosedAtRest => buf'.openers = Cardinality(Insiders'),
         \A p \in Procs : pc'[p] \in {"entered", "inside"} => Usable(buf')
  PROVE  IInv'
<1> USE BufferAssumption
<1>1. buf' \in Shape /\ buf'.layers \in {0, 1}
  BY DEF BufferInv, SealInv
<1>2. buf'.openers <= Cardinality(Procs) /\ Cardinality(Procs) \in Nat
  <2>1. Cardinality(Procs) \in Nat
    BY FS_CardinalityType
  <2>2. Insiders' \subseteq Procs
    BY DEF Insiders
  <2>3. Cardinality(Insiders') <= Cardinality(Procs)
    BY <2>2, FS_Subset
  <2>4. CASE ClosedAtRest
    BY <2>1, <2>3, <2>4
  <2>5. CASE ~ClosedAtRest
    BY <2>1, <2>5 DEF BufferInv, PageInv
  <2>6. QED
    BY <2>1, <2>4, <2>5
<1>3. buf'.sealGen \in 0 .. MaxGen /\ buf'.openers \in 0 .. Cardinality(Procs) + 1
  BY <1>1, <1>2 DEF Shape
<1>4. buf' \in Buffers
  BY <1>1, <1>3 DEF Shape, Buffers
<1>5. key' \in Keys
  BY DEF Keys
<1>6. TypeOK'
  BY <1>4, <1>5 DEF TypeOK, PC
<1>7. BufferInv(buf)'
  BY DEF BufferInv, SealInv, PageInv, ZeroInv, Usable, ClosedAtRest, Windows, Failing
<1>8. QED
  BY <1>6, <1>7 DEF IInv, ClosedAtRest, Usable

\* What the types and the lock say before a step.
LEMMA Before ==
  ASSUME IInv
  PROVE  /\ build \in Builds /\ BufferInv(buf) /\ buf \in Shape
         /\ key \in [gen : Nat, wiped : BOOLEAN] /\ key.gen <= MaxGen /\ buf.sealGen <= key.gen
         /\ pc \in [Procs -> PC] /\ size \in [Procs -> 0 .. Size]
         /\ IsFiniteSet(Insiders) /\ Cardinality(Insiders) \in Nat /\ buf.openers \in Nat
         /\ Exclusive => /\ buf.openers = 0 /\ Insiders = {} /\ Cardinality({}) = 0
                         /\ \A p \in Procs : pc[p] \notin {"entered", "inside"}
<1>1. IsFiniteSet(Insiders) /\ Cardinality(Insiders) \in Nat
  <2>1. Insiders \subseteq Procs /\ IsFiniteSet(Procs)
    BY BufferAssumption DEF Insiders
  <2>2. QED
    BY <2>1, FS_Subset, FS_CardinalityType
<1>2. buf \in Shape /\ buf.openers \in Nat
  BY DEF IInv, BufferInv, Shape
<1>3. ASSUME Exclusive
      PROVE  /\ buf.openers = 0 /\ Insiders = {} /\ Cardinality({}) = 0
             /\ \A p \in Procs : pc[p] \notin {"entered", "inside"}
  <2>1. Insiders = {} /\ \A p \in Procs : pc[p] \notin {"entered", "inside"}
    BY <1>3 DEF Exclusive, Inside, Insiders
  <2>2. Cardinality({}) = 0
    BY FS_EmptySet
  <2>3. buf.openers = 0
    BY <2>1, <2>2 DEF IInv, BufferInv, PageInv
  <2>4. QED
    BY <2>1, <2>2, <2>3
<1>4. key \in [gen : Nat, wiped : BOOLEAN] /\ key.gen <= MaxGen
  BY BufferAssumption DEF IInv, TypeOK, Keys
<1>5. QED
  BY <1>1, <1>2, <1>3, <1>4 DEF IInv, TypeOK, PC

\* A step under the exclusive lock.
LEMMA Alone ==
  ASSUME IInv, Exclusive, UNCHANGED build, BufferInv(buf'), buf'.openers = 0,
         key' \in [gen : Nat, wiped : BOOLEAN], key'.gen <= MaxGen, buf'.sealGen <= key'.gen,
         pc' \in [Procs -> PC], size' \in [Procs -> 0 .. Size],
         \A p \in Procs : pc'[p] = pc[p] \/ pc'[p] = "out"
  PROVE  IInv'
<1>1. \A p \in Procs : pc'[p] \notin {"entered", "inside"}
  BY Before
<1>2. Insiders' = {} /\ Cardinality({}) = 0
  BY <1>1, Before DEF Insiders
<1>3. QED
  BY <1>1, <1>2, Before, Assemble

\* Borrows come and go, and each is counted.
LEMMA BorrowStep ==
  ASSUME IInv, UNCHANGED build, NEW p \in Procs
  PROVE  Enter(p) \/ Open(p) \/ WriteThrough(p) \/ Leave(p) => IInv'
<1> USE Before
<1>1. ASSUME Enter(p) PROVE IInv'
  <2>1. pc' \in [Procs -> PC] /\ Insiders' = Insiders /\ UNCHANGED <<buf, key, size>> /\ Usable(buf)
    BY <1>1 DEF Enter, PC, Insiders
  <2>2. QED
    BY <2>1, Assemble DEF IInv
<1>2. ASSUME Open(p) PROVE IInv'
  <2>1. Usable(buf) /\ pc[p] = "entered" /\ UNCHANGED <<key, size>>
    BY <1>2 DEF Open, IInv
  <2>2. PICK o \in open(buf) : buf' = o.b /\ pc' = [pc EXCEPT ![p] = IF o.ok THEN "inside" ELSE "out"]
    BY <1>2 DEF Open
  <2>3. /\ BufferInv(buf') /\ o.ok \in BOOLEAN
        /\ Counted(buf, buf', buf.openers + IF o.ok /\ ClosedAtRest THEN 1 ELSE 0)
    BY <2>1, <2>2, OpenFacts
  <2>4. Usable(buf') /\ buf'.sealGen = buf.sealGen /\ pc' \in [Procs -> PC]
    BY <2>1, <2>2, <2>3 DEF Counted, Usable, PC
  <2>5. Cardinality(Insiders') = Cardinality(Insiders) + IF o.ok THEN 1 ELSE 0
    <3>1. CASE o.ok
      <4>1. Insiders' = Insiders \cup {p} /\ p \notin Insiders
        BY <2>1, <2>2, <3>1 DEF Insiders
      <4>2. QED
        BY <3>1, <4>1, FS_AddElement
    <3>2. CASE ~o.ok
      <4>1. Insiders' = Insiders
        BY <2>1, <2>2, <3>2 DEF Insiders
      <4>2. QED
        BY <3>2, <4>1
    <3>3. QED
      BY <2>3, <3>1, <3>2
  <2>6. ClosedAtRest => buf'.openers = Cardinality(Insiders')
    BY <2>3, <2>5 DEF IInv, Counted
  <2>7. QED
    BY <2>1, <2>3, <2>4, <2>6, Assemble
<1>3. ASSUME WriteThrough(p) PROVE IInv'
  <2>1. Usable(buf) /\ UNCHANGED <<key, pc, size>> /\ buf' = [buf EXCEPT !.filled = buf.len]
    BY <1>3 DEF WriteThrough, IInv
  <2>2. buf' \in Shape
    BY <2>1 DEF Shape
  <2>3. /\ Counted([buf EXCEPT !.filled = buf.len], buf', buf.openers) /\ buf'.filled = buf.len
        /\ buf'.live = buf.live /\ buf'.wiped = buf.wiped /\ buf'.layers = buf.layers /\ buf'.flipped = buf.flipped
        /\ buf'.readOnly = buf.readOnly /\ buf'.sealed = buf.sealed /\ buf'.sealCipher = buf.sealCipher
        /\ buf'.sealTagged = buf.sealTagged /\ buf'.fresh = buf.fresh /\ buf'.sealGen = buf.sealGen
        /\ buf'.len = buf.len /\ buf'.openers = buf.openers /\ buf'.prot = buf.prot /\ buf'.locked = buf.locked
    BY <2>1 DEF Shape, Counted
  <2>4. Usable(buf') /\ Insiders' = Insiders
    BY <2>1, <2>3 DEF Usable, Insiders
  <2>5. BufferInv(buf')
    BY <2>1, <2>2, <2>3, <2>4 DEF BufferInv, SealInv, PageInv, ZeroInv, Usable, Shape
  <2>6. QED
    BY <2>1, <2>3, <2>4, <2>5, Assemble DEF IInv
<1>4. ASSUME Leave(p) PROVE IInv'
  <2>1. /\ Usable(buf) /\ UNCHANGED <<key, size>> /\ pc' = [pc EXCEPT ![p] = "out"]
        /\ p \in Insiders
    BY <1>4 DEF Leave, IInv, Insiders
  <2>2. /\ Insiders' = Insiders \ {p} /\ Cardinality(Insiders') = Cardinality(Insiders) - 1
        /\ Cardinality(Insiders) > 0 /\ pc' \in [Procs -> PC]
    <3>1. Insiders' = Insiders \ {p}
      BY <2>1 DEF Insiders
    <3>2. Cardinality(Insiders') = Cardinality(Insiders) - 1
      BY <2>1, <3>1, FS_RemoveElement
    <3>3. Cardinality(Insiders) # 0
      BY <2>1, FS_EmptySet
    <3>4. QED
      BY <2>1, <3>1, <3>2, <3>3 DEF PC
  <2>3. PICK c \in close(buf) : buf' = c.b
    BY <1>4 DEF Leave
  <2>4. BufferInv(buf') /\ Counted(buf, buf', buf.openers - IF ClosedAtRest THEN 1 ELSE 0)
    BY <2>1, <2>2, <2>3, CloseFacts DEF IInv
  <2>5. Usable(buf') /\ buf'.sealGen = buf.sealGen
    BY <2>1, <2>4 DEF Counted, Usable
  <2>6. ClosedAtRest => buf'.openers = Cardinality(Insiders')
    BY <2>2, <2>4 DEF IInv, Counted
  <2>7. QED
    BY <2>1, <2>2, <2>4, <2>5, <2>6, Assemble
<1>5. QED
  BY <1>1, <1>2, <1>3, <1>4

\* ReadFrom, in two halves with the lock let go in between; CopyIn.
LEMMA StoreStep ==
  ASSUME IInv, UNCHANGED build
  PROVE  /\ CopyIn => IInv'
         /\ \A p \in Procs : ReadFromBegin(p) \/ ReadFromFails(p) \/ ReadFromEnd(p) => IInv'
<1> USE Before
<1>0. buf.len \in 0 .. Size
  BY DEF Shape
<1>1. ASSUME CopyIn PROVE IInv'
  <2>1. Exclusive /\ Usable(buf) /\ UNCHANGED <<key, pc, size>>
    BY <1>1 DEF CopyIn, Mutable
  <2>2. PICK n \in 1 .. buf.len : \E c \in store(buf, n) : buf' = c.b
    BY <1>1 DEF CopyIn
  <2>3. n \in 0 .. buf.len
    BY <1>0, BufferAssumption
  <2>4. BufferInv(buf') /\ buf'.openers = buf.openers /\ buf'.sealGen = buf.sealGen
    BY <2>1, <2>2, <2>3, BufferAssumption, StoreFacts
  <2>5. QED
    BY <2>1, <2>4, Alone
<1>2. ASSUME NEW p \in Procs, ReadFromBegin(p) PROVE IInv'
  <2>1. /\ pc' \in [Procs -> PC] /\ Insiders' = Insiders /\ UNCHANGED <<buf, key>>
        /\ size' \in [Procs -> 0 .. Size]
        /\ \A q \in Procs : pc'[q] \in {"entered", "inside"} => pc'[q] = pc[q]
    BY <1>0, <1>2 DEF ReadFromBegin, PC, Insiders
  <2>2. QED
    BY <2>1, Assemble DEF IInv
<1>3. ASSUME NEW p \in Procs, ReadFromFails(p) PROVE IInv'
  <2>1. /\ pc' \in [Procs -> PC] /\ Insiders' = Insiders /\ UNCHANGED <<buf, key>>
        /\ size' \in [Procs -> 0 .. Size]
        /\ \A q \in Procs : pc'[q] \in {"entered", "inside"} => pc'[q] = pc[q]
    BY <1>3, BufferAssumption DEF ReadFromFails, PC, Insiders
  <2>2. QED
    BY <2>1, Assemble DEF IInv
<1>4. ASSUME NEW p \in Procs, ReadFromEnd(p) PROVE IInv'
  <2>1. /\ Exclusive /\ UNCHANGED key /\ pc' \in [Procs -> PC] /\ size' \in [Procs -> 0 .. Size]
        /\ \A q \in Procs : pc'[q] = pc[q] \/ pc'[q] = "out"
    BY <1>4, BufferAssumption DEF ReadFromEnd, PC
  <2>2. BufferInv(buf') /\ buf'.openers = buf.openers /\ buf'.sealGen = buf.sealGen
    <3>1. CASE Mutable(buf)
      <4>1. PICK n \in 0 .. size[p] : \E c \in store(buf, Lesser(n, buf.len)) : buf' = c.b
        BY <1>4, <3>1 DEF ReadFromEnd
      <4>2. size[p] \in Nat /\ n \in Nat
        BY BufferAssumption
      <4>3. Lesser(n, buf.len) \in 0 .. buf.len
        BY <1>0, <4>2, BufferAssumption DEF Lesser
      <4>4. QED
        BY <3>1, <4>1, <4>3, BufferAssumption, StoreFacts DEF Mutable
    <3>2. CASE ~Mutable(buf)
      BY <1>4, <3>2 DEF ReadFromEnd
    <3>3. QED
      BY <3>1, <3>2
  <2>3. QED
    BY <2>1, <2>2, Alone
<1>5. QED
  BY <1>1, <1>2, <1>3, <1>4

\* Truncate, and the switch between read-only and writable.
LEMMA ShapeStep ==
  ASSUME IInv, UNCHANGED build
  PROVE  /\ \A n \in 0 .. Size : Truncate(n) => IInv'
         /\ \A ro \in BOOLEAN : SetReadOnly(ro) => IInv'
<1> USE Before
<1>1. ASSUME NEW n \in 0 .. Size, Truncate(n) PROVE IInv'
  <2>1. Exclusive /\ Usable(buf) /\ n < buf.len /\ UNCHANGED <<key, pc, size>>
    BY <1>1 DEF Truncate, Mutable
  <2>2. PICK o \in open(buf) :
          IF ~o.ok THEN buf' = o.b
          ELSE \E c \in close([o.b EXCEPT !.filled = Lesser(n, @)]) :
                 buf' = IF c.ok THEN [c.b EXCEPT !.len = n] ELSE c.b
    BY <1>1 DEF Truncate
  <2>3. /\ BufferInv(o.b) /\ o.ok \in BOOLEAN
        /\ Counted(buf, o.b, buf.openers + IF o.ok /\ ClosedAtRest THEN 1 ELSE 0)
    BY <2>1, OpenFacts
  <2>4. buf.openers = 0 /\ n \in Nat
    BY <2>1, BufferAssumption
  <2>5. BufferInv(buf') /\ buf'.openers = 0 /\ buf'.sealGen = buf.sealGen
    <3>1. CASE ~o.ok
      <4>1. buf' = o.b
        BY <2>2, <3>1
      <4>2. QED
        BY <2>3, <2>4, <3>1, <4>1 DEF Counted
    <3>2. CASE o.ok
      <4> DEFINE f == Lesser(n, o.b.filled)
                 x == [o.b EXCEPT !.filled = f]
      <4>1. PICK c \in close(x) : buf' = IF c.ok THEN [c.b EXCEPT !.len = n] ELSE c.b
        BY <2>2, <3>2
      <4>2. o.b \in Shape /\ f \in 0 .. Size /\ f <= n /\ f <= o.b.filled
        BY <2>3, BufferAssumption DEF BufferInv, Shape, Lesser
      <4> HIDE DEF f
      <4>3. x \in Shape /\ x.filled = f /\ x.prot = o.b.prot /\ x.locked = o.b.locked
        BY <4>2 DEF Shape
      <4>4. /\ x.live = o.b.live /\ x.wiped = o.b.wiped /\ x.layers = o.b.layers /\ x.flipped = o.b.flipped
            /\ x.readOnly = o.b.readOnly /\ x.sealed = o.b.sealed /\ x.sealCipher = o.b.sealCipher
            /\ x.sealTagged = o.b.sealTagged /\ x.fresh = o.b.fresh /\ x.sealGen = o.b.sealGen
            /\ x.len = o.b.len /\ x.openers = o.b.openers
        BY <4>2 DEF Shape
      <4> HIDE DEF x
      <4>5. Usable(x)
        BY <2>1, <2>3, <4>4 DEF Usable, Counted
      <4>6. x.filled <= x.len
        BY <2>3, <4>2, <4>3, <4>4, BufferAssumption DEF BufferInv, ZeroInv, Shape
      <4>7. BufferInv(x)
        BY <2>3, <4>3, <4>4, <4>5, <4>6 DEF BufferInv, SealInv, PageInv, ZeroInv, Usable
      <4>8. x.openers = IF ClosedAtRest THEN 1 ELSE 0
        BY <2>3, <2>4, <3>2, <4>4 DEF Counted
      <4>9. /\ BufferInv(c.b) /\ c.ok \in BOOLEAN
            /\ Counted(x, c.b, x.openers - IF ClosedAtRest THEN 1 ELSE 0)
        BY <4>1, <4>5, <4>7, <4>8, CloseFacts
      <4>10. c.b.openers = 0 /\ c.b.sealGen = buf.sealGen /\ c.b.filled = f /\ Usable(c.b)
        BY <2>3, <4>3, <4>4, <4>5, <4>8, <4>9 DEF Counted, Usable
      <4>11. CASE ~c.ok
        BY <4>1, <4>9, <4>10, <4>11
      <4>12. CASE c.ok
        <5>1. buf' = [c.b EXCEPT !.len = n] /\ c.b \in Shape
          BY <4>1, <4>9, <4>12 DEF BufferInv
        <5>2. buf' \in Shape
          BY <5>1 DEF Shape
        <5>3. /\ buf'.live = c.b.live /\ buf'.wiped = c.b.wiped /\ buf'.layers = c.b.layers /\ buf'.flipped = c.b.flipped
              /\ buf'.readOnly = c.b.readOnly /\ buf'.sealed = c.b.sealed /\ buf'.sealCipher = c.b.sealCipher
              /\ buf'.sealTagged = c.b.sealTagged /\ buf'.fresh = c.b.fresh /\ buf'.sealGen = c.b.sealGen
              /\ buf'.len = n /\ buf'.openers = c.b.openers /\ buf'.prot = c.b.prot /\ buf'.locked = c.b.locked
              /\ buf'.filled = c.b.filled
          BY <5>1 DEF Shape
        <5>4. BufferInv(buf')
          BY <4>2, <4>9, <4>10, <5>2, <5>3 DEF BufferInv, SealInv, PageInv, ZeroInv, Usable
        <5>5. QED
          BY <4>10, <5>3, <5>4
      <4>13. QED
        BY <4>9, <4>11, <4>12
    <3>3. QED
      BY <2>3, <3>1, <3>2
  <2>6. QED
    BY <2>1, <2>5, Alone
<1>2. ASSUME NEW ro \in BOOLEAN, SetReadOnly(ro) PROVE IInv'
  <2>1. Exclusive /\ Usable(buf) /\ UNCHANGED <<key, pc, size>>
    BY <1>2 DEF SetReadOnly
  <2>2. PICK m \in IF ClosedAtRest THEN Skip(buf) ELSE mprotect(buf, IF ro THEN "RO" ELSE "RW") :
          buf' = IF m.ok THEN [m.b EXCEPT !.readOnly = ro] ELSE m.b
    BY <1>2 DEF SetReadOnly
  <2>3. /\ m.b \in Shape /\ m.ok \in BOOLEAN /\ Same(buf, m.b)
        /\ ~m.ok => m.b = buf
        /\ m.ok /\ ClosedAtRest => m.b = buf
        /\ m.ok /\ ~ClosedAtRest => m.b.prot = (IF ro THEN "RO" ELSE "RW") /\ (m.b.locked <=> buf.locked)
    <3>1. CASE ClosedAtRest
      <4>1. m.ok = TRUE /\ m.b = buf
        BY <2>2, <3>1 DEF Skip
      <4>2. Same(buf, buf)
        BY DEF Same
      <4>3. QED
        BY <3>1, <4>1, <4>2
    <3>2. CASE ~ClosedAtRest
      BY <2>2, <3>2, Mprotect DEF Prots
    <3>3. QED
      BY <3>1, <3>2
  <2>4. BufferInv(buf') /\ buf'.openers = 0 /\ buf'.sealGen = buf.sealGen
    <3>1. CASE ~m.ok
      BY <2>1, <2>2, <2>3, <3>1
    <3>2. CASE m.ok
      <4>1. buf' = [m.b EXCEPT !.readOnly = ro]
        BY <2>2, <3>2
      <4>2. buf' \in Shape
        BY <2>3, <4>1 DEF Shape
      <4>3. /\ buf'.live = m.b.live /\ buf'.wiped = m.b.wiped /\ buf'.layers = m.b.layers /\ buf'.flipped = m.b.flipped
            /\ buf'.readOnly = ro /\ buf'.sealed = m.b.sealed /\ buf'.sealCipher = m.b.sealCipher
            /\ buf'.sealTagged = m.b.sealTagged /\ buf'.fresh = m.b.fresh /\ buf'.sealGen = m.b.sealGen
            /\ buf'.len = m.b.len /\ buf'.openers = m.b.openers /\ buf'.prot = m.b.prot /\ buf'.locked = m.b.locked
            /\ buf'.filled = m.b.filled
        BY <2>3, <4>1 DEF Shape
      <4>4. buf'.openers = 0 /\ buf'.sealGen = buf.sealGen /\ SealInv(buf') /\ ZeroInv(buf')
        BY <2>1, <2>3, <4>3 DEF Same, BufferInv, SealInv, ZeroInv
      <4>5. PageInv(buf')
        BY <2>1, <2>3, <3>2, <4>3, <4>4 DEF Same, BufferInv, PageInv, Usable
      <4>6. QED
        BY <4>2, <4>4, <4>5 DEF BufferInv
    <3>3. QED
      BY <2>3, <3>1, <3>2
  <2>5. QED
    BY <2>1, <2>4, Alone
<1>3. QED
  BY <1>1, <1>2

\* Seal: whichever of its calls fails, the buffer is sealed with flags that describe
\* its bytes, or as it was.
LEMMA SealStep ==
  ASSUME IInv, UNCHANGED build, Seal
  PROVE  IInv'
<1> USE Before
<1>1. Exclusive /\ Usable(buf) /\ UNCHANGED <<pc, size>> /\ key'.gen <= MaxGen /\ buf.openers = 0
  BY DEF Seal
<1>2. ~buf.sealCipher /\ ~buf.sealed /\ ~buf.flipped
  BY <1>1 DEF BufferInv, SealInv, Usable
<1>3. PICK m \in IF buf.readOnly \/ ClosedAtRest THEN mprotect(buf, "RW") ELSE Skip(buf) :
        IF ~m.ok THEN buf' = m.b /\ UNCHANGED key
        ELSE \E e \in sealEncrypt([m.b EXCEPT !.sealTagged = FALSE]) :
               IF ~e.ok THEN buf' \in reapplyReadOnly(e.b) /\ UNCHANGED key
               ELSE IF ~SealAuth THEN buf' \in sealProtect(e.b) /\ UNCHANGED key
               ELSE \E t \in sealAuthenticate(e.b, key) :
                      /\ buf' \in IF t.ok THEN sealProtect(t.b) ELSE rollbackSeal(t.b)
                      /\ key' = t.key
  BY <1>2 DEF Seal
<1>4. /\ m.b \in Shape /\ m.ok \in BOOLEAN /\ Same(buf, m.b) /\ (m.b.locked <=> buf.locked)
      /\ m.ok => m.b.prot = "RW"
      /\ ~m.ok => m.b = buf
  <2>1. CASE buf.readOnly \/ ClosedAtRest
    BY <1>3, <2>1, Mprotect DEF Prots
  <2>2. CASE ~(buf.readOnly \/ ClosedAtRest)
    <3>1. m.ok = TRUE /\ m.b = buf
      BY <1>3, <2>2 DEF Skip
    <3>2. buf.prot = "RW" /\ Same(buf, buf)
      BY <1>1, <2>2 DEF BufferInv, PageInv, Same
    <3>3. QED
      BY <3>1, <3>2
  <2>3. QED
    BY <2>1, <2>2
<1>5. /\ BufferInv(buf') /\ buf'.openers = 0
      /\ key' \in [gen : Nat, wiped : BOOLEAN] /\ buf'.sealGen <= key'.gen
  <2>1. CASE ~m.ok
    BY <1>1, <1>3, <1>4, <2>1
  <2>2. CASE m.ok
    <3> DEFINE y == [m.b EXCEPT !.sealTagged = FALSE]
    <3>1. PICK e \in sealEncrypt(y) :
            IF ~e.ok THEN buf' \in reapplyReadOnly(e.b) /\ UNCHANGED key
            ELSE IF ~SealAuth THEN buf' \in sealProtect(e.b) /\ UNCHANGED key
            ELSE \E t \in sealAuthenticate(e.b, key) :
                   /\ buf' \in IF t.ok THEN sealProtect(t.b) ELSE rollbackSeal(t.b)
                   /\ key' = t.key
      BY <1>3, <2>2
    <3>2. y \in Shape
      BY <1>4 DEF Shape
    <3>3. /\ y.sealTagged = FALSE /\ y.live = m.b.live /\ y.wiped = m.b.wiped /\ y.layers = m.b.layers
          /\ y.flipped = m.b.flipped /\ y.sealed = m.b.sealed /\ y.sealCipher = m.b.sealCipher
          /\ y.prot = m.b.prot /\ y.locked = m.b.locked /\ y.sealGen = m.b.sealGen /\ y.openers = m.b.openers
          /\ y.len = m.b.len /\ y.filled = m.b.filled
      BY <1>4 DEF Shape
    <3> HIDE DEF y
    <3>4. ~(Windows /\ ClosedAtRest) => y.locked
      BY <1>1, <1>4, <3>3 DEF BufferInv, PageInv, Shape
    <3>5. Sealing(y) /\ y.layers = 0 /\ ~y.sealCipher /\ y.sealGen = buf.sealGen
      BY <1>1, <1>2, <1>4, <2>2, <3>2, <3>3, <3>4 DEF Same, Sealing, BufferInv, SealInv, ZeroInv, Usable
    <3>6. e.b \in Shape /\ e.ok \in BOOLEAN /\ (e.b = y \/ (e.ok /\ Ciphered(y, e.b, 1, TRUE)))
      BY <3>1, <3>2, <3>5, Encrypt
    <3>7. Sealing(e.b) /\ e.b.sealGen = buf.sealGen /\ ~e.b.sealTagged
      BY <3>3, <3>5, <3>6 DEF Sealing, Ciphered, ZeroInv
    <3>8. CASE ~e.ok
      <4>1. buf' \in reapplyReadOnly(y) /\ UNCHANGED key
        BY <3>1, <3>6, <3>8
      <4>2. BufferInv(buf') /\ buf'.openers = 0 /\ buf'.sealGen = y.sealGen
        BY <3>5, <4>1, ReapplyFacts
      <4>3. QED
        BY <3>5, <4>1, <4>2
    <3>9. CASE e.ok /\ ~SealAuth
      <4>1. buf' \in sealProtect(e.b) /\ UNCHANGED key
        BY <3>1, <3>9
      <4>2. BufferInv(buf') /\ buf'.openers = 0 /\ buf'.sealGen = e.b.sealGen
        BY <3>7, <4>1, ProtectFacts
      <4>3. QED
        BY <3>7, <4>1, <4>2
    <3>10. CASE e.ok /\ SealAuth
      <4>1. PICK t \in sealAuthenticate(e.b, key) :
              /\ buf' \in IF t.ok THEN sealProtect(t.b) ELSE rollbackSeal(t.b)
              /\ key' = t.key
        BY <3>1, <3>10
      <4>2. /\ t.b \in Shape /\ t.ok \in BOOLEAN
            /\ t.key \in [gen : Nat, wiped : BOOLEAN] /\ t.key.gen >= key.gen
            /\ t.ok => Tagged(e.b, t.b, t.key.gen)
            /\ ~t.ok => Untagged(e.b, t.b)
        BY <3>6, Authenticate
      <4>3. Sealing(t.b)
        BY <3>7, <4>2 DEF Sealing, Tagged, Untagged, ZeroInv
      <4>4. t.b.sealGen <= t.key.gen
        <5>1. CASE t.ok
          BY <4>2, <5>1 DEF Tagged
        <5>2. CASE ~t.ok
          <6>1. t.b.sealGen = buf.sealGen /\ buf.sealGen \in Nat
            BY <3>7, <4>2, <5>2 DEF Untagged, Shape
          <6>2. QED
            BY <4>2, <6>1
        <5>3. QED
          BY <4>2, <5>1, <5>2
      <4>5. BufferInv(buf') /\ buf'.openers = 0 /\ buf'.sealGen = t.b.sealGen
        BY <4>1, <4>2, <4>3, ProtectFacts, RollbackFacts
      <4>6. QED
        BY <4>1, <4>2, <4>4, <4>5
    <3>11. QED
      BY <3>6, <3>8, <3>9, <3>10
  <2>3. QED
    BY <1>4, <2>1, <2>2
<1>6. QED
  BY <1>1, <1>5, Alone

\* Unseal: whichever of its calls fails, the buffer stays sealed with flags that
\* describe its bytes, or is revealed.
LEMMA UnsealStep ==
  ASSUME IInv, UNCHANGED build, Unseal
  PROVE  IInv'
<1> USE Before
<1>1. Exclusive /\ UNCHANGED <<pc, size>> /\ key'.gen <= MaxGen /\ buf.openers = 0
  BY DEF Unseal
<1>2. Dormant(buf)
  BY <1>1 DEF Unseal, Dormant, BufferInv, SealInv, PageInv
<1>3. PICK m \in mprotect(buf, "RW") :
        IF ~m.ok THEN buf' = m.b /\ UNCHANGED key
        ELSE \E l \in relock(m.b) :
               IF ~l.ok THEN buf' \in StaySealed(l.b) /\ UNCHANGED key
               ELSE \E v \in IF buf.sealTagged THEN sealVerify(l.b, key)
                             ELSE {[err |-> "nil", key |-> key]} :
                      IF v.err # "nil" THEN buf' \in StaySealed(l.b) /\ key' = v.key
                      ELSE \E r \in Reveal(l.b, v.key) : buf' = r.b /\ key' = r.key
  BY DEF Unseal
<1>4. /\ m.b \in Shape /\ m.ok \in BOOLEAN /\ Same(buf, m.b)
      /\ m.ok => m.b.prot = "RW"
      /\ ~m.ok => m.b = buf
  BY <1>3, Mprotect DEF Prots
<1>5. Dormant(m.b) /\ m.b.sealGen = buf.sealGen
  BY <1>2, <1>3, ProtectDormant DEF Prots
<1>6. /\ BufferInv(buf') /\ buf'.openers = 0
      /\ key' \in [gen : Nat, wiped : BOOLEAN] /\ buf'.sealGen <= key'.gen
  <2>1. CASE ~m.ok
    BY <1>1, <1>3, <1>4, <2>1
  <2>2. CASE m.ok
    <3>1. PICK l \in relock(m.b) :
            IF ~l.ok THEN buf' \in StaySealed(l.b) /\ UNCHANGED key
            ELSE \E v \in IF buf.sealTagged THEN sealVerify(l.b, key)
                          ELSE {[err |-> "nil", key |-> key]} :
                   IF v.err # "nil" THEN buf' \in StaySealed(l.b) /\ key' = v.key
                   ELSE \E r \in Reveal(l.b, v.key) : buf' = r.b /\ key' = r.key
      BY <1>3, <2>2
    <3>2. /\ l.b \in Shape /\ l.ok \in BOOLEAN /\ Same(m.b, l.b) /\ l.b.prot = "RW"
          /\ l.ok => (Windows => l.b.locked) /\ (~Windows => l.b = m.b)
          /\ ~l.ok => l.b = m.b /\ Windows
      BY <1>4, <2>2, <3>1, Relock
    <3>3. Dormant(l.b) /\ l.b.sealGen = buf.sealGen /\ (l.ok => l.b.locked)
      BY <1>5, <3>2 DEF Dormant, Same, ZeroInv
    <3>4. \A c \in StaySealed(l.b) : BufferInv(c) /\ c.openers = 0 /\ c.sealGen = buf.sealGen
      BY <3>3, StaySealedFacts
    <3>5. buf.sealGen \in Nat
      BY DEF Shape
    <3>6. CASE ~l.ok
      BY <3>1, <3>4, <3>6
    <3>7. CASE l.ok
      <4>1. PICK v \in IF buf.sealTagged THEN sealVerify(l.b, key)
                       ELSE {[err |-> "nil", key |-> key]} :
              IF v.err # "nil" THEN buf' \in StaySealed(l.b) /\ key' = v.key
              ELSE \E r \in Reveal(l.b, v.key) : buf' = r.b /\ key' = r.key
        BY <3>1, <3>7
      <4>2. /\ v.key \in [gen : Nat, wiped : BOOLEAN] /\ v.key.gen >= key.gen
            /\ v.err = "nil" => ~l.b.flipped
        <5>1. CASE buf.sealTagged
          BY <3>2, <4>1, <5>1, Verify
        <5>2. CASE ~buf.sealTagged
          <6>1. v.key = key /\ key.gen >= key.gen
            BY <4>1, <5>2
          <6>2. ~l.b.flipped
            BY <1>2, <1>4, <3>2, <5>2 DEF Dormant, Same
          <6>3. QED
            BY <6>1, <6>2
        <5>3. QED
          BY <5>1, <5>2
      <4>3. buf.sealGen <= v.key.gen
        BY <3>5, <4>2
      <4>4. CASE v.err # "nil"
        BY <3>4, <4>1, <4>2, <4>3, <4>4
      <4>5. CASE v.err = "nil"
        <5>1. PICK r \in Reveal(l.b, v.key) : buf' = r.b /\ key' = r.key
          BY <4>1, <4>5
        <5>2. QED
          BY <3>2, <3>3, <3>7, <4>2, <4>3, <4>5, <5>1, RevealFacts
      <4>6. QED
        BY <4>4, <4>5
    <3>8. QED
      BY <3>2, <3>6, <3>7
  <2>3. QED
    BY <1>4, <2>1, <2>2
<1>7. QED
  BY <1>1, <1>6, Alone

\* The emergency wipe of the buffer and of the keyring, Destroy, and a bit that flips.
LEMMA WipeStep ==
  ASSUME IInv, UNCHANGED build
  PROVE  EmergencyWipe \/ EmergencyWipeKeyring \/ Destroy \/ Flip => IInv'
<1> USE Before
<1>0. 0 \in 0 .. Size /\ 0 \in Nat
  BY BufferAssumption
<1>1. ASSUME EmergencyWipe PROVE IInv'
  <2>1. Exclusive /\ buf.live /\ UNCHANGED <<key, pc, size>> /\ buf.openers = 0
    BY <1>1 DEF EmergencyWipe
  <2>2. PICK m \in mprotect(buf, "RW") : buf' = IF m.ok THEN Wipe(m.b) ELSE m.b
    BY <1>1 DEF EmergencyWipe
  <2>3. /\ m.b \in Shape /\ m.ok \in BOOLEAN /\ Same(buf, m.b) /\ (m.b.locked <=> buf.locked)
        /\ ~m.ok => m.b = buf
    BY <2>2, Mprotect DEF Prots
  <2>4. BufferInv(buf') /\ buf'.openers = 0 /\ buf'.sealGen = buf.sealGen
    <3>1. CASE ~m.ok
      BY <2>1, <2>2, <2>3, <3>1
    <3>2. CASE m.ok
      <4>1. buf' = [m.b EXCEPT !.layers = 0, !.flipped = FALSE, !.sealCipher = FALSE, !.filled = 0,
                               !.wiped = TRUE]
        BY <2>2, <3>2 DEF Wipe
      <4>2. buf' \in Shape
        BY <1>0, <2>3, <4>1, ZenonT(40) DEF Shape
      <4>3. /\ buf'.live = m.b.live /\ buf'.wiped = TRUE /\ buf'.layers = 0 /\ buf'.flipped = FALSE
            /\ buf'.sealed = m.b.sealed /\ buf'.sealCipher = FALSE
            /\ buf'.sealTagged = m.b.sealTagged /\ buf'.fresh = m.b.fresh /\ buf'.sealGen = m.b.sealGen
            /\ buf'.len = m.b.len /\ buf'.openers = m.b.openers /\ buf'.locked = m.b.locked
            /\ buf'.filled = 0
        BY <2>3, <4>1 DEF Shape
      <4>4. buf'.len \in Nat /\ buf'.openers = 0 /\ buf'.sealGen = buf.sealGen
        BY <2>1, <2>3, <4>2, <4>3, BufferAssumption DEF Same, Shape
      <4>5. SealInv(buf') /\ ZeroInv(buf')
        BY <2>3, <4>3, <4>4 DEF Same, BufferInv, SealInv, ZeroInv
      <4>6. PageInv(buf')
        BY <2>3, <4>3, <4>4 DEF BufferInv, PageInv, Usable
      <4>7. QED
        BY <4>2, <4>4, <4>5, <4>6 DEF BufferInv
    <3>3. QED
      BY <2>3, <3>1, <3>2
  <2>5. QED
    BY <2>1, <2>4, Alone
<1>2. ASSUME EmergencyWipeKeyring PROVE IInv'
  <2>1. key' = [key EXCEPT !.wiped = TRUE] /\ UNCHANGED <<buf, pc, size>>
    BY <1>2 DEF EmergencyWipeKeyring
  <2>2. key' \in [gen : Nat, wiped : BOOLEAN] /\ key'.gen = key.gen /\ Insiders' = Insiders
    BY <2>1 DEF Insiders
  <2>3. QED
    BY <2>1, <2>2, Assemble DEF IInv
<1>3. ASSUME Destroy PROVE IInv'
  <2>1. /\ Exclusive /\ buf.live /\ UNCHANGED <<pc, size>> /\ key'.gen <= MaxGen /\ buf.openers = 0
        /\ buf' = [buf EXCEPT !.live = FALSE, !.layers = 0, !.sealCipher = FALSE,
                              !.flipped = FALSE, !.len = 0, !.filled = 0]
    BY <1>3 DEF Destroy
  <2>2. buf' \in Shape
    BY <1>0, <2>1, ZenonT(40) DEF Shape
  <2>3. /\ buf'.live = FALSE /\ buf'.wiped = buf.wiped /\ buf'.layers = 0 /\ buf'.flipped = FALSE
        /\ buf'.sealed = buf.sealed /\ buf'.sealCipher = FALSE
        /\ buf'.sealTagged = buf.sealTagged /\ buf'.fresh = buf.fresh /\ buf'.sealGen = buf.sealGen
        /\ buf'.len = 0 /\ buf'.openers = buf.openers /\ buf'.locked = buf.locked
        /\ buf'.filled = 0
    BY <2>1 DEF Shape
  <2>4. BufferInv(buf')
    BY <2>1, <2>2, <2>3 DEF BufferInv, SealInv, PageInv, ZeroInv, Usable
  <2>5. key' \in [gen : Nat, wiped : BOOLEAN] /\ key'.gen >= key.gen
    <3>1. key' = key \/ \E v \in sealVerify(buf, key) : key' = v.key
      BY <1>3 DEF Destroy
    <3>2. key.gen >= key.gen
      OBVIOUS
    <3>3. QED
      BY <3>1, <3>2, Verify
  <2>6. buf'.sealGen <= key'.gen
    BY <2>3, <2>5 DEF Shape
  <2>7. QED
    BY <2>1, <2>3, <2>4, <2>5, <2>6, Alone
<1>4. ASSUME Flip PROVE IInv'
  <2>1. /\ buf.live /\ ~buf.wiped /\ buf.sealed /\ buf.sealTagged
        /\ buf' = [buf EXCEPT !.flipped = ~@] /\ UNCHANGED <<key, pc, size>>
    BY <1>4 DEF Flip
  <2>2. buf' \in Shape
    BY <2>1 DEF Shape
  <2>3. /\ buf'.live = buf.live /\ buf'.wiped = buf.wiped /\ buf'.layers = buf.layers
        /\ buf'.readOnly = buf.readOnly /\ buf'.sealed = buf.sealed /\ buf'.sealCipher = buf.sealCipher
        /\ buf'.sealTagged = buf.sealTagged /\ buf'.fresh = buf.fresh /\ buf'.sealGen = buf.sealGen
        /\ buf'.len = buf.len /\ buf'.openers = buf.openers /\ buf'.prot = buf.prot /\ buf'.locked = buf.locked
        /\ buf'.filled = buf.filled
    BY <2>1 DEF Shape
  <2>4. BufferInv(buf')
    BY <2>1, <2>2, <2>3 DEF BufferInv, SealInv, PageInv, ZeroInv, Usable
  <2>5. Insiders' = Insiders /\ \A p \in Procs : pc'[p] \in {"entered", "inside"} => Usable(buf')
    BY <2>1, <2>3 DEF Insiders, IInv, Usable
  <2>6. QED
    BY <2>1, <2>3, <2>4, <2>5, Assemble DEF IInv
<1>5. QED
  BY <1>1, <1>2, <1>3, <1>4

\* A buffer as NewBuffer leaves it satisfies the invariant.
LEMMA InitIInv ==
  ASSUME Init
  PROVE  IInv
<1> USE BufferAssumption
<1>1. build \in Builds /\ ClosedAtRest \in BOOLEAN /\ Windows \in BOOLEAN
  BY DEF Init, ClosedAtRest, Windows
<1>2. Cardinality(Procs) \in Nat
  BY FS_CardinalityType
<1>3. /\ buf.live = TRUE /\ buf.wiped = FALSE /\ buf.prot = (IF ClosedAtRest THEN "NONE" ELSE "RW")
      /\ buf.locked = (~(ClosedAtRest /\ Windows)) /\ buf.layers = 0 /\ buf.flipped = FALSE
      /\ buf.readOnly = FALSE /\ buf.sealed = FALSE /\ buf.sealCipher = FALSE /\ buf.sealTagged = FALSE
      /\ buf.fresh = FALSE /\ buf.sealGen = 0 /\ buf.openers = 0 /\ buf.len = Size /\ buf.filled = Size
  BY DEF Init
<1>4. buf \in Buffers /\ buf \in Shape
  BY <1>1, <1>2 DEF Init, Buffers, Shape, Prots
<1>5. key \in Keys /\ key.gen = 0
  BY DEF Init, Keys
<1>6. pc \in [Procs -> {"out", "entered", "inside", "reading"}] /\ size \in [Procs -> 0 .. Size]
      /\ \A p \in Procs : pc[p] = "out"
  BY DEF Init
<1>7. TypeOK
  BY <1>1, <1>4, <1>5, <1>6 DEF TypeOK
<1>8. BufferInv(buf)
  <2>1. SealInv(buf) /\ ZeroInv(buf)
    BY <1>3 DEF SealInv, ZeroInv
  <2>2. buf.locked <=> ~(ClosedAtRest /\ Windows)
    BY <1>3, Zenon
  <2>3. buf.prot = (IF ClosedAtRest THEN "NONE" ELSE "RW") /\ ~buf.readOnly /\ buf.openers = 0
    BY <1>3
  <2>4. PageInv(buf)
    BY <2>2, <2>3 DEF PageInv
  <2>5. QED
    BY <1>4, <2>1, <2>4 DEF BufferInv
<1>9. Insiders = {} /\ Cardinality({}) = 0
  BY <1>6, FS_EmptySet DEF Insiders
<1>10. QED
  BY <1>3, <1>5, <1>6, <1>7, <1>8, <1>9 DEF IInv

\* Every step keeps it.
LEMMA NextIInv ==
  ASSUME IInv, [Next]_vars
  PROVE  IInv'
<1>1. ASSUME UNCHANGED vars PROVE IInv'
  <2>1. UNCHANGED <<build, buf, key, pc, size>> /\ Insiders' = Insiders
    BY <1>1 DEF vars, Insiders
  <2>2. QED
    BY <2>1, Before, Assemble DEF IInv
<1>2. ASSUME Next PROVE IInv'
  <2>1. UNCHANGED build
    BY <1>2 DEF Next
  <2>2. ASSUME NEW p \in Procs, Borrower(p) PROVE IInv'
    BY <2>1, <2>2, BorrowStep, StoreStep DEF Borrower
  <2>3. QED
    BY <1>2, <2>1, <2>2, StoreStep, ShapeStep, SealStep, UnsealStep, WipeStep DEF Next
<1>3. QED
  BY <1>1, <1>2
-----------------------------------------------------------------------------
(* The theorems. *)

\* The inductive invariant holds throughout, and with it the types.
THEOREM Invariance == Spec => []IInv
<1>1. Init => IInv
  BY InitIInv
<1>2. IInv /\ [Next]_vars => IInv'
  BY NextIInv
<1>3. QED
  BY <1>1, <1>2, PTL DEF Spec

\* Whichever calls of open, Seal, Unseal or Truncate failed before, whoever is inside
\* a borrow (WithBytes and its kin) reads the secret itself: in accessible, locked
\* pages, deciphered as often as enciphered, unchanged, neither wiped nor destroyed.
THEOREM BorrowsAreGood == Spec => []BorrowersSeeTheSecret
<1>1. IInv => BorrowersSeeTheSecret
  <2> SUFFICES ASSUME IInv, NEW p \in Procs, pc[p] = "inside"
               PROVE  Usable(buf) /\ buf.prot # "NONE" /\ buf.locked /\ buf.layers = 0 /\ ~buf.flipped
    BY DEF BorrowersSeeTheSecret
  <2>1. Usable(buf) /\ BufferInv(buf)
    BY DEF IInv
  <2>2. ClosedAtRest => buf.openers > 0
    <3>1. p \in Insiders /\ IsFiniteSet(Insiders) /\ Cardinality(Insiders) \in Nat
      BY Before DEF Insiders
    <3>2. Cardinality(Insiders) # 0
      BY <3>1, FS_EmptySet
    <3>3. QED
      BY <3>1, <3>2 DEF IInv
  <2>3. QED
    BY <2>1, <2>2 DEF BufferInv, SealInv, PageInv, Usable
<1>2. QED
  BY <1>1, Invariance, PTL

\* The cipher flag, the seal and the tag say what is true of the bytes, whichever
\* steps of Seal, rollbackSeal, Unseal and its way back failed.
THEOREM SealIsTrue == Spec => []SealDescribesTheBytes
<1>1. IInv => SealDescribesTheBytes
  <2> SUFFICES ASSUME IInv PROVE SealDescribesTheBytes
    OBVIOUS
  <2>1. buf \in Shape /\ key \in [gen : Nat, wiped : BOOLEAN] /\ SealInv(buf)
    BY BufferAssumption DEF IInv, BufferInv, TypeOK, Keys
  <2>2. ASSUME buf.fresh, NEW v \in sealVerify(buf, key), v.err = "ErrIntegrity" PROVE buf.flipped
    BY <2>1, <2>2, Verify
  <2>3. QED
    BY <2>1, <2>2 DEF SealInv, SealDescribesTheBytes
<1>2. QED
  BY <1>1, Invariance, PTL

\* The pages' protection is the one that the checks at the top of every method
\* suppose, and the count of openers is the number of borrows under way.
THEOREM ProtectionFits == Spec => []ProtectionMatchesState
<1>1. IInv => ProtectionMatchesState
  BY DEF IInv, BufferInv, PageInv, ProtectionMatchesState, Insiders
<1>2. QED
  BY <1>1, Invariance, PTL

\* What Truncate cut off and what the emergency wipe cleared stays zero, also under a
\* ReadFrom that had noted its length before.
THEOREM TailStaysZero == Spec => []TailIsZero
<1>1. IInv => TailIsZero
  BY DEF IInv, BufferInv, ZeroInv, TailIsZero
<1>2. QED
  BY <1>1, Invariance, PTL
=============================================================================
