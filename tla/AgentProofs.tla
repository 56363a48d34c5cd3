---------------------------- MODULE AgentProofs -----------------------------
(***************************************************************************)
(* Proofs about the hardened ssh-agent, for any number of connections,     *)
(* keys and buffers: whenever nobody is inside the keyring's lock, every   *)
(* buffer that exists belongs to one sealed key or to the agent's lock,    *)
(* and Sign unseals a key only within the lifetime in force for it.        *)
(***************************************************************************)
EXTENDS Agent, FiniteSetTheorems, TLAPS

HasBuf == {"add", "lock", "unlock"}

\* Something of the agent's refers to buffer b.
Used(b) ==
  \/ \E k \in Blobs : keys[k] # None /\ keys[k].buf = b
  \/ lockCheck # None /\ lockCheck.buf = b
  \/ call.op \in HasBuf /\ call.buf = b

\* Every buffer has one owner: a key, the lock or the call under way.
OwnerInv ==
  /\ \A k, l \in Blobs :
       keys[k] # None /\ keys[l] # None /\ keys[k].buf = keys[l].buf => k = l
  /\ \A k \in Blobs : keys[k] # None =>
       /\ lockCheck # None => lockCheck.buf # keys[k].buf
       /\ call.op \in HasBuf => call.buf # keys[k].buf
  /\ lockCheck # None /\ call.op \in HasBuf => lockCheck.buf # call.buf
  /\ \A b \in Bufs : buffer[b] # "none" <=> Used(b)

\* A key is sealed, or wiped, unless Sign has it open.
SealInv ==
  \A k \in Blobs : keys[k] # None =>
    buffer[keys[k].buf] \in {"sealed", "wiped"} \/ (call.op \in {"sign", "signed"} /\ call.blob = k)

\* What the method under way found when it entered still holds.
CallInv ==
  /\ call.op \in {"sign", "signed"} => keys[call.blob] # None
  /\ call.op = "lock" => lockCheck = None
  /\ call.op = "unlock" => lockCheck # None

KeyInv == KeyringTypeOK /\ OwnerInv /\ SealInv /\ CallInv

\* Lifetimes only, none of them zero.
Supported(cs) ==
  /\ cs \in Seq(Constraints)
  /\ \A i \in DOMAIN cs : cs[i].kind = "lifetime" /\ cs[i].secs > 0

\* A key's deadline is the last that its add was granted, and that of an add under way
\* will be.
GrantInv ==
  /\ \A k \in Blobs : keys[k] # None =>
       /\ keys[k].expiresAt = IF until[k] = <<>> THEN None ELSE until[k][Len(until[k])]
       /\ \A i \in DOMAIN until[k] : until[k][i] # 0
  /\ call.op = "add" =>
       /\ Supported(asked)
       /\ call.life = IF asked = <<>> THEN None ELSE asked[Len(asked)].secs

\* Slots cover the connections; whoever is inside the lock has a request.
ServerInv ==
  /\ mu # None => phase[mu] = "request"
  /\ \A c \in inMemory : phase[c] \in {"reading", "request"}
  /\ Cardinality(Active) + (IF loop = "accept" THEN 1 ELSE 0) <= slots

IInv == TypeOK /\ OwnerInv /\ SealInv /\ CallInv /\ GrantInv /\ ServerInv
-----------------------------------------------------------------------------
(* The keyring. *)

\* What the types say of keys, the lock and the call under way.
LEMMA Shapes ==
  ASSUME KeyringTypeOK
  PROVE  /\ call.op \in {"none", "add", "sign", "signed", "lock", "unlock"}
         /\ (call.op = "none") <=> (mu = None)
         /\ call.op = "add" => call.buf \in Bufs /\ call.blob \in Blobs /\ call.life \in Lifetimes \cup {None}
         /\ call.op \in {"sign", "signed"} => call.blob \in Blobs
         /\ call.op \in {"lock", "unlock"} => call.buf \in Bufs /\ call.pass \in Passphrases
         /\ call.op \in HasBuf => call.buf \in Bufs
         /\ \A k \in Blobs : keys[k] # None =>
              keys[k] \in Records /\ keys[k].buf \in Bufs /\ keys[k].expiresAt \in Deadlines \cup {None}
         /\ lockCheck # None => lockCheck \in Checks /\ lockCheck.buf \in Bufs
         /\ NoCall.op = "none" /\ NoCall \in Calls
<1>1. NoCall.op = "none" /\ NoCall \in Calls
  BY DEF NoCall, Calls
<1>2. \/ call = NoCall
      \/ call \in [op : {"add"}, buf : Bufs, blob : Blobs, life : Lifetimes \cup {None}]
      \/ call \in [op : {"sign", "signed"}, blob : Blobs]
      \/ call \in [op : {"lock", "unlock"}, buf : Bufs, pass : Passphrases]
  BY DEF KeyringTypeOK, Calls
<1>3. /\ call.op \in {"none", "add", "sign", "signed", "lock", "unlock"}
      /\ (call.op = "none") <=> (call = NoCall)
      /\ call.op = "add" => call.buf \in Bufs /\ call.blob \in Blobs /\ call.life \in Lifetimes \cup {None}
      /\ call.op \in {"sign", "signed"} => call.blob \in Blobs
      /\ call.op \in {"lock", "unlock"} => call.buf \in Bufs /\ call.pass \in Passphrases
  BY <1>1, <1>2
<1>4. \A k \in Blobs : keys[k] # None =>
        keys[k] \in Records /\ keys[k].buf \in Bufs /\ keys[k].expiresAt \in Deadlines \cup {None}
  BY DEF KeyringTypeOK, Records
<1>5. lockCheck # None => lockCheck \in Checks /\ lockCheck.buf \in Bufs
  BY DEF KeyringTypeOK, Checks
<1>6. QED
  BY <1>1, <1>3, <1>4, <1>5 DEF KeyringTypeOK, HasBuf

\* Keys are taken out and their buffers destroyed, with nobody inside: by the sweep
\* of expired keys, by Remove, by DestroyAll (which drops the lock too).
LEMMA Drop ==
  ASSUME KeyInv, NEW gone \in SUBSET Blobs, mu = None, UNCHANGED <<mu, call>>,
         gone \subseteq Held(keys),
         keys' = Without(keys, gone),
         \/ /\ lockCheck' = lockCheck
            /\ buffer' = Destroy({keys[k].buf : k \in gone})
         \/ /\ lockCheck' = None
            /\ buffer' = Destroy({keys[k].buf : k \in gone}
                                   \cup IF lockCheck = None THEN {} ELSE {lockCheck.buf}),
         destroyed' \in BOOLEAN, wall' \in 0 .. MaxTime, timers' \subseteq Ticks
  PROVE  KeyInv'
<1> USE Shapes DEF KeyInv
<1>0. call.op = "none" /\ call'.op = "none"
  OBVIOUS
<1>1. \A k \in Blobs : keys'[k] = IF k \in gone THEN None ELSE keys[k]
  BY DEF Without
<1>2. keys' \in [Blobs -> Records \cup {None}]
  BY DEF Without, KeyringTypeOK
<1>3. \A k \in gone : keys[k] # None
  BY DEF Held
<1> DEFINE lost == {keys[k].buf : k \in gone}
                     \cup (IF lockCheck' # lockCheck /\ lockCheck # None THEN {lockCheck.buf} ELSE {})
<1>4. \A b \in Bufs : buffer'[b] = IF b \in lost THEN "none" ELSE buffer[b]
  BY DEF Destroy
<1>5. buffer' \in [Bufs -> {"none", "open", "sealed", "wiped"}]
  BY DEF Destroy, KeyringTypeOK
<1>6. lockCheck' \in Checks \cup {None} /\ (lockCheck' # None => lockCheck' = lockCheck)
  BY DEF KeyringTypeOK
<1>7. KeyringTypeOK'
  BY <1>2, <1>5, <1>6 DEF KeyringTypeOK
<1>8. \A b \in Bufs : Used(b)' <=> (Used(b) /\ b \notin lost)
  <2> TAKE b \in Bufs
  <2>1. Used(b)' <=> \/ \E k \in Blobs \ gone : keys[k] # None /\ keys[k].buf = b
                     \/ lockCheck' # None /\ lockCheck'.buf = b
    BY <1>0, <1>1 DEF Used, HasBuf
  <2>2. Used(b) <=> \/ \E k \in Blobs : keys[k] # None /\ keys[k].buf = b
                    \/ lockCheck # None /\ lockCheck.buf = b
    BY <1>0 DEF Used, HasBuf
  <2>3. ASSUME NEW k \in Blobs, keys[k] # None, keys[k].buf = b
        PROVE  b \in lost <=> k \in gone
    BY <1>3, <2>3 DEF OwnerInv
  <2>4. ASSUME lockCheck # None, lockCheck.buf = b
        PROVE  b \in lost <=> lockCheck' # lockCheck
    BY <1>3, <2>4 DEF OwnerInv
  <2>5. QED
    BY <1>3, <1>6, <2>1, <2>2, <2>3, <2>4
<1>9. OwnerInv'
  <2>1. \A b \in Bufs : buffer'[b] # "none" <=> Used(b)'
    BY <1>4, <1>8 DEF OwnerInv
  <2>2. QED
    BY <1>0, <1>1, <1>6, <2>1 DEF OwnerInv, HasBuf
<1>10. SealInv'
  <2> SUFFICES ASSUME NEW k \in Blobs, keys'[k] # None
               PROVE  buffer'[keys'[k].buf] \in {"sealed", "wiped"}
    BY DEF SealInv
  <2>1. keys'[k] = keys[k] /\ k \notin gone /\ keys[k].buf \in Bufs
    BY <1>1
  <2>2. keys[k].buf \notin lost
    BY <1>3, <2>1 DEF OwnerInv
  <2>3. QED
    BY <1>0, <1>4, <2>1, <2>2 DEF SealInv
<1>11. QED
  BY <1>0, <1>7, <1>9, <1>10 DEF CallInv

\* The sweep, Remove and DestroyAll.
LEMMA DropStep ==
  ASSUME KeyInv
  PROVE  /\ List \/ SignRefused \/ expire \/ DestroyAll => KeyInv'
         /\ \A gone : Remove(gone) => KeyInv'
<1> USE Shapes DEF KeyInv
<1>0. destroyed \in BOOLEAN /\ wall \in 0 .. MaxTime /\ timers \subseteq Ticks /\ DOMAIN keys = Blobs
  BY DEF KeyringTypeOK
<1>1. Expired \in SUBSET Blobs /\ Expired \subseteq Held(keys)
  BY <1>0 DEF Expired, Held
<1>2. ASSUME List \/ SignRefused \/ expire PROVE KeyInv'
  <2>1. mu = None /\ UNCHANGED <<mu, call, destroyed, lockCheck, wall>> /\ expireLocked /\ timers' \subseteq Ticks
    BY <1>0, <1>2 DEF List, SignRefused, expire, clock
  <2>2. QED
    BY <1>0, <1>1, <2>1, Drop DEF expireLocked
<1>3. ASSUME DestroyAll PROVE KeyInv'
  <2>1. Held(keys) \in SUBSET Blobs /\ BufsOf(keys) = {keys[k].buf : k \in Held(keys)}
    BY <1>0 DEF Held, BufsOf
  <2>2. Without(keys, Blobs) = Without(keys, Held(keys))
    BY <1>0 DEF Without, Held
  <2>3. mu = None /\ UNCHANGED <<mu, call, wall, timers>> /\ destroyed' \in BOOLEAN
    BY <1>3 DEF DestroyAll, clock
  <2>4. QED
    BY <1>0, <1>3, <2>1, <2>2, <2>3, Drop DEF DestroyAll
<1>4. ASSUME NEW gone, Remove(gone) PROVE KeyInv'
  <2>1. gone \in SUBSET Blobs
    BY <1>0, <1>4 DEF Remove, Held
  <2>2. mu = None /\ UNCHANGED <<mu, call, destroyed, lockCheck, wall, timers>>
    BY <1>4 DEF Remove, clock
  <2>3. QED
    BY <1>0, <1>4, <2>1, <2>2, Drop DEF Remove
<1>5. QED
  BY <1>2, <1>3, <1>4

\* A method that makes a buffer of its own: buildRecord, the derivations.
LEMMA BeginStep ==
  ASSUME KeyInv
  PROVE  /\ \A c \in Callers, k \in Blobs, life \in Lifetimes \cup {None} : AddBegin(c, k, life) => KeyInv'
         /\ \A c \in Callers, op \in {"lock", "unlock"}, pass \in Passphrases :
              DeriveBegin(c, op, pass) => KeyInv'
<1> USE Shapes DEF KeyInv
<1>1. ASSUME NEW c \in Callers, NewEmptyBuffer, mu = None, mu' = c, call' \in Calls, call'.op \in HasBuf,
             call'.buf = FreshBuf, UNCHANGED <<ring, clock>>, CallInv'
      PROVE  KeyInv'
  <2>0. UNCHANGED <<keys, destroyed, lockCheck, wall, timers>> /\ call.op = "none"
    BY <1>1 DEF ring, clock
  <2>1. FreshBuf \in Bufs /\ buffer[FreshBuf] = "none"
    BY <1>1 DEF NewEmptyBuffer, FreshBuf
  <2> DEFINE f == FreshBuf
  <2>2. buffer' = [buffer EXCEPT ![f] = "open"] /\ f \in Bufs /\ buffer[f] = "none" /\ call'.buf = f
    BY <1>1, <2>1 DEF NewEmptyBuffer
  <2> HIDE DEF f
  <2>3. call' # NoCall /\ mu' # None
    BY <1>1, KeyringAssumption DEF NoCall, HasBuf
  <2>4. KeyringTypeOK'
    BY <1>1, <2>0, <2>2, <2>3 DEF KeyringTypeOK
  <2>5. ~Used(f)
    BY <2>2 DEF OwnerInv
  <2>6. \A b \in Bufs : Used(b)' <=> Used(b) \/ b = f
    BY <1>1, <2>0, <2>2 DEF Used, HasBuf
  <2>7. \A b \in Bufs : buffer'[b] = IF b = f THEN "open" ELSE buffer[b]
    BY <2>2 DEF KeyringTypeOK
  <2>8. OwnerInv'
    BY <1>1, <2>0, <2>2, <2>5, <2>6, <2>7 DEF OwnerInv, Used
  <2>9. SealInv'
    BY <2>0, <2>2, <2>5, <2>7 DEF SealInv, Used
  <2>10. QED
    BY <1>1, <2>4, <2>8, <2>9
<1>2. ASSUME NEW c \in Callers, NEW k \in Blobs, NEW life \in Lifetimes \cup {None}, AddBegin(c, k, life)
      PROVE  KeyInv'
  <2>0. FreshBuf \in Bufs
    BY <1>2 DEF AddBegin, NewEmptyBuffer, FreshBuf
  <2>1. call' = [op |-> "add", buf |-> FreshBuf, blob |-> k, life |-> life]
    BY <1>2 DEF AddBegin, Enter
  <2>2. call' \in Calls /\ call'.op = "add" /\ call'.buf = FreshBuf
    BY <2>0, <2>1 DEF Calls
  <2>3. QED
    BY <1>1, <1>2, <2>2 DEF AddBegin, Enter, CallInv, HasBuf
<1>3. ASSUME NEW c \in Callers, NEW op \in {"lock", "unlock"}, NEW pass \in Passphrases, DeriveBegin(c, op, pass)
      PROVE  KeyInv'
  <2>0. FreshBuf \in Bufs
    BY <1>3 DEF DeriveBegin, NewEmptyBuffer, FreshBuf
  <2>1. call' = [op |-> op, buf |-> FreshBuf, pass |-> pass]
    BY <1>3 DEF DeriveBegin, Enter
  <2>2. call' \in Calls /\ call'.op = op /\ call'.buf = FreshBuf
    BY <2>0, <2>1 DEF Calls
  <2>3. CallInv'
    BY <1>3, <2>2 DEF DeriveBegin, CallInv, ring
  <2>4. QED
    BY <1>1, <1>3, <2>2, <2>3 DEF DeriveBegin, Enter, HasBuf
<1>4. QED
  BY <1>2, <1>3

\* A method that fails destroys the buffer it made.
LEMMA FailStep ==
  ASSUME KeyInv, NEW c \in Callers
  PROVE  AddFails(c) \/ DeriveFails(c) => KeyInv'
<1> USE Shapes DEF KeyInv
<1> SUFFICES ASSUME AddFails(c) \/ DeriveFails(c) PROVE KeyInv'
  OBVIOUS
<1>1. /\ call.op \in HasBuf /\ buffer' = Destroy({call.buf}) /\ mu' = None /\ call' = NoCall
      /\ UNCHANGED <<keys, destroyed, lockCheck, wall, timers>>
  BY DEF AddFails, DeriveFails, Leave, ring, clock, HasBuf
<1>2. call'.op = "none" /\ call' \in Calls
  BY <1>1
<1>3. \A b \in Bufs : buffer'[b] = IF b = call.buf THEN "none" ELSE buffer[b]
  BY <1>1 DEF Destroy
<1>4. buffer' \in [Bufs -> {"none", "open", "sealed", "wiped"}]
  BY <1>1 DEF Destroy, KeyringTypeOK
<1>5. KeyringTypeOK'
  BY <1>1, <1>2, <1>4 DEF KeyringTypeOK
<1>6. \A b \in Bufs : Used(b)' <=> Used(b) /\ b # call.buf
  BY <1>1, <1>2 DEF Used, HasBuf, OwnerInv
<1>7. OwnerInv'
  BY <1>1, <1>2, <1>3, <1>6 DEF OwnerInv, HasBuf
<1>8. SealInv'
  BY <1>1, <1>3 DEF SealInv, OwnerInv, HasBuf
<1>9. QED
  BY <1>2, <1>5, <1>7, <1>8 DEF CallInv

\* finishRecord: the key is sealed, and the one it replaces destroyed.
LEMMA AddEndStep ==
  ASSUME KeyInv, NEW c \in Callers, AddEnd(c)
  PROVE  KeyInv'
<1> USE Shapes DEF KeyInv
<1>0. call.op = "add" /\ call.buf \in Bufs /\ call.blob \in Blobs /\ call.life \in Lifetimes \cup {None}
  BY DEF AddEnd
<1> DEFINE old(b) == keys[call.blob] # None /\ b = keys[call.blob].buf
           new == [buf |-> call.buf, expiresAt |-> IF call.life = None THEN None ELSE wall + call.life]
<1>1. /\ mu' = None /\ call' = NoCall /\ call'.op = "none" /\ call' \in Calls
      /\ UNCHANGED <<destroyed, lockCheck, wall>>
  BY DEF AddEnd, Leave
<1>2. \A b \in Bufs : buffer'[b] = IF b = call.buf THEN "sealed" ELSE IF old(b) THEN "none" ELSE buffer[b]
  BY DEF AddEnd
<1>3. buffer' \in [Bufs -> {"none", "open", "sealed", "wiped"}]
  BY DEF AddEnd, KeyringTypeOK
<1>4. new \in Records /\ new.buf = call.buf /\ new # None
  <2>1. (IF call.life = None THEN None ELSE wall + call.life) \in Deadlines \cup {None}
    BY <1>0, KeyringAssumption DEF KeyringTypeOK, Lifetimes, Deadlines
  <2>2. QED
    BY <1>0, <2>1, KeyringAssumption DEF Records
<1>5. keys' = [keys EXCEPT ![call.blob] = new]
  BY DEF AddEnd
<1> HIDE DEF new
<1>6. \A k \in Blobs : keys'[k] = IF k = call.blob THEN new ELSE keys[k]
  BY <1>0, <1>5 DEF KeyringTypeOK
<1>7. keys' \in [Blobs -> Records \cup {None}]
  BY <1>4, <1>5 DEF KeyringTypeOK
<1>8. timers' \subseteq Ticks
  <2>1. Lifetimes \subseteq Ticks
    BY KeyringAssumption DEF Lifetimes, Ticks
  <2>2. timers' = timers \cup ({call.life} \ {None}) /\ timers \subseteq Ticks
    BY DEF AddEnd, KeyringTypeOK
  <2>3. QED
    BY <1>0, <2>1, <2>2
<1>9. KeyringTypeOK'
  BY <1>1, <1>3, <1>7, <1>8 DEF KeyringTypeOK
<1>10. \A b \in Bufs : old(b) => b # call.buf
  BY <1>0 DEF OwnerInv, HasBuf
<1>11. \A k \in Blobs : k # call.blob /\ keys[k] # None => ~old(keys[k].buf) /\ keys[k].buf # call.buf
  BY <1>0 DEF OwnerInv, HasBuf
<1>12. \A b \in Bufs : Used(b)' <=> b = call.buf \/ (Used(b) /\ ~old(b))
  <2> TAKE b \in Bufs
  <2>1. Used(b)' <=> \/ \E k \in Blobs : keys'[k] # None /\ keys'[k].buf = b
                     \/ lockCheck # None /\ lockCheck.buf = b
    BY <1>1 DEF Used, HasBuf
  <2>2. Used(b) <=> \/ \E k \in Blobs : keys[k] # None /\ keys[k].buf = b
                    \/ lockCheck # None /\ lockCheck.buf = b
                    \/ call.buf = b
    BY <1>0 DEF Used, HasBuf
  <2>3. (\E k \in Blobs : keys'[k] # None /\ keys'[k].buf = b)
          <=> b = call.buf \/ \E k \in Blobs \ {call.blob} : keys[k] # None /\ keys[k].buf = b
    BY <1>0, <1>4, <1>6
  <2>4. (\E k \in Blobs \ {call.blob} : keys[k] # None /\ keys[k].buf = b)
          <=> (\E k \in Blobs : keys[k] # None /\ keys[k].buf = b) /\ ~old(b)
    BY <1>0, <1>11
  <2>5. lockCheck # None /\ lockCheck.buf = b => ~old(b)
    BY <1>0 DEF OwnerInv
  <2>6. QED
    BY <2>1, <2>2, <2>3, <2>4, <2>5
<1>13. OwnerInv'
  <2>1. \A b \in Bufs : buffer'[b] # "none" <=> Used(b)'
    BY <1>2, <1>10, <1>12 DEF OwnerInv
  <2>2. \A k, l \in Blobs : keys'[k] # None /\ keys'[l] # None /\ keys'[k].buf = keys'[l].buf => k = l
    BY <1>4, <1>6, <1>11 DEF OwnerInv
  <2>3. \A k \in Blobs : keys'[k] # None => (lockCheck # None => lockCheck.buf # keys'[k].buf)
    BY <1>0, <1>4, <1>6 DEF OwnerInv, HasBuf
  <2>4. QED
    BY <1>1, <2>1, <2>2, <2>3 DEF OwnerInv, HasBuf
<1>14. SealInv'
  BY <1>0, <1>1, <1>2, <1>4, <1>6, <1>11 DEF SealInv
<1>15. QED
  BY <1>1, <1>9, <1>13, <1>14 DEF CallInv

\* Sign: its sweep, the key it opens, and the Seal or destruction at the end.
LEMMA SignStep ==
  ASSUME KeyInv, NEW c \in Callers
  PROVE  /\ \A k \in Blobs : SignBegin(c, k) => KeyInv'
         /\ Sign(c) \/ SignEnd(c) => KeyInv'
<1> USE Shapes DEF KeyInv
<1>1. ASSUME NEW k \in Blobs, SignBegin(c, k) PROVE KeyInv'
  <2>0. /\ mu = None /\ call.op = "none" /\ k \in Held(keys) \ Expired /\ keys[k] # None
        /\ mu' = c /\ call' = [op |-> "sign", blob |-> k]
        /\ UNCHANGED <<destroyed, lockCheck, wall, timers>>
    BY <1>1 DEF SignBegin, Enter, clock, Held
  <2>1. call'.op = "sign" /\ call'.blob = k /\ call' \in Calls /\ call' # NoCall /\ mu' # None
    <3>1. call'.op = "sign" /\ call'.blob = k /\ call' \in Calls
      BY <2>0 DEF Calls
    <3>2. QED
      BY <2>0, <3>1, KeyringAssumption DEF NoCall
  <2>2. Expired \subseteq Blobs /\ \A l \in Expired : keys[l] # None
    BY DEF Expired, Held, KeyringTypeOK
  <2> DEFINE lost == {keys[l].buf : l \in Expired}
             f == keys[k].buf
  <2>3. f \in Bufs /\ f \notin lost
    BY <2>0, <2>2 DEF OwnerInv
  <2>4. buffer' = [Destroy(lost) EXCEPT ![f] = "open"]
    BY <1>1 DEF SignBegin
  <2>5. \A b \in Bufs : buffer'[b] = IF b = f THEN "open" ELSE IF b \in lost THEN "none" ELSE buffer[b]
    BY <2>3, <2>4 DEF Destroy
  <2>6. buffer' \in [Bufs -> {"none", "open", "sealed", "wiped"}]
    BY <2>3, <2>4 DEF Destroy, KeyringTypeOK
  <2>7. \A l \in Blobs : keys'[l] = IF l \in Expired THEN None ELSE keys[l]
    BY <1>1 DEF SignBegin, Without
  <2>8. keys' \in [Blobs -> Records \cup {None}]
    BY <1>1 DEF SignBegin, Without, KeyringTypeOK
  <2>9. KeyringTypeOK'
    BY <2>0, <2>1, <2>6, <2>8 DEF KeyringTypeOK
  <2>10. \A l \in Blobs : keys[l] # None => (keys[l].buf \in lost <=> l \in Expired) /\ (keys[l].buf = f <=> l = k)
    BY <2>0, <2>2 DEF OwnerInv
  <2>11. \A b \in Bufs : Used(b)' <=> Used(b) /\ b \notin lost
    <3> TAKE b \in Bufs
    <3>1. Used(b)' <=> \/ \E l \in Blobs : keys'[l] # None /\ keys'[l].buf = b
                       \/ lockCheck # None /\ lockCheck.buf = b
      BY <2>0, <2>1 DEF Used, HasBuf
    <3>2. Used(b) <=> \/ \E l \in Blobs : keys[l] # None /\ keys[l].buf = b
                      \/ lockCheck # None /\ lockCheck.buf = b
      BY <2>0 DEF Used, HasBuf
    <3>3. lockCheck # None /\ lockCheck.buf = b => b \notin lost
      BY <2>2 DEF OwnerInv
    <3>4. QED
      BY <2>7, <2>10, <3>1, <3>2, <3>3
  <2>12. Used(f)
    BY <2>0 DEF Used
  <2> HIDE DEF lost, f
  <2>13. OwnerInv'
    <3>1. \A b \in Bufs : buffer'[b] # "none" <=> Used(b)'
      BY <2>3, <2>5, <2>11, <2>12 DEF OwnerInv
    <3>2. QED
      BY <2>0, <2>1, <2>7, <3>1 DEF OwnerInv, HasBuf
  <2>14. SealInv'
    BY <2>0, <2>1, <2>5, <2>7, <2>10 DEF SealInv
  <2>15. CallInv'
    BY <2>0, <2>1, <2>7 DEF CallInv
  <2>16. QED
    BY <2>9, <2>13, <2>14, <2>15
<1>2. ASSUME SignEnd(c) PROVE KeyInv'
  <2> DEFINE k == call.blob
             f == keys[k].buf
  <2>0. /\ call.op \in {"sign", "signed"} /\ k \in Blobs /\ keys[k] # None /\ f \in Bufs
        /\ mu' = None /\ call' = NoCall /\ call'.op = "none" /\ call' \in Calls
        /\ UNCHANGED <<destroyed, lockCheck, wall, timers>>
    BY <1>2 DEF SignEnd, Leave, clock, CallInv
  <2>1. \A l \in Blobs : keys[l] # None => (keys[l].buf = f <=> l = k)
    BY <2>0 DEF OwnerInv
  <2>2. \/ buffer[f] = "open" /\ buffer' = [buffer EXCEPT ![f] = "sealed"] /\ UNCHANGED keys
        \/ buffer' = Destroy({f}) /\ keys' = Without(keys, {k})
    BY <1>2 DEF SignEnd
  <2>3. \A l \in Blobs : keys[l] # None /\ l # k => buffer[keys[l].buf] \in {"sealed", "wiped"}
    BY <2>0 DEF SealInv
  <2>4. lockCheck # None => lockCheck.buf # f
    BY <2>0 DEF OwnerInv
  <2> HIDE DEF k, f
  <2>5. CASE buffer[f] = "open" /\ buffer' = [buffer EXCEPT ![f] = "sealed"] /\ UNCHANGED keys
    <3>1. KeyringTypeOK'
      BY <2>0, <2>5 DEF KeyringTypeOK
    <3>2. \A b \in Bufs : buffer'[b] = IF b = f THEN "sealed" ELSE buffer[b]
      BY <2>0, <2>5 DEF KeyringTypeOK
    <3>3. \A b \in Bufs : Used(b)' <=> Used(b)
      BY <2>0, <2>5 DEF Used, HasBuf
    <3>4. OwnerInv'
      BY <2>0, <2>5, <3>2, <3>3 DEF OwnerInv, HasBuf
    <3>5. SealInv'
      BY <2>0, <2>1, <2>3, <2>5, <3>2 DEF SealInv
    <3>6. QED
      BY <2>0, <3>1, <3>4, <3>5 DEF CallInv
  <2>6. CASE buffer' = Destroy({f}) /\ keys' = Without(keys, {k})
    <3>1. \A b \in Bufs : buffer'[b] = IF b = f THEN "none" ELSE buffer[b]
      BY <2>6 DEF Destroy
    <3>2. \A l \in Blobs : keys'[l] = IF l = k THEN None ELSE keys[l]
      BY <2>6 DEF Without
    <3>3. KeyringTypeOK'
      BY <2>0, <2>6 DEF KeyringTypeOK, Destroy, Without
    <3>4. \A b \in Bufs : Used(b)' <=> Used(b) /\ b # f
      BY <2>0, <2>1, <2>4, <3>2 DEF Used, HasBuf
    <3>5. OwnerInv'
      BY <2>0, <3>1, <3>2, <3>4 DEF OwnerInv, HasBuf
    <3>6. SealInv'
      BY <2>0, <2>1, <2>3, <3>1, <3>2 DEF SealInv
    <3>7. QED
      BY <2>0, <3>3, <3>5, <3>6 DEF CallInv
  <2>7. QED
    BY <2>2, <2>5, <2>6
<1>3. ASSUME Sign(c) PROVE KeyInv'
  <2>1. /\ call.op = "sign" /\ call.blob \in Blobs /\ keys[call.blob] # None /\ mu # None
        /\ call' = [op |-> "signed", blob |-> call.blob]
        /\ UNCHANGED <<mu, keys, destroyed, lockCheck, buffer, wall, timers>>
    BY <1>3, KeyringAssumption DEF Sign, ring, clock, CallInv
  <2>2. call'.op = "signed" /\ call'.blob = call.blob /\ call' \in Calls
    BY <2>1 DEF Calls
  <2>3. call' # NoCall
    BY <2>2 DEF NoCall
  <2>4. KeyringTypeOK'
    BY <2>1, <2>2, <2>3 DEF KeyringTypeOK
  <2>5. \A b \in Bufs : Used(b)' <=> Used(b)
    BY <2>1, <2>2 DEF Used, HasBuf
  <2>6. OwnerInv'
    BY <2>1, <2>2, <2>5 DEF OwnerInv, HasBuf
  <2>7. SealInv' /\ CallInv'
    BY <2>1, <2>2 DEF SealInv, CallInv
  <2>8. QED
    BY <2>4, <2>6, <2>7
<1>4. QED
  BY <1>1, <1>2, <1>3

\* Lock keeps the buffer it derived; Unlock destroys both.
LEMMA LockStep ==
  ASSUME KeyInv, NEW c \in Callers
  PROVE  LockEnd(c) \/ UnlockEnd(c) => KeyInv'
<1> USE Shapes DEF KeyInv
<1>1. ASSUME LockEnd(c) PROVE KeyInv'
  <2>0. /\ call.op = "lock" /\ lockCheck = None /\ call.buf \in Bufs /\ call.pass \in Passphrases
        /\ mu' = None /\ call' = NoCall /\ call'.op = "none" /\ call' \in Calls
        /\ UNCHANGED <<keys, destroyed, buffer, wall, timers>>
        /\ lockCheck' = [buf |-> call.buf, pass |-> call.pass]
    BY <1>1 DEF LockEnd, Leave, clock, CallInv
  <2>1. lockCheck' \in Checks /\ lockCheck'.buf = call.buf
    BY <2>0 DEF Checks
  <2>2. lockCheck' # None
    BY <2>1, KeyringAssumption
  <2>3. KeyringTypeOK'
    BY <2>0, <2>1 DEF KeyringTypeOK
  <2>4. \A b \in Bufs : Used(b)' <=> Used(b)
    BY <2>0, <2>1, <2>2 DEF Used, HasBuf
  <2>5. OwnerInv'
    BY <2>0, <2>1, <2>4 DEF OwnerInv, HasBuf
  <2>6. QED
    BY <2>0, <2>3, <2>5 DEF SealInv, CallInv
<1>2. ASSUME UnlockEnd(c) PROVE KeyInv'
  <2>0. /\ call.op = "unlock" /\ lockCheck # None /\ call.buf \in Bufs /\ lockCheck.buf \in Bufs
        /\ mu' = None /\ call' = NoCall /\ call'.op = "none" /\ call' \in Calls
        /\ UNCHANGED <<keys, destroyed, wall, timers>>
        /\ lockCheck' = None /\ buffer' = Destroy({call.buf, lockCheck.buf})
    BY <1>2 DEF UnlockEnd, Leave, clock, CallInv
  <2>1. \A b \in Bufs : buffer'[b] = IF b \in {call.buf, lockCheck.buf} THEN "none" ELSE buffer[b]
    BY <2>0 DEF Destroy
  <2>2. KeyringTypeOK'
    BY <2>0 DEF KeyringTypeOK, Destroy
  <2>3. \A k \in Blobs : keys[k] # None => keys[k].buf \notin {call.buf, lockCheck.buf}
    BY <2>0 DEF OwnerInv, HasBuf
  <2>4. \A b \in Bufs : Used(b)' <=> Used(b) /\ b \notin {call.buf, lockCheck.buf}
    BY <2>0, <2>3 DEF Used, HasBuf
  <2>5. OwnerInv'
    BY <2>0, <2>1, <2>4 DEF OwnerInv, HasBuf
  <2>6. SealInv'
    BY <2>0, <2>1, <2>3 DEF SealInv
  <2>7. QED
    BY <2>0, <2>2, <2>5, <2>6 DEF CallInv
<1>3. QED
  BY <1>1, <1>2

\* The termination wipe takes no notice of the lock; the clocks run.
LEMMA OutsideStep ==
  ASSUME KeyInv
  PROVE  /\ \A b \in Bufs : WipeBuffer(b) => KeyInv'
         /\ Tick \/ Suspend => KeyInv'
         /\ UNCHANGED keyringVars => KeyInv'
<1> USE Shapes DEF KeyInv
<1>1. ASSUME NEW b \in Bufs, WipeBuffer(b) PROVE KeyInv'
  <2>0. /\ UNCHANGED <<mu, keys, destroyed, lockCheck, call, wall, timers>>
        /\ buffer[b] # "none" /\ buffer' = [buffer EXCEPT ![b] = "wiped"]
    BY <1>1 DEF WipeBuffer, ring, clock
  <2>1. \A d \in Bufs : buffer'[d] = IF d = b THEN "wiped" ELSE buffer[d]
    BY <2>0 DEF KeyringTypeOK
  <2>2. KeyringTypeOK'
    BY <2>0 DEF KeyringTypeOK
  <2>3. \A d \in Bufs : Used(d)' <=> Used(d)
    BY <2>0 DEF Used
  <2>4. OwnerInv'
    BY <2>0, <2>1, <2>3 DEF OwnerInv
  <2>5. QED
    BY <2>0, <2>1, <2>2, <2>4 DEF SealInv, CallInv
<1>2. ASSUME UNCHANGED <<mu, keys, destroyed, lockCheck, buffer, call>>, wall' \in 0 .. MaxTime, timers' \subseteq Ticks
      PROVE  KeyInv'
  <2>1. KeyringTypeOK'
    BY <1>2 DEF KeyringTypeOK
  <2>2. \A d \in Bufs : Used(d)' <=> Used(d)
    BY <1>2 DEF Used
  <2>3. QED
    BY <1>2, <2>1, <2>2 DEF OwnerInv, SealInv, CallInv
<1>3. ASSUME Tick \/ Suspend PROVE KeyInv'
  <2>1. UNCHANGED <<mu, keys, destroyed, lockCheck, buffer, call>>
    BY <1>3 DEF Tick, Suspend, ring
  <2>2. wall' \in 0 .. MaxTime
    BY <1>3, KeyringAssumption DEF Tick, Suspend, KeyringTypeOK
  <2>3. timers' \subseteq Ticks
    <3>1. \A n \in Ticks : (IF n = 0 THEN 0 ELSE n - 1) \in Ticks
      BY KeyringAssumption DEF Ticks
    <3>2. QED
      BY <1>3, <3>1 DEF Tick, Suspend, KeyringTypeOK
  <2>4. QED
    BY <1>2, <2>1, <2>2, <2>3
<1>4. ASSUME UNCHANGED keyringVars PROVE KeyInv'
  BY <1>2, <1>4 DEF keyringVars, ring, clock, KeyringTypeOK
<1>5. QED
  BY <1>1, <1>3, <1>4
-----------------------------------------------------------------------------
(* The deadlines. *)

\* Add alone gives a key a record; everyone else keeps it or takes it out.
Shrinks == \A k \in Blobs : keys'[k] # None => keys'[k] = keys[k]

\* A key that is kept keeps its deadline.
LEMMA Kept ==
  ASSUME GrantInv, Shrinks, UNCHANGED until,
         call'.op = "add" => call' = call /\ asked' = asked
  PROVE  GrantInv'
<1>1. \A k \in Blobs : keys'[k] # None =>
        /\ keys'[k].expiresAt = IF until'[k] = <<>> THEN None ELSE until'[k][Len(until'[k])]
        /\ \A i \in DOMAIN until'[k] : until'[k][i] # 0
  BY DEF GrantInv, Shrinks
<1>2. QED
  BY <1>1 DEF GrantInv

\* What parseConstraints lets through is lifetimes only, and the last one is in force.
LEMMA Lifetime ==
  ASSUME NEW m \in Requests, m.type = "add", parseConstraints(m)
  PROVE  /\ m.blob \in Blobs
         /\ Supported(m.constraints)
         /\ lifetime(m) = IF m.constraints = <<>> THEN None ELSE m.constraints[Len(m.constraints)].secs
         /\ lifetime(m) \in Lifetimes \cup {None}
<1> DEFINE cs == m.constraints
<1>1. m.blob \in Blobs /\ cs \in Seq(Constraints)
  <2>1. m \in Messages
    BY AgentAssumption
  <2>2. m \in [type : {"add"}, blob : Blobs, constrained : BOOLEAN, constraints : Seq(Constraints)]
    BY <2>1 DEF Messages
  <2>3. QED
    BY <2>2
<1>2. \A i \in DOMAIN cs : cs[i].kind = "lifetime" /\ cs[i].secs > 0
  BY DEF parseConstraints
<1> DEFINE given == {i \in DOMAIN cs : cs[i].kind = "lifetime"}
<1>3. lifetime(m) = IF given = {} THEN None ELSE cs[Max(given)].secs
  BY DEF lifetime
<1> HIDE DEF cs
<1>0. Supported(cs)
  BY <1>1, <1>2 DEF Supported
<1>4. given = 1 .. Len(cs) /\ Len(cs) \in Nat
  BY <1>1, <1>2
<1>5. CASE cs = <<>>
  <2>1. given = {}
    BY <1>4, <1>5
  <2>2. lifetime(m) = None
    BY <1>3, <2>1
  <2>3. QED
    BY <1>0, <1>1, <1>5, <2>2 DEF cs
<1>6. CASE cs # <<>>
  <2>1. Len(cs) \in given /\ given # {} /\ Len(cs) \in DOMAIN cs
    BY <1>1, <1>4, <1>6
  <2>2. Max(given) = Len(cs)
    <3>1. Len(cs) \in given /\ \A y \in given : Len(cs) >= y
      BY <1>4, <2>1
    <3>2. \A x \in given : (\A y \in given : x >= y) => x = Len(cs)
      BY <1>4, <2>1
    <3> HIDE DEF given
    <3>3. QED
      BY <3>1, <3>2 DEF Max
  <2>3. lifetime(m) = cs[Len(cs)].secs
    BY <1>3, <2>1, <2>2
  <2>4. cs[Len(cs)] \in Constraints
    BY <1>1, <2>1
  <2>5. cs[Len(cs)].secs \in Lifetimes
    <3>1. cs[Len(cs)].kind = "lifetime" /\ cs[Len(cs)].secs > 0
      BY <1>2, <2>1
    <3>2. cs[Len(cs)].secs \in 0 .. MaxLifetime
      BY <2>4, <3>1 DEF Constraints
    <3>3. QED
      BY <3>1, <3>2, KeyringAssumption DEF Lifetimes
  <2>6. QED
    BY <1>0, <1>1, <1>6, <2>3, <2>5 DEF cs
<1>7. QED
  BY <1>5, <1>6

\* A key gets the last of the deadlines that its add was granted.
LEMMA GrantStep ==
  ASSUME KeyInv, GrantInv, until \in [Blobs -> Seq(Deadlines)], NEW c \in Callers, AddEnd(c),
         until' = [until EXCEPT ![call.blob] = Granted(asked)]
  PROVE  GrantInv' /\ until' \in [Blobs -> Seq(Deadlines)]
<1> USE Shapes DEF KeyInv
<1>0. /\ call.op = "add" /\ call.buf \in Bufs /\ call.blob \in Blobs /\ call.life \in Lifetimes \cup {None}
      /\ call'.op = "none"
  BY DEF AddEnd, Leave
<1> DEFINE g == Granted(asked)
<1>1. /\ asked \in Seq(Constraints) /\ \A i \in DOMAIN asked : asked[i].kind = "lifetime" /\ asked[i].secs > 0
      /\ call.life = IF asked = <<>> THEN None ELSE asked[Len(asked)].secs
  BY <1>0 DEF GrantInv, Supported
<1>2. \A i \in 1 .. Len(asked) : asked[i].kind = "lifetime" /\ asked[i].secs \in 1 .. MaxLifetime
  <2> SUFFICES ASSUME NEW i \in 1 .. Len(asked) PROVE asked[i].kind = "lifetime" /\ asked[i].secs \in 1 .. MaxLifetime
    OBVIOUS
  <2>1. asked[i] \in Constraints /\ asked[i].kind = "lifetime" /\ asked[i].secs > 0
    BY <1>1
  <2>2. asked[i].secs \in 0 .. MaxLifetime
    BY <2>1 DEF Constraints
  <2>3. QED
    BY <2>1, <2>2, KeyringAssumption
<1>3. wall \in 0 .. MaxTime /\ MaxTime \in Nat /\ MaxLifetime \in Nat
  BY KeyringAssumption DEF KeyringTypeOK
<1>4. g = [i \in 1 .. Len(asked) |-> wall + asked[i].secs]
  BY <1>1, <1>2 DEF Granted
<1>5. \A i \in 1 .. Len(asked) : wall + asked[i].secs \in Deadlines /\ wall + asked[i].secs # 0
  BY <1>2, <1>3 DEF Deadlines
<1>6. g \in Seq(Deadlines) /\ Len(g) = Len(asked) /\ Len(asked) \in Nat
  BY <1>1, <1>4, <1>5
<1>7. \A i \in DOMAIN g : g[i] # 0
  BY <1>4, <1>5, <1>6
<1>8. (IF call.life = None THEN None ELSE wall + call.life) = IF g = <<>> THEN None ELSE g[Len(g)]
  <2>1. CASE asked = <<>>
    BY <1>1, <1>6, <2>1
  <2>2. CASE asked # <<>>
    <3>1. Len(asked) \in 1 .. Len(asked)
      BY <1>1, <2>2
    <3>2. g # <<>> /\ g[Len(g)] = wall + asked[Len(asked)].secs
      BY <1>4, <1>6, <3>1
    <3>3. call.life # None
      BY <1>1, <1>2, <2>2, <3>1, KeyringAssumption
    <3>4. QED
      BY <1>1, <2>2, <3>2, <3>3
  <2>3. QED
    BY <2>1, <2>2
<1> HIDE DEF g
<1>9. \A k \in Blobs : keys'[k] = IF k = call.blob
                                 THEN [buf |-> call.buf,
                                       expiresAt |-> IF call.life = None THEN None ELSE wall + call.life]
                                 ELSE keys[k]
  BY <1>0 DEF AddEnd, KeyringTypeOK
<1>10. \A k \in Blobs : until'[k] = IF k = call.blob THEN g ELSE until[k]
  BY <1>0 DEF g
<1>11. ASSUME NEW k \in Blobs, keys'[k] # None
       PROVE  /\ keys'[k].expiresAt = IF until'[k] = <<>> THEN None ELSE until'[k][Len(until'[k])]
              /\ \A i \in DOMAIN until'[k] : until'[k][i] # 0
  <2>1. CASE k = call.blob
    <3>1. keys'[k].expiresAt = IF call.life = None THEN None ELSE wall + call.life
      BY <1>9, <2>1
    <3>2. until'[k] = g
      BY <1>10, <2>1
    <3>3. QED
      BY <1>7, <1>8, <3>1, <3>2
  <2>2. CASE k # call.blob
    <3>1. keys'[k] = keys[k] /\ until'[k] = until[k]
      BY <1>9, <1>10, <2>2
    <3>2. QED
      BY <1>11, <3>1 DEF GrantInv
  <2>3. QED
    BY <2>1, <2>2
<1>12. until' \in [Blobs -> Seq(Deadlines)]
  BY <1>0, <1>6 DEF g
<1>13. QED
  BY <1>0, <1>11, <1>12 DEF GrantInv
-----------------------------------------------------------------------------
(* The server. *)

ServerTypeOK ==
  /\ phase \in [Conns -> {"absent", "socket", "reading", "request"}]
  /\ inMemory \subseteq Conns /\ closed \subseteq Conns
  /\ loop \in {"slot", "accept", "leaving", "waiting", "returned", "exited"}
  /\ slots \in 0 .. MaxConns
  /\ ctx \in BOOLEAN /\ listener \in {"watched", "open", "closed"}
  /\ signal \in {"none", "sent", "destroyed", "done"}

ServerOK == ServerTypeOK /\ ServerInv

\* Connections are finitely many, so the slots they hold can be counted against MaxConns.
LEMMA ActiveFinite ==
  ASSUME ServerTypeOK
  PROVE  IsFiniteSet(Active) /\ Cardinality(Active) \in Nat /\ slots \in Nat /\ slots <= MaxConns /\ MaxConns \in Nat
<1>1. Active \subseteq Callers
  BY DEF Active, Conns
<1>2. IsFiniteSet(Active)
  BY <1>1, FS_Subset, KeyringAssumption
<1>3. Cardinality(Active) \in Nat
  BY <1>2, FS_CardinalityType
<1>4. QED
  BY <1>2, <1>3, AgentAssumption DEF ServerTypeOK

\* The steps of serve, run and the signal's goroutine, which leave the connections.
LEMMA LoopStep ==
  ASSUME ServerOK, UNCHANGED <<phase, inMemory>>,
         mu' # None => phase[mu'] = "request",
         closed' \subseteq Conns, ctx' \in BOOLEAN, listener' \in {"watched", "open", "closed"},
         signal' \in {"none", "sent", "destroyed", "done"},
         loop' \in {"slot", "accept", "leaving", "waiting", "returned", "exited"},
         \/ slots' = slots /\ (loop' = "accept" => loop = "accept")
         \/ slots' = slots + 1 /\ slots < MaxConns
  PROVE  ServerOK'
<1> USE DEF ServerOK
<1>1. Active' = Active
  BY DEF Active
<1>2. slots' \in 0 .. MaxConns
  BY ActiveFinite DEF ServerTypeOK
<1>3. ServerTypeOK'
  BY <1>2 DEF ServerTypeOK
<1>4. Cardinality(Active') + (IF loop' = "accept" THEN 1 ELSE 0) <= slots'
  BY <1>1, ActiveFinite DEF ServerInv
<1>5. QED
  BY <1>3, <1>4 DEF ServerInv

\* A request is answered.
LEMMA AnswerStep ==
  ASSUME ServerOK, NEW c \in Conns, phase[c] = "request", Answer(c),
         mu' = None \/ (mu' = mu /\ mu # c), mu \in Conns \cup {None}
  PROVE  ServerOK'
<1> USE DEF ServerOK
<1>1. /\ phase' = [phase EXCEPT ![c] = "socket"] /\ inMemory' = inMemory \ {c}
      /\ UNCHANGED <<closed, loop, slots, ctx, listener, signal>>
  BY DEF Answer, serverVars
<1>2. \A d \in Conns : phase'[d] = IF d = c THEN "socket" ELSE phase[d]
  BY <1>1 DEF ServerTypeOK
<1>3. Active' = Active
  BY <1>2 DEF Active
<1>4. ServerTypeOK'
  BY <1>1 DEF ServerTypeOK
<1>5. QED
  BY <1>1, <1>2, <1>3, <1>4 DEF ServerInv, ServerTypeOK

\* A connection is accepted, reads a message, or ends.
LEMMA ConnStep ==
  ASSUME ServerOK, NEW c \in Conns, UNCHANGED mu, mu \in Conns \cup {None}
  PROVE  Accept(c) \/ ReceivePart(c) \/ Receive(c) \/ IOFails(c) => ServerOK'
<1> USE DEF ServerOK
<1>0. Conns = Callers
  BY DEF Conns
<1>1. ASSUME Accept(c) PROVE ServerOK'
  <2>0. /\ loop = "accept" /\ loop' = "slot" /\ phase[c] = "absent" /\ phase' = [phase EXCEPT ![c] = "socket"]
        /\ UNCHANGED <<inMemory, closed, slots, ctx, listener, signal>>
    BY <1>1 DEF Accept
  <2>1. \A d \in Conns : phase'[d] = IF d = c THEN "socket" ELSE phase[d]
    BY <2>0 DEF ServerTypeOK
  <2>2. Active' = Active \cup {c} /\ c \notin Active
    BY <2>0, <2>1 DEF Active
  <2>3. Cardinality(Active') = Cardinality(Active) + 1
    BY <2>2, ActiveFinite, FS_AddElement
  <2>4. ServerTypeOK'
    BY <2>0 DEF ServerTypeOK
  <2>5. (mu' # None => phase'[mu'] = "request") /\ \A d \in inMemory' : phase'[d] \in {"reading", "request"}
    BY <2>0, <2>1 DEF ServerInv, ServerTypeOK
  <2>6. QED
    BY <2>0, <2>3, <2>4, <2>5, ActiveFinite DEF ServerInv
<1>2. ASSUME ReceivePart(c) \/ Receive(c) PROVE ServerOK'
  <2> DEFINE next == IF phase[c] = "socket" THEN "reading" ELSE "request"
  <2>0. /\ phase[c] \in {"socket", "reading"} /\ phase' = [phase EXCEPT ![c] = next]
        /\ inMemory' \subseteq inMemory \cup {c}
        /\ UNCHANGED <<closed, loop, slots, ctx, listener, signal>>
    BY <1>2 DEF ReceivePart, Receive, serverVars
  <2>1. \A d \in Conns : phase'[d] = IF d = c THEN next ELSE phase[d]
    BY <2>0 DEF ServerTypeOK
  <2>2. next \in {"reading", "request"}
    OBVIOUS
  <2> HIDE DEF next
  <2>3. Active' = Active
    BY <2>0, <2>1, <2>2 DEF Active
  <2>4. ServerTypeOK'
    BY <2>0, <2>2 DEF ServerTypeOK
  <2>5. QED
    BY <2>0, <2>1, <2>2, <2>3, <2>4 DEF ServerInv, ServerTypeOK
<1>3. ASSUME IOFails(c) PROVE ServerOK'
  <2>0. /\ phase[c] \in {"socket", "reading"} /\ phase' = [phase EXCEPT ![c] = "absent"] /\ inMemory' = inMemory \ {c}
        /\ closed' = closed \ {c} /\ slots' = slots - 1
        /\ UNCHANGED <<loop, ctx, listener, signal>>
    BY <1>3 DEF IOFails, EndConn
  <2>1. \A d \in Conns : phase'[d] = IF d = c THEN "absent" ELSE phase[d]
    BY <2>0 DEF ServerTypeOK
  <2>2. Active' = Active \ {c} /\ c \in Active
    BY <2>0, <2>1 DEF Active
  <2>3. Cardinality(Active') = Cardinality(Active) - 1
    BY <2>2, ActiveFinite, FS_RemoveElement
  <2>4. Cardinality(Active) # 0
    BY <2>2, ActiveFinite, FS_EmptySet
  <2>5. slots' \in 0 .. MaxConns
    BY <2>0, <2>4, ActiveFinite DEF ServerInv
  <2>6. ServerTypeOK'
    BY <2>0, <2>5 DEF ServerTypeOK
  <2>7. (mu' # None => phase'[mu'] = "request") /\ \A d \in inMemory' : phase'[d] \in {"reading", "request"}
    BY <2>0, <2>1 DEF ServerInv, ServerTypeOK
  <2>8. QED
    BY <2>0, <2>3, <2>6, <2>7, ActiveFinite DEF ServerInv
<1>4. QED
  BY <1>1, <1>2, <1>3
-----------------------------------------------------------------------------
(* The inductive invariant. *)

UntilOK == until \in [Blobs -> Seq(Deadlines)]

\* The inductive invariant, regrouped by what each step of the agent touches.
LEMMA Parts ==
  /\ IInv <=> KeyInv /\ GrantInv /\ UntilOK /\ ServerOK
  /\ IInv' <=> KeyInv' /\ GrantInv' /\ UntilOK' /\ ServerOK'
  BY DEF IInv, KeyInv, TypeOK, ServerOK, ServerTypeOK, UntilOK

\* The agent starts with no key, no connection and every slot free.
LEMMA InitIInv ==
  ASSUME Init
  PROVE  IInv
<1>1. /\ mu = None /\ call = NoCall /\ call.op = "none" /\ keys = [k \in Blobs |-> None]
      /\ destroyed = FALSE /\ lockCheck = None /\ buffer = [b \in Bufs |-> "none"]
      /\ wall = 0 /\ timers = {}
  BY DEF Init, KeyringInit, NoCall
<1>2. KeyringTypeOK
  <2>1. 0 \in 0 .. MaxTime /\ {} \subseteq Ticks /\ NoCall \in Calls
    BY KeyringAssumption DEF Calls
  <2>2. keys \in [Blobs -> Records \cup {None}] /\ buffer \in [Bufs -> {"none", "open", "sealed", "wiped"}]
    BY <1>1
  <2>3. QED
    BY <1>1, <2>1, <2>2 DEF KeyringTypeOK
<1>3. OwnerInv /\ SealInv /\ CallInv
  BY <1>1 DEF OwnerInv, SealInv, CallInv, Used, HasBuf
<1>4. GrantInv /\ UntilOK
  BY <1>1 DEF Init, GrantInv, UntilOK
<1>5. ServerTypeOK
  <2>1. 0 \in 0 .. MaxConns
    BY AgentAssumption
  <2>2. phase \in [Conns -> {"absent", "socket", "reading", "request"}]
    BY DEF Init
  <2>3. QED
    BY <2>1, <2>2 DEF Init, ServerTypeOK
<1>6. Active = {}
  BY DEF Init, Active
<1>7. ServerInv
  BY <1>1, <1>6, FS_EmptySet DEF Init, ServerInv
<1>8. QED
  BY <1>2, <1>3, <1>4, <1>5, <1>7, Parts DEF KeyInv, ServerOK

\* Steps of the server that do not enter the keyring.
LEMMA ServerStep ==
  ASSUME IInv, UNCHANGED keyringVars, UNCHANGED history
  PROVE  /\ TakeSlot \/ StopAccepting \/ LeaveServe \/ ServeReturns => IInv'
         /\ Signal \/ Cancel \/ CloseListener \/ UNCHANGED <<connVars, serverVars>> => IInv'
         /\ \A c \in Conns : Accept(c) \/ CloseConn(c) \/ ReceivePart(c) \/ Receive(c) \/ IOFails(c) => IInv'
<1> USE Parts
<1>0. /\ KeyInv' /\ UNCHANGED mu /\ UNCHANGED <<call, asked, until>> /\ UNCHANGED keys
      /\ mu \in Conns \cup {None}
  BY OutsideStep DEF keyringVars, ring, history, KeyInv, KeyringTypeOK, Conns
<1>1. GrantInv' /\ UntilOK'
  <2>1. Shrinks
    BY <1>0 DEF Shrinks
  <2>2. QED
    BY <1>0, <2>1, Kept DEF UntilOK
<1>2. mu' # None => phase[mu'] = "request"
  BY <1>0 DEF ServerOK, ServerInv
<1>3. ASSUME TakeSlot \/ StopAccepting \/ LeaveServe \/ ServeReturns PROVE IInv'
  <2>1. ServerOK'
    BY <1>2, <1>3, LoopStep DEF TakeSlot, StopAccepting, LeaveServe, stopListener, ServeReturns, connVars, ServerOK, ServerTypeOK
  <2>2. QED
    BY <1>0, <1>1, <2>1
<1>4. ASSUME Signal \/ Cancel \/ CloseListener \/ UNCHANGED <<connVars, serverVars>> PROVE IInv'
  <2>1. ServerOK'
    BY <1>2, <1>4, LoopStep DEF Signal, Cancel, CloseListener, connVars, serverVars, ServerOK, ServerTypeOK
  <2>2. QED
    BY <1>0, <1>1, <2>1
<1>5. ASSUME NEW c \in Conns, CloseConn(c) PROVE IInv'
  <2>1. ServerOK'
    BY <1>2, <1>5, LoopStep DEF CloseConn, serverVars, ServerOK, ServerTypeOK
  <2>2. QED
    BY <1>0, <1>1, <2>1
<1>6. ASSUME NEW c \in Conns, Accept(c) \/ ReceivePart(c) \/ Receive(c) \/ IOFails(c) PROVE IInv'
  BY <1>0, <1>1, <1>6, ConnStep
<1>7. QED
  BY <1>3, <1>4, <1>5, <1>6

\* Steps on the keyring that no connection takes: shutdown, the timers, the
\* termination wipe, the clocks.
LEMMA BackgroundStep ==
  ASSUME IInv
  PROVE  /\ RunReturns \/ ShutDown \/ Timer \/ Clock => IInv'
         /\ \A b \in Bufs : TerminationWipe(b) => IInv'
<1> USE Parts
<1>1. ASSUME KeyInv', Shrinks, UNCHANGED history, UNCHANGED <<mu, call>>,
             UNCHANGED <<phase, inMemory, closed, slots, ctx>>,
             listener' \in {"watched", "open", "closed"}, signal' \in {"none", "sent", "destroyed", "done"},
             loop' = loop \/ loop' = "exited"
      PROVE  IInv'
  <2>1. GrantInv' /\ UntilOK'
    BY <1>1, Kept DEF history, UntilOK
  <2>2. mu' # None => phase[mu'] = "request"
    BY <1>1 DEF ServerOK, ServerInv
  <2>3. ServerOK'
    BY <1>1, <2>2, LoopStep DEF ServerOK, ServerTypeOK
  <2>4. QED
    BY <1>1, <2>1, <2>3
<1>2. listener \in {"watched", "open", "closed"} /\ signal \in {"none", "sent", "destroyed", "done"}
  BY DEF ServerOK, ServerTypeOK
<1>4. ASSUME RunReturns PROVE IInv'
  <2>1. KeyInv' /\ Shrinks
    <3>1. DestroyAll
      BY <1>4 DEF RunReturns
    <3>2. Shrinks
      BY <3>1 DEF DestroyAll, Without, Shrinks
    <3>3. QED
      BY <3>1, <3>2, DropStep
  <2>2. QED
    BY <1>1, <1>2, <1>4, <2>1 DEF RunReturns, DestroyAll, connVars
<1>5. ASSUME ShutDown PROVE IInv'
  <2>1. KeyInv' /\ Shrinks
    <3>1. DestroyAll
      BY <1>5 DEF ShutDown
    <3>2. Shrinks
      BY <3>1 DEF DestroyAll, Without, Shrinks
    <3>3. QED
      BY <3>1, <3>2, DropStep
  <2>2. QED
    BY <1>1, <1>2, <1>5, <2>1 DEF ShutDown, DestroyAll, connVars
<1>6. ASSUME Timer PROVE IInv'
  <2>1. KeyInv' /\ Shrinks
    <3>1. expire
      BY <1>6 DEF Timer
    <3>2. Shrinks
      BY <3>1 DEF expire, expireLocked, Without, Shrinks
    <3>3. QED
      BY <3>1, <3>2, DropStep
  <2>2. QED
    BY <1>1, <1>2, <1>6, <2>1 DEF Timer, expire, connVars, serverVars
<1>7. ASSUME Clock PROVE IInv'
  <2>1. KeyInv'
    BY <1>7, OutsideStep DEF Clock
  <2>2. Shrinks /\ UNCHANGED <<mu, call>>
    BY <1>7 DEF Clock, Tick, Suspend, ring, Shrinks
  <2>3. QED
    BY <1>1, <1>2, <1>7, <2>1, <2>2 DEF Clock, connVars, serverVars
<1>8. ASSUME NEW b \in Bufs, TerminationWipe(b) PROVE IInv'
  <2>1. KeyInv'
    BY <1>8, OutsideStep DEF TerminationWipe
  <2>2. Shrinks /\ UNCHANGED <<mu, call>>
    BY <1>8 DEF TerminationWipe, WipeBuffer, ring, Shrinks
  <2>3. QED
    BY <1>1, <1>2, <1>8, <2>1, <2>2 DEF TerminationWipe, connVars, serverVars
<1>9. QED
  BY <1>4, <1>5, <1>6, <1>7, <1>8

\* What a request's type says of its fields.
LEMMA Fields ==
  ASSUME NEW m \in Requests
  PROVE  /\ m.type = "sign" => m.blob \in Blobs
         /\ m.type \in {"lock", "unlock"} => m.pass \in Passphrases
<1>1. \/ m \in [type : {"list"}]
      \/ m \in [type : {"sign"}, blob : Blobs]
      \/ m \in [type : {"remove"}, blobs : SUBSET Blobs]
      \/ m \in [type : {"lock", "unlock"}, pass : Passphrases]
      \/ m \in [type : {"add"}, blob : Blobs, constrained : BOOLEAN, constraints : Seq(Constraints)]
  BY AgentAssumption DEF Messages
<1>2. QED
  BY <1>1

\* A request is dispatched: refused, answered at once, or taken into the keyring.
LEMMA DispatchStep ==
  ASSUME IInv, NEW c \in Conns, Dispatch(c)
  PROVE  IInv'
<1> USE Parts, Shapes
<1>0. /\ phase[c] = "request" /\ mu # c /\ mu \in Conns \cup {None} /\ c \in Callers /\ None \notin Callers
      /\ KeyringTypeOK /\ NoCall.op = "none"
  BY KeyringAssumption DEF Dispatch, DispatchMalformed, Pending, Conns, KeyInv, KeyringTypeOK
\* Answered at once, with nobody inside.
<1>1. ASSUME KeyInv', Shrinks, UNCHANGED history, UNCHANGED <<mu, call>>, Answer(c)
      PROVE  IInv'
  <2>1. GrantInv' /\ UntilOK'
    BY <1>1, Kept DEF history, UntilOK
  <2>2. ServerOK'
    BY <1>0, <1>1, AnswerStep
  <2>3. QED
    BY <1>1, <2>1, <2>2
\* Taken into the keyring.
<1>2. ASSUME KeyInv', GrantInv', UNCHANGED until, mu' = c, UNCHANGED connVars, UNCHANGED serverVars
      PROVE  IInv'
  <2>1. ServerOK'
    BY <1>0, <1>2, LoopStep DEF connVars, serverVars, ServerOK, ServerTypeOK
  <2>2. QED
    BY <1>2, <2>1 DEF UntilOK
<1>3. CASE DispatchMalformed(c)
  <2>1. UNCHANGED keyringVars /\ UNCHANGED history /\ Answer(c)
    BY <1>3 DEF DispatchMalformed
  <2>2. Shrinks /\ UNCHANGED <<mu, call>>
    BY <2>1 DEF keyringVars, ring, Shrinks
  <2>3. QED
    BY <1>1, <2>1, <2>2, OutsideStep
<1>4. ASSUME NEW m \in Requests,
             \/ DispatchRefused(c, m) \/ DispatchList(c, m) \/ DispatchRemove(c, m)
             \/ DispatchAdd(c, m) \/ DispatchSign(c, m) \/ DispatchLock(c, m)
      PROVE  IInv'
  <2>1. CASE DispatchRefused(c, m)
    <3>1. UNCHANGED keyringVars /\ UNCHANGED history /\ Answer(c)
      BY <2>1 DEF DispatchRefused
    <3>2. Shrinks /\ UNCHANGED <<mu, call>>
      BY <3>1 DEF keyringVars, ring, Shrinks
    <3>3. QED
      BY <1>1, <3>1, <3>2, OutsideStep
  <2>2. CASE DispatchList(c, m)
    <3>1. List /\ UNCHANGED history /\ Answer(c)
      BY <2>2 DEF DispatchList
    <3>2. Shrinks /\ UNCHANGED <<mu, call>>
      BY <3>1 DEF List, expireLocked, Without, Shrinks
    <3>3. QED
      BY <1>1, <3>1, <3>2, DropStep
  <2>3. CASE DispatchRemove(c, m)
    <3>1. PICK gone : Remove(gone)
      BY <2>3 DEF DispatchRemove
    <3>2. UNCHANGED history /\ Answer(c)
      BY <2>3 DEF DispatchRemove
    <3>3. Shrinks /\ UNCHANGED <<mu, call>>
      BY <3>1 DEF Remove, Without, Shrinks
    <3>4. QED
      BY <1>1, <3>1, <3>2, <3>3, DropStep
  <2>4. CASE DispatchAdd(c, m)
    <3>1. /\ m.type = "add" /\ parseConstraints(m) /\ AddBegin(c, m.blob, lifetime(m))
          /\ asked' = m.constraints /\ UNCHANGED <<connVars, serverVars, until>>
      BY <2>4 DEF DispatchAdd
    <3>2. /\ m.blob \in Blobs /\ Supported(m.constraints)
          /\ lifetime(m) = IF m.constraints = <<>> THEN None ELSE m.constraints[Len(m.constraints)].secs
          /\ lifetime(m) \in Lifetimes \cup {None}
      BY <3>1, Lifetime
    <3>3. KeyInv'
      BY <1>0, <3>1, <3>2, BeginStep
    <3>4. UNCHANGED keys /\ mu' = c /\ call'.life = lifetime(m)
      BY <3>1 DEF AddBegin, Enter, ring
    <3>5. GrantInv'
      BY <3>1, <3>2, <3>4 DEF GrantInv
    <3>6. QED
      BY <1>2, <3>1, <3>3, <3>4, <3>5
  <2>5. CASE DispatchSign(c, m)
    <3>1. m.type = "sign" /\ m.blob \in Blobs /\ UNCHANGED <<serverVars, history>>
      BY <2>5, Fields DEF DispatchSign
    <3>2. CASE SignBegin(c, m.blob) /\ UNCHANGED connVars
      <4>1. KeyInv'
        BY <1>0, <3>1, <3>2, SignStep
      <4>2. Shrinks /\ mu' = c /\ call'.op = "sign"
        BY <3>2 DEF SignBegin, Enter, Without, Shrinks
      <4>3. GrantInv' /\ UNCHANGED until
        BY <3>1, <4>2, Kept DEF history
      <4>4. QED
        BY <1>2, <3>1, <3>2, <4>1, <4>2, <4>3
    <3>3. CASE SignRefused /\ Answer(c)
      <4>1. Shrinks /\ UNCHANGED <<mu, call>>
        BY <3>3 DEF SignRefused, expireLocked, Without, Shrinks
      <4>2. QED
        BY <1>1, <3>1, <3>3, <4>1, DropStep
    <3>4. QED
      BY <2>5, <3>2, <3>3 DEF DispatchSign
  <2>6. CASE DispatchLock(c, m)
    <3>1. /\ m.type \in {"lock", "unlock"} /\ m.pass \in Passphrases /\ DeriveBegin(c, m.type, m.pass)
          /\ UNCHANGED <<connVars, serverVars, history>>
      BY <2>6, Fields DEF DispatchLock
    <3>2. KeyInv'
      BY <1>0, <3>1, BeginStep
    <3>3. Shrinks /\ mu' = c /\ call'.op = m.type
      BY <3>1 DEF DeriveBegin, Enter, ring, Shrinks
    <3>4. GrantInv' /\ UNCHANGED until
      BY <3>1, <3>3, Kept DEF history
    <3>5. QED
      BY <1>2, <3>1, <3>2, <3>3, <3>4
  <2>7. QED
    BY <1>4, <2>1, <2>2, <2>3, <2>4, <2>5, <2>6
<1>5. QED
  BY <1>3, <1>4 DEF Dispatch

\* A method of the keyring returns.
LEMMA ReturnStep ==
  ASSUME IInv, NEW c \in Conns, Returns(c)
  PROVE  IInv'
<1> USE Parts, Shapes
<1>0. /\ KeyringTypeOK /\ c \in Callers /\ mu \in Conns \cup {None} /\ None \notin Callers /\ NoCall.op = "none"
  BY KeyringAssumption DEF Conns, KeyInv, KeyringTypeOK
<1>1. CASE Signs(c)
  <2>1. Sign(c) /\ UNCHANGED <<connVars, serverVars, history>>
    BY <1>1 DEF Signs
  <2>2. KeyInv' /\ mu' = mu /\ mu = c
    BY <1>0, <2>1, SignStep DEF Sign
  <2>3. Shrinks /\ call'.op # "add" /\ UNCHANGED until
    BY <2>1 DEF Sign, ring, Shrinks, history
  <2>4. GrantInv' /\ UntilOK'
    BY <2>3, Kept DEF UntilOK
  <2>5. ServerOK'
    BY <1>0, <2>1, <2>2, LoopStep DEF connVars, serverVars, ServerOK, ServerTypeOK, ServerInv
  <2>6. QED
    BY <2>2, <2>4, <2>5
<1> SUFFICES ASSUME AddReturns(c) \/ SignReturns(c) \/ LockReturns(c) PROVE IInv'
  BY <1>1 DEF Returns
<1>2. /\ mu = c /\ mu' = None /\ call' = NoCall /\ Answer(c)
      /\ ServerOK'
  <2>1. mu = c /\ mu' = None /\ call' = NoCall /\ Answer(c)
    BY DEF AddReturns, SignReturns, LockReturns, AddEnd, AddFails, SignEnd, LockEnd, UnlockEnd, DeriveFails, Leave
  <2>2. QED
    BY <1>0, <2>1, AnswerStep DEF ServerOK, ServerInv
<1>3. ASSUME KeyInv', Shrinks, UNCHANGED until PROVE IInv'
  <2>1. GrantInv' /\ UntilOK'
    BY <1>0, <1>2, <1>3, Kept DEF UntilOK
  <2>2. QED
    BY <1>2, <1>3, <2>1
<1>4. CASE AddReturns(c)
  <2>1. CASE AddEnd(c) /\ until' = [until EXCEPT ![call.blob] = Granted(asked)]
    <3>1. KeyInv'
      BY <1>0, <2>1, AddEndStep
    <3>2. GrantInv' /\ UntilOK'
      BY <1>0, <2>1, GrantStep DEF UntilOK
    <3>3. QED
      BY <1>2, <3>1, <3>2
  <2>2. CASE AddFails(c) /\ UNCHANGED until
    <3>1. KeyInv'
      BY <1>0, <2>2, FailStep
    <3>2. Shrinks
      BY <2>2 DEF AddFails, ring, Shrinks
    <3>3. QED
      BY <1>3, <2>2, <3>1, <3>2
  <2>3. QED
    BY <1>4, <2>1, <2>2 DEF AddReturns
<1>5. CASE SignReturns(c)
  <2>1. SignEnd(c)
    BY <1>5 DEF SignReturns
  <2>2. KeyInv'
    BY <1>0, <2>1, SignStep
  <2>3. Shrinks /\ UNCHANGED until
    BY <1>5, <2>1 DEF SignReturns, SignEnd, Without, Shrinks, history
  <2>4. QED
    BY <1>3, <2>2, <2>3
<1>6. CASE LockReturns(c)
  <2>1. KeyInv'
    BY <1>0, <1>6, LockStep, FailStep DEF LockReturns
  <2>2. Shrinks /\ UNCHANGED until
    BY <1>6 DEF LockReturns, LockEnd, UnlockEnd, DeriveFails, ring, Shrinks, history
  <2>3. QED
    BY <1>3, <2>1, <2>2
<1>7. QED
  BY <1>4, <1>5, <1>6

\* Every step keeps the invariant.
LEMMA NextIInv ==
  ASSUME IInv, [Next]_vars
  PROVE  IInv'
<1>1. CASE UNCHANGED vars
  <2>1. UNCHANGED keyringVars /\ UNCHANGED history /\ UNCHANGED <<connVars, serverVars>>
    BY <1>1 DEF vars
  <2>2. QED
    BY <2>1, ServerStep
<1>2. CASE Loop \/ StopAccepting \/ Signal \/ Cancel \/ CloseListener
  <2>1. UNCHANGED keyringVars /\ UNCHANGED history
    BY <1>2 DEF Loop, TakeSlot, Accept, LeaveServe, ServeReturns, StopAccepting, Signal, Cancel, CloseListener
  <2>2. QED
    BY <1>2, <2>1, ServerStep DEF Loop
<1>3. CASE RunReturns \/ ShutDown \/ Timer \/ Clock
  BY <1>3, BackgroundStep
<1>4. ASSUME NEW b \in Bufs, TerminationWipe(b) PROVE IInv'
  BY <1>4, BackgroundStep
<1>5. ASSUME NEW c \in Conns, CloseConn(c) \/ ReceivePart(c) \/ Receive(c) \/ IOFails(c) PROVE IInv'
  <2>1. UNCHANGED keyringVars /\ UNCHANGED history
    BY <1>5 DEF CloseConn, ReceivePart, Receive, IOFails, EndConn
  <2>2. QED
    BY <1>5, <2>1, ServerStep
<1>6. ASSUME NEW c \in Conns, Dispatch(c) \/ Returns(c) PROVE IInv'
  BY <1>6, DispatchStep, ReturnStep
<1>7. QED
  BY <1>1, <1>2, <1>3, <1>4, <1>5, <1>6 DEF Next
-----------------------------------------------------------------------------
(* The theorems. *)

\* The inductive invariant holds throughout, and with it the types.
THEOREM Invariance == Spec => []IInv
<1>1. Init => IInv
  BY InitIInv
<1>2. IInv /\ [Next]_vars => IInv'
  BY NextIInv
<1>3. QED
  BY <1>1, <1>2, PTL DEF Spec

\* Keys that have a buffer each have as many buffers as there are keys.
LEMMA OneBufferEach ==
  ASSUME KeyringTypeOK, OwnerInv
  PROVE  Cardinality(BufsOf(keys)) = Cardinality(Held(keys))
<1> DEFINE f == [k \in Held(keys) |-> keys[k].buf]
<1>1. Held(keys) \subseteq Blobs /\ \A k \in Held(keys) : keys[k] # None
  BY DEF Held, KeyringTypeOK
<1>2. IsFiniteSet(Held(keys))
  BY <1>1, FS_Subset, KeyringAssumption
<1>3. f \in Surjection(Held(keys), BufsOf(keys))
  BY DEF Surjection, BufsOf
<1>4. f \in Injection(Held(keys), BufsOf(keys))
  <2>1. \A k, l \in Held(keys) : f[k] = f[l] => k = l
    BY <1>1 DEF OwnerInv
  <2>2. f \in [Held(keys) -> BufsOf(keys)]
    BY DEF BufsOf
  <2>3. QED
    BY <2>1, <2>2 DEF Injection, IsInjective
<1> HIDE DEF f
<1>5. QED
  BY <1>2, <1>3, <1>4, FS_Surjection

\* serveConn: outside the keyring's lock key material is in sealed (or wiped) buffers
\* only, one of each key, and no other buffer is left behind, whatever failed on the
\* way; and no message, or part of one, stays in memory when its
\* reading has failed or it was dispatched.
THEOREM SealedAtRest == Spec => []SecretsSealedAtRest
<1>1. IInv => SecretsSealedAtRest
  <2> SUFFICES ASSUME IInv PROVE SecretsSealedAtRest
    OBVIOUS
  <2>1. TypeOK /\ KeyringTypeOK /\ OwnerInv /\ SealInv /\ \A c \in inMemory : phase[c] \in {"reading", "request"}
    BY DEF IInv, TypeOK, ServerInv
  <2>2. ASSUME mu = None
        PROVE  /\ {b \in Bufs : buffer[b] # "none"} = BufsOf(keys) \cup LockBufs
               /\ BufsOf(keys) \cap LockBufs = {}
               /\ \A b \in BufsOf(keys) : buffer[b] \in {"sealed", "wiped"}
    <3>1. call.op = "none"
      BY <2>1, <2>2, Shapes
    <3>2. \A b : b \in BufsOf(keys) <=> \E k \in Blobs : keys[k] # None /\ keys[k].buf = b
      BY <2>1 DEF BufsOf, Held, KeyringTypeOK
    <3>3. \A b : b \in LockBufs <=> lockCheck # None /\ lockCheck.buf = b
      BY DEF LockBufs
    <3>4. \A b \in Bufs : buffer[b] # "none" <=> b \in BufsOf(keys) \cup LockBufs
      BY <2>1, <3>1, <3>2, <3>3 DEF OwnerInv, Used, HasBuf
    <3>5. BufsOf(keys) \cup LockBufs \subseteq Bufs
      BY <2>1, <3>2, <3>3, Shapes
    <3>6. BufsOf(keys) \cap LockBufs = {}
      BY <2>1, <3>2, <3>3 DEF OwnerInv
    <3>7. \A b \in BufsOf(keys) : buffer[b] \in {"sealed", "wiped"}
      BY <2>1, <3>1, <3>2 DEF SealInv
    <3>8. QED
      BY <3>4, <3>5, <3>6, <3>7
  <2>3. QED
    BY <2>1, <2>2, OneBufferEach DEF SecretsSealedAtRest
<1>2. QED
  BY <1>1, Invariance, PTL

Within == call # call' /\ call'.op = "sign" => Allowed(call'.blob)

\* Sign takes a key out of its seal only within the last lifetime of its add:
\* the deadline in the record is the granted one, and the sweep before the search
\* reads the wall clock, however late the timers are.
THEOREM SignsInTime == Spec => SignsWithinConstraints
<1>1. IInv /\ [Next]_vars => [Within]_vars
  <2> SUFFICES ASSUME IInv, Next, call # call', call'.op = "sign"
               PROVE  Allowed(call'.blob)
    BY DEF Within
  <2>0. KeyringTypeOK
    BY DEF IInv, TypeOK
  <2>1. PICK c \in Conns, k \in Blobs : SignBegin(c, k)
    <3>1. NoCall.op = "none"
      BY DEF NoCall
    <3>2. ~UNCHANGED call
      OBVIOUS
    <3>3. ~(Loop \/ StopAccepting \/ RunReturns \/ Signal \/ ShutDown \/ Cancel \/ CloseListener \/ Timer \/ Clock)
      BY <3>2 DEF Loop, TakeSlot, Accept, LeaveServe, ServeReturns, StopAccepting, RunReturns, Signal, ShutDown,
                  Cancel, CloseListener, Timer, Clock, keyringVars, DestroyAll, expire, Tick, Suspend
    <3>4. \A b \in Bufs : ~TerminationWipe(b)
      BY <3>2 DEF TerminationWipe, WipeBuffer
    <3>5. \A c \in Conns : ~(CloseConn(c) \/ ReceivePart(c) \/ Receive(c) \/ IOFails(c))
      BY <3>2 DEF CloseConn, ReceivePart, Receive, IOFails, EndConn, keyringVars
    <3>6. \A c \in Conns : ~Returns(c)
      BY <3>1 DEF Returns, AddReturns, Signs, Sign, SignReturns, LockReturns, AddEnd, AddFails, SignEnd, LockEnd,
                  UnlockEnd, DeriveFails, Leave
    <3>7. PICK c \in Conns : Dispatch(c)
      BY <3>3, <3>4, <3>5, <3>6 DEF Next
    <3>8. ~DispatchMalformed(c)
      BY <3>2 DEF DispatchMalformed, keyringVars
    <3>9. PICK m \in Requests :
            \/ DispatchRefused(c, m) \/ DispatchList(c, m) \/ DispatchRemove(c, m)
            \/ DispatchAdd(c, m) \/ DispatchSign(c, m) \/ DispatchLock(c, m)
      BY <3>7, <3>8 DEF Dispatch
    <3>10. ~DispatchRefused(c, m) /\ ~DispatchList(c, m) /\ ~DispatchRemove(c, m)
      BY <3>2 DEF DispatchRefused, DispatchList, DispatchRemove, List, Remove, keyringVars
    <3>11. ~DispatchAdd(c, m)
      BY DEF DispatchAdd, AddBegin, Enter
    <3>12. ~DispatchLock(c, m)
      BY DEF DispatchLock, DeriveBegin, Enter
    <3>13. ~SignRefused
      BY <3>2 DEF SignRefused
    <3>14. SignBegin(c, m.blob) /\ m.type = "sign"
      BY <3>9, <3>10, <3>11, <3>12, <3>13 DEF DispatchSign
    <3>15. QED
      BY <3>14, Fields
  <2>2. call'.blob = k /\ k \in Held(keys) \ Expired /\ ~destroyed
    BY <2>1 DEF SignBegin, Enter, Refused
  <2>3. keys[k] # None /\ (keys[k].expiresAt = None \/ ~(wall >= keys[k].expiresAt))
    BY <2>2 DEF Held, Expired
  <2>4. /\ keys[k].expiresAt = IF until[k] = <<>> THEN None ELSE until[k][Len(until[k])]
        /\ \A i \in DOMAIN until[k] : until[k][i] # 0
        /\ until[k] \in Seq(Deadlines)
    BY <2>3 DEF IInv, GrantInv, TypeOK
  <2>5. ASSUME until[k] # <<>> PROVE wall < until[k][Len(until[k])]
    <3>1. Len(until[k]) \in 1 .. Len(until[k])
      BY <2>4, <2>5
    <3>2. until[k][Len(until[k])] \in Deadlines
      BY <2>4, <3>1
    <3>3. until[k][Len(until[k])] \in Int /\ wall \in Int /\ until[k][Len(until[k])] # None
      BY <2>0, <3>2, KeyringAssumption DEF Deadlines, KeyringTypeOK
    <3>4. QED
      BY <2>3, <2>4, <2>5, <3>3
  <2>6. QED
    BY <2>2, <2>4, <2>5 DEF Allowed
<1>2. QED
  BY <1>1, Invariance, PTL DEF Spec, SignsWithinConstraints, Within
=============================================================================
