------------------------------ MODULE Keyring -------------------------------
(***************************************************************************)
(* The key store of the hardened ssh-agent (src/examples/hardened-ssh-     *)
(* agent/keyring.go): keys that are sealed but for the length of one       *)
(* signature, lifetimes that destroy them, the agent-protocol lock, and    *)
(* their destruction at shutdown.                                          *)
(*                                                                         *)
(* Every method runs under k.mu.  Add, Sign, Lock and Unlock are split     *)
(* where their key lies open, because the termination wipe takes no notice *)
(* of k.mu.  Deadlines are times of the wall clock; the timers that        *)
(* enforce them count ticks of the monotonic clock, which stands still     *)
(* while the machine is suspended.                                         *)
(***************************************************************************)
EXTENDS Integers, FiniteSetsExt

CONSTANTS
  Callers,          \* goroutines that serve a request each
  Blobs,            \* public keys, the protocol's names of identities
  Passphrases,      \* of Lock and Unlock
  Bufs,             \* SecureBuffers that can exist at once
  MaxLifetime,      \* the longest lifetime a client can ask for, in ticks
  MaxTime,          \* the wall clock is followed up to here
  None

Lifetimes == 1 .. MaxLifetime
Deadlines == 0 .. MaxTime + MaxLifetime
Ticks == 0 .. MaxLifetime
Records == [buf : Bufs, expiresAt : Deadlines \cup {None}]
Checks == [buf : Bufs, pass : Passphrases]

ASSUME KeyringAssumption ==
  /\ IsFiniteSet(Callers) /\ IsFiniteSet(Blobs)
  /\ MaxLifetime \in Nat \ {0}
  /\ MaxTime \in Nat
  /\ None \notin Callers \cup Blobs \cup Passphrases \cup Bufs \cup Nat
  /\ None \notin Records \cup Checks

VARIABLES
  mu,               \* the caller inside k.mu, or None
  keys,             \* the record of each public key, or None
  destroyed,
  lockCheck,        \* the buffer of the derivation and its passphrase, or None
  buffer,           \* "none", "open", "sealed" or, by the termination wipe, "wiped"
  call,             \* what the caller inside is doing, and with what
  wall,             \* the wall clock
  timers            \* the ticks left of the pending timers; 0 is due

ring == <<keys, destroyed, lockCheck>>
clock == <<wall, timers>>
keyringVars == <<mu, ring, buffer, call, clock>>

NoCall == [op |-> "none"]
Calls ==
  {NoCall}
    \cup [op : {"add"}, buf : Bufs, blob : Blobs, life : Lifetimes \cup {None}]
    \cup [op : {"sign", "signed"}, blob : Blobs]
    \cup [op : {"lock", "unlock"}, buf : Bufs, pass : Passphrases]

KeyringTypeOK ==
  /\ mu \in Callers \cup {None}
  /\ keys \in [Blobs -> Records \cup {None}]
  /\ destroyed \in BOOLEAN
  /\ lockCheck \in Checks \cup {None}
  /\ buffer \in [Bufs -> {"none", "open", "sealed", "wiped"}]
  /\ call \in Calls
  /\ (call = NoCall) <=> (mu = None)
  /\ wall \in 0 .. MaxTime
  /\ timers \subseteq Ticks

KeyringInit ==
  /\ mu = None /\ call = NoCall
  /\ keys = [k \in Blobs |-> None]
  /\ destroyed = FALSE /\ lockCheck = None
  /\ buffer = [b \in Bufs |-> "none"]
  /\ wall = 0 /\ timers = {}

-----------------------------------------------------------------------------

Held(ks) == {k \in DOMAIN ks : ks[k] # None}
BufsOf(ks) == {ks[k].buf : k \in Held(ks)}
Destroy(bs) == [b \in Bufs |-> IF b \in bs THEN "none" ELSE buffer[b]]
FreshBuf == CHOOSE b \in Bufs : buffer[b] = "none"
NewEmptyBuffer ==
  /\ \E b \in Bufs : buffer[b] = "none"
  /\ buffer' = [buffer EXCEPT ![FreshBuf] = "open"]
Without(ks, gone) == [k \in Blobs |-> IF k \in gone THEN None ELSE ks[k]]

\* A method that needs the keys is refused, and returns at once.
Refused == destroyed \/ lockCheck # None

\* The keys whose deadline has passed on the wall clock; none once destroyed.
Expired ==
  {k \in Held(keys) :
     ~destroyed /\ keys[k].expiresAt # None /\ wall >= keys[k].expiresAt}

\* expireLocked: destroy what is past its deadline.
expireLocked ==
  /\ keys' = Without(keys, Expired)
  /\ buffer' = Destroy({keys[k].buf : k \in Expired})

Enter(c, m) == mu = None /\ mu' = c /\ call' = m
Leave == mu' = None /\ call' = NoCall

-----------------------------------------------------------------------------
(* Add *)

\* buildRecord allocates a buffer and copies the key out of the message into it.
AddBegin(c, blob, life) ==
  /\ ~Refused
  /\ NewEmptyBuffer
  /\ Enter(c, [op |-> "add", buf |-> FreshBuf, blob |-> blob, life |-> life])
  /\ UNCHANGED <<ring, clock>>

\* The key does not match, the curve or scalar is refused, the policy forbids it,
\* or it cannot be sealed (a wiped buffer never can): destroy it.
AddFails(c) ==
  /\ mu = c /\ call.op = "add"
  /\ buffer' = Destroy({call.buf})
  /\ Leave
  /\ UNCHANGED <<ring, clock>>

\* finishRecord seals the key; Add sets its deadline, starts its timer, and
\* replaces an identity of the same name.
AddEnd(c) ==
  /\ mu = c /\ call.op = "add"
  /\ buffer[call.buf] = "open"
  /\ buffer' = [b \in Bufs |->
                  IF b = call.buf THEN "sealed"
                  ELSE IF keys[call.blob] # None /\ b = keys[call.blob].buf THEN "none"
                  ELSE buffer[b]]
  /\ keys' = [keys EXCEPT ![call.blob] =
       [buf |-> call.buf,
        expiresAt |-> IF call.life = None THEN None ELSE wall + call.life]]
  /\ timers' = timers \cup ({call.life} \ {None})
  /\ Leave
  /\ UNCHANGED <<destroyed, lockCheck, wall>>

-----------------------------------------------------------------------------
(* Sign, List, Remove *)

\* Sign, up to Unseal: the sweep, the search, the unsealed key.
SignBegin(c, blob) ==
  /\ ~Refused
  /\ blob \in Held(keys) \ Expired
  /\ buffer[keys[blob].buf] = "sealed"
  /\ Enter(c, [op |-> "sign", blob |-> blob])
  /\ keys' = Without(keys, Expired)
  /\ buffer' = [Destroy({keys[k].buf : k \in Expired}) EXCEPT ![keys[blob].buf] = "open"]
  /\ UNCHANGED <<destroyed, lockCheck, clock>>

\* Sign, when the key is not there any more, or cannot be unsealed.
SignRefused ==
  /\ mu = None /\ ~Refused
  /\ expireLocked
  /\ UNCHANGED <<mu, call, destroyed, lockCheck, clock>>

\* The signature is made, with the key as it is by now.
Sign(c) ==
  /\ mu = c /\ call.op = "sign"
  /\ buffer[keys[call.blob].buf] = "open"
  /\ call' = [op |-> "signed", blob |-> call.blob]
  /\ UNCHANGED <<mu, ring, buffer, clock>>

\* The key is sealed only if the signature was made.
SignEndOnSuccess(c) ==
  /\ mu = c /\ call.op \in {"sign", "signed"}
  /\ call.op = "signed" => buffer[keys[call.blob].buf] = "open"
  /\ buffer' = IF call.op = "signed"
               THEN [buffer EXCEPT ![keys[call.blob].buf] = "sealed"] ELSE buffer
  /\ Leave
  /\ UNCHANGED <<ring, clock>>

\* The signature was made or not, and the deferred Seal follows either way; a key that
\* cannot be sealed, as when it was wiped meanwhile, is destroyed.
SignEnd(c) ==
  /\ mu = c /\ call.op \in {"sign", "signed"}
  /\ LET b == keys[call.blob].buf IN
       \/ /\ buffer[b] = "open"
          /\ buffer' = [buffer EXCEPT ![b] = "sealed"]
          /\ UNCHANGED keys
       \/ /\ buffer' = Destroy({b})
          /\ keys' = Without(keys, {call.blob})
  /\ Leave
  /\ UNCHANGED <<destroyed, lockCheck, clock>>

\* List sweeps, locked or not.
List ==
  /\ mu = None
  /\ expireLocked
  /\ UNCHANGED <<mu, call, destroyed, lockCheck, clock>>

\* Remove and RemoveAll: no sweep.
Remove(gone) ==
  /\ mu = None /\ ~Refused
  /\ gone \subseteq Held(keys)
  /\ keys' = Without(keys, gone)
  /\ buffer' = Destroy({keys[k].buf : k \in gone})
  /\ UNCHANGED <<mu, call, destroyed, lockCheck, clock>>

-----------------------------------------------------------------------------
(* Lock and Unlock *)

\* The derivation, into a buffer of its own: for Lock if the agent is unlocked, for
\* Unlock if it is locked.
DeriveBegin(c, op, pass) ==
  /\ ~destroyed
  /\ (op = "lock") <=> (lockCheck = None)
  /\ NewEmptyBuffer
  /\ Enter(c, [op |-> op, buf |-> FreshBuf, pass |-> pass])
  /\ UNCHANGED <<ring, clock>>

\* The derivation or the comparison fails, or the passphrase is wrong.
DeriveFails(c) ==
  /\ mu = c /\ call.op \in {"lock", "unlock"}
  /\ buffer' = Destroy({call.buf})
  /\ Leave
  /\ UNCHANGED <<ring, clock>>

LockEnd(c) ==
  /\ mu = c /\ call.op = "lock"
  /\ buffer[call.buf] = "open"
  /\ lockCheck' = [buf |-> call.buf, pass |-> call.pass]
  /\ Leave
  /\ UNCHANGED <<keys, destroyed, buffer, clock>>

\* The two derivations are equal, and neither was wiped.
UnlockEnd(c) ==
  /\ mu = c /\ call.op = "unlock"
  /\ call.pass = lockCheck.pass
  /\ buffer[call.buf] = "open" /\ buffer[lockCheck.buf] = "open"
  /\ buffer' = Destroy({call.buf, lockCheck.buf})
  /\ lockCheck' = None
  /\ Leave
  /\ UNCHANGED <<keys, destroyed, clock>>

-----------------------------------------------------------------------------
(* Destruction *)

\* DestroyAll; a second one finds nothing to do.
DestroyAll ==
  /\ mu = None
  /\ destroyed' = TRUE
  /\ buffer' = Destroy(BufsOf(keys) \cup IF lockCheck = None THEN {} ELSE {lockCheck.buf})
  /\ keys' = Without(keys, Blobs)
  /\ lockCheck' = None
  /\ UNCHANGED <<mu, call, clock>>

\* A timer whose sweep waits for the agent to be unlocked.
expireUnlessLocked ==
  /\ mu = None
  /\ 0 \in timers
  /\ timers' = timers \ {0}
  /\ IF lockCheck = None THEN expireLocked ELSE UNCHANGED <<keys, buffer>>
  /\ UNCHANGED <<mu, call, destroyed, lockCheck, wall>>

\* A timer's goroutine, whether or not the agent is locked; timers that are due together fire together.
expire ==
  /\ mu = None
  /\ 0 \in timers
  /\ timers' = timers \ {0}
  /\ expireLocked
  /\ UNCHANGED <<mu, call, destroyed, lockCheck, wall>>

\* WipeAllSecrets, called by the termination wipe, zeroes a buffer in place.
WipeBuffer(b) ==
  /\ buffer[b] \in {"open", "sealed"}
  /\ buffer' = [buffer EXCEPT ![b] = "wiped"]
  /\ UNCHANGED <<mu, ring, call, clock>>

\* Both clocks run.
Tick ==
  /\ wall < MaxTime \/ timers \ {0} # {}
  /\ wall' = IF wall < MaxTime THEN wall + 1 ELSE wall
  /\ timers' = {IF n = 0 THEN 0 ELSE n - 1 : n \in timers}
  /\ UNCHANGED <<mu, ring, buffer, call>>

\* The machine is suspended: timers stand still.
Suspend ==
  /\ wall < MaxTime
  /\ wall' = wall + 1
  /\ UNCHANGED <<mu, ring, buffer, call, timers>>
=============================================================================
