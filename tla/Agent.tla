------------------------------- MODULE Agent --------------------------------
(***************************************************************************)
(* The hardened ssh-agent: Keyring composed with the server around it      *)
(* (src/examples/hardened-ssh-agent/main.go and proto.go).                 *)
(*                                                                         *)
(* serve takes a slot, accepts a connection and starts a goroutine for it; *)
(* the goroutine reads a message, dispatches it to the keyring, wipes it   *)
(* and replies.  Shutdown destroys the keys, cancels the context, which    *)
(* closes the listener and every connection under their goroutines, and    *)
(* waits for them.  A message is what its parser makes of it.              *)
(***************************************************************************)
EXTENDS Keyring, Sequences

CONSTANTS
  Requests,         \* the messages clients send
  MaxConns          \* the size of the connection semaphore

\* What the parsers make of a message.  Every constraint but a lifetime is one that
\* the agent does not support.
Constraints == [kind : {"lifetime"}, secs : 0 .. MaxLifetime] \cup [kind : {"confirm"}]
Messages ==
  [type : {"list"}]
    \cup [type : {"sign"}, blob : Blobs]
    \cup [type : {"remove"}, blobs : SUBSET Blobs]
    \cup [type : {"lock", "unlock"}, pass : Passphrases]
    \cup [type : {"add"}, blob : Blobs, constrained : BOOLEAN,
          constraints : Seq(Constraints)]

ASSUME AgentAssumption == MaxConns \in Nat \ {0} /\ Requests \subseteq Messages

\* The goroutines that serve a request each are those of the connections.
Conns == Callers

VARIABLES
  phase,            \* "absent", "socket" (no part of a message read), "reading", "request"
  inMemory,         \* the connections with a message, or part of one, in memory
  closed,           \* the connections that were closed by the server
  loop,             \* where serve is, and after it run
  slots,            \* taken slots of the semaphore
  ctx,              \* the context is canceled
  listener,         \* "watched" (a cancel closes it), "open" or "closed"
  signal,           \* the goroutine on sigCh: "none", "sent", "destroyed", "done"
  \* History, for the properties only.
  asked,            \* the constraints of the add in progress
  until             \* for each constraint of a key's add, the end of the signatures

connVars == <<phase, inMemory, closed>>
serverVars == <<loop, slots, ctx, listener, signal>>
history == <<asked, until>>
vars == <<keyringVars, connVars, serverVars, history>>

TypeOK ==
  /\ KeyringTypeOK
  /\ phase \in [Conns -> {"absent", "socket", "reading", "request"}]
  /\ inMemory \subseteq Conns
  /\ closed \subseteq Conns
  /\ loop \in {"slot", "accept", "leaving", "waiting", "returned", "exited"}
  /\ slots \in 0 .. MaxConns
  /\ ctx \in BOOLEAN /\ listener \in {"watched", "open", "closed"}
  /\ signal \in {"none", "sent", "destroyed", "done"}
  /\ until \in [Blobs -> Seq(Deadlines)]

Init ==
  /\ KeyringInit
  /\ phase = [c \in Conns |-> "absent"]
  /\ inMemory = {}
  /\ closed = {}
  /\ loop = "slot" /\ slots = 0
  /\ ctx = FALSE /\ listener = "watched"
  /\ signal = "none"
  /\ asked = <<>>
  /\ until = [k \in Blobs |-> <<>>]

Active == {c \in Conns : phase[c] # "absent"}

-----------------------------------------------------------------------------
(* serve and run *)

\* A slot is taken before Accept: what is not accepted waits in the backlog.
TakeSlot ==
  /\ loop = "slot" /\ slots < MaxConns
  /\ slots' = slots + 1 /\ loop' = "accept"
  /\ UNCHANGED <<keyringVars, connVars, ctx, listener, signal, history>>

Accept(c) ==
  /\ loop = "accept" /\ listener # "closed"
  /\ phase[c] = "absent"
  /\ phase' = [phase EXCEPT ![c] = "socket"]
  /\ loop' = "slot"
  /\ UNCHANGED <<keyringVars, inMemory, closed, slots, ctx, listener, signal, history>>

\* The context is canceled while every slot is taken (or select prefers it); the
\* listener is closed, or fails.
StopAccepting ==
  /\ \/ loop = "slot" /\ ctx
     \/ loop = "accept"
  /\ loop' = "leaving"
  /\ UNCHANGED <<keyringVars, connVars, slots, ctx, listener, signal, history>>

\* stopListener: nobody closes the listener any more, unless that has begun.
stopListener == listener' = IF listener = "watched" /\ ~ctx THEN "open" ELSE listener

\* serve returns without closing what it accepted.
LeaveServeUncancelled ==
  /\ loop = "leaving" /\ loop' = "waiting"
  /\ stopListener
  /\ UNCHANGED <<keyringVars, connVars, slots, ctx, signal, history>>

\* serve's deferred calls: stopListener, cancel, then wait for the goroutines.
LeaveServe ==
  /\ loop = "leaving" /\ loop' = "waiting"
  /\ stopListener
  /\ ctx' = TRUE
  /\ UNCHANGED <<keyringVars, connVars, slots, signal, history>>

ServeReturns ==
  /\ loop = "waiting" /\ Active = {}
  /\ loop' = "returned"
  /\ UNCHANGED <<keyringVars, connVars, slots, ctx, listener, signal, history>>

\* run's deferred calls: DestroyAll, then the socket is closed and removed.
RunReturns ==
  /\ loop = "returned" /\ loop' = "exited"
  /\ DestroyAll
  /\ listener' = "closed"
  /\ UNCHANGED <<connVars, slots, ctx, signal, history>>

\* SIGINT or SIGTERM.  The goroutine on sigCh destroys the keys, then cancels.
Signal ==
  /\ signal = "none" /\ signal' = "sent"
  /\ UNCHANGED <<keyringVars, connVars, loop, slots, ctx, listener, history>>

ShutDown ==
  /\ signal = "sent" /\ signal' = "destroyed"
  /\ DestroyAll
  /\ UNCHANGED <<connVars, loop, slots, ctx, listener, history>>

Cancel ==
  /\ signal = "destroyed" /\ signal' = "done"
  /\ ctx' = TRUE
  /\ UNCHANGED <<keyringVars, connVars, loop, slots, listener, history>>

\* context.AfterFunc closes the listener, and each connection, that of one that is
\* accepted after the cancel too.
CloseListener ==
  /\ ctx /\ listener = "watched" /\ listener' = "closed"
  /\ UNCHANGED <<keyringVars, connVars, loop, slots, ctx, signal, history>>

CloseConn(c) ==
  /\ ctx /\ c \in Active \ closed
  /\ closed' = closed \cup {c}
  /\ UNCHANGED <<keyringVars, phase, inMemory, serverVars, history>>

\* The termination wipe, which takes the same signal.  What it re-raises goes to
\* sigCh, which stays registered.
TerminationWipe(b) ==
  /\ signal # "none"
  /\ WipeBuffer(b)
  /\ UNCHANGED <<connVars, serverVars, history>>

-----------------------------------------------------------------------------
(* serveConn *)

\* readMessage: the length and part of the message have arrived, it may be of a key.
ReceivePart(c) ==
  /\ phase[c] = "socket" /\ c \notin closed
  /\ inMemory' = inMemory \cup {c}
  /\ phase' = [phase EXCEPT ![c] = "reading"]
  /\ UNCHANGED <<keyringVars, closed, serverVars, history>>

\* readMessage: all of it has.
Receive(c) ==
  /\ phase[c] = "reading" /\ c \notin closed
  /\ phase' = [phase EXCEPT ![c] = "request"]
  /\ UNCHANGED <<keyringVars, inMemory, closed, serverVars, history>>

\* The goroutine's deferred calls: close, return the slot.
EndConn(c) ==
  /\ phase' = [phase EXCEPT ![c] = "absent"]
  /\ closed' = closed \ {c}
  /\ slots' = slots - 1
  /\ UNCHANGED <<keyringVars, loop, ctx, listener, signal, history>>

\* The connection ends with what has arrived of a message still in memory.
IOFailsUnwiped(c) ==
  /\ phase[c] \in {"socket", "reading"}
  /\ UNCHANGED inMemory
  /\ EndConn(c)

\* A disconnect, a bad length, a deadline or the closed connection, in a read or a
\* write: what has arrived of a message is wiped, and the connection ends.
IOFails(c) ==
  /\ phase[c] \in {"socket", "reading"}
  /\ inMemory' = inMemory \ {c}
  /\ EndConn(c)

\* dispatch has returned: wipe the message, write the reply, read the next.
Answer(c) ==
  /\ phase' = [phase EXCEPT ![c] = "socket"]
  /\ inMemory' = inMemory \ {c}
  /\ UNCHANGED <<closed, serverVars>>

-----------------------------------------------------------------------------
(* dispatch *)

\* A parser that skips what it does not know.
parseConstraintsLenient(m) ==
  m.constrained \/ m.constraints = <<>>

\* parseConstraints fails closed: an unconstrained add ends with the comment, and
\* every constraint is a lifetime that is not zero.
parseConstraints(m) ==
  IF m.constrained
  THEN \A i \in DOMAIN m.constraints :
         m.constraints[i].kind = "lifetime" /\ m.constraints[i].secs > 0
  ELSE m.constraints = <<>>

\* req.lifetimeSecs, which every lifetime overwrites.
lifetime(m) ==
  LET given == {i \in DOMAIN m.constraints : m.constraints[i].kind = "lifetime"}
  IN  IF given = {} THEN None ELSE m.constraints[Max(given)].secs

\* What a client that was told "success" may take each of its constraints to mean:
\* the time when signatures end, which is the start where a user has to confirm them.
Granted(constraints) ==
  [i \in DOMAIN constraints |->
     IF constraints[i].kind = "lifetime" THEN wall + constraints[i].secs ELSE 0]

\* c has a message for dispatch, which has not reached the keyring.
Pending(c) == phase[c] = "request" /\ mu # c

\* A message that no parser accepts, or of a type that is not supported.
DispatchMalformed(c) ==
  /\ Pending(c)
  /\ Answer(c)
  /\ UNCHANGED <<keyringVars, history>>

\* errShuttingDown, errLocked, errNotLocked; a buffer that cannot be allocated.
DispatchRefused(c, m) ==
  /\ mu = None
  /\ \/ m.type \in {"sign", "add", "remove"} /\ Refused
     \/ m.type = "lock" /\ (destroyed \/ lockCheck # None)
     \/ m.type = "unlock" /\ (destroyed \/ lockCheck = None)
     \/ m.type \in {"add", "lock", "unlock"}
  /\ Answer(c)
  /\ UNCHANGED <<keyringVars, history>>

DispatchList(c, m) ==
  /\ m.type = "list"
  /\ List
  /\ Answer(c)
  /\ UNCHANGED history

\* One identity or all of them; one that is not there is an error.
DispatchRemove(c, m) ==
  /\ m.type = "remove"
  /\ Remove(m.blobs \cap Held(keys))
  /\ Answer(c)
  /\ UNCHANGED history

DispatchAdd(c, m) ==
  /\ m.type = "add"
  /\ parseConstraints(m)
  /\ AddBegin(c, m.blob, lifetime(m))
  /\ asked' = m.constraints
  /\ UNCHANGED <<connVars, serverVars, until>>

AddReturns(c) ==
  /\ \/ /\ AddEnd(c)
        /\ until' = [until EXCEPT ![call.blob] = Granted(asked)]
     \/ AddFails(c) /\ UNCHANGED until
  /\ asked' = <<>>
  /\ Answer(c)

DispatchSign(c, m) ==
  /\ m.type = "sign"
  /\ \/ SignBegin(c, m.blob) /\ UNCHANGED connVars
     \/ SignRefused /\ Answer(c)
  /\ UNCHANGED <<serverVars, history>>

Signs(c) == Sign(c) /\ UNCHANGED <<connVars, serverVars, history>>

SignReturns(c) ==
  /\ SignEnd(c)
  /\ Answer(c)
  /\ UNCHANGED history

DispatchLock(c, m) ==
  /\ m.type \in {"lock", "unlock"}
  /\ DeriveBegin(c, m.type, m.pass)
  /\ UNCHANGED <<connVars, serverVars, history>>

LockReturns(c) ==
  /\ LockEnd(c) \/ UnlockEnd(c) \/ DeriveFails(c)
  /\ Answer(c)
  /\ UNCHANGED history

-----------------------------------------------------------------------------

Returns(c) == AddReturns(c) \/ Signs(c) \/ SignReturns(c) \/ LockReturns(c)

\* The request is chosen where it is looked at; nothing depends on it before.
Dispatch(c) ==
  \/ DispatchMalformed(c)
  \/ /\ Pending(c)
     /\ \E m \in Requests :
          \/ DispatchRefused(c, m) \/ DispatchList(c, m) \/ DispatchRemove(c, m)
          \/ DispatchAdd(c, m) \/ DispatchSign(c, m) \/ DispatchLock(c, m)

Loop == TakeSlot \/ (\E c \in Conns : Accept(c)) \/ LeaveServe \/ ServeReturns

Timer == expire /\ UNCHANGED <<connVars, serverVars, history>>
Clock == (Tick \/ Suspend) /\ UNCHANGED <<connVars, serverVars, history>>

Next ==
  /\ loop # "exited"
  /\ \/ Loop \/ StopAccepting \/ RunReturns
     \/ Signal \/ ShutDown \/ Cancel \/ CloseListener
     \/ \E b \in Bufs : TerminationWipe(b)
     \/ \E c \in Conns :
          \/ CloseConn(c) \/ ReceivePart(c) \/ Receive(c) \/ IOFails(c)
          \/ Dispatch(c) \/ Returns(c)
     \/ Timer \/ Clock

Running(A) == loop # "exited" /\ A

(***************************************************************************)
(* Fairness.  Goroutines run; sync.Mutex hands k.mu to a waiter that has   *)
(* waited long enough, so whoever needs it gets it in the end; reads and   *)
(* writes have a deadline; time passes.  No client has to send anything,   *)
(* and the listener need not fail.                                         *)
(***************************************************************************)
Fairness ==
  /\ WF_vars(Running(Loop))
  /\ WF_vars(Running(StopAccepting /\ (loop = "slot" \/ listener = "closed")))
  /\ SF_vars(Running(RunReturns)) /\ SF_vars(Running(ShutDown))
  /\ WF_vars(Running(Cancel)) /\ WF_vars(Running(CloseListener))
  /\ \A c \in Conns :
       /\ WF_vars(Running(CloseConn(c)))
       /\ WF_vars(Running(IOFails(c)))
       /\ SF_vars(Running(Dispatch(c)))
       /\ WF_vars(Running(Returns(c)))
  /\ SF_vars(Running(Timer))
  /\ WF_vars(Running(Tick /\ UNCHANGED <<connVars, serverVars, history>>))

Spec == Init /\ [][Next]_vars
FairSpec == Spec /\ Fairness

-----------------------------------------------------------------------------
(* Properties *)

LockBufs == IF lockCheck = None THEN {} ELSE {lockCheck.buf}

\* "After it, key material exists only inside sealed SecureBuffers" (serveConn, of
\* the wipe): whenever nobody is inside k.mu, every SecureBuffer that exists is the
\* lock's or the one of exactly one key, which is sealed or wiped - whatever step of
\* Add, Sign, Lock or Unlock failed, whatever was replaced, removed or expired, and
\* wherever the termination wipe came in; and a message that may hold a key, or the
\* part of one that came in before its client stalled or went away, is in memory only
\* while it is read and dispatched (readMessage).
SecretsSealedAtRest ==
  /\ TypeOK
  /\ mu = None =>
       /\ {b \in Bufs : buffer[b] # "none"} = BufsOf(keys) \cup LockBufs
       /\ Cardinality(BufsOf(keys)) = Cardinality(Held(keys))
       /\ BufsOf(keys) \cap LockBufs = {}
       /\ \A b \in BufsOf(keys) : buffer[b] \in {"sealed", "wiped"}
  /\ \A c \in inMemory : phase[c] \in {"reading", "request"}

\* Within what the add of k was granted: no constraint that the agent does not
\* support, and before the end of the last lifetime.
Allowed(k) ==
  /\ \A i \in DOMAIN until[k] : until[k][i] # 0
  /\ until[k] # <<>> => wall < until[k][Len(until[k])]

\* Sign takes a key out of its seal only within the lifetime that is in force for it
\* (Add: "Sign and List additionally sweep lazily, closing the race at the boundary"),
\* and no key is held under a constraint that the agent does not support
\* (parseConstraints: "Anything other than a well-formed LIFETIME fails the add"),
\* although the timers are late, the machine may have slept past the deadline, and
\* the key may have been added again under another one.
SignsWithinConstraints ==
  [][ call # call' /\ call'.op = "sign" => Allowed(call'.blob) ]_vars

\* Shutdown completes (serve: "a client that is mid-request cannot hold the process
\* open, and once serve has returned nothing it started is still running"): after a
\* signal, or once serve gives up, the process ends with every goroutine gone and
\* no key left, although clients may stall, and connections and requests may come
\* in on the way.
ShutdownCompletes ==
  (signal # "none" \/ loop = "leaving") ~>
    (loop = "exited" /\ Active = {} /\ \A b \in Bufs : buffer[b] = "none")

\* "Enforcement is destruction" (record.expiresAt): a key whose deadline has passed
\* is destroyed in the end, although nobody lists or signs and although its timer
\* stood still while the machine was suspended.  (The wall clock is not set back:
\* a timer fires once, and would find a deadline that is still to come.)
ExpiredIsDestroyed == \A k \in Blobs : (k \in Expired) ~> (k \notin Expired)
=============================================================================
