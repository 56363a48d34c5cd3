------------------------------- MODULE KeyOps -------------------------------
(***************************************************************************)
(* Calls on buffers that goroutines share (secmem-crypto): the operations  *)
(* that borrow one key, ConstantTimeEqual, Argon2Workspace, Argon2Pool and *)
(* Destroy.                                                                *)
(*                                                                         *)
(* A buffer is its LockOrder ordinal.  Its lock, external here, is the one *)
(* BufferLock models: borrowers share it, a Destroy excludes them, and a   *)
(* waiting Destroy holds back new borrowers.  A buffer that a call makes   *)
(* for itself comes after every other in LockOrder and is borrowed last;   *)
(* nobody else knows it, so it is left out here and followed in KeyCalls.  *)
(***************************************************************************)
EXTENDS Naturals, Sequences

CONSTANTS
  Callers,                    \* goroutines
  Keys, Workspaces,           \* buffers that are keys, and those of workspaces
  PoolSpaces,                 \* the workspaces of the pool, which has at least one
  MaxOrder                    \* the largest LockOrder, a uint64

Buffers == Keys \cup Workspaces

ASSUME OpsAssumption ==
  /\ MaxOrder \in Nat /\ Buffers \subseteq 0 .. MaxOrder /\ Keys \cap Workspaces = {}
  /\ PoolSpaces \subseteq Workspaces /\ PoolSpaces # {}

VARIABLES
  call,       \* what each process is in the middle of
  borrowers,  \* buffer -> processes that hold a borrow
  gone,       \* destroyed buffers
  waiting,    \* buffers whose Destroy waits for the lock
  locked,         \* workspaces whose mutex is locked
  free,       \* the pool's channel of workspaces
  pool        \* "open", "done" (the flag is set), "closed" (the channel too)

opsVars == <<call, borrowers, gone, waiting, locked, free, pool>>

\* op is the step p is at, todo the buffers it has yet to borrow, in order,
\* ws the workspace it derives in or those it destroys, taken what it has
\* received from the pool.
Idle == [op |-> "idle", todo |-> <<>>, ws |-> {}, taken |-> {}]

OpsInit ==
  /\ call = [p \in Callers |-> Idle]
  /\ borrowers = [b \in Buffers |-> {}]
  /\ gone = {} /\ waiting = {} /\ locked = {}
  /\ free = PoolSpaces /\ pool = "open"

Start(p, c) ==
  /\ call[p] = Idle /\ call' = [call EXCEPT ![p] = c]
  /\ UNCHANGED <<borrowers, gone, waiting, locked, free, pool>>

\* borrowOrdered, and the same lines in ConstantTimeEqual and Derive.
borrowAsGiven(a, b) == <<a, b>>
borrowOrdered(a, b) == IF a < b THEN <<a, b>> ELSE <<b, a>>

-----------------------------------------------------------------------------
(* Entry points. *)

\* Sign, PublicKey, SharedSecret, Decapsulate, HMACInto, HKDFInto, OpenInto,
\* SealFrom, WithSeed and marshalOpenSSH: one shared buffer.
BorrowOne(p, b) == Start(p, [Idle EXCEPT !.op = "borrow", !.todo = <<b>>])

\* A buffer compared with itself is equal by identity, without a borrow.
ConstantTimeEqual(p, a, b) ==
  a # b /\ Start(p, [Idle EXCEPT !.op = "borrow", !.todo = borrowOrdered(a, b)])

\* Argon2Workspace.Derive and Argon2Workspace.Destroy up to the mutex.
WorkspaceDestroy(p, w) == Start(p, [Idle EXCEPT !.op = "destroyAll", !.ws = {w}])
Derive(p, w, out) == Start(p, [Idle EXCEPT !.op = "derive", !.ws = {w}, !.todo = <<out>>])

\* Argon2Pool.Derive reads the flag under the pool's mutex, and lets go of it.
PoolDerive(p, out) ==
  pool = "open" /\ Start(p, [Idle EXCEPT !.op = "take", !.todo = <<out>>])

\* The receive from the channel of free workspaces.
PoolTake(p) ==
  /\ call[p].op = "take"
  /\ \/ \E w \in free :
          /\ free' = free \ {w}
          /\ call' = [call EXCEPT ![p] = [@ EXCEPT !.op = "derive", !.ws = {w}, !.taken = {w}]]
     \/ pool = "closed" /\ call' = [call EXCEPT ![p] = Idle] /\ UNCHANGED free
  /\ UNCHANGED <<borrowers, gone, waiting, locked, pool>>

\* The workspace's mutex, then both borrows in order.
DeriveLocked(p) ==
  /\ call[p].op = "derive" /\ call[p].ws \cap locked = {}
  /\ locked' = locked \cup call[p].ws
  /\ \E w \in call[p].ws :
       call' = [call EXCEPT ![p] = [call[p] EXCEPT !.op = "borrow", !.todo = borrowOrdered(w, Head(@))]]
  /\ UNCHANGED <<borrowers, gone, waiting, free, pool>>

-----------------------------------------------------------------------------
(* Borrowing and returning. *)

\* The borrows end and the deferred calls run: the workspace's mutex is let
\* go of and the workspace goes back to the pool.
Return(p) ==
  /\ call' = [call EXCEPT ![p] = Idle]
  /\ borrowers' = [b \in Buffers |-> borrowers[b] \ {p}]
  /\ locked' = locked \ call[p].ws
  /\ free' = free \cup call[p].taken
  /\ UNCHANGED <<gone, waiting, pool>>

\* WithBytesErr on the next buffer; a destroyed one is an error.  With all
\* of them borrowed the operation runs, to its result or to an error.
Borrow(p) ==
  /\ call[p].op = "borrow"
  /\ IF call[p].todo = <<>> \/ Head(call[p].todo) \in gone
     THEN Return(p)
     ELSE /\ Head(call[p].todo) \notin waiting
          /\ borrowers' = [borrowers EXCEPT ![Head(call[p].todo)] = @ \cup {p}]
          /\ call' = [call EXCEPT ![p].todo = Tail(@)]
          /\ UNCHANGED <<gone, waiting, locked, free, pool>>

-----------------------------------------------------------------------------
(* Destroy. *)

\* The Destroy of a key.
Destroy(b) ==
  /\ b \in Keys \ (gone \cup waiting)
  /\ waiting' = waiting \cup {b}
  /\ UNCHANGED <<call, borrowers, gone, locked, free, pool>>

\* The buffer's Destroy has the lock; a workspace's returns and unlocks the mutex.
Destroyed(b) ==
  /\ b \in waiting /\ borrowers[b] = {}
  /\ gone' = gone \cup {b} /\ waiting' = waiting \ {b} /\ locked' = locked \ {b}
  /\ UNCHANGED <<call, borrowers, free, pool>>

\* Argon2Pool.Destroy: set the flag (a second call returns at once), take
\* every workspace back, close the channel, destroy them one by one.  A
\* NewArgon2Pool that fails does the same with those it has made so far.
PoolDestroy(p) ==
  /\ call[p] = Idle /\ pool = "open" /\ pool' = "done"
  /\ call' = [call EXCEPT ![p].op = "drain"]
  /\ UNCHANGED <<borrowers, gone, waiting, locked, free>>

PoolDrain(p) ==
  /\ call[p].op = "drain"
  /\ \/ \E w \in free : /\ free' = free \ {w}
                        /\ call' = [call EXCEPT ![p].taken = @ \cup {w}]
                        /\ UNCHANGED pool
     \/ /\ call[p].taken = PoolSpaces /\ pool' = "closed" /\ UNCHANGED free
        /\ call' = [call EXCEPT ![p] = [Idle EXCEPT !.op = "destroyAll", !.ws = PoolSpaces]]
  /\ UNCHANGED <<borrowers, gone, waiting, locked>>

\* One workspace after the other: its mutex, then its buffer.  The Destroy of
\* one that is destroyed changes nothing.
DestroyAll(p) ==
  /\ call[p].op = "destroyAll"
  /\ IF call[p].ws \subseteq gone
     THEN call' = [call EXCEPT ![p] = Idle] /\ UNCHANGED <<waiting, locked>>
     ELSE /\ waiting \cap call[p].ws = {} /\ UNCHANGED call
          /\ \E w \in call[p].ws \ (gone \cup locked) :
               waiting' = waiting \cup {w} /\ locked' = locked \cup {w}
  /\ UNCHANGED <<borrowers, gone, free, pool>>

-----------------------------------------------------------------------------

Enter(p) ==
  \/ \E b \in Keys : BorrowOne(p, b) \/ PoolDerive(p, b)
  \/ \E a, b \in Keys : ConstantTimeEqual(p, a, b)
  \/ \E w \in Workspaces \ PoolSpaces : WorkspaceDestroy(p, w) \/ \E b \in Keys : Derive(p, w, b)
  \/ PoolDestroy(p)

OpsNext ==
  \/ \E p \in Callers : \/ Enter(p) \/ PoolTake(p) \/ DeriveLocked(p) \/ Borrow(p)
                      \/ PoolDrain(p) \/ DestroyAll(p)
  \/ \E b \in Buffers : Destroy(b) \/ Destroyed(b)

\* A call in progress goes on.  The mutex and the channel serve their waiters
\* in turn, as sync.Mutex and Go channels do.
OpsFairness ==
  /\ \A p \in Callers : /\ WF_opsVars(Borrow(p)) /\ SF_opsVars(DestroyAll(p))
                      /\ SF_opsVars(PoolTake(p)) /\ SF_opsVars(PoolDrain(p))
                      /\ SF_opsVars(DeriveLocked(p))
  /\ \A b \in Buffers : WF_opsVars(Destroyed(b))

\* No order of calls wedges the keys (x25519.go:190, argon2_workspace.go:85,
\* 169, 187): every call returns and every Destroy completes, though borrows
\* nest, a waiting Destroy stops new borrows, and a pool is destroyed while
\* derivations hold, or wait for, its workspaces.
CallsReturn ==
  /\ \A p \in Callers : call[p] # Idle ~> call[p] = Idle
  /\ \A b \in Buffers : b \in waiting ~> b \in gone

-----------------------------------------------------------------------------
(* Who waits for whom. *)

\* The next step of p's call can be taken.
Moves(p) ==
  LET c == call[p] IN
  \/ c.op = "take" /\ (free # {} \/ pool = "closed")
  \/ c.op = "derive" /\ c.ws \cap locked = {}
  \/ c.op = "borrow" /\ (c.todo = <<>> \/ Head(c.todo) \in gone \/ Head(c.todo) \notin waiting)
  \/ c.op = "drain" /\ (free # {} \/ c.taken = PoolSpaces)
  \/ /\ c.op = "destroyAll"
     /\ \/ c.ws \subseteq gone
        \/ waiting \cap c.ws = {} /\ ~(c.ws \subseteq gone \cup locked)

\* The Destroys that p waits for: of the buffer it borrows next, or of a
\* workspace whose mutex it wants.
AwaitedDestroys(p) ==
  LET c == call[p] IN
  {b \in waiting : \/ c.op = "borrow" /\ c.todo # <<>> /\ b = Head(c.todo)
                   \/ c.op \in {"derive", "destroyAll"} /\ b \in c.ws}

\* The calls that p waits for: those inside a workspace it wants, or with one
\* that the pool misses.
AwaitedCalls(p) ==
  LET c == call[p] IN
  {q \in Callers \ {p} :
     \/ c.op \in {"derive", "destroyAll"} /\ call[q].op = "borrow" /\ c.ws \cap call[q].ws # {}
     \/ c.op \in {"take", "drain"} /\ free = {} /\ pool # "closed" /\ call[q].taken # {}}

\* A call that cannot go on waits for a call or a Destroy that is under way
\* (no lock or workspace is left behind by one that has ended), and nobody
\* waits in a circle: in no set of calls and of Destroys does each one wait for
\* another of the set (x25519.go:203, argon2_workspace.go:79).  No call has a
\* workspace to send back when the pool's channel is closed
\* (argon2_workspace.go:196).
NeverWedged ==
  /\ \A p \in Callers :
       call[p] # Idle => Moves(p) \/ AwaitedCalls(p) # {} \/ AwaitedDestroys(p) # {}
  /\ \A C \in SUBSET Callers, B \in SUBSET waiting :
       /\ \A p \in C : AwaitedCalls(p) \cap C # {} \/ AwaitedDestroys(p) \cap B # {}
       /\ \A b \in B : borrowers[b] \cap C # {}
       => C = {} /\ B = {}
  /\ pool = "closed" => \A p \in Callers : call[p].taken = {}
=============================================================================
