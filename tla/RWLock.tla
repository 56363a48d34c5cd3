------------------------------- MODULE RWLock -------------------------------
(***************************************************************************)
(* What bufferRWLock promises its callers (src/buflock.go): shared access  *)
(* for any number of readers, exclusive access for one writer, and writer  *)
(* preference - from the moment a writer has announced itself, nobody else *)
(* is let in as a reader until no writer holds or wants the lock.          *)
(*                                                                         *)
(* The lock is described by who is inside and who has announced a write;   *)
(* the words, flags and wait queues that implement it are BufferLock's.    *)
(***************************************************************************)
EXTENDS FiniteSets

CONSTANT Procs      \* the goroutines using one lock

VARIABLES
  reading,          \* the processes that hold shared access
  writing,          \* the processes that hold exclusive access
  announced         \* the processes that wait for exclusive access

vars == <<reading, writing, announced>>

Init ==
  /\ reading = {}
  /\ writing = {}
  /\ announced = {}

\* Nobody who writes, or has asked to write, is in play.
NoWriter == writing = {} /\ announced = {}

BeginRead(p) ==
  /\ p \notin reading
  /\ NoWriter
  /\ reading' = reading \cup {p}
  /\ UNCHANGED <<writing, announced>>

EndRead(p) ==
  /\ p \in reading
  /\ reading' = reading \ {p}
  /\ UNCHANGED <<writing, announced>>

AnnounceWrite(p) ==
  /\ p \notin reading \cup writing \cup announced
  /\ announced' = announced \cup {p}
  /\ UNCHANGED <<reading, writing>>

BeginWrite(p) ==
  /\ p \in announced
  /\ reading = {}
  /\ writing = {}
  /\ announced' = announced \ {p}
  /\ writing' = {p}
  /\ UNCHANGED reading

\* tryLock never barges ahead of a writer that is already waiting.
TryWrite(p) ==
  /\ reading = {}
  /\ NoWriter
  /\ writing' = {p}
  /\ UNCHANGED <<reading, announced>>

EndWrite(p) ==
  /\ p \in writing
  /\ writing' = writing \ {p}
  /\ UNCHANGED <<reading, announced>>

Next ==
  \E p \in Procs :
    \/ BeginRead(p) \/ EndRead(p)
    \/ AnnounceWrite(p) \/ BeginWrite(p) \/ TryWrite(p) \/ EndWrite(p)

Spec == Init /\ [][Next]_vars
=============================================================================
