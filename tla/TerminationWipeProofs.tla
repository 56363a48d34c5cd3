------------------------ MODULE TerminationWipeProofs ------------------------
(***************************************************************************)
(* Proofs about TerminationWipe, for any signals, any number of secrets,   *)
(* every way of installing the handler and any number of signals sent:     *)
(* type correctness, and that the handler lets go of the process only when *)
(* what the signal found is wiped, destroyed, could not be wiped or is     *)
(* left to a wipe that the timer cut short.                                *)
(*                                                                         *)
(* None of it depends on fairness.                                         *)
(***************************************************************************)
EXTENDS TerminationWipe, TLAPS

\* Zeroed, or in Destroy's hands, or its pages could not be made writable.
Settled(s) == secret[s] \in {"wiped", "destroying", "unwiped"} \/ s \in skipped

\* Where a secret that a signal found can be while the signal is handled: the
\* list the wipe works from was made after the signal came in.
OwedInv ==
  /\ \A s \in owed : secret[s] # "none"
  /\ pc = "wait" => \A s \in taken : Settled(s) \/ Pending("current", s)
  /\ pc # "wait" => \A s \in taken : Settled(s) \/ (~ completed /\ LeftToTheWipe(s))

\* What a callback has, or had when the first pass came to it, is on record.
BusyInv ==
  /\ \A s \in Secrets : secret[s] = "borrowed" => s \in busy
  /\ wipe["current"].two \subseteq busy

\* A signal is being handled between its receipt and the re-raise.
SigInv == pc \in {"wait", "stop", "complete"} => sig \in Signals

IInv == TypeOK /\ OwedInv /\ BusyInv /\ SigInv

\* The handler starts with no secret and no signal.
LEMMA InitIInv == Init => IInv
<1> SUFFICES ASSUME Init PROVE IInv
  OBVIOUS
<1> USE DEF Init, Wipes, NoWork, Pending
<1>1. TypeOK
  <2>1. done \in BOOLEAN /\ told \in BOOLEAN /\ completed \in BOOLEAN
        /\ (registered <=> pc \in {"select", "wait", "stop"})
    BY Zenon
  <2>2. QED
    BY <2>1, TerminationAssumption DEF TypeOK
<1>2. OwedInv /\ BusyInv /\ SigInv
  BY DEF OwedInv, BusyInv, SigInv
<1>3. QED
  BY <1>1, <1>2 DEF IInv

\* The records of the passes: what taking a secret off the lists leaves.
LEMMA UnlistKeeps ==
  ASSUME wipe \in [Wipes -> [one : SUBSET Secrets, two : SUBSET Secrets]],
         NEW s \in Secrets, Unlist(s)
  PROVE  /\ wipe' \in [Wipes -> [one : SUBSET Secrets, two : SUBSET Secrets]]
         /\ \A w \in Wipes : /\ wipe'[w].one = wipe[w].one \ {s}
                             /\ wipe'[w].two = wipe[w].two \ {s}
BY DEF Unlist, Wipes

\* ... and what a pass leaves that takes it off its own list only.
LEMMA ListsKeeps ==
  ASSUME wipe \in [Wipes -> [one : SUBSET Secrets, two : SUBSET Secrets]],
         NEW w \in Wipes, NEW one \in SUBSET Secrets, NEW two \in SUBSET Secrets,
         Lists(w, one, two)
  PROVE  /\ wipe' \in [Wipes -> [one : SUBSET Secrets, two : SUBSET Secrets]]
         /\ wipe'[w].one = one /\ wipe'[w].two = two
         /\ \A v \in Wipes \ {w} : wipe'[v] = wipe[v]
BY DEF Lists, Wipes

\* Every step keeps the inductive invariant.
LEMMA NextIInv == IInv /\ [Next]_vars => IInv'
<1> SUFFICES ASSUME IInv, [Next]_vars PROVE IInv'
  OBVIOUS
<1> USE DEF IInv, TypeOK, OwedInv, BusyInv, SigInv, Settled, LeftToTheWipe, Pending, handler, secrets,
            ghosts
<1>1. CASE UNCHANGED vars
  BY <1>1 DEF vars
<1>2. ASSUME Next PROVE IInv'
  <2> USE <1>2 DEF Next
  <2> "current" \in Wipes /\ "late" \in Wipes
    BY DEF Wipes
  <2>1. CASE Receive
    <3>1. wipe' \in [Wipes -> [one : SUBSET Secrets, two : SUBSET Secrets]]
      BY <2>1 DEF Receive, Filed
    <3>2. wipe'["current"] = [one |-> Filed, two |-> {}] /\ wipe'["late"] = wipe["late"]
      BY <2>1 DEF Receive, Wipes
    <3>3. TypeOK'
      BY <2>1, <3>1, <3>2 DEF Receive, Filed, Wipes
    <3>4. OwedInv' /\ BusyInv' /\ SigInv'
      BY <2>1, <3>2 DEF Receive, Filed
    <3>5. QED
      BY <3>3, <3>4
  <2>2. CASE wipeAllSecretsBounded
    <3>1. CASE UNCHANGED wipe /\ wipe["current"] = NoWork /\ completed'
      BY <2>2, <3>1, SMTT(30) DEF wipeAllSecretsBounded, NoWork
    <3>2. CASE ~ completed' /\ completed' \in BOOLEAN
               /\ wipe' = [current |-> NoWork,
                           late |-> [one |-> wipe["late"].one \cup wipe["current"].one,
                                     two |-> wipe["late"].two \cup wipe["current"].two]]
      <4>1. /\ wipe' \in [Wipes -> [one : SUBSET Secrets, two : SUBSET Secrets]]
            /\ wipe'["current"] = NoWork
            /\ wipe'["late"].one = wipe["late"].one \cup wipe["current"].one
            /\ wipe'["late"].two = wipe["late"].two \cup wipe["current"].two
        BY <3>2 DEF Wipes, NoWork
      <4>2. NoWork.one = {} /\ NoWork.two = {}
        BY DEF NoWork
      <4>3. TypeOK'
        BY <2>2, <3>2, <4>1, <4>2 DEF wipeAllSecretsBounded, Wipes
      <4>4. OwedInv' /\ BusyInv' /\ SigInv'
        BY <2>2, <3>2, <4>1, <4>2 DEF wipeAllSecretsBounded
      <4>5. QED
        BY <4>3, <4>4
    <3>3. QED
      BY <2>2, <3>1, <3>2, Zenon DEF wipeAllSecretsBounded
  <2>3. CASE Stop
    BY <2>3 DEF Stop
  <2>4. CASE completeTermination
    BY <2>4 DEF completeTermination
  <2>5. CASE Rearm \/ SelectDone
    BY <2>5 DEF Rearm, SelectDone
  <2>6. ASSUME NEW s \in Secrets, Create(s) \/ Borrow(s) \/ EndBorrow(s) \/ DestroyEnd(s)
        PROVE  IInv'
    <3>1. CASE Create(s) \/ EndBorrow(s)
      BY <2>6, <3>1 DEF Create, EndBorrow, Becomes, Outside
    <3>2. CASE Borrow(s)
      BY <2>6, <3>2 DEF Borrow, Becomes, Outside
    <3>3. CASE DestroyEnd(s)
      <4>1. /\ secret[s] = "destroying" /\ secret' \in [Secrets -> {"none", "live", "borrowed",
                                              "destroying", "wiped", "unwiped"}]
            /\ secret'[s] \in {"wiped", "unwiped"}
            /\ \A t \in Secrets \ {s} : secret'[t] = secret[t]
            /\ Outside /\ UNCHANGED <<wipe, busy, skipped>>
        BY <2>6, <3>3 DEF DestroyEnd, Becomes
      <4>2. QED
        BY <4>1 DEF Outside
    <3>4. QED
      BY <2>6, <3>1, <3>2, <3>3
  <2>7. ASSUME NEW s \in Secrets, DestroyBegin(s) PROVE IInv'
    <3>1. Unlist(s)
      BY <2>7 DEF DestroyBegin
    <3>2. QED
      BY <2>7, <3>1, UnlistKeeps DEF DestroyBegin, Becomes, Outside
  <2>8. ASSUME NEW s \in Secrets, NEW w \in Wipes, WipePassOne(w, s) \/ WipePassTwo(w, s)
        PROVE  IInv'
    <3> UNCHANGED <<process, handler, inflight, told, ghosts, busy>>
      BY <2>8 DEF WipePassOne, WipePassTwo, Outside
    <3>1. CASE Zeroed(s)
      <4>1. Unlist(s)
        BY <3>1 DEF Zeroed
      <4>2. QED
        BY <3>1, <4>1, UnlistKeeps DEF Zeroed
    <3>2. ASSUME NEW one \in {wipe[w].one, wipe[w].one \ {s}},
                 NEW two \in {wipe[w].two, wipe[w].two \ {s}},
                 Skipped(w, s), Lists(w, one, two)
          PROVE  IInv'
      <4>1. /\ wipe' \in [Wipes -> [one : SUBSET Secrets, two : SUBSET Secrets]]
            /\ wipe'[w].one = one /\ wipe'[w].two = two
            /\ \A v \in Wipes \ {w} : wipe'[v] = wipe[v]
        BY <3>2, ListsKeeps
      <4>2. TypeOK' /\ BusyInv' /\ SigInv'
        BY <3>2, <4>1, SMTT(30) DEF Skipped
      <4>3. OwedInv'
        <5>1. CASE w = "current"
          BY <3>2, <4>1, <5>1 DEF Skipped, Wipes
        <5>2. CASE w = "late"
          BY <3>2, <4>1, <5>2 DEF Skipped, Wipes
        <5>3. QED
          BY <5>1, <5>2 DEF Wipes
      <4>4. QED
        BY <4>2, <4>3
    <3>3. CASE secret[s] = "borrowed" /\ Deferred(w, s) /\ s \in wipe[w].one
      <4>1. /\ wipe' \in [Wipes -> [one : SUBSET Secrets, two : SUBSET Secrets]]
            /\ wipe'[w].one = wipe[w].one \ {s} /\ wipe'[w].two = wipe[w].two \cup {s}
            /\ \A v \in Wipes \ {w} : wipe'[v] = wipe[v]
        <5>1. wipe[w].one \ {s} \in SUBSET Secrets /\ wipe[w].two \cup {s} \in SUBSET Secrets
          OBVIOUS
        <5>2. QED
          BY <3>3, <5>1, ListsKeeps DEF Deferred
      <4>2. TypeOK' /\ BusyInv' /\ SigInv'
        BY <3>3, <4>1 DEF Deferred, Wipes
      <4>3. OwedInv'
        <5>1. CASE w = "current"
          BY <3>3, <4>1, <5>1 DEF Deferred, Wipes
        <5>2. CASE w = "late"
          BY <3>3, <4>1, <5>2 DEF Deferred, Wipes
        <5>3. QED
          BY <5>1, <5>2 DEF Wipes
      <4>4. QED
        BY <4>2, <4>3
    <3>4. QED
      BY <2>8, <3>1, <3>2, <3>3 DEF WipePassOne, WipePassTwo
  <2>9. ASSUME NEW n \in Signals, Kill(n) PROVE IInv'
    BY <2>9, TerminationAssumption DEF Kill, Deliver, Filed
  <2>10. ASSUME NEW n \in Signals, Echo(n) PROVE IInv'
    <3>1. told' \in BOOLEAN
      BY <2>10, Zenon DEF Echo
    <3>2. QED
      BY <3>1, <2>10 DEF Echo, Deliver
  <2>11. CASE CoHandlerExits
    BY <2>11 DEF CoHandlerExits
  <2>12. CASE uninstall
    <3>1. done' \in BOOLEAN
      BY <2>12, Zenon DEF uninstall
    <3>2. QED
      BY <3>1, <2>12 DEF uninstall
  <2>13. QED
    BY <2>1, <2>2, <2>3, <2>4, <2>5, <2>6, <2>7, <2>8, <2>9, <2>10, <2>11, <2>12
    DEF Handler
<1>3. QED
  BY <1>1, <1>2

\* The inductive invariant holds of the handler, whatever the scheduler does.
THEOREM Invariance == Spec => []IInv
BY InitIInv, NextIInv, PTL DEF Spec

\* WipedBeforeExit, with the types of the handler's state, for any number of
\* secrets and signals (wipeAllSecretsBounded before signal.Stop).
THEOREM Wiped == Spec => []WipedBeforeExit
<1>1. IInv => WipedBeforeExit
  BY DEF IInv, OwedInv, Settled, WipedBeforeExit
<1>2. QED
  BY <1>1, Invariance, PTL
=============================================================================
