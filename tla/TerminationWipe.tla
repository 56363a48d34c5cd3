--------------------------- MODULE TerminationWipe ---------------------------
(***************************************************************************)
(* The opt-in termination-signal wipe (src/terminationwipe.go): the        *)
(* handler goroutine of InstallTerminationWipe, from the signal to the     *)
(* re-raise, the forced exit or the re-registration.                       *)
(*                                                                         *)
(* WipeAllSecrets is taken at what module Janitor shows of it: the first   *)
(* pass tries each secret once and leaves the borrowed ones to the second, *)
(* which waits for each; a secret whose pages cannot be made writable is   *)
(* skipped, and one that Destroy has taken is none of its business.  The   *)
(* goroutine that runs it goes on when the handler has stopped waiting.    *)
(* The kernel and os/signal are external: a signal goes to every           *)
(* registered channel that has room, and to the disposition when no        *)
(* channel is registered.  Callbacks need never return.                    *)
(***************************************************************************)
EXTENDS Integers, FiniteSets

CONSTANTS
  Signals,          \* the signals the handler is installed for
  Secrets,
  Installs,         \* the ways in which the handler may be installed
  MaxSignals,       \* bound on the signals sent from outside
  NoSignal

ASSUME TerminationAssumption ==
  /\ IsFiniteSet(Signals) /\ IsFiniteSet(Secrets)
  /\ Installs \subseteq
       [forceExit : BOOLEAN, reraisable : BOOLEAN, inherited : SUBSET Signals,
        coHandler : {"none", "before", "after"}]
  /\ MaxSignals \in Nat
  /\ NoSignal \notin Signals

VARIABLES
  install,          \* the one of Installs this process did
  process,          \* "running", or what ended the process
  pc,               \* where the handler goroutine is
  registered,       \* whether its channel is registered with os/signal
  ch,               \* the channel: it has room for one signal
  sig,              \* the signal being handled
  done,             \* whether uninstall closed the done channel
  inflight,         \* the re-raised signals the kernel has yet to deliver
  told,             \* whether the co-handler has received a re-raised signal
  secret,           \* each secret's state
  wipe,             \* what each pass has yet to do: of the wipe the handler
                    \* waits for, and of those it has given up waiting for
  completed,        \* what the last wipeAllSecretsBounded returned
  owed,             \* the secrets that were there when a signal came in
  taken,            \* owed, for the signal being handled
  busy,             \* the secrets borrowed at some time since it was taken
  skipped,          \* those whose pages could not be made writable since then
  sent              \* signals sent from outside

handler == <<pc, registered, ch, sig, done, completed>>
secrets == <<secret, wipe, busy, skipped>>
ghosts == <<owed, taken, sent>>
vars == <<install, process, handler, inflight, told, secrets, ghosts>>

Wipes == {"current", "late"}
NoWork == [one |-> {}, two |-> {}]

ForceExit == install.forceExit    \* InstallTerminationWipe, not the NoExit one
Reraisable == install.reraisable  \* the platform re-raises: FALSE on Windows
Inherited == install.inherited    \* what the process was started with ignored
CoHandler == install.coHandler    \* when the application registered its own handler

\* Wipe w has yet to zero s.
Pending(w, s) == s \in wipe[w].one \cup wipe[w].two

TypeOK ==
  /\ install \in Installs
  /\ process \in {"running", "disposition", "exit", "cohandler"}
  /\ pc \in {"select", "wait", "stop", "complete", "rearm", "gone"}
  /\ registered <=> pc \in {"select", "wait", "stop"}
  /\ ch \in Signals \cup {NoSignal}
  /\ sig \in Signals \cup {NoSignal}
  /\ done \in BOOLEAN /\ told \in BOOLEAN /\ completed \in BOOLEAN
  /\ inflight \subseteq Signals
  /\ secret \in [Secrets -> {"none", "live", "borrowed", "destroying", "wiped", "unwiped"}]
  /\ wipe \in [Wipes -> [one : SUBSET Secrets, two : SUBSET Secrets]]
  /\ \A w \in Wipes, s \in Secrets : Pending(w, s) => secret[s] \in {"live", "borrowed"}
  /\ \A s \in Secrets : Pending("current", s) => pc = "wait"
  /\ owed \subseteq Secrets /\ taken \subseteq Secrets
  /\ busy \subseteq Secrets /\ skipped \subseteq Secrets
  /\ sent \in 0 .. MaxSignals

-----------------------------------------------------------------------------

\* The secrets the registry holds.
Filed == {s \in Secrets : secret[s] \in {"live", "borrowed"}}

(***************************************************************************)
(* recordInheritedIgnores: read before this handler's Notify, and hidden   *)
(* by a co-handler that registered earlier.                                *)
(***************************************************************************)
recordInheritedIgnores == IF CoHandler = "before" THEN {} ELSE Inherited

(***************************************************************************)
(* os/signal and the kernel deliver signal n.  A send to a full channel is *)
(* dropped.  With no channel registered the disposition applies, and an    *)
(* inherited ignore is restored by Stop.                                   *)
(***************************************************************************)
Deliver(n) ==
  /\ ch' = IF registered /\ ch = NoSignal THEN n ELSE ch
  /\ process' = IF registered \/ CoHandler # "none" \/ n \in Inherited
                THEN process ELSE "disposition"

(***************************************************************************)
(* installTerminationWipeHooks has recorded the inherited ignores,         *)
(* registered its channel and started the handler goroutine.               *)
(***************************************************************************)
Init ==
  /\ install \in Installs
  /\ process = "running"
  /\ pc = "select" /\ registered = TRUE /\ done = FALSE
  /\ ch = NoSignal /\ sig = NoSignal
  /\ inflight = {} /\ told = FALSE
  /\ secret = [s \in Secrets |-> "none"]
  /\ wipe = [w \in Wipes |-> NoWork] /\ completed = FALSE
  /\ owed = {} /\ taken = {} /\ busy = {} /\ skipped = {} /\ sent = 0

(***************************************************************************)
(* The rest of the process: secrets come, are borrowed and destroyed, the  *)
(* co-handler may exit, the application may uninstall the handler.         *)
(***************************************************************************)
Outside == UNCHANGED <<process, handler, inflight, told, ghosts>>

Becomes(s, from, to) ==
  /\ secret[s] = from
  /\ secret' = [secret EXCEPT ![s] = to]
  /\ Outside

Create(s) == Becomes(s, "none", "live") /\ UNCHANGED <<wipe, busy, skipped>>
EndBorrow(s) == Becomes(s, "borrowed", "live") /\ UNCHANGED <<wipe, busy, skipped>>

Borrow(s) ==
  /\ Becomes(s, "live", "borrowed")
  /\ busy' = busy \cup {s}
  /\ UNCHANGED <<wipe, skipped>>

\* Nothing is left of s for any wipe to find.
Unlist(s) == wipe' = [w \in Wipes |-> [one |-> wipe[w].one \ {s}, two |-> wipe[w].two \ {s}]]

\* Destroy takes the region out of the registry, zeroes and unmaps it; without
\* write access it is unmapped as it is (wipeAndFree).
DestroyBegin(s) == Becomes(s, "live", "destroying") /\ Unlist(s) /\ UNCHANGED <<busy, skipped>>
DestroyEnd(s) ==
  /\ \/ Becomes(s, "destroying", "wiped")
     \/ Becomes(s, "destroying", "unwiped")
  /\ UNCHANGED <<wipe, busy, skipped>>

CoHandlerExits ==
  /\ CoHandler # "none"
  /\ process' = "cohandler"
  /\ UNCHANGED <<handler, inflight, told, secrets, ghosts>>

uninstall ==
  /\ ~ done
  /\ done' = TRUE
  /\ UNCHANGED <<process, pc, registered, ch, sig, completed, inflight, told, secrets,
                 ghosts>>

(***************************************************************************)
(* A termination signal arrives, from outside or as the re-raise's echo.   *)
(***************************************************************************)
Kill(n) ==
  /\ sent < MaxSignals
  /\ sent' = sent + 1
  /\ Deliver(n)
  /\ owed' = IF registered THEN owed \cup Filed ELSE owed
  /\ UNCHANGED <<pc, registered, sig, done, completed, inflight, told, secrets, taken>>

Echo(n) ==
  /\ n \in inflight
  /\ inflight' = inflight \ {n}
  /\ Deliver(n)
  /\ told' = (told \/ CoHandler # "none")
  /\ UNCHANGED <<pc, registered, sig, done, completed, secrets, ghosts>>

-----------------------------------------------------------------------------

(***************************************************************************)
(* The handler takes a signal and starts WipeAllSecrets in a goroutine,    *)
(* which lists what the registry holds.                                    *)
(***************************************************************************)
Receive ==
  /\ pc = "select" /\ ch # NoSignal
  /\ pc' = "wait" /\ sig' = ch /\ ch' = NoSignal
  /\ wipe' = [wipe EXCEPT !["current"] = [one |-> Filed, two |-> {}]]
  /\ busy' = {s \in Secrets : secret[s] = "borrowed"} /\ skipped' = {}
  /\ taken' = owed /\ owed' = {}
  /\ UNCHANGED <<process, registered, done, completed, inflight, told, secret, sent>>

(***************************************************************************)
(* The wipe's two passes over the list.  A secret is zeroed, or its pages  *)
(* cannot be made writable and it is skipped: that is in the error of      *)
(* WipeAllSecrets, which this caller discards.  The first pass leaves a    *)
(* borrowed one to the second, which waits for its callback.               *)
(***************************************************************************)
Zeroed(s) ==
  /\ secret[s] = "live"
  /\ secret' = [secret EXCEPT ![s] = "wiped"]
  /\ Unlist(s)
  /\ UNCHANGED skipped

Lists(w, one, two) == wipe' = [wipe EXCEPT ![w] = [one |-> one, two |-> two]]

Skipped(w, s) ==
  /\ secret[s] = "live"
  /\ skipped' = IF w = "late" /\ Pending("current", s) THEN skipped ELSE skipped \cup {s}
  /\ UNCHANGED secret

Deferred(w, s) ==
  /\ Lists(w, wipe[w].one \ {s}, wipe[w].two \cup {s})
  /\ UNCHANGED <<secret, skipped>>

\* The first pass leaves everything to the second.
WipePassOneDefers(w, s) ==
  /\ s \in wipe[w].one
  /\ Deferred(w, s)
  /\ Outside /\ UNCHANGED busy

WipePassOne(w, s) ==
  /\ s \in wipe[w].one
  /\ \/ Zeroed(s)
     \/ Skipped(w, s) /\ Lists(w, wipe[w].one \ {s}, wipe[w].two)
     \/ secret[s] = "borrowed" /\ Deferred(w, s)
  /\ Outside /\ UNCHANGED busy

WipePassTwo(w, s) ==
  /\ wipe[w].one = {} /\ s \in wipe[w].two
  /\ \/ Zeroed(s)
     \/ Skipped(w, s) /\ Lists(w, wipe[w].one, wipe[w].two \ {s})
  /\ Outside /\ UNCHANGED busy

(***************************************************************************)
(* wipeAllSecretsBounded returns: the wipe has finished, or the timer has  *)
(* fired, wherever the wipe is.  What is left of it goes on by itself.     *)
(***************************************************************************)
wipeAllSecretsBoundedUntimed ==
  /\ pc = "wait" /\ pc' = "stop"
  /\ wipe["current"] = NoWork /\ completed' = TRUE
  /\ UNCHANGED <<process, registered, ch, sig, done, inflight, told, secrets, ghosts>>

wipeAllSecretsBounded ==
  /\ pc = "wait" /\ pc' = "stop"
  /\ \/ /\ wipe["current"] = NoWork /\ completed' = TRUE
        /\ UNCHANGED wipe
     \/ /\ completed' = FALSE
        /\ wipe' = [current |-> NoWork,
                    late |-> [one |-> wipe["late"].one \cup wipe["current"].one,
                              two |-> wipe["late"].two \cup wipe["current"].two]]
  /\ UNCHANGED <<process, registered, ch, sig, done, inflight, told, secret, busy, skipped,
                 ghosts>>

(***************************************************************************)
(* signal.Stop: deregister this channel and no other.                      *)
(***************************************************************************)
Stop ==
  /\ pc = "stop" /\ pc' = "complete"
  /\ registered' = FALSE
  /\ UNCHANGED <<process, ch, sig, done, completed, inflight, told, secrets, ghosts>>

(***************************************************************************)
(* completeTermination: re-raise where that has an effect, otherwise exit, *)
(* or warn and report that the handler should stay.                        *)
(***************************************************************************)
completeTermination ==
  /\ pc = "complete"
  /\ LET reraised == Reraisable /\ sig \notin recordInheritedIgnores IN
       \/ /\ reraised
          /\ pc' = "gone" /\ inflight' = inflight \cup {sig}
          /\ UNCHANGED process
       \/ /\ ~ reraised /\ ForceExit
          /\ process' = "exit"
          /\ UNCHANGED <<pc, inflight>>
       \/ /\ ~ reraised /\ ~ ForceExit
          /\ pc' = "rearm"
          /\ UNCHANGED <<process, inflight>>
  /\ UNCHANGED <<registered, ch, sig, done, completed, told, secrets, ghosts>>

(***************************************************************************)
(* Nothing was re-raised and the process lives: register again.            *)
(***************************************************************************)
RearmOneShot ==
  /\ pc = "rearm" /\ pc' = "gone"
  /\ UNCHANGED <<process, registered, ch, sig, done, completed, inflight, told, secrets,
                 ghosts>>

Rearm ==
  /\ pc = "rearm" /\ pc' = "select"
  /\ registered' = TRUE
  /\ UNCHANGED <<process, ch, sig, done, completed, inflight, told, secrets, ghosts>>

SelectDone ==
  /\ pc = "select" /\ done
  /\ pc' = "gone" /\ registered' = FALSE
  /\ UNCHANGED <<process, ch, sig, done, completed, inflight, told, secrets, ghosts>>

-----------------------------------------------------------------------------

Handler ==
  \/ Receive \/ wipeAllSecretsBounded \/ Stop \/ completeTermination
  \/ Rearm \/ SelectDone

Next ==
  /\ process = "running"
  /\ \/ Handler
     \/ \E s \in Secrets :
          \/ Create(s) \/ Borrow(s) \/ EndBorrow(s) \/ DestroyBegin(s) \/ DestroyEnd(s)
          \/ \E w \in Wipes : WipePassOne(w, s) \/ WipePassTwo(w, s)
     \/ \E n \in Signals : Kill(n) \/ Echo(n)
     \/ CoHandlerExits \/ uninstall
  /\ UNCHANGED install

Running(A) == process = "running" /\ A /\ UNCHANGED install

(***************************************************************************)
(* The runtime schedules the handler goroutine and those of the wipe, and  *)
(* the timer fires; the kernel delivers what was re-raised; a Destroy that *)
(* has begun ends.  Nobody promises that a callback returns or that the    *)
(* co-handler exits.                                                       *)
(***************************************************************************)
Fairness ==
  /\ WF_vars(Running(Handler))
  /\ \A s \in Secrets :
       /\ WF_vars(Running(DestroyEnd(s)))
       /\ \A w \in Wipes : WF_vars(Running(WipePassOne(w, s) \/ WipePassTwo(w, s)))
  /\ \A n \in Signals : WF_vars(Running(Echo(n)))

Spec == Init /\ [][Next]_vars /\ Fairness

-----------------------------------------------------------------------------

\* A wipe that was given up on has yet to zero s: its first pass has not come to
\* s, or found it in the hands of a callback.
LeftToTheWipe(s) ==
  \/ s \in wipe["late"].one
  \/ s \in wipe["late"].two /\ s \in busy

(***************************************************************************)
(* Before the handler lets go of the process, every secret that existed    *)
(* when the signal came in is zeroed or in the hands of Destroy, or its    *)
(* pages could not be made writable.  Only where the timer cut the wipe    *)
(* short may a secret be left to it, and then a callback had it or the     *)
(* first pass had not come to it (wipeAllSecretsBounded before             *)
(* signal.Stop; the first pass defers nothing that is free).               *)
(***************************************************************************)
WipedBeforeExit ==
  /\ TypeOK
  /\ pc \in {"stop", "complete", "rearm", "gone"} =>
       \A s \in taken :
         \/ secret[s] \in {"wiped", "destroying", "unwiped"}
         \/ s \in skipped
         \/ ~ completed /\ LeftToTheWipe(s)

(***************************************************************************)
(* A signal the handler has taken ends the process, or is passed on to the *)
(* co-handler, although a callback may never return and although an        *)
(* inherited ignore would discard the re-raise (InstallTerminationWipe,    *)
(* "The wipe is bounded", "When the signal cannot be re-raised").          *)
(***************************************************************************)
SignalEndsProcess ==
  ForceExit => (pc = "wait") ~> (process # "running" \/ told)

\* The handler has re-raised its signal and is finished.
Reraised == pc = "gone" /\ Reraisable /\ sig \notin recordInheritedIgnores

(***************************************************************************)
(* Every way of installing the handler: a secret that exists when a signal *)
(* comes in is zeroed, however many signals came before, unless its        *)
(* callback never returns, its pages cannot be made writable, the process  *)
(* ends, the handler is uninstalled or it has re-raised an earlier signal  *)
(* (InstallTerminationWipe, "After the signal").  A signal that lands      *)
(* between Stop and the new Notify owes nothing: it goes to the            *)
(* disposition, or to the co-handler.                                      *)
(***************************************************************************)
LaterSignalsWipeToo ==
  \A s \in Secrets :
    \/ []<>(secret[s] = "borrowed")
    \/ (s \in owed) ~>
         \/ secret[s] \in {"wiped", "unwiped"} \/ s \in skipped
         \/ process # "running" \/ done \/ Reraised
=============================================================================
