---------------------------- MODULE ScrubWindow ----------------------------
(***************************************************************************)
(* Scrub and ScrubErr on Linux (scrub_legacy.go, scrub_window_unix.go).    *)
(* A window pins its goroutine, blocks SIGURG and SIGPROF on the thread it *)
(* is pinned to, runs fn, clears the registers and burns the stack band    *)
(* below it, and puts back the mask the thread had.  fn may open windows   *)
(* of its own, panic, or call Goexit; it may also call UnlockOSThread      *)
(* without a LockOSThread to match, which the package documents as misuse  *)
(* and meets with a tripwire.                                              *)
(*                                                                         *)
(* mask[t] tells whether thread t has the two signals blocked.  Of the     *)
(* secrets one goroutine computes on, the owner, the model keeps where a   *)
(* copy is left: regs, the threads whose registers hold one; band, the     *)
(* goroutines with one in dead stack below the frames in use, left there   *)
(* by calls that have returned.  Frames that Goexit keeps in use are above *)
(* the band: the package says that it cannot burn them                     *)
(* (scrub_legacy.go:114) and no property does.  What happens to the mask   *)
(* is followed for one thread, the subject.  Either is chosen at the       *)
(* start, so that what holds of it holds of every goroutine or thread, and *)
(* may be left out.                                                        *)
(***************************************************************************)
EXTENDS Naturals, SequencesExt

CONSTANTS Goroutines, Threads, MaxWindows, NoThread, NoGoroutine

ASSUME ScrubAssumption ==
  /\ MaxWindows \in [Goroutines -> Nat]
  /\ NoThread \notin Threads /\ NoGoroutine \notin Goroutines

VARIABLES
  owner, subject,
  on,          \* the thread a goroutine runs on, or NoThread
  pins,        \* its LockOSThread count
  mask,
  home,        \* the mask each thread had before any window
  windows,     \* the stack of preemptWindows of each goroutine
  opened,      \* how many windows each has opened, up to MaxWindows
  step,        \* where the innermost window stands
  regs,
  band,
  wiped,       \* goroutines whose innermost window has cleared and wiped
  checked,     \* those of them whose restore has found the thread it masked
  named,       \* a restore has reported the subject as left masked
  \* History, for the properties only.
  unbalanced,  \* goroutines that have paid off a window's pin
  strayed,     \* goroutines that left the subject in a window that masks it
  slipped      \* a restore was moved from or to the subject past its check

place == <<on, pins>>
residue == <<regs, band>>
misuse == <<unbalanced, strayed, slipped>>
scrubVars == <<owner, subject, place, mask, home, windows, opened, step, residue, wiped, checked, named, misuse>>

Top(g) == Last(windows[g])
InFn(g) == windows[g] # <<>> /\ step[g] = "fn" /\ on[g] # NoThread

\* The active windows that masked t.
Masking(g, t) == {w \in Range(windows[g]) : w.active /\ w.tid = t}

ScrubInit ==
  /\ owner \in Goroutines \cup {NoGoroutine} /\ subject \in Threads \cup {NoThread}
  /\ on = [g \in Goroutines |-> NoThread]
  /\ pins = [g \in Goroutines |-> 0]
  /\ home \in [Threads -> BOOLEAN] /\ mask = home
  /\ windows = [g \in Goroutines |-> <<>>]
  /\ opened = [g \in Goroutines |-> 0]
  /\ step = [g \in Goroutines |-> "out"]
  /\ regs = {} /\ band = {} /\ wiped = {} /\ checked = {} /\ named = FALSE
  /\ unbalanced = {} /\ strayed = {} /\ slipped = FALSE

-----------------------------------------------------------------------------
(* The Go scheduler and the kernel. *)

\* An unpinned goroutine may be taken off its thread and put on any free one.
\* What it leaves in the registers stays there.
Schedule(g) ==
  /\ pins[g] = 0
  /\ \E t \in (Threads \cup {NoThread}) \ {on[g]} :
       /\ \A h \in Goroutines \ {g} : t = NoThread \/ on[h] # t
       /\ on' = [on EXCEPT ![g] = t]
  /\ strayed' = IF on[g] = subject /\ Masking(g, subject) # {}
                THEN strayed \cup {g} ELSE strayed
  /\ UNCHANGED <<pins, mask, home, windows, opened, step, residue, wiped, checked, named,
                 unbalanced, slipped>>

\* SIGURG reaches an unmasked thread: asyncPreempt saves every register on
\* the stack of the goroutine that runs there.
AsyncPreempt(g) ==
  /\ on[g] \in regs /\ ~mask[on[g]]
  /\ band' = band \cup {g}
  /\ UNCHANGED <<place, mask, home, windows, opened, step, regs, wiped, checked, named, misuse>>

-----------------------------------------------------------------------------
(* The window. *)

\* suppressAsyncPreempt: pin, record the thread, block the signals.  When
\* they cannot be blocked the window runs with the pin alone.
suppressAsyncPreempt(g, blocked) ==
  LET t == on[g]
  IN /\ pins' = [pins EXCEPT ![g] = @ + 1]
     /\ mask' = IF blocked THEN [mask EXCEPT ![t] = TRUE] ELSE mask
     /\ windows' = [windows EXCEPT ![g] =
                     Append(@, [tid |-> t, prev |-> mask[t], active |-> blocked])]

\* Scrub's entry: the suppression, then a wipe that reserves the band.
Open(g) ==
  /\ on[g] # NoThread /\ opened[g] < MaxWindows[g] /\ opened' = [opened EXCEPT ![g] = @ + 1]
  /\ step[g] = "out" \/ InFn(g)
  /\ \E blocked \in BOOLEAN : suppressAsyncPreempt(g, blocked)
  /\ band' = band \ {g}
  /\ step' = [step EXCEPT ![g] = "fn"]
  /\ UNCHANGED <<on, home, regs, wiped, checked, named, misuse>>

\* fn and what it calls work on a secret.
Compute(g) ==
  /\ g = owner /\ InFn(g)
  /\ regs' = regs \cup {on[g]} /\ band' = band \cup {g}
  /\ UNCHANGED <<place, mask, home, windows, opened, step, wiped, checked, named, misuse>>

\* fn calls UnlockOSThread once too often.
Unbalance(g) ==
  /\ InFn(g) /\ pins[g] > 0
  /\ pins' = [pins EXCEPT ![g] = @ - 1]
  /\ unbalanced' = unbalanced \cup {g}
  /\ UNCHANGED <<on, mask, home, windows, opened, step, residue, wiped, checked, named, strayed, slipped>>

\* scrubCall has returned: fn did, or its panic was recovered, and either
\* way fn's frames are dead stack.  With Goexit fn's own frames stay in use,
\* so that band means what fn's finished callees left, and only the deferred
\* calls run, innermost window first.
FnEnds(g, how) ==
  /\ InFn(g)
  /\ step' = [step EXCEPT ![g] = how]
  /\ UNCHANGED <<place, mask, home, windows, opened, residue, wiped, checked, named, misuse>>

\* clearRegisters and wipeScratchFrameFull, in line or in goexitBackstop.
clearAndWipe(g) ==
  /\ on[g] # NoThread /\ step[g] \in {"return", "panic", "goexit"} /\ g \notin wiped
  /\ regs' = regs \ {on[g]} /\ band' = band \ {g}
  /\ wiped' = wiped \cup {g}
  /\ UNCHANGED <<place, mask, home, windows, opened, step, checked, named, misuse>>

\* What g does next, its innermost window gone.
Outer(g, how) ==
  CASE how = "goexit" -> IF Len(windows[g]) = 1 THEN "exited" ELSE "goexit"
    [] how # "goexit" /\ Len(windows[g]) = 1 -> "out"
    [] OTHER -> IF how = "return" THEN "fn" ELSE "panic"

\* UnlockOSThread on a zero count does nothing.
UnlockOSThread(g) == pins' = [pins EXCEPT ![g] = IF @ = 0 THEN 0 ELSE @ - 1]

\* restore's comparison of the thread it is on with the one it masked.
restoreCheck(g) ==
  /\ on[g] # NoThread /\ g \in wiped \ checked
  /\ Top(g).active /\ on[g] = Top(g).tid
  /\ checked' = checked \cup {g}
  /\ UNCHANGED <<place, mask, home, windows, opened, step, residue, wiped, named, misuse>>

\* On another thread than the one it masked restore panics, having written no mask
\* and undone no pin; the panic unwinds into the enclosing window's scrubCall, which
\* does not keep a Goexit from going on.
restorePanics(g) ==
  /\ g \notin checked /\ Top(g).active /\ on[g] # Top(g).tid
  /\ named' = (named \/ Top(g).tid = subject)
  /\ step' = [step EXCEPT ![g] = Outer(g, IF @ = "goexit" THEN "goexit" ELSE "panic")]
  /\ UNCHANGED <<mask, pins, slipped>>

\* The mask is unblocked, whatever it was before the window.
restoreUnblocks(g) ==
  /\ ~Top(g).active \/ g \in checked
  /\ mask' = IF Top(g).active THEN [mask EXCEPT ![on[g]] = FALSE] ELSE mask
  /\ UnlockOSThread(g)
  /\ step' = [step EXCEPT ![g] = Outer(g, @)]
  /\ UNCHANGED <<named, slipped>>

\* The write, which is that of the thread restore is on by now, and the pin.
restore(g) ==
  /\ ~Top(g).active \/ g \in checked
  /\ mask' = IF Top(g).active THEN [mask EXCEPT ![on[g]] = Top(g).prev] ELSE mask
  /\ slipped' = (slipped \/ (Top(g).active /\ on[g] # Top(g).tid
                              /\ subject \in {on[g], Top(g).tid}))
  /\ UnlockOSThread(g)
  /\ step' = [step EXCEPT ![g] = Outer(g, @)]
  /\ UNCHANGED named

Close(g) ==
  /\ on[g] # NoThread /\ g \in wiped
  /\ restorePanics(g) \/ restore(g)
  /\ windows' = [windows EXCEPT ![g] = Front(@)]
  /\ wiped' = wiped \ {g} /\ checked' = checked \ {g}
  /\ UNCHANGED <<on, home, opened, residue, unbalanced, strayed>>

ScrubNext ==
  \E g \in Goroutines :
    \/ Schedule(g) \/ AsyncPreempt(g) \/ Open(g) \/ Compute(g) \/ Unbalance(g)
    \/ \E how \in {"return", "panic", "goexit"} : FnEnds(g, how)
    \/ clearAndWipe(g) \/ restoreCheck(g) \/ Close(g)

ScrubSpec == ScrubInit /\ [][ScrubNext /\ UNCHANGED <<owner, subject>>]_scrubVars

-----------------------------------------------------------------------------

\* What every way out of nested windows leaves behind.  A goroutine that keeps its pin
\* is masked in every window that says so, and outside its windows no copy of a secret
\* of its own is in a thread's registers or in anyone's dead stack (scrub_legacy.go:121),
\* whatever the others do.  A thread's mask is the one it came with unless a window
\* masks it now or a restore has reported it as lost, and no restore writes a mask that
\* is not its own (scrub_window_unix.go:64), as far as the tripwire can see: a goroutine
\* moved between the check and the write is beyond it (scrub_window_unix.go:70), and so
\* are two that each gave up their pin on one thread.
WindowsCloseClean ==
  /\ owner \in Goroutines \ unbalanced =>
       /\ \A t \in Threads : Masking(owner, t) # {} => on[owner] = t /\ mask[t]
       /\ regs # {} => regs = {on[owner]} /\ windows[owner] # <<>>
       /\ band # {} => band = {owner} /\ windows[owner] # <<>>
  /\ subject \in Threads /\ ~slipped /\ (\A g, h \in strayed : g = h) =>
       LET masked == \E g \in Goroutines : Masking(g, subject) # {}
       IN  /\ masked => mask[subject]
           /\ mask[subject] # home[subject] => masked \/ named
=============================================================================
