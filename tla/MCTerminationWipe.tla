-------------------------- MODULE MCTerminationWipe --------------------------
(***************************************************************************)
(* TerminationWipe for TLC: both installers where signals can be re-raised *)
(* and where they cannot, alone and beside a handler of the application,   *)
(* with and without a signal inherited as ignored.  Windows (nothing can   *)
(* be re-raised) has no inherited dispositions.                            *)
(***************************************************************************)
EXTENDS TerminationWipe

CONSTANTS
  nohup,            \* a signal that may be inherited as ignored
  s1, s2            \* the secrets, which are interchangeable

MCInstalls ==
  { i \in [forceExit : BOOLEAN, reraisable : BOOLEAN, inherited : {{}, {nohup}},
           coHandler : {"none", "before"}] :
      i.reraisable \/ i.inherited = {} }

\* Two secrets meet one signal, and all the signals one secret.  What was
\* inherited as ignored has a part only when the wipe is over.
Within == secret[s2] # "none" => secret[s1] # "none" /\ sent <= 1 /\ Inherited = {}

MCSpec == Init /\ [][Next /\ Within']_vars /\ Fairness
=============================================================================
