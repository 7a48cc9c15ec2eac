------------------------------ MODULE MCBudgets ------------------------------
(***************************************************************************)
(* What gives up after too many failures: the guard of the logins, here     *)
(* with two requests of two sources for one account, and a run of the       *)
(* probe.  The two share no state, so a behaviour belongs to one of them    *)
(* and leaves the other where it starts.                                     *)
(***************************************************************************)
EXTENDS AuthGuard, MCProbe

VARIABLE part

allVars == <<part, vars, probeVars>>

MCInit ==
  /\ Init /\ MCProbeInit /\ part \in {"logins", "probe"}
  /\ part = "logins" => raw[1] = NewRaw("b") /\ onlyMissing

MCNext ==
  /\ UNCHANGED part
  /\ \/ part = "logins" /\ Next /\ UNCHANGED probeVars
     \/ part = "probe" /\ ProbeNext /\ UNCHANGED vars

\* The fairness of the two specifications, each for its own behaviours.
MCFairness ==
  /\ WF_vars(part = "logins" /\ Tick)
  /\ \A r \in Requests : WF_vars(part = "logins" /\ Handle(r))
  /\ WF_probeVars(part = "probe" /\ ProbeDispatcher)
  /\ \A w \in Probers : WF_probeVars(part = "probe" /\ Prober(w))

MCSpec == MCInit /\ [][MCNext]_allVars /\ MCFairness

-----------------------------------------------------------------------------
\* What has given up comes to an end: an account that is refused is accepted again,
\* and a run of the probe ends, although it was broken off while one more file was
\* being handed out.
GivingUpEnds == RefusalEnds /\ ProbeEnds
==============================================================================
