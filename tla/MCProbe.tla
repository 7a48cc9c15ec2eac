------------------------------- MODULE MCProbe -------------------------------
(* Three files of two libraries: one with a history, a part whose output is kept, *)
(* and one that has not been probed, or by a version that noted no link.          *)
EXTENDS ProbeRun

MCLibraryOf == <<"l1", "l1", "l2">>

\* What is kept of the first file: the output of an old version, output that cannot
\* be parsed, or what is left of another link.
Found ==
  {[mark |-> Nothing, raw |-> [NewRaw("a") EXCEPT !.current = FALSE], last |-> Nothing],
   [mark |-> "b", raw |-> [NewRaw("a") EXCEPT !.readable = FALSE], last |-> Nothing],
   [mark |-> "b", raw |-> NewRaw("b"), last |-> Unnamed]}

MCProbeInit ==
  /\ ProbeInit /\ strm = <<"a", "a", "a">>
  /\ \E found \in Found :
       /\ onlyMissing \/ found.raw = NewRaw("b")
       /\ mark = <<found.mark, Nothing, found.last>> /\ raw = <<found.raw, NewRaw("a"), NoRaw>>

MCProbeSpec == MCProbeInit /\ [][ProbeNext]_probeVars
==============================================================================
