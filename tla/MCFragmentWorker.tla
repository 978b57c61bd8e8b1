-------------------------- MODULE MCFragmentWorker --------------------------
(* Small instances of FragmentWorker for TLC. *)
EXTENDS FragmentWorker

Quiet == [e \in Events |-> 0]
Faults == Events \ {"route", "mixer", "load"}

\* Two routes and a mixer with any one fault; a second load after the first one
\* ended, orderly or not, with a route and a mixer in either.
FaultLimits ==
  {[Quiet EXCEPT !["route"] = 2, !["mixer"] = 1, ![f] = 1] : f \in Faults}
    \cup {[Quiet EXCEPT !["route"] = 1, !["mixer"] = 1, !["load"] = 1, ![f] = 1] :
           f \in {"abort", "torn", "early"}}
=============================================================================
