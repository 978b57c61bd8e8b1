--------------------------- MODULE MCNetworkShares ---------------------------
(* Small instances of NetworkShares for TLC. *)
EXTENDS NetworkShares

Nas == {[fs |-> "cifs", secret |-> TRUE, host |-> 1],
        [fs |-> "nfs", secret |-> FALSE, host |-> 2]}
TwoRungs == <<"2.0", "3.0">>
VerbNames == <<"verb1", "verb2", "verb3">>

Cadence == {"remount"}
Sweep == {"boot", "poll"}
TwoCrews == {Cadence, Sweep}
CrewTrouble == [c \in TwoCrews |-> IF c = Cadence THEN 2 ELSE 1]
CrewAllowed ==
  [c \in TwoCrews |-> IF c = Cadence THEN Verbs \cup Troubles
                                     ELSE Verbs \cup {"restart"}]
==============================================================================
