------------------------- MODULE MCAmbientObserver -------------------------
(* Small instances of AmbientObserver for TLC. *)
EXTENDS AmbientObserver

Quiet == [e \in ObserverEvents |-> 0]

TroubleLimit ==
  [Quiet EXCEPT !["change"] = 2, !["restart"] = 2, !["close"] = 1,
                !["timeout"] = 2, !["stop"] = 1]
=============================================================================
