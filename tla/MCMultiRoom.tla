----------------------------- MODULE MCMultiRoom -----------------------------
(* Two nodes for TLC. *)
EXTENDS MultiRoom

TwoNodes == {1, 2}
\* Happenings only make the timer of a node come round early.
Timers == TwoNodes \X {"timer"}
SomeSettings == {[members |-> TwoNodes, pin |-> None], [members |-> TwoNodes, pin |-> 2],
                 [members |-> {2}, pin |-> None]}
==============================================================================
