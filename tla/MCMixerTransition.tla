-------------------------- MODULE MCMixerTransition --------------------------
(* Small instances of MixerTransition for TLC. *)
EXTENDS MixerTransition

Configured == {[mixer |-> "software", device |-> TRUE]}
AllEvents == Events
==============================================================================
