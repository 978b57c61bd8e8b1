------------------------- MODULE MCSettingsChannels -------------------------
(* Small instances of SettingsChannels for TLC. *)
EXTENDS SettingsChannels

CONSTANTS none, software, hardware, gapless, crossfade

Setting(m, p, v) == [mixer |-> m, protocol |-> p, startup |-> v]
MCSettings ==
  {Setting(software, gapless, none), Setting(hardware, crossfade, 40),
   Setting(none, crossfade, 60)}

Quiet == [e \in Events |-> 0]
BusyLimit ==
  [Quiet EXCEPT !["change"] = 3, !["custody"] = 2, !["unresolved"] = 1,
                !["read_error"] = 1, !["restart"] = 1, !["gesture"] = 1,
                !["unreachable"] = 1]
\* The volume MPD was left at, and a disabled mixer.
MCRestored == {90, none}
=============================================================================
