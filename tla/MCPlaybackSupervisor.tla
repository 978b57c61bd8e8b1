------------------------ MODULE MCPlaybackSupervisor ------------------------
(* Small instances of PlaybackSupervisor for TLC. *)
EXTENDS PlaybackSupervisor

CONSTANTS c1, c2, s1, s2, none

Msg(o, a) == [op |-> o, arg |-> a]

\* The message sets of the runs.
CommandMessages ==
  {Msg("SetMute", 0), Msg("SetMute", 1), Msg("SetVolume", 0),
   Msg("SetVolume", 30), Msg("Play", 0), Msg("LoadAndPlay", 0),
   Msg("QueryState", 0), Msg("CycleOutput", 0)}
FewMessages == {Msg("Stop", 0)}
FollowMessages == {Msg("Stop", 0), Msg("QueryState", 0), Msg("SetSingle", 1)}

OneSetting  == {[crossfade |-> 0, gapless |-> TRUE]}
TwoSettings == OneSetting \cup {[crossfade |-> 1, gapless |-> FALSE]}

\* How the session finds the player.
Stopped == {[volume |-> 30, song |-> none, state |-> "stop"]}
Playing == {[volume |-> 50, song |-> s1, state |-> "play"]}

\* How often the environment interferes in each run.
Quiet == [e \in Events |-> 0]
CommandLimits ==
  {[Quiet EXCEPT !["send"] = 2, !["restart"] = 1, !["timeout"] = 1,
                 !["ack"] = 1, !["close"] = 1, !["welcome"] = 1]}
AnswerLimits ==
  {[Quiet EXCEPT !["send"] = 2, !["restart"] = 1, !["timeout"] = 1,
                 !["shutdown"] = 1]}
FollowLimits ==
  {[Quiet EXCEPT !["send"] = 1, !["change"] = 2, !["restart"] = 1,
                 !["ack"] = 1, !["close"] = 1],
   [Quiet EXCEPT !["retune"] = 2, !["change"] = 1, !["restart"] = 1,
                 !["close"] = 1],
   [Quiet EXCEPT !["retune"] = 2, !["send"] = 1, !["ack"] = 1,
                 !["close"] = 1],
   [Quiet EXCEPT !["retune"] = 3]}
=============================================================================
