-------------------------- MODULE PlaybackSupervisor --------------------------
(***************************************************************************)
(* The custody supervisor of the MPD playback plugin                       *)
(* (playback_supervisor/actor.rs): one task that owns the command          *)
(* connection to MPD and serialises every command, query, output cycle,    *)
(* state report and settings push over it, one idle task with a connection *)
(* of its own that turns MPD's `idle` answers into wake-ups, and the        *)
(* callers that hold a command sender.                                     *)
(*                                                                         *)
(* MPD and the two sockets are the environment.  A request is written,     *)
(* executed by MPD and answered in three separate steps, so a reply can be *)
(* late: when the supervisor stops waiting for it, the reply stays in the  *)
(* stream and the next request reads it first.                             *)
(***************************************************************************)
EXTENDS Integers, Sequences, FiniteSets

CONSTANTS
  Callers,                   \* the tasks that hold a SupervisorCommandSender
  Messages,                  \* the SupervisorMessages they may send
  Songs, NoSong,             \* MPD `file:` values; no current song
  Volumes,                   \* the volumes MPD may have or be given
  Settings,                  \* AudioProtocolSettings values
  COMMAND_CHANNEL_CAPACITY, IDLE_CHANNEL_CAPACITY, RECONNECT_MAX_ATTEMPTS,
  FallbackVolume,            \* pre_mute_volume of a new session (50)
  Found,                     \* how the session may find MPD's player
  Limits                     \* budgets: how often each environment event may
                             \* happen; a behaviour keeps to one of them

\* The events of the environment that a bound counts: messages sent, settings
\* changed by the operator, MPD state changed by another client, MPD stopped,
\* quiet command connection closed by MPD, command timeout, request refused,
\* welcome banner not understood, custody released.
Events == {"send", "retune", "change", "restart", "close", "timeout", "ack",
           "welcome", "shutdown"}

MessageType ==
  {[op |-> o, arg |-> 0] : o \in {"Play", "PlayPosition", "Stop", "Next",
     "Previous", "Seek", "SeekRelative", "SetRepeat", "SetShuffle",
     "SetConsume", "LoadAndPlay", "QueryState", "CycleOutput"}}
    \cup [op : {"Pause", "SetMute", "SetSingle"}, arg : {0, 1}]
    \cup [op : {"SetVolume"}, arg : Volumes]

ASSUME MessagesAssumption == Messages \subseteq MessageType
ASSUME VolumesAssumption  == Volumes \subseteq Nat /\ 0 \in Volumes
ASSUME FallbackAssumption == FallbackVolume \in Volumes \ {0}
ASSUME FoundAssumption ==
  Found \subseteq [volume : Volumes \cup {-1}, song : Songs \cup {NoSong},
                   state : {"play", "pause", "stop"}]
ASSUME SettingsAssumption ==
  Settings \subseteq [crossfade : Nat, gapless : BOOLEAN]
ASSUME CapacityAssumption ==
  /\ COMMAND_CHANNEL_CAPACITY \in Nat \ {0}
  /\ IDLE_CHANNEL_CAPACITY \in Nat \ {0}
  /\ RECONNECT_MAX_ATTEMPTS \in Nat \ {0}
ASSUME LimitsAssumption == Limits \subseteq [Events -> Nat]

NoCaller == "none"
ASSUME CallersAssumption == NoCaller \notin Callers

(***************************************************************************)
(* The wire.  A request carries the caller it is made for, so that the     *)
(* properties can say whose request MPD refused; the code has no such tag. *)
(***************************************************************************)
Verbs == {"status", "currentsong", "setvol", "play", "playpos", "pause",
          "stop", "next", "previous", "seekcur", "repeat", "random", "single",
          "consume", "clear", "add", "crossfade", "disableoutput",
          "enableoutput"}
Requests ==
  {q \in [verb : Verbs, arg : Nat, by : Callers \cup {NoCaller}] :
     q.verb = "setvol" => q.arg \in Volumes}

\* What MPD shows of itself.  A volume of -1 is MPD's "no mixer".
MpdStates ==
  [volume : Volumes \cup {-1}, song : Songs \cup {NoSong},
   state : {"play", "pause", "stop"}, single : BOOLEAN, crossfade : Nat,
   output : BOOLEAN]

Tags == {"unit", "status", "song", "ack"}
Replies == [tag : Tags, body : MpdStates]

VARIABLES
  mpd, mpd_up,               \* MPD's state; is its listener up
  cmd_open, pending, replies,\* the command connection: open, requests MPD has
                             \* not executed, replies not yet read
  idle_open, idle_event,     \* the idle connection; a change buffered for it
  idle_pc, idle_msg, idle_attempt, idle_rx,
  command_rx, phase, message, result,  \* the command channel and its callers
  pc, job, plan, status, attempt,      \* what the supervisor task is doing
  muted, pre_mute_volume, emitted_file, probed_file, report,
  settings, settings_changed, shutdown,
  refused, cycle_failed, count,        \* history and bounds
  missed, unset                        \* history, see Notes

mpdVars    == <<mpd, mpd_up>>
wireVars   == <<cmd_open, pending, replies>>
idleVars   == <<idle_open, idle_event, idle_pc, idle_msg, idle_attempt>>
callerVars == <<phase, message, result>>
jobVars    == <<job, plan, status, attempt>>
muteVars   == <<muted, pre_mute_volume>>
outVars    == <<emitted_file, probed_file, report>>
setVars    == <<settings, settings_changed>>
histVars   == <<refused, cycle_failed>>
noteVars   == <<missed, unset>>
stepVars ==
  <<mpdVars, wireVars, idleVars, idle_rx, command_rx, callerVars, pc, jobVars,
    muteVars, outVars, setVars, shutdown, histVars, count>>
vars == <<stepVars, noteVars>>

Spend(e) ==
  /\ count' = [count EXCEPT ![e] = @ + 1]
  /\ \E limit \in Limits : \A f \in Events : count'[f] <= limit[f]

Results == {"none", "Ok", "Ack", "Protocol", "ConnectionExhausted", "Shutdown"}
Errors  == {"ack", "protocol", "transport", "timeout"}
Jobs == [kind : {"none", "message", "report", "settings"},
         msg : MessageType, caller : Callers \cup {NoCaller}, retry : BOOLEAN]
SomeMessage == [op |-> "QueryState", arg |-> 0]
NoJob == [kind |-> "none", msg |-> SomeMessage, caller |-> NoCaller,
          retry |-> FALSE]

Report(st, song, mute) ==
  [volume |-> st.volume, state |-> st.state, single |-> st.single,
   song |-> song, muted |-> mute]
Reports == [volume : Volumes \cup {-1}, state : {"play", "pause", "stop"},
            single : BOOLEAN, song : Songs \cup {NoSong}, muted : BOOLEAN]

(***************************************************************************)
(* The requests a message is made of.  `plan` holds the ones that are left,*)
(* the one in flight first; what follows a `status` may depend on it.      *)
(***************************************************************************)
Request(v, a, c) == [verb |-> v, arg |-> a, by |-> c]

\* do_query, and the queries of emit_best_effort_report.
Fetch(c) == <<Request("status", 0, c), Request("currentsong", 0, c)>>

\* Mutant: gapless taken for `single 1`.
SettingsPlanInverted(s) ==
  <<Request("crossfade", s.crossfade, NoCaller),
    Request("single", IF s.gapless THEN 1 ELSE 0, NoCaller)>>

\* apply_audio_protocol_settings: gapless is `single 0`.
SettingsPlan(s) ==
  <<Request("crossfade", s.crossfade, NoCaller),
    Request("single", IF s.gapless THEN 0 ELSE 1, NoCaller)>>

OneShot ==
  [PlayPosition |-> "playpos", Pause |-> "pause", Stop |-> "stop",
   Next |-> "next", Previous |-> "previous", Seek |-> "seekcur",
   SeekRelative |-> "seekcur", SetRepeat |-> "repeat",
   SetShuffle |-> "random", SetSingle |-> "single", SetConsume |-> "consume",
   SetVolume |-> "setvol"]

\* Play and Pause(false) look at the player first.
Resumes(m) == m.op = "Play" \/ (m.op = "Pause" /\ m.arg = 0)
Mutes(m)   == m.op = "SetMute" /\ m.arg = 1
Unmutes(m) == m.op = "SetMute" /\ m.arg = 0

\* Mutant: the output is enabled first.
CyclePlanSwapped(c) ==
  <<Request("enableoutput", 0, c), Request("disableoutput", 0, c)>>

\* do_cycle_output.
CyclePlan(c) ==
  <<Request("disableoutput", 0, c), Request("enableoutput", 0, c)>>

\* Mutant: a repeated set_mute(true) captures again.
MutePlanRecaptures(c) ==
  <<Request("status", 0, c), Request("setvol", 0, c)>>

\* set_mute(true) asks for the volume to capture unless it is muted already.
MutePlan(c) ==
  IF muted THEN <<Request("setvol", 0, c)>>
  ELSE <<Request("status", 0, c), Request("setvol", 0, c)>>

LoadPlan(c) ==
  <<Request("clear", 0, c), Request("add", 0, c), Request("play", 0, c)>>

Dispatch(m, c) ==
  CASE m.op = "QueryState"  -> Fetch(c)
    [] m.op = "CycleOutput" -> CyclePlan(c)
    [] Resumes(m)           -> <<Request("status", 0, c)>>
    [] Mutes(m)             -> MutePlan(c)
    [] Unmutes(m)           -> <<Request("setvol", pre_mute_volume, c)>>
    [] m.op = "LoadAndPlay" -> LoadPlan(c)
    [] OTHER                -> <<Request(OneShot[m.op], m.arg, c)>>

\* start_or_resume_playback, once the status is known.
ResumePlan(st, c) ==
  CASE st.state = "play"  -> <<>>
    [] st.state = "pause" -> <<Request("pause", 0, c)>>
    [] st.state = "stop"  -> IF st.song # NoSong
                             THEN <<Request("play", 0, c)>>
                             ELSE <<Request("playpos", 0, c)>>

\* Mutant: set_mute(false) forgets to lower the flag.
MutedAtDispatchStuck(m) ==
  IF m.op = "SetVolume" /\ m.arg > 0 THEN FALSE ELSE muted

\* The mute flag a dispatch leaves before its first request is written.
MutedAtDispatch(m) ==
  CASE m.op = "SetVolume" /\ m.arg > 0 -> FALSE
    [] Unmutes(m)                      -> FALSE
    [] OTHER                           -> muted

(***************************************************************************)
(* MpdConnection: what the supervisor makes of the reply it reads.  Verbs  *)
(* without a body ignore one, `currentsong` takes a body without a `file`  *)
(* for "no song", `status` insists on its `state`.                         *)
(***************************************************************************)
\* Mutant: verbs without a body take an ACK for an OK.
ParseIgnoresAck(verb, r) ==
  IF verb = "status" /\ r.tag # "status" THEN "protocol" ELSE "ok"

Parse(verb, r) ==
  CASE r.tag = "ack"                          -> "ack"
    [] verb = "status" /\ r.tag # "status"
                       /\ r.tag # "ack"       -> "protocol"
    [] OTHER                                  -> "ok"

SongIn(r) == IF r.tag = "song" THEN r.body.song ELSE NoSong

error_calls_for_reconnect(e) == e \in {"transport", "timeout"}

classify_command_error(e) ==
  CASE e = "ack"      -> "Ack"
    [] e = "protocol" -> "Protocol"
    [] OTHER          -> "ConnectionExhausted"

(***************************************************************************)
(* The environment: MPD, its other clients and the sockets.                *)
(***************************************************************************)
TagOf(verb) == CASE verb = "status"      -> "status"
                 [] verb = "currentsong" -> "song"
                 [] OTHER                -> "unit"

Blank == [volume |-> 0, song |-> NoSong, state |-> "stop", single |-> FALSE,
          crossfade |-> 0, output |-> TRUE]

\* The states MPD may be in after it accepted a request.
Effects(q) ==
  CASE q.verb = "setvol"    -> IF mpd.volume = -1 THEN {}
                               ELSE {[mpd EXCEPT !.volume = q.arg]}
    [] q.verb = "play"      -> {[mpd EXCEPT !.state = "play", !.song = s] :
                                 s \in IF mpd.song = NoSong THEN Songs
                                       ELSE {mpd.song}}
    [] q.verb = "playpos"   -> {[mpd EXCEPT !.state = "play", !.song = s] :
                                 s \in Songs}
    [] q.verb = "pause"     -> {[mpd EXCEPT !.state = IF @ = "stop" THEN @
                                   ELSE IF q.arg = 1 THEN "pause" ELSE "play"]}
    [] q.verb = "stop"      -> {[mpd EXCEPT !.state = "stop"]}
    [] q.verb \in {"next", "previous"} ->
         {[mpd EXCEPT !.song = s] : s \in Songs}
           \cup {[mpd EXCEPT !.song = NoSong, !.state = "stop"]}
    [] q.verb = "clear"     -> {[mpd EXCEPT !.song = NoSong, !.state = "stop"]}
    [] q.verb = "single"    -> {[mpd EXCEPT !.single = (q.arg = 1)]}
    [] q.verb = "crossfade" -> {[mpd EXCEPT !.crossfade = q.arg]}
    [] q.verb = "disableoutput" -> {[mpd EXCEPT !.output = FALSE]}
    [] q.verb = "enableoutput"  -> {[mpd EXCEPT !.output = TRUE]}
    [] OTHER                -> {mpd}

Answers(q) == [tag |-> TagOf(q.verb),
               body |-> IF q.verb \in {"status", "currentsong"} THEN mpd
                        ELSE Blank]

MpdExecutes ==
  /\ mpd_up /\ cmd_open /\ pending # <<>>
  /\ \E m \in Effects(Head(pending)) :
       /\ mpd' = m
       /\ idle_event' = (idle_event \/ (idle_open /\ m # mpd))
  /\ pending' = Tail(pending)
  /\ replies' = Append(replies, Answers(Head(pending)))
  /\ UNCHANGED <<mpd_up, cmd_open, idle_open, idle_pc, idle_msg, idle_attempt,
                 idle_rx, command_rx, callerVars, pc, jobVars, muteVars,
                 outVars, setVars, shutdown, histVars, count>>

MpdRefuses ==
  /\ mpd_up /\ cmd_open /\ pending # <<>>
  /\ Head(pending).verb \notin {"status", "currentsong"}
  /\ \/ Effects(Head(pending)) = {} /\ UNCHANGED count
     \/ Effects(Head(pending)) # {} /\ Spend("ack")
  /\ pending' = Tail(pending)
  /\ replies' = Append(replies, [tag |-> "ack", body |-> Blank])
  /\ refused' = [c \in Callers |-> refused[c] \/ c = Head(pending).by]
  /\ UNCHANGED <<mpdVars, cmd_open, idleVars, idle_rx, command_rx, callerVars,
                 pc, jobVars, muteVars, outVars, setVars, shutdown,
                 cycle_failed>>

\* MPD goes down: both sockets close, what it had not executed is lost, what
\* it had answered may still be read.  It comes back with its protocol
\* options at their defaults.
MpdStops ==
  /\ mpd_up /\ Spend("restart")
  /\ mpd_up' = FALSE
  /\ mpd' = [mpd EXCEPT !.crossfade = 0, !.single = FALSE]
  /\ cmd_open' = FALSE /\ pending' = <<>> /\ replies' \in {replies, <<>>}
  /\ idle_open' = FALSE /\ idle_event' = FALSE
  /\ UNCHANGED <<idle_pc, idle_msg, idle_attempt, idle_rx, command_rx,
                 callerVars, pc, jobVars, muteVars, outVars, setVars,
                 shutdown, histVars>>

MpdStarts ==
  /\ ~mpd_up /\ mpd_up' = TRUE
  /\ UNCHANGED <<mpd, wireVars, idleVars, idle_rx, command_rx, callerVars, pc,
                 jobVars, muteVars, outVars, setVars, shutdown, histVars,
                 count>>

\* MPD's connection_timeout on a command connection that has been quiet.
MpdClosesQuiet ==
  /\ cmd_open /\ pc = "select" /\ pending = <<>> /\ Spend("close")
  /\ cmd_open' = FALSE
  /\ UNCHANGED <<mpdVars, pending, replies, idleVars, idle_rx, command_rx,
                 callerVars, pc, jobVars, muteVars, outVars, setVars,
                 shutdown, histVars>>

\* The track ends, or another client moves the player or the mixer.
OtherClient ==
  /\ mpd_up /\ Spend("change")
  /\ \/ \E s \in Songs \cup {NoSong} : mpd' = [mpd EXCEPT !.song = s]
     \/ \E v \in Volumes : /\ mpd.volume # -1
                           /\ mpd' = [mpd EXCEPT !.volume = v]
  /\ mpd' # mpd
  /\ idle_event' = (idle_event \/ idle_open)
  /\ UNCHANGED <<mpd_up, wireVars, idle_open, idle_pc, idle_msg, idle_attempt,
                 idle_rx, command_rx, callerVars, pc, jobVars, muteVars,
                 outVars, setVars, shutdown, histVars>>

\* Mutant: the end of a push marks what came meanwhile as seen.
OperatorRetunesUnseen ==
  /\ Spend("retune")
  /\ settings' \in Settings \ {settings}
  /\ settings_changed' = (job.kind # "settings")
  /\ UNCHANGED <<mpdVars, wireVars, idleVars, idle_rx, command_rx, callerVars,
                 pc, jobVars, muteVars, outVars, shutdown, histVars>>

\* The options subscriber publishes new settings on the watch channel.
OperatorRetunes ==
  /\ Spend("retune")
  /\ settings' \in Settings \ {settings}
  /\ settings_changed' = TRUE
  /\ UNCHANGED <<mpdVars, wireVars, idleVars, idle_rx, command_rx, callerVars,
                 pc, jobVars, muteVars, outVars, shutdown, histVars>>

\* SupervisorHandle::shutdown, or the handle is dropped.
ReleaseCustody ==
  /\ ~shutdown /\ Spend("shutdown")
  /\ shutdown' = TRUE
  /\ UNCHANGED <<mpdVars, wireVars, idleVars, idle_rx, command_rx, callerVars,
                 pc, jobVars, muteVars, outVars, setVars, histVars>>

(***************************************************************************)
(* The callers: send on the bounded channel, then await the oneshot.       *)
(***************************************************************************)
Submit(c, m) ==
  /\ phase[c] = "ready" /\ Spend("send")
  /\ phase' = [phase EXCEPT ![c] = "sending"]
  /\ message' = [message EXCEPT ![c] = m]
  /\ result' = [result EXCEPT ![c] = "none"]
  /\ UNCHANGED <<mpdVars, wireVars, idleVars, idle_rx, command_rx, pc, jobVars,
                 muteVars, outVars, setVars, shutdown, histVars>>

Enqueue(c) ==
  /\ phase[c] = "sending" /\ pc # "stopped"
  /\ Len(command_rx) < COMMAND_CHANNEL_CAPACITY
  /\ command_rx' = Append(command_rx, c)
  /\ phase' = [phase EXCEPT ![c] = "waiting"]
  /\ UNCHANGED <<mpdVars, wireVars, idleVars, idle_rx, message, result, pc,
                 jobVars, muteVars, outVars, setVars, shutdown, histVars,
                 count>>

SendFails(c) ==
  /\ phase[c] = "sending" /\ pc = "stopped"
  /\ phase' = [phase EXCEPT ![c] = "ready"]
  /\ result' = [result EXCEPT ![c] = "Shutdown"]
  /\ UNCHANGED <<mpdVars, wireVars, idleVars, idle_rx, command_rx, message, pc,
                 jobVars, muteVars, outVars, setVars, shutdown, histVars,
                 count>>

(***************************************************************************)
(* The idle task.                                                          *)
(***************************************************************************)
IdleWakes ==
  /\ idle_pc = "idle" /\ idle_open /\ idle_event
  /\ idle_pc' = "send" /\ idle_msg' = "Changed" /\ idle_event' = FALSE
  /\ UNCHANGED <<idle_open, idle_attempt, idle_rx>>

IdleFails ==
  /\ idle_pc = "idle" /\ ~idle_open
  /\ idle_pc' = "backoff" /\ idle_attempt' = 0
  /\ UNCHANGED <<idle_open, idle_event, idle_msg, idle_rx>>

IdleReconnects ==
  /\ idle_pc = "backoff" /\ idle_attempt < RECONNECT_MAX_ATTEMPTS
  /\ idle_attempt' = idle_attempt + 1
  /\ IF mpd_up
     THEN /\ idle_open' = TRUE /\ idle_pc' = "send" /\ idle_msg' = "Changed"
     ELSE UNCHANGED <<idle_open, idle_pc, idle_msg>>
  /\ UNCHANGED <<idle_event, idle_rx>>

IdleExhausts ==
  /\ idle_pc = "backoff" /\ idle_attempt = RECONNECT_MAX_ATTEMPTS
  /\ idle_pc' = "send" /\ idle_msg' = "Exhausted"
  /\ UNCHANGED <<idle_open, idle_event, idle_attempt, idle_rx>>

\* A send after the receiver is gone ends the task, and so does "Exhausted".
IdleSends ==
  /\ idle_pc = "send"
  /\ \/ /\ pc # "stopped" /\ Len(idle_rx) < IDLE_CHANNEL_CAPACITY
        /\ idle_rx' = Append(idle_rx, idle_msg)
        /\ idle_pc' = IF idle_msg = "Exhausted" THEN "exited" ELSE "idle"
     \/ /\ pc = "stopped"
        /\ idle_pc' = "exited" /\ UNCHANGED idle_rx
  /\ UNCHANGED <<idle_open, idle_event, idle_msg, idle_attempt>>

IdleTask ==
  /\ \/ IdleWakes \/ IdleFails \/ IdleReconnects \/ IdleExhausts \/ IdleSends
  /\ UNCHANGED <<mpdVars, wireVars, command_rx, callerVars, pc, jobVars,
                 muteVars, outVars, setVars, shutdown, histVars, count>>

(***************************************************************************)
(* The supervisor task.  Writing a request to a closed socket is noticed   *)
(* when its reply is awaited.                                              *)
(***************************************************************************)
Write(p) ==
  /\ pc' = "await" /\ plan' = p
  /\ pending' = IF cmd_open THEN Append(pending, Head(p)) ELSE <<>>

BackToSelect ==
  /\ pc' = "select" /\ job' = NoJob /\ plan' = <<>>
  /\ UNCHANGED pending

\* Start a job whose requests are p.
Begin(kind, m, c, retry, p) ==
  /\ job' = [kind |-> kind, msg |-> m, caller |-> c, retry |-> retry]
  /\ Write(p)

\* First attempt and retry of handle_command, handle_query and
\* handle_cycle_output start alike.
BeginMessage(m, c, retry) ==
  /\ Begin("message", m, c, retry, Dispatch(m, c))
  /\ muted' = MutedAtDispatch(m)
  /\ refused' = [refused EXCEPT ![c] = FALSE]
  /\ UNCHANGED pre_mute_volume

\* reply.send(result); history remembers how the last output cycle ended.
Answer(r) ==
  /\ phase' = [phase EXCEPT ![job.caller] = "ready"]
  /\ result' = [result EXCEPT ![job.caller] = r]
  /\ cycle_failed' = IF job.msg.op = "CycleOutput" THEN r # "Ok"
                     ELSE cycle_failed

NoAnswer == UNCHANGED <<phase, result, cycle_failed>>

\* Mutant: the shutdown arm is polled after the idle arm.
SelectShutdownLast ==
  /\ pc = "select" /\ shutdown
  /\ command_rx = <<>> /\ idle_rx = <<>> /\ idle_pc # "exited"
  /\ pc' = "stopped"
  /\ cmd_open' = FALSE /\ pending' = <<>> /\ replies' = <<>>
  /\ UNCHANGED <<mpdVars, idleVars, idle_rx, command_rx, callerVars, jobVars,
                 muteVars, outVars, setVars, shutdown, histVars, count>>

\* Mutant: the queued commands are not answered.
SelectShutdownStrands ==
  /\ pc = "select" /\ shutdown
  /\ pc' = "stopped"
  /\ cmd_open' = FALSE /\ pending' = <<>> /\ replies' = <<>>
  /\ command_rx' = <<>> /\ idle_rx' = <<>>
  /\ UNCHANGED <<mpdVars, idleVars, callerVars, jobVars, muteVars, outVars,
                 setVars, shutdown, histVars, count>>

\* The biased select: an arm is polled only when the ones before it pend.
SelectShutdown ==
  /\ pc = "select" /\ shutdown
  /\ pc' = "stopped"
  /\ cmd_open' = FALSE /\ pending' = <<>> /\ replies' = <<>>
  /\ command_rx' = <<>> /\ idle_rx' = <<>>
  /\ phase' = [c \in Callers |-> IF phase[c] = "waiting" THEN "ready"
                                 ELSE phase[c]]
  /\ result' = [c \in Callers |-> IF phase[c] = "waiting" THEN "Shutdown"
                                  ELSE result[c]]
  /\ UNCHANGED <<mpdVars, idleVars, message, jobVars, muteVars, outVars,
                 setVars, shutdown, histVars, count>>

SelectCommand ==
  /\ pc = "select" /\ ~shutdown /\ command_rx # <<>>
  /\ command_rx' = Tail(command_rx)
  /\ BeginMessage(message[Head(command_rx)], Head(command_rx), FALSE)
  /\ UNCHANGED <<mpdVars, cmd_open, replies, idleVars, idle_rx, callerVars,
                 status, attempt, outVars, setVars, shutdown, cycle_failed,
                 count>>

SelectIdleChanged ==
  /\ pc = "select" /\ ~shutdown /\ command_rx = <<>>
  /\ idle_rx # <<>> /\ Head(idle_rx) = "Changed"
  /\ idle_rx' = Tail(idle_rx)
  /\ Begin("report", SomeMessage, NoCaller, FALSE, Fetch(NoCaller))
  /\ UNCHANGED <<mpdVars, cmd_open, replies, idleVars, command_rx, callerVars,
                 status, attempt, muteVars, outVars, setVars, shutdown,
                 histVars, count>>

\* Some(Exhausted), and the None every later poll of the closed channel gives.
SelectIdleEnded ==
  /\ pc = "select" /\ ~shutdown /\ command_rx = <<>>
  /\ IF idle_rx # <<>> THEN Head(idle_rx) = "Exhausted"
                       ELSE idle_pc = "exited"
  /\ idle_rx' = IF idle_rx # <<>> THEN Tail(idle_rx) ELSE <<>>
  /\ UNCHANGED <<mpdVars, wireVars, idleVars, command_rx, callerVars, pc,
                 jobVars, muteVars, outVars, setVars, shutdown, histVars,
                 count>>

SelectSettings ==
  /\ pc = "select" /\ ~shutdown /\ command_rx = <<>>
  /\ idle_rx = <<>> /\ idle_pc # "exited"
  /\ settings_changed
  /\ settings_changed' = FALSE
  /\ Begin("settings", SomeMessage, NoCaller, FALSE, SettingsPlan(settings))
  /\ UNCHANGED <<mpdVars, cmd_open, replies, idleVars, idle_rx, command_rx,
                 callerVars, status, attempt, muteVars, outVars, settings,
                 shutdown, histVars, count>>

\* What is left to do after reply r to the request in flight.
Rest(r) ==
  IF /\ job.kind = "message" /\ Resumes(job.msg)
     /\ Head(plan).verb = "status"
  THEN ResumePlan(r.body, job.caller) ELSE Tail(plan)

\* Mutant: a volume of 0 is captured too.
CaptureSilence(r) ==
  IF job.kind = "message" /\ Mutes(job.msg) /\ Head(plan).verb = "status"
  THEN /\ muted' = TRUE
       /\ pre_mute_volume' = IF r.body.volume >= 0 THEN r.body.volume
                             ELSE pre_mute_volume
  ELSE UNCHANGED muteVars

\* SetMute(true) captures an audible volume from the status it asked for, and
\* only then raises the flag.
Capture(r) ==
  IF job.kind = "message" /\ Mutes(job.msg) /\ Head(plan).verb = "status"
  THEN /\ muted' = TRUE
       /\ pre_mute_volume' = IF r.body.volume > 0 THEN r.body.volume
                             ELSE pre_mute_volume
  ELSE UNCHANGED muteVars

\* Mutant: the whole report is gated on a new song, not only the subjects.
PublishGated(song) ==
  IF song = emitted_file THEN UNCHANGED outVars
  ELSE /\ report' = Report(status, song, muted)
       /\ emitted_file' = IF song = NoSong THEN emitted_file ELSE song
       /\ probed_file' = song

\* The publishing half of emit_best_effort_report, maybe_emit_subjects and
\* maybe_probe_source_format.
Publish(song) ==
  /\ report' = Report(status, song, muted)
  /\ emitted_file' = IF song = NoSong THEN emitted_file ELSE song
  /\ probed_file' = song

\* The reply is good and more requests follow.
ReadAndContinue(r) ==
  /\ Rest(r) # <<>>
  /\ Write(Rest(r))
  /\ Capture(r) /\ NoAnswer
  /\ UNCHANGED <<job, outVars>>

\* The reply is good and was the last: a command is answered and reported, a
\* query or an output cycle is answered, a report is published.
ReadAndFinish(r) ==
  /\ Rest(r) = <<>>
  /\ UNCHANGED muteVars
  /\ \/ /\ job.kind = "message" /\ Answer("Ok")
        /\ IF job.msg.op \in {"QueryState", "CycleOutput"}
           THEN BackToSelect
           ELSE Begin("report", SomeMessage, NoCaller, FALSE, Fetch(NoCaller))
        /\ UNCHANGED outVars
     \/ /\ job.kind = "report" /\ Publish(SongIn(r))
        /\ BackToSelect /\ NoAnswer
     \/ /\ job.kind = "settings"
        /\ BackToSelect /\ NoAnswer /\ UNCHANGED outVars

ReadReply ==
  /\ pc = "await" /\ replies # <<>>
  /\ Parse(Head(plan).verb, Head(replies)) = "ok"
  /\ replies' = Tail(replies)
  /\ status' = IF Head(replies).tag = "status" /\ Head(plan).verb = "status"
               THEN Head(replies).body ELSE Blank
  /\ ReadAndContinue(Head(replies)) \/ ReadAndFinish(Head(replies))
  /\ UNCHANGED <<mpdVars, cmd_open, idleVars, idle_rx, command_rx, message,
                 attempt, setVars, shutdown, refused, count>>

\* A request failed with e: reconnect and retry once, give up with an error,
\* skip the report, or go on with the next setting.
Fail(e) ==
  \/ /\ job.kind = "message" /\ ~job.retry /\ error_calls_for_reconnect(e)
     /\ pc' = "reconnect" /\ attempt' = 0
     /\ NoAnswer /\ UNCHANGED <<job, plan, pending>>
  \/ /\ job.kind = "message"
     /\ job.retry \/ ~error_calls_for_reconnect(e)
     /\ Answer(classify_command_error(e))
     /\ BackToSelect /\ UNCHANGED attempt
  \/ /\ job.kind = "report"
     /\ BackToSelect /\ NoAnswer /\ UNCHANGED attempt
  \/ /\ job.kind = "settings"
     /\ IF Tail(plan) # <<>> THEN Write(Tail(plan)) /\ UNCHANGED job
                             ELSE BackToSelect
     /\ NoAnswer /\ UNCHANGED attempt

\* Mutant: an error leaves its line in the stream.
ReadErrorUndrained ==
  /\ pc = "await" /\ replies # <<>>
  /\ Parse(Head(plan).verb, Head(replies)) # "ok"
  /\ Fail(Parse(Head(plan).verb, Head(replies)))
  /\ UNCHANGED <<mpdVars, cmd_open, replies, idleVars, idle_rx, command_rx,
                 message, status, muteVars, outVars, setVars, shutdown,
                 refused, count>>

ReadError ==
  /\ pc = "await" /\ replies # <<>>
  /\ Parse(Head(plan).verb, Head(replies)) # "ok"
  /\ replies' = Tail(replies)
  /\ Fail(Parse(Head(plan).verb, Head(replies)))
  /\ UNCHANGED <<mpdVars, cmd_open, idleVars, idle_rx, command_rx, message,
                 status, muteVars, outVars, setVars, shutdown, refused, count>>

\* command_timeout elapsed: the connection is kept, the reply still comes.
ReadTimesOut ==
  /\ pc = "await" /\ replies = <<>> /\ cmd_open
  /\ Spend("timeout")
  /\ Fail("timeout")
  /\ UNCHANGED <<mpdVars, cmd_open, replies, idleVars, idle_rx, command_rx,
                 message, status, muteVars, outVars, setVars, shutdown,
                 refused>>

ReadClosed ==
  /\ pc = "await" /\ replies = <<>> /\ ~cmd_open
  /\ Fail("transport")
  /\ UNCHANGED <<mpdVars, cmd_open, replies, idleVars, idle_rx, command_rx,
                 message, status, muteVars, outVars, setVars, shutdown,
                 refused, count>>

\* reconnect_cmd_conn: a fresh connection replaces the suspect one and the
\* message is dispatched again on it.
Reconnects ==
  /\ pc = "reconnect" /\ attempt < RECONNECT_MAX_ATTEMPTS /\ mpd_up
  /\ attempt' = 0
  /\ cmd_open' = TRUE /\ replies' = <<>>
  /\ LET p == Dispatch(job.msg, job.caller) IN
       /\ pc' = "await" /\ plan' = p /\ pending' = <<Head(p)>>
  /\ job' = [job EXCEPT !.retry = TRUE]
  /\ muted' = MutedAtDispatch(job.msg)
  /\ refused' = [refused EXCEPT ![job.caller] = FALSE]
  /\ UNCHANGED <<mpdVars, idleVars, idle_rx, command_rx, callerVars, status,
                 pre_mute_volume, outVars, setVars, shutdown, cycle_failed,
                 count>>

\* Mutant: the attempts are not limited.
ReconnectFailsUnlimited ==
  /\ pc = "reconnect" /\ ~mpd_up
  /\ attempt' = attempt + 1
  /\ UNCHANGED <<mpdVars, wireVars, idleVars, idle_rx, command_rx, callerVars,
                 pc, job, plan, status, muteVars, outVars, setVars, shutdown,
                 histVars, count>>

ReconnectFails ==
  /\ pc = "reconnect" /\ attempt < RECONNECT_MAX_ATTEMPTS /\ ~mpd_up
  /\ attempt' = attempt + 1
  /\ UNCHANGED <<mpdVars, wireVars, idleVars, idle_rx, command_rx, callerVars,
                 pc, job, plan, status, muteVars, outVars, setVars, shutdown,
                 histVars, count>>

\* Mutant: running out of attempts is not noticed.
ReconnectNeverGivesUp ==
  /\ pc = "reconnect" /\ attempt < RECONNECT_MAX_ATTEMPTS /\ mpd_up
  /\ Spend("welcome")
  /\ Answer("Protocol")
  /\ BackToSelect
  /\ UNCHANGED <<mpdVars, cmd_open, replies, idleVars, idle_rx, command_rx,
                 message, status, attempt, muteVars, outVars, setVars,
                 shutdown, refused>>

\* Out of attempts, or a welcome banner that is not MPD's.
ReconnectGivesUp ==
  /\ pc = "reconnect"
  /\ \/ /\ attempt = RECONNECT_MAX_ATTEMPTS
        /\ Answer("ConnectionExhausted") /\ UNCHANGED count
     \/ /\ attempt < RECONNECT_MAX_ATTEMPTS /\ mpd_up /\ Spend("welcome")
        /\ Answer("Protocol")
  /\ BackToSelect
  /\ UNCHANGED <<mpdVars, cmd_open, replies, idleVars, idle_rx, command_rx,
                 message, status, attempt, muteVars, outVars, setVars,
                 shutdown, refused>>

Supervisor ==
  \/ SelectShutdown \/ SelectCommand \/ SelectIdleChanged \/ SelectIdleEnded
  \/ SelectSettings \/ ReadReply \/ ReadError \/ ReadTimesOut \/ ReadClosed
  \/ Reconnects \/ ReconnectFails \/ ReconnectGivesUp

Environment ==
  \/ MpdExecutes \/ MpdRefuses \/ MpdStops \/ MpdStarts \/ MpdClosesQuiet
  \/ OtherClient \/ OperatorRetunes \/ ReleaseCustody

Caller(c) == (\E m \in Messages : Submit(c, m)) \/ Enqueue(c) \/ SendFails(c)

(***************************************************************************)
(* history: `missed` says that the last report failed and nothing was      *)
(* published since; `unset` that MPD's options were last set by something  *)
(* else than a complete push: a request of the push failed, MPD restarted  *)
(* after it, or a caller gave MPD another `single`.                        *)
(***************************************************************************)
RequestFails ==
  /\ pc = "await" /\ (pc' # pc \/ plan' # plan)
  /\ replies # <<>> => Parse(Head(plan).verb, Head(replies)) # "ok"

RequestSucceeds ==
  /\ pc = "await" /\ (pc' # pc \/ plan' # plan)
  /\ replies # <<>> /\ Parse(Head(plan).verb, Head(replies)) = "ok"

CallerSetsSingle ==
  /\ pending # <<>> /\ pending' = Tail(pending) /\ cmd_open
  /\ Head(pending).verb = "single" /\ Head(pending).by # NoCaller

Notes ==
  /\ missed' = IF job.kind = "report" /\ (RequestFails \/ RequestSucceeds)
               THEN RequestFails \/ (missed /\ Len(plan) > 1) ELSE missed
  /\ unset' = IF job'.kind = "settings" /\ job.kind # "settings" THEN FALSE
              ELSE \/ unset
                   \/ CallerSetsSingle
                   \/ mpd_up /\ ~mpd_up'
                   \/ job.kind = "settings" /\ RequestFails

\* A session as `spawn` leaves it: settings applied, first report published.
\* The mute cell belongs to the plugin, so it may already be set.
Init ==
  /\ settings \in Settings /\ settings_changed = FALSE
  /\ \E f \in Found :
       mpd = [volume |-> f.volume, song |-> f.song, state |-> f.state,
              single |-> ~settings.gapless, crossfade |-> settings.crossfade,
              output |-> TRUE]
  /\ mpd_up = TRUE
  /\ cmd_open = TRUE /\ pending = <<>> /\ replies = <<>>
  /\ idle_open = TRUE /\ idle_event = FALSE
  /\ idle_pc = "idle" /\ idle_msg = "Changed" /\ idle_attempt = 0
  /\ idle_rx = <<>> /\ command_rx = <<>>
  /\ phase = [c \in Callers |-> "ready"]
  /\ message = [c \in Callers |-> SomeMessage]
  /\ result = [c \in Callers |-> "none"]
  /\ pc = "select" /\ job = NoJob /\ plan = <<>> /\ status = Blank
  /\ attempt = 0
  /\ muted \in BOOLEAN /\ pre_mute_volume = FallbackVolume
  /\ emitted_file = mpd.song /\ probed_file = mpd.song
  /\ report = Report(mpd, mpd.song, muted)
  /\ shutdown = FALSE
  /\ refused = [c \in Callers |-> FALSE] /\ cycle_failed = FALSE
  /\ count = [e \in Events |-> 0]
  /\ missed = FALSE /\ unset = FALSE

Next ==
  /\ Supervisor \/ IdleTask \/ Environment \/ \E c \in Callers : Caller(c)
  /\ Notes

Spec == Init /\ [][Next]_vars

\* Fairness.  Tokio runs every task that is not pending; a timer fires; a
\* running MPD answers in the end, and systemd starts it again when it is
\* down.  Nothing is assumed of timeouts, refusals and other clients.
Fairness ==
  /\ WF_stepVars(SelectShutdown \/ SelectCommand \/ SelectIdleChanged
               \/ SelectIdleEnded \/ SelectSettings \/ ReadReply \/ ReadError
               \/ ReadClosed \/ Reconnects \/ ReconnectFails
               \/ ReconnectGivesUp)
  /\ WF_stepVars(IdleTask)
  /\ WF_stepVars(MpdExecutes \/ MpdRefuses) /\ WF_stepVars(MpdStarts)
  /\ \A c \in Callers : WF_stepVars(Enqueue(c)) /\ WF_stepVars(SendFails(c))

FairSpec == Spec /\ Fairness

(***************************************************************************)
(* Properties                                                              *)
(***************************************************************************)
MpdTypeOK == mpd \in MpdStates /\ mpd_up \in BOOLEAN
WireTypeOK ==
  cmd_open \in BOOLEAN /\ pending \in Seq(Requests) /\ replies \in Seq(Replies)
IdleTypeOK ==
  /\ idle_open \in BOOLEAN /\ idle_event \in BOOLEAN
  /\ idle_pc \in {"idle", "send", "backoff", "exited"}
  /\ idle_msg \in {"Changed", "Exhausted"}
  /\ idle_attempt \in 0..RECONNECT_MAX_ATTEMPTS
ChannelTypeOK ==
  command_rx \in Seq(Callers) /\ idle_rx \in Seq({"Changed", "Exhausted"})
CallerTypeOK ==
  /\ phase \in [Callers -> {"ready", "sending", "waiting"}]
  /\ message \in [Callers -> MessageType]
  /\ result \in [Callers -> Results]
JobTypeOK ==
  /\ pc \in {"select", "await", "reconnect", "stopped"}
  /\ job \in Jobs /\ plan \in Seq(Requests) /\ status \in MpdStates
  /\ attempt \in 0..RECONNECT_MAX_ATTEMPTS
MuteTypeOK == muted \in BOOLEAN /\ pre_mute_volume \in Volumes
OutTypeOK ==
  /\ emitted_file \in Songs \cup {NoSong} /\ probed_file \in Songs \cup {NoSong}
  /\ report \in Reports
SetTypeOK ==
  settings \in Settings /\ settings_changed \in BOOLEAN /\ shutdown \in BOOLEAN
HistTypeOK ==
  /\ refused \in [Callers -> BOOLEAN] /\ cycle_failed \in BOOLEAN
  /\ count \in [Events -> Nat]
NoteTypeOK == missed \in BOOLEAN /\ unset \in BOOLEAN

\* Every variable keeps its type: the channels hold callers and idle events,
\* the connection holds requests and replies, the backoff stays in bounds.
TypeOK ==
  /\ MpdTypeOK /\ WireTypeOK /\ IdleTypeOK /\ ChannelTypeOK /\ CallerTypeOK
  /\ JobTypeOK /\ MuteTypeOK /\ OutTypeOK /\ SetTypeOK /\ HistTypeOK
  /\ NoteTypeOK

NeverTimedOut == count["timeout"] = 0

\* As long as no command timed out, the command connection carries nothing but
\* the exchange in progress, and what is read from it answers the request that
\* was written last (dispatch in connection.rs has no other way to pair them).
RepliesArePaired ==
  NeverTimedOut =>
    /\ pc # "await" => pending = <<>> /\ replies = <<>>
    /\ pc = "await" =>
         /\ pending # <<>> => pending = <<Head(plan)>> /\ replies = <<>>
         /\ replies # <<>> =>
              /\ Len(replies) = 1
              /\ Head(replies).tag \in {TagOf(Head(plan).verb), "ack"}

Truthful(c) ==
  result[c] = "Ok" =>
    /\ ~refused[c]
    /\ \A i \in 1..Len(pending) : pending[i].by # c

\* As long as no command timed out, a caller that was answered Ok had every
\* request of its command executed by MPD, none refused and none outstanding,
\* whatever was lost and retried on the way.
OkMeansExecuted == NeverTimedOut => \A c \in Callers : Truthful(c)

\* Unmuting is always audible: the volume set_mute(false) restores is never 0,
\* whatever volumes were set, captured, refused or lost in between.
UnmuteIsAudible == pre_mute_volume > 0

\* A repeated set_mute(true), and a retry of one, keep the captured volume.
MuteKeepsCapture ==
  [][muted /\ muted' => pre_mute_volume' = pre_mute_volume]_vars

\* When set_mute is answered Ok, the flag and MPD's mixer agree with it: silent
\* after set_mute(true), back at the captured volume after set_mute(false),
\* whatever was lost and retried, unless another client moved the mixer.
MuteAnswerHolds ==
  \A c \in Callers :
    /\ NeverTimedOut /\ count["change"] = 0
    /\ message[c].op = "SetMute"
    /\ result[c] = "none" /\ result'[c] = "Ok"
    => /\ muted = (message[c].arg = 1)
       /\ mpd.volume = IF muted THEN 0 ELSE pre_mute_volume

\* If the output is left disabled between jobs, the last output cycle did not
\* claim success.
OutputReenabled ==
  NeverTimedOut /\ pc = "select" /\ ~mpd.output => cycle_failed

\* No reply channel is lost or answered twice: a caller that waits is in the
\* command channel or is the one being served, never both and never twice, and
\* nobody waits for a supervisor that stopped.
NoReplyLost ==
  \A c \in Callers :
    LET Queued == {i \in 1..Len(command_rx) : command_rx[i] = c}
        Served == job.kind = "message" /\ job.caller = c
    IN /\ phase[c] = "waiting" => pc # "stopped" /\ (Queued # {} \/ Served)
       /\ phase[c] # "waiting" => Queued = {} /\ ~Served
       /\ \A i, k \in Queued : i = k
       /\ ~(Queued # {} /\ Served)

\* Every sender is answered, also when the channel is full, MPD is down or the
\* custody is released meanwhile.
EverySenderIsAnswered ==
  \A c \in Callers : phase[c] # "ready" ~> phase[c] = "ready"

\* The released supervisor stops.
ShutdownCompletes == shutdown ~> pc = "stopped"

\* The published report catches up with MPD once it stops changing: a change of
\* another client, an ACKed or retried command, a query that reopened the
\* connection or a restart leaves no wake-up unspent, and the report made for the
\* last one shows MPD's song and volume.  Excepted: that last report failed (a
\* report neither reopens the connection nor is repeated), the idle task has
\* given up, the custody is released, or a reply came too late (see
\* RepliesArePaired).
ReportCatchesUp ==
  <>[](\/ report.song = mpd.song /\ report.volume = mpd.volume
       \/ missed \/ idle_pc = "exited" \/ shutdown \/ ~NeverTimedOut)

\* The settings MPD ends up with are the operator's last, also when they changed
\* while an earlier push was under way.  Excepted: MPD refused or never got a
\* request of the last push, restarted after it, or got another `single` from a
\* caller (a session pushes when it starts and when the settings change, and
\* repeats nothing); the idle task has given up, the custody is released, or a
\* reply came too late.
SettingsConverge ==
  <>[](\/ mpd.crossfade = settings.crossfade /\ mpd.single = ~settings.gapless
       \/ unset \/ idle_pc = "exited" \/ shutdown \/ ~NeverTimedOut)

\* The answers of actor.rs handle_command can be relied on: a mute that was
\* answered ok is in force, and an output cycle that did not report a failure
\* has left MPD's output on after every step, whatever was lost and retried.
AnswersHold == [][MuteAnswerHolds /\ OutputReenabled']_vars

\* Nobody waits for ever: neither a caller queued on, blocked on or served
\* through the command channel of actor.rs run, nor the custody release that
\* awaits the end of the actor after its shutdown notice.
NobodyWaitsForEver ==
  /\ EverySenderIsAnswered
  /\ ShutdownCompletes
===============================================================================
