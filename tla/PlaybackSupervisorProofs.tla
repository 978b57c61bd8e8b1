----------------------- MODULE PlaybackSupervisorProofs -----------------------
(***************************************************************************)
(* Theorems about the custody supervisor, for any callers, messages, songs *)
(* and volumes, any channel capacity and any number of failures.           *)
(***************************************************************************)
EXTENDS PlaybackSupervisor, SequenceTheorems, TLAPS

\* What TypeOK needs to be inductive: a request is awaited only while a job is
\* in progress, only messages have a caller to be answered, and only messages
\* are retried.
JobInv ==
  /\ pc = "await" => plan # <<>> /\ job.kind # "none"
  /\ pc = "reconnect" => job.kind = "message"
  /\ job.kind = "message" => job.caller \in Callers

TypeInv == TypeOK /\ JobInv

(***************************************************************************)
(* Operators.                                                              *)
(***************************************************************************)
LEMMA HeadAndTail ==
  ASSUME NEW S, NEW s \in Seq(S), s # <<>>
  PROVE  Head(s) \in S /\ Tail(s) \in Seq(S)
  BY HeadTailProperties

LEMMA BlankType == Blank \in MpdStates
  BY VolumesAssumption DEF Blank, MpdStates

LEMMA SpendType ==
  ASSUME NEW e \in Events, count \in [Events -> Nat], Spend(e)
  PROVE  count' \in [Events -> Nat]
  BY DEF Spend

\* A request has its type when its verb is one and a setvol gets a volume.
LEMMA RequestType ==
  ASSUME NEW v \in Verbs, NEW a \in Nat, NEW c \in Callers \cup {NoCaller},
         v = "setvol" => a \in Volumes
  PROVE  Request(v, a, c) \in Requests
  BY DEF Request, Requests

LEMMA FetchType ==
  ASSUME NEW c \in Callers \cup {NoCaller}
  PROVE  Fetch(c) \in Seq(Requests) /\ Fetch(c) # <<>>
  BY RequestType DEF Fetch, Verbs

LEMMA SettingsPlanType ==
  ASSUME NEW s \in Settings
  PROVE  SettingsPlan(s) \in Seq(Requests) /\ SettingsPlan(s) # <<>>
<1>1. s.crossfade \in Nat /\ s.gapless \in BOOLEAN
  BY SettingsAssumption
<1>2. Request("crossfade", s.crossfade, NoCaller) \in Requests
  BY <1>1, RequestType DEF Verbs
<1>3. Request("single", IF s.gapless THEN 0 ELSE 1, NoCaller) \in Requests
  BY RequestType DEF Verbs
<1> QED
  BY <1>2, <1>3 DEF SettingsPlan

\* Whatever the message, its dispatch starts with a request of the right type.
LEMMA DispatchType ==
  ASSUME NEW m \in MessageType, NEW c \in Callers, pre_mute_volume \in Volumes
  PROVE  Dispatch(m, c) \in Seq(Requests) /\ Dispatch(m, c) # <<>>
<1>c. c \in Callers \cup {NoCaller}
  OBVIOUS
<1>v. Volumes \subseteq Nat /\ 0 \in Volumes
  BY VolumesAssumption
<1>z. \A v \in Verbs : Request(v, 0, c) \in Requests
  BY <1>c, <1>v, RequestType
<1>1. CASE m.op = "QueryState"
  BY <1>1, <1>c, FetchType DEF Dispatch, Resumes, Mutes, Unmutes
<1>2. CASE m.op = "CycleOutput"
  BY <1>2, <1>z DEF Dispatch, CyclePlan, Resumes, Mutes, Unmutes, Verbs
<1>3. CASE Resumes(m)
  BY <1>3, <1>z DEF Dispatch, Resumes, Mutes, Unmutes, Verbs
<1>4. CASE Mutes(m)
  BY <1>4, <1>z DEF Dispatch, Mutes, Unmutes, MutePlan, Resumes, Verbs
<1>5. CASE Unmutes(m)
  <2>1. Request("setvol", pre_mute_volume, c) \in Requests
    BY <1>c, <1>v, RequestType DEF Verbs
  <2> QED
    BY <1>5, <2>1 DEF Dispatch, Mutes, Unmutes, Resumes
<1>6. CASE m.op = "LoadAndPlay"
  BY <1>6, <1>z DEF Dispatch, LoadPlan, Mutes, Unmutes, Resumes, Verbs
<1>7. CASE /\ m.op \notin {"QueryState", "CycleOutput", "LoadAndPlay"}
           /\ ~Resumes(m) /\ ~Mutes(m) /\ ~Unmutes(m)
  <2>0. m.op \in {"PlayPosition", "Pause", "Stop", "Next", "Previous", "Seek",
                  "SeekRelative", "SetRepeat", "SetShuffle", "SetSingle",
                  "SetConsume", "SetVolume"}
    BY <1>7 DEF MessageType, Resumes, Mutes, Unmutes
  <2>1. m.arg \in Nat /\ (m.op = "SetVolume" => m.arg \in Volumes)
    <3>1. CASE m \in [op : {"Pause", "SetMute", "SetSingle"}, arg : {0, 1}]
      BY <3>1
    <3>2. CASE m \in [op : {"SetVolume"}, arg : Volumes]
      BY <3>2, <1>v
    <3>3. CASE /\ m \notin [op : {"Pause", "SetMute", "SetSingle"}, arg : {0, 1}]
               /\ m \notin [op : {"SetVolume"}, arg : Volumes]
      BY <3>3, <1>v DEF MessageType
    <3> QED
      BY <3>1, <3>2, <3>3
  <2>2. OneShot[m.op] \in Verbs
        /\ (OneShot[m.op] = "setvol" => m.op = "SetVolume")
    BY <2>0 DEF OneShot, Verbs
  <2>3. Request(OneShot[m.op], m.arg, c) \in Requests
    BY <1>c, <2>1, <2>2, RequestType
  <2> QED
    BY <1>7, <2>3 DEF Dispatch
<1> QED
  BY <1>1, <1>2, <1>3, <1>4, <1>5, <1>6, <1>7

LEMMA ResumePlanType ==
  ASSUME NEW st \in MpdStates, NEW c \in Callers
  PROVE  ResumePlan(st, c) \in Seq(Requests)
<1>1. \A v \in Verbs : Request(v, 0, c) \in Requests
  BY RequestType, VolumesAssumption
<1> QED
  BY <1>1 DEF ResumePlan, MpdStates, Verbs

\* MPD stays in a state it can show.
LEMMA EffectsType ==
  ASSUME NEW q \in Requests, mpd \in MpdStates, NEW m \in Effects(q)
  PROVE  m \in MpdStates
<1>1. q.verb = "setvol" => q.arg \in Volumes
  BY DEF Requests
<1>2. q.arg \in Nat
  BY DEF Requests
<1>3. CASE q.verb = "setvol"
  BY <1>1, <1>3 DEF Effects, MpdStates
<1>4. CASE q.verb \in {"play", "playpos"}
  <2>1. PICK s \in Songs \cup {NoSong} :
          m = [mpd EXCEPT !.state = "play", !.song = s]
    BY <1>4 DEF Effects, MpdStates
  <2> QED
    BY <2>1 DEF MpdStates
<1>5. CASE q.verb \in {"pause", "stop"}
  BY <1>5 DEF Effects, MpdStates
<1>6. CASE q.verb \in {"next", "previous"}
  <2>1. m \in {[mpd EXCEPT !.song = s] : s \in Songs}
           \cup {[mpd EXCEPT !.song = NoSong, !.state = "stop"]}
    BY <1>6 DEF Effects
  <2>2. CASE m \in {[mpd EXCEPT !.song = s] : s \in Songs}
    <3>1. PICK s \in Songs : m = [mpd EXCEPT !.song = s]
      BY <2>2
    <3> QED
      BY <3>1 DEF MpdStates
  <2>3. CASE m = [mpd EXCEPT !.song = NoSong, !.state = "stop"]
    BY <2>3 DEF MpdStates
  <2> QED
    BY <2>1, <2>2, <2>3
<1>7. CASE q.verb \in {"clear", "crossfade"}
  BY <1>2, <1>7 DEF Effects, MpdStates
<1>8. CASE q.verb \in {"single", "disableoutput", "enableoutput"}
  BY <1>8 DEF Effects, MpdStates
<1>9. CASE q.verb \notin {"setvol", "play", "playpos", "pause", "stop", "next",
                         "previous", "clear", "crossfade", "single",
                         "disableoutput", "enableoutput"}
  BY <1>9 DEF Effects
<1> QED
  BY <1>3, <1>4, <1>5, <1>6, <1>7, <1>8, <1>9
\* Every error has a class that a caller may be given.
LEMMA ErrorClass ==
  ASSUME NEW e
  PROVE  classify_command_error(e) \in Results
  BY DEF classify_command_error, Results

(***************************************************************************)
(* The parts the supervisor's actions are made of.                         *)
(***************************************************************************)
LEMMA NoJobType == NoJob \in Jobs
  BY DEF NoJob, Jobs, SomeMessage, MessageType

LEMMA WriteType ==
  ASSUME NEW p \in Seq(Requests), p # <<>>, WireTypeOK, Write(p)
  PROVE  pc' = "await" /\ plan' = p /\ pending' \in Seq(Requests)
<1>1. Head(p) \in Requests
  BY HeadAndTail
<1> QED
  BY <1>1 DEF Write, WireTypeOK

LEMMA BackType ==
  ASSUME WireTypeOK, BackToSelect
  PROVE  /\ pc' = "select" /\ job' = NoJob /\ plan' = <<>>
         /\ pending' \in Seq(Requests)
  BY DEF BackToSelect, WireTypeOK

LEMMA BeginType ==
  ASSUME WireTypeOK, NEW kind \in {"message", "report", "settings"},
         NEW m \in MessageType, NEW c \in Callers \cup {NoCaller},
         NEW retry \in BOOLEAN, NEW p \in Seq(Requests), p # <<>>,
         kind = "message" => c \in Callers, Begin(kind, m, c, retry, p)
  PROVE  /\ pc' = "await" /\ job' \in Jobs /\ plan' \in Seq(Requests)
         /\ JobInv' /\ pending' \in Seq(Requests)
<1>1. Write(p)
  BY DEF Begin
<1>2. job' = [kind |-> kind, msg |-> m, caller |-> c, retry |-> retry]
  BY DEF Begin
<1>3. pc' = "await" /\ plan' = p /\ pending' \in Seq(Requests)
  BY <1>1, WriteType
<1>4. job' \in Jobs
  BY <1>2 DEF Jobs
<1>5. JobInv'
  BY <1>2, <1>3 DEF JobInv
<1> QED
  BY <1>3, <1>4, <1>5

LEMMA AnswerType ==
  ASSUME CallerTypeOK, HistTypeOK, job.caller \in Callers, NEW r \in Results,
         Answer(r)
  PROVE  /\ phase' \in [Callers -> {"ready", "sending", "waiting"}]
         /\ result' \in [Callers -> Results]
         /\ cycle_failed' \in BOOLEAN
<1>1. phase' \in [Callers -> {"ready", "sending", "waiting"}]
  BY DEF Answer, CallerTypeOK
<1>2. result' \in [Callers -> Results]
  BY DEF Answer, CallerTypeOK
<1>3. cycle_failed' \in BOOLEAN
  BY DEF Answer, HistTypeOK
<1> QED
  BY <1>1, <1>2, <1>3

LEMMA NoAnswerType ==
  ASSUME CallerTypeOK, HistTypeOK, NoAnswer
  PROVE  /\ phase' \in [Callers -> {"ready", "sending", "waiting"}]
         /\ result' \in [Callers -> Results]
         /\ cycle_failed' \in BOOLEAN
  BY DEF NoAnswer, CallerTypeOK, HistTypeOK

\* What a job may change when a request of it ends.
JobStep ==
  /\ pc' \in {"select", "await", "reconnect", "stopped"} /\ job' \in Jobs
  /\ plan' \in Seq(Requests) /\ pending' \in Seq(Requests) /\ JobInv'
  /\ phase' \in [Callers -> {"ready", "sending", "waiting"}]
  /\ result' \in [Callers -> Results] /\ cycle_failed' \in BOOLEAN

LEMMA BackStep ==
  ASSUME WireTypeOK, BackToSelect,
         phase' \in [Callers -> {"ready", "sending", "waiting"}],
         result' \in [Callers -> Results], cycle_failed' \in BOOLEAN
  PROVE  JobStep
<1>1. /\ pc' = "select" /\ job' = NoJob /\ plan' = <<>>
      /\ pending' \in Seq(Requests)
  BY BackType
<1>2. JobInv'
  BY <1>1 DEF JobInv, NoJob
<1> QED
  BY <1>1, <1>2, NoJobType DEF JobStep

LEMMA FailType ==
  ASSUME TypeInv, pc = "await", NEW e, Fail(e)
  PROVE  JobStep /\ attempt' \in 0..RECONNECT_MAX_ATTEMPTS
<1>t. WireTypeOK /\ CallerTypeOK /\ HistTypeOK /\ JobTypeOK /\ JobInv
  BY DEF TypeInv, TypeOK
<1>1. CASE /\ job.kind = "message" /\ ~job.retry /\ error_calls_for_reconnect(e)
           /\ pc' = "reconnect" /\ attempt' = 0
           /\ NoAnswer /\ UNCHANGED <<job, plan, pending>>
  <2>1. JobInv'
    BY <1>t, <1>1 DEF JobInv
  <2>2. /\ pc' \in {"select", "await", "reconnect", "stopped"}
        /\ job' \in Jobs /\ plan' \in Seq(Requests)
        /\ pending' \in Seq(Requests)
    BY <1>t, <1>1 DEF JobTypeOK, WireTypeOK
  <2>3. attempt' \in 0..RECONNECT_MAX_ATTEMPTS
    BY <1>1, CapacityAssumption
  <2> QED
    BY <1>t, <1>1, <2>1, <2>2, <2>3, NoAnswerType DEF JobStep
<1>2. CASE /\ job.kind = "message"
           /\ Answer(classify_command_error(e))
           /\ BackToSelect /\ UNCHANGED attempt
  <2>1. job.caller \in Callers
    BY <1>t, <1>2 DEF JobInv
  <2>2. JobStep
    BY <1>t, <1>2, <2>1, ErrorClass, AnswerType, BackStep
  <2> QED
    BY <1>t, <1>2, <2>2 DEF JobTypeOK
<1>3. CASE BackToSelect /\ NoAnswer /\ UNCHANGED attempt
  <2>1. JobStep
    BY <1>t, <1>3, NoAnswerType, BackStep
  <2> QED
    BY <1>t, <1>3, <2>1 DEF JobTypeOK
<1>4. CASE /\ Tail(plan) # <<>> /\ Write(Tail(plan)) /\ UNCHANGED job
           /\ NoAnswer /\ UNCHANGED attempt
  <2>1. plan # <<>> /\ job.kind # "none"
    BY <1>t DEF JobInv
  <2>2. Tail(plan) \in Seq(Requests)
    BY <1>t, <2>1, HeadAndTail DEF JobTypeOK
  <2>3. pc' = "await" /\ plan' = Tail(plan) /\ pending' \in Seq(Requests)
    BY <1>t, <1>4, <2>2, WriteType
  <2>4. JobInv'
    BY <1>t, <1>4, <2>1, <2>3 DEF JobInv
  <2>5. job' \in Jobs /\ attempt' \in 0..RECONNECT_MAX_ATTEMPTS
    BY <1>t, <1>4 DEF JobTypeOK
  <2> QED
    BY <1>t, <1>4, <2>2, <2>3, <2>4, <2>5, NoAnswerType DEF JobStep
<1> QED
  BY <1>1, <1>2, <1>3, <1>4 DEF Fail

\* What follows a reply is a plan again.
LEMMA RestType ==
  ASSUME TypeInv, pc = "await", NEW r \in Replies
  PROVE  Rest(r) \in Seq(Requests)
<1>1. plan # <<>> /\ plan \in Seq(Requests)
  BY DEF TypeInv, TypeOK, JobTypeOK, JobInv
<1>2. Tail(plan) \in Seq(Requests)
  BY <1>1, HeadAndTail
<1>3. job.kind = "message" => job.caller \in Callers
  BY DEF TypeInv, JobInv
<1>4. r.body \in MpdStates
  BY DEF Replies
<1> QED
  BY <1>2, <1>3, <1>4, ResumePlanType DEF Rest

LEMMA CaptureType ==
  ASSUME MuteTypeOK, NEW r \in Replies, Capture(r)
  PROVE  MuteTypeOK'
<1>1. r.body.volume \in Volumes \cup {-1}
  BY DEF Replies, MpdStates
<1>2. CASE UNCHANGED muteVars
  BY <1>2 DEF MuteTypeOK, muteVars
<1>3. CASE /\ muted' = TRUE
           /\ pre_mute_volume' = IF r.body.volume > 0 THEN r.body.volume
                                 ELSE pre_mute_volume
  <2>1. muted' \in BOOLEAN
    BY <1>3, Zenon
  <2>2. pre_mute_volume' \in Volumes
    BY <1>1, <1>3 DEF MuteTypeOK
  <2> QED
    BY <2>1, <2>2 DEF MuteTypeOK
<1> QED
  BY <1>2, <1>3 DEF Capture

LEMMA ReplyType ==
  ASSUME TypeInv, pc = "await", NEW r \in Replies,
         ReadAndContinue(r) \/ ReadAndFinish(r)
  PROVE  JobStep /\ MuteTypeOK' /\ OutTypeOK'
<1>t. WireTypeOK /\ CallerTypeOK /\ HistTypeOK /\ JobTypeOK /\ JobInv
      /\ MuteTypeOK /\ OutTypeOK
  BY DEF TypeInv, TypeOK
<1>r. Rest(r) \in Seq(Requests)
  BY RestType
<1>1. CASE ReadAndContinue(r)
  <2>1. pc' = "await" /\ plan' = Rest(r) /\ pending' \in Seq(Requests)
    BY <1>t, <1>r, <1>1, WriteType DEF ReadAndContinue
  <2>2. job' = job /\ Rest(r) # <<>> /\ NoAnswer /\ Capture(r)
        /\ UNCHANGED outVars
    BY <1>1 DEF ReadAndContinue
  <2>3. JobInv'
    BY <1>t, <2>1, <2>2 DEF JobInv
  <2>4. job' \in Jobs
    BY <1>t, <2>2 DEF JobTypeOK
  <2>5. JobStep
    BY <1>t, <1>r, <2>1, <2>2, <2>3, <2>4, NoAnswerType DEF JobStep
  <2>6. OutTypeOK'
    BY <1>t, <2>2 DEF OutTypeOK, outVars
  <2> QED
    BY <1>t, <2>2, <2>5, <2>6, CaptureType
<1>2. CASE ReadAndFinish(r)
  <2>m. MuteTypeOK'
    BY <1>t, <1>2 DEF ReadAndFinish, MuteTypeOK, muteVars
  <2>1. CASE job.kind = "message" /\ Answer("Ok") /\ BackToSelect
             /\ UNCHANGED outVars
    <3>1. job.caller \in Callers /\ "Ok" \in Results
      BY <1>t, <2>1 DEF JobInv, Results
    <3>2. JobStep
      BY <1>t, <2>1, <3>1, AnswerType, BackStep
    <3> QED
      BY <1>t, <2>1, <2>m, <3>2 DEF OutTypeOK, outVars
  <2>2. CASE /\ job.kind = "message" /\ Answer("Ok") /\ UNCHANGED outVars
             /\ Begin("report", SomeMessage, NoCaller, FALSE, Fetch(NoCaller))
    <3>1. job.caller \in Callers /\ "Ok" \in Results
      BY <1>t, <2>2 DEF JobInv, Results
    <3>2. SomeMessage \in MessageType
      BY DEF SomeMessage, MessageType
    <3>3. Fetch(NoCaller) \in Seq(Requests) /\ Fetch(NoCaller) # <<>>
      BY FetchType
    <3>4. /\ pc' = "await" /\ job' \in Jobs /\ plan' \in Seq(Requests)
          /\ JobInv' /\ pending' \in Seq(Requests)
      BY <1>t, <2>2, <3>2, <3>3, BeginType
    <3>5. JobStep
      BY <1>t, <2>2, <3>1, <3>4, AnswerType DEF JobStep
    <3> QED
      BY <1>t, <2>2, <2>m, <3>5 DEF OutTypeOK, outVars
  <2>3. CASE Publish(SongIn(r)) /\ BackToSelect /\ NoAnswer
    <3>1. JobStep
      BY <1>t, <2>3, NoAnswerType, BackStep
    <3>2. SongIn(r) \in Songs \cup {NoSong}
      BY DEF SongIn, Replies, MpdStates
    <3>3. report' \in Reports
      BY <1>t, <2>3, <3>2 DEF Publish, Report, Reports, JobTypeOK, MpdStates,
         MuteTypeOK
    <3>4. OutTypeOK'
      BY <1>t, <2>3, <3>2, <3>3 DEF Publish, OutTypeOK
    <3> QED
      BY <2>m, <3>1, <3>4
  <2>4. CASE BackToSelect /\ NoAnswer /\ UNCHANGED outVars
    <3>1. JobStep
      BY <1>t, <2>4, NoAnswerType, BackStep
    <3> QED
      BY <1>t, <2>4, <2>m, <3>1 DEF OutTypeOK, outVars
  <2> QED
    BY <1>2, <2>1, <2>2, <2>3, <2>4 DEF ReadAndFinish
<1> QED
  BY <1>1, <1>2

(***************************************************************************)
(* TypeInv is inductive.                                                   *)
(***************************************************************************)
\* A group of variables that a step leaves alone keeps its type.
LEMMA Frame ==
  ASSUME TypeInv
  PROVE  /\ UNCHANGED mpdVars => MpdTypeOK'
         /\ UNCHANGED wireVars => WireTypeOK'
         /\ UNCHANGED idleVars => IdleTypeOK'
         /\ UNCHANGED <<command_rx, idle_rx>> => ChannelTypeOK'
         /\ UNCHANGED callerVars => CallerTypeOK'
         /\ UNCHANGED <<pc, jobVars>> => JobTypeOK' /\ JobInv'
         /\ UNCHANGED muteVars => MuteTypeOK'
         /\ UNCHANGED outVars => OutTypeOK'
         /\ UNCHANGED <<setVars, shutdown>> => SetTypeOK'
         /\ UNCHANGED <<histVars, count>> => HistTypeOK'
         /\ Notes \/ UNCHANGED noteVars => NoteTypeOK'
<1>1. UNCHANGED mpdVars => MpdTypeOK'
  BY DEF TypeInv, TypeOK, MpdTypeOK, mpdVars
<1>2. UNCHANGED wireVars => WireTypeOK'
  BY DEF TypeInv, TypeOK, WireTypeOK, wireVars
<1>3. UNCHANGED idleVars => IdleTypeOK'
  BY DEF TypeInv, TypeOK, IdleTypeOK, idleVars
<1>4. UNCHANGED <<command_rx, idle_rx>> => ChannelTypeOK'
  BY DEF TypeInv, TypeOK, ChannelTypeOK
<1>5. UNCHANGED callerVars => CallerTypeOK'
  BY DEF TypeInv, TypeOK, CallerTypeOK, callerVars
<1>6. UNCHANGED <<pc, jobVars>> => JobTypeOK'
  BY DEF TypeInv, TypeOK, JobTypeOK, jobVars
<1>7. UNCHANGED <<pc, jobVars>> => JobInv'
  BY DEF TypeInv, JobInv, jobVars
<1>8. UNCHANGED muteVars => MuteTypeOK'
  BY DEF TypeInv, TypeOK, MuteTypeOK, muteVars
<1>9. UNCHANGED outVars => OutTypeOK'
  BY DEF TypeInv, TypeOK, OutTypeOK, outVars
<1>10. UNCHANGED <<setVars, shutdown>> => SetTypeOK'
  BY DEF TypeInv, TypeOK, SetTypeOK, setVars
<1>11. UNCHANGED <<histVars, count>> => HistTypeOK'
  BY DEF TypeInv, TypeOK, HistTypeOK, histVars
<1>12. UNCHANGED noteVars => NoteTypeOK'
  BY DEF TypeInv, TypeOK, NoteTypeOK, noteVars
<1>13. Notes => NoteTypeOK'
  <2>1. missed \in BOOLEAN /\ unset \in BOOLEAN
    BY DEF TypeInv, TypeOK, NoteTypeOK
  <2>2. ASSUME Notes PROVE missed' \in BOOLEAN
    BY <2>1, <2>2, Zenon DEF Notes
  <2>3. ASSUME Notes PROVE unset' \in BOOLEAN
    BY <2>1, <2>3, Zenon DEF Notes
  <2> QED
    BY <2>2, <2>3 DEF NoteTypeOK
<1> QED
  BY <1>1, <1>2, <1>3, <1>4, <1>5, <1>6, <1>7, <1>8, <1>9, <1>10, <1>11, <1>12,
     <1>13

LEMMA InitType == Init => TypeInv
<1> SUFFICES ASSUME Init PROVE TypeInv
  OBVIOUS
<1> USE DEF Init
<1>1. MpdTypeOK
  <2>1. settings.gapless \in BOOLEAN /\ settings.crossfade \in Nat
    BY SettingsAssumption
  <2>2. PICK f \in Found :
          mpd = [volume |-> f.volume, song |-> f.song, state |-> f.state,
                 single |-> ~settings.gapless,
                 crossfade |-> settings.crossfade, output |-> TRUE]
    OBVIOUS
  <2>3. /\ f.volume \in Volumes \cup {-1} /\ f.song \in Songs \cup {NoSong}
        /\ f.state \in {"play", "pause", "stop"}
    BY FoundAssumption
  <2>4. (~settings.gapless) \in BOOLEAN /\ TRUE \in BOOLEAN
    OBVIOUS
  <2>5. mpd \in MpdStates
    BY <2>1, <2>2, <2>3, <2>4 DEF MpdStates
  <2> QED
    BY <2>5 DEF MpdTypeOK
<1>2. WireTypeOK
  BY DEF WireTypeOK
<1>3. IdleTypeOK
  <2>1. idle_attempt \in 0..RECONNECT_MAX_ATTEMPTS
    BY CapacityAssumption
  <2>2. idle_open \in BOOLEAN /\ idle_event \in BOOLEAN
    BY Zenon
  <2> QED
    BY <2>1, <2>2 DEF IdleTypeOK
<1>4. ChannelTypeOK
  BY DEF ChannelTypeOK
<1>5. CallerTypeOK
  BY DEF CallerTypeOK, SomeMessage, MessageType, Results
<1>6. JobTypeOK
  BY NoJobType, BlankType, CapacityAssumption DEF JobTypeOK
<1>7. MuteTypeOK
  BY FallbackAssumption DEF MuteTypeOK
<1>8. OutTypeOK
  <2>1. report \in Reports
    BY <1>1 DEF MpdTypeOK, MpdStates, Report, Reports
  <2> QED
    BY <1>1, <2>1 DEF MpdTypeOK, MpdStates, OutTypeOK
<1>9. SetTypeOK
  BY DEF SetTypeOK
<1>10. HistTypeOK
  BY DEF HistTypeOK
<1>11. JobInv
  BY DEF JobInv, NoJob
<1>12. NoteTypeOK
  BY DEF NoteTypeOK
<1> QED
  BY <1>1, <1>2, <1>3, <1>4, <1>5, <1>6, <1>7, <1>8, <1>9, <1>10, <1>11, <1>12
  DEF TypeInv, TypeOK

\* The supervisor task.
LEMMA SupervisorType ==
  ASSUME TypeInv, Supervisor, Notes
  PROVE  TypeInv'
<1>t. /\ MpdTypeOK /\ WireTypeOK /\ IdleTypeOK /\ ChannelTypeOK /\ CallerTypeOK
      /\ JobTypeOK /\ MuteTypeOK /\ OutTypeOK /\ SetTypeOK /\ HistTypeOK
      /\ JobInv
  BY DEF TypeInv, TypeOK
<1>m. SomeMessage \in MessageType
  BY DEF SomeMessage, MessageType
<1>1. CASE SelectShutdown
  <2>0. cmd_open' \in BOOLEAN
    BY <1>1, Zenon DEF SelectShutdown
  <2>1. WireTypeOK' /\ ChannelTypeOK'
    BY <1>1, <2>0 DEF SelectShutdown, WireTypeOK, ChannelTypeOK
  <2>2. CallerTypeOK'
    BY <1>1, <1>t DEF SelectShutdown, CallerTypeOK, Results
  <2>3. JobTypeOK' /\ JobInv'
    BY <1>1, <1>t DEF SelectShutdown, JobTypeOK, JobInv, jobVars
  <2> QED
    BY <1>1, <2>1, <2>2, <2>3, Frame DEF SelectShutdown, TypeInv, TypeOK
<1>2. CASE SelectCommand
  <2> DEFINE c == Head(command_rx)
  <2>1. c \in Callers /\ Tail(command_rx) \in Seq(Callers)
    BY <1>2, <1>t, HeadAndTail DEF SelectCommand, ChannelTypeOK
  <2>2. message[c] \in MessageType
    BY <2>1, <1>t DEF CallerTypeOK
  <2>3. ChannelTypeOK'
    BY <1>2, <1>t, <2>1 DEF SelectCommand, ChannelTypeOK
  <2>4. Dispatch(message[c], c) \in Seq(Requests) /\ Dispatch(message[c], c) # <<>>
    BY <1>t, <2>1, <2>2, DispatchType DEF MuteTypeOK
  <2>5. /\ BeginMessage(message[c], c, FALSE)
        /\ UNCHANGED <<cmd_open, replies, status, attempt, cycle_failed, count>>
    BY <1>2 DEF SelectCommand
  <2>6. /\ pc' = "await" /\ job' \in Jobs /\ plan' \in Seq(Requests)
        /\ JobInv' /\ pending' \in Seq(Requests)
    BY <1>t, <2>1, <2>2, <2>4, <2>5, BeginType DEF BeginMessage
  <2>7. WireTypeOK' /\ JobTypeOK'
    BY <1>t, <2>5, <2>6 DEF WireTypeOK, JobTypeOK
  <2>8. MutedAtDispatch(message[c]) \in BOOLEAN
    BY <1>t DEF MutedAtDispatch, MuteTypeOK, Unmutes
  <2>9. MuteTypeOK'
    BY <1>t, <2>5, <2>8 DEF MuteTypeOK, BeginMessage
  <2>10. HistTypeOK'
    BY <1>t, <2>1, <2>5 DEF HistTypeOK, BeginMessage
  <2> QED
    BY <1>2, <2>3, <2>6, <2>7, <2>9, <2>10, Frame
    DEF SelectCommand, TypeInv, TypeOK
<1>3. CASE SelectIdleChanged
  <2>1. ChannelTypeOK'
    BY <1>3, <1>t, HeadAndTail DEF SelectIdleChanged, ChannelTypeOK
  <2>2. Fetch(NoCaller) \in Seq(Requests) /\ Fetch(NoCaller) # <<>>
    BY FetchType
  <2>3. /\ Begin("report", SomeMessage, NoCaller, FALSE, Fetch(NoCaller))
        /\ UNCHANGED <<cmd_open, replies, status, attempt>>
    BY <1>3 DEF SelectIdleChanged
  <2>4. /\ pc' = "await" /\ job' \in Jobs /\ plan' \in Seq(Requests)
        /\ JobInv' /\ pending' \in Seq(Requests)
    BY <1>t, <1>m, <2>2, <2>3, BeginType
  <2>5. WireTypeOK' /\ JobTypeOK'
    BY <1>t, <2>3, <2>4 DEF WireTypeOK, JobTypeOK
  <2> QED
    BY <1>3, <2>1, <2>4, <2>5, Frame DEF SelectIdleChanged, TypeInv, TypeOK
<1>4. CASE SelectIdleEnded
  <2>1. ChannelTypeOK'
    BY <1>4, <1>t, HeadAndTail DEF SelectIdleEnded, ChannelTypeOK
  <2> QED
    BY <1>4, <2>1, Frame DEF SelectIdleEnded, TypeInv, TypeOK
<1>5. CASE SelectSettings
  <2>1. SettingsPlan(settings) \in Seq(Requests) /\ SettingsPlan(settings) # <<>>
    BY <1>t, SettingsPlanType DEF SetTypeOK
  <2>2. /\ Begin("settings", SomeMessage, NoCaller, FALSE, SettingsPlan(settings))
        /\ UNCHANGED <<cmd_open, replies, status, attempt>>
    BY <1>5 DEF SelectSettings
  <2>3. /\ pc' = "await" /\ job' \in Jobs /\ plan' \in Seq(Requests)
        /\ JobInv' /\ pending' \in Seq(Requests)
    BY <1>t, <1>m, <2>1, <2>2, BeginType
  <2>4. WireTypeOK' /\ JobTypeOK'
    BY <1>t, <2>2, <2>3 DEF WireTypeOK, JobTypeOK
  <2>5. SetTypeOK'
    BY <1>5, <1>t DEF SelectSettings, SetTypeOK
  <2> QED
    BY <1>5, <2>3, <2>4, <2>5, Frame DEF SelectSettings, TypeInv, TypeOK
<1>6. CASE ReadReply
  <2>1. Head(replies) \in Replies /\ Tail(replies) \in Seq(Replies)
    BY <1>6, <1>t, HeadAndTail DEF ReadReply, WireTypeOK
  <2>2. pc = "await"
        /\ (ReadAndContinue(Head(replies)) \/ ReadAndFinish(Head(replies)))
    BY <1>6 DEF ReadReply
  <2>3. JobStep /\ MuteTypeOK' /\ OutTypeOK'
    BY <2>1, <2>2, ReplyType
  <2>4. status' \in MpdStates
    BY <1>6, <2>1, BlankType DEF ReadReply, Replies
  <2>5. WireTypeOK' /\ JobTypeOK' /\ JobInv'
    BY <1>6, <1>t, <2>1, <2>3, <2>4
    DEF ReadReply, JobStep, WireTypeOK, JobTypeOK
  <2>6. CallerTypeOK' /\ HistTypeOK'
    BY <1>6, <1>t, <2>3 DEF ReadReply, JobStep, CallerTypeOK, HistTypeOK
  <2> QED
    BY <1>6, <2>3, <2>5, <2>6, Frame DEF ReadReply, TypeInv, TypeOK
<1>f. ASSUME JobStep, attempt' \in 0..RECONNECT_MAX_ATTEMPTS,
             cmd_open' = cmd_open, replies' \in Seq(Replies),
             UNCHANGED <<mpdVars, idleVars, idle_rx, command_rx, message,
                         status, muteVars, outVars, setVars, shutdown,
                         refused>>,
             count' \in [Events -> Nat]
      PROVE  TypeInv'
  <2>1. WireTypeOK' /\ JobTypeOK' /\ JobInv'
    BY <1>f, <1>t DEF JobStep, WireTypeOK, JobTypeOK
  <2>2. CallerTypeOK' /\ HistTypeOK'
    BY <1>f, <1>t DEF JobStep, CallerTypeOK, HistTypeOK
  <2> QED
    BY <1>f, <2>1, <2>2, Frame DEF TypeInv, TypeOK
<1>7. CASE ReadError
  <2>1. Tail(replies) \in Seq(Replies)
    BY <1>7, <1>t, HeadAndTail DEF ReadError, WireTypeOK
  <2>2. JobStep /\ attempt' \in 0..RECONNECT_MAX_ATTEMPTS
    BY <1>7, FailType DEF ReadError
  <2>3. count' \in [Events -> Nat]
    BY <1>7, <1>t DEF ReadError, HistTypeOK
  <2> QED
    BY <1>7, <2>1, <2>2, <2>3, <1>f DEF ReadError
<1>8. CASE ReadTimesOut
  <2>1. JobStep /\ attempt' \in 0..RECONNECT_MAX_ATTEMPTS
    BY <1>8, FailType DEF ReadTimesOut
  <2>2. count' \in [Events -> Nat]
    BY <1>8, <1>t, SpendType DEF ReadTimesOut, HistTypeOK, Events
  <2>3. replies' \in Seq(Replies)
    BY <1>8, <1>t DEF ReadTimesOut, WireTypeOK
  <2> QED
    BY <1>8, <2>1, <2>2, <2>3, <1>f DEF ReadTimesOut
<1>9. CASE ReadClosed
  <2>1. JobStep /\ attempt' \in 0..RECONNECT_MAX_ATTEMPTS
    BY <1>9, FailType DEF ReadClosed
  <2>2. count' \in [Events -> Nat] /\ replies' \in Seq(Replies)
    BY <1>9, <1>t DEF ReadClosed, HistTypeOK, WireTypeOK
  <2> QED
    BY <1>9, <2>1, <2>2, <1>f DEF ReadClosed
<1>10. CASE Reconnects
  <2> DEFINE p == Dispatch(job.msg, job.caller)
  <2>1. job.caller \in Callers /\ job.msg \in MessageType /\ job \in Jobs
    BY <1>10, <1>t DEF Reconnects, JobInv, JobTypeOK, Jobs
  <2>2. p \in Seq(Requests) /\ p # <<>>
    BY <1>t, <2>1, DispatchType DEF MuteTypeOK
  <2>3. Head(p) \in Requests
    BY <2>2, HeadAndTail
  <2>4. pc' = "await" /\ plan' = p /\ pending' = <<Head(p)>>
    BY <1>10 DEF Reconnects
  <2>5. job' = [job EXCEPT !.retry = TRUE] /\ job.kind = "message"
    BY <1>10, <1>t DEF Reconnects, JobInv
  <2>6. job' \in Jobs /\ job'.caller \in Callers /\ job'.kind = "message"
    BY <2>1, <2>5 DEF Jobs
  <2>7. JobInv'
    BY <2>2, <2>4, <2>6 DEF JobInv
  <2>8. attempt' \in 0..RECONNECT_MAX_ATTEMPTS
    BY <1>10, CapacityAssumption DEF Reconnects
  <2>9. JobTypeOK'
    BY <1>10, <1>t, <2>2, <2>4, <2>6, <2>8 DEF Reconnects, JobTypeOK
  <2>10. WireTypeOK'
    BY <1>10, <2>3, <2>4 DEF Reconnects, WireTypeOK
  <2>11. MutedAtDispatch(job.msg) \in BOOLEAN
    BY <1>t DEF MutedAtDispatch, MuteTypeOK, Unmutes
  <2>12. MuteTypeOK'
    BY <1>10, <1>t, <2>11 DEF MuteTypeOK, Reconnects
  <2>13. HistTypeOK'
    BY <1>10, <1>t, <2>1 DEF HistTypeOK, Reconnects
  <2> QED
    BY <1>10, <2>7, <2>9, <2>10, <2>12, <2>13, Frame
    DEF Reconnects, TypeInv, TypeOK
<1>11. CASE ReconnectFails
  <2>1. attempt' \in 0..RECONNECT_MAX_ATTEMPTS
    BY <1>11, <1>t, CapacityAssumption DEF ReconnectFails, JobTypeOK
  <2>2. JobTypeOK' /\ JobInv'
    BY <1>11, <1>t, <2>1 DEF ReconnectFails, JobTypeOK, JobInv
  <2> QED
    BY <1>11, <2>2, Frame DEF ReconnectFails, TypeInv, TypeOK
<1>12. CASE ReconnectGivesUp
  <2>1. job.caller \in Callers
    BY <1>12, <1>t DEF ReconnectGivesUp, JobInv
  <2>2. PICK r \in {"ConnectionExhausted", "Protocol"} : Answer(r)
    BY <1>12 DEF ReconnectGivesUp
  <2>3. r \in Results /\ BackToSelect
    BY <1>12 DEF Results, ReconnectGivesUp
  <2>4. JobStep
    BY <1>t, <2>1, <2>2, <2>3, AnswerType, BackStep
  <2>5. count' \in [Events -> Nat]
    BY <1>12, <1>t, SpendType DEF ReconnectGivesUp, HistTypeOK, Events
  <2>6. replies' \in Seq(Replies) /\ attempt' \in 0..RECONNECT_MAX_ATTEMPTS
    BY <1>12, <1>t DEF ReconnectGivesUp, WireTypeOK, JobTypeOK
  <2> QED
    BY <1>12, <2>4, <2>5, <2>6, <1>f DEF ReconnectGivesUp
<1> QED
  BY <1>1, <1>2, <1>3, <1>4, <1>5, <1>6, <1>7, <1>8, <1>9, <1>10, <1>11, <1>12
  DEF Supervisor

\* The idle task touches its own variables and its end of the channel.
LEMMA IdleType ==
  ASSUME TypeInv, IdleTask, Notes
  PROVE  TypeInv'
<1>t. IdleTypeOK /\ ChannelTypeOK
  BY DEF TypeInv, TypeOK
<1>u. UNCHANGED <<mpdVars, wireVars, command_rx, callerVars, pc, jobVars,
                  muteVars, outVars, setVars, shutdown, histVars, count>>
  BY DEF IdleTask
<1>1. ASSUME IdleTypeOK', ChannelTypeOK' PROVE TypeInv'
  BY <1>u, <1>1, Frame DEF TypeInv, TypeOK
<1>2. CASE IdleWakes
  <2>1. idle_event' \in BOOLEAN
    BY <1>2, Zenon DEF IdleWakes
  <2> QED
    BY <1>t, <1>u, <1>1, <1>2, <2>1 DEF IdleWakes, IdleTypeOK, ChannelTypeOK
<1>3. CASE IdleFails
  <2>1. idle_attempt' \in 0..RECONNECT_MAX_ATTEMPTS
    BY <1>3, CapacityAssumption DEF IdleFails
  <2> QED
    BY <1>t, <1>u, <1>1, <1>3, <2>1 DEF IdleFails, IdleTypeOK, ChannelTypeOK
<1>4. CASE IdleReconnects
  <2>1. idle_attempt' \in 0..RECONNECT_MAX_ATTEMPTS
    BY <1>t, <1>4, CapacityAssumption DEF IdleReconnects, IdleTypeOK
  <2>2. idle_open' \in BOOLEAN
    BY <1>t, <1>4, Zenon DEF IdleReconnects, IdleTypeOK
  <2> QED
    BY <1>t, <1>u, <1>1, <1>4, <2>1, <2>2
    DEF IdleReconnects, IdleTypeOK, ChannelTypeOK
<1>5. CASE IdleExhausts
  BY <1>t, <1>u, <1>1, <1>5 DEF IdleExhausts, IdleTypeOK, ChannelTypeOK
<1>6. CASE IdleSends
  <2>1. ChannelTypeOK'
    BY <1>t, <1>u, <1>6 DEF IdleSends, IdleTypeOK, ChannelTypeOK
  <2>2. IdleTypeOK'
    BY <1>t, <1>6 DEF IdleSends, IdleTypeOK
  <2> QED
    BY <1>1, <2>1, <2>2
<1> QED
  BY <1>2, <1>3, <1>4, <1>5, <1>6 DEF IdleTask

\* MPD, its other clients, the operator and the custody's holder.
LEMMA EnvironmentType ==
  ASSUME TypeInv, Environment, Notes
  PROVE  TypeInv'
<1>t. /\ MpdTypeOK /\ WireTypeOK /\ IdleTypeOK /\ SetTypeOK /\ HistTypeOK
  BY DEF TypeInv, TypeOK
<1>s. \A e \in Events : Spend(e) => count' \in [Events -> Nat]
  BY <1>t, SpendType DEF HistTypeOK
<1>1. CASE MpdExecutes
  <2>1. Head(pending) \in Requests /\ Tail(pending) \in Seq(Requests)
    BY <1>t, <1>1, HeadAndTail DEF MpdExecutes, WireTypeOK
  <2>2. mpd' \in MpdStates
    BY <1>t, <1>1, <2>1, EffectsType DEF MpdExecutes, MpdTypeOK
  <2>3. MpdTypeOK'
    BY <1>t, <1>1, <2>2 DEF MpdExecutes, MpdTypeOK
  <2>4. Answers(Head(pending)) \in Replies
    BY <1>t, BlankType DEF Answers, Replies, Tags, TagOf, MpdTypeOK
  <2>5. WireTypeOK'
    BY <1>t, <1>1, <2>1, <2>4 DEF MpdExecutes, WireTypeOK
  <2>6. IdleTypeOK'
    BY <1>t, <1>1 DEF MpdExecutes, IdleTypeOK
  <2> QED
    BY <1>1, <2>3, <2>5, <2>6, Frame DEF MpdExecutes, TypeInv, TypeOK
<1>2. CASE MpdRefuses
  <2>1. Tail(pending) \in Seq(Requests)
    BY <1>t, <1>2, HeadAndTail DEF MpdRefuses, WireTypeOK
  <2>2. [tag |-> "ack", body |-> Blank] \in Replies
    BY BlankType DEF Replies, Tags
  <2>3. WireTypeOK'
    BY <1>t, <1>2, <2>1, <2>2 DEF MpdRefuses, WireTypeOK
  <2>4. count' \in [Events -> Nat]
    BY <1>t, <1>s, <1>2 DEF MpdRefuses, HistTypeOK, Events
  <2>5. HistTypeOK'
    BY <1>t, <1>2, <2>4 DEF MpdRefuses, HistTypeOK
  <2> QED
    BY <1>2, <2>3, <2>5, Frame DEF MpdRefuses, TypeInv, TypeOK
<1>3. CASE MpdStops
  <2>1. mpd_up' \in BOOLEAN /\ cmd_open' \in BOOLEAN /\ idle_open' \in BOOLEAN
        /\ idle_event' \in BOOLEAN
    BY <1>3, Zenon DEF MpdStops
  <2>2. MpdTypeOK'
    BY <1>t, <1>3, <2>1 DEF MpdStops, MpdTypeOK, MpdStates
  <2>3. WireTypeOK'
    <3>1. replies' = replies \/ replies' = <<>>
      BY <1>3 DEF MpdStops
    <3>2. pending' = <<>>
      BY <1>3 DEF MpdStops
    <3>3. pending' \in Seq(Requests)
      BY <3>2
    <3>4. replies' \in Seq(Replies)
      <4>1. CASE replies' = replies
        BY <1>t, <4>1 DEF WireTypeOK
      <4>2. CASE replies' = <<>>
        BY <4>2
      <4> QED
        BY <3>1, <4>1, <4>2
    <3> QED
      BY <2>1, <3>3, <3>4 DEF WireTypeOK
  <2>5. IdleTypeOK'
    BY <1>t, <1>3, <2>1 DEF MpdStops, IdleTypeOK
  <2>4. HistTypeOK'
    BY <1>t, <1>s, <1>3 DEF MpdStops, HistTypeOK, histVars, Events
  <2> QED
    BY <1>3, <2>2, <2>3, <2>4, <2>5, Frame DEF MpdStops, TypeInv, TypeOK
<1>4. CASE MpdStarts
  <2>1. MpdTypeOK'
    BY <1>t, <1>4 DEF MpdStarts, MpdTypeOK
  <2> QED
    BY <1>4, <2>1, Frame DEF MpdStarts, TypeInv, TypeOK
<1>5. CASE MpdClosesQuiet
  <2>1. WireTypeOK'
    BY <1>t, <1>5 DEF MpdClosesQuiet, WireTypeOK
  <2>2. HistTypeOK'
    BY <1>t, <1>s, <1>5 DEF MpdClosesQuiet, HistTypeOK, histVars, Events
  <2> QED
    BY <1>5, <2>1, <2>2, Frame DEF MpdClosesQuiet, TypeInv, TypeOK
<1>6. CASE OtherClient
  <2>1. mpd' \in MpdStates
    <3>1. CASE \E s \in Songs \cup {NoSong} : mpd' = [mpd EXCEPT !.song = s]
      BY <1>t, <3>1 DEF MpdTypeOK, MpdStates
    <3>2. CASE \E v \in Volumes : mpd' = [mpd EXCEPT !.volume = v]
      BY <1>t, <3>2 DEF MpdTypeOK, MpdStates
    <3> QED
      BY <1>6, <3>1, <3>2 DEF OtherClient
  <2>2. MpdTypeOK'
    BY <1>t, <1>6, <2>1 DEF OtherClient, MpdTypeOK
  <2>3. IdleTypeOK'
    BY <1>t, <1>6 DEF OtherClient, IdleTypeOK
  <2>4. HistTypeOK'
    BY <1>t, <1>s, <1>6 DEF OtherClient, HistTypeOK, histVars, Events
  <2> QED
    BY <1>6, <2>2, <2>3, <2>4, Frame DEF OtherClient, TypeInv, TypeOK
<1>7. CASE OperatorRetunes
  <2>1. SetTypeOK'
    BY <1>t, <1>7 DEF OperatorRetunes, SetTypeOK
  <2>2. HistTypeOK'
    BY <1>t, <1>s, <1>7 DEF OperatorRetunes, HistTypeOK, histVars, Events
  <2> QED
    BY <1>7, <2>1, <2>2, Frame DEF OperatorRetunes, TypeInv, TypeOK
<1>8. CASE ReleaseCustody
  <2>1. SetTypeOK'
    BY <1>t, <1>8 DEF ReleaseCustody, SetTypeOK, setVars
  <2>2. HistTypeOK'
    BY <1>t, <1>s, <1>8 DEF ReleaseCustody, HistTypeOK, histVars, Events
  <2> QED
    BY <1>8, <2>1, <2>2, Frame DEF ReleaseCustody, TypeInv, TypeOK
<1> QED
  BY <1>1, <1>2, <1>3, <1>4, <1>5, <1>6, <1>7, <1>8 DEF Environment

LEMMA CallerType ==
  ASSUME TypeInv, NEW c \in Callers, Caller(c), Notes
  PROVE  TypeInv'
<1>t. ChannelTypeOK /\ CallerTypeOK /\ HistTypeOK
  BY DEF TypeInv, TypeOK
<1>1. CASE \E m \in Messages : Submit(c, m)
  <2>1. PICK m \in MessageType : Submit(c, m)
    BY <1>1, MessagesAssumption
  <2>2. CallerTypeOK'
    BY <1>t, <2>1 DEF Submit, CallerTypeOK, Results
  <2>3. HistTypeOK'
    BY <1>t, <2>1, SpendType DEF Submit, HistTypeOK, histVars, Events
  <2> QED
    BY <2>1, <2>2, <2>3, Frame DEF Submit, TypeInv, TypeOK
<1>2. CASE Enqueue(c)
  <2>1. ChannelTypeOK' /\ CallerTypeOK'
    BY <1>t, <1>2 DEF Enqueue, ChannelTypeOK, CallerTypeOK
  <2> QED
    BY <1>2, <2>1, Frame DEF Enqueue, TypeInv, TypeOK
<1>3. CASE SendFails(c)
  <2>1. CallerTypeOK'
    BY <1>t, <1>3 DEF SendFails, CallerTypeOK, Results
  <2> QED
    BY <1>3, <2>1, Frame DEF SendFails, TypeInv, TypeOK
<1> QED
  BY <1>1, <1>2, <1>3 DEF Caller

LEMMA NextType == TypeInv /\ [Next]_vars => TypeInv'
<1> SUFFICES ASSUME TypeInv, [Next]_vars PROVE TypeInv'
  OBVIOUS
<1>1. CASE UNCHANGED vars
  BY <1>1, Frame DEF vars, stepVars, TypeInv, TypeOK
<1> QED
  BY <1>1, SupervisorType, IdleType, EnvironmentType, CallerType DEF Next

LEMMA TypeInvHolds == Spec => []TypeInv
  BY InitType, NextType, PTL DEF Spec

\* Every variable keeps its type (what each channel, the wire and the backoff
\* of reconnect_cmd_conn may hold), whatever MPD and the callers do.
THEOREM TypeCorrect == Spec => []TypeOK
<1>1. TypeInv => TypeOK
  BY DEF TypeInv
<1> QED
  BY <1>1, TypeInvHolds, PTL

(***************************************************************************)
(* Muting.                                                                 *)
(***************************************************************************)
\* What is left of a set_mute(true): the setvol, or the status and the setvol,
\* and then the flag is still down.
CaptureInv ==
  pc = "await" /\ job.kind = "message" /\ Mutes(job.msg) =>
    \/ plan = <<Request("setvol", 0, job.caller)>>
    \/ /\ ~muted
       /\ plan = <<Request("status", 0, job.caller),
                   Request("setvol", 0, job.caller)>>

MuteInv == TypeInv /\ CaptureInv /\ UnmuteIsAudible

\* What a step may do to the capture.
MuteStep ==
  /\ CaptureInv' /\ UnmuteIsAudible'
  /\ muted /\ muted' => pre_mute_volume' = pre_mute_volume

\* A dispatch leaves the capture alone and lays the plan out anew.
LEMMA DispatchCaptures ==
  ASSUME NEW m \in MessageType, NEW c \in Callers, UnmuteIsAudible,
         pc' = "await", plan' = Dispatch(m, c), job'.msg = m, job'.caller = c,
         muted' = MutedAtDispatch(m), pre_mute_volume' = pre_mute_volume
  PROVE  MuteStep
<1>1. CASE Mutes(m)
  <2>1. plan' = MutePlan(c)
    BY <1>1 DEF Dispatch, Mutes, Unmutes, Resumes
  <2>2. muted' = muted
    BY <1>1 DEF MutedAtDispatch, Mutes, Unmutes
  <2> QED
    BY <2>1, <2>2 DEF MuteStep, CaptureInv, UnmuteIsAudible, MutePlan
<1>2. CASE ~Mutes(m)
  BY <1>2 DEF MuteStep, CaptureInv, UnmuteIsAudible, Mutes
<1> QED
  BY <1>1, <1>2

\* So does a step that leaves the plan alone, or serves no set_mute(true).
LEMMA NothingCaptured ==
  ASSUME CaptureInv, UnmuteIsAudible, UNCHANGED muteVars,
         \/ UNCHANGED <<pc, job, plan>>
         \/ pc' # "await"
         \/ job'.kind # "message"
  PROVE  MuteStep
  BY DEF MuteStep, CaptureInv, UnmuteIsAudible, muteVars, Mutes, Request

LEMMA FailCaptures ==
  ASSUME MuteInv, NEW e, Fail(e), UNCHANGED muteVars
  PROVE  MuteStep
<1>1. \/ pc' # "await"
      \/ job'.kind # "message"
  BY DEF Fail, BackToSelect, Write
<1> QED
  BY <1>1, NothingCaptured DEF MuteInv

LEMMA ReplyCaptures ==
  ASSUME MuteInv, ReadReply
  PROVE  MuteStep
<1> DEFINE r == Head(replies)
<1>t. TypeInv /\ CaptureInv /\ UnmuteIsAudible
  BY DEF MuteInv
<1>1. CASE ReadAndFinish(r)
  <2>1. \/ pc' # "await"
        \/ job'.kind # "message"
    BY <1>1 DEF ReadAndFinish, BackToSelect, Begin
  <2> QED
    BY <1>1, <1>t, <2>1, NothingCaptured DEF ReadAndFinish
<1>2. CASE ReadAndContinue(r)
  <2>1. pc = "await" /\ pc' = "await" /\ job' = job /\ plan' = Rest(r)
        /\ Rest(r) # <<>> /\ Capture(r)
    BY <1>2 DEF ReadReply, ReadAndContinue, Write
  <2>2. CASE job.kind = "message" /\ Mutes(job.msg)
    <3>1. Rest(r) = Tail(plan)
      BY <2>2 DEF Rest, Mutes, Resumes
    <3>2. /\ ~muted
          /\ plan = <<Request("status", 0, job.caller),
                      Request("setvol", 0, job.caller)>>
      <4>1. plan # <<Request("setvol", 0, job.caller)>>
        <5>1. ASSUME NEW x PROVE Tail(<<x>>) = <<>>
          OBVIOUS
        <5> QED
          BY <2>1, <3>1, <5>1
      <4> QED
        BY <1>t, <2>1, <2>2, <4>1 DEF CaptureInv
    <3>3. plan' = <<Request("setvol", 0, job.caller)>>
      BY <2>1, <3>1, <3>2
    <3>4. Head(plan).verb = "status"
      BY <3>2 DEF Request
    <3>5. pre_mute_volume' = IF r.body.volume > 0 THEN r.body.volume
                             ELSE pre_mute_volume
      BY <2>1, <2>2, <3>4 DEF Capture
    <3>6. UnmuteIsAudible'
      BY <1>t, <3>5 DEF UnmuteIsAudible
    <3>7. CaptureInv'
      BY <2>1, <3>3 DEF CaptureInv
    <3> QED
      BY <3>2, <3>6, <3>7 DEF MuteStep
  <2>3. CASE ~(job.kind = "message" /\ Mutes(job.msg))
    <3>1. UNCHANGED muteVars
      BY <2>1, <2>3 DEF Capture
    <3>2. CaptureInv'
      BY <2>1, <2>3 DEF CaptureInv, Mutes
    <3> QED
      BY <1>t, <3>1, <3>2 DEF MuteStep, UnmuteIsAudible, muteVars
  <2> QED
    BY <2>2, <2>3
<1> QED
  BY <1>1, <1>2 DEF ReadReply

LEMMA NextCaptures ==
  ASSUME MuteInv, [Next]_vars
  PROVE  MuteStep
<1>t. TypeInv /\ CaptureInv /\ UnmuteIsAudible
  BY DEF MuteInv
<1>n. ASSUME UNCHANGED muteVars,
             UNCHANGED <<pc, job, plan>> \/ pc' # "await" \/ job'.kind # "message"
      PROVE  MuteStep
  BY <1>t, <1>n, NothingCaptured
<1>1. CASE SelectCommand
  <2> DEFINE c == Head(command_rx)
  <2>1. c \in Callers
    BY <1>1, <1>t, HeadAndTail DEF SelectCommand, TypeInv, TypeOK, ChannelTypeOK
  <2>2. message[c] \in MessageType
    BY <1>t, <2>1 DEF TypeInv, TypeOK, CallerTypeOK
  <2>3. /\ pc' = "await" /\ plan' = Dispatch(message[c], c)
        /\ job'.msg = message[c] /\ job'.caller = c
        /\ muted' = MutedAtDispatch(message[c])
        /\ pre_mute_volume' = pre_mute_volume
    BY <1>1 DEF SelectCommand, BeginMessage, Begin, Write
  <2> QED
    BY <1>t, <2>1, <2>2, <2>3, DispatchCaptures
<1>2. CASE Reconnects
  <2>1. job.caller \in Callers /\ job.msg \in MessageType /\ job \in Jobs
    BY <1>2, <1>t DEF Reconnects, TypeInv, TypeOK, JobInv, JobTypeOK, Jobs
  <2>2. /\ pc' = "await" /\ plan' = Dispatch(job.msg, job.caller)
        /\ muted' = MutedAtDispatch(job.msg)
        /\ pre_mute_volume' = pre_mute_volume
    BY <1>2 DEF Reconnects
  <2>3. job'.msg = job.msg /\ job'.caller = job.caller
    BY <1>2, <2>1 DEF Reconnects, Jobs
  <2> QED
    BY <1>t, <2>1, <2>2, <2>3, DispatchCaptures
<1>3. CASE ReadReply
  BY <1>3, ReplyCaptures
<1>4. CASE ReadError
  BY <1>4, FailCaptures DEF ReadError
<1>5. CASE ReadTimesOut
  BY <1>5, FailCaptures DEF ReadTimesOut
<1>6. CASE ReadClosed
  BY <1>6, FailCaptures DEF ReadClosed
<1>7. CASE SelectShutdown \/ SelectIdleChanged \/ SelectIdleEnded
  BY <1>7, <1>n
  DEF SelectShutdown, SelectIdleChanged, SelectIdleEnded, Begin, jobVars
<1>8. CASE SelectSettings
  BY <1>8, <1>n DEF SelectSettings, Begin
<1>9. CASE ReconnectFails \/ ReconnectGivesUp
  BY <1>9, <1>n DEF ReconnectFails, ReconnectGivesUp, BackToSelect
<1>10. CASE IdleTask
  BY <1>10, <1>n DEF IdleTask, jobVars
<1>11. CASE Environment
  BY <1>11, <1>n
  DEF Environment, MpdExecutes, MpdRefuses, MpdStops, MpdStarts,
      MpdClosesQuiet, OtherClient, OperatorRetunes, ReleaseCustody, jobVars
<1>12. CASE \E c \in Callers : Caller(c)
  BY <1>12, <1>n DEF Caller, Submit, Enqueue, SendFails, jobVars
<1>13. CASE UNCHANGED vars
  BY <1>13, <1>n DEF vars, stepVars, jobVars
<1> QED
  BY <1>1, <1>2, <1>3, <1>4, <1>5, <1>6, <1>7, <1>8, <1>9, <1>10, <1>11, <1>12,
     <1>13
  DEF Next, Supervisor

LEMMA MuteInvHolds == Spec => []MuteInv
<1>1. Init => MuteInv
  <2>1. Init => CaptureInv
    BY DEF Init, CaptureInv
  <2>2. Init => UnmuteIsAudible
    BY FallbackAssumption, VolumesAssumption DEF Init, UnmuteIsAudible
  <2> QED
    BY <2>1, <2>2, InitType DEF MuteInv
<1>2. MuteInv /\ [Next]_vars => MuteInv'
  BY NextType, NextCaptures DEF MuteInv, MuteStep
<1> QED
  BY <1>1, <1>2, PTL DEF Spec

\* The volume dispatch_command restores for SetMute(false) is never 0.
THEOREM UnmutesAudibly == Spec => []UnmuteIsAudible
<1>1. MuteInv => UnmuteIsAudible
  BY DEF MuteInv
<1> QED
  BY <1>1, MuteInvHolds, PTL

\* Neither a repeated SetMute(true) nor the retry of one after a reconnect
\* replaces the captured volume while the flag is up.
THEOREM MutesOnce == Spec => MuteKeepsCapture
<1>1. MuteInv /\ [Next]_vars
        => [muted /\ muted' => pre_mute_volume' = pre_mute_volume]_vars
  BY NextCaptures DEF MuteStep
<1> QED
  BY <1>1, MuteInvHolds, PTL DEF Spec, MuteKeepsCapture

-------------------------------------------------------------------------------
(***************************************************************************)
(* Whose reply is whose: every caller of the supervisor is answered once,  *)
(* every reply is read by the request it answers, Ok is said only of what  *)
(* MPD executed, and what an answer says of mute and output holds at MPD.  *)
(* For any callers, messages, capacities and failures.                     *)
(***************************************************************************)

Serves(c) == job.kind = "message" /\ job.caller = c

\* NoReplyLost in terms of the channel, and what makes it inductive: between
\* jobs nobody is being served.
QueueInv ==
  /\ \A i \in 1..Len(command_rx) : phase[command_rx[i]] = "waiting"
  /\ \A i, k \in 1..Len(command_rx) : command_rx[i] = command_rx[k] => i = k
  /\ \A c \in Callers : Serves(c) =>
       /\ phase[c] = "waiting"
       /\ \A i \in 1..Len(command_rx) : command_rx[i] # c
  /\ \A c \in Callers : phase[c] = "waiting" =>
       /\ pc # "stopped"
       /\ Serves(c) \/ \E i \in 1..Len(command_rx) : command_rx[i] = c
  /\ pc \in {"select", "stopped"} => job.kind # "message"

\* A caller that waits has no result, and a job's requests carry its caller.
ResultInv == \A c \in Callers : phase[c] # "ready" => result[c] = "none"
MadeFor(p, c) == \A i \in 1..Len(p) : p[i].by = c
PlanInv ==
  pc = "await" =>
    /\ MadeFor(plan, job.caller)
    /\ job.kind # "message" => job.caller = NoCaller

\* A closed connection holds no requests.
ClosedIsEmpty == ~cmd_open => pending = <<>>

\* As long as nothing timed out: a refusal is known from the ACK that is about
\* to be read or is lost with the connection, never after an Ok.
OkNotRefused == \A c \in Callers : result[c] = "Ok" => ~refused[c]
AckPending ==
  \A c \in Callers : pc = "await" /\ Serves(c) /\ refused[c] =>
    \/ replies # <<>> /\ Head(replies).tag = "ack"
    \/ replies = <<>> /\ ~cmd_open
RefusalInv == NeverTimedOut => OkNotRefused /\ AckPending

PairInv == ClosedIsEmpty /\ RepliesArePaired
AnswerInv ==
  TypeInv /\ QueueInv /\ PairInv /\ ResultInv /\ PlanInv /\ RefusalInv

(***************************************************************************)
(* The command channel.                                                    *)
(***************************************************************************)
\* A step that leaves channel and callers alone and serves whom it served.
LEMMA QueueFrame ==
  ASSUME QueueInv, UNCHANGED <<command_rx, phase>>,
         \A c \in Callers : Serves(c)' <=> Serves(c),
         pc' # "stopped" \/ pc' = pc,
         pc' \in {"select", "stopped"} => job'.kind # "message"
  PROVE  QueueInv'
  BY DEF QueueInv

\* A caller that is answered leaves the supervisor with nobody to serve.
LEMMA QueueAnswered ==
  ASSUME TypeInv, QueueInv, NEW r, job.kind = "message", Answer(r),
         command_rx' = command_rx, job'.kind # "message", pc' # "stopped"
  PROVE  QueueInv'
<1> DEFINE d == job.caller
<1>1. d \in Callers /\ phase \in [Callers -> {"ready", "sending", "waiting"}]
      /\ command_rx \in Seq(Callers)
  BY DEF TypeInv, TypeOK, JobInv, CallerTypeOK, ChannelTypeOK
<1>2. phase' = [phase EXCEPT ![d] = "ready"]
  BY DEF Answer
<1>3. /\ \A i \in 1..Len(command_rx) : command_rx[i] # d
      /\ \A i \in 1..Len(command_rx) : command_rx[i] \in Callers
  BY <1>1 DEF QueueInv, Serves
<1>4. \A c \in Callers : ~Serves(c)'
  BY DEF Serves
<1>5. \A i \in 1..Len(command_rx) : phase'[command_rx[i]] = "waiting"
  BY <1>1, <1>2, <1>3 DEF QueueInv
<1>6. \A c \in Callers : phase'[c] = "waiting" =>
        \E i \in 1..Len(command_rx) : command_rx[i] = c
  BY <1>1, <1>2 DEF QueueInv, Serves
<1> QED
  BY <1>4, <1>5, <1>6 DEF QueueInv

\* A sender that finds room waits at the end of the channel.
LEMMA QueueEnqueues ==
  ASSUME TypeInv, QueueInv, NEW d \in Callers, Enqueue(d)
  PROVE  QueueInv'
<1> DEFINE n == Len(command_rx)
<1>1. /\ phase \in [Callers -> {"ready", "sending", "waiting"}]
      /\ command_rx \in Seq(Callers) /\ n \in Nat
  BY DEF TypeInv, TypeOK, CallerTypeOK, ChannelTypeOK
<1>2. /\ phase[d] = "sending" /\ pc # "stopped"
      /\ command_rx' = Append(command_rx, d)
      /\ phase' = [phase EXCEPT ![d] = "waiting"]
      /\ job' = job /\ pc' = pc
  BY DEF Enqueue, jobVars
<1>3. /\ Len(command_rx') = n + 1
      /\ \A i \in 1..n : command_rx'[i] = command_rx[i]
      /\ command_rx'[n + 1] = d
  BY <1>1, <1>2
<1>4. \A i \in 1..n : command_rx[i] # d /\ command_rx[i] \in Callers
  BY <1>1, <1>2 DEF QueueInv
<1>5. \A c \in Callers : Serves(c)' <=> Serves(c)
  BY <1>2 DEF Serves
<1>6. \A i \in 1..Len(command_rx') : phase'[command_rx'[i]] = "waiting"
  BY <1>1, <1>2, <1>3, <1>4 DEF QueueInv
<1>7. \A i, k \in 1..Len(command_rx') :
        command_rx'[i] = command_rx'[k] => i = k
  BY <1>1, <1>3, <1>4 DEF QueueInv
<1>8. \A c \in Callers : Serves(c) =>
        /\ phase'[c] = "waiting"
        /\ \A i \in 1..Len(command_rx') : command_rx'[i] # c
  BY <1>1, <1>2, <1>3 DEF QueueInv
<1>9. \A c \in Callers : phase'[c] = "waiting" =>
        Serves(c) \/ \E i \in 1..Len(command_rx') : command_rx'[i] = c
  <2> SUFFICES ASSUME NEW c \in Callers, phase'[c] = "waiting", ~Serves(c)
               PROVE  \E i \in 1..Len(command_rx') : command_rx'[i] = c
    OBVIOUS
  <2>1. CASE c = d
    BY <1>1, <1>3, <2>1
  <2>2. CASE c # d
    <3>1. PICK i \in 1..n : command_rx[i] = c
      BY <1>1, <1>2, <2>2 DEF QueueInv
    <3> QED
      BY <1>1, <1>3, <3>1
  <2> QED
    BY <2>1, <2>2
<1> QED
  BY <1>2, <1>5, <1>6, <1>7, <1>8, <1>9 DEF QueueInv

\* The head of the channel becomes the one that is served.
LEMMA QueueServes ==
  ASSUME TypeInv, QueueInv, SelectCommand
  PROVE  QueueInv'
<1> DEFINE n == Len(command_rx)
           d == Head(command_rx)
<1>1. /\ phase \in [Callers -> {"ready", "sending", "waiting"}]
      /\ command_rx \in Seq(Callers) /\ command_rx # <<>> /\ n \in Nat
  BY DEF TypeInv, TypeOK, CallerTypeOK, ChannelTypeOK, SelectCommand
<1>2. /\ command_rx' = Tail(command_rx) /\ phase' = phase
      /\ pc' = "await" /\ job'.kind = "message" /\ job'.caller = d
      /\ pc = "select" /\ job.kind # "message"
  BY DEF SelectCommand, BeginMessage, Begin, Write, callerVars, QueueInv
<1>3. /\ n >= 1 /\ d = command_rx[1] /\ Len(command_rx') = n - 1
      /\ \A i \in 1..(n - 1) : command_rx'[i] = command_rx[i + 1]
  BY <1>1, <1>2
<1>4. \A c \in Callers : Serves(c)' <=> c = d
  BY <1>2 DEF Serves
<1>5. \A i \in 1..Len(command_rx') : phase'[command_rx'[i]] = "waiting"
  BY <1>1, <1>2, <1>3 DEF QueueInv
<1>6. \A i, k \in 1..Len(command_rx') :
        command_rx'[i] = command_rx'[k] => i = k
  <2> SUFFICES ASSUME NEW i \in 1..(n - 1), NEW k \in 1..(n - 1),
                      command_rx[i + 1] = command_rx[k + 1]
               PROVE  i = k
    BY <1>3
  <2>1. i + 1 \in 1..n /\ k + 1 \in 1..n
    BY <1>1
  <2> QED
    BY <2>1 DEF QueueInv
<1>7. /\ phase'[d] = "waiting"
      /\ \A i \in 1..Len(command_rx') : command_rx'[i] # d
  <2>1. 1 \in 1..n
    BY <1>1, <1>3
  <2>2. phase'[d] = "waiting"
    BY <1>2, <1>3, <2>1 DEF QueueInv
  <2>3. ASSUME NEW i \in 1..(n - 1) PROVE command_rx'[i] # d
    <3>1. i + 1 \in 1..n /\ i + 1 # 1
      BY <1>1
    <3> QED
      BY <1>3, <2>1, <3>1 DEF QueueInv
  <2> QED
    BY <1>3, <2>2, <2>3
<1>8. ASSUME NEW c \in Callers, phase'[c] = "waiting", c # d
      PROVE  \E i \in 1..Len(command_rx') : command_rx'[i] = c
  <2>1. PICK i \in 1..n : command_rx[i] = c
    BY <1>2, <1>8 DEF QueueInv, Serves
  <2>2. i # 1 /\ i - 1 \in 1..(n - 1)
    BY <1>1, <1>3, <1>8, <2>1
  <2>3. command_rx'[i - 1] = c
    BY <1>1, <1>3, <2>1, <2>2
  <2> QED
    BY <1>3, <2>2, <2>3
<1> QED
  BY <1>2, <1>4, <1>5, <1>6, <1>7, <1>8 DEF QueueInv

\* A failed request either keeps its caller or answers it.
LEMMA QueueFails ==
  ASSUME TypeInv, QueueInv, NEW e, Fail(e), command_rx' = command_rx
  PROVE  QueueInv'
<1>1. CASE job.kind = "message" /\ pc' = "reconnect"
  <2>1. UNCHANGED <<job, phase>>
    BY <1>1 DEF Fail, NoAnswer, BackToSelect
  <2> QED
    BY <1>1, <2>1, QueueFrame DEF Serves
<1>2. CASE job.kind = "message" /\ pc' # "reconnect"
  <2>1. Answer(classify_command_error(e)) /\ job'.kind # "message"
        /\ pc' # "stopped"
    BY <1>2 DEF Fail, BackToSelect, NoJob
  <2> QED
    BY <1>2, <2>1, QueueAnswered
<1>3. CASE job.kind # "message"
  <2>1. UNCHANGED phase /\ job'.kind # "message" /\ pc' # "stopped"
    BY <1>3 DEF Fail, NoAnswer, BackToSelect, Write, NoJob
  <2> QED
    BY <1>3, <2>1, QueueFrame DEF Serves
<1> QED
  BY <1>1, <1>2, <1>3

LEMMA QueueReads ==
  ASSUME TypeInv, QueueInv, ReadReply
  PROVE  QueueInv'
<1> DEFINE r == Head(replies)
<1>0. command_rx' = command_rx
  BY DEF ReadReply
<1>1. CASE ReadAndContinue(r)
  <2>1. UNCHANGED <<job, phase>> /\ pc' = "await"
    BY <1>1 DEF ReadAndContinue, NoAnswer, Write
  <2> QED
    BY <1>0, <2>1, QueueFrame DEF Serves
<1>2. CASE ReadAndFinish(r) /\ job.kind = "message"
  <2>1. Answer("Ok") /\ job'.kind # "message" /\ pc' # "stopped"
    BY <1>2 DEF ReadAndFinish, BackToSelect, Begin, Write, NoJob
  <2> QED
    BY <1>0, <1>2, <2>1, QueueAnswered
<1>3. CASE ReadAndFinish(r) /\ job.kind # "message"
  <2>1. NoAnswer /\ BackToSelect
    BY <1>3 DEF ReadAndFinish
  <2>2. UNCHANGED phase /\ job'.kind # "message" /\ pc' # "stopped"
    BY <2>1 DEF NoAnswer, BackToSelect, NoJob
  <2> QED
    BY <1>0, <1>3, <2>2, QueueFrame DEF Serves
<1> QED
  BY <1>1, <1>2, <1>3 DEF ReadReply

LEMMA QueueNext ==
  ASSUME TypeInv, QueueInv, [Next]_vars
  PROVE  QueueInv'
<1>n. ASSUME UNCHANGED <<command_rx, phase, pc, job>> PROVE QueueInv'
  BY <1>n, QueueFrame DEF Serves, QueueInv
<1>1. CASE SelectShutdown
  <2>1. /\ command_rx' = <<>> /\ pc = "select" /\ UNCHANGED job
        /\ \A c \in Callers : phase'[c] # "waiting"
    BY <1>1 DEF SelectShutdown, jobVars, TypeInv, TypeOK, CallerTypeOK
  <2>2. \A c \in Callers : ~Serves(c)'
    BY <2>1 DEF QueueInv, Serves
  <2>3. Len(command_rx') = 0
    BY <2>1
  <2> QED
    BY <2>1, <2>2, <2>3 DEF QueueInv
<1>2. CASE SelectCommand
  BY <1>2, QueueServes
<1>3. CASE SelectIdleChanged \/ SelectSettings
  <2>1. /\ pc = "select" /\ pc' = "await" /\ job'.kind # "message"
        /\ UNCHANGED <<command_rx, phase>>
    BY <1>3 DEF SelectIdleChanged, SelectSettings, Begin, Write, callerVars
  <2>2. job.kind # "message"
    BY <2>1 DEF QueueInv
  <2> QED
    BY <2>1, <2>2, QueueFrame DEF Serves
<1>4. CASE SelectIdleEnded
  BY <1>4, <1>n DEF SelectIdleEnded, callerVars, jobVars
<1>5. CASE ReadReply
  BY <1>5, QueueReads
<1>6. CASE ReadError
  BY <1>6, QueueFails DEF ReadError
<1>7. CASE ReadTimesOut
  BY <1>7, QueueFails DEF ReadTimesOut
<1>8. CASE ReadClosed
  BY <1>8, QueueFails DEF ReadClosed
<1>9. CASE Reconnects
  <2>1. /\ job'.kind = job.kind /\ job'.caller = job.caller
        /\ pc' = "await" /\ UNCHANGED <<command_rx, phase>>
    BY <1>9 DEF Reconnects, callerVars, TypeInv, TypeOK, JobTypeOK, Jobs
  <2> QED
    BY <2>1, QueueFrame DEF Serves
<1>10. CASE ReconnectFails
  BY <1>10, <1>n DEF ReconnectFails, callerVars
<1>11. CASE ReconnectGivesUp
  <2>1. job.kind = "message"
    BY <1>11 DEF ReconnectGivesUp, TypeInv, JobInv
  <2>2. PICK r : Answer(r)
    BY <1>11 DEF ReconnectGivesUp
  <2>3. job'.kind # "message" /\ pc' # "stopped" /\ command_rx' = command_rx
    BY <1>11 DEF ReconnectGivesUp, BackToSelect, NoJob
  <2> QED
    BY <2>1, <2>2, <2>3, QueueAnswered
<1>12. CASE IdleTask
  BY <1>12, <1>n DEF IdleTask, callerVars, jobVars
<1>13. CASE Environment
  BY <1>13, <1>n
  DEF Environment, MpdExecutes, MpdRefuses, MpdStops, MpdStarts,
      MpdClosesQuiet, OtherClient, OperatorRetunes, ReleaseCustody,
      callerVars, jobVars
<1>14. ASSUME NEW d \in Callers, Caller(d) PROVE QueueInv'
  <2>1. CASE Enqueue(d)
    BY <2>1, QueueEnqueues
  <2>2. CASE (\E m \in Messages : Submit(d, m)) \/ SendFails(d)
    <3>0. phase \in [Callers -> {"ready", "sending", "waiting"}]
          /\ command_rx \in Seq(Callers)
      BY DEF TypeInv, TypeOK, CallerTypeOK, ChannelTypeOK
    <3>1. PICK p \in {"ready", "sending"} :
            phase' = [phase EXCEPT ![d] = p] /\ phase[d] # "waiting"
      BY <2>2 DEF Submit, SendFails
    <3>2. UNCHANGED <<command_rx, pc, job>>
      BY <2>2 DEF Submit, SendFails, jobVars
    <3>3. \A c \in Callers : phase'[c] = "waiting" <=> phase[c] = "waiting"
      BY <3>0, <3>1
    <3>4. \A i \in 1..Len(command_rx) : command_rx[i] \in Callers
      BY <3>0
    <3>5. \A c \in Callers : Serves(c)' <=> Serves(c)
      BY <3>2 DEF Serves
    <3> QED
      BY <3>2, <3>3, <3>4, <3>5 DEF QueueInv
  <2> QED
    BY <1>14, <2>1, <2>2 DEF Caller
<1>15. CASE UNCHANGED vars
  BY <1>15, <1>n DEF vars, stepVars, callerVars, jobVars
<1> QED
  BY <1>1, <1>2, <1>3, <1>4, <1>5, <1>6, <1>7, <1>8, <1>9, <1>10, <1>11, <1>12,
     <1>13, <1>14, <1>15
  DEF Next, Supervisor

LEMMA QueueInvHolds == Spec => [](TypeInv /\ QueueInv)
<1>1. Init => QueueInv
  BY DEF Init, QueueInv, NoJob, Serves
<1>2. TypeInv /\ QueueInv /\ [Next]_vars => (TypeInv /\ QueueInv)'
  BY NextType, QueueNext
<1> QED
  BY <1>1, <1>2, InitType, PTL DEF Spec

\* No reply channel of SupervisorHandle is lost or answered twice, and nobody
\* waits for a supervisor that has stopped, for any callers and capacity.
THEOREM RepliesAreKept == Spec => []NoReplyLost
<1>1. TypeInv /\ QueueInv => NoReplyLost
  BY DEF QueueInv, NoReplyLost, Serves
<1> QED
  BY <1>1, QueueInvHolds, PTL

(***************************************************************************)
(* The command connection.                                                 *)
(***************************************************************************)
\* Spending an event never brings a timeout back to none.
LEMMA SpendCounts ==
  ASSUME NEW e \in Events, count \in [Events -> Nat], Spend(e)
  PROVE  /\ count'["timeout"] = 0 => count["timeout"] = 0
         /\ e = "timeout" => count'["timeout"] # 0
  BY DEF Spend, Events

LEMMA TimeoutsStay ==
  ASSUME TypeInv, [Next]_vars, NeverTimedOut'
  PROVE  NeverTimedOut /\ ~ReadTimesOut
<1>1. count \in [Events -> Nat]
  BY DEF TypeInv, TypeOK, HistTypeOK
<1>2. UNCHANGED count \/ \E e \in Events : Spend(e)
  <2>1. ASSUME Supervisor PROVE UNCHANGED count \/ \E e \in Events : Spend(e)
    BY <2>1
    DEF Supervisor, SelectShutdown, SelectCommand, SelectIdleChanged,
        SelectIdleEnded, SelectSettings, ReadReply, ReadError, ReadTimesOut,
        ReadClosed, Reconnects, ReconnectFails, ReconnectGivesUp, Events
  <2>2. ASSUME Environment PROVE UNCHANGED count \/ \E e \in Events : Spend(e)
    BY <2>2
    DEF Environment, MpdExecutes, MpdRefuses, MpdStops, MpdStarts,
        MpdClosesQuiet, OtherClient, OperatorRetunes, ReleaseCustody, Events
  <2>3. ASSUME NEW c \in Callers, Caller(c)
        PROVE  UNCHANGED count \/ \E e \in Events : Spend(e)
    BY <2>3 DEF Caller, Submit, Enqueue, SendFails, Events
  <2>4. ASSUME IdleTask PROVE UNCHANGED count
    BY <2>4 DEF IdleTask
  <2> QED
    BY <2>1, <2>2, <2>3, <2>4 DEF Next, vars, stepVars
<1>3. ReadTimesOut => Spend("timeout") /\ "timeout" \in Events
  BY DEF ReadTimesOut, Events
<1> QED
  BY <1>1, <1>2, <1>3, SpendCounts DEF NeverTimedOut

\* Writing on an empty connection leaves one request there, or none.
LEMMA WritePairs ==
  ASSUME NEW p, Write(p), pending = <<>>, replies' = <<>>,
         cmd_open' = cmd_open
  PROVE  PairInv'
<1>1. pc' = "await" /\ plan' = p
  BY DEF Write
<1>2. \/ pending' = <<>>
      \/ pending' = <<Head(plan')>> /\ cmd_open'
  BY <1>1 DEF Write
<1> QED
  BY <1>1, <1>2 DEF PairInv, ClosedIsEmpty, RepliesArePaired

LEMMA EmptyPairs ==
  ASSUME pending' = <<>>, replies' = <<>>
  PROVE  PairInv'
  BY DEF PairInv, ClosedIsEmpty, RepliesArePaired

LEMMA FailPairs ==
  ASSUME NEW e, Fail(e), pending = <<>>, replies' = <<>>, cmd_open' = cmd_open
  PROVE  PairInv'
<1>1. pending' = pending \/ Write(Tail(plan))
  BY DEF Fail, BackToSelect
<1> QED
  BY <1>1, WritePairs, EmptyPairs

\* A reply that is read leaves the connection empty.
LEMMA ReadEmpties ==
  ASSUME TypeInv, PairInv, NeverTimedOut, pc = "await", replies # <<>>
  PROVE  pending = <<>> /\ Tail(replies) = <<>>
<1>1. replies \in Seq(Replies) /\ pending = <<>> /\ Len(replies) = 1
  BY DEF PairInv, RepliesArePaired, TypeInv, TypeOK, WireTypeOK
<1>2. Tail(replies) \in Seq(Replies) /\ Len(Tail(replies)) = 0
  BY <1>1, HeadTailProperties
<1> QED
  BY <1>1, <1>2, EmptySeq

LEMMA NextPairs ==
  ASSUME TypeInv, PairInv, [Next]_vars
  PROVE  PairInv'
<1>c. CASE ~NeverTimedOut'
  <2>1. RepliesArePaired'
    BY <1>c DEF RepliesArePaired
  <2>2. ClosedIsEmpty'
    <3>n. ASSUME UNCHANGED <<cmd_open, pending>> PROVE ClosedIsEmpty'
      BY <3>n DEF PairInv, ClosedIsEmpty
    <3>w. ASSUME NEW p, Write(p), UNCHANGED cmd_open PROVE ClosedIsEmpty'
      BY <3>w DEF Write, ClosedIsEmpty
    <3>f. ASSUME NEW e, Fail(e), UNCHANGED cmd_open PROVE ClosedIsEmpty'
      <4>1. pending' = pending \/ Write(Tail(plan))
        BY <3>f DEF Fail, BackToSelect
      <4> QED
        BY <3>f, <3>n, <3>w, <4>1
    <3>1. CASE SelectShutdown \/ MpdStops \/ MpdClosesQuiet
      BY <3>1 DEF SelectShutdown, MpdStops, MpdClosesQuiet, ClosedIsEmpty
    <3>2. CASE Reconnects
      BY <3>2 DEF Reconnects, ClosedIsEmpty
    <3>3. CASE SelectCommand \/ SelectIdleChanged \/ SelectSettings
      <4>1. UNCHANGED cmd_open /\ \E p : Write(p)
        BY <3>3
        DEF SelectCommand, SelectIdleChanged, SelectSettings, BeginMessage,
            Begin
      <4> QED
        BY <3>w, <4>1
    <3>4. CASE ReadReply
      <4>1. UNCHANGED cmd_open
        BY <3>4 DEF ReadReply
      <4>2. UNCHANGED pending \/ \E p : Write(p)
        BY <3>4
        DEF ReadReply, ReadAndContinue, ReadAndFinish, Begin, BackToSelect
      <4> QED
        BY <3>n, <3>w, <4>1, <4>2
    <3>5. CASE ReadError \/ ReadTimesOut \/ ReadClosed
      <4>1. UNCHANGED cmd_open /\ \E e : Fail(e)
        BY <3>5 DEF ReadError, ReadTimesOut, ReadClosed
      <4> QED
        BY <3>f, <4>1
    <3>6. CASE SelectIdleEnded \/ ReconnectFails \/ ReconnectGivesUp
      BY <3>6, <3>n
      DEF SelectIdleEnded, ReconnectFails, ReconnectGivesUp, BackToSelect,
          wireVars
    <3>7. CASE MpdExecutes \/ MpdRefuses
      BY <3>7 DEF MpdExecutes, MpdRefuses, ClosedIsEmpty
    <3>8. CASE MpdStarts \/ OtherClient \/ OperatorRetunes \/ ReleaseCustody
      BY <3>8, <3>n
      DEF MpdStarts, OtherClient, OperatorRetunes, ReleaseCustody, wireVars
    <3>9. CASE IdleTask \/ \E c \in Callers : Caller(c)
      BY <3>9, <3>n DEF IdleTask, Caller, Submit, Enqueue, SendFails, wireVars
    <3>10. CASE UNCHANGED vars
      BY <3>10, <3>n DEF vars, stepVars, wireVars
    <3> QED
      BY <3>1, <3>2, <3>3, <3>4, <3>5, <3>6, <3>7, <3>8, <3>9, <3>10
      DEF Next, Supervisor, Environment
  <2> QED
    BY <2>1, <2>2 DEF PairInv
<1>d. CASE NeverTimedOut'
  <2>0. NeverTimedOut /\ ~ReadTimesOut
    BY <1>d, TimeoutsStay
  <2>e. pc # "await" => pending = <<>> /\ replies = <<>>
    BY <2>0 DEF PairInv, RepliesArePaired
  <2>n. ASSUME UNCHANGED <<cmd_open, pending, replies, pc, plan>> PROVE PairInv'
    BY <2>n, <2>0 DEF PairInv, ClosedIsEmpty, RepliesArePaired
  <2>1. CASE SelectShutdown
    BY <2>1, EmptyPairs DEF SelectShutdown
  <2>2. CASE SelectCommand \/ SelectIdleChanged \/ SelectSettings
    <3>1. UNCHANGED <<cmd_open, replies>> /\ pc = "select" /\ \E p : Write(p)
      BY <2>2
      DEF SelectCommand, SelectIdleChanged, SelectSettings, BeginMessage,
          Begin
    <3> QED
      BY <2>e, <3>1, WritePairs
  <2>3. CASE ReadReply
    <3>1. pending = <<>> /\ replies' = <<>> /\ cmd_open' = cmd_open
      BY <2>0, <2>3, ReadEmpties DEF ReadReply
    <3>2. pending' = pending \/ \E p : Write(p)
      BY <2>3
      DEF ReadReply, ReadAndContinue, ReadAndFinish, Begin, BackToSelect
    <3> QED
      BY <3>1, <3>2, WritePairs, EmptyPairs
  <2>4. CASE ReadError
    <3>1. pending = <<>> /\ replies' = <<>> /\ cmd_open' = cmd_open
      BY <2>0, <2>4, ReadEmpties DEF ReadError
    <3> QED
      BY <2>4, <3>1, FailPairs DEF ReadError
  <2>5. CASE ReadClosed
    <3>1. pending = <<>> /\ replies' = <<>> /\ cmd_open' = cmd_open
      BY <2>5 DEF ReadClosed, PairInv, ClosedIsEmpty
    <3> QED
      BY <2>5, <3>1, FailPairs DEF ReadClosed
  <2>6. CASE Reconnects
    BY <2>6 DEF Reconnects, PairInv, ClosedIsEmpty, RepliesArePaired
  <2>7. CASE ReconnectFails \/ SelectIdleEnded
    BY <2>7, <2>n DEF ReconnectFails, SelectIdleEnded, wireVars, jobVars
  <2>8. CASE ReconnectGivesUp
    BY <2>e, <2>8, EmptyPairs DEF ReconnectGivesUp, BackToSelect
  <2>9. CASE MpdExecutes
    <3>1. /\ pending = <<Head(plan)>> /\ replies = <<>> /\ pc = "await"
          /\ cmd_open
      BY <2>0, <2>9 DEF MpdExecutes, PairInv, RepliesArePaired
    <3>2. /\ pending' = <<>> /\ replies' = <<Answers(Head(plan))>>
          /\ UNCHANGED <<cmd_open, pc, plan>>
      BY <2>9, <3>1 DEF MpdExecutes, jobVars
    <3>3. Len(replies') = 1 /\ Head(replies').tag = TagOf(Head(plan).verb)
      BY <3>2 DEF Answers
    <3> QED
      BY <3>1, <3>2, <3>3 DEF PairInv, ClosedIsEmpty, RepliesArePaired
  <2>10. CASE MpdRefuses
    <3>1. /\ pending = <<Head(plan)>> /\ replies = <<>> /\ pc = "await"
          /\ cmd_open
      BY <2>0, <2>10 DEF MpdRefuses, PairInv, RepliesArePaired
    <3>2. /\ pending' = <<>> /\ replies' = <<[tag |-> "ack", body |-> Blank]>>
          /\ UNCHANGED <<cmd_open, pc, plan>>
      BY <2>10, <3>1 DEF MpdRefuses, jobVars
    <3>3. Len(replies') = 1 /\ Head(replies').tag = "ack"
      BY <3>2
    <3> QED
      BY <3>1, <3>2, <3>3 DEF PairInv, ClosedIsEmpty, RepliesArePaired
  <2>11. CASE MpdStops
    <3>1. /\ pending' = <<>> /\ replies' \in {replies, <<>>}
          /\ UNCHANGED <<pc, plan>>
      BY <2>11 DEF MpdStops, jobVars
    <3> QED
      BY <2>0, <3>1 DEF PairInv, ClosedIsEmpty, RepliesArePaired
  <2>12. CASE MpdClosesQuiet
    BY <2>e, <2>12, EmptyPairs DEF MpdClosesQuiet
  <2>13. CASE MpdStarts \/ OtherClient \/ OperatorRetunes \/ ReleaseCustody
    BY <2>13, <2>n
    DEF MpdStarts, OtherClient, OperatorRetunes, ReleaseCustody, wireVars,
        jobVars
  <2>14. CASE IdleTask \/ \E c \in Callers : Caller(c)
    BY <2>14, <2>n
    DEF IdleTask, Caller, Submit, Enqueue, SendFails, wireVars, jobVars
  <2>15. CASE UNCHANGED vars
    BY <2>15, <2>n DEF vars, stepVars, wireVars, jobVars
  <2> QED
    BY <2>0, <2>1, <2>2, <2>3, <2>4, <2>5, <2>6, <2>7, <2>8, <2>9, <2>10,
       <2>11, <2>12, <2>13, <2>14, <2>15
    DEF Next, Supervisor, Environment
<1> QED
  BY <1>c, <1>d

LEMMA PairInvHolds == Spec => [](TypeInv /\ PairInv)
<1>1. Init => PairInv
  BY DEF Init, PairInv, ClosedIsEmpty, RepliesArePaired
<1>2. TypeInv /\ PairInv /\ [Next]_vars => (TypeInv /\ PairInv)'
  BY NextType, NextPairs
<1> QED
  BY <1>1, <1>2, InitType, PTL DEF Spec

\* As long as no command timed out, what MpdConnection reads answers the request
\* it wrote last, across refusals, closed connections, restarts and retries.
THEOREM RepliesStayPaired == Spec => []RepliesArePaired
<1>1. TypeInv /\ PairInv => RepliesArePaired
  BY DEF PairInv
<1> QED
  BY <1>1, PairInvHolds, PTL

(***************************************************************************)
(* Ok means executed.                                                      *)
(***************************************************************************)
LEMMA OneFor == ASSUME NEW v, NEW a, NEW c PROVE MadeFor(<<Request(v, a, c)>>, c)
<1> DEFINE q == Request(v, a, c)
<1>1. q.by = c
  BY DEF Request
<1> HIDE DEF q
<1>2. \A i \in 1..Len(<<q>>) : <<q>>[i] = q
  OBVIOUS
<1> QED
  BY <1>1, <1>2 DEF MadeFor, q

LEMMA FetchFor == ASSUME NEW c PROVE MadeFor(Fetch(c), c)
  BY DEF MadeFor, Fetch, Request

LEMMA SettingsFor == ASSUME NEW s PROVE MadeFor(SettingsPlan(s), NoCaller)
  BY DEF MadeFor, SettingsPlan, Request

LEMMA DispatchFor ==
  ASSUME NEW m, NEW c
  PROVE  MadeFor(Dispatch(m, c), c)
<1>1. ASSUME NEW v, NEW a PROVE MadeFor(<<Request(v, a, c)>>, c)
  BY OneFor
<1>2. CASE m.op = "QueryState"
  BY <1>2, FetchFor DEF Dispatch, Resumes, Mutes, Unmutes
<1>3. CASE m.op = "CycleOutput"
  <2>1. MadeFor(CyclePlan(c), c)
    BY DEF MadeFor, CyclePlan, Request
  <2> QED
    BY <1>3, <2>1 DEF Dispatch, Resumes, Mutes, Unmutes
<1>4. CASE Resumes(m)
  BY <1>1, <1>4 DEF Dispatch, Resumes, Mutes, Unmutes
<1>5. CASE Mutes(m)
  <2>1. MadeFor(MutePlan(c), c)
    BY DEF MadeFor, MutePlan, Request
  <2> QED
    BY <1>5, <2>1 DEF Dispatch, Resumes, Mutes, Unmutes
<1>6. CASE Unmutes(m)
  BY <1>1, <1>6 DEF Dispatch, Resumes, Mutes, Unmutes
<1>7. CASE m.op = "LoadAndPlay"
  <2>1. MadeFor(LoadPlan(c), c)
    BY DEF MadeFor, LoadPlan, Request
  <2> QED
    BY <1>7, <2>1 DEF Dispatch, Resumes, Mutes, Unmutes
<1>8. CASE /\ m.op \notin {"QueryState", "CycleOutput", "LoadAndPlay"}
           /\ ~Resumes(m) /\ ~Mutes(m) /\ ~Unmutes(m)
  BY <1>1, <1>8 DEF Dispatch
<1> QED
  BY <1>2, <1>3, <1>4, <1>5, <1>6, <1>7, <1>8

LEMMA TailFor ==
  ASSUME NEW p \in Seq(Requests), NEW c, p # <<>>, MadeFor(p, c)
  PROVE  MadeFor(Tail(p), c)
<1> SUFFICES ASSUME NEW i \in 1..Len(Tail(p)) PROVE Tail(p)[i].by = c
  BY DEF MadeFor
<1>1. Len(Tail(p)) = Len(p) - 1 /\ Tail(p)[i] = p[i + 1]
      /\ i + 1 \in 1..Len(p)
  OBVIOUS
<1> QED
  BY <1>1 DEF MadeFor

\* What follows a reply is made for the same caller.
LEMMA RestFor ==
  ASSUME TypeInv, PlanInv, pc = "await", replies # <<>>
  PROVE  MadeFor(Rest(Head(replies)), job.caller)
<1> DEFINE r == Head(replies)
<1>1. /\ plan \in Seq(Requests) /\ plan # <<>> /\ r \in Replies
      /\ MadeFor(plan, job.caller)
  BY HeadAndTail DEF TypeInv, TypeOK, JobTypeOK, JobInv, WireTypeOK, PlanInv
<1>2. r.body.state \in {"play", "pause", "stop"}
  BY <1>1 DEF Replies, MpdStates
<1>3. MadeFor(ResumePlan(r.body, job.caller), job.caller)
  <2>1. ASSUME NEW v, NEW a
        PROVE  MadeFor(<<Request(v, a, job.caller)>>, job.caller)
    BY OneFor
  <2>2. MadeFor(<<>>, job.caller)
    BY DEF MadeFor
  <2> QED
    BY <1>2, <2>1, <2>2 DEF ResumePlan
<1> QED
  BY <1>1, <1>3, TailFor DEF Rest

LEMMA NextPlan ==
  ASSUME TypeInv, PlanInv, [Next]_vars
  PROVE  PlanInv'
<1>n. ASSUME UNCHANGED <<pc, plan, job>> PROVE PlanInv'
  BY <1>n DEF PlanInv
<1>o. ASSUME pc' # "await" PROVE PlanInv'
  BY <1>o DEF PlanInv
<1>f. ASSUME NEW e, Fail(e), pc = "await" PROVE PlanInv'
  <2>1. \/ pc' # "await"
        \/ pc' = "await" /\ plan' = Tail(plan) /\ job' = job
    BY <1>f DEF Fail, BackToSelect, Write
  <2>2. plan \in Seq(Requests) /\ plan # <<>> /\ MadeFor(plan, job.caller)
    BY <1>f DEF TypeInv, TypeOK, JobTypeOK, JobInv, PlanInv
  <2>3. MadeFor(Tail(plan), job.caller)
    BY <2>2, TailFor
  <2> QED
    BY <1>f, <1>o, <2>1, <2>3 DEF PlanInv
<1>1. CASE SelectCommand
  <2> DEFINE c == Head(command_rx)
  <2>1. /\ plan' = Dispatch(message[c], c) /\ job'.kind = "message"
        /\ job'.caller = c
    BY <1>1 DEF SelectCommand, BeginMessage, Begin, Write
  <2> QED
    BY <2>1, DispatchFor DEF PlanInv
<1>2. CASE SelectIdleChanged
  <2>1. plan' = Fetch(NoCaller) /\ job'.caller = NoCaller
    BY <1>2 DEF SelectIdleChanged, Begin, Write
  <2> QED
    BY <2>1, FetchFor DEF PlanInv
<1>3. CASE SelectSettings
  <2>1. plan' = SettingsPlan(settings) /\ job'.caller = NoCaller
    BY <1>3 DEF SelectSettings, Begin, Write
  <2> QED
    BY <2>1, SettingsFor DEF PlanInv
<1>4. CASE ReadReply
  <2> DEFINE r == Head(replies)
  <2>0. pc = "await" /\ replies # <<>>
    BY <1>4 DEF ReadReply
  <2>1. CASE ReadAndContinue(r)
    <3>1. plan' = Rest(r) /\ job' = job
      BY <2>1 DEF ReadAndContinue, Write
    <3> QED
      BY <2>0, <3>1, RestFor DEF PlanInv
  <2>2. CASE ReadAndFinish(r)
    <3>1. \/ pc' # "await"
          \/ plan' = Fetch(NoCaller) /\ job'.caller = NoCaller
      BY <2>2 DEF ReadAndFinish, BackToSelect, Begin, Write
    <3> QED
      BY <1>o, <3>1, FetchFor DEF PlanInv
  <2> QED
    BY <1>4, <2>1, <2>2 DEF ReadReply
<1>5. CASE ReadError \/ ReadTimesOut \/ ReadClosed
  BY <1>5, <1>f DEF ReadError, ReadTimesOut, ReadClosed
<1>6. CASE Reconnects
  <2>1. job.kind = "message" /\ job \in Jobs
    BY <1>6 DEF Reconnects, TypeInv, TypeOK, JobTypeOK, JobInv
  <2>2. /\ plan' = Dispatch(job.msg, job.caller) /\ job'.kind = "message"
        /\ job'.caller = job.caller
    BY <1>6, <2>1 DEF Reconnects, Jobs
  <2> QED
    BY <2>2, DispatchFor DEF PlanInv
<1>7. CASE SelectShutdown \/ ReconnectGivesUp
  BY <1>7, <1>o DEF SelectShutdown, ReconnectGivesUp, BackToSelect
<1>8. CASE SelectIdleEnded \/ ReconnectFails
  BY <1>8, <1>n DEF SelectIdleEnded, ReconnectFails, jobVars
<1>9. CASE IdleTask \/ \E c \in Callers : Caller(c)
  BY <1>9, <1>n DEF IdleTask, Caller, Submit, Enqueue, SendFails, jobVars
<1>10. CASE Environment
  BY <1>10, <1>n
  DEF Environment, MpdExecutes, MpdRefuses, MpdStops, MpdStarts,
      MpdClosesQuiet, OtherClient, OperatorRetunes, ReleaseCustody, jobVars
<1>11. CASE UNCHANGED vars
  BY <1>11, <1>n DEF vars, stepVars, jobVars
<1> QED
  BY <1>1, <1>2, <1>3, <1>4, <1>5, <1>6, <1>7, <1>8, <1>9, <1>10, <1>11
  DEF Next, Supervisor

\* Nobody has a result while waiting for one.
LEMMA NextResult ==
  ASSUME TypeInv, QueueInv, ResultInv, [Next]_vars
  PROVE  ResultInv'
<1>t. /\ phase \in [Callers -> {"ready", "sending", "waiting"}]
      /\ result \in [Callers -> Results]
  BY DEF TypeInv, TypeOK, CallerTypeOK
<1>n. ASSUME UNCHANGED <<phase, result>> PROVE ResultInv'
  BY <1>n DEF ResultInv
<1>a. ASSUME NEW r, Answer(r) PROVE ResultInv'
  BY <1>a, <1>t DEF Answer, ResultInv
<1>f. ASSUME NEW e, Fail(e) PROVE ResultInv'
  <2>1. NoAnswer \/ Answer(classify_command_error(e))
    BY <1>f DEF Fail
  <2> QED
    BY <1>a, <1>n, <2>1 DEF NoAnswer
<1>1. CASE SelectShutdown
  BY <1>1, <1>t DEF SelectShutdown, ResultInv
<1>2. CASE ReadReply
  <2>1. NoAnswer \/ Answer("Ok")
    BY <1>2 DEF ReadReply, ReadAndContinue, ReadAndFinish
  <2> QED
    BY <1>a, <1>n, <2>1 DEF NoAnswer
<1>3. CASE ReadError \/ ReadTimesOut \/ ReadClosed
  BY <1>3, <1>f DEF ReadError, ReadTimesOut, ReadClosed
<1>4. CASE ReconnectGivesUp
  BY <1>4, <1>a DEF ReconnectGivesUp
<1>5. CASE SelectCommand \/ SelectIdleChanged \/ SelectIdleEnded
             \/ SelectSettings \/ Reconnects \/ ReconnectFails
  BY <1>5, <1>n
  DEF SelectCommand, SelectIdleChanged, SelectIdleEnded, SelectSettings,
      Reconnects, ReconnectFails, callerVars
<1>6. CASE IdleTask
  BY <1>6, <1>n DEF IdleTask, callerVars
<1>7. CASE Environment
  BY <1>7, <1>n
  DEF Environment, MpdExecutes, MpdRefuses, MpdStops, MpdStarts,
      MpdClosesQuiet, OtherClient, OperatorRetunes, ReleaseCustody, callerVars
<1>8. ASSUME NEW c \in Callers, Caller(c) PROVE ResultInv'
  BY <1>8, <1>t DEF Caller, Submit, Enqueue, SendFails, ResultInv
<1>9. CASE UNCHANGED vars
  BY <1>9, <1>n DEF vars, stepVars, callerVars
<1> QED
  BY <1>1, <1>2, <1>3, <1>4, <1>5, <1>6, <1>7, <1>8, <1>9
  DEF Next, Supervisor

\* A request on the wire is made for the job in progress.
LEMMA OnTheWire ==
  ASSUME AnswerInv, NeverTimedOut, pending # <<>>
  PROVE  /\ pending = <<Head(plan)>> /\ replies = <<>> /\ pc = "await"
         /\ Head(plan).by = job.caller
         /\ \A c \in Callers : Head(plan).by = c => Serves(c)
<1>1. pending = <<Head(plan)>> /\ replies = <<>> /\ pc = "await"
  BY DEF AnswerInv, PairInv, RepliesArePaired
<1>2. plan \in Seq(Requests) /\ plan # <<>> /\ MadeFor(plan, job.caller)
      /\ (job.kind # "message" => job.caller = NoCaller)
  BY <1>1
  DEF AnswerInv, TypeInv, TypeOK, JobTypeOK, JobInv, PlanInv
<1>3. Head(plan) = plan[1] /\ 1 \in 1..Len(plan)
  BY <1>2
<1>4. Head(plan).by = job.caller
  BY <1>2, <1>3 DEF MadeFor
<1> QED
  BY <1>1, <1>2, <1>4, CallersAssumption DEF Serves

\* A caller that is served has no result yet.
LEMMA ServedHasNone ==
  ASSUME AnswerInv, NEW c \in Callers, Serves(c)
  PROVE  result[c] = "none"
  BY DEF AnswerInv, QueueInv, ResultInv

LEMMA FailRefusal ==
  ASSUME AnswerInv, NeverTimedOut, pc = "await", UNCHANGED refused,
         NEW e, Fail(e)
  PROVE  OkNotRefused' /\ AckPending'
<1>t. /\ result \in [Callers -> Results] /\ OkNotRefused
      /\ (job.kind = "message" => job.caller \in Callers)
  BY DEF AnswerInv, TypeInv, TypeOK, CallerTypeOK, JobInv, RefusalInv
<1>1. OkNotRefused'
  <2>1. CASE NoAnswer
    BY <1>t, <2>1 DEF NoAnswer, OkNotRefused
  <2>2. CASE Answer(classify_command_error(e)) /\ job.kind = "message"
    <3>1. classify_command_error(e) # "Ok"
      BY DEF classify_command_error
    <3> QED
      BY <1>t, <2>2, <3>1 DEF Answer, OkNotRefused
  <2> QED
    BY <2>1, <2>2 DEF Fail
<1>2. pc' # "await" \/ job'.kind # "message"
  BY DEF Fail, BackToSelect, Write
<1> QED
  BY <1>1, <1>2 DEF AckPending, Serves

LEMMA ReadRefusal ==
  ASSUME AnswerInv, NeverTimedOut, ReadReply
  PROVE  OkNotRefused' /\ AckPending'
<1> DEFINE r == Head(replies)
<1>t. /\ result \in [Callers -> Results] /\ OkNotRefused /\ AckPending
      /\ (job.kind = "message" => job.caller \in Callers)
  BY DEF AnswerInv, TypeInv, TypeOK, CallerTypeOK, JobInv, RefusalInv
<1>0. pc = "await" /\ replies # <<>> /\ r.tag # "ack" /\ UNCHANGED refused
  BY DEF ReadReply, Parse
<1>1. \A c \in Callers : Serves(c) => ~refused[c]
  BY <1>0, <1>t DEF AckPending
<1>2. CASE ReadAndContinue(r)
  <2>1. UNCHANGED <<job, result>>
    BY <1>2 DEF ReadAndContinue, NoAnswer
  <2> QED
    BY <1>0, <1>1, <1>t, <2>1 DEF OkNotRefused, AckPending, Serves
<1>3. CASE ReadAndFinish(r)
  <2>1. job'.kind # "message"
    BY <1>3 DEF ReadAndFinish, BackToSelect, Begin, NoJob
  <2>2. NoAnswer \/ (Answer("Ok") /\ job.kind = "message")
    BY <1>3 DEF ReadAndFinish
  <2>3. \A c \in Callers : result'[c] = result[c] \/ Serves(c)
    BY <1>t, <2>2 DEF NoAnswer, Answer, Serves
  <2> QED
    BY <1>0, <1>1, <1>t, <2>1, <2>3 DEF OkNotRefused, AckPending, Serves
<1> QED
  BY <1>2, <1>3 DEF ReadReply

\* The one that is dispatched, for the first or the second time, starts clean.
LEMMA DispatchRefusal ==
  ASSUME AnswerInv, NeverTimedOut, NEW d \in Callers,
         refused' = [refused EXCEPT ![d] = FALSE], UNCHANGED result,
         \A c \in Callers : Serves(c)' => c = d
  PROVE  OkNotRefused' /\ AckPending'
<1>1. refused \in [Callers -> BOOLEAN] /\ OkNotRefused
  BY DEF AnswerInv, TypeInv, TypeOK, HistTypeOK, RefusalInv
<1>2. ~refused'[d] /\ \A c \in Callers : refused'[c] => refused[c]
  BY <1>1
<1> QED
  BY <1>1, <1>2 DEF OkNotRefused, AckPending

LEMMA NextRefusal ==
  ASSUME AnswerInv, [Next]_vars
  PROVE  RefusalInv'
<1> SUFFICES ASSUME NeverTimedOut' PROVE OkNotRefused' /\ AckPending'
  BY DEF RefusalInv
<1>0. NeverTimedOut /\ ~ReadTimesOut
  BY TimeoutsStay DEF AnswerInv
<1>t. OkNotRefused /\ AckPending /\ TypeInv /\ QueueInv /\ PairInv
  BY <1>0 DEF AnswerInv, RefusalInv
<1>n. ASSUME UNCHANGED <<refused, pc, job, replies, cmd_open>>,
             \A c \in Callers : result'[c] = "Ok" => result[c] = "Ok"
      PROVE  OkNotRefused' /\ AckPending'
  BY <1>t, <1>n DEF OkNotRefused, AckPending, Serves
<1>m. ASSUME UNCHANGED refused, pc' # "await" \/ job'.kind # "message",
             \A c \in Callers : result'[c] = "Ok" => result[c] = "Ok"
      PROVE  OkNotRefused' /\ AckPending'
  BY <1>t, <1>m DEF OkNotRefused, AckPending, Serves
<1>1. CASE SelectCommand
  <2> DEFINE d == Head(command_rx)
  <2>1. d \in Callers
    BY <1>1, <1>t, HeadAndTail DEF SelectCommand, TypeInv, TypeOK, ChannelTypeOK
  <2>2. /\ refused' = [refused EXCEPT ![d] = FALSE] /\ UNCHANGED result
        /\ job'.caller = d
    BY <1>1 DEF SelectCommand, BeginMessage, Begin, callerVars
  <2> QED
    BY <1>0, <2>1, <2>2, DispatchRefusal DEF Serves
<1>2. CASE Reconnects
  <2>1. job.caller \in Callers /\ job \in Jobs
    BY <1>2, <1>t DEF Reconnects, TypeInv, TypeOK, JobTypeOK, JobInv
  <2>2. /\ refused' = [refused EXCEPT ![job.caller] = FALSE]
        /\ UNCHANGED result /\ job'.caller = job.caller
    BY <1>2, <2>1 DEF Reconnects, callerVars, Jobs
  <2> QED
    BY <1>0, <2>1, <2>2, DispatchRefusal DEF Serves
<1>3. CASE ReadReply
  BY <1>0, <1>3, ReadRefusal
<1>4. CASE ReadError \/ ReadClosed
  BY <1>0, <1>4, FailRefusal DEF ReadError, ReadClosed
<1>5. CASE SelectShutdown
  <2>1. \A c \in Callers : result'[c] = "Ok" => result[c] = "Ok"
    BY <1>5 DEF SelectShutdown
  <2> QED
    BY <1>5, <1>m, <2>1 DEF SelectShutdown, histVars
<1>6. CASE SelectIdleChanged \/ SelectSettings
  BY <1>6, <1>m
  DEF SelectIdleChanged, SelectSettings, Begin, callerVars, histVars
<1>7. CASE SelectIdleEnded \/ ReconnectFails
  BY <1>7, <1>n
  DEF SelectIdleEnded, ReconnectFails, callerVars, histVars, jobVars, wireVars
<1>8. CASE ReconnectGivesUp
  <2>1. PICK x \in {"ConnectionExhausted", "Protocol"} : Answer(x)
    BY <1>8 DEF ReconnectGivesUp
  <2>2. \A c \in Callers : result'[c] = "Ok" => result[c] = "Ok"
    BY <1>t, <2>1 DEF Answer, TypeInv, TypeOK, CallerTypeOK
  <2> QED
    BY <1>8, <1>m, <2>2 DEF ReconnectGivesUp, BackToSelect
<1>9. CASE MpdExecutes
  <2>1. /\ pending # <<>> /\ cmd_open /\ UNCHANGED <<refused, pc, job, result>>
    BY <1>9 DEF MpdExecutes, histVars, jobVars, callerVars
  <2>2. replies = <<>> /\ pc = "await"
    BY <1>0, <2>1, OnTheWire
  <2>3. \A c \in Callers : Serves(c) => ~refused[c]
    BY <1>t, <2>1, <2>2 DEF AckPending
  <2> QED
    BY <1>t, <2>1, <2>3 DEF OkNotRefused, AckPending, Serves
<1>10. CASE MpdRefuses
  <2>1. /\ pending # <<>> /\ UNCHANGED <<pc, job, result>>
        /\ replies' = Append(replies, [tag |-> "ack", body |-> Blank])
        /\ refused' = [c \in Callers |-> refused[c] \/ c = Head(pending).by]
    BY <1>10 DEF MpdRefuses, jobVars, callerVars
  <2>2. /\ pending = <<Head(plan)>> /\ replies = <<>>
        /\ \A c \in Callers : Head(plan).by = c => Serves(c)
    BY <1>0, <2>1, OnTheWire
  <2>3. replies' = <<[tag |-> "ack", body |-> Blank]>>
    BY <2>1, <2>2
  <2>4. replies' # <<>> /\ Head(replies').tag = "ack"
    BY <2>3
  <2>5. Head(pending) = Head(plan)
    BY <2>2
  <2>6. \A c \in Callers : refused'[c] => refused[c] \/ Serves(c)
    BY <2>1, <2>2, <2>5
  <2>7. \A c \in Callers : Serves(c) => result[c] # "Ok"
    BY ServedHasNone
  <2>8. OkNotRefused'
    BY <1>t, <2>1, <2>6, <2>7 DEF OkNotRefused
  <2>9. AckPending'
    BY <2>4 DEF AckPending
  <2> QED
    BY <2>8, <2>9
<1>11. CASE MpdStops
  <2>1. /\ ~cmd_open' /\ replies' \in {replies, <<>>}
        /\ UNCHANGED <<refused, pc, job, result>>
    BY <1>11 DEF MpdStops, histVars, jobVars, callerVars
  <2> QED
    BY <1>t, <2>1 DEF OkNotRefused, AckPending, Serves
<1>12. CASE MpdClosesQuiet
  BY <1>12, <1>m DEF MpdClosesQuiet, histVars, callerVars
<1>13. CASE MpdStarts \/ OtherClient \/ OperatorRetunes \/ ReleaseCustody
  BY <1>13, <1>n
  DEF MpdStarts, OtherClient, OperatorRetunes, ReleaseCustody, histVars,
      jobVars, callerVars, wireVars
<1>14. CASE IdleTask
  BY <1>14, <1>n DEF IdleTask, histVars, jobVars, callerVars, wireVars
<1>15. ASSUME NEW d \in Callers, Caller(d) PROVE OkNotRefused' /\ AckPending'
  <2>1. \A c \in Callers : result'[c] = "Ok" => result[c] = "Ok"
    BY <1>15, <1>t
    DEF Caller, Submit, Enqueue, SendFails, TypeInv, TypeOK, CallerTypeOK
  <2>2. UNCHANGED <<refused, pc, job, replies, cmd_open>>
    BY <1>15 DEF Caller, Submit, Enqueue, SendFails, histVars, jobVars, wireVars
  <2> QED
    BY <1>n, <2>1, <2>2
<1>16. CASE UNCHANGED vars
  BY <1>16, <1>n DEF vars, stepVars, histVars, jobVars, callerVars, wireVars
<1> QED
  BY <1>0, <1>1, <1>2, <1>3, <1>4, <1>5, <1>6, <1>7, <1>8, <1>9, <1>10, <1>11,
     <1>12, <1>13, <1>14, <1>15, <1>16
  DEF Next, Supervisor, Environment

LEMMA AnswerInvHolds == Spec => []AnswerInv
<1>1. Init => AnswerInv
  <2>1. Init => QueueInv
    BY DEF Init, QueueInv, NoJob, Serves
  <2>2. Init => PairInv
    BY DEF Init, PairInv, ClosedIsEmpty, RepliesArePaired
  <2>3. Init => ResultInv /\ PlanInv /\ RefusalInv
    BY DEF Init, ResultInv, PlanInv, RefusalInv, OkNotRefused,
           AckPending
  <2> QED
    BY <2>1, <2>2, <2>3, InitType DEF AnswerInv
<1>2. AnswerInv /\ [Next]_vars => AnswerInv'
  BY NextType, QueueNext, NextPairs, NextResult, NextPlan, NextRefusal
  DEF AnswerInv
<1> QED
  BY <1>1, <1>2, PTL DEF Spec

\* As long as no command timed out, a caller that SupervisorHandle answered Ok
\* had every request of its command executed by MPD, none refused and none
\* outstanding, whatever was lost and sent again on the way.
THEOREM OkIsExecuted == Spec => []OkMeansExecuted
<1>1. AnswerInv => OkMeansExecuted
  <2> SUFFICES ASSUME AnswerInv, NeverTimedOut, NEW c \in Callers,
                      result[c] = "Ok"
               PROVE  /\ ~refused[c]
                      /\ \A i \in 1..Len(pending) : pending[i].by # c
    BY DEF OkMeansExecuted, Truthful
  <2>1. ~refused[c]
    BY DEF AnswerInv, RefusalInv, OkNotRefused
  <2>2. ASSUME NEW i \in 1..Len(pending) PROVE pending[i].by # c
    <3>1. pending # <<>>
      BY <2>2
    <3>2. pending = <<Head(plan)>> /\ (Head(plan).by = c => Serves(c))
      BY <3>1, OnTheWire
    <3>3. pending[i] = Head(plan)
      BY <2>2, <3>2
    <3>4. ~Serves(c)
      BY ServedHasNone
    <3> QED
      BY <3>2, <3>3, <3>4
  <2> QED
    BY <2>1, <2>2
<1> QED
  BY <1>1, AnswerInvHolds, PTL

(***************************************************************************)
(* What an answer says of MPD.                                             *)
(***************************************************************************)
Cycles == job.kind = "message" /\ job.msg.op = "CycleOutput"

\* Whoever is served is served the message it sent.
MessageInv == \A c \in Callers : Serves(c) => job.msg = message[c]

\* What is left of a set_mute and of an output cycle, and what the mute flag
\* is meanwhile; nothing but an output cycle disables the output.
MuteShape(p, c) ==
  \/ p = <<Request("status", 0, c), Request("setvol", 0, c)>>
  \/ p = <<Request("setvol", 0, c)>> /\ muted
UnmuteShape(p, c) == p = <<Request("setvol", pre_mute_volume, c)>> /\ ~muted
CycleShape(p, c) ==
  p \in {CyclePlan(c), <<Request("enableoutput", 0, c)>>}
KeepsOutput(p) == \A i \in 1..Len(p) : p[i].verb # "disableoutput"
ShapeOf(kind, m, p, c) ==
  /\ kind = "message" /\ Mutes(m) => MuteShape(p, c)
  /\ kind = "message" /\ Unmutes(m) => UnmuteShape(p, c)
  /\ kind = "message" /\ m.op = "CycleOutput" => CycleShape(p, c)
  /\ ~(kind = "message" /\ m.op = "CycleOutput") => KeepsOutput(p)
ShapeInv == pc = "await" => ShapeOf(job.kind, job.msg, plan, job.caller)

\* A reply that waits to be read says what MPD did, and it still is so.
Executed ==
  /\ Head(plan).verb = "setvol" /\ count["change"] = 0
       => mpd.volume = Head(plan).arg
  /\ Head(plan).verb = "enableoutput" => mpd.output
EffectInv ==
  /\ NeverTimedOut /\ pc = "await"
  /\ replies # <<>> /\ Head(replies).tag = "unit"
  => Executed

\* An output that is off belongs to the cycle in progress or to one that was
\* answered with an error.
OutputInv ==
  NeverTimedOut /\ pc # "stopped" /\ ~mpd.output => cycle_failed \/ Cycles

HoldInv ==
  AnswerInv /\ MessageInv /\ ShapeInv /\ EffectInv /\ OutputInv

\* What every step keeps.
LEMMA NextMessage ==
  ASSUME AnswerInv, MessageInv, [Next]_vars
  PROVE  MessageInv'
<1>t. /\ TypeInv /\ QueueInv /\ job \in Jobs
      /\ message \in [Callers -> MessageType]
  BY DEF AnswerInv, TypeInv, TypeOK, CallerTypeOK, JobTypeOK
<1>n. ASSUME UNCHANGED <<job, message>> PROVE MessageInv'
  BY <1>n DEF MessageInv, Serves
<1>o. ASSUME job'.kind # "message" PROVE MessageInv'
  BY <1>o DEF MessageInv, Serves
<1>f. ASSUME NEW e, Fail(e), UNCHANGED message PROVE MessageInv'
  <2>1. job' = job \/ job'.kind # "message"
    BY <1>f DEF Fail, BackToSelect, NoJob
  <2> QED
    BY <1>f, <1>n, <1>o, <2>1
<1>1. CASE SelectCommand
  <2>1. /\ job'.msg = message[Head(command_rx)] /\ UNCHANGED message
        /\ job'.caller = Head(command_rx)
    BY <1>1 DEF SelectCommand, BeginMessage, Begin, callerVars
  <2> QED
    BY <2>1 DEF MessageInv, Serves
<1>2. CASE Reconnects
  <2>1. /\ job'.msg = job.msg /\ job'.caller = job.caller
        /\ job'.kind = job.kind /\ UNCHANGED message
    BY <1>2, <1>t DEF Reconnects, Jobs, callerVars
  <2> QED
    BY <2>1 DEF MessageInv, Serves
<1>3. CASE ReadReply
  <2>1. UNCHANGED message /\ (job' = job \/ job'.kind # "message")
    BY <1>3 DEF ReadReply, ReadAndContinue, ReadAndFinish, BackToSelect,
                Begin, NoJob
  <2> QED
    BY <1>n, <1>o, <2>1
<1>4. CASE ReadError \/ ReadTimesOut \/ ReadClosed
  BY <1>4, <1>f DEF ReadError, ReadTimesOut, ReadClosed
<1>5. CASE SelectIdleChanged \/ SelectSettings \/ ReconnectGivesUp
  BY <1>5, <1>o
  DEF SelectIdleChanged, SelectSettings, ReconnectGivesUp, Begin,
      BackToSelect, NoJob
<1>6. CASE SelectShutdown \/ SelectIdleEnded \/ ReconnectFails \/ IdleTask
  BY <1>6, <1>n
  DEF SelectShutdown, SelectIdleEnded, ReconnectFails, IdleTask, jobVars,
      callerVars
<1>7. CASE Environment
  BY <1>7, <1>n
  DEF Environment, MpdExecutes, MpdRefuses, MpdStops, MpdStarts,
      MpdClosesQuiet, OtherClient, OperatorRetunes, ReleaseCustody, callerVars,
      jobVars
<1>8. ASSUME NEW c \in Callers, Caller(c) PROVE MessageInv'
  <2>1. UNCHANGED job
    BY <1>8 DEF Caller, Submit, Enqueue, SendFails, jobVars
  <2>2. \A d \in Callers : Serves(d) => message'[d] = message[d]
    BY <1>8, <1>t DEF Caller, Submit, Enqueue, SendFails, QueueInv
  <2> QED
    BY <2>1, <2>2 DEF MessageInv, Serves
<1>9. CASE UNCHANGED vars
  BY <1>9, <1>n DEF vars, stepVars, jobVars, callerVars
<1> QED
  BY <1>1, <1>2, <1>3, <1>4, <1>5, <1>6, <1>7, <1>8, <1>9 DEF Next, Supervisor

LEMMA OneKeepsOutput ==
  ASSUME NEW v, NEW a, NEW c, v # "disableoutput"
  PROVE  KeepsOutput(<<Request(v, a, c)>>)
  BY DEF KeepsOutput, Request

\* A dispatch lays the plan out.
LEMMA DispatchShape ==
  ASSUME NEW m \in MessageType, NEW c, job'.kind = "message", job'.msg = m,
         job'.caller = c, plan' = Dispatch(m, c),
         muted' = MutedAtDispatch(m), pre_mute_volume' = pre_mute_volume
  PROVE  ShapeInv'
<1> USE DEF ShapeInv, ShapeOf
<1>1. CASE Mutes(m)
  <2>1. Dispatch(m, c) = MutePlan(c) /\ m.op # "CycleOutput" /\ ~Unmutes(m)
    BY <1>1 DEF Dispatch, Mutes, Unmutes, Resumes
  <2>2. muted' = muted
    BY <1>1 DEF MutedAtDispatch, Mutes, Unmutes
  <2>3. KeepsOutput(MutePlan(c))
    BY DEF KeepsOutput, MutePlan, Request
  <2> QED
    BY <1>1, <2>1, <2>2, <2>3 DEF MutePlan, MuteShape
<1>2. CASE Unmutes(m)
  <2>1. /\ Dispatch(m, c) = <<Request("setvol", pre_mute_volume, c)>>
        /\ m.op # "CycleOutput" /\ ~Mutes(m)
    BY <1>2 DEF Dispatch, Mutes, Unmutes, Resumes
  <2>2. ~muted'
    BY <1>2 DEF MutedAtDispatch, Mutes, Unmutes
  <2> QED
    BY <2>1, <2>2, OneKeepsOutput DEF UnmuteShape
<1>3. CASE m.op = "CycleOutput"
  <2>1. Dispatch(m, c) = CyclePlan(c) /\ ~Mutes(m) /\ ~Unmutes(m)
    BY <1>3 DEF Dispatch, Mutes, Unmutes, Resumes
  <2> QED
    BY <1>3, <2>1 DEF CycleShape
<1>4. CASE ~Mutes(m) /\ ~Unmutes(m) /\ m.op # "CycleOutput"
  <2> SUFFICES KeepsOutput(Dispatch(m, c))
    BY <1>4
  <2>1. CASE m.op = "QueryState"
    <3>1. KeepsOutput(Fetch(c))
      BY DEF KeepsOutput, Fetch, Request
    <3> QED
      BY <2>1, <3>1 DEF Dispatch, Mutes, Unmutes, Resumes
  <2>2. CASE Resumes(m)
    <3>1. Dispatch(m, c) = <<Request("status", 0, c)>>
      BY <1>4, <2>2 DEF Dispatch, Mutes, Unmutes, Resumes
    <3> QED
      BY <3>1, OneKeepsOutput
  <2>3. CASE m.op = "LoadAndPlay"
    <3>1. KeepsOutput(LoadPlan(c))
      BY DEF KeepsOutput, LoadPlan, Request
    <3> QED
      BY <2>3, <3>1 DEF Dispatch, Mutes, Unmutes, Resumes
  <2>4. CASE m.op \notin {"QueryState", "LoadAndPlay"} /\ ~Resumes(m)
    <3>1. Dispatch(m, c) = <<Request(OneShot[m.op], m.arg, c)>>
      BY <1>4, <2>4 DEF Dispatch
    <3>2. m.op \in {"PlayPosition", "Pause", "Stop", "Next", "Previous",
                    "Seek", "SeekRelative", "SetRepeat", "SetShuffle",
                    "SetSingle", "SetConsume", "SetVolume"}
      BY <1>4, <2>4 DEF MessageType, Resumes, Mutes, Unmutes
    <3>3. OneShot[m.op] # "disableoutput"
      BY <3>2 DEF OneShot
    <3> QED
      BY <3>1, <3>3, OneKeepsOutput
  <2> QED
    BY <2>1, <2>2, <2>3, <2>4
<1> QED
  BY <1>1, <1>2, <1>3, <1>4

LEMMA TailKeepsOutput ==
  ASSUME NEW p \in Seq(Requests), p # <<>>, KeepsOutput(p)
  PROVE  KeepsOutput(Tail(p))
<1> SUFFICES ASSUME NEW i \in 1..Len(Tail(p))
             PROVE  Tail(p)[i].verb # "disableoutput"
  BY DEF KeepsOutput
<1>1. Tail(p)[i] = p[i + 1] /\ i + 1 \in 1..Len(p)
  OBVIOUS
<1> QED
  BY <1>1 DEF KeepsOutput

LEMMA NextShape ==
  ASSUME AnswerInv, ShapeInv, [Next]_vars
  PROVE  ShapeInv'
<1>t. /\ TypeInv /\ job \in Jobs /\ plan \in Seq(Requests)
      /\ (pc = "await" => plan # <<>>)
  BY DEF AnswerInv, TypeInv, TypeOK, JobTypeOK, JobInv
<1>n. ASSUME UNCHANGED <<pc, job, plan, muteVars>> PROVE ShapeInv'
  BY <1>n
  DEF ShapeInv, ShapeOf, MuteShape, UnmuteShape, muteVars
<1>o. ASSUME pc' # "await" PROVE ShapeInv'
  BY <1>o DEF ShapeInv
<1>p. ASSUME job'.kind # "message", KeepsOutput(plan') PROVE ShapeInv'
  BY <1>p DEF ShapeInv, ShapeOf
<1>q. \A c : KeepsOutput(Fetch(c))
  BY DEF KeepsOutput, Fetch, Request
<1>f. ASSUME NEW e, Fail(e), pc = "await" PROVE ShapeInv'
  <2>1. \/ pc' # "await"
        \/ job' = job /\ job.kind = "settings" /\ plan' = Tail(plan)
    BY <1>f DEF Fail, BackToSelect, Write
  <2>2. ASSUME job.kind = "settings" PROVE KeepsOutput(Tail(plan))
    BY <1>f, <1>t, <2>2, TailKeepsOutput DEF ShapeInv, ShapeOf
  <2> QED
    BY <1>o, <1>p, <2>1, <2>2
<1>1. CASE SelectCommand
  <2> DEFINE c == Head(command_rx)
  <2>1. c \in Callers /\ message[c] \in MessageType
    BY <1>1, <1>t, HeadAndTail
    DEF SelectCommand, TypeInv, TypeOK, ChannelTypeOK, CallerTypeOK
  <2>2. /\ job'.kind = "message" /\ job'.msg = message[c] /\ job'.caller = c
        /\ plan' = Dispatch(message[c], c)
        /\ muted' = MutedAtDispatch(message[c])
        /\ pre_mute_volume' = pre_mute_volume
    BY <1>1 DEF SelectCommand, BeginMessage, Begin, Write
  <2> QED
    BY <2>1, <2>2, DispatchShape
<1>2. CASE Reconnects
  <2>1. job.kind = "message" /\ job.msg \in MessageType
    BY <1>2, <1>t DEF Reconnects, TypeInv, JobInv, Jobs
  <2>2. /\ job'.kind = "message" /\ job'.msg = job.msg
        /\ job'.caller = job.caller
        /\ plan' = Dispatch(job.msg, job.caller)
        /\ muted' = MutedAtDispatch(job.msg)
        /\ pre_mute_volume' = pre_mute_volume
    BY <1>2, <1>t, <2>1 DEF Reconnects, Jobs
  <2> QED
    BY <2>1, <2>2, DispatchShape
<1>3. CASE SelectIdleChanged
  BY <1>3, <1>p, <1>q DEF SelectIdleChanged, Begin, Write
<1>4. CASE SelectSettings
  <2>1. KeepsOutput(SettingsPlan(settings))
    BY DEF KeepsOutput, SettingsPlan, Request
  <2> QED
    BY <1>4, <1>p, <2>1 DEF SelectSettings, Begin, Write
<1>5. CASE ReadReply
  <2> DEFINE r == Head(replies)
  <2>0. pc = "await" /\ replies # <<>> /\ plan # <<>>
        /\ ShapeOf(job.kind, job.msg, plan, job.caller)
    BY <1>5, <1>t DEF ReadReply, ShapeInv
  <2>1. CASE ReadAndFinish(r)
    <3>1. \/ pc' # "await"
          \/ job'.kind # "message" /\ plan' = Fetch(NoCaller)
      BY <2>1 DEF ReadAndFinish, BackToSelect, Begin, Write
    <3> QED
      BY <1>o, <1>p, <1>q, <3>1
  <2>2. CASE ReadAndContinue(r)
    <3>1. job' = job /\ plan' = Rest(r) /\ Rest(r) # <<>> /\ Capture(r)
      BY <2>2 DEF ReadAndContinue, Write
    <3>t. ASSUME NEW x PROVE Tail(<<x>>) = <<>>
      OBVIOUS
    <3>2. CASE job.kind = "message" /\ Mutes(job.msg)
      <4>1. Rest(r) = Tail(plan) /\ ~Unmutes(job.msg)
            /\ job.msg.op # "CycleOutput"
        BY <3>2 DEF Rest, Mutes, Unmutes, Resumes
      <4>2. plan = <<Request("status", 0, job.caller),
                     Request("setvol", 0, job.caller)>>
        BY <2>0, <3>1, <3>2, <3>t, <4>1 DEF ShapeOf, MuteShape
      <4>3. plan' = <<Request("setvol", 0, job.caller)>>
            /\ Head(plan).verb = "status"
        BY <3>1, <4>1, <4>2 DEF Request
      <4>4. muted'
        BY <3>1, <3>2, <4>3 DEF Capture
      <4> QED
        BY <3>1, <4>1, <4>3, <4>4, OneKeepsOutput
        DEF ShapeInv, ShapeOf, MuteShape
    <3>3. CASE job.kind = "message" /\ Unmutes(job.msg)
      <4>1. Rest(r) = Tail(plan)
        BY <3>3 DEF Rest, Mutes, Unmutes, Resumes
      <4> QED
        BY <2>0, <3>1, <3>3, <3>t, <4>1 DEF ShapeOf, UnmuteShape
    <3>4. CASE Cycles
      <4>1. Rest(r) = Tail(plan) /\ ~Mutes(job.msg) /\ ~Unmutes(job.msg)
        BY <3>4 DEF Rest, Mutes, Unmutes, Resumes, Cycles
      <4>2. plan = CyclePlan(job.caller)
        BY <2>0, <3>1, <3>4, <3>t, <4>1 DEF ShapeOf, CycleShape, Cycles
      <4>3. plan' = <<Request("enableoutput", 0, job.caller)>>
        BY <3>1, <4>1, <4>2 DEF CyclePlan
      <4> QED
        BY <3>1, <3>4, <4>1, <4>3 DEF ShapeInv, ShapeOf, CycleShape, Cycles
    <3>5. CASE ~Cycles /\ ~(job.kind = "message" /\ Mutes(job.msg))
                /\ ~(job.kind = "message" /\ Unmutes(job.msg))
      <4>1. KeepsOutput(Tail(plan))
        BY <1>t, <2>0, <3>5, TailKeepsOutput DEF ShapeOf, Cycles
      <4>2. KeepsOutput(ResumePlan(r.body, job.caller))
        <5>1. r \in Replies
          BY <1>t, <2>0, HeadAndTail DEF TypeInv, TypeOK, WireTypeOK
        <5>2. r.body.state \in {"play", "pause", "stop"}
          BY <5>1 DEF Replies, MpdStates
        <5>3. KeepsOutput(<<>>)
          BY DEF KeepsOutput
        <5>4. \A v \in {"play", "pause", "playpos"} :
                KeepsOutput(<<Request(v, 0, job.caller)>>)
          BY OneKeepsOutput
        <5> QED
          BY <5>2, <5>3, <5>4 DEF ResumePlan
      <4>3. KeepsOutput(plan')
        BY <3>1, <4>1, <4>2 DEF Rest
      <4> QED
        BY <3>1, <3>5, <4>3 DEF ShapeInv, ShapeOf, Cycles
    <3> QED
      BY <3>2, <3>3, <3>4, <3>5
  <2> QED
    BY <1>5, <2>1, <2>2 DEF ReadReply
<1>6. CASE ReadError \/ ReadTimesOut \/ ReadClosed
  BY <1>6, <1>f DEF ReadError, ReadTimesOut, ReadClosed
<1>7. CASE SelectShutdown \/ ReconnectGivesUp
  BY <1>7, <1>o DEF SelectShutdown, ReconnectGivesUp, BackToSelect
<1>8. CASE SelectIdleEnded \/ ReconnectFails \/ IdleTask
  BY <1>8, <1>n DEF SelectIdleEnded, ReconnectFails, IdleTask, jobVars
<1>9. CASE \E c \in Callers : Caller(c)
  BY <1>9, <1>n DEF Caller, Submit, Enqueue, SendFails, jobVars
<1>10. CASE Environment
  BY <1>10, <1>n
  DEF Environment, MpdExecutes, MpdRefuses, MpdStops, MpdStarts,
      MpdClosesQuiet, OtherClient, OperatorRetunes, ReleaseCustody, jobVars
<1>11. CASE UNCHANGED vars
  BY <1>11, <1>n DEF vars, stepVars, jobVars
<1> QED
  BY <1>1, <1>2, <1>3, <1>4, <1>5, <1>6, <1>7, <1>8, <1>9, <1>10, <1>11
  DEF Next, Supervisor

\* What MPD did with the request whose reply it gives.
LEMMA ExecutedNow ==
  ASSUME NEW q, mpd \in MpdStates, NEW m \in Effects(q)
  PROVE  /\ q.verb = "setvol" => m.volume = q.arg
         /\ q.verb = "enableoutput" => m.output
         /\ q.verb # "disableoutput" => (mpd.output => m.output)
<1>1. CASE q.verb = "setvol"
  BY <1>1 DEF Effects, MpdStates
<1>2. CASE q.verb \in {"play", "playpos"}
  <2>1. PICK s : m = [mpd EXCEPT !.state = "play", !.song = s]
    BY <1>2 DEF Effects
  <2> QED
    BY <1>2, <2>1 DEF MpdStates
<1>3. CASE q.verb \in {"pause", "stop"}
  BY <1>3 DEF Effects, MpdStates
<1>4. CASE q.verb \in {"next", "previous"}
  <2>1. m \in {[mpd EXCEPT !.song = s] : s \in Songs}
           \cup {[mpd EXCEPT !.song = NoSong, !.state = "stop"]}
    BY <1>4 DEF Effects
  <2>2. m.output = mpd.output
    BY <2>1 DEF MpdStates
  <2> QED
    BY <1>4, <2>2
<1>5. CASE q.verb \in {"clear", "crossfade", "single"}
  BY <1>5 DEF Effects, MpdStates
<1>6. CASE q.verb \in {"disableoutput", "enableoutput"}
  BY <1>6 DEF Effects, MpdStates
<1>7. CASE q.verb \notin {"setvol", "play", "playpos", "pause", "stop", "next",
                         "previous", "clear", "crossfade", "single",
                         "disableoutput", "enableoutput"}
  BY <1>7 DEF Effects
<1> QED
  BY <1>1, <1>2, <1>3, <1>4, <1>5, <1>6, <1>7

\* Between jobs, and before the first reply, nothing waits to be read.
LEMMA NoUnread ==
  ASSUME replies' = <<>>
  PROVE  EffectInv'
  BY DEF EffectInv

LEMMA NextEffect ==
  ASSUME AnswerInv, EffectInv, [Next]_vars
  PROVE  EffectInv'
<1> SUFFICES ASSUME NeverTimedOut' PROVE EffectInv'
  BY DEF EffectInv
<1>0. NeverTimedOut /\ ~ReadTimesOut
  BY TimeoutsStay DEF AnswerInv
<1>t. /\ TypeInv /\ PairInv /\ mpd \in MpdStates /\ count \in [Events -> Nat]
      /\ replies \in Seq(Replies) /\ pending \in Seq(Requests)
  BY DEF AnswerInv, TypeInv, TypeOK, MpdTypeOK, HistTypeOK, WireTypeOK
<1>n. ASSUME UNCHANGED <<pc, plan, mpd>>, replies' \in {replies, <<>>},
             count'["change"] = 0 => count["change"] = 0
      PROVE  EffectInv'
  BY <1>0, <1>n DEF EffectInv, Executed
<1>c. ASSUME NEW e \in Events, Spend(e)
      PROVE  count'["change"] = 0 => count["change"] = 0 /\ e # "change"
  BY <1>c, <1>t DEF Spend, Events
<1>e. ASSUME pc # "await" PROVE replies = <<>>
  BY <1>0, <1>e, <1>t DEF PairInv, RepliesArePaired
<1>1. CASE SelectCommand \/ SelectIdleChanged \/ SelectSettings
           \/ SelectShutdown \/ SelectIdleEnded
  BY <1>1, <1>e, NoUnread
  DEF SelectCommand, SelectIdleChanged, SelectSettings, SelectShutdown,
      SelectIdleEnded, wireVars
<1>2. CASE ReadReply \/ ReadError
  <2>1. replies' = Tail(replies) /\ pc = "await" /\ replies # <<>>
    BY <1>2 DEF ReadReply, ReadError
  <2> QED
    BY <1>0, <1>t, <2>1, ReadEmpties, NoUnread
<1>3. CASE ReadClosed \/ Reconnects \/ ReconnectFails \/ ReconnectGivesUp
  BY <1>3, <1>e, NoUnread
  DEF ReadClosed, Reconnects, ReconnectFails, ReconnectGivesUp, wireVars
<1>4. CASE MpdExecutes
  <2>1. /\ pending = <<Head(plan)>> /\ replies = <<>>
    BY <1>0, <1>4, OnTheWire DEF MpdExecutes
  <2>2. Head(pending) = Head(plan)
    BY <2>1
  <2>3. mpd' \in Effects(Head(plan)) /\ plan' = plan
    BY <1>4, <2>2 DEF MpdExecutes, jobVars
  <2>4. Executed'
    BY <1>t, <2>3, ExecutedNow DEF Executed
  <2> QED
    BY <2>4 DEF EffectInv
<1>5. CASE MpdRefuses
  <2>1. replies = <<>>
    BY <1>0, <1>5, OnTheWire DEF MpdRefuses
  <2>2. replies' = <<[tag |-> "ack", body |-> Blank]>>
    BY <1>5, <2>1 DEF MpdRefuses
  <2>3. Head(replies').tag = "ack"
    BY <2>2
  <2> QED
    BY <2>3 DEF EffectInv
<1>6. CASE MpdStops
  <2>1. /\ UNCHANGED <<pc, plan>> /\ replies' \in {replies, <<>>}
        /\ mpd'.volume = mpd.volume /\ mpd'.output = mpd.output
        /\ Spend("restart") /\ "restart" \in Events
    BY <1>6, <1>t DEF MpdStops, jobVars, MpdStates, Events
  <2> QED
    BY <1>0, <1>c, <2>1 DEF EffectInv, Executed
<1>7. CASE OtherClient
  <2>1. /\ UNCHANGED <<pc, plan, replies>> /\ mpd'.output = mpd.output
        /\ Spend("change") /\ "change" \in Events
    BY <1>7, <1>t DEF OtherClient, jobVars, wireVars, MpdStates, Events
  <2> QED
    BY <1>0, <1>c, <2>1 DEF EffectInv, Executed
<1>8. CASE MpdStarts \/ MpdClosesQuiet \/ OperatorRetunes \/ ReleaseCustody
  <2>1. count'["change"] = 0 => count["change"] = 0
    BY <1>8, <1>c
    DEF MpdStarts, MpdClosesQuiet, OperatorRetunes, ReleaseCustody, Events
  <2> QED
    BY <1>8, <1>n, <2>1
    DEF MpdStarts, MpdClosesQuiet, OperatorRetunes, ReleaseCustody, mpdVars,
        jobVars, wireVars
<1>9. CASE IdleTask \/ UNCHANGED vars
  BY <1>9, <1>n DEF IdleTask, vars, stepVars, mpdVars, jobVars, wireVars
<1>10. ASSUME NEW c \in Callers, Caller(c) PROVE EffectInv'
  <2>1. count'["change"] = 0 => count["change"] = 0
    BY <1>10, <1>c DEF Caller, Submit, Enqueue, SendFails, Events
  <2> QED
    BY <1>10, <1>n, <2>1
    DEF Caller, Submit, Enqueue, SendFails, mpdVars, jobVars, wireVars
<1> QED
  BY <1>0, <1>1, <1>2, <1>3, <1>4, <1>5, <1>6, <1>7, <1>8, <1>9, <1>10
  DEF Next, Supervisor, Environment

\* The reply that completes a job says that its last request was executed.
LEMMA Finishes ==
  ASSUME HoldInv, NeverTimedOut, ReadReply, Rest(Head(replies)) = <<>>,
         job.kind = "message"
  PROVE  /\ Cycles => mpd.output
         /\ count["change"] = 0 /\ Mutes(job.msg) => muted /\ mpd.volume = 0
         /\ count["change"] = 0 /\ Unmutes(job.msg)
              => ~muted /\ mpd.volume = pre_mute_volume
<1> DEFINE r == Head(replies)
<1>1. /\ pc = "await" /\ replies # <<>> /\ r.tag # "ack"
      /\ ShapeOf(job.kind, job.msg, plan, job.caller)
  BY DEF ReadReply, Parse, HoldInv, ShapeInv
<1>2. r.tag = TagOf(Head(plan).verb)
  BY <1>1 DEF HoldInv, AnswerInv, PairInv, RepliesArePaired
<1>3. r.tag = "unit" => Executed
  BY <1>1 DEF HoldInv, EffectInv
<1>t. ASSUME NEW x, NEW y PROVE Tail(<<x, y>>) # <<>> /\ Head(<<x>>) = x
  OBVIOUS
<1>4. ASSUME Cycles PROVE mpd.output
  <2>1. Rest(r) = Tail(plan)
    BY <1>4 DEF Rest, Cycles, Resumes
  <2>2. Head(plan) = Request("enableoutput", 0, job.caller)
    BY <1>1, <1>4, <1>t, <2>1 DEF ShapeOf, CycleShape, CyclePlan, Cycles
  <2> QED
    BY <1>2, <1>3, <2>2 DEF Request, TagOf, Executed
<1>5. ASSUME Mutes(job.msg), count["change"] = 0
      PROVE  muted /\ mpd.volume = 0
  <2>1. Rest(r) = Tail(plan)
    BY <1>5 DEF Rest, Mutes, Resumes
  <2>2. muted /\ Head(plan) = Request("setvol", 0, job.caller)
    BY <1>1, <1>5, <1>t, <2>1 DEF ShapeOf, MuteShape
  <2> QED
    BY <1>2, <1>3, <1>5, <2>2 DEF Request, TagOf, Executed
<1>6. ASSUME Unmutes(job.msg), count["change"] = 0
      PROVE  ~muted /\ mpd.volume = pre_mute_volume
  <2>1. ~muted /\ Head(plan) = Request("setvol", pre_mute_volume, job.caller)
    BY <1>1, <1>6, <1>t DEF ShapeOf, UnmuteShape
  <2> QED
    BY <1>2, <1>3, <1>6, <2>1 DEF Request, TagOf, Executed
<1> QED
  BY <1>4, <1>5, <1>6

LEMMA NextOutput ==
  ASSUME HoldInv, [Next]_vars
  PROVE  OutputInv'
<1> SUFFICES ASSUME NeverTimedOut' PROVE OutputInv'
  BY DEF OutputInv
<1>0. NeverTimedOut /\ ~ReadTimesOut
  BY TimeoutsStay DEF HoldInv, AnswerInv
<1>t. /\ TypeInv /\ PairInv /\ QueueInv /\ AnswerInv
      /\ mpd \in MpdStates /\ job \in Jobs
      /\ OutputInv /\ ShapeInv
  BY DEF HoldInv, AnswerInv, TypeInv, TypeOK, MpdTypeOK, JobTypeOK
<1>n. ASSUME UNCHANGED cycle_failed, pc' = pc \/ pc' = "stopped",
             mpd'.output = mpd.output, job' = job
      PROVE  OutputInv'
  BY <1>0, <1>n, <1>t DEF OutputInv, Cycles
<1>s. ASSUME UNCHANGED <<cycle_failed, mpd>>, pc = "select" PROVE OutputInv'
  BY <1>0, <1>s, <1>t DEF OutputInv, Cycles, QueueInv
<1>f. ASSUME NEW e, Fail(e), UNCHANGED mpd, pc = "await" PROVE OutputInv'
  <2>1. CASE NoAnswer /\ (job' = job \/ job.kind # "message")
    BY <1>0, <1>f, <1>t, <2>1 DEF OutputInv, Cycles, NoAnswer
  <2>2. CASE Answer(classify_command_error(e))
    <3>1. classify_command_error(e) # "Ok"
      BY DEF classify_command_error
    <3> QED
      BY <1>0, <1>f, <1>t, <2>2, <3>1 DEF OutputInv, Cycles, Answer
  <2> QED
    BY <1>f, <2>1, <2>2 DEF Fail
<1>1. CASE SelectCommand \/ SelectIdleChanged \/ SelectSettings
           \/ SelectIdleEnded
  BY <1>1, <1>s
  DEF SelectCommand, SelectIdleChanged, SelectSettings, SelectIdleEnded,
      mpdVars, histVars
<1>2. CASE SelectShutdown
  BY <1>2 DEF SelectShutdown, OutputInv
<1>3. CASE ReadReply
  <2> DEFINE r == Head(replies)
  <2>0. pc = "await" /\ UNCHANGED mpd
    BY <1>3 DEF ReadReply, mpdVars
  <2>1. CASE ReadAndContinue(r)
    BY <1>0, <1>t, <2>0, <2>1
    DEF ReadAndContinue, NoAnswer, OutputInv, Cycles
  <2>2. CASE ReadAndFinish(r)
    <3>1. CASE job.kind = "message" /\ Answer("Ok")
      <4>1. Rest(r) = <<>>
        BY <2>2 DEF ReadAndFinish
      <4>2. Cycles => mpd.output
        BY <1>0, <1>3, <3>1, <4>1, Finishes
      <4>3. ~Cycles => cycle_failed' = cycle_failed
        BY <3>1 DEF Answer, Cycles
      <4> QED
        BY <1>0, <1>t, <2>0, <4>2, <4>3 DEF OutputInv
    <3>2. CASE job.kind # "message" /\ NoAnswer
      BY <1>0, <1>t, <2>0, <3>2 DEF NoAnswer, OutputInv, Cycles
    <3> QED
      BY <2>2, <3>1, <3>2 DEF ReadAndFinish
  <2> QED
    BY <1>3, <2>1, <2>2 DEF ReadReply
<1>4. CASE ReadError \/ ReadClosed
  BY <1>4, <1>f DEF ReadError, ReadClosed, mpdVars
<1>5. CASE Reconnects
  <2>1. /\ job'.kind = job.kind /\ job'.msg = job.msg /\ UNCHANGED mpd
        /\ UNCHANGED cycle_failed /\ pc = "reconnect"
    BY <1>5, <1>t DEF Reconnects, Jobs, mpdVars
  <2> QED
    BY <1>0, <1>t, <2>1 DEF OutputInv, Cycles
<1>6. CASE ReconnectGivesUp
  <2>1. PICK x \in {"ConnectionExhausted", "Protocol"} : Answer(x)
    BY <1>6 DEF ReconnectGivesUp
  <2>2. pc = "reconnect" /\ UNCHANGED mpd
    BY <1>6 DEF ReconnectGivesUp, mpdVars
  <2> QED
    BY <1>0, <1>t, <2>1, <2>2 DEF OutputInv, Cycles, Answer
<1>7. CASE MpdExecutes
  <2>1. /\ pending = <<Head(plan)>> /\ pc = "await"
    BY <1>0, <1>7, <1>t, OnTheWire DEF MpdExecutes
  <2>2. Head(pending) = Head(plan)
    BY <2>1
  <2>3. /\ mpd' \in Effects(Head(plan)) /\ UNCHANGED <<pc, job, cycle_failed>>
    BY <1>7, <2>2 DEF MpdExecutes, jobVars, histVars
  <2>4. ~Cycles => Head(plan).verb # "disableoutput"
    <3>1. plan \in Seq(Requests) /\ plan # <<>>
      BY <1>t, <2>1 DEF TypeInv, TypeOK, JobTypeOK, JobInv
    <3>2. Head(plan) = plan[1] /\ 1 \in 1..Len(plan)
      BY <3>1
    <3> QED
      BY <1>t, <2>1, <3>2 DEF ShapeInv, ShapeOf, KeepsOutput, Cycles
  <2> QED
    BY <1>0, <1>t, <2>3, <2>4, ExecutedNow DEF OutputInv, Cycles
<1>8. CASE MpdStops \/ OtherClient
  <2>1. mpd'.output = mpd.output
    BY <1>8, <1>t DEF MpdStops, OtherClient, MpdStates
  <2> QED
    BY <1>8, <1>n, <2>1 DEF MpdStops, OtherClient, jobVars, histVars
<1>9. CASE MpdRefuses \/ MpdStarts \/ MpdClosesQuiet \/ OperatorRetunes
           \/ ReleaseCustody
  BY <1>9, <1>n
  DEF MpdRefuses, MpdStarts, MpdClosesQuiet, OperatorRetunes, ReleaseCustody,
      mpdVars, jobVars, histVars
<1>10. CASE IdleTask \/ ReconnectFails \/ UNCHANGED vars
  BY <1>10, <1>n DEF IdleTask, ReconnectFails, vars, stepVars, mpdVars, jobVars, histVars
<1>11. CASE \E c \in Callers : Caller(c)
  BY <1>11, <1>n
  DEF Caller, Submit, Enqueue, SendFails, mpdVars, jobVars, histVars
<1> QED
  BY <1>0, <1>1, <1>2, <1>3, <1>4, <1>5, <1>6, <1>7, <1>8, <1>9, <1>10, <1>11
  DEF Next, Supervisor, Environment

\* Only the caller that is served is given an Ok, by the reply that completes
\* its command.
LEMMA OnlyFinishingSaysOk ==
  ASSUME AnswerInv, [Next]_vars, NEW c \in Callers,
         result[c] = "none", result'[c] = "Ok"
  PROVE  /\ ReadReply /\ Serves(c) /\ Rest(Head(replies)) = <<>>
<1>t. result \in [Callers -> Results]
  BY DEF AnswerInv, TypeInv, TypeOK, CallerTypeOK
<1>a. ASSUME NEW x, x # "Ok", Answer(x) PROVE FALSE
  BY <1>a, <1>t DEF Answer
<1>n. ASSUME NoAnswer \/ UNCHANGED result PROVE FALSE
  BY <1>n DEF NoAnswer
<1>f. ASSUME NEW e, Fail(e) PROVE FALSE
  <2>1. classify_command_error(e) # "Ok"
    BY DEF classify_command_error
  <2> QED
    BY <1>a, <1>f, <1>n, <2>1 DEF Fail
<1>1. CASE ReadReply
  <2>1. ReadAndFinish(Head(replies)) /\ job.kind = "message" /\ Answer("Ok")
    BY <1>1, <1>n DEF ReadReply, ReadAndContinue, ReadAndFinish
  <2>2. job.caller = c
    BY <1>t, <2>1 DEF Answer
  <2> QED
    BY <1>1, <2>1, <2>2 DEF ReadAndFinish, Serves
<1>2. CASE ReadError \/ ReadTimesOut \/ ReadClosed
  BY <1>2, <1>f DEF ReadError, ReadTimesOut, ReadClosed
<1>3. CASE ReconnectGivesUp
  BY <1>3, <1>a DEF ReconnectGivesUp
<1>4. CASE SelectShutdown
  BY <1>4 DEF SelectShutdown
<1>5. CASE SelectCommand \/ SelectIdleChanged \/ SelectIdleEnded
             \/ SelectSettings \/ Reconnects \/ ReconnectFails \/ IdleTask
  BY <1>5, <1>n
  DEF SelectCommand, SelectIdleChanged, SelectIdleEnded, SelectSettings,
      Reconnects, ReconnectFails, IdleTask, callerVars
<1>6. CASE Environment
  BY <1>6, <1>n
  DEF Environment, MpdExecutes, MpdRefuses, MpdStops, MpdStarts,
      MpdClosesQuiet, OtherClient, OperatorRetunes, ReleaseCustody, callerVars
<1>7. ASSUME NEW d \in Callers, Caller(d) PROVE FALSE
  BY <1>7, <1>n, <1>t DEF Caller, Submit, Enqueue, SendFails
<1>8. CASE UNCHANGED vars
  BY <1>8, <1>n DEF vars, stepVars, callerVars
<1> QED
  BY <1>1, <1>2, <1>3, <1>4, <1>5, <1>6, <1>7, <1>8 DEF Next, Supervisor

LEMMA HoldInvHolds == Spec => []HoldInv
<1>1. Init => MessageInv /\ ShapeInv /\ EffectInv /\ OutputInv
  <2> SUFFICES ASSUME Init PROVE MessageInv /\ ShapeInv /\ EffectInv /\ OutputInv
    OBVIOUS
  <2>1. MessageInv /\ ShapeInv /\ EffectInv
    BY DEF Init, MessageInv, Serves, NoJob, ShapeInv, EffectInv
  <2>2. mpd.output
    BY DEF Init
  <2> QED
    BY <2>1, <2>2 DEF OutputInv
<1>2. HoldInv /\ [Next]_vars /\ AnswerInv' => HoldInv'
  BY NextMessage, NextShape, NextEffect, NextOutput DEF HoldInv
<1> QED
  BY <1>1, <1>2, AnswerInvHolds, PTL DEF Spec, HoldInv

\* AnswersHold: a set_mute that handle_command answered Ok is in force at MPD,
\* and an output that handle_cycle_output left disabled was never reported Ok,
\* whatever was lost, refused and sent again on the way.
THEOREM AnswersCanBeRelied == Spec => AnswersHold
<1>1. HoldInv /\ [Next]_vars => MuteAnswerHolds
  <2> SUFFICES ASSUME HoldInv, [Next]_vars, NEW c \in Callers,
                      NeverTimedOut, count["change"] = 0,
                      message[c].op = "SetMute",
                      result[c] = "none", result'[c] = "Ok"
               PROVE  /\ muted = (message[c].arg = 1)
                      /\ mpd.volume = IF muted THEN 0 ELSE pre_mute_volume
    BY DEF MuteAnswerHolds
  <2>1. ReadReply /\ Serves(c) /\ Rest(Head(replies)) = <<>>
    BY OnlyFinishingSaysOk DEF HoldInv
  <2>2. job.msg = message[c] /\ job.kind = "message"
    BY <2>1 DEF HoldInv, MessageInv, Serves
  <2>3. message[c] \in MessageType
    BY DEF HoldInv, AnswerInv, TypeInv, TypeOK, CallerTypeOK
  <2>4. message[c].arg \in {0, 1}
    BY <2>3 DEF MessageType
  <2>5. muted \in BOOLEAN
    BY DEF HoldInv, AnswerInv, TypeInv, TypeOK, MuteTypeOK
  <2>6. CASE message[c].arg = 1
    <3>1. muted /\ mpd.volume = 0
      BY <2>1, <2>2, <2>6, Finishes DEF Mutes
    <3> QED
      BY <2>5, <2>6, <3>1
  <2>7. CASE message[c].arg = 0
    <3>1. ~muted /\ mpd.volume = pre_mute_volume
      BY <2>1, <2>2, <2>7, Finishes DEF Unmutes
    <3> QED
      BY <2>5, <2>7, <3>1
  <2> QED
    BY <2>4, <2>6, <2>7
<1>2. HoldInv => OutputReenabled
  BY DEF HoldInv, OutputInv, OutputReenabled, Cycles, AnswerInv, QueueInv
<1>3. HoldInv /\ OutputReenabled' /\ [Next]_vars
        => [MuteAnswerHolds /\ OutputReenabled']_vars
  BY <1>1
<1> QED
  BY <1>2, <1>3, HoldInvHolds, PTL DEF Spec, AnswersHold
===============================================================================
