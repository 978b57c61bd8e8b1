------------------------ MODULE MixerTransitionProofs ------------------------
(***************************************************************************)
(* The mixer gesture, for any number of requests and faults: what is in    *)
(* memory, on disk and published agrees between gestures, the mute of a    *)
(* gesture is carried out before the mixer is switched and nothing undoes  *)
(* it meanwhile, and an ok says that the mixer was switched.               *)
(***************************************************************************)
EXTENDS MixerTransition, SequenceTheorems, TLAPS

\* A gesture between taking and dropping the lock holds it, and nobody else.
LockInv == \A h \in Handlers : lock = h <=> job[h].phase \in Locked

\* A handler works on one request, and answers it once.
FreshInv ==
  /\ \A h \in Handlers : h > asked => job[h].phase = "idle"
  /\ \A h \in Handlers : job[h].phase # "idle" => job[h].outcome = "none"

\* A handler is inside persist_settings only in the phases that call it.
StageInv == \A h \in Handlers : job[h].stage # "none" => job[h].phase \in Persisting

\* The history knows of the writers that are at work together now, and of the
\* gestures whose `from` is out of date.
NoteInv ==
  /\ Mixing => mixed
  /\ Crossing => crossed
  /\ \A h \in Handlers :
       job[h].phase \in {"locking", "begin"} =>
         h \in raced \/ settings.mixer = job[h].from

\* No setter has a change that is not saved yet.
Clean == \A h \in Handlers : job[h].phase # "save"

\* What is excepted has not happened.
Quiet == ~mixed /\ ~crossed /\ "unsaved" \notin happened

\* A snapshot is of the memory, unless a setter that has not taken its own
\* changed it since; the staging file is that of the handler about to rename it.
SnapInv ==
  Quiet => \A h \in Handlers :
    /\ job[h].stage # "none" =>
         \/ job[h].snap = settings
         \/ \E k \in Handlers : k # h /\ job[k].phase = "save" /\ job[k].stage = "none"
    /\ job[h].stage = "rename" => staging = job[h].snap

\* What a rollback puts back is what the file holds, and between the writes of
\* a gesture memory and file agree.
DiskInv ==
  Quiet /\ Clean =>
    /\ (\A h \in Handlers : job[h].phase \notin {"persist", "restore"})
         => settings = disk
    /\ \A h \in Handlers : job[h].phase = "persist" => job[h].prior = disk

\* The subject's last update, delivered or under way, is what the file holds.
IsSettings(m) == m.kind = "settings"
LastIs(s, v) ==
  \E i \in 1..Len(s) :
    /\ IsSettings(s[i]) /\ s[i].setting = v
    /\ \A k \in 1..Len(s) : k > i => ~IsSettings(s[k])
PublishInv ==
  Quiet /\ Clean /\ happened \cap {"lost", "overtake"} = {} =>
    \/ LastIs(spawned, disk)
    \/ published = disk /\ \A i \in 1..Len(spawned) : ~IsSettings(spawned[i])

\* The target is in memory once it is stored, in the snapshot and in the staging
\* file, and in the file once it is saved.
TargetInv ==
  ~mixed => \A h \in Handlers :
    /\ job[h].phase = "persist" =>
         /\ settings.mixer = job[h].to
         /\ job[h].stage # "none" => job[h].snap.mixer = job[h].to
         /\ job[h].stage = "rename" => staging = job[h].snap
    /\ job[h].phase \in {"verify", "unmute", "unmute_sub", "unmute_ack"}
         => settings.mixer = job[h].to /\ disk.mixer = job[h].to

\* What the warden acknowledges, it has carried out.
AckInv ==
  /\ \A i \in 1..Len(inbox) : inbox[i].gen \in handled
  /\ warden = "acking" => current.gen \in handled

\* The request a gesture waits for, or has been granted, is the last one made.
WantInv ==
  \A h \in Handlers :
    job[h].phase \in {"mute_sub", "mute_ack", "authority", "persist", "verify"}
      => job[h].want = generation

\* As long as publishes arrive in order, requests reach the warden in order:
\* what it has carried out, and what it is carrying out, is older than all
\* that is still on its way.
Env(i) == spawned[i].kind = "envelope"
Later(g) ==
  /\ \A i \in 1..Len(requests) : g < requests[i].gen
  /\ \A i \in 1..Len(spawned) : Env(i) => g < spawned[i].request.gen
RequestsInOrder ==
  \A i \in 1..Len(requests) :
    /\ requests[i].gen <= generation
    /\ \A k \in 1..Len(requests) : i < k => requests[i].gen < requests[k].gen
    /\ \A k \in 1..Len(spawned) : Env(k) => requests[i].gen < spawned[k].request.gen
SpawnedInOrder ==
  \A i \in 1..Len(spawned) : Env(i) =>
    /\ spawned[i].request.gen <= generation
    /\ \A k \in 1..Len(spawned) : i < k /\ Env(k) =>
         spawned[i].request.gen < spawned[k].request.gen
HandledInOrder == \A g \in handled : g <= generation /\ Later(g)
CurrentInOrder ==
  warden = "pausing" =>
    /\ current.gen <= generation /\ Later(current.gen)
    /\ \A g \in handled : g < current.gen
OrderInv ==
  "overtake" \notin happened =>
    RequestsInOrder /\ SpawnedInOrder /\ HandledInOrder /\ CurrentInOrder

IInv ==
  /\ TypeOK /\ LockInv /\ FreshInv /\ StageInv /\ NoteInv
  /\ SnapInv /\ DiskInv /\ PublishInv /\ TargetInv
  /\ AckInv /\ WantInv /\ OrderInv

(***************************************************************************)
(* Operators.                                                              *)
(***************************************************************************)
JobType == [phase : Phases, stage : Stages, from : MixerTypes, to : MixerTypes,
            want : Nat, prior : Setting, snap : Setting, outcome : Outcomes]
Publishes == [kind : {"envelope", "settings"}, setting : Setting,
              request : Request]

USE DEF Handlers

LEMMA IdleType ==
  /\ Default \in Setting /\ NoRequest \in Request /\ Idle \in JobType
  /\ Idle.phase = "idle" /\ Idle.stage = "none"
  /\ \A o \in Outcomes : [Idle EXCEPT !.outcome = o] \in JobType
  BY TargetsAssumption
  DEF Default, Setting, NoRequest, Request, Idle, JobType, Phases, Outcomes, Stages

\* A handler that moves on changes its phase, and is not inside a persist.
LEMMA GoFacts ==
  ASSUME job \in [Handlers -> JobType], NEW h \in Handlers, NEW p \in Phases,
         Go(h, p)
  PROVE  /\ job' \in [Handlers -> JobType]
         /\ \A k \in Handlers : k # h => job'[k] = job[k]
         /\ job'[h].phase = p /\ job'[h].from = job[h].from
         /\ job'[h].to = job[h].to /\ job'[h].want = job[h].want
         /\ job'[h].prior = job[h].prior /\ job'[h].outcome = job[h].outcome
         /\ job'[h].stage = "none"
  BY DEF Go, JobType, Stages

LEMMA ReturnFacts ==
  ASSUME job \in [Handlers -> JobType], NEW h \in Handlers,
         NEW o \in Outcomes, Return(h, o)
  PROVE  /\ job' \in [Handlers -> JobType]
         /\ \A k \in Handlers : k # h => job'[k] = job[k]
         /\ job'[h].phase = "idle" /\ job'[h].outcome = o
         /\ job'[h].stage = "none"
         /\ lock' = IF lock = h THEN None ELSE lock
<1>1. job' = [job EXCEPT ![h] = [Idle EXCEPT !.outcome = o]]
  BY DEF Return
<1>2. [Idle EXCEPT !.outcome = o].phase = "idle"
      /\ [Idle EXCEPT !.outcome = o].outcome = o
      /\ [Idle EXCEPT !.outcome = o].stage = "none"
  BY DEF Idle
<1> QED
  BY <1>1, <1>2, IdleType DEF Return

\* Taking a snapshot and writing it.
LEMMA SnapshotFacts ==
  ASSUME job \in [Handlers -> JobType], settings \in Setting, NEW h \in Handlers,
         Snapshot(h)
  PROVE  /\ job' \in [Handlers -> JobType]
         /\ \A k \in Handlers : k # h => job'[k] = job[k]
         /\ job'[h].phase = job[h].phase /\ job'[h].stage = "write"
         /\ job'[h].snap = settings /\ job'[h].to = job[h].to
         /\ job'[h].from = job[h].from /\ job'[h].want = job[h].want
         /\ job'[h].prior = job[h].prior /\ job'[h].outcome = job[h].outcome
         /\ job[h].phase \in Persisting /\ job[h].stage = "none"
  BY DEF Snapshot, JobType, Stages

LEMMA WriteFacts ==
  ASSUME job \in [Handlers -> JobType], NEW h \in Handlers, WriteStaging(h)
  PROVE  /\ job' \in [Handlers -> JobType]
         /\ \A k \in Handlers : k # h => job'[k] = job[k]
         /\ job'[h].phase = job[h].phase /\ job'[h].stage = "rename"
         /\ job'[h].snap = job[h].snap /\ job'[h].to = job[h].to
         /\ job'[h].from = job[h].from /\ job'[h].want = job[h].want
         /\ job'[h].prior = job[h].prior /\ job'[h].outcome = job[h].outcome
         /\ job[h].stage = "write" /\ staging' = job[h].snap
         /\ job[h].snap \in Setting
  BY DEF WriteStaging, JobType, Stages

\* Taking the first of a sequence, or dropping one out of it.
LEMMA HeadAndTail ==
  ASSUME NEW S, NEW s \in Seq(S), s # <<>>
  PROVE  /\ Head(s) \in S /\ Tail(s) \in Seq(S)
         /\ Head(s) = s[1] /\ 1 \in 1..Len(s)
         /\ Len(Tail(s)) = Len(s) - 1
         /\ \A i \in 1..Len(Tail(s)) : i + 1 \in 1..Len(s) /\ Tail(s)[i] = s[i + 1]
<1>1. /\ Head(s) \in S /\ Tail(s) \in Seq(S) /\ Len(Tail(s)) = Len(s) - 1
      /\ \A i \in 1..Len(Tail(s)) : Tail(s)[i] = s[i + 1]
  BY HeadTailProperties
<1>2. Len(s) \in Nat /\ Len(s) # 0
  BY EmptySeq, LenProperties
<1> QED
  BY <1>1, <1>2

LEMMA RemoveFacts ==
  ASSUME NEW S, NEW s \in Seq(S), NEW i \in 1..Len(s)
  PROVE  /\ RemoveAt(s, i) \in Seq(S)
         /\ Len(RemoveAt(s, i)) = Len(s) - 1
         /\ \A k \in 1..(Len(s) - 1) :
              RemoveAt(s, i)[k] = IF k < i THEN s[k] ELSE s[k + 1]
<1> DEFINE a == SubSeq(s, 1, i - 1)
           b == SubSeq(s, i + 1, Len(s))
<1>0. Len(s) \in Nat
  BY LenProperties
<1>1. /\ a \in Seq(S) /\ Len(a) = i - 1
      /\ \A k \in 1..(i - 1) : a[k] = s[k]
  BY <1>0
<1>2. /\ b \in Seq(S) /\ Len(b) = Len(s) - i
      /\ \A k \in 1..(Len(s) - i) : b[k] = s[i + k]
  BY <1>0
<1> HIDE DEF a, b
<1>3. /\ a \o b \in Seq(S) /\ Len(a \o b) = Len(a) + Len(b)
      /\ \A k \in 1..(Len(a) + Len(b)) :
           (a \o b)[k] = IF k <= Len(a) THEN a[k] ELSE b[k - Len(a)]
  BY <1>1, <1>2, ConcatProperties
<1>4. RemoveAt(s, i) = a \o b
  BY DEF RemoveAt, a, b
<1>5. ASSUME NEW k \in 1..(Len(s) - 1)
      PROVE  (a \o b)[k] = IF k < i THEN s[k] ELSE s[k + 1]
  <2>1. CASE k < i
    BY <1>0, <1>1, <1>2, <1>3, <2>1
  <2>2. CASE ~(k < i)
    <3>1. (a \o b)[k] = b[k - (i - 1)] /\ k - (i - 1) \in 1..(Len(s) - i)
      BY <1>0, <1>1, <1>2, <1>3, <2>2
    <3>2. i + (k - (i - 1)) = k + 1
      BY <1>0
    <3> QED
      BY <1>2, <2>2, <3>1, <3>2
  <2> QED
    BY <2>1, <2>2
<1>6. a \o b \in Seq(S) /\ Len(a \o b) = Len(s) - 1
  <2>1. (i - 1) + (Len(s) - i) = Len(s) - 1
    BY <1>0
  <2> QED
    BY <1>1, <1>2, <1>3, <2>1
<1> QED
  BY <1>4, <1>5, <1>6

(***************************************************************************)
(* TypeOK.                                                                 *)
(***************************************************************************)
LEMMA InitType == Init => TypeOK
<1> SUFFICES ASSUME Init PROVE TypeOK
  OBVIOUS
<1>1. job \in [Handlers -> JobType]
  BY IdleType DEF Init
<1>2. {settings, disk, published} \subseteq Setting
      /\ staging \in Setting \cup {NoFile}
  BY StoredAssumption DEF Init, Setting
<1>3. current \in Request
  BY IdleType DEF Init
<1>4. /\ inbox \in Seq(Request) /\ requests \in Seq(Request)
      /\ spawned \in Seq(Publishes)
  BY DEF Init
<1>5. lock \in Handlers \cup {None} /\ generation \in Nat
      /\ handled \in SUBSET Nat
      /\ happened \subseteq Events /\ asked \in 0..MaxRequests
      /\ channel \in {"none", "open", "closed"}
      /\ warden \in {"absent", "resolving", "listening", "pausing", "acking",
                     "exited"}
  BY BoundsAssumption DEF Init
<1>6. custody \in BOOLEAN /\ playing \in BOOLEAN
      /\ mixed \in BOOLEAN /\ crossed \in BOOLEAN /\ raced \in SUBSET Handlers
  BY CustodiesAssumption DEF Init
<1> QED
  BY <1>1, <1>2, <1>3, <1>4, <1>5, <1>6 DEF TypeOK, JobType, Publishes

OptionsType ==
  /\ settings \in Setting /\ disk \in Setting
  /\ staging \in Setting \cup {NoFile}
  /\ lock \in Handlers \cup {None} /\ generation \in Nat
  /\ job \in [Handlers -> JobType]
SubstrateType ==
  /\ published \in Setting /\ channel \in {"none", "open", "closed"}
  /\ inbox \in Seq(Request) /\ spawned \in Seq(Publishes)
WardenType ==
  /\ warden \in {"absent", "resolving", "listening", "pausing", "acking",
                 "exited"}
  /\ requests \in Seq(Request) /\ current \in Request
  /\ handled \in SUBSET Nat
PlayerType == custody \in BOOLEAN /\ playing \in BOOLEAN
BoundsType == asked \in 0..MaxRequests /\ happened \subseteq Events
HistoryType == mixed \in BOOLEAN /\ crossed \in BOOLEAN /\ raced \in SUBSET Handlers

LEMMA TypeParts ==
  TypeOK <=> /\ OptionsType /\ SubstrateType /\ WardenType /\ PlayerType
             /\ BoundsType /\ HistoryType
  BY DEF TypeOK, OptionsType, SubstrateType, WardenType, PlayerType, BoundsType,
         HistoryType, JobType, Publishes

\* What an event or a request does to the bounds.
LEMMA SpendType ==
  ASSUME happened \subseteq Events, asked \in 0..MaxRequests, NEW e, Spend(e)
  PROVE  /\ happened' \subseteq Events /\ asked' = asked
         /\ e \in happened' /\ happened \subseteq happened' /\ e \notin happened
         /\ \A f : f # e => (f \in happened' <=> f \in happened)
  BY AllowedAssumption DEF Spend

LEMMA AskType ==
  ASSUME asked \in 0..MaxRequests, NEW h \in Handlers, NEW r, Ask(h, r)
  PROVE  asked' \in 0..MaxRequests /\ asked' = h /\ h > asked
         /\ happened' = happened
  BY BoundsAssumption DEF Ask

\* The steps of one handler's gesture: what they may do to the options.
LEMMA AcknowledgedType ==
  ASSUME OptionsType, NEW h \in Handlers, Acknowledged(h)
  PROVE  job' \in [Handlers -> JobType] /\ lock' \in Handlers \cup {None}
<1>1. CASE Go(h, "authority") /\ UNCHANGED lock
  BY <1>1, GoFacts DEF OptionsType, Phases, Locked
<1>2. CASE Return(h, "ok")
  BY <1>2, ReturnFacts DEF OptionsType, Outcomes
<1> QED
  BY <1>1, <1>2 DEF Acknowledged

LEMMA RollbackType ==
  ASSUME OptionsType, NEW h \in Handlers, RollbackOrFail(h)
  PROVE  /\ job' \in [Handlers -> JobType] /\ lock' \in Handlers \cup {None}
         /\ settings' \in Setting
<1>0. job[h].prior \in Setting
  BY DEF OptionsType, JobType
<1>1. CASE settings' = job[h].prior /\ Go(h, "restore") /\ UNCHANGED lock
  BY <1>0, <1>1, GoFacts DEF OptionsType, Phases, Locked
<1>2. CASE Return(h, "rolled_back") /\ UNCHANGED settings
  BY <1>2, ReturnFacts DEF OptionsType, Outcomes
<1> QED
  BY <1>1, <1>2 DEF RollbackOrFail

LEMMA PublishType ==
  ASSUME spawned \in Seq(Publishes), NEW s \in Setting, PublishSettings(s)
  PROVE  spawned' \in Seq(Publishes)
<1>1. [kind |-> "settings", setting |-> s, request |-> NoRequest] \in Publishes
  BY IdleType DEF Publishes
<1> QED
  BY <1>1 DEF PublishSettings

LEMMA HandlerType ==
  ASSUME TypeOK, StageInv, NEW h \in Handlers,
         \/ \E to \in Targets : HandleSetMixerType(h, to)
         \/ SetMixerDevice(h) \/ ResetToDefaults(h)
         \/ HandlerStep(h) \/ HandlerFault(h)
  PROVE  OptionsType' /\ SubstrateType' /\ WardenType' /\ PlayerType' /\ BoundsType'
<1>t. OptionsType /\ SubstrateType /\ WardenType /\ PlayerType /\ BoundsType
  BY TypeParts
<1>p. /\ \A p \in Phases : Go(h, p) => job' \in [Handlers -> JobType]
      /\ \A o \in Outcomes : Return(h, o) => /\ job' \in [Handlers -> JobType]
                                            /\ lock' \in Handlers \cup {None}
  BY <1>t, GoFacts, ReturnFacts DEF OptionsType
<1>s. \A e : Spend(e) => happened' \subseteq Events /\ asked' = asked
  BY <1>t, SpendType DEF BoundsType
<1>a. \A r : Ask(h, r) => asked' \in 0..MaxRequests /\ happened' = happened
  BY <1>t, AskType DEF BoundsType
<1>j. job[h] \in JobType /\ job[h].to \in MixerTypes /\ job[h].prior \in Setting
  BY <1>t DEF OptionsType, JobType
<1>r. Ensure => channel' \in {"none", "open", "closed"}
  BY <1>t DEF Ensure, SubstrateType
<1> USE DEF fileVars, substrateVars, wardenVars, playerVars
<1>1. ASSUME NEW to \in Targets, HandleSetMixerType(h, to)
      PROVE  OptionsType' /\ SubstrateType' /\ WardenType' /\ PlayerType' /\ BoundsType'
  <2>1. job' \in [Handlers -> JobType]
    <3>1. CASE job' = [job EXCEPT ![h].outcome = "refused"]
      BY <1>t, <3>1 DEF OptionsType, JobType, Outcomes
    <3>2. CASE job' = [job EXCEPT ![h] =
                         [Idle EXCEPT !.phase = "locking", !.to = to,
                                      !.from = settings.mixer]]
      <4>1. to \in MixerTypes /\ settings.mixer \in MixerTypes
        BY <1>t, TargetsAssumption DEF OptionsType, Setting
      <4>2. [Idle EXCEPT !.phase = "locking", !.to = to,
                         !.from = settings.mixer] \in JobType
        BY <4>1, IdleType DEF JobType, Phases
      <4> QED
        BY <1>t, <3>2, <4>2 DEF OptionsType
    <3> QED
      BY <1>1, <3>1, <3>2 DEF HandleSetMixerType
  <2> QED
    BY <1>1, <1>a, <1>t, <2>1
    DEF HandleSetMixerType, OptionsType, SubstrateType, WardenType, PlayerType,
        BoundsType
<1>2. ASSUME NEW s \in Setting, NEW r, Write(h, s, r)
      PROVE  OptionsType' /\ SubstrateType' /\ WardenType' /\ PlayerType' /\ BoundsType'
  <2>1. job' \in [Handlers -> JobType]
    <3>1. [Idle EXCEPT !.phase = "save"] \in JobType
      BY IdleType DEF JobType, Phases
    <3> QED
      BY <1>2, <1>t, <3>1 DEF Write, OptionsType
  <2> QED
    BY <1>2, <1>a, <1>t, <2>1
    DEF Write, OptionsType, SubstrateType, WardenType, PlayerType, BoundsType
<1>3. CASE SetMixerDevice(h) \/ ResetToDefaults(h)
  <2>1. Default \in Setting /\ \A d \in BOOLEAN : [settings EXCEPT !.device = d] \in Setting
    BY <1>t, IdleType DEF OptionsType, Setting
  <2> QED
    BY <1>2, <1>3, <2>1 DEF SetMixerDevice, ResetToDefaults
<1>4. CASE AcquireLock(h)
  BY <1>4, <1>p, <1>t
  DEF AcquireLock, OptionsType, SubstrateType, WardenType, PlayerType,
      BoundsType, Phases, Locked
<1>5. CASE NoOp(h)
  BY <1>5, <1>p, <1>t
  DEF NoOp, OptionsType, SubstrateType, WardenType, PlayerType, BoundsType,
      Outcomes
<1>6. CASE Begin(h)
  BY <1>6, <1>p, <1>r, <1>t
  DEF Begin, OptionsType, SubstrateType, WardenType, PlayerType, BoundsType,
      Phases, Locked
<1>7. CASE PublishEnvelopeRequested(h)
  <2>1. generation' \in Nat
    BY <1>7, <1>t DEF PublishEnvelopeRequested, OptionsType
  <2>2. job' \in [Handlers -> JobType]
    <3> DEFINE p == IF job[h].phase = "mute" THEN "mute_sub" ELSE "unmute_sub"
               n == [job[h] EXCEPT !.want = generation', !.phase = p]
    <3>1. n \in JobType
      BY <1>j, <2>1 DEF JobType, Phases, Locked
    <3>2. job' = [job EXCEPT ![h] = n]
      BY <1>7 DEF PublishEnvelopeRequested
    <3> HIDE DEF n
    <3> QED
      BY <1>t, <3>1, <3>2 DEF OptionsType
  <2>3. spawned' \in Seq(Publishes)
    <3>1. [kind |-> "envelope", setting |-> Default,
           request |-> [gen |-> generation', muted |-> job[h].phase = "mute"]]
             \in Publishes
      BY <2>1, IdleType DEF Publishes, Request
    <3> QED
      BY <1>7, <1>t, <3>1 DEF PublishEnvelopeRequested, SubstrateType
  <2> QED
    BY <1>7, <1>t, <2>1, <2>2, <2>3
    DEF PublishEnvelopeRequested, OptionsType, SubstrateType, WardenType,
        PlayerType, BoundsType
<1>8. CASE EnsureForAck(h)
  <2>1. job' \in [Handlers -> JobType] /\ lock' \in Handlers \cup {None}
    BY <1>8, <1>p, <1>t, AcknowledgedType
    DEF EnsureForAck, OptionsType, Phases, Locked
  <2> QED
    BY <1>8, <1>r, <1>t, <2>1
    DEF EnsureForAck, OptionsType, SubstrateType, WardenType, PlayerType,
        BoundsType
<1>9. CASE ReceiveObservation(h)
  <2>1. job' \in [Handlers -> JobType] /\ lock' \in Handlers \cup {None}
    BY <1>9, <1>t, AcknowledgedType DEF ReceiveObservation, OptionsType
  <2>2. inbox' \in Seq(Request)
    BY <1>9, <1>t, HeadAndTail DEF ReceiveObservation, SubstrateType
  <2> QED
    BY <1>9, <1>t, <2>1, <2>2
    DEF ReceiveObservation, OptionsType, SubstrateType, WardenType, PlayerType,
        BoundsType
<1>10. CASE NoAck(h) \/ EnsureFails(h)
  <2>1. /\ job' \in [Handlers -> JobType] /\ lock' \in Handlers \cup {None}
        /\ settings' \in Setting
    BY <1>10, <1>t, RollbackType DEF NoAck, EnsureFails
  <2> QED
    BY <1>10, <1>s, <1>t, <2>1
    DEF NoAck, EnsureFails, OptionsType, SubstrateType, WardenType, PlayerType,
        BoundsType
<1>11. CASE SetNewAuthority(h)
  <2>1. settings' \in Setting
    BY <1>11, <1>j, <1>t DEF SetNewAuthority, OptionsType, Setting
  <2>2. job' \in [Handlers -> JobType]
    <3> DEFINE n == [job[h] EXCEPT !.phase = "persist", !.prior = settings]
    <3>1. n \in JobType
      BY <1>t DEF OptionsType, JobType, Phases, Locked
    <3>2. job' = [job EXCEPT ![h] = n]
      BY <1>11 DEF SetNewAuthority
    <3> HIDE DEF n
    <3> QED
      BY <1>t, <3>1, <3>2 DEF OptionsType
  <2> QED
    BY <1>11, <1>t, <2>1, <2>2
    DEF SetNewAuthority, OptionsType, SubstrateType, WardenType, PlayerType,
        BoundsType
<1>f. Rename(h) => disk' \in Setting /\ staging' \in Setting \cup {NoFile}
  BY <1>t DEF Rename, OptionsType
<1>12. CASE PersistAuthority(h) \/ RestorePrior(h) \/ Save(h)
  <2>1. spawned' \in Seq(Publishes)
    BY <1>12, <1>t, PublishType
    DEF PersistAuthority, RestorePrior, Save, OptionsType, SubstrateType
  <2>2. job' \in [Handlers -> JobType] /\ lock' \in Handlers \cup {None}
    <3>1. CASE PersistAuthority(h)
      BY <1>p, <1>t, <3>1 DEF PersistAuthority, OptionsType, Phases, Locked
    <3>2. CASE RestorePrior(h) \/ Save(h)
      BY <1>p, <1>t, <3>2 DEF RestorePrior, Save, Outcomes
    <3> QED
      BY <1>12, <3>1, <3>2
  <2>3. OptionsType'
    BY <1>12, <1>f, <1>t, <2>2 DEF PersistAuthority, RestorePrior, Save, OptionsType
  <2> QED
    BY <1>12, <1>t, <2>1, <2>3
    DEF PersistAuthority, RestorePrior, Save, SubstrateType, WardenType,
        PlayerType, BoundsType
<1>13. CASE Verify(h)
  <2>1. /\ job' \in [Handlers -> JobType] /\ lock' \in Handlers \cup {None}
        /\ settings' \in Setting
    BY <1>13, <1>p, <1>t, RollbackType
    DEF Verify, OptionsType, Phases, Locked
  <2> QED
    BY <1>13, <1>t, <2>1
    DEF Verify, OptionsType, SubstrateType, WardenType, PlayerType, BoundsType
<1>14. CASE Snapshot(h) \/ WriteStaging(h)
  <2>1. job' \in [Handlers -> JobType] /\ staging' \in Setting \cup {NoFile}
    <3>1. CASE Snapshot(h)
      BY <1>t, <3>1, SnapshotFacts DEF Snapshot, OptionsType
    <3>2. CASE WriteStaging(h)
      BY <1>t, <3>2, WriteFacts DEF OptionsType
    <3> QED
      BY <1>14, <3>1, <3>2
  <2> QED
    BY <1>14, <1>t, <2>1
    DEF Snapshot, WriteStaging, OptionsType, SubstrateType, WardenType,
        PlayerType, BoundsType
<1>15. CASE RenameFails(h) \/ PersistFails(h)
  <2>1. job[h].phase \in Persisting => settings' \in Setting
           /\ job' \in [Handlers -> JobType] /\ lock' \in Handlers \cup {None}
    BY <1>15, <1>j, <1>p, <1>t
    DEF RenameFails, PersistFails, AfterFailedPersist, Persisting, OptionsType, Outcomes
  <2>2. job[h].phase \in Persisting
    BY <1>15 DEF RenameFails, PersistFails, StageInv
  <2>3. OptionsType'
    BY <1>15, <1>t, <2>1, <2>2 DEF RenameFails, PersistFails, OptionsType
  <2> QED
    BY <1>15, <1>s, <1>t, <2>3
    DEF RenameFails, PersistFails, SubstrateType, WardenType, PlayerType, BoundsType
<1>16. CASE OverallTimeout(h) \/ OverallTimeoutLateRename(h) \/ OverallTimeoutUnread(h)
  <2>1. OptionsType'
    BY <1>16, <1>f, <1>p, <1>t
    DEF OverallTimeout, OverallTimeoutLateRename, OverallTimeoutUnread,
        OptionsType, Outcomes
  <2>2. UNCHANGED <<substrateVars, wardenVars, playerVars>>
    BY <1>16 DEF OverallTimeout, OverallTimeoutLateRename, OverallTimeoutUnread
  <2>3. happened' \subseteq Events /\ asked' = asked
    BY <1>16, <1>s
    DEF OverallTimeout, OverallTimeoutLateRename, OverallTimeoutUnread
  <2> QED
    BY <1>t, <2>1, <2>2, <2>3 DEF SubstrateType, WardenType, PlayerType, BoundsType
<1> QED
  BY <1>1, <1>3, <1>4, <1>5, <1>6, <1>7, <1>8, <1>9, <1>10, <1>11, <1>12,
     <1>13, <1>14, <1>15, <1>16 DEF HandlerStep, HandlerFault

\* Everything that is no step of a handler.
Outside ==
  \/ \E i \in 1..Len(spawned) : Deliver(i) \/ LosePublish(i)
  \/ CloseChannel
  \/ WardenAnnounces \/ WardenStep \/ WardenSubscribeFails \/ WardenPauseFails
  \/ UserPlaysOrPauses \/ TakeOrReleaseCustody

LEMMA OutsideType ==
  ASSUME TypeOK, Outside
  PROVE  OptionsType' /\ SubstrateType' /\ WardenType' /\ PlayerType' /\ BoundsType'
<1>t. OptionsType /\ SubstrateType /\ WardenType /\ PlayerType /\ BoundsType
  BY TypeParts
<1>s. \A e : Spend(e) => happened' \subseteq Events /\ asked' = asked
  BY <1>t, SpendType DEF BoundsType
<1> USE DEF optionsVars, fileVars, substrateVars, wardenVars, playerVars
<1>1. ASSUME NEW i \in 1..Len(spawned), Deliver(i)
      PROVE  OptionsType' /\ SubstrateType' /\ WardenType' /\ PlayerType' /\ BoundsType'
  <2>1. spawned' \in Seq(Publishes)
    BY <1>1, <1>t, RemoveFacts DEF Deliver, SubstrateType
  <2>2. spawned[i].setting \in Setting /\ spawned[i].request \in Request
    <3>1. spawned[i] \in Publishes
      BY <1>t DEF SubstrateType
    <3> QED
      BY <3>1 DEF Publishes
  <2>3. published' \in Setting /\ requests' \in Seq(Request)
    <3>1. published' \in {published, spawned[i].setting}
      BY <1>1 DEF Deliver
    <3>2. requests' \in {requests, Append(requests, spawned[i].request)}
      BY <1>1 DEF Deliver
    <3>3. Append(requests, spawned[i].request) \in Seq(Request)
      BY <1>t, <2>2, AppendProperties DEF WardenType
    <3> QED
      BY <1>t, <2>2, <3>1, <3>2, <3>3 DEF SubstrateType, WardenType
  <2>4. happened' \subseteq Events /\ asked' = asked
    BY <1>1, <1>s, <1>t DEF Deliver, BoundsType
  <2> QED
    BY <1>1, <1>t, <2>1, <2>3, <2>4
    DEF Deliver, OptionsType, SubstrateType, WardenType, PlayerType, BoundsType
<1>2. ASSUME NEW i \in 1..Len(spawned), LosePublish(i)
      PROVE  OptionsType' /\ SubstrateType' /\ WardenType' /\ PlayerType' /\ BoundsType'
  <2>1. spawned' \in Seq(Publishes)
    BY <1>2, <1>t, RemoveFacts DEF LosePublish, SubstrateType
  <2> QED
    BY <1>2, <1>s, <1>t, <2>1
    DEF LosePublish, OptionsType, SubstrateType, WardenType, PlayerType,
        BoundsType
<1>3. CASE CloseChannel
  BY <1>3, <1>s, <1>t
  DEF CloseChannel, OptionsType, SubstrateType, WardenType, PlayerType,
      BoundsType
<1>4. CASE WardenAnnounces \/ WardenSubscribes \/ WardenSubscribeFails
  BY <1>4, <1>s, <1>t
  DEF WardenAnnounces, WardenSubscribes, WardenSubscribeFails, OptionsType,
      SubstrateType, WardenType, PlayerType, BoundsType
<1>5. CASE WardenTakes
  <2>1. requests' \in Seq(Request) /\ current' \in Request
    BY <1>5, <1>t, HeadAndTail DEF WardenTakes, WardenType
  <2>2. current'.gen \in Nat
    BY <2>1 DEF Request
  <2> QED
    BY <1>5, <1>t, <2>1, <2>2
    DEF WardenTakes, OptionsType, SubstrateType, WardenType, PlayerType,
        BoundsType
<1>6. CASE WardenPauses
  <2>1. current.gen \in Nat
    BY <1>t DEF WardenType, Request
  <2>2. playing' \in BOOLEAN
    BY <1>6 DEF WardenPauses
  <2> QED
    BY <1>6, <1>t, <2>1, <2>2
    DEF WardenPauses, OptionsType, SubstrateType, WardenType, PlayerType,
        BoundsType
<1>7. CASE WardenPauseFails
  <2>1. playing' \in BOOLEAN
    BY <1>7, <1>t DEF WardenPauseFails, PlayerType
  <2> QED
    BY <1>7, <1>s, <1>t, <2>1, IdleType
    DEF WardenPauseFails, OptionsType, SubstrateType, WardenType, PlayerType,
        BoundsType
<1>8. CASE WardenAcks
  <2>1. inbox' \in Seq(Request)
    BY <1>8, <1>t DEF WardenAcks, SubstrateType, WardenType
  <2> QED
    BY <1>8, <1>t, <2>1, IdleType
    DEF WardenAcks, OptionsType, SubstrateType, WardenType, PlayerType,
        BoundsType
<1>9. CASE UserPlaysOrPauses \/ TakeOrReleaseCustody
  <2>1. PlayerType'
    BY <1>9, <1>t DEF UserPlaysOrPauses, TakeOrReleaseCustody, PlayerType
  <2> QED
    BY <1>9, <1>s, <1>t, <2>1
    DEF UserPlaysOrPauses, TakeOrReleaseCustody, OptionsType, SubstrateType,
        WardenType, BoundsType
<1> QED
  BY <1>1, <1>2, <1>3, <1>4, <1>5, <1>6, <1>7, <1>8, <1>9
  DEF Outside, WardenStep

LEMMA NextType == TypeOK /\ StageInv /\ [Next]_vars => TypeOK'
<1> SUFFICES ASSUME TypeOK, StageInv, [Next]_vars PROVE TypeOK'
  OBVIOUS
<1>1. OptionsType' /\ SubstrateType' /\ WardenType' /\ PlayerType' /\ BoundsType'
  <2>1. CASE UNCHANGED vars
    BY <2>1, TypeParts
    DEF vars, stepVars, optionsVars, fileVars, substrateVars, wardenVars,
        playerVars, OptionsType, SubstrateType, WardenType, PlayerType, BoundsType
  <2> QED
    BY <2>1, HandlerType, OutsideType DEF Next, Step, Outside
<1>2. HistoryType'
  <2>1. CASE Notes
    <3>1. mixed' \in BOOLEAN /\ crossed' \in BOOLEAN
      BY <2>1, Zenon DEF Notes
    <3> QED
      BY <2>1, <3>1 DEF Notes, HistoryType
  <2>2. CASE UNCHANGED vars
    BY <2>2, TypeParts DEF vars, HistoryType
  <2> QED
    BY <2>1, <2>2 DEF Next
<1> QED
  BY <1>1, <1>2
  DEF TypeOK, OptionsType, SubstrateType, WardenType, PlayerType, BoundsType,
      HistoryType, JobType, Publishes

(***************************************************************************)
(* The lock and the handlers.                                              *)
(***************************************************************************)
OwnerInv == LockInv /\ FreshInv /\ StageInv

\* A step of h leaves the others alone.
Alone(h) == \A k \in Handlers : k # h => job'[k] = job[k]

\* The ways a handler's step treats the lock: it goes on under it, it goes on
\* inside a persist, it takes the lock, it returns and drops it if it holds it,
\* or it begins a request.
GoesOn(h) ==
  /\ job[h].phase \in Locked /\ job'[h].phase \in Locked
  /\ job'[h].outcome = job[h].outcome /\ UNCHANGED <<lock, asked>>
Persists(h) ==
  /\ job'[h].phase = job[h].phase /\ job[h].phase \in Persisting
  /\ job'[h].outcome = job[h].outcome /\ UNCHANGED <<lock, asked>>
Takes(h) ==
  /\ job[h].phase = "locking" /\ job'[h].phase = "begin"
  /\ lock = None /\ lock' = h
  /\ job'[h].outcome = job[h].outcome /\ UNCHANGED asked
Returns(h) ==
  /\ job[h].phase # "idle" /\ job'[h].phase = "idle"
  /\ UNCHANGED asked
  /\ lock' = IF lock = h THEN None ELSE lock
Starts(h) ==
  /\ h > asked /\ asked' = h
  /\ job'[h].phase \in {"idle", "locking", "save"}
  /\ job'[h].phase # "idle" => job'[h].outcome = "none"
  /\ UNCHANGED lock
StepOf(h) ==
  /\ Alone(h)
  /\ GoesOn(h) \/ Persists(h) \/ Takes(h) \/ Returns(h) \/ Starts(h)
  /\ job'[h].stage # "none" => job'[h].phase \in Persisting

LEMMA OwnerStep ==
  ASSUME TypeOK, OwnerInv, NEW h \in Handlers, StepOf(h)
  PROVE  OwnerInv'
<1>t. asked \in 0..MaxRequests /\ MaxRequests \in Nat /\ None \notin Handlers
  BY BoundsAssumption, NoneAssumption DEF TypeOK
<1>s. StageInv'
  BY DEF StepOf, Alone, OwnerInv, StageInv
<1>1. CASE GoesOn(h)
  BY <1>1, <1>s, <1>t
  DEF GoesOn, StepOf, Alone, OwnerInv, LockInv, FreshInv, Locked
<1>5. CASE Persists(h)
  BY <1>5, <1>s, <1>t
  DEF Persists, StepOf, Alone, OwnerInv, LockInv, FreshInv, Locked, Persisting
<1>2. CASE Takes(h)
  BY <1>2, <1>s, <1>t DEF Takes, StepOf, Alone, OwnerInv, LockInv, FreshInv, Locked
<1>3. CASE Returns(h)
  BY <1>3, <1>s, <1>t DEF Returns, StepOf, Alone, OwnerInv, LockInv, FreshInv, Locked
<1>4. CASE Starts(h)
  <2>1. job[h].phase = "idle" /\ lock # h
    BY <1>4 DEF Starts, OwnerInv, LockInv, FreshInv, Locked
  <2>2. LockInv'
    BY <1>4, <2>1 DEF Starts, StepOf, Alone, OwnerInv, LockInv, Locked
  <2>3. FreshInv'
    BY <1>4, <1>t, <2>1 DEF Starts, StepOf, Alone, OwnerInv, FreshInv
  <2> QED
    BY <1>s, <2>2, <2>3 DEF OwnerInv
<1> QED
  BY <1>1, <1>2, <1>3, <1>4, <1>5 DEF StepOf

\* Every step of a handler is one of these.
LEMMA AcknowledgedStep ==
  ASSUME TypeOK, NEW h \in Handlers, Acknowledged(h), UNCHANGED asked,
         job[h].phase \in {"mute_sub", "mute_ack", "unmute_sub", "unmute_ack"}
  PROVE  StepOf(h)
<1>t. job \in [Handlers -> JobType]
  BY TypeParts DEF OptionsType
<1>1. CASE Go(h, "authority") /\ UNCHANGED lock
  BY <1>1, <1>t, GoFacts DEF StepOf, Alone, GoesOn, Phases, Locked
<1>2. CASE Return(h, "ok")
  BY <1>2, <1>t, ReturnFacts DEF StepOf, Alone, Returns, Outcomes
<1> QED
  BY <1>1, <1>2 DEF Acknowledged

LEMMA RollbackStep ==
  ASSUME TypeOK, NEW h \in Handlers, RollbackOrFail(h), UNCHANGED asked,
         job[h].phase \in Locked
  PROVE  StepOf(h)
<1>t. job \in [Handlers -> JobType]
  BY TypeParts DEF OptionsType
<1>1. CASE Go(h, "restore") /\ UNCHANGED lock
  BY <1>1, <1>t, GoFacts DEF StepOf, Alone, GoesOn, Phases, Locked
<1>2. CASE Return(h, "rolled_back")
  BY <1>2, <1>t, ReturnFacts DEF StepOf, Alone, Returns, Outcomes, Locked
<1> QED
  BY <1>1, <1>2 DEF RollbackOrFail

HandlerNext(h) ==
  \/ \E to \in Targets : HandleSetMixerType(h, to)
  \/ SetMixerDevice(h) \/ ResetToDefaults(h)
  \/ HandlerStep(h) \/ HandlerFault(h)

LEMMA HandlerSteps ==
  ASSUME TypeOK, OwnerInv, NEW h \in Handlers, HandlerNext(h)
  PROVE  StepOf(h)
<1>t. /\ job \in [Handlers -> JobType] /\ asked \in 0..MaxRequests
      /\ happened \subseteq Events
  BY TypeParts DEF OptionsType, BoundsType
<1>g. ASSUME NEW p \in Locked, Go(h, p), job[h].phase \in Locked,
             UNCHANGED <<lock, asked>>
      PROVE  StepOf(h)
  BY <1>g, <1>t, GoFacts DEF StepOf, Alone, GoesOn, Phases
<1>r. ASSUME NEW o \in Outcomes, Return(h, o), job[h].phase # "idle",
             UNCHANGED asked
      PROVE  StepOf(h)
  BY <1>r, <1>t, ReturnFacts DEF StepOf, Alone, Returns
<1>s. \A e : Spend(e) => asked' = asked
  BY <1>t, SpendType
<1>1. ASSUME NEW to \in Targets, HandleSetMixerType(h, to) PROVE StepOf(h)
  <2>1. h > asked /\ asked' = h /\ UNCHANGED lock
    BY <1>1, <1>t, AskType DEF HandleSetMixerType
  <2>2. job[h].phase = "idle"
    BY <2>1 DEF OwnerInv, FreshInv
  <2>3. CASE job' = [job EXCEPT ![h].outcome = "refused"]
    <3>1. job[h].stage = "none" /\ job'[h].stage = job[h].stage
      BY <1>t, <2>2, <2>3 DEF OwnerInv, StageInv, Persisting, JobType
    <3> QED
      BY <1>t, <2>1, <2>2, <2>3, <3>1 DEF StepOf, Alone, Starts, JobType
  <2>4. CASE job' = [job EXCEPT ![h] =
                       [Idle EXCEPT !.phase = "locking", !.to = to,
                                    !.from = settings.mixer]]
    <3>1. job'[h].phase = "locking" /\ job'[h].outcome = "none" /\ Alone(h)
          /\ job'[h].stage = "none"
      BY <1>t, <2>4 DEF Alone, Idle
    <3> QED
      BY <2>1, <3>1 DEF StepOf, Starts
  <2> QED
    BY <1>1, <2>3, <2>4 DEF HandleSetMixerType
<1>2. ASSUME NEW s, NEW r, Write(h, s, r) PROVE StepOf(h)
  <2>1. h > asked /\ asked' = h /\ UNCHANGED lock
    BY <1>2, <1>t, AskType DEF Write
  <2>2. job'[h].phase = "save" /\ job'[h].outcome = "none" /\ Alone(h)
        /\ job'[h].stage = "none"
    BY <1>2, <1>t DEF Write, Alone, Idle
  <2> QED
    BY <2>1, <2>2 DEF StepOf, Starts
<1>3. CASE SetMixerDevice(h) \/ ResetToDefaults(h)
  BY <1>2, <1>3 DEF SetMixerDevice, ResetToDefaults
<1>4. CASE AcquireLock(h)
  BY <1>4, <1>t, GoFacts
  DEF AcquireLock, StepOf, Alone, Takes, Phases, Locked
<1>5. CASE NoOp(h) \/ RestorePrior(h) \/ Save(h)
  BY <1>5, <1>r DEF NoOp, RestorePrior, Save, Outcomes
<1>6. CASE Begin(h) \/ PersistAuthority(h)
  BY <1>6, <1>g DEF Begin, PersistAuthority, Locked
<1>i. job[h].phase \notin Persisting => job[h].stage = "none"
  BY DEF OwnerInv, StageInv
<1>7. CASE PublishEnvelopeRequested(h)
  <2>1. job'[h].stage = "none"
    BY <1>7, <1>i, <1>t DEF PublishEnvelopeRequested, Persisting, JobType
  <2> QED
    BY <1>7, <1>t, <2>1
    DEF PublishEnvelopeRequested, StepOf, Alone, GoesOn, Locked, JobType
<1>8. CASE EnsureForAck(h)
  <2>1. CASE Acknowledged(h)
    BY <1>8, <2>1, AcknowledgedStep DEF EnsureForAck
  <2>2. CASE ~Acknowledged(h)
    BY <1>8, <1>g, <2>2 DEF EnsureForAck, Locked
  <2> QED
    BY <2>1, <2>2
<1>9. CASE ReceiveObservation(h)
  <2>1. CASE Acknowledged(h)
    BY <1>9, <2>1, AcknowledgedStep DEF ReceiveObservation, Awaiting
  <2>2. CASE UNCHANGED <<job, lock>>
    BY <1>9, <1>i, <2>2
    DEF ReceiveObservation, Awaiting, StepOf, Alone, GoesOn, Locked, Persisting
  <2> QED
    BY <1>9, <2>1, <2>2 DEF ReceiveObservation
<1>10. CASE NoAck(h) \/ EnsureFails(h)
  BY <1>10, <1>s, RollbackStep DEF NoAck, EnsureFails, Awaiting, Locked
<1>11. CASE SetNewAuthority(h)
  <2>1. job'[h].stage = "none"
    BY <1>11, <1>i, <1>t DEF SetNewAuthority, Persisting, JobType
  <2> QED
    BY <1>11, <1>t, <2>1 DEF SetNewAuthority, StepOf, Alone, GoesOn, Locked, JobType
<1>12. CASE Verify(h)
  <2>1. CASE RollbackOrFail(h)
    BY <1>12, <2>1, RollbackStep DEF Verify, Locked
  <2>2. CASE ~RollbackOrFail(h)
    BY <1>12, <1>g, <2>2 DEF Verify, Locked
  <2> QED
    BY <2>1, <2>2
<1>13. CASE OverallTimeout(h) \/ OverallTimeoutLateRename(h) \/ OverallTimeoutUnread(h)
  BY <1>13, <1>r, <1>s
  DEF OverallTimeout, OverallTimeoutLateRename, OverallTimeoutUnread, Outcomes
<1>14. CASE RenameFails(h) \/ PersistFails(h)
  <2>1. job[h].phase \in Persisting
    BY <1>14, <1>i DEF RenameFails, PersistFails
  <2>2. UNCHANGED asked
    BY <1>14, <1>s DEF RenameFails, PersistFails
  <2> QED
    BY <1>14, <1>r, <2>1, <2>2
    DEF RenameFails, PersistFails, AfterFailedPersist, Persisting, Outcomes
<1>15. CASE Snapshot(h)
  <2>1. settings \in Setting /\ UNCHANGED <<lock, asked>>
    BY <1>15 DEF TypeOK, Snapshot
  <2> QED
    BY <1>15, <1>t, <2>1, SnapshotFacts DEF StepOf, Alone, Persists
<1>16. CASE WriteStaging(h)
  <2>1. UNCHANGED <<lock, asked>>
    BY <1>16 DEF WriteStaging
  <2> QED
    BY <1>16, <1>i, <1>t, <2>1, WriteFacts DEF StepOf, Alone, Persists
<1> QED
  BY <1>1, <1>3, <1>4, <1>5, <1>6, <1>7, <1>8, <1>9, <1>10, <1>11, <1>12,
     <1>13, <1>14, <1>15, <1>16 DEF HandlerNext, HandlerStep, HandlerFault

\* What happens outside the plugin leaves its handlers and its files alone.
LEMMA OutsideSteps ==
  ASSUME TypeOK, Outside
  PROVE  UNCHANGED <<settings, disk, staging, lock, generation, job, asked>>
<1>s. \A e : Spend(e) => asked' = asked
  BY SpendType DEF TypeOK
<1> QED
  BY <1>s
  DEF Outside, Deliver, LosePublish, CloseChannel, WardenAnnounces, WardenStep,
      WardenSubscribes, WardenTakes, WardenPauses, WardenAcks,
      WardenSubscribeFails, WardenPauseFails, UserPlaysOrPauses,
      TakeOrReleaseCustody, optionsVars, fileVars

LEMMA NextOwner == TypeOK /\ OwnerInv /\ [Next]_vars => OwnerInv'
<1> SUFFICES ASSUME TypeOK, OwnerInv, [Next]_vars PROVE OwnerInv'
  OBVIOUS
<1>1. ASSUME NEW h \in Handlers, HandlerNext(h) PROVE OwnerInv'
  BY <1>1, HandlerSteps, OwnerStep
<1>2. CASE Outside \/ UNCHANGED vars
  <2>1. UNCHANGED <<lock, job, asked>>
    BY <1>2, OutsideSteps DEF vars, stepVars, optionsVars
  <2> QED
    BY <2>1 DEF OwnerInv, LockInv, FreshInv, StageInv
<1> QED
  BY <1>1, <1>2 DEF Next, Step, HandlerNext, Outside

(***************************************************************************)
(* What a handler's step does to the rest.                                 *)
(***************************************************************************)
Saves(h) ==
  Rename(h) /\ PublishSettings(settings) /\ UNCHANGED <<settings, generation>>
Effects(h) ==
  /\ UNCHANGED <<published, requests, warden, current, handled, custody, playing>>
  /\ happened \subseteq happened'
  /\ inbox' = inbox \/ (inbox # <<>> /\ inbox' = Tail(inbox))
  /\ \/ UNCHANGED <<disk, spawned, generation>>
     \/ UNCHANGED disk /\ PublishEnvelopeRequested(h)
     \/ Saves(h)
     \/ "unsaved" \in happened' /\ UNCHANGED <<spawned, generation>>

LEMMA HandlerEffects ==
  ASSUME TypeOK, NEW h \in Handlers, HandlerNext(h)
  PROVE  Effects(h)
<1>s. \A e : Spend(e) => happened \subseteq happened' /\ e \in happened'
  BY SpendType DEF TypeOK
<1> USE DEF fileVars, substrateVars, wardenVars, playerVars
<1>1. ASSUME NEW to \in Targets, HandleSetMixerType(h, to) PROVE Effects(h)
  BY <1>1 DEF HandleSetMixerType, Ask, Effects
<1>2. ASSUME NEW s, NEW r, Write(h, s, r) PROVE Effects(h)
  BY <1>2 DEF Write, Ask, Effects
<1>3. CASE SetMixerDevice(h) \/ ResetToDefaults(h)
  BY <1>2, <1>3 DEF SetMixerDevice, ResetToDefaults
<1>4. CASE AcquireLock(h) \/ NoOp(h) \/ Begin(h)
  BY <1>4 DEF AcquireLock, NoOp, Begin, Effects
<1>5. CASE PublishEnvelopeRequested(h)
  <2>1. UNCHANGED <<disk, published, inbox, requests, warden, current, handled,
                    custody, playing, happened>>
    BY <1>5 DEF PublishEnvelopeRequested
  <2> QED
    BY <1>5, <2>1 DEF Effects
<1>6. CASE EnsureForAck(h) \/ ReceiveObservation(h) \/ NoAck(h)
  BY <1>6 DEF EnsureForAck, ReceiveObservation, NoAck, Effects
<1>7. CASE SetNewAuthority(h) \/ Verify(h) \/ Snapshot(h) \/ WriteStaging(h)
           \/ RenameFails(h)
  BY <1>7 DEF SetNewAuthority, Verify, Snapshot, WriteStaging, RenameFails, Effects
<1>8. CASE PersistAuthority(h) \/ RestorePrior(h) \/ Save(h)
  BY <1>8 DEF PersistAuthority, RestorePrior, Save, Effects, Saves
<1>9. CASE HandlerFault(h)
  BY <1>9, <1>s
  DEF HandlerFault, EnsureFails, PersistFails, OverallTimeout,
      OverallTimeoutLateRename, OverallTimeoutUnread, Effects
<1> QED
  BY <1>1, <1>3, <1>4, <1>5, <1>6, <1>7, <1>8, <1>9
  DEF HandlerNext, HandlerStep

LEMMA OutsideHappens ==
  ASSUME TypeOK, Outside
  PROVE  happened \subseteq happened'
<1>s. \A e : Spend(e) => happened \subseteq happened'
  BY SpendType DEF TypeOK
<1> QED
  BY <1>s
  DEF Outside, Deliver, LosePublish, CloseChannel, WardenAnnounces, WardenStep,
      WardenSubscribes, WardenTakes, WardenPauses, WardenAcks,
      WardenSubscribeFails, WardenPauseFails, UserPlaysOrPauses,
      TakeOrReleaseCustody

(***************************************************************************)
(* SnapInv, DiskInv, TargetInv and WantInv: one gesture at a time.         *)
(***************************************************************************)
LEMMA Sole ==
  ASSUME OwnerInv, NEW h \in Handlers, job[h].phase \in Locked
  PROVE  \A k \in Handlers : k # h => job[k].phase \notin Locked
  BY DEF OwnerInv, LockInv

\* What an acknowledgement and a failure do to the handler.
LEMMA AcknowledgedFacts ==
  ASSUME TypeOK, NEW h \in Handlers, Acknowledged(h)
  PROVE  /\ Alone(h)
         /\ \/ /\ job'[h].phase = "authority" /\ job'[h].want = job[h].want
               /\ job[h].phase \in {"mute_sub", "mute_ack"}
            \/ job'[h].phase = "idle"
<1>t. job \in [Handlers -> JobType]
  BY TypeParts DEF OptionsType
<1>1. CASE /\ job[h].phase \in {"mute_sub", "mute_ack"}
           /\ Go(h, "authority")
  BY <1>1, <1>t, GoFacts DEF Alone, Phases, Locked
<1>2. CASE Return(h, "ok")
  BY <1>2, <1>t, ReturnFacts DEF Alone, Outcomes
<1> QED
  BY <1>1, <1>2 DEF Acknowledged

LEMMA RollbackFacts ==
  ASSUME TypeOK, NEW h \in Handlers, RollbackOrFail(h)
  PROVE  /\ Alone(h)
         /\ job'[h].phase = "restore" \/ (job'[h].phase = "idle" /\ UNCHANGED settings)
<1>t. job \in [Handlers -> JobType]
  BY TypeParts DEF OptionsType
<1>1. CASE Go(h, "restore")
  BY <1>1, <1>t, GoFacts DEF Alone, Phases, Locked
<1>2. CASE Return(h, "rolled_back") /\ UNCHANGED settings
  BY <1>2, <1>t, ReturnFacts DEF Alone, Outcomes
<1> QED
  BY <1>1, <1>2 DEF RollbackOrFail

\* The steps of a handler, sorted by what they do to settings, files and job.
\* Writes nothing, and is neither before nor after it inside a write.
Plain(h) ==
  /\ UNCHANGED <<settings, disk, staging>>
  /\ job[h].phase \notin {"persist", "restore", "save"}
  /\ job'[h].phase \notin {"persist", "save", "verify", "restore"}
  /\ job'[h].phase \in {"unmute", "unmute_sub", "unmute_ack"} =>
       /\ job[h].phase \in {"verify", "unmute", "unmute_sub", "unmute_ack"}
       /\ job'[h].to = job[h].to
  /\ job'[h].phase \in {"mute_ack", "authority"} =>
       /\ job[h].phase \in {"mute_sub", "mute_ack", "authority"}
       /\ job'[h].want = job[h].want /\ UNCHANGED generation
  /\ job'[h].phase = "mute_sub" => job'[h].want = generation'
  /\ generation' # generation => job[h].phase \in {"mute", "unmute"}
Undoes(h) == job'[h].phase = "restore" /\ UNCHANGED <<disk, staging, generation>>
             /\ job'[h].stage = "none"
             /\ job[h].phase \in {"verify", "unmute_sub", "unmute_ack"}
Reloads(h) ==
  /\ UNCHANGED <<disk, staging, generation>> /\ job[h].phase \in Locked
  /\ job'[h].phase = "idle"
  /\ settings' = disk \/ (job[h].phase = "persist" /\ settings' = job[h].prior)
Fails(h) ==
  /\ "unsaved" \in happened' /\ job'[h].phase = "idle" /\ UNCHANGED generation
  /\ job[h].phase \in Locked \/ UNCHANGED <<settings, disk, staging>>
Misses(h) ==
  /\ job[h].stage = "rename" /\ staging = NoFile /\ job'[h].phase = "idle"
  /\ UNCHANGED <<disk, staging, generation>>
  /\ job[h].phase \in Locked \/ UNCHANGED settings
Stores(h) == job[h].phase \in {"persist", "restore"} /\ Saves(h)
             /\ \/ job'[h].phase = "idle"
                \/ /\ job[h].phase = "persist" /\ job'[h].phase = "verify"
                   /\ job'[h].to = job[h].to /\ job'[h].want = job[h].want
             /\ job'[h].stage = "none"
Changes(h) == Plain(h) \/ Undoes(h) \/ Reloads(h) \/ Fails(h) \/ Misses(h)
              \/ Stores(h) \/ SetNewAuthority(h) \/ Snapshot(h) \/ WriteStaging(h)
SetterStarts(h) ==
  /\ job'[h].phase = "save" /\ job'[h].stage = "none"
  /\ UNCHANGED <<disk, staging, generation>>
SetterSaves(h) ==
  Saves(h) /\ job[h].phase = "save" /\ job'[h].phase = "idle"

LEMMA HandlerChanges ==
  ASSUME TypeOK, OwnerInv, NEW h \in Handlers, HandlerNext(h)
  PROVE  Alone(h) /\ (Changes(h) \/ SetterStarts(h) \/ SetterSaves(h))
<1>t. /\ job \in [Handlers -> JobType] /\ asked \in 0..MaxRequests
      /\ happened \subseteq Events /\ generation \in Nat
  BY TypeParts DEF OptionsType, BoundsType
<1>1. Alone(h)
  BY HandlerSteps DEF StepOf
<1> SUFFICES Changes(h) \/ SetterStarts(h) \/ SetterSaves(h)
  BY <1>1
<1> USE DEF Changes, fileVars
<1>s. \A e : Spend(e) => e \in happened'
  BY <1>t, SpendType
<1>g. ASSUME NEW p \in Phases, Go(h, p)
      PROVE  /\ job'[h].phase = p /\ job'[h].to = job[h].to
             /\ job'[h].want = job[h].want /\ job'[h].stage = "none"
  BY <1>g, <1>t, GoFacts
<1>r. ASSUME NEW o \in Outcomes, Return(h, o) PROVE job'[h].phase = "idle" /\ job'[h].stage = "none"
  BY <1>r, <1>t, ReturnFacts
<1>2. ASSUME NEW to \in Targets, HandleSetMixerType(h, to) PROVE Plain(h)
  <2>1. h > asked
    BY <1>2, <1>t, AskType DEF HandleSetMixerType
  <2>2. job[h].phase = "idle"
    BY <2>1 DEF OwnerInv, FreshInv
  <2>3. job'[h].phase \in {"idle", "locking"}
    BY <1>2, <1>t, <2>2 DEF HandleSetMixerType, Idle, JobType
  <2> QED
    BY <1>2, <2>2, <2>3 DEF HandleSetMixerType, Plain
<1>3. ASSUME NEW s, NEW r, Write(h, s, r) PROVE SetterStarts(h)
  <2>1. job'[h].phase = "save" /\ job'[h].stage = "none"
    BY <1>3, <1>t DEF Write, Idle
  <2> QED
    BY <1>3, <2>1 DEF Write, SetterStarts
<1>4. CASE SetMixerDevice(h) \/ ResetToDefaults(h)
  BY <1>3, <1>4 DEF SetMixerDevice, ResetToDefaults
<1>5. CASE AcquireLock(h) \/ NoOp(h) \/ Begin(h)
  BY <1>5, <1>g, <1>r
  DEF AcquireLock, NoOp, Begin, Plain, Phases, Locked, Outcomes
<1>6. CASE PublishEnvelopeRequested(h)
  BY <1>6, <1>t DEF PublishEnvelopeRequested, Plain, JobType
<1>7. CASE EnsureForAck(h)
  <2>1. CASE Acknowledged(h)
    BY <1>7, <2>1, AcknowledgedFacts DEF EnsureForAck, Plain
  <2>2. CASE ~Acknowledged(h)
    BY <1>7, <1>g, <2>2 DEF EnsureForAck, Plain, Phases, Locked
  <2> QED
    BY <2>1, <2>2
<1>8. CASE ReceiveObservation(h)
  <2>1. CASE Acknowledged(h)
    BY <1>8, <2>1, AcknowledgedFacts DEF ReceiveObservation, Awaiting, Plain
  <2>2. CASE UNCHANGED job
    BY <1>8, <2>2 DEF ReceiveObservation, Awaiting, Plain
  <2> QED
    BY <1>8, <2>1, <2>2 DEF ReceiveObservation
<1>9. ASSUME RollbackOrFail(h), UNCHANGED <<disk, staging, generation>>,
             job[h].phase \in {"begin", "mute_sub", "mute_ack", "verify",
                               "unmute_sub", "unmute_ack"}
      PROVE  Plain(h) \/ Undoes(h)
  <2>1. CASE job[h].phase \in {"verify", "unmute_sub", "unmute_ack"}
    BY <1>9, <1>g, <2>1 DEF RollbackOrFail, Undoes, Phases, Locked
  <2>2. CASE job[h].phase \notin {"verify", "unmute_sub", "unmute_ack"}
    BY <1>9, <1>r, <2>2 DEF RollbackOrFail, Plain, Outcomes
  <2> QED
    BY <2>1, <2>2
<1>10. CASE NoAck(h) \/ EnsureFails(h)
  BY <1>10, <1>9 DEF NoAck, EnsureFails, Awaiting
<1>11. CASE Verify(h)
  <2>1. CASE RollbackOrFail(h)
    BY <1>11, <1>9, <2>1 DEF Verify
  <2>2. CASE ~RollbackOrFail(h)
    BY <1>11, <1>g, <2>2 DEF Verify, Plain, Phases, Locked
  <2> QED
    BY <2>1, <2>2
<1>12. CASE PersistAuthority(h) \/ RestorePrior(h)
  BY <1>12, <1>g, <1>r
  DEF PersistAuthority, RestorePrior, Stores, Saves, Phases, Locked, Outcomes
<1>13. CASE Save(h)
  BY <1>13, <1>r DEF Save, SetterSaves, Saves, Outcomes
<1>14. CASE OverallTimeout(h)
  BY <1>14, <1>r DEF OverallTimeout, Reloads, Outcomes, Locked
<1>15. CASE OverallTimeoutLateRename(h) \/ OverallTimeoutUnread(h)
  BY <1>15, <1>r, <1>s
  DEF OverallTimeoutLateRename, OverallTimeoutUnread, Fails, Outcomes, Locked
<1>16. CASE RenameFails(h) \/ PersistFails(h)
  <2>1. job[h].phase \in Persisting /\ UNCHANGED <<disk, staging, generation>>
    BY <1>16 DEF RenameFails, PersistFails, OwnerInv, StageInv
  <2>2. /\ job'[h].phase = "idle"
        /\ \/ job[h].phase = "persist" /\ settings' = job[h].prior
           \/ job[h].phase # "persist" /\ UNCHANGED settings
    BY <1>16, <1>r, <2>1
    DEF RenameFails, PersistFails, AfterFailedPersist, Persisting, Outcomes
  <2>3. CASE RenameFails(h)
    BY <2>1, <2>2, <2>3 DEF RenameFails, Misses, Locked
  <2>4. CASE PersistFails(h)
    <3>1. job[h].phase = "persist" \/ "unsaved" \in happened'
      BY <1>s, <2>4 DEF PersistFails
    <3> QED
      BY <2>1, <2>2, <3>1 DEF Reloads, Fails, Locked
  <2> QED
    BY <1>16, <2>3, <2>4
<1> QED
  BY <1>2, <1>4, <1>5, <1>6, <1>7, <1>8, <1>10, <1>11, <1>12, <1>13, <1>14,
     <1>15, <1>16 DEF HandlerNext, HandlerStep, HandlerFault

LEMMA AuthorityFacts ==
  ASSUME TypeOK, NEW h \in Handlers, SetNewAuthority(h)
  PROVE  /\ job[h].phase = "authority" /\ job'[h].phase = "persist"
         /\ job'[h].prior = settings /\ job'[h].to = job[h].to
         /\ job'[h].want = job[h].want /\ UNCHANGED <<disk, staging, generation>>
         /\ settings'.mixer = job[h].to
         /\ job'[h].stage = job[h].stage
<1>t. job \in [Handlers -> JobType] /\ settings \in Setting
  BY TypeParts DEF OptionsType
<1> QED
  BY <1>t DEF SetNewAuthority, JobType, Setting, fileVars

\* What a quiet step tells about the state before it.
HistoryInv == NoteInv /\ StageInv

LEMMA QuietBefore ==
  ASSUME TypeOK, HistoryInv, Notes, happened \subseteq happened'
  PROVE  /\ ~mixed' => ~mixed /\ ~Mixing /\ ~Mixing'
         /\ ~crossed' => ~crossed /\ ~Crossing /\ ~Crossing'
         /\ Quiet' => Quiet
<1>1. mixed \in BOOLEAN /\ crossed \in BOOLEAN
  BY DEF TypeOK
<1>2. ~mixed' => ~mixed /\ ~Mixing'
  BY <1>1, Zenon DEF Notes
<1>3. ~crossed' => ~crossed /\ ~Crossing'
  BY <1>1, Zenon DEF Notes
<1> QED
  BY <1>2, <1>3 DEF HistoryInv, NoteInv, Quiet

\* The history stays right.
LEMMA StepNotes ==
  ASSUME TypeOK, HistoryInv, OwnerInv, NEW h \in Handlers, HandlerNext(h), Notes
  PROVE  NoteInv'
<1>1. mixed \in BOOLEAN /\ crossed \in BOOLEAN
  BY DEF TypeOK
<1>2. Mixing' => mixed'
  BY <1>1, Zenon DEF Notes
<1>3. Crossing' => crossed'
  BY <1>1, Zenon DEF Notes
<1>4. ASSUME NEW k \in Handlers, job'[k].phase \in {"locking", "begin"}
      PROVE  k \in raced' \/ settings'.mixer = job'[k].from
  <2>1. CASE job[k].phase \in {"locking", "begin"}
    <3>1. job'[k].from = job[k].from
      <4>t. job \in [Handlers -> JobType]
        BY TypeParts DEF OptionsType
      <4>1. CASE k # h
        BY <4>1, HandlerSteps DEF StepOf, Alone
      <4>2. CASE k = h
        <5>1. ~(h > asked)
          BY <2>1, <4>2 DEF OwnerInv, FreshInv
        <5>2. \A r : ~Ask(h, r)
          BY <5>1, AskType DEF TypeOK
        <5>3. \A o \in Outcomes : ~Return(h, o)
          BY <1>4, <4>2, <4>t, ReturnFacts
        <5>4. \A p \in Phases : Go(h, p) => job'[h].from = job[h].from
          BY <4>t, GoFacts
        <5>5. ~RollbackOrFail(h)
          BY <2>1, <4>2, <5>3 DEF RollbackOrFail, Outcomes
        <5>6. job[h].stage = "none"
          BY <2>1, <4>2 DEF HistoryInv, StageInv, Persisting
        <5> QED
          BY <2>1, <4>2, <5>2, <5>3, <5>4, <5>5, <5>6
          DEF HandlerNext, HandlerStep, HandlerFault, HandleSetMixerType,
              SetMixerDevice, ResetToDefaults, Write, AcquireLock, NoOp, Begin,
              PublishEnvelopeRequested, EnsureForAck, ReceiveObservation, Awaiting,
              NoAck, SetNewAuthority, PersistAuthority, Verify, RestorePrior, Save,
              Snapshot, WriteStaging, RenameFails, Persisting, EnsureFails,
              PersistFails, OverallTimeout, OverallTimeoutLateRename,
              OverallTimeoutUnread, Outcomes, Phases, Locked
      <4> QED
        BY <4>1, <4>2
    <3>2. k \in raced \/ settings.mixer = job[k].from
      BY <2>1 DEF HistoryInv, NoteInv
    <3> QED
      BY <1>4, <2>1, <3>1, <3>2 DEF Notes
  <2>2. CASE job[k].phase \notin {"locking", "begin"}
    <3>1. k = h
      BY <1>4, <2>2, HandlerSteps DEF StepOf, Alone
    <3>t. job \in [Handlers -> JobType]
      BY TypeParts DEF OptionsType
    <3>2. \A o \in Outcomes : ~Return(h, o)
      BY <1>4, <3>1, <3>t, ReturnFacts
    <3>3. \A p \in Phases : Go(h, p) => p \in {"locking", "begin"}
      BY <1>4, <3>1, <3>t, GoFacts
    <3>4. ~RollbackOrFail(h) /\ ~Acknowledged(h)
      BY <3>2, <3>3 DEF RollbackOrFail, Acknowledged, Outcomes, Phases, Locked
    <3>5. ~Snapshot(h) /\ ~WriteStaging(h) /\ ~RenameFails(h) /\ ~PersistFails(h)
      <4>1. settings \in Setting
        BY DEF TypeOK
      <4>2. ASSUME Snapshot(h) \/ WriteStaging(h) PROVE FALSE
        BY <1>4, <2>2, <3>1, <3>t, <4>1, <4>2, SnapshotFacts, WriteFacts
      <4>3. ASSUME RenameFails(h) \/ PersistFails(h) PROVE FALSE
        <5>1. job[h].phase \in Persisting
          BY <4>3 DEF RenameFails, PersistFails, HistoryInv, StageInv
        <5> QED
          BY <3>2, <4>3, <5>1
          DEF RenameFails, PersistFails, AfterFailedPersist, Persisting, Outcomes
      <4> QED
        BY <4>2, <4>3
    <3>6. ~PublishEnvelopeRequested(h)
      BY <1>4, <3>1, <3>t DEF PublishEnvelopeRequested, JobType
    <3>7. ASSUME NEW s, NEW r, Write(h, s, r) PROVE FALSE
      BY <1>4, <3>1, <3>7, <3>t DEF Write, Idle
    <3>8. ~SetNewAuthority(h)
      BY <1>4, <3>1, AuthorityFacts
    <3>a. ASSUME HandlerFault(h) PROVE FALSE
      BY <3>2, <3>4, <3>5, <3>a
      DEF HandlerFault, EnsureFails, OverallTimeout, OverallTimeoutLateRename,
          OverallTimeoutUnread, Outcomes
    <3>b. ASSUME AcquireLock(h) \/ NoOp(h) \/ Begin(h) PROVE FALSE
      BY <2>2, <3>1, <3>b DEF AcquireLock, NoOp, Begin
    <3>c. ASSUME EnsureForAck(h) \/ NoAck(h) PROVE FALSE
      BY <3>3, <3>4, <3>c DEF EnsureForAck, NoAck, Phases, Locked
    <3>d. ASSUME ReceiveObservation(h) PROVE FALSE
      BY <1>4, <2>2, <3>1, <3>4, <3>d DEF ReceiveObservation
    <3>e. ASSUME PersistAuthority(h) \/ Verify(h) \/ RestorePrior(h) \/ Save(h)
          PROVE  FALSE
      BY <3>2, <3>3, <3>4, <3>e
      DEF PersistAuthority, Verify, RestorePrior, Save, Outcomes, Phases, Locked
    <3>f. ~HandlerStep(h)
      BY <3>5, <3>6, <3>8, <3>b, <3>c, <3>d, <3>e DEF HandlerStep
    <3>g. ~SetMixerDevice(h) /\ ~ResetToDefaults(h)
      BY <3>7 DEF SetMixerDevice, ResetToDefaults
    <3>9. \E to \in Targets : HandleSetMixerType(h, to)
      BY <3>a, <3>f, <3>g DEF HandlerNext
    <3>10. PICK to \in Targets : HandleSetMixerType(h, to)
      BY <3>9
    <3>11. CASE job' = [job EXCEPT ![h].outcome = "refused"]
      BY <1>4, <2>2, <3>1, <3>11, <3>t DEF JobType
    <3>12. CASE job' = [job EXCEPT ![h] =
                         [Idle EXCEPT !.phase = "locking", !.to = to,
                                      !.from = settings.mixer]]
      <4>1. job'[h].from = settings.mixer
        BY <3>12, <3>t DEF Idle
      <4> QED
        BY <3>1, <3>10, <4>1 DEF HandleSetMixerType
    <3> QED
      BY <3>10, <3>11, <3>12 DEF HandleSetMixerType
  <2> QED
    BY <2>1, <2>2
<1> QED
  BY <1>2, <1>3, <1>4 DEF NoteInv

\* A gesture that holds the lock, when nothing excepted has happened, is the
\* only one at work.
LEMMA SoleWriter ==
  ASSUME OwnerInv, ~Mixing, NEW h \in Handlers, job[h].phase \in Locked
  PROVE  /\ Clean
         /\ \A k \in Handlers : k # h => /\ job[k].phase \notin Locked
                                         /\ job[k].stage = "none"
<1>1. Clean
  BY DEF Mixing, InTransition, Clean
<1>2. \A k \in Handlers : k # h => job[k].phase \notin Locked
  BY Sole
<1>3. \A k \in Handlers : job[k].stage # "none" => job[k].phase \in {"persist", "restore"}
  BY <1>1 DEF Clean, OwnerInv, StageInv, Persisting
<1> QED
  BY <1>1, <1>2, <1>3 DEF Locked

\* What a handler saves, when no other setter has yet to save, is the memory.
LEMMA SavesMemory ==
  ASSUME TypeOK, OwnerInv, SnapInv, Quiet, ~Mixing, NEW h \in Handlers, Saves(h),
         \A k \in Handlers : k # h => job[k].phase # "save"
  PROVE  disk' = settings
  BY DEF Saves, Rename, SnapInv

\* With nothing excepted, nobody misses the staging file.
LEMMA NobodyMisses ==
  ASSUME TypeOK, SnapInv, Quiet, NEW h \in Handlers, Misses(h)
  PROVE  FALSE
<1>1. staging = job[h].snap
  BY DEF Misses, SnapInv
<1>2. job[h].snap \in Setting
  BY TypeParts DEF OptionsType, JobType
<1> QED
  BY <1>1, <1>2, NoFileAssumption DEF Misses

LEMMA HandlerSnap ==
  ASSUME TypeOK, OwnerInv, NoteInv, SnapInv, NEW h \in Handlers, HandlerNext(h), Notes
  PROVE  SnapInv'
<1> SUFFICES ASSUME Quiet', NEW k \in Handlers, job'[k].stage # "none"
             PROVE  /\ \/ job'[k].snap = settings'
                       \/ \E l \in Handlers :
                            l # k /\ job'[l].phase = "save" /\ job'[l].stage = "none"
                    /\ job'[k].stage = "rename" => staging' = job'[k].snap
  BY DEF SnapInv
<1>t. job \in [Handlers -> JobType] /\ settings \in Setting
  BY TypeParts DEF OptionsType
<1>h. happened \subseteq happened'
  BY HandlerEffects DEF Effects
<1>0. /\ Quiet /\ ~Mixing /\ ~Mixing' /\ ~Crossing /\ ~Crossing' /\ Alone(h)
      /\ "unsaved" \notin happened'
  BY <1>h, QuietBefore, HandlerChanges DEF OwnerInv, HistoryInv, Quiet
<1>i. job[k].stage # "none" =>
        /\ \/ job[k].snap = settings
           \/ \E l \in Handlers : l # k /\ job[l].phase = "save" /\ job[l].stage = "none"
        /\ job[k].stage = "rename" => staging = job[k].snap
  BY <1>0 DEF SnapInv
<1>s. StageInv'
  BY HandlerSteps, OwnerStep DEF OwnerInv
<1>k. job'[k].phase \in Persisting
  BY <1>s DEF StageInv
<1>l. ASSUME job[h].phase \in Locked, k # h PROVE FALSE
  BY <1>0, <1>l, SoleWriter DEF Alone
<1>1. CASE SetterStarts(h)
  <2>1. k # h /\ job'[k] = job[k]
    BY <1>0, <1>1 DEF SetterStarts, Alone
  <2> QED
    BY <1>1, <1>i, <2>1 DEF SetterStarts
<1>2. CASE Snapshot(h)
  <2>1. k = h
    BY <1>0, <1>2, <1>t, SnapshotFacts DEF Crossing
  <2> QED
    BY <1>2, <1>t, <2>1, SnapshotFacts DEF Snapshot
<1>3. CASE WriteStaging(h)
  <2>1. k = h
    BY <1>0, <1>3, <1>t, WriteFacts DEF Crossing
  <2>2. job[h].stage = "write" /\ job'[h].snap = job[h].snap /\ staging' = job[h].snap
    BY <1>3, <1>t, WriteFacts
  <2>3. UNCHANGED settings
    BY <1>3 DEF WriteStaging
  <2> QED
    BY <1>0, <1>i, <2>1, <2>2, <2>3 DEF Alone
<1>4. CASE Saves(h)
  <2>1. CASE k = h
    <3>1. Stores(h) \/ SetterSaves(h)
      <4>1. job[h].stage = "rename" /\ job[h].phase \in Persisting
            /\ disk' = staging /\ staging' = NoFile /\ staging # NoFile
        BY <1>4 DEF Saves, Rename, OwnerInv, StageInv
      <4> QED
        BY <1>0, <1>t, <4>1, AuthorityFacts, SnapshotFacts, WriteFacts, HandlerChanges
        DEF Changes, Plain, Undoes, Reloads, Fails, Misses, SetterStarts, Persisting
    <3> QED
      BY <1>k, <2>1, <3>1 DEF Stores, SetterSaves, Persisting
  <2>2. CASE k # h
    BY <1>0, <1>4, <2>2 DEF Saves, Rename, Alone, Crossing
  <2> QED
    BY <2>1, <2>2
<1>5. CASE Plain(h)
  <2>1. k # h
    BY <1>5, <1>k DEF Plain, Persisting
  <2> QED
    BY <1>0, <1>5, <1>i, <2>1 DEF Plain, Alone
<1>6. CASE Undoes(h) \/ Reloads(h)
  <2>1. k # h /\ job[h].phase \in Locked
    BY <1>6, <1>k DEF Undoes, Reloads, Locked, Persisting
  <2> QED
    BY <1>l, <2>1
<1>7. CASE SetNewAuthority(h)
  <2>1. job[h].phase = "authority" /\ job'[h].stage = job[h].stage
    BY <1>7, AuthorityFacts
  <2>2. job[h].stage = "none"
    BY <2>1 DEF OwnerInv, StageInv, Persisting
  <2> QED
    BY <1>l, <2>1, <2>2 DEF Locked
<1>8. CASE Fails(h) \/ Misses(h)
  BY <1>0, <1>8, NobodyMisses DEF Fails
<1> QED
  BY <1>1, <1>2, <1>3, <1>4, <1>5, <1>6, <1>7, <1>8, HandlerChanges
  DEF Changes, Stores, SetterSaves

LEMMA HandlerDisk ==
  ASSUME TypeOK, OwnerInv, NoteInv, SnapInv, DiskInv, NEW h \in Handlers,
         HandlerNext(h), Notes
  PROVE  DiskInv'
<1> SUFFICES ASSUME Quiet', Clean'
             PROVE  /\ (\A k \in Handlers : job'[k].phase \notin {"persist", "restore"})
                         => settings' = disk'
                    /\ \A k \in Handlers : job'[k].phase = "persist" => job'[k].prior = disk'
  BY DEF DiskInv
<1>t. job \in [Handlers -> JobType] /\ settings \in Setting
  BY TypeParts DEF OptionsType
<1>h. happened \subseteq happened'
  BY HandlerEffects DEF Effects
<1>0. Quiet /\ ~Mixing /\ ~Mixing' /\ Alone(h) /\ "unsaved" \notin happened'
  BY <1>h, QuietBefore, HandlerChanges DEF OwnerInv, HistoryInv, Quiet
<1>c. \A k \in Handlers : k # h => job[k].phase # "save"
  BY <1>0 DEF Clean, Alone
<1>1. CASE SetterStarts(h)
  BY <1>1 DEF SetterStarts, Clean
<1>2. CASE SetterSaves(h)
  <2>1. \A k \in Handlers : job[k].phase \notin {"persist", "restore"}
    BY <1>0, <1>2 DEF SetterSaves, Mixing, InTransition, Locked
  <2>2. settings' = disk'
    BY <1>0, <1>2, <1>c, SavesMemory DEF SetterSaves, Saves
  <2> QED
    BY <1>0, <1>2, <2>1, <2>2 DEF SetterSaves, Alone
<1>3. CASE Changes(h)
  <2>1. CASE Fails(h) \/ Misses(h)
    BY <1>0, <2>1, NobodyMisses DEF Fails
  <2>2. CASE ~Fails(h) /\ ~Misses(h)
    <3>0. job[h].phase # "save"
      BY <1>3, <1>t, <2>2, AuthorityFacts, SnapshotFacts, WriteFacts
      DEF Changes, Plain, Undoes, Reloads, Stores, Locked, Clean
    <3>1. Clean
      BY <1>c, <3>0 DEF Clean
    <3>2. /\ (\A k \in Handlers : job[k].phase \notin {"persist", "restore"})
               => settings = disk
          /\ \A k \in Handlers : job[k].phase = "persist" => job[k].prior = disk
      BY <1>0, <3>1 DEF DiskInv
    <3>s. job[h].phase \in Locked =>
            \A k \in Handlers : k # h => job[k].phase \notin {"persist", "restore"}
      BY Sole DEF Locked
    <3>3. CASE Plain(h)
      BY <1>0, <3>2, <3>3 DEF Plain, Alone
    <3>4. CASE Undoes(h)
      BY <1>0, <3>2, <3>4 DEF Undoes, Alone
    <3>5. CASE Reloads(h)
      <4>1. settings' = disk'
        BY <3>2, <3>5 DEF Reloads
      <4> QED
        BY <1>0, <3>2, <3>5, <3>s, <4>1 DEF Reloads, Alone
    <3>6. CASE Stores(h)
      <4>1. settings' = disk'
        BY <1>0, <1>c, <3>6, SavesMemory DEF Stores, Saves
      <4>2. job[h].phase \in Locked /\ job'[h].phase # "persist"
        BY <3>6 DEF Stores, Locked
      <4> QED
        BY <1>0, <3>s, <4>1, <4>2 DEF Alone
    <3>7. CASE SetNewAuthority(h)
      <4>1. job[h].phase = "authority" /\ job[h].phase \in Locked
        BY <3>7, AuthorityFacts DEF Locked
      <4>2. settings = disk
        BY <3>2, <3>s, <4>1
      <4> QED
        BY <1>0, <3>2, <3>7, <3>s, <4>1, <4>2, AuthorityFacts DEF Alone
    <3>8. CASE Snapshot(h) \/ WriteStaging(h)
      <4>1. job'[h].phase = job[h].phase /\ job'[h].prior = job[h].prior
        BY <1>t, <3>8, SnapshotFacts, WriteFacts
      <4>2. UNCHANGED <<settings, disk>>
        BY <3>8 DEF Snapshot, WriteStaging, fileVars
      <4> QED
        BY <1>0, <3>2, <4>1, <4>2 DEF Alone
    <3> QED
      BY <1>3, <2>2, <3>3, <3>4, <3>5, <3>6, <3>7, <3>8 DEF Changes
  <2> QED
    BY <2>1, <2>2
<1> QED
  BY <1>1, <1>2, <1>3, HandlerChanges

LEMMA HandlerTarget ==
  ASSUME TypeOK, OwnerInv, NoteInv, TargetInv, NEW h \in Handlers, HandlerNext(h),
         Notes
  PROVE  TargetInv'
<1> DEFINE After == {"verify", "unmute", "unmute_sub", "unmute_ack"}
<1> SUFFICES ASSUME ~mixed', NEW k \in Handlers
             PROVE  /\ job'[k].phase = "persist" =>
                         /\ settings'.mixer = job'[k].to
                         /\ job'[k].stage # "none" => job'[k].snap.mixer = job'[k].to
                         /\ job'[k].stage = "rename" => staging' = job'[k].snap
                    /\ job'[k].phase \in After
                         => settings'.mixer = job'[k].to /\ disk'.mixer = job'[k].to
  BY DEF TargetInv
<1>t. job \in [Handlers -> JobType] /\ settings \in Setting
  BY TypeParts DEF OptionsType
<1>h. happened \subseteq happened'
  BY HandlerEffects DEF Effects
<1>0. ~mixed /\ ~Mixing /\ ~Mixing' /\ Alone(h)
  BY <1>h, QuietBefore, HandlerChanges DEF OwnerInv, HistoryInv
<1>i. /\ job[k].phase = "persist" =>
           /\ settings.mixer = job[k].to
           /\ job[k].stage # "none" => job[k].snap.mixer = job[k].to
           /\ job[k].stage = "rename" => staging = job[k].snap
      /\ job[k].phase \in After => settings.mixer = job[k].to /\ disk.mixer = job[k].to
  BY <1>0 DEF TargetInv
<1>1. CASE SetterStarts(h) \/ SetterSaves(h)
  <2>1. k = h => job'[k].phase \notin After \cup {"persist"}
    BY <1>1 DEF SetterStarts, SetterSaves
  <2>2. k # h => job[k].phase \notin After \cup {"persist"}
    <3>1. k # h => job[k].phase \notin Locked
      BY <1>0, <1>1 DEF SetterStarts, SetterSaves, Mixing, InTransition, Alone
    <3> QED
      BY <3>1 DEF Locked
  <2> QED
    BY <1>0, <2>1, <2>2 DEF Alone
<1>2. CASE Changes(h) /\ k # h
  <2>1. CASE job[h].phase \in Locked
    BY <1>0, <1>2, <2>1, Sole DEF Alone, Locked
  <2>2. CASE job[h].phase = "save"
    <3>1. job[k].phase \notin Locked
      BY <1>0, <2>2 DEF Mixing, InTransition
    <3> QED
      BY <1>0, <1>2, <3>1 DEF Alone, Locked
  <2>3. CASE job[h].phase \notin Locked /\ job[h].phase # "save"
    <3>0. job[h].phase \notin Persisting /\ job[h].stage = "none"
      BY <2>3 DEF Locked, Persisting, OwnerInv, StageInv
    <3>1. UNCHANGED <<settings, disk, staging>>
      BY <1>2, <1>t, <2>3, <3>0, AuthorityFacts, SnapshotFacts, WriteFacts
      DEF Changes, Plain, Undoes, Reloads, Fails, Misses, Stores, Locked
    <3> QED
      BY <1>0, <1>2, <1>i, <3>1 DEF Alone
  <2> QED
    BY <2>1, <2>2, <2>3
<1>3. CASE Changes(h) /\ k = h
  <2>1. CASE Plain(h)
    BY <1>3, <1>i, <2>1 DEF Plain
  <2>2. CASE Undoes(h) \/ Reloads(h) \/ Fails(h) \/ Misses(h)
    BY <1>3, <2>2 DEF Undoes, Reloads, Fails, Misses
  <2>3. CASE Stores(h)
    BY <1>3, <1>i, <2>3 DEF Stores, Saves, Rename
  <2>4. CASE SetNewAuthority(h)
    <3>1. job[h].stage = "none"
      BY <2>4, AuthorityFacts DEF OwnerInv, StageInv, Persisting
    <3> QED
      BY <1>3, <2>4, <3>1, AuthorityFacts
  <2>5. CASE Snapshot(h)
    <3>1. UNCHANGED settings
      BY <2>5 DEF Snapshot
    <3> QED
      BY <1>3, <1>i, <1>t, <2>5, <3>1, SnapshotFacts DEF Persisting
  <2>6. CASE WriteStaging(h)
    <3>1. UNCHANGED settings /\ job[h].phase \in Persisting
      BY <1>t, <2>6, WriteFacts DEF WriteStaging, OwnerInv, StageInv
    <3> QED
      BY <1>3, <1>i, <1>t, <2>6, <3>1, WriteFacts DEF Persisting
  <2> QED
    BY <1>3, <2>1, <2>2, <2>3, <2>4, <2>5, <2>6 DEF Changes
<1> QED
  BY <1>1, <1>2, <1>3, HandlerChanges

LEMMA HandlerWant ==
  ASSUME TypeOK, OwnerInv, WantInv, NEW h \in Handlers, HandlerNext(h)
  PROVE  WantInv'
<1> DEFINE Granted == {"mute_sub", "mute_ack", "authority", "persist", "verify"}
<1> SUFFICES ASSUME NEW k \in Handlers, job'[k].phase \in Granted
             PROVE  job'[k].want = generation'
  BY DEF WantInv
<1>0. Alone(h)
  BY HandlerChanges
<1>i. job[k].phase \in Granted => job[k].want = generation
  BY DEF WantInv
<1>1. CASE k # h
  <2>1. job[k].phase \in Granted /\ job[k].phase \in Locked
    BY <1>0, <1>1 DEF Alone, Locked
  <2>2. job[h].phase \notin Locked
    BY <1>1, <2>1, Sole
  <2>3. UNCHANGED generation
    BY <2>2, AuthorityFacts, HandlerChanges
    DEF Changes, Plain, Undoes, Reloads, Fails, Misses, Stores, Saves,
        SetterStarts, SetterSaves, Snapshot, WriteStaging, Locked
  <2> QED
    BY <1>0, <1>1, <1>i, <2>1, <2>3 DEF Alone
<1>2. CASE k = h
  <2>1. CASE Plain(h)
    BY <1>2, <1>i, <2>1 DEF Plain
  <2>2. CASE Undoes(h) \/ Reloads(h) \/ Fails(h) \/ Misses(h) \/ SetterStarts(h)
             \/ SetterSaves(h)
    BY <1>2, <2>2 DEF Undoes, Reloads, Fails, Misses, SetterStarts, SetterSaves
  <2>3. CASE Stores(h)
    BY <1>2, <1>i, <2>3 DEF Stores, Saves
  <2>4. CASE SetNewAuthority(h)
    BY <1>2, <1>i, <2>4, AuthorityFacts
  <2>5. CASE Snapshot(h) \/ WriteStaging(h)
    <3>1. job \in [Handlers -> JobType] /\ settings \in Setting
      BY TypeParts DEF OptionsType
    <3>2. UNCHANGED generation /\ job'[h].phase = job[h].phase
          /\ job'[h].want = job[h].want
      BY <2>5, <3>1, SnapshotFacts, WriteFacts DEF Snapshot, WriteStaging
    <3> QED
      BY <1>2, <1>i, <3>2
  <2> QED
    BY <2>1, <2>2, <2>3, <2>4, <2>5, HandlerChanges DEF Changes
<1> QED
  BY <1>1, <1>2

(***************************************************************************)
(* PublishInv: what the file holds is published, or on its way.            *)
(***************************************************************************)
LEMMA AppendFacts ==
  ASSUME NEW S, NEW s \in Seq(S), NEW m \in S
  PROVE  /\ Append(s, m) \in Seq(S) /\ Len(Append(s, m)) = Len(s) + 1
         /\ Len(s) \in Nat
         /\ \A i \in 1..Len(s) : Append(s, m)[i] = s[i]
         /\ Append(s, m)[Len(s) + 1] = m
  BY AppendProperties, LenProperties

LEMMA SavesPublishes ==
  ASSUME TypeOK, NEW h, Saves(h)
  PROVE  LastIs(spawned', settings)
<1> DEFINE m == [kind |-> "settings", setting |-> settings, request |-> NoRequest]
<1>1. spawned \in Seq(Publishes) /\ m \in Publishes
  BY TypeParts, IdleType DEF SubstrateType, OptionsType, Publishes
<1>2. spawned' = Append(spawned, m)
  BY DEF Saves, PublishSettings
<1>3. m.kind = "settings" /\ m.setting = settings
  OBVIOUS
<1> HIDE DEF m
<1>4. Len(spawned') = Len(spawned) + 1 /\ spawned'[Len(spawned) + 1] = m
      /\ Len(spawned) \in Nat
  BY <1>1, <1>2, AppendFacts
<1>5. /\ Len(spawned) + 1 \in 1..Len(spawned')
      /\ \A k \in 1..Len(spawned') : ~(k > Len(spawned) + 1)
  BY <1>4
<1> QED
  BY <1>2, <1>3, <1>4, <1>5 DEF LastIs, IsSettings

\* A request appended to the publishes under way leaves the settings alone.
LEMMA EnvelopeKeepsSettings ==
  ASSUME TypeOK, NEW m \in Publishes, ~IsSettings(m),
         spawned' = Append(spawned, m), NEW v
  PROVE  /\ LastIs(spawned, v) => LastIs(spawned', v)
         /\ (\A i \in 1..Len(spawned) : ~IsSettings(spawned[i])) =>
              \A i \in 1..Len(spawned') : ~IsSettings(spawned'[i])
<1>1. spawned \in Seq(Publishes)
  BY TypeParts DEF SubstrateType
<1>2. /\ Len(spawned') = Len(spawned) + 1 /\ spawned'[Len(spawned) + 1] = m
      /\ Len(spawned) \in Nat
      /\ \A i \in 1..Len(spawned) : spawned'[i] = spawned[i]
  BY <1>1, AppendFacts
<1>3. /\ \A k \in 1..Len(spawned) : k \in 1..Len(spawned')
      /\ \A k \in 1..Len(spawned') : k \in 1..Len(spawned) \/ k = Len(spawned) + 1
  BY <1>2
<1> QED
  BY <1>2, <1>3 DEF LastIs

LEMMA RequestFacts ==
  ASSUME TypeOK, NEW h \in Handlers, PublishEnvelopeRequested(h)
  PROVE  \E m \in Publishes :
           /\ spawned' = Append(spawned, m) /\ m.kind = "envelope"
           /\ m.request.gen = generation + 1 /\ generation' = generation + 1
<1> DEFINE m == [kind |-> "envelope", setting |-> Default,
                 request |-> [gen |-> generation', muted |-> job[h].phase = "mute"]]
<1>1. generation \in Nat /\ generation' = generation + 1
      /\ spawned' = Append(spawned, m)
  BY DEF TypeOK, PublishEnvelopeRequested
<1>2. m.request \in Request /\ m.request.gen = generation + 1
  BY <1>1 DEF Request
<1>3. m \in Publishes /\ m.kind = "envelope"
  BY <1>2, IdleType DEF Publishes
<1> QED
  BY <1>1, <1>2, <1>3

LEMMA HandlerPublish ==
  ASSUME TypeOK, OwnerInv, NoteInv, SnapInv, PublishInv, NEW h \in Handlers,
         HandlerNext(h), Notes
  PROVE  PublishInv'
<1> SUFFICES ASSUME Quiet', Clean', happened' \cap {"lost", "overtake"} = {}
             PROVE  \/ LastIs(spawned', disk')
                    \/ /\ published' = disk'
                       /\ \A i \in 1..Len(spawned') : ~IsSettings(spawned'[i])
  BY DEF PublishInv, LastIs, IsSettings
<1>e. Effects(h)
  BY HandlerEffects
<1>t. job \in [Handlers -> JobType] /\ settings \in Setting
  BY TypeParts DEF OptionsType
<1>0. /\ Quiet /\ ~Mixing /\ Alone(h) /\ "unsaved" \notin happened'
      /\ happened \cap {"lost", "overtake"} = {} /\ UNCHANGED published
  BY <1>e, QuietBefore, HandlerChanges DEF Effects, OwnerInv, HistoryInv, Quiet
<1>c. \A k \in Handlers : k # h => job[k].phase # "save"
  BY <1>0 DEF Clean, Alone
<1>1. CASE Saves(h)
  BY <1>0, <1>1, <1>c, SavesMemory, SavesPublishes
<1>2. CASE ~Saves(h)
  <2>1. Clean
    <3>1. job[h].phase # "save"
      BY <1>0, <1>2, <1>t, AuthorityFacts, SnapshotFacts, WriteFacts,
         NobodyMisses, HandlerChanges
      DEF Changes, Plain, Undoes, Reloads, Fails, Stores, SetterStarts,
          SetterSaves, Clean, Locked
    <3> QED
      BY <1>c, <3>1 DEF Clean
  <2>i. \/ LastIs(spawned, disk)
        \/ published = disk /\ \A i \in 1..Len(spawned) : ~IsSettings(spawned[i])
    BY <1>0, <2>1 DEF PublishInv
  <2>2. CASE UNCHANGED <<disk, spawned>>
    BY <1>0, <2>2, <2>i
  <2>3. CASE UNCHANGED disk /\ PublishEnvelopeRequested(h)
    <3>1. PICK m \in Publishes : spawned' = Append(spawned, m) /\ m.kind = "envelope"
      BY <2>3, RequestFacts
    <3>2. ~IsSettings(m)
      BY <3>1 DEF IsSettings
    <3> QED
      BY <1>0, <2>3, <2>i, <3>1, <3>2, EnvelopeKeepsSettings
  <2> QED
    BY <1>0, <1>2, <1>e, <2>2, <2>3 DEF Effects
<1> QED
  BY <1>1, <1>2

LEMMA OutsidePublish ==
  ASSUME TypeOK, NoteInv, StageInv, PublishInv, Outside, Notes
  PROVE  PublishInv'
<1> SUFFICES ASSUME Quiet', Clean', happened' \cap {"lost", "overtake"} = {}
             PROVE  \/ LastIs(spawned', disk')
                    \/ /\ published' = disk'
                       /\ \A i \in 1..Len(spawned') : ~IsSettings(spawned'[i])
  BY DEF PublishInv, LastIs, IsSettings
<1>h. happened \subseteq happened' /\ UNCHANGED <<disk, job>>
  BY OutsideHappens, OutsideSteps
<1>0. Quiet /\ Clean /\ happened \cap {"lost", "overtake"} = {} /\ UNCHANGED disk
  BY <1>h, QuietBefore DEF HistoryInv, Clean
<1>s. \A e : Spend(e) => e \in happened'
  BY SpendType DEF TypeOK
<1>i. \/ LastIs(spawned, disk)
      \/ published = disk /\ \A i \in 1..Len(spawned) : ~IsSettings(spawned[i])
  BY <1>0 DEF PublishInv
<1>1. CASE UNCHANGED <<spawned, published>>
  BY <1>0, <1>1, <1>i
<1>2. ASSUME NEW i \in 1..Len(spawned), LosePublish(i) PROVE FALSE
  BY <1>2, <1>s DEF LosePublish
<1>3. ASSUME NEW i \in 1..Len(spawned), Deliver(i)
      PROVE  \/ LastIs(spawned', disk')
             \/ /\ published' = disk'
                /\ \A k \in 1..Len(spawned') : ~IsSettings(spawned'[k])
  <2>1. i = 1
    BY <1>3, <1>s DEF Deliver
  <2>2. spawned' = RemoveAt(spawned, 1)
        /\ published' = IF IsSettings(spawned[1]) THEN spawned[1].setting ELSE published
    BY <1>3, <2>1 DEF Deliver, IsSettings
  <2>3. spawned \in Seq(Publishes) /\ Len(spawned) \in Nat /\ 1 \in 1..Len(spawned)
    BY <1>3, <2>1, TypeParts, LenProperties DEF SubstrateType
  <2>4. Len(spawned') = Len(spawned) - 1
        /\ \A k \in 1..(Len(spawned) - 1) :
             RemoveAt(spawned, 1)[k] = IF k < 1 THEN spawned[k] ELSE spawned[k + 1]
    BY <2>2, <2>3, RemoveFacts
  <2>5. \A k \in 1..Len(spawned') :
          spawned'[k] = spawned[k + 1] /\ k + 1 \in 1..Len(spawned)
    BY <2>2, <2>3, <2>4
  <2>6. CASE LastIs(spawned, disk)
    <3>1. PICK j \in 1..Len(spawned) :
            /\ IsSettings(spawned[j]) /\ spawned[j].setting = disk
            /\ \A k \in 1..Len(spawned) : k > j => ~IsSettings(spawned[k])
      BY <2>6 DEF LastIs
    <3>2. CASE j = 1
      <4>1. published' = disk'
        BY <1>0, <2>2, <3>1, <3>2
      <4>2. \A k \in 1..Len(spawned') : ~IsSettings(spawned'[k])
        <5>1. \A k \in 1..Len(spawned') : k + 1 > 1
          BY <2>3, <2>4
        <5> QED
          BY <2>5, <3>1, <3>2, <5>1
      <4> QED
        BY <4>1, <4>2
    <3>3. CASE j # 1
      <4>1. j - 1 \in 1..Len(spawned') /\ (j - 1) + 1 = j
        BY <2>3, <2>4, <3>3
      <4>2. spawned'[j - 1] = spawned[j]
        BY <2>5, <4>1
      <4>3. ASSUME NEW k \in 1..Len(spawned'), k > j - 1
            PROVE  ~IsSettings(spawned'[k])
        <5>1. k + 1 > j
          BY <2>3, <2>4, <4>3
        <5> QED
          BY <2>5, <3>1, <5>1
      <4> QED
        BY <1>0, <3>1, <4>1, <4>2, <4>3 DEF LastIs
    <3> QED
      BY <3>2, <3>3
  <2>7. CASE published = disk /\ \A k \in 1..Len(spawned) : ~IsSettings(spawned[k])
    BY <1>0, <2>2, <2>3, <2>5, <2>7
  <2> QED
    BY <1>i, <2>6, <2>7
<1> QED
  BY <1>1, <1>2, <1>3
  DEF Outside, CloseChannel, WardenAnnounces, WardenStep, WardenSubscribes,
      WardenTakes, WardenPauses, WardenAcks, WardenSubscribeFails,
      WardenPauseFails, UserPlaysOrPauses, TakeOrReleaseCustody, substrateVars

(***************************************************************************)
(* AckInv: acknowledgements follow the deed.                               *)
(***************************************************************************)
LEMMA NextAck == TypeOK /\ AckInv /\ [Next]_vars => AckInv'
<1> SUFFICES ASSUME TypeOK, AckInv, [Next]_vars PROVE AckInv'
  OBVIOUS
<1>t. inbox \in Seq(Request) /\ requests \in Seq(Request) /\ current \in Request
      /\ Len(inbox) \in Nat
  BY LenProperties DEF TypeOK
<1>1. CASE UNCHANGED <<inbox, handled, warden, current>>
  BY <1>1 DEF AckInv
<1>2. ASSUME NEW h \in Handlers, HandlerNext(h) PROVE AckInv'
  <2>1. UNCHANGED <<handled, warden, current>>
        /\ (inbox' = inbox \/ (inbox # <<>> /\ inbox' = Tail(inbox)))
    BY <1>2, HandlerEffects DEF Effects
  <2>2. CASE inbox' = inbox
    BY <1>1, <2>1, <2>2
  <2>3. CASE inbox # <<>> /\ inbox' = Tail(inbox)
    <3>1. \A i \in 1..Len(inbox') : i + 1 \in 1..Len(inbox) /\ inbox'[i] = inbox[i + 1]
      BY <1>t, <2>3, HeadAndTail
    <3> QED
      BY <2>1, <3>1 DEF AckInv
  <2> QED
    BY <2>1, <2>2, <2>3
<1>3. CASE UNCHANGED inbox /\ warden' # "acking" /\ UNCHANGED handled
  BY <1>3 DEF AckInv
<1>4. CASE WardenTakes \/ WardenPauses
  BY <1>4 DEF WardenTakes, WardenPauses, AckInv, substrateVars
<1>5. CASE WardenAcks
  <2>1. CASE inbox' = inbox
    BY <1>5, <2>1 DEF WardenAcks, AckInv
  <2>2. CASE inbox' = Append(inbox, current)
    <3>1. /\ Len(inbox') = Len(inbox) + 1 /\ inbox'[Len(inbox) + 1] = current
          /\ \A i \in 1..Len(inbox) : inbox'[i] = inbox[i]
      BY <1>t, <2>2, AppendFacts
    <3>2. \A k \in 1..Len(inbox') : k \in 1..Len(inbox) \/ k = Len(inbox) + 1
      BY <1>t, <3>1
    <3> QED
      BY <1>5, <3>1, <3>2 DEF WardenAcks, AckInv
  <2> QED
    BY <1>5, <2>1, <2>2 DEF WardenAcks
<1> QED
  BY <1>1, <1>2, <1>3, <1>4, <1>5
  DEF Next, Step, HandlerNext, Deliver, LosePublish, CloseChannel, WardenAnnounces,
      WardenStep, WardenSubscribes, WardenSubscribeFails, WardenPauseFails,
      UserPlaysOrPauses, TakeOrReleaseCustody, vars, stepVars, substrateVars,
      wardenVars

(***************************************************************************)
(* OrderInv: requests reach the warden in the order they were made.        *)
(***************************************************************************)
LEMMA Gens ==
  ASSUME TypeOK
  PROVE  /\ spawned \in Seq(Publishes) /\ requests \in Seq(Request)
         /\ generation \in Nat /\ current.gen \in Nat /\ handled \subseteq Nat
         /\ Len(spawned) \in Nat /\ Len(requests) \in Nat
         /\ \A i \in 1..Len(spawned) :
              spawned[i].request \in Request /\ spawned[i].request.gen \in Nat
         /\ \A i \in 1..Len(requests) : requests[i].gen \in Nat
<1>1. /\ spawned \in Seq(Publishes) /\ requests \in Seq(Request)
      /\ generation \in Nat /\ current \in Request /\ handled \subseteq Nat
  BY DEF TypeOK, Publishes
<1>2. \A i \in 1..Len(spawned) : spawned[i] \in Publishes
  BY <1>1
<1>3. \A i \in 1..Len(requests) : requests[i] \in Request
  BY <1>1
<1> QED
  BY <1>1, <1>2, <1>3, LenProperties DEF Publishes, Request

InOrder ==
  RequestsInOrder /\ SpawnedInOrder /\ HandledInOrder /\ CurrentInOrder

\* Appending to what is under way: a request gets the next generation.
LEMMA AppendOrder ==
  ASSUME TypeOK, InOrder, NEW m \in Publishes, spawned' = Append(spawned, m),
         UNCHANGED <<requests, handled, warden, current>>,
         \/ m.kind = "settings" /\ UNCHANGED generation
         \/ m.request.gen = generation + 1 /\ generation' = generation + 1
  PROVE  InOrder'
<1>g. /\ generation \in Nat /\ Len(spawned) \in Nat /\ current.gen \in Nat
      /\ handled \subseteq Nat
      /\ \A i \in 1..Len(spawned) : spawned[i].request.gen \in Nat
      /\ \A i \in 1..Len(requests) : requests[i].gen \in Nat
  BY Gens
<1>1. /\ Len(spawned') = Len(spawned) + 1 /\ spawned'[Len(spawned) + 1] = m
      /\ \A i \in 1..Len(spawned) : spawned'[i] = spawned[i]
  BY AppendFacts, Gens
<1>2. \A i \in 1..Len(spawned') :
        \/ i \in 1..Len(spawned) /\ spawned'[i] = spawned[i]
        \/ i = Len(spawned) + 1 /\ spawned'[i] = m
  BY <1>1, <1>g
<1>3. \A i, k \in 1..Len(spawned') : i < k => i \in 1..Len(spawned)
  BY <1>1, <1>g
<1>4. m.kind = "envelope" => m.request.gen = generation + 1
  OBVIOUS
<1>5. generation' \in Nat /\ generation <= generation'
      /\ (m.kind = "envelope" => m.request.gen <= generation')
  BY <1>g
<1>6. ASSUME NEW n \in Nat, n <= generation, Later(n)
      PROVE  Later(n)' /\ n <= generation'
  <2>1. n < generation + 1 /\ n <= generation'
    BY <1>5, <1>6, <1>g
  <2> QED
    BY <1>2, <1>4, <1>6, <2>1 DEF Later, Env
<1>7. RequestsInOrder'
  <2> SUFFICES ASSUME NEW i \in 1..Len(requests)
               PROVE  /\ requests[i].gen <= generation'
                      /\ \A k \in 1..Len(requests) : i < k => requests[i].gen < requests[k].gen
                      /\ \A k \in 1..Len(spawned') : spawned'[k].kind = "envelope"
                           => requests[i].gen < spawned'[k].request.gen
    BY DEF RequestsInOrder, Env
  <2>1. requests[i].gen <= generation' /\ requests[i].gen < generation + 1
    BY <1>5, <1>g DEF InOrder, RequestsInOrder
  <2>2. ASSUME NEW k \in 1..Len(spawned'), spawned'[k].kind = "envelope"
        PROVE  requests[i].gen < spawned'[k].request.gen
    <3>1. CASE k \in 1..Len(spawned) /\ spawned'[k] = spawned[k]
      BY <2>2, <3>1 DEF InOrder, RequestsInOrder, Env
    <3>2. CASE spawned'[k] = m
      BY <1>4, <2>1, <2>2, <3>2
    <3> QED
      BY <1>2, <3>1, <3>2
  <2> QED
    BY <2>1, <2>2 DEF InOrder, RequestsInOrder
<1>8. SpawnedInOrder'
  <2> SUFFICES ASSUME NEW i \in 1..Len(spawned'), spawned'[i].kind = "envelope"
               PROVE  /\ spawned'[i].request.gen <= generation'
                      /\ \A k \in 1..Len(spawned') : i < k /\ spawned'[k].kind = "envelope"
                           => spawned'[i].request.gen < spawned'[k].request.gen
    BY DEF SpawnedInOrder, Env
  <2>1. CASE i \in 1..Len(spawned) /\ spawned'[i] = spawned[i]
    <3>1. spawned[i].request.gen <= generation /\ spawned[i].request.gen \in Nat
      BY <1>g, <2>1 DEF InOrder, SpawnedInOrder, Env
    <3>2. spawned[i].request.gen <= generation'
          /\ spawned[i].request.gen < generation + 1
      BY <1>5, <1>g, <3>1
    <3>3. ASSUME NEW k \in 1..Len(spawned'), i < k, spawned'[k].kind = "envelope"
          PROVE  spawned[i].request.gen < spawned'[k].request.gen
      <4>1. CASE k \in 1..Len(spawned) /\ spawned'[k] = spawned[k]
        BY <2>1, <3>3, <4>1 DEF InOrder, SpawnedInOrder, Env
      <4>2. CASE spawned'[k] = m
        BY <1>4, <3>2, <3>3, <4>2
      <4> QED
        BY <1>2, <4>1, <4>2
    <3> QED
      BY <2>1, <3>2, <3>3
  <2>2. CASE i = Len(spawned) + 1 /\ spawned'[i] = m
    <3>1. \A k \in 1..Len(spawned') : ~(i < k)
      BY <1>1, <1>g, <2>2
    <3> QED
      BY <1>5, <2>2, <3>1
  <2> QED
    BY <1>2, <2>1, <2>2
<1>9. HandledInOrder'
  BY <1>6, <1>g DEF InOrder, HandledInOrder
<1>10. CurrentInOrder'
  BY <1>6, <1>g DEF InOrder, CurrentInOrder
<1> QED
  BY <1>7, <1>8, <1>9, <1>10 DEF InOrder

\* A publish that is lost leaves the rest in order.
LEMMA RemoveOrder ==
  ASSUME TypeOK, InOrder, NEW j \in 1..Len(spawned),
         spawned' = RemoveAt(spawned, j),
         UNCHANGED <<generation, requests, handled, warden, current>>
  PROVE  InOrder'
<1>g. spawned \in Seq(Publishes) /\ Len(spawned) \in Nat
  BY Gens
<1> DEFINE f(i) == IF i < j THEN i ELSE i + 1
<1>1. Len(spawned') = Len(spawned) - 1
      /\ \A i \in 1..(Len(spawned) - 1) :
           spawned'[i] = IF i < j THEN spawned[i] ELSE spawned[i + 1]
  BY <1>g, RemoveFacts
<1>2. \A i \in 1..Len(spawned') : f(i) \in 1..Len(spawned)
  BY <1>1, <1>g
<1>3. \A i \in 1..Len(spawned') : spawned'[i] = spawned[f(i)]
  BY <1>1, <1>g
<1>4. \A i, k \in 1..Len(spawned') : i < k => f(i) < f(k)
  BY <1>1, <1>g
<1> HIDE DEF f
<1>5. \A n : Later(n) => Later(n)'
  BY <1>2, <1>3 DEF Later, Env
<1>6. RequestsInOrder'
  <2>1. ASSUME NEW i \in 1..Len(requests), NEW k \in 1..Len(spawned'), Env(k)'
        PROVE  requests[i].gen < spawned'[k].request.gen
    <3>1. f(k) \in 1..Len(spawned) /\ spawned'[k] = spawned[f(k)]
      BY <1>2, <1>3
    <3> QED
      BY <2>1, <3>1 DEF InOrder, RequestsInOrder, Env
  <2> QED
    BY <2>1 DEF InOrder, RequestsInOrder
<1>7. SpawnedInOrder'
  <2>1. ASSUME NEW i \in 1..Len(spawned'), Env(i)'
        PROVE  spawned'[i].request.gen <= generation
    BY <1>2, <1>3, <2>1 DEF InOrder, SpawnedInOrder, Env
  <2>2. ASSUME NEW i \in 1..Len(spawned'), NEW k \in 1..Len(spawned'), i < k, Env(i)', Env(k)'
        PROVE  spawned'[i].request.gen < spawned'[k].request.gen
    <3>1. /\ f(i) \in 1..Len(spawned) /\ f(k) \in 1..Len(spawned) /\ f(i) < f(k)
          /\ spawned'[i] = spawned[f(i)] /\ spawned'[k] = spawned[f(k)]
      BY <1>2, <1>3, <1>4, <2>2
    <3> QED
      BY <2>2, <3>1 DEF InOrder, SpawnedInOrder, Env
  <2> QED
    BY <2>1, <2>2 DEF SpawnedInOrder
<1>8. HandledInOrder' /\ CurrentInOrder'
  BY <1>5 DEF InOrder, HandledInOrder, CurrentInOrder
<1> QED
  BY <1>6, <1>7, <1>8 DEF InOrder

\* The oldest publish is delivered to the warden.
LEMMA DeliverOrder ==
  ASSUME TypeOK, InOrder, 1 \in 1..Len(spawned), Env(1),
         spawned' = RemoveAt(spawned, 1),
         requests' = Append(requests, spawned[1].request),
         UNCHANGED <<generation, handled, warden, current>>
  PROVE  InOrder'
<1> DEFINE r == spawned[1].request
<1>g. /\ spawned \in Seq(Publishes) /\ Len(spawned) \in Nat
      /\ requests \in Seq(Request) /\ Len(requests) \in Nat /\ r \in Request
  BY Gens
<1>1. Len(spawned') = Len(spawned) - 1
      /\ \A i \in 1..(Len(spawned) - 1) :
           spawned'[i] = IF i < 1 THEN spawned[i] ELSE spawned[i + 1]
  BY <1>g, RemoveFacts
<1>2. \A i \in 1..Len(spawned') :
        /\ i + 1 \in 1..Len(spawned) /\ 1 < i + 1 /\ spawned'[i] = spawned[i + 1]
  BY <1>1, <1>g
<1>3. \A i, k \in 1..Len(spawned') : i < k => i + 1 < k + 1
  BY <1>1, <1>g
<1>4. /\ Len(requests') = Len(requests) + 1 /\ requests'[Len(requests) + 1] = r
      /\ \A i \in 1..Len(requests) : requests'[i] = requests[i]
  BY <1>g, AppendFacts
<1>5. \A i \in 1..Len(requests') :
        \/ i \in 1..Len(requests) /\ requests'[i] = requests[i]
        \/ i = Len(requests) + 1 /\ requests'[i] = r
  BY <1>4, <1>g
<1>6. \A i, k \in 1..Len(requests') : i < k => i \in 1..Len(requests)
  BY <1>4, <1>g
<1>7. /\ r.gen <= generation
      /\ \A k \in 1..Len(spawned') : spawned'[k].kind = "envelope"
           => r.gen < spawned'[k].request.gen
  BY <1>2 DEF InOrder, SpawnedInOrder, Env
<1>8. ASSUME NEW n, Later(n) PROVE Later(n)'
  BY <1>2, <1>5, <1>8 DEF Later, Env
<1>9. RequestsInOrder'
  <2> SUFFICES ASSUME NEW i \in 1..Len(requests')
               PROVE  /\ requests'[i].gen <= generation
                      /\ \A k \in 1..Len(requests') : i < k => requests'[i].gen < requests'[k].gen
                      /\ \A k \in 1..Len(spawned') : spawned'[k].kind = "envelope"
                           => requests'[i].gen < spawned'[k].request.gen
    BY DEF RequestsInOrder, Env
  <2>1. CASE i \in 1..Len(requests) /\ requests'[i] = requests[i]
    <3>1. \A k \in 1..Len(spawned) : Env(k) => requests[i].gen < spawned[k].request.gen
      BY <2>1 DEF InOrder, RequestsInOrder
    <3>2. requests[i].gen < r.gen
      BY <3>1
    <3>3. \A k \in 1..Len(requests') : i < k => requests[i].gen < requests'[k].gen
      BY <1>5, <2>1, <3>2 DEF InOrder, RequestsInOrder
    <3> QED
      BY <1>2, <2>1, <3>1, <3>3 DEF InOrder, RequestsInOrder, Env
  <2>2. CASE i = Len(requests) + 1 /\ requests'[i] = r
    <3>1. \A k \in 1..Len(requests') : ~(i < k)
      BY <1>4, <1>g, <2>2
    <3> QED
      BY <1>7, <2>2, <3>1
  <2> QED
    BY <1>5, <2>1, <2>2
<1>10. SpawnedInOrder'
  <2> SUFFICES ASSUME NEW i \in 1..Len(spawned'), spawned'[i].kind = "envelope"
               PROVE  /\ spawned'[i].request.gen <= generation
                      /\ \A k \in 1..Len(spawned') : i < k /\ spawned'[k].kind = "envelope"
                           => spawned'[i].request.gen < spawned'[k].request.gen
    BY DEF SpawnedInOrder, Env
  <2>1. spawned'[i] = spawned[i + 1] /\ i + 1 \in 1..Len(spawned)
    BY <1>2
  <2> QED
    BY <1>2, <1>3, <2>1 DEF InOrder, SpawnedInOrder, Env
<1>11. HandledInOrder' /\ CurrentInOrder'
  BY <1>8 DEF InOrder, HandledInOrder, CurrentInOrder
<1> QED
  BY <1>9, <1>10, <1>11 DEF InOrder

\* The warden takes the oldest request.
LEMMA TakeOrder ==
  ASSUME TypeOK, InOrder, WardenTakes
  PROVE  InOrder'
<1>g. requests \in Seq(Request) /\ Len(requests) \in Nat
  BY Gens
<1>0. /\ requests # <<>> /\ requests' = Tail(requests) /\ current' = Head(requests)
      /\ UNCHANGED <<spawned, generation>> /\ warden = "listening"
      /\ handled' = handled \/ (warden' # "pausing"
                                /\ handled' = handled \cup {current'.gen})
  BY DEF WardenTakes, optionsVars, substrateVars
<1>1. /\ current' = requests[1] /\ 1 \in 1..Len(requests)
      /\ \A i \in 1..Len(requests') :
           i + 1 \in 1..Len(requests) /\ requests'[i] = requests[i + 1]
      /\ Len(requests') = Len(requests) - 1
  BY <1>0, <1>g, HeadAndTail
<1>2. /\ \A i \in 1..Len(requests') : 1 < i + 1
      /\ \A i, k \in 1..Len(requests') : i < k => i + 1 < k + 1
  BY <1>1, <1>g
<1>3. RequestsInOrder'
  BY <1>0, <1>1, <1>2 DEF InOrder, RequestsInOrder, Env
<1>4. SpawnedInOrder'
  BY <1>0 DEF InOrder, SpawnedInOrder, Env
<1>5. ASSUME NEW n, Later(n) PROVE Later(n)' /\ n < current'.gen
  BY <1>0, <1>1, <1>5 DEF Later, Env
<1>6. ASSUME NEW n, n = requests[1].gen PROVE Later(n)' /\ n <= generation
  BY <1>0, <1>1, <1>2, <1>6 DEF InOrder, RequestsInOrder, Later, Env
<1>7. HandledInOrder'
  BY <1>0, <1>1, <1>5, <1>6 DEF InOrder, HandledInOrder
<1>8. CurrentInOrder'
  BY <1>0, <1>1, <1>5, <1>6 DEF InOrder, CurrentInOrder, HandledInOrder
<1> QED
  BY <1>3, <1>4, <1>7, <1>8 DEF InOrder

LEMMA NextOrder == TypeOK /\ OrderInv /\ [Next]_vars => OrderInv'
<1> SUFFICES ASSUME TypeOK, OrderInv, [Next]_vars, "overtake" \notin happened'
             PROVE  InOrder'
  BY DEF OrderInv, InOrder
<1>s. \A e : Spend(e) => e \in happened'
  BY SpendType DEF TypeOK
<1>u. ASSUME UNCHANGED <<spawned, generation, requests, handled>>, InOrder,
             UNCHANGED <<warden, current>> \/ warden' # "pausing"
      PROVE  InOrder'
  BY <1>u DEF InOrder, RequestsInOrder, SpawnedInOrder, HandledInOrder,
              CurrentInOrder, Later, Env
<1>1. ASSUME NEW h \in Handlers, HandlerNext(h) PROVE InOrder'
  <2>e. Effects(h)
    BY <1>1, HandlerEffects
  <2>0. InOrder /\ UNCHANGED <<requests, handled, warden, current>>
    BY <2>e DEF Effects, OrderInv, InOrder
  <2>1. CASE UNCHANGED <<spawned, generation>>
    BY <1>u, <2>0, <2>1
  <2>2. CASE PublishEnvelopeRequested(h)
    BY <2>0, <2>2, RequestFacts, AppendOrder
  <2>3. CASE Saves(h)
    <3> DEFINE m == [kind |-> "settings", setting |-> settings, request |-> NoRequest]
    <3>1. m \in Publishes /\ m.kind = "settings"
      BY TypeParts, IdleType DEF OptionsType, Publishes
    <3>2. spawned' = Append(spawned, m) /\ UNCHANGED generation
      BY <2>3 DEF Saves, PublishSettings
    <3> HIDE DEF m
    <3> QED
      BY <2>0, <3>1, <3>2, AppendOrder
  <2> QED
    BY <2>1, <2>2, <2>3, <2>e DEF Effects
<1>2. CASE Outside
  <2>0. InOrder /\ UNCHANGED generation
    BY <1>2, OutsideHappens, OutsideSteps DEF OrderInv, InOrder
  <2>1. ASSUME NEW i \in 1..Len(spawned), LosePublish(i) PROVE InOrder'
    BY <2>0, <2>1, RemoveOrder DEF LosePublish, wardenVars
  <2>2. ASSUME NEW i \in 1..Len(spawned), Deliver(i) PROVE InOrder'
    <3>1. i = 1 /\ 1 \in 1..Len(spawned)
      BY <1>s, <2>2 DEF Deliver
    <3>2. spawned' = RemoveAt(spawned, 1) /\ UNCHANGED <<handled, warden, current>>
          /\ \/ UNCHANGED requests
             \/ /\ requests' = Append(requests, spawned[1].request)
                /\ spawned[1].kind # "settings"
      BY <2>2, <3>1 DEF Deliver
    <3>3. CASE UNCHANGED requests
      BY <2>0, <3>1, <3>2, <3>3, RemoveOrder
    <3>4. CASE requests' = Append(requests, spawned[1].request)
               /\ spawned[1].kind # "settings"
      <4>1. spawned[1] \in Publishes
        BY <3>1, Gens
      <4>2. Env(1)
        BY <3>4, <4>1 DEF Env, Publishes
      <4> QED
        BY <2>0, <3>1, <3>2, <3>4, <4>2, DeliverOrder
    <3> QED
      BY <3>2, <3>3, <3>4
  <2>3. CASE WardenTakes
    BY <2>0, <2>3, TakeOrder
  <2>4. CASE WardenPauses
    <3>1. /\ UNCHANGED <<spawned, requests>> /\ warden = "pausing"
          /\ warden' # "pausing" /\ handled' = handled \cup {current.gen}
      BY <2>4 DEF WardenPauses, substrateVars
    <3> QED
      BY <2>0, <3>1
      DEF InOrder, RequestsInOrder, SpawnedInOrder, HandledInOrder,
          CurrentInOrder, Later, Env
  <2>5. CASE \/ CloseChannel \/ WardenAnnounces \/ WardenSubscribes
             \/ WardenSubscribeFails \/ WardenPauseFails \/ WardenAcks
             \/ UserPlaysOrPauses \/ TakeOrReleaseCustody
    BY <1>u, <2>0, <2>5
    DEF CloseChannel, WardenAnnounces, WardenSubscribes, WardenSubscribeFails,
        WardenPauseFails, WardenAcks, UserPlaysOrPauses, TakeOrReleaseCustody,
        substrateVars, wardenVars
  <2> QED
    BY <1>2, <2>1, <2>2, <2>3, <2>4, <2>5 DEF Outside, WardenStep
<1>3. CASE UNCHANGED vars
  BY <1>3, <1>u
  DEF vars, stepVars, optionsVars, substrateVars, wardenVars, OrderInv, InOrder
<1> QED
  BY <1>1, <1>2, <1>3 DEF Next, Step, HandlerNext, Outside

(***************************************************************************)
(* The invariant and what follows from it.                                 *)
(***************************************************************************)
LEMMA InitInv == Init => IInv
<1> SUFFICES ASSUME Init PROVE IInv
  OBVIOUS
<1>1. \A h \in Handlers : /\ job[h].phase = "idle" /\ job[h].outcome = "none"
                          /\ job[h].stage = "none"
  BY DEF Init, Idle
<1>2. lock \notin Handlers /\ settings = disk /\ published = disk
  BY NoneAssumption DEF Init
<1>3. Len(spawned) = 0 /\ Len(inbox) = 0 /\ Len(requests) = 0
  BY DEF Init
<1>4. \A i \in 1..0 : FALSE
  OBVIOUS
<1>5. handled = {} /\ warden = "absent"
  BY DEF Init
<1>6. LockInv /\ FreshInv /\ StageInv /\ NoteInv
  BY <1>1, <1>2
  DEF LockInv, FreshInv, Locked, StageInv, NoteInv, Mixing, InTransition, Crossing
<1>7. SnapInv /\ DiskInv /\ TargetInv /\ WantInv
  BY <1>1, <1>2 DEF SnapInv, DiskInv, TargetInv, WantInv
<1>8. PublishInv /\ AckInv
  BY <1>2, <1>3, <1>4, <1>5 DEF PublishInv, AckInv
<1>9. OrderInv
  BY <1>3, <1>4, <1>5
  DEF OrderInv, RequestsInOrder, SpawnedInOrder, HandledInOrder, CurrentInOrder
<1> QED
  BY <1>6, <1>7, <1>8, <1>9, InitType DEF IInv

LEMMA NextInv == IInv /\ [Next]_vars => IInv'
<1> SUFFICES ASSUME IInv, [Next]_vars PROVE IInv'
  OBVIOUS
<1>0. TypeOK /\ OwnerInv /\ HistoryInv
  BY DEF IInv, OwnerInv, HistoryInv
<1>1. TypeOK' /\ LockInv' /\ FreshInv' /\ StageInv' /\ AckInv' /\ OrderInv'
  BY <1>0, NextType, NextOwner, NextAck, NextOrder DEF IInv, OwnerInv
<1>2. NoteInv' /\ SnapInv' /\ DiskInv' /\ TargetInv' /\ WantInv' /\ PublishInv'
  <2>1. ASSUME NEW h \in Handlers, HandlerNext(h), Notes
        PROVE  NoteInv' /\ SnapInv' /\ DiskInv' /\ TargetInv' /\ WantInv' /\ PublishInv'
    BY <1>0, <2>1, StepNotes, HandlerSnap, HandlerDisk, HandlerTarget, HandlerWant,
       HandlerPublish
    DEF IInv
  <2>2. CASE Outside /\ Notes
    <3>1. UNCHANGED <<settings, disk, staging, generation, job>>
          /\ happened \subseteq happened'
      BY <1>0, <2>2, OutsideSteps, OutsideHappens
    <3>2. (~mixed' => ~mixed) /\ (Quiet' => Quiet)
      BY <1>0, <2>2, <3>1, QuietBefore
    <3>3. SnapInv' /\ DiskInv' /\ TargetInv' /\ WantInv'
      BY <3>1, <3>2 DEF IInv, SnapInv, DiskInv, TargetInv, WantInv, Clean
    <3>4. NoteInv'
      <4>1. mixed \in BOOLEAN /\ crossed \in BOOLEAN
        BY <1>0 DEF TypeOK
      <4>2. (Mixing' => mixed') /\ (Crossing' => crossed')
        BY <2>2, <4>1, Zenon DEF Notes
      <4>3. \A h \in Handlers :
              job'[h].phase \in {"locking", "begin"} =>
                h \in raced' \/ settings'.mixer = job'[h].from
        BY <2>2, <3>1 DEF IInv, NoteInv, Notes
      <4> QED
        BY <4>2, <4>3 DEF NoteInv
    <3> QED
      BY <1>0, <2>2, <3>3, <3>4, OutsidePublish DEF IInv
  <2>3. CASE UNCHANGED vars
    <3>1. UNCHANGED <<settings, disk, staging, published, spawned, generation, job,
                      mixed, crossed, raced, happened>>
      BY <2>3 DEF vars, stepVars, optionsVars, fileVars, substrateVars
    <3>2. NoteInv'
      BY <3>1 DEF IInv, NoteInv, Mixing, InTransition, Crossing
    <3>3. SnapInv' /\ DiskInv' /\ TargetInv' /\ WantInv'
      BY <3>1 DEF IInv, SnapInv, DiskInv, TargetInv, WantInv, Clean, Quiet
    <3>4. PublishInv'
      BY <3>1 DEF IInv, PublishInv, Clean, Quiet, LastIs, IsSettings
    <3> QED
      BY <3>2, <3>3, <3>4
  <2> QED
    BY <2>1, <2>2, <2>3 DEF Next, Step, HandlerNext, Outside
<1> QED
  BY <1>1, <1>2 DEF IInv

\* With no handler at work, memory, file and subject agree, whatever gestures
\* failed, timed out or were rolled back (SettingsAgree), but for the crossing
\* snapshots, overlapping setters and failed persists that IdleAgrees excepts.
THEOREM SettingsStayTogether == Spec => []SettingsAgree
<1>1. IInv => SettingsAgree
  <2> SUFFICES ASSUME IInv,
                      \A h \in Handlers : job[h].phase = "idle",
                      ~mixed, ~crossed, "unsaved" \notin happened
               PROVE  /\ settings = disk
                      /\ spawned = <<>> /\ happened \cap {"lost", "overtake"} = {}
                           => published = settings
    BY DEF SettingsAgree, IdleAgrees, IInv
  <2>1. settings = disk
    BY DEF IInv, DiskInv, Clean, Quiet
  <2>2. ASSUME spawned = <<>>, happened \cap {"lost", "overtake"} = {}
        PROVE  published = disk
    <3>1. Len(spawned) = 0
      BY <2>2
    <3>2. ~LastIs(spawned, disk)
      BY <3>1 DEF LastIs
    <3> QED
      BY <2>2, <3>2 DEF IInv, PublishInv, Clean, Quiet
  <2> QED
    BY <2>1, <2>2
<1> QED
  BY <1>1, InitInv, NextInv, PTL DEF Spec

\* A gesture that answers ok, also one with nothing to do, has its mixer type in
\* memory and in the file, but for the overlaps, failed persists and stale
\* sources that OkMeansApplied excepts.
THEOREM OkIsApplied == Spec => OkMeansApplied
<1> DEFINE Applied ==
      \A h \in Handlers :
        /\ lock = h /\ job[h].phase # "idle"
        /\ job'[h].phase = "idle" /\ job'[h].outcome = "ok"
        => \/ mixed \/ crossed \/ "unsaved" \in happened
           \/ h \in raced
           \/ settings.mixer = job[h].to /\ disk.mixer = job[h].to
<1>1. IInv /\ [Next]_vars => [Applied]_vars
  <2> SUFFICES ASSUME IInv, Next, NEW h \in Handlers,
                      lock = h, job[h].phase # "idle",
                      job'[h].phase = "idle", job'[h].outcome = "ok"
               PROVE  \/ mixed \/ crossed \/ "unsaved" \in happened
                      \/ h \in raced
                      \/ settings.mixer = job[h].to /\ disk.mixer = job[h].to
    BY Zenon
  <2>0. TypeOK /\ OwnerInv /\ job[h].phase \in Locked /\ job[h].outcome = "none"
    BY DEF IInv, OwnerInv, LockInv, FreshInv
  <2>t. job \in [Handlers -> JobType]
    BY <2>0, TypeParts DEF OptionsType
  <2>r. \A o \in Outcomes : Return(h, o) => o = "ok"
    BY <2>t, ReturnFacts
  <2>1. HandlerNext(h)
    <3>1. CASE Outside
      BY <2>0, <3>1, OutsideSteps DEF Locked
    <3>2. ASSUME NEW k \in Handlers, HandlerNext(k) PROVE k = h
      BY <2>0, <3>2, HandlerSteps DEF StepOf, Alone
    <3> QED
      BY <3>1, <3>2 DEF Next, Step, HandlerNext, Outside
  <2>2. NoOp(h) \/ job[h].phase \in {"unmute_sub", "unmute_ack"}
    <3>a. Acknowledged(h) => \/ job[h].phase \notin {"mute_sub", "mute_ack"}
      BY <2>t, GoFacts DEF Acknowledged, Phases, Locked
    <3>b. ~RollbackOrFail(h)
      BY <2>r, <2>t, GoFacts DEF RollbackOrFail, Phases, Locked, Outcomes
    <3>g. \A p \in Phases : Go(h, p) => p = "idle"
      BY <2>t, GoFacts
    <3>1. ASSUME NEW to \in Targets, HandleSetMixerType(h, to) PROVE FALSE
      <4>1. h > asked
        BY <2>0, <3>1, AskType DEF HandleSetMixerType, TypeOK
      <4> QED
        BY <2>0, <4>1 DEF OwnerInv, FreshInv, Locked
    <3>2. ASSUME NEW s, NEW r, Write(h, s, r) PROVE FALSE
      <4>1. h > asked
        BY <2>0, <3>2, AskType DEF Write, TypeOK
      <4> QED
        BY <2>0, <4>1 DEF OwnerInv, FreshInv, Locked
    <3>c. ~RenameFails(h) /\ ~PersistFails(h)
      <4>1. (RenameFails(h) \/ PersistFails(h)) => job[h].phase \in Persisting
        BY <2>0 DEF RenameFails, PersistFails, OwnerInv, StageInv
      <4> QED
        BY <2>r, <4>1
        DEF RenameFails, PersistFails, AfterFailedPersist, Persisting, Outcomes
    <3>d. ~Snapshot(h) /\ ~WriteStaging(h)
      <4>1. settings \in Setting
        BY <2>0 DEF TypeOK
      <4> QED
        BY <2>0, <2>t, <4>1, SnapshotFacts, WriteFacts DEF Locked
    <3>3. CASE HandlerFault(h)
      BY <2>r, <3>3, <3>b, <3>c
      DEF HandlerFault, EnsureFails, OverallTimeout, OverallTimeoutLateRename,
          OverallTimeoutUnread, Outcomes
    <3>4. CASE HandlerStep(h)
      <4>1. CASE AcquireLock(h) \/ Begin(h) \/ NoAck(h)
                 \/ PersistAuthority(h) \/ Verify(h) \/ RestorePrior(h)
        BY <2>r, <3>b, <3>g, <4>1
        DEF AcquireLock, Begin, NoAck, PersistAuthority, Verify, RestorePrior,
            Outcomes, Phases, Locked
      <4>2. CASE PublishEnvelopeRequested(h)
        BY <2>t, <4>2 DEF PublishEnvelopeRequested, JobType
      <4>3. CASE SetNewAuthority(h)
        BY <2>0, <4>3, AuthorityFacts
      <4>4. CASE Save(h)
        BY <2>0, <4>4 DEF Save, Locked
      <4>5. CASE EnsureForAck(h)
        BY <3>a, <3>g, <4>5 DEF EnsureForAck, Phases, Locked
      <4>6. CASE ReceiveObservation(h)
        BY <3>a, <4>6 DEF ReceiveObservation, Awaiting
      <4> QED
        BY <3>4, <3>c, <3>d, <4>1, <4>2, <4>3, <4>4, <4>5, <4>6 DEF HandlerStep
    <3> QED
      BY <2>1, <3>1, <3>2, <3>3, <3>4
      DEF HandlerNext, SetMixerDevice, ResetToDefaults
  <2>3. CASE job[h].phase \in {"unmute_sub", "unmute_ack"}
    BY <2>3 DEF IInv, TargetInv
  <2>4. CASE NoOp(h)
    <3> SUFFICES ASSUME Quiet, h \notin raced
                 PROVE  settings.mixer = job[h].to /\ disk.mixer = job[h].to
      BY DEF Quiet
    <3>1. job[h].phase = "begin" /\ job[h].from = job[h].to
      BY <2>4 DEF NoOp
    <3>2. settings.mixer = job[h].to
      BY <3>1 DEF IInv, NoteInv
    <3>3. ~Mixing
      BY DEF IInv, NoteInv, Quiet
    <3>4. Clean /\ \A k \in Handlers : job[k].phase \notin {"persist", "restore"}
      BY <2>0, <3>1, <3>3, SoleWriter DEF Locked
    <3>5. settings = disk
      BY <3>4 DEF IInv, DiskInv
    <3> QED
      BY <3>2, <3>5
  <2> QED
    BY <2>2, <2>3, <2>4
<1> QED
  BY <1>1, InitInv, NextInv, PTL DEF Spec, OkMeansApplied

\* A gesture goes past an acknowledgement only when the warden carried its own
\* request out, and nothing resumes playback between the acknowledged mute and
\* the unmute request (MuteProtects).
THEOREM MuteIsKept == Spec => MuteProtects
<1>1. IInv /\ [Next]_vars => [AcksAreReal /\ NoBlast]_vars
  <2> SUFFICES ASSUME IInv, Next PROVE AcksAreReal /\ NoBlast
    BY Zenon
  <2>t. TypeOK /\ OwnerInv /\ job \in [Handlers -> JobType]
    BY TypeParts DEF IInv, OwnerInv, OptionsType
  <2>1. AcksAreReal
    <3> SUFFICES ASSUME NEW h \in Handlers, Awaiting(h),
                        job'[h].phase # job[h].phase,
                        job'[h].phase = "authority" \/ job'[h].outcome = "ok"
                 PROVE  job[h].want \in handled
      BY DEF AcksAreReal
    <3>0. /\ job[h].phase \in {"mute_ack", "unmute_ack"}
          /\ job[h].outcome = "none" /\ ~(h > asked)
      BY <2>t DEF Awaiting, OwnerInv, FreshInv
    <3>1. HandlerNext(h)
      <4>1. CASE Outside
        BY <2>t, <4>1, OutsideSteps
      <4>2. ASSUME NEW k \in Handlers, HandlerNext(k) PROVE k = h
        BY <2>t, <4>2, HandlerSteps DEF StepOf, Alone
      <4> QED
        BY <4>1, <4>2 DEF Next, Step, HandlerNext, Outside
    <3>2. ~RollbackOrFail(h)
      BY <2>t, <3>0, GoFacts, ReturnFacts DEF RollbackOrFail, Phases, Locked, Outcomes
    <3>3. ReceiveObservation(h)
      <4>2. job[h].stage = "none"
        BY <2>t, <3>0 DEF OwnerInv, StageInv, Persisting
      <4>1. \A r : ~Ask(h, r)
        BY <2>t, <3>0, AskType DEF TypeOK
      <4> QED
        BY <3>0, <3>1, <3>2, <4>1, <4>2
        DEF HandlerNext, HandlerStep, HandlerFault, HandleSetMixerType,
            SetMixerDevice, ResetToDefaults, Write, AcquireLock, NoOp, Begin,
            PublishEnvelopeRequested, EnsureForAck, NoAck, SetNewAuthority,
            PersistAuthority, Verify, RestorePrior, Save, Snapshot, WriteStaging,
            RenameFails, Persisting, EnsureFails, PersistFails, OverallTimeout,
            OverallTimeoutLateRename, OverallTimeoutUnread
    <3>4. inbox # <<>> /\ Head(inbox).gen = job[h].want
      BY <3>3 DEF ReceiveObservation, ObservationMatches
    <3>5. Head(inbox) = inbox[1] /\ 1 \in 1..Len(inbox)
      BY <2>t, <3>4, HeadAndTail DEF TypeOK
    <3> QED
      BY <3>4, <3>5 DEF IInv, AckInv
  <2>2. NoBlast
    <3> SUFFICES ASSUME "overtake" \notin happened, NEW h \in Handlers,
                        Switching(h), job[h].want \in handled,
                        warden = "pausing"
                 PROVE  FALSE
      BY DEF NoBlast
    <3>1. generation \in handled
      BY DEF Switching, IInv, WantInv
    <3>2. current.gen <= generation /\ generation < current.gen
      BY <3>1 DEF IInv, OrderInv, CurrentInOrder
    <3> QED
      BY <2>t, <3>2, Gens
  <2> QED
    BY <2>1, <2>2
<1> QED
  BY <1>1, InitInv, NextInv, PTL DEF Spec, MuteProtects
===============================================================================
