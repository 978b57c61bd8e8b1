-------------------------- MODULE PlaybackTasksProofs --------------------------
(***************************************************************************)
(* Two long-lived tasks of the MPD playback plugin.                        *)
(*                                                                         *)
(* What the settings subscriber has handed over is current, for any set of *)
(* settings, any capacity of the stream and any number of changes.         *)
(*                                                                         *)
(* What the ambient observer publishes of the source belongs to the song   *)
(* it publishes, for any set of songs and any number of changes, restarts, *)
(* closed connections and queries that time out.                           *)
(***************************************************************************)
EXTENDS SettingsChannels, AmbientObserver, SequenceTheorems, TLAPS

Last(s) == s[Len(s)]

\* load subscribes the fragment worker before it spawns the subscriber.
WorkerFirst ==
  /\ load_pc \in {"config", "worker", "subscriber"} => sub_pc = "unspawned"
  /\ load_pc = "subscriber" => mixer_rx
  /\ sub_pc # "unspawned" => mixer_rx

\* The subscriber has a stream from Subscribe on; what is queued in it ends
\* with the state of the subject, so nothing is ever missed.
StreamEndsAtState ==
  /\ streaming <=> sub_pc \in {"read", "seed", "loop"}
  /\ stream # <<>> => streaming /\ Last(stream) = state

\* What is to be seeded is stale only when a newer state is queued behind it.
SeedIsCurrent == sub_pc = "seed" /\ stream = <<>> => read = state

\* Updates come out of the loop only.
UpdatedInLoop == updated => sub_pc = "loop"

IInv ==
  /\ TypeOK
  /\ WorkerFirst
  /\ StreamEndsAtState
  /\ SeedIsCurrent
  /\ UpdatedInLoop
  /\ MixerIsCurrent
  /\ ProtocolIsCurrent

(***************************************************************************)
(* Lemmas about the stream, the channels and the counters.                 *)
(***************************************************************************)
\* Spending an event keeps the counters' type; none goes down.
LEMMA SpendType ==
  ASSUME NEW e \in Events, count \in [Events -> Nat], Spend(e)
  PROVE  /\ count' \in [Events -> Nat]
         /\ count'[e] # 0
         /\ \A f \in Events : count'[f] = 0 => count[f] = 0
  BY DEF Spend

\* A queue that is taken from at the front keeps its last element, unless that
\* is the one taken.
LEMMA TakeFront ==
  ASSUME NEW s \in Seq(Settings), s # <<>>
  PROVE  /\ Head(s) \in Settings /\ Tail(s) \in Seq(Settings)
         /\ Len(Tail(s)) = Len(s) - 1 /\ Len(s) \in Nat \ {0}
         /\ Tail(s) = <<>> => Head(s) = Last(s)
         /\ Tail(s) # <<>> => Last(Tail(s)) = Last(s)
<1>1. /\ Len(s) \in Nat \ {0}
      /\ Head(s) \in Settings /\ Tail(s) \in Seq(Settings)
      /\ Len(Tail(s)) = Len(s) - 1
      /\ \A i \in 1 .. Len(Tail(s)) : Tail(s)[i] = s[i+1]
  BY HeadTailProperties, EmptySeq, LenProperties
<1>2. Tail(s) = <<>> => Head(s) = Last(s)
  <2>1. ASSUME Tail(s) = <<>> PROVE Len(s) = 1
    <3>1. Len(Tail(s)) = 0
      BY <1>1, <2>1, EmptySeq
    <3>2. Len(s) \in Nat /\ Len(Tail(s)) = Len(s) - 1
      BY <1>1
    <3> HIDE <2>1
    <3> QED
      BY <3>1, <3>2
  <2> QED
    BY <2>1 DEF Last
<1>3. Tail(s) # <<>> => Last(Tail(s)) = Last(s)
  <2>1. Tail(s) # <<>> => Len(Tail(s)) \in 1 .. Len(Tail(s))
    BY <1>1, EmptySeq
  <2> QED
    BY <1>1, <2>1 DEF Last
<1> QED
  BY <1>1, <1>2, <1>3

\* An update is queued last, and the queue never grows past its capacity.
LEMMA QueueUpdate ==
  ASSUME NEW s \in Seq(Settings), Len(s) <= Capacity, NEW v \in Settings,
         NEW q, q = Append(IF Len(s) = Capacity THEN Tail(s) ELSE s, v)
  PROVE  q \in Seq(Settings) /\ Len(q) <= Capacity /\ q # <<>> /\ Last(q) = v
<1> DEFINE r == IF Len(s) = Capacity THEN Tail(s) ELSE s
<1>1. r \in Seq(Settings) /\ Len(r) + 1 <= Capacity /\ Len(r) \in Nat
  <2>1. CASE Len(s) = Capacity
    <3>1. s # <<>>
      BY <2>1, EmptySeq, SettingsAssumption
    <3> QED
      BY <2>1, <3>1, TakeFront, SettingsAssumption
  <2>2. CASE Len(s) # Capacity
    <3>1. Len(s) \in Nat
      BY LenProperties
    <3> QED
      BY <2>2, <3>1, SettingsAssumption
  <2> QED
    BY <2>1, <2>2
<1> HIDE DEF r
<1>2. /\ Append(r, v) \in Seq(Settings)
      /\ Len(Append(r, v)) = Len(r) + 1
      /\ Append(r, v)[Len(r) + 1] = v
  BY <1>1, AppendProperties
<1>3. q = Append(r, v)
  BY DEF r
<1>4. q # <<>>
  BY <1>1, <1>2, <1>3, EmptySeq
<1> QED
  BY <1>1, <1>2, <1>3, <1>4 DEF Last

\* What the settings carry.
LEMMA SettingFields ==
  ASSUME NEW s \in Settings
  PROVE  s.mixer \in Mixers /\ s.protocol \in Protocols /\ s.startup \in Startups
  BY DEF Mixers, Protocols, Startups

\* The senders keep the channels' types.
LEMMA ChannelTypes ==
  ASSUME TypeOK, NEW s \in Settings
  PROVE  /\ SendMixer(s.mixer) => mixer' \in Mixers \ {None}
         /\ SendProtocol(s.protocol) => protocol' \in Protocols
         /\ ReplaceProtocol(s.protocol) => protocol' \in Protocols
         /\ SendStartup(s.startup) => startup' \in Startups /\ startup_new' \in BOOLEAN
         /\ ReplaceStartup(s.startup) => startup' \in Startups /\ startup_new' \in BOOLEAN
<1>1. SendMixer(s.mixer) => mixer' \in Mixers \ {None}
  BY SettingFields DEF TypeOK, SendMixer
<1>2. /\ SendProtocol(s.protocol) => protocol' \in Protocols
      /\ ReplaceProtocol(s.protocol) => protocol' \in Protocols
  BY SettingFields DEF TypeOK, SendProtocol, ReplaceProtocol
<1>3. SendStartup(s.startup) => startup' \in Startups /\ startup_new' \in BOOLEAN
  BY SettingFields DEF TypeOK, SendStartup
<1>4. ReplaceStartup(s.startup) => startup' \in Startups /\ startup_new' \in BOOLEAN
  BY SettingFields DEF TypeOK, ReplaceStartup
<1> QED
  BY <1>1, <1>2, <1>3, <1>4

(***************************************************************************)
(* TypeOK.                                                                 *)
(***************************************************************************)
LEMMA InitType == Init => TypeOK
<1> SUFFICES ASSUME Init PROVE TypeOK
  OBVIOUS
<1>1. count \in [Events -> Nat]
  BY DEF Init
<1>2. stream \in Seq(Settings) /\ Len(stream) <= Capacity
  <2>1. stream \in Seq(Settings)
    BY DEF Init
  <2>2. Len(stream) = 0
    BY <2>1, EmptySeq DEF Init
  <2> QED
    BY <2>1, <2>2, SettingsAssumption
<1>3. DefaultMixer \in Mixers \ {None} /\ DefaultProtocol \in Protocols
      /\ None \in Startups
  BY DefaultAssumption DEF Mixers, Protocols, Startups
<1>4. 0 \in 0 .. Polls - 1 /\ 0 \in 0 .. Attempts
  BY ApplierAssumption
<1>5. volume \in MixerVolumes
  BY DEF Init, MixerVolumes
<1> QED
  BY <1>1, <1>2, <1>3, <1>4, <1>5, Zenon DEF Init, TypeOK

LEMMA NextType == TypeOK /\ [Next]_vars => TypeOK'
<1> SUFFICES ASSUME TypeOK, [Next]_vars PROVE TypeOK'
  OBVIOUS
<1>c. ASSUME NEW e \in Events, Spend(e) PROVE count' \in [Events -> Nat]
  BY <1>c, SpendType DEF TypeOK
<1>u. ASSUME UNCHANGED stream
      PROVE  stream' \in Seq(Settings) /\ Len(stream') <= Capacity
  BY <1>u DEF TypeOK
<1> USE DEF subjectVars, mixerVars, protocolVars, startupVars, applierVars
<1>1. CASE Announce
  BY <1>1 DEF Announce, TypeOK
<1>2. CASE OperatorChanges
  <2>1. count' \in [Events -> Nat]
    BY <1>2, <1>c DEF OperatorChanges, Events
  <2>2. state' \in Settings
    BY <1>2 DEF OperatorChanges
  <2>3. stream' \in Seq(Settings) /\ Len(stream') <= Capacity
    <3>1. CASE streaming
      BY <1>2, <2>2, <3>1, QueueUpdate DEF OperatorChanges, TypeOK
    <3>2. CASE ~streaming
      <4>1. stream' = <<>> /\ stream' \in Seq(Settings)
        BY <1>2, <3>2 DEF OperatorChanges
      <4> QED
        BY <4>1, EmptySeq, SettingsAssumption
    <3> QED
      BY <3>1, <3>2
  <2> QED
    BY <1>2, <2>1, <2>2, <2>3 DEF OperatorChanges, TypeOK
<1>3. CASE ApplyConfig
  <2>1. mixer' \in Mixers \ {None}
    BY <1>3 DEF ApplyConfig, SendMixer, TypeOK, Mixers
  <2> QED
    BY <1>3, <2>1 DEF ApplyConfig, TypeOK
<1>4. CASE SpawnWorker
  BY <1>4 DEF SpawnWorker, TypeOK
<1>5. CASE SpawnSubscriber
  BY <1>5 DEF SpawnSubscriber, TypeOK
<1>6. CASE SpawnApplier
  BY <1>6 DEF SpawnApplier, TypeOK
<1>7. CASE Resolve
  <2>1. count' \in [Events -> Nat]
    BY <1>7, <1>c DEF Resolve, Events, TypeOK
  <2> QED
    BY <1>7, <2>1 DEF Resolve, TypeOK
<1>8. CASE Subscribe
  BY <1>8 DEF Subscribe, TypeOK
<1>9. CASE ReadState
  <2>1. count' \in [Events -> Nat]
    BY <1>9, <1>c DEF ReadState, Events, TypeOK
  <2> QED
    BY <1>9, <2>1 DEF ReadState, TypeOK
<1>10. CASE Seed
  <2>1. /\ mixer' \in Mixers \ {None} /\ protocol' \in Protocols
        /\ startup' \in Startups /\ startup_new' \in BOOLEAN
    BY <1>10, ChannelTypes DEF Seed, TypeOK
  <2> QED
    BY <1>10, <2>1 DEF Seed, TypeOK
<1>11. CASE Receive
  <2>1. Head(stream) \in Settings /\ stream' \in Seq(Settings)
        /\ Len(stream') <= Capacity
    BY <1>11, TakeFront, SettingsAssumption DEF Receive, TypeOK
  <2>2. /\ mixer' \in Mixers \ {None} /\ protocol' \in Protocols
        /\ startup' \in Startups /\ startup_new' \in BOOLEAN
    BY <1>11, <2>1, ChannelTypes DEF Receive
  <2> QED
    BY <1>11, <2>1, <2>2 DEF Receive, TypeOK
<1>12. CASE WorkerRenders
  <2>1. volume' \in MixerVolumes /\ moved' \in BOOLEAN
    BY <1>12 DEF WorkerRenders, VolumeMoves, MixerVolumes, TypeOK
  <2> QED
    BY <1>12, <2>1 DEF WorkerRenders, TypeOK
<1>13. CASE TakeCustody
  <2>1. count' \in [Events -> Nat]
    BY <1>13, <1>c DEF TakeCustody, Events
  <2> QED
    BY <1>13, <2>1 DEF TakeCustody, TypeOK
<1>14. CASE ReleaseCustody
  <2>1. session' \in BOOLEAN
    BY <1>14 DEF ReleaseCustody
  <2> QED
    BY <1>14, <2>1 DEF ReleaseCustody, TypeOK
<1>15. CASE Applier
  <2>1. /\ startup_new' \in BOOLEAN /\ moved' \in BOOLEAN
        /\ applier' \in {"apply", "verify", "done", "gave_up"}
        /\ chosen' \in Startups /\ volume' \in MixerVolumes
    BY <1>15 DEF Applier, TakeStartup, SetVolume, Poll, CycleFails, MixerVolumes, TypeOK
  <2>2. polls' \in 0 .. Polls - 1 /\ attempt' \in 0 .. Attempts
    <3>1. polls \in 0 .. Polls - 1 /\ attempt \in 0 .. Attempts
          /\ Polls \in Nat \ {0} /\ Attempts \in Nat \ {0}
      BY ApplierAssumption DEF TypeOK
    <3>2. polls' = polls \/ polls' = 0 \/ (polls' = polls + 1 /\ polls' < Polls)
      BY <1>15 DEF Applier, TakeStartup, SetVolume, Poll, CycleFails
    <3>3. attempt' = attempt \/ attempt' = 1
          \/ (attempt < Attempts /\ attempt' = attempt + 1)
      BY <1>15 DEF Applier, TakeStartup, SetVolume, Poll, CycleFails
    <3> QED
      BY <3>1, <3>2, <3>3
  <2>3. count' \in [Events -> Nat]
    BY <1>15, <1>c DEF Applier, TakeStartup, SetVolume, Poll, Events, TypeOK
  <2> QED
    BY <1>15, <2>1, <2>2, <2>3 DEF Applier, TakeStartup, SetVolume, Poll, TypeOK
<1>16. CASE MpdRestarts \/ Gesture
  <2>1. volume' \in MixerVolumes /\ moved' \in BOOLEAN
    BY <1>16 DEF MpdRestarts, Gesture, VolumeMoves, MixerVolumes, TypeOK
  <2>2. count' \in [Events -> Nat]
    BY <1>16, <1>c DEF MpdRestarts, Gesture, Events
  <2> QED
    BY <1>16, <2>1, <2>2 DEF MpdRestarts, Gesture, TypeOK
<1>17. CASE UNCHANGED vars
  BY <1>17 DEF vars, TypeOK
<1> QED
  BY <1>1, <1>2, <1>3, <1>4, <1>5, <1>6, <1>7, <1>8, <1>9, <1>10, <1>11,
     <1>12, <1>13, <1>14, <1>15, <1>16, <1>17 DEF Next, Load, Subscriber

(***************************************************************************)
(* The rest of the invariant.                                              *)
(***************************************************************************)
LEMMA InitRest == Init => IInv
<1> SUFFICES ASSUME Init PROVE IInv
  OBVIOUS
<1>1. TypeOK
  BY InitType
<1>2. WorkerFirst /\ UpdatedInLoop /\ SeedIsCurrent
  BY DEF Init, WorkerFirst, UpdatedInLoop, SeedIsCurrent
<1>3. StreamEndsAtState
  BY DEF Init, StreamEndsAtState
<1>4. MixerIsCurrent /\ ProtocolIsCurrent
  BY DEF Init, MixerIsCurrent, ProtocolIsCurrent, Settled
<1> QED
  BY <1>1, <1>2, <1>3, <1>4 DEF IInv

LEMMA NextWorkerFirst == IInv /\ [Next]_vars => WorkerFirst'
<1> SUFFICES ASSUME IInv, [Next]_vars PROVE WorkerFirst'
  OBVIOUS
<1> USE DEF IInv, WorkerFirst, subjectVars, mixerVars, protocolVars, startupVars,
           applierVars
<1>1. CASE Announce \/ OperatorChanges
  BY <1>1 DEF Announce, OperatorChanges
<1>2. CASE Load
  BY <1>2 DEF Load, ApplyConfig, SpawnWorker, SpawnSubscriber, SpawnApplier
<1>3. CASE Subscriber
  BY <1>3 DEF Subscriber, Resolve, Subscribe, ReadState, Seed, Receive
<1>4. CASE WorkerRenders \/ TakeCustody \/ ReleaseCustody \/ Applier
           \/ MpdRestarts \/ Gesture
  BY <1>4 DEF WorkerRenders, TakeCustody, ReleaseCustody, Applier, TakeStartup,
              SetVolume, Poll, MpdRestarts, Gesture
<1>5. CASE UNCHANGED vars
  BY <1>5 DEF vars
<1> QED
  BY <1>1, <1>2, <1>3, <1>4, <1>5 DEF Next

\* Steps of load, of the consumers and of the announcement.
LEMMA Bystanders ==
  ASSUME IInv,
         UNCHANGED <<state, stream, streaming, sub_pc, read, updated, protocol>>,
         count'["read_error"] = 0 => count["read_error"] = 0,
         sub_pc = "loop" => UNCHANGED mixer
  PROVE  (StreamEndsAtState /\ SeedIsCurrent /\ UpdatedInLoop
            /\ MixerIsCurrent /\ ProtocolIsCurrent)'
  BY DEF IInv, StreamEndsAtState, SeedIsCurrent, UpdatedInLoop, MixerIsCurrent,
         ProtocolIsCurrent, Settled, Last

LEMMA NextRest ==
  IInv /\ [Next]_vars =>
    (StreamEndsAtState /\ SeedIsCurrent /\ UpdatedInLoop
       /\ MixerIsCurrent /\ ProtocolIsCurrent)'
<1> SUFFICES ASSUME IInv, [Next]_vars
             PROVE  (StreamEndsAtState /\ SeedIsCurrent /\ UpdatedInLoop
                       /\ MixerIsCurrent /\ ProtocolIsCurrent)'
  OBVIOUS
<1>t. TypeOK
  BY DEF IInv
<1>c. ASSUME NEW e \in Events, Spend(e)
      PROVE  count'[e] # 0 /\ \A f \in Events : count'[f] = 0 => count[f] = 0
  BY <1>c, <1>t, SpendType DEF TypeOK
<1> USE DEF subjectVars, mixerVars, protocolVars, startupVars, applierVars
<1>1. CASE Announce \/ ApplyConfig \/ SpawnWorker \/ SpawnApplier
           \/ WorkerRenders \/ ReleaseCustody \/ UNCHANGED vars
  BY <1>1, Bystanders DEF Announce, ApplyConfig, SpawnWorker, SpawnApplier,
       WorkerRenders, ReleaseCustody, vars, IInv, WorkerFirst
<1>2. CASE OperatorChanges
  <2>1. streaming => stream' # <<>> /\ Last(stream') = state'
    BY <1>2, <1>t, QueueUpdate DEF OperatorChanges, TypeOK
  <2>2. ~streaming => stream' = <<>>
    BY <1>2 DEF OperatorChanges
  <2> QED
    BY <1>2, <2>1, <2>2 DEF OperatorChanges, IInv, StreamEndsAtState,
         SeedIsCurrent, UpdatedInLoop, MixerIsCurrent, ProtocolIsCurrent, Settled
<1>3. CASE SpawnSubscriber \/ Resolve \/ Subscribe
  <2>1. /\ UNCHANGED <<state, stream, read, updated>>
        /\ ~updated
        /\ sub_pc' \in {"resolve", "subscribe", "read", "gone"}
        /\ sub_pc \notin {"read", "seed", "loop"}
        /\ streaming' = (sub_pc' = "read")
    BY <1>3 DEF SpawnSubscriber, Resolve, Subscribe, IInv, WorkerFirst,
                UpdatedInLoop, StreamEndsAtState, TypeOK
  <2> QED
    BY <2>1 DEF IInv, StreamEndsAtState, SeedIsCurrent, UpdatedInLoop,
                MixerIsCurrent, ProtocolIsCurrent, Settled
<1>4. CASE ReadState
  <2>1. sub_pc' = "loop" => count'["read_error"] # 0
    BY <1>4, <1>c DEF ReadState, Events
  <2> QED
    BY <1>4, <2>1 DEF ReadState, IInv, StreamEndsAtState, SeedIsCurrent,
         UpdatedInLoop, MixerIsCurrent, ProtocolIsCurrent, Settled, Last
<1>5. CASE Seed
  BY <1>5 DEF Seed, SendMixer, IInv, WorkerFirst, StreamEndsAtState,
       SeedIsCurrent, UpdatedInLoop, MixerIsCurrent, ProtocolIsCurrent,
       Settled, Last
<1>6. CASE Receive
  <2>1. /\ stream' = <<>> => Head(stream) = state
        /\ stream' # <<>> => Last(stream') = state
    BY <1>6, <1>t, TakeFront DEF Receive, TypeOK, IInv, StreamEndsAtState
  <2> QED
    BY <1>6, <2>1 DEF Receive, SendMixer, ReplaceProtocol, IInv, WorkerFirst,
         StreamEndsAtState, SeedIsCurrent, UpdatedInLoop, MixerIsCurrent,
         ProtocolIsCurrent, Settled
<1>7. CASE TakeCustody \/ Applier \/ MpdRestarts \/ Gesture
  <2>1. UNCHANGED count \/ \E e \in Events : Spend(e)
    BY <1>7 DEF TakeCustody, Applier, TakeStartup, SetVolume, Poll, MpdRestarts,
                Gesture, Events
  <2>2. count'["read_error"] = 0 => count["read_error"] = 0
    BY <2>1, <1>c DEF Events
  <2> QED
    BY <1>7, <2>2, Bystanders DEF TakeCustody, Applier, TakeStartup, SetVolume,
         Poll, MpdRestarts, Gesture
<1> QED
  BY <1>1, <1>2, <1>3, <1>4, <1>5, <1>6, <1>7 DEF Next, Load, Subscriber

\* ChannelsAreCurrent always holds: no change of the settings is lost between
\* the subject and the channels, however subscribing, reading, seeding and
\* changing interleave and however far the stream lags.
THEOREM ChannelsCorrect == Spec => []ChannelsAreCurrent
<1>1. IInv /\ [Next]_vars => IInv'
  BY NextType, NextWorkerFirst, NextRest DEF IInv
<1>2. IInv => ChannelsAreCurrent
  BY DEF IInv, ChannelsAreCurrent
<1> QED
  BY InitRest, <1>1, <1>2, PTL DEF Spec

------------------------------------------------------------------------------
(* The ambient observer.                                                   *)

\* The probe's answer is of the file it was last asked about.
SourceIsProbed == source \in {last_probed_file, NoSong}

\* The cache is one step ahead of the subject, between the probe and the
\* publication that follows it, and at the published song otherwise.
CacheFollowsSubject ==
  /\ pc = "publish" => song = last_probed_file
  /\ pc # "publish" => now_playing.song = last_probed_file

ObserverIInv == ObserverTypeOK /\ SourceIsProbed /\ CacheFollowsSubject

(***************************************************************************)
(* Lemmas about the stream and the counters.                               *)
(***************************************************************************)
\* Spending an event keeps the counters' type; none goes down.
LEMMA ObserverSpends ==
  ASSUME NEW e \in ObserverEvents, spent \in [ObserverEvents -> Nat], ObserverSpend(e)
  PROVE  /\ spent' \in [ObserverEvents -> Nat]
         /\ spent'[e] = spent[e] + 1
         /\ \A f \in ObserverEvents : spent[f] <= spent'[f]
  BY DEF ObserverSpend

\* A query finds a reply in the stream, and leaves as many as it found.
LEMMA StreamType ==
  ASSUME NEW tag \in {"status", "song"}, late \in Seq(Replies), mpd \in Players
  PROVE  /\ Stream(tag) \in Seq(Replies)
         /\ Len(Stream(tag)) = Len(late) + 1
         /\ Head(Stream(tag)) \in Replies
         /\ Tail(Stream(tag)) \in Seq(Replies)
         /\ Len(Tail(Stream(tag))) = Len(late)
<1>1. Reply(tag) \in Replies
  BY DEF Reply, Replies
<1>2. /\ Stream(tag) \in Seq(Replies)
      /\ Len(Stream(tag)) = Len(late) + 1
  BY <1>1, AppendProperties DEF Stream
<1>3. Stream(tag) # <<>>
  BY <1>2, EmptySeq, LenProperties
<1>4. /\ Head(Stream(tag)) \in Replies
      /\ Tail(Stream(tag)) \in Seq(Replies)
      /\ Len(Tail(Stream(tag))) = Len(Stream(tag)) - 1
  BY <1>2, <1>3, HeadTailProperties
<1> QED
  BY <1>2, <1>4, LenProperties

\* A stream that was dropped owes nothing.
LEMMA EmptyStream ==
  ASSUME NEW s, s = <<>>, NEW n \in Nat
  PROVE  s \in Seq(Replies) /\ Len(s) <= n
<1>1. s \in Seq(Replies)
  OBVIOUS
<1>2. Len(s) = 0
  BY <1>1, EmptySeq
<1> QED
  BY <1>1, <1>2

\* What a reply carries.
LEMMA ReplyType ==
  ASSUME NEW r \in Replies
  PROVE  /\ r.tag \in {"status", "song"}
         /\ r.body \in Players
         /\ r.body.song \in Files
  BY DEF Replies, Players

(***************************************************************************)
(* TypeOK is inductive by itself.                                          *)
(***************************************************************************)
LEMMA ObserverInitType == ObserverInit => ObserverTypeOK
<1> SUFFICES ASSUME ObserverInit PROVE ObserverTypeOK
  OBVIOUS
<1>1. spent \in [ObserverEvents -> Nat] /\ spent["timeout"] = 0
  BY DEF ObserverInit, ObserverEvents
<1>2. now_playing \in Players
  BY DEF ObserverInit, Players, Files
<1>3. late \in Seq(Replies) /\ Len(late) <= spent["timeout"]
  BY <1>1, EmptyStream DEF ObserverInit
<1> QED
  BY <1>1, <1>2, <1>3, Zenon DEF ObserverInit, ObserverTypeOK, Files

LEMMA ObserverNextType == ObserverTypeOK /\ [ObserverNext]_observerVars => ObserverTypeOK'
<1> SUFFICES ASSUME ObserverTypeOK, [ObserverNext]_observerVars PROVE ObserverTypeOK'
  OBVIOUS
<1> USE DEF ObserverTypeOK
<1>c. ASSUME NEW e \in ObserverEvents, ObserverSpend(e)
      PROVE  spent' \in [ObserverEvents -> Nat] /\ spent["timeout"] <= spent'["timeout"]
  BY <1>c, ObserverSpends DEF ObserverEvents
<1>n. Len(late) \in Nat /\ spent["timeout"] \in Nat
  BY LenProperties DEF ObserverEvents
<1>1. CASE MpdChanges
  <2>1. spent' \in [ObserverEvents -> Nat] /\ spent["timeout"] <= spent'["timeout"]
    BY <1>1, <1>c DEF MpdChanges, ObserverEvents
  <2>2. spent'["timeout"] \in Nat
    BY <2>1 DEF ObserverEvents
  <2> QED
    BY <1>1, <1>n, <2>1, <2>2 DEF MpdChanges, cmdVars, readVars, probeVars, stopVars
<1>2. CASE MpdStops
  <2>1. spent' \in [ObserverEvents -> Nat] /\ spent'["timeout"] \in Nat
    BY <1>2, <1>c DEF MpdStops, ObserverEvents
  <2>2. late' \in Seq(Replies) /\ Len(late') <= spent'["timeout"]
    BY <1>2, <2>1, EmptyStream DEF MpdStops
  <2> QED
    BY <1>2, <2>1, <2>2 DEF MpdStops, readVars, probeVars, stopVars
<1>3. CASE MpdStarts
  BY <1>3 DEF MpdStarts, cmdVars, idleVars, readVars, probeVars, stopVars
<1>4. CASE MpdClosesQuiet
  <2>1. spent' \in [ObserverEvents -> Nat] /\ spent'["timeout"] \in Nat
    BY <1>4, <1>c DEF MpdClosesQuiet, ObserverEvents
  <2>2. late' \in Seq(Replies) /\ Len(late') <= spent'["timeout"]
    BY <1>4, <2>1, EmptyStream DEF MpdClosesQuiet
  <2> QED
    BY <1>4, <2>1, <2>2 DEF MpdClosesQuiet, mpdVars, idleVars, readVars,
                                   probeVars, stopVars
<1>5. CASE Stop
  <2>1. spent' \in [ObserverEvents -> Nat] /\ spent["timeout"] <= spent'["timeout"]
    BY <1>5, <1>c DEF Stop, ObserverEvents
  <2>2. spent'["timeout"] \in Nat
    BY <2>1 DEF ObserverEvents
  <2> QED
    BY <1>5, <1>n, <2>1, <2>2 DEF Stop, mpdVars, cmdVars, idleVars, readVars, probeVars
<1>6. CASE CheckShutdown
  <2>1. permit' \in BOOLEAN
    BY <1>6, Zenon DEF CheckShutdown
  <2> QED
    BY <1>6, <2>1 DEF CheckShutdown, mpdVars, cmdVars, idleVars, readVars,
                      probeVars
<1>7. CASE OpenCommand
  <2>1. late' \in Seq(Replies) /\ Len(late') <= spent'["timeout"]
    BY <1>7, <1>n, EmptyStream DEF OpenCommand
  <2> QED
    BY <1>7, <2>1 DEF OpenCommand, mpdVars, idleVars, readVars,
                                 probeVars, stopVars
<1>8. CASE OpenIdle
  BY <1>8 DEF OpenIdle, mpdVars, readVars, probeVars, stopVars
<1>9. CASE Backoff
  <2>1. permit' \in BOOLEAN
    BY <1>9, Zenon DEF Backoff
  <2> QED
    BY <1>9, <2>1 DEF Backoff, mpdVars, cmdVars, idleVars, readVars, probeVars
<1>10. CASE QueryStatus
  <2>1. late' \in Seq(Replies) /\ Len(late') = Len(late)
    BY <1>10, StreamType DEF QueryStatus, ReadStream
  <2>2. status' \in Players /\ pc' \in {"song", "idle"}
    BY <1>10, StreamType, ReplyType DEF QueryStatus
  <2> QED
    BY <1>10, <2>1, <2>2 DEF QueryStatus, mpdVars, idleVars, probeVars, stopVars
<1>11. CASE QuerySong
  <2>1. late' \in Seq(Replies) /\ Len(late') = Len(late)
    BY <1>11, StreamType DEF QuerySong, ReadStream
  <2>2. song' \in Files
    BY <1>11, StreamType, ReplyType DEF QuerySong, Files
  <2>3. last_probed_file' \in Files /\ source' \in Files
    BY <1>11, <2>2 DEF QuerySong, Probe, probeVars, Files
  <2> QED
    BY <1>11, <2>1, <2>2, <2>3 DEF QuerySong, mpdVars, idleVars, stopVars
<1>12. CASE QueryFails
  BY <1>12 DEF QueryFails, mpdVars, cmdVars, idleVars, readVars, probeVars,
               stopVars
<1>13. CASE QueryTimesOut
  <2>1. late' \in Seq(Replies) /\ Len(late') = Len(late) + 1
    BY <1>13, StreamType DEF QueryTimesOut
  <2>2. spent' \in [ObserverEvents -> Nat] /\ spent'["timeout"] = spent["timeout"] + 1
    BY <1>13, ObserverSpends DEF QueryTimesOut, ObserverEvents
  <2> QED
    BY <1>13, <1>n, <2>1, <2>2 DEF QueryTimesOut, mpdVars, idleVars, readVars,
                                   probeVars, stopVars
<1>14. CASE Publish
  <2>1. now_playing' \in Players
    BY <1>14 DEF Publish, Players
  <2> QED
    BY <1>14, <2>1 DEF Publish, mpdVars, cmdVars, idleVars, readVars,
                       probeVars, stopVars
<1>15. CASE IdleWakes
  BY <1>15 DEF IdleWakes, mpdVars, cmdVars, readVars, probeVars, stopVars
<1>16. CASE IdleFails
  <2>1. late' \in Seq(Replies) /\ Len(late') <= spent'["timeout"]
    BY <1>16, <1>n, EmptyStream DEF IdleFails, ReturnsToRun
  <2> QED
    BY <1>16, <2>1 DEF IdleFails, ReturnsToRun, mpdVars, readVars,
                                  probeVars
<1>17. CASE IdleShutdown
  <2>1. late' \in Seq(Replies) /\ Len(late') <= spent'["timeout"]
    BY <1>17, <1>n, EmptyStream DEF IdleShutdown, ReturnsToRun
  <2> QED
    BY <1>17, <2>1 DEF IdleShutdown, ReturnsToRun, mpdVars,
                                  readVars, probeVars
<1>18. CASE UNCHANGED observerVars
  BY <1>18 DEF observerVars, mpdVars, cmdVars, idleVars, readVars, probeVars, stopVars
<1> QED
  BY <1>1, <1>2, <1>3, <1>4, <1>5, <1>6, <1>7, <1>8, <1>9, <1>10, <1>11,
     <1>12, <1>13, <1>14, <1>15, <1>16, <1>17, <1>18
  DEF ObserverNext, Observer, Environment

(***************************************************************************)
(* The probe cache and the subject.                                        *)
(***************************************************************************)
LEMMA InitProbe == ObserverInit => SourceIsProbed /\ CacheFollowsSubject
  BY DEF ObserverInit, SourceIsProbed, CacheFollowsSubject

\* Every other step leaves the query, the cache and the subject alone, and
\* neither comes from nor goes to the publication.
LEMMA ProbeUntouched ==
  ASSUME ObserverIInv, UNCHANGED <<probeVars, now_playing>>,
         pc # "publish", pc' # "publish"
  PROVE  (SourceIsProbed /\ CacheFollowsSubject)'
  BY DEF ObserverIInv, SourceIsProbed, CacheFollowsSubject, probeVars

LEMMA PublishPending ==
  ASSUME ObserverIInv, UNCHANGED <<probeVars, readVars, now_playing, pc>>
  PROVE  (SourceIsProbed /\ CacheFollowsSubject)'
  BY DEF ObserverIInv, SourceIsProbed, CacheFollowsSubject, probeVars, readVars

LEMMA NextProbe ==
  ObserverIInv /\ [ObserverNext]_observerVars => (SourceIsProbed /\ CacheFollowsSubject)'
<1> SUFFICES ASSUME ObserverIInv, [ObserverNext]_observerVars
             PROVE  (SourceIsProbed /\ CacheFollowsSubject)'
  OBVIOUS
<1>1. CASE MpdChanges \/ MpdStops \/ MpdStarts \/ MpdClosesQuiet \/ Stop
  BY <1>1, PublishPending
  DEF MpdChanges, MpdStops, MpdStarts, MpdClosesQuiet, Stop
<1>2. CASE CheckShutdown \/ OpenCommand \/ OpenIdle \/ Backoff
  BY <1>2, ProbeUntouched DEF CheckShutdown, OpenCommand, OpenIdle, Backoff
<1>3. CASE QueryStatus \/ QueryFails \/ QueryTimesOut
  BY <1>3, ProbeUntouched DEF QueryStatus, QueryFails, QueryTimesOut
<1>4. CASE QuerySong
  <2>1. PICK file : song' = file /\ Probe(file)
    BY <1>4 DEF QuerySong
  <2>2. last_probed_file' = file
    BY <2>1 DEF Probe, probeVars
  <2>3. source' \in {file, NoSong}
    BY <2>1 DEF Probe, probeVars, ObserverIInv, SourceIsProbed
  <2> QED
    BY <1>4, <2>1, <2>2, <2>3 DEF QuerySong, SourceIsProbed, CacheFollowsSubject
<1>5. CASE Publish
  BY <1>5 DEF Publish, ObserverIInv, SourceIsProbed, CacheFollowsSubject, probeVars
<1>6. CASE IdleWakes \/ IdleFails \/ IdleShutdown
  BY <1>6, ProbeUntouched DEF IdleWakes, IdleFails, IdleShutdown, ReturnsToRun
<1>7. CASE UNCHANGED observerVars
  BY <1>7, PublishPending DEF observerVars
<1> QED
  BY <1>1, <1>2, <1>3, <1>4, <1>5, <1>6, <1>7 DEF ObserverNext, Observer, Environment

\* ObserverInv always holds: a source_format is never that of an earlier song,
\* whatever replies of ambient_observer.rs's queries come late or not at all.
THEOREM ObserverCorrect == ObserverSpec => []ObserverInv
<1>1. ObserverInit => ObserverIInv
  BY ObserverInitType, InitProbe DEF ObserverIInv
<1>2. ObserverIInv /\ [ObserverNext]_observerVars => ObserverIInv'
  BY ObserverNextType, NextProbe DEF ObserverIInv
<1>3. ObserverIInv => ObserverInv
  BY DEF ObserverIInv, ObserverInv, SourceIsProbed, CacheFollowsSubject,
         SourceIsNeverStale
<1> QED
  BY <1>1, <1>2, <1>3, PTL DEF ObserverSpec
===============================================================================
