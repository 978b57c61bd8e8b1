--------------------------- MODULE MixerTransition ---------------------------
(***************************************************************************)
(* The mixer-type gesture of the playback options plugin                   *)
(* (playback.options/src/lib.rs) and the warden that mutes the chain for   *)
(* it (playback.mpd/src/envelope_subscriber.rs).                           *)
(*                                                                         *)
(* A gesture takes the transition lock, asks the warden to mute, waits for *)
(* the acknowledgement of that very request (its generation), stores the   *)
(* new mixer type, asks to unmute and waits again.  Requests and settings  *)
(* go out in spawned tasks, which the orchestrator does not wait for; the  *)
(* warden answers on a subject whose stream is subscribed once and kept.   *)
(* The other setters of the plugin run concurrently and take no lock.      *)
(*                                                                         *)
(* A setting is a mixer type and `device`, whether the mixer coordinates   *)
(* are set.  persist_settings snapshots the memory, writes the snapshot to *)
(* one staging file, which all handlers share, and renames that over       *)
(* state.toml; another handler may do the same in between.                 *)
(***************************************************************************)
EXTENDS Naturals, Sequences, FiniteSets

CONSTANTS
  None,           \* no handler
  DefaultMixer,   \* MixerType of Settings::default()
  Stored,         \* what state.toml may hold when the plugin loads
  Custodies,      \* whether a custody is active then
  Targets,        \* mixer types the operator asks for
  MaxRequests,    \* how many requests the operator makes
  MaxTrouble,     \* how many other events happen, faults included
  Allowed,        \* the events that may happen
  NoFile          \* there is no staging file

MixerTypes == {"none", "software", "hardware"}

\* gesture, set, reset: requests of the operator.  user: play or pause.
\* custody: a custody is taken or released.  diskfull: a persist fails and the
\* handler puts the old settings back; unsaved: one fails, or completes late,
\* or its file cannot be read again, and memory and file are left apart.
\* budget: the overall timeout of a gesture.
\* resolve: the subject service fails.  overtake: a spawned publish is
\* delivered before an older one.  lost: a publish fails, or the warden's
\* stream lags and drops it.  refuse: Pause fails.  close: the observed stream
\* closes.  deaf: the warden's subscribe fails.
Events == {"gesture", "set", "reset", "user", "custody", "diskfull", "unsaved",
           "budget", "resolve", "overtake", "lost", "refuse", "close",
           "deaf"}

Requests == {"gesture", "set", "reset"}

ASSUME TargetsAssumption ==
  DefaultMixer \in MixerTypes /\ Targets \subseteq MixerTypes
ASSUME StoredAssumption ==
  Stored \subseteq [mixer : MixerTypes, device : BOOLEAN]
ASSUME CustodiesAssumption == Custodies \subseteq BOOLEAN
ASSUME BoundsAssumption == MaxRequests \in Nat /\ MaxTrouble \in Nat
ASSUME AllowedAssumption == Allowed \subseteq Events

\* Each request is dispatched to a handle_request of its own.
Handlers == 1..MaxRequests

ASSUME NoneAssumption == None \notin Handlers

VARIABLES
  settings, disk, published,  \* in memory, state.toml, the settings subject
  staging,                    \* the staging file of state.toml
  lock, generation,           \* transition_lock, envelope_generation
  job,                        \* what each handler is doing
  channel, inbox,             \* the cached envelope_observed stream
  spawned,                    \* publishes under way, oldest first
  warden, requests, current,  \* the warden, its stream, the request in hand
  custody, playing,           \* a supervisor is active, audio flows
  handled,                    \* history: generations the warden acted on
  mixed, crossed, raced,      \* history, see Notes
  asked, happened             \* requests made, other events that happened

fileVars == <<disk, staging>>
optionsVars == <<settings, fileVars, lock, generation, job>>
substrateVars == <<published, channel, inbox, spawned>>
wardenVars == <<warden, requests, current, handled>>
playerVars == <<custody, playing>>
stepVars == <<optionsVars, substrateVars, wardenVars, playerVars, asked, happened>>
vars == <<stepVars, mixed, crossed, raced>>

Setting == [mixer : MixerTypes, device : BOOLEAN]
ASSUME NoFileAssumption == NoFile \notin Setting
Request == [gen : Nat, muted : BOOLEAN]
NoRequest == [gen |-> 0, muted |-> FALSE]
Default == [mixer |-> DefaultMixer, device |-> FALSE]

Locked == {"begin", "mute", "mute_sub", "mute_ack", "authority", "persist",
           "verify", "unmute", "unmute_sub", "unmute_ack", "restore"}
Phases == Locked \cup {"idle", "locking", "save"}
Persisting == {"persist", "restore", "save"}
Stages == {"none", "write", "rename"}   \* of persist_settings
Outcomes == {"none", "ok", "refused", "rolled_back", "failed", "error"}

Idle == [phase |-> "idle", stage |-> "none", from |-> DefaultMixer,
         to |-> DefaultMixer, want |-> 0, prior |-> Default, snap |-> Default,
         outcome |-> "none"]

\* An event of the environment, within the bounds.
Spend(e) ==
  /\ e \in Allowed \ happened /\ Cardinality(happened) < MaxTrouble
  /\ happened' = happened \cup {e} /\ UNCHANGED asked

\* The next request arrives, at handler h.
Ask(h, r) ==
  /\ r \in Allowed /\ h = asked + 1
  /\ asked' = h /\ UNCHANGED happened

Go(h, p) == job' = [job EXCEPT ![h].phase = p, ![h].stage = "none"]

\* The handler returns `o`; a gesture drops its lock.
Return(h, o) ==
  /\ job' = [job EXCEPT ![h] = [Idle EXCEPT !.outcome = o]]
  /\ lock' = IF lock = h THEN None ELSE lock

InTransition == \E h \in Handlers : job[h].phase \in Locked

\* Two writers at once: a setter beside a gesture, and two snapshots of the
\* memory on their way to the one staging file.
Mixing == InTransition /\ \E h \in Handlers : job[h].phase = "save"
Crossing ==
  \E h, k \in Handlers : h # k /\ job[h].stage # "none" /\ job[k].stage # "none"

\* The history of every step: whether writers ever met, and which gestures that
\* have not begun saw the mixer change after they read it.
Notes ==
  /\ mixed' = (mixed \/ Mixing')
  /\ crossed' = (crossed \/ Crossing')
  /\ raced' = {h \in Handlers :
                /\ job[h].phase \in {"locking", "begin"}
                /\ job'[h].phase \in {"locking", "begin"}
                /\ h \in raced \/ settings'.mixer # settings.mixer}

------------------------------------------------------------------------------
(* The gesture.                                                            *)

\* `from` and the coordinates are read before the lock is taken.
HandleSetMixerType(h, to) ==
  /\ Ask(h, "gesture")
  /\ IF to = "hardware" /\ ~settings.device
       THEN job' = [job EXCEPT ![h].outcome = "refused"]
       ELSE job' = [job EXCEPT ![h] =
                      [Idle EXCEPT !.phase = "locking", !.to = to,
                                   !.from = settings.mixer]]
  /\ UNCHANGED <<settings, fileVars, lock, generation, substrateVars,
                 wardenVars, playerVars>>

\* Mutant: the lock is not taken.
AcquireLockUnguarded(h) ==
  /\ job[h].phase = "locking"
  /\ lock' = h
  /\ Go(h, "begin")
  /\ UNCHANGED <<settings, fileVars, generation, substrateVars, wardenVars,
                 playerVars, asked, happened>>

AcquireLock(h) ==
  /\ job[h].phase = "locking" /\ lock = None
  /\ lock' = h
  /\ Go(h, "begin")
  /\ UNCHANGED <<settings, fileVars, generation, substrateVars, wardenVars,
                 playerVars, asked, happened>>

\* The warden has announced envelope_observed.
Announced == warden # "absent"

\* ensure_envelope_observed_channel: the channel is cached, or subscribed now,
\* or absent because nobody announced it.
Ensure == channel' = IF channel = "none" /\ Announced THEN "open" ELSE channel

\* Mutant: the early return keeps the lock.
NoOpKeepsLock(h) ==
  /\ job[h].phase = "begin" /\ job[h].from = job[h].to
  /\ job' = [job EXCEPT ![h] = [Idle EXCEPT !.outcome = "ok"]]
  /\ UNCHANGED <<settings, fileVars, lock, generation, substrateVars,
                 wardenVars, playerVars, asked, happened>>

\* The source read before the lock equals the target: answered ok as well.
NoOp(h) ==
  /\ job[h].phase = "begin" /\ job[h].from = job[h].to
  /\ Return(h, "ok")
  /\ UNCHANGED <<settings, fileVars, generation, substrateVars, wardenVars,
                 playerVars, asked, happened>>

\* Steps 1 and 1.5: `started` is emitted and the channel ensured.
Begin(h) ==
  /\ job[h].phase = "begin" /\ job[h].from # job[h].to
  /\ Ensure
  /\ Go(h, "mute")
  /\ UNCHANGED <<settings, fileVars, lock, generation, published, inbox,
                 spawned, wardenVars, playerVars, asked, happened>>

\* Steps 2 and 7: the request goes out in a spawned task.
PublishEnvelopeRequested(h) ==
  /\ job[h].phase \in {"mute", "unmute"}
  /\ generation' = generation + 1
  /\ spawned' = Append(spawned, [kind |-> "envelope", setting |-> Default,
                                 request |-> [gen |-> generation',
                                              muted |-> job[h].phase = "mute"]])
  /\ job' = [job EXCEPT ![h].want = generation',
                        ![h].phase = IF @ = "mute" THEN "mute_sub"
                                                   ELSE "unmute_sub"]
  /\ UNCHANGED <<settings, fileVars, lock, published, channel, inbox,
                 wardenVars, playerVars, asked, happened>>

\* What follows the acknowledgement of each request.
Acknowledged(h) ==
  IF job[h].phase \in {"mute_sub", "mute_ack"}
    THEN Go(h, "authority") /\ UNCHANGED lock
    ELSE Return(h, "ok")

\* await_envelope_ack begins by ensuring the channel; without a warden the
\* envelope is advisory and the step succeeds.
EnsureForAck(h) ==
  /\ job[h].phase \in {"mute_sub", "unmute_sub"}
  /\ Ensure
  /\ IF channel' = "none" THEN Acknowledged(h)
     ELSE /\ Go(h, IF job[h].phase = "mute_sub" THEN "mute_ack"
                                                ELSE "unmute_ack")
          /\ UNCHANGED lock
  /\ UNCHANGED <<settings, fileVars, generation, published, inbox, spawned,
                 wardenVars, playerVars, asked, happened>>

\* Failure of the gesture: before the new authority is stored there is nothing
\* to undo; after it the prior settings are put back and saved again.
RollbackOrFail(h) ==
  IF job[h].phase \in {"verify", "unmute_sub", "unmute_ack"}
    THEN /\ settings' = job[h].prior
         /\ Go(h, "restore")
         /\ UNCHANGED lock
    ELSE Return(h, "rolled_back") /\ UNCHANGED settings

\* resolve_addressing or subscribe_subject fails.
EnsureFails(h) ==
  /\ job[h].phase \in {"begin", "mute_sub", "unmute_sub"}
  /\ job[h].from # job[h].to /\ channel = "none" /\ Spend("resolve")
  /\ RollbackOrFail(h)
  /\ UNCHANGED <<fileVars, generation, substrateVars, wardenVars, playerVars>>

Awaiting(h) == job[h].phase \in {"mute_ack", "unmute_ack"}

\* Mutant: only the state of an observation is compared.
ObservationMatchesState(o, h) == o.muted = (job[h].phase = "mute_ack")

ObservationMatches(o, h) ==
  /\ o.gen = job[h].want
  /\ o.muted = (job[h].phase = "mute_ack")

\* The recv loop of await_envelope_ack takes one update.
ReceiveObservation(h) ==
  /\ Awaiting(h) /\ inbox # <<>>
  /\ inbox' = Tail(inbox)
  /\ IF ObservationMatches(Head(inbox), h) THEN Acknowledged(h)
                                           ELSE UNCHANGED <<job, lock>>
  /\ UNCHANGED <<settings, fileVars, generation, published, channel, spawned,
                 wardenVars, playerVars, asked, happened>>

\* ENVELOPE_ACK_TIMEOUT passes, or the stream is closed.
NoAck(h) ==
  /\ Awaiting(h)
  /\ RollbackOrFail(h)
  /\ UNCHANGED <<fileVars, generation, substrateVars, wardenVars, playerVars,
                 asked, happened>>

PublishSettings(s) ==
  spawned' = Append(spawned, [kind |-> "settings", setting |-> s,
                              request |-> NoRequest])

\* Mutant: the prior settings are not kept.
SetNewAuthorityForgetting(h) ==
  /\ job[h].phase = "authority"
  /\ settings' = [settings EXCEPT !.mixer = job[h].to]
  /\ job' = [job EXCEPT ![h].phase = "persist"]
  /\ UNCHANGED <<fileVars, lock, generation, substrateVars, wardenVars,
                 playerVars, asked, happened>>

\* Step 3: the new mixer type is in memory.
SetNewAuthority(h) ==
  /\ job[h].phase = "authority"
  /\ settings' = [settings EXCEPT !.mixer = job[h].to]
  /\ job' = [job EXCEPT ![h].phase = "persist", ![h].prior = settings]
  /\ UNCHANGED <<fileVars, lock, generation, substrateVars, wardenVars,
                 playerVars, asked, happened>>

------------------------------------------------------------------------------
(* persist_settings, for gestures and setters alike.                       *)

Snapshot(h) ==
  /\ job[h].phase \in Persisting /\ job[h].stage = "none"
  /\ job' = [job EXCEPT ![h].stage = "write", ![h].snap = settings]
  /\ UNCHANGED <<settings, fileVars, lock, generation, substrateVars,
                 wardenVars, playerVars, asked, happened>>

WriteStaging(h) ==
  /\ job[h].stage = "write"
  /\ staging' = job[h].snap
  /\ job' = [job EXCEPT ![h].stage = "rename"]
  /\ UNCHANGED <<settings, disk, lock, generation, substrateVars, wardenVars,
                 playerVars, asked, happened>>

\* What lies in the staging file becomes state.toml.
Rename(h) ==
  /\ job[h].stage = "rename" /\ staging # NoFile
  /\ disk' = staging /\ staging' = NoFile

\* Only the gesture puts the old settings back.
AfterFailedPersist(h) ==
  CASE job[h].phase = "persist" -> settings' = job[h].prior /\ Return(h, "rolled_back")
    [] job[h].phase = "restore" -> UNCHANGED settings /\ Return(h, "failed")
    [] job[h].phase = "save" -> UNCHANGED settings /\ Return(h, "error")

\* Another handler has renamed the staging file away.
RenameFails(h) ==
  /\ job[h].stage = "rename" /\ staging = NoFile
  /\ AfterFailedPersist(h)
  /\ UNCHANGED <<fileVars, generation, substrateVars, wardenVars, playerVars,
                 asked, happened>>

PersistFails(h) ==
  /\ job[h].stage # "none"
  /\ Spend(IF job[h].phase = "persist" THEN "diskfull" ELSE "unsaved")
  /\ AfterFailedPersist(h)
  /\ UNCHANGED <<fileVars, generation, substrateVars, wardenVars, playerVars>>

------------------------------------------------------------------------------
(* The gesture, continued.                                                 *)

\* The new authority is saved and published.
PersistAuthority(h) ==
  /\ job[h].phase = "persist" /\ Rename(h)
  /\ PublishSettings(settings)
  /\ Go(h, "verify")
  /\ UNCHANGED <<settings, lock, generation, published, channel, inbox,
                 wardenVars, playerVars, asked, happened>>

\* Step 6 compares the settings with the target.
Verify(h) ==
  /\ job[h].phase = "verify"
  /\ IF settings.mixer = job[h].to
       THEN Go(h, "unmute") /\ UNCHANGED <<settings, lock>>
       ELSE RollbackOrFail(h)
  /\ UNCHANGED <<fileVars, generation, substrateVars, wardenVars, playerVars,
                 asked, happened>>

\* Mutant: the restored settings are not saved.
RestorePriorInMemory(h) ==
  /\ job[h].phase = "restore"
  /\ PublishSettings(settings)
  /\ Return(h, "rolled_back")
  /\ UNCHANGED <<settings, fileVars, generation, published, channel, inbox,
                 wardenVars, playerVars, asked, happened>>

\* rollback_or_fail_restore, after the memory was restored.
RestorePrior(h) ==
  /\ job[h].phase = "restore" /\ Rename(h)
  /\ PublishSettings(settings)
  /\ Return(h, "rolled_back")
  /\ UNCHANGED <<settings, generation, published, channel, inbox, wardenVars,
                 playerVars, asked, happened>>

\* The overall budget passes while the handler waits for the subject service
\* or the disk: memory is read again from the file.
OverallTimeout(h) ==
  /\ job[h].phase \in {"begin", "mute_sub", "unmute_sub", "persist", "restore"}
  /\ Spend("budget")
  /\ settings' = disk
  /\ Return(h, "failed")
  /\ UNCHANGED <<fileVars, generation, substrateVars, wardenVars, playerVars>>

\* The same, while the cancelled rename is still under way: it completes
\* after the file was read.
OverallTimeoutLateRename(h) ==
  /\ job[h].phase \in {"persist", "restore"} /\ Rename(h)
  /\ Spend("unsaved")
  /\ settings' = disk
  /\ Return(h, "failed")
  /\ UNCHANGED <<generation, substrateVars, wardenVars, playerVars>>

\* The same, when the file cannot be read: memory stays as it is.
OverallTimeoutUnread(h) ==
  /\ job[h].phase \in {"begin", "mute_sub", "unmute_sub", "persist", "restore"}
  /\ Spend("unsaved")
  /\ Return(h, "failed")
  /\ UNCHANGED <<settings, fileVars, generation, substrateVars, wardenVars,
                 playerVars>>

------------------------------------------------------------------------------
(* The other setters: memory, file, subject, and no lock.                  *)

Write(h, s, r) ==
  /\ Ask(h, r)
  /\ settings' = s
  /\ job' = [job EXCEPT ![h] = [Idle EXCEPT !.phase = "save"]]
  /\ UNCHANGED <<fileVars, lock, generation, substrateVars, wardenVars, playerVars>>

SetMixerDevice(h) ==
  \E d \in BOOLEAN : Write(h, [settings EXCEPT !.device = d], "set")

ResetToDefaults(h) == Write(h, Default, "reset")

Save(h) ==
  /\ job[h].phase = "save" /\ Rename(h)
  /\ PublishSettings(settings)
  /\ Return(h, "ok")
  /\ UNCHANGED <<settings, generation, published, channel, inbox, wardenVars,
                 playerVars, asked, happened>>

------------------------------------------------------------------------------
(* The subject service.  Spawned publishes arrive oldest first unless one  *)
(* overtakes another.                                                      *)

RemoveAt(s, i) == SubSeq(s, 1, i - 1) \o SubSeq(s, i + 1, Len(s))

Deliver(i) ==
  LET m == spawned[i]
  IN  /\ IF i = 1 THEN UNCHANGED <<asked, happened>> ELSE Spend("overtake")
      /\ spawned' = RemoveAt(spawned, i)
      /\ IF m.kind = "settings"
           THEN published' = m.setting /\ UNCHANGED requests
           ELSE /\ requests' = IF warden \in {"listening", "pausing", "acking"}
                                 THEN Append(requests, m.request) ELSE requests
                /\ UNCHANGED published
      /\ UNCHANGED <<optionsVars, channel, inbox, warden, current, handled,
                 playerVars>>

LosePublish(i) ==
  /\ Spend("lost")
  /\ spawned' = RemoveAt(spawned, i)
  /\ UNCHANGED <<optionsVars, published, channel, inbox, wardenVars,
                 playerVars>>

\* The observed stream ends; the plugin keeps the closed channel cached.
CloseChannel ==
  /\ channel = "open" /\ Spend("close")
  /\ channel' = "closed"
  /\ UNCHANGED <<optionsVars, published, inbox, spawned, wardenVars,
                 playerVars>>

------------------------------------------------------------------------------
(* The warden.                                                             *)

\* envelope_observed is announced; envelope_requested resolves, sooner or
\* later, and is subscribed.
WardenAnnounces ==
  /\ warden = "absent" /\ warden' = "resolving"
  /\ UNCHANGED <<optionsVars, substrateVars, requests, current, handled,
                 playerVars, asked, happened>>

WardenSubscribes ==
  /\ warden = "resolving" /\ warden' = "listening"
  /\ UNCHANGED <<optionsVars, substrateVars, requests, current, handled,
                 playerVars, asked, happened>>

\* subscribe_subject fails: the task ends.
WardenSubscribeFails ==
  /\ warden = "resolving" /\ Spend("deaf")
  /\ warden' = "exited"
  /\ UNCHANGED <<optionsVars, substrateVars, requests, current, handled,
                 playerVars>>

\* The warden takes a request, and without a custody acknowledges at once.
WardenTakes ==
  /\ warden = "listening" /\ requests # <<>>
  /\ current' = Head(requests)
  /\ requests' = Tail(requests)
  /\ warden' = IF custody THEN "pausing" ELSE "acking"
  /\ handled' = IF custody THEN handled ELSE handled \cup {current'.gen}
  /\ UNCHANGED <<optionsVars, substrateVars, playerVars, asked, happened>>

\* The supervisor executes Pause (a custody that ended meanwhile plays
\* nothing).
WardenPauses ==
  /\ warden = "pausing"
  /\ playing' = (custody /\ ~current.muted)
  /\ handled' = handled \cup {current.gen}
  /\ warden' = "acking"
  /\ UNCHANGED <<optionsVars, substrateVars, requests, current, custody,
                 asked, happened>>

\* Pause fails: refused, or executed after its caller gave up.
WardenPauseFails ==
  /\ warden = "pausing" /\ Spend("refuse")
  /\ playing' \in {playing, custody /\ ~current.muted}
  /\ warden' = "listening" /\ current' = NoRequest
  /\ UNCHANGED <<optionsVars, substrateVars, requests, handled, custody>>

WardenAcks ==
  /\ warden = "acking"
  /\ warden' = "listening" /\ current' = NoRequest
  /\ inbox' = IF channel = "open" THEN Append(inbox, current) ELSE inbox
  /\ UNCHANGED <<optionsVars, published, channel, spawned, requests, handled,
                 playerVars, asked, happened>>

------------------------------------------------------------------------------
(* The player.                                                             *)

UserPlaysOrPauses ==
  /\ custody /\ Spend("user")
  /\ playing' = ~playing
  /\ UNCHANGED <<optionsVars, substrateVars, wardenVars, custody>>

TakeOrReleaseCustody ==
  /\ Spend("custody")
  /\ custody' = ~custody
  /\ playing' = custody'
  /\ UNCHANGED <<optionsVars, substrateVars, wardenVars>>

------------------------------------------------------------------------------
Init ==
  /\ settings \in Stored
  /\ disk = settings /\ published = settings /\ staging = NoFile
  /\ lock = None /\ generation = 0
  /\ job = [h \in Handlers |-> Idle]
  /\ channel = "none" /\ inbox = <<>> /\ spawned = <<>>
  /\ warden = "absent" /\ requests = <<>>
  /\ current = NoRequest
  /\ custody \in Custodies /\ playing = custody
  /\ handled = {} /\ mixed = FALSE /\ crossed = FALSE /\ raced = {}
  /\ asked = 0 /\ happened = {}

\* Steps a handler takes of its own accord.
HandlerStep(h) ==
  \/ AcquireLock(h) \/ NoOp(h) \/ Begin(h) \/ PublishEnvelopeRequested(h)
  \/ EnsureForAck(h) \/ ReceiveObservation(h) \/ NoAck(h)
  \/ SetNewAuthority(h) \/ Snapshot(h) \/ WriteStaging(h) \/ RenameFails(h)
  \/ PersistAuthority(h) \/ Verify(h) \/ RestorePrior(h) \/ Save(h)

HandlerFault(h) ==
  \/ EnsureFails(h) \/ PersistFails(h) \/ OverallTimeout(h)
  \/ OverallTimeoutLateRename(h) \/ OverallTimeoutUnread(h)

WardenStep == WardenSubscribes \/ WardenTakes \/ WardenPauses \/ WardenAcks

Step ==
  \/ \E h \in Handlers :
       \/ \E to \in Targets : HandleSetMixerType(h, to)
       \/ SetMixerDevice(h) \/ ResetToDefaults(h)
       \/ HandlerStep(h) \/ HandlerFault(h)
  \/ \E i \in 1..Len(spawned) : Deliver(i) \/ LosePublish(i)
  \/ CloseChannel
  \/ WardenAnnounces \/ WardenStep \/ WardenSubscribeFails \/ WardenPauseFails
  \/ UserPlaysOrPauses \/ TakeOrReleaseCustody

Next == Step /\ Notes

Spec == Init /\ [][Next]_vars

\* The runtime schedules every task.
FairSpec ==
  /\ Spec
  /\ \A h \in Handlers : WF_stepVars(HandlerStep(h))
  /\ WF_stepVars(spawned # <<>> /\ Deliver(1))
  /\ WF_stepVars(WardenStep)

------------------------------------------------------------------------------
TypeOK ==
  /\ {settings, disk, published} \subseteq Setting
  /\ staging \in Setting \cup {NoFile}
  /\ lock \in Handlers \cup {None} /\ generation \in Nat
  /\ job \in [Handlers ->
                [phase : Phases, stage : Stages, from : MixerTypes,
                 to : MixerTypes, want : Nat, prior : Setting, snap : Setting,
                 outcome : Outcomes]]
  /\ channel \in {"none", "open", "closed"}
  /\ inbox \in Seq(Request) /\ requests \in Seq(Request)
  /\ spawned \in Seq([kind : {"envelope", "settings"}, setting : Setting,
                      request : Request])
  /\ warden \in {"absent", "resolving", "listening", "pausing", "acking",
                 "exited"}
  /\ current \in Request
  /\ custody \in BOOLEAN /\ playing \in BOOLEAN
  /\ handled \in SUBSET Nat
  /\ mixed \in BOOLEAN /\ crossed \in BOOLEAN /\ raced \in SUBSET Handlers
  /\ asked \in 0..MaxRequests /\ happened \subseteq Events

\* A gesture goes past an acknowledged mute or unmute only when the warden did
\* pause or resume for that request, or had nothing to pause; acknowledgements
\* of an earlier, timed-out gesture in the kept stream do not count.
\* (lib.rs, await_envelope_ack; envelope_subscriber.rs: "Dispatch Pause and
\* verify it landed before acking".)
AcksAreReal ==
  \A h \in Handlers :
    /\ Awaiting(h) /\ job'[h].phase # job[h].phase
    /\ job'[h].phase = "authority" \/ job'[h].outcome = "ok"
    => job[h].want \in handled

\* "I2 No blast risk: unmute is the LAST step": the warden never resumes
\* playback between the acknowledged mute of a gesture and its unmute request,
\* as long as spawned publishes arrive in order.
Switching(h) == job[h].phase \in {"authority", "persist", "verify"}
NoBlast ==
  /\ "overtake" \notin happened
  /\ \E h \in Handlers : Switching(h) /\ job[h].want \in handled
  /\ warden = "pausing" /\ warden' # "pausing"
  => ~playing' \/ playing

\* When a gesture answers ok, the mixer type it was asked for is in memory and
\* in the file, also when there was nothing to do.  Excepted: a setter wrote
\* while the gesture held the lock, two snapshots crossed, or a persist went
\* wrong, before; and a gesture with nothing to do that saw another one change
\* the mixer after it had read it (handle_set_mixer_type reads before it locks).
OkMeansApplied ==
  [][\A h \in Handlers :
       /\ lock = h /\ job[h].phase # "idle"
       /\ job'[h].phase = "idle" /\ job'[h].outcome = "ok"
       => \/ mixed \/ crossed \/ "unsaved" \in happened
          \/ h \in raced
          \/ settings.mixer = job[h].to /\ disk.mixer = job[h].to]_vars

\* With no handler at work, memory, file and (once every publish arrived)
\* subject agree, whatever gestures failed, timed out or were rolled back;
\* except after a persist that failed without being undone, a setter that
\* overlapped a gesture, two snapshots that crossed on their way through the
\* staging file, or a publish lost or overtaken.
IdleAgrees ==
  /\ \A h \in Handlers : job[h].phase = "idle"
  /\ ~mixed /\ ~crossed /\ "unsaved" \notin happened
  => /\ settings = disk
     /\ (spawned = <<>> /\ happened \cap {"lost", "overtake"} = {}
         => published = settings)

\* Every request is answered: no gesture waits for ever on the lock, the
\* warden or the disk.
EveryGestureEnds ==
  \A h \in Handlers : job[h].phase # "idle" ~> job[h].phase = "idle"

\* Between two requests the settings of playback.options agree with each
\* other: memory, file and published subject, but for the overlaps and failed
\* persists that IdleAgrees names.
SettingsAgree ==
  /\ TypeOK
  /\ IdleAgrees

\* The mute of a mixer gesture protects the listener: the gesture goes on
\* only after an acknowledgement of its own request that the warden really
\* carried out (lib.rs await_envelope_ack), and nothing resumes playback
\* before the gesture has switched the mixer and asks for the unmute itself.
MuteProtects == [][AcksAreReal /\ NoBlast]_vars
==============================================================================
