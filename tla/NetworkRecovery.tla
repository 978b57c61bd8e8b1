---------------------------- MODULE NetworkRecovery ----------------------------
(***************************************************************************)
(* The network plugin's way back onto a device nobody can reach: the       *)
(* supervisor that watches reachability and raises a recovery access point *)
(* (supervisor.rs, try_critical_open_hotspot_recovery), the apply pipeline *)
(* that brings the operator's station and hotspot up (apply_intent), and   *)
(* the verbs that change either.  Handlers and the supervisor run          *)
(* concurrently; only apply_intent takes a lock.                           *)
(*                                                                         *)
(* One Wi-Fi radio, one station network.  NetworkManager's profiles are    *)
(* "sta", "hs" (the saved hotspot) and "rec" (the open recovery one).      *)
(***************************************************************************)
EXTENDS Integers, FiniteSets

CONSTANTS
  Radios,        \* of {"exclusive", "concurrent"}: what the radio may be
  Intents,       \* the intents the operator may save
  Shipped,       \* the ones that may be on disk at first
  None,
  CriticalTicks, \* probes that cover critical_grace_ms,
  BootTicks,     \* boot_transient_grace_ms
  RestoreTicks,  \* and restore_grace_ms
  MaxRequests,   \* how many applies the operator asks for
  MaxTrouble,    \* how many of the events below happen
  Allowed

\* lose, find: the station's network goes and comes.  refuse: an activation is
\* refused.  captive: a portal sign-in begins.  The others are as named.
Troubles == {"plug", "unplug", "lose", "find", "refuse", "captive", "flight",
             "forget", "disconnect", "restart"}

IntentType == [role : {"Sta", "Ap", "Disabled"}, ssid : BOOLEAN, hotspot : BOOLEAN,
               eth : BOOLEAN]

ASSUME RadiosAssumption == Radios \subseteq {"exclusive", "concurrent"}
ASSUME IntentsAssumption ==
  /\ Intents \subseteq IntentType
  /\ Shipped \subseteq {i \in Intents : i.role = "Sta" /\ i.hotspot}
ASSUME TicksAssumption ==
  /\ CriticalTicks \in Nat \ {0} /\ RestoreTicks \in Nat \ {0} /\ BootTicks \in Nat
  /\ CriticalTicks <= BootTicks /\ RestoreTicks <= BootTicks
ASSUME BoundsAssumption ==
  MaxRequests \in Nat /\ MaxTrouble \in Nat /\ Allowed \subseteq Troubles

Tasks == {"sup", "op"}    \* the supervisor, and a handler of the operator's
Aps == {"hs", "rec"}

ASSUME NoneAssumption == None \notin Tasks \cup IntentType

VARIABLES
  radio, range,         \* the world: the radio, the station's network in reach,
  port, cable,          \* an Ethernet device a declared Ethernet resolves to, its carrier
  up, saved, auto,      \* NetworkManager: active, known, and self-activating profiles
  intent, psk,          \* persisted: the intent, and whether a passphrase is kept
  flight, captive,      \* flight mode; a captive sign-in is recorded
  view,                 \* the supervisor's view
  task,                 \* what each task is doing
  lock,                 \* who holds NM_APPLY_LOCK
  steady,               \* history: nothing has disturbed the apply that holds it
  lit,                  \* history: an access point came up since the latch was set
  requests, troubles

world == <<radio, range, port, cable>>
nm == <<up, saved, auto>>
kept == <<intent, psk, flight, captive>>
bounds == <<requests, troubles>>
vars == <<world, nm, kept, view, task, lock, steady, lit, bounds>>

Happens(e) ==
  /\ e \in Allowed /\ troubles < MaxTrouble
  /\ troubles' = troubles + 1

------------------------------------------------------------------------------
(* NetworkManager, as nmcli drives it.                                     *)

\* What is active once p is: an exclusive radio carries one connection, a
\* concurrent one the station on wlan0 and the hotspot on ap0.
Activated(p) ==
  IF radio = "exclusive" \/ p = "rec" THEN {p} ELSE (up \ {"rec"}) \cup {p}

\* connection down; NetworkManager will not bring the profile back by itself.
Down(ps) == up' = up \ ps /\ auto' = auto \ ps

\* connection up fails in the end, or the profile is active.
Up(p) ==
  /\ ~flight /\ (p = "sta" => range) /\ up' = Activated(p)
  /\ UNCHANGED troubles
UpFails(p) ==
  /\ \/ (flight \/ (p = "sta" /\ ~range)) /\ UNCHANGED troubles
     \/ Happens("refuse")
  /\ UNCHANGED up

\* nm_device_table says wlan0 is connected, beaconing or not.
StationConnected ==
  "sta" \in up \/ "rec" \in up \/ (radio = "exclusive" /\ "hs" \in up)

------------------------------------------------------------------------------
(* The supervisor.                                                         *)

\* probe_ethernet_carrier takes ap0 for a cable.
Carrier == cable \/ (radio = "concurrent" /\ "hs" \in up)

\* nmcli general connectivity.
Verdict ==
  IF cable THEN "full"
  ELSE IF "sta" \in up THEN (IF captive THEN "portal" ELSE "full")
  ELSE IF up # {} THEN "limited" ELSE "none"

Reachability ==
  IF ~Carrier /\ "sta" \notin up THEN "Offline"
  ELSE CASE Verdict = "full" -> "Online" [] Verdict = "portal" -> "Portal"
         [] Verdict = "limited" -> "Limited" [] Verdict = "none" -> "Offline"

Serviceable == {"Online", "Limited"}
NoView == [reach |-> "Unknown", ticks |-> 0, critical |-> FALSE, ever |-> FALSE]

Idle == [pc |-> "idle", apply |-> FALSE, intent |-> None, psk |-> FALSE,
         downed |-> FALSE, raised |-> FALSE, name |-> None]
Goto(w, pc) == task' = [task EXCEPT ![w].pc = pc]

\* One wake of the supervisor: an event of a source or the polling tick.  Every
\* wake counts as a whole interval.
Probe ==
  LET reach == Reachability
      more == IF view.ticks < BootTicks THEN view.ticks + 1 ELSE BootTicks
      ticks == IF reach = view.reach THEN more ELSE 1
      ever == view.ever \/ reach \in Serviceable
      raise == /\ ~view.critical /\ reach = "Offline"
               /\ ticks >= IF ever THEN CriticalTicks ELSE BootTicks
      restore == view.critical /\ reach \in Serviceable /\ ticks >= RestoreTicks
  IN  /\ task["sup"].pc = "idle"
      /\ view' = [reach |-> reach, ticks |-> ticks, ever |-> ever,
                  critical |-> (view.critical \/ raise) /\ ~restore]
      /\ Goto("sup", IF raise THEN "check" ELSE IF restore THEN "load" ELSE "idle")
      /\ lit' = (lit /\ ~raise /\ ~restore)
      /\ UNCHANGED <<world, nm, kept, lock, steady, bounds>>

\* Mutant: the intent is replayed without the saved passphrase.
LoadIntentBare ==
  /\ task["sup"].pc = "load"
  /\ task' = [task EXCEPT !["sup"] =
       IF intent.ssid THEN [Idle EXCEPT !.pc = "lock", !.apply = TRUE, !.intent = intent]
       ELSE Idle]
  /\ UNCHANGED <<world, nm, kept, view, lock, steady, lit, bounds>>

\* autonomous_sta_restore: without a station there is nothing to restore.
LoadIntent ==
  /\ task["sup"].pc = "load"
  /\ task' = [task EXCEPT !["sup"] =
       IF intent.ssid THEN [Idle EXCEPT !.pc = "lock", !.apply = TRUE, !.intent = intent,
                                        !.psk = psk]
       ELSE Idle]
  /\ UNCHANGED <<world, nm, kept, view, lock, steady, lit, bounds>>

------------------------------------------------------------------------------
(* Raising an access point: for the supervisor, or for an apply whose      *)
(* station did not come up.                                                *)

\* captive_should_hold_hotspot.
Hold == captive /\ StationConnected

\* Mutant: only a dead cable counts.
NoServiceableUplinkCable(i) == i.eth /\ ~cable

\* ethernet_intent_has_no_carrier: false, too, when no Ethernet device is found.
NoCarrier(i) == i.eth /\ port /\ ~cable

\* The step leaves an apply's lock held and meets no refusal.
Steadily == steady' = (steady /\ lock' = lock /\ troubles' = troubles)

\* Every declared uplink is down; a declared Ethernet without a device is not.
NoServiceableUplink(i) == (i.eth => NoCarrier(i)) /\ "sta" \notin up

Unlocked(w) == IF lock = w THEN None ELSE lock

\* Mutant: the latch stays although nothing was raised.
RaiseReturnsLatched(w, ok) ==
  task' = [task EXCEPT ![w] = Idle] /\ lock' = Unlocked(w) /\ UNCHANGED view

\* The end of an apply, or of the supervisor's raise: the latch is released if
\* the access point is not up.
RaiseReturns(w, ok) ==
  /\ task' = [task EXCEPT ![w] = Idle]
  /\ lock' = Unlocked(w)
  /\ view' = IF task[w].apply THEN view ELSE [view EXCEPT !.critical = @ /\ ok]

\* autonomous_critical_recovery's own gates, the operator's policy and the
\* uplinks; then the saved hotspot if it can be used as it stands, or else an
\* open profile of its own.
Check(w) ==
  LET t == task[w]
      i == IF t.apply THEN t.intent ELSE intent
      admitted == t.apply \/ (~flight /\ ~Hold /\ i.role # "Disabled")
  IN  /\ t.pc = "check"
      /\ IF ~(admitted /\ i.hotspot /\ NoServiceableUplink(i)) THEN RaiseReturns(w, FALSE)
         ELSE /\ \E vif \in {TRUE, radio = "concurrent"} :
                   task' = [task EXCEPT ![w].pc = "release", ![w].name =
                     IF "hs" \in saved /\ vif THEN "hs" ELSE "rec"]
              /\ UNCHANGED <<view, lock>>
      /\ UNCHANGED <<world, nm, kept, lit, bounds>> /\ Steadily

\* The station is released so that the radio can carry the access point.
Release(w) ==
  /\ task[w].pc = "release"
  /\ Down({"sta"}) /\ Goto(w, "raise")
  /\ steady' = (steady /\ task[w].apply)
  /\ UNCHANGED <<world, saved, kept, view, lock, lit, bounds>>

Raise(w) ==
  LET p == task[w].name
  IN  /\ task[w].pc = "raise"
      /\ \/ Up(p) /\ RaiseReturns(w, TRUE)
            /\ auto' = auto \cup (saved \cap {p})
            /\ lit' = (lit \/ ~task[w].apply)
         \/ UpFails(p) /\ RaiseReturns(w, FALSE) /\ UNCHANGED <<auto, lit>>
      /\ steady' = (steady /\ task[w].apply /\ lock' = lock /\ troubles' = troubles)
      /\ UNCHANGED <<world, saved, kept, requests>>

------------------------------------------------------------------------------
(* apply_intent, under NM_APPLY_LOCK.                                      *)

Rest == <<world, kept, view, lit, requests>>

Finish(w) == task' = [task EXCEPT ![w] = Idle] /\ lock' = Unlocked(w)

\* How an apply ends: one that took the hotspot down for a join and raised none
\* itself goes through restore_ap_after_failed_join.
Ending(w) ==
  IF task[w].downed /\ ~task[w].raised THEN Goto(w, "check") /\ UNCHANGED lock
  ELSE Finish(w)

\* Mutant: applies are not serialised.
MayBeginUnserialised == TRUE

\* One apply at a time in the process.
MayBegin == lock = None

\* The lock is free, and the pipeline branches on the role.  Flight mode stops it.
ApplyBegin(w) ==
  LET i == task[w].intent
  IN  /\ task[w].pc = "lock" /\ MayBegin
      /\ \/ /\ i.role # "Disabled" /\ flight
            /\ Finish(w) /\ UNCHANGED <<up, auto>>
         \/ /\ i.role = "Disabled"
            /\ lock' = w /\ Goto(w, "disable") /\ UNCHANGED <<up, auto>>
         \/ /\ i.role = "Ap" /\ ~flight
            /\ lock' = w /\ Goto(w, "ensure") /\ Down({"sta"})
         \/ /\ i.role = "Sta" /\ ~flight /\ i.ssid
            /\ lock' = w /\ Goto(w, "free") /\ UNCHANGED <<up, auto>>
         \/ /\ i.role = "Sta" /\ ~flight /\ ~i.ssid
            /\ lock' = w /\ Goto(w, "tail")
            /\ IF i.hotspot THEN UNCHANGED <<up, auto>> ELSE Down({"hs"})
      /\ steady' = FALSE
      /\ UNCHANGED <<Rest, saved, troubles>>

Disable(w) ==
  /\ task[w].pc = "disable"
  /\ Down({"sta", "hs"}) /\ Finish(w) /\ UNCHANGED <<Rest, saved, troubles>>
  /\ Steadily

\* The hotspot makes room for the join; a join without a passphrase is refused
\* before the station is touched.
Free(w) ==
  /\ task[w].pc = "free"
  /\ Down({"hs"})
  /\ task' = [task EXCEPT ![w].downed = TRUE,
       ![w].pc = IF task[w].psk \/ "sta" \in saved THEN "down" ELSE "check"]
  /\ steady' = TRUE
  /\ UNCHANGED <<Rest, saved, lock, troubles>>

DownSta(w) ==
  /\ task[w].pc = "down"
  /\ Down({"sta"}) /\ Goto(w, "join")
  /\ UNCHANGED <<Rest, saved, lock, steady, troubles>>

\* Mutant: an error leaves by a bare `?`.
JoinBails(w) ==
  /\ task[w].pc = "join"
  /\ saved' = saved \cup {"sta"}
  /\ \/ Up("sta") /\ Goto(w, "tail") /\ UNCHANGED lock
     \/ UpFails("sta") /\ Finish(w)
  /\ auto' = auto \cup {"sta"}
  /\ UNCHANGED <<Rest, steady>>

\* ensure_wifi_sta: the profile is written and brought up.  An error of the
\* writing bails; one of the bring-up only where no hotspot stands behind it.
Join(w) ==
  /\ task[w].pc = "join"
  /\ \/ /\ Happens("refuse") /\ Goto(w, "check")
        /\ UNCHANGED nm
     \/ /\ saved' = saved \cup {"sta"} /\ auto' = auto \cup {"sta"}
        /\ \/ Up("sta") /\ Goto(w, "tail")
           \/ UpFails("sta") /\ Goto(w, IF task[w].intent.hotspot THEN "tail" ELSE "check")
  /\ UNCHANGED <<Rest, lock, steady>>

\* The captive hold, the deferral beside a live station whose channel the
\* hotspot cannot follow (it can where it has an interface of its own and the
\* channel is known), or on to the hotspot.
Tail(w) ==
  LET i == task[w].intent
  IN  /\ task[w].pc = "tail"
      /\ \E synced \in {FALSE, radio = "concurrent"} :
           IF Hold \/ (i.ssid /\ "sta" \in up /\ ~synced)
             THEN Down({"hs"}) /\ Ending(w)
             ELSE /\ IF i.hotspot THEN Goto(w, "ensure") /\ UNCHANGED lock ELSE Ending(w)
                  /\ UNCHANGED <<up, auto>>
      /\ UNCHANGED <<Rest, saved, troubles>>
      /\ Steadily

\* ensure_wifi_ap: a hotspot that is up is left alone; a raise that fails goes
\* through the return of a failed join, except under the role Ap.
Ensure(w) ==
  LET i == task[w].intent
  IN  /\ task[w].pc = "ensure"
      /\ saved' = saved \cup {"hs"}
      /\ \/ /\ IF "hs" \in up THEN UNCHANGED <<up, auto, troubles>>
              ELSE Up("hs") /\ auto' = auto \cup {"hs"}
            /\ task' = [task EXCEPT ![w].raised = TRUE, ![w].pc = "raised"]
            /\ UNCHANGED lock
         \/ /\ "hs" \notin up /\ UpFails("hs") /\ auto' = auto \cup {"hs"}
            /\ IF i.role = "Ap" THEN Finish(w) ELSE Goto(w, "check") /\ UNCHANGED lock
      /\ UNCHANGED Rest
      /\ Steadily

\* restore_sta_after_hotspot_on_shared_radio: unless a declared Ethernet device
\* lacks its carrier, the radio goes back to the station.  Having raised the
\* hotspot once, the apply does not raise another.
Restore(w) ==
  LET i == task[w].intent
      back == /\ i.role = "Sta" /\ i.ssid /\ radio = "exclusive"
              /\ "hs" \in up /\ ~NoCarrier(i)
  IN  /\ task[w].pc = "raised"
      /\ IF back THEN Down({"hs"}) /\ Goto(w, "rejoin") /\ UNCHANGED lock
         ELSE Finish(w) /\ UNCHANGED <<up, auto>>
      /\ UNCHANGED <<Rest, saved, troubles>>
      /\ Steadily

Rejoin(w) ==
  /\ task[w].pc = "rejoin"
  /\ Up("sta") \/ UpFails("sta")
  /\ Finish(w)
  /\ UNCHANGED <<Rest, saved, auto>>
  /\ Steadily

------------------------------------------------------------------------------
(* The operator's verbs.  "op" is idle between them.                       *)

Asks(t) ==
  /\ task["op"].pc = "idle" /\ requests < MaxRequests
  /\ requests' = requests + 1
  /\ task' = [task EXCEPT !["op"] = t]

Applying(i, secret) ==
  [Idle EXCEPT !.pc = "lock", !.apply = TRUE, !.intent = i, !.psk = secret]

\* network.intent.set: saved at once, applied under the lock with the secret of
\* the request and no other.
IntentSet(i, secret, apply) ==
  /\ secret => i.ssid
  /\ Asks(IF apply THEN Applying(i, secret) ELSE Idle)
  /\ intent' = i /\ psk' = (psk \/ secret)
  /\ steady' = FALSE
  /\ UNCHANGED <<world, nm, flight, captive, view, lock, lit, troubles>>

\* network.intent.apply: the saved intent with the saved secret.
IntentApply ==
  /\ Asks(Applying(intent, psk))
  /\ UNCHANGED <<world, nm, kept, view, lock, steady, lit, troubles>>

Undisturbed == UNCHANGED <<view, lock, lit, requests>>

\* network.nm.wifi.forget: the hotspot goes down with the profile and its secret,
\* and the intent read before is saved without the station.
Forget ==
  /\ task["op"].pc = "idle" /\ Happens("forget")
  /\ up' = up \ {"hs", "sta"} /\ saved' = saved \ {"sta"} /\ auto' = auto \ {"hs", "sta"}
  /\ psk' = FALSE
  /\ task' = [task EXCEPT !["op"].pc = "forget", !["op"].intent = intent]
  /\ steady' = FALSE
  /\ UNCHANGED <<world, intent, flight, captive>> /\ Undisturbed
ForgetSaves ==
  /\ task["op"].pc = "forget"
  /\ intent' = [task["op"].intent EXCEPT !.ssid = FALSE]
  /\ task' = [task EXCEPT !["op"] = Idle]
  /\ UNCHANGED <<world, nm, psk, flight, captive, steady, troubles>> /\ Undisturbed

\* network.nm.wifi.disconnect: whatever is on wlan0 goes, and stays away.
Disconnect ==
  /\ task["op"].pc = "idle" /\ Happens("disconnect")
  /\ Down({"sta", "rec"} \cup IF radio = "exclusive" THEN {"hs"} ELSE {})
  /\ steady' = FALSE
  /\ UNCHANGED <<world, saved, kept, task>> /\ Undisturbed

\* network.nm.flight_mode.set.
FlightOn ==
  /\ ~flight /\ Happens("flight")
  /\ flight' = TRUE /\ up' = {} /\ steady' = FALSE
  /\ UNCHANGED <<world, saved, auto, intent, psk, captive, task>> /\ Undisturbed
FlightOff ==
  /\ flight /\ flight' = FALSE /\ steady' = FALSE
  /\ UNCHANGED <<world, nm, intent, psk, captive, task, troubles>> /\ Undisturbed

\* The captive probe finds a portal; the sign-in completes or is given up.
CaptiveBegins ==
  /\ "sta" \in up /\ Happens("captive")
  /\ captive' = TRUE /\ steady' = FALSE
  /\ UNCHANGED <<world, nm, intent, psk, flight, task>> /\ Undisturbed
CaptiveEnds ==
  /\ captive /\ captive' = FALSE /\ steady' = FALSE
  /\ UNCHANGED <<world, nm, intent, psk, flight, task, troubles>> /\ Undisturbed

------------------------------------------------------------------------------
(* The world.                                                              *)

Plug ==
  /\ port
  /\ \/ ~cable /\ Happens("plug")
     \/ cable /\ Happens("unplug")
  /\ cable' = ~cable /\ steady' = FALSE
  /\ UNCHANGED <<radio, range, port, nm, kept, task>> /\ Undisturbed

Roam ==
  /\ \/ ~range /\ Happens("find") /\ UNCHANGED up
     \/ range /\ Happens("lose") /\ up' = up \ {"sta"}
  /\ range' = ~range /\ steady' = FALSE
  /\ UNCHANGED <<radio, port, cable, saved, auto, kept, task>> /\ Undisturbed

\* NetworkManager brings a profile up by itself when the radio is free.
Autoconnect(p) ==
  /\ p \in auto \ up /\ (radio = "exclusive" => up = {}) /\ "rec" \notin up
  /\ ~flight /\ (p = "sta" => range)
  /\ up' = up \cup {p}
  /\ UNCHANGED <<world, saved, auto, kept, task, steady, troubles>> /\ Undisturbed

\* The plugin is unloaded and loaded: the supervisor starts over, and nothing it
\* had begun goes on.  Flight mode and the intent are on disk.
Restart ==
  /\ Happens("restart")
  /\ view' = NoView /\ task' = [w \in Tasks |-> Idle] /\ lock' = None
  /\ steady' = FALSE /\ lit' = FALSE
  /\ UNCHANGED <<world, nm, kept, requests>>

------------------------------------------------------------------------------
Init ==
  /\ radio \in Radios /\ range \in BOOLEAN
  /\ port \in BOOLEAN /\ cable \in BOOLEAN /\ (cable => port)
  /\ intent \in Shipped
  /\ psk = intent.ssid
  /\ saved = (IF intent.ssid THEN {"sta", "hs"} ELSE {}) /\ auto = saved
  /\ up = {} /\ flight = FALSE /\ captive = FALSE
  /\ view = NoView /\ task = [w \in Tasks |-> Idle] /\ lock = None
  /\ steady = FALSE /\ lit = FALSE
  /\ requests = 0 /\ troubles = 0

Step(w) ==
  \/ Check(w) \/ Release(w) \/ Raise(w)
  \/ ApplyBegin(w) \/ Disable(w) \/ Free(w) \/ DownSta(w) \/ Join(w) \/ Tail(w)
  \/ Ensure(w) \/ Restore(w) \/ Rejoin(w)

Supervise == Probe \/ LoadIntent

Next ==
  \/ Supervise \/ \E w \in Tasks : Step(w)
  \/ \E i \in Intents, secret, apply \in BOOLEAN : IntentSet(i, secret, apply)
  \/ IntentApply \/ Forget \/ ForgetSaves \/ Disconnect
  \/ FlightOn \/ FlightOff \/ CaptiveBegins \/ CaptiveEnds
  \/ Plug \/ Roam \/ \E p \in {"sta", "hs"} : Autoconnect(p)
  \/ Restart

Spec == Init /\ [][Next]_vars

\* The polling tick and the awaits of a handler always come to an end.
FairSpec == Spec /\ WF_vars(Supervise) /\ \A w \in Tasks : WF_vars(Step(w))

------------------------------------------------------------------------------
(* Properties.                                                             *)

TaskType == [pc : {"idle", "load", "check", "release", "raise", "lock", "disable", "free",
                   "down", "join", "tail", "ensure", "raised", "rejoin", "forget"},
             apply : BOOLEAN, intent : IntentType \cup {None}, psk : BOOLEAN,
             downed : BOOLEAN, raised : BOOLEAN, name : Aps \cup {None}]

\* The types; a radio that cannot carry two connections carries one, and an
\* apply past its lock holds it.
TypeOK ==
  /\ radio \in Radios /\ range \in BOOLEAN
  /\ port \in BOOLEAN /\ cable \in BOOLEAN /\ (cable => port)
  /\ up \subseteq {"sta", "hs", "rec"} /\ saved \subseteq {"sta", "hs"} /\ auto \subseteq {"sta", "hs"}
  /\ radio = "exclusive" => Cardinality(up) <= 1
  /\ intent \in IntentType /\ psk \in BOOLEAN /\ flight \in BOOLEAN /\ captive \in BOOLEAN
  /\ view \in [reach : {"Unknown", "Offline", "Online", "Limited", "Portal"},
               ticks : 0 .. BootTicks, critical : BOOLEAN, ever : BOOLEAN]
  /\ task \in [Tasks -> TaskType] /\ lock \in Tasks \cup {None}
  /\ \A w \in Tasks : (task[w].apply /\ task[w].pc # "lock") <=> (lock = w)
  /\ steady \in BOOLEAN /\ lit \in BOOLEAN
  /\ requests \in 0 .. MaxRequests /\ troubles \in 0 .. MaxTrouble

\* "The supervisor must not remember a raise that did not happen, or a
\* disconnected device never gets another chance" (lib.rs): the latch that
\* suppresses further raises is set only while a raise is under way or after an
\* access point really came up, whatever refused it in between.
LatchHonest ==
  view.critical =>
    lit \/ (~task["sup"].apply /\ task["sup"].pc \in {"check", "release", "raise"})

\* "The access point goes back - otherwise a join that failed leaves a headless
\* player with nothing to reach it on" (apply_intent): an apply that took the
\* hotspot down for a join, whatever became of the join, does not let the lock go
\* over a radio with nothing on it, unless the world changed or an activation of
\* the hotspot was refused while it ran.  Two cases where the code does not keep
\* this are excepted: a declared Ethernet that has no device is taken for an
\* uplink, and without a declared Ethernet a raised hotspot is given up for a
\* station that may then refuse.
JoinEndsReachable ==
  [][\A w \in Tasks :
       LET i == task[w].intent
       IN  /\ lock = w /\ lock' # w /\ task[w].downed /\ steady /\ troubles' = troubles
           /\ i.hotspot /\ ~cable /\ ~flight
           /\ IF i.eth THEN port ELSE task[w].pc # "rejoin"
           => up' # {}]_vars

\* The latch is set over a radio that beacons no longer (the README lists how).
Stranded == view.critical /\ task["sup"].pc = "idle" /\ up \cap Aps = {}

\* The supervisor's purpose: a player that stays without cable and without its
\* network, and whose operator allows the hotspot, is not left dark.  Excepted
\* are the two cases in which the code does leave it dark: an access point that
\* went away after its raise (the latch is set and suppresses another), and a
\* declared Ethernet without a device, which counts as an uplink for ever.
NeverDark ==
  <>[](/\ ~cable /\ ~range /\ ~flight /\ ~Stranded
       /\ intent.hotspot /\ intent.role # "Disabled"
       /\ (intent.eth => port))
    => []<>(up \cap Aps # {})

\* Nothing more happens to the player, which has a cable again and a network
\* whose passphrase it keeps.
Good ==
  /\ cable /\ range /\ ~flight /\ psk /\ task["op"].pc = "idle"
  /\ intent.role = "Sta" /\ intent.ssid
  /\ troubles = MaxTrouble

\* "Replays the full apply pipeline so the operator's declared shape comes back"
\* (autonomous_sta_restore): once the player can be reached again, a raised
\* recovery ends with the station up.
StationRestored ==
  (Good /\ view.critical /\ task["sup"].pc = "idle") ~> ("sta" \in up \/ ~Good)

\* The recovery supervisor knows what it has raised: one apply works on the
\* radio at a time and the latch that suppresses further raises stands for a
\* raise that succeeded.
RecoveryInv ==
  /\ TypeOK
  /\ LatchHonest
================================================================================
