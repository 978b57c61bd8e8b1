---------------------------- MODULE FragmentWorker ----------------------------
(***************************************************************************)
(* How a route or mixer change reaches MPD's configuration                 *)
(* (playback.mpd lib.rs): the routing service fires a callback, the        *)
(* reactor refetches the write endpoint and publishes it on a watch        *)
(* channel, and the fragment worker renders the `audio_output` fragment,   *)
(* compares it with the file, writes it and restarts MPD.                  *)
(*                                                                         *)
(* A fragment is the pair it was rendered from.  A watch channel is its    *)
(* value and a flag that its receiver has not seen it; a Notify is its     *)
(* permit.                                                                 *)
(***************************************************************************)
EXTENDS Naturals

CONSTANTS
  Endpoints, NoEndpoint,     \* WriteEndpoints; EndpointNotConfigured
  Renderable,                \* the ones render_audio_output_fragment accepts
  Mixers,                    \* MixerConfig values
  NoFile,                    \* no fragment file
  Limits                     \* budgets: how often each environment event may
                             \* happen; a behaviour keeps to one of them

\* Route published before and after the callback is registered, mixer changed,
\* plugin loaded again, MPD restarted by somebody else, the failures of the four
\* calls, and tasks aborted with the process: between the write and the restart
\* of a cycle (torn) or elsewhere (abort).
Events == {"early", "route", "mixer", "load", "bounce", "fetch_error",
           "read_error", "write_error", "restart_error", "abort", "torn"}

ASSUME EndpointAssumption ==
  Renderable \subseteq Endpoints /\ NoEndpoint \notin Endpoints
ASSUME LimitsAssumption == Limits \subseteq [Events -> Nat]

Snapshots == Endpoints \cup {NoEndpoint}
Fragments == [endpoint : Renderable, mixer : Mixers]
Files == Fragments \cup {NoFile}

VARIABLES
  route, registered,         \* the routing service: endpoint, callback
  reactor_pc, wake, snapshot,\* the reactor task
  endpoints, endpoints_new,  \* endpoints_tx / endpoints_rx
  mixer, mixer_new,          \* mixer_config_tx / mixer_rx
  worker_pc, cycle, status,  \* the worker task, what it is rendering
  disk, running,             \* the fragment file; what MPD was started with
  unloading, reactor_stop,   \* the worker's and the reactor's shutdown permit
  count

routeVars == <<route, registered>>
reactorVars == <<reactor_pc, wake, snapshot>>
chanVars == <<endpoints, endpoints_new, mixer, mixer_new>>
workerVars == <<worker_pc, cycle, status>>
mpdVars == <<disk, running>>
stopVars == <<unloading, reactor_stop>>
vars == <<routeVars, reactorVars, chanVars, workerVars, mpdVars, stopVars,
          count>>

Spend(e) ==
  /\ count' = [count EXCEPT ![e] = @ + 1]
  /\ \E limit \in Limits : \A f \in Events : count'[f] <= limit[f]

(***************************************************************************)
(* The environment.                                                        *)
(***************************************************************************)
\* publish_topology: a new endpoint, or a spurious event about the same one.
PublishTopology ==
  /\ route' \in Endpoints
  /\ Spend(IF registered THEN "route" ELSE "early")
  /\ wake' = (wake \/ registered)
  /\ UNCHANGED <<registered, reactor_pc, snapshot, chanVars, workerVars,
                 mpdVars, stopVars>>

\* clear_topology does not call back.
ClearTopology ==
  /\ route' = NoEndpoint
  /\ Spend(IF registered THEN "route" ELSE "early")
  /\ UNCHANGED <<registered, reactorVars, chanVars, workerVars, mpdVars,
                 stopVars>>

\* The options subscriber sends a mixer configuration.
SendMixer ==
  /\ Spend("mixer")
  /\ mixer' \in Mixers /\ mixer_new' = TRUE
  /\ UNCHANGED <<routeVars, reactorVars, endpoints, endpoints_new, workerVars,
                 mpdVars, stopVars>>

\* MPD is restarted by something else.
MpdBounces ==
  /\ Spend("bounce")
  /\ running' = disk
  /\ UNCHANGED <<routeVars, reactorVars, chanVars, workerVars, disk, stopVars>>

(***************************************************************************)
(* The reactor.                                                            *)
(***************************************************************************)
\* fetch_write_endpoint takes any error for "not configured".
Fetch(result) ==
  \/ result = route /\ UNCHANGED count
  \/ result = NoEndpoint /\ Spend("fetch_error")

\* spawn_reactor fetches first and registers the callback afterwards.
FetchInitial ==
  /\ reactor_pc = "fetch" /\ reactor_pc' = "register"
  /\ endpoints' \in Snapshots /\ Fetch(endpoints')
  /\ UNCHANGED <<routeVars, wake, snapshot, endpoints_new, mixer, mixer_new,
                 workerVars, mpdVars, stopVars>>

\* With the callback registered, the reactor and the worker are spawned.
OnRouteChange ==
  /\ reactor_pc = "register" /\ reactor_pc' = "wait"
  /\ registered' = TRUE
  /\ worker_pc' = "snapshot"
  /\ UNCHANGED <<route, wake, snapshot, chanVars, cycle, status, mpdVars,
                 stopVars, count>>

ReactorWakes ==
  /\ reactor_pc = "wait" /\ wake
  /\ wake' = FALSE /\ reactor_pc' = "send"
  /\ snapshot' \in Snapshots /\ Fetch(snapshot')
  /\ UNCHANGED <<routeVars, chanVars, workerVars, mpdVars, stopVars>>

\* The stream_format subject is updated in between.
ReactorSends ==
  /\ reactor_pc = "send" /\ reactor_pc' = "wait"
  /\ endpoints' = snapshot /\ endpoints_new' = TRUE
  /\ UNCHANGED <<routeVars, wake, snapshot, mixer, mixer_new, workerVars,
                 mpdVars, stopVars, count>>

ReactorStops ==
  /\ reactor_pc = "wait" /\ reactor_stop
  /\ reactor_pc' = "stopped"
  /\ UNCHANGED <<routeVars, wake, snapshot, chanVars, workerVars, mpdVars,
                 stopVars, count>>

(***************************************************************************)
(* The worker.  Both channels are marked seen when their values are taken. *)
(***************************************************************************)
Seen == endpoints_new' = FALSE /\ mixer_new' = FALSE

\* Mutant: the endpoint's kind is not checked.
TakeSnapshotsAnyKind ==
  /\ worker_pc = "snapshot" /\ Seen
  /\ cycle' = [endpoint |-> endpoints, mixer |-> mixer]
  /\ worker_pc' = IF endpoints = NoEndpoint THEN "select" ELSE "compare"
  /\ UNCHANGED <<routeVars, reactorVars, endpoints, mixer, status, mpdVars,
                 stopVars, count>>

TakeSnapshots ==
  /\ worker_pc = "snapshot" /\ Seen
  /\ cycle' = [endpoint |-> endpoints, mixer |-> mixer]
  /\ \/ /\ endpoints = NoEndpoint
        /\ status' = "Idle" /\ worker_pc' = "select"
     \/ /\ endpoints \in Endpoints \ Renderable
        /\ status' = "Failed" /\ worker_pc' = "select"
     \/ /\ endpoints \in Renderable
        /\ worker_pc' = "compare" /\ UNCHANGED status
  /\ UNCHANGED <<routeVars, reactorVars, endpoints, mixer, mpdVars, stopVars,
                 count>>

\* Mutant: a fragment for the same endpoint is taken for the same fragment.
MatchesEndpointOnly(existing, rendered) ==
  existing # NoFile /\ existing.endpoint = rendered.endpoint

fragment_content_matches(existing, rendered) == existing = rendered

\* Mutant: the fragment is written without looking at the file.
CompareNothing ==
  /\ worker_pc = "compare" /\ worker_pc' = "write"
  /\ UNCHANGED <<routeVars, reactorVars, chanVars, cycle, status, mpdVars,
                 stopVars, count>>

CompareFragment ==
  /\ worker_pc = "compare"
  /\ \/ /\ fragment_content_matches(disk, cycle)
        /\ status' = "Idle" /\ worker_pc' = "select" /\ UNCHANGED count
     \/ /\ ~fragment_content_matches(disk, cycle)
        /\ worker_pc' = "write" /\ UNCHANGED <<status, count>>
     \/ /\ Spend("read_error")
        /\ worker_pc' = "write" /\ UNCHANGED status
  /\ UNCHANGED <<routeVars, reactorVars, chanVars, cycle, mpdVars, stopVars>>

\* atomic_write_fragment leaves the old file or the new one.
WriteFragment ==
  /\ worker_pc = "write"
  /\ \/ /\ disk' = cycle
        /\ worker_pc' = "restart" /\ UNCHANGED <<status, count>>
     \/ /\ Spend("write_error")
        /\ status' = "Failed" /\ worker_pc' = "select" /\ UNCHANGED disk
  /\ UNCHANGED <<routeVars, reactorVars, chanVars, cycle, running, stopVars>>

\* A restart that is reported as failed may or may not have happened.
RestartMpd ==
  /\ worker_pc = "restart" /\ worker_pc' = "select"
  /\ \/ running' = disk /\ status' = "Restarted" /\ UNCHANGED count
     \/ /\ Spend("restart_error")
        /\ running' \in {disk, running} /\ status' = "Failed"
  /\ UNCHANGED <<routeVars, reactorVars, chanVars, cycle, disk, stopVars>>

\* Mutant: the worker listens to its endpoint channel only.
WorkerWakesForRoute ==
  /\ worker_pc = "select" /\ ~unloading /\ endpoints_new
  /\ worker_pc' = "snapshot"
  /\ UNCHANGED <<routeVars, reactorVars, chanVars, cycle, status, mpdVars,
                 stopVars, count>>

WorkerWakes ==
  /\ worker_pc = "select" /\ ~unloading
  /\ endpoints_new \/ mixer_new
  /\ worker_pc' = "snapshot"
  /\ UNCHANGED <<routeVars, reactorVars, chanVars, cycle, status, mpdVars,
                 stopVars, count>>

WorkerStops ==
  /\ worker_pc = "select" /\ unloading
  /\ worker_pc' = "stopped"
  /\ UNCHANGED <<routeVars, reactorVars, chanVars, cycle, status, mpdVars,
                 stopVars, count>>

(***************************************************************************)
(* unload: stop_fragment_worker, then stop_reactor.                        *)
(***************************************************************************)
StopFragmentWorker ==
  /\ reactor_pc \in {"wait", "send"} /\ ~unloading
  /\ unloading' = TRUE
  /\ UNCHANGED <<routeVars, reactorVars, chanVars, workerVars, mpdVars,
                 reactor_stop, count>>

\* Mutant: the callback is cleared, the task is not told.
StopReactorUntold ==
  /\ worker_pc = "stopped" /\ registered
  /\ registered' = FALSE
  /\ UNCHANGED <<route, reactorVars, chanVars, workerVars, mpdVars, stopVars,
                 count>>

StopReactor ==
  /\ worker_pc = "stopped" /\ ~reactor_stop
  /\ registered' = FALSE /\ reactor_stop' = TRUE
  /\ UNCHANGED <<route, reactorVars, chanVars, workerVars, mpdVars, unloading,
                 count>>

Over == {"stopped", "aborted"}

\* UNLOAD_BUDGET runs out, or the process is killed: the runtime aborts both
\* tasks where they are.  A systemctl under way may or may not do its work.
Abort ==
  /\ worker_pc \notin Over \/ reactor_pc \notin Over
  /\ Spend(IF worker_pc = "restart" THEN "torn" ELSE "abort")
  /\ worker_pc' = "aborted" /\ reactor_pc' = "aborted"
  /\ registered' = FALSE
  /\ running' \in {running} \cup (IF worker_pc = "restart" THEN {disk} ELSE {})
  /\ UNCHANGED <<route, wake, snapshot, chanVars, cycle, status, disk, stopVars>>

\* The plugin is loaded again over the file and the MPD it finds.
Load ==
  /\ worker_pc \in Over /\ reactor_pc \in Over /\ Spend("load")
  /\ registered' = FALSE
  /\ reactor_pc' = "fetch" /\ wake' = FALSE /\ snapshot' = NoEndpoint
  /\ endpoints' = NoEndpoint /\ endpoints_new' = FALSE
  /\ mixer' \in Mixers /\ mixer_new' = FALSE
  /\ worker_pc' = "unspawned" /\ status' = "Idle"
  /\ cycle' = [endpoint |-> NoEndpoint, mixer |-> mixer']
  /\ unloading' = FALSE /\ reactor_stop' = FALSE
  /\ UNCHANGED <<route, mpdVars>>

Reactor ==
  \/ FetchInitial \/ OnRouteChange \/ ReactorWakes \/ ReactorSends
  \/ ReactorStops
Worker ==
  \/ TakeSnapshots \/ CompareFragment \/ WriteFragment \/ RestartMpd
  \/ WorkerWakes \/ WorkerStops
Environment ==
  \/ PublishTopology \/ ClearTopology \/ SendMixer \/ MpdBounces
  \/ StopFragmentWorker \/ Abort \/ Load

\* The first load after MPD was started with the fragment that is on disk, if
\* there is one; a load after an abort finds what Abort left.
Init ==
  /\ route \in Snapshots /\ registered = FALSE
  /\ reactor_pc = "fetch" /\ wake = FALSE /\ snapshot = NoEndpoint
  /\ endpoints = NoEndpoint /\ endpoints_new = FALSE
  /\ mixer \in Mixers /\ mixer_new = FALSE
  /\ worker_pc = "unspawned" /\ status = "Idle"
  /\ cycle = [endpoint |-> NoEndpoint, mixer |-> mixer]
  /\ disk \in Files /\ running = disk
  /\ unloading = FALSE /\ reactor_stop = FALSE
  /\ count = [e \in Events |-> 0]

Next == Reactor \/ Worker \/ StopReactor \/ Environment

Spec == Init /\ [][Next]_vars

\* The tasks are polled when they can go on; file access and systemctl return.
FairSpec ==
  Spec /\ WF_vars(Reactor) /\ WF_vars(Worker) /\ WF_vars(StopReactor)

(***************************************************************************)
(* Properties                                                              *)
(***************************************************************************)
\* Types; a fragment is rendered only from an endpoint MPD can be given, so
\* nothing else is ever compared or written.
TypeOK ==
  /\ route \in Snapshots /\ registered \in BOOLEAN
  /\ reactor_pc \in {"fetch", "register", "wait", "send", "stopped",
                     "aborted"}
  /\ wake \in BOOLEAN /\ snapshot \in Snapshots
  /\ endpoints \in Snapshots /\ endpoints_new \in BOOLEAN
  /\ mixer \in Mixers /\ mixer_new \in BOOLEAN
  /\ worker_pc \in {"unspawned", "snapshot", "compare", "write", "restart",
                    "select", "stopped", "aborted"}
  /\ cycle \in [endpoint : Snapshots, mixer : Mixers]
  /\ worker_pc \in {"compare", "write", "restart"} => cycle \in Fragments
  /\ status \in {"Idle", "Restarted", "Failed"}
  /\ disk \in Files /\ running \in Files
  /\ unloading \in BOOLEAN /\ reactor_stop \in BOOLEAN
  /\ count \in [Events -> Nat]

Never(e) == count[e] = 0

\* A cycle that skips the restart because the fragment is on disk already.
Skips == worker_pc = "compare" /\ worker_pc' = "select"

\* apply_fragment_cycle: "MPD's audio_output is already what we would have
\* written" whenever a cycle is skipped, also in the first cycle of a later load,
\* as long as no restart failed and none was cut off by an abort.
SkipIsSafe ==
  [][Skips /\ Never("restart_error") /\ Never("torn") => running = cycle]_vars

\* "restarting it under active playback is exactly the fault": as long as
\* nothing failed and MPD was left alone, it is never restarted for a fragment
\* it already runs with, however many spurious route changes there are.
RestartBringsNews ==
  [][/\ worker_pc = "restart" /\ worker_pc' = "select"
     /\ \A e \in {"restart_error", "read_error", "bounce", "torn"} : Never(e)
     => running # disk]_vars

Loaded ==
  route \in Renderable =>
    running = [endpoint |-> route, mixer |-> mixer]

Failed ==
  \E e \in {"early", "fetch_error", "write_error", "restart_error", "torn"} :
    ~Never(e)

\* Once routes and mixer stop changing, MPD runs with the last of both, also when
\* the plugin was loaded a second time, unless a call failed, the route changed
\* while the reactor was being set up, a restart was cut off, or the plugin is
\* unloaded.
LastRouteIsLoaded ==
  <>[](Loaded \/ Failed \/ unloading \/ worker_pc = "aborted")

\* Unload ends both tasks wherever they are, and does not need its budget for it
\* as long as file access and systemctl return; when the budget runs out they
\* end with the process.
UnloadCompletes ==
  unloading ~> worker_pc \in Over /\ reactor_pc \in Over

\* The fragment worker of lib.rs comes to rest: with the last route loaded in
\* MPD when it is left alone, and over when the plugin is unloaded at any point
\* of a cycle.
WorkerSettles ==
  /\ LastRouteIsLoaded
  /\ UnloadCompletes
===============================================================================
