------------------------- MODULE FragmentWorkerProofs -------------------------
(***************************************************************************)
(* The dedupe of apply_fragment_cycle, for any set of endpoints and mixer  *)
(* configurations and any number of route changes and failures.            *)
(***************************************************************************)
EXTENDS FragmentWorker, TLAPS

\* A fragment that is on disk is the one MPD runs with, except between the
\* write and the restart, after a restart that failed and after one that an
\* abort cut off.
DiskIsRunning ==
  Never("restart_error") /\ Never("torn") /\ worker_pc # "restart" =>
    running = disk

\* Nothing happened behind the worker's back.
Clean == \A e \in {"restart_error", "read_error", "bounce", "torn"} : Never(e)

\* What the worker writes differs from what was on disk, and hence from what
\* MPD runs with.
WritesNews ==
  Clean => /\ worker_pc = "write" => disk # cycle
           /\ worker_pc = "restart" => running # disk

\* The worker is spawned after the reactor's callback is registered.
NotSpawned ==
  reactor_pc \in {"fetch", "register"} <=> worker_pc = "unspawned"

IInv == TypeOK /\ NotSpawned /\ DiskIsRunning /\ WritesNews

(***************************************************************************)
(* TypeOK is inductive by itself.                                          *)
(***************************************************************************)
LEMMA InitType == Init => TypeOK
<1> SUFFICES ASSUME Init PROVE TypeOK
  OBVIOUS
<1>1. count \in [Events -> Nat]
  BY DEF Init
<1>2. cycle \in [endpoint : Snapshots, mixer : Mixers]
  BY DEF Init, Snapshots
<1>3. worker_pc \notin {"compare", "write", "restart"}
  BY DEF Init
<1> QED
  BY <1>1, <1>2, <1>3 DEF Init, TypeOK, Snapshots

\* Spending an event keeps the counters' type and counts up.
LEMMA SpendType ==
  ASSUME NEW e \in Events, count \in [Events -> Nat], Spend(e)
  PROVE  /\ count' \in [Events -> Nat]
         /\ count'[e] # 0
         /\ \A f \in Events : count'[f] = 0 => count[f] = 0
  BY DEF Spend

LEMMA NextType == TypeOK /\ [Next]_vars => TypeOK'
<1> SUFFICES ASSUME TypeOK, [Next]_vars PROVE TypeOK'
  OBVIOUS
<1> USE EndpointAssumption
<1> USE DEF TypeOK, Snapshots, Files, Fragments
<1>c. ASSUME NEW e \in Events, Spend(e) PROVE count' \in [Events -> Nat]
  BY <1>c, SpendType
<1>1. CASE PublishTopology
  BY <1>1, <1>c DEF PublishTopology, Events, chanVars, workerVars, mpdVars,
                    stopVars
<1>18. CASE ClearTopology
  BY <1>18, <1>c DEF ClearTopology, Events, reactorVars, chanVars, workerVars,
                     mpdVars, stopVars
<1>2. CASE SendMixer
  BY <1>2, <1>c DEF SendMixer, Events, routeVars, reactorVars, workerVars,
                    mpdVars, stopVars
<1>3. CASE MpdBounces
  BY <1>3, <1>c DEF MpdBounces, Events, routeVars, reactorVars, chanVars,
                    workerVars, stopVars
<1>4. CASE FetchInitial
  <2>1. count' \in [Events -> Nat]
    BY <1>4, <1>c DEF FetchInitial, Fetch, Events
  <2> QED
    BY <1>4, <2>1 DEF FetchInitial, routeVars, workerVars, mpdVars, stopVars
<1>5. CASE OnRouteChange
  BY <1>5 DEF OnRouteChange, chanVars, mpdVars, stopVars
<1>6. CASE ReactorWakes
  <2>1. count' \in [Events -> Nat]
    BY <1>6, <1>c DEF ReactorWakes, Fetch, Events
  <2>2. wake' \in BOOLEAN
    BY <1>6, Zenon DEF ReactorWakes
  <2> QED
    BY <1>6, <2>1, <2>2 DEF ReactorWakes, routeVars, chanVars, workerVars, mpdVars,
                      stopVars
<1>7. CASE ReactorSends
  BY <1>7 DEF ReactorSends, routeVars, workerVars, mpdVars, stopVars
<1>8. CASE ReactorStops
  BY <1>8 DEF ReactorStops, routeVars, chanVars, workerVars, mpdVars, stopVars
<1>9. CASE TakeSnapshots
  <2>1. endpoints_new' \in BOOLEAN /\ mixer_new' \in BOOLEAN
    BY <1>9, Zenon DEF TakeSnapshots, Seen
  <2>2. cycle' \in [endpoint : Snapshots, mixer : Mixers]
    BY <1>9 DEF TakeSnapshots
  <2>3. worker_pc' \in {"compare", "write", "restart"} => cycle' \in Fragments
    BY <1>9 DEF TakeSnapshots
  <2> QED
    BY <1>9, <2>1, <2>2, <2>3 DEF TakeSnapshots, routeVars, reactorVars,
         mpdVars, stopVars
<1>10. CASE CompareFragment
  BY <1>10, <1>c DEF CompareFragment, Events, routeVars, reactorVars, chanVars,
                     mpdVars, stopVars
<1>11. CASE WriteFragment
  BY <1>11, <1>c DEF WriteFragment, Events, routeVars, reactorVars, chanVars,
                     stopVars
<1>12. CASE RestartMpd
  <2>1. count' \in [Events -> Nat]
    BY <1>12, <1>c DEF RestartMpd, Events
  <2>2. status' \in {"Idle", "Restarted", "Failed"} /\ running' \in Files
    BY <1>12 DEF RestartMpd
  <2> QED
    BY <1>12, <2>1, <2>2 DEF RestartMpd, routeVars, reactorVars, chanVars,
                             stopVars
<1>13. CASE WorkerWakes
  BY <1>13 DEF WorkerWakes, routeVars, reactorVars, chanVars, mpdVars, stopVars
<1>14. CASE WorkerStops
  BY <1>14 DEF WorkerStops, routeVars, reactorVars, chanVars, mpdVars, stopVars
<1>15. CASE StopFragmentWorker
  BY <1>15 DEF StopFragmentWorker, routeVars, reactorVars, chanVars,
               workerVars, mpdVars
<1>16. CASE StopReactor
  <2>1. registered' \in BOOLEAN /\ reactor_stop' \in BOOLEAN
    BY <1>16, Zenon DEF StopReactor
  <2> QED
    BY <1>16, <2>1 DEF StopReactor, reactorVars, chanVars, workerVars, mpdVars
<1>19. CASE Abort
  <2>1. count' \in [Events -> Nat]
    BY <1>19, <1>c DEF Abort, Events
  <2>2. registered' \in BOOLEAN
    BY <1>19, Zenon DEF Abort
  <2>3. running' \in Files
    BY <1>19 DEF Abort
  <2> QED
    BY <1>19, <2>1, <2>2, <2>3 DEF Abort, chanVars, stopVars
<1>20. CASE Load
  <2>1. count' \in [Events -> Nat]
    BY <1>20, <1>c DEF Load, Events
  <2>2. /\ registered' \in BOOLEAN /\ wake' \in BOOLEAN
        /\ endpoints_new' \in BOOLEAN /\ mixer_new' \in BOOLEAN
        /\ unloading' \in BOOLEAN /\ reactor_stop' \in BOOLEAN
    BY <1>20, Zenon DEF Load
  <2>3. cycle' \in [endpoint : Snapshots, mixer : Mixers] /\ mixer' \in Mixers
    BY <1>20 DEF Load
  <2> QED
    BY <1>20, <2>1, <2>2, <2>3 DEF Load, mpdVars
<1>17. CASE UNCHANGED vars
  BY <1>17 DEF vars, routeVars, reactorVars, chanVars, workerVars, mpdVars,
               stopVars
<1> QED
  BY <1>1, <1>2, <1>3, <1>4, <1>5, <1>6, <1>7, <1>8, <1>9, <1>10, <1>11,
     <1>12, <1>13, <1>14, <1>15, <1>16, <1>17, <1>18, <1>19, <1>20
  DEF Next, Reactor, Worker, Environment

\* TypeOK always holds: no snapshot, fragment or file ever is of another kind,
\* and only renderable endpoints are compared and written.
THEOREM TypeCorrect == Spec => []TypeOK
  BY InitType, NextType, PTL DEF Spec

(***************************************************************************)
(* The dedupe.                                                             *)
(***************************************************************************)
\* Counters never go down.
LEMMA CountGrows ==
  TypeOK /\ [Next]_vars => \A e \in Events : count'[e] = 0 => count[e] = 0
<1> SUFFICES ASSUME TypeOK, [Next]_vars
             PROVE  \A e \in Events : count'[e] = 0 => count[e] = 0
  OBVIOUS
<1>1. count \in [Events -> Nat]
  BY DEF TypeOK
<1>2. CASE \E e \in Events : Spend(e)
  BY <1>1, <1>2, SpendType
<1>3. CASE UNCHANGED count
  BY <1>3
<1>4. (\E e \in Events : Spend(e)) \/ UNCHANGED count
  BY DEF Next, Reactor, Worker, Environment, PublishTopology,
         ClearTopology, SendMixer, MpdBounces, FetchInitial, Fetch, OnRouteChange, ReactorWakes,
         ReactorSends, ReactorStops, TakeSnapshots, CompareFragment,
         WriteFragment, RestartMpd, WorkerWakes, WorkerStops,
         StopFragmentWorker, StopReactor, Abort, Load, Events, vars
<1> QED
  BY <1>2, <1>3, <1>4

LEMMA InitInv == Init => IInv
<1> SUFFICES ASSUME Init PROVE IInv
  OBVIOUS
<1>1. TypeOK
  BY InitType
<1>2. NotSpawned /\ DiskIsRunning /\ WritesNews
  BY DEF Init, NotSpawned, DiskIsRunning, WritesNews
<1> QED
  BY <1>1, <1>2 DEF IInv

LEMMA NextInv == IInv /\ [Next]_vars => IInv'
<1> SUFFICES ASSUME IInv, [Next]_vars PROVE IInv'
  OBVIOUS
<1> USE DEF IInv
<1>t. TypeOK'
  BY NextType
<1>g. /\ count'["restart_error"] = 0 => count["restart_error"] = 0
      /\ count'["read_error"] = 0 => count["read_error"] = 0
      /\ count'["bounce"] = 0 => count["bounce"] = 0
      /\ count'["torn"] = 0 => count["torn"] = 0
  BY CountGrows DEF Events
<1>s. ASSUME NEW e \in Events, Spend(e) PROVE count'[e] # 0
  BY <1>s, SpendType DEF TypeOK
<1> USE DEF Never
<1>n. NotSpawned'
  BY DEF NotSpawned, TypeOK, Next, Reactor, Worker, Environment,
         PublishTopology, ClearTopology, SendMixer, MpdBounces, FetchInitial,
         OnRouteChange,
         ReactorWakes, ReactorSends, ReactorStops, TakeSnapshots,
         CompareFragment, WriteFragment, RestartMpd, WorkerWakes, WorkerStops,
         StopFragmentWorker, StopReactor, Abort, Load, Over, vars, reactorVars,
         workerVars
<1> SUFFICES DiskIsRunning' /\ WritesNews'
  BY <1>t, <1>n
\* Steps that leave the file, MPD and the worker's cycle alone.
<1>q. ASSUME UNCHANGED <<disk, running, cycle>>,
             worker_pc' = worker_pc \/ worker_pc' \notin {"write", "restart"},
             worker_pc = "restart" => worker_pc' = "restart"
      PROVE  DiskIsRunning' /\ WritesNews'
  <2>1. DiskIsRunning'
    BY <1>g, <1>q DEF DiskIsRunning, Never
  <2>2. WritesNews'
    BY <1>g, <1>q DEF WritesNews, Clean, Never
  <2> QED BY <2>1, <2>2
<1>1. CASE Reactor \/ StopReactor \/ PublishTopology \/ ClearTopology
             \/ SendMixer \/ StopFragmentWorker \/ UNCHANGED vars
  <2>1. /\ UNCHANGED <<disk, running, cycle>>
        /\ \/ UNCHANGED worker_pc
           \/ worker_pc' = "snapshot" /\ worker_pc # "restart"
    <3>1. CASE OnRouteChange
      BY <3>1 DEF OnRouteChange, mpdVars, NotSpawned
    <3>2. CASE ~OnRouteChange
      BY <1>1, <3>2 DEF Reactor, FetchInitial, ReactorWakes, ReactorSends,
           ReactorStops, StopReactor, PublishTopology, ClearTopology, SendMixer,
           StopFragmentWorker, vars, workerVars, mpdVars
    <3> QED BY <3>1, <3>2
  <2> QED BY <1>q, <2>1
<1>2. CASE MpdBounces
  <2>1. count'["bounce"] # 0
    BY <1>2, <1>s DEF MpdBounces, Events
  <2> QED
    BY <1>2, <2>1, <1>g DEF MpdBounces, workerVars, DiskIsRunning, WritesNews,
                            Clean
<1>3. CASE TakeSnapshots
  BY <1>3, <1>g DEF TakeSnapshots, mpdVars, DiskIsRunning, WritesNews, Clean,
                    Never
<1>4. CASE CompareFragment
  <2>1. CASE Spend("read_error")
    <3>1. count'["read_error"] # 0
      BY <2>1, <1>s DEF Events
    <3> QED
      BY <1>4, <3>1, <1>g DEF CompareFragment, mpdVars, DiskIsRunning,
           WritesNews, Clean
  <2>2. CASE ~Spend("read_error")
    BY <1>4, <2>2, <1>g DEF CompareFragment, fragment_content_matches, mpdVars,
         DiskIsRunning, WritesNews, Clean
  <2> QED BY <2>1, <2>2
<1>5. CASE WriteFragment
  BY <1>5, <1>g DEF WriteFragment, DiskIsRunning, WritesNews, Clean, Never
<1>6. CASE RestartMpd
  <2>1. CASE Spend("restart_error")
    <3>1. count'["restart_error"] # 0
      BY <2>1, <1>s DEF Events
    <3> QED
      BY <1>6, <3>1 DEF RestartMpd, DiskIsRunning, WritesNews, Clean
  <2>2. CASE ~Spend("restart_error")
    BY <1>6, <2>2 DEF RestartMpd, DiskIsRunning, WritesNews
  <2> QED BY <2>1, <2>2
<1>7. CASE WorkerWakes \/ WorkerStops
  BY <1>7, <1>q DEF WorkerWakes, WorkerStops, mpdVars
<1>8. CASE Abort
  <2>1. CASE worker_pc = "restart"
    <3>1. count'["torn"] # 0
      BY <1>8, <1>s, <2>1 DEF Abort, Events
    <3> QED
      BY <1>8, <3>1 DEF Abort, DiskIsRunning, WritesNews, Clean
  <2>2. CASE worker_pc # "restart"
    BY <1>8, <1>q, <2>2 DEF Abort
  <2> QED BY <2>1, <2>2
<1>9. CASE Load
  BY <1>9, <1>g DEF Load, Over, mpdVars, DiskIsRunning, WritesNews
<1> QED
  BY <1>1, <1>2, <1>3, <1>4, <1>5, <1>6, <1>7, <1>8, <1>9
  DEF Next, Worker, Environment

LEMMA InvHolds == Spec => []IInv
  BY InitInv, NextInv, PTL DEF Spec

\* Skipping a restart because the fragment is on disk already is safe as long
\* as no restart failed or was cut off by an abort, in every later load of the
\* plugin too: MPD runs with exactly that fragment.
THEOREM SkipsAreSafe == Spec => SkipIsSafe
<1>1. ASSUME IInv, [Next]_vars
      PROVE  [Skips /\ Never("restart_error") /\ Never("torn") =>
                running = cycle]_vars
  <2> SUFFICES ASSUME worker_pc = "compare", worker_pc' = "select",
                      Never("restart_error"), Never("torn")
               PROVE  running = cycle
    BY DEF Skips
  <2>1. CompareFragment
    BY <1>1 DEF IInv, NotSpawned, Next, Reactor, Worker, Environment,
         PublishTopology, ClearTopology, SendMixer, MpdBounces, FetchInitial,
         OnRouteChange,
         ReactorWakes, ReactorSends, ReactorStops, TakeSnapshots,
         WriteFragment, RestartMpd, WorkerWakes, WorkerStops,
         StopFragmentWorker, StopReactor, Abort, Load, vars, workerVars
  <2>2. disk = cycle
    BY <2>1 DEF CompareFragment, fragment_content_matches
  <2>3. running = disk
    BY <1>1 DEF IInv, DiskIsRunning
  <2> QED BY <2>2, <2>3
<1> QED
  BY <1>1, InvHolds, PTL DEF Spec, SkipIsSafe

\* As long as nothing failed and MPD was left alone, every restart of MPD gives
\* it a fragment it does not run with yet.
THEOREM RestartsBringNews == Spec => RestartBringsNews
<1>1. ASSUME IInv
      PROVE  /\ worker_pc = "restart" /\ worker_pc' = "select"
             /\ \A e \in {"restart_error", "read_error", "bounce", "torn"} :
                  Never(e)
             => running # disk
  BY <1>1 DEF IInv, WritesNews, Clean
<1> QED
  BY <1>1, InvHolds, PTL DEF RestartBringsNews
===============================================================================
