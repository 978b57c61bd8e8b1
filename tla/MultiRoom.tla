------------------------------ MODULE MultiRoom ------------------------------
(***************************************************************************)
(* Source-host election over the audio plane (crates/evo-multiroom): every *)
(* node elects the source-host of a group among the members it hears on    *)
(* its connections (election.rs), a node that elects itself dials the      *)
(* other members, and the receivers' sync probes keep the connections      *)
(* alive that the next election counts (audio_plane.rs).                   *)
(*                                                                         *)
(* Device ids are numbers, so that they have an order.  One group, whose   *)
(* record the framework's group store gives every node alike.              *)
(***************************************************************************)
EXTENDS Integers, FiniteSets

CONSTANTS
  Nodes,       \* device ids
  Tasks,       \* <<node, name>> for each task that evaluates; name "timer" or "bus"
  Settings,    \* the records the group may have
  Nobody,      \* an election that found no candidate
  None,
  MaxSockets,
  MaxRaces,    \* how often a node dials while a connection is being made, or
               \* a connection is made while the old one is being reaped
  MaxTrouble,  \* how many of the events below happen
  Allowed

\* cut: the network stops carrying.  change: the operator edits the group.
\* put: the election table cannot be written.  dial: the operator or the
\* announce pump dials a peer.
Troubles == {"cut", "restart", "change", "put", "dial"}
Sockets == 1..MaxSockets

ASSUME NodesAssumption == Nodes \subseteq Nat /\ IsFiniteSet(Nodes)
ASSUME TasksAssumption ==
  /\ Tasks \subseteq Nodes \X {"timer", "bus"}
  /\ \A n \in Nodes : <<n, "timer">> \in Tasks
ASSUME SettingsAssumption ==
  Settings \subseteq [members : SUBSET Nodes, pin : Nodes \cup {None}]
ASSUME NamesAssumption == {None, Nobody} \cap Nodes = {} /\ None # Nobody
ASSUME BoundsAssumption ==
  /\ MaxSockets \in Nat /\ MaxRaces \in Nat /\ MaxTrouble \in Nat
  /\ Allowed \subseteq Troubles

VARIABLES
  group, net,        \* the group's record; the network carries
  table, mirror,     \* each node's election: persisted, and in memory
  up,                \* "boot" until start returns, "off" when it failed
  task,              \* what each evaluating task is doing
  socket,            \* TCP connections and the state of their two ends
  reaping,           \* peers a sweep has found silent
  overlapped,        \* history: nodes on which two evaluations overlapped
  races, happened

electionVars == <<table, mirror, up, task, overlapped>>
planeVars == <<socket, reaping>>
world == <<group, net>>
vars == <<world, electionVars, planeVars, races, happened>>

Happens(e) ==
  /\ e \in Allowed \ happened /\ Cardinality(happened) < MaxTrouble
  /\ happened' = happened \cup {e}

------------------------------------------------------------------------------
(* Connections.  An end that is registered says how long ago it heard the  *)
(* other: within the liveness window, and then whether the timer has       *)
(* counted it since, before it, or before the reap threshold.  An entry    *)
(* made after its read task had ended hears nobody: it counts as alive     *)
(* ("deaf") until it is old enough to be reaped ("mute").                  *)

Alive == {"fresh", "counted", "deaf"}
Reapable == {"dead", "mute"}
Registered == Alive \cup Reapable \cup {"stale"}

Ends(k) == {socket[k].from, socket[k].to}
Open == {k \in Sockets : socket[k] # None}
Peer(n, k) == IF socket[k].from = n THEN socket[k].to ELSE socket[k].from

\* The connection map holds at most one entry for a peer.
Entries(n, m) == {k \in Open : Ends(k) = {n, m} /\ socket[k].end[n] \in Registered}
InFlight(n, m) ==
  \E k \in Open : /\ socket[k].from = n /\ socket[k].to = m /\ socket[k].claimed
                  /\ socket[k].end[n] \in {"syn", "hello"}

Races == races < MaxRaces /\ races' = races + 1

\* A connection is being made, in one direction or the other.
Handshaking(n, m) ==
  \E k \in Open : Ends(k) = {n, m} /\ \E i \in {n, m} : socket[k].end[i] \in {"syn", "hello"}

\* Mutant: a socket both ends have closed is kept.
ReleasedLate(s) == s

\* A socket both ends have closed is gone.
Released(s) == IF \A n \in {s.from, s.to} : s.end[n] = "shut" THEN None ELSE s

\* The end of n of every socket in ks is closed.
Shut(ks, n) ==
  [k \in Sockets |-> IF k \in ks THEN Released([socket[k] EXCEPT !.end[n] = "shut"])
                     ELSE socket[k]]

\* Both ends have the same connection for their entry.
Joined(n, m) == net /\ Entries(n, m) \cap Entries(m, n) # {}

\* A receiver probes its source-host, which answers: both hear each other.
Probing(n, m) == Joined(n, m) /\ (mirror[n] = m \/ mirror[m] = n)

\* live_device_set: the local node and the peers heard within the window.
Live(n) == {n} \cup {m \in Nodes : \E k \in Entries(n, m) : socket[k].end[n] \in Alive}

------------------------------------------------------------------------------
(* Election.                                                               *)

Least(S) == CHOOSE n \in S : \A m \in S : n <= m

\* Mutant: a node that is a candidate prefers itself.
ElectedSelf(n, g, live) ==
  LET candidates == g.members \cap live
  IN  IF n \in candidates THEN n
      ELSE IF candidates = {} THEN Nobody ELSE Least(candidates)

\* The pinned member if it is live, or else the least live one.
Elected(n, g, live) ==
  LET candidates == g.members \cap live
  IN  IF g.pin \in candidates THEN g.pin
      ELSE IF candidates = {} THEN Nobody ELSE Least(candidates)

IdleTask == [pc |-> "idle", seen |-> None, host |-> None]
Idle(n) == \A t \in Tasks : t[1] = n => task[t].pc = "idle"

\* evaluate returns; the first one lets start spawn the tasks, or not.
Returns(t, ok) ==
  /\ task' = [task EXCEPT ![t] = IdleTask]
  /\ up' = IF up[t[1]] # "boot" THEN up
           ELSE [up EXCEPT ![t[1]] = IF ok THEN "on" ELSE "off"]

\* The timer has counted the peers that are alive and may fall silent now.
Counted(n) ==
  [k \in Sockets |-> IF /\ k \in Open /\ n \in Ends(k) /\ socket[k].end[n] = "fresh"
                        /\ ~Probing(n, Peer(n, k))
                     THEN [socket[k] EXCEPT !.end[n] = "counted"] ELSE socket[k]]

\* The timer comes round, or a happening about a peer or a group arrives: the
\* group is read.
Evaluate(t) ==
  LET n == t[1]
  IN  /\ task[t].pc = "idle"
      /\ up[n] = "on" \/ (up[n] = "boot" /\ t[2] = "timer")
      /\ task' = [task EXCEPT ![t] = [pc |-> "view", seen |-> group, host |-> None]]
      /\ overlapped' = IF Idle(n) THEN overlapped ELSE overlapped \cup {n}
      /\ UNCHANGED <<world, table, mirror, up, planeVars, races, happened>>

Choose(t, host) ==
  /\ task' = [task EXCEPT ![t] = [pc |-> "put", seen |-> None, host |-> host]]
  /\ UNCHANGED up

\* Mutant: a group that has a source-host keeps it.
ViewOnce(t) ==
  LET n == t[1]
      host == Elected(n, task[t].seen, Live(n))
  IN  /\ task[t].pc = "view"
      /\ IF mirror[n] # None THEN Returns(t, TRUE) ELSE Choose(t, host)
      /\ socket' = IF t[2] = "timer" THEN Counted(n) ELSE socket
      /\ UNCHANGED <<world, table, mirror, overlapped, reaping, races, happened>>

\* Then the live set is read; an unchanged election is skipped.
View(t) ==
  LET n == t[1]
      host == Elected(n, task[t].seen, Live(n))
  IN  /\ task[t].pc = "view"
      /\ IF mirror[n] = host THEN Returns(t, TRUE) ELSE Choose(t, host)
      /\ socket' = IF t[2] = "timer" THEN Counted(n) ELSE socket
      /\ UNCHANGED <<world, table, mirror, overlapped, reaping, races, happened>>

\* Mutant: a write that failed is taken for done.
PutAnyway(t) ==
  LET n == t[1]
  IN  /\ task[t].pc = "put"
      /\ \/ table' = [table EXCEPT ![n] = task[t].host] /\ UNCHANGED happened
         \/ Happens("put") /\ UNCHANGED table
      /\ task' = [task EXCEPT ![t].pc = "insert"]
      /\ UNCHANGED <<world, mirror, up, overlapped, planeVars, races>>

\* put_source_host_election; its error ends the evaluation.
Put(t) ==
  LET n == t[1]
  IN  /\ task[t].pc = "put"
      /\ \/ /\ table' = [table EXCEPT ![n] = task[t].host]
            /\ task' = [task EXCEPT ![t].pc = "insert"]
            /\ UNCHANGED <<up, happened>>
         \/ Happens("put") /\ Returns(t, FALSE) /\ UNCHANGED table
      /\ UNCHANGED <<world, mirror, overlapped, planeVars, races>>

Insert(t) ==
  /\ task[t].pc = "insert"
  /\ mirror' = [mirror EXCEPT ![t[1]] = task[t].host]
  /\ Returns(t, TRUE)
  /\ UNCHANGED <<world, table, overlapped, planeVars, races, happened>>

------------------------------------------------------------------------------
(* The audio plane.                                                        *)

NewSocket(n, m, claimed) ==
  /\ Open # Sockets
  /\ LET k == Least(Sockets \ Open)
     IN  socket' = [socket EXCEPT ![k] =
           [from |-> n, to |-> m, claimed |-> claimed,
            end |-> [i \in Nodes |-> IF i = n THEN "syn"
                                     ELSE IF i = m THEN "none" ELSE "shut"]]]

\* ensure_outbound_connections: a source-host dials every other member it has
\* no connection to and is not dialling.
Dial(n, m) ==
  /\ mirror[n] = n /\ m \in group.members \ {n}
  /\ Entries(n, m) = {} /\ ~InFlight(n, m)
  /\ NewSocket(n, m, TRUE)
  /\ IF Handshaking(n, m) THEN Races ELSE UNCHANGED races
  /\ UNCHANGED <<world, electionVars, reaping, happened>>

\* dial_peer asks nothing.
DialPeer(n, m) ==
  /\ n # m /\ Happens("dial") /\ NewSocket(n, m, FALSE)
  /\ UNCHANGED <<world, electionVars, reaping, races>>

\* Both ends write their Hello at once.
Connect(k) ==
  /\ socket[k].end[socket[k].from] = "syn" /\ net
  /\ socket' = [socket EXCEPT ![k].end = [n \in Nodes |-> IF n \in Ends(k) THEN "hello"
                                                          ELSE "shut"]]
  /\ UNCHANGED <<world, electionVars, reaping, races, happened>>

\* The dial is given up; a later sweep tries again.
ConnectFails(k) ==
  /\ socket[k].end[socket[k].from] = "syn" /\ ~net
  /\ socket' = [socket EXCEPT ![k] = None]
  /\ UNCHANGED <<world, electionVars, reaping, races, happened>>

\* The peer's Hello is in: its entry replaces an earlier one, whose tasks are
\* aborted and whose socket closes with them.
RegisterAs(n, k, e) ==
  LET m == Peer(n, k)
  IN  /\ socket[k].end[n] = "hello" /\ net
      /\ socket' = [Shut(Entries(n, m), n) EXCEPT ![k].end[n] = e]
      /\ IF m \in reaping[n] THEN Races ELSE UNCHANGED races
      /\ UNCHANGED <<world, electionVars, reaping, happened>>

Register(n, k) == RegisterAs(n, k, "fresh")

\* The peer closes at once: the read task, spawned before the entry is made,
\* ends and removes the peer's earlier entry, and nobody will remove this one.
RegisterDeaf(n, k) == socket[k].end[Peer(n, k)] = "shut" /\ RegisterAs(n, k, "deaf")

\* The read task of the entry that is being replaced was past its abort:
\* mark_disconnected goes by the peer and removes the new entry.
RegisterLost(n, k) ==
  LET m == Peer(n, k)
  IN  /\ socket[k].end[n] = "hello" /\ net /\ Races
      /\ \E o \in Entries(n, m) : socket[o].end[n] \notin {"deaf", "mute"}
                                 /\ socket[o].end[m] = "shut"
      /\ socket' = Shut(Entries(n, m) \cup {k}, n)
      /\ UNCHANGED <<world, electionVars, reaping, happened>>

\* No Hello within five seconds, or the end of the stream.
HelloFails(n, k) ==
  /\ socket[k].end[n] = "hello"
  /\ ~net \/ socket[k].end[Peer(n, k)] = "shut"
  /\ socket' = Shut({k}, n)
  /\ UNCHANGED <<world, electionVars, reaping, races, happened>>

\* The read loop ends and removes the entry (mark_disconnected).
ReadEnds(n, k) ==
  /\ socket[k].end[n] \in Registered \ {"deaf", "mute"}
  /\ net /\ socket[k].end[Peer(n, k)] = "shut"
  /\ socket' = Shut({k}, n)
  /\ UNCHANGED <<world, electionVars, reaping, races, happened>>

\* A sync probe or its answer arrives; other messages come on top of these.
Hear(n, m) ==
  \E k \in Entries(n, m) :
    /\ Probing(n, m) /\ socket[k].end[n] # "fresh"
    /\ socket' = [socket EXCEPT ![k].end[n] = "fresh"]
    /\ UNCHANGED <<world, electionVars, reaping, races, happened>>

\* One end of a connection has closed and the other is about to notice.
Closing(n, m) ==
  \E k \in Open : /\ Ends(k) = {n, m} /\ \E i \in {n, m} : socket[k].end[i] = "shut"
                  /\ \A i \in {n, m} : socket[k].end[i] \notin {"deaf", "mute"}

\* An evaluation that has read the live set is writing what it elected.
Deciding(n) == \E t \in Tasks : t[1] = n /\ task[t].pc \in {"put", "insert"}

\* Evaluations and reaping take much less than the window, and so do handshakes
\* and closing while the network carries.
Settled(n, m) ==
  /\ ~Deciding(n) /\ ~Deciding(m) /\ (net => ~Handshaking(n, m) /\ ~Closing(n, m))
  /\ m \notin reaping[n] /\ n \notin reaping[m]

\* A timer is still to count the end that n has of the connection.
Uncounted(n, k) == socket[k].end[n] = "fresh" /\ up[n] = "on"

\* Silence passes the liveness window, then the reap threshold.  The timer
\* comes round twice within the window, on both ends.
Age(n, m) ==
  \E k \in Entries(n, m) :
    LET e == socket[k].end[n]
    IN  /\ ~Probing(n, m) /\ Settled(n, m)
        /\ \A i \in {n, m} : ~Uncounted(i, k)
        /\ \/ /\ e \in Alive \ {"deaf"}
              /\ socket' = [socket EXCEPT ![k].end[n] = "stale"]
           \/ e = "stale" /\ socket' = [socket EXCEPT ![k].end[n] = "dead"]
           \/ e = "deaf" /\ socket' = [socket EXCEPT ![k].end[n] = "mute"]
        /\ UNCHANGED <<world, electionVars, reaping, races, happened>>

\* reap_idle_connections lists the silent peers, then disconnects each.
ReapList(n) ==
  LET silent == {m \in Nodes : \E k \in Entries(n, m) : socket[k].end[n] \in Reapable}
  IN  /\ reaping[n] = {} /\ silent # {}
      /\ reaping' = [reaping EXCEPT ![n] = silent]
      /\ UNCHANGED <<world, electionVars, socket, races, happened>>

Reap(n, m) ==
  /\ m \in reaping[n]
  /\ reaping' = [reaping EXCEPT ![n] = @ \ {m}]
  /\ socket' = Shut(Entries(n, m), n)
  /\ UNCHANGED <<world, electionVars, races, happened>>

------------------------------------------------------------------------------
(* The world.                                                              *)

Cut ==
  /\ net /\ net' = FALSE /\ Happens("cut")
  /\ UNCHANGED <<group, electionVars, planeVars, races>>

Heal ==
  /\ ~net /\ net' = TRUE
  /\ UNCHANGED <<group, electionVars, planeVars, races, happened>>

Change ==
  /\ group' \in Settings \ {group} /\ Happens("change")
  /\ UNCHANGED <<net, electionVars, planeVars, races>>

\* The mirror is rehydrated before start evaluates.
Restart(n) ==
  /\ Happens("restart")
  /\ mirror' = [mirror EXCEPT ![n] = table[n]]
  /\ up' = [up EXCEPT ![n] = "boot"]
  /\ task' = [t \in Tasks |-> IF t[1] = n THEN IdleTask ELSE task[t]]
  /\ socket' = [k \in Sockets |->
       IF k \notin Open \/ n \notin Ends(k) THEN socket[k]
       ELSE IF socket[k].end[socket[k].from] = "syn" THEN None
       ELSE Released([socket[k] EXCEPT !.end[n] = "shut"])]
  /\ reaping' = [reaping EXCEPT ![n] = {}]
  /\ UNCHANGED <<world, table, overlapped, races>>

------------------------------------------------------------------------------
Init ==
  /\ group \in Settings /\ group.members = Nodes /\ group.pin = None /\ net = TRUE
  /\ table = [n \in Nodes |-> None] /\ mirror = table
  /\ up = [n \in Nodes |-> "boot"]
  /\ task = [t \in Tasks |-> IdleTask]
  /\ socket = [k \in Sockets |-> None]
  /\ reaping = [n \in Nodes |-> {}]
  /\ overlapped = {} /\ races = 0 /\ happened = {}

TaskStep(t) == View(t) \/ Put(t) \/ Insert(t)
SocketStep(k) ==
  Connect(k) \/ ConnectFails(k)
  \/ \E n \in Ends(k) : Register(n, k) \/ RegisterDeaf(n, k) \/ RegisterLost(n, k)
                      \/ HelloFails(n, k) \/ ReadEnds(n, k)

Next ==
  \/ \E t \in Tasks : Evaluate(t) \/ TaskStep(t)
  \/ \E k \in Open : SocketStep(k)
  \/ \E n, m \in Nodes : Dial(n, m) \/ DialPeer(n, m) \/ Hear(n, m) \/ Age(n, m)
                         \/ Reap(n, m)
  \/ \E n \in Nodes : ReapList(n) \/ Restart(n)
  \/ Cut \/ Heal \/ Change

Spec == Init /\ [][Next]_vars

\* Timers come round and every task runs; TCP connects and closes; a probe is
\* answered; silence lasts.  Nothing makes happenings arrive.
FairSpec ==
  /\ Spec
  /\ \A n \in Nodes : WF_vars(Evaluate(<<n, "timer">>))
  /\ \A t \in Tasks : WF_vars(TaskStep(t))
  /\ \A k \in Sockets : WF_vars(k \in Open /\ SocketStep(k))
  /\ \A n, m \in Nodes :
       /\ WF_vars(Dial(n, m)) /\ WF_vars(Reap(n, m)) /\ WF_vars(Age(n, m))
       /\ WF_vars(Hear(n, m))
  /\ \A n \in Nodes : WF_vars(ReapList(n))

------------------------------------------------------------------------------
Hosts == Nodes \cup {Nobody, None}
Task == [pc : {"idle", "put", "insert"}, seen : {None}, host : Hosts]
        \cup [pc : {"view"}, seen : Settings, host : {None}]
EndStates == {"none", "syn", "hello", "shut"} \cup Registered
Socket == [from : Nodes, to : Nodes, claimed : BOOLEAN, end : [Nodes -> EndStates]]

TypeOK ==
  /\ group \in Settings /\ net \in BOOLEAN
  /\ table \in [Nodes -> Hosts] /\ mirror \in [Nodes -> Hosts]
  /\ up \in [Nodes -> {"boot", "on", "off"}]
  /\ task \in [Tasks -> Task]
  /\ socket \in [Sockets -> Socket \cup {None}]
  /\ \A k \in Open : \E n \in Ends(k) : socket[k].end[n] # "shut"
  /\ \A n, m \in Nodes : Cardinality(Entries(n, m)) <= 1
  /\ reaping \in [Nodes -> SUBSET Nodes]
  /\ overlapped \subseteq Nodes /\ races \in 0..MaxRaces /\ happened \subseteq Troubles

\* "Every transition writes through the substrate": between evaluations the
\* table holds what the mirror answers, whatever writes failed and whenever the
\* node stopped, unless two evaluations of the node overlapped.
TableKept ==
  \A n \in Nodes : Idle(n) /\ n \notin overlapped => table[n] = mirror[n]

\* The source-host everyone should settle on.
Rightful == IF group.pin \in group.members THEN group.pin ELSE Least(group.members)

\* "exactly one member device is the source-host": with the network carrying and
\* both runtimes up, all nodes come to name the same member and keep to it.
\* The election counts whom the plane hears, and the plane probes whom the
\* election named.
Agreement ==
  <>[](net /\ group.members = Nodes /\ \A n \in Nodes : up[n] # "off")
    => <>[](\A n \in Nodes : mirror[n] = Rightful)

\* "each side independently elects a different source-host on its own view": a
\* member that is cut off for good becomes its own source-host.
AloneHosts ==
  <>[](~net /\ group.members = Nodes /\ \A n \in Nodes : up[n] # "off")
    => <>[](\A n \in Nodes : mirror[n] = n)

\* Election and audio plane keep their books at every step: the mirror and
\* the persisted table agree between evaluations (election.rs put, insert),
\* and a peer table has one entry per peer (audio_plane.rs), however dials
\* cross.
ElectionInv ==
  /\ TypeOK
  /\ TableKept
==============================================================================
