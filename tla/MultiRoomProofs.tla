--------------------------- MODULE MultiRoomProofs ---------------------------
(***************************************************************************)
(* The books of election and audio plane, for any nodes, groups, tasks and *)
(* sockets and any number of failures and races.                           *)
(***************************************************************************)
EXTENDS MultiRoom, FiniteSetTheorems, WellFoundedInduction, TLAPS


\* TypeOK without the size of the connection map.
Typed ==
  /\ group \in Settings /\ net \in BOOLEAN
  /\ table \in [Nodes -> Hosts] /\ mirror \in [Nodes -> Hosts]
  /\ up \in [Nodes -> {"boot", "on", "off"}]
  /\ task \in [Tasks -> Task]
  /\ socket \in [Sockets -> Socket \cup {None}]
  /\ reaping \in [Nodes -> SUBSET Nodes]
  /\ overlapped \subseteq Nodes /\ races \in 0..MaxRaces /\ happened \subseteq Troubles

\* A socket that both ends have closed is forgotten.
NoneShut == \A k \in Open : \E n \in Ends(k) : socket[k].end[n] # "shut"

\* A peer has one entry.
OneEntry == \A n, m \in Nodes : \A k, l \in Entries(n, m) : k = l

\* On a node whose evaluations do not overlap one task at most evaluates, and
\* table and mirror differ only between its two writes, when the table holds
\* what the mirror will.
InStep(n) ==
  /\ \A t, u \in Tasks :
       t[1] = n /\ u[1] = n /\ task[t].pc # "idle" /\ task[u].pc # "idle" => t = u
  /\ \A t \in Tasks : t[1] = n /\ task[t].pc \in {"view", "put"} => table[n] = mirror[n]
  /\ \A t \in Tasks : t[1] = n /\ task[t].pc = "insert" => table[n] = task[t].host
  /\ Idle(n) => table[n] = mirror[n]
EvaluationInv == \A n \in Nodes \ overlapped : InStep(n)

IInv == Typed /\ NoneShut /\ OneEntry /\ EvaluationInv

(***************************************************************************)
(* Operators.                                                              *)
(***************************************************************************)
LEMMA LeastExists ==
  ASSUME NEW S, S \subseteq Nat, S # {}
  PROVE  Least(S) \in S
<1>1. PICK x \in S : \A y \in S : ~(<<y, x>> \in OpToRel(<, Nat))
  BY NatLessThanWellFounded, WFMin
<1>2. \A y \in S : x <= y
  <2> SUFFICES ASSUME NEW y \in S PROVE x <= y
    OBVIOUS
  <2>1. ~(y < x)
    BY <1>1 DEF OpToRel
  <2> QED
    BY <2>1
<1> QED
  BY <1>2 DEF Least

LEMMA LeastSocket == Open # Sockets => Least(Sockets \ Open) \in Sockets
  BY LeastExists, BoundsAssumption DEF Sockets, Open

LEMMA TaskNode == \A t \in Tasks : t[1] \in Nodes
  BY TasksAssumption

LEMMA ElectedType ==
  ASSUME NEW n, NEW g \in Settings, NEW live
  PROVE  Elected(n, g, live) \in Hosts
<1> DEFINE candidates == g.members \cap live
<1>1. g.members \subseteq Nodes
  BY SettingsAssumption
<1>2. candidates # {} => Least(candidates) \in candidates
  BY <1>1, LeastExists, NodesAssumption
<1> QED
  BY <1>1, <1>2 DEF Elected, Hosts

LEMMA HappensType ==
  ASSUME NEW e, happened \subseteq Troubles, Happens(e)
  PROVE  happened' \subseteq Troubles
  BY BoundsAssumption DEF Happens

LEMMA RacesType ==
  ASSUME races \in 0..MaxRaces, Races
  PROVE  races' \in 0..MaxRaces
  BY BoundsAssumption DEF Races

LEMMA TaskHost == \A r \in Task : r.host \in Hosts
  BY DEF Task, Hosts

LEMMA IdleTaskType == IdleTask \in Task
  BY DEF IdleTask, Task, Hosts

(***************************************************************************)
(* Connections.  Most steps leave every socket as it is, close ends of it, *)
(* or make an end that has no entry go on with its handshake.              *)
(***************************************************************************)
SameEnds(s, r) == s.from = r.from /\ s.to = r.to
Someone(s) == \E n \in {s.from, s.to} : s.end[n] # "shut"

\* What socket k becomes has its type and is open at one end, and an end is
\* registered only if it was.
Tame(k) ==
  \/ socket'[k] = None
  \/ /\ socket'[k] \in Socket /\ Someone(socket'[k])
     /\ \/ \A i \in Nodes : socket'[k].end[i] \notin Registered
        \/ /\ socket[k] # None /\ SameEnds(socket'[k], socket[k])
           /\ \A i \in Nodes : socket'[k].end[i] \in Registered
                                 => socket[k].end[i] \in Registered

LEMMA Untouched ==
  ASSUME IInv, NEW k \in Sockets, socket'[k] = socket[k]
  PROVE  Tame(k)
  BY DEF IInv, Typed, NoneShut, Tame, SameEnds, Someone, Open, Ends

LEMMA ReleasedTame ==
  ASSUME IInv, NEW k \in Open, NEW n \in Ends(k),
         socket'[k] = Released([socket[k] EXCEPT !.end[n] = "shut"])
  PROVE  Tame(k)
<1> DEFINE s == [socket[k] EXCEPT !.end[n] = "shut"]
<1>1. socket[k] \in Socket /\ n \in Nodes /\ socket[k] # None
  BY DEF IInv, Typed, Open, Ends, Socket
<1>2. /\ s \in Socket /\ SameEnds(s, socket[k])
      /\ \A i \in Nodes : s.end[i] \in Registered => socket[k].end[i] \in Registered
  BY <1>1 DEF Socket, SameEnds, EndStates, Registered, Alive, Reapable
<1>3. CASE \A i \in {s.from, s.to} : s.end[i] = "shut"
  BY <1>3 DEF Released, Tame
<1>4. CASE Someone(s)
  <2>1. socket'[k] = s
    BY <1>4 DEF Released, Someone
  <2> QED
    BY <1>1, <1>2, <1>4, <2>1 DEF Tame
<1> QED
  BY <1>3, <1>4 DEF Someone

LEMMA EntryNodes ==
  ASSUME Typed, NEW n \in Nodes, NEW m \in Nodes, NEW k \in Entries(n, m)
  PROVE  /\ k \in Open /\ k \in Sockets /\ n \in Ends(k) /\ Ends(k) = {n, m}
         /\ socket[k] \in Socket /\ socket[k] # None
         /\ socket[k].end[n] \in Registered
  BY DEF Typed, Entries, Open

LEMMA ShutTame ==
  ASSUME IInv, NEW n \in Nodes, NEW ks, ks \subseteq Open,
         \A k \in ks : n \in Ends(k), socket' = Shut(ks, n)
  PROVE  /\ socket' \in [Sockets -> Socket \cup {None}]
         /\ \A k \in Sockets : Tame(k)
<1>1. ASSUME NEW k \in Sockets PROVE Tame(k) /\ socket'[k] \in Socket \cup {None}
  <2>1. CASE k \in ks
    <3>1. socket'[k] = Released([socket[k] EXCEPT !.end[n] = "shut"])
      BY <2>1 DEF Shut
    <3> QED
      BY <2>1, <3>1, ReleasedTame DEF Tame
  <2>2. CASE k \notin ks
    <3>1. socket'[k] = socket[k]
      BY <2>2 DEF Shut
    <3> QED
      BY <3>1, Untouched DEF Tame
  <2> QED
    BY <2>1, <2>2
<1>2. socket' = [k \in Sockets |-> socket'[k]]
  BY DEF Shut
<1> QED
  BY <1>1, <1>2

\* Tame steps keep the connection map.
LEMMA TameKeeps ==
  ASSUME IInv, \A k \in Sockets : Tame(k)
  PROVE  NoneShut' /\ OneEntry'
<1>1. NoneShut'
  <2> SUFFICES ASSUME NEW k \in Sockets, socket'[k] # None
               PROVE  \E n \in {socket'[k].from, socket'[k].to} : socket'[k].end[n] # "shut"
    BY DEF NoneShut, Open, Ends
  <2> QED
    BY DEF Tame, Someone
<1>2. OneEntry'
  <2> SUFFICES ASSUME NEW n \in Nodes, NEW m \in Nodes, NEW k \in Entries(n, m)',
                      NEW l \in Entries(n, m)'
               PROVE  k = l
    BY DEF OneEntry
  <2>1. ASSUME NEW j \in Entries(n, m)' PROVE j \in Entries(n, m)
    <3>1. /\ j \in Sockets /\ socket'[j] # None /\ socket'[j].end[n] \in Registered
          /\ {socket'[j].from, socket'[j].to} = {n, m}
      BY <2>1 DEF Entries, Open, Ends
    <3>2. /\ socket[j] # None /\ SameEnds(socket'[j], socket[j])
          /\ socket[j].end[n] \in Registered
      BY <3>1 DEF Tame
    <3> QED
      BY <3>1, <3>2 DEF Entries, Open, Ends, SameEnds
  <2> QED
    BY <2>1 DEF IInv, OneEntry
<1> QED
  BY <1>1, <1>2

\* One socket changes, the others stay.
LEMMA OneChanges ==
  ASSUME IInv, NEW k \in Sockets, Tame(k),
         \A l \in Sockets \ {k} : socket'[l] = socket[l]
  PROVE  \A l \in Sockets : Tame(l)
  BY Untouched

\* The type of a function with one entry replaced.
LEMMA ReplacedType ==
  ASSUME Typed, NEW k \in Sockets, NEW s \in Socket \cup {None},
         socket' = [socket EXCEPT ![k] = s]
  PROVE  /\ socket' \in [Sockets -> Socket \cup {None}] /\ socket'[k] = s
         /\ \A l \in Sockets \ {k} : socket'[l] = socket[l]
  BY DEF Typed

PlaneKept == socket' \in [Sockets -> Socket \cup {None}] /\ NoneShut' /\ OneEntry'

LEMMA ReplacedKept ==
  ASSUME IInv, NEW k \in Sockets, NEW s \in Socket \cup {None},
         socket' = [socket EXCEPT ![k] = s], Tame(k)
  PROVE  PlaneKept
<1>1. /\ socket' \in [Sockets -> Socket \cup {None}]
      /\ \A l \in Sockets \ {k} : socket'[l] = socket[l]
  BY ReplacedType DEF IInv
<1>2. \A l \in Sockets : Tame(l)
  BY <1>1, OneChanges
<1> QED
  BY <1>1, <1>2, TameKeeps DEF PlaneKept

LEMMA NewSocketKept ==
  ASSUME IInv, NEW n \in Nodes, NEW m \in Nodes, NEW c \in BOOLEAN, NewSocket(n, m, c)
  PROVE  PlaneKept
<1> DEFINE k == Least(Sockets \ Open)
           s == [from |-> n, to |-> m, claimed |-> c,
                 end |-> [i \in Nodes |-> IF i = n THEN "syn"
                                          ELSE IF i = m THEN "none" ELSE "shut"]]
<1>1. k \in Sockets /\ socket' = [socket EXCEPT ![k] = s]
  BY LeastSocket DEF NewSocket
<1>2. /\ s \in Socket /\ Someone(s)
      /\ \A i \in Nodes : s.end[i] \notin Registered
  <2>1. s.end \in [Nodes -> EndStates]
    BY DEF EndStates
  <2>2. s \in Socket
    BY <2>1 DEF Socket
  <2>3. Someone(s)
    BY DEF Someone
  <2> QED
    BY <2>2, <2>3 DEF Registered, Alive, Reapable
<1>3. socket'[k] = s
  BY <1>1, <1>2, ReplacedType DEF IInv
<1>4. Tame(k)
  BY <1>2, <1>3 DEF Tame
<1> HIDE DEF k, s
<1> QED
  BY <1>1, <1>2, <1>4, ReplacedKept

LEMMA ConnectKept ==
  ASSUME IInv, NEW k \in Open, Connect(k)
  PROVE  PlaneKept
<1> DEFINE e == [n \in Nodes |-> IF n \in Ends(k) THEN "hello" ELSE "shut"]
           s == [socket[k] EXCEPT !.end = e]
<1>1. k \in Sockets /\ socket[k] \in Socket
  BY DEF IInv, Typed, Open
<1>2. e \in [Nodes -> EndStates] /\ \A i \in Nodes : e[i] \notin Registered
  BY DEF EndStates, Registered, Alive, Reapable
<1>3. s \in Socket /\ s.end = e /\ s.from = socket[k].from
  BY <1>1, <1>2 DEF Socket
<1>4. Someone(s)
  <2>1. s.from \in Nodes /\ s.from \in Ends(k)
    BY <1>1, <1>3 DEF Socket, Ends
  <2>2. s.end[s.from] = "hello"
    BY <1>3, <2>1
  <2> QED
    BY <2>2 DEF Someone
<1>5. socket' = [socket EXCEPT ![k] = s]
  BY <1>1 DEF Connect
<1>6. socket'[k] = s
  BY <1>1, <1>3, <1>5, ReplacedType DEF IInv
<1>7. Tame(k)
  BY <1>2, <1>3, <1>4, <1>6 DEF Tame
<1> HIDE DEF s
<1> QED
  BY <1>1, <1>3, <1>5, <1>7, ReplacedKept

LEMMA ConnectFailsKept ==
  ASSUME IInv, NEW k \in Open, ConnectFails(k)
  PROVE  PlaneKept
<1>1. k \in Sockets /\ socket' = [socket EXCEPT ![k] = None]
  BY DEF ConnectFails, Open
<1>2. socket'[k] = None
  BY <1>1, ReplacedType DEF IInv
<1> QED
  BY <1>1, <1>2, ReplacedKept DEF Tame

LEMMA ShutKept ==
  ASSUME IInv, NEW n \in Nodes, NEW ks, ks \subseteq Open,
         \A k \in ks : n \in Ends(k), socket' = Shut(ks, n)
  PROVE  PlaneKept
  BY ShutTame, TameKeeps DEF PlaneKept

\* An end goes on among the registered states, or in the handshake.
LEMMA EndMoves ==
  ASSUME IInv, NEW k \in Open, NEW n \in Ends(k), NEW e \in EndStates \ {"shut"},
         e \in Registered => socket[k].end[n] \in Registered,
         socket' = [socket EXCEPT ![k].end[n] = e]
  PROVE  PlaneKept
<1> DEFINE s == [socket[k] EXCEPT !.end[n] = e]
<1>1. k \in Sockets /\ socket[k] \in Socket /\ socket[k] # None /\ n \in Nodes
  BY DEF IInv, Typed, Open, Ends, Socket
<1>2. /\ s \in Socket /\ SameEnds(s, socket[k]) /\ s.end[n] = e
      /\ \A i \in Nodes \ {n} : s.end[i] = socket[k].end[i]
  BY <1>1 DEF Socket, SameEnds
<1>3. Someone(s)
  BY <1>2 DEF Someone, SameEnds, Ends
<1>4. socket' = [socket EXCEPT ![k] = s]
  BY <1>1
<1>5. socket'[k] = s
  BY <1>1, <1>2, <1>4, ReplacedType DEF IInv
<1>6. Tame(k)
  <2>1. \A i \in Nodes : s.end[i] \in Registered => socket[k].end[i] \in Registered
    BY <1>2
  <2> HIDE DEF s
  <2> QED
    BY <1>1, <1>2, <1>3, <1>5, <2>1 DEF Tame
<1> HIDE DEF s
<1> QED
  BY <1>1, <1>2, <1>4, <1>6, ReplacedKept

LEMMA HearKept ==
  ASSUME IInv, NEW n \in Nodes, NEW m \in Nodes, Hear(n, m)
  PROVE  PlaneKept
<1>1. PICK k \in Entries(n, m) : socket' = [socket EXCEPT ![k].end[n] = "fresh"]
  BY DEF Hear
<1>2. k \in Open /\ n \in Ends(k) /\ socket[k].end[n] \in Registered
  BY EntryNodes DEF IInv
<1> QED
  BY <1>1, <1>2, EndMoves DEF EndStates, Registered, Alive, Reapable

LEMMA AgeKept ==
  ASSUME IInv, NEW n \in Nodes, NEW m \in Nodes, Age(n, m)
  PROVE  PlaneKept
<1>1. PICK k \in Entries(n, m) :
        \E e \in {"stale", "dead", "mute"} : socket' = [socket EXCEPT ![k].end[n] = e]
  BY DEF Age
<1>2. PICK e \in {"stale", "dead", "mute"} : socket' = [socket EXCEPT ![k].end[n] = e]
  BY <1>1
<1>3. k \in Open /\ n \in Ends(k) /\ socket[k].end[n] \in Registered
  BY EntryNodes DEF IInv
<1> QED
  BY <1>2, <1>3, EndMoves DEF EndStates, Registered, Reapable

\* The new entry takes the place of the old one.
LEMMA RegisterKept ==
  ASSUME IInv, NEW k \in Open, NEW n \in Ends(k), NEW e \in {"fresh", "deaf"},
         RegisterAs(n, k, e)
  PROVE  PlaneKept
<1> DEFINE m == Peer(n, k)
           s == [socket[k] EXCEPT !.end[n] = e]
<1>1. /\ k \in Sockets /\ socket[k] \in Socket /\ socket[k] # None
      /\ n \in Nodes /\ m \in Nodes /\ Ends(k) = {n, m}
  BY DEF IInv, Typed, Open, Ends, Socket, Peer
<1>2. socket[k].end[n] = "hello" /\ k \notin Entries(n, m)
  BY DEF RegisterAs, Entries, Registered, Alive, Reapable
<1>3. /\ s \in Socket /\ SameEnds(s, socket[k]) /\ s.end[n] = e
      /\ \A i \in Nodes \ {n} : s.end[i] = socket[k].end[i]
  BY <1>1 DEF Socket, SameEnds, EndStates, Registered, Alive, Reapable
<1>4. Someone(s)
  BY <1>3 DEF Someone, SameEnds, Ends
<1>5. socket' = [j \in Sockets |->
                   IF j = k THEN s
                   ELSE IF j \in Entries(n, m)
                        THEN Released([socket[j] EXCEPT !.end[n] = "shut"])
                   ELSE socket[j]]
  <2>1. Shut(Entries(n, m), n)[k] = socket[k]
    BY <1>1, <1>2 DEF Shut
  <2>2. socket' = [Shut(Entries(n, m), n) EXCEPT ![k].end[n] = e]
    BY DEF RegisterAs
  <2> QED
    BY <1>1, <2>1, <2>2 DEF Shut
<1> HIDE DEF m, s
<1>6. ASSUME NEW j \in Sockets \ {k} PROVE Tame(j)
  <2>1. CASE j \in Entries(n, m)
    <3>1. socket'[j] = Released([socket[j] EXCEPT !.end[n] = "shut"])
      BY <1>5, <2>1
    <3>2. j \in Open /\ n \in Ends(j)
      BY <1>1, <2>1, EntryNodes DEF IInv
    <3> QED
      BY <3>1, <3>2, ReleasedTame
  <2>2. CASE j \notin Entries(n, m)
    BY <1>5, <2>2, Untouched
  <2> QED
    BY <2>1, <2>2
<1>7. socket'[k] = s
  BY <1>1, <1>5
<1>8. socket' \in [Sockets -> Socket \cup {None}]
  <2>1. \A j \in Sockets : socket'[j] \in Socket \cup {None}
    BY <1>3, <1>6, <1>7 DEF Tame
  <2>2. socket' = [j \in Sockets |-> socket'[j]]
    BY <1>5
  <2> QED
    BY <2>1, <2>2
<1>9. NoneShut'
  <2> SUFFICES ASSUME NEW j \in Sockets, socket'[j] # None PROVE Someone(socket'[j])
    BY DEF NoneShut, Open, Ends, Someone
  <2> QED
    BY <1>4, <1>6, <1>7 DEF Tame
<1>10. OneEntry'
  <2> SUFFICES ASSUME NEW a \in Nodes, NEW b \in Nodes, NEW i \in Entries(a, b)',
                      NEW j \in Entries(a, b)', i # j
               PROVE  FALSE
    BY DEF OneEntry
  <2>1. ASSUME NEW l \in Entries(a, b)'
        PROVE  /\ l \in Sockets /\ socket'[l] # None /\ socket'[l].end[a] \in Registered
               /\ {socket'[l].from, socket'[l].to} = {a, b}
    BY <2>1 DEF Entries, Open, Ends
  <2>2. ASSUME NEW l \in Entries(a, b)', l # k PROVE l \in Entries(a, b)
    <3>1. /\ socket[l] # None /\ SameEnds(socket'[l], socket[l])
          /\ socket[l].end[a] \in Registered
      BY <1>6, <2>1, <2>2 DEF Tame
    <3> QED
      BY <2>1, <2>2, <3>1 DEF Entries, Open, Ends, SameEnds
  <2>3. k \in Entries(a, b)' /\ a # n => k \in Entries(a, b)
    BY <1>1, <1>3, <1>7, <2>1 DEF Entries, Open, Ends, SameEnds
  <2>4. k \in Entries(a, b)' /\ a = n => b = m
    BY <1>1, <1>3, <1>7, <2>1 DEF Ends, SameEnds
  <2>5. ASSUME NEW l \in Entries(a, b)', l # k, a = n, b = m PROVE FALSE
    <3>1. l \in Entries(n, m) /\ l \in Sockets
      BY <2>1, <2>2, <2>5
    <3>2. socket'[l] = Released([socket[l] EXCEPT !.end[n] = "shut"])
      BY <1>5, <2>5, <3>1
    <3>3. socket[l] \in Socket
      BY <1>1, <3>1, EntryNodes DEF IInv
    <3>4. [socket[l] EXCEPT !.end[n] = "shut"].end[n] = "shut"
      BY <1>1, <3>3 DEF Socket
    <3>5. socket'[l] # None /\ socket'[l].end[n] \in Registered
      BY <2>1, <2>5
    <3> QED
      BY <3>2, <3>4, <3>5 DEF Released, Registered, Alive, Reapable
  <2> QED
    BY <2>2, <2>3, <2>4, <2>5 DEF IInv, OneEntry
<1> QED
  BY <1>8, <1>9, <1>10 DEF PlaneKept

LEMMA CountedKept ==
  ASSUME IInv, NEW n \in Nodes, socket' = Counted(n)
  PROVE  PlaneKept
<1>1. ASSUME NEW k \in Sockets PROVE Tame(k)
  <2> DEFINE s == [socket[k] EXCEPT !.end[n] = "counted"]
  <2>1. CASE socket'[k] = socket[k]
    BY <2>1, Untouched
  <2>2. CASE socket'[k] # socket[k]
    <3>1. /\ k \in Open /\ n \in Ends(k) /\ socket[k].end[n] = "fresh"
          /\ socket'[k] = s
      BY <2>2 DEF Counted
    <3>2. socket[k] \in Socket /\ socket[k] # None
      BY <3>1 DEF IInv, Typed, Open
    <3>3. /\ s \in Socket /\ SameEnds(s, socket[k]) /\ s.end[n] = "counted"
          /\ \A i \in Nodes \ {n} : s.end[i] = socket[k].end[i]
      BY <3>2 DEF Socket, SameEnds, EndStates, Registered, Alive, Reapable
    <3>4. Someone(s)
      BY <3>1, <3>3 DEF Someone, SameEnds, Ends
    <3>5. socket[k].end[n] \in Registered
      BY <3>1 DEF Registered, Alive, Reapable
    <3> HIDE DEF s
    <3> QED
      BY <3>1, <3>2, <3>3, <3>4, <3>5 DEF Tame
  <2> QED
    BY <2>1, <2>2
<1>2. socket' = [k \in Sockets |-> socket'[k]]
  BY DEF Counted
<1>3. socket' \in [Sockets -> Socket \cup {None}]
  BY <1>1, <1>2 DEF Tame
<1> QED
  BY <1>1, <1>3, TameKeeps DEF PlaneKept

LEMMA RestartKept ==
  ASSUME IInv, NEW n \in Nodes, Restart(n)
  PROVE  PlaneKept
<1>1. ASSUME NEW k \in Sockets PROVE Tame(k)
  <2>1. CASE k \notin Open \/ n \notin Ends(k)
    <3>1. socket'[k] = socket[k]
      BY <2>1 DEF Restart
    <3> QED
      BY <3>1, Untouched
  <2>2. CASE k \in Open /\ n \in Ends(k)
    <3>1. \/ socket'[k] = None
          \/ socket'[k] = Released([socket[k] EXCEPT !.end[n] = "shut"])
      BY <2>2 DEF Restart
    <3> QED
      BY <2>2, <3>1, ReleasedTame DEF Tame
  <2> QED
    BY <2>1, <2>2
<1>2. socket' = [k \in Sockets |-> socket'[k]]
  BY DEF Restart
<1>3. socket' \in [Sockets -> Socket \cup {None}]
  BY <1>1, <1>2 DEF Tame
<1> QED
  BY <1>1, <1>3, TameKeeps DEF PlaneKept

LEMMA StillKept ==
  ASSUME IInv, UNCHANGED socket
  PROVE  PlaneKept
  BY Untouched, TameKeeps DEF IInv, Typed, PlaneKept

(***************************************************************************)
(* Evaluations.                                                            *)
(***************************************************************************)
LEMMA ReturnsTyped ==
  ASSUME Typed, NEW t \in Tasks, NEW ok \in BOOLEAN, Returns(t, ok)
  PROVE  /\ task' \in [Tasks -> Task]
         /\ up' \in [Nodes -> {"boot", "on", "off"}]
         /\ task'[t].pc = "idle" /\ \A u \in Tasks \ {t} : task'[u] = task[u]
<1>1. task' = [task EXCEPT ![t] = IdleTask]
  BY DEF Returns
<1>2. /\ task' \in [Tasks -> Task]
      /\ task'[t] = IdleTask /\ \A u \in Tasks \ {t} : task'[u] = task[u]
  BY <1>1, IdleTaskType DEF Typed
<1>3. up' \in [Nodes -> {"boot", "on", "off"}]
  BY TaskNode DEF Returns, Typed
<1> QED
  BY <1>2, <1>3 DEF IdleTask

EvaluationStep(t) ==
  /\ table' \in [Nodes -> Hosts] /\ mirror' \in [Nodes -> Hosts]
  /\ up' \in [Nodes -> {"boot", "on", "off"}]
  /\ task' \in [Tasks -> Task]
  /\ \A u \in Tasks \ {t} : task'[u] = task[u]
  /\ \A n \in Nodes \ {t[1]} : table'[n] = table[n] /\ mirror'[n] = mirror[n]
  /\ overlapped \subseteq overlapped' /\ overlapped' \subseteq Nodes

LEMMA EvaluateStep ==
  ASSUME Typed, NEW t \in Tasks, Evaluate(t)
  PROVE  /\ EvaluationStep(t) /\ UNCHANGED <<table, mirror>>
         /\ task[t].pc = "idle" /\ task'[t].pc = "view"
         /\ ~Idle(t[1]) => t[1] \in overlapped'
<1> DEFINE r == [pc |-> "view", seen |-> group, host |-> None]
<1>1. r \in Task /\ r.pc = "view"
  BY DEF Typed, Task
<1>2. /\ t[1] \in Nodes /\ UNCHANGED <<table, mirror, up>> /\ task[t].pc = "idle"
      /\ overlapped' = IF Idle(t[1]) THEN overlapped ELSE overlapped \cup {t[1]}
      /\ task' = [task EXCEPT ![t] = r]
  BY TaskNode DEF Evaluate
<1> HIDE DEF r
<1>3. /\ task' \in [Tasks -> Task] /\ task'[t] = r
      /\ \A u \in Tasks \ {t} : task'[u] = task[u]
  BY <1>1, <1>2 DEF Typed
<1> QED
  BY <1>1, <1>2, <1>3 DEF EvaluationStep, Typed

LEMMA ViewStep ==
  ASSUME Typed, NEW t \in Tasks, View(t)
  PROVE  /\ EvaluationStep(t) /\ UNCHANGED <<table, mirror, overlapped>>
         /\ task[t].pc = "view" /\ task'[t].pc \in {"idle", "put"}
<1> DEFINE host == Elected(t[1], task[t].seen, Live(t[1]))
           r == [pc |-> "put", seen |-> None, host |-> host]
<1>1. host \in Hosts
  <2>1. task[t] \in Task /\ task[t].pc = "view"
    BY DEF Typed, View
  <2>2. task[t].seen \in Settings
    BY <2>1 DEF Task
  <2> QED
    BY <2>2, ElectedType
<1>2. t[1] \in Nodes /\ UNCHANGED <<table, mirror, overlapped>> /\ task[t].pc = "view"
  BY TaskNode DEF View
<1>3. CASE Returns(t, TRUE)
  BY <1>2, <1>3, ReturnsTyped DEF EvaluationStep, Typed
<1>4. CASE task' = [task EXCEPT ![t] = r] /\ UNCHANGED up
  <2>1. r \in Task /\ r.pc = "put"
    BY <1>1 DEF Task
  <2> HIDE DEF r
  <2>2. /\ task' \in [Tasks -> Task]
        /\ task'[t] = r /\ \A u \in Tasks \ {t} : task'[u] = task[u]
    BY <1>4, <2>1 DEF Typed
  <2> QED
    BY <1>2, <1>4, <2>1, <2>2 DEF EvaluationStep, Typed
<1> QED
  BY <1>3, <1>4 DEF View, Choose

LEMMA PutStep ==
  ASSUME Typed, NEW t \in Tasks, Put(t)
  PROVE  /\ EvaluationStep(t) /\ UNCHANGED <<mirror, overlapped>>
         /\ task[t].pc = "put"
         /\ \/ task'[t].pc = "insert" /\ table'[t[1]] = task'[t].host
            \/ task'[t].pc = "idle" /\ UNCHANGED table
<1>1. /\ t[1] \in Nodes /\ UNCHANGED <<mirror, overlapped>> /\ task[t].pc = "put"
      /\ task[t] \in Task
  BY TaskNode DEF Put, Typed
<1>2. CASE /\ table' = [table EXCEPT ![t[1]] = task[t].host]
           /\ task' = [task EXCEPT ![t].pc = "insert"] /\ UNCHANGED up
  <2>1. /\ table' \in [Nodes -> Hosts] /\ table'[t[1]] = task[t].host
        /\ \A n \in Nodes \ {t[1]} : table'[n] = table[n]
    BY <1>1, <1>2, TaskHost DEF Typed
  <2>2. /\ task' \in [Tasks -> Task]
        /\ task'[t].pc = "insert" /\ task'[t].host = task[t].host
        /\ \A u \in Tasks \ {t} : task'[u] = task[u]
    <3> DEFINE r == [task[t] EXCEPT !.pc = "insert"]
    <3>1. r \in Task /\ r.pc = "insert" /\ r.host = task[t].host
      BY <1>1 DEF Task
    <3>2. task' = [task EXCEPT ![t] = r]
      BY <1>2
    <3> HIDE DEF r
    <3> QED
      BY <3>1, <3>2 DEF Typed
  <2> QED
    BY <1>1, <1>2, <2>1, <2>2 DEF EvaluationStep, Typed
<1>3. CASE Returns(t, FALSE) /\ UNCHANGED table
  BY <1>1, <1>3, ReturnsTyped DEF EvaluationStep, Typed
<1> QED
  BY <1>2, <1>3 DEF Put

LEMMA InsertStep ==
  ASSUME Typed, NEW t \in Tasks, Insert(t)
  PROVE  /\ EvaluationStep(t) /\ UNCHANGED <<table, overlapped>>
         /\ task[t].pc = "insert" /\ task'[t].pc = "idle"
         /\ mirror'[t[1]] = task[t].host
<1>1. /\ t[1] \in Nodes /\ UNCHANGED <<table, overlapped>> /\ task[t].pc = "insert"
      /\ task[t].host \in Hosts /\ Returns(t, TRUE)
      /\ mirror' = [mirror EXCEPT ![t[1]] = task[t].host]
  BY TaskNode, TaskHost DEF Insert, Typed
<1>2. /\ mirror' \in [Nodes -> Hosts] /\ mirror'[t[1]] = task[t].host
      /\ \A n \in Nodes \ {t[1]} : mirror'[n] = mirror[n]
  BY <1>1 DEF Typed
<1> QED
  BY <1>1, <1>2, ReturnsTyped DEF EvaluationStep, Typed


\* Another node's evaluation is no business of node n.
LEMMA OtherNode ==
  ASSUME IInv, NEW t \in Tasks, EvaluationStep(t), NEW n \in Nodes \ overlapped',
         n # t[1]
  PROVE  InStep(n)'
<1>1. \A u \in Tasks : u[1] = n => task'[u] = task[u]
  BY DEF EvaluationStep
<1>2. table'[n] = table[n] /\ mirror'[n] = mirror[n] /\ InStep(n)
  BY DEF EvaluationStep, IInv, EvaluationInv
<1> QED
  BY <1>1, <1>2 DEF InStep, Idle

LEMMA EvaluateInStep ==
  ASSUME IInv, NEW t \in Tasks, Evaluate(t)
  PROVE  EvaluationInv'
<1> SUFFICES ASSUME NEW n \in Nodes \ overlapped' PROVE InStep(n)'
  BY DEF EvaluationInv
<1>1. /\ EvaluationStep(t) /\ UNCHANGED <<table, mirror>>
      /\ task[t].pc = "idle" /\ task'[t].pc = "view"
      /\ ~Idle(t[1]) => t[1] \in overlapped'
  BY EvaluateStep DEF IInv
<1>2. CASE n = t[1]
  <2>1. Idle(n) /\ InStep(n)
    BY <1>1, <1>2 DEF EvaluationStep, IInv, EvaluationInv
  <2>2. \A u \in Tasks : u[1] = n /\ u # t => task'[u].pc = "idle"
    BY <1>1, <2>1 DEF EvaluationStep, Idle
  <2>3. table'[n] = mirror'[n]
    BY <1>1, <2>1 DEF InStep
  <2> QED
    BY <1>1, <2>2, <2>3 DEF InStep
<1> QED
  BY <1>1, <1>2, OtherNode

LEMMA ViewInStep ==
  ASSUME IInv, NEW t \in Tasks, View(t)
  PROVE  EvaluationInv'
<1> SUFFICES ASSUME NEW n \in Nodes \ overlapped' PROVE InStep(n)'
  BY DEF EvaluationInv
<1>1. /\ EvaluationStep(t) /\ UNCHANGED <<table, mirror, overlapped>>
      /\ task[t].pc = "view" /\ task'[t].pc \in {"idle", "put"}
  BY ViewStep DEF IInv
<1>2. CASE n = t[1]
  <2>1. InStep(n) /\ table[n] = mirror[n]
    BY <1>1, <1>2 DEF EvaluationStep, IInv, EvaluationInv, InStep
  <2>2. \A u \in Tasks : u[1] = n /\ u # t => task'[u].pc = "idle"
    BY <1>1, <1>2, <2>1 DEF EvaluationStep, InStep
  <2> QED
    BY <1>1, <1>2, <2>1, <2>2 DEF InStep
<1> QED
  BY <1>1, <1>2, OtherNode

LEMMA PutInStep ==
  ASSUME IInv, NEW t \in Tasks, Put(t)
  PROVE  EvaluationInv'
<1> SUFFICES ASSUME NEW n \in Nodes \ overlapped' PROVE InStep(n)'
  BY DEF EvaluationInv
<1>1. /\ EvaluationStep(t) /\ UNCHANGED <<mirror, overlapped>>
      /\ task[t].pc = "put"
      /\ \/ task'[t].pc = "insert" /\ table'[t[1]] = task'[t].host
         \/ task'[t].pc = "idle" /\ UNCHANGED table
  BY PutStep DEF IInv
<1>2. CASE n = t[1]
  <2>1. InStep(n) /\ table[n] = mirror[n]
    BY <1>1, <1>2 DEF EvaluationStep, IInv, EvaluationInv, InStep
  <2>2. \A u \in Tasks : u[1] = n /\ u # t => task[u].pc = "idle" /\ task'[u].pc = "idle"
    BY <1>1, <1>2, <2>1 DEF EvaluationStep, InStep
  <2>3. CASE task'[t].pc = "insert" /\ table'[n] = task'[t].host
    BY <1>2, <2>2, <2>3 DEF InStep, Idle
  <2>4. CASE task'[t].pc = "idle" /\ UNCHANGED table
    BY <1>1, <1>2, <2>1, <2>2, <2>4 DEF InStep
  <2> QED
    BY <1>1, <1>2, <2>3, <2>4
<1> QED
  BY <1>1, <1>2, OtherNode

LEMMA InsertInStep ==
  ASSUME IInv, NEW t \in Tasks, Insert(t)
  PROVE  EvaluationInv'
<1> SUFFICES ASSUME NEW n \in Nodes \ overlapped' PROVE InStep(n)'
  BY DEF EvaluationInv
<1>1. /\ EvaluationStep(t) /\ UNCHANGED <<table, overlapped>>
      /\ task[t].pc = "insert" /\ task'[t].pc = "idle"
      /\ mirror'[t[1]] = task[t].host
  BY InsertStep DEF IInv
<1>2. CASE n = t[1]
  <2>1. InStep(n) /\ table[n] = task[t].host
    BY <1>1, <1>2 DEF EvaluationStep, IInv, EvaluationInv, InStep
  <2>2. \A u \in Tasks : u[1] = n /\ u # t => task'[u].pc = "idle"
    BY <1>1, <1>2, <2>1 DEF EvaluationStep, InStep
  <2> QED
    BY <1>1, <1>2, <2>1, <2>2 DEF InStep
<1> QED
  BY <1>1, <1>2, OtherNode

\* The mirror is read back from the table.
LEMMA RestartInStep ==
  ASSUME IInv, NEW m \in Nodes, Restart(m)
  PROVE  /\ EvaluationInv' /\ mirror' \in [Nodes -> Hosts]
         /\ up' \in [Nodes -> {"boot", "on", "off"}]
         /\ task' \in [Tasks -> Task]
<1>1. /\ UNCHANGED <<table, overlapped>>
      /\ mirror' \in [Nodes -> Hosts] /\ mirror'[m] = table[m]
      /\ \A n \in Nodes \ {m} : mirror'[n] = mirror[n]
      /\ up' \in [Nodes -> {"boot", "on", "off"}]
  BY DEF Restart, IInv, Typed
<1>2. /\ task' \in [Tasks -> Task]
      /\ \A t \in Tasks : t[1] = m => task'[t] = IdleTask
      /\ \A t \in Tasks : t[1] # m => task'[t] = task[t]
  BY IdleTaskType DEF Restart, IInv, Typed
<1>3. ASSUME NEW n \in Nodes \ overlapped' PROVE InStep(n)'
  <2>1. CASE n = m
    <3>1. \A t \in Tasks : t[1] = n => task'[t].pc = "idle"
      BY <1>2, <2>1 DEF IdleTask
    <3> QED
      BY <1>1, <2>1, <3>1 DEF InStep
  <2>2. CASE n # m
    <3>1. InStep(n) /\ mirror'[n] = mirror[n] /\ table'[n] = table[n]
      BY <1>1, <2>2 DEF IInv, EvaluationInv
    <3>2. \A t \in Tasks : t[1] = n => task'[t] = task[t]
      BY <1>2, <2>2
    <3> QED
      BY <3>1, <3>2 DEF InStep, Idle
  <2> QED
    BY <2>1, <2>2
<1> QED
  BY <1>1, <1>2, <1>3 DEF EvaluationInv

LEMMA StillInStep ==
  ASSUME IInv, UNCHANGED electionVars
  PROVE  EvaluationInv'
<1>1. UNCHANGED <<table, mirror, task, overlapped>>
  BY DEF electionVars
<1>2. ASSUME NEW n \in Nodes \ overlapped PROVE InStep(n)'
  BY <1>1, <1>2 DEF IInv, EvaluationInv, InStep, Idle
<1> QED
  BY <1>1, <1>2 DEF EvaluationInv

(***************************************************************************)
(* The invariant.                                                          *)
(***************************************************************************)
LEMMA InitInv == Init => IInv
<1> SUFFICES ASSUME Init PROVE IInv
  OBVIOUS
<1>1. Typed
  <2>1. task \in [Tasks -> Task]
    BY IdleTaskType DEF Init
  <2> QED
    BY <2>1, BoundsAssumption DEF Init, Typed, Hosts
<1>2. Open = {}
  BY DEF Init, Open
<1>3. NoneShut /\ OneEntry
  BY <1>2 DEF NoneShut, OneEntry, Entries
<1>4. EvaluationInv
  BY DEF Init, EvaluationInv, InStep, IdleTask
<1> QED
  BY <1>1, <1>3, <1>4 DEF IInv

\* Steps of the plane leave the elections alone.
LEMMA PlaneStep ==
  ASSUME IInv, PlaneKept, UNCHANGED <<world, electionVars>>,
         reaping' \in [Nodes -> SUBSET Nodes], races' \in 0..MaxRaces,
         happened' \subseteq Troubles
  PROVE  IInv'
<1>1. Typed'
  BY DEF IInv, Typed, PlaneKept, world, electionVars
<1>2. EvaluationInv'
  BY StillInStep
<1> QED
  BY <1>1, <1>2 DEF IInv, PlaneKept

LEMMA NextInv == IInv /\ [Next]_vars => IInv'
<1> SUFFICES ASSUME IInv, [Next]_vars PROVE IInv'
  OBVIOUS
<1>0. Typed /\ reaping \in [Nodes -> SUBSET Nodes] /\ races \in 0..MaxRaces
      /\ happened \subseteq Troubles
  BY DEF IInv, Typed
<1>1. ASSUME NEW t \in Tasks, Evaluate(t) PROVE IInv'
  <2>1. EvaluationStep(t) /\ EvaluationInv'
    BY <1>0, <1>1, EvaluateStep, EvaluateInStep
  <2>2. UNCHANGED <<world, socket, reaping, races, happened>>
    BY <1>1 DEF Evaluate, planeVars
  <2>3. PlaneKept
    BY <2>2, StillKept
  <2>4. Typed'
    BY <1>0, <2>1, <2>2, <2>3 DEF Typed, EvaluationStep, PlaneKept, world
  <2> QED
    BY <2>1, <2>3, <2>4 DEF IInv, PlaneKept
<1>17. ASSUME NEW t \in Tasks, View(t) PROVE IInv'
  <2>1. EvaluationStep(t) /\ EvaluationInv' /\ t[1] \in Nodes
    BY <1>0, <1>17, ViewStep, ViewInStep, TaskNode
  <2>2. UNCHANGED <<world, reaping, races, happened>>
    BY <1>17 DEF View
  <2>3. socket' = Counted(t[1]) \/ UNCHANGED socket
    BY <1>17 DEF View
  <2>4. PlaneKept
    BY <2>1, <2>3, CountedKept, StillKept
  <2>5. Typed'
    BY <1>0, <2>1, <2>2, <2>4 DEF Typed, EvaluationStep, PlaneKept, world
  <2> QED
    BY <2>1, <2>4, <2>5 DEF IInv, PlaneKept
<1>2. ASSUME NEW t \in Tasks, Put(t) PROVE IInv'
  <2>1. EvaluationStep(t) /\ EvaluationInv'
    BY <1>0, <1>2, PutStep, PutInStep
  <2>2. UNCHANGED <<world, socket, reaping, races>> /\ happened' \subseteq Troubles
    BY <1>0, <1>2, HappensType DEF Put, planeVars
  <2>3. PlaneKept
    BY <2>2, StillKept
  <2>4. Typed'
    BY <1>0, <2>1, <2>2, <2>3 DEF Typed, EvaluationStep, PlaneKept, world
  <2> QED
    BY <2>1, <2>3, <2>4 DEF IInv, PlaneKept
<1>3. ASSUME NEW t \in Tasks, Insert(t) PROVE IInv'
  <2>1. EvaluationStep(t) /\ EvaluationInv'
    BY <1>0, <1>3, InsertStep, InsertInStep
  <2>2. UNCHANGED <<world, socket, reaping, races, happened>>
    BY <1>3 DEF Insert, planeVars
  <2>3. PlaneKept
    BY <2>2, StillKept
  <2>4. Typed'
    BY <1>0, <2>1, <2>2, <2>3 DEF Typed, EvaluationStep, PlaneKept, world
  <2> QED
    BY <2>1, <2>3, <2>4 DEF IInv, PlaneKept
<1>4. ASSUME NEW k \in Open, Connect(k) PROVE IInv'
  BY <1>0, <1>4, ConnectKept, PlaneStep DEF Connect
<1>5. ASSUME NEW k \in Open, ConnectFails(k) PROVE IInv'
  BY <1>0, <1>5, ConnectFailsKept, PlaneStep DEF ConnectFails
<1>6. ASSUME NEW k \in Open, NEW n \in Ends(k), Register(n, k) \/ RegisterDeaf(n, k)
      PROVE IInv'
  <2>1. PICK e \in {"fresh", "deaf"} : RegisterAs(n, k, e)
    BY <1>6 DEF Register, RegisterDeaf
  <2>2. races' \in 0..MaxRaces
    BY <1>0, <2>1, RacesType DEF RegisterAs
  <2> QED
    BY <1>0, <2>1, <2>2, RegisterKept, PlaneStep DEF RegisterAs
<1>18. ASSUME NEW k \in Open, NEW n \in Ends(k), RegisterLost(n, k) PROVE IInv'
  <2> DEFINE ks == Entries(n, Peer(n, k)) \cup {k}
  <2>1. n \in Nodes /\ Peer(n, k) \in Nodes
    BY <1>0 DEF Typed, Open, Ends, Socket, Peer
  <2>2. ks \subseteq Open /\ \A j \in ks : n \in Ends(j)
    BY <1>0, <2>1, EntryNodes
  <2>3. socket' = Shut(ks, n) /\ races' \in 0..MaxRaces
        /\ UNCHANGED <<world, electionVars, reaping, happened>>
    BY <1>0, <1>18, RacesType DEF RegisterLost
  <2>4. PlaneKept
    BY <2>1, <2>2, <2>3, ShutKept
  <2> QED
    BY <1>0, <2>3, <2>4, PlaneStep
<1>7. ASSUME NEW k \in Open, NEW n \in Ends(k), HelloFails(n, k) \/ ReadEnds(n, k)
      PROVE IInv'
  <2>1. socket' = Shut({k}, n) /\ UNCHANGED <<world, electionVars, reaping, races, happened>>
    BY <1>7 DEF HelloFails, ReadEnds
  <2>2. n \in Nodes
    BY <1>0 DEF Typed, Open, Ends, Socket
  <2>3. PlaneKept
    BY <2>1, <2>2, ShutKept
  <2> QED
    BY <1>0, <2>1, <2>3, PlaneStep
<1>8. ASSUME NEW n \in Nodes, NEW m \in Nodes, Dial(n, m) PROVE IInv'
  <2>1. races' \in 0..MaxRaces
    BY <1>0, <1>8, RacesType DEF Dial
  <2>2. PlaneKept
    BY <1>8, NewSocketKept DEF Dial
  <2> QED
    BY <1>0, <1>8, <2>1, <2>2, PlaneStep DEF Dial
<1>9. ASSUME NEW n \in Nodes, NEW m \in Nodes, DialPeer(n, m) PROVE IInv'
  <2>1. happened' \subseteq Troubles
    BY <1>0, <1>9, HappensType DEF DialPeer
  <2>2. PlaneKept
    BY <1>9, NewSocketKept DEF DialPeer
  <2> QED
    BY <1>0, <1>9, <2>1, <2>2, PlaneStep DEF DialPeer
<1>10. ASSUME NEW n \in Nodes, NEW m \in Nodes, Hear(n, m) PROVE IInv'
  BY <1>0, <1>10, HearKept, PlaneStep DEF Hear
<1>11. ASSUME NEW n \in Nodes, NEW m \in Nodes, Age(n, m) PROVE IInv'
  BY <1>0, <1>11, AgeKept, PlaneStep DEF Age
<1>12. ASSUME NEW n \in Nodes, NEW m \in Nodes, Reap(n, m) PROVE IInv'
  <2>1. Entries(n, m) \subseteq Open /\ \A k \in Entries(n, m) : n \in Ends(k)
    BY <1>0, EntryNodes
  <2>2. PlaneKept
    BY <1>12, <2>1, ShutKept DEF Reap
  <2>3. reaping' \in [Nodes -> SUBSET Nodes]
    BY <1>0, <1>12 DEF Reap
  <2> QED
    BY <1>0, <1>12, <2>2, <2>3, PlaneStep DEF Reap
<1>13. ASSUME NEW n \in Nodes, ReapList(n) PROVE IInv'
  <2>1. PlaneKept
    BY <1>13, StillKept DEF ReapList
  <2>2. reaping' \in [Nodes -> SUBSET Nodes]
    BY <1>0, <1>13 DEF ReapList
  <2> QED
    BY <1>0, <1>13, <2>1, <2>2, PlaneStep DEF ReapList
<1>14. ASSUME NEW n \in Nodes, Restart(n) PROVE IInv'
  <2>1. PlaneKept
    BY <1>14, RestartKept
  <2>2. happened' \subseteq Troubles
    BY <1>0, <1>14, HappensType DEF Restart
  <2>3. reaping' \in [Nodes -> SUBSET Nodes]
    BY <1>0, <1>14 DEF Restart
  <2>4. UNCHANGED <<world, table, overlapped, races>>
    BY <1>14 DEF Restart
  <2>5. Typed'
    BY <1>0, <1>14, <2>1, <2>2, <2>3, <2>4, RestartInStep DEF Typed, PlaneKept, world
  <2> QED
    BY <1>14, <2>1, <2>5, RestartInStep DEF IInv, PlaneKept
<1>15. CASE Cut \/ Heal \/ Change
  <2>1. /\ UNCHANGED <<electionVars, planeVars, races>>
        /\ group' \in Settings /\ net' \in BOOLEAN /\ happened' \subseteq Troubles
    BY <1>0, <1>15, HappensType DEF Typed, Cut, Heal, Change
  <2>2. PlaneKept
    BY <2>1, StillKept DEF planeVars
  <2>3. Typed'
    BY <1>0, <2>1, <2>2 DEF Typed, electionVars, planeVars, PlaneKept
  <2> QED
    BY <2>1, <2>2, <2>3, StillInStep DEF IInv, PlaneKept
<1>16. CASE UNCHANGED vars
  <2>1. UNCHANGED <<world, electionVars, planeVars, races, happened>>
    BY <1>16 DEF vars
  <2>2. PlaneKept
    BY <2>1, StillKept DEF planeVars
  <2> QED
    BY <1>0, <2>1, <2>2, PlaneStep DEF planeVars
<1> QED
  BY <1>1, <1>2, <1>3, <1>4, <1>5, <1>6, <1>7, <1>8, <1>9, <1>10, <1>11, <1>12,
     <1>13, <1>14, <1>15, <1>16, <1>17, <1>18 DEF Next, TaskStep, SocketStep

\* A set of at most one socket.
LEMMA AtMostOne ==
  ASSUME NEW S, \A k, l \in S : k = l
  PROVE  Cardinality(S) <= 1
<1>1. CASE S = {}
  BY <1>1, FS_EmptySet
<1>2. CASE S # {}
  <2>1. PICK x \in S : TRUE
    BY <1>2
  <2>2. S = {x}
    BY <2>1
  <2> QED
    BY <2>2, FS_Singleton
<1> QED
  BY <1>1, <1>2

\* election.rs writes the table before the mirror and reads the mirror back
\* from it, and audio_plane.rs has one entry for a peer however dials cross:
\* for any nodes, groups and tasks, any number of sockets, races and failures.
THEOREM ElectionCorrect == Spec => []ElectionInv
<1>1. IInv => ElectionInv
  <2> SUFFICES ASSUME IInv PROVE ElectionInv
    OBVIOUS
  <2>1. \A n, m \in Nodes : Cardinality(Entries(n, m)) <= 1
    BY AtMostOne DEF IInv, OneEntry
  <2>2. TypeOK
    BY <2>1 DEF IInv, Typed, NoneShut, TypeOK
  <2>3. TableKept
    BY DEF IInv, EvaluationInv, InStep, TableKept
  <2> QED
    BY <2>2, <2>3 DEF ElectionInv
<1> QED
  BY <1>1, InitInv, NextInv, PTL DEF Spec
==============================================================================
