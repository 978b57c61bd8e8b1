-------------------------- MODULE UsbStorageProofs --------------------------
(***************************************************************************)
(* Proofs about UsbStorage for any names of the volume, any number of      *)
(* verbs, troubles and cards: VolumeInv holds in every reachable state.    *)
(*                                                                         *)
(* The inductive invariant has four parts.  Shaped fits the fields of a    *)
(* job to its phase.  QuietInv says what a verb may rely on while the tick *)
(* runs beside it, as long as nothing was met or crossed.  QueueInv says   *)
(* who holds the parked tracks.  CardsInv ties rows, mounts, cards and     *)
(* jobs together as long as nothing overlapped.                            *)
(***************************************************************************)
EXTENDS UsbStorage, FiniteSetTheorems, WellFoundedInduction, TLAPS

------------------------------------------------------------------------------
(* What holds whatever overlaps.                                           *)

\* The phases each verb goes through.
ReconcilePhases == {"read", "swap", "force", "retract", "auto", "mount", "card", "set",
                    "adopt", "acard", "aset"}
MountPhases == {"mount", "card", "set"}
PhasesOf(v) ==
  CASE v = "tick" -> {"idle"} \cup ReconcilePhases
    [] v = "list" -> ReconcilePhases
    [] v = "mount" -> ReconcilePhases \cup {"mlookup"}
    [] v = "remove" -> {"read", "swap", "force", "retract", "rlookup", "rumount",
                        "rforce", "rretract", "rdrop", "rsafe"}
    [] v = "repair" -> ReconcilePhases \cup {"flookup", "fumount", "fbegin", "fsck"}
    [] v = "rename" -> ReconcilePhases \cup {"nlookup", "numount", "nstop", "nsave"}
    [] OTHER -> ReconcilePhases \cup {"restore"}

\* The phases in which a removal or a repair of a mounted row relies on it.
TakingOff == {"rumount", "rforce", "rretract", "rdrop", "fumount", "fbegin", "fsck"}

\* A job's fields fit its phase.
At(j, r) ==
  /\ r.pc \in PhasesOf(r.verb)
  /\ (r.verb = "tick") <=> (j = "tick" \/ r.pc = "idle")
  /\ r.verb # "tick" => r.id \in Names
  /\ r.auto => r.pc \in MountPhases /\ r.at \in Names
  /\ r.pc \in MountPhases => r.auto \/ r.verb \in {"mount", "repair"}
  /\ r.pc \in {"force", "retract", "acard"} => r.point \in Names
  /\ r.pc \in {"acard", "aset"} => r.at \in Names
  /\ r.parked => r.verb = "renamed" \/ r.pc \in {"numount", "nstop", "nsave"}
  /\ r.clean => r.pc \in TakingOff \cup {"rsafe"}
  /\ r.known => r.pc \in {"rumount", "rforce", "rretract", "rdrop", "rsafe"}
  /\ r.pc \in {"rumount", "rretract"} => r.known
  /\ r.pc \in {"rumount", "fumount"} \/ (r.pc = "rforce" /\ r.known) => r.clean
  /\ r.clean => r.known \/ r.verb = "repair"

\* Every job fits its phase, verbs are sent in order, a mounted row has its
\* mount point and only a volume that is in is mounted.
JobsInv == \A j \in Jobs : At(j, job[j])
AskedInv == \A i \in 1..MaxRequests : i > asked => job[HandlerNames[i]].pc = "idle"
RowsInv == \A n \in Names : drives[n] # None /\ drives[n].class = "clean" => drives[n].root \in Names
MountsInv == \A n \in Names : mounts[n] = "live" => plugged
Shaped == JobsInv /\ AskedInv /\ RowsInv /\ MountsInv

\* TypeOK without the history.
Typed ==
  /\ plugged \in BOOLEAN /\ alias \in Names \cup {None}
  /\ mounts \in [Names -> {"none", "live", "dead"}]
  /\ drives \in [Names -> Row \cup {None}] /\ held \subseteq Names
  /\ removal \in Notice \cup {None}
  /\ cards \subseteq [id : CardIds, at : Names] /\ retracts \subseteq CardIds
  /\ queue \in Names \cup {"parked"}
  /\ job \in [Jobs -> Job]
  /\ asked \in 0..MaxRequests /\ happened \subseteq Troubles

Rows == {n \in Names : drives[n] # None}
CleanRow(n) == drives[n] # None /\ drives[n].class = "clean"

------------------------------------------------------------------------------
(* SafeMeansOff and FsckAlone.                                             *)

\* While nothing crossed there is one verb at most, and what it saw plugged in
\* or mounted still is plugged in.
Alone ==
  ~crossed =>
    /\ \A h, k \in Handlers : Busy(h) /\ Busy(k) => h = k
    /\ \A h \in Handlers : job[h].pc = "swap" /\ job[h].there => plugged
    /\ \A j \in Jobs : job[j].pc \in {"card", "set"} => plugged

Quiet == ~met /\ ~crossed
\* The verb works on the registry of its own first refresh.
Settled(h) == job[h].pc \notin {"idle", "read", "swap"} /\ job[h].verb # "renamed"

\* The registry after that refresh: the row of the volume, or none.
SettledAt(h) ==
  Settled(h) => \A n \in Rows :
    n = Id /\ drives[n].class # "hiberfile" /\ (CleanRow(n) => plugged)

\* A removal or repair of a mounted row: its row still says mounted, and so
\* nobody mounts; fsck finds the volume off.
TakeOffAt(h) ==
  job[h].clean /\ job[h].pc \in TakingOff =>
    CleanRow(job[h].id) /\ Mounting = {} /\ (job[h].pc = "fsck" => Live = {})

\* While the probe of a removal that saw no mount waits for the lock, only the
\* tick mounts, and its row tells.
ProbeAt(h) ==
  job[h].verb = "remove" /\ job[h].pc = "swap" /\ job[h].at = None => \A n \in Live :
    /\ job["tick"].pc = "swap" => job["tick"].at # None
    /\ \/ drives[n] = None \/ CleanRow(n)
       \/ job["tick"].pc \in {"card", "set"} /\ job["tick"].at = n
    /\ ~(job["tick"].pc = "mount" /\ job["tick"].at = n)

\* What a removal finds mounted its row knows, or there is no row.
LookupAt(h) ==
  job[h].verb = "remove" /\ job[h].pc \in {"force", "retract", "rlookup"} =>
    \A n \in Live : drives[n] = None \/ CleanRow(n)

\* A removal has taken the volume off and holds it; a mount or a repair has
\* taken the banner of its volume down.
RemoveAt(h) ==
  /\ job[h].pc \in {"rretract", "rdrop", "rsafe"} => mounts[job[h].id] # "live"
  /\ job[h].pc = "rsafe" => job[h].id \in held /\ \A j \in Mounting : Target(j) # job[h].id
  /\ job[h].verb \in {"mount", "repair"} => removal = None \/ removal.id # job[h].id

VerbAt(h) == SettledAt(h) /\ TakeOffAt(h) /\ ProbeAt(h) /\ LookupAt(h) /\ RemoveAt(h)

\* The volume of the "safe" banner is held, off, and not about to be mounted.
SafeInv ==
  Quiet /\ removal # None /\ removal.stage = "safe" =>
    /\ removal.id \in held /\ mounts[removal.id] # "live"
    /\ \A j \in Mounting : Target(j) # removal.id

QuietInv == /\ Alone /\ (met \/ Exposed = {} \/ Mounting = {})
            /\ (Quiet => \A h \in Handlers : VerbAt(h)) /\ SafeInv

------------------------------------------------------------------------------
(* QueueKept.                                                              *)
\* Reconciles that never overlapped are one at a time.
Apart == ~together => \A j, k \in Reconciling : j = k

\* A rename that parked tracks finds the volume again.
ParkAt(h) ==
  /\ job[h].verb = "rename" /\ job[h].pc \notin {"read", "swap"} /\ Rows # {} => plugged
  /\ job[h].parked => /\ plugged
                      /\ job[h].pc = "swap" => job[h].there
                      /\ job[h].verb = "renamed" /\ job[h].pc \notin {"read", "swap"}
                           => Rows # {}
ParkInv == ~crossed /\ ~together => \A h \in Handlers : ParkAt(h)
------------------------------------------------------------------------------
(* OneCard.                                                                *)
Undisturbed == ~together /\ ~met /\ ~crossed /\ happened \cap {"yank", "carddrop"} = {}

\* The cards whose removal is not under way, and the verb that takes one off.
Real == {c \in cards : c.id \notin retracts}
Off(h, c) == /\ job[h].id = c.at /\ job[h].lib = c.id
             /\ \/ job[h].pc = "rretract" /\ job[h].clean
                \/ job[h].pc = "nstop"

\* Before the volume comes for the first time nothing is known of it.
NothingKnown == /\ cards = {} /\ \A n \in Names : ~CleanRow(n)
                /\ \A j \in Jobs : job[j].pc \notin {"card", "set", "acard"}
                                   /\ (job[j].pc = "swap" => ~job[j].there)
NoVolume == "yank" \notin happened /\ ~plugged => NothingKnown

\* A card is mounted, or its removal is under way.
CardsMounted == \A c \in Real : mounts[c.at] = "live" \/ \E h \in Handlers : Off(h, c)

\* A row and the mount table agree, and only the row of the id outlives a refresh.
RowFits(n) ==
  /\ CleanRow(n) => drives[n].root = n
  /\ CleanRow(n) /\ drives[n].lib = 0 => mounts[n] = "live"
  /\ ~CleanRow(n) /\ mounts[n] = "live"
       => \E j \in Jobs : job[j].pc \in {"card", "set"} /\ Target(j) = n
  /\ n # Id => Live = {} /\ \A j \in Reconciling : job[j].pc \in {"read", "swap"}

\* A mounted row knows its card, unless its mount is being recorded.
BeingSet(n) == \E j \in Jobs : job[j].pc = "set" /\ Target(j) = n
HasCard(n) == CleanRow(n) /\ drives[n].lib # 0
\* A mount point has one card.
CardsFit ==
  /\ \A c \in Real : HasCard(c.at) => c.id = drives[c.at].lib \/ BeingSet(c.at)
  /\ \A c \in Real, d \in cards \ Real : c.at = d.at => HasCard(c.at) \/ BeingSet(c.at)
  /\ \A c, d \in Real : c.at = d.at => c = d

\* A mount finds no card of its mount point, and records the one it adds.
MountFits(j) ==
  j \in Mounting =>
    /\ Target(j) = Id /\ drives[Id] # None
    /\ (job[j].pc = "mount") <=> (mounts[Id] # "live")
    /\ job[j].pc = "card" => \A c \in Real : c.at # Id
    /\ job[j].pc = "set" => \A c \in Real : c.at = Id => c.id = job[j].lib

\* An adoption works on a mounted row that has no card.
AdoptFits(j) ==
  /\ job[j].pc \in {"acard", "aset"} => CleanRow(job[j].at) /\ ~HasCard(job[j].at)
  /\ job[j].pc = "acard" => job[j].point = job[j].at /\ \A c \in cards : c.at # job[j].at
  /\ job[j].pc = "aset" => \A c \in Real : c.at = job[j].at => c.id = job[j].lib

\* A removal knows the card of what it takes off.
RemoveFits(j) ==
  /\ job[j].pc \in {"rumount", "rforce", "rretract", "rdrop"} /\ job[j].clean =>
       HasCard(job[j].id) /\ drives[job[j].id].lib = job[j].lib
  /\ job[j].pc \in {"rretract", "rdrop"} /\ job[j].known /\ ~job[j].clean =>
       ~CleanRow(job[j].id)
  /\ job[j].pc = "rforce" /\ ~job[j].known => mounts[job[j].id] # "live"
  /\ job[j].verb = "remove" /\ job[j].pc \in {"force", "retract", "rlookup"} =>
       Live \subseteq Rows

\* A repair and a rename drop the card before fsck and before the new alias.
VerbFits(j) ==
  /\ job[j].pc = "fumount" => HasCard(job[j].id) /\ \A c \in Real : c.at # job[j].id
  /\ job[j].pc \in {"fbegin", "fsck"} => drives[job[j].id] # None
  /\ job[j].pc = "numount" => HasCard(job[j].id) /\ drives[job[j].id].lib = job[j].lib
  /\ job[j].pc = "nstop" => \A c \in Real : c.id = job[j].lib
  /\ job[j].pc \in {"force", "fbegin", "fsck", "nstop", "nsave"}
     \/ (job[j].verb = "renamed" /\ job[j].pc \in {"read", "swap"}) => Live = {}

JobFits(j) == MountFits(j) /\ AdoptFits(j) /\ RemoveFits(j) /\ VerbFits(j)
Fit == /\ CardsMounted /\ CardsFit /\ Live \subseteq {Id}
       /\ (\A n \in Rows : RowFits(n)) /\ \A j \in Jobs : JobFits(j)

QueueInv == Apart /\ ParkInv /\ QueueKept
CardsInv == NoVolume /\ (Undisturbed => Fit)
IInv == TypeOK /\ Shaped /\ QuietInv /\ QueueInv /\ CardsInv

(***************************************************************************)
(* What each action does, without the EXCEPTs.                             *)
(***************************************************************************)
LEMMA JobFacts ==
  /\ "tick" \in Jobs /\ Handlers \subseteq Jobs /\ "tick" \notin Handlers
  /\ IdleJob \in Job
  /\ IdleJob.pc = "idle" /\ IdleJob.verb = "tick" /\ ~IdleJob.auto /\ ~IdleJob.parked
  /\ ~IdleJob.clean /\ ~IdleJob.known /\ IdleJob.lib = 0 /\ IdleJob.at = None
  BY HandlersAssumption, BoundsAssumption DEF Jobs, IdleJob, Job, Phases

LEMMA ZeroCard == 0 \in 0..MaxCards /\ 0 \notin CardIds /\ CardIds \subseteq 0..MaxCards
  BY BoundsAssumption DEF CardIds

LEMMA LeastId ==
  ASSUME NEW S, S \subseteq Nat, S # {}
  PROVE  \E i \in S : \A k \in S : i <= k
<1>1. PICK i \in S : \A k \in S : ~(<<k, i>> \in OpToRel(<, Nat))
  BY NatLessThanWellFounded, WFMin
<1>2. ASSUME NEW k \in S PROVE i <= k
  <2>1. ~(k < i)
    BY <1>1 DEF OpToRel
  <2> QED
    BY <2>1
<1> QED
  BY <1>2

\* What a record mostly keeps.
Task(r, q) == r.verb = q.verb /\ r.id = q.id /\ r.to = q.to
Place(r, q) == r.there = q.there /\ r.at = q.at /\ r.point = q.point /\ r.lib = q.lib
Flags(r, q) == /\ r.auto = q.auto /\ r.known = q.known
               /\ r.clean = q.clean /\ r.parked = q.parked
\* Job j alone moves.
Others(j) == job' \in [Jobs -> Job] /\ \A k \in Jobs \ {j} : job'[k] = job[k]
\* Job j goes to phase p.
Steps(j, p) == /\ Others(j) /\ job'[j].pc = p
               /\ Task(job'[j], job[j]) /\ Place(job'[j], job[j]) /\ Flags(job'[j], job[j])
Stops(j) == Others(j) /\ job'[j] = IdleJob

SameHost == plugged' = plugged /\ alias' = alias /\ mounts' = mounts
SameInner == drives' = drives /\ held' = held /\ removal' = removal
SameLibrary == cards' = cards /\ retracts' = retracts /\ queue' = queue
SameBounds == asked' = asked /\ happened' = happened
\* Nothing but trouble e happens.
AtMost(e) == asked' = asked /\ happened \subseteq happened' /\ happened' \subseteq happened \cup {e}

LEMMA HappensFacts ==
  ASSUME NEW e, Happens(e)
  PROVE  AtMost(e) /\ e \in happened'
  BY DEF Happens, AtMost

LEMMA FineFacts ==
  ASSUME Fine
  PROVE  SameBounds /\ \A e : AtMost(e)
  BY DEF Fine, boundVars, SameBounds, AtMost

LEMMA PutFacts ==
  ASSUME NEW j \in Jobs, NEW r \in Job, job \in [Jobs -> Job], job' = [job EXCEPT ![j] = r]
  PROVE  Others(j) /\ job'[j] = r
  BY DEF Others

LEMMA GotoFacts ==
  ASSUME Typed, NEW j \in Jobs, NEW p \in Phases, Goto(j, p)
  PROVE  Steps(j, p)
<1>1. job[j] \in Job
  BY DEF Typed
<1> DEFINE r == [job[j] EXCEPT !.pc = p]
<1>2. job' = [job EXCEPT ![j] = r]
  BY DEF Goto
<1>3. r \in Job
  BY <1>1, ZenonT(60) DEF Job, Phases
<1>4. /\ r.pc = p /\ Task(r, job[j]) /\ Place(r, job[j])
      /\ Flags(r, job[j])
  BY <1>1, Zenon DEF Job, Task, Place, Flags
<1> HIDE DEF r
<1>5. Others(j) /\ job'[j] = r
  BY <1>2, <1>3, PutFacts DEF Typed
<1> QED
  BY <1>4, <1>5 DEF Steps

LEMMA DoneFacts ==
  ASSUME Typed, NEW j \in Jobs, Done(j)
  PROVE  Stops(j)
  BY PutFacts, JobFacts DEF Done, Stops, Typed

LEMMA ReadEffect ==
  ASSUME Typed, NEW j \in Jobs, Read(j)
  PROVE  /\ job[j].pc = "read" /\ job'[j].pc = "swap" /\ Others(j)
         /\ Task(job'[j], job[j]) /\ Flags(job'[j], job[j])
         /\ job'[j].there = plugged /\ job'[j].point = job[j].point /\ job'[j].lib = job[j].lib
         /\ IF Live = {} THEN job'[j].at = None ELSE job'[j].at \in Live
         /\ SameHost /\ SameInner /\ SameLibrary /\ SameBounds
<1>1. PICK n \in IF Live = {} THEN {None} ELSE Live :
        job' = [job EXCEPT ![j].pc = "swap", ![j].there = plugged, ![j].at = n]
  BY DEF Read
<1>2. n \in Names \cup {None} /\ plugged \in BOOLEAN /\ job[j] \in Job
  BY <1>1 DEF Live, Typed
<1> DEFINE r == [job[j] EXCEPT !.pc = "swap", !.there = plugged, !.at = n]
<1>3. job' = [job EXCEPT ![j] = r]
  BY <1>1
<1>4. r \in Job
  BY <1>2, ZenonT(60) DEF Job, Phases
<1>5. /\ r.pc = "swap" /\ r.there = plugged /\ r.at = n /\ Task(r, job[j])
      /\ r.point = job[j].point /\ r.lib = job[j].lib /\ Flags(r, job[j])
  BY <1>2, Zenon DEF Job, Task, Place, Flags
<1> HIDE DEF r
<1>6. Others(j) /\ job'[j] = r
  BY <1>3, <1>4, PutFacts DEF Typed
<1> QED
  BY <1>1, <1>5, <1>6 DEF Read, SameHost, SameInner, SameLibrary, SameBounds, inner, library,
                          boundVars, Task, Flags

LEMMA ReadFailsEffect ==
  ASSUME Typed, NEW j \in Jobs, ReadFails(j)
  PROVE  /\ job[j].pc = "read" /\ Stops(j) /\ SameHost /\ SameInner /\ SameLibrary
         /\ AtMost("probe") /\ "probe" \in happened'
  BY DoneFacts, HappensFacts DEF ReadFails, SameHost, SameInner, SameLibrary, inner, library

LEMMA RefreshedType ==
  ASSUME Typed, NEW j \in Jobs
  PROVE  /\ Refreshed(j) \in [Names -> Row \cup {None}]
         /\ \A n \in Names :
              /\ ~(job[j].there /\ n = Id) => Refreshed(j)[n] = None
              /\ job[j].there /\ n = Id => Refreshed(j)[n] # None
              /\ job[j].there /\ n = Id /\ CleanRow(n) => Refreshed(j)[n] = drives[n]
              /\ job[j].there /\ n = Id /\ ~CleanRow(n) =>
                   /\ Refreshed(j)[n].lib = 0 /\ Refreshed(j)[n].root = job[j].at
                   /\ Refreshed(j)[n].class = IF job[j].at = None THEN "unmounted" ELSE "clean"
<1>1. job[j].at \in Names \cup {None}
  BY DEF Typed, Job
<1>2. /\ Classified(job[j].at) \in Row /\ Classified(job[j].at).lib = 0
      /\ Classified(job[j].at).root = job[j].at
      /\ Classified(job[j].at).class = IF job[j].at = None THEN "unmounted" ELSE "clean"
  BY <1>1, ZeroCard DEF Classified, Row, Classes
<1>3. Classified(job[j].at) # None /\ None \notin Row
  BY <1>2, NoneAssumption
<1> HIDE DEF Classified
<1> QED
  BY <1>2, <1>3 DEF Refreshed, Typed, CleanRow

LEMMA SwapEffect ==
  ASSUME Typed, NEW j \in Jobs, Swap(j)
  PROVE  /\ job[j].pc = "swap" /\ Others(j) /\ Task(job'[j], job[j]) /\ Flags(job'[j], job[j])
         /\ job'[j].there = job[j].there /\ job'[j].at = job[j].at
         /\ drives' = Refreshed(j)
         /\ held' = {n \in held : Refreshed(j)[n] # None}
         /\ removal' = IF removal # None /\ Refreshed(j)[removal.id] = None THEN None ELSE removal
         /\ \/ /\ Steps(j, AfterRefresh(j))
               /\ \A n \in Names : CleanRow(n) => Refreshed(j)[n] # None
            \/ /\ job'[j].pc = "force" /\ job'[j].point \in Names
               /\ CleanRow(job'[j].point) /\ Refreshed(j)[job'[j].point] = None
               /\ job'[j].lib = drives[job'[j].point].lib
         /\ SameHost /\ SameLibrary /\ SameBounds
<1> DEFINE fresh == Refreshed(j)
           gone == {n \in Names : fresh[n] = None /\ drives[n] # None /\ drives[n].class = "clean"}
<1>1. /\ job[j].pc = "swap" /\ drives' = fresh /\ SameHost /\ SameLibrary /\ SameBounds
      /\ held' = held \cap {n \in Names : fresh[n] # None}
      /\ removal' = IF removal # None /\ removal.id \notin {n \in Names : fresh[n] # None}
                      THEN None ELSE removal
      /\ IF gone = {} THEN Goto(j, AfterRefresh(j))
         ELSE \E n \in gone : job' = [job EXCEPT ![j].pc = "force", ![j].point = n,
                                                 ![j].lib = drives[n].lib]
  BY DEF Swap, SameHost, SameLibrary, SameBounds, library, boundVars
<1> HIDE DEF fresh
<1>2. held' = {n \in held : fresh[n] # None}
  BY <1>1 DEF Typed
<1>3. removal' = IF removal # None /\ fresh[removal.id] = None THEN None ELSE removal
  BY <1>1 DEF Typed, Notice
<1>4. CASE gone = {}
  <2>1. Steps(j, AfterRefresh(j))
    BY <1>1, <1>4, GotoFacts DEF AfterRefresh, Phases
  <2> QED
    BY <1>1, <1>2, <1>3, <1>4, <2>1 DEF Steps, Place, CleanRow, fresh
<1>5. CASE gone # {}
  <2>1. PICK n \in gone : job' = [job EXCEPT ![j].pc = "force", ![j].point = n,
                                             ![j].lib = drives[n].lib]
    BY <1>1, <1>5
  <2>2. n \in Names /\ drives[n].lib \in 0..MaxCards /\ job[j] \in Job
    BY <2>1 DEF Typed, Row
  <2> DEFINE r == [job[j] EXCEPT !.pc = "force", !.point = n, !.lib = drives[n].lib]
  <2>3. job' = [job EXCEPT ![j] = r]
    BY <2>1
  <2>4. r \in Job
    BY <2>2, ZenonT(60) DEF Job, Phases
  <2>5. /\ r.pc = "force" /\ r.point = n /\ r.lib = drives[n].lib
        /\ Task(r, job[j]) /\ r.there = job[j].there /\ r.at = job[j].at
        /\ Flags(r, job[j])
    BY <2>2, Zenon DEF Job, Task, Place, Flags
  <2> HIDE DEF r
  <2>6. Others(j) /\ job'[j] = r
    BY <2>3, <2>4, PutFacts DEF Typed
  <2> QED
    BY <1>1, <1>2, <1>3, <2>1, <2>5, <2>6 DEF CleanRow, fresh
<1> QED
  BY <1>4, <1>5

LEMMA ForceGoneEffect ==
  ASSUME Typed, NEW j \in Jobs, ForceGone(j)
  PROVE  /\ job[j].pc = "force" /\ Steps(j, "retract")
         /\ mounts' = mounts \/ mounts' = [mounts EXCEPT ![job[j].point] = "none"]
         /\ plugged' = plugged /\ alias' = alias /\ SameInner /\ SameLibrary /\ AtMost("force")
<1>1. "retract" \in Phases
  BY DEF Phases
<1> QED
  BY <1>1, GotoFacts, HappensFacts, FineFacts
     DEF ForceGone, SameInner, SameLibrary, inner, library

\* The library lost card id, unless it did not answer; no card was added.
Drops(id) == /\ cards' \subseteq cards /\ AtMost("carddrop")
             /\ "carddrop" \notin happened' => \A c \in cards' : c.id # id
LEMMA DropFacts ==
  ASSUME NEW id, DropCard(id)
  PROVE  Drops(id)
  BY HappensFacts, FineFacts DEF DropCard, Drops, Without

LEMMA RetractEffect ==
  ASSUME Typed, NEW j \in Jobs, Retract(j)
  PROVE  /\ job[j].pc = "retract" /\ job'[j].pc = AfterRefresh(j) /\ Others(j)
         /\ Task(job'[j], job[j]) /\ Flags(job'[j], job[j])
         /\ job'[j].there = job[j].there /\ job'[j].at = job[j].at
         /\ job'[j].point = None /\ job'[j].lib = 0
         /\ Drops(job[j].lib) /\ retracts' = retracts /\ queue' = queue
         /\ SameHost /\ SameInner
<1>1. job[j] \in Job /\ AfterRefresh(j) \in Phases
  BY DEF Typed, AfterRefresh, Phases
<1> DEFINE p == AfterRefresh(j)
<1>2. job' = [job EXCEPT ![j].pc = p, ![j].point = None, ![j].lib = 0]
  BY DEF Retract
<1>3. p \in Phases
  BY <1>1
<1> HIDE DEF p
<1> DEFINE r == [job[j] EXCEPT !.pc = p, !.point = None, !.lib = 0]
<1>4. job' = [job EXCEPT ![j] = r]
  BY <1>2
<1>5. r \in Job
  BY <1>1, <1>3, ZeroCard, ZenonT(60) DEF Job, Phases
<1>6. /\ r.pc = p /\ r.point = None /\ r.lib = 0 /\ Task(r, job[j])
      /\ r.there = job[j].there /\ r.at = job[j].at /\ Flags(r, job[j])
  BY <1>1, <1>3, ZeroCard, Zenon DEF Job, Task, Place, Flags
<1> HIDE DEF r
<1>7. Others(j) /\ job'[j] = r
  BY <1>4, <1>5, PutFacts DEF Typed
<1> QED
  BY <1>6, <1>7, DropFacts DEF Retract, SameHost, SameInner, inner, p

LEMMA AutoMountEffect ==
  ASSUME Typed, NEW j \in Jobs, AutoMount(j)
  PROVE  /\ job[j].pc = "auto" /\ SameHost /\ SameInner /\ SameLibrary /\ SameBounds
         /\ \/ Candidates = {} /\ Steps(j, "adopt")
            \/ /\ job'[j].pc = "mount" /\ job'[j].at \in Candidates /\ Others(j)
               /\ Task(job'[j], job[j]) /\ job'[j].auto /\ job'[j].there = job[j].there
               /\ job'[j].point = job[j].point /\ job'[j].lib = job[j].lib
               /\ job'[j].known = job[j].known /\ job'[j].clean = job[j].clean
               /\ job'[j].parked = job[j].parked
<1>1. /\ job[j].pc = "auto" /\ SameHost /\ SameInner /\ SameLibrary /\ SameBounds
      /\ IF Candidates = {} THEN Goto(j, "adopt")
         ELSE \E n \in Candidates :
                job' = [job EXCEPT ![j].pc = "mount", ![j].at = n, ![j].auto = TRUE]
  BY DEF AutoMount, SameHost, SameInner, SameLibrary, SameBounds, inner, library, boundVars
<1>2. CASE Candidates = {}
  <2>1. "adopt" \in Phases
    BY DEF Phases
  <2> QED
    BY <1>1, <1>2, <2>1, GotoFacts
<1>3. CASE Candidates # {}
  <2>1. PICK n \in Candidates :
          job' = [job EXCEPT ![j].pc = "mount", ![j].at = n, ![j].auto = TRUE]
    BY <1>1, <1>3
  <2>2. n \in Names /\ job[j] \in Job
    BY <2>1 DEF Typed, Candidates
  <2> DEFINE r == [job[j] EXCEPT !.pc = "mount", !.at = n, !.auto = TRUE]
  <2>3. job' = [job EXCEPT ![j] = r]
    BY <2>1
  <2>4. r \in Job
    BY <2>2, ZenonT(60) DEF Job, Phases
  <2>5. /\ r.pc = "mount" /\ r.at = n /\ r.auto /\ Task(r, job[j])
        /\ r.there = job[j].there /\ r.point = job[j].point
        /\ r.lib = job[j].lib /\ r.known = job[j].known
        /\ r.clean = job[j].clean /\ r.parked = job[j].parked
    BY <2>2, Zenon DEF Job, Task, Place, Flags
  <2> HIDE DEF r
  <2>6. Others(j) /\ job'[j] = r
    BY <2>3, <2>4, PutFacts DEF Typed
  <2> QED
    BY <1>1, <2>1, <2>5, <2>6
<1> QED
  BY <1>2, <1>3

\* The row of n, if any, has class c now; nothing else changed.
Marks(n, c) ==
  /\ drives' \in [Names -> Row \cup {None}]
  /\ \A m \in Names : m # n => drives'[m] = drives[m]
  /\ drives[n] = None => drives'[n] = None
  /\ drives[n] # None => /\ drives'[n] # None /\ drives'[n].class = c
                         /\ drives'[n].root = drives[n].root /\ drives'[n].lib = drives[n].lib
LEMMA MarkFacts ==
  ASSUME Typed, NEW n \in Names, NEW c \in Classes, Mark(n, c)
  PROVE  Marks(n, c)
<1>1. CASE drives[n] = None
  BY <1>1 DEF Mark, Marks, Typed
<1>2. CASE drives[n] # None
  <2> DEFINE r == [drives[n] EXCEPT !.class = c]
  <2>1. drives[n] \in Row
    BY <1>2 DEF Typed
  <2>2. r \in Row /\ r.class = c /\ r.root = drives[n].root /\ r.lib = drives[n].lib
    BY <2>1 DEF Row
  <2>3. drives' = [drives EXCEPT ![n] = r]
    BY <1>2 DEF Mark
  <2>4. r # None
    BY <2>2, NoneAssumption
  <2> HIDE DEF r
  <2> QED
    BY <1>2, <2>2, <2>3, <2>4 DEF Marks, Typed
<1> QED
  BY <1>1, <1>2

\* What follows a mount attempt of job j.
Attempted(j) ==
  IF job[j].auto
    THEN /\ Others(j) /\ job'[j].pc = "adopt" /\ Task(job'[j], job[j]) /\ ~job'[j].auto
         /\ job'[j].at = None /\ job'[j].lib = 0 /\ job'[j].there = job[j].there
         /\ job'[j].point = job[j].point /\ job'[j].known = job[j].known
         /\ job'[j].clean = job[j].clean /\ job'[j].parked = job[j].parked
    ELSE Stops(j)
LEMMA MountedFacts ==
  ASSUME Typed, NEW j \in Jobs, job' = [job EXCEPT ![j] = Mounted(j)]
  PROVE  Attempted(j)
<1>1. CASE job[j].auto
  <2>1. job[j] \in Job
    BY DEF Typed
  <2>2. job' = [job EXCEPT ![j] = [job[j] EXCEPT !.pc = "adopt", !.auto = FALSE, !.at = None,
                                                 !.lib = 0]]
    BY <1>1 DEF Mounted
  <2> DEFINE r == [job[j] EXCEPT !.pc = "adopt", !.auto = FALSE, !.at = None, !.lib = 0]
  <2>3. job' = [job EXCEPT ![j] = r]
    BY <2>2
  <2>4. r \in Job
    BY <2>1, ZeroCard, ZenonT(60) DEF Job, Phases
  <2>5. /\ r.pc = "adopt" /\ r.at = None /\ r.lib = 0 /\ ~r.auto
        /\ Task(r, job[j]) /\ r.there = job[j].there
        /\ r.point = job[j].point /\ r.known = job[j].known
        /\ r.clean = job[j].clean /\ r.parked = job[j].parked
    BY <2>1, ZeroCard, Zenon DEF Job, Task, Place, Flags
  <2> HIDE DEF r
  <2>6. Others(j) /\ job'[j] = r
    BY <2>3, <2>4, PutFacts DEF Typed
  <2> QED
    BY <1>1, <2>5, <2>6 DEF Attempted
<1>2. CASE ~job[j].auto
  BY <1>2, PutFacts, JobFacts DEF Mounted, Attempted, Stops, Typed
<1> QED
  BY <1>1, <1>2

LEMMA TargetType ==
  ASSUME Typed, Shaped, NEW j \in Jobs, job[j].pc \in MountPhases
  PROVE  Target(j) \in Names
  BY DEF Typed, Shaped, JobsInv, At, Target, MountPhases

LEMMA MountEffect ==
  ASSUME Typed, Shaped, NEW j \in Jobs, Mount(j)
  PROVE  LET n == Target(j)
         IN  /\ job[j].pc = "mount" /\ n \in Names
             /\ plugged' = plugged /\ alias' = alias /\ held' = held /\ removal' = removal
             /\ SameLibrary /\ (AtMost("mount") \/ AtMost("wrapper"))
             /\ \/ /\ plugged /\ mounts' = [mounts EXCEPT ![n] = "live"]
                   /\ Steps(j, "card") /\ drives' = drives
                \/ /\ mounts' = mounts /\ Attempted(j)
                   /\ Marks(n, "failed_other") \/ drives' = drives
<1> DEFINE n == Target(j)
<1>1. job[j].pc = "mount" /\ n \in Names
  BY TargetType DEF Mount, MountPhases
<1>2. "card" \in Phases /\ "failed_other" \in Classes
  BY DEF Phases, Classes
<1>3. /\ plugged' = plugged /\ alias' = alias /\ held' = held /\ removal' = removal /\ SameLibrary
  BY DEF Mount, SameLibrary, library
<1>4. \/ /\ plugged /\ mounts' = [mounts EXCEPT ![n] = "live"]
         /\ Goto(j, "card") /\ drives' = drives /\ Fine
      \/ /\ Mark(n, "failed_other") /\ job' = [job EXCEPT ![j] = Mounted(j)]
         /\ mounts' = mounts /\ (Fine \/ Happens("mount"))
      \/ /\ drives' = drives /\ job' = [job EXCEPT ![j] = Mounted(j)]
         /\ mounts' = mounts /\ Happens("wrapper")
  BY DEF Mount
<1> HIDE DEF n
<1>5. AtMost("mount") \/ AtMost("wrapper")
  BY <1>4, FineFacts, HappensFacts
<1>6. CASE /\ plugged /\ mounts' = [mounts EXCEPT ![n] = "live"]
           /\ Goto(j, "card") /\ drives' = drives /\ Fine
  BY <1>1, <1>2, <1>3, <1>5, <1>6, GotoFacts DEF n
<1>7. CASE /\ Mark(n, "failed_other") /\ job' = [job EXCEPT ![j] = Mounted(j)]
           /\ mounts' = mounts /\ (Fine \/ Happens("mount"))
  BY <1>1, <1>2, <1>3, <1>5, <1>7, MarkFacts, MountedFacts DEF n
<1>8. CASE /\ drives' = drives /\ job' = [job EXCEPT ![j] = Mounted(j)]
           /\ mounts' = mounts /\ Happens("wrapper")
  BY <1>1, <1>2, <1>3, <1>5, <1>8, MountedFacts DEF n
<1> QED
  BY <1>4, <1>6, <1>7, <1>8

\* Job j got a new card at n, or none; it goes on in phase p.
Registers(j, n, p) ==
  /\ Others(j) /\ job'[j].pc = p /\ Task(job'[j], job[j]) /\ Flags(job'[j], job[j])
  /\ job'[j].there = job[j].there /\ job'[j].at = job[j].at /\ job'[j].point = job[j].point
  /\ AtMost("cardadd")
  /\ \/ cards' = cards /\ job'[j].lib = 0
     \/ /\ cards' = cards \cup {[id |-> job'[j].lib, at |-> n]} /\ job'[j].lib \in CardIds
        /\ job'[j].lib \notin retracts /\ \A c \in cards : c.id # job'[j].lib
LEMMA AddFacts ==
  ASSUME Typed, NEW j \in Jobs, NEW n \in Names, NEW p \in Phases, AddCard(j, n, p)
  PROVE  Registers(j, n, p)
<1>1. job[j] \in Job
  BY DEF Typed
<1>2. CASE /\ CardIds \ Referred # {} /\ cards' = cards \cup {[id |-> FreshCard, at |-> n]}
           /\ job' = [job EXCEPT ![j].pc = p, ![j].lib = FreshCard] /\ Fine
  <2> DEFINE f == FreshCard
  <2>1. f \in CardIds \ Referred
    <3>1. CardIds \subseteq Nat
      BY DEF CardIds
    <3>2. PICK i \in CardIds \ Referred : \A k \in CardIds \ Referred : i <= k
      BY <1>2, <3>1, LeastId
    <3> QED
      BY <3>2 DEF FreshCard
  <2> HIDE DEF f
  <2>2. f \in 0..MaxCards /\ f \notin retracts /\ \A c \in cards : c.id # f
    BY <2>1, ZeroCard DEF Referred
  <2>3. job' = [job EXCEPT ![j].pc = p, ![j].lib = f]
    BY <1>2 DEF f
  <2> DEFINE r == [job[j] EXCEPT !.pc = p, !.lib = f]
  <2>4. job' = [job EXCEPT ![j] = r]
    BY <2>3
  <2>5. r \in Job
    BY <1>1, <2>2, ZenonT(60) DEF Job, Phases
  <2>6. /\ r.pc = p /\ r.lib = f /\ Task(r, job[j])
        /\ r.there = job[j].there /\ r.at = job[j].at
        /\ r.point = job[j].point /\ Flags(r, job[j])
    BY <1>1, <2>2, Zenon DEF Job, Task, Place, Flags
  <2> HIDE DEF r
  <2>7. Others(j) /\ job'[j] = r
    BY <2>4, <2>5, PutFacts DEF Typed
  <2>8. cards' = cards \cup {[id |-> f, at |-> n]}
    BY <1>2 DEF f
  <2> QED
    BY <1>2, <2>1, <2>2, <2>6, <2>7, <2>8, FineFacts DEF Registers
<1>3. CASE Happens("cardadd") /\ job' = [job EXCEPT ![j].pc = p, ![j].lib = 0] /\ cards' = cards
  <2> DEFINE r == [job[j] EXCEPT !.pc = p, !.lib = 0]
  <2>1. job' = [job EXCEPT ![j] = r]
    BY <1>3
  <2>2. r \in Job
    BY <1>1, ZeroCard, ZenonT(60) DEF Job, Phases
  <2>3. /\ r.pc = p /\ r.lib = 0 /\ Task(r, job[j])
        /\ r.there = job[j].there /\ r.at = job[j].at
        /\ r.point = job[j].point /\ Flags(r, job[j])
    BY <1>1, ZeroCard, Zenon DEF Job, Task, Place, Flags
  <2> HIDE DEF r
  <2>4. Others(j) /\ job'[j] = r
    BY <2>1, <2>2, PutFacts DEF Typed
  <2> QED
    BY <1>3, <2>3, <2>4, HappensFacts DEF Registers
<1> QED
  BY <1>2, <1>3 DEF AddCard

LEMMA CardEffect ==
  ASSUME Typed, Shaped, NEW j \in Jobs, Card(j)
  PROVE  /\ job[j].pc = "card" /\ Target(j) \in Names /\ Registers(j, Target(j), "set")
         /\ SameHost /\ SameInner /\ retracts' = retracts /\ queue' = queue
<1>1. job[j].pc = "card" /\ Target(j) \in Names /\ "set" \in Phases
  BY TargetType DEF Card, MountPhases, Phases
<1> QED
  BY <1>1, AddFacts DEF Card, SameHost, SameInner, inner

\* The row of n, if any, is mounted now, with card l.
Records(n, l) ==
  /\ drives' \in [Names -> Row \cup {None}]
  /\ \A m \in Names : m # n => drives'[m] = drives[m]
  /\ drives[n] = None => drives'[n] = None
  /\ drives[n] # None => /\ drives'[n] # None /\ drives'[n].class = "clean"
                         /\ drives'[n].root = n /\ drives'[n].lib = l
LEMMA SetMountedEffect ==
  ASSUME Typed, Shaped, NEW j \in Jobs, SetMounted(j)
  PROVE  /\ job[j].pc = "set" /\ Target(j) \in Names /\ Records(Target(j), job[j].lib)
         /\ Attempted(j) /\ SameHost /\ held' = held /\ removal' = removal
         /\ SameLibrary /\ SameBounds
<1> DEFINE n == Target(j)
           r == [class |-> "clean", root |-> n, lib |-> job[j].lib]
<1>1. job[j].pc = "set" /\ n \in Names
  BY TargetType DEF SetMounted, MountPhases
<1>2. job[j].lib \in 0..MaxCards
  BY DEF Typed, Job
<1>3. r \in Row /\ r.class = "clean" /\ r.root = n /\ r.lib = job[j].lib
  BY <1>1, <1>2 DEF Row, Classes
<1>4. r # None
  BY <1>3, NoneAssumption
<1>5. drives' = IF drives[n] = None THEN drives ELSE [drives EXCEPT ![n] = r]
  BY DEF SetMounted
<1> HIDE DEF n, r
<1>6. Records(n, job[j].lib)
  BY <1>1, <1>3, <1>4, <1>5 DEF Records, Typed
<1>7. Attempted(j)
  BY MountedFacts DEF SetMounted
<1> QED
  BY <1>1, <1>6, <1>7 DEF SetMounted, n, SameHost, SameLibrary, SameBounds, library, boundVars

\* Where the verbs go after their reconcile; a tick and a list are done.
NextPhase(v) ==
  CASE v = "mount" -> "mlookup"
    [] v = "repair" -> "flookup"
    [] v = "rename" -> "nlookup"
    [] OTHER -> "restore"
Goers == {"mount", "repair", "rename", "renamed"}
\* What follows the reconcile of job j, which has forgotten row and card.
Reconciled(j) ==
  IF job[j].verb \in Goers
    THEN /\ Others(j) /\ job'[j].pc = NextPhase(job[j].verb) /\ Task(job'[j], job[j])
         /\ Flags(job'[j], job[j]) /\ job'[j].there = job[j].there /\ job'[j].at = None
    ELSE Stops(j)
LEMMA AfterFacts ==
  ASSUME Typed, NEW j \in Jobs, job' = [job EXCEPT ![j] = AfterReconcile(j)]
  PROVE  Reconciled(j) /\ (job[j].verb \in Goers => /\ job'[j].point = job[j].point
                                                     /\ job'[j].lib = job[j].lib)
<1>1. CASE job[j].verb \in Goers
  <2> DEFINE p == NextPhase(job[j].verb)
  <2>1. job[j] \in Job /\ p \in Phases
    BY DEF Typed, NextPhase, Phases
  <2>2. AfterReconcile(j) = [job[j] EXCEPT !.pc = p, !.at = None]
    BY <1>1 DEF AfterReconcile, NextPhase, Goers
  <2> HIDE DEF p
  <2> DEFINE r == [job[j] EXCEPT !.pc = p, !.at = None]
  <2>3. job' = [job EXCEPT ![j] = r]
    BY <2>2
  <2>4. r \in Job
    BY <2>1, ZenonT(60) DEF Job, Phases
  <2>5. /\ r.pc = p /\ r.at = None /\ Task(r, job[j])
        /\ r.there = job[j].there /\ r.point = job[j].point
        /\ r.lib = job[j].lib /\ Flags(r, job[j])
    BY <2>1, Zenon DEF Job, Task, Place, Flags
  <2> HIDE DEF r
  <2>6. Others(j) /\ job'[j] = r
    BY <2>3, <2>4, PutFacts DEF Typed
  <2> QED
    BY <1>1, <2>5, <2>6 DEF Reconciled, p
<1>2. CASE job[j].verb \notin Goers
  <2>1. AfterReconcile(j) = IdleJob
    BY <1>2 DEF AfterReconcile, Goers
  <2> QED
    BY <1>2, <2>1, PutFacts, JobFacts DEF Reconciled, Stops, Typed
<1> QED
  BY <1>1, <1>2

LEMMA SameRecord ==
  ASSUME NEW r \in Job, NEW q \in Job, r.pc = q.pc, Task(r, q), Place(r, q), Flags(r, q)
  PROVE  r = q
  BY DEF Job, Task, Place, Flags

LEMMA StillIdle == [IdleJob EXCEPT !.lib = 0, !.point = None] = IdleJob
<1> DEFINE r == [IdleJob EXCEPT !.lib = 0, !.point = None]
<1>1. IdleJob \in Job /\ IdleJob.lib = 0 /\ IdleJob.point = None
  BY JobFacts DEF IdleJob
<1>2. r \in Job
  BY <1>1, ZeroCard, Zenon DEF Job
<1>3. r.pc = IdleJob.pc /\ Task(r, IdleJob) /\ Flags(r, IdleJob)
      /\ r.there = IdleJob.there /\ r.at = IdleJob.at /\ r.lib = 0 /\ r.point = None
  BY <1>1, Zenon DEF Job, Task, Flags
<1> HIDE DEF r
<1>4. r = IdleJob
  BY <1>1, <1>2, <1>3, SameRecord DEF Place
<1> QED
  BY <1>4 DEF r

LEMMA AfterSetFacts ==
  ASSUME Typed, NEW j \in Jobs,
         job' = [job EXCEPT ![j] = [AfterReconcile(j) EXCEPT !.lib = 0, !.point = None]]
  PROVE  Reconciled(j)
<1>1. CASE job[j].verb \in Goers
  <2> DEFINE p == NextPhase(job[j].verb)
  <2>1. job[j] \in Job /\ p \in Phases
    BY DEF Typed, NextPhase, Phases
  <2>2. AfterReconcile(j) = [job[j] EXCEPT !.pc = p, !.at = None]
    BY <1>1 DEF AfterReconcile, NextPhase, Goers
  <2> HIDE DEF p
  <2> DEFINE r == [job[j] EXCEPT !.pc = p, !.at = None, !.lib = 0, !.point = None]
  <2>3. job' = [job EXCEPT ![j] = r]
    BY <2>2
  <2>4. r \in Job
    BY <2>1, ZeroCard, ZenonT(60) DEF Job, Phases
  <2>5. /\ r.pc = p /\ r.at = None /\ r.lib = 0 /\ r.point = None
        /\ Task(r, job[j]) /\ r.there = job[j].there /\ Flags(r, job[j])
    BY <2>1, ZeroCard, Zenon DEF Job, Task, Place, Flags
  <2> HIDE DEF r
  <2>6. Others(j) /\ job'[j] = r
    BY <2>3, <2>4, PutFacts DEF Typed
  <2> QED
    BY <1>1, <2>5, <2>6 DEF Reconciled, p
<1>2. CASE job[j].verb \notin Goers
  <2>1. AfterReconcile(j) = IdleJob
    BY <1>2 DEF AfterReconcile, Goers
  <2>2. [IdleJob EXCEPT !.lib = 0, !.point = None] = IdleJob
    BY StillIdle
  <2> QED
    BY <1>2, <2>1, <2>2, PutFacts, JobFacts DEF Reconciled, Stops, Typed
<1> QED
  BY <1>1, <1>2

\* A mounted row without a card.
Bare(n) == n \in Names /\ CleanRow(n) /\ drives[n].lib = 0
LEMMA AdoptEffect ==
  ASSUME Typed, Shaped, NEW j \in Jobs, Adopt(j)
  PROVE  /\ job[j].pc = "adopt" /\ SameHost /\ SameInner /\ SameLibrary /\ AtMost("cardlist")
         /\ \/ Reconciled(j)
            \/ /\ Others(j) /\ Task(job'[j], job[j]) /\ Flags(job'[j], job[j])
               /\ job'[j].there = job[j].there /\ Bare(job'[j].at)
               /\ \/ /\ job'[j].pc = "acard" /\ job'[j].point = drives[job'[j].at].root
                     /\ job'[j].point \in Names /\ \A c \in cards : c.at # job'[j].point
                     /\ job'[j].lib = job[j].lib
                  \/ /\ job'[j].pc = "aset" /\ job'[j].point = job[j].point
                     /\ \E c \in cards : c.at = drives[job'[j].at].root /\ c.id = job'[j].lib
<1> DEFINE need == {n \in Names : drives[n] # None /\ drives[n].class = "clean"
                                  /\ drives[n].lib = 0}
           own(n) == {c \in cards : c.at = drives[n].root}
<1>1. /\ job[j].pc = "adopt" /\ SameHost /\ SameInner /\ SameLibrary
      /\ \/ job' = [job EXCEPT ![j] = AfterReconcile(j)] /\ (Fine \/ Happens("cardlist"))
         \/ \E n \in need : \/ /\ own(n) = {} /\ Fine
                               /\ job' = [job EXCEPT ![j].pc = "acard", ![j].at = n,
                                                     ![j].point = drives[n].root]
                            \/ \E c \in own(n) :
                                 /\ Fine
                                 /\ job' = [job EXCEPT ![j].pc = "aset", ![j].at = n,
                                                       ![j].lib = c.id]
  BY DEF Adopt, SameHost, SameInner, SameLibrary, inner, library
<1>2. CASE job' = [job EXCEPT ![j] = AfterReconcile(j)] /\ (Fine \/ Happens("cardlist"))
  BY <1>1, <1>2, AfterFacts, FineFacts, HappensFacts
<1>3. ASSUME NEW n \in need, own(n) = {}, Fine,
             job' = [job EXCEPT ![j].pc = "acard", ![j].at = n, ![j].point = drives[n].root]
      PROVE  /\ Others(j) /\ Task(job'[j], job[j]) /\ Flags(job'[j], job[j])
             /\ job'[j].there = job[j].there /\ Bare(job'[j].at)
             /\ job'[j].pc = "acard" /\ job'[j].point = drives[job'[j].at].root
             /\ job'[j].point \in Names /\ \A c \in cards : c.at # job'[j].point
             /\ job'[j].lib = job[j].lib
  <2> DEFINE m == drives[n].root
  <2>1. n \in Names /\ m \in Names /\ job[j] \in Job /\ Bare(n)
    BY <1>3 DEF Typed, Shaped, RowsInv, Bare, CleanRow
  <2>2. \A c \in cards : c.at # m
    BY <1>3
  <2>3. job' = [job EXCEPT ![j].pc = "acard", ![j].at = n, ![j].point = m]
    BY <1>3
  <2>10. m = drives[n].root
    OBVIOUS
  <2> HIDE DEF m
  <2> DEFINE r == [job[j] EXCEPT !.pc = "acard", !.at = n, !.point = m]
  <2>4. job' = [job EXCEPT ![j] = r]
    BY <2>3
  <2>5. r \in Job
    BY <2>1, ZenonT(60) DEF Job, Phases
  <2>6. /\ r.pc = "acard" /\ r.at = n /\ r.point = m /\ Task(r, job[j])
        /\ r.there = job[j].there /\ r.lib = job[j].lib /\ Flags(r, job[j])
    BY <2>1, Zenon DEF Job, Task, Place, Flags
  <2> HIDE DEF r
  <2>7. Others(j) /\ job'[j] = r
    BY <2>4, <2>5, PutFacts DEF Typed
  <2> QED
    BY <2>1, <2>2, <2>6, <2>7, <2>10
<1>4. ASSUME NEW n \in need, NEW c \in own(n), Fine,
             job' = [job EXCEPT ![j].pc = "aset", ![j].at = n, ![j].lib = c.id]
      PROVE  /\ Others(j) /\ Task(job'[j], job[j]) /\ Flags(job'[j], job[j])
             /\ job'[j].there = job[j].there /\ Bare(job'[j].at)
             /\ job'[j].pc = "aset" /\ job'[j].point = job[j].point
             /\ c.at = drives[job'[j].at].root /\ c.id = job'[j].lib
  <2> DEFINE l == c.id
  <2>11. c.id \in CardIds
    BY <1>4 DEF Typed
  <2>1. n \in Names /\ l \in 0..MaxCards /\ job[j] \in Job /\ Bare(n)
    BY <1>4, <2>11, ZeroCard DEF Typed, Bare, CleanRow
  <2>2. c.at = drives[n].root
    BY <1>4
  <2>3. job' = [job EXCEPT ![j].pc = "aset", ![j].at = n, ![j].lib = l]
    BY <1>4
  <2>10. l = c.id
    OBVIOUS
  <2> HIDE DEF l
  <2> DEFINE r == [job[j] EXCEPT !.pc = "aset", !.at = n, !.lib = l]
  <2>4. job' = [job EXCEPT ![j] = r]
    BY <2>3
  <2>5. r \in Job
    BY <2>1, ZenonT(60) DEF Job, Phases
  <2>6. /\ r.pc = "aset" /\ r.at = n /\ r.lib = l /\ Task(r, job[j])
        /\ r.there = job[j].there /\ r.point = job[j].point
        /\ Flags(r, job[j])
    BY <2>1, Zenon DEF Job, Task, Place, Flags
  <2> HIDE DEF r
  <2>7. Others(j) /\ job'[j] = r
    BY <2>4, <2>5, PutFacts DEF Typed
  <2> QED
    BY <2>1, <2>2, <2>6, <2>7, <2>10
<1>5. ASSUME NEW n \in need, own(n) = {}, Fine,
             job' = [job EXCEPT ![j].pc = "acard", ![j].at = n, ![j].point = drives[n].root]
      PROVE  AtMost("cardlist")
  BY <1>5, FineFacts
<1>6. ASSUME NEW n \in need, NEW c \in own(n), Fine
      PROVE  AtMost("cardlist")
  BY <1>6, FineFacts
<1> QED
  BY <1>1, <1>2, <1>3, <1>4, <1>5, <1>6

LEMMA AdoptCardEffect ==
  ASSUME Typed, Shaped, NEW j \in Jobs, AdoptCard(j)
  PROVE  /\ job[j].pc = "acard" /\ job[j].point \in Names /\ Registers(j, job[j].point, "aset")
         /\ SameHost /\ SameInner /\ retracts' = retracts /\ queue' = queue
<1>1. job[j].pc = "acard" /\ job[j].point \in Names /\ "aset" \in Phases
  BY DEF AdoptCard, Phases, Shaped, JobsInv, At
<1> QED
  BY <1>1, AddFacts DEF AdoptCard, SameHost, SameInner, inner

\* The row of n, if any, has card l now, if there is one.
Cards(n, l) ==
  /\ drives' \in [Names -> Row \cup {None}]
  /\ \A m \in Names : m # n => drives'[m] = drives[m]
  /\ l = 0 \/ drives[n] = None => drives'[n] = drives[n]
  /\ l # 0 /\ drives[n] # None =>
       /\ drives'[n] # None /\ drives'[n].class = drives[n].class
       /\ drives'[n].root = drives[n].root /\ drives'[n].lib = l
LEMMA AdoptSetEffect ==
  ASSUME Typed, Shaped, NEW j \in Jobs, AdoptSet(j)
  PROVE  /\ job[j].pc = "aset" /\ job[j].at \in Names /\ Cards(job[j].at, job[j].lib)
         /\ Reconciled(j) /\ SameHost /\ held' = held /\ removal' = removal
         /\ SameLibrary /\ SameBounds
<1> DEFINE n == job[j].at
           l == job[j].lib
           r == [drives[n] EXCEPT !.lib = l]
<1>1. job[j].pc = "aset" /\ n \in Names /\ l \in 0..MaxCards
  BY DEF AdoptSet, Shaped, JobsInv, At, Typed, Job
<1>2. drives' = IF l = 0 \/ drives[n] = None THEN drives ELSE [drives EXCEPT ![n] = r]
  BY DEF AdoptSet
<1>3. drives[n] # None =>
        r \in Row /\ r.class = drives[n].class /\ r.root = drives[n].root /\ r.lib = l
  BY <1>1 DEF Row, Typed
<1> HIDE DEF n, l, r
<1>4. drives[n] # None => r # None
  BY <1>3, NoneAssumption
<1>5. Cards(n, l)
  BY <1>1, <1>2, <1>3, <1>4 DEF Cards, Typed
<1>6. Reconciled(j)
  BY AfterSetFacts DEF AdoptSet
<1> QED
  BY <1>1, <1>5, <1>6 DEF AdoptSet, n, l, SameHost, SameLibrary, SameBounds, library, boundVars

LEMMA MountLookupEffect ==
  ASSUME Typed, NEW j \in Jobs, MountLookup(j)
  PROVE  /\ job[j].pc = "mlookup" /\ SameHost /\ SameInner /\ SameLibrary /\ SameBounds
         /\ \/ Stops(j)
            \/ Steps(j, "mount") /\ drives[job[j].id] # None /\ ~CleanRow(job[j].id)
<1>1. "mount" \in Phases
  BY DEF Phases
<1> QED
  BY <1>1, DoneFacts, GotoFacts DEF MountLookup, CleanRow, SameHost, SameInner, SameLibrary,
                                  SameBounds, inner, library, boundVars

\* The mount point of n is free now.
Frees(n) == mounts' = [mounts EXCEPT ![n] = "none"]
Shows(j, stage) == removal' = [id |-> job[j].id, stage |-> stage]

LEMMA VerbId ==
  ASSUME Typed, Shaped, NEW j \in Jobs, job[j].pc \notin {"idle"} \cup ReconcilePhases
  PROVE  job[j].id \in Names /\ j \in Handlers /\ job[j].verb # "tick"
  BY DEF Typed, Shaped, JobsInv, At, PhasesOf, Jobs

LEMMA RemoveLookupEffect ==
  ASSUME Typed, Shaped, NEW j \in Jobs, RemoveLookup(j)
  PROVE  LET d == drives[job[j].id]
         IN  /\ job[j].pc = "rlookup" /\ SameHost /\ drives' = drives /\ held' = held
             /\ SameLibrary /\ SameBounds
             /\ \/ d = None /\ Steps(j, "rforce") /\ removal' = removal
                \/ /\ d # None /\ Others(j) /\ Task(job'[j], job[j]) /\ job'[j].lib = d.lib
                   /\ job'[j].there = job[j].there /\ job'[j].at = job[j].at
                   /\ job'[j].point = job[j].point /\ job'[j].known
                   /\ job'[j].auto = job[j].auto /\ job'[j].parked = job[j].parked
                   /\ \/ d.class \in {"clean", "hiberfile"} /\ job'[j].pc = "rumount" /\ job'[j].clean
                      \/ d.class \notin {"clean", "hiberfile"} /\ job'[j].pc = "rretract"
                         /\ ~job'[j].clean
                   /\ Shows(j, "detach") \/ Shows(j, "queue")
<1> DEFINE d == drives[job[j].id]
           on == d # None /\ d.class \in {"clean", "hiberfile"}
           l == d.lib
<1>1. /\ job[j].pc = "rlookup" /\ SameHost /\ drives' = drives /\ held' = held
      /\ SameLibrary /\ SameBounds
  BY DEF RemoveLookup, SameHost, SameLibrary, SameBounds, library, boundVars
<1>2. job[j] \in Job /\ job[j].id \in Names
  BY <1>1, VerbId DEF Typed, ReconcilePhases
<1>3. d # None => l \in 0..MaxCards
  BY <1>2 DEF Typed, Row
<1>4. CASE d # None /\ d.class \in {"clean", "hiberfile"}
  <2>1. (on) = TRUE
    BY <1>4
  <2>2. job' = [job EXCEPT ![j].pc = "rumount", ![j].lib = l, ![j].known = TRUE, ![j].clean = TRUE]
    BY <1>1, <1>4, <2>1 DEF RemoveLookup
  <2>3. Shows(j, "detach") \/ Shows(j, "queue")
    BY <1>1, <1>4 DEF RemoveLookup, Banner, Shows
  <2> HIDE DEF l
  <2> DEFINE r == [job[j] EXCEPT !.pc = "rumount", !.lib = l, !.known = TRUE, !.clean = TRUE]
  <2>4. job' = [job EXCEPT ![j] = r]
    BY <2>2
  <2>5. r \in Job
    BY <1>2, <1>3, <1>4, ZenonT(60) DEF Job, Phases
  <2>6. /\ r.pc = "rumount" /\ r.lib = l /\ r.known /\ r.clean
        /\ Task(r, job[j]) /\ r.there = job[j].there /\ r.at = job[j].at
        /\ r.point = job[j].point /\ r.auto = job[j].auto
        /\ r.parked = job[j].parked
    BY <1>2, <1>3, <1>4, Zenon DEF Job, Task, Place, Flags
  <2> HIDE DEF r
  <2>7. Others(j) /\ job'[j] = r
    BY <2>4, <2>5, PutFacts DEF Typed
  <2> QED
    BY <1>1, <1>2, <1>4, <2>3, <2>6, <2>7 DEF l
<1>5. CASE d # None /\ d.class \notin {"clean", "hiberfile"}
  <2>1. (on) = FALSE
    BY <1>5
  <2>2. job' = [job EXCEPT ![j].pc = "rretract", ![j].lib = l, ![j].known = TRUE, ![j].clean = FALSE]
    BY <1>1, <1>5, <2>1 DEF RemoveLookup
  <2>3. Shows(j, "detach") \/ Shows(j, "queue")
    BY <1>1, <1>5 DEF RemoveLookup, Banner, Shows
  <2> HIDE DEF l
  <2> DEFINE r == [job[j] EXCEPT !.pc = "rretract", !.lib = l, !.known = TRUE, !.clean = FALSE]
  <2>4. job' = [job EXCEPT ![j] = r]
    BY <2>2
  <2>5. r \in Job
    BY <1>2, <1>3, <1>5, ZenonT(60) DEF Job, Phases
  <2>6. /\ r.pc = "rretract" /\ r.lib = l /\ r.known /\ ~r.clean
        /\ Task(r, job[j]) /\ r.there = job[j].there /\ r.at = job[j].at
        /\ r.point = job[j].point /\ r.auto = job[j].auto
        /\ r.parked = job[j].parked
    BY <1>2, <1>3, <1>5, Zenon DEF Job, Task, Place, Flags
  <2> HIDE DEF r
  <2>7. Others(j) /\ job'[j] = r
    BY <2>4, <2>5, PutFacts DEF Typed
  <2> QED
    BY <1>1, <1>2, <1>5, <2>3, <2>6, <2>7 DEF l
<1>6. CASE d = None
  <2>1. Goto(j, "rforce") /\ removal' = removal /\ "rforce" \in Phases
    BY <1>6 DEF RemoveLookup, Phases
  <2> QED
    BY <1>1, <1>6, <2>1, GotoFacts
<1> QED
  BY <1>4, <1>5, <1>6

LEMMA RemoveUmountEffect ==
  ASSUME Typed, NEW j \in Jobs, RemoveUmount(j)
  PROVE  /\ job[j].pc = "rumount" /\ plugged' = plugged /\ alias' = alias /\ SameInner
         /\ SameLibrary /\ (AtMost("busy") \/ AtMost("wrapper"))
         /\ \/ Frees(job[j].id) /\ Steps(j, "rretract")
            \/ mounts' = mounts /\ Steps(j, "rforce")
            \/ mounts' = mounts /\ Stops(j)
<1>1. "rretract" \in Phases /\ "rforce" \in Phases
  BY DEF Phases
<1> QED
  BY <1>1, GotoFacts, DoneFacts, HappensFacts, FineFacts
     DEF RemoveUmount, Frees, SameInner, SameLibrary, inner, library

LEMMA RemoveForceEffect ==
  ASSUME Typed, NEW j \in Jobs, RemoveForce(j)
  PROVE  /\ job[j].pc = "rforce" /\ plugged' = plugged /\ alias' = alias /\ SameInner
         /\ SameLibrary /\ AtMost("force")
         /\ \/ Frees(job[j].id) /\ job[j].known /\ Steps(j, "rretract")
            \/ Frees(job[j].id) /\ ~job[j].known /\ Steps(j, "rdrop")
            \/ mounts' = mounts /\ job[j].known /\ Stops(j)
            \/ mounts' = mounts /\ ~job[j].known /\ Steps(j, "rdrop")
<1>1. "rretract" \in Phases /\ "rdrop" \in Phases
  BY DEF Phases
<1>2. CASE job[j].known
  BY <1>1, <1>2, GotoFacts, DoneFacts, HappensFacts, FineFacts
     DEF RemoveForce, Frees, SameInner, SameLibrary, inner, library
<1>3. CASE ~job[j].known
  BY <1>1, <1>3, GotoFacts, DoneFacts, HappensFacts, FineFacts
     DEF RemoveForce, Frees, SameInner, SameLibrary, inner, library
<1> QED
  BY <1>2, <1>3

LEMMA RemoveRetractEffect ==
  ASSUME Typed, NEW j \in Jobs, RemoveRetract(j)
  PROVE  /\ job[j].pc = "rretract" /\ Steps(j, "rdrop") /\ Shows(j, "retract")
         /\ retracts' = retracts \cup ({job[j].lib} \ {0}) /\ cards' = cards /\ queue' = queue
         /\ SameHost /\ drives' = drives /\ held' = held /\ SameBounds
<1>1. "rdrop" \in Phases
  BY DEF Phases
<1> QED
  BY <1>1, GotoFacts DEF RemoveRetract, Banner, Shows, SameHost, SameBounds, boundVars

LEMMA RemoveDropEffect ==
  ASSUME Typed, NEW j \in Jobs, RemoveDrop(j)
  PROVE  /\ job[j].pc = "rdrop" /\ Steps(j, "rsafe") /\ held' = held \cup {job[j].id}
         /\ drives' = IF job[j].known THEN [drives EXCEPT ![job[j].id] = None] ELSE drives
         /\ SameHost /\ removal' = removal /\ SameLibrary /\ SameBounds
<1>1. "rsafe" \in Phases
  BY DEF Phases
<1> QED
  BY <1>1, GotoFacts DEF RemoveDrop, SameHost, SameLibrary, library, SameBounds, boundVars

LEMMA RemoveSafeEffect ==
  ASSUME Typed, NEW j \in Jobs, RemoveSafe(j)
  PROVE  /\ job[j].pc = "rsafe" /\ Stops(j) /\ Shows(j, "safe")
         /\ SameHost /\ drives' = drives /\ held' = held /\ SameLibrary /\ SameBounds
  BY DoneFacts
     DEF RemoveSafe, Banner, Shows, SameHost, SameLibrary, library, SameBounds, boundVars

LEMMA SpawnedRetractEffect ==
  ASSUME Typed, NEW id \in CardIds, SpawnedRetract(id)
  PROVE  /\ id \in retracts /\ retracts' = retracts \ {id} /\ Drops(id) /\ queue' = queue
         /\ job' = job /\ SameHost /\ SameInner
  BY DropFacts DEF SpawnedRetract, SameHost, SameInner, inner


LEMMA RepairLookupEffect ==
  ASSUME Typed, Shaped, NEW j \in Jobs, RepairLookup(j)
  PROVE  LET d == drives[job[j].id]
         IN  /\ job[j].pc = "flookup" /\ SameHost /\ SameInner /\ retracts' = retracts
             /\ queue' = queue
             /\ \/ Stops(j) /\ cards' = cards /\ SameBounds
                \/ /\ d # None /\ Others(j) /\ Task(job'[j], job[j]) /\ Place(job'[j], job[j])
                   /\ job'[j].auto = job[j].auto /\ job'[j].known = job[j].known
                   /\ job'[j].parked = job[j].parked /\ Drops(d.lib)
                   /\ \/ CleanRow(job[j].id) /\ job'[j].pc = "fumount" /\ job'[j].clean
                      \/ ~CleanRow(job[j].id) /\ job'[j].pc = "fbegin" /\ ~job'[j].clean
<1> DEFINE d == drives[job[j].id]
<1>1. job[j].pc = "flookup" /\ SameHost /\ SameInner /\ retracts' = retracts /\ queue' = queue
  BY DEF RepairLookup, SameHost, SameInner, inner
<1>2. job[j] \in Job
  BY DEF Typed
<1>3. CASE d = None \/ d.class = "hiberfile"
  BY <1>1, <1>3, DoneFacts, FineFacts DEF RepairLookup
<1>4. CASE d # None /\ d.class = "clean"
  <2>1. (d.class = "clean") = TRUE
    BY <1>4
  <2>2. job' = [job EXCEPT ![j].pc = "fumount", ![j].clean = TRUE]
    BY <1>1, <1>4, <2>1 DEF RepairLookup
  <2>3. Drops(d.lib)
    BY <1>1, <1>4, DropFacts DEF RepairLookup
  <2> DEFINE r == [job[j] EXCEPT !.pc = "fumount", !.clean = TRUE]
  <2>4. job' = [job EXCEPT ![j] = r]
    BY <2>2
  <2>5. r \in Job
    BY <1>2, ZenonT(60) DEF Job, Phases
  <2>6. /\ r.pc = "fumount" /\ r.clean /\ Task(r, job[j])
        /\ Place(r, job[j]) /\ r.auto = job[j].auto
        /\ r.known = job[j].known /\ r.parked = job[j].parked
    BY <1>2, Zenon DEF Job, Task, Place, Flags
  <2> HIDE DEF r
  <2>7. Others(j) /\ job'[j] = r
    BY <2>4, <2>5, PutFacts DEF Typed
  <2> QED
    BY <1>1, <1>2, <1>4, <2>3, <2>6, <2>7 DEF CleanRow
<1>5. CASE d # None /\ d.class \notin {"clean", "hiberfile"}
  <2>1. (d.class = "clean") = FALSE
    BY <1>5
  <2>2. job' = [job EXCEPT ![j].pc = "fbegin", ![j].clean = FALSE]
    BY <1>1, <1>5, <2>1 DEF RepairLookup
  <2>3. Drops(d.lib)
    BY <1>1, <1>5, DropFacts DEF RepairLookup
  <2> DEFINE r == [job[j] EXCEPT !.pc = "fbegin", !.clean = FALSE]
  <2>4. job' = [job EXCEPT ![j] = r]
    BY <2>2
  <2>5. r \in Job
    BY <1>2, ZenonT(60) DEF Job, Phases
  <2>6. /\ r.pc = "fbegin" /\ ~r.clean /\ Task(r, job[j])
        /\ Place(r, job[j]) /\ r.auto = job[j].auto
        /\ r.known = job[j].known /\ r.parked = job[j].parked
    BY <1>2, Zenon DEF Job, Task, Place, Flags
  <2> HIDE DEF r
  <2>7. Others(j) /\ job'[j] = r
    BY <2>4, <2>5, PutFacts DEF Typed
  <2> QED
    BY <1>1, <1>2, <1>5, <2>3, <2>6, <2>7 DEF CleanRow
<1> QED
  BY <1>3, <1>4, <1>5

LEMMA RepairUmountEffect ==
  ASSUME Typed, NEW j \in Jobs, RepairUmount(j)
  PROVE  /\ job[j].pc = "fumount" /\ plugged' = plugged /\ alias' = alias /\ SameInner
         /\ SameLibrary /\ AtMost("busy")
         /\ \/ Frees(job[j].id) /\ Steps(j, "fbegin")
            \/ mounts' = mounts /\ Stops(j)
<1>1. "fbegin" \in Phases
  BY DEF Phases
<1> QED
  BY <1>1, GotoFacts, DoneFacts, HappensFacts, FineFacts
     DEF RepairUmount, Frees, SameInner, SameLibrary, inner, library

LEMMA FsckBeginsEffect ==
  ASSUME Typed, Shaped, NEW j \in Jobs, FsckBegins(j)
  PROVE  /\ job[j].pc = "fbegin" /\ SameHost /\ held' = held /\ removal' = removal
         /\ SameLibrary /\ AtMost("wrapper")
         /\ \/ plugged /\ Live = {} /\ Steps(j, "fsck") /\ drives' = drives
            \/ Marks(job[j].id, "failed_dirty") /\ Stops(j)
            \/ drives' = drives /\ Stops(j)
<1>1. "fsck" \in Phases /\ "failed_dirty" \in Classes /\ job[j].pc = "fbegin"
  BY DEF Phases, Classes, FsckBegins
<1>2. job[j].id \in Names
  BY <1>1, VerbId DEF ReconcilePhases
<1>3. SameHost /\ held' = held /\ removal' = removal /\ SameLibrary
  BY DEF FsckBegins, SameHost, SameLibrary, library
<1>4. CASE plugged /\ Live = {} /\ Goto(j, "fsck") /\ drives' = drives /\ Fine
  BY <1>1, <1>3, <1>4, GotoFacts, FineFacts
<1>5. CASE Mark(job[j].id, "failed_dirty") /\ Done(j) /\ Fine
  BY <1>1, <1>2, <1>3, <1>5, MarkFacts, DoneFacts, FineFacts
<1>6. CASE Happens("wrapper") /\ Done(j) /\ drives' = drives
  BY <1>1, <1>3, <1>6, DoneFacts, HappensFacts
<1> QED
  BY <1>4, <1>5, <1>6 DEF FsckBegins

LEMMA FsckEndsEffect ==
  ASSUME Typed, Shaped, NEW j \in Jobs, FsckEnds(j)
  PROVE  /\ job[j].pc = "fsck" /\ SameHost /\ held' = held /\ removal' = removal
         /\ SameLibrary /\ asked' = asked /\ happened \subseteq happened'
         /\ happened' \subseteq happened \cup {"dirty", "hiberfile"}
         /\ \/ /\ plugged /\ drives' = drives /\ job'[j].pc = "mount" /\ Others(j)
               /\ Task(job'[j], job[j]) /\ Place(job'[j], job[j]) /\ ~job'[j].clean
               /\ job'[j].auto = job[j].auto /\ job'[j].known = job[j].known
               /\ job'[j].parked = job[j].parked
            \/ Stops(j) /\ \E c \in {"failed_dirty", "hiberfile"} : Marks(job[j].id, c)
<1>1. /\ job[j].pc = "fsck" /\ SameHost /\ held' = held /\ removal' = removal /\ SameLibrary
  BY DEF FsckEnds, SameHost, SameLibrary, library
<1>2. job[j] \in Job /\ job[j].id \in Names /\ {"failed_dirty", "hiberfile"} \subseteq Classes
  BY <1>1, VerbId DEF Typed, ReconcilePhases, Classes
<1>3. CASE plugged /\ job' = [job EXCEPT ![j].pc = "mount", ![j].clean = FALSE]
           /\ drives' = drives /\ Fine
  <2> DEFINE r == [job[j] EXCEPT !.pc = "mount", !.clean = FALSE]
  <2>1. job' = [job EXCEPT ![j] = r]
    BY <1>3
  <2>2. r \in Job
    BY <1>2, ZenonT(60) DEF Job, Phases
  <2>3. /\ r.pc = "mount" /\ ~r.clean /\ Task(r, job[j])
        /\ Place(r, job[j]) /\ r.auto = job[j].auto
        /\ r.known = job[j].known /\ r.parked = job[j].parked
    BY <1>2, Zenon DEF Job, Task, Place, Flags
  <2> HIDE DEF r
  <2>4. Others(j) /\ job'[j] = r
    BY <2>1, <2>2, PutFacts DEF Typed
  <2> QED
    BY <1>1, <1>3, <2>3, <2>4, FineFacts DEF SameBounds
<1>4. CASE (Fine \/ Happens("dirty")) /\ Mark(job[j].id, "failed_dirty") /\ Done(j)
  BY <1>1, <1>2, <1>4, MarkFacts, DoneFacts, FineFacts, HappensFacts DEF AtMost
<1>5. CASE Happens("hiberfile") /\ Mark(job[j].id, "hiberfile") /\ Done(j)
  BY <1>1, <1>2, <1>5, MarkFacts, DoneFacts, HappensFacts DEF AtMost
<1> QED
  BY <1>3, <1>4, <1>5 DEF FsckEnds

LEMMA RenameLookupEffect ==
  ASSUME Typed, Shaped, NEW j \in Jobs, RenameLookup(j)
  PROVE  LET d == drives[job[j].id]
         IN  /\ job[j].pc = "nlookup" /\ SameHost /\ SameInner /\ cards' = cards
             /\ retracts' = retracts /\ AtMost("park")
             /\ \/ Stops(j) /\ queue' = queue
                \/ /\ d # None /\ Others(j) /\ Task(job'[j], job[j]) /\ job'[j].lib = d.lib
                   /\ job'[j].there = job[j].there /\ job'[j].at = job[j].at
                   /\ job'[j].point = job[j].point /\ job'[j].auto = job[j].auto
                   /\ job'[j].known = job[j].known /\ job'[j].clean = job[j].clean
                   /\ \/ job'[j].parked /\ CleanRow(job[j].id) /\ queue' = "parked"
                      \/ ~job'[j].parked /\ queue' = queue
                      \/ ~job'[j].parked /\ queue' = "parked" /\ "park" \in happened'
                   /\ job'[j].pc = IF CleanRow(job[j].id) THEN "numount" ELSE "nstop"
<1> DEFINE d == drives[job[j].id]
           l == d.lib
           p == IF d.class = "clean" THEN "numount" ELSE "nstop"
           rows == d # None /\ d.class = "clean" /\ queue = job[j].id
<1>1. /\ job[j].pc = "nlookup" /\ SameHost /\ SameInner /\ cards' = cards
      /\ retracts' = retracts
  BY DEF RenameLookup, SameHost, SameInner, inner
<1>2. job[j] \in Job /\ job[j].id \in Names
  BY <1>1, VerbId DEF Typed, ReconcilePhases
<1>3. d # None => l \in 0..MaxCards
  BY <1>2 DEF Typed, Row
<1>4. p \in {"numount", "nstop"} /\ (d # None => p = IF CleanRow(job[j].id) THEN "numount" ELSE "nstop")
  BY DEF CleanRow
<1>5. ASSUME NEW b \in BOOLEAN, d # None,
             job' = [job EXCEPT ![j].pc = p, ![j].lib = l, ![j].parked = b]
      PROVE  /\ Others(j) /\ Task(job'[j], job[j]) /\ job'[j].lib = l
             /\ job'[j].there = job[j].there /\ job'[j].at = job[j].at
             /\ job'[j].point = job[j].point /\ job'[j].auto = job[j].auto
             /\ job'[j].known = job[j].known /\ job'[j].clean = job[j].clean
             /\ job'[j].parked = b /\ job'[j].pc = p
  <2> HIDE DEF l, p
  <2> DEFINE r == [job[j] EXCEPT !.pc = p, !.lib = l, !.parked = b]
  <2>1. job' = [job EXCEPT ![j] = r]
    BY <1>5
  <2>2. p \in Phases /\ l \in 0..MaxCards
    BY <1>3, <1>4, <1>5 DEF Phases
  <2>3. r \in Job
    BY <1>2, <1>5, <2>2, ZenonT(60) DEF Job
  <2>4. /\ r.pc = p /\ r.lib = l /\ r.parked = b /\ Task(r, job[j])
        /\ r.there = job[j].there /\ r.at = job[j].at
        /\ r.point = job[j].point /\ r.auto = job[j].auto
        /\ r.known = job[j].known /\ r.clean = job[j].clean
    BY <1>2, Zenon DEF Job, Task
  <2> HIDE DEF r
  <2>5. Others(j) /\ job'[j] = r
    BY <2>1, <2>3, PutFacts DEF Typed
  <2> QED
    BY <2>4, <2>5
<1>6. CASE d = None /\ Done(j) /\ queue' = queue /\ Fine
  BY <1>1, <1>6, DoneFacts, FineFacts
<1>7. CASE /\ d # None /\ job' = [job EXCEPT ![j].pc = p, ![j].lib = l, ![j].parked = rows]
           /\ queue' = (IF rows THEN "parked" ELSE queue) /\ Fine
  <2>1. rows \in BOOLEAN /\ (rows => CleanRow(job[j].id))
    BY DEF CleanRow
  <2> HIDE DEF rows, p, l
  <2> QED
    BY <1>1, <1>4, <1>5, <1>7, <2>1, FineFacts DEF l
<1>8. CASE /\ rows /\ Happens("park") /\ queue' \in {queue, "parked"}
           /\ job' = [job EXCEPT ![j].pc = p, ![j].lib = l, ![j].parked = FALSE]
  <2>1. d # None
    BY <1>8
  <2> HIDE DEF rows, p, l
  <2> QED
    BY <1>1, <1>4, <1>5, <1>8, <2>1, HappensFacts DEF l
<1>9. \/ d = None /\ Done(j) /\ queue' = queue /\ Fine
      \/ /\ d # None /\ job' = [job EXCEPT ![j].pc = p, ![j].lib = l, ![j].parked = rows]
         /\ queue' = (IF rows THEN "parked" ELSE queue) /\ Fine
      \/ /\ rows /\ Happens("park") /\ queue' \in {queue, "parked"}
         /\ job' = [job EXCEPT ![j].pc = p, ![j].lib = l, ![j].parked = FALSE]
  BY DEF RenameLookup
<1> QED
  BY <1>6, <1>7, <1>8, <1>9

LEMMA RenameUmountEffect ==
  ASSUME Typed, NEW j \in Jobs, RenameUmount(j)
  PROVE  /\ job[j].pc = "numount" /\ plugged' = plugged /\ alias' = alias /\ SameInner
         /\ cards' = cards /\ retracts' = retracts
         /\ AtMost("busy") \/ AtMost("restore") \/ AtMost("wrapper")
         /\ \/ Frees(job[j].id) /\ Steps(j, "nstop") /\ queue' = queue
            \/ /\ mounts' = mounts /\ Stops(j)
               /\ \/ queue' = IF job[j].parked THEN job[j].id ELSE queue
                  \/ queue' = queue /\ {"restore", "wrapper"} \cap happened' # {}
<1>1. "nstop" \in Phases
  BY DEF Phases
<1> QED
  BY <1>1, GotoFacts, DoneFacts, HappensFacts, FineFacts
     DEF RenameUmount, Frees, SameInner, inner

LEMMA RenameStopEffect ==
  ASSUME Typed, NEW j \in Jobs, RenameStop(j)
  PROVE  /\ job[j].pc = "nstop" /\ job'[j].pc = "nsave" /\ Others(j) /\ Task(job'[j], job[j])
         /\ Flags(job'[j], job[j]) /\ job'[j].lib = 0 /\ job'[j].there = job[j].there
         /\ job'[j].at = job[j].at /\ job'[j].point = job[j].point
         /\ Drops(job[j].lib) /\ retracts' = retracts /\ queue' = queue /\ SameHost /\ SameInner
<1>1. job[j] \in Job
  BY DEF Typed
<1>2. job' = [job EXCEPT ![j].pc = "nsave", ![j].lib = 0]
  BY DEF RenameStop
<1> DEFINE r == [job[j] EXCEPT !.pc = "nsave", !.lib = 0]
<1>3. job' = [job EXCEPT ![j] = r]
  BY <1>2
<1>4. r \in Job
  BY <1>1, ZeroCard, ZenonT(60) DEF Job, Phases
<1>5. /\ r.pc = "nsave" /\ r.lib = 0 /\ Task(r, job[j])
      /\ r.there = job[j].there /\ r.at = job[j].at
      /\ r.point = job[j].point /\ Flags(r, job[j])
  BY <1>1, ZeroCard, Zenon DEF Job, Task, Place, Flags
<1> HIDE DEF r
<1>6. Others(j) /\ job'[j] = r
  BY <1>3, <1>4, PutFacts DEF Typed
<1> QED
  BY <1>5, <1>6, DropFacts DEF RenameStop, SameHost, SameInner, inner

LEMMA RenameSaveEffect ==
  ASSUME Typed, NEW j \in Jobs, RenameSave(j)
  PROVE  /\ job[j].pc = "nsave" /\ plugged' = plugged /\ mounts' = mounts /\ SameInner
         /\ SameLibrary /\ AtMost("save")
         /\ \/ /\ alias' = job[j].to /\ Others(j) /\ job'[j].pc = "read"
               /\ job'[j].verb = "renamed" /\ job'[j].id = job[j].id /\ job'[j].to = job[j].to
               /\ Place(job'[j], job[j]) /\ Flags(job'[j], job[j])
            \/ alias' = alias /\ Stops(j) /\ "save" \in happened'
<1>1. job[j].pc = "nsave" /\ plugged' = plugged /\ mounts' = mounts /\ SameInner /\ SameLibrary
  BY DEF RenameSave, SameInner, SameLibrary, inner, library
<1>2. job[j] \in Job
  BY DEF Typed
<1>3. CASE alias' = job[j].to /\ Fine
           /\ job' = [job EXCEPT ![j].pc = "read", ![j].verb = "renamed"]
  <2> DEFINE r == [job[j] EXCEPT !.pc = "read", !.verb = "renamed"]
  <2>1. job' = [job EXCEPT ![j] = r]
    BY <1>3
  <2>2. r \in Job
    BY <1>2, ZenonT(60) DEF Job, Phases
  <2>3. /\ r.pc = "read" /\ r.verb = "renamed" /\ r.id = job[j].id
        /\ r.to = job[j].to /\ Place(r, job[j]) /\ Flags(r, job[j])
    BY <1>2, Zenon DEF Job, Task, Place, Flags
  <2> HIDE DEF r
  <2>4. Others(j) /\ job'[j] = r
    BY <2>1, <2>2, PutFacts DEF Typed
  <2> QED
    BY <1>1, <1>3, <2>3, <2>4, FineFacts
<1>4. CASE Happens("save") /\ Done(j) /\ alias' = alias
  BY <1>1, <1>4, HappensFacts, DoneFacts
<1> QED
  BY <1>3, <1>4 DEF RenameSave

LEMMA RenameRestoreEffect ==
  ASSUME Typed, NEW j \in Jobs, RenameRestore(j)
  PROVE  /\ job[j].pc = "restore" /\ Stops(j) /\ SameHost /\ SameInner /\ cards' = cards
         /\ retracts' = retracts /\ AtMost("restore")
         /\ \/ queue' = queue /\ (Rows = {} \/ ~job[j].parked)
            \/ queue' \in Names
            \/ queue' = queue /\ "restore" \in happened'
  BY DoneFacts, FineFacts, HappensFacts DEF RenameRestore, Rows, SameHost, SameInner, inner

LEMMA StartTickEffect ==
  ASSUME Typed, StartTick
  PROVE  /\ job["tick"].pc = "idle" /\ Steps("tick", "read")
         /\ SameHost /\ SameInner /\ SameLibrary /\ SameBounds
<1>1. "read" \in Phases /\ "tick" \in Jobs
  BY JobFacts DEF Phases
<1>2. Goto("tick", "read")
  BY DEF StartTick, Goto
<1> QED
  BY <1>1, <1>2, GotoFacts
     DEF StartTick, SameHost, SameInner, SameLibrary, SameBounds, inner, library, boundVars

\* Verb v of the operator about n arrives.
Arrives(h, v, n, to) ==
  /\ Others(h) /\ asked < MaxRequests /\ h = HandlerNames[asked + 1] /\ asked' = asked + 1
  /\ job'[h].pc = "read" /\ job'[h].verb = v /\ job'[h].id = n /\ job'[h].to = to
  /\ job'[h].lib = 0 /\ ~job'[h].auto /\ ~job'[h].known /\ ~job'[h].clean /\ ~job'[h].parked
  /\ happened' = happened /\ SameHost /\ SameLibrary /\ drives' = drives
  /\ IF v \in {"mount", "repair", "rename"}
       THEN /\ held' = held \ {n}
            /\ removal' = IF removal # None /\ removal.id = n THEN None ELSE removal
       ELSE held' = held /\ removal' = removal
LEMMA VerbEffect ==
  ASSUME Typed, NEW h \in Handlers, NEW v \in Verbs, NEW n \in Names,
         NEW to \in Names \cup {None}, Verb(h, v, n, to)
  PROVE  Arrives(h, v, n, to)
<1> DEFINE r == [IdleJob EXCEPT !.pc = "read", !.verb = v, !.id = n, !.to = to]
<1>1. IdleJob \in Job /\ h \in Jobs
  BY JobFacts
<1>2. r \in Job
  BY <1>1, ZenonT(60) DEF Job, Phases
<1>3. /\ r.pc = "read" /\ r.verb = v /\ r.id = n /\ r.to = to
      /\ r.lib = IdleJob.lib /\ r.auto = IdleJob.auto /\ r.known = IdleJob.known
      /\ r.clean = IdleJob.clean /\ r.parked = IdleJob.parked
  BY <1>1, Zenon DEF Job
<1>4. job' = [job EXCEPT ![h] = r]
  BY DEF Verb
<1> HIDE DEF r
<1>5. Others(h) /\ job'[h] = r
  BY <1>1, <1>2, <1>4, PutFacts DEF Typed
<1> QED
  BY <1>3, <1>5, JobFacts DEF Verb, Arrives, SameHost, SameLibrary, library

(***************************************************************************)
(* Types and shapes.                                                       *)
(***************************************************************************)
LEMMA JobsFrame ==
  ASSUME Typed, Shaped, NEW j \in Jobs, Others(j), At(j, job'[j]), asked' = asked,
         job[j].pc # "idle" \/ j = "tick"
  PROVE  JobsInv' /\ AskedInv'
<1>1. \A k \in Jobs : At(k, job'[k])
  BY DEF Others, Shaped, JobsInv
<1>2. ASSUME NEW i \in 1..MaxRequests, i > asked PROVE job'[HandlerNames[i]].pc = "idle"
  <2>1. HandlerNames[i] \in Handlers /\ job[HandlerNames[i]].pc = "idle"
    BY <1>2 DEF Handlers, Shaped, AskedInv
  <2> QED
    BY <2>1, JobFacts DEF Others
<1> QED
  BY <1>1, <1>2 DEF JobsInv, AskedInv

LEMMA ReadShape ==
  ASSUME Typed, Shaped, NEW j \in Jobs, Read(j)
  PROVE  Typed' /\ Shaped'
<1>1. At(j, job[j])
  BY DEF Shaped, JobsInv
<1>2. At(j, job'[j])
  BY <1>1, ReadEffect DEF At, PhasesOf, ReconcilePhases, MountPhases, TakingOff, Task, Flags
<1>3. JobsInv' /\ AskedInv'
  BY <1>2, ReadEffect, JobsFrame DEF SameBounds
<1> QED
  BY <1>3, ReadEffect
     DEF Typed, Shaped, RowsInv, MountsInv, Others, SameHost, SameInner, SameLibrary, SameBounds

LEMMA SwapShape ==
  ASSUME Typed, Shaped, NEW j \in Jobs, Swap(j)
  PROVE  Typed' /\ Shaped'
<1>1. At(j, job[j])
  BY DEF Shaped, JobsInv
<1>2. At(j, job'[j])
  BY <1>1, SwapEffect
     DEF At, PhasesOf, ReconcilePhases, MountPhases, TakingOff, Task, Flags, Steps, AfterRefresh,
         Place
<1>3. JobsInv' /\ AskedInv'
  BY <1>2, SwapEffect, JobsFrame DEF SameBounds
<1>4. RowsInv'
  BY SwapEffect, RefreshedType DEF Shaped, RowsInv, CleanRow, Typed, Job
<1> QED
  BY <1>3, <1>4, SwapEffect, RefreshedType
     DEF Typed, Shaped, MountsInv, Others, SameHost, SameLibrary, SameBounds

LEMMA IdleAt == \A j \in Jobs : At(j, IdleJob)
  BY JobFacts DEF At, PhasesOf, MountPhases, TakingOff

LEMMA ForceGoneShape ==
  ASSUME Typed, Shaped, NEW j \in Jobs, ForceGone(j)
  PROVE  Typed' /\ Shaped'
<1>1. At(j, job[j])
  BY DEF Shaped, JobsInv
<1>2. At(j, job'[j])
  BY <1>1, ForceGoneEffect
     DEF At, PhasesOf, ReconcilePhases, MountPhases, TakingOff, Task, Flags, Steps, Place
<1>3. Others(j) /\ asked' = asked /\ happened' \subseteq Troubles /\ job[j].pc # "idle"
  BY ForceGoneEffect
     DEF SameBounds, AtMost, Typed, Troubles, Drops, Registers, Steps, Stops, Attempted, Reconciled
<1>4. JobsInv' /\ AskedInv'
  BY <1>2, <1>3, JobsFrame
<1>5. RowsInv' /\ MountsInv'
  BY ForceGoneEffect
     DEF Shaped, RowsInv, MountsInv, Typed, SameHost, SameInner, Frees, Marks, Records, Cards
<1>6. Typed'
  BY <1>1, <1>3, ForceGoneEffect
     DEF Typed, Others, SameHost, SameInner, SameLibrary, Frees, Marks, Records, Cards, Drops,
         Registers, Shows, Notice, Stages, At
<1> QED
  BY <1>4, <1>5, <1>6 DEF Shaped

LEMMA RetractShape ==
  ASSUME Typed, Shaped, NEW j \in Jobs, Retract(j)
  PROVE  Typed' /\ Shaped'
<1>1. At(j, job[j])
  BY DEF Shaped, JobsInv
<1>2. At(j, job'[j])
  BY <1>1, RetractEffect
     DEF At, PhasesOf, ReconcilePhases, MountPhases, TakingOff, Task, Flags, AfterRefresh
<1>3. Others(j) /\ asked' = asked /\ happened' \subseteq Troubles /\ job[j].pc # "idle"
  BY RetractEffect
     DEF SameBounds, AtMost, Typed, Troubles, Drops, Registers, Steps, Stops, Attempted, Reconciled
<1>4. JobsInv' /\ AskedInv'
  BY <1>2, <1>3, JobsFrame
<1>5. RowsInv' /\ MountsInv'
  BY RetractEffect
     DEF Shaped, RowsInv, MountsInv, Typed, SameHost, SameInner, Frees, Marks, Records, Cards
<1>6. Typed'
  BY <1>1, <1>3, RetractEffect
     DEF Typed, Others, SameHost, SameInner, SameLibrary, Frees, Marks, Records, Cards, Drops,
         Registers, Shows, Notice, Stages, At
<1> QED
  BY <1>4, <1>5, <1>6 DEF Shaped

LEMMA AutoMountShape ==
  ASSUME Typed, Shaped, NEW j \in Jobs, AutoMount(j)
  PROVE  Typed' /\ Shaped'
<1>1. At(j, job[j])
  BY DEF Shaped, JobsInv
<1>2. At(j, job'[j])
  BY <1>1, AutoMountEffect
     DEF At, PhasesOf, ReconcilePhases, MountPhases, TakingOff, Task, Flags, Steps, Place, Candidates
<1>3. Others(j) /\ asked' = asked /\ happened' \subseteq Troubles /\ job[j].pc # "idle"
  BY AutoMountEffect
     DEF SameBounds, AtMost, Typed, Troubles, Drops, Registers, Steps, Stops, Attempted, Reconciled
<1>4. JobsInv' /\ AskedInv'
  BY <1>2, <1>3, JobsFrame
<1>5. RowsInv' /\ MountsInv'
  BY AutoMountEffect
     DEF Shaped, RowsInv, MountsInv, Typed, SameHost, SameInner, Frees, Marks, Records, Cards
<1>6. Typed'
  BY <1>1, <1>3, AutoMountEffect
     DEF Typed, Others, SameHost, SameInner, SameLibrary, Frees, Marks, Records, Cards, Drops,
         Registers, Shows, Notice, Stages, At
<1> QED
  BY <1>4, <1>5, <1>6 DEF Shaped

LEMMA MountShape ==
  ASSUME Typed, Shaped, NEW j \in Jobs, Mount(j)
  PROVE  Typed' /\ Shaped'
<1>1. At(j, job[j])
  BY DEF Shaped, JobsInv
<1>2. At(j, job'[j])
  BY <1>1, IdleAt, MountEffect
     DEF At, PhasesOf, ReconcilePhases, MountPhases, TakingOff, Task, Flags, Steps, Place, Attempted, Stops
<1>3. Others(j) /\ asked' = asked /\ happened' \subseteq Troubles /\ job[j].pc # "idle"
  BY MountEffect
     DEF SameBounds, AtMost, Typed, Troubles, Drops, Registers, Steps, Stops, Attempted, Reconciled
<1>4. JobsInv' /\ AskedInv'
  BY <1>2, <1>3, JobsFrame
<1>5. RowsInv' /\ MountsInv'
  BY MountEffect
     DEF Shaped, RowsInv, MountsInv, Typed, SameHost, SameInner, Frees, Marks, Records, Cards
<1>6. Typed'
  BY <1>1, <1>3, MountEffect
     DEF Typed, Others, SameHost, SameInner, SameLibrary, Frees, Marks, Records, Cards, Drops,
         Registers, Shows, Notice, Stages, At
<1> QED
  BY <1>4, <1>5, <1>6 DEF Shaped

LEMMA CardShape ==
  ASSUME Typed, Shaped, NEW j \in Jobs, Card(j)
  PROVE  Typed' /\ Shaped'
<1>1. At(j, job[j])
  BY DEF Shaped, JobsInv
<1>2. At(j, job'[j])
  BY <1>1, CardEffect
     DEF At, PhasesOf, ReconcilePhases, MountPhases, TakingOff, Task, Flags, Registers
<1>3. Others(j) /\ asked' = asked /\ happened' \subseteq Troubles /\ job[j].pc # "idle"
  BY CardEffect
     DEF SameBounds, AtMost, Typed, Troubles, Drops, Registers, Steps, Stops, Attempted, Reconciled
<1>4. JobsInv' /\ AskedInv'
  BY <1>2, <1>3, JobsFrame
<1>5. RowsInv' /\ MountsInv'
  BY CardEffect
     DEF Shaped, RowsInv, MountsInv, Typed, SameHost, SameInner, Frees, Marks, Records, Cards
<1>6. Typed'
  BY <1>1, <1>3, CardEffect
     DEF Typed, Others, SameHost, SameInner, SameLibrary, Frees, Marks, Records, Cards, Drops,
         Registers, Shows, Notice, Stages, At
<1> QED
  BY <1>4, <1>5, <1>6 DEF Shaped

LEMMA SetMountedShape ==
  ASSUME Typed, Shaped, NEW j \in Jobs, SetMounted(j)
  PROVE  Typed' /\ Shaped'
<1>1. At(j, job[j])
  BY DEF Shaped, JobsInv
<1>2. At(j, job'[j])
  BY <1>1, IdleAt, SetMountedEffect
     DEF At, PhasesOf, ReconcilePhases, MountPhases, TakingOff, Task, Flags, Attempted, Stops
<1>3. Others(j) /\ asked' = asked /\ happened' \subseteq Troubles /\ job[j].pc # "idle"
  BY SetMountedEffect
     DEF SameBounds, AtMost, Typed, Troubles, Drops, Registers, Steps, Stops, Attempted, Reconciled
<1>4. JobsInv' /\ AskedInv'
  BY <1>2, <1>3, JobsFrame
<1>5. RowsInv' /\ MountsInv'
  BY SetMountedEffect
     DEF Shaped, RowsInv, MountsInv, Typed, SameHost, SameInner, Frees, Marks, Records, Cards
<1>6. Typed'
  BY <1>1, <1>3, SetMountedEffect
     DEF Typed, Others, SameHost, SameInner, SameLibrary, Frees, Marks, Records, Cards, Drops,
         Registers, Shows, Notice, Stages, At
<1> QED
  BY <1>4, <1>5, <1>6 DEF Shaped

LEMMA AdoptShape ==
  ASSUME Typed, Shaped, NEW j \in Jobs, Adopt(j)
  PROVE  Typed' /\ Shaped'
<1>1. At(j, job[j])
  BY DEF Shaped, JobsInv
<1>2. At(j, job'[j])
  BY <1>1, IdleAt, AdoptEffect
     DEF At, PhasesOf, ReconcilePhases, MountPhases, TakingOff, Task, Flags, Reconciled, Goers, NextPhase, Stops, Bare
<1>3. Others(j) /\ asked' = asked /\ happened' \subseteq Troubles /\ job[j].pc # "idle"
  BY AdoptEffect
     DEF SameBounds, AtMost, Typed, Troubles, Drops, Registers, Steps, Stops, Attempted, Reconciled
<1>4. JobsInv' /\ AskedInv'
  BY <1>2, <1>3, JobsFrame
<1>5. RowsInv' /\ MountsInv'
  BY AdoptEffect
     DEF Shaped, RowsInv, MountsInv, Typed, SameHost, SameInner, Frees, Marks, Records, Cards
<1>6. Typed'
  BY <1>1, <1>3, AdoptEffect
     DEF Typed, Others, SameHost, SameInner, SameLibrary, Frees, Marks, Records, Cards, Drops,
         Registers, Shows, Notice, Stages, At
<1> QED
  BY <1>4, <1>5, <1>6 DEF Shaped

LEMMA AdoptCardShape ==
  ASSUME Typed, Shaped, NEW j \in Jobs, AdoptCard(j)
  PROVE  Typed' /\ Shaped'
<1>1. At(j, job[j])
  BY DEF Shaped, JobsInv
<1>2. At(j, job'[j])
  BY <1>1, AdoptCardEffect
     DEF At, PhasesOf, ReconcilePhases, MountPhases, TakingOff, Task, Flags, Registers
<1>3. Others(j) /\ asked' = asked /\ happened' \subseteq Troubles /\ job[j].pc # "idle"
  BY AdoptCardEffect
     DEF SameBounds, AtMost, Typed, Troubles, Drops, Registers, Steps, Stops, Attempted, Reconciled
<1>4. JobsInv' /\ AskedInv'
  BY <1>2, <1>3, JobsFrame
<1>5. RowsInv' /\ MountsInv'
  BY AdoptCardEffect
     DEF Shaped, RowsInv, MountsInv, Typed, SameHost, SameInner, Frees, Marks, Records, Cards
<1>6. Typed'
  BY <1>1, <1>3, AdoptCardEffect
     DEF Typed, Others, SameHost, SameInner, SameLibrary, Frees, Marks, Records, Cards, Drops,
         Registers, Shows, Notice, Stages, At
<1> QED
  BY <1>4, <1>5, <1>6 DEF Shaped

LEMMA AdoptSetShape ==
  ASSUME Typed, Shaped, NEW j \in Jobs, AdoptSet(j)
  PROVE  Typed' /\ Shaped'
<1>1. At(j, job[j])
  BY DEF Shaped, JobsInv
<1>2. At(j, job'[j])
  BY <1>1, IdleAt, AdoptSetEffect
     DEF At, PhasesOf, ReconcilePhases, MountPhases, TakingOff, Task, Flags, Reconciled, Goers, NextPhase, Stops
<1>3. Others(j) /\ asked' = asked /\ happened' \subseteq Troubles /\ job[j].pc # "idle"
  BY AdoptSetEffect
     DEF SameBounds, AtMost, Typed, Troubles, Drops, Registers, Steps, Stops, Attempted, Reconciled
<1>4. JobsInv' /\ AskedInv'
  BY <1>2, <1>3, JobsFrame
<1>5. RowsInv' /\ MountsInv'
  BY AdoptSetEffect
     DEF Shaped, RowsInv, MountsInv, Typed, SameHost, SameInner, Frees, Marks, Records, Cards
<1>6. Typed'
  BY <1>1, <1>3, AdoptSetEffect
     DEF Typed, Others, SameHost, SameInner, SameLibrary, Frees, Marks, Records, Cards, Drops,
         Registers, Shows, Notice, Stages, At
<1> QED
  BY <1>4, <1>5, <1>6 DEF Shaped

LEMMA MountLookupShape ==
  ASSUME Typed, Shaped, NEW j \in Jobs, MountLookup(j)
  PROVE  Typed' /\ Shaped'
<1>1. At(j, job[j])
  BY DEF Shaped, JobsInv
<1>2. At(j, job'[j])
  BY <1>1, IdleAt, MountLookupEffect
     DEF At, PhasesOf, ReconcilePhases, MountPhases, TakingOff, Task, Flags, Steps, Place, Stops
<1>3. Others(j) /\ asked' = asked /\ happened' \subseteq Troubles /\ job[j].pc # "idle"
  BY MountLookupEffect
     DEF SameBounds, AtMost, Typed, Troubles, Drops, Registers, Steps, Stops, Attempted, Reconciled
<1>4. JobsInv' /\ AskedInv'
  BY <1>2, <1>3, JobsFrame
<1>5. RowsInv' /\ MountsInv'
  BY MountLookupEffect
     DEF Shaped, RowsInv, MountsInv, Typed, SameHost, SameInner, Frees, Marks, Records, Cards
<1>6. Typed'
  BY <1>1, <1>3, MountLookupEffect
     DEF Typed, Others, SameHost, SameInner, SameLibrary, Frees, Marks, Records, Cards, Drops,
         Registers, Shows, Notice, Stages, At
<1> QED
  BY <1>4, <1>5, <1>6 DEF Shaped

LEMMA RemoveLookupShape ==
  ASSUME Typed, Shaped, NEW j \in Jobs, RemoveLookup(j)
  PROVE  Typed' /\ Shaped'
<1>1. At(j, job[j])
  BY DEF Shaped, JobsInv
<1>2. At(j, job'[j])
  BY <1>1, RemoveLookupEffect
     DEF At, PhasesOf, ReconcilePhases, MountPhases, TakingOff, Task, Flags, Steps, Place
<1>3. Others(j) /\ asked' = asked /\ happened' \subseteq Troubles /\ job[j].pc # "idle"
  BY RemoveLookupEffect
     DEF SameBounds, AtMost, Typed, Troubles, Drops, Registers, Steps, Stops, Attempted, Reconciled
<1>4. JobsInv' /\ AskedInv'
  BY <1>2, <1>3, JobsFrame
<1>5. RowsInv' /\ MountsInv'
  BY RemoveLookupEffect
     DEF Shaped, RowsInv, MountsInv, Typed, SameHost, SameInner, Frees, Marks, Records, Cards
<1>0. job[j].id \in Names
  BY VerbId, RemoveLookupEffect DEF ReconcilePhases
<1>6. Typed'
  BY <1>0, <1>1, <1>3, RemoveLookupEffect
     DEF Typed, Others, SameHost, SameInner, SameLibrary, Frees, Marks, Records, Cards, Drops,
         Registers, Shows, Notice, Stages, At
<1> QED
  BY <1>4, <1>5, <1>6 DEF Shaped

LEMMA RemoveUmountShape ==
  ASSUME Typed, Shaped, NEW j \in Jobs, RemoveUmount(j)
  PROVE  Typed' /\ Shaped'
<1>1. At(j, job[j])
  BY DEF Shaped, JobsInv
<1>2. At(j, job'[j])
  BY <1>1, IdleAt, RemoveUmountEffect
     DEF At, PhasesOf, ReconcilePhases, MountPhases, TakingOff, Task, Flags, Steps, Stops, Place
<1>3. Others(j) /\ asked' = asked /\ happened' \subseteq Troubles /\ job[j].pc # "idle"
  BY RemoveUmountEffect
     DEF SameBounds, AtMost, Typed, Troubles, Drops, Registers, Steps, Stops, Attempted, Reconciled
<1>4. JobsInv' /\ AskedInv'
  BY <1>2, <1>3, JobsFrame
<1>5. RowsInv' /\ MountsInv'
  BY RemoveUmountEffect
     DEF Shaped, RowsInv, MountsInv, Typed, SameHost, SameInner, Frees, Marks, Records, Cards
<1>6. Typed'
  BY <1>1, <1>3, RemoveUmountEffect
     DEF Typed, Others, SameHost, SameInner, SameLibrary, Frees, Marks, Records, Cards, Drops,
         Registers, Shows, Notice, Stages, At
<1> QED
  BY <1>4, <1>5, <1>6 DEF Shaped

LEMMA RemoveForceShape ==
  ASSUME Typed, Shaped, NEW j \in Jobs, RemoveForce(j)
  PROVE  Typed' /\ Shaped'
<1>1. At(j, job[j])
  BY DEF Shaped, JobsInv
<1>2. At(j, job'[j])
  BY <1>1, IdleAt, RemoveForceEffect
     DEF At, PhasesOf, ReconcilePhases, MountPhases, TakingOff, Task, Flags, Steps, Place, Stops
<1>3. Others(j) /\ asked' = asked /\ happened' \subseteq Troubles /\ job[j].pc # "idle"
  BY RemoveForceEffect
     DEF SameBounds, AtMost, Typed, Troubles, Drops, Registers, Steps, Stops, Attempted, Reconciled
<1>4. JobsInv' /\ AskedInv'
  BY <1>2, <1>3, JobsFrame
<1>5. RowsInv' /\ MountsInv'
  BY RemoveForceEffect
     DEF Shaped, RowsInv, MountsInv, Typed, SameHost, SameInner, Frees, Marks, Records, Cards
<1>6. Typed'
  BY <1>1, <1>3, RemoveForceEffect
     DEF Typed, Others, SameHost, SameInner, SameLibrary, Frees, Marks, Records, Cards, Drops,
         Registers, Shows, Notice, Stages, At
<1> QED
  BY <1>4, <1>5, <1>6 DEF Shaped

LEMMA RemoveRetractShape ==
  ASSUME Typed, Shaped, NEW j \in Jobs, RemoveRetract(j)
  PROVE  Typed' /\ Shaped'
<1>1. At(j, job[j])
  BY DEF Shaped, JobsInv
<1>2. At(j, job'[j])
  BY <1>1, RemoveRetractEffect
     DEF At, PhasesOf, ReconcilePhases, MountPhases, TakingOff, Task, Flags, Steps, Place
<1>3. Others(j) /\ asked' = asked /\ happened' \subseteq Troubles /\ job[j].pc # "idle"
  BY RemoveRetractEffect
     DEF SameBounds, AtMost, Typed, Troubles, Drops, Registers, Steps, Stops, Attempted, Reconciled
<1>4. JobsInv' /\ AskedInv'
  BY <1>2, <1>3, JobsFrame
<1>5. RowsInv' /\ MountsInv'
  BY RemoveRetractEffect
     DEF Shaped, RowsInv, MountsInv, Typed, SameHost, SameInner, Frees, Marks, Records, Cards
<1>0. job[j].id \in Names
  BY VerbId, RemoveRetractEffect DEF ReconcilePhases
<1>r. retracts' \subseteq CardIds
  <2>1. job[j].lib \in 0..MaxCards
    BY DEF Typed, Job
  <2>2. job[j].lib = 0 \/ job[j].lib \in CardIds
    BY <2>1, BoundsAssumption DEF CardIds
  <2> QED
    BY <2>2, RemoveRetractEffect DEF Typed
<1>6. Typed'
  BY <1>r, <1>0, <1>1, <1>3, RemoveRetractEffect
     DEF Typed, Others, SameHost, SameInner, SameLibrary, Frees, Marks, Records, Cards, Drops,
         Registers, Shows, Notice, Stages, At
<1> QED
  BY <1>4, <1>5, <1>6 DEF Shaped

LEMMA RemoveDropShape ==
  ASSUME Typed, Shaped, NEW j \in Jobs, RemoveDrop(j)
  PROVE  Typed' /\ Shaped'
<1>1. At(j, job[j])
  BY DEF Shaped, JobsInv
<1>2. At(j, job'[j])
  BY <1>1, RemoveDropEffect
     DEF At, PhasesOf, ReconcilePhases, MountPhases, TakingOff, Task, Flags, Steps, Place
<1>3. Others(j) /\ asked' = asked /\ happened' \subseteq Troubles /\ job[j].pc # "idle"
  BY RemoveDropEffect
     DEF SameBounds, AtMost, Typed, Troubles, Drops, Registers, Steps, Stops, Attempted, Reconciled
<1>4. JobsInv' /\ AskedInv'
  BY <1>2, <1>3, JobsFrame
<1>5. RowsInv' /\ MountsInv'
  BY RemoveDropEffect
     DEF Shaped, RowsInv, MountsInv, Typed, SameHost, SameInner, Frees, Marks, Records, Cards
<1>0. job[j].id \in Names
  BY VerbId, RemoveDropEffect DEF ReconcilePhases
<1>6. Typed'
  BY <1>0, <1>1, <1>3, RemoveDropEffect
     DEF Typed, Others, SameHost, SameInner, SameLibrary, Frees, Marks, Records, Cards, Drops,
         Registers, Shows, Notice, Stages, At
<1> QED
  BY <1>4, <1>5, <1>6 DEF Shaped

LEMMA RemoveSafeShape ==
  ASSUME Typed, Shaped, NEW j \in Jobs, RemoveSafe(j)
  PROVE  Typed' /\ Shaped'
<1>1. At(j, job[j])
  BY DEF Shaped, JobsInv
<1>2. At(j, job'[j])
  BY <1>1, IdleAt, RemoveSafeEffect
     DEF At, PhasesOf, ReconcilePhases, MountPhases, TakingOff, Task, Flags, Stops
<1>3. Others(j) /\ asked' = asked /\ happened' \subseteq Troubles /\ job[j].pc # "idle"
  BY RemoveSafeEffect
     DEF SameBounds, AtMost, Typed, Troubles, Drops, Registers, Steps, Stops, Attempted, Reconciled
<1>4. JobsInv' /\ AskedInv'
  BY <1>2, <1>3, JobsFrame
<1>5. RowsInv' /\ MountsInv'
  BY RemoveSafeEffect
     DEF Shaped, RowsInv, MountsInv, Typed, SameHost, SameInner, Frees, Marks, Records, Cards
<1>0. job[j].id \in Names
  BY VerbId, RemoveSafeEffect DEF ReconcilePhases
<1>6. Typed'
  BY <1>0, <1>1, <1>3, RemoveSafeEffect
     DEF Typed, Others, SameHost, SameInner, SameLibrary, Frees, Marks, Records, Cards, Drops,
         Registers, Shows, Notice, Stages, At
<1> QED
  BY <1>4, <1>5, <1>6 DEF Shaped

LEMMA RepairLookupShape ==
  ASSUME Typed, Shaped, NEW j \in Jobs, RepairLookup(j)
  PROVE  Typed' /\ Shaped'
<1>1. At(j, job[j])
  BY DEF Shaped, JobsInv
<1>2. At(j, job'[j])
  BY <1>1, IdleAt, RepairLookupEffect
     DEF At, PhasesOf, ReconcilePhases, MountPhases, TakingOff, Task, Flags, Stops, Place
<1>3. Others(j) /\ asked' = asked /\ happened' \subseteq Troubles /\ job[j].pc # "idle"
  BY RepairLookupEffect
     DEF SameBounds, AtMost, Typed, Troubles, Drops, Registers, Steps, Stops, Attempted, Reconciled
<1>4. JobsInv' /\ AskedInv'
  BY <1>2, <1>3, JobsFrame
<1>5. RowsInv' /\ MountsInv'
  BY RepairLookupEffect
     DEF Shaped, RowsInv, MountsInv, Typed, SameHost, SameInner, Frees, Marks, Records, Cards
<1>6. Typed'
  BY <1>1, <1>3, RepairLookupEffect
     DEF Typed, Others, SameHost, SameInner, SameLibrary, Frees, Marks, Records, Cards, Drops,
         Registers, Shows, Notice, Stages, At
<1> QED
  BY <1>4, <1>5, <1>6 DEF Shaped

LEMMA RepairUmountShape ==
  ASSUME Typed, Shaped, NEW j \in Jobs, RepairUmount(j)
  PROVE  Typed' /\ Shaped'
<1>1. At(j, job[j])
  BY DEF Shaped, JobsInv
<1>2. At(j, job'[j])
  BY <1>1, IdleAt, RepairUmountEffect
     DEF At, PhasesOf, ReconcilePhases, MountPhases, TakingOff, Task, Flags, Steps, Stops, Place
<1>3. Others(j) /\ asked' = asked /\ happened' \subseteq Troubles /\ job[j].pc # "idle"
  BY RepairUmountEffect
     DEF SameBounds, AtMost, Typed, Troubles, Drops, Registers, Steps, Stops, Attempted, Reconciled
<1>4. JobsInv' /\ AskedInv'
  BY <1>2, <1>3, JobsFrame
<1>5. RowsInv' /\ MountsInv'
  BY RepairUmountEffect
     DEF Shaped, RowsInv, MountsInv, Typed, SameHost, SameInner, Frees, Marks, Records, Cards
<1>6. Typed'
  BY <1>1, <1>3, RepairUmountEffect
     DEF Typed, Others, SameHost, SameInner, SameLibrary, Frees, Marks, Records, Cards, Drops,
         Registers, Shows, Notice, Stages, At
<1> QED
  BY <1>4, <1>5, <1>6 DEF Shaped

LEMMA FsckBeginsShape ==
  ASSUME Typed, Shaped, NEW j \in Jobs, FsckBegins(j)
  PROVE  Typed' /\ Shaped'
<1>1. At(j, job[j])
  BY DEF Shaped, JobsInv
<1>2. At(j, job'[j])
  BY <1>1, IdleAt, FsckBeginsEffect
     DEF At, PhasesOf, ReconcilePhases, MountPhases, TakingOff, Task, Flags, Steps, Stops, Place
<1>3. Others(j) /\ asked' = asked /\ happened' \subseteq Troubles /\ job[j].pc # "idle"
  BY FsckBeginsEffect
     DEF SameBounds, AtMost, Typed, Troubles, Drops, Registers, Steps, Stops, Attempted, Reconciled
<1>4. JobsInv' /\ AskedInv'
  BY <1>2, <1>3, JobsFrame
<1>5. RowsInv' /\ MountsInv'
  BY FsckBeginsEffect
     DEF Shaped, RowsInv, MountsInv, Typed, SameHost, SameInner, Frees, Marks, Records, Cards
<1>6. Typed'
  BY <1>1, <1>3, FsckBeginsEffect
     DEF Typed, Others, SameHost, SameInner, SameLibrary, Frees, Marks, Records, Cards, Drops,
         Registers, Shows, Notice, Stages, At
<1> QED
  BY <1>4, <1>5, <1>6 DEF Shaped

LEMMA FsckEndsShape ==
  ASSUME Typed, Shaped, NEW j \in Jobs, FsckEnds(j)
  PROVE  Typed' /\ Shaped'
<1>1. At(j, job[j])
  BY DEF Shaped, JobsInv
<1>2. At(j, job'[j])
  BY <1>1, IdleAt, FsckEndsEffect
     DEF At, PhasesOf, ReconcilePhases, MountPhases, TakingOff, Task, Flags, Stops, Place
<1>3. Others(j) /\ asked' = asked /\ happened' \subseteq Troubles /\ job[j].pc # "idle"
  BY FsckEndsEffect
     DEF SameBounds, AtMost, Typed, Troubles, Drops, Registers, Steps, Stops, Attempted, Reconciled
<1>4. JobsInv' /\ AskedInv'
  BY <1>2, <1>3, JobsFrame
<1>5. RowsInv' /\ MountsInv'
  BY FsckEndsEffect
     DEF Shaped, RowsInv, MountsInv, Typed, SameHost, SameInner, Frees, Marks, Records, Cards
<1>6. Typed'
  BY <1>1, <1>3, FsckEndsEffect
     DEF Typed, Others, SameHost, SameInner, SameLibrary, Frees, Marks, Records, Cards, Drops,
         Registers, Shows, Notice, Stages, At
<1> QED
  BY <1>4, <1>5, <1>6 DEF Shaped

LEMMA RenameLookupShape ==
  ASSUME Typed, Shaped, NEW j \in Jobs, RenameLookup(j)
  PROVE  Typed' /\ Shaped'
<1>1. At(j, job[j])
  BY DEF Shaped, JobsInv
<1>2. At(j, job'[j])
  BY <1>1, IdleAt, RenameLookupEffect
     DEF At, PhasesOf, ReconcilePhases, MountPhases, TakingOff, Task, Flags, Stops
<1>3. Others(j) /\ asked' = asked /\ happened' \subseteq Troubles /\ job[j].pc # "idle"
  BY RenameLookupEffect
     DEF SameBounds, AtMost, Typed, Troubles, Drops, Registers, Steps, Stops, Attempted, Reconciled
<1>4. JobsInv' /\ AskedInv'
  BY <1>2, <1>3, JobsFrame
<1>5. RowsInv' /\ MountsInv'
  BY RenameLookupEffect
     DEF Shaped, RowsInv, MountsInv, Typed, SameHost, SameInner, Frees, Marks, Records, Cards
<1>6. Typed'
  BY <1>1, <1>3, RenameLookupEffect
     DEF Typed, Others, SameHost, SameInner, SameLibrary, Frees, Marks, Records, Cards, Drops,
         Registers, Shows, Notice, Stages, At
<1> QED
  BY <1>4, <1>5, <1>6 DEF Shaped

LEMMA RenameUmountShape ==
  ASSUME Typed, Shaped, NEW j \in Jobs, RenameUmount(j)
  PROVE  Typed' /\ Shaped'
<1>1. At(j, job[j])
  BY DEF Shaped, JobsInv
<1>2. At(j, job'[j])
  BY <1>1, IdleAt, RenameUmountEffect
     DEF At, PhasesOf, ReconcilePhases, MountPhases, TakingOff, Task, Flags, Steps, Stops, Place
<1>3. Others(j) /\ asked' = asked /\ happened' \subseteq Troubles /\ job[j].pc # "idle"
  BY RenameUmountEffect
     DEF SameBounds, AtMost, Typed, Troubles, Drops, Registers, Steps, Stops, Attempted, Reconciled
<1>4. JobsInv' /\ AskedInv'
  BY <1>2, <1>3, JobsFrame
<1>5. RowsInv' /\ MountsInv'
  BY RenameUmountEffect
     DEF Shaped, RowsInv, MountsInv, Typed, SameHost, SameInner, Frees, Marks, Records, Cards
<1>0. job[j].id \in Names
  BY VerbId, RenameUmountEffect DEF ReconcilePhases
<1>6. Typed'
  BY <1>0, <1>1, <1>3, RenameUmountEffect
     DEF Typed, Others, SameHost, SameInner, SameLibrary, Frees, Marks, Records, Cards, Drops,
         Registers, Shows, Notice, Stages, At
<1> QED
  BY <1>4, <1>5, <1>6 DEF Shaped

LEMMA RenameStopShape ==
  ASSUME Typed, Shaped, NEW j \in Jobs, RenameStop(j)
  PROVE  Typed' /\ Shaped'
<1>1. At(j, job[j])
  BY DEF Shaped, JobsInv
<1>2. At(j, job'[j])
  BY <1>1, RenameStopEffect
     DEF At, PhasesOf, ReconcilePhases, MountPhases, TakingOff, Task, Flags
<1>3. Others(j) /\ asked' = asked /\ happened' \subseteq Troubles /\ job[j].pc # "idle"
  BY RenameStopEffect
     DEF SameBounds, AtMost, Typed, Troubles, Drops, Registers, Steps, Stops, Attempted, Reconciled
<1>4. JobsInv' /\ AskedInv'
  BY <1>2, <1>3, JobsFrame
<1>5. RowsInv' /\ MountsInv'
  BY RenameStopEffect
     DEF Shaped, RowsInv, MountsInv, Typed, SameHost, SameInner, Frees, Marks, Records, Cards
<1>6. Typed'
  BY <1>1, <1>3, RenameStopEffect
     DEF Typed, Others, SameHost, SameInner, SameLibrary, Frees, Marks, Records, Cards, Drops,
         Registers, Shows, Notice, Stages, At
<1> QED
  BY <1>4, <1>5, <1>6 DEF Shaped

LEMMA RenameSaveShape ==
  ASSUME Typed, Shaped, NEW j \in Jobs, RenameSave(j)
  PROVE  Typed' /\ Shaped'
<1>1. At(j, job[j])
  BY DEF Shaped, JobsInv
<1>2. At(j, job'[j])
  BY <1>1, IdleAt, RenameSaveEffect
     DEF At, PhasesOf, ReconcilePhases, MountPhases, TakingOff, Task, Flags, Stops, Place
<1>3. Others(j) /\ asked' = asked /\ happened' \subseteq Troubles /\ job[j].pc # "idle"
  BY RenameSaveEffect
     DEF SameBounds, AtMost, Typed, Troubles, Drops, Registers, Steps, Stops, Attempted, Reconciled
<1>4. JobsInv' /\ AskedInv'
  BY <1>2, <1>3, JobsFrame
<1>5. RowsInv' /\ MountsInv'
  BY RenameSaveEffect
     DEF Shaped, RowsInv, MountsInv, Typed, SameHost, SameInner, Frees, Marks, Records, Cards
<1>6. Typed'
  BY <1>1, <1>3, RenameSaveEffect
     DEF Typed, Others, SameHost, SameInner, SameLibrary, Frees, Marks, Records, Cards, Drops,
         Registers, Shows, Notice, Stages, At, Job
<1> QED
  BY <1>4, <1>5, <1>6 DEF Shaped

LEMMA RenameRestoreShape ==
  ASSUME Typed, Shaped, NEW j \in Jobs, RenameRestore(j)
  PROVE  Typed' /\ Shaped'
<1>1. At(j, job[j])
  BY DEF Shaped, JobsInv
<1>2. At(j, job'[j])
  BY <1>1, IdleAt, RenameRestoreEffect
     DEF At, PhasesOf, ReconcilePhases, MountPhases, TakingOff, Task, Flags, Stops
<1>3. Others(j) /\ asked' = asked /\ happened' \subseteq Troubles /\ job[j].pc # "idle"
  BY RenameRestoreEffect
     DEF SameBounds, AtMost, Typed, Troubles, Drops, Registers, Steps, Stops, Attempted, Reconciled
<1>4. JobsInv' /\ AskedInv'
  BY <1>2, <1>3, JobsFrame
<1>5. RowsInv' /\ MountsInv'
  BY RenameRestoreEffect
     DEF Shaped, RowsInv, MountsInv, Typed, SameHost, SameInner, Frees, Marks, Records, Cards
<1>6. Typed'
  BY <1>1, <1>3, RenameRestoreEffect
     DEF Typed, Others, SameHost, SameInner, SameLibrary, Frees, Marks, Records, Cards, Drops,
         Registers, Shows, Notice, Stages, At
<1> QED
  BY <1>4, <1>5, <1>6 DEF Shaped

LEMMA ReadFailsShape ==
  ASSUME Typed, Shaped, NEW j \in Jobs, ReadFails(j)
  PROVE  Typed' /\ Shaped'
<1>1. At(j, job[j])
  BY DEF Shaped, JobsInv
<1>2. At(j, job'[j])
  BY <1>1, IdleAt, ReadFailsEffect
     DEF At, PhasesOf, ReconcilePhases, MountPhases, TakingOff, Task, Flags, Stops
<1>3. Others(j) /\ asked' = asked /\ happened' \subseteq Troubles /\ job[j].pc # "idle"
  BY ReadFailsEffect
     DEF SameBounds, AtMost, Typed, Troubles, Drops, Registers, Steps, Stops, Attempted, Reconciled
<1>4. JobsInv' /\ AskedInv'
  BY <1>2, <1>3, JobsFrame
<1>5. RowsInv' /\ MountsInv'
  BY ReadFailsEffect
     DEF Shaped, RowsInv, MountsInv, Typed, SameHost, SameInner, Frees, Marks, Records, Cards
<1>6. Typed'
  BY <1>1, <1>3, ReadFailsEffect
     DEF Typed, Others, SameHost, SameInner, SameLibrary, Frees, Marks, Records, Cards, Drops,
         Registers, Shows, Notice, Stages, At
<1> QED
  BY <1>4, <1>5, <1>6 DEF Shaped
LEMMA StartTickShape ==
  ASSUME Typed, Shaped, StartTick
  PROVE  Typed' /\ Shaped'
<1>1. At("tick", job["tick"])
  BY JobFacts DEF Shaped, JobsInv
<1>2. At("tick", job'["tick"])
  BY <1>1, StartTickEffect
     DEF At, PhasesOf, ReconcilePhases, MountPhases, TakingOff, Task, Flags, Steps, Place
<1>3. JobsInv' /\ AskedInv'
  BY <1>2, StartTickEffect, JobsFrame, JobFacts DEF SameBounds, Steps
<1> QED
  BY <1>3, StartTickEffect DEF Typed, Shaped, RowsInv, MountsInv, Others, Steps, SameHost,
                               SameInner, SameLibrary, SameBounds

LEMMA SpawnedRetractShape ==
  ASSUME Typed, Shaped, NEW id \in CardIds, SpawnedRetract(id)
  PROVE  Typed' /\ Shaped'
<1>1. happened' \subseteq Troubles /\ asked' = asked
  BY SpawnedRetractEffect DEF Drops, AtMost, Typed, Troubles
<1>2. JobsInv' /\ AskedInv' /\ RowsInv' /\ MountsInv'
  BY <1>1, SpawnedRetractEffect
     DEF Shaped, JobsInv, AskedInv, RowsInv, MountsInv, SameHost, SameInner
<1> QED
  BY <1>1, <1>2, SpawnedRetractEffect DEF Typed, Shaped, SameHost, SameInner, Drops

LEMMA YankEffect ==
  ASSUME Typed, Yank
  PROVE  /\ plugged /\ ~plugged' /\ plugged' \in BOOLEAN /\ alias' = alias
         /\ mounts' \in [Names -> {"none", "live", "dead"}] /\ \A n \in Names : mounts'[n] # "live"
         /\ SameInner /\ SameLibrary /\ job' = job /\ AtMost("yank")
         /\ "yank" \in happened' \ happened
  BY HappensFacts DEF Yank, Typed, SameInner, SameLibrary, inner, library, Happens

LEMMA PlugEffect ==
  ASSUME Plug
  PROVE  /\ ~plugged /\ plugged' /\ plugged' \in BOOLEAN /\ alias' = alias /\ mounts' = mounts
         /\ SameInner /\ SameLibrary /\ job' = job /\ SameBounds
  BY DEF Plug, SameInner, SameLibrary, SameBounds, inner, library, boundVars

LEMMA RestartEffect ==
  ASSUME Typed, Restart
  PROVE  /\ SameHost /\ cards' = cards /\ queue' = queue /\ retracts' = {} /\ held' = {}
         /\ removal' = None /\ drives' \in [Names -> Row \cup {None}]
         /\ \A n \in Names : drives'[n] = None
         /\ job' \in [Jobs -> Job] /\ \A j \in Jobs : job'[j] = IdleJob
         /\ AtMost("restart") /\ "restart" \in happened' \ happened
  BY HappensFacts, JobFacts DEF Restart, SameHost, Happens

LEMMA YankShape ==
  ASSUME Typed, Shaped, Yank
  PROVE  Typed' /\ Shaped'
<1>1. asked' = asked /\ happened' \subseteq Troubles
  BY YankEffect DEF AtMost, Typed, Troubles
<1> QED
  BY <1>1, YankEffect
     DEF Typed, Shaped, JobsInv, AskedInv, RowsInv, MountsInv, SameInner, SameLibrary

LEMMA PlugShape ==
  ASSUME Typed, Shaped, Plug
  PROVE  Typed' /\ Shaped'
  BY PlugEffect DEF Typed, Shaped, JobsInv, AskedInv, RowsInv, MountsInv, SameInner, SameLibrary,
                    SameBounds

LEMMA RestartShape ==
  ASSUME Typed, Shaped, Restart
  PROVE  Typed' /\ Shaped'
<1>1. asked' = asked /\ happened' \subseteq Troubles
  BY RestartEffect DEF AtMost, Typed, Troubles
<1>2. JobsInv'
  BY RestartEffect, IdleAt DEF JobsInv
<1>3. AskedInv'
  BY RestartEffect, JobFacts DEF AskedInv, Handlers, Jobs
<1>4. RowsInv' /\ MountsInv'
  BY RestartEffect DEF RowsInv, MountsInv, SameHost, Shaped
<1> QED
  BY <1>1, <1>2, <1>3, <1>4, RestartEffect DEF Typed, Shaped, SameHost

LEMMA RequestEffect ==
  ASSUME Typed, NEW h \in Handlers, Request(h)
  PROVE  \E v \in Verbs, n \in Names, to \in Names \cup {None} : Arrives(h, v, n, to)
<1>1. \E v \in Verbs, n \in Names, to \in Names \cup {None} : Verb(h, v, n, to)
  BY AliasesAssumption DEF Request, Verbs
<1> QED
  BY <1>1, VerbEffect

\* The verb takes a handler that has done nothing yet.
LEMMA Newcomer ==
  ASSUME Typed, Shaped, NEW h \in Handlers, NEW v, NEW n, NEW to, Arrives(h, v, n, to)
  PROVE  /\ job[h].pc = "idle" /\ asked' \in 0..MaxRequests
         /\ \A i \in 1..MaxRequests : i > asked' => i > asked /\ HandlerNames[i] # h
<1>1. asked \in 0..MaxRequests /\ MaxRequests \in 0..Len(HandlerNames) /\ Len(HandlerNames) \in Nat
  BY HandlersAssumption DEF Typed
<1>2. asked + 1 \in 1..MaxRequests /\ asked + 1 > asked /\ asked' = asked + 1
      /\ h = HandlerNames[asked + 1]
  BY <1>1 DEF Arrives
<1>3. job[h].pc = "idle"
  BY <1>2 DEF Shaped, AskedInv
<1>4. ASSUME NEW i \in 1..MaxRequests, i > asked' PROVE i > asked /\ HandlerNames[i] # h
  <2>1. i > asked /\ i # asked + 1 /\ i \in 1..Len(HandlerNames)
        /\ asked + 1 \in 1..Len(HandlerNames)
    BY <1>1, <1>2, <1>4
  <2> QED
    BY <2>1, <1>2, HandlersAssumption
<1> QED
  BY <1>1, <1>2, <1>3, <1>4

LEMMA RequestShape ==
  ASSUME Typed, Shaped, NEW h \in Handlers, Request(h)
  PROVE  Typed' /\ Shaped'
<1>1. PICK v \in Verbs, n \in Names, to \in Names \cup {None} : Arrives(h, v, n, to)
  BY RequestEffect
<1>2. h \in Jobs /\ h # "tick"
  BY JobFacts
<1>3. At(h, job'[h])
  BY <1>1, <1>2 DEF Arrives, At, PhasesOf, ReconcilePhases, MountPhases, TakingOff, Verbs
<1>4. JobsInv'
  BY <1>1, <1>3 DEF Arrives, Others, Shaped, JobsInv
<1>5. AskedInv'
  <2>1. ASSUME NEW i \in 1..MaxRequests, i > asked' PROVE job'[HandlerNames[i]].pc = "idle"
    <3>1. i > asked /\ HandlerNames[i] # h /\ HandlerNames[i] \in Jobs
      BY <2>1, <1>1, Newcomer DEF Jobs, Handlers
    <3> QED
      BY <1>1, <3>1 DEF Arrives, Others, Shaped, AskedInv
  <2> QED
    BY <2>1 DEF AskedInv
<1>6. RowsInv' /\ MountsInv'
  BY <1>1 DEF Arrives, Shaped, RowsInv, MountsInv, SameHost
<1>7. held' \subseteq Names /\ removal' \in Notice \cup {None}
  BY <1>1 DEF Arrives, Typed
<1>8. Typed'
  BY <1>1, <1>7, Newcomer DEF Arrives, Typed, Others, SameHost, SameLibrary
<1> QED
  BY <1>4, <1>5, <1>6, <1>8 DEF Shaped

LEMMA NextShape ==
  ASSUME Typed, Shaped, Next
  PROVE  Typed' /\ Shaped'
<1>1. ASSUME NEW j \in Jobs, JobStep(j) PROVE Typed' /\ Shaped'
  BY <1>1, ReadShape, SwapShape, ForceGoneShape, RetractShape, AutoMountShape, MountShape,
     CardShape, SetMountedShape, AdoptShape, AdoptCardShape, AdoptSetShape, MountLookupShape,
     RemoveLookupShape, RemoveUmountShape, RemoveForceShape, RemoveRetractShape,
     RemoveDropShape, RemoveSafeShape, RepairLookupShape, RepairUmountShape, FsckBeginsShape,
     FsckEndsShape, RenameLookupShape, RenameUmountShape, RenameStopShape, RenameSaveShape,
     RenameRestoreShape DEF JobStep
<1> QED
  BY <1>1, ReadFailsShape, SpawnedRetractShape, StartTickShape, YankShape, PlugShape,
     RestartShape, RequestShape DEF Next

------------------------------------------------------------------------------
(* What the history says.                                                  *)

LEMMA JobsFinite == IsFiniteSet(Jobs) /\ IsFiniteSet(Handlers)
<1> DEFINE f == [i \in 1..MaxRequests |-> HandlerNames[i]]
<1>1. MaxRequests \in Nat
  BY HandlersAssumption
<1>2. IsFiniteSet(1..MaxRequests)
  BY <1>1, FS_Interval
<1>3. f \in Surjection(1..MaxRequests, Handlers)
  BY DEF Handlers, Surjection
<1>4. IsFiniteSet(Handlers)
  BY <1>2, <1>3, FS_Surjection
<1> QED
  BY <1>4, FS_AddElement DEF Jobs

\* A finite set with two elements has a cardinality above one.
LEMMA TwoElements ==
  ASSUME NEW S, IsFiniteSet(S), NEW a \in S, NEW b \in S, a # b
  PROVE  Cardinality(S) > 1
<1>1. IsFiniteSet({a, b}) /\ Cardinality({a, b}) = 2
  <2>1. IsFiniteSet({b}) /\ Cardinality({b}) = 1
    BY FS_Singleton
  <2>2. {a, b} = {b} \cup {a} /\ a \notin {b}
    OBVIOUS
  <2> QED
    BY <2>1, <2>2, FS_AddElement
<1>2. {a, b} \subseteq S
  OBVIOUS
<1>3. Cardinality({a, b}) <= Cardinality(S)
  BY <1>2, FS_Subset
<1>4. Cardinality(S) \in Nat
  BY FS_CardinalityType
<1> QED
  BY <1>1, <1>3, <1>4

LEMMA HistoryFacts ==
  ASSUME TypeOK, History
  PROVE  /\ crossed' \in BOOLEAN /\ met' \in BOOLEAN /\ together' \in BOOLEAN
         /\ inplace' \in BOOLEAN
         /\ ~crossed' => ~crossed
         /\ ~met' => ~met
         /\ ~together' => ~together
  BY DEF History, TypeOK

LEMMA CrossedFacts ==
  ASSUME History, ~crossed'
  PROVE  /\ \A h, k \in Handlers : job'[h].pc # "idle" /\ job'[k].pc # "idle" => h = k
         /\ {"yank", "restart"} \cap (happened' \ happened) # {} =>
              /\ \A h \in Handlers : job[h].pc = "idle"
              /\ Mounting = {} /\ retracts = {} /\ \A n \in Live : drives[n] # None
<1> DEFINE B == {h \in Handlers : Busy(h)'}
<1>1. ~(Cardinality(B) > 1)
  BY DEF History
<1>2. IsFiniteSet(B)
  BY JobsFinite, FS_Subset
<1>3. ASSUME NEW h \in Handlers, NEW k \in Handlers, job'[h].pc # "idle", job'[k].pc # "idle"
      PROVE  h = k
  <2>1. h \in B /\ k \in B
    BY <1>3 DEF Busy
  <2> HIDE DEF B
  <2> QED
    BY <1>1, <1>2, <2>1, TwoElements
<1> QED
  BY <1>3 DEF History, Busy

LEMMA MetFacts ==
  ASSUME History, ~met'
  PROVE  /\ Exposed' = {} \/ Mounting' = {}
         /\ \A h \in Handlers : job[h].pc = "rsafe" /\ job[h].id \in held => job[h].id \in held'
         /\ \A j \in Jobs : job[j].pc = "swap" /\ job'[j].pc # "swap" => ~Stale(j)
         /\ \A h \in Handlers : ~Missed(h)
  BY DEF History

LEMMA TogetherFacts ==
  ASSUME History, ~together'
  PROVE  /\ \A j, k \in Reconciling' : j = k
         /\ \A h \in Handlers : ~Cardless(h)
<1>1. ~(Cardinality(Reconciling') > 1)
  BY DEF History
<1>2. IsFiniteSet(Reconciling')
  <2>1. Reconciling' \subseteq Jobs
    BY DEF Reconciling
  <2> QED
    BY <2>1, JobsFinite, FS_Subset
<1>3. \A j, k \in Reconciling' : j = k
  BY <1>1, <1>2, TwoElements
<1> QED
  BY <1>3 DEF History

LEMMA NextType ==
  ASSUME TypeOK, Shaped, Next
  PROVE  Typed /\ TypeOK' /\ Shaped'
<1>1. Typed
  BY DEF Typed, TypeOK
<1>2. Typed' /\ Shaped'
  BY <1>1, NextShape
<1>3. /\ crossed' \in BOOLEAN /\ met' \in BOOLEAN /\ together' \in BOOLEAN
      /\ inplace' \in BOOLEAN
  BY HistoryFacts DEF Next
<1> QED
  BY <1>1, <1>2, <1>3 DEF Typed, TypeOK

(***************************************************************************)
(* SafeMeansOff and FsckAlone.                                             *)
(***************************************************************************)
\* While nothing crossed, a busy job is the tick or the one verb.
LEMMA OneVerb ==
  ASSUME QuietInv, ~crossed, NEW j \in Jobs, NEW h \in Handlers,
         job[j].pc # "idle", job[h].pc # "idle"
  PROVE  j = h \/ j = "tick"
  BY DEF QuietInv, Alone, Busy, Jobs

LEMMA IdleVerbAt ==
  ASSUME Shaped', NEW h \in Handlers, job'[h].pc = "idle"
  PROVE  VerbAt(h)'
<1>1. h \in Jobs /\ At(h, job'[h])
  BY JobFacts DEF Shaped, JobsInv
<1>2. job'[h].verb = "tick" /\ ~job'[h].clean
  BY <1>1 DEF At, TakingOff
<1> QED
  BY <1>2 DEF VerbAt, SettledAt, Settled, TakeOffAt, ProbeAt, LookupAt, RemoveAt

LEMMA QuietBefore ==
  ASSUME TypeOK, History, Quiet'
  PROVE  Quiet
  BY HistoryFacts DEF Quiet

LEMMA AloneStep ==
  ASSUME TypeOK, Typed, QuietInv, History, plugged' = plugged, NEW j \in Jobs, Others(j),
         job'[j].pc = "swap" => job'[j].there = plugged,
         job'[j].pc \in {"card", "set"} => plugged \/ job[j].pc \in {"card", "set"}
  PROVE  Alone'
<1> SUFFICES ASSUME ~crossed' PROVE Alone'
  BY DEF Alone
<1>1. Alone /\ ~crossed
  BY HistoryFacts DEF QuietInv
<1>2. \A h, k \in Handlers : Busy(h)' /\ Busy(k)' => h = k
  BY CrossedFacts DEF Busy
<1>3. \A h \in Handlers : job'[h].pc = "swap" /\ job'[h].there => plugged'
  BY <1>1, JobFacts DEF Alone, Others
<1>4. \A k \in Jobs : job'[k].pc \in {"card", "set"} => plugged'
  BY <1>1 DEF Alone, Others
<1> QED
  BY <1>2, <1>3, <1>4 DEF Alone

\* What a step of verb j leaves to show: the others are idle.
LEMMA VerbQuiet ==
  ASSUME TypeOK, Typed, Shaped, QuietInv, History, Shaped', NEW j \in Handlers, Others(j),
         job[j].pc # "idle", Alone', Quiet' => VerbAt(j)' /\ SafeInv'
  PROVE  QuietInv'
<1>1. ASSUME Quiet', NEW h \in Handlers PROVE VerbAt(h)'
  <2>1. CASE h = j
    BY <1>1, <2>1
  <2>2. CASE h # j
    <3>1. h \in Jobs /\ j \in Jobs /\ h # "tick" /\ job'[h] = job[h]
      BY <2>2, JobFacts DEF Others
    <3>2. job[h].pc = "idle"
      BY <1>1, <2>2, <3>1, OneVerb, QuietBefore DEF Quiet
    <3> QED
      BY <3>1, <3>2, IdleVerbAt
  <2> QED
    BY <2>1, <2>2
<1>2. SafeInv'
  BY DEF SafeInv
<1> QED
  BY <1>1, <1>2, MetFacts DEF QuietInv

\* What a step of the tick leaves to show: no verb moves.
LEMMA TickQuiet ==
  ASSUME TypeOK, Typed, Shaped, QuietInv, History, Shaped', Others("tick"), Alone',
         Quiet' => SafeInv',
         ASSUME Quiet', Quiet, NEW h \in Handlers, job'[h] = job[h], VerbAt(h),
                job[h].pc # "idle"
         PROVE  VerbAt(h)'
  PROVE  QuietInv'
<1>1. ASSUME Quiet', NEW h \in Handlers PROVE VerbAt(h)'
  <2>1. job'[h] = job[h] /\ VerbAt(h) /\ Quiet
    BY <1>1, JobFacts, QuietBefore DEF Others, QuietInv
  <2> QED
    BY <1>1, <2>1, IdleVerbAt
<1>2. SafeInv'
  BY DEF SafeInv
<1> QED
  BY <1>1, <1>2, MetFacts DEF QuietInv

\* The mounts under way that job j has no part in.
LEMMA OtherMounts ==
  ASSUME NEW j \in Jobs, Others(j), NEW k \in Mounting', k # j
  PROVE  k \in Mounting /\ Target(k)' = Target(k)
  BY DEF Others, Mounting, Target

\* Nothing comes up.
Fewer == \A n \in Names : mounts'[n] = "live" => mounts[n] = "live"
LEMMA FreesFacts ==
  ASSUME Typed, NEW n \in Names, Frees(n)
  PROVE  Fewer /\ mounts'[n] # "live"
  BY DEF Typed, Frees, Fewer

\* Job j mounts nothing that it did not mount before.
MountsNoMore(j) == job'[j].pc \in MountPhases => j \in Mounting /\ Target(j)' = Target(j)
\* The banner stays true.
LEMMA SafeFrame ==
  ASSUME Typed, QuietInv, Quiet, NEW j \in Jobs, Others(j), MountsNoMore(j), Fewer,
         held \subseteq held', removal' = removal
  PROVE  SafeInv'
<1> SUFFICES ASSUME removal # None, removal.stage = "safe"
             PROVE  /\ removal.id \in held' /\ mounts'[removal.id] # "live"
                    /\ \A k \in Mounting' : Target(k)' # removal.id
  BY DEF SafeInv
<1>1. /\ removal.id \in held /\ mounts[removal.id] # "live"
      /\ \A k \in Mounting : Target(k) # removal.id
  BY DEF QuietInv, SafeInv
<1>2. removal.id \in Names
  BY <1>1 DEF Typed
<1>3. ASSUME NEW k \in Mounting' PROVE Target(k)' # removal.id
  BY <1>1, <1>3, OtherMounts DEF MountsNoMore, Mounting, MountPhases
<1> QED
  BY <1>1, <1>2, <1>3 DEF Fewer

\* A verb that stops leaves the banner true, and no verb is busy.
LEMMA StopQuiet ==
  ASSUME TypeOK, Typed, Shaped, QuietInv, History, Shaped', NEW j \in Handlers, Stops(j),
         job[j].pc # "idle", Fewer, plugged' = plugged, held' = held, removal' = removal
  PROVE  QuietInv'
<1>1. j \in Jobs /\ Others(j) /\ job'[j].pc = "idle"
  BY JobFacts DEF Stops
<1>2. Alone'
  BY <1>1, AloneStep
<1>3. Quiet' => SafeInv'
  BY <1>1, QuietBefore, SafeFrame DEF MountsNoMore, MountPhases
<1> QED
  BY <1>1, <1>2, <1>3, VerbQuiet, IdleVerbAt

LEMMA VerbOf ==
  ASSUME Typed, Shaped, NEW j \in Jobs, job[j].pc \notin {"idle"} \cup ReconcilePhases
  PROVE  /\ j \in Handlers /\ j # "tick" /\ job[j].id \in Names
         /\ job[j].verb = CASE job[j].pc = "mlookup" -> "mount"
                            [] job[j].pc \in {"rlookup", "rumount", "rforce", "rretract",
                                              "rdrop", "rsafe"} -> "remove"
                            [] job[j].pc \in {"flookup", "fumount", "fbegin", "fsck"} -> "repair"
                            [] job[j].pc = "restore" -> "renamed"
                            [] OTHER -> "rename"
         /\ ~job[j].auto
         /\ job[j].clean => job[j].pc \in TakingOff \cup {"rsafe"}
<1>1. At(j, job[j]) /\ job[j] \in Job
  BY DEF Shaped, JobsInv, Typed
<1>2. j \in Handlers /\ j # "tick" /\ job[j].id \in Names /\ job[j].verb # "tick"
  BY VerbId, JobFacts
<1>3. job[j].verb \in {"list", "mount", "remove", "repair", "rename", "renamed"}
  BY <1>1, <1>2 DEF Job, Verbs
<1>4. job[j].pc \in PhasesOf(job[j].verb) /\ job[j].pc \notin {"idle"} \cup ReconcilePhases
  BY <1>1 DEF At
<1>5. ~job[j].auto /\ (job[j].clean => job[j].pc \in TakingOff \cup {"rsafe"})
  BY <1>1 DEF At, ReconcilePhases, MountPhases
<1>6. job[j].verb = "list" => FALSE
  BY <1>4 DEF PhasesOf, ReconcilePhases
<1>7. job[j].verb = "mount" => job[j].pc = "mlookup"
  BY <1>4 DEF PhasesOf, ReconcilePhases
<1>8. job[j].verb = "remove" => job[j].pc \in {"rlookup", "rumount", "rforce", "rretract",
                                               "rdrop", "rsafe"}
  BY <1>4 DEF PhasesOf, ReconcilePhases
<1>9. job[j].verb = "repair" => job[j].pc \in {"flookup", "fumount", "fbegin", "fsck"}
  BY <1>4 DEF PhasesOf, ReconcilePhases
<1>10. job[j].verb = "rename" => job[j].pc \in {"nlookup", "numount", "nstop", "nsave"}
  BY <1>4 DEF PhasesOf, ReconcilePhases
<1>11. job[j].verb = "renamed" => job[j].pc = "restore"
  BY <1>4 DEF PhasesOf, ReconcilePhases
<1> QED
  BY <1>2, <1>3, <1>5, <1>6, <1>7, <1>8, <1>9, <1>10, <1>11

LEMMA SettledFrame ==
  ASSUME QuietInv, Quiet, NEW h \in Handlers, Settled(h)' => Settled(h),
         drives' = drives, alias' = alias, plugged' = plugged
  PROVE  SettledAt(h)'
  BY DEF QuietInv, VerbAt, SettledAt, Rows, CleanRow, Id

\* A verb that is no removal and has taken nothing off.
LEMMA OtherVerbAt ==
  ASSUME QuietInv, Quiet, NEW j \in Handlers, job'[j].verb # "remove", ~job'[j].clean, job'[j].id = job[j].id,
         job'[j].pc \notin {"rretract", "rdrop", "rsafe"}, removal' = removal \/ removal' = None,
         job'[j].verb \in {"mount", "repair"} => job[j].verb = job'[j].verb,
         SettledAt(j)'
  PROVE  VerbAt(j)'
  BY DEF QuietInv, VerbAt, TakeOffAt, ProbeAt, LookupAt, RemoveAt

LEMMA MountLookupQuiet ==
  ASSUME TypeOK, Typed, Shaped, QuietInv, NEW j \in Jobs, MountLookup(j), History, Shaped'
  PROVE  QuietInv'
<1>1. j \in Handlers /\ job[j].verb = "mount" /\ ~job[j].auto /\ ~job[j].clean
      /\ job[j].pc = "mlookup"
  BY VerbOf, MountLookupEffect DEF ReconcilePhases, TakingOff
<1>2. SameHost /\ SameInner /\ Fewer
  BY MountLookupEffect DEF SameHost, Fewer
<1>3. CASE Stops(j)
  BY <1>1, <1>2, <1>3, StopQuiet DEF SameHost, SameInner
<1>4. CASE Steps(j, "mount")
  <2>1. Alone'
    BY <1>2, <1>4, AloneStep DEF SameHost, Steps
  <2>2. ASSUME Quiet' PROVE VerbAt(j)'
    <3>1. SettledAt(j)'
      BY <1>1, <1>2, <1>4, <2>2, QuietBefore, SettledFrame
         DEF SameHost, SameInner, Settled, Steps, Task
    <3> QED
      BY <1>1, <1>2, <1>4, <2>2, <3>1, QuietBefore, OtherVerbAt DEF SameInner, Steps, Task, Flags
  <2>3. ASSUME Quiet' PROVE SafeInv'
    <3>1. SafeInv /\ Quiet /\ RemoveAt(j)
      BY <1>1, <2>3, QuietBefore DEF QuietInv, VerbAt
    <3>2. \A k \in Mounting' : k # j => k \in Mounting /\ Target(k)' = Target(k)
      BY <1>4, OtherMounts DEF Steps
    <3>3. Target(j)' = job[j].id
      BY <1>1, <1>4 DEF Steps, Task, Flags, Target
    <3> QED
      BY <1>1, <1>2, <3>1, <3>2, <3>3 DEF SafeInv, RemoveAt, SameHost, SameInner
  <2> QED
    BY <1>1, <1>4, <2>1, <2>2, <2>3, VerbQuiet DEF Steps
<1> QED
  BY <1>3, <1>4, MountLookupEffect

LEMMA RemoveLookupQuiet ==
  ASSUME TypeOK, Typed, Shaped, QuietInv, NEW j \in Jobs, RemoveLookup(j), History, Shaped'
  PROVE  QuietInv'
<1>1. j \in Handlers /\ job[j].verb = "remove" /\ ~job[j].clean /\ job[j].pc = "rlookup"
      /\ job[j].id \in Names
  BY VerbOf, RemoveLookupEffect DEF ReconcilePhases, TakingOff
<1>2. SameHost /\ drives' = drives /\ held' = held /\ Fewer
  BY RemoveLookupEffect DEF SameHost, Fewer
<1>3. /\ Others(j) /\ job'[j].verb = "remove" /\ job'[j].id = job[j].id
      /\ job'[j].pc \in {"rforce", "rumount", "rretract"}
  BY <1>1, RemoveLookupEffect DEF Steps, Task
<1>4. Alone'
  BY <1>2, <1>3, AloneStep DEF SameHost
<1>5. MountsNoMore(j)
  BY <1>3 DEF MountsNoMore, MountPhases
<1>6. ASSUME Quiet' PROVE VerbAt(j)'
  <2>1. Quiet /\ SettledAt(j) /\ LookupAt(j) /\ Mounting = {}
    BY <1>1, <1>6, QuietBefore DEF QuietInv, VerbAt, Exposed, Quiet
  <2>2. SettledAt(j)'
    BY <1>1, <1>2, <1>3, <2>1, SettledFrame DEF SameHost, Settled
  <2>3. Mounting' = {}
    BY <1>3, <2>1 DEF Mounting, Others
  <2>4. TakeOffAt(j)'
    <3>1. job'[j].clean => CleanRow(job[j].id)
      BY <1>1, <2>1, RemoveLookupEffect DEF SettledAt, Settled, Rows, CleanRow, Steps, Flags
    <3> QED
      BY <1>2, <1>3, <2>3, <3>1 DEF TakeOffAt, CleanRow
  <2>5. RemoveAt(j)'
    <3>1. job'[j].pc = "rretract" => drives[job[j].id] # None /\ ~CleanRow(job[j].id)
      BY RemoveLookupEffect DEF CleanRow, Steps
    <3> QED
      BY <1>1, <1>2, <1>3, <2>1, <3>1 DEF RemoveAt, LookupAt, Live, SameHost
  <2> QED
    BY <1>3, <2>2, <2>4, <2>5 DEF VerbAt, ProbeAt, LookupAt
<1>7. ASSUME Quiet' PROVE SafeInv'
  <2>1. CASE removal' = removal
    BY <1>2, <1>3, <1>5, <1>7, <2>1, QuietBefore, SafeFrame
  <2>2. CASE Shows(j, "detach") \/ Shows(j, "queue")
    BY <2>2 DEF Shows, SafeInv
  <2> QED
    BY <2>1, <2>2, RemoveLookupEffect
<1> QED
  BY <1>1, <1>3, <1>4, <1>6, <1>7, VerbQuiet

LEMMA RemoveUmountQuiet ==
  ASSUME TypeOK, Typed, Shaped, QuietInv, NEW j \in Jobs, RemoveUmount(j), History, Shaped'
  PROVE  QuietInv'
<1>1. j \in Handlers /\ job[j].verb = "remove" /\ job[j].pc = "rumount" /\ job[j].id \in Names
  BY VerbOf, RemoveUmountEffect DEF ReconcilePhases
<1>2. Fewer /\ plugged' = plugged /\ SameInner
  BY <1>1, FreesFacts, RemoveUmountEffect DEF Fewer
<1>3. CASE Stops(j)
  BY <1>1, <1>2, <1>3, StopQuiet DEF SameInner
<1>4. CASE ~Stops(j)
  <2>1. /\ Others(j) /\ job'[j].verb = "remove" /\ job'[j].id = job[j].id
        /\ job'[j].pc \in {"rforce", "rretract"} /\ job'[j].clean = job[j].clean
        /\ job'[j].pc = "rretract" => mounts'[job[j].id] # "live"
    BY <1>1, <1>4, FreesFacts, RemoveUmountEffect DEF Steps, Task, Flags
  <2>2. Alone'
    BY <1>2, <2>1, AloneStep
  <2>3. ASSUME Quiet' PROVE VerbAt(j)'
    <3>1. Quiet /\ TakeOffAt(j)
      BY <1>1, <2>3, QuietBefore DEF QuietInv, VerbAt
    <3>2. SettledAt(j)'
      BY <1>1, <2>1, <3>1, RemoveUmountEffect, SettledFrame DEF Settled, SameInner
    <3>3. TakeOffAt(j)'
      BY <1>1, <2>1, <3>1, RemoveUmountEffect
         DEF TakeOffAt, TakingOff, CleanRow, SameInner, Mounting, Others
    <3> QED
      BY <1>2, <2>1, <3>2, <3>3 DEF VerbAt, ProbeAt, LookupAt, RemoveAt
  <2>4. ASSUME Quiet' PROVE SafeInv'
    BY <1>2, <2>1, <2>4, RemoveUmountEffect, QuietBefore, SafeFrame
       DEF MountsNoMore, MountPhases, SameInner
  <2> QED
    BY <1>1, <2>1, <2>2, <2>3, <2>4, VerbQuiet
<1> QED
  BY <1>3, <1>4

LEMMA RemoveForceQuiet ==
  ASSUME TypeOK, Typed, Shaped, QuietInv, NEW j \in Jobs, RemoveForce(j), History, Shaped'
  PROVE  QuietInv'
<1>1. j \in Handlers /\ job[j].verb = "remove" /\ job[j].pc = "rforce" /\ job[j].id \in Names
  BY VerbOf, RemoveForceEffect DEF ReconcilePhases
<1>2. Fewer /\ (Frees(job[j].id) => mounts'[job[j].id] # "live")
  BY <1>1, FreesFacts, RemoveForceEffect DEF Fewer
<1>3. CASE Stops(j)
  BY <1>1, <1>2, <1>3, RemoveForceEffect, StopQuiet DEF SameInner
<1>4. CASE ~Stops(j)
  <2>1. /\ Others(j) /\ job'[j].verb = "remove" /\ job'[j].id = job[j].id
        /\ job'[j].pc \in {"rretract", "rdrop"} /\ job'[j].clean = job[j].clean
    BY <1>1, <1>4, RemoveForceEffect DEF Steps, Task, Flags
  <2>2. Alone'
    BY <2>1, RemoveForceEffect, AloneStep
  <2>3. ASSUME Quiet' PROVE VerbAt(j)'
    <3>1. Quiet /\ TakeOffAt(j)
      BY <1>1, <2>3, QuietBefore DEF QuietInv, VerbAt
    <3>2. SettledAt(j)'
      BY <1>1, <2>1, <3>1, RemoveForceEffect, SettledFrame DEF Settled, SameInner
    <3>3. TakeOffAt(j)'
      BY <1>1, <2>1, <3>1, RemoveForceEffect
         DEF TakeOffAt, TakingOff, CleanRow, SameInner, Mounting, Others
    <3>4. mounts'[job[j].id] # "live"
      <4>1. ~Missed(j)
        BY <1>1, <2>3, MetFacts DEF Quiet
      <4> QED
        BY <1>1, <1>2, <1>4, <4>1, RemoveForceEffect DEF Missed, Steps
    <3> QED
      BY <2>1, <3>2, <3>3, <3>4 DEF VerbAt, ProbeAt, LookupAt, RemoveAt
  <2>4. ASSUME Quiet' PROVE SafeInv'
    BY <1>2, <2>1, <2>4, RemoveForceEffect, QuietBefore, SafeFrame
       DEF MountsNoMore, MountPhases, SameInner
  <2> QED
    BY <1>1, <2>1, <2>2, <2>3, <2>4, VerbQuiet
<1> QED
  BY <1>3, <1>4

LEMMA RemoveRetractQuiet ==
  ASSUME TypeOK, Typed, Shaped, QuietInv, NEW j \in Jobs, RemoveRetract(j), History, Shaped'
  PROVE  QuietInv'
<1>1. j \in Handlers /\ job[j].verb = "remove" /\ job[j].pc = "rretract"
  BY VerbOf, RemoveRetractEffect DEF ReconcilePhases
<1>2. /\ Others(j) /\ job'[j].verb = "remove" /\ job'[j].id = job[j].id
      /\ job'[j].pc = "rdrop" /\ job'[j].clean = job[j].clean /\ SameHost /\ drives' = drives
  BY <1>1, RemoveRetractEffect DEF Steps, Task, Flags
<1>3. Alone'
  BY <1>2, AloneStep DEF SameHost
<1>4. ASSUME Quiet' PROVE VerbAt(j)'
  <2>1. Quiet /\ TakeOffAt(j) /\ RemoveAt(j)
    BY <1>1, <1>4, QuietBefore DEF QuietInv, VerbAt
  <2>2. SettledAt(j)'
    BY <1>1, <1>2, <2>1, SettledFrame DEF Settled, SameHost
  <2>3. TakeOffAt(j)'
    BY <1>1, <1>2, <2>1 DEF TakeOffAt, TakingOff, CleanRow, Mounting, Others
  <2> QED
    BY <1>1, <1>2, <2>1, <2>2, <2>3 DEF VerbAt, ProbeAt, LookupAt, RemoveAt, SameHost
<1>5. SafeInv'
  BY RemoveRetractEffect DEF Shows, SafeInv
<1> QED
  BY <1>1, <1>2, <1>3, <1>4, <1>5, VerbQuiet

\* The hold goes up before any mount of the volume can start.
LEMMA RemoveDropQuiet ==
  ASSUME TypeOK, Typed, Shaped, QuietInv, NEW j \in Jobs, RemoveDrop(j), History, Shaped'
  PROVE  QuietInv'
<1>1. j \in Handlers /\ job[j].verb = "remove" /\ job[j].pc = "rdrop" /\ job[j].id \in Names
  BY VerbOf, RemoveDropEffect DEF ReconcilePhases
<1>2. /\ Others(j) /\ job'[j].verb = "remove" /\ job'[j].id = job[j].id
      /\ job'[j].pc = "rsafe" /\ SameHost /\ Fewer /\ held' = held \cup {job[j].id}
  BY <1>1, RemoveDropEffect DEF Steps, Task, SameHost, Fewer
<1>3. Alone'
  BY <1>2, AloneStep DEF SameHost
<1>4. ASSUME Quiet' PROVE VerbAt(j)'
  <2>1. Quiet /\ SettledAt(j) /\ TakeOffAt(j) /\ RemoveAt(j)
    BY <1>1, <1>4, QuietBefore DEF QuietInv, VerbAt
  <2>2. Mounting = {}
    BY <1>1, <2>1 DEF QuietInv, Quiet, Exposed, TakeOffAt, TakingOff
  <2>3. Mounting' = {}
    BY <1>2, <2>2 DEF Mounting, Others
  <2>4. \A n \in Rows' : n \in Rows /\ drives'[n] = drives[n]
    BY <1>1, RemoveDropEffect DEF Rows, Typed
  <2>5. SettledAt(j)'
    BY <1>1, <1>2, <2>1, <2>4 DEF SettledAt, Settled, CleanRow, SameHost, Id
  <2> QED
    BY <1>1, <1>2, <2>1, <2>3, <2>5
       DEF VerbAt, TakeOffAt, TakingOff, ProbeAt, LookupAt, RemoveAt, SameHost
<1>5. ASSUME Quiet' PROVE SafeInv'
  BY <1>2, <1>5, RemoveDropEffect, QuietBefore, SafeFrame DEF MountsNoMore, MountPhases
<1> QED
  BY <1>1, <1>2, <1>3, <1>4, <1>5, VerbQuiet

LEMMA RemoveSafeQuiet ==
  ASSUME TypeOK, Typed, Shaped, QuietInv, NEW j \in Jobs, RemoveSafe(j), History, Shaped'
  PROVE  QuietInv'
<1>1. j \in Handlers /\ job[j].pc = "rsafe" /\ Others(j) /\ job'[j].pc = "idle" /\ SameHost
  BY VerbOf, JobFacts, RemoveSafeEffect DEF ReconcilePhases, Stops
<1>2. Alone'
  BY <1>1, AloneStep DEF SameHost
<1>3. ASSUME Quiet' PROVE SafeInv'
  <2>1. RemoveAt(j)
    BY <1>1, <1>3, QuietBefore DEF QuietInv, VerbAt
  <2>2. \A k \in Mounting' : k \in Mounting /\ Target(k)' = Target(k)
    BY <1>1, OtherMounts DEF Mounting
  <2> QED
    BY <1>1, <2>1, <2>2, RemoveSafeEffect DEF Shows, SafeInv, RemoveAt, SameHost
<1> QED
  BY <1>1, <1>2, <1>3, VerbQuiet, IdleVerbAt

LEMMA RepairLookupQuiet ==
  ASSUME TypeOK, Typed, Shaped, QuietInv, NEW j \in Jobs, RepairLookup(j), History, Shaped'
  PROVE  QuietInv'
<1>1. j \in Handlers /\ job[j].verb = "repair" /\ job[j].pc = "flookup"
  BY VerbOf, RepairLookupEffect DEF ReconcilePhases
<1>2. SameHost /\ SameInner /\ Fewer
  BY RepairLookupEffect DEF SameHost, Fewer
<1>3. CASE Stops(j)
  BY <1>1, <1>2, <1>3, StopQuiet DEF SameHost, SameInner
<1>4. CASE ~Stops(j)
  <2>1. /\ Others(j) /\ job'[j].verb = "repair" /\ job'[j].id = job[j].id
        /\ job'[j].pc \in {"fumount", "fbegin"} /\ (job'[j].clean => CleanRow(job[j].id))
    BY <1>1, <1>4, RepairLookupEffect DEF Task
  <2>2. Alone'
    BY <1>2, <2>1, AloneStep DEF SameHost
  <2>3. ASSUME Quiet' PROVE VerbAt(j)'
    <3>1. Quiet /\ RemoveAt(j) /\ Mounting = {}
      BY <1>1, <2>3, QuietBefore DEF QuietInv, VerbAt, Exposed, Quiet
    <3>2. SettledAt(j)'
      BY <1>1, <1>2, <2>1, <3>1, SettledFrame DEF SameHost, SameInner, Settled
    <3>3. Mounting' = {}
      BY <2>1, <3>1 DEF Mounting, Others
    <3> QED
      BY <1>1, <1>2, <2>1, <3>1, <3>2, <3>3
         DEF VerbAt, TakeOffAt, ProbeAt, LookupAt, RemoveAt, CleanRow, SameInner
  <2>4. ASSUME Quiet' PROVE SafeInv'
    BY <1>2, <2>1, <2>4, QuietBefore, SafeFrame DEF MountsNoMore, MountPhases, SameInner
  <2> QED
    BY <1>1, <2>1, <2>2, <2>3, <2>4, VerbQuiet
<1> QED
  BY <1>3, <1>4

LEMMA RepairUmountQuiet ==
  ASSUME TypeOK, Typed, Shaped, QuietInv, NEW j \in Jobs, RepairUmount(j), History, Shaped'
  PROVE  QuietInv'
<1>1. j \in Handlers /\ job[j].verb = "repair" /\ job[j].pc = "fumount" /\ job[j].id \in Names
  BY VerbOf, RepairUmountEffect DEF ReconcilePhases
<1>2. Fewer
  BY <1>1, FreesFacts, RepairUmountEffect DEF Fewer
<1>3. CASE Stops(j)
  BY <1>1, <1>2, <1>3, RepairUmountEffect, StopQuiet DEF SameInner
<1>4. CASE Steps(j, "fbegin")
  <2>1. /\ Others(j) /\ job'[j].verb = "repair" /\ job'[j].id = job[j].id
        /\ job'[j].pc = "fbegin" /\ job'[j].clean = job[j].clean
    BY <1>1, <1>4 DEF Steps, Task, Flags
  <2>2. Alone'
    BY <2>1, RepairUmountEffect, AloneStep
  <2>3. ASSUME Quiet' PROVE VerbAt(j)'
    <3>1. Quiet /\ RemoveAt(j) /\ TakeOffAt(j)
      BY <1>1, <2>3, QuietBefore DEF QuietInv, VerbAt
    <3>2. SettledAt(j)'
      BY <1>1, <2>1, <3>1, RepairUmountEffect, SettledFrame DEF SameInner, Settled
    <3>3. TakeOffAt(j)'
      BY <1>1, <2>1, <3>1, RepairUmountEffect
         DEF TakeOffAt, TakingOff, CleanRow, SameInner, Mounting, Others
    <3> QED
      BY <1>1, <2>1, <3>1, <3>2, <3>3, RepairUmountEffect
         DEF VerbAt, ProbeAt, LookupAt, RemoveAt, SameInner
  <2>4. ASSUME Quiet' PROVE SafeInv'
    BY <1>2, <2>1, <2>4, RepairUmountEffect, QuietBefore, SafeFrame
       DEF MountsNoMore, MountPhases, SameInner
  <2> QED
    BY <1>1, <2>1, <2>2, <2>3, <2>4, VerbQuiet
<1> QED
  BY <1>3, <1>4, RepairUmountEffect

LEMMA FsckBeginsQuiet ==
  ASSUME TypeOK, Typed, Shaped, QuietInv, NEW j \in Jobs, FsckBegins(j), History, Shaped'
  PROVE  QuietInv'
<1>1. j \in Handlers /\ job[j].verb = "repair" /\ job[j].pc = "fbegin"
  BY VerbOf, FsckBeginsEffect DEF ReconcilePhases
<1>2. SameHost /\ Fewer /\ held' = held /\ removal' = removal
  BY FsckBeginsEffect DEF SameHost, Fewer
<1>3. CASE Stops(j)
  BY <1>1, <1>2, <1>3, StopQuiet DEF SameHost
<1>4. CASE Live = {} /\ Steps(j, "fsck") /\ drives' = drives
  <2>1. /\ Others(j) /\ job'[j].verb = "repair" /\ job'[j].id = job[j].id
        /\ job'[j].pc = "fsck" /\ job'[j].clean = job[j].clean
    BY <1>1, <1>4 DEF Steps, Task, Flags
  <2>2. Alone'
    BY <1>2, <2>1, AloneStep DEF SameHost
  <2>3. ASSUME Quiet' PROVE VerbAt(j)'
    <3>1. Quiet /\ RemoveAt(j) /\ TakeOffAt(j)
      BY <1>1, <2>3, QuietBefore DEF QuietInv, VerbAt
    <3>2. SettledAt(j)'
      BY <1>1, <1>2, <1>4, <2>1, <3>1, SettledFrame DEF SameHost, Settled
    <3>3. TakeOffAt(j)'
      BY <1>1, <1>2, <1>4, <2>1, <3>1
         DEF TakeOffAt, TakingOff, CleanRow, Mounting, Others, Live, SameHost
    <3> QED
      BY <1>1, <1>2, <2>1, <3>1, <3>2, <3>3 DEF VerbAt, ProbeAt, LookupAt, RemoveAt
  <2>4. ASSUME Quiet' PROVE SafeInv'
    BY <1>2, <2>1, <2>4, QuietBefore, SafeFrame DEF MountsNoMore, MountPhases
  <2> QED
    BY <1>1, <2>1, <2>2, <2>3, <2>4, VerbQuiet
<1> QED
  BY <1>3, <1>4, FsckBeginsEffect

LEMMA FsckEndsQuiet ==
  ASSUME TypeOK, Typed, Shaped, QuietInv, NEW j \in Jobs, FsckEnds(j), History, Shaped'
  PROVE  QuietInv'
<1>1. j \in Handlers /\ job[j].verb = "repair" /\ job[j].pc = "fsck" /\ ~job[j].auto
  BY VerbOf, FsckEndsEffect DEF ReconcilePhases
<1>2. SameHost /\ Fewer /\ held' = held /\ removal' = removal
  BY FsckEndsEffect DEF SameHost, Fewer
<1>3. CASE Stops(j)
  BY <1>1, <1>2, <1>3, StopQuiet DEF SameHost
<1>4. CASE ~Stops(j)
  <2>1. /\ Others(j) /\ job'[j].verb = "repair" /\ job'[j].id = job[j].id /\ drives' = drives
        /\ job'[j].pc = "mount" /\ ~job'[j].clean /\ ~job'[j].auto
    BY <1>1, <1>4, FsckEndsEffect DEF Task
  <2>2. Alone'
    BY <1>2, <2>1, AloneStep DEF SameHost
  <2>3. ASSUME Quiet' PROVE VerbAt(j)'
    <3>1. SettledAt(j)'
      BY <1>1, <1>2, <2>1, <2>3, QuietBefore, SettledFrame DEF SameHost, Settled
    <3> QED
      BY <1>1, <1>2, <2>1, <2>3, <3>1, QuietBefore, OtherVerbAt
  <2>4. ASSUME Quiet' PROVE SafeInv'
    <3>1. SafeInv /\ Quiet /\ RemoveAt(j)
      BY <1>1, <2>4, QuietBefore DEF QuietInv, VerbAt
    <3>2. \A k \in Mounting' : k # j => k \in Mounting /\ Target(k)' = Target(k)
      BY <2>1, OtherMounts
    <3>3. Target(j)' = job[j].id
      BY <2>1 DEF Target
    <3> QED
      BY <1>1, <1>2, <3>1, <3>2, <3>3 DEF SafeInv, RemoveAt, SameHost
  <2> QED
    BY <1>1, <2>1, <2>2, <2>3, <2>4, VerbQuiet
<1> QED
  BY <1>3, <1>4

LEMMA RenameLookupQuiet ==
  ASSUME TypeOK, Typed, Shaped, QuietInv, NEW j \in Jobs, RenameLookup(j), History, Shaped'
  PROVE  QuietInv'
<1>1. /\ j \in Handlers /\ job[j].verb = "rename" /\ job[j].pc = "nlookup" /\ ~job[j].clean
      /\ job[j].id \in Names
  BY VerbOf, RenameLookupEffect DEF ReconcilePhases, TakingOff
<1>2. Fewer /\ plugged' = plugged /\ SameInner
  BY <1>1, FreesFacts, RenameLookupEffect DEF Fewer, SameHost
<1>3. CASE Stops(j)
  BY <1>1, <1>2, <1>3, StopQuiet DEF SameInner
<1>4. CASE ~Stops(j)
  <2>1. /\ Others(j) /\ job'[j].verb \in {"rename", "renamed"} /\ job'[j].id = job[j].id
        /\ job'[j].pc \in {"numount", "nstop"} /\ ~job'[j].clean
        /\ job'[j].verb = "rename" => alias' = alias
    BY <1>1, <1>4, RenameLookupEffect DEF Steps, Task, Flags, SameHost
  <2>2. Alone'
    BY <1>2, <2>1, AloneStep
  <2>3. ASSUME Quiet' PROVE VerbAt(j)'
    <3>1. SettledAt(j)'
      BY <1>1, <1>2, <2>1, <2>3, QuietBefore, SettledFrame DEF SameInner, Settled, SettledAt
    <3> QED
      BY <1>1, <1>2, <2>1, <2>3, <3>1, QuietBefore, OtherVerbAt DEF SameInner
  <2>4. ASSUME Quiet' PROVE SafeInv'
    BY <1>2, <2>1, <2>4, QuietBefore, SafeFrame DEF MountsNoMore, MountPhases, SameInner
  <2> QED
    BY <1>1, <2>1, <2>2, <2>3, <2>4, VerbQuiet
<1> QED
  BY <1>3, <1>4

LEMMA RenameUmountQuiet ==
  ASSUME TypeOK, Typed, Shaped, QuietInv, NEW j \in Jobs, RenameUmount(j), History, Shaped'
  PROVE  QuietInv'
<1>1. /\ j \in Handlers /\ job[j].verb = "rename" /\ job[j].pc = "numount" /\ ~job[j].clean
      /\ job[j].id \in Names
  BY VerbOf, RenameUmountEffect DEF ReconcilePhases, TakingOff
<1>2. Fewer /\ plugged' = plugged /\ SameInner
  BY <1>1, FreesFacts, RenameUmountEffect DEF Fewer, SameHost
<1>3. CASE Stops(j)
  BY <1>1, <1>2, <1>3, StopQuiet DEF SameInner
<1>4. CASE ~Stops(j)
  <2>1. /\ Others(j) /\ job'[j].verb \in {"rename", "renamed"} /\ job'[j].id = job[j].id
        /\ job'[j].pc \in {"nstop"} /\ ~job'[j].clean
        /\ job'[j].verb = "rename" => alias' = alias
    BY <1>1, <1>4, RenameUmountEffect DEF Steps, Task, Flags, SameHost
  <2>2. Alone'
    BY <1>2, <2>1, AloneStep
  <2>3. ASSUME Quiet' PROVE VerbAt(j)'
    <3>1. SettledAt(j)'
      BY <1>1, <1>2, <2>1, <2>3, QuietBefore, SettledFrame DEF SameInner, Settled, SettledAt
    <3> QED
      BY <1>1, <1>2, <2>1, <2>3, <3>1, QuietBefore, OtherVerbAt DEF SameInner
  <2>4. ASSUME Quiet' PROVE SafeInv'
    BY <1>2, <2>1, <2>4, QuietBefore, SafeFrame DEF MountsNoMore, MountPhases, SameInner
  <2> QED
    BY <1>1, <2>1, <2>2, <2>3, <2>4, VerbQuiet
<1> QED
  BY <1>3, <1>4

LEMMA RenameStopQuiet ==
  ASSUME TypeOK, Typed, Shaped, QuietInv, NEW j \in Jobs, RenameStop(j), History, Shaped'
  PROVE  QuietInv'
<1>1. /\ j \in Handlers /\ job[j].verb = "rename" /\ job[j].pc = "nstop" /\ ~job[j].clean
      /\ job[j].id \in Names
  BY VerbOf, RenameStopEffect DEF ReconcilePhases, TakingOff
<1>2. Fewer /\ plugged' = plugged /\ SameInner
  BY <1>1, FreesFacts, RenameStopEffect DEF Fewer, SameHost
<1>3. CASE Stops(j)
  BY <1>1, <1>2, <1>3, StopQuiet DEF SameInner
<1>4. CASE ~Stops(j)
  <2>1. /\ Others(j) /\ job'[j].verb \in {"rename", "renamed"} /\ job'[j].id = job[j].id
        /\ job'[j].pc \in {"nsave"} /\ ~job'[j].clean
        /\ job'[j].verb = "rename" => alias' = alias
    BY <1>1, <1>4, RenameStopEffect DEF Steps, Task, Flags, SameHost
  <2>2. Alone'
    BY <1>2, <2>1, AloneStep
  <2>3. ASSUME Quiet' PROVE VerbAt(j)'
    <3>1. SettledAt(j)'
      BY <1>1, <1>2, <2>1, <2>3, QuietBefore, SettledFrame DEF SameInner, Settled, SettledAt
    <3> QED
      BY <1>1, <1>2, <2>1, <2>3, <3>1, QuietBefore, OtherVerbAt DEF SameInner
  <2>4. ASSUME Quiet' PROVE SafeInv'
    BY <1>2, <2>1, <2>4, QuietBefore, SafeFrame DEF MountsNoMore, MountPhases, SameInner
  <2> QED
    BY <1>1, <2>1, <2>2, <2>3, <2>4, VerbQuiet
<1> QED
  BY <1>3, <1>4

LEMMA RenameSaveQuiet ==
  ASSUME TypeOK, Typed, Shaped, QuietInv, NEW j \in Jobs, RenameSave(j), History, Shaped'
  PROVE  QuietInv'
<1>1. /\ j \in Handlers /\ job[j].verb = "rename" /\ job[j].pc = "nsave" /\ ~job[j].clean
      /\ job[j].id \in Names
  BY VerbOf, RenameSaveEffect DEF ReconcilePhases, TakingOff
<1>2. Fewer /\ plugged' = plugged /\ SameInner
  BY <1>1, FreesFacts, RenameSaveEffect DEF Fewer, SameHost
<1>3. CASE Stops(j)
  BY <1>1, <1>2, <1>3, StopQuiet DEF SameInner
<1>4. CASE ~Stops(j)
  <2>1. /\ Others(j) /\ job'[j].verb \in {"rename", "renamed"} /\ job'[j].id = job[j].id
        /\ job'[j].pc \in {"read"} /\ ~job'[j].clean
        /\ job'[j].verb = "rename" => alias' = alias
    BY <1>1, <1>4, RenameSaveEffect DEF Steps, Task, Flags, SameHost
  <2>2. Alone'
    BY <1>2, <2>1, AloneStep
  <2>3. ASSUME Quiet' PROVE VerbAt(j)'
    <3>1. SettledAt(j)'
      BY <1>1, <1>2, <2>1, <2>3, QuietBefore, SettledFrame DEF SameInner, Settled, SettledAt
    <3> QED
      BY <1>1, <1>2, <2>1, <2>3, <3>1, QuietBefore, OtherVerbAt DEF SameInner
  <2>4. ASSUME Quiet' PROVE SafeInv'
    BY <1>2, <2>1, <2>4, QuietBefore, SafeFrame DEF MountsNoMore, MountPhases, SameInner
  <2> QED
    BY <1>1, <2>1, <2>2, <2>3, <2>4, VerbQuiet
<1> QED
  BY <1>3, <1>4

LEMMA RenameRestoreQuiet ==
  ASSUME TypeOK, Typed, Shaped, QuietInv, NEW j \in Jobs, RenameRestore(j), History, Shaped'
  PROVE  QuietInv'
<1>1. j \in Handlers /\ job[j].pc # "idle" /\ Stops(j) /\ Fewer
  BY VerbOf, RenameRestoreEffect DEF ReconcilePhases, SameHost, Fewer
<1> QED
  BY <1>1, RenameRestoreEffect, StopQuiet DEF SameHost, SameInner

LEMMA TickFacts ==
  ASSUME Typed, Shaped
  PROVE  /\ job["tick"].verb = "tick" /\ ~job["tick"].clean
         /\ job["tick"].pc \in {"idle"} \cup ReconcilePhases
         /\ job["tick"].pc \in MountPhases => job["tick"].auto /\ Target("tick") = job["tick"].at
<1>1. "tick" \in Jobs /\ At("tick", job["tick"])
  BY JobFacts DEF Shaped, JobsInv
<1> QED
  BY <1>1 DEF At, PhasesOf, ReconcilePhases, TakingOff, MountPhases, Target

LEMMA Uncommitted ==
  ASSUME Typed, Shaped, NEW j \in Jobs, job[j].pc \in ReconcilePhases
  PROVE  ~job[j].clean
<1>1. At(j, job[j])
  BY DEF Shaped, JobsInv
<1> QED
  BY <1>1 DEF At, ReconcilePhases, TakingOff

\* A verb sees that the tick moved on and that nothing came up.
LEMMA TickStill ==
  ASSUME Typed, Shaped, NEW h \in Handlers, job'[h] = job[h], job[h].pc # "idle", VerbAt(h),
         drives' = drives, alias' = alias, plugged' = plugged, held' = held, removal' = removal,
         Fewer, Others("tick"), MountsNoMore("tick"), ProbeAt(h)'
  PROVE  VerbAt(h)'
<1>1. \A k \in Mounting' : k \in Mounting /\ Target(k)' = Target(k)
  BY JobFacts, OtherMounts DEF MountsNoMore, Mounting, MountPhases
<1>2. \A n \in Live' : n \in Live
  BY DEF Live, Fewer
<1>3. SettledAt(h)'
  BY DEF VerbAt, SettledAt, Settled, Rows, CleanRow, Id
<1>4. TakeOffAt(h)'
  BY <1>1, <1>2 DEF VerbAt, TakeOffAt, CleanRow
<1>5. LookupAt(h)'
  BY <1>2 DEF VerbAt, LookupAt, CleanRow
<1>6. job[h].id \in Names
  BY JobFacts DEF Shaped, JobsInv, At
<1>7. RemoveAt(h)'
  BY <1>1, <1>6 DEF VerbAt, RemoveAt, Fewer
<1> QED
  BY <1>3, <1>4, <1>5, <1>7 DEF VerbAt

\* A verb that reconciles and has taken nothing off.
LEMMA ReconcileVerbAt ==
  ASSUME QuietInv, Quiet, NEW j \in Handlers, ~job'[j].clean, Task(job'[j], job[j]),
         job'[j].pc \notin {"rretract", "rdrop", "rsafe"}, removal' = removal \/ removal' = None,
         SettledAt(j)', ProbeAt(j)', LookupAt(j)'
  PROVE  VerbAt(j)'
  BY DEF QuietInv, VerbAt, TakeOffAt, RemoveAt, Task

\* A step of a reconcile that leaves registry, holds and banner alone.
LEMMA StillQuiet ==
  ASSUME TypeOK, Typed, Shaped, QuietInv, History, Shaped', NEW j \in Jobs, Others(j),
         job[j].pc \in ReconcilePhases, plugged' = plugged, alias' = alias, SameInner, Fewer,
         MountsNoMore(j), job'[j].pc = "swap" => job'[j].there = plugged,
         job'[j].pc \in {"card", "set"} => job[j].pc \in {"card", "set"},
         job'[j].pc \notin {"rretract", "rdrop", "rsafe"},
         j \in Handlers =>
           /\ Task(job'[j], job[j]) /\ ~job'[j].clean /\ (Settled(j)' => Settled(j))
           /\ job'[j].pc \in {"force", "retract", "rlookup"} => job[j].pc \in {"force", "retract"},
         Quiet' => \A h \in Handlers : ProbeAt(h)'
  PROVE  QuietInv'
<1>1. Alone'
  BY AloneStep
<1>2. ASSUME Quiet' PROVE SafeInv'
  BY <1>2, QuietBefore, SafeFrame DEF SameInner
<1>3. CASE j \in Handlers
  <2>1. ASSUME Quiet' PROVE VerbAt(j)'
    <3>1. Quiet /\ LookupAt(j)
      BY <1>3, <2>1, QuietBefore DEF QuietInv, VerbAt
    <3>2. SettledAt(j)'
      BY <1>3, <3>1, SettledFrame DEF SameInner
    <3>3. LookupAt(j)'
      BY <1>3, <3>1 DEF LookupAt, Task, Live, Fewer, CleanRow, SameInner
    <3> QED
      BY <1>3, <2>1, <3>1, <3>2, <3>3, ReconcileVerbAt DEF SameInner
  <2> QED
    BY <1>1, <1>2, <1>3, <2>1, VerbQuiet DEF ReconcilePhases
<1>4. CASE j = "tick"
  <2>1. ASSUME Quiet', Quiet, NEW h \in Handlers, job'[h] = job[h], VerbAt(h), job[h].pc # "idle"
        PROVE  VerbAt(h)'
    BY <1>4, <2>1, TickStill DEF SameInner
  <2> QED
    BY <1>1, <1>2, <1>4, <2>1, TickQuiet
<1> QED
  BY <1>3, <1>4 DEF Jobs

LEMMA ReadQuiet ==
  ASSUME TypeOK, Typed, Shaped, QuietInv, NEW j \in Jobs, Read(j), History, Shaped'
  PROVE  QuietInv'
<1>1. /\ job[j].pc \in ReconcilePhases /\ Others(j) /\ SameHost /\ SameInner /\ Fewer
      /\ job'[j].pc = "swap" /\ job'[j].there = plugged /\ ~job'[j].clean /\ MountsNoMore(j)
  BY ReadEffect, Uncommitted
     DEF ReconcilePhases, SameHost, Fewer, Flags, MountsNoMore, MountPhases
<1>2. ASSUME Quiet', NEW h \in Handlers PROVE ProbeAt(h)'
  <2>1. ProbeAt(h) /\ Quiet
    BY <1>2, QuietBefore DEF QuietInv, VerbAt
  <2>2. h \in Jobs /\ None \notin Names /\ h # "tick" /\ "tick" \in Jobs /\ Live' = Live /\ Live \subseteq Names
    BY <1>1, JobFacts, NamesAssumption DEF SameHost, Live
  <2>3. CASE h = j
    BY <1>1, <2>2, <2>3, ReadEffect DEF ProbeAt
  <2>4. CASE h # j /\ j = "tick"
    <3>1. /\ Live # {} => job'["tick"].at # None
          /\ job["tick"].pc = "read" /\ job'["tick"].pc = "swap"
      BY <2>2, <2>4, ReadEffect
    <3> QED
      BY <1>1, <2>1, <2>2, <2>4, <3>1 DEF ProbeAt, Others, SameInner, CleanRow
  <2>5. CASE h # j /\ j # "tick"
    BY <1>1, <2>1, <2>2, <2>5 DEF ProbeAt, Others, SameInner, CleanRow
  <2> QED
    BY <2>3, <2>4, <2>5
<1>3. Task(job'[j], job[j]) /\ ~Settled(j)'
  BY <1>1, ReadEffect DEF Settled
<1> QED
  BY <1>1, <1>2, <1>3, StillQuiet DEF SameHost

\* Steps after which the tick tells the same about a mount.
LEMMA ProbeFrame ==
  ASSUME Typed, QuietInv, Quiet, NEW j \in Jobs, Others(j), Fewer, drives' = drives,
         job'[j].pc # "swap", job'[j].pc # "mount",
         job[j].pc \in {"card", "set"} => job'[j].pc \in {"card", "set"} /\ job'[j].at = job[j].at,
         NEW h \in Handlers
  PROVE  ProbeAt(h)'
<1>1. ProbeAt(h) /\ h \in Jobs /\ "tick" \in Jobs /\ h # "tick"
  BY JobFacts DEF QuietInv, VerbAt
<1>2. \A n \in Live' : n \in Live
  BY DEF Live, Fewer
<1> QED
  BY <1>1, <1>2 DEF ProbeAt, Others, CleanRow

LEMMA ReadFailsQuiet ==
  ASSUME TypeOK, Typed, Shaped, QuietInv, NEW j \in Jobs, ReadFails(j), History, Shaped'
  PROVE  QuietInv'
<1>1. /\ job[j].pc = "read" /\ Stops(j) /\ Others(j) /\ job'[j].pc = "idle" /\ SameHost
      /\ SameInner /\ Fewer
  BY ReadFailsEffect, JobFacts DEF SameHost, Fewer, Stops
<1>2. CASE j \in Handlers
  BY <1>1, <1>2, StopQuiet DEF SameHost, SameInner
<1>3. CASE j \notin Handlers
  <2>1. ASSUME Quiet', NEW h \in Handlers PROVE ProbeAt(h)'
    BY <1>1, <2>1, QuietBefore, ProbeFrame DEF SameInner
  <2> QED
    BY <1>1, <1>3, <2>1, StillQuiet DEF SameHost, ReconcilePhases, MountsNoMore, MountPhases
<1> QED
  BY <1>2, <1>3

LEMMA ForceGoneFewer ==
  ASSUME Typed, Shaped, NEW j \in Jobs, ForceGone(j)
  PROVE  plugged' = plugged /\ alias' = alias /\ SameInner /\ Fewer
<1>1. job[j].pc = "force" /\ job[j].point \in Names
  BY ForceGoneEffect DEF Shaped, JobsInv, At
<1> QED
  BY <1>1, ForceGoneEffect, FreesFacts DEF Fewer, Frees

LEMMA ForceGoneQuiet ==
  ASSUME TypeOK, Typed, Shaped, QuietInv, NEW j \in Jobs, ForceGone(j), History, Shaped'
  PROVE  QuietInv'
<1>1. /\ job[j].pc = "force" /\ Others(j) /\ Task(job'[j], job[j]) /\ ~job'[j].clean
      /\ job'[j].pc \in {"retract"}
  BY ForceGoneEffect, Uncommitted DEF ReconcilePhases, Steps, Flags, Registers, AfterRefresh
<1>2. plugged' = plugged /\ alias' = alias /\ SameInner /\ Fewer
  BY ForceGoneFewer
<1>3. MountsNoMore(j)
  BY <1>1, ForceGoneEffect DEF MountsNoMore, MountPhases, Mounting, Target, Registers, Task, Flags
<1>4. ASSUME Quiet', NEW h \in Handlers PROVE ProbeAt(h)'
  BY <1>1, <1>2, <1>4, QuietBefore, ProbeFrame DEF SameInner
<1>5. Settled(j)' => Settled(j)
  BY <1>1 DEF Settled, Task
<1> QED
  BY <1>1, <1>2, <1>3, <1>4, <1>5, StillQuiet DEF ReconcilePhases

LEMMA RetractQuiet ==
  ASSUME TypeOK, Typed, Shaped, QuietInv, NEW j \in Jobs, Retract(j), History, Shaped'
  PROVE  QuietInv'
<1>1. /\ job[j].pc = "retract" /\ Others(j) /\ Task(job'[j], job[j]) /\ ~job'[j].clean
      /\ job'[j].pc \in {"auto", "rlookup"}
  BY RetractEffect, Uncommitted DEF ReconcilePhases, Steps, Flags, Registers, AfterRefresh
<1>2. plugged' = plugged /\ alias' = alias /\ SameInner /\ Fewer
  BY RetractEffect DEF SameHost, Fewer
<1>3. MountsNoMore(j)
  BY <1>1, RetractEffect DEF MountsNoMore, MountPhases, Mounting, Target, Registers, Task, Flags
<1>4. ASSUME Quiet', NEW h \in Handlers PROVE ProbeAt(h)'
  BY <1>1, <1>2, <1>4, QuietBefore, ProbeFrame DEF SameInner
<1>5. Settled(j)' => Settled(j)
  BY <1>1 DEF Settled, Task
<1> QED
  BY <1>1, <1>2, <1>3, <1>4, <1>5, StillQuiet DEF ReconcilePhases

LEMMA CardQuiet ==
  ASSUME TypeOK, Typed, Shaped, QuietInv, NEW j \in Jobs, Card(j), History, Shaped'
  PROVE  QuietInv'
<1>1. /\ job[j].pc = "card" /\ Others(j) /\ Task(job'[j], job[j]) /\ ~job'[j].clean
      /\ job'[j].pc \in {"set"} /\ job'[j].at = job[j].at
  BY CardEffect, Uncommitted DEF ReconcilePhases, Steps, Flags, Registers, AfterRefresh
<1>2. plugged' = plugged /\ alias' = alias /\ SameInner /\ Fewer
  BY CardEffect DEF SameHost, Fewer
<1>3. MountsNoMore(j)
  BY <1>1, CardEffect DEF MountsNoMore, MountPhases, Mounting, Target, Registers, Task, Flags
<1>4. ASSUME Quiet', NEW h \in Handlers PROVE ProbeAt(h)'
  BY <1>1, <1>2, <1>4, QuietBefore, ProbeFrame DEF SameInner
<1>5. Settled(j)' => Settled(j)
  BY <1>1 DEF Settled, Task
<1> QED
  BY <1>1, <1>2, <1>3, <1>4, <1>5, StillQuiet DEF ReconcilePhases

LEMMA AdoptCardQuiet ==
  ASSUME TypeOK, Typed, Shaped, QuietInv, NEW j \in Jobs, AdoptCard(j), History, Shaped'
  PROVE  QuietInv'
<1>1. /\ job[j].pc = "acard" /\ Others(j) /\ Task(job'[j], job[j]) /\ ~job'[j].clean
      /\ job'[j].pc \in {"aset"}
  BY AdoptCardEffect, Uncommitted DEF ReconcilePhases, Steps, Flags, Registers, AfterRefresh
<1>2. plugged' = plugged /\ alias' = alias /\ SameInner /\ Fewer
  BY AdoptCardEffect DEF SameHost, Fewer
<1>3. MountsNoMore(j)
  BY <1>1, AdoptCardEffect DEF MountsNoMore, MountPhases, Mounting, Target, Registers, Task, Flags
<1>4. ASSUME Quiet', NEW h \in Handlers PROVE ProbeAt(h)'
  BY <1>1, <1>2, <1>4, QuietBefore, ProbeFrame DEF SameInner
<1>5. Settled(j)' => Settled(j)
  BY <1>1 DEF Settled, Task
<1> QED
  BY <1>1, <1>2, <1>3, <1>4, <1>5, StillQuiet DEF ReconcilePhases


LEMMA AdoptQuiet ==
  ASSUME TypeOK, Typed, Shaped, QuietInv, NEW j \in Jobs, Adopt(j), History, Shaped'
  PROVE  QuietInv'
<1>1. job[j].pc = "adopt" /\ SameHost /\ SameInner /\ Fewer /\ Others(j) /\ ~job[j].clean
  BY AdoptEffect, Uncommitted DEF SameHost, Fewer, Reconciled, Stops, ReconcilePhases
<1>2. CASE Stops(j) /\ j \in Handlers
  BY <1>1, <1>2, StopQuiet DEF SameHost, SameInner
<1>3. CASE ~(Stops(j) /\ j \in Handlers)
  <2>1. job'[j].pc \in {"idle", "acard", "aset", "mlookup", "flookup", "nlookup", "restore"}
    BY AdoptEffect, JobFacts DEF Reconciled, NextPhase, Stops
  <2>2. j \in Handlers => Task(job'[j], job[j]) /\ ~job'[j].clean /\ (Settled(j)' => Settled(j))
    BY <1>1, <1>3, AdoptEffect DEF Reconciled, Task, Flags, Settled
  <2>3. ASSUME Quiet', NEW h \in Handlers PROVE ProbeAt(h)'
    BY <1>1, <2>1, <2>3, QuietBefore, ProbeFrame DEF SameInner
  <2> QED
    BY <1>1, <2>1, <2>2, <2>3, StillQuiet DEF ReconcilePhases, MountsNoMore, MountPhases, SameHost
<1> QED
  BY <1>2, <1>3

\* A verb in the middle of taking a mounted row off has refreshed before.
LEMMA TakingOffSettled ==
  ASSUME Typed, Shaped, NEW h \in Handlers, job[h].pc \in TakingOff
  PROVE  Settled(h)
  BY VerbOf, JobFacts DEF TakingOff, ReconcilePhases, Settled

\* Only rows of the id that are not mounted are candidates.
LEMMA NoCandidates ==
  ASSUME Typed, Shaped, QuietInv, Quiet, NEW h \in Handlers, job[h].clean, job[h].pc \in TakingOff
  PROVE  Candidates = {}
<1>1. SettledAt(h) /\ TakeOffAt(h) /\ Settled(h)
  BY TakingOffSettled DEF QuietInv, VerbAt
<1>2. \A n \in Rows : n = job[h].id /\ CleanRow(n)
  <2>1. CleanRow(job[h].id) /\ job[h].id \in Names
    BY <1>1, VerbOf, JobFacts DEF TakeOffAt, TakingOff, ReconcilePhases
  <2> QED
    BY <1>1, <2>1 DEF SettledAt, Rows, CleanRow
<1> QED
  BY <1>2 DEF Candidates, Rows, CleanRow

LEMMA AutoMountQuiet ==
  ASSUME TypeOK, Typed, Shaped, QuietInv, NEW j \in Jobs, AutoMount(j), History, Shaped'
  PROVE  QuietInv'
<1>1. job[j].pc = "auto" /\ SameHost /\ SameInner /\ Fewer /\ ~job[j].clean
  BY AutoMountEffect, Uncommitted DEF SameHost, Fewer, ReconcilePhases
<1>2. CASE Steps(j, "adopt")
  <2>1. /\ Others(j) /\ Task(job'[j], job[j]) /\ ~job'[j].clean /\ job'[j].pc = "adopt"
        /\ (Settled(j)' => Settled(j)) /\ MountsNoMore(j)
    BY <1>1, <1>2 DEF Steps, Flags, Task, Settled, MountsNoMore, MountPhases
  <2>2. ASSUME Quiet', NEW h \in Handlers PROVE ProbeAt(h)'
    BY <1>1, <2>1, <2>2, QuietBefore, ProbeFrame DEF SameInner
  <2> QED
    BY <1>1, <2>1, <2>2, StillQuiet DEF SameHost, ReconcilePhases
<1>3. CASE ~Steps(j, "adopt")
  <2>1. /\ Others(j) /\ Task(job'[j], job[j]) /\ ~job'[j].clean /\ job'[j].pc = "mount"
        /\ Target(j)' = job'[j].at /\ job'[j].at \in Candidates
    BY <1>1, <1>3, AutoMountEffect DEF Target
  <2>2. Alone'
    BY <1>1, <2>1, AloneStep DEF SameHost
  <2>3. \A k \in Mounting' : Target(k)' \notin held \/ (k \in Mounting /\ Target(k)' = Target(k))
    BY <2>1, OtherMounts DEF Candidates
  <2>4. ASSUME Quiet' PROVE SafeInv'
    BY <1>1, <2>3, <2>4, QuietBefore DEF QuietInv, SafeInv, SameHost, SameInner
  <2>5. CASE j \in Handlers
    <3>1. ASSUME Quiet' PROVE VerbAt(j)'
      <4>1. SettledAt(j)'
        BY <1>1, <2>1, <2>5, <3>1, QuietBefore, SettledFrame
           DEF SameHost, SameInner, Settled, Task
      <4> QED
        BY <1>1, <2>1, <2>5, <3>1, <4>1, QuietBefore, ReconcileVerbAt
           DEF ProbeAt, LookupAt, SameInner
    <3> QED
      BY <1>1, <2>1, <2>2, <2>4, <2>5, <3>1, VerbQuiet
  <2>6. CASE j = "tick"
    <3>1. ASSUME Quiet', Quiet, NEW h \in Handlers, job'[h] = job[h], VerbAt(h), job[h].pc # "idle"
          PROVE  VerbAt(h)'
      <4>1. SettledAt(h)'
        BY <1>1, <3>1, SettledFrame DEF SameHost, SameInner, Settled
      <4>2. ~(job[h].clean /\ job[h].pc \in TakingOff)
        BY <2>1, <3>1, NoCandidates
      <4>3. ProbeAt(h)'
        <5>1. \A n \in Live : n \in Candidates => drives[n] # None /\ ~CleanRow(n)
          BY DEF Candidates, CleanRow
        <5> QED
          BY <1>1, <2>1, <2>6, <3>1, <5>1 DEF VerbAt, ProbeAt, Live, SameHost, SameInner, CleanRow
      <4>4. RemoveAt(h)'
        BY <1>1, <2>3, <3>1 DEF VerbAt, RemoveAt, SameHost, SameInner
      <4>5. LookupAt(h)'
        BY <1>1, <3>1 DEF VerbAt, LookupAt, SameHost, SameInner, Live, CleanRow
      <4> QED
        BY <3>1, <4>1, <4>2, <4>3, <4>4, <4>5 DEF VerbAt, TakeOffAt
    <3> QED
      BY <2>1, <2>2, <2>4, <2>6, <3>1, TickQuiet
  <2> QED
    BY <2>5, <2>6 DEF Jobs
<1> QED
  BY <1>2, <1>3

\* A mount under way keeps verbs from taking rows off.
LEMMA MountsExclude ==
  ASSUME Typed, Shaped, QuietInv, Quiet, NEW h \in Handlers, Mounting # {}
  PROVE  /\ ~(job[h].clean /\ job[h].pc \in TakingOff)
         /\ ~(job[h].verb = "remove" /\ job[h].pc \in {"force", "retract", "rlookup"})
         /\ job[h].pc \notin {"rretract", "rdrop"}
<1>1. TakeOffAt(h) /\ Exposed = {}
  BY DEF QuietInv, VerbAt, Quiet
<1> QED
  BY <1>1 DEF TakeOffAt, TakingOff, Exposed

LEMMA MountQuiet ==
  ASSUME TypeOK, Typed, Shaped, QuietInv, NEW j \in Jobs, Mount(j), History, Shaped'
  PROVE  QuietInv'
<1> DEFINE n == Target(j)
<1>1. /\ job[j].pc = "mount" /\ n \in Names /\ plugged' = plugged /\ alias' = alias
      /\ held' = held /\ removal' = removal /\ j \in Mounting /\ ~job[j].clean
  BY MountEffect, Uncommitted DEF Mounting, ReconcilePhases
<1>2. CASE plugged /\ mounts' = [mounts EXCEPT ![n] = "live"] /\ Steps(j, "card") /\ drives' = drives
  <2>1. /\ Others(j) /\ Task(job'[j], job[j]) /\ ~job'[j].clean /\ job'[j].pc = "card"
        /\ Target(j)' = n /\ job'[j].at = job[j].at
    BY <1>1, <1>2 DEF Steps, Task, Flags, Place, Target
  <2>2. \A m \in Names : m # n => mounts'[m] = mounts[m]
    BY <1>2 DEF Typed
  <2>3. Alone'
    BY <1>1, <1>2, <2>1, AloneStep
  <2>4. \A k \in Mounting' : k \in Mounting /\ Target(k)' = Target(k)
    BY <1>1, <2>1, OtherMounts
  <2>5. ASSUME Quiet' PROVE SafeInv'
    <3>1. SafeInv /\ Quiet
      BY <2>5, QuietBefore DEF QuietInv
    <3> QED
      BY <1>1, <2>2, <2>4, <3>1 DEF SafeInv, Typed
  <2>6. CASE j \in Handlers
    <3>1. ASSUME Quiet' PROVE VerbAt(j)'
      <4>1. SettledAt(j)'
        BY <1>1, <1>2, <2>1, <2>6, <3>1, QuietBefore, SettledFrame DEF Settled, Task
      <4> QED
        BY <1>1, <2>1, <2>6, <3>1, <4>1, QuietBefore, ReconcileVerbAt DEF ProbeAt, LookupAt
    <3> QED
      BY <1>1, <2>1, <2>3, <2>5, <2>6, <3>1, VerbQuiet
  <2>7. CASE j = "tick"
    <3>1. ASSUME Quiet', Quiet, NEW h \in Handlers, job'[h] = job[h], VerbAt(h), job[h].pc # "idle"
          PROVE  VerbAt(h)'
      <4>1. SettledAt(h)'
        BY <1>1, <1>2, <3>1, SettledFrame DEF Settled
      <4>2. /\ ~(job[h].clean /\ job[h].pc \in TakingOff)
            /\ ~(job[h].verb = "remove" /\ job[h].pc \in {"force", "retract", "rlookup"})
            /\ job[h].pc \notin {"rretract", "rdrop"}
        BY <1>1, <3>1, MountsExclude
      <4>3. ProbeAt(h)'
        <5>1. \A m \in Live' : m = n \/ m \in Live
          BY <2>2 DEF Live
        <5>2. n = job["tick"].at
          BY <1>1, <2>7, TickFacts DEF MountPhases
        <5> QED
          BY <1>1, <1>2, <2>1, <2>7, <3>1, <5>1, <5>2 DEF VerbAt, ProbeAt, CleanRow
      <4>4. RemoveAt(h)'
        <5>1. job[h].id \in Names
          BY <3>1, JobFacts DEF Shaped, JobsInv, At
        <5> QED
          BY <1>1, <2>2, <2>4, <3>1, <4>2, <5>1 DEF VerbAt, RemoveAt
      <4> QED
        BY <3>1, <4>1, <4>2, <4>3, <4>4 DEF VerbAt, TakeOffAt, LookupAt
    <3> QED
      BY <2>1, <2>3, <2>5, <2>7, <3>1, TickQuiet
  <2> QED
    BY <2>6, <2>7 DEF Jobs
<1>3. CASE mounts' = mounts /\ (Marks(n, "failed_other") \/ drives' = drives) /\ Attempted(j)
  <2>1. Others(j) /\ job'[j].pc \in {"adopt", "idle"} /\ Fewer /\ MountsNoMore(j)
    BY <1>3, JobFacts DEF Attempted, Stops, Fewer, MountsNoMore, MountPhases
  <2>2. Alone'
    BY <1>1, <2>1, AloneStep
  <2>3. \A k \in Mounting' : k \in Mounting /\ Target(k)' = Target(k)
    BY <2>1, OtherMounts DEF Mounting
  <2>4. ASSUME Quiet' PROVE SafeInv'
    BY <1>1, <2>1, <2>4, QuietBefore, SafeFrame
  <2>5. ASSUME NEW h \in Handlers, Quiet, SettledAt(h), Settled(h)' => Settled(h)
        PROVE  SettledAt(h)'
    <3>1. \A m \in Rows' : m \in Rows /\ (m # n => drives'[m] = drives[m])
                           /\ (m = n => \/ drives'[m].class = "failed_other"
                                       \/ drives'[m] = drives[m])
      BY <1>1, <1>3 DEF Marks, Rows
    <3> QED
      BY <1>1, <2>5, <3>1 DEF SettledAt, CleanRow, Id
  <2>6. CASE j \in Handlers
    <3>1. CASE Stops(j)
      BY <1>1, <2>1, <2>6, <3>1, StopQuiet
    <3>2. CASE ~Stops(j)
      <4>1. Task(job'[j], job[j]) /\ ~job'[j].clean /\ job'[j].pc = "adopt"
        BY <1>1, <1>3, <3>2 DEF Attempted
      <4>2. ASSUME Quiet' PROVE VerbAt(j)'
        <5>1. Quiet /\ SettledAt(j)
          BY <2>6, <4>2, QuietBefore DEF QuietInv, VerbAt
        <5>2. SettledAt(j)'
          BY <1>1, <2>5, <2>6, <4>1, <5>1 DEF Settled, Task
        <5> QED
          BY <1>1, <2>6, <4>1, <5>1, <5>2, ReconcileVerbAt DEF ProbeAt, LookupAt
      <4> QED
        BY <1>1, <2>1, <2>2, <2>4, <2>6, <4>2, VerbQuiet
    <3> QED
      BY <3>1, <3>2
  <2>7. CASE j = "tick"
    <3>1. ASSUME Quiet', Quiet, NEW h \in Handlers, job'[h] = job[h], VerbAt(h), job[h].pc # "idle"
          PROVE  VerbAt(h)'
      <4>1. SettledAt(h)'
        BY <2>5, <3>1 DEF Settled, VerbAt
      <4>2. /\ ~(job[h].clean /\ job[h].pc \in TakingOff)
            /\ ~(job[h].verb = "remove" /\ job[h].pc \in {"force", "retract", "rlookup"})
        BY <1>1, <3>1, MountsExclude
      <4>3. ProbeAt(h)'
        <5>1. n = job["tick"].at
          BY <1>1, <2>7, TickFacts DEF MountPhases
        <5>2. \A m \in Names : m # n => drives'[m] = drives[m]
          BY <1>3 DEF Marks
        <5> QED
          BY <1>1, <1>3, <2>1, <2>7, <3>1, <5>1, <5>2 DEF VerbAt, ProbeAt, CleanRow, Live
      <4>4. RemoveAt(h)'
        BY <1>1, <1>3, <2>3, <3>1 DEF VerbAt, RemoveAt
      <4> QED
        BY <3>1, <4>1, <4>2, <4>3, <4>4 DEF VerbAt, TakeOffAt, LookupAt
    <3> QED
      BY <2>1, <2>2, <2>4, <2>7, <3>1, TickQuiet
  <2> QED
    BY <2>6, <2>7 DEF Jobs
<1> QED
  BY <1>2, <1>3, MountEffect

LEMMA SetMountedQuiet ==
  ASSUME TypeOK, Typed, Shaped, QuietInv, NEW j \in Jobs, SetMounted(j), History, Shaped'
  PROVE  QuietInv'
<1> DEFINE n == Target(j)
<1>1. /\ job[j].pc = "set" /\ n \in Names /\ SameHost /\ Records(n, job[j].lib) /\ Attempted(j)
      /\ held' = held /\ removal' = removal /\ j \in Mounting /\ ~job[j].clean
  BY SetMountedEffect, Uncommitted DEF Mounting, ReconcilePhases
<1>2. Others(j) /\ job'[j].pc \in {"adopt", "idle"} /\ Fewer /\ MountsNoMore(j)
  BY <1>1, JobFacts DEF Attempted, Stops, Fewer, SameHost, MountsNoMore, MountPhases
<1>3. Alone'
  BY <1>1, <1>2, AloneStep DEF SameHost
<1>4. \A k \in Mounting' : k \in Mounting /\ Target(k)' = Target(k)
  BY <1>2, OtherMounts DEF Mounting
<1>5. ASSUME Quiet' PROVE SafeInv'
  BY <1>1, <1>2, <1>5, QuietBefore, SafeFrame
<1>6. ASSUME NEW h \in Handlers, Quiet, SettledAt(h), Settled(h)' => Settled(h)
      PROVE  SettledAt(h)'
  <2>1. plugged
    BY <1>1, <1>6 DEF QuietInv, Alone, Quiet
  <2>2. \A m \in Rows' : m \in Rows /\ (m # n => drives'[m] = drives[m])
                         /\ (m = n => drives'[m].class = "clean")
    BY <1>1 DEF Records, Rows
  <2> QED
    BY <1>1, <1>6, <2>1, <2>2 DEF SettledAt, CleanRow, Id, SameHost
<1>7. CASE j \in Handlers
  <2>1. CASE Stops(j)
    BY <1>1, <1>2, <1>7, <2>1, StopQuiet DEF SameHost
  <2>2. CASE ~Stops(j)
    <3>1. Task(job'[j], job[j]) /\ ~job'[j].clean /\ job'[j].pc = "adopt"
      BY <1>1, <2>2 DEF Attempted
    <3>2. ASSUME Quiet' PROVE VerbAt(j)'
      <4>1. Quiet /\ SettledAt(j)
        BY <1>7, <3>2, QuietBefore DEF QuietInv, VerbAt
      <4>2. SettledAt(j)'
        BY <1>1, <1>6, <1>7, <3>1, <4>1 DEF Settled, Task
      <4> QED
        BY <1>1, <1>7, <3>1, <4>1, <4>2, ReconcileVerbAt DEF ProbeAt, LookupAt
    <3> QED
      BY <1>1, <1>2, <1>3, <1>5, <1>7, <3>2, VerbQuiet
  <2> QED
    BY <2>1, <2>2
<1>8. CASE j = "tick"
  <2>1. ASSUME Quiet', Quiet, NEW h \in Handlers, job'[h] = job[h], VerbAt(h), job[h].pc # "idle"
        PROVE  VerbAt(h)'
    <3>1. SettledAt(h)'
      BY <1>6, <2>1 DEF Settled, VerbAt
    <3>2. /\ ~(job[h].clean /\ job[h].pc \in TakingOff)
          /\ ~(job[h].verb = "remove" /\ job[h].pc \in {"force", "retract", "rlookup"})
      BY <1>1, <2>1, MountsExclude
    <3>3. ProbeAt(h)'
      <4>1. n = job["tick"].at
        BY <1>1, <1>8, TickFacts DEF MountPhases
      <4>2. /\ \A m \in Names : m # n => drives'[m] = drives[m]
            /\ drives'[n] = None \/ drives'[n].class = "clean"
        BY <1>1 DEF Records
      <4> QED
        BY <1>1, <1>2, <1>8, <2>1, <4>1, <4>2 DEF VerbAt, ProbeAt, CleanRow, Live, SameHost
    <3>4. RemoveAt(h)'
      BY <1>1, <1>4, <2>1 DEF VerbAt, RemoveAt, SameHost
    <3> QED
      BY <2>1, <3>1, <3>2, <3>3, <3>4 DEF VerbAt, TakeOffAt, LookupAt
  <2> QED
    BY <1>2, <1>3, <1>5, <1>8, <2>1, TickQuiet
<1> QED
  BY <1>7, <1>8 DEF Jobs

LEMMA AdoptSetQuiet ==
  ASSUME TypeOK, Typed, Shaped, QuietInv, NEW j \in Jobs, AdoptSet(j), History, Shaped'
  PROVE  QuietInv'
<1>1. /\ job[j].pc = "aset" /\ SameHost /\ Reconciled(j) /\ held' = held /\ removal' = removal
      /\ ~job[j].clean
  BY AdoptSetEffect, Uncommitted DEF ReconcilePhases
<1>2. \A m \in Names : (drives'[m] = None <=> drives[m] = None) /\ drives'[m].class = drives[m].class
  BY AdoptSetEffect DEF Cards
<1>3. /\ Others(j) /\ Fewer /\ MountsNoMore(j)
      /\ job'[j].pc \in {"idle", "mlookup", "flookup", "nlookup", "restore"}
  BY <1>1, JobFacts DEF Reconciled, NextPhase, Stops, Fewer, SameHost, MountsNoMore, MountPhases
<1>4. Alone'
  BY <1>1, <1>3, AloneStep DEF SameHost
<1>5. \A k \in Mounting' : k \in Mounting /\ Target(k)' = Target(k)
  BY <1>3, OtherMounts DEF Mounting
<1>6. ASSUME Quiet' PROVE SafeInv'
  BY <1>1, <1>3, <1>6, QuietBefore, SafeFrame
<1>7. \A m \in Names : CleanRow(m)' <=> CleanRow(m)
  BY <1>2 DEF CleanRow
<1>8. ASSUME NEW h \in Handlers, Quiet, SettledAt(h), Settled(h)' => Settled(h)
      PROVE  SettledAt(h)'
  BY <1>1, <1>2, <1>7, <1>8 DEF SettledAt, Rows, Id, SameHost
<1>9. CASE j \in Handlers
  <2>1. CASE Stops(j)
    BY <1>1, <1>3, <1>9, <2>1, StopQuiet DEF SameHost
  <2>2. CASE ~Stops(j)
    <3>1. Task(job'[j], job[j]) /\ ~job'[j].clean /\ (Settled(j)' => Settled(j))
          /\ job'[j].pc \in {"mlookup", "flookup", "nlookup", "restore"}
      BY <1>1, <2>2 DEF Reconciled, NextPhase, Flags, Settled, Task
    <3>2. ASSUME Quiet' PROVE VerbAt(j)'
      <4>1. Quiet /\ SettledAt(j)
        BY <1>9, <3>2, QuietBefore DEF QuietInv, VerbAt
      <4>2. SettledAt(j)'
        BY <1>8, <1>9, <3>1, <4>1
      <4> QED
        BY <1>1, <1>9, <3>1, <4>1, <4>2, ReconcileVerbAt DEF ProbeAt, LookupAt
    <3> QED
      BY <1>1, <1>3, <1>4, <1>6, <1>9, <3>2, VerbQuiet
  <2> QED
    BY <2>1, <2>2
<1>10. CASE j = "tick"
  <2>1. ASSUME Quiet', Quiet, NEW h \in Handlers, job'[h] = job[h], VerbAt(h), job[h].pc # "idle"
        PROVE  VerbAt(h)'
    <3>1. SettledAt(h)'
      BY <1>8, <2>1 DEF Settled, VerbAt
    <3>2. Live' = Live /\ job[h].id \in Names
      BY <1>1, <2>1, JobFacts DEF Live, SameHost, Shaped, JobsInv, At
    <3>3. TakeOffAt(h)' /\ LookupAt(h)'
      BY <1>2, <1>5, <1>7, <2>1, <3>2 DEF VerbAt, TakeOffAt, LookupAt, Live
    <3>4. ProbeAt(h)'
      BY <1>1, <1>2, <1>3, <1>7, <1>10, <2>1, <3>2 DEF VerbAt, ProbeAt, Live
    <3>5. RemoveAt(h)'
      BY <1>1, <1>5, <2>1 DEF VerbAt, RemoveAt, SameHost
    <3> QED
      BY <3>1, <3>3, <3>4, <3>5 DEF VerbAt
  <2> QED
    BY <1>3, <1>4, <1>6, <1>10, <2>1, TickQuiet
<1> QED
  BY <1>9, <1>10 DEF Jobs

\* A probe that is not stale keeps a mounted row, and shows mounts as they are.
LEMMA FreshProbe ==
  ASSUME Typed, Shaped, NEW j \in Jobs, ~Stale(j)
  PROVE  /\ \A n \in Names : Refreshed(j)[n] # None => n = Id /\ job[j].there
         /\ \A n \in Names : Refreshed(j)[n] # None => Refreshed(j)[n].class \in {"clean", "unmounted"}
                                                        \/ Refreshed(j)[n] = drives[n]
         /\ \A n \in Names : Refreshed(j)[n] # None /\ Refreshed(j)[n].class = "clean" =>
              CleanRow(n) \/ plugged
         /\ \A n \in Names : CleanRow(n) /\ n = Id /\ plugged =>
              Refreshed(j)[n] # None /\ Refreshed(j)[n].class = "clean"
         /\ \A n \in Live : drives[n] = None \/ CleanRow(n) =>
              Refreshed(j)[n] = None \/ Refreshed(j)[n].class = "clean"
<1>1. job[j].there /\ Refreshed(j) # drives =>
        IF job[j].at = None THEN Live = {} ELSE mounts[job[j].at] = "live"
  BY DEF Stale
<1>2. ~job[j].there => ~plugged
  BY DEF Stale
<1>3. job[j].at \in Names \cup {None}
  BY DEF Typed, Job
<1>4. ASSUME NEW n \in Names, Refreshed(j)[n] # None
      PROVE  n = Id /\ job[j].there
  BY <1>4, RefreshedType
<1>5. ASSUME NEW n \in Names, Refreshed(j)[n] # None
      PROVE  Refreshed(j)[n].class \in {"clean", "unmounted"} \/ Refreshed(j)[n] = drives[n]
  BY <1>4, <1>5, RefreshedType
<1>6. ASSUME NEW n \in Names, Refreshed(j)[n] # None, Refreshed(j)[n].class = "clean", ~CleanRow(n)
      PROVE  plugged
  <2>1. n = Id /\ job[j].there /\ Refreshed(j) # drives /\ job[j].at # None
    BY <1>4, <1>6, RefreshedType DEF CleanRow
  <2> QED
    BY <1>1, <1>3, <2>1 DEF Shaped, MountsInv
<1>7. ASSUME NEW n \in Names, CleanRow(n), n = Id, plugged
      PROVE  Refreshed(j)[n] # None /\ Refreshed(j)[n].class = "clean"
  BY <1>2, <1>7, RefreshedType DEF CleanRow
<1>8. ASSUME NEW n \in Live, drives[n] = None \/ CleanRow(n), Refreshed(j)[n] # None
      PROVE  Refreshed(j)[n].class = "clean"
  <2>1. n \in Names /\ n = Id /\ job[j].there
    BY <1>4, <1>8 DEF Live
  <2>2. CASE CleanRow(n)
    BY <2>1, <2>2, RefreshedType DEF CleanRow
  <2>3. CASE ~CleanRow(n)
    <3>1. Refreshed(j) # drives /\ Live # {}
      BY <1>8, <2>3
    <3> QED
      BY <1>1, <2>1, <2>3, <3>1, RefreshedType
  <2> QED
    BY <2>2, <2>3
<1> QED
  BY <1>4, <1>5, <1>6, <1>7, <1>8

\* A tick that applies a probe: the held stay held and mounted rows stay.
LEMMA SwapQuiet ==
  ASSUME TypeOK, Typed, Shaped, QuietInv, NEW j \in Jobs, Swap(j), History, Shaped'
  PROVE  QuietInv'
<1>1. /\ job[j].pc = "swap" /\ Others(j) /\ Task(job'[j], job[j]) /\ SameHost
      /\ drives' = Refreshed(j) /\ ~job'[j].clean /\ job'[j].pc # "swap" /\ Fewer
      /\ job'[j].pc \in {"force", "rlookup", "auto"} /\ MountsNoMore(j)
  BY SwapEffect, Uncommitted
     DEF ReconcilePhases, Flags, Steps, AfterRefresh, MountsNoMore, MountPhases, SameHost, Fewer
<1>2. removal' = removal \/ removal' = None
  BY SwapEffect
<1>3. Alone'
  BY <1>1, AloneStep DEF SameHost
<1>4. \A k \in Mounting' : k \in Mounting /\ Target(k)' = Target(k)
  BY <1>1, OtherMounts DEF Mounting
<1>5. ASSUME Quiet' PROVE SafeInv'
  <2>1. SafeInv /\ Quiet
    BY <1>5, QuietBefore DEF QuietInv
  <2>2. removal' # None => removal' = removal /\ Refreshed(j)[removal.id] # None
    BY SwapEffect
  <2>3. \A n \in held : Refreshed(j)[n] # None => n \in held'
    BY SwapEffect
  <2> QED
    BY <1>1, <1>4, <2>1, <2>2, <2>3 DEF SafeInv, SameHost
<1>6. ASSUME Quiet' PROVE Quiet /\ ~Stale(j)
  BY <1>1, <1>6, QuietBefore, MetFacts DEF Quiet
<1>7. CASE j \in Handlers
  <2>1. ASSUME Quiet' PROVE VerbAt(j)'
    <3>1. Quiet /\ ~Stale(j) /\ ProbeAt(j) /\ (job[j].there => plugged)
      BY <1>1, <1>6, <1>7, <2>1 DEF QuietInv, VerbAt, Alone, Quiet
    <3>2. SettledAt(j)'
      <4>1. ASSUME NEW n \in Rows'
            PROVE  n = Id' /\ drives'[n].class # "hiberfile" /\ plugged'
        <5>1. n \in Names /\ Refreshed(j)[n] # None /\ n = Id /\ job[j].there
          BY <1>1, <3>1, <4>1, FreshProbe DEF Rows
        <5>2. Refreshed(j)[n].class \in {"clean", "unmounted"}
          BY <5>1, RefreshedType DEF CleanRow
        <5> QED
          BY <1>1, <3>1, <5>1, <5>2 DEF Id, SameHost
      <4> QED
        BY <4>1 DEF SettledAt
    <3>3. LookupAt(j)'
      <4> SUFFICES ASSUME job[j].verb = "remove", NEW n \in Live
                   PROVE  Refreshed(j)[n] = None \/ Refreshed(j)[n].class = "clean"
        BY <1>1 DEF LookupAt, Live, CleanRow, SameHost, Task
      <4>1. Mounting = {}
        <5>1. j \in Exposed'
          <6>1. job'[j].pc \in {"force", "rlookup"}
            BY SwapEffect DEF Steps, AfterRefresh
          <6> QED
            BY <1>1, <1>7, <6>1 DEF Exposed, Task
        <5>2. Mounting' = {}
          BY <2>1, <5>1, MetFacts DEF Quiet
        <5> QED
          BY <1>1, <5>2 DEF Mounting, Others
      <4>2. job[j].at = None => drives[n] = None \/ CleanRow(n)
        BY <1>1, <3>1, <4>1, JobFacts DEF ProbeAt, Mounting
      <4>3. n \in Names /\ job[j].at # None => Refreshed(j)[n] = None \/ Refreshed(j)[n].class = "clean"
        BY RefreshedType DEF CleanRow
      <4> QED
        BY <3>1, <4>2, <4>3, FreshProbe DEF Live
    <3> QED
      BY <1>1, <1>2, <1>7, <3>1, <3>2, <3>3, ReconcileVerbAt DEF ProbeAt
  <2> QED
    BY <1>1, <1>3, <1>5, <1>7, <2>1, VerbQuiet
<1>8. CASE j = "tick"
  <2>1. ASSUME Quiet', Quiet, NEW h \in Handlers, job'[h] = job[h], VerbAt(h), job[h].pc # "idle"
        PROVE  VerbAt(h)'
    <3>1. ~Stale(j) /\ Live' = Live /\ Id' = Id /\ plugged' = plugged
      BY <1>1, <1>6, <2>1 DEF Live, SameHost, Id
    <3>2. SettledAt(h)'
      <4> SUFFICES ASSUME Settled(h), NEW n \in Rows'
                   PROVE  n = Id /\ drives'[n].class # "hiberfile" /\ (CleanRow(n)' => plugged)
        BY <2>1, <3>1 DEF SettledAt, Settled
      <4>1. n \in Names /\ Refreshed(j)[n] # None
        BY <1>1 DEF Rows
      <4>2. n = Id
        BY <3>1, <4>1, FreshProbe
      <4>3. \A m \in Rows : drives[m].class # "hiberfile" /\ (CleanRow(m) => plugged)
        BY <2>1 DEF VerbAt, SettledAt
      <4>4. drives'[n].class # "hiberfile"
        BY <1>1, <3>1, <4>1, <4>3, FreshProbe DEF Rows
      <4>5. CleanRow(n)' => CleanRow(n) \/ plugged
        BY <1>1, <3>1, <4>1, FreshProbe DEF CleanRow
      <4> QED
        BY <4>1, <4>2, <4>3, <4>4, <4>5 DEF Rows, CleanRow
    <3>3. TakeOffAt(h)'
      <4> SUFFICES ASSUME job[h].clean, job[h].pc \in TakingOff PROVE CleanRow(job[h].id)' /\ Mounting' = {} /\ (job[h].pc = "fsck" => Live' = {})
        BY <2>1 DEF TakeOffAt
      <4>1. CleanRow(job[h].id) /\ Mounting = {} /\ (job[h].pc = "fsck" => Live = {})
        BY <2>1 DEF VerbAt, TakeOffAt
      <4>2. Settled(h) /\ job[h].id \in Names
        BY TakingOffSettled, VerbOf, JobFacts DEF TakingOff, ReconcilePhases
      <4>3. job[h].id = Id /\ plugged
        BY <2>1, <4>1, <4>2 DEF VerbAt, SettledAt, Rows, CleanRow
      <4>4. Refreshed(j)[job[h].id] # None /\ Refreshed(j)[job[h].id].class = "clean"
        BY <3>1, <4>1, <4>2, <4>3, FreshProbe
      <4> QED
        BY <1>1, <1>4, <2>1, <3>1, <4>1, <4>4 DEF CleanRow
    <3>4. ProbeAt(h)'
      <4> SUFFICES ASSUME job[h].verb = "remove", job[h].pc = "swap", job[h].at = None, NEW n \in Live
                   PROVE  drives'[n] = None \/ CleanRow(n)'
        BY <1>1, <1>8, <2>1, <3>1 DEF ProbeAt
      <4>1. job[j].at # None
        BY <1>1, <1>8, <2>1 DEF VerbAt, ProbeAt
      <4> QED
        BY <1>1, <4>1, RefreshedType DEF CleanRow, Live
    <3>5. LookupAt(h)'
      <4> SUFFICES ASSUME job[h].verb = "remove", job[h].pc \in {"force", "retract", "rlookup"}, NEW n \in Live
                   PROVE  drives'[n] = None \/ CleanRow(n)'
        BY <2>1, <3>1 DEF LookupAt
      <4>1. drives[n] = None \/ CleanRow(n)
        BY <2>1 DEF VerbAt, LookupAt
      <4> QED
        BY <1>1, <3>1, <4>1, FreshProbe DEF CleanRow
    <3>6. RemoveAt(h)'
      <4>1. job[h].pc = "rsafe" /\ job[h].id \in held => job[h].id \in held'
        BY <2>1, MetFacts DEF Quiet
      <4> QED
        BY <1>1, <1>2, <1>4, <2>1, <4>1 DEF VerbAt, RemoveAt, SameHost
    <3> QED
      BY <3>2, <3>3, <3>4, <3>5, <3>6 DEF VerbAt
  <2> QED
    BY <1>1, <1>3, <1>5, <1>8, <2>1, TickQuiet
<1> QED
  BY <1>7, <1>8 DEF Jobs

LEMMA StartTickQuiet ==
  ASSUME TypeOK, Typed, Shaped, QuietInv, StartTick, History, Shaped'
  PROVE  QuietInv'
<1>1. /\ job["tick"].pc = "idle" /\ Others("tick") /\ job'["tick"].pc = "read" /\ SameHost
      /\ SameInner /\ Fewer /\ MountsNoMore("tick") /\ "tick" \in Jobs
  BY StartTickEffect, JobFacts DEF Steps, SameHost, Fewer, MountsNoMore, MountPhases
<1>2. Alone'
  BY <1>1, AloneStep DEF SameHost
<1>3. ASSUME Quiet' PROVE SafeInv'
  BY <1>1, <1>3, QuietBefore, SafeFrame DEF SameInner
<1>4. ASSUME Quiet', Quiet, NEW h \in Handlers, job'[h] = job[h], VerbAt(h), job[h].pc # "idle"
      PROVE  VerbAt(h)'
  <2>1. ProbeAt(h)'
    BY <1>1, <1>4, ProbeFrame DEF SameInner
  <2> QED
    BY <1>1, <1>4, <2>1, TickStill DEF SameHost, SameInner
<1> QED
  BY <1>1, <1>2, <1>3, <1>4, TickQuiet

\* Steps that no job takes.
LEMMA BystandersQuiet ==
  ASSUME TypeOK, Typed, Shaped, QuietInv, History, Shaped', job' = job, alias' = alias, SameInner, Fewer,
         ~crossed' => plugged' \/ plugged' = plugged \/ (Mounting = {} /\ \A h \in Handlers : job[h].pc = "idle"),
         plugged' \in BOOLEAN
  PROVE  QuietInv'
<1>1. Alone'
  <2> SUFFICES ASSUME ~crossed' PROVE Alone'
    BY DEF Alone
  <2>1. Alone /\ ~crossed
    BY HistoryFacts DEF QuietInv
  <2>2. \A h, k \in Handlers : Busy(h)' /\ Busy(k)' => h = k
    BY CrossedFacts DEF Busy
  <2> QED
    BY <2>1, <2>2, JobFacts DEF Alone, Mounting
<1>2. Mounting' = Mounting /\ \A k \in Jobs : Target(k)' = Target(k)
  BY DEF Mounting, Target
<1>3. ASSUME Quiet' PROVE SafeInv'
  <2>1. SafeInv /\ Quiet
    BY <1>3, QuietBefore DEF QuietInv
  <2> QED
    BY <1>2, <2>1 DEF SafeInv, SameInner, Fewer, Mounting, Typed
<1>4. ASSUME Quiet', NEW h \in Handlers PROVE VerbAt(h)'
  <2>1. CASE job[h].pc = "idle"
    BY <2>1, IdleVerbAt
  <2>2. CASE job[h].pc # "idle"
    <3>1. VerbAt(h) /\ Quiet /\ (plugged' \/ plugged' = plugged) /\ job[h].id \in Names
      BY <1>4, <2>2, QuietBefore, JobFacts DEF QuietInv, Quiet, Shaped, JobsInv, At
    <3>2. \A n \in Live' : n \in Live
      BY DEF Live, Fewer
    <3>3. SettledAt(h)'
      BY <3>1 DEF VerbAt, SettledAt, Settled, Rows, CleanRow, Id, SameInner
    <3>4. TakeOffAt(h)' /\ LookupAt(h)'
      BY <1>2, <3>1, <3>2 DEF VerbAt, TakeOffAt, LookupAt, CleanRow, SameInner
    <3>5. ProbeAt(h)'
      BY <3>1, <3>2 DEF VerbAt, ProbeAt, CleanRow, SameInner
    <3>6. RemoveAt(h)'
      BY <1>2, <3>1 DEF VerbAt, RemoveAt, SameInner, Fewer, Mounting
    <3> QED
      BY <3>3, <3>4, <3>5, <3>6 DEF VerbAt
  <2> QED
    BY <2>1, <2>2
<1>5. SafeInv'
  BY <1>3 DEF SafeInv
<1> QED
  BY <1>1, <1>4, <1>5, MetFacts DEF QuietInv

LEMMA SpawnedRetractQuiet ==
  ASSUME TypeOK, Typed, Shaped, QuietInv, NEW id \in CardIds, SpawnedRetract(id), History, Shaped'
  PROVE  QuietInv'
  BY SpawnedRetractEffect, BystandersQuiet DEF SameHost, Fewer, Typed

LEMMA PlugQuiet ==
  ASSUME TypeOK, Typed, Shaped, QuietInv, Plug, History, Shaped'
  PROVE  QuietInv'
  BY PlugEffect, BystandersQuiet DEF Fewer

LEMMA YankQuiet ==
  ASSUME TypeOK, Typed, Shaped, QuietInv, Yank, History, Shaped'
  PROVE  QuietInv'
<1>1. ~crossed' => Mounting = {} /\ \A h \in Handlers : job[h].pc = "idle"
  BY YankEffect, CrossedFacts
<1> QED
  BY <1>1, YankEffect, BystandersQuiet DEF Fewer

LEMMA RestartQuiet ==
  ASSUME TypeOK, Typed, Shaped, QuietInv, Restart, History, Shaped'
  PROVE  QuietInv'
<1>1. \A j \in Jobs : job'[j].pc = "idle"
  BY RestartEffect, JobFacts
<1>2. \A h \in Handlers : VerbAt(h)'
  BY <1>1, IdleVerbAt, JobFacts
<1>3. Alone'
  BY <1>1, JobFacts DEF Alone, Busy
<1>4. SafeInv'
  BY RestartEffect DEF SafeInv
<1> QED
  BY <1>2, <1>3, <1>4, MetFacts DEF QuietInv

LEMMA RequestQuiet ==
  ASSUME TypeOK, Typed, Shaped, QuietInv, NEW h \in Handlers, Request(h), History, Shaped'
  PROVE  QuietInv'
<1>1. PICK v \in Verbs, n \in Names, to \in Names \cup {None} : Arrives(h, v, n, to)
  BY RequestEffect
<1>2. /\ Others(h) /\ job'[h].pc = "read" /\ ~job'[h].clean /\ SameHost /\ drives' = drives
      /\ job'[h].verb = v /\ job'[h].id = n /\ Fewer /\ h \in Jobs /\ MountsNoMore(h)
  BY <1>1, JobFacts DEF Arrives, SameHost, Fewer, MountsNoMore, MountPhases
<1>3. Alone'
  BY <1>2, AloneStep DEF SameHost
<1>4. ASSUME Quiet' PROVE SafeInv'
  <2>1. SafeInv /\ Quiet
    BY <1>4, QuietBefore DEF QuietInv
  <2>2. \A k \in Mounting' : k \in Mounting /\ Target(k)' = Target(k)
    BY <1>2, OtherMounts DEF Mounting
  <2>3. removal' # None => removal' = removal /\ \A m \in held : m = removal.id => m \in held'
    BY <1>1 DEF Arrives
  <2> QED
    BY <1>2, <2>1, <2>2, <2>3 DEF SafeInv, SameHost
<1>5. ASSUME Quiet', NEW k \in Handlers PROVE VerbAt(k)'
  <2>1. CASE k = h
    <3>1. v \in {"mount", "repair"} => removal' = None \/ removal'.id # n
      BY <1>1 DEF Arrives
    <3> QED
      BY <1>2, <2>1, <3>1 DEF VerbAt, SettledAt, Settled, TakeOffAt, ProbeAt, LookupAt, RemoveAt
  <2>2. CASE k # h
    BY <1>2, <1>5, <2>2, CrossedFacts, IdleVerbAt DEF Quiet
  <2> QED
    BY <2>1, <2>2
<1>6. SafeInv'
  BY <1>4 DEF SafeInv
<1> QED
  BY <1>3, <1>5, <1>6, MetFacts DEF QuietInv

LEMMA NextQuiet ==
  ASSUME TypeOK, Shaped, QuietInv, Next
  PROVE  QuietInv'
<1>1. Typed /\ Shaped' /\ History
  BY NextType DEF Next
<1>2. ASSUME NEW j \in Jobs, JobStep(j) PROVE QuietInv'
  BY <1>1, <1>2, ReadQuiet, SwapQuiet, ForceGoneQuiet, RetractQuiet, AutoMountQuiet, MountQuiet,
     CardQuiet, SetMountedQuiet, AdoptQuiet, AdoptCardQuiet, AdoptSetQuiet, MountLookupQuiet,
     RemoveLookupQuiet, RemoveUmountQuiet, RemoveForceQuiet, RemoveRetractQuiet,
     RemoveDropQuiet, RemoveSafeQuiet, RepairLookupQuiet, RepairUmountQuiet, FsckBeginsQuiet,
     FsckEndsQuiet, RenameLookupQuiet, RenameUmountQuiet, RenameStopQuiet, RenameSaveQuiet,
     RenameRestoreQuiet DEF JobStep
<1> QED
  BY <1>1, <1>2, ReadFailsQuiet, SpawnedRetractQuiet, StartTickQuiet, YankQuiet, PlugQuiet,
     RestartQuiet, RequestQuiet DEF Next

(***************************************************************************)
(* QueueKept.                                                              *)
(***************************************************************************)
\* Job j has parked nothing, and a rename is as far as it was.
SameRename(j) ==
  /\ Others(j) /\ (job'[j].parked => job[j].parked)
  /\ job'[j].verb = "rename" /\ job'[j].pc \notin {"read", "swap"} =>
       job[j].verb = "rename" /\ job[j].pc \notin {"read", "swap"}
  /\ job'[j].parked =>
       /\ job'[j].pc = "swap" => job'[j].there = plugged
       /\ job'[j].verb = "renamed" /\ job'[j].pc \notin {"read", "swap"} =>
            job[j].verb = "renamed" /\ job[j].pc \notin {"read", "swap"}

LEMMA ParkFrame ==
  ASSUME TypeOK, QueueInv, History, NEW j \in Jobs, SameRename(j), plugged' = plugged, Rows' = Rows
  PROVE  ParkInv'
<1> SUFFICES ASSUME ~crossed', ~together', NEW h \in Handlers PROVE ParkAt(h)'
  BY DEF ParkInv, ParkAt
<1>1. ParkAt(h)
  BY HistoryFacts DEF QueueInv, ParkInv, ParkAt
<1>2. CASE h = j
  BY <1>1, <1>2 DEF ParkAt, SameRename
<1>3. CASE h # j
  BY <1>1, <1>3, JobFacts DEF ParkAt, SameRename, Others
<1> QED
  BY <1>2, <1>3

LEMMA KeptFrame ==
  ASSUME TypeOK, QueueInv, History, queue' = queue, happened \subseteq happened',
         \A h \in Handlers : job[h].parked => job'[h].parked
  PROVE  QueueKept'
<1>1. QueueKept
  BY DEF QueueInv
<1> QED
  BY <1>1, HistoryFacts DEF QueueKept

LEMMA QueueFrame ==
  ASSUME TypeOK, QueueInv, History, NEW j \in Jobs, SameRename(j), job[j].parked => job'[j].parked,
         plugged' = plugged, Rows' = Rows, queue' = queue, happened \subseteq happened'
  PROVE  QueueInv'
<1>1. Apart'
  BY TogetherFacts DEF Apart
<1>2. \A h \in Handlers : job[h].parked => job'[h].parked
  BY JobFacts DEF SameRename, Others
<1> QED
  BY <1>1, <1>2, ParkFrame, KeptFrame DEF QueueInv

\* Only a rename parks tracks, and it excludes reconciles.
LEMMA Parkers ==
  ASSUME Typed, Shaped, NEW j \in Jobs, job[j].parked
  PROVE  /\ j \in Handlers /\ job[j].pc # "idle" /\ j \in Reconciling
         /\ \/ job[j].verb = "renamed" /\ job[j].pc \in ReconcilePhases \cup {"restore"}
            \/ job[j].verb = "rename" /\ job[j].pc \in {"numount", "nstop", "nsave"}
         /\ job[j].pc \in MountPhases => job[j].auto
<1>1. At(j, job[j])
  BY DEF Shaped, JobsInv
<1>2. CASE job[j].verb = "renamed"
  BY <1>1, <1>2 DEF At, PhasesOf, ReconcilePhases, Jobs, Reconciling
<1>3. CASE job[j].verb # "renamed"
  <2>1. job[j].pc \in {"numount", "nstop", "nsave"}
    BY <1>1, <1>3 DEF At
  <2> QED
    BY <2>1, VerbOf DEF ReconcilePhases, MountPhases, Reconciling
<1> QED
  BY <1>2, <1>3

LEMMA ReadQueue ==
  ASSUME TypeOK, Typed, Shaped, QueueInv, NEW j \in Jobs, Read(j), History
  PROVE  QueueInv'
<1>1. SameRename(j) /\ (job[j].parked => job'[j].parked)
  BY ReadEffect, Parkers, JobFacts
     DEF SameRename, ReconcilePhases, Task, Flags
<1>2. plugged' = plugged /\ Rows' = Rows /\ queue' = queue /\ happened \subseteq happened'
  BY ReadEffect DEF SameHost, SameInner, SameLibrary, SameBounds, AtMost, Drops, Registers, Rows
<1> QED
  BY <1>1, <1>2, QueueFrame

LEMMA ForceGoneQueue ==
  ASSUME TypeOK, Typed, Shaped, QueueInv, NEW j \in Jobs, ForceGone(j), History
  PROVE  QueueInv'
<1>1. SameRename(j) /\ (job[j].parked => job'[j].parked)
  BY ForceGoneEffect, Parkers, JobFacts
     DEF SameRename, ReconcilePhases, Task, Flags, Steps, Place
<1>2. plugged' = plugged /\ Rows' = Rows /\ queue' = queue /\ happened \subseteq happened'
  BY ForceGoneEffect
     DEF SameHost, SameInner, SameLibrary, SameBounds, AtMost, Drops, Registers, Rows
<1> QED
  BY <1>1, <1>2, QueueFrame

LEMMA RetractQueue ==
  ASSUME TypeOK, Typed, Shaped, QueueInv, NEW j \in Jobs, Retract(j), History
  PROVE  QueueInv'
<1>1. SameRename(j) /\ (job[j].parked => job'[j].parked)
  BY RetractEffect, Parkers, JobFacts
     DEF SameRename, ReconcilePhases, Task, Flags, AfterRefresh
<1>2. plugged' = plugged /\ Rows' = Rows /\ queue' = queue /\ happened \subseteq happened'
  BY RetractEffect
     DEF SameHost, SameInner, SameLibrary, SameBounds, AtMost, Drops, Registers, Rows
<1> QED
  BY <1>1, <1>2, QueueFrame

LEMMA AutoMountQueue ==
  ASSUME TypeOK, Typed, Shaped, QueueInv, NEW j \in Jobs, AutoMount(j), History
  PROVE  QueueInv'
<1>1. SameRename(j) /\ (job[j].parked => job'[j].parked)
  BY AutoMountEffect, Parkers, JobFacts
     DEF SameRename, ReconcilePhases, Task, Flags, Steps, Place
<1>2. plugged' = plugged /\ Rows' = Rows /\ queue' = queue /\ happened \subseteq happened'
  BY AutoMountEffect
     DEF SameHost, SameInner, SameLibrary, SameBounds, AtMost, Drops, Registers, Rows
<1> QED
  BY <1>1, <1>2, QueueFrame

LEMMA MountQueue ==
  ASSUME TypeOK, Typed, Shaped, QueueInv, NEW j \in Jobs, Mount(j), History
  PROVE  QueueInv'
<1>1. SameRename(j) /\ (job[j].parked => job'[j].parked)
  BY MountEffect, Parkers, JobFacts
     DEF SameRename, ReconcilePhases, MountPhases, Task, Flags, Steps, Place, Attempted, Stops
<1>2. plugged' = plugged /\ Rows' = Rows /\ queue' = queue /\ happened \subseteq happened'
  BY MountEffect
     DEF SameHost, SameInner, SameLibrary, SameBounds, AtMost, Drops, Registers, Rows, Marks
<1> QED
  BY <1>1, <1>2, QueueFrame

LEMMA CardQueue ==
  ASSUME TypeOK, Typed, Shaped, QueueInv, NEW j \in Jobs, Card(j), History
  PROVE  QueueInv'
<1>1. SameRename(j) /\ (job[j].parked => job'[j].parked)
  BY CardEffect, Parkers, JobFacts
     DEF SameRename, ReconcilePhases, Task, Flags, Registers
<1>2. plugged' = plugged /\ Rows' = Rows /\ queue' = queue /\ happened \subseteq happened'
  BY CardEffect DEF SameHost, SameInner, SameLibrary, SameBounds, AtMost, Drops, Registers, Rows
<1> QED
  BY <1>1, <1>2, QueueFrame

LEMMA SetMountedQueue ==
  ASSUME TypeOK, Typed, Shaped, QueueInv, NEW j \in Jobs, SetMounted(j), History
  PROVE  QueueInv'
<1>1. SameRename(j) /\ (job[j].parked => job'[j].parked)
  BY SetMountedEffect, Parkers, JobFacts
     DEF SameRename, ReconcilePhases, MountPhases, Task, Flags, Attempted, Stops
<1>2. plugged' = plugged /\ Rows' = Rows /\ queue' = queue /\ happened \subseteq happened'
  BY SetMountedEffect
     DEF SameHost, SameInner, SameLibrary, SameBounds, AtMost, Drops, Registers, Rows, Records
<1> QED
  BY <1>1, <1>2, QueueFrame

LEMMA AdoptQueue ==
  ASSUME TypeOK, Typed, Shaped, QueueInv, NEW j \in Jobs, Adopt(j), History
  PROVE  QueueInv'
<1>1. SameRename(j) /\ (job[j].parked => job'[j].parked)
  BY AdoptEffect, Parkers, JobFacts
     DEF SameRename, ReconcilePhases, Task, Flags, Reconciled, Goers, NextPhase, Stops
<1>2. plugged' = plugged /\ Rows' = Rows /\ queue' = queue /\ happened \subseteq happened'
  BY AdoptEffect DEF SameHost, SameInner, SameLibrary, SameBounds, AtMost, Drops, Registers, Rows
<1> QED
  BY <1>1, <1>2, QueueFrame

LEMMA AdoptCardQueue ==
  ASSUME TypeOK, Typed, Shaped, QueueInv, NEW j \in Jobs, AdoptCard(j), History
  PROVE  QueueInv'
<1>1. SameRename(j) /\ (job[j].parked => job'[j].parked)
  BY AdoptCardEffect, Parkers, JobFacts
     DEF SameRename, ReconcilePhases, Task, Flags, Registers
<1>2. plugged' = plugged /\ Rows' = Rows /\ queue' = queue /\ happened \subseteq happened'
  BY AdoptCardEffect
     DEF SameHost, SameInner, SameLibrary, SameBounds, AtMost, Drops, Registers, Rows
<1> QED
  BY <1>1, <1>2, QueueFrame

LEMMA AdoptSetQueue ==
  ASSUME TypeOK, Typed, Shaped, QueueInv, NEW j \in Jobs, AdoptSet(j), History
  PROVE  QueueInv'
<1>1. SameRename(j) /\ (job[j].parked => job'[j].parked)
  BY AdoptSetEffect, Parkers, JobFacts
     DEF SameRename, ReconcilePhases, Task, Flags, Reconciled, Goers, NextPhase, Stops
<1>2. plugged' = plugged /\ Rows' = Rows /\ queue' = queue /\ happened \subseteq happened'
  BY AdoptSetEffect
     DEF SameHost, SameInner, SameLibrary, SameBounds, AtMost, Drops, Registers, Rows, Cards
<1> QED
  BY <1>1, <1>2, QueueFrame

LEMMA MountLookupQueue ==
  ASSUME TypeOK, Typed, Shaped, QueueInv, NEW j \in Jobs, MountLookup(j), History
  PROVE  QueueInv'
<1>1. SameRename(j) /\ (job[j].parked => job'[j].parked)
  BY MountLookupEffect, Parkers, JobFacts, VerbOf
     DEF SameRename, ReconcilePhases, Task, Flags, Steps, Stops, Place
<1>2. plugged' = plugged /\ Rows' = Rows /\ queue' = queue /\ happened \subseteq happened'
  BY MountLookupEffect
     DEF SameHost, SameInner, SameLibrary, SameBounds, AtMost, Drops, Registers, Rows
<1> QED
  BY <1>1, <1>2, QueueFrame

LEMMA RemoveLookupQueue ==
  ASSUME TypeOK, Typed, Shaped, QueueInv, NEW j \in Jobs, RemoveLookup(j), History
  PROVE  QueueInv'
<1>1. SameRename(j) /\ (job[j].parked => job'[j].parked)
  BY RemoveLookupEffect, Parkers, JobFacts, VerbOf
     DEF SameRename, ReconcilePhases, Task, Flags, Steps, Stops, Place
<1>2. plugged' = plugged /\ Rows' = Rows /\ queue' = queue /\ happened \subseteq happened'
  BY RemoveLookupEffect
     DEF SameHost, SameInner, SameLibrary, SameBounds, AtMost, Drops, Registers, Rows
<1> QED
  BY <1>1, <1>2, QueueFrame

LEMMA RemoveUmountQueue ==
  ASSUME TypeOK, Typed, Shaped, QueueInv, NEW j \in Jobs, RemoveUmount(j), History
  PROVE  QueueInv'
<1>1. SameRename(j) /\ (job[j].parked => job'[j].parked)
  BY RemoveUmountEffect, Parkers, JobFacts, VerbOf
     DEF SameRename, ReconcilePhases, Task, Flags, Steps, Stops, Place
<1>2. plugged' = plugged /\ Rows' = Rows /\ queue' = queue /\ happened \subseteq happened'
  BY RemoveUmountEffect
     DEF SameHost, SameInner, SameLibrary, SameBounds, AtMost, Drops, Registers, Rows
<1> QED
  BY <1>1, <1>2, QueueFrame

LEMMA RemoveForceQueue ==
  ASSUME TypeOK, Typed, Shaped, QueueInv, NEW j \in Jobs, RemoveForce(j), History
  PROVE  QueueInv'
<1>1. SameRename(j) /\ (job[j].parked => job'[j].parked)
  BY RemoveForceEffect, Parkers, JobFacts, VerbOf
     DEF SameRename, ReconcilePhases, Task, Flags, Steps, Stops, Place
<1>2. plugged' = plugged /\ Rows' = Rows /\ queue' = queue /\ happened \subseteq happened'
  BY RemoveForceEffect
     DEF SameHost, SameInner, SameLibrary, SameBounds, AtMost, Drops, Registers, Rows
<1> QED
  BY <1>1, <1>2, QueueFrame

LEMMA RemoveRetractQueue ==
  ASSUME TypeOK, Typed, Shaped, QueueInv, NEW j \in Jobs, RemoveRetract(j), History
  PROVE  QueueInv'
<1>1. SameRename(j) /\ (job[j].parked => job'[j].parked)
  BY RemoveRetractEffect, Parkers, JobFacts, VerbOf
     DEF SameRename, ReconcilePhases, Task, Flags, Steps, Stops, Place
<1>2. plugged' = plugged /\ Rows' = Rows /\ queue' = queue /\ happened \subseteq happened'
  BY RemoveRetractEffect
     DEF SameHost, SameInner, SameLibrary, SameBounds, AtMost, Drops, Registers, Rows
<1> QED
  BY <1>1, <1>2, QueueFrame

LEMMA RemoveSafeQueue ==
  ASSUME TypeOK, Typed, Shaped, QueueInv, NEW j \in Jobs, RemoveSafe(j), History
  PROVE  QueueInv'
<1>1. SameRename(j) /\ (job[j].parked => job'[j].parked)
  BY RemoveSafeEffect, Parkers, JobFacts, VerbOf
     DEF SameRename, ReconcilePhases, Task, Flags, Steps, Stops, Place
<1>2. plugged' = plugged /\ Rows' = Rows /\ queue' = queue /\ happened \subseteq happened'
  BY RemoveSafeEffect
     DEF SameHost, SameInner, SameLibrary, SameBounds, AtMost, Drops, Registers, Rows
<1> QED
  BY <1>1, <1>2, QueueFrame

LEMMA RepairLookupQueue ==
  ASSUME TypeOK, Typed, Shaped, QueueInv, NEW j \in Jobs, RepairLookup(j), History
  PROVE  QueueInv'
<1>1. SameRename(j) /\ (job[j].parked => job'[j].parked)
  BY RepairLookupEffect, Parkers, JobFacts, VerbOf
     DEF SameRename, ReconcilePhases, Task, Flags, Steps, Stops, Place
<1>2. plugged' = plugged /\ Rows' = Rows /\ queue' = queue /\ happened \subseteq happened'
  BY RepairLookupEffect
     DEF SameHost, SameInner, SameLibrary, SameBounds, AtMost, Drops, Registers, Rows
<1> QED
  BY <1>1, <1>2, QueueFrame

LEMMA RepairUmountQueue ==
  ASSUME TypeOK, Typed, Shaped, QueueInv, NEW j \in Jobs, RepairUmount(j), History
  PROVE  QueueInv'
<1>1. SameRename(j) /\ (job[j].parked => job'[j].parked)
  BY RepairUmountEffect, Parkers, JobFacts, VerbOf
     DEF SameRename, ReconcilePhases, Task, Flags, Steps, Stops, Place
<1>2. plugged' = plugged /\ Rows' = Rows /\ queue' = queue /\ happened \subseteq happened'
  BY RepairUmountEffect
     DEF SameHost, SameInner, SameLibrary, SameBounds, AtMost, Drops, Registers, Rows
<1> QED
  BY <1>1, <1>2, QueueFrame

LEMMA FsckBeginsQueue ==
  ASSUME TypeOK, Typed, Shaped, QueueInv, NEW j \in Jobs, FsckBegins(j), History
  PROVE  QueueInv'
<1>1. SameRename(j) /\ (job[j].parked => job'[j].parked)
  BY FsckBeginsEffect, Parkers, JobFacts, VerbOf
     DEF SameRename, ReconcilePhases, Task, Flags, Steps, Stops, Place
<1>2. plugged' = plugged /\ Rows' = Rows /\ queue' = queue /\ happened \subseteq happened'
  BY FsckBeginsEffect
     DEF SameHost, SameInner, SameLibrary, SameBounds, AtMost, Drops, Registers, Rows, Marks
<1> QED
  BY <1>1, <1>2, QueueFrame

LEMMA FsckEndsQueue ==
  ASSUME TypeOK, Typed, Shaped, QueueInv, NEW j \in Jobs, FsckEnds(j), History
  PROVE  QueueInv'
<1>1. SameRename(j) /\ (job[j].parked => job'[j].parked)
  BY FsckEndsEffect, Parkers, JobFacts, VerbOf
     DEF SameRename, ReconcilePhases, Task, Flags, Steps, Stops, Place
<1>2. plugged' = plugged /\ Rows' = Rows /\ queue' = queue /\ happened \subseteq happened'
  BY FsckEndsEffect
     DEF SameHost, SameInner, SameLibrary, SameBounds, AtMost, Drops, Registers, Rows, Marks
<1> QED
  BY <1>1, <1>2, QueueFrame

LEMMA RenameStopQueue ==
  ASSUME TypeOK, Typed, Shaped, QueueInv, NEW j \in Jobs, RenameStop(j), History
  PROVE  QueueInv'
<1>1. SameRename(j) /\ (job[j].parked => job'[j].parked)
  BY RenameStopEffect, Parkers, JobFacts, VerbOf
     DEF SameRename, ReconcilePhases, Task, Flags, Steps, Stops, Place
<1>2. plugged' = plugged /\ Rows' = Rows /\ queue' = queue /\ happened \subseteq happened'
  BY RenameStopEffect
     DEF SameHost, SameInner, SameLibrary, SameBounds, AtMost, Drops, Registers, Rows
<1> QED
  BY <1>1, <1>2, QueueFrame

LEMMA StartTickQueue ==
  ASSUME TypeOK, Typed, Shaped, QueueInv, StartTick, History
  PROVE  QueueInv'
<1>1. "tick" \in Jobs /\ SameRename("tick") /\ (job["tick"].parked => job'["tick"].parked)
  BY StartTickEffect, JobFacts DEF SameRename, Steps, Task, Flags
<1>2. plugged' = plugged /\ Rows' = Rows /\ queue' = queue /\ happened \subseteq happened'
  BY StartTickEffect DEF SameHost, SameInner, SameLibrary, SameBounds, Rows
<1> QED
  BY <1>1, <1>2, QueueFrame

\* The refresh of a rename meets no other, and finds the volume it renamed.
LEMMA SwapQueue ==
  ASSUME TypeOK, Typed, Shaped, QuietInv, QueueInv, NEW j \in Jobs, Swap(j), History
  PROVE  QueueInv'
<1>1. /\ job[j].pc = "swap" /\ Others(j) /\ job'[j].verb = job[j].verb /\ job'[j].pc # "swap"
      /\ job'[j].parked = job[j].parked /\ drives' = Refreshed(j)
      /\ plugged' = plugged /\ queue' = queue /\ happened' = happened
  BY SwapEffect DEF Task, Flags, SameHost, SameLibrary, SameBounds, Steps, AfterRefresh
<1>2. Apart'
  BY TogetherFacts DEF Apart
<1>3. \A h \in Handlers : job'[h].parked = job[h].parked
  BY <1>1, JobFacts DEF Others
<1>4. QueueKept'
  BY <1>1, <1>3, KeptFrame
<1>5. ParkInv'
  <2> SUFFICES ASSUME ~crossed', ~together', NEW h \in Handlers PROVE ParkAt(h)'
    BY DEF ParkInv, ParkAt
  <2>1. ~crossed /\ ~together /\ ParkAt(h) /\ Apart /\ Alone
    BY HistoryFacts DEF QueueInv, ParkInv, ParkAt, QuietInv
  <2>2. CASE h = j
    <3>1. job[j].there => plugged
      BY <1>1, <2>1, <2>2 DEF Alone
    <3>2. Rows' # {} => job[j].there
      BY <1>1, RefreshedType DEF Rows
    <3>3. job[j].there => Rows' # {}
      <4>1. Id \in Names
        BY NamesAssumption DEF Id, Typed
      <4> QED
        BY <1>1, <4>1, RefreshedType DEF Rows
    <3> QED
      BY <1>1, <2>1, <2>2, <3>1, <3>2, <3>3 DEF ParkAt
  <2>3. CASE h # j
    <3>1. h \in Jobs /\ job'[h] = job[h] /\ j \in Reconciling
      BY <1>1, <2>3, JobFacts DEF Others, Reconciling
    <3>2. h \notin Reconciling
      BY <2>1, <2>3, <3>1 DEF Apart
    <3>3. ~job[h].parked
      BY <3>1, <3>2, Parkers
    <3>4. job[h].verb = "rename" => job[h].pc \in {"read", "swap"}
      <4>1. At(h, job[h])
        BY <3>1 DEF Shaped, JobsInv
      <4> QED
        BY <3>1, <3>2, <4>1 DEF At, PhasesOf, ReconcilePhases, Reconciling
    <3> QED
      BY <3>1, <3>3, <3>4 DEF ParkAt
  <2> QED
    BY <2>2, <2>3
<1> QED
  BY <1>2, <1>4, <1>5 DEF QueueInv

LEMMA ReadFailsQueue ==
  ASSUME TypeOK, Typed, Shaped, QueueInv, NEW j \in Jobs, ReadFails(j), History
  PROVE  QueueInv'
<1>1. SameRename(j) /\ plugged' = plugged /\ Rows' = Rows /\ "probe" \in happened'
  BY ReadFailsEffect, JobFacts DEF SameRename, Stops, SameHost, SameInner, Rows
<1>2. Apart'
  BY TogetherFacts DEF Apart
<1>3. QueueKept'
  BY <1>1 DEF QueueKept
<1> QED
  BY <1>1, <1>2, <1>3, ParkFrame DEF QueueInv

\* Tracks are parked only while the volume is in.
LEMMA RenameLookupQueue ==
  ASSUME TypeOK, Typed, Shaped, QueueInv, NEW j \in Jobs, RenameLookup(j), History
  PROVE  QueueInv'
<1>1. /\ j \in Handlers /\ job[j].verb = "rename" /\ job[j].pc = "nlookup" /\ plugged' = plugged
      /\ Rows' = Rows /\ happened \subseteq happened' /\ job[j].id \in Names /\ Others(j)
  BY VerbOf, RenameLookupEffect DEF ReconcilePhases, SameHost, SameInner, AtMost, Rows, Stops
<1>2. ~job[j].parked
  BY <1>1, Parkers DEF ReconcilePhases
<1>3. CASE ~job'[j].parked
  <2>1. queue' = queue \/ "park" \in happened'
    BY <1>3, RenameLookupEffect
  <2>2. SameRename(j)
    BY <1>1, <1>2, <1>3, RenameLookupEffect, JobFacts DEF SameRename, Stops, Task
  <2>3. CASE queue' = queue
    BY <1>1, <1>2, <2>2, <2>3, QueueFrame
  <2>4. CASE "park" \in happened'
    <3>1. QueueKept'
      BY <2>4 DEF QueueKept
    <3> QED
      BY <1>1, <2>2, <3>1, ParkFrame, TogetherFacts DEF QueueInv, Apart
  <2> QED
    BY <2>1, <2>3, <2>4
<1>4. CASE job'[j].parked
  <2>1. /\ CleanRow(job[j].id) /\ job'[j].verb = "rename" /\ job'[j].pc = "numount"
    BY <1>1, <1>4, RenameLookupEffect, JobFacts DEF Stops, Task
  <2>2. Rows # {}
    BY <1>1, <2>1 DEF Rows, CleanRow
  <2>3. Apart'
    BY TogetherFacts DEF Apart
  <2>4. QueueKept'
    BY <1>1, <1>4 DEF QueueKept
  <2>5. ParkInv'
    <3> SUFFICES ASSUME ~crossed', ~together', NEW h \in Handlers PROVE ParkAt(h)'
      BY DEF ParkInv, ParkAt
    <3>1. ParkAt(h) /\ ParkAt(j)
      BY <1>1, HistoryFacts DEF QueueInv, ParkInv, ParkAt
    <3> QED
      BY <1>1, <2>1, <2>2, <3>1, JobFacts DEF ParkAt, Others
  <2> QED
    BY <2>3, <2>4, <2>5 DEF QueueInv
<1> QED
  BY <1>3, <1>4

LEMMA RenameUmountQueue ==
  ASSUME TypeOK, Typed, Shaped, QueueInv, NEW j \in Jobs, RenameUmount(j), History
  PROVE  QueueInv'
<1>1. /\ job[j].pc = "numount" /\ plugged' = plugged /\ Rows' = Rows /\ happened \subseteq happened'
      /\ job[j].id \in Names
  BY VerbOf, RenameUmountEffect DEF ReconcilePhases, SameInner, AtMost, Rows
<1>2. SameRename(j)
  BY <1>1, RenameUmountEffect, JobFacts DEF SameRename, Steps, Stops, Task, Flags
<1>3. CASE queue' = queue /\ (job[j].parked => job'[j].parked)
  BY <1>1, <1>2, <1>3, QueueFrame
<1>4. CASE queue' = job[j].id
  <2>1. QueueKept'
    BY <1>1, <1>4, NamesAssumption DEF QueueKept
  <2> QED
    BY <1>1, <1>2, <2>1, ParkFrame, TogetherFacts DEF QueueInv, Apart
<1>5. CASE {"restore", "wrapper"} \cap happened' # {}
  <2>1. QueueKept'
    BY <1>5 DEF QueueKept
  <2> QED
    BY <1>1, <1>2, <2>1, ParkFrame, TogetherFacts DEF QueueInv, Apart
<1> QED
  BY <1>3, <1>4, <1>5, RenameUmountEffect DEF Steps, Flags

LEMMA RenameSaveQueue ==
  ASSUME TypeOK, Typed, Shaped, QueueInv, NEW j \in Jobs, RenameSave(j), History
  PROVE  QueueInv'
<1>1. plugged' = plugged /\ Rows' = Rows /\ happened \subseteq happened' /\ queue' = queue
  BY RenameSaveEffect DEF SameInner, SameLibrary, AtMost, Rows
<1>2. SameRename(j)
  BY RenameSaveEffect, JobFacts DEF SameRename, Stops, Flags
<1>3. CASE job[j].parked => job'[j].parked
  BY <1>1, <1>2, <1>3, QueueFrame
<1>4. CASE "save" \in happened'
  <2>1. QueueKept'
    BY <1>4 DEF QueueKept
  <2> QED
    BY <1>1, <1>2, <2>1, ParkFrame, TogetherFacts DEF QueueInv, Apart
<1> QED
  BY <1>3, <1>4, RenameSaveEffect DEF Flags

\* The rename has found the volume again.
LEMMA RenameRestoreQueue ==
  ASSUME TypeOK, Typed, Shaped, QueueInv, NEW j \in Jobs, RenameRestore(j), History
  PROVE  QueueInv'
<1>1. /\ j \in Handlers /\ job[j].verb = "renamed" /\ job[j].pc = "restore" /\ plugged' = plugged
      /\ Rows' = Rows /\ happened \subseteq happened' /\ Stops(j)
  BY VerbOf, RenameRestoreEffect DEF ReconcilePhases, SameHost, SameInner, AtMost, Rows
<1>2. SameRename(j)
  BY <1>1, JobFacts DEF SameRename, Stops
<1>3. CASE ~job[j].parked /\ queue' = queue
  BY <1>1, <1>2, <1>3, QueueFrame
<1>4. CASE queue' \in Names
  <2>1. QueueKept'
    BY <1>4, NamesAssumption DEF QueueKept
  <2> QED
    BY <1>1, <1>2, <2>1, ParkFrame, TogetherFacts DEF QueueInv, Apart
<1>5. CASE job[j].parked /\ Rows = {}
  <2>1. crossed \/ together
    BY <1>1, <1>5 DEF QueueInv, ParkInv, ParkAt
  <2>2. crossed' \/ together'
    BY <2>1, HistoryFacts
  <2> QED
    BY <1>1, <1>2, <2>2, ParkFrame, TogetherFacts DEF QueueInv, Apart, QueueKept
<1>6. CASE "restore" \in happened'
  <2>1. QueueKept'
    BY <1>6 DEF QueueKept
  <2> QED
    BY <1>1, <1>2, <2>1, ParkFrame, TogetherFacts DEF QueueInv, Apart
<1> QED
  BY <1>3, <1>4, <1>5, <1>6, RenameRestoreEffect

LEMMA RemoveDropQueue ==
  ASSUME TypeOK, Typed, Shaped, QuietInv, QueueInv, NEW j \in Jobs, RemoveDrop(j), History
  PROVE  QueueInv'
<1>1. /\ j \in Handlers /\ job[j].verb = "remove" /\ job[j].pc = "rdrop" /\ plugged' = plugged
      /\ happened' = happened /\ Others(j) /\ queue' = queue /\ job'[j].verb = "remove"
      /\ job'[j].parked = job[j].parked
  BY VerbOf, RemoveDropEffect
     DEF ReconcilePhases, SameHost, SameBounds, SameLibrary, Steps, Task, Flags
<1>2. \A h \in Handlers : job[h].parked => job'[h].parked
  BY <1>1, JobFacts DEF Others
<1>3. ParkInv'
  <2> SUFFICES ASSUME ~crossed', ~together', NEW h \in Handlers PROVE ParkAt(h)'
    BY DEF ParkInv, ParkAt
  <2>1. ~job[j].parked
    BY <1>1, Parkers
  <2>2. CASE h = j
    BY <1>1, <2>1, <2>2 DEF ParkAt
  <2>3. CASE h # j
    <3>1. h \in Jobs /\ h # "tick" /\ job'[h] = job[h]
      BY <1>1, <2>3, JobFacts DEF Others
    <3>2. job[h].pc = "idle"
      BY <1>1, <2>3, <3>1, OneVerb, HistoryFacts
    <3>3. ~job[h].parked /\ job[h].verb # "rename"
      BY <3>1, <3>2, Parkers DEF Shaped, JobsInv, At
    <3> QED
      BY <3>1, <3>3 DEF ParkAt
  <2> QED
    BY <2>2, <2>3
<1> QED
  BY <1>1, <1>2, <1>3, KeptFrame, TogetherFacts DEF QueueInv, Apart

LEMMA SpawnedRetractQueue ==
  ASSUME TypeOK, Typed, Shaped, QueueInv, NEW id \in CardIds, SpawnedRetract(id), History
  PROVE  QueueInv'
<1>1. job' = job /\ plugged' = plugged /\ Rows' = Rows /\ queue' = queue /\ happened \subseteq happened'
  BY SpawnedRetractEffect DEF SameHost, SameInner, Drops, AtMost, Rows
<1>2. ParkInv'
  BY <1>1, HistoryFacts DEF QueueInv, ParkInv, ParkAt
<1> QED
  BY <1>1, <1>2, KeptFrame, TogetherFacts DEF QueueInv, Apart

LEMMA PlugQueue ==
  ASSUME TypeOK, Typed, Shaped, QueueInv, Plug, History
  PROVE  QueueInv'
<1>1. job' = job /\ plugged' /\ Rows' = Rows /\ queue' = queue /\ happened \subseteq happened'
  BY PlugEffect DEF SameInner, SameLibrary, SameBounds, Rows
<1>2. ParkInv'
  BY <1>1, HistoryFacts DEF QueueInv, ParkInv, ParkAt
<1> QED
  BY <1>1, <1>2, KeptFrame, TogetherFacts DEF QueueInv, Apart

LEMMA YankQueue ==
  ASSUME TypeOK, Typed, Shaped, QueueInv, Yank, History, Shaped', Typed'
  PROVE  QueueInv'
<1>1. /\ job' = job /\ queue' = queue /\ happened \subseteq happened'
      /\ "yank" \in happened' \ happened
  BY YankEffect DEF SameLibrary, AtMost
<1>2. ParkInv'
  <2> SUFFICES ASSUME ~crossed', ~together', NEW h \in Handlers PROVE ParkAt(h)'
    BY DEF ParkInv, ParkAt
  <2>1. h \in Jobs /\ job[h].pc = "idle"
    BY <1>1, CrossedFacts, JobFacts
  <2>2. ~job[h].parked /\ job[h].verb # "rename"
    BY <2>1, Parkers, JobFacts DEF Shaped, JobsInv, At
  <2> QED
    BY <1>1, <2>2 DEF ParkAt
<1> QED
  BY <1>1, <1>2, KeptFrame, TogetherFacts DEF QueueInv, Apart

\* Tracks that a restart leaves parked belonged to a rename it interrupted.
LEMMA RestartQueue ==
  ASSUME TypeOK, Typed, Shaped, QueueInv, Restart, History
  PROVE  QueueInv'
<1>1. /\ \A h \in Handlers : job'[h].verb = "tick" /\ ~job'[h].parked
      /\ queue' = queue /\ happened \subseteq happened' /\ "restart" \in happened' \ happened
  BY RestartEffect, JobFacts DEF AtMost
<1>2. ParkInv'
  BY <1>1 DEF ParkInv, ParkAt
<1>3. QueueKept'
  <2>1. ASSUME NEW h \in Handlers, job[h].parked PROVE crossed'
    BY <1>1, <2>1, CrossedFacts, Parkers, JobFacts
  <2>2. QueueKept
    BY DEF QueueInv
  <2> QED
    BY <1>1, <2>1, <2>2, HistoryFacts DEF QueueKept
<1> QED
  BY <1>2, <1>3, TogetherFacts DEF QueueInv, Apart

LEMMA RequestQueue ==
  ASSUME TypeOK, Typed, Shaped, QueueInv, NEW h \in Handlers, Request(h), History
  PROVE  QueueInv'
<1>1. PICK v \in Verbs, n \in Names, to \in Names \cup {None} : Arrives(h, v, n, to)
  BY RequestEffect
<1>2. job[h].pc = "idle" /\ h \in Jobs
  BY <1>1, Newcomer, JobFacts
<1>3. ~job[h].parked
  BY <1>2, Parkers
<1>4. SameRename(h) /\ plugged' = plugged /\ Rows' = Rows /\ queue' = queue /\ happened' = happened
  BY <1>1 DEF Arrives, SameRename, SameHost, SameLibrary, Rows
<1> QED
  BY <1>2, <1>3, <1>4, QueueFrame

LEMMA NextQueue ==
  ASSUME TypeOK, Shaped, QuietInv, QueueInv, Next
  PROVE  QueueInv'
<1>1. Typed /\ Typed' /\ Shaped' /\ History
  BY NextType DEF Next, TypeOK, Typed
<1>2. ASSUME NEW j \in Jobs, JobStep(j) PROVE QueueInv'
  BY <1>1, <1>2, ReadQueue, SwapQueue, ForceGoneQueue, RetractQueue, AutoMountQueue, MountQueue,
     CardQueue, SetMountedQueue, AdoptQueue, AdoptCardQueue, AdoptSetQueue, MountLookupQueue,
     RemoveLookupQueue, RemoveUmountQueue, RemoveForceQueue, RemoveRetractQueue,
     RemoveDropQueue, RemoveSafeQueue, RepairLookupQueue, RepairUmountQueue, FsckBeginsQueue,
     FsckEndsQueue, RenameLookupQueue, RenameUmountQueue, RenameStopQueue, RenameSaveQueue,
     RenameRestoreQueue DEF JobStep
<1> QED
  BY <1>1, <1>2, ReadFailsQueue, SpawnedRetractQueue, StartTickQueue, YankQueue, PlugQueue,
     RestartQueue, RequestQueue DEF Next

(***************************************************************************)
(* OneCard.                                                                *)
(***************************************************************************)
\* A step before and after which everything went its own way.
Between ==
  /\ TypeOK /\ Typed /\ Shaped /\ QuietInv /\ QueueInv /\ NoVolume /\ Undisturbed /\ Fit
  /\ History /\ Shaped' /\ QuietInv' /\ Apart' /\ Undisturbed'

LEMMA BetweenFacts ==
  ASSUME Between
  PROVE  /\ Quiet /\ Quiet' /\ (\A h \in Handlers : VerbAt(h) /\ VerbAt(h)')
         /\ (\A j, k \in Reconciling : j = k) /\ (\A j, k \in Reconciling' : j = k)
         /\ \A h, k \in Handlers : job[h].pc # "idle" /\ job[k].pc # "idle" => h = k
         /\ "yank" \notin happened' /\ "carddrop" \notin happened' /\ "yank" \notin happened
         /\ CardsMounted /\ CardsFit /\ Live \subseteq {Id}
         /\ (\A n \in Rows : RowFits(n)) /\ (\A j \in Jobs : JobFits(j))
<1>1. Quiet /\ Quiet' /\ ~crossed /\ ~together /\ ~together'
  BY DEF Between, Undisturbed, Quiet
<1>2. \A h \in Handlers : VerbAt(h) /\ VerbAt(h)'
  BY <1>1 DEF Between, QuietInv
<1>3. (\A j, k \in Reconciling : j = k) /\ (\A j, k \in Reconciling' : j = k)
  BY <1>1 DEF Between, QueueInv, Apart
<1>4. \A h, k \in Handlers : job[h].pc # "idle" /\ job[k].pc # "idle" => h = k
  BY <1>1 DEF Between, QuietInv, Alone, Busy
<1>5. "yank" \notin happened' /\ "carddrop" \notin happened' /\ "yank" \notin happened
  BY DEF Between, Undisturbed
<1> QED
  BY <1>1, <1>2, <1>3, <1>4, <1>5 DEF Between, Fit

\* The rows, the id and what is mounted stay.
SameView == /\ drives' = drives /\ alias' = alias
            /\ \A n \in Names : (mounts'[n] = "live") <=> (mounts[n] = "live")
LEMMA SameViewFacts ==
  ASSUME SameView
  PROVE  /\ Id' = Id /\ Live' = Live /\ Rows' = Rows
         /\ \A n : (CleanRow(n)' <=> CleanRow(n)) /\ (HasCard(n)' <=> HasCard(n))
  BY DEF SameView, Id, Live, Rows, CleanRow, HasCard

\* Cards only go.
FewerCards == cards' \subseteq cards /\ Real' \subseteq Real
\* No card joins those that are being dropped at the mount point of another.
Unmixed == \A c \in Real', d \in cards' \ Real' : c.at = d.at => d \in cards \ Real

LEMMA SameJobFits ==
  ASSUME Typed, Shaped, NEW k \in Jobs, JobFits(k), job'[k] = job[k], SameView, FewerCards
  PROVE  JobFits(k)'
<1>1. /\ Id' = Id /\ Live' = Live /\ Rows' = Rows /\ drives' = drives
      /\ (\A n : (CleanRow(n)' <=> CleanRow(n)) /\ (HasCard(n)' <=> HasCard(n)))
      /\ Target(k)' = Target(k) /\ ((k \in Mounting') <=> (k \in Mounting))
  BY SameViewFacts DEF Target, Mounting, SameView
<1>2. \A n \in Names : (mounts'[n] = "live") <=> (mounts[n] = "live")
  BY DEF SameView
<1>3. Id \in Names
  BY NamesAssumption DEF Id, Typed
<1>4. MountFits(k)'
  BY <1>1, <1>2, <1>3 DEF JobFits, MountFits, FewerCards
<1>5. AdoptFits(k)'
  BY <1>1 DEF JobFits, AdoptFits, FewerCards
<1>6. RemoveFits(k)'
  <2>1. job[k].pc = "rforce" => job[k].id \in Names
    BY VerbOf DEF ReconcilePhases
  <2> QED
    BY <1>1, <1>2, <2>1 DEF JobFits, RemoveFits
<1>7. VerbFits(k)'
  BY <1>1 DEF JobFits, VerbFits, FewerCards
<1> QED
  BY <1>4, <1>5, <1>6, <1>7 DEF JobFits

\* Job j is not the one that a row or a card waits for.
Spares(j) ==
  /\ job[j].pc \in {"card", "set"} => job'[j].pc \in {"card", "set"} /\ Target(j)' = Target(j)
  /\ job[j].pc = "set" => job'[j].pc = "set"
  /\ \A c \in Real' : Off(j, c) => Off(j, c)'
\* Job j has refreshed before, unless it has yet to.
Refreshes(j) ==
  j \in Reconciling' => \/ job'[j].pc \in {"read", "swap"}
                        \/ j \in Reconciling /\ job[j].pc \notin {"read", "swap"}
                        \/ Rows \subseteq {Id}

LEMMA StillFit ==
  ASSUME Between, NEW j \in Jobs, Others(j), SameView, FewerCards,
         Unmixed, JobFits(j)', Spares(j), Refreshes(j)
  PROVE  Fit'
<1>1. /\ Id' = Id /\ Live' = Live /\ Rows' = Rows /\ drives' = drives
      /\ (\A n : (CleanRow(n)' <=> CleanRow(n)) /\ (HasCard(n)' <=> HasCard(n)))
  BY SameViewFacts DEF SameView
<1>2. \A n \in Names : (mounts'[n] = "live") <=> (mounts[n] = "live")
  BY DEF SameView
<1>3. ASSUME NEW n, BeingSet(n) PROVE BeingSet(n)'
  <2>1. PICK k \in Jobs : job[k].pc = "set" /\ Target(k) = n
    BY <1>3 DEF BeingSet
  <2>2. job'[k].pc = "set" /\ Target(k)' = n
    BY <2>1 DEF Spares, Others, Target
  <2> QED
    BY <2>2 DEF BeingSet
<1>4. ASSUME NEW h \in Handlers, NEW c \in Real', Off(h, c) PROVE Off(h, c)'
  <2>1. h # j => job'[h] = job[h]
    BY JobFacts DEF Others
  <2> QED
    BY <1>4, <2>1 DEF Spares, Off
<1>5. CardsMounted'
  <2> SUFFICES ASSUME NEW c \in Real' PROVE mounts'[c.at] = "live" \/ \E h \in Handlers : Off(h, c)'
    BY DEF CardsMounted
  <2>1. c \in Real /\ c.at \in Names
    BY DEF FewerCards, Real, Between, Typed
  <2>2. mounts[c.at] = "live" \/ \E h \in Handlers : Off(h, c)
    BY <2>1, BetweenFacts DEF CardsMounted
  <2> QED
    BY <1>2, <1>4, <2>1, <2>2
<1>6. CardsFit'
  <2>1. CardsFit
    BY BetweenFacts
  <2>2. \A c \in Real' : HasCard(c.at)' => c.id = drives[c.at].lib \/ BeingSet(c.at)'
    BY <1>1, <1>3, <2>1 DEF CardsFit, FewerCards
  <2>3. \A c \in Real', d \in cards' \ Real' :
          c.at = d.at => HasCard(c.at)' \/ BeingSet(c.at)'
    BY <1>1, <1>3, <2>1 DEF CardsFit, FewerCards, Unmixed
  <2>4. \A c, d \in Real' : c.at = d.at => c = d
    BY <2>1 DEF CardsFit, FewerCards
  <2> QED
    BY <1>1, <2>2, <2>3, <2>4 DEF CardsFit
<1>7. ASSUME NEW n \in Rows' PROVE RowFits(n)'
  <2>1. n \in Rows /\ n \in Names /\ RowFits(n)
    BY <1>1, <1>7, BetweenFacts DEF Rows
  <2>2. ASSUME NEW k \in Jobs, job[k].pc \in {"card", "set"}, Target(k) = n
        PROVE  job'[k].pc \in {"card", "set"} /\ Target(k)' = n
    BY <2>2 DEF Spares, Others, Target
  <2>3. ASSUME n # Id, NEW k \in Reconciling' PROVE job'[k].pc \in {"read", "swap"}
    <3>1. \A i \in Reconciling : job[i].pc \in {"read", "swap"}
      BY <2>1, <2>3 DEF RowFits
    <3>2. CASE k = j
      BY <2>1, <2>3, <3>1, <3>2 DEF Refreshes
    <3>3. CASE k # j
      <4>1. k \in Jobs /\ job'[k] = job[k]
        BY <2>3, <3>3 DEF Reconciling, Others
      <4>2. k \in Reconciling
        BY <2>3, <4>1 DEF Reconciling
      <4> QED
        BY <3>1, <4>1, <4>2
    <3> QED
      BY <3>2, <3>3
  <2> QED
    BY <1>1, <1>2, <2>1, <2>2, <2>3 DEF RowFits
<1>8. ASSUME NEW k \in Jobs PROVE JobFits(k)'
  <2>1. CASE k = j
    BY <2>1
  <2>2. CASE k # j
    BY <2>2, BetweenFacts, SameJobFits DEF Others, Between
  <2> QED
    BY <2>1, <2>2
<1>9. Live' \subseteq {Id}'
  BY <1>1, BetweenFacts
<1> QED
  BY <1>5, <1>6, <1>7, <1>8, <1>9 DEF Fit

Light == {"idle", "read", "swap", "auto", "adopt", "mlookup", "flookup", "nlookup", "restore",
          "rsafe"}
LEMMA LightFits ==
  ASSUME NEW j \in Jobs, job'[j].pc \in Light,
         job'[j].verb = "renamed" /\ job'[j].pc \in {"read", "swap"} => Live' = {}
  PROVE  JobFits(j)'
  BY DEF Light, JobFits, MountFits, AdoptFits, RemoveFits, VerbFits, Mounting

LEMMA StopFits ==
  ASSUME NEW j \in Jobs, Stops(j)
  PROVE  Others(j) /\ job'[j].pc = "idle" /\ JobFits(j)' /\ Refreshes(j)
<1>1. job'[j].pc = "idle" /\ job'[j].verb = "tick"
  BY JobFacts DEF Stops
<1> QED
  BY <1>1, LightFits DEF Light, Stops, Refreshes, Reconciling

\* A reconcile that has refreshed leaves no row but that of the id.
LEMMA RefreshedId ==
  ASSUME Between, NEW j \in Reconciling, job[j].pc \notin {"read", "swap"}, NEW n \in Rows
  PROVE  n = Id
  BY BetweenFacts DEF RowFits

\* No row that waits for its mount is mounted.
LEMMA NotYetLive ==
  ASSUME Between, NEW j \in Reconciling, job[j].pc \notin {"card", "set"}, NEW n \in Rows,
         ~CleanRow(n)
  PROVE  mounts[n] # "live"
<1> SUFFICES ASSUME mounts[n] = "live" PROVE FALSE
  OBVIOUS
<1>1. PICK k \in Jobs : job[k].pc \in {"card", "set"} /\ Target(k) = n
  BY BetweenFacts DEF RowFits
<1>2. k \in Reconciling
  BY <1>1 DEF Reconciling
<1> QED
  BY <1>1, <1>2, BetweenFacts

\* No mount is being recorded while another reconcile works.
LEMMA NotBeingSet ==
  ASSUME Between, NEW j \in Reconciling, job[j].pc \notin MountPhases
  PROVE  Mounting = {} /\ \A n : ~BeingSet(n)
<1>1. ASSUME NEW k \in Mounting PROVE FALSE
  <2>1. k \in Reconciling /\ job[k].pc \in MountPhases
    BY <1>1 DEF Reconciling, Mounting, MountPhases
  <2> QED
    BY <2>1, BetweenFacts
<1> QED
  BY <1>1 DEF BeingSet, Mounting

LEMMA SameViewOf ==
  ASSUME SameHost, drives' = drives
  PROVE  SameView
  BY DEF SameHost, SameView

LEMMA SameCards ==
  ASSUME cards' = cards, retracts' = retracts
  PROVE  FewerCards /\ Real' = Real /\ Unmixed
  BY DEF FewerCards, Real, Unmixed

LEMMA DroppedCards ==
  ASSUME NEW id, Drops(id), retracts' = retracts
  PROVE  FewerCards /\ Unmixed
  BY DEF FewerCards, Real, Drops, Unmixed

\* A job that stops and leaves everything else alone.
LEMMA StoppedFit ==
  ASSUME Between, NEW j \in Jobs, Stops(j), job[j].pc \notin {"card", "set", "rretract", "nstop"},
         SameView, cards' = cards, retracts' = retracts
  PROVE  Fit'
<1>1. Spares(j)
  BY DEF Spares, Off
<1> QED
  BY <1>1, StopFits, SameCards, StillFit

LEMMA ReadFit ==
  ASSUME Between, NEW j \in Jobs, Read(j)
  PROVE  Fit'
<1>1. Typed
  BY DEF Between
<1>2. /\ job[j].pc = "read" /\ job'[j].pc = "swap" /\ Others(j) /\ job'[j].verb = job[j].verb
      /\ SameView /\ cards' = cards /\ retracts' = retracts
  BY <1>1, ReadEffect, SameViewOf DEF Task, SameInner, SameLibrary
<1>3. job[j].verb = "renamed" => Live' = {}
  BY <1>2, BetweenFacts, SameViewFacts DEF JobFits, VerbFits
<1>4. JobFits(j)'
  BY <1>2, <1>3, LightFits DEF Light
<1>5. Spares(j) /\ Refreshes(j)
  BY <1>2 DEF Spares, Off, Refreshes
<1> QED
  BY <1>2, <1>4, <1>5, SameCards, StillFit

LEMMA ReadFailsFit ==
  ASSUME Between, NEW j \in Jobs, ReadFails(j)
  PROVE  Fit'
<1>1. Typed
  BY DEF Between
<1>2. job[j].pc = "read" /\ Stops(j) /\ SameView /\ cards' = cards /\ retracts' = retracts
  BY <1>1, ReadFailsEffect, SameViewOf DEF SameInner, SameLibrary
<1> QED
  BY <1>2, StoppedFit

LEMMA ForceGoneFit ==
  ASSUME Between, NEW j \in Jobs, ForceGone(j)
  PROVE  Fit'
<1>1. Typed /\ Shaped
  BY DEF Between
<1>2. /\ job[j].pc = "force" /\ Steps(j, "retract") /\ cards' = cards /\ retracts' = retracts
      /\ alias' = alias /\ drives' = drives
      /\ mounts' = mounts \/ mounts' = [mounts EXCEPT ![job[j].point] = "none"]
  BY <1>1, ForceGoneEffect DEF SameInner, SameLibrary
<1>3. Live = {}
  BY <1>2, BetweenFacts DEF JobFits, VerbFits
<1>4. SameView
  BY <1>1, <1>2, <1>3 DEF SameView, Live, Typed
<1>5. job'[j].pc = "retract" /\ Others(j)
  BY <1>2 DEF Steps
<1>6. JobFits(j)'
  BY <1>3, <1>4, <1>5, SameViewFacts
     DEF JobFits, MountFits, AdoptFits, RemoveFits, VerbFits, Mounting
<1>7. Spares(j) /\ Refreshes(j)
  BY <1>2 DEF Spares, Off, Refreshes, Reconciling
<1> QED
  BY <1>2, <1>4, <1>5, <1>6, <1>7, SameCards, StillFit

LEMMA RetractFit ==
  ASSUME Between, NEW j \in Jobs, Retract(j)
  PROVE  Fit'
<1>1. Typed
  BY DEF Between
<1>2. /\ job[j].pc = "retract" /\ job'[j].pc = AfterRefresh(j) /\ Others(j) /\ SameView
      /\ job'[j].verb = job[j].verb /\ Drops(job[j].lib) /\ retracts' = retracts
  BY <1>1, RetractEffect, SameViewOf DEF SameInner, Task
<1>3. JobFits(j)'
  <2>1. CASE job[j].verb = "remove"
    <3>1. job'[j].pc = "rlookup" /\ Live' \subseteq Rows'
      BY <1>2, <2>1, BetweenFacts, SameViewFacts DEF AfterRefresh, JobFits, RemoveFits
    <3> QED
      BY <3>1 DEF JobFits, MountFits, AdoptFits, RemoveFits, VerbFits, Mounting
  <2>2. CASE job[j].verb # "remove"
    BY <1>2, <2>2, LightFits DEF Light, AfterRefresh
  <2> QED
    BY <2>1, <2>2
<1>4. Spares(j) /\ Refreshes(j)
  BY <1>2 DEF Spares, Off, Refreshes, Reconciling
<1> QED
  BY <1>2, <1>3, <1>4, DroppedCards, StillFit

\* Job j starts to mount the row of its target.
LEMMA StartMountFits ==
  ASSUME Between, NEW j \in Reconciling, job[j].pc \notin {"read", "swap", "card", "set"},
         NEW n \in Rows, ~CleanRow(n) \/ mounts[n] # "live", job'[j].pc = "mount", Target(j)' = n, SameView
  PROVE  JobFits(j)'
<1>1. n = Id /\ n \in Names /\ drives[n] # None
  BY RefreshedId DEF Rows
<1>2. mounts[n] # "live"
  BY NotYetLive
<1>3. Id' = Id /\ drives' = drives /\ mounts'[n] # "live"
  BY <1>1, <1>2, SameViewFacts DEF SameView
<1>4. MountFits(j)'
  BY <1>1, <1>3 DEF MountFits
<1> QED
  BY <1>4 DEF JobFits, AdoptFits, RemoveFits, VerbFits

LEMMA AutoMountFit ==
  ASSUME Between, NEW j \in Jobs, AutoMount(j)
  PROVE  Fit'
<1>1. Typed
  BY DEF Between
<1>2. job[j].pc = "auto" /\ SameView /\ cards' = cards /\ retracts' = retracts /\ j \in Reconciling
  BY <1>1, AutoMountEffect, SameViewOf DEF SameInner, SameLibrary, Reconciling
<1>3. Spares(j) /\ Refreshes(j)
  BY <1>2 DEF Spares, Off, Refreshes
<1>4. Others(j) /\ JobFits(j)'
  <2>1. CASE Steps(j, "adopt")
    BY <2>1, LightFits DEF Light, Steps
  <2>2. CASE job'[j].pc = "mount" /\ job'[j].at \in Candidates /\ Others(j) /\ job'[j].auto
    <3>1. job'[j].at \in Rows /\ ~CleanRow(job'[j].at) /\ Target(j)' = job'[j].at
      BY <2>2 DEF Candidates, Rows, CleanRow, Target
    <3> QED
      BY <1>2, <2>2, <3>1, StartMountFits
  <2> QED
    BY <1>1, <2>1, <2>2, AutoMountEffect
<1> QED
  BY <1>2, <1>3, <1>4, SameCards, StillFit

LEMMA MountLookupFit ==
  ASSUME Between, NEW j \in Jobs, MountLookup(j)
  PROVE  Fit'
<1>1. Typed /\ Shaped
  BY DEF Between
<1>2. job[j].pc = "mlookup" /\ SameView /\ cards' = cards /\ retracts' = retracts /\ j \in Reconciling
  BY <1>1, MountLookupEffect, SameViewOf DEF SameInner, SameLibrary, Reconciling
<1>3. CASE Stops(j)
  BY <1>2, <1>3, StoppedFit
<1>4. CASE Steps(j, "mount") /\ drives[job[j].id] # None /\ ~CleanRow(job[j].id)
  <2>1. job[j].id \in Names /\ ~job[j].auto
    BY <1>1, <1>2, VerbOf DEF ReconcilePhases
  <2>2. job[j].id \in Rows /\ Target(j)' = job[j].id /\ job'[j].pc = "mount" /\ Others(j)
    BY <1>4, <2>1 DEF Rows, Target, Steps, Task, Flags
  <2>3. JobFits(j)'
    BY <1>2, <1>4, <2>2, StartMountFits
  <2>4. Spares(j) /\ Refreshes(j)
    BY <1>2 DEF Spares, Off, Refreshes
  <2> QED
    BY <1>2, <2>2, <2>3, <2>4, SameCards, StillFit
<1> QED
  BY <1>1, <1>3, <1>4, MountLookupEffect

LEMMA AdoptFit ==
  ASSUME Between, NEW j \in Jobs, Adopt(j)
  PROVE  Fit'
<1>1. Typed /\ Shaped
  BY DEF Between
<1>2. job[j].pc = "adopt" /\ SameView /\ cards' = cards /\ retracts' = retracts /\ j \in Reconciling
  BY <1>1, AdoptEffect, SameViewOf DEF SameInner, SameLibrary, Reconciling
<1>3. Spares(j) /\ Refreshes(j)
  BY <1>2 DEF Spares, Off, Refreshes
<1>4. CASE Stops(j)
  BY <1>2, <1>4, StoppedFit
<1>5. CASE Reconciled(j) /\ job[j].verb \in Goers
  <2>1. Others(j) /\ job'[j].pc \in {"mlookup", "flookup", "nlookup", "restore"}
    BY <1>5 DEF Reconciled, NextPhase
  <2> QED
    BY <1>2, <1>3, <2>1, LightFits, SameCards, StillFit DEF Light
<1>6. CASE /\ Others(j) /\ Bare(job'[j].at)
           /\ \/ /\ job'[j].pc = "acard" /\ job'[j].point = drives[job'[j].at].root
                 /\ \A c \in cards : c.at # job'[j].point
              \/ /\ job'[j].pc = "aset"
                 /\ \E c \in cards : c.at = drives[job'[j].at].root /\ c.id = job'[j].lib
  <2> DEFINE n == job'[j].at
  <2>1. n \in Rows /\ CleanRow(n) /\ ~HasCard(n) /\ RowFits(n)
    BY <1>6, BetweenFacts DEF Bare, Rows, CleanRow, HasCard
  <2>2. drives[n].root = n /\ ~BeingSet(n)
    BY <1>2, <2>1, NotBeingSet DEF RowFits, MountPhases
  <2>3. drives' = drives /\ Real' = Real
    BY <1>2, SameCards DEF SameView
  <2>4. drives'[n] # None /\ drives'[n].class = "clean" /\ drives'[n].lib = 0
    BY <1>6, <2>3 DEF Bare, CleanRow
  <2>5. ASSUME NEW c \in cards, c.at = n, NEW e \in Real, e.at = n PROVE e.id = c.id
    <3>1. c \in Real
      BY <2>1, <2>2, <2>5, BetweenFacts DEF CardsFit
    <3> QED
      BY <2>5, <3>1, BetweenFacts DEF CardsFit
  <2>6. AdoptFits(j)'
    BY <1>2, <1>6, <2>2, <2>3, <2>4, <2>5 DEF AdoptFits, CleanRow, HasCard
  <2>7. JobFits(j)'
    BY <1>6, <2>6 DEF JobFits, MountFits, RemoveFits, VerbFits, Mounting
  <2> QED
    BY <1>2, <1>3, <1>6, <2>7, SameCards, StillFit
<1> QED
  BY <1>1, <1>4, <1>5, <1>6, AdoptEffect DEF Reconciled

\* The verbs that take a row off know its card.
LEMMA LookupKnows ==
  ASSUME Between, NEW j \in Handlers, job[j].pc \in {"rlookup", "flookup", "nlookup"},
         CleanRow(job[j].id)
  PROVE  HasCard(job[j].id)
<1>1. ~Cardless(j)
  BY TogetherFacts DEF Between, Undisturbed
<1> QED
  BY <1>1 DEF Cardless, CleanRow, HasCard

LEMMA RemoveLookupFit ==
  ASSUME Between, NEW j \in Jobs, RemoveLookup(j)
  PROVE  Fit'
<1> DEFINE n == job[j].id
<1>1. Typed /\ Shaped
  BY DEF Between
<1>2. job[j].pc = "rlookup" /\ SameView /\ cards' = cards /\ retracts' = retracts
  BY <1>1, RemoveLookupEffect, SameViewOf DEF SameLibrary
<1>3. j \in Handlers /\ job[j].verb = "remove" /\ n \in Names /\ ~job[j].clean /\ ~job[j].known
  <2>1. At(j, job[j])
    BY <1>1 DEF Shaped, JobsInv
  <2> QED
    BY <1>1, <1>2, <2>1, VerbOf DEF ReconcilePhases, TakingOff, At
<1>4. Live' \subseteq Rows' /\ Live' = Live /\ Rows' = Rows /\ drives' = drives
  BY <1>2, <1>3, BetweenFacts, SameViewFacts DEF JobFits, RemoveFits, SameView
<1>5. Spares(j)
  BY <1>2 DEF Spares, Off
<1>6. CASE drives[n] = None /\ Steps(j, "rforce")
  <2>1. /\ job'[j].pc = "rforce" /\ job'[j].id = n /\ ~job'[j].known /\ ~job'[j].clean
        /\ job'[j].verb = "remove" /\ Others(j)
    BY <1>3, <1>6 DEF Steps, Task, Flags
  <2>2. mounts'[n] # "live"
    BY <1>3, <1>4, <1>6 DEF Live, Rows
  <2>3. JobFits(j)' /\ Refreshes(j)
    BY <2>1, <2>2 DEF JobFits, MountFits, AdoptFits, RemoveFits, VerbFits, Mounting, Refreshes,
                      Reconciling
  <2> QED
    BY <1>2, <1>5, <2>1, <2>3, SameCards, StillFit
<1>7. CASE /\ drives[n] # None /\ Others(j) /\ Task(job'[j], job[j]) /\ job'[j].lib = drives[n].lib
           /\ job'[j].known
           /\ \/ drives[n].class \in {"clean", "hiberfile"} /\ job'[j].pc = "rumount" /\ job'[j].clean
              \/ drives[n].class \notin {"clean", "hiberfile"} /\ job'[j].pc = "rretract"
                 /\ ~job'[j].clean
  <2>1. drives[n].class # "hiberfile"
    <3>1. SettledAt(j) /\ Settled(j)
      BY <1>2, <1>3, BetweenFacts DEF VerbAt, Settled
    <3> QED
      BY <1>3, <1>7, <3>1 DEF SettledAt, Rows
  <2>2. job'[j].id = n /\ job'[j].verb = "remove"
    BY <1>3, <1>7 DEF Task
  <2>3. CASE job'[j].pc = "rumount" /\ drives[n].class = "clean"
    <3>1. HasCard(n)
      BY <1>2, <1>3, <1>7, <2>3, LookupKnows DEF CleanRow
    <3>2. drives'[n] # None /\ drives'[n].class = "clean" /\ drives'[n].lib # 0
          /\ drives'[n].lib = job'[j].lib
      BY <1>4, <1>7, <3>1 DEF HasCard, CleanRow
    <3>3. JobFits(j)' /\ Refreshes(j)
      BY <2>2, <2>3, <3>2 DEF JobFits, MountFits, AdoptFits, RemoveFits, VerbFits, Mounting,
                              Refreshes, Reconciling, HasCard, CleanRow
    <3> QED
      BY <1>2, <1>5, <1>7, <3>3, SameCards, StillFit
  <2>4. CASE job'[j].pc = "rretract" /\ drives[n].class # "clean" /\ ~job'[j].clean
    <3>1. drives'[n].class # "clean"
      BY <1>4, <2>4
    <3>2. JobFits(j)' /\ Refreshes(j)
      BY <2>2, <2>4, <3>1 DEF JobFits, MountFits, AdoptFits, RemoveFits, VerbFits, Mounting,
                              Refreshes, Reconciling, CleanRow
    <3> QED
      BY <1>2, <1>5, <1>7, <3>2, SameCards, StillFit
  <2> QED
    BY <1>7, <2>1, <2>3, <2>4
<1> QED
  BY <1>1, <1>6, <1>7, RemoveLookupEffect

LEMMA RemoveSafeFit ==
  ASSUME Between, NEW j \in Jobs, RemoveSafe(j)
  PROVE  Fit'
<1>1. Typed
  BY DEF Between
<1>2. job[j].pc = "rsafe" /\ Stops(j) /\ SameView /\ cards' = cards /\ retracts' = retracts
  BY <1>1, RemoveSafeEffect, SameViewOf DEF SameLibrary
<1> QED
  BY <1>2, StoppedFit

LEMMA RepairLookupFit ==
  ASSUME Between, NEW j \in Jobs, RepairLookup(j)
  PROVE  Fit'
<1> DEFINE n == job[j].id
<1>1. Typed /\ Shaped
  BY DEF Between
<1>2. job[j].pc = "flookup" /\ SameView /\ retracts' = retracts /\ j \in Reconciling
  BY <1>1, RepairLookupEffect, SameViewOf DEF SameInner, Reconciling
<1>3. j \in Handlers /\ job[j].verb = "repair" /\ n \in Names
  BY <1>1, <1>2, VerbOf DEF ReconcilePhases
<1>4. CASE Stops(j) /\ cards' = cards
  BY <1>2, <1>4, StoppedFit
<1>5. CASE /\ drives[n] # None /\ Others(j) /\ Task(job'[j], job[j]) /\ Drops(drives[n].lib)
           /\ \/ CleanRow(n) /\ job'[j].pc = "fumount"
              \/ ~CleanRow(n) /\ job'[j].pc = "fbegin"
  <2>1. job'[j].id = n /\ job'[j].verb = "repair"
    BY <1>3, <1>5 DEF Task
  <2>2. FewerCards /\ Unmixed
    BY <1>2, <1>5, DroppedCards
  <2>3. Spares(j) /\ Refreshes(j)
    BY <1>2 DEF Spares, Off, Refreshes
  <2>4. drives' = drives /\ Live' = Live
    BY <1>2, SameViewFacts DEF SameView
  <2>5. CASE CleanRow(n) /\ job'[j].pc = "fumount"
    <3>1. HasCard(n)
      BY <1>2, <1>3, <2>5, LookupKnows
    <3>2. drives'[n] # None /\ drives'[n].class = "clean" /\ drives'[n].lib # 0
      BY <2>4, <3>1 DEF HasCard, CleanRow
    <3>3. ASSUME NEW c \in Real', c.at = n PROVE FALSE
      <4>1. c \in Real /\ ~BeingSet(n)
        BY <1>2, <2>2, NotBeingSet, <3>3 DEF FewerCards, MountPhases
      <4>2. c.id = drives[n].lib
        BY <3>1, <3>3, <4>1, BetweenFacts DEF CardsFit
      <4>3. c \in cards'
        BY <3>3 DEF Real
      <4> QED
        BY <1>5, <4>2, <4>3, BetweenFacts DEF Drops
    <3>4. JobFits(j)'
      BY <2>1, <2>5, <3>2, <3>3 DEF JobFits, MountFits, AdoptFits, RemoveFits, VerbFits, Mounting,
                                    HasCard, CleanRow
    <3> QED
      BY <1>2, <1>5, <2>2, <2>3, <3>4, StillFit
  <2>6. CASE ~CleanRow(n) /\ job'[j].pc = "fbegin"
    <3>1. n \in Rows
      BY <1>3, <1>5 DEF Rows
    <3>2. n = Id /\ mounts[n] # "live"
      BY <1>2, <2>6, <3>1, RefreshedId, NotYetLive
    <3>3. Live' = {}
      BY <2>4, <3>2, BetweenFacts DEF Live
    <3>4. JobFits(j)'
      BY <1>5, <2>1, <2>4, <2>6, <3>3 DEF JobFits, MountFits, AdoptFits, RemoveFits, VerbFits,
                                          Mounting
    <3> QED
      BY <1>2, <1>5, <2>2, <2>3, <3>4, StillFit
  <2> QED
    BY <1>5, <2>5, <2>6
<1> QED
  BY <1>1, <1>4, <1>5, RepairLookupEffect

LEMMA RenameLookupFit ==
  ASSUME Between, NEW j \in Jobs, RenameLookup(j)
  PROVE  Fit'
<1> DEFINE n == job[j].id
<1>1. Typed /\ Shaped
  BY DEF Between
<1>2. /\ job[j].pc = "nlookup" /\ SameView /\ cards' = cards /\ retracts' = retracts
      /\ j \in Reconciling
  BY <1>1, RenameLookupEffect, SameViewOf DEF SameInner, Reconciling
<1>3. j \in Handlers /\ job[j].verb = "rename" /\ n \in Names
  BY <1>1, <1>2, VerbOf DEF ReconcilePhases
<1>4. CASE Stops(j)
  BY <1>2, <1>4, StoppedFit
<1>5. CASE /\ drives[n] # None /\ Others(j) /\ Task(job'[j], job[j]) /\ job'[j].lib = drives[n].lib
           /\ job'[j].pc = IF CleanRow(n) THEN "numount" ELSE "nstop"
  <2>1. job'[j].id = n /\ job'[j].verb = "rename"
    BY <1>3, <1>5 DEF Task
  <2>2. Spares(j) /\ Refreshes(j)
    BY <1>2 DEF Spares, Off, Refreshes
  <2>3. drives' = drives /\ Live' = Live /\ Real' = Real
    BY <1>2, SameViewFacts, SameCards DEF SameView
  <2>4. CASE CleanRow(n) /\ job'[j].pc = "numount"
    <3>1. HasCard(n)
      BY <1>2, <1>3, <2>4, LookupKnows
    <3>2. drives'[n] # None /\ drives'[n].class = "clean" /\ drives'[n].lib # 0
          /\ drives'[n].lib = job'[j].lib
      BY <1>5, <2>3, <3>1 DEF HasCard, CleanRow
    <3>3. JobFits(j)'
      BY <2>1, <2>4, <3>2 DEF JobFits, MountFits, AdoptFits, RemoveFits, VerbFits, Mounting,
                              HasCard, CleanRow
    <3> QED
      BY <1>2, <1>5, <2>2, <3>3, SameCards, StillFit
  <2>5. CASE ~CleanRow(n) /\ job'[j].pc = "nstop"
    <3>1. n \in Rows
      BY <1>3, <1>5 DEF Rows
    <3>2. n = Id /\ mounts[n] # "live"
      BY <1>2, <2>5, <3>1, RefreshedId, NotYetLive
    <3>3. Live = {}
      BY <3>2, BetweenFacts DEF Live
    <3>4. ASSUME NEW c \in Real PROVE FALSE
      <4>1. c.at \in Names
        BY <1>1, <3>4 DEF Real, Typed
      <4>2. PICK h \in Handlers : Off(h, c)
        BY <3>3, <3>4, <4>1, BetweenFacts DEF CardsMounted, Live
      <4>3. h = j
        BY <1>2, <1>3, <4>2, BetweenFacts DEF Off
      <4> QED
        BY <1>2, <4>2, <4>3 DEF Off
    <3>5. JobFits(j)'
      BY <2>1, <2>3, <2>5, <3>3, <3>4
         DEF JobFits, MountFits, AdoptFits, RemoveFits, VerbFits, Mounting
    <3> QED
      BY <1>2, <1>5, <2>2, <3>5, SameCards, StillFit
  <2> QED
    BY <1>5, <2>4, <2>5
<1> QED
  BY <1>1, <1>4, <1>5, RenameLookupEffect

LEMMA RenameStopFit ==
  ASSUME Between, NEW j \in Jobs, RenameStop(j)
  PROVE  Fit'
<1>1. Typed
  BY DEF Between
<1>2. /\ job[j].pc = "nstop" /\ job'[j].pc = "nsave" /\ Others(j) /\ Drops(job[j].lib)
      /\ retracts' = retracts /\ SameView /\ j \in Reconciling
  BY <1>1, RenameStopEffect, SameViewOf DEF SameInner, Reconciling
<1>3. Live' = {}
  BY <1>2, BetweenFacts, SameViewFacts DEF JobFits, VerbFits
<1>4. JobFits(j)'
  BY <1>2, <1>3 DEF JobFits, MountFits, AdoptFits, RemoveFits, VerbFits, Mounting
<1>5. ASSUME NEW c \in Real' PROVE ~Off(j, c)
  <2>1. c \in cards'
    BY <1>5 DEF Real
  <2> QED
    BY <1>2, <2>1, BetweenFacts DEF Drops, Off
<1>6. Spares(j) /\ Refreshes(j)
  BY <1>2, <1>5 DEF Spares, Refreshes
<1> QED
  BY <1>2, <1>4, <1>6, DroppedCards, StillFit

LEMMA RenameRestoreFit ==
  ASSUME Between, NEW j \in Jobs, RenameRestore(j)
  PROVE  Fit'
<1>1. Typed
  BY DEF Between
<1>2. job[j].pc = "restore" /\ Stops(j) /\ SameView /\ cards' = cards /\ retracts' = retracts
  BY <1>1, RenameRestoreEffect, SameViewOf DEF SameInner
<1> QED
  BY <1>2, StoppedFit

LEMMA StartTickFit ==
  ASSUME Between, StartTick
  PROVE  Fit'
<1>1. Typed /\ "tick" \in Jobs
  BY JobFacts DEF Between
<1>2. /\ job["tick"].pc = "idle" /\ Steps("tick", "read") /\ SameView
      /\ cards' = cards /\ retracts' = retracts
  BY <1>1, StartTickEffect, SameViewOf DEF SameInner, SameLibrary
<1>3. Others("tick") /\ job'["tick"].pc = "read" /\ job'["tick"].verb = job["tick"].verb
  BY <1>2 DEF Steps, Task
<1>4. job["tick"].verb = "tick"
  BY TickFacts DEF Between
<1>5. JobFits("tick")'
  BY <1>1, <1>3, <1>4, LightFits DEF Light
<1>6. Spares("tick") /\ Refreshes("tick")
  BY <1>2, <1>3 DEF Spares, Off, Refreshes
<1> QED
  BY <1>1, <1>2, <1>3, <1>5, <1>6, SameCards, StillFit

LEMMA RequestFit ==
  ASSUME Between, NEW h \in Handlers, Request(h)
  PROVE  Fit'
<1>1. Typed /\ Shaped /\ h \in Jobs
  BY JobFacts DEF Between
<1>2. PICK v \in Verbs, n \in Names, to \in Names \cup {None} : Arrives(h, v, n, to)
  BY <1>1, RequestEffect
<1>3. job[h].pc = "idle"
  BY <1>1, <1>2, Newcomer
<1>4. /\ Others(h) /\ job'[h].pc = "read" /\ job'[h].verb # "renamed" /\ SameView
      /\ cards' = cards /\ retracts' = retracts
  BY <1>2, SameViewOf DEF Arrives, Verbs, SameLibrary
<1>5. JobFits(h)'
  BY <1>1, <1>4, LightFits DEF Light
<1>6. Spares(h) /\ Refreshes(h)
  BY <1>3, <1>4 DEF Spares, Off, Refreshes
<1> QED
  BY <1>1, <1>4, <1>5, <1>6, SameCards, StillFit

\* No job moves.
LEMMA BystandersFit ==
  ASSUME Between, job' = job, SameView, FewerCards, Unmixed
  PROVE  Fit'
<1>1. "tick" \in Jobs /\ Typed /\ Shaped
  BY JobFacts DEF Between
<1>2. Others("tick")
  BY <1>1 DEF Others, Typed
<1>3. JobFits("tick")'
  BY <1>1, BetweenFacts, SameJobFits
<1>4. job["tick"].verb = "tick"
  BY <1>1, TickFacts
<1>5. Spares("tick") /\ Refreshes("tick")
  BY <1>4 DEF Spares, Off, Refreshes, Target, Reconciling
<1> QED
  BY <1>1, <1>2, <1>3, <1>5, StillFit

LEMMA PlugFit ==
  ASSUME Between, Plug
  PROVE  Fit'
<1>1. job' = job /\ SameView /\ cards' = cards /\ retracts' = retracts
  BY PlugEffect DEF SameView, SameInner, SameLibrary
<1> QED
  BY <1>1, SameCards, BystandersFit

LEMMA SpawnedRetractFit ==
  ASSUME Between, NEW id \in CardIds, SpawnedRetract(id)
  PROVE  Fit'
<1>1. /\ job' = job /\ SameView /\ retracts' = retracts \ {id} /\ Drops(id)
  BY SpawnedRetractEffect, SameViewOf DEF SameInner, Between
<1>2. cards' \subseteq cards /\ \A c \in cards' : c.id # id
  BY <1>1, BetweenFacts DEF Drops
<1>3. FewerCards /\ Unmixed
  BY <1>1, <1>2 DEF FewerCards, Real, Unmixed
<1> QED
  BY <1>1, <1>3, BystandersFit

\* Job k is no reconcile, and what it relies on stays.
Relies(k) ==
  /\ job'[k] = job[k] /\ k \notin Reconciling
  /\ job[k].clean /\ job[k].pc \in TakingOff =>
       drives'[job[k].id] = drives[job[k].id] /\ \A c \in Real' : c.at = job[k].id => c \in Real
  /\ job[k].pc \in {"rretract", "rdrop"} /\ ~CleanRow(job[k].id) =>
       ~(drives'[job[k].id] # None /\ drives'[job[k].id].class = "clean")
  /\ job[k].pc = "rforce" /\ mounts'[job[k].id] = "live" => mounts[job[k].id] = "live"
  /\ job[k].pc = "rlookup" => Live' \subseteq Rows'
LEMMA OutsideFits ==
  ASSUME Typed, Shaped, NEW k \in Jobs, JobFits(k), Relies(k)
  PROVE  JobFits(k)'
<1>1. At(k, job[k])
  BY DEF Shaped, JobsInv
<1>2. /\ job[k].verb # "renamed"
      /\ job[k].pc \notin {"swap", "force", "retract", "auto", "mount", "card", "set", "adopt",
                         "acard", "aset", "mlookup", "flookup", "fbegin", "fsck", "nlookup",
                         "numount", "nstop", "nsave"}
  BY DEF Relies, Reconciling
<1>3. MountFits(k)' /\ AdoptFits(k)'
  BY <1>2 DEF Relies, MountFits, AdoptFits, Mounting
<1>4. RemoveFits(k)'
  BY <1>2 DEF Relies, JobFits, RemoveFits, HasCard, CleanRow, TakingOff
<1>5. VerbFits(k)'
  <2>1. job[k].pc = "fumount" => job[k].clean
    BY <1>1 DEF At
  <2> QED
    BY <1>2, <2>1 DEF Relies, JobFits, VerbFits, HasCard, CleanRow, TakingOff
<1> QED
  BY <1>3, <1>4, <1>5 DEF JobFits

\* A reconcile that works alone keeps the others out.
LEMMA OthersOutside ==
  ASSUME Between, NEW j \in Reconciling, Others(j), NEW k \in Jobs, k # j
  PROVE  k \notin Reconciling /\ k \notin Reconciling' /\ job'[k] = job[k]
<1>1. k \notin Reconciling /\ job'[k] = job[k]
  BY BetweenFacts DEF Others
<1> QED
  BY <1>1 DEF Reconciling

\* A row that is not mounted is marked by the job that worked on it.
LEMMA MarkFit ==
  ASSUME Between, NEW j \in Jobs, job[j].pc \in {"mount", "fbegin", "fsck"}, Others(j),
         job'[j].pc \in {"idle", "adopt"}, mounts' = mounts, alias' = alias, cards' = cards,
         retracts' = retracts, NEW n \in Names, NEW c, c # "clean", Marks(n, c), mounts[n] # "live",
         \A x \in Real : x.at # n,
         \A h \in Handlers : h # j => ~(job[h].clean /\ job[h].pc \in TakingOff)
  PROVE  Fit'
<1>1. Typed /\ Shaped /\ j \in Reconciling
  BY DEF Between, Reconciling
<1>2. Id' = Id /\ Live' = Live /\ Real' = Real
  BY SameCards DEF Id, Live
<1>3. Rows' = Rows
  BY DEF Marks, Rows
<1>4. /\ \A m \in Names : m # n => drives'[m] = drives[m]
      /\ ~(drives'[n] # None /\ drives'[n].class = "clean")
  BY DEF Marks
<1>5. /\ \A k \in Jobs : job'[k].pc = "set" => job[k].pc = "set" /\ job'[k] = job[k]
      /\ \A k \in Jobs : job[k].pc \in {"card", "set"} => job'[k] = job[k]
  BY DEF Others
<1>6. \A m : BeingSet(m) => BeingSet(m)'
  BY <1>5 DEF BeingSet, Target
<1>7. CardsMounted'
  <2> SUFFICES ASSUME NEW x \in Real PROVE mounts[x.at] = "live" \/ \E h \in Handlers : Off(h, x)'
    BY <1>2 DEF CardsMounted
  <2>1. CASE mounts[x.at] = "live"
    BY <2>1
  <2>2. CASE mounts[x.at] # "live"
    <3>1. PICK h \in Handlers : Off(h, x)
      BY <2>2, BetweenFacts DEF CardsMounted
    <3>2. h # j /\ h \in Jobs
      BY <3>1, JobFacts DEF Off
    <3> QED
      BY <3>1, <3>2 DEF Off, Others
  <2> QED
    BY <2>1, <2>2
<1>8. CardsFit'
  <2>1. \A x \in Real : x.at \in Names /\ x.at # n
    BY <1>1 DEF Real, Typed
  <2>2. \A x \in Real : /\ drives'[x.at] = drives[x.at] /\ (HasCard(x.at)' <=> HasCard(x.at))
    BY <1>4, <2>1 DEF HasCard, CleanRow
  <2>3. CardsFit /\ cards' \ Real' = cards \ Real
    BY <1>2, BetweenFacts
  <2> QED
    BY <1>2, <1>6, <2>2, <2>3 DEF CardsFit
<1>9. ASSUME NEW m \in Rows' PROVE RowFits(m)'
  <2>1. m \in Rows /\ m \in Names /\ RowFits(m) /\ m = Id
    BY <1>1, <1>3, <1>9, BetweenFacts, RefreshedId DEF Rows
  <2> QED
    BY <1>2, <1>4, <1>5, <2>1 DEF RowFits, CleanRow, Target
<1>10. ASSUME NEW k \in Jobs PROVE JobFits(k)'
  <2>1. CASE k = j
    BY <2>1, LightFits DEF Light
  <2>2. CASE k # j
    <3>1. k \notin Reconciling /\ job'[k] = job[k]
      BY <1>1, <2>2, OthersOutside
    <3>2. ~(job[k].clean /\ job[k].pc \in TakingOff)
      BY <1>1, <2>2, TickFacts DEF Jobs
    <3>3. job[k].pc \in {"rretract", "rdrop"} => job[k].id \in Names
      BY <1>1, VerbOf DEF ReconcilePhases
    <3>4. job[k].pc = "rlookup" => Live \subseteq Rows
      <4>1. job[k].pc = "rlookup" => job[k].verb = "remove"
        BY <1>1, VerbOf DEF ReconcilePhases
      <4> QED
        BY <4>1, BetweenFacts DEF JobFits, RemoveFits
    <3>5. Relies(k)
      BY <1>2, <1>3, <1>4, <3>1, <3>2, <3>3, <3>4 DEF Relies, CleanRow
    <3> QED
      BY <1>1, <3>5, BetweenFacts, OutsideFits
  <2> QED
    BY <2>1, <2>2
<1>11. Live' \subseteq {Id}'
  BY <1>2, BetweenFacts
<1> QED
  BY <1>7, <1>8, <1>9, <1>10, <1>11 DEF Fit

\* While a verb works on a volume that is not mounted there is no card.
LEMMA NoRealCards ==
  ASSUME Between, Live = {}, NEW j \in Handlers, job[j].pc \notin {"idle", "rretract", "nstop"}
  PROVE  Real = {}
<1> SUFFICES ASSUME NEW c \in Real PROVE FALSE
  OBVIOUS
<1>1. c.at \in Names
  BY DEF Real, Typed, Between
<1>2. PICK h \in Handlers : Off(h, c)
  BY <1>1, BetweenFacts DEF CardsMounted, Live
<1>3. h = j
  BY <1>2, BetweenFacts DEF Off
<1> QED
  BY <1>2, <1>3 DEF Off

\* While a mount is under way every card is mounted.
LEMMA MountingCards ==
  ASSUME Between, NEW j \in Mounting, NEW c \in Real
  PROVE  mounts[c.at] = "live"
<1> SUFFICES ASSUME mounts[c.at] # "live" PROVE FALSE
  OBVIOUS
<1>1. PICK h \in Handlers : Off(h, c)
  BY BetweenFacts DEF CardsMounted
<1>2. job[h].pc # "rretract"
  BY BetweenFacts, MountsExclude DEF Between
<1>3. h \in Reconciling /\ j \in Reconciling /\ h # j
  BY <1>1, <1>2, JobFacts DEF Off, Reconciling, Mounting
<1> QED
  BY <1>3, BetweenFacts

\* While a mount is under way no verb takes a row off.
LEMMA MountingKeepsOut ==
  ASSUME Between, Mounting # {}, NEW k \in Jobs
  PROVE  /\ ~(job[k].clean /\ job[k].pc \in TakingOff)
         /\ job[k].pc \notin {"rlookup", "rforce", "rretract", "rdrop"}
<1>1. CASE k = "tick"
  <2>1. job["tick"].pc \in {"idle"} \cup ReconcilePhases
    BY TickFacts DEF Between
  <2> QED
    BY <1>1, <2>1 DEF ReconcilePhases, TakingOff
<1>2. CASE k \in Handlers
  <2>1. ~(job[k].clean /\ job[k].pc \in TakingOff) /\ job[k].pc \notin {"rretract", "rdrop"}
    BY <1>2, BetweenFacts, MountsExclude DEF Between
  <2>2. k \notin Exposed
    BY BetweenFacts DEF Between, QuietInv, Quiet
  <2> QED
    BY <1>2, <2>1, <2>2 DEF Exposed, TakingOff
<1> QED
  BY <1>1, <1>2 DEF Jobs

LEMMA FsckBeginsFit ==
  ASSUME Between, NEW j \in Jobs, FsckBegins(j)
  PROVE  Fit'
<1>1. Typed /\ Shaped
  BY DEF Between
<1>2. job[j].pc = "fbegin" /\ SameHost /\ cards' = cards /\ retracts' = retracts /\ j \in Reconciling
  BY <1>1, FsckBeginsEffect DEF SameLibrary, Reconciling
<1>3. j \in Handlers /\ job[j].id \in Names
  BY <1>1, <1>2, VerbOf DEF ReconcilePhases
<1>4. Live = {} /\ drives[job[j].id] # None
  BY <1>2, BetweenFacts DEF JobFits, VerbFits
<1>5. CASE Steps(j, "fsck") /\ drives' = drives
  <2>1. Others(j) /\ job'[j].pc = "fsck" /\ job'[j].id = job[j].id /\ SameView
    BY <1>2, <1>5, SameViewOf DEF Steps, Task
  <2>2. Live' = {} /\ drives'[job'[j].id] # None
    BY <1>4, <1>5, <2>1, SameViewFacts
  <2>3. JobFits(j)'
    BY <2>1, <2>2 DEF JobFits, MountFits, AdoptFits, RemoveFits, VerbFits, Mounting
  <2>4. Spares(j) /\ Refreshes(j)
    BY <1>2 DEF Spares, Off, Refreshes
  <2> QED
    BY <1>2, <2>1, <2>3, <2>4, SameCards, StillFit
<1>6. CASE Marks(job[j].id, "failed_dirty") /\ Stops(j)
  <2>1. Real = {}
    BY <1>2, <1>3, <1>4, NoRealCards
  <2>2. mounts[job[j].id] # "live"
    BY <1>3, <1>4 DEF Live
  <2>3. \A h \in Handlers : h # j => ~(job[h].clean /\ job[h].pc \in TakingOff)
    BY <1>2, <1>3, BetweenFacts DEF TakingOff
  <2> QED
    BY <1>2, <1>3, <1>6, <2>1, <2>2, <2>3, StopFits, MarkFit DEF SameHost
<1>7. CASE drives' = drives /\ Stops(j)
  <2>1. SameView
    BY <1>2, <1>7, SameViewOf
  <2> QED
    BY <1>2, <1>7, <2>1, StoppedFit
<1> QED
  BY <1>1, <1>5, <1>6, <1>7, FsckBeginsEffect

LEMMA FsckEndsFit ==
  ASSUME Between, NEW j \in Jobs, FsckEnds(j)
  PROVE  Fit'
<1>1. Typed /\ Shaped
  BY DEF Between
<1>2. job[j].pc = "fsck" /\ SameHost /\ cards' = cards /\ retracts' = retracts /\ j \in Reconciling
  BY <1>1, FsckEndsEffect DEF SameLibrary, Reconciling
<1>3. j \in Handlers /\ job[j].id \in Names /\ ~job[j].auto
  BY <1>1, <1>2, VerbOf DEF ReconcilePhases
<1>4. Live = {} /\ drives[job[j].id] # None /\ mounts[job[j].id] # "live"
  BY <1>2, <1>3, BetweenFacts DEF JobFits, VerbFits, Live
<1>5. CASE /\ drives' = drives /\ job'[j].pc = "mount" /\ Others(j)
           /\ Task(job'[j], job[j]) /\ job'[j].auto = job[j].auto
  <2>1. Target(j)' = job[j].id /\ SameView /\ job[j].id \in Rows
    BY <1>2, <1>3, <1>4, <1>5, SameViewOf DEF Task, Target, Rows
  <2>2. JobFits(j)'
    BY <1>2, <1>4, <1>5, <2>1, StartMountFits
  <2>3. Spares(j) /\ Refreshes(j)
    BY <1>2 DEF Spares, Off, Refreshes
  <2> QED
    BY <1>2, <1>5, <2>1, <2>2, <2>3, SameCards, StillFit
<1>6. CASE Stops(j) /\ \E c \in {"failed_dirty", "hiberfile"} : Marks(job[j].id, c)
  <2>1. Real = {}
    BY <1>2, <1>3, <1>4, NoRealCards
  <2>2. \A h \in Handlers : h # j => ~(job[h].clean /\ job[h].pc \in TakingOff)
    BY <1>2, <1>3, BetweenFacts DEF TakingOff
  <2>3. PICK c \in {"failed_dirty", "hiberfile"} : Marks(job[j].id, c)
    BY <1>6
  <2> QED
    BY <1>2, <1>3, <1>4, <1>6, <2>1, <2>2, <2>3, StopFits, MarkFit DEF SameHost
<1> QED
  BY <1>1, <1>5, <1>6, FsckEndsEffect

LEMMA MountFit ==
  ASSUME Between, NEW j \in Jobs, Mount(j)
  PROVE  Fit'
<1> DEFINE n == Target(j)
<1>1. Typed /\ Shaped
  BY DEF Between
<1>2. /\ job[j].pc = "mount" /\ n \in Names /\ alias' = alias /\ cards' = cards /\ retracts' = retracts
      /\ j \in Mounting /\ j \in Reconciling
  BY <1>1, MountEffect DEF SameLibrary, Mounting, Reconciling
<1>3. n = Id /\ drives[Id] # None /\ mounts[Id] # "live"
  BY <1>2, BetweenFacts DEF JobFits, MountFits
<1>4. \A x \in Real : x.at # n
  BY <1>2, <1>3, MountingCards
<1>5. \A k \in Jobs : /\ ~(job[k].clean /\ job[k].pc \in TakingOff)
                      /\ job[k].pc \notin {"rlookup", "rforce", "rretract", "rdrop"}
  BY <1>2, MountingKeepsOut
<1>6. CASE mounts' = mounts /\ Marks(n, "failed_other") /\ Attempted(j)
  <2>1. Others(j) /\ job'[j].pc \in {"idle", "adopt"}
    BY <1>6, StopFits DEF Attempted
  <2> QED
    BY <1>2, <1>3, <1>4, <1>5, <1>6, <2>1, JobFacts, MarkFit
<1>7. CASE mounts' = [mounts EXCEPT ![n] = "live"] /\ Steps(j, "card") /\ drives' = drives
  <2>1. Others(j) /\ job'[j].pc = "card" /\ Target(j)' = n
    BY <1>7 DEF Steps, Target, Task, Place, Flags
  <2>2. /\ Id' = Id /\ Rows' = Rows /\ Real' = Real /\ cards' \ Real' = cards \ Real
        /\ \A m : (CleanRow(m)' <=> CleanRow(m)) /\ (HasCard(m)' <=> HasCard(m))
    BY <1>2, <1>7, SameCards DEF Id, Rows, CleanRow, HasCard
  <2>3. mounts'[Id] = "live" /\ \A m \in Names : m # Id => mounts'[m] = mounts[m]
    BY <1>1, <1>2, <1>3, <1>7 DEF Typed
  <2>4. Live' \subseteq {Id}'
    BY <2>2, <2>3, BetweenFacts DEF Live
  <2>5. CardsMounted'
    BY <1>2, <2>2, <2>3, MountingCards DEF CardsMounted, Real, Between, Typed
  <2>6. CardsFit'
    <3>1. \A m : ~BeingSet(m)
      BY <1>2, BetweenFacts DEF BeingSet, Reconciling
    <3> QED
      BY <1>7, <2>2, <3>1, BetweenFacts DEF CardsFit
  <2>7. ASSUME NEW m \in Rows' PROVE RowFits(m)'
    <3>1. m \in Rows /\ RowFits(m) /\ m = Id
      BY <1>2, <2>2, <2>7, BetweenFacts, RefreshedId
    <3> QED
      BY <1>3, <1>7, <2>1, <2>2, <2>3, <3>1 DEF RowFits
  <2>8. ASSUME NEW k \in Jobs PROVE JobFits(k)'
    <3>1. CASE k = j
      <4>1. MountFits(j)'
        BY <1>3, <1>4, <1>7, <2>1, <2>2, <2>3 DEF MountFits
      <4> QED
        BY <2>1, <3>1, <4>1 DEF JobFits, AdoptFits, RemoveFits, VerbFits
    <3>2. CASE k # j
      <4>1. k \notin Reconciling /\ job'[k] = job[k]
        BY <1>2, <2>1, <3>2, OthersOutside
      <4>2. job[k].pc \notin {"rlookup", "rforce", "rretract", "rdrop"}
        BY <1>5
      <4>3. Relies(k)
        BY <1>7, <2>2, <4>1, <4>2 DEF Relies
      <4> QED
        BY <1>1, <4>3, BetweenFacts, OutsideFits
    <3> QED
      BY <3>1, <3>2
  <2> QED
    BY <2>4, <2>5, <2>6, <2>7, <2>8 DEF Fit
<1>8. CASE mounts' = mounts /\ drives' = drives /\ Attempted(j)
  <2>1. Others(j) /\ job'[j].pc \in {"idle", "adopt"}
    BY <1>8, StopFits DEF Attempted
  <2>2. SameView
    BY <1>2, <1>8 DEF SameView
  <2>3. JobFits(j)'
    BY <2>1, LightFits DEF Light
  <2>4. Spares(j) /\ Refreshes(j)
    BY <1>2 DEF Spares, Off, Refreshes
  <2> QED
    BY <1>2, <2>1, <2>2, <2>3, <2>4, SameCards, StillFit
<1> QED
  BY <1>1, <1>6, <1>7, <1>8, MountEffect

\* Job j takes the mounted row n off, and knows its cards.
LEMMA FreesFit ==
  ASSUME Between, NEW j \in Jobs, job[j].pc \notin {"rretract", "nstop"}, Mounting = {},
         Others(j), job'[j].pc \notin MountPhases, NEW n \in Names, HasCard(n), Frees(n),
         alias' = alias, drives' = drives, cards' = cards, retracts' = retracts,
         \A c \in Real : c.at = n => \E h \in Handlers : Off(h, c)', JobFits(j)', Refreshes(j)
  PROVE  Fit'
<1>1. Typed /\ Shaped
  BY DEF Between
<1>2. /\ Id' = Id /\ Rows' = Rows /\ Real' = Real /\ cards' \ Real' = cards \ Real
      /\ \A m : (CleanRow(m)' <=> CleanRow(m)) /\ (HasCard(m)' <=> HasCard(m))
  BY SameCards DEF Id, Rows, CleanRow, HasCard
<1>3. /\ mounts'[n] = "none" /\ \A m \in Names : m # n => mounts'[m] = mounts[m]
  BY <1>1 DEF Frees, Typed
<1>4. Live' \subseteq Live
  BY <1>3 DEF Live
<1>5. \A m : ~BeingSet(m)
  BY DEF BeingSet, Mounting
<1>6. CardsMounted'
  <2> SUFFICES ASSUME NEW c \in Real PROVE mounts'[c.at] = "live" \/ \E h \in Handlers : Off(h, c)'
    BY <1>2 DEF CardsMounted
  <2>1. c.at \in Names
    BY <1>1 DEF Real, Typed
  <2>2. CASE mounts[c.at] = "live" \/ c.at = n
    BY <1>3, <2>1, <2>2
  <2>3. CASE mounts[c.at] # "live"
    <3>1. PICK h \in Handlers : Off(h, c)
      BY <2>3, BetweenFacts DEF CardsMounted
    <3>2. h # j /\ h \in Jobs
      BY <3>1, JobFacts DEF Off
    <3> QED
      BY <3>1, <3>2 DEF Off, Others
  <2> QED
    BY <2>2, <2>3
<1>7. CardsFit'
  BY <1>2, <1>5, BetweenFacts DEF CardsFit
<1>8. ASSUME NEW m \in Rows' PROVE RowFits(m)'
  <2>1. m \in Rows /\ m \in Names /\ RowFits(m)
    BY <1>2, <1>8, BetweenFacts DEF Rows
  <2>2. ASSUME m # Id, NEW k \in Reconciling' PROVE job'[k].pc \in {"read", "swap"}
    <3>1. \A i \in Reconciling : job[i].pc \in {"read", "swap"}
      BY <2>1, <2>2 DEF RowFits
    <3>2. CASE k = j
      BY <2>1, <2>2, <3>1, <3>2 DEF Refreshes
    <3>3. CASE k # j
      <4>1. k \in Jobs /\ job'[k] = job[k]
        BY <2>2, <3>3 DEF Reconciling, Others
      <4>2. k \in Reconciling
        BY <2>2, <4>1 DEF Reconciling
      <4> QED
        BY <3>1, <4>1, <4>2
    <3> QED
      BY <3>2, <3>3
  <2>3. ~CleanRow(m) => mounts[m] # "live"
    BY <2>1 DEF RowFits, Mounting
  <2>4. CleanRow(m) /\ drives[m].lib = 0 => m # n
    BY DEF HasCard
  <2> QED
    BY <1>2, <1>3, <1>4, <2>1, <2>2, <2>3, <2>4 DEF RowFits
<1>9. ASSUME NEW k \in Jobs PROVE JobFits(k)'
  <2>1. CASE k = j
    BY <2>1
  <2>2. CASE k # j
    <3>1. job'[k] = job[k] /\ k \notin Mounting' /\ JobFits(k)
      BY <2>2, BetweenFacts DEF Others, Mounting
    <3>2. MountFits(k)' /\ AdoptFits(k)'
      BY <1>2, <3>1 DEF JobFits, MountFits, AdoptFits
    <3>3. RemoveFits(k)'
      <4>1. job[k].pc = "rforce" => job[k].id \in Names
        BY <1>1, VerbOf DEF ReconcilePhases
      <4> QED
        BY <1>2, <1>3, <1>4, <3>1, <4>1 DEF JobFits, RemoveFits
    <3>4. VerbFits(k)'
      BY <1>2, <1>4, <3>1 DEF JobFits, VerbFits
    <3> QED
      BY <3>2, <3>3, <3>4 DEF JobFits
  <2> QED
    BY <2>1, <2>2
<1> QED
  BY <1>2, <1>4, <1>6, <1>7, <1>8, <1>9, BetweenFacts DEF Fit

\* A verb that has refreshed leaves no row but that of the id.
LEMMA SettledRows ==
  ASSUME Between, NEW j \in Handlers, job[j].pc \notin {"idle", "read", "swap"},
         job[j].verb # "renamed"
  PROVE  Rows \subseteq {Id}
<1>1. SettledAt(j) /\ Settled(j)
  BY BetweenFacts DEF VerbAt, Settled
<1> QED
  BY <1>1 DEF SettledAt

\* A verb that relies on a mounted row knows its only card.
LEMMA TakenCards ==
  ASSUME Between, NEW j \in Handlers, job[j].clean, job[j].pc \in TakingOff,
         HasCard(job[j].id), NEW c \in Real, c.at = job[j].id
  PROVE  c.id = drives[job[j].id].lib /\ Mounting = {}
<1>1. Mounting = {}
  BY BetweenFacts DEF VerbAt, TakeOffAt
<1>2. ~BeingSet(c.at)
  BY <1>1 DEF BeingSet, Mounting
<1> QED
  BY <1>1, <1>2, BetweenFacts DEF CardsFit

LEMMA RemoveUmountFit ==
  ASSUME Between, NEW j \in Jobs, RemoveUmount(j)
  PROVE  Fit'
<1> DEFINE n == job[j].id
<1>1. Typed /\ Shaped /\ At(j, job[j])
  BY DEF Between, Shaped, JobsInv
<1>2. /\ job[j].pc = "rumount" /\ alias' = alias /\ drives' = drives
      /\ cards' = cards /\ retracts' = retracts
  BY <1>1, RemoveUmountEffect DEF SameInner, SameLibrary
<1>3. /\ j \in Handlers /\ job[j].verb = "remove" /\ n \in Names /\ job[j].clean /\ job[j].known
      /\ job[j].pc \in TakingOff
  BY <1>1, <1>2, VerbOf DEF ReconcilePhases, At, TakingOff
<1>4. HasCard(n) /\ drives[n].lib = job[j].lib /\ Mounting = {}
  BY <1>2, <1>3, BetweenFacts DEF JobFits, RemoveFits, VerbAt, TakeOffAt
<1>0. CASE mounts' = mounts /\ Stops(j)
  <2>1. SameView
    BY <1>2, <1>0 DEF SameView
  <2> QED
    BY <1>2, <1>0, <2>1, StoppedFit
<1> SUFFICES ASSUME ~(mounts' = mounts /\ Stops(j)) PROVE Fit'
  BY <1>0
<1>5. /\ Others(j) /\ job'[j].pc \in {"rretract", "rforce"} /\ job'[j].id = n /\ job'[j].clean
      /\ job'[j].verb = "remove" /\ job'[j].known /\ job'[j].lib = job[j].lib
  BY <1>1, <1>3, RemoveUmountEffect DEF Steps, Task, Place, Flags
<1>6. JobFits(j)' /\ Refreshes(j) /\ Spares(j)
  <2>1. drives'[n] # None /\ drives'[n].class = "clean" /\ drives'[n].lib # 0
    BY <1>2, <1>4 DEF HasCard, CleanRow
  <2> QED
    BY <1>2, <1>4, <1>5, <2>1 DEF JobFits, MountFits, AdoptFits, RemoveFits, VerbFits, Mounting,
                                  Refreshes, Reconciling, HasCard, CleanRow, Spares, Off
<1>7. CASE Frees(n) /\ Steps(j, "rretract")
  <2>1. ASSUME NEW c \in Real, c.at = n PROVE Off(j, c)'
    BY <1>3, <1>4, <1>5, <1>7, <2>1, TakenCards DEF Off, Steps
  <2> QED
    BY <1>2, <1>3, <1>4, <1>5, <1>6, <1>7, <2>1, FreesFit DEF MountPhases
<1>8. CASE mounts' = mounts
  <2>1. SameView
    BY <1>2, <1>8 DEF SameView
  <2> QED
    BY <1>2, <1>5, <1>6, <2>1, SameCards, StillFit
<1> QED
  BY <1>1, <1>7, <1>8, RemoveUmountEffect

LEMMA RemoveForceFit ==
  ASSUME Between, NEW j \in Jobs, RemoveForce(j)
  PROVE  Fit'
<1> DEFINE n == job[j].id
<1>1. Typed /\ Shaped /\ At(j, job[j])
  BY DEF Between, Shaped, JobsInv
<1>2. /\ job[j].pc = "rforce" /\ alias' = alias /\ drives' = drives
      /\ cards' = cards /\ retracts' = retracts
  BY <1>1, RemoveForceEffect DEF SameInner, SameLibrary
<1>3. j \in Handlers /\ job[j].verb = "remove" /\ n \in Names /\ job[j].pc \in TakingOff
  BY <1>1, <1>2, VerbOf DEF ReconcilePhases, TakingOff
<1>4. Spares(j)
  BY <1>2 DEF Spares, Off
<1>5. CASE Frees(n) /\ job[j].known /\ Steps(j, "rretract")
  <2>1. HasCard(n) /\ drives[n].lib = job[j].lib /\ Mounting = {} /\ job[j].clean
    BY <1>1, <1>2, <1>3, <1>5, BetweenFacts DEF JobFits, RemoveFits, VerbAt, TakeOffAt, At
  <2>2. /\ Others(j) /\ job'[j].pc = "rretract" /\ job'[j].id = n /\ job'[j].clean
        /\ job'[j].verb = "remove" /\ job'[j].known /\ job'[j].lib = job[j].lib
    BY <1>3, <1>5, <2>1 DEF Steps, Task, Place, Flags
  <2>3. JobFits(j)' /\ Refreshes(j)
    <3>1. drives'[n] # None /\ drives'[n].class = "clean" /\ drives'[n].lib # 0
      BY <1>2, <2>1 DEF HasCard, CleanRow
    <3> QED
      BY <1>2, <2>1, <2>2, <3>1 DEF JobFits, MountFits, AdoptFits, RemoveFits, VerbFits, Mounting,
                                    Refreshes, Reconciling, HasCard, CleanRow
  <2>4. ASSUME NEW c \in Real, c.at = n PROVE Off(j, c)'
    BY <1>3, <2>1, <2>2, <2>4, TakenCards DEF Off
  <2> QED
    BY <1>2, <1>3, <1>5, <2>1, <2>2, <2>3, <2>4, FreesFit DEF MountPhases
<1>6. CASE (Frees(n) \/ mounts' = mounts) /\ ~job[j].known /\ Steps(j, "rdrop")
  <2>1. mounts[n] # "live"
    BY <1>2, <1>6, BetweenFacts DEF JobFits, RemoveFits
  <2>2. SameView
    BY <1>1, <1>2, <1>3, <1>6, <2>1 DEF SameView, Frees, Typed
  <2>3. /\ Others(j) /\ job'[j].pc = "rdrop" /\ ~job'[j].clean /\ ~job'[j].known
        /\ job'[j].verb = "remove"
    BY <1>1, <1>3, <1>6 DEF Steps, Task, Flags, At
  <2>4. JobFits(j)' /\ Refreshes(j)
    BY <2>3
       DEF JobFits, MountFits, AdoptFits, RemoveFits, VerbFits, Mounting, Refreshes, Reconciling
  <2> QED
    BY <1>2, <1>4, <2>2, <2>3, <2>4, SameCards, StillFit
<1>7. CASE mounts' = mounts /\ Stops(j)
  <2>1. SameView
    BY <1>2, <1>7 DEF SameView
  <2> QED
    BY <1>2, <1>7, <2>1, StoppedFit
<1> QED
  BY <1>1, <1>5, <1>6, <1>7, RemoveForceEffect

LEMMA RepairUmountFit ==
  ASSUME Between, NEW j \in Jobs, RepairUmount(j)
  PROVE  Fit'
<1> DEFINE n == job[j].id
<1>1. Typed /\ Shaped /\ At(j, job[j])
  BY DEF Between, Shaped, JobsInv
<1>2. /\ job[j].pc = "fumount" /\ alias' = alias /\ drives' = drives
      /\ cards' = cards /\ retracts' = retracts
  BY <1>1, RepairUmountEffect DEF SameInner, SameLibrary
<1>3. /\ j \in Handlers /\ job[j].verb = "repair" /\ n \in Names /\ job[j].clean
      /\ job[j].pc \in TakingOff
  BY <1>1, <1>2, VerbOf DEF ReconcilePhases, At, TakingOff
<1>4. HasCard(n) /\ (\A c \in Real : c.at # n) /\ Mounting = {}
  BY <1>2, <1>3, BetweenFacts DEF JobFits, VerbFits, VerbAt, TakeOffAt
<1>5. CASE Frees(n) /\ Steps(j, "fbegin")
  <2>1. Others(j) /\ job'[j].pc = "fbegin" /\ job'[j].id = n /\ job'[j].verb = "repair"
    BY <1>3, <1>5 DEF Steps, Task
  <2>2. Rows \subseteq {Id} /\ n \in Rows
    BY <1>2, <1>3, <1>4, SettledRows DEF HasCard, CleanRow, Rows
  <2>3. Live' = {}
    BY <1>1, <1>3, <1>5, <2>2, BetweenFacts DEF Frees, Live, Typed
  <2>4. drives'[n] # None
    BY <1>2, <1>4 DEF HasCard, CleanRow
  <2>5. JobFits(j)' /\ Refreshes(j)
    BY <2>1, <2>2, <2>3, <2>4
       DEF JobFits, MountFits, AdoptFits, RemoveFits, VerbFits, Mounting, Refreshes
  <2> QED
    BY <1>2, <1>3, <1>4, <1>5, <2>1, <2>5, FreesFit DEF MountPhases
<1>6. CASE mounts' = mounts /\ Stops(j)
  <2>1. SameView
    BY <1>2, <1>6 DEF SameView
  <2> QED
    BY <1>2, <1>6, <2>1, StoppedFit
<1> QED
  BY <1>1, <1>5, <1>6, RepairUmountEffect

LEMMA RenameUmountFit ==
  ASSUME Between, NEW j \in Jobs, RenameUmount(j)
  PROVE  Fit'
<1> DEFINE n == job[j].id
<1>1. Typed /\ Shaped
  BY DEF Between
<1>2. /\ job[j].pc = "numount" /\ alias' = alias /\ drives' = drives /\ j \in Reconciling
      /\ cards' = cards /\ retracts' = retracts
  BY <1>1, RenameUmountEffect DEF SameInner, Reconciling
<1>3. j \in Handlers /\ job[j].verb = "rename" /\ n \in Names
  BY <1>1, <1>2, VerbOf DEF ReconcilePhases
<1>4. /\ HasCard(n) /\ drives[n].lib = job[j].lib /\ Mounting = {} /\ (\A m : ~BeingSet(m))
      /\ n = Id
  <2>1. HasCard(n) /\ drives[n].lib = job[j].lib
    BY <1>2, BetweenFacts DEF JobFits, VerbFits
  <2>2. n \in Rows
    BY <1>3, <2>1 DEF HasCard, CleanRow, Rows
  <2> QED
    BY <1>2, <2>1, <2>2, NotBeingSet, RefreshedId DEF MountPhases
<1>5. CASE Frees(n) /\ Steps(j, "nstop")
  <2>1. /\ Others(j) /\ job'[j].pc = "nstop" /\ job'[j].id = n /\ job'[j].verb = "rename"
        /\ job'[j].lib = job[j].lib
    BY <1>3, <1>5 DEF Steps, Task, Place
  <2>2. Live' = {} /\ Real' = Real
    BY <1>1, <1>2, <1>3, <1>4, <1>5, BetweenFacts, SameCards DEF Frees, Live, Typed
  <2>3. ASSUME NEW c \in Real PROVE c.at = n /\ c.id = job[j].lib
    <3>1. c.at \in Names
      BY <1>1, <2>3 DEF Real, Typed
    <3>2. ASSUME NEW h \in Handlers PROVE ~Off(h, c)
      BY <1>2, <1>3, BetweenFacts DEF Off
    <3>3. c.at = n
      BY <1>4, <2>3, <3>1, <3>2, BetweenFacts DEF CardsMounted, Live
    <3> QED
      BY <1>4, <2>3, <3>3, BetweenFacts DEF CardsFit
  <2>4. JobFits(j)' /\ Refreshes(j)
    BY <1>2, <2>1, <2>2, <2>3
       DEF JobFits, MountFits, AdoptFits, RemoveFits, VerbFits, Mounting, Refreshes
  <2>5. ASSUME NEW c \in Real, c.at = n PROVE Off(j, c)'
    BY <2>1, <2>3, <2>5 DEF Off
  <2> QED
    BY <1>2, <1>3, <1>4, <1>5, <2>1, <2>4, <2>5, FreesFit DEF MountPhases
<1>6. CASE mounts' = mounts /\ Stops(j)
  <2>1. SameView
    BY <1>2, <1>6 DEF SameView
  <2> QED
    BY <1>2, <1>6, <2>1, StoppedFit
<1> QED
  BY <1>1, <1>5, <1>6, RenameUmountEffect

LEMMA RemoveRetractFit ==
  ASSUME Between, NEW j \in Jobs, RemoveRetract(j)
  PROVE  Fit'
<1> DEFINE n == job[j].id
<1>1. Typed /\ Shaped
  BY DEF Between
<1>2. /\ job[j].pc = "rretract" /\ Steps(j, "rdrop") /\ cards' = cards /\ SameView
      /\ retracts' = retracts \cup ({job[j].lib} \ {0})
  BY <1>1, RemoveRetractEffect, SameViewOf
<1>3. j \in Handlers /\ job[j].verb = "remove" /\ n \in Names
  BY <1>1, <1>2, VerbOf DEF ReconcilePhases
<1>4. /\ Others(j) /\ job'[j].pc = "rdrop" /\ job'[j].id = n /\ job'[j].verb = "remove"
      /\ job'[j].clean = job[j].clean /\ job'[j].known = job[j].known /\ job'[j].lib = job[j].lib
  BY <1>2, <1>3 DEF Steps, Task, Place, Flags
<1>5. FewerCards
  BY <1>2 DEF FewerCards, Real
<1>6. ASSUME NEW c \in Real' PROVE c.id # job[j].lib
  <2>1. c.id # 0
    BY <1>1, <1>2, <1>6, ZeroCard DEF Real, Typed
  <2> QED
    BY <1>2, <1>6, <2>1 DEF Real
<1>7. Unmixed
  <2> SUFFICES ASSUME NEW c \in Real', NEW d \in cards' \ Real', c.at = d.at
               PROVE  d \in cards \ Real
    BY DEF Unmixed
  <2>1. CASE d \in Real
    <3>1. c = d
      BY <1>5, <2>1, BetweenFacts DEF CardsFit, FewerCards
    <3> QED
      BY <3>1
  <2> QED
    BY <1>2, <2>1
<1>8. Spares(j)
  BY <1>2, <1>6 DEF Spares, Off
<1>9. JobFits(j)' /\ Refreshes(j)
  <2>1. JobFits(j) /\ drives' = drives
    BY <1>2, BetweenFacts DEF SameView
  <2> QED
    BY <1>2, <1>4, <2>1 DEF JobFits, MountFits, AdoptFits, RemoveFits, VerbFits, Mounting,
                            Refreshes, Reconciling, HasCard, CleanRow
<1> QED
  BY <1>2, <1>4, <1>5, <1>7, <1>8, <1>9, StillFit

LEMMA RemoveDropFit ==
  ASSUME Between, NEW j \in Jobs, RemoveDrop(j)
  PROVE  Fit'
<1> DEFINE n == job[j].id
<1>1. Typed /\ Shaped
  BY DEF Between
<1>2. /\ job[j].pc = "rdrop" /\ Steps(j, "rsafe") /\ cards' = cards /\ retracts' = retracts
      /\ SameHost
      /\ drives' = IF job[j].known THEN [drives EXCEPT ![n] = None] ELSE drives
  BY <1>1, RemoveDropEffect DEF SameLibrary
<1>3. j \in Handlers /\ job[j].verb = "remove" /\ n \in Names
  BY <1>1, <1>2, VerbOf DEF ReconcilePhases
<1>4. Others(j) /\ job'[j].pc = "rsafe" /\ job'[j].verb = "remove"
  BY <1>2, <1>3 DEF Steps, Task
<1>5. JobFits(j)' /\ Refreshes(j) /\ Spares(j)
  BY <1>2, <1>4, LightFits DEF Light, Refreshes, Reconciling, Spares, Off
<1>6. CASE ~job[j].known
  BY <1>2, <1>4, <1>5, <1>6, SameViewOf, SameCards, StillFit
<1>7. CASE job[j].known
  <2>1. /\ Id' = Id /\ Live' = Live /\ Real' = Real /\ cards' \ Real' = cards \ Real
        /\ mounts' = mounts
    BY <1>2, SameCards DEF SameHost, Id, Live
  <2>2. drives'[n] = None /\ \A m \in Names : m # n => drives'[m] = drives[m]
    BY <1>1, <1>2, <1>3, <1>7 DEF Typed
  <2>3. Mounting = {}
    <3>1. CASE job[j].clean
      BY <1>2, <1>3, <3>1, BetweenFacts DEF VerbAt, TakeOffAt, TakingOff
    <3>2. CASE ~job[j].clean
      <4>1. j \in Exposed
        BY <1>2, <1>3, <3>2 DEF Exposed
      <4> QED
        BY <4>1, BetweenFacts DEF Between, QuietInv, Quiet
    <3> QED
      BY <3>1, <3>2
  <2>4. \A m : ~BeingSet(m)
    BY <2>3 DEF BeingSet, Mounting
  <2>5. ASSUME NEW c \in Real PROVE c.at \in Names /\ c.at # n /\ mounts[c.at] = "live"
    <3>1. mounts[n] # "live"
      BY <1>2, <1>3, BetweenFacts DEF VerbAt, RemoveAt
    <3>2. ASSUME NEW h \in Handlers PROVE ~Off(h, c)
      BY <1>2, <1>3, BetweenFacts DEF Off
    <3>3. mounts[c.at] = "live"
      BY <2>5, <3>2, BetweenFacts DEF CardsMounted
    <3> QED
      BY <1>1, <2>5, <3>1, <3>3 DEF Real, Typed
  <2>6. CardsMounted'
    BY <2>1, <2>5 DEF CardsMounted
  <2>7. CardsFit'
    <3>1. \A x \in Real : drives'[x.at] = drives[x.at] /\ (HasCard(x.at)' <=> HasCard(x.at))
      BY <2>2, <2>5 DEF HasCard, CleanRow
    <3> QED
      BY <2>1, <2>4, <3>1, BetweenFacts DEF CardsFit
  <2>8. ASSUME NEW m \in Rows' PROVE RowFits(m)'
    <3>1. m \in Names /\ m # n /\ drives'[m] = drives[m]
      BY <2>2, <2>8 DEF Rows
    <3>2. m \in Rows /\ RowFits(m)
      BY <2>8, <3>1, BetweenFacts DEF Rows
    <3>3. ASSUME NEW k \in Reconciling' PROVE k \in Reconciling /\ job'[k] = job[k]
      BY <1>4, <3>3 DEF Reconciling, Others
    <3>4. ~CleanRow(m) => mounts[m] # "live"
      BY <2>3, <3>2 DEF RowFits, Mounting
    <3> QED
      BY <2>1, <3>1, <3>2, <3>3, <3>4 DEF RowFits, CleanRow
  <2>9. ASSUME NEW k \in Jobs PROVE JobFits(k)'
    <3>1. CASE k = j
      BY <1>5, <3>1
    <3>2. CASE k \in Handlers /\ k # j
      <4>1. job[k].pc = "idle" /\ job'[k] = job[k]
        BY <1>2, <1>3, <1>4, <3>2, BetweenFacts, JobFacts DEF Others
      <4> QED
        BY <4>1, LightFits DEF Light
    <3>3. CASE k = "tick"
      <4>1. /\ job'[k] = job[k] /\ job[k].verb = "tick" /\ job[k].pc \in {"idle"} \cup ReconcilePhases
            /\ JobFits(k) /\ k \notin Mounting' /\ ~job[k].clean
        BY <1>1, <1>3, <1>4, <2>3, <3>3, BetweenFacts, TickFacts, JobFacts DEF Others, Mounting
      <4>2. job[k].pc \in {"acard", "aset"} => job[k].at \in Names /\ job[k].at # n
        <5>1. job[k].pc \in {"acard", "aset"} => job[k].at \in Names
          BY <1>1 DEF Shaped, JobsInv, At
        <5>2. CASE job[j].clean
          BY <1>2, <4>1, <5>1, <5>2, BetweenFacts DEF JobFits, RemoveFits, AdoptFits
        <5>3. CASE ~job[j].clean
          BY <1>2, <1>7, <4>1, <5>1, <5>3, BetweenFacts DEF JobFits, RemoveFits, AdoptFits
        <5> QED
          BY <5>2, <5>3
      <4>3. AdoptFits(k)'
        BY <1>2, <2>1, <2>2, <4>1, <4>2 DEF JobFits, AdoptFits, CleanRow, HasCard
      <4>4. MountFits(k)' /\ RemoveFits(k)' /\ VerbFits(k)'
        BY <2>1, <4>1 DEF JobFits, MountFits, RemoveFits, VerbFits, ReconcilePhases
      <4> QED
        BY <4>3, <4>4 DEF JobFits
    <3> QED
      BY <3>1, <3>2, <3>3 DEF Jobs
  <2> QED
    BY <2>1, <2>6, <2>7, <2>8, <2>9, BetweenFacts DEF Fit
<1> QED
  BY <1>6, <1>7

\* The volume changes its id while nothing is mounted.
LEMMA RenameSaveFit ==
  ASSUME Between, NEW j \in Jobs, RenameSave(j)
  PROVE  Fit'
<1>1. Typed /\ Shaped
  BY DEF Between
<1>2. /\ job[j].pc = "nsave" /\ mounts' = mounts /\ drives' = drives /\ j \in Reconciling
      /\ cards' = cards /\ retracts' = retracts
  BY <1>1, RenameSaveEffect DEF SameInner, SameLibrary, Reconciling
<1>3. j \in Handlers
  BY <1>1, <1>2, VerbOf DEF ReconcilePhases
<1>4. CASE alias' = alias /\ Stops(j)
  <2>1. SameView
    BY <1>2, <1>4 DEF SameView
  <2> QED
    BY <1>2, <1>4, <2>1, StoppedFit
<1>5. CASE Others(j) /\ job'[j].pc = "read" /\ job'[j].verb = "renamed"
  <2>1. Live = {} /\ Live' = {}
    BY <1>2, BetweenFacts DEF JobFits, VerbFits, Live
  <2>2. Real = {} /\ Real' = {} /\ Rows' = Rows
    BY <1>2, <1>3, <2>1, NoRealCards, SameCards DEF Rows
  <2>3. CardsMounted' /\ CardsFit'
    BY <2>2 DEF CardsMounted, CardsFit
  <2>4. ASSUME NEW m \in Rows' PROVE RowFits(m)'
    <3>1. m \in Names /\ RowFits(m) /\ mounts[m] # "live"
      BY <2>1, <2>2, <2>4, BetweenFacts DEF Rows, Live
    <3>2. \A k \in Reconciling' : k = j
      BY <1>2, <1>5, OthersOutside DEF Reconciling
    <3> QED
      BY <1>2, <1>5, <2>1, <3>1, <3>2 DEF RowFits, CleanRow
  <2>5. ASSUME NEW k \in Jobs PROVE JobFits(k)'
    <3>1. CASE k = j
      BY <1>5, <2>1, <3>1, LightFits DEF Light
    <3>2. CASE k # j
      <4>1. k \notin Reconciling /\ job'[k] = job[k]
        BY <1>2, <1>5, <3>2, OthersOutside
      <4>2. Relies(k)
        BY <1>2, <2>1, <2>2, <4>1 DEF Relies, CleanRow
      <4> QED
        BY <1>1, <4>2, BetweenFacts, OutsideFits
    <3> QED
      BY <3>1, <3>2
  <2> QED
    BY <2>1, <2>3, <2>4, <2>5 DEF Fit
<1> QED
  BY <1>1, <1>4, <1>5, RenameSaveEffect

LEMMA RestartFit ==
  ASSUME Between, Restart
  PROVE  Fit'
<1>1. Typed
  BY DEF Between
<1>2. /\ mounts' = mounts /\ alias' = alias /\ cards' = cards /\ retracts' = {}
      /\ (\A n \in Names : drives'[n] = None) /\ (\A j \in Jobs : job'[j] = IdleJob)
      /\ "restart" \in happened' \ happened
  BY <1>1, RestartEffect DEF SameHost
<1>3. (\A h \in Handlers : job[h].pc = "idle") /\ retracts = {}
  BY <1>2, CrossedFacts DEF Between, Undisturbed
<1>4. Live' = Live /\ Id' = Id /\ Real' = cards /\ Real = cards /\ Rows' = {}
  BY <1>2, <1>3 DEF Live, Id, Real, Rows
<1>5. CardsMounted'
  BY <1>2, <1>3, <1>4, BetweenFacts DEF CardsMounted, Off
<1>6. CardsFit'
  <2>1. \A c \in Real' : c.at \in Names /\ ~HasCard(c.at)'
    BY <1>1, <1>2, <1>4 DEF Typed, HasCard, CleanRow
  <2> QED
    BY <1>2, <1>4, <2>1, BetweenFacts DEF CardsFit
<1>7. \A j \in Jobs : JobFits(j)'
  BY <1>2, JobFacts, LightFits DEF Light
<1> QED
  BY <1>4, <1>5, <1>6, <1>7, BetweenFacts DEF Fit

LEMMA CardFit ==
  ASSUME Between, NEW j \in Jobs, Card(j)
  PROVE  Fit'
<1> DEFINE n == Target(j)
           new == [id |-> job'[j].lib, at |-> n]
<1>1. Typed /\ Shaped
  BY DEF Between
<1>2. /\ job[j].pc = "card" /\ n \in Names /\ Registers(j, n, "set") /\ SameView /\ mounts' = mounts
      /\ drives' = drives /\ retracts' = retracts /\ j \in Mounting /\ j \in Reconciling
  BY <1>1, CardEffect, SameViewOf DEF SameInner, SameHost, Mounting, Reconciling
<1>3. n = Id /\ drives[Id] # None /\ mounts[Id] = "live" /\ \A c \in Real : c.at # Id
  BY <1>2, BetweenFacts DEF JobFits, MountFits
<1>4. Real = {}
  <2>1. ASSUME NEW c \in Real PROVE FALSE
    <3>1. c.at \in Names /\ mounts[c.at] = "live"
      BY <1>1, <1>2, <2>1, MountingCards DEF Real, Typed
    <3> QED
      BY <1>3, <2>1, <3>1, BetweenFacts DEF Live
  <2> QED
    BY <2>1
<1>5. Others(j) /\ job'[j].pc = "set" /\ Target(j)' = n
  BY <1>2 DEF Registers, Target, Task, Flags
<1>6. /\ Id' = Id /\ Live' = Live /\ Rows' = Rows
      /\ \A m : (CleanRow(m)' <=> CleanRow(m)) /\ (HasCard(m)' <=> HasCard(m))
  BY <1>2, SameViewFacts
<1>7. ASSUME NEW c \in Real' PROVE c = new /\ c.at = Id /\ c.id = job'[j].lib
  <2>1. c = new
    BY <1>2, <1>4, <1>7 DEF Registers, Real
  <2> QED
    BY <1>3, <2>1
<1>8. \A m : m = Id => BeingSet(m)'
  BY <1>3, <1>5 DEF BeingSet
<1>9. CardsMounted'
  BY <1>2, <1>3, <1>7 DEF CardsMounted
<1>10. CardsFit'
  <2>1. \A c \in Real' : BeingSet(c.at)'
    BY <1>7, <1>8
  <2>2. \A c, d \in Real' : c = d
    BY <1>7
  <2> QED
    BY <2>1, <2>2 DEF CardsFit
<1>11. ASSUME NEW m \in Rows' PROVE RowFits(m)'
  <2>1. m \in Rows /\ RowFits(m) /\ m = Id
    BY <1>2, <1>6, <1>11, BetweenFacts, RefreshedId
  <2> QED
    BY <1>2, <1>3, <1>5, <1>6, <2>1 DEF RowFits
<1>12. ASSUME NEW k \in Jobs PROVE JobFits(k)'
  <2>1. CASE k = j
    <3>1. MountFits(j)'
      BY <1>2, <1>3, <1>5, <1>6, <1>7 DEF MountFits
    <3> QED
      BY <1>5, <2>1, <3>1 DEF JobFits, AdoptFits, RemoveFits, VerbFits
  <2>2. CASE k # j
    <3>1. k \notin Reconciling /\ job'[k] = job[k]
      BY <1>2, <1>5, <2>2, OthersOutside
    <3>2. /\ ~(job[k].clean /\ job[k].pc \in TakingOff)
          /\ job[k].pc \notin {"rlookup", "rforce", "rretract", "rdrop"}
      BY <1>2, MountingKeepsOut
    <3>3. Relies(k)
      BY <3>1, <3>2 DEF Relies
    <3> QED
      BY <1>1, <3>3, BetweenFacts, OutsideFits
  <2> QED
    BY <2>1, <2>2
<1> QED
  BY <1>6, <1>9, <1>10, <1>11, <1>12, BetweenFacts DEF Fit

LEMMA SetMountedFit ==
  ASSUME Between, NEW j \in Jobs, SetMounted(j)
  PROVE  Fit'
<1> DEFINE n == Target(j)
<1>1. Typed /\ Shaped
  BY DEF Between
<1>2. /\ job[j].pc = "set" /\ n \in Names /\ Records(n, job[j].lib) /\ Attempted(j)
      /\ mounts' = mounts /\ alias' = alias /\ cards' = cards /\ retracts' = retracts
      /\ j \in Mounting /\ j \in Reconciling
  BY <1>1, SetMountedEffect DEF SameHost, SameLibrary, Mounting, Reconciling
<1>3. /\ n = Id /\ drives[Id] # None /\ mounts[Id] = "live"
      /\ \A c \in Real : c.at = Id => c.id = job[j].lib
  BY <1>2, BetweenFacts DEF JobFits, MountFits
<1>4. ASSUME NEW c \in Real PROVE c.at = Id /\ c.id = job[j].lib /\ c.id # 0 /\ mounts[c.at] = "live"
  <2>1. c.at \in Names /\ mounts[c.at] = "live" /\ c.id # 0
    BY <1>1, <1>2, <1>4, MountingCards, ZeroCard DEF Real, Typed
  <2> QED
    BY <1>3, <1>4, <2>1, BetweenFacts DEF Live
<1>5. Others(j) /\ job'[j].pc \in {"idle", "adopt"}
  BY <1>2, StopFits DEF Attempted
<1>6. /\ Id' = Id /\ Live' = Live /\ Real' = Real /\ cards' \ Real' = cards \ Real
  BY <1>2, SameCards DEF Id, Live
<1>7. /\ drives'[Id] # None /\ drives'[Id].class = "clean" /\ drives'[Id].root = Id
      /\ drives'[Id].lib = job[j].lib
  BY <1>2, <1>3 DEF Records
<1>8. \A m \in Names : m # Id => drives'[m] = drives[m]
  BY <1>2, <1>3 DEF Records
<1>9. CardsMounted'
  BY <1>2, <1>4, <1>6 DEF CardsMounted
<1>10. CardsFit'
  <2>1. \A c \in Real' : drives'[c.at] # None /\ drives'[c.at].class = "clean"
                         /\ drives'[c.at].lib = c.id /\ c.id # 0
    BY <1>4, <1>6, <1>7
  <2>2. \A c, d \in Real' : c.at = d.at => c = d
    BY <1>6, BetweenFacts DEF CardsFit
  <2> QED
    BY <2>1, <2>2 DEF CardsFit, HasCard, CleanRow
<1>11. ASSUME NEW m \in Rows' PROVE RowFits(m)'
  <2>1. m = Id
    <3>1. CASE m # Id
      <4>1. m \in Rows
        BY <1>8, <1>11, <3>1 DEF Rows
      <4> QED
        BY <1>2, <4>1, RefreshedId
    <3> QED
      BY <3>1
  <2> QED
    BY <1>2, <1>3, <1>6, <1>7, <2>1 DEF RowFits, CleanRow
<1>12. ASSUME NEW k \in Jobs PROVE JobFits(k)'
  <2>1. CASE k = j
    BY <1>5, <2>1, LightFits DEF Light
  <2>2. CASE k # j
    <3>1. k \notin Reconciling /\ job'[k] = job[k]
      BY <1>2, <1>5, <2>2, OthersOutside
    <3>2. /\ ~(job[k].clean /\ job[k].pc \in TakingOff)
          /\ job[k].pc \notin {"rlookup", "rforce", "rretract", "rdrop"}
      BY <1>2, MountingKeepsOut
    <3>3. Relies(k)
      BY <3>1, <3>2 DEF Relies
    <3> QED
      BY <1>1, <3>3, BetweenFacts, OutsideFits
  <2> QED
    BY <2>1, <2>2
<1> QED
  BY <1>6, <1>9, <1>10, <1>11, <1>12, BetweenFacts DEF Fit

\* A verb that relies on a mounted row is about another row than adoption.
LEMMA AdoptedApart ==
  ASSUME Between, NEW j \in Jobs, job[j].pc \in {"acard", "aset"}, NEW k \in Jobs, k # j
  PROVE  /\ job[k].clean /\ job[k].pc \in TakingOff =>
              job[k].id \in Names /\ job[k].id # job[j].at
         /\ job[k].pc \in {"rretract", "rdrop"} /\ ~CleanRow(job[k].id) =>
              job[k].id \in Names /\ job[k].id # job[j].at
         /\ job[k].pc = "rlookup" => Live \subseteq Rows
<1>1. Typed /\ Shaped /\ j \in Reconciling /\ At(k, job[k])
  BY DEF Between, Reconciling, Shaped, JobsInv
<1>2. CleanRow(job[j].at) /\ ~HasCard(job[j].at)
  BY BetweenFacts DEF JobFits, AdoptFits
<1>3. k \notin Reconciling
  BY <1>1, BetweenFacts
<1>4. job[k].pc \in TakingOff \cup {"rlookup"} => job[k].id \in Names
  BY <1>1, VerbOf DEF ReconcilePhases, TakingOff
<1>5. job[k].clean /\ job[k].pc \in TakingOff => HasCard(job[k].id)
  BY <1>3, BetweenFacts DEF JobFits, RemoveFits, VerbFits, TakingOff, Reconciling
<1>6. job[k].pc = "rlookup" => job[k].verb = "remove"
  BY <1>1, VerbOf DEF ReconcilePhases
<1> QED
  BY <1>2, <1>4, <1>5, <1>6, BetweenFacts DEF JobFits, RemoveFits, TakingOff

LEMMA AdoptCardFit ==
  ASSUME Between, NEW j \in Jobs, AdoptCard(j)
  PROVE  Fit'
<1> DEFINE n == job[j].at
           new == [id |-> job'[j].lib, at |-> n]
<1>1. Typed /\ Shaped
  BY DEF Between
<1>2. /\ job[j].pc = "acard" /\ Registers(j, job[j].point, "aset") /\ SameView /\ mounts' = mounts
      /\ drives' = drives /\ retracts' = retracts /\ j \in Reconciling
  BY <1>1, AdoptCardEffect, SameViewOf DEF SameInner, SameHost, Reconciling
<1>3. n \in Names
  BY <1>1, <1>2 DEF Shaped, JobsInv, At
<1>4. job[j].point = n /\ CleanRow(n) /\ ~HasCard(n) /\ \A c \in cards : c.at # n
  BY <1>2, BetweenFacts DEF JobFits, AdoptFits
<1>5. n \in Rows /\ RowFits(n) /\ mounts[n] = "live"
  BY <1>3, <1>4, BetweenFacts DEF Rows, RowFits, CleanRow, HasCard
<1>6. Others(j) /\ job'[j].pc = "aset" /\ job'[j].at = n
  BY <1>2 DEF Registers
<1>7. /\ Id' = Id /\ Live' = Live /\ Rows' = Rows
      /\ \A m : (CleanRow(m)' <=> CleanRow(m)) /\ (HasCard(m)' <=> HasCard(m))
  BY <1>2, SameViewFacts
<1>8. ASSUME NEW c \in cards' PROVE \/ c \in cards /\ ((c \in Real') <=> (c \in Real))
                                    \/ c = new /\ c.at = n /\ c.id = job'[j].lib /\ c \in Real'
  BY <1>2, <1>4, <1>8 DEF Registers, Real
<1>9. \A m : ~BeingSet(m)
  BY <1>2, NotBeingSet DEF MountPhases
<1>10. \A c \in Real' : c \in cards'
  BY DEF Real
<1>11. CardsMounted'
  <2> SUFFICES ASSUME NEW c \in Real' PROVE mounts[c.at] = "live" \/ \E h \in Handlers : Off(h, c)'
    BY <1>2 DEF CardsMounted
  <2>1. CASE c = new
    BY <1>5, <2>1
  <2>2. CASE c \in Real
    <3>1. ASSUME NEW h \in Handlers, Off(h, c) PROVE Off(h, c)'
      <4>1. h # j /\ h \in Jobs
        BY <1>2, <3>1, JobFacts DEF Off
      <4> QED
        BY <1>6, <3>1, <4>1 DEF Off, Others
    <3> QED
      BY <2>2, <3>1, BetweenFacts DEF CardsMounted
  <2> QED
    BY <1>8, <1>10, <2>1, <2>2
<1>12. CardsFit'
  <2>1. \A c \in Real' : c.at # n => c \in Real
    BY <1>8, <1>10
  <2>2. \A c \in cards' : c.at = n => c = new /\ c \in Real'
    BY <1>4, <1>8
  <2>3. \A d \in cards' \ Real' : d \in cards \ Real
    BY <1>8
  <2>4. \A c \in Real' : HasCard(c.at)' => c.id = drives'[c.at].lib
    BY <1>2, <1>4, <1>7, <1>9, <2>1, BetweenFacts DEF CardsFit
  <2>5. \A c \in Real', d \in cards' \ Real' : c.at = d.at => HasCard(c.at)'
    BY <1>7, <1>9, <2>1, <2>2, <2>3, BetweenFacts DEF CardsFit
  <2>6. \A c, d \in Real' : c.at = d.at => c = d
    BY <1>10, <2>1, <2>2, BetweenFacts DEF CardsFit
  <2> QED
    BY <2>4, <2>5, <2>6 DEF CardsFit
<1>13. ASSUME NEW m \in Rows' PROVE RowFits(m)'
  <2>1. m \in Rows /\ RowFits(m) /\ m = Id
    BY <1>2, <1>7, <1>13, BetweenFacts, RefreshedId
  <2>2. ~CleanRow(m) => mounts[m] # "live"
    BY <1>2, <2>1, NotYetLive
  <2> QED
    BY <1>2, <1>7, <2>1, <2>2 DEF RowFits
<1>14. ASSUME NEW k \in Jobs PROVE JobFits(k)'
  <2>1. CASE k = j
    <3>1. \A c \in Real' : c.at = n => c.id = job'[j].lib
      BY <1>4, <1>8, <1>10
    <3>2. AdoptFits(j)'
      BY <1>2, <1>4, <1>6, <3>1 DEF AdoptFits, HasCard, CleanRow
    <3> QED
      BY <1>6, <2>1, <3>2 DEF JobFits, MountFits, RemoveFits, VerbFits, Mounting
  <2>2. CASE k # j
    <3>1. k \notin Reconciling /\ job'[k] = job[k]
      BY <1>2, <1>6, <2>2, OthersOutside
    <3>2. \A c \in Real' : c.at # n => c \in Real
      BY <1>8, <1>10
    <3>3. Relies(k)
      BY <1>2, <1>7, <2>2, <3>1, <3>2, AdoptedApart DEF Relies, CleanRow
    <3> QED
      BY <1>1, <3>3, BetweenFacts, OutsideFits
  <2> QED
    BY <2>1, <2>2
<1> QED
  BY <1>7, <1>11, <1>12, <1>13, <1>14, BetweenFacts DEF Fit

LEMMA AdoptSetFit ==
  ASSUME Between, NEW j \in Jobs, AdoptSet(j)
  PROVE  Fit'
<1> DEFINE n == job[j].at
<1>1. Typed /\ Shaped
  BY DEF Between
<1>2. /\ job[j].pc = "aset" /\ n \in Names /\ Cards(n, job[j].lib) /\ Reconciled(j) /\ SameHost
      /\ cards' = cards /\ retracts' = retracts /\ j \in Reconciling
  BY <1>1, AdoptSetEffect DEF SameLibrary, Reconciling
<1>3. Others(j) /\ job'[j].pc \in {"idle", "mlookup", "flookup", "nlookup", "restore"}
  BY <1>2, StopFits DEF Reconciled, NextPhase
<1>4. /\ CleanRow(n) /\ n \in Rows /\ ~HasCard(n) /\ \A c \in Real : c.at = n => c.id = job[j].lib
  BY <1>2, BetweenFacts DEF JobFits, AdoptFits, CleanRow, Rows
<1>5. JobFits(j)' /\ Spares(j) /\ Refreshes(j)
  BY <1>2, <1>3, LightFits DEF Light, Spares, Off, Refreshes
<1>6. CASE job[j].lib = 0
  <2>1. drives' = drives
    BY <1>1, <1>2, <1>6 DEF Cards, Typed
  <2> QED
    BY <1>2, <1>3, <1>5, <2>1, SameViewOf, SameCards, StillFit
<1>7. CASE job[j].lib # 0
  <2>1. /\ drives'[n] # None /\ drives'[n].class = "clean" /\ drives'[n].root = drives[n].root
        /\ drives'[n].lib = job[j].lib /\ \A m \in Names : m # n => drives'[m] = drives[m]
    BY <1>2, <1>4, <1>7 DEF Cards, CleanRow
  <2>2. /\ Id' = Id /\ Live' = Live /\ Real' = Real /\ mounts' = mounts
        /\ cards' \ Real' = cards \ Real
    BY <1>2, SameCards DEF SameHost, Id, Live
  <2>3. Rows' = Rows
    BY <1>4, <2>1 DEF Rows
  <2>4. \A m : ~BeingSet(m)
    BY <1>2, NotBeingSet DEF MountPhases
  <2>5. CardsMounted'
    <3> SUFFICES ASSUME NEW c \in Real PROVE mounts[c.at] = "live" \/ \E h \in Handlers : Off(h, c)'
      BY <2>2 DEF CardsMounted
    <3>1. ASSUME NEW h \in Handlers, Off(h, c) PROVE Off(h, c)'
      <4>1. h # j /\ h \in Jobs
        BY <1>2, <3>1, JobFacts DEF Off
      <4> QED
        BY <1>3, <3>1, <4>1 DEF Off, Others
    <3> QED
      BY <3>1, BetweenFacts DEF CardsMounted
  <2>6. CardsFit'
    <3>1. \A c \in Real : c.at \in Names
      BY <1>1 DEF Real, Typed
    <3>2. \A c \in Real : HasCard(c.at)' => c.id = drives'[c.at].lib
      BY <1>4, <2>1, <2>4, <3>1, BetweenFacts DEF CardsFit, HasCard, CleanRow
    <3>3. \A c \in Real, d \in cards \ Real : c.at = d.at => HasCard(c.at)'
      BY <1>4, <1>7, <2>1, <2>4, <3>1, BetweenFacts DEF CardsFit, HasCard, CleanRow
    <3> QED
      BY <2>2, <3>2, <3>3, BetweenFacts DEF CardsFit
  <2>7. ASSUME NEW m \in Rows' PROVE RowFits(m)'
    <3>1. m \in Rows /\ RowFits(m) /\ m = Id /\ m \in Names
      BY <1>2, <2>3, <2>7, BetweenFacts, RefreshedId DEF Rows
    <3>2. m = n
      BY <1>2, <1>4, <3>1, RefreshedId
    <3> QED
      BY <1>4, <1>7, <2>1, <2>2, <3>1, <3>2 DEF RowFits, CleanRow
  <2>8. ASSUME NEW k \in Jobs PROVE JobFits(k)'
    <3>1. CASE k = j
      BY <1>5, <3>1
    <3>2. CASE k # j
      <4>1. k \notin Reconciling /\ job'[k] = job[k]
        BY <1>2, <1>3, <3>2, OthersOutside
      <4>2. Relies(k)
        BY <1>2, <2>1, <2>2, <2>3, <3>2, <4>1, AdoptedApart DEF Relies, CleanRow
      <4> QED
        BY <1>1, <4>2, BetweenFacts, OutsideFits
    <3> QED
      BY <3>1, <3>2
  <2> QED
    BY <2>2, <2>5, <2>6, <2>7, <2>8, BetweenFacts DEF Fit
<1> QED
  BY <1>6, <1>7

\* A verb that has refreshed keeps its mounted row through a tick's refresh.
LEMMA SwapKeeps ==
  ASSUME Between, NEW h \in Handlers, job[h].clean, job[h].pc \in TakingOff
  PROVE  CleanRow(job[h].id) /\ job[h].id \in Names /\ job[h].id = Id /\ plugged
<1>1. Typed /\ Shaped
  BY DEF Between
<1>2. SettledAt(h) /\ Settled(h) /\ CleanRow(job[h].id)
  BY <1>1, TakingOffSettled, BetweenFacts DEF VerbAt, TakeOffAt
<1>3. job[h].id \in Names
  BY <1>1, VerbOf, JobFacts DEF ReconcilePhases, TakingOff
<1> QED
  BY <1>2, <1>3 DEF SettledAt, CleanRow, Rows

LEMMA SwapFit ==
  ASSUME Between, NEW j \in Jobs, Swap(j)
  PROVE  Fit'
<1>1. Typed /\ Shaped
  BY DEF Between
<1>2. /\ job[j].pc = "swap" /\ Others(j) /\ job'[j].verb = job[j].verb /\ drives' = Refreshed(j)
      /\ mounts' = mounts /\ alias' = alias /\ cards' = cards /\ retracts' = retracts
      /\ j \in Reconciling
  BY <1>1, SwapEffect DEF SameHost, SameLibrary, Task, Reconciling
<1>3. \/ Steps(j, AfterRefresh(j))
      \/ /\ job'[j].pc = "force" /\ job'[j].point \in Names
         /\ CleanRow(job'[j].point) /\ Refreshed(j)[job'[j].point] = None
  BY <1>1, SwapEffect
<1>4. ~Stale(j)
  <2>1. job'[j].pc # "swap"
    BY <1>3 DEF Steps, AfterRefresh
  <2> QED
    BY <1>2, <2>1, BetweenFacts, MetFacts DEF Between, Quiet
<1>5. Id' = Id /\ Live' = Live /\ Real' = Real /\ cards' \ Real' = cards \ Real
  BY <1>2, SameCards DEF Id, Live
<1>6. Mounting = {} /\ \A m : ~BeingSet(m)
  BY <1>2, NotBeingSet DEF MountPhases
<1>7. Id \in Names
  BY <1>1, NamesAssumption DEF Typed, Id
<1>8. CardsMounted'
  <2> SUFFICES ASSUME NEW c \in Real PROVE mounts[c.at] = "live" \/ \E h \in Handlers : Off(h, c)'
    BY <1>2, <1>5 DEF CardsMounted
  <2>1. ASSUME NEW h \in Handlers, Off(h, c) PROVE Off(h, c)'
    <3>1. h # j /\ h \in Jobs
      BY <1>2, <2>1, JobFacts DEF Off
    <3> QED
      BY <1>2, <2>1, <3>1 DEF Off, Others
  <2> QED
    BY <2>1, BetweenFacts DEF CardsMounted
<1>9. ASSUME Live \subseteq Rows', job'[j].pc = "force" => Live = {} PROVE JobFits(j)'
  <2>1. CASE job'[j].pc = "auto"
    BY <2>1, LightFits DEF Light
  <2>2. CASE job'[j].pc \in {"rlookup", "force"}
    BY <1>5, <1>9, <2>2 DEF JobFits, MountFits, AdoptFits, RemoveFits, VerbFits, Mounting
  <2> QED
    BY <1>3, <2>1, <2>2 DEF Steps, AfterRefresh
<1>10. ASSUME NEW k \in Jobs, k # j
       PROVE  /\ k \notin Reconciling /\ job'[k] = job[k] /\ JobFits(k)
              /\ job[k].clean /\ job[k].pc \in TakingOff =>
                   CleanRow(job[k].id) /\ job[k].id \in Names /\ job[k].id = Id /\ plugged
              /\ job[k].pc \in {"rretract", "rdrop"} =>
                   job[k].id \in Names /\ mounts[job[k].id] # "live"
  <2>1. k \notin Reconciling /\ job'[k] = job[k] /\ JobFits(k)
    BY <1>2, <1>10, OthersOutside, BetweenFacts
  <2>2. CASE k \in Handlers
    <3>1. job[k].pc \in {"rretract", "rdrop"} => job[k].id \in Names
      BY <1>1, VerbOf DEF ReconcilePhases
    <3> QED
      BY <2>1, <2>2, <3>1, SwapKeeps, BetweenFacts DEF VerbAt, RemoveAt
  <2>3. CASE k = "tick"
    BY <1>1, <2>1, <2>3, TickFacts DEF ReconcilePhases
  <2> QED
    BY <2>2, <2>3 DEF Jobs
<1>11. CASE ~job[j].there
  <2>1. ~plugged
    BY <1>4, <1>11 DEF Stale
  <2>2. cards = {} /\ (\A n \in Names : ~CleanRow(n)) /\ Live = {}
    BY <1>1, <2>1, BetweenFacts DEF Between, NoVolume, NothingKnown, Shaped, MountsInv, Live
  <2>3. Rows' = {} /\ \A n \in Names : drives'[n] = None
    BY <1>1, <1>2, <1>11, RefreshedType DEF Rows
  <2>4. CardsFit'
    BY <1>2, <2>2 DEF CardsFit, Real
  <2>5. ASSUME NEW k \in Jobs PROVE JobFits(k)'
    <3>1. CASE k = j
      BY <1>9, <2>2, <3>1
    <3>2. CASE k # j
      <4>1. Relies(k)
        BY <1>2, <1>5, <1>10, <2>2, <2>3, <3>2 DEF Relies
      <4> QED
        BY <1>1, <1>10, <3>2, <4>1, OutsideFits
    <3> QED
      BY <3>1, <3>2
  <2> QED
    BY <1>5, <1>8, <2>2, <2>3, <2>4, <2>5 DEF Fit
<1>12. CASE job[j].there
  <2>1. /\ drives'[Id] # None /\ \A n \in Names : n # Id => drives'[n] = None
    BY <1>1, <1>2, <1>7, <1>12, RefreshedType
  <2>2. Rows' = {Id} /\ Live \subseteq Rows'
    BY <1>7, <2>1, BetweenFacts DEF Rows
  <2>3. job'[j].pc = "force" => Live = {}
    <3> SUFFICES ASSUME job'[j].pc = "force" PROVE Live = {}
      OBVIOUS
    <3>1. /\ job'[j].point \in Names /\ CleanRow(job'[j].point)
          /\ Refreshed(j)[job'[j].point] = None
      BY <1>3 DEF Steps, AfterRefresh
    <3>2. job'[j].point # Id /\ job'[j].point \in Rows
      BY <1>2, <2>1, <3>1 DEF Rows, CleanRow
    <3> QED
      BY <3>2, BetweenFacts DEF RowFits
  <2>4. JobFits(j)'
    BY <1>9, <2>2, <2>3
  <2>5. CASE Refreshed(j) = drives
    <3>1. SameView /\ Rows \subseteq {Id}
      BY <1>2, <2>1, <2>5 DEF SameView, Rows
    <3>2. Spares(j) /\ Refreshes(j)
      BY <1>2, <3>1 DEF Spares, Off, Refreshes
    <3> QED
      BY <1>2, <2>4, <3>1, <3>2, SameCards, StillFit
  <2>6. CASE Refreshed(j) # drives
    <3>1. /\ job[j].at = None => Live = {}
          /\ job[j].at # None => mounts[job[j].at] = "live" /\ job[j].at = Id
      <4>1. job[j].at # None => job[j].at \in Names
        BY <1>1 DEF Typed, Job
      <4> QED
        BY <1>4, <1>12, <2>6, <4>1, BetweenFacts DEF Stale, Live
    <3>2. CleanRow(Id) => drives'[Id] = drives[Id]
      BY <1>1, <1>2, <1>7, <1>12, RefreshedType
    <3>3. ~CleanRow(Id) => /\ drives'[Id].lib = 0 /\ drives'[Id].root = job[j].at
                           /\ drives'[Id].class = IF job[j].at = None THEN "unmounted" ELSE "clean"
      BY <1>1, <1>2, <1>7, <1>12, RefreshedType
    <3>4. ASSUME NEW c \in Real PROVE c.at = Id
      <4>1. c.at \in Names
        BY <1>1, <3>4 DEF Real, Typed
      <4>2. CASE mounts[c.at] = "live"
        BY <4>1, <4>2, BetweenFacts DEF Live
      <4>3. CASE mounts[c.at] # "live"
        <5>1. PICK h \in Handlers : Off(h, c)
          BY <3>4, <4>3, BetweenFacts DEF CardsMounted
        <5>2. h # j /\ h \in Jobs
          BY <1>2, <5>1, JobFacts DEF Off
        <5>3. job[h].pc = "rretract" /\ job[h].clean
          BY <1>10, <5>1, <5>2 DEF Off, Reconciling
        <5> QED
          BY <5>1, <5>3, SwapKeeps DEF Off, TakingOff
      <4> QED
        BY <4>2, <4>3
    <3>5. CardsFit'
      <4>1. ASSUME NEW c \in Real, drives'[Id].class = "clean", drives'[Id].lib # 0
            PROVE  c.id = drives'[Id].lib
        <5>1. CleanRow(Id) /\ HasCard(c.at) /\ c.at = Id /\ drives'[Id] = drives[Id]
          BY <3>2, <3>3, <3>4, <4>1 DEF HasCard
        <5> QED
          BY <1>6, <4>1, <5>1, BetweenFacts DEF CardsFit
      <4>2. ASSUME NEW c \in Real, NEW d \in cards \ Real, c.at = d.at
            PROVE  drives'[Id].class = "clean" /\ drives'[Id].lib # 0
        <5>1. HasCard(c.at)
          BY <1>6, <4>2, BetweenFacts DEF CardsFit
        <5> QED
          BY <3>2, <3>4, <5>1 DEF HasCard, CleanRow
      <4>3. \A c \in Real' : HasCard(c.at)' => c.id = drives'[c.at].lib
        BY <1>5, <3>4, <4>1 DEF HasCard, CleanRow
      <4>4. \A c \in Real', d \in cards' \ Real' : c.at = d.at => HasCard(c.at)'
        BY <1>5, <2>1, <3>4, <4>2 DEF HasCard, CleanRow
      <4>5. \A c, d \in Real' : c.at = d.at => c = d
        BY <1>5, BetweenFacts DEF CardsFit
      <4> QED
        BY <4>3, <4>4, <4>5 DEF CardsFit
    <3>6. ASSUME NEW m \in Rows' PROVE RowFits(m)'
      <4>1. m = Id
        BY <2>2, <3>6
      <4>2. CASE CleanRow(Id)
        <5>1. RowFits(Id)
          BY <1>7, <4>2, BetweenFacts DEF Rows, CleanRow
        <5> QED
          BY <1>2, <1>5, <3>2, <4>1, <4>2, <5>1 DEF RowFits, CleanRow
      <4>3. CASE ~CleanRow(Id)
        <5>1. CASE job[j].at = None
          <6>1. mounts'[Id] # "live" /\ drives'[Id].class # "clean"
            BY <1>2, <1>7, <3>1, <3>3, <4>3, <5>1 DEF Live
          <6> QED
            BY <1>5, <4>1, <6>1 DEF RowFits, CleanRow
        <5>2. CASE job[j].at # None
          <6>1. mounts'[Id] = "live" /\ drives'[Id].class = "clean" /\ drives'[Id].root = Id
            BY <1>2, <3>1, <3>3, <4>3, <5>2
          <6> QED
            BY <1>5, <2>1, <4>1, <6>1 DEF RowFits, CleanRow
        <5> QED
          BY <5>1, <5>2
      <4> QED
        BY <4>2, <4>3
    <3>7. ASSUME NEW k \in Jobs PROVE JobFits(k)'
      <4>1. CASE k = j
        BY <2>4, <4>1
      <4>2. CASE k # j
        <5>1. job[k].pc \in {"rretract", "rdrop"} /\ ~CleanRow(job[k].id) =>
                ~(drives'[job[k].id] # None /\ drives'[job[k].id].class = "clean")
          BY <1>10, <2>1, <3>1, <3>3, <4>2
        <5>2. Relies(k)
          BY <1>2, <1>5, <1>10, <2>2, <3>2, <4>2, <5>1 DEF Relies
        <5> QED
          BY <1>1, <1>10, <4>2, <5>2, OutsideFits
      <4> QED
        BY <4>1, <4>2
    <3> QED
      BY <1>5, <1>8, <3>5, <3>6, <3>7, BetweenFacts DEF Fit
  <2> QED
    BY <2>5, <2>6
<1> QED
  BY <1>11, <1>12

(* Nothing is known of a volume that was never there.                      *)
Barren(j) ==
  /\ Others(j) /\ plugged' = plugged /\ happened \subseteq happened'
  /\ ~plugged /\ NothingKnown =>
       /\ cards' \subseteq cards
       /\ \A n \in Names : drives'[n] = None \/ drives'[n].class # "clean"
       /\ job'[j].pc \notin {"card", "set", "acard"} /\ (job'[j].pc = "swap" => ~job'[j].there)
LEMMA BarrenFacts ==
  ASSUME NoVolume, NEW j \in Jobs, Barren(j)
  PROVE  NoVolume'
<1> SUFFICES ASSUME "yank" \notin happened', ~plugged' PROVE NothingKnown'
  BY DEF NoVolume
<1>1. NothingKnown /\ ~plugged
  BY DEF NoVolume, Barren
<1>2. ASSUME NEW k \in Jobs PROVE job'[k].pc \notin {"card", "set", "acard"}
                                  /\ (job'[k].pc = "swap" => ~job'[k].there)
  BY <1>1 DEF Barren, Others, NothingKnown
<1> QED
  BY <1>1, <1>2 DEF NothingKnown, Barren, CleanRow

LEMMA JobStepBarren ==
  ASSUME Typed, Shaped, NEW j \in Jobs, JobStep(j) \/ ReadFails(j)
  PROVE  Barren(j)
<1>1. CASE Read(j)
  BY <1>1, ReadEffect
     DEF Barren, NothingKnown, CleanRow, SameHost, SameInner, SameLibrary, SameBounds
<1>2. CASE Swap(j)
  <2>1. /\ Others(j) /\ plugged' = plugged /\ happened' = happened /\ cards' = cards
        /\ drives' = Refreshed(j) /\ job'[j].pc \in {"auto", "rlookup", "force"} /\ job[j].pc = "swap"
    BY <1>2, SwapEffect DEF SameHost, SameLibrary, SameBounds, Steps, AfterRefresh
  <2>2. ~job[j].there => \A n \in Names : drives'[n] = None
    BY <2>1, RefreshedType
  <2> QED
    BY <2>1, <2>2 DEF Barren, NothingKnown
<1>3. CASE ForceGone(j)
  BY <1>3, ForceGoneEffect
     DEF Barren, NothingKnown, CleanRow, SameInner, SameLibrary, AtMost, Steps
<1>4. CASE Retract(j)
  BY <1>4, RetractEffect
     DEF Barren, NothingKnown, CleanRow, SameHost, SameInner, Drops, AtMost, AfterRefresh
<1>5. CASE AutoMount(j)
  BY <1>5, AutoMountEffect
     DEF Barren, NothingKnown, CleanRow, SameHost, SameInner, SameLibrary, SameBounds, Steps
<1>6. CASE Mount(j)
  <2>1. plugged' = plugged /\ cards' = cards /\ happened \subseteq happened'
    BY <1>6, MountEffect DEF SameLibrary, AtMost
  <2>2. CASE plugged /\ Steps(j, "card")
    BY <2>1, <2>2 DEF Barren, Steps
  <2>3. CASE (Marks(Target(j), "failed_other") \/ drives' = drives) /\ Attempted(j)
    <3>1. Others(j) /\ job'[j].pc \in {"idle", "adopt"}
      BY <2>3, JobFacts DEF Attempted, Stops
    <3>2. \A n \in Names : drives'[n] = drives[n] \/ drives'[n] = None
                           \/ drives'[n].class = "failed_other"
      BY <2>3 DEF Marks
    <3> QED
      BY <2>1, <3>1, <3>2 DEF Barren, NothingKnown, CleanRow
  <2> QED
    BY <1>6, <2>2, <2>3, MountEffect
<1>7. CASE Card(j) \/ SetMounted(j) \/ AdoptCard(j)
  <2>1. job[j].pc \in {"card", "set", "acard"} /\ Others(j) /\ plugged' = plugged
        /\ happened \subseteq happened'
    BY <1>7, CardEffect, SetMountedEffect, AdoptCardEffect
       DEF Registers, AtMost, SameHost, Attempted, Stops, SameBounds
  <2> QED
    BY <2>1 DEF Barren, NothingKnown
<1>8. CASE Adopt(j)
  <2>1. SameHost /\ SameInner /\ SameLibrary /\ AtMost("cardlist")
    BY <1>8, AdoptEffect
  <2>2. CASE Reconciled(j)
    <3>1. Others(j) /\ job'[j].pc \in {"idle", "mlookup", "flookup", "nlookup", "restore"}
      BY <2>2, JobFacts DEF Reconciled, NextPhase, Stops
    <3> QED
      BY <2>1, <3>1 DEF Barren, NothingKnown, CleanRow, SameHost, SameInner, SameLibrary, AtMost
  <2>3. CASE Others(j) /\ Bare(job'[j].at)
    BY <2>1, <2>3 DEF Barren, NothingKnown, Bare, SameHost, AtMost
  <2> QED
    BY <1>8, <2>2, <2>3, AdoptEffect
<1>9. CASE AdoptSet(j)
  <2>1. /\ SameHost /\ SameLibrary /\ SameBounds /\ Reconciled(j) /\ Cards(job[j].at, job[j].lib)
        /\ job[j].at \in Names
    BY <1>9, AdoptSetEffect
  <2>2. Others(j) /\ job'[j].pc \in {"idle", "mlookup", "flookup", "nlookup", "restore"}
    BY <2>1, JobFacts DEF Reconciled, NextPhase, Stops
  <2>3. \A n \in Names : \/ drives'[n] = drives[n]
                         \/ drives[n] # None /\ drives'[n].class = drives[n].class
    BY <2>1 DEF Cards
  <2> QED
    BY <2>1, <2>2, <2>3 DEF Barren, NothingKnown, CleanRow, SameHost, SameLibrary, SameBounds
<1>10. CASE MountLookup(j)
  BY <1>10, MountLookupEffect, JobFacts
     DEF Barren, NothingKnown, CleanRow, SameHost, SameInner, SameLibrary, SameBounds, Steps,
         Stops
<1>11. CASE RemoveLookup(j)
  BY <1>11, RemoveLookupEffect
     DEF Barren, NothingKnown, CleanRow, SameHost, SameLibrary, SameBounds, Steps
<1>12. CASE RemoveUmount(j)
  BY <1>12, RemoveUmountEffect, JobFacts
     DEF Barren, NothingKnown, CleanRow, SameInner, SameLibrary, AtMost, Steps, Stops
<1>13. CASE RemoveForce(j)
  BY <1>13, RemoveForceEffect, JobFacts
     DEF Barren, NothingKnown, CleanRow, SameInner, SameLibrary, AtMost, Steps, Stops
<1>14. CASE RemoveRetract(j)
  BY <1>14, RemoveRetractEffect DEF Barren, NothingKnown, CleanRow, SameHost, SameBounds, Steps
<1>15. CASE RemoveDrop(j)
  <2>1. /\ Steps(j, "rsafe") /\ SameHost /\ SameLibrary /\ SameBounds
        /\ \A n \in Names : drives'[n] = drives[n] \/ drives'[n] = None
    BY <1>15, RemoveDropEffect DEF Typed
  <2> QED
    BY <2>1 DEF Barren, NothingKnown, CleanRow, SameHost, SameLibrary, SameBounds, Steps
<1>16. CASE RemoveSafe(j)
  BY <1>16, RemoveSafeEffect, JobFacts
     DEF Barren, NothingKnown, CleanRow, SameHost, SameLibrary, SameBounds, Stops
<1>17. CASE RepairLookup(j)
  BY <1>17, RepairLookupEffect, JobFacts
     DEF Barren, NothingKnown, CleanRow, SameHost, SameInner, SameBounds, Drops, AtMost, Stops
<1>18. CASE RepairUmount(j)
  BY <1>18, RepairUmountEffect, JobFacts
     DEF Barren, NothingKnown, CleanRow, SameInner, SameLibrary, AtMost, Steps, Stops
<1>19. CASE FsckBegins(j) \/ FsckEnds(j)
  <2>1. plugged' = plugged /\ cards' = cards /\ happened \subseteq happened'
    BY <1>19, FsckBeginsEffect, FsckEndsEffect DEF SameHost, SameLibrary, AtMost
  <2>2. Others(j) /\ job'[j].pc \in {"idle", "fsck", "mount"}
    BY <1>19, FsckBeginsEffect, FsckEndsEffect, JobFacts DEF Stops, Steps
  <2>3. \/ drives' = drives
        \/ \E n \in Names, c \in {"failed_dirty", "hiberfile"} : Marks(n, c)
    <3>1. job[j].id \in Names
      BY <1>19, VerbOf DEF FsckBegins, FsckEnds, ReconcilePhases
    <3> QED
      BY <1>19, <3>1, FsckBeginsEffect, FsckEndsEffect
  <2>4. \A n \in Names : \/ drives'[n] = drives[n] \/ drives'[n] = None
                         \/ drives'[n].class \in {"failed_dirty", "hiberfile"}
    BY <2>3 DEF Marks
  <2> QED
    BY <2>1, <2>2, <2>4 DEF Barren, NothingKnown, CleanRow
<1>20. CASE RenameLookup(j)
  BY <1>20, RenameLookupEffect, JobFacts
     DEF Barren, NothingKnown, CleanRow, SameHost, SameInner, AtMost, Stops
<1>21. CASE RenameUmount(j)
  BY <1>21, RenameUmountEffect, JobFacts
     DEF Barren, NothingKnown, CleanRow, SameInner, AtMost, Steps, Stops
<1>22. CASE RenameStop(j)
  BY <1>22, RenameStopEffect
     DEF Barren, NothingKnown, CleanRow, SameHost, SameInner, Drops, AtMost
<1>23. CASE RenameSave(j)
  BY <1>23, RenameSaveEffect, JobFacts
     DEF Barren, NothingKnown, CleanRow, SameInner, SameLibrary, AtMost, Stops
<1>24. CASE RenameRestore(j)
  BY <1>24, RenameRestoreEffect, JobFacts
     DEF Barren, NothingKnown, CleanRow, SameHost, SameInner, AtMost, Stops
<1>25. CASE ReadFails(j)
  BY <1>25, ReadFailsEffect, JobFacts
     DEF Barren, NothingKnown, CleanRow, SameHost, SameInner, SameLibrary, AtMost, Stops
<1> QED
  BY <1>1, <1>2, <1>3, <1>4, <1>5, <1>6, <1>7, <1>8, <1>9, <1>10, <1>11, <1>12, <1>13, <1>14,
     <1>15, <1>16, <1>17, <1>18, <1>19, <1>20, <1>21, <1>22, <1>23, <1>24, <1>25 DEF JobStep

LEMMA NextNoVolume ==
  ASSUME TypeOK, Typed, Shaped, NoVolume, Next
  PROVE  NoVolume'
<1>1. ASSUME NEW j \in Jobs, JobStep(j) \/ ReadFails(j) PROVE NoVolume'
  BY <1>1, JobStepBarren, BarrenFacts
<1>2. ASSUME NEW h \in Handlers, Request(h) PROVE NoVolume'
  <2>1. PICK v \in Verbs, n \in Names, to \in Names \cup {None} : Arrives(h, v, n, to)
    BY <1>2, RequestEffect
  <2>2. Barren(h) /\ h \in Jobs
    BY <2>1, JobFacts DEF Barren, NothingKnown, CleanRow, Arrives, SameHost, SameLibrary
  <2> QED
    BY <2>2, BarrenFacts
<1>3. CASE StartTick
  <2>1. Barren("tick") /\ "tick" \in Jobs
    BY <1>3, StartTickEffect, JobFacts
       DEF Barren, NothingKnown, CleanRow, Steps, SameHost, SameInner, SameLibrary, SameBounds
  <2> QED
    BY <2>1, BarrenFacts
<1>4. ASSUME NEW id \in CardIds, SpawnedRetract(id) PROVE NoVolume'
  BY <1>4, SpawnedRetractEffect
     DEF NoVolume, NothingKnown, CleanRow, SameHost, SameInner, Drops, AtMost
<1>5. CASE Yank
  BY <1>5, YankEffect DEF NoVolume
<1>6. CASE Plug
  BY <1>6, PlugEffect DEF NoVolume
<1>7. CASE Restart
  <2>1. NothingKnown => NothingKnown'
    BY <1>7, RestartEffect, JobFacts DEF NothingKnown, CleanRow
  <2> QED
    BY <1>7, <2>1, RestartEffect DEF NoVolume, AtMost, SameHost
<1> QED
  BY <1>1, <1>2, <1>3, <1>4, <1>5, <1>6, <1>7 DEF Next

\* A trouble that happened stays known.
LEMMA HappenedGrows ==
  ASSUME Typed, Shaped, Next
  PROVE  happened \subseteq happened'
<1>1. ASSUME NEW j \in Jobs, JobStep(j) \/ ReadFails(j) PROVE happened \subseteq happened'
  BY <1>1, JobStepBarren DEF Barren
<1>2. ASSUME NEW h \in Handlers, Request(h) PROVE happened \subseteq happened'
  <2>1. PICK v \in Verbs, n \in Names, to \in Names \cup {None} : Arrives(h, v, n, to)
    BY <1>2, RequestEffect
  <2> QED
    BY <2>1 DEF Arrives
<1>3. ASSUME NEW id \in CardIds, SpawnedRetract(id) PROVE happened \subseteq happened'
  BY <1>3, SpawnedRetractEffect DEF Drops, AtMost
<1>4. CASE StartTick \/ Yank \/ Plug \/ Restart
  BY <1>4, StartTickEffect, YankEffect, PlugEffect, RestartEffect DEF AtMost, SameBounds
<1> QED
  BY <1>1, <1>2, <1>3, <1>4 DEF Next

LEMMA NextCards ==
  ASSUME TypeOK, Shaped, QuietInv, QueueInv, CardsInv, Next
  PROVE  CardsInv'
<1>1. Typed /\ Shaped' /\ History
  BY NextType DEF Next
<1>2. NoVolume'
  BY <1>1, NextNoVolume DEF CardsInv
<1>3. ASSUME Undisturbed' PROVE Fit'
  <2>1. Undisturbed
    BY <1>1, <1>3, HistoryFacts, HappenedGrows DEF Undisturbed
  <2>2. QuietInv' /\ Apart'
    BY NextQuiet, NextQueue DEF QueueInv
  <2>3. Between
    BY <1>1, <1>3, <2>1, <2>2 DEF Between, CardsInv
  <2>4. ASSUME NEW j \in Jobs, JobStep(j) PROVE Fit'
    BY <2>3, <2>4, ReadFit, SwapFit, ForceGoneFit, RetractFit, AutoMountFit, MountFit,
       CardFit, SetMountedFit, AdoptFit, AdoptCardFit, AdoptSetFit, MountLookupFit,
       RemoveLookupFit, RemoveUmountFit, RemoveForceFit, RemoveRetractFit, RemoveDropFit,
       RemoveSafeFit, RepairLookupFit, RepairUmountFit, FsckBeginsFit, FsckEndsFit,
       RenameLookupFit, RenameUmountFit, RenameStopFit, RenameSaveFit, RenameRestoreFit
       DEF JobStep
  <2>5. ~Yank
    BY <1>1, <1>3, YankEffect DEF Undisturbed
  <2> QED
    BY <2>3, <2>4, <2>5, ReadFailsFit, SpawnedRetractFit, StartTickFit, PlugFit, RestartFit,
       RequestFit DEF Next
<1> QED
  BY <1>2, <1>3 DEF CardsInv

(***************************************************************************)
(* VolumeInv.                                                              *)
(***************************************************************************)
LEMMA InitInv ==
  ASSUME Init
  PROVE  IInv
<1>1. /\ \A j \in Jobs : job[j] = IdleJob
      /\ \A n \in Names : drives[n] = None
      /\ removal = None /\ held = {} /\ retracts = {} /\ happened = {} /\ asked = 0
      /\ queue = Base /\ alias = None /\ plugged \in BOOLEAN
      /\ crossed = FALSE /\ met = FALSE /\ together = FALSE /\ inplace = FALSE
  BY DEF Init
<1>2. \/ cards = {} /\ \A n \in Names : mounts[n] = "none"
      \/ /\ plugged /\ cards = {[id |-> 1, at |-> Base]}
         /\ \A n \in Names : mounts[n] = IF n = Base THEN "live" ELSE "none"
  BY DEF Init
<1>3. TypeOK
  <2>1. job \in [Jobs -> Job] /\ drives \in [Names -> Row \cup {None}]
    BY JobFacts DEF Init
  <2>2. mounts \in [Names -> {"none", "live", "dead"}]
    BY DEF Init
  <2>3. cards \subseteq [id : CardIds, at : Names]
    BY <1>2, NamesAssumption, BoundsAssumption DEF CardIds
  <2>4. asked \in 0..MaxRequests
    BY <1>1, HandlersAssumption
  <2> QED
    BY <1>1, <2>1, <2>2, <2>3, <2>4, NamesAssumption DEF TypeOK
<1>4. Shaped
  <2>1. JobsInv
    BY <1>1, IdleAt DEF JobsInv
  <2>2. AskedInv
    BY <1>1, JobFacts DEF AskedInv, Handlers, Jobs
  <2> QED
    BY <1>1, <1>2, <2>1, <2>2 DEF Shaped, RowsInv, MountsInv
<1>5. \A j \in Jobs : job[j].pc = "idle" /\ job[j].verb = "tick" /\ ~job[j].parked /\ ~job[j].clean
  BY <1>1, JobFacts
<1>6. QuietInv
  <2>1. Mounting = {}
    BY <1>5 DEF Mounting
  <2>2. Alone
    BY <1>5, JobFacts DEF Alone, Busy
  <2>3. \A h \in Handlers : VerbAt(h)
    BY <1>5, JobFacts DEF VerbAt, SettledAt, Settled, TakeOffAt, ProbeAt, LookupAt, RemoveAt
  <2> QED
    BY <1>1, <2>1, <2>2, <2>3 DEF QuietInv, SafeInv
<1>7. QueueInv
  <2>1. Apart
    BY <1>5 DEF Apart, Reconciling
  <2>2. \A h \in Handlers : ParkAt(h)
    BY <1>5, JobFacts DEF ParkAt
  <2>3. QueueKept
    BY <1>1, NamesAssumption DEF QueueKept
  <2> QED
    BY <2>1, <2>2, <2>3 DEF QueueInv, ParkInv
<1>8. NoVolume
  BY <1>1, <1>2, <1>5 DEF NoVolume, NothingKnown, CleanRow
<1>9. Fit
  <2>1. CardsMounted /\ Live \subseteq {Id} /\ \A c, d \in Real : c = d
    BY <1>1, <1>2, NamesAssumption DEF CardsMounted, Real, Live, Id
  <2>2. CardsFit
    <3>1. cards \ Real = {} /\ \A c \in Real : c.at \in Names
      BY <1>1, <1>3 DEF Real, TypeOK
    <3>2. \A n \in Names : ~HasCard(n)
      BY <1>1 DEF HasCard, CleanRow
    <3> QED
      BY <2>1, <3>1, <3>2 DEF CardsFit
  <2>3. \A j \in Jobs : JobFits(j)
    BY <1>5 DEF JobFits, MountFits, AdoptFits, RemoveFits, VerbFits, Mounting
  <2> QED
    BY <1>1, <2>1, <2>2, <2>3 DEF Fit, Rows
<1> QED
  BY <1>3, <1>4, <1>6, <1>7, <1>8, <1>9 DEF IInv, CardsInv

LEMMA NextInv ==
  ASSUME IInv, [Next]_vars
  PROVE  IInv'
<1>1. CASE Next
  BY <1>1, NextType, NextQuiet, NextQueue, NextCards DEF IInv
<1>2. CASE UNCHANGED vars
  <2>1. /\ plugged' = plugged /\ alias' = alias /\ mounts' = mounts /\ drives' = drives
        /\ held' = held /\ removal' = removal /\ cards' = cards /\ retracts' = retracts
        /\ queue' = queue /\ job' = job /\ crossed' = crossed /\ met' = met
        /\ together' = together /\ inplace' = inplace /\ asked' = asked /\ happened' = happened
    BY <1>2 DEF vars, inner, library, boundVars
  <2>2. TypeOK' /\ Shaped'
    BY <2>1 DEF IInv, TypeOK, Shaped, JobsInv, AskedInv, RowsInv, MountsInv
  <2>3. /\ Id' = Id /\ Live' = Live /\ Rows' = Rows /\ Mounting' = Mounting /\ Exposed' = Exposed
        /\ Reconciling' = Reconciling /\ Real' = Real
    BY <2>1 DEF Id, Live, Rows, Mounting, Exposed, Reconciling, Real
  <2>4. /\ \A n : (CleanRow(n)' <=> CleanRow(n)) /\ (HasCard(n)' <=> HasCard(n))
        /\ \A j \in Jobs : Target(j)' = Target(j)
    BY <2>1 DEF CleanRow, HasCard, Target
  <2>5. QuietInv'
    <3>1. Alone'
      BY <2>1 DEF IInv, QuietInv, Alone, Busy
    <3>2. SafeInv'
      BY <2>1, <2>3, <2>4 DEF IInv, QuietInv, SafeInv, Quiet, Mounting
    <3>3. ASSUME NEW h \in Handlers, VerbAt(h) PROVE VerbAt(h)'
      <4>1. SettledAt(h)'
        BY <2>1, <2>3, <2>4, <3>3 DEF VerbAt, SettledAt, Settled
      <4>2. TakeOffAt(h)'
        BY <2>1, <2>3, <2>4, <3>3 DEF VerbAt, TakeOffAt
      <4>3. ProbeAt(h)'
        BY <2>1, <2>3, <2>4, <3>3 DEF VerbAt, ProbeAt
      <4>4. LookupAt(h)' /\ RemoveAt(h)'
        BY <2>1, <2>3, <2>4, <3>3 DEF VerbAt, LookupAt, RemoveAt, Mounting
      <4> QED
        BY <4>1, <4>2, <4>3, <4>4 DEF VerbAt
    <3> QED
      BY <2>1, <2>3, <3>1, <3>2, <3>3 DEF IInv, QuietInv, Quiet
  <2>6. QueueInv'
    BY <2>1, <2>3 DEF IInv, QueueInv, Apart, ParkInv, ParkAt, QueueKept
  <2>7. NoVolume'
    BY <2>1, <2>4 DEF IInv, CardsInv, NoVolume, NothingKnown
  <2>8. ASSUME Undisturbed' PROVE Fit'
    <3>1. Undisturbed /\ Fit
      BY <2>1, <2>8 DEF IInv, CardsInv, Undisturbed
    <3>2. \A n : BeingSet(n)' <=> BeingSet(n)
      BY <2>1, <2>4 DEF BeingSet
    <3>3. CardsMounted'
      BY <2>1, <2>3, <3>1 DEF Fit, CardsMounted, Off
    <3>4. CardsFit'
      BY <2>1, <2>3, <2>4, <3>1, <3>2 DEF Fit, CardsFit
    <3>5. ASSUME NEW n \in Rows PROVE RowFits(n)'
      BY <2>1, <2>3, <2>4, <3>1 DEF Fit, RowFits
    <3>6. ASSUME NEW j \in Jobs PROVE JobFits(j)'
      <4>1. Typed /\ Shaped /\ JobFits(j) /\ SameView /\ FewerCards
        BY <2>1, <2>3, <3>1 DEF IInv, TypeOK, Typed, Fit, SameView, FewerCards
      <4> QED
        BY <2>1, <4>1, SameJobFits
    <3> QED
      BY <2>3, <3>1, <3>3, <3>4, <3>5, <3>6 DEF Fit
  <2> QED
    BY <2>2, <2>5, <2>6, <2>7, <2>8 DEF IInv, CardsInv
<1> QED
  BY <1>1, <1>2

LEMMA InvImplies ==
  ASSUME IInv
  PROVE  VolumeInv
<1>1. SafeMeansOff
  BY DEF IInv, QuietInv, SafeInv, Quiet, SafeMeansOff
<1>2. FsckAlone
  <2> SUFFICES ASSUME NEW h \in Handlers, job[h].pc = "fsck", job[h].clean, ~met, ~crossed
               PROVE  Live = {}
    BY DEF FsckAlone
  <2>1. TakeOffAt(h)
    BY DEF IInv, QuietInv, Quiet, VerbAt
  <2> QED
    BY <2>1 DEF TakeOffAt, TakingOff
<1>3. OneCard
  BY DEF IInv, CardsInv, Undisturbed, Fit, CardsFit, Real, OneCard
<1> QED
  BY <1>1, <1>2, <1>3 DEF IInv, QueueInv, VolumeInv

\* Whatever ticks, verbs, pulled volumes, restarts and failures interleave, the
\* registry of storage.usb/runtime.rs keeps its promises: a volume announced as
\* safe is off the host, fsck has a volume that it found mounted alone, a mount
\* point has one card, and tracks stay parked only while a rename runs.  Excepted
\* are a mount under way when the verb looks, a stale probe, overlapping verbs or
\* reconciles, a pull or restart in the middle, and the exits of a rename that
\* leave the tracks parked: an unanswered park or restore, a wrapper that cannot
\* be run, an alias that cannot be saved, a failed second probe.  It holds for any
\* names, any number of verbs and of troubles.
THEOREM VolumeCorrect == Spec => []VolumeInv
<1>1. Init => IInv
  BY InitInv
<1>2. IInv /\ [Next]_vars => IInv'
  BY NextInv
<1>3. IInv => VolumeInv
  BY InvImplies
<1> QED
  BY <1>1, <1>2, <1>3, PTL DEF Spec
====
