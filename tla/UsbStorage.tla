----------------------------- MODULE UsbStorage -----------------------------
(***************************************************************************)
(* The USB storage plugin (storage.usb/src/runtime.rs) and one removable   *)
(* volume: the registry, the operator's holds and the removal banner, the  *)
(* alias file, the host's mount table, the library's source cards and the  *)
(* operator's queue.  The reconcile tick and the verbs all refresh the     *)
(* registry from a probe of the host taken before the lock, and run        *)
(* wrapper and library calls without it.                                   *)
(*                                                                         *)
(* A name is a stable id and stands for the mount point USB/<id> as well.  *)
(***************************************************************************)
EXTENDS Naturals, FiniteSets, Sequences

CONSTANTS
  Names,        \* stable ids the volume can have
  Base,         \* the one it derives without an alias
  None,
  MaxCards,     \* more than are ever referred to at once
  HandlerNames, \* the handler of each verb, in the order they are sent
  MaxRequests,  \* how many verbs the operator sends
  MaxTrouble,   \* how many other events happen
  Aliases,      \* what a rename may ask for; None clears the alias
  Allowed       \* the verbs and events that may happen

Verbs == {"list", "mount", "remove", "repair", "rename"}

\* probe: lsblk fails.  wrapper: the wrapper cannot be run.  mount: it cannot
\* mount.  busy: a clean umount fails.  force: a lazy one fails.  dirty,
\* hiberfile: what fsck may find.  cardlist, cardadd, carddrop, park, restore:
\* the library does not answer.  save: the alias file cannot be written.
Troubles == {"yank", "probe", "wrapper", "mount", "busy", "force", "dirty",
             "hiberfile", "cardlist", "cardadd", "carddrop", "park", "restore",
             "save", "restart"}

ASSUME NamesAssumption == Base \in Names /\ {None, "parked"} \cap Names = {}
ASSUME AliasesAssumption == Aliases \subseteq Names \cup {None}
ASSUME BoundsAssumption == MaxCards \in Nat \ {0} /\ MaxTrouble \in Nat
ASSUME AllowedAssumption == Allowed \subseteq Verbs \cup Troubles

CardIds == 1..MaxCards
Classes == {"unmounted", "clean", "failed_other", "failed_dirty", "hiberfile"}
Row == [class : Classes, root : Names \cup {None}, lib : 0..MaxCards]
Handlers == {HandlerNames[i] : i \in 1..MaxRequests}
Jobs == Handlers \cup {"tick"}
Stages == {"queue", "detach", "retract", "safe"}
Notice == [id : Names, stage : Stages]

ASSUME HandlersAssumption ==
  /\ HandlerNames \in Seq(STRING) /\ MaxRequests \in 0..Len(HandlerNames)
  /\ \A i, k \in 1..Len(HandlerNames) : HandlerNames[i] = HandlerNames[k] => i = k
  /\ "tick" \notin Handlers
ASSUME NoneAssumption == None \notin Row \cup Notice

VARIABLES
  plugged, alias,         \* the volume is there; its persisted alias
  mounts,                 \* what each mount point holds
  drives, held, removal,  \* RuntimeInner
  cards, retracts,        \* library sources; catalogue drops that were spawned
  queue,                  \* where the queued tracks of the volume are
  job,                    \* what the tick and each verb are doing
  crossed, met, together, inplace, \* history, see below
  asked, happened         \* verbs sent, troubles that happened

inner == <<drives, held, removal>>
library == <<cards, retracts, queue>>
boundVars == <<asked, happened>>
vars == <<plugged, alias, mounts, inner, library, job, crossed, met, together,
          inplace, boundVars>>

(* History: `crossed` that two verbs overlapped, or the volume was pulled  *)
(* or the plugin stopped in the middle of something or before the first    *)
(* refresh; `met` that a mount was already under way when a removal or     *)
(* repair looked at its row, that a probe of an absent volume took the     *)
(* hold away before the banner went up, that a stale probe was applied, or *)
(* that the detach of an unknown volume failed, which only logs;           *)
(* `together` that two reconciles, or a reconcile and a repair or rename,  *)
(* overlapped or a volume was taken off or vanished before its card was    *)
(* learnt; `inplace` that a rename saved the name the volume already has.  *)

Id == IF alias = None THEN Base ELSE alias

\* verb says whose job it is; `auto` that the mount belongs to a reconcile;
\* point is the mount point of a vanished row or of the row to adopt.
IdleJob == [pc |-> "idle", verb |-> "tick", id |-> None, there |-> FALSE,
            at |-> None, point |-> None, lib |-> 0, auto |-> FALSE,
            known |-> FALSE, clean |-> FALSE, to |-> None, parked |-> FALSE]

Happens(e) ==
  /\ e \in Allowed \ happened /\ Cardinality(happened) < MaxTrouble
  /\ happened' = happened \cup {e} /\ UNCHANGED asked
Fine == UNCHANGED boundVars

Goto(j, p) == job' = [job EXCEPT ![j].pc = p]
Done(j) == job' = [job EXCEPT ![j] = IdleJob]
Live == {n \in Names : mounts[n] = "live"}

------------------------------------------------------------------------------
(* The verbs arrive.                                                       *)

\* list_drives, mount, repair and rename reconcile first, safe_remove only
\* refreshes; mount, repair and rename drop the hold and its banner.
Verb(h, v, n, to) ==
  /\ v \in Allowed /\ asked < MaxRequests /\ h = HandlerNames[asked + 1]
  /\ asked' = asked + 1 /\ UNCHANGED happened
  /\ job' = [job EXCEPT ![h] = [IdleJob EXCEPT !.pc = "read", !.verb = v,
                                               !.id = n, !.to = to]]
  /\ IF v \in {"mount", "repair", "rename"}
       THEN /\ held' = held \ {n}
            /\ removal' = IF removal # None /\ removal.id = n THEN None ELSE removal
       ELSE UNCHANGED <<held, removal>>
  /\ UNCHANGED <<plugged, alias, mounts, drives, library>>

StartTick ==
  /\ job["tick"].pc = "idle"
  /\ job' = [job EXCEPT !["tick"].pc = "read"]
  /\ UNCHANGED <<plugged, alias, mounts, inner, library, boundVars>>

------------------------------------------------------------------------------
(* refresh_registry.                                                       *)

\* lsblk and mountinfo, before the lock.
Read(j) ==
  /\ job[j].pc = "read"
  /\ \E n \in IF Live = {} THEN {None} ELSE Live :
       job' = [job EXCEPT ![j].pc = "swap", ![j].there = plugged, ![j].at = n]
  /\ UNCHANGED <<plugged, alias, mounts, inner, library, boundVars>>

\* The error ends tick and verb alike.
ReadFails(j) ==
  /\ job[j].pc = "read" /\ Happens("probe")
  /\ Done(j)
  /\ UNCHANGED <<plugged, alias, mounts, inner, library>>

\* from_partition
Classified(n) ==
  [class |-> IF n = None THEN "unmounted" ELSE "clean", root |-> n, lib |-> 0]

\* Mutant: the classifier decides alone.
RefreshedAnew(j) ==
  [n \in Names |-> IF job[j].there /\ n = Id THEN Classified(job[j].at) ELSE None]

\* Mutant: every known row keeps its class.
RefreshedKeeping(j) ==
  [n \in Names |->
     IF ~(job[j].there /\ n = Id) THEN None
     ELSE IF drives[n] # None THEN drives[n]
     ELSE Classified(job[j].at)]

\* The new registry: a row that was mounted keeps its class, root and card.
Refreshed(j) ==
  [n \in Names |->
     IF ~(job[j].there /\ n = Id) THEN None
     ELSE IF drives[n] # None /\ drives[n].class = "clean" THEN drives[n]
     ELSE Classified(job[j].at)]

\* Where a job goes once the registry is fresh.
AfterRefresh(j) == IF job[j].verb = "remove" THEN "rlookup" ELSE "auto"

\* A mounted row that is gone is cleaned up after the lock is released; the
\* hold and the banner go with the volume.
Swap(j) ==
  LET fresh == Refreshed(j)
      gone == {n \in Names : fresh[n] = None /\ drives[n] # None
                             /\ drives[n].class = "clean"}
      present == {n \in Names : fresh[n] # None}
  IN  /\ job[j].pc = "swap"
      /\ drives' = fresh
      /\ held' = held \cap present
      /\ removal' = IF removal # None /\ removal.id \notin present THEN None ELSE removal
      /\ IF gone = {} THEN Goto(j, AfterRefresh(j))
         ELSE \E n \in gone :
                job' = [job EXCEPT ![j].pc = "force", ![j].point = n,
                                   ![j].lib = drives[n].lib]
      /\ UNCHANGED <<plugged, alias, mounts, library, boundVars>>

\* Mutant: the row just goes.
ForceGoneSkipped(j) ==
  /\ job[j].pc = "force"
  /\ Goto(j, "retract") /\ Fine
  /\ UNCHANGED <<plugged, alias, mounts, inner, library>>

\* The leftover mount is detached; failing is only logged.
ForceGone(j) ==
  /\ job[j].pc = "force"
  /\ \/ mounts' = [mounts EXCEPT ![job[j].point] = "none"] /\ Fine
     \/ mounts[job[j].point] # "none" /\ Happens("force") /\ UNCHANGED mounts
  /\ Goto(j, "retract")
  /\ UNCHANGED <<plugged, alias, inner, library>>

Without(id) == {c \in cards : c.id # id}

\* library.remove_source: drops the card, or fails and is only logged.
DropCard(id) ==
  \/ cards' = Without(id) /\ Fine
  \/ cards # Without(id) /\ Happens("carddrop") /\ UNCHANGED cards

Retract(j) ==
  /\ job[j].pc = "retract"
  /\ DropCard(job[j].lib)
  /\ job' = [job EXCEPT ![j].pc = AfterRefresh(j), ![j].point = None, ![j].lib = 0]
  /\ UNCHANGED <<plugged, alias, mounts, inner, retracts, queue>>

------------------------------------------------------------------------------
(* Mounting.                                                               *)

\* Removable rows the operator has not removed.
Candidates ==
  {n \in Names \ held : drives[n] # None
                        /\ drives[n].class \in {"unmounted", "failed_other"}}

\* auto_mount_unmounted_removable
AutoMount(j) ==
  /\ job[j].pc = "auto"
  /\ IF Candidates = {} THEN Goto(j, "adopt")
     ELSE \E n \in Candidates :
            job' = [job EXCEPT ![j].pc = "mount", ![j].at = n, ![j].auto = TRUE]
  /\ UNCHANGED <<plugged, alias, mounts, inner, library, boundVars>>

\* The row a job mounts: a reconcile's candidate, or the verb's own.
Target(j) == IF job[j].auto THEN job[j].at ELSE job[j].id

\* What follows a mount attempt.
Mounted(j) ==
  IF job[j].auto THEN [job[j] EXCEPT !.pc = "adopt", !.auto = FALSE, !.at = None,
                                     !.lib = 0]
  ELSE IdleJob

\* mark_drive_class
Mark(n, class) ==
  drives' = IF drives[n] = None THEN drives ELSE [drives EXCEPT ![n].class = class]

\* The wrapper: an own mount is fine, another one in its place is not.
Mount(j) ==
  LET n == Target(j)
  IN  /\ job[j].pc = "mount"
      /\ \/ /\ plugged /\ mounts[n] # "dead"
            /\ mounts' = [mounts EXCEPT ![n] = "live"]
            /\ Goto(j, "card") /\ UNCHANGED drives /\ Fine
         \/ /\ ~plugged \/ mounts[n] = "dead"
            /\ Mark(n, "failed_other") /\ job' = [job EXCEPT ![j] = Mounted(j)]
            /\ UNCHANGED mounts /\ Fine
         \/ /\ \/ Happens("mount") /\ Mark(n, "failed_other")
               \/ Happens("wrapper") /\ UNCHANGED drives
            /\ job' = [job EXCEPT ![j] = Mounted(j)] /\ UNCHANGED mounts
      /\ UNCHANGED <<plugged, alias, held, removal, library>>

\* Ids that nothing refers to stand for the fresh ids the library gives out.
Referred ==
  {c.id : c \in cards} \cup retracts \cup {job[k].lib : k \in Jobs}
    \cup {drives[n].lib : n \in {m \in Names : drives[m] # None}}
FreshCard == CHOOSE i \in CardIds \ Referred : \A k \in CardIds \ Referred : i <= k

\* library.add_source registers a card whatever cards there are.
AddCard(j, n, p) ==
  \/ /\ CardIds \ Referred # {}
     /\ cards' = cards \cup {[id |-> FreshCard, at |-> n]}
     /\ job' = [job EXCEPT ![j].pc = p, ![j].lib = FreshCard] /\ Fine
  \/ /\ Happens("cardadd")
     /\ job' = [job EXCEPT ![j].pc = p, ![j].lib = 0] /\ UNCHANGED cards

Card(j) ==
  /\ job[j].pc = "card"
  /\ AddCard(j, Target(j), "set")
  /\ UNCHANGED <<plugged, alias, mounts, inner, retracts, queue>>

SetMounted(j) ==
  LET n == Target(j)
  IN  /\ job[j].pc = "set"
      /\ drives' = IF drives[n] = None THEN drives
                   ELSE [drives EXCEPT ![n] = [class |-> "clean", root |-> n,
                                               lib |-> job[j].lib]]
      /\ job' = [job EXCEPT ![j] = Mounted(j)]
      /\ UNCHANGED <<plugged, alias, mounts, held, removal, library, boundVars>>

\* Where a job goes after its reconcile.
AfterReconcile(j) ==
  CASE job[j].verb = "mount" -> [job[j] EXCEPT !.pc = "mlookup", !.at = None]
    [] job[j].verb = "repair" -> [job[j] EXCEPT !.pc = "flookup", !.at = None]
    [] job[j].verb = "rename" -> [job[j] EXCEPT !.pc = "nlookup", !.at = None]
    [] job[j].verb = "renamed" -> [job[j] EXCEPT !.pc = "restore", !.at = None]
    [] OTHER -> IdleJob

\* Mutant: a catalogue that does not answer is taken for an empty one.
AdoptBlindly(j) ==
  LET need == {n \in Names : drives[n] # None /\ drives[n].class = "clean"
                             /\ drives[n].lib = 0}
  IN  /\ job[j].pc = "adopt"
      /\ IF need = {} THEN job' = [job EXCEPT ![j] = AfterReconcile(j)] /\ Fine
         ELSE \E n \in need :
                LET own == {c \in cards : c.at = drives[n].root}
                IN  \/ /\ own = {} /\ Fine
                       /\ job' = [job EXCEPT ![j].pc = "acard", ![j].at = n,
                                             ![j].point = drives[n].root]
                    \/ \E c \in own :
                         /\ Fine
                         /\ job' = [job EXCEPT ![j].pc = "aset", ![j].at = n,
                                               ![j].lib = c.id]
                    \/ /\ Happens("cardlist")
                       /\ job' = [job EXCEPT ![j].pc = "acard", ![j].at = n,
                                             ![j].point = drives[n].root]
      /\ UNCHANGED <<plugged, alias, mounts, inner, library>>

\* adopt_library_ids_for_inherited_mounts: a mounted row without a card takes
\* the one of its path, or a new one; an unreadable catalogue ends the pass.
Adopt(j) ==
  LET need == {n \in Names : drives[n] # None /\ drives[n].class = "clean"
                             /\ drives[n].lib = 0}
  IN  /\ job[j].pc = "adopt"
      /\ IF need = {} THEN job' = [job EXCEPT ![j] = AfterReconcile(j)] /\ Fine
         ELSE \E n \in need :
                LET own == {c \in cards : c.at = drives[n].root}
                IN  \/ /\ own = {} /\ Fine
                       /\ job' = [job EXCEPT ![j].pc = "acard", ![j].at = n,
                                             ![j].point = drives[n].root]
                    \/ \E c \in own :
                         /\ Fine
                         /\ job' = [job EXCEPT ![j].pc = "aset", ![j].at = n,
                                               ![j].lib = c.id]
                    \/ /\ Happens("cardlist")
                       /\ job' = [job EXCEPT ![j] = AfterReconcile(j)]
      /\ UNCHANGED <<plugged, alias, mounts, inner, library>>

AdoptCard(j) ==
  /\ job[j].pc = "acard"
  /\ AddCard(j, job[j].point, "aset")
  /\ UNCHANGED <<plugged, alias, mounts, inner, retracts, queue>>

AdoptSet(j) ==
  LET n == job[j].at
  IN  /\ job[j].pc = "aset"
      /\ drives' = IF job[j].lib = 0 \/ drives[n] = None THEN drives
                   ELSE [drives EXCEPT ![n].lib = job[j].lib]
      /\ job' = [job EXCEPT ![j] = [AfterReconcile(j) EXCEPT !.lib = 0, !.point = None]]
      /\ UNCHANGED <<plugged, alias, mounts, held, removal, library, boundVars>>

\* handle_mount after its reconcile: a mounted row is an answer.
MountLookup(j) ==
  LET r == drives[job[j].id]
  IN  /\ job[j].pc = "mlookup"
      /\ IF r = None \/ r.class = "clean" THEN Done(j) ELSE Goto(j, "mount")
      /\ UNCHANGED <<plugged, alias, mounts, inner, library, boundVars>>

------------------------------------------------------------------------------
(* safe_remove.                                                            *)

Banner(j, stage) == removal' = [id |-> job[j].id, stage |-> stage]

\* An unknown volume is detached by force, an unmounted one only dropped.
RemoveLookup(j) ==
  LET r == drives[job[j].id]
      on == r # None /\ r.class \in {"clean", "hiberfile"}
  IN  /\ job[j].pc = "rlookup"
      /\ IF r = None THEN Goto(j, "rforce") /\ UNCHANGED removal
         ELSE /\ job' = [job EXCEPT ![j].pc = IF on THEN "rumount" ELSE "rretract",
                                    ![j].lib = r.lib, ![j].known = TRUE,
                                    ![j].clean = on]
              /\ Banner(j, IF on THEN "detach" ELSE "queue")
      /\ UNCHANGED <<plugged, alias, mounts, drives, held, library, boundVars>>

\* A clean umount; every failure of the wrapper escalates.
RemoveUmount(j) ==
  LET n == job[j].id
  IN  /\ job[j].pc = "rumount"
      /\ \/ mounts' = [mounts EXCEPT ![n] = "none"] /\ Goto(j, "rretract") /\ Fine
         \/ mounts[n] # "none" /\ Happens("busy") /\ Goto(j, "rforce")
            /\ UNCHANGED mounts
         \/ Happens("wrapper") /\ Done(j) /\ UNCHANGED mounts
      /\ UNCHANGED <<plugged, alias, inner, library>>

\* umount-force; its failure refuses the removal of a volume that is known.
RemoveForce(j) ==
  LET n == job[j].id
      known == job[j].known
  IN  /\ job[j].pc = "rforce"
      /\ \/ /\ mounts' = [mounts EXCEPT ![n] = "none"] /\ Fine
            /\ Goto(j, IF known THEN "rretract" ELSE "rdrop")
         \/ /\ mounts[n] # "none" /\ Happens("force") /\ UNCHANGED mounts
            /\ IF known THEN Done(j) ELSE Goto(j, "rdrop")
      /\ UNCHANGED <<plugged, alias, inner, library>>

\* finish_catalogue_stage: the card is dropped by a task of its own, unless
\* the caller does it.
RemoveRetract(j) ==
  /\ job[j].pc = "rretract"
  /\ Banner(j, "retract")
  /\ retracts' = retracts \cup ({job[j].lib} \ {0})
  /\ Goto(j, "rdrop")
  /\ UNCHANGED <<plugged, alias, mounts, drives, held, cards, queue, boundVars>>

\* Mutant: the hold is forgotten.
RemoveDropOnly(j) ==
  /\ job[j].pc = "rdrop"
  /\ drives' = [drives EXCEPT ![job[j].id] = None]
  /\ Goto(j, "rsafe")
  /\ UNCHANGED <<plugged, alias, mounts, held, removal, library, boundVars>>

\* Hold and row in one critical section.
RemoveDrop(j) ==
  /\ job[j].pc = "rdrop"
  /\ held' = held \cup {job[j].id}
  /\ drives' = IF job[j].known THEN [drives EXCEPT ![job[j].id] = None] ELSE drives
  /\ Goto(j, "rsafe")
  /\ UNCHANGED <<plugged, alias, mounts, removal, library, boundVars>>

RemoveSafe(j) ==
  /\ job[j].pc = "rsafe"
  /\ Banner(j, "safe")
  /\ Done(j)
  /\ UNCHANGED <<plugged, alias, mounts, drives, held, library, boundVars>>

SpawnedRetract(id) ==
  /\ id \in retracts /\ retracts' = retracts \ {id}
  /\ DropCard(id)
  /\ UNCHANGED <<plugged, alias, mounts, inner, queue, job>>

------------------------------------------------------------------------------
(* repair_filesystem.                                                      *)

\* The row is cloned and library.remove_source called for its card.
RepairLookup(j) ==
  LET r == drives[job[j].id]
  IN  /\ job[j].pc = "flookup"
      /\ IF r = None \/ r.class = "hiberfile" THEN Done(j) /\ UNCHANGED cards /\ Fine
         ELSE /\ job' = [job EXCEPT ![j].pc = IF r.class = "clean" THEN "fumount"
                                              ELSE "fbegin",
                                    ![j].clean = (r.class = "clean")]
              /\ DropCard(r.lib)
      /\ UNCHANGED <<plugged, alias, mounts, inner, retracts, queue>>

RepairUmount(j) ==
  LET n == job[j].id
  IN  /\ job[j].pc = "fumount"
      /\ \/ mounts' = [mounts EXCEPT ![n] = "none"] /\ Goto(j, "fbegin") /\ Fine
         \/ mounts[n] # "none" /\ Happens("busy") /\ Done(j) /\ UNCHANGED mounts
      /\ UNCHANGED <<plugged, alias, inner, library>>

\* The wrapper refuses a volume that is mounted, or gone.
FsckBegins(j) ==
  /\ job[j].pc = "fbegin"
  /\ \/ /\ Fine
        /\ IF plugged /\ Live = {} THEN Goto(j, "fsck") /\ UNCHANGED drives
           ELSE Mark(job[j].id, "failed_dirty") /\ Done(j)
     \/ Happens("wrapper") /\ Done(j) /\ UNCHANGED drives
  /\ UNCHANGED <<plugged, alias, mounts, held, removal, library>>

FsckEnds(j) ==
  /\ job[j].pc = "fsck"
  /\ \/ /\ plugged /\ job' = [job EXCEPT ![j].pc = "mount", ![j].clean = FALSE]
        /\ UNCHANGED drives /\ Fine
     \/ ((~plugged /\ Fine) \/ Happens("dirty")) /\ Mark(job[j].id, "failed_dirty") /\ Done(j)
     \/ Happens("hiberfile") /\ Mark(job[j].id, "hiberfile") /\ Done(j)
  /\ UNCHANGED <<plugged, alias, mounts, held, removal, library>>

------------------------------------------------------------------------------
(* rename.                                                                 *)

\* The row is cloned; queued tracks of a mounted volume are parked.  A park that
\* is not answered may have been carried out, but the rename knows no rows.
RenameLookup(j) ==
  LET r == drives[job[j].id]
      rows == r # None /\ r.class = "clean" /\ queue = job[j].id
      after(parked) ==
        [job EXCEPT ![j].pc = IF r.class = "clean" THEN "numount" ELSE "nstop",
                    ![j].lib = r.lib, ![j].parked = parked]
  IN  /\ job[j].pc = "nlookup"
      /\ \/ r = None /\ Done(j) /\ UNCHANGED queue /\ Fine
         \/ r # None /\ job' = after(rows) /\ Fine
            /\ queue' = IF rows THEN "parked" ELSE queue
         \/ rows /\ Happens("park") /\ job' = after(FALSE)
            /\ queue' \in {queue, "parked"}
      /\ UNCHANGED <<plugged, alias, mounts, inner, cards, retracts>>

\* Mutant: a refused umount just refuses.
RenameUmountBare(j) ==
  LET n == job[j].id
  IN  /\ job[j].pc = "numount"
      /\ \/ mounts' = [mounts EXCEPT ![n] = "none"] /\ Goto(j, "nstop") /\ Fine
         \/ mounts[n] # "none" /\ Happens("busy") /\ Done(j) /\ UNCHANGED mounts
      /\ UNCHANGED <<plugged, alias, inner, library>>

\* Busy after the retry: the parked rows are put back, unless the library does
\* not answer.  A wrapper that cannot be run ends the rename with the rows parked.
RenameUmount(j) ==
  LET n == job[j].id
  IN  /\ job[j].pc = "numount"
      /\ \/ /\ mounts' = [mounts EXCEPT ![n] = "none"] /\ Goto(j, "nstop")
            /\ UNCHANGED queue /\ Fine
         \/ /\ mounts[n] # "none" /\ Done(j) /\ UNCHANGED mounts
            /\ \/ Happens("busy") /\ queue' = IF job[j].parked THEN n ELSE queue
               \/ Happens("restore") /\ UNCHANGED queue
         \/ Happens("wrapper") /\ Done(j) /\ UNCHANGED <<mounts, queue>>
      /\ UNCHANGED <<plugged, alias, inner, cards, retracts>>

RenameStop(j) ==
  /\ job[j].pc = "nstop"
  /\ DropCard(job[j].lib)
  /\ job' = [job EXCEPT ![j].pc = "nsave", ![j].lib = 0]
  /\ UNCHANGED <<plugged, alias, mounts, inner, retracts, queue>>

\* Mutant: clearing the alias stores an empty one.
RenameSaveEmpty(j) ==
  /\ job[j].pc = "nsave"
  /\ \/ /\ alias' = (IF job[j].to = None THEN "" ELSE job[j].to) /\ Fine
        /\ job' = [job EXCEPT ![j].pc = "read", ![j].verb = "renamed"]
     \/ Happens("save") /\ Done(j) /\ UNCHANGED alias
  /\ UNCHANGED <<plugged, mounts, inner, library>>

\* The alias is saved, then used; a second reconcile follows.
RenameSave(j) ==
  /\ job[j].pc = "nsave"
  /\ \/ /\ alias' = job[j].to /\ Fine
        /\ job' = [job EXCEPT ![j].pc = "read", ![j].verb = "renamed"]
     \/ Happens("save") /\ Done(j) /\ UNCHANGED alias
  /\ UNCHANGED <<plugged, mounts, inner, library>>

\* The volume is found by its identity; parked rows go back under its id, and
\* rows that still have the old one are rewritten, if the library answers.
RenameRestore(j) ==
  LET found == {n \in Names : drives[n] # None}
      moved == job[j].parked \/ queue = job[j].id
  IN  /\ job[j].pc = "restore"
      /\ \/ (found = {} \/ ~moved) /\ UNCHANGED queue /\ Fine
         \/ moved /\ Fine /\ \E n \in found : queue' = n
         \/ moved /\ found # {} /\ Happens("restore") /\ UNCHANGED queue
      /\ Done(j)
      /\ UNCHANGED <<plugged, alias, mounts, inner, cards, retracts>>

------------------------------------------------------------------------------
(* The volume and the plugin.                                              *)

Yank ==
  /\ plugged /\ Happens("yank")
  /\ plugged' = FALSE
  /\ mounts' = [n \in Names |-> IF mounts[n] = "live" THEN "dead" ELSE mounts[n]]
  /\ UNCHANGED <<alias, inner, library, job>>

Plug ==
  /\ ~plugged /\ plugged' = TRUE
  /\ UNCHANGED <<alias, mounts, inner, library, job, boundVars>>

\* The steward restarts: mounts, cards and aliases survive.
Restart ==
  /\ Happens("restart")
  /\ drives' = [n \in Names |-> None] /\ held' = {} /\ removal' = None
  /\ retracts' = {}
  /\ job' = [j \in Jobs |-> IdleJob]
  /\ UNCHANGED <<plugged, alias, mounts, cards, queue>>

------------------------------------------------------------------------------
\* The plugin starts with no volume, a fresh one, or one that an earlier run of
\* it mounted and registered.
Init ==
  /\ plugged \in BOOLEAN /\ alias = None
  /\ \/ mounts = [n \in Names |-> "none"] /\ cards = {}
     \/ /\ plugged /\ mounts = [n \in Names |-> IF n = Base THEN "live" ELSE "none"]
        /\ cards = {[id |-> 1, at |-> Base]}
  /\ drives = [n \in Names |-> None] /\ held = {} /\ removal = None
  /\ retracts = {} /\ queue = Base
  /\ job = [j \in Jobs |-> IdleJob]
  /\ crossed = FALSE /\ met = FALSE /\ together = FALSE /\ inplace = FALSE
  /\ asked = 0 /\ happened = {}

Request(h) ==
  \E n \in Names :
    \/ \E v \in Verbs \ {"rename"} : Verb(h, v, n, None)
    \/ \E to \in Aliases : Verb(h, "rename", n, to)

JobStep(j) ==
  \/ Read(j) \/ Swap(j) \/ ForceGone(j) \/ Retract(j)
  \/ AutoMount(j) \/ Mount(j) \/ Card(j) \/ SetMounted(j)
  \/ Adopt(j) \/ AdoptCard(j) \/ AdoptSet(j) \/ MountLookup(j)
  \/ RemoveLookup(j) \/ RemoveUmount(j) \/ RemoveForce(j) \/ RemoveRetract(j)
  \/ RemoveDrop(j) \/ RemoveSafe(j)
  \/ RepairLookup(j) \/ RepairUmount(j) \/ FsckBegins(j) \/ FsckEnds(j)
  \/ RenameLookup(j) \/ RenameUmount(j) \/ RenameStop(j) \/ RenameSave(j)
  \/ RenameRestore(j)

Busy(j) == job[j].pc # "idle"
Mounting == {j \in Jobs : job[j].pc \in {"mount", "card", "set"}}
Reconciling ==
  {j \in Jobs : \/ job[j].verb = "renamed"
               \/ job[j].pc \in {"swap", "force", "retract", "auto", "mount", "card",
                                "set", "adopt", "acard", "aset", "mlookup", "flookup",
                                "fbegin", "fsck", "nlookup", "numount", "nstop", "nsave"}}

\* A removal that has refreshed or a repair is about to look its row up, or a
\* removal that found the row unmounted has not set its hold.
Exposed == {j \in Handlers : \/ job[j].pc \in {"rlookup", "flookup"}
                             \/ job[j].pc \in {"force", "retract"} /\ job[j].verb = "remove"
                             \/ job[j].pc \in {"rforce", "rretract", "rdrop"}
                                /\ ~job[j].clean}

\* The probe saw no volume before it came; or a mount that has gone since, or
\* none before one was made, and changes the registry.
Stale(j) ==
  \/ ~job[j].there /\ plugged
  \/ /\ job[j].there /\ Refreshed(j) # drives
     /\ IF job[j].at = None THEN Live # {} ELSE mounts[job[j].at] # "live"

\* The detach of a volume that the registry does not know has failed.
Missed(h) == /\ job[h].pc = "rforce" /\ ~job[h].known /\ job'[h].pc = "rdrop"
             /\ mounts'[job[h].id] = "live"

\* A verb is about to take off a mounted row whose card it does not know, or
\* one vanished.
Cardless(h) ==
  LET r == drives[job[h].id]
  IN  /\ job[h].pc \in {"rlookup", "flookup", "nlookup"}
      /\ r # None /\ r.class = "clean" /\ r.lib = 0
CardLost(j) == job[j].pc = "force" /\ job[j].lib = 0

History ==
  /\ crossed' = (crossed \/ Cardinality({h \in Handlers : Busy(h)'}) > 1
                 \/ /\ {"yank", "restart"} \cap (happened' \ happened) # {}
                    /\ \/ \E h \in Handlers : Busy(h)
                       \/ Mounting # {} \/ retracts # {}
                       \/ \E n \in Live : drives[n] = None)
  /\ met' = (met \/ (Exposed' # {} /\ Mounting' # {})
             \/ (\E h \in Handlers : job[h].pc = "rsafe" /\ job[h].id \in held \ held')
             \/ (\E j \in Jobs : job[j].pc = "swap" /\ job'[j].pc # "swap" /\ Stale(j))
             \/ \E h \in Handlers : Missed(h))
  /\ together' = (together \/ Cardinality(Reconciling') > 1
                  \/ (\E h \in Handlers : Cardless(h)) \/ \E j \in Jobs : CardLost(j))
  /\ inplace' = (inplace \/ \E h \in Handlers : /\ job[h].pc = "nsave" /\ job'[h].pc = "read"
                                               /\ Id' = job[h].id)

Next ==
  /\ \/ \E h \in Handlers : Request(h)
     \/ \E j \in Jobs : JobStep(j) \/ ReadFails(j)
     \/ \E id \in CardIds : SpawnedRetract(id)
     \/ StartTick \/ Yank \/ Plug \/ Restart
  /\ History

Spec == Init /\ [][Next]_vars

\* The runtime schedules every task and the ticker keeps ticking.
FairSpec ==
  /\ Spec
  /\ \A j \in Jobs : WF_vars(JobStep(j) /\ History)
  /\ WF_vars(StartTick /\ History)
  /\ \A id \in CardIds : WF_vars(SpawnedRetract(id) /\ History)

------------------------------------------------------------------------------
Phases == {"idle", "read", "swap", "force", "retract", "auto", "mount", "card", "set",
           "adopt", "acard", "aset", "mlookup", "rlookup", "rumount", "rforce",
           "rretract", "rdrop", "rsafe", "flookup", "fumount", "fbegin", "fsck",
           "nlookup", "numount", "nstop", "nsave", "restore"}
Job == [pc : Phases, verb : Verbs \cup {"tick", "renamed"}, id : Names \cup {None},
        there : BOOLEAN, at : Names \cup {None}, point : Names \cup {None},
        lib : 0..MaxCards, auto : BOOLEAN, known : BOOLEAN, clean : BOOLEAN,
        to : Names \cup {None}, parked : BOOLEAN]

TypeOK ==
  /\ plugged \in BOOLEAN /\ alias \in Names \cup {None}
  /\ mounts \in [Names -> {"none", "live", "dead"}]
  /\ drives \in [Names -> Row \cup {None}] /\ held \subseteq Names
  /\ removal \in Notice \cup {None}
  /\ cards \subseteq [id : CardIds, at : Names] /\ retracts \subseteq CardIds
  /\ queue \in Names \cup {"parked"}
  /\ job \in [Jobs -> Job]
  /\ crossed \in BOOLEAN /\ met \in BOOLEAN /\ together \in BOOLEAN
  /\ inplace \in BOOLEAN
  /\ asked \in 0..MaxRequests /\ happened \subseteq Troubles

\* "The volume is off the host and safe to unplug" stays true while the banner
\* says so and the volume is plugged in, whatever ticks run, unless a mount was
\* already under way during the removal, two verbs overlapped, a probe that
\* saw no volume took the hold away before the banner went up or was stale, or
\* the volume was unknown and its detach failed.
SafeMeansOff ==
  removal # None /\ removal.stage = "safe" /\ ~met /\ ~crossed
    => mounts[removal.id] # "live"

\* "Repair requires unmounted": a volume that repair found mounted and took off
\* the host is not mounted again by any tick while fsck runs, unless its mount
\* was under way before or a stale probe dropped the row.  Nothing guards it but
\* the row that still says mounted; a volume that was not mounted has no such
\* row, and a tick may mount it under fsck.
FsckAlone ==
  \A h \in Handlers :
    job[h].pc = "fsck" /\ job[h].clean /\ ~met /\ ~crossed => Live = {}

\* "Adding a row then would stack a second card": reconciles and verbs that do
\* not overlap give a mount point one card, after a restart and when the
\* library cannot be read too (unless a verb then takes off a volume whose
\* card the plugin has not learnt); a card whose removal is under way does not
\* count.
OneCard ==
  ~together /\ ~met /\ ~crossed /\ happened \cap {"yank", "carddrop"} = {}
    => \A c, d \in {x \in cards : x.id \notin retracts} : c.at = d.at => c = d

\* "put the rows back so the operator's queue is not a Remove": tracks are parked
\* only while a rename runs.  The exits of a rename that do leave them parked are
\* excepted by name: the park or the restore is not answered, the wrapper cannot
\* be run, the alias cannot be saved, the second probe fails; and the overlaps of
\* verbs, pulls and restarts with it.
QueueKept ==
  queue = "parked" => \/ \E h \in Handlers : job[h].parked
                      \/ happened \cap {"probe", "save", "wrapper", "park", "restore"} # {}
                      \/ crossed \/ together

\* A volume that is in and wanted gets mounted: no failure of a mount, a
\* repair or a probe is final, because every refresh classifies the row anew.
\* A row that says mounted is believed, so the volume stays down when that is
\* not so: after a rename to the name it has, a save or a wrapper that failed
\* when the volume had been taken off, an overlap; and when its mount point
\* carries the dead mount of a pull that no refresh saw.
Wanted(n) ==
  /\ plugged /\ n \notin held /\ mounts[n] # "dead"
  /\ drives[n] # None
  /\ drives[n].class = "clean" =>
       ~(inplace \/ crossed \/ met \/ together \/ happened \cap {"save", "wrapper"} # {})
VolumesComeUp == \A n \in Names : []<>(~Wanted(n) \/ mounts[n] = "live")

\* "Dropping it silently left the host carrying the mount point": after the
\* volume is pulled for good its mount point is detached and its card is gone.
\* Nothing retries either, so excepted are a detach or a drop that failed, a card
\* the plugin had not learnt, a restart, a pull in the middle of something, and
\* verbs and ticks that had overlapped before.
YankCleansUp ==
  <>[]~plugged => \/ <>[](cards = {} /\ \A n \in Names : mounts[n] = "none")
                  \/ <>(crossed \/ met \/ together
                        \/ happened \cap {"force", "carddrop", "restart"} # {})

\* The registry of storage.usb/runtime.rs never endangers the volume: "safe
\* to remove" means off the host, fsck of a volume that was mounted has it to
\* itself, the library has one card for the volume and a rename keeps the queued
\* tracks, each but for what the parts except.
VolumeInv ==
  /\ TypeOK
  /\ SafeMeansOff
  /\ FsckAlone
  /\ OneCard
  /\ QueueKept

\* The registry follows the hardware: a volume that stays plugged in comes
\* up, and the mount and the card of one that was pulled are cleaned up, but
\* for what VolumesComeUp and YankCleansUp except.
HostFollows ==
  /\ VolumesComeUp
  /\ YankCleansUp
==============================================================================
