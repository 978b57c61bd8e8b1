------------------------- MODULE NetworkSharesProofs -------------------------
(***************************************************************************)
(* Proofs about NetworkShares for any shares, targets and dialects, any    *)
(* number of verbs and troubles and any crew of passes: the answers the    *)
(* verbs gave are kept (PromisesAreKept), the file implements ShareLedger  *)
(* (OnlyAsRequested), and a refused password is not offered again          *)
(* (NoStorm).                                                              *)
(*                                                                         *)
(* A job works for several steps on a clone of its row while others change *)
(* rows and mounts.  The induction therefore says, of every job that is on *)
(* its way to a mount and of every helper still running, what its clone    *)
(* may differ in from what the operator was promised.                      *)
(***************************************************************************)
EXTENDS NetworkShares, SequenceTheorems, TLAPS

\* Where a job may be, by what follows the mount or unmount in progress.
ClonePhases == MountPhases \cup {"final", "adopt", "forget"}
PhasesOf(a) ==
  CASE a = "recon" -> {"recon", "adopt", "record"}
    [] a = "pass" -> {"next", "record"} \cup ClonePhases
    [] a = "edit" -> {"umount", "record"}
    [] a = "detach" -> {"umount", "record", "stamp"}
    [] a = "remove" -> {"umount", "record", "check", "drop", "entry"}
    [] OTHER -> {"idle", "l3", "seed", "stock", "begin", "record"} \cup ClonePhases

\* A job has a share and the clone it works on, knows the dialects to try, and
\* only verbs edit, detach and remove; a task outside the crew does not run,
\* and neither does a verb that was not sent.
JobAt(j) ==
  /\ job[j].pc \in PhasesOf(job[j].after)
  /\ job[j].pc \notin {"idle", "l3", "recon", "next"} => job[j].id \in Shares
  /\ job[j].pc \in ClonePhases => job[j].snap[job[j].id] # None
  /\ job[j].after = "recon" => \A s \in job[j].todo : job[j].snap[s] # None
  /\ job[j].pc \in {"try", "final"} => job[j].rungs # <<>>
  /\ job[j].pc = "clear" => job[j].snap[job[j].id].vers # "none"
  /\ job[j].after \in {"edit", "detach", "remove"} \/ job[j].pc \in {"seed", "stock"}
       => j \in Handlers
  /\ job[j].after \in {"recon", "pass"} \/ job[j].pc = "l3" => j \in Tasks
  /\ j \in Tasks \ crew => job[j].pc = "idle"
JobInv ==
  /\ \A j \in Actors : JobAt(j)
  /\ \A i \in 1..MaxRequests : i > asked => job[HandlerNames[i]].pc = "idle"

\* The job works on s or will come to it.
Engaged(j, s) == job[j].pc # "idle" /\ (job[j].id = s \/ s \in job[j].todo)

\* A share never configured has no row, no promise, no password and no job.
Untouched(s) ==
  /\ rows[s] = None /\ disk[s] = None /\ promised[s] = None
  /\ <<"remove", s>> \notin excused /\ s \notin off
  /\ vault[s] = "none" /\ staged[s] = "none" /\ ~refused[s].hit
UsedInv ==
  /\ \A s \in Shares \ used : Untouched(s)
  /\ \A h \in Handlers : job[h].pc # "idle" => job[h].id \in used

\* Nobody else works on the share of an undisturbed verb.
Undisturbed ==
  \A h \in Handlers \ disturbed :
    job[h].pc # "idle" =>
      /\ late[job[h].id] = None
      /\ \A k \in Actors \ {h} : ~WorksOn(k, job[h].id)

\* The mount an undisturbed verb took down stays down until its verb is over.
VerbInv ==
  \A h \in Handlers \ disturbed :
    /\ job[h].pc = "drop" => os[job[h].id] = None
    /\ job[h].after = "detach" /\ job[h].pc = "record" /\ job[h].state = "unmounted"
         => job[h].class = "none" /\ os[job[h].id] = None
    /\ job[h].pc = "stamp" =>
         /\ os[job[h].id] = None /\ entry[job[h].id] # None
         /\ entry[job[h].id].state = "unmounted" /\ entry[job[h].id].class = "none"

\* A share that was removed undisturbed has no mount and nobody who makes one.
RemovedInv ==
  \A s \in Shares :
    promised[s] = None /\ <<"remove", s>> \notin excused =>
      /\ os[s] = None /\ late[s] = None
      /\ \A k \in Actors : ~Mounting(k, s)

\* Unless an edit was disturbed, what is mounted, and what a job or a late
\* helper will mount, is what the operator was promised, or is about to be
\* taken down.
Cycling(s) == \E h \in Handlers : job[h].id = s /\ job[h].pc = "umount"
                                  /\ job[h].after = "edit"
EditedInv ==
  \A s \in Shares :
    promised[s] \in Targets /\ <<"edit", s>> \notin excused =>
      /\ os[s] # None => os[s].target = promised[s] \/ Cycling(s)
      /\ late[s] # None => late[s].target = promised[s]
      /\ \A k \in Actors : Mounting(k, s) => job[k].snap[s].target = promised[s]

\* A detached share has no mount, no helper, no entry that a pass would select,
\* and no job but a reconciliation that will find nothing to do.
DetachedAt(s) ==
  /\ os[s] = None /\ late[s] = None
  /\ entry[s] # None =>
       entry[s].state = "unmounted" /\ entry[s].class = "none" /\ entry[s].detached
  /\ \A k \in Actors :
       /\ Engaged(k, s) => job[k].after = "recon" /\ job[k].id # s
       /\ k = "boot" => job[k].pc = "idle"
DetachedInv == \A s \in off : DetachedAt(s)

\* Before the password of an added share is stored nobody was refused with it;
\* once one was refused, it is deleted or about to be, and every job that still
\* has it in hand is known.
StormInv ==
  /\ \A h \in Handlers : job[h].pc \in {"seed", "stock"} =>
       /\ vault[job[h].id] = "none" /\ staged[job[h].id] = "none"
       /\ ~refused[job[h].id].hit
       /\ \A k \in Handlers \ {h} :
            job[k].pc \in {"seed", "stock"} => job[k].id # job[h].id
  /\ \A s \in Shares : refused[s].hit /\ "vault" \notin happened =>
       /\ vault[s] = "none" \/ Pending(s)
       /\ \A k \in Actors : job[k].id = s /\ job[k].pc \in {"try", "clear"}
                            /\ Cifs(k) /\ Secret(k) => k \in refused[s].may

IInv ==
  /\ TypeOK /\ JobInv /\ UsedInv /\ Undisturbed
  /\ AnswersAreKept /\ VerbInv /\ RemovedInv /\ EditedInv /\ DetachedInv
  /\ StormInv

-------------------------------------------------------------------------------
(* Jobs.                                                                   *)

LEMMA NoneFacts ==
  /\ None \notin Row /\ None \notin Entry /\ None \notin Shares
  /\ None \notin Targets /\ Open \notin Targets /\ Open # None
BY NoneAssumption

LEMMA ActorFacts ==
  /\ Handlers \subseteq Actors /\ Handlers \cap Tasks = {}
  /\ \A j \in Actors : j \in Handlers \/ j \in Tasks
BY BoundsAssumption, CrewsAssumption DEF Actors

LEMMA NothingType == Nothing \in [Shares -> Row \cup {None}]
BY DEF Nothing

LEMMA IdleJobFacts ==
  /\ IdleJob \in Job
  /\ IdleJob.pc = "idle" /\ IdleJob.id = None /\ IdleJob.todo = {}
  /\ IdleJob.snap = Nothing /\ IdleJob.rungs = <<>> /\ IdleJob.cleared = FALSE
  /\ IdleJob.state = "unmounted" /\ IdleJob.class = "none" /\ IdleJob.pw = "none"
  /\ IdleJob.after = "done"
BY NothingType DEF IdleJob, Job, Phases, States, Classes, Passwords, Continuations

\* The step leaves the other jobs alone.
Alone(j) == \A k \in Actors \ {j} : job'[k] = job[k]

LEMMA PutFacts ==
  ASSUME TypeOK, NEW j \in Actors, NEW b \in Job, job' = [job EXCEPT ![j] = b]
  PROVE  job' \in [Actors -> Job] /\ Alone(j) /\ job'[j] = b
BY DEF TypeOK, Alone

LEMMA GotoFacts ==
  ASSUME TypeOK, NEW j \in Actors, NEW p \in Phases, Goto(j, p)
  PROVE  /\ job' \in [Actors -> Job] /\ Alone(j)
         /\ job'[j].pc = p /\ job'[j].id = job[j].id /\ job'[j].todo = job[j].todo
         /\ job'[j].snap = job[j].snap /\ job'[j].rungs = job[j].rungs
         /\ job'[j].after = job[j].after
<1> DEFINE b == [job[j] EXCEPT !.pc = p]
<1>1. job[j] \in Job
  BY DEF TypeOK
<1>2. /\ b \in Job /\ b.pc = p /\ b.id = job[j].id /\ b.todo = job[j].todo
      /\ b.snap = job[j].snap /\ b.rungs = job[j].rungs /\ b.after = job[j].after
  BY <1>1 DEF Job
<1>3. job' = [job EXCEPT ![j] = b]
  BY DEF Goto
<1> HIDE DEF b
<1> QED
  BY <1>2, <1>3, PutFacts

LEMMA OutcomeFacts ==
  ASSUME TypeOK, NEW j \in Actors, NEW st \in States, NEW cl \in Classes,
         Outcome(j, st, cl)
  PROVE  /\ job' \in [Actors -> Job] /\ Alone(j)
         /\ job'[j].pc = "record" /\ job'[j].id = job[j].id
         /\ job'[j].todo = job[j].todo /\ job'[j].after = job[j].after
         /\ job'[j].state = st /\ job'[j].class = cl
         /\ job[j].after = "recon" => job'[j].snap = job[j].snap
<1> DEFINE sn == IF job[j].after = "recon" THEN job[j].snap ELSE Nothing
           b == [job[j] EXCEPT !.pc = "record", !.state = st, !.class = cl,
                               !.rungs = <<>>, !.cleared = FALSE, !.snap = sn]
<1>1. job[j] \in Job
  BY DEF TypeOK
<1>a. sn \in [Shares -> Row \cup {None}] /\ (job[j].after = "recon" => sn = job[j].snap)
  BY <1>1, NothingType DEF Job
<1>b. <<>> \in Seq(Dialects \cup {"none"})
  OBVIOUS
<1>2. /\ b \in Job /\ b.pc = "record" /\ b.id = job[j].id /\ b.todo = job[j].todo
      /\ b.after = job[j].after /\ b.state = st /\ b.class = cl
      /\ job[j].after = "recon" => b.snap = job[j].snap
  <2> HIDE DEF sn
  <2> QED
    BY <1>1, <1>a, <1>b DEF Job, Phases
<1>3. job' = [job EXCEPT ![j] = b]
  BY DEF Outcome
<1> HIDE DEF b
<1> QED
  BY <1>2, <1>3, PutFacts

LEMMA IdleFacts ==
  ASSUME TypeOK, NEW j \in Actors, job' = [job EXCEPT ![j] = IdleJob]
  PROVE  /\ job' \in [Actors -> Job] /\ Alone(j) /\ job'[j].pc = "idle"
         /\ job'[j].after = "done"
BY PutFacts, IdleJobFacts

\* What a mount does with the clone of a row that is there.
LEMMA BegunFacts ==
  ASSUME TypeOK, NEW b \in Job, NEW s \in Shares, rows[s] # None
  PROVE  /\ Begun(b, s) \in Job
         /\ Begun(b, s).pc \in {"adopt", "cred", "record"}
         /\ Begun(b, s).id = s /\ Begun(b, s).todo = b.todo
         /\ Begun(b, s).after = b.after
         /\ Begun(b, s).pc # "record" => Begun(b, s).snap[s] = rows[s]
<1> DEFINE sn == [Nothing EXCEPT ![s] = rows[s]]
           c == [b EXCEPT !.id = s, !.snap = sn]
<1>1. sn \in [Shares -> Row \cup {None}] /\ sn[s] = rows[s]
  BY NothingType DEF TypeOK
<1>2. c \in Job /\ c.id = s /\ c.todo = b.todo /\ c.after = b.after /\ c.snap = sn
  <2> HIDE DEF sn
  <2> QED
    BY <1>1 DEF Job
<1>3. CASE os[s] # None
  <2>1. Begun(b, s) = [c EXCEPT !.pc = "adopt"]
    BY <1>3 DEF Begun
  <2> HIDE DEF c, sn
  <2> QED
    BY <1>1, <1>2, <2>1 DEF Job, Phases
<1>4. CASE os[s] = None /\ up
  <2>1. Begun(b, s) = [c EXCEPT !.pc = "cred"]
    BY <1>4 DEF Begun
  <2> HIDE DEF c, sn
  <2> QED
    BY <1>1, <1>2, <2>1 DEF Job, Phases
<1>5. CASE os[s] = None /\ ~up
  <2>1. Begun(b, s) = [b EXCEPT !.id = s, !.pc = "record", !.state = "failed",
                                !.class = "unreachable"]
    BY <1>5 DEF Begun
  <2> DEFINE n == [b EXCEPT !.id = s, !.pc = "record", !.state = "failed",
                            !.class = "unreachable"]
  <2>2. n \in Job
    BY DEF Job, Phases, States, Classes
  <2>3. n.pc = "record" /\ n.id = s /\ n.todo = b.todo /\ n.after = b.after
    BY DEF Job
  <2>4. Begun(b, s) = n
    BY <2>1
  <2> HIDE DEF c, sn, n
  <2> QED
    BY <2>2, <2>3, <2>4
<1> QED
  BY <1>3, <1>4, <1>5

-------------------------------------------------------------------------------
(* What the step of one job may do with that job.                          *)

\* It enters a mount only with a fresh clone, a verb keeps its share, and each
\* place that an invariant speaks of is reached from one place only.
Goes(j) ==
  LET b == job[j]
      c == job'[j]
  IN  /\ c.pc \in MountPhases =>
           \/ c.pc = "cred" /\ rows[c.id] # None /\ c.snap[c.id] = rows[c.id]
           \/ b.pc \in MountPhases /\ c.id = b.id /\ c.snap = b.snap
      /\ c.pc \in {"try", "clear"} => b.pc \in {"stage", "try", "clear"}
      /\ j \in Handlers /\ c.pc # "idle" => b.pc # "idle" /\ c.id = b.id
      /\ c.after = "remove" => b.after = "remove" /\ b.pc # "entry"
      /\ c.pc = "drop" => b.pc = "check" /\ os[c.id] = None
      /\ c.pc = "record" /\ c.after = "detach" /\ c.state = "unmounted"
           => c.class = "none" /\ os'[c.id] = None
      /\ c.pc = "stamp" => b.pc = "record" /\ b.after = "detach"
                           /\ b.state = "unmounted"
      /\ c.pc \in {"seed", "stock"} => b.pc = "seed"
      /\ b.pc = "umount" /\ b.after = "edit" =>
           rows[b.id] = None \/ os'[b.id] = None \/ <<"edit", b.id>> \in excused'
      /\ b.pc = "forget" => vault'[b.id] = "none" \/ "vault" \in happened'
      /\ j = "boot" => b.pc # "idle"

\* Which shares the job has in hand afterwards.
Takes(j) ==
  \A s \in Shares :
    Engaged(j, s)' =>
      \/ Engaged(j, s) /\ job[j].after # "recon"
      \/ job'[j].after = "recon" /\ job'[j].id # s
      \/ job[j].after = "recon" /\ job[j].id = s
      \/ job[j].pc = "recon" /\ s \in Candidates(j)
      \/ /\ job[j].pc = "recon"
         /\ os[s] # None \/ (entry[s] # None /\ entry[s].state = "mounted")

Steps(j) == job' \in [Actors -> Job] /\ Alone(j) /\ JobAt(j)' /\ Goes(j) /\ Takes(j)

USE DEF MountPhases, ClonePhases

LEMMA GoesIdle ==
  ASSUME TypeOK, NEW j \in Actors, JobAt(j), crew' = crew, job[j].pc # "idle",
         job[j].pc = "umount" /\ job[j].after = "edit" =>
           rows[job[j].id] = None \/ <<"edit", job[j].id>> \in excused',
         job[j].pc # "forget",
         job' = [job EXCEPT ![j] = IdleJob]
  PROVE  Steps(j)
<1>1. job' \in [Actors -> Job] /\ Alone(j) /\ job'[j].pc = "idle" /\ job'[j].after = "done"
  BY IdleFacts
<1>2. JobAt(j)'
  BY <1>1 DEF JobAt, PhasesOf
<1>3. Goes(j)
  BY <1>1 DEF Goes
<1>4. Takes(j)
  BY <1>1 DEF Takes, Engaged
<1> QED
  BY <1>1, <1>2, <1>3, <1>4 DEF Steps

LEMMA GoesOn ==
  ASSUME TypeOK, NEW j \in Actors, JobAt(j), crew' = crew, NEW p \in Phases, Goto(j, p),
         p # "idle",
         \/ job[j].pc = "seed" /\ p = "stock"
         \/ job[j].pc = "cred" /\ p = "mounting"
         \/ job[j].pc = "mounting" /\ p = "stage"
         \/ job[j].pc = "try" /\ p \in {"final", "forget", "adopt"}
         \/ job[j].pc = "try" /\ p = "clear" /\ job[j].snap[job[j].id].vers # "none"
         \/ job[j].pc = "umount" /\ job[j].after = "remove" /\ p = "check"
         \/ job[j].pc = "check" /\ p = "drop" /\ os[job[j].id] = None
         \/ job[j].pc = "drop" /\ p = "entry"
  PROVE  Steps(j)
<1>1. /\ job' \in [Actors -> Job] /\ Alone(j)
      /\ job'[j].pc = p /\ job'[j].id = job[j].id /\ job'[j].todo = job[j].todo
      /\ job'[j].snap = job[j].snap /\ job'[j].rungs = job[j].rungs
      /\ job'[j].after = job[j].after
  BY GotoFacts
<1>2. JobAt(j)'
  BY <1>1 DEF JobAt, PhasesOf
<1>3. Goes(j)
  BY <1>1 DEF Goes, JobAt, PhasesOf
<1>4. Takes(j)
  BY <1>1 DEF Takes, Engaged, JobAt, PhasesOf
<1> QED
  BY <1>1, <1>2, <1>3, <1>4 DEF Steps

LEMMA GoesToRecord ==
  ASSUME TypeOK, NEW j \in Actors, JobAt(j), crew' = crew, NEW st \in States, NEW cl \in Classes,
         Outcome(j, st, cl),
         job[j].pc \in ClonePhases \cup {"umount"},
         job[j].pc = "forget" => vault'[job[j].id] = "none" \/ "vault" \in happened',
         job[j].pc = "umount" /\ st = "unmounted" => cl = "none" /\ os'[job[j].id] = None,
         job[j].pc = "umount" /\ job[j].after = "edit" =>
           os'[job[j].id] = None \/ <<"edit", job[j].id>> \in excused'
  PROVE  Steps(j)
<1>1. /\ job' \in [Actors -> Job] /\ Alone(j)
      /\ job'[j].pc = "record" /\ job'[j].id = job[j].id
      /\ job'[j].todo = job[j].todo /\ job'[j].after = job[j].after
      /\ job'[j].state = st /\ job'[j].class = cl
      /\ job[j].after = "recon" => job'[j].snap = job[j].snap
  BY OutcomeFacts
<1>2. JobAt(j)'
  BY <1>1 DEF JobAt, PhasesOf
<1>3. Goes(j)
  BY <1>1 DEF Goes, JobAt, PhasesOf
<1>4. Takes(j)
  BY <1>1 DEF Takes, Engaged, JobAt, PhasesOf
<1> QED
  BY <1>1, <1>2, <1>3, <1>4 DEF Steps

\* The mount of a row that is there, by a verb or for the next of a pass.
LEMMA GoesToMount ==
  ASSUME TypeOK, NEW j \in Actors, JobAt(j), crew' = crew, NEW b \in Job, NEW s \in Shares,
         rows[s] # None, job' = [job EXCEPT ![j] = Begun(b, s)],
         b.after = job[j].after, b.todo \subseteq job[j].todo,
         \/ job[j].pc = "begin" /\ s = job[j].id
         \/ job[j].pc = "next" /\ s \in job[j].todo
  PROVE  Steps(j)
<1>1. /\ Begun(b, s) \in Job
      /\ Begun(b, s).pc \in {"adopt", "cred", "record"}
      /\ Begun(b, s).id = s /\ Begun(b, s).todo = b.todo
      /\ Begun(b, s).after = b.after
      /\ Begun(b, s).pc # "record" => Begun(b, s).snap[s] = rows[s]
  BY BegunFacts
<1>2. job' \in [Actors -> Job] /\ Alone(j) /\ job'[j] = Begun(b, s)
  BY <1>1, PutFacts
<1>3. JobAt(j)'
  BY <1>1, <1>2 DEF JobAt, PhasesOf
<1>4. Goes(j)
  BY <1>1, <1>2, ActorFacts DEF Goes, JobAt, PhasesOf
<1>5. Takes(j)
  BY <1>1, <1>2 DEF Takes, Engaged, JobAt, PhasesOf
<1> QED
  BY <1>2, <1>3, <1>4, <1>5 DEF Steps

\* A step that keeps the clone and sets the dialects to try.
LEMMA GoesToTry ==
  ASSUME TypeOK, NEW j \in Actors, JobAt(j), crew' = crew, NEW b \in Job,
         job' = [job EXCEPT ![j] = b], job[j].pc \in {"stage", "try", "clear"},
         b.pc = "try", b.id = job[j].id, b.todo = job[j].todo, b.snap = job[j].snap,
         b.rungs # <<>>, b.after = job[j].after
  PROVE  Steps(j)
<1>1. job' \in [Actors -> Job] /\ Alone(j) /\ job'[j] = b
  BY PutFacts
<1>2. JobAt(j)'
  BY <1>1 DEF JobAt, PhasesOf
<1>3. Goes(j)
  BY <1>1 DEF Goes, JobAt, PhasesOf
<1>4. Takes(j)
  BY <1>1 DEF Takes, Engaged, JobAt, PhasesOf
<1> QED
  BY <1>1, <1>2, <1>3, <1>4 DEF Steps

\* What follows a mount, an unmount or an adoption.
LEMMA FinishedFacts ==
  ASSUME TypeOK, NEW j \in Actors
  PROVE  /\ Finished(j) \in Job
         /\ \/ /\ job[j].after = "recon" /\ Finished(j).after = "recon"
               /\ Finished(j).pc = "recon" /\ Finished(j).id = None
               /\ Finished(j).todo = job[j].todo \ {job[j].id}
               /\ Finished(j).snap = job[j].snap
            \/ /\ job[j].after = "pass" /\ Finished(j).after = "pass"
               /\ Finished(j).pc = "next" /\ Finished(j).id = None
               /\ Finished(j).todo = job[j].todo
            \/ /\ job[j].after = "edit" /\ Finished(j).after = "done"
               /\ Finished(j).pc = "begin" /\ Finished(j).id = job[j].id
               /\ Finished(j).todo = {}
            \/ /\ job[j].after = "detach" /\ job[j].state = "unmounted"
               /\ Finished(j).after = "detach"
               /\ Finished(j).pc = "stamp" /\ Finished(j).id = job[j].id
               /\ Finished(j).todo = job[j].todo
            \/ /\ job[j].after = "remove" /\ Finished(j).after = "remove"
               /\ Finished(j).pc = "check" /\ Finished(j).id = job[j].id
               /\ Finished(j).todo = job[j].todo
            \/ Finished(j) = IdleJob
<1>1. job[j] \in Job
  BY DEF TypeOK
<1>2. CASE job[j].after = "recon"
  <2>1. Finished(j) = [job[j] EXCEPT !.pc = "recon", !.todo = job[j].todo \ {job[j].id},
                                     !.id = None]
    BY <1>2 DEF Finished
  <2> QED
    BY <1>1, <1>2, <2>1 DEF Job, Phases
<1>3. CASE job[j].after = "pass" /\ job[j].todo # {}
  <2>1. Finished(j) = [IdleJob EXCEPT !.pc = "next", !.todo = job[j].todo,
                                      !.after = "pass"]
    BY <1>3 DEF Finished
  <2> DEFINE n == [IdleJob EXCEPT !.pc = "next", !.todo = job[j].todo, !.after = "pass"]
  <2>2. /\ n \in Job /\ n.pc = "next" /\ n.id = None /\ n.todo = job[j].todo
        /\ n.after = "pass"
    BY <1>1, IdleJobFacts DEF Job, Phases, Continuations
  <2> HIDE DEF n
  <2>3. Finished(j) = n
    BY <2>1 DEF n
  <2> QED
    BY <1>3, <2>2, <2>3
<1>4. CASE job[j].after = "edit" /\ job[j].state = "unmounted"
  <2>1. Finished(j) = [IdleJob EXCEPT !.pc = "begin", !.id = job[j].id]
    BY <1>4 DEF Finished
  <2> DEFINE n == [IdleJob EXCEPT !.pc = "begin", !.id = job[j].id]
  <2>2. n \in Job /\ n.pc = "begin" /\ n.id = job[j].id /\ n.todo = {} /\ n.after = "done"
    BY <1>1, IdleJobFacts DEF Job, Phases
  <2> HIDE DEF n
  <2>3. Finished(j) = n
    BY <2>1 DEF n
  <2> QED
    BY <1>4, <2>2, <2>3
<1>5. CASE job[j].after = "detach" /\ job[j].state = "unmounted"
  <2>1. Finished(j) = [job[j] EXCEPT !.pc = "stamp"]
    BY <1>5 DEF Finished
  <2> QED
    BY <1>1, <1>5, <2>1 DEF Job, Phases
<1>6. CASE job[j].after = "remove"
  <2>1. Finished(j) = [job[j] EXCEPT !.pc = "check"]
    BY <1>6 DEF Finished
  <2> QED
    BY <1>1, <1>6, <2>1 DEF Job, Phases
<1>7. CASE /\ job[j].after \notin {"recon", "remove"}
           /\ ~(job[j].after = "pass" /\ job[j].todo # {})
           /\ ~(job[j].after = "edit" /\ job[j].state = "unmounted")
           /\ ~(job[j].after = "detach" /\ job[j].state = "unmounted")
  <2>1. Finished(j) = IdleJob
    BY <1>7 DEF Finished
  <2> QED
    BY <2>1, IdleJobFacts
<1> QED
  BY <1>2, <1>3, <1>4, <1>5, <1>6, <1>7

LEMMA GoesFinished ==
  ASSUME TypeOK, NEW j \in Actors, JobAt(j), crew' = crew, job[j].pc = "record",
         job' = [job EXCEPT ![j] = Finished(j)]
  PROVE  Steps(j)
<1>1. job' \in [Actors -> Job] /\ Alone(j) /\ job'[j] = Finished(j)
  BY FinishedFacts, PutFacts
<1>2. CASE Finished(j) = IdleJob
  <2>1. job' = [job EXCEPT ![j] = IdleJob]
    BY <1>2
  <2>2. job[j].pc # "idle" /\ job[j].pc # "umount" /\ job[j].pc # "forget"
    OBVIOUS
  <2> QED
    BY <2>1, <2>2, GoesIdle
<1>3. CASE Finished(j) # IdleJob
  <2> DEFINE c == job'[j]
  <2>1. \/ /\ job[j].after = "recon" /\ c.after = "recon" /\ c.pc = "recon"
           /\ c.id = None /\ c.todo = job[j].todo \ {job[j].id} /\ c.snap = job[j].snap
        \/ /\ job[j].after = "pass" /\ c.after = "pass" /\ c.pc = "next"
           /\ c.id = None /\ c.todo = job[j].todo
        \/ /\ job[j].after = "edit" /\ c.after = "done" /\ c.pc = "begin"
           /\ c.id = job[j].id /\ c.todo = {}
        \/ /\ job[j].after = "detach" /\ job[j].state = "unmounted"
           /\ c.after = "detach" /\ c.pc = "stamp" /\ c.id = job[j].id
           /\ c.todo = job[j].todo
        \/ /\ job[j].after = "remove" /\ c.after = "remove" /\ c.pc = "check"
           /\ c.id = job[j].id /\ c.todo = job[j].todo
    BY <1>1, <1>3, FinishedFacts
  <2>2. JobAt(j)'
    BY <2>1 DEF JobAt, PhasesOf
  <2>3. Goes(j)
    BY <2>1, ActorFacts DEF Goes, JobAt, PhasesOf
  <2>4. Takes(j)
    BY <2>1, NoneFacts DEF Takes, Engaged, JobAt, PhasesOf
  <2> QED
    BY <1>1, <2>2, <2>3, <2>4 DEF Steps
<1> QED
  BY <1>2, <1>3

\* A pass that starts with the rows as they are.
LEMMA GoesReconciling ==
  ASSUME TypeOK, NEW j \in Actors, JobAt(j), crew' = crew,
         job[j].pc = "l3" \/ (j \in crew /\ j # "boot" /\ job[j].pc = "idle"),
         job' = [job EXCEPT ![j] = Reconciling]
  PROVE  Steps(j)
<1>1. /\ Reconciling \in Job /\ Reconciling.pc = "recon" /\ Reconciling.id = None
      /\ Reconciling.todo = Configured /\ Reconciling.snap = rows
      /\ Reconciling.after = "recon"
  <2>1. Configured \subseteq Shares /\ rows \in [Shares -> Row \cup {None}]
    BY DEF TypeOK, Configured
  <2> QED
    BY <2>1, IdleJobFacts DEF Job, Phases, Continuations, Reconciling
<1>2. job' \in [Actors -> Job] /\ Alone(j) /\ job'[j] = Reconciling
  BY <1>1, PutFacts
<1>3. j \in Tasks /\ j \in crew
  BY CrewsAssumption DEF TypeOK, JobAt
<1>4. JobAt(j)'
  BY <1>1, <1>2, <1>3 DEF JobAt, PhasesOf, Configured
<1>5. Goes(j)
  BY <1>1, <1>2, <1>3, ActorFacts DEF Goes
<1>6. Takes(j)
  BY <1>1, <1>2, NoneFacts DEF Takes
<1> QED
  BY <1>2, <1>4, <1>5, <1>6 DEF Steps

LEMMA LadderFacts ==
  /\ Ladder \in Seq(Dialects \cup {"none"}) /\ Ladder # <<>>
  /\ \A v \in Dialects : RestOfLadder(v) \in Seq(Dialects \cup {"none"})
<1>1. Ladder \in Seq(STRING) /\ Ladder # <<>>
  BY LadderAssumption
<1>2. Ladder \in Seq(Dialects \cup {"none"})
  BY <1>1 DEF Dialects
<1>3. ASSUME NEW v \in Dialects
      PROVE  RestOfLadder(v) \in Seq(Dialects \cup {"none"})
  <2> DEFINE i == CHOOSE k \in 1..Len(Ladder) : Ladder[k] = v
  <2>1. i \in 1..Len(Ladder)
    BY <1>3 DEF Dialects
  <2>2. RestOfLadder(v) = SubSeq(Ladder, 1, i - 1) \o SubSeq(Ladder, i + 1, Len(Ladder))
    BY DEF RestOfLadder
  <2> HIDE DEF i
  <2>3. SubSeq(Ladder, 1, i - 1) \in Seq(Dialects \cup {"none"})
    BY <1>2, <2>1
  <2>4. SubSeq(Ladder, i + 1, Len(Ladder)) \in Seq(Dialects \cup {"none"})
    BY <1>2, <2>1
  <2> QED
    BY <2>2, <2>3, <2>4
<1> QED
  BY <1>1, <1>2, <1>3

LEMMA CloneFacts ==
  ASSUME TypeOK, NEW j \in Actors, JobAt(j), job[j].pc \in ClonePhases
  PROVE  /\ job[j].id \in Shares /\ job[j].snap[job[j].id] \in Row
         /\ job[j] \in Job
<1>1. job[j] \in Job
  BY DEF TypeOK
<1>2. job[j].id \in Shares /\ job[j].snap[job[j].id] # None
  BY DEF JobAt
<1> QED
  BY <1>1, <1>2 DEF Job

\* The next rung, the rest of the ladder, or the end.
LEMMA GoesNextRung ==
  ASSUME TypeOK, NEW j \in Actors, JobAt(j), crew' = crew, job[j].pc = "try", NextRung(j)
  PROVE  Steps(j)
<1>1. job[j].id \in Shares /\ job[j].snap[job[j].id] \in Row /\ job[j] \in Job
  BY CloneFacts
<1>2. CASE Len(job[j].rungs) > 1
  <2> DEFINE q == Tail(job[j].rungs)
             b == [job[j] EXCEPT !.rungs = q]
  <2>1. job[j].rungs \in Seq(Dialects \cup {"none"})
    BY <1>1 DEF Job
  <2>a. job[j].rungs # <<>>
    BY DEF JobAt
  <2>b. q \in Seq(Dialects \cup {"none"}) /\ Len(q) = Len(job[j].rungs) - 1
    BY <2>1, <2>a
  <2>c. Len(q) # 0
    <3> HIDE DEF q
    <3> QED
      BY <2>1, <2>b, <1>2
  <2>2. q \in Seq(Dialects \cup {"none"}) /\ q # <<>>
    <3> HIDE DEF q
    <3> QED
      BY <2>b, <2>c, EmptySeq
  <2>3. job' = [job EXCEPT ![j] = b]
    BY <1>2 DEF NextRung
  <2> HIDE DEF q
  <2>4. /\ b \in Job /\ b.pc = "try" /\ b.id = job[j].id /\ b.todo = job[j].todo
        /\ b.snap = job[j].snap /\ b.rungs # <<>> /\ b.after = job[j].after
    BY <1>1, <2>2 DEF Job
  <2> HIDE DEF b
  <2> QED
    BY <2>3, <2>4, GoesToTry
<1>3. CASE /\ Len(job[j].rungs) <= 1
           /\ Cifs(j) /\ job[j].snap[job[j].id].vers # "none" /\ ~job[j].cleared
  <2>1. Goto(j, "clear")
    BY <1>3, <1>1 DEF NextRung, Job
  <2> QED
    BY <1>3, <2>1, GoesOn DEF Phases
<1>4. CASE /\ Len(job[j].rungs) <= 1
           /\ ~(Cifs(j) /\ job[j].snap[job[j].id].vers # "none" /\ ~job[j].cleared)
  <2>1. Outcome(j, "failed", "transient")
    BY <1>4, <1>1 DEF NextRung, Job
  <2> QED
    BY <2>1, GoesToRecord DEF States, Classes
<1>5. Len(job[j].rungs) \in Nat
  BY <1>1 DEF Job
<1> QED
  BY <1>2, <1>3, <1>4, <1>5

LEMMA StockSteps ==
  ASSUME TypeOK, NEW j \in Actors, JobAt(j), crew' = crew, Stock(j)
  PROVE  Steps(j)
<1> DEFINE b == [job[j] EXCEPT !.pc = "begin", !.pw = "none"]
<1>1. job[j] \in Job /\ job[j].pc = "stock"
  BY DEF TypeOK, Stock
<1>2. /\ b \in Job /\ b.pc = "begin" /\ b.id = job[j].id /\ b.todo = job[j].todo
      /\ b.snap = job[j].snap /\ b.after = job[j].after
  BY <1>1 DEF Job, Phases, Passwords
<1>3. job' = [job EXCEPT ![j] = b]
  BY DEF Stock
<1> HIDE DEF b
<1>4. job' \in [Actors -> Job] /\ Alone(j) /\ job'[j] = b
  BY <1>2, <1>3, PutFacts
<1>5. JobAt(j)'
  BY <1>1, <1>2, <1>4 DEF JobAt, PhasesOf
<1>6. Goes(j)
  BY <1>1, <1>2, <1>4 DEF Goes, JobAt, PhasesOf
<1>7. Takes(j)
  BY <1>1, <1>2, <1>4 DEF Takes, Engaged, JobAt, PhasesOf
<1> QED
  BY <1>4, <1>5, <1>6, <1>7 DEF Steps

LEMMA StageSteps ==
  ASSUME TypeOK, NEW j \in Actors, JobAt(j), crew' = crew, Stage(j)
  PROVE  Steps(j)
<1>1. job[j].pc = "stage"
  BY DEF Stage
<1>2. job[j].id \in Shares /\ job[j].snap[job[j].id] \in Row /\ job[j] \in Job
  BY <1>1, CloneFacts
<1>3. CASE Cifs(j) /\ Secret(j) /\ vault[job[j].id] = "none"
  <2>1. Outcome(j, "failed", "permanent")
    BY <1>3 DEF Stage
  <2> QED
    BY <1>1, <2>1, GoesToRecord DEF States, Classes
<1>4. CASE ~(Cifs(j) /\ Secret(j) /\ vault[job[j].id] = "none")
  <2> DEFINE q == Rungs(j)
             b == [job[j] EXCEPT !.pc = "try", !.rungs = q]
  <2>1. q \in Seq(Dialects \cup {"none"}) /\ q # <<>>
    <3>1. CASE ~Cifs(j)
      BY <3>1 DEF Rungs
    <3>2. CASE Cifs(j) /\ job[j].snap[job[j].id].vers # "none"
      <4>1. q = <<job[j].snap[job[j].id].vers>>
        BY <3>2 DEF Rungs
      <4>2. job[j].snap[job[j].id].vers \in Dialects \cup {"none"}
        BY <1>2 DEF Row
      <4> QED
        BY <4>1, <4>2
    <3>3. CASE Cifs(j) /\ job[j].snap[job[j].id].vers = "none"
      BY <3>3, LadderFacts DEF Rungs
    <3> QED
      BY <3>1, <3>2, <3>3
  <2>2. job' = [job EXCEPT ![j] = b]
    BY <1>4 DEF Stage
  <2> HIDE DEF q
  <2>3. /\ b \in Job /\ b.pc = "try" /\ b.id = job[j].id /\ b.todo = job[j].todo
        /\ b.snap = job[j].snap /\ b.rungs # <<>> /\ b.after = job[j].after
    BY <1>2, <2>1 DEF Job, Phases
  <2> HIDE DEF b
  <2> QED
    BY <1>1, <2>2, <2>3, GoesToTry
<1> QED
  BY <1>3, <1>4

LEMMA ClearSteps ==
  ASSUME TypeOK, NEW j \in Actors, JobAt(j), crew' = crew, ClearVers(j)
  PROVE  Steps(j)
<1>1. job[j].pc = "clear"
  BY DEF ClearVers
<1>2. job[j].id \in Shares /\ job[j].snap[job[j].id] \in Row /\ job[j] \in Job
  BY <1>1, CloneFacts
<1> DEFINE q == RestOfLadder(job[j].snap[job[j].id].vers)
           b == [job[j] EXCEPT !.pc = "try", !.rungs = q, !.cleared = TRUE]
<1>3. \/ Outcome(j, "failed", "transient")
      \/ q # <<>> /\ job' = [job EXCEPT ![j] = b]
  BY DEF ClearVers
<1>4. CASE Outcome(j, "failed", "transient")
  BY <1>1, <1>4, GoesToRecord DEF States, Classes
<1>5. CASE q # <<>> /\ job' = [job EXCEPT ![j] = b]
  <2>1. job[j].snap[job[j].id].vers \in Dialects
    BY <1>1, <1>2 DEF JobAt, Row
  <2>2. q \in Seq(Dialects \cup {"none"})
    BY <2>1, LadderFacts
  <2> HIDE DEF q
  <2>3. /\ b \in Job /\ b.pc = "try" /\ b.id = job[j].id /\ b.todo = job[j].todo
        /\ b.snap = job[j].snap /\ b.rungs # <<>> /\ b.after = job[j].after
    BY <1>2, <1>5, <2>2 DEF Job, Phases
  <2> HIDE DEF b
  <2> QED
    BY <1>1, <1>5, <2>3, GoesToTry
<1> QED
  BY <1>3, <1>4, <1>5

LEMMA TrySteps ==
  ASSUME TypeOK, NEW j \in Actors, JobAt(j), crew' = crew,
         Try(j) \/ TryTimesOut(j) \/ TryFails(j)
  PROVE  Steps(j)
<1>1. job[j].pc = "try"
  BY DEF Try, TryTimesOut, TryFails
<1>2. \/ Goto(j, "final") \/ Goto(j, "forget") \/ Goto(j, "adopt") \/ NextRung(j)
      \/ Outcome(j, "failed", "transient") \/ Outcome(j, "failed", "permanent")
  BY DEF Try, TryTimesOut, TryFails
<1>3. CASE Goto(j, "final") \/ Goto(j, "forget") \/ Goto(j, "adopt")
  BY <1>1, <1>3, GoesOn DEF Phases
<1>4. CASE NextRung(j)
  BY <1>1, <1>4, GoesNextRung
<1>5. CASE Outcome(j, "failed", "transient") \/ Outcome(j, "failed", "permanent")
  BY <1>1, <1>5, GoesToRecord DEF States, Classes
<1> QED
  BY <1>2, <1>3, <1>4, <1>5

LEMMA ReconcileSteps ==
  ASSUME TypeOK, NEW j \in Actors, JobAt(j), crew' = crew, NEW s \in Shares,
         Reconcile(j, s)
  PROVE  Steps(j)
<1> DEFINE st == IF entry[s] = None THEN "none" ELSE entry[s].state
           b == [job[j] EXCEPT !.pc = "record", !.id = s, !.state = "unmounted",
                               !.class = "none"]
           c == [job[j] EXCEPT !.pc = "adopt", !.id = s]
           d == [job[j] EXCEPT !.todo = job[j].todo \ {s}]
<1>1. job[j] \in Job /\ job[j].pc = "recon" /\ s \in job[j].todo
  BY DEF TypeOK, Reconcile
<1>2. job[j].after = "recon" /\ job[j].snap[s] # None /\ j \in Tasks
  BY <1>1 DEF JobAt, PhasesOf
<1>3. CASE os[s] = None /\ st = "mounted"
  <2>1. job' = [job EXCEPT ![j] = b]
    BY <1>3 DEF Reconcile
  <2>2. /\ b \in Job /\ b.pc = "record" /\ b.id = s /\ b.todo = job[j].todo
        /\ b.snap = job[j].snap /\ b.after = "recon"
    BY <1>1, <1>2 DEF Job, Phases, States, Classes
  <2> HIDE DEF b
  <2>3. job' \in [Actors -> Job] /\ Alone(j) /\ job'[j] = b
    BY <2>1, <2>2, PutFacts
  <2>4. JobAt(j)'
    BY <1>1, <1>2, <2>2, <2>3 DEF JobAt, PhasesOf
  <2>5. Goes(j)
    BY <1>1, <1>2, <2>2, <2>3, ActorFacts DEF Goes
  <2>6. entry[s] # None /\ entry[s].state = "mounted"
    BY <1>3
  <2>7. Takes(j)
    BY <1>1, <1>2, <2>2, <2>3, <2>6 DEF Takes, Engaged
  <2> QED
    BY <2>3, <2>4, <2>5, <2>7 DEF Steps
<1>4. CASE os[s] # None /\ st \notin {"mounted", "mounting"}
  <2>1. job' = [job EXCEPT ![j] = c]
    BY <1>4 DEF Reconcile
  <2>2. /\ c \in Job /\ c.pc = "adopt" /\ c.id = s /\ c.todo = job[j].todo
        /\ c.snap = job[j].snap /\ c.after = "recon"
    BY <1>1, <1>2 DEF Job, Phases
  <2> HIDE DEF c
  <2>3. job' \in [Actors -> Job] /\ Alone(j) /\ job'[j] = c
    BY <2>1, <2>2, PutFacts
  <2>4. JobAt(j)'
    BY <1>1, <1>2, <2>2, <2>3 DEF JobAt, PhasesOf
  <2>5. Goes(j)
    BY <1>1, <1>2, <2>2, <2>3, ActorFacts DEF Goes
  <2>6. os[s] # None
    BY <1>4
  <2>7. Takes(j)
    BY <1>1, <1>2, <2>2, <2>3, <2>6 DEF Takes, Engaged
  <2> QED
    BY <2>3, <2>4, <2>5, <2>7 DEF Steps
<1>5. CASE /\ ~(os[s] = None /\ st = "mounted")
           /\ ~(os[s] # None /\ st \notin {"mounted", "mounting"})
  <2>1. job' = [job EXCEPT ![j] = d]
    BY <1>5 DEF Reconcile
  <2>2. /\ d \in Job /\ d.pc = "recon" /\ d.id = job[j].id /\ d.todo = job[j].todo \ {s}
        /\ d.snap = job[j].snap /\ d.after = "recon"
    BY <1>1, <1>2 DEF Job
  <2> HIDE DEF d
  <2>3. job' \in [Actors -> Job] /\ Alone(j) /\ job'[j] = d
    BY <2>1, <2>2, PutFacts
  <2>4. JobAt(j)'
    BY <1>1, <1>2, <2>2, <2>3 DEF JobAt, PhasesOf
  <2>5. Goes(j)
    BY <1>1, <1>2, <2>2, <2>3, ActorFacts DEF Goes
  <2>7. Takes(j)
    BY <1>1, <1>2, <2>2, <2>3 DEF Takes, Engaged
  <2> QED
    BY <2>3, <2>4, <2>5, <2>7 DEF Steps
<1> QED
  BY <1>3, <1>4, <1>5

LEMMA CandidatesType ==
  ASSUME TypeOK, NEW j PROVE Candidates(j) \subseteq Shares
BY DEF Candidates, Configured, Down

LEMMA SelectSteps ==
  ASSUME TypeOK, NEW j \in Actors, JobAt(j), crew' = crew, Select(j)
  PROVE  Steps(j)
<1> DEFINE b == [IdleJob EXCEPT !.pc = "next", !.todo = Candidates(j), !.after = "pass"]
<1>1. job[j] \in Job /\ job[j].pc = "recon"
  BY DEF TypeOK, Select
<1>2. job[j].after = "recon" /\ j \in Tasks
  BY <1>1 DEF JobAt, PhasesOf
<1>3. CASE Candidates(j) = {}
  <2>1. job' = [job EXCEPT ![j] = IdleJob]
    BY <1>3 DEF Select
  <2> QED
    BY <1>1, <2>1, GoesIdle
<1>4. CASE Candidates(j) # {}
  <2>1. job' = [job EXCEPT ![j] = b]
    BY <1>4 DEF Select
  <2>2. /\ b \in Job /\ b.pc = "next" /\ b.id = None /\ b.todo = Candidates(j)
        /\ b.after = "pass"
    BY CandidatesType, IdleJobFacts DEF Job, Phases, Continuations
  <2> HIDE DEF b
  <2>3. job' \in [Actors -> Job] /\ Alone(j) /\ job'[j] = b
    BY <2>1, <2>2, PutFacts
  <2>4. JobAt(j)'
    BY <1>1, <1>2, <2>2, <2>3 DEF JobAt, PhasesOf
  <2>5. Goes(j)
    BY <1>1, <1>2, <2>2, <2>3, ActorFacts DEF Goes
  <2>7. Takes(j)
    BY <1>1, <1>2, <2>2, <2>3, NoneFacts DEF Takes, Engaged
  <2> QED
    BY <2>3, <2>4, <2>5, <2>7 DEF Steps
<1> QED
  BY <1>3, <1>4

LEMMA NextShareSteps ==
  ASSUME TypeOK, NEW j \in Actors, JobAt(j), crew' = crew, NEW s \in Shares,
         NextShare(j, s)
  PROVE  Steps(j)
<1> DEFINE b == [job[j] EXCEPT !.todo = job[j].todo \ {s}]
<1>1. job[j] \in Job /\ job[j].pc = "next" /\ s \in job[j].todo
  BY DEF TypeOK, NextShare
<1>2. job[j].after = "pass" /\ j \in Tasks
  BY <1>1 DEF JobAt, PhasesOf
<1>3. /\ b \in Job /\ b.pc = "next" /\ b.id = job[j].id /\ b.todo = job[j].todo \ {s}
      /\ b.after = "pass"
  BY <1>1, <1>2 DEF Job
<1>4. \/ job' = [job EXCEPT ![j] = IdleJob]
      \/ job' = [job EXCEPT ![j] = b]
      \/ rows[s] # None /\ job' = [job EXCEPT ![j] = Begun(b, s)]
  BY DEF NextShare
<1> HIDE DEF b
<1>5. CASE job' = [job EXCEPT ![j] = IdleJob]
  BY <1>1, <1>5, GoesIdle
<1>6. CASE job' = [job EXCEPT ![j] = b]
  <2>3. job' \in [Actors -> Job] /\ Alone(j) /\ job'[j] = b
    BY <1>3, <1>6, PutFacts
  <2>4. JobAt(j)'
    BY <1>1, <1>2, <1>3, <2>3 DEF JobAt, PhasesOf
  <2>5. Goes(j)
    BY <1>1, <1>2, <1>3, <2>3, ActorFacts DEF Goes
  <2>7. Takes(j)
    BY <1>1, <1>2, <1>3, <2>3 DEF Takes, Engaged
  <2> QED
    BY <2>3, <2>4, <2>5, <2>7 DEF Steps
<1>7. CASE rows[s] # None /\ job' = [job EXCEPT ![j] = Begun(b, s)]
  BY <1>1, <1>2, <1>3, <1>7, GoesToMount
<1> QED
  BY <1>4, <1>5, <1>6, <1>7

\* Every step of a job is one of these.
LEMMA JobSteps ==
  ASSUME TypeOK, NEW j \in Actors, JobAt(j), crew' = crew,
         JobStep(j) \/ JobFault(j) \/ (j \in crew /\ StartPass(j))
  PROVE  Steps(j)
<1>0. job[j] \in Job
  BY DEF TypeOK
<1>1. CASE Seed(j)
  BY <1>1, GoesOn DEF Seed, Phases
<1>2. CASE Stock(j)
  BY <1>2, StockSteps
<1>3. CASE StockFails(j)
  BY <1>3, GoesIdle DEF StockFails
<1>4. CASE MountBegins(j)
  <2>1. job[j].pc = "begin" /\ job[j].id \in Shares
    BY <1>4 DEF MountBegins, JobAt
  <2>2. CASE rows[job[j].id] = None
    <3>1. job' = [job EXCEPT ![j] = IdleJob]
      BY <1>4, <2>2 DEF MountBegins
    <3> QED
      BY <2>1, <3>1, GoesIdle
  <2>3. CASE rows[job[j].id] # None
    <3>1. job' = [job EXCEPT ![j] = Begun(job[j], job[j].id)]
      BY <1>4, <2>3 DEF MountBegins
    <3> QED
      BY <1>0, <2>1, <2>3, <3>1, GoesToMount
  <2> QED
    BY <2>2, <2>3
<1>5. CASE EnsureCredential(j)
  <2>1. job[j].pc = "cred" /\ (Outcome(j, "unmounted", "permanent") \/ Goto(j, "mounting"))
    BY <1>5 DEF EnsureCredential
  <2>2. CASE Outcome(j, "unmounted", "permanent")
    BY <2>1, <2>2, GoesToRecord DEF States, Classes
  <2>3. CASE Goto(j, "mounting")
    BY <2>1, <2>3, GoesOn DEF Phases
  <2> QED
    BY <2>1, <2>2, <2>3
<1>6. CASE SetMounting(j)
  BY <1>6, GoesOn DEF SetMounting, Phases
<1>7. CASE Stage(j)
  BY <1>7, StageSteps
<1>8. CASE Try(j) \/ TryTimesOut(j) \/ TryFails(j)
  BY <1>8, TrySteps
<1>9. CASE ClearVers(j)
  BY <1>9, ClearSteps
<1>10. CASE Finalise(j)
  <2>1. /\ job[j].pc = "final"
        /\ Outcome(j, "mounted", "none") \/ Outcome(j, "failed", "transient")
    BY <1>10 DEF Finalise
  <2> QED
    BY <2>1, GoesToRecord DEF States, Classes
<1>11. CASE Adopt(j)
  <2>1. job[j].pc = "adopt" /\ Outcome(j, "mounted", "none")
    BY <1>11 DEF Adopt
  <2> QED
    BY <2>1, GoesToRecord DEF States, Classes
<1>12. CASE Forget(j) \/ ForgetFails(j)
  <2>1. job[j].pc = "forget" /\ Outcome(j, "failed", "permanent") /\ job[j].id \in Shares
    BY <1>12 DEF Forget, ForgetFails, JobAt
  <2>2. vault'[job[j].id] = "none" \/ "vault" \in happened'
    BY <1>12, <2>1 DEF Forget, ForgetFails, Trouble, Happens, TypeOK
  <2> QED
    BY <2>1, <2>2, GoesToRecord DEF States, Classes
<1>13. CASE Record(j)
  BY <1>13, GoesFinished DEF Record
<1>14. CASE Umount(j)
  <2>1. job[j].pc = "umount" /\ job[j].id \in Shares
    BY <1>14 DEF Umount, JobAt
  <2>2. CASE rows[job[j].id] = None
    <3>1. job' = [job EXCEPT ![j] = IdleJob]
      BY <1>14, <2>2 DEF Umount
    <3> QED
      BY <2>1, <2>2, <3>1, GoesIdle
  <2>3. CASE rows[job[j].id] # None /\ os[job[j].id] = None
    <3>1. Outcome(j, "failed", "transient") /\ os' = os
      BY <1>14, <2>3 DEF Umount
    <3> QED
      BY <2>1, <2>3, <3>1, GoesToRecord DEF States, Classes
  <2>4. CASE rows[job[j].id] # None /\ os[job[j].id] # None
    <3>1. Outcome(j, "unmounted", "none") /\ os' = [os EXCEPT ![job[j].id] = None]
      BY <1>14, <2>4 DEF Umount
    <3>2. os'[job[j].id] = None
      BY <2>1, <3>1 DEF TypeOK
    <3> QED
      BY <2>1, <3>1, <3>2, GoesToRecord DEF States, Classes
  <2> QED
    BY <2>2, <2>3, <2>4
<1>15. CASE UmountFails(j)
  <2>1. job[j].pc = "umount" /\ Outcome(j, "mounted", "none")
    BY <1>15 DEF UmountFails
  <2>2. job[j].after = "edit" => <<"edit", job[j].id>> \in excused'
    BY <1>15 DEF UmountFails
  <2> QED
    BY <2>1, <2>2, GoesToRecord DEF States, Classes
<1>16. CASE Stamp(j)
  BY <1>16, GoesIdle DEF Stamp
<1>17. CASE Check(j)
  <2>1. /\ job[j].pc = "check"
        /\ \/ job' = [job EXCEPT ![j] = IdleJob]
           \/ os[job[j].id] = None /\ Goto(j, "drop")
    BY <1>17 DEF Check
  <2>2. CASE job' = [job EXCEPT ![j] = IdleJob]
    BY <2>1, <2>2, GoesIdle
  <2>3. CASE os[job[j].id] = None /\ Goto(j, "drop")
    BY <2>1, <2>3, GoesOn DEF Phases
  <2> QED
    BY <2>1, <2>2, <2>3
<1>18. CASE Drop(j)
  <2>1. job[j].pc = "drop" /\ (job' = [job EXCEPT ![j] = IdleJob] \/ Goto(j, "entry"))
    BY <1>18 DEF Drop
  <2>2. CASE job' = [job EXCEPT ![j] = IdleJob]
    BY <2>1, <2>2, GoesIdle
  <2>3. CASE Goto(j, "entry")
    BY <2>1, <2>3, GoesOn DEF Phases
  <2> QED
    BY <2>1, <2>2, <2>3
<1>19. CASE DropEntry(j)
  BY <1>19, GoesIdle DEF DropEntry
<1>20. CASE AwaitL3(j)
  <2>1. /\ job[j].pc = "l3"
        /\ job' = [job EXCEPT ![j] = Reconciling] \/ job' = [job EXCEPT ![j] = IdleJob]
    BY <1>20 DEF AwaitL3
  <2> QED
    BY <2>1, GoesReconciling, GoesIdle
<1>21. CASE j \in crew /\ StartPass(j)
  BY <1>21, GoesReconciling DEF StartPass
<1>22. CASE Select(j)
  BY <1>22, SelectSteps
<1>23. ASSUME NEW s \in Shares, Reconcile(j, s) \/ NextShare(j, s)
       PROVE  Steps(j)
  BY <1>23, ReconcileSteps, NextShareSteps
<1>24. CASE UmountCutOff(j)
  <2>1. /\ job[j].pc = "umount"
        /\ job[j].after = "edit" => <<"edit", job[j].id>> \in excused'
    BY <1>24 DEF UmountCutOff
  <2>2. CASE job[j].after = "remove"
    <3>1. Goto(j, "check")
      BY <1>24, <2>2 DEF UmountCutOff, Goto
    <3> QED
      BY <2>1, <2>2, <3>1, GoesOn DEF Phases
  <2>3. CASE job[j].after # "remove"
    <3>1. job' = [job EXCEPT ![j] = IdleJob]
      BY <1>24, <2>3 DEF UmountCutOff
    <3> QED
      BY <2>1, <3>1, GoesIdle
  <2> QED
    BY <2>2, <2>3
<1> QED
  BY <1>1, <1>2, <1>3, <1>4, <1>5, <1>6, <1>7, <1>8, <1>9, <1>10, <1>11, <1>12, <1>13,
     <1>14, <1>15, <1>16, <1>17, <1>18, <1>19, <1>20, <1>21, <1>22, <1>23, <1>24
  DEF JobStep, JobFault

-------------------------------------------------------------------------------
(* What the step of one job may do with the rest of the state.             *)

TargetOf(r) == IF r = None THEN None ELSE r.target

\* Rows and file keep their targets, and a save may make the file catch up.
StoreKept ==
  /\ rows' \in [Shares -> Row \cup {None}] /\ disk' \in [Shares -> Row \cup {None}]
  /\ promised' = promised /\ used' = used
  /\ \A s \in Shares :
       /\ TargetOf(rows'[s]) = TargetOf(rows[s])
       /\ TargetOf(disk'[s]) \in {TargetOf(disk[s]), TargetOf(rows[s])}

\* Mounts come and go only by the jobs and helpers that have the share in hand.
Effects(j) ==
  LET b == job[j]
  IN  /\ \A s \in Shares :
           /\ \/ os'[s] \in {os[s], None}
              \/ b.pc = "try" /\ b.id = s /\ os'[s].target = b.snap[s].target
           /\ \/ late'[s] = late[s]
              \/ b.pc = "try" /\ b.id = s /\ late'[s].target = b.snap[s].target
           /\ \/ staged'[s] \in {staged[s], "none"}
              \/ b.pc = "stage" /\ b.id = s /\ staged'[s] = vault[s]
           /\ \/ vault'[s] \in {vault[s], "none"}
              \/ b.pc = "stock" /\ b.id = s
           /\ \/ entry'[s] = entry[s]
              \/ b.pc \in {"seed", "mounting", "record", "stamp", "entry"} /\ b.id = s
      /\ excused \subseteq excused' /\ happened \subseteq happened' /\ asked' = asked
      /\ off' = off \/ (b.pc = "stamp" /\ off' = off \cup {b.id})
      /\ \A s \in Shares : <<"remove", s>> \in excused' =>
           <<"remove", s>> \in excused \/ (b.pc = "drop" /\ b.id = s)

\* The types of what a job step may change, but for rows, file and job.
HostType ==
  /\ entry \in [Shares -> Entry \cup {None}]
  /\ vault \in [Shares -> Passwords] /\ staged \in [Shares -> Passwords]
  /\ os \in [Shares -> Row \cup {None}] /\ late \in [Shares -> Row \cup {None}]
  /\ up \in BOOLEAN
  /\ off \subseteq Shares /\ excused \subseteq {"remove", "edit"} \X Shares
  /\ refused \in [Shares -> [hit : BOOLEAN, may : SUBSET Actors]]
  /\ asked \in 0..MaxRequests /\ happened \subseteq Troubles

\* Nothing but rows, file, job and the count of troubles changes.
HostKept == UNCHANGED <<entry, vault, hostVars, off, excused, refused>>

LEMMA SetVersFacts ==
  ASSUME TypeOK, NEW s \in Shares, NEW v \in Dialects \cup {"none"}
  PROVE  /\ SetVers(s, v) \in [Shares -> Row \cup {None}]
         /\ \A x \in Shares : TargetOf(SetVers(s, v)[x]) = TargetOf(rows[x])
<1>1. rows \in [Shares -> Row \cup {None}]
  BY DEF TypeOK
<1>2. CASE rows[s] = None
  BY <1>1, <1>2 DEF SetVers
<1>3. CASE rows[s] # None
  <2> DEFINE n == [rows[s] EXCEPT !.vers = v]
  <2>1. n \in Row /\ n.target = rows[s].target
    BY <1>1, <1>3 DEF Row
  <2>2. SetVers(s, v) = [rows EXCEPT ![s] = n]
    BY <1>3 DEF SetVers
  <2> HIDE DEF n
  <2> QED
    BY <1>1, <1>3, <2>1, <2>2, NoneFacts DEF TargetOf
<1> QED
  BY <1>2, <1>3

LEMMA SaveFacts ==
  ASSUME TypeOK, NEW r \in [Shares -> Row \cup {None}],
         \A x \in Shares : TargetOf(r[x]) = TargetOf(rows[x]),
         Commit(r) \/ CommitFails(r), UNCHANGED <<promised, used>>
  PROVE  /\ StoreKept /\ asked' = asked /\ happened \subseteq happened'
         /\ happened' \subseteq Troubles
BY DEF StoreKept, Commit, CommitFails, Trouble, Happens, boundVars, TypeOK, Troubles

LEMMA StoreUnchanged ==
  ASSUME TypeOK, UNCHANGED <<storeVars, promised>>
  PROVE  StoreKept
BY DEF StoreKept, TypeOK, storeVars

LEMMA HostUnchanged ==
  ASSUME TypeOK, NEW j \in Actors, HostKept, asked' = asked, happened \subseteq happened',
         happened' \subseteq Troubles
  PROVE  HostType' /\ Effects(j)
BY DEF HostType, Effects, HostKept, TypeOK, hostVars

LEMMA HappensFacts ==
  ASSUME TypeOK, NEW e \in Troubles, Happens(e)
  PROVE  happened \subseteq happened' /\ happened' \subseteq Troubles
BY DEF Happens, TypeOK

LEMMA UnstageFacts ==
  ASSUME TypeOK, NEW j, job[j].id \in Shares, Unstage(j) \/ UNCHANGED staged
  PROVE  /\ staged' \in [Shares -> Passwords]
         /\ \A s \in Shares : staged'[s] \in {staged[s], "none"}
BY DEF Unstage, TypeOK, Passwords

\* The steps that change only the job, or the job and the troubles.
LEMMA PlainEffects ==
  ASSUME TypeOK, NEW j \in Actors, JobAt(j),
         \/ StockFails(j) \/ MountBegins(j) \/ EnsureCredential(j) \/ ForgetFails(j)
         \/ Check(j) \/ StartPass(j) \/ AwaitL3(j) \/ Select(j)
         \/ \E s \in Shares : Reconcile(j, s) \/ NextShare(j, s)
  PROVE  HostType' /\ Effects(j) /\ StoreKept
<1>1. UNCHANGED <<storeVars, promised>> /\ HostKept
  BY DEF StockFails, MountBegins, EnsureCredential, ForgetFails, Check, StartPass,
         AwaitL3, Select, Reconcile, NextShare, HostKept, historyVars
<1>2. asked' = asked /\ happened \subseteq happened' /\ happened' \subseteq Troubles
  <2>1. UNCHANGED boundVars \/ Trouble("vault")
    BY DEF StockFails, MountBegins, EnsureCredential, ForgetFails, Check, StartPass,
           AwaitL3, Select, Reconcile, NextShare
  <2> QED
    BY <2>1, HappensFacts DEF boundVars, Trouble, Troubles, TypeOK
<1> QED
  BY <1>1, <1>2, StoreUnchanged, HostUnchanged

LEMMA SetStateFacts ==
  ASSUME TypeOK, NEW s \in Shares, NEW st \in States, NEW cl \in Classes,
         SetState(s, st, cl)
  PROVE  /\ entry' \in [Shares -> Entry \cup {None}]
         /\ \A x \in Shares \ {s} : entry'[x] = entry[x]
         /\ entry'[s] # None /\ entry'[s].state = st /\ entry'[s].class = cl
<1> DEFINE e == IF entry[s] = None THEN Seeded ELSE entry[s]
           d == e.detached /\ st \notin {"mounting", "mounted"}
           n == [state |-> st, class |-> cl, detached |-> d]
<1>1. d \in BOOLEAN
  OBVIOUS
<1>2. n \in Entry /\ n.state = st /\ n.class = cl
  <2> HIDE DEF d
  <2> QED
    BY <1>1 DEF Entry
<1>3. entry' = [entry EXCEPT ![s] = n]
  BY DEF SetState
<1> HIDE DEF n
<1> QED
  BY <1>2, <1>3, NoneFacts DEF TypeOK

LEMMA EntryEffects ==
  ASSUME TypeOK, NEW j \in Actors, JobAt(j),
         Seed(j) \/ SetMounting(j) \/ Record(j) \/ DropEntry(j) \/ Stamp(j)
  PROVE  HostType' /\ Effects(j) /\ StoreKept
<1>0. job[j] \in Job
  BY DEF TypeOK
<1>1. /\ job[j].pc \in {"seed", "mounting", "record", "entry", "stamp"}
      /\ job[j].id \in Shares
  BY DEF Seed, SetMounting, Record, DropEntry, Stamp, JobAt
<1>2. UNCHANGED <<storeVars, vault, hostVars, promised, excused, refused, boundVars>>
  BY DEF Seed, SetMounting, Record, DropEntry, Stamp, historyVars
<1>3. /\ entry' \in [Shares -> Entry \cup {None}]
      /\ \A x \in Shares \ {job[j].id} : entry'[x] = entry[x]
  <2>1. CASE Seed(j)
    <3>1. Seeded \in Entry
      BY DEF Seeded, Entry, States, Classes
    <3> QED
      BY <1>1, <2>1, <3>1 DEF Seed, TypeOK
  <2>2. CASE SetMounting(j)
    BY <1>1, <2>2, SetStateFacts DEF SetMounting, States, Classes
  <2>3. CASE Record(j)
    <3>1. job[j].state \in States /\ job[j].class \in Classes
      BY <1>0 DEF Job
    <3> QED
      BY <1>1, <2>3, <3>1, SetStateFacts DEF Record
  <2>4. CASE DropEntry(j)
    BY <1>1, <2>4 DEF DropEntry, TypeOK
  <2>5. CASE Stamp(j)
    <3>1. CASE entry[job[j].id] = None
      BY <1>1, <2>5, <3>1 DEF Stamp, TypeOK
    <3>2. CASE entry[job[j].id] # None
      <4> DEFINE n == [entry[job[j].id] EXCEPT !.detached = TRUE]
      <4>0. entry[job[j].id] \in Entry
        BY <1>1, <3>2 DEF TypeOK
      <4>1. n \in Entry
        BY <4>0 DEF Entry
      <4>2. entry' = [entry EXCEPT ![job[j].id] = n]
        BY <2>5, <3>2 DEF Stamp
      <4> HIDE DEF n
      <4> QED
        BY <1>1, <4>1, <4>2 DEF TypeOK
    <3> QED
      BY <3>1, <3>2
  <2> QED
    BY <2>1, <2>2, <2>3, <2>4, <2>5
<1>4. off' = off \/ (job[j].pc = "stamp" /\ off' = off \cup {job[j].id})
  BY DEF Seed, SetMounting, Record, DropEntry, Stamp, historyVars
<1>5. HostType'
  BY <1>1, <1>2, <1>3, <1>4 DEF HostType, TypeOK, hostVars, boundVars
<1>6. Effects(j)
  BY <1>1, <1>2, <1>3, <1>4 DEF Effects, hostVars, boundVars
<1>7. StoreKept
  BY <1>2, StoreUnchanged
<1> QED
  BY <1>5, <1>6, <1>7

LEMMA VaultEffects ==
  ASSUME TypeOK, NEW j \in Actors, JobAt(j), Stock(j) \/ Forget(j)
  PROVE  HostType' /\ Effects(j) /\ StoreKept
<1>0. job[j] \in Job
  BY DEF TypeOK
<1>1. job[j].id \in Shares
  BY DEF Stock, Forget, JobAt
<1>2. UNCHANGED <<storeVars, entry, hostVars, historyVars, boundVars>>
  BY DEF Stock, Forget
<1>3. /\ vault' \in [Shares -> Passwords]
      /\ \A x \in Shares : \/ vault'[x] \in {vault[x], "none"}
                           \/ job[j].pc = "stock" /\ job[j].id = x
  <2>1. vault \in [Shares -> Passwords] /\ job[j].pw \in Passwords
    BY <1>0 DEF TypeOK, Job
  <2>2. CASE Stock(j)
    BY <1>1, <2>1, <2>2 DEF Stock
  <2>3. CASE Forget(j)
    BY <1>1, <2>1, <2>3 DEF Forget, Passwords
  <2> QED
    BY <2>2, <2>3
<1>5. HostType'
  BY <1>2, <1>3 DEF HostType, TypeOK, hostVars, boundVars, historyVars
<1>6. Effects(j)
  BY <1>2, <1>3 DEF Effects, hostVars, boundVars, historyVars
<1>7. StoreKept
  BY <1>2, StoreUnchanged DEF historyVars
<1> QED
  BY <1>5, <1>6, <1>7

LEMMA StageEffects ==
  ASSUME TypeOK, NEW j \in Actors, JobAt(j), Stage(j)
  PROVE  HostType' /\ Effects(j) /\ StoreKept
<1>1. job[j].id \in Shares /\ job[j].pc = "stage"
  BY DEF Stage, JobAt
<1>2. UNCHANGED <<storeVars, entry, vault, os, late, up, promised, off, excused, boundVars>>
  BY DEF Stage
<1>3. /\ staged' \in [Shares -> Passwords]
      /\ \A x \in Shares : \/ staged'[x] = staged[x]
                           \/ job[j].id = x /\ staged'[x] = vault[x]
  BY <1>1 DEF Stage, TypeOK
<1>4. refused' \in [Shares -> [hit : BOOLEAN, may : SUBSET Actors]]
  <2> DEFINE m == refused[job[j].id].may \cup {j}
             n == [refused[job[j].id] EXCEPT !.may = m]
  <2>1. refused[job[j].id] \in [hit : BOOLEAN, may : SUBSET Actors]
    BY <1>1 DEF TypeOK
  <2>2. n \in [hit : BOOLEAN, may : SUBSET Actors]
    BY <2>1
  <2>3. refused' = [refused EXCEPT ![job[j].id] = n] \/ refused' = refused
    BY DEF Stage
  <2> HIDE DEF n
  <2> QED
    BY <1>1, <2>2, <2>3 DEF TypeOK
<1>5. HostType'
  BY <1>2, <1>3, <1>4 DEF HostType, TypeOK, boundVars
<1>6. Effects(j)
  BY <1>1, <1>2, <1>3 DEF Effects, boundVars
<1>7. StoreKept
  BY <1>2, StoreUnchanged
<1> QED
  BY <1>5, <1>6, <1>7

LEMMA MountedFacts ==
  ASSUME TypeOK, NEW j \in Actors, JobAt(j), job[j].pc = "try"
  PROVE  /\ Mounted(j, Head(job[j].rungs)) \in Row
         /\ Mounted(j, Head(job[j].rungs)).target = job[j].snap[job[j].id].target
<1>1. job[j].id \in Shares /\ job[j].snap[job[j].id] \in Row /\ job[j] \in Job
  BY CloneFacts
<1>2. job[j].rungs \in Seq(Dialects \cup {"none"}) /\ job[j].rungs # <<>>
  BY <1>1 DEF Job, JobAt
<1>3. Head(job[j].rungs) \in Dialects \cup {"none"}
  BY <1>2, HeadTailProperties
<1> DEFINE d == Head(job[j].rungs)
<1> HIDE DEF d
<1> QED
  BY <1>1, <1>3 DEF Mounted, Row, d

LEMMA StrikeFacts ==
  ASSUME TypeOK, NEW j \in Actors, job[j].id \in Shares, Strike(j)
  PROVE  /\ refused' \in [Shares -> [hit : BOOLEAN, may : SUBSET Actors]]
         /\ \A s \in Shares \ {job[j].id} : refused'[s] = refused[s]
         /\ LET s == job[j].id
            IN  /\ refused'[s].hit
                /\ ~refused[s].hit =>
                     \A k \in Actors \ {j} : job[k].id = s /\ job[k].pc \in {"try", "clear"}
                                             => k \in refused'[s].may
                /\ refused[s].hit =>
                     \A k \in Actors \ {j} : k \in refused[s].may => k \in refused'[s].may
<1> DEFINE s == job[j].id
           holders == {k \in Actors : job[k].id = s /\ job[k].pc \in {"try", "clear"}}
           m == (IF refused[s].hit THEN refused[s].may ELSE holders) \ {j}
           n == [hit |-> TRUE, may |-> m]
<1>1. refused[s] \in [hit : BOOLEAN, may : SUBSET Actors]
  BY DEF TypeOK
<1>2. m \subseteq Actors
  BY <1>1
<1>3. refused' = [refused EXCEPT ![s] = n]
  BY DEF Strike
<1>4. /\ ~refused[s].hit =>
           \A k \in Actors \ {j} : job[k].id = s /\ job[k].pc \in {"try", "clear"} => k \in m
      /\ refused[s].hit => \A k \in Actors \ {j} : k \in refused[s].may => k \in m
  OBVIOUS
<1> HIDE DEF m
<1>5. n \in [hit : BOOLEAN, may : SUBSET Actors] /\ n.hit /\ n.may = m
  BY <1>2
<1> HIDE DEF n
<1>6. refused'[s] = n /\ (\A x \in Shares \ {s} : refused'[x] = refused[x])
  BY <1>3 DEF TypeOK
<1> QED
  BY <1>3, <1>4, <1>5, <1>6 DEF TypeOK

LEMMA TryEffects ==
  ASSUME TypeOK, NEW j \in Actors, JobAt(j), Try(j) \/ TryTimesOut(j) \/ TryFails(j)
  PROVE  HostType' /\ Effects(j) /\ StoreKept
<1>1. job[j].id \in Shares /\ job[j].pc = "try"
  BY DEF Try, TryTimesOut, TryFails, JobAt
<1> DEFINE s == job[j].id
           n == Mounted(j, Head(job[j].rungs))
<1>2. n \in Row /\ n.target = job[j].snap[s].target
  BY <1>1, MountedFacts
<1>3. UNCHANGED <<storeVars, entry, vault, up, promised, off, excused>>
  BY DEF Try, TryTimesOut, TryFails, historyVars
<1>4. staged' \in [Shares -> Passwords] /\ \A x \in Shares : staged'[x] \in {staged[x], "none"}
  <2>1. Unstage(j) \/ UNCHANGED staged
    BY DEF Try, TryTimesOut, TryFails, NextRung
  <2> QED
    BY <1>1, <2>1, UnstageFacts
<1>5. os' = os \/ os' = [os EXCEPT ![s] = n]
  BY DEF Try, TryTimesOut, TryFails
<1>6. late' = late \/ late' = [late EXCEPT ![s] = n]
  BY DEF Try, TryTimesOut, TryFails
<1>7. refused' \in [Shares -> [hit : BOOLEAN, may : SUBSET Actors]]
  <2>1. refused' = refused \/ Strike(j)
    BY DEF Try, TryTimesOut, TryFails, historyVars
  <2> QED
    BY <1>1, <2>1, StrikeFacts DEF TypeOK
<1>8. asked' = asked /\ happened \subseteq happened' /\ happened' \subseteq Troubles
  <2>1. UNCHANGED boundVars \/ Trouble("late") \/ Trouble("helper")
    BY DEF Try, TryTimesOut, TryFails
  <2> QED
    BY <2>1, HappensFacts DEF boundVars, Trouble, Troubles, TypeOK
<1> HIDE DEF n
<1>a. os' \in [Shares -> Row \cup {None}] /\ late' \in [Shares -> Row \cup {None}]
  <2>1. os \in [Shares -> Row \cup {None}] /\ late \in [Shares -> Row \cup {None}]
    BY DEF TypeOK
  <2> QED
    BY <1>2, <1>5, <1>6, <2>1
<1>9. HostType'
  BY <1>3, <1>4, <1>a, <1>7, <1>8 DEF HostType, TypeOK
<1>10. Effects(j)
  BY <1>1, <1>2, <1>3, <1>4, <1>5, <1>6, <1>8 DEF Effects, TypeOK
<1>11. StoreKept
  BY <1>3, StoreUnchanged
<1> QED
  BY <1>9, <1>10, <1>11

LEMMA SaveEffects ==
  ASSUME TypeOK, NEW j \in Actors, JobAt(j), ClearVers(j) \/ Finalise(j) \/ Adopt(j)
  PROVE  HostType' /\ Effects(j) /\ StoreKept
<1>1. job[j].pc \in {"clear", "final", "adopt"}
  BY DEF ClearVers, Finalise, Adopt
<1>2. job[j].id \in Shares /\ job[j].snap[job[j].id] \in Row /\ job[j] \in Job
  BY <1>1, CloneFacts
<1> DEFINE s == job[j].id
<1>3. UNCHANGED <<used, entry, vault, os, late, up, historyVars>>
  BY DEF ClearVers, Finalise, Adopt
<1>4. staged' \in [Shares -> Passwords] /\ \A x \in Shares : staged'[x] \in {staged[x], "none"}
  <2>1. Unstage(j) \/ UNCHANGED staged
    BY DEF ClearVers, Finalise, Adopt
  <2> QED
    BY <1>2, <2>1, UnstageFacts
<1>5. \/ UNCHANGED <<rows, disk, boundVars>>
      \/ \E r \in [Shares -> Row \cup {None}] :
           /\ \A x \in Shares : TargetOf(r[x]) = TargetOf(rows[x])
           /\ Commit(r) \/ CommitFails(r)
  <2>0. rows \in [Shares -> Row \cup {None}] /\ os \in [Shares -> Row \cup {None}]
    BY DEF TypeOK
  <2>1. CASE ClearVers(j)
    <3>1. Commit(SetVers(s, "none")) \/ CommitFails(SetVers(s, "none"))
      BY <2>1 DEF ClearVers
    <3> QED
      BY <1>2, <3>1, SetVersFacts
  <2>2. CASE Finalise(j)
    <3> DEFINE d == Head(job[j].rungs)
    <3>1. d \in Dialects \cup {"none"}
      <4>1. job[j].rungs \in Seq(Dialects \cup {"none"}) /\ job[j].rungs # <<>>
        BY <1>2, <2>2 DEF Job, JobAt, Finalise
      <4> QED
        BY <4>1, HeadTailProperties
    <3>2. \/ Commit(SetVers(s, d)) \/ CommitFails(SetVers(s, d))
          \/ Commit(rows) \/ CommitFails(rows)
      BY <2>2 DEF Finalise
    <3> HIDE DEF d
    <3> QED
      BY <1>2, <2>0, <3>1, <3>2, SetVersFacts
  <2>3. CASE Adopt(j)
    <3> DEFINE live == os[s] # None /\ os[s].target.fs = "cifs"
               v == IF live THEN os[s].vers ELSE job[j].snap[s].vers
    <3>1. v \in Dialects \cup {"none"}
      BY <1>2, <2>0 DEF Row
    <3>2. \/ UNCHANGED <<rows, disk, boundVars>>
          \/ Commit(SetVers(s, v)) \/ CommitFails(SetVers(s, v))
          \/ Commit(rows) \/ CommitFails(rows)
      BY <2>3 DEF Adopt
    <3> HIDE DEF v
    <3> QED
      BY <1>2, <2>0, <3>1, <3>2, SetVersFacts
  <2> QED
    BY <2>1, <2>2, <2>3
<1>6. /\ StoreKept /\ asked' = asked /\ happened \subseteq happened'
      /\ happened' \subseteq Troubles
  <2>1. CASE UNCHANGED <<rows, disk, boundVars>>
    BY <1>3, <2>1, StoreUnchanged DEF TypeOK, boundVars, historyVars, storeVars
  <2>2. CASE \E r \in [Shares -> Row \cup {None}] :
               /\ \A x \in Shares : TargetOf(r[x]) = TargetOf(rows[x])
               /\ Commit(r) \/ CommitFails(r)
    BY <1>3, <2>2, SaveFacts DEF historyVars
  <2> QED
    BY <1>5, <2>1, <2>2
<1>7. HostType'
  BY <1>3, <1>4, <1>6 DEF HostType, TypeOK, historyVars
<1>8. Effects(j)
  BY <1>1, <1>3, <1>4, <1>6 DEF Effects, historyVars
<1> QED
  BY <1>6, <1>7, <1>8

LEMMA UmountEffects ==
  ASSUME TypeOK, NEW j \in Actors, JobAt(j), Umount(j) \/ UmountFails(j) \/ UmountCutOff(j)
  PROVE  HostType' /\ Effects(j) /\ StoreKept
<1>1. job[j].id \in Shares /\ job[j].pc = "umount"
  BY DEF Umount, UmountFails, UmountCutOff, JobAt
<1>2. UNCHANGED <<storeVars, entry, vault, staged, late, up, promised, off, refused>>
  BY DEF Umount, UmountFails, UmountCutOff, hostVars, historyVars
<1>3. /\ os' \in [Shares -> Row \cup {None}]
      /\ \A x \in Shares : os'[x] \in {os[x], None}
  <2>1. os' = os \/ os' = [os EXCEPT ![job[j].id] = None]
    BY DEF Umount, UmountFails, UmountCutOff, hostVars
  <2> QED
    BY <1>1, <2>1 DEF TypeOK
<1>4. /\ asked' = asked /\ happened \subseteq happened' /\ happened' \subseteq Troubles
  <2>1. UNCHANGED boundVars \/ Trouble("busy") \/ Trouble("late")
    BY DEF Umount, UmountFails, UmountCutOff
  <2> QED
    BY <2>1, HappensFacts DEF boundVars, Trouble, Troubles, TypeOK
<1>5. excused' = excused \/ excused' = excused \cup {<<"edit", job[j].id>>}
  BY DEF Umount, UmountFails, UmountCutOff, historyVars
<1>6. HostType'
  BY <1>1, <1>2, <1>3, <1>4, <1>5 DEF HostType, TypeOK
<1>7. Effects(j)
  BY <1>1, <1>2, <1>3, <1>4, <1>5 DEF Effects
<1>8. StoreKept
  BY <1>2, StoreUnchanged
<1> QED
  BY <1>6, <1>7, <1>8

\* The removal of a row, in memory at least.
Drops(j) ==
  LET s == job[j].id
      r == [rows EXCEPT ![s] = None]
  IN  /\ job[j].pc = "drop" /\ rows[s] # None /\ used' = used /\ rows' = r
      /\ \/ disk' = r /\ promised' = [promised EXCEPT ![s] = None]
         \/ disk' = disk /\ promised' = [promised EXCEPT ![s] = Open]
      /\ j \in disturbed => <<"remove", s>> \in excused'
      /\ os' = os /\ late' = late

LEMMA DropEffects ==
  ASSUME TypeOK, NEW j \in Actors, JobAt(j), Drop(j)
  PROVE  HostType' /\ Effects(j) /\ (StoreKept \/ Drops(j))
<1>1. job[j].id \in Shares /\ job[j].pc = "drop"
  BY DEF Drop, JobAt
<1>2. UNCHANGED <<used, entry, vault, hostVars, off, refused>>
  BY DEF Drop
<1>3. /\ asked' = asked /\ happened \subseteq happened' /\ happened' \subseteq Troubles
  <2>1. UNCHANGED boundVars \/ Trouble("diskfull")
    BY DEF Drop, Commit, CommitFails
  <2> QED
    BY <2>1, HappensFacts DEF boundVars, Trouble, Troubles, TypeOK
<1>4. excused' = excused \/ excused' = excused \cup {<<"remove", job[j].id>>}
  BY DEF Drop
<1>5. HostType'
  BY <1>1, <1>2, <1>3, <1>4 DEF HostType, TypeOK, hostVars
<1>6. Effects(j)
  BY <1>1, <1>2, <1>3, <1>4 DEF Effects, hostVars
<1>7. \/ UNCHANGED <<rows, disk, promised>>
      \/ /\ rows[job[j].id] # None /\ rows' = [rows EXCEPT ![job[j].id] = None]
         /\ \/ disk' = rows' /\ promised' = [promised EXCEPT ![job[j].id] = None]
            \/ disk' = disk /\ promised' = [promised EXCEPT ![job[j].id] = Open]
         /\ j \in disturbed => <<"remove", job[j].id>> \in excused'
  BY DEF Drop, Commit, CommitFails, Promise
<1>8. CASE UNCHANGED <<rows, disk, promised>>
  BY <1>2, <1>5, <1>6, <1>8, StoreUnchanged DEF storeVars
<1>9. CASE /\ rows[job[j].id] # None /\ rows' = [rows EXCEPT ![job[j].id] = None]
           /\ \/ disk' = rows' /\ promised' = [promised EXCEPT ![job[j].id] = None]
              \/ disk' = disk /\ promised' = [promised EXCEPT ![job[j].id] = Open]
           /\ j \in disturbed => <<"remove", job[j].id>> \in excused'
  <2>1. Drops(j)
    BY <1>1, <1>2, <1>9 DEF Drops, hostVars
  <2> QED
    BY <1>5, <1>6, <2>1
<1> QED
  BY <1>7, <1>8, <1>9

LEMMA JobEffects ==
  ASSUME TypeOK, NEW j \in Actors, JobAt(j),
         JobStep(j) \/ JobFault(j) \/ (j \in crew /\ StartPass(j))
  PROVE  HostType' /\ Effects(j) /\ (StoreKept \/ (Drop(j) /\ Drops(j)))
<1>1. CASE \/ StockFails(j) \/ MountBegins(j) \/ EnsureCredential(j) \/ ForgetFails(j)
           \/ Check(j) \/ StartPass(j) \/ AwaitL3(j) \/ Select(j)
           \/ \E s \in Shares : Reconcile(j, s) \/ NextShare(j, s)
  BY <1>1, PlainEffects
<1>2. CASE Seed(j) \/ SetMounting(j) \/ Record(j) \/ DropEntry(j) \/ Stamp(j)
  BY <1>2, EntryEffects
<1>3. CASE Stock(j) \/ Forget(j)
  BY <1>3, VaultEffects
<1>4. CASE Stage(j)
  BY <1>4, StageEffects
<1>5. CASE Try(j) \/ TryTimesOut(j) \/ TryFails(j)
  BY <1>5, TryEffects
<1>6. CASE ClearVers(j) \/ Finalise(j) \/ Adopt(j)
  BY <1>6, SaveEffects
<1>7. CASE Umount(j) \/ UmountFails(j) \/ UmountCutOff(j)
  BY <1>7, UmountEffects
<1>8. CASE Drop(j)
  BY <1>8, DropEffects
<1> QED
  BY <1>1, <1>2, <1>3, <1>4, <1>5, <1>6, <1>7, <1>8 DEF JobStep, JobFault

-------------------------------------------------------------------------------
(* Verbs and the world outside.                                            *)

\* A verb starts as the job of the next handler, on one share, or is over at
\* once; it touches neither mounts nor entries nor passwords.
Asks(h, s) ==
  /\ h \in Handlers /\ job[h].pc = "idle" /\ asked < MaxRequests
  /\ asked' = asked + 1 /\ h = HandlerNames[asked + 1]
  /\ \/ job'[h] = job[h]
     \/ /\ job'[h].id = s /\ job'[h].todo = {}
        /\ \/ /\ job'[h].pc = "seed" /\ job'[h].after = "done"
              /\ s \notin used /\ s \in used'
           \/ /\ rows[s] # None
              /\ \/ job'[h].pc = "begin" /\ job'[h].after = "done"
                 \/ /\ job'[h].pc = "umount"
                    /\ job'[h].after \in {"edit", "detach", "remove"}
  /\ UNCHANGED <<entry, vault, hostVars, refused>>
  /\ happened \subseteq happened' /\ off' \subseteq off
  /\ \A x \in Shares : <<"remove", x>> \in excused' <=> <<"remove", x>> \in excused
  /\ job'[h] # job[h] /\ s \in used => s \notin off'

\* What a verb does with the row of its share.
Writes(s) ==
  \/ UNCHANGED <<storeVars, promised>>
  \/ \E t \in Targets, n \in Row :
       /\ n.target = t
       /\ rows' = [rows EXCEPT ![s] = n]
       /\ \/ disk' = rows' /\ promised' = [promised EXCEPT ![s] = t]
          \/ disk' = disk /\ promised' = [promised EXCEPT ![s] = Open]
       /\ \/ s \notin used /\ used' = used \cup {s}
          \/ rows[s] # None /\ used' = used /\ s \notin off'

LEMMA SendsFacts ==
  ASSUME TypeOK, JobInv, NEW h, NEW v, Sends(h, v)
  PROVE  /\ h \in Handlers /\ h \in Actors /\ job[h].pc = "idle" /\ asked < MaxRequests
         /\ asked' = asked + 1 /\ h = HandlerNames[asked + 1] /\ asked' \in 0..MaxRequests
<1>1. asked \in 0..MaxRequests /\ MaxRequests \in Nat
  BY BoundsAssumption DEF TypeOK
<1>2. asked < MaxRequests /\ asked' = asked + 1 /\ h = HandlerNames[asked + 1]
  BY DEF Sends
<1>3. asked + 1 \in 1..MaxRequests /\ asked + 1 > asked
  BY <1>1, <1>2
<1>4. h \in Handlers
  BY <1>2, <1>3 DEF Handlers
<1>5. job[h].pc = "idle"
  BY <1>2, <1>3 DEF JobInv
<1> QED
  BY <1>1, <1>2, <1>3, <1>4, <1>5, ActorFacts

\* The job of a verb that was just sent.
LEMMA FreshJobAt ==
  ASSUME TypeOK, NEW h \in Handlers, NEW s \in Shares, crew' = crew, NEW b \in Job,
         job' = [job EXCEPT ![h] = b], b.id = s, b.todo = {},
         \/ b.pc = "seed" /\ b.after = "done"
         \/ b.pc = "begin" /\ b.after = "done"
         \/ b.pc = "umount" /\ b.after \in {"edit", "detach", "remove"}
  PROVE  job' \in [Actors -> Job] /\ Alone(h) /\ job'[h] = b /\ JobAt(h)'
<1>1. job' \in [Actors -> Job] /\ Alone(h) /\ job'[h] = b
  BY PutFacts, ActorFacts
<1>2. JobAt(h)'
  BY <1>1, ActorFacts DEF JobAt, PhasesOf
<1> QED
  BY <1>1, <1>2

\* What the steps of verbs have in common.
Started(h, s) ==
  /\ job' \in [Actors -> Job] /\ Alone(h) /\ JobAt(h)' /\ Asks(h, s) /\ Writes(s)
  /\ off' \subseteq Shares /\ excused' \subseteq {"remove", "edit"} \X Shares
  /\ happened' \subseteq Troubles

LEMMA AddSteps ==
  ASSUME TypeOK, JobInv, UsedInv, NEW h \in Actors, NEW s \in Shares, NEW t \in Targets,
         NEW pw \in Passwords, AddShare(h, s, t, pw), crew' = crew
  PROVE  Started(h, s)
<1> DEFINE n == [target |-> t, vers |-> "none"]
           b == [IdleJob EXCEPT !.pc = "seed", !.id = s, !.pw = pw]
<1>1. n \in Row /\ n.target = t
  BY DEF Row
<1>2. /\ s \notin used /\ used' = used \cup {s}
      /\ rows' = [rows EXCEPT ![s] = n]
      /\ UNCHANGED <<entry, vault, hostVars, off, excused, refused>>
      /\ Sends(h, "add")
      /\ \/ /\ UNCHANGED happened /\ disk' = rows' /\ promised' = [promised EXCEPT ![s] = t]
            /\ job' = [job EXCEPT ![h] = b]
         \/ /\ Happens("diskfull") /\ promised' = [promised EXCEPT ![s] = Open]
            /\ UNCHANGED <<disk, job>>
  BY DEF AddShare, Ask, Promise
<1>3. /\ h \in Handlers /\ job[h].pc = "idle" /\ asked < MaxRequests
      /\ asked' = asked + 1 /\ h = HandlerNames[asked + 1]
  BY <1>2, SendsFacts
<1>4. happened \subseteq happened' /\ happened' \subseteq Troubles
  BY <1>2, HappensFacts DEF TypeOK, Troubles
<1>5. b \in Job /\ b.pc = "seed" /\ b.id = s /\ b.todo = {} /\ b.after = "done"
  BY IdleJobFacts DEF Job, Phases
<1> HIDE DEF n, b
<1>6. /\ job' \in [Actors -> Job] /\ Alone(h) /\ JobAt(h)'
      /\ job'[h] = job[h] \/ job'[h] = b
  <2>1. CASE job' = [job EXCEPT ![h] = b]
    BY <1>3, <1>5, <2>1, FreshJobAt
  <2>2. CASE job' = job
    BY <2>2 DEF TypeOK, Alone, JobInv, JobAt
  <2> QED
    BY <1>2, <2>1, <2>2
<1>7. Asks(h, s)
  BY <1>2, <1>3, <1>4, <1>5, <1>6 DEF Asks
<1>8. Writes(s)
  BY <1>1, <1>2 DEF Writes
<1> QED
  BY <1>2, <1>4, <1>6, <1>7, <1>8 DEF Started, TypeOK

LEMMA EditSteps ==
  ASSUME TypeOK, JobInv, NEW h \in Actors, NEW s \in Shares, NEW t \in Targets,
         EditShare(h, s, t), crew' = crew
  PROVE  Started(h, s)
<1> DEFINE v == IF t.fs = rows[s].target.fs THEN rows[s].vers ELSE "none"
           n == [target |-> t, vers |-> v]
           b == [IdleJob EXCEPT !.pc = "umount", !.id = s, !.after = "edit"]
<1>0. rows[s] # None /\ rows[s] \in Row
  BY DEF EditShare, TypeOK
<1>1. n \in Row /\ n.target = t
  <2>1. v \in Dialects \cup {"none"}
    BY <1>0 DEF Row
  <2> HIDE DEF v
  <2> QED
    BY <2>1 DEF Row
<1>2. /\ rows' = [rows EXCEPT ![s] = n]
      /\ UNCHANGED <<used, entry, vault, hostVars, refused>> /\ off' = off \ {s}
      /\ ExcuseEdit(s)
      /\ Sends(h, "edit")
      /\ \/ /\ UNCHANGED happened /\ disk' = rows' /\ promised' = [promised EXCEPT ![s] = t]
            /\ UNCHANGED job \/ job' = [job EXCEPT ![h] = b]
         \/ /\ Happens("diskfull") /\ promised' = [promised EXCEPT ![s] = Open]
            /\ UNCHANGED <<disk, job>>
  BY DEF EditShare, Ask, Promise, Edited
<1>3. /\ h \in Handlers /\ job[h].pc = "idle" /\ asked < MaxRequests
      /\ asked' = asked + 1 /\ h = HandlerNames[asked + 1]
  BY <1>2, SendsFacts
<1>4. happened \subseteq happened' /\ happened' \subseteq Troubles
  BY <1>2, HappensFacts DEF TypeOK, Troubles
<1>5. b \in Job /\ b.pc = "umount" /\ b.id = s /\ b.todo = {} /\ b.after = "edit"
  BY IdleJobFacts DEF Job, Phases, Continuations
<1> HIDE DEF n, b
<1>6. /\ job' \in [Actors -> Job] /\ Alone(h) /\ JobAt(h)'
      /\ job'[h] = job[h] \/ job'[h] = b
  <2>1. CASE job' = [job EXCEPT ![h] = b]
    BY <1>3, <1>5, <2>1, FreshJobAt
  <2>2. CASE job' = job
    BY <2>2 DEF TypeOK, Alone, JobInv, JobAt
  <2> QED
    BY <1>2, <2>1, <2>2
<1>a. excused' = excused \ {<<"edit", s>>} \/ excused' = excused \cup {<<"edit", s>>}
  BY <1>2 DEF ExcuseEdit
<1>7. Asks(h, s)
  BY <1>0, <1>2, <1>3, <1>4, <1>5, <1>6, <1>a DEF Asks
<1>8. Writes(s)
  <2>1. s \notin off'
    BY <1>2
  <2> QED
    BY <1>0, <1>1, <1>2, <2>1 DEF Writes
<1> QED
  BY <1>2, <1>4, <1>6, <1>7, <1>8, <1>a DEF Started, TypeOK

LEMMA VerbSteps ==
  ASSUME TypeOK, JobInv, NEW h \in Actors, NEW s \in Shares,
         MountVerb(h, s) \/ UnmountVerb(h, s) \/ RemoveVerb(h, s), crew' = crew
  PROVE  Started(h, s)
<1>1. PICK p \in Phases, a \in Continuations, v \in Verbs :
        /\ Verb(h, s, v, p, a)
        /\ \/ p = "begin" /\ a = "done"
           \/ p = "umount" /\ a \in {"detach", "remove"}
  BY DEF MountVerb, UnmountVerb, RemoveVerb, Phases, Continuations, Verbs
<1> DEFINE b == [IdleJob EXCEPT !.pc = p, !.id = s, !.after = a]
<1>2. /\ UNCHANGED <<storeVars, entry, vault, hostVars, promised, excused, refused>>
      /\ off' = off \ {s} /\ Sends(h, v) /\ UNCHANGED happened /\ rows[s] # None
      /\ job' = [job EXCEPT ![h] = b]
  BY <1>1 DEF Verb, Ask
<1>3. /\ h \in Handlers /\ job[h].pc = "idle" /\ asked < MaxRequests
      /\ asked' = asked + 1 /\ h = HandlerNames[asked + 1]
  BY <1>2, SendsFacts
<1>5. b \in Job /\ b.pc = p /\ b.id = s /\ b.todo = {} /\ b.after = a
  BY IdleJobFacts DEF Job
<1> HIDE DEF b
<1>6. /\ job' \in [Actors -> Job] /\ Alone(h) /\ JobAt(h)' /\ job'[h] = b
  BY <1>1, <1>2, <1>3, <1>5, FreshJobAt
<1>7. Asks(h, s)
  BY <1>1, <1>2, <1>3, <1>5, <1>6 DEF Asks
<1>8. Writes(s)
  BY <1>2 DEF Writes
<1> QED
  BY <1>2, <1>6, <1>7, <1>8 DEF Started, TypeOK

LEMMA RequestSteps ==
  ASSUME TypeOK, JobInv, UsedInv, NEW h \in Handlers, NEW s \in Shares, Request(h, s),
         crew' = crew
  PROVE  Started(h, s)
<1>0. h \in Actors
  BY ActorFacts
<1>1. CASE \E t \in Targets, pw \in Passwords :
             (t.secret \/ pw = "none") /\ AddShare(h, s, t, pw)
  BY <1>0, <1>1, AddSteps
<1>2. CASE \E t \in Targets : EditShare(h, s, t)
  BY <1>0, <1>2, EditSteps
<1>3. CASE MountVerb(h, s) \/ UnmountVerb(h, s) \/ RemoveVerb(h, s)
  BY <1>0, <1>3, VerbSteps
<1> QED
  BY <1>1, <1>2, <1>3 DEF Request

\* The world does nothing to the jobs and the rows.
Outside ==
  /\ UNCHANGED <<storeVars, entry, job, historyVars, asked>>
  /\ happened \subseteq happened' /\ happened' \subseteq Troubles
  /\ \A s \in Shares :
       /\ os'[s] \in {os[s], None} \/ (late[s] # None /\ os'[s] = late[s])
       /\ late'[s] \in {late[s], None}
       /\ staged'[s] = "none" <=> staged[s] = "none"
       /\ vault'[s] = "none" <=> vault[s] = "none"

LEMMA WorldSteps ==
  ASSUME TypeOK,
         \/ ServerFlips \/ ServerReturns
         \/ \E s \in Shares : MountVanishes(s) \/ PasswordRotates(s) \/ LateMount(s)
  PROVE  Outside /\ HostType'
<1>1. /\ os \in [Shares -> Row \cup {None}] /\ late \in [Shares -> Row \cup {None}]
      /\ vault \in [Shares -> Passwords] /\ staged \in [Shares -> Passwords]
      /\ up \in BOOLEAN
  BY DEF TypeOK
<1>2. UNCHANGED <<storeVars, entry, job, historyVars, asked>>
  BY DEF ServerFlips, ServerReturns, MountVanishes, PasswordRotates, LateMount, Trouble,
         boundVars
<1>3. happened \subseteq happened' /\ happened' \subseteq Troubles
  <2>1. \/ UNCHANGED happened
        \/ \E e \in Troubles : Happens(e)
    BY DEF ServerFlips, ServerReturns, MountVanishes, PasswordRotates, LateMount, Trouble,
           boundVars, Troubles
  <2> QED
    BY <2>1, HappensFacts DEF TypeOK
<1>4. /\ os' \in [Shares -> Row \cup {None}] /\ late' \in [Shares -> Row \cup {None}]
      /\ \A x \in Shares :
           /\ os'[x] \in {os[x], None} \/ (late[x] # None /\ os'[x] = late[x])
           /\ late'[x] \in {late[x], None}
  BY <1>1 DEF ServerFlips, ServerReturns, MountVanishes, PasswordRotates, LateMount
<1>5. /\ vault' \in [Shares -> Passwords] /\ staged' \in [Shares -> Passwords]
      /\ \A x \in Shares : /\ staged'[x] = "none" <=> staged[x] = "none"
                           /\ vault'[x] = "none" <=> vault[x] = "none"
  <2>1. CASE \E s \in Shares : PasswordRotates(s)
    BY <1>1, <2>1 DEF PasswordRotates, Passwords
  <2>2. CASE UNCHANGED <<vault, staged>>
    BY <1>1, <2>2
  <2> QED
    BY <2>1, <2>2 DEF ServerFlips, ServerReturns, MountVanishes, PasswordRotates, LateMount
<1>6. up' \in BOOLEAN
  BY <1>1 DEF ServerFlips, ServerReturns, MountVanishes, PasswordRotates, LateMount
<1>7. HostType'
  BY <1>2, <1>3, <1>4, <1>5, <1>6 DEF HostType, TypeOK, historyVars
<1> QED
  BY <1>2, <1>3, <1>4, <1>5, <1>7 DEF Outside

\* What load makes of the file and the mounts.
LEMMA LoadedFacts ==
  ASSUME NEW r \in [Shares -> Row \cup {None}], os \in [Shares -> Row \cup {None}]
  PROVE  /\ Loaded(r) \in [Shares -> Row \cup {None}]
         /\ \A s \in Shares : TargetOf(Loaded(r)[s]) = TargetOf(r[s])
         /\ LoadedEntries(r) \in [Shares -> Entry \cup {None}]
         /\ LoadedJobs \in [Actors -> Job]
         /\ \A j \in Actors : /\ LoadedJobs[j].pc \in {"idle", "l3"}
                              /\ LoadedJobs[j].after = "done" /\ LoadedJobs[j].todo = {}
                              /\ LoadedJobs[j].id = None
                              /\ LoadedJobs[j].pc = "l3" => j = "boot" /\ j \in crew
<1>1. ASSUME NEW s \in Shares
      PROVE  Loaded(r)[s] \in Row \cup {None} /\ TargetOf(Loaded(r)[s]) = TargetOf(r[s])
  <2> DEFINE n == [r[s] EXCEPT !.vers = os[s].vers]
  <2>1. CASE r[s] # None /\ os[s] # None
    <3>1. r[s] \in Row /\ os[s] \in Row
      BY <2>1
    <3>2. n \in Row /\ n.target = r[s].target
      BY <3>1 DEF Row
    <3>3. Loaded(r)[s] \in {n, r[s]}
      BY DEF Loaded
    <3> HIDE DEF n
    <3> QED
      BY <3>1, <3>2, <3>3, NoneFacts DEF TargetOf
  <2>2. CASE ~(r[s] # None /\ os[s] # None)
    <3>1. Loaded(r)[s] = r[s]
      BY <2>2 DEF Loaded
    <3> QED
      BY <3>1
  <2> QED
    BY <2>1, <2>2
<1>2. Loaded(r) \in [Shares -> Row \cup {None}]
  <2>1. Loaded(r) = [s \in Shares |-> Loaded(r)[s]]
    BY DEF Loaded
  <2> QED
    BY <1>1, <2>1
<1>3. LoadedEntries(r) \in [Shares -> Entry \cup {None}]
  <2>1. Seeded \in Entry /\ [Seeded EXCEPT !.state = "mounted"] \in Entry
    BY DEF Seeded, Entry, States, Classes
  <2> QED
    BY <2>1 DEF LoadedEntries
<1> DEFINE b == [IdleJob EXCEPT !.pc = "l3"]
<1>4. b \in Job /\ b.pc = "l3" /\ b.after = "done" /\ b.todo = {} /\ b.id = None
  BY IdleJobFacts DEF Job, Phases
<1>5. LoadedJobs = [j \in Actors |-> IF j = "boot" /\ j \in crew THEN b ELSE IdleJob]
  BY DEF LoadedJobs
<1> HIDE DEF b
<1>6. LoadedJobs \in [Actors -> Job]
  BY <1>4, <1>5, IdleJobFacts
<1>7. \A j \in Actors : /\ LoadedJobs[j].pc \in {"idle", "l3"}
                        /\ LoadedJobs[j].after = "done" /\ LoadedJobs[j].todo = {}
                        /\ LoadedJobs[j].id = None
                        /\ LoadedJobs[j].pc = "l3" => j = "boot" /\ j \in crew
  BY <1>4, <1>5, IdleJobFacts
<1> QED
  BY <1>1, <1>2, <1>3, <1>6, <1>7

\* After a restart nobody works but the boot sweep, and every row has the
\* target of the file.
Reloads ==
  /\ rows' \in [Shares -> Row \cup {None}] /\ disk' = rows'
  /\ \A s \in Shares : TargetOf(rows'[s]) = TargetOf(disk[s])
  /\ job' \in [Actors -> Job]
  /\ \A j \in Actors : /\ job'[j].pc \in {"idle", "l3"} /\ job'[j].after = "done"
                       /\ job'[j].todo = {} /\ job'[j].id = None
                       /\ job'[j].pc = "l3" => j = "boot" /\ j \in crew
  /\ off' = {}
  /\ excused \subseteq excused'
  /\ \A s \in Shares : /\ <<"remove", s>> \in excused' => <<"remove", s>> \in excused
                       /\ Cycling(s) => <<"edit", s>> \in excused'
  /\ \A s \in Shares : ~refused'[s].hit
  /\ UNCHANGED <<used, vault, hostVars, promised, asked>>

LEMMA RestartSteps ==
  ASSUME TypeOK, JobInv, Restart
  PROVE  Reloads /\ HostType'
<1>1. /\ disk \in [Shares -> Row \cup {None}] /\ os \in [Shares -> Row \cup {None}]
  BY DEF TypeOK
<1>2. /\ rows' = Loaded(disk) /\ disk' = rows' /\ entry' = LoadedEntries(disk)
      /\ job' = LoadedJobs /\ off' = {} /\ UNCHANGED <<used, vault, hostVars, promised>>
      /\ Trouble("restart")
      /\ refused' = [s \in Shares |-> [hit |-> FALSE, may |-> {}]]
  BY DEF Restart
<1>3. /\ rows' \in [Shares -> Row \cup {None}]
      /\ \A s \in Shares : TargetOf(rows'[s]) = TargetOf(disk[s])
      /\ entry' \in [Shares -> Entry \cup {None}]
      /\ job' \in [Actors -> Job]
      /\ \A j \in Actors : /\ job'[j].pc \in {"idle", "l3"} /\ job'[j].after = "done"
                           /\ job'[j].todo = {} /\ job'[j].id = None
                           /\ job'[j].pc = "l3" => j = "boot" /\ j \in crew
  BY <1>1, <1>2, LoadedFacts
<1> DEFINE E == {job[h].id : h \in {k \in Handlers : job[k].after = "edit"}}
<1>4. excused' = excused \cup {<<"edit", s>> : s \in E}
  BY DEF Restart
<1>5. E \subseteq Shares
  BY ActorFacts DEF JobInv, JobAt, PhasesOf
<1>6. \A s \in Shares : Cycling(s) => s \in E
  BY DEF Cycling
<1> HIDE DEF E
<1>7. /\ excused \subseteq excused' /\ excused' \subseteq {"remove", "edit"} \X Shares
      /\ \A s \in Shares : /\ <<"remove", s>> \in excused' => <<"remove", s>> \in excused
                           /\ Cycling(s) => <<"edit", s>> \in excused'
  BY <1>4, <1>5, <1>6 DEF TypeOK
<1>8. \A s \in Shares : ~refused'[s].hit
  BY <1>2
<1>9. refused' \in [Shares -> [hit : BOOLEAN, may : SUBSET Actors]]
  BY <1>2
<1>10. asked' = asked /\ happened' \subseteq Troubles
  BY <1>2, HappensFacts DEF Trouble, Troubles
<1>11. Reloads
  BY <1>2, <1>3, <1>7, <1>8, <1>10 DEF Reloads
<1>12. HostType'
  BY <1>2, <1>3, <1>7, <1>9, <1>10 DEF HostType, TypeOK, hostVars
<1> QED
  BY <1>11, <1>12

-------------------------------------------------------------------------------
(* Every step is a request, the step of a job, the world or a restart.     *)

Works(j) == JobStep(j) \/ JobFault(j) \/ (j \in crew /\ StartPass(j))

JobWorks(j) ==
  Works(j) /\ Steps(j) /\ Effects(j) /\ (StoreKept \/ (Drop(j) /\ Drops(j)))

LEMMA StepCases ==
  ASSUME TypeOK, JobInv, UsedInv, Next
  PROVE  /\ Aside
         /\ \/ \E h \in Handlers, s \in Shares : Request(h, s) /\ Started(h, s)
            \/ \E j \in Actors : JobWorks(j) /\ HostType'
            \/ Outside /\ HostType'
            \/ Reloads /\ Restart /\ HostType'
<1>0. Aside /\ crew' = crew
  BY DEF Next, Aside
<1>1. CASE \E h \in Handlers, s \in Shares : Request(h, s)
  BY <1>0, <1>1, RequestSteps
<1>2. ASSUME NEW j \in Actors, Works(j)
      PROVE  JobWorks(j) /\ HostType'
  <2>1. JobAt(j)
    BY DEF JobInv
  <2>2. Steps(j)
    BY <1>0, <1>2, <2>1, JobSteps DEF Works
  <2>3. HostType' /\ Effects(j) /\ (StoreKept \/ (Drop(j) /\ Drops(j)))
    BY <1>2, <2>1, JobEffects DEF Works
  <2> QED
    BY <1>2, <2>2, <2>3 DEF JobWorks
<1>3. crew \subseteq Actors
  BY DEF TypeOK, Actors
<1>4. CASE World
  <2>1. CASE Restart
    BY <1>0, <2>1, RestartSteps
  <2>2. CASE \/ ServerFlips \/ ServerReturns
             \/ \E s \in Shares : MountVanishes(s) \/ PasswordRotates(s) \/ LateMount(s)
    BY <1>0, <2>2, WorldSteps
  <2> QED
    BY <1>4, <2>1, <2>2 DEF World
<1> QED
  BY <1>0, <1>1, <1>2, <1>3, <1>4 DEF Next, Works

\* Jobs that did not move are where they were.
LEMMA OthersAt ==
  ASSUME JobInv, NEW j, Alone(j), crew' = crew, NEW k \in Actors \ {j}
  PROVE  JobAt(k)'
BY DEF JobInv, JobAt, Alone

LEMMA TypeInduction ==
  ASSUME TypeOK, JobInv, UsedInv, Next
  PROVE  TypeOK' /\ JobInv'
<1>0. /\ crew' = crew /\ crew \in Crews /\ disturbed' \subseteq Handlers
      /\ MaxRequests \in Nat /\ MaxRequests <= Len(HandlerNames) /\ asked \in 0..MaxRequests
      /\ Len(HandlerNames) \in Nat
  BY StepCases, BoundsAssumption DEF Aside, Disturbed, TypeOK
<1>1. ASSUME NEW h \in Handlers, NEW s \in Shares, Started(h, s)
      PROVE  TypeOK' /\ JobInv'
  <2>1. /\ job' \in [Actors -> Job] /\ Alone(h) /\ JobAt(h)' /\ Asks(h, s) /\ Writes(s)
        /\ off' \subseteq Shares /\ excused' \subseteq {"remove", "edit"} \X Shares
        /\ happened' \subseteq Troubles
    BY <1>1 DEF Started
  <2>2. /\ UNCHANGED <<entry, vault, os, staged, late, up, refused>>
        /\ asked < MaxRequests /\ asked' = asked + 1 /\ h = HandlerNames[asked + 1]
    BY <2>1 DEF Asks, hostVars
  <2>3. asked' \in 0..MaxRequests
    BY <1>0, <2>2
  <2>4. /\ rows' \in [Shares -> Row \cup {None}] /\ disk' \in [Shares -> Row \cup {None}]
        /\ used' \subseteq Shares /\ promised' \in [Shares -> Targets \cup {Open, None}]
    <3>1. /\ rows \in [Shares -> Row \cup {None}] /\ disk \in [Shares -> Row \cup {None}]
          /\ used \subseteq Shares /\ promised \in [Shares -> Targets \cup {Open, None}]
      BY DEF TypeOK
    <3> QED
      BY <2>1, <3>1 DEF Writes, storeVars
  <2>5. TypeOK'
    BY <1>0, <2>1, <2>2, <2>3, <2>4 DEF TypeOK
  <2>6. \A k \in Actors : JobAt(k)'
    BY <1>0, <2>1, OthersAt
  <2>7. ASSUME NEW i \in 1..MaxRequests, i > asked'
        PROVE  job'[HandlerNames[i]].pc = "idle"
    <3>1. i # asked + 1 /\ i > asked /\ i \in 1..Len(HandlerNames)
          /\ asked + 1 \in 1..Len(HandlerNames)
      BY <1>0, <2>2, <2>7
    <3>2. HandlerNames[i] # h
      BY <2>2, <3>1, BoundsAssumption
    <3>3. HandlerNames[i] \in Actors
      BY ActorFacts DEF Handlers
    <3> QED
      BY <2>1, <3>1, <3>2, <3>3 DEF Alone, JobInv
  <2> QED
    BY <2>5, <2>6, <2>7 DEF JobInv
<1>2. ASSUME NEW j \in Actors, JobWorks(j), HostType'
      PROVE  TypeOK' /\ JobInv'
  <2>1. /\ job' \in [Actors -> Job] /\ Alone(j) /\ JobAt(j)' /\ Goes(j) /\ asked' = asked
        /\ StoreKept \/ Drops(j)
    BY <1>2 DEF JobWorks, Steps, Effects
  <2>2. JobAt(j)
    BY DEF JobInv
  <2>3. /\ rows' \in [Shares -> Row \cup {None}] /\ disk' \in [Shares -> Row \cup {None}]
        /\ used' \subseteq Shares /\ promised' \in [Shares -> Targets \cup {Open, None}]
    <3>1. CASE StoreKept
      BY <3>1 DEF StoreKept, TypeOK
    <3>2. CASE Drops(j)
      BY <2>2, <3>2 DEF Drops, TypeOK
    <3> QED
      BY <2>1, <3>1, <3>2
  <2>4. TypeOK'
    BY <1>0, <1>2, <2>1, <2>3 DEF TypeOK, HostType
  <2>5. \A k \in Actors : JobAt(k)'
    BY <1>0, <2>1, OthersAt
  <2>6. ASSUME NEW i \in 1..MaxRequests, i > asked'
        PROVE  job'[HandlerNames[i]].pc = "idle"
    <3>1. HandlerNames[i] \in Handlers /\ HandlerNames[i] \in Actors
      BY ActorFacts DEF Handlers
    <3>2. job[HandlerNames[i]].pc = "idle"
      BY <2>1, <2>6 DEF JobInv
    <3> QED
      BY <2>1, <3>1, <3>2 DEF Alone, Goes
  <2> QED
    BY <2>4, <2>5, <2>6 DEF JobInv
<1>3. ASSUME Outside, HostType'
      PROVE  TypeOK' /\ JobInv'
  <2>1. TypeOK'
    BY <1>0, <1>3 DEF Outside, HostType, TypeOK, storeVars, historyVars
  <2>2. JobInv'
    BY <1>0, <1>3 DEF Outside, JobInv, JobAt
  <2> QED
    BY <2>1, <2>2
<1>4. ASSUME Reloads, HostType'
      PROVE  TypeOK' /\ JobInv'
  <2>1. TypeOK'
    BY <1>0, <1>4 DEF Reloads, HostType, TypeOK, hostVars
  <2>2. \A k \in Actors : JobAt(k)'
    BY <1>0, <1>4, CrewsAssumption DEF Reloads, JobAt, PhasesOf, Tasks
  <2>3. ASSUME NEW i \in 1..MaxRequests
        PROVE  job'[HandlerNames[i]].pc = "idle"
    <3>1. HandlerNames[i] \in Handlers /\ HandlerNames[i] \in Actors
      BY ActorFacts DEF Handlers
    <3>2. HandlerNames[i] # "boot"
      BY <3>1, ActorFacts DEF Tasks
    <3> QED
      BY <1>4, <3>1, <3>2 DEF Reloads
  <2> QED
    BY <2>1, <2>2, <2>3 DEF JobInv
<1> QED
  BY <1>1, <1>2, <1>3, <1>4, StepCases

-------------------------------------------------------------------------------
(* Refused passwords.                                                      *)

LEMMA RefusedMeans ==
  ASSUME NEW j, NEW d, HelperSays(j, d) = "refused"
  PROVE  Cifs(j) /\ Secret(j) /\ staged[job[j].id] = "bad" /\ os[job[j].id] = None
BY DEF HelperSays

\* Only staging and trying a password touch the record of refusals.
Refuses(j) ==
  LET b == job[j]
      c == job'[j]
      s == b.id
  IN  /\ \A x \in Shares : x # s => refused'[x] = refused[x]
      /\ b.pc \notin {"stage", "try"} => refused' = refused
      /\ b.pc = "stage" =>
           /\ refused'[s].hit = refused[s].hit /\ refused[s].may \subseteq refused'[s].may
           /\ Pending(s) => j \in refused'[s].may
           /\ c.pc \in {"try", "clear"} /\ Cifs(j) /\ Secret(j) => vault[s] # "none"
      /\ b.pc = "try" =>
           \/ refused' = refused
           \/ /\ staged[s] = "bad" /\ c.pc = "forget" /\ c.id = s /\ refused'[s].hit
              /\ ~refused[s].hit =>
                   \A k \in Actors \ {j} : job[k].id = s /\ job[k].pc \in {"try", "clear"}
                                           => k \in refused'[s].may
              /\ refused[s].hit =>
                   \A k \in Actors \ {j} : k \in refused[s].may => k \in refused'[s].may

LEMMA RefusedEffects ==
  ASSUME TypeOK, NEW j \in Actors, JobAt(j), Works(j), Steps(j)
  PROVE  Refuses(j)
<1> DEFINE s == job[j].id
<1>1. CASE Stage(j)
  <2>1. job[j].pc = "stage" /\ s \in Shares
    BY <1>1 DEF Stage, JobAt
  <2>2. refused \in [Shares -> [hit : BOOLEAN, may : SUBSET Actors]]
    BY DEF TypeOK
  <2> DEFINE m == refused[s].may \cup {j}
             n == [refused[s] EXCEPT !.may = m]
  <2>3. n.hit = refused[s].hit /\ n.may = m
    BY <2>1, <2>2
  <2>4. /\ Pending(s) => refused' = [refused EXCEPT ![s] = n]
        /\ ~Pending(s) => refused' = refused
    BY <1>1 DEF Stage
  <2>5. refused[s].may \subseteq m /\ j \in m
    OBVIOUS
  <2> HIDE DEF n, m
  <2>6. /\ refused'[s].hit = refused[s].hit /\ refused[s].may \subseteq refused'[s].may
        /\ Pending(s) => j \in refused'[s].may
        /\ \A x \in Shares : x # s => refused'[x] = refused[x]
    BY <2>1, <2>2, <2>3, <2>4, <2>5
  <2>7. job'[j].pc \in {"try", "clear"} /\ Cifs(j) /\ Secret(j) => vault[s] # "none"
    <3> SUFFICES ASSUME Cifs(j), Secret(j), vault[s] = "none" PROVE job'[j].pc = "record"
      OBVIOUS
    <3>1. Outcome(j, "failed", "permanent")
      BY <1>1 DEF Stage
    <3> QED
      BY <3>1, OutcomeFacts DEF States, Classes
  <2> QED
    BY <2>1, <2>6, <2>7 DEF Refuses
<1>2. CASE Try(j)
  <2>1. job[j].pc = "try" /\ s \in Shares
    BY <1>2 DEF Try, JobAt
  <2>2. CASE HelperSays(j, Head(job[j].rungs)) = "refused"
    <3>1. Strike(j) /\ Goto(j, "forget")
      BY <1>2, <2>2 DEF Try
    <3>2. staged[s] = "bad"
      BY <2>2, RefusedMeans
    <3>3. job'[j].pc = "forget" /\ job'[j].id = s
      BY <3>1, GotoFacts DEF Phases
    <3> QED
      BY <2>1, <3>1, <3>2, <3>3, StrikeFacts DEF Refuses
  <2>3. CASE HelperSays(j, Head(job[j].rungs)) # "refused"
    <3>1. refused' = refused
      BY <1>2, <2>3 DEF Try
    <3> QED
      BY <2>1, <3>1 DEF Refuses
  <2> QED
    BY <2>2, <2>3
<1>3. CASE ~Stage(j) /\ ~Try(j)
  <2>1. refused' = refused
    BY <1>3 DEF Works, JobStep, JobFault, Seed, Stock, MountBegins, EnsureCredential,
       SetMounting, ClearVers, Finalise, Adopt, Forget, Record, Umount, Stamp, Check, Drop,
       DropEntry, AwaitL3, Select, Reconcile, NextShare, StockFails, TryTimesOut, TryFails,
       ForgetFails, UmountFails, UmountCutOff, StartPass, historyVars
  <2>2. job[j].pc # "stage"
    BY <1>3 DEF Works, JobStep, JobFault, Seed, Stock, MountBegins, EnsureCredential,
       SetMounting, ClearVers, Finalise, Adopt, Forget, Record, Umount, Stamp, Check, Drop,
       DropEntry, AwaitL3, Select, Reconcile, NextShare, StockFails, TryTimesOut, TryFails,
       ForgetFails, UmountFails, UmountCutOff, StartPass
  <2> QED
    BY <2>1, <2>2 DEF Refuses
<1> QED
  BY <1>1, <1>2, <1>3

-------------------------------------------------------------------------------
(* The invariants, one by one.                                             *)

LEMMA RowFacts ==
  ASSUME NEW r \in Row \cup {None}
  PROVE  /\ TargetOf(r) = None <=> r = None
         /\ r # None => TargetOf(r) = r.target /\ r.target \in Targets
BY NoneFacts DEF TargetOf, Row

LEMMA UsedInduction ==
  ASSUME TypeOK, JobInv, UsedInv, Next
  PROVE  UsedInv'
<1>0. TypeOK' /\ JobInv'
  BY TypeInduction
<1>t. /\ rows \in [Shares -> Row \cup {None}] /\ disk \in [Shares -> Row \cup {None}]
      /\ rows' \in [Shares -> Row \cup {None}] /\ disk' \in [Shares -> Row \cup {None}]
      /\ promised \in [Shares -> Targets \cup {Open, None}]
  BY <1>0 DEF TypeOK
<1>1. ASSUME NEW h \in Handlers, NEW s \in Shares, Started(h, s)
      PROVE  UsedInv'
  <2>1. Alone(h) /\ Asks(h, s) /\ Writes(s)
    BY <1>1 DEF Started
  <2>2. rows[s] # None => s \in used
    BY DEF UsedInv, Untouched
  <2>3. ASSUME NEW x \in Shares \ used' PROVE Untouched(x)'
    <3>1. x \notin used /\ rows'[x] = rows[x] /\ disk'[x] \in {disk[x], rows[x]}
          /\ promised'[x] = promised[x]
      BY <1>t, <2>1, <2>2, <2>3 DEF Writes, storeVars
    <3>2. Untouched(x)
      BY <3>1 DEF UsedInv
    <3> QED
      BY <2>1, <3>1, <3>2 DEF Untouched, Asks, hostVars
  <2>4. ASSUME NEW k \in Handlers, job'[k].pc # "idle" PROVE job'[k].id \in used'
    <3>1. used \subseteq used'
      BY <2>1 DEF Writes, storeVars
    <3>2. CASE k # h
      BY <2>1, <2>4, <3>1, <3>2, ActorFacts DEF Alone, UsedInv
    <3>3. CASE k = h
      BY <2>1, <2>2, <2>4, <3>1, <3>3 DEF Asks
    <3> QED
      BY <3>2, <3>3
  <2> QED
    BY <2>3, <2>4 DEF UsedInv
<1>2. ASSUME NEW j \in Actors, JobWorks(j)
      PROVE  UsedInv'
  <2>1. Alone(j) /\ Goes(j) /\ Effects(j) /\ (StoreKept \/ Drops(j))
    BY <1>2 DEF JobWorks, Steps
  <2>2. Refuses(j)
    BY <1>2, RefusedEffects DEF JobWorks, JobInv
  <2>3. JobAt(j) /\ job[j] \in Job
    BY DEF JobInv, TypeOK
  <2>4. used' = used
    BY <2>1 DEF StoreKept, Drops
  <2>5. job[j].pc \in {"seed", "stock", "stamp", "drop"} => job[j].id \in used
    BY <2>3 DEF JobAt, PhasesOf, UsedInv, Job, Continuations
  <2>6. ASSUME NEW x \in Shares \ used' PROVE Untouched(x)'
    <3>1. Untouched(x)
      BY <2>4, <2>6 DEF UsedInv
    <3>2. rows'[x] = None /\ disk'[x] = None /\ promised'[x] = None
      <4>1. CASE StoreKept
        <5>1. TargetOf(rows'[x]) = None /\ TargetOf(disk'[x]) = None /\ promised'[x] = None
          BY <3>1, <4>1, <1>t, RowFacts DEF StoreKept, Untouched
        <5> QED
          BY <5>1, <1>t, RowFacts
      <4>2. CASE Drops(j)
        <5>1. x # job[j].id
          BY <2>4, <2>5, <2>6, <4>2 DEF Drops
        <5> QED
          BY <1>t, <3>1, <4>2, <5>1 DEF Drops, Untouched
      <4> QED
        BY <2>1, <4>1, <4>2
    <3>3. <<"remove", x>> \notin excused' /\ x \notin off' /\ vault'[x] = "none"
      BY <2>1, <2>4, <2>5, <2>6, <3>1 DEF Effects, Untouched
    <3>4. staged'[x] = "none"
      BY <2>1, <3>1 DEF Effects, Untouched
    <3>5. ~refused'[x].hit
      BY <2>2, <3>1 DEF Refuses, Untouched
    <3> QED
      BY <3>2, <3>3, <3>4, <3>5 DEF Untouched
  <2>7. ASSUME NEW k \in Handlers, job'[k].pc # "idle" PROVE job'[k].id \in used'
    BY <2>1, <2>4, <2>7, ActorFacts DEF Alone, Goes, UsedInv
  <2> QED
    BY <2>6, <2>7 DEF UsedInv
<1>3. ASSUME Outside
      PROVE  UsedInv'
  BY <1>3 DEF Outside, UsedInv, Untouched, storeVars, historyVars
<1>4. ASSUME Reloads
      PROVE  UsedInv'
  <2>1. ASSUME NEW x \in Shares \ used' PROVE Untouched(x)'
    <3>1. Untouched(x)
      BY <1>4, <2>1 DEF Reloads, UsedInv
    <3>2. TargetOf(rows'[x]) = None
      BY <1>4, <3>1 DEF Reloads, Untouched, TargetOf
    <3>3. rows'[x] = None /\ disk'[x] = None
      BY <1>4, <1>t, <3>2, RowFacts DEF Reloads
    <3> QED
      BY <1>4, <3>1, <3>3 DEF Reloads, Untouched, hostVars
  <2>2. \A k \in Handlers : job'[k].pc = "idle"
    BY <1>4, ActorFacts DEF Reloads, Tasks
  <2> QED
    BY <2>1, <2>2 DEF UsedInv
<1> QED
  BY <1>1, <1>2, <1>3, <1>4, StepCases

LEMMA UndisturbedInduction ==
  ASSUME Next
  PROVE  Undisturbed'
<1>1. disturbed' = Disturbed
  BY DEF Next, Aside
<1> SUFFICES ASSUME NEW h \in Handlers, h \notin disturbed', job'[h].pc # "idle"
             PROVE  /\ late'[job'[h].id] = None
                    /\ \A k \in Actors \ {h} : ~WorksOn(k, job[h].id)'
  BY DEF Undisturbed
<1>2. /\ late'[job'[h].id] = None
      /\ \A k \in Actors \ {h} : ~(job'[k].pc # "idle" /\ job'[k].id = job'[h].id)
  BY <1>1 DEF Disturbed
<1> QED
  BY <1>2 DEF WorksOn

\* A verb that is undisturbed after a step was so before it.
LEMMA WasUndisturbed ==
  ASSUME Next, NEW h \in Handlers, h \notin disturbed', job'[h].pc # "idle"
  PROVE  h \notin disturbed
BY DEF Next, Aside, Disturbed

\* AnswersAreKept, for short.
Kept(s) == promised[s] # Open =>
             TargetOf(rows[s]) = promised[s] /\ TargetOf(disk[s]) = promised[s]

LEMMA KeptIsAnswers ==
  ASSUME TypeOK
  PROVE  AnswersAreKept <=> \A s \in Shares : Kept(s)
<1>1. ASSUME NEW s \in Shares
      PROVE  Kept(s) <=>
               /\ promised[s] \in Targets =>
                    /\ rows[s] # None /\ rows[s].target = promised[s]
                    /\ disk[s] # None /\ disk[s].target = promised[s]
               /\ promised[s] = None => rows[s] = None /\ disk[s] = None
  <2>1. /\ rows[s] \in Row \cup {None} /\ disk[s] \in Row \cup {None}
        /\ promised[s] \in Targets \cup {Open, None}
    BY DEF TypeOK
  <2> QED
    BY <2>1, RowFacts, NoneFacts DEF Kept
<1> QED
  BY <1>1 DEF AnswersAreKept

LEMMA AnswersInduction ==
  ASSUME TypeOK, JobInv, UsedInv, AnswersAreKept, Next
  PROVE  AnswersAreKept'
<1>0. TypeOK'
  BY TypeInduction
<1>t. /\ rows \in [Shares -> Row \cup {None}] /\ disk \in [Shares -> Row \cup {None}]
      /\ promised \in [Shares -> Targets \cup {Open, None}]
  BY DEF TypeOK
<1>k. \A s \in Shares : Kept(s)
  BY KeptIsAnswers
<1> SUFFICES ASSUME NEW x \in Shares PROVE Kept(x)'
  <2>1. ASSUME NEW s \in Shares, Kept(s)'
        PROVE  /\ promised'[s] \in Targets =>
                    /\ rows'[s] # None /\ rows'[s].target = promised'[s]
                    /\ disk'[s] # None /\ disk'[s].target = promised'[s]
               /\ promised'[s] = None => rows'[s] = None /\ disk'[s] = None
    <3>1. /\ rows'[s] \in Row \cup {None} /\ disk'[s] \in Row \cup {None}
          /\ promised'[s] \in Targets \cup {Open, None}
      BY <1>0 DEF TypeOK
    <3> QED
      BY <2>1, <3>1, RowFacts, NoneFacts DEF Kept
  <2> QED
    BY <2>1 DEF AnswersAreKept
<1>1. ASSUME NEW h \in Handlers, NEW s \in Shares, Started(h, s)
      PROVE  Kept(x)'
  <2>1. Writes(s)
    BY <1>1 DEF Started
  <2>2. CASE UNCHANGED <<storeVars, promised>>
    BY <1>k, <2>2 DEF Kept, storeVars
  <2>3. ASSUME NEW t \in Targets, NEW n \in Row, n.target = t,
               rows' = [rows EXCEPT ![s] = n],
               \/ disk' = rows' /\ promised' = [promised EXCEPT ![s] = t]
               \/ disk' = disk /\ promised' = [promised EXCEPT ![s] = Open]
        PROVE  Kept(x)'
    <3>1. CASE x = s
      BY <1>t, <2>3, <3>1, NoneFacts DEF Kept, TargetOf
    <3>2. CASE x # s
      <4>1. rows'[x] = rows[x] /\ disk'[x] \in {disk[x], rows[x]} /\ promised'[x] = promised[x]
        BY <1>t, <2>3, <3>2
      <4> QED
        BY <1>k, <4>1 DEF Kept
    <3> QED
      BY <3>1, <3>2
  <2> QED
    BY <2>1, <2>2, <2>3 DEF Writes
<1>2. ASSUME NEW j \in Actors, JobWorks(j)
      PROVE  Kept(x)'
  <2>1. CASE StoreKept
    <3>1. /\ TargetOf(rows'[x]) = TargetOf(rows[x]) /\ promised' = promised
          /\ TargetOf(disk'[x]) \in {TargetOf(disk[x]), TargetOf(rows[x])}
      BY <2>1 DEF StoreKept
    <3> QED
      BY <1>k, <3>1 DEF Kept
  <2>2. CASE Drops(j)
    <3>1. CASE x = job[j].id
      BY <1>t, <2>2, <3>1, NoneFacts DEF Kept, TargetOf, Drops
    <3>2. CASE x # job[j].id
      <4>1. rows'[x] = rows[x] /\ disk'[x] \in {disk[x], rows[x]} /\ promised'[x] = promised[x]
        BY <1>t, <2>2, <3>2 DEF Drops
      <4> QED
        BY <1>k, <4>1 DEF Kept
    <3> QED
      BY <3>1, <3>2
  <2> QED
    BY <1>2, <2>1, <2>2 DEF JobWorks
<1>3. ASSUME Outside
      PROVE  Kept(x)'
  BY <1>3, <1>k DEF Outside, Kept, storeVars, historyVars
<1>4. ASSUME Reloads
      PROVE  Kept(x)'
  BY <1>4, <1>k DEF Reloads, Kept
<1> QED
  BY <1>1, <1>2, <1>3, <1>4, StepCases

\* While a verb is undisturbed no mount appears on its share.
LEMMA VerbKeepsMount ==
  ASSUME TypeOK, JobInv, UsedInv, Undisturbed, Next, NEW h \in Handlers \ disturbed,
         job[h].pc # "idle", job[h].pc # "try", os[job[h].id] = None, job[h].id \in Shares
  PROVE  os'[job[h].id] = None
<1> DEFINE s == job[h].id
<1>0. late[s] = None /\ \A k \in Actors \ {h} : ~WorksOn(k, s)
  BY DEF Undisturbed
<1>1. ASSUME NEW k \in Handlers, NEW x \in Shares, Started(k, x)
      PROVE  os' = os
  BY <1>1 DEF Started, Asks, hostVars
<1>2. ASSUME NEW j \in Actors, JobWorks(j)
      PROVE  os'[s] = None
  <2>1. os'[s] \in {os[s], None} \/ (job[j].pc = "try" /\ job[j].id = s)
    BY <1>2 DEF JobWorks, Effects
  <2> QED
    BY <1>0, <2>1 DEF WorksOn
<1>3. ASSUME Outside
      PROVE  os'[s] = None
  BY <1>0, <1>3 DEF Outside
<1>4. ASSUME Reloads
      PROVE  os' = os
  BY <1>4 DEF Reloads, hostVars
<1> QED
  BY <1>1, <1>2, <1>3, <1>4, StepCases


\* Only Record takes a job away from "record".
LEMMA RecordWorks ==
  ASSUME NEW j, Works(j), job[j].pc = "record"
  PROVE  Record(j)
BY DEF Works, JobStep, JobFault, Seed, Stock, MountBegins, EnsureCredential,
   SetMounting, Stage, Try, ClearVers, Finalise, Adopt, Forget, Umount, Stamp, Check, Drop,
   DropEntry, AwaitL3, Select, Reconcile, NextShare, StockFails, TryTimesOut, TryFails,
   ForgetFails, UmountFails, UmountCutOff, StartPass

LEMMA VerbInduction ==
  ASSUME TypeOK, JobInv, UsedInv, Undisturbed, VerbInv, Next
  PROVE  VerbInv'
<1> DEFINE At(h) ==
      /\ job[h].pc = "drop" => os[job[h].id] = None
      /\ job[h].after = "detach" /\ job[h].pc = "record" /\ job[h].state = "unmounted"
           => job[h].class = "none" /\ os[job[h].id] = None
      /\ job[h].pc = "stamp" =>
           /\ os[job[h].id] = None /\ entry[job[h].id] # None
           /\ entry[job[h].id].state = "unmounted" /\ entry[job[h].id].class = "none"
<1> SUFFICES ASSUME NEW h \in Handlers, h \notin disturbed', job'[h].pc \notin {"idle", "l3"}
             PROVE  At(h)'
  BY DEF VerbInv
<1>0. h \notin disturbed /\ h \in Actors /\ At(h)
  BY WasUndisturbed, ActorFacts DEF VerbInv
<1>1. job[h].pc \in {"check", "drop", "record", "stamp"} => job[h].id \in Shares
  BY <1>0 DEF JobInv, JobAt
<1>2. job[h].pc \in {"check", "drop", "record", "stamp"} /\ os[job[h].id] = None
        => os'[job[h].id] = None
  BY <1>0, <1>1, VerbKeepsMount
<1>3. ASSUME NEW k \in Handlers, NEW x \in Shares, Started(k, x)
      PROVE  At(h)'
  <2>1. Alone(k) /\ Asks(k, x) /\ os' = os /\ entry' = entry
    BY <1>3 DEF Started, Asks, hostVars
  <2>2. CASE k = h
    BY <2>1, <2>2 DEF Asks
  <2>3. CASE k # h
    BY <1>0, <2>1, <2>3 DEF Alone
  <2> QED
    BY <2>2, <2>3
<1>4. ASSUME NEW j \in Actors, JobWorks(j)
      PROVE  At(h)'
  <2>1. Alone(j) /\ Goes(j) /\ Effects(j) /\ Works(j)
    BY <1>4 DEF JobWorks, Steps
  <2>2. CASE j = h
    <3>1. job'[h].pc = "drop" => os'[job'[h].id] = None
      BY <1>2, <2>1, <2>2 DEF Goes
    <3>2. job'[h].after = "detach" /\ job'[h].pc = "record" /\ job'[h].state = "unmounted"
            => job'[h].class = "none" /\ os'[job'[h].id] = None
      BY <2>1, <2>2 DEF Goes
    <3>3. ASSUME job'[h].pc = "stamp"
          PROVE  /\ os'[job'[h].id] = None /\ entry'[job'[h].id] # None
                 /\ entry'[job'[h].id].state = "unmounted"
                 /\ entry'[job'[h].id].class = "none"
      <4>1. /\ job[h].pc = "record" /\ job[h].after = "detach"
            /\ job[h].state = "unmounted" /\ job'[h].id = job[h].id
        BY <2>1, <2>2, <3>3 DEF Goes
      <4>2. SetState(job[h].id, "unmounted", "none")
        BY <1>0, <2>1, <2>2, <4>1, RecordWorks DEF Record
      <4> QED
        BY <1>0, <1>1, <1>2, <4>1, <4>2, SetStateFacts DEF States, Classes
    <3> QED
      BY <3>1, <3>2, <3>3
  <2>3. CASE j # h
    <3>1. job'[h] = job[h] /\ ~WorksOn(j, job[h].id)
      BY <1>0, <2>1, <2>3 DEF Alone, Undisturbed
    <3>2. job[h].pc = "stamp" => entry'[job[h].id] = entry[job[h].id]
      BY <1>1, <2>1, <3>1 DEF Effects, WorksOn
    <3> QED
      BY <1>0, <1>2, <3>1, <3>2
  <2> QED
    BY <2>2, <2>3
<1>5. ASSUME Outside
      PROVE  At(h)'
  BY <1>0, <1>2, <1>5 DEF Outside
<1>6. ASSUME Reloads
      PROVE  At(h)'
  BY <1>0, <1>6 DEF Reloads
<1> QED
  BY <1>3, <1>4, <1>5, <1>6, StepCases


LEMMA DropMoves ==
  ASSUME TypeOK, NEW j \in Actors, Drop(j)
  PROVE  job'[j].pc \in {"idle", "entry"}
<1>1. CASE Goto(j, "entry")
  BY <1>1, GotoFacts DEF Phases
<1>2. CASE job' = [job EXCEPT ![j] = IdleJob]
  BY <1>2, IdleFacts
<1> QED
  BY <1>1, <1>2 DEF Drop

LEMMA RemovedInduction ==
  ASSUME TypeOK, JobInv, UsedInv, Undisturbed, AnswersAreKept, VerbInv, RemovedInv, Next
  PROVE  RemovedInv'
<1> DEFINE Gone(x) == /\ os[x] = None /\ late[x] = None
                      /\ \A k \in Actors : ~Mounting(k, x)
<1> SUFFICES ASSUME NEW x \in Shares, promised'[x] = None, <<"remove", x>> \notin excused'
             PROVE  Gone(x)'
  BY DEF RemovedInv
<1>t. /\ promised \in [Shares -> Targets \cup {Open, None}]
      /\ rows \in [Shares -> Row \cup {None}]
  BY DEF TypeOK
<1>g. promised[x] = None /\ <<"remove", x>> \notin excused => Gone(x) /\ rows[x] = None
  BY DEF RemovedInv, AnswersAreKept
<1>1. ASSUME NEW h \in Handlers, NEW s \in Shares, Started(h, s)
      PROVE  Gone(x)'
  <2>1. Alone(h) /\ Asks(h, s) /\ Writes(s)
    BY <1>1 DEF Started
  <2>2. promised[x] = None
    BY <1>t, <2>1, NoneFacts DEF Writes, storeVars
  <2>3. Gone(x) /\ os' = os /\ late' = late
    BY <1>g, <2>1, <2>2 DEF Asks, hostVars
  <2>4. \A k \in Actors : ~Mounting(k, x)'
    BY <2>1, <2>3 DEF Alone, Asks, Mounting
  <2> QED
    BY <2>3, <2>4
<1>2. ASSUME NEW j \in Actors, JobWorks(j)
      PROVE  Gone(x)'
  <2>1. /\ Alone(j) /\ Goes(j) /\ Effects(j) /\ JobAt(j) /\ job[j] \in Job
        /\ StoreKept \/ (Drop(j) /\ Drops(j))
    BY <1>2 DEF JobWorks, Steps, JobInv, TypeOK
  <2>2. <<"remove", x>> \notin excused
    BY <2>1 DEF Effects
  <2>3. CASE promised[x] = None
    <3>1. Gone(x) /\ rows[x] = None
      BY <1>g, <2>2, <2>3
    <3>2. os'[x] = None /\ late'[x] = None
      BY <2>1, <3>1 DEF Effects, Mounting
    <3>3. \A k \in Actors : ~Mounting(k, x)'
      BY <2>1, <3>1 DEF Alone, Goes, Mounting
    <3> QED
      BY <3>2, <3>3
  <2>4. CASE promised[x] # None
    <3>1. Drop(j) /\ Drops(j)
      BY <2>1, <2>4 DEF StoreKept
    <3>2. x = job[j].id /\ job[j].pc = "drop" /\ j \notin disturbed /\ os' = os /\ late' = late
      BY <1>t, <2>4, <3>1, NoneFacts DEF Drops
    <3>3. j \in Handlers
      BY <2>1, <3>2 DEF JobAt, PhasesOf, Job, Continuations
    <3>4. os[x] = None /\ late[x] = None /\ \A k \in Actors \ {j} : ~WorksOn(k, x)
      BY <3>2, <3>3 DEF VerbInv, Undisturbed
    <3>5. \A k \in Actors : ~Mounting(k, x)'
      BY <2>1, <3>1, <3>4, DropMoves DEF Alone, Mounting, WorksOn
    <3> QED
      BY <3>2, <3>4, <3>5
  <2> QED
    BY <2>3, <2>4
<1>3. ASSUME Outside
      PROVE  Gone(x)'
  BY <1>3, <1>g DEF Outside, historyVars, Mounting
<1>4. ASSUME Reloads
      PROVE  Gone(x)'
  BY <1>4, <1>g DEF Reloads, hostVars, Mounting
<1> QED
  BY <1>1, <1>2, <1>3, <1>4, StepCases

\* A verb cycles nobody else's share, and its own job mounts nothing yet.
LEMMA AskedKeeps ==
  ASSUME TypeOK, NEW h \in Handlers, NEW s \in Shares, Started(h, s), NEW x \in Shares
  PROVE  /\ Cycling(x) => Cycling(x)'
         /\ \A k \in Actors : Mounting(k, x)' => Mounting(k, x) /\ job'[k] = job[k]
<1>1. Alone(h) /\ Asks(h, s)
  BY DEF Started
<1>2. ASSUME Cycling(x) PROVE Cycling(x)'
  <2>1. PICK g \in Handlers : job[g].id = x /\ job[g].pc = "umount" /\ job[g].after = "edit"
    BY <1>2 DEF Cycling
  <2>2. job'[g] = job[g]
    BY <1>1, <2>1, ActorFacts DEF Alone, Asks
  <2> QED
    BY <2>1, <2>2 DEF Cycling
<1>3. \A k \in Actors : Mounting(k, x)' => Mounting(k, x) /\ job'[k] = job[k]
  BY <1>1 DEF Alone, Asks, Mounting
<1> QED
  BY <1>2, <1>3

\* An edit that was answered, and met no mount in flight, finds no helper and
\* cycles the mount that is there.
LEMMA EditFacts ==
  ASSUME TypeOK, JobInv, NEW h \in Handlers, NEW s \in Shares, NEW t \in Targets,
         EditShare(h, s, t), promised'[s] \in Targets, <<"edit", s>> \notin excused'
  PROVE  /\ late[s] = None /\ \A k \in Actors : ~Mounting(k, s)
         /\ os[s] # None => Cycling(s)'
<1>1. late[s] = None /\ \A k \in Actors : ~Mounting(k, s)
  BY DEF EditShare, ExcuseEdit
<1>2. promised \in [Shares -> Targets \cup {Open, None}] /\ h \in Actors
  BY ActorFacts DEF TypeOK
<1>3. ~Promise(s, Open)
  BY <1>2, NoneFacts DEF Promise
<1>4. ASSUME os[s] # None PROVE Cycling(s)'
  <2> DEFINE b == [IdleJob EXCEPT !.pc = "umount", !.id = s, !.after = "edit"]
  <2>1. job' = [job EXCEPT ![h] = b]
    BY <1>3, <1>4 DEF EditShare
  <2>2. b \in Job /\ b.id = s /\ b.pc = "umount" /\ b.after = "edit"
    BY IdleJobFacts DEF Job, Phases, Continuations
  <2> HIDE DEF b
  <2>3. job'[h] = b
    BY <1>2, <2>1, <2>2, PutFacts
  <2> QED
    BY <2>2, <2>3 DEF Cycling
<1> QED
  BY <1>1, <1>4

LEMMA EditedInduction ==
  ASSUME TypeOK, JobInv, UsedInv, AnswersAreKept, RemovedInv, EditedInv, Next
  PROVE  EditedInv'
<1> DEFINE Fits(x) == /\ os[x] # None => os[x].target = promised[x] \/ Cycling(x)
                      /\ late[x] # None => late[x].target = promised[x]
                      /\ \A k \in Actors : Mounting(k, x) => job[k].snap[x].target = promised[x]
<1> SUFFICES ASSUME NEW x \in Shares, promised'[x] \in Targets, <<"edit", x>> \notin excused'
             PROVE  Fits(x)'
  BY DEF EditedInv
<1>t. /\ promised \in [Shares -> Targets \cup {Open, None}]
      /\ rows \in [Shares -> Row \cup {None}]
  BY DEF TypeOK
<1>g. promised[x] \in Targets /\ <<"edit", x>> \notin excused =>
        Fits(x) /\ rows[x] # None /\ rows[x].target = promised[x]
  BY DEF EditedInv, AnswersAreKept
<1>1. ASSUME NEW h \in Handlers, NEW s \in Shares, Started(h, s), Request(h, s)
      PROVE  Fits(x)'
  <2>1. Alone(h) /\ Asks(h, s) /\ Writes(s)
    BY <1>1 DEF Started
  <2>2. os' = os /\ late' = late
    BY <2>1 DEF Asks, hostVars
  <2>3. CASE promised'[x] = promised[x] /\ ~(\E t \in Targets : x = s /\ EditShare(h, s, t))
    <3>0. <<"edit", x>> \notin excused
      BY <1>1, <2>3 DEF Request, AddShare, EditShare, ExcuseEdit, MountVerb,
                        UnmountVerb, RemoveVerb, Verb
    <3>1. Fits(x)
      BY <1>g, <2>3, <3>0
    <3>2. \A k \in Actors : Mounting(k, x)' => job'[k].snap[x].target = promised'[x]
      BY <1>1, <2>3, <3>1, AskedKeeps
    <3> QED
      BY <1>1, <2>2, <2>3, <3>1, <3>2, AskedKeeps
  <2>4. ASSUME NEW t \in Targets, x = s, EditShare(h, s, t) PROVE Fits(x)'
    <3>1. /\ late[s] = None /\ \A k \in Actors : ~Mounting(k, s)
          /\ os[s] # None => Cycling(s)'
      BY <2>4, EditFacts
    <3>2. \A k \in Actors : ~Mounting(k, x)'
      BY <1>1, <2>4, <3>1, AskedKeeps
    <3> QED
      BY <2>2, <2>4, <3>1, <3>2
  <2>5. CASE promised'[x] # promised[x] /\ ~(\E t \in Targets : x = s /\ EditShare(h, s, t))
    <3>1. x = s
      BY <1>t, <2>1, <2>5 DEF Writes, storeVars
    <3>2. \E t \in Targets, pw \in Passwords : AddShare(h, s, t, pw)
      BY <1>1, <2>5, <3>1 DEF Request, MountVerb, UnmountVerb, RemoveVerb, Verb
    <3>3. s \notin used
      BY <3>2 DEF AddShare
    <3>4. os[x] = None /\ late[x] = None /\ \A k \in Actors : ~Mounting(k, x)
      BY <3>1, <3>3 DEF UsedInv, Untouched, RemovedInv
    <3>5. \A k \in Actors : ~Mounting(k, x)'
      BY <1>1, <3>4, AskedKeeps
    <3> QED
      BY <2>2, <3>4, <3>5
  <2> QED
    BY <2>3, <2>4, <2>5
<1>2. ASSUME NEW j \in Actors, JobWorks(j)
      PROVE  Fits(x)'
  <2>1. Alone(j) /\ Goes(j) /\ Effects(j) /\ JobAt(j) /\ (StoreKept \/ Drops(j))
    BY <1>2 DEF JobWorks, Steps, JobInv
  <2>2. <<"edit", x>> \notin excused
    BY <2>1 DEF Effects
  <2>3. promised'[x] = promised[x]
    BY <1>t, <2>1, NoneFacts DEF StoreKept, Drops
  <2>4. Fits(x) /\ rows[x] # None /\ rows[x].target = promised[x]
    BY <1>g, <2>2, <2>3
  <2>5. os'[x] # None => os'[x].target = promised[x] \/ Cycling(x)'
    <3> SUFFICES ASSUME os'[x] # None, os'[x].target # promised[x] PROVE Cycling(x)'
      OBVIOUS
    <3>1. os'[x] = os[x]
      BY <2>1, <2>4 DEF Effects, Mounting
    <3>2. PICK g \in Handlers : job[g].id = x /\ job[g].pc = "umount" /\ job[g].after = "edit"
      BY <2>4, <3>1 DEF Cycling
    <3>3. g # j
      BY <2>1, <2>4, <3>2 DEF Goes
    <3>4. job'[g] = job[g]
      BY <2>1, <3>3, ActorFacts DEF Alone
    <3> QED
      BY <3>2, <3>4 DEF Cycling
  <2>6. late'[x] # None => late'[x].target = promised[x]
    BY <2>1, <2>4 DEF Effects, Mounting
  <2>7. ASSUME NEW k \in Actors, Mounting(k, x)' PROVE job'[k].snap[x].target = promised[x]
    <3>1. CASE k # j
      BY <2>1, <2>4, <2>7, <3>1 DEF Alone, Mounting
    <3>2. CASE k = j
      BY <2>1, <2>4, <2>7, <3>2 DEF Goes, Mounting
    <3> QED
      BY <3>1, <3>2
  <2> QED
    BY <2>3, <2>5, <2>6, <2>7
<1>3. ASSUME Outside
      PROVE  Fits(x)'
  <2>1. Fits(x) /\ promised' = promised /\ job' = job
    BY <1>3, <1>g DEF Outside, historyVars
  <2>2. Cycling(x)' <=> Cycling(x)
    BY <2>1 DEF Cycling
  <2> QED
    BY <1>3, <2>1, <2>2 DEF Outside, Mounting
<1>4. ASSUME Reloads
      PROVE  Fits(x)'
  <2>1. Fits(x) /\ ~Cycling(x) /\ os' = os /\ late' = late /\ promised' = promised
    BY <1>4, <1>g DEF Reloads, hostVars
  <2>2. \A k \in Actors : ~Mounting(k, x)'
    BY <1>4 DEF Reloads, Mounting
  <2> QED
    BY <2>1, <2>2
<1> QED
  BY <1>1, <1>2, <1>3, <1>4, StepCases


LEMMA StampWorks ==
  ASSUME NEW j, Works(j), job[j].pc = "stamp"
  PROVE  Stamp(j)
BY DEF Works, JobStep, JobFault, Seed, Stock, MountBegins, EnsureCredential,
   SetMounting, Stage, Try, ClearVers, Finalise, Adopt, Forget, Record, Umount, Check, Drop,
   DropEntry, AwaitL3, Select, Reconcile, NextShare, StockFails, TryTimesOut, TryFails,
   ForgetFails, UmountFails, UmountCutOff, StartPass

\* The disconnect that counts: nobody disturbed it, no pass has selected the
\* share and the boot sweep is over.
LEMMA StampDetaches ==
  ASSUME TypeOK, JobInv, Undisturbed, VerbInv, NEW j \in Actors, Stamp(j), Alone(j),
         NEW s \in Shares, s = job[j].id, s \notin off, s \in off'
  PROVE  DetachedAt(s)'
<1>1. /\ job[j].pc = "stamp" /\ JobAt(j) /\ job[j] \in Job
      /\ entry \in [Shares -> Entry \cup {None}]
  BY DEF Stamp, JobInv, JobAt, TypeOK
<1>2. /\ j \in Handlers /\ j \notin disturbed /\ ~Sweeping
      /\ \A k \in Actors : ~Selected(k, s)
  BY <1>1 DEF Stamp, JobAt, PhasesOf, Job, Continuations
<1>3. /\ os[s] = None /\ late[s] = None /\ entry[s] # None
      /\ entry[s].state = "unmounted" /\ entry[s].class = "none"
      /\ \A k \in Actors \ {j} : ~WorksOn(k, s) /\ ~Selected(k, s)
  BY <1>1, <1>2 DEF VerbInv, Undisturbed
<1>4. os' = os /\ late' = late /\ job'[j].pc = "idle"
  BY IdleFacts DEF Stamp, hostVars
<1>5. /\ entry'[s].state = "unmounted" /\ entry'[s].class = "none" /\ entry'[s].detached
  <2> DEFINE n == [entry[s] EXCEPT !.detached = TRUE]
  <2>1. entry' = [entry EXCEPT ![s] = n]
    BY <1>3 DEF Stamp
  <2>2. n.state = "unmounted" /\ n.class = "none" /\ n.detached
    BY <1>1, <1>3 DEF Entry
  <2> HIDE DEF n
  <2> QED
    BY <1>1, <2>1, <2>2
<1>6. ASSUME NEW k \in Actors, Engaged(k, s)'
      PROVE  job'[k].after = "recon" /\ job'[k].id # s
  BY <1>3, <1>4, <1>6 DEF Alone, Engaged, WorksOn, Selected
<1>7. ASSUME NEW k \in Actors, k = "boot" PROVE job'[k].pc = "idle"
  <2>1. job[k].pc = "idle"
    BY <1>2, <1>7 DEF Sweeping, JobInv, JobAt, Tasks
  <2> QED
    BY <1>4, <2>1 DEF Alone
<1> QED
  BY <1>3, <1>4, <1>5, <1>6, <1>7 DEF DetachedAt

LEMMA DetachedInduction ==
  ASSUME TypeOK, JobInv, UsedInv, Undisturbed, VerbInv, DetachedInv, Next
  PROVE  DetachedInv'
<1>0. off \subseteq Shares /\ off' \subseteq Shares
  BY TypeInduction DEF TypeOK
<1> SUFFICES ASSUME NEW s \in Shares, s \in off' PROVE DetachedAt(s)'
  BY <1>0 DEF DetachedInv
<1>g. s \in off => DetachedAt(s)
  BY DEF DetachedInv
<1>1. ASSUME NEW h \in Handlers, NEW x \in Shares, Started(h, x)
      PROVE  DetachedAt(s)'
  <2>1. Alone(h) /\ Asks(h, x) /\ os' = os /\ late' = late /\ entry' = entry /\ s \in off
    BY <1>1 DEF Started, Asks, hostVars
  <2>2. DetachedAt(s) /\ s \in used
    BY <1>g, <2>1 DEF UsedInv, Untouched
  <2>3. h # "boot"
    BY ActorFacts DEF Tasks
  <2>4. ~Engaged(h, s)'
    BY <2>1, <2>2 DEF Asks, Engaged
  <2> QED
    BY <2>1, <2>2, <2>3, <2>4 DEF Alone, DetachedAt, Engaged
<1>2. ASSUME NEW j \in Actors, JobWorks(j)
      PROVE  DetachedAt(s)'
  <2>1. /\ Alone(j) /\ Goes(j) /\ Takes(j) /\ Effects(j) /\ JobAt(j) /\ Works(j)
        /\ job[j] \in Job
    BY <1>2 DEF JobWorks, Steps, JobInv, TypeOK
  <2>2. CASE s \notin off
    <3>1. job[j].pc = "stamp" /\ s = job[j].id
      BY <2>1, <2>2 DEF Effects
    <3> QED
      BY <2>1, <2>2, <3>1, StampWorks, StampDetaches
  <2>3. CASE s \in off
    <3>1. DetachedAt(s)
      BY <1>g, <2>3
    <3>2. ~(job[j].pc # "idle" /\ job[j].id = s)
      BY <3>1 DEF DetachedAt, Engaged
    <3>3. os'[s] = None /\ late'[s] = None /\ entry'[s] = entry[s]
      BY <2>1, <3>1, <3>2 DEF Effects, DetachedAt
    <3>4. ASSUME Engaged(j, s)' PROVE job'[j].after = "recon" /\ job'[j].id # s
      <4>1. ~(Engaged(j, s) /\ job[j].after # "recon")
        BY <3>1 DEF DetachedAt
      <4>2. ~(job[j].after = "recon" /\ job[j].id = s)
        BY <2>1, <3>2 DEF JobAt, PhasesOf
      <4>3. ~(job[j].pc = "recon" /\ s \in Candidates(j))
        BY <3>1 DEF DetachedAt, Candidates, Down
      <4>4. ~(os[s] # None \/ (entry[s] # None /\ entry[s].state = "mounted"))
        BY <3>1 DEF DetachedAt
      <4> QED
        BY <2>1, <3>4, <4>1, <4>2, <4>3, <4>4 DEF Takes
    <3>5. j # "boot"
      BY <2>1, <3>1 DEF Goes, DetachedAt
    <3> QED
      BY <2>1, <3>1, <3>3, <3>4, <3>5 DEF DetachedAt, Alone, Engaged
  <2> QED
    BY <2>2, <2>3
<1>3. ASSUME Outside
      PROVE  DetachedAt(s)'
  BY <1>3, <1>g DEF Outside, DetachedAt, Engaged, historyVars
<1>4. ASSUME Reloads
      PROVE  DetachedAt(s)'
  BY <1>4 DEF Reloads
<1> QED
  BY <1>1, <1>2, <1>3, <1>4, StepCases


\* A password that is still to be stored was never offered.
Fresh(h) ==
  /\ vault[job[h].id] = "none" /\ staged[job[h].id] = "none" /\ ~refused[job[h].id].hit
  /\ \A k \in Handlers \ {h} : job[k].pc \in {"seed", "stock"} => job[k].id # job[h].id

\* The jobs that still have a refused password in hand are known.
Known(s) ==
  /\ vault[s] = "none" \/ Pending(s)
  /\ \A k \in Actors : job[k].id = s /\ job[k].pc \in {"try", "clear"}
                       /\ Cifs(k) /\ Secret(k) => k \in refused[s].may

LEMMA FreshInduction ==
  ASSUME TypeOK, JobInv, UsedInv, StormInv, Next,
         NEW h \in Handlers, job'[h].pc \in {"seed", "stock"}
  PROVE  Fresh(h)'
<1>0. h \in Actors /\ \A k \in Handlers : k \in Actors
  BY ActorFacts
<1>f. \A k \in Handlers : job[k].pc \in {"seed", "stock"} => Fresh(k)
  BY DEF StormInv, Fresh
<1>1. ASSUME NEW k \in Handlers, NEW x \in Shares, Started(k, x)
      PROVE  Fresh(h)'
  <2>1. Alone(k) /\ Asks(k, x) /\ vault' = vault /\ staged' = staged /\ refused' = refused
    BY <1>1 DEF Started, Asks, hostVars
  <2>2. job'[k].pc \in {"seed", "stock"} => job'[k].id = x /\ x \notin used
    BY <2>1 DEF Asks
  <2>3. \A g \in Handlers \ {k} : job'[g] = job[g] /\ (job[g].pc # "idle" => job[g].id \in used)
    BY <1>0, <2>1 DEF Alone, UsedInv
  <2>4. CASE k = h
    <3>1. Untouched(x)
      BY <2>2, <2>4 DEF UsedInv
    <3> QED
      BY <2>1, <2>2, <2>3, <2>4, <3>1 DEF Fresh, Untouched
  <2>5. CASE k # h
    <3>1. job'[h] = job[h] /\ Fresh(h) /\ job[h].id \in used
      BY <1>f, <2>3, <2>5
    <3> QED
      BY <2>1, <2>2, <2>3, <3>1 DEF Fresh
  <2> QED
    BY <2>4, <2>5
<1>2. ASSUME NEW j \in Actors, JobWorks(j)
      PROVE  Fresh(h)'
  <2>1. Alone(j) /\ Goes(j) /\ Effects(j) /\ Refuses(j) /\ JobAt(j)
    BY <1>2, RefusedEffects DEF JobWorks, Steps, JobInv
  <2>2. \A g \in Handlers : job'[g].pc \in {"seed", "stock"} =>
          job[g].pc \in {"seed", "stock"} /\ job'[g].id = job[g].id /\ (g = j => job[g].pc = "seed")
    BY <1>0, <2>1 DEF Alone, Goes
  <2>3. Fresh(h) /\ job'[h].id = job[h].id
    BY <1>f, <2>2
  <2>4. job[j].pc = "stock" => job[j].id # job[h].id
    BY <2>1, <2>2, <2>3 DEF JobAt, Fresh
  <2>5. job[h].id \in Shares
    BY <1>0, <2>2 DEF JobInv, JobAt
  <2>6. vault'[job[h].id] = "none" /\ staged'[job[h].id] = "none"
    BY <2>1, <2>3, <2>4, <2>5 DEF Effects, Fresh
  <2>7. ~refused'[job[h].id].hit
    BY <2>1, <2>3, <2>5 DEF Refuses, Fresh
  <2>8. \A k \in Handlers \ {h} : job'[k].pc \in {"seed", "stock"} => job'[k].id # job'[h].id
    BY <2>2, <2>3 DEF Fresh
  <2> QED
    BY <2>3, <2>6, <2>7, <2>8 DEF Fresh
<1>3. ASSUME Outside
      PROVE  Fresh(h)'
  <2>1. Fresh(h) /\ job[h].id \in Shares /\ job' = job /\ refused' = refused
    BY <1>0, <1>3, <1>f DEF Outside, historyVars, JobInv, JobAt
  <2> QED
    BY <1>3, <2>1 DEF Outside, Fresh
<1>4. ASSUME Reloads
      PROVE  Fresh(h)'
  BY <1>0, <1>4 DEF Reloads
<1> QED
  BY <1>1, <1>2, <1>3, <1>4, StepCases

LEMMA KnownInduction ==
  ASSUME TypeOK, JobInv, UsedInv, StormInv, Next,
         NEW s \in Shares, refused'[s].hit, "vault" \notin happened'
  PROVE  Known(s)'
<1>k. refused[s].hit /\ "vault" \notin happened => Known(s)
  BY DEF StormInv, Known
<1>1. ASSUME NEW h \in Handlers, NEW x \in Shares, Started(h, x)
      PROVE  Known(s)'
  <2>1. /\ Alone(h) /\ Asks(h, x) /\ vault' = vault /\ refused' = refused
        /\ happened \subseteq happened' /\ job[h].pc = "idle"
    BY <1>1 DEF Started, Asks, hostVars
  <2>2. Known(s)
    BY <1>k, <2>1
  <2>3. ASSUME Pending(s) PROVE Pending(s)'
    <3>1. PICK g \in Actors : job[g].pc = "forget" /\ job[g].id = s
      BY <2>3 DEF Pending
    <3>2. job'[g] = job[g]
      BY <2>1, <3>1 DEF Alone
    <3> QED
      BY <3>1, <3>2 DEF Pending
  <2>4. ASSUME NEW k \in Actors, job'[k].id = s, job'[k].pc \in {"try", "clear"},
               Cifs(k)', Secret(k)'
        PROVE  k \in refused'[s].may
    <3>1. job'[k] = job[k]
      BY <2>1, <2>4 DEF Alone, Asks
    <3> QED
      BY <2>1, <2>2, <2>4, <3>1 DEF Known, Cifs, Secret
  <2> QED
    BY <2>1, <2>2, <2>3, <2>4 DEF Known
<1>2. ASSUME NEW j \in Actors, JobWorks(j)
      PROVE  Known(s)'
  <2>1. Alone(j) /\ Goes(j) /\ Effects(j) /\ Refuses(j) /\ JobAt(j)
    BY <1>2, RefusedEffects DEF JobWorks, Steps, JobInv
  <2>2. "vault" \notin happened
    BY <2>1 DEF Effects
  <2>3. CASE refused[s].hit
    <3>1. Known(s)
      BY <1>k, <2>2, <2>3
    <3>2. ~(job[j].pc = "stock" /\ job[j].id = s)
      BY <2>1, <2>3 DEF JobAt, StormInv
    <3>3. vault'[s] = "none" \/ Pending(s)'
      <4>1. CASE vault[s] = "none"
        BY <2>1, <3>2, <4>1 DEF Effects
      <4>2. CASE Pending(s)
        <5>1. PICK g \in Actors : job[g].pc = "forget" /\ job[g].id = s
          BY <4>2 DEF Pending
        <5>2. CASE g = j
          BY <2>1, <5>1, <5>2 DEF Goes
        <5>3. CASE g # j
          BY <2>1, <5>1, <5>3 DEF Alone, Pending
        <5> QED
          BY <5>2, <5>3
      <4> QED
        BY <3>1, <4>1, <4>2 DEF Known
    <3>4. ASSUME NEW k \in Actors, job'[k].id = s, job'[k].pc \in {"try", "clear"},
                 Cifs(k)', Secret(k)'
          PROVE  k \in refused'[s].may
      <4>1. CASE k # j
        <5>1. job'[k] = job[k]
          BY <2>1, <4>1 DEF Alone
        <5>2. k \in refused[s].may
          BY <3>1, <3>4, <5>1 DEF Known, Cifs, Secret
        <5>3. CASE job[j].id # s \/ job[j].pc \notin {"stage", "try"}
          BY <2>1, <5>2, <5>3 DEF Refuses
        <5>4. CASE job[j].id = s /\ job[j].pc = "stage"
          BY <2>1, <5>2, <5>4 DEF Refuses
        <5>5. CASE job[j].id = s /\ job[j].pc = "try"
          BY <2>1, <2>3, <4>1, <5>2, <5>5 DEF Refuses
        <5> QED
          BY <5>3, <5>4, <5>5
      <4>2. CASE k = j
        <5>1. /\ job[j].pc \in {"stage", "try", "clear"}
              /\ job[j].id = s /\ job'[j].snap = job[j].snap
          BY <2>1, <3>4, <4>2 DEF Goes
        <5>2. Cifs(j) /\ Secret(j)
          BY <3>4, <4>2, <5>1 DEF Cifs, Secret
        <5>3. CASE job[j].pc = "stage"
          BY <2>1, <3>1, <3>4, <4>2, <5>1, <5>2, <5>3 DEF Refuses, Known
        <5>4. CASE job[j].pc \in {"try", "clear"}
          <6>1. j \in refused[s].may
            BY <3>1, <5>1, <5>2, <5>4 DEF Known
          <6>2. refused' = refused
            BY <2>1, <3>4, <4>2, <5>4 DEF Refuses
          <6> QED
            BY <4>2, <6>1, <6>2
        <5> QED
          BY <5>1, <5>3, <5>4
      <4> QED
        BY <4>1, <4>2
    <3> QED
      BY <3>3, <3>4 DEF Known
  <2>4. CASE ~refused[s].hit
    <3>1. /\ job[j].id = s /\ job'[j].pc = "forget" /\ job'[j].id = s
          /\ \A k \in Actors \ {j} : job[k].id = s /\ job[k].pc \in {"try", "clear"}
                                     => k \in refused'[s].may
      BY <2>1, <2>4 DEF Refuses
    <3>2. Pending(s)'
      BY <3>1 DEF Pending
    <3> QED
      BY <2>1, <3>1, <3>2 DEF Alone, Known
  <2> QED
    BY <2>3, <2>4
<1>3. ASSUME Outside
      PROVE  Known(s)'
  <2>1. Known(s) /\ job' = job /\ refused' = refused
    BY <1>3, <1>k DEF Outside, historyVars
  <2> QED
    BY <1>3, <2>1 DEF Outside, Known, Pending, Cifs, Secret
<1>4. ASSUME Reloads
      PROVE  Known(s)'
  BY <1>4 DEF Reloads
<1> QED
  BY <1>1, <1>2, <1>3, <1>4, StepCases

LEMMA StormInduction ==
  ASSUME TypeOK, JobInv, UsedInv, StormInv, Next
  PROVE  StormInv'
<1>1. \A h \in Handlers : job'[h].pc \in {"seed", "stock"} => Fresh(h)'
  BY FreshInduction
<1>2. \A s \in Shares : refused'[s].hit /\ "vault" \notin happened' => Known(s)'
  BY KnownInduction
<1> QED
  BY <1>1, <1>2 DEF StormInv, Fresh, Known


-------------------------------------------------------------------------------
(* The induction.                                                          *)

LEMMA InitIsFine ==
  ASSUME Init
  PROVE  IInv
<1> DEFINE Rows0 == {None} \cup {[target |-> t, vers |-> "none"] : t \in Targets}
           Live0 == {None} \cup {[target |-> t, vers |-> IF t.fs = "cifs" THEN Ladder[1]
                                                         ELSE "none"] : t \in Targets}
<1>1. PICK r \in [Shares -> Rows0] :
        /\ os \in [Shares -> Live0]
        /\ \A s \in Shares : os[s] # None => r[s] # None /\ os[s].target = r[s].target
        /\ rows = Loaded(r) /\ disk = rows /\ entry = LoadedEntries(r)
        /\ used = {s \in Shares : r[s] # None}
        /\ vault = [s \in Shares |-> IF r[s] = None THEN "none" ELSE "good"]
        /\ staged = [s \in Shares |-> "none"] /\ late = Nothing /\ up \in BOOLEAN
        /\ job = LoadedJobs
        /\ promised = [s \in Shares |-> IF r[s] = None THEN None ELSE r[s].target]
        /\ off = {} /\ excused = {} /\ disturbed = {}
        /\ refused = [s \in Shares |-> [hit |-> FALSE, may |-> {}]]
        /\ asked = 0 /\ happened = {}
  BY DEF Init
<1>2. Ladder[1] \in Dialects
  <2>1. Len(Ladder) \in Nat /\ Len(Ladder) # 0
    BY LadderAssumption
  <2> QED
    BY <2>1 DEF Dialects
<1>3. Rows0 \subseteq Row \cup {None} /\ Live0 \subseteq Row \cup {None}
  BY <1>2 DEF Row
<1> HIDE DEF Rows0, Live0
<1>4. /\ r \in [Shares -> Row \cup {None}] /\ os \in [Shares -> Row \cup {None}]
  BY <1>1, <1>3
<1>5. /\ rows \in [Shares -> Row \cup {None}] /\ disk = rows
      /\ \A s \in Shares : TargetOf(rows[s]) = TargetOf(r[s])
      /\ entry \in [Shares -> Entry \cup {None}] /\ job \in [Actors -> Job]
      /\ \A j \in Actors : /\ job[j].pc \in {"idle", "l3"}
                           /\ job[j].after = "done" /\ job[j].todo = {} /\ job[j].id = None
                           /\ job[j].pc = "l3" => j = "boot" /\ j \in crew
  BY <1>1, <1>4, LoadedFacts
<1>6. /\ promised \in [Shares -> Targets \cup {Open, None}]
      /\ \A s \in Shares : promised[s] = TargetOf(rows[s])
  BY <1>1, <1>4, <1>5, RowFacts DEF TargetOf
<1>7. TypeOK
  <2>1. used \subseteq Shares /\ vault \in [Shares -> Passwords] /\ staged \in [Shares -> Passwords]
    BY <1>1 DEF Passwords
  <2>2. late \in [Shares -> Row \cup {None}] /\ up \in BOOLEAN
    BY <1>1, NothingType
  <2>3. refused \in [Shares -> [hit : BOOLEAN, may : SUBSET Actors]]
    BY <1>1
  <2>4. crew \in Crews /\ asked \in 0..MaxRequests /\ happened \subseteq Troubles
    BY <1>1, BoundsAssumption DEF Init
  <2>5. off \subseteq Shares /\ excused \subseteq {"remove", "edit"} \X Shares
        /\ disturbed \subseteq Handlers
    BY <1>1
  <2> QED
    BY <1>4, <1>5, <1>6, <2>1, <2>2, <2>3, <2>4, <2>5 DEF TypeOK
<1>8. \A h \in Handlers : h \in Actors /\ job[h].pc = "idle"
  BY <1>5, ActorFacts DEF Tasks
<1>9. JobInv
  <2>1. \A j \in Actors : JobAt(j)
    BY <1>5 DEF JobAt, PhasesOf, Tasks
  <2>2. \A i \in 1..MaxRequests : job[HandlerNames[i]].pc = "idle"
    BY <1>8 DEF Handlers
  <2> QED
    BY <2>1, <2>2 DEF JobInv
<1>10. \A s \in Shares : /\ r[s] = None <=> rows[s] = None
                         /\ late[s] = None /\ staged[s] = "none" /\ ~refused[s].hit
                         /\ \A k \in Actors : ~Mounting(k, s)
  <2>1. ASSUME NEW s \in Shares PROVE r[s] = None <=> rows[s] = None
    BY <1>4, <1>5, RowFacts
  <2> QED
    BY <1>1, <1>5, <2>1 DEF Nothing, Mounting
<1>11. UsedInv
  BY <1>1, <1>5, <1>8, <1>10 DEF UsedInv, Untouched
<1>12. Undisturbed /\ VerbInv /\ DetachedInv
  BY <1>1, <1>8 DEF Undisturbed, VerbInv, DetachedInv
<1>13. AnswersAreKept
  BY <1>5, <1>6, <1>7, KeptIsAnswers DEF Kept
<1>14. RemovedInv
  <2>1. \A s \in Shares : promised[s] = None => rows[s] = None
    BY <1>13 DEF AnswersAreKept
  <2> QED
    BY <1>1, <1>10, <2>1 DEF RemovedInv
<1>15. EditedInv
  BY <1>1, <1>10 DEF EditedInv
<1>16. StormInv
  BY <1>8, <1>10 DEF StormInv
<1> QED
  BY <1>7, <1>9, <1>11, <1>12, <1>13, <1>14, <1>15, <1>16 DEF IInv

LEMMA StepIsFine ==
  ASSUME IInv, [Next]_vars
  PROVE  IInv'
<1>1. CASE Next
  <2>1. TypeOK' /\ JobInv' /\ UsedInv' /\ Undisturbed'
    BY <1>1, TypeInduction, UsedInduction, UndisturbedInduction DEF IInv
  <2>2. AnswersAreKept' /\ VerbInv' /\ StormInv'
    BY <1>1, AnswersInduction, VerbInduction, StormInduction DEF IInv
  <2>3. RemovedInv' /\ EditedInv' /\ DetachedInv'
    BY <1>1, RemovedInduction, EditedInduction, DetachedInduction DEF IInv
  <2> QED
    BY <2>1, <2>2, <2>3 DEF IInv
<1>2. CASE UNCHANGED vars
  <2>1. /\ UNCHANGED <<rows, disk, used, entry, vault, os, staged, late, up, job>>
        /\ UNCHANGED <<promised, off, excused, refused, disturbed, crew, asked, happened>>
    BY <1>2 DEF vars, storeVars, hostVars, historyVars, boundVars
  <2>2. TypeOK' /\ JobInv' /\ UsedInv' /\ Undisturbed'
    BY <2>1 DEF IInv, TypeOK, JobInv, JobAt, UsedInv, Untouched, Undisturbed, WorksOn
  <2>3. AnswersAreKept' /\ VerbInv' /\ RemovedInv'
    BY <2>1 DEF IInv, AnswersAreKept, VerbInv, RemovedInv, Mounting
  <2>4. EditedInv'
    BY <2>1 DEF IInv, EditedInv, Cycling, Mounting
  <2>5. DetachedInv'
    BY <2>1 DEF IInv, DetachedInv, DetachedAt, Engaged
  <2>6. StormInv'
    BY <2>1 DEF IInv, StormInv, Pending, Cifs, Secret
  <2> QED
    BY <2>2, <2>3, <2>4, <2>5, <2>6 DEF IInv
<1> QED
  BY <1>1, <1>2

LEMMA AlwaysFine == Spec => []IInv
BY InitIsFine, StepIsFine, PTL DEF Spec

LEMMA FineKeepsPromises ==
  ASSUME IInv
  PROVE  PromisesAreKept
<1>1. TypeOK /\ AnswersAreKept
  BY DEF IInv
<1>2. RemovedIsUnmounted
  BY DEF IInv, RemovedInv, RemovedIsUnmounted
<1>3. ASSUME NEW s \in Shares, rows[s] # None, promised[s] = rows[s].target
      PROVE  promised[s] \in Targets
  BY <1>1, <1>3 DEF TypeOK, Row
<1>4. EditReachesTheMount
  BY <1>3 DEF IInv, EditedInv, Cycling, EditReachesTheMount
<1>5. DetachSticks
  BY DEF IInv, DetachedInv, DetachedAt, DetachSticks
<1> QED
  BY <1>1, <1>2, <1>4, <1>5 DEF PromisesAreKept

\* The answers the verbs of network.shares/runtime.rs gave stay true.  What was
\* saved is in memory and in the file, whatever mounts, passes, late helpers,
\* restarts and failed saves overlap it.  A removed share is not mounted unless
\* another job or a late helper worked on it during the removal; an edited one is
\* mounted as edited unless the edit met a mount in flight or a late helper, or
\* its unmount failed, was cut off or lost to a restart; a detached one stays so
\* until the next verb or restart unless another job or a late helper worked on
\* it meanwhile, a pass had selected it or the boot sweep was not over.
THEOREM PromisesKept == Spec => []PromisesAreKept
BY AlwaysFine, FineKeepsPromises, PTL

\* mount_share offers a password the server refused (runtime.rs, the permanent
\* failure that deletes it from the vault) again only from jobs that had staged
\* it before it was deleted.
THEOREM NoPasswordStorm == Spec => NoStorm
<1>1. ASSUME IInv, NEW j \in Actors, job[j].pc = "try",
             HelperSays(j, Head(job[j].rungs)) = "refused",
             refused[job[j].id].hit, "vault" \notin happened
      PROVE  j \in refused[job[j].id].may
  <2>1. Cifs(j) /\ Secret(j)
    BY <1>1, RefusedMeans
  <2>2. job[j].id \in Shares
    BY <1>1 DEF IInv, JobInv, JobAt
  <2> QED
    BY <1>1, <2>1, <2>2 DEF IInv, StormInv
<1>2. IInv => \A j \in Actors :
                /\ job[j].pc = "try" /\ job'[j] # job[j] /\ happened' = happened
                /\ HelperSays(j, Head(job[j].rungs)) = "refused"
                /\ refused[job[j].id].hit /\ "vault" \notin happened
                => j \in refused[job[j].id].may
  BY <1>1
<1> QED
  BY <1>2, AlwaysFine, PTL DEF NoStorm


-------------------------------------------------------------------------------
(* The file implements the ledger.                                         *)

\* Unsaved and Removing of given rows, file and jobs.
UnsavedIn(r, d) ==
  {c \in [share : Shares, to : Targets \cup {None}] :
     c.to = TargetIn(r)[c.share] /\ c.to # TargetIn(d)[c.share]}
RemovingIn(b) ==
  {[share |-> b[h].id, to |-> None] : h \in
     {k \in Handlers : b[k].pc \notin {"idle", "entry"} /\ b[k].after = "remove"}}

LEMMA UnsavedFacts ==
  ASSUME NEW r \in [Shares -> Row \cup {None}], NEW d \in [Shares -> Row \cup {None}], NEW c
  PROVE  c \in UnsavedIn(r, d) <=>
           \E s \in Shares : /\ c = [share |-> s, to |-> TargetOf(r[s])]
                             /\ TargetOf(r[s]) # TargetOf(d[s])
<1>1. \A s \in Shares : /\ TargetIn(r)[s] = TargetOf(r[s]) /\ TargetIn(d)[s] = TargetOf(d[s])
                        /\ TargetOf(r[s]) \in Targets \cup {None}
  BY RowFacts DEF TargetIn, TargetOf, Row
<1>2. ASSUME c \in UnsavedIn(r, d)
      PROVE  \E s \in Shares : /\ c = [share |-> s, to |-> TargetOf(r[s])]
                               /\ TargetOf(r[s]) # TargetOf(d[s])
  <2>1. /\ c \in [share : Shares, to : Targets \cup {None}]
        /\ c.to = TargetIn(r)[c.share] /\ c.to # TargetIn(d)[c.share]
    BY <1>2 DEF UnsavedIn
  <2>2. c.share \in Shares /\ c = [share |-> c.share, to |-> c.to]
    BY <2>1
  <2> QED
    BY <1>1, <2>1, <2>2
<1>3. ASSUME NEW s \in Shares, c = [share |-> s, to |-> TargetOf(r[s])],
             TargetOf(r[s]) # TargetOf(d[s])
      PROVE  c \in UnsavedIn(r, d)
  BY <1>1, <1>3 DEF UnsavedIn
<1> QED
  BY <1>2, <1>3

\* Every save makes durable what memory says and the file does not, so a record
\* that a save of the old rows changes was open.
LEMMA SavedWasOpen ==
  ASSUME TypeOK, NEW s \in Shares,
         TargetOf(disk'[s]) \in {TargetOf(disk[s]), TargetOf(rows[s])}
  PROVE  \/ TargetOf(disk'[s]) = TargetOf(disk[s])
         \/ \E c \in UnsavedIn(rows, disk) : c.share = s /\ TargetOf(disk'[s]) = c.to
<1>1. ASSUME TargetOf(disk'[s]) # TargetOf(disk[s])
      PROVE  \E c \in UnsavedIn(rows, disk) : c.share = s /\ TargetOf(disk'[s]) = c.to
  <2> DEFINE c == [share |-> s, to |-> TargetOf(rows[s])]
  <2>1. c \in UnsavedIn(rows, disk)
    BY <1>1, UnsavedFacts DEF TypeOK
  <2>2. c.share = s /\ c.to = TargetOf(disk'[s])
    BY <1>1
  <2> QED
    BY <2>1, <2>2
<1> QED
  BY <1>1

\* What a step must show to be one of the ledger.
LEMMA LedgerStep ==
  ASSUME TypeOK, TypeOK', NEW C,
         \A s \in Shares : \/ TargetOf(disk'[s]) = TargetOf(disk[s])
                           \/ \E c \in C : c.share = s /\ TargetOf(disk'[s]) = c.to
  PROVE  TargetIn(disk)' \in [Shares -> Targets \cup {None}] /\ Ledger!Applied(C)
<1>1. \A s \in Shares : /\ TargetIn(disk)[s] = TargetOf(disk[s])
                        /\ TargetIn(disk)'[s] = TargetOf(disk'[s])
                        /\ TargetOf(disk'[s]) \in Targets \cup {None}
  BY RowFacts DEF TargetIn, TargetOf, TypeOK, Row
<1>2. TargetIn(disk)' \in [Shares -> Targets \cup {None}]
  BY <1>1 DEF TargetIn
<1>3. \A s \in Shares : \/ TargetIn(disk)'[s] = TargetIn(disk)[s]
                        \/ \E c \in C : c.share = s /\ TargetIn(disk)'[s] = c.to
  BY <1>1
<1> QED
  BY <1>2, <1>3 DEF Ledger!Applied

LEMMA Settles ==
  ASSUME TypeOK, TypeOK', asked' = asked,
         \A s \in Shares :
           \/ TargetOf(disk'[s]) = TargetOf(disk[s])
           \/ \E c \in UnsavedIn(rows, disk) \cup RemovingIn(job) :
                c.share = s /\ TargetOf(disk'[s]) = c.to,
         UnsavedIn(rows', disk') \subseteq UnsavedIn(rows, disk) \cup RemovingIn(job),
         RemovingIn(job') \subseteq RemovingIn(job)
  PROVE  Ledger!Settle
<1>1. Unsaved = UnsavedIn(rows, disk) /\ Removing = RemovingIn(job)
  BY DEF Unsaved, UnsavedIn, Removing, RemovingIn
<1>2. Unsaved' = UnsavedIn(rows', disk') /\ Removing' = RemovingIn(job')
  BY DEF Unsaved, UnsavedIn, Removing, RemovingIn
<1>3. /\ TargetIn(disk)' \in [Shares -> Targets \cup {None}]
      /\ Ledger!Applied(Unsaved \cup Removing)
  BY <1>1, LedgerStep
<1> QED
  BY <1>1, <1>2, <1>3 DEF Ledger!Settle

LEMMA Requests ==
  ASSUME TypeOK, TypeOK', asked' = asked + 1, NEW q,
         \A s \in Shares :
           \/ TargetOf(disk'[s]) = TargetOf(disk[s])
           \/ \E c \in UnsavedIn(rows, disk) \cup RemovingIn(job) \cup {q} :
                c.share = s /\ TargetOf(disk'[s]) = c.to,
         UnsavedIn(rows', disk') \subseteq UnsavedIn(rows, disk) \cup {q},
         RemovingIn(job') \subseteq RemovingIn(job) \cup {q}
  PROVE  Ledger!Request(q)
<1>1. Unsaved = UnsavedIn(rows, disk) /\ Removing = RemovingIn(job)
  BY DEF Unsaved, UnsavedIn, Removing, RemovingIn
<1>2. Unsaved' = UnsavedIn(rows', disk') /\ Removing' = RemovingIn(job')
  BY DEF Unsaved, UnsavedIn, Removing, RemovingIn
<1>3. /\ TargetIn(disk)' \in [Shares -> Targets \cup {None}]
      /\ Ledger!Applied((Unsaved \cup Removing) \cup {q})
  BY <1>1, LedgerStep
<1> QED
  BY <1>1, <1>2, <1>3 DEF Ledger!Request


\* A job removes only what it was removing before the step.
LEMMA RemovalsGoOn ==
  ASSUME TypeOK, NEW j \in Actors, Alone(j), Goes(j)
  PROVE  RemovingIn(job') \subseteq RemovingIn(job)
<1> SUFFICES ASSUME NEW h \in Handlers, job'[h].pc \notin {"idle", "entry"},
                    job'[h].after = "remove"
             PROVE  [share |-> job'[h].id, to |-> None] \in RemovingIn(job)
  BY DEF RemovingIn
<1>1. /\ job[h].pc \notin {"idle", "entry"} /\ job[h].after = "remove"
      /\ job'[h].id = job[h].id
  BY ActorFacts DEF Alone, Goes
<1> QED
  BY <1>1 DEF RemovingIn

\* An addition or an edit removes nothing.
LEMMA WritersDoNotRemove ==
  ASSUME TypeOK, JobInv, NEW h \in Handlers, NEW s \in Shares, NEW t \in Targets,
         NEW pw \in Passwords, AddShare(h, s, t, pw) \/ EditShare(h, s, t)
  PROVE  job'[h].pc # "idle" => job'[h].after # "remove"
<1> DEFINE a == [IdleJob EXCEPT !.pc = "seed", !.id = s, !.pw = pw]
           e == [IdleJob EXCEPT !.pc = "umount", !.id = s, !.after = "edit"]
<1>1. a \in Job /\ a.after = "done" /\ e \in Job /\ e.after = "edit"
  BY IdleJobFacts DEF Job, Phases, Continuations
<1>2. job' = job \/ job' = [job EXCEPT ![h] = a] \/ job' = [job EXCEPT ![h] = e]
  BY DEF AddShare, EditShare
<1>3. job[h].pc = "idle"
  BY SendsFacts DEF AddShare, EditShare, Ask
<1>4. h \in Actors
  BY ActorFacts
<1> HIDE DEF a, e
<1> QED
  BY <1>1, <1>2, <1>3, <1>4, PutFacts

LEMMA FileSteps ==
  ASSUME IInv, Next
  PROVE  Ledger!Next
<1>0. /\ TypeOK /\ JobInv /\ UsedInv /\ TypeOK' /\ JobInv'
      /\ rows \in [Shares -> Row \cup {None}] /\ disk \in [Shares -> Row \cup {None}]
      /\ rows' \in [Shares -> Row \cup {None}] /\ disk' \in [Shares -> Row \cup {None}]
  BY TypeInduction DEF IInv, TypeOK
<1>1. ASSUME NEW h \in Handlers, NEW s \in Shares, Started(h, s), Request(h, s)
      PROVE  Ledger!Next
  <2>1. Alone(h) /\ Asks(h, s) /\ Writes(s) /\ asked' = asked + 1
    BY <1>1 DEF Started, Asks
  <2>2. ASSUME NEW q, q = [share |-> s, to |-> None] \/ ~RemoveVerb(h, s)
        PROVE  RemovingIn(job') \subseteq RemovingIn(job) \cup {q}
    <3> SUFFICES ASSUME NEW k \in Handlers, job'[k].pc \notin {"idle", "entry"},
                        job'[k].after = "remove"
                 PROVE  [share |-> job'[k].id, to |-> None] \in RemovingIn(job) \cup {q}
      BY DEF RemovingIn
    <3>1. CASE k # h
      <4>1. job'[k] = job[k]
        BY <2>1, <3>1, ActorFacts DEF Alone
      <4> QED
        BY <4>1 DEF RemovingIn
    <3>2. CASE k = h
      <4>1. job'[h].id = s
        BY <2>1, <3>2 DEF Asks
      <4>2. ~(\E t \in Targets, pw \in Passwords : AddShare(h, s, t, pw) \/ EditShare(h, s, t))
        BY <1>0, <3>2, WritersDoNotRemove
      <4>3. "none" \in Passwords
        BY DEF Passwords
      <4>4. MountVerb(h, s) \/ UnmountVerb(h, s) \/ RemoveVerb(h, s)
        BY <1>1, <4>2, <4>3 DEF Request
      <4>5. ASSUME NEW p \in Phases, NEW a \in {"done", "detach"}, NEW v, Verb(h, s, v, p, a)
            PROVE  job'[h].after # "remove"
        <5> DEFINE b == [IdleJob EXCEPT !.pc = p, !.id = s, !.after = a]
        <5>1. b \in Job /\ b.after = a
          BY IdleJobFacts DEF Job, Continuations
        <5>2. job' = [job EXCEPT ![h] = b] /\ h \in Actors
          BY <4>5, ActorFacts DEF Verb
        <5> HIDE DEF b
        <5> QED
          BY <1>0, <5>1, <5>2, PutFacts
      <4>6. RemoveVerb(h, s)
        BY <3>2, <4>4, <4>5 DEF MountVerb, UnmountVerb, Phases
      <4> QED
        BY <2>2, <3>2, <4>1, <4>6
    <3> QED
      BY <3>1, <3>2
  <2>3. CASE UNCHANGED <<storeVars, promised>>
    <3> DEFINE q == [share |-> s, to |-> None]
    <3>1. q \in Ledger!Changes
      BY DEF Ledger!Changes
    <3>2. UnsavedIn(rows', disk') = UnsavedIn(rows, disk) /\ disk' = disk
      BY <2>3 DEF storeVars
    <3>3. RemovingIn(job') \subseteq RemovingIn(job) \cup {q}
      BY <2>2
    <3> HIDE DEF q
    <3>4. Ledger!Request(q)
      BY <1>0, <2>1, <3>2, <3>3, Requests
    <3> QED
      BY <3>1, <3>4 DEF Ledger!Next
  <2>4. ASSUME NEW t \in Targets, NEW n \in Row, n.target = t,
               rows' = [rows EXCEPT ![s] = n],
               \/ disk' = rows' /\ promised' = [promised EXCEPT ![s] = t]
               \/ disk' = disk /\ promised' = [promised EXCEPT ![s] = Open],
               ~(UNCHANGED <<storeVars, promised>>)
        PROVE  Ledger!Next
    <3> DEFINE q == [share |-> s, to |-> t]
    <3>1. q \in Ledger!Changes /\ q.share = s /\ q.to = t
      BY DEF Ledger!Changes
    <3>2. RemovingIn(job') \subseteq RemovingIn(job) \cup {q}
      <4>1. ~RemoveVerb(h, s)
        BY <2>4 DEF RemoveVerb, Verb
      <4> QED
        BY <2>2, <4>1
    <3>3. TargetOf(rows'[s]) = t /\ \A x \in Shares : x # s => rows'[x] = rows[x]
      BY <1>0, <2>4, RowFacts, NoneFacts
    <3>4. ASSUME NEW x \in Shares
          PROVE  \/ TargetOf(disk'[x]) = TargetOf(disk[x])
                 \/ \E c \in UnsavedIn(rows, disk) \cup RemovingIn(job) \cup {q} :
                      c.share = x /\ TargetOf(disk'[x]) = c.to
      <4>1. CASE x = s
        BY <2>4, <3>1, <3>3, <4>1
      <4>2. CASE x # s
        <5>1. TargetOf(disk'[x]) \in {TargetOf(disk[x]), TargetOf(rows[x])}
          BY <2>4, <3>3, <4>2
        <5> QED
          BY <1>0, <5>1, SavedWasOpen
      <4> QED
        BY <4>1, <4>2
    <3>5. ASSUME NEW c \in UnsavedIn(rows', disk') PROVE c \in UnsavedIn(rows, disk) \cup {q}
      <4>1. PICK x \in Shares : /\ c = [share |-> x, to |-> TargetOf(rows'[x])]
                                /\ TargetOf(rows'[x]) # TargetOf(disk'[x])
        BY <1>0, <3>5, UnsavedFacts
      <4>2. CASE x = s
        BY <3>3, <4>1, <4>2
      <4>3. CASE x # s
        <5>1. rows'[x] = rows[x] /\ disk'[x] = disk[x]
          BY <2>4, <3>3, <4>1, <4>3
        <5> QED
          BY <1>0, <4>1, <5>1, UnsavedFacts
      <4> QED
        BY <4>2, <4>3
    <3> HIDE DEF q
    <3>6. Ledger!Request(q)
      BY <1>0, <2>1, <3>2, <3>4, <3>5, Requests
    <3> QED
      BY <3>1, <3>6 DEF Ledger!Next
  <2> QED
    BY <2>1, <2>3, <2>4 DEF Writes
<1>2. ASSUME NEW j \in Actors, JobWorks(j)
      PROVE  Ledger!Settle
  <2>1. /\ Alone(j) /\ Goes(j) /\ JobAt(j) /\ job[j] \in Job /\ asked' = asked
        /\ StoreKept \/ Drops(j)
    BY <1>0, <1>2 DEF JobWorks, Steps, Effects, JobInv, TypeOK
  <2>2. RemovingIn(job') \subseteq RemovingIn(job)
    BY <1>0, <2>1, RemovalsGoOn
  <2>3. CASE StoreKept
    <3>1. \A s \in Shares : /\ TargetOf(rows'[s]) = TargetOf(rows[s])
                            /\ TargetOf(disk'[s]) \in {TargetOf(disk[s]), TargetOf(rows[s])}
      BY <2>3 DEF StoreKept
    <3>2. \A s \in Shares :
            \/ TargetOf(disk'[s]) = TargetOf(disk[s])
            \/ \E c \in UnsavedIn(rows, disk) \cup RemovingIn(job) :
                 c.share = s /\ TargetOf(disk'[s]) = c.to
      BY <1>0, <3>1, SavedWasOpen
    <3>3. ASSUME NEW c \in UnsavedIn(rows', disk') PROVE c \in UnsavedIn(rows, disk)
      <4>1. PICK x \in Shares : /\ c = [share |-> x, to |-> TargetOf(rows'[x])]
                                /\ TargetOf(rows'[x]) # TargetOf(disk'[x])
        BY <1>0, <3>3, UnsavedFacts
      <4>2. TargetOf(rows'[x]) = TargetOf(rows[x]) /\ TargetOf(rows[x]) # TargetOf(disk[x])
        BY <3>1, <4>1
      <4> QED
        BY <1>0, <4>1, <4>2, UnsavedFacts
    <3> QED
      BY <1>0, <2>1, <2>2, <3>2, <3>3, Settles
  <2>4. CASE Drops(j)
    <3> DEFINE s == job[j].id
               q == [share |-> s, to |-> None]
    <3>1. /\ job[j].pc = "drop" /\ s \in Shares /\ rows' = [rows EXCEPT ![s] = None]
          /\ disk' = rows' \/ disk' = disk
      BY <2>1, <2>4 DEF Drops, JobAt
    <3>2. q \in RemovingIn(job) /\ q.share = s /\ q.to = None
      <4>1. job[j].after = "remove" /\ j \in Handlers
        BY <2>1, <3>1 DEF JobAt, PhasesOf, Job, Continuations
      <4> QED
        BY <3>1, <4>1 DEF RemovingIn
    <3>3. TargetOf(rows'[s]) = None /\ \A x \in Shares : x # s => rows'[x] = rows[x]
      BY <1>0, <3>1 DEF TargetOf
    <3> HIDE DEF q, s
    <3>4. ASSUME NEW x \in Shares
          PROVE  \/ TargetOf(disk'[x]) = TargetOf(disk[x])
                 \/ \E c \in UnsavedIn(rows, disk) \cup RemovingIn(job) :
                      c.share = x /\ TargetOf(disk'[x]) = c.to
      <4>1. CASE x = s
        BY <3>1, <3>2, <3>3, <4>1
      <4>2. CASE x # s
        <5>1. TargetOf(disk'[x]) \in {TargetOf(disk[x]), TargetOf(rows[x])}
          BY <3>1, <3>3, <4>2
        <5> QED
          BY <1>0, <5>1, SavedWasOpen
      <4> QED
        BY <4>1, <4>2
    <3>5. ASSUME NEW c \in UnsavedIn(rows', disk')
          PROVE  c \in UnsavedIn(rows, disk) \cup RemovingIn(job)
      <4>1. PICK x \in Shares : /\ c = [share |-> x, to |-> TargetOf(rows'[x])]
                                /\ TargetOf(rows'[x]) # TargetOf(disk'[x])
        BY <1>0, <3>5, UnsavedFacts
      <4>2. CASE x = s
        BY <3>2, <3>3, <4>1, <4>2 DEF q
      <4>3. CASE x # s
        <5>1. rows'[x] = rows[x] /\ disk'[x] = disk[x]
          BY <3>1, <3>3, <4>1, <4>3
        <5> QED
          BY <1>0, <4>1, <5>1, UnsavedFacts
      <4> QED
        BY <4>2, <4>3
    <3> QED
      BY <1>0, <2>1, <2>2, <3>4, <3>5, Settles
  <2> QED
    BY <2>1, <2>3, <2>4
<1>3. ASSUME Outside
      PROVE  Ledger!Settle
  <2>1. rows' = rows /\ disk' = disk /\ job' = job /\ asked' = asked
    BY <1>3 DEF Outside, storeVars
  <2> QED
    BY <1>0, <2>1, Settles
<1>4. ASSUME Reloads
      PROVE  Ledger!Settle
  <2>1. /\ \A s \in Shares : TargetOf(disk'[s]) = TargetOf(disk[s])
        /\ asked' = asked /\ disk' = rows'
    BY <1>4 DEF Reloads
  <2>2. UnsavedIn(rows', disk') = {}
    BY <1>0, <2>1, UnsavedFacts
  <2>3. RemovingIn(job') = {}
    BY <1>4, ActorFacts DEF Reloads, RemovingIn
  <2> QED
    BY <1>0, <2>1, <2>2, <2>3, Settles
<1> QED
  BY <1>0, <1>1, <1>2, <1>3, <1>4, StepCases DEF Ledger!Next

\* network_shares.toml only ever changes by what the operator asked for: no
\* pass, no late mount and no restart of network.shares/runtime.rs writes a stale
\* clone of a row back, and a save that failed leaves its change open.
THEOREM FileImplementsLedger == Spec => OnlyAsRequested
<1>1. Init => Ledger!Init
  <2> SUFFICES ASSUME Init PROVE Ledger!Init
    OBVIOUS
  <2>1. TypeOK
    BY InitIsFine DEF IInv
  <2>2. disk = rows /\ asked = 0 /\ job = LoadedJobs
    BY DEF Init
  <2>3. \A j \in Actors : job[j].after = "done"
    BY <2>1, <2>2, LoadedFacts DEF TypeOK
  <2>4. Removing = {}
    BY <2>3, ActorFacts DEF Removing
  <2>5. Unsaved = {}
    BY <2>2 DEF Unsaved
  <2>6. TargetIn(disk) \in [Shares -> Targets \cup {None}]
    BY <2>1 DEF TypeOK, TargetIn, Row
  <2> QED
    BY <2>2, <2>4, <2>5, <2>6 DEF Ledger!Init
<1>2. IInv /\ [Next]_vars => [Ledger!Next]_Ledger!ledger
  <2>1. ASSUME UNCHANGED vars PROVE UNCHANGED Ledger!ledger
    BY <2>1 DEF vars, storeVars, boundVars, Ledger!ledger, TargetIn, Unsaved, Removing
  <2> QED
    BY <2>1, FileSteps
<1> QED
  BY <1>1, <1>2, AlwaysFine, PTL DEF Spec, OnlyAsRequested, Ledger!Spec
===============================================================================
