---------------------------- MODULE NetworkShares ----------------------------
(***************************************************************************)
(* The network shares plugin (network.shares/src/runtime.rs): the          *)
(* configured rows and their file, the state entry of each share, the      *)
(* host's mount table, and everything that works on them at the same time: *)
(* the operator's verbs, the boot sweep, the remount pass and the poll of  *)
(* unreachable hosts.  A job clones the row, then probes, stages, mounts   *)
(* and records without holding a lock.                                     *)
(*                                                                         *)
(* A target stands for type, host, path, credentials and options of a      *)
(* share; a password is one the server accepts or one it refuses.          *)
(***************************************************************************)
EXTENDS Naturals, Sequences, FiniteSets

CONSTANTS
  Shares,        \* share ids
  Targets,       \* what a share may point to
  Ladder,        \* CIFS_VERS_PROBE_LADDER
  Spoken,        \* the dialects the server speaks
  None, Open,
  Crews,         \* which of boot sweep, remount pass and poll may run together
  MaxRequests,   \* how many verbs the operator sends
  HandlerNames,  \* the handler of each verb, in the order they are sent
  MaxTrouble,    \* how many other events happen, for each crew
  Allowed        \* the verbs and events that may happen, for each crew

Verbs == {"add", "edit", "remove", "mount", "unmount"}

\* host: the server goes away or comes back.  vanish: the mount goes away.
\* rotate: the server changes the password.  diskfull: a save fails.
\* vault: the vault refuses.  late: a helper outlives its timeout.  helper: it
\* fails for another reason.  busy: umount fails.  restart: the plugin is
\* stopped and loaded.
Troubles == {"host", "vanish", "rotate", "diskfull", "vault", "late",
             "helper", "busy", "restart"}

Dialects == {Ladder[i] : i \in 1..Len(Ladder)}
Row == [target : Targets, vers : Dialects \cup {"none"}]
States == {"unmounted", "mounting", "mounted", "failed"}
Classes == {"none", "transient", "permanent", "unreachable"}
Entry == [state : States, class : Classes, detached : BOOLEAN]
Passwords == {"none", "good", "bad"}
Handlers == {HandlerNames[i] : i \in 1..MaxRequests}
Tasks == {"boot", "remount", "poll"}
Actors == Handlers \cup UNION Crews

ASSUME TargetsAssumption ==
  Targets \subseteq [fs : {"cifs", "nfs"}, secret : BOOLEAN, host : {1, 2}]
ASSUME LadderAssumption ==
  /\ Ladder \in Seq(STRING) /\ Ladder # <<>> /\ "none" \notin Dialects
  /\ \A i, k \in 1..Len(Ladder) : Ladder[i] = Ladder[k] => i = k
ASSUME NoneAssumption ==
  None \notin Row \cup Entry \cup Shares \cup Targets /\ Open \notin Targets \cup {None}
ASSUME BoundsAssumption ==
  /\ HandlerNames \in Seq(STRING) /\ MaxRequests \in 0..Len(HandlerNames)
  /\ \A i, k \in 1..Len(HandlerNames) : HandlerNames[i] = HandlerNames[k] => i = k
  /\ Tasks \cap Handlers = {}
  /\ MaxTrouble \in [Crews -> Nat]
ASSUME CrewsAssumption == Crews \subseteq SUBSET Tasks
ASSUME AllowedAssumption == Allowed \in [Crews -> SUBSET (Verbs \cup Troubles)]

VARIABLES
  rows, disk, used, \* inner.state.shares, network_shares.toml, ids given out
  entry,            \* share_states
  vault,            \* stored passwords
  os, staged,       \* the host mount table, the .mount-creds files
  late, up,         \* helpers that outlived their timeout, the server answers
  job,              \* what each verb and task is doing
  promised, off, excused, refused, disturbed,  \* history, see below
  crew,             \* the tasks this behaviour has
  asked, happened   \* verbs sent, troubles that happened

storeVars == <<rows, disk, used>>
hostVars == <<os, staged, late, up>>
historyVars == <<promised, off, excused, refused>>
boundVars == <<asked, happened>>
vars == <<storeVars, entry, vault, hostVars, job, historyVars, disturbed, crew,
          boundVars>>

(* history: `promised` is what the operator was last told of a share (Open *)
(* after an error, None after a removal), `off` the shares whose           *)
(* disconnect was confirmed and counts, `excused` the removals and the     *)
(* last edits that met a mount in flight or whose unmount failed,          *)
(* `refused` that the server refused the stored password, and which jobs   *)
(* had it in hand then; `disturbed` are the verbs during which another job *)
(* worked on the same share or a late helper was still at it.              *)

Seeded == [state |-> "unmounted", class |-> "none", detached |-> FALSE]

Phases == {"idle", "seed", "stock", "l3", "recon", "next", "begin", "cred",
           "mounting", "stage", "try", "clear", "final",
           "adopt", "forget", "record", "umount", "check", "drop", "entry",
           "stamp"}
Continuations == {"done", "recon", "pass", "edit", "detach", "remove"}

Nothing == [s \in Shares |-> None]

\* `snap` holds the cloned rows, `after` says what follows the mount, unmount
\* or adoption in progress.
IdleJob == [pc |-> "idle", id |-> None, todo |-> {}, snap |-> Nothing,
            rungs |-> <<>>, cleared |-> FALSE, state |-> "unmounted",
            class |-> "none", pw |-> "none", after |-> "done"]

Happens(e) ==
  /\ e \in Allowed[crew] \ happened /\ Cardinality(happened) < MaxTrouble[crew]
  /\ happened' = happened \cup {e}

Sends(h, v) ==
  /\ v \in Allowed[crew] /\ asked < MaxRequests /\ h = HandlerNames[asked + 1]
  /\ asked' = asked + 1

Trouble(e) == Happens(e) /\ UNCHANGED asked
Ask(h, v) == Sends(h, v) /\ UNCHANGED happened

Goto(j, p) == job' = [job EXCEPT ![j].pc = p]

\* The job works on s; it is on its way to mount s; it has still to do s.
WorksOn(j, s) == job[j].pc # "idle" /\ job[j].id = s
MountPhases == {"cred", "mounting", "stage", "try", "clear"}
Mounting(j, s) == job[j].id = s /\ job[j].pc \in MountPhases
Selected(j, s) == job[j].pc # "idle" /\ s \in job[j].todo /\ job[j].after # "recon"

------------------------------------------------------------------------------
(* The rows are changed and saved under one lock.                          *)

Commit(r) == rows' = r /\ disk' = r /\ UNCHANGED boundVars

\* Memory changed, the save failed.
CommitFails(r) == rows' = r /\ UNCHANGED disk /\ Trouble("diskfull")

SetVers(s, v) == IF rows[s] = None THEN rows ELSE [rows EXCEPT ![s].vers = v]

\* set_share_state_classified: an entry that is gone is made again; a share
\* that is mounting or mounted is one the operator wants.
SetState(s, state, class) ==
  LET e == IF entry[s] = None THEN Seeded ELSE entry[s]
  IN  entry' = [entry EXCEPT ![s] =
        [state |-> state, class |-> class,
         detached |-> e.detached /\ state \notin {"mounting", "mounted"}]]

------------------------------------------------------------------------------
(* Verbs.                                                                  *)

Promise(s, p) == promised' = [promised EXCEPT ![s] = p]

\* add_share: the row, then the entry, the password and the mount.
AddShare(h, s, t, pw) ==
  LET r == [rows EXCEPT ![s] = [target |-> t, vers |-> "none"]]
  IN  /\ s \notin used /\ used' = used \cup {s}
      /\ rows' = r
      /\ \/ /\ Ask(h, "add") /\ disk' = r /\ Promise(s, t)
            /\ job' = [job EXCEPT ![h] = [IdleJob EXCEPT !.pc = "seed", !.id = s,
                                                         !.pw = pw]]
         \/ /\ Sends(h, "add") /\ Happens("diskfull") /\ Promise(s, Open)
            /\ UNCHANGED <<disk, job>>
      /\ UNCHANGED <<entry, vault, hostVars, off, excused, refused>>

Seed(h) ==
  /\ job[h].pc = "seed"
  /\ entry' = [entry EXCEPT ![job[h].id] = Seeded]
  /\ Goto(h, "stock")
  /\ UNCHANGED <<storeVars, vault, hostVars, historyVars, boundVars>>

\* stock_supplied_password; no password is not an error.
Stock(h) ==
  /\ job[h].pc = "stock"
  /\ vault' = IF job[h].pw = "none" THEN vault
              ELSE [vault EXCEPT ![job[h].id] = job[h].pw]
  /\ job' = [job EXCEPT ![h].pc = "begin", ![h].pw = "none"]
  /\ UNCHANGED <<storeVars, entry, hostVars, historyVars, boundVars>>

StockFails(h) ==
  /\ job[h].pc = "stock" /\ job[h].pw # "none" /\ Trouble("vault")
  /\ job' = [job EXCEPT ![h] = IdleJob]
  /\ UNCHANGED <<storeVars, entry, vault, hostVars, historyVars>>

\* apply_to: a new type forgets the dialect.
Edited(s, t) ==
  [rows EXCEPT ![s] = [target |-> t,
                       vers |-> IF t.fs = @.target.fs THEN @.vers ELSE "none"]]

\* An edit that meets a mount in flight, or a late helper.
ExcuseEdit(s) ==
  excused' = IF late[s] # None \/ \E k \in Actors : Mounting(k, s)
             THEN excused \cup {<<"edit", s>>} ELSE excused \ {<<"edit", s>>}

\* Mutant: the entry decides whether there is a mount to cycle.
EditShareByEntry(h, s, t) ==
  LET r == Edited(s, t)
  IN  /\ rows[s] # None /\ rows[s].target # t
      /\ rows' = r /\ disk' = r
      /\ Ask(h, "edit") /\ Promise(s, t)
      /\ IF entry[s] = None \/ entry[s].state # "mounted" THEN UNCHANGED job
         ELSE job' = [job EXCEPT ![h] =
                [IdleJob EXCEPT !.pc = "umount", !.id = s, !.after = "edit"]]
      /\ off' = off \ {s} /\ ExcuseEdit(s)
      /\ UNCHANGED <<used, entry, vault, hostVars, refused>>

\* edit_share with a material change: a share the host has mounted is cycled.
EditShare(h, s, t) ==
  LET r == Edited(s, t)
  IN  /\ rows[s] # None /\ rows[s].target # t
      /\ rows' = r
      /\ \/ /\ Ask(h, "edit") /\ disk' = r /\ Promise(s, t)
            /\ IF os[s] = None THEN UNCHANGED job
               ELSE job' = [job EXCEPT ![h] =
                      [IdleJob EXCEPT !.pc = "umount", !.id = s, !.after = "edit"]]
         \/ /\ Sends(h, "edit") /\ Happens("diskfull") /\ Promise(s, Open)
            /\ UNCHANGED <<disk, job>>
      /\ off' = off \ {s} /\ ExcuseEdit(s)
      /\ UNCHANGED <<used, entry, vault, hostVars, refused>>

\* mount, unmount and remove of a share that is configured.
Verb(h, s, v, p, a) ==
  /\ Ask(h, v) /\ rows[s] # None
  /\ job' = [job EXCEPT ![h] = [IdleJob EXCEPT !.pc = p, !.id = s, !.after = a]]
  /\ off' = off \ {s}
  /\ UNCHANGED <<storeVars, entry, vault, hostVars, promised, excused, refused>>

MountVerb(h, s) == Verb(h, s, "mount", "begin", "done")
UnmountVerb(h, s) == Verb(h, s, "unmount", "umount", "detach")
RemoveVerb(h, s) == Verb(h, s, "remove", "umount", "remove")

------------------------------------------------------------------------------
(* mount_share.                                                            *)

\* What follows when a mount, unmount or adoption is over: an unmount that
\* failed does not lead to a remount, nor count as the operator's wish.
Finished(j) ==
  LET b == job[j]
      done == b.state = "unmounted"
  IN  CASE b.after = "recon" -> [b EXCEPT !.pc = "recon", !.todo = @ \ {b.id},
                                          !.id = None]
        [] b.after = "pass" /\ b.todo # {} -> [IdleJob EXCEPT !.pc = "next",
                                                 !.todo = b.todo, !.after = "pass"]
        [] b.after = "edit" /\ done -> [IdleJob EXCEPT !.pc = "begin", !.id = b.id]
        [] b.after = "detach" /\ done -> [b EXCEPT !.pc = "stamp"]
        [] b.after = "remove" -> [b EXCEPT !.pc = "check"]
        [] OTHER -> IdleJob

\* The row is cloned, the mount table read and the host probed without an
\* await in between: a live mount is adopted, a silent host ends the job.
Begun(b, s) ==
  LET c == [b EXCEPT !.id = s, !.snap = [Nothing EXCEPT ![s] = rows[s]]]
  IN  CASE os[s] # None -> [c EXCEPT !.pc = "adopt"]
        [] os[s] = None /\ up -> [c EXCEPT !.pc = "cred"]
        [] OTHER -> [b EXCEPT !.id = s, !.pc = "record", !.state = "failed",
                              !.class = "unreachable"]

MountBegins(j) ==
  LET s == job[j].id
  IN  /\ job[j].pc = "begin"
      /\ job' = [job EXCEPT ![j] = IF rows[s] = None THEN IdleJob ELSE Begun(@, s)]
      /\ UNCHANGED <<storeVars, entry, vault, hostVars, historyVars, boundVars>>

\* The outcome is recorded in the next step; only a reconciliation still needs
\* its clones.
Outcome(j, state, class) ==
  job' = [job EXCEPT ![j] =
    [@ EXCEPT !.pc = "record", !.state = state, !.class = class,
              !.rungs = <<>>, !.cleared = FALSE,
              !.snap = IF job[j].after = "recon" THEN job[j].snap ELSE Nothing]]

Secret(j) == job[j].snap[job[j].id].target.secret
Cifs(j) == job[j].snap[job[j].id].target.fs = "cifs"

\* ensure_credential_stocked: a share without its password stays unmounted.
EnsureCredential(j) ==
  /\ job[j].pc = "cred"
  /\ IF Secret(j) /\ vault[job[j].id] = "none"
       THEN Outcome(j, "unmounted", "permanent")
       ELSE Goto(j, "mounting")
  /\ UNCHANGED <<storeVars, entry, vault, hostVars, historyVars, boundVars>>

SetMounting(j) ==
  /\ job[j].pc = "mounting"
  /\ SetState(job[j].id, "mounting", "none")
  /\ Goto(j, "stage")
  /\ UNCHANGED <<storeVars, vault, hostVars, historyVars, boundVars>>

\* The dialects to try: the one that worked last, or all.
Rungs(j) ==
  LET r == job[j].snap[job[j].id]
  IN  IF ~Cifs(j) THEN <<"none">>
      ELSE IF r.vers # "none" THEN <<r.vers>> ELSE Ladder

\* Some job has been refused and is about to delete the password.
Pending(s) == \E j \in Actors : job[j].pc = "forget" /\ job[j].id = s

\* stage_mount_credentials_file reads the vault again; NFS stages nothing.
Stage(j) ==
  LET s == job[j].id
      file == Cifs(j) /\ Secret(j)
  IN  /\ job[j].pc = "stage"
      /\ IF file /\ vault[s] = "none"
           THEN Outcome(j, "failed", "permanent") /\ UNCHANGED staged
           ELSE /\ staged' = IF file THEN [staged EXCEPT ![s] = vault[s]] ELSE staged
                /\ job' = [job EXCEPT ![j].pc = "try", ![j].rungs = Rungs(j)]
      /\ refused' = IF Pending(s) THEN [refused EXCEPT ![s].may = @ \cup {j}]
                    ELSE refused
      /\ UNCHANGED <<storeVars, entry, vault, os, late, up, promised, off,
                     excused, boundVars>>

\* The file is deleted when the mount of its job is over, whoever else uses it.
Unstage(j) == staged' = IF Cifs(j) /\ Secret(j)
                          THEN [staged EXCEPT ![job[j].id] = "none"] ELSE staged

\* What the mount helper says when tried with dialect d.
HelperSays(j, d) ==
  LET s == job[j].id
  IN  CASE os[s] # None -> "taken"
        [] os[s] = None /\ ~up -> "other"
        [] os[s] = None /\ up /\ ~Cifs(j) -> "ok"
        [] OTHER -> CASE d \notin Spoken -> "other"
                      [] d \in Spoken /\ ~Secret(j) -> "ok"
                      [] OTHER -> CASE staged[s] = "none" -> "other"
                                    [] staged[s] = "bad" -> "refused"
                                    [] OTHER -> "ok"

\* The server refused the password: the first time is news, later ones may
\* only come from jobs that had it already.
Strike(j) ==
  LET s == job[j].id
      holders == {k \in Actors : job[k].id = s /\ job[k].pc \in {"try", "clear"}}
  IN  refused' = [refused EXCEPT ![s] =
        [hit |-> TRUE, may |-> (IF @.hit THEN @.may ELSE holders) \ {j}]]

\* After an attempt that neither succeeded nor was refused: the next rung;
\* after the persisted dialect the rest of the ladder; or exhaustion.
NextRung(j) ==
  IF Len(job[j].rungs) > 1
    THEN job' = [job EXCEPT ![j].rungs = Tail(@)] /\ UNCHANGED staged
  ELSE IF Cifs(j) /\ job[j].snap[job[j].id].vers # "none" /\ ~job[j].cleared
    THEN Goto(j, "clear") /\ UNCHANGED staged
  ELSE Outcome(j, "failed", "transient") /\ Unstage(j)

Mounted(j, d) == [target |-> job[j].snap[job[j].id].target, vers |-> d]

\* Mutant: a refused password is taken for a failed dialect.
TryLaddersOn(j) ==
  LET s == job[j].id
      d == Head(job[j].rungs)
      says == HelperSays(j, d)
  IN  /\ job[j].pc = "try"
      /\ IF says = "ok"
           THEN /\ os' = [os EXCEPT ![s] = Mounted(j, d)]
                /\ Goto(j, "final") /\ UNCHANGED <<staged, refused>>
           ELSE /\ NextRung(j) /\ UNCHANGED os
                /\ IF says = "refused" THEN Strike(j) ELSE UNCHANGED refused
      /\ UNCHANGED <<storeVars, entry, vault, late, up, promised, off, excused,
                     boundVars>>

\* One run of the helper: attempt_cifs_dialect_tracked, or mount_nfs.
Try(j) ==
  LET s == job[j].id
      d == Head(job[j].rungs)
      says == HelperSays(j, d)
  IN  /\ job[j].pc = "try"
      /\ CASE says = "ok" ->
                /\ os' = [os EXCEPT ![s] = Mounted(j, d)]
                /\ Goto(j, "final") /\ UNCHANGED <<staged, refused>>
           [] says = "refused" ->
                /\ Strike(j) /\ Goto(j, "forget") /\ Unstage(j) /\ UNCHANGED os
           [] says = "taken" /\ Cifs(j) ->
                /\ Goto(j, "adopt") /\ UNCHANGED <<os, staged, refused>>
           [] OTHER -> NextRung(j) /\ UNCHANGED <<os, refused>>
      /\ UNCHANGED <<storeVars, entry, vault, late, up, promised, off, excused,
                     boundVars>>

\* The helper misses its deadline.  It is not killed and may still succeed.
TryTimesOut(j) ==
  LET s == job[j].id
      d == Head(job[j].rungs)
  IN  /\ job[j].pc = "try" /\ Trouble("late")
      /\ late' = IF HelperSays(j, d) # "ok" THEN late
                 ELSE [late EXCEPT ![s] = Mounted(j, d)]
      /\ Outcome(j, "failed", "transient") /\ Unstage(j)
      /\ UNCHANGED <<storeVars, entry, vault, os, up, historyVars>>

\* The mount directory is missing, the helper cannot be run, or an NFS server
\* refuses this client (is_nfs_auth_refusal).
TryFails(j) ==
  /\ job[j].pc = "try" /\ Trouble("helper") /\ Unstage(j)
  /\ \/ Outcome(j, "failed", "transient")
     \/ ~Cifs(j) /\ Secret(j) /\ Goto(j, "forget")
     \/ ~Cifs(j) /\ ~Secret(j) /\ Outcome(j, "failed", "permanent")
  /\ UNCHANGED <<storeVars, entry, vault, os, late, up, historyVars>>

\* The ladder without the dialect that was tried first.
RestOfLadder(v) ==
  LET i == CHOOSE k \in 1..Len(Ladder) : Ladder[k] = v
  IN  SubSeq(Ladder, 1, i - 1) \o SubSeq(Ladder, i + 1, Len(Ladder))

\* clear_persisted_vers, then the rest of the ladder.
ClearVers(j) ==
  LET s == job[j].id
      rest == RestOfLadder(job[j].snap[s].vers)
  IN  /\ job[j].pc = "clear"
      /\ \/ /\ Commit(SetVers(s, "none"))
            /\ IF rest = <<>> THEN Outcome(j, "failed", "transient") /\ Unstage(j)
               ELSE /\ job' = [job EXCEPT ![j].pc = "try", ![j].rungs = rest,
                                          ![j].cleared = TRUE]
                    /\ UNCHANGED staged
         \/ /\ CommitFails(SetVers(s, "none"))
            /\ Outcome(j, "failed", "transient") /\ Unstage(j)
      /\ UNCHANGED <<used, entry, vault, os, late, up, historyVars>>

\* Mutant: the clone is written back.
FinaliseClone(j) ==
  LET s == job[j].id
      r == IF rows[s] = None THEN rows
           ELSE [rows EXCEPT ![s] = Mounted(j, Head(job[j].rungs))]
  IN  /\ job[j].pc = "final"
      /\ Unstage(j)
      /\ Commit(r) /\ Outcome(j, "mounted", "none")
      /\ UNCHANGED <<used, entry, vault, os, late, up, historyVars>>

\* finalise_mount_success: the dialect goes to the row as it is now.
Finalise(j) ==
  LET s == job[j].id
      r == IF Cifs(j) THEN SetVers(s, Head(job[j].rungs)) ELSE rows
  IN  /\ job[j].pc = "final"
      /\ Unstage(j)
      /\ \/ Commit(r) /\ Outcome(j, "mounted", "none")
         \/ CommitFails(r) /\ Outcome(j, "failed", "transient")
      /\ UNCHANGED <<used, entry, vault, os, late, up, historyVars>>

\* adopt_existing_os_mount: the dialect of the live mount; a failed save is
\* only logged.
Adopt(j) ==
  LET s == job[j].id
      live == os[s] # None /\ os[s].target.fs = "cifs"
      v == IF live THEN os[s].vers ELSE job[j].snap[s].vers
  IN  /\ job[j].pc = "adopt"
      /\ IF Cifs(j) /\ v # "none"
           THEN Commit(SetVers(s, v)) \/ CommitFails(SetVers(s, v))
           ELSE UNCHANGED <<rows, disk, boundVars>>
      /\ Outcome(j, "mounted", "none")
      /\ IF job[j].rungs # <<>> THEN Unstage(j) ELSE UNCHANGED staged
      /\ UNCHANGED <<used, entry, vault, os, late, up, historyVars>>

\* The refused password is deleted from the vault.
Forget(j) ==
  /\ job[j].pc = "forget"
  /\ vault' = [vault EXCEPT ![job[j].id] = "none"]
  /\ Outcome(j, "failed", "permanent")
  /\ UNCHANGED <<storeVars, entry, hostVars, historyVars, boundVars>>

ForgetFails(j) ==
  /\ job[j].pc = "forget" /\ Trouble("vault")
  /\ Outcome(j, "failed", "permanent")
  /\ UNCHANGED <<storeVars, entry, vault, hostVars, historyVars>>

Record(j) ==
  /\ job[j].pc = "record"
  /\ SetState(job[j].id, job[j].state, job[j].class)
  /\ job' = [job EXCEPT ![j] = Finished(j)]
  /\ UNCHANGED <<storeVars, vault, hostVars, historyVars, boundVars>>

------------------------------------------------------------------------------
(* unmount_share_ex, and what unmount and remove do afterwards.            *)

\* umount of a path that is not mounted fails.
Umount(j) ==
  LET s == job[j].id
  IN  /\ job[j].pc = "umount"
      /\ IF rows[s] = None
           THEN job' = [job EXCEPT ![j] = IdleJob] /\ UNCHANGED os
         ELSE IF os[s] = None
           THEN Outcome(j, "failed", "transient") /\ UNCHANGED os
         ELSE Outcome(j, "unmounted", "none") /\ os' = [os EXCEPT ![s] = None]
      /\ UNCHANGED <<storeVars, entry, vault, staged, late, up, historyVars, boundVars>>

\* Busy, or any other failure: a share that is still mounted stays Mounted.
UmountFails(j) ==
  LET s == job[j].id
  IN  /\ job[j].pc = "umount" /\ rows[s] # None /\ os[s] # None /\ Trouble("busy")
      /\ Outcome(j, "mounted", "none")
      /\ excused' = IF job[j].after = "edit" THEN excused \cup {<<"edit", s>>}
                    ELSE excused
      /\ UNCHANGED <<storeVars, entry, vault, hostVars, promised, off, refused>>

\* umount cannot be run or misses its deadline: nothing is recorded, the mount
\* may be gone all the same, and a removal goes on to look.
UmountCutOff(j) ==
  LET s == job[j].id
  IN  /\ job[j].pc = "umount" /\ rows[s] # None /\ Trouble("late")
      /\ os' = os \/ os' = [os EXCEPT ![s] = None]
      /\ job' = [job EXCEPT ![j] = IF @.after = "remove" THEN [@ EXCEPT !.pc = "check"]
                                                        ELSE IdleJob]
      /\ excused' = IF job[j].after = "edit" THEN excused \cup {<<"edit", s>>}
                    ELSE excused
      /\ UNCHANGED <<storeVars, entry, vault, staged, late, up, promised, off, refused>>

\* The boot sweep has not finished: it asks no entry for the operator's wish.
Sweeping == "boot" \in crew /\ job["boot"].pc # "idle"

\* remember_operator_detach
Stamp(j) ==
  LET s == job[j].id
  IN  /\ job[j].pc = "stamp"
      /\ entry' = IF entry[s] = None THEN entry
                  ELSE [entry EXCEPT ![s].detached = TRUE]
      /\ off' = IF \/ j \in disturbed \/ Sweeping
                   \/ \E k \in Actors : Selected(k, s)
                 THEN off ELSE off \cup {s}
      /\ job' = [job EXCEPT ![j] = IdleJob]
      /\ UNCHANGED <<storeVars, vault, hostVars, promised, excused, refused, boundVars>>

\* Mutant: the mount table is not asked.
CheckNothing(j) ==
  /\ job[j].pc = "check"
  /\ Goto(j, "drop")
  /\ UNCHANGED <<storeVars, entry, vault, hostVars, historyVars, boundVars>>

\* A share that is still mounted is not removed.
Check(j) ==
  /\ job[j].pc = "check"
  /\ IF os[job[j].id] # None THEN job' = [job EXCEPT ![j] = IdleJob]
                             ELSE Goto(j, "drop")
  /\ UNCHANGED <<storeVars, entry, vault, hostVars, historyVars, boundVars>>

\* remove_share: the row, then the entry.
Drop(j) ==
  LET s == job[j].id
      r == [rows EXCEPT ![s] = None]
  IN  /\ job[j].pc = "drop"
      /\ \/ /\ rows[s] = None /\ UNCHANGED <<rows, disk, promised, excused, boundVars>>
            /\ job' = [job EXCEPT ![j] = IdleJob]
         \/ /\ rows[s] # None /\ Commit(r) /\ Promise(s, None)
            /\ excused' = IF j \in disturbed THEN excused \cup {<<"remove", s>>}
                          ELSE excused
            /\ Goto(j, "entry")
         \/ /\ rows[s] # None /\ CommitFails(r) /\ Promise(s, Open)
            /\ excused' = IF j \in disturbed THEN excused \cup {<<"remove", s>>}
                          ELSE excused
            /\ job' = [job EXCEPT ![j] = IdleJob]
      /\ UNCHANGED <<used, entry, vault, hostVars, off, refused>>

DropEntry(j) ==
  /\ job[j].pc = "entry"
  /\ entry' = [entry EXCEPT ![job[j].id] = None]
  /\ job' = [job EXCEPT ![j] = IdleJob]
  /\ UNCHANGED <<storeVars, vault, hostVars, historyVars, boundVars>>

------------------------------------------------------------------------------
(* The passes: reconcile every row with the mount table, select, mount.    *)

Configured == {s \in Shares : rows[s] # None}

Reconciling == [IdleJob EXCEPT !.pc = "recon", !.todo = Configured,
                               !.snap = rows, !.after = "recon"]

StartPass(j) ==
  /\ j # "boot" /\ job[j].pc = "idle"
  /\ job' = [job EXCEPT ![j] = Reconciling]
  /\ UNCHANGED <<storeVars, entry, vault, hostVars, historyVars, boundVars>>

\* boot_mount_all waits for the network, or gives up.
AwaitL3(j) ==
  /\ job[j].pc = "l3"
  /\ \/ job' = [job EXCEPT ![j] = Reconciling]
     \/ ~up /\ job' = [job EXCEPT ![j] = IdleJob]
  /\ UNCHANGED <<storeVars, entry, vault, hostVars, historyVars, boundVars>>

\* Mutant: mounts that went away are not noticed.
ReconcileUpward(j, s) ==
  /\ job[j].pc = "recon" /\ s \in job[j].todo
  /\ LET state == IF entry[s] = None THEN "none" ELSE entry[s].state
     IN  job' = [job EXCEPT ![j] =
           IF os[s] # None /\ state \notin {"mounted", "mounting"}
             THEN [@ EXCEPT !.pc = "adopt", !.id = s]
           ELSE [@ EXCEPT !.todo = @ \ {s}]]
  /\ UNCHANGED <<storeVars, entry, vault, hostVars, historyVars, boundVars>>

\* Mutant: a vanished mount gets a state of its own.
ReconcileVanished(j, s) ==
  /\ job[j].pc = "recon" /\ s \in job[j].todo
  /\ job' = [job EXCEPT ![j] =
       IF os[s] = None THEN [@ EXCEPT !.pc = "record", !.id = s, !.state = "vanished"]
                       ELSE [@ EXCEPT !.todo = @ \ {s}]]
  /\ UNCHANGED <<storeVars, entry, vault, hostVars, historyVars, boundVars>>

\* One row of reconcile_os_mount_states; a mount in flight is left alone.
Reconcile(j, s) ==
  /\ job[j].pc = "recon" /\ s \in job[j].todo
  /\ LET state == IF entry[s] = None THEN "none" ELSE entry[s].state
     IN  job' = [job EXCEPT ![j] =
           IF os[s] = None /\ state = "mounted"
             THEN [@ EXCEPT !.pc = "record", !.id = s,
                            !.state = "unmounted", !.class = "none"]
           ELSE IF os[s] # None /\ state \notin {"mounted", "mounting"}
             THEN [@ EXCEPT !.pc = "adopt", !.id = s]
           ELSE [@ EXCEPT !.todo = job[j].todo \ {s}]]
  /\ UNCHANGED <<storeVars, entry, vault, hostVars, historyVars, boundVars>>

Down == {s \in Shares : entry[s] # None /\ entry[s].state \in {"failed", "unmounted"}}

\* Mutant: the operator's wish is not asked for.
CandidatesAnyway(j) ==
  CASE j = "boot" -> Configured
    [] j = "poll" -> {s \in Down : entry[s].class = "unreachable"}
    [] OTHER -> {s \in Down : entry[s].class # "permanent"}

\* Mutant: a mount that vanished left no failure to retry.
CandidatesFailed(j) ==
  IF j = "boot" THEN Configured
  ELSE {s \in Down : entry[s].state = "failed" /\ entry[s].class # "permanent"
                     /\ ~entry[s].detached}

\* Whom a pass tries to mount.
Candidates(j) ==
  CASE j = "boot" -> Configured
    [] j = "poll" -> {s \in Down : entry[s].class = "unreachable"}
    [] OTHER -> {s \in Down : entry[s].class # "permanent" /\ ~entry[s].detached}

Select(j) ==
  /\ job[j].pc = "recon" /\ job[j].todo = {}
  /\ job' = [job EXCEPT ![j] =
       IF Candidates(j) = {} THEN IdleJob
       ELSE [IdleJob EXCEPT !.pc = "next", !.todo = Candidates(j), !.after = "pass"]]
  /\ UNCHANGED <<storeVars, entry, vault, hostVars, historyVars, boundVars>>

\* The boot sweep skips a share that was mounted meanwhile.
NextShare(j, s) ==
  LET b == [job[j] EXCEPT !.todo = @ \ {s}]
      others == IF b.todo = {} THEN IdleJob ELSE b
      skipped == j = "boot" /\ entry[s] # None /\ entry[s].state = "mounted"
  IN  /\ job[j].pc = "next" /\ s \in job[j].todo
      /\ job' = [job EXCEPT ![j] =
           IF skipped \/ rows[s] = None THEN others ELSE Begun(b, s)]
      /\ UNCHANGED <<storeVars, entry, vault, hostVars, historyVars, boundVars>>

------------------------------------------------------------------------------
(* The world outside.                                                      *)

ServerFlips ==
  /\ Trouble("host") /\ up' = ~up
  /\ UNCHANGED <<storeVars, entry, vault, os, staged, late, job, historyVars>>

\* The server is switched on again.
ServerReturns ==
  /\ ~up /\ up' = TRUE
  /\ UNCHANGED <<storeVars, entry, vault, os, staged, late, job, historyVars,
                 boundVars>>

MountVanishes(s) ==
  /\ os[s] # None /\ Trouble("vanish")
  /\ os' = [os EXCEPT ![s] = None]
  /\ UNCHANGED <<storeVars, entry, vault, staged, late, up, job, historyVars>>

PasswordRotates(s) ==
  /\ "good" \in {vault[s], staged[s]} /\ Trouble("rotate")
  /\ vault' = [vault EXCEPT ![s] = IF @ = "good" THEN "bad" ELSE @]
  /\ staged' = [staged EXCEPT ![s] = IF @ = "good" THEN "bad" ELSE @]
  /\ UNCHANGED <<storeVars, entry, os, late, up, job, historyVars>>

LateMount(s) ==
  /\ late[s] # None
  /\ late' = [late EXCEPT ![s] = None]
  /\ os' = IF os[s] = None THEN [os EXCEPT ![s] = late[s]] ELSE os
  /\ UNCHANGED <<storeVars, entry, vault, staged, up, job, historyVars, boundVars>>

\* What load makes of the file and the mount table before tasks and verbs run.
Loaded(r) ==
  [s \in Shares |-> IF r[s] # None /\ os[s] # None /\ r[s].target.fs = "cifs"
                      /\ os[s].target.fs = "cifs"
                    THEN [r[s] EXCEPT !.vers = os[s].vers] ELSE r[s]]
LoadedEntries(r) ==
  [s \in Shares |-> IF r[s] = None THEN None
                    ELSE IF os[s] = None THEN Seeded
                    ELSE [Seeded EXCEPT !.state = "mounted"]]
LoadedJobs == [j \in Actors |-> IF j = "boot" /\ j \in crew THEN [IdleJob EXCEPT !.pc = "l3"]
                                ELSE IdleJob]

\* unload aborts the tasks and drops the runtime; load reads the file and
\* reconciles with the mounts that survived.
Restart ==
  /\ Trouble("restart")
  /\ rows' = Loaded(disk) /\ disk' = rows'
  /\ entry' = LoadedEntries(disk)
  /\ job' = LoadedJobs
  /\ off' = {}
  /\ excused' = excused \cup {<<"edit", s>> : s \in {job[h].id : h \in
                   {k \in Handlers : job[k].after = "edit"}}}
  /\ refused' = [s \in Shares |-> [hit |-> FALSE, may |-> {}]]
  /\ UNCHANGED <<used, vault, hostVars, promised>>

------------------------------------------------------------------------------
Init ==
  /\ crew \in Crews
  /\ \E r \in [Shares -> {None} \cup {[target |-> t, vers |-> "none"] : t \in Targets}] :
      /\ os \in [Shares -> {None} \cup
           {[target |-> t, vers |-> IF t.fs = "cifs" THEN Ladder[1] ELSE "none"] : t \in Targets}]
      /\ \A s \in Shares : os[s] # None => r[s] # None /\ os[s].target = r[s].target
      /\ rows = Loaded(r) /\ disk = rows
      /\ entry = LoadedEntries(r)
      /\ used = {s \in Shares : r[s] # None}
      /\ vault = [s \in Shares |-> IF r[s] = None THEN "none" ELSE "good"]
      /\ staged = [s \in Shares |-> "none"]
      /\ late = Nothing
      /\ up \in BOOLEAN
      /\ job = LoadedJobs
      /\ promised = [s \in Shares |-> IF r[s] = None THEN None ELSE r[s].target]
      /\ off = {} /\ excused = {} /\ disturbed = {}
      /\ refused = [s \in Shares |-> [hit |-> FALSE, may |-> {}]]
      /\ asked = 0 /\ happened = {}

Request(h, s) ==
  \/ \E t \in Targets, pw \in Passwords :
       (t.secret \/ pw = "none") /\ AddShare(h, s, t, pw)
  \/ \E t \in Targets : EditShare(h, s, t)
  \/ MountVerb(h, s) \/ UnmountVerb(h, s) \/ RemoveVerb(h, s)

JobStep(j) ==
  \/ Seed(j) \/ Stock(j)
  \/ MountBegins(j) \/ EnsureCredential(j) \/ SetMounting(j)
  \/ Stage(j) \/ Try(j) \/ ClearVers(j) \/ Finalise(j) \/ Adopt(j) \/ Forget(j)
  \/ Record(j) \/ Umount(j) \/ Stamp(j) \/ Check(j) \/ Drop(j) \/ DropEntry(j)
  \/ AwaitL3(j) \/ Select(j)
  \/ \E s \in Shares : Reconcile(j, s) \/ NextShare(j, s)

JobFault(j) ==
  StockFails(j) \/ TryTimesOut(j) \/ TryFails(j) \/ ForgetFails(j)
  \/ UmountFails(j) \/ UmountCutOff(j)

World ==
  \/ ServerFlips \/ ServerReturns \/ Restart
  \/ \E s \in Shares : MountVanishes(s) \/ PasswordRotates(s) \/ LateMount(s)

\* A verb is disturbed as soon as another job, or a late helper, works on its
\* share; a pass that has not come to the share disturbs nobody.
Disturbed ==
  {h \in Handlers :
     /\ job'[h].pc # "idle"
     /\ \/ h \in disturbed
        \/ late'[job'[h].id] # None
        \/ \E k \in Actors \ {h} : job'[k].pc # "idle" /\ job'[k].id = job'[h].id}

Aside == disturbed' = Disturbed /\ UNCHANGED crew

Next ==
  /\ \/ \E h \in Handlers, s \in Shares : Request(h, s)
     \/ \E j \in Actors : JobStep(j) \/ JobFault(j)
     \/ \E j \in crew : StartPass(j)
     \/ World
  /\ Aside

Spec == Init /\ [][Next]_vars

\* The runtime schedules every task and the cadences keep ticking.
FairSpec ==
  /\ Spec
  /\ \A j \in Actors : WF_vars(JobStep(j) /\ Aside)
  /\ \A j \in {"remount", "poll"} \cap Actors : WF_vars(j \in crew /\ StartPass(j) /\ Aside)

------------------------------------------------------------------------------
Job == [pc : Phases, id : Shares \cup {None}, todo : SUBSET Shares,
        snap : [Shares -> Row \cup {None}], rungs : Seq(Dialects \cup {"none"}),
        cleared : BOOLEAN, state : States, class : Classes, pw : Passwords,
        after : Continuations]

TypeOK ==
  /\ rows \in [Shares -> Row \cup {None}] /\ disk \in [Shares -> Row \cup {None}]
  /\ used \subseteq Shares
  /\ entry \in [Shares -> Entry \cup {None}]
  /\ vault \in [Shares -> Passwords] /\ staged \in [Shares -> Passwords]
  /\ os \in [Shares -> Row \cup {None}] /\ late \in [Shares -> Row \cup {None}]
  /\ up \in BOOLEAN
  /\ job \in [Actors -> Job]
  /\ promised \in [Shares -> Targets \cup {Open, None}]
  /\ off \subseteq Shares /\ excused \subseteq {"remove", "edit"} \X Shares
  /\ refused \in [Shares -> [hit : BOOLEAN, may : SUBSET Actors]]
  /\ disturbed \subseteq Handlers
  /\ crew \in Crews /\ asked \in 0..MaxRequests /\ happened \subseteq Troubles

\* "The call returned Ok -> the record is on disk": what the operator was told
\* of a share is what memory and file say, whatever mounts with older clones of
\* the row finish later and whenever the plugin restarts.
AnswersAreKept ==
  \A s \in Shares :
    /\ promised[s] \in Targets =>
         /\ rows[s] # None /\ rows[s].target = promised[s]
         /\ disk[s] # None /\ disk[s].target = promised[s]
    /\ promised[s] = None => rows[s] = None /\ disk[s] = None

\* The file only ever changes by what the operator asked for: no pass, no late
\* mount and no restart writes a stale clone back or makes a removed share
\* reappear.  A save that failed leaves its change open, and the next save of
\* anything makes it durable.
TargetIn(r) == [s \in Shares |-> IF r[s] = None THEN None ELSE r[s].target]
Unsaved == {c \in [share : Shares, to : Targets \cup {None}] :
              c.to = TargetIn(rows)[c.share] /\ c.to # TargetIn(disk)[c.share]}
Removing == {[share |-> job[h].id, to |-> None] : h \in
              {k \in Handlers : job[k].pc \notin {"idle", "entry"}
                                 /\ job[k].after = "remove"}}
Ledger == INSTANCE ShareLedger WITH
            record <- TargetIn(disk), open <- Unsaved \cup Removing, sent <- asked
OnlyAsRequested == Ledger!Spec

\* "The OS mount must be gone before the row drops": a removed share is not
\* mounted, unless another job or a late helper worked on it during the removal.
RemovedIsUnmounted ==
  \A s \in Shares :
    promised[s] = None /\ os[s] # None => <<"remove", s>> \in excused

\* "or the operator changes a password and the old mount keeps serving": a
\* live mount is that of the edited row, or about to be cycled, unless the edit
\* met a mount in flight or a late helper, its unmount failed or was cut off, or
\* the plugin was restarted before it.
EditReachesTheMount ==
  \A s \in Shares :
    rows[s] # None /\ os[s] # None /\ promised[s] = rows[s].target
    /\ os[s].target # rows[s].target
    => \/ <<"edit", s>> \in excused
       \/ \E h \in Handlers : job[h].id = s /\ job[h].pc = "umount"
                              /\ job[h].after = "edit"

\* "the remount cadence leaves it alone until they ask for it back": a share
\* that was disconnected stays so until the next verb or restart, unless another
\* job or a late helper worked on it during the disconnect, a pass had selected
\* it before the wish was stamped, or the boot sweep was not over.
DetachSticks == \A s \in off : os[s] = None

\* "a credential storm against the server": a refused password is not offered
\* again, except by jobs that had staged it before it was deleted.
NoStorm ==
  [][\A j \in Actors :
       /\ job[j].pc = "try" /\ job'[j] # job[j] /\ happened' = happened
       /\ HelperSays(j, Head(job[j].rungs)) = "refused"
       /\ refused[job[j].id].hit /\ "vault" \notin happened
       => j \in refused[job[j].id].may]_vars

\* In the end the entry of a share agrees with the mount table, whatever jobs
\* overwrote each other's outcome.
Agrees(s) ==
  rows[s] # None => ((entry[s] # None /\ entry[s].state = "mounted") <=> os[s] # None)
EntriesSettle == <>[](\A s \in Shares : Agrees(s))

\* "a mount that vanished for a transient reason comes back on its own": a
\* share that can be mounted, is wanted and was not refused gets mounted, by the
\* remount pass.
Ready(s) ==
  /\ rows[s] # None /\ up /\ (rows[s].target.secret => vault[s] = "good")
  /\ entry[s] # None /\ entry[s].class # "permanent" /\ ~entry[s].detached
SharesComeBack ==
  "remount" \in crew => \A s \in Shares : []<>(~Ready(s) \/ os[s] # None)

\* The answers the verbs of network.shares/runtime.rs gave stay true.  What was
\* saved is kept against every mount, pass, restart and failed save.  A removed
\* share is not mounted, an edited one is mounted as edited and a detached one
\* stays detached while passes start, reconcile, select and mount before, during
\* and after the verb; a mount of the very share that is in flight during the
\* verb is excepted, and so is what each part says.
PromisesAreKept ==
  /\ TypeOK
  /\ AnswersAreKept
  /\ RemovedIsUnmounted
  /\ EditReachesTheMount
  /\ DetachSticks
==============================================================================
