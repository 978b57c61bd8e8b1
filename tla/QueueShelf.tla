------------------------------ MODULE QueueShelf ------------------------------
(***************************************************************************)
(* The queue shelf of the playback plugin: the queue verbs (queue.rs), the *)
(* library verbs that edit the queue when a USB volume is removed or       *)
(* renamed (library.rs), the skip traversal, the pruning of tracks that    *)
(* are gone (gone_curation.rs), and the idle observer that republishes the *)
(* queue when MPD reports a change (idle_observer.rs).                     *)
(*                                                                         *)
(* Every verb and every refresh opens its own connection to MPD and issues *)
(* its commands one by one, so other clients of MPD, the player itself and *)
(* the observer act between any two of them.  The plugin serves one verb   *)
(* at a time.  Positions count from 1; position 0 stands for "no position".*)
(*                                                                         *)
(* A URI is a tree and a file; "old" and "new" are the two names of a USB  *)
(* volume.  The availability sticker, the metadata of an entry, now_playing*)
(* and the stored playlists are left out.                                  *)
(***************************************************************************)
EXTENDS Naturals, FiniteSets, SequencesExt

CONSTANTS
  None,         \* no value
  Queues,       \* queues, players and volumes the shelf may be loaded with
  Selections,   \* the URIs an enqueue, a selection or a playlist stands for
  Spots,        \* positions requests and other clients name
  Truncation,   \* QUEUE_TRUNCATION_DEFAULT: rows the envelope shows at most
  MaxQueue,     \* longest queue a request may lead to
  MaxVerbs,     \* how many requests the operator makes
  MaxTrouble,   \* how many other events happen, faults included
  Allowed       \* the events that may happen along with each request

Removable == {"old", "new"}
Trees == Removable \cup {"internal", "net"}
Verbs == {"insert", "delete", "move", "clear", "replace", "refill", "load",
          "play", "skip", "remove", "rewrite", "rename"}

\* other: another client edits the queue.  advance: the player goes on to the
\* next row.  yank: the volume is pulled.  idle: the idle connection drops.
\* refresh: the refresh cannot connect.  break: a connection breaks between two
\* commands.  resolve: a dlna: URI does not resolve.  busy: the volume does not
\* umount.  deadline: an update outlives the wait for it.  tell: update_state
\* fails.  The rename fails at the I/O of its umount (wrapper), at the alias or
\* at the drive's lookup (save), its volume does not mount again (mount), or a
\* verb it sends is not delivered or its reply is lost (dispatch).
RenameFailures == {"wrapper", "save", "mount", "dispatch"}
Events == {"other", "advance", "yank", "idle", "refresh", "break", "resolve",
           "busy", "deadline", "tell"} \cup RenameFailures

ASSUME QueuesAssumption ==
  \A p \in Queues : /\ p.cur \in 0..Len(p.uris)
                    /\ p.play \in {"play", "pause", "stop"}
                    /\ p.cur = 0 => p.play = "stop"
                    /\ p.volume \in Removable \cup {"none"}
ASSUME BoundsAssumption ==
  Spots \subseteq Nat \ {0} /\ {Truncation, MaxQueue} \subseteq Nat /\ MaxVerbs \in Nat /\ MaxTrouble \in Nat
ASSUME AllowedAssumption == Allowed \in [Verbs -> SUBSET Events]

VARIABLES
  mpd,               \* MPD: queue, current position, transport, last song id
  volume, db, scanning, source,  \* name it is mounted under, trees in MPD's
                                 \* database, an update runs, the registry
  job,               \* what the verb handler and the observer are doing
  observer,          \* the observer's idle connection and its pending events
  mirror, subject,   \* QueueContext::mirror, the audio_queue subject
  rename,            \* what storage.usb holds while it renames the volume
  behind,            \* history: no event will tell that the subject is old
  asked, happened    \* requests made, other events that happened

libraryVars == <<volume, db, scanning, source>>
shelfVars == <<mirror, subject, behind>>
boundVars == <<asked, happened>>
vars == <<mpd, libraryVars, job, observer, shelfVars, rename, boundVars>>

Threads == {"verb", "observer"}

Happens(e) ==
  /\ e \notin happened /\ Cardinality(happened) < MaxTrouble
  /\ \A v \in asked : e \in Allowed[v]
  /\ happened' = happened \cup {e} /\ UNCHANGED asked

Requested(v) ==
  /\ Cardinality(asked) < MaxVerbs /\ happened \subseteq Allowed[v]
  /\ asked' = asked \cup {v} /\ UNCHANGED happened

Fine == UNCHANGED boundVars

Uris(rows) == [k \in 1..Len(rows) |-> rows[k].uri]
Positions(rows, t) == SelectSeq([k \in 1..Len(rows) |-> k], LAMBDA k : rows[k].uri.tree = t)
Moved(u) == IF u.tree = "old" THEN [u EXCEPT !.tree = "new"] ELSE u

------------------------------------------------------------------------------
(* MPD, as the shelf uses it.                                              *)

OnDisk(u) ==
  CASE u.tree = "internal" -> u.file # "gone"
    [] u.tree = "net" -> TRUE
    [] OTHER -> u.tree = volume

InDb(u) == IF u.tree = "internal" THEN u.file # "gone" ELSE u.tree \in db
Addable(u) == u.tree = "net" \/ InDb(u)

InsertRow(m, u, p) ==
  [m EXCEPT !.queue = InsertAt(@, p, [id |-> m.last + 1, uri |-> u]),
            !.cur = IF @ >= p THEN @ + 1 ELSE @, !.last = @ + 1]

\* Deleting the current row plays the next one, or stops.
DeleteRow(m, i) ==
  LET q == RemoveAt(m.queue, i)
      cut == [m EXCEPT !.queue = q]
  IN  CASE m.cur # i -> [cut EXCEPT !.cur = IF @ > i THEN @ - 1 ELSE @]
        [] m.cur = i /\ (m.play = "stop" \/ i > Len(q)) -> [cut EXCEPT !.cur = 0, !.play = "stop"]
        [] OTHER -> [cut EXCEPT !.play = IF @ = "play" THEN "play" ELSE "stop"]

EmptyQueue(m) == [m EXCEPT !.queue = <<>>, !.cur = 0, !.play = "stop"]
PlayRow(m, p) == [m EXCEPT !.cur = p, !.play = "play"]
IndexOf(m, i) == CHOOSE k \in 1..Len(m.queue) : m.queue[k].id = i
HasId(m, i) == \E k \in 1..Len(m.queue) : m.queue[k].id = i

MoveRow(m, i, p) ==
  LET row == m.queue[i]
      q == InsertAt(RemoveAt(m.queue, i), p, row)
      now == [m EXCEPT !.queue = q]
  IN  IF m.cur = 0 THEN now ELSE [now EXCEPT !.cur = IndexOf(now, m.queue[m.cur].id)]

\* A command list runs without another client in between and stops at the
\* first command that fails; what ran before stays.
ReplaceRows(m, us) ==
  LET bad == {k \in 1..Len(us) : ~Addable(us[k])}
      n == IF bad = {} THEN Len(us) ELSE (CHOOSE k \in bad : \A l \in bad : k <= l) - 1
      filled == [EmptyQueue(m) EXCEPT
                   !.queue = [k \in 1..n |-> [id |-> m.last + k, uri |-> us[k]]],
                   !.last = @ + n]
  IN  IF bad = {} /\ OnDisk(us[1]) THEN [ok |-> TRUE, mpd |-> PlayRow(filled, 1)]
      ELSE [ok |-> FALSE, mpd |-> filled]

\* A command: `off` marks a row the skip traversal saw as unavailable.
Command(op, u, i, p) == [op |-> op, uri |-> u, id |-> i, pos |-> p, uris |-> <<>>, off |-> FALSE]
Add(u, p) == Command("add", u, 0, p)
Delete(i) == Command("delete", None, i, 0)
Play(p) == Command("play", None, 0, p)
Simple(op) == Command(op, None, 0, 0)

\* Where `play` starts: at the position it names, or at the current row.
PlayTarget(c) == IF c.pos > 0 THEN c.pos ELSE IF mpd.cur = 0 THEN 1 ELSE mpd.cur

Refuses(c) ==
  CASE c.op = "add" -> ~Addable(c.uri) \/ c.pos > Len(mpd.queue) + 1
    [] c.op \in {"delete", "move"} -> ~HasId(mpd, c.id) \/ c.pos > Len(mpd.queue)
    [] c.op = "play" -> \/ PlayTarget(c) > Len(mpd.queue)
                        \/ ~OnDisk(mpd.queue[PlayTarget(c)].uri)
    [] OTHER -> FALSE

Accepted(c) ==
  CASE c.op = "add" -> InsertRow(mpd, c.uri, IF c.pos = 0 THEN Len(mpd.queue) + 1 ELSE c.pos)
    [] c.op = "delete" -> DeleteRow(mpd, IndexOf(mpd, c.id))
    [] c.op = "move" -> MoveRow(mpd, IndexOf(mpd, c.id), c.pos)
    [] c.op = "clear" -> EmptyQueue(mpd)
    [] c.op = "play" -> PlayRow(mpd, PlayTarget(c))
    [] c.op = "pause" -> [mpd EXCEPT !.play = IF @ = "play" THEN "pause" ELSE @]
    [] c.op = "stop" -> [mpd EXCEPT !.play = "stop"]

Result(c) ==
  CASE c.op = "replace" -> ReplaceRows(mpd, c.uris)
    [] c.op # "replace" /\ Refuses(c) -> [ok |-> FALSE, mpd |-> mpd]
    [] OTHER -> [ok |-> TRUE, mpd |-> Accepted(c)]

------------------------------------------------------------------------------
(* Sources.                                                                *)

\* Mutant: the floor source claims what no USB source owns.
SourceFloorClaims(u) ==
  CASE u.tree = "net" -> None
    [] u.tree \in Removable /\ source[u.tree] # "none" -> u.tree
    [] OTHER -> "internal"

\* resolve_source: the floor does not claim leftovers of the USB tree.
Source(u) ==
  CASE u.tree = "net" -> None
    [] u.tree = "internal" -> "internal"
    [] OTHER -> IF source[u.tree] = "none" THEN None ELSE u.tree

StateOf(s) ==
  CASE s = None -> "probing"
    [] s = "internal" -> "online"
    [] OTHER -> source[s]

\* classify_local_uri_gone, against the song paths read earlier.
Gone(u, songs) ==
  /\ u.tree # "net"
  /\ IF u.tree = "internal" THEN u.file = "gone" ELSE u.tree \notin songs
  /\ Source(u) # None /\ StateOf(Source(u)) = "online"

------------------------------------------------------------------------------
(* Handlers.                                                               *)

NoView == [rows |-> <<>>, cur |-> 0, fresh |-> FALSE]
NothingParked == [rows |-> <<>>, cur |-> 0, play |-> "stop"]
IdleJob == [kind |-> "none", pc |-> "idle", uris |-> <<>>, how |-> "tail", pos |-> 0,
            tree |-> None, songs |-> {}, items |-> <<>>, todo |-> <<>>, did |-> FALSE,
            held |-> None, view |-> NoView, base |-> None,
            noisy |-> FALSE, stale |-> FALSE, broken |-> FALSE, next |-> <<>>]
NoRename == [stage |-> "none", parked |-> NothingParked, base |-> None, noisy |-> FALSE,
             failed |-> FALSE]

(* history: `base` is MPD as a verb or a rename finds it, `noisy` whether  *)
(* someone else changed MPD since, `stale` whether the library changed,    *)
(* `failed` whether the rename gave up or lost what it had parked.         *)
(* A view is fresh while MPD is what it was when the view was read.        *)

RenameStages == {"park", "putback", "stop", "restore", "rewrite"}
Renaming(j) == rename.stage \in RenameStages /\ j.kind = rename.stage

\* Mutant: the observer is also told of events it has no task for.
SignalAll(e) ==
  IF observer.state = "up" THEN [observer EXCEPT !.pending = @ \cup {e, "mixer"}] ELSE observer

\* MPD keeps the events the observer idles on until it asks again.
Signal(e) == IF observer.state = "up" THEN [observer EXCEPT !.pending = @ \cup {e}] ELSE observer

\* Someone else interferes with job j, or with the rename.
Noisy(j) == IF j.pc = "idle" THEN j ELSE [j EXCEPT !.noisy = TRUE, !.base = None]
Disturbed ==
  IF rename.stage = "none" THEN rename ELSE [rename EXCEPT !.noisy = TRUE, !.base = None]

\* MPD becomes m by a command of t (None: another client), the jobs js.
Becomes(t, m, js) ==
  /\ mpd' = m
  /\ IF m = mpd THEN job' = js /\ UNCHANGED <<observer, shelfVars, rename>>
     ELSE /\ job' = [x \in Threads |->
                       [IF x = t THEN js[x] ELSE Noisy(js[x]) EXCEPT !.view.fresh = FALSE]]
          /\ observer' = Signal("queue")
          /\ mirror' = [mirror EXCEPT !.fresh = FALSE]
          /\ subject' = [subject EXCEPT !.fresh = FALSE]
          /\ behind' = (behind \/ observer.state # "up")
          /\ rename' = IF t = "verb" /\ Renaming(job["verb"]) THEN rename ELSE Disturbed

\* The library changed by a step of t: what the others read of it is stale.
Stale(js, t) ==
  [x \in Threads |-> IF x = t \/ js[x].pc = "idle" THEN js[x]
                      ELSE [js[x] EXCEPT !.stale = TRUE, !.base = None]]

\* The refresh goes on with its next task.
Task(next) ==
  IF next = <<>> THEN IdleJob
  ELSE [IdleJob EXCEPT !.kind = Head(next), !.next = Tail(next),
                       !.pc = IF Head(next) = "prune" THEN "songs" ELSE "read"]
Ended(t, j) == IF t = "observer" /\ j.pc = "end" THEN Task(j.next) ELSE j

Step(t, j) == job' = [job EXCEPT ![t] = Ended(t, j)]
Goto(t, p) == Step(t, [job[t] EXCEPT !.pc = p])
Run(t, cs) == Step(t, [job[t] EXCEPT !.pc = "run", !.todo = cs, !.items = <<>>])

Reading(t, p) ==
  /\ job[t].pc = p
  /\ UNCHANGED <<mpd, libraryVars, observer, shelfVars, rename, boundVars>>

\* The connection is gone: the read fails and so does the verb.
ReadFails(t) ==
  /\ job[t].broken /\ job[t].pc \in {"songs", "items", "status", "position"}
  /\ Step(t, [job[t] EXCEPT !.pc = "end", !.held = None])
  /\ UNCHANGED <<mpd, libraryVars, observer, shelfVars, rename, boundVars>>

\* A dlna: URI resolves, or the request ends before the queue is written.  A
\* playlist is resolved after load_playlist_to_queue has cleared the queue.
Resolve(t) ==
  LET j == job[t]
      adds == [k \in 1..Len(j.uris) |-> Add(j.uris[k], 0)]
      play == IF j.kind = "refill" \/ j.pos > 0 THEN <<Play(j.pos)>> ELSE <<>>
  IN  /\ j.pc = "resolve"
      /\ \/ /\ Fine
            /\ CASE j.kind = "insert" /\ j.how # "tail" -> Goto(t, "position")
                 [] j.kind = "insert" /\ j.how = "tail" -> Run(t, adds)
                 [] j.kind = "refill" -> Run(t, <<Simple("clear")>> \o adds \o play)
                 [] j.kind = "load" -> Run(t, adds \o play)
         \/ /\ \E k \in 1..Len(j.uris) : j.uris[k].tree = "net"
            /\ Happens("resolve") /\ Goto(t, "end")
      /\ UNCHANGED <<mpd, libraryVars, observer, shelfVars, rename>>

\* Mutant: every URI of the batch is inserted at the same position.
NextInsertPositionStuck(t) ==
  LET j == job[t]
      p == IF mpd.cur = 0 THEN 0 ELSE IF j.how = "next" THEN mpd.cur + 1 ELSE j.pos
  IN  /\ Reading(t, "position") /\ ~j.broken
      /\ Run(t, [k \in 1..Len(j.uris) |-> Add(j.uris[k], p)])

\* With no current row there is nothing to insert after: the rows go to the end.
NextInsertPosition(t) ==
  LET j == job[t]
      p == IF mpd.cur = 0 THEN 0 ELSE IF j.how = "next" THEN mpd.cur + 1 ELSE j.pos
  IN  /\ Reading(t, "position") /\ ~j.broken
      /\ Run(t, [k \in 1..Len(j.uris) |-> Add(j.uris[k], IF p = 0 THEN 0 ELSE p + k - 1)])

\* load_song_db_paths
ReadSongs(t) ==
  /\ Reading(t, "songs") /\ ~job[t].broken
  /\ Step(t, [job[t] EXCEPT !.pc = "items", !.songs = db, !.stale = FALSE])

Parked(rows, t) ==
  LET ps == Positions(rows, t)
  IN  [k \in 1..Len(ps) |-> [pos |-> ps[k], uri |-> rows[ps[k]].uri]]

\* playlistinfo, and what follows when it settles the verb by itself.
ReadItems(t) ==
  LET j == [job[t] EXCEPT !.items = mpd.queue]
      rows == mpd.queue
      gone == SelectSeq(rows, LAMBDA r : Gone(r.uri, j.songs))
      idle == j.tree # None /\ Positions(rows, j.tree) = <<>>
  IN  /\ Reading(t, "items") /\ ~j.broken
      /\ CASE j.kind = "prune" ->
              Step(t, [j EXCEPT !.pc = IF gone = <<>> THEN "end" ELSE "run",
                                !.todo = [k \in 1..Len(gone) |-> Delete(gone[k].id)]])
           [] j.kind = "play" ->
              Step(t, [j EXCEPT !.pc = IF j.pos > Len(rows) THEN "end" ELSE "run",
                                !.todo = <<Play(j.pos)>>])
           [] j.kind = "skip" ->
              Step(t, [j EXCEPT !.pc = "status",
                 !.todo = [k \in 1..Len(rows) |->
                             [Play(k) EXCEPT !.uri = rows[k].uri,
                                             !.off = StateOf(Source(rows[k].uri)) = "offline"]]])
           [] j.kind = "park" /\ j.held = None /\ idle ->
              Step(t, [j EXCEPT !.pc = "end", !.held = NothingParked])
           [] j.kind \in {"park", "remove", "rewrite"} /\ idle /\ (j.kind = "park" => j.held # None) ->
              Step(t, [j EXCEPT !.pc = "end"])
           [] OTHER -> Step(t, [j EXCEPT !.pc = "status"])

\* Mutant: skip starts at the current row.
PlanSkipFromCurrent(j) ==
  SubSeq(j.todo, IF mpd.cur = 0 THEN 1 ELSE mpd.cur, Len(j.todo))

\* The rows after the current one.
PlanSkip(j) == SubSeq(j.todo, mpd.cur + 1, Len(j.todo))

\* Mutant: the player is not stopped first.
PlanDropPlaying(j) ==
  LET ps == Positions(j.items, j.tree)
  IN  [k \in 1..Len(ps) |-> Delete(j.items[ps[k]].id)]

\* drop_queue_items_under: stop when the current row is one of them.
PlanDrop(j) ==
  LET ps == Positions(j.items, j.tree)
      doomed == \E k \in 1..Len(ps) : ps[k] = mpd.cur
  IN  (IF doomed THEN <<Simple("stop")>> ELSE <<>>)
        \o [k \in 1..Len(ps) |-> Delete(j.items[ps[k]].id)]

Resume(play, p) ==
  CASE play = "play" -> <<Play(p)>>
    [] play = "pause" -> <<Play(p), Simple("pause")>>
    [] OTHER -> <<>>

\* Mutant: the transport is left where the deletions put it.
PlanRewriteSilently(j) ==
  LET ps == Reverse(Positions(j.items, "old"))
  IN  [k \in 1..Len(ps) |-> [Add(Moved(j.items[ps[k]].uri), ps[k])
                               EXCEPT !.id = j.items[ps[k]].id]]

\* rewrite_queue_uris_under: each row is added under its new name at its own
\* position, the last one first; the deletion of the old row follows it.
PlanRewrite(j) ==
  LET ps == Reverse(Positions(j.items, "old"))
      hit == \E k \in 1..Len(ps) : ps[k] = mpd.cur
  IN  [k \in 1..Len(ps) |-> [Add(Moved(j.items[ps[k]].uri), ps[k])
                               EXCEPT !.id = j.items[ps[k]].id]]
        \o (IF hit THEN Resume(mpd.play, mpd.cur) ELSE <<>>)

\* park_queue_items_under takes its own list, then drops by a second read.
Park(j) ==
  LET hit == \E k \in 1..Len(j.items) : k = mpd.cur /\ j.items[k].uri.tree = j.tree
  IN  [rows |-> Parked(j.items, j.tree),
       cur |-> IF hit THEN mpd.cur ELSE 0, play |-> IF hit THEN mpd.play ELSE "stop"]

ReadStatus(t) ==
  LET j == job[t]
  IN  /\ Reading(t, "status") /\ ~j.broken
      /\ CASE j.kind = "skip" /\ PlanSkip(j) = <<>> -> Step(t, [j EXCEPT !.pc = "read", !.todo = <<>>])
           [] j.kind = "skip" /\ PlanSkip(j) # <<>> -> Run(t, PlanSkip(j))
           [] j.kind = "rewrite" -> Run(t, PlanRewrite(j))
           [] j.kind = "park" /\ j.held = None ->
              Step(t, [j EXCEPT !.pc = "items", !.held = Park(j)])
           [] OTHER -> Run(t, PlanDrop(j))

------------------------------------------------------------------------------
(* Commands.                                                               *)

\* Failures the handler goes on after.
Tolerated(j, op) ==
  \/ j.kind \in {"restore", "putback"} 
  \/ j.kind = "rewrite" /\ op # "delete"
  \/ j.kind \in {"prune", "skip"}
  \/ j.kind = "load" /\ op = "play"

\* What is left of the plan after command c.
Rest(j, c, ok) ==
  LET rest == Tail(j.todo)
  IN  CASE ok /\ j.kind = "rewrite" /\ c.op = "add" -> <<Delete(c.id)>> \o rest
        [] j.kind = "skip" /\ (ok \/ j.broken) -> <<>>
        [] ~ok /\ j.kind # "skip" /\ c.op = "play" -> <<>>
        [] OTHER -> rest

\* Nothing restored, rewritten or pruned: no transport, no publish.
Vain(j) == j.kind \in {"restore", "putback", "rewrite", "prune"} /\ ~j.did
               /\ (j.todo = <<>> \/ Head(j.todo).op = "play")

\* A row that was unavailable, of a source that is not reachable now.
Hops(c) == c.off /\ StateOf(Source(c.uri)) # "online"

After(j, c, ok) ==
  LET k == [j EXCEPT !.todo = Rest(j, c, ok), !.did = @ \/ (ok /\ c.op \in {"add", "delete"})]
  IN  CASE ~ok /\ ~Tolerated(j, c.op) -> [j EXCEPT !.pc = "end", !.todo = <<>>, !.held = None]
        [] Vain(k) -> [k EXCEPT !.pc = "end", !.todo = <<>>]
        [] j.kind = "load" /\ c.op = "clear" -> [k EXCEPT !.pc = "resolve"]
        [] k.todo = <<>> -> [k EXCEPT !.pc = "read"]
        [] OTHER -> k

\* One command and its answer.
Execute(t) ==
  LET j == job[t]
      r == IF j.broken THEN [ok |-> FALSE, mpd |-> mpd] ELSE Result(Head(j.todo))
  IN  /\ j.pc = "run" /\ j.todo # <<>> /\ ~Hops(Head(j.todo))
      /\ Becomes(t, r.mpd, [job EXCEPT ![t] = Ended(t, After(j, Head(j.todo), r.ok))])
      /\ UNCHANGED <<libraryVars, boundVars>>

\* The skip traversal passes over it without asking MPD.
HopOver(t) ==
  /\ Reading(t, "run") /\ job[t].todo # <<>> /\ Hops(Head(job[t].todo))
  /\ Step(t, [After([job[t] EXCEPT !.broken = FALSE], Head(job[t].todo), FALSE)
                EXCEPT !.broken = job[t].broken])

------------------------------------------------------------------------------
(* publish_queue.                                                          *)

\* What the shelf shows is what MPD holds.
Told == mirror.fresh /\ subject.fresh

\* A publish that cannot read is skipped; the observer has spent its event.
SkipPublish(t) ==
  /\ job[t].broken /\ job[t].pc \in {"read", "readcur"}
  /\ Goto(t, "end")
  /\ behind' = (behind \/ (t = "observer" /\ ~Told))
  /\ UNCHANGED <<mpd, libraryVars, observer, mirror, subject, rename, boundVars>>

\* The envelope carries the first rows of a long queue.
Shown(rows) == SubSeq(rows, 1, IF Len(rows) > Truncation THEN Truncation ELSE Len(rows))

ReadQueue(t) ==
  /\ Reading(t, "read") /\ ~job[t].broken
  /\ Step(t, [job[t] EXCEPT !.pc = "readcur",
                            !.view = [rows |-> Shown(mpd.queue), cur |-> 0, fresh |-> TRUE]])

ReadCurrent(t) ==
  /\ Reading(t, "readcur") /\ ~job[t].broken
  /\ Step(t, [job[t] EXCEPT !.pc = "store", !.view.cur = mpd.cur])

\* An older view stored over a newer one leaves the shelf behind.
Overtakes(t, v) == ~job[t].view.fresh /\ v.fresh

Store(t) ==
  /\ job[t].pc = "store" /\ Goto(t, "tell")
  /\ mirror' = job[t].view
  /\ behind' = (behind \/ Overtakes(t, mirror))
  /\ UNCHANGED <<mpd, libraryVars, observer, subject, rename, boundVars>>

\* A failed update is logged and not repeated; the observer has spent its event.
UpdateState(t) ==
  /\ job[t].pc = "tell" /\ Goto(t, "end")
  /\ \/ /\ subject' = job[t].view /\ Fine
        /\ behind' = ((behind /\ ~(job[t].view.fresh /\ mirror.fresh)) \/ Overtakes(t, subject))
     \/ /\ Happens("tell") /\ UNCHANGED subject
        /\ behind' = (behind \/ (t = "observer" /\ ~Told))
  /\ UNCHANGED <<mpd, libraryVars, observer, mirror, rename>>

------------------------------------------------------------------------------
(* The library verbs around the queue.                                     *)

\* MPD queues an update, unless the connection is gone.  Its event at the start
\* is left out: the refresh it starts reads the same database as an earlier one.
StartScan(t) == scanning' = (scanning \/ ~job[t].broken)

\* safe_remove of storage.usb umounts the volume or refuses.
Detach(t) ==
  /\ job[t].pc = "detach"
  /\ \/ /\ volume' = (IF volume = job[t].tree THEN "none" ELSE volume) /\ Fine
        /\ job' = Stale([job EXCEPT ![t].pc = "scrub"], t)
     \/ Happens("busy") /\ Step(t, IdleJob) /\ UNCHANGED volume
  /\ UNCHANGED <<mpd, db, scanning, source, observer, shelfVars, rename>>

\* The parent of the source's path is updated.
Scrub(t) ==
  /\ job[t].pc = "scrub" /\ StartScan(t)
  /\ Goto(t, "unregister")
  /\ UNCHANGED <<mpd, volume, db, source, observer, shelfVars, rename, boundVars>>

Unregister(t) ==
  /\ job[t].pc = "unregister"
  /\ source' = [source EXCEPT ![job[t].tree] = "none"]
  /\ job' = Stale([job EXCEPT ![t].pc = "settle"], t)
  /\ UNCHANGED <<mpd, volume, db, scanning, observer, shelfVars, rename, boundVars>>

\* restore_parked_uris and rewrite_uri_prefix update the new name first.
Update(t) ==
  /\ job[t].pc = "update" /\ StartScan(t)
  /\ Goto(t, "settle")
  /\ UNCHANGED <<mpd, volume, db, source, observer, shelfVars, rename, boundVars>>

\* wait_for_update_to_settle, and what the verb does next in any case.
Settle(t) ==
  LET j == job[t]
  IN  /\ j.pc = "settle"
      /\ \/ (~scanning \/ j.broken) /\ Fine /\ UNCHANGED rename
         \/ /\ scanning /\ Happens("deadline")
            /\ rename' = IF Renaming(j) THEN Disturbed ELSE rename
      /\ CASE j.kind = "restore" -> Run(t, j.todo)
           [] j.kind = "rewrite" -> Goto(t, "items")
           [] OTHER -> Goto(t, "end")
      /\ UNCHANGED <<mpd, libraryVars, observer, shelfVars>>

\* The rename ends in a failure: what was parked is dropped with it.
Failed(r) == [r EXCEPT !.stage = "done", !.parked = NothingParked, !.failed = TRUE]

\* What storage.usb does after each part of a rename; a failed park counts as
\* an empty one.
AfterStage(j) ==
  CASE j.kind = "park" ->
       [rename EXCEPT !.stage = "umount",
                      !.parked = IF j.held = None THEN NothingParked ELSE j.held]
    [] j.kind = "stop" -> [rename EXCEPT !.stage = "mount"]
    [] j.kind = "restore" -> [rename EXCEPT !.stage = "rewrite"]
    [] OTHER -> [rename EXCEPT !.stage = "done", !.parked = NothingParked]

\* The queue part of a verb is over, or the whole verb.  The reply of a park may
\* be lost on its way back to storage.usb, and the rows with it.
End(t) ==
  LET j == job[t]
  IN  /\ j.pc = "end"
      /\ IF j.kind = "remove" /\ source[j.tree] # "none" THEN Goto(t, "detach")
         ELSE Step(t, IdleJob)
      /\ \/ rename' = (IF Renaming(j) THEN AfterStage(j) ELSE rename) /\ Fine
         \/ /\ Renaming(j) /\ j.kind = "park" /\ Happens("dispatch")
            /\ rename' = [AfterStage(j) EXCEPT !.parked = NothingParked, !.failed = TRUE]
      /\ UNCHANGED <<mpd, libraryVars, observer, shelfVars>>

------------------------------------------------------------------------------
(* A rename, as storage.usb drives it (module UsbStorage).                 *)

BeginRename ==
  /\ rename.stage = "none" /\ volume = "old" /\ source["old"] # "none"
  /\ observer.state # "boot"
  /\ Requested("rename")
  /\ rename' = [rename EXCEPT !.stage = "park", !.base = mpd]
  /\ UNCHANGED <<mpd, libraryVars, job, observer, shelfVars>>

\* Mutant: the rows are put back in the order they were found last.
RestorePlanBackwards(h, s) ==
  LET adds == [k \in 1..Len(h.rows) |->
                 Add(IF s = "restore" THEN Moved(h.rows[k].uri) ELSE h.rows[k].uri, h.rows[k].pos)]
  IN  Reverse(adds) \o (IF h.cur = 0 THEN <<>> ELSE Resume(h.play, h.cur))

\* restore_parked_queue: addid at the original positions, the first one first,
\* under the name rewrite_parked_queue gives; then the transport.
RestorePlan(h, s) ==
  LET adds == [k \in 1..Len(h.rows) |->
                 Add(IF s = "restore" THEN Moved(h.rows[k].uri) ELSE h.rows[k].uri, h.rows[k].pos)]
  IN  adds \o (IF h.cur = 0 THEN <<>> ELSE Resume(h.play, h.cur))

\* storage.usb sends the next verb; with nothing parked there is none to restore.
Dispatch ==
  LET s == rename.stage
      new == [IdleJob EXCEPT !.kind = s, !.tree = "old", !.base = mpd]
  IN  /\ s \in RenameStages /\ job["verb"].pc = "idle"
      /\ IF s \in {"restore", "putback"} /\ rename.parked.rows = <<>>
         THEN /\ rename' = AfterStage([kind |-> s]) /\ UNCHANGED job
         ELSE /\ UNCHANGED rename
              /\ CASE s = "park" -> Step("verb", [new EXCEPT !.pc = "items"])
                   [] s = "stop" -> Step("verb", [new EXCEPT !.pc = "scrub"])
                   [] s = "rewrite" -> Step("verb", [new EXCEPT !.pc = "update"])
                   [] OTHER -> Step("verb", [new EXCEPT !.todo = RestorePlan(rename.parked, s),
                                               !.pc = IF s = "restore" THEN "update" ELSE "run"])
      /\ UNCHANGED <<mpd, libraryVars, observer, shelfVars, boundVars>>

\* The dispatch fails and the rename goes on: a park counts as an empty one, a
\* stop or a rewrite is skipped, and rows that are not restored are lost.
DispatchFails ==
  LET s == rename.stage
      next == AfterStage([kind |-> s, held |-> None])
  IN  /\ s \in RenameStages /\ job["verb"].pc = "idle" /\ Happens("dispatch")
      /\ s \in {"restore", "putback"} => rename.parked.rows # <<>>
      /\ rename' = IF s \in {"restore", "putback"}
                   THEN [next EXCEPT !.parked = NothingParked, !.failed = TRUE] ELSE next
      /\ UNCHANGED <<mpd, libraryVars, job, observer, shelfVars>>

\* umount, or busy even at the retry: the rows go back under the old name.  When
\* the wrapper cannot be run the verb returns at once and the rows are lost.
Umount ==
  /\ rename.stage = "umount"
  /\ \/ /\ volume' = (IF volume = "old" THEN "none" ELSE volume) /\ Fine
        /\ rename' = [rename EXCEPT !.stage = "stop"]
     \/ /\ volume = "old" /\ Happens("busy")
        /\ rename' = [rename EXCEPT !.stage = "putback"] /\ UNCHANGED volume
     \/ /\ volume = "old" /\ Happens("wrapper")
        /\ rename' = Failed(rename) /\ UNCHANGED volume
  /\ job' = Stale(job, None)
  /\ UNCHANGED <<mpd, db, scanning, source, observer, shelfVars>>

\* The alias is saved, and the reconcile mounts the volume under its new name and
\* adds the source.  Without the alias or the drive's row the rename ends here;
\* a volume that does not mount is restored to in vain.
Remount ==
  /\ rename.stage = "mount"
  /\ \/ /\ volume' = "new" /\ source' = [source EXCEPT !["new"] = "online"]
        /\ rename' = [rename EXCEPT !.stage = "restore"] /\ Fine
     \/ Happens("save") /\ rename' = Failed(rename) /\ UNCHANGED <<volume, source>>
     \/ /\ Happens("mount") /\ UNCHANGED <<volume, source>>
        /\ rename' = [rename EXCEPT !.stage = "restore", !.failed = TRUE]
  /\ job' = Stale(job, None)
  /\ UNCHANGED <<mpd, db, scanning, observer, shelfVars>>

------------------------------------------------------------------------------
(* Requests.                                                               *)

\* The next request of the operator; the shelf is loaded and free.
Ask(k, pc, args) ==
  /\ observer.state # "boot" /\ job["verb"].pc = "idle" /\ Requested(k)
  /\ Step("verb", args @@ [IdleJob EXCEPT !.kind = k, !.pc = pc, !.base = mpd])
  /\ rename' = Disturbed
  /\ UNCHANGED <<mpd, libraryVars, observer, shelfVars>>

Fits(us) == Len(mpd.queue) + Len(us) <= MaxQueue

\* enqueue, enqueue_selection and append_playlist_to_queue.
Enqueue(us, how, p) ==
  /\ Fits(us) /\ (p > 0 <=> how = "at")
  /\ Ask("insert", "resolve", [uris |-> us, how |-> how, pos |-> p])

RemoveQueueItem(i) == Ask("delete", "run", [todo |-> <<Delete(i)>>])
MoveQueueItem(i, p) == Ask("move", "run", [todo |-> <<Command("move", None, i, p)>>])
ClearQueue == Ask("clear", "run", [todo |-> <<Simple("clear")>>])

\* Replace of a criteria selection is one command list, of a container is not.
ReplaceSelection(us) ==
  Ask("replace", "run", [todo |-> <<[Simple("replace") EXCEPT !.uris = us]>>])
ReplaceContainer(us) ==
  /\ \A k \in 1..Len(us) : us[k].tree = "net"
  /\ Ask("refill", "resolve", [uris |-> us])

LoadPlaylist(us, p) == Ask("load", "run", [uris |-> us, pos |-> p, todo |-> <<Simple("clear")>>])
PlayFromPosition(p) == Ask("play", "items", [pos |-> p])
SkipToNextAvailable == Ask("skip", "items", [pos |-> 0])

\* remove_source of a USB source.
RemoveSource(t) == source[t] # "none" /\ Ask("remove", "items", [tree |-> t])
RewriteUriPrefix == Ask("rewrite", "update", [tree |-> "old"])

Request ==
  \/ \E us \in Selections : \/ \E how \in {"tail", "next"} : Enqueue(us, how, 0)
                            \/ \E p \in Spots : Enqueue(us, "at", p)
                            \/ ReplaceSelection(us) \/ ReplaceContainer(us)
                            \/ \E p \in 0..1 : LoadPlaylist(us, p)
  \/ \E k \in 1..Len(mpd.queue) : \/ RemoveQueueItem(mpd.queue[k].id)
                                  \/ \E p \in Spots : MoveQueueItem(mpd.queue[k].id, p)
  \/ ClearQueue \/ SkipToNextAvailable \/ RewriteUriPrefix
  \/ \E p \in Spots : PlayFromPosition(p)
  \/ \E t \in Removable : RemoveSource(t)

------------------------------------------------------------------------------
(* The idle observer.                                                      *)

\* Connected: MPD collects events for it.  Nothing is published here.
Connect ==
  /\ observer.state = "down" /\ job["observer"].pc = "idle"
  /\ observer' = [state |-> "up", pending |-> {}]
  /\ UNCHANGED <<mpd, libraryVars, job, shelfVars, rename, boundVars>>

\* Mutant: an event of the database takes the place of the other ones.
TasksOfFirst(pending) == IF "update" \in pending THEN <<"prune">> ELSE <<"publish">>

TasksOf(pending) ==
  (IF "update" \in pending THEN <<"prune">> ELSE <<>>)
    \o (IF "queue" \in pending THEN <<"publish">> ELSE <<>>)

\* dispatch_refresh; a refresh that cannot connect loses its events.
Wake ==
  /\ observer.state = "up" /\ observer.pending # {}
  /\ job["observer"].pc = "idle"
  /\ observer' = [observer EXCEPT !.pending = {}]
  /\ \/ /\ Step("observer", Task(TasksOf(observer.pending)))
        /\ Fine /\ UNCHANGED behind
     \/ Happens("refresh") /\ behind' = (behind \/ ~Told) /\ UNCHANGED job
  /\ UNCHANGED <<mpd, libraryVars, mirror, subject, rename>>

\* What loading the shelf does before the observer is spawned.
Rehydrate == <<"publish", "prune">>

\* rehydrate_all cannot connect: the subject stays empty.
NotReady ==
  /\ observer.state = "boot" /\ job["observer"] = Task(Rehydrate) /\ Happens("refresh")
  /\ Step("observer", IdleJob) /\ behind' = (behind \/ ~Told)
  /\ UNCHANGED <<mpd, libraryVars, observer, mirror, subject, rename>>

\* The shelf is loaded: the observer is spawned.
SpawnObserver ==
  /\ observer.state = "boot" /\ job["observer"].pc = "idle"
  /\ observer' = [observer EXCEPT !.state = "down"]
  /\ UNCHANGED <<mpd, libraryVars, job, shelfVars, rename, boundVars>>

DropIdle ==
  /\ observer.state = "up" /\ job["observer"].pc = "idle" /\ Happens("idle")
  /\ observer' = [state |-> "down", pending |-> {}]
  /\ behind' = (behind \/ ~Told)
  /\ UNCHANGED <<mpd, libraryVars, job, mirror, subject, rename>>

------------------------------------------------------------------------------
(* The rest of the system.                                                 *)

ScanDone ==
  /\ scanning /\ scanning' = FALSE
  /\ db' = {volume} \cap Removable
  /\ job' = IF db' = db THEN job ELSE Stale(job, None)
  /\ observer' = Signal("update")
  /\ UNCHANGED <<mpd, volume, source, shelfVars, rename, boundVars>>

\* A connection of a verb or a refresh breaks.
Break(t) ==
  /\ job[t].pc # "idle" /\ ~job[t].broken /\ Happens("break")
  /\ Step(t, [job[t] EXCEPT !.broken = TRUE])
  /\ rename' = IF Renaming(job[t]) THEN Disturbed ELSE rename
  /\ UNCHANGED <<mpd, libraryVars, observer, shelfVars>>

OtherClient ==
  /\ Happens("other")
  /\ \/ \E us \in Selections, p \in Spots :
          /\ Fits(us) /\ Addable(us[1]) /\ p <= Len(mpd.queue) + 1
          /\ Becomes(None, InsertRow(mpd, us[1], p), job)
     \/ \E k \in Spots : k <= Len(mpd.queue) /\ Becomes(None, DeleteRow(mpd, k), job)
  /\ UNCHANGED libraryVars

\* The player reaches the end of the current row.
Advance ==
  /\ mpd.play = "play" /\ Happens("advance")
  /\ Becomes(None, IF mpd.cur < Len(mpd.queue) THEN [mpd EXCEPT !.cur = @ + 1]
                   ELSE [mpd EXCEPT !.cur = 0, !.play = "stop"], job)
  /\ UNCHANGED libraryVars

Yank ==
  /\ volume # "none" /\ volume' = "none" /\ Happens("yank")
  /\ job' = Stale(job, None)
  /\ rename' = Disturbed
  /\ UNCHANGED <<mpd, db, scanning, source, observer, shelfVars>>

\* A probe finds out whether a source can be reached.
Probe(t) ==
  LET s == IF volume = t THEN "online" ELSE "offline"
  IN  /\ source[t] \notin {"none", s}
      /\ source' = [source EXCEPT ![t] = s]
      /\ job' = Stale(job, None)
      /\ UNCHANGED <<mpd, volume, db, scanning, observer, shelfVars, rename, boundVars>>

------------------------------------------------------------------------------

Init ==
  /\ \E p \in Queues :
       /\ mpd = [queue |-> [k \in 1..Len(p.uris) |-> [id |-> k, uri |-> p.uris[k]]],
                 cur |-> p.cur, play |-> p.play, last |-> Len(p.uris)]
       /\ volume = p.volume
  /\ db = {volume} \cap Removable /\ scanning = FALSE
  /\ source = [t \in Removable |-> CASE t = volume -> "online"
                                      [] t # volume /\ volume = "none" /\ t = "old" -> "offline"
                                      [] OTHER -> "none"]
  /\ job = [t \in Threads |-> IF t = "verb" THEN IdleJob ELSE Task(Rehydrate)]
  /\ observer = [state |-> "boot", pending |-> {}]
  /\ mirror = [NoView EXCEPT !.fresh = mpd.queue = <<>>]
  /\ subject = mirror
  /\ rename = NoRename /\ behind = FALSE
  /\ asked = {} /\ happened = {}

Thread(t) ==
  \/ ReadFails(t) \/ Resolve(t) \/ NextInsertPosition(t) \/ ReadSongs(t)
  \/ ReadItems(t) \/ ReadStatus(t) \/ Execute(t) \/ HopOver(t)
  \/ SkipPublish(t) \/ ReadQueue(t) \/ ReadCurrent(t) \/ Store(t) \/ UpdateState(t)
  \/ Detach(t) \/ Scrub(t) \/ Unregister(t) \/ Update(t) \/ Settle(t) \/ End(t)

Usb == BeginRename \/ Dispatch \/ DispatchFails \/ Umount \/ Remount

Observer == Connect \/ Wake \/ NotReady \/ SpawnObserver

Environment ==
  \/ ScanDone \/ OtherClient \/ Advance \/ Yank \/ DropIdle
  \/ \E t \in Threads : Break(t)
  \/ \E t \in Removable : Probe(t)

Next == (\E t \in Threads : Thread(t)) \/ Request \/ Usb \/ Observer \/ Environment

Spec == Init /\ [][Next]_vars

\* MPD answers, its updates end, and both tasks of the plugin are scheduled.
FairSpec ==
  /\ Spec
  /\ \A t \in Threads : WF_vars(Thread(t))
  /\ WF_vars(Observer) /\ WF_vars(ScanDone)

------------------------------------------------------------------------------
(* Properties.                                                             *)

\* The state of MPD, of the shelf and of the handlers is well formed.
TypeOK ==
  /\ Len(mpd.queue) <= 2 * MaxQueue /\ mpd.cur \in 0..Len(mpd.queue)
  /\ mpd.play \in {"play", "pause", "stop"} /\ (mpd.cur = 0 => mpd.play = "stop")
  /\ \A k, l \in 1..Len(mpd.queue) : mpd.queue[k].id = mpd.queue[l].id => k = l
  /\ volume \in Removable \cup {"none"} /\ db \subseteq Removable
  /\ source \in [Removable -> {"none", "online", "offline"}]
  /\ observer.state \in {"boot", "down", "up"} /\ observer.pending \subseteq {"queue", "update"}
  /\ \A t \in Threads : job[t].kind \in Verbs \cup RenameStages \cup {"none", "prune", "publish"}
  /\ rename.stage \in RenameStages \cup {"none", "umount", "mount", "done"}
  /\ {scanning, behind} \subseteq BOOLEAN

\* The queue part of verb k has succeeded, and nobody interfered.
Finished(k) ==
  LET j == job["verb"]
  IN  /\ j.kind = k /\ j.pc \in {"read", "readcur", "store", "tell"}
      /\ ~j.noisy /\ ~j.stale /\ ~j.broken

Row(m) == IF m.cur = 0 THEN None ELSE m.queue[m.cur].id
SameTransport(m) == mpd.play = m.play /\ Row(mpd) = Row(m)

\* "Each URI is addided at an incrementing position" (queue.rs, enqueue_selection):
\* the URIs of a request land together and in their order, directly after the
\* current row for Next, and the row that plays stays the one that plays.
SelectionLandsInOrder ==
  Finished("insert") =>
    LET j == job["verb"]
        old == Uris(j.base.queue)
        p == CASE j.how = "tail" \/ j.base.cur = 0 -> Len(old)
               [] j.how = "next" /\ j.base.cur # 0 -> j.base.cur
               [] OTHER -> j.pos - 1
    IN  /\ Uris(mpd.queue) = SubSeq(old, 1, p) \o j.uris \o SubSeq(old, p + 1, Len(old))
        /\ SameTransport(j.base)

\* drop_queue_items_under: a removal takes the rows of its tree and no others,
\* "so MPD does not auto-advance into whatever happens to follow": the row that
\* plays is the same, or the player is stopped.
RemovalTakesOnlyItsTree ==
  \A k \in {"remove", "park"} : Finished(k) =>
    LET j == job["verb"]
        m == j.base
    IN  /\ mpd.queue = SelectSeq(m.queue, LAMBDA r : r.uri.tree # j.tree)
        /\ IF m.cur # 0 /\ m.queue[m.cur].uri.tree = j.tree THEN mpd.play = "stop"
           ELSE SameTransport(m)

\* rewrite_queue_uris_under: "Never clear. Never stop." Every row keeps its place
\* under its new name, and what played or was paused is so at the same place.
RewriteKeepsTheQueue ==
  Finished("rewrite") =>
    LET m == job["verb"].base
    IN  /\ Uris(mpd.queue) = [k \in 1..Len(m.queue) |-> Moved(m.queue[k].uri)]
        /\ m.play # "stop" /\ OnDisk(Moved(m.queue[m.cur].uri)) =>
             mpd.play = m.play /\ mpd.cur = m.cur

\* The whole rename, when nobody else edits the queue meanwhile: "The operator's
\* list is held here, not discarded" (park).  Every row is back at its place and
\* the transport where it was, under the new name, or under the old one when the
\* volume refused to umount or the park was never delivered.  A rename that broke
\* off after the park (the wrapper's I/O, the alias, the remount, a lost verb or
\* reply) loses the rows of the volume, and then no other row and no order, and
\* starts nothing that did not play before.
RenameKeepsTheQueue ==
  rename.stage = "done" /\ ~rename.noisy =>
    LET m == rename.base
        stays(r) == r.uri.tree \notin Removable
    IN  IF rename.failed
        THEN /\ SelectSeq(mpd.queue, stays) = SelectSeq(m.queue, stays)
             /\ mpd.play # "stop" => SameTransport(m)
        ELSE /\ Uris(mpd.queue) = [k \in 1..Len(m.queue) |->
                                     IF volume = "new" THEN Moved(m.queue[k].uri)
                                     ELSE m.queue[k].uri]
             /\ mpd.play = m.play /\ (m.play # "stop" => mpd.cur = m.cur)

\* skip_to_next_available lands on the first row after the current one that can
\* be played, and touches nothing when there is none.
SkipLandsOnNextPlayable ==
  Finished("skip") =>
    LET m == job["verb"].base
        good == {p \in m.cur + 1..Len(m.queue) :
                   OnDisk(m.queue[p].uri) /\ StateOf(Source(m.queue[p].uri)) # "offline"}
    IN  IF good = {} THEN mpd = m
        ELSE mpd = PlayRow(m, CHOOSE p \in good : \A q \in good : p <= q)

\* "Attributing them to Internal makes gone-curation treat a rename as a wipe":
\* a prune deletes only rows that MPD's database lacks and whose own source is
\* reachable, unless the library changed after the prune read it.
PruneOnlyGone ==
  [][job["observer"].pc = "run" /\ job["observer"].todo # job'["observer"].todo =>
       \A k \in 1..Len(mpd.queue) :
         LET u == mpd.queue[k].uri
         IN  \/ HasId(mpd', mpd.queue[k].id)
             \/ job["observer"].stale
             \/ /\ u.tree # "net" /\ ~InDb(u)
                /\ u.tree \in Removable => source[u.tree] = "online"]_vars

\* "MPD-side mutations outside this plugin's verbs propagate into the shelf
\* subjects": a change made while a verb runs or a refresh is reading leads to
\* another publish, and the subject ends up showing the first rows of MPD's
\* queue and its current position.  Excepted are the ways the code gives up: the
\* last change fell in a gap of the observer, its refresh could not connect or
\* read, its update_state failed, or an older view was stored last.
SubjectCatchesUp ==
  <>[](behind \/ \A shown \in {subject, mirror} :
                   shown.rows = Shown(mpd.queue) /\ shown.cur = mpd.cur)

\* Each verb of the queue shelf does to MPD's queue exactly what it is for:
\* a selection lands in order, a removal takes the rows of its tree and no
\* other, a rewrite keeps order and current row, and a skip lands on the next
\* row that can be played.
VerbsAreExact ==
  /\ TypeOK
  /\ SelectionLandsInOrder
  /\ RemovalTakesOnlyItsTree
  /\ RewriteKeepsTheQueue
  /\ SkipLandsOnNextPlayable
==============================================================================
