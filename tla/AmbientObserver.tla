--------------------------- MODULE AmbientObserver ---------------------------
(***************************************************************************)
(* The ambient now-playing observer of the MPD playback plugin             *)
(* (playback_supervisor/ambient_observer.rs): a task with the lifetime of  *)
(* the plugin that holds a command and an idle connection, publishes what  *)
(* MPD plays after every change, and reconnects when the idle connection   *)
(* fails.  `stop` leaves a permit on a Notify and awaits the task.         *)
(*                                                                         *)
(* A query is written, executed and read in one step here, unless it times *)
(* out: then its reply stays in the stream (`late`) and is what the next   *)
(* query reads.                                                            *)
(***************************************************************************)
EXTENDS Naturals, Sequences

CONSTANTS Songs, NoSong,     \* MPD `file:` values; no current song
          Volumes,
          ObserverLimit      \* how often each environment event may happen

\* MPD state changed, MPD stopped, quiet command connection closed by MPD,
\* query timed out, plugin unloaded.
ObserverEvents == {"change", "restart", "close", "timeout", "stop"}

ASSUME ObserverLimitAssumption == ObserverLimit \in [ObserverEvents -> Nat]

Files == Songs \cup {NoSong}
Players == [song : Files, volume : Volumes]
Replies == [tag : {"status", "song"}, body : Players]

VARIABLES
  mpd, mpd_up,               \* MPD's state; is its listener up
  cmd_open, late,            \* the command connection, replies it still owes
  idle_open, idle_event,     \* the idle connection; a change buffered for it
  pc, status, song,          \* the task and what it has queried so far
  last_probed_file, source,  \* the probe cache; the file source_format is of
  now_playing,               \* the audio_playback_now_playing subject
  permit, stopping,          \* the Notify's permit; stop() is waiting
  spent                      \* how often each event has happened

mpdVars == <<mpd, mpd_up>>
cmdVars == <<cmd_open, late>>
idleVars == <<idle_open, idle_event>>
readVars == <<status, song>>
probeVars == <<last_probed_file, source>>
stopVars == <<permit, stopping>>
observerVars == <<mpdVars, cmdVars, idleVars, pc, readVars, probeVars,
                  now_playing, stopVars, spent>>

ObserverSpend(e) ==
  spent[e] < ObserverLimit[e] /\ spent' = [spent EXCEPT ![e] = @ + 1]

(***************************************************************************)
(* The environment.                                                        *)
(***************************************************************************)
MpdChanges ==
  /\ mpd_up /\ ObserverSpend("change")
  /\ mpd' \in Players \ {mpd}
  /\ idle_event' = idle_open
  /\ UNCHANGED <<mpd_up, cmdVars, idle_open, pc, readVars, probeVars,
                 now_playing, stopVars>>

MpdStops ==
  /\ mpd_up /\ ObserverSpend("restart")
  /\ mpd_up' = FALSE
  /\ cmd_open' = FALSE /\ late' = <<>>
  /\ idle_open' = FALSE /\ idle_event' = FALSE
  /\ UNCHANGED <<mpd, pc, readVars, probeVars, now_playing, stopVars>>

\* MPD comes back, perhaps at another song or volume.
MpdStarts ==
  /\ ~mpd_up /\ mpd_up' = TRUE
  /\ mpd' \in Players
  /\ UNCHANGED <<cmdVars, idleVars, pc, readVars, probeVars, now_playing,
                 stopVars, spent>>

\* connection_timeout: MPD closes a command connection that is quiet.
MpdClosesQuiet ==
  /\ cmd_open /\ pc = "idle" /\ ObserverSpend("close")
  /\ cmd_open' = FALSE /\ late' = <<>>
  /\ UNCHANGED <<mpdVars, idleVars, pc, readVars, probeVars, now_playing,
                 stopVars>>

\* AmbientObserverHandle::stop up to its await; notify_one stores a permit.
Stop ==
  /\ ~stopping /\ ObserverSpend("stop")
  /\ stopping' = TRUE /\ permit' = TRUE
  /\ UNCHANGED <<mpdVars, cmdVars, idleVars, pc, readVars, probeVars,
                 now_playing>>

(***************************************************************************)
(* run: the outer loop.                                                    *)
(***************************************************************************)
\* shutdown_requested: the select is not biased and its other arm is always
\* ready, so a stored permit may be left where it is.
CheckShutdown ==
  /\ pc = "check"
  /\ \/ permit /\ permit' = FALSE /\ pc' = "exited"
     \/ pc' = "open" /\ UNCHANGED permit
  /\ UNCHANGED <<mpdVars, cmdVars, idleVars, readVars, probeVars, now_playing,
                 stopping, spent>>

\* open_pair: the command connection, then the idle connection.
OpenCommand ==
  /\ pc = "open"
  /\ IF mpd_up THEN cmd_open' = TRUE /\ pc' = "open_idle"
               ELSE cmd_open' = FALSE /\ pc' = "backoff"
  /\ late' = <<>>
  /\ UNCHANGED <<mpdVars, idleVars, readVars, probeVars, now_playing, stopVars,
                 spent>>

\* Mutant: the snapshot is left out, the loop goes straight to idle.
OpenIdleNoSnapshot ==
  /\ pc = "open_idle"
  /\ IF mpd_up THEN /\ idle_open' = TRUE /\ pc' = "idle"
                    /\ UNCHANGED cmd_open
               ELSE /\ cmd_open' = FALSE /\ pc' = "backoff"
                    /\ UNCHANGED idle_open
  /\ UNCHANGED <<mpdVars, late, idle_event, readVars, probeVars, now_playing,
                 stopVars, spent>>

\* The open pair is followed by the initial snapshot.
OpenIdle ==
  /\ pc = "open_idle"
  /\ IF mpd_up THEN /\ idle_open' = TRUE /\ pc' = "status"
                    /\ UNCHANGED cmd_open
               ELSE /\ cmd_open' = FALSE /\ pc' = "backoff"
                    /\ UNCHANGED idle_open
  /\ UNCHANGED <<mpdVars, late, idle_event, readVars, probeVars, now_playing,
                 stopVars, spent>>

\* sleep_or_shutdown: the sleep ends, or a permit is consumed; the caller
\* cannot tell which.
Backoff ==
  /\ pc = "backoff" /\ pc' = "check"
  /\ \/ UNCHANGED permit
     \/ permit /\ permit' = FALSE
  /\ UNCHANGED <<mpdVars, cmdVars, idleVars, readVars, probeVars, now_playing,
                 stopping, spent>>

(***************************************************************************)
(* emit_now_playing.  Every failure skips the cycle and goes back to idle. *)
(***************************************************************************)
Reply(tag) == [tag |-> tag, body |-> mpd]

\* The replies a query finds in the stream, its own last.
Stream(tag) == Append(late, Reply(tag))

\* Mutant: a reply that was read stays in the stream.
ReadStreamUndrained(tag) == cmd_open /\ late' = Stream(tag)

ReadStream(tag) == cmd_open /\ late' = Tail(Stream(tag))

QueryStatus ==
  /\ pc = "status" /\ ReadStream("status")
  /\ IF Head(Stream("status")).tag = "status"
     THEN status' = Head(Stream("status")).body /\ pc' = "song"
     ELSE pc' = "idle" /\ UNCHANGED status      \* a reply without a state
  /\ UNCHANGED <<mpdVars, cmd_open, idleVars, song, probeVars, now_playing,
                 stopVars, spent>>

\* Mutant: nothing is done when the song goes away.
ProbeKeepsLast(file) ==
  IF file \in {NoSong, last_probed_file} THEN UNCHANGED probeVars
  ELSE last_probed_file' = file /\ source' \in {file, NoSong}

\* maybe_probe_source_format: probed once per file; a failed probe or an
\* unknown codec publishes None.
Probe(file) ==
  IF file = last_probed_file THEN UNCHANGED probeVars
  ELSE last_probed_file' = file /\ source' \in {file, NoSong}

QuerySong ==
  /\ pc = "song" /\ ReadStream("song")
  /\ LET r == Head(Stream("song"))
         file == IF r.tag = "song" THEN r.body.song ELSE NoSong
     IN song' = file /\ Probe(file)
  /\ pc' = "publish"
  /\ UNCHANGED <<mpdVars, cmd_open, idleVars, status, now_playing, stopVars,
                 spent>>

QueryFails ==
  /\ pc \in {"status", "song"} /\ ~cmd_open
  /\ pc' = "idle"
  /\ UNCHANGED <<mpdVars, cmdVars, idleVars, readVars, probeVars, now_playing,
                 stopVars, spent>>

QueryTimesOut ==
  /\ pc \in {"status", "song"} /\ cmd_open /\ ObserverSpend("timeout")
  /\ late' = Stream(pc)
  /\ pc' = "idle"
  /\ UNCHANGED <<mpdVars, cmd_open, idleVars, readVars, probeVars, now_playing,
                 stopVars>>

Publish ==
  /\ pc = "publish"
  /\ now_playing' = [song |-> song, volume |-> status.volume]
  /\ pc' = "idle"
  /\ UNCHANGED <<mpdVars, cmdVars, idleVars, readVars, probeVars, stopVars,
                 spent>>

(***************************************************************************)
(* run_inner.  Returning from it drops both connections.                   *)
(***************************************************************************)
IdleWakes ==
  /\ pc = "idle" /\ idle_open /\ idle_event
  /\ idle_event' = FALSE
  /\ pc' = "status"
  /\ UNCHANGED <<mpdVars, cmdVars, idle_open, readVars, probeVars, now_playing,
                 stopVars, spent>>

ReturnsToRun ==
  /\ pc' = "check"
  /\ cmd_open' = FALSE /\ late' = <<>>
  /\ idle_open' = FALSE /\ idle_event' = FALSE
  /\ UNCHANGED <<mpdVars, readVars, probeVars, now_playing, stopping, spent>>

IdleFails == pc = "idle" /\ ~idle_open /\ ReturnsToRun /\ UNCHANGED permit

IdleShutdown == pc = "idle" /\ permit /\ permit' = FALSE /\ ReturnsToRun

Observer ==
  \/ CheckShutdown \/ OpenCommand \/ OpenIdle \/ Backoff
  \/ QueryStatus \/ QuerySong \/ QueryFails \/ Publish
  \/ IdleWakes \/ IdleFails \/ IdleShutdown

Environment ==
  \/ MpdChanges \/ MpdStops \/ MpdStarts \/ MpdClosesQuiet \/ QueryTimesOut
  \/ Stop

\* spawn, with MPD running or not.
ObserverInit ==
  /\ mpd \in Players /\ mpd_up \in BOOLEAN
  /\ cmd_open = FALSE /\ late = <<>>
  /\ idle_open = FALSE /\ idle_event = FALSE
  /\ pc = "check" /\ status = mpd /\ song = NoSong
  /\ last_probed_file = NoSong /\ source = NoSong
  /\ now_playing = [song |-> NoSong, volume |-> mpd.volume]
  /\ permit = FALSE /\ stopping = FALSE
  /\ spent = [e \in ObserverEvents |-> 0]

ObserverNext == Observer \/ Environment

ObserverSpec == ObserverInit /\ [][ObserverNext]_observerVars

\* The runtime polls the task whenever it can go on, and systemd restarts MPD.
\* shutdown_requested picks its arm at random: strong fairness of the exit says
\* that it does not overlook a stored permit for ever.
Fairness ==
  /\ WF_observerVars(Observer)
  /\ WF_observerVars(MpdStarts)
  /\ SF_observerVars(CheckShutdown /\ pc' = "exited")

ObserverFairSpec == ObserverSpec /\ Fairness

(***************************************************************************)
(* Properties                                                              *)
(***************************************************************************)
\* Types; the stream never owes more replies than queries timed out.
ObserverTypeOK ==
  /\ mpd \in Players /\ mpd_up \in BOOLEAN
  /\ cmd_open \in BOOLEAN
  /\ late \in Seq(Replies) /\ Len(late) <= spent["timeout"]
  /\ idle_open \in BOOLEAN /\ idle_event \in BOOLEAN
  /\ pc \in {"check", "open", "open_idle", "backoff", "status", "song",
             "publish", "idle", "exited"}
  /\ status \in Players /\ song \in Files
  /\ last_probed_file \in Files /\ source \in Files
  /\ now_playing \in Players
  /\ permit \in BOOLEAN /\ stopping \in BOOLEAN
  /\ spent \in [ObserverEvents -> Nat]

\* "A Some(prior-track-format) MUST be replaced ... never silently left in
\* place across a track change": what stream_format says of the source is of
\* the song now_playing shows, or nothing, whatever replies were late or lost.
SourceIsNeverStale ==
  pc # "publish" => source \in {now_playing.song, NoSong}

CaughtUp == now_playing = [song |-> mpd.song, volume |-> mpd.volume]

\* Only run_inner's idle error reopens the pair, so the observer is deaf when
\* its command connection died and its idle connection lives.
Deaf == idle_open /\ ~cmd_open

\* "MPD's state reaches the subject regardless of how playback was started":
\* once MPD stops changing, now_playing shows what it plays, also across
\* restarts of MPD at any point of the reconnect, unless the observer is deaf,
\* a query timed out or the plugin is unloaded.
CatchesUpUnlessDeaf ==
  <>[](CaughtUp \/ Deaf \/ spent["timeout"] > 0 \/ stopping)

\* What the observer of ambient_observer.rs holds is sound at every step: its
\* stream owes no more replies than queries timed out, and the source it has
\* published belongs to the song it has published.
ObserverInv ==
  /\ ObserverTypeOK
  /\ SourceIsNeverStale
===============================================================================
