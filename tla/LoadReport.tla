----------------------------- MODULE LoadReport -----------------------------
(***************************************************************************)
(* One load as its client is told of it: the tracker of                    *)
(* download_progress.rs while download.rs provisions the files, and the    *)
(* polls of SubprocessBackend::load, with their LoadWatch, while the       *)
(* backend loads the model.  The load's task is the only one that          *)
(* broadcasts; cancel_download writes the flag and the status at any       *)
(* moment.  What calls these three in turn is the product's.               *)
(*                                                                         *)
(* A report of the backend is [step, progress], the progress in half       *)
(* percents, -1 when there is none; "prose" is a step that is no id.       *)
(* A tick is a stretch of time, and the timeouts are counted in ticks.     *)
(***************************************************************************)
EXTENDS Integers, Sequences

CONSTANTS
  FileSizes,     \* the sizes of the model's files, in order
  Chunks,        \* the sizes a chunk may have
  MaxChunks,     \* bound: chunks of one file before the one that ends it
  Reports,       \* what the backend may say in /v1/status
  STALL_TIMEOUT, LOAD_TIMEOUT

ASSUME ReportAssumption ==
  /\ FileSizes \in Seq(Nat \ {0}) /\ Chunks \subseteq Nat /\ MaxChunks \in Nat
  /\ STALL_TIMEOUT \in Nat /\ LOAD_TIMEOUT \in Nat /\ STALL_TIMEOUT < LOAD_TIMEOUT
  /\ Reports \subseteq [step: STRING, progress: Nat \cup {-1}]

VARIABLES
  tracker,    \* [status, file, got, total, load], and its cancelled flag
  seen,       \* the last payload published, which the last_broadcast fields mirror
  at,         \* where the load's task is
  chunks,     \* chunks read of the current file
  backend,    \* [says, heard, hung]: its report, the one it last answered, and
              \* whether it still answers
  watch,      \* LoadWatch: the last report, its age, and whether progress was ever reported
  age, quiet, \* the ticks since the load began, and since the report last changed
  why         \* how the load failed

reportVars == <<tracker, seen, at, chunks, backend, watch, age, quiet, why>>

NoReport == [step |-> "none", progress |-> -1]

(* LoadProgress::from_status: each field is checked by itself.             *)
IsId(step) == step \notin {"none", "prose"}
FromStatus(said) ==
  [step     |-> IF IsId(said.step) THEN said.step ELSE "none",
   progress |-> IF said.progress > 200 THEN 200 ELSE said.progress]

NewTracker == [status |-> "verifying", file |-> 0, got |-> 0, total |-> 0, load |-> NoReport,
               cancelled |-> FALSE]
NeverSeen == [status |-> "", file |-> -1, total |-> 0, percent |-> 0, load |-> NoReport]
NewBackend == [says |-> NoReport, heard |-> NoReport, hung |-> FALSE]
NewWatch == [last |-> NoReport, still |-> 0, reports_progress |-> FALSE]

ReportInit ==
  /\ tracker = NewTracker /\ seen = NeverSeen /\ at = "next" /\ chunks = 0
  /\ backend = NewBackend /\ watch = NewWatch
  /\ age = 0 /\ quiet = 0 /\ why = ""

-----------------------------------------------------------------------------
(* get_progress; the percentage is a fixed point of two digits, and full   *)
(* once the files are there.                                               *)
FixedPoint(part, whole) == IF part >= whole THEN 10000 ELSE (part * 10000) \div whole
Percentage(t) ==
  IF t.status \in {"completed", "loading_model"} THEN 10000
  ELSE IF t.total > 0 THEN FixedPoint(t.got, t.total) ELSE 0
GetProgress(t) ==
  [status |-> t.status, file |-> t.file, total |-> t.total, percent |-> Percentage(t), load |-> t.load]

(* load_moved.                                                             *)
Abs(n) == IF n < 0 THEN -n ELSE n
LoadMoved(last, now) ==
  \/ last.step # now.step
  \/ (last.progress = -1) # (now.progress = -1)
  \/ last.progress # -1 /\ now.progress # -1 /\ Abs(last.progress - now.progress) >= 2

Throttle_ByPercent(last, now) ==  \* only the percentage is compared
  now.percent - last.percent >= 100 \/ LoadMoved(last.load, now.load)

(* The throttle of broadcast_progress.                                     *)
Throttle(last, now) ==
  \/ last.status # now.status
  \/ now.percent - last.percent >= 100
  \/ last.total # now.total
  \/ last.file # now.file
  \/ LoadMoved(last.load, now.load)

Track(t) == tracker' = t /\ UNCHANGED seen
TrackAndBroadcast(t) ==
  /\ tracker' = t
  /\ seen' = IF Throttle(seen, GetProgress(t)) THEN GetProgress(t) ELSE seen

GoTo(step) == at' = step /\ UNCHANGED why
FailLoad(reason) == at' = "failed" /\ why' = reason
ByTask == UNCHANGED <<backend, watch, age, quiet>>

-----------------------------------------------------------------------------
(* download_one: start_file and mark_verifying; nothing is broadcast yet.  *)
StartFile ==
  /\ at = "next" /\ tracker.file < Len(FileSizes)
  /\ IF tracker.cancelled THEN FailLoad("cancelled") /\ UNCHANGED <<tracker, seen, chunks>>
     ELSE /\ Track([tracker EXCEPT !.status = "verifying", !.file = @ + 1, !.got = 0, !.total = 0])
          /\ chunks' = 0 /\ GoTo("check")
  /\ ByTask

Size == FileSizes[tracker.file]
Whole(t) == [t EXCEPT !.got = Size, !.total = Size]

(* The file is there: unpinned or vouched for by its stamp, or hashed.     *)
AlreadyPresent ==
  /\ at = "check" \/ (at = "hash" /\ tracker.got = Size)
  /\ TrackAndBroadcast(Whole(tracker)) /\ GoTo("next") /\ UNCHANGED chunks /\ ByTask

(* sha256_hex_of_file, from the size usable_existing publishes first.      *)
BeginHash ==
  /\ at = "check"
  /\ TrackAndBroadcast([tracker EXCEPT !.total = Size]) /\ GoTo("hash") /\ UNCHANGED chunks /\ ByTask

(* A chunk, hashed or downloaded, of some size or what is left of the file;*)
(* the flag is looked at before it counts.                                 *)
Chunk(n) ==
  /\ at \in {"hash", "body"} /\ n > 0
  /\ n = Size - tracker.got \/ (chunks < MaxChunks /\ tracker.got + n < Size)
  /\ chunks' = chunks + 1
  /\ IF tracker.cancelled THEN FailLoad("cancelled") /\ UNCHANGED <<tracker, seen>>
     ELSE TrackAndBroadcast([tracker EXCEPT !.got = @ + n]) /\ GoTo(at)
  /\ ByTask

(* The file is absent or not the one that is pinned.                       *)
MarkDownloading ==
  /\ at = "check" \/ (at = "hash" /\ tracker.got = Size)
  /\ TrackAndBroadcast([tracker EXCEPT !.status = "downloading", !.got = 0, !.total = 0])
  /\ chunks' = 0 /\ GoTo("request") /\ ByTask

(* resolve_total_size finds the size, or does not.                         *)
ResolveTotalSize ==
  /\ at = "request" /\ GoTo("body") /\ UNCHANGED chunks /\ ByTask
  /\ TrackAndBroadcast([tracker EXCEPT !.total = Size]) \/ UNCHANGED <<tracker, seen>>

EndOfFile ==
  /\ at = "body" /\ tracker.got = Size /\ GoTo("next") /\ UNCHANGED <<tracker, seen, chunks>> /\ ByTask

(* The network, the disk, a digest, the start or the load's refusal.       *)
Breaks ==
  /\ at \in {"check", "hash", "request", "body", "post"}
  /\ FailLoad("error") /\ UNCHANGED <<tracker, seen, chunks>> /\ ByTask

(* mark_loading, once the files are there.                                 *)
MarkLoading ==
  /\ at = "next" /\ tracker.file = Len(FileSizes)
  /\ TrackAndBroadcast([tracker EXCEPT !.status = "loading_model"])
  /\ GoTo("post") /\ UNCHANGED chunks /\ ByTask

-----------------------------------------------------------------------------
(* load: POST /v1/load is taken, and the watch begins.                     *)
PostLoad ==
  /\ at = "post" /\ GoTo("poll") /\ chunks' = 0
  /\ watch' = NewWatch
  /\ age' = 0 /\ quiet' = 0
  /\ UNCHANGED <<tracker, seen, backend>>

(* LoadWatch::observe.                                                     *)
Observe(w, report) ==
  IF report = w.last THEN w
  ELSE [last |-> report, still |-> 0,
        reports_progress |-> w.reports_progress \/ report.progress # -1]

Stalled_AtProgress(w) ==  \* only a report with a progress can stall
  w.last.progress # -1 /\ w.still >= STALL_TIMEOUT
Stalled(w) == w.reports_progress /\ w.still >= STALL_TIMEOUT
OutOfTime(w) == ~w.reports_progress /\ age >= LOAD_TIMEOUT

(* An answer to GET /v1/status: the report is passed on when it changed    *)
(* into one, and then the state and the two limits decide.                 *)
Answer(state) ==
  LET report == FromStatus(backend.says)
      w == Observe(watch, report) IN
  /\ at = "poll" /\ ~backend.hung
  /\ watch' = w /\ backend' = [backend EXCEPT !.heard = backend.says]
  /\ IF report # watch.last /\ report # NoReport
     THEN TrackAndBroadcast([tracker EXCEPT !.load = report])
     ELSE UNCHANGED <<tracker, seen>>
  /\ CASE state = "ready" -> GoTo("ready")
       [] state = "error" -> FailLoad("error")
       [] state = "loading" /\ Stalled(w) -> FailLoad("stalled")
       [] state = "loading" /\ ~Stalled(w) /\ OutOfTime(w) -> FailLoad("out of time")
       [] OTHER -> GoTo("poll")
  /\ UNCHANGED <<chunks, age, quiet>>

(* The connection breaks: "stopped answering while loading".               *)
Gone ==
  /\ at = "poll" /\ FailLoad("gone")
  /\ UNCHANGED <<tracker, seen, chunks, backend, watch, age, quiet>>

(* The product marks the end, and broadcasts it.                           *)
MarkEnd ==
  /\ at \in {"ready", "failed"} /\ GoTo("ending")
  /\ Track([tracker EXCEPT !.status = IF at = "ready" THEN "completed" ELSE "error"])
  /\ UNCHANGED chunks /\ ByTask
TellEnd ==
  /\ at = "ending" /\ GoTo("over") /\ TrackAndBroadcast(tracker)
  /\ UNCHANGED chunks /\ ByTask

(* cancel_download, of a load that has not been cleared.                   *)
CancelDownload ==
  /\ at # "over" /\ ~tracker.cancelled
  /\ Track([tracker EXCEPT !.cancelled = TRUE, !.status = "cancelled"])
  /\ UNCHANGED <<at, why, chunks>> /\ ByTask

(* clear_download; the next load has a tracker and a backend of its own.   *)
ClearDownload ==
  /\ at = "over" /\ at' = "next" /\ why' = "" /\ chunks' = 0
  /\ tracker' = NewTracker /\ seen' = NeverSeen
  /\ backend' = NewBackend /\ watch' = NewWatch /\ age' = 0 /\ quiet' = 0

-----------------------------------------------------------------------------
(* The backend moves on; what it says stands until it is asked.            *)
Say(said) ==
  /\ at = "poll" /\ ~backend.hung /\ backend.says = backend.heard /\ said # backend.says
  /\ backend' = [backend EXCEPT !.says = said]
  /\ quiet' = IF FromStatus(said) = FromStatus(backend.says) THEN quiet ELSE 0
  /\ UNCHANGED <<tracker, seen, at, chunks, watch, age, why>>

(* It keeps the connection and never answers again.                        *)
Hang ==
  /\ at = "poll" /\ ~backend.hung /\ backend' = [backend EXCEPT !.hung = TRUE]
  /\ UNCHANGED <<tracker, seen, at, chunks, watch, age, quiet, why>>

(* Time passes between two answers; past the limits nothing counts it.     *)
UpTo(n, limit) == IF n < limit THEN n + 1 ELSE limit
Tick ==
  /\ at = "poll"
  /\ age' = UpTo(age, LOAD_TIMEOUT + 1) /\ quiet' = UpTo(quiet, STALL_TIMEOUT)
  /\ watch' = [watch EXCEPT !.still = UpTo(@, STALL_TIMEOUT)]
  /\ UNCHANGED <<tracker, seen, at, chunks, backend, why>>

Provisions ==
  \/ StartFile \/ AlreadyPresent \/ BeginHash \/ MarkDownloading \/ ResolveTotalSize
  \/ EndOfFile \/ MarkLoading \/ PostLoad \/ MarkEnd \/ TellEnd
Polls == \E state \in {"loading", "ready", "error"}: Answer(state)
SomeChunk == \E n \in Chunks \cup {FileSizes[i] - tracker.got: i \in DOMAIN FileSizes}: Chunk(n)
ReportNext ==
  \/ Provisions \/ Polls \/ ClearDownload \/ Breaks \/ Gone \/ CancelDownload \/ Hang \/ Tick
  \/ SomeChunk
  \/ \E said \in Reports: Say(said)

ReportSpec == ReportInit /\ [][ReportNext]_reportVars

-----------------------------------------------------------------------------
(* A client is never left with an old picture: whenever the load's task    *)
(* has broadcast, the last payload has the tracker's file, size, phase and *)
(* step, and is less than a percentage point behind.  (A cancel is told    *)
(* with the next broadcast, unless the next file's phase overwrites the    *)
(* status first: the end of the load then tells it.)                       *)
SeenIsCurrent ==
  LET now == GetProgress(tracker) IN
  at \in {"hash", "request", "body", "post", "poll", "over"} =>
    /\ seen.file = now.file /\ seen.total = now.total
    /\ tracker.cancelled \/ seen.status = now.status
    /\ tracker.cancelled \/ now.percent - seen.percent < 100
    /\ ~LoadMoved(seen.load, now.load)

(* Every load's last payload is a terminal one, whatever a cancel writes   *)
(* meanwhile: "a dropped event there leaves the UI permanently stuck".     *)
EndIsSeen == at = "over" => seen.status \in {"completed", "cancelled", "error"}

(* A load that is working is not cut off: one that reports progress only   *)
(* when the backend's own report has stood still for the stall timeout,    *)
(* any other only after the load timeout (subprocess/mod.rs, load).        *)
MovingIsNotCut ==
  /\ why = "stalled" => quiet >= STALL_TIMEOUT
  /\ why = "out of time" => age >= LOAD_TIMEOUT /\ seen.load.progress = -1

(* A load comes to an end and is told of, unless the backend's report      *)
(* moves for ever, or the backend holds a request open: see InAll.         *)
LoadEnds ==
  []<><<backend'.says # backend.says>>_reportVars
  \/ (at \notin {"next", "over"} ~> at = "over" \/ backend.hung)

(* "One that does not [report progress] gets LOAD_TIMEOUT in all."         *)
InAll == at = "poll" /\ ~watch.reports_progress => age <= LOAD_TIMEOUT
=============================================================================
