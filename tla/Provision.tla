----------------------------- MODULE Provision ------------------------------
(***************************************************************************)
(* download.rs: provisioning a model's files.  Each slot of the daemon     *)
(* runs at most one load (DownloadStateManager), and loads of different    *)
(* slots may want the same file.  A file on disk is used as it is when it  *)
(* matches its pin, which a stamp beside it remembers; otherwise it is     *)
(* fetched into a temporary file, verified and renamed into place.         *)
(*                                                                         *)
(* The digest a file is held to comes with each load, from the manifest it *)
(* was asked with: two models, or an old and a new manifest, may pin one   *)
(* destination differently, and nothing keeps their loads apart.           *)
(*                                                                         *)
(* A file's bytes stand for their own digest.  Every write gives a file an *)
(* mtime of its own; together with it the stamp's size tells nothing more. *)
(* Every step that awaits the disk or the network may also fail.           *)
(***************************************************************************)
EXTENDS Integers, Sequences

CONSTANTS Slots, Dests,
          Bytes,      \* what a file may hold, besides nothing
          Plans,      \* the models each slot may be asked for
          MaxWrites,  \* bound: how many bodies are downloaded
          MaxEdits    \* bound: how often the user changes a file

\* DownloadItem: a destination, and its sha256 or "none".
Items == [dest : Dests, pin : Bytes \union {"none"}]

ASSUME PlanAssumption ==
    /\ Plans \in [Slots -> SUBSET Seq(Items)]
    /\ Bytes \intersect {"none", "absent", "empty"} = {}
    /\ MaxWrites \in Nat /\ MaxEdits \in Nat

VARIABLES
    disk,       \* the file at each destination
    stamp,      \* its VerifiedStamp, or NoStamp when there is none or it does not parse
    clock,      \* the last mtime given out
    items,      \* the items of each slot's load
    pc, idx,    \* where it is, and at which of its items
    md,         \* the mtime it has seen of that file
    held,       \* the bytes it has hashed or downloaded
    ver,        \* the mtime of the file it downloaded, or 0
    cancelled,  \* its tracker's flag
    edits,
    from,       \* history: which item it was at when it was cancelled
    lost,       \* history: where a rename under another pin, or its stamp, came before it was done
    overtaken   \* history: the destinations whose stamp is of another load's rename

fileVars == <<disk, stamp, clock>>
asked == <<items, cancelled, edits, from>>
races == <<lost, overtaken>>
vars == <<fileVars, pc, idx, md, held, ver, asked, races>>

NoStamp == [pin |-> "none", mtime |-> 0]
Steps == {"idle", "next", "check", "stamped", "open", "hash", "hashed", "stamp", "write",
          "fetch", "stream", "tail", "publish", "restat", "ok", "failed"}

\* A load that is at a file is at one of its items.
TypeOK ==
    /\ disk \in [Dests -> [content : Bytes \union {"absent", "empty"}, mtime : Nat]]
    /\ stamp \in [Dests -> [pin : Bytes \union {"none"}, mtime : Nat]]
    /\ clock \in Nat /\ edits \in Nat
    /\ pc \in [Slots -> Steps] /\ cancelled \in [Slots -> BOOLEAN]
    /\ idx \in [Slots -> Nat \ {0}] /\ from \in [Slots -> Nat]
    /\ md \in [Slots -> Nat] /\ ver \in [Slots -> Nat]
    /\ held \in [Slots -> Bytes \union {"absent", "empty"}]
    /\ items \in [Slots -> Seq(Items)]
    /\ lost \in [Slots -> SUBSET Dests] /\ overtaken \subseteq Dests
    /\ \A s \in Slots : pc[s] \notin {"idle", "next", "ok", "failed"} => idx[s] <= Len(items[s])

\* A stamp whose mtime is the file's vouches for the file's bytes.
Sound(d) == stamp[d].mtime = disk[d].mtime /\ stamp[d] # NoStamp => disk[d].content = stamp[d].pin

\* Whatever earlier loads, perhaps under another pin, and the user left behind.
Init ==
    /\ disk \in [Dests -> [content : Bytes \union {"absent", "empty"}, mtime : {1}]]
    /\ stamp \in [Dests -> {NoStamp} \union [pin : Bytes, mtime : {1}]]
    /\ \A d \in Dests : Sound(d)
    /\ clock = 1 /\ edits = 0
    /\ pc = [s \in Slots |-> "idle"] /\ idx = [s \in Slots |-> 1]
    /\ md = [s \in Slots |-> 0] /\ held = [s \in Slots |-> "empty"] /\ ver = [s \in Slots |-> 0]
    /\ items = [s \in Slots |-> <<>>]
    /\ cancelled = [s \in Slots |-> FALSE] /\ from = [s \in Slots |-> 0]
    /\ lost = [s \in Slots |-> {}] /\ overtaken = {}

Dest(s) == items[s][idx[s]].dest
Pin(s) == items[s][idx[s]].pin
Pinned(s) == Pin(s) # "none"

\* A load has an item for d under another pin than p.
PinsOtherwise(s, d, p) ==
    \E i \in 1 .. Len(items[s]) : items[s][i].dest = d /\ items[s][i].pin \notin {"none", p}

\* It renamed its own file into place, and what it stamps is a file that was renamed over it.
Overtaken(s) == ver[s] # 0 /\ md[s] # ver[s] /\ Dest(s) \in lost[s]

Goto(s, step) == pc' = [pc EXCEPT ![s] = step]
Stay(s, step) == Goto(s, step) /\ UNCHANGED <<idx, md, held, ver>>

\* What a load knows of a file ends with it.
Forget(s) ==
    /\ md' = [md EXCEPT ![s] = 0] /\ ver' = [ver EXCEPT ![s] = 0]
    /\ held' = [held EXCEPT ![s] = "empty"]
NextItem(s) == Goto(s, "next") /\ idx' = [idx EXCEPT ![s] = @ + 1] /\ Forget(s)
See(s, step) ==
    Goto(s, step) /\ md' = [md EXCEPT ![s] = disk[Dest(s)].mtime] /\ UNCHANGED <<idx, held, ver>>
Hold(s, c, step) == Goto(s, step) /\ held' = [held EXCEPT ![s] = c] /\ UNCHANGED <<idx, md, ver>>
Published(s) ==
    /\ Goto(s, "restat") /\ UNCHANGED <<idx, ver>>
    /\ md' = [md EXCEPT ![s] = 0] /\ held' = [held EXCEPT ![s] = "empty"]
Fail(s) == Goto(s, "failed") /\ UNCHANGED idx /\ Forget(s)

-----------------------------------------------------------------------------
\* start_download: a slot with a load in flight takes no other.
Begin(s) ==
    /\ pc[s] = "idle"
    /\ Goto(s, "next")
    /\ \E plan \in Plans[s] : items' = [items EXCEPT ![s] = plan]
    /\ UNCHANGED <<fileVars, idx, md, held, ver, cancelled, edits, from, races>>

NextFile_NoCheck(s) ==
    /\ pc[s] = "next"
    /\ IF idx[s] > Len(items[s]) THEN Stay(s, "ok")
       ELSE Stay(s, "check") \/ Fail(s)
    /\ UNCHANGED <<fileVars, asked, races>>

\* The loop of download_files, and the parent directory.
NextFile(s) ==
    /\ pc[s] = "next"
    /\ IF idx[s] > Len(items[s]) THEN Stay(s, "ok")
       ELSE IF cancelled[s] THEN Fail(s)
       ELSE Stay(s, "check") \/ Fail(s)
    /\ UNCHANGED <<fileVars, asked, races>>

\* usable_existing: there is nothing to use, nothing to verify, or a pin.
Check(s) ==
    /\ pc[s] = "check"
    /\ \/ disk[Dest(s)].content \in {"absent", "empty"} /\ Stay(s, "fetch")
       \/ disk[Dest(s)].content \in Bytes /\ ~Pinned(s) /\ NextItem(s)
       \/ disk[Dest(s)].content \in Bytes /\ Pinned(s) /\ See(s, "stamped")
    /\ UNCHANGED <<fileVars, asked, races>>

ReadStamp_AnyPin(s) ==
    /\ pc[s] = "stamped"
    /\ \/ /\ stamp[Dest(s)].mtime = md[s] /\ NextItem(s)
          /\ lost' = [lost EXCEPT ![s] = @ \union (overtaken \intersect {Dest(s)})]
       \/ Stay(s, "open") /\ UNCHANGED lost
    /\ UNCHANGED <<fileVars, asked, overtaken>>

\* stamp_says_verified, unless it cannot be read.
ReadStamp(s) ==
    /\ pc[s] = "stamped"
    /\ \/ /\ stamp[Dest(s)] = [pin |-> Pin(s), mtime |-> md[s]] /\ NextItem(s)
          /\ lost' = [lost EXCEPT ![s] = @ \union (overtaken \intersect {Dest(s)})]
       \/ Stay(s, "open") /\ UNCHANGED lost
    /\ UNCHANGED <<fileVars, asked, overtaken>>

\* sha256_hex_of_file reads the file it opened, whatever takes its name meanwhile;
OpenFile(s) ==
    /\ pc[s] = "open"
    /\ Hold(s, disk[Dest(s)].content, "hash") \/ Fail(s)
    /\ UNCHANGED <<fileVars, asked, races>>

\* it looks at the flag after each chunk,
HashChunk(s) ==
    /\ pc[s] = "hash"
    /\ IF cancelled[s] THEN Fail(s) ELSE Stay(s, "hashed") \/ Fail(s)
    /\ UNCHANGED <<fileVars, asked, races>>

\* and the digest decides.
Hashed(s) ==
    /\ pc[s] = "hashed"
    /\ Stay(s, IF held[s] = Pin(s) THEN "stamp" ELSE "fetch")
    /\ UNCHANGED <<fileVars, asked, races>>

\* write_stamp is no atomic write: the old stamp goes first, and the new one may fail.
TruncateStamp(s) ==
    /\ pc[s] = "stamp"
    /\ \/ /\ stamp' = [stamp EXCEPT ![Dest(s)] = NoStamp] /\ Stay(s, "write")
          /\ overtaken' = overtaken \ {Dest(s)}
       \/ NextItem(s) /\ UNCHANGED <<stamp, overtaken>>
    /\ UNCHANGED <<disk, clock, asked, lost>>

WriteStamp(s) ==
    /\ pc[s] = "write" /\ NextItem(s)
    /\ \/ /\ stamp' = [stamp EXCEPT ![Dest(s)] = [pin |-> Pin(s), mtime |-> md[s]]]
          /\ overtaken' = IF Overtaken(s) THEN overtaken \union {Dest(s)}
                          ELSE overtaken \ {Dest(s)}
       \/ UNCHANGED <<stamp, overtaken>>
    /\ UNCHANGED <<disk, clock, asked, lost>>

-----------------------------------------------------------------------------
\* The request, and the temporary file.
Fetch(s) ==
    /\ pc[s] = "fetch"
    /\ Stay(s, "stream") \/ Fail(s)
    /\ UNCHANGED <<fileVars, asked, races>>

\* stream_body_to_writer, a chunk: the flag is looked at first.
StreamChunk(s) ==
    /\ pc[s] \in {"stream", "tail"}
    /\ IF cancelled[s] THEN Fail(s) ELSE Stay(s, "tail") \/ Fail(s)
    /\ UNCHANGED <<fileVars, asked, races>>

\* The end of the body, synced to disk.
EndOfBody(s) ==
    /\ clock <= MaxWrites
    /\ \/ pc[s] = "stream" /\ held' = [held EXCEPT ![s] = "empty"]
       \/ pc[s] = "tail" /\ \E b \in Bytes : held' = [held EXCEPT ![s] = b]
    /\ Goto(s, "publish")
    /\ clock' = clock + 1 /\ ver' = [ver EXCEPT ![s] = clock + 1] /\ UNCHANGED <<idx, md>>
    /\ UNCHANGED <<disk, stamp, asked, races>>

\* The rename: whoever pins the destination otherwise has lost what it verified there.
Rename(s) ==
    /\ disk' = [disk EXCEPT ![Dest(s)] = [content |-> held[s], mtime |-> ver[s]]]
    /\ lost' = [k \in Slots |-> IF PinsOtherwise(k, Dest(s), Pin(s))
                               THEN lost[k] \union {Dest(s)} ELSE lost[k]]
    /\ IF Pinned(s) THEN Published(s) ELSE NextItem(s)

Publish_Unverified(s) ==
    /\ pc[s] = "publish"
    /\ Rename(s) \/ (Fail(s) /\ UNCHANGED <<disk, lost>>)
    /\ UNCHANGED <<stamp, clock, asked, overtaken>>

\* Verified, and renamed into place.
Publish(s) ==
    /\ pc[s] = "publish"
    /\ \/ (Pinned(s) => held[s] = Pin(s)) /\ Rename(s)
       \/ Fail(s) /\ UNCHANGED <<disk, lost>>
    /\ UNCHANGED <<stamp, clock, asked, overtaken>>

\* The metadata of what is in place now.
Restat(s) ==
    /\ pc[s] = "restat"
    /\ See(s, "stamp") \/ NextItem(s)
    /\ UNCHANGED <<fileVars, asked, races>>

-----------------------------------------------------------------------------
\* cancel_download, at any time.
Cancel(s) ==
    /\ pc[s] # "idle" /\ ~cancelled[s]
    /\ cancelled' = [cancelled EXCEPT ![s] = TRUE]
    /\ from' = [from EXCEPT ![s] = idx[s]]
    /\ UNCHANGED <<fileVars, items, pc, idx, md, held, ver, edits, races>>

\* clear_download, by the caller, of a load that is over.
Clear(s) ==
    /\ pc[s] \in {"ok", "failed"}
    /\ Goto(s, "idle") /\ items' = [items EXCEPT ![s] = <<>>] /\ idx' = [idx EXCEPT ![s] = 1]
    /\ cancelled' = [cancelled EXCEPT ![s] = FALSE] /\ from' = [from EXCEPT ![s] = 0]
    /\ lost' = [lost EXCEPT ![s] = {}]
    /\ UNCHANGED <<fileVars, md, held, ver, edits, overtaken>>

\* The daemon dies and is started again.  Its temporary files stay.
Crash ==
    /\ \E s \in Slots : pc[s] # "idle"
    /\ pc' = [s \in Slots |-> "idle"] /\ items' = [s \in Slots |-> <<>>]
    /\ idx' = [s \in Slots |-> 1] /\ lost' = [s \in Slots |-> {}]
    /\ md' = [s \in Slots |-> 0] /\ held' = [s \in Slots |-> "empty"] /\ ver' = [s \in Slots |-> 0]
    /\ cancelled' = [s \in Slots |-> FALSE] /\ from' = [s \in Slots |-> 0]
    /\ UNCHANGED <<fileVars, edits, overtaken>>

\* The user replaces or removes a file while nothing is loaded.
Edit(d) ==
    /\ edits < MaxEdits /\ \A s \in Slots : pc[s] = "idle"
    /\ clock' = clock + 1 /\ edits' = edits + 1
    /\ \E c \in Bytes \union {"absent"} :
          disk' = [disk EXCEPT ![d] = [content |-> c, mtime |-> clock + 1]]
    /\ UNCHANGED <<stamp, pc, idx, md, held, ver, items, cancelled, from, races>>

Work(s) ==
    \/ NextFile(s) \/ Check(s) \/ ReadStamp(s) \/ OpenFile(s) \/ HashChunk(s) \/ Hashed(s)
    \/ TruncateStamp(s) \/ WriteStamp(s) \/ Fetch(s) \/ StreamChunk(s) \/ EndOfBody(s)
    \/ Publish(s) \/ Restat(s)

Next ==
    \/ \E s \in Slots : Begin(s) \/ Work(s) \/ Cancel(s) \/ Clear(s)
    \/ Crash
    \/ \E d \in Dests : Edit(d)

Spec == Init /\ [][Next]_vars

\* A load's task is polled, a body ends (download_client gives it an hour), and so
\* does a file.
Fairness == \A s \in Slots : WF_vars(Work(s))
FairSpec == Spec /\ Fairness

-----------------------------------------------------------------------------
\* A stamp never vouches for bytes that are not the ones of its pin, so that a load
\* which trusts it skips only work already done: whatever races with the write of the
\* stamp, and wherever a crash leaves it.  Excepted is the stamp of a load that took
\* the metadata of a file which another load, under another pin, had renamed over its
\* own (download.rs:348-356).
StampSound == \A d \in Dests \ overtaken : Sound(d)

\* What write_stamp's caller says of it: "These bytes were just verified against the
\* pin; stamp them" (download.rs:351).
StampIsOfTheseBytes == \A d \in Dests : Sound(d)

\* When download_files returns Ok every pinned file of the model holds the pinned
\* bytes, whoever put them there, unless a load with another pin for that file
\* renamed its own into place meanwhile, or an overtaken stamp was trusted.
OkMeansPinned ==
    \A s \in Slots : pc[s] = "ok" =>
        \A i \in 1 .. Len(items[s]) :
            items[s][i].pin # "none" /\ items[s][i].dest \notin lost[s] =>
                disk[items[s][i].dest].content = items[s][i].pin

\* A cancelled load finishes at most the file it is at.
CancelHeeded == \A s \in Slots : cancelled[s] /\ pc[s] # "idle" => idx[s] <= from[s] + 1

\* Every load comes to an end.
EveryLoadEnds == \A s \in Slots : pc[s] = "next" ~> pc[s] \in {"ok", "failed", "idle"}
=============================================================================
