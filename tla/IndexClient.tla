---------------------------- MODULE IndexClient ----------------------------
(***************************************************************************)
(* The registry client of registry/client.rs: one index, in memory and in  *)
(* a cache file, refreshed by calls that queue on one lock.  A call is a   *)
(* future that its HTTP handler may drop at any await; the write of the    *)
(* cache file runs on a blocking thread and survives that.                 *)
(***************************************************************************)
EXTENDS Naturals

CONSTANTS
  Callers,       \* requests of the daemon's clients
  NoCaller, NoIndex, NoEtag,
  MaxPublished,  \* bound: indexes the registry publishes
  MaxClock,      \* bound: ticks of the clock
  MaxFetches,    \* bound: no new call after so many fetches
  Ttl,           \* age at which the index in memory is stale
  CacheFiles     \* the cache files a daemon may find: "missing", "bad", "good"

ASSUME IndexAssumption ==
  /\ NoCaller \notin Callers /\ NoEtag \notin Nat
  /\ NoIndex \notin Nat \cup [index: Nat, etag: Nat \cup {NoEtag}, at: Nat]
  /\ CacheFiles \subseteq {"missing", "bad", "good"}

VARIABLES
  published,  \* the index the registry serves now; its ETag is its number
  clock,
  memory,     \* state: NoIndex or [index, etag, at]
  cache,       \* the cache file: [is: "missing", "bad" or "good", index, etag]
  fetches,    \* fetches that finished
  fetching,   \* the holder of the lock
  writes,     \* cache files being written, each [index, etag, by]
  call        \* call[c]: the request of c

indexVars == <<published, clock, memory, cache, fetches, fetching, writes, call>>

NoCall == [op |-> "get", pc |-> "done", began |-> 0, before |-> 0, etag |-> NoEtag,
           resp |-> NoIndex, got |-> NoIndex]

IndexInit ==
  /\ published = 1 /\ clock = 1
  /\ memory = NoIndex
  /\ cache \in [is: CacheFiles, index: {0}, etag: {0}]
  /\ fetches = 0 /\ fetching = NoCaller /\ writes = {}
  /\ call = [c \in Callers |-> NoCall]

Busy(c) == call[c].pc # "done"

(* The call ends with the index m, or with an error when m is NoIndex; a   *)
(* get that fails answers what memory holds.                               *)
Answer(c, m) ==
  call' = [call EXCEPT ![c] =
             [NoCall EXCEPT !.op = call[c].op, !.began = call[c].began,
                            !.got = IF m = NoIndex /\ call[c].op = "get" THEN memory' ELSE m]]

Begin(c) ==
  /\ ~Busy(c) /\ fetches < MaxFetches
  /\ \E op \in {"get", "refresh"}:
       call' = [call EXCEPT ![c] =
                  IF op = "get" /\ memory # NoIndex /\ clock - memory.at < Ttl
                  THEN [NoCall EXCEPT !.got = memory, !.began = clock]
                  ELSE [NoCall EXCEPT !.op = op, !.pc = "locking", !.began = clock,
                                      !.before = fetches]]
  /\ UNCHANGED <<published, clock, memory, cache, fetches, fetching, writes>>

(* A waiter that finds a fetch finished meanwhile shares its index.        *)
TakeLock(c) ==
  /\ call[c].pc = "locking" /\ fetching = NoCaller
  /\ IF fetches # call[c].before /\ memory # NoIndex
     THEN UNCHANGED <<fetching, memory>> /\ Answer(c, memory)
     ELSE /\ fetching' = c
          /\ call' = [call EXCEPT ![c].pc = IF memory = NoIndex THEN "loading" ELSE "asking",
                                  ![c].etag = IF memory = NoIndex THEN NoEtag ELSE memory.etag]
          /\ UNCHANGED memory
  /\ UNCHANGED <<published, clock, cache, fetches, writes>>

(* load_from_disk: a file that cannot be read or parsed ends the call      *)
(* before the registry is asked.                                           *)
LoadFromDisk(c) ==
  /\ call[c].pc = "loading"
  /\ CASE cache.is = "missing" ->
            call' = [call EXCEPT ![c].pc = "asking"] /\ UNCHANGED <<memory, fetching>>
       [] cache.is = "bad" ->
            UNCHANGED memory /\ fetching' = NoCaller /\ Answer(c, NoIndex)
       [] OTHER ->
            /\ memory' = [index |-> cache.index, etag |-> cache.etag, at |-> 0]
            /\ call' = [call EXCEPT ![c].pc = "asking", ![c].etag = cache.etag]
            /\ UNCHANGED fetching
  /\ UNCHANGED <<published, clock, cache, fetches, writes>>

(* The registry's answer to the conditional GET.  A 304 nobody asked for   *)
(* is a proxy's; "failed" is a transport or status error or a bad body.    *)
Respond(c) ==
  /\ call[c].pc = "asking"
  /\ \E r \in [status: {"failed", "200", "304"}, index: {published}, etag: {published, NoEtag}]:
       /\ r.status = "304" => call[c].etag \in {published, NoEtag}
       /\ r.status # "200" => r.etag = NoEtag
       /\ call' = [call EXCEPT ![c].resp = r, ![c].pc = "answered"]
  /\ UNCHANGED <<published, clock, memory, cache, fetches, fetching, writes>>

FailCall(c) ==
  /\ UNCHANGED <<memory, fetches, writes>>
  /\ fetching' = NoCaller /\ Answer(c, NoIndex)

NotModified(c) ==
  IF memory = NoIndex THEN FailCall(c)
  ELSE /\ memory' = [memory EXCEPT !.at = clock]
       /\ fetches' = fetches + 1 /\ fetching' = NoCaller
       /\ Answer(c, memory') /\ UNCHANGED writes

Replace(c, new) ==
  /\ memory' = [index |-> new.index, etag |-> new.etag, at |-> clock]
  /\ fetches' = fetches + 1
  /\ writes' = writes \cup {[index |-> new.index, etag |-> new.etag, by |-> c]}
  /\ call' = [call EXCEPT ![c].pc = "saving", ![c].got = memory']
  /\ UNCHANGED fetching

HandleResponse(c) ==
  /\ call[c].pc = "answered"
  /\ CASE call[c].resp.status = "failed" -> FailCall(c)
       [] call[c].resp.status = "304" -> NotModified(c)
       [] OTHER -> Replace(c, call[c].resp)
  /\ UNCHANGED <<published, clock, cache>>

(* persist_to_disk ends; its call, if it still waits, ends with it, and    *)
(* with an error when the file could not be written.                       *)
PersistToDisk(w) ==
  /\ \E ok \in BOOLEAN:
       /\ cache' = IF ok THEN [is |-> "good", index |-> w.index, etag |-> w.etag] ELSE cache
       /\ writes' = writes \ {w}
       /\ UNCHANGED memory
       /\ IF w.by = NoCaller THEN UNCHANGED <<call, fetching>>
          ELSE fetching' = NoCaller /\ Answer(w.by, IF ok THEN call[w.by].got ELSE NoIndex)
  /\ UNCHANGED <<published, clock, fetches>>

(* The client hangs up: the future is dropped with its guard, and a write  *)
(* it had spawned goes on without it.                                      *)
Drop(c) ==
  /\ Busy(c)
  /\ fetching' = IF fetching = c THEN NoCaller ELSE fetching
  /\ writes' = {[w EXCEPT !.by = IF @ = c THEN NoCaller ELSE @] : w \in writes}
  /\ call' = [call EXCEPT ![c] = NoCall]
  /\ UNCHANGED <<published, clock, memory, cache, fetches>>

(* The daemon is stopped or killed, and started again.                     *)
IndexRestart ==
  /\ memory # NoIndex /\ memory' = NoIndex
  /\ fetching' = NoCaller /\ writes' = {}
  /\ call' = [c \in Callers |-> NoCall]
  /\ UNCHANGED <<published, clock, cache, fetches>>

Publish == /\ published < MaxPublished /\ published' = published + 1
           /\ UNCHANGED <<clock, memory, cache, fetches, fetching, writes, call>>

ClockTick == /\ clock < MaxClock /\ clock' = clock + 1
             /\ UNCHANGED <<published, memory, cache, fetches, fetching, writes, call>>

IndexStep(c) == TakeLock(c) \/ LoadFromDisk(c) \/ Respond(c) \/ HandleResponse(c)

IndexNext ==
  \/ \E c \in Callers: Begin(c) \/ IndexStep(c) \/ Drop(c)
  \/ \E w \in writes: PersistToDisk(w)
  \/ IndexRestart \/ Publish \/ ClockTick

IndexSpec == IndexInit /\ [][IndexNext]_indexVars

-----------------------------------------------------------------------------
(* What a refresh answers was fetched, or confirmed by the registry, while *)
(* the call ran, also when it waited for another call's fetch that failed  *)
(* or was dropped (client.rs:142-145).                                     *)
RefreshIsFresh ==
  \A c \in Callers: ~Busy(c) /\ call[c].op = "refresh" /\ call[c].got # NoIndex
                      => call[c].got.at >= call[c].began

(* An ETag is kept with the index it was sent with, in memory and on disk,  *)
(* whatever order writes end in: a 304 confirms that very index.           *)
EtagNamesIndex ==
  /\ memory # NoIndex => memory.etag \in {memory.index, NoEtag}
  /\ cache.is = "good" => cache.etag \in {cache.index, NoEtag}

=============================================================================
