------------------------- MODULE SessionStoreProofs -------------------------
(***************************************************************************)
(* SessionStore proved for every set of tokens, keys and flushes and for   *)
(* every bound: the map reaches the file in order, no wakeup is lost, and  *)
(* neither a revoked token nor a deleted key comes back.                   *)
(***************************************************************************)
EXTENDS SessionStore, SequenceTheorems, TLAPS

-----------------------------------------------------------------------------
(***************************************************************************)
(* The parts of the inductive invariant.                                   *)
(***************************************************************************)
\* A process that does not run holds nothing.
DownIsBlank ==
    ~up => /\ inner = {} /\ ver = 0 /\ ~waking /\ pending = {}
           /\ chan = <<>> /\ task = "recv" /\ ack = {} /\ job = {}

\* The task holds a snapshot only while it writes it.
JobOnlyInWrite == task # "write" => job = {}

\* A version names one map: whatever carries the map's own version is the map.
VersionsAreMaps ==
    up => /\ \A s \in job : s.ver = ver => s.tokens = inner
          /\ \A s \in job : pending = {} => s.ver = ver
          /\ file.sessions.ver <= ver
          /\ contents.sessions.ver = ver => contents.sessions.tokens \ expired = inner \ expired
          /\ file.sessions.ver = ver => file.sessions.tokens \ expired = inner \ expired

\* After a good write, memory and file agree on the sessions; with nothing
\* left to write they are the map.
GoodWriteAgrees ==
    up /\ lastOk =>
        /\ file.sessions.ver = contents.sessions.ver
        /\ file.sessions.tokens \ expired = contents.sessions.tokens \ expired
        /\ pending = {} /\ job = {} => contents.sessions.ver = ver

\* A flush that waits was sent by this process, about a version the map had.
FlushIsOfThisRun ==
    \A f \in Flushes : flush[f] = "sent" => up /\ flushVer[f] <= ver

\* What the task will ack is what it writes or has written.
AckFollowsWrite ==
    \A f \in ack : flush[f] = "sent" =>
        /\ \A s \in job : flushVer[f] <= s.ver
        /\ task = "ack" /\ lastOk => flushVer[f] <= contents.sessions.ver

\* An acked flush is below the file and, while the daemon runs, below memory.
DurableIsBelow ==
    \A f \in Flushes : flush[f] = "durable" =>
        \/ \E c \in aside : flushVer[f] <= c.sessions.ver
        \/ flushVer[f] <= file.sessions.ver /\ (up => flushVer[f] <= contents.sessions.ver)

\* The tokens gone at a flush are gone from everything as recent as it, and
\* after its ack from everything.
GoneStaysGone ==
    \A f \in Flushes : flush[f] \in {"sent", "durable"} =>
        /\ flushGone[f] \subseteq minted
        /\ flushGone[f] \intersect inner = {}
        /\ \A s \in job : flush[f] = "durable" \/ flushVer[f] <= s.ver
                              => flushGone[f] \intersect s.tokens = {}
        /\ up /\ (flush[f] = "durable" \/ flushVer[f] <= contents.sessions.ver)
               => flushGone[f] \intersect contents.sessions.tokens \subseteq expired
        /\ flush[f] = "durable" \/ flushVer[f] <= file.sessions.ver
               => flushGone[f] \intersect file.sessions.tokens \subseteq expired

\* The keys no failure made uncertain are as promised, in memory too.
KeysInMemory ==
    \A k \in Keys \ unsure : /\ k \in file.keys <=> k \in promised
                             /\ up => (k \in contents.keys <=> k \in promised)

-----------------------------------------------------------------------------
(***************************************************************************)
(* What the operators on the file's contents return.                       *)
(***************************************************************************)
LEMMA WithSessionsFields ==
    ASSUME TypeOK, NEW s \in Snapshots
    PROVE  /\ WithSessions(s) \in Contents
           /\ WithSessions(s).sessions = s
           /\ WithSessions(s).keys = contents.keys
BY DEF TypeOK, WithSessions, Contents

LEMMA WithKeysFields ==
    ASSUME TypeOK, NEW ks \in SUBSET Keys
    PROVE  /\ WithKeys(ks) \in Contents
           /\ WithKeys(ks).sessions = contents.sessions
           /\ WithKeys(ks).keys = ks
BY DEF TypeOK, WithKeys, Contents

LEMMA EmptyFields ==
    Empty \in Contents /\ Empty.sessions.tokens = {} /\ Empty.sessions.ver = 0 /\ Empty.keys = {}
BY DEF Empty, Contents, Snapshots

\* A load finds a file, keeps the live tokens, and leaves file and memory with
\* the same version and the same live tokens, whether or not the write works.
LEMMA LoadEffect ==
    ASSUME NEW found \in Contents, expired \subseteq Tokens, failures \in Nat, Load(found)
    PROVE  /\ up' = TRUE /\ lastOk' = TRUE /\ failures' \in Nat
           /\ inner' = found.sessions.tokens \ expired
           /\ ver' = found.sessions.ver
           /\ file' \in Contents /\ contents' \in Contents
           /\ \A c \in {file', contents'} :
                 /\ c.sessions.ver = found.sessions.ver
                 /\ c.sessions.tokens \ expired = found.sessions.tokens \ expired
                 /\ c.keys = found.keys
           /\ UNCHANGED <<waking, pending, chan, taskVars, minted, expired, flushVars, stops>>
<1> DEFINE live == found.sessions.tokens \ expired
           pruned == [found EXCEPT !.sessions.tokens = live]
<1>1. /\ pruned \in Contents
      /\ pruned.sessions.ver = found.sessions.ver
      /\ pruned.sessions.tokens = live
      /\ pruned.keys = found.keys
    BY DEF Contents, Snapshots
<1>2. file' \in {found, pruned} /\ contents' \in {found, pruned} /\ failures' \in Nat
    BY DEF Load
<1>3. live \ expired = live
    OBVIOUS
<1> HIDE DEF pruned
<1>4. \A c \in {found, pruned} :
         /\ c \in Contents
         /\ c.sessions.ver = found.sessions.ver
         /\ c.sessions.tokens \ expired = found.sessions.tokens \ expired
         /\ c.keys = found.keys
    BY <1>1, <1>3
<1>5. /\ up' = TRUE /\ lastOk' = TRUE /\ inner' = live /\ ver' = found.sessions.ver
      /\ UNCHANGED <<waking, pending, chan, taskVars, minted, expired, flushVars, stops>>
    BY DEF Load
<1> QED BY <1>2, <1>4, <1>5

-----------------------------------------------------------------------------
\* Every step keeps the types: a mailbox never holds two snapshots.
THEOREM Typed == Spec => []TypeOK
<1>1. Init => TypeOK
    <2>1. <<>> \in Seq(Flushes \union {"wake"})
        OBVIOUS
    <2>2. Init => \A s, r \in pending : s = r
        BY DEF Init
    <2>3. Init => /\ flush \in [Flushes -> {"idle", "sent", "durable", "acked", "unanswered"}]
                  /\ flushVer \in [Flushes -> Nat]
                  /\ flushGone \in [Flushes -> SUBSET Tokens]
        BY DEF Init
    <2>4. Init => up \in BOOLEAN /\ waking \in BOOLEAN /\ lastOk \in BOOLEAN
        BY Zenon DEF Init
    <2>5. Init => contents \in Contents /\ file \in Contents /\ aside \subseteq Contents
        BY EmptyFields, Zenon DEF Init
    <2> QED BY <2>1, <2>2, <2>3, <2>4, <2>5 DEF Init, TypeOK
<1>2. ASSUME TypeOK, [Next]_vars
      PROVE  TypeOK'
    <2> USE <1>2 DEF TypeOK
    <2>0. Snapshots = [ver : Nat, tokens : SUBSET Tokens]
        BY DEF Snapshots
    <2>1. ASSUME NEW toks \in SUBSET Tokens, Submit(toks), OffLock,
                 minted' \subseteq Tokens, expired' \subseteq Tokens
          PROVE  TypeOK'
        BY <2>0, <2>1 DEF Submit, OffLock, taskVars, diskVars, flushVars, keyVars
    <2>2. ASSUME NEW t \in Tokens, Mint(t) PROVE TypeOK'
        BY <2>1, <2>2 DEF Mint
    <2>3. ASSUME NEW t \in Tokens, Revoke(t) PROVE TypeOK'
        BY <2>1, <2>3 DEF Revoke
    <2>4. ASSUME NEW t \in Tokens, Evict(t) PROVE TypeOK'
        BY <2>1, <2>4 DEF Evict
    <2>5. ASSUME NEW t \in Tokens, Expire(t) PROVE TypeOK'
        BY <2>5 DEF Expire, storeVars, taskVars, diskVars, flushVars, keyVars
    <2>6. CASE SendWake
        <3>1. Append(chan, "wake") \in Seq(Flushes \union {"wake"})
            OBVIOUS
        <3> QED BY <2>6, <3>1 DEF SendWake, taskVars, diskVars, flushVars, keyVars
    <2>7. ASSUME NEW k \in Keys, NEW ks \in SUBSET Keys, ChangeKey(k, ks) PROVE TypeOK'
        <3>1. WithKeys(ks) \in Contents
            BY WithKeysFields
        <3> QED BY <2>7, <3>1 DEF ChangeKey, Written, WriteFailed, storeVars, taskVars, flushVars
    <2>8. ASSUME NEW k \in Keys, SetKey(k) \/ DeleteKey(k) PROVE TypeOK'
        <3>1. contents.keys \in SUBSET Keys
            BY DEF Contents
        <3> QED BY <2>7, <2>8, <3>1 DEF SetKey, DeleteKey
    <2>9. ASSUME NEW m \in Flushes \union {"wake"}, Collect(m)
          PROVE  ack' \subseteq Flushes
                 /\ flush' \in [Flushes -> {"idle", "sent", "durable", "acked", "unanswered"}]
        BY <2>9 DEF Collect
    <2>10. CASE Recv
        <3>1. Head(chan) \in Flushes \union {"wake"} /\ Tail(chan) \in Seq(Flushes \union {"wake"})
            BY <2>10 DEF Recv
        <3>2. Collect(Head(chan))
            BY <2>10 DEF Recv
        <3> QED BY <2>9, <2>10, <3>1, <3>2 DEF Recv, TaskOnly, diskVars, keyVars
    <2>11. CASE Drain
        <3>1. CASE chan = <<>>
            BY <2>11, <3>1 DEF Drain, TaskOnly, diskVars, keyVars
        <3>2. CASE chan # <<>>
            <4>1. Head(chan) \in Flushes \union {"wake"} /\ Tail(chan) \in Seq(Flushes \union {"wake"})
                BY <3>2
            <4>2. Collect(Head(chan)) /\ chan' = Tail(chan) /\ task' = task
                BY <2>11, <3>2 DEF Drain
            <4> QED BY <2>9, <2>11, <4>1, <4>2 DEF Drain, TaskOnly, diskVars, keyVars
        <3> QED BY <3>1, <3>2
    <2>12. CASE Take
        BY <2>12 DEF Take, TaskOnly, diskVars, keyVars
    <2>13. CASE Persist
        <3>1. PICK s \in job : \/ Written(WithSessions(s)) /\ lastOk' = TRUE
                               \/ WriteFailed(WithSessions(s)) /\ lastOk' = FALSE
            BY <2>13 DEF Persist
        <3>2. WithSessions(s) \in Contents
            BY WithSessionsFields
        <3>3. /\ file' \in Contents /\ contents' \in Contents /\ failures' \in Nat
              /\ health' = health /\ aside' = aside
            BY <3>1, <3>2 DEF Written, WriteFailed
        <3>6. lastOk' \in BOOLEAN
            BY <3>1, Zenon
        <3>4. job' = {} /\ task' = "ack" /\ UNCHANGED <<chan, ack, flush, pending>>
            BY <2>13 DEF Persist
        <3>5. UNCHANGED <<up, inner, ver, waking, minted, expired, flushVer, flushGone, stops,
                          promised, unsure>>
            BY <2>13 DEF Persist, TaskOnly, keyVars
        <3> QED BY <3>3, <3>4, <3>5, <3>6
    <2>14. CASE Ack
        BY <2>14 DEF Ack, TaskOnly, diskVars, keyVars
    <2>15. ASSUME NEW f \in Flushes, Flush(f) PROVE TypeOK'
        BY <2>15 DEF Flush, storeVars, taskVars, diskVars, keyVars
    <2>16. ASSUME NEW f \in Flushes, FlushTimesOut(f) PROVE TypeOK'
        BY <2>16 DEF FlushTimesOut, storeVars, taskVars, diskVars, keyVars
    <2>17. CASE Stop
        <3>1. <<>> \in Seq(Flushes \union {"wake"})
            OBVIOUS
        <3>2. flush' \in [Flushes -> {"idle", "sent", "durable", "acked", "unanswered"}]
            BY <2>17 DEF Stop
        <3>3. up' \in BOOLEAN /\ waking' \in BOOLEAN /\ lastOk' \in BOOLEAN
            BY <2>17, Zenon DEF Stop
        <3>4. contents' \in Contents
            BY <2>17, EmptyFields, Zenon DEF Stop
        <3> QED BY <2>17, <3>1, <3>2, <3>3, <3>4 DEF Stop, keyVars
    <2>18. CASE Damage \/ Repair
        BY <2>18 DEF Damage, Repair, storeVars, taskVars, flushVars, keyVars
    <2>19. ASSUME NEW found \in Contents, Load(found), aside' \subseteq Contents,
                  health' \in {"fine", "garbled", "unreadable"},
                  promised' \subseteq Keys, unsure' \subseteq Keys
           PROVE  TypeOK'
        <3>1. found.sessions.ver \in Nat /\ found.sessions.tokens \subseteq Tokens
            BY DEF Contents, Snapshots
        <3> QED BY <2>19, <3>1, LoadEffect DEF taskVars, flushVars
    <2>20. CASE SetAside
        BY <2>19, <2>20, EmptyFields DEF SetAside
    <2>21. CASE Start
        BY <2>19, <2>21 DEF Start, keyVars
    <2>22. CASE UNCHANGED vars
        BY <2>22 DEF vars, storeVars, taskVars, diskVars, flushVars, keyVars
    <2> QED BY <2>2, <2>3, <2>4, <2>5, <2>6, <2>8, <2>10, <2>11, <2>12, <2>13, <2>14, <2>15,
               <2>16, <2>17, <2>18, <2>20, <2>21, <2>22 DEF Next, TaskStep
<1> QED BY <1>1, <1>2, PTL DEF Spec

-----------------------------------------------------------------------------
(***************************************************************************)
(* The keys.                                                               *)
(***************************************************************************)
\* secrets.rs `update`: sessions and keys are rewritten together and neither
\* writer loses what the other stored, through failures and restarts.
THEOREM KeysKept == Spec => []KeysAsPromised
<1>1. Init => KeysInMemory
    BY EmptyFields DEF Init, KeysInMemory
<1>2. ASSUME TypeOK, KeysInMemory, [Next]_vars
      PROVE  KeysInMemory'
    <2> USE <1>2 DEF KeysInMemory
    <2>1. CASE UNCHANGED <<up, file, contents, promised, unsure>>
        BY <2>1
    <2>2. ASSUME NEW k \in Keys, SetKey(k) \/ DeleteKey(k)
          PROVE  KeysInMemory'
        <3>1. PICK ks \in SUBSET Keys : /\ ChangeKey(k, ks)
                                        /\ \A q \in Keys \ {k} : q \in ks <=> q \in contents.keys
            BY <2>2 DEF SetKey, DeleteKey, TypeOK, Contents
        <3>2. WithKeys(ks).keys = ks
            BY WithKeysFields
        <3>3. CASE Written(WithKeys(ks))
                   /\ promised' = (IF k \in ks THEN promised \union {k} ELSE promised \ {k})
                   /\ unsure' = unsure \ {k}
            <4>1. file'.keys = ks /\ contents'.keys = ks /\ up /\ up' = up
                BY <3>1, <3>2, <3>3 DEF Written, ChangeKey
            <4> QED BY <3>1, <3>3, <4>1
        <3>4. CASE WriteFailed(WithKeys(ks)) /\ UNCHANGED promised
                   /\ unsure' = (IF file' # file THEN unsure \union {k} ELSE unsure)
            <4>1. contents' = contents /\ up /\ up' = up /\ (file' = file \/ file'.keys = ks)
                BY <3>1, <3>2, <3>4 DEF WriteFailed, ChangeKey
            <4> QED BY <3>1, <3>4, <4>1
        <3> QED BY <3>1, <3>3, <3>4 DEF ChangeKey
    <2>3. CASE Persist
        <3>1. PICK s \in job : Written(WithSessions(s)) \/ WriteFailed(WithSessions(s))
            BY <2>3 DEF Persist
        <3>2. WithSessions(s).keys = contents.keys
            BY WithSessionsFields DEF TypeOK
        <3>3. up /\ UNCHANGED <<up, promised, unsure>>
            BY <2>3 DEF Persist, TaskOnly, keyVars
        <3> QED BY <3>1, <3>2, <3>3 DEF Written, WriteFailed
    <2>4. CASE Stop
        BY <2>4 DEF Stop, keyVars
    <2>5. CASE SetAside
        BY <2>5, LoadEffect, EmptyFields DEF SetAside, TypeOK
    <2>6. CASE Start
        BY <2>6, LoadEffect DEF Start, TypeOK, keyVars
    <2>7. ASSUME NEW t \in Tokens, Mint(t) \/ Revoke(t) \/ Evict(t) \/ Expire(t)
          PROVE  UNCHANGED <<up, file, contents, promised, unsure>>
        BY <2>7 DEF Mint, Revoke, Evict, Expire, OffLock, diskVars, keyVars
    <2>8. CASE SendWake \/ Recv \/ Drain \/ Take \/ Ack
        BY <2>1, <2>8 DEF SendWake, Recv, Drain, Take, Ack, TaskOnly, diskVars, keyVars
    <2>9. ASSUME NEW f \in Flushes, Flush(f) \/ FlushTimesOut(f)
          PROVE  UNCHANGED <<up, file, contents, promised, unsure>>
        BY <2>9 DEF Flush, FlushTimesOut, diskVars, keyVars
    <2>10. CASE Damage \/ Repair \/ UNCHANGED vars
        BY <2>1, <2>10 DEF Damage, Repair, vars, diskVars, keyVars
    <2> QED BY <2>1, <2>2, <2>3, <2>4, <2>5, <2>6, <2>7, <2>8, <2>9, <2>10 DEF Next, TaskStep
<1>3. KeysInMemory => KeysAsPromised
    BY DEF KeysInMemory, KeysAsPromised
<1> QED BY <1>1, <1>2, <1>3, Typed, PTL DEF Spec

-----------------------------------------------------------------------------
(***************************************************************************)
(* The mailbox and the order of the snapshots.                             *)
(***************************************************************************)
Ordered == DownIsBlank /\ JobOnlyInWrite /\ NoLostWakeup /\ LatestWins

\* A Wake stays in the channel when something is sent after it.
LEMMA AppendKeepsWakes ==
    ASSUME chan \in Seq(Flushes \union {"wake"}), NEW m \in Flushes \union {"wake"},
           chan' = Append(chan, m), Wakes # {} \/ m = "wake"
    PROVE  Wakes' # {}
<1>1. /\ DOMAIN chan' = 1..(Len(chan) + 1) /\ DOMAIN chan = 1..Len(chan) /\ Len(chan) \in Nat
      /\ chan'[Len(chan) + 1] = m
      /\ \A i \in 1..Len(chan) : chan'[i] = chan[i]
    OBVIOUS
<1>2. CASE m = "wake"
    <2>1. Len(chan) + 1 \in Wakes'
        BY <1>1, <1>2 DEF Wakes
    <2> QED BY <2>1
<1>3. CASE Wakes # {}
    <2>1. PICK i \in Wakes : TRUE
        BY <1>3
    <2>2. i \in Wakes'
        BY <1>1, <2>1 DEF Wakes
    <2> QED BY <2>2
<1> QED BY <1>2, <1>3

\* Every step keeps the mailbox ahead of the task and the task awake.
LEMMA StepKeepsOrdered ==
    ASSUME TypeOK, TypeOK', Ordered, [Next]_vars
    PROVE  Ordered'
<1> USE DEF Ordered, DownIsBlank, JobOnlyInWrite, NoLostWakeup, LatestWins
<1>0. ASSUME NEW c \in Contents
      PROVE  c.sessions.ver \in Nat
    BY DEF Contents, Snapshots
<1>1. ASSUME NEW toks, up, ~waking, Submit(toks), OffLock
      PROVE  Ordered'
    <2>1. /\ inner' = toks /\ ver' = ver + 1 /\ pending' = {[ver |-> ver + 1, tokens |-> toks]}
          /\ waking' = (pending = {})
        BY <1>1 DEF Submit
    <2>2. UNCHANGED <<up, chan, task, ack, job, contents>>
        BY <1>1 DEF OffLock, taskVars, diskVars
    <2>3. contents.sessions.ver \in Nat /\ ver \in Nat /\ \A s \in job : s.ver \in Nat
        BY <1>0 DEF TypeOK, Snapshots
    <2>4. NoLostWakeup'
        <3>1. CASE pending = {}
            BY <2>1, <3>1
        <3>2. CASE pending # {}
            BY <1>1, <2>2, <3>2 DEF Wakes
        <3> QED BY <3>1, <3>2
    <2>5. LatestWins'
        BY <1>1, <2>1, <2>2, <2>3
    <2> QED BY <1>1, <2>2, <2>4, <2>5
<1>2. ASSUME NEW t \in Tokens, Mint(t) \/ Revoke(t) \/ Evict(t)
      PROVE  Ordered'
    BY <1>1, <1>2 DEF Mint, Revoke, Evict
\* Steps that leave the store, the task and memory alone.
<1>3. ASSUME UNCHANGED <<up, inner, ver, waking, pending, chan, task, ack, job, contents>>
      PROVE  Ordered'
    BY <1>3 DEF Wakes
<1>4. CASE SendWake
    <2>1. Wakes' # {}
        BY <1>4, AppendKeepsWakes DEF SendWake, TypeOK
    <2>2. UNCHANGED <<up, inner, ver, pending, task, ack, job, contents>> /\ up
        BY <1>4 DEF SendWake, taskVars, diskVars
    <2> QED BY <2>1, <2>2
<1>5. ASSUME NEW k \in Keys, SetKey(k) \/ DeleteKey(k)
      PROVE  Ordered'
    <2>1. PICK ks \in SUBSET Keys : ChangeKey(k, ks)
        BY <1>5 DEF SetKey, DeleteKey, TypeOK, Contents
    <2>2. contents'.sessions = contents.sessions
        BY <2>1, WithKeysFields DEF ChangeKey, Written, WriteFailed
    <2>3. UNCHANGED <<up, inner, ver, waking, pending, chan, task, ack, job>> /\ up
        BY <2>1 DEF ChangeKey, storeVars, taskVars
    <2> QED BY <2>2, <2>3 DEF Wakes
<1>6. CASE Recv \/ Drain
    <2>1. /\ UNCHANGED <<up, inner, ver, waking, pending, job, contents>>
          /\ task' \in {"drain", "take"} /\ up /\ job = {}
        BY <1>6 DEF Recv, Drain, TaskOnly, diskVars
    <2> QED BY <2>1
<1>7. CASE Take
    <2>1. /\ UNCHANGED <<up, inner, ver, waking, chan, ack, contents>> /\ up
          /\ job' = pending /\ pending' = {} /\ task' = IF pending = {} THEN "ack" ELSE "write"
        BY <1>7 DEF Take, TaskOnly, diskVars
    <2>2. DownIsBlank' /\ NoLostWakeup'
        BY <2>1
    <2>3. JobOnlyInWrite'
        BY <2>1
    <2>4. \A s \in job' : s.ver = ver
        BY <2>1
    <2>5. ver \in Nat
        BY DEF TypeOK
    <2>6. LatestWins'
        BY <2>1, <2>4, <2>5
    <2> QED BY <2>2, <2>3, <2>6
<1>8. CASE Persist
    <2>1. PICK s \in job : Written(WithSessions(s)) \/ WriteFailed(WithSessions(s))
        BY <1>8 DEF Persist
    <2>2. contents'.sessions = s \/ contents' = contents
        BY <2>1, WithSessionsFields DEF Written, WriteFailed, TypeOK
    <2>3. /\ UNCHANGED <<up, inner, ver, waking, pending, chan, ack>> /\ up
          /\ job' = {} /\ task' = "ack" /\ task = "write"
        BY <1>8 DEF Persist, TaskOnly
    <2>4. NoLostWakeup'
        BY <2>3 DEF Wakes
    <2> QED BY <2>2, <2>3, <2>4
<1>9. CASE Ack
    <2>1. /\ UNCHANGED <<up, inner, ver, waking, pending, chan, job, contents>> /\ up
          /\ task' = "recv" /\ task = "ack"
        BY <1>9 DEF Ack, TaskOnly, diskVars
    <2> QED BY <2>1 DEF Wakes
<1>10. ASSUME NEW f \in Flushes, Flush(f)
       PROVE  Ordered'
    <2>1. /\ UNCHANGED <<up, inner, ver, waking, pending, task, ack, job, contents>> /\ up
          /\ chan' = Append(chan, f)
        BY <1>10 DEF Flush, storeVars, taskVars, diskVars
    <2>2. Wakes # {} => Wakes' # {}
        BY <2>1, AppendKeepsWakes DEF TypeOK
    <2> QED BY <2>1, <2>2
<1>11. CASE Stop
    BY <1>11 DEF Stop
<1>12. ASSUME NEW found \in Contents, ~up, Load(found)
       PROVE  Ordered'
    <2>1. /\ up' /\ inner' = found.sessions.tokens \ expired /\ ver' = found.sessions.ver
          /\ contents'.sessions.ver = found.sessions.ver
          /\ UNCHANGED <<waking, pending, chan, task, ack, job>>
        BY <1>12, LoadEffect DEF TypeOK, taskVars
    <2> QED BY <1>0, <1>12, <2>1
<1>13. CASE SetAside \/ Start
    BY <1>12, <1>13, EmptyFields DEF SetAside, Start, TypeOK
<1>14. ASSUME NEW t \in Tokens, Expire(t)
       PROVE  Ordered'
    BY <1>3, <1>14 DEF Expire, storeVars, taskVars, diskVars
<1>15. ASSUME NEW f \in Flushes, FlushTimesOut(f)
       PROVE  Ordered'
    BY <1>3, <1>15 DEF FlushTimesOut, storeVars, taskVars, diskVars
<1>16. CASE Damage \/ Repair \/ UNCHANGED vars
    BY <1>3, <1>16 DEF Damage, Repair, vars, storeVars, taskVars, diskVars
<1> QED BY <1>2, <1>4, <1>5, <1>6, <1>7, <1>8, <1>9, <1>10, <1>11, <1>13, <1>14, <1>15, <1>16
        DEF Next, TaskStep

\* The mailbox, the task and memory are in order in every reachable state.
THEOREM AlwaysOrdered == Spec => []Ordered
<1>1. Init => Ordered
    BY EmptyFields DEF Init, Ordered, DownIsBlank, JobOnlyInWrite, NoLostWakeup, LatestWins
<1>2. TypeOK /\ TypeOK' /\ Ordered /\ [Next]_vars => Ordered'
    BY StepKeepsOrdered
<1> QED BY <1>1, <1>2, Typed, PTL DEF Spec

\* tokens.rs `submit` and `persist_loop`: a snapshot in the mailbox always has
\* somebody on the way to it.
THEOREM NoWakeupIsLost == Spec => []NoLostWakeup
BY AlwaysOrdered, PTL DEF Ordered

\* tokens.rs `submit`: the snapshots stand in the order of the changes.
THEOREM SnapshotsInOrder == Spec => []LatestWins
BY AlwaysOrdered, PTL DEF Ordered

-----------------------------------------------------------------------------
(***************************************************************************)
(* What a good write leaves behind.                                        *)
(***************************************************************************)
Agreed == VersionsAreMaps /\ GoodWriteAgrees

\* Every step keeps memory and file in agreement with the map's versions.
LEMMA StepKeepsAgreed ==
    ASSUME TypeOK, TypeOK', Ordered, Ordered', Agreed, [Next]_vars
    PROVE  Agreed'
<1> USE DEF Agreed, VersionsAreMaps, GoodWriteAgrees
<1>0. /\ ver \in Nat /\ file.sessions.ver \in Nat /\ contents.sessions.ver \in Nat
      /\ \A s \in job \union pending : s \in Snapshots /\ s.ver \in Nat
    BY DEF TypeOK, Contents, Snapshots
<1>1. ASSUME NEW toks, up, Submit(toks), OffLock, expired' = expired
      PROVE  Agreed'
    <2>1. inner' = toks /\ ver' = ver + 1 /\ pending' # {}
        BY <1>1 DEF Submit
    <2>2. UNCHANGED <<up, job, contents, file, lastOk>>
        BY <1>1 DEF OffLock, taskVars, diskVars
    <2>3. \A s \in job : s.ver <= ver
        BY <1>1 DEF Ordered, LatestWins
    <2>4. contents.sessions.ver <= ver /\ file.sessions.ver <= ver
        BY <1>1 DEF Ordered, LatestWins
    <2> QED BY <1>0, <1>1, <2>1, <2>2, <2>3, <2>4
<1>2. ASSUME NEW t \in Tokens, Mint(t) \/ Revoke(t) \/ Evict(t)
      PROVE  Agreed'
    BY <1>1, <1>2 DEF Mint, Revoke, Evict
\* Steps that leave the map, the mailbox, the task's snapshot and the disk alone.
<1>3. ASSUME UNCHANGED <<up, inner, ver, pending, job, contents, file, lastOk>>,
             expired \subseteq expired'
      PROVE  Agreed'
    BY <1>3
<1>4. CASE SendWake \/ Recv \/ Drain \/ Ack \/ Damage \/ Repair \/ UNCHANGED vars
    BY <1>3, <1>4 DEF SendWake, Recv, Drain, Ack, Damage, Repair, TaskOnly, vars, storeVars, taskVars,
                      diskVars
<1>5. ASSUME NEW t \in Tokens, Expire(t)
      PROVE  Agreed'
    BY <1>3, <1>5 DEF Expire, storeVars, taskVars, diskVars
<1>6. ASSUME NEW f \in Flushes, Flush(f) \/ FlushTimesOut(f)
      PROVE  Agreed'
    BY <1>3, <1>6 DEF Flush, FlushTimesOut, storeVars, taskVars, diskVars
<1>7. ASSUME NEW k \in Keys, SetKey(k) \/ DeleteKey(k)
      PROVE  Agreed'
    <2>1. PICK ks \in SUBSET Keys : ChangeKey(k, ks)
        BY <1>7 DEF SetKey, DeleteKey, TypeOK, Contents
    <2>2. /\ contents'.sessions = contents.sessions
          /\ file' = file \/ file'.sessions = contents.sessions
        BY <2>1, WithKeysFields DEF ChangeKey, Written, WriteFailed
    <2>3. UNCHANGED <<up, inner, ver, pending, job, expired, lastOk>> /\ up
        BY <2>1 DEF ChangeKey, storeVars, taskVars
    <2>4. contents.sessions.ver <= ver
        BY <2>3 DEF Ordered, LatestWins
    <2> QED BY <2>2, <2>3, <2>4
<1>8. CASE Take
    <2>1. /\ UNCHANGED <<up, inner, ver, contents, file, expired, lastOk>> /\ up
          /\ job' = pending /\ pending' = {}
        BY <1>8 DEF Take, TaskOnly, diskVars
    <2>2. \A s \in pending : s.ver = ver /\ s.tokens = inner
        BY <2>1 DEF Ordered, LatestWins
    <2>3. job = {}
        BY <1>8 DEF Take, Ordered, JobOnlyInWrite
    <2> QED BY <2>1, <2>2, <2>3
<1>9. CASE Persist
    <2>1. PICK s \in job : \/ Written(WithSessions(s)) /\ lastOk' = TRUE
                           \/ WriteFailed(WithSessions(s)) /\ lastOk' = FALSE
        BY <1>9 DEF Persist
    <2>2. WithSessions(s).sessions = s
        BY <1>0, WithSessionsFields
    <2>3. UNCHANGED <<up, inner, ver, pending, expired>> /\ up /\ job' = {}
        BY <1>9 DEF Persist, TaskOnly
    <2>4. /\ s.ver <= ver /\ contents.sessions.ver <= ver
          /\ s.ver = ver => s.tokens = inner
          /\ pending = {} => s.ver = ver
        BY <2>1, <2>3 DEF Ordered, LatestWins
    <2>5. CASE Written(WithSessions(s)) /\ lastOk' = TRUE
        <3>1. file'.sessions = s /\ contents'.sessions = s
            BY <2>2, <2>5 DEF Written
        <3> QED BY <2>3, <2>4, <3>1
    <2>6. CASE WriteFailed(WithSessions(s)) /\ lastOk' = FALSE
        <3>1. contents' = contents /\ (file' = file \/ file'.sessions = s)
            BY <2>2, <2>6 DEF WriteFailed
        <3> QED BY <2>3, <2>4, <2>6, <3>1
    <2> QED BY <2>1, <2>5, <2>6
<1>10. CASE Stop
    BY <1>10 DEF Stop
<1>11. ASSUME NEW found \in Contents, ~up, Load(found)
       PROVE  Agreed'
    <2>1. /\ up' /\ inner' = found.sessions.tokens \ expired /\ ver' = found.sessions.ver
          /\ contents'.sessions.ver = found.sessions.ver
          /\ file'.sessions.ver = found.sessions.ver
          /\ contents'.sessions.tokens \ expired = found.sessions.tokens \ expired
          /\ file'.sessions.tokens \ expired = found.sessions.tokens \ expired
          /\ UNCHANGED <<pending, job, expired>>
        BY <1>11, LoadEffect DEF TypeOK, taskVars
    <2>2. job = {} /\ found.sessions.ver \in Nat
        BY <1>11 DEF Ordered, DownIsBlank, Contents, Snapshots
    <2> QED BY <2>1, <2>2
<1>12. CASE SetAside \/ Start
    BY <1>11, <1>12, EmptyFields DEF SetAside, Start, TypeOK
<1> QED BY <1>2, <1>4, <1>5, <1>6, <1>7, <1>8, <1>9, <1>10, <1>12 DEF Next, TaskStep

\* Memory and file agree with the map's versions in every reachable state.
THEOREM AlwaysAgreed == Spec => []Agreed
<1>1. Init => Agreed
    BY EmptyFields DEF Init, Agreed, VersionsAreMaps, GoodWriteAgrees
<1>2. TypeOK /\ TypeOK' /\ Ordered /\ Ordered' /\ Agreed /\ [Next]_vars => Agreed'
    BY StepKeepsAgreed
<1> QED BY <1>1, <1>2, Typed, AlwaysOrdered, PTL DEF Spec

\* tokens.rs `persist_loop`: an idle task whose last write succeeded has left
\* the whole map in the file.
THEOREM IdleMeansSaved == Spec => []QuietMeansSaved
<1>1. TypeOK /\ Ordered /\ Agreed => QuietMeansSaved
    <2> SUFFICES ASSUME TypeOK, Ordered, Agreed, up, task = "recv", chan = <<>>, ~waking, lastOk
                 PROVE  /\ file.sessions.ver = ver
                        /\ file.sessions.tokens \ expired = inner \ expired
        BY DEF QuietMeansSaved
    <2>1. Wakes = {}
        BY DEF Wakes
    <2>2. pending = {} /\ job = {}
        BY <2>1 DEF Ordered, NoLostWakeup, JobOnlyInWrite
    <2> QED BY <2>2 DEF Agreed, VersionsAreMaps, GoodWriteAgrees
<1> QED BY <1>1, Typed, AlwaysOrdered, AlwaysAgreed, PTL

-----------------------------------------------------------------------------
(***************************************************************************)
(* Flushes and restarts.                                                   *)
(***************************************************************************)
Flushed == FlushIsOfThisRun /\ AckFollowsWrite /\ DurableIsBelow /\ GoneStaysGone

\* A collected message changes no flush but the ones whose ack is dropped, and
\* only a flush's own message puts it up for an ack.
LEMMA CollectEffect ==
    ASSUME TypeOK, NEW m \in Flushes \union {"wake"}, Collect(m)
    PROVE  \A f \in Flushes : /\ flush'[f] \in {"sent", "durable"} => flush'[f] = flush[f]
                              /\ f \in ack' => f \in ack \/ f = m
BY DEF Collect, TypeOK

\* A flush is in the channel or up for an ack only after it was sent.
IdleIsNotQueued ==
    \A f \in Flushes : flush[f] = "idle" => f \notin ack /\ \A i \in DOMAIN chan : chan[i] # f

\* The task never acks a flush nobody sent.
THEOREM IdleNeverQueued == Spec => []IdleIsNotQueued
<1>1. Init => IdleIsNotQueued
    BY DEF Init, IdleIsNotQueued
<1>2. ASSUME TypeOK, IdleIsNotQueued, [Next]_vars
      PROVE  IdleIsNotQueued'
    <2> USE <1>2 DEF IdleIsNotQueued
    <2>1. ASSUME UNCHANGED <<chan, ack>>, \A f \in Flushes : flush'[f] = "idle" => flush[f] = "idle"
          PROVE  IdleIsNotQueued'
        BY <2>1
    <2>2. ASSUME NEW t \in Tokens, Mint(t) \/ Revoke(t) \/ Evict(t) \/ Expire(t)
          PROVE  IdleIsNotQueued'
        BY <2>1, <2>2 DEF Mint, Revoke, Evict, Expire, OffLock, taskVars, flushVars
    <2>3. ASSUME NEW k \in Keys, SetKey(k) \/ DeleteKey(k)
          PROVE  IdleIsNotQueued'
        BY <2>1, <2>3 DEF SetKey, DeleteKey, ChangeKey, taskVars, flushVars
    <2>4. ASSUME NEW m \in Flushes \union {"wake"}, chan' = Append(chan, m), ack' = ack,
                 \A f \in Flushes : flush'[f] = "idle" => flush[f] = "idle" /\ f # m
          PROVE  IdleIsNotQueued'
        <3>1. \A i \in DOMAIN chan' : chan'[i] = m \/ (i \in DOMAIN chan /\ chan'[i] = chan[i])
            BY <2>4 DEF TypeOK
        <3> QED BY <2>4, <3>1
    <2>5. CASE SendWake
        BY <2>4, <2>5, WakeAssumption DEF SendWake, taskVars, flushVars
    <2>6. ASSUME NEW f \in Flushes, Flush(f)
          PROVE  IdleIsNotQueued'
        BY <2>4, <2>6 DEF Flush, taskVars, TypeOK
    <2>7. ASSUME NEW f \in Flushes, FlushTimesOut(f)
          PROVE  IdleIsNotQueued'
        BY <2>1, <2>7 DEF FlushTimesOut, taskVars, TypeOK
    <2>8. ASSUME chan # <<>>, chan' = Tail(chan), Collect(Head(chan))
          PROVE  IdleIsNotQueued'
        <3>1. /\ Head(chan) \in Flushes \union {"wake"} /\ Head(chan) = chan[1] /\ 1 \in DOMAIN chan
              /\ \A i \in DOMAIN chan' : i + 1 \in DOMAIN chan /\ chan'[i] = chan[i + 1]
            BY <2>8 DEF TypeOK
        <3>2. \A f \in Flushes : flush'[f] = "idle" => flush[f] = "idle"
            BY <2>8, <3>1 DEF Collect, TypeOK
        <3> QED BY <3>1, <3>2, <2>8, CollectEffect
    <2>9. CASE Recv
        BY <2>8, <2>9 DEF Recv
    <2>10. CASE Drain
        BY <2>1, <2>8, <2>10 DEF Drain
    <2>11. CASE Take \/ Persist
        BY <2>1, <2>11 DEF Take, Persist
    <2>12. CASE Ack
        BY <2>12 DEF Ack
    <2>13. CASE Stop
        BY <2>13 DEF Stop
    <2>14. CASE Damage \/ Repair \/ UNCHANGED vars
        BY <2>1, <2>14 DEF Damage, Repair, vars, taskVars, flushVars
    <2>15. CASE SetAside \/ Start
        BY <2>1, <2>15 DEF SetAside, Start, Load, taskVars, flushVars
    <2> QED BY <2>2, <2>3, <2>5, <2>6, <2>7, <2>9, <2>10, <2>11, <2>12, <2>13, <2>14, <2>15
            DEF Next, TaskStep
<1> QED BY <1>1, <1>2, Typed, PTL DEF Spec

\* Every step keeps what the flushes were promised.
LEMMA StepKeepsFlushed ==
    ASSUME TypeOK, TypeOK', Ordered, Agreed, IdleIsNotQueued, Flushed, [Next]_vars
    PROVE  Flushed'
<1> USE DEF Flushed, FlushIsOfThisRun, AckFollowsWrite, DurableIsBelow, GoneStaysGone
<1>0. /\ ver \in Nat /\ file.sessions.ver \in Nat /\ contents.sessions.ver \in Nat
      /\ \A s \in job \union pending : s \in Snapshots /\ s.ver \in Nat
      /\ ack \subseteq Flushes
      /\ \A f \in Flushes : flushVer[f] \in Nat
    BY DEF TypeOK, Contents, Snapshots
<1>1. ASSUME NEW toks, up, Submit(toks), OffLock, UNCHANGED expired,
             minted \subseteq minted', toks \ inner \subseteq minted' \ minted
      PROVE  Flushed'
    <2>1. inner' = toks /\ ver' = ver + 1
        BY <1>1 DEF Submit
    <2>2. UNCHANGED <<up, task, ack, job, contents, file, aside, flush, flushVer, flushGone, lastOk>>
        BY <1>1 DEF OffLock, taskVars, diskVars, flushVars
    <2>3. FlushIsOfThisRun' /\ AckFollowsWrite' /\ DurableIsBelow'
        BY <1>0, <2>1, <2>2
    <2>4. GoneStaysGone'
        BY <1>1, <2>1, <2>2
    <2> QED BY <2>3, <2>4
<1>2. ASSUME NEW t \in Tokens, Mint(t) \/ Revoke(t) \/ Evict(t)
      PROVE  Flushed'
    <2>1. CASE Mint(t)
        BY <1>1, <2>1 DEF Mint
    <2>2. CASE Revoke(t) \/ Evict(t)
        BY <1>1, <2>2 DEF Revoke, Evict
    <2> QED BY <1>2, <2>1, <2>2
\* Steps that change neither the map, the task nor the disk, and no flush but
\* to give up on it.
<1>3. ASSUME UNCHANGED <<up, inner, ver, job, contents, file, aside, minted, flushVer, flushGone, lastOk>>,
             expired \subseteq expired',
             \A f \in Flushes : flush'[f] \in {"sent", "durable"} => flush'[f] = flush[f],
             \A f \in ack' : flush'[f] = "sent" => f \in ack \/ job = {},
             task' = "ack" => task = "ack" /\ ack' \subseteq ack
      PROVE  Flushed'
    <2>1. FlushIsOfThisRun' /\ DurableIsBelow' /\ GoneStaysGone'
        BY <1>3
    <2>2. AckFollowsWrite'
        BY <1>0, <1>3
    <2> QED BY <2>1, <2>2
<1>4. CASE SendWake \/ Damage \/ Repair \/ UNCHANGED vars
    BY <1>3, <1>4 DEF SendWake, Damage, Repair, vars, storeVars, taskVars, diskVars, flushVars
<1>5. ASSUME NEW t \in Tokens, Expire(t)
      PROVE  Flushed'
    BY <1>3, <1>5 DEF Expire, storeVars, taskVars, diskVars, flushVars
<1>6. ASSUME NEW f \in Flushes, FlushTimesOut(f)
      PROVE  Flushed'
    BY <1>3, <1>6 DEF FlushTimesOut, storeVars, taskVars, diskVars, TypeOK
<1>7. CASE Recv \/ Drain
    <2>1. /\ UNCHANGED <<up, inner, ver, job, contents, file, aside, minted, expired, flushVer,
                         flushGone, lastOk>>
          /\ task' \in {"drain", "take"} /\ task \in {"recv", "drain"}
        BY <1>7 DEF Recv, Drain, TaskOnly, diskVars
    <2>2. job = {}
        BY <2>1 DEF Ordered, JobOnlyInWrite
    <2>3. \A f \in Flushes : flush'[f] \in {"sent", "durable"} => flush'[f] = flush[f]
        <3>1. CASE chan = <<>>
            BY <1>7, <3>1 DEF Recv, Drain
        <3>2. CASE chan # <<>>
            <4>1. Head(chan) \in Flushes \union {"wake"} /\ Collect(Head(chan))
                BY <1>7, <3>2 DEF Recv, Drain, TypeOK
            <4> QED BY <4>1, CollectEffect
        <3> QED BY <3>1, <3>2
    <2> QED BY <1>3, <2>1, <2>2, <2>3
<1>8. CASE Take
    <2>1. /\ UNCHANGED <<up, inner, ver, ack, contents, file, aside, minted, expired, flush, flushVer,
                         flushGone, lastOk>>
          /\ job' = pending /\ up /\ task = "take"
        BY <1>8 DEF Take, TaskOnly, diskVars
    <2>2. \A s \in pending : s.ver = ver /\ s.tokens = inner
        BY <2>1 DEF Ordered, LatestWins
    <2>3. job = {}
        BY <2>1 DEF Ordered, JobOnlyInWrite
    <2>4. task' = "ack" /\ lastOk => contents.sessions.ver = ver
        BY <1>8, <2>1, <2>3 DEF Take, Agreed, GoodWriteAgrees
    <2>5. FlushIsOfThisRun' /\ DurableIsBelow'
        BY <2>1
    <2>6. AckFollowsWrite'
        BY <1>0, <2>1, <2>2, <2>4
    <2>7. GoneStaysGone'
        BY <2>1, <2>2
    <2> QED BY <2>5, <2>6, <2>7
<1>9. CASE Persist
    <2>1. PICK s \in job : \/ Written(WithSessions(s)) /\ lastOk' = TRUE
                           \/ WriteFailed(WithSessions(s)) /\ lastOk' = FALSE
        BY <1>9 DEF Persist
    <2>2. WithSessions(s).sessions = s
        BY <1>0, WithSessionsFields
    <2>3. /\ UNCHANGED <<up, inner, ver, ack, minted, expired, flush, flushVer, flushGone, aside>>
          /\ up /\ job' = {} /\ task' = "ack"
        BY <1>9, <2>1 DEF Persist, TaskOnly, Written, WriteFailed
    <2>4. contents.sessions.ver <= s.ver /\ s.ver \in Nat
        BY <1>0, <2>1, <2>3 DEF Ordered, LatestWins
    <2>5. /\ contents' = contents \/ contents'.sessions = s
          /\ file' = file \/ file'.sessions = s
          /\ lastOk' => contents'.sessions = s
        BY <2>1, <2>2 DEF Written, WriteFailed
    <2>6. FlushIsOfThisRun'
        BY <2>3
    <2>7. AckFollowsWrite'
        BY <2>1, <2>3, <2>5
    <2>8. DurableIsBelow'
        <3> SUFFICES ASSUME NEW f \in Flushes, flush[f] = "durable",
                            ~ \E c \in aside : flushVer[f] <= c.sessions.ver
                     PROVE  flushVer[f] <= file'.sessions.ver /\ flushVer[f] <= contents'.sessions.ver
            BY <2>3
        <3>1. flushVer[f] <= file.sessions.ver /\ flushVer[f] <= contents.sessions.ver
            BY <2>3
        <3> QED BY <1>0, <2>4, <2>5, <3>1
    <2>9. GoneStaysGone'
        <3> SUFFICES ASSUME NEW f \in Flushes, flush[f] \in {"sent", "durable"}
                     PROVE  /\ flush[f] = "durable" \/ flushVer[f] <= contents'.sessions.ver
                                  => flushGone[f] \intersect contents'.sessions.tokens \subseteq expired
                            /\ flush[f] = "durable" \/ flushVer[f] <= file'.sessions.ver
                                  => flushGone[f] \intersect file'.sessions.tokens \subseteq expired
            BY <2>3
        <3>1. flush[f] = "durable" \/ flushVer[f] <= s.ver => flushGone[f] \intersect s.tokens = {}
            BY <2>1
        <3> QED BY <2>3, <2>5, <3>1
    <2> QED BY <2>6, <2>7, <2>8, <2>9
<1>10. CASE Ack
    <2>1. /\ UNCHANGED <<up, inner, ver, job, contents, file, aside, minted, expired, flushVer,
                         flushGone, lastOk>>
          /\ up /\ task = "ack" /\ ack' = {} /\ task' = "recv"
        BY <1>10 DEF Ack, TaskOnly, diskVars
    <2>2. \A f \in Flushes :
             \/ flush'[f] = flush[f]
             \/ flush'[f] = "acked"
             \/ flush'[f] = "durable" /\ f \in ack /\ flush[f] = "sent" /\ lastOk
        BY <1>10 DEF Ack
    <2>3. job = {}
        BY <2>1 DEF Ordered, JobOnlyInWrite
    <2>4. ASSUME NEW f \in ack, flush[f] = "sent", lastOk
          PROVE  /\ flushVer[f] <= contents.sessions.ver
                 /\ file.sessions.ver = contents.sessions.ver
                 /\ file.sessions.tokens \ expired = contents.sessions.tokens \ expired
        BY <2>1, <2>4 DEF Agreed, GoodWriteAgrees
    <2>5. FlushIsOfThisRun' /\ AckFollowsWrite'
        BY <2>1, <2>2
    <2>6. DurableIsBelow'
        <3> SUFFICES ASSUME NEW f \in Flushes, flush'[f] = "durable"
                     PROVE  \/ \E c \in aside : flushVer[f] <= c.sessions.ver
                            \/ flushVer[f] <= file.sessions.ver /\ flushVer[f] <= contents.sessions.ver
            BY <2>1
        <3> QED BY <2>1, <2>2, <2>4
    <2>7. GoneStaysGone'
        <3> SUFFICES ASSUME NEW f \in Flushes, flush'[f] \in {"sent", "durable"}
                     PROVE  /\ flushGone[f] \subseteq minted
                            /\ flushGone[f] \intersect inner = {}
                            /\ flush'[f] = "durable" \/ flushVer[f] <= contents.sessions.ver
                                  => flushGone[f] \intersect contents.sessions.tokens \subseteq expired
                            /\ flush'[f] = "durable" \/ flushVer[f] <= file.sessions.ver
                                  => flushGone[f] \intersect file.sessions.tokens \subseteq expired
            BY <2>1, <2>3
        <3>1. CASE flush'[f] = flush[f]
            BY <2>1, <3>1
        <3>2. CASE flush'[f] = "durable" /\ f \in ack /\ flush[f] = "sent" /\ lastOk
            BY <2>1, <2>4, <3>2
        <3> QED BY <2>2, <3>1, <3>2
    <2> QED BY <2>5, <2>6, <2>7
<1>11. ASSUME NEW g \in Flushes, Flush(g)
       PROVE  Flushed'
    <2>1. /\ UNCHANGED <<up, inner, ver, task, ack, job, contents, file, aside, minted, expired, lastOk>>
          /\ up /\ flush[g] = "idle"
          /\ flush' = [flush EXCEPT ![g] = "sent"]
          /\ flushVer' = [flushVer EXCEPT ![g] = ver]
          /\ flushGone' = [flushGone EXCEPT ![g] = minted \ inner]
        BY <1>11 DEF Flush, storeVars, taskVars, diskVars
    <2>2. \A f \in Flushes \ {g} : flush'[f] = flush[f] /\ flushVer'[f] = flushVer[f]
                                   /\ flushGone'[f] = flushGone[f]
        BY <2>1 DEF TypeOK
    <2>3. flush'[g] = "sent" /\ flushVer'[g] = ver /\ flushGone'[g] = minted \ inner
        BY <2>1 DEF TypeOK
    <2>4. FlushIsOfThisRun' /\ DurableIsBelow'
        BY <1>0, <2>1, <2>2, <2>3
    \* The task acks only what it was asked before: g is not there yet.
    <2>5. g \notin ack
        BY <2>1 DEF IdleIsNotQueued
    <2>6. QED
        <3>1. AckFollowsWrite'
            BY <1>0, <2>1, <2>2, <2>5
        <3>2. /\ \A s \in job : ver <= s.ver => s.tokens = inner
              /\ ver <= contents.sessions.ver => contents.sessions.tokens \ expired = inner \ expired
              /\ ver <= file.sessions.ver => file.sessions.tokens \ expired = inner \ expired
            BY <1>0, <2>1 DEF Ordered, LatestWins, Agreed, VersionsAreMaps
        <3>4. GoneStaysGone'
            BY <2>1, <2>2, <2>3, <3>2
        <3> QED BY <2>4, <3>1, <3>4
<1>12. CASE Stop
    <2>1. /\ ~up' /\ UNCHANGED <<file, aside, minted, expired, flushVer, flushGone>>
          /\ ack' = {} /\ job' = {} /\ inner' = {}
          /\ \A f \in Flushes : flush'[f] # "sent" /\ (flush'[f] = "durable" => flush[f] = "durable")
        BY <1>12 DEF Stop
    <2> QED BY <2>1
<1>13. ASSUME NEW found \in Contents, ~up, Load(found), aside \subseteq aside',
              found = file \/ (found = Empty /\ file \in aside')
       PROVE  Flushed'
    <2>1. /\ up' /\ inner' = found.sessions.tokens \ expired /\ ver' = found.sessions.ver
          /\ contents'.sessions.ver = found.sessions.ver
          /\ file'.sessions.ver = found.sessions.ver
          /\ contents'.sessions.tokens \ expired = found.sessions.tokens \ expired
          /\ file'.sessions.tokens \ expired = found.sessions.tokens \ expired
          /\ UNCHANGED <<ack, job, minted, expired, flush, flushVer, flushGone>>
        BY <1>13, LoadEffect DEF TypeOK, taskVars, flushVars
    <2>2. job = {} /\ ack = {}
        BY <1>13 DEF Ordered, DownIsBlank
    <2>3. \A f \in Flushes : flush[f] # "sent"
        BY <1>13
    <2>4. ASSUME NEW f \in Flushes, flush[f] = "durable"
          PROVE  flushGone[f] \intersect (found.sessions.tokens \ expired) = {}
        BY <1>13, <2>4, EmptyFields
    <2>5. FlushIsOfThisRun' /\ AckFollowsWrite'
        BY <2>1, <2>2, <2>3
    <2>6. DurableIsBelow'
        <3> SUFFICES ASSUME NEW f \in Flushes, flush[f] = "durable"
                     PROVE  \/ \E c \in aside' : flushVer[f] <= c.sessions.ver
                            \/ flushVer[f] <= found.sessions.ver
            BY <2>1
        <3> QED BY <1>13
    <2>7. GoneStaysGone'
        BY <2>1, <2>2, <2>3, <2>4
    <2> QED BY <2>5, <2>6, <2>7
<1>14. CASE SetAside
    BY <1>13, <1>14, EmptyFields DEF SetAside
<1>15. CASE Start
    BY <1>13, <1>15 DEF Start, TypeOK
<1>16. ASSUME NEW k \in Keys, SetKey(k) \/ DeleteKey(k)
       PROVE  Flushed'
    <2>1. PICK ks \in SUBSET Keys : ChangeKey(k, ks)
        BY <1>16 DEF SetKey, DeleteKey, TypeOK, Contents
    <2>2. /\ contents'.sessions = contents.sessions
          /\ file' = file \/ file'.sessions = contents.sessions
        BY <2>1, WithKeysFields DEF ChangeKey, Written, WriteFailed
    <2>3. /\ UNCHANGED <<up, inner, ver, task, ack, job, minted, expired, flush, flushVer, flushGone,
                         lastOk, aside>> /\ up
        BY <2>1 DEF ChangeKey, Written, WriteFailed, storeVars, taskVars, flushVars
    <2>4. FlushIsOfThisRun' /\ AckFollowsWrite' /\ DurableIsBelow'
        BY <2>2, <2>3
    <2>5. GoneStaysGone'
        BY <2>2, <2>3
    <2> QED BY <2>4, <2>5
<1> QED BY <1>2, <1>4, <1>5, <1>6, <1>7, <1>8, <1>9, <1>10, <1>11, <1>12, <1>14, <1>15, <1>16
        DEF Next, TaskStep

\* What the flushes were promised holds in every reachable state.
THEOREM AlwaysFlushed == Spec => []Flushed
<1>1. Init => Flushed
    BY DEF Init, Flushed, FlushIsOfThisRun, AckFollowsWrite, DurableIsBelow, GoneStaysGone
<1>2. /\ TypeOK /\ TypeOK' /\ Ordered /\ Agreed /\ IdleIsNotQueued /\ Flushed
      /\ [Next]_vars
      => Flushed'
    BY StepKeepsFlushed
<1> QED BY <1>1, <1>2, Typed, AlwaysOrdered, AlwaysAgreed, IdleNeverQueued, PTL DEF Spec

\* tokens.rs `mint` and `revoke`: a token that was revoked before an acked
\* flush never comes back, whatever happens to the daemon afterwards.
THEOREM RevokedStaysRevoked == Spec => []NoResurrection
<1>1. Flushed => NoResurrection
    BY DEF Flushed, GoneStaysGone, NoResurrection
<1> QED BY <1>1, AlwaysFlushed, PTL

\* tokens.rs `flush_persisted_sessions`: what an acked flush wrote stays.
THEOREM AckedFlushIsDurable == Spec => []FlushIsDurable
<1>1. TypeOK /\ Flushed => FlushIsDurable
    BY DEF TypeOK, Contents, Snapshots, Flushed, DurableIsBelow, FlushIsDurable
<1> QED BY <1>1, Typed, AlwaysFlushed, PTL

\* secrets.rs `update` and tokens.rs `persist_loop`: the file moves forward.
THEOREM FileMovesForward == Spec => FileNeverGoesBack
<1> DEFINE Forward == file'.sessions.ver >= file.sessions.ver
                        \/ (up /\ file # contents) \/ health = "garbled"
<1>1. ASSUME TypeOK, Ordered, [Next]_vars
      PROVE  [Forward]_vars
    <2> USE <1>1
    <2>0. /\ file.sessions.ver \in Nat /\ file.sessions.ver >= file.sessions.ver
          /\ \A s \in job : s \in Snapshots /\ s.ver \in Nat
        BY DEF TypeOK, Contents, Snapshots
    <2>1. ASSUME file' = file PROVE Forward
        BY <2>0, <2>1, Zenon
    <2>2. ASSUME NEW k \in Keys, SetKey(k) \/ DeleteKey(k) PROVE Forward
        <3>1. PICK ks \in SUBSET Keys : ChangeKey(k, ks)
            BY <2>2 DEF SetKey, DeleteKey, TypeOK, Contents
        <3>2. up /\ (file' = file \/ file'.sessions = contents.sessions)
            BY <3>1, WithKeysFields DEF ChangeKey, Written, WriteFailed
        <3> QED BY <2>0, <3>2
    <2>3. CASE Persist
        <3>1. PICK s \in job : Written(WithSessions(s)) \/ WriteFailed(WithSessions(s))
            BY <2>3 DEF Persist
        <3>2. file' = file \/ file'.sessions = s
            BY <2>0, <3>1, WithSessionsFields DEF Written, WriteFailed
        <3>3. up /\ contents.sessions.ver <= s.ver
            BY <2>3, <3>1 DEF Persist, Ordered, LatestWins
        <3> QED BY <2>0, <3>1, <3>2, <3>3
    <2>4. CASE Start
        <3>1. file'.sessions.ver = file.sessions.ver
            BY <2>4, LoadEffect DEF Start, TypeOK
        <3> QED BY <2>0, <3>1, Zenon
    <2>5. CASE SetAside
        BY <2>5 DEF SetAside
    <2>6. ASSUME NEW t \in Tokens, Mint(t) \/ Revoke(t) \/ Evict(t) \/ Expire(t) PROVE Forward
        BY <2>1, <2>6 DEF Mint, Revoke, Evict, Expire, OffLock, diskVars
    <2>7. CASE SendWake \/ Recv \/ Drain \/ Take \/ Ack \/ Stop \/ Damage \/ Repair \/ UNCHANGED vars
        BY <2>1, <2>7 DEF SendWake, Recv, Drain, Take, Ack, Stop, Damage, Repair, vars, diskVars
    <2>8. ASSUME NEW f \in Flushes, Flush(f) \/ FlushTimesOut(f) PROVE Forward
        BY <2>1, <2>8 DEF Flush, FlushTimesOut, diskVars
    <2> QED BY <2>2, <2>3, <2>4, <2>5, <2>6, <2>7, <2>8 DEF Next, TaskStep
<1> QED BY <1>1, Typed, AlwaysOrdered, PTL DEF Spec, FileNeverGoesBack

\* A daemon runs only on a file it read, or that it moved out of the way.
RunsOnWhatItRead == up => health = "fine"

\* secrets.rs `at`: what could not be read or parsed is replaced only after it has been
\* moved aside, whichever way the daemon came up.
THEOREM UnreadIsKept == Spec => NeverReplacesUnread
<1> DEFINE Kept == file' # file => health = "fine" \/ file \in aside'
<1>1. Init => RunsOnWhatItRead
    BY DEF Init, RunsOnWhatItRead
<1>2. ASSUME RunsOnWhatItRead, [Next]_vars
      PROVE  RunsOnWhatItRead' /\ [Kept]_vars
    <2> USE <1>2 DEF RunsOnWhatItRead
    <2>1. ASSUME NEW t \in Tokens, Mint(t) \/ Revoke(t) \/ Evict(t) \/ Expire(t)
          PROVE  RunsOnWhatItRead' /\ Kept
        BY <2>1 DEF Mint, Revoke, Evict, Expire, OffLock, diskVars
    <2>2. CASE SendWake \/ Recv \/ Drain \/ Take \/ Ack \/ UNCHANGED vars
        BY <2>2 DEF SendWake, Recv, Drain, Take, Ack, TaskOnly, vars, diskVars
    <2>3. ASSUME NEW k \in Keys, SetKey(k) \/ DeleteKey(k)
          PROVE  RunsOnWhatItRead' /\ Kept
        BY <2>3 DEF SetKey, DeleteKey, ChangeKey, Written, WriteFailed
    <2>4. CASE Persist
        BY <2>4 DEF Persist, TaskOnly, Written, WriteFailed
    <2>5. ASSUME NEW f \in Flushes, Flush(f) \/ FlushTimesOut(f)
          PROVE  RunsOnWhatItRead' /\ Kept
        BY <2>5 DEF Flush, FlushTimesOut, diskVars
    <2>6. CASE Stop \/ Damage \/ Repair
        BY <2>6 DEF Stop, Damage, Repair
    <2>7. CASE SetAside
        BY <2>7 DEF SetAside
    <2>8. CASE Start
        BY <2>8 DEF Start
    <2> QED BY <2>1, <2>2, <2>3, <2>4, <2>5, <2>6, <2>7, <2>8 DEF Next, TaskStep
<1> QED BY <1>1, <1>2, PTL DEF Spec, NeverReplacesUnread
=============================================================================
