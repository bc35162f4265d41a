-------------------------- MODULE ProvisionProofs ---------------------------
(***************************************************************************)
(* Proofs that a stamp is wrong only when another load's rename overtook   *)
(* it, that Ok otherwise means pinned bytes and that a cancelled load      *)
(* stops, for any slots, models, pins and contents, and that a client is   *)
(* told the truth about a load, for any files and reports.                 *)
(*                                                                         *)
(* Of the files: a rename puts only the bytes of the renaming load's pin   *)
(* at a destination, under an mtime nobody has seen.  So while a load      *)
(* looks at a file, either the file is still the one whose mtime the load  *)
(* noted, or somebody has replaced it by the same pinned bytes, or the     *)
(* load has lost it to another pin.                                        *)
(*                                                                         *)
(* Of the reports: what the throttle drops is close to what was published  *)
(* last, and as long as the backend's report stands, it has been quiet for *)
(* as long as the watch was still.                                         *)
(***************************************************************************)
EXTENDS MCProvision, TLAPS

MidFile == Steps \ {"idle", "next", "ok", "failed"}
Looking == {"stamped", "open", "hash", "hashed"}
Passed == {"stamp", "write", "restat"}

\* What a load's item wants is at its destination.
AsPinned(s) == disk[Dest(s)].content = Pin(s)
Lost(s) == Dest(s) \in lost[s]

\* While the file has the mtime that a load is about to stamp, it has the bytes of its pin,
\* unless that mtime is of another load's file.
StampWillBeTrue(s) == (disk[Dest(s)].mtime = md[s] => AsPinned(s)) \/ Overtaken(s)

\* What is true of a load wherever it is.
Local(s) ==
    /\ pc[s] \in Looking \union Passed => Pinned(s)
    /\ pc[s] \in Looking => disk[Dest(s)].mtime = md[s] \/ AsPinned(s) \/ Lost(s)
    /\ pc[s] \in {"hash", "hashed"} /\ disk[Dest(s)].mtime = md[s] => disk[Dest(s)].content = held[s]
    /\ pc[s] \in Passed => AsPinned(s) \/ Lost(s)
    /\ pc[s] = "restat" => ver[s] # 0 /\ (disk[Dest(s)].mtime = ver[s] => AsPinned(s))
    /\ pc[s] \in {"stamp", "write"} => StampWillBeTrue(s)
    /\ pc[s] = "publish" => ver[s] # 0
    /\ pc[s] = "ok" => idx[s] > Len(items[s])

\* The files behind it are as they should be, or lost.
Done(s) ==
    pc[s] # "idle" => \A i \in 1 .. Len(items[s]) :
        i < idx[s] /\ items[s][i].pin # "none" /\ items[s][i].dest \notin lost[s] =>
            disk[items[s][i].dest].content = items[s][i].pin

\* The mtime of a temporary file is nobody else's.
Unseen(s) ==
    pc[s] = "publish" =>
        /\ \A k \in Slots : md[k] # ver[s] /\ (k # s => ver[k] # ver[s])
        /\ \A d \in Dests : disk[d].mtime # ver[s] /\ stamp[d].mtime # ver[s]

Bounded ==
    /\ \A s \in Slots : md[s] <= clock /\ ver[s] <= clock
    /\ \A d \in Dests : disk[d].mtime <= clock /\ stamp[d].mtime <= clock

\* A slot without a load starts at the first file.
Fresh == \A s \in Slots : pc[s] = "idle" => idx[s] = 1

IInv ==
    /\ TypeOK /\ Bounded /\ StampSound /\ Fresh
    /\ \A s \in Slots : Local(s) /\ Done(s) /\ Unseen(s)

-----------------------------------------------------------------------------
LEMMA InitIInv == Init => IInv
  <1> SUFFICES ASSUME Init PROVE IInv
    OBVIOUS
  <1> USE DEF Init
  <1>1. TypeOK
    <2>1. disk \in [Dests -> [content : Bytes \union {"absent", "empty"}, mtime : Nat]]
      OBVIOUS
    <2>2. stamp \in [Dests -> [pin : Bytes \union {"none"}, mtime : Nat]]
      BY DEF NoStamp
    <2>3. items \in [Slots -> Seq(Items)]
      OBVIOUS
    <2> QED
      BY <2>1, <2>2, <2>3 DEF TypeOK, Steps
  <1>2. Bounded
    <2>1. \A d \in Dests : disk[d].mtime = 1
      OBVIOUS
    <2>2. \A d \in Dests : stamp[d].mtime \in {0, 1}
      BY DEF NoStamp
    <2> QED
      BY <2>1, <2>2 DEF Bounded
  <1>3. StampSound
    BY DEF StampSound
  <1>4. \A s \in Slots : Local(s) /\ Done(s) /\ Unseen(s)
    BY DEF Local, Done, Unseen, Looking, Passed
  <1>5. Fresh
    BY DEF Fresh
  <1> QED
    BY <1>1, <1>2, <1>3, <1>4, <1>5 DEF IInv

\* What an item is.
LEMMA ItemOfLoad ==
    ASSUME TypeOK, NEW s \in Slots, NEW i \in 1 .. Len(items[s])
    PROVE  /\ items[s][i] \in Items /\ items[s][i].dest \in Dests
           /\ items[s][i].pin \in Bytes \union {"none"}
  <1>1. items[s] \in Seq(Items)
    BY DEF TypeOK
  <1>2. items[s][i] \in Items
    BY <1>1
  <1> QED
    BY <1>2 DEF Items

\* A load at a file is at one of its items.
LEMMA DestOfMidFile ==
    ASSUME TypeOK, NEW s \in Slots, pc[s] \in MidFile
    PROVE  /\ idx[s] \in 1 .. Len(items[s]) /\ Len(items[s]) \in Nat
           /\ Dest(s) \in Dests /\ Dest(s) = items[s][idx[s]].dest
           /\ Pin(s) \in Bytes \union {"none"} /\ Pin(s) = items[s][idx[s]].pin
  <1>1. items[s] \in Seq(Items) /\ idx[s] \in Nat \ {0} /\ idx[s] <= Len(items[s])
    BY DEF TypeOK, MidFile
  <1>2. idx[s] \in 1 .. Len(items[s]) /\ Len(items[s]) \in Nat
    BY <1>1
  <1> QED
    BY <1>2, ItemOfLoad DEF Dest, Pin

\* The other loads are where they were, with what they know and have lost.
Alone(s) ==
    \A k \in Slots \ {s} :
        /\ pc'[k] = pc[k] /\ idx'[k] = idx[k] /\ md'[k] = md[k] /\ held'[k] = held[k]
        /\ ver'[k] = ver[k] /\ items'[k] = items[k] /\ lost'[k] = lost[k]

\* A step of another load that leaves the disk alone changes nothing for this one.
LEMMA OtherLoads ==
    ASSUME IInv, NEW s \in Slots, NEW k \in Slots, k # s, disk' = disk, Alone(s)
    PROVE  Local(k)' /\ Done(k)'
  <1>1. /\ pc'[k] = pc[k] /\ idx'[k] = idx[k] /\ md'[k] = md[k] /\ held'[k] = held[k]
        /\ ver'[k] = ver[k] /\ items'[k] = items[k] /\ lost'[k] = lost[k]
    BY DEF Alone
  <1> QED
    BY <1>1 DEF IInv, Local, Done, Dest, Pin, Pinned, AsPinned, Lost, StampWillBeTrue, Overtaken

\* A step of a load that leaves the files alone: it is enough to look at the load
\* itself and at the stamps.
LEMMA LoadStep ==
    ASSUME IInv, NEW s \in Slots, TypeOK', UNCHANGED <<disk, clock>>, StampSound', Alone(s),
           \A d \in Dests : \/ stamp'[d].mtime \in {0, stamp[d].mtime}
                            \/ \E k \in Slots : stamp'[d].mtime = md[k],
           md'[s] \in {0, md[s]} \/ \E d \in Dests : md'[s] = disk[d].mtime,
           ver'[s] \in {0, ver[s]},
           pc'[s] = "publish" => pc[s] = "publish" /\ ver'[s] = ver[s],
           pc'[s] = "idle" => idx'[s] = 1,
           Local(s)', Done(s)'
    PROVE  IInv'
  <1>0. \A k \in Slots : k # s => /\ pc'[k] = pc[k] /\ idx'[k] = idx[k] /\ md'[k] = md[k]
                                  /\ ver'[k] = ver[k]
    BY DEF Alone
  <1>1. \A k \in Slots : Local(k)' /\ Done(k)'
    <2>1. ASSUME NEW k \in Slots, k # s PROVE Local(k)' /\ Done(k)'
      BY <2>1, OtherLoads
    <2> QED
      BY <2>1
  <1>3. Bounded'
    <2>1. clock \in Nat /\ \A k \in Slots : md[k] <= clock /\ ver[k] <= clock
      BY DEF IInv, TypeOK, Bounded
    <2>2. \A d \in Dests : disk[d].mtime <= clock /\ stamp[d].mtime <= clock
      BY DEF IInv, Bounded
    <2>3. md'[s] <= clock /\ ver'[s] <= clock
      BY <2>1, <2>2
    <2>4. \A k \in Slots : md'[k] <= clock /\ ver'[k] <= clock
      BY <1>0, <2>1, <2>3
    <2>5. \A d \in Dests : stamp'[d].mtime <= clock
      BY <2>1, <2>2
    <2> QED
      BY <2>2, <2>4, <2>5 DEF Bounded
  <1>4. \A k \in Slots : Unseen(k)'
    <2> SUFFICES ASSUME NEW k \in Slots, pc'[k] = "publish"
                 PROVE  /\ \A j \in Slots : md'[j] # ver'[k] /\ (j # k => ver'[j] # ver'[k])
                        /\ \A d \in Dests : disk[d].mtime # ver'[k] /\ stamp'[d].mtime # ver'[k]
      BY DEF Unseen
    <2>1. pc[k] = "publish" /\ ver'[k] = ver[k] /\ Unseen(k) /\ ver'[k] # 0
      BY <1>0 DEF IInv, Local
    <2>2. \A d \in Dests : disk[d].mtime # ver'[k] /\ stamp[d].mtime # ver'[k]
      BY <2>1 DEF Unseen
    <2>3. \A j \in Slots : md[j] # ver'[k] /\ (j # k => ver[j] # ver'[k])
      BY <2>1 DEF Unseen
    <2>4. md'[s] # ver'[k]
      BY <2>1, <2>2, <2>3
    <2>5. \A d \in Dests : stamp'[d].mtime # ver'[k]
      BY <2>1, <2>2, <2>3
    <2> QED
      BY <1>0, <2>1, <2>2, <2>3, <2>4, <2>5
  <1>5. Fresh'
    BY <1>0 DEF IInv, Fresh
  <1> QED
    BY <1>1, <1>3, <1>4, <1>5 DEF IInv

LEMMA LocalStep ==
    ASSUME IInv, NEW s \in Slots, TypeOK', UNCHANGED <<disk, stamp, clock, overtaken>>, Alone(s),
           md'[s] \in {0, md[s]} \/ \E d \in Dests : md'[s] = disk[d].mtime,
           ver'[s] \in {0, ver[s]},
           pc'[s] = "publish" => pc[s] = "publish" /\ ver'[s] = ver[s],
           pc'[s] = "idle" => idx'[s] = 1,
           Local(s)', Done(s)'
    PROVE  IInv'
  <1>1. StampSound'
    BY DEF IInv, StampSound, Sound
  <1>2. \A d \in Dests : stamp'[d].mtime \in {0, stamp[d].mtime}
    OBVIOUS
  <1> QED
    BY <1>1, <1>2, LoadStep

\* The variables a load's own step leaves alone.
Quiet == UNCHANGED <<fileVars, asked, races>>

LEMMA QuietIs == Quiet <=> UNCHANGED <<disk, stamp, clock, items, cancelled, edits, from, lost, overtaken>>
  BY DEF Quiet, fileVars, asked, races

\* A load that gives up holds nothing.
LEMMA FailMove ==
    ASSUME IInv, NEW s \in Slots, Fail(s), Quiet, pc[s] # "idle"
    PROVE  IInv'
  <1> USE QuietIs DEF Fail, Forget, Goto
  <1>1. TypeOK'
    BY DEF IInv, TypeOK, Steps
  <1>2. pc'[s] = "failed" /\ idx' = idx /\ md'[s] = 0 /\ ver'[s] = 0
    BY DEF IInv, TypeOK
  <1>3. Alone(s)
    BY DEF IInv, TypeOK, Alone
  <1>4. Local(s)'
    BY <1>2 DEF Local, Looking, Passed
  <1>5. Done(s)'
    BY <1>2 DEF IInv, Done
  <1> QED
    BY <1>1, <1>2, <1>3, <1>4, <1>5, LocalStep

\* A load that stays at its file, or ends.
LEMMA StayMove ==
    ASSUME IInv, NEW s \in Slots, NEW p \in Steps \ {"idle", "publish"}, Stay(s, p), Quiet, pc[s] # "idle",
           Local(s)', p \in MidFile => idx[s] <= Len(items[s])
    PROVE  IInv'
  <1> USE QuietIs DEF Stay, Goto
  <1>1. pc' \in [Slots -> Steps] /\ pc'[s] = p
    BY DEF IInv, TypeOK
  <1>2. Alone(s)
    BY DEF IInv, TypeOK, Alone
  <1>3. TypeOK'
    <2>1. \A k \in Slots : pc'[k] \notin {"idle", "next", "ok", "failed"} => idx'[k] <= Len(items'[k])
      BY <1>1, <1>2 DEF IInv, TypeOK, MidFile, Alone
    <2> QED
      BY <1>1, <2>1 DEF IInv, TypeOK
  <1>4. Done(s)'
    BY DEF IInv, Done
  <1> QED
    BY <1>1, <1>2, <1>3, <1>4, LocalStep

\* What a load has lost is for good, and a load that goes on leaves a file behind that is
\* as it should be, or lost.
LEMMA DoneNext ==
    ASSUME IInv, NEW s \in Slots, pc[s] \in MidFile, disk' = disk, items'[s] = items[s],
           idx'[s] = idx[s] + 1, lost[s] \subseteq lost'[s],
           Pinned(s) => AsPinned(s) \/ Dest(s) \in lost'[s]
    PROVE  Done(s)'
  <1>1. idx[s] \in 1 .. Len(items[s]) /\ Len(items[s]) \in Nat
    BY DestOfMidFile DEF IInv
  <1> SUFFICES ASSUME NEW i \in 1 .. Len(items[s]), i < idx[s] + 1, items[s][i].pin # "none",
                      items[s][i].dest \notin lost'[s]
               PROVE  disk[items[s][i].dest].content = items[s][i].pin
    BY DEF Done
  <1>2. CASE i < idx[s]
    BY <1>2 DEF IInv, Done, MidFile
  <1>3. CASE i = idx[s]
    BY <1>3 DEF Pinned, AsPinned, Pin, Dest
  <1> QED
    BY <1>1, <1>2, <1>3

LEMMA NextMove ==
    ASSUME IInv, NEW s \in Slots, NextItem(s), UNCHANGED <<fileVars, asked, overtaken>>,
           pc[s] \in MidFile, NEW gone \in SUBSET Dests, lost' = [lost EXCEPT ![s] = @ \union gone],
           Pinned(s) => AsPinned(s) \/ Lost(s) \/ Dest(s) \in gone
    PROVE  IInv'
  <1> USE DEF NextItem, Forget, Goto, fileVars, asked
  <1>1. TypeOK'
    BY DEF IInv, TypeOK, Steps
  <1>2. pc'[s] = "next" /\ idx'[s] = idx[s] + 1 /\ md'[s] = 0 /\ ver'[s] = 0 /\ idx[s] \in Nat
    BY DEF IInv, TypeOK
  <1>3. Alone(s) /\ lost'[s] = lost[s] \union gone
    BY DEF IInv, TypeOK, Alone
  <1>4. Local(s)'
    BY <1>2 DEF Local, Looking, Passed
  <1>5. Done(s)'
    BY <1>2, <1>3, DoneNext DEF Lost
  <1> QED
    BY <1>1, <1>2, <1>3, <1>4, <1>5, LocalStep

\* Which loses nothing by going on.
LEMMA KeepMove ==
    ASSUME IInv, NEW s \in Slots, NextItem(s), Quiet, pc[s] \in MidFile,
           Pinned(s) => AsPinned(s) \/ Lost(s)
    PROVE  IInv'
  <1>1. UNCHANGED <<fileVars, asked, overtaken>> /\ lost' = lost
    BY DEF Quiet, races
  <1>2. PICK gone \in SUBSET Dests : gone = {}
    OBVIOUS
  <1>3. lost' = [lost EXCEPT ![s] = @ \union gone]
    BY <1>1, <1>2 DEF IInv, TypeOK
  <1> QED
    BY <1>1, <1>3, NextMove

\* A load that notes the mtime of a file.
LEMMA SeeMove ==
    ASSUME IInv, NEW s \in Slots, NEW p \in MidFile \ {"publish"}, See(s, p), Quiet, pc[s] \in MidFile,
           Local(s)'
    PROVE  IInv'
  <1> USE QuietIs DEF See, Goto
  <1>1. Dest(s) \in Dests /\ idx[s] <= Len(items[s])
    BY DestOfMidFile DEF IInv
  <1>2. disk[Dest(s)].mtime \in Nat
    BY <1>1 DEF IInv, TypeOK
  <1>3. pc' \in [Slots -> Steps] /\ pc'[s] = p /\ md' \in [Slots -> Nat] /\ md'[s] = disk[Dest(s)].mtime
    BY <1>2 DEF IInv, TypeOK, MidFile
  <1>4. Alone(s)
    BY DEF IInv, TypeOK, Alone
  <1>5. TypeOK'
    <2>1. \A k \in Slots : pc'[k] \notin {"idle", "next", "ok", "failed"} => idx'[k] <= Len(items'[k])
      BY <1>1, <1>3, <1>4 DEF IInv, TypeOK, Alone
    <2> QED
      BY <1>3, <2>1 DEF IInv, TypeOK
  <1>6. Done(s)'
    BY DEF IInv, Done, MidFile
  <1> QED
    BY <1>1, <1>3, <1>4, <1>5, <1>6, LocalStep DEF MidFile

-----------------------------------------------------------------------------
\* usable_existing: until the file is hashed.
LEMMA LookSteps ==
    ASSUME IInv, NEW s \in Slots,
           NextFile(s) \/ Check(s) \/ HashChunk(s) \/ Hashed(s)
           \/ Fetch(s) \/ StreamChunk(s) \/ Restat(s)
    PROVE  IInv'
  <1>1. Quiet /\ pc[s] # "idle" /\ Local(s) /\ TypeOK /\ pc[s] \in Steps
    BY DEF NextFile, Check, HashChunk, Hashed, Fetch, StreamChunk, Restat, Quiet, IInv, TypeOK
  <1>2. CASE Fail(s)
    BY <1>1, <1>2, FailMove
  <1>3. pc[s] # "next" => pc[s] \in MidFile
    BY DEF NextFile, Check, HashChunk, Hashed, Fetch, StreamChunk, Restat, MidFile, Steps
  <1>4. pc[s] \in MidFile => Dest(s) \in Dests /\ idx[s] <= Len(items[s])
    BY <1>1, DestOfMidFile
  <1>5. ASSUME NEW p \in Steps \ {"idle", "publish"}, Stay(s, p), p \notin Looking \union Passed \union {"ok"},
               p \in MidFile => idx[s] <= Len(items[s])
        PROVE IInv'
    <2>1. pc'[s] = p
      BY <1>1, <1>5 DEF Stay, Goto, TypeOK
    <2>2. Local(s)'
      BY <1>5, <2>1 DEF Local, Looking, Passed
    <2> QED
      BY <1>1, <1>5, <2>2, StayMove
  <1>6. ASSUME NEW p \in Steps, Stay(s, p)
        PROVE  /\ pc'[s] = p /\ idx'[s] = idx[s] /\ md'[s] = md[s] /\ held'[s] = held[s]
               /\ ver'[s] = ver[s] /\ disk' = disk /\ items' = items /\ lost' = lost
    BY <1>1, <1>6, QuietIs DEF Stay, Goto, TypeOK
  <1>7. CASE NextFile(s)
    <2>1. idx[s] \in Nat /\ Len(items[s]) \in Nat
      BY <1>1 DEF TypeOK
    <2>2. CASE idx[s] > Len(items[s]) /\ Stay(s, "ok")
      <3>1. "ok" \in Steps \ {"idle", "publish"} /\ "ok" \notin MidFile
        BY DEF Steps, MidFile
      <3>2. Local(s)'
        BY <1>6, <2>2, <3>1 DEF Local, Looking, Passed
      <3> QED
        BY <1>1, <2>2, <3>1, <3>2, StayMove
    <2>3. CASE ~(idx[s] > Len(items[s])) /\ Stay(s, "check")
      BY <1>5, <2>1, <2>3 DEF Steps, Looking, Passed
    <2> QED
      BY <1>2, <1>7, <2>2, <2>3 DEF NextFile
  <1>8. CASE Check(s)
    <2>1. pc[s] \in MidFile
      BY <1>3, <1>8 DEF Check
    <2>2. CASE Stay(s, "fetch")
      BY <1>4, <1>5, <2>1, <2>2 DEF Steps, Looking, Passed
    <2>3. CASE ~Pinned(s) /\ NextItem(s)
      BY <1>1, <2>1, <2>3, KeepMove
    <2>4. CASE Pinned(s) /\ See(s, "stamped")
      <3>1. pc'[s] = "stamped" /\ md'[s] = disk[Dest(s)].mtime /\ idx' = idx /\ disk' = disk
           /\ items' = items
        BY <1>1, <2>4, QuietIs DEF See, Goto, TypeOK
      <3>2. Local(s)'
        BY <2>4, <3>1 DEF Local, Looking, Passed, Dest, Pin, Pinned
      <3> QED
        BY <1>1, <2>1, <2>4, <3>2, SeeMove DEF MidFile, Steps
    <2> QED
      BY <1>8, <2>2, <2>3, <2>4 DEF Check
  <1>10. CASE HashChunk(s)
    <2>1. pc[s] = "hash" /\ pc[s] \in MidFile
      BY <1>3, <1>10 DEF HashChunk
    <2>2. CASE Stay(s, "hashed")
      <3>1. Local(s)'
        BY <1>1, <1>6, <2>1, <2>2 DEF Local, Looking, Passed, Steps, Dest, Pin, Pinned, AsPinned, Lost
      <3> QED
        BY <1>1, <1>4, <2>1, <2>2, <3>1, StayMove DEF Steps
    <2> QED
      BY <1>2, <1>10, <2>2 DEF HashChunk
  <1>11. CASE Hashed(s)
    <2>1. pc[s] = "hashed" /\ pc[s] \in MidFile
      BY <1>3, <1>11 DEF Hashed
    <2>2. CASE held[s] = Pin(s) /\ Stay(s, "stamp")
      <3>1. /\ Pinned(s) /\ (disk[Dest(s)].mtime = md[s] => AsPinned(s))
            /\ AsPinned(s) \/ Lost(s)
        BY <1>1, <2>1, <2>2 DEF Local, Looking, AsPinned
      <3>2. Local(s)'
        BY <1>6, <2>2, <3>1 DEF Local, Looking, Passed, Steps, Dest, Pin, Pinned, AsPinned, Lost,
                                StampWillBeTrue
      <3> QED
        BY <1>1, <1>4, <2>1, <2>2, <3>2, StayMove DEF Steps
    <2>3. CASE Stay(s, "fetch")
      BY <1>4, <1>5, <2>1, <2>3 DEF Steps, Looking, Passed
    <2> QED
      BY <1>11, <2>2, <2>3 DEF Hashed
  <1>12. CASE Fetch(s) \/ StreamChunk(s)
    <2>1. Stay(s, "stream") \/ Stay(s, "tail") \/ Fail(s)
      BY <1>12 DEF Fetch, StreamChunk
    <2>2. pc[s] \in MidFile
      BY <1>3, <1>12 DEF Fetch, StreamChunk
    <2>3. CASE Stay(s, "stream")
      BY <1>4, <1>5, <2>2, <2>3 DEF Steps, Looking, Passed
    <2>4. CASE Stay(s, "tail")
      BY <1>4, <1>5, <2>2, <2>4 DEF Steps, Looking, Passed
    <2> QED
      BY <1>2, <2>1, <2>3, <2>4
  <1>13. CASE Restat(s)
    <2>1. pc[s] = "restat" /\ pc[s] \in MidFile
      BY <1>3, <1>13 DEF Restat
    <2>2. /\ Pinned(s) /\ (AsPinned(s) \/ Lost(s)) /\ ver[s] # 0
          /\ disk[Dest(s)].mtime = ver[s] => AsPinned(s)
      BY <1>1, <2>1 DEF Local, Passed
    <2>3. CASE See(s, "stamp")
      <3>1. /\ pc'[s] = "stamp" /\ md'[s] = disk[Dest(s)].mtime /\ ver'[s] = ver[s]
            /\ idx' = idx /\ disk' = disk /\ items' = items /\ lost' = lost
        BY <1>1, <2>3, QuietIs DEF See, Goto, TypeOK
      <3>2. StampWillBeTrue(s)'
        BY <2>2, <3>1 DEF StampWillBeTrue, Overtaken, AsPinned, Lost, Dest, Pin
      <3>3. Local(s)'
        BY <2>2, <3>1, <3>2 DEF Local, Looking, Passed, Dest, Pin, Pinned, AsPinned, Lost
      <3> QED
        BY <1>1, <2>1, <2>3, <3>3, SeeMove DEF MidFile, Steps
    <2>4. CASE NextItem(s)
      BY <1>1, <2>1, <2>2, <2>4, KeepMove
    <2> QED
      BY <1>13, <2>3, <2>4 DEF Restat
  <1> QED
    BY <1>7, <1>8, <1>10, <1>11, <1>12, <1>13

\* A stamp that says the file is verified is believed, though it may be an overtaken one.
LEMMA ReadStampStep ==
    ASSUME IInv, NEW s \in Slots, ReadStamp(s)
    PROVE  IInv'
  <1>1. /\ TypeOK /\ Local(s) /\ pc[s] = "stamped" /\ pc[s] \in MidFile
        /\ UNCHANGED <<fileVars, asked, overtaken>>
    BY DEF ReadStamp, IInv, MidFile, Steps
  <1>2. Dest(s) \in Dests /\ idx[s] <= Len(items[s])
    BY <1>1, DestOfMidFile
  <1>3. Pinned(s) /\ (disk[Dest(s)].mtime = md[s] \/ AsPinned(s) \/ Lost(s))
    BY <1>1 DEF Local, Looking
  <1>4. ASSUME stamp[Dest(s)] = [pin |-> Pin(s), mtime |-> md[s]], NextItem(s),
               lost' = [lost EXCEPT ![s] = @ \union (overtaken \intersect {Dest(s)})]
        PROVE  IInv'
    <2>1. PICK gone \in SUBSET Dests : gone = overtaken \intersect {Dest(s)}
      BY <1>2
    <2>2. stamp[Dest(s)].pin = Pin(s) /\ stamp[Dest(s)].mtime = md[s] /\ stamp[Dest(s)] # NoStamp
      BY <1>3, <1>4 DEF NoStamp, Pinned
    <2>3. CASE Dest(s) \in overtaken
      BY <1>1, <1>4, <2>1, <2>3, NextMove
    <2>4. CASE Dest(s) \notin overtaken
      <3>1. AsPinned(s) \/ Lost(s)
        BY <1>2, <1>3, <2>2, <2>4 DEF IInv, StampSound, Sound, AsPinned
      <3> QED
        BY <1>1, <1>4, <2>1, <3>1, NextMove
    <2> QED
      BY <2>3, <2>4
  <1>5. CASE Stay(s, "open") /\ UNCHANGED lost
    <2>1. Quiet
      BY <1>1, <1>5 DEF Quiet, races
    <2>2. /\ pc'[s] = "open" /\ idx' = idx /\ md' = md /\ disk' = disk /\ items' = items
          /\ lost' = lost
      BY <1>1, <1>5, <2>1, QuietIs DEF Stay, Goto, TypeOK
    <2>3. Local(s)'
      BY <1>3, <2>2 DEF Local, Looking, Passed, Dest, Pin, Pinned, AsPinned, Lost
    <2> QED
      BY <1>1, <1>2, <1>5, <2>1, <2>3, StayMove DEF Steps
  <1> QED
    BY <1>4, <1>5 DEF ReadStamp

\* sha256_hex_of_file opens the file that has the name now.
LEMMA OpenStep ==
    ASSUME IInv, NEW s \in Slots, OpenFile(s)
    PROVE  IInv'
  <1>1. Quiet /\ pc[s] = "open" /\ pc[s] \in MidFile /\ Local(s) /\ TypeOK
    BY DEF OpenFile, Quiet, IInv, MidFile, Steps
  <1>2. CASE Fail(s)
    BY <1>1, <1>2, FailMove
  <1>3. CASE Hold(s, disk[Dest(s)].content, "hash")
    <2> USE <1>3, QuietIs DEF Hold, Goto
    <2>1. Dest(s) \in Dests /\ idx[s] <= Len(items[s])
      BY <1>1, DestOfMidFile
    <2>2. /\ pc' \in [Slots -> Steps] /\ pc'[s] = "hash"
          /\ held' \in [Slots -> Bytes \union {"absent", "empty"}] /\ held'[s] = disk[Dest(s)].content
      BY <1>1, <2>1 DEF TypeOK, Steps
    <2>3. Alone(s)
      BY <1>1 DEF TypeOK, Alone
    <2>4. TypeOK'
      <3>1. \A k \in Slots : pc'[k] \notin {"idle", "next", "ok", "failed"} => idx'[k] <= Len(items'[k])
        BY <1>1, <2>1, <2>2, <2>3 DEF TypeOK, Alone
      <3> QED
        BY <1>1, <2>2, <3>1 DEF TypeOK
    <2>5. Local(s)'
      BY <1>1, <2>2 DEF Local, Looking, Passed, Dest, Pin, Pinned, AsPinned, Lost
    <2>6. Done(s)'
      BY <1>1 DEF IInv, Done
    <2> QED
      BY <1>1, <2>3, <2>4, <2>5, <2>6, LocalStep
  <1> QED
    BY <1>2, <1>3 DEF OpenFile

\* write_stamp: while the file has the mtime that is written, it holds the bytes of the pin
\* that is written with it, unless it is another load's.
LEMMA StampSteps ==
    ASSUME IInv, NEW s \in Slots, TruncateStamp(s) \/ WriteStamp(s)
    PROVE  IInv'
  <1>1. /\ UNCHANGED <<disk, clock, asked, lost>>
        /\ pc[s] \in {"stamp", "write"} /\ pc[s] \in MidFile /\ Local(s) /\ TypeOK
    BY DEF TruncateStamp, WriteStamp, IInv, MidFile, Steps
  <1>2. /\ Dest(s) \in Dests /\ idx[s] <= Len(items[s]) /\ Pinned(s) /\ (AsPinned(s) \/ Lost(s))
        /\ StampWillBeTrue(s) /\ Pin(s) \in Bytes \union {"none"}
    BY <1>1, DestOfMidFile DEF Local, Passed
  <1>3. CASE NextItem(s) /\ UNCHANGED <<stamp, overtaken>>
    <2>1. Quiet
      BY <1>1, <1>3 DEF Quiet, fileVars, races
    <2> QED
      BY <1>1, <1>2, <1>3, <2>1, KeepMove
  <1>4. PICK m \in Nat : m = md[s]
    BY <1>1 DEF TypeOK
  <1>5. PICK q \in Bytes : q = Pin(s)
    BY <1>2 DEF Pinned
  <1>6. CASE /\ stamp' = [stamp EXCEPT ![Dest(s)] = NoStamp] /\ Stay(s, "write")
             /\ overtaken' = overtaken \ {Dest(s)}
    <2> USE <1>6 DEF Stay, Goto, asked
    <2>1. /\ pc' \in [Slots -> Steps] /\ pc'[s] = "write" /\ overtaken' \subseteq Dests
          /\ stamp' \in [Dests -> [pin : Bytes \union {"none"}, mtime : Nat]]
      BY <1>1 DEF TypeOK, Steps, NoStamp
    <2>2. Alone(s)
      BY <1>1 DEF TypeOK, Alone
    <2>3. TypeOK'
      <3>1. \A k \in Slots : pc'[k] \notin {"idle", "next", "ok", "failed"} => idx'[k] <= Len(items'[k])
        BY <1>1, <1>2, <2>1, <2>2 DEF TypeOK, Alone
      <3> QED
        BY <1>1, <2>1, <3>1 DEF TypeOK
    <2>4. \A d \in Dests : stamp'[d] = NoStamp \/ (stamp'[d] = stamp[d] /\ d # Dest(s))
      BY <1>1 DEF TypeOK
    <2>5. StampSound'
      BY <1>1, <2>4 DEF IInv, StampSound, Sound
    <2>6. \A d \in Dests : stamp'[d].mtime \in {0, stamp[d].mtime}
      BY <2>4 DEF NoStamp
    <2>7. Local(s)'
      BY <1>1, <1>2, <2>1 DEF Local, Looking, Passed, Dest, Pin, Pinned, AsPinned, Lost,
                              StampWillBeTrue, Overtaken
    <2>8. Done(s)'
      BY <1>1, <2>1 DEF IInv, Done, MidFile
    <2> QED
      BY <1>1, <2>1, <2>2, <2>3, <2>5, <2>6, <2>7, <2>8, LoadStep
  <1>7. CASE /\ stamp' = [stamp EXCEPT ![Dest(s)] = [pin |-> q, mtime |-> m]] /\ NextItem(s)
             /\ overtaken' = IF Overtaken(s) THEN overtaken \union {Dest(s)}
                             ELSE overtaken \ {Dest(s)}
    <2> USE <1>7 DEF NextItem, Forget, Goto, asked
    <2>1. /\ pc'[s] = "next" /\ idx'[s] = idx[s] + 1 /\ idx[s] \in Nat /\ md'[s] = 0 /\ ver'[s] = 0
          /\ stamp' \in [Dests -> [pin : Bytes \union {"none"}, mtime : Nat]]
          /\ overtaken' \subseteq Dests
      BY <1>1, <1>2, <1>4, <1>5 DEF TypeOK
    <2>2. Alone(s)
      BY <1>1 DEF TypeOK, Alone
    <2>3. TypeOK'
      <3>1. /\ pc' \in [Slots -> Steps] /\ idx' \in [Slots -> Nat \ {0}] /\ md' \in [Slots -> Nat]
            /\ ver' \in [Slots -> Nat] /\ held' \in [Slots -> Bytes \union {"absent", "empty"}]
        BY <1>1 DEF TypeOK, Steps
      <3>2. \A k \in Slots : pc'[k] \notin {"idle", "next", "ok", "failed"} => idx'[k] <= Len(items'[k])
        BY <1>1, <2>1, <2>2 DEF TypeOK, Alone
      <3> QED
        BY <1>1, <2>1, <3>1, <3>2 DEF TypeOK
    <2>4. \A d \in Dests : \/ stamp'[d] = stamp[d] /\ d # Dest(s)
                           \/ d = Dest(s) /\ stamp'[d].pin = q /\ stamp'[d].mtime = md[s]
      BY <1>1, <1>4 DEF TypeOK
    <2>5. StampSound'
      <3> SUFFICES ASSUME NEW d \in Dests \ overtaken' PROVE Sound(d)'
        BY DEF StampSound
      <3>1. CASE d # Dest(s)
        <4>1. d \in Dests \ overtaken /\ stamp'[d] = stamp[d] /\ disk'[d] = disk[d]
          BY <1>1, <2>4, <3>1
        <4> QED
          BY <4>1 DEF IInv, StampSound, Sound
      <3>2. CASE d = Dest(s)
        <4>1. ~Overtaken(s)
          BY <3>2
        <4>2. disk'[d].mtime = md[s] => disk'[d].content = q
          BY <1>1, <1>2, <1>5, <3>2, <4>1 DEF StampWillBeTrue, AsPinned
        <4> QED
          BY <2>4, <3>2, <4>2 DEF Sound
      <3> QED
        BY <3>1, <3>2
    <2>6. \A d \in Dests : \/ stamp'[d].mtime \in {0, stamp[d].mtime}
                           \/ \E k \in Slots : stamp'[d].mtime = md[k]
      BY <2>4
    <2>7. Local(s)'
      BY <2>1 DEF Local, Looking, Passed
    <2>8. Done(s)'
      BY <1>1, <1>2, <2>1, DoneNext DEF Lost
    <2> QED
      BY <1>1, <2>1, <2>2, <2>3, <2>5, <2>6, <2>7, <2>8, LoadStep
  <1> QED
    BY <1>3, <1>4, <1>5, <1>6, <1>7 DEF TruncateStamp, WriteStamp

\* The end of a body: the temporary file gets an mtime later than any other.
LEMMA EndOfBodyStep ==
    ASSUME IInv, NEW s \in Slots, EndOfBody(s)
    PROVE  IInv'
  <1>1. /\ UNCHANGED <<disk, stamp, idx, md>> /\ clock' = clock + 1 /\ pc' = [pc EXCEPT ![s] = "publish"]
        /\ ver' = [ver EXCEPT ![s] = clock + 1] /\ UNCHANGED <<asked, races>>
        /\ pc[s] \in {"stream", "tail"} /\ pc[s] \in MidFile /\ TypeOK /\ Local(s) /\ Done(s)
    BY DEF EndOfBody, Goto, IInv, MidFile, Steps
  <1>0. UNCHANGED <<items, cancelled, edits, from, lost, overtaken>>
    BY <1>1 DEF asked, races
  <1>2. PICK c \in Bytes \union {"empty"} : held' = [held EXCEPT ![s] = c]
    BY DEF EndOfBody
  <1>3. idx[s] <= Len(items[s])
    BY <1>1, DestOfMidFile
  <1>4. /\ clock \in Nat /\ pc' \in [Slots -> Steps] /\ pc'[s] = "publish"
        /\ ver' \in [Slots -> Nat] /\ ver'[s] = clock + 1
        /\ held' \in [Slots -> Bytes \union {"absent", "empty"}]
    BY <1>1, <1>2 DEF TypeOK, Steps
  <1>5. Alone(s)
    BY <1>0, <1>1, <1>2 DEF TypeOK, Alone
  <1>6. TypeOK'
    <2>1. \A k \in Slots : pc'[k] \notin {"idle", "next", "ok", "failed"} => idx'[k] <= Len(items'[k])
      BY <1>0, <1>1, <1>3, <1>4, <1>5 DEF TypeOK, Alone
    <2> QED
      BY <1>0, <1>1, <1>4, <2>1 DEF TypeOK
  <1>7. /\ \A k \in Slots : md[k] \in Nat /\ ver[k] \in Nat /\ md[k] <= clock /\ ver[k] <= clock
        /\ \A d \in Dests : /\ disk[d].mtime \in Nat /\ disk[d].mtime <= clock
                            /\ stamp[d].mtime \in Nat /\ stamp[d].mtime <= clock
    BY <1>1 DEF IInv, TypeOK, Bounded
  <1>8. Bounded'
    BY <1>1, <1>4, <1>5, <1>7 DEF Bounded, Alone
  <1>9. StampSound'
    BY <1>0, <1>1 DEF IInv, StampSound, Sound
  <1>10. \A k \in Slots : Local(k)' /\ Done(k)'
    <2>1. Local(s)'
      BY <1>4 DEF Local, Looking, Passed
    <2>2. Done(s)'
      BY <1>0, <1>1, <1>4 DEF Done, MidFile
    <2>3. ASSUME NEW k \in Slots, k # s PROVE Local(k)' /\ Done(k)'
      BY <1>1, <1>5, <2>3, OtherLoads
    <2> QED
      BY <2>1, <2>2, <2>3
  <1>11. \A k \in Slots : Unseen(k)'
    <2>1. Unseen(s)'
      BY <1>1, <1>4, <1>5, <1>7 DEF Unseen, Alone
    <2>2. ASSUME NEW k \in Slots, k # s PROVE Unseen(k)'
      <3>1. pc'[k] = pc[k] /\ ver'[k] = ver[k] /\ ver[k] # clock + 1
        BY <1>4, <1>5, <1>7, <2>2 DEF Alone
      <3> QED
        BY <1>1, <1>4, <1>5, <2>2, <3>1 DEF IInv, Unseen, Alone
    <2> QED
      BY <2>1, <2>2
  <1>12. Fresh'
    BY <1>1, <1>4, <1>5 DEF IInv, Fresh, Alone
  <1> QED
    BY <1>6, <1>8, <1>9, <1>10, <1>11, <1>12 DEF IInv

\* The rename: verified bytes, under an mtime that no load and no stamp has noted; who
\* pins the destination otherwise has lost it.
LEMMA RenameStep ==
    ASSUME IInv, NEW s \in Slots, pc[s] = "publish", Pinned(s) => held[s] = Pin(s), Rename(s),
           UNCHANGED <<stamp, clock, asked, overtaken>>
    PROVE  IInv'
  <1>1. /\ TypeOK /\ Local(s) /\ Done(s) /\ Unseen(s) /\ ver[s] # 0 /\ pc[s] \in MidFile
        /\ UNCHANGED <<items, cancelled, edits, from>>
    BY DEF IInv, Local, MidFile, Steps, asked
  <1>0. /\ Dest(s) \in Dests /\ idx[s] \in 1 .. Len(items[s]) /\ Len(items[s]) \in Nat
        /\ Dest(s) = items[s][idx[s]].dest /\ Pin(s) = items[s][idx[s]].pin
    BY <1>1, DestOfMidFile
  <1>2. PICK d \in Dests : d = Dest(s)
    BY <1>0
  <1>3. PICK v \in Nat : v = ver[s]
    BY <1>1 DEF TypeOK
  <1>4. PICK c \in Bytes \union {"absent", "empty"} : c = held[s]
    BY <1>1 DEF TypeOK
  <1>5. /\ disk' \in [Dests -> [content : Bytes \union {"absent", "empty"}, mtime : Nat]]
        /\ disk'[d].content = c /\ disk'[d].mtime = v /\ \A e \in Dests : e # d => disk'[e] = disk[e]
    BY <1>1, <1>2, <1>3, <1>4 DEF TypeOK, Rename
  <1>7. /\ pc' = [pc EXCEPT ![s] = IF Pinned(s) THEN "restat" ELSE "next"]
        /\ idx' = [idx EXCEPT ![s] = IF Pinned(s) THEN idx[s] ELSE idx[s] + 1]
        /\ md' = [md EXCEPT ![s] = 0] /\ held' = [held EXCEPT ![s] = "empty"]
        /\ ver' = [ver EXCEPT ![s] = IF Pinned(s) THEN ver[s] ELSE 0]
    <2>1. CASE Pinned(s)
      BY <1>1, <2>1 DEF Rename, Published, Goto, TypeOK
    <2>2. CASE ~Pinned(s)
      BY <2>2 DEF Rename, NextItem, Goto, Forget
    <2> QED
      BY <2>1, <2>2
  <1>8. /\ pc' \in [Slots -> Steps] /\ idx' \in [Slots -> Nat \ {0}] /\ md' \in [Slots -> Nat]
        /\ ver' \in [Slots -> Nat] /\ held' \in [Slots -> Bytes \union {"absent", "empty"}]
        /\ md'[s] = 0 /\ ver'[s] = (IF Pinned(s) THEN v ELSE 0)
        /\ pc'[s] = (IF Pinned(s) THEN "restat" ELSE "next")
        /\ idx'[s] = (IF Pinned(s) THEN idx[s] ELSE idx[s] + 1)
    BY <1>1, <1>3, <1>7 DEF TypeOK, Steps
  <1>9. \A k \in Slots : k # s => /\ pc'[k] = pc[k] /\ idx'[k] = idx[k] /\ md'[k] = md[k]
                                  /\ held'[k] = held[k] /\ ver'[k] = ver[k]
    BY <1>1, <1>7 DEF TypeOK
  \* What a load has lost.
  <1>6. /\ lost' \in [Slots -> SUBSET Dests]
        /\ \A k \in Slots : /\ lost[k] \subseteq lost'[k]
                            /\ PinsOtherwise(k, d, Pin(s)) => d \in lost'[k]
    <2>1. \A k \in Slots : lost[k] \in SUBSET Dests
      BY <1>1 DEF TypeOK
    <2>2. lost' = [k \in Slots |-> IF PinsOtherwise(k, d, Pin(s)) THEN lost[k] \union {d} ELSE lost[k]]
      BY <1>2 DEF Rename
    <2> QED
      BY <2>1, <2>2
  <1>10. TypeOK'
    <2>1. \A k \in Slots : pc'[k] \notin {"idle", "next", "ok", "failed"} => idx'[k] <= Len(items'[k])
      BY <1>0, <1>1, <1>8, <1>9 DEF TypeOK
    <2> QED
      BY <1>1, <1>5, <1>6, <1>8, <2>1 DEF TypeOK
  \* What an item wants is still there, or lost.
  <1>11. ASSUME NEW k \in Slots, NEW i \in 1 .. Len(items[k]), items[k][i].pin # "none",
                items[k][i].dest \notin lost'[k],
                items[k][i].dest # d => disk[items[k][i].dest].content = items[k][i].pin
         PROVE  disk'[items[k][i].dest].content = items[k][i].pin
    <2>1. items[k][i].dest \in Dests
      BY <1>1, ItemOfLoad
    <2>2. CASE items[k][i].dest = d
      <3>1. items[k][i].pin = Pin(s)
        BY <1>6, <1>11, <2>2 DEF PinsOtherwise
      <3>2. Pinned(s)
        BY <1>11, <3>1 DEF Pinned
      <3> QED
        BY <1>4, <1>5, <2>2, <3>1, <3>2
    <2>3. CASE items[k][i].dest # d
      BY <1>5, <1>11, <2>1, <2>3
    <2> QED
      BY <2>2, <2>3
  <1>13. StampSound'
    <2> SUFFICES ASSUME NEW e \in Dests \ overtaken PROVE Sound(e)'
      BY DEF StampSound
    <2>1. CASE e = d
      <3>1. stamp[d].mtime # v
        BY <1>1, <1>2, <1>3 DEF Unseen
      <3> QED
        BY <1>5, <2>1, <3>1 DEF Sound
    <2>2. CASE e # d
      BY <1>5, <2>2 DEF IInv, StampSound, Sound
    <2> QED
      BY <2>1, <2>2
  <1>14. Bounded'
    <2>1. clock \in Nat /\ v <= clock
      BY <1>1, <1>3 DEF IInv, Bounded, TypeOK
    <2>2. \A k \in Slots : md'[k] <= clock /\ ver'[k] <= clock
      BY <1>8, <1>9, <2>1 DEF IInv, Bounded
    <2>3. \A e \in Dests : disk'[e].mtime <= clock
      BY <1>5, <2>1 DEF IInv, Bounded
    <2> QED
      BY <2>2, <2>3 DEF IInv, Bounded
  <1>15. \A k \in Slots : Unseen(k)'
    <2> SUFFICES ASSUME NEW k \in Slots, pc'[k] = "publish"
                 PROVE  /\ \A j \in Slots : md'[j] # ver'[k] /\ (j # k => ver'[j] # ver'[k])
                        /\ \A e \in Dests : disk'[e].mtime # ver'[k] /\ stamp[e].mtime # ver'[k]
      BY DEF Unseen
    <2>1. k # s
      BY <1>8
    <2>2. pc[k] = "publish" /\ ver'[k] = ver[k] /\ Unseen(k) /\ ver'[k] # 0
      BY <1>9, <2>1 DEF IInv, Local
    <2>3. v # ver'[k]
      BY <1>3, <2>1, <2>2 DEF Unseen
    <2> QED
      BY <1>5, <1>8, <1>9, <2>1, <2>2, <2>3 DEF Unseen
  <1>16. Local(s)'
    <2>1. CASE Pinned(s)
      <3>1. pc'[s] = "restat" /\ idx'[s] = idx[s] /\ ver'[s] # 0
        BY <1>1, <1>3, <1>8, <2>1
      <3>2. Dest(s)' = d /\ Pin(s)' = Pin(s)
        BY <1>1, <1>2, <3>1 DEF Dest, Pin
      <3>3. AsPinned(s)'
        BY <1>4, <1>5, <2>1, <3>2 DEF AsPinned
      <3>4. Pinned(s)'
        BY <2>1, <3>2 DEF Pinned
      <3> QED
        BY <3>1, <3>3, <3>4 DEF Local, Looking, Passed
    <2>2. CASE ~Pinned(s)
      BY <1>8, <2>2 DEF Local, Looking, Passed
    <2> QED
      BY <2>1, <2>2
  <1>17. ASSUME NEW k \in Slots PROVE Done(k)'
    <2> SUFFICES ASSUME pc'[k] # "idle", NEW i \in 1 .. Len(items[k]), i < idx'[k],
                        items[k][i].pin # "none", items[k][i].dest \notin lost'[k]
                 PROVE  disk'[items[k][i].dest].content = items[k][i].pin
      BY <1>1 DEF Done
    <2>1. items[k][i].dest \notin lost[k] /\ Done(k) /\ idx[k] \in Nat
      BY <1>1, <1>6 DEF IInv, TypeOK
    <2>2. CASE i < idx[k]
      <3>1. pc[k] # "idle"
        BY <1>9
      <3>2. disk[items[k][i].dest].content = items[k][i].pin
        BY <2>1, <2>2, <3>1 DEF Done
      <3> QED
        BY <1>11, <3>2
    <2>3. CASE ~(i < idx[k])
      <3>1. k = s /\ i = idx[s]
        BY <1>8, <1>9, <2>1, <2>3
      <3>2. items[k][i].dest = d
        BY <1>0, <1>2, <3>1
      <3> QED
        BY <1>11, <3>2
    <2> QED
      BY <2>2, <2>3
  <1>18. ASSUME NEW k \in Slots, k # s PROVE Local(k)'
    <2>1. /\ pc'[k] = pc[k] /\ idx'[k] = idx[k] /\ md'[k] = md[k] /\ held'[k] = held[k]
          /\ ver'[k] = ver[k] /\ items'[k] = items[k] /\ Local(k)
      BY <1>1, <1>9, <1>18 DEF IInv
    <2>2. Dest(k)' = Dest(k) /\ Pin(k)' = Pin(k)
      BY <2>1 DEF Dest, Pin
    <2>4. CASE pc[k] \notin Looking \union Passed
      BY <2>1, <2>4 DEF Local, Looking, Passed
    <2>5. CASE pc[k] \in Looking \union Passed
      <3>1. pc[k] \in MidFile /\ Pin(k) # "none" /\ pc[k] \notin {"publish", "ok"}
        BY <2>1, <2>5 DEF Local, MidFile, Looking, Passed, Steps, Pinned
      <3>2. /\ Dest(k) \in Dests /\ idx[k] \in 1 .. Len(items[k])
            /\ Dest(k) = items[k][idx[k]].dest /\ Pin(k) = items[k][idx[k]].pin
        BY <1>1, <3>1, DestOfMidFile
      <3>3. PICK e \in Dests : e = Dest(k)
        BY <3>2
      <3>5. CASE e = d
        \* Somebody else's file now: of the same pin, or lost; and under an mtime of its own.
        <4>1. AsPinned(k)' \/ Lost(k)'
          <5>1. e \in lost'[k] \/ disk'[e].content = Pin(k)
            BY <1>11, <3>1, <3>2, <3>3, <3>5
          <5> QED
            BY <2>2, <3>3, <5>1 DEF AsPinned, Lost
        <4>2. disk'[e].mtime # md[k] /\ disk'[e].mtime # ver[k]
          BY <1>1, <1>3, <1>5, <1>18, <3>5 DEF Unseen
        <4>3. /\ disk'[Dest(k)'].mtime # md'[k] /\ disk'[Dest(k)'].mtime # ver'[k]
          BY <2>1, <2>2, <3>3, <4>2
        <4>4. Pinned(k)' /\ (pc[k] = "restat" => ver[k] # 0)
          BY <2>1, <2>2, <3>1 DEF Pinned, Local
        <4> QED
          BY <2>1, <3>1, <4>1, <4>3, <4>4 DEF Local, Looking, Passed, StampWillBeTrue
      <3>6. CASE e # d
        <4>1. disk'[e] = disk[e] /\ lost[k] \subseteq lost'[k]
          BY <1>5, <1>6, <3>6
        <4>2. /\ AsPinned(k)' <=> AsPinned(k)
              /\ Lost(k) => Lost(k)'
              /\ Overtaken(k) => Overtaken(k)'
              /\ Pinned(k)' <=> Pinned(k)
              /\ disk'[Dest(k)'] = disk[Dest(k)]
          BY <2>1, <2>2, <3>3, <4>1 DEF AsPinned, Lost, Overtaken, Pinned
        <4> QED
          BY <2>1, <3>1, <4>2 DEF Local, StampWillBeTrue
      <3> QED
        BY <3>5, <3>6
    <2> QED
      BY <2>4, <2>5
  <1>19. Fresh'
    BY <1>8, <1>9 DEF IInv, Fresh
  <1> QED
    BY <1>10, <1>13, <1>14, <1>15, <1>16, <1>17, <1>18, <1>19 DEF IInv

\* start_download, cancel_download, clear_download and the daemon's death.
LEMMA ManagerSteps ==
    ASSUME IInv, NEW s \in Slots, Begin(s) \/ Cancel(s) \/ Clear(s)
    PROVE  IInv'
  <1>1. /\ TypeOK /\ Local(s) /\ Done(s)
        /\ UNCHANGED <<disk, stamp, clock, md, held, ver, edits, overtaken>>
    BY DEF IInv, Begin, Cancel, Clear, fileVars, races
  <1>2. CASE Begin(s)
    <2>1. /\ pc' \in [Slots -> Steps] /\ pc'[s] = "next" /\ idx' = idx /\ pc[s] = "idle" /\ lost' = lost
          /\ UNCHANGED <<cancelled, from>>
      BY <1>1, <1>2 DEF Begin, Goto, TypeOK, Steps, races
    <2>0. PICK plan \in Plans[s] : items' = [items EXCEPT ![s] = plan]
      BY <1>2 DEF Begin
    <2>8. plan \in Seq(Items)
      BY PlanAssumption
    <2>2. Alone(s)
      BY <1>1, <1>2, <2>0, <2>1 DEF Begin, Goto, TypeOK, Alone
    <2>3. TypeOK'
      <3>1. \A k \in Slots : pc'[k] \notin {"idle", "next", "ok", "failed"} => idx'[k] <= Len(items'[k])
        BY <1>1, <2>1, <2>2 DEF TypeOK, Alone
      <3>2. items' \in [Slots -> Seq(Items)]
        BY <1>1, <2>0, <2>8 DEF TypeOK
      <3> QED
        BY <1>1, <2>1, <3>1, <3>2 DEF TypeOK
    <2>4. Local(s)'
      BY <2>1 DEF Local, Looking, Passed
    <2>5. Done(s)'
      <3>1. idx'[s] = 1
        BY <2>1 DEF Fresh, IInv
      <3> QED
        BY <3>1 DEF Done
    <2> QED
      BY <1>1, <2>1, <2>2, <2>3, <2>4, <2>5, LocalStep
  <1>3. CASE Cancel(s)
    <2>1. /\ UNCHANGED <<pc, idx, items, lost>>
          /\ cancelled' \in [Slots -> BOOLEAN] /\ from' \in [Slots -> Nat]
      BY <1>1, <1>3 DEF Cancel, TypeOK, races
    <2>2. TypeOK'
      BY <1>1, <2>1 DEF TypeOK
    <2>3. Local(s)' /\ Done(s)'
      BY <1>1, <2>1 DEF Local, Done, Dest, Pin, Pinned, AsPinned, Lost, StampWillBeTrue, Overtaken
    <2>4. Alone(s)
      BY <1>1, <2>1 DEF Alone
    <2> QED
      BY <1>1, <2>1, <2>2, <2>3, <2>4, LocalStep DEF IInv, Fresh
  <1>4. CASE Clear(s)
    <2>1. /\ pc' \in [Slots -> Steps] /\ pc'[s] = "idle"
          /\ idx' \in [Slots -> Nat \ {0}] /\ idx'[s] = 1
          /\ cancelled' \in [Slots -> BOOLEAN] /\ from' \in [Slots -> Nat]
          /\ lost' \in [Slots -> SUBSET Dests]
      BY <1>1, <1>4 DEF Clear, Goto, TypeOK, Steps
    <2>2. Alone(s)
      BY <1>1, <1>4 DEF Clear, Goto, TypeOK, Alone
    <2>3. TypeOK'
      <3>1. \A k \in Slots : pc'[k] \notin {"idle", "next", "ok", "failed"} => idx'[k] <= Len(items'[k])
        BY <1>1, <2>1, <2>2 DEF TypeOK, Alone
      <3>2. items' \in [Slots -> Seq(Items)]
        BY <1>1, <1>4 DEF TypeOK, Clear
      <3> QED
        BY <1>1, <2>1, <3>1, <3>2 DEF TypeOK
    <2>4. Local(s)' /\ Done(s)'
      BY <2>1 DEF Local, Done, Looking, Passed
    <2> QED
      BY <1>1, <2>1, <2>2, <2>3, <2>4, LocalStep
  <1> QED
    BY <1>2, <1>3, <1>4

\* A crash loses every load, and what they left on disk is sound.
LEMMA CrashStep ==
    ASSUME IInv, Crash
    PROVE  IInv'
  <1>1. /\ UNCHANGED <<disk, stamp, clock, edits, overtaken>> /\ TypeOK
        /\ \A s \in Slots : pc'[s] = "idle" /\ md'[s] = 0 /\ ver'[s] = 0 /\ idx'[s] = 1
    BY DEF Crash, IInv, fileVars
  <1>2. TypeOK'
    <2>1. items' \in [Slots -> Seq(Items)] /\ lost' \in [Slots -> SUBSET Dests]
      BY DEF Crash
    <2> QED
      BY <1>1, <2>1 DEF Crash, TypeOK, Steps
  <1>3. Bounded' /\ StampSound'
    BY <1>1 DEF IInv, TypeOK, Bounded, StampSound, Sound
  <1>4. \A s \in Slots : Local(s)' /\ Done(s)' /\ Unseen(s)'
    BY <1>1 DEF Local, Done, Unseen, Looking, Passed
  <1>5. Fresh'
    BY <1>1 DEF Fresh
  <1> QED
    BY <1>2, <1>3, <1>4, <1>5 DEF IInv

\* What the user puts in place has an mtime that no stamp has.
LEMMA EditStep ==
    ASSUME IInv, NEW d \in Dests, Edit(d)
    PROVE  IInv'
  <1>1. /\ UNCHANGED <<stamp, pc, idx, md, held, ver, items, cancelled, from, lost, overtaken>>
        /\ clock' = clock + 1
        /\ edits' = edits + 1 /\ TypeOK /\ \A s \in Slots : pc[s] = "idle"
    BY DEF Edit, IInv, races
  <1>2. PICK c \in Bytes \union {"absent"} :
           disk' = [disk EXCEPT ![d] = [content |-> c, mtime |-> clock + 1]]
    BY DEF Edit
  <1>3. /\ clock \in Nat /\ disk'[d].mtime = clock + 1 /\ \A e \in Dests : e # d => disk'[e] = disk[e]
        /\ disk' \in [Dests -> [content : Bytes \union {"absent", "empty"}, mtime : Nat]]
    BY <1>1, <1>2 DEF TypeOK
  <1>4. TypeOK'
    BY <1>1, <1>3 DEF TypeOK
  <1>5. /\ \A k \in Slots : md[k] \in Nat /\ ver[k] \in Nat /\ md[k] <= clock /\ ver[k] <= clock
        /\ \A e \in Dests : /\ disk[e].mtime \in Nat /\ disk[e].mtime <= clock
                            /\ stamp[e].mtime \in Nat /\ stamp[e].mtime <= clock
    BY <1>1 DEF IInv, TypeOK, Bounded
  <1>6. Bounded'
    BY <1>1, <1>3, <1>5 DEF Bounded
  <1>7. StampSound'
    <2> SUFFICES ASSUME NEW e \in Dests \ overtaken PROVE Sound(e)'
      BY <1>1 DEF StampSound
    <2>1. CASE e = d
      BY <1>1, <1>3, <1>5, <2>1 DEF Sound
    <2>2. CASE e # d
      BY <1>1, <1>3, <2>2 DEF IInv, StampSound, Sound
    <2> QED
      BY <2>1, <2>2
  <1>8. \A s \in Slots : Local(s)' /\ Done(s)' /\ Unseen(s)'
    BY <1>1 DEF Local, Done, Unseen, Looking, Passed
  <1>10. Fresh'
    BY <1>1 DEF IInv, Fresh
  <1> QED
    BY <1>4, <1>6, <1>7, <1>8, <1>10 DEF IInv

-----------------------------------------------------------------------------
LEMMA NextIInv ==
    ASSUME IInv, [Next]_vars
    PROVE  IInv'
  <1>1. ASSUME NEW s \in Slots, Publish(s) PROVE IInv'
    <2>1. pc[s] = "publish"
      BY <1>1 DEF Publish
    <2>2. CASE Fail(s) /\ UNCHANGED <<disk, lost>>
      BY <1>1, <2>1, <2>2, FailMove DEF Publish, Quiet, fileVars, races
    <2> QED
      BY <1>1, <2>1, <2>2, RenameStep DEF Publish
  <1>2. ASSUME NEW s \in Slots, Work(s) PROVE IInv'
    BY <1>1, <1>2, LookSteps, ReadStampStep, OpenStep, StampSteps, EndOfBodyStep DEF Work
  <1>3. ASSUME NEW s \in Slots, Begin(s) \/ Cancel(s) \/ Clear(s) PROVE IInv'
    BY <1>3, ManagerSteps
  <1>4. CASE UNCHANGED vars
    <2>1. /\ UNCHANGED <<disk, stamp, clock, pc, idx, md, held, ver>>
          /\ UNCHANGED <<items, cancelled, edits, from, lost, overtaken>>
      BY <1>4 DEF vars, fileVars, asked, races
    <2> QED
      BY <2>1 DEF IInv, TypeOK, Bounded, StampSound, Sound, Local, Done, Unseen, Dest, Pin, Pinned,
                  AsPinned, Lost, StampWillBeTrue, Overtaken, Fresh
  <1> QED
    BY <1>2, <1>3, <1>4, CrashStep, EditStep DEF Next

THEOREM InductiveInvariant == Spec => []IInv
  <1>1. Init => IInv
    BY InitIInv
  <1>2. IInv /\ [Next]_vars => IInv'
    BY NextIInv
  <1> QED
    BY <1>1, <1>2, PTL DEF Spec

\* A stamp that matches a file's mtime tells the truth about its bytes, for any loads
\* racing over any files, whatever their manifests pin them to, and a crash at any point
\* of write_stamp; but for one that was written after another load, with another pin, had
\* renamed its file over the one just verified (download.rs:348-356).
THEOREM StampsAreTrue == Spec => []StampSound
  <1>1. IInv => StampSound
    BY DEF IInv
  <1> QED
    BY <1>1, InductiveInvariant, PTL

\* download_files returns Ok only with every pinned file in place, but for those that a
\* load with another pin has replaced since, or that an overtaken stamp vouched for.
THEOREM OkIsPinned == Spec => []OkMeansPinned
  <1>1. IInv => OkMeansPinned
    <2> SUFFICES ASSUME IInv, NEW s \in Slots, pc[s] = "ok", NEW i \in 1 .. Len(items[s]),
                        items[s][i].pin # "none", items[s][i].dest \notin lost[s]
                 PROVE  disk[items[s][i].dest].content = items[s][i].pin
      BY DEF OkMeansPinned
    <2>1. idx[s] > Len(items[s]) /\ Done(s)
      BY DEF IInv, Local
    <2>2. idx[s] \in Nat /\ items[s] \in Seq(Items)
      BY DEF IInv, TypeOK
    <2>3. i < idx[s]
      BY <2>1, <2>2
    <2> QED
      BY <2>1, <2>3 DEF Done
  <1> QED
    BY <1>1, InductiveInvariant, PTL

-----------------------------------------------------------------------------
\* CancelHeeded, with where the load is.
Heeded(s) == cancelled[s] =>
    /\ pc[s] \in MidFile => idx[s] <= from[s]
    /\ pc[s] # "idle" /\ idx[s] <= from[s] + 1

\* How a load's own steps move it: to the end, within its file, or on.
LEMMA WorkMoves ==
    ASSUME TypeOK, NEW s \in Slots, Work(s)
    PROVE  /\ UNCHANGED <<cancelled, from>>
           /\ pc'[s] # "idle" /\ \A k \in Slots \ {s} : pc'[k] = pc[k] /\ idx'[k] = idx[k]
           /\ \/ idx'[s] = idx[s] /\ pc[s] # "idle" /\ pc'[s] \in {"ok", "failed"}
              \/ idx'[s] = idx[s] /\ pc[s] \in MidFile
              \/ idx'[s] = idx[s] /\ pc[s] = "next" /\ ~cancelled[s]
              \/ idx'[s] = idx[s] + 1 /\ pc[s] \in MidFile /\ pc'[s] = "next"
  <1> USE DEF Goto, Stay, NextItem, See, Hold, Published, Fail, Forget, TypeOK, MidFile, Steps, asked
  <1>1. CASE NextFile(s)
    BY <1>1 DEF NextFile
  <1>2. CASE Check(s)
    BY <1>2 DEF Check
  <1>3. CASE ReadStamp(s)
    BY <1>3 DEF ReadStamp
  <1>4. CASE OpenFile(s)
    BY <1>4 DEF OpenFile
  <1>5. CASE HashChunk(s) \/ Hashed(s)
    BY <1>5 DEF HashChunk, Hashed
  <1>6. CASE TruncateStamp(s) \/ WriteStamp(s)
    BY <1>6 DEF TruncateStamp, WriteStamp
  <1>7. CASE Fetch(s) \/ StreamChunk(s)
    BY <1>7 DEF Fetch, StreamChunk
  <1>8. CASE EndOfBody(s)
    BY <1>8 DEF EndOfBody
  <1>9. CASE Publish(s)
    BY <1>9 DEF Publish, Rename
  <1>10. CASE Restat(s)
    BY <1>10 DEF Restat
  <1> QED
    BY <1>1, <1>2, <1>3, <1>4, <1>5, <1>6, <1>7, <1>8, <1>9, <1>10 DEF Work

LEMMA NextHeeded ==
    ASSUME TypeOK, \A s \in Slots : Heeded(s), [Next]_vars
    PROVE  \A s \in Slots : Heeded(s)'
  <1>1. \A k \in Slots : idx[k] \in Nat /\ from[k] \in Nat
    BY DEF TypeOK
  <1>2. ASSUME NEW s \in Slots, Work(s) PROVE \A k \in Slots : Heeded(k)'
    <2>1. /\ UNCHANGED <<cancelled, from>> /\ pc'[s] # "idle"
          /\ \A k \in Slots \ {s} : pc'[k] = pc[k] /\ idx'[k] = idx[k]
      BY <1>2, WorkMoves
    <2>2. ASSUME NEW k \in Slots, k # s PROVE Heeded(k)'
      <3>1. k \in Slots \ {s}
        BY <2>2
      <3>2. pc'[k] = pc[k] /\ idx'[k] = idx[k] /\ Heeded(k)
        BY <2>1, <3>1
      <3> QED
        BY <2>1, <3>2 DEF Heeded
    <2>3. Heeded(s)'
      <3> SUFFICES ASSUME cancelled[s]
                   PROVE  /\ pc'[s] \in MidFile => idx'[s] <= from[s]
                          /\ idx'[s] <= from[s] + 1
        BY <2>1 DEF Heeded
      <3>1. CASE idx'[s] = idx[s] /\ pc[s] # "idle" /\ pc'[s] \in {"ok", "failed"}
        BY <1>1, <3>1 DEF Heeded, MidFile
      <3>2. CASE idx'[s] = idx[s] /\ pc[s] \in MidFile
        BY <1>1, <3>2 DEF Heeded, MidFile
      <3>3. CASE idx'[s] = idx[s] + 1 /\ pc[s] \in MidFile /\ pc'[s] = "next"
        BY <1>1, <3>3 DEF Heeded, MidFile
      <3> QED
        BY <1>2, <3>1, <3>2, <3>3, WorkMoves
    <2> QED
      BY <2>2, <2>3
  <1>3. ASSUME NEW s \in Slots, Begin(s) PROVE \A k \in Slots : Heeded(k)'
    <2>1. UNCHANGED <<cancelled, from, idx>> /\ pc' = [pc EXCEPT ![s] = "next"] /\ ~cancelled[s]
      BY <1>3 DEF Begin, Goto, Heeded
    <2> QED
      BY <2>1 DEF TypeOK, Heeded
  <1>4. ASSUME NEW s \in Slots, Cancel(s) PROVE \A k \in Slots : Heeded(k)'
    <2>1. /\ UNCHANGED <<pc, idx>> /\ cancelled' = [cancelled EXCEPT ![s] = TRUE]
          /\ from' = [from EXCEPT ![s] = idx[s]]
      BY <1>4 DEF Cancel
    <2>2. from'[s] = idx[s]
      BY <2>1 DEF TypeOK
    <2>3. ASSUME NEW k \in Slots, k # s PROVE Heeded(k)'
      BY <2>1, <2>3 DEF TypeOK, Heeded
    <2>4. Heeded(s)'
      BY <1>1, <1>4, <2>1, <2>2 DEF Heeded, Cancel
    <2> QED
      BY <2>3, <2>4
  <1>5. ASSUME NEW s \in Slots, Clear(s) PROVE \A k \in Slots : Heeded(k)'
    BY <1>5 DEF Clear, Goto, TypeOK, Heeded, MidFile
  <1>6. CASE Crash
    BY <1>6 DEF Crash, Heeded, MidFile
  <1>7. CASE (\E d \in Dests : Edit(d)) \/ UNCHANGED vars
    <2>1. UNCHANGED <<pc, idx, cancelled, from>>
      BY <1>7 DEF Edit, vars, asked
    <2> QED
      BY <2>1 DEF Heeded
  <1> QED
    BY <1>2, <1>3, <1>4, <1>5, <1>6, <1>7 DEF Next

\* A cancelled load finishes at most the file it was at: the loop of download_files
\* looks at the flag before every file.
THEOREM CancelStopsTheLoop == Spec => []CancelHeeded
  <1>1. Init => \A s \in Slots : Heeded(s)
    BY DEF Init, Heeded
  <1>2. IInv /\ (\A s \in Slots : Heeded(s)) /\ [Next]_vars => (\A s \in Slots : Heeded(s))'
    BY NextHeeded DEF IInv
  <1>3. (\A s \in Slots : Heeded(s)) => CancelHeeded
    BY DEF Heeded, CancelHeeded
  <1> QED
    BY <1>1, <1>2, <1>3, InductiveInvariant, PTL DEF Spec

-----------------------------------------------------------------------------
\* What a client is told of a load (LoadReport).

StepIds == {said.step : said \in Reports} \union {"none"}
Loads == [step : StepIds, progress : Int]
Statuses == {"", "verifying", "downloading", "loading_model", "completed", "cancelled", "error"}
Trackers == [status : Statuses, file : 0 .. Len(FileSizes), got : Int, total : Int, load : Loads,
             cancelled : BOOLEAN]
Payloads == [status : Statuses, file : Int, total : Int, percent : Int, load : Loads]
Fetching == {"check", "hash", "request", "body"}
Ended == {"ready", "failed", "ending", "over"}

ReportTyped ==
    /\ tracker \in Trackers /\ seen \in Payloads
    /\ at \in {"next", "post", "poll"} \union Fetching \union Ended
    /\ at \in Fetching => tracker.file > 0
    /\ backend \in [says : Loads, heard : Loads, hung : BOOLEAN]
    /\ watch \in [last : Loads, still : Nat, reports_progress : BOOLEAN]
    /\ age \in Nat /\ quiet \in Nat

\* What the tracker would publish, and what was published last.
InStep(last, t) ==
    LET now == GetProgress(t) IN
    /\ last.file = now.file /\ last.total = now.total
    /\ t.cancelled \/ last.status = now.status
    /\ t.cancelled \/ now.percent - last.percent < 100
    /\ ~LoadMoved(last.load, now.load)

\* The end is marked before it is told.
EndIsMarked == at = "ending" => tracker.status \in {"completed", "cancelled", "error"}

\* Before the polls nothing has been reported; the watch is of the report last answered, and
\* as long as the backend says the same it has been quiet for as long as the watch was still.
WatchIsOfTheReport ==
    /\ at \notin Ended => why = ""
    /\ at \notin Ended \union {"poll"} => backend = NewBackend /\ tracker.load = NoReport
    /\ at = "poll" =>
         /\ watch.last = FromStatus(backend.heard)
         /\ FromStatus(backend.says) = watch.last => quiet >= watch.still
         /\ ~watch.reports_progress => watch.last.progress = -1 /\ tracker.load.progress = -1
    /\ why = "out of time" => tracker.load.progress = -1

ReportInv ==
    /\ ReportTyped /\ SeenIsCurrent /\ EndIsMarked /\ EndIsSeen /\ WatchIsOfTheReport
    /\ MovingIsNotCut

LEMMA ProgressFields ==
    ASSUME NEW t \in Trackers
    PROVE  /\ GetProgress(t) \in Payloads
           /\ GetProgress(t).status = t.status /\ GetProgress(t).file = t.file
           /\ GetProgress(t).total = t.total /\ GetProgress(t).load = t.load
<1>1. Percentage(t) \in Int
  <2>1. ASSUME t.total > 0 PROVE FixedPoint(t.got, t.total) \in Int
    <3>1. t.got \in Int /\ t.total \in Int
      BY DEF Trackers
    <3>2. (t.got * 10000) \div t.total \in Int
      BY <3>1, <2>1
    <3>. QED
      BY <3>2 DEF FixedPoint
  <2>. QED
    BY <2>1 DEF Percentage
<1>2. t.status \in Statuses /\ t.file \in Int /\ t.total \in Int /\ t.load \in Loads
  BY ReportAssumption DEF Trackers
<1>. QED
  BY <1>1, <1>2 DEF GetProgress, Payloads

LEMMA LoadStands ==
    ASSUME NEW load \in Loads
    PROVE  ~LoadMoved(load, load)
BY DEF Loads, LoadMoved, Abs

\* A broadcast that the throttle lets through is the tracker, and one that it drops is not
\* far from it.
LEMMA BroadcastInStep ==
    ASSUME seen \in Payloads, NEW t \in Trackers, TrackAndBroadcast(t)
    PROVE  /\ tracker' = t /\ seen' \in Payloads /\ InStep(seen', t)
           /\ seen'.status = t.status
           /\ t.load.progress = -1 => seen'.load.progress = -1
<1>1. GetProgress(t) \in Payloads /\ GetProgress(t).status = t.status /\ GetProgress(t).load = t.load
  BY ProgressFields
<1>2. PICK now \in Payloads : now = GetProgress(t)
  BY <1>1
<1>3. CASE Throttle(seen, GetProgress(t))
  <2>1. tracker' = t /\ seen' = now
    BY <1>2, <1>3 DEF TrackAndBroadcast
  <2>2. ~LoadMoved(now.load, now.load) /\ now.percent \in Int
    BY LoadStands DEF Payloads
  <2>. QED
    BY <1>1, <1>2, <2>1, <2>2 DEF InStep
<1>4. CASE ~Throttle(seen, GetProgress(t))
  <2>1. tracker' = t /\ seen' = seen
    BY <1>4 DEF TrackAndBroadcast
  <2>2. /\ seen.status = now.status /\ ~(now.percent - seen.percent >= 100)
        /\ seen.total = now.total /\ seen.file = now.file /\ ~LoadMoved(seen.load, now.load)
    BY <1>2, <1>4 DEF Throttle
  <2>3. now.percent \in Int /\ seen.percent \in Int
    BY DEF Payloads
  <2>4. now.load.progress = -1 => seen.load.progress = -1
    BY <2>2 DEF LoadMoved
  <2>. QED
    BY <1>1, <1>2, <2>1, <2>2, <2>3, <2>4 DEF InStep
<1>. QED
  BY <1>3, <1>4

LEMMA SeenInStep ==
    SeenIsCurrent <=> (at \in {"hash", "request", "body", "post", "poll", "over"} => InStep(seen, tracker))
BY DEF SeenIsCurrent, InStep

LEMMA SizeIsThere ==
    ASSUME ReportTyped, tracker.file > 0
    PROVE  Size \in Int /\ Whole(tracker) \in Trackers /\ Whole(tracker).load = tracker.load
<1>1. tracker.file \in 1 .. Len(FileSizes) /\ tracker \in Trackers
  BY ReportAssumption DEF ReportTyped, Trackers
<1>2. Size \in Int
  BY <1>1, ReportAssumption DEF Size
<1>. QED
  BY <1>1, <1>2 DEF Trackers, Whole

LEMMA FromStatusTyped ==
    ASSUME NEW said \in Loads
    PROVE  FromStatus(said) \in Loads
<1>1. said.step \in StepIds /\ said.progress \in Int
  BY DEF Loads
<1>0. "none" \in StepIds
  BY DEF StepIds
<1>2. (IF IsId(said.step) THEN said.step ELSE "none") \in StepIds
  BY <1>0, <1>1, Zenon
<1>3. (IF said.progress > 200 THEN 200 ELSE said.progress) \in Int
  BY <1>1
<1>. QED
  BY <1>2, <1>3 DEF FromStatus, Loads

LEMMA NothingReported == NoReport \in Loads /\ FromStatus(NoReport) = NoReport /\ NoReport.progress = -1
<1>0. "none" \in StepIds /\ -1 \in Int
  BY DEF StepIds
<1>1. NoReport.step = "none" /\ NoReport.progress = -1
  BY DEF NoReport
<1>3. NoReport \in Loads
  BY <1>0, Zenon DEF NoReport, Loads
<1>2. ~IsId(NoReport.step) /\ ~(NoReport.progress > 200)
  BY <1>1 DEF IsId
<1>. QED
  BY <1>1, <1>2, <1>3 DEF FromStatus, NoReport
\* A step of the load's task before the polls that broadcasts, or that changes nothing a
\* client is told of, or that leads where nothing is compared.
LEMMA TaskStepKeeps ==
    ASSUME ReportInv, ByTask, why' = why \/ (at' = "failed" /\ why' \in {"cancelled", "error"}),
           at \notin {"poll", "over"}, at' # "poll", at' # "over" \/ seen'.status \in {"completed", "cancelled", "error"},
           at' \in {"next", "post"} \union Fetching \union Ended,
           at' \in Fetching => tracker'.file > 0,
           at' \notin Ended => at \notin Ended,
           at' = "ending" => tracker'.status \in {"completed", "cancelled", "error"},
           tracker' \in Trackers, seen' \in Payloads, tracker'.load = tracker.load,
           why = "out of time" => seen'.load.progress = -1,
           at' \in {"hash", "request", "body", "post", "over"} => InStep(seen', tracker')
    PROVE  ReportInv'
<1>1. UNCHANGED <<backend, watch, age, quiet>>
  BY DEF ByTask
<1>2. ReportTyped'
  BY <1>1 DEF ReportInv, ReportTyped
<1>3. SeenIsCurrent'
  BY SeenInStep, <1>2 DEF SeenIsCurrent, InStep
<1>4. WatchIsOfTheReport'
  BY <1>1 DEF ReportInv, WatchIsOfTheReport, ReportTyped, Ended
<1>5. MovingIsNotCut'
  BY <1>1 DEF ReportInv, MovingIsNotCut
<1>. QED
  BY <1>2, <1>3, <1>4, <1>5 DEF ReportInv, EndIsMarked, EndIsSeen

\* Such a step, when it broadcasts.
LEMMA TellingKeeps ==
    ASSUME ReportInv, ByTask, NEW t, NEW step, TrackAndBroadcast(t), GoTo(step),
           t \in Trackers, t.load = tracker.load, at \notin {"poll", "over"},
           step \in {"next", "post"} \union Fetching \union {"over"},
           step # "over" => at \notin Ended,
           step \in Fetching => t.file > 0,
           step = "over" => t.status \in {"completed", "cancelled", "error"}
    PROVE  ReportInv'
<1>1. seen \in Payloads /\ at' = step /\ why' = why
  BY DEF ReportInv, ReportTyped, GoTo
<1>2. /\ tracker' = t /\ seen' \in Payloads /\ InStep(seen', t) /\ seen'.status = t.status
      /\ t.load.progress = -1 => seen'.load.progress = -1
  BY <1>1, BroadcastInStep
<1>3. why = "out of time" => tracker.load.progress = -1
  BY DEF ReportInv, WatchIsOfTheReport
<1>. QED
  BY <1>1, <1>2, <1>3, TaskStepKeeps DEF Fetching, Ended

\* And when it fails the load without a word of its own.
LEMMA FailingKeeps ==
    ASSUME ReportInv, ByTask, UNCHANGED <<tracker, seen>>, at \in {"next", "post"} \union Fetching,
           NEW reason \in {"cancelled", "error"}, FailLoad(reason)
    PROVE  ReportInv'
<1>1. at' = "failed" /\ why' = reason
  BY DEF FailLoad
<1>. QED
  BY <1>1, TaskStepKeeps DEF ReportInv, ReportTyped, MovingIsNotCut, Fetching, Ended

LEMMA TrackersChange ==
    ASSUME NEW t \in Trackers, NEW s \in Statuses, NEW u,
           u = [t EXCEPT !.status = s, !.got = 0, !.total = 0]
    PROVE  u \in Trackers /\ u.load = t.load /\ u.file = t.file
<1>1. PICK files : files = 0 .. Len(FileSizes)
  OBVIOUS
<1>2. Trackers = [status : Statuses, file : files, got : Int, total : Int, load : Loads,
                  cancelled : BOOLEAN]
  BY <1>1 DEF Trackers
<1>3. 0 \in Int /\ s \in Statuses /\ t \in Trackers
  OBVIOUS
<1>. QED
  BY <1>2, <1>3

LEMMA FilesStep ==
    ASSUME ReportInv,
           \/ StartFile \/ AlreadyPresent \/ BeginHash \/ MarkDownloading \/ ResolveTotalSize
           \/ EndOfFile \/ Breaks \/ MarkLoading \/ MarkEnd \/ TellEnd \/ SomeChunk
    PROVE  ReportInv'
<1>. USE DEF Fetching, Ended
<1>1. tracker \in Trackers /\ seen \in Payloads /\ (at \in Fetching => tracker.file > 0)
  BY DEF ReportInv, ReportTyped
<1>2. CASE StartFile
  <2>1. CASE tracker.cancelled
    BY <1>2, <2>1, FailingKeeps DEF StartFile
  <2>2. CASE ~tracker.cancelled
    <3>. DEFINE t == [tracker EXCEPT !.status = "verifying", !.file = @ + 1, !.got = 0, !.total = 0]
    <3>1. t \in Trackers /\ t.file > 0 /\ t.load = tracker.load
      <4>1. PICK f \in 0 .. Len(FileSizes) : f = tracker.file + 1 /\ f > 0
        BY <1>1, <1>2, ReportAssumption DEF StartFile, Trackers
      <4>2. PICK s \in Statuses : s = "verifying"
        BY DEF Statuses
      <4>3. PICK r \in Trackers : r = tracker
        BY <1>1
      <4>4. PICK u : u = [r EXCEPT !.status = s, !.file = f, !.got = 0, !.total = 0]
        OBVIOUS
      <4>5. u \in Trackers /\ u.file = f /\ u.load = r.load
        <5>1. PICK files : files = 0 .. Len(FileSizes)
          OBVIOUS
        <5>2. Trackers = [status : Statuses, file : files, got : Int, total : Int, load : Loads,
                          cancelled : BOOLEAN]
          BY <5>1 DEF Trackers
        <5>3. f \in files /\ s \in Statuses /\ r \in Trackers /\ 0 \in Int
          BY <4>1, <4>2, <4>3, <5>1
        <5>. QED
          BY <4>4, <5>2, <5>3
      <4>6. t = u
        BY <4>1, <4>2, <4>3, <4>4, Zenon
      <4>. QED
        BY <4>1, <4>3, <4>5, <4>6, Zenon
    <3>2. tracker' = t /\ seen' = seen /\ at = "next" /\ at' = "check" /\ why' = why /\ ByTask
      BY <1>2, <2>2 DEF StartFile, Track, GoTo
    <3>. HIDE DEF t
    <3>. QED
      BY <1>1, <3>1, <3>2, TaskStepKeeps DEF ReportInv, MovingIsNotCut
  <2>. QED
    BY <2>1, <2>2
<1>3. CASE AlreadyPresent
  <2>1. tracker.file > 0
    BY <1>1, <1>3 DEF AlreadyPresent
  <2>2. PICK t \in Trackers : t = Whole(tracker) /\ t.load = tracker.load
    BY <2>1, SizeIsThere DEF ReportInv
  <2>. QED
    BY <1>3, <2>2, TellingKeeps DEF AlreadyPresent
<1>4. CASE BeginHash
  <2>1. Size \in Int
    BY <1>1, <1>4, SizeIsThere DEF BeginHash, ReportInv
  <2>2. PICK t : t = [tracker EXCEPT !.total = Size]
    OBVIOUS
  <2>3. t \in Trackers /\ t.load = tracker.load /\ t.file = tracker.file
    BY <1>1, <2>1, <2>2 DEF Trackers
  <2>. QED
    BY <1>1, <1>4, <2>2, <2>3, TellingKeeps DEF BeginHash
<1>5. CASE MarkDownloading
  <2>1. PICK t : t = [tracker EXCEPT !.status = "downloading", !.got = 0, !.total = 0]
    OBVIOUS
  <2>2. t \in Trackers /\ t.load = tracker.load /\ t.file = tracker.file
    <3>1. "downloading" \in Statuses
      BY DEF Statuses
    <3>. QED
      BY <1>1, <2>1, <3>1, TrackersChange
  <2>. QED
    BY <1>1, <1>5, <2>1, <2>2, TellingKeeps DEF MarkDownloading
<1>6. CASE ResolveTotalSize
  <2>1. CASE UNCHANGED <<tracker, seen>>
    <3>1. at = "request" /\ at' = "body" /\ why' = why /\ ByTask
      BY <1>6 DEF ResolveTotalSize, GoTo
    <3>2. InStep(seen, tracker)
      BY <3>1, SeenInStep DEF ReportInv
    <3>. QED
      BY <1>1, <2>1, <3>1, <3>2, TaskStepKeeps DEF ReportInv, MovingIsNotCut
  <2>2. CASE TrackAndBroadcast([tracker EXCEPT !.total = Size])
    <3>1. Size \in Int
      BY <1>1, <1>6, SizeIsThere DEF ResolveTotalSize, ReportInv
    <3>2. PICK t : t = [tracker EXCEPT !.total = Size]
      OBVIOUS
    <3>3. t \in Trackers /\ t.load = tracker.load /\ t.file = tracker.file
      BY <1>1, <3>1, <3>2 DEF Trackers
    <3>. QED
      BY <1>1, <1>6, <2>2, <3>2, <3>3, TellingKeeps DEF ResolveTotalSize
  <2>. QED
    BY <1>6, <2>1, <2>2 DEF ResolveTotalSize
<1>7. CASE EndOfFile
  BY <1>1, <1>7, TaskStepKeeps DEF EndOfFile, GoTo, ReportInv, MovingIsNotCut
<1>8. CASE Breaks
  BY <1>8, FailingKeeps DEF Breaks
<1>9. CASE MarkLoading
  <2>1. PICK t : t = [tracker EXCEPT !.status = "loading_model"]
    OBVIOUS
  <2>2. t \in Trackers /\ t.load = tracker.load
    BY <1>1, <2>1 DEF Trackers, Statuses
  <2>. QED
    BY <1>9, <2>1, <2>2, TellingKeeps DEF MarkLoading
<1>10. CASE MarkEnd
  <2>1. PICK end \in {"completed", "error"} : tracker' = [tracker EXCEPT !.status = end]
    BY <1>10 DEF MarkEnd, Track
  <2>2. tracker' \in Trackers /\ tracker'.load = tracker.load /\ tracker'.status = end
    BY <1>1, <2>1 DEF Trackers, Statuses
  <2>3. at \in Ended \ {"over"} /\ at' = "ending" /\ seen' = seen /\ why' = why /\ ByTask
    BY <1>10 DEF MarkEnd, Track, GoTo
  <2>. QED
    BY <1>1, <2>2, <2>3, TaskStepKeeps DEF ReportInv, MovingIsNotCut
<1>11. CASE TellEnd
  BY <1>1, <1>11, TellingKeeps DEF TellEnd, ReportInv, EndIsMarked
<1>12. CASE SomeChunk
  <2>1. PICK n \in Chunks \cup {FileSizes[i] - tracker.got : i \in DOMAIN FileSizes} : Chunk(n)
    BY <1>12 DEF SomeChunk
  <2>2. CASE tracker.cancelled
    BY <2>1, <2>2, FailingKeeps DEF Chunk
  <2>3. CASE ~tracker.cancelled
    <3>1. PICK t : t = [tracker EXCEPT !.got = @ + n]
      OBVIOUS
    <3>2. n \in Int
      <4>1. \A i \in DOMAIN FileSizes : FileSizes[i] \in Int
        <5>1. /\ FileSizes \in [1 .. Len(FileSizes) -> Nat \ {0}]
              /\ DOMAIN FileSizes = 1 .. Len(FileSizes)
          BY ReportAssumption
        <5>. QED
          BY <5>1
      <4>2. tracker.got \in Int
        BY <1>1 DEF Trackers
      <4>. QED
        BY <2>1, <4>1, <4>2, ReportAssumption
    <3>3. t \in Trackers /\ t.load = tracker.load /\ t.file = tracker.file
      BY <1>1, <3>1, <3>2 DEF Trackers
    <3>4. PICK step : step = at
      OBVIOUS
    <3>5. TrackAndBroadcast(t) /\ GoTo(step) /\ ByTask /\ step \in {"hash", "body"}
      BY <2>1, <2>3, <3>1, <3>4 DEF Chunk
    <3>. QED
      BY <1>1, <3>3, <3>4, <3>5, TellingKeeps
  <2>. QED
    BY <2>2, <2>3
<1>. QED
  BY <1>2, <1>3, <1>4, <1>5, <1>6, <1>7, <1>8, <1>9, <1>10, <1>11, <1>12

\* What the backend says, as the load understands it.
LEMMA SaidIsLoad ==
    ASSUME NEW said \in Reports
    PROVE  said \in Loads
<1>1. said = [step |-> said.step, progress |-> said.progress] /\ said.progress \in Int
  BY ReportAssumption
<1>2. said.step \in StepIds
  BY DEF StepIds
<1>. QED
  BY <1>1, <1>2, Zenon DEF Loads

LEMMA ObserveTyped ==
    ASSUME ReportTyped, NEW report \in Loads
    PROVE  /\ Observe(watch, report) \in [last : Loads, still : Nat, reports_progress : BOOLEAN]
           /\ Observe(watch, report).last = report
           /\ report = watch.last => Observe(watch, report) = watch
           /\ report # watch.last => Observe(watch, report).still = 0
           /\ ~Observe(watch, report).reports_progress =>
                 ~watch.reports_progress /\ (report # watch.last => report.progress = -1)
BY DEF ReportTyped, Observe, Loads

LEMMA AnswerKeeps ==
    ASSUME ReportInv, NEW state \in {"loading", "ready", "error"}, Answer(state)
    PROVE  ReportInv'
<1>. DEFINE report == FromStatus(backend.says)
            w == Observe(watch, report)
<1>1. /\ at = "poll" /\ watch' = w /\ backend' = [backend EXCEPT !.heard = backend.says]
      /\ UNCHANGED <<chunks, age, quiet>>
      /\ IF report # watch.last /\ report # NoReport
         THEN TrackAndBroadcast([tracker EXCEPT !.load = report])
         ELSE UNCHANGED <<tracker, seen>>
  BY DEF Answer
<1>2. /\ ReportTyped /\ tracker \in Trackers /\ seen \in Payloads /\ InStep(seen, tracker)
      /\ report \in Loads /\ watch.last = FromStatus(backend.heard) /\ why = ""
      /\ report = watch.last => quiet >= watch.still
      /\ ~watch.reports_progress => watch.last.progress = -1 /\ tracker.load.progress = -1
  BY <1>1, SeenInStep, FromStatusTyped DEF ReportInv, ReportTyped, WatchIsOfTheReport, Ended
<1>3. /\ w \in [last : Loads, still : Nat, reports_progress : BOOLEAN] /\ w.last = report
      /\ report = watch.last => w = watch
      /\ report # watch.last => w.still = 0
      /\ ~w.reports_progress =>
            ~watch.reports_progress /\ (report # watch.last => report.progress = -1)
  BY <1>2, ObserveTyped
<1>4. \/ at' = "ready" /\ why' = why
      \/ at' = "failed" /\ why' = "error"
      \/ at' = "failed" /\ why' = "stalled" /\ Stalled(w)
      \/ at' = "failed" /\ why' = "out of time" /\ OutOfTime(w)
      \/ at' = "poll" /\ why' = why
  BY DEF Answer, GoTo, FailLoad
<1>5. /\ backend'.says = backend.says /\ backend'.heard = backend.says
      /\ backend' \in [says : Loads, heard : Loads, hung : BOOLEAN]
  BY <1>1, <1>2 DEF ReportTyped
<1>. HIDE DEF w, report
<1>12. quiet >= w.still /\ w.still \in Nat /\ quiet \in Nat
  <2>1. quiet \in Nat /\ w.still \in Nat
    BY <1>2, <1>3 DEF ReportTyped
  <2>2. CASE report = watch.last
    BY <1>2, <1>3, <2>1, <2>2
  <2>3. CASE report # watch.last
    BY <1>3, <2>1, <2>3
  <2>. QED
    BY <2>1, <2>2, <2>3
<1>6. /\ tracker' \in Trackers /\ seen' \in Payloads /\ InStep(seen', tracker')
      /\ ~w.reports_progress => tracker'.load.progress = -1
  <2>1. CASE report # watch.last /\ report # NoReport
    <3>1. PICK t : t = [tracker EXCEPT !.load = report]
      OBVIOUS
    <3>2. t \in Trackers /\ t.load = report
      BY <1>2, <3>1 DEF Trackers
    <3>. QED
      BY <1>1, <1>2, <1>3, <2>1, <3>1, <3>2, BroadcastInStep
  <2>2. CASE ~(report # watch.last /\ report # NoReport)
    BY <1>1, <1>2, <1>3, <2>2 DEF InStep
  <2>. QED
    BY <2>1, <2>2
<1>7. ~w.reports_progress => seen'.load.progress = -1
  BY <1>6, ProgressFields DEF InStep, LoadMoved
<1>8. ReportTyped'
  BY <1>1, <1>2, <1>3, <1>4, <1>5, <1>6 DEF ReportTyped, Ended, Fetching
<1>9. WatchIsOfTheReport'
  <2>1. FromStatus(backend'.heard) = report /\ FromStatus(backend'.says) = report
    BY <1>5 DEF report
  <2>3. ~w.reports_progress => w.last.progress = -1
    BY <1>2, <1>3
  <2>. QED
    BY <1>1, <1>2, <1>3, <1>4, <1>6, <1>12, <2>1, <2>3 DEF WatchIsOfTheReport, OutOfTime, Ended
<1>10. MovingIsNotCut'
  <2>1. Stalled(w) => quiet >= STALL_TIMEOUT
    BY <1>12, ReportAssumption DEF Stalled
  <2>. QED
    BY <1>1, <1>2, <1>4, <1>7, <2>1 DEF MovingIsNotCut, OutOfTime
<1>11. SeenIsCurrent' /\ EndIsMarked' /\ EndIsSeen'
  BY <1>4, <1>6 DEF SeenIsCurrent, InStep, EndIsMarked, EndIsSeen
<1>. QED
  BY <1>8, <1>9, <1>10, <1>11 DEF ReportInv

LEMMA FreshTracker ==
    /\ NewTracker \in Trackers /\ NewTracker.load = NoReport /\ NeverSeen \in Payloads
    /\ NewWatch \in [last : Loads, still : Nat, reports_progress : BOOLEAN]
    /\ NewBackend \in [says : Loads, heard : Loads, hung : BOOLEAN]
<1>1. NewTracker \in Trackers /\ NewTracker.load = NoReport
  <2>1. 0 \in 0 .. Len(FileSizes) /\ "verifying" \in Statuses /\ NoReport \in Loads
    BY NothingReported, ReportAssumption DEF Statuses
  <2>. QED
    BY <2>1 DEF NewTracker, Trackers
<1>2. NeverSeen \in Payloads
  <2>1. -1 \in Int /\ 0 \in Int /\ "" \in Statuses /\ NoReport \in Loads
    BY NothingReported DEF Statuses
  <2>. QED
    BY <2>1, Zenon DEF NeverSeen, Payloads
<1>. QED
  BY <1>1, <1>2, NothingReported DEF NewWatch, NewBackend

\* A clock that stops at a limit keeps its distance to a slower one.
LEMMA UpToKeepsPace ==
    ASSUME NEW n \in Nat, NEW m \in Nat, NEW limit \in Nat
    PROVE  UpTo(n, limit) \in Nat /\ (n >= m => UpTo(n, limit) >= UpTo(m, limit))
BY DEF UpTo

LEMMA PostLoadKeeps ==
    ASSUME ReportInv, PostLoad
    PROVE  ReportInv'
<1>1. /\ at = "post" /\ at' = "poll" /\ why' = why /\ watch' = NewWatch /\ age' = 0 /\ quiet' = 0
      /\ UNCHANGED <<tracker, seen, backend>>
  BY DEF PostLoad, GoTo
<1>2. backend = NewBackend /\ tracker.load = NoReport /\ why = ""
  BY <1>1 DEF ReportInv, WatchIsOfTheReport, Ended
<1>3. /\ NewWatch \in [last : Loads, still : Nat, reports_progress : BOOLEAN]
      /\ NewWatch.last = NoReport /\ NewWatch.still = 0 /\ ~NewWatch.reports_progress
  BY NothingReported DEF NewWatch
<1>4. NewBackend.heard = NoReport
  BY DEF NewBackend
<1>5. ReportTyped'
  BY <1>1, <1>3 DEF ReportInv, ReportTyped, Fetching
<1>6. SeenIsCurrent' /\ EndIsMarked' /\ EndIsSeen'
  BY <1>1 DEF ReportInv, SeenIsCurrent, EndIsMarked, EndIsSeen
<1>7. WatchIsOfTheReport'
  <2>1. FromStatus(backend'.heard) = watch'.last
    BY <1>1, <1>2, <1>3, <1>4, NothingReported, Zenon
  <2>2. quiet' >= watch'.still
    BY <1>1, <1>3
  <2>3. watch'.last.progress = -1 /\ tracker'.load.progress = -1
    BY <1>1, <1>2, <1>3, NothingReported, Zenon
  <2>. QED
    BY <1>1, <1>2, <2>1, <2>2, <2>3 DEF WatchIsOfTheReport
<1>8. MovingIsNotCut'
  BY <1>1, <1>2 DEF MovingIsNotCut
<1>. QED
  BY <1>5, <1>6, <1>7, <1>8 DEF ReportInv

LEMMA LimitsTyped == STALL_TIMEOUT \in Nat /\ LOAD_TIMEOUT \in Nat /\ LOAD_TIMEOUT + 1 \in Nat
<1>1. STALL_TIMEOUT \in Nat /\ LOAD_TIMEOUT \in Nat
  BY ReportAssumption
<1>. QED
  BY <1>1

\* The rest: no client is told anything.
LEMMA QuietStep ==
    ASSUME ReportInv,
           \/ PostLoad \/ Gone \/ CancelDownload \/ ClearDownload \/ Hang \/ Tick
           \/ \E said \in Reports : Say(said)
    PROVE  ReportInv'
<1>. USE DEF ReportInv, ReportTyped, SeenIsCurrent, EndIsMarked, EndIsSeen, WatchIsOfTheReport,
         MovingIsNotCut, Fetching, Ended
<1>1. CASE PostLoad
  BY <1>1, PostLoadKeeps
<1>2. CASE Gone
  BY <1>2 DEF Gone, FailLoad
<1>3. CASE CancelDownload
  <2>1. PICK t : t = [tracker EXCEPT !.cancelled = TRUE, !.status = "cancelled"]
    OBVIOUS
  <2>2. /\ t \in Trackers /\ t.load = tracker.load /\ t.file = tracker.file
        /\ t.total = tracker.total /\ t.cancelled /\ t.status = "cancelled"
    BY <2>1 DEF Trackers, Statuses
  <2>3. /\ GetProgress(t).file = GetProgress(tracker).file
        /\ GetProgress(t).total = GetProgress(tracker).total
        /\ GetProgress(t).load = GetProgress(tracker).load
    BY <2>2, ProgressFields
  <2>4. tracker' = t /\ UNCHANGED <<seen, at, why, backend, watch, age, quiet>> /\ at # "over"
    BY <1>3, <2>1 DEF CancelDownload, Track, ByTask
  <2>. QED
    BY <2>2, <2>3, <2>4, ZenonT(60)
<1>4. CASE ClearDownload
  <2>1. /\ at' = "next" /\ why' = "" /\ tracker' = NewTracker /\ seen' = NeverSeen
        /\ backend' = NewBackend /\ watch' = NewWatch /\ age' = 0 /\ quiet' = 0
    BY <1>4 DEF ClearDownload
  <2>. QED
    BY <2>1, FreshTracker
<1>5. CASE Hang
  BY <1>5 DEF Hang
<1>6. CASE Tick
  <2>2. /\ at = "poll" /\ quiet' = UpTo(quiet, STALL_TIMEOUT) /\ age' = UpTo(age, LOAD_TIMEOUT + 1)
        /\ watch' = [watch EXCEPT !.still = UpTo(watch.still, STALL_TIMEOUT)]
        /\ UNCHANGED <<tracker, seen, at, backend, why>>
    BY <1>6 DEF Tick
  <2>6. quiet \in Nat /\ age \in Nat /\ watch.still \in Nat
    OBVIOUS
  <2>7. STALL_TIMEOUT \in Nat /\ LOAD_TIMEOUT + 1 \in Nat
    BY LimitsTyped
  <2>3. quiet' \in Nat /\ age' \in Nat /\ UpTo(watch.still, STALL_TIMEOUT) \in Nat
    BY <2>2, <2>6, <2>7, UpToKeepsPace
  <2>4. /\ watch' \in [last : Loads, still : Nat, reports_progress : BOOLEAN]
        /\ watch'.last = watch.last /\ watch'.reports_progress = watch.reports_progress
        /\ watch'.still = UpTo(watch.still, STALL_TIMEOUT)
    BY <2>2, <2>3
  <2>5. FromStatus(backend.says) = watch.last => quiet' >= watch'.still
    BY <2>2, <2>4, <2>6, <2>7, UpToKeepsPace
  <2>. QED
    BY <2>2, <2>3, <2>4, <2>5
<1>7. ASSUME NEW said \in Reports, Say(said) PROVE ReportInv'
  <2>1. /\ at = "poll" /\ backend.says = backend.heard
        /\ backend' = [backend EXCEPT !.says = said]
        /\ quiet' = IF FromStatus(said) = FromStatus(backend.says) THEN quiet ELSE 0
        /\ UNCHANGED <<tracker, seen, at, watch, age, why>>
    BY <1>7 DEF Say
  <2>2. /\ backend' \in [says : Loads, heard : Loads, hung : BOOLEAN]
        /\ backend'.says = said /\ backend'.heard = backend.heard
    BY <2>1, SaidIsLoad
  <2>3. FromStatus(said) = watch.last => quiet' >= watch.still
    BY <2>1
  <2>4. quiet' \in Nat /\ why = ""
    BY <2>1
  <2>. QED
    BY <2>1, <2>2, <2>3, <2>4
<1>. QED
  BY <1>1, <1>2, <1>3, <1>4, <1>5, <1>6, <1>7

LEMMA ReportAlways == ReportSpec => []ReportInv
<1>1. ReportInit => ReportInv
  <2>. SUFFICES ASSUME ReportInit PROVE ReportInv
    OBVIOUS
  <2>. QED
    BY FreshTracker DEF ReportInit, ReportInv, ReportTyped, SeenIsCurrent, EndIsMarked, EndIsSeen,
         WatchIsOfTheReport, MovingIsNotCut, Fetching, Ended
<1>2. ReportInv /\ [ReportNext]_reportVars => ReportInv'
  <2>1. CASE UNCHANGED reportVars
    <3>1. UNCHANGED <<tracker, seen, at, backend, watch, age, quiet, why>>
      BY <2>1 DEF reportVars
    <3>2. ReportInv => ReportTyped' /\ WatchIsOfTheReport'
      BY <3>1 DEF ReportInv, ReportTyped, WatchIsOfTheReport
    <3>3. ReportInv => SeenIsCurrent' /\ EndIsMarked' /\ EndIsSeen' /\ MovingIsNotCut'
      BY <3>1 DEF ReportInv, SeenIsCurrent, EndIsMarked, EndIsSeen, MovingIsNotCut
    <3>. QED
      BY <3>2, <3>3 DEF ReportInv
  <2>2. ReportInv /\ ReportNext => ReportInv'
    BY FilesStep, QuietStep, AnswerKeeps DEF ReportNext, Provisions, Polls
  <2>. QED
    BY <2>1, <2>2
<1>. QED
  BY <1>1, <1>2, PTL DEF ReportSpec

\* A load that provisions and then polls, beside one that fetches: what its client hears is
\* the file, size and phase it is at, an end at its end, and no end while the backend's own
\* report moves (download_progress.rs, subprocess/mod.rs).
THEOREM ClientsAreToldTruly == LoadSpec => []LoadIsToldTruly
<1>1. LoadInit => ReportInit
  BY DEF LoadInit
<1>2. [LoadNext]_loadVars => [ReportNext]_reportVars
  BY DEF LoadNext, loadVars
<1>3. LoadSpec => ReportSpec
  BY <1>1, <1>2, PTL DEF LoadSpec, ReportSpec
<1>4. ReportInv => LoadIsToldTruly
  BY DEF ReportInv, LoadIsToldTruly
<1>. QED
  BY <1>3, <1>4, ReportAlways, PTL
=============================================================================
