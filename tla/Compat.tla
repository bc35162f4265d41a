------------------------------- MODULE Compat -------------------------------
(***************************************************************************)
(* Which build of a backend runs on this machine, and which variant of     *)
(* each file of a model it takes (registry/compat.rs, registry/host.rs).   *)
(* A GPU target is <<major, minor, step>>, a Vulkan version a number; 0 is *)
(* a number that is not declared.                                          *)
(***************************************************************************)
EXTENDS Integers, Sequences, FiniteSets, SequencesExt, FiniteSetsExt

(* host::detect: what the probes found, `gpus` the number of GPUs, `gfx`   *)
(* the targets of those that name one.  A GPU target makes the host a ROCm *)
(* one, a Vulkan loader counts only beside a GPU, and Metal is macOS's.    *)
PackSm(major, minor) == major * 10 + minor
RocmCapability(gfx)  == gfx
VulkanCapability(gpus, loader) == IF gpus = 0 THEN 0 ELSE loader
Detect(probe) ==
  [target |-> probe.target,
   cuda   |-> [driver |-> probe.driver, sm |-> PackSm(probe.cc[1], probe.cc[2]), cudnn |-> probe.cudnn],
   rocm   |-> RocmCapability(probe.gfx),
   vulkan |-> VulkanCapability(probe.gpus, probe.loader),
   metal  |-> probe.macos]
HasCuda(h) == h.cuda.driver # 0

GFX_FAMILY_FLOOR == 10
GfxIsExact(want, target) == want = target
GfxRunsOn(want, target) ==
  \/ GfxIsExact(want, target)
  \/ want[1] >= GFX_FAMILY_FLOOR /\ want[1] = target[1] /\ want[2] = target[2]

RANK_ANY    == 0
RANK_CPU    == 1
RANK_VULKAN == 2
RANK_NATIVE == 3

(* Requires, from a published asset, whose words a newer registry may have *)
(* chosen: one this build cannot read is dropped, a Vulkan floor it cannot *)
(* read (9, here) matches no host; and from a model's file, where a field  *)
(* left out matches every host.                                            *)
KnownAccels == {"cpu", "cuda", "metal", "rocm", "vulkan"}
ParseAccel(words) == words \cap KnownAccels
Malformed == 9
AssetRequires(a) ==
  [accel |-> ParseAccel(a.accel), cuda_major |-> a.cuda_major,
   cuda_sm |-> IF a.cuda_sm = 0 THEN {} ELSE {a.cuda_sm},
   cudnn |-> a.cudnn, gfx |-> {g \in a.gfx: g # <<>>}, vulkan |-> a.vulkan, wildcard |-> FALSE]
FileRequires(f) ==
  [accel |-> f.accel, cuda_major |-> f.cuda_major, cuda_sm |-> f.cuda_sm, cudnn |-> FALSE,
   gfx |-> f.gfx, vulkan |-> f.vulkan, wildcard |-> TRUE]

Bit(b) == IF b THEN 1 ELSE 0

(* Each accelerator's conditions in score.                                 *)
RunsCuda(h, r) ==
  /\ "cuda" \in r.accel /\ HasCuda(h)
  /\ r.cuda_sm = {} \/ h.cuda.sm \in r.cuda_sm
  /\ IF r.cuda_major = 0 THEN r.wildcard ELSE r.cuda_major <= h.cuda.driver
RunsRocm(h, r) ==
  /\ "rocm" \in r.accel /\ h.rocm # {}
  /\ IF r.gfx = {} THEN r.wildcard
     ELSE \E want \in r.gfx, t \in h.rocm: GfxRunsOn(want, t)
RunsVulkan(h, r) ==
  /\ "vulkan" \in r.accel /\ h.vulkan # 0
  /\ r.vulkan # Malformed /\ r.vulkan <= h.vulkan
RunsMetal(h, r) == "metal" \in r.accel /\ h.metal
Runs(h, r) == RunsCuda(h, r) \/ RunsRocm(h, r) \/ RunsVulkan(h, r) \/ RunsMetal(h, r)
              \/ "cpu" \in r.accel

NoScore == <<>>

(* score: the first accelerator of this order that the host has.           *)
Score(h, r) ==
  IF RunsCuda(h, r)
  THEN <<RANK_NATIVE, r.cuda_major, Bit(r.cuda_sm # {}), Bit(r.cudnn /\ h.cuda.cudnn)>>
  ELSE IF RunsRocm(h, r)
  THEN <<RANK_NATIVE, 0, Bit(\E want \in r.gfx, t \in h.rocm: GfxIsExact(want, t)), 0>>
  ELSE IF RunsVulkan(h, r) THEN <<RANK_VULKAN, 0, 0, 0>>
  ELSE IF RunsMetal(h, r) THEN <<RANK_NATIVE, 0, 0, 0>>
  ELSE IF "cpu" \in r.accel THEN <<RANK_CPU, 0, 0, 0>> ELSE NoScore

Better(s, t) == \E i \in 1..4: s[i] > t[i] /\ \A j \in 1..(i - 1): s[j] = t[j]

(* reduce, keeping the first of equals; 0 when nothing scores.             *)
Best(scores) ==
  LET best[n \in 0..Len(scores)] ==
        IF n = 0 THEN 0
        ELSE LET b == best[n - 1] IN
             IF scores[n] # NoScore /\ (b = 0 \/ Better(scores[n], scores[b])) THEN n ELSE b
  IN best[Len(scores)]

(* contract_block and select, over an index entry.                         *)
ContractBlock(build, entry) == entry.contract \notin 1..build.latest
Select(build, h, entry) ==
  LET scores == [i \in DOMAIN entry.assets |->
                   IF entry.assets[i].target = h.target
                   THEN Score(h, AssetRequires(entry.assets[i])) ELSE NoScore]
      best == Best(scores) IN
  CASE ContractBlock(build, entry) -> [is |-> "needs_client_update", index |-> 0]
    [] ~ContractBlock(build, entry) /\ entry.kind = "wasm" ->
         [is |-> IF entry.wasm THEN "wasm" ELSE "incompatible", index |-> 0]
    [] ~ContractBlock(build, entry) /\ entry.kind = "subprocess" ->
         [is |-> IF best = 0 THEN "incompatible" ELSE "subprocess", index |-> best]
    [] OTHER -> [is |-> "incompatible", index |-> 0]
Reason(sel) == sel.is \in {"incompatible", "needs_client_update"}

(* score_file and select_files: the indices of the files taken, one of     *)
(* each destination, or 0 for a destination no variant serves.             *)
ScoreFile(h, f) == IF f.accel = {} THEN <<RANK_ANY, 0, 0, 0>> ELSE Score(h, FileRequires(f))
Variants(files, d) == {i \in DOMAIN files: files[i].destination = d}
PickFile(h, files, d) ==
  Best([i \in DOMAIN files |-> IF files[i].destination = d THEN ScoreFile(h, files[i]) ELSE NoScore])
Destinations(files) == {files[i].destination: i \in DOMAIN files}
SelectFiles(h, files) ==
  LET pick(d) == PickFile(h, files, d)
      hole(d) == pick(d) = 0 /\ \A i \in Variants(files, d): files[i].optional IN
  [ok |-> \A d \in Destinations(files): pick(d) # 0 \/ hole(d),
   files |-> {pick(d): d \in Destinations(files)} \ {0}]

-----------------------------------------------------------------------------
(* What a host is promised (compat.rs:1-16): the build that is taken runs  *)
(* on it; nothing that runs is passed over for something slower; equals    *)
(* are settled by the manifest's order; and a backend is called            *)
(* incompatible only when no build runs.  Speed(h, r) is the rank of the   *)
(* first accelerator score reaches: a build that carries Vulkan and Metal  *)
(* counts as Vulkan on a Mac that has both.                                *)
Speed(h, r) ==
  IF RunsCuda(h, r) \/ RunsRocm(h, r) THEN 3
  ELSE IF RunsVulkan(h, r) THEN 2 ELSE IF RunsMetal(h, r) THEN 3 ELSE 1
SelectsBest(build, h, entry) ==
  LET sel == Select(build, h, entry)
      usable == {i \in DOMAIN entry.assets: /\ entry.assets[i].target = h.target
                                            /\ Runs(h, AssetRequires(entry.assets[i]))}
      speed(i) == Speed(h, AssetRequires(entry.assets[i])) IN
  entry.kind = "subprocess" /\ ~ContractBlock(build, entry) =>
    /\ (sel.is = "subprocess") = (usable # {})
    /\ usable # {} => /\ sel.index \in usable
                      /\ \A i \in usable: /\ speed(sel.index) >= speed(i)
                                          /\ entry.assets[i] = entry.assets[sel.index] => sel.index <= i

(* Two files never land on one destination, a model whose files resolve    *)
(* has every destination that is not an optional one, every file taken     *)
(* runs here, and a variant for this host is preferred to the plain file.  *)
FilesResolve(h, files) ==
  LET sel == SelectFiles(h, files)
      fits(i) == files[i].accel = {} \/ Runs(h, FileRequires(files[i])) IN
  sel.ok =>
    /\ \A i, j \in sel.files: files[i].destination = files[j].destination => i = j
    /\ \A i \in sel.files: fits(i)
    /\ \A i \in DOMAIN files: files[i].optional
         \/ \E j \in sel.files: files[j].destination = files[i].destination
    /\ \A i \in sel.files, j \in DOMAIN files:
         files[i].destination = files[j].destination /\ fits(j) /\ files[j].accel # {}
           => files[i].accel # {}
=============================================================================
