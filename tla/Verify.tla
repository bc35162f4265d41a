------------------------------- MODULE Verify -------------------------------
(***************************************************************************)
(* The download policy that publishing and installing share                *)
(* (super-engine-spec verify.rs).  Sizes are in GiB.  A tarball is         *)
(* [parts, entries]: the compressed size of each part, and its entries as  *)
(* [path, size, symlink], a path being "escapes", "entry" (the entrypoint),*)
(* "bin/entry" or another.                                                 *)
(***************************************************************************)
EXTENDS Integers, Sequences, SequencesExt, FiniteSetsExt

MAX_TARBALL_ENTRY_BYTES == 4
MAX_TARBALL_TOTAL_FLOOR == 4
MAX_DECOMP_RATIO        == 5

UnpackCap(size) == Max({size * MAX_DECOMP_RATIO, MAX_TARBALL_TOTAL_FLOOR})

TarEntryUnsafe(e) == e.path = "escapes" \/ e.symlink

(* tar_budget_step over the entries: the total, or -1 once a cap is broken.*)
TarBudget(entries, cap) ==
  LET step(total, e) ==
        IF total = -1 \/ e.size > MAX_TARBALL_ENTRY_BYTES \/ total + e.size > cap
        THEN -1 ELSE total + e.size
  IN FoldLeft(step, 0, entries)

Compressed(tar) == FoldLeft(LAMBDA n, part: n + part, 0, tar.parts)
EntriesSafe(tar) == \A i \in DOMAIN tar.entries: ~TarEntryUnsafe(tar.entries[i])

=============================================================================
