------------------------------ MODULE Manifest ------------------------------
(***************************************************************************)
(* A backend's manifest, backend.toml: how it is read                      *)
(* (super-engine-spec manifest.rs), and what the daemon asks of one it is  *)
(* about to install or to serve (backends/mod.rs).  A build of the daemon  *)
(* is [latest, rules]: it knows the contracts 1..latest, and its rules say *)
(* which field belongs to which contract.                                  *)
(***************************************************************************)
EXTENDS Integers, Sequences, FiniteSets, SequencesExt

(* FieldRule, ContractField.                                               *)
ContractField(since, rule, table, key) ==
  [since |-> since, rule |-> rule, table |-> table, key |-> key]
IsArrayTable(field) == field.table \in {"models", "secrets", "options"}

(* A manifest is read twice: `raw` is the TOML as it is written, a table   *)
(* being a set of keys and an array of tables a set of those; the other    *)
(* fields are what serde made of it.                                       *)
Declares(raw, field) ==
  /\ field.table \in DOMAIN raw
  /\ IF IsArrayTable(field)
     THEN \E entry \in raw[field.table]: field.key \in entry
     ELSE field.key \in raw[field.table]

(* contract_violation; applies_to only spares the second reading.          *)
Breaks(raw, contract, field) ==
  \/ field.rule = "added" /\ field.since > contract /\ Declares(raw, field)
  \/ field.rule = "required" /\ contract >= field.since /\ ~Declares(raw, field)
AppliesTo(rules, contract) ==
  \E f \in rules: IF f.rule = "added" THEN f.since > contract ELSE contract >= f.since
ContractViolation(rules, raw, contract) == \E f \in rules: Breaks(raw, contract, f)

(* ModelEntry with Device, and the FileSpec and SubprocessAsset tables.    *)
(* accel is a set, 0 stands for a number and <<>> for a value left out.    *)
FileSpec(url, sha256, destination, accel, cuda_major, cuda_sm, gfx, vulkan, optional) ==
  [url |-> url, sha256 |-> sha256, destination |-> destination, safe |-> TRUE, accel |-> accel,
   cuda_major |-> cuda_major, cuda_sm |-> cuda_sm, gfx |-> gfx, vulkan |-> vulkan,
   optional |-> optional]
SubprocessAsset(file, parts, target, accel, cuda_major, cuda_sm, cudnn, gfx, vulkan) ==
  [file |-> file, parts |-> parts, target |-> target, accel |-> accel, cuda_major |-> cuda_major,
   cuda_sm |-> cuda_sm, cudnn |-> cudnn, gfx |-> gfx, vulkan |-> vulkan]

(* A manifest as serde reads it: its tables are lists, numbers are u32.    *)
Listing(s) == s \in Seq(ToSet(s))
IsManifest(m) ==
  /\ Listing(m.assets) /\ \A a \in ToSet(m.assets): a.cuda_major \in Nat
  /\ Listing(m.models)
  /\ \A model \in ToSet(m.models):
       Listing(model.files) /\ \A f \in ToSet(model.files): f.cuda_major \in Nat

(* validate_files.                                                         *)
ValidFile(f) ==
  /\ f.safe
  /\ "cuda" \notin f.accel => f.cuda_major = 0 /\ f.cuda_sm = {}
  /\ "rocm" \notin f.accel => f.gfx = {}
  /\ "vulkan" \notin f.accel => f.vulkan = 0
ValidateFiles(m) ==
  /\ \A f \in ToSet(m.files): ValidFile(f)
  /\ \A f, g \in ToSet(m.files): f.destination = g.destination => f.optional = g.optional
  /\ \A d \in m.prepare_files: \E f \in ToSet(m.files): f.destination = d

(* The assets' loop of parse_inner; `file` "" is read as no file.          *)
Accels == {"cpu", "cuda", "metal", "rocm", "vulkan"}
ValidAsset(a) ==
  /\ (a.file # "") # (a.parts # <<>> /\ \A i \in DOMAIN a.parts: a.parts[i] # "")
  /\ a.accel # {} /\ a.accel \subseteq Accels
  /\ IF "cuda" \in a.accel THEN a.cuda_major # 0
                           ELSE a.cuda_major = 0 /\ a.cuda_sm = 0 /\ ~a.cudnn
  /\ ("rocm" \in a.accel) = (a.gfx # {})
  /\ "vulkan" \notin a.accel => a.vulkan = 0

(* parse_inner.  m.product is the slug the manifest names, or its own when *)
(* it names none; m.valid is what Product::validate says of it.            *)
ParseInner(build, m, enforced) ==
  /\ m.product = build.product
  /\ m.contract \in 1..build.latest
  /\ enforced /\ AppliesTo(build.rules, m.contract)
       => ~ContractViolation(build.rules, m.raw, m.contract)
  /\ m.entrypoint \in {"flat", "nested"}      \* is_safe_relative_path
  /\ m.id_valid
  /\ \A i \in DOMAIN m.models: ValidateFiles(m.models[i])
  /\ \A i \in DOMAIN m.assets: ValidAsset(m.assets[i])
  /\ m.valid

Parse(build, m) == ParseInner(build, m, TRUE)

ParseInstalled_Strict(build, m) ==  \* an installed manifest is held to a newer build's rules
  ParseInner(build, m, TRUE)

ParseInstalled(build, m) == ParseInner(build, m, FALSE)

-----------------------------------------------------------------------------
(* validate_runtime with check_addressable_name; m.names are the options'   *)
(* and the secrets'.                                                       *)
ValidModel(websocket, model) ==
  /\ model.primary_language \in model.supported_languages
  /\ ~model.multilingual => model.supported_languages = {model.primary_language}
  /\ model.realtime => websocket
ValidateRuntime(m) ==
  /\ m.kind = "subprocess" => ~m.websocket /\ m.allowed_hosts = {}
  /\ "list" \notin m.names
  /\ \A i \in DOMAIN m.models: ValidModel(m.websocket, m.models[i])
ValidateSupportedDevices(m) ==
  \A i \in DOMAIN m.models:
    LET d == m.models[i].devices IN d # {} /\ ("none" \in d => d = {"none"})
=============================================================================
