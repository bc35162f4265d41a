------------------------------ MODULE Options ------------------------------
(***************************************************************************)
(* A backend's options: what a manifest declares, what the daemon takes    *)
(* from a user (super-engine-spec manifest::Opt) and what the registry     *)
(* refuses to publish (super-engine-indexer manifest::validate).  A text   *)
(* stands for a string by how it reads: "int" and "float" hold a number in *)
(* halves, so the text "1" is [is |-> "int", half |-> 2] and "1.0" is      *)
(* [is |-> "float", half |-> 2]; "infinite" is a number without a value.   *)
(***************************************************************************)
EXTENDS Integers, Sequences, SequencesExt

Text(is, half)  == [is |-> is, half |-> half]
IntText(half)   == Text("int", half)
FloatText(half) == Text("float", half)
Word            == Text("word", 0)
Lines           == Text("lines", 0)     \* has a line break, or is too long
BoolText(half)  == Text("bool", half)   \* "true" is 2, "false" is 0

(* OptionDefault: a TOML value, and the string the daemon sends for it. A  *)
(* float keeps its point, so 1.0 is shown as "1.0" and never as "1".       *)
OptionDefault(toml, half, text) == [toml |-> toml, half |-> half, text |-> text]
IntegerValue(half) == OptionDefault("integer", half, Word)
FloatValue(half)   == OptionDefault("float", half, Word)
BoolValue(half)    == OptionDefault("bool", half, Word)
StringValue(text)  == OptionDefault("string", 0, text)
Display(v) == CASE v.toml = "integer" -> IntText(v.half)
                [] v.toml = "float" -> FloatText(v.half)
                [] v.toml = "bool" -> BoolText(v.half)
                [] v.toml = "string" -> v.text

(* One [[options]] entry; a field that is left out is <<>>, one that is    *)
(* there a sequence of one.                                                *)
Opt(type, default, choices, min, max, step) ==
  [type |-> type, default |-> default, choices |-> choices, min |-> min, max |-> max, step |-> step]
Some(x) == <<x>>
None    == <<>>

(* An entry as serde reads it.                                             *)
Texts  == [is: {"int", "float", "bool", "infinite", "word", "lines"}, half: Int]
Tomls  == [toml: {"integer", "float", "bool", "string"}, half: Int, text: Texts]
IsOpt(o) ==
  /\ o = [type |-> o.type, default |-> o.default, choices |-> o.choices,
          min |-> o.min, max |-> o.max, step |-> o.step]
  /\ o.type \in Seq({"string", "integer", "float", "bool"})
  /\ o.default \in Seq(Tomls) /\ o.choices \in Seq(Tomls)
  /\ o.min \in Seq(Int) /\ o.max \in Seq(Int) /\ o.step \in Seq(Int)
  /\ Len(o.type) <= 1 /\ Len(o.default) <= 1
  /\ Len(o.min) <= 1 /\ Len(o.max) <= 1 /\ Len(o.step) <= 1

DeclaredType(o) == IF o.type = None THEN "string" ELSE Head(o.type)
IsNumeric(o)    == DeclaredType(o) \in {"integer", "float"}

(* OptionType::accepts.                                                    *)
TypeAccepts(type, t) ==
  CASE type = "string" -> TRUE
    [] type = "integer" -> t.is = "int"
    [] type = "float" -> t.is \in {"int", "float"}
    [] type = "bool" -> t.is = "bool"
AcceptsTheType(o, t) == TypeAccepts(DeclaredType(o), t)

(* Opt::is_in_range; what is not a number is left to the type. (An         *)
(* infinite value is beyond one of the bounds: the texts here are +inf.)   *)
IsInRange(o, t) ==
  /\ t.is \in {"int", "float"} =>
       /\ o.min # None => t.half >= Head(o.min)
       /\ o.max # None => t.half <= Head(o.max)
  /\ t.is = "infinite" => o.max = None

IsAChoice(o, t) == o.choices = <<>> \/ \E v \in ToSet(o.choices): Display(v) = t

(* Opt::permits_value: which of the three tests failed.                    *)
PermitsValue(o, t) ==
  IF ~AcceptsTheType(o, t) THEN "wrong type"
  ELSE IF ~IsInRange(o, t) THEN "out of range"
  ELSE IF IsAChoice(o, t) THEN "ok" ELSE "not offered"

(* Opt::permits_shape with MAX_OPTION_CHARS: one line, not too long.       *)
PermitsShape(t) == t.is # "lines"

(* Opt::is_slider.                                                         *)
IsSlider(o) == IsNumeric(o) /\ o.min # None /\ o.max # None /\ o.step # None

-----------------------------------------------------------------------------

(* check_range: a range is finite, on a number, whole for an integer, has  *)
(* no choices beside it, and holds the default.                            *)
CheckRange(o) ==
  LET bounds == o.min \o o.max \o o.step IN
  \/ bounds = <<>>
  \/ /\ IsNumeric(o) /\ o.choices = <<>>
     /\ DeclaredType(o) = "integer" => \A b \in ToSet(bounds): b % 2 = 0
     /\ o.min # None /\ o.max # None => Head(o.min) <= Head(o.max)
     /\ o.step # None =>
          /\ Head(o.step) > 0 /\ o.min # None /\ o.max # None
          /\ Head(o.step) <= Head(o.max) - Head(o.min)
          /\ o.default # None
     /\ \A v \in ToSet(o.default): IsInRange(o, Display(v))

(* validate, the part about an option.                                     *)
PublishesOption(o) ==
  /\ \A v \in ToSet(o.default): PermitsShape(Display(v))
  /\ \A v \in ToSet(o.default \o o.choices): AcceptsTheType(o, Display(v))
  /\ CheckRange(o)
  /\ o.choices # <<>> =>
       /\ o.type # Some("bool")
       /\ \A i, j \in DOMAIN o.choices: Display(o.choices[i]) = Display(o.choices[j]) => i = j
       /\ \A v \in ToSet(o.default): IsAChoice(o, Display(v))

(* Whatever a published option offers, the daemon takes: the default a     *)
(* user never changed, every entry of a dropdown, and the ends of a slider *)
(* ("the daemon would refuse the value its own manifest names",            *)
(* indexer/manifest.rs:64-67).  A slider rests on its default.             *)
OffersAreAccepted(o) ==
  /\ \A v \in ToSet(o.default \o o.choices): PermitsValue(o, Display(v)) = "ok"
  /\ \A v \in ToSet(o.default): PermitsShape(Display(v))
  /\ IsSlider(o) => /\ o.default # None
                    /\ \A b \in {Head(o.min), Head(o.max)}:
                         PermitsValue(o, IF DeclaredType(o) = "integer" THEN IntText(b) ELSE FloatText(b)) = "ok"
=============================================================================
