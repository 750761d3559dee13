-------------------------------- MODULE Surface --------------------------------
(***************************************************************************)
(* The tool surface and the comparison of two of them                      *)
(* (scripts/gates/surface.go), with a reading of the schemas to hold it    *)
(* against: the documents a caller may send or be sent.                    *)
(*                                                                         *)
(* A surface is the items a dump shows.  An item has a text, which is its  *)
(* description, annotations and whatever else a dump says of it, and two   *)
(* sides, its inputs and its outputs.  A side has fields by path, each a   *)
(* set of types and a list of values or none, and the paths it requires.   *)
(* A type stands for what it admits: no type, or `true`, is AnyType, and   *)
(* `false` is {}.                                                          *)
(***************************************************************************)
EXTENDS Integers

CONSTANTS
  Items,   \* tools, resource templates and the like
  ListOf,  \* ListOf[i]: the list of the dump item i is on
  Paths,   \* of fields
  Parent,  \* Parent[f]: the field f sits in, "" at the top (parentPath)
  Listed   \* values a list may name, texts all

\* A path is longer than its parent, so no fields sit in each other.
ASSUME PathsAssumption ==
  /\ \A f \in Paths : Parent[f] \in Paths \cup {""}
  /\ \A S \in SUBSET Paths : S # {} => \E f \in S : Parent[f] \notin S

Unlisted == {}   \* the enum of a field that lists no values

AnyType == {"null", "integer", "number", "string", "object"}

\* The fields of s that are there when their parent is.
Has(s, f) == f \in DOMAIN s.fields
ParentIn(s, f) == Parent[f] = "" \/ Has(s, Parent[f])

\* walk: a field is recorded before those in it.  And the schemas the SDK
\* derives require nothing that is no field.
Walked(s) ==
  /\ DOMAIN s.fields \subseteq Paths /\ s.required \subseteq DOMAIN s.fields
  /\ \A f \in DOMAIN s.fields : ParentIn(s, f)

-----------------------------------------------------------------------------
\* typesCover.
Cover(wide, narrow) ==
  narrow \subseteq wide \cup (IF "number" \in wide THEN {"integer"} ELSE {})

\* Slip: both sides judged as inputs are.
TypeBreaksAsInput(was, now, side) == ~Cover(now, was)

\* typeBreaks: an input may take more, an output may return less.
TypeBreaks(was, now, side) ==
  IF side = "input" THEN ~Cover(now, was) ELSE ~Cover(was, now)

\* sideBreaks: the fields of a side a kept tool breaks.
SideBreaks(was, now, side) ==
  {f \in DOMAIN was.fields :
     IF ~Has(now, f) THEN ParentIn(now, f)
     ELSE \/ TypeBreaks(was.fields[f].types, now.fields[f].types, side)
          \/ /\ side = "input"
             /\ now.fields[f].enum # Unlisted /\ was.fields[f].enum # Unlisted
             /\ ~(was.fields[f].enum \subseteq now.fields[f].enum)
          \/ side = "output" /\ f \in was.required \ now.required}

\* The inputs newly required of a caller, those inside a new object not.
NewlyRequired(was, now) == {f \in now.required \ was.required : ParentIn(was, f)}

\* brokenFields, of one tool.
BrokenFields(was, now) ==
  ({"input"} \X (SideBreaks(was.inputs, now.inputs, "input")
                 \cup NewlyRequired(was.inputs, now.inputs)))
  \cup ({"output"} \X SideBreaks(was.outputs, now.outputs, "output"))

\* valueNotes, of one tool: lists a person should look at.
ValueNotes(was, now) ==
  ({"output"} \X {f \in DOMAIN was.outputs.fields :
     /\ Has(now.outputs, f) /\ was.outputs.fields[f].enum # Unlisted
     /\ \/ now.outputs.fields[f].enum = Unlisted
        \/ ~(now.outputs.fields[f].enum \subseteq was.outputs.fields[f].enum)})
  \cup ({"input"} \X {f \in DOMAIN was.inputs.fields :
     /\ Has(now.inputs, f)
     /\ was.inputs.fields[f].enum = Unlisted /\ now.inputs.fields[f].enum # Unlisted})

\* compareSurfaces.  A break is known by its item and where in it.
Compare(base, cur) ==
  LET kept == DOMAIN base \cap DOMAIN cur IN
  [added |-> DOMAIN cur \ DOMAIN base,
   changed |-> {i \in kept : base[i] # cur[i]},
   breaking |-> {<<i, <<ListOf[i]>>>> : i \in DOMAIN base \ DOMAIN cur}
                \cup UNION {{i} \X BrokenFields(base[i], cur[i]) : i \in kept}]

-----------------------------------------------------------------------------
\* What the schemas mean.  A document gives some of the paths a value.

Values == {"null", "integer", "fraction", "object"} \cup Listed
TypesOf(v) ==
  CASE v = "integer" -> {"integer", "number"}
    [] v = "fraction" -> {"number"}
    [] v \in Listed -> {"string"}
    [] OTHER -> {v}

Documents ==
  UNION {{d \in [P -> Values] :
            \A f \in P : Parent[f] # "" => Parent[f] \in P /\ d[Parent[f]] = "object"}
         : P \in SUBSET Paths}

Fits(field, v) ==
  /\ TypesOf(v) \cap field.types # {}
  /\ field.enum # Unlisted => v \in field.enum
Complete(s, d) ==
  \A f \in s.required : (Parent[f] = "" \/ Parent[f] \in DOMAIN d) => f \in DOMAIN d

\* A document the side admits, and one whose known part a reader of it expects.
Admits(s, d) ==
  /\ DOMAIN d \subseteq DOMAIN s.fields
  /\ \A f \in DOMAIN d : Fits(s.fields[f], d[f])
  /\ Complete(s, d)
Expects(s, d) ==
  /\ \A f \in DOMAIN d \cap DOMAIN s.fields : Fits(s.fields[f], d[f])
  /\ Complete(s, d)

\* What a caller of was may send is refused now, or what it is sent now is
\* nothing it expects.
CallerBroken(was, now) == \E d \in Documents :
  \/ Admits(was.inputs, d) /\ ~Admits(now.inputs, d)
  \/ Admits(now.outputs, d) /\ ~Expects(was.outputs, d)

\* The same tool with every list of values left out.
Unrestricted(s) ==
  [fields |-> [f \in DOMAIN s.fields |-> [types |-> s.fields[f].types, enum |-> Unlisted]],
   required |-> s.required]
WithoutLists(tool) ==
  [inputs |-> Unrestricted(tool.inputs), outputs |-> Unrestricted(tool.outputs), text |-> tool.text]
=============================================================================
