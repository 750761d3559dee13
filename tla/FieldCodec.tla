------------------------------ MODULE FieldCodec ------------------------------
(***************************************************************************)
(* The codec half of internal/pipedrive/fieldcache.go, over one loaded     *)
(* cache entry: Resolve puts a stored custom-field map into the words of   *)
(* the workspace, Encode puts a caller's words into what Pipedrive stores. *)
(*                                                                         *)
(* Both range over a Go map, whose order is anybody's guess, so each round *)
(* of a loop is a step and takes any key that is left.  A record is read,  *)
(* and then a write is encoded: what was read sent back, or anything else. *)
(*                                                                         *)
(* Names, labels and keys are strings; `lower` is strings.ToLower.  A      *)
(* value is Null, one atom or a list of them, an atom a string or an       *)
(* option id, and OptionKey renders either to a string.                    *)
(***************************************************************************)
EXTENDS Sequences, Naturals

CONSTANTS
  Strings, Ids,  \* atoms: text, and option ids as Pipedrive decodes to
  Keys,          \* field keys: hashes, and the identifiers of built-ins
  lower,         \* lower[s]: s in lower case
  digits,        \* digits[i]: how the id i prints
  Null,          \* JSON null
  Metas,         \* the field definitions an entry may hold
  Records,       \* the custom_fields maps Pipedrive may have stored
  Writes         \* the custom_fields maps a caller may send

Atoms == Strings \cup Ids
Options == [id : Ids, label : Strings]
FieldInfo == [name : Strings, custom : BOOLEAN, writable : BOOLEAN, options : Seq(Options)]
Values == {Null} \cup [list : BOOLEAN, of : Seq(Atoms)]

ASSUME AtomsAssumption == Keys \subseteq Strings /\ Strings \cap Ids = {} /\
                          Null \notin [list : BOOLEAN, of : Seq(Atoms)]
ASSUME LowerAssumption == lower \in [Strings -> Strings]
\* Distinct numbers print differently.
ASSUME DigitsAssumption == digits \in [Ids -> Strings] /\
                           \A i, j \in Ids : digits[i] = digits[j] => i = j
ASSUME MetasAssumption == \A m \in Metas :
  DOMAIN m \subseteq Keys /\ \A k \in DOMAIN m : m[k] \in FieldInfo
ASSUME RecordsAssumption == \A r \in Records :
  DOMAIN r \subseteq Keys /\ \A k \in DOMAIN r : r[k] \in Values
ASSUME WritesAssumption == \A w \in Writes :
  DOMAIN w \subseteq Strings /\ \A s \in DOMAIN w : w[s] \in Values

\* What Pipedrive stores under custom_fields: custom fields, ids for choices.
ASSUME StoredAssumption == \A m \in Metas, r \in Records : \A k \in DOMAIN r \cap DOMAIN m :
  /\ m[k].custom
  /\ r[k] # Null /\ m[k].options # <<>> => \A n \in DOMAIN r[k].of : r[k].of[n] \in Ids
\* A hash is nobody's name: a field called like a key is called like a built-in's.
ASSUME HashAssumption == \A m \in Metas, k \in Keys : \A j \in DOMAIN m :
  lower[m[j].name] = lower[k] => k \in DOMAIN m /\ ~ m[k].custom
\* Within one field, no two options share an id, nor a label but for its case
\* (D-22 leaves the latter undecided).
DistinctOptions(m) == \A k \in DOMAIN m : \A i, j \in DOMAIN m[k].options :
  LET o == m[k].options[i]  p == m[k].options[j]
  IN (o.id = p.id \/ lower[o.label] = lower[p.label]) => i = j
ASSUME OptionsAssumption == \A m \in Metas : DistinctOptions(m)

VARIABLES
  phase,   \* "read", "encode" or "done"
  fields,  \* the entry's fields, by key
  raw,     \* the record as stored
  shown,   \* the record as the caller sees it
  wanted,  \* the caller's write
  todo,    \* the keys a loop has not come to
  values,  \* CustomFieldWrite.Values so far
  refused  \* what Encode objects to so far: [field, why] records

codecVars == <<phase, fields, raw, shown, wanted, todo, values, refused>>

EmptyMap == [x \in {} |-> Null]

\* m[k] = v, as Go writes it.
Put(m, k, v) == [x \in DOMAIN m \cup {k} |-> IF x = k THEN v ELSE m[x]]

-----------------------------------------------------------------------------
\* OptionKey.
Rendered(a) == IF a \in Strings THEN a ELSE digits[a]

\* The options of f that an atom's rendering names: the table labels.
Named(f, a) == {o \in DOMAIN f.options : digits[f.options[o].id] = Rendered(a)}

\* labelOf.
LabelOf(f, a) ==
  IF Named(f, a) = {} THEN a ELSE f.options[CHOOSE o \in Named(f, a) : TRUE].label

\* cachedField.label: a field without options, and a null, pass through.
Label(f, v) ==
  IF v = Null \/ f.options = <<>> THEN v
  ELSE [v EXCEPT !.of = [n \in DOMAIN v.of |-> LabelOf(f, v.of[n])]]

\* The options a string labels, but for its case: the table ids.
Labelled(f, a) == {o \in DOMAIN f.options : a \in Strings /\ lower[f.options[o].label] = lower[a]}

\* optionID: a label if it is one, else an id sent back.
IsChoice(f, a) == Labelled(f, a) # {} \/ Named(f, a) # {}

\* Slip: ids are looked up before labels.
OptionIdFirst(f, a) ==
  IF Named(f, a) # {} THEN a ELSE f.options[CHOOSE o \in Labelled(f, a) : TRUE].id

OptionId(f, a) ==
  IF Labelled(f, a) = {} THEN a ELSE f.options[CHOOSE o \in Labelled(f, a) : TRUE].id

\* cachedField.encode, where it takes v ...
Encodable(f, v) ==
  /\ v # Null
  /\ f.options # <<>> => \A n \in DOMAIN v.of : IsChoice(f, v.of[n])

\* ... and what it makes of it.
Encoded(f, v) ==
  IF f.options = <<>> THEN v
  ELSE [v EXCEPT !.of = [n \in DOMAIN v.of |-> OptionId(f, v.of[n])]]

-----------------------------------------------------------------------------
\* byName.
KeysNamed(m, name) == {k \in DOMAIN m : lower[m[k].name] = lower[name]}

\* writableField: an exact key beats a name.
Candidates(m, name) == IF name \in DOMAIN m THEN {name} ELSE KeysNamed(m, name)

CustomCandidates(m, name) == {k \in Candidates(m, name) : m[k].custom}

Target(m, name) == CHOOSE k \in CustomCandidates(m, name) : TRUE

\* Why writableField refuses a name, checkWritable included; "" if it does not.
FieldRefusal(m, name) ==
  CASE \E j, k \in CustomCandidates(m, name) : j # k -> "ambiguous"
    [] CustomCandidates(m, name) = {} /\ Candidates(m, name) # {} -> "built-in"
    [] Candidates(m, name) = {} -> "unknown"
    [] OTHER -> IF m[Target(m, name)].writable THEN "" ELSE "read-only"

\* The name a read shows for a stored key.
ShownAs(m, k) == IF k \in DOMAIN m THEN m[k].name ELSE k
ShownValue(m, k, v) == IF k \in DOMAIN m THEN Label(m[k], v) ELSE v

-----------------------------------------------------------------------------
CodecInit ==
  /\ phase = "read"
  /\ fields \in Metas
  /\ raw \in Records
  /\ shown = EmptyMap
  /\ wanted = EmptyMap
  /\ todo = DOMAIN raw
  /\ values = EmptyMap
  /\ refused = {}

\* Slip: a field the entry does not know is dropped.
ResolveKnown(k) ==
  /\ phase = "read" /\ k \in todo
  /\ shown' = IF k \in DOMAIN fields
              THEN Put(shown, ShownAs(fields, k), ShownValue(fields, k, raw[k])) ELSE shown
  /\ todo' = todo \ {k}
  /\ UNCHANGED <<phase, fields, raw, wanted, values, refused>>

\* A round of Resolve's loop.
ResolveOne(k) ==
  /\ phase = "read" /\ k \in todo
  /\ shown' = Put(shown, ShownAs(fields, k), ShownValue(fields, k, raw[k]))
  /\ todo' = todo \ {k}
  /\ UNCHANGED <<phase, fields, raw, wanted, values, refused>>

\* Resolve returns, and the caller writes w.
Ask(w) ==
  /\ phase = "read" /\ todo = {}
  /\ phase' = "encode"
  /\ wanted' = w
  /\ todo' = DOMAIN w
  /\ UNCHANGED <<fields, raw, shown, values, refused>>

Echo == Ask(shown)

\* The rounds of Encode's loop: a field that cannot be written,
RefuseField(name) ==
  /\ FieldRefusal(fields, name) # ""
  /\ refused' = refused \cup {[field |-> name, why |-> FieldRefusal(fields, name)]}
  /\ UNCHANGED values

\* one that was encoded already, under another name,
RefuseTwice(name) ==
  /\ FieldRefusal(fields, name) = ""
  /\ Target(fields, name) \in DOMAIN values
  /\ refused' = refused \cup
       {[field |-> fields[Target(fields, name)].name, why |-> "named twice"]}
  /\ UNCHANGED values

\* a null, or no choice of the field's,
RefuseValue(name) ==
  /\ FieldRefusal(fields, name) = ""
  /\ Target(fields, name) \notin DOMAIN values
  /\ ~ Encodable(fields[Target(fields, name)], wanted[name])
  /\ refused' = refused \cup
       {[field |-> fields[Target(fields, name)].name, why |-> "value"]}
  /\ UNCHANGED values

\* Slip: a second name for a field overwrites what the first set.
TakeOver(name) ==
  /\ FieldRefusal(fields, name) = ""
  /\ Encodable(fields[Target(fields, name)], wanted[name])
  /\ values' = Put(values, Target(fields, name),
                   Encoded(fields[Target(fields, name)], wanted[name]))
  /\ UNCHANGED refused

\* and one that is fine.
Take(name) ==
  /\ FieldRefusal(fields, name) = ""
  /\ Target(fields, name) \notin DOMAIN values
  /\ Encodable(fields[Target(fields, name)], wanted[name])
  /\ values' = Put(values, Target(fields, name),
                   Encoded(fields[Target(fields, name)], wanted[name]))
  /\ UNCHANGED refused

EncodeOne(name) ==
  /\ phase = "encode" /\ name \in todo
  /\ RefuseField(name) \/ RefuseTwice(name) \/ RefuseValue(name) \/ Take(name)
  /\ todo' = todo \ {name}
  /\ UNCHANGED <<phase, fields, raw, shown, wanted>>

\* Encode returns: one refusal refuses the whole map.
Return ==
  /\ phase = "encode" /\ todo = {}
  /\ phase' = "done"
  /\ values' = IF refused = {} THEN values ELSE EmptyMap
  /\ UNCHANGED <<fields, raw, shown, wanted, todo, refused>>

CodecNext ==
  \/ \E k \in Keys : ResolveOne(k)
  \/ \E w \in Writes : Ask(w)
  \/ Echo
  \/ \E name \in Strings : EncodeOne(name)
  \/ Return

CodecSpec == CodecInit /\ [][CodecNext]_codecVars

-----------------------------------------------------------------------------
\* Types: what is sent is keyed by fields of the entry, and the loops touch
\* nothing but what they were given.
CodecTypeOK ==
  /\ phase \in {"read", "encode", "done"}
  /\ fields \in Metas /\ raw \in Records
  /\ DOMAIN shown \subseteq Strings /\ \A s \in DOMAIN shown : shown[s] \in Values
  /\ DOMAIN wanted \subseteq Strings /\ \A s \in DOMAIN wanted : wanted[s] \in Values
  /\ DOMAIN values \subseteq DOMAIN fields /\ \A k \in DOMAIN values : values[k] \in Values
  /\ todo \subseteq IF phase = "read" THEN DOMAIN raw ELSE DOMAIN wanted
  /\ refused \subseteq [field : Strings,
                       why : {"ambiguous", "built-in", "unknown", "read-only",
                              "named twice", "value"}]

\* The fields a name may mean: a key means its own field, anything else every
\* custom field of that name.
Means(name, k) ==
  /\ k \in DOMAIN fields /\ fields[k].custom
  /\ k = name \/ (name \notin DOMAIN fields /\ lower[fields[k].name] = lower[name])

Denotes(name, k) == Means(name, k) /\ \A j \in Keys : Means(name, j) => j = k

\* A name that says which field to write, one that can take the value.
Fine(name, k) ==
  /\ Denotes(name, k)
  /\ fields[k].writable
  /\ Encodable(fields[k], wanted[name])

\* Encode is what D-23 says, and whatever order the map is ranged in: it takes a
\* write when each name means one writable field, no field twice, and each value
\* can be stored; then it sends exactly those fields, else nothing.
EncodeIsOrderFree == phase = "done" =>
  /\ refused = {} <=>
       /\ \A name \in DOMAIN wanted : \E k \in Keys : Fine(name, k)
       /\ \A name, other \in DOMAIN wanted, k \in Keys :
            Fine(name, k) /\ Fine(other, k) => name = other
  /\ IF refused = {}
     THEN /\ \A name \in DOMAIN wanted : \E k \in DOMAIN values :
               Fine(name, k) /\ values[k] = Encoded(fields[k], wanted[name])
          /\ \A k \in DOMAIN values : \E name \in DOMAIN wanted : Fine(name, k)
     ELSE values = EmptyMap

\* A read sent back unchanged changes nothing: whatever Encode makes of what
\* Resolve showed is stored as it was, field by field, or the write is refused.
EchoStoresTheSame == phase = "done" /\ wanted = shown =>
  \A k \in DOMAIN values : k \in DOMAIN raw /\ values[k] = raw[k]

\* A read is complete but for fields that share a name (D-18): every stored field
\* is there, known or not, and nothing is there that is not stored.
ReadIsComplete == phase # "read" =>
  /\ \A k \in DOMAIN raw :
       /\ ShownAs(fields, k) \in DOMAIN shown
       /\ (\A j \in DOMAIN raw : ShownAs(fields, j) = ShownAs(fields, k) => j = k) =>
            shown[ShownAs(fields, k)] = ShownValue(fields, k, raw[k])
  /\ \A s \in DOMAIN shown : \E k \in DOMAIN raw :
       s = ShownAs(fields, k) /\ shown[s] = ShownValue(fields, k, raw[k])

=============================================================================
