------------------------------ MODULE FieldProofs ------------------------------
(***************************************************************************)
(* Proofs about the custom fields: the codec over one loaded entry, and    *)
(* the cache that loads the entries.                                       *)
(*                                                                         *)
(* FieldCodec: what one option, one value and one name come to, then the   *)
(* loops.  EncodeInv says what the rounds so far have made of the names    *)
(* they came to, whichever those are; ReadInv the same of a read.          *)
(*                                                                         *)
(* FieldCache, for any number of calls and entries and any history of the  *)
(* workspace's fields: one fetch per entry, no torn read, and a refresh    *)
(* that every later call sees.                                             *)
(***************************************************************************)
EXTENDS FieldCache, FieldCodec, TLAPS

-----------------------------------------------------------------------------
(* Options and values.                                                     *)

\* A field of an entry, whose options are distinct.
GoodField(f) ==
  /\ f \in FieldInfo
  /\ \A i, j \in DOMAIN f.options :
       (f.options[i].id = f.options[j].id \/
        lower[f.options[i].label] = lower[f.options[j].label]) => i = j

LEMMA FieldsAreGood ==
  ASSUME NEW m \in Metas, NEW k \in DOMAIN m
  PROVE  GoodField(m[k]) /\ k \in Keys
  BY MetasAssumption, OptionsAssumption DEF GoodField, DistinctOptions

LEMMA OptionTyped ==
  ASSUME NEW f, GoodField(f), NEW o \in DOMAIN f.options
  PROVE  f.options[o].id \in Ids /\ f.options[o].label \in Strings
<1>1. f.options \in Seq(Options)
  BY DEF GoodField, FieldInfo
<1>2. f.options[o] \in Options
  BY <1>1
<1> QED
  BY <1>2 DEF Options

\* What a read shows for an id is what a write takes for it.
LEMMA AtomRoundTrip ==
  ASSUME NEW f, GoodField(f), NEW a \in Ids, IsChoice(f, LabelOf(f, a))
  PROVE  OptionId(f, LabelOf(f, a)) = a
<1>0. a \notin Strings
  BY AtomsAssumption
<1>1. CASE Named(f, a) = {}
  BY <1>0, <1>1 DEF LabelOf, OptionId, Labelled
<1>2. CASE Named(f, a) # {}
  <2> DEFINE o == CHOOSE p \in Named(f, a) : TRUE
  <2> DEFINE l == f.options[o].label
  <2>1. o \in Named(f, a)
    BY <1>2
  <2>2. o \in DOMAIN f.options /\ digits[f.options[o].id] = digits[a]
    BY <2>1, <1>0 DEF Named, Rendered
  <2>3. f.options[o].id = a /\ l \in Strings
    BY <2>2, OptionTyped, DigitsAssumption
  <2>4. LabelOf(f, a) = l
    BY <1>2 DEF LabelOf
  <2>5. Labelled(f, l) = {o}
    BY <2>2, <2>3 DEF Labelled, GoodField
  <2> HIDE DEF o, l
  <2>6. (CHOOSE p \in Labelled(f, l) : TRUE) = o
    BY <2>5
  <2> QED
    BY <2>3, <2>4, <2>5, <2>6 DEF OptionId, l
<1> QED
  BY <1>1, <1>2

LEMMA AtomTyped ==
  ASSUME NEW f, GoodField(f), NEW a \in Atoms
  PROVE  /\ LabelOf(f, a) \in Atoms
         /\ OptionId(f, a) \in Atoms
<1>1. \A o \in Named(f, a) : f.options[o].label \in Atoms
  BY OptionTyped DEF Named, Atoms
<1>2. \A o \in Labelled(f, a) : f.options[o].id \in Atoms
  BY OptionTyped DEF Labelled, Atoms
<1> QED
  BY <1>1, <1>2 DEF LabelOf, OptionId

LEMMA MappedSeq ==
  ASSUME NEW S, NEW s \in Seq(S), NEW t, t = [n \in DOMAIN s |-> t[n]],
         \A n \in DOMAIN s : t[n] \in S
  PROVE  t \in Seq(S)
<1>1. Len(s) \in Nat /\ DOMAIN s = 1..Len(s)
  OBVIOUS
<1>2. t \in [1..Len(s) -> S]
  BY <1>1
<1> QED
  BY <1>1, <1>2

LEMMA ValueTyped ==
  ASSUME NEW f, GoodField(f), NEW v \in Values
  PROVE  /\ Label(f, v) \in Values
         /\ v # Null => Encoded(f, v) \in Values
<1>1. CASE v = Null
  BY <1>1 DEF Label
<1>2. CASE v # Null
  <2>1. v \in [list : BOOLEAN, of : Seq(Atoms)] /\ v.of \in Seq(Atoms)
    BY <1>2 DEF Values
  <2>2. \A n \in DOMAIN v.of : v.of[n] \in Atoms
    BY <2>1
  <2> DEFINE t == [n \in DOMAIN v.of |-> LabelOf(f, v.of[n])]
             u == [n \in DOMAIN v.of |-> OptionId(f, v.of[n])]
  <2>3. \A n \in DOMAIN v.of : t[n] \in Atoms /\ u[n] \in Atoms
    BY <2>2, AtomTyped
  <2>4. t \in Seq(Atoms) /\ u \in Seq(Atoms)
    <3>1. t = [n \in DOMAIN v.of |-> t[n]] /\ u = [n \in DOMAIN v.of |-> u[n]]
      OBVIOUS
    <3> HIDE DEF t, u
    <3> QED
      BY <2>1, <2>3, <3>1, MappedSeq
  <2>5. /\ Label(f, v) = v \/ Label(f, v) = [v EXCEPT !.of = t]
        /\ Encoded(f, v) = v \/ Encoded(f, v) = [v EXCEPT !.of = u]
    BY DEF Label, Encoded
  <2> HIDE DEF t, u
  <2> QED
    BY <2>1, <2>4, <2>5 DEF Values
<1> QED
  BY <1>1, <1>2

\* The same for a whole stored value, if it can be encoded at all.
LEMMA ValueRoundTrip ==
  ASSUME NEW f, GoodField(f), NEW v \in Values, v # Null,
         f.options # <<>> => \A n \in DOMAIN v.of : v.of[n] \in Ids,
         Encodable(f, Label(f, v))
  PROVE  Encoded(f, Label(f, v)) = v
<1>1. CASE f.options = <<>>
  BY <1>1 DEF Label, Encoded
<1>2. CASE f.options # <<>>
  <2> DEFINE t == [n \in DOMAIN v.of |-> LabelOf(f, v.of[n])]
  <2>1. v \in [list : BOOLEAN, of : Seq(Atoms)]
    BY DEF Values
  <2>2. Label(f, v) = [v EXCEPT !.of = t]
    BY <1>2 DEF Label
  <2>3. Label(f, v).of = t
    BY <2>1, <2>2
  <2>4. \A n \in DOMAIN v.of : IsChoice(f, t[n])
    BY <1>2, <2>3 DEF Encodable
  <2>5. \A n \in DOMAIN v.of : OptionId(f, t[n]) = v.of[n]
    BY <1>2, <2>4, AtomRoundTrip
  <2>6. Encoded(f, Label(f, v)) =
          [Label(f, v) EXCEPT !.of = [n \in DOMAIN t |-> OptionId(f, t[n])]]
    BY <1>2, <2>3 DEF Encoded
  <2>7. [n \in DOMAIN t |-> OptionId(f, t[n])] = v.of
    <3>1. [n \in DOMAIN t |-> OptionId(f, t[n])] = [n \in DOMAIN v.of |-> v.of[n]]
      BY <2>5
    <3>2. v.of = [n \in DOMAIN v.of |-> v.of[n]]
      BY <2>1
    <3> QED
      BY <3>1, <3>2
  <2> HIDE DEF t
  <2> QED
    BY <2>1, <2>2, <2>6, <2>7
<1> QED
  BY <1>1, <1>2

-----------------------------------------------------------------------------
(* Names.                                                                  *)

\* writableField accepts a name that means one writable field, and finds it.
LEMMA WritableField ==
  ASSUME fields \in Metas, NEW name
  PROVE  /\ FieldRefusal(fields, name) = "" =>
              /\ Denotes(name, Target(fields, name))
              /\ Target(fields, name) \in DOMAIN fields
              /\ fields[Target(fields, name)].writable
         /\ \A k : Denotes(name, k) /\ fields[k].writable =>
              FieldRefusal(fields, name) = "" /\ Target(fields, name) = k
<1> DEFINE C == CustomCandidates(fields, name)
<1>1. \A k : k \in C <=> Means(name, k)
  BY DEF CustomCandidates, Candidates, KeysNamed, Means
<1>2. \A k \in C : k \in DOMAIN fields /\ k \in Keys
  BY <1>1, MetasAssumption DEF Means
<1>3. Target(fields, name) = CHOOSE k \in C : TRUE
  BY DEF Target
<1>4. C \subseteq Candidates(fields, name)
  BY DEF CustomCandidates
<1>5. ASSUME FieldRefusal(fields, name) = ""
      PROVE  /\ Denotes(name, Target(fields, name))
             /\ Target(fields, name) \in DOMAIN fields
             /\ fields[Target(fields, name)].writable
  <2>1. /\ \A j, k \in C : j = k
        /\ C # {}
        /\ fields[Target(fields, name)].writable
    BY <1>5, <1>4 DEF FieldRefusal
  <2>2. Target(fields, name) \in C
    BY <1>3, <2>1
  <2> HIDE DEF C
  <2> QED
    BY <1>1, <1>2, <2>1, <2>2 DEF Denotes
<1>6. ASSUME NEW k, Denotes(name, k), fields[k].writable
      PROVE  FieldRefusal(fields, name) = "" /\ Target(fields, name) = k
  <2>1. C = {k}
    BY <1>1, <1>2, <1>6 DEF Denotes
  <2>2. Target(fields, name) = k
    BY <1>3, <2>1
  <2> QED
    BY <2>1, <2>2, <1>4, <1>6 DEF FieldRefusal
<1> QED
  BY <1>5, <1>6

\* A fine name means one field.
LEMMA FineField ==
  ASSUME fields \in Metas, NEW name, NEW k, Fine(name, k)
  PROVE  /\ k \in Keys /\ k \in DOMAIN fields
         /\ \A j : Fine(name, j) => j = k
  BY MetasAssumption DEF Fine, Denotes, Means

-----------------------------------------------------------------------------
(* The loops.                                                              *)

\* The names Encode's loop has come to, and the keys Resolve's has.
Came == DOMAIN wanted \ todo
Read == IF phase = "read" THEN DOMAIN raw \ todo ELSE DOMAIN raw

\* A name whose value was sent.
Sent(name, k) ==
  k \in DOMAIN values /\ Fine(name, k) /\ values[k] = Encoded(fields[k], wanted[name])

\* Two names for one field.
Twice(name, other) == name # other /\ \E k \in Keys : Fine(name, k) /\ Fine(other, k)

\* What the rounds so far came to: without a refusal, a value for every name and
\* no name twice; with one, a name to blame; and never a value without a name.
EncodeInv == phase = "encode" =>
  /\ refused = {} => \A name \in Came : \E k \in Keys : Sent(name, k)
  /\ \A k \in DOMAIN values : \E name \in Came : Sent(name, k)
  /\ refused # {} => \/ \E name \in Came : \A k \in Keys : ~ Fine(name, k)
                     \/ \E name, other \in Came : Twice(name, other)
  /\ refused = {} => \A name, other \in Came : ~ Twice(name, other)

Idle == phase = "read" => values = EmptyMap /\ refused = {}

\* What a read shows so far.
ShowsKey(k, s) == s = ShownAs(fields, k) /\ shown[s] = ShownValue(fields, k, raw[k])
ReadInv ==
  /\ \A k \in Read : ShownAs(fields, k) \in DOMAIN shown
  /\ \A k \in Read :
       (\A j \in DOMAIN raw : ShownAs(fields, j) = ShownAs(fields, k) => j = k) =>
         ShowsKey(k, ShownAs(fields, k))
  /\ \A s \in DOMAIN shown : \E k \in Read : ShowsKey(k, s)

CodecIInv == CodecTypeOK /\ Idle /\ ReadInv /\ EncodeInv /\ EncodeIsOrderFree

LEMMA PutDomain ==
  ASSUME NEW m, NEW k, NEW v
  PROVE  /\ DOMAIN Put(m, k, v) = DOMAIN m \cup {k}
         /\ Put(m, k, v)[k] = v
         /\ \A x \in DOMAIN m : x # k => Put(m, k, v)[x] = m[x]
  BY DEF Put

LEMMA PutTyped ==
  ASSUME NEW m, NEW S, NEW T, DOMAIN m \subseteq S, \A x \in DOMAIN m : m[x] \in T,
         NEW k \in S, NEW v \in T
  PROVE  DOMAIN Put(m, k, v) \subseteq S /\ \A x \in DOMAIN Put(m, k, v) : Put(m, k, v)[x] \in T
  BY DEF Put

\* A read puts strings before values.
LEMMA ShownTyped ==
  ASSUME fields \in Metas, raw \in Records, NEW k \in DOMAIN raw
  PROVE  ShownAs(fields, k) \in Strings /\ ShownValue(fields, k, raw[k]) \in Values
<1>1. k \in Keys /\ raw[k] \in Values
  BY RecordsAssumption
<1>2. CASE k \in DOMAIN fields
  BY <1>1, <1>2, FieldsAreGood, ValueTyped DEF ShownAs, ShownValue, GoodField, FieldInfo
<1>3. CASE k \notin DOMAIN fields
  BY <1>1, <1>3, AtomsAssumption DEF ShownAs, ShownValue
<1> QED
  BY <1>2, <1>3

LEMMA InitInv == CodecInit => CodecIInv
<1> SUFFICES ASSUME CodecInit PROVE CodecIInv
  OBVIOUS
<1>1. DOMAIN EmptyMap = {}
  BY DEF EmptyMap
<1> QED
  BY <1>1 DEF CodecInit, CodecIInv, CodecTypeOK, Idle, ReadInv, Read, EncodeInv, EncodeIsOrderFree

LEMMA TypeStep == CodecTypeOK /\ [CodecNext]_codecVars => CodecTypeOK'
<1> SUFFICES ASSUME CodecTypeOK, [CodecNext]_codecVars PROVE CodecTypeOK'
  OBVIOUS
<1> USE DEF CodecTypeOK
<1>1. ASSUME NEW k \in Keys, ResolveOne(k) PROVE CodecTypeOK'
  <2>1. /\ ShownAs(fields, k) \in Strings
        /\ ShownValue(fields, k, raw[k]) \in Values
    BY <1>1, ShownTyped DEF ResolveOne
  <2>2. /\ DOMAIN shown' \subseteq Strings
        /\ \A s \in DOMAIN shown' : shown'[s] \in Values
    <3>1. shown' = Put(shown, ShownAs(fields, k), ShownValue(fields, k, raw[k]))
      BY <1>1 DEF ResolveOne
    <3>2. DOMAIN shown \subseteq Strings /\ \A s \in DOMAIN shown : shown[s] \in Values
      OBVIOUS
    <3> QED
      BY ONLY <2>1, <3>1, <3>2, PutTyped
  <2> QED
    BY <1>1, <2>2 DEF ResolveOne
<1>2. ASSUME NEW w, Ask(w), DOMAIN w \subseteq Strings, \A s \in DOMAIN w : w[s] \in Values
      PROVE  CodecTypeOK'
  BY <1>2 DEF Ask
<1>3. ASSUME NEW w \in Writes, Ask(w) PROVE CodecTypeOK'
  BY <1>2, <1>3, WritesAssumption
<1>4. ASSUME Echo PROVE CodecTypeOK'
  BY <1>2, <1>4 DEF Echo
<1>5. ASSUME NEW name \in Strings, EncodeOne(name) PROVE CodecTypeOK'
  <2> DEFINE k == Target(fields, name)
  <2>1. FieldRefusal(fields, name) = "" =>
          k \in DOMAIN fields /\ fields[k].name \in Strings /\ GoodField(fields[k])
    BY WritableField, FieldsAreGood DEF GoodField, FieldInfo
  <2>2. wanted[name] \in Values
    BY <1>5 DEF EncodeOne
  <2> HIDE DEF k
  <2> DEFINE Whys == {"ambiguous", "built-in", "unknown", "read-only", "named twice", "value"}
  <2>3. ASSUME NEW field \in Strings, NEW why \in Whys,
               refused' = refused \cup {[field |-> field, why |-> why]}, UNCHANGED values
        PROVE  CodecTypeOK'
    <3>1. [field |-> field, why |-> why] \in [field : Strings, why : Whys]
      OBVIOUS
    <3> HIDE DEF Whys
    <3>2. refused' \subseteq [field : Strings, why : Whys]
      BY <2>3, <3>1 DEF Whys
    <3> QED
      BY <1>5, <2>3, <3>2 DEF EncodeOne, Whys
  <2>4. CASE RefuseField(name)
    <3>1. FieldRefusal(fields, name) \in Whys
      BY <2>4 DEF RefuseField, FieldRefusal
    <3> QED
      BY <2>3, <2>4, <3>1 DEF RefuseField
  <2>5. CASE RefuseTwice(name)
    BY <2>1, <2>3, <2>5 DEF RefuseTwice, k
  <2>6. CASE RefuseValue(name)
    BY <2>1, <2>3, <2>6 DEF RefuseValue, k
  <2>7. CASE Take(name)
    <3>1. Encoded(fields[k], wanted[name]) \in Values
      BY <2>1, <2>2, <2>7, ValueTyped DEF Take, Encodable, k
    <3>2. values' = Put(values, k, Encoded(fields[k], wanted[name])) /\ UNCHANGED refused
      BY <2>7 DEF Take, k
    <3>3. DOMAIN values' \subseteq DOMAIN fields /\ \A j \in DOMAIN values' : values'[j] \in Values
      <4>1. DOMAIN values \subseteq DOMAIN fields /\ \A j \in DOMAIN values : values[j] \in Values
        OBVIOUS
      <4>2. k \in DOMAIN fields
        BY <2>1, <2>7 DEF Take
      <4> QED
        BY ONLY <3>1, <3>2, <4>1, <4>2, PutTyped
    <3> QED
      BY <1>5, <3>2, <3>3 DEF EncodeOne
  <2> QED
    BY <1>5, <2>4, <2>5, <2>6, <2>7 DEF EncodeOne
<1>6. ASSUME Return PROVE CodecTypeOK'
  BY <1>6 DEF Return, EmptyMap
<1>7. ASSUME UNCHANGED codecVars PROVE CodecTypeOK'
  BY <1>7 DEF codecVars
<1> QED
  BY <1>1, <1>3, <1>4, <1>5, <1>6, <1>7 DEF CodecNext

\* One round of a read: its key shows, and only keys of its name can suffer.
LEMMA ReadRound ==
  ASSUME CodecTypeOK, ReadInv, NEW k, ResolveOne(k)
  PROVE  ReadInv'
<1> DEFINE n(j) == ShownAs(fields, j)
           v(j) == ShownValue(fields, j, raw[j])
<1>1. /\ phase = "read" /\ phase' = "read" /\ k \in todo /\ todo' = todo \ {k}
      /\ fields' = fields /\ raw' = raw
      /\ shown' = Put(shown, n(k), v(k))
  BY DEF ResolveOne
<1>2. k \in DOMAIN raw /\ Read' = Read \cup {k} /\ k \notin Read
  BY <1>1 DEF Read, CodecTypeOK
<1>3. /\ \A j : ShownAs(fields, j)' = n(j) /\ ShownValue(fields, j, raw[j])' = v(j)
      /\ \A j, s : ShowsKey(j, s)' <=> s = n(j) /\ shown'[s] = v(j)
      /\ \A j, s : ShowsKey(j, s) <=> s = n(j) /\ shown[s] = v(j)
  BY <1>1 DEF ShownAs, ShownValue, ShowsKey
<1>4. /\ DOMAIN shown' = DOMAIN shown \cup {n(k)}
      /\ shown'[n(k)] = v(k)
      /\ \A s \in DOMAIN shown : s # n(k) => shown'[s] = shown[s]
  <2> HIDE DEF n, v
  <2> QED
    BY ONLY <1>1 DEF Put
<1>5. /\ \A j \in Read : n(j) \in DOMAIN shown
      /\ \A j \in Read : (\A l \in DOMAIN raw : n(l) = n(j) => l = j) => shown[n(j)] = v(j)
      /\ \A s \in DOMAIN shown : \E j \in Read : s = n(j) /\ shown[s] = v(j)
  BY <1>3 DEF ReadInv
<1> HIDE DEF n, v
<1>6. \A j \in Read' : n(j) \in DOMAIN shown'
  BY <1>2, <1>4, <1>5
<1>7. ASSUME NEW j \in Read', \A l \in DOMAIN raw : n(l) = n(j) => l = j
      PROVE  shown'[n(j)] = v(j)
  <2>1. CASE j = k
    BY <1>4, <2>1
  <2>2. CASE j # k
    <3>1. j \in Read /\ n(j) # n(k)
      BY <1>2, <1>7, <2>2
    <3> QED
      BY <1>4, <1>5, <1>7, <3>1
  <2> QED
    BY <2>1, <2>2
<1>8. ASSUME NEW s \in DOMAIN shown'
      PROVE  \E j \in Read' : s = n(j) /\ shown'[s] = v(j)
  <2>1. CASE s = n(k)
    BY <1>2, <1>4, <2>1
  <2>2. CASE s # n(k)
    BY <1>2, <1>4, <1>5, <1>8, <2>2
  <2> QED
    BY <2>1, <2>2
<1> QED
  BY <1>1, <1>3, <1>6, <1>7, <1>8 DEF ReadInv, n

LEMMA ReadStep == CodecTypeOK /\ ReadInv /\ [CodecNext]_codecVars => ReadInv'
<1> SUFFICES ASSUME CodecTypeOK, ReadInv, [CodecNext]_codecVars PROVE ReadInv'
  OBVIOUS
<1>1. ASSUME UNCHANGED <<fields, raw, shown>>, Read' = Read PROVE ReadInv'
  BY <1>1 DEF ReadInv, ShowsKey, ShownAs, ShownValue
<1>2. ASSUME NEW k \in Keys, ResolveOne(k) PROVE ReadInv'
  BY <1>2, ReadRound
<1>3. ASSUME NEW w, Ask(w) PROVE ReadInv'
  BY <1>1, <1>3 DEF Ask, Read
<1>4. ASSUME NEW name \in Strings, EncodeOne(name) PROVE ReadInv'
  <2>1. UNCHANGED shown /\ UNCHANGED <<phase, fields, raw>> /\ phase # "read"
    BY <1>4 DEF EncodeOne
  <2> QED
    BY <1>1, <2>1 DEF Read
<1>5. ASSUME Return PROVE ReadInv'
  BY <1>1, <1>5 DEF Return, Read
<1>6. ASSUME UNCHANGED codecVars PROVE ReadInv'
  BY <1>1, <1>6 DEF codecVars, Read
<1> QED
  BY <1>2, <1>3, <1>4, <1>5, <1>6 DEF CodecNext, Echo

\* One round of a write.
LEMMA EncodeRound ==
  ASSUME CodecTypeOK, EncodeInv, NEW name, EncodeOne(name)
  PROVE  EncodeInv'
<1>1. /\ phase = "encode" /\ phase' = "encode" /\ name \in todo /\ todo' = todo \ {name}
      /\ fields' = fields /\ wanted' = wanted /\ fields \in Metas
  BY DEF EncodeOne, CodecTypeOK
<1>2. Came' = Came \cup {name} /\ name \notin Came
  BY <1>1 DEF Came, CodecTypeOK
<1>3. /\ \A n, k : Fine(n, k)' <=> Fine(n, k)
      /\ \A n, o : Twice(n, o)' <=> Twice(n, o)
  BY <1>1 DEF Fine, Denotes, Means, Twice
<1> DEFINE SentNow(n, k) ==
      k \in DOMAIN values' /\ Fine(n, k) /\ values'[k] = Encoded(fields[k], wanted[n])
<1>4. \A n, k : Sent(n, k)' <=> SentNow(n, k)
  BY <1>1, <1>3 DEF Sent
<1> DEFINE t == Target(fields, name)
<1>5. /\ FieldRefusal(fields, name) = "" => Denotes(name, t) /\ t \in Keys /\ fields[t].writable
      /\ \A k : Fine(name, k) => FieldRefusal(fields, name) = "" /\ t = k
  BY <1>1, WritableField, MetasAssumption DEF Fine
<1> HIDE DEF t
\* A round that refuses, and has whom to blame.
<1>6. ASSUME UNCHANGED values, refused' # {},
             \/ \A k \in Keys : ~ Fine(name, k)
             \/ \E o \in Came : Twice(name, o)
      PROVE  EncodeInv'
  <2>1. \A k \in DOMAIN values' : \E n \in Came' : Sent(n, k)'
    BY <1>1, <1>2, <1>4, <1>6 DEF EncodeInv, Sent
  <2>2. \/ \E n \in Came' : \A k \in Keys : ~ Fine(n, k)'
        \/ \E n, o \in Came' : Twice(n, o)'
    BY <1>2, <1>3, <1>6
  <2> QED
    BY <1>6, <2>1, <2>2 DEF EncodeInv
<1>7. CASE RefuseField(name)
  BY <1>5, <1>6, <1>7 DEF RefuseField
<1>8. CASE RefuseTwice(name)
  <2>1. t \in DOMAIN values /\ FieldRefusal(fields, name) = ""
    BY <1>8 DEF RefuseTwice, t
  <2>2. PICK o \in Came : Fine(o, t)
    BY <1>1, <2>1 DEF EncodeInv, Sent
  <2>3. (\A k \in Keys : ~ Fine(name, k)) \/ Twice(name, o)
    BY <1>2, <1>5, <2>1, <2>2 DEF Twice
  <2> QED
    BY <1>6, <1>8, <2>2, <2>3 DEF RefuseTwice
<1>9. CASE RefuseValue(name)
  <2>1. \A k : ~ Fine(name, k)
    BY <1>5, <1>9 DEF RefuseValue, Fine, t
  <2> QED
    BY <1>6, <1>9, <2>1 DEF RefuseValue
<1>10. CASE Take(name)
  <2>1. /\ t \notin DOMAIN values
        /\ values' = Put(values, t, Encoded(fields[t], wanted[name]))
        /\ refused' = refused
    BY <1>10 DEF Take, t
  <2>2. Fine(name, t) /\ t \in Keys
    BY <1>5, <1>10 DEF Take, Fine, t
  <2>3. /\ DOMAIN values' = DOMAIN values \cup {t}
        /\ values'[t] = Encoded(fields[t], wanted[name])
        /\ \A k \in DOMAIN values : values'[k] = values[k]
    BY ONLY <2>1 DEF Put
  <2>4. SentNow(name, t) /\ \A n, k : Sent(n, k) => SentNow(n, k)
    BY <2>2, <2>3 DEF Sent
  <2> HIDE DEF SentNow
  <2>5. refused' = {} => \A n \in Came' : \E k \in Keys : SentNow(n, k)
    <3>1. refused' = {} => \A n \in Came : \E k \in Keys : Sent(n, k)
      BY <1>1, <2>1 DEF EncodeInv
    <3> QED
      BY <1>2, <2>2, <2>4, <3>1
  <2>6. \A k \in DOMAIN values' : \E n \in Came' : SentNow(n, k)
    <3>1. \A k \in DOMAIN values : \E n \in Came : Sent(n, k)
      BY <1>1 DEF EncodeInv
    <3> QED
      BY <1>2, <2>3, <2>4, <3>1
  <2>7. refused' # {} => \/ \E n \in Came' : \A k \in Keys : ~ Fine(n, k)'
                         \/ \E n, o \in Came' : Twice(n, o)'
    BY <1>1, <1>2, <1>3, <2>1 DEF EncodeInv
  <2>8. ASSUME refused' = {}, NEW o \in Came PROVE ~ Twice(name, o) /\ ~ Twice(o, name)
    <3>1. PICK k \in Keys : Sent(o, k)
      BY <1>1, <2>1, <2>8 DEF EncodeInv
    <3>2. k # t
      BY <2>1, <3>1 DEF Sent
    <3> QED
      BY <1>1, <2>2, <3>1, <3>2, FineField DEF Twice, Sent
  <2>9. refused' = {} => \A n, o \in Came' : ~ Twice(n, o)'
    BY <1>1, <1>2, <1>3, <2>1, <2>8 DEF EncodeInv, Twice
  <2> QED
    BY <1>4, <2>5, <2>6, <2>7, <2>9 DEF EncodeInv
<1> QED
  BY <1>7, <1>8, <1>9, <1>10 DEF EncodeOne

\* And the last word.
LEMMA ReturnsTheMeaning ==
  ASSUME CodecTypeOK, EncodeInv, Return
  PROVE  EncodeIsOrderFree'
<1>1. /\ phase = "encode" /\ todo = {} /\ Came = DOMAIN wanted /\ fields \in Metas
      /\ fields' = fields /\ wanted' = wanted /\ refused' = refused
      /\ values' = IF refused = {} THEN values ELSE EmptyMap
  BY DEF Return, Came, CodecTypeOK
<1>2. \A n, k : Fine(n, k)' <=> Fine(n, k)
  BY <1>1 DEF Fine, Denotes, Means
<1>3. CASE refused = {}
  <2>1. \A n \in DOMAIN wanted : \E k \in Keys : Sent(n, k)
    BY <1>1, <1>3 DEF EncodeInv
  <2>2. \A n, o \in DOMAIN wanted, k \in Keys : Fine(n, k) /\ Fine(o, k) => n = o
    BY <1>1, <1>3 DEF EncodeInv, Twice
  <2>3. \A k \in DOMAIN values : \E n \in DOMAIN wanted : Fine(n, k)
    BY <1>1 DEF EncodeInv, Sent
  <2> QED
    BY <1>1, <1>2, <1>3, <2>1, <2>2, <2>3 DEF EncodeIsOrderFree, Sent
<1>4. CASE refused # {}
  <2>1. ~ (/\ \A n \in DOMAIN wanted : \E k \in Keys : Fine(n, k)
           /\ \A n, o \in DOMAIN wanted, k \in Keys : Fine(n, k) /\ Fine(o, k) => n = o)
    BY <1>1, <1>4 DEF EncodeInv, Twice
  <2> QED
    BY <1>1, <1>2, <1>4, <2>1 DEF EncodeIsOrderFree, EmptyMap
<1> QED
  BY <1>3, <1>4

LEMMA StepInv == CodecIInv /\ [CodecNext]_codecVars => CodecIInv'
<1> SUFFICES ASSUME CodecIInv, [CodecNext]_codecVars PROVE CodecIInv'
  OBVIOUS
<1>1. CodecTypeOK /\ Idle /\ ReadInv /\ EncodeInv /\ EncodeIsOrderFree
  BY DEF CodecIInv
<1>2. CodecTypeOK' /\ ReadInv'
  BY <1>1, TypeStep, ReadStep
<1>3. ASSUME NEW k, ResolveOne(k) PROVE Idle' /\ EncodeInv' /\ EncodeIsOrderFree'
  BY <1>1, <1>3 DEF ResolveOne, Idle, EncodeInv, EncodeIsOrderFree
<1>4. ASSUME NEW w, Ask(w) PROVE Idle' /\ EncodeInv' /\ EncodeIsOrderFree'
  <2>1. /\ phase' = "encode" /\ Came' = {} /\ refused' = {} /\ values' = EmptyMap
    BY <1>1, <1>4 DEF Ask, Idle, Came
  <2>2. DOMAIN values' = {}
    BY <2>1 DEF EmptyMap
  <2> QED
    BY <2>1, <2>2 DEF Idle, EncodeInv, EncodeIsOrderFree
<1>5. ASSUME NEW name, EncodeOne(name) PROVE Idle' /\ EncodeInv' /\ EncodeIsOrderFree'
  <2>1. phase' = "encode"
    BY <1>5 DEF EncodeOne
  <2> QED
    BY <1>1, <1>5, <2>1, EncodeRound DEF Idle, EncodeIsOrderFree
<1>6. ASSUME Return PROVE Idle' /\ EncodeInv' /\ EncodeIsOrderFree'
  <2>1. phase' = "done"
    BY <1>6 DEF Return
  <2> QED
    BY <1>1, <1>6, <2>1, ReturnsTheMeaning DEF Idle, EncodeInv
<1>7. ASSUME UNCHANGED codecVars PROVE Idle' /\ EncodeInv' /\ EncodeIsOrderFree'
  <2>1. /\ \A n, k : Fine(n, k)' <=> Fine(n, k)
        /\ \A n, k : Sent(n, k)' <=> Sent(n, k)
        /\ \A n, o : Twice(n, o)' <=> Twice(n, o)
    BY <1>7 DEF codecVars, Fine, Denotes, Means, Sent, Twice
  <2>2. Idle' /\ EncodeInv'
    BY <1>1, <1>7, <2>1 DEF codecVars, Idle, EncodeInv, Came
  <2>3. EncodeIsOrderFree'
    BY <1>1, <1>7, <2>1 DEF codecVars, EncodeIsOrderFree
  <2> QED
    BY <2>2, <2>3
<1> QED
  BY <1>2, <1>3, <1>4, <1>5, <1>6, <1>7 DEF CodecIInv, CodecNext, Echo

LEMMA CodecInvariance == CodecSpec => []CodecIInv
  BY InitInv, StepInv, PTL DEF CodecSpec

-----------------------------------------------------------------------------
\* A name that a read shows for a stored field is refused on a write, or means
\* that field.
LEMMA ShownNameMeansItsField ==
  ASSUME fields \in Metas, raw \in Records, NEW k \in DOMAIN raw, NEW j,
         Denotes(ShownAs(fields, k), j)
  PROVE  j = k /\ k \in DOMAIN fields
<1> DEFINE name == ShownAs(fields, k)
<1>1. /\ k \in Keys /\ j \in DOMAIN fields /\ j \in Keys /\ fields[j].custom
      /\ j = name \/ (name \notin DOMAIN fields /\ lower[fields[j].name] = lower[name])
  BY RecordsAssumption, MetasAssumption DEF Denotes, Means
<1>2. CASE k \notin DOMAIN fields
  <2>1. name = k
    BY <1>2 DEF ShownAs
  <2>2. lower[fields[j].name] # lower[k]
    BY <1>1, <1>2, HashAssumption
  <2> QED
    BY <1>1, <1>2, <2>1, <2>2
<1>3. CASE k \in DOMAIN fields
  <2>1. name = fields[k].name /\ fields[k].custom
    BY <1>3, StoredAssumption DEF ShownAs
  <2>2. name \notin DOMAIN fields
    <3> SUFFICES ASSUME name \in DOMAIN fields PROVE FALSE
      OBVIOUS
    <3>1. j = name /\ name \in Keys
      BY <1>1
    <3>2. ~ fields[name].custom
      BY <1>3, <2>1, <3>1, HashAssumption
    <3> QED
      BY <1>1, <3>1, <3>2
  <2>3. Means(name, k)
    BY <1>3, <2>1, <2>2 DEF Means
  <2> QED
    BY <1>1, <1>3, <2>3 DEF Denotes
<1> QED
  BY <1>2, <1>3

LEMMA EchoFollows == CodecTypeOK /\ ReadInv /\ EncodeIsOrderFree => EchoStoresTheSame
<1> SUFFICES ASSUME CodecTypeOK, ReadInv, EncodeIsOrderFree, phase = "done", wanted = shown,
                    NEW k \in DOMAIN values
             PROVE  k \in DOMAIN raw /\ values[k] = raw[k]
  BY DEF EchoStoresTheSame
<1>1. fields \in Metas /\ raw \in Records
  BY DEF CodecTypeOK
<1>2. refused = {}
  BY DEF EncodeIsOrderFree, EmptyMap
<1>3. PICK name \in DOMAIN wanted : Fine(name, k)
  BY <1>2 DEF EncodeIsOrderFree
<1>4. values[k] = Encoded(fields[k], shown[name])
  BY <1>1, <1>2, <1>3, FineField DEF EncodeIsOrderFree
<1>5. PICK j \in DOMAIN raw : ShowsKey(j, name)
  BY <1>3 DEF ReadInv, Read
<1>6. j = k /\ k \in DOMAIN fields
  BY <1>1, <1>3, <1>5, ShownNameMeansItsField DEF Fine, ShowsKey
<1>7. shown[name] = Label(fields[k], raw[k]) /\ Encodable(fields[k], shown[name])
  BY <1>3, <1>5, <1>6 DEF ShowsKey, ShownValue, Fine
<1>8. raw[k] \in Values /\ raw[k] # Null
  BY <1>1, <1>5, <1>6, <1>7, RecordsAssumption DEF Label, Encodable
<1>9. fields[k].options # <<>> => \A n \in DOMAIN raw[k].of : raw[k].of[n] \in Ids
  BY <1>1, <1>5, <1>6, <1>8, StoredAssumption
<1>10. GoodField(fields[k])
  BY <1>1, <1>6, FieldsAreGood
<1> QED
  BY <1>4, <1>5, <1>6, <1>7, <1>8, <1>9, <1>10, ValueRoundTrip

LEMMA ReadFollows == CodecTypeOK /\ ReadInv => ReadIsComplete
  BY DEF ReadInv, ReadIsComplete, Read, ShowsKey, CodecTypeOK

\* Every reachable state has the types CodecTypeOK gives it: what is sent is keyed by
\* fields of the entry, whatever the caller called them.
THEOREM CodecTyping == CodecSpec => []CodecTypeOK
  BY CodecInvariance, PTL DEF CodecIInv

\* Encode's outcome is the one D-23 describes, in whatever order Go ranges the map.
THEOREM OrderFree == CodecSpec => []EncodeIsOrderFree
  BY CodecInvariance, PTL DEF CodecIInv

\* Whatever the workspace and the record, sending a read back stores nothing new.
THEOREM HarmlessEcho == CodecSpec => []EchoStoresTheSame
<1>1. CodecIInv => EchoStoresTheSame
  BY EchoFollows DEF CodecIInv
<1> QED
  BY <1>1, CodecInvariance, PTL

\* Whatever the workspace and the record, a read shows all but what shares a name.
THEOREM CompleteRead == CodecSpec => []ReadIsComplete
<1>1. CodecIInv => ReadIsComplete
  BY ReadFollows DEF CodecIInv
<1> QED
  BY <1>1, CodecInvariance, PTL

-----------------------------------------------------------------------------
\* The cache.

Fetching(o) == pc[o] \in {"fetching", "building", "sealing"}

Untouched(e) == ~loaded[e] /\ ~err[e] /\ byKey[e] = "nil"

Settled(e) ==
  /\ loaded[e]
  /\ IF err[e] THEN byKey[e] = "nil" ELSE byKey[e] = "whole"

(***************************************************************************)
(* The life of an entry: whoever is inside once.Do is the one call in      *)
(* fetcher, and knows how far the entry has got.                           *)
(***************************************************************************)
OnceInv ==
  /\ OneFetchPerEntry
  /\ CountIsWhole
  /\ \A o \in Ops : Fetching(o) => once[ent[o]] = "running" /\ o \in fetcher[ent[o]]
  /\ \A e \in Entries : once[e] = "fresh" => fetcher[e] = {} /\ Untouched(e)
  /\ \A e \in Entries : once[e] = "done" => Settled(e)
  /\ \A e \in Entries : loaded[e] => Settled(e)
  /\ \A o \in Ops : pc[o] = "fetching" => Untouched(ent[o])
  /\ \A o \in Ops : pc[o] = "building" =>
       ~loaded[ent[o]] /\ ~err[ent[o]] /\ byKey[ent[o]] = "partial"
  /\ \A o \in Ops : pc[o] = "sealing" => loaded[ent[o]]
  /\ \A o \in Ops : pc[o] \in {"loaded", "count"} => once[ent[o]] = "done"

HoldsNoEntry(o) == pc[o] \in {"idle", "reload", "acquire"}

(***************************************************************************)
(* What refreshes leave behind: the active entry is younger than all of    *)
(* them, and an entry's fields are as new as every refresh before it asked *)
(* for.                                                                    *)
(***************************************************************************)
AgeInv ==
  /\ cur # Nil => Reloaded \subseteq older[cur]
  /\ \A e \in Entries : older[e] \subseteq Reloaded
  /\ \A e \in Entries : \A p \in older[e] : byKey[e] # "nil" => version[e] >= asked[p]
  /\ \A p \in Ops : asked[p] <= meta

(***************************************************************************)
(* A call holds an entry younger than the refreshes it follows, and its    *)
(* result is that entry's.                                                 *)
(***************************************************************************)
HoldInv ==
  /\ \A o \in Ops : \A p \in before[o] : pc[p] = "done"
  /\ \A o \in Ops : HoldsNoEntry(o) => ent[o] = Nil /\ result[o] = "none"
  /\ \A o \in Ops : pc[o] = "idle" => before[o] = {}
  /\ \A o \in Ops : \A p \in before[o] \cup {o} :
       (ent[o] # Nil /\ kind[p] = "refresh") => p \in older[ent[o]]
  /\ \A o \in Ops : result[o] \in {"fields", "failed"} => ent[o] # Nil
  /\ \A o \in Ops : result[o] = "fields" => byKey[ent[o]] # "nil"

RefreshInv == AgeInv /\ HoldInv

IInv == TypeOK /\ OnceInv /\ RefreshInv

USE NilAssumption, MaxMetaAssumption

-----------------------------------------------------------------------------
(***************************************************************************)
(* Typing.                                                                 *)
(***************************************************************************)
LEMMA InitTypeOK == Init => TypeOK
BY DEF Init, TypeOK, Kinds

LEMMA NextTypeOK == TypeOK /\ [Next]_vars => TypeOK'
<1> SUFFICES ASSUME TypeOK, [Next]_vars PROVE TypeOK'
  OBVIOUS
<1> USE DEF TypeOK, Goto, cacheVars, opVars, pastVars
<1>1. ASSUME NEW o \in Ops, Work(o) PROVE TypeOK'
  <2>1. CASE Reload(o)
    BY <2>1 DEF Reload
  <2>2. CASE CurrentEntry(o)
    BY <2>2, SMTT(30) DEF CurrentEntry, Unused, Reloaded
  <2>3. CASE EnterOnce(o)
    BY <2>3 DEF EnterOnce
  <2>4. CASE PassOnce(o)
    BY <2>4 DEF PassOnce
  <2>5. CASE FetchAnswers(o)
    BY <2>5 DEF FetchAnswers
  <2>6. CASE FinishBuild(o)
    BY <2>6 DEF FinishBuild
  <2>7. CASE FetchFails(o)
    BY <2>7 DEF FetchFails
  <2>8. CASE SealOnce(o)
    BY <2>8 DEF SealOnce
  <2>9. CASE Answer(o)
    BY <2>9 DEF Answer
  <2>10. CASE Count(o)
    BY <2>10 DEF Count, CountOf
  <2> QED
    BY <1>1, <2>1, <2>2, <2>3, <2>4, <2>5, <2>6, <2>7, <2>8, <2>9, <2>10 DEF Work
<1>2. ASSUME NEW o \in Ops, NEW k \in Kinds, Begin(o, k) PROVE TypeOK'
  <2>1. pc' \in [Ops -> {"idle", "reload", "acquire", "load", "fetching", "building",
                         "sealing", "loaded", "count", "done"}]
    BY <1>2 DEF Begin
  <2>2. result' \in [Ops -> {"none", "fields", "failed", "empty"}]
    BY <1>2 DEF Begin
  <2>3. kind' \in [Ops -> Kinds] /\ before' \in [Ops -> SUBSET Ops]
    BY <1>2 DEF Begin
  <2>4. \A p \in Ops : pc'[p] = pc[p] \/ pc'[p] \in {"reload", "acquire", "done"}
    BY <1>2 DEF Begin
  <2> QED
    BY <1>2, <2>1, <2>2, <2>3, <2>4 DEF Begin
<1>3. CASE FieldsChange
  BY <1>3 DEF FieldsChange
<1>4. CASE UNCHANGED vars
  BY <1>4 DEF vars
<1> QED
  BY <1>1, <1>2, <1>3, <1>4 DEF Next

\* Past currentEntry a call never holds a nil *cacheEntry (fieldcache.go,
\* currentEntry).
THEOREM Typing == Spec => []TypeOK
BY InitTypeOK, NextTypeOK, PTL DEF Spec

-----------------------------------------------------------------------------
(***************************************************************************)
(* The sync.Once.                                                          *)
(***************************************************************************)
LEMMA InitOnceInv == Init => OnceInv
BY DEF Init, OnceInv, OneFetchPerEntry, CountIsWhole, Fetching, Untouched

LEMMA NextOnceInv == TypeOK /\ OnceInv /\ [Next]_vars => OnceInv'
<1> SUFFICES ASSUME TypeOK, OnceInv, [Next]_vars PROVE OnceInv'
  OBVIOUS
<1> USE DEF TypeOK, OnceInv, OneFetchPerEntry, CountIsWhole, Fetching,
            Untouched, Settled, Goto, cacheVars, opVars, pastVars
<1>1. ASSUME NEW o \in Ops, Work(o) PROVE OnceInv'
  <2>1. CASE Reload(o)
    BY <2>1 DEF Reload
  <2>2. CASE CurrentEntry(o)
    BY <2>2 DEF CurrentEntry, Unused
  <2>3. CASE EnterOnce(o)
    BY <2>3 DEF EnterOnce
  <2>4. CASE PassOnce(o)
    BY <2>4 DEF PassOnce
  <2>5. CASE FetchAnswers(o)
    BY <2>5 DEF FetchAnswers
  <2>6. CASE FinishBuild(o)
    BY <2>6 DEF FinishBuild
  <2>7. CASE FetchFails(o)
    BY <2>7 DEF FetchFails
  <2>8. CASE SealOnce(o)
    BY <2>8 DEF SealOnce
  <2>9. CASE Answer(o)
    BY <2>9 DEF Answer
  <2>10. CASE Count(o)
    BY <2>10 DEF Count, CountOf
  <2> QED
    BY <1>1, <2>1, <2>2, <2>3, <2>4, <2>5, <2>6, <2>7, <2>8, <2>9, <2>10 DEF Work
<1>2. ASSUME NEW o \in Ops, NEW k \in Kinds, Begin(o, k) PROVE OnceInv'
  BY <1>2 DEF Begin
<1>3. CASE FieldsChange
  BY <1>3 DEF FieldsChange
<1>4. CASE UNCHANGED vars
  BY <1>4 DEF vars
<1> QED
  BY <1>1, <1>2, <1>3, <1>4 DEF Next

\* Two calls never fetch for the same entry (FieldCache: "concurrent
\* first-callers see one fetch").
THEOREM OneFetch == Spec => []OneFetchPerEntry
<1>1. OnceInv => OneFetchPerEntry
  BY DEF OnceInv
<1> QED
  BY <1>1, InitTypeOK, NextTypeOK, InitOnceInv, NextOnceInv, PTL DEF Spec

\* A call past once.Do reads an error or a whole map, whatever refreshes and
\* counts go on around it (cacheEntry's comment; Count's).
THEOREM WholeReads == Spec => []NoTornRead
<1>1. TypeOK /\ OnceInv => NoTornRead
  BY DEF TypeOK, OnceInv, Settled, NoTornRead
<1> QED
  BY <1>1, InitTypeOK, NextTypeOK, InitOnceInv, NextOnceInv, PTL DEF Spec

\* A refresh reports a whole cache or none, whichever entry is active by
\* then (fieldcache.go, Count).
THEOREM WholeCounts == Spec => []CountIsWhole
<1>1. OnceInv => CountIsWhole
  BY DEF OnceInv
<1> QED
  BY <1>1, InitTypeOK, NextTypeOK, InitOnceInv, NextOnceInv, PTL DEF Spec

\* What a loaded entry holds is never written again (cacheEntry: "later
\* readers observe stable values").
THEOREM Settles == Spec => EntrySettles
<1>1. TypeOK /\ OnceInv /\ [Next]_vars =>
        [\A e \in Entries : loaded[e] =>
           <<byKey[e], err[e], version[e], loaded[e]>>'
             = <<byKey[e], err[e], version[e], loaded[e]>>]_vars
  <2> SUFFICES ASSUME TypeOK, OnceInv, [Next]_vars, NEW e \in Entries, loaded[e]
               PROVE  /\ byKey'[e] = byKey[e] /\ err'[e] = err[e]
                      /\ version'[e] = version[e] /\ loaded'[e] = loaded[e]
    OBVIOUS
  <2> USE DEF TypeOK, OnceInv, Untouched, Goto
  <2>1. ASSUME NEW o \in Ops, FetchAnswers(o) \/ FinishBuild(o) \/ FetchFails(o)
        PROVE  /\ byKey'[e] = byKey[e] /\ err'[e] = err[e]
               /\ version'[e] = version[e] /\ loaded'[e] = loaded[e]
    <3>1. e # ent[o]
      BY <2>1 DEF FetchAnswers, FinishBuild, FetchFails
    <3> QED
      <4>1. CASE FetchAnswers(o)
        BY <3>1, <4>1 DEF FetchAnswers
      <4>2. CASE FinishBuild(o)
        BY <3>1, <4>2 DEF FinishBuild
      <4>3. CASE FetchFails(o)
        BY <3>1, <4>3 DEF FetchFails
      <4> QED
        BY <2>1, <4>1, <4>2, <4>3
  <2>2. CASE UNCHANGED <<byKey, err, version, loaded>>
    BY <2>2
  <2> QED
    BY <2>1, <2>2
    DEF Next, Work, Begin, Reload, CurrentEntry, EnterOnce, PassOnce, SealOnce,
        Answer, Count, FieldsChange, vars, cacheVars
<1> QED
  BY <1>1, InitTypeOK, NextTypeOK, InitOnceInv, NextOnceInv, PTL
  DEF Spec, EntrySettles
-----------------------------------------------------------------------------
(***************************************************************************)
(* Refreshes.                                                              *)
(***************************************************************************)
LEMMA InitRefreshInv == Init => RefreshInv
BY DEF Init, RefreshInv, AgeInv, HoldInv, Reloaded, HoldsNoEntry

LEMMA NextRefreshInv == IInv /\ [Next]_vars => RefreshInv'
<1> SUFFICES ASSUME IInv, [Next]_vars PROVE RefreshInv'
  OBVIOUS
<1> USE DEF IInv, TypeOK, RefreshInv, AgeInv, HoldInv, Reloaded, HoldsNoEntry,
            Goto, cacheVars, opVars, pastVars
<1>1. ASSUME NEW o \in Ops, Work(o) PROVE RefreshInv'
  <2>1. CASE Reload(o)
    BY <2>1 DEF Reload
  <2>2. CASE CurrentEntry(o)
    <3>1. CASE cur # Nil
      <4>1. Reloaded' = Reloaded
        BY <2>2 DEF CurrentEntry
      <4>2. \A p \in before[o] \cup {o} : kind[p] = "refresh" => p \in older[cur]
        <5> SUFFICES ASSUME NEW p \in before[o] \cup {o}, kind[p] = "refresh"
                     PROVE  p \in older[cur]
          OBVIOUS
        <5>1. p \in Ops /\ pc[p] \in {"done", "acquire"}
          BY <2>2 DEF CurrentEntry
        <5>2. p \in Reloaded
          BY <5>1
        <5> QED
          BY <3>1, <5>2
      <4>3. AgeInv'
        BY <2>2, <3>1, <4>1 DEF CurrentEntry
      <4>4. /\ pc[o] = "acquire" /\ pc' = [pc EXCEPT ![o] = "load"]
            /\ ent' = [ent EXCEPT ![o] = cur]
            /\ UNCHANGED <<older, kind, result, before, byKey>>
        BY <2>2, <3>1 DEF CurrentEntry
      <4>5. HoldInv'
        BY <4>2, <4>4
      <4> QED
        BY <4>3, <4>5
    <3>2. CASE cur = Nil
      <4>1. PICK e \in Unused :
              /\ cur' = e /\ ent' = [ent EXCEPT ![o] = e]
              /\ older' = [older EXCEPT ![e] = Reloaded]
        BY <2>2, <3>2 DEF CurrentEntry
      <4>2. e \in Entries /\ byKey[e] = "nil" /\ \A p \in Ops : ent[p] # e
        BY <4>1 DEF Unused, OnceInv, Untouched
      <4>3. Reloaded' = Reloaded
        BY <2>2 DEF CurrentEntry
      <4>4. AgeInv'
        BY <2>2, <4>1, <4>2, <4>3 DEF CurrentEntry
      <4>5. HoldInv'
        BY <2>2, <4>1, <4>2 DEF CurrentEntry
      <4> QED
        BY <4>4, <4>5
    <3> QED
      BY <3>1, <3>2
  <2>3. CASE EnterOnce(o)
    BY <2>3 DEF EnterOnce
  <2>4. CASE PassOnce(o)
    BY <2>4 DEF PassOnce
  <2>5. CASE FetchAnswers(o)
    BY <2>5 DEF FetchAnswers
  <2>6. CASE FinishBuild(o)
    BY <2>6 DEF FinishBuild, OnceInv
  <2>7. CASE FetchFails(o)
    BY <2>7 DEF FetchFails
  <2>8. CASE SealOnce(o)
    BY <2>8 DEF SealOnce
  <2>9. CASE Answer(o)
    BY <2>9 DEF Answer, OnceInv, Settled
  <2>10. CASE Count(o)
    BY <2>10 DEF Count, CountOf
  <2> QED
    BY <1>1, <2>1, <2>2, <2>3, <2>4, <2>5, <2>6, <2>7, <2>8, <2>9, <2>10 DEF Work
<1>2. ASSUME NEW o \in Ops, NEW k \in Kinds, Begin(o, k) PROVE RefreshInv'
  BY <1>2 DEF Begin, Kinds
<1>3. CASE FieldsChange
  BY <1>3 DEF FieldsChange
<1>4. CASE UNCHANGED vars
  BY <1>4 DEF vars
<1> QED
  BY <1>1, <1>2, <1>3, <1>4 DEF Next

LEMMA Invariance == Spec => []IInv
<1>1. Init => IInv
  BY InitTypeOK, InitOnceInv, InitRefreshInv DEF IInv
<1>2. IInv /\ [Next]_vars => IInv'
  BY NextTypeOK, NextOnceInv, NextRefreshInv DEF IInv
<1> QED
  BY <1>1, <1>2, PTL DEF Spec

\* After a refresh returns nobody who comes later is shown fields older than
\* it asked for, or the error of a fetch that it has cleared, in-flight
\* fetches of the dropped entry notwithstanding (fieldcache.go, Reload).
THEOREM RefreshSeen == Spec => []RefreshIsSeen
<1>1. IInv => FieldsAreRefreshed
  <2> SUFFICES ASSUME IInv, NEW o \in Ops, NEW p \in before[o] \cup {o},
                      kind[p] = "refresh", result[o] = "fields"
               PROVE  version[ent[o]] >= asked[p]
    BY DEF FieldsAreRefreshed
  <2>1. ent[o] \in Entries /\ byKey[ent[o]] # "nil"
    BY DEF IInv, TypeOK, RefreshInv, HoldInv
  <2>2. p \in older[ent[o]]
    BY <2>1 DEF IInv, RefreshInv, HoldInv
  <2> QED
    BY <2>1, <2>2 DEF IInv, RefreshInv, AgeInv
<1>2. IInv => ErrorsAreForgotten
  BY DEF IInv, RefreshInv, HoldInv, ErrorsAreForgotten
<1>3. IInv => RefreshIsSeen
  BY <1>1, <1>2 DEF RefreshIsSeen
<1> QED
  BY <1>3, Invariance, PTL
================================================================================
