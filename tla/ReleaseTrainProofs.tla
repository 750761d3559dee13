--------------------------- MODULE ReleaseTrainProofs ---------------------------
(***************************************************************************)
(* Proofs about Surface and ReleaseTrain for any tools, fields, pull       *)
(* requests and changes, and any number of releases: the comparison is     *)
(* sound, and what the gates ask of each branch adds up over the branches  *)
(* between two releases.                                                   *)
(*                                                                         *)
(* The comparison is of two surfaces, a release is many merges away, and   *)
(* main may have moved under a branch.  So the argument is of one side of  *)
(* a tool at a time: Kept, that a side breaks nothing of an earlier one,   *)
(* is what three-way merges preserve (InputStep, OutputStep) and what      *)
(* CallerBroken denies (KeptIsSafe).                                       *)
(***************************************************************************)
EXTENDS ReleaseTrain, TLAPS

-----------------------------------------------------------------------------
\* The comparison is sound.

LEMMA TypesCarry ==
  ASSUME NEW wide, NEW narrow, Cover(wide, narrow), NEW v, TypesOf(v) \cap narrow # {}
  PROVE  TypesOf(v) \cap wide # {}
<1>1. CASE v = "integer"
  BY <1>1 DEF Cover, TypesOf
<1>2. CASE v # "integer"
  <2>1. "integer" \notin TypesOf(v)
    BY <1>2 DEF TypesOf
  <2> QED
    BY <2>1 DEF Cover
<1> QED
  BY <1>1, <1>2

\* A document names the field each of its fields sits in.
LEMMA DocumentsClosed ==
  ASSUME NEW d \in Documents
  PROVE  /\ DOMAIN d \subseteq Paths
         /\ \A f \in DOMAIN d : Parent[f] # "" => Parent[f] \in DOMAIN d
BY DEF Documents

\* Fields that are all missing from s sit in one whose parent is there.
LEMMA Outermost ==
  ASSUME NEW s, NEW S \in SUBSET Paths, S # {}, \A f \in S : ~Has(s, f),
         NEW P, S \subseteq P, \A f \in P : Parent[f] = "" \/ Parent[f] \in P,
         \A f \in P : Has(s, f) \/ f \in S
  PROVE  \E f \in S : ParentIn(s, f)
<1>1. PICK f \in S : Parent[f] \notin S
  BY PathsAssumption
<1> QED
  BY <1>1 DEF ParentIn

LEMMA InputsSound ==
  ASSUME NEW was, NEW now, NEW d \in Documents, Admits(was, d),
         SideBreaks(was, now, "input") = {}, NewlyRequired(was, now) = {},
         \A f \in DOMAIN was.fields :
           Has(now, f) /\ was.fields[f].enum = Unlisted => now.fields[f].enum = Unlisted
  PROVE  Admits(now, d)
<1>1. DOMAIN d \subseteq DOMAIN was.fields /\ Complete(was, d)
  BY DEF Admits
<1>2. DOMAIN d \subseteq DOMAIN now.fields
  <2> DEFINE S == {f \in DOMAIN d : ~Has(now, f)}
  <2>1. ASSUME S # {} PROVE FALSE
    <3>1. \E f \in S : ParentIn(now, f)
      BY <2>1, Outermost, DocumentsClosed
    <3> QED
      BY <3>1, <1>1 DEF SideBreaks, Has
  <2> QED
    BY <2>1 DEF Has
<1>3. ASSUME NEW f \in DOMAIN d PROVE Fits(now.fields[f], d[f])
  <2>1. Fits(was.fields[f], d[f]) /\ f \in DOMAIN was.fields /\ Has(now, f)
    BY <1>1, <1>2 DEF Admits, Has
  <2>2. Cover(now.fields[f].types, was.fields[f].types)
    BY <2>1 DEF SideBreaks, TypeBreaks
  <2>3. TypesOf(d[f]) \cap now.fields[f].types # {}
    BY <2>1, <2>2, TypesCarry DEF Fits
  <2>4. now.fields[f].enum # Unlisted => was.fields[f].enum \subseteq now.fields[f].enum
    BY <2>1 DEF SideBreaks
  <2> QED
    BY <2>1, <2>3, <2>4 DEF Fits
<1>4. Complete(now, d)
  <2> SUFFICES ASSUME NEW f \in now.required, Parent[f] = "" \/ Parent[f] \in DOMAIN d,
                      f \notin was.required
               PROVE  FALSE
    BY <1>1 DEF Complete
  <2>1. ParentIn(was, f)
    BY <1>1 DEF ParentIn, Has
  <2> QED
    BY <2>1 DEF NewlyRequired
<1> QED
  BY <1>2, <1>3, <1>4 DEF Admits

LEMMA OutputsSound ==
  ASSUME NEW was, NEW now, NEW d \in Documents, Admits(now, d),
         was.required \subseteq DOMAIN was.fields,
         SideBreaks(was, now, "output") = {},
         \A f \in DOMAIN was.fields : Has(now, f) /\ was.fields[f].enum # Unlisted =>
           now.fields[f].enum # Unlisted /\ now.fields[f].enum \subseteq was.fields[f].enum
  PROVE  Expects(was, d)
<1>1. DOMAIN d \subseteq DOMAIN now.fields /\ Complete(now, d)
  BY DEF Admits
<1>2. ASSUME NEW f \in DOMAIN d \cap DOMAIN was.fields PROVE Fits(was.fields[f], d[f])
  <2>1. Fits(now.fields[f], d[f]) /\ Has(now, f)
    BY <1>1 DEF Admits, Has
  <2>2. Cover(was.fields[f].types, now.fields[f].types)
    BY <2>1 DEF SideBreaks, TypeBreaks
  <2>3. TypesOf(d[f]) \cap was.fields[f].types # {}
    BY <2>1, <2>2, TypesCarry DEF Fits
  <2>4. was.fields[f].enum # Unlisted =>
          now.fields[f].enum # Unlisted /\ now.fields[f].enum \subseteq was.fields[f].enum
    BY <2>1
  <2> QED
    BY <2>1, <2>3, <2>4 DEF Fits
<1>3. Complete(was, d)
  <2> SUFFICES ASSUME NEW f \in was.required, Parent[f] = "" \/ Parent[f] \in DOMAIN d,
                      f \notin now.required
               PROVE  FALSE
    BY <1>1 DEF Complete
  <2>1. f \in DOMAIN was.fields /\ ParentIn(now, f)
    BY <1>1 DEF ParentIn, Has
  <2>2. f \in SideBreaks(was, now, "output")
    BY <2>1 DEF SideBreaks, Has
  <2> QED
    BY <2>2
<1> QED
  BY <1>2, <1>3 DEF Expects

LEMMA Comparison ==
  ASSUME NEW was, NEW now, Formed(was)
  PROVE  Sound(was, now)
<1> SUFFICES ASSUME BrokenFields(was, now) = {}, ValueNotes(was, now) = {}, NEW d \in Documents
             PROVE  /\ Admits(was.inputs, d) => Admits(now.inputs, d)
                    /\ Admits(now.outputs, d) => Expects(was.outputs, d)
  BY DEF Sound, CallerBroken
<1>1. /\ SideBreaks(was.inputs, now.inputs, "input") = {}
      /\ NewlyRequired(was.inputs, now.inputs) = {}
      /\ SideBreaks(was.outputs, now.outputs, "output") = {}
  <2>1. ASSUME NEW f \in SideBreaks(was.inputs, now.inputs, "input")
                         \cup NewlyRequired(was.inputs, now.inputs)
        PROVE  <<"input", f>> \in BrokenFields(was, now)
    BY DEF BrokenFields
  <2>2. ASSUME NEW f \in SideBreaks(was.outputs, now.outputs, "output")
        PROVE  <<"output", f>> \in BrokenFields(was, now)
    BY DEF BrokenFields
  <2> QED
    BY <2>1, <2>2
<1>2. ASSUME NEW f \in DOMAIN was.inputs.fields, Has(now.inputs, f),
             was.inputs.fields[f].enum = Unlisted, now.inputs.fields[f].enum # Unlisted
      PROVE  FALSE
  <2>1. <<"input", f>> \in ValueNotes(was, now)
    BY <1>2 DEF ValueNotes
  <2> QED
    BY <2>1
<1>3. ASSUME NEW f \in DOMAIN was.outputs.fields, Has(now.outputs, f),
             was.outputs.fields[f].enum # Unlisted,
             \/ now.outputs.fields[f].enum = Unlisted
             \/ ~(now.outputs.fields[f].enum \subseteq was.outputs.fields[f].enum)
      PROVE  FALSE
  <2>1. <<"output", f>> \in ValueNotes(was, now)
    BY <1>3 DEF ValueNotes
  <2> QED
    BY <2>1
<1>4. Admits(was.inputs, d) => Admits(now.inputs, d)
  BY <1>1, <1>2, InputsSound
<1>5. Admits(now.outputs, d) => Expects(was.outputs, d)
  BY <1>1, <1>3, OutputsSound DEF Formed, Walked
<1> QED
  BY <1>4, <1>5

-----------------------------------------------------------------------------
\* One side of a tool, over several comparisons.

\* What now leaves as was had it, lists of values aside.
KeptInputs(was, now) ==
  /\ \A f \in DOMAIN was.fields :
       Has(now, f) /\ Cover(now.fields[f].types, was.fields[f].types)
  /\ NewlyRequired(was, now) = {}
KeptOutputs(was, now) ==
  /\ \A f \in DOMAIN was.fields :
       Has(now, f) /\ Cover(was.fields[f].types, now.fields[f].types)
  /\ was.required \subseteq now.required
Kept(was, now) == KeptInputs(was.inputs, now.inputs) /\ KeptOutputs(was.outputs, now.outputs)

LEMMA CoverSteps ==
  ASSUME NEW a, NEW b, NEW c, Cover(a, b), Cover(b, c)
  PROVE  Cover(a, c)
BY DEF Cover

LEMMA KeptSelf ==
  ASSUME NEW tool
  PROVE  Kept(tool, tool)
BY DEF Kept, KeptInputs, KeptOutputs, Has, Cover, NewlyRequired

InputBreaks(was, now) == SideBreaks(was, now, "input") \cup NewlyRequired(was, now)
OutputBreaks(was, now) == SideBreaks(was, now, "output")

\* If base keeps a release's inputs, and head breaks no input of the base that
\* it breaks of the release, head keeps them too.
LEMMA InputStep ==
  ASSUME NEW rel, Walked(rel), NEW base, NEW head, KeptInputs(rel, base),
         \A f : ~(f \in InputBreaks(base, head) /\ f \in InputBreaks(rel, head))
  PROVE  KeptInputs(rel, head)
<1>1. ASSUME NEW f \in DOMAIN rel.fields PROVE Has(head, f)
  <2> DEFINE S == {g \in DOMAIN rel.fields : ~Has(head, g)}
  <2>1. ASSUME S # {} PROVE FALSE
    <3>1. PICK g \in S : ParentIn(head, g)
      BY <2>1, Outermost DEF Walked, ParentIn, Has
    <3>2. g \in SideBreaks(rel, head, "input") /\ g \in SideBreaks(base, head, "input")
      BY <3>1 DEF SideBreaks, KeptInputs, Has
    <3> QED
      BY <3>2 DEF InputBreaks
  <2> QED
    BY <2>1
<1>2. ASSUME NEW f \in DOMAIN rel.fields, ~Cover(head.fields[f].types, rel.fields[f].types)
      PROVE  FALSE
  <2>1. Has(base, f) /\ ~Cover(head.fields[f].types, base.fields[f].types)
    BY <1>2, CoverSteps DEF KeptInputs
  <2>2. f \in SideBreaks(rel, head, "input") /\ f \in SideBreaks(base, head, "input")
    BY <1>1, <1>2, <2>1 DEF SideBreaks, TypeBreaks, Has
  <2> QED
    BY <2>2 DEF InputBreaks
<1>3. ASSUME NEW f \in NewlyRequired(rel, head) PROVE FALSE
  <2>1. f \in NewlyRequired(base, head)
    BY <1>3 DEF KeptInputs, NewlyRequired, ParentIn, Has
  <2> QED
    BY <1>3, <2>1 DEF InputBreaks
<1> QED
  BY <1>1, <1>2, <1>3 DEF KeptInputs

LEMMA OutputStep ==
  ASSUME NEW rel, Walked(rel), NEW base, NEW head, KeptOutputs(rel, base),
         \A f : ~(f \in OutputBreaks(base, head) /\ f \in OutputBreaks(rel, head))
  PROVE  KeptOutputs(rel, head)
<1> USE DEF OutputBreaks
<1>1. ASSUME NEW f \in DOMAIN rel.fields PROVE Has(head, f)
  <2> DEFINE S == {g \in DOMAIN rel.fields : ~Has(head, g)}
  <2>1. ASSUME S # {} PROVE FALSE
    <3>1. PICK g \in S : ParentIn(head, g)
      BY <2>1, Outermost DEF Walked, ParentIn, Has
    <3>2. g \in SideBreaks(rel, head, "output") /\ g \in SideBreaks(base, head, "output")
      BY <3>1 DEF SideBreaks, KeptOutputs, Has
    <3> QED
      BY <3>2
  <2> QED
    BY <2>1
<1>2. ASSUME NEW f \in DOMAIN rel.fields, ~Cover(rel.fields[f].types, head.fields[f].types)
      PROVE  FALSE
  <2>1. Has(base, f) /\ ~Cover(base.fields[f].types, head.fields[f].types)
    BY <1>2, CoverSteps DEF KeptOutputs
  <2>2. f \in SideBreaks(rel, head, "output") /\ f \in SideBreaks(base, head, "output")
    BY <1>1, <1>2, <2>1 DEF SideBreaks, TypeBreaks, Has
  <2> QED
    BY <2>2
<1>3. ASSUME NEW f \in rel.required, f \notin head.required PROVE FALSE
  <2>1. f \in DOMAIN rel.fields /\ Has(head, f) /\ Has(base, f) /\ f \in base.required
    BY <1>1, <1>3 DEF Walked, KeptOutputs
  <2>2. f \in SideBreaks(rel, head, "output") /\ f \in SideBreaks(base, head, "output")
    BY <1>3, <2>1 DEF SideBreaks, Has
  <2> QED
    BY <2>2
<1> QED
  BY <1>1, <1>2, <1>3 DEF KeptOutputs

\* A tool that is kept breaks no caller, lists of values aside.
LEMMA KeptIsSafe ==
  ASSUME NEW was, NEW now, Formed(was), Kept(was, now)
  PROVE  ~CallerBroken(WithoutLists(was), WithoutLists(now))
<1> DEFINE a == Unrestricted(was.inputs)
           b == Unrestricted(now.inputs)
           m == Unrestricted(was.outputs)
           n == Unrestricted(now.outputs)
<1>1. /\ WithoutLists(was).inputs = a /\ WithoutLists(now).inputs = b
      /\ WithoutLists(was).outputs = m /\ WithoutLists(now).outputs = n
  BY DEF WithoutLists
<1>2. SideBreaks(a, b, "input") = {} /\ NewlyRequired(a, b) = {}
  BY DEF Kept, KeptInputs, Unrestricted, SideBreaks, TypeBreaks, NewlyRequired, Has, ParentIn
<1>3. SideBreaks(m, n, "output") = {} /\ m.required \subseteq DOMAIN m.fields
  BY DEF Kept, KeptOutputs, Unrestricted, SideBreaks, TypeBreaks, Has, Formed, Walked
<1>4. /\ \A f \in DOMAIN a.fields : a.fields[f].enum = Unlisted
      /\ \A f \in DOMAIN b.fields : b.fields[f].enum = Unlisted
      /\ \A f \in DOMAIN m.fields : m.fields[f].enum = Unlisted
  BY DEF Unrestricted
<1> HIDE DEF a, b, m, n
<1>5. ASSUME NEW d \in Documents
      PROVE  (Admits(a, d) => Admits(b, d)) /\ (Admits(n, d) => Expects(m, d))
  BY <1>2, <1>3, <1>4, InputsSound, OutputsSound DEF Has
<1> QED
  BY <1>1, <1>5 DEF CallerBroken

-----------------------------------------------------------------------------
\* One merge.

\* What is merged is well formed, as its parts are.
LEMMA MergedFormed ==
  ASSUME NEW base, NEW ours, NEW theirs, IsSurface(ours), IsSurface(theirs),
         ~Conflict(base, ours, theirs) \/ ~Conflict(base, theirs, ours)
  PROVE  IsSurface(Merged(base, ours, theirs))
<1> DEFINE m == Merged(base, ours, theirs)
<1>1. ASSUME NEW i \in DOMAIN m PROVE i \in Items /\ Formed(m[i])
  <2>1. /\ i \in Items /\ m[i] = MergeItem(base, ours, theirs, i)
        /\ IF SameItem(base, theirs, i) THEN i \in DOMAIN ours ELSE i \in DOMAIN theirs
    BY DEF Merged
  <2>2. CASE SameItem(base, theirs, i)
    BY <2>1, <2>2 DEF MergeItem, IsSurface
  <2>3. CASE ~SameItem(base, theirs, i) /\ (SameItem(base, ours, i) \/ i \notin DOMAIN base)
    BY <2>1, <2>3 DEF MergeItem, IsSurface
  <2>4. CASE ~SameItem(base, theirs, i) /\ ~SameItem(base, ours, i) /\ i \in DOMAIN base
    <3>1. i \in DOMAIN ours /\ i \in DOMAIN theirs
      BY <2>1, <2>4 DEF Conflict, SameItem
    <3>2. Formed(ours[i]) /\ Formed(theirs[i])
      BY <3>1 DEF IsSurface
    <3>3. m[i].inputs \in {ours[i].inputs, theirs[i].inputs}
          /\ m[i].outputs \in {ours[i].outputs, theirs[i].outputs}
      BY <2>1, <2>4 DEF MergeItem, Part
    <3> QED
      BY <2>1, <3>2, <3>3 DEF Formed
  <2> QED
    BY <2>2, <2>3, <2>4
<1> QED
  BY <1>1 DEF IsSurface

\* An item no break of which is left to a release's callers: head has it, and
\* breaks nothing of it both of the base and of the release.
LEMMA Unbroken ==
  ASSUME NEW last, NEW rel \in last, NEW base, NEW head,
         NEW i \in DOMAIN rel.served, i \in DOMAIN base,
         i \notin AckInputs(last, base, head).broken
  PROVE  /\ i \in DOMAIN head
         /\ \A f : /\ ~(/\ f \in InputBreaks(base[i].inputs, head[i].inputs)
                        /\ f \in InputBreaks(rel.served[i].inputs, head[i].inputs))
                   /\ ~(/\ f \in OutputBreaks(base[i].outputs, head[i].outputs)
                        /\ f \in OutputBreaks(rel.served[i].outputs, head[i].outputs))
<1> DEFINE R == AsReleased(rel, base)
           C == Compare(base, head).breaking
           D == Compare(R, head).breaking
<1>1. i \in DOMAIN R /\ R[i] \in {rel.served[i], base[i]}
  BY DEF AsReleased
<1>2. ASSUME NEW b, b \in C, b \in D PROVE b[1] # i
  <2>1. b \in ReleasedBreaks(last, base, head)
    BY <1>2 DEF ReleasedBreaks
  <2>2. b[1] \in AckInputs(last, base, head).broken
    BY <1>2, <2>1 DEF AckInputs
  <2> QED
    BY <2>2
<1>3. i \in DOMAIN head
  <2>1. CASE i \notin DOMAIN head
    <3>1. <<i, <<ListOf[i]>>>> \in C /\ <<i, <<ListOf[i]>>>> \in D
      BY <1>1, <2>1 DEF Compare
    <3> QED
      BY <1>2, <3>1
  <2> QED
    BY <2>1
<1>4. ASSUME NEW x, x \in BrokenFields(base[i], head[i]), x \in BrokenFields(R[i], head[i])
      PROVE  FALSE
  <2>1. <<i, x>> \in C
    BY <1>3, <1>4 DEF Compare
  <2>2. <<i, x>> \in D
    BY <1>1, <1>3, <1>4 DEF Compare
  <2> QED
    BY <1>2, <2>1, <2>2
<1>5. ASSUME NEW was, NEW now, NEW f
      PROVE  /\ <<"input", f>> \in BrokenFields(was, now) <=> f \in InputBreaks(was.inputs, now.inputs)
             /\ <<"output", f>> \in BrokenFields(was, now) <=> f \in OutputBreaks(was.outputs, now.outputs)
  BY DEF BrokenFields, InputBreaks, OutputBreaks
<1>6. ASSUME NEW f
      PROVE  /\ ~(/\ f \in InputBreaks(base[i].inputs, head[i].inputs)
                  /\ f \in InputBreaks(R[i].inputs, head[i].inputs))
             /\ ~(/\ f \in OutputBreaks(base[i].outputs, head[i].outputs)
                  /\ f \in OutputBreaks(R[i].outputs, head[i].outputs))
  BY <1>4, <1>5
<1> QED
  BY <1>1, <1>3, <1>6

\* A merge of a branch that leaves an item unbroken keeps what main kept of it.
LEMMA MergeKeeps ==
  ASSUME NEW last, NEW rel \in last, NEW base, NEW head, NEW main0,
         NEW i \in DOMAIN rel.served, i \in Items, Formed(rel.served[i]),
         i \notin AckInputs(last, base, head).broken, ~Conflict(base, head, main0),
         i \in DOMAIN main0, Kept(rel.served[i], main0[i])
  PROVE  /\ i \in DOMAIN Merged(base, main0, head)
         /\ Kept(rel.served[i], Merged(base, main0, head)[i])
<1> DEFINE m == Merged(base, main0, head)
           r == rel.served[i]
<1>1. /\ i \in DOMAIN m <=> IF SameItem(base, head, i) THEN i \in DOMAIN main0 ELSE i \in DOMAIN head
      /\ i \in DOMAIN m => m[i] = MergeItem(base, main0, head, i)
  BY DEF Merged
<1>2. CASE SameItem(base, head, i)
  BY <1>1, <1>2 DEF MergeItem
<1>3. CASE ~SameItem(base, head, i) /\ i \notin DOMAIN base
  <2>1. i \in DOMAIN head /\ head[i] = main0[i]
    BY <1>3 DEF SameItem, Conflict
  <2> QED
    BY <1>1, <1>3, <2>1 DEF MergeItem
<1>4. CASE ~SameItem(base, head, i) /\ i \in DOMAIN base
  <2>1. i \in DOMAIN head
    BY <1>4, Unbroken
  <2>2. ASSUME KeptInputs(r.inputs, base[i].inputs)
        PROVE  KeptInputs(r.inputs, head[i].inputs)
    BY <1>4, <2>2, Unbroken, InputStep DEF Formed
  <2>3. ASSUME KeptOutputs(r.outputs, base[i].outputs)
        PROVE  KeptOutputs(r.outputs, head[i].outputs)
    BY <1>4, <2>3, Unbroken, OutputStep DEF Formed
  <2>4. KeptInputs(r.inputs, main0[i].inputs) /\ KeptOutputs(r.outputs, main0[i].outputs)
    BY DEF Kept
  <2>5. CASE SameItem(base, main0, i)
    <3>1. main0[i] = base[i] /\ m[i] = head[i]
      BY <1>1, <1>4, <2>1, <2>5 DEF SameItem, MergeItem
    <3> QED
      BY <1>1, <1>4, <2>1, <2>2, <2>3, <2>4, <3>1 DEF Kept
  <2>6. CASE SameItem(head, main0, i)
    <3>1. main0[i] = head[i] /\ m[i].inputs = head[i].inputs /\ m[i].outputs = head[i].outputs
      BY <1>1, <1>4, <2>1, <2>6 DEF SameItem, MergeItem, Part
    <3> QED
      BY <1>1, <1>4, <2>1, <2>4, <3>1 DEF Kept
  <2>7. CASE ~SameItem(base, main0, i) /\ ~SameItem(head, main0, i)
    <3>1. /\ ~Clash(base[i].inputs, head[i].inputs, main0[i].inputs)
          /\ ~Clash(base[i].outputs, head[i].outputs, main0[i].outputs)
      BY <1>4, <2>7 DEF Conflict
    <3>2. /\ m[i].inputs = Part(base[i].inputs, main0[i].inputs, head[i].inputs)
          /\ m[i].outputs = Part(base[i].outputs, main0[i].outputs, head[i].outputs)
      BY <1>1, <1>4, <2>1, <2>7 DEF MergeItem
    <3>3. KeptInputs(r.inputs, m[i].inputs)
      BY <2>2, <2>4, <3>1, <3>2 DEF Clash, Part
    <3>4. KeptOutputs(r.outputs, m[i].outputs)
      BY <2>3, <2>4, <3>1, <3>2 DEF Clash, Part
    <3> QED
      BY <1>1, <1>4, <2>1, <3>3, <3>4 DEF Kept
  <2> QED
    BY <2>5, <2>6, <2>7
<1> QED
  BY <1>2, <1>3, <1>4

-----------------------------------------------------------------------------
\* The branches.

Branch == {"stage", "base", "head", "baseCuts", "cut", "entry", "footers", "verdict", "fixed",
           "tagsThen"}

BranchTyped(p) == Open(p) =>
  /\ DOMAIN pr[p] = Branch
  /\ IsSurface(pr[p].base) /\ IsSurface(pr[p].head)
  /\ pr[p].cut \in {"no", "renamed", "kept"} /\ pr[p].verdict \in {None, "pass", "refused"}
  /\ pr[p].entry \in -1 .. cuts + 1 /\ pr[p].baseCuts \in 0 .. cuts
  /\ pr[p].tagsThen \in 0 .. tags
  /\ \A f \in pr[p].footers : f.items \subseteq Items
  \* A cut is made of a main all of whose cuts are tagged.
  /\ pr[p].cut # "no" => pr[p].baseCuts <= tags /\ pr[p].baseCuts < MaxTags

MainTyped ==
  /\ IsSurface(main) /\ named \subseteq Items
  /\ \A rel \in release : IsSurface(rel.served) /\ rel.lists \subseteq AllLists
  /\ tags \in 0 .. MaxTags /\ cuts \in {tags, tags + 1} /\ cuts <= MaxTags
  /\ DOMAIN pr = PRs

\* A verdict holds of the branch as it is, as long as the release is the one
\* it was given for; and a refusal done for is done for.
Judged(p) == Open(p) =>
  /\ pr[p].verdict = "pass" => Announced(p)
  /\ pr[p].verdict = "pass" /\ pr[p].tagsThen = tags => Acked(p)
  /\ pr[p].fixed => Acked(p) /\ Announced(p) /\ pr[p].verdict # "refused"

Told(p) == pr[p].stage = "merged" /\ pr[p].watched /\ pr[p].current /\ pr[p].cut # "kept"
             => pr[p].entry = pr[p].ships - 1

Own(p) == BranchTyped(p) /\ Judged(p) /\ Told(p)

TrainInv == MainTyped /\ \A p \in PRs : Own(p)

\* The footers a refusal prints leave nothing it refuses for.
LEMMA FixSuffices ==
  ASSUME NEW c, NEW fs
  PROVE  CheckAck(c, fs \cup PrintedFix(c, fs))
<1> DEFINE b == UnnamedBreaks(c, fs)
           r == UnnamedRest(c, fs)
           all == fs \cup PrintedFix(c, fs)
<1>1. ASSUME NEW token, AckToken(token).ok, NEW items, NEW x \in items,
             Footer(token, items) \in all
      PROVE  /\ x \in Acknowledged(all).named
             /\ AckToken(token).isBreak => x \in Acknowledged(all).breaks
  BY <1>1 DEF Acknowledged, Footer
<1>2. ASSUME NEW x \in b PROVE x \in Acknowledged(all).named /\ x \in Acknowledged(all).breaks
  <2>1. Footer(Breaking, b) \in all
    BY DEF PrintedFix, Footer
  <2>2. AckToken(Breaking).ok /\ AckToken(Breaking).isBreak
    BY DEF AckToken
  <2> QED
    BY <1>1, <2>1, <2>2
<1>3. ASSUME NEW x \in r PROVE x \in Acknowledged(all).named
  <2>1. Footer("SCHEMA-CHANGE", r) \in all
    BY DEF PrintedFix, Footer
  <2>2. AckToken("SCHEMA-CHANGE").ok
    BY DEF AckToken
  <2> QED
    BY <1>1, <2>1, <2>2
<1>4. /\ Acknowledged(fs).named \subseteq Acknowledged(all).named
      /\ Acknowledged(fs).breaks \subseteq Acknowledged(all).breaks
  BY DEF Acknowledged
<1>5. UnnamedBreaks(c, all) = {}
  BY <1>2, <1>4 DEF UnnamedBreaks
<1>6. UnnamedRest(c, all) = {}
  BY <1>2, <1>3, <1>4 DEF UnnamedRest
<1> QED
  BY <1>5, <1>6 DEF CheckAck

LEMMA FootersTyped ==
  ASSUME NEW last, NEW base, NEW head, IsSurface(base), IsSurface(head), NEW fs,
         \A f \in fs : f.items \subseteq Items
  PROVE  /\ \A f \in PrintedFix(AckInputs(last, base, head), fs) : f.items \subseteq Items
         /\ Acknowledged(fs).breaks \subseteq Items
<1> DEFINE c == AckInputs(last, base, head)
<1>1. \A b \in Compare(base, head).breaking : b[1] \in Items
  BY DEF Compare, IsSurface
<1>2. c.broken \subseteq Items /\ c.touched \subseteq Items
  BY <1>1 DEF AckInputs, Compare, IsSurface
<1> HIDE DEF c
<1>3. \A f \in PrintedFix(c, fs) : f.items \subseteq Items
  BY <1>2 DEF PrintedFix, Footer, UnnamedBreaks, UnnamedRest
<1>4. Acknowledged(fs).breaks \subseteq Items
  BY DEF Acknowledged
<1> QED
  BY <1>3, <1>4 DEF c

\* A branch nothing is done to stays as it is judged.
LEMMA OwnStays ==
  ASSUME NEW q \in PRs, Own(q), MainTyped, pr'[q] = pr[q], UNCHANGED <<release, tags>>,
         cuts' \in {cuts, cuts + 1}
  PROVE  Own(q)'
<1>1. Open(q)' <=> Open(q)
  BY DEF Open
<1>2. BranchTyped(q)'
  BY <1>1 DEF Own, BranchTyped, MainTyped
<1>3. (Announced(q)' <=> Announced(q)) /\ (Acked(q)' <=> Acked(q))
  BY DEF Announced, Watched, AddedUnderUnreleased, IsReleaseCut, Acked
<1>4. Judged(q)' /\ Told(q)'
  BY <1>1, <1>3 DEF Own, Judged, Told
<1> QED
  BY <1>2, <1>4 DEF Own

LEMMA HeadTyped ==
  ASSUME IsSurface(main), NEW change \in Changes \cup {NoChange}
  PROVE  IsSurface(HeadOf(change))
<1> DEFINE head == HeadOf(change)
<1>1. ASSUME NEW i \in DOMAIN head PROVE i \in Items /\ Formed(head[i])
  <2>1. CASE i # change.item
    BY <2>1 DEF HeadOf, IsSurface
  <2>2. CASE i = change.item
    <3>1. change.to # {} /\ head[i] \in change.to
      BY <2>2 DEF HeadOf
    <3>2. change \in Changes
      BY <3>1 DEF NoChange
    <3> QED
      BY <2>2, <3>1, <3>2, ChangesAssumption DEF Formed
  <2> QED
    BY <2>1, <2>2
<1> QED
  BY <1>1 DEF IsSurface

LEMMA ProposeOwn ==
  ASSUME TrainInv, NEW p \in PRs, Propose(p)
  PROVE  TrainInv'
<1>1. PICK cut \in {"no", "renamed", "kept"}, change \in Changes \cup {NoChange}, draft \in Drafts :
        /\ cut # "no" => cuts = tags /\ tags < MaxTags
        /\ draft.where = "shipped" => cuts > 0
        /\ change = NoChange => draft = Silent
        /\ pr' = [pr EXCEPT ![p] =
             [stage |-> "open", base |-> main, head |-> HeadOf(change), baseCuts |-> cuts, cut |-> cut,
              entry |-> EntryOf(cut, draft), footers |-> FootersOf(change, draft),
              verdict |-> None, fixed |-> FALSE, tagsThen |-> tags]]
  BY DEF Propose
<1>2. UNCHANGED <<main, release, cuts, tags, named>>
  BY DEF Propose
<1>3. MainTyped'
  BY <1>1, <1>2 DEF TrainInv, MainTyped
<1>4. IsSurface(main) /\ cuts \in Nat /\ tags \in Nat /\ MaxTags \in Nat
  BY BoundsAssumption DEF TrainInv, MainTyped
<1>5. IsSurface(HeadOf(change))
  BY <1>4, HeadTyped
<1>6. EntryOf(cut, draft) \in -1 .. cuts + 1
  BY <1>1, <1>4 DEF EntryOf
<1>7. /\ DOMAIN pr'[p] = Branch /\ pr'[p].stage = "open"
      /\ pr'[p].base = main /\ pr'[p].head = HeadOf(change)
      /\ pr'[p].baseCuts = cuts /\ pr'[p].cut = cut
      /\ pr'[p].entry = EntryOf(cut, draft) /\ pr'[p].verdict = None /\ pr'[p].fixed = FALSE
      /\ pr'[p].tagsThen = tags /\ pr'[p].footers = FootersOf(change, draft)
  BY <1>1 DEF TrainInv, MainTyped, Branch
<1>f. \A f \in pr'[p].footers : f.items \subseteq Items
  <2>1. CASE change \in Changes
    BY <1>7, <2>1, ChangesAssumption DEF FootersOf
  <2>2. CASE change = NoChange
    <3>1. draft.tokens = {}
      BY <1>1, <2>2 DEF Silent
    <3> QED
      BY <1>7, <3>1 DEF FootersOf
  <2> QED
    BY <2>1, <2>2
<1>8. Own(p)'
  <2>1. BranchTyped(p)'
    BY <1>1, <1>2, <1>4, <1>5, <1>6, <1>7, <1>f DEF BranchTyped
  <2>2. Judged(p)' /\ Told(p)'
    BY <1>7 DEF Judged, Told, None
  <2> QED
    BY <2>1, <2>2 DEF Own
<1>9. ASSUME NEW q \in PRs, q # p PROVE Own(q)'
  <2>1. pr'[q] = pr[q]
    BY <1>1, <1>9 DEF TrainInv, MainTyped
  <2> QED
    BY <1>2, <2>1, OwnStays DEF TrainInv
<1> QED
  BY <1>3, <1>8, <1>9 DEF TrainInv

LEMMA CheckOwn ==
  ASSUME TrainInv, NEW p \in PRs, Check(p)
  PROVE  TrainInv'
<1>1. UNCHANGED <<main, release, cuts, tags, named>> /\ Open(p)
  BY DEF Check
<1>2. /\ DOMAIN pr' = PRs /\ DOMAIN pr'[p] = Branch
      /\ pr'[p].verdict = IF Acked(p) /\ Announced(p) THEN "pass" ELSE "refused"
      /\ pr'[p].tagsThen = tags /\ pr'[p].stage = pr[p].stage
      /\ pr'[p].base = pr[p].base /\ pr'[p].head = pr[p].head
      /\ pr'[p].baseCuts = pr[p].baseCuts /\ pr'[p].cut = pr[p].cut
      /\ pr'[p].entry = pr[p].entry /\ pr'[p].footers = pr[p].footers
      /\ pr'[p].fixed = pr[p].fixed
  BY <1>1 DEF Check, TrainInv, MainTyped, Own, BranchTyped, Branch
<1>3. MainTyped'
  BY <1>1, <1>2 DEF TrainInv, MainTyped
<1>4. (Announced(p)' <=> Announced(p)) /\ (Acked(p)' <=> Acked(p)) /\ Open(p)'
  BY <1>1, <1>2 DEF Announced, Watched, AddedUnderUnreleased, IsReleaseCut, Acked, Open
<1>5. BranchTyped(p)'
  BY <1>1, <1>2, <1>4, BoundsAssumption DEF TrainInv, MainTyped, Own, BranchTyped
<1>6. Judged(p)'
  BY <1>1, <1>2, <1>4 DEF TrainInv, Own, Judged
<1>7. Told(p)'
  BY <1>4 DEF Told, Open
<1>9. ASSUME NEW q \in PRs, q # p PROVE Own(q)'
  <2>1. pr'[q] = pr[q]
    BY <1>9 DEF Check, TrainInv, MainTyped
  <2> QED
    BY <1>1, <2>1, OwnStays DEF TrainInv
<1> QED
  BY <1>3, <1>5, <1>6, <1>7, <1>9 DEF TrainInv, Own

LEMMA FixOwn ==
  ASSUME TrainInv, NEW p \in PRs, Fix(p)
  PROVE  TrainInv'
<1>1. UNCHANGED <<main, release, cuts, tags, named>> /\ Open(p)
  BY DEF Fix
<1> DEFINE c == AckInputs(release, pr[p].base, pr[p].head)
<1>2. /\ DOMAIN pr' = PRs /\ DOMAIN pr'[p] = Branch
      /\ pr'[p].verdict = None /\ pr'[p].fixed = TRUE
      /\ pr'[p].footers = pr[p].footers \cup PrintedFix(c, pr[p].footers)
      /\ pr'[p].entry = IF Announced(p) THEN pr[p].entry
                        ELSE IF pr[p].cut = "kept" THEN pr[p].baseCuts + 1 ELSE pr[p].baseCuts
      /\ pr'[p].tagsThen = pr[p].tagsThen /\ pr'[p].stage = pr[p].stage
      /\ pr'[p].base = pr[p].base /\ pr'[p].head = pr[p].head
      /\ pr'[p].baseCuts = pr[p].baseCuts /\ pr'[p].cut = pr[p].cut
  BY <1>1 DEF Fix, TrainInv, MainTyped, Own, BranchTyped, Branch
<1>3. MainTyped'
  BY <1>1, <1>2 DEF TrainInv, MainTyped
<1>4. BranchTyped(p)
  BY DEF TrainInv, Own
<1>5. Open(p)' /\ Acked(p)'
  BY <1>1, <1>2, FixSuffices DEF Acked, Open
<1>6. Announced(p)'
  <2>1. CASE Announced(p)
    BY <1>2, <2>1 DEF Announced, Watched, AddedUnderUnreleased, IsReleaseCut
  <2>2. CASE ~Announced(p)
    BY <1>1, <1>2, <1>4, <2>2
       DEF BranchTyped, Announced, Watched, AddedUnderUnreleased, IsReleaseCut
  <2> QED
    BY <2>1, <2>2
<1>f. \A f \in pr'[p].footers : f.items \subseteq Items
  BY <1>1, <1>2, <1>4, FootersTyped DEF BranchTyped
<1>7. BranchTyped(p)'
  BY <1>1, <1>2, <1>4, <1>5, <1>f, BoundsAssumption DEF TrainInv, MainTyped, BranchTyped, None
<1>8. Judged(p)' /\ Told(p)'
  BY <1>2, <1>5, <1>6 DEF Judged, Told, Open, None
<1>9. ASSUME NEW q \in PRs, q # p PROVE Own(q)'
  <2>1. pr'[q] = pr[q]
    BY <1>9 DEF Fix, TrainInv, MainTyped
  <2> QED
    BY <1>1, <2>1, OwnStays DEF TrainInv
<1> QED
  BY <1>3, <1>7, <1>8, <1>9 DEF TrainInv, Own

LEMMA UpdateOwn ==
  ASSUME TrainInv, NEW p \in PRs, Update(p)
  PROVE  TrainInv'
<1>1. /\ UNCHANGED <<main, release, cuts, tags, named>> /\ Open(p)
      /\ ~Conflict(pr[p].base, pr[p].head, main)
      /\ pr[p].cut # "no" => pr[p].baseCuts = cuts
  BY DEF Update
<1>2. /\ DOMAIN pr' = PRs /\ DOMAIN pr'[p] = Branch
      /\ pr'[p].verdict = None /\ pr'[p].fixed = FALSE /\ pr'[p].baseCuts = cuts
      /\ pr'[p].base = main /\ pr'[p].head = Merged(pr[p].base, pr[p].head, main)
      /\ pr'[p].entry = pr[p].entry /\ pr'[p].tagsThen = pr[p].tagsThen
      /\ pr'[p].stage = pr[p].stage /\ pr'[p].cut = pr[p].cut
      /\ pr'[p].footers = pr[p].footers
  BY <1>1 DEF Update, TrainInv, MainTyped, Own, BranchTyped, Branch
<1>3. MainTyped'
  BY <1>1, <1>2 DEF TrainInv, MainTyped
<1>4. BranchTyped(p) /\ MainTyped
  BY DEF TrainInv, Own
<1>5. IsSurface(pr'[p].head)
  BY <1>1, <1>2, <1>4, MergedFormed DEF BranchTyped, MainTyped
<1>6. BranchTyped(p)'
  BY <1>1, <1>2, <1>4, <1>5, BoundsAssumption DEF MainTyped, BranchTyped, None
<1>7. Judged(p)' /\ Told(p)'
  BY <1>1, <1>2 DEF Judged, Told, Open, None
<1>9. ASSUME NEW q \in PRs, q # p PROVE Own(q)'
  <2>1. pr'[q] = pr[q]
    BY <1>9 DEF Update, TrainInv, MainTyped
  <2> QED
    BY <1>1, <2>1, OwnStays DEF TrainInv
<1> QED
  BY <1>3, <1>6, <1>7, <1>9 DEF TrainInv, Own

LEMMA MergeOwn ==
  ASSUME TrainInv, NEW p \in PRs, Merge(p)
  PROVE  TrainInv'
<1>1. /\ UNCHANGED <<release, tags>> /\ Open(p) /\ pr[p].verdict = "pass"
      /\ ~Conflict(pr[p].base, pr[p].head, main)
      /\ pr[p].cut # "no" => pr[p].baseCuts = cuts
      /\ main' = Merged(pr[p].base, main, pr[p].head)
      /\ cuts' = cuts + (IF pr[p].cut = "no" THEN 0 ELSE 1)
      /\ named' = named \cup Acknowledged(pr[p].footers).breaks
  BY DEF Merge
<1>2. /\ DOMAIN pr' = PRs /\ pr'[p].stage = "merged"
      /\ pr'[p].watched = Watched(p) /\ pr'[p].cut = pr[p].cut /\ pr'[p].entry = pr[p].entry
      /\ pr'[p].current = (pr[p].baseCuts = cuts /\ tags = cuts) /\ pr'[p].ships = tags + 1
  BY DEF Merge, TrainInv, MainTyped
<1>4. BranchTyped(p) /\ MainTyped /\ Judged(p)
  BY DEF TrainInv, Own
<1>5. IsSurface(main') /\ named' \subseteq Items
  BY <1>1, <1>4, MergedFormed, FootersTyped DEF MainTyped, BranchTyped
<1>6. cuts' \in {tags, tags + 1} /\ cuts' \in {cuts, cuts + 1} /\ cuts' <= MaxTags
  BY <1>1, <1>4, BoundsAssumption DEF MainTyped, BranchTyped
<1>3. MainTyped'
  BY <1>1, <1>2, <1>4, <1>5, <1>6, BoundsAssumption DEF MainTyped
<1>7. BranchTyped(p)' /\ Judged(p)'
  BY <1>2 DEF BranchTyped, Judged, Open
<1>8. Told(p)'
  <2> SUFFICES ASSUME Watched(p), pr[p].baseCuts = cuts, tags = cuts, pr[p].cut # "kept"
               PROVE  pr[p].entry = (tags + 1) - 1
    BY <1>2 DEF Told
  <2>1. AddedUnderUnreleased(p)
    BY <1>1, <1>4 DEF Judged, Announced
  <2>2. pr[p].entry = tags /\ tags \in Nat
    BY <1>1, <1>4, <2>1, BoundsAssumption DEF AddedUnderUnreleased, MainTyped
  <2> QED
    BY <2>2
<1>9. ASSUME NEW q \in PRs, q # p PROVE Own(q)'
  <2>1. pr'[q] = pr[q]
    BY <1>9 DEF Merge, TrainInv, MainTyped
  <2> QED
    BY <1>1, <1>6, <2>1, OwnStays DEF TrainInv
<1> QED
  BY <1>3, <1>7, <1>8, <1>9 DEF TrainInv, Own

LEMMA TagOwn ==
  ASSUME TrainInv, Tag
  PROVE  TrainInv'
<1>1. /\ tags < cuts /\ tags' = tags + 1 /\ named' = {} /\ UNCHANGED <<main, cuts>>
      /\ release' = {[served |-> main, lists |-> AllLists]}
      /\ pr' = [p \in PRs |-> IF Open(p) THEN [pr[p] EXCEPT !.fixed = FALSE] ELSE pr[p]]
  BY DEF Tag
<1>2. cuts = tags + 1 /\ tags \in Nat /\ MainTyped
  BY <1>1, BoundsAssumption DEF TrainInv, MainTyped
<1>3. MainTyped'
  BY <1>1, <1>2, BoundsAssumption DEF MainTyped
<1>4. ASSUME NEW p \in PRs, Open(p)'
      PROVE  /\ Open(p) /\ DOMAIN pr'[p] = Branch /\ pr'[p].fixed = FALSE
             /\ pr'[p].base = pr[p].base /\ pr'[p].head = pr[p].head
             /\ pr'[p].verdict = pr[p].verdict /\ pr'[p].tagsThen = pr[p].tagsThen
             /\ pr'[p].baseCuts = pr[p].baseCuts /\ pr'[p].cut = pr[p].cut
             /\ pr'[p].entry = pr[p].entry /\ pr'[p].footers = pr[p].footers
  <2>1. Open(p)
    BY <1>1, <1>4 DEF Open
  <2>2. DOMAIN pr[p] = Branch
    BY <2>1 DEF TrainInv, Own, BranchTyped
  <2>3. pr'[p] = [pr[p] EXCEPT !.fixed = FALSE]
    BY <1>1, <2>1
  <2> QED
    BY <2>1, <2>2, <2>3 DEF Branch
<1>5. ASSUME NEW p \in PRs PROVE Own(p)'
  <2>1. Own(p)
    BY DEF TrainInv
  <2>2. ASSUME Open(p)'
        PROVE  BranchTyped(p)' /\ (Announced(p)' <=> Announced(p)) /\ pr'[p].tagsThen # tags'
    <3>1. /\ Open(p) /\ DOMAIN pr'[p] = Branch
          /\ pr'[p].base = pr[p].base /\ pr'[p].head = pr[p].head
          /\ pr'[p].verdict = pr[p].verdict /\ pr'[p].tagsThen = pr[p].tagsThen
          /\ pr'[p].baseCuts = pr[p].baseCuts /\ pr'[p].cut = pr[p].cut
          /\ pr'[p].entry = pr[p].entry /\ pr'[p].footers = pr[p].footers
      BY <1>4, <2>2
    <3>0. tags' = tags + 1 /\ cuts' = cuts /\ tags \in Nat /\ BranchTyped(p)
      BY <1>1, <1>2, <2>1 DEF Own
    <3>2. BranchTyped(p)'
      BY <3>0, <3>1 DEF BranchTyped
    <3>3. Announced(p)' <=> Announced(p)
      BY <1>1, <3>1 DEF Announced, Watched, AddedUnderUnreleased, IsReleaseCut
    <3>4. pr'[p].tagsThen # tags'
      BY <1>1, <1>2, <2>1, <3>1 DEF Own, BranchTyped
    <3> QED
      BY <3>2, <3>3, <3>4
  <2>3. ~Open(p)' => BranchTyped(p)'
    BY DEF BranchTyped
  <2>4. Judged(p)'
    BY <1>4, <2>1, <2>2 DEF Own, Judged
  <2>5. Told(p)'
    BY <1>1, <2>1 DEF Own, Told, Open
  <2> QED
    BY <2>2, <2>3, <2>4, <2>5 DEF Own
<1> QED
  BY <1>3, <1>5 DEF TrainInv

LEMMA TrainInit == Init => TrainInv
<1> SUFFICES ASSUME Init PROVE TrainInv
  OBVIOUS
<1>1. IsSurface(First)
  BY FirstAssumption
<1>2. MainTyped
  BY <1>1, BoundsAssumption DEF Init, MainTyped, NoRelease, AllLists
<1>3. ASSUME NEW p \in PRs PROVE Own(p)
  BY DEF Init, NewPR, Own, BranchTyped, Judged, Told, Open
<1> QED
  BY <1>2, <1>3 DEF TrainInv

LEMMA TrainStep == TrainInv /\ [Next]_vars => TrainInv'
<1> SUFFICES ASSUME TrainInv, [Next]_vars PROVE TrainInv'
  OBVIOUS
<1>1. CASE \E p \in PRs : Propose(p) \/ Check(p) \/ Fix(p) \/ Update(p) \/ Merge(p)
  BY <1>1, ProposeOwn, CheckOwn, FixOwn, UpdateOwn, MergeOwn
<1>2. CASE Tag
  BY <1>2, TagOwn
<1>3. CASE UNCHANGED vars
  <2>1. UNCHANGED <<main, release, cuts, tags, named, pr>>
    BY <1>3 DEF vars
  <2>2. MainTyped'
    BY <2>1 DEF TrainInv, MainTyped
  <2>3. ASSUME NEW p \in PRs PROVE Own(p)'
    BY <2>1, OwnStays DEF TrainInv
  <2> QED
    BY <2>2, <2>3 DEF TrainInv
<1> QED
  BY <1>1, <1>2, <1>3 DEF Next

LEMMA Invariance == Spec => []TrainInv
BY TrainInit, TrainStep, PTL DEF Spec

\* Main, the release and every open branch serve surfaces whose fields have their
\* parents, also after merges part by part and updates from main; no release is
\* tagged that was not cut, none cut while one waits for its tag, and no entry is
\* in a section that does not exist (surface.go, walk; addedUnderUnreleased).
THEOREM Typing == Spec => []TypeOK
<1>1. TrainInv => TypeOK
  BY DEF TrainInv, MainTyped, Own, BranchTyped, TypeOK
<1> QED
  BY <1>1, Invariance, PTL

\* The footers and the entry a refusal asks for are enough, whatever else is
\* pushed and merged meanwhile.
THEOREM Enough == Spec => []AFixIsEnough
<1>1. TrainInv => AFixIsEnough
  BY DEF TrainInv, Own, Judged, AFixIsEnough
<1> QED
  BY <1>1, Invariance, PTL

\* A watched change merged with main's cuts in sight is in its release's notes.
THEOREM InTheNotes == Spec => []NotesTellAll
<1>1. TrainInv => NotesTellAll
  BY DEF TrainInv, Own, Told, NotesTellAll
<1> QED
  BY <1>1, Invariance, PTL

\* No change the comparison takes for quiet breaks a caller, for any schemas.
THEOREM QuietIsSafe == Spec => []QuietChangesAreSafe
<1>1. TrainInv => QuietChangesAreSafe
  <2> SUFFICES ASSUME TrainInv PROVE QuietChangesAreSafe
    OBVIOUS
  <2>1. ASSUME NEW p \in PRs, Open(p), NEW i \in DOMAIN pr[p].base \cap DOMAIN pr[p].head
        PROVE  Sound(pr[p].base[i], pr[p].head[i])
    BY <2>1, Comparison DEF TrainInv, Own, BranchTyped, IsSurface
  <2>2. ASSUME NEW rel \in release, NEW i \in DOMAIN rel.served \cap DOMAIN main
        PROVE  Sound(rel.served[i], main[i])
    BY Comparison DEF TrainInv, MainTyped, IsSurface
  <2> QED
    BY <2>1, <2>2 DEF QuietChangesAreSafe
<1> QED
  BY <1>1, Invariance, PTL

-----------------------------------------------------------------------------
\* What main has done to the last release.

Released == \A rel \in release : \A i \in DOMAIN rel.served :
  i \in named \/ JudgedBeforeTag(i) \/ (i \in DOMAIN main /\ Kept(rel.served[i], main[i]))

\* What was merged stays merged.
LEMMA JudgedStays ==
  ASSUME TrainInv, Next, NEW i, JudgedBeforeTag(i)
  PROVE  JudgedBeforeTag(i)'
<1>1. PICK p \in PRs : pr[p].stage = "merged" /\ pr[p].stale /\ i \in pr[p].item
  BY DEF JudgedBeforeTag
<1>2. DOMAIN pr = PRs /\ pr[p] # NewPR /\ ~Open(p)
  BY <1>1 DEF TrainInv, MainTyped, NewPR, Open
<1>3. pr'[p] = pr[p]
  <2>1. ASSUME NEW q \in PRs, Propose(q) \/ Check(q) \/ Fix(q) \/ Update(q) \/ Merge(q)
        PROVE  pr'[p] = pr[p]
    <3>1. q # p
      BY <1>2, <2>1 DEF Propose, Check, Fix, Update, Merge
    <3>2. CASE Propose(q)
      BY <1>2, <3>1, <3>2 DEF Propose
    <3>3. CASE Check(q) \/ Fix(q) \/ Update(q) \/ Merge(q)
      BY <1>2, <3>1, <3>3 DEF Check, Fix, Update, Merge
    <3> QED
      BY <2>1, <3>2, <3>3
  <2>2. ASSUME Tag PROVE pr'[p] = pr[p]
    BY <1>2, <2>2 DEF Tag
  <2> QED
    BY <2>1, <2>2 DEF Next
<1> QED
  BY <1>1, <1>3 DEF JudgedBeforeTag

LEMMA MergeReleased ==
  ASSUME TrainInv, Released, NEW p \in PRs, Merge(p)
  PROVE  Released'
<1>1. /\ release' = release /\ Open(p) /\ pr[p].verdict = "pass"
      /\ ~Conflict(pr[p].base, pr[p].head, main)
      /\ main' = Merged(pr[p].base, main, pr[p].head)
      /\ named' = named \cup Acknowledged(pr[p].footers).breaks
  BY DEF Merge
<1>2. /\ pr'[p].stage = "merged" /\ pr'[p].stale = (pr[p].tagsThen < tags)
      /\ pr'[p].item = {i \in Items : ~SameItem(pr[p].base, pr[p].head, i)}
  BY DEF Merge, TrainInv, MainTyped
<1>3. BranchTyped(p) /\ MainTyped /\ Judged(p)
  BY DEF TrainInv, Own
<1> SUFFICES ASSUME NEW rel \in release, NEW i \in DOMAIN rel.served,
                    i \notin named', ~JudgedBeforeTag(i)'
             PROVE  i \in DOMAIN main' /\ Kept(rel.served[i], main'[i])
  BY <1>1 DEF Released
<1>4. ~JudgedBeforeTag(i)
  BY JudgedStays DEF Next
<1>5. i \in DOMAIN main /\ Kept(rel.served[i], main[i])
  BY <1>1, <1>4 DEF Released
<1>6. i \in Items /\ Formed(rel.served[i])
  BY <1>3 DEF MainTyped, IsSurface
\* The item is not the branch's, or the branch was judged against this release.
<1>7. CASE SameItem(pr[p].base, pr[p].head, i)
  <2>1. i \in DOMAIN main' /\ main'[i] = main[i]
    BY <1>1, <1>5, <1>6, <1>7 DEF Merged, MergeItem
  <2> QED
    BY <1>5, <2>1
<1>8. CASE ~SameItem(pr[p].base, pr[p].head, i)
  <2>1. ~(pr[p].tagsThen < tags)
    BY <1>2, <1>6, <1>8 DEF JudgedBeforeTag
  <2>2. pr[p].tagsThen = tags
    BY <1>1, <1>3, <2>1, BoundsAssumption DEF BranchTyped, MainTyped
  <2>3. Acked(p)
    BY <1>1, <1>3, <2>2 DEF Judged
  <2>4. i \notin AckInputs(release, pr[p].base, pr[p].head).broken
    BY <1>1, <2>3 DEF Acked, CheckAck, UnnamedBreaks
  <2> QED
    BY <1>1, <1>5, <1>6, <2>4, MergeKeeps
<1> QED
  BY <1>7, <1>8

\* Every break of the last release's callers that main has is named.
THEOREM AllNamed == Spec => []BreaksAreNamed
<1>1. Init => Released
  BY KeptSelf DEF Init, Released, NoRelease
<1>2. TrainInv /\ Released /\ [Next]_vars => Released'
  <2> SUFFICES ASSUME TrainInv, Released, [Next]_vars PROVE Released'
    OBVIOUS
  <2>1. ASSUME NEW p \in PRs, Propose(p) \/ Check(p) \/ Fix(p) \/ Update(p) PROVE Released'
    <3>1. UNCHANGED <<main, release, named>> /\ Next
      BY <2>1 DEF Propose, Check, Fix, Update, Next
    <3> QED
      BY <3>1, JudgedStays DEF Released
  <2>2. ASSUME NEW p \in PRs, Merge(p) PROVE Released'
    BY <2>2, MergeReleased
  <2>3. CASE Tag
    BY <2>3, KeptSelf DEF Tag, Released
  <2>4. CASE UNCHANGED vars
    BY <2>4 DEF vars, Released, JudgedBeforeTag
  <2> QED
    BY <2>1, <2>2, <2>3, <2>4 DEF Next
<1>3. TrainInv /\ Released => BreaksAreNamed
  <2> SUFFICES ASSUME TrainInv, Released, NEW rel \in release, NEW i \in DOMAIN rel.served,
                      i \in DOMAIN main, Kept(rel.served[i], main[i])
               PROVE  ~CallerBroken(WithoutLists(rel.served[i]), WithoutLists(main[i]))
    BY DEF Released, BreaksAreNamed
  <2>1. Formed(rel.served[i])
    BY DEF TrainInv, MainTyped, IsSurface
  <2> QED
    BY <2>1, KeptIsSafe
<1> QED
  BY <1>1, <1>2, <1>3, TrainInit, TrainStep, PTL DEF Spec
================================================================================
