------------------------------ MODULE ReleaseTrain ------------------------------
(***************************************************************************)
(* What a tool surface goes through between two releases: pull requests    *)
(* that change it, the two gates that judge each (schema-ack, in           *)
(* schemaack.go, and changelog, in changelog.go), main as they are merged, *)
(* the cut of a release and its tag, whose notes are a section of the      *)
(* changelog (releasenotes.go).                                            *)
(*                                                                         *)
(* CI runs both gates when a branch is pushed, against the merge-base it   *)
(* has then, and never again: main may have moved, been cut or been tagged *)
(* by the time the pull request is merged.  Sections of the changelog are  *)
(* numbered as they are cut, so [Unreleased] of a tree is the number of    *)
(* cuts it has seen, and release n is the notes of section n - 1.          *)
(***************************************************************************)
EXTENDS Surface

CONSTANTS
  PRs,        \* pull requests
  First,      \* the surface to begin with
  Changes,    \* what one may do: [item, to], `to` a set of at most one tool
  Drafts,     \* and write of it: the section of its entry, its footer's token
  OldLists,   \* the lists the dump of the release to begin with carries
  MaxTags     \* bound: releases made

AllLists == {ListOf[i] : i \in Items}
None == "none"
NoChange == [item |-> None, to |-> {}]
Silent == [where |-> None, tokens |-> {}, ref |-> FALSE]

\* A tool whose sides are as a walk records them, and what serves such tools.
Formed(tool) == Walked(tool.inputs) /\ Walked(tool.outputs)
IsSurface(s) == DOMAIN s \subseteq Items /\ \A i \in DOMAIN s : Formed(s[i])

ASSUME ChangesAssumption == \A c \in Changes : c.item \in Items /\ \A t \in c.to : Formed(t)
ASSUME FirstAssumption == IsSurface(First)
ASSUME BoundsAssumption == MaxTags \in Nat /\ OldLists \subseteq {ListOf[i] : i \in Items}

VARIABLES
  main,       \* the surface on main
  release,    \* what the last tag serves and the lists its dump carries, or none
  cuts, tags, \* on main: cuts of the changelog, and tags
  named,      \* items in a BREAKING CHANGE: footer merged since the last tag
  pr
vars == <<main, release, cuts, tags, named, pr>>

\* The last release, as a set of at most one.
NoRelease == {}

NewPR == [stage |-> "none"]
Open(p) == pr[p].stage = "open"

-----------------------------------------------------------------------------
\* Git, which joins what two sides did to one ancestor part by part.

SameItem(s, t, i) == (i \in DOMAIN s <=> i \in DOMAIN t) /\ (i \in DOMAIN s => s[i] = t[i])
Part(was, ours, theirs) == IF theirs = was THEN ours ELSE theirs
Clash(was, ours, theirs) == was # ours /\ was # theirs /\ ours # theirs

Conflict(base, ours, theirs) == \E i \in Items :
  /\ ~SameItem(base, ours, i) /\ ~SameItem(base, theirs, i) /\ ~SameItem(ours, theirs, i)
  /\ \/ ~(i \in DOMAIN base /\ i \in DOMAIN ours /\ i \in DOMAIN theirs)
     \/ Clash(base[i].inputs, ours[i].inputs, theirs[i].inputs)
     \/ Clash(base[i].outputs, ours[i].outputs, theirs[i].outputs)
     \/ Clash(base[i].text, ours[i].text, theirs[i].text)

MergeItem(base, ours, theirs, i) ==
  IF SameItem(base, theirs, i) THEN ours[i]
  ELSE IF SameItem(base, ours, i) \/ i \notin DOMAIN base THEN theirs[i]
  ELSE [inputs  |-> Part(base[i].inputs, ours[i].inputs, theirs[i].inputs),
        outputs |-> Part(base[i].outputs, ours[i].outputs, theirs[i].outputs),
        text    |-> Part(base[i].text, ours[i].text, theirs[i].text)]

Merged(base, ours, theirs) ==
  [i \in {j \in Items : IF SameItem(base, theirs, j) THEN j \in DOMAIN ours ELSE j \in DOMAIN theirs}
     |-> MergeItem(base, ours, theirs, i)]

-----------------------------------------------------------------------------
\* schema-ack.

\* Slip: a list an old dump does not carry is read as empty.
AsReleasedDumped(rel, base) ==
  [i \in {j \in DOMAIN rel.served : ListOf[j] \in rel.lists} |-> rel.served[i]]

\* asReleased.
AsReleased(rel, base) ==
  [i \in {j \in DOMAIN rel.served : ListOf[j] \in rel.lists}
         \cup {j \in DOMAIN base : ListOf[j] \notin rel.lists}
     |-> IF ListOf[i] \in rel.lists THEN rel.served[i] ELSE base[i]]

\* releasedBreaks, the item and the field of each; none before the first tag.
ReleasedBreaks(last, base, head) ==
  UNION {Compare(AsReleased(rel, base), head).breaking : rel \in last}

\* ackInputs and releaseBreaksOnly: a break of nothing released is a change.
AckInputs(last, base, head) ==
  LET c == Compare(base, head)
      kept == IF c.breaking = {} THEN {} ELSE c.breaking \cap ReleasedBreaks(last, base, head)
  IN [touched |-> c.added \cup c.changed \cup {b[1] : b \in c.breaking \ kept},
      broken  |-> {b[1] : b \in kept}]

\* ackToken.
Breaking == "BREAKING CHANGE"
AckToken(token) ==
  [isBreak |-> token \in {Breaking, "BREAKING-CHANGE"},
   ok |-> token \in {Breaking, "BREAKING-CHANGE", "SCHEMA-CHANGE", "schema-change"}]

\* acknowledged, over the footers of the commits a branch adds.
Acknowledged(fs) ==
  LET counted == {f \in fs : ~f.ref /\ AckToken(f.token).ok}
      items(s) == UNION {f.items : f \in s}
  IN [named |-> items(counted), breaks |-> items({f \in counted : AckToken(f.token).isBreak})]

\* checkAck: what it refuses for, and the footers it prints.
UnnamedBreaks(c, fs) == c.broken \ Acknowledged(fs).breaks
UnnamedRest(c, fs) == (c.touched \ Acknowledged(fs).named) \ UnnamedBreaks(c, fs)
CheckAck(c, fs) == UnnamedBreaks(c, fs) = {} /\ UnnamedRest(c, fs) = {}

\* What CI says of a branch as it is now.
Acked(p) == CheckAck(AckInputs(release, pr[p].base, pr[p].head), pr[p].footers)

Footer(token, items) == [token |-> token, ref |-> FALSE, items |-> items]

\* Slip: one footer for both, which is no break's.
PrintedFixOneFooter(c, fs) ==
  {Footer("SCHEMA-CHANGE", UnnamedBreaks(c, fs) \cup UnnamedRest(c, fs))}

PrintedFix(c, fs) == {f \in {Footer(Breaking, UnnamedBreaks(c, fs)),
                             Footer("SCHEMA-CHANGE", UnnamedRest(c, fs))} : f.items # {}}

-----------------------------------------------------------------------------
\* changelog.

\* touchesWatched: the surface is built from watched source.
Watched(p) == pr[p].base # pr[p].head

\* isReleaseCut, which looks for the heading among the lines removed: a cut
\* that leaves an empty [Unreleased] above the version removes none.
IsReleaseCut(p) == pr[p].cut = "renamed"

\* Slip: a line under any heading is an entry.
AddedUnderUnreleasedAnywhere(p) == pr[p].entry >= 0

\* addedUnderUnreleased: the section of the head that is [Unreleased], or the
\* one the diff cut from it.
AddedUnderUnreleased(p) ==
  \/ pr[p].entry = pr[p].baseCuts /\ (pr[p].cut = "no" \/ IsReleaseCut(p))
  \/ pr[p].entry = pr[p].baseCuts + 1 /\ pr[p].cut = "kept"

\* changelogGate.
Announced(p) == Watched(p) => AddedUnderUnreleased(p)

-----------------------------------------------------------------------------
\* What main, the release and every branch serve is served as a walk records it,
\* merges part by part included: a field has its parent, and what is required is
\* a field (walk, compareSurfaces).  No release is tagged that was not cut, none
\* is cut while one waits for its tag, and no entry is in a section that is not.
TypeOK ==
  /\ IsSurface(main) /\ named \subseteq Items
  /\ \A rel \in release : IsSurface(rel.served) /\ rel.lists \subseteq AllLists
  /\ tags \in 0 .. MaxTags /\ cuts \in {tags, tags + 1}
  /\ \A p \in PRs : Open(p) =>
       /\ IsSurface(pr[p].base) /\ IsSurface(pr[p].head)
       /\ pr[p].entry \in -1 .. cuts + 1 /\ pr[p].verdict \in {None, "pass", "refused"}

Init ==
  /\ main = First
  /\ release \in {NoRelease, {[served |-> First, lists |-> OldLists]}}
  /\ cuts = 0 /\ tags = 0 /\ named = {}
  /\ pr = [p \in PRs |-> NewPR]

\* What a change makes of main, and where and how a draft writes of it: the
\* section an entry is in, -1 for none, and the footers.
HeadOf(change) ==
  [i \in (DOMAIN main \ {change.item}) \cup {change.item : t \in change.to} |->
     IF i = change.item THEN CHOOSE t \in change.to : TRUE ELSE main[i]]
EntryOf(cut, draft) ==
  CASE draft.where = "none" -> -1
    [] draft.where = "shipped" -> cuts - 1
    [] draft.where = "cut" -> cuts
    [] OTHER -> IF cut = "kept" THEN cuts + 1 ELSE cuts
FootersOf(change, draft) ==
  {[token |-> t, ref |-> draft.ref, items |-> {change.item}] : t \in draft.tokens}

\* A branch is pushed from main with one change, a cut, or both, and what its
\* author thought to write of it.
Propose(p) ==
  /\ pr[p] = NewPR
  /\ \E cut \in {"no", "renamed", "kept"}, change \in Changes \cup {NoChange},
        draft \in Drafts :
       /\ cut = "no" => change # NoChange /\ draft.where # "cut"
       /\ cut # "no" => cuts = tags /\ tags < MaxTags
       /\ draft.where = "shipped" => cuts > 0
       /\ cut = "renamed" => draft.where # "unreleased"
       /\ change = NoChange => draft = Silent
       /\ change # NoChange => HeadOf(change) # main
       /\ pr' = [pr EXCEPT ![p] =
            [stage |-> "open", base |-> main, head |-> HeadOf(change), baseCuts |-> cuts, cut |-> cut,
             entry |-> EntryOf(cut, draft), footers |-> FootersOf(change, draft),
             verdict |-> None, fixed |-> FALSE, tagsThen |-> tags]]
  /\ UNCHANGED <<main, release, cuts, tags, named>>

\* CI on what was pushed.  A gate that could not run leaves no verdict.
Check(p) ==
  /\ Open(p) /\ pr[p].verdict = None
  /\ pr' = [pr EXCEPT ![p].verdict = IF Acked(p) /\ Announced(p) THEN "pass" ELSE "refused",
                      ![p].tagsThen = tags]
  /\ UNCHANGED <<main, release, cuts, tags, named>>

\* The author pushes what the refusal asks for: the footers printed, on an
\* empty commit, and a line under [Unreleased].
Fix(p) ==
  /\ Open(p) /\ pr[p].verdict = "refused"
  /\ pr' = [pr EXCEPT ![p].footers = @ \cup PrintedFix(AckInputs(release, pr[p].base, pr[p].head), @),
                      ![p].entry = IF Announced(p) THEN @
                                   ELSE IF pr[p].cut = "kept" THEN pr[p].baseCuts + 1 ELSE pr[p].baseCuts,
                      ![p].verdict = None, ![p].fixed = TRUE]
  /\ UNCHANGED <<main, release, cuts, tags, named>>

\* Main is merged into the branch, whose own commits keep their footers.
Update(p) ==
  /\ Open(p) /\ <<pr[p].base, pr[p].baseCuts>> # <<main, cuts>>
  /\ ~Conflict(pr[p].base, pr[p].head, main)
  /\ pr[p].cut # "no" => pr[p].baseCuts = cuts
  /\ pr' = [pr EXCEPT ![p].base = main, ![p].head = Merged(pr[p].base, pr[p].head, main),
                      ![p].baseCuts = cuts, ![p].verdict = None, ![p].fixed = FALSE]
  /\ UNCHANGED <<main, release, cuts, tags, named>>

\* The pull request is merged, on the verdict its last push got.
Merge(p) ==
  /\ Open(p) /\ pr[p].verdict = "pass"
  /\ ~Conflict(pr[p].base, pr[p].head, main)
  /\ pr[p].cut # "no" => pr[p].baseCuts = cuts
  /\ main' = Merged(pr[p].base, main, pr[p].head)
  /\ cuts' = cuts + (IF pr[p].cut = "no" THEN 0 ELSE 1)
  /\ named' = named \cup Acknowledged(pr[p].footers).breaks
  /\ pr' = [pr EXCEPT ![p] =
       [stage |-> "merged", watched |-> Watched(p), cut |-> pr[p].cut, entry |-> pr[p].entry,
        item |-> {i \in Items : ~SameItem(pr[p].base, pr[p].head, i)},
        stale |-> pr[p].tagsThen < tags,
        \* It has what main has: every cut, and no cut is still to be tagged.
        current |-> pr[p].baseCuts = cuts /\ tags = cuts, ships |-> tags + 1]]
  /\ UNCHANGED <<release, tags>>

\* A maintainer tags main as it stands.
Tag ==
  /\ tags < cuts
  /\ tags' = tags + 1
  /\ release' = {[served |-> main, lists |-> AllLists]}
  /\ named' = {}
  /\ pr' = [p \in PRs |-> IF Open(p) THEN [pr[p] EXCEPT !.fixed = FALSE] ELSE pr[p]]
  /\ UNCHANGED <<main, cuts>>

Next == (\E p \in PRs : Propose(p) \/ Check(p) \/ Fix(p) \/ Update(p) \/ Merge(p)) \/ Tag

Spec == Init /\ [][Next]_vars

-----------------------------------------------------------------------------
\* Not a merge that was judged before the last tag, of an item since.
JudgedBeforeTag(i) == \E p \in PRs :
  pr[p].stage = "merged" /\ pr[p].stale /\ i \in pr[p].item

\* An item of the last release that main breaks the callers of is in a
\* BREAKING CHANGE: footer merged since its tag, whatever main went through in
\* between and in whatever order its branches were pushed and merged: the
\* breaks a gate demotes to changes are no break of the release (D-76).  Lists
\* of values are left out, of which the gate only takes notes, and so is a
\* pull request CI judged against the release before.
BreaksAreNamed == \A rel \in release : \A i \in DOMAIN rel.served :
  \/ i \in named \/ JudgedBeforeTag(i)
  \/ i \in DOMAIN main /\ ~CallerBroken(WithoutLists(rel.served[i]), WithoutLists(main[i]))

\* The comparison is sound: a change to a tool that breaks no caller by it and
\* that it takes no note of refuses nothing a caller may send and returns
\* nothing it does not expect.
Sound(was, now) ==
  BrokenFields(was, now) = {} /\ ValueNotes(was, now) = {} => ~CallerBroken(was, now)
QuietChangesAreSafe ==
  /\ \A p \in PRs : Open(p) => \A i \in DOMAIN pr[p].base \cap DOMAIN pr[p].head :
       Sound(pr[p].base[i], pr[p].head[i])
  /\ \A rel \in release : \A i \in DOMAIN rel.served \cap DOMAIN main :
       Sound(rel.served[i], main[i])

\* Doing what a refusal says is enough: the same branch is not refused again
\* unless main was merged into it or a release was tagged.
AFixIsEnough == \A p \in PRs : Open(p) /\ pr[p].fixed => pr[p].verdict # "refused"

\* A change a release ships is in that release's notes, if its branch had seen
\* every cut when it was merged and no release was waiting for its tag, and it
\* was not itself a cut that leaves [Unreleased] in place.
NotesTellAll == \A p \in PRs :
  pr[p].stage = "merged" /\ pr[p].watched /\ pr[p].current /\ pr[p].cut # "kept"
    => pr[p].entry = pr[p].ships - 1
=============================================================================
