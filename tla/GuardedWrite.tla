----------------------------- MODULE GuardedWrite -----------------------------
(***************************************************************************)
(* guardedWrite.run (internal/tools/guard.go), the sequence every update   *)
(* and transition of manage_deal, manage_person, manage_organization,      *)
(* manage_activity and manage_note goes through: read, expect_version,     *)
(* prediction, diff, overwrite guard, dry-run gate, write, report.         *)
(*                                                                         *)
(* Several calls and people in Pipedrive's own editor work on one record.  *)
(* The read and the write are two requests with no compare-and-set between *)
(* them, update_time is the only version and counts seconds, and the write *)
(* is the one WriteOnce describes: it may take effect after the caller was *)
(* told that nobody knows.                                                 *)
(***************************************************************************)
EXTENDS FieldGuard, Naturals

CONSTANTS
  Sessions,   \* tool calls
  Inputs,     \* what callers may ask for, see InputsAssumption
  Starts,     \* the records Pipedrive may hold at first
  Derived,    \* fields Pipedrive sets itself on a write, such as a name
  NoVersion,  \* an omitted expect_version
  MaxTime,    \* bound on the clock
  MaxEdits    \* bound on edits made in Pipedrive itself

\* A request, the overwrite list, OverwriteAll (set for transitions alone),
\* whether expect_version is passed, and dry_run.
ASSUME InputsAssumption == \A i \in Inputs :
  /\ DOMAIN i.req \subseteq Fields /\ \A f \in DOMAIN i.req : i.req[f] \in Values
  /\ i.overwrite \subseteq Names
  /\ i.all \in BOOLEAN /\ i.checks \in BOOLEAN /\ i.dryRun \in BOOLEAN
ASSUME StartsAssumption == Starts \subseteq Records
ASSUME DerivedAssumption == Derived \subseteq Fields
ASSUME NoVersionAssumption == NoVersion \notin Nat
ASSUME BoundsAssumption == MaxTime \in Nat /\ MaxEdits \in Nat

VARIABLES
  floor,     \* PIPEDRIVE_DRY_RUN, for the life of the server
  \* Pipedrive
  rec,       \* the record
  stamp,     \* its update_time
  time,      \* the clock, in seconds
  edits,     \* edits made in Pipedrive so far
  \* the calls
  pc,        \* pc[s]: "idle", "get", "guard", "put" or "done"
  input,     \* input[s]: what it was called with
  expect,    \* expect[s]: its expect_version
  dry,       \* dry[s]: its dry_run, floor included
  before,    \* before[s]: the record as read
  version,   \* version[s]: the update_time as read
  changed,   \* changed[s]: the fields it names in its report
  outcome,   \* outcome[s]: how it ended
  \* its write, as WriteOnce has it, and the record Pipedrive echoes
  effect, verdict, echo,
  \* history, for the properties
  since,     \* since[s]: when others changed the record after the caller read it
  raced,     \* raced[s]: fields others changed between the read and the write
  replaced,  \* replaced[s]: requested fields whose value the write replaced
  altered,   \* altered[s]: fields the write altered
  maker,     \* the call whose write the record was left by, none after an edit
  found      \* found[s]: maker as of s's read

recordVars == <<rec, stamp, time, edits, maker>>
callVars == <<input, expect, dry>>
readVars == <<before, version, found>>
reportVars == <<changed, outcome>>
writeVars == <<effect, verdict>>
appliedVars == <<echo, replaced, altered>>
vars == <<floor, recordVars, pc, callVars, readVars, reportVars, writeVars,
          appliedVars, since, raced>>

Write == INSTANCE WriteOnce WITH Writes <- Sessions

NoInput == [req |-> [f \in {} |-> Blank], overwrite |-> {},
            all |-> FALSE, checks |-> FALSE, dryRun |-> FALSE]

Init ==
  /\ floor \in BOOLEAN
  /\ rec \in Starts
  /\ stamp = 0 /\ time = 0 /\ edits = 0
  /\ pc = [s \in Sessions |-> "idle"]
  /\ input = [s \in Sessions |-> NoInput]
  /\ expect = [s \in Sessions |-> NoVersion]
  /\ dry = [s \in Sessions |-> FALSE]
  /\ before = [s \in Sessions |-> rec]
  /\ version = [s \in Sessions |-> 0]
  /\ changed = [s \in Sessions |-> {}]
  /\ outcome = [s \in Sessions |-> "none"]
  /\ Write!Init
  /\ echo = [s \in Sessions |-> rec]
  /\ since = [s \in Sessions |-> {}]
  /\ raced = [s \in Sessions |-> {}]
  /\ replaced = [s \in Sessions |-> {}]
  /\ altered = [s \in Sessions |-> {}]
  /\ maker = {}
  /\ found = [s \in Sessions |-> {}]

Goto(s, label) == pc' = [pc EXCEPT ![s] = label]

Finish(s, how, names) ==
  /\ Goto(s, "done")
  /\ outcome' = [outcome EXCEPT ![s] = how]
  /\ changed' = [changed EXCEPT ![s] = names]

-----------------------------------------------------------------------------
\* The manage_* handlers: the operator's flag is a floor.
EffectiveDryRun(own) == own \/ floor

\* A caller has seen the record and asks for a change, with the update_time
\* it saw if it wants the check.
Call(s, i) ==
  /\ pc[s] = "idle"
  /\ Goto(s, "get")
  /\ input' = [input EXCEPT ![s] = i]
  /\ expect' = [expect EXCEPT ![s] = IF i.checks THEN stamp ELSE NoVersion]
  /\ dry' = [dry EXCEPT ![s] = EffectiveDryRun(i.dryRun)]
  /\ UNCHANGED <<floor, recordVars, readVars, reportVars, writeVars,
                 appliedVars, since, raced>>

\* Get answers.
Get(s) ==
  /\ pc[s] = "get"
  /\ before' = [before EXCEPT ![s] = rec]
  /\ version' = [version EXCEPT ![s] = stamp]
  /\ found' = [found EXCEPT ![s] = maker]
  /\ Goto(s, "guard")
  /\ UNCHANGED <<floor, recordVars, callVars, reportVars, writeVars,
                 appliedVars, since, raced>>

\* Get fails, or refuses what it read as an archived deal is refused.
GetFails(s) ==
  /\ pc[s] = "get"
  /\ Finish(s, "unread", {})
  /\ UNCHANGED <<floor, recordVars, callVars, readVars, writeVars,
                 appliedVars, since, raced>>

\* Slip: versions compared by order.
VersionMatchesOrNewer(want, got) == want = NoVersion \/ want <= got

\* checkExpectVersion.
VersionMatches(want, got) == want = NoVersion \/ want = got

\* Slip: the diff taken over what the call asks for.
PredictedRequested(s) == {NameOf[f] : f \in DOMAIN input[s].req}

\* The fields the write would change.
Predicted(s) ==
  ChangedNames(Table(input[s].req), before[s], Predict(before[s], input[s].req))

\* run between its read and its write.
Guard(s) ==
  /\ pc[s] = "guard"
  /\ IF ~VersionMatches(expect[s], version[s]) THEN Finish(s, "stale", {})
     ELSE IF Predicted(s) = {} THEN Finish(s, "noop", {})
     ELSE IF ~Permitted(Table(input[s].req), before[s], Predicted(s),
                        input[s].overwrite, input[s].all)
          THEN Finish(s, "refused", {})
     ELSE IF dry[s] THEN Finish(s, "rehearsed", Predicted(s))
     ELSE Goto(s, "put") /\ UNCHANGED reportVars
  /\ UNCHANGED <<floor, recordVars, callVars, readVars, writeVars,
                 appliedVars, since, raced>>

\* Slip: the report is the prediction.
WrittenAsPredicted(s) ==
  /\ pc[s] = "put"
  /\ Write!TellOk(s)
  /\ Finish(s, "written", Predicted(s))
  /\ UNCHANGED <<floor, recordVars, callVars, readVars, appliedVars, since, raced>>

\* Put returned the record as Pipedrive stored it.
Written(s) ==
  /\ pc[s] = "put"
  /\ Write!TellOk(s)
  /\ Finish(s, "written", ChangedNames(Table(input[s].req), before[s], echo[s]))
  /\ UNCHANGED <<floor, recordVars, callVars, readVars, appliedVars, since, raced>>

\* Put returned an error.
NotWritten(s) ==
  /\ pc[s] = "put"
  /\ Write!TellNo(s) \/ Write!TellMaybe(s)
  /\ Finish(s, "failed", {})
  /\ UNCHANGED <<floor, recordVars, callVars, readVars, appliedVars, since, raced>>

-----------------------------------------------------------------------------
\* What Pipedrive may store of a request: the fields it sets, and whatever it
\* derives from them.
Stored(q) == {r \in Records :
  /\ \A f \in DOMAIN q : r[f] = q[f]
  /\ \A f \in Fields \ (DOMAIN q \cup Derived) : r[f] = rec[f]}

Moved(r) == {f \in Fields : r[f] # rec[f]}

\* The record becomes r now; every call but `by` is overtaken.
BecomeBy(r, by) ==
  /\ rec' = r
  /\ stamp' = time
  /\ maker' = by
  /\ since' = [s \in Sessions |->
       IF s \notin by /\ pc[s] = "get" THEN since[s] \cup {time} ELSE since[s]]
  /\ raced' = [s \in Sessions |->
       IF s \notin by /\ effect[s] = "open"
            /\ (pc[s] \in {"guard", "put"} \/ verdict[s] = "maybe")
       THEN raced[s] \cup Moved(r) ELSE raced[s]]
  /\ UNCHANGED <<floor, time, pc, callVars, readVars, reportVars>>

\* The write of s takes effect, perhaps after s was told nobody knows.
Apply(s) ==
  /\ pc[s] = "put" \/ verdict[s] = "maybe"
  /\ Write!Make(s)
  /\ \E r \in Stored(input[s].req) :
       /\ BecomeBy(r, {s})
       /\ echo' = [echo EXCEPT ![s] = r]
       /\ replaced' = [replaced EXCEPT ![s] =
            {f \in DOMAIN input[s].req : rec[f] # Blank /\ r[f] # rec[f]}]
       /\ altered' = [altered EXCEPT ![s] = Moved(r)]
  /\ UNCHANGED edits

Lapse(s) ==
  /\ Write!Expire(s)
  /\ UNCHANGED <<floor, recordVars, pc, callVars, readVars, reportVars,
                 appliedVars, since, raced>>

\* Somebody changes a field in Pipedrive.
Edit ==
  /\ edits < MaxEdits
  /\ edits' = edits + 1
  /\ \E f \in Fields : \E v \in Values \ {rec[f]} :
       BecomeBy([rec EXCEPT ![f] = v], {})
  /\ UNCHANGED <<writeVars, appliedVars>>

Tick ==
  /\ time < MaxTime
  /\ time' = time + 1
  /\ UNCHANGED <<floor, rec, stamp, edits, maker, pc, callVars, readVars,
                 reportVars, writeVars, appliedVars, since, raced>>

Step(s) ==
  \/ \E i \in Inputs : Call(s, i)
  \/ Get(s) \/ GetFails(s) \/ Guard(s) \/ Written(s) \/ NotWritten(s)
  \/ Apply(s) \/ Lapse(s)

Next == (\E s \in Sessions : Step(s)) \/ Edit \/ Tick

Spec == Init /\ [][Next]_vars

-----------------------------------------------------------------------------
NamesOf(fields) == {NameOf[f] : f \in fields}

\* Every variable holds a value of its kind (guard.go, guardedWrite).
TypeOK ==
  /\ floor \in BOOLEAN
  /\ rec \in Records
  /\ time \in 0 .. MaxTime /\ stamp \in 0 .. time /\ edits \in 0 .. MaxEdits
  /\ pc \in [Sessions -> {"idle", "get", "guard", "put", "done"}]
  /\ input \in [Sessions -> Inputs \cup {NoInput}]
  /\ expect \in [Sessions -> 0 .. MaxTime \cup {NoVersion}]
  /\ dry \in [Sessions -> BOOLEAN]
  /\ before \in [Sessions -> Records]
  /\ version \in [Sessions -> 0 .. MaxTime]
  /\ changed \in [Sessions -> SUBSET Names]
  /\ outcome \in [Sessions -> {"none", "unread", "stale", "noop", "refused",
                               "rehearsed", "written", "failed"}]
  /\ effect \in [Sessions -> {"open", "made", "void"}]
  /\ verdict \in [Sessions -> {"none", "ok", "no", "maybe"}]
  /\ echo \in [Sessions -> Records]
  /\ since \in [Sessions -> SUBSET (0 .. MaxTime)]
  /\ raced \in [Sessions -> SUBSET Fields]
  /\ replaced \in [Sessions -> SUBSET Fields]
  /\ altered \in [Sessions -> SUBSET Fields]
  /\ maker \in SUBSET Sessions
  /\ found \in [Sessions -> SUBSET Sessions]

\* A call that is not a transition never replaces a value in a field it asks
\* for unless its overwrite list names the field, or somebody changed that
\* field while the call was between its read and its write
\* (requireOverwrite; D-30).
NoUnnamedOverwrite == \A s \in Sessions :
  ~input[s].all =>
    \A f \in replaced[s] \ raced[s] : NameOf[f] \in input[s].overwrite

\* The operator's flag, a call's own dry_run, and every way of stopping short
\* of the write leave the record alone, then and later (D-33 and the comment
\* of manageNoteHandler).
OnlyWritesWrite == \A s \in Sessions :
  (\/ floor \/ dry[s]
   \/ outcome[s] \in {"unread", "stale", "noop", "refused", "rehearsed"})
    => effect[s] # "made"

\* A call that passed the expect_version check missed no edit made since the
\* caller read the record, but for edits in the very second the caller read
\* (checkExpectVersion's comment).
VersionCatchesEdits == \A s \in Sessions :
  (/\ expect[s] # NoVersion
   /\ \/ pc[s] = "put"
      \/ outcome[s] \in {"noop", "refused", "rehearsed", "written", "failed"})
    => since[s] \subseteq {expect[s]}

\* Unless somebody else was at the fields in the call's own table meanwhile,
\* a write reports the ones it altered, Pipedrive's own among them, and no
\* other (run: "changed is what the upstream actually altered").
ReportIsExact == \A s \in Sessions :
  (outcome[s] = "written" /\ raced[s] \cap Table(input[s].req) = {})
    => changed[s] = NamesOf(altered[s] \cap Table(input[s].req))

\* A rehearsal names what the same write on the same record then reports,
\* but for what Pipedrive derives.
RehearsalForetells == \A s, t \in Sessions :
  (/\ outcome[s] = "rehearsed" /\ outcome[t] = "written"
   /\ input[s].req = input[t].req /\ before[s] = before[t] /\ raced[t] = {})
    => /\ changed[s] \subseteq changed[t]
       /\ changed[t] \subseteq changed[s] \cup NamesOf(Derived)

\* A caller who was told nobody knows may ask again: a call that finds the
\* record as the same request left it sends nothing (architecture.md, D-54:
\* "the caller has to read the record before trying again").
RetryFindsItDone == \A s, t \in Sessions :
  (found[t] = {s} /\ s # t /\ input[t].req = input[s].req)
    => outcome[t] \in {"none", "stale", "noop"} /\ pc[t] # "put"
=============================================================================
