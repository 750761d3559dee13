----------------------------- MODULE ManageRecord -----------------------------
(***************************************************************************)
(* manage_person, manage_organization, manage_activity and manage_note     *)
(* (internal/tools and internal/pipedrive, a file of each per resource) on *)
(* one record that other calls and people in Pipedrive work on too.  The   *)
(* four share their handlers' shape and differ in what they validate, in   *)
(* the request an input becomes, and in their deletes.                     *)
(*                                                                         *)
(* A few fields stand for the rest: org_id and deal_id for the ids,        *)
(* address and subject for the plain texts, first_name for both parts of a *)
(* name, which is taken to read like the name derived from it, and emails  *)
(* for phones.  A request passes three shapes: what the caller gave, what  *)
(* the tools layer makes of it and predicts with, and what is left of that *)
(* on the wire.  Texts in a collection are sequences of characters, since  *)
(* its projection joins them; an id, whose digits hold no mark, is one.    *)
(***************************************************************************)
EXTENDS Naturals, Sequences

CONSTANTS
  Sessions,   \* tool calls
  Inputs,     \* Inputs[k]: what callers may ask for, see InputsAssumption
  Starts,     \* Starts[k]: the records Pipedrive may hold at first
  Edits,      \* Edits[k]: what people may change in Pipedrive
  NoVersion,  \* an omitted expect_version
  TooLong,    \* note contents above noteContentMaxBytes
  Characters, \* what the texts of a contact point are made of
  People,     \* the ids of persons
  MaxEdits    \* bound on edits made in Pipedrive itself

Kinds == {"person", "organization", "activity", "note"}
PersonFields == {"name", "first_name", "emails", "org_id"}
OrganizationFields == {"name", "address"}
ActivityFields == {"subject", "done", "person_id", "participants"}
NoteFields == {"content", "deal_id", "org_id"}
Anchors == {"deal_id", "org_id"}
FieldsOf == [person |-> PersonFields, organization |-> OrganizationFields,
             activity |-> ActivityFields, note |-> NoteFields]
ActivityActions == {"create", "update", "complete", "reopen", "delete"}
ActionsOf == [k \in Kinds |->
  IF k = "activity" THEN ActivityActions ELSE {"create", "update", "delete"}]
Transitions == {"complete", "reopen"}
Collections == {"emails", "participants"}
Blank == ""   \* a plain field that is not set
EmptyOf(f) == IF f \in Collections THEN <<>> ELSE Blank
Nothing == [f \in {} |-> Blank]

\* The marks of a projection.  What strconv.Quote makes of a quote in a text is
\* one element here: with the backslashes escaped too, its two characters are
\* never read otherwise.
Comma == ","
QuoteMark == "'"
EscapedQuote == "\\'"
PrimaryMark == "*"
PrimaryFlag == "|*"

ContactPoints == [value : Seq(Characters), label : Seq(Characters), primary : BOOLEAN]
Participants == [person : People, primary : BOOLEAN]

\* The structs of internal/pipedrive, as far as a projection looks into them.
HoldsItsTypes(r) ==
  /\ "emails" \in DOMAIN r => r.emails \in Seq(ContactPoints)
  /\ "participants" \in DOMAIN r => r.participants \in Seq(Participants)
  /\ "person_id" \in DOMAIN r => r.person_id \in People \cup {Blank}

ASSUME CharactersAssumption == EscapedQuote \notin Characters
ASSUME PeopleAssumption == People \cap {Comma, PrimaryFlag} = {}
\* given is a function from the fields the caller passes.
ASSUME InputsAssumption == \A k \in Kinds : \A i \in Inputs[k] :
  /\ i.action \in ActionsOf[k]
  /\ DOMAIN i.given \subseteq FieldsOf[k] /\ i.overwrite \subseteq FieldsOf[k]
  /\ i.checks \in BOOLEAN /\ i.dryRun \in BOOLEAN
  /\ HoldsItsTypes(i.given)
ASSUME EditsAssumption == \A k \in Kinds : \A e \in Edits[k] :
  DOMAIN e \subseteq FieldsOf[k] \ {"person_id"} /\ HoldsItsTypes(e)
ASSUME NoVersionAssumption == NoVersion \notin Nat
ASSUME MaxEditsAssumption == MaxEdits \in Nat

VARIABLES
  kind,       \* which of the four resources the record is of
  floor,      \* PIPEDRIVE_DRY_RUN
  lone,       \* a note hangs off one record alone, see MovedOff
  rec, alive, \* the record, and that it is not deleted
  stamp,      \* its update_time
  edits,      \* edits made in Pipedrive so far
  at,         \* at[s]: "idle", "get", "decide", "send" or "done"
  input,      \* input[s]: what it was called with
  expect,     \* expect[s]: its expect_version
  dry,        \* dry[s]: its dry_run, floor included
  before, seenAlive, version,  \* what s read
  outcome,    \* outcome[s]: how it ended
  effect, verdict,             \* its write, as WriteOnce has it
  \* history, for the properties
  raced,      \* raced[s]: others changed the record between s's read and write
  overtaken,  \* overtaken[s]: update_time moved between the caller's read and s's
  gone        \* gone[s]: the record has been deleted ever since s was called

recordVars == <<rec, alive, stamp, edits>>
callVars == <<kind, floor, lone, input, expect, dry>>
readVars == <<before, seenAlive, version>>
writeVars == <<effect, verdict>>
pastVars == <<raced, overtaken, gone>>
handlerVars == <<recordVars, callVars, at, readVars, outcome, writeVars, pastVars>>

Write == INSTANCE WriteOnce WITH Writes <- Sessions

-----------------------------------------------------------------------------
\* What a field projects to for the diff and the guard: "not set" is <<>>.

\* strconv.Quote: what is in the text cannot end it.
Escaped(text) ==
  [n \in DOMAIN text |-> IF text[n] = QuoteMark THEN EscapedQuote ELSE text[n]]
Quote(text) == <<QuoteMark>> \o Escaped(text) \o <<QuoteMark>>

\* projectCollection: every element in full, joined in stored order.
Joined(parts) ==
  LET upTo[n \in 0 .. Len(parts)] ==
        IF n = 0 THEN <<>>
        ELSE upTo[n - 1] \o (IF n = 1 THEN <<>> ELSE <<Comma>>) \o parts[n]
  IN  upTo[Len(parts)]

\* Slip: value and label between quotes, and what is in them as it is.
ContactPointUnescaped(cp) ==
  <<QuoteMark>> \o cp.value \o <<QuoteMark, QuoteMark>> \o cp.label \o <<QuoteMark>>
    \o (IF cp.primary THEN <<PrimaryMark>> ELSE <<>>)

\* projectContactPoints.
ContactPoint(cp) ==
  Quote(cp.value) \o Quote(cp.label) \o (IF cp.primary THEN <<PrimaryMark>> ELSE <<>>)

\* projectParticipants.
Participant(p) == <<p.person>> \o (IF p.primary THEN <<PrimaryFlag>> ELSE <<>>)

\* The field tables' projections.  projectID, projectOptID, projectAddress and
\* projectBool render what holds nothing, or false, as a plain text does a blank.
Project(f, v) ==
  CASE f = "emails" -> Joined([n \in DOMAIN v |-> ContactPoint(v[n])])
    [] f = "participants" -> Joined([n \in DOMAIN v |-> Participant(v[n])])
    [] OTHER -> IF v = Blank THEN <<>> ELSE <<v>>

Projected(r) == [f \in DOMAIN r |-> Project(f, r[f])]

-----------------------------------------------------------------------------
\* The requests.

Only(f, v) == [g \in {f} |-> v]
Overlay(r, req) == [f \in DOMAIN r |-> IF f \in DOMAIN req THEN req[f] ELSE r[f]]
Holds(req, f) == f \in DOMAIN req /\ req[f] # EmptyOf(f)

\* PrimaryParticipant of a call that names a person: the others it names stay
\* on as non-primary.
PrimaryParticipant(person, others) ==
  LET out[n \in 0 .. Len(others)] ==
        IF n = 0 THEN <<[person |-> person, primary |-> TRUE]>>
        ELSE IF others[n].person = person THEN out[n - 1]
        ELSE Append(out[n - 1], [person |-> others[n].person, primary |-> FALSE])
  IN  out[Len(others)]

\* person_id turned into the participants entry that sets it.
FoldPerson(req) ==
  IF ~Holds(req, "person_id") THEN req
  ELSE LET others == IF "participants" \in DOMAIN req THEN req.participants ELSE <<>>
       IN [f \in DOMAIN req \cup {"participants"} |->
             IF f = "participants" THEN PrimaryParticipant(req.person_id, others)
             ELSE req[f]]

\* Slip: the person folded in by the client alone.
ActivityRequestUnfolded(i) ==
  CASE i.action = "complete" -> Only("done", "true")
    [] i.action = "reopen" -> Only("done", Blank)
    [] OTHER -> i.given

\* activityRequestFor: a transition sends done and nothing the caller added.
ActivityRequest(i) ==
  CASE i.action = "complete" -> Only("done", "true")
    [] i.action = "reopen" -> Only("done", Blank)
    [] OTHER -> FoldPerson(i.given)

\* Slip: a note's empty field taken for a value to predict with.
NoteRequestAsGiven(i) == i.given

\* noteAfterUpdate: v1's fields are no pointers, so a blank and 0 leave one alone.
NoteRequest(i) == [f \in {g \in DOMAIN i.given : i.given[g] # Blank} |-> i.given[f]]

\* What the tools layer predicts with and hands to the client; a DELETE has no
\* body.
RequestFor(k, i) ==
  CASE i.action = "delete" -> Nothing
    [] i.action # "delete" /\ k = "activity" -> ActivityRequest(i)
    [] i.action # "delete" /\ k = "note" -> NoteRequest(i)
    [] OTHER -> i.given

\* What encoding/json leaves of a request: omitempty drops an empty list and,
\* of a create, whatever is empty.
Kept(action, req) ==
  [f \in {g \in DOMAIN req :
           (action = "create" \/ g \in Collections) => req[g] # EmptyOf(g)} |-> req[f]]

PersonWire(action, req) == Kept(action, req)
OrganizationWire(action, req) == Kept(action, req)

\* An activity's person_id goes as a participant alone.
ActivityWire(action, req) ==
  LET body == FoldPerson(req)
  IN Kept(action, [f \in DOMAIN body \ {"person_id"} |-> body[f]])

\* A note's fields are no pointers, in an update either.
NoteWire(action, req) == Kept("create", req)

Wire(k, action, req) ==
  CASE k = "person" -> PersonWire(action, req)
    [] k = "organization" -> OrganizationWire(action, req)
    [] k = "activity" -> ActivityWire(action, req)
    [] k = "note" -> NoteWire(action, req)

WireOf(s) == Wire(kind, input[s].action, RequestFor(kind, input[s]))

Anchored(given) == Holds(given, "deal_id") \/ Holds(given, "org_id")

\* The refusals that need no read, in the tools layer and again in the client.

\* Slip: an update's shape left for Pipedrive to judge.
PersonInvalidCreatesOnly(i) ==
  i.action = "create" /\ (Holds(i.given, "name") <=> Holds(i.given, "first_name"))

\* Validate of CreatePersonRequest and UpdatePersonRequest: a name or its parts.
PersonInvalid(i) ==
  \/ i.action = "create" /\ (Holds(i.given, "name") <=> Holds(i.given, "first_name"))
  \/ i.action = "update" /\ {"name", "first_name"} \subseteq DOMAIN i.given

OrganizationInvalid(i) == i.action = "create" /\ ~Holds(i.given, "name")
ActivityInvalid(i) == i.action = "create" /\ ~Holds(i.given, "subject")

\* validateNoteContent and hasNoteAnchor, and UpdateNote's check of an empty update.
NoteInvalid(i) ==
  LET content == Holds(i.given, "content") IN
  \/ i.action = "create" /\ (~content \/ ~Anchored(i.given))
  \/ i.action = "update" /\ ~content /\ ~Anchored(i.given)
  \/ i.action # "delete" /\ content /\ i.given.content \in TooLong

-----------------------------------------------------------------------------
NoInput == [action |-> "update", given |-> Nothing, overwrite |-> {},
            checks |-> FALSE, dryRun |-> FALSE]

RecordInit ==
  /\ kind \in Kinds
  /\ floor \in BOOLEAN
  /\ rec \in Starts[kind] /\ alive = TRUE
  /\ lone \in BOOLEAN
  /\ lone => kind = "note" /\ ~\A f \in Anchors : Holds(rec, f)
  /\ stamp = 0 /\ edits = 0
  /\ at = [s \in Sessions |-> "idle"]
  /\ input = [s \in Sessions |-> NoInput]
  /\ expect = [s \in Sessions |-> NoVersion]
  /\ dry = [s \in Sessions |-> FALSE]
  /\ before = [s \in Sessions |-> rec]
  /\ seenAlive = [s \in Sessions |-> TRUE]
  /\ version = [s \in Sessions |-> 0]
  /\ outcome = [s \in Sessions |-> "none"]
  /\ Write!Init
  /\ raced = [s \in Sessions |-> FALSE]
  /\ overtaken = [s \in Sessions |-> FALSE]
  /\ gone = [s \in Sessions |-> FALSE]

Goto(s, label) == at' = [at EXCEPT ![s] = label] /\ UNCHANGED outcome

Finish(s, how) ==
  /\ at' = [at EXCEPT ![s] = "done"]
  /\ outcome' = [outcome EXCEPT ![s] = how]

\* A handler: the operator's flag, the checks that need no read, and the
\* dispatch.  A create has no record to read; what it reports is CreateRecord's.
Dispatch(s, i, invalid) ==
  LET d == i.dryRun \/ floor IN
  /\ at[s] = "idle"
  /\ input' = [input EXCEPT ![s] = i]
  /\ expect' = [expect EXCEPT ![s] = IF i.checks THEN stamp ELSE NoVersion]
  /\ dry' = [dry EXCEPT ![s] = d]
  /\ gone' = [gone EXCEPT ![s] = ~alive]
  /\ IF invalid THEN Finish(s, "invalid")
     ELSE IF i.action # "create" THEN Goto(s, "get")
     ELSE IF d THEN Finish(s, "rehearsed")
     ELSE Goto(s, "send")
  /\ UNCHANGED <<kind, floor, lone, recordVars, readVars, writeVars, raced, overtaken>>

ManagePerson(s, i) == kind = "person" /\ Dispatch(s, i, PersonInvalid(i))
ManageOrganization(s, i) == kind = "organization" /\ Dispatch(s, i, OrganizationInvalid(i))
ManageActivity(s, i) == kind = "activity" /\ Dispatch(s, i, ActivityInvalid(i))
ManageNote(s, i) == kind = "note" /\ Dispatch(s, i, NoteInvalid(i))

\* The read: GetPerson and the like, or readNoteForWrite.
Get(s) ==
  /\ at[s] = "get"
  /\ before' = [before EXCEPT ![s] = rec]
  /\ seenAlive' = [seenAlive EXCEPT ![s] = alive]
  /\ version' = [version EXCEPT ![s] = stamp]
  /\ Goto(s, "decide")
  /\ UNCHANGED <<recordVars, callVars, writeVars, pastVars>>

GetFails(s) ==
  /\ at[s] = "get"
  /\ Finish(s, "unread")
  /\ UNCHANGED <<recordVars, callVars, readVars, writeVars, pastVars>>

VersionMatches(s) == expect[s] = NoVersion \/ expect[s] = version[s]

ChangedFields(r1, r2) ==
  {f \in DOMAIN r1 : Projected(r1)[f] # Projected(r2)[f]}

\* What the tools layer expects a write to change (the four AfterUpdates).
Predicted(s) ==
  ChangedFields(before[s], Overlay(before[s], RequestFor(kind, input[s])))

\* guardedWrite.run between its read and its write; some actions carry the
\* caller's authority with them.
Guard(s, selfAuthorizing) ==
  LET held == {f \in Predicted(s) : Projected(before[s])[f] # <<>>} IN
  /\ at[s] = "decide" /\ input[s].action # "delete"
  /\ IF ~VersionMatches(s) THEN Finish(s, "stale")
     ELSE IF Predicted(s) = {} THEN Finish(s, "noop")
     ELSE IF ~(selfAuthorizing \/ held \subseteq input[s].overwrite)
          THEN Finish(s, "refused")
     ELSE IF dry[s] THEN Finish(s, "rehearsed")
     ELSE Goto(s, "send")
  /\ UNCHANGED <<recordVars, callVars, readVars, writeVars, pastVars>>

UpdatePerson(s) == kind = "person" /\ Guard(s, FALSE)
UpdateOrganization(s) == kind = "organization" /\ Guard(s, FALSE)
WriteActivity(s) == kind = "activity" /\ Guard(s, input[s].action \in Transitions)
UpdateNote(s) == kind = "note" /\ Guard(s, FALSE)

\* A delete between its read and the DELETE.
Delete(s, already) ==
  /\ at[s] = "decide" /\ input[s].action = "delete"
  /\ IF ~VersionMatches(s) THEN Finish(s, "stale")
     ELSE IF already THEN Finish(s, "noop")
     ELSE IF dry[s] THEN Finish(s, "rehearsed")
     ELSE Goto(s, "send")
  /\ UNCHANGED <<recordVars, callVars, readVars, writeVars, pastVars>>

\* Nothing a person, an organization or an activity is read as tells that it
\* is deleted; an inactive note is not deleted again.
DeletePerson(s) == kind = "person" /\ Delete(s, FALSE)

\* Slip: the version looked at for the other three alone.
DeleteOrganizationUnchecked(s) ==
  /\ kind = "organization" /\ at[s] = "decide" /\ input[s].action = "delete"
  /\ IF dry[s] THEN Finish(s, "rehearsed") ELSE Goto(s, "send")
  /\ UNCHANGED <<recordVars, callVars, readVars, writeVars, pastVars>>

DeleteOrganization(s) == kind = "organization" /\ Delete(s, FALSE)
DeleteActivity(s) == kind = "activity" /\ Delete(s, FALSE)

DeleteNote(s) == kind = "note" /\ Delete(s, ~seenAlive[s])

Written(s) ==
  /\ at[s] = "send"
  /\ Write!TellOk(s)
  /\ Finish(s, "written")
  /\ UNCHANGED <<recordVars, callVars, readVars, pastVars>>

NotWritten(s) ==
  /\ at[s] = "send"
  /\ Write!TellNo(s) \/ Write!TellMaybe(s)
  /\ Finish(s, "failed")
  /\ UNCHANGED <<recordVars, callVars, readVars, pastVars>>

-----------------------------------------------------------------------------
\* Pipedrive: a person's name and its parts move together, and person_id is
\* whoever is the primary participant.
Primary(ps) ==
  IF \E n \in DOMAIN ps : ps[n].primary
  THEN ps[CHOOSE n \in DOMAIN ps : ps[n].primary].person ELSE Blank

Derived(k, wire) ==
  CASE k = "person" /\ "name" \in DOMAIN wire -> Only("first_name", wire.name)
    [] k = "person" /\ "first_name" \in DOMAIN wire -> Only("name", wire.first_name)
    [] k = "activity" /\ "participants" \in DOMAIN wire ->
         Only("person_id", Primary(wire.participants))
    [] OTHER -> Nothing

\* The anchors a note sent another one is taken off.  Of this the repository
\* has two accounts, and lone is which is true: UpdateNoteRequest's "an omitted
\* field keeps its stored value", or get_note's "a note anchors to exactly one
\* of a deal, person, organization, lead or project".  Nothing says which of two
\* that are sent together gives way, and both are kept here.
MovedOff(k, wire) ==
  IF lone /\ k = "note" /\ Anchors \cap DOMAIN wire # {} THEN Anchors \ DOMAIN wire ELSE {}

After(k, r, wire) ==
  Overlay(Overlay(Overlay(r, wire), Derived(k, wire)), [f \in MovedOff(k, wire) |-> Blank])

\* A record as Pipedrive keeps it: what it derives is derived.
Settled(k, r) ==
  /\ k = "person" => r.name = r.first_name
  /\ k = "activity" => r.person_id = Primary(r.participants)

ASSUME StartsAssumption == \A k \in Kinds : \A r \in Starts[k] :
  DOMAIN r = FieldsOf[k] /\ HoldsItsTypes(r) /\ Settled(k, r)

\* The shapes it takes.
Accepts(k, action, wire) ==
  /\ k = "person" =>
       /\ ~{"name", "first_name"} \subseteq DOMAIN wire
       /\ action = "create" => {"name", "first_name"} \cap DOMAIN wire # {}
  /\ (k = "organization" /\ action = "create") => "name" \in DOMAIN wire
  /\ k = "activity" =>
       /\ "person_id" \notin DOMAIN wire
       /\ action = "create" => "subject" \in DOMAIN wire
  /\ (k = "note" /\ action = "create") =>
       "content" \in DOMAIN wire /\ Anchors \cap DOMAIN wire # {}

\* The record becomes r, alive or not; every call but `by` is overtaken by it.
Become(r, a, by) ==
  /\ rec' = r /\ alive' = a
  /\ stamp' \in {stamp, stamp + 1}
  /\ raced' = [s \in Sessions |->
       raced[s] \/ (s \notin by /\ effect[s] = "open" /\ <<r, a>> # <<rec, alive>>
                    /\ at[s] \notin {"idle", "get"})]
  /\ overtaken' = [s \in Sessions |->
       overtaken[s] \/ (at[s] = "get" /\ stamp' # stamp)]
  /\ gone' = [s \in Sessions |-> gone[s] /\ ~a]
  /\ UNCHANGED <<callVars, at, readVars, outcome>>

\* The write of s takes effect, perhaps after s was told nobody knows.  What a
\* create makes is another record.
Apply(s) ==
  /\ at[s] = "send" \/ verdict[s] = "maybe"
  /\ Accepts(kind, input[s].action, WireOf(s))
  /\ Write!Make(s)
  /\ CASE input[s].action = "create" ->
            UNCHANGED <<recordVars, callVars, at, readVars, outcome, pastVars>>
       [] input[s].action = "delete" -> Become(rec, FALSE, {s}) /\ UNCHANGED edits
       [] OTHER -> Become(After(kind, rec, WireOf(s)), alive, {s}) /\ UNCHANGED edits

Lapse(s) ==
  /\ Write!Expire(s)
  /\ UNCHANGED <<recordVars, callVars, at, readVars, outcome, pastVars>>

\* Somebody changes, deletes or restores the record in Pipedrive.
Edit ==
  /\ edits < MaxEdits
  /\ edits' = edits + 1
  /\ \/ \E e \in Edits[kind] : Become(After(kind, rec, e), alive, {})
     \/ Become(rec, ~alive, {})
  /\ UNCHANGED writeVars

Step(s) ==
  \/ \E i \in Inputs[kind] :
       ManagePerson(s, i) \/ ManageOrganization(s, i) \/ ManageActivity(s, i) \/ ManageNote(s, i)
  \/ Get(s) \/ GetFails(s)
  \/ UpdatePerson(s) \/ UpdateOrganization(s) \/ WriteActivity(s) \/ UpdateNote(s)
  \/ DeletePerson(s) \/ DeleteOrganization(s) \/ DeleteActivity(s) \/ DeleteNote(s)
  \/ Written(s) \/ NotWritten(s) \/ Apply(s) \/ Lapse(s)

RecordNext == (\E s \in Sessions : Step(s)) \/ Edit

RecordSpec == RecordInit /\ [][RecordNext]_handlerVars

-----------------------------------------------------------------------------
\* Every variable keeps its kind and what is held and read stays a record of its
\* resource, whatever is asked, sent and edited (the Update and Create structs of
\* internal/pipedrive).
RecordTypeOK ==
  /\ kind \in Kinds /\ floor \in BOOLEAN /\ lone \in BOOLEAN
  /\ DOMAIN rec = FieldsOf[kind] /\ HoldsItsTypes(rec) /\ alive \in BOOLEAN
  /\ stamp \in Nat /\ edits \in 0 .. MaxEdits
  /\ at \in [Sessions -> {"idle", "get", "decide", "send", "done"}]
  /\ input \in [Sessions -> Inputs[kind] \cup {NoInput}]
  /\ expect \in [Sessions -> Nat \cup {NoVersion}]
  /\ dry \in [Sessions -> BOOLEAN]
  /\ DOMAIN before = Sessions
  /\ \A s \in Sessions : DOMAIN before[s] = FieldsOf[kind] /\ HoldsItsTypes(before[s])
  /\ seenAlive \in [Sessions -> BOOLEAN]
  /\ version \in [Sessions -> Nat]
  /\ outcome \in [Sessions -> {"none", "invalid", "unread", "stale", "noop", "refused",
                               "rehearsed", "written", "failed"}]
  /\ effect \in [Sessions -> {"open", "made", "void"}]
  /\ verdict \in [Sessions -> {"none", "ok", "no", "maybe"}]
  /\ raced \in [Sessions -> BOOLEAN] /\ overtaken \in [Sessions -> BOOLEAN]
  /\ gone \in [Sessions -> BOOLEAN]

\* What Pipedrive sets of itself with what s sends.
DerivedFields(s) == DOMAIN Derived(kind, WireOf(s))

\* What it takes away of itself: a note sent an anchor may be moved off another.
MovedOffBy(s) == MovedOff(kind, WireOf(s))

LosesOnlyNamed(s) ==
  (/\ effect[s] = "open" /\ effect'[s] = "made"
   /\ ~raced[s] /\ input[s].action \notin Transitions) =>
     \A f \in FieldsOf[kind] : (rec[f] # EmptyOf(f) /\ rec'[f] # rec[f]) =>
       f \in input[s].overwrite \cup DerivedFields(s) \cup MovedOffBy(s)

\* No call's write empties or replaces a value that was there when the call
\* looked, unless its caller named the field, the action is about it, or
\* Pipedrive derives it from one that is sent (requireOverwrite over the field
\* tables; PrimaryParticipant's comment).  One loss is excepted, and is there if a
\* note hangs off one record alone: set org_id, and the guard, which predicts by
\* noteAfterUpdate's overlay, is not asked about the deal the note goes off.
NoUnnamedLoss == [][\A s \in Sessions : LosesOnlyNamed(s)]_handlerVars

\* A call that is told the record already looks that way asked for nothing the
\* record did not have, to the last part of a collection (projectCollection's
\* comment; D-39).
NoopIsTrue == \A s \in Sessions :
  (outcome[s] = "noop" /\ input[s].action # "delete") =>
    \A f \in FieldsOf[kind] \ MovedOffBy(s) :
      After(kind, before[s], WireOf(s))[f] = before[s][f]

\* What is rehearsed or sent has a shape Pipedrive takes: a rehearsal is refused
\* on the same input a real write would be (createPersonAction's comment).
ShapesAreTaken == \A s \in Sessions :
  (at[s] = "send" \/ outcome[s] = "rehearsed") =>
    Accepts(kind, input[s].action, WireOf(s))

\* Of the four, only a note tells that it is deleted; a delete of one asked for
\* when it was, and not restored meanwhile, sends and claims nothing, also when
\* the first one's answer was lost (deleteNoteAction).
NotesDeletedOnce == \A s \in Sessions :
  (kind = "note" /\ gone[s] /\ input[s].action = "delete") =>
    /\ at[s] # "send" /\ effect[s] # "made"
    /\ outcome[s] \notin {"rehearsed", "written", "failed"}

\* A rehearsal changes nothing, then or later, nor does a call that stopped
\* short, on any path of the four handlers: create, guarded write, transition
\* or delete.  A version passed and overtaken stops every write and delete, and
\* a note that is deleted already is not deleted again.
NoUncalledForWrite ==
  /\ NotesDeletedOnce
  /\ \A s \in Sessions : effect[s] = "made" =>
       /\ ~dry[s] /\ ~floor
       /\ outcome[s] \in {"none", "written", "failed"}
       /\ ~(expect[s] # NoVersion /\ overtaken[s])

\* The fields that are as the call leaves them.
WrittenBy(s) == FieldsOf[kind] \ (DerivedFields(s) \cup MovedOffBy(s))

RehearsalNames(s, fields) ==
  (outcome[s] = "rehearsed" /\ input[s].action \notin {"create", "delete"}) =>
    Predicted(s) \cap fields =
      ChangedFields(before[s], After(kind, before[s], WireOf(s))) \cap fields

\* What the output schemas say of `changed` (persons.go): "On a dry run, the
\* fields it would alter", those apart that Pipedrive derives and the anchors it
\* may take a note off.
RehearsalNamesTheWrite == \A s \in Sessions : RehearsalNames(s, WrittenBy(s))

\* That of the fields that hold one value and are written as themselves
\* (personAfterUpdate and its like against the client's Update methods).
PlainRehearsalNamesTheWrite == \A s \in Sessions :
  RehearsalNames(s, WrittenBy(s) \ (Collections \cup {"person_id"}))
=============================================================================
