------------------------------ MODULE ManageDeal ------------------------------
(***************************************************************************)
(* manage_deal (internal/tools/deals.go): update, the six transitions and  *)
(* delete, on one deal that other calls and people in Pipedrive work on    *)
(* too.  What an action turns into on the wire (dealRequestFor), where an  *)
(* archived deal is refused, and the delete, which keeps its own order of  *)
(* checks, meet here the rules by which Pipedrive accepts an edit.         *)
(*                                                                         *)
(* title stands for every descriptive field, the custom ones among them,   *)
(* and stage_id for the pair of stage and pipeline.  stamp is update_time: *)
(* a change comes in the second of the one before it, or later.            *)
(***************************************************************************)
EXTENDS Naturals

CONSTANTS
  Sessions,   \* tool calls
  Inputs,     \* what callers may ask for, see InputsAssumption
  Starts,     \* the deals Pipedrive may hold at first
  Titles, Stages, Reasons,
  NoVersion,  \* an omitted expect_version
  MaxEdits    \* bound on edits made in Pipedrive itself

DealFields == {"title", "status", "stage_id", "is_archived", "lost_reason"}
Transitions == {"move_stage", "mark_won", "mark_lost", "reopen", "archive", "unarchive"}
DealActions == Transitions \cup {"update", "delete"}

\* "" is a field that holds nothing, and is_archived's projection of false.
ValuesOf == [title |-> Titles, stage_id |-> Stages,
             status |-> {"open", "won", "lost", "deleted"},
             is_archived |-> {"", "true"}, lost_reason |-> Reasons \cup {""}]
Values == UNION {ValuesOf[f] : f \in DealFields}
Deals == {r \in [DealFields -> Values] : \A f \in DealFields : r[f] \in ValuesOf[f]}

\* given is a function: the fields the caller passes, called for or not.
ASSUME InputsAssumption == \A i \in Inputs :
  /\ i.action \in DealActions
  /\ DOMAIN i.given \subseteq {"title", "stage_id", "lost_reason"}
  /\ \A f \in DOMAIN i.given : i.given[f] \in ValuesOf[f]
  /\ i.overwrite \subseteq DealFields
  /\ i.checks \in BOOLEAN /\ i.dryRun \in BOOLEAN
ASSUME StartsAssumption == Starts \subseteq Deals
ASSUME NoVersionAssumption == NoVersion \notin Nat
ASSUME MaxEditsAssumption == MaxEdits \in Nat

VARIABLES
  floor,      \* PIPEDRIVE_DRY_RUN
  rec,        \* the deal, as Pipedrive holds it
  stamp,      \* its update_time
  edits,      \* edits made in Pipedrive so far
  pc,         \* pc[s]: "idle", "get", "decide", "send" or "done"
  input,      \* input[s]: what it was called with
  expect,     \* expect[s]: its expect_version
  dry,        \* dry[s]: its dry_run, floor included
  before,     \* before[s]: the deal as read
  version,    \* version[s]: the update_time as read
  outcome,    \* outcome[s]: how it ended
  effect, verdict,  \* its write, as WriteOnce has it
  \* history, for the properties
  raced,      \* raced[s]: others changed the deal between the read and the write
  overtaken,  \* overtaken[s]: update_time moved between the caller's read and s's
  gone        \* gone[s]: the deal has been deleted ever since s was called

dealVars == <<rec, stamp, edits>>
callVars == <<floor, input, expect, dry>>
readVars == <<before, version>>
writeVars == <<effect, verdict>>
pastVars == <<raced, overtaken, gone>>
vars == <<dealVars, callVars, pc, readVars, outcome, writeVars, pastVars>>

Write == INSTANCE WriteOnce WITH Writes <- Sessions
Guard == INSTANCE FieldGuard WITH
  BaseFields <- DealFields, CustomFields <- {}, Values <- Values, Blank <- "",
  Names <- DealFields, NameOf <- [f \in DealFields |-> f]

NoInput == [action |-> "update", given |-> [f \in {} |-> ""], overwrite |-> {},
            checks |-> FALSE, dryRun |-> FALSE]

Init ==
  /\ floor \in BOOLEAN
  /\ rec \in Starts
  /\ stamp = 0 /\ edits = 0
  /\ pc = [s \in Sessions |-> "idle"]
  /\ input = [s \in Sessions |-> NoInput]
  /\ expect = [s \in Sessions |-> NoVersion]
  /\ dry = [s \in Sessions |-> FALSE]
  /\ before = [s \in Sessions |-> rec]
  /\ version = [s \in Sessions |-> 0]
  /\ outcome = [s \in Sessions |-> "none"]
  /\ Write!Init
  /\ raced = [s \in Sessions |-> FALSE]
  /\ overtaken = [s \in Sessions |-> FALSE]
  /\ gone = [s \in Sessions |-> FALSE]

Goto(s, label) == pc' = [pc EXCEPT ![s] = label] /\ UNCHANGED outcome

Finish(s, how) ==
  /\ pc' = [pc EXCEPT ![s] = "done"]
  /\ outcome' = [outcome EXCEPT ![s] = how]

-----------------------------------------------------------------------------
\* dealRequestFor: what an action sets by itself, and what it takes from its
\* input.

Only(f, v) == [g \in {f} |-> v]

\* Slip: reopening also clears the reason of the loss.
SetsClearingReason(action) ==
  CASE action = "mark_won" -> Only("status", "won")
    [] action = "mark_lost" -> Only("status", "lost")
    [] action = "reopen" -> [f \in {"status", "lost_reason"} |-> IF f = "status" THEN "open" ELSE ""]
    [] action = "archive" -> Only("is_archived", "true")
    [] action = "unarchive" -> Only("is_archived", "")
    [] OTHER -> [f \in {} |-> ""]

Sets(action) ==
  CASE action = "mark_won" -> Only("status", "won")
    [] action = "mark_lost" -> Only("status", "lost")
    [] action = "reopen" -> Only("status", "open")
    [] action = "archive" -> Only("is_archived", "true")
    [] action = "unarchive" -> Only("is_archived", "")
    [] OTHER -> [f \in {} |-> ""]

\* Slip: every action takes whatever is passed.
TakesAll(action) == {"title", "stage_id", "lost_reason"}

Takes(action) ==
  CASE action = "update" -> {"title", "stage_id"}
    [] action = "move_stage" -> {"stage_id"}
    [] action = "mark_lost" -> {"lost_reason"}
    [] OTHER -> {}

RequestFor(i) ==
  [f \in DOMAIN Sets(i.action) \cup (Takes(i.action) \cap DOMAIN i.given) |->
     IF f \in DOMAIN Sets(i.action) THEN Sets(i.action)[f] ELSE i.given[f]]

Invalid(i) == i.action = "move_stage" /\ "stage_id" \notin DOMAIN i.given

-----------------------------------------------------------------------------
\* A caller that has seen the deal asks for something; manageDealHandler puts
\* the operator's flag on it and dealRequestFor refuses a move without stage.
Call(s, i) ==
  /\ pc[s] = "idle"
  /\ input' = [input EXCEPT ![s] = i]
  /\ expect' = [expect EXCEPT ![s] = IF i.checks THEN stamp ELSE NoVersion]
  /\ dry' = [dry EXCEPT ![s] = i.dryRun \/ floor]
  /\ gone' = [gone EXCEPT ![s] = rec.status = "deleted"]
  /\ IF Invalid(i) THEN Finish(s, "invalid") ELSE Goto(s, "get")
  /\ UNCHANGED <<floor, dealVars, readVars, writeVars, raced, overtaken>>

\* Slip: the archived deal not refused.
RefusesArchivedNever(action) == FALSE

\* The Get of writeDealAction refuses an archived deal; deleteDealAction calls
\* GetDeal itself.
RefusesArchived(action) == action \notin {"unarchive", "delete"}

GetDeal(s) ==
  /\ pc[s] = "get"
  /\ before' = [before EXCEPT ![s] = rec]
  /\ version' = [version EXCEPT ![s] = stamp]
  /\ IF rec.is_archived = "true" /\ RefusesArchived(input[s].action)
     THEN Finish(s, "archived") ELSE Goto(s, "decide")
  /\ UNCHANGED <<dealVars, callVars, writeVars, pastVars>>

GetFails(s) ==
  /\ pc[s] = "get"
  /\ Finish(s, "unread")
  /\ UNCHANGED <<dealVars, callVars, readVars, writeVars, pastVars>>

VersionMatches(s) == expect[s] = NoVersion \/ expect[s] = version[s]

Predicted(s) ==
  LET req == RequestFor(input[s])
  IN Guard!ChangedNames(Guard!Table(req), before[s], Guard!Predict(before[s], req))

\* guardedWrite.run between its read and its write.
DecideWrite(s) ==
  /\ pc[s] = "decide" /\ input[s].action # "delete"
  /\ IF ~VersionMatches(s) THEN Finish(s, "stale")
     ELSE IF Predicted(s) = {} THEN Finish(s, "noop")
     ELSE IF ~Guard!Permitted(DealFields, before[s], Predicted(s), input[s].overwrite,
                              input[s].action \in Transitions)
          THEN Finish(s, "refused")
     ELSE IF dry[s] THEN Finish(s, "rehearsed")
     ELSE Goto(s, "send")
  /\ UNCHANGED <<dealVars, callVars, readVars, writeVars, pastVars>>

\* Slip: the delete without its version check.
DecideDeleteUnchecked(s) ==
  /\ pc[s] = "decide" /\ input[s].action = "delete"
  /\ IF before[s].status = "deleted" THEN Finish(s, "noop")
     ELSE IF dry[s] THEN Finish(s, "rehearsed")
     ELSE Goto(s, "send")
  /\ UNCHANGED <<dealVars, callVars, readVars, writeVars, pastVars>>

\* Slip: a delete of what is deleted sent again.
DecideDeleteAgain(s) ==
  /\ pc[s] = "decide" /\ input[s].action = "delete"
  /\ IF ~VersionMatches(s) THEN Finish(s, "stale")
     ELSE IF dry[s] THEN Finish(s, "rehearsed")
     ELSE Goto(s, "send")
  /\ UNCHANGED <<dealVars, callVars, readVars, writeVars, pastVars>>

\* deleteDealAction between its read and the DELETE.
DecideDelete(s) ==
  /\ pc[s] = "decide" /\ input[s].action = "delete"
  /\ IF ~VersionMatches(s) THEN Finish(s, "stale")
     ELSE IF before[s].status = "deleted" THEN Finish(s, "noop")
     ELSE IF dry[s] THEN Finish(s, "rehearsed")
     ELSE Goto(s, "send")
  /\ UNCHANGED <<dealVars, callVars, readVars, writeVars, pastVars>>

Written(s) ==
  /\ pc[s] = "send"
  /\ Write!TellOk(s)
  /\ Finish(s, "written")
  /\ UNCHANGED <<dealVars, callVars, readVars, pastVars>>

NotWritten(s) ==
  /\ pc[s] = "send"
  /\ Write!TellNo(s) \/ Write!TellMaybe(s)
  /\ Finish(s, "failed")
  /\ UNCHANGED <<dealVars, callVars, readVars, pastVars>>

-----------------------------------------------------------------------------
After(s) ==
  IF input[s].action = "delete" THEN [rec EXCEPT !.status = "deleted"]
  ELSE Guard!Predict(rec, RequestFor(input[s]))

\* Pipedrive takes no edit of an archived deal but the one that unarchives it,
\* and a lost_reason only where the deal is lost afterwards.
Accepts(s) == input[s].action # "delete" =>
  LET fields == DOMAIN RequestFor(input[s]) IN
  /\ rec.is_archived = "true" => fields = {"is_archived"}
  /\ "lost_reason" \in fields => After(s).status = "lost"

Rejected(s) ==
  /\ pc[s] = "send"
  /\ ~Accepts(s)
  /\ Write!TellNo(s)
  /\ Finish(s, "rejected")
  /\ UNCHANGED <<dealVars, callVars, readVars, pastVars>>

\* The deal becomes r; every call but `by` is overtaken by it.
Become(r, by) ==
  /\ rec' = r
  /\ stamp' \in {stamp, stamp + 1}
  /\ raced' = [s \in Sessions |->
       raced[s] \/ (s \notin by /\ effect[s] = "open" /\ r # rec
                    /\ pc[s] \notin {"idle", "get"})]
  /\ overtaken' = [s \in Sessions |->
       overtaken[s] \/ (pc[s] = "get" /\ stamp' # stamp)]
  /\ gone' = [s \in Sessions |-> gone[s] /\ r.status = "deleted"]
  /\ UNCHANGED <<callVars, pc, readVars, outcome>>

\* The write of s takes effect, perhaps after s was told nobody knows.
Apply(s) ==
  /\ pc[s] = "send" \/ verdict[s] = "maybe"
  /\ Accepts(s)
  /\ Write!Make(s)
  /\ Become(After(s), {s})
  /\ UNCHANGED edits

Lapse(s) ==
  /\ Write!Expire(s)
  /\ UNCHANGED <<dealVars, callVars, pc, readVars, outcome, pastVars>>

\* Somebody changes, archives, deletes or restores the deal in Pipedrive.
Edit ==
  /\ edits < MaxEdits
  /\ edits' = edits + 1
  /\ \E f \in DealFields : \E v \in ValuesOf[f] \ {rec[f]} :
       Become([rec EXCEPT ![f] = v], {})
  /\ UNCHANGED writeVars

Step(s) ==
  \/ \E i \in Inputs : Call(s, i)
  \/ GetDeal(s) \/ GetFails(s) \/ DecideWrite(s) \/ DecideDelete(s)
  \/ Written(s) \/ NotWritten(s) \/ Rejected(s) \/ Apply(s) \/ Lapse(s)

Next == (\E s \in Sessions : Step(s)) \/ Edit

Spec == Init /\ [][Next]_vars

-----------------------------------------------------------------------------
Outcomes == {"none", "invalid", "unread", "archived", "stale", "noop", "refused",
             "rehearsed", "written", "failed", "rejected"}

\* Every variable holds a value of its kind; the deal is one at all times, so
\* no action sends a value its field does not have (deals.go, dealRequestFor).
TypeOK ==
  /\ floor \in BOOLEAN
  /\ rec \in Deals
  /\ stamp \in Nat /\ edits \in 0 .. MaxEdits
  /\ pc \in [Sessions -> {"idle", "get", "decide", "send", "done"}]
  /\ input \in [Sessions -> Inputs \cup {NoInput}]
  /\ expect \in [Sessions -> 0 .. stamp \cup {NoVersion}]
  /\ dry \in [Sessions -> BOOLEAN]
  /\ before \in [Sessions -> Deals]
  /\ version \in [Sessions -> 0 .. stamp]
  /\ outcome \in [Sessions -> Outcomes]
  /\ effect \in [Sessions -> {"open", "made", "void"}]
  /\ verdict \in [Sessions -> {"none", "ok", "no", "maybe"}]
  /\ raced \in [Sessions -> BOOLEAN]
  /\ overtaken \in [Sessions -> BOOLEAN]
  /\ gone \in [Sessions -> BOOLEAN]

\* The fields each action is about, as its description names them.
Owns(action) ==
  CASE action = "update" -> {"title", "stage_id"}
    [] action = "move_stage" -> {"stage_id"}
    [] action = "mark_lost" -> {"status", "lost_reason"}
    [] action \in {"archive", "unarchive"} -> {"is_archived"}
    [] OTHER -> {"status"}

\* A call's write moves the fields its action is about and no other, whatever
\* else the caller passed and whenever it takes effect; so a transition needs
\* no overwrite list (dealRequestFor's comment; D-43).
WritesStayNarrow == [][\A s \in Sessions :
  (effect[s] = "open" /\ effect'[s] = "made") =>
    \A f \in DealFields : rec'[f] # rec[f] => f \in Owns(input[s].action)]_vars

\* Pipedrive's rules reject an edit only if somebody changed the deal between
\* the call's read and its write: what an archived deal or a lost_reason would
\* make of it is settled here first (writeDealAction, dealRequestFor).
RejectionsAreRaces == \A s \in Sessions : outcome[s] = "rejected" => raced[s]

\* A delete asked for when the deal is deleted, and not restored meanwhile,
\* sends nothing and reports no deletion, also when the first one's answer was
\* lost (deleteDealAction; D-47).
DeletedOnce == \A s \in Sessions :
  (gone[s] /\ input[s].action = "delete") =>
    /\ pc[s] # "send" /\ effect[s] # "made"
    /\ outcome[s] \notin {"rehearsed", "written", "failed"}

\* A rehearsal changes nothing, and neither does a call that ended before its
\* write, then or later, deletes included (manageDealHandler, D-47).
RehearsalsWriteNothing == \A s \in Sessions :
  (\/ floor \/ dry[s]
   \/ outcome[s] \in {"invalid", "unread", "archived", "stale", "noop", "refused",
                      "rehearsed"})
    => effect[s] # "made"

\* A call that passes a version never changes or deletes a deal whose version
\* moved after the caller read it and before the call did (checkExpectVersion,
\* on both of its paths).
NothingOvertakenIsWritten == \A s \in Sessions :
  (expect[s] # NoVersion /\ overtaken[s]) => effect[s] # "made"

\* A deal is never written when it should be left alone: not in a rehearsal,
\* not after a refusal, not past a version that was overtaken, on either path,
\* the guarded write's or the delete's own (manageDealHandler,
\* deleteDealAction).
NoUncalledForWrite == RehearsalsWriteNothing /\ NothingOvertakenIsWritten
=============================================================================
