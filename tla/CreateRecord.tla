----------------------------- MODULE CreateRecord -----------------------------
(***************************************************************************)
(* The creates of manage_deal, manage_person, manage_organization and      *)
(* manage_activity, and what their dry runs show: the record as the caller *)
(* asked for it, with the defaults Pipedrive would fill in, read from it   *)
(* (createDealAction and its siblings, fillDealDefaults, fillOwner).       *)
(*                                                                         *)
(* The owner and the currency come from WhoAmI (internal/pipedrive/        *)
(* users.go), one answer for the life of the process behind a mutex that   *)
(* is held across the request, so every dry run and every whoami call      *)
(* queues on it, and a caller may give up while it holds it.               *)
(***************************************************************************)
EXTENDS Naturals

CONSTANTS
  Calls,      \* tool calls
  Inputs,     \* what callers may ask for, see InputsAssumption
  Me,         \* the user the token authenticates as
  Owners, Currencies, Stages, Pipelines,
  Orders,     \* a stage's order_nr
  HomePipeline, HomeStage,  \* where Pipedrive puts a deal given neither
  Blank,      \* a field that holds nothing
  Nobody,     \* no call
  MaxEdits    \* bound on changes of the defaults

Fields == {"owner_id", "currency", "pipeline_id", "stage_id"}
ValuesOf == [owner_id |-> Owners, currency |-> Currencies,
             pipeline_id |-> Pipelines, stage_id |-> Stages]
Values == UNION {ValuesOf[f] : f \in Fields}

\* The stages of a pipeline: some live, no two in one place.
Orderings == {o \in [Stages -> [order : Orders, live : BOOLEAN]] :
  /\ \E s \in Stages : o[s].live
  /\ \A s, t \in Stages : o[s].order = o[t].order => s = t}

\* The fields of a kind whose defaults a dry run can show: "owned" stands for a
\* person, an organization and an activity.
FieldsOf(kind) == IF kind = "deal" THEN Fields ELSE {"owner_id"}

\* given is a function: the fields the caller passes.
ASSUME InputsAssumption == \A i \in Inputs :
  /\ i.kind \in {"deal", "owned", "whoami"}
  /\ DOMAIN i.given \subseteq FieldsOf(i.kind)
  /\ \A f \in DOMAIN i.given : i.given[f] \in ValuesOf[f]
  /\ i.dryRun \in BOOLEAN
ASSUME DefaultsAssumption ==
  Orders \subseteq Nat /\ Me \in Owners /\ HomePipeline \in Pipelines /\ HomeStage \in Stages
ASSUME BlankAssumption == Blank \notin Values
ASSUME NobodyAssumption == Nobody \notin Calls
ASSUME CurrenciesAssumption == Currencies \cap {"none", "failed", "cancelled"} = {}
ASSUME MaxEditsAssumption == MaxEdits \in Nat

Errors == {"failed", "cancelled"}
Heard == Currencies \cup Errors \cup {"none"}

VARIABLES
  floor,     \* PIPEDRIVE_DRY_RUN
  currency,  \* the user's default currency, as Pipedrive has it
  stages,    \* stages[s]: its order in its pipeline, and whether it is live
  edits,     \* changes of those so far
  memo,      \* meDone, me and meErr: what WhoAmI answers from now on, or "none"
  lock,      \* who holds meMu
  pc,        \* pc[c]: "idle", "whoami", "asking", "stages", "create" or "done"
  ctx,       \* ctx[c]: "live", or "ended" by its caller
  input,     \* input[c]: what it was called with
  dry,       \* dry[c]: its dry_run, floor included
  shown,     \* shown[c]: its preview
  heard,     \* heard[c]: what WhoAmI told it: a user's currency, or an error
  effect, verdict,  \* its create, as WriteOnce has it
  \* history, for the properties
  asked,     \* who asked Pipedrive for the user
  stored,    \* stored[c]: the record its create made
  memoAt,    \* edits when the memo was set
  stagesAt,  \* stagesAt[c]: edits when it read the stages, in a set, empty if not
  unread,    \* whose reading of the stages failed
  madeAt     \* madeAt[c]: edits when its record was made

defaultVars == <<currency, stages, edits>>
memoVars == <<memo, lock, asked, memoAt>>
inputVars == <<floor, input, dry>>
writeVars == <<effect, verdict, stored, madeAt>>
stagesVars == <<stagesAt, unread>>
vars == <<defaultVars, memoVars, inputVars, pc, ctx, shown, heard, writeVars, stagesVars>>

Write == INSTANCE WriteOnce WITH Writes <- Calls

Empty == [f \in Fields |-> Blank]
NoInput == [kind |-> "whoami", given |-> [f \in {} |-> Blank], dryRun |-> FALSE]

Init ==
  /\ floor \in BOOLEAN
  /\ currency \in Currencies
  /\ stages \in Orderings
  /\ edits = 0
  /\ memo = "none" /\ lock = Nobody /\ asked = {} /\ memoAt = 0
  /\ pc = [c \in Calls |-> "idle"]
  /\ ctx = [c \in Calls |-> "live"]
  /\ input = [c \in Calls |-> NoInput]
  /\ dry = [c \in Calls |-> FALSE]
  /\ shown = [c \in Calls |-> Empty]
  /\ heard = [c \in Calls |-> "none"]
  /\ Write!Init
  /\ stored = [c \in Calls |-> Empty]
  /\ stagesAt = [c \in Calls |-> {}]
  /\ unread = {}
  /\ madeAt = [c \in Calls |-> 0]

Goto(c, label) == pc' = [pc EXCEPT ![c] = label]

-----------------------------------------------------------------------------
\* Slip: deleted stages are not left out.
FirstStageOfAll(o) == CHOOSE s \in Stages : \A t \in Stages : o[s].order <= o[t].order

\* firstStage.
FirstStage(o) ==
  CHOOSE s \in Stages : o[s].live /\ \A t \in Stages : o[t].live => o[s].order <= o[t].order

\* What fillOwner and fillDealDefaults read for: the user, and, for a deal with a
\* pipeline alone, the stages.
NeedsUser(kind, r) ==
  r.owner_id = Blank \/ (kind = "deal" /\ r.currency = Blank)
NeedsStages(kind, r) ==
  kind = "deal" /\ r.stage_id = Blank /\ r.pipeline_id # Blank

\* syntheticDealFromRequest and its siblings.
Synthetic(given) == [f \in Fields |-> IF f \in DOMAIN given THEN given[f] ELSE Blank]

\* The user's part of both fills.
FillUser(kind, r, answer) ==
  [r EXCEPT !.owner_id = IF @ = Blank THEN Me ELSE @,
            !.currency = IF kind = "deal" /\ @ = Blank THEN answer ELSE @]

\* Where a call goes once the user is known, or is not.
AfterUser(kind, r) ==
  IF kind # "whoami" /\ NeedsStages(kind, r) THEN "stages" ELSE "done"

-----------------------------------------------------------------------------
EffectiveDryRun(i) == i.dryRun \/ floor

\* A call arrives.  A create checks its input and encodes its custom fields,
\* and may be refused there; then it goes to Pipedrive, or is a rehearsal.
Call(c, i) ==
  /\ pc[c] = "idle"
  /\ input' = [input EXCEPT ![c] = i]
  /\ dry' = [dry EXCEPT ![c] = EffectiveDryRun(i)]
  /\ IF i.kind = "whoami" THEN Goto(c, "whoami") /\ UNCHANGED shown
     ELSE \/ Goto(c, "done") /\ UNCHANGED shown
          \/ /\ shown' = [shown EXCEPT ![c] = Synthetic(i.given)]
             /\ Goto(c, IF ~ EffectiveDryRun(i) THEN "create"
                        ELSE IF NeedsUser(i.kind, Synthetic(i.given)) THEN "whoami"
                        ELSE AfterUser(i.kind, Synthetic(i.given)))
  /\ UNCHANGED <<defaultVars, memoVars, floor, ctx, heard, writeVars, stagesVars>>

\* WhoAmI returns to c.
Hear(c, answer) ==
  /\ heard' = [heard EXCEPT ![c] = answer]
  /\ shown' = IF answer \in Errors \/ input[c].kind = "whoami" THEN shown
              ELSE [shown EXCEPT ![c] = FillUser(input[c].kind, @, answer)]
  /\ Goto(c, AfterUser(input[c].kind, shown'[c]))

\* c gets the mutex, and finds the answer, or goes and asks.
Lock(c) ==
  /\ pc[c] = "whoami" /\ lock = Nobody
  /\ IF memo # "none" THEN Hear(c, memo) /\ UNCHANGED <<lock, asked>>
     ELSE /\ lock' = c
          /\ asked' = asked \cup {c}
          /\ Goto(c, "asking")
          /\ UNCHANGED <<heard, shown>>
  /\ UNCHANGED <<defaultVars, memo, memoAt, inputVars, ctx, writeVars, stagesVars>>

\* The user comes back, and is kept.
Answered(c) ==
  /\ pc[c] = "asking"
  /\ memo' = currency /\ memoAt' = edits
  /\ lock' = Nobody
  /\ Hear(c, currency)
  /\ UNCHANGED <<defaultVars, asked, inputVars, ctx, writeVars, stagesVars>>

\* Slip: any error is kept.
KeepsAnyError(c) == TRUE

\* An error is kept unless the call's own caller ended it.
KeepsError(c) == ctx[c] = "live"

\* Slip: the mutex stays locked when the call fails.
FailedLocked(c) ==
  /\ pc[c] = "asking"
  /\ \E error \in IF ctx[c] = "ended" THEN Errors ELSE {"failed"} :
       /\ memo' = IF KeepsError(c) THEN error ELSE memo
       /\ memoAt' = IF KeepsError(c) THEN edits ELSE memoAt
       /\ Hear(c, error)
  /\ UNCHANGED <<defaultVars, lock, asked, inputVars, ctx, writeVars, stagesVars>>

\* The call fails: Pipedrive or the network, or the end of its own context.
Failed(c) ==
  /\ pc[c] = "asking"
  /\ lock' = Nobody
  /\ \E error \in IF ctx[c] = "ended" THEN Errors ELSE {"failed"} :
       /\ memo' = IF KeepsError(c) THEN error ELSE memo
       /\ memoAt' = IF KeepsError(c) THEN edits ELSE memoAt
       /\ Hear(c, error)
  /\ UNCHANGED <<defaultVars, asked, inputVars, ctx, writeVars, stagesVars>>

\* ListStages, for a pipeline without a stage.
StagesRead(c) ==
  /\ pc[c] = "stages"
  /\ shown' = [shown EXCEPT ![c].stage_id = FirstStage(stages)]
  /\ stagesAt' = [stagesAt EXCEPT ![c] = {edits}]
  /\ Goto(c, "done")
  /\ UNCHANGED <<defaultVars, memoVars, inputVars, ctx, heard, writeVars, unread>>

StagesUnread(c) ==
  /\ pc[c] = "stages"
  /\ unread' = unread \cup {c}
  /\ Goto(c, "done")
  /\ UNCHANGED <<defaultVars, memoVars, inputVars, ctx, shown, heard, writeVars, stagesAt>>

Created(c) ==
  /\ pc[c] = "create"
  /\ Write!TellOk(c)
  /\ Goto(c, "done")
  /\ UNCHANGED <<defaultVars, memoVars, inputVars, ctx, shown, heard, stored, madeAt, stagesVars>>

NotCreated(c) ==
  /\ pc[c] = "create"
  /\ Write!TellNo(c) \/ Write!TellMaybe(c)
  /\ Goto(c, "done")
  /\ UNCHANGED <<defaultVars, memoVars, inputVars, ctx, shown, heard, stored, madeAt, stagesVars>>

-----------------------------------------------------------------------------
ContextEnds(c) ==
  /\ pc[c] \in {"whoami", "asking", "stages", "create"}
  /\ ctx[c] = "live"
  /\ ctx' = [ctx EXCEPT ![c] = "ended"]
  /\ UNCHANGED <<defaultVars, memoVars, inputVars, pc, shown, heard, writeVars, stagesVars>>

\* The live stage that nothing live comes before.
EntryStage == CHOOSE s \in Stages :
  stages[s].live /\ ~ \E t \in Stages : stages[t].live /\ stages[t].order < stages[s].order

\* What Pipedrive stores under a field the caller left out
\* (TestWrite_CreateDefaultsMatchTheDryRun).
Default(f, given) ==
  CASE f = "owner_id" -> Me
    [] f = "currency" -> currency
    [] f = "pipeline_id" -> HomePipeline
    [] OTHER -> IF "pipeline_id" \in DOMAIN given THEN EntryStage ELSE HomeStage

\* The create takes effect, perhaps after its caller was told nobody knows.
Make(c) ==
  /\ pc[c] = "create" \/ verdict[c] = "maybe"
  /\ Write!Make(c)
  /\ stored' = [stored EXCEPT ![c] = [f \in Fields |->
       IF f \notin FieldsOf(input[c].kind) THEN Blank
       ELSE IF f \in DOMAIN input[c].given THEN input[c].given[f]
       ELSE Default(f, input[c].given)]]
  /\ madeAt' = [madeAt EXCEPT ![c] = edits]
  /\ UNCHANGED <<defaultVars, memoVars, inputVars, pc, ctx, shown, heard, stagesVars>>

Lapse(c) ==
  /\ Write!Expire(c)
  /\ UNCHANGED <<defaultVars, memoVars, inputVars, pc, ctx, shown, heard, stored, madeAt, stagesVars>>

\* The user picks another currency, or the pipeline is rearranged.
Edit ==
  /\ edits < MaxEdits
  /\ edits' = edits + 1
  /\ \/ currency' \in Currencies \ {currency} /\ UNCHANGED stages
     \/ stages' \in Orderings \ {stages} /\ UNCHANGED currency
  /\ UNCHANGED <<memoVars, inputVars, pc, ctx, shown, heard, writeVars, stagesVars>>

\* What a call does itself, once it was made.
Proceed(c) ==
  \/ Lock(c) \/ Answered(c) \/ Failed(c)
  \/ StagesRead(c) \/ StagesUnread(c)
  \/ Created(c) \/ NotCreated(c)

Step(c) ==
  \/ \E i \in Inputs : Call(c, i)
  \/ Proceed(c)
  \/ ContextEnds(c) \/ Make(c) \/ Lapse(c)

Next == (\E c \in Calls : Step(c)) \/ Edit

Spec == Init /\ [][Next]_vars

\* A request ends by the client's timer at the latest, a locked mutex is given
\* on when its holder is done, and no goroutine is left out for ever.
FairSpec == Spec /\ \A c \in Calls : WF_vars(Proceed(c))

-----------------------------------------------------------------------------
\* Every variable holds a value of its kind, and only a call that is asking
\* holds the mutex.
TypeOK ==
  /\ floor \in BOOLEAN
  /\ currency \in Currencies
  /\ stages \in Orderings
  /\ edits \in 0 .. MaxEdits
  /\ memo \in Heard
  /\ lock \in Calls \cup {Nobody}
  /\ \A c \in Calls : pc[c] = "asking" <=> lock = c
  /\ pc \in [Calls -> {"idle", "whoami", "asking", "stages", "create", "done"}]
  /\ ctx \in [Calls -> {"live", "ended"}]
  /\ input \in [Calls -> Inputs \cup {NoInput}]
  /\ dry \in [Calls -> BOOLEAN]
  /\ shown \in [Calls -> [Fields -> Values \cup {Blank}]]
  /\ heard \in [Calls -> Heard]
  /\ effect \in [Calls -> {"open", "made", "void"}]
  /\ verdict \in [Calls -> {"none", "ok", "no", "maybe"}]
  /\ asked \subseteq Calls
  /\ stored \in [Calls -> [Fields -> Values \cup {Blank}]]
  /\ memoAt \in 0 .. edits
  /\ stagesAt \in [Calls -> SUBSET (0 .. edits)]
  /\ unread \subseteq Calls
  /\ madeAt \in [Calls -> 0 .. edits]

\* The memo gives one answer to all (users.go, "The first answer's error is
\* memoized too ... A call its own caller canceled is not an answer"): calls
\* that were not given up by their callers hear the same, none hears of
\* another's cancellation, and none but given-up calls leave the question to the
\* next.
HeardFully(c) == heard[c] # "none" /\ ~ (heard[c] \in Errors /\ ctx[c] = "ended")

OneIdentity ==
  /\ \A c, d \in Calls : HeardFully(c) /\ HeardFully(d) => heard[c] = heard[d]
  /\ \A c \in Calls : heard[c] = "cancelled" => ctx[c] = "ended"
  /\ \A c, d \in asked : c # d => "ended" \in {ctx[c], ctx[d]}

\* Whether a finished rehearsal was told, or could read, what a field will be.
Told(c, f) ==
  \/ f \in DOMAIN input[c].given
  \/ f \in {"owner_id", "currency"} /\ heard[c] \notin Errors
  \/ f = "stage_id" /\ "pipeline_id" \in DOMAIN input[c].given /\ c \notin unread

\* Whether the default it read was still that when d's record was made.
StillSo(c, d, f) ==
  \/ f \notin {"currency", "stage_id"} \/ f \in DOMAIN input[c].given
  \/ f = "currency" /\ memoAt = madeAt[d]
  \/ f = "stage_id" /\ stagesAt[c] \subseteq {madeAt[d]}

\* A rehearsal makes nothing, and shows what the same create makes (D-49): every
\* field the call set or a read could settle, unless it changed since, and no
\* guess for the others.
RehearsalForetells == \A c, d \in Calls :
  /\ dry[c] => effect[c] = "open"
  /\ (/\ pc[c] = "done" /\ dry[c] /\ shown[c] # Empty /\ effect[d] = "made"
      /\ input[c].kind = input[d].kind /\ input[c].given = input[d].given)
     => \A f \in FieldsOf(input[c].kind) :
          IF Told(c, f) THEN StillSo(c, d, f) => shown[c][f] = stored[d][f]
          ELSE shown[c][f] = Blank

\* Nobody waits for ever, neither on the mutex nor for an answer, whoever gives
\* up in front.
EveryCallEnds == \A c \in Calls : pc[c] # "idle" ~> pc[c] = "done"
=============================================================================
