-------------------------------- MODULE Paging --------------------------------
(***************************************************************************)
(* A collection read page by page: the five list_ tools, of which          *)
(* list_notes has v1's offset behind a cursor, and search, which drops the *)
(* deleted hits of a page after Pipedrive has paged (internal/tools,       *)
(* internal/pipedrive/liveness.go).  The caller asks for an owner, a       *)
(* status, a window or the archive in an order, and follows next_cursor    *)
(* until it is empty, as the descriptions of the tools say, while records  *)
(* are made, edited, deleted and restored in Pipedrive.                    *)
(***************************************************************************)
EXTENDS Integers, FiniteSets

CONSTANTS
  Ids,           \* records, later ones with greater ids
  TypeOf,        \* TypeOf[id]: "person", "organization" or another type
  Worlds,        \* what Pipedrive may hold at first, see WorldsAssumption
  Traits,        \* what an edit may make of a record
  Dues,          \* where it may put an activity by its due date
  Questions,     \* what callers ask, see QuestionsAssumption
  Limits,        \* what callers pass as limit, 0 if they pass none
  DefaultLimit, MaxLimit,
  IdsPerFetch,   \* how many ids one liveness check may name
  None,          \* the empty cursor
  MaxChanges,    \* bound on changes in Pipedrive
  MaxFailures    \* bound on requests that fail

Tools == {"list_deals", "list_persons", "list_organizations", "list_activities",
          "list_notes", "search"}

\* rank[id] is the record's place by update_time, 0 while it is not there.
Distinct(r) == \A i, j \in Ids : r[i] = r[j] => i = j \/ r[i] = 0

ASSUME IdsAssumption == IsFiniteSet(Ids) /\ Ids \subseteq Nat /\ TypeOf \in [Ids -> STRING]
\* closed is a deal won or lost and an activity done.
ASSUME TraitsAssumption == \A t \in Traits :
  t.owner \in Nat \ {0} /\ t.closed \in BOOLEAN /\ t.archived \in BOOLEAN
\* due[id] is its place by due date; those of one day are in an order of
\* Pipedrive's own.
OnePlaceEach(d) == \A i, j \in Ids : d[i] = d[j] => i = j

ASSUME DuesAssumption == Dues \subseteq Nat
ASSUME WorldsAssumption == \A w \in Worlds :
  /\ w.rank \in [Ids -> Nat] /\ Distinct(w.rank)
  /\ w.due \in [Ids -> Nat] /\ OnePlaceEach(w.due)
  /\ w.traits \in [Ids -> Traits] /\ w.dead \subseteq Ids
\* "" or 0 for what a caller leaves out.
ASSUME QuestionsAssumption == \A q \in Questions :
  /\ q.tool \in Tools /\ q.owner \in Nat /\ q.archived \in BOOLEAN
  /\ q.since \in Nat /\ q.until \in Nat
  /\ {q.status, q.sortBy, q.sortDirection} \subseteq STRING
ASSUME LimitsAssumption ==
  /\ Limits \subseteq Nat /\ IdsPerFetch \in Nat
  /\ DefaultLimit \in 1 .. MaxLimit /\ MaxLimit \in 1 .. IdsPerFetch
ASSUME NoneAssumption == None \notin Nat
ASSUME BoundsAssumption == MaxChanges \in Nat /\ MaxFailures \in Nat

VARIABLES
  question,  \* what the caller asks throughout
  rank, due, traits,
  dead,      \* the deleted records
  changes,   \* changes of those so far
  failures,  \* failed requests so far
  pc,        \* "idle", "fetch", "answer", "done" or "refused"
  limit,     \* the limit of the call, clamped
  cursor,    \* the cursor the caller has in hand
  page, next,  \* what Pipedrive answered
  todo,      \* types of hits yet to be checked
  alive,     \* hits the checks found
  shown,     \* what the caller was shown
  \* history, for the properties
  steady,    \* records that no change has kept from the caller
  meant,     \* what the question was about when the page was read
  lived,     \* records alive at some moment since
  died       \* records dead at some moment since

worldVars == <<question, rank, due, traits, dead, changes>>
callVars == <<pc, limit, cursor>>
pageVars == <<page, next, todo, alive>>
pastVars == <<steady, meant, lived, died>>
vars == <<worldVars, failures, callVars, pageVars, shown, pastVars>>

Searching == question.tool = "search"

-----------------------------------------------------------------------------
\* The arguments.
OneOf(value, allowed) == value = "" \/ value \in allowed

Statuses(t) == CASE t = "list_deals" -> {"open", "won", "lost", "deleted"}
                 [] t = "list_activities" -> {"open", "done", "all"}
                 [] OTHER -> {}

CommonV2TimestampSortFields == {"id", "update_time", "add_time"}
ActivitySortByValues == CommonV2TimestampSortFields \cup {"due_date"}
AllowedNoteSortFields == {"add_time", "update_time"}
SortFields(t) == CASE t = "list_notes" -> AllowedNoteSortFields
                   [] t = "list_activities" -> ActivitySortByValues
                   [] t = "search" -> {}
                   [] OTHER -> CommonV2TimestampSortFields

\* The validateEnum calls at the head of every list_ tool.
Valid(q) ==
  /\ OneOf(q.status, Statuses(q.tool))
  /\ OneOf(q.sortBy, SortFields(q.tool))
  /\ OneOf(q.sortDirection, {"asc", "desc"})

\* Slip: the newest first, whatever direction comes without a field.
EffectiveSortNewest(by, direction) ==
  [by |-> IF by = "" THEN "update_time" ELSE by,
   direction |-> IF by = "" THEN "desc" ELSE IF direction = "" THEN "asc" ELSE direction]

EffectiveSort(by, direction) ==
  [by |-> IF by = "" THEN "update_time" ELSE by,
   direction |-> CASE direction # "" -> direction
                   [] by = "" /\ direction = "" -> "desc"
                   [] OTHER -> "asc"]

StatusToDoneFilter(status) ==
  CASE status = "open" -> {FALSE} [] status = "done" -> {TRUE} [] OTHER -> BOOLEAN

\* What each tool asks of Pipedrive.
Options(q) ==
  [collection |-> q.tool, owner |-> q.owner, status |-> "", closed |-> BOOLEAN,
   since |-> q.since, until |-> q.until, sort |-> EffectiveSort(q.sortBy, q.sortDirection)]

\* Slip: the archive asked for by a filter, and not for itself.
ListDealsLive(q) == [Options(q) EXCEPT !.collection = "deals", !.status = q.status]

\* The archive is a collection of its own, and takes the same filters.
ListDeals(q) ==
  [Options(q) EXCEPT !.collection = IF q.archived THEN "deals/archived" ELSE "deals",
                     !.status = q.status]
ListPersons(q) == Options(q)
ListOrganizations(q) == Options(q)
ListActivities(q) == [Options(q) EXCEPT !.closed = StatusToDoneFilter(q.status)]
ListNotes(q) == [Options(q) EXCEPT !.until = 0]
ItemSearch == [Options(question) EXCEPT !.sort = [by |-> "score", direction |-> "desc"]]

Asked == CASE question.tool = "list_deals" -> ListDeals(question)
           [] question.tool = "list_persons" -> ListPersons(question)
           [] question.tool = "list_organizations" -> ListOrganizations(question)
           [] question.tool = "list_activities" -> ListActivities(question)
           [] question.tool = "list_notes" -> ListNotes(question)
           [] OTHER -> ItemSearch

-----------------------------------------------------------------------------
\* livenessPaths.
Checkable == {"organization", "person"}
CanCheck(id) == TypeOf[id] \in Checkable

\* Pipedrive's side: what is in a collection, filtered.  The search index
\* keeps what was deleted of the checkable types (dropDeletedHits), and a
\* deleted record is in no other collection but for the status deleted.
InCollection(o, id) ==
  CASE o.collection = "search" -> id \in dead => CanCheck(id)
    [] o.collection = "deals" -> ~traits[id].archived /\ (id \in dead <=> o.status = "deleted")
    [] o.collection = "deals/archived" -> traits[id].archived /\ (id \in dead <=> o.status = "deleted")
    [] OTHER -> id \notin dead

Listed == LET o == Asked IN {id \in Ids :
  /\ rank[id] > 0 /\ InCollection(o, id)
  /\ o.owner \in {0, traits[id].owner}
  /\ traits[id].closed \in o.closed
  /\ o.status = "open" => ~traits[id].closed
  /\ o.status \in {"won", "lost"} => traits[id].closed
  /\ rank[id] >= o.since
  /\ o.until > 0 => rank[id] <= o.until}

\* Its order: by update_time, by due date, or by the moment it was made, which
\* edits leave alone and ids grow with; so does search's score here.
KeyOf(sort, id) ==
  IF sort.by = "update_time" THEN rank[id] ELSE IF sort.by = "due_date" THEN due[id] ELSE id
Before(sort, k, m) == IF sort.direction = "desc" THEN k > m ELSE k < m

Above(id, rows) ==
  LET sort == Asked.sort
      key == KeyOf(sort, id)
  IN  {j \in rows : Before(sort, KeyOf(sort, j), key)}

\* Rows that a cursor leaves: v1's is an offset, v2's names a place.
Left(c) == LET rows == Listed  sort == Asked.sort IN
  IF c = None THEN rows
  ELSE IF question.tool = "list_notes" THEN {id \in rows : Cardinality(Above(id, rows)) >= c}
  ELSE {id \in rows : Before(sort, c, KeyOf(sort, id))}

FirstOf(rows, n) == {id \in rows : Cardinality(Above(id, rows)) < n}

Offset == IF cursor = None THEN 0 ELSE cursor

\* The place of the last of some rows.
LastOf(rows) ==
  LET sort == Asked.sort IN
  CHOOSE k \in {KeyOf(sort, id) : id \in rows} : \A j \in rows : ~Before(sort, k, KeyOf(sort, j))

\* Slip: the cursor wraps the start of the page, not that of the next.
EncodeCursorStart(rows) ==
  IF rows = Left(cursor) THEN None
  ELSE IF question.tool = "list_notes" THEN Offset
  ELSE LastOf(rows)

\* encodeNotesCursor, and what Pipedrive puts into next_cursor and next_start.
EncodeCursor(rows) ==
  IF rows = Left(cursor) THEN None
  ELSE IF question.tool = "list_notes" THEN Offset + Cardinality(rows)
  ELSE LastOf(rows)

ClampLimit(l) ==
  IF l = 0 THEN DefaultLimit ELSE IF l > MaxLimit THEN MaxLimit ELSE l

-----------------------------------------------------------------------------
\* What the descriptions of the arguments say of a record and of the order.
IsMeant(id) ==
  /\ rank[id] > 0
  /\ (question.tool = "list_deals" /\ question.status = "deleted") <=> id \in dead
  /\ question.tool = "list_deals" => (traits[id].archived <=> question.archived)
  /\ question.status = "open" => ~traits[id].closed
  /\ question.status \in {"won", "lost", "done"} => traits[id].closed
  /\ question.owner > 0 => traits[id].owner = question.owner
  /\ rank[id] >= question.since
  /\ (question.until > 0 /\ question.tool # "list_notes") => rank[id] <= question.until

Meant == {id \in Ids : IsMeant(id)}

\* "Default 'update_time'"; "default 'desc' when sort_by is omitted, 'asc'
\* otherwise".
Promised ==
  [by |-> IF Searching THEN "score" ELSE IF question.sortBy = "" THEN "update_time"
          ELSE question.sortBy,
   direction |-> IF question.sortDirection # "" THEN question.sortDirection
                 ELSE IF question.sortBy = "" THEN "desc" ELSE "asc"]

\* How many of the records meant come before one of them.
PlaceOf(id) == Cardinality({j \in Meant :
                 Before(Promised, KeyOf(Promised, j), KeyOf(Promised, id))})

\* Rows a change may carry past the caller: those it moves to the front, and
\* where the cursor is an offset, those that move up for any reason.
MovesUp(id) ==
  IF question.tool = "list_notes" THEN PlaceOf(id)' < PlaceOf(id)
  ELSE Before(Promised, KeyOf(Promised, id)', KeyOf(Promised, id))

-----------------------------------------------------------------------------
Init ==
  /\ question \in Questions
  /\ \E w \in Worlds :
       rank = w.rank /\ due = w.due /\ traits = w.traits /\ dead = w.dead
  /\ changes = 0 /\ failures = 0
  /\ pc = "idle" /\ limit = DefaultLimit /\ cursor = None
  /\ page = {} /\ next = None /\ todo = {} /\ alive = {}
  /\ shown = {}
  /\ steady = Meant
  /\ meant = {} /\ lived = {} /\ died = {}

\* The tool is called, with the cursor of the last page.
Call(l) ==
  /\ pc = "idle"
  /\ pc' = IF Valid(question) THEN "fetch" ELSE "refused"
  /\ limit' = ClampLimit(l)
  /\ UNCHANGED <<worldVars, failures, cursor, pageVars, shown, pastVars>>

\* ItemSearch, ListNotes, ListDeals and the like.  "A page shorter than the limit
\* does not say it is the last" (types.go).
Fetch ==
  /\ pc = "fetch"
  /\ pc' = "answer"
  /\ \E n \in 1 .. limit, left \in {Left(cursor)} : \E rows \in {FirstOf(left, n)} :
       /\ page' = rows
       /\ next' = EncodeCursor(rows)
       /\ todo' = IF Searching THEN {TypeOf[id] : id \in rows} \cap Checkable ELSE {}
  /\ alive' = {}
  /\ meant' = Meant
  /\ lived' = Ids \ dead
  /\ died' = dead
  /\ UNCHANGED <<worldVars, failures, limit, cursor, shown, steady>>

\* LiveIDs: one more request for each checkable type on the page, in any order.
\* It reads one page of the answer, which is taken to hold every id asked for.
Check(t) ==
  /\ pc = "answer" /\ t \in todo
  /\ todo' = todo \ {t}
  /\ alive' = alive \cup {id \in page : TypeOf[id] = t /\ id \notin dead}
  /\ UNCHANGED <<worldVars, failures, callVars, page, next, shown, pastVars>>

Kept == {id \in page : Searching /\ CanCheck(id) => id \in alive}

\* The tool answers with what is kept and the cursor, and the caller goes on for
\* as long as there is one.
Show ==
  /\ pc = "answer" /\ todo = {}
  /\ shown' = shown \cup Kept
  /\ cursor' = next
  /\ pc' = IF next = None THEN "done" ELSE "idle"
  /\ UNCHANGED <<worldVars, failures, limit, pageVars, pastVars>>

\* Slip: a check that fails lets the rest of the page through.
FailOpen ==
  /\ pc \in {"fetch", "answer"} /\ (pc = "answer" => todo # {})
  /\ failures < MaxFailures
  /\ failures' = failures + 1
  /\ IF pc = "fetch" THEN pc' = "idle" /\ UNCHANGED <<todo, alive>>
     ELSE /\ alive' = alive \cup {id \in page : TypeOf[id] \in todo}
          /\ todo' = {}
          /\ UNCHANGED pc
  /\ UNCHANGED <<worldVars, limit, cursor, page, next, shown, pastVars>>

\* A request fails, of the page or of a check, and with it the call: the caller
\* calls again with the cursor it had.
Fail ==
  /\ pc \in {"fetch", "answer"} /\ (pc = "answer" => todo # {})
  /\ failures < MaxFailures
  /\ failures' = failures + 1
  /\ pc' = "idle"
  /\ UNCHANGED <<worldVars, limit, cursor, pageVars, shown, pastVars>>

-----------------------------------------------------------------------------
MayChange == pc \notin {"done", "refused"} /\ changes < MaxChanges

Changed ==
  /\ changes' = changes + 1
  /\ steady' = {id \in steady : IsMeant(id)' /\ ~MovesUp(id)}

Delete(id) ==
  /\ rank[id] > 0 /\ id \notin dead
  /\ dead' = dead \cup {id}
  /\ died' = died \cup {id}
  /\ UNCHANGED <<question, rank, due, traits, meant, lived>>
  /\ Changed

Restore(id) ==
  /\ id \in dead
  /\ dead' = dead \ {id}
  /\ lived' = lived \cup {id}
  /\ UNCHANGED <<question, rank, due, traits, meant, died>>
  /\ Changed

\* An edit may reschedule an activity; nothing else has a due date.
Reschedule(id) ==
  IF question.tool = "list_activities"
  THEN \E d \in {due[id]} \cup (Dues \ {due[j] : j \in Ids}) : due' = [due EXCEPT ![id] = d]
  ELSE UNCHANGED due

\* A record is made, or edited, and is the last one touched.
Touch(id) ==
  /\ id \notin dead
  /\ \E j \in Ids :
       /\ \A k \in Ids : rank[k] <= rank[j]
       /\ rank' = [rank EXCEPT ![id] = rank[j] + 1]
  /\ \E t \in Traits : traits' = [traits EXCEPT ![id] = t]
  /\ Reschedule(id)
  /\ UNCHANGED <<question, dead, meant, lived, died>>
  /\ Changed

World ==
  /\ MayChange
  /\ \E id \in Ids : Delete(id) \/ Restore(id) \/ Touch(id)
  /\ UNCHANGED <<failures, callVars, pageVars, shown>>

Read == (\E l \in Limits : Call(l)) \/ Fetch \/ (\E t \in Checkable : Check(t)) \/ Show

Next == Read \/ Fail \/ World

Spec == Init /\ [][Next]_vars

\* The caller goes on, and every request ends.
FairSpec == Spec /\ WF_vars(Read)

-----------------------------------------------------------------------------
\* Every variable holds a value of its kind; a page is never larger than what
\* one check may name (liveness.go, "a search page is clamped to 100 hits").
TypeOK ==
  /\ question \in Questions
  /\ rank \in [Ids -> Nat] /\ Distinct(rank)
  /\ due \in [Ids -> Nat] /\ OnePlaceEach(due)
  /\ traits \in [Ids -> Traits] /\ dead \subseteq Ids
  /\ changes \in 0 .. MaxChanges /\ failures \in 0 .. MaxFailures
  /\ pc \in {"idle", "fetch", "answer", "done", "refused"}
  /\ limit \in 1 .. MaxLimit
  /\ cursor \in Nat \cup {None} /\ next \in Nat \cup {None}
  /\ page \subseteq Ids /\ Cardinality(page) <= IdsPerFetch
  /\ todo \subseteq Checkable
  /\ alive \subseteq page
  /\ shown \subseteq Ids
  /\ {steady, meant, lived, died} \subseteq SUBSET Ids

\* A caller that follows next_cursor until it is empty has been shown every
\* record it asked for that was so all along and that no change moved towards
\* the front of the order it was promised: short and empty pages, edits in an
\* order they leave alone, activities put off in a calendar read by due date, and
\* calls that failed and were repeated included (effectiveSort; D-15; search.go,
\* "an EMPTY page is not the end").
NothingSkipped == pc = "done" => steady \subseteq shown

\* A page of a list holds what was asked for when it was read, and nothing else:
\* no archived deal among the live ones, no open activity among the done, no
\* deleted record unless it is asked for (deals.go, ListDeals;
\* statusToDoneFilter).
NothingElse == (pc = "answer" /\ ~Searching) => page \subseteq meant

\* What search shows was alive, and what it drops was dead, at some moment since
\* Pipedrive answered the search, whatever happened between the page and its
\* checks (dropDeletedHits).
HitsAreLive == (Searching /\ pc = "answer" /\ todo = {}) =>
  /\ \A id \in Kept : CanCheck(id) => id \in lived
  /\ page \ Kept \subseteq died

\* A caller that follows next_cursor comes to an end once the changes do.
EveryReadEnds == <>(pc \in {"done", "refused"})
=============================================================================
