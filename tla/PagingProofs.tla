----------------------------- MODULE PagingProofs -----------------------------
(***************************************************************************)
(* What Paging shows of lists and searches, for any records, any pages and *)
(* any number of changes and failures: what a search drops was dead, and   *)
(* what a list has not shown is past its cursor.                           *)
(***************************************************************************)
EXTENDS Paging, FiniteSetTheorems, TLAPS

\* While the hits of a page are checked: who is alive now was at some moment,
\* who is dead was, and so were those that a check found or did not find.
SinceThePage == pc = "answer" =>
  /\ dead \subseteq died
  /\ Ids \ dead \subseteq lived
  /\ alive \subseteq lived
  /\ Searching => \A id \in page :
       CanCheck(id) /\ TypeOf[id] \notin todo /\ id \notin alive => id \in died

PagesTyped == dead \subseteq Ids /\ page \subseteq Ids

IInv == PagesTyped /\ SinceThePage

-----------------------------------------------------------------------------
\* Initially no page is there.
LEMMA InitInv == Init => IInv
<1> SUFFICES ASSUME Init PROVE IInv
  OBVIOUS
<1>1. PagesTyped
  BY WorldsAssumption DEF Init, PagesTyped
<1>2. SinceThePage
  BY DEF Init, SinceThePage
<1> QED
  BY <1>1, <1>2 DEF IInv

\* Pages hold records.
LEMMA TypedStep == ASSUME PagesTyped, [Next]_vars PROVE PagesTyped'
<1> USE DEF PagesTyped
<1>1. ASSUME NEW l \in Limits, Call(l) PROVE PagesTyped'
  BY <1>1 DEF Call, worldVars, pageVars
<1>2. CASE Fetch
  <2>1. PICK n \in 1 .. limit : page' = FirstOf(Left(cursor), n)
    BY <1>2 DEF Fetch
  <2>2. Left(cursor) \subseteq Ids
    BY DEF Left, Listed
  <2> QED
    BY <1>2, <2>1, <2>2 DEF Fetch, FirstOf, worldVars
<1>3. ASSUME NEW t \in Checkable, Check(t) PROVE PagesTyped'
  BY <1>3 DEF Check, worldVars
<1>4. CASE Show
  BY <1>4 DEF Show, worldVars, pageVars
<1>5. CASE Fail
  BY <1>5 DEF Fail, worldVars, pageVars
<1>6. ASSUME NEW id \in Ids, Delete(id), page' = page PROVE PagesTyped'
  BY <1>6 DEF Delete
<1>7. ASSUME NEW id \in Ids, Restore(id), page' = page PROVE PagesTyped'
  BY <1>7 DEF Restore
<1>8. ASSUME NEW id \in Ids, Touch(id), page' = page PROVE PagesTyped'
  BY <1>8 DEF Touch
<1>9. CASE UNCHANGED vars
  BY <1>9 DEF vars, worldVars, pageVars
<1> QED
  BY <1>1, <1>2, <1>3, <1>4, <1>5, <1>6, <1>7, <1>8, <1>9
  DEF Next, Read, World, pageVars

\* A check finds what is alive now; what others do between the page and its last
\* check is recorded.
LEMMA SinceStep == ASSUME IInv, [Next]_vars PROVE SinceThePage'
<1> USE DEF IInv, PagesTyped, SinceThePage
<1>1. ASSUME NEW l \in Limits, Call(l) PROVE SinceThePage'
  BY <1>1 DEF Call
<1>2. CASE Fetch
  <2>1. todo' = IF Searching THEN {TypeOf[id] : id \in page'} \cap Checkable ELSE {}
    BY <1>2 DEF Fetch
  <2>2. /\ alive' = {} /\ lived' = Ids \ dead /\ died' = dead
        /\ dead' = dead /\ question' = question
    BY <1>2 DEF Fetch, worldVars
  <2>3. ASSUME Searching, NEW id \in page', CanCheck(id) PROVE TypeOf[id] \in todo'
    BY <2>1, <2>3 DEF CanCheck
  <2> QED
    BY <2>1, <2>2, <2>3 DEF CanCheck, Searching
<1>3. ASSUME NEW t \in Checkable, Check(t) PROVE SinceThePage'
  <2>1. /\ UNCHANGED <<question, dead, died, lived, page>> /\ pc = "answer"
        /\ todo' = todo \ {t}
        /\ alive' = alive \cup {id \in page : TypeOf[id] = t /\ id \notin dead}
    BY <1>3 DEF Check, worldVars, callVars, pastVars
  <2>2. alive' \subseteq lived'
    BY <2>1
  <2>3. ASSUME Searching, NEW id \in page,
               CanCheck(id), TypeOf[id] \notin todo', id \notin alive'
        PROVE  id \in died
    <3>1. CASE TypeOf[id] = t
      BY <2>1, <2>3, <3>1
    <3>2. CASE TypeOf[id] # t
      BY <2>1, <2>3, <3>2
    <3> QED
      BY <3>1, <3>2
  <2> QED
    BY <2>1, <2>2, <2>3 DEF CanCheck, Searching
<1>4. CASE Show
  BY <1>4 DEF Show
<1>5. CASE Fail
  BY <1>5 DEF Fail
<1> DEFINE Rest == UNCHANGED <<failures, callVars, pageVars, shown>>
<1>6. ASSUME NEW id \in Ids, Delete(id), Rest PROVE SinceThePage'
  BY <1>6 DEF Delete, callVars, pageVars, CanCheck, Searching
<1>7. ASSUME NEW id \in Ids, Restore(id), Rest PROVE SinceThePage'
  BY <1>7 DEF Restore, callVars, pageVars, CanCheck, Searching
<1>8. ASSUME NEW id \in Ids, Touch(id), Rest PROVE SinceThePage'
  BY <1>8 DEF Touch, callVars, pageVars, CanCheck, Searching
<1>9. CASE UNCHANGED vars
  BY <1>9 DEF vars, worldVars, callVars, pageVars, pastVars, CanCheck, Searching
<1> QED
  BY <1>1, <1>2, <1>3, <1>4, <1>5, <1>6, <1>7, <1>8, <1>9 DEF Next, Read, World

LEMMA Inductive == IInv /\ [Next]_vars => IInv'
  BY TypedStep, SinceStep DEF IInv

-----------------------------------------------------------------------------
\* A search shows no checkable hit that was dead from the moment its page was
\* read, and drops none that was alive from then on, whatever is deleted or
\* restored around its checks (dropDeletedHits).
THEOREM TrueHits == Spec => []HitsAreLive
<1>1. IInv => HitsAreLive
  BY DEF IInv, SinceThePage, HitsAreLive, Kept
<1> QED
  BY InitInv, Inductive, <1>1, PTL DEF Spec

-----------------------------------------------------------------------------
\* The question stays, and is a valid one once a page is asked for; a page was
\* among what was meant.
WorldTyped ==
  question \in Questions /\ rank \in [Ids -> Nat] /\ traits \in [Ids -> Traits]
AskedValid == pc \in {"fetch", "answer"} => Valid(question)
PageMeant == (pc = "answer" /\ ~Searching) => page \subseteq meant

ListInv == WorldTyped /\ AskedValid /\ PageMeant

\* What a list tool asks Pipedrive for is what its arguments say, for every
\* question and whatever Pipedrive holds.
LEMMA AskedIsMeant ==
  ASSUME WorldTyped, Valid(question), ~Searching PROVE Listed = Meant
<1> DEFINE q == question
<1>1. /\ q.tool \in Tools \ {"search"} /\ q.owner \in Nat /\ q.archived \in BOOLEAN
      /\ q.since \in Nat /\ q.until \in Nat
  BY QuestionsAssumption DEF WorldTyped, Searching
<1>2. \A id \in Ids : /\ traits[id].owner \in Nat \ {0} /\ traits[id].closed \in BOOLEAN
                      /\ traits[id].archived \in BOOLEAN /\ rank[id] \in Nat
  BY TraitsAssumption DEF WorldTyped
<1>3. q.status = "" \/ q.status \in Statuses(q.tool)
  BY DEF Valid, OneOf
<1> SUFFICES ASSUME NEW id \in Ids PROVE id \in Listed <=> id \in Meant
  BY DEF Listed, Meant
<1> DEFINE Window ==
  /\ rank[id] > 0 /\ rank[id] >= q.since
  /\ q.owner > 0 => traits[id].owner = q.owner
<1>4. ASSUME NEW o, Asked = o, o.owner = q.owner, o.since = q.since
      PROVE  id \in Listed <=>
               /\ Window /\ InCollection(o, id)
               /\ traits[id].closed \in o.closed
               /\ o.status = "open" => ~traits[id].closed
               /\ o.status \in {"won", "lost"} => traits[id].closed
               /\ o.until > 0 => rank[id] <= o.until
  <2>1. q.owner \in {0, traits[id].owner} <=> (q.owner > 0 => traits[id].owner = q.owner)
    BY <1>1, <1>2
  <2> QED
    BY <1>4, <2>1 DEF Listed
<1>5. CASE q.tool = "list_deals"
  <2> DEFINE o == ListDeals(q)
  <2>1. Asked = o /\ o.owner = q.owner /\ o.since = q.since
    BY <1>5 DEF Asked, ListDeals, Options
  <2>2. /\ o.status = q.status /\ o.closed = BOOLEAN /\ o.until = q.until
        /\ o.collection = IF q.archived THEN "deals/archived" ELSE "deals"
    BY DEF ListDeals, Options
  <2>3. InCollection(o, id) <=>
          (traits[id].archived <=> q.archived) /\ (id \in dead <=> q.status = "deleted")
    <3>1. CASE q.archived
      BY <1>1, <1>2, <2>2, <3>1 DEF InCollection
    <3>2. CASE ~q.archived
      BY <1>1, <1>2, <2>2, <3>2 DEF InCollection
    <3> QED
      BY <3>1, <3>2
  <2>4. id \in Listed <=>
          /\ Window
          /\ (traits[id].archived <=> q.archived) /\ (id \in dead <=> q.status = "deleted")
          /\ q.status = "open" => ~traits[id].closed
          /\ q.status \in {"won", "lost"} => traits[id].closed
          /\ q.until > 0 => rank[id] <= q.until
    <3> HIDE DEF o, Window
    <3> QED
      BY <1>2, <1>4, <2>1, <2>2, <2>3
  <2>5. q.status \in {"", "open", "won", "lost", "deleted"}
    BY <1>3, <1>5 DEF Statuses
  <2> QED
    BY <1>5, <2>4, <2>5 DEF Meant, IsMeant
<1>6. CASE q.tool \in {"list_persons", "list_organizations"}
  <2> DEFINE o == Options(q)
  <2>1. Asked = o
    BY <1>6 DEF Asked, ListPersons, ListOrganizations
  <2>2. /\ o.owner = q.owner /\ o.since = q.since /\ o.until = q.until
        /\ o.status = "" /\ o.closed = BOOLEAN /\ o.collection = q.tool
    BY DEF Options
  <2>3. q.status = ""
    BY <1>3, <1>6 DEF Statuses
  <2>4. InCollection(o, id) <=> id \notin dead
    BY <1>6, <2>2 DEF InCollection
  <2>5. id \in Listed <=>
          Window /\ id \notin dead /\ (q.until > 0 => rank[id] <= q.until)
    <3> HIDE DEF o, Window
    <3> QED
      BY <1>2, <1>4, <2>1, <2>2, <2>4
  <2> QED
    BY <1>6, <2>3, <2>5 DEF Meant, IsMeant
<1>7. CASE q.tool = "list_activities"
  <2> DEFINE o == ListActivities(q)
  <2>1. Asked = o
    BY <1>7 DEF Asked
  <2>2. /\ o.owner = q.owner /\ o.since = q.since /\ o.until = q.until
        /\ o.status = "" /\ o.closed = StatusToDoneFilter(q.status)
        /\ o.collection = q.tool
    BY DEF ListActivities, Options
  <2>3. q.status \in {"", "open", "done", "all"}
    BY <1>3, <1>7 DEF Statuses
  <2>4. traits[id].closed \in o.closed <=>
          (q.status = "open" => ~traits[id].closed) /\ (q.status = "done" => traits[id].closed)
    BY <1>2, <2>2, <2>3 DEF StatusToDoneFilter
  <2>5. InCollection(o, id) <=> id \notin dead
    BY <1>7, <2>2 DEF InCollection
  <2>6. id \in Listed <=>
          /\ Window /\ id \notin dead /\ (q.until > 0 => rank[id] <= q.until)
          /\ (q.status = "open" => ~traits[id].closed) /\ (q.status = "done" => traits[id].closed)
    <3> HIDE DEF o, Window
    <3> QED
      BY <1>4, <2>1, <2>2, <2>4, <2>5
  <2> QED
    BY <1>7, <2>3, <2>6 DEF Meant, IsMeant
<1>8. CASE q.tool = "list_notes"
  <2> DEFINE o == ListNotes(q)
  <2>1. Asked = o
    BY <1>8 DEF Asked
  <2>2. /\ o.owner = q.owner /\ o.since = q.since /\ o.until = 0
        /\ o.status = "" /\ o.closed = BOOLEAN /\ o.collection = q.tool
    BY DEF ListNotes, Options
  <2>3. q.status = ""
    BY <1>3, <1>8 DEF Statuses
  <2>4. InCollection(o, id) <=> id \notin dead
    BY <1>8, <2>2 DEF InCollection
  <2>5. id \in Listed <=> Window /\ id \notin dead
    <3>1. ~(o.until > 0) /\ o.status # "open" /\ o.status \notin {"won", "lost"}
      <4>1. ~(0 > 0)
        OBVIOUS
      <4> HIDE DEF o
      <4> QED
        BY <2>2, <4>1
    <3>2. traits[id].closed \in o.closed
      BY <1>2, <2>2
    <3> HIDE DEF o, Window
    <3> QED
      BY <1>4, <2>1, <2>2, <2>4, <3>1, <3>2
  <2> QED
    BY <1>8, <2>3, <2>5 DEF Meant, IsMeant
<1> QED
  BY <1>1, <1>5, <1>6, <1>7, <1>8 DEF Tools

\* Initially no page is there.
LEMMA InitList == Init => ListInv
  BY WorldsAssumption DEF Init, ListInv, WorldTyped, AskedValid, PageMeant

LEMMA ListStep == ASSUME ListInv, [Next]_vars PROVE ListInv'
<1> USE DEF ListInv, WorldTyped, AskedValid, PageMeant
<1>1. ASSUME NEW l \in Limits, Call(l) PROVE ListInv'
  BY <1>1 DEF Call, worldVars
<1>2. CASE Fetch
  <2>1. PICK n \in 1 .. limit : page' = FirstOf(Left(cursor), n)
    BY <1>2 DEF Fetch
  <2>2. page' \subseteq Listed
    BY <2>1 DEF FirstOf, Left
  <2>3. /\ UNCHANGED <<question, rank, traits>> /\ pc = "fetch" /\ meant' = Meant
        /\ Valid(question)
    BY <1>2 DEF Fetch, worldVars
  <2>4. ~Searching => Listed = Meant
    BY <2>3, AskedIsMeant
  <2>5. Searching' <=> Searching
    BY <2>3 DEF Searching
  <2>6. Valid(question)'
    BY <2>3
  <2> QED
    BY <2>2, <2>3, <2>4, <2>5, <2>6
<1>3. ASSUME NEW t \in Checkable, Check(t) PROVE ListInv'
  BY <1>3 DEF Check, worldVars, callVars, pastVars, Searching
<1>4. CASE Show
  BY <1>4 DEF Show, worldVars, pageVars, pastVars, Searching
<1>5. CASE Fail
  BY <1>5 DEF Fail, worldVars, pageVars, pastVars, Searching
<1> DEFINE Rest == UNCHANGED <<failures, callVars, pageVars, shown>>
<1>6. ASSUME NEW id \in Ids, Delete(id), Rest PROVE ListInv'
  BY <1>6 DEF Delete, callVars, pageVars, Searching
<1>7. ASSUME NEW id \in Ids, Restore(id), Rest PROVE ListInv'
  BY <1>7 DEF Restore, callVars, pageVars, Searching
<1>8. ASSUME NEW id \in Ids, Touch(id), Rest PROVE ListInv'
  <2>1. PICK t \in Traits : traits' = [traits EXCEPT ![id] = t]
    BY <1>8 DEF Touch
  <2>2. PICK j \in Ids : rank' = [rank EXCEPT ![id] = rank[j] + 1]
    BY <1>8 DEF Touch
  <2> QED
    BY <1>8, <2>1, <2>2 DEF Touch, callVars, pageVars, Searching
<1>9. CASE UNCHANGED vars
  BY <1>9 DEF vars, worldVars, callVars, pageVars, pastVars, Searching
<1> QED
  BY <1>1, <1>2, <1>3, <1>4, <1>5, <1>6, <1>7, <1>8, <1>9 DEF Next, Read, World

\* A page of a list holds nothing but what was asked for, whatever is asked of
\* which tool and whatever goes on in Pipedrive (ListDeals, statusToDoneFilter
\* and validateEnum against the descriptions of the arguments).
THEOREM PageIsMeant == Spec => []NothingElse
<1>1. ListInv => NothingElse
  BY DEF ListInv, PageMeant, NothingElse
<1> QED
  BY InitList, ListStep, <1>1, PTL DEF Spec

-----------------------------------------------------------------------------
\* The order of a list.

Precedes(i, j) == Before(Asked.sort, KeyOf(Asked.sort, i), KeyOf(Asked.sort, j))

\* A strict total order on a finite set has a first element in every part of it.
LEMMA FirstIn ==
  ASSUME NEW S, IsFiniteSet(S), NEW R, NEW T \in SUBSET S, T # {},
         \A i \in S : <<i, i>> \notin R,
         \A i, j, k \in S : <<i, j>> \in R /\ <<j, k>> \in R => <<i, k>> \in R,
         \A i, j \in S : i = j \/ <<i, j>> \in R \/ <<j, i>> \in R
  PROVE  \E m \in T : \A j \in T : j = m \/ <<m, j>> \in R
<1> DEFINE Ahead(i) == {j \in S : <<j, i>> \in R}
<1>1. IsWellFoundedOn(StrictSubsetOrdering(S), FiniteSubsetsOf(S))
  BY FS_StrictSubsetOrderingWellFounded
<1>2. \A i \in T : Ahead(i) \in FiniteSubsetsOf(S)
  <2> SUFFICES ASSUME NEW i \in T PROVE Ahead(i) \in FiniteSubsetsOf(S)
    OBVIOUS
  <2>1. Ahead(i) \in SUBSET S
    OBVIOUS
  <2>2. IsFiniteSet(Ahead(i))
    BY <2>1, FS_Subset
  <2> QED
    BY <2>1, <2>2 DEF FiniteSubsetsOf
<1> HIDE DEF Ahead
<1>3. PICK m \in T : \A i \in T : <<Ahead(i), Ahead(m)>> \notin StrictSubsetOrdering(S)
  <2> DEFINE A == {Ahead(i) : i \in T}
  <2>1. A \subseteq FiniteSubsetsOf(S) /\ A # {}
    BY <1>2
  <2>2. \E x \in A : \A y \in A : ~(<<y, x>> \in StrictSubsetOrdering(S))
    BY <1>1, <2>1, WFMin
  <2> QED
    BY <2>2
<1> USE DEF Ahead
<1>4. ASSUME NEW j \in T, j # m, <<m, j>> \notin R PROVE FALSE
  <2>1. <<j, m>> \in R
    BY <1>4
  <2>2. Ahead(j) \subseteq Ahead(m)
    BY <2>1
  <2>3. j \in Ahead(m) /\ j \notin Ahead(j)
    BY <2>1
  <2>4. <<Ahead(j), Ahead(m)>> \in StrictSubsetOrdering(S)
    BY <2>2, <2>3, Zenon DEF StrictSubsetOrdering
  <2> QED
    BY <1>3, <2>4
<1> QED
  BY <1>4

\* Keys are numbers, and tell the rows of a list apart.
LEMMA ListedOrder ==
  ASSUME TypeOK
  PROVE  /\ Listed \subseteq Ids /\ IsFiniteSet(Listed)
         /\ \A i \in Ids : KeyOf(Asked.sort, i) \in Nat
         /\ \A i \in Listed : ~Precedes(i, i)
         /\ \A i, j, k \in Listed : Precedes(i, j) /\ Precedes(j, k) => Precedes(i, k)
         /\ \A i, j \in Listed : i = j \/ Precedes(i, j) \/ Precedes(j, i)
<1>1. Listed \subseteq Ids /\ \A i \in Listed : rank[i] > 0
  BY DEF Listed
<1>2. IsFiniteSet(Listed)
  BY <1>1, IdsAssumption, FS_Subset
<1>3. \A i \in Ids : KeyOf(Asked.sort, i) \in Nat
  BY IdsAssumption DEF TypeOK, KeyOf
<1>4. \A i, j \in Listed : KeyOf(Asked.sort, i) = KeyOf(Asked.sort, j) => i = j
  BY <1>1 DEF TypeOK, KeyOf, Distinct, OnePlaceEach
<1> HIDE DEF TypeOK
<1>5. \A i \in Listed : ~Precedes(i, i)
  BY <1>1, <1>3 DEF Precedes, Before
<1>6. \A i, j, k \in Listed : Precedes(i, j) /\ Precedes(j, k) => Precedes(i, k)
  BY <1>1, <1>3 DEF Precedes, Before
<1>7. \A i, j \in Listed : i = j \/ Precedes(i, j) \/ Precedes(j, i)
  BY <1>1, <1>3, <1>4 DEF Precedes, Before
<1> QED
  BY <1>1, <1>2, <1>3, <1>5, <1>6, <1>7

LEMMA FirstRow ==
  ASSUME TypeOK, NEW T \in SUBSET Listed, T # {}
  PROVE  \E m \in T : \A j \in T : j = m \/ Precedes(m, j)
<1> DEFINE R == {p \in Listed \X Listed : Precedes(p[1], p[2])}
<1>1. \A i, j \in Listed : <<i, j>> \in R <=> Precedes(i, j)
  OBVIOUS
<1> HIDE DEF R
<1>2. IsFiniteSet(Listed) /\ T \in SUBSET Listed
  BY ListedOrder
<1>3. /\ \A i \in Listed : <<i, i>> \notin R
      /\ \A i, j, k \in Listed : <<i, j>> \in R /\ <<j, k>> \in R => <<i, k>> \in R
      /\ \A i, j \in Listed : i = j \/ <<i, j>> \in R \/ <<j, i>> \in R
  BY <1>1, ListedOrder, Zenon
<1>4. \E m \in T : \A j \in T : j = m \/ <<m, j>> \in R
  BY <1>2, <1>3, FirstIn
<1> QED
  BY <1>1, <1>4

LEMMA LastRow ==
  ASSUME TypeOK, NEW T \in SUBSET Listed, T # {}
  PROVE  \E m \in T : \A j \in T : j = m \/ Precedes(j, m)
<1> DEFINE R == {p \in Listed \X Listed : Precedes(p[2], p[1])}
<1>1. \A i, j \in Listed : <<i, j>> \in R <=> Precedes(j, i)
  OBVIOUS
<1> HIDE DEF R
<1>2. IsFiniteSet(Listed) /\ T \in SUBSET Listed
  BY ListedOrder
<1>3. /\ \A i \in Listed : <<i, i>> \notin R
      /\ \A i, j, k \in Listed : <<i, j>> \in R /\ <<j, k>> \in R => <<i, k>> \in R
      /\ \A i, j \in Listed : i = j \/ <<i, j>> \in R \/ <<j, i>> \in R
  BY <1>1, ListedOrder, Zenon
<1>4. \E m \in T : \A j \in T : j = m \/ <<m, j>> \in R
  BY <1>2, <1>3, FirstIn
<1> QED
  BY <1>1, <1>4

\* The rows above a row, counted.
LEMMA AboveRow ==
  ASSUME TypeOK, NEW T \in SUBSET Listed, NEW i \in Listed
  PROVE  /\ Above(i, T) = {j \in T : Precedes(j, i)}
         /\ IsFiniteSet(Above(i, T)) /\ Cardinality(Above(i, T)) \in Nat
<1>1. Above(i, T) = {j \in T : Precedes(j, i)}
  BY DEF Above, Precedes
<1>2. Above(i, T) \in SUBSET Listed
  BY <1>1
<1> QED
  BY <1>1, <1>2, ListedOrder, FS_Subset, FS_CardinalityType

\* The first n rows of some are some, at most n, and ahead of all the others.
LEMMA FirstRows ==
  ASSUME TypeOK, NEW T \in SUBSET Listed, NEW n \in Nat \ {0}
  PROVE  /\ T # {} => FirstOf(T, n) # {}
         /\ FirstOf(T, n) \in SUBSET T /\ IsFiniteSet(FirstOf(T, n))
         /\ Cardinality(FirstOf(T, n)) \in 0 .. n
         /\ \A i \in T \ FirstOf(T, n), j \in FirstOf(T, n) : Precedes(j, i)
<1> DEFINE F == FirstOf(T, n)
<1>1. F = {i \in T : Cardinality(Above(i, T)) < n}
  BY DEF FirstOf
<1> HIDE DEF F
<1>2. F \in SUBSET Listed /\ IsFiniteSet(F) /\ Cardinality(F) \in Nat
  BY <1>1, ListedOrder, FS_Subset, FS_CardinalityType
<1>3. ASSUME T # {} PROVE F # {}
  <2>1. PICK m \in T : \A j \in T : j = m \/ Precedes(m, j)
    BY <1>3, FirstRow
  <2>2. Above(m, T) = {}
    BY <2>1, AboveRow, ListedOrder
  <2> QED
    BY <1>1, <2>2, FS_EmptySet
<1>4. Cardinality(F) <= n
  <2>1. CASE F = {}
    BY <2>1, FS_EmptySet
  <2>2. CASE F # {}
    <3>1. PICK m \in F : \A j \in F : j = m \/ Precedes(j, m)
      BY <1>2, <2>2, LastRow
    <3> DEFINE A == Above(m, T)
    <3>2. F \in SUBSET (A \cup {m})
      BY <1>1, <3>1, AboveRow
    <3>3. IsFiniteSet(A) /\ Cardinality(A) \in Nat /\ Cardinality(A) < n
      BY <1>1, AboveRow
    <3> HIDE DEF A
    <3>4. /\ IsFiniteSet(A \cup {m})
          /\ Cardinality(A \cup {m}) \in {Cardinality(A), Cardinality(A) + 1}
      BY <3>3, FS_AddElement
    <3>5. Cardinality(A \cup {m}) \in Nat
      BY <3>4, FS_CardinalityType
    <3>6. Cardinality(F) <= Cardinality(A \cup {m})
      BY <3>2, <3>4, FS_Subset
    <3> QED
      BY <1>2, <3>3, <3>4, <3>5, <3>6
  <2> QED
    BY <2>1, <2>2
<1>5. ASSUME NEW i \in T \ F, NEW j \in F PROVE Precedes(j, i)
  <2> SUFFICES ASSUME ~Precedes(j, i) PROVE FALSE
    OBVIOUS
  <2>1. i \in Listed /\ j \in Listed /\ i # j
    BY <1>2
  <2>2. Precedes(i, j)
    BY <2>1, ListedOrder
  <2>3. Above(i, T) \in SUBSET Above(j, T)
    BY <2>1, <2>2, AboveRow, ListedOrder
  <2>4. Cardinality(Above(i, T)) <= Cardinality(Above(j, T))
    BY <2>1, <2>3, AboveRow, FS_Subset
  <2>5. Cardinality(Above(j, T)) < n /\ ~(Cardinality(Above(i, T)) < n)
    BY <1>1
  <2> QED
    BY <2>1, <2>4, <2>5, AboveRow
<1> QED
  BY <1>1, <1>2, <1>3, <1>4, <1>5 DEF F

\* A cursor names a place or is none; past it is every row of what was left that
\* is not on the page.
LEMMA CursorLeaves ==
  ASSUME TypeOK, NEW n \in Nat \ {0}
  PROVE  LET rows == FirstOf(Left(cursor), n) IN
         /\ rows \in SUBSET Ids
         /\ EncodeCursor(rows) \in Nat \cup {None}
         /\ \A i \in Left(cursor) \ rows :
              EncodeCursor(rows) # None /\ i \in Left(EncodeCursor(rows))
<1> DEFINE L == Left(cursor)
           rows == FirstOf(L, n)
           c == EncodeCursor(rows)
           sort == Asked.sort
<1>1. L \in SUBSET Listed
  BY DEF Left
<1>2. /\ L # {} => rows # {}
      /\ rows \in SUBSET L /\ IsFiniteSet(rows) /\ Cardinality(rows) \in Nat
      /\ \A i \in L \ rows, j \in rows : Precedes(j, i)
  <2> HIDE DEF L
  <2> QED
    BY <1>1, FirstRows
<1> HIDE DEF rows
<1>3. L \in SUBSET Ids /\ rows \in SUBSET Ids /\ rows \in SUBSET Listed
  BY <1>1, <1>2, ListedOrder
<1>4. Offset \in Nat
  BY NoneAssumption DEF TypeOK, Offset
<1>5. CASE rows = L
  BY <1>3, <1>5 DEF EncodeCursor, rows
<1>6. CASE rows # L /\ question.tool = "list_notes"
  <2>1. c = Offset + Cardinality(rows)
    BY <1>6 DEF EncodeCursor
  <2>2. c \in Nat /\ c # None
    BY <1>2, <1>4, <2>1, NoneAssumption
  <2>3. ASSUME NEW i \in L \ rows PROVE i \in Left(c)
    <3>1. PICK m \in L : \A j \in L : j = m \/ Precedes(m, j)
      BY <1>1, <2>3, FirstRow
    <3> DEFINE above(j) == Above(j, Listed)
    <3>2. Cardinality(above(m)) >= Offset
      <4>1. CASE cursor = None
        BY <1>1, <4>1, AboveRow DEF Offset
      <4>2. CASE cursor # None
        BY <1>6, <4>2 DEF Offset, Left
      <4> QED
        BY <4>1, <4>2
    <3>3. \A j \in Listed : /\ above(j) = {k \in Listed : Precedes(k, j)}
                            /\ IsFiniteSet(above(j)) /\ Cardinality(above(j)) \in Nat
      BY AboveRow
    <3> HIDE DEF above
    <3>4. i \in Listed /\ m \in Listed
      BY <1>1, <2>3
    <3>5. above(m) \cap rows = {}
      BY <1>1, <1>2, <3>1, <3>3, <3>4, ListedOrder
    <3>6. above(m) \cup rows \in SUBSET above(i)
      BY <1>2, <1>3, <2>3, <3>1, <3>3, <3>4, ListedOrder
    <3>7. Cardinality(above(m) \cup rows) = Cardinality(above(m)) + Cardinality(rows)
      <4> DEFINE A == above(m)
      <4>1. IsFiniteSet(A) /\ Cardinality(A) \in Nat /\ A \cap rows = {}
        BY <3>3, <3>4, <3>5
      <4> HIDE DEF A
      <4>2. Cardinality(A \cup rows) = Cardinality(A) + Cardinality(rows) - Cardinality(A \cap rows)
        BY <1>2, <4>1, FS_Union
      <4>3. Cardinality(A \cup rows) = Cardinality(A) + Cardinality(rows)
        BY <1>2, <4>1, <4>2, FS_EmptySet
      <4> QED
        BY <4>3 DEF A
    <3>8. Cardinality(above(m) \cup rows) <= Cardinality(above(i))
      BY <3>3, <3>4, <3>6, FS_Subset
    <3>9. Cardinality(above(i)) >= c
      BY <1>2, <1>4, <2>1, <3>2, <3>3, <3>4, <3>7, <3>8
    <3> QED
      BY <1>6, <2>2, <3>4, <3>9 DEF Left, above
  <2> QED
    BY <1>3, <2>2, <2>3 DEF rows
<1>7. CASE rows # L /\ question.tool # "list_notes"
  <2>1. rows # {}
    BY <1>2, <1>7
  <2>2. PICK m \in rows : \A j \in rows : j = m \/ Precedes(j, m)
    BY <1>3, <2>1, LastRow
  <2> DEFINE K == {KeyOf(sort, i) : i \in rows}
  <2>3. \A i \in Ids : KeyOf(sort, i) \in Nat
    BY ListedOrder
  <2>4. \A j \in rows : ~Before(sort, KeyOf(sort, m), KeyOf(sort, j))
    BY <1>3, <2>2, <2>3 DEF Precedes, Before
  <2>5. KeyOf(sort, m) \in K
    OBVIOUS
  <2>6. c \in K /\ \A j \in rows : ~Before(sort, c, KeyOf(sort, j))
    <3>1. c = CHOOSE k \in K : \A j \in rows : ~Before(sort, k, KeyOf(sort, j))
      BY <1>7 DEF EncodeCursor, LastOf
    <3> HIDE DEF K, c, sort
    <3> QED
      BY <2>4, <2>5, <3>1
  <2> HIDE DEF c
  <2>7. c \in Nat /\ c # None
    BY <1>3, <2>3, <2>6, NoneAssumption
  <2>8. ASSUME NEW i \in L \ rows PROVE i \in Left(c)
    <3>1. PICK k \in rows : c = KeyOf(sort, k)
      BY <2>6
    <3>2. Before(sort, c, KeyOf(sort, i))
      BY <1>2, <2>8, <3>1 DEF Precedes
    <3> QED
      BY <1>1, <1>7, <2>7, <2>8, <3>2 DEF Left
  <2> QED
    BY <1>3, <2>7, <2>8 DEF rows, c
<1> QED
  BY <1>5, <1>6, <1>7

-----------------------------------------------------------------------------
\* Every variable keeps its type.

LEMMA TypedInit == Init => TypeOK
<1> SUFFICES ASSUME Init PROVE TypeOK
  OBVIOUS
<1>1. /\ rank \in [Ids -> Nat] /\ Distinct(rank) /\ due \in [Ids -> Nat] /\ OnePlaceEach(due)
      /\ traits \in [Ids -> Traits] /\ dead \subseteq Ids
  BY WorldsAssumption DEF Init, Distinct, OnePlaceEach
<1>2. limit \in 1 .. MaxLimit
  BY LimitsAssumption DEF Init
<1>3. Cardinality({}) <= IdsPerFetch /\ 0 \in 0 .. MaxChanges /\ 0 \in 0 .. MaxFailures
  BY LimitsAssumption, BoundsAssumption, FS_EmptySet
<1> QED
  BY <1>1, <1>2, <1>3 DEF Init, TypeOK, Meant

LEMMA TypedNext == TypeOK /\ [Next]_vars => TypeOK'
<1> SUFFICES ASSUME TypeOK, [Next]_vars PROVE TypeOK'
  OBVIOUS
<1> USE DEF TypeOK
<1>1. ASSUME NEW l \in Limits, Call(l) PROVE TypeOK'
  <2>1. ClampLimit(l) \in 1 .. MaxLimit
    BY LimitsAssumption DEF ClampLimit
  <2>2. UNCHANGED <<worldVars, failures, cursor, pageVars, shown, pastVars>>
    BY <1>1 DEF Call
  <2> QED
    BY <1>1, <2>1, <2>2 DEF Call, worldVars, pageVars, pastVars
<1>2. CASE Fetch
  <2>1. PICK n \in 1 .. limit : LET rows == FirstOf(Left(cursor), n) IN
               page' = rows /\ next' = EncodeCursor(rows)
    BY <1>2 DEF Fetch
  <2>2. n \in Nat \ {0} /\ n <= IdsPerFetch
    BY LimitsAssumption
  <2>3. page' \in SUBSET Ids /\ next' \in Nat \cup {None}
    BY <2>1, <2>2, CursorLeaves
  <2>4. Cardinality(page') \in 0 .. n
    <3>1. Left(cursor) \in SUBSET Listed
      BY DEF Left
    <3> HIDE DEF TypeOK
    <3> QED
      BY <2>1, <2>2, <3>1, FirstRows
  <2>5. todo' \subseteq Checkable /\ Meant \subseteq Ids
    BY <1>2 DEF Fetch, Meant
  <2>6. Cardinality(page') <= IdsPerFetch
    BY <2>2, <2>4, LimitsAssumption
  <2> QED
    BY <1>2, <2>3, <2>5, <2>6 DEF Fetch, worldVars
<1>3. ASSUME NEW t \in Checkable, Check(t) PROVE TypeOK'
  BY <1>3 DEF Check, worldVars, callVars, pastVars
<1>4. CASE Show
  BY <1>4 DEF Show, Kept, worldVars, pageVars, pastVars
<1>5. CASE Fail
  BY <1>5, BoundsAssumption DEF Fail, worldVars, pageVars, pastVars
<1>6. CASE World
  <2>1. UNCHANGED <<failures, pc, limit, cursor, page, next, todo, alive, shown>>
    BY <1>6 DEF World, callVars, pageVars
  <2>2. changes' \in 0 .. MaxChanges /\ steady' \subseteq steady
    BY <1>6, BoundsAssumption DEF World, MayChange, Delete, Restore, Touch, Changed
  <2>3. PICK id \in Ids : Delete(id) \/ Restore(id) \/ Touch(id)
    BY <1>6 DEF World
  <2>4. CASE Delete(id)
    BY <2>1, <2>2, <2>4 DEF Delete
  <2>5. CASE Restore(id)
    BY <2>1, <2>2, <2>5 DEF Restore
  <2>6. CASE Touch(id)
    <3>1. PICK j \in Ids : /\ \A k \in Ids : rank[k] <= rank[j]
                           /\ rank' = [rank EXCEPT ![id] = rank[j] + 1]
      BY <2>6 DEF Touch
    <3>2. rank' \in [Ids -> Nat] /\ Distinct(rank')
      BY <3>1 DEF Distinct
    <3>3. traits' \in [Ids -> Traits]
      BY <2>6 DEF Touch
    <3>4. UNCHANGED <<question, dead, meant, lived, died>>
      BY <2>6 DEF Touch
    <3>5. due' \in [Ids -> Nat] /\ OnePlaceEach(due')
      <4>1. CASE UNCHANGED due
        BY <4>1 DEF OnePlaceEach
      <4>2. CASE \E d \in {due[id]} \cup (Dues \ {due[k] : k \in Ids}) : due' = [due EXCEPT ![id] = d]
        <5>1. PICK d \in {due[id]} \cup (Dues \ {due[k] : k \in Ids}) : due' = [due EXCEPT ![id] = d]
          BY <4>2
        <5>2. d \in Nat /\ \A k \in Ids : k # id => due[k] # d
          BY DuesAssumption DEF OnePlaceEach
        <5>3. \A k \in Ids : due'[k] = IF k = id THEN d ELSE due[k]
          BY <5>1
        <5>4. due' \in [Ids -> Nat]
          BY <5>1, <5>2
        <5> QED
          BY <5>2, <5>3, <5>4 DEF OnePlaceEach
      <4> QED
        BY <2>6, <4>1, <4>2 DEF Touch, Reschedule
    <3> QED
      BY <2>1, <2>2, <3>2, <3>3, <3>4, <3>5 DEF Distinct, OnePlaceEach
  <2> QED
    BY <2>3, <2>4, <2>5, <2>6
<1>7. CASE UNCHANGED vars
  BY <1>7 DEF vars, worldVars, callVars, pageVars, pastVars, Distinct, OnePlaceEach
<1> QED
  BY <1>1, <1>2, <1>3, <1>4, <1>5, <1>6, <1>7 DEF Next, Read

\* Every variable holds a value of its kind, and no page is too large for one
\* liveness check of its hits (clampLimit against livenessIDsPerFetch).
THEOREM Typing == Spec => []TypeOK
  BY TypedInit, TypedNext, PTL DEF Spec

-----------------------------------------------------------------------------
\* What the caller has not been shown yet is past its cursor, and stays there as
\* long as nothing moves it to the front.

SteadyMeant == steady \subseteq Meant
PlaceInv == Valid(question) => \A i \in steady \ shown :
  /\ pc \in {"idle", "fetch", "answer"} /\ i \in Left(cursor)
  /\ pc = "answer" => i \in page \/ (next # None /\ i \in Left(next))
FoundInv == (pc = "answer" /\ Searching) => \A i \in page \cap steady :
  CanCheck(i) => TypeOf[i] \in todo \/ i \in alive
RefusedInv == pc \in {"fetch", "answer", "done"} => Valid(question)

ReadInv == SteadyMeant /\ PlaceInv /\ FoundInv /\ RefusedInv

\* What is meant is listed, also by the search index, which keeps more.
LEMMA MeantListed == TypeOK /\ Valid(question) => Meant \subseteq Listed
<1> SUFFICES ASSUME TypeOK, Valid(question) PROVE Meant \subseteq Listed
  OBVIOUS
<1>1. WorldTyped
  BY DEF TypeOK, WorldTyped
<1>2. CASE ~Searching
  BY <1>1, <1>2, AskedIsMeant
<1>3. CASE Searching
  <2> DEFINE o == Asked
  <2>1. /\ o.collection = "search" /\ o.owner = question.owner /\ o.status = ""
        /\ o.closed = BOOLEAN /\ o.since = question.since /\ o.until = question.until
    BY <1>3 DEF Searching, Asked, ItemSearch, Options
  <2>2. question.owner \in Nat
    BY QuestionsAssumption DEF TypeOK
  <2>3. \A i \in Ids : traits[i].closed \in BOOLEAN /\ traits[i].owner \in Nat \ {0}
    BY TraitsAssumption DEF TypeOK
  <2>4. ASSUME NEW i \in Meant PROVE i \in Listed
    <3>1. /\ i \in Ids /\ rank[i] > 0 /\ i \notin dead /\ rank[i] >= question.since
          /\ question.owner > 0 => traits[i].owner = question.owner
          /\ question.until > 0 => rank[i] <= question.until
      BY <1>3, <2>4 DEF Searching, Meant, IsMeant
    <3>2. InCollection(o, i)
      BY <2>1, <3>1 DEF InCollection
    <3>3. question.owner \in {0, traits[i].owner}
      BY <2>2, <3>1
    <3> HIDE DEF o
    <3>4. /\ o.status # "open" /\ o.status \notin {"won", "lost"}
          /\ traits[i].closed \in o.closed
      BY <2>1, <2>3, <3>1
    <3> QED
      BY <2>1, <3>1, <3>2, <3>3, <3>4 DEF Listed, o
  <2> QED
    BY <2>4
<1> QED
  BY <1>2, <1>3

\* A list comes in the order promised.
LEMMA SortIsPromised ==
  TypeOK /\ Valid(question) /\ ~Searching => Asked.sort = Promised
<1> SUFFICES ASSUME TypeOK, Valid(question), ~Searching PROVE Asked.sort = Promised
  OBVIOUS
<1>1. question.tool \in Tools \ {"search"}
  BY QuestionsAssumption DEF TypeOK, Searching
<1>2. question.sortDirection \in {"", "asc", "desc"}
  BY DEF Valid, OneOf
<1>3. Asked.sort = EffectiveSort(question.sortBy, question.sortDirection)
  BY <1>1 DEF Tools, Asked, Options, ListDeals, ListPersons, ListOrganizations,
              ListActivities, ListNotes
<1>4. EffectiveSort(question.sortBy, question.sortDirection) = Promised
  BY <1>2 DEF EffectiveSort, Promised, Searching
<1> QED
  BY <1>3, <1>4

\* A note's place is the number of rows above it.
NotesPlaced == (Valid(question) /\ question.tool = "list_notes") => \A i \in Listed :
  PlaceOf(i) = Cardinality(Above(i, Listed)) /\ PlaceOf(i) \in Nat
LEMMA NotePlace == TypeOK => NotesPlaced
<1> SUFFICES ASSUME TypeOK, Valid(question), question.tool = "list_notes", NEW i \in Listed
             PROVE  PlaceOf(i) = Cardinality(Above(i, Listed)) /\ PlaceOf(i) \in Nat
  BY DEF NotesPlaced
<1>1. ~Searching
  BY DEF Searching
<1>2. Listed = Meant /\ Asked.sort = Promised
  BY <1>1, AskedIsMeant, SortIsPromised DEF TypeOK, WorldTyped
<1>3. Cardinality(Above(i, Listed)) \in Nat
  BY AboveRow
<1> QED
  BY <1>2, <1>3 DEF PlaceOf, Above

KeysTyped == \A i \in Ids : KeyOf(Asked.sort, i) \in Nat
LEMMA KeyTyped == TypeOK => KeysTyped
  BY ListedOrder DEF KeysTyped

\* As long as Pipedrive stays as it is, so does what a cursor leaves.
LEMMA SameWorld ==
  ASSUME UNCHANGED <<question, rank, due, traits, dead>>
  PROVE  /\ Left(cursor)' = Left(cursor') /\ Left(next)' = Left(next')
         /\ Meant' = Meant /\ Valid(question)' = Valid(question) /\ Searching' = Searching
<1>1. Asked' = Asked
  BY DEF Asked, Options, ListDeals, ListPersons, ListOrganizations, ListActivities,
         ListNotes, ItemSearch, EffectiveSort, StatusToDoneFilter
<1>2. Listed' = Listed
  BY <1>1 DEF Listed, InCollection
<1>3. Left(cursor)' = Left(cursor') /\ Left(next)' = Left(next')
  BY <1>1, <1>2 DEF Left, Above, KeyOf
<1> QED
  BY <1>3 DEF Meant, IsMeant, Valid, Searching

\* A change leaves steady what it does not move to the front of what is left.
LEMMA SteadyStays ==
  ASSUME TypeOK, TypeOK', SteadyMeant, Valid(question), World, NEW i \in steady'
  PROVE  /\ i \in steady /\ i \in Meant'
         /\ i \in Left(cursor) => i \in Left(cursor)'
         /\ (next # None /\ i \in Left(next)) => (next' # None /\ i \in Left(next)')
<1>1. /\ UNCHANGED <<question, cursor, next>> /\ i \in Ids
      /\ i \in steady /\ IsMeant(i)' /\ ~MovesUp(i)
  <2>1. UNCHANGED <<question, cursor, next>> /\ Changed
    BY DEF World, Delete, Restore, Touch, callVars, pageVars
  <2> QED
    BY <2>1 DEF Changed, TypeOK
<1>2. i \in Meant /\ i \in Meant'
  BY <1>1 DEF SteadyMeant, Meant
<1>3. Valid(question)'
  BY <1>1 DEF Valid
<1>4. i \in Listed /\ i \in Listed'
  <2>1. Meant \subseteq Listed
    BY MeantListed
  <2>2. (Meant \subseteq Listed)'
    <3>1. (TypeOK /\ Valid(question) => Meant \subseteq Listed)'
      BY MeantListed, PTL
    <3> QED
      BY <1>3, <3>1
  <2> QED
    BY <1>2, <2>1, <2>2
<1>5. Asked' = Asked /\ Promised' = Promised
  BY <1>1 DEF Asked, Options, ListDeals, ListPersons, ListOrganizations, ListActivities,
         ListNotes, ItemSearch, EffectiveSort, StatusToDoneFilter, Promised, Searching
<1> DEFINE key == KeyOf(Asked.sort, i)
<1>6. key \in Nat /\ key' \in Nat
  <2>1. KeysTyped /\ KeysTyped'
    BY KeyTyped, PTL
  <2> QED
    BY <1>1, <2>1 DEF KeysTyped
<1>7. CASE question.tool = "list_notes"
  <2> DEFINE above == Cardinality(Above(i, Listed))
  <2>1. PlaceOf(i) = above /\ above \in Nat
    BY <1>4, <1>7, NotePlace DEF NotesPlaced
  <2>2. (PlaceOf(i) = above /\ above \in Nat)'
    <3>1. NotesPlaced'
      BY NotePlace, PTL
    <3>2. (question.tool = "list_notes")'
      BY <1>1, <1>7
    <3> QED
      BY <1>3, <1>4, <3>1, <3>2 DEF NotesPlaced
  <2>3. ~(PlaceOf(i)' < PlaceOf(i))
    BY <1>1, <1>7 DEF MovesUp
  <2>4. \A c \in Nat : above >= c => above' >= c
    BY <2>1, <2>2, <2>3
  <2> HIDE DEF above
  <2>5. /\ i \in Left(cursor) <=> cursor = None \/ above >= cursor
        /\ i \in Left(cursor)' <=> cursor' = None \/ above' >= cursor'
        /\ i \in Left(next) <=> next = None \/ above >= next
        /\ i \in Left(next)' <=> next' = None \/ above' >= next'
    BY <1>1, <1>4, <1>7 DEF Left, above
  <2> QED
    BY <1>1, <1>2, <2>4, <2>5 DEF TypeOK
<1>8. CASE question.tool # "list_notes"
  <2>1. ~Before(Asked.sort, key', key)
    <3>1. CASE Searching
      <4>1. Asked.sort.by = "score"
        BY <3>1 DEF Searching, Asked, ItemSearch, Options
      <4>2. key' = key
        BY <1>5, <4>1 DEF KeyOf
      <4> QED
        BY <1>6, <4>2 DEF Before
    <3>2. CASE ~Searching
      <4>1. Asked.sort = Promised /\ Asked'.sort = Promised'
        BY <1>5, <3>2, SortIsPromised
      <4>2. ~Before(Promised, KeyOf(Promised, i)', KeyOf(Promised, i))
        BY <1>1, <1>8 DEF MovesUp
      <4> QED
        BY <1>5, <4>1, <4>2 DEF KeyOf
    <3> QED
      BY <3>1, <3>2
  <2>2. \A c \in Nat : Before(Asked.sort, c, key) => Before(Asked.sort, c, key')
    BY <1>6, <2>1 DEF Before
  <2> HIDE DEF key
  <2>3. /\ i \in Left(cursor) <=> cursor = None \/ Before(Asked.sort, cursor, key)
        /\ i \in Left(cursor)' <=> cursor' = None \/ Before(Asked.sort, cursor', key')
        /\ i \in Left(next) <=> next = None \/ Before(Asked.sort, next, key)
        /\ i \in Left(next)' <=> next' = None \/ Before(Asked.sort, next', key')
    <3>1. /\ i \in Left(cursor) <=> cursor = None \/ Before(Asked.sort, cursor, key)
          /\ i \in Left(next) <=> next = None \/ Before(Asked.sort, next, key)
      BY <1>4, <1>8 DEF Left, key
    <3>2. /\ i \in Left(cursor)' <=> cursor' = None \/ Before(Asked.sort, cursor', key')
          /\ i \in Left(next)' <=> next' = None \/ Before(Asked.sort, next', key')
      BY <1>1, <1>4, <1>5, <1>8 DEF Left, key, Before
    <3> QED
      BY <3>1, <3>2
  <2> QED
    BY <1>1, <1>2, <2>2, <2>3 DEF TypeOK
<1> QED
  BY <1>7, <1>8

-----------------------------------------------------------------------------
LEMMA ReadInit == Init => ReadInv
<1> SUFFICES ASSUME Init PROVE ReadInv
  OBVIOUS
<1>1. SteadyMeant /\ FoundInv /\ RefusedInv
  BY DEF Init, SteadyMeant, FoundInv, RefusedInv
<1>2. PlaceInv
  <2> SUFFICES ASSUME Valid(question), NEW i \in steady PROVE i \in Left(cursor)
    BY DEF Init, PlaceInv
  <2>1. Meant \subseteq Listed
    BY MeantListed, TypedInit
  <2> QED
    BY <2>1 DEF Init, Left
<1> QED
  BY <1>1, <1>2 DEF ReadInv

\* A read shows what is on its page, and leaves the rest to its next cursor.
LEMMA ReadStep ==
  ASSUME TypeOK, ReadInv, Read PROVE ReadInv'
<1> USE DEF ReadInv, SteadyMeant, PlaceInv, FoundInv, RefusedInv
<1>1. UNCHANGED <<question, rank, due, traits, dead, steady>>
  BY DEF Read, Call, Fetch, Check, Show, worldVars, pastVars
<1>2. /\ Left(cursor)' = Left(cursor') /\ Left(next)' = Left(next')
      /\ Meant' = Meant /\ Valid(question)' = Valid(question) /\ Searching' = Searching
  BY <1>1, SameWorld
<1>3. SteadyMeant'
  BY <1>1, <1>2
<1>4. ASSUME NEW l \in Limits, Call(l) PROVE ReadInv'
  <2>1. UNCHANGED <<cursor, next, page, shown>> /\ pc = "idle"
    BY <1>4 DEF Call, pageVars
  <2>2. pc' = IF Valid(question) THEN "fetch" ELSE "refused"
    BY <1>4 DEF Call
  <2> QED
    BY <1>1, <1>2, <1>3, <2>1, <2>2
<1>5. CASE Fetch
  <2>1. /\ pc = "fetch" /\ pc' = "answer" /\ Valid(question)
        /\ UNCHANGED <<cursor, shown>>
        /\ todo' = IF Searching THEN {TypeOf[id] : id \in page'} \cap Checkable ELSE {}
    BY <1>5 DEF Fetch
  <2>2. PICK n \in 1 .. limit : /\ page' = FirstOf(Left(cursor), n)
                                /\ next' = EncodeCursor(FirstOf(Left(cursor), n))
    BY <1>5 DEF Fetch
  <2>3. n \in Nat \ {0}
    BY DEF TypeOK
  <2>4. \A i \in Left(cursor) \ page' : next' # None /\ i \in Left(next')
    BY <2>2, <2>3, CursorLeaves
  <2>5. PlaceInv'
    BY <1>1, <1>2, <2>1, <2>4
  <2>6. FoundInv'
    BY <1>2, <2>1 DEF CanCheck
  <2> QED
    BY <1>2, <1>3, <2>1, <2>5, <2>6
<1>6. ASSUME NEW t \in Checkable, Check(t) PROVE ReadInv'
  <2>1. /\ UNCHANGED <<pc, cursor, next, page, shown>> /\ pc = "answer"
        /\ todo' = todo \ {t}
        /\ alive' = alive \cup {i \in page : TypeOf[i] = t /\ i \notin dead}
    BY <1>6 DEF Check, callVars
  <2>2. PlaceInv'
    BY <1>1, <1>2, <2>1
  <2>3. FoundInv'
    <3> SUFFICES ASSUME Searching, NEW i \in page \cap steady, CanCheck(i)
                 PROVE  TypeOf[i] \in todo' \/ i \in alive'
      BY <1>1, <1>2, <2>1 DEF CanCheck
    <3>1. i \notin dead
      BY DEF Meant, IsMeant, Searching
    <3> QED
      BY <2>1, <3>1
  <2> QED
    BY <1>2, <1>3, <2>1, <2>2, <2>3
<1>7. CASE Show
  <2>1. /\ pc = "answer" /\ todo = {} /\ shown' = shown \cup Kept
        /\ cursor' = next /\ pc' = IF next = None THEN "done" ELSE "idle"
    BY <1>7 DEF Show
  <2>2. page \cap steady \subseteq Kept
    BY <2>1 DEF Kept
  <2>3. PlaceInv'
    BY <1>1, <1>2, <2>1, <2>2
  <2> QED
    BY <1>2, <1>3, <2>1, <2>3
<1> QED
  BY <1>4, <1>5, <1>6, <1>7 DEF Read

\* A call that failed is repeated with the cursor it had; a change keeps in
\* place what it keeps steady.
LEMMA ReadNext == TypeOK /\ TypeOK' /\ ReadInv /\ [Next]_vars => ReadInv'
<1> SUFFICES ASSUME TypeOK, TypeOK', ReadInv, [Next]_vars PROVE ReadInv'
  OBVIOUS
<1> USE DEF ReadInv, SteadyMeant, PlaceInv, FoundInv, RefusedInv
<1>1. CASE Read
  BY <1>1, ReadStep
<1>2. CASE Fail
  <2>1. /\ UNCHANGED <<question, rank, due, traits, dead, steady, cursor, next, page, shown>>
        /\ pc \in {"fetch", "answer"} /\ pc' = "idle"
    BY <1>2 DEF Fail, worldVars, pageVars, pastVars
  <2> QED
    BY <2>1, SameWorld
<1>3. CASE World
  <2>1. UNCHANGED <<question, pc, cursor, next, page, todo, alive, shown>>
    BY <1>3 DEF World, Delete, Restore, Touch, callVars, pageVars
  <2>2. Valid(question)' = Valid(question) /\ Searching' = Searching
    BY <2>1 DEF Valid, Searching
  <2>3. CASE ~Valid(question)
    <3>1. steady' \subseteq Meant'
      BY <1>3 DEF World, Delete, Restore, Touch, Changed, Meant, TypeOK
    <3>2. pc \notin {"fetch", "answer", "done"}
      BY <2>3
    <3> QED
      BY <2>1, <2>2, <2>3, <3>1, <3>2
  <2>4. CASE Valid(question)
    <3>1. \A i \in steady' :
            /\ i \in steady /\ i \in Meant'
            /\ i \in Left(cursor) => i \in Left(cursor)'
            /\ (next # None /\ i \in Left(next)) => (next' # None /\ i \in Left(next)')
      BY <1>3, <2>4, SteadyStays
    <3>2. PlaceInv'
      BY <2>1, <2>2, <2>4, <3>1
    <3>3. SteadyMeant' /\ FoundInv' /\ RefusedInv'
      BY <2>1, <2>2, <3>1 DEF CanCheck
    <3> QED
      BY <3>2, <3>3
  <2> QED
    BY <2>3, <2>4
<1>4. CASE UNCHANGED vars
  <2>1. /\ UNCHANGED <<question, rank, due, traits, dead, steady, cursor, next, page, shown>>
        /\ UNCHANGED <<pc, todo, alive>>
    BY <1>4 DEF vars, worldVars, callVars, pageVars, pastVars
  <2> QED
    BY <2>1, SameWorld DEF CanCheck
<1> QED
  BY <1>1, <1>2, <1>3, <1>4 DEF Next

\* A caller that follows next_cursor to its end has been shown every record it
\* asked for that stayed so and that nothing moved to the front: for any number
\* of records, any sizes of pages, and any changes and failures in between
\* (effectiveSort, encodeNotesCursor, dropDeletedHits).
THEOREM NothingMissed == Spec => []NothingSkipped
<1>1. TypeOK /\ ReadInv => NothingSkipped
  BY DEF ReadInv, PlaceInv, RefusedInv, NothingSkipped
<1> QED
  BY TypedInit, TypedNext, ReadInit, ReadNext, <1>1, PTL DEF Spec
=============================================================================
