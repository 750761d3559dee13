------------------------------ MODULE FieldCache ------------------------------
(***************************************************************************)
(* One custom-field cache (internal/pipedrive/fieldcache.go and the        *)
(* accessors of dealfields.go, persons.go and organizations.go): an active *)
(* entry behind a mutex, a sync.Once and a loaded flag in each entry, and  *)
(* the tool calls, the start-up warm-up and refresh_field_cache using it   *)
(* at once.                                                                *)
(*                                                                         *)
(* What an administrator does to the workspace's fields is the number      *)
(* meta, which only grows: a fetch answers with the number of the moment   *)
(* Pipedrive served it, and a name or label is fresh or stale as that      *)
(* number is.                                                              *)
(***************************************************************************)
EXTENDS Naturals

CONSTANTS
  Ops,      \* calls on the cache, each made once
  Entries,  \* addresses of cacheEntry values
  Nil,      \* the nil *cacheEntry
  MaxMeta   \* bound on meta

ASSUME NilAssumption == Nil \notin Entries
ASSUME MaxMetaAssumption == MaxMeta \in Nat

VARIABLES
  \* FieldCache and its entries
  cur,       \* fc.cur
  once,      \* once[e]: "fresh", "running" or "done"
  err,       \* err[e]: whether the fetch failed
  byKey,     \* byKey[e]: "nil", "partial" while it is filled, "whole"
  version,   \* version[e]: meta as e's fetch saw it
  loaded,    \* loaded[e]: the atomic flag
  \* the calls
  pc,        \* pc[o]: where the call is
  kind,      \* kind[o]: "resolve", "encode", "warm" or "refresh"
  ent,       \* ent[o]: the entry the call holds
  result,    \* result[o]: "fields", "failed", "empty" or "none" yet
  count,     \* count[o]: what a refresh reports, "none" before it does
  \* Pipedrive
  meta,
  \* history: what happened when, for the properties
  asked,     \* asked[o]: meta when the refresh o cleared the cache
  older,     \* older[e]: the refreshes that cleared the cache before e was made
  fetcher,   \* fetcher[e]: the calls that fetched for e
  before     \* before[o]: the calls that had returned when o began

cacheVars == <<cur, once, err, byKey, version, loaded>>
opVars == <<pc, kind, ent, result, count>>
pastVars == <<asked, older, fetcher, before>>
vars == <<cacheVars, opVars, meta, pastVars>>

Kinds == {"resolve", "encode", "warm", "refresh"}

Init ==
  /\ cur = Nil
  /\ once = [e \in Entries |-> "fresh"]
  /\ err = [e \in Entries |-> FALSE]
  /\ byKey = [e \in Entries |-> "nil"]
  /\ version = [e \in Entries |-> 0]
  /\ loaded = [e \in Entries |-> FALSE]
  /\ pc = [o \in Ops |-> "idle"]
  /\ kind = [o \in Ops |-> "resolve"]
  /\ ent = [o \in Ops |-> Nil]
  /\ result = [o \in Ops |-> "none"]
  /\ count = [o \in Ops |-> "none"]
  /\ meta = 0
  /\ asked = [o \in Ops |-> 0]
  /\ older = [e \in Entries |-> {}]
  /\ fetcher = [e \in Entries |-> {}]
  /\ before = [o \in Ops |-> {}]

Goto(o, label) == pc' = [pc EXCEPT ![o] = label]

\* An entry that no call has been given yet.
Unused == {e \in Entries : e # cur /\ once[e] = "fresh" /\ \A o \in Ops : ent[o] # e}

-----------------------------------------------------------------------------
\* A call arrives.  Resolve and Encode answer an empty map without the
\* cache; ReloadDealFields reloads first.
Begin(o, k) ==
  /\ pc[o] = "idle"
  /\ kind' = [kind EXCEPT ![o] = k]
  /\ before' = [before EXCEPT ![o] = {p \in Ops : pc[p] = "done"}]
  /\ \/ Goto(o, IF k = "refresh" THEN "reload" ELSE "acquire") /\ UNCHANGED result
     \/ /\ k \in {"resolve", "encode"}
        /\ Goto(o, "done")
        /\ result' = [result EXCEPT ![o] = "empty"]
  /\ UNCHANGED <<cacheVars, ent, count, meta, asked, older, fetcher>>

\* The refreshes that have cleared the cache.
Reloaded == {o \in Ops : kind[o] = "refresh" /\ pc[o] \notin {"idle", "reload"}}

\* Slip: a fetch under way taken for fresh enough.
ReloadUnlessFetching(o) ==
  /\ pc[o] = "reload"
  /\ cur' = IF cur # Nil /\ once[cur] = "running" THEN cur ELSE Nil
  /\ asked' = [asked EXCEPT ![o] = meta]
  /\ Goto(o, "acquire")
  /\ UNCHANGED <<once, err, byKey, version, loaded, kind, ent, result,
                 count, meta, older, fetcher, before>>

\* Reload drops the active entry; calls that hold it go on with it.
Reload(o) ==
  /\ pc[o] = "reload"
  /\ cur' = Nil
  /\ asked' = [asked EXCEPT ![o] = meta]
  /\ Goto(o, "acquire")
  /\ UNCHANGED <<once, err, byKey, version, loaded, kind, ent, result,
                 count, meta, older, fetcher, before>>

\* currentEntry: the active entry, or a new one that becomes it.
CurrentEntry(o) ==
  /\ pc[o] = "acquire"
  /\ IF cur # Nil
     THEN ent' = [ent EXCEPT ![o] = cur] /\ UNCHANGED <<cur, older>>
     ELSE \E e \in Unused :
            /\ cur' = e
            /\ ent' = [ent EXCEPT ![o] = e]
            /\ older' = [older EXCEPT ![e] = Reloaded]
  /\ Goto(o, "load")
  /\ UNCHANGED <<once, err, byKey, version, loaded, kind, result, count,
                 meta, asked, fetcher, before>>

\* Slip: an unset flag in place of the sync.Once.
EnterUnlessDone(o) ==
  /\ pc[o] = "load" /\ once[ent[o]] # "done"
  /\ once' = [once EXCEPT ![ent[o]] = "running"]
  /\ fetcher' = [fetcher EXCEPT ![ent[o]] = @ \cup {o}]
  /\ Goto(o, "fetching")
  /\ UNCHANGED <<cur, err, byKey, version, loaded, kind, ent, result,
                 count, meta, asked, older, before>>

\* once.Do: the first caller runs the fetch, the others wait until it is done.
EnterOnce(o) ==
  /\ pc[o] = "load" /\ once[ent[o]] = "fresh"
  /\ once' = [once EXCEPT ![ent[o]] = "running"]
  /\ fetcher' = [fetcher EXCEPT ![ent[o]] = @ \cup {o}]
  /\ Goto(o, "fetching")
  /\ UNCHANGED <<cur, err, byKey, version, loaded, kind, ent, result,
                 count, meta, asked, older, before>>

PassOnce(o) ==
  /\ pc[o] = "load" /\ once[ent[o]] = "done"
  /\ Goto(o, "loaded")
  /\ UNCHANGED <<cacheVars, kind, ent, result, count, meta, pastVars>>

\* Pipedrive serves the field list; the map is made, then filled.
FetchAnswers(o) ==
  /\ pc[o] = "fetching"
  /\ version' = [version EXCEPT ![ent[o]] = meta]
  /\ byKey' = [byKey EXCEPT ![ent[o]] = "partial"]
  /\ Goto(o, "building")
  /\ UNCHANGED <<cur, once, err, loaded, kind, ent, result, count, meta,
                 pastVars>>

\* The deferred store: the map is whole and the flag says so.
FinishBuild(o) ==
  /\ pc[o] = "building"
  /\ byKey' = [byKey EXCEPT ![ent[o]] = "whole"]
  /\ loaded' = [loaded EXCEPT ![ent[o]] = TRUE]
  /\ Goto(o, "sealing")
  /\ UNCHANGED <<cur, once, err, version, kind, ent, result, count, meta,
                 pastVars>>

\* The fetch fails, by Pipedrive or by the end of the fetching call's own
\* context.  The error stays in the entry for everybody.
FetchFails(o) ==
  /\ pc[o] = "fetching"
  /\ err' = [err EXCEPT ![ent[o]] = TRUE]
  /\ loaded' = [loaded EXCEPT ![ent[o]] = TRUE]
  /\ Goto(o, "sealing")
  /\ UNCHANGED <<cur, once, byKey, version, kind, ent, result, count,
                 meta, pastVars>>

\* Slip: a failed fetch left for the next caller to run again, and nobody
\* told that waits.
SealOnceOnSuccess(o) ==
  /\ pc[o] = "sealing"
  /\ once' = [once EXCEPT ![ent[o]] = IF err[ent[o]] THEN @ ELSE "done"]
  /\ Goto(o, "loaded")
  /\ UNCHANGED <<cur, err, byKey, version, loaded, kind, ent, result,
                 count, meta, pastVars>>

\* once.Do returns.
SealOnce(o) ==
  /\ pc[o] = "sealing"
  /\ once' = [once EXCEPT ![ent[o]] = "done"]
  /\ Goto(o, "loaded")
  /\ UNCHANGED <<cur, err, byKey, version, loaded, kind, ent, result,
                 count, meta, pastVars>>

\* The call reads its entry: Resolve falls back to the raw map and Encode
\* refuses on an error, the warm-up drops it, a refresh goes on to Count.
Answer(o) ==
  /\ pc[o] = "loaded"
  /\ result' = [result EXCEPT ![o] = IF err[ent[o]] THEN "failed" ELSE "fields"]
  /\ Goto(o, IF kind[o] = "refresh" /\ ~err[ent[o]] THEN "count" ELSE "done")
  /\ UNCHANGED <<cacheVars, kind, ent, count, meta, pastVars>>

\* Count reads fc.cur, which need no longer be the entry just loaded.  It
\* looks at the flag before the map.
CountOf(e) == IF e = Nil \/ ~loaded[e] THEN "zero"
              ELSE IF byKey[e] = "nil" THEN "zero" ELSE byKey[e]

\* Slip: an empty once.Do in Count, to have its happens-before.
CountSealsOnce(o) ==
  /\ pc[o] = "count"
  /\ count' = [count EXCEPT ![o] = CountOf(cur)]
  /\ once' = [e \in Entries |->
                IF e = cur /\ once[e] = "fresh" THEN "done" ELSE once[e]]
  /\ Goto(o, "done")
  /\ UNCHANGED <<cur, err, byKey, version, loaded, kind, ent, result, meta, pastVars>>

Count(o) ==
  /\ pc[o] = "count"
  /\ count' = [count EXCEPT ![o] = CountOf(cur)]
  /\ Goto(o, "done")
  /\ UNCHANGED <<cacheVars, kind, ent, result, meta, pastVars>>

-----------------------------------------------------------------------------
\* An administrator adds or renames a field or an option.
FieldsChange ==
  /\ meta < MaxMeta
  /\ meta' = meta + 1
  /\ UNCHANGED <<cacheVars, opVars, pastVars>>

Work(o) ==
  \/ Reload(o) \/ CurrentEntry(o) \/ EnterOnce(o) \/ PassOnce(o)
  \/ FetchAnswers(o) \/ FinishBuild(o) \/ FetchFails(o) \/ SealOnce(o)
  \/ Answer(o) \/ Count(o)

Next ==
  \/ \E o \in Ops : Work(o) \/ \E k \in Kinds : Begin(o, k)
  \/ FieldsChange

\* A goroutine that can run does, and a fetch is bounded: it is one call of
\* the client, which returns whatever Pipedrive does (PipedriveCall).  That
\* calls arrive is not asked for.
Spec == Init /\ [][Next]_vars
FairSpec == Spec /\ \A o \in Ops : WF_vars(Work(o))

-----------------------------------------------------------------------------
\* Every variable holds a value of its kind, and a call past currentEntry
\* holds an entry (fieldcache.go, FieldCache and cacheEntry).
TypeOK ==
  /\ cur \in Entries \cup {Nil}
  /\ once \in [Entries -> {"fresh", "running", "done"}]
  /\ err \in [Entries -> BOOLEAN]
  /\ byKey \in [Entries -> {"nil", "partial", "whole"}]
  /\ version \in [Entries -> 0 .. MaxMeta]
  /\ loaded \in [Entries -> BOOLEAN]
  /\ pc \in [Ops -> {"idle", "reload", "acquire", "load", "fetching", "building",
                     "sealing", "loaded", "count", "done"}]
  /\ kind \in [Ops -> Kinds]
  /\ ent \in [Ops -> Entries \cup {Nil}]
  /\ result \in [Ops -> {"none", "fields", "failed", "empty"}]
  /\ count \in [Ops -> {"none", "zero", "partial", "whole"}]
  /\ meta \in 0 .. MaxMeta
  /\ asked \in [Ops -> 0 .. MaxMeta]
  /\ older \in [Entries -> SUBSET Ops]
  /\ fetcher \in [Entries -> SUBSET Ops]
  /\ before \in [Ops -> SUBSET Ops]
  /\ \A o \in Ops :
       pc[o] \in {"load", "fetching", "building", "sealing", "loaded", "count"}
         => ent[o] \in Entries

\* Callers that meet on an entry make one fetch between them (FieldCache:
\* "concurrent first-callers see one fetch").
OneFetchPerEntry == \A e \in Entries : \A o, p \in fetcher[e] : o = p

\* Whoever is past once.Do finds the outcome of a fetch: its error, or the
\* map in full.  Reload and Count in between cannot take it away (cacheEntry:
\* Reload replaces the entry "without corrupting the mutex state of an
\* in-flight Load"; Count must not seal the once).
NoTornRead == \A o \in Ops :
  pc[o] = "loaded" =>
    IF err[ent[o]] THEN byKey[ent[o]] = "nil" ELSE byKey[ent[o]] = "whole"

\* The fields are those of the moment the refresh cleared the cache, or newer.
FieldsAreRefreshed == \A o \in Ops : \A p \in before[o] \cup {o} :
  (kind[p] = "refresh" /\ result[o] = "fields") => version[ent[o]] >= asked[p]

\* And an error is one of an entry made since: the refresh cleared errors too.
ErrorsAreForgotten == \A o \in Ops : \A p \in before[o] :
  (kind[p] = "refresh" /\ result[o] = "failed") => p \in older[ent[o]]

\* A call that began after a refresh had returned, whether the refresh
\* succeeded or not, is given nothing from before it, neither fields nor an
\* error, in-flight fetches of the dropped entry notwithstanding; so is the
\* refresh itself (fieldcache.go, Reload).
RefreshIsSeen == FieldsAreRefreshed /\ ErrorsAreForgotten

\* A refresh never reports part of a cache: the fields of the entry that is
\* active by then, all of them, or 0 while that one is loading.
CountIsWhole == \A o \in Ops : count[o] \in {"none", "zero", "whole"}

\* Once an entry's flag is set nothing in it changes (cacheEntry: "written
\* exactly once from inside once.Do; later readers observe stable values").
EntrySettles == [][\A e \in Entries : loaded[e] =>
  <<byKey[e], err[e], version[e], loaded[e]>>'
    = <<byKey[e], err[e], version[e], loaded[e]>>]_vars

\* Every call is answered: nobody waits for ever on another's fetch.
EveryCallAnswered == \A o \in Ops : pc[o] # "idle" ~> pc[o] = "done"

=============================================================================
