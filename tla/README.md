# A TLA+ model of pipedrive-mcp

`pipedrive-mcp` is an MCP server that lets a language model read and write one
Pipedrive workspace over Pipedrive's REST API. It keeps little state of its own
and talks to a system it does not control, so what can go wrong is mostly
between things: between a request and its answer, between a read and the write
that follows it, between two tool calls on one cache. This directory models
those places, checks the models with TLC on small instances, and proves the
results that matter most with TLAPS for every instance.

- [The system](#the-system): its parts, their state and what makes them correct
- [The modules](#the-modules): how state and actions correspond to the code
- [The runs](#the-runs): bounds, and what each run shows
- [Fairness](#fairness)
- [The proofs](#the-proofs)
- [Where code and documentation part](#where-code-and-documentation-part)
- [Not modelled](#not-modelled) and [The plan](#the-plan)

## The system

| Component | State | Operations | What makes it correct |
|---|---|---|---|
| HTTP client (`internal/pipedrive/client.go`) | none between calls; an attempt counter and the caller's context in one | `do`, `doV1`, `postV1`, `postV2`, `patchV2`, `putV1`, `deleteV1`, `deleteV2`, all through `exec` and `attempt` | a write is applied at most once; its verdict is true; every call returns |
| Error classes (`errors.go`) | none | `classify` | a class says what happened, so that callers branch rightly |
| Field caches (`fieldcache.go`; one each for deals, persons, organizations) | the active entry behind a mutex; per entry a `sync.Once`, an error, two maps, an atomic flag | `Load`, `Resolve`, `Encode`, `Reload`, `Count` | one fetch per entry, no torn read, a refresh is seen by all that come after it, nobody waits for ever |
| Field codec (`fieldcache.go`) | none | `Resolve`'s renaming, `Encode`, option tables | what is read can be written back; an ambiguous name is refused |
| Identity (`users.go`) | a memoized user or error behind a mutex | `WhoAmI` | one answer for the process; a cancelled call leaves no trace |
| Guarded write (`internal/tools/guard.go`) | none; the record is Pipedrive's | `guardedWrite.run`: read, version check, prediction, diff, overwrite guard, dry-run gate, write, report | no value is replaced without a permit that names it; a rehearsal writes nothing; the report is exact |
| `manage_deal`, `manage_person`, `manage_organization`, `manage_activity`, `manage_note` | none | create, update, transitions, delete | each action sends what it names and nothing else |
| Search (`search.go`, `liveness.go`) | none | `ItemSearch`, then `LiveIDs` per type | no hit is a record that was deleted all along, and none alive all along is dropped |
| Lists (`deals.go`, `notes.go`, `sort.go`, `pagination.go`, ...) | none; the cursor is the caller's | one GET each, with filters, an order and a cursor | a page holds what was asked for; following the cursor to its end skips nothing that stays put, and ends |
| Gets, resources, pipelines, stages | none | one GET each | the answer is Pipedrive's |
| `refresh_field_cache` (`cache.go`) | none | reloads the three caches in parallel | one failure does not hide another's success |
| Server (`internal/server`) | the registered tools, a warm-up goroutine | `New`, `NewForSchemaDump` | the warm-up never harms a real call |
| Start-up (`internal/app`, `internal/config`) | none | domain, configuration, token, probe | one workspace all the way through; the environment wins; the dry-run floor reaches every write |
| Credentials and user config (`internal/credentials`, `internal/userconfig`) | the OS keyring; a JSON file | `Store`, `Resolve`, `Delete`; `SetDefaultDomain`, `ClearDefaultDomainIfMatches` | the pointer names a workspace that has a token, whatever crashes |
| Command line (`cmd/pipedrive-mcp`) | none | serve, `login`, `logout`, `status` | `status` tells what a server would do |
| Surface and acknowledgement gates (`scripts/gates/surface.go`, `schemaack.go`) | none; git's | compare two dumps, read footers, print a fix | no break of the last release goes out unnamed; what goes unremarked breaks no caller |
| Changelog gate and release notes (`changelog.go`, `releasenotes.go`, `release.go`) | none; `CHANGELOG.md` | entry or none, cut or none; the section of a tag | what a release ships is in its notes |

How they interact: the MCP SDK runs each tool call in its own goroutine with its
own context. A tool calls typed methods of one shared `Client`. Reads and writes
of deals, persons and organizations also go through that client's field caches,
whose fetches are calls of the same client under the context of whichever call
came first. At start a goroutine warms the three caches while the first tool
calls arrive. A write reads the record first and then sends the change, two
requests with nothing to hold them together, while people edit the same records
in Pipedrive.

What is hard:

- *Requests that outlive their call.* A timeout or a dropped connection says
  nothing of what Pipedrive did, or will still do.
- *Retries.* Whether a second attempt is safe depends on where the first failed.
- *Goroutines on one cache.* First callers, the warm-up and refreshes meet in a
  `sync.Once`; refreshes swap the entry under them.
- *Contexts of others.* A fetch runs under one caller's context and its outcome
  is everybody's.
- *No compare-and-set.* The guard judges what was read, the write lands on what
  is there, and the version is a clock with one-second ticks.
- *Names.* Callers and permits use workspace names, and these need not be unique.
- *Two accounts of one thing.* A dry run predicts what the wire will do, `status`
  what a start will do, a projection what a stored value is: each is code of its
  own, and need not agree.
- *Pull requests judged on yesterday's main.* The gates run when a branch is
  pushed; main may be cut, tagged or merged into before it is merged itself.

`PROJECT.json` lists each such hazard at its line, with the properties that
cover it.

## The modules

### WriteOnce

The promise of one create, update or delete, without a network: the record
changes at most once; "ok" is said only of a change made; a definite "no" only
when none was made or can still be; "maybe" promises nothing, and after it the
change may still happen or lapse. `PipedriveCall` implements it, and
`GuardedWrite`, `ManageDeal`, `ManageRecord` and `CreateRecord` build on it, so the upper modules
know of the client exactly what the lower one was shown to guarantee.

### PipedriveCall

`exec` and `attempt` with the connection and Pipedrive below them.

| Model | Code |
|---|---|
| `attempt[c]`, `HasAttemptLeft` | the loop variable and the test `attempt+1 < c.maxAttempts` |
| `ctx[c]`, `ContextEnds` | the caller's context; cancellation and deadline alike |
| `EncodeFails` | `newRequest` fails; the body is the same on every attempt, so only the first can |
| `RefusedByContext`, `DialFails`, `Send`, `LoseAnswer` | the ways of `http.Client.Do` |
| `NetworkError` | the error branch of `attempt`: `shouldRetryNetwork`, then the hint, then another attempt or the end |
| `StatusArrives`, `BodyFails`, `BodyRead` | `Do` has returned; `readBody`; success, `decodeSuccess`, or `classifyResponse` and `shouldRetry` |
| `Sleep`, `Wake` | `c.sleep(ctx, c.backoff(...))`, which an ended context cuts short |
| `wire[c]`, `Handle`, `Vanish` | requests on their way: Pipedrive handles each at any later time, or never |
| `applied[c]` | how often Pipedrive made the change |

A failed dial is the only fault after which nothing was sent; "reset" stands for
every other one. Pipedrive's part is as the code's comments and D-54 rely on it:
a 429 and a rejected request are not applied, a 5xx may follow a commit.
`Handle` may happen long after the client gave up, which is what makes retries
dangerous. `exec`'s lines after its loop cannot be reached: the last attempt
never asks for another (that is half of `TypeOK`'s proof).

### FieldCache

One `FieldCache` and the calls on it. Entries are addresses of `cacheEntry`
values; an entry no call holds and that is not active is unused.

| Model | Code |
|---|---|
| `cur`; `Reload`, `CurrentEntry`, `Count` | `fc.cur` under `fc.mu`; each holds the mutex for one step, so each is one action |
| `once[e]`; `EnterOnce`, `PassOnce`, `SealOnce` | the `sync.Once`: the first caller runs the function, others wait for it to return |
| `byKey[e]`; `FetchAnswers`, `FinishBuild` | the map is made, then filled; between the two it is "partial" |
| `err[e]`; `FetchFails` | the memoized error, from Pipedrive or the fetching call's own context |
| `loaded[e]` | the atomic flag, stored by the deferred call, after the maps and before the once is sealed |
| `Begin` | a tool's `Resolve` or `Encode` (which answer an empty map without the cache), the warm-up, a refresh |
| `Answer` | the caller reads the entry it holds; a refresh goes on to `Count`, which reads `fc.cur` again |
| `meta`, `FieldsChange` | what administrators do to the workspace's fields |

`asked`, `older`, `fetcher` and `before` are history: nothing reads them but
properties. The three caches of a client share no state, so one is enough; a
`refresh_field_cache` call is one refresh on each. A fetch is one call of
`PipedriveCall`: here it answers or fails, and that it ends is what
`EveryCallReturns` shows there.

### FieldGuard and GuardedWrite

`FieldGuard` holds the pure half as operators: the field table with the custom
fields of the write (`Table`), `changedFields` (`ChangedNames`),
`populatedFields`, `requireOverwrite` (`Permitted`) and the prediction. A value
is the string a projection makes of it, `Blank` the empty one. Names and fields
are kept apart, since the code matches names, and a custom field may be called
like another.

`GuardedWrite` is `run`: `Get`, `Guard` (everything between the read and the
write is local, so one action: version check, prediction, diff, guard, dry-run
gate, in that order), `Written` or `NotWritten`. Around it are Pipedrive and the
people in it: `Apply` makes the change of a write, possibly after its caller was
told that nobody knows; Pipedrive may set `Derived` fields with it, as it does a
person's name; `Edit` is an edit by hand; `time` and `stamp` are update_time with
its one-second ticks. The write itself is `WriteOnce`'s, an instance with the
effect and verdict of each call. `Call` is a handler's way to `run`: the caller
has seen the record, perhaps passes its version, and the operator's dry-run flag
is or-ed in. A transition is a call with `all` set. GetFails stands for a failed
read and for a refusal raised in it (the archived deal's).

`since`, `raced`, `replaced`, `altered`, `maker`, `found` are history.

### ManageDeal

`manage_deal` on one deal: what differs from action to action, and meets
Pipedrive's own rules. It uses `FieldGuard` and `WriteOnce` as `GuardedWrite`
does, with a record of five fields: `title` for everything descriptive,
`stage_id` for stage and pipeline, `status`, `is_archived`, `lost_reason`.

| Model | Code |
|---|---|
| `Sets`, `Takes`, `RequestFor`, `Invalid` | `dealRequestFor`: what an action sets by itself, what it takes from its input, the move without a stage |
| `Call` | `manageDealHandler`: the operator's floor; the caller has just read the deal |
| `GetDeal`, `RefusesArchived` | the `Get` of `writeDealAction`, which refuses; the plain read of `deleteDealAction`, which does not |
| `DecideWrite` | `guardedWrite.run` up to its write |
| `DecideDelete` | `deleteDealAction` up to the DELETE: version, already deleted, dry run |
| `Written`, `NotWritten` | the answer of PATCH or DELETE, or its loss |
| `Accepts`, `Rejected`, `Apply`, `Lapse`, `Edit` | Pipedrive: no edit of an archived deal but unarchiving, no `lost_reason` unless the deal is then lost (both from comments of `dealRequestFor` and `UpdateDealRequest`); people who change one field at a time |

The overwrite guard's depth, custom fields and derived fields stay in
`GuardedWrite`; here the report is not modelled. update_time is a counter that
a change moves or, within one second, does not. `raced`, `overtaken` and `gone`
are history.

### ManageRecord

`manage_person`, `manage_organization`, `manage_activity` and `manage_note` on
one record of the kind at hand. The four handlers have one shape, `Dispatch`,
`Get`, `Guard` or `Delete`, `Written` or `NotWritten`; each resource has actions
of its own over it for what it validates, sends and deletes by.

| Model | Code |
|---|---|
| `Projected`, `ContactPoint`, `Participant`, `Joined` | the field tables' projections, with the quotes that keep one list from reading like another; `Escaped` is what `strconv.Quote` does to a quote in a text |
| `RequestFor`; `ActivityRequest`, `FoldPerson`, `PrimaryParticipant`, `NoteRequest` | what the tools layer makes of the input and predicts with |
| `Wire`; `Kept`, `PersonWire` to `NoteWire` | what `encoding/json` leaves of it: `omitempty`, a person folded into the participants |
| `PersonInvalid` to `NoteInvalid` | `Validate`, `validateNoteContent`, `hasNoteAnchor` and the handlers' own checks |
| `Guard`, `UpdatePerson`, `UpdateOrganization`, `WriteActivity`, `UpdateNote` | `guardedWrite.run` up to its write; complete and reopen authorize themselves |
| `Delete`, `DeletePerson` to `DeleteNote` | the deletes; only a note is read as deleted, and then not deleted again |
| `Accepts`, `Derived`, `MovedOff`, `Apply`, `Lapse`, `Edit` | Pipedrive: the shapes it takes, a person's name and its parts, the primary participant, what a note is moved off, people who edit, delete and restore |

Three shapes of one request, given, predicted with and on the wire, are what its
properties relate: `NoopIsTrue`, `ShapesAreTaken` and `RehearsalNamesTheWrite`
each compare two of them. A DELETE has no body, whatever fields came with the call.
`RehearsalNames` says its part of a set of fields, so that it is the same formula
over all of a record's fields and over those that hold one value.

What the projections join and what `PrimaryParticipant` folds are sequences of any
length, and the loops are functions of the round. A text in a collection is a
sequence of `Characters`, the quote, the comma and the flag among them. What
`strconv.Quote` writes for a quote in a text is one element, `EscapedQuote`, which no
text holds (`CharactersAssumption`): Quote escapes backslashes too, so that its two
characters are never read as anything else. An id is digits, which no separator is
(`PeopleAssumption`). `Settled` says of the records to begin with that Pipedrive has
derived what it derives; that its edits and the four tools keep them so is proved.

Of one thing Pipedrive does the repository has two accounts, and the model has
both. A note that has a deal and is sent an `org_id` keeps its deal, by
`UpdateNoteRequest`'s comment ("an omitted field keeps its stored value") and by
`noteAfterUpdate`'s plain overlay; or it goes off it, by `get_note`'s "a note
anchors to exactly one of a deal, person, organization, lead or project". `lone`
is which of the two is so: chosen once, for notes, and never changed. Where it
holds, `MovedOff` are the anchors that a request takes away without naming them;
`WrittenBy` leaves them and the derived fields out, and so do the properties. What
that exception hides is under "Where code and documentation part".

### Workspace

The commands and the two stores they share, the keyring and the pointer file.
A process is one command: `login`, `logout`, or a start, which stands for
`status` too.

| Model | Code |
|---|---|
| `Start` | the command line; login has its domain and its token from flag, environment or prompt by then |
| `Resolve` | `ResolveDomain`; the flag of `logout`; `config.LoadFor` |
| `GetToken` | `credentials.Resolve` |
| `Probe` | `validateToken`, or the probe of a start, which can be skipped |
| `Store`, `Delete` | `credentials.Store` and `credentials.Delete` |
| `Load`, `Save` | the halves of `SetDefaultDomain` and `ClearDefaultDomainIfMatches`; `Save` renames a whole file into place |
| `exit = "warned"` | exit code 0 after the keyring was written and the file was not |
| `Die` | a kill between any two steps |

Every step but `Start` and `Die` may fail, since keyring, file system and
network may. Domains are normalized, as every value login writes is.

### Startup

From a command line to a server that serves or an exit code, and `status`, which
is asked whether a server would start and goes through the stages on its own.
`Workspace` has the stores that several commands change; here they change by
themselves, and the environment, the command line and the network have every
value that matters.

| Model | Code |
|---|---|
| `Command`, `Flags`, `Run` | `run`: the dispatch, flag parsing that stops at the first word |
| `Lookup`, `ValidateDomain`, `ResolveDomain` | `config.Lookup`; the variable, then the pointer |
| `ParseWord`, `ParseBool`, `ParseTimeout`, `LoadFor` | `config.Load`, all settings or the first one refused |
| `ResolveToken` | `credentials.Resolve`: the variable, then the keyring |
| `ServerDomain`, `ServerConfig`, `ServerToken`, `ServerProbe`, `Serve` | `runServer` over `app.Resolve` and `Connect` |
| `Write`, `Hangup`, `Signal` | a tool called under the floor; `isCleanShutdown`; SIGINT and SIGTERM, which the context knows from the probe on |
| `StatusDomain` to `StatusProbe`, `Text` | `newStatusReport` stage by stage, and the line `writeText` ends on |
| `Change` | logins, logouts, hands on the file, the network |

`stage` says how far a launch is, `secret` is the token it holds, and `ExitWith`
and `Fail` end it. `StoresAssumption` keeps a domain apart from its spellings.

### FieldCodec

The pure half of a field cache: one loaded entry, a record read through it, and
then a write encoded by it, either what was read, sent back unchanged, or
anything else. Both functions range over a Go map, so each round of a loop is a
step that takes any key left; that is all the concurrency there is.

| Model | Code |
|---|---|
| `fields` | `byKey`; `KeysNamed` is `byName`, the same fields by lower-cased name |
| `Rendered`, `Named`, `Labelled` | `OptionKey` and the two tables of `optionTables` |
| `Label`, `LabelOf` | `cachedField.label`, `labelOf` |
| `Encodable`, `Encoded`, `IsChoice`, `OptionId` | `encode` and `optionID`: whether they take a value, and what they make of it |
| `Candidates`, `CustomCandidates`, `Target`, `FieldRefusal` | `writableField` and `checkWritable` |
| `ResolveOne` | a round of `Resolve` |
| `Ask`, `EncodeOne`, `Return` | `Encode`: the call, a round that refuses (`RefuseField`, `RefuseTwice`, `RefuseValue`) or takes (`Take`), the return |

Strings are model strings with `lower` for `strings.ToLower`; a value is null,
one atom or a list. The named assumptions say what Pipedrive's side is like:
a stored choice is an option id, ids print differently, and no field is called
like another's hash. `OptionsAssumption` leaves out the one thing D-18 leaves
open: two labels of one field that differ in case only.

### CreateRecord

The creates, and the dry runs of creates, which fill in what Pipedrive would.
Below them is `WhoAmI`, the one answer of the process behind its mutex, which
`whoami` calls too.

| Model | Code |
|---|---|
| `Call` | a create's handler up to its first request: `EffectiveDryRun`, `Synthetic`, and what the defaults have to be read for (`NeedsUser`, `NeedsStages`) |
| `memo`, `lock`; `Lock`, `Answered`, `Failed` | `meDone`, `me` and `meErr`, and `meMu`, which is held across the request; `KeepsError`: a call its own caller ended leaves no trace |
| `Hear`, `FillUser`, `AfterUser` | what a caller makes of the answer: `whoami`, `fillOwner`, `fillDealDefaults` |
| `StagesRead`, `StagesUnread`, `FirstStage` | `ListStages` for a deal that names a pipeline alone |
| `Created`, `NotCreated` | the answer of the POST, or its loss; the write is `WriteOnce`'s |
| `Make`, `Default`, `EntryStage`, `Edit` | Pipedrive: the record made, with its defaults, as D-49 relies on them; an administrator who changes one default |
| `ContextEnds` | a caller gives up, also while it holds the mutex |

`asked`, `stored`, `memoAt`, `stagesAt`, `unread`, `madeAt` are history.

### Paging

A collection read to its end by a caller that follows `next_cursor`, as the
tools' descriptions ask: the five `list_` tools and `search`.

| Model | Code |
|---|---|
| `Valid`, `EffectiveSort`, `StatusToDoneFilter`, `ClampLimit` | the head of each handler: `validateEnum`, `effectiveSort`, `statusToDoneFilter`, `clampLimit` |
| `ListDeals` to `ListNotes`, `ItemSearch` | the options each tool makes of its arguments; the archive is a collection of its own |
| `Call`, `Offset` | the handler up to its request; `decodeNotesCursor` |
| `Fetch`, `EncodeCursor` | the request; the cursor in the answer, which `encodeNotesCursor` makes of v1's offset |
| `Listed`, `Left`, `Above` | Pipedrive: what the options select, in which order, and what a cursor leaves of it |
| `Check` | one `LiveIDs` request, for the types on the page in any order |
| `Kept`, `Show` | the end of `dropDeletedHits` and of the handler |
| `Fail` | any of these requests fails and the call with it; the caller repeats it with the same cursor |
| `Delete`, `Restore`, `Touch` | people in Pipedrive, who also make records, reschedule activities and move records between owners, states and the archive |
| `IsMeant`, `Promised` | what the descriptions of the arguments say, for the properties to hold the options against |

What a v2 cursor means is Pipedrive's affair: the model takes it to name a place
in the order, and v1's to be a number of rows, so that a deletion above moves
rows past it. A page may be shorter than the limit, as `types.go` says it may.
One assumption is worth knowing: a check is answered in one page. `LiveIDs` never
looks at the `next_cursor` of its own answer, and a short one would drop live
hits. The owner stands for every filter by equality. `add_time` orders like ids,
which no edit moves. `due_date`, which `list_activities` takes too, is a key that
edits do move: `due` is a record's place by it, those of one day in an order of
Pipedrive's own, and `Reschedule` is the part of `Touch` that may change it.
`SortFields` has the set of each tool, and a read by another field is refused.
`steady`, `meant`, `lived` and `died` are history.

### Surface and ReleaseTrain

`Surface` is `compareSurfaces`: a surface is items, an item two sides, a side
fields by path with types, listed values and what is required. Next to it is a
reading of the schemas the comparison does not have: `Documents` a caller may
send or be sent, `Admits`, `Expects`, and `CallerBroken`, which say what a break
is, so that the gate's verdict can be held against it.

`ReleaseTrain` is what happens to a surface between two tags.

| Model | Code |
|---|---|
| `Propose`, `Update`, `Merge`, `Tag` | git and people: a branch from main, main merged into it, a merge, a cut and its tag; `Merged` and `Conflict` join two sides part by part |
| `Check` | CI on what was pushed, against the merge-base it has then |
| `AsReleased`, `ReleasedBreaks`, `AckInputs` | `asReleased`, `releaseBreaksOnly`: a break of nothing released is a change |
| `AckToken`, `Acknowledged`, `UnnamedBreaks`, `UnnamedRest`, `PrintedFix` | the footers, and `checkAck` with the footers it prints |
| `Watched`, `IsReleaseCut`, `AddedUnderUnreleased`, `Announced` | `changelogGate` |
| `Fix` | the author pushes what the refusal asks for |

A surface is one the dump can produce (`Walked`): `walk` records a field before
those in it, a path is longer than its parent, so that no set of fields is without
an outermost one (`PathsAssumption`), and what a schema requires is one of its
fields. `FirstAssumption` and `ChangesAssumption` ask this of the surface to begin
with and of what pull requests make; that merges keep it is proved.

The worktree in which a revision is built to dump its surface and the text of a
footer are left out: a dump is the surface, a footer its token and its items.

Modules whose theorems share a proof module share no names, so `Startup`,
`FieldCodec` and `ManageRecord` have `BootSpec`, `CodecSpec` and `RecordSpec` where
the others have `Spec`.

Each `Slip:` comment marks an operator no behaviour uses: a plausible mistake
in the definition that follows it. Put in its place, it must break a property;
`PROJECT.json` pairs them under "mutants".

## The runs

Sizes are distinct states; the longest run takes two to three minutes on two
workers.

| Run | Instance | Shows |
|---|---|---|
| `pipedrive_call` | a read and a write, 3 attempts; 170,980 | `AppliedAtMostOnce`, `EveryCallReturns`, and `KeepsPromise`: the write implements `WriteOnce` |
| `field_cache` | 3 calls, the warm-up among them, 3 entries, one change of the fields; 562,898 | `OneFetchPerEntry`, `NoTornRead`, `RefreshIsSeen`, `EveryCallAnswered` |
| `field_codec` | 5 field tables, 8 records, writes of one or two of 8 names with 6 values; 214,715 | `EncodeIsOrderFree`, `EchoStoresTheSame`, `ReadIsComplete` |
| `guarded_write` | 2 calls, 6 kinds of input, 2 first records, one edit, one tick; 1,829,618 | `NoUnnamedOverwrite`, `VersionCatchesEdits`, `ReportIsExact`, `RetryFindsItDone` |
| `manage_deal` | 2 calls, 10 inputs, an open and a lost, archived deal, one edit; 1,029,015 | `RejectionsAreRaces`, `DeletedOnce`, `NoUncalledForWrite`, `WritesStayNarrow` |
| `manage_record` | 2 calls on a person, an organization, an activity or a note, 7 to 11 inputs each, a note on either account of its anchors, one edit; 676,144 | `NoUnnamedLoss`, `NoopIsTrue`, `ShapesAreTaken`, `NoUncalledForWrite`, `RehearsalNamesTheWrite` |
| `manage_record_clears` | one call that passes an empty list, or no one as the person | `RehearsalNamesTheWrite` is violated: see below |
| `create_record` | 2 calls, 6 inputs, 2 stages, 2 currencies, one change; 622,884 | `OneIdentity`, `RehearsalForetells`, `EveryCallEnds` |
| `paging` | 13 questions over the six tools, 4 records of three types, one of them yet to be made, pages of one or two, 2 changes, 2 places to reschedule to, one failure; 627,955 | `NothingSkipped`, `NothingElse`, `HitsAreLive`, `EveryReadEnds` |
| `workspace` | 3 processes, 8 commands, 2 workspaces with a token each; 785,394 | `TokensFitDomains`, `PointerHasToken`, `DoneMeansDone` |
| `startup` | a status and a server, 8 environments, 3 command lines each, 5 states of the stores, one change; 326,483 | `StatusForetells`, `NoWritePastTheFloor`, `EveryStartEnds` |
| `release_train` | 2 pull requests with 18 changes, 5 drafts and 3 kinds of cut, with and without an earlier release, one tag; 761,839 | `BreaksAreNamed`, `QuietChangesAreSafe`, `AFixIsEnough`, `NotesTellAll` |

The runs spend their time on what relates states and actors. Where a module has
a type invariant it is `TypeOK` or named like it; all are proved (below).

Why the bounds are enough. Three attempts are the program's own number and give
a write a first, a middle and a last attempt. Calls share nothing below the
cache, so a second call is there to show that faults do not mix. In the cache
three calls suffice for a first caller, one that waits on it and a refresh that
swaps the entry under both; each call takes at most one entry, so three entries
are never short; one change of the fields makes "stale" and "fresh" differ.
Calls are interchangeable there, and so are entries, but a symmetry set is not
sound for the liveness property: the action constraint `InOrder` of
`MCFieldCache` takes both in one order instead, lets only the first call be the
warm-up, which the code starts before any call can arrive, and only the last an
encode, which goes through the cache as a resolve does.

For the guarded write two calls and an editor give every order of two reads, two
writes, a late write and an edit; the record has a typed field, one that
Pipedrive derives and a custom one that has the name of the derived one, and
starts with and without something to clobber; one tick separates "the same
second" from "later". `manage_deal` has every action among its inputs, with
fields passed that the action should ignore, and the pair of calls gives delete
after delete, a write against an archive or a reopen, and a late write.
`manage_record` has, of each resource, inputs that fill, replace, restate and
empty a field, a shape Pipedrive refuses, a version, a rehearsal and a delete; one
contact point whose label, joined without quotes, would read like the two there
are; edits of what a call is about and of what it is not; and of a note with a deal
another deal and an organization, for Pipedrives that keep the deal and that do not.

In `workspace` two processes that meet and a third that comes after, or a start
whose two reads enclose the two, on two workspaces: more would repeat that. The
commands come with and without a domain and a token of their own, and one login
has a token of the other workspace. `startup` compares two processes, so it
takes two; of its environments and stores each stops a start at a stage of its
own or spells the same thing differently, and one change lets the two see
different stores. `field_codec` has the clashes one by one: a
label that is another option's id, two fields of one name or of one but for
case, a custom field called like a built-in or like its key, a read-only field;
ambiguity and double naming take two names, so two are enough. In
`create_record` two calls queue on the mutex, or are a rehearsal and the create
it foretold, with one change of the defaults between them or not; two stages, of
which one may be deleted, tell the first live one from the first. In `paging` four
rows give a first, a middle and a last page of any size up to two, and two
changes let a record be deleted and restored around its check, or two be moved
past a cursor; each filter and each order comes once, with rows it keeps and rows
it drops, and due dates both ways, with one place to reschedule to near the front
and one behind every row. `release_train` has one field that may be an object with a field
of its own, on both sides, and one item on a list an old dump does not carry; two
pull requests are what it takes for one to break what the other added, to be
judged before the other's cut, or to conflict with it; a break must fall before
or after the one tag. Deadlock is not checked, since every behaviour ends
when all calls, processes or pull requests have.

The `MC` modules hold the values and, where a run states safety only, the
symmetry of calls, processes or pull requests.

## Fairness

`PipedriveCall`: weak fairness of each call's own steps, and none of
Pipedrive's. It is justified by two clocks: `http.Client.Timeout` bounds the
dial, the wait for the status line and the body, and `config` refuses a timeout
that is not positive (`config.go:262-266`); `sleep` ends by its timer. So an
attempt that gets no answer ends by `LoseAnswer` or `BodyFails`.

`FieldCache`: weak fairness of each call's steps, the fetch among them because
it is one client call. That calls arrive, and that administrators do anything,
is not assumed.

`CreateRecord`: weak fairness of each call's own steps, requests among them, as
each is one client call; a mutex whose holder is done is handed on. A caller that
gives up is not assumed to. `Paging`: weak fairness of the reader's steps; the
caller goes on as it is told to, and changes and failures are finitely many.
`Startup`: weak fairness of each process's stages, of which the probe is taken
only when Pipedrive answers or the timeout is a positive one, so that
`EveryStartEnds` rests on the configuration and not on the network. The other
modules state safety only.

## The proofs

Eight modules hold the theorems; each follows the same argument, an inductive
invariant, one lemma per conjunct that one step preserves, then the theorems. No
bound is used: calls, entries, fields, values and inputs are arbitrary sets, and
`MaxAttempts` any positive number. The assumptions are the named `ASSUME`s of
the modules. The invariants were checked by TLC as invariants of the runs before
they were proved.

- **WriteProofs**, a write from end to end. Of `PipedriveCall`: `WriteInv` says of a write where its requests can be:
  while it may still try again none was applied and none is on its way; in an
  attempt only that attempt's; once it returned, what the verdict allows. That,
  and that only a call with an attempt left sleeps, is inductive; the stated
  invariants are not, since `AppliedAtMostOnce` alone does not know what is
  under way. `Typing`, `AtMostOnce`, `TrueVerdict`, `SafeRetry`, and `Implements`: every
  step is a step of `WriteOnce` or leaves effect and verdict alone. Of
  `ManageRecord`: `Ctl`, `Checks` and `Past` say of a call where it is and what it
  was told, what its checks established in terms of what it read, and what others
  did since; a create is followed next to the guarded writes, as it never reads.
  `AllSettled` adds that a record holds what Pipedrive derives of it, without which
  a `person_id` could seem unchanged that the participants contradict.
  `ValidIsAccepted` takes a request through folding and dropping to the wire and
  Pipedrive's shapes, and `IsSentAsJudged` says that a field reaches the wire as it
  was judged, but for an emptied collection or person.
  That no two values of a field project alike (`FieldTold`) is for a collection a
  matter of reading its text back: `QuotesTellApart`, a quoted text ends at the
  first quote mark in it; `ContactPointsToldApart` and `ParticipantsToldApart`, so
  two texts that end alike end in the same element; and `ListsToldApart`, from the
  last element to the first. `EmailsToldApart` and `ParticipantListsToldApart` are
  what the comments of `projectContactPoints` and `projectParticipants` promise,
  `FoldedTwice` what that of `PrimaryParticipant` does. They speak of lists of any
  length and are shown round by round: that a loop's function is there, and what
  holds of each of its rounds, rests on `AllNumbers` (a set with 0, and with a number
  the next, is all of them, as no other is the least), which the library's theorem on
  well-founded orders gives without an operator for a parameter.
  `AfterIs` and `MovedOffIs` say what Pipedrive makes of one field, and that only a
  note's anchors are ever taken away: the exception in `NoLoss` and `TrueNoop`.
  `RecordTyping`, `NeverWrittenInVain`, `ShapesTaken`, `NoLoss`, `TrueNoop`,
  `PlainRehearsal`, `TrueRehearsal`, `FullRehearsal`.
- **FieldProofs**. Of `FieldCache`: `OnceInv` ties an entry's once, flag, map and error to
  the one call that runs its fetch; `AgeInv` and `HoldInv` tie the age of an entry to the
  refreshes that cleared the cache before it was made. `Typing`, `OneFetch`, `WholeReads`,
  `WholeCounts`, `Settles`, `RefreshSeen` (fields and errors alike).
  Of `FieldCodec`: `ReadInv` and `EncodeInv` are the loop invariants: what
  was shown, sent and refused is what the keys no longer in `todo` call for,
  whichever they are. `AtomRoundTrip` and `ValueRoundTrip` say that labelling an
  id and looking the label up gives the id back, labels that read like ids
  included; they need that no two options share a label. `CodecTyping`, `OrderFree`,
  `HarmlessEcho`, `CompleteRead`.
- **GuardedWriteProofs**. Per call: `Ctl` (how far it got decides what was
  checked), `Since` and `Race` (what others did since is recorded), `Made` (what
  its write altered, in terms of the record it read and the races), `Reports`;
  and `Makers` (a record left by a call holds what that call asked for). `Typing`,
  `OnlyWrites`, `NamedOverwrites`, `VersionChecked`, `ExactReport`,
  `RetryIsNoop`, `FaithfulRehearsal`.
- **ManageDealProofs**. `Ctl` (where a call is, what it was told and which checks
  it passed) and `Past` (what others did since its reads). `RequestTyped` and
  `RequestNarrow` say what an action sends, once for all. `Typing`, `Narrow`,
  `RejectedByRaceAlone`, `NoSecondDelete`, `Rehearsed` and `VersionHolds`, which
  together are `NeverUncalledFor`.
- **WorkspaceProofs**. Of `Workspace`: `Shape` ties a process's place to its command and what it
  has in hand; `Crossing` says that a login whose token vanished has the logout
  to show for it, which `PointerHasToken` needs when that login then saves its
  pointer; `Undisturbed` says what `alone` is worth until the end. `Typing`,
  `AcceptedTokens`, `PointersExplained`, `OkIsDone`. Of `Startup`: `ComesTo` says
  what a launch that saw one environment and one state of the stores comes to,
  stage by stage, without the steps it took; `Saw` ties a launch to it, and stores
  that changed in between to their own stage. That a status and a server both come
  to it is `Foretelling`. `Floored` says what the operator's flag makes of the
  configuration before a server is up: `NoWritesUnderFloor`.
- **ReleaseTrainProofs**. First the comparison by itself: `Comparison` says that a
  quiet one breaks no caller; a broken document is taken apart at its outermost
  offending field (`Outermost`). `InputStep`, `OutputStep`, `KeptIsSafe` and
  `MergeKeeps` say when what holds from base to head, and from base to main, holds
  after the merge. `TrainInv` then says of every branch that it stays a surface,
  that a verdict was given on what it shows, and where its entry is. `Released`,
  the invariant of `AllNamed`, adds to the property that what is unnamed is unbroken
  from the release to main, which each merge carries on. `Typing` (which says too that
  main, the release and both sides of every branch stay surfaces, `IsSurface`),
  `Enough`, `InTheNotes`, `QuietIsSafe`, `AllNamed`.
- **CreateRecordProofs**. `MemoInv`: the mutex has one holder, which is asking;
  whoever heard something heard the memo, or its own end; and one that asked in
  vain was given up. `OneAnswer`. `Foresight` is the other invariant: what is in
  each field of a preview, by where its call has been and what it heard
  (`Preview`, `Filled`); what a made record holds (`Kept`); and, since a default
  may change at any time, that what was read and what was made between the same
  two changes agree (`CurrentUser`, `CurrentStage`, `SameCurrency`,
  `SameStage`). That a set of order numbers has a least one (`FirstStageIs`) is
  the library's theorem on well-founded orders. `Typing`, `Foretelling`.
- **PagingProofs**. `SinceThePage`: between a page and its last check, whoever is
  alive or dead now is on record as having been so, and so is what each check
  found or missed. `TrueHits`. `AskedIsMeant` is the heart of `PageIsMeant`:
  tool by tool, what the options of a request select is what the descriptions
  of its arguments say, whatever the question and the records. The invariant of
  `NothingMissed`, `ReadInv`, is that what a caller is owed and has not been shown is past
  its cursor: the page is the first of what is left in the order (`FirstRows`,
  by which rows are counted), and the next cursor leaves out no more than that
  page (`CursorLeaves`); that keys tell rows apart (`ListedOrder`) holds of due dates
  as edits leave them. `Typing` says too that no page is more than one liveness
  check may name.

Beyond the runs, for every instance: `TrueVerdict` (`VerdictIsTrue`), `SafeRetry`
(a write is tried again only after an attempt that never happened), `WholeCounts`,
`Settles` (`EntrySettles`), `OnlyWrites` (`OnlyWritesWrite`), `FaithfulRehearsal`
(what a dry run of a guarded write shows is what the write does), every `Typing`,
`EmailsToldApart`, `ParticipantListsToldApart` and `FoldedTwice`, and two that bound
what the next section tells of dry runs: `TrueRehearsal`, that one which clears no
collection and no person names all the write itself alters and nothing else, and
`PlainRehearsal`, that any does of the fields of one value.

Only model-checked: `EveryCallReturns`, `EveryCallAnswered`, `EveryCallEnds`,
`EveryReadEnds` and `EveryStartEnds`, as liveness under fairness is beyond the
prover's backends. Every safety property of the passing runs is a theorem.
`RehearsalNamesTheWrite` is one (`FullRehearsal`) under the hypothesis that callers
clear no collection and no person: it is not true of every input, as the next section
says, and the run's inputs are such callers'.

## Where code and documentation part

One run is expected to fail.

*A dry run's `changed` holds "the fields it would alter"* (`persons.go:175`).
`personAfterUpdate` takes an empty list of emails or phones that was passed for
the record's new one, and `activityAfterUpdate` one of participants; the rehearsal
reports the field as changed. The request tags these lists `omitempty`, so the
PATCH leaves them out and nothing is cleared. A `person_id` of 0 in an update of an
activity is the same: it is predicted with (`activities.go:432`), and no participant
is made of it. `manage_record_clears` shows both, and `manage_record` has no such input.

Met while modelling, in keeping with the models but without a run of their own:

- When the body of a write's answer breaks off after its status line, `attempt`
  returns "read body: ..." without the hint that the write may have been applied
  (`client.go:247-249`), which `docs/architecture.md` (D-54) promises; the hint is
  on the other path only.
- "A failed warm-up only costs latency" (`dealfields.go:31-35`, and its two
  siblings): its error stays in the entry, the first real call is given it,
  `Encode` refuses on it, and nothing fetches again until `refresh_field_cache`.
- "An archived deal accepts nothing but unarchiving" (`docs/architecture.md`,
  D-45): `delete` has its own read and never looks; it is rehearsed, sent and
  reported (`deals.go:610`).
- A note sent one anchor. "A note anchors to exactly one of a deal, person,
  organization, lead or project" (`get_note`, `notes.go:140`), and on update
  `deal_id` "moves the note" (`notes.go:107`). But `noteAfterUpdate`
  (`notes.go:383-409`) overlays what was sent and leaves the other anchors, which is
  right only if "an omitted field keeps its stored value" (`UpdateNoteRequest`), and
  `manage_note` has a note take "at least one anchor id" (`notes.go:200`). If a note
  hangs off one record alone, an update with an `org_id` takes it off its deal, and
  nobody is asked: `deal_id` is not in the prediction, so the guard lets it pass
  without `overwrite`, and a dry run does not name it. That is the loss "the caller cannot see coming" of
  `notes_test.go:431-434`, which tests one deal against another only. Which account
  is true of Pipedrive the repository does not settle, so the run has both and no
  verdict: with `MovedOffBy` taken out of `LosesOnlyNamed`, `NoUnnamedLoss` is
  violated in `manage_record` by a note that is `lone`, and by nothing else.
- `person_id` of `manage_activity`: "anyone already there stays on as
  non-primary". The others kept are those of the call, not of the record, since
  `PrimaryParticipant` is given the request alone; `NoUnnamedLoss` asks for
  `participants` in `overwrite` when the record had others.
- In a status report `reason` is null when the probe failed, although its comment
  calls it the first thing that stopped; and `credentials.resolved` is also false
  when the configuration was refused, before the credentials were looked at.
- `pipedrive-mcp --skip-probe status` serves: flag parsing stops at the first
  word, and the dispatch looked at the first one only.
- Between two releases, values of an enum may go from two to any and then to one,
  over two pull requests of which neither breaks, as only notes are taken of them;
  `BreaksAreNamed` leaves lists of values out.
- A pull request judged before a tag and merged after it was judged against the
  release before; one branched before a cut and merged after the tag has its entry
  in a section already released. CI does not run again in either case. Step 4 of
  `docs/release.md` tags main's head, so one merged between cut and tag ships in a
  release that does not name it.
- A cut that keeps an empty `[Unreleased]` above the version, as step 1 of
  `docs/release.md` has it, is no cut to `isReleaseCut`, which looks for the
  heading among the removed lines.
- `changed` is the diff of the record as read and as echoed, so another's edit in
  between is in it (`guard.go:502`); `ReportIsExact` is stated without such races.
- Between the load and the save of a `logout` a login may record another
  workspace, and the save clears that pointer (`userconfig.go:111-121`);
  `DoneMeansDone` is stated of commands that ran alone. A pointer edited by hand
  to capitals resolves, and is not matched by the comparison there.
- Of two stored fields that share a name a read shows one, whichever was ranged
  last (`fieldcache.go:155`); `ReadIsComplete` is stated of the others.
- A field named twice in one write is refused, but the double naming is not said
  when the value ranged first was itself refused (`fieldcache.go:295`).
- An option id that a read could not resolve is refused when sent back
  (`fieldcache.go:430`), since the same table decides.
- A list that is edited while it is read can pass over what was edited: `Touch`
  moves a row to the front, which is what ordering by `update_time` means, and an
  activity brought forward passes a reader of the calendar in the same way.

Two smaller observations, in agreement with the documentation: a refresh may report
0 fields without an error when another refresh runs at the same time
(`CountIsWhole` is what does hold), and a name Pipedrive derives may replace a
value no permit named, as `manage_person`'s description says.

## Not modelled

Each entry of "components" in `PROJECT.json` says why. In short:

- the length of a wait between attempts: that it ends is in `PipedriveCall`, and
  a model of doubling, jitter and cap would restate three lines of arithmetic;
- wording, layout and logging; tool schemas and registration, which keep no state;
- one-GET reads, whose call and translation are modelled;
- the other gates (docs, leaks, parity, the package manifest): text in, verdict
  out, no state and no second actor, so a model would restate their regular
  expressions; and how a gate builds a revision in a worktree to dump its surface;
- the evaluation harness, which runs a third-party agent over a fake Pipedrive,
  packaging, build metadata and test doubles: not part of the server;
- prompts and terminal handling;
- what Pipedrive does with an update of a deal that was read as deleted, which
  nothing in the repository says.

## The plan

Most important first; the modules were written in this order, each with its
runs, and proofs where named above: `WriteOnce`, `PipedriveCall`, `FieldCache`,
`FieldCodec`, `FieldGuard`, `GuardedWrite`, `ManageDeal`, `CreateRecord`,
`Workspace`, `Paging`, `ManageRecord`, `Startup`, `Surface`, `ReleaseTrain`.

`GuardedWrite`, `ManageDeal`, `ManageRecord` and `CreateRecord` take `WriteOnce`'s own
actions for what the client does, so that they keep its promise needs no theorem;
that the client keeps it is `Implements`.

What is left: a run of its own for a note that hangs off one record alone, once it
is known whether Pipedrive has it so; and the other filters of the lists, each of
which works as the owner does.
