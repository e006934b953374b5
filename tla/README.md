# Verification of the telemetry server

`data-telemetry` is a catalogue of data bottles: clients upload blobs, bottles,
OCI manifests, pull and push events and signature summaries; the server stores
the bytes, derives a relational model from them and answers queries. Several
replicas may serve one database.

This directory holds TLA+ models of that code, the TLC runs that check them on
small instances and theorems about them, proved with TLAPS. `PROJECT.json` lists
the components, the runs, the lines of code behind every definition, the hazards
and the theorems.

## The system

| Component | State | Operations | Talks to | What makes it correct |
|---|---|---|---|---|
| Upload handler (`internal/api/handlers.go`) | none of its own; the rows it reads live in local variables between statements | `genericPutData`: digest, data row, digest row, object row, processor | database, processors | an object on record never dangles; answers are truthful; an upload that is repeated or abandoned does no harm |
| Processors (`internal/db/*_processor.go`) | none | `Process` of blob, bottle, manifest, event, signature | database | references are looked up before the row is saved and stay valid until then |
| Members (`internal/db/helpers.go`) | member tables (labels, parts, layers ...) | `processByIndex`, `processByKey`, `Save` | database | exactly the members of the version that processed the object last |
| Migration (`setup.go`, `processor.go`, `actions/serve.go`) | `processor_version` of each row | `MigrateDB`, `Reprocess`, serve, stop | processors, database | leftovers never keep a release from starting; what is served is up to date |
| Schema (`models.go`) | 17 tables, unique indexes on `data.canonical_digest` and `digests.digest` | | | a catalogue closed under references |
| REST queries (`handlers.go`, `scopes.go`, `query.go`) | none | get, list, search, locations, metrics, signatures | database | selectors mean what Kubernetes documents wherever their values can be compared, and an object's locations and signatures are the same under each of its digests |
| Search pages (`webapp/search.go`, `pages.go`) | none on the server; the page in the browser keeps the time of its opening and the next part | catalogue, leaderboard, metric names, common labels | database | a scroll shows each bottle once, though bottles are uploaded meanwhile |
| Bottle page and lineage (`webapp/pages.go`, `ancestors.go`, `db/relatives.go`) | none | a bottle's locations, deprecations, pulls, generations; the lineage graph | database | no relative is missed, no bottle that was found is drawn twice, every arrow is a recorded source, though each part is read by a statement of its own |
| Mirror (`pkg/client/requests.go`) | `index.csv`, `index.latest` | `DownloadAll`, `UploadAll` | list and put routes | what is downloaded can be uploaded; nothing is skipped |
| Sending client (`pkg/client/single.go`, `multi.go`, `utils.go`) | none | `SendEvent` ... with recovery from 412; the same to several servers at once; asking one server after the other | put and get routes | after success everything is on record, on every server |
| Device authorization (`pkg/oauth2/device`, `actions/client.go`) | the refresh token in Docker's credential store, shared by all commands of a user | refresh, device flow, store, renewal | identity provider, credential store, user | a token that is stored is not lost or left spent; the user is not asked without need |

What is hard here is that nothing is done in a transaction. A handler is a
sequence of statements; those of other handlers, of other replicas and of other
releases come in between, the request may be cancelled after any of them, and
what was written stays. Documents refer to each other by digests, of which one
object may have several, while rows refer to each other by primary key: the keys
are read in one statement and stored in a later one. Rows are processed again
when a release changes a processor, both by `MigrateDB` and by uploads that meet
a row of another version, in either direction. A page or a scrolled list is put together
from several statements too, between which the tables grow, and every query has to
follow an object under all of its digests.

## The modules

| Module | Code | |
|---|---|---|
| `Documents` | digests and DTOs | the bytes clients send, their digests, and what they refer to |
| `Catalog` | what the schema promises | abstract specification: three sets, an object enters only when its references are there |
| `Ingest` | `genericPutData`, the five processors | one action per database statement; implements `Catalog` |
| `Startup` | `Serve.Run`, `MigrateDB`, `Reprocess` | replicas of several releases; extends `Ingest` and runs its processors |
| `ClientSend` | `SendEvent`, `SendManifest`, `SendBottle`, `SendSignature` | clients that recover from missing digests; extends `Ingest`, client `w` being served by worker `w` |
| `Mirror` | `DownloadAll`, `UploadAll` | a copy of one catalogue made while it grows; source and target behave as `Catalog` |
| `Members` | `processByIndex`, `processByKey`, `Save` | the member rows of one object |
| `Shelf` | what the reading handlers see | the tables as uploads let them grow; each step is one of `Catalog` |
| `Scopes` | `relatives.go`, `scopes.go` | the relations between bottles as the queries follow them; extends `Shelf` |
| `BottlePage` | `handleBottle`, `FindGenerations`, `ancestors.go` | the page of a bottle, one action per statement, and its lineage graph; extends `Scopes` |
| `Queries` | `scopes.go`, `query.go`, `handlers.go` | filters and API answers as operators over the tables; extends `Scopes` |
| `BottleSearch` | `search.go`, `pages.go` | catalogue and leaderboard scrolled part by part; extends `Queries` |
| `Login` | `authClientOrDefault` (`actions/client.go`), `pkg/oauth2/device` | commands that log in over one credential store |
| `MultiClient` | `multi.go`, `utils.go` | a client of several servers |
| `IngestProofs`, `StartupProofs`, `ClientProofs`, `MirrorProofs`, `MembersProofs`, `BottlePageProofs`, `BottleSearchProofs`, `LoginProofs` | | theorems about the module of the name; those about `Catalog` are in `IngestProofs`, those about `MultiClient` in `ClientProofs` |
| `MCDocuments`, `MCIngest`, `MCStartup`, `MCClientSend`, `MCMirror`, `MCMembers`, `MCBottlePage`, `MCBottleSearch`, `MCMultiClient` | | documents and workloads for TLC; `Login` needs none |

Operators named in a comment "Faulty X" are variants of `X` with a bug that the
code could have; no specification uses them. `PROJECT.json` says which property
tells each of them from `X`.

### Documents and Ingest

Bytes are members of `Contents`, a digest is the pair of the bytes and an
algorithm, so distinct bytes never share a digest. `Doc` says what bytes decode
to; any bytes may be sent to any route. `data` is the set of bytes with a row,
`digests` maps a digest to the bytes its row belongs to, `table[t]` is the
object table of type `t` with its rows in primary key order, and `request[w]` is
the handler that worker `w` runs: its program counter `stage` and its local
variables. A worker is a request goroutine of any replica.

| Action | Code |
|---|---|
| `Receive` | read the body, `parseDataPutParams`: the digest is computed with the algorithm of the claimed digest and compared; 409 when it differs |
| `FindData`, `CreateData` | step 1, the two statements of `FirstOrCreate`; the unique index lets one insert through, the loser gets 500 |
| `FindDigest`, `CreateDigest` | step 2, likewise |
| `FindBase` | step 3: none, one of this version (204 and done), or one of another version (204 header, process again) |
| `Decode` | decode and validate |
| `LookupArtifact`, `ArtifactsDone` | a bottle's public artifacts, one statement each; 412 with all that miss |
| `LookupSubject` | a manifest's bottle and the number of its parts; the manifest of an event or a signature |
| `LookupSigBottle` | a signature's bottle; 400 when it is not there |
| `Save`, `SaveSignature` | the final `Save`, an insert or an update of the row found in step 3; a signature summary entry by entry |
| `Fail` | any statement fails, or the context is cancelled: 500, and nothing is undone |
| `Deliver` | the goroutine is free again |

A 204 header that is out cannot be taken back, so `Header` is what the client is
told whatever `status` the handler ends with.

### Startup

Here a worker is a replica that handles one request at a time. `Start` takes a
release, `Take` picks any outdated row of the current table and hands it to the
processor, whose statements are those of `Ingest`; `NextTable` goes on when none
is left, and after the last the replica serves. `Crash` may come at any point. A
failure of a processor ends the start (`Reprocessed`). One version number stands
for the versions of all five processors of a release.

### ClientSend

`client[w]` is one caller with one call: the function it called, the document
that is being put, whether that put is the second one, the algorithm of each
document, and the artifacts of the inner loop that are still to be sent. The
recursion `SendEvent` - `SendManifest` - `SendBottle` is never deeper than those
three, so a stack is not needed: `Below` and `Above` are the call and the return.

| Action | Code |
|---|---|
| `Begin` | a caller calls a function, for the first time or again |
| `Ask` | `doPutRequest`; the server's `Receive` |
| `Handle`, `Break` | the handler of the server goes on, or fails |
| `Accepted` | 201 or 204: return to the caller, put the document above once more, or send the next artifact |
| `SendMissing` | a 412 with one missing digest (any number for a bottle) at the first try: what misses is sent with the algorithm of the digest by which it misses |
| `Rejected` | any other answer, or a second 412: the call ends with an error |
| `GiveUp`, `Discard` | the connection breaks, the caller cancels or has no such artifact; the handler goes its way and its answer reaches nobody |

`SendSignature` sends nothing when the manifest misses and puts the summary
again. A caller is assumed to supply what its callback is asked for, or nothing.

### Mirror

The source grows by `Name` and `Enter`, steps of the catalogue. A creation time
is any number in 1..`MaxTime`, in any order: it is read from the clock of the
replica before the row is committed. What the source has when a behaviour begins
(`Stock`, `StockNames`) was uploaded before, after what it refers to. The directory
is `csv` (the records of all `index.csv`), `opened` (which of the files exist),
`torn` (which of them have a part of a line) and `latest` (`index.latest`).

| Action | Code |
|---|---|
| `BeginDownload` | `Download.Run`, with `--from-latest` (the default) or in full: types in reverse topological order |
| `List` | one list request: the oldest `Batch` objects created after the cursor |
| `WriteRecord` | one record appended to `index.csv`, the oldest first |
| `LoseRecords` | the `w.Flush()` at the end of a page fails, and nobody asks `w.Error()`: what was not written yet is lost, perhaps up to a part of a line, and the time of the page's last record is passed |
| `NoticeLoss` | the first record of the next page gets the error that the buffer has kept, and the download ends |
| `WriteLatest` | after the page, flushed or not, `index.latest` is written; a full page is followed by another, a short one by the next type |
| `StopDownload` | a request or the file of an object fails, a signal: the directory stays as it is, with half a line perhaps |
| `BeginUpload`, `Put`, `FinishUpload` | `UploadAll`: in topological order, with or without `--skip-invalid`, up to an index that is missing or cannot be read |
| `StopUpload` | a failed request, a signal |

The target answers 412 when an artifact or a subject misses, which `--skip-invalid`
skips, and 400 to a summary of signatures with an entry that does not verify, which
it does not (`Missing`, `Verifies`). The source can have such a summary on record, by
its first entry, so a mirror of it may meet the 400; after that the target has it on
record in the same way.

Reading the time stamp, opening the file and choosing where to start are local
steps of one program and made one. `history` is an observer: `watched` is an
arbitrary digest the source had when the download began, and the properties say
what becomes of it. `missed`, `lost`, `torn`, `loose` and `Tied` name the
exceptions, without which the properties are false: objects committed with a time
already passed, or whose record an earlier download lost; those whose record this
one lost; an index with half a line; bottles
that were accepted for the mere digest of an artifact, of which no blob was stored
(its own upload was abandoned, or the bytes are on record as another type, which a
mirror does not upload before its bottles), and objects of equal time, between
which a page may end.

Left out: half a line that happens to read as a record, with the digests that
were written before the cut; download of a single type, and `--since`.

### Members

The state is one object and one member table: the object's version, the rows
(live or soft-deleted), and how many rows an entry of the deprecates list has.
`Find` reads the rows and computes which to keep and which to delete, `Delete`
deletes them one by one, `Save` writes object and members in one transaction;
`Fail` may end the processing between any two. The eight member tables of a
bottle are handled by the same two helpers, one after the other; one of them
stands for all.

### Shelf and Scopes

`Shelf` is what every reading handler sees: `names`, the table digests, and
`created`, the creation time of each object that is stored. They grow by `Name` and
`Enter` while a request is served; a query is one statement and sees one moment.
`Ingest` implements `Catalog`, and the steps of `Shelf` are steps of it; that
concurrent uploads can store an object twice is left to `Ingest`.

`Scopes` adds what bottles say of each other, as text: sources (a digest or a URI)
and deprecations. `ParentsOf`, `ChildrenOf`, `FindDeprecatedBy` and `FindDeprecates`
are the queries, each with the aliases it follows and those it does not. The first
two go from the digests asked for to the bottles and to all aliases of those. The
third finds the bottle under any of its digests, but lists of what it deprecates only
the digests that stand in its list and lead to a bottle on record, and no other
aliases; the last compares the very digest with the lists and gives all digests of
the bottles found.

### BottlePage

One request for `/www/bottle.html`: `page` holds its parameters and its place in
`handleBottle`, `root` the bottle, `facts` and `lineage` what is read, `graph` the
nodes drawn; a node that stands for a source which led to no bottle keeps that
source (`origin`). `began` is an observer, the tables when the request began.

| Action | Code |
|---|---|
| `Request` | `handleBottle` begins, with `ancestors` and `descendants` of the request |
| `FindBottle` | the bottle by digest, or 404 |
| `FindManifestations` | the events by which it was seen |
| `ReadDeprecatedBy`, `ReadDeprecates` | what it deprecates and what deprecates it |
| `BottlePulls`, `UserPulls` | the number of pulls, and those of the users |
| `FindParents`, `FindChildren` | one generation more in `FindGenerations`, asked for with the aliases of the last |
| `FoundGenerations` | all generations asked for are there |
| `DrawChildren`, `DrawRoot`, `DrawParents` | one generation of the graph in `ancestors.go`, nodes that exist already left out, with the arrows to what is drawn before |
| `Reply`, `Abandon` | the page is sent; a statement fails or the client goes away |
| `Grow` | an upload commits between two statements |

A query without `ORDER BY` lists aliases in any order, so the name of a row is any
of its aliases (`Listings`). Drawing reads no table; nothing has to grow then.
Two exceptions are part of the properties, because without them they are false: a
bottle that got a digest while the page was read (`Grew`) may have been drawn as
unknown by one generation and be a row in another.

### Queries and BottleSearch

`Queries` has one operator for each filter of `scopes.go` and each answer of the
API: label selectors as the SQL made of them (`Meets`, `BySelectors`), author,
repository, description, signature, annotation, parts, metric, deprecation;
`Locations`, `Signatures`, `SigValid`. The value of a label is text; `NumberOf` is
the number that `ParseFloat` makes of it, which the code stores and compares,
`IntegerOf` the integer that `ParseInt` makes of it, which Kubernetes compares: one
or none each. `NaNAboveAll` is the database: where there is no number Postgres
stores a NaN that it sorts above every number.

`BottleSearch` is a visitor with one list open. `visit` is the page: its stage, the
search, the time of its opening and the next part; `shown` are the parts so far.

| Action | Code |
|---|---|
| `Open` | `getPageHandler`: the time of the page is read, the parameters validated |
| `Refine` | `handleBottleSearchIsValid`, which the search form asks: on to a bottle, an error, or the list anew |
| `LoadPart` | `handleBottleSearch`, asked for when the last row comes into sight: `Found` is the query, `Parts` what `OFFSET` and `LIMIT` may return of it; 400 when two filters join `digests` (`Clashes`) |
| `LoadMetrics`, `LoadLabels` | `handleMetricSearch`, `handleCommonLabelSearch`: the lists beside the bottles |
| `Grow` | an upload commits |

The properties compare the SQL of selectors with what Kubernetes selects
(`Selects`), where the labels compared are integers that both read alike
(`Comparable`), the answers under one digest of a bottle with those under another,
and one part of a list with the next. `PullsCounted` is an upper bound: it would
catch a pull that is counted twice, not one that is missed. `MetricsLeadSomewhere`
is about the metric alone: chosen beside a filter by parts or by deprecation it is
answered with 400 (`Clashes`). `steady` says that what was searched for
among the older bottles did not change: the time of the page keeps newer bottles
out, but not a deprecation, a new alias or a signature of an older one. For
`NewBottlesDoNotDisturb` no such condition is needed, which is why it is stated
separately.

### Login

Each command that needs an HTTP client runs `authClientOrDefault`. `stored` is the
refresh token in the credential store, `issued` and `spent` are the issuer's side,
`run[c]` is the command: its stage, the token it read and the one it got.
`rotates` is fixed for a behaviour.

| Action | Code |
|---|---|
| `Begin` | no issuer configured: the default client; no Docker configuration: a memory store |
| `Discover` | `oidc` discovery; an error means the default client |
| `Get` | the credential store is read; an error counts as empty |
| `Refresh` | the token is traded in; an error, or an answer that is lost, leads to the device flow |
| `Authorize`, `Poll` | the device code, the user, the answer; an error means the default client |
| `Put` | the tokens are stored, the old refresh token when the issuer gave none (`Kept`); an error is logged |
| `Renew` | the token source trades its token while requests are sent, and stores nothing |
| `Finish`, `Kill` | the command ends, at its end or anywhere |

`faults` names what went wrong, as the properties distinguish it; `alone` whether a
command had the store to itself.

### MultiClient

`Send` starts one goroutine per server, `ServerAnswered` is one of them returning (the
object stored or not, the answer lost or not), `Join` is `errors.Join`. `Get` is
`genericGet`, `Reply` one server's answer: the next server is asked only after
`ErrNotFound`, which `IsNotFound` never sees, because no function of the single
client returns it: a reader hears what the first server says, and an object that
only another one has is not found. `has` is what the servers hold; `sent` is an
observer. `SentEverywhere` promises nothing to a caller without servers, who is told
that everything is sent.

## What the runs check

`pass` runs have no violation; `violation` runs show where the code does not do
what a document or comment of the repository says.

| Run | | Shows |
|---|---|---|
| `ingest_artifacts` | pass | two concurrent handlers, artifacts with two digests, false digests, wrong routes: digests are truthful, knowledge of handlers is stable, lookups never move, the catalogue is implemented |
| `ingest_signatures` | pass | summaries of two entries: 201 means all are on record, for the right manifest and bottle |
| `startup_single` | pass | one replica, one request at a time, all kinds of objects, crash and upgrade anywhere: nothing outdated is served, retries store nothing twice (requests that overlap do, see below), and leftovers never keep a start from its end |
| `startup_rolling` | pass | two replicas of two releases over one database: starts go through, answers are truthful, references never move, events keep their manifest's bottle |
| `client_send` | pass | two clients send at the same time, with lost answers and repeated calls: what is reported as sent is complete, documents that fit are never refused, and a caller that tries again gets through |
| `mirror` | pass | downloads, cut off anywhere and repeated, with a flush that fails unnoticed or half a line left behind, then an upload: nothing is skipped, nothing is refused but a summary with an entry that does not verify, the mirror is perfect, each but for the exceptions named in the property, and a download ends |
| `members_serial` | pass | members through three versions with failures anywhere, one processing at a time |
| `bottle_page` | pass | the page of a bottle read while four bottles with aliases, shared sources and deprecations are uploaded: no relative that was there is missed, no bottle that was found is drawn twice, arrows are recorded sources and lead rightwards, and what the page says of deprecation is true |
| `bottle_search` | pass | a list scrolled while bottles, a deprecation and a digest are uploaded: every bottle once, in order, with its true number; the lists of metrics and labels say the truth; selectors select what Kubernetes would of labels it can compare, on a database that sorts NaN above all numbers; locations and signatures are the same under every digest |
| `login` | pass | two commands over one store, an issuer that may rotate, answers lost, commands killed: a stored token is not lost, is spent only after a fault, the user is asked once |
| `multi_client` | pass | two programs with the same servers in different orders and one with none: what is reported as sent is on every server |
| `ingest_partial_signatures` | violation | a prefix of a summary counts as the summary (`handlers.go:369,402`) |

The last is a disagreement of the code with its comments: `SignatureProcessor`
saves entry by entry, and the row that the next upload finds may be that of the
first entry only. `PROJECT.json` quotes it under "findings".

### Bounds

Two workers suffice for each race the code can have: every statement concerns
one row, and a handler's knowledge is disturbed by a single other write. The
documents of a run are one chain of references of each kind; what matters beyond
that (two artifacts, two digests of one artifact, two entries in a summary, a
bottle that is not the manifest's, a manifest that does not fit) is put into the
run that is about it. Two versions give upgrade and downgrade. There is no bound
on the number of uploads: with the workloads above the tables stay finite,
because an object row is inserted only while its lookup finds none, and at most
once per overlapping handler.

`client_send` has one release. Its three calls are an event that goes through all
three levels of the recursion, with digests of another algorithm than the call's
at two of them, a manifest that can never be accepted, and a signature, which
competes for the rows the first one makes. `mirror` (262,380 states) starts with a
bottle, its manifest and a summary of two signatures of which the second does not
verify; an artifact and a bottle that names it by its second digest are uploaded to
the source. Its pages have one object, so that every page boundary occurs, and a
download goes on past a page that it lost; there are two times, which is enough for
equal, earlier and later bottles (`Stamps`; what is alone in its table has one); two
downloads (`MaxRuns`), a full or partial one before any other; and one flush that
fails or line that is cut off (`MaxFaults`; the proofs are for any number).
`Members` bounds its rows by `Ids`
(five primary keys, more than three versions of three members need with a few
losses) and the deprecates rows by `MaxCopies`; `Save` is not enabled beyond
either. `SYMMETRY` permutes workers in `ingest_artifacts`, `ingest_signatures` and
`startup_rolling`, which have no liveness property.

`bottle_page` (149,092 states) has four bottles, two of them with a second
digest, each relation recorded under one of the two; a source that two of them
share, a URI that two parents of the bottle share, and a bottle of which nothing is
stored yet. Two generations each way
make a diamond, a relative at two depths, and an empty generation; two commits
(`MaxCommits`) while a page is read are enough for a source to arrive before its
child is asked for and an alias after. `UserLimit` is 2 where the code says 7.
`bottle_search` (27,326 states) has parts of one and two bottles and four bottles, so that a
scroll has several parts and an empty one; two times, so that an
upload is older, as old or newer than the page; a label that is an integer, one that
is a number with a fraction (numbers are counted in halves), one that is a word, one
that is absent. `login` has two commands and three refresh tokens:
first, rotated, and rotated or authorized once more. `multi_client` (11,792
states) has one object: calls about different objects do not touch each other.

No run turns the deadlock check off.

### Fairness

- `FairSSpec` (`Startup`): weak fairness of the statements of a handler or a
  reprocessing, and of what `MigrateDB` does by itself. The Go scheduler runs
  goroutines that can run, and the database answers. No client has to send and no
  fault has to happen. A replica that runs next to others of an older release may
  see its rows lowered again and again; `StartFinishes` is therefore claimed for
  one replica only.
- `FairCSpec` (`ClientSend`): weak fairness of the steps of a call and its
  handler, and of repeating a call that ended because the server or the way to it
  was not available (callers such as `ace-dt` do that; nobody has to begin).
  `TryingSucceeds` assumes further that faults stop at some time (`FaultsStop`).
  It is not trivial then: the loser of an `INSERT` is told 500 without any fault.
- `FairSpec` (`Mirror`): weak fairness of the steps of a download.

The other specifications state no fairness: what they claim is safety. The handlers
and calls they model are finite sequences of statements; the only loops that could
fail to end are those of `MigrateDB`, of a download and of the clients' retries.

## What is proved

Every safety property of the passing runs is a theorem, for any documents and any
number of workers, versions, clients, bottles, commands and runs, but for the
conditions named below:

- `IngestProofs`: `Inv` is the conjunction of the types, `ContentAddressed`,
  `ReferencesHold`, `PrejoinedBottle` and `InFlight`. The last one is what makes
  it inductive: for each stage it says what the handler has learned so far, in
  terms of the tables as they are now. The argument is monotonicity (`Grows`):
  each statement only adds data, digests and rows, or overwrites a row with the
  same references, so the first row that holds given bytes is the same for ever
  (`FindsStable`), so are the keys that were read (`KeysStable`) and all that a
  handler knows (`LearnedStable`). An update in place cannot disturb this because
  the keys of a row are a function of its document (`KeysAreUnique`): processing
  it again finds the very same rows. From this follow the invariants,
  `LookupsStable`, `ReferencesFixed`, the refinement of `Catalog` and, because a
  catalogue is closed under references (`CatalogueIsClosed`), `CatalogueClosed`
  seen from outside. A second invariant, `AnswersTrue`, follows what a
  handler must know before it may answer, and gives `SuccessMeansRecorded`.
  `CreatedIsComplete` is about one release (all `Versions` are equal):
  `EntriesKept` says which entries of a summary the handler has saved or left to
  save. With two releases that argument fails, because the one that processes a
  summary again writes all its entries over the row it found.
- `StartupProofs`: the same invariant holds when replicas of any releases start,
  migrate, serve and crash. `Redoing` adds that a processor that works on a row
  again meets no missing reference, because the references of the row hold; so no
  start fails but for a database error, or for a summary of which an entry was
  saved before one that does not verify. Together the replicas implement the same
  catalogue. `ServesCurrentRows` and `ObjectsAreStoredOnce` are about a single
  replica that handles one request at a time, and releases of any order one after
  the other: its handler runs with the version of the replica (`Alike`), what it
  processes as new has no row (`Unrecorded`), and the tables `MigrateDB` is done
  with have none of an older version (`Migrated`). With two replicas both are
  false: the other one lowers versions, and two inserts overlap.
- `ClientProofs`: clients do to the server what `Ingest` allows
  (`ClientsAreUsers`), so all of the above holds for it. `Link` ties a call to
  its request: while the call waits, the request is the put it waits for, the
  document put is at or below the one the call is about, and that one is put with
  the algorithm of the call. With `AnswersTrue` and `Grows` a call that returned
  without an error has its document on record for good; with `ReferencesHold`
  everything below it is there too (`SentIsComplete`). For `FittingIsServed`,
  `FitInv` adds why a handler answers what it answers (`Reasons`: a 400 or 409
  only to what does not fit, a 412 with what did miss), that whatever is put is
  put under the digest by which the document above names it and that a second
  put has all its references on record (`Prepared`), so that it misses nothing
  (`Lacking`). The theorem `SentToAll` is about the client of several servers, for
  any lists of servers: what its goroutines are told, the servers keep.
- `MirrorProofs`: the types, and `NothingSkipped`: its invariant says, for every
  object that was visible when the download began, that it is in `index.csv`, in
  the page at hand, or still ahead of the cursor, unless it is one of the
  exceptions; and of each earlier download, however it ended, that `latest` has
  not passed anything that `index.csv` does not have, but what came late or was
  lost in a flush (`missed`). For `UploadsAccepted` and
  `PerfectMirror`, `FullCovered` says the same of what has to be uploaded first:
  whatever a record of `index.csv` refers to (`Wanted`) was on the source when
  the record's type was asked for, so that it is stored, or still to be fetched,
  when its own type, which comes later, is; records left by earlier downloads
  are covered because the types are fetched in full. `UploadCovered` says that
  what is put has its references on the target, as types are put in the opposite
  order (those of one type in any order, where the code keeps that of `index.csv`),
  and that whatever was refused is a summary with an entry that does not verify:
  it ends that upload, but nothing refers to it, and the next finds it on record.
  Source and target are closed under references at all times
  (`CataloguesAreClosed`).
- `MembersProofs`: under `Serial` (one processing of an object at a time) no
  member has two rows, members are exactly those of the version, and rows are
  reused. `Serial` is needed: two workers that find the same member missing both
  insert it.
- `BottlePageProofs`: for any documents, depth, number of uploads and order of
  rows, `NothingMissed`, `EveryAncestorPoints` and `DeprecationsListed`. The
  invariant says of each generation found that its rows are genuine
  (`RowsGenuine`: bottles with digests that they have), that each is there because
  of a row before it (`Sourced`), and that the generation holds every bottle that
  was on record as a relative of the one before when the request began (`Closed`);
  chaining these (`LinesUp`, `LinesDown`) gives every line of relatives. While the
  graph is drawn, `Drawn` says that each generation passed has a node for each row,
  under whichever alias, and `UnknownThen` that what is drawn as an unknown bottle
  was unknown in some generation. The tables only grow, which keeps what was read
  true, except that a bottle may get a digest; `Shown` names this exception.
  `ArrowsGenuine` and `DrawnOnce` need more of the drawing (`Laid`): a row has all
  digests that its bottle had when the request began (`RowsComplete`), so whoever
  looks for its node by any of them finds it; nodes are drawn from the right to the
  left (`Placed`); and no bottle is its own descendant (`NotItsOwn`), or the bottle
  of the page, which is drawn without looking, would be drawn twice. That rests on
  `SourcesAreOlder`: a bottle names its sources by digests of their bytes, so
  among any bottles one was made before the others.
- `BottleSearchProofs`: what is shown is an initial segment of the list in the
  order asked for, as long as the parts loaded so far (`Scrolled`). `OFFSET` and
  `LIMIT` cut the next part out of a list that, in a strict order, has one initial
  segment of each length (`InitialUnique`), so the parts line up although each
  comes from a query of its own. `ListsRead` says that the lists beside the
  bottles are those of the same search. The answers compared in `SelectorsAgree`
  and `AliasesAlike` are functions of the tables; what the proofs need of these is
  `ShelfClosed`: an object on record has its references on record. `SelectorsMean`
  holds for either database and for any way of reading numbers, as `SelectorsAgree`
  compares only where a value is read alike by both (`Comparable`).
- `LoginProofs`: for any number of commands and tokens, `NeverForgotten`,
  `StoredUnspent` and `AskedOnce`. The invariant follows a rotated token: as long
  as nothing was lost, a spent token in the store has a successor in the hands of a
  command that is about to store it (`TakenAgain`, `Replaced`), what such a command
  holds is not spent (`Fresh`, `PutHolds`), and a command that runs alone reads
  what is stored (`AloneOnly`, `AloneReads`).

The assumptions are those named in `Documents`, `Ingest`, `ClientSend`, `Mirror`,
`Members`, `Shelf`, `Scopes`, `Queries`, `BottlePage`, `BottleSearch`, `Login` and
`MultiClient`; TLC evaluates them in the runs. `IngestAssumption` says that
versions are positive and the mark for "no content" is none, `ClientAssumption` that
clients send documents of the model with digests computed from them,
`StartAssumption` that what was stored before a behaviour of `Shelf` was uploaded,
too, after what it refers to, `MirrorAssumption` (by `StockClosed`) the same of
what the source of a mirror has to begin with, `QueriesAssumption` that an object
has one value for a label and for a metric, and that `NumberOf` and `IntegerOf` are
integers, `BottleSearchAssumption` that there are finitely many
bottles, that a part has some of them, and that a search has the parameters that
the routes parse.

The type invariants, the closedness of the catalogues (`CatalogueIsClosed`,
`CatalogueClosed`, `CataloguesAreClosed`, `ShelfClosed`), `ClientsAreUsers` and the
invariants the proofs are made of take no part in the runs.

Only model-checked: the liveness properties `StartFinishes`, `TryingSucceeds` and
`DownloadEnds`, as the prover does not reason about fairness.

## What the models make visible

Things met while modelling that are no run of their own. Each is in the model as it
is in the code, unless it says otherwise.

Uploads and processing:
- The reference of a bottle to an artifact needs a digest only, so the artifact need
  not be in the blobs table (the reason for `loose` in `Mirror`). It may be nothing
  but a digest, or a manifest, or a bottle that was stored later: a mirror, which
  puts blobs, then bottles in the order of `index.csv`, then manifests, is then
  refused with 412.
- An upload to a replica of an older release lowers the version of a row, because
  `handlers.go:405` asks whether the versions differ and not which is newer. The
  properties of `startup_rolling` hold in spite of it.
- Overlapping uploads can store an object twice (compare `docs/writeup.md:366`),
  processing a bottle again repeats its deprecates rows (compare `CHANGELOG.md:1420`),
  and two processings at once can give a label two rows (compare `models.go:191`).
- An incremental download never fetches a digest that an object got after it was
  downloaded (compare `handlers.go:248-249` and `README.md:194`). `created_at` is
  read before the row is committed, so an object may appear behind the cursor.

Pages:
- A bottle that is drawn already gets no further arrows when it is found again in
  another generation (`ancestors.go:201-210`, `383-386`): a relative at two depths
  keeps the arrows of one.
- A URI or an unknown bottle shared by two bottles of a generation gets two nodes of
  one name (`ancestors.go:411-471` looks among earlier generations only). `DrawnOnce`
  is about bottles that were found.
- The page of a bottle lists what it deprecates by the digests that its deprecates
  list gives (`scopes.go:367-379`): a bottle on record under another digest, too, is
  listed under the one.
- The list of manifestations joins `events.bottle_id = manifests.id`
  (`pages.go:203`), unlike the comment at `pages.go:183`, `docs/writeup.md:650-652`
  and the correct join at `handlers.go:100`. `FindManifestations` therefore lists
  all events of the bottle or none.
- The pulls on the page of a bottle and what deprecates it are found by the exact
  alias of the request, those in a list by the bottle.
- `FindGenerations` runs a statement for every generation asked for, also after an
  empty one.

Searches:
- `FilterByParts`, `FilterByMetric`, `DeprecatedBy` and `DeprecatesThis` join
  `digests` under one name; any two of them fail with 400 (`Clashes`).
- `ExcludeDeprecated` keeps a bottle one of whose aliases is not deprecated (compare
  `scopes.go:396`).
- `IncludeIsDeprecated` is on SQLite a bare column under `GROUP BY` (compare
  `query.go:87-88`); the flag is not modelled.
- Selectors compare what `ParseFloat` reads (`scopes.go:254,268`), where Kubernetes
  compares integers: a label `7.5` meets `key > 5`. On Postgres a label that is no
  number sorts as NaN above every number, and meets it too. `SelectorsAgree` leaves
  both out (`Comparable`) and claims nothing of them: without that condition it is
  false.
- Common labels are counted against all bottles found, not only those created before
  the page was opened: a newer bottle can empty the list, never make it wrong.
- Ranking by pulls sums joined rows on Postgres; `handleGetSignatures` does not load
  annotations; `FilterByTrustLevel` names columns that do not exist. None of the
  three is modelled.

Clients:
- A login that fails falls back to the unauthorized client with a log line only.
- Keeping the old refresh token (`device/client.go:89-93`) overwrites whatever
  another command stored meanwhile; `StoredUnspent` holds because an issuer that
  rotates always gives a new one, and fails after a device was authorized without
  one (`"bare"`).
- A token that is rotated while requests are sent is not stored (`Renew`); the next
  command finds a spent one and asks the user.
- A client of several servers never goes on to the next one: a status of 404 is no
  `ErrNotFound` (compare `utils.go:46-47`). So an object that only a later server
  has is not found. A client of no servers reports success of every send.
- A download does not notice when the flush of the last page of a type fails
  (`requests.go:121`): it is reported as a success, `index.latest` has passed the
  records that were lost, and incremental downloads never fetch them. On a full page
  the next record returns the error, but `index.latest` is already written.
- Half a line in an `index.csv`, which a kill leaves behind, runs into the record that
  the next download appends; the upload ends with an error there and puts nothing
  that comes after.
- A summary of signatures that is on record by its first entry is mirrored, refused
  with a 400 that `--skip-invalid` does not skip (`requests.go:162-170`), and ends
  the upload; the repeated upload is answered 204.
- `MultiClient.Download` writes all servers into the same directory at once. Not
  modelled.

## Not modelled

- Viewers (`viewer.go`): which external viewers fit a bottle, and their URLs. There
  are no steps in it; the map of the environment is shared by concurrent requests
  (`viewer.go:136,143`), which is noted under "hazards".
- The pages of an artifact, of similar bottles and of the server itself, `pkg/hashing`
  and the full-text search: rendering of what one query returns, and numerics.
- `Download` and `Upload` of a client of several servers, which run `Mirror` once per
  server; a single type, `--since`, and half a line of `index.csv` that reads as a
  record.
- The answers of the API to a search and to a metric (`handleSearch`, `handleMetric`):
  the filters are those of the pages, one statement with a `LIMIT` (7 when the
  request does not say) and no part after the first.
- `AutoMigrate` and the search triggers of `setup.go`, the parsing of selectors and
  labels into columns.
- The order of a list by the rank of a description, and ties of a metric: with either
  SQL promises no order, and `ScrollComplete` promises nothing.

Left out for good: HTML templates and formatting, configuration types and their
generated copies, command line parsing, charts and the build pipeline, logging,
tracing and metrics (no state of the program's own); the cryptography of
signatures and digests, of which the models take the verdict as given.
