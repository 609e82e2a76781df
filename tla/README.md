# Verification of the AWS medallion pipeline

The repository deploys a daily batch pipeline: Hacker News and X posts go through
Bronze, Silver and Gold layers in S3 into a PostgreSQL database, one Lambda per
stage, one Step Functions state machine above them. These modules model the
parts of it that are its own logic; the repository's code is the reference, and
`PROJECT.json` ("map") names for each definition the lines it stands for.

## The system

| Component | State it keeps | Operations | Talks to |
|---|---|---|---|
| Ingestion Lambda (`src/ingestion`) | Bronze objects `{type}.json` and `_SUCCESS` of a day; `written_keys` while it runs | fetch a type, upload it, put the marker, roll back | HN search API, S3 |
| normalization_hn (`src/normalization_hn`, `silver_common.py`) | one object per Silver table and day | check the marker, read the type files (thread per type), deduplicate, put the tables (thread per table) | Bronze (reads), Silver (puts) |
| normalization_x (`src/normalization_x`, `silver_common.py`) | the same, nine tables, several partitions per invocation | the same, one table after the other | Bronze, Silver |
| Analytics (`src/analytics`) | Gold partitions per metric and day; `total_users` / `new_users` state | read Silver, compute each metric, overwrite its partition | Silver, Gold |
| Delivery (`src/delivery`) | rows in PostgreSQL | per table, in a transaction: delete the date (or truncate), insert | Gold, PostgreSQL |
| Notification (`src/notification`) | none | post a message to Discord | SNS, Step Functions |
| State machine (`pipeline.asl.json`, `orchestration/main.tf`) | current state, attempts, timers, `$.ingestion.date` | launch, time out, retry, cancel a branch, catch, notify, end | all the Lambdas |
| Alarms, topic, IAM roles, bucket, VPC, dashboards (`modules/*`) | resource configuration | - | - |

How they interact. The Lambdas share no memory and call nobody but the services:
Bronze, Silver and Gold are shared state, every put overwrites the object of an
earlier run for that day, and the only handshake is `_SUCCESS`, tested by the
normalizations. The state machine passes the date `ingestion` resolved to all
the later steps. Retries after AWS-side errors, attempts that time out, a
cancelled branch of the Parallel state, backfills and manual invocations all
make a second invocation for the same day possible, beside the first or after it.

What is hard:

- *Concurrency.* Two invocations over one partition; analytics reading Silver, and deliveries Gold, while it is rewritten; the reading and writing
  threads of normalization_hn, whose completion order decides the
  deduplication; a stray Lambda beside a later step.
- *Failure.* A put that takes effect and is not acknowledged; a delete that is
  refused; a Lambda stopped at its time limit, for which no `except` runs;
  errors that the code turns into an empty page, an empty file or an empty table.
- *Ordering.* The marker after the uploads, the rollback after the marker, the
  marker test before the reads.
- *Time.* Task limits, retries and waits inside the limit of the execution;
  midnight between two steps; window edges at whole seconds.

What makes each component correct:

| Component | Properties |
|---|---|
| Ingestion | Each item of the day once; nothing lost unheard; the marker comes last; what it promises is there; a failed run takes back what it wrote; a published day is not unpublished; it ends. |
| normalization_hn | No partial day in Silver; the files read are those the marker promised; the tables of a day agree with each other; a re-run replaces the day and gives the same rows. |
| normalization_x | The object of a day and source is made of that day and source only; a day reported as processed is whole. |
| Analytics | Each user and post counted once; a re-run replaces its partitions and never just removes one; the report is true; a metric that fails spoils no other. |
| Delivery | A reader of the database sees the old or the new rows of a table and date; re-delivery is idempotent; one table's failure leaves the others. |
| State machine | One date per execution; a step runs alone; the limits fit into each other; failures are announced; it ends. |

`PROJECT.json` lists the hazards at their lines, with the properties that cover
them, and the ones nothing covers yet.

## The modules

| Module | What it is |
|---|---|
| `Ingestion` | invocations of the ingestion Lambda over one day's partition; fetching a type is one step |
| `PagedIngestion` | the same with the windows, pages and retries inside `fetch_type`; implements `Ingestion` |
| `NormalizationHN` | invocations of normalization_hn for one day, given a Bronze partition; a component without a specification of its own |
| `HNDay` | ingestion and normalization_hn together: one day from Bronze to Silver |
| `SilverTables` | the Silver tables, and what a reader makes of the objects of one |
| `NormalizationX` | invocations of normalization_x over the X files; a component |
| `Gold` | invocations of the analytics Lambda; a component |
| `XToGold` | `NormalizationX` and `Gold` over the same Silver tables: X data from the files to Gold |
| `Pipeline` | one execution of the state machine, with its clock |
| `AtomicReload` | what the delivery Lambda promises a reader of the database; an abstract specification |
| `Delivery` | invocations of the delivery Lambda and their transactions, beside a rewrite of Gold; implements `AtomicReload` |
| `MCIngestion`, `MCPagedIngestion`, `MCHNDay`, `MCXToGold`, `MCPipeline`, `MCDelivery` | instances for TLC |
| `IngestionProofs`, `PipelineProofs` | theorems about `Ingestion` and about `Pipeline` |
| `PagedIngestionProofs` | theorems about `PagedIngestion`, its refinement among them |
| `HNDayProofs` | theorems about `HNDay`, on top of those about `Ingestion` |
| `XToGoldProofs` | theorems about the objects of Silver and the partitions of Gold in `XToGold` |
| `GoldTruthProofs` | types of `XToGold`; what Gold says is true of the uploaded rows |
| `DeliveryProofs` | types of `Delivery`; one version per table and date; no circle of waiting deliveries |
| `DeliveryReaderProofs` | its report is true; it implements `AtomicReload`; which tables it has tried when it ends |

A definition whose comment begins with "Mutant of" is not part of a model: it is
a plausible mistake in the code, kept to show that a property notices it. `PROJECT.json` ("mutants") says
which property each one breaks.

### Ingestion

`bronze[t]` is the object of item type `t`: who put it and which items it holds.
`marker` is the set of runs whose put of `_SUCCESS` took effect; the object
exists when the set is not empty, and nothing in the code deletes it. Per
invocation there are the program counter, the position in the loop over
`WINDOW_HOURS`, the items in memory, the types found (`summary`) and
`written_keys`.

| Action | Code (`src/ingestion/lambda_function.py`) |
|---|---|
| `Begin` | the handler is entered |
| `Fetch`, `FetchNothing`, `FetchRaises` | `fetch_type` returns items, returns none, raises |
| `Upload`, `UploadRaises` | `upload_type`; the key joins `written_keys` only after the acknowledgement |
| `NoData` | `return {"message": "no_data"}` |
| `PutMarker`, `PutMarkerRaises` | the put of `_SUCCESS`, inside `s3_transaction` |
| `RollbackKey`, `Fail` | one turn of the loop in `rollback`, the re-raise |
| `Kill` | the Lambda's time limit or memory |

One put or delete is one step: S3 is an atomic map from keys to objects with
strong consistency. `CanDelete` is the one grant of the role that matters: as
deployed (`modules/security/main.tf`, 33-37) it is FALSE. `Faults` selects what
the environment may do. A failed page is logged and contributes no hits, so
under `"fetch"` the function may return any part of a type's items; without it, it
returns all that the day's windows cover of the type. That is the constant `Covered`,
which is not the whole of the day: what is created at a window's edge, or is beyond the
hits the API serves, is in no window. What `Covered` is, and when it is everything, is the
subject of `PagedIngestion`.

### PagedIngestion

Opens `fetch_type`. Time is counted in half seconds: the last window ends at
23:59:59.999999, which rounding down makes the last second. Per invocation
there are `from` (where the current window begins), `page`, `all` and `count`
(the items in `all_items`, as a set and as a length), the types for which an
error was logged, and the number of sleeps.

| Action | Code (`src/ingestion/lambda_function.py`) |
|---|---|
| `Page`, `LastPage` | a turn of the inner loop: the hits are appended; `page += 1`, or `break` and the next window |
| `PageFails` | `fetch_page` logs an error and returns `{}`, which counts as the last page |
| `Busy`, `OutOfTime` | a 429: two seconds of sleep and a call of itself; the Lambda's limit ends the recursion |
| `Collected`, `CollectedNothing` | `fetch_type` returns; the loop over the types |
| `Coarsely` | the uploads, marker and rollback, which are the actions of `Ingestion` |

The search API is external: a query selects the items strictly between two
seconds (`Matches`), of which it serves the newest `Served` in pages.
`Covered` says for each item by itself whether the windows reach it: it is not
created at a window's edge or in the last second, and less than `Served` items of its window
are newer. `PagedIngestion` implements `Ingestion`, for whose constant `Covered` it puts this
definition, so it is a theorem, and checked, that the loop collects exactly what
is covered when no page fails. A time-out while it sleeps is a `Kill` of `Ingestion`.

### NormalizationHN and HNDay

`silver[tab]` is the day's object of a table: the items that yielded its rows,
with the `post_type` each has in `posts`. An invocation checks the marker, reads
one type file per step in any order (`ReadType`: a thread completes), merges
them in any order of completion (`Dedup`), and puts the tables in any order
(`PutTable`, `PutNothing`, `PutRaises`); the pool is drained before it returns
or re-raises (`Finish`). Extraction (URLs, hashtags, HTML, ids) is data: the
constant `Yields` says which items contribute a row to which table.

The constants must have `Yields["posts"] = Items`; otherwise nothing depends on
the choice of tables. `HNDay` extends `NormalizationHN`, takes `Ingestion` as
`Bronze` and lets any invocation of either start at any time, which contains the
state machine's order.

### SilverTables, NormalizationX, Gold and XToGold

`silver[tab][k]` is the object of a table under the key of a day and a source, as the
sequence of its rows; `ReadRows` is what `safe_read_parquet` makes of the
objects under some keys: of the rows with one primary key, the last in the
listing.

The X files come from outside: `Csv[d][s][v]` is the `v`-th upload of the file
of source `s` for day `d`, uploaded by hand, as the markers are, in any order, and
possibly again while an invocation runs. An invocation of normalization_x has
the days still to do, the source of the current day, the position in the
order of the tables, the upload it read for each key (`took`) and what it
reports as processed.

| Action | Code (`src/normalization_x/lambda_function.py`) |
|---|---|
| `Target`, `NoTarget` | the event names a day, asks for a full scan, does neither |
| `CheckMarker`, `SkipUnmarked` | `check_success`; any ClientError skips the day |
| `ListFiles`, `SkipUnknown` | the listing; `covid.csv` is taken before `bitcoin.csv` |
| `ReadCsv` | `process_gpreda_csv` reads the file, once, and makes the rows of all tables |
| `XPutTable`, `XPutNothing`, `XPutRaises` | one turn of the loop over the nine tables |
| `XRaises`, `DayDone`, `Return`, `XKill` | an error ends the invocation; the next day; the report; the time limit |

`Rows` is `process_gpreda_csv`: a row without a name or with too few fields is
skipped, a post's id is made of name, date and text, the user row of a
name as spelled is that of its latest row (`LatestPlace`) and stands where the name first
appears, the id of a name ignores its case, hashtags and the like come once per value.
The tables are given by what they hold, not by the loop that fills them, which makes them
fit for proofs. Text is data: which values a row refers to is given.

`gold[m][p]` is the set of the invocations that have a file in a partition of a
metric; the values are in `result`, and forgotten when the Lambda ends.

| Action | Code (`src/analytics/lambda_function.py`, `gold_common.py`) |
|---|---|
| `Invoke`, `ReadSilver` | the target date; one of the four reads, which an error turns into an empty table |
| `CountRows` | one of the reads of `data_quality_score` |
| `Compute`, `ComputeEmpty`, `ComputeRaises` | one of the eight metrics has rows, has none and is not written, raises and is noted |
| `Clear`, `Put`, `PutLast` | `overwrite_partitions` deletes a partition's files, puts one; the metric is reported |
| `WriteRaises` | deleting or putting raises, before or after it took effect: noted, and the next metric is computed |
| `GFinish`, `GKill` | the return; the time limit |

Deleting the files of a partition is one step. `Rankings` returns every
ranking that a sort may come to, since nothing orders equal values.
`FirstSeen`, `UserCounts` and `PostCounts` are the functions of those metrics;
`XToGold` states what they should be from the uploaded rows (`KnownUsers`,
`PostsOf`) and compares, in `GoldIsTrue`. One file that spells a name in two ways has two
rows of the user in `users`, of which a reader takes the one whose spelling first appears
last, not the later one; so the parts about users and followers are claimed where no
file does (`OneSpelling`), the one about posts always. Hacker News is present in Silver as rows that do not change.

### Pipeline

The state, the clock in seconds, and per task its attempt: `phase`, when it
began, when it is next heard of (`until`), how often it was retried, the date it
was given. An attempt is given its duration when it is launched, from
`Durations` or, for the notification, from `NotifierDurations` (a duration beyond
`TimeoutSeconds` is an answer that never comes), and the clock
jumps to the next `until`; when several come at once, any may be first. Due
tasks return (`Returns`), raise (`Raises`), meet an AWS-side error of the kind
the retrier names (`AwsError`), reach `TimeoutSeconds` (`TimesOut`) or end a wait
(`Resume`); the execution may reach its own limit (`ExecutionTimesOut`).
Pass states take no time and are folded into the transition. A branch that is
cancelled and an attempt that is given up leave their Lambda in `strays`, since
Step Functions does not stop it; `AwsError` may or may not.
`RunsOn` compares a Lambda's own limit (300 s, 30 s for the notification, in the
compute module) with `TimeoutSeconds`: where the first comes no later, the
Lambda has been stopped by the time its attempt times out.

### Delivery and AtomicReload

`gold[t][p]` is the version of a partition in the data lake, `db[t]` the
committed rows of a table: date, rest of the key, version, and the delivery that
inserted them. Per invocation there are the program counter, its date (or
`FullRefresh`), the position in `GOLD_TABLES`, the records read (`batch`), the
transaction (`lock`, `dels`, `ins`) and the report (`summary`, `errors`).

| Action | Code (`src/delivery/lambda_function.py`) |
|---|---|
| `Connect` | the handler is entered; `connect` returns or raises |
| `Read` | `read_gold`, before the transaction begins |
| `Begin` | pg8000's `BEGIN` and `CREATE TABLE IF NOT EXISTS`; an empty read ends here, with an empty transaction |
| `Delete`, `DeleteRows` | `DELETE ... WHERE date`: the rows it sees when it starts, those still there when it may go on |
| `Truncate` | `TRUNCATE TABLE` |
| `Insert`, `Clash` | one record of `executemany`; the primary key refuses one |
| `Commit`, `CommitLost` | `conn.commit()`, with or without an answer |
| `Fails` | an exception while the connection stands: `rollback`, `errors`, the next table |
| `BeginLost`, `Severed`, `TimesOut` | the connection is lost before or inside the transaction, or a statement waits for longer than `timeout=10` |
| `Close` | `finally: conn.close()` and the return |
| `Kill`, `ServerAborts` | the Lambda's limit; PostgreSQL notices that a client is gone |
| `GoldDelete`, `GoldPut` | the overwrite of a partition by analytics (`gold_common.py`) |

The driver (pg8000) is in the repository and was read: `rollback` outside of a
transaction does nothing, inside it sends a statement and raises on a broken
connection. `BeginLost` and `Severed` are these two cases.

PostgreSQL is external and modelled by what it does at READ COMMITTED, its
default, which nothing in the code changes: a `DELETE` works on the rows
committed when it starts, waits for those another transaction holds and passes
over those that are gone by then; `TRUNCATE` waits for every transaction that
has a lock on the table and keeps the others out; an `INSERT` waits for an
unfinished row of its key and fails on a committed one. The tables exist
already. A date of a table is one partition of Gold; `daily_post_counts` and
`daily_users_metric` split a date by platform as well, which is listed as a
hazard. A reader is no process of the model: what it
sees at any moment is `db`, the committed rows.

`AtomicReload` has two variables, the version shown for each table and date and
the requests made so far. A step makes a request, replaces one date by a
version, or replaces one table by what Gold has, never by nothing. `Delivery`
maps `shown` to the version whose rows are in `db` (`Mixed` if they are of none)
and `requests` to the dates of the deliveries that were invoked.

## The runs

| Run | Bounds | Question |
|---|---|---|
| `ingestion_deletes` | 2 runs, 3 types, 3 items, deletes allowed, every fault but a refused delete | Is the marker last? Can anything but a rollback unpublish a file? What survives a rollback? Does a run end? |
| `ingestion_paged` | 2 runs, 2 types, 5 items, a day of 8 s in windows of 4 s and 8 s, 1 hit per page and 2 served, one 429, deployed role, failing pages, answers and puts | Do the loops implement `Ingestion`? Each item once? Is a loss logged? Does a published day stay? Does a run end? |
| `ingestion_role_denied` (violation) | 1 run, deployed role, a failing put | "If any write fails, already-written files are deleted" |
| `ingestion_misses` (violation) | 1 run, the same day, no fault | "Collects all items from HN for a given day" |
| `hn_day` | 2 ingestions that may lose items, 2 normalizations, 2 types, 2 items, 3 tables, failing reads of a body, puts refused or not heard of, kills | Does a success leave all that was covered, if it was read? Does a normalization read what the marker promised? Do the tables agree? |
| `hn_day_order` (violation) | 1 ingestion, 2 normalizations, no fault | "re-running a day overwrites deterministically" |
| `x_to_gold` | 2 days, 2 files (one uploaded again), 3 users under 4 names, 3 tables written, 4 metrics, rankings of 2, one fault; two normalizations, or one with an analytics beside it, or two analytics after it | Is Silver what was uploaded? Are partitions replaced and never just emptied? Are report and metrics true? |
| `pipeline_daily` | the numbers of the ASL and the compute module, pipeline Lambdas of 300 s or without an answer, a notification of 5 s, 30 s or without an answer, three days, no date in the input | One date? Any stray? Do the limits fit? Does a failure end in `PipelineFailed`, whatever happens to the notification? |
| `pipeline_cut_off` (violation) | durations 5, 300 and over the limit | "Failures anywhere route to NotifyFailure" |
| `delivery_tables` | 2 deliveries for date 1 or everything, 2 tables (with and without dates), 2 dates, 2 versions, a rewrite of one partition, every fault but a kill | One version per date? Is what is in the database reported, and what is reported there? Does a circle of waits form? |
| `delivery_reload` | 2 deliveries for any of 2 dates or everything, 1 table, a rewrite of one partition, every fault | Does a reader see atomic reloads only? Does a delivery end? |
| `delivery_blocked` (violation) | the two tables, no fault, no rewrite | "never blocks the remaining tables from loading" |

Why the bounds are enough. Runs for a day interact only through single objects
and the marker, and every race the code has is between two: one that has
published and one that overwrites, rolls back or reads. Three types give a first,
a middle and a last upload; two of them share an item, so the deduplication has a
choice. Three tables are one in which every item has a row, one for which only
some have, one for which none has. In `ingestion_paged` an item lies at an edge of
one type's windows but not of the other's, and a window has one item more than is
served; two pages fill a query. Durations of 300 s (the Lambdas' limit) and
beyond `TimeoutSeconds` are what uses up the execution's time. The notification
answers early (it returns, raises or meets an error of AWS), at its own limit of 30 s, or
never, at each of its three attempts. The short duration of
`pipeline_cut_off` gives the branches of the Parallel state different ends.
For Delivery, two transactions meet in one table and date at most, and what
one of them can find there was left by a third that has ended: the rows
`Earlier` put, of either version or none. The second version has one row more
than the first, so that a mixture is possible and an insert may be refused at the first
or at a later record; the theorems below lift the number of deliveries,
tables, dates and versions. `delivery_tables` starts from a Gold in
which all partitions have the same version, to which a rewrite adds the other cases.

For `x_to_gold` the bounds cut what cannot be had in one instance. Markers and
first files are uploaded before anything runs, and a file again while
normalization_x runs. A second normalization is never combined with an analytics:
analytics only reads Silver, so what two writers do to each other is seen without it.
The faults of analytics come only in runs that began after normalization_x had done
every day; there the value of a metric is settled and two analytics overlap in
Gold. At most one fault (`MaxFaults`); the theorems have no such bound. The tables
posts and users feed the metrics, hashtags stands for those which may become empty.
The metrics are one split by platform and date each for posts and users, one without
date, and the one that reads again; the karma ranking and those of jobs and
stories are the same operator as the ranking of followers and
are not in the instance. The users are one with two spellings on two days, one twice on
a day, one with an account older than the tweets, and one row without a name.
Each property has a mutant of the code that its run refutes.

`CHECK_DEADLOCK FALSE` is set because the systems really stop: an execution ends
and every invocation may have ended.

### Fairness

`Ingestion!FairSpec`: weak fairness of the steps a running invocation takes by
itself, not of `Begin` (nobody must start it) and not of `Kill`. Justified because every call
in it has a time limit (`requests` timeout, botocore's default timeouts) and the
Lambda is stopped at 300 s at the latest. `Pipeline!FairSpec`: weak fairness of
`Advance`, Step Functions' own timers; nothing is assumed of Midnight or of
strays, and neither of Discord nor of a Lambda, which may always fail.
`PagedIngestion!FairSpec` is that of `Ingestion` for the smaller steps; nothing is
assumed of the search API, which may answer 429 for ever: the Lambda has no
time for more than `MaxWaits` sleeps. `Delivery!Fairness`: weak fairness of the steps a running delivery takes by itself,
`TimesOut` among them, since no call of the driver is silent for longer than the
socket timeout of 10 s. Nothing is assumed of `Connect`, of the faults, of Gold
or of `ServerAborts`: the server may take any time to notice a dead client.

### What the violations show

1. `rollback` cannot work as deployed: the ingestion role has no `s3:DeleteObject`.
2. A day is published without the items created in the first second of a window
   (midnight included) or in its last second, although nothing failed: both bounds of a query are
   excluded and the next window begins where the last one ended.
3. A second normalization of an unchanged day can change `post_type`, since the
   files are merged in the order the reads complete.
4. The limit of the execution ends it in no state, so nothing is announced.
5. A delivery that waits for another one's locks for 10 s ends there: `rollback`
   raises on the connection the timeout broke, and the remaining tables are not tried.

More that the models show without a run of their own:

- If the rollback could delete, a failed re-run would delete files of a published
  day and leave `_SUCCESS`: fixing the role alone would bring this out.
- A failed page request publishes a partial day, with an error in the log:
  `fetch_page` answers `{}`. `LossIsLogged` is what remains to be said.
- A normalization of Hacker News whose `get_object` fails for one type takes the file for
  an absent one and reports success (`Readable`): part of a marked day is in Silver, against
  README.md:188 of the repository. The runs of `HNDay` leave this fault out; `CoveredDayInSilver`
  says that without it, failed pages and deletes nothing that the windows cover is missing.
- When the file of a day has nothing more for some table (no hashtags, say), a re-run leaves
  the object of the old one there, since `put_parquet` returns before the put (`PutNothing`,
  `XPutNothing`), though silver_common.py:285 speaks of overwriting; and a metric without rows
  keeps its Gold partition (`ComputeEmpty`).
- A full refresh whose read of a table fails truncates nothing: the read error becomes an
  empty table, for which `load_table` returns first. The old rows stay, the table is reported
  as loaded with 0 rows, and nothing is in `errors`; lambda_function.py:24 says that every
  table is truncated, the comment at 229 that what is there is left.
- A write that fails between the delete and the put leaves an empty Gold
  partition until the next run, while the Lambda returns normally
  (`NothingVanishes` names these partitions).
- Two overlapping analytics may leave two files in one partition
  (`RerunReplaces` says that only they can), and the primary key of the
  delivered table then refuses the date.
- `total_users` of a day is not recomputed when an earlier day is filled in later.

## The proofs

A theorem marked * keeps what can be kept of a claim of the repository that a run above
refutes or that fails in an environment the runs allow: it says what the claim takes, and so
what is missing.

`IngestionProofs` proves, for every number of runs and types and any items:

| Theorem | Assumes | Property |
|---|---|---|
| `IngestionTypes` | - | `TypeOK` |
| `MarkerLast` | - | `MarkerComesLast` |
| `OnlyRollback` | - | `OnlyRollbackUnpublishes` |
| `DeployedKeepsPublished` | no deletes | `PublishedFilesPresent` |
| `RollbackLeavesOne` | deletes work | `OnlyUnackedPutSurvives` |
| `RollbackIsComplete` * | deletes work, no lost response | `FailedRunLeavesNothing` |
| `PublishedCovered` | no deletes, every page answered | `PublishedHoldsCovered`: a published day has all that the windows cover |

`PagedIngestionProofs` proves, for any windows, page sizes, hits served, items, runs
and faults:

| Theorem | Assumes | Property |
|---|---|---|
| `PagedTypes` | - | `TypeOK` |
| `EachItemOnce` | - | `NothingTwice` |
| `PagesImplementIngestion` | - | `ImplementsIngestion` |
| `PagedKeepsPublished` | no deletes | `PublishedFilesPresent` |
| `LossLogged` | - | `LossIsLogged` |
| `PagedPublishesCovered` | no deletes, every page answered | `PublishedHoldsCovered` of Ingestion, with the windows in the model |
| `PublishesWhatFits` * | no deletes, every page answered, `WindowsFit` | a published day has every item of the day |
| `CollectsWhatFits` * | every page answered, `WindowsFit` | `CollectsTheDay` |

`HNDayProofs` proves, for any number of ingestions, normalizations, types, items and tables:

| Theorem | Assumes | Property |
|---|---|---|
| `ImplementsBronze` | - | `HNDay` is a behaviour of `Ingestion` |
| `HNDayTypes` | - | `TypeOK` |
| `NoPartialDay` | - | `NoPartialSilver` |
| `TablesOfADayAgree` | - | `TablesAgree` |
| `ReadsPromised` | no deletes, no failed read | `ReadsWhatWasPromised` |
| `CoveredDayInSilver` * | no deletes, every page answered, no failed read | `SilverNeverPartial`: after every success, every table has the rows of all that the windows cover |
| `RerunsAgree` * | the same, and no item listed under two types | `RerunOverwritesTheSame` |

`XToGoldProofs` and `GoldTruthProofs` prove, for any invocations of both Lambdas, any
days, files, uploads and metrics, and every fault any number of times:

| Theorem | Assumes | Property |
|---|---|---|
| `SilverNotClobbered` | - | `NothingClobbered` |
| `ProcessedWhole` | - | `ProcessedDayIsWhole` |
| `GoldNeverJustEmptied` | - | `NothingVanishes` |
| `GoldReplaced` | - | `RerunReplaces` |
| `GoldSummaryTrue` | - | `SummaryIsTrue` |
| `TypeCorrect` | - | `TypeOK` |
| `GoldTrue` | - | `GoldIsTrue` |

`PipelineProofs` proves, for all limits, retries, waits, durations and calendars:

| Theorem | Assumes | Property |
|---|---|---|
| `PipelineTypes` | - | `TypeOK` |
| `OneDayThroughout` | - | `OneDay` |
| `StepsRunAlone` | `OwnLimitsFirst` | `OnlyACancelledBranchRunsOn` |
| `LimitsSuffice` | `LimitsFit` | `OnlyRetriesCutOff` |
| `FailuresWithoutRetriesRoute` * | `LimitsFit` | `FailuresRouteToNotify`, of the steps before which there was no AWS-side error |

The proof modules of Delivery prove, for any number of deliveries, tables, dates
and versions, every fault and any rewriting of Gold:

| Theorem | Assumes | Property |
|---|---|---|
| `DeliveryTypes` | - | `TypeOK` |
| `ReportTrue` | - | `ReportIsTrue` |
| `LoadedTrue` | - | `LoadedAsReported` |
| `OneVersion` | `VersionsOverlap` | `OneVersionShown` |
| `Reloads` | `VersionsOverlap` | `ReloadsAtomically`, the refinement of `AtomicReload` |
| `NoCircle` | `FirstRankInAll` | `NoDeadlock` |
| `ReturnedTriedAll` * | - | a delivery that returns has tried every table |
| `AloneTriesAll` * | one delivery, no lost connection | `RemainingTablesTried` |

`VersionsOverlap` (any two versions of a partition have a key in common) and
`FirstRankInAll` (the same one, and the least of each) hold for the tables whose key ends in a rank, which
begins at 1 in every version; `MCDelivery` has TLC evaluate both for its
instance. They are needed: it is the primary key, not the `DELETE`, that keeps
two versions apart, and only where they clash; and only because all begin with
the same key do two deliveries of a date meet at their first record. The tables keyed by platform, post type or table name
meet the first as long as two versions have a name in common; of waits on them nothing
is claimed.

The two named conditions of Pipeline are what the numbers of two files must satisfy;
`MCPipeline` has TLC evaluate them for the deployed ones (1635 s of 1800 s). The
theorems also assume the named assumption about the constants of each module
(`IngestionAssumption`, `PagedAssumption` and so on), which the runs evaluate.

The argument for Ingestion: none of the properties is inductive, because each speaks of
the time after the marker, and what makes it true was done before. `LoopInv`
says what the loop has established at its head: `written_keys` is what was found
so far. `MarkerInv`: after the marker only an end or a rollback follows.
`KeptInv` carries "my uploads are there, or some rollback has passed over them"
from each upload to the marker; another run's overwrite keeps it, and only a
`RollbackKey` weakens it. `OwnInv` says whose objects can be in the
partition: those in `written_keys` and the one in doubt. `RunsMissNothing` and
`ObjectsMissNothing` say the same of the contents (`NothingMissedInvariance`).

For PagedIngestion: `Turn(t, start, p)` is the set of covered items whose turn has come
when the loop stands at page `p` of the window that begins at `start`. That a page
adds to it exactly what the API returns, the end of a window nothing, and that at
the end of the day it is all of `Covered`, is arithmetic of quotients and
ranks (`Windows`, `TurnPage`, `TurnLast`, `TurnAll`). `FetchedInv` says that what is
held are items whose turn has come, all of them unless the type is in `logged`, and none
twice. So `Collected` is `Fetch` of `Ingestion`, and every other step of the loop a
stutter (`StepIsCoarse`); `PagedKeepsPublished` is the theorem about `Ingestion`, instantiated. `LossInv`
carries "whole or logged" from what is held to the file, and from a type without hits to
the marker. Where `WindowsFit` (no item at an edge or in the last second, no window with
more items than are served), what the windows cover is what is listed
(`CoveredIsListed`), so `NothingMissedInvariance` of Ingestion gives `CollectsTheDay`, and `PublishedCovered` gives `PublishesWhatFits`.

For HNDay: `ImplementsBronze` makes the invariants of Ingestion available. `Phases` says
what a normalization has by the time it is where it is; `Provenance`, that an object
in Silver has the rows some normalization made of what it merged; `Written`, that a
table that one is done with, and has rows for, is not absent. So if all have merged the
same, or there is only one, every table has the rows of that.
`Promised` carries "a file for every type the run behind the marker had found" through the
reads; it needs that a published file stays and is not empty, which are
`DeployedKeepsPublished` and `NeverEmpty`. `AllPublished` says that under the marker every
file reads as what the windows cover, from `PublishedCovered` and `NothingMissedInvariance`; `AllRead`, that so does what a
normalization has read, which meets the condition of `NoPartialSilver`.
`KindsRead` says that a row's `post_type` is a type its item was read under: with one type
per item nothing is left for the order of the reads to decide (`SameRows`).

For XToGold: on the Silver side `SilverPhases` ties place, current day and what was
read together; `WholeBehind` says that the tables a normalization has gone past are as its
upload makes them as long as no other upload was read for that key, and a put
for another key leaves them alone since keys name day and source. On the Gold side
`GoldPhases` says which partitions are still to be replaced and that no other is; `EmptiedSince`,
that a partition which a run has emptied has only files of runs that were not over when it
began, so the file put beside them comes from an overlap; `Reported`, that
what is written, reported or not yet, is there, or a run that overlapped has
put or emptied since.

For `GoldIsTrue`, two invariants say that nothing is lost in memory: `Held`, that an invocation has what its
reads and counts returned and that what it read was uploaded, and `Done`, that a metric
behind it which did not fail has a value the code may compute from these reads. The rest is about a single
state. Of the rows with one primary key a read keeps one and one only
(`ReadOne`), for which there must be finitely many (`TableDomain`, `PlacesFinite`). When Silver is what the
files make of it, the posts read are the rows of the files, each id once
(`PostsRead`), and the users read have, one for each, the row of the last entry of
their history (`UsersRead`; here `OneSpelling` is needed). `FirstSeen` then has a date for
the users with a known date and no others, and it is the first of their dates (`SeenAre`). So as many are
known by a day as were seen by it (`KnownBySeen`), which `UsersTrue` turns into total and new; `PostsTrue`
counts the posts by type, and `FollowersTrue` compares the ranking with the histories.

For Pipeline: `Shape` ties the attempts to the state (those under way are the
state's tasks, and one of them is still to be heard of). `DayInv` says what was
given to the steps behind and under way. `TimeInv` bounds when each is
heard of: without AWS-side errors the tasks of the k-th step by k task limits,
the n-th retry of the notification by four of them, its own attempts and the
waits. `LimitsFit` keeps the last bound below the limit of the execution. So
without such an error there is no `TimedOut`, and `PipelineFailed` is entered from
`NotifyFailure` only (`FailedFromNotify`).
Each invariant is preserved by every action, one step per action.

For Delivery: `OneVersionShown` is not inductive, since a commit depends on what the
transaction did before. `TxInv` ties the place in the code to the locks and the
records held. `BatchInv`: what was read is one whole version per partition.
`DelsInv`: what is deleted is the whole table or one whole version, or
nothing, if the version was replaced while the `DELETE` waited. `InsInv`: nothing
inserted has the key of a committed row left standing. `RivalInv`: transactions
on one table hold no common key, and a `TRUNCATE` shares no table. At a commit
(`DeletedAll`) a transaction that deleted nothing while the date shows rows
would have inserted a key of theirs, against `InsInv`; so what it
deleted is all that was shown, and its batch replaces it. A step of one
delivery changes nothing of another (`StepsAreLocal`), and as long as the
database stays, only the invariants of that delivery are in question (`Frame`).

The refinement uses the same invariants: a commit under a row lock is
`ReloadDay`, one after a `TRUNCATE` is `ReloadAll`, an empty one is a stutter, `Connect`
is `Request`, and every other step leaves what a reader sees. `ReportInv` says that a
delivery has rows only in the tables behind it in the loop, or in the one whose
`COMMIT` it ended on; `errors` has none of these. For `LoadedAsReported`, `Inserted` says that what is
inserted was read, and all of it when the commit comes: of the steps that go on to the next table, only a commit
leaves it out of `errors`. For `NoDeadlock`,
`InOrder` says that a transaction has inserted the first records of its batch, so that
all who hold rows of one date would hold its first rank: one at most does
(`OneHolder`), and it waits for nobody. `TriedInv` says that the tables behind a delivery are in its
report and that it comes to `close` at the end of the loop; what keeps it from there is a
lost connection or another delivery's lock, and a delivery that is alone meets neither
(`AloneNeverRaises`).

Only model-checked: liveness (`RunsEnd` of both ingestion modules, `FailureEnds`,
`DeliveriesEnd`), which is beyond the prover, and the five properties that the violations refute, of which
the theorems marked * state what can be proved. Every invariant, action property and
refinement that a passing run checks is a theorem as well. No proof needs induction over
data: the modules state tables, orders and counts by sets and choices, where the code
has loops, and what the choices return follows from the finiteness of what they choose from.

## Not modelled

- Liveness of normalization_x and analytics: each loops over finite lists, under
  its time limit.
- normalization_x: a malformed `prefix` in the event, for which it falls back on today's
  date. The CSV parsing of fields. Two spellings of one name within one file are modelled,
  but what a reader of `users` then sees is claimed by no property.
- Gold: deleting the objects of one partition is a single step, and so is writing a
  partition's file; awswrangler does both in several requests.
- In Delivery: the first creation of the tables (two concurrent `CREATE TABLE`s),
  the casts of values, and PostgreSQL's own deadlock detection, which would
  end one of two waiting deliveries like any refused statement. The two files of a
  date split by platform are one partition there.
- Hits of a window beyond those the search API serves: `Covered` leaves them out; the
  code warns of them.
- Text processing, ids, HTML, message formatting: data the properties do not
  tell apart.
- Alarms, networking, dashboards, bucket life cycle: configuration of managed services.
- Vendored packages under `src/layers`, except `silver_common.py`. Measured in lines,
  they are nearly all of the C and C++ of the repository: the headers of pyarrow
  and numpy, which nothing of the pipeline's own includes or compiles.
  The pipeline is written in Python, HCL and one JSON state machine, and it is these
  that the map names; a share of C and C++ lines says nothing about it.

## Plan

Done: `Ingestion` and `PagedIngestion`, `NormalizationHN` and `HNDay`, `NormalizationX`,
`Gold` and `XToGold`, `Pipeline`, `Delivery` with `AtomicReload`, and the proofs
listed above.

Left, in this order:

1. An analytics that rewrites Gold beside `Delivery` in place of `GoldDelete` and `GoldPut`:
   that `Gold` implements the rewriting `Delivery` assumes, as a refinement.
2. The platform split in `Delivery`: a date of a table as two partitions of Gold, so
   that a reader may see one of before a rewrite and one of after it.
3. The first creation of the PostgreSQL tables by two deliveries at once.
4. `Pipeline` with `Ingestion` and the normalizations in place of its black boxes.
