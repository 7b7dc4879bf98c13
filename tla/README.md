# TLA+ models of Forgepost

Forgepost is a self-hosted blog engine: one Rust process, one SQLite database, one owner.
Its own idea is that an article is a list of blocks with stable identities, so that every
block can be measured and put to an A/B test that concludes itself. These models are about
that idea first: the life of an experiment, the evidence it collects, the arithmetic that
decides it, the saving of the article it runs on, and its way to the readers. Then about what
the rest stands on: accounts and comments, media and backups, the Markdown in which articles
are edited and imported, and the figures that the owner is shown. Paths below are relative to
`src/`.

## The system

All handlers run as async tasks of one process and meet only in the database
(`crates/infrastructure/src/sqlite.rs`, a pool of connections in WAL mode) and in the maps of
the rate limiters. Between two queries a handler awaits, and any other handler may run; a
transaction is one step. That makes the step of the models: one statement or one transaction.
The command line tool that makes and restores backups is a process of its own, with files for
steps.

| component | state it keeps | operations | interacts with | model |
|---|---|---|---|---|
| Experiment life cycle (`application/src/experiments.rs`, `services/experiment.rs`) | tables `experiments`, `experiment_variants`, `experiment_decisions`; block pointers | create, start, stop, decide, promote, no-winner | reads counts from measurement, asks the engine, repoints blocks of articles | `Experiments`, `DecisionRecord` |
| Background auto-decider (`application/src/worker.rs`) | the list of experiments of a tick, in memory | tick, decide each | calls decide like an admin | `Experiments` |
| Decision engine (`experiments/src/lib.rs`) | none | analyze, decide | called with counts | `Engine` |
| Experiment measurement (`tracker.js`, `routes.rs`, `experiments.rs`, `sqlite.rs`) | table `analytics_events` | render with a variant, check and insert an event, count | assignment is a hash of the visitor cookie | `Measurement` |
| Article saving (`services/document.rs`, `content/src/diff.rs`, `sqlite.rs`) | tables `blocks`, `block_versions` | load, merge, park and write | a video provider is called between load and write | `Saving` |
| Documents, slugs, publishing | table `documents`, tags | create, rename, publish, delete, import | saving, search | `Publishing` |
| Search index | FTS5 tables `document_search`, `search_rows` | refresh, rebuild, back-fill | after every write of an article | `Publishing` |
| Accounts, sessions, rate limits (`services/auth.rs`, `analytics/src/lib.rs`) | tables `users`, `sessions`, `settings`; maps in memory | setup, login, logout, limit | every request of the owner | `Accounts` |
| Comments (`services/comment.rs`) | table `comments` | post, approve | the limit, the switch in the settings, deletion of articles | `Accounts` |
| Site settings | table `settings` | read, write | comments, setup | `Accounts`, in part |
| Media store (`filesystem.rs`, `pages.rs`) | files, table `media` | upload | backups, imports | `Backup`, `Import` |
| Backup and restore (`services/backup.rs`, `infrastructure/src/backup.rs`) | an archive; rollback files | create, verify, restore | the whole database and the media files | `Backup` |
| Markdown (`content/src/markdown.rs`, `pages.rs`) | none | parse, write out | each save of an article | `Markdown` |
| Import of posts (`filesystem.rs`, `pages.rs`) | none of its own | scan, upload, rewrite, create the draft | media, documents | `Import` |
| Dashboards (`services/analytics.rs`, `analytics/src/lib.rs`, `sqlite.rs`) | none: queries of `analytics_events` | statistics page, dashboard | events of readers, edits | `Dashboards` |
| oEmbed resolver | none | a network call | a save awaits it | no |
| Server, pages, command line | none of its own | routing, templates, TLS | calls the services | no |

### What is hard

* A decision is three awaits long: load, analyse, record. Worker and admins run it at the
  same time, on an experiment that may be stopped or deleted in between. The process may die.
* A decision writes three tables: the log, the experiment, the block.
* Events are best effort: lost, repeated, overtaking each other, sent under a cookie that has
  changed since, arriving after the experiment has closed. Everything shown is counted from them.
* The stopping rules look at the data again with every tick, over counts that may be zero,
  and subtract unsigned integers.
* A save is a read, a network call and a write. Tabs, promotions and deletions come between,
  and the write moves rows through a unique index that SQLite checks row by row.
* Rows of dropped blocks stay in the table for ever, so each save meets the leavings of all
  the saves before it.
* The search index follows its article in another transaction.
* A password is hashed between the check and the claim of a setup, and between the check and
  the count of a login. A comment looks its article up before it is inserted.
* A backup reads schema, database and files one after the other while the server writes them; a
  restore replaces files, then a write-ahead log, then a database, and may die after each.
* The editor shows blocks as Markdown and parses it again with each save: what does not survive
  the way there and back ends experiments without an edit. Two more scanners, of an import, have
  to agree on what an image is.

`PROJECT.json` lists each of these hazards at its line, with the properties that watch it.

### What makes each component correct

* Experiments: decided at most once; the row, the log and the block agree; at most one runs
  on a block; a variant becomes canonical only by a recorded decision; an overdue one ends.
* Engine: the series is the exact probability; the deadline always ends the experiment; the
  promoted variant is the best and better than the control.
* Measurement: no visitor counts for two variants; a decision rests on events that stay.
* Saving: readers see one save, not a mixture; positions are contiguous; pointers resolve;
  a block keeps its kind; and an article can always be saved again (it cannot, see below).
* Publishing: a published address stays; a search finds what is public only; the index shows
  what the article shows once the writers are done, unless one of them failed.
* Accounts: one owner, from the claim on; a bounded number of failed logins in a window; no
  comment without its article.
* Backup: nothing committed is lost; every row has its file; a restore yields the archive, and a
  backup is worth restoring.
* Markdown: a parse ends, drops and doubles nothing, and undoes the writing out.
* Import: it ends, changes addresses only, and its two scanners agree if front matter leaves nothing open.
* Dashboards: figures that are shown together do not contradict each other.

## The modules

### Experiments

One action per operation of `ExperimentRepo` that the program calls. `status`, `decision`,
`winner`, `subject` and `control` are the columns of `experiments`, `arms` the versions of the
non-control rows of `experiment_variants`, `log` the rows of `experiment_decisions`, `current`
the column `blocks.current_version_id`, `versions` the pool `block_versions`. A decision in
flight is a record in `tasks`. `LoadExperiment` is the query and its check of the status,
`Analyse` the counts and the verdict, `Conclude` the transaction with its latch on the status.
The verdict is open: any that the engine can come to. `todo` is the rest of the worker's tick.

A save of an article is here what it does to one block: `SaveBlock` gives it a new version, or
writes back a version it once showed, which is what a save does that loaded the article early.
Deleting a document removes it from `documents`; the predicates `Alive` and `Exists` are the
cascade. `Restart` forgets everything that is not in a table. `SkipFailed` is a failed call of
the worker, `Abandon` one of a request. `promote_block_version` has no caller and is left out.

### DecisionRecord

What an admin is promised, without handlers: an experiment is opened, runs, and ends at most
once in a verdict, and verdict, closing and promotion are one step. `ImplementsDecisionRecord`
is the refinement, with a deleted document mapped to a closed experiment.

### Engine

`prob_beta_lt`, `analyze` and `decide` as exact arithmetic, for any counts: a probability is an
integer number of parts of `Scale`, a common denominator of all the terms that one decision adds
up. Each term has a denominator `m * choose(m - 1, k)`, which divides the least common multiple of
1..m; `Scale` is that of 1..m for the largest m (`ScaleIsExact` tries this for m up to 12). The
module has no variables, and `MCEngine` instantiates it with a variable for `MinSample`, so that
one run has a minimum of none, one and two. The code adds the same terms as floating point numbers in log space; rounding is
not modelled, nor the credible intervals, which are only displayed. The u64 subtraction that
may wrap is modelled as the probability 0 or 1, the two ends of what it may produce.

### Measurement

One experiment with its readers. `readers` are the browsers that show the article, `checked`
the requests that passed `record_event`'s checks and have not reached the insertion, `rows` the
table. `CheckEvent` takes the page of one visitor and the cookie of another, which is a cookie
that changed after the page was rendered. The counts and verdicts are computed from `rows` by
`Engine`. `ImplementsExperiments` is the refinement of `Experiments` with one of everything: the
engine fed with real counts stays within the verdicts `Experiments` leaves open. So the chain is
`Measurement` to `Experiments` to `DecisionRecord`, and both of its links are proved.

### Saving

One document. A block is its index in `rows`, in rowid order, which matters because SQLite
updates in that order; a row is never removed while its document exists. `Load` is the queries
of `get_document`, one for the blocks and one for the versions (the first, on the document, is
taken together with the blocks: a document deleted between the two has no blocks and its save
fails). `Merge` and `LcsMatches` are `content/src/diff.rs`. `SaveDraft` is the merge and the one
transaction of `save_document_blocks`: versions are immutable, so it does not matter that the
code compares contents a little earlier. `Collides` says whether an `UPDATE` of some rows runs
into the unique index: a row moves to a position that another row holds or has yet to leave. When
it does, or when the document is gone, the transaction is rolled back. `intended` is a history
variable: the draft of the last save that succeeded, with the variants promoted since.

The tag, title and slug writes of the same handlers are other tables and other properties, and
belong to `Publishing`.

### Publishing

The rows of `documents` and of the search index, for several documents. A request is a record in
`writers`: the transactions it has yet to commit, in the order of the handler. `EditorSteps`,
`ApiSteps`, `CreateSteps`, `ImportSteps` and `PublishSteps` are those lists, fixed when the request
loads its document, so a step may meet a document that another request has published or deleted.
`TakeStep` commits the next one, `Fail` drops the rest, as an error or a closed connection does.
`text` is all there is to find of a document (title, body, tags) and `index` what the index has of
it; both `document_search` and `search_rows` are `index`, as they change together. `Promote` is
what `conclude_experiment` does to the text. `StartUp`, `RebuildEntry` and `Serve` are
`backfill_search_index` before the server listens, `Crash` the end of the process; `Init` has the
databases that are older than the index. A refresh, like the choice of a slug, reads and writes in one
transaction, and SQLite refuses the write if another connection has committed in between, so each
is one step that happens or fails. A request to save the blocks of a document that was deleted
fails on its foreign key; the model lets it fail or go on to refresh nothing.
`lost` and `promoted` are history variables: what a failure and what a promotion left behind.

### Accounts

A request in flight is a record in `requests`: the step it is about to take, and what it has
learnt. `claimed` is the setting `setup.complete`, `users` and `sessions` the tables, `logins` and
`posts` the maps of two `RateLimiter`s, `comments` the two columns that matter. Times are not
numbers: a window may be over and a session may expire at any moment, which is all that a clock can
do to them. `BeginLogin` is `try_login` up to the query of the user, with the `peek`; `FailLogin`
the `record`, which follows whatever goes wrong from there on. A comment is `BeginComment` (the
limit), `CheckEnabled`, `FindArticle`, `InsertComment`. `Drop` is a failed call or a client that
hangs up, `Restart` loses requests and windows. `failures` is a history variable: what the
limiter would count if it did not saturate.

### Backup

Two processes. The server's part are uploads: `BeginUpload` creates the file, `FinishFile` completes
it, `Record` commits its row. The tool's `step` is where `create_inner` or `restore` is. The rows of
`media` stand for all that is committed; `main` and `wal` are the two files a row may be in, and
`Checkpoint` may move them at any time. `draft` is what a backup has collected, `archive` the
file. `Exit` ends the tool wherever it is, `Upgrade` installs a program with a newer schema, and the
next process that opens the database migrates it. `LoseMachine` leaves the archive only. A restore
needs the server stopped, as README.md:316 asks. `committed` and `overwritten` are history.

### Markdown

One article through parse, write and parse. A line is a kind, which is what the parser's questions
can tell apart, and a word, which tells lines of a kind apart. One action for each branch of the
outer loop of `parse_markdown`, one step for each turn; `RunEnd` is an inner loop. `Written` is
`blocks_to_markdown`, kind by kind. Kinds are lines with an answer of their own: "hyphens" is the
item that `---` is read as below another item, "bang" begins like an image and is none, "info" is a
fence with a language, "bracketed" and "foreign" are tags with values that the writer or the parser
does not keep. Tags that span lines, and markup within a line, are left out. `ParserInit`, `ParserNext`
and `ParserSpec` have names of their own so that one module can extend both this one and `Import`.

### Import

The handler of an import from the file to the draft. A text is a sequence of tokens, the brackets
the scanners search for and words; `OpenAt`, `CloseAt` and `EndAt` are the calls of `find`.
`ScanLabel`, `ScanImage` and `EndScan` are `for_each_image_ref` under `scan_local_images`;
`RewriteOpen` to `EndRewrite` the branches of `rewrite_image_refs`. Between them `WriteFile` and
`InsertRow` store each image; `Call` makes the next of the five calls that create the draft.
`Fail` ends the handler before any call and leaves what was done.

In an archive the first scanner reads the front matter too, which is stripped before the second one
begins (`pages.rs:2203`, `:2218`). Any number of the pieces of a text, broken ones among them, are
between the `Dashes` in `front`. A label or a reference that begins there and is left open takes its
end from the body, and the scanners part: `FrontIsClosed` excludes this, and nothing else, from the
first claim of `ScannersAgree`, and only from that one.

### Dashboards

Articles, their visible blocks, and the events of page loads in `rows`, of which any may never
come. `StatsQuery` and `BoardQuery` are one SQL statement each, `request` what the handler has read
so far; readers, the author and time go on between them. `BandReach`, `RecentViews` and `Lifetime` are
the statements, `BandFor` and `EstimatedReach` what `analytics/src/lib.rs` makes of them, `Nudged`
the choice of the article to nudge about. A view has an age, this week, the week before or older,
which `PassWeek` adds to. Deleting an article leaves its events without one, and the queries skip them.

## The runs

| run | question | instance | result |
|---|---|---|---|
| experiments | do racing decisions, stops, deletions, saves and a restart keep log, status and block together? | two blocks, two experiments, four versions, a request, the worker, one failure | holds |
| experiments_live | is an overdue experiment concluded? | one block, two experiments, three versions, a request, the worker, one failure | holds |
| engine | is the series exact, and is the promoted variant the best? | a control and two variants, up to four impressions each, a minimum of 0, 1 or 2 | holds |
| measurement | are samples disjoint and decisions founded, and does the deadline end an experiment? | a control and two variants, a visitor each | holds |
| saving | do readers see one save at a time, with pointers that resolve? | two tabs, two kinds, two contents, three block rows, three versions | holds |
| saving_stuck | can an article always be saved again? | one tab | violated |
| publishing | does a published address stay, and does the index follow its articles? | two documents, two requests, two titles, two texts | holds |
| accounts | is there one owner, a bound on failed logins, and an article to each comment? | two people, one address, two requests, two tokens, an article, a comment | holds |
| backup | is anything lost, by a crash, a restore, a new machine or a migration? | two uploads, two schemas, one archive | holds |
| markdown | does each parse end, and does a save without an edit keep every block? | all articles of up to four lines of twenty kinds | holds |
| import | do the scanners end, do they agree on text behind closed front matter, and is the text kept? | all texts of up to three pieces, cut into front matter and body at any place; two images, a file that is none, a remote address | holds |
| dashboards | do the figures of a page fit together? | two articles, three page loads, two bands, three events | holds |

### Why the bounds are enough

* Two experiments are what the one-running index is about, and two blocks tell a promotion of
  the right block from one of the wrong block. A decision involves two handlers at most, since
  only the latch relates them: one request and the worker race. Four versions are a control for
  each block and a variant for each experiment, or edits in place of variants. `MaxFailures = 1`:
  a restart puts the system back to a state with no handlers, so a second adds nothing. The
  theorems below need none of these bounds.
* The runs of `Experiments` cover every status, every operation and every verdict. Liveness is
  checked without symmetry.
* Samples of up to four visitors in each of three arms, with minimums of 0 (one look, never too
  few), 1 (up to twelve looks) and 2, give every relation between the counts, the minimum and the
  number of looks. With five, the products leave TLC's integers.
* A visitor for each variant and the control, with up to two events between check and insertion,
  is enough for a repeated, an overtaken and a late event and for a changed cookie. With these
  thresholds (a minimum of 1, a confidence of 40 percent) one conversion decides, so decisions
  happen with few events.
* In `Saving` two tabs are the smallest conflict. With three rows and articles of two blocks
  there is a dropped block while the article is full; with three versions there is a variant next
  to the versions of two blocks. Parking is bounded to two generations in `saving` and three in
  `saving_stuck`. `Unit` is 100 in place of 1000000000: only that it exceeds the length of an
  article matters (`UnitAssumption`).
* In `Publishing` two documents compete for a slug and share the rebuild, and two requests are the
  smallest overlap; crashes, failures and promotions are not bounded. One title has two slugs to
  try and the other one, so a draft takes the suffix and a request finds none left.
* In `Accounts` two people and two requests race for the claim; with a limit of two failures and two
  requests there is a failure beyond the limit. A second address or article has a window or a row of
  its own. Restarts, expiry and ends of windows are not bounded.
* In `Backup` two uploads are one before and one after any step of the tool, and two schemas are one
  migration between any two steps. Crashes, backups, restores and new machines are not bounded.
* In `Markdown` every rule looks at a run of lines and at the line after it. Four lines are a block
  between two others, and a fence that closes with a line after it. All orders of all kinds are tried.
* In `Import` a piece is a bracket, a word, a whole reference or a broken one, so three pieces have
  references next to, within and across each other, and the same image twice. One piece
  in the front matter that is left open and a reference in the body already part the scanners.
* In `Dashboards` three page loads are two of one article and one of another, and three events are a
  view, a band and an impression, in any order and with any of them missing. `MinViews` is 1 in
  place of 5: the nudge happens with few events.
* `CHECK_DEADLOCK FALSE`: in the runs of `Saving`, with the document deleted and no save in flight,
  nothing is left to do; a parse and an import end.

### Fairness

* `OverdueIsConcluded` needs `WF_vars(WorkerStep)`: the timer of `BackgroundWorker::spawn` keeps
  ticking, a tick that was started runs on, and a failed call is logged and the next experiment
  visited. The worker is stopped only when the process is. Nothing is assumed of admins, readers and
  authors. Failures are bounded, as a database that always fails decides nothing. A panic in the
  worker task would end it; the model has none, see the hazard at `crates/experiments/src/lib.rs:257`.
* `ParseEnds` needs `WF_parserVars(ParserNext)` of `Markdown` and `ImportEnds` `WF_vars(Work)` of `Import`: a loop
  that has started runs. Both then say that every turn of the loop gets on. `Fail` is not assumed.

## What the violation shows

**saving_stuck** (`sqlite.rs:630`, a bug). Rows are parked in two steps "so the bands stay
disjoint", but the first step is one `UPDATE` over all generations, and SQLite takes the rows
in rowid order and checks the index after each. When two blocks were dropped from the same
place by successive saves, and the one dropped last was inserted first, the younger moves onto
the elder. The transaction fails, and so does every later save of the article. The sequence
[A], [Y, A], [A], [] or [Z] with blocks of different kinds is enough; SQLite 3.40 behaves as modelled.
`SavableOnceParked` says what the two steps do achieve.

## Where code and text disagree

Met while modelling. The models do what the code does, and no run is spent on these.

* A save writes back every pointer as it was loaded, so it undoes a promotion that came between, on
  a block the author left alone (`sqlite.rs:648`; `content/src/diff.rs:10`).
* Promotions are made by `conclude_experiment`, which does not refresh the search index
  (`sqlite.rs:1501`), though "the search index follows" (`sqlite.rs:1438`): `promote_block_version`,
  which does, has no caller.
* Stopping has no condition on the status: a decided experiment that is stopped loses its decision,
  though the log keeps it (`sqlite.rs:1411`). A draft may be stopped too.
* The minimum sample is asked of either arm, not of each (`experiments/src/lib.rs:324`; line 72).
* The control's counts in the decision log are looked up by a version among variants, and are always
  zero (`application/src/experiments.rs:390`; `migrations/0004_experiments.sql:51`).
* A restore overwrites whole media files with what a backup caught half written
  (`services/backup.rs:217`; lines 209 and 210 promise that a failure leaves nothing half restored).
  `MediaResolves` excepts those files by name (`overwritten`).
* A backup that fails its verification is left in place, and every file of the media directory is
  archived (`demo/posts/your-words-your-rules.md:42` and `:48` say deleted, and referenced files only).
  `File::create` truncates the previous archive of that name first.
* A list marker needs no whitespace after it (`content/src/markdown.rs:792` to `:794`), so `---` below a list is
  an item of it.
* The address of an iframe beyond ASCII is garbled anew by each save (`CHANGELOG.md:53` and `:54`).
* The import finds images in the form `![alt](url)` only; a size suffix, a space before the bracket and
  raw tags, which the parser reads, are left as they are. Front matter is scanned for images and not
  rewritten: if it leaves a reference open, as a title `a ![x](y` does, all up to the next `)` is one
  address for the scanner that loads, and an image `![p](pic.png)` below it is not stored although it
  is in the archive (`pages.rs:2203` and `:2218`; `:2143` says that local images are uploaded and
  rewritten). TLC finds this at once if `FrontIsClosed` is left out of `ScannersAgree`. Images named only in the front matter are
  stored and not used. A failed import leaves files, rows and an "Untitled" draft.
* Each click on a share link counts as a page view of its own; the beacon's referrer is the article
  itself, so that every view is direct (`README.md:46`); an article nobody saw for two weeks is not on
  the dashboard; `completion` of an article can exceed 1 when view events are lost.
* "Documents are never hard-deleted" (`migrations/0003_analytics.sql:3`), but `delete_document` does.
* `preview_text` truncates at a byte and panics inside a character (`analytics/src/lib.rs:409`).

## What is proved

Each for every value of the constants, under the assumptions that the module states.

| module | theorem | property |
|---|---|---|
| `ExperimentsProofs` | `TypeCorrect` | `TypeOK` |
| | `AtMostOneDecisionCorrect`, `LogMatchesStatusCorrect` | `AtMostOneDecision`, `LogMatchesStatus` |
| | `OneRunningPerBlockCorrect` | `OneRunningPerBlock` |
| | `OnlyPromotedVariantsAreCanonicalCorrect` | `OnlyPromotedVariantsAreCanonical` |
| | `DecisionIsAtomicCorrect` | log, closing and promotion are one step |
| | `DecisionRecordImplemented` | `ImplementsDecisionRecord` |
| `MeasurementProofs` | `SamplesAreDisjointCorrect`, `EvidenceStaysCorrect` | `SamplesAreDisjoint`, `EvidenceStays` |
| | `OverdueAlwaysEndsCorrect` | `OverdueAlwaysEnds` |
| | `ExperimentsImplemented` | `ImplementsExperiments` |
| `SavingProofs` | `TypeCorrect`, `ReadersSeeWhatWasAsked` | types, `ArticleAsIntended` |
| | `PlacesAreFilled`, `PointersAreOwn` | `PositionsAreContiguous`, `PointersResolve` |
| | `LoadsFitTogether`, `KindsLast` | `SnapshotResolves`, `KindIsForever` |
| | `ParkedOnceIsSavable`, `MergeIsLongest` | `SavableOnceParked`, `MergeKeepsTheMost` |
| `PublishingProofs` | `TypeCorrect`, `SearchIsPublic`, `IndexFollows`, `AddressesLast` | types, `OnlyPublishedAreFound`, `IndexIsOwed`, `PublishedUrlIsStable` |
| `AccountsProofs` | `TypeCorrect`, `OwnerIsUnique`, `LimitHolds`, `CommentsHaveArticles` | types, `OneOwner`, `FailuresAreBounded`, `CommentsResolve` |
| `BackupProofs` | `TypeCorrect`, `CommittedSurvives`, `RowsResolve` | types, `NothingIsLost`, `MediaResolves` |
| | `RestoreIsExact`, `BackupIsRestorable` | `RestoredIsTheArchive`, `CreatedIsRestorable` |
| `DashboardsProofs` | `FunnelIsRight`, `RecentIsWithinLifetime`, `NudgeHasCause` | `FunnelNarrows`, `RecentWithinLifetime`, `NudgeIsDeserved` |
| `TextProofs` | `RewritingKeepsText`, `ScannersAlwaysAgree` | `TextIsKept`, `ScannersAgree` |
| | `NothingIsEverDropped`, `UntouchedSaveAlwaysKeeps` | `NothingIsDropped`, `UntouchedSaveKeeps` |

The arguments.

* `ExperimentsProofs`. `StepCases` sorts all steps into operations on the tables and steps that leave
  the tables alone, so each invariant is checked against seven operations. The decision invariants
  are inductive together (`DecisionInv`): that a decided experiment has its row in the log needs that
  an experiment with a row never runs again, and `RowsAreSound` ties each row to a variant of its
  experiment. `OnlyPromotedVariantsAreCanonical` is not inductive: a variant could leak into another
  block through a shared version. `PoolInv` excludes that: the pools of blocks are disjoint, a block
  shows a version of its own pool, variants belong to one experiment and to the pool of its block,
  and a decision in flight names a variant of the experiment it loaded. The refinement follows step by
  step: `Conclude` with an open latch is the abstract verdict, with a closed one it stutters;
  deletion closes a set of experiments; a save is an abstract edit with a version of its own or with
  one that won.
* `MeasurementProofs`. Events are attributed to the arm their visitor hashes to, in the table and before it
  (`EventsAreAttributed`), so no visitor is in two arms. What a decision read is supported by the table
  when it reads it, and stays so, as rows are only added (`TasksAreSupported`, `InsertKeeps`); its row in
  the log inherits that (`LogIsSupported`). The counts are of distinct visitors, and those are no more
  than rows (`VisitorsAreFewer`).

  What the engine makes of the counts comes next. Its series is a sum of terms of factorials, folds over
  sets and recursive functions. `SolutionExists` says once that such a definition has a solution: take the
  least argument for which there is none. Factorials, binomials and sums are then numbers (`FactorialIs`,
  `ChooseIsPositive`, `SumIsUnique`, `TermIsNumber`), a quotient of positive ones is defined, and so is
  every probability (`OutcomesAreNumbers`). Numbers have a greatest one, the last of those that tie, so
  the best variant exists (`BestIsBest`) and the recommendation is one of three (`RecommendationsAre`):
  its promotion, no winner, or, before the deadline only, to go on. Without these numbers nothing would
  follow, as CHOOSE may return anything if there is no best one.

  The refinement of `Experiments` needs which verdicts may come (`VerdictsAre`) and that a decision in
  flight holds a verdict on the arms of the experiment it loaded (`LifeInv`). `VersionsAssumption` keeps
  the versions of the arms apart from the control's and from none. Then each step of `Measurement` is a
  step of `Experiments` or stutters: events of readers stutter, and a load, an analysis, a conclusion
  and a stop are their namesakes (`ExperimentsImplemented`).
* `SavingProofs`. The table of `lcs_matches` and the walk through it are recursive functions over pairs of
  indices. That they exist (`TableExists`), that the walk returns a pairing in order and by kind of as many
  pairs as the table says (`WalkReturns`), and that no such pairing has more (`MostFrom`: at most one pair
  is in the row or column of a match) come from the cell nearest to the end for which they would fail, as
  `Least` gives a least distance. Hence the merge is a longest one (`MatchesAreMost`), and it
  gives each place of a draft a block of its own (`MergeIs`), the numbers of new rows leave no gap
  (`RankIsNumbering`), and the rows after a save are the draft and parked rows (`RowsAfterIs`). The invariant
  says that places are held once each (`Placed`), that each shows what was asked for (`Shown`), and that what a
  tab loaded is still true of the tables (`SavesAreSound`): rows keep kinds and versions keep contents
  (`Kept`), so an old load is as good as a new one.
* `PublishingProofs`. See the head of the module: what is owed is accounted for writer by writer.
* `AccountsProofs`. `OneOwner` and `CommentsResolve` are inductive with the types. For the limit, each
  request that has seen room is pending; failures plus pending requests of a key never exceed the
  limit less one plus the number of requests (`PendingIsBounded`), and `CountIsExact` relates the
  saturating count to `failures`.
* `BackupProofs`. The invariant follows a row through the copies it may be in: rows are uploaded ones
  (`RowsAreUploaded`), whose files are written (`FilesAreWritten`); draft and archive hold a file for each
  row they hold (`CopiesResolve`), as the snapshot is taken first; what a restore has placed resolves
  (`PlacedResolves`). Versions only grow (`VersionsAreMonotone`), so that a check at the end of a backup
  is about all of it. `CommittedIsKept` follows the rollback, `Quiet` says what a restore excludes, and
  `Swapped` what the last step left.
* `DashboardsProofs`. A figure is right when it is asked for, and the sets that bound it only grow: page
  loads once heard of stay heard of, and so do viewers of an article that is there (`PagesGrow`). A page
  load is counted in one age of views only as it has one view (`OneView`), which the tracker's dedupe key
  gives. The nudge compares two counts of one query: fewer who finished than viewed means a viewer who is
  not among the finished (`NudgeHasCause`). That the greatest and least elements the queries take exist is
  `MaxIs` and `MinIs`, from well-foundedness of the numbers (`Least`) rather than by induction.
* `TextProofs` holds the proofs about `Import` and `Markdown`, which read text by hand and share the lemmas
  on sequences put together from pieces (`ConcatIs`, `FlattenConcat`, `FlattenIsTyped`). They rest on a
  solution of the recursive function behind `FlattenSeq`, found by its first failure (`Least`).

  In `Import` a turn of either loop leads from one position to another (`Turn`), and to one only
  (`TurnIsOne`). `Reach` are the positions that lie in each set which has the first one and is closed under
  turns: a least fixed point without recursion. A loop that is at a reached position, beyond which no earlier
  turn leads (`Passed`), stays so (`WalkOn`), and where there is no turn nothing further is reached
  (`WalkStops`). Hence when the first scanner stops it has loaded each image that is named at a reached
  position (`Complete`), and it has loaded no other (`Sound`). It reads the front matter first: if that is
  closed (`FrontIsClosed`), a turn either stays in it (`StaysInFront`) or is the turn that begins at the body
  (`LeavesFront`, `FrontOrBody`), and behind it the text is as if there were none (`MeetsBehind`). The second scanner takes the same
  turns through the body, so each reference it meets was loaded; where the first one stops it goes on, but in
  a text that lacks a bracket from there to its end (`Dead`), where no reference is complete. That is why the
  branches in which the two differ do no harm. What is written is the text up to the scanner, address for
  address (`Renders`). `WordAssumption` says that words are no brackets and that a file is an image or none,
  `NameAssumption` that media names are new and different, as random UUIDs are (`pages.rs:2228`). That a text
  put together from pieces is a sequence of tokens is `FlattenIsTyped`.

  In `Markdown` a run of lines has one end (`RunIs`), so each action of the parser is one push of blocks
  that are as the parser makes them (`Parsed`, `StepPushes`): a list holds items of one sort, a paragraph
  no line that another rule takes, and so on kind by kind. For `UntouchedSaveKeeps`, a text that was put
  together from pieces has a spot for each (`Spots`, `SpotsExist`), where its lines stand (`Standing`). A
  block as the parser makes it, standing where the editor wrote it, is taken by one action, which is the
  one that made it, and up to its last line, because what follows is a blank line or nothing (`Dispatch`,
  `Rereads`, `Reparse`). The property says nothing before the end. `SaveInv` adds what holds on the way:
  in the first parse that the blocks are parsed ones, in the second that the text is what was written of
  them, that the parser is at the spot of a block or at the blank line before it, and that as many blocks
  were pushed as were passed, each as it was saved. For `NothingIsDropped`, `Listening` says that what the
  blocks say so far is what the lines passed so far say, and that the parser is outside of code, or past
  the end. A fence that opens makes the number of fences odd and the one that ends the run makes it even
  again (`FenceTurns`), and any other block takes lines that say what it says (`Takes`, `TakesAll`). Words of
  an article are small, so that the word of a garbled address is told from one of the article. Both are for
  any set of kinds and any length (`LinesAssumption`). They needed two statements to be made exact. The
  writer looks at the tag of an image block only, so a paragraph that begins with such a tag is written
  as it is (`Written`, `pages.rs:2363`), and `Fragile` excuses image and video blocks and no others.

Model-checked only:

* The liveness properties (`OverdueIsConcluded`, `ParseEnds`, `ImportEnds`), as fairness is beyond the prover.
* `ProbabilityIsExact`: that the series counts shuffles is an identity of sums of binomials for all counts, an
  induction over data. `PromotedVariantIsBest` says that the better chance is the better rate, which rests on
  that identity; its other half, that the promoted variant is the most probable one, is the definition of
  `Best` once the probabilities are known to be numbers, and no theorem of its own. What is proved of the
  engine for all counts is that its verdicts are those the life cycle allows for (`VerdictsAre`), which
  needs of a probability only that it is a number.

## Not modelled

Floating point, the SHA-256 of the assignment (any constant function of the visitor), HTML and inline
markup, the network, hashing of passwords and tokens, authentication of each request outside
`Accounts` (ownership never changes, so a check before a step is part of the step), the recommender
(a ranking of what one query returns), single counts on the dashboards, the oEmbed resolver, export,
and the pages themselves. These keep no state between two steps.

## Plan

1. Done: `Experiments` with `DecisionRecord`; `Engine`; `Measurement`; `Saving`; `Publishing`;
   `Accounts`; `Backup`; `Markdown`; `Import`; `Dashboards`; proofs about all of them.
2. Open: `ProbabilityIsExact`, the one invariant whose proof would have to be an induction over data, and
   with it the second half of `PromotedVariantIsBest`.

The order is by how much of the program's own promise depends on it: what is decided, what is
recorded, what readers see, what they find, and what the owner keeps.
