# Verseau 2: formal model

TLA+ modules of what Verseau 2 does with a *depot* (an XML file of measurements a
depositor hands in), with the reference data the depot is judged against, and
with the session of the people who look at both; the TLC configurations that check
them on small instances; and TLAPS proofs of the properties that matter most.
Paths below are relative to `src/`; `back/` is `apps/back/src/`, `front/` is
`apps/front/src/`.

| file | what it is |
| --- | --- |
| `DepotUpload.tla`, `DepotIntake.tla` | the direct upload (row, bucket, presigned URL, cleanup job), and what it promises |
| `DepotPipeline.tla` | the worker's handlers, pg-boss, and the MASA webhook |
| `BrowserSession.tla` | tabs, cookies, refresh tokens: login, refresh, logout |
| `SchemaSync.tla`, `MigrationLock.tla` | the restore of the reference schemas; the migrations at start |
| `Scenario.tla` | what the parser makes of a file, and the name the delivery inserts into it |
| `Droits.tla` | the rights of a depositor on a file |
| `ControlesV1.tla` | the controls V1: codes looked up while the reference data may change |
| `ControlesV2.tla`, `ControlesPfas.tla` | the controls V2: rules on the values, and on campaigns of PFAS |
| `Referentiel.tla`, `SuiviRegulier.tla` | the queries on the reference data: rights and controls; dashboards |
| `AccesDepot.tla` | who may read a depot: claims of a session, guards, lists |
| `Perimetre.tla` | the plants an intervenant answers for, cached for a minute |
| `Consultation.tla` | a dashboard consulted or exported: guard, service, pages |
| `Tableau.tla` | a dashboard in the browser: filters, fields, answers, export |
| `DepotUpload_proofs.tla`, `DepotPipeline_proofs.tla`, `BrowserSession_proofs.tla`, `SchemaSync_proofs.tla`, `Tableau_proofs.tla` | theorems of the module they are named after |
| `DatabaseJobs_proofs.tla` | theorems of `MigrationLock`, and of the two jobs together |
| `Controles_proofs.tla` | theorems of `Droits`, `AccesDepot`, `ControlesV1`, `ControlesV2`, `ControlesPfas`, as `MCControles` composes them |
| `Consultation_proofs.tla` | theorems of `Perimetre` and `Consultation` |
| `MC*.tla`, `*.cfg` | instances for TLC; `MCReferentiel` is a small reference data and its next dump |
| `PROJECT.json` | components, runs, mutants, source lines, hazards, findings |

## 1. Inventory

The Procfile starts one `web` process (`PROCESS_TYPE=api`) and one `worker`
process. They share a PostgreSQL database (depots, controls, MASA rows, the
pg-boss queues, and the reference schemas) and a bucket. A third process,
`devops/tools/sync-pg`, replaces the reference schemas whenever a new dump is in the
bucket; nobody who reads them is told.

| component | state it keeps | operations | model |
| --- | --- | --- | --- |
| direct upload (`back/dossier/depot/depotUpload.service.ts`) | depot row, two objects, one delayed job | initialize, complete, cleanup | `DepotUpload` |
| worker (`back/worker/`) | depot row, control rows, jobs | eight handlers of a depot's queues | `DepotPipeline` |
| MASA webhook (`back/dossier/masa/`) | one MASA row per depot | processRetourAgentVerseau | `DepotPipeline` |
| depot row (`back/dossier/depot/`) | status, step, path, ... | create, update, lists | partly: columns the others read or write, who may read it |
| queue (`back/infra/queue/`) | pg-boss tables | send, work; retry, expiry | partly: as the two above use it |
| SANDRE client | SANDRE's task, response row | validateFile, getValidationResult | partly: outcomes |
| parser (`packages/parser`) | none | parse, insert the depositor | `Scenario` (the fields the controls read) |
| rights on a file (`back/dossier/depot/droitsDepot.service.ts`) | none | validateDroits | `Droits` |
| controls V1 (`back/dossier/controle/isov1`) | prefetched codes | CTL002, CTL004 to CTL026, CTL035, CTL036 | `ControlesV1` |
| controls V2 (`back/dossier/controle/metierv2`) | prefetched figures | CTL041 to CTL061; PFAS: CTL201 to CTL210 | `ControlesV2`, `ControlesPfas` |
| authentication, browser session (`back/authentication`, `front/services`) | cookies, stored expiry, timer, shared request | login, callback, refresh, logout | `BrowserSession` |
| guards and roles (`back/authentication`, `back/user`) | claims of a session | guards of depots, lists, administration | `AccesDepot`, `Perimetre` |
| migrations at start (`back/infra/database`) | advisory lock, connections of a pool | migrate, idle close | `MigrationLock` |
| restore (`devops/tools/sync-pg`) | three generations of schemas, tracking row, view | restore, swap, view | `SchemaSync` |
| reference data (`back/referentiel`, `back/masa`) | tables of roseau and lanceleau; a cache | queries | `Referentiel`, `SuiviRegulier`, `Perimetre` |
| dashboards (`back/mesures`, `conformite`, ...) | none | page, export | `Consultation` |
| pages of the dashboards (`front/pages`, `front/hooks`) | filters, react-query | edit, search, page, export | `Tableau` |

What makes each correct, and what is hard about it:

- **Upload.** One processing job per confirmed file, the verified file and no
  other, nothing left of the rest. Hard: the bucket takes no part in the
  transaction; a presigned URL outlives the confirmation; three clocks decide
  who is late; requests are repeated.
- **Worker.** No unvalidated file delivered, no depot forgotten, no report
  without its reason. Hard: at-least-once delivery, expiry of a handler that
  runs on, a crash between any two calls, catch blocks that fail in turn.
- **Webhook.** The return is applied once, and applied. Hard: concurrent calls,
  failure between row and job.
- **Browser session.** One refresh ahead of a tab, a refresh token that stays
  usable, no session after a logout, never somebody else's. Hard: timer,
  visibility and 401 at once; tabs that share cookies but not promises; a provider
  that rotates tokens.
- **Migrations, restore.** One migrator at a time; live schemas complete or
  unchanged, and what the tracking row says. Hard: a lock that outlives its
  function, a death between swap and view, overlapping runs.
- **Readers of the reference data.** A verdict, a right, a row of an export is
  explained by some data that was live while it was made. Hard: every one of them is
  several queries, and the restore swaps schemas between any two.
- **Rules.** What one rule leaves out another one says. Hard: texts that are read as
  numbers in two ways, lists of parameters that differ by one.
- **Pages.** What a table shows answers the query of its filters. Hard: filter,
  page, previous rows and answer change in different renders.

`PROJECT.json` lists every component and every hazard at its line.

## 2. Plan

1. `DepotUpload` with `DepotIntake` as its abstract specification: done.
2. `DepotPipeline`, with the eleven statuses of the webhook and the retried SFTP
   transfer: done. Open: an abstract specification of a depot's life (en cours,
   decided, reported) under which the fault-free pipeline is a refinement; the
   client that `infra/sftp/sftp.service.ts` shares between overlapping transfers.
3. `BrowserSession`: done. Open: an abstract session (absent, present) it would
   implement.
4. `SchemaSync`, `MigrationLock`: done.
5. Rules and readers of the reference data: `Scenario`, `Droits`, `ControlesV1`,
   `ControlesV2`, `ControlesPfas`, `Referentiel`, `AccesDepot`, `Perimetre`,
   `SuiviRegulier`, `Consultation`, `Tableau`: done. Open: the queries behind the
   graph of the measures, the administration's search.
6. Proofs: every invariant and action property that a run checks is a theorem
   (section 10). Open: a proof that the queries give what the hypotheses of section 10
   ask of them, and `NomenclatureRead` from a schema of the files.

Theorems are in `_proofs` modules, and no module uses a `RECURSIVE` operator.

## 3. DepotUpload

| variable | code |
| --- | --- |
| `row` | the columns of `depot` these operations read or write |
| `staging`, `final` | objects `uploads/<id>/file.xml` and `depots/<id>/file.xml`, by etag |
| `puts` | PUT requests S3 has accepted and not finished, with the instant of their start |
| `slow` | history: the depots whose object a PUT wrote after more than `Slack` |
| `tx` | the transaction of complete or cleanup that holds the row lock, and its next call |
| `cleanupJob` | the `cleanup_depot_upload` job |
| `processFile` | `process_file` jobs enqueued, by the user they name |
| `reply` | last answer of `POST /depot/:id/upload/complete` |
| `time` | the API's clock, in ticks |

`Initialize` is one step: row, URL and delayed job are one transaction, and the
URL is signed locally. `complete` is `StartComplete` (what the locked row decides),
`HeadStaging`, `CopyToFinal`, `CommitComplete`; `cleanup` is `StartCleanup`,
`DeleteStaging`, `DeleteFinal`, `CommitCleanup`. The bucket may change between any
two of these, and `AbortComplete` and `AbortCleanup` let any call fail or the
process stop: the row rolls back, the bucket does not. `CommitComplete` saves the
row and sends the job at once because both go through the transaction's
connection. A job that fails is `Retried` until its limit.

The worker's and the database's clocks may be ahead of the API's by `ClockSkew`.
Nothing bounds the time of a PUT that S3 accepted: it may end long after the
cleanup, or never. `Slack`, `CleanupDelay - ClockSkew`, is what the five minutes of
`CLEANUP_DELAY_MS` ("to allow uploads already in flight") leave a PUT; one that
takes longer is slow. The lifecycle rule of the bucket (`README.md:148`), which
removes `uploads/` after a day "for the transfers that end very late", is not in the
model, so `NothingLeftBehind` says what is left for it: after a completed cleanup
the staging object and the PUTs under way of a depot are of slow PUTs. When the
clocks disagree as well (`Overtaken`), the worker's may be past the deadline and the
cleanup done while the API still confirms: a slow PUT may then bring the object
back in time, and the rejected depot is confirmed, its file under `depots/`, which
the lifecycle rule does not cover. `RejectedNeverConfirmed`, `NothingLeftBehind` and
the abstract `DepotIntake` (`late`, `ComeLate`) say so, and that it takes both.

Not modelled: the fields of the form, the checks of `initialize` on them, which
of size and type mismatched (`WellFormed` is the set of contents that match),
the lost reply of `initialize`.

## 4. DepotPipeline

The module follows one depot. Two depots share nothing but the order in which the
worker takes their jobs, and every handler reads and writes rows by `depotId`.
`dossier` is the answers the depot's file and user would get (rights,
controls, SANDRE, contact); it is chosen once, since a retried handler asks the
same questions of the same file.

| variable | code |
| --- | --- |
| `depot` | status, step, etapeMetier, the two control statuses, error, rapportPath |
| `recorded` | rows of `controle` (one batch per attempt) and `reponse_sandre` |
| `masa` | the depot's MASA row |
| `jobs` | the bag of the depot's jobs, each with the handler that runs it (`pc`) |
| `failed` | queues where a job used up its retries |
| `calls` | calls of the webhook |
| `remote`, `pdf`, `agence`, `mails` | what left the system: SFTP file and .ack, report, archive, mails |
| `faults` | failures so far, bounded by `MaxFaults` |

A handler is a sequence of awaited calls, each with one effect; one call is one
action, named after it. `Goto` is an awaited `update`, `GotoSending` and
`DoneSending` a `queueService.send`, which commits on its own. Every handler's
actions are grouped under its name (`ProcessFile`, `ControleMetier`,
`SandreUpload`, `SandrePoll`, `SendToSftp`, `ProcessMasa`, `DiffuseRapport`,
`SendMail`).

The ways a step may go wrong:

- `Throw`: the next call rejects. `Guarded` says which calls are in the handler's
  `try`; `Resume` where it goes on. Most catch blocks write the depot and throw
  again (`FailAttempt`: pg-boss retries); `controle_metier` and
  `controle_sandre_poll` return instead.
- `Outlive`: the attempt passes `expireInSeconds`. pg-boss requeues it while its
  handler runs on (`state = "expired"`), and `Fetch` may start the next attempt
  beside it.
- `Crash`: the worker dies; `ExpireDead` requeues its jobs when they expire.
- `Return` may leave the job active although its last call was made: the process
  died between that call and the completion.
- `FailCall`: the API dies, or a call of its webhook is refused.

`Fetch` runs one job at a time of each queue (`batchSize: 1`, one worker process).

Abstractions: a rejected call had no effect (a call that took effect and whose
reply was lost is covered only by the death of the worker after a handler's last
call); the last call of a handler and pg-boss's completion are one step unless a
failure comes between them; `stepHistory`, the report's text and the addressees'
names are left out; polls created before `attemptCount` existed are left out;
the Agent Verseau calls the webhook only once the .ack is there, with any of the
eleven statuses of `masa.model.ts`, which `mapWebhookStatusToMasaStatus` makes three
of (one that says "not yet" counts as a refusal).

## 5. BrowserSession

| variable | code |
| --- | --- |
| `jar` | cookies `access_token`, `refresh_token`, `__Host-verseau_oidc`, shared by the tabs |
| `session` | `expires_at` under `verseau_session` in localStorage, shared as well |
| `owner`, `live`, `rotates` | the refresh tokens issued, those the provider still accepts, whether it replaces one at each use |
| `rows` | users with a row in the database |
| `refresher`, `flight` | per tab: `RefreshAuthService` (timer, operation), `AuthService.refreshPromise` with its request |
| `proc` | per tab: who may await that promise (page load, callback, call of the API) |
| `callback`, `leaving`, `state`, `page`, `shown` | per tab: the requests of login and logout, `oidc_state`, what is on screen |
| `signedOut`, `lost`, `burst` | history the properties speak of |

A request carries the cookies of the instant it is sent; those of an answer are set
when it is received, in the step of the code that awaits it. A tab that goes
away drops its requests (`Reload`, `Login`, `home`). `ServerRefresh` is what
`authentication.controller.ts` does of a refresh: both cookies, the signature and
age of the access token, the exchange, then the subject; a refusal after the
exchange loses the rotated token, which `lost` remembers. `Failed`, `RefreshLost`
and the branches with `Fault` are lost answers, failures other than 401 and a
storage that refuses; `Event` and `Fault` count what a user does and what fails.
PKCE, nonce and signatures are taken as sound, and are not in the model.

`SignedOutStays` speaks of what starts after a logout: a refresh that left before it
stores the session again when it is answered (`auth.service.ts:216`), and no
document of the repository promises otherwise.

## 6. SchemaSync and MigrationLock

`SchemaSync` follows the runs of `devops/tools/sync-pg`: a run finds the newest dump
(`Start`), skips it if `sync_tracking` names it, restores it as
`custom_ingestion_*`, copies structure, rows and indexes to `_staging` schema by
schema, swaps all of them and writes the tracking row in one transaction, then
creates the materialized view. Each SQL statement that commits is a step. A schema is
what is in it: the dump of its rows and how far its restore went. A run may fail or
die at every step, and when `parallel` a second one runs beside it: nothing in the
code prevents it, the start of the container and cron both begin one. The skip
compares the *name* of the file; a run whose view failed after its swap is therefore
not made up for by the next (`owed`).

`MigrationLock` is `MigrationService`: the advisory lock on one connection, the
migrations on another, and a `release()` that neither unlocks nor closes, so the
lock stays with the connection until the pool closes it idle (`IdleClose`) or the
instance stops. The requests of an instance that serves borrow its connections, this
one too (`Request`), and each starts its idle time anew (`used`, `Rest`); the pool has
no maximum lifetime. Traffic that never pauses thus keeps the lock, and an instance of
the next release, in a rolling deployment, waits as long: `LockWaitEnds` says that
who waits for ever waits for such a holder (`KeptBusy`), and for nothing else.
Instances carry one of two releases. `poolSize` may be 1: the holder
of the lock then waits for its own pool, and `LockWaitEnds` is stated for larger
pools.

`MCDatabaseJobs` composes the two; they share no table.

## 7. The readers of the reference data

`Referentiel` and `SuiviRegulier` define the queries over a database that is a record
of tables (sets of rows): selection, joins, filters, sort keys (`Rang` is the place of
a text in the order of the database, NULL last). A query that takes
one row of several is nondeterministic where the code's order leaves it open.
`References`, `Databases` and `Reference_` are the snapshots that a restore puts
in place one after the other; `SwapReference` may come between any two queries.

- `Scenario` is `packages/parser`: an element is a tag, a namespace, a text and
  children. A field is the text of its element, or `Objet` for an element that is empty,
  repeated or has children (truthy to the code, and no code). `AddName`
  inserts the depositor as `addNameTagToXml` does at delivery.
- `Droits` is `validateDroits`, one query per step.
- `ControlesV1` first fills the batches of `ControleV1DataFetcher`, then looks up
  what the rules ask for, code by code and in any order (`errors` is a set, so the
  order of the code tells nothing apart).
- `ControlesV2` and `ControlesPfas` are the rules as operators from a parsed file to
  rows of control. Numbers are integers, in thousandths for PFAS; `ParseFloat`
  and `ToNumber` are two different functions of a text, because the code reads
  with both.
- `AccesDepot` holds the claims a session got at its login or refresh against the
  reference data of now: guards ask the former, deposit and list the latter.
- `Perimetre` is `MasaProvider`'s cache of a minute and the promise that requests
  for one intervenant share.
- `Consultation` is a request of a dashboard: guard, perimeter, the service's
  identifiers, count and rows, page after page for an export.
- `Tableau` is the page that sends it: form, submitted filters, debounced
  search, react-query (answers kept per key, previous rows while the next are
  fetched), export.

`MCControles` composes them: they share the reference data, and `Droits` and
`ControlesV1` the file. `part` says which one a behaviour follows.

What the code does there, as the models have it:

- After a restore a session may list a depot it may not open, until it is
  refreshed; an earlier session may still open what a new one may not.
- An expert who asks for the controls of an unknown depot gets an empty list, not 404.
- CTL003 and CTL004 check nothing in production: the parser never sets owner and
  operator (`scenarioAssainissement.parser.ts:323`). CTL051 leaves out a capacity of
  2000, CTL060 takes it in. CTL059's comment lists MS105, its code does not.
- A depositor who changes employer between two dumps may be judged by a mix of both.
- Pages of reports and events are sorted by date alone, which leaves ties: an export
  may then repeat a row and miss another, even with nothing replaced. `ExportFaithful`
  claims order and completeness of rows without ties, and their number always.
  Measures are sorted by site, location and number of the point, date and parameter;
  conformity by code, late transmissions by delay and code, points by number.
- A point of the reference data without location is on no list, nor is a system of
  collection without type on that of conformity (inner joins). The joins of the
  indicators with nomenclatures and figures are taken as always finding their row.
- A failed query of a dashboard shows an empty table; the transmissions keep the sort
  of the other kind of site, which the server refuses; previous rows stay, and can be
  paged, while the next query runs. `TableauFaithful` says what a row shown is an
  answer *to*, not that there is one.

## 8. Runs

| run | specification, bounds | distinct states | what it shows |
| --- | --- | --- | --- |
| `upload` | one depot, two users, three files, TTL 1, delay 2, skew 1, two PUTs at once of any duration, `RetryLimit` 2, fair | 232 830 | every property of the upload, the refinement of `DepotIntake`, and that a session ends or its cleanup used up its retries |
| `upload_hour` | one depot, ticks of 5 minutes | violation | finding 1 |
| `pipeline_safety` | nine files (every ending), one re-poll, two webhook calls, one failure anywhere | 684 196 | every safety property of the pipeline |
| `pipeline_answer` | an accepted file, two failures after the answer, fair | 60 664 | MASA's answer is the final status; the depositor is told |
| `pipeline_rejection` | files that the controls or SANDRE reject, two failures, fair | 203 665 | jobs come to rest; a business rejection is mailed |
| `pipeline_webhook` | two calls of the webhook, one failure | violation | finding 2 |
| `pipeline_expiry` | one poll that expires | violation | finding 3 |
| `pipeline_transfer` | one failure in the transfer | violation | finding 4 |
| `session_tabs` | two tabs, one user, tokens of two ticks, one login, event and failure | 1 019 771 | one refresh ahead, a usable token, no session after logout |
| `session_user` | one tab, two users, tokens of one tick, fair | 344 432 | nobody else's session, no refresh loop, loading ends |
| `jobs` | two runs of the restore, two schemas, two dumps, one fault; two instances, two migrations, three stops; fair | 236 150 | restore and migrations |
| `reference_readers` | two dumps; six files for rights and V1, a family of about a thousand for the rules; every dashboard; three requests for two perimeters; five edits of a page | 615 072 | what the readers show, allow and say |

Bounds. Depots share no row, key or job: the run of the upload has one, the theorems
any number. `MaxPuts = 2` lets one PUT overwrite another, and one that never ends
stay beside it; `MaxTime` passes the last deadline, and a retry made then is due by
the clock of the worker, whose skew is not less than `RetryDelay`. `RetryLimit` is the code's 2 in the pipeline, so `retryCount >= 2` of the
SANDRE upload is reached, and 2 instead of 10 for the cleanup, whose retries are
alike. `MaxAttempts` is 0 or 1 instead of 240: a first poll, a re-poll, a last
poll. With `MaxCalls = 2` both webhook calls may find no row. Up to `MaxFaults`
failures may fall anywhere in `Fragile`; the liveness runs spend two of them where
they matter. Sessions: tokens outlive the refresh window in one run and not in the
other; a tick is the window. Restore: with a dump to skip and one to take, and a
fault anywhere; `LiveFilled` fails with three runs at once, and is claimed (and proved) for two.
Readers: two snapshots that differ in every table a property depends on (a plant gone,
an employer changed, a code added, one removed, a point closed), pages of two rows
and at most three rows, two measured points of one site whose measures the order of
the code and the dates order differently, a family of files with every combination of
volumes on two days (none, none that is a number, below or above the capacity, one
written "1,5") and of analyses of a campaign. No file that TLC checks repeats or nests
the elements of codes, or lacks its sender or has it in another namespace: of such
files only the theorems speak. A login belongs to one agent in the data. Symmetry (tabs, requests, intervenants) is used
under `Spec` only, never for liveness.

`CHECK_DEADLOCK FALSE` everywhere: a depot comes to rest, clocks and events end.

Fairness. Upload: time passes, a started handler ends, a due job is
fetched; nobody has to open, send or confirm, and no PUT has to end. Pipeline: per queue, that it is
worked (the worker is restarted by the platform and polls each queue) and, per
webhook call, that a started call ends. It is weak: no choice is forced. The Agent
Verseau need not call, which is why `ComesToRest` speaks of jobs and not of an answer.
Sessions: per tab, that requests are answered or fail and what awaits them goes on.
Jobs: node goes on with a run it started, cron starts one, an API that started
goes on, and pg's pool closes a connection that nobody used for its idle timeout;
nothing says that requests come, or that they pause.

What the properties are limited to, because the code does not do more:

- `NoSilentStop` is stated while one thing at most has failed. Two can defeat it: a
  `process_file` that expired, and runs on after its retry, sets back to
  en cours a depot that was decided meanwhile.
- `DecisionIsFinal` and `OneMail` are stated while nothing has failed: a retried
  handler writes its first status again, and a retried diffusion mails again.
- `OutcomeIsMailed` accepts a technical error in place of the mail: such a
  rejection has no report in the code.
- `RejectedNeverConfirmed` and `NothingLeftBehind` except transfers that outlast the
  delay before cleanup (section 3); `LockWaitEnds` a holder whose traffic never
  pauses (section 6).
- A second mail of a diffusion that is run again is what the code does: no property
  excludes it.
- `RefreshTokenUsable` excepts a rotation whose answer was lost.
- `TrackingTrue` and `NewestRestored` are for runs that do not overlap: of two that
  do, one can leave its name over the other's rows.

Each property has a mutant in `PROJECT.json`: a plausible bug (a definition with an
underscore in its name, marked "Mutant", that `Next` never uses) beside the
definition it changes, under which TLC finds that property violated.

## 9. Findings

1. `README.md:148` gives an hour to confirm after the URL's expiry; the code
   gives 5 minutes (`depotUpload.service.ts:30`).
2. A webhook call that fails after saving the MASA row and before sending its
   job (`masa.service.ts:33-41`) cannot be made up for: the repeated call finds the
   row and answers with success. The depot keeps its status for ever.
3. A poll has 60 seconds (`queue.provider.ts:11-14`) and may make two HTTP calls of
   30. Outlived, it runs beside its retry, and `ReadyForSftp` of the
   slower one sets a depot back to en cours after MASA integrated it.
4. A transfer that fails after its .ack (`sftpAgentVerseauProcessor.service.ts:69`)
   sets the depot to rejected, and its retry to en cours, although MASA may have
   integrated it meanwhile.

## 10. Proofs

`tlapm` proves the theorems below for every value of the constants that satisfies
the ASSUMEs of the module (`SetsAssumption`, `TimesAssumption`; `BoundsAssumption`; `SessionAssumption`; `SyncAssumption`; `LockAssumption`, `NobodyAssumption`;
`ReferencesAssumption`, `FiguresAssumption`, `PfasAssumption`; `PerimetreAssumption`,
`ConsultationAssumption`; `TableauAssumption`). Eight theorems have a further
hypothesis on the constants, stated in the theorem and explained below:

| hypothesis | says | of |
| --- | --- | --- |
| `AtMostTwo` | no three runs of the restore | `LiveIsFilled`, `JobsLeaveLiveFilled` |
| `OneIntervenant` | in no snapshot do two agents of one address work for two intervenants | `RightsCorrect` |
| `NomenclatureRead` | the codes the parser finds in a file are those a reader of its plants finds | `VerdictCorrect` |
| `FilesRead` | a text is a tree of elements, and the constants tell of its figures and plants | `VolumesAccounted` |
| `OneNamespace` | a text is a tree of elements, those of its scenarios in the namespace of their parents | `DeliveredOnce` |
| `FiniteAnswers`, `StableIdentifiers` | a query has finitely many rows; the restore gives a site the identifier it had | `RowsOfTheUser`, `ConsultationCorrect` |
| `NumericKeys` | the rows of an export are sorted by one number of columns, of numbers (dates, figures, places in an order) | `ConsultationCorrect` |

All of them hold of the instance that `reference_readers` checks (`AtMostTwo` of `jobs`).

**DepotUpload.** `TypeCorrect`, `ConfirmedOnceHolds`, `ConfirmedFileKeptHolds`,
`RejectedNeverConfirmedHolds`, `NothingLeftBehindHolds`,
`ConfirmationIsIdempotentHolds`, and `UploadImplementsIntake`, the refinement.
None of the properties is inductive. What is missing, and `Invariant` adds, is what
the transaction knows at each of its calls (a confirming one has a row without
path and an open deadline when it started; the final object it copied is the
one whose metadata it verified), what the clocks allow (the cleanup is past the
deadline by the worker's clock: a PUT that is left, or wrote the object since, was
accepted before the URL expired and is slow; and without skew no confirmation
starts after it), and that a row without path has enqueued nothing. Nothing is
assumed of the time of a PUT nor of how delay and skew compare. The refinement maps every step to a step
of `DepotIntake` or a stutter under that invariant.

**DepotPipeline.** `TypeCorrect`, `DeliveredOnlyValidHolds`,
`IntegratedOnlyByMasaHolds`, `ReportJustifiedHolds`. The argument is what may be
read off the existence of a job: `Route(j)` says, by queue and by
the call the handler is at, which answers the file got, which rows are recorded and
whether MASA answered. A `send_to_sftp` job exists only for a valid file; a
`diffusion_rapport` without MASA only with the rows of a refusal. Routes
depend on facts that never go away (the file's answers, rows that are only
added), so they survive whatever other handlers do; retry, expiry and crash only
make jobs whose route is the one of the job before. One lemma per way of
changing the bag says so; each action then has one step. The
properties follow for any number of failures, although the runs have one or two.

The second part of the module is how a depot ends: `NoSilentStopHolds`,
`OneMailHolds`, `DecisionIsFinalHolds`. Two invariants carry them. `Single`: while
nothing has failed the bag holds one job at most that may still mail or write a
status (once, not only as one record: its multiplicity is 1); it is passed on like a
baton to the next job, let go when the `.ack` is written, and taken up by the one
call of the webhook whose insert into `masa` succeeded. So there is no second mail,
and when a depot is integrated no handler before the delivery is left but the
end of the transfer, which does not write the status. `Pursued`: with one failure at
most, a depot en cours that is not delivered, answered or out of retries has a job
that is pending, that is, before the last call of its part, so that whichever handler
ends first does not end the last one. It needs `Ordinary`, which says which jobs one
failure can make: a submission to SANDRE that throws has not also outlived its time,
for such an attempt would end without being made again. `Pursued` fails with two.

**BrowserSession.** Every safety property: `SessionTypeCorrect`,
`OneRefreshAheadHolds`, `RefreshTokenUsableHolds`, `SubjectKeptHolds`,
`SignedOutStaysHolds`, `NoRefreshLoopHolds`, for any number of tabs, users, logins and
failures, a provider that rotates tokens or not. Typing needs `Subjects` (a callback
under way has a user): tokens are granted to users only. `OneRefreshAhead` is
inductive with the types: a lemma says of each way the refresher's state is computed
that timer and operation exclude each other. The tokens rest on `TokensInv`: the token
an answer brings is accepted, belongs to the subject of the request, is in no other
answer, and neither the cookies nor a request have seen it, so that no other refresh
can spend it before it arrives (`Issued` gives that to a new token). It has one lemma
per way of handling a token (rotated, given, received, dropped), and every action is
one of them. `SignedOutStays` follows: an answer to a refresh has a user, which after
the logout no request has. `NoRefreshLoop` is a budget: what a tab started at this
instant, the refresh its timer may still start, and the callback it waits for, are at
most one more than what the user did; the timer that an answer arms is always in the
future.

**SchemaSync.** `SyncTypeCorrect`, `ViewMissesOnlyAfterFault` (any number of
overlapping runs), `TrackingIsTrue` (runs that do not overlap, any number of them one
after the other, failures and deaths included). For the last, the invariant says how
much of its dump a run has brought to each generation of schemas at each of its
steps, and that whoever died left nothing the next one keeps: it drops what it finds.
`LiveIsFilledAlone` is its corollary. `LiveIsFilled` is for two runs that overlap
anywhere: what a run is about to swap has passed the validation or was dropped
since, and what the other is about to rename over it is whole or was renamed
already. A third run could have emptied it in between; the property is then false.

**DatabaseJobs.** `LockTypeCorrect`, `MigrationsOnceInOrder`: who migrates holds the
lock, has left to run exactly what is not committed, and what is committed is a
prefix. `JobsTypeCorrect`, `JobsKeepTheirPromises`, `JobsLeaveLiveFilled` carry the
theorems of both jobs to their composition, of which each step is one of one job.

**Rights and controls** (`Controles_proofs`). What the restore swaps is read again
at every query, so nothing about the snapshot that is live now is invariant. The
arguments carry *evidence* instead: a snapshot that was live since the
beginning and said what the next step relies on; snapshots are never un-seen, so
evidence is never lost.
- `DepositRights`, `RightsCorrect`: `DroitsEvidence` is what each query of
  `validateDroits` leaves (the agent at hand was found, he had a role, his
  intervenant answered for the codes); `SessionEvidence` what the claims of a
  session are worth. That a user can open what his list shows needs
  `OneIntervenant`: the list looks the agent up again by address, the guard
  goes by the claims of the session.
- `ErrorsOfSnapshots`, `VerdictCorrect`: `V1Inv` says of which snapshot each batch
  and each lookup is, and that a code without error was found in one. That a clean
  file is a known one needs `NomenclatureRead`, since the rules read parsed
  fields and the property the document.
- `PfasCorrect`: of any file whatever, the verdicts CTL201 to CTL210 do not
  contradict each other; no induction, a case per rule.
- `VolumesAccounted`: of any file, a volume at the inlet or the outlet of a plant above
  2000 is compared with the capacity or reported as alone. The last volume of a day
  is that of some sampling because lists put end to end are a list, which is
  induction by a least counterexample (`FlattenUnfold`); a volume can be compared because
  `FiguresAssumption` says that what was read is a number. That what is parsed has
  lists where the rules expect them is proved of `Parse` (`FileIsRead`).
- `DeliveredOnce`: of any file, the delivered one says what was controlled. The children
  of a name are lists of one or none put end to end (`Named`), so a child put in the
  place of another of its name leaves every other name as it was and the list of its
  own alike but for one element (`NamedReplaced`), which reads the same: level by level,
  from the contact to the text (`NameContactIs`, `NameEmetteurIs`, `NameScenarioIs`,
  `ScenarioRead`). Each level says as well that writing again changes nothing and that
  one name at most is new. A file that parses has a sender in each scenario, and
  `OneNamespace` makes it the one `addNameTagToXml` looks for: where the sender is in
  another namespace, a second one is written, and the delivered file, parsed by local
  names, no longer has a single sender.

**Perimetre and Consultation** (`Consultation_proofs`). `PerimetreTypeCorrect`,
`PerimeterStaysFresh`, `NobodyWaitsForNothing`: an entry is not kept beyond its life,
a query no longer under way than `MaxFlight`, and a request that joined one was made
after it started. `RowsOfTheUser`: at each stage, what was collected is among the
rows of the dashboard in some snapshot seen, of sites the intervenant answered for.
Identifiers are resolved by one query and used by the next: if a restore gave one to
another site, its rows would be shown, hence `StableIdentifiers`.
`ConsultationCorrect`: an export that no restore met has full pages, its first count
holds, and without ties what is collected is the prefix of the one order there is.

**Tableau.** `TableauCorrect`, for any number of edits, failures and answers in any
order: form and applied filters are coherent (a site of the type chosen, a point of
the site), a query under way asks exactly for its key, an answer is kept under the
query it answers, and what is exported is what was shown when the button was used.

**Left to TLC.** Liveness and fairness (`SessionEnds`, `ComesToRest`,
`AnswerIsHonoured`, `OutcomeIsMailed`, `LoadingEnds`, `NewestRestored`,
`LockWaitEnds`), which the provers do not reach. What the queries compute on a given
database is checked on the two snapshots.

## 11. Not modelled

- Layout of the PDF, names of archives, templates of mails, CSV formatting, texts of
  errors: wording. `fileTransfer` clients: success or failure is an outcome of the
  calls in `DepotPipeline`; the connection that `sftp.service.ts` shares would need two
  transfers at once, which only an expired attempt beside its retry gives.
- Monitoring, logging, health checks: they observe.
- The SQL of columns that are only shown, the graph of the measures, the free-text
  search and pages of the administration.
- The HTTP client of SANDRE and the fields of its response that are only stored.
- Syntax of XML (the parser's library), cryptography of tokens.
- Pages of the front other than the dashboards, the session and the upload: they render.

## 12. Running

    tlc -workers 2 -config DepotPipeline_safety.cfg MCDepotPipeline.tla
    tlc -workers 2 -config DepotUpload.cfg MCDepotUpload.tla
    tlc -workers 2 -config BrowserSession_tabs.cfg MCBrowserSession.tla
    tlc -workers 2 -config DatabaseJobs.cfg MCDatabaseJobs.tla
    tlc -workers 2 -config Controles.cfg MCControles.tla
    tlapm DepotPipeline_proofs.tla
    tlapm Controles_proofs.tla
    tlapm Consultation_proofs.tla
