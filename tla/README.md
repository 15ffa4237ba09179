# A TLA+ verification development for EmailArchive

EmailArchive ingests mailboxes (Gmail windows, exports), derives people, events,
projects and embeddings from them, answers questions over the archive and lets an
owner hand a reviewed part of it to somebody else. This directory holds TLA+ models
of its services, the TLC configurations that check them, and proofs that TLAPS
checks. Paths below are relative to the
repository root; the modules name the function each definition translates.

## 1. The system

| Component | State it keeps | Operations | Interacts with |
|---|---|---|---|
| **Job queue** `services/jobs/{service,worker,registry}.py`, `scripts/run_worker.py`, `services/api/routers/jobs.py` | `job` rows: status, idempotency key, lease, attempt, retry time, cancel request | enqueue, cancel, claim (`FOR UPDATE SKIP LOCKED`), checkpoint, mark, requeue with backoff | API requests insert and cancel, worker processes claim and run; through PostgreSQL only |
| **Job handlers** `services/jobs/handlers/` | none of their own | gmail_ingest, l1_enrichment, event_extraction, embedding_backfill, project_materialization | called by a worker with its session; call ingest, enrich and scripts |
| **L0 ingest** `services/ingest/` | `message`, `thread`, `attachment` rows, sync token | fetch a window, normalize, reconstruct threads, append to or replace the mailbox | Gmail; `services/db/store.py` |
| **L1 enrichment** `services/enrich/` | `person`, `identity`, `org`, `edge`, `event`, `project`, assignments | identity resolution, edges, event extraction by a model, clustering | reads `message`; writes through `store.py` |
| **Persistence** `services/db/` | the schema, sessions with `expire_on_commit=False` and `autoflush=False` | clear, persist_l0, persist_l1, persist_events, clustering | everything |
| **L2 retrieval** `services/retrieval/` | none (reads `message_embedding`, full-text columns) | full-text, vector, rank fusion, rerank | API, synthesis |
| **L3 synthesis** `services/synthesis/`, `routers/cover_for_me.py`, `routers/synthesis.py` | none | route a question, select messages, one model call, check citations | L1, L2 rows, two providers |
| **Relationships** `services/relationships/`, `routers/{relationship_map,network_map,project_view}.py` | none | derive maps, lists and details from L1 rows | API |
| **Handoff** `services/handoff/`, `routers/handoff.py`, `routers/handoff_recipient.py` | `handoff_package`, scope, claims, evidence, exclusions, recipient, recipient sessions, audit | create, scope, generate, publish, supersede, revoke, new version, return draft, exchange code, read, ask | creator requests and recipients, concurrently |
| **OAuth** `services/oauth/`, `routers/oauth_gmail.py`, `routers/oauth_calendar.py` | `oauth_account`, `oauth_state` rows; tokens in a vault outside the database | connect, callback, disconnect, resolve, mint | Google, ingest, admin |
| **API, auth, admin, readiness** `services/api/`, `services/admin/`, `services/hosted_readiness.py`, `services/preflight.py` | tenants, users, audit rows | start-up guard, route guards, enqueue routes, read-only projections, revoke, disconnect | all of the above |
| **Frontend, evaluation, seeds** | none of record | | API |

What is hard in it, and where:

* *Every session decides on copies.* Sessions are built with
  `expire_on_commit=False`; a row loaded once is answered from the identity map
  afterwards. The worker's cancel checkpoint, its final write, and the handoff
  handlers (whose route guard loads the package in a thread of its own) all decide
  on a copy that may be old.
* *Two workers on one mailbox.* Handlers take minutes (model and embedding calls)
  between what they read and what they write, and commit several times.
* *Failure between commits.* A handler's exception is caught by `run_claimed`,
  which commits the same session without a rollback; a crash leaves a lease to
  expire.
* *Recipients act while creators change their mind*: a code is exchanged while its
  package is superseded, revoked or expires.
* *A request is many statements.* Sessions run under READ COMMITTED, and maps,
  answers, generations and administrators' views are built from up to a dozen
  statements and calls to providers, while jobs and other processes commit.
* *What the database does not cover*: the token vault, the mail that arrives at Gmail
  during a run, the audit rows, which are commits of their own.

`PROJECT.json` lists these hazards line by line, with the properties that cover them.

### What makes each component correct

* Queue: one active job per key; a running job has one executor while leases are
  kept; a dead worker's job is found again; attempts are bounded; a cancel seen is
  honoured; ended jobs stay; every job ends.
* Mailbox: a replace is all or nothing; what the surfaces show is derived from
  messages the mailbox holds; one mailbox's jobs do not touch another's rows; no
  vector is paid for twice.
* Sync: continuing from the saved token misses no mail; threads follow headers, in any
  order of listing; a window includes both its days.
* Projects: what is stored is one whole clustering; a tagged thread is in none of it.
* Maps: a map is closed; a direct relationship has evidence that may be shown.
* Answers: they cite only mail of the mailbox that was asked; a detail passes the
  sensitivity gate as it is shown.
* Handoff: one live version per lineage; distinct versions; one reader per code;
  what ended is closed to everybody; what is shared is what the creator released.
  Its content: no claim without a citation; no evidence that was not eligible; high
  findings hold back a publication; what a recipient is shown is of the package.
* OAuth: one owner per Google account; a state is spent once; a token without a row,
  or a row without its token, is the trace of a failed step.
* Governance: a hosted deployment is never served with the synthetic principal;
  views are of the caller's tenant; every change has its audit row.

## 2. Modules

| Module | What it is |
|---|---|
| `JobQueue` | the queue, its workers and the two endpoints that write it |
| `MCJobQueue`, `JobQueueProofs` | its TLC instances (symmetry); its theorems, and those of `Projects` |
| `Snapshot` | abstract: what an ingest promises about a mailbox's messages |
| `MailboxPipeline` | the five post-ingest handlers over a mailbox's rows; implements Snapshot |
| `MCMailbox`, `MailboxProofs` | its TLC instances (windows, contacts), its theorems |
| `MailSync` | listing, caps, history pages, the sync token, thread reconstruction: how mail gets to the `message` rows |
| `MCMailSync`, `MailSyncProofs` | its TLC instance (mails and headers); its theorems, and those of `Maps` |
| `Projects` | clustering as the materialization runs it, read by read, beside writing jobs |
| `MCProjects` | its TLC instance (mails, vectors, windows); its theorems are in `JobQueueProofs` |
| `Maps` | relationship map, network map, project list and detail, over rows that jobs change |
| `MCMaps` | its TLC instance; its theorems are in `MailSyncProofs` |
| `Answers` | cover-for-me with retrieval and fallbacks, summaries, the detail of a source |
| `MCAnswers`, `AnswersProofs` | its TLC instance, its theorems |
| `Sharing` | abstract: what the handoff service promises about a lineage |
| `HandoffLifecycle` | packages, creator requests, recipients; implements Sharing |
| `MCHandoff`, `HandoffProofs` | its TLC instances (symmetry, state constraint), its theorems |
| `HandoffContent` | what a package contains: generation, safety scan, return scopes, recipient's views and answers |
| `MCHandoffContent`, `HandoffContentProofs` | its TLC instance, its theorems |
| `OAuthVault` | accounts, states and a vault outside the transaction |
| `MCOAuth`, `OAuthProofs` | its TLC instance; its theorems |
| `Governance` | start-up guard and readiness, principals, enqueue routes, administrator's views and actions, audit |
| `MCGovernance`, `GovernanceProofs` | its TLC instance, its theorems |

The modules meet at the rows they share. `JobQueue` decides which handler runs and what
becomes of its failure; `MailboxPipeline` takes over from there, and its faults are the
two ways in which `run_claimed` ends a handler that raised. The modules of what is shown
(`Maps`, `Answers`, `HandoffContent`) and `Projects` take the jobs as steps that replace
rows within the types which the writing modules give them, each commit in one step;
`HandoffContent` refines the generate and publish that `HandoffLifecycle` has as one
step each, and leaves the life cycle to it.

The theorems of `Projects` stand with those of the queue whose job the clustering is, and
those of `Maps` with those of the sync whose rows the maps show. The two specifications of a
pair have no variable, constant or action in common, and a theorem is about the one that it
names (`Spec` or `ProjectsSpec`, `Spec` or `MapsSpec`). That is why the definitions of
`Projects` and `Maps` that another module also has carry their module's name
(`ProjectsInit`, `MapsNext`, `AppendMail`).

Operators whose comment says "Mutant of" are deliberately wrong variants of the definition that follows them.
No specification uses them; `PROJECT.json` pairs each with the property that fails
when it replaces the right one, which shows that the property depends on the code.

### JobQueue and the code

| Model | Code |
|---|---|
| `row` | the `job` table; the number of a row is its `created_at` rank. A lease is none, live or expired; `backoff` says `next_retry_at` is in the future |
| `run[w]` | the job a worker executes, where it is in `run_claimed`, and `seen`, the copy its session loaded |
| `req[c]` | an enqueue between its SELECT and its INSERT, or a cancel between its read and its write |
| `Merge` | an ORM attribute reaches the UPDATE only if it differs from the session's copy |
| `EnqueueRead`, `EnqueueInsert`, `EnqueueConflict` | `service.enqueue`, with the partial unique index and the savepoint retry |
| `CancelRead`, `CancelWrite` | `cancel_job`: read for ownership, then `request_cancel` |
| `Claim`, `Load` | `claim_next`: the locking UPDATE, then `db.get` and `refresh` |
| `NoHandler`, `CheckpointCancels`, `CheckpointPasses`, `Finish`, `ErrorRetries`, `ErrorFails` | `run_claimed` and `_on_error` |
| `Abort` | the process dies, or its commit raises: nothing is written |
| `LeaseLapses`, `LeaseOutlived`, `RetryDue` | time: a lease runs out with nobody behind it, or under a running handler (`heartbeat` exists and nothing calls it) |

### MailboxPipeline and the code

An action is what one commit makes visible, or a read whose result is used after
others may have committed.

| Model | Code |
|---|---|
| `stored`, `person`, `identity`, `event`, `embedding`, `assignment`, `owner` | the rows of each mailbox; a person row is shared by all mailboxes that know the address and carries one `mailbox_id` |
| `sess[w]` | what a worker has fetched or read, and is about to write |
| `Fetch`, `StoreL0`, `StoreL1`, `SetOwner` | `run_windowed_ingest`: the fetch, then its three commits (clear and `persist_l0` are one) |
| `ReadForEnrichment`/`Enrich`, `ReadForExtraction`/`ExtractEvents` | l1_enrichment, event_extraction |
| `ReadForEmbedding`, `CallEmbed`, `StoreBatch` | embed_backfill, a commit per batch |
| `ReadForClustering`/`Materialize` | materialize_projects |
| `Clear`, `PersistL0`, `PersistL1`, `PersistEvents` | the functions of `store.py`, with the cascades of the foreign keys |
| `PendingL0`, `PendingL1`, `PendingEvents` | what each of them has executed when one of its later rows cannot be built |
| `Raise` | an exception: `"rollback"`, where the database refuses the transaction, and `"client"`, where the transaction stays usable and `run_claimed`'s commit of the status also commits what was pending, be it of a `persist_l0`, a `persist_l1` or a `persist_events` |

### HandoffLifecycle and the code

| Model | Code |
|---|---|
| `pkg`, `scope`, `evidence`, `grant`, `session` | the `handoff_*` rows; a package has one recipient row at most (unique constraint) |
| `req[c]` | a creator's request: the operation, the package, the status its session loaded, and, between a handler's reads and its commit, what it read |
| `visit[v]` | a recipient between the check of the code and its claim |
| `Turn`, `Overlap` | handlers have no await, so in one API process none starts between another's reads and commit; with several processes they overlap |
| `Load` | `require_owner_package`, a synchronous dependency run in a thread before the handler |
| `Create`, `CreateReturn`, `UpdateScope`, `Generate` | the endpoints; a generate replaces the evidence and writes the status only if its copy differs |
| `PublishRead`, `PublishCommit` | `publish_handoff` and `_supersede_prior_published` |
| `VersionRead`, `VersionCommit` | `new_version_handoff` |
| `Revoke` | `revoke_package`, for the creator and for an administrator |
| `CheckCode`, `ClaimCode`, `TurnedAway` | `start_session`: liveness, then the UPDATE guarded by `consumed_at IS NULL` with the session's insert |
| `SessionEnds`, `Expire` | time; a session never outlives its package |
| `GiveUp` | any refusal or failure of a request |

### MailSync and the code

| Model | Code |
|---|---|
| `gmail` | the mail that has arrived, in order; a history id is a length of it |
| `run[a]` | an operator's run (`scripts/gmail_smoke_ingest.py`) or a windowed job: mode, window, cap, what has been listed and what is to be saved |
| `message`, `threadOf`, `thread`, `token` | `message` and `thread` rows, the saved history id |
| `BeginCli`, `BeginJob` | the command line's refusals and `run_windowed_ingest`'s; the request's in `routers/gmail_ingest.py` |
| `Profile`, `List`, `HistoryPage` | `GmailProvider`: the history id is read before the listing, which is newest first; a page of the history at a time |
| `SmokeCheck`, `Look` | the modes that only look |
| `Fetch`, `Roots`, `Conflicted` | normalization and `reconstruct_threads`: union-find over `References` and `In-Reply-To`, with the flag for provider groups that span threads |
| `Persist`, `SaveToken` | the commit of the messages and, only for an uncapped, non-empty, unwindowed run, of the token |

### Projects and the code

| Model | Code |
|---|---|
| `mail`, `vectors`, `identity`, `people`, `owner` | the rows a run reads; `projects`, `assigned` what it writes |
| `build` | `materialize`: what its reads have returned so far |
| `Ln`, `Dim` | the table of logarithms and the dimension of the vectors |
| `IngestWindow`, `PersistL1`, `SetOwner`, `IngestFails`, `EnrichMailbox`, `Backfill` | the writing jobs, at their commits |
| `ReadMailbox` ... `LoadIdentities` | the reads of `materialize_projects.py`, one statement each |
| `EmbedFn`, `Features`, `Idf`, `Ubiquitous`, `SharedRare`, `CandidatePairs` | `clustering/features.py`, `blocking.py` |
| `ThreadSimilarity`, `BuildEdges`, `Memberships`, `SoftAssign`, `Label`, `Confidence`, `Materialized` | `similarity.py`, `graph.py`, `communities.py`, `labeling.py`, `confidence.py`, `materialize.py` |
| `PersistClustering` | `store._persist_clustering`, one transaction |

### Maps and the code

| Model | Code |
|---|---|
| `stored`, `people`, `roles`, `edges`, `projects`, `assigned`, `members`, `outcomes` | L1 rows; `AppendMail`, `Replace`, `Enrich`, `Materialize`, `Extract` change them by a commit |
| `req` | a request: its mode and what its statements have returned |
| `AskMap`, `ReadPeople` ... `ReadMail` | `derive.py`, statement by statement |
| `Direct`, `Together`, `Colleagues`, `Affiliated`, `Bridges`, `DeriveOwner`, `DeriveOrg`, `DeriveProject`, `DeriveGraph` | the relationship types and the four modes |
| `Weight`, `Rank`, `Kept`, `Finalize`, `FinalizeGraph` | evidence thresholds, caps, and the edges dropped with their nodes |
| `AskNetwork` ... `ShowContact` | `routers/network_map.py` |
| `ReadList`, `ReadOutcomes`, `ReadStamps`, `ReadAssigns`, `FindProject` ... `ShowProject` | `routers/project_view.py` |

### Answers and the code

| Model | Code |
|---|---|
| `stored`, `tagged`, `embedded`, `projects`, `assigned`, `edges` | L0 to L2 rows; `Ingest`, `Wipe`, `Backfill`, `Materialize` change them |
| `req`, `answer` | what a request has read; what it answered |
| `Route`, `AskCover` | `synthesis/intent.py`, the entry of `cover_for_me` |
| `Embed`, `VectorSearch`, `TextSearch`, `Merged`, `Reranked`, `HasEmbeddings`, `RetrievalFails` | `retrieval/`: the filters of each search, the fusion, the cut, the statuses; a failed statement aborts the transaction |
| `ReadEvents` ... `AskModel`, `Allowed`, `Emitted`, `Filtered`, `Synthesize` | `synthesis/cover_for_me.py`: the allow-list is read before the model's answer is filtered by it |
| `Details`, `Gate` | `api/evidence.py`, the details of hits, read after the model was called |
| `SummarizeProject`, `SummarizeContact`, `AskSource` | `routers/synthesis.py`, `routers/source_message.py` |

### HandoffContent and the code

| Model | Code |
|---|---|
| `stored`, `known`, `projects`, `assigned`, `events` | the live mailboxes; `Ingest`, `Replace`, `Enrich`, `Materialize`, `Extract` change them |
| `pkg`, `scope`, `claims`, `evidence`, `excluded` | a package's rows |
| `reviewed` | the candidate whose findings its creator was last shown, as it was then |
| `loaded`, `req`, `view` | copies that route guards have loaded; the creator's handler; what a recipient's handler has read |
| `clean`, `basis` | history: what was open to a handoff at some moment of a generation |
| `GenerateEligible` ... `GenerateLabels`, `GenerateWrite` | `generate_candidate`, statement by statement; `InScope`, `Retained`, `ClaimsFromEvents`, `Snapshot`, `Trim` are its queries |
| `ScanText`, `ScanPackage`, `Findings`, `High`, `Ids` | `safety.py`; an id is the category and the row, a claim told by its id and evidence by its header (`ClaimRef`, `HeaderRef`) |
| `Review`, `Acked`, `Publish` | the findings shown, the ids acknowledged, and the gate of `publish_handoff` |
| `ReturnCarries`, `ReturnLabels` ... `ReturnDraft`, `Seeded` | `return_scope.py`, `return_handoff.py` |
| `ReadClaims`, `ReadEvidence`, `Respond` | a recipient's two statements |
| `Contract`, `Entry`, `Sections` | `coverage_contract.py`, `export_html.py` |
| `Intent`, `Score`, `Candidates`, `Grounded`, `AnswersTo` | `ask.py` |

### OAuthVault and the code

| Model | Code |
|---|---|
| `state`, `account` | `oauth_state` and `mailbox_provider_account` rows |
| `vault` | the token each ref stands for, and whose it is |
| `StartConnect`, `StateExpires`, `GmailCallback`, `CalendarCallback` | `start_connect`; the conditional update that spends a state |
| `Elsewhere`, `Exchange`, `Refuse`, `StoreToken`, `ReplaceToken`, `Connect` | the rest of `complete_callback`: mismatch rules, of which the one across owners needs the subject that Google tells (`Subjects`), the new token, the revocation of the old one, the commit |
| `OwnerDisconnects`, `AdminDisconnects`, `DisconnectRevoke`, `Disconnect` | both disconnects |
| `ResolveGrant`, `Mint` | `resolver.py` and the worker's access token |
| `Fail` | the vault or a commit raises, or the process dies |

### Governance and the code

| Model | Code |
|---|---|
| `env`, `up` | what is wrong with the deployment's configuration; the API processes that serve |
| `HostedFailures`, `DatabaseFailures`, `QueueFailures`, `PreflightFailures`, `MayStart`, `Ready` | `hosted_readiness.py`, `preflight.py`: each check by the causes that fail it |
| `Principals`, `Owns`, `Admin`, `Within` | `api/auth.py` and the routers' guards |
| `EnqueueIngest` ... `EnqueueMaterialize` | the routes that enqueue work |
| `View`, `Views`, `ReadPackage`, `ReadRecipient`, `Answer` | `admin/read_service.py`: the views, and the detail, which is read in several statements |
| `RevokeRead`/`RevokeCommit`, `EndRead`, `PublishRead`/`PublishCommit`, `DisconnectRead`/`DisconnectCommit` | a change, by the owner or an administrator, and its commit |
| `Flagged`, `Overridden` | the packages whose findings must be acknowledged, and the second row that their publish owes |
| `trail`, `lost`, `WriteAudit`, `Fail` | the audit row, a commit of its own; the rows that a failed request will never write |

## 3. What is checked

| Run | Question | Distinct states |
|---|---|---|
| `queue` | types, bounded attempts, honoured cancels and final states with an outlived lease about | 1,370,000 |
| `queue_live` | uniqueness, mutual exclusion and progress while leases are kept | 417,000 |
| `mailbox` | surfaces, scope, snapshot promise, paid calls, one worker | 16,800 |
| `mailbox_replace` | does a failed replace leave the old snapshot? | violated |
| `sync` | token, threads and windows, one run at a time, mail arriving and failures anywhere | 130,000 |
| `projects` | what is stored is one clustering, without tagged threads, beside two writing jobs | 146,000 |
| `maps` | maps, lists and details with one commit at any point of a request | 382,000 |
| `answers` | citations and details, with one commit at any point of a request, and either provider failing | 274,000 |
| `handoff` | the promises about packages, one API process | 442,000 |
| `content` | generated, published and shown content, with one commit at any point and a second generation | 1,092,000 |
| `oauth` | owners, states and tokens, two failures | 375,000 |
| `governance` | start-up, views and audit, two API processes, one failure | 661,000 |

All but `mailbox_replace` hold. It checks the sentence of `gmail_windowed.py` that it
violates; sentence and code are quoted side by side under "findings" in `PROJECT.json`.

What each property says is above its definition; the ones that reach furthest:

* `AttemptsAreBounded` charges every claim past a job's limit to an abandoned run or an
  outlived lease. `QuietTerminalIsFinal` says exactly when a job that ended changes.
* `KeepsPromise` and `KeepsSharing` are refinements: the detailed modules implement
  `Snapshot` and `Sharing`.
* `TokenIsComplete` relates the history id read at the start of a run to rows stored at
  its end; `ThreadsFollowHeaders` compares the union-find with linkage by closed
  sets, and the stored threads with the messages that name them.
* `DetailsAreSafe`, `DirectIsBacked`, `ExcludedLeave` and `PackageHolds` say what the
  gate before a read still guarantees when the rows change after it.
* `TokensHold` counts orphaned tokens and dangling rows against the failures so far.

### Known disagreements

Met while modelling and kept out of the runs, either because a property holds only with
the restriction that its run names, or because what the code does is plain from the model.

* *Queue.* `heartbeat` (`worker.py:64`) has no caller, although `worker.py:5` and
  `docs/s21-background-job-orchestration-plan.md:286` say leases are renewed: a handler
  slower than its lease shares its job with a second worker. The cancel checkpoint
  (`service.py:101`) reads the session's copy, so a later cancel is not honoured at the
  next checkpoint (the same plan, line 313). A cancel that read a job as queued writes
  `canceled` by primary key even after a worker has finished it. A crash is not an
  attempt that failed: the row is claimed once more per crash than its limit.
* *Mailbox.* Person rows are global: with a common contact a job of one mailbox changes
  rows that another one shows (`store.py:148`). With two workers on one mailbox, a
  stale reader writes events of messages a replace has deleted (`handlers/pipeline.py:86`).
  `l1_enrichment` never sets the mailbox's owner, although a comment of
  `handlers/pipeline.py` (line 67) says so. The gate of the materialize route counts
  embeddings of any model (`pipeline_jobs.py:120`), not the voyage-4 ones it names.
* *Sync.* With an operator's run and a job under way together (`Overlap`), a replace
  deletes mail that the saved token says is there (`gmail_smoke_ingest.py:405`). A
  thread's id hashes the root found in one batch (`threads.py:126`), so a partial sync
  moves messages to other threads, against `docs/specs/00-l0-ingest.md:33` ("must not
  duplicate or churn").
* *Projects.* Two communities that end with the same threads get one id
  (`materialize.py:40`), and the insert of both rows is refused: the run fails. A run
  that finds no eligible thread returns early (`materialize_projects.py:252`) and leaves
  the projects of threads that have been tagged since. The mailbox's owner is one person
  row, set once (`gmail_windowed.py:195`): where a second address of the owner resolves
  to another person, that person becomes a member of projects.
* *Maps.* The project mode of the relationship map links members whose person rows it
  has not read.
* *Answers.* A failed SQL statement in retrieval leaves the transaction aborted
  (`cover_for_me.py:153`), so the fallback's statements fail and the answer is a 502.
  `degraded_rate_limit` is never reported: `cover_for_me.py:155` looks for the name of
  an exception class in the text of the exception, where the embedding client never
  puts it.
* *Handoff.* A scope narrowed after generate leaves the wider evidence to be published
  (`handoff.py:250`). Handlers decide on the copy that the route guard loaded: a
  generate or scope change may alter a package that was published meanwhile
  (`handoff.py:280`), against `docs/s17.2-handoff-package-domain-spec.md:310`
  ("Immutability after publish"). With two API processes two versions of a lineage stay
  live (`handoff.py:595`). Publishing an older draft supersedes a newer published
  version: versions number the forks, not the publications. A new version of a return
  package is created without `package_type` and without a return context. The diagnostic
  "all_events_excluded_by_policy" is also given where the events belong to projects out of
  scope (`generator.py:114`), which no policy gate removed; `DiagnosticHolds` leaves this
  code out. A finding is told by its category and its row (`safety.py:135`), and evidence is a
  row by its header: what the creator acknowledges of a message stands for the same category
  on a later body of it, after a regeneration, and on the same message in another package,
  against `safety.py:13` ("a finding always reflects the CURRENT package") and
  `handoff.py:466` ("acknowledges every current high finding"). `PublishedWasReviewed`
  promises of such evidence the same message and the same pattern, and of all the rest the
  row as it is.
* *OAuth.* An account whose subject Google does not tell is not kept to one owner
  (`flow.py:159`): `OneOwnerPerGoogle` is of the accounts in `Subjects`.
* *Governance.* A change whose audit commit fails stays without its row: the repeated
  request finds nothing to do and writes none (`routers/admin.py:251`).
  `AuditIsComplete` accounts for such rows in `lost`.

### Bounds, and why they are enough

* **queue**: two workers, one client, two rows, two attempts, keyed and keyless jobs,
  one outlived lease. Two rows are what a key conflict needs, two workers what a
  double execution needs, one overrun gives one late writer for every final write.
  The client can read a row, be overtaken by a whole run, and write.
* **queue_live**: a second client so that two enqueues race, and one aborted run so
  that recovery happens; no overrun, because the properties are about kept leases.
* **mailbox**: two mailboxes, three messages, two threads, a tagged message. One
  mailbox has every subset of two messages of one thread as windows (shrinking,
  growing, disjoint, empty), the other exists to be left alone.
* **sync**: three mails, one a day, of which one refers to the first and to a reply the
  mailbox never gets, and one is in their provider group without a header; caps that
  cut a listing and caps that do not; a page of one, so that a history has pages.
* **projects**: five mails in three threads, one mail tagged, two addresses of one
  person; `MaxIngests` = 2 puts two writing jobs anywhere among the reads. The
  thresholds of `ClusteringParams` that a run this small cannot reach are constants.
* **maps**, **answers**, **content**: `MaxWrites` = 1, a commit between any two of a
  request's statements. `maps` and `answers` start from every state that the jobs leave rows of this size
  in, so nothing has to lead up to the one commit in between; two
  mailboxes share a Message-ID in `answers`. `content` has two packages, two generations
  (`MaxGen`), scopes that select by window, project, person and exclusion, questions for
  every intent and for none. A message has two bodies, one at a time, with high words of one
  category and of two, and a claim has a high word: a finding that was shown may be of the
  present row, of an earlier body of it, or of the other package's. `maps` names two nodes as
  possible roots (`MapRoots`) and lists one shared thread of a contact (`MaxShared`), so that
  both a root without links and a list that is cut occur.
  What could get a message past the generator's gates takes more than one commit (a
  replace that closes a thread after it was found eligible, and an extraction): for any
  number of them `PackageHolds` is proved.
* **handoff**: `MCBound` lets two packages be of any lineages with everything
  happening to them, or three be versions of one lineage none of which has been
  visited. Two packages are what supersession relates, three what the order of forks
  and of publications needs. Two requests and two visitors are what a race needs.
  `MCBound` also keeps scopes full: of this run's properties none looks at a scope,
  except through the evidence, which may still be any subset of it.
* **oauth**: two mailboxes of two owners, two providers, three Google accounts of which two
  may consent for both mailboxes, one with a subject and one without; three states and three refs are a connect, a reconnect and
  another's connect; two faults (`MaxFaults`) leave an orphan and a dangling row at once.
* **governance**: two tenants, an administrator in each and an owner who may review; two
  API processes, which is what a statement seeing another's commit needs; `MaxJobs` = 1,
  `MaxFaults` = 1. Both packages are `Flagged`, so that each publish owes two rows at least.
  `Fates` lets grants expire: to the administrator's view a consumed
  grant is another usable one.
* `Overlap` is FALSE in `handoff`, `oauth` and `sync`: one API process, one sync run at
  a time. "Known disagreements" says what fails otherwise.
* Ids, workers, requests and visitors that are interchangeable are symmetric.

### Fairness

Only `queue_live` needs it. `run_worker.py` polls for ever, so a claim is taken while
one is due; a handler returns or raises; a cancel that was read is written; leases and
backoffs run out with time. Nothing forces a new request, a crash or an overrun, and
crashes are finitely many (`MaxAborts`). Fairness of `Claim` is for *some* worker and
*some* due row: `SKIP LOCKED` gives no particular row a promise. With finitely many
rows that is enough for every job to end.

## 4. What is proved

Every theorem holds for every value of the constants that satisfies the module's
`ASSUME` and the assumptions in the theorem.

| Theorem | Statement | Assumption | Argument |
|---|---|---|---|
| `JobQueueProofs!TypeCorrect` | `Spec => []TypeOK` | | with `RunsOnJob`, `CancelsJob`: a run and a cancel name a row |
| `OneActiveJobPerKeyHolds` | `Spec => []OneActiveJobPerKey` | | the index is checked by the insert and by the only write that makes an ended row active again, a late requeue; every other write keeps a row's key and makes no row active |
| `LoadedCancelHolds` | `Spec => LoadedCancelNeverSucceeds` | | invariant `WorkingSawNoCancel`: past its checkpoint a run's copy has no cancel |
| `QuietTerminalHolds` | `Spec => QuietTerminalIsFinal` | | by cases on the actions: each names the run or the request that writes |
| `AttemptsAreBoundedHolds` | `Spec => []AttemptsAreBounded` | finitely many workers | invariant `ChargeInv`, below |
| `LeaseIsALock` | `Spec => []SingleExecution /\ []RunningIsReclaimable` | `MaxOverruns = 0` | invariant `OwnerInv`: the row of an executing worker carries its name and a live lease and is running or canceled, and a running row has a lease |
| `MailboxProofs!TypeCorrect` | `Spec => []TypeOK` | | |
| `SurfacesHold` | `Spec => []SurfacesReflectStored` | one worker | invariant `Current`: what the only session has read is still stored |
| `PromiseKept` | `Spec => KeepsPromise` | no client fault | a raise then changes no row (`RaiseLeaves`); step simulation: `StoreL0` is `Taken`, a raise before it `GivenUp`, everything else stutters |
| `ScopedHolds` | `Spec => ScopedToMailbox` | no contact in reach of two mailboxes | invariant `LocalInv`: rows and sessions of a mailbox mention only its reach |
| `PaidOnceHolds` | `Spec => NeverPaidTwice` | one worker | invariant `Unpaid`: what the session is about to send has no vector |
| `MailSyncProofs!TheTokenIsComplete` | `Spec => []TokenIsComplete` | one run at a time (`~Overlap`) | invariant `OnTheWay`: a run that will save the token has listed, and from its commit on stored, everything between the token it started from and the history id it has read |
| `TypesHold` | `Spec => []TypeOK` | | invariant `StoreInv`, with several runs at once: what a run has listed had arrived and is of its window (`RunHolds`), and a stored message is in the thread of an id that mail links it to (`ThreadsLink`) |
| `WindowsAreInclusive` | `Spec => []WindowIsInclusive` | | by `StoreInv`: a list keeps what its bounds kept, whatever arrives meanwhile |
| `HeadersMakeThreads` | `Spec => []ThreadsFollowHeaders` | | the union-find is a forest (there are ranks that grow towards the root, `IsForest`) whose roots agree on exactly what the headers joined so far link; each join adds one link. By induction on the list, in any order |
| `HalvingFindsTheSame` | one halving of a path leaves a forest with the same roots | a forest | the path halving of `UnionFind.find`, which the model leaves out, changes nothing that can be seen (no run states it) |
| `MapTypesHold` | `MapsSpec => []MapsTypeOK` | | invariant `MapInv`: what each statement of a request has returned, against what the rows hold now or have held since the request began |
| `ViewsAgreeHolds` | `MapsSpec => ViewsAgree` | | by `MapInv`: the edges that are kept are those between nodes that are kept; a list that no commit has overtaken still says the state of its projects |
| `DirectIsBackedHolds` | `MapsSpec => DirectIsBacked` | | by `MapInv`, and `DirectRests`: the edge exists only with safe messages between the two, and those that a request holds have been stored since it began (`MailHeld`, `Extant`) |
| `AnswersProofs!TypeCorrect` | `Spec => []TypeOK` | | |
| `AnswersCiteOwnMail` | `Spec => []CitesOwnMail` | | invariant `Held`: every header a request carries, hits, allow-list and claims, is of mail the mailbox has had since the request began |
| `DetailsHold` | `Spec => DetailsAreSafe` | | no step but the gate and the route of a source shows a detail (`OnlyTheGateShows`), and both take it from the rows as they are |
| `HandoffProofs!TypeCorrect` | `Spec => []TypeOK` | | with `OnPackage`: a request names a package |
| `OneReaderHolds` | `Spec => []OneReaderPerCode` | | invariant `Basic`: a session implies a consumed code, a consumed code a grant, a grant is never made anew |
| `OneLiveHolds` | `Spec => []OneLiveVersion` | one API process (`~Overlap`) | invariant `Alone`: a handler between its reads and its commit is the only one, so the prior packages it has read are the published ones of its lineage still, and the commit supersedes them all |
| `VersionsHold` | `Spec => []VersionsDistinct` | one API process | by `Alone`, the version read is above every version of the lineage when it is inserted (no run states it) |
| `EndedHolds` | `Spec => []EndedIsClosed` | one API process | by `Alone`, the package whose code a visitor has checked is still published when the session is inserted |
| `SharingHolds` | `Spec => KeepsSharing` | one API process | step simulation: drafts are `Created`, a publish is `Opened`, a revoke, an expiry or a generate on a stale copy is `Closed`, everything else stutters |
| `GovernanceProofs!TypeCorrect` | `Spec => []TypeOK` | | with `AllAimed`: what a request is about fits what it does |
| `AuditHolds` | `Spec => []AuditIsComplete` | | invariant `Audited`, `OnlyOwersOwe`: a row, and the second one of a publish with an override, is written, lost or owed from the commit of its change on, and only a request that owes can lose it; a revoke finds its package past draft (`PastDraft`) |
| `ViewsHold` | `Spec => []AdminViewsHold` | | invariant `ViewInv`: what a detail has read of a package can only have moved on since, a grant towards revoked, a status towards its end |
| `OAuthProofs!TypeCorrect` | `Spec => []TypeOK` | | with `Aimed`: a request and an open state name a slot |
| `OneOwnerHolds` | `Spec => []OneOwnerPerGoogle` | one API process (`~Overlap`) | invariant `Vaulted`: the only request under way finds what it has checked and read still true, so the Google account is free at the commit |
| `TokensAreKept` | `Spec => []TokensHold` | one API process | by `Vaulted`, whose `OwedPaid` and `LoosePaid` count, against the failures, the orphans, the tokens that become orphans at the next commit, and the rows without their token that no request is about to write |
| `HandoffContentProofs!CandidatesHold` | `Spec => []PackageHolds` | noise is a function of the mail | invariant `ContentInv`: the row of a citation stays as long as its event (`EventsBacked`), so a citation in a thread found eligible has been open since (`CitesOpen`), and one that passed the gates is neither noise nor removed (`SafeIsSafe`, `CitesSafe`) |
| `PublicationIsReviewed` | `Spec => PublishedWasReviewed` | as for `CandidatesHold` | the scan's first match of a category is never a lower one where a high pattern matches (`HighIsFound`), and a high finding has one pattern (`FoundIsHigh`); invariant `ReviewInv`: what the creator was last shown is what the package holds, unless it was generated again; no other handler publishes (`OnlyPublish`) |
| `TypesHold` | `Spec => []TypeOK` | as for `CandidatesHold` | invariant `TypesInv`: rows are finite and uniquely keyed, the claims that a recipient's handler has read are still the package's unless it has been generated anew |
| `WhatIsShownHolds` | `Spec => []ShownHolds` | as for `CandidatesHold` | by `TypesInv`, over any sets of claims and evidence: the candidates of an answer are finite, so one of them scores highest and the cut keeps it; entries and sections partition what is shown |
| `JobQueueProofs!ProjectTypesHold` | `ProjectsSpec => []ProjectsTypeOK` | | invariant `ProjectsInv`, below |
| `ClusteringsHold` | `ProjectsSpec => []StoredIsAClustering` | | by `ProjectsInv`: a thread that joins communities has one of greatest weight, which is its primary one; two communities with one id are refused |
| `ExcludedLeaveHolds` | `ProjectsSpec => ExcludedLeave` | | by `ProjectsInv`: every later read of a run is of threads that were eligible |

`ChargeInv` bounds, for each row, its attempt number plus the claims that may still come:
one if the row is open to a claim (queued, without a live lease, or with an owner that is
gone) and one for each worker at work on it whose copy would let it requeue. The sum is
at most the limit plus the abandoned runs and outlived leases so far. A claim moves one
unit from the first kind to the attempt and the worker; a retry moves it back; the final
marks give it up; an abort or an overrun makes a new one and is counted.

`ProjectsInv` says of each stage of a run what it has read and computed (`IsRun`): mail of
eligible threads only, similarities that are naturals, profiles of communities that are not
empty, weights in 10..10000. The last needs the similarity functions to stay within their
scales: a cosine is at most 100 by the inequality of Cauchy and Schwarz, a Jaccard because an
intersection is no larger than its union, weighted or not.

An invariant is seldom inductive as it stands; the named invariants above are the
strengthenings, checked by TLC before they were proved. The proofs go through
`Next` action by action, over lemmas that say what each record edit leaves alone.

Recursive functions (the union-find, the listing) and folds (the sums of `Projects`) need
induction, whose theorems in the library take an operator that the provers cannot supply. The
proofs state it of sets instead: a non-empty set of naturals has a least member
(`LeastNat`), so a set that holds 0 and the successors of its members holds all of them
(`InductionUpTo`), so a recursive function is one (`Recursion`); likewise for finite sets
(`SetInduction`), from which a sum is what its fold computes (`SumIs`, `SumGrows`) and a finite
set that is not empty has a greatest member (`Greatest`).

The assumptions on constants say what the code or the database guarantees: finitely many
mails, each with a place in the order of its day; caps and thresholds that are numbers in
their ranges; logarithms that do not decrease. None fixes how many rows, mails, packages or
requests there are. Of the restrictions in the column "Assumption", one API process, one
worker, one run at a time, no overrun, no client fault and contacts of one mailbox are those
without which the property fails ("Known disagreements" says how); the others say what the
data is.

Every invariant and every action property that a passing run checks is stated by a theorem.
Only model-checked is `EveryJobEnds`: liveness under fairness, and ENABLED, are out of
the prover's reach. `mailbox_replace` has a counterexample and no theorem.

## 5. Not modelled, and abstractions to know

* **Queue**: progress counters (`update_progress` commits nothing else), result
  summaries and retention. The claim takes the oldest due row that no other claim may
  have locked; the lock itself is not a variable.
* **Mailbox**: transactions are atomic at their commit; two replaces interleaved
  statement by statement are not modelled. Org and attachment rows and a message's
  changed content are left out. A batch is any non-empty set of candidates. Two facts of
  the code outside the model: an append overwrites edges with the window's counts, and a
  duplicate attachment hash within a batch makes the upsert fail every time.
* **Sync**: what normalization does to a mail's text (cleaning, addresses, the noise and
  sensitivity rules) is text processing. A mail that Gmail deletes is not modelled. A history
  id in the answer of a listing would replace the profile's (`gmail.py:162`); the model has
  Gmail as the code describes it, which sends none there (`gmail.py:141`).
* **Projects**: vectors, keywords and name similarity are data of the instance; the
  partition of Leiden is any one that the edges connect. Numbers are whole: the
  logarithms of the document frequencies are a table that does not decrease, the Gauss
  curve of the gap between threads has steps, roots and quotients are rounded down. A
  confidence is cut off to 0..100 by the code itself (`confidence.py:53`).
* **Maps, Answers, HandoffContent**: scores, wording, dates and labels; what PostgreSQL
  and the models rank and write is free. A text is the set of its words, and a regular
  expression is a word. The HTML of the export is layout. Audit rows are in `Governance`.
* **Handoff**: claims, exclusions and findings are in `HandoffContent`, audit rows in
  `Governance`. `last_accessed_at` is left out. Two generates interleaved statement by
  statement, and two scope updates writing different columns, are not modelled. A
  session's kill takes effect at the commit.
* **OAuth**: PKCE, scopes and the environment token of the development mode. The vault
  swallows a provider's refusal to revoke (`vault.py:95`); the entry is dropped either way,
  and the model has entries, not what the provider still honours.
* **Governance**: checks that only warn, rate limits, redaction, counts in views. No
  identity provider is wired in the code; whom one may sign in is external.
* **Not modelled at all**: the frontend, the seed, evaluation and live-quality scripts,
  and the schemas and migrations. `PROJECT.json` gives the reason for each.

## 6. Plan

1. Theorems under weaker assumptions: which of the promises about a lineage survive several
   API processes (`Overlap`), and what the mailbox keeps with two workers, as counts against
   the overlaps, in the way that `AttemptsAreBounded` counts outlived leases.
2. Composition: the queue's claim and lease over the mailbox's jobs (a re-claimed
   ingest), with the idempotency keys of `gmail_ingest` and `pipeline_jobs`.
3. Two workers on one mailbox as a run of its own, once jobs of one mailbox exclude each
   other in the code.
