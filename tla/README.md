# TLA+ models of the MemWal relayer

The relayer (`src/relayer`, Rust, axum) stores memories: it embeds and SEAL-encrypts a text, uploads the
ciphertext to Walrus through a Node sidecar (`src/relayer/scripts`), which also pays for it on Sui, and indexes
its vector in PostgreSQL. It runs in a Nitro enclave whose key a Move contract registers. This directory holds
TLA+ modules of its stateful parts, TLC configurations that check them, and TLAPS proofs.

Paths below are short: `routes.rs` is `src/relayer/src/routes.rs`, `sidecar-server.ts` is
`src/relayer/scripts/sidecar-server.ts`. `PROJECT.json` gives, for every definition, the lines it models.

## 1. The system

| component | state | operations | what makes it correct | module |
|---|---|---|---|---|
| Remember pipeline: `routes.rs`, `jobs.rs`, `walrus.rs` | `remember_jobs` row, preparation task (memory only), Apalis job, `vector_entries` row | accept, prepare, enqueue, fetch, upload, index, report, retry, kill, redeliver | an indexed blob belongs to its owner; `done` means recallable; a job that is over is reported; attempts are bounded; a queued job ends | `RememberJobs`, `MemoryPromise` |
| Sidecar upload: `sidecar-server.ts` 730-906 | three Sui transactions per request, no memory between requests | register, certify, set metadata and transfer; metadata batch | success is answered only after the transfer | inside `RememberJobs`, `BulkRemember`, `LegacyJobs` |
| Memory index: `routes.rs` recall, ask, restore, remember_manual; `db.rs` | `vector_entries`; the tasks of each request | search, download, decrypt, clean up, query chain, select, insert | rows can be rebuilt from the chain; rows go only for a reason; restores copy nothing they found | `MemoryIndex` |
| MCP sessions: `mcp/index.ts`, `mcp/rateLimit.ts` | two session maps, limiter counters, heartbeats | open and close SSE, initialize / delete streamable sessions, shutdown | counters equal slots held; caps bound live transports; unused slots return | `McpSessions`, `SlotLedger` |
| Bulk remember: `routes.rs` 323-410 | one row per item; the futures of one handler | insert rows, run items a few at a time, answer | the width is kept; `done` means recallable; nothing changes after the end | `BulkRemember` |
| Jobs of earlier versions: `jobs.rs`, migration 008, `main.rs` | rows of four queues, job rows, Blob objects | collapse the queues, fan out, execute, transfer | no job is left in a queue nobody reads; each item is queued; an ended row says how | `LegacyJobs` |
| Rate limit: `rate_limit.rs` | three windows in Redis | check and record each window | the overshoot is bounded; layers agree; nothing recent is forgotten | `RateLimit` |
| Storage quota: `rate_limit.rs`, `db.rs` | `SUM(blob_size_bytes)` over the rows | check, insert later, execute again, clean up | the excess is what was in flight; a job is charged once | `StorageQuota` |
| Authentication: `auth.rs`, `sui.rs` | nonces in Redis, delegate-key cache | verify, consume nonce, resolve, re-verify, cache | an accepted key was listed; a listed key is accepted; a message passes once but for a client whose clock leads | `Authentication` |
| SEAL client: `seal.rs`, `sidecar-server.ts` 388-640 | session key per request | encrypt, decrypt, batch | — (cryptography) | outcomes only, in `MemoryIndex` |
| Process supervision: `main.rs`, `init.rs`, `run.sh` | relayer, sidecar child, the port, the machine | start, probe, give up, serve, shut down, reboot | in an enclave a relayer reaches a sidecar of its own start | `Supervisor`; a crash also in the job modules |
| Enclave identity: `enclave.rs` | ephemeral key | attest, sign | a key stands for one image | `EnclaveRegistry` |
| Enclave contract: `contracts/nautilus/sources/enclave.move` | configuration, enclaves | register, update PCRs, migrate, delete | the current enclave vouches for the expected image | `EnclaveRegistry` |
| MCP tools, types, boot scripts, VSOCK bridges | none over time | — | — | not modelled |

How they interact: the routes write the row and spawn a task; the task pushes an Apalis job; the worker calls the
sidecar by HTTP and writes rows; the sidecar talks to Sui and to Walrus. Restore, recall and ask read and delete
rows the workers write. MCP sessions call the HTTP API of the relayer like any client. Each protected request passes
authentication, then the rate limit; the quota is asked by the preparation task and by `remember_manual`.

Where it is hard: a client-side timeout leaves the sidecar working; every status UPDATE of the worker ignores its
error; a restart kills tasks but not rows, jobs or chain objects; requests act on answers they read several awaits
ago; the release of an MCP slot is wired to several events. The `hazards` of `PROJECT.json` list each at its line.

## 2. Modules

**`MemoryPromise`** is the abstract specification: a memory goes absent → accepted → durable → recallable and never
back; a separate report may say `done` only of a recallable memory. **`SlotLedger`** is the other one, of the MCP
limiter: a ledger of slots that never forgets an entry; a slot is taken below three caps, refused only at one of them,
and given back once.

**`RememberJobs`** has per job: `status` (the row), `prep` (the in-memory task), `queue` and `attempts` (Apalis),
`pc` (worker), `req[k]` / `obj[k]` (the sidecar request and the Blob object of execution `k`), `vec`, `lost`.

| code | action |
|---|---|
| `remember`, accepted facts of `analyze` | `Accept`; the spawn may be lost to a crash or a closed connection |
| `spawn_prepare_remember_job`, `enqueue_wallet_job`, `mark_remember_job_failed` | `PrepareFails`, `Enqueue` (stored and confirmed / not stored / stored, confirmation lost), `PrepareMarksFailed` |
| Apalis (external) | `Fetch`, `Ack` |
| `execute_upload_and_transfer` | `StartUpload`, `UploadSucceeds`, `UploadFails`, `UploadTimesOut`, `MarkUploaded`, `InsertVector`, `MarkDone`, `MarkFailed` |
| `/walrus/upload` | `RegisterBlob`, `CertifyBlob`, `TransferBlob`, `Respond`: an error can follow each committed step |
| process death and restart | `Crash` |

`SetStatus` is `let _ = sqlx::query(...)`: the UPDATE happens or is silently lost (at most `MaxLost` per job).
Apalis is modelled as the code uses it: a Pending job is always handed out, a Failed one while attempts remain,
`Abort` kills, a Running job is queued again at the next start, one execution of a job at a time.

**`McpSessions`**: an action is what Node runs between two awaits. `Acquired`/`Denied`/`Release` are the limiter,
`ReleaseSlot` the one-shot closure of `releaseFn`, `Cleanup` the function both transports call on close. SSE takes
its slot before the login (`SseArrives`, then `SseRefused` or `SseOpens`), streamable HTTP after it
(`HttpArrives`, `HttpAuthorized`, `HttpInitialized`, `HttpReturns`, `HttpCloses`, `HttpDeletes`). `Shutdown` and
`ShutdownCloses` end sessions one by one while requests still arrive. A time-stamp in the list of opens stands as
the connection that made it (`openedAt`), since two opens may have the same millisecond.

**`MemoryIndex`**: one owner and namespace. `rows` is the table, a row being `<<blob, writer, number>>`; `uploads[b]`
counts the Blob objects a retry can leave on chain for one blob id. A request is a set of tasks in `fetching`,
`opening` or `dropping`, one per hit or object, that move independently. `existing[r]` is the `existing_set` of restore
`r`. `denied` and `stale` are history: of the pending deletions, those whose decryption failed, and those that read 404
before the blob was stored again. A blob id is a content address, so `expired` shrinks too: the same ciphertext, sent
again by a client or uploaded again by a repeated job, has the blob served again.

| code | action |
|---|---|
| wallet worker, `remember_manual` | `Certify` (an expired blob is stored again, transferred or not), `Upload`, `Index` (job id: upsert; manual: fresh id) |
| Walrus (external) | `Expire` |
| `restore` | `RestoreQuery` (`/walrus/query-blobs` may omit objects), `RestoreSelect`, `Fetch`, `Drop`, `Open`, `Insert`, `Return` |
| `recall`, `ask` | `Search`, `Fetch`, `Open`, `Drop`, `Return` |
| restart, migration 007 | `Restart` |

**`BulkRemember`**: one call of `remember_bulk`. `handler` is the call, `pc[i]` the future of item `i` inside
`buffer_unordered`, `req` / `obj` the sidecar request and its Blob object, `status` / `vec` the rows.

| code | action |
|---|---|
| `remember_bulk` | `Begin`, `InsertRow` (an error may follow a stored row), `Process`, `StartItem`, `Answer` |
| the future of an item | `PrepareItem`, `UploadTimesOut`, `IndexItem`, `CompleteItem`: each `?` ends the item |
| `/walrus/upload`, answer of `upload_blob` | `RegisterBlob`, `CertifyBlob`, `TransferBlob`, `Respond` |
| closed connection, process death | `Disconnect` (the sidecar goes on), `Crash` |

A statement that PostgreSQL executes although its future is dropped counts as executed before the drop. Rows are
inserted in any order, not by index. The wait of `buffer_unordered` is a count: a future starts when fewer than
`Width` are under way.

**`RateLimit`**: one account. `entries[w]` is the sorted set of a window, `deadline[w]` its EXPIRE, `mw[r]` the
middleware's call for request `r`: its phase, its layer, and the `now`, key and weight it read on arrival.

| code | action |
|---|---|
| `rate_limit_middleware` | `Arrive`, `Check` (pass, 429, or a Redis error, which passes), `Record` (each layer one call) |
| `check_window`, `record_in_window` | `Prune` inside `Check`; `Charge` inside `Record`, whose pipeline may fail after any command |
| closed connection, process death | `Dropped` |
| Redis, time (external) | `Expire`, `Tick` |

A member is `<<now, offset>>`: two requests of one millisecond write the same ones. `Requests` are the places in the
middleware, used again and again, so their number is the number of concurrent requests. A lasting Redis outage is
many failed calls. `Expire` may come late, which only adds behaviours.

**`Authentication`**: deliveries of messages signed with one delegate key. `phase[r]` is where `verify_signature` awaits
for delivery `r`, `account[r]` the account in hand; `nonces` is Redis, `cache` the row of the key, `holds` the accounts
that list it on chain.

| code | action |
|---|---|
| `verify_signature` | `Arrive` (timestamp against the clock), `RefuseBody`, `Admit` (SET NX EX of the nonce) |
| `resolve_account`, `sui.rs` | `Lookup` (cache row), `VerifyCached`, `ScanAccount`, `ScanEnds`, `VerifyFallback`, `CacheAccount` |
| closed connection | `Dropped` |
| chain, life of the cache row, time (external) | `ChangeKeys`, `CacheExpires`, `Tick` |

**`LegacyJobs`**: what the queues of earlier versions hold at the first start of this one. `queue` and `attempts` are the
Apalis rows, `stuck` the jobs in queues no worker reads, `pc` the handlers, `owned` the blobs their owners hold, `status`
and `vec` the rows of a memory.

| code | action |
|---|---|
| migration 008, start of the monitors | `Start` |
| `execute_bulk_remember` | `Push`, item by item |
| `execute_remember`, the wallet job's upload | `MarkRunning`, `Upload`, `MarkUploaded`, `Insert`, `MarkDone`, `MarkFailed` |
| both transfer handlers and `/walrus/set-metadata-batch` | `Transfer`: the chain, then an answer that may be lost (`Unanswered`) |
| Apalis, process death (external) | `Fetch`, `Ack`, `Crash` |

**`StorageQuota`**: one owner. `rows` holds the row of each stored blob, `pc[u]` the request, task or job of upload `u`;
`peak` is history: the most bytes that were admitted and not yet stored when some upload was admitted.

| code | action |
|---|---|
| `spawn_prepare_remember_job`, `remember_manual` | `Ask` |
| `check_storage_quota`, `get_storage_used` | `Admit`, `Refuse`; `Bytes` is the SUM, by counting the bytes of a union |
| push and executions of the wallet job | `Enqueue`, `Execute` (stored or not, ended or executed again) |
| `remember_manual`; bulk items and restores | `InsertManual`; `InsertUnchecked`, since they never ask |
| `delete_by_blob_id`, process death | `Cleanup`, `Crash` |

**`Supervisor`** has the processes of one deployment, in an enclave or on a host (`enclave_mode`). Each start has two
servers that compete for one port: `Own(b)`, spawned by the relayer, and in an enclave `DryRun(b)`, which `run.sh` tries
for three seconds before it starts the relayer (stage `checking`). **`EnclaveRegistry`** extends it with documents, responses and the contract.

| code | action |
|---|---|
| `main.rs` 67-193 | `LaunchOnHost` (spawn), `Probe`, `GiveUp` (kill, panic), `Serve` (with a fresh key pair) |
| `init.rs`, `run.sh` 166-191 | `LaunchEnclave` (dry run), `StartRelayer` (kill of what was noted, relayer, its spawn) |
| `main.rs` 385-399; a failed `expect`, a signal, a crash | `Shutdown` (kill); `Killed` (nothing is killed) |
| `sidecar-server.ts` 1195-1202, end of its process | `SidecarListens` (or not, if the port is taken), `SidecarDies` |
| `run.sh`, `init.rs` | `Reboot`: the enclave goes down after its relayer |
| `enclave.rs` | `GetAttestation`, `SignResponse` |
| `enclave.move` | `RegisterEnclave`, `UpdatePcrs`, `Migrate`, `DestroyOldEnclave`, `DeployOldEnclaveByOwner` |
| Sui (external) | `Upgrade`: `VERSION` is 0 in this commit, `migrate` is written for a later one |

A kill reaches what was spawned, `npx` or `tsx` or the shell of the dry run; whether the server below ends with it is left
open, in `main.rs` and in `run.sh` alike. A signature stands
for the key that made it; a document may be registered at any time after its fetch, as long as the PCRs match.

In **`MemoryIndex`** the constant `Credential` says whether `/seal/decrypt` finds a credential on a request. The
sidecar reads it from
the headers `x-seal-session` or `x-delegate-key`; the relayer sends neither, it puts the key in the body. So
`FALSE` is the code as it stands, where no decryption succeeds: run `index_cleanup` uses it. The passing run uses
`TRUE`, because otherwise no restore would get as far as its inserts; the actions are the same, and every
behaviour with `FALSE` is one with `TRUE`, so its safety properties hold for both. The proofs cover both values.

Operators whose name says a mistake (`AckRetriesForever`, `IndexEarly`, ...) stand before the definition they
vary; no specification uses them. They exist to see each property fail.

## 3. What TLC checks

| run | instance | question |
|---|---|---|
| `remember` | 1 job, 3 attempts, 2 crashes, 1 lost UPDATE | safety, progress, liveness and refinement of one job |
| `mcp` | 2 SSE + 1 POST, 2 addresses, caps 2 / 1 / 2 per window of 2, clock to 3 | limiter and handlers against `SlotLedger`, with the return of unused slots |
| `index` | 2 blobs (one queued, one manual), 2 restores, 1 recall, limit 1, 1 restart | index safety and progress under concurrent requests |
| `rate` | 2 requests at a time, 2 keys, weight 2, limits 1 / 2 / 3, spans 2 and 3 of a clock to 4, 1 failed call | the three windows under interleaving, drops, failures and expiry |
| `bulk` | 4 items, width 2 | the stages of many items at once, with errors, disconnect and crash |
| `auth` | 2 deliveries of one message, 2 accounts, window 1, nonce life 2, failed reads | nonce, cache and chain while all of them move |
| `legacy` | a bulk job of 2 items, an old upload, an old transfer; every backlog, lost pushes, a crash, a lost UPDATE | old jobs to their end |
| `quota` | 3 jobs, 1 manual upload, 1 unchecked row, quota 4 of sizes 1 to 3, 2 executions | check first, insert later |
| `enclave` | 3 starts of 2 images, each with its two servers, 2 registrations, 1 upgrade, 1 probe, both modes | who vouches for a response, who answers on the sidecar's port |
| `remember_accepted`, `mcp_leak`, `index_cleanup` | smallest that shows it | a comment or a test says one thing, the code does another |

*Properties of the pipeline.* `IndexedIsOwned`: no order of timeouts, late answers and retries indexes a blob the
server wallet still holds. `FinishedIsReported`: when Apalis is done with a job its row says so.
`DoneIsFinal`: `done` is revised only after a
crash or by a preparation that took a stored push for a failed one. `EnqueuedIsSettled` (liveness).
`JobsAdvance` (progress, see below). `KeepsPromise`: the pipeline implements `MemoryPromise`. `IInv`, the invariant behind
them; it has `DoneIsRecallable` and, in `AttemptsInv`, that executions exceed attempts by at most one per crash.

*Properties of the sessions.* `KeepsLedger`: counters, pruned lists, forgotten addresses and releases that may be called
again decide as `SlotLedger` does, granting nothing above a cap and refusing no stream below all of them. `SlotsAreOwned`:
a held slot counts a live session or a handler that stands at the await whose outcome registers or releases it.
`SessionsWithinCaps`, `BurstBound` (the opens of an address in any window, although release may forget the address),
`UnusedSlotReturns` (liveness). `MInv` has `CountersMatchSlots`.

*Properties of the index.* `OnlyGoneRowsVanish`: but for a restart, a blob leaves the index only in a step that carries
out a deletion of its own task, and the blob is expired still, or that task's decryption failed, or the blob was stored
again between that task's 404 and its DELETE. The third case is a defect (see Disagreements); the property says that
the damage goes no further: whatever ends, expires and returns meanwhile, an answer about one blob, or the answer of another
task, deletes nothing. `NoLateCopies`: a restore has no row of a blob of which it had found rows, however late it inserts.
`RequestsAdvance` (progress). `IndexInv` has `RowsAreOnChain`, by which the table can be restored, and that a task is at one
stage at a time.

*Properties of a bulk request.* `AnswerIsLast`: sidecar requests outlive the handler but change no row
or vector after its end; `ItemsAdvance` (progress); `KeepsPromise`, the promise of the pipeline; `BulkInv`, the invariant
behind them, by which only an item whose blob the owner holds is indexed, with `WidthBound`.

*Progress.* `JobsAdvance`, `BacklogAdvances`, `ItemsAdvance` and `RequestsAdvance` are safety properties, each of two
halves. In every state, work that is not over has a step whose guard holds (`MayMove`, `MayStep`, ... repeat the guards of
the actions). And each step of the work lowers a measure (`WorkLeft`, `StepsLeft`, `TaskLeft`) that nobody else's step
raises, but for the fetch of an execution and a crash, which are bounded and paid for by the attempts and by the bound on
crashes. Together they exclude that the parts wait for each other in a circle and that work goes round for ever. Whoever
assumes that each awaited call returns has the end of the work from them: for two of them TLC also checks
that end under fairness (`EnqueuedIsSettled`, `BacklogEnds`).

*Properties of the rate limit.* `OvershootBound`: a window holds at most limit - 1 plus one largest weight for each
concurrent request and each failed call; the bound is reached. `LayersAgree`: a charge on the account is never
missing on the keys, though requests are dropped between two recordings. `ForgetsOnlyOld`: neither pruning with a
stale `now` nor EXPIRE removes a recent member; in the run each key lives just as long as its window.

*Properties of authentication.* `AcceptedWasDelegate`: the account of an accepted request listed the key at some moment
of that request, whatever the cache said. `SteadyKeyIsAccepted`: a key that stays registered with a named account is
not refused for a stale row, unless reads fail. `SecondAdmissionNeedsLead`: a message is admitted twice
only if its client's clock led and its second body came late by, together, the nonce's life less the window.

*Properties of the old jobs.* `EndedRowIsReported`: when all jobs of a row have ended the row says how, unless an UPDATE was lost.
`StepsKeepPromise`: several jobs on one row still implement `MemoryPromise`. `BacklogEnds` (liveness): no job stays in a
queue without a worker. `BacklogAdvances` (progress). `LegacyInv` has `FannedOutIsQueued`: a bulk job that counts as done
has queued each item, over retries and lost pushes.

*Properties of the quota.* `QuotaOvershoot`: what asked and is stored exceeds the quota by at most `peak`, hence by
nothing when uploads follow each other, although jobs are executed again and rows come and go. `QuotaInv`: one row per
upload, and the same bound of what may yet be stored.

*Properties of the enclave.* `TrustedImage`: a response that verifies against the current enclave was signed by the image
the configuration expects now; it joins the fresh key of a start, the attested PCRs, the check at registration and the
reset by `update_pcrs`. `TrustIsEarned`: an enclave that stops being current never is again, and the key of a start is
new to every document, response and registration, so a restarted relayer is trusted after its own registration only.
`EnclaveServesOwn`: no sidecar of an earlier start answers in an enclave. `RegistryInv`: one image per key; and
`GoneForAReason`: the holder of the Cap destroys only what a migration superseded and never the
current enclave, so nothing before the first upgrade.

*Bounds.* Jobs share nothing but a crash, and the proofs cover any number of them, so the run takes one job deep into
its retries; 3 attempts leave a first, a middle and a last one; a second crash can hit the redelivery of the
first. In `mcp` each cap can be reached by one connection more than it allows, and the clock passes one window
with room before and after. In `index` the limit is below the number of blobs and two restores can overlap at any
of their steps; a blob is uploaded once there (and may expire and be stored again without end), while the proof covers any
number.
In `rate` one request fills a window, two more overtake it at later ticks, and a window passes.
In `auth` two deliveries suffice for a message that is sent again; the clock passes the life of a nonce. In `legacy` the
constraint `Few` of the MC module bounds the wallet jobs that a bulk job pushes together with those of them that are
executed again: to three, and to one after a crash. Behaviours are cut there, the liveness check's too; the proofs of the
safety properties are not.
In `quota` two blobs fit and a third does not, and the excess is reached. In `enclave` two starts of different images
and two registrations give a stale document and a replaced enclave; a third start can meet two
orphans. One probe suffices: their number only delays `GiveUp`, and any of them may find the port answered or not.
In `bulk` two items wait while two are under way, so a place is freed and taken again in every way.

*Fairness.* `RateLimit` states none (it makes no promise of progress). Pipeline: weak fairness of each preparation
task and each worker, because tokio polls ready tasks, every
upload has a time limit and Apalis polls its table; none for clients, for the sidecar or for lost UPDATEs. Sessions:
weak fairness of the continuation of an awaited `resolveAuth` or `handleRequest`; none for arrivals and
closes. Old jobs: weak fairness of the start and of each worker, for the same reasons as the pipeline; a crash is
bounded. The other modules state none: decryptions and embeddings have no time limit, so the code
promises no end (`RequestsAdvance` says only that a request waits for nothing but such calls).

*Deadlock* is not checked: in each system everything may be over.

### Disagreements

Shown by a run:

- `remember_accepted`: a restart before the push leaves an accepted request `pending` for ever.
- `mcp_leak`: an SSE response that closes during `resolveAuth` keeps its slot.
- `index_cleanup`: `recall` treats each error answer of `/seal/decrypt` as permanent, because `seal.rs` prefixes it
  with "seal decrypt failed", and deletes the rows of stored blobs.

Behaviours of the models that differ from what a comment or the repository's README says, without a run of their own:

- A recall, an ask or a restore that was answered 404 deletes the rows of a blob that was stored again, and perhaps indexed
  again, before its DELETE (`routes.rs` 977, "delete an expired blob"): the DELETE names the blob, not the row that was
  looked up. `MCMemory_cleanup.cfg` with `DeletedIsExpired` in the place of its property has TLC print such a
  behaviour: a 404, then `Certify`, then `Drop`.
- `restore` is documented to "clear old vector entries and re-index" (`routes.rs` 998); it inserts what is missing
  and deletes nothing of what it found (`routes.rs` 1191 "no delete!"). `RestoreClears` states it, and TLC refutes it with
  `MCMemoryIndex.cfg`: with `Credential` set to `TRUE`, for a restore that re-indexes something.
- A transient error writes `failed`, then the retry writes `running` (`jobs.rs` 339); migration 005 lists no such
  transition. `execute_remember` is said to return `Err` "to prevent Apalis from re-enqueueing" (`jobs.rs` 596), and a
  plain `Err` is retried.
- A Move abort of the transfer is answered with a fixed text (`sidecar-server.ts` 838) and retried as transient.
- `remember_bulk` drops the errors of its items (`routes.rs` 400); their rows stay `pending`.
- A check of a window ignores the weight of the request it admits (`rate_limit.rs` 231), so a window goes past "maximum
  weighted requests"; `OvershootBound` says how far.
- `get_storage_used_with_lock` "prevents concurrent quota races" (`db.rs` 354) and has no caller; bulk items, restores and
  the facts a restore finds are never checked.
- `/logs` is documented to tail log lines; `LogBuffer::push` has no caller, so it answers an empty list.
- The sidecar is killed after a graceful shutdown only, and not after SIGTERM or a panic (`main.rs` 396).
- `run.sh` 160-163 says not to start a second sidecar, since two of them conflict on the port; line 173 starts one, and
  line 178 kills the process it has noted, a shell or `tsx`. If the server under it survives, it answers the relayer's
  probe and the relayer's own sidecar does not listen. Whether it does is decided by the shell and by `tsx`, outside this
  repository, so no run claims it; `EnclaveServesOwn` holds in both cases, since both servers have the same start's
  environment.

## 4. What is proved

TLAPS checks these for every value of the constants, from the named ASSUMEs of the modules (natural bounds,
positive caps and sizes, finite and disjoint sets of connections, requests, jobs and uploads).

- `RememberJobs_proofs`: `IInv` = `TypeOK` + `AttemptsInv` + `OriginInv` + `ProgressInv` + `ReportInv` + `WaitInv` is inductive. It
  is needed because no property is inductive alone: `IndexedIsOwned` rests on what the worker's position says of the
  chain (`ProgressInv`), `RetryBudget` on the queue state that a crash may send back (`AttemptsInv`),
  `FinishedIsReported` on the row between the report and its acknowledgement (`ReportInv`). From it follow
  `TypeCorrectness`, `IndexSafety`, `DoneSafety`, `ReportSafety`, `RetryBound`, `DoneFinality`, and `Refinement`: each
  step maps to one step of `MemoryPromise` or a stutter. `Progress` (`JobsAdvance`) needs two facts more: a worker that
  waits for an upload has a request of which the answer or the time limit ends the wait (`WaitInv`), and the executions
  that Apalis may still start are worth more (seven steps each) than what an execution can use up. Its lemmas are
  one for each kind of step: worker, preparation, fetch, crash.
- `McpSessions_proofs`: `MInv` = `TypeOK` + `SlotInv` + `CountersMatchSlots` + `OpensInv` + `BurstBound` is inductive.
  `SlotInv` ties the position of a handler to its slot; `OpensInv` says that the list of an address holds every
  open of the last window, also after its entry was deleted and made again. `CounterSafety`, `SessionCaps` and
  `BurstSafety` follow, the caps by cardinality of the held slots. `SlotOwnership` reads from `SlotInv` that no position
  of a handler keeps a slot without a session. `LimiterKeepsLedger` is the refinement of `SlotLedger`: `CapsOfLedger`
  shows that the counters and the pruned list decide as the ledger, whose caps count all entries ever made, and
  `LedgerStep` maps each step to taking, refusing or giving back one slot, to the clock, or to a stutter.
- `MemoryIndex_proofs`: `IndexInv` is inductive. `TasksAreOnChain` carries what a restore read to the rows it writes;
  `DropsHaveReason` says what a pending deletion may rest on, also after the blob was stored again; `TasksAreMissing` that
  what a restore works on was missing when it compared, by which `NoLateCopies` outlasts all its awaits.
  `IndexIsRestorable`, `CopySafety` and `CleanupSafety` follow. `RequestProgress` (`RequestsAdvance`) rests on `TasksInv`, that a task is at one stage and its
  request works: each step begins a request, moves one task on (`Moves`), or leaves the tasks alone (`TaskStep`).

- `BulkRemember_proofs`: `BulkInv` = `TypeOK` + `ItemInv` + `WidthBound` is inductive. `ItemInv` ties the position of
  an item to its object, vector and row, and says that no item is under way once the handler has ended. `WidthSafety`
  counts the items under way (finite because a request is), `AnswerFinality` and `BulkRefinement` follow.
  `BulkProgress` (`ItemsAdvance`): when nothing is under way a place is free, and what is under way has a step of its own.

- `Limits_proofs`, rate limit: `RInv` = `TypeOK` + `OwingInv` + `StampInv` + `LayerInv` + `LayersAgree` is inductive.
  `OvershootBound` is not: between check and recording it depends on the calls that have passed the check of a window
  and not yet recorded in it (`Owing`), so `OwingInv` adds to the members one largest weight for each of them. A check
  that counts below the limit restores the room for all concurrent calls, a failed check pays with a failure, a
  recording turns what was owed into members; the cardinalities are those of `FiniteSetTheorems`. `StampInv` orders
  stamps, clock and deadlines and gives `ForgettingSafety`; `LayerInv` says what a recording call has left in the
  layers before and gives `LayerSafety`. Limits are assumed positive (0 refuses every request).

- `Authentication_proofs`: `AuthInv` is inductive; it ties the position of a delivery to what it read and to the moment it
  read it. `AuthAccepted`, `AuthNoLockOut` and `AuthNonces` follow, the last by arithmetic on the life of a nonce.

- `LegacyJobs_proofs`: `LegacyInv` is inductive; it says where each job can be, which items a bulk job has queued and what
  the row of a memory says while some of its jobs are under way. `LegacyFanOut`, `LegacyReports` and `LegacyKeepsPromise`
  follow, for every backlog and batch. So does `LegacyProgress` (`BacklogAdvances`), by a measure that counts the pushes
  an execution has left and weighs the executions to come.

- `Limits_proofs`, storage quota: `QuotaInv` is inductive. `QuotaOvershoot` is not: an admitted upload charges when it inserts, so
  `ChargeInv` bounds the rows together with what is in flight. `Bytes`, the cardinality of a
  union of finite sets, is monotone and subadditive; only an admission charges, and its check pays for
  it. `QuotaInvariance`, `QuotaSafety`.

- `EnclaveRegistry_proofs`: `RegistryInv` is inductive, over the steps of `Supervisor` too. `TrustedImage` is not: it needs
  that a key in use is an older start's or this start's own under the image that runs (`UsedKeys`), so that one key never
  stands for two images (`OneImagePerKey`), and that the current enclave was attested under the expected PCRs
  (`Registered`). `EnclaveServesOwn` rests on `SupervisorInv`: in an enclave what listens, or is about to, belongs to the
  last start, as its dry run or as its own, whatever the kills reach. `RegistryInvariance`, `TrustSafety`, `GoneSafety`, `OwnSidecar`, for every number of images, starts and
  registrations. `EarnedTrust` (`TrustIsEarned`): only the registration that appends an enclave makes it current
  (`NeverAgain`), and only a relayer that has not served yet makes a key (`NewKey`), when by `UsedKeys` its number is new.

Only model-checked: the liveness properties `EnqueuedIsSettled`, `UnusedSlotReturns` and `BacklogEnds`. What of them is
safety is proved (`Progress`, `SlotOwnership`, `LegacyProgress`); what stays with TLC is that a guard is the
ENABLED of its action, that fairness then takes the step, and the induction on the measure. No theorem states the
refinements under fairness.

## 5. What is not modelled

- Pipeline: the warming of the blob cache (`jobs.rs` 74-101) changes no decision; texts of errors; a success answer with
  no object id (the sidecar then skips the transfer); which key of `KeyPool` pays.
- Sidecar: the Enoki sponsor and its fallback (`sidecar-server.ts` 197-271). What the sponsor has executed when it answers
  an error is decided outside this repository; the models have its outcomes, a transaction that took effect or not
  and an answer that is an error or not.
- Sessions: message routing and heartbeats; the 403 of a foreign session key, which changes nothing.
- Index: ranking, several namespaces (cleanup deletes by blob and owner), how the text of a download error is
  classified: "404" is assumed to mean that the blob is gone.
- Old jobs: backlogs in which the row of a memory says something else than its queue, or a vector or a push of
  an earlier version is already there; `Init` ties rows to queues and starts with nothing indexed.
- Authentication: the type of the object that a client names as its account, which `verify_delegate_key_onchain`
  (`sui.rs` 50-98) does not check; `Accounts` are taken to be `MemWalAccount` objects. Signature arithmetic and JSON parsing; `delete_cached_key` and `evict_expired_delegate_keys`, which
  have no caller.
- Quota: an owner's two uploads with one blob id, and negative sizes, which no caller passes.
- Enclave: other configurations of the same package; `update_name`; the expiry of a document's certificates, which only
  removes behaviours; a second relayer on one host, which cannot bind its port.
- SEAL: cryptography. MCP tools and types: no state over time. Boot: mounts, consoles, VSOCK bridges.

## 6. Order of the modules, and what is left

The modules were written in the order of what can be lost: `RememberJobs` with `MemoryPromise`, `McpSessions`,
`MemoryIndex`, `BulkRemember`, `RateLimit`, then `Authentication`, `LegacyJobs`, `StorageQuota`, and `EnclaveRegistry`
over `Supervisor`. `MemoryPromise` is implemented by three of them, `SlotLedger` by `McpSessions`. What could follow:

- a model of the sponsor, once its answers are specified;
- a composition of `RememberJobs` with `StorageQuota`, whose `Execute` abstracts the worker of the former.
