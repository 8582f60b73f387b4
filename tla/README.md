# A formal model of the bridge relayer

This directory models the relayer of the Xitcoin/Cronos bridge (`src/src/*.js`)
in TLA+: the processes that watch the two chains, get deposits approved by
isolated signers, prepare signed releases, hold them in custody and submit them,
what precedes their activation, and what happens to them when they interleave,
die, time out or are lied to. TLC checks each model on small instances; TLAPS
proves their safety properties, and that two of them implement an abstract
specification, for every value of their constants.

## 1. The system

Two chains, a bridge between them. A deposit on Cronos is credited on Xitcoin, a
burn on Xitcoin is released on Cronos. The relayer is off-chain:

| part | source | state it keeps | operations |
|---|---|---|---|
| relay store | `store.js` | SQLite: `transfers`, `approvals`, `checkpoints` | `observe`, `transition`, `persistApprovalRequest`, `recordApproval`, `advanceCheckpoint` |
| CometBFT client | `network.js` | none; one batch or lookup at a time | `outboundTransfers`, `outboundTransfer`, two decoders of burns |
| watchers | `watchers.js`, `network.js` | none (the chain, through several RPC providers) | `latestFinalizedHeight`, `events`, `verifyCanonicalEvent`, `canonicalBlock` |
| coordinator | `coordinator.js`, `coordinator-cli.js` | none of its own: the store | `scanFinalizedBatch` per chain, then `approveFinalizedTransfer` per pending transfer, in a loop; a throw ends the process and systemd restarts it |
| quorum collection | `approvals.js` | the answers of one request | `collectApprovalQuorum`, `RemoteSignerClient.approve` |
| bounded responses | `bounded-response.js` | one deadline, one body | `withDeadline`, `readBoundedText` |
| signer services | `signer-service.js`, `source-verification.js` | requests in flight | authorize, verify the source at own providers, sign |
| signer process | `signer-cli.js`, `signer-bootstrap.js`, `secure-keystore.js`, `signer-runtime.js` and the handler of `signer-service.js` | secrets in memory, connections, requests being served | load configuration, connect, read and overwrite secret files, serve, shut down on a signal |
| Cronos release | `cronos-destination.js` | none: supplied evidence | `prepareCronosRelease`, `inspectCronosSignedTransaction`, `inspectCronosInclusion` |
| journal files | `journal-path.js` and the constructors of `signed-intent.js`, `broadcast-intent.js` | a pinned inode, a SQLite connection | create or pin, open, initialize, validate, verify again, synchronize |
| durable custody | `signed-intent.js`, `broadcast-intent.js`, `durable-submission.js`, `pending-quarantine.js` | two more SQLite journals | reserve, inspect, mark uncertain |
| destination submission | `submission.js` | the row's `destination_ref` | `submitApprovedTransfer` over an adapter |
| supervisor and health | `runtime.js` | `halted`, `running`, per-worker health | `runCycle`, `stop`, `snapshot` |
| canary | `canary.js` | session state and evidence | `authorize`, `recordFinalizedTransfer`, `halt`, `complete` |
| preflight | `preflight.js`, `live-preflight.js` | a report | `run` over host inspectors and network probes |

They meet in few places. Coordinator, submission and custody share the store,
possibly from different processes, through single SQL statements. Coordinator and
signers exchange a request and a signature over HTTP, and each looks at the source
chain through watchers of its own. Submission meets the destination through the
adapter's `status`, `submit` and `confirm`. The offline path from an approved
transfer to signed bytes (Cronos release, journal files, durable custody) exists in
the code and is not wired to a broadcaster; its steps meet in a signed transaction
and a manifest's binding (destination and release).

What is hard about it, and where a unit test hardly reaches:

- *two processes in one database*: store methods read, decide in JavaScript, then
  write with a second statement;
- *a chain that moves between awaits*: one scan is five kinds of RPC rounds, each
  to all providers, of which some lag and one may lie;
- *crashes between commits*: between `observe` and `finalized`, between two
  recorded approvals, between two databases, between broadcast and saved reference;
- *answers nobody waits for any more*: a signer serves a request whose client has
  timed out, and signs it;
- *retries of what may have happened*: the next cycle asks again, a restarted
  submission asks the destination first;
- *files by name*: SQLite opens a path that was pinned by inode before, and others
  move files, create them and lose power meanwhile;
- *looks at a moving world*: receipt and canonical hash, block and block results,
  a vault's fields and a service's units are read one after another;
- *the clock*: deadlines set by one process and judged by another;
- *the event loop*: microtasks run before any timer.

`PROJECT.json` lists every hazard at its line with the properties that watch it.

## 2. The modules

| module | models | rests on |
|---|---|---|
| `Lifecycle` | states and edges of a transfer | |
| `Ledger` | *abstract*: what the store promises, every method at one instant | `Lifecycle` |
| `RelayStore` | `store.js`, statement by statement, several processes | `Ledger` (refined) |
| `Watcher` | a source chain, its nodes, RPC rounds and the watcher's judgement of them | |
| `SourceScan` | `scanFinalizedBatch` with crashes | `Watcher` |
| `SignerCheck` | a signer's own source check and signature | `Watcher` |
| `ApprovalCycle` | `runApprovalOnlyCycle`, quorum collection and the signer services | |
| `SignerClient` | one request of `RemoteSignerClient` with its deadline and bounded read | |
| `SignerProcess` | a signer's process from start to end, its secret files and the requests it serves | |
| `CometClient` | the CometBFT client's batch and lookup over a node that lags and answers out of order | |
| `CronosRelease` | preparation, custody check and inclusion of a Cronos release while the vault and the chain change | |
| `JournalOpen` | processes opening one journal file that is moved, put back and synchronized or not | |
| `ReleaseCustody` | *abstract*: what the three databases of a release promise together, as one atomic record per transfer | |
| `DurableCustody` | reservation and quarantine over three databases | `ReleaseCustody` (refined) |
| `Submission` | `submitApprovedTransfer`, racing calls, a destination that reorganizes | |
| `Runtime` | `RuntimeSupervisor` and `RuntimeHealth` | |
| `Canary` | `CanarySession` | |
| `Preflight` | `TestnetPreflight.run` over a host and vaults that change | |

`MC` modules hold the instances TLC checks, `*Proofs` modules the theorems. Four `MC`
modules check components of one concern side by side: these share no state, a variable
`part` names the one a behaviour belongs to, and the others stay in one initial state.
It is the union of their state spaces, not a composition.

An operator whose comment starts with "Mutant:" is not part of a model: it is what a
plausible bug would make of the definition that follows it, and each property is known
to fail when the one replaces the other.

### How state and actions correspond to the code

**RelayStore.** `state`, `record`, `approvalRequest`, `destinationRef` are the
columns of `transfers` by key, `approvals` and `checkpoint` the other tables.
`call[w]` is the method process `w` is inside and what its reads returned. A method
of one statement (`observe`) is one action. The others are cut where another
process can get in: `transition` into its read with all checks (`BeginTransition`)
and its compare-and-set `UPDATE` (`CommitTransition`); `persistApprovalRequest` into
read, guarded `UPDATE` and second read; `recordApproval` into two reads and the
`INSERT`; `advanceCheckpoint` into read and upsert. A call that throws, and `Crash`,
leave the process idle and the tables as they are. `handedOut` remembers what
`persistApprovalRequest` returned: it is what signers may have been shown. One
checkpoint stands for the one per chain, evidence columns are one value.

**Watcher.** The chain is a sequence of blocks, a block's hash its height and the
reorganization it was born under. `view[p]` is the prefix or stale fork provider
`p`'s node holds. A *round* is the set of possible answer vectors: honest providers
answer from their node, faulty ones from a set of lies that grows from silence over
echoes of another node to one forged or misdated log. `Agreed` is
`requireAgreement`; `CronosCompared` leaves out the block number as the code does;
`XitcoinStillThere` compares payloads only, as the code does. A missing answer and
an exception are the same: the round fails. `source` says which of the two watchers it
is; a CometBFT chain does not reorganize.

**SourceScan.** One action per await: `StartScan`, `RecheckFinality` (`events` asks
for the tips again), `FetchLogs`, then per log `VerifyBlock`, `VerifyReceipt`,
`Observe`, `Finalize`, and `AdvanceCheckpoint` with its own round. Logs of a batch
are taken in any order, which includes the code's. Every disagreement or violation
throws out of the process: `Stop`. `Reconfigure` is the operator's part: the process is
restarted without the providers that lie.

**SignerCheck.** `claim` is the request's evidence, any value at all, true or
false; `record` the log that matched it. `Check` confirms or refuses.

**SignerProcess.** `pc` is where the start-up or the server is; `load` and `held`
follow `boundedPrivateFile` an await at a time for each secret file and say whose file
bytes are in memory; the two of a key store are read under one `Promise.all`, whose
first failure is the answer while the other file is still being read. `kind` is what
the handler can tell of a request: path, token, declared length, length, JSON. `Closed`
is `server.close`'s callback, `Exit` the end of a process whose `main` failed, with
nothing pending. `Kill` and `Restart` are the machine and systemd.

**CometClient.** A chain is chosen at the start (two blocks, of up to two
transactions and of up to one, with the events `MCEvents` lists) and committed while it is looked at; the
node's block results and index trail its blocks. `Block` and `BlockResults` are the two
requests under one `Promise.all`; each answer may fail, be of another height, or lack a
list: the transactions of a block, the results of its height, the events of a result.
The code reads each of these as empty. `withheld`, read by a property only, is the set
of transactions that the accepted answers leave without events. A record names the event
it was read from, so that `DecodeBlock`, which pairs two lists, and `DecodeTransaction`,
which numbers burns again, can be compared.

**CronosRelease.** `vault` and `mined` are the canonical chain, `fork` names the block
at a height. `plan` is what `prepareCronosRelease` accepted with the evidence it was
given, `Executes` what the reviewed vault asks of a release. `report` is an inclusion
being put together from a receipt and, later, the canonical hash of its height.
A plan signed twice has two hashes and one nonce.

**JournalOpen.** One path and a few inodes. `entry` is the directory entry in memory,
`diskEntry` what a power loss leaves; `proc[p]` is one constructor or open journal with
the inode it pinned and the one its SQLite connection is on. `Verify` compares them
through the path. `initialized`, `moved`, `reported` and a process's `back` are
histories that only properties read. SQLite's transaction is `lock`.

**ApprovalCycle.** Steps of the one coordinator are `pc`; `cycleNow` is the clock as
`runApprovalOnlyCycle` read it once; `queue` the pending transfers in `updated_at`
order; `replies` what each client has; `serving` the requests each signer service is
working on, which survive the client's timeout and the coordinator's death; `signed`
every signature that exists. All that a digest covers but the deadline is fixed by
the transfer, so `<<transfer, deadline>>` is the digest. Store calls are single
steps here, which is what `RelayStore` implementing `Ledger` licenses for the one
coordinator that runs. `genuine`, drawn at the start, holds the transfers whose source
check can succeed, which is what `SignerCheck` is about.

**SignerClient.** `answer` is what the awaited promise has settled with; one that is
there when the await begins is a microtask, and `Deadline` (the timer) is not
enabled while one is queued. `reading` and `complete` are the flags of the two
`finally` clauses that share the duty to cancel the body. `maxBytes` is the configured
limit, which the constructor bounds from below only; `ReadCap` is the reader's own
65,535 (`bounded-response.js`, line 39), beyond which a larger limit buys no more reads.

**DurableCustody.** Each journal method is one `BEGIN IMMEDIATE` transaction and one
step; `storeLock` is the relay store's write lock, held by a reservation from its
checks to its commit and not taken by a quarantine. `doubted` is read by one property
only. A signed transaction is a model value that releases one transfer and consumes
one account nonce; the journals' "every column equal" is equality of it.

**Submission.** `row` is the transfer's state and reference, `call[w]` a call of
`submitApprovedTransfer` with the reference it holds. Each await is a step, so the
row and the status a call acts on may be stale. The destination is modelled from how
the code uses it: replay protection executes one transaction of a transfer, an
execution may be reorganized away until it is final. The adapter is trusted to
report what it sees, as the code's comment says; it may fail, refuse, or find a
record whose canonicity it cannot establish.

`ReleaseCustody` maps onto it by what each database holds of a transfer.

**Runtime.** `cycle[c]` is the worker that call `c` of `runCycle` awaits. **Canary.**
Records are what the checks tell apart: direction, hashes, and whether the amount
and finality flags are acceptable. **Preflight.** `world` is how each fact
stands that the run asks about: of a role its passwd record, what `passwd -S` says, the
owners of its paths and the uid its name belongs to; what systemd says of each unit; the
vault's fields at each provider and the status of each node. `at` is the look being
taken, `seen` what its commands or calls have answered. An identity and a path are looked
at in two awaits (`Look`, `Confirm`), a service and the vault by commands and calls in
flight at once (`Systemctl`, `VaultCall`, `StatusCall`), and any look but a `systemctl`
may fail (`LookFails`), by which the report fails with every demand met. A `systemctl`
that fails counts with what it printed, which may be nothing. `past` (how the world stood
at each moment of the run), `silent` and `untaken` are histories that only properties read.

## 3. What is checked

`PROJECT.json` gives each run's configuration and each property's mutant. State
counts are distinct states.

| run | shows | bounds and why they are enough |
|---|---|---|
| `store` (190 k) | rows well formed, one request handed out, nothing bound is rebound, the store implements `Ledger` (whose checkpoint only rises) | 3 processes so that two race while a third moves the row on; 2 values of everything that can conflict and 2 heights; rows of different transfers never meet in a statement, so 1 transfer |
| `store_late_approval` | *violated*, see section 6 | |
| `scan` (246 k) | finalized evidence is canonical and stays so; no deposit is skipped; the checkpoint is canonical; every deposit buried for good is finalized | both chains; 2 deposits, 4 blocks, batches of 2, a reorganization as deep as the confirmations, a lying provider that is also the one decoded, a crash: batches end inside and at the finalized height, each scan can straddle the reorganization, and a second batch starts from a checkpoint |
| `scan_deep_reorg` | *violated* | |
| `signer_check` (497 k) | a signer signs only canonical evidence and an unaltered payload; a batch of the CometBFT client is exactly the chain's burns in order but for those of which the node withheld every list, and each is found again as it was read | check: both chains, every claim over 4 heights, 2 forks, 2 events. Client: every chain of a block with at most 2 transactions and one with at most 1, so that counts, failed transactions, and burns with and without `msg_index` occur next to each other; answers that lack any of their lists |
| `approval` (184 k) | one digest per transfer; approved implies genuine and a recorded quorum of that digest; every cycle ends | 3 signers, threshold 2, 1 compromised (the deployment's numbers); clock to 2 with windows of 1, so requests expire at each stage; 1 crash; 1 transfer, genuine or not: a reply for another transfer is just one with another digest, which a compromised signer may send |
| `approval_resume` | *violated* | 2 transfers, so that one queues behind the other |
| `custody` (899 k) | custody: order of custody, intent and doubt, one transfer per nonce, and the three databases implement `ReleaseCustody`. Journal: an open journal is one's own, nobody else's file is adopted, an initialized one survives. Release: an accepted plan executes, an inclusion told was canonical | custody: 3 processes; two rival transactions of a transfer, and one of another transfer for the same nonce. Journal: 2 openers, 2 releases, 2 files, 1 intent: every exchange of one file for another, and one that comes back, under either opener (2 openers, 2 files and 2 releases are interchangeable and taken up to symmetry). Release: 9 quorums, right and wrong in each way `VerifiedQuorum` tells, fees below, at and above the limits in 4 bits, one rotation, one reorganization, clock around the deadline |
| `submission` (53 k) | completed means executed and final; racing calls confirm the saved reference; a caller broadcasts twice only after losing an answer; the transfer completes unless rivalled | 2 callers, 1 lost answer, 1 foreign submitter, 1 reorganization; 4 transactions, enough for every broadcast these allow |
| `signer_client` (1.3 M) | client: the request settles, a body left unread is cancelled once, no body that fits the limit is refused but beyond the cap on reads. Process: no secret file outlives its use, only admitted requests are signed, what was taken is answered | client: limits of 3 and 6 bytes around a cap of 4 reads: bodies byte by byte, in one piece and beyond, refused for their bytes or for the cap. Process: 2 requests of any kind at once, bodies at and above the limit of 1 chunk, 1 restart |
| `canary` (2.8 M) | canary: evidence is complete, in order, of distinct transactions and inside the window; a halt is final. Preflight: a pass is sound, a failure deserved. Supervisor: nothing runs or is ready after a critical failure | canary: 4 hashes, as many as a full canary needs; clock before, inside and after the window. Preflight: a role with one unit and one with two, 2 uids, 2 providers, 2 nodes, 2 changes of the world, so that one can be made and undone between two awaits; looks that fail and a systemctl that says nothing. The fields of a vault are asked alike, so 1 besides the code. Supervisor: 2 callers, a worker that is not critical between two that are; clock to twice the stale time |
| `preflight_off` | *violated*, see section 6 | as `canary`, with units that may be "activating" or "enabled-runtime", a systemctl that always answers, and 1 change |

The type invariants, the store's `CheckpointMonotone`, custody's `CustodyHistory`,
submission's `ReferenceWasBroadcast` and the supervisor's `OneCycle` hold on the same
instances; the configurations do not list them and leave them to the theorems of section
5, which state them for every value of the constants.

Deadlock is checked where a system that stops would be wrong (approval cycle,
signer check and CometBFT client). It is off where it really ends: rows all terminal, a chain
at its bound, a completed transfer, a halted runtime or canary, a settled request, an ended process, a finished report.

Counters are bounded by constants named `Max...` and annotated "bound:" in each
module; a bound disables the environment's step, never one of the program's.

## 4. Fairness

- `SourceScan!FairSpec`: weak fairness of the scanner's steps, since
  `coordinator-cli.js` loops for ever and systemd restarts it (`Restart=on-failure`),
  of mining and honest nodes' syncing, and of `Reconfigure`: a provider that lies for
  ever stops the scan for ever, by design, until the operator replaces it.
- `ApprovalCycle!FairSpec`: weak fairness of the coordinator's own steps and of each
  client's timeout (`setTimeout` in `RemoteSignerClient.approve`). Signers get none.
  `HealthySpec`, under which `PendingResumed` is refuted, adds all of it: clock,
  scans and signer services.
- `SignerClient!FairSpec`: the event loop runs a queued microtask, and a due timer
  when there is none. The injected dependencies get no fairness.
- `SignerProcess!ProcessFairSpec`: the steps of each handler, which Node's request
  timeout ends while it waits for a body and the providers' timeouts while it verifies,
  and the callback of `server.close`. Start-up, signals and the supervisor get none. In
  `MCSignerClient` each of the two specifications' fairness is asked of its own
  behaviours only.
- `Submission!FairSpec`: some one caller is repeated for ever and its adapter does not
  refuse or fail for ever (strong fairness: each call is ended by failures in between),
  and the destination executes and finalizes. The other callers get no fairness and
  may stop anywhere.

## 5. What is proved

Every safety property a passing run checks is a theorem: each invariant, each action property
and both refinements. They are stated of each component's own specification, for any
sets of processes, transfers, values, transactions, files and requests. What is assumed
is named in the modules: heights and bounds are numbers and `Null`, `None`, `Missing`
none of the values; what is counted (signers, pending transfers, callers of a
submission) is finite; fewer signers than the threshold are compromised, and one provider at
least is not faulty. The scanner and signer-check theorems have one hypothesis more,
`ReorgsWithinWindow`. Bounds such as `MaxForks` or `MaxTime` are arbitrary numbers.

`RelayStoreProofs` proves that `RelayStore` keeps its types (`StoreTypeOK`), hands out
one request per transfer (`StoreOneRequest`), keeps rows well formed
(`StoreRowsWellFormed`), that no step leaves the lifecycle or rebinds anything
(`StoreLifecycleMonotone`, `StoreApprovalsImmutable`, `StoreCheckpointMonotone`), and that
it implements the ledger (`StoreImplementsLedger`). The invariants that matter are not
inductive alone: `CommitTransition` writes `next` and `ref` which were checked by an
earlier statement, and nothing in the row says so. The inductive invariant is

    IInv == TypeOK /\ CallsOK /\ RowsWellFormed /\ OneRequestHandedOut

where `CallsOK` says what a call in progress may still rely on of its reads: the edge
from the state it saw to the state it wants is legal, a reference comes with
`submitted` only and does not contradict the one it saw, and a transfer that is about
to get an approval has been finalized once. The proofs go action by action; the
refinement maps each second statement to a step of the ledger or, when its guard
fails, to a stutter, and uses `CallsOK` for the ledger's guard.

`SubmissionProofs` proves types (`SubmissionTypeOK`), that a saved reference was
broadcast (`SubmissionReferenceWasBroadcast`), that racing calls only confirm the saved
one (`SubmissionConfirmsSavedReference`), and that a completed transfer's own
transaction executed and is final (`SubmissionCompletedIsSettled`). Here the inductive
invariant is

    IInv == TypeOK /\ CallsInOrder /\ ReferenceWasBroadcast /\ CompletedIsSettled

`CallsInOrder` ties each call's stage to the row and the destination: a call that
confirms or completes holds the saved reference, and one that completes has seen it
final, which no reorganization undoes. `SubmissionBroadcastsOnce` is a counting argument
on top of it (`BudgetOK`): while nothing is saved, every transaction of a caller's own
whose answer arrived is held by a call that will try to save it; afterwards those
transactions and the calls that may still broadcast (`Fresh`) are together no more than the callers,
because the call that saved its reference has stopped being one of them.

`DurableCustodyProofs` proves every custody property the `custody` run checks, for any
number of processes, transfers and transactions, from `CustodyAssumption` alone (each
transaction releases one transfer from one nonce slot, and `Null` is neither a process
nor a transaction): types (`CustodyTypeOK`), custody before intent
(`CustodyBeforeIntent`), doubt in custody first (`DoubtInCustodyFirst`), one transfer
per slot (`CustodyOneTransferPerSlot`), a quarantine no reservation forgets
(`CustodyQuarantineNotForgotten`), the history of the rows (`CustodyHistoryKept`), and
that the three databases implement `ReleaseCustody` (`CustodyImplements`): a reservation
is `Hold` when its custody row is written, `Promise` when its intent is, a quarantine
`Doubt` and then `Quarantine`, and every other step a stutter.
The inductive invariant is

    IInv == TypeOK /\ CallsOK /\ IntentHasCustody /\ DoubtReachesCustodyFirst
                   /\ OneTransferPerSlot

where `CallsOK` says, for each stage of a reservation or quarantine, what its earlier
transactions have committed to the other databases. Other processes cannot take that
away because rows are only added or doubted, which is the lemma most steps rest on; and
a reservation's approval holds until it leaves the store's write transaction, because
the lock is its own.

Its second part, about `JournalOpen`, proves types (`JournalTypesKept`), that an open journal is the
opener's own (`JournalOpenIsOwn`), that nothing is adopted (`JournalNeverAdopted`) and
that an initialized journal survives power losses (`JournalInitializedSurvives`), for any
number of openers, files, releases and intents. The inductive invariant is

    JournalInv == JournalTypeOK /\ ProcsOK /\ EntriesUsed /\ FilesOK /\ ReportedKept

`ProcsOK` is what each stage of the constructor may rely on of its two inodes and of
the file behind the connection: until the recheck, the path or the moved files explain
a connection that is not the pinned inode; from the write lock on, its content is fixed.
`EntriesUsed` says that what the path names, in memory or on disk, exists; `FilesOK` ties
`initialized` to the disk. The steps of one process cannot take from another what these
say (`FrameStep`), because a file is only written while no other process is inside its
write transaction.

Its third part, about `CronosRelease`, proves types (`CronosTypeOK`), `CronosPlanExecutes` and
`CronosInclusionWasCanonical`, for any signer sets, quorums, limits and widths. `Planned`
keeps what `Prepare` found of the evidence, `Snapshot` what the two reads of an inclusion
have in common.

`SignerClientProofs` proves, for every limit and every cap on reads, types
(`ClientTypeOK`), that a body left unread is cancelled once (`ClientCancelsOnce`) and
that a response is refused for its size only if it deserves it, or if the limit exceeds
the cap and the response took more reads than the cap (`ClientSizeIsDeserved`).
The inductive invariant adds `Duties`: at each await, whose duty the body is, and that
a body that has sent no empty chunk has sent a byte for every read but the one still
out. `SizeIsDeserved` alone says nothing of a request that is still reading.

Its second part, about `SignerProcess`, proves types (`SignerProcessTypeOK`), `SignerProcessOverwritesSecrets`
and `SignerProcessAdmits`, for any number of requests and any limit, with `Loading` (which
files may be open or in memory at each stage) and `Admitting` (what a handler's stage
says of its request).

`RuntimeProofs` proves types (`RuntimeTypeCorrect`), that there is one cycle at a time
(`RuntimeOneCycle`, from `Exclusive`, which ties `running` to the one call inside) and
`RuntimeHaltedOnceBroken` (from `Broken`), for any workers and callers.

`ApprovalCycleProofs` proves that honest signers never sign two digests for one
transfer (`NoTwoDigests`), that an approved one is genuine (`GenuineBeforeApproved`) and
has a threshold of recorded approvals of it (`ApprovedCanBeSubmitted`), for any signers,
threshold, windows and number of transfers and crashes. The inductive invariant is

    IInv == TypeOK /\ CycleOK /\ Requested /\ ApprovalsOK /\ RecordOK /\ QuorumOK

`Requested` follows a request to wherever it may still be: whatever an honest signer
serves, however long ago its client gave up, is the persisted request, since that is
never replaced. `RecordOK` is what a half-recorded quorum still lacks: the chosen
signers and those already recorded are together a threshold, through every crash and a
retry with other signers. `GenuineBeforeApproved` then finds an honest signer in every
threshold. That the code's sort and slice keep a threshold of distinct signers is the
lemma `LowestChosen`, from `Ranks`.

`WatcherProofs` starts from the rounds (`ChainInv`: an honest node is never ahead of the
chain and agrees with it under the confirmations). What all providers agree on, one of
them honest, is what an honest node holds; a height that passes the finality test is
buried there. A buried block is never replaced, under

    ReorgsWithinWindow == "cronos" \in Sources => MaxReorg <= Confirmations

which is what the `confirmations` of a watcher are configured for. `scan_deep_reorg`
shows what happens without it. For the scanner (`ScanInv`) this carries a range from its
first look at the tips to its last write: the range stays buried (`RangeOK`), every log
in hand is of a block in it (`LogsOK`, `CurrentOK`), and every deposit in it is
finalized, in hand or next (`NoneMissed`), so that advancing the checkpoint skips nothing
(`NothingSkipped`), finalized evidence is and stays on the chain (`FinalizedForGood`) and
so does the checkpoint (`CheckpointOnChain`). For a signer (`CheckInv`, `ClaimOK`) it
carries the claim from the finality look to the signature (`SignedForGood`), whoever made
the claim.

Its last part is about `CometClient`, for every chain and not only the small ones of the
run: a batch is exactly the burns of its heights but for transactions of which the node
withheld every list (`BatchComplete`), and each is found again unless the answer lacks its
events (`RefoundForSure`). The inductive invariant is

    CometInv == CometTypeOK /\ BatchInv /\ FindInv

`BatchInv` says that the records so far are the burns of the heights behind, in order, but
for the withheld ones (`Lists`), and that an answer in hand is the current height's own or
lacks a list: the comparison of counts refuses what lacks one list of the two, and what
lacks both adds nothing and is withheld (`WithheldAre`). It rests on what the decoders do
to a block of any length: `BurnsListed` (every burn of a transaction once, in order, numbered without a
gap, by counting those before it) and `FlattenedInOrder` (parts that are ordered and
follow each other stay so when joined). Both go along a sequence; since an induction
scheme cannot be instantiated, each is by the least place where the claim would fail
(`Stepwise`).

`CanaryProofs` proves, for any window, hashes, roles, units and providers, that a canary
that passed has the full evidence (`CanaryPassedInFull`), that evidence is only added
while the session is live and that a halt is final (`CanaryHaltsForGood`), and what a
preflight's report is worth: `PreflightPassIsSound` and `PreflightFailIsDeserved`.
`CanaryInv` adds that the evidence so far is in turn and that no hash occurs twice;
`PreflightInv` says what the run has gone past when it takes each look (`GonePast`), that
each answer in hand was true at some moment since the start or is a silence, and that
between the two awaits of a path its owner is still the one `stat` saw, or a demand has
been unmet meanwhile (`StillOwned`): a change is of one fact at a time.

What TLC alone checks is liveness (`BuriedDepositsFinalized`, `CycleEnds`, `Completes`,
`ClientSettles`, `TakenIsAnswered`): it rests on fairness and `ENABLED`, which the
installed provers do not handle.

## 6. Where code and documents disagree

Four runs are expected to end in a counterexample; each quotes its sentence in
`PROJECT.json`.

1. `store_late_approval`: an approval can be recorded for a transfer that has left
   `finalized`/`approved`, because the `INSERT` does not repeat the state test.
   Existing approvals are still immutable and the ledger is still implemented: its
   `Approve` only asks that the transfer was once finalized.
2. `scan_deep_reorg`: the checkpoint's hash is never compared with the chain, so a
   reorganization beyond the confirmations does not stop the scan.
3. `approval_resume`: a transfer whose persisted request expired makes every cycle
   throw before it reaches those queued behind it.
4. `preflight_off`: a preflight passes while a unit is "activating" or "enabled-runtime",
   because a service counts as on only if systemctl prints exactly "active" or "enabled"
   (`live-preflight.js`, lines 90 and 91), where `docs/PREFLIGHT.md` (line 15) and
   `docs/OPERATIONS.md` (line 151) ask for inactive and disabled units.

## 7. What the models leave out, and known gaps

- Digests, addresses, envelopes and signatures are values that are equal only if all
  they cover is equal; recovery of an address from a signature is "is in `signed`".
- Not modelled, because each checks or builds one value at start-up without state:
  coordinator transport and bootstrap (`coordinator-transport.js`,
  `coordinator-bootstrap.js`: configuration and wiring), submitter bootstrap and manifest, protocol encodings (`protocol.js`,
  addresses, envelopes), the Xitcoin side of the destination (`xitcoin-destination.js`)
  and the normalization of status and response evidence, the preflight's command line,
  and the staging harness, which replays fixed scenarios.
- In `network.js`, HTTP, URL rules, response limits and the encoding of event attributes
  are a failure to answer or nothing; in `signer-service.js`, the static policy (routes,
  vaults, amounts) is part of whether `Approve` signs.
- Owners, modes and links of pinned directories are part of what `verify` compares and
  are not told apart from the inode.
- A file that leaves the path and comes back under an opener defeats the rechecks of its
  inode: SQLite may have opened the one that was there in between. `OpenIsOwnJournal`
  makes this exception explicit (`back`); what holds even then is that the journal is of
  the opener's own binding. The path's directory belongs to the service's own account.
- A second process may open and reserve in a journal between its creator's `COMMIT` and
  `syncCreation`; `InitializedSurvives` starts with the creator's return.
- Two burns of one transaction with the same `msg_index` are one to the lookup: the
  earlier is returned (`RefoundAsRead`). The chain's module numbers its messages.
- Approvals with recovery bytes 0 and 1 pass the Xitcoin verifier only; a quorum with one
  can never be planned on Cronos.
- What a pass of the preflight is worth (`PassIsSound`) is about moments: a role's record
  and lock, or a path's owner and the identity's uid, are read in two awaits and need not
  have fitted together at any one time. A `systemctl` that says nothing passes for off
  (`live-preflight.js`, line 82), on every unit; `PassIsSound` leaves those units out, and
  `preflight_off` is violated even without them. A unit that is not installed is off.
- The CometBFT client reads a missing list as an empty one (`network.js`, lines 163, 271
  and 282). Where the block and its results lack theirs together, or a result its events,
  the height's burns are dropped without an error; `BatchIsTheChain` is about the rest.
  What guards a scan is that all providers must agree on the events (`Watcher`): a node
  that withholds alone stops it, nodes that all do make it skip burns.
- With a limit above 65,535 bytes the signer client refuses a fitting body that takes more
  reads than that, such as one sent byte by byte. `SizeIsDeserved` names the exception; the
  default limit is 16,384.
- When one of a key store's two files cannot be read, the bytes of the other are never
  overwritten: they stay in memory until the process, whose start-up has failed, ends.
  `SecretsOverwritten` is about a process that serves. That the process does end after a
  shutdown is not checked; `TakenIsAnswered` is about its requests.
- Of the signer's size limit the run has bodies at and above it; the theorem
  `SignerProcessAdmits` is for any limit.
- `RelayStore` compares a signer's stored approval by one value, which stands for digest
  and signature together. `ApprovalCycle` keeps the digest alone, so that there the refusal
  of a second, different signature of the same digest (`store.js`, line 170) does not occur.
- Two callers of `submitApprovedTransfer` in two processes can both broadcast: nothing
  is written between `status` and `submit`. The documents describe this durable step as
  missing (`docs/OPERATIONS.md`, Submission recovery). What holds even so is
  what `submission` checks. A transfer whose saved reference loses to a rival transaction
  stays submitted.
- Approvals are recorded one statement at a time. A crash between two of them, and
  another pair of signers in the retry, leave three stored where `docs/PROTOCOL.md`
  (line 73) speaks of exactly two; `ApprovedHasQuorum` asks for at least the threshold,
  all of the persisted request.
- A worker of the supervisor that never settles holds up every later cycle; readiness
  then fades with `staleAfterSeconds`. Readiness also forgets the failure of a worker
  that is not critical as soon as it is started again.
- Nothing in `src/src` moves a transfer to `failed` or `reorged`; the store allows it,
  and so do the models.

## 8. Plan

Done: the modules, runs and theorems above. What would add most next:

1. A composition of `RelayStore` with several coordinators and submitters, instead of
   store calls as single steps, and of `CronosRelease` with `DurableCustody` once the code
   itself connects them.
2. An abstract specification of what a watcher promises its two users (a finalized height
   only rises, a confirmed log stays), implemented by the rounds of `Watcher`, so that
   `SourceScan` and `SignerCheck` rest on one statement.
3. The Xitcoin side of the destination and the coordinator's start-up, whose checks are
   without state today.
