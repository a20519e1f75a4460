# A verification project for NilStore

NilStore is a storage network: users pay storage providers, through a Cosmos SDK
chain, to hold erasure-coded data and to serve it; they encode, upload, commit and
download from the browser, through an optional local gateway. This directory holds
TLA+ modules that model the chain's core module `x/nilchain`, the client logic of
the website, the sessions and the ingest of a provider's gateway, and the faucet;
the TLC configurations that check them on small instances; and proofs that TLAPS
checks for every value of the constants. `PROJECT.json` maps every definition to the lines it models and
lists the hazards, the runs, their mutants, the findings and the theorems.

## 1. The system

| part | where | state it keeps | operations | how it meets the others |
|---|---|---|---|---|
| deals and escrow | `nilchain/x/nilchain/keeper/msg_server.go` | `Deals`, `DealCount`, the bank's module account | CreateDeal, UpdateDealContent, AddCredit | pays into the module account every other part draws on |
| EVM-signed intents | same file, `types/eip712.go` | `EvmNonces` | CreateDealFromEvm, UpdateDealContentFromEvm | same effect as the Cosmos messages, authorised by a signature and a nonce |
| provider registry, assignment | same file, `keeper.go` | `Providers` | RegisterProvider, AssignProviders | CreateDeal and SignalSaturation draw from it |
| retrieval sessions | same file | `RetrievalSessions`, `RetrievalSessionNonces` | Open, Confirm, SubmitProof, Cancel | lock escrow, pay providers, count failures |
| liveness proofs, receipts, rewards | same file | `DealProviderStatus`, `ReceiptNoncesByDealFile`, `ProviderRewards`, `DealHeatStates`, `DealProviderFailures`, `Proofs` | ProveLiveness (four kinds), WithdrawRewards | move escrow into rewards, renew the slashing window |
| elasticity | same file | spending window in the deal | SignalSaturation | appends to `Providers` of the deal |
| Mode 2 slot map and repair | `msg_slot_repair.go`, `stripe_params.go` | `Mode2Slots` in the deal | StartSlotRepair, CompleteSlotRepair | sessions, proofs and slashing read the placement |
| slashing pass | `slashing.go`, `module/module.go` | (reads and renews `DealProviderStatus`) | CheckMissedProofs in EndBlock | burns providers' coins |
| parameters, genesis | `msg_update_params.go`, `genesis.go`, `types/params.go` | `Params` | UpdateParams, InitGenesis | read by every handler when it runs, not when the session or deal was opened |
| EVM precompile | `nilchain/precompiles/nilstore/nilstore.go` | none of its own | batches of the handlers above | |
| blob geometry | `stripe_params.go`, `msg_server.go` | none | which slot a blob range is in | sessions and proofs |
| on-chain session proofs | `nil_gateway/fetch_session_onchain.go`, `main.go` | a list of proofs per session in a bolt database | fetch, store the proof, submit | the page's fetches, the chain's SubmitRetrievalSessionProof |
| download sessions | `nil_gateway/download_session.go`, `fetch_session.go` | bolt buckets and a cache in memory | open, append a chunk, load, take | signed receipts of the client |
| Mode 2 ingest and its jobs | `nil_gateway/ingest_mode2.go`, `upload_jobs.go` | staging and slab directories, a lock file, the job | build, finalize, upload, poll | several requests meet in one directory |
| gateway routing, S3, transactions | `nil_gateway/` | little | forwards and runs commands | |
| transport router | `nil-website/src/lib/transport/`, `hooks/useTransportRouter.ts` | the preference (localStorage), the last trace | seven routed operations | every request of the website |
| downloads | `hooks/useFetch.ts`, `lib/rangeChunker.ts` | the download under way | plan, open, fetch, confirm, request proofs | wallet, chain, gateway, providers |
| local slab | `lib/nilfsOpfsFetch.ts`, `lib/storage/OpfsAdapter.ts` | a directory per deal in OPFS | save, append, read back, delete | upload panel and deal explorer |
| workers | `workers/`, `lib/worker-client.ts` | pending messages, a pool, WASM objects | requests and batches between threads | the upload panel asks |
| upload panel | `components/FileSharder.tsx`, `hooks/useDirect*.ts` | the slab being made, its upload and commit | pick, shard, upload, commit, save | workers, gateway, providers, wallet |
| dashboard | `components/Dashboard.tsx` | deal list, overrides, selected deal, recent files | refresh, upload, commit, create, download | LCD, gateway, panel, explorer |
| deal explorer | `components/DealDetail.tsx` | slab, files, manifest, download cache | load, download, verify, clear | gateway, providers, OPFS |
| polling views | twelve effects in `components/`, `hooks/`, `pages/` | last answer, loading, timer | poll, answer, leave | LCD, RPC, gateway, wallet |
| faucet | `nil_faucet/main.go`, `hooks/useFaucet.ts` | cooldowns; the request and its transaction | request, retry, follow | the chain |
| cryptographic core | `nil_core/` | none | KZG commitments and openings, Reed-Solomon, layouts | called by chain, gateway, CLI and browser |
| CLI, bridge, relayer, mock L1, p2p | `nil_cli/`, `nil_bridge/`, ... | little | | around the network |

What is hard in `x/nilchain`. Transactions of one block run one after the other,
so there are no data races; the difficulty is in the *sequences*. The owner, the
provider, governance and the end of the block each act on records that refer to
each other, in an order nobody chooses:

- a session is opened under one content root, one placement and one set of
  parameters, and answered, settled or cancelled under others;
- the owner's confirmation, the provider's proof and the deadline race;
- signed receipts and EVM intents can be delivered again;
- escrow and locked fees are numbers in records, the coins behind them are pooled
  in one module account, and an imbalance is felt by whoever comes last;
- the placement of a Mode 2 deal is stored twice (`providers[]`, `mode2_slots`);
- the slashing pass reads a placement that repairs and saturation change;
- a handler that has written state and then answers `Success: false` without an
  error keeps its writes.

What is hard in the website. Everything runs on one thread, but every `await` and
every effect is a place where the world may have moved: a handler goes on with the
deal, the account and the upload of the render that made it; answers come in any
order and after the page has moved on; a timer fires while the answer is on its
way; several runs share the worker's one file-table builder; the directory in OPFS
outlives the slab it was written for; a reload loses what is under way and keeps
what was stored; and a download is a chain of transactions and fetches that may
fail at each link, with fees locked behind it.

What is hard in the gateway. Handlers run concurrently: a cache is filled from a
value read before, a lock file is broken by whoever finds it old, a directory is
taken for complete by looking at two of its files. A process may stop between a
record and its answer, or between a transaction and the deletion that follows it,
and the client cannot tell a request that failed before its effect from one that
failed after it.

What makes each part correct. On chain: escrow and locked fees are always covered by coins;
a fee is released exactly once and to the right party; a receipt or an intent
takes effect once; the two copies of the placement agree; a repair has exactly
one candidate; only providers responsible for a slot earn for it; a missed window
costs one slash, and no missed window is free. In the browser: a call fails only
when no backend could serve it; what is paid for was delivered, and what was
delivered is paid; a root is committed when its parts are with the providers, and
what is called committed is on chain; what a page shows is of the deal and account
it shows; waiting ends. At the provider: a chunk that was given is on record until
it is paid, a nonce and a session are used once, and a directory that counts as
complete is whole.

## 2. The modules

| module | models | in |
|---|---|---|
| `Pricing` | deposits, fees, burn share, bandwidth payment, tiers and halving; pure operators, uint64 and int64 kept at their width through `WordSize` | `msg_server.go` |
| `NilChain` | the keeper: 15 variables for its stores, one action per handler, `EndBlock` | `msg_server.go`, `msg_slot_repair.go`, `slashing.go`, `keeper.go`, `msg_update_params.go`, `genesis.go` |
| `RetrievalEscrow` | abstract specification: what a session promises its two parties | implemented by `NilChain` |
| `NilChainHistory` | `NilChain` with four history variables: intents accepted, receipts charged, last proof and last slash of a provider in a deal | adds no behaviour |
| `NilChainProofs`, `EscrowProofs`, `HistoryProofs` | theorems about `NilChain` and `NilChainHistory`, with their proofs | |
| `Words` | stripe of a hint, blob range and slot, indices of a proof, deposit for growth, in words that wrap | `msg_server.go`, `stripe_params.go`, `service_hint.go` |
| `SessionProofs` | the proofs a provider stores for one on-chain session | `fetch_session_onchain.go`, `main.go` |
| `DownloadSessions` | the sessions a provider keeps: database, cache, restart | `download_session.go`, `fetch_session.go` |
| `SlabIngest` | Mode 2 ingest: staging, lock, merge, upload, job | `ingest_mode2.go`, `upload_jobs.go` |
| `Transport` | the router: candidates, classification, retries, timers | `lib/transport/`, `useTransportRouter.ts` |
| `Fetch` | a download with its sessions on chain | `useFetch.ts` |
| `NilFs` | offsets between raw and encoded bytes, the slab in OPFS, chunks of a range | `nilfsOpfsFetch.ts`, `rangeChunker.ts`, `OpfsAdapter.ts` |
| `WorkerPool` | page, gateway worker and commit workers | `workers/`, `worker-client.ts` |
| `FileSharder` | the upload panel | `FileSharder.tsx`, `useDirectUpload.ts`, `useDirectCommit.ts` |
| `Dashboard` | deals, content, uploads, commits, recent files | `Dashboard.tsx` |
| `DealDetail` | the deal explorer and its download buttons | `DealDetail.tsx` |
| `Pollers` | the twelve polling views, one machine with switches for their differences | `useProofs.ts`, `ProofsDashboard.tsx`, ... |
| `Faucet` | the button, the hook and the service | `useFaucet.ts`, `nil_faucet/main.go` |
| `Provider`, `Ingest`, `Retrieval`, `Uploads`, `Pages`, `Polling` | put the modules of one area side by side (`SessionProofs` and `DownloadSessions`; `SlabIngest`; `Transport` and `Fetch`; `WorkerPool` and `FileSharder`; `Dashboard` and `DealDetail`; `Pollers` and `Faucet`) and state what is both checked and proved of them | |
| `ProviderProofs` | theorems about `Provider` and `Ingest` | |
| `RetrievalProofs` | theorems about `Retrieval` | |
| `BrowserProofs` | theorems about `Polling` and `Pages` | |
| `UploadProofs` | theorems about `Uploads` | |
| `LayoutProofs` | theorems about `Words` and `NilFs` | |
| `MCBase`, `MCSessions` | instances of `NilChain` for TLC | |
| `MCSlashing`, `MCProofs`, `MCDeals` | instances of `NilChainHistory` for TLC | |
| `MCProvider`, `MCUploads`, `MCPages`, `MCPolling` | instances of `Provider`, of `Uploads` and `Ingest`, of `Pages` and of `Polling` for TLC | |
| `MCRetrieval`, `MCLayout` | instances of `Retrieval`, and of `Words` and `NilFs` side by side, for TLC | |

**The chain.** Each variable of `NilChain` is one collection of the keeper (the comment
beside it names it); `balance` is the bank module, seen through the calls the
keeper makes: a transfer or a burn fails when the account cannot pay. `deals` is a
sequence because deal ids are consecutive. A session id is the hash of its
request in the code and the request itself here.

Steps. An action is a handler that returns no error. A handler that returns an
error or panics leaves no trace, since the SDK drops the writes of a failed
transaction. This has two consequences that are easy to miss when reading the
code: the status EXPIRED, which three handlers store just before they fail, is
never kept; and `ProveLiveness` with a system proof that does not verify answers
`Success: false` *without* an error, so what it wrote stays
(`ProveLivenessSystemFails`). Calls that succeed and change nothing (confirming a
completed session, cancelling a closed one) are stuttering steps.

Data. Signatures, hashes and KZG openings appear as their verdict: a message the
model contains is one that verifies, and `ProveLivenessSystemFails` is a proof that
does not. The range of blobs a session or proof is about is abstracted to the slot
it lies in (`slot`) and its number of blobs. Endpoints, service-hint text, summary
text and the heights stored for display are left out. `deal.TotalMdus` is never
assigned by a handler, so the range checks against it never apply and are left
out too. The draw of providers by block hash is a choice among all lists it can
return. Governance may install any parameter set of `ParamSets` at any time.

**The website.** A component is its React state and the handlers under way. An
action is the code between two awaits (one exception: `NilFs` takes a save of a slab as
one complete step); a handler that was started keeps, in its
record, what it closed over. An effect runs after a change and before the next
event. The network, the wallet, the chain and the LCD are the environment: an
answer comes late, fails, is lost or is garbled, a transaction is refused, reverted,
executed after the page stopped waiting, or never. A timer is a step that may be
taken while the wait lasts. Bytes, roots and slabs are known by what they were made
of (`FileSharder`, `DealDetail`) or by the place they were put in (`NilFs`), so a
mix-up is a wrong value and not a wrong byte. Classification of errors by their
text is kept (`Transport`, `Fetch`): a text is the set of patterns it matches.

Where a step is coarser than the code, or leaves something out:

- `NilFs.Persisted` is a save that ends. The code writes root, manifest and MDUs one
  await at a time and returns early when the effect is cancelled or a write fails
  (`FileSharder.tsx:600`, `:615`), which leaves a part of a slab; `LocalReadsBack` speaks
  of slabs that were saved.
- `WorkerPool.OnError` ends the gateway worker. `worker-client.ts:37-44` does not
  terminate it, but its handlers catch what they throw (`gateway.worker.ts:350`), so an
  error event means that the script could not be loaded or that its thread is gone.
- `DealDetail.ShowDeal` is the effect of a deal or root that changes. It also runs again
  when the provider list or the account changes (`DealDetail.tsx:599`) and then asks a
  second time for the same root, with the same handlers of the answers.
- `Dashboard.Downloaded` and the entries of the recent list are those of the dashboard's
  own downloads. The explorer enters its downloads too, through `recordRecentActivity`
  (`Dashboard.tsx:1264-1289`, from `DealDetail.tsx:972-1018` and `1094-1140`); each of
  its paths ends the entry it made.
- `DownloadSessions` knows a signed request by its nonce, and tells before and after its
  `req_expires_at` apart, not how long after: past it the provider still accepts the
  request for 30 seconds (`main.go:3453`), and here for as long as the behaviour lasts.

**The provider.** Handlers are steps on shared memory, bolt buckets and directories;
a database transaction is one step, a file-system call is one step, and a crash
drops memory and handlers and keeps the disk. `SlabIngest` numbers the entries of a
directory in the order of `os.ReadDir`, because the order in which a merge moves
them is what decides whether a half-merged directory looks complete.

**Words.** The chain's uint64 and uint32 arithmetic is kept with its wrap-around, in
words of a few bits; the constants 64, 12 and 128 KiB shrink with them.

**Composition.** `Fetch` contains the part of the chain that a download sees, and
`FileSharder` the worker's shared builder, the deal on chain and OPFS. `Provider`,
`Ingest`, `Retrieval`, `Uploads`, `Pages` and `Polling` put two modules side by side that share no
variable, with the assumptions on their constants and the properties stated of both.
The MC module of an area extends that module, so the run and the theorems speak of
the same definitions. A behaviour of an MC module is of one component, named by
`which`, and the others stay where they start; a product would add states and no
behaviour. An MC module may take a component a second time, over the same variables,
with other bounds.

What the user, the network or the site may do is set by constants, by variables that
`Init` chooses and no step changes, and by history variables that a property's guard
reads:

| flag | what it grants | why |
|---|---|---|
| `FileSharder`: `patient` (variable) | the user waits for a run, upload or commit to end before starting another | with an impatient user the panel mixes two runs, see section 3; patience alone is not enough for `CommitFollowsUpload`, which also wants a user who stays on one deal |
| `FileSharder`: `LoadsFail`, `FilesVanish` | the deal's settings may not load; a file may be gone when read | a run on a file that is gone leaves the panel busy, so the instance for progress leaves that out |
| `DealDetail`: `serial` (variable) | the deal and OPFS change only while no call is under way | answers of an earlier deal are stored over the new one |
| `DealDetail`: `RootOnly` | the panel may have saved a root without its MDUs | the gateway path does |
| `Dashboard`: `MaxReloads`, `Expires` | the page is reloaded; an override expires | a reload keeps a pending entry without its download |
| `Faucet`: `patient`, `local` (variables) | one request at a time; the LCD is on localhost | with two, or on localhost, the status is not that of the transaction shown |
| `SessionProofs`: `lost` (history) | an answer was lost, because the page gave up or the provider crashed | an abandoned attempt that is repeated is recorded twice |
| `SessionProofs`: `dropped` (history) | the proofs did not get on chain: the key, the temporary file, the command or the broadcast failed | the page is told and does not ask again, so nobody is paid unless another request comes |
| `SlabIngest`: `shared` (variable) | pieces also arrive through `/sp/upload_*` | pieces make a directory look complete |
| `SlabIngest`: `DiskErrors`, `MaxCrashes` | a move fails; the process restarts | a restart leaves an old lock to break |
| `SlabIngest`: `overrun` (history) | a request held the lock for more than two minutes, or two requests found the same lock old | the lock is broken by its age alone, and its age is read before it is removed |
| `WorkerPool`: `ErrorsInInit` | a commit worker fails before it is initialized | nobody is told then |

Each flag is there because a property holds without the fault and fails with it; the
failures are in section 3, so nothing is hidden by a flag.

## 3. The runs

| run | instance | checks |
|---|---|---|
| `sessions` | one Mode 2 deal with two slots, a third provider, four session requests (same provider twice, same nonce with two deadlines, no deadline), two roots, two fee schedules, blocks past every deadline, fairness | `TypeOK`, `Solvent`, `FeeFollowsOutcome`, refinement `SessionsAreEscrowed`, liveness `HeldFeesAreReleased` |
| `slashing` | one Mode 2 deal, three providers, five blocks, a window of one block, proofs, repairs of both slots in any order with a provider that leaves and comes back, an added stripe; history variables | `ProvidersFollowSlots`, `RepairHasCandidate`, `OnlyActiveSlotsEarn`, `OneSlashPerWindow`, `NobodyStaysOverdue` |
| `proofs` | system proofs good and bad, every batch of one or two of three receipts, a download session sharing a nonce, withdrawals, slashes | `ReceiptChargedOnce` |
| `deals` | from genesis: two users, two providers, both modes, both kinds of message, nonces 1 and 2, size changes, credit, two price lists | `IntentsTakeEffectOnce`, `PaymentsArrive` |
| `retrieval` | one routed call of every operation, with every preference, build and answer, and silence before and within an answer; a download of any range of eight blobs, two data slots and a parity slot, two rows | `FallbackIsSound`, `UploadSentOnce`, `TimedCallsSettle`, `OnlyDeliveredIsPaid`, `DeliveredIsPaid` |
| `uploads` | three requests to the workers, three batches, two commit workers; two files and two commits on one deal, or one file and two deals; three requests for one slab with a crash and locks that grow old with their holder gone or at work (they come to the directory in the order of their numbers, which loses nothing as they are alike), or two beside piecewise uploads and disk errors | `AnswersAreWhole`, `CommitFollowsUpload`, `OwnBuilder`, `SlabStaysWhole`, `LockExcludes`, `UploadsSettle` |
| `pages` | the dashboard with two deals and three operations and a reload, or with two operations, two rounds of waiting for the list and no reload; the explorer with content committed twice and a chain reset | `ContentIsOfTarget`, `PendingIsUnderWay`, `NewDealIsSelected`, `ExplorerShowsTheDeal`, `LoadingIsTrue` |
| `polling` | every view, two accounts, two queries under way, two versions; two clicks on the faucet, each tried twice, over two connections, by a patient visitor of the network or an impatient one of a local chain | `ViewsAreCurrent`, `StatusIsTrue`, `PaidOnce`, `WaitingEnds` |
| `provider` | four requests of one nonce and two chunks, or four of two nonces with a restart, before and after the nonces expire; three blobs and five attempts with every fault | `GivenIsRecorded`, `UsedOnce`, `AckedIsStored`, `ConfirmedIsProved` |
| `layout` | scalars of four bytes, MDUs of four scalars, lengths around each boundary, three files, two slabs; words of eight bits, every small stripe, stripes whose sum wraps around, ranges within and across MDUs | `LocalReadsBack`, `OpenedCanBeProved`, `GrowthIsPaid` |
| `slashing_repair` | that of `slashing` | violation of `RepairingSlotsAreExempt` |
| `fetch_order` | that of `retrieval` | violation of `FileInOrder` |

- **`Solvent`**: escrow balances plus locked fees never exceed the module account's
  coins. It fails if a settlement forgets to clear `LockedFee`.
- **`FeeFollowsOutcome`** and **`SessionsAreEscrowed`**: together they say where a
  locked fee goes, when, and that it goes once. The refinement maps a session's
  status to a phase and the set of parties that have agreed.
- **`OneSlashPerWindow`** and **`NobodyStaysOverdue`** bound the slashing pass from
  both sides; mutants one block early and one block late break one each.
- **`OnlyActiveSlotsEarn`** is stated for deals whose slot map is full. The attempt to
  prove it for all of them failed for a reason: where `AssignProviders` found fewer
  providers than K+M (the row of `MCDeals.SlotMapComplete` below), a provider that a
  saturation stripe added to the legacy list only sits at an index below K+M, passes
  the check of its slot, and earns without holding one.
- **`PaymentsArrive`** speaks of every step but the end of a block, where the slashing
  pass burns coins of several providers at once.
- **`OnlyDeliveredIsPaid`** and **`DeliveredIsPaid`** do the same for a download:
  nothing is paid that the user does not hold, and what was handed over is paid.
- **`FallbackIsSound`**: a call ends in failure only after every backend it may use
  has failed as often as its budget says, and at once when the root is stale.
- **`CommitFollowsUpload`**, **`OwnBuilder`**: the root that goes on chain is of the
  slab that the providers took, made of the files of its own run. The first is stated
  for a user who stays on one deal: the attempt to prove it for a patient user with two
  found that switching the deal while an upload is under way breaks it as impatience does.
- **`TimedCallsSettle`**: a backend may fall silent before its answer begins or in the
  middle of it. A byte-range call ends all the same; a plan, an MDU's commitments and an
  upload end too, unless a backend stops after its headers, when their timer is cleared
  already and nobody ends the call.
- **`SlabStaysWhole`**, **`LockExcludes`**: the directory named after a root, once it
  counts as complete, has every artifact, and keeps it under crashes and retries. One
  request at a time is at work in it, also when a lock left by a crash is broken; the
  exceptions are a holder slower than the two minutes after which its lock is broken, and
  two requests that find the same lock old (`overrun`).
- **`GivenIsRecorded`**, **`UsedOnce`**, **`AckedIsStored`**, **`ConfirmedIsProved`**:
  a provider that gave a chunk can claim it, once. `UsedOnce` holds past the expiry of
  the signed request: the nonce is forgotten then, but a download session opened with it
  is dead on arrival, since it expires when the request does, so one session of a nonce at
  most gives out chunks. `ConfirmedIsProved` speaks of behaviours in which no answer is
  ever lost: the session is proved, or nothing got on chain because the provider's key, its
  temporary file, the command or the broadcast failed (`main.go:4602-4639`,
  `tx_submit.go:14-37`; `dropped`), the page was told, and the record still holds what the
  chain accepts. The page does not ask again by itself.
- **`NewDealIsSelected`** speaks of deals whose creation the page has read in its receipt.
- **`ViewsAreCurrent`** also says that an interval sends queries only while its effect
  runs.
- **`PendingIsUnderWay`** also holds the dashboard's type invariant: the list of recent
  files has no file twice and one load at most is current. An entry shown as downloading
  has its download under way until the page is reloaded.
- **`OpenedCanBeProved`** is stated for sessions whose global blob indices are words,
  and **`GrowthIsPaid`** for growth by less than half a word; the table below has what
  happens beyond.
- **`LocalReadsBack`** leaves out the tail of a file that others were appended to, and
  deals that are not striped, whose slabs are saved over each other; the table below has
  both.
- A property of the six later runs is often a conjunction of named parts, each defined
  and explained in its component; the mutants break the parts one by one.

Two runs expect a violation:

| run | sentence | what the code does |
|---|---|---|
| `slashing_repair` | `spec.md:288`: accountability applies only to ACTIVE slots | the provider of a REPAIRING slot may not prove and is slashed for not proving |
| `fetch_order` | `mode2-stripe.spec.ts:127`: the downloaded file equals the uploaded one | chunks are appended provider by provider, so a striped file comes out of order |

**Where code and documents part.** The modules end with further properties that a
document, a comment, a message of the page or a test states and the code does not
keep. No run repeats them; TLC refutes each on a small instance like those of the runs, where
one is named with the flag or input in brackets.

| property | what the code does, and the sentence |
|---|---|
| `MCSlashing.ProvidersEqualSlots` | SignalSaturation appends the new stripe to deal.Providers only. rfcs/rfc-mode2-onchain-state.md:109 says "For Mode 2, `providers[]` MUST equal `[slot.provider for slot in mode2_slots]` until `providers[]` can be deprecated." |
| `MCDeals.SlotMapComplete` | AssignProviders caps the count at the number of suitable providers (bootstrap mode) and the slot map is built from the shorter list. rfcs/rfc-mode2-onchain-state.md:105 says "If `redundancy_mode == 2`, `mode2_profile.k+m == len(mode2_slots)` MUST hold". |
| `MCSlashing.NewcomersGetAWindow` | A provider with no recorded proof is measured from deal.StartBlock, so one that joins later through CompleteSlotRepair or SignalSaturation is overdue at once. types/types.go:9 says of ProofWindow "Blocks allowed between proofs before slashing". |
| `MCProofs.ReputationNeedsSuccess` | The reputation is raised and stored before any proof is verified; a system proof that fails returns Success: false with a nil error (line 1018), so the write is kept. keeper/msg_server.go:842 says "Update reputation for success". |
| `NilChain.UnprovedExpiryIsRecorded` | Evidence is recorded only when the session is OPEN; a USER_CONFIRMED session, which has no proof either, leaves none. keeper/msg_server.go:1771 says "if the session expired without a provider-submitted proof, record a lightweight evidence marker and degrade provider health." |
| `Transport.NoRetryOf4xx` | An answer is an HTTP error only if its text holds three digits (hooks/useTransportRouter.ts:105); the gateway's 404 "deal not found" (nil_gateway/main.go:1643) has none, matches /dns\|not known\|not found/, becomes class dns and is retried. lib/transport/router.test.ts:30 says "executeWithFallback does not retry 4xx on the same backend" |
| `Transport.EveryCallSettles` | The router aborts an attempt through a signal after its timeout, but the candidates of listFiles, slab and manifestInfo ignore the signal, and those of plan, mduKzg and upload have a timer of their own, which fetchWithTimeout clears when the headers are there (lib/http.ts:36-37) while the body is still to be read (api/gatewayClient.ts:39, 43, 152, 156, 190, 193). A backend that is silent, or falls silent after its headers, is waited for without end and the next backend is never asked. lib/transport/router.test.ts:108 says "executeWithFallback classifies timeouts and falls back" |
| `Fetch.OpensAreAccepted` | The website opens one session per provider over the range from its first to its last blob; the chain refuses a Mode 2 range that leaves its slot or its MDU (keeper/msg_server.go:1564). spec.md:385 says "a contiguous sequence of blobs that may span MDUs" |
| `Fetch.AbandonedCanBeCancelled` | Sessions are opened with expiresAt 0, and CancelRetrievalSession refuses a session without a deadline (keeper/msg_server.go:1767). spec.md:429 says "If a session expires without completion, the locked `variable` amount MAY be unlocked by an owner-initiated cancel transaction" |
| `Fetch.SignatureIsAsked` (`ReqSigRequired`) | shouldSignMetaAuth looks for "req_sig is required" in the error's message, but the router throws "All fetch_range attempts failed" (lib/transport/router.ts:161) and keeps the answer in its trace, so the branch that signs is never taken. hooks/useFetch.ts:449 says "Sign the download request to authorize retrieval" |
| `Fetch.ConfirmedIsKept` (no `GatewayPresent`) | The proof is requested from the gateway's own base after the confirmation; if that request fails fetchFile throws and the file is not kept. prompt_for_next_agent.md:19 says "The **gateway remains optional**: the browser must be able to fully operate without a local gateway present." |
| `NilFs.AppendKeepsFiles` | The reader takes an MDU to be full unless it is the slab's last, while the encoder stopped at the end of the file in it (components/FileSharder.tsx:1597) and aligned the tail to the right of its scalar. nil-website/tests/mode2-stripe.spec.ts:130 says "mode2 append keeps prior files" |
| `NilFs.CacheHoldsContent` | The reader counts the MDU files present in the deal's directory; a save writes the new slab's files and removes none, so the count is that of the longest slab ever saved. components/DealDetail.tsx:586 says "OPFS is treated as a cache for on-chain content." |
| `WorkerPool.PoolIsBestEffort` (`ErrorsInInit`) | The ids of the workers' init messages are not entered in commitPendingByWorker, so onerror rejects nothing and Promise.all never settles. workers/gateway.worker.ts:179 says "Initialize the blob-commit compute pool (best-effort)." |
| `FileSharder.RootIsMaterialized` (no gateway) | An append uploads only the MDUs it made, under the new root; the providers keep slabs per root (nil_gateway/main.go:4844) and have the old MDUs under the old one. nil_gateway/ingest_mode2.go:665 says "Copy existing user shards into staging so the new manifest root is fully materialized on providers." |
| `FileSharder.CommitFollowsUpload` (not `patient`, or two deals) | mode2UploadComplete belongs to the panel, not to a slab; the upload of one run sets it while another run's root is about to be shown. nil-website/website-spec.md:436 says "uploads metadata MDUs to all slots (`/sp/upload_mdu`) and user shards via `/sp/upload_shard` (Mode 2), then commits the `manifest_root` on-chain." |
| `FileSharder.StripesForMode2` (`LoadsFail`) | When the deal's hint cannot be fetched the panel falls back to no stripe, and a file for a Mode 2 deal is encoded and committed as Mode 1. nil-website/website-spec.md:436 says "uploads metadata MDUs to all slots (`/sp/upload_mdu`) and user shards via `/sp/upload_shard` (Mode 2), then commits the `manifest_root` on-chain." |
| `FileSharder.CommittedMeansOnChain` (not `patient`, or two deals) | The effect that sees the receipt takes the root and the deal now shown for the ones that were committed. components/FileSharder.tsx:1890 says "Committed!" |
| `FileSharder.SavedIsCommitted` | isCommitSuccess stays true after the first commit, and the effect runs again for every new root. components/FileSharder.tsx:594 says "Saving committed slab to OPFS..." |
| `FileSharder.CacheIsWhole` | The gateway path saves the manifest root and, having no MDUs in the browser, no slab. components/DealDetail.tsx:586 says "OPFS is treated as a cache for on-chain content." |
| `FileSharder.OwnBuilder` (not `patient`, no gateway) | Runs share the one MDU #0 builder the worker holds; a run's init empties it while another is between setting its roots and reading the bytes. MAINNET_GAP_TRACKER.md:71 says "browser + gateway agree on commitments deterministically." |
| `Dashboard.NoRollback` | The first answer with the new root ends the override, and an answer to an earlier request, arriving later, shows the old root again. components/Dashboard.tsx:1140 says "Optimistic UI: update the selected deal immediately so Deal Explorer can refresh" |
| `Dashboard.CreatedIsSelected` | The page learns of the deal from its receipt. waitForTransactionReceipt throws on any error of the RPC (lib/evmRpc.ts:13-21, 37) and after 90 s (:47), useCreateDeal when the event is missing (hooks/useCreateDeal.ts:71), and the catch at components/Dashboard.tsx:984 selects nothing, though the deal may be on chain. components/Dashboard.tsx:980 says "Auto-switch to content tab and pre-fill deal ID" |
| `Dashboard.CommittedWhereUploaded` | The staged upload does not remember its deal; the button commits it into whichever deal is selected, whose providers do not have it. components/Dashboard.tsx:900 says "Auto-commit into the selected deal." |
| `Dashboard.UploadsAreRecorded` | handleUpdateContent is called by the render that started the upload, in which stagedUpload is still empty, so recordUpload returns at once. components/Dashboard.tsx:2323 says "Upload or download a file to see it here." |
| `Dashboard.PendingIsUnderWay` (a reload) | Recent files are restored from storage with the status they had; a pending one stays pending. components/Dashboard.tsx:2330 says "Downloading..." |
| `Dashboard.DealsAreOwn` | When none of the deals is the user's, fetchDeals lists all of them. nil-website/website-spec.md:256 says "`deals`: List of user's deals (fetched from LCD)." |
| `DealDetail.EmptyShowsNothing` (not `serial`, two deals) | The effect that loads a deal has no cancellation, so answers to the previous deal's requests are stored over the reset state. components/DealDetail.tsx:586 says "Do not surface local OPFS slabs for \"empty\" deals" |
| `DealDetail.FilesAreOfRoot` | When the request fails, fetchLocalFiles shows the local slab without comparing its root with the deal's, as the branch for an empty answer does. components/DealDetail.tsx:370 says "Local slab doesn't match chain; still show gateway result (empty) to avoid confusion." |
| `DealDetail.SavedIsCurrent` (two downloads) | The cached file is looked up by deal and path; neither root nor size is compared. components/DealDetail.tsx:587 says "This avoids showing stale slabs after a chain reset where deal IDs are reused." |
| `DealDetail.SavedIsTheRange` (two downloads) | A cached file answers a download whatever range is set, and a downloaded range is cached as the whole file (:995). components/DealDetail.tsx:802 says "Len=0 downloads to EOF" |
| `Pollers.SessionsAreMine` | When the address changes the effect cancels its request and does not clear the list; that of the earlier account is shown until the new account's first answer, and for good if none comes. components/Dashboard.tsx:2537 says "My Retrieval Sessions" |
| `Pollers.ShownNeverGoesBack` | Each tick sends a request and stores its answer when it comes, whatever came before. pages/ProofsDashboard.tsx:294 says "Live view of on-chain retrieval sessions" |
| `Pollers.NoIntervalLeaks` | useProofs sets its interval after the first load, without looking at cancelled (hooks/useProofs.ts:73-78). If the page was left during that load, the cleanup had no interval to clear and nothing clears this one; its ticks return at once. hooks/useProofs.ts:80-85 clears the interval when the effect ends |
| `Faucet.StatusIsTrue` (not `patient`) | pollTx sets txStatus for whichever transaction it was started for; the page shows it beside the last one. components/Dashboard.tsx:1338 says "Faucet tx ${faucetTx} confirmed." |
| `Faucet.StatusIsTrue` (`local`) | For a local chain the status becomes confirmed by a timer, without looking. components/Dashboard.tsx:1338 says "Faucet tx ${faucetTx} confirmed." |
| `Faucet.MessageIsCurrent` | handleRequestFunds waits for the balance and then writes "pending", after the effect that follows the status has written "confirmed"; the status does not change again, so the message stays. components/Dashboard.tsx:1338 says "Faucet tx ${faucetTx} confirmed." |
| `Faucet.OneRequestPerIp` | The cooldown is kept per r.RemoteAddr, which is host and port; a new connection is a new key. nil_faucet/main.go:125 says "Rate Limit (Simple IP based)" |
| `Words.ProvenIsAsked` (an MDU index near the top of a word) | start_mdu_index * leaf_count is computed modulo 2^64 and the bound on it applies only if TotalMdus is set, which no handler does; only the addition after it is checked. keeper/msg_server.go:1557 says "blob range overflow" |
| `Words.HintIsSound` (a hint near the top of a word) | k+m is compared after an addition that wraps, so a hint with a huge M passes; the profile then keeps uint32(M). types/service_hint.go:92 says "K+M exceeds base replication" |
| `Words.GrowthIsPaid` without its bound on the growth | int64(deltaSize) is negative for 2^63 bytes or more, the cost is not positive and nothing is charged. keeper/msg_server.go:513 says "TERM DEPOSIT (Storage Lock-in)" |
| `SessionProofs.ProvableSession` (`lost`) | storeOnChainSessionProof appends whatever comes; a repeated fetch of the same blobs leaves more proofs than blobs, and the chain demands exactly one each. Only the fallback list is sorted and freed of duplicates (nil_gateway/main.go:4571). nil_gateway/main.go:4513 says "It expects the gateway to have recorded per-blob ChainedProofs under the given session_id." |
| `DownloadSessions.LoadSeesGiven` (a restart) | loadDownloadSession fills the cache after its read transaction is over, without looking whether an append came between; a receipt for what was given is then refused. nil_gateway/main.go:4380 says "receipt.chunk_count must equal recorded chunk count" |
| `DownloadSessions.NonceIsConsumed` | A nonce is refused until its request expires (nil_gateway/fetch_session.go:253), and the request is accepted for 30 seconds more (main.go:3453). Sent again in that time it opens another session, or has its range served again. notes/retrieval-session-receipts.md:114 says "request/session replays remain prevented." |
| `SlabIngest.CompleteIsWhole` (`shared`) | mode2DirLooksComplete accepts a directory with manifest.bin and mdu_0.bin, or with the marker, which the merge moves first because names are sorted. nil_gateway/ingest_mode2.go:399 says "Fast-path: if the slab is already complete, there's nothing to finalize." |
| `SlabIngest.LockExcludes` (`overrun`) | The lock is broken by its age alone (nil_gateway/ingest_mode2.go:428-431): a holder slower than two minutes loses it while it is at work. And the age is read and the lock removed in two calls; between them another request may have removed it and taken a new one. nil_gateway/ingest_mode2.go:473 says "Under lock, we can safely replace the incomplete directory with our staged copy." |

**Bounds.** `MaxDeals`, `MaxHeight`, `MaxNonce`, `MaxGen`, `MaxProofs` and
`MaxReplication` bound counters; message sets are small. Handlers touch one deal
at a time, and the only things deals share are the bank, the registry, the
parameters and the nonces, so one deal suffices where those are not the subject;
`deals` uses two. Heights go past every deadline and, in `slashing`, through three
windows, so that before, at and after a deadline or window all occur. Three
providers are enough for a provider to leave, another to take over and the first
to return. Fees, shares and deposits are chosen so that rounding happens (3333
basis points of 2; prices of 5/10). In the browser, two overlapping operations are
what a race needs; the runs allow two or three, enough for one to overtake two
others. Two workers and three batches let a worker fail with one batch in flight
and one waiting. Three requests at a provider are what it takes for a lock to
be left by a restart, broken by one request and wanted by another. Lengths in `layout` lie below, at and above each boundary; `MaxMdu` is the greatest index
of an MDU file, and a slab is only made if it fits (`Fits`), which in the run all do.
`WordSize` is large enough for the runs that
nothing wraps in them; the operators keep the wrap-around for the proofs.
`CHECK_DEADLOCK FALSE` stands in the runs whose bounds leave a last state with
nothing left to do.

**Fairness.** Each assumption is one the code's scheduling or its environment gives:

- `sessions`: weak fairness of `EndBlock`, because consensus keeps producing blocks,
  and of each session's cancel, because an owner who can take back its own coins
  sends that message in the end. Nothing is assumed of the provider, of the owner's
  confirmations, or of governance. `HeldFeesAreReleased` is stated for sessions with
  a deadline: one with `expires_at = 0` can never be cancelled.
- `Transport`: timers that are set fire. Nothing is assumed of backends, which may stay
  silent, also in the middle of an answer.
- `Fetch`: a provider that was asked submits the proof that earns its fee.
- `WorkerPool`: a thread with a message handles it; workers may fail at any time.
- `FileSharder`: effects run, and a run that waits for an answer gets one (strong
  fairness, since due effects come before an answer that waits in the event loop).
- `Dashboard`: requests of an operation under way are answered or fail.
- `Pollers`: intervals fire, a query is served or fails, and a remote asked again and
  again answers again and again (strong fairness).
- `Faucet`: the service answers and the hook's timers fire.
- `SessionProofs`, `SlabIngest`: handlers and the page that have begun go on; commands
  and transactions may fail.

## 4. The proofs

Each theorem holds for every value of the constants: any sets of users, providers,
deals, messages and requests, any bounds. Those about the chain assume what
`NilChain` and `Pricing` state as `ASSUME`s, which TLC evaluates on every run:
messages and parameters have their types (`NilChainAssumption`), and the divisors and
tiers of the price formulas are positive and ordered (`PricingAssumption`). Those about
the gateway and the website assume what `Provider`, `Ingest`, `Retrieval`, `Uploads`,
`Pages` and `Polling` state as `ASSUME`s about sets and bounds, evaluated by TLC too; the
router needs no assumption. `WordsAssumption` says that requests, hints and sizes are words
and that an MDU's blobs, replicated, are counted by half a word (64 * 12 < 2^32 in the
code); `NilFsAssumption` that a scalar carries payload, that sizes are positive and files
not empty. No assumption is about what a definition computes. A theorem states the
property of the run, with its guards, of the specification of the component.

| module | theorem | states |
|---|---|---|
| `NilChainProofs` | `TypeCorrect` | `[]TypeOK` |
| `NilChainProofs` | `PlacementAgrees`, `RepairsWellFormed` | `[]ProvidersFollowSlots`, `[]RepairHasCandidate` |
| `EscrowProofs` | `SessionsImplementEscrow` | the refinement `SessionsAreEscrowed` |
| `EscrowProofs` | `FeesFollowOutcomes` | `FeeFollowsOutcome` |
| `EscrowProofs` | `AlwaysSolvent` | `[]Solvent` |
| `HistoryProofs` | `IntentsCountOnce`, `ReceiptsCountOnce` | `[]IntentsTakeEffectOnce`, `[]ReceiptChargedOnce` |
| `HistoryProofs` | `SlashedOncePerWindow`, `OverdueIsSlashed` | `OneSlashPerWindow`, `NobodyStaysOverdue` |
| `HistoryProofs` | `EarnersHoldActiveSlots`, `PaymentsAllArrive` | `OnlyActiveSlotsEarn`, `PaymentsArrive` |
| `ProviderProofs` | `ChunksAreProvable` | `[]AckedIsStored`; as long as no answer was lost, with `ProvableSession` and `DoneIsCleaned` |
| `ProviderProofs` | `NoncesAndSessionsUsedOnce` | `[]UsedOnce`: `NonceOpensOnce`, `NonceServesOnce`, `ClaimedOnce` |
| `ProviderProofs` | `GivenChunksStay` | `[]GivenIsRecorded`; up to the first restart, with `LoadSeesGiven` and `TakenIsGone` |
| `ProviderProofs` | `LockAdmitsOne` | `[]LockExcludes`, through restarts and broken locks, up to the first `overrun` |
| `ProviderProofs` | `PlacedSlabIsWhole` | `[]SlabStaysWhole`, when not `shared` |
| `RetrievalProofs` | `FallbackSoundAlways`, `UploadsAreSentOnce` | `[]FallbackIsSound`, `[]UploadSentOnce` |
| `RetrievalProofs` | `PaidWasDelivered` | `[]OnlyDeliveredIsPaid` of a download, over any stripe and range |
| `BrowserProofs` | `TokensSentOnce` | `[]PaidOnce` |
| `BrowserProofs` | `StatusIsOfTransaction` | `[]StatusIsTrue`, for `patient` and not `local` |
| `BrowserProofs` | `ViewsStayCurrent` | `ViewsAreCurrent`, of all twelve views |
| `BrowserProofs` | `LoadingPanelsLoad` | `[]LoadingIsTrue` of the explorer |
| `BrowserProofs` | `ExplorerIsOfDeal` | `[]ExplorerShowsTheDeal`, for `serial` |
| `BrowserProofs` | `BoardShowsTarget` | `[]ContentIsOfTarget` and `[]OptimisticRootShown` |
| `BrowserProofs` | `PendingAreUnderWay` | `[]PendingIsUnderWay`, up to the first reload |
| `UploadProofs` | `BuilderIsOwn` | `[]OwnBuilder`, for `patient` |
| `UploadProofs` | `AnswersStayWhole` | `[]AnswersAreWhole`: the types of the pool, `WitnessIsWhole`, `AnsweredOnce` |
| `UploadProofs` | `CommitsWereUploaded` | `[]CommitFollowsUpload`, for `patient`; for one deal with `CommittedMeansOnChain` |
| `LayoutProofs` | `OpenedIsProvable` | `[]OpenedCanBeProved`, for indices that are words |
| `LayoutProofs` | `GrowthIsAlwaysPaid` | `GrowthIsPaid`, for growth by less than half a word |
| `LayoutProofs` | `SlabReadsBack` | `[]LocalReadsBack`: the types of the slab, `SavedReadsBack`, `ChunksAreBlobRuns` |

The restrictions are those of the runs, and each is there because the property is
false without it: section 3 has a row for lost answers (`ProvableSession`), for
restarts (`LoadSeesGiven`), for locks that are overrun (`LockExcludes`), for requests sent
again after they expire (`NonceIsConsumed`), for piecewise uploads
(`CompleteIsWhole`), for the impatient user and the local chain (`StatusIsTrue`,
`OwnBuilder`), for calls that outlive their deal (`EmptyShowsNothing`), for a reload
(`PendingIsUnderWay`), for words that wrap (`ProvenIsAsked`, `GrowthIsPaid`) and for
slabs appended to or saved over (`AppendKeepsFiles`, `CacheHoldsContent`).

**Recursion.** The library's induction theorems are out of reach, but its well-foundedness
of the natural numbers is not (`NatLessThanWellFounded`, `WFMin`). A recursive function
is therefore reasoned about by least counterexamples, always in the same three steps: a
predicate says that a function follows the definition up to m; no least m is without such
a function, so the `CHOOSE` that the definition stands for has one; and no least argument
is without the wanted property. This gives the bytes of a batch (`TotalBytesType`), the
divisor of the halving schedule (`DivisorType`), the bisection for a blob's boundary
(`SearchFinds`), the chunks of a range (`PlannedRuns`) and the filtered list of recent
files.

On the chain:

- *Types.* `TypeOK` is inductive as it stands. What makes it more than bookkeeping
  is that subtraction leaves the natural numbers: every charge is covered by the
  check before it (`EscrowCovers`, `CanPay`), the burn share never exceeds the
  amount, and a provider slashed for several deals at once pays at most what it has.
  The sums and shifts of the price formulas are covered as said under *Recursion*.
- *Placement.* `PlacementInv` is the conjunction of both properties, taken deal by
  deal; together they are inductive. A handler that
  leaves slots, providers and generation alone is discharged by one lemma; the
  others - creation, new content, saturation, both repairs - have one each.
- *Refinement.* The status alone does not show that a session is held only once:
  were a request opened again after it was paid, its phase would go from paid to
  held. The strengthening `NoncesReached` says that the nonce stored for a session's
  owner, deal and provider is at least its own; since opening demands a larger one,
  an existing session is never opened again (`FreshIsNew`). With that, opening is
  `Hold`, an answer is `Agree` or changes nothing, a cancel is `Return`, the end of a
  block is `Tick`, and every other handler is a stuttering step.
- *Where fees go.* The same strengthening, and the lemma that a settlement takes
  exactly the locked fee from the module account whatever the burn share is
  (`SettleTakesFee`): the parameters may have changed since the fee was locked.
- *Solvency.* `Solvent` compares two sums over stores with a balance. The sums are
  cardinalities of sets with one element per coin, so a handler's effect on a sum is
  a pile of coins replaced by another (`CoinsSet`), and no induction over the stores
  is needed. The inductive invariant `SolventInv` adds that the two sets are finite;
  `NoncesReached` is needed again, since a session opened twice would overwrite the
  fee already locked. `PaymentsArrive` follows from the same account of piles.
- *Once only.* Counting alone is not inductive. `IntentInv` adds that an intent that
  was accepted has a nonce no larger than the one stored for its signer, and
  `ChargeInv` the same for a receipt, its deal and its file; the handlers demand a
  larger one. For a batch of receipts this needs that the nonces in it grow, entry
  by entry, for each file.
- *Slashing.* `WindowInv` ties what the pass reads to what happened: the last proof
  it finds is no earlier than the last accepted proof and the last slash, through
  every repair and stripe that changes who is looked at.
- *Earning.* From `PlacementInv`: a provider found at its slot in the legacy list is
  the one in the slot map, as long as the map is full.
- *Words.* `WordsInv` keeps what was checked when the session was opened. At proof time
  the range is computed again from the global index of its first blob; the two agree
  because a whole number of MDUs goes into the quotient (`ShiftDivision`) and a range
  whose first and last blob lie in one slot lies in it whole (`DivisionMonotone`). That
  K survives its conversion to half a word follows from its dividing `BlobsPerMdu`;
  M need not, but opening and proof both use what became of it.

At the provider:

- *Proofs of chunks* (`AckInv`, `OrderInv`). What the page was given is in the record
  or on chain, whatever is refused, abandoned, unseen or interrupted; without losses
  the attempts come in order, so the record is exactly what the chain demands.
- *Download sessions.* `StoreInv` describes database, cache and the requests between
  two of their steps; `NonceInv` says which of them owns a nonce until it expires, and
  `ClaimInv` which has taken a session. That a nonce serves once although it is forgotten
  needs `ServeInv`: a session opened late is expired when it is stored, what a request
  fetches for a session was not expired when it was found, and of the sessions of one
  nonce all but the first are barren - expired before anything was put in them; `GivenInv` and `CacheInv` say where a chunk must be found
  at each of those points. `CacheInv` needs that no restart has happened, because only
  then has every reader filled its cache from a read that is still current.
- *Ingest.* `IngestInv` holds the types and the owner of each staging directory,
  `LockInv` that a lock that is held is young and one that is being broken is old and has
  one breaker and no holder, until it is overrun, and
  `WholeInv` that the slab's directory is either marked incomplete, being merged, or
  has every artifact. The order in which a merge moves its entries is used.

In the browser:

- *Router.* `RouterInv` relates each call to the list of candidates it started with:
  how far it has come, the attempts left for the current one, and the outcome of
  every candidate passed.
- *Downloads.* `FetchInv`: the plan is of the range from its first chunk on and complete
  before a session is asked for (`PlanInv`); the sessions on chain are those asked for,
  and nothing is fetched before they are there (`SessionInv`); the parts are chunks of
  the range, each once, and none is left over when the loops end (`PartsInv`); sessions
  are confirmed by the page's transaction only (`ConfirmInv`). That a provider's session
  covers its chunks rests on the range from its least to its greatest blob, which exists
  because a finite set of numbers is bounded (`Bounded`, by a least counterexample).
- *Faucet.* `PaidInv`: while a request may be tried again its command has not run.
  `FollowInv`: the poll that may still write the status follows the last transaction.
- *Polling views.* `ViewInv`: a query that is not cancelled belongs to the running
  effect and to the account shown.
- *Explorer.* `ExplorerInv` bounds calls and what OPFS remembers by the contents made;
  a flag goes up with a call and comes down with an answer of its kind. `ShowsInv`
  adds that a call is about the root on display, which only `serial` gives.
- *Dashboard.* `BoardInv`: a load that is not cancelled is of the selected deal under
  the root the list gives it, so it does not matter which answer comes last. No
  assumption is needed. `PageInv` follows the list of recent files: an entry that is
  pending has a download under way, which ends by replacing the entry; that an entry is
  replaced and no other is lost is a fact about filtering a list.
- *Upload panel.* `BuilderInv`: only the last run can be under way, and only while the
  panel is processing; and what the one builder holds is what that run has put there
  by the phase it is in. For `CommitsWereUploaded`, `TypesInv` gives the shape of runs,
  slabs and upload tasks, and `DeliveryInv` follows a slab from its run to the chain:
  nothing happens before the deal's settings are read (`LoadInv`); every run was cut for
  them (`RunsInv`), and so is the slab shown, of which nothing is shown while a run is
  under way (`ViewInv`); a flag or a progress bar that says complete is about pieces of
  that slab that are stored (`ShownInv`); the one upload under way is of that slab, and
  what it need not send any more is stored (`UploadInv`); what was sent to be committed
  is stored, and is the slab shown until its receipt is reported (`CommitInv`); what is
  said to be committed is on chain (`ReportInv`). The parts hold each other up:
  dropping one loses another.
- *Workers.* `PoolInv`: a request is in one place at a time - not sent (`UnsentInv`), in
  the inbox (`InboxInv`), with a handler (`HeldInv`) or answered by one message in the
  outbox (`AnswersInv`) - and pending until the answer is read; a handler has, of the
  batches it took up, each one done or in flight (`ShardingInv`), which is what makes a
  result whole although `onerror` fills in for a worker that is lost; and one request at
  most starts the pool (`StartingInv`). Once the gateway worker has died both queues are
  empty.

- *Local slab.* `SlabInv`: the slab of a striped deal fills the indices of its directory
  up to its top and no others, so the number of witness MDUs that the reader infers by
  counting is the one it was saved with (`WitnessesInferred`); and at the index of each
  MDU of a file is what the encoder made of it (`Laid`), through every append that moves
  MDUs up because there are more witnesses. The rest is arithmetic: the blob of a byte,
  which the code computes from its place among the encoded bytes, is its raw offset
  divided by the payload of a blob (`BlobIndexIs`), so a chunk ends where that quotient
  changes (`ChunkIsRun`); and reader and encoder agree on the place of a byte if they
  take the MDU to have the same length (`SameLengthReads`) or its scalar is full
  (`FullScalarReads`).

**Only model-checked.**

- Liveness (`HeldFeesAreReleased`, `TimedCallsSettle`, `DeliveredIsPaid`,
  `UploadsSettle`, `NewDealIsSelected`, `WaitingEnds`, `ConfirmedIsProved`): it needs
  fairness and ENABLED.

Every invariant and every action property of a passing run is proved.

## 5. Not modelled, and the plan

Modelled: all of `x/nilchain` that changes state; of the website, the router, the
downloads, the local slab, the workers, the upload panel, the dashboard, the deal
explorer and the polling views; of the gateway, its sessions and Mode 2 ingest; the
faucet. Not modelled:

- queries, codecs and the CLI of the module: read-only or generated;
- the EVM precompile: batches of the handlers above (next in the plan);
- of the gateway: routing, the S3 adapter, the cache of decoded data
  (`fetch_cache.go`), Mode 1 ingest, the progress and pruning of jobs, and a batch of
  receipts that fails half way (`SpSubmitReceipts`);
- of the dashboard: the balance check before a deal is created and
  `recordRecentActivity`; of the explorer: deal heat and the Merkle view; of the
  panel: speed and remaining time; of the faucet: `/create-deal` and the widget;
- encodings without state (`eip712.ts`, `nilstorePrecompile.ts`, `multiaddr.ts`,
  `merkle.ts`), static pages, the bridge form, and code no page uses
  (`StagingContext`, `p2pGatewayClient`, `appendDownloadChunkToSessionOrCreate`,
  `peekFetchSession`);
- `nil_core`, whose mathematics is out of TLC's reach and whose verdicts are inputs;
  `nil_cli`, `nil_p2p`, the bridge, relayer and mock L1: wrappers or prototypes.

The plan, in order:

1. *done* `Pricing`, `NilChain`, `RetrievalEscrow`, their runs and first theorems.
2. *done* `Words`, `SessionProofs`, `DownloadSessions`, `SlabIngest`.
3. *done* `Transport`, `Fetch`, `NilFs`, `WorkerPool`, `FileSharder`, `Dashboard`,
   `DealDetail`, `Pollers`, `Faucet`.
4. *done* `NilChainHistory` and the chain's properties over history; proofs of every
   safety property, of the chain, the gateway's modules and the website's.
5. `Precompile`: the EVM entry points as batches of the handlers, all-or-nothing.
