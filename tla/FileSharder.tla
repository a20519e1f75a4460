---------------------------- MODULE FileSharder ----------------------------
(***************************************************************************)
(* The upload panel of the website (FileSharder): a file is sharded, in the  *)
(* browser or by the local gateway, its slab uploaded to the providers of    *)
(* the deal, its root committed on chain, and the slab saved in OPFS.        *)
(*                                                                         *)
(* Every file fills one user MDU.  A slab is known by what it was made of:   *)
(* its user MDUs, the file table and the MDU roots of its MDU #0; two slabs  *)
(* have the same manifest root when these are the same.  The steps of        *)
(* processFile between two awaits of the worker are one step each; an        *)
(* upload is one request at a time.  React runs effects after a change and   *)
(* before the next event: no other step is taken while one is due.           *)
(***************************************************************************)
EXTENDS Integers, Sequences, FiniteSets

CONSTANTS
    Files, Deals, NumSlots,
    FirstDeal, NoDeal,
    GatewayEnabled,     \* the build uses a local gateway
    LoadsFail,          \* reading the deal's settings may fail
    FilesVanish,        \* a file may be gone from the disk when it is read
    MaxRuns, MaxUploads, MaxCommits     \* bounds on what the user does

\* What the constants are taken to be.
SharderAssumption ==
    /\ FirstDeal \in Deals /\ NoDeal \notin Deals /\ NumSlots \in Nat \ {0}
    /\ GatewayEnabled \in BOOLEAN /\ LoadsFail \in BOOLEAN /\ FilesVanish \in BOOLEAN
    /\ MaxRuns \in Nat /\ MaxUploads \in Nat /\ MaxCommits \in Nat

VARIABLES
    patient,    \* the user waits for what is under way to end
    mode2,      \* which deals are Mode 2 deals, on chain
    chain,      \* the slabs committed to each deal, the current one last
    stored,     \* what providers have accepted
    deal,       \* dealId, the panel's property
    load,       \* progress of loadDeal
    stripe,     \* isMode2: stripeParams are set
    bases,      \* the deal whose provider endpoints slotBases holds
    view,       \* the panel's other state
    runs,       \* processFile invocations
    builder,    \* the worker's MDU #0 builder
    uploads,    \* upload invocations
    mirrors,    \* slabs being mirrored to the gateway
    commit,     \* useDirectCommit: the last transaction
    last,       \* lastCommitTxRef and lastCommitRef
    reported,   \* what onCommitSuccess was called with
    effectKey,  \* dependencies of the saving effect when it last ran
    persists,   \* invocations of persist
    opfs        \* OPFS directories of the deals

chainVars == <<mode2, chain>>
loadVars  == <<deal, load, stripe, bases>>
saveVars  == <<last, reported, effectKey, persists, opfs>>
stepVars == <<chainVars, stored, loadVars, view, runs, builder, uploads, mirrors, commit, saveVars>>
vars == <<patient, stepVars>>

NoSlab == [mode2 |-> FALSE, base |-> 0, users |-> <<>>, table |-> <<>>, roots |-> <<>>]

\* The slab of these files, encoded by one run that nothing disturbed.
SlabOf(m2, base, users) ==
    [mode2 |-> m2, base |-> base, users |-> users, table |-> users, roots |-> users]

Piece(at, d, s, p) == [at |-> at, deal |-> d, slab |-> s, piece |-> p]

\* Pieces of a slab: 0 is its metadata MDUs, k > 0 its user MDU k or the shard
\* of it for a slot, and the manifest, sent with the metadata in a stripe.
Manifest == -1
Slots == 1..NumSlots
Provider(d, slot) == <<d, slot>>     \* of NoDeal: the build's own provider, spBase

Current(d) == IF chain[d] = <<>> THEN NoSlab ELSE chain[d][Len(chain[d])]
OnChain(d, s) == \E k \in 1..Len(chain[d]) : chain[d][k] = s

-----------------------------------------------------------------------------
(* What the panel derives from its state *)

isCommitSuccess == commit.st = "success"
activeUploading == IF stripe THEN view.mode2Uploading ELSE view.isUploading
isUploadComplete ==
    IF stripe THEN view.mode2UploadComplete
    ELSE view.progress # <<>> /\ \A k \in 1..Len(view.progress) : view.progress[k] = "complete"
isAlreadyCommitted == isCommitSuccess /\ last.root = view.root
readyToCommit == view.root # NoSlab /\ isUploadComplete /\ ~isAlreadyCommitted

Key == <<isCommitSuccess, view.root, view.mdus, view.shards, deal, stripe>>

CommitEffectDue == isCommitSuccess /\ view.root # NoSlab /\ last.tx # commit.tx
EffectsDue == CommitEffectDue \/ Key # effectKey

\* Something is under way that a patient user waits for.
Busy ==
    \/ load # "done" \/ view.processing
    \/ \E k \in 1..Len(uploads) : uploads[k].todo # <<>>
    \/ commit.st \in {"wallet", "sent", "mined"}
    \/ persists # {}

-----------------------------------------------------------------------------
(* loadDeal *)

SwitchDeal(d) ==
    /\ ~EffectsDue
    /\ patient => ~Busy
    /\ d # deal
    /\ deal' = d /\ load' = "stripe"
    /\ UNCHANGED <<chainVars, stored, stripe, bases, view, runs, builder, uploads, mirrors, commit,
                   saveVars>>

LoadStripe ==
    /\ ~EffectsDue
    /\ load = "stripe"
    /\ stripe' = mode2[deal] /\ load' = "bases"
    /\ UNCHANGED <<chainVars, stored, deal, bases, view, runs, builder, uploads, mirrors, commit,
                   saveVars>>

LoadBases ==
    /\ ~EffectsDue
    /\ load = "bases"
    /\ bases' = deal /\ load' = "done"
    /\ UNCHANGED <<chainVars, stored, deal, stripe, view, runs, builder, uploads, mirrors, commit,
                   saveVars>>

\* The settings cannot be read: the deal is taken for one that is not striped.
LoadFails ==
    /\ ~EffectsDue
    /\ LoadsFail /\ load # "done"
    /\ stripe' = FALSE /\ bases' = NoDeal /\ load' = "done"
    /\ UNCHANGED <<chainVars, stored, deal, view, runs, builder, uploads, mirrors, commit, saveVars>>

-----------------------------------------------------------------------------
(* processFile *)

\* handleDrop, handleFileSelect: nothing stops a second file
PickFile(f) ==
    /\ ~EffectsDue
    /\ patient => ~Busy
    /\ load # "stripe"
    /\ Len(runs) < MaxRuns
    /\ LET viaGateway == stripe /\ GatewayEnabled IN
       /\ view' = [view EXCEPT !.root = NoSlab, !.mdus = NoSlab, !.shards = {},
                               !.processing = TRUE, !.progress = <<>>, !.isUploading = FALSE,
                               !.mode2Uploading = viaGateway, !.mode2UploadComplete = FALSE]
       /\ runs' = Append(runs, [file |-> f, deal |-> deal, mode2 |-> stripe,
                                phase |-> IF viaGateway THEN "gateway" ELSE "wasm",
                                base |-> <<>>, table |-> <<>>, mdu0 |-> [table |-> <<>>, roots |-> <<>>]])
    /\ UNCHANGED <<chainVars, stored, loadVars, builder, uploads, mirrors, commit, saveVars>>

\* The run i is at phase p and goes on.
Step(i, p) ==
    /\ ~EffectsDue
    /\ runs[i].phase = p
    /\ UNCHANGED <<chainVars, loadVars, uploads, mirrors, commit, saveVars>>

ToPhase(i, p) == runs' = [runs EXCEPT ![i].phase = p]

AllPieces(d, s) ==
    {Piece(Provider(d, slot), d, s, p) : slot \in Slots, p \in 0..Len(s.users)}

\* POST /gateway/upload: the gateway appends the file to the deal's slab,
\* uploads all of it to the providers and returns the new root.
GatewayIngest(i) ==
    LET r == runs[i]
        old == Current(r.deal).users
        s == SlabOf(TRUE, Len(old), Append(old, r.file))
    IN  /\ Step(i, "gateway")
        /\ stored' = stored \cup AllPieces(r.deal, s)
        /\ view' = [view EXCEPT !.root = s, !.mdus = NoSlab, !.shards = {}, !.processing = FALSE,
                                !.mode2Uploading = FALSE, !.mode2UploadComplete = TRUE]
        /\ ToPhase(i, "over")
        /\ UNCHANGED builder

\* The gateway is not there: the browser does the work.
GatewayUnreachable(i) ==
    /\ Step(i, "gateway")
    /\ view' = [view EXCEPT !.mode2Uploading = FALSE]
    /\ ToPhase(i, "wasm")
    /\ UNCHANGED <<stored, builder>>

\* Leaves the panel busy.
RunFailsSilently(i) ==
    /\ runs[i].phase \notin {"base", "over"}
    /\ Step(i, runs[i].phase)
    /\ ToPhase(i, "over")
    /\ UNCHANGED <<stored, view, builder>>

\* Any other failure of the gateway, of the WASM module, of the worker.
RunFails(i) ==
    /\ runs[i].phase \notin {"base", "over"}
    /\ Step(i, runs[i].phase)
    /\ view' = [view EXCEPT !.processing = FALSE,
                            !.mode2Uploading = IF runs[i].phase = "gateway" THEN FALSE ELSE @]
    /\ ToPhase(i, "over")
    /\ UNCHANGED <<stored, builder>>

\* file.arrayBuffer() is awaited outside of any try: when it throws, the panel
\* stays busy until the page is reloaded.
FileUnreadable(i) ==
    /\ FilesVanish
    /\ Step(i, "base")
    /\ ToPhase(i, "over")
    /\ UNCHANGED <<stored, view, builder>>

\* ensureWasmReady, then the bytes of the file
WasmReady(i) ==
    /\ Step(i, "wasm")
    /\ ToPhase(i, "base")
    /\ UNCHANGED <<stored, view, builder>>

\* A base that can be read: MDU #0 with files, and the user MDUs counted back
\* from the last MDU on disk.
ReadableBase(o) ==
    LET n == Len(o.mdus[1].table)
        users == [j \in 1..n |-> o.mdus[Len(o.mdus) - n + j].file]
    IN  IF o.mdus = <<>> THEN <<>> ELSE IF n >= Len(o.mdus) THEN <<>> ELSE users

\* Mode 2 appends to the slab that OPFS holds, whatever the chain says.
ReadBase(i) ==
    LET r == runs[i]
        o == opfs[r.deal]
        users == IF r.mode2 THEN ReadableBase(o) ELSE <<>>
    IN  /\ Step(i, "base")
        /\ runs' = [runs EXCEPT ![i].phase = "build", ![i].base = users,
                                ![i].table = IF users = <<>> THEN <<>> ELSE o.mdus[1].table]
        /\ UNCHANGED <<stored, view, builder>>

\* initMdu0Builder or loadMdu0Builder: there is one builder
InitBuilder(i) ==
    /\ Step(i, "build")
    /\ builder' = [table |-> runs[i].table, roots |-> <<>>]
    /\ ToPhase(i, "users")
    /\ UNCHANGED <<stored, view>>

RunUsers(r) == Append(r.base, r.file)

\* The user MDUs are expanded; of a stripe, the shards of new ones are kept.
ShardUsers(i) ==
    /\ Step(i, "users")
    /\ view' = IF runs[i].mode2 THEN [view EXCEPT !.shards = {Len(RunUsers(runs[i]))}] ELSE view
    /\ ToPhase(i, "roots")
    /\ UNCHANGED <<stored, builder>>

\* The witness MDUs are expanded, and all roots set (setMdu0Root).
SetRoots(i) ==
    /\ Step(i, "roots")
    /\ builder' = [builder EXCEPT !.roots = RunUsers(runs[i])]
    /\ ToPhase(i, "append")
    /\ UNCHANGED <<stored, view>>

\* Leaves the file out of the table of a slab that is appended to.
AppendRecordOnce(i) ==
    /\ Step(i, "append")
    /\ builder' = [builder EXCEPT !.table = IF @ = <<>> THEN <<runs[i].file>> ELSE @]
    /\ ToPhase(i, "bytes")
    /\ UNCHANGED <<stored, view>>

\* appendFileToMdu0
AppendRecord(i) ==
    /\ Step(i, "append")
    /\ builder' = [builder EXCEPT !.table = Append(@, runs[i].file)]
    /\ ToPhase(i, "bytes")
    /\ UNCHANGED <<stored, view>>

\* getMdu0Bytes, and the expansion of MDU #0
GetMdu0(i) ==
    /\ Step(i, "bytes")
    /\ runs' = [runs EXCEPT ![i].phase = "manifest", ![i].mdu0 = builder]
    /\ UNCHANGED <<stored, view, builder>>

\* computeManifest: the slab is complete
FinishRun(i) ==
    LET r == runs[i]
        s == [mode2 |-> r.mode2, base |-> Len(r.base), users |-> RunUsers(r),
              table |-> r.mdu0.table, roots |-> r.mdu0.roots]
    IN  /\ Step(i, "manifest")
        /\ view' = [view EXCEPT !.root = s, !.mdus = s, !.processing = FALSE]
        /\ ToPhase(i, "over")
        /\ UNCHANGED <<stored, builder>>

-----------------------------------------------------------------------------
(* Uploads *)

SetToSeqUp(S) == CHOOSE q \in [1..Cardinality(S) -> S] :
                     \A j, k \in 1..Cardinality(S) : j < k => q[j] < q[k]

\* Metadata and manifest for every slot, then the shards of new user MDUs.
StripePieces(shards) ==
    LET q == SetToSeqUp(shards)
    IN  [k \in 1..NumSlots |-> <<k, 0>>]
        \o [k \in 1..(NumSlots * Len(q)) |->
              <<((k - 1) % NumSlots) + 1, q[((k - 1) \div NumSlots) + 1]>>]

\* Every MDU for one provider, then the manifest.
MduPieces(users) ==
    [k \in 1..(Len(users) + 1) |-> <<1, k - 1>>] \o << <<1, Manifest>> >>

\* The upload button: uploadMode2 or uploadMdus, with the state of that moment.
Upload ==
    /\ ~EffectsDue
    /\ Len(uploads) < MaxUploads
    /\ view.mdus # NoSlab /\ view.root # NoSlab
    /\ ~activeUploading /\ ~view.processing /\ ~isUploadComplete
    /\ stripe => bases # NoDeal
    /\ LET todo == IF stripe THEN StripePieces(view.shards) ELSE MduPieces(view.mdus.users) IN
       /\ uploads' = Append(uploads, [slab |-> view.root, deal |-> deal, at |-> bases,
                                      mode2 |-> stripe, todo |-> todo, ok |-> TRUE])
       /\ view' = IF stripe
                  THEN [view EXCEPT !.mode2Uploading = TRUE, !.mode2UploadComplete = FALSE]
                  ELSE [view EXCEPT !.isUploading = TRUE,
                                    !.progress = [k \in 1..Len(todo) |-> "pending"]]
    /\ UNCHANGED <<chainVars, stored, loadVars, runs, builder, mirrors, commit, saveVars>>

\* setUploadProgress of a step, on whatever steps are shown by now
Marked(progress, piece, st) ==
    [k \in 1..Len(progress) |->
        IF IF piece = Manifest THEN k = Len(progress) ELSE k = piece + 1 /\ k < Len(progress)
        THEN st ELSE progress[k]]

\* What is left to send once a piece was answered: a stripe stops at the first
\* failure, the MDUs go on without the manifest.
Rest(u, ok) ==
    LET t == Tail(u.todo)
    IN  CASE ok /\ u.ok -> t
          [] u.mode2 /\ ~ok -> <<>>
          [] OTHER -> IF t # <<>> /\ Head(t)[2] = Manifest THEN <<>> ELSE t

\* Takes an upload with a failed piece for a complete one.
ShownAlwaysComplete(u, ok) ==
    LET over == Rest(u, ok) = <<>>
    IN  IF u.mode2
        THEN [view EXCEPT !.mode2Uploading = IF over THEN FALSE ELSE @,
                          !.mode2UploadComplete = IF over THEN TRUE ELSE @]
        ELSE [view EXCEPT !.progress = Marked(@, Head(u.todo)[2], "complete"),
                          !.isUploading = IF over THEN FALSE ELSE @]

\* The panel after a piece of upload u was answered.
Shown(u, ok) ==
    LET over == Rest(u, ok) = <<>>
        piece == Head(u.todo)[2]
    IN  IF u.mode2
        THEN [view EXCEPT !.mode2Uploading = IF over THEN FALSE ELSE @,
                          !.mode2UploadComplete = IF over /\ ok THEN TRUE ELSE @]
        ELSE [view EXCEPT !.progress = Marked(@, piece, IF ok THEN "complete" ELSE "error"),
                          !.isUploading = IF over THEN FALSE ELSE @]

\* A provider accepts a piece, or does not.  A complete upload is mirrored.
UploadPiece(k, ok) ==
    LET u == uploads[k]
        h == Head(u.todo)
        done == Rest(u, ok) = <<>> /\ u.ok /\ ok
    IN  /\ ~EffectsDue
        /\ u.todo # <<>>
        /\ uploads' = [uploads EXCEPT ![k].todo = Rest(u, ok), ![k].ok = @ /\ ok]
        /\ stored' = IF ok THEN stored \cup {Piece(Provider(u.at, h[1]), u.deal, u.slab, h[2])}
                           ELSE stored
        /\ view' = IF done /\ ~GatewayEnabled THEN [Shown(u, ok) EXCEPT !.mirror = "skipped"]
                   ELSE IF done THEN [Shown(u, ok) EXCEPT !.mirror = "running"]
                   ELSE Shown(u, ok)
        /\ mirrors' = IF done /\ GatewayEnabled THEN mirrors \cup {u.slab} ELSE mirrors
        /\ UNCHANGED <<chainVars, loadVars, runs, builder, commit, saveVars>>

\* mirrorSlabToGateway ends, one way or the other
MirrorEnds(s, outcome) ==
    /\ ~EffectsDue
    /\ s \in mirrors
    /\ mirrors' = mirrors \ {s}
    /\ view' = [view EXCEPT !.mirror = outcome]
    /\ UNCHANGED <<chainVars, stored, loadVars, runs, builder, uploads, commit, saveVars>>

-----------------------------------------------------------------------------
(* Commit *)

commitOnly == <<stored, loadVars, view, runs, builder, uploads, mirrors, saveVars>>

Commit ==
    /\ ~EffectsDue
    /\ readyToCommit /\ commit.st \notin {"wallet", "sent", "mined"}
    /\ commit.tx < MaxCommits
    /\ commit' = [st |-> "wallet", tx |-> commit.tx + 1, deal |-> deal, slab |-> view.root]
    /\ UNCHANGED <<chainVars, commitOnly>>

\* The wallet signs the transaction, or the user refuses.
Wallet(ok) ==
    /\ ~EffectsDue /\ commit.st = "wallet"
    /\ commit' = [commit EXCEPT !.st = IF ok THEN "sent" ELSE "error"]
    /\ UNCHANGED <<chainVars, commitOnly>>

\* UpdateDealContent is executed.
Mine ==
    /\ commit.st = "sent"
    /\ commit' = [commit EXCEPT !.st = "mined"]
    /\ chain' = [chain EXCEPT ![commit.deal] = Append(@, commit.slab)]
    /\ UNCHANGED <<mode2, commitOnly>>

\* Takes the transaction's hash for its receipt.
ReceiptAtHash ==
    /\ ~EffectsDue /\ commit.st \in {"sent", "mined"}
    /\ commit' = [commit EXCEPT !.st = "success"]
    /\ UNCHANGED <<chainVars, commitOnly>>

\* The receipt arrives; a transaction may also be reverted or lost.
Receipt ==
    /\ ~EffectsDue /\ commit.st = "mined"
    /\ commit' = [commit EXCEPT !.st = "success"]
    /\ UNCHANGED <<chainVars, commitOnly>>

Revert ==
    /\ ~EffectsDue /\ commit.st = "sent"
    /\ commit' = [commit EXCEPT !.st = "error"]
    /\ UNCHANGED <<chainVars, commitOnly>>

-----------------------------------------------------------------------------
(* Effects: the report of a commit, and the slab saved in OPFS *)

Effects ==
    /\ EffectsDue
    /\ IF CommitEffectDue
       THEN /\ last' = [tx |-> commit.tx, root |-> view.root]
            /\ reported' = [deal |-> deal, slab |-> view.root]
       ELSE UNCHANGED <<last, reported>>
    /\ effectKey' = Key
    /\ persists' =
         IF Key = effectKey THEN persists
         ELSE {[p EXCEPT !.cancelled = TRUE] : p \in persists}
              \cup (IF isCommitSuccess /\ view.root # NoSlab /\ (view.mdus # NoSlab \/ stripe)
                    THEN {[deal |-> deal, root |-> view.root, mdus |-> view.mdus, next |-> 0,
                           cancelled |-> FALSE]}
                    ELSE {})
    /\ UNCHANGED <<chainVars, stored, loadVars, view, runs, builder, uploads, mirrors, commit, opfs>>

Without(p) == persists \ {p}
persistOnly == <<chainVars, stored, loadVars, view, runs, builder, uploads, mirrors, commit, last,
                 reported, effectKey>>

\* writeManifestRoot and writeManifestBlob
PersistRoot(p) ==
    /\ p.next = 0
    /\ opfs' = [opfs EXCEPT ![p.deal].root = p.root]
    /\ persists' = Without(p) \cup (IF p.mdus = NoSlab THEN {} ELSE {[p EXCEPT !.next = 1]})
    /\ UNCHANGED persistOnly

MduContent(s, j) ==
    IF j = 1 THEN [table |-> s.table, file |-> "none"] ELSE [table |-> <<>>, file |-> s.users[j - 1]]

\* writeMdu, for one MDU after the other
PersistMdu(p) ==
    LET old == opfs[p.deal].mdus
        c == MduContent(p.mdus, p.next)
    IN  /\ p.next > 0 /\ ~p.cancelled
        /\ opfs' = [opfs EXCEPT ![p.deal].mdus =
                       IF p.next > Len(old) THEN Append(old, c) ELSE [old EXCEPT ![p.next] = c]]
        /\ persists' = Without(p) \cup (IF p.next = Len(p.mdus.users) + 1 THEN {}
                                        ELSE {[p EXCEPT !.next = @ + 1]})
        /\ UNCHANGED persistOnly

\* It is cancelled, or OPFS refuses a write.
PersistEnds(p) ==
    /\ p.cancelled => p.next > 0
    /\ persists' = Without(p)
    /\ UNCHANGED <<persistOnly, opfs>>

-----------------------------------------------------------------------------

EmptyView ==
    [root |-> NoSlab, mdus |-> NoSlab, shards |-> {}, processing |-> FALSE, progress |-> <<>>,
     isUploading |-> FALSE, mode2Uploading |-> FALSE, mode2UploadComplete |-> FALSE,
     mirror |-> "idle"]

Init ==
    /\ patient \in BOOLEAN
    /\ mode2 \in [Deals -> BOOLEAN]
    /\ chain = [d \in Deals |-> <<>>]
    /\ stored = {}
    /\ deal = FirstDeal /\ load = "stripe" /\ stripe = FALSE /\ bases = NoDeal
    /\ view = EmptyView
    /\ runs = <<>> /\ uploads = <<>> /\ mirrors = {}
    /\ builder = [table |-> <<>>, roots |-> <<>>]
    /\ commit = [st |-> "none", tx |-> 0, deal |-> FirstDeal, slab |-> NoSlab]
    /\ last = [tx |-> 0, root |-> NoSlab]
    /\ reported = [deal |-> NoDeal, slab |-> NoSlab]
    /\ effectKey = Key
    /\ persists = {}
    /\ opfs = [d \in Deals |-> [root |-> NoSlab, mdus |-> <<>>]]

RunStep(i) ==
    \/ GatewayIngest(i) \/ GatewayUnreachable(i) \/ RunFails(i) \/ FileUnreadable(i) \/ WasmReady(i)
    \/ ReadBase(i) \/ InitBuilder(i) \/ ShardUsers(i) \/ SetRoots(i) \/ AppendRecord(i) \/ GetMdu0(i)
    \/ FinishRun(i)

User ==
    \/ \E d \in Deals : SwitchDeal(d)
    \/ \E f \in Files : PickFile(f)
    \/ Upload \/ Commit

\* A step of the user, the page, the providers or the chain.
PanelStep ==
    \/ User
    \/ LoadStripe \/ LoadBases \/ LoadFails
    \/ \E i \in 1..Len(runs) : RunStep(i)
    \/ \E k \in 1..Len(uploads), ok \in BOOLEAN : UploadPiece(k, ok)
    \/ \E s \in mirrors, o \in {"success", "skipped", "error"} : MirrorEnds(s, o)
    \/ \E ok \in BOOLEAN : Wallet(ok)
    \/ Mine \/ Receipt \/ Revert
    \/ Effects
    \/ \E p \in persists : PersistRoot(p) \/ PersistMdu(p) \/ PersistEnds(p)

\* Whether the user waits does not change.
Next == PanelStep /\ UNCHANGED patient

Spec == Init /\ [][Next]_vars

\* Effects run, and a run of processFile goes on: the worker answers what it is
\* asked (WorkerPool) and the gateway's answer is waited for with a timer.  It
\* is strong fairness, for effects that become due come before an answer that
\* waits in the event loop, which does not pass it over for ever.
Fairness ==
    /\ WF_stepVars(Effects)
    /\ \A i \in 1..MaxRuns : SF_stepVars(i <= Len(runs) /\ RunStep(i))

FairSpec == Spec /\ Fairness

-----------------------------------------------------------------------------
(* Properties *)

\* Types of the panel's state; shards are kept of a stripe's new MDU only.
TypeOK ==
    /\ patient \in BOOLEAN
    /\ mode2 \in [Deals -> BOOLEAN]
    /\ deal \in Deals /\ bases \in Deals \cup {NoDeal} /\ stripe \in BOOLEAN
    /\ load \in {"stripe", "bases", "done"}
    /\ \A i \in 1..Len(runs) :
          runs[i].phase \in {"gateway", "wasm", "base", "build", "users", "roots", "append", "bytes",
                             "manifest", "over"}
    /\ Len(runs) <= MaxRuns /\ Len(uploads) <= MaxUploads
    /\ commit.st \in {"none", "wallet", "sent", "mined", "success", "error"}
    /\ commit.tx \in 0..MaxCommits
    /\ \A k \in 1..Len(view.progress) : view.progress[k] \in {"pending", "complete", "error"}
    /\ \A p \in persists : p.next \in 0..(Len(p.mdus.users) + 1)
    /\ view.root = NoSlab => view.mdus = NoSlab
    /\ view.mdus # NoSlab => view.mdus = view.root

\* The providers of deal d hold the metadata of slab s and its user MDUs from
\* one on; outside stripes, the build's own provider may stand in (spBase).
Stored(d, s, from) ==
    IF s.mode2
    THEN \A slot \in Slots, p \in {0} \cup from..Len(s.users) :
            Piece(Provider(d, slot), d, s, p) \in stored
    ELSE \A p \in {Manifest} \cup 0..Len(s.users) :
            \E at \in {d, NoDeal} : Piece(Provider(at, 1), d, s, p) \in stored

\* A root is committed only when the providers of the deal it is committed to
\* have accepted the slab: metadata, manifest and what is new in it; the slab is
\* striped when the deal is, as far as the deal's settings could be read.
CommitFollowsUpload ==
    commit.st # "none" =>
        /\ Stored(commit.deal, commit.slab, commit.slab.base + 1)
        /\ LoadsFail \/ commit.slab.mode2 = mode2[commit.deal]

\* The button that says "Committed!", and the report to the dashboard, are
\* about a root that is on chain in that deal.
CommittedMeansOnChain ==
    /\ isAlreadyCommitted /\ view.root # NoSlab => OnChain(deal, view.root)
    /\ reported.deal # NoDeal => OnChain(reported.deal, reported.slab)

\* The MDU #0 of a slab has the records and roots of its own run, and those it
\* was appended to, though all runs share the worker's builder.
OwnBuilder ==
    \A i \in 1..Len(runs) : LET r == runs[i] IN
        r.mdu0.table # <<>> => /\ r.mdu0.table = Append(r.table, r.file)
                               /\ r.mdu0.roots = RunUsers(r)

\* The panel does not stay busy with a file that can be read: every run ends,
\* in a slab or in an error, and frees it.
ProcessingEnds == view.processing ~> ~view.processing
-----------------------------------------------------------------------------
(* What a document, a comment or a test says and the code does not keep; the *)
(* README tells how. *)

\* A root on chain is materialized: its providers hold the shards of earlier
\* files under it too.
RootIsMaterialized ==
    \A d \in Deals : Current(d).mode2 => Stored(d, Current(d), 1)

\* Content committed to a Mode 2 deal was encoded in stripes.
StripesForMode2 == \A d \in Deals : Current(d) # NoSlab /\ mode2[d] => Current(d).mode2

\* The slab being saved is a committed one.
SavedIsCommitted == \A p \in persists : OnChain(p.deal, p.root)

\* OPFS holds the slab whose root it names, unless it is being written.
CacheIsWhole ==
    \A d \in Deals :
        opfs[d].root # NoSlab /\ (\A p \in persists : p.deal # d)
        => ReadableBase(opfs[d]) = opfs[d].root.users
=============================================================================
