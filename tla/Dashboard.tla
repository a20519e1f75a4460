----------------------------- MODULE Dashboard -----------------------------
(***************************************************************************)
(* The dashboard of the website: the list of deals it reads from the LCD and *)
(* corrects with what it just committed, the selected deal and its content,  *)
(* uploads and commits of the content tab, the creation of deals, and the    *)
(* list of recent files.                                                     *)
(*                                                                         *)
(* An operation is a handler that is under way: it goes from one await to    *)
(* the next, with the state it closed over when it was started.  The chain   *)
(* and the LCD, which may lag behind it, are the environment.  Deals are     *)
(* numbered in the order they are created.                                   *)
(***************************************************************************)
EXTENDS Integers, Sequences, FiniteSetsExt, SequencesExt

CONSTANTS
    Accounts, Files, NoAccount, NoFile,
    NumDeals,           \* deals there can be
    MaxOps,             \* operations the user starts
    MaxAttempts,        \* rounds of a refresh loop (20 after a commit, 10 after a creation)
    MaxRecent,          \* MAX_RECENT_FILES
    MaxReloads,         \* times the page is reloaded
    Expires             \* optimisticCidTtlMs may pass

\* What the constants are taken to be.
DashboardAssumption ==
    /\ NoAccount \notin Accounts /\ NoFile \notin Files
    /\ NumDeals \in Nat \ {0} /\ MaxAttempts \in Nat \ {0} /\ MaxRecent \in Nat \ {0}
    /\ MaxOps \in Nat /\ MaxReloads \in Nat /\ Expires \in BOOLEAN

VARIABLES
    owner,      \* chain: who owns each deal that exists
    chain,      \* chain: roots committed to each deal, the current one last
    lcd,        \* what the LCD answers: the deals it knows, with owner and root
    address,    \* the wallet's account
    nilAddress, \* the account shown
    deals, allDeals,    \* the two lists of deals, with their roots
    overrides,  \* optimisticCidOverridesRef
    target,     \* targetDealId
    staged,     \* stagedUpload
    loads,      \* invocations of load, for the content of the selected deal
    content,    \* contentFiles: the deal and root they are of
    recent,     \* recentFiles, also kept in localStorage
    ui,         \* flags of the hooks: uploadLoading, updateLoading, downloading
    ops,        \* the operations
    reloads

chainVars == <<owner, chain, lcd>>
listVars  == <<deals, allDeals, overrides>>
shownVars == <<nilAddress, target, staged, loads, content>>
vars == <<chainVars, address, listVars, shownVars, recent, ui, ops, reloads>>

DealIds == 1..NumDeals
NoDeal == 0
NoRoot == [deal |-> NoDeal, file |-> NoFile, op |-> 0]
NoContent == [deal |-> NoDeal, root |-> NoRoot]
NotStaged == [root |-> NoRoot, file |-> NoFile]
Idle == [upload |-> FALSE, update |-> FALSE, download |-> FALSE, recent |-> <<>>]
Nothing == [d \in {} |-> NoRoot]

Created == {d \in DealIds : owner[d] # NoAccount}
Current(d) == IF chain[d] = <<>> THEN NoRoot ELSE Last(chain[d])

\* What an operation closes over when it is started.
Op(kind, deal, file, root, recorded, phase) ==
    [kind |-> kind, acct |-> address, nil |-> nilAddress, deal |-> deal, file |-> file,
     root |-> root, recorded |-> recorded, phase |-> phase, tx |-> "none", left |-> MaxAttempts,
     snap |-> Nothing, owners |-> [d \in {} |-> NoAccount]]

Running(k) == ops[k].phase # "over"
At(k, kinds, p) == ops[k].kind \in kinds /\ ops[k].phase = p
Goes(k, p) == [ops EXCEPT ![k].phase = p]
MayStart == Len(ops) < MaxOps

-----------------------------------------------------------------------------
(* The lists, the selected deal, and the effects that follow them *)

Owned(ds, nil) == {d \in DOMAIN ds : nil # NoAccount => owner[d] = nil}

\* Without a selected deal, the newest one of the account is selected.
Selected(ds, t, nil) ==
    IF t = NoDeal /\ nil # NoAccount /\ Owned(ds, nil) # {} THEN Max(Owned(ds, nil)) ELSE t

Cancelled == {[l EXCEPT !.live = FALSE] : l \in loads}

\* Show(ds, t, nil, reload): lists, selection and account are set.  A change of
\* the selection drops the staged upload and the content, and the content is
\* loaded anew when anything it depends on changed.
Show(ds, t, nil, reload) ==
    LET t2 == Selected(ds, t, nil)
        root == IF t2 \in DOMAIN ds THEN ds[t2] ELSE NoRoot
        moved == t2 # target
        before == IF target \in DOMAIN deals THEN deals[target] ELSE NoRoot
    IN  /\ deals' = ds /\ target' = t2 /\ nilAddress' = nil
        /\ staged' = IF moved THEN NotStaged ELSE staged
        /\ IF root = NoRoot THEN content' = NoContent /\ loads' = Cancelled
           ELSE /\ content' = IF moved THEN NoContent ELSE content
                /\ loads' = IF moved \/ reload \/ nil # nilAddress \/ root # before
                            THEN Cancelled \cup {[deal |-> t2, root |-> root, live |-> TRUE]}
                            ELSE loads

\* Shows content whatever the answer is of.
ContentLoadedLate(l, ok) ==
    /\ loads' = loads \ {l}
    /\ content' = IF ok THEN [deal |-> l.deal, root |-> l.root] ELSE NoContent
    /\ UNCHANGED <<chainVars, address, listVars, nilAddress, target, staged, recent, ui, ops, reloads>>

\* listFiles and slab answer: a cancelled load changes nothing.
ContentLoaded(l, ok) ==
    /\ loads' = loads \ {l}
    /\ content' = IF ~l.live THEN content
                  ELSE IF ok THEN [deal |-> l.deal, root |-> l.root] ELSE NoContent
    /\ UNCHANGED <<chainVars, address, listVars, nilAddress, target, staged, recent, ui, ops, reloads>>

-----------------------------------------------------------------------------
(* The account and the selection *)

Connect(a) ==
    /\ MayStart /\ address # a
    /\ address' = a /\ overrides' = Nothing
    /\ Show(deals, target, a, TRUE)
    /\ ops' = Append(ops, [Op("fetch", NoDeal, NoFile, NoRoot, NoFile, "asked")
                           EXCEPT !.acct = a, !.nil = a, !.left = 1])
    /\ UNCHANGED <<chainVars, allDeals, recent, ui, reloads>>

\* The account shown stays that of the wallet that left.
Disconnect ==
    /\ address # NoAccount
    /\ address' = NoAccount /\ overrides' = Nothing /\ allDeals' = Nothing
    /\ Show(Nothing, target, nilAddress, TRUE)
    /\ UNCHANGED <<chainVars, recent, ui, ops, reloads>>

\* A row of the list
SelectDeal(d) ==
    /\ address # NoAccount
    /\ d \in Owned(deals, nilAddress) /\ d # target
    /\ Show(deals, d, nilAddress, TRUE)
    /\ UNCHANGED <<chainVars, address, allDeals, overrides, recent, ui, ops, reloads>>

handleRefreshSummary ==
    /\ MayStart /\ address # NoAccount /\ nilAddress # NoAccount
    /\ ops' = Append(ops, [Op("fetch", NoDeal, NoFile, NoRoot, NoFile, "asked") EXCEPT !.left = 1])
    /\ UNCHANGED <<chainVars, address, listVars, shownVars, recent, ui, reloads>>

-----------------------------------------------------------------------------
(* Recent files *)

Id(e) == <<e.deal, e.file>>
Entry(d, f, r, action, st) == [deal |-> d, file |-> f, root |-> r, action |-> action, status |-> st]

\* The recent files but the one with this id, in their order.
Without(id) ==
    LET kept[n \in 0..Len(recent)] ==
            IF n = 0 THEN <<>>
            ELSE IF Id(recent[n]) = id THEN kept[n - 1]
            ELSE Append(kept[n - 1], recent[n])
    IN  kept[Len(recent)]

upsertRecentFile(e) ==
    LET s == <<e>> \o Without(Id(e))
    IN  SubSeq(s, 1, Min({Len(s), MaxRecent}))

updateRecentFile(id, action, st) ==
    [i \in 1..Len(recent) |->
        IF Id(recent[i]) = id THEN [recent[i] EXCEPT !.action = action, !.status = st] ELSE recent[i]]

\* Of the upload that was staged when the handler was created.
recordUpload(o, st) ==
    IF o.recorded = NoFile THEN recent
    ELSE upsertRecentFile(Entry(o.deal, o.recorded, o.root, "upload", st))

-----------------------------------------------------------------------------
(* fetchDeals, alone or in a loop that waits for the chain's answer *)

\* The LCD answers with what it knows now.
Serve(k) ==
    /\ ops[k].phase = "asked"
    /\ ops' = [ops EXCEPT ![k].phase = "served", ![k].snap = lcd.cid, ![k].owners = lcd.owner]
    /\ UNCHANGED <<chainVars, address, listVars, shownVars, recent, ui, reloads>>

Fresh == {d \in DOMAIN overrides : ~overrides[d].expired}

\* Takes the LCD's list as it is.
MergeNothing(snap) == snap

Merge(snap) ==
    [d \in DOMAIN snap |-> IF d \in Fresh THEN overrides[d].cid ELSE snap[d]]

\* Overrides that are neither expired nor confirmed by this answer.
Kept(snap) == {d \in Fresh : d \in DOMAIN snap => snap[d] # overrides[d].cid}

\* The loop has what it waited for: a new deal, or the root just committed.
Found(o, list) ==
    IF o.kind = "create" THEN o.deal \in DOMAIN list
    ELSE o.deal \in DOMAIN list /\ list[o.deal] = o.root

Finishes(o, list) == o.kind = "fetch" \/ Found(o, list) \/ o.left = 1

\* A deal just created is selected if the list has it.
AfterIfListed(o, list, finished) ==
    /\ Show(list, IF finished /\ o.kind = "create" /\ o.deal \in DOMAIN list THEN o.deal ELSE target,
            nilAddress, TRUE)
    /\ recent' = IF finished /\ o.kind \in {"upload", "commit"} THEN recordUpload(o, "success")
                 ELSE recent

\* What follows a loop: a deal just created is selected, an upload recorded.
After(o, list, finished) ==
    /\ Show(list, IF finished /\ o.kind = "create" THEN o.deal ELSE target, nilAddress, TRUE)
    /\ recent' = IF finished /\ o.kind \in {"upload", "commit"} THEN recordUpload(o, "success")
                 ELSE recent

Proceed(k, finished) ==
    ops' = [ops EXCEPT ![k].phase = IF finished THEN "over" ELSE "waiting", ![k].left = @ - 1,
                       ![k].snap = Nothing, ![k].owners = [d \in {} |-> NoAccount]]

DealsAnswer(k) ==
    LET o == ops[k]
        merged == Merge(o.snap)
        own == {d \in DOMAIN merged : o.owners[d] = o.nil}
        list == IF own = {} THEN merged ELSE [d \in own |-> merged[d]]
        finished == Finishes(o, list)
    IN  /\ o.phase = "served"
        /\ allDeals' = merged
        /\ overrides' = [d \in Kept(o.snap) |-> overrides[d]]
        /\ After(o, list, finished)
        /\ Proceed(k, finished)
        /\ UNCHANGED <<chainVars, address, ui, reloads>>

\* The list cannot be read: one list is emptied, the other stays.
DealsFail(k) ==
    LET o == ops[k]
        finished == Finishes(o, Nothing)
    IN  /\ o.phase \in {"asked", "served"}
        /\ allDeals' = Nothing
        /\ After(o, deals, finished)
        /\ Proceed(k, finished)
        /\ UNCHANGED <<chainVars, address, overrides, ui, reloads>>

AskAgain(k) ==
    /\ ops[k].phase = "waiting"
    /\ ops' = Goes(k, "asked")
    /\ UNCHANGED <<chainVars, address, listVars, shownVars, recent, ui, reloads>>

-----------------------------------------------------------------------------
(* Uploads and commits of the content tab, commits of the upload panel *)

\* handleFileChange
StartUpload(f) ==
    /\ MayStart /\ address # NoAccount /\ target # NoDeal /\ ~ui.upload
    /\ ops' = Append(ops, Op("upload", target, f, NoRoot, staged.file, "upload"))
    /\ ui' = [ui EXCEPT !.upload = TRUE]
    /\ UNCHANGED <<chainVars, address, listVars, shownVars, recent, reloads>>

\* The file was ingested: it is staged, and committed into the deal of the
\* upload by the handler as it was then.
Uploaded(k) ==
    LET o == ops[k]
        root == [deal |-> o.deal, file |-> o.file, op |-> k]
    IN  /\ At(k, {"upload"}, "upload")
        /\ staged' = [root |-> root, file |-> o.file]
        /\ ops' = [ops EXCEPT ![k].phase = "wallet", ![k].root = root]
        /\ ui' = [ui EXCEPT !.upload = FALSE, !.update = TRUE]
        /\ UNCHANGED <<chainVars, address, listVars, nilAddress, target, loads, content, recent, reloads>>

UploadFails(k) ==
    /\ At(k, {"upload"}, "upload")
    /\ ops' = Goes(k, "over")
    /\ ui' = [ui EXCEPT !.upload = FALSE]
    /\ UNCHANGED <<chainVars, address, listVars, shownVars, recent, reloads>>

\* "Commit uploaded content"
StartCommit ==
    /\ MayStart /\ address # NoAccount /\ target # NoDeal
    /\ ~ui.update /\ staged # NotStaged
    /\ ops' = Append(ops, Op("commit", target, staged.file, staged.root, staged.file, "wallet"))
    /\ ui' = [ui EXCEPT !.update = TRUE]
    /\ UNCHANGED <<chainVars, address, listVars, shownVars, recent, reloads>>

\* FileSharder sends a commit of its own, and calls back when it is confirmed.
StartMduCommit(f) ==
    /\ MayStart /\ address # NoAccount /\ target # NoDeal
    /\ \A k \in 1..Len(ops) : ~At(k, {"mdu"}, "receipt")
    /\ ops' = Append(ops, [Op("mdu", target, f,
                              [deal |-> target, file |-> f, op |-> Len(ops) + 1], f, "receipt")
                           EXCEPT !.tx = "sent"])
    /\ UNCHANGED <<chainVars, address, listVars, shownVars, recent, ui, reloads>>

\* handleCreateDealClick, handleCreateDeal
StartCreate ==
    /\ MayStart /\ address # NoAccount
    /\ ops' = Append(ops, Op("create", NoDeal, NoFile, NoRoot, NoFile, "wallet"))
    /\ UNCHANGED <<chainVars, address, listVars, shownVars, recent, ui, reloads>>

\* eth_sendTransaction
Sign(k) ==
    /\ ops[k].phase = "wallet"
    /\ ops' = [ops EXCEPT ![k].phase = "receipt", ![k].tx = "sent"]
    /\ UNCHANGED <<chainVars, address, listVars, shownVars, recent, ui, reloads>>

\* The chain executes a transaction, whether it is still waited for or not.
Mine(k) ==
    LET o == ops[k]
        fresh == {d \in DealIds : owner[d] = NoAccount}
    IN  /\ o.tx = "sent"
        /\ IF o.kind = "create"
           THEN /\ fresh # {}
                /\ owner' = [owner EXCEPT ![Min(fresh)] = o.acct]
                /\ ops' = [ops EXCEPT ![k].tx = "mined", ![k].deal = Min(fresh)]
                /\ UNCHANGED chain
           ELSE /\ owner[o.deal] = o.acct
                /\ chain' = [chain EXCEPT ![o.deal] = Append(@, o.root)]
                /\ ops' = [ops EXCEPT ![k].tx = "mined"]
                /\ UNCHANGED owner
        /\ UNCHANGED <<lcd, address, listVars, shownVars, recent, ui, reloads>>

\* Refused in the wallet, reverted, or waitForTransactionReceipt gave up: it does
\* so on any error of the RPC, at its time limit, or for want of the event, and
\* the transaction may have been mined by then.
TxFails(k) ==
    LET o == ops[k] IN
    /\ o.phase \in {"wallet", "receipt"}
    /\ ops' = Goes(k, "over")
    /\ ui' = IF o.kind \in {"upload", "commit"} THEN [ui EXCEPT !.update = FALSE] ELSE ui
    /\ recent' = IF o.kind \in {"upload", "commit"} THEN recordUpload(o, "failed") ELSE recent
    /\ UNCHANGED <<chainVars, address, listVars, shownVars, reloads>>

With(ds, d, r) == [x \in DOMAIN ds |-> IF x = d THEN r ELSE ds[x]]

\* handleUpdateContent and handleMduCommitSuccess: the new root is shown at
\* once, and the list read until it has it.
Committed(k) ==
    LET o == ops[k] IN
    /\ At(k, {"upload", "commit", "mdu"}, "receipt") /\ o.tx = "mined"
    /\ overrides' = [d \in DOMAIN overrides \cup {o.deal} |->
                        IF d = o.deal THEN [cid |-> o.root, expired |-> FALSE] ELSE overrides[d]]
    /\ allDeals' = With(allDeals, o.deal, o.root)
    /\ Show(With(deals, o.deal, o.root), target, nilAddress, FALSE)
    /\ ops' = Goes(k, "asked")
    /\ ui' = IF o.kind = "mdu" THEN ui ELSE [ui EXCEPT !.update = FALSE]
    /\ recent' = IF o.kind = "mdu" THEN recordUpload(o, "success") ELSE recent
    /\ UNCHANGED <<chainVars, address, reloads>>

\* DealCreated is in the receipt: the list is read until it has the deal.
DealCreated(k) ==
    /\ At(k, {"create"}, "receipt") /\ ops[k].tx = "mined"
    /\ ops' = Goes(k, "asked")
    /\ UNCHANGED <<chainVars, address, listVars, shownVars, recent, ui, reloads>>

-----------------------------------------------------------------------------
(* Downloads *)

\* handleRecentDownload
DownloadRecent(i) ==
    LET e == recent[i] IN
    /\ MayStart /\ address # NoAccount
    /\ ~ui.download /\ ui.recent # Id(e)
    /\ ops' = Append(ops, Op("download", e.deal, e.file, NoRoot, NoFile, "listing"))
    /\ recent' = updateRecentFile(Id(e), "download", "pending")
    /\ ui' = [ui EXCEPT !.recent = Id(e)]
    /\ UNCHANGED <<chainVars, address, listVars, shownVars, reloads>>

\* The file is in the deal's table; its bytes are fetched (Fetch).
Listed(k) ==
    /\ At(k, {"download"}, "listing")
    /\ ops[k].deal \in DOMAIN allDeals \cup DOMAIN deals
    /\ ops' = Goes(k, "fetching")
    /\ ui' = [ui EXCEPT !.download = TRUE]
    /\ UNCHANGED <<chainVars, address, listVars, shownVars, recent, reloads>>

\* handleContentDownload
DownloadContent ==
    /\ MayStart /\ address # NoAccount /\ ~ui.download
    /\ content # NoContent /\ (\A l \in loads : ~l.live)
    /\ ops' = Append(ops, Op("download", target, content.root.file, content.root, NoFile, "fetching"))
    /\ recent' = upsertRecentFile(Entry(target, content.root.file, deals[target], "download", "pending"))
    /\ ui' = [ui EXCEPT !.download = TRUE]
    /\ UNCHANGED <<chainVars, address, listVars, shownVars, reloads>>

\* Leaves the entry as it is when the download fails.
DownloadedQuietly(k, ok) ==
    LET o == ops[k] IN
    /\ At(k, {"download"}, "fetching") \/ (At(k, {"download"}, "listing") /\ ~ok)
    /\ ops' = Goes(k, "over")
    /\ recent' = IF ok THEN updateRecentFile(Id(o), "download", "success") ELSE recent
    /\ ui' = [ui EXCEPT !.download = IF o.phase = "fetching" THEN FALSE ELSE @,
                        !.recent = IF o.root = NoRoot THEN <<>> ELSE @]
    /\ UNCHANGED <<chainVars, address, listVars, shownVars, reloads>>

\* The bytes are saved, or something failed.
Downloaded(k, ok) ==
    LET o == ops[k] IN
    /\ At(k, {"download"}, "fetching") \/ (At(k, {"download"}, "listing") /\ ~ok)
    /\ ops' = Goes(k, "over")
    /\ recent' = updateRecentFile(Id(o), "download", IF ok THEN "success" ELSE "failed")
    /\ ui' = [ui EXCEPT !.download = IF o.phase = "fetching" THEN FALSE ELSE @,
                        !.recent = IF o.root = NoRoot THEN <<>> ELSE @]
    /\ UNCHANGED <<chainVars, address, listVars, shownVars, reloads>>

-----------------------------------------------------------------------------
(* The environment *)

LcdCatchesUp ==
    /\ lcd' = [owner |-> owner, cid |-> [d \in Created |-> Current(d)]]
    /\ UNCHANGED <<owner, chain, address, listVars, shownVars, recent, ui, ops, reloads>>

\* Two minutes pass.
Expire(d) ==
    /\ Expires
    /\ overrides' = [overrides EXCEPT ![d].expired = TRUE]
    /\ UNCHANGED <<chainVars, address, deals, allDeals, shownVars, recent, ui, ops, reloads>>

\* The page is reloaded: what was under way is gone, localStorage stays, and
\* the wallet is connected again.
Reload ==
    /\ reloads < MaxReloads /\ MayStart
    /\ reloads' = reloads + 1
    /\ nilAddress' = address /\ target' = NoDeal /\ staged' = NotStaged
    /\ loads' = {} /\ content' = NoContent /\ ui' = Idle
    /\ deals' = Nothing /\ allDeals' = Nothing /\ overrides' = Nothing
    /\ ops' = Append([k \in 1..Len(ops) |-> [ops[k] EXCEPT !.phase = "over"]],
                     [Op("fetch", NoDeal, NoFile, NoRoot, NoFile, "asked")
                      EXCEPT !.nil = address, !.left = 1])
    /\ UNCHANGED <<chainVars, address, recent>>

-----------------------------------------------------------------------------

\* Deal 1 exists, and belongs to one of the accounts.
Init ==
    /\ \E a \in Accounts : owner = [d \in DealIds |-> IF d = 1 THEN a ELSE NoAccount]
    /\ chain = [d \in DealIds |-> <<>>]
    /\ lcd = [owner |-> owner, cid |-> [d \in Created |-> NoRoot]]
    /\ address = NoAccount /\ nilAddress = NoAccount
    /\ deals = Nothing /\ allDeals = Nothing /\ overrides = Nothing
    /\ target = NoDeal /\ staged = NotStaged
    /\ loads = {} /\ content = NoContent
    /\ recent = <<>> /\ ui = Idle /\ ops = <<>> /\ reloads = 0

OpStep(k) ==
    \/ Serve(k) \/ DealsAnswer(k) \/ DealsFail(k) \/ AskAgain(k)
    \/ Uploaded(k) \/ UploadFails(k) \/ Sign(k) \/ TxFails(k) \/ Committed(k) \/ DealCreated(k)
    \/ Listed(k) \/ Downloaded(k, TRUE) \/ Downloaded(k, FALSE)

User ==
    \/ \E a \in Accounts : Connect(a)
    \/ Disconnect
    \/ \E d \in DealIds : SelectDeal(d)
    \/ handleRefreshSummary
    \/ \E f \in Files : StartUpload(f) \/ StartMduCommit(f)
    \/ StartCommit \/ StartCreate
    \/ \E i \in 1..Len(recent) : DownloadRecent(i)
    \/ DownloadContent
    \/ Reload

Next ==
    \/ User
    \/ \E k \in 1..Len(ops) : OpStep(k) \/ Mine(k)
    \/ \E l \in loads, ok \in BOOLEAN : ContentLoaded(l, ok)
    \/ LcdCatchesUp
    \/ \E d \in DOMAIN overrides : Expire(d)

Spec == Init /\ [][Next]_vars

\* Requests are answered or fail, and timers of the loops go off.
Progress(k) ==
    /\ k <= Len(ops)
    /\ \/ Serve(k) \/ DealsAnswer(k) \/ DealsFail(k) \/ AskAgain(k)
       \/ Committed(k) \/ DealCreated(k)
       \/ Listed(k) \/ Downloaded(k, TRUE) \/ Downloaded(k, FALSE)

Fairness == \A k \in 1..MaxOps : WF_vars(Progress(k))

FairSpec == Spec /\ Fairness

-----------------------------------------------------------------------------
(* Properties *)

\* Types, and that the list of recent files is bounded and has one entry a file.
TypeOK ==
    /\ owner \in [DealIds -> Accounts \cup {NoAccount}]
    /\ address \in Accounts \cup {NoAccount} /\ nilAddress \in Accounts \cup {NoAccount}
    /\ DOMAIN deals \subseteq Created /\ DOMAIN allDeals \subseteq Created
    /\ target \in Created \cup {NoDeal}
    /\ Len(recent) <= MaxRecent
    /\ \A i, j \in 1..Len(recent) : Id(recent[i]) = Id(recent[j]) => i = j
    /\ \A k \in 1..Len(ops) : ops[k].left \in 0..MaxAttempts
    /\ \A l, m \in loads : l.live /\ m.live => l = m

\* Files shown when nothing is loading are those of the selected deal under the
\* root the list gives it, however late answers come.
ContentIsOfTarget ==
    content # NoContent /\ (\A l \in loads : ~l.live)
    => content.deal = target /\ target \in DOMAIN deals /\ content.root = deals[target]

\* A root just committed stays on display while the LCD catches up, whatever
\* list of deals is answered in between.
OptimisticRootShown ==
    \A d \in Fresh \cap DOMAIN deals : deals[d] = overrides[d].cid

\* A file that is shown as downloading is being downloaded.
PendingIsUnderWay ==
    \A i \in 1..Len(recent) :
        recent[i].status = "pending"
        => \E k \in 1..Len(ops) : ops[k].kind = "download" /\ Running(k) /\ Id(ops[k]) = Id(recent[i])

\* A deal whose creation the page has read in its receipt is selected in the
\* end, though the LCD may lag behind for the whole loop or fail in each round.
NewDealIsSelected ==
    \A k \in 1..MaxOps :
        (k <= Len(ops) /\ At(k, {"create"}, "asked")) ~> (k <= Len(ops) /\ target = ops[k].deal)

Position(d, r) == IF r = NoRoot THEN 0
                  ELSE CHOOSE i \in 1..Len(chain[d]) : chain[d][i] = r
-----------------------------------------------------------------------------
(* What a document, a comment or a test says and the code does not keep; the *)
(* README tells how. *)

\* A list of deals that is answered does not replace the root shown of a deal
\* by an earlier one of the deal.
NoRollback ==
    [][nilAddress' = nilAddress /\ (\A d \in DOMAIN overrides' : d \in Fresh /\ overrides'[d] = overrides[d])
       => \A d \in DOMAIN deals \cap DOMAIN deals' :
              Position(d, deals'[d]) >= Position(d, deals[d])]_vars

\* `Auto-switch to content tab and pre-fill deal ID': so does the page for every
\* deal it had created.
CreatedIsSelected ==
    \A k \in 1..MaxOps :
        (k <= Len(ops) /\ At(k, {"create"}, "receipt") /\ ops[k].tx = "mined")
            ~> (k <= Len(ops) /\ target = ops[k].deal)

\* Content committed into a deal was uploaded into that deal.
CommittedWhereUploaded == \A d \in DealIds : \A i \in 1..Len(chain[d]) : chain[d][i].deal = d

\* A file that was uploaded and committed is among the recent files.
UploadsAreRecorded ==
    \A k \in 1..Len(ops) :
        At(k, {"upload"}, "over") /\ ops[k].tx = "mined" /\ Len(ops) <= MaxRecent
        => \E i \in 1..Len(recent) : Id(recent[i]) = Id(ops[k])

\* Once it was read, the list of deals is the user's.
DealsAreOwn ==
    (\A k \in 1..Len(ops) : ~Running(k)) => \A d \in DOMAIN deals : owner[d] = nilAddress
=============================================================================
