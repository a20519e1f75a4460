------------------------------- MODULE Fetch -------------------------------
(***************************************************************************)
(* A download in the browser (useFetch): the range is cut into chunks of at  *)
(* most one blob, each chunk is planned, the chunks are grouped by the       *)
(* provider of their slot, one retrieval session per provider is opened on   *)
(* chain, the bytes are fetched, the sessions confirmed, the proofs asked    *)
(* for through the local gateway, and the parts joined into a file.          *)
(*                                                                         *)
(* Chunk i is blob i of the slab's user data, counted from 0 at the first    *)
(* user MDU.  K data slots hold Rows rows each, so an MDU has K * Rows data  *)
(* blobs; K = 1 stands for a deal that is not striped.  Each transport call  *)
(* is one step that succeeds or fails (see Transport), each wallet prompt is *)
(* answered or refused, and a transaction may be executed after the page has *)
(* stopped waiting for it, or never.  The chain is what NilChain says of     *)
(* sessions: opened, confirmed by the owner, proved by the provider, done.   *)
(***************************************************************************)
EXTENDS Integers, Sequences

CONSTANTS
    K, M, Rows,     \* the stripe: data slots, parity slots, rows per slot
    Blobs,          \* blobs of user data in the slab
    Striped,        \* the deal is a Mode 2 deal
    GatewayPresent, \* a local gateway answers
    ReqSigRequired  \* the services ask for signed retrieval requests

\* What the constants are taken to be.
StripeAssumption ==
    /\ K \in Nat \ {0} /\ M \in Nat /\ Rows \in Nat \ {0} /\ Blobs \in Nat
    /\ Striped \in BOOLEAN /\ GatewayPresent \in BOOLEAN /\ ReqSigRequired \in BOOLEAN
    /\ ~Striped => K = 1 /\ M = 0

VARIABLES
    phase,      \* progress.phase, with the steps between two awaits told apart
    reason,     \* why the download failed
    range,      \* the chunks wanted: first and last blob
    planned,    \* plannedChunks
    parts,      \* parts: the chunks whose bytes have been fetched, in order
    asked,      \* providers whose proof has been asked for
    auth,       \* metaAuth is set
    file,       \* the chunks in the order the saved file has them
    opens,      \* openRequests of the transaction that opens the sessions
    chain,      \* the sessions on chain, by provider
    txs         \* the two transactions the page sends

vars == <<phase, reason, range, planned, parts, asked, auth, file, opens, chain, txs>>
pageVars == <<phase, reason, range, planned, parts, asked, auth, file, opens>>

Providers == 0..(K - 1)
BlobIds   == 0..(Blobs - 1)
NoSession == [st |-> "none", proved |-> FALSE, first |-> 0, count |-> 0, expires |-> 0]
Over      == {"idle", "done", "error", "closed"}

-----------------------------------------------------------------------------
(* The plan of one chunk, as GatewayPlanRetrievalSession answers it *)

Mdu(i)        == 1 + i \div (K * Rows)
BlobInMdu(i)  == i % (K * Rows)

PlanProvider(i) == BlobInMdu(i) % K
PlanLeaf(i)     == PlanProvider(i) * Rows + BlobInMdu(i) \div K

leafCount == K * Rows       \* mduSizeBytes / blobSizeBytes

Plan(i) == [chunk |-> i, provider |-> PlanProvider(i),
            global |-> Mdu(i) * leafCount + PlanLeaf(i)]

-----------------------------------------------------------------------------
(* Grouping by provider *)

Elements(s) == {s[j] : j \in 1..Len(s)}
Least(S)    == CHOOSE x \in S : \A y \in S : x <= y
Greatest(S) == CHOOSE x \in S : \A y \in S : y <= x

\* The places of the plan that go into the group of provider p.
Group(plan, p) == {j \in 1..Len(plan) : plan[j].provider = p}

Globals(plan, p) == {plan[j].global : j \in Group(plan, p)}

\* Takes the first chunk of a provider for all of them.
OpenRequestOfFirst(plan, p) ==
    [provider |-> p, first |-> Least(Globals(plan, p)), count |-> 1, expires |-> 0]

OpenRequest(plan, p) ==
    LET S == Globals(plan, p)
    IN  [provider |-> p, first |-> Least(S), count |-> Greatest(S) - Least(S) + 1,
         expires |-> 0]

OpenRequests(plan) == {OpenRequest(plan, p) : p \in {plan[j].provider : j \in 1..Len(plan)}}

\* A Map keeps its groups in the order of their first insertion, so of the
\* groups with a member in S the loops come first to the one whose first
\* chunk was planned first.
NextGroup(plan, S) ==
    plan[Least({Least(Group(plan, plan[j].provider)) : j \in S})].provider

\* Within a group the chunks keep the order of the plan.
NextPlace(plan, S) == Least({j \in S : plan[j].provider = NextGroup(plan, S)})

\* Places still to be fetched, places whose provider is still to be asked.
Unfetched == {j \in 1..Len(planned) : planned[j].chunk \notin Elements(parts)}
Unasked   == {j \in 1..Len(planned) : planned[j].provider \notin asked}

-----------------------------------------------------------------------------
(* The chain, seen through the precompile *)

\* OpenRetrievalSession accepts a Mode 2 range only within the rows of one
\* slot of one MDU; leaf indices there count the parity slots too.
Openable(r) ==
    Striped =>
        LET start == r.first % leafCount
            last  == start + r.count - 1
        IN  /\ last < (K + M) * Rows
            /\ start \div Rows = last \div Rows
            /\ start \div Rows = r.provider

Opened(r) == [st |-> "open", proved |-> FALSE, first |-> r.first, count |-> r.count,
              expires |-> r.expires]

\* The transaction opens every session or, reverted, none of them; it is
\* reverted, too, when the deal's escrow does not cover the fees.
ExecuteOpen(funded) ==
    LET ok == funded /\ \A r \in opens : Openable(r)
    IN  /\ txs["open"] = "pending"
        /\ txs' = [txs EXCEPT !["open"] = IF ok THEN "mined" ELSE "reverted"]
        /\ chain' = [p \in Providers |->
                       IF ok /\ \E r \in opens : r.provider = p
                       THEN Opened(CHOOSE r \in opens : r.provider = p)
                       ELSE chain[p]]
        /\ UNCHANGED pageVars

Completed(s) == IF s.st = "confirmed" /\ s.proved THEN [s EXCEPT !.st = "completed"] ELSE s

ExecuteConfirm ==
    /\ txs["confirm"] = "pending"
    /\ txs' = [txs EXCEPT !["confirm"] = "mined"]
    /\ chain' = [p \in Providers |->
                   IF chain[p].st = "open" THEN Completed([chain[p] EXCEPT !.st = "confirmed"])
                   ELSE chain[p]]
    /\ UNCHANGED pageVars

\* A provider that was asked for its proof submits it.
SubmitProof(p) ==
    /\ p \in asked /\ chain[p].st \in {"open", "confirmed"} /\ ~chain[p].proved
    /\ chain' = [chain EXCEPT ![p] = Completed([@ EXCEPT !.proved = TRUE])]
    /\ UNCHANGED <<pageVars, txs>>

\* A transaction that never makes it into a block.
DropTx(t) ==
    /\ txs[t] = "pending"
    /\ txs' = [txs EXCEPT ![t] = "dropped"]
    /\ UNCHANGED <<pageVars, chain>>

-----------------------------------------------------------------------------
(* fetchFile *)

chainVars == <<chain, txs>>
inputVars == <<range, planned, opens>>

FailWith(why) == phase' = "error" /\ reason' = why

\* fetchFile is called; the wallet, the deal and the range are valid.
Begin(a, b) ==
    /\ phase = "idle"
    /\ a <= b
    /\ phase' = "planning"
    /\ range' = [from |-> a, to |-> b]
    /\ UNCHANGED <<reason, planned, parts, asked, auth, file, opens, chainVars>>

\* fetchFile is called without wallet, owner, path or a usable range.
BeginInvalid ==
    /\ phase = "idle"
    /\ FailWith("input")
    /\ UNCHANGED <<inputVars, parts, asked, auth, file, chainVars>>

PlanChunk ==
    LET i == range.from + Len(planned)
        plan == Append(planned, Plan(i))
    IN  /\ phase = "planning"
        /\ planned' = plan
        /\ IF i < range.to
           THEN UNCHANGED <<phase, opens>>
           ELSE phase' = "opening" /\ opens' = OpenRequests(plan)
        /\ UNCHANGED <<reason, range, parts, asked, auth, file, chainVars>>

\* No backend plans the chunk, or the session ids cannot be computed.
PlanFails ==
    /\ phase \in {"planning", "opening"}
    /\ FailWith("plan")
    /\ UNCHANGED <<inputVars, parts, asked, auth, file, chainVars>>

SendTx(from, t, next) ==
    /\ phase = from
    /\ phase' = next
    /\ txs' = [txs EXCEPT ![t] = "pending"]
    /\ UNCHANGED <<reason, inputVars, parts, asked, auth, file, chain>>

\* Confirms as soon as the sessions are open.
SendConfirmEarly == SendTx("fetching", "confirm", "confirm_sent")

SendOpen    == SendTx("opening", "open", "open_sent")
SendConfirm == SendTx("confirming", "confirm", "confirm_sent")

RefuseTx ==
    /\ phase \in {"opening", "confirming"}
    /\ FailWith("wallet")
    /\ UNCHANGED <<inputVars, parts, asked, auth, file, chainVars>>

\* The receipt of the opening transaction arrives.
OpenReceipt ==
    /\ phase = "open_sent" /\ txs["open"] = "mined"
    /\ phase' = "fetching"
    /\ UNCHANGED <<reason, inputVars, parts, asked, auth, file, chainVars>>

OpenReverted ==
    /\ phase = "open_sent" /\ txs["open"] = "reverted"
    /\ FailWith("reverted")
    /\ UNCHANGED <<inputVars, parts, asked, auth, file, chainVars>>

\* waitForTransactionReceipt gives up, or the RPC node fails.
ReceiptTimeout ==
    /\ phase \in {"open_sent", "confirm_sent"}
    /\ FailWith("receipt")
    /\ UNCHANGED <<inputVars, parts, asked, auth, file, chainVars>>

\* Leaves out the last chunk of the last provider.
FetchChunkButLast ==
    LET next == NextPlace(planned, Unfetched)
    IN  /\ phase = "fetching"
        /\ parts' = Append(parts, planned[next].chunk)
        /\ phase' = IF Len(parts) + 2 >= Len(planned) THEN "confirming" ELSE phase
        /\ UNCHANGED <<reason, inputVars, asked, auth, file, chainVars>>

FetchChunk ==
    LET next == NextPlace(planned, Unfetched)
    IN  /\ phase = "fetching"
        /\ ReqSigRequired => auth
        /\ parts' = Append(parts, planned[next].chunk)
        /\ phase' = IF Unfetched = {next} THEN "confirming" ELSE phase
        /\ UNCHANGED <<reason, inputVars, asked, auth, file, chainVars>>

\* What the services say, and what executeWithFallback throws in its place:
\* the service's text stays in the trace.
Texts == {"req_sig is required", "other"}
Thrown(text) == "All fetch attempts failed"

shouldSignMetaAuth(msg) == msg = "req_sig is required"

FetchFails(text) ==
    /\ phase = "fetching"
    /\ text = "req_sig is required" => ReqSigRequired /\ ~auth
    /\ IF ~auth /\ shouldSignMetaAuth(Thrown(text))
       THEN auth' = TRUE /\ UNCHANGED <<phase, reason>>
       ELSE FailWith(text) /\ UNCHANGED auth
    /\ UNCHANGED <<inputVars, parts, asked, file, chainVars>>

ConfirmReceipt ==
    /\ phase = "confirm_sent" /\ txs["confirm"] = "mined"
    /\ phase' = "proving"
    /\ UNCHANGED <<reason, inputVars, parts, asked, auth, file, chainVars>>

\* Asks one provider for all.
RequestFirstProof ==
    /\ phase = "proving" /\ GatewayPresent
    /\ asked' = {NextGroup(planned, Unasked)}
    /\ phase' = "done" /\ file' = parts
    /\ UNCHANGED <<reason, inputVars, parts, auth, chainVars>>

\* POST /gateway/session-proof for the next group, always to the gateway.
RequestProof ==
    LET p == NextGroup(planned, Unasked)
    IN  /\ phase = "proving" /\ GatewayPresent
        /\ asked' = asked \cup {p}
        /\ IF Unasked \subseteq Group(planned, p)
           THEN phase' = "done" /\ file' = parts
           ELSE UNCHANGED <<phase, file>>
        /\ UNCHANGED <<reason, inputVars, parts, auth, chainVars>>

RequestProofFails ==
    /\ phase = "proving"
    /\ FailWith("proof")
    /\ UNCHANGED <<inputVars, parts, asked, auth, file, chainVars>>

\* The tab is closed in the middle of a download.
CloseTab ==
    /\ phase \notin Over
    /\ phase' = "closed"
    /\ UNCHANGED <<reason, inputVars, parts, asked, auth, file, chainVars>>

Init ==
    /\ phase = "idle" /\ reason = "none"
    /\ range = [from |-> 0, to |-> 0]
    /\ planned = <<>> /\ parts = <<>> /\ file = <<>>
    /\ asked = {} /\ auth = FALSE /\ opens = {}
    /\ chain = [p \in Providers |-> NoSession]
    /\ txs = [t \in {"open", "confirm"} |-> "none"]

Page ==
    \/ \E a, b \in BlobIds : Begin(a, b)
    \/ BeginInvalid \/ PlanChunk \/ PlanFails \/ SendOpen \/ SendConfirm \/ RefuseTx
    \/ OpenReceipt \/ OpenReverted \/ ReceiptTimeout \/ FetchChunk
    \/ \E text \in Texts : FetchFails(text)
    \/ ConfirmReceipt \/ RequestProof \/ RequestProofFails \/ CloseTab

Chain ==
    \/ \E funded \in BOOLEAN : ExecuteOpen(funded)
    \/ ExecuteConfirm
    \/ \E p \in Providers : SubmitProof(p)
    \/ \E t \in {"open", "confirm"} : DropTx(t)

Next == Page \/ Chain

Spec == Init /\ [][Next]_vars

\* A provider submits the proof that earns its fee.
Fairness == \A p \in Providers : WF_vars(SubmitProof(p))

FairSpec == Spec /\ Fairness

-----------------------------------------------------------------------------
(* Properties *)

\* Types of the download's state.
TypeOK ==
    /\ phase \in Over \cup {"planning", "opening", "open_sent", "fetching", "confirming",
                            "confirm_sent", "proving"}
    /\ reason \in {"none", "input", "plan", "wallet", "reverted", "receipt", "proof"} \cup Texts
    /\ range \in [from : BlobIds, to : BlobIds] \/ range = [from |-> 0, to |-> 0]
    /\ planned \in Seq([chunk : BlobIds, provider : Providers, global : Nat])
    /\ parts \in Seq(BlobIds) /\ file \in Seq(BlobIds)
    /\ asked \subseteq Providers /\ auth \in BOOLEAN
    /\ \A r \in opens : r \in [provider : Providers, first : Nat, count : Nat, expires : {0}]
    /\ chain \in [Providers -> [st : {"none", "open", "confirmed", "completed"},
                                proved : BOOLEAN, first : Nat, count : Nat, expires : Nat]]
    /\ txs \in [{"open", "confirm"} -> {"none", "pending", "mined", "reverted", "dropped"}]

\* Bytes are fetched only under a session on chain, of the provider that
\* holds them, whose blob range contains them: the provider can always prove
\* what it served, and nothing is served outside what was paid for.
FetchedUnderSession ==
    \A i \in Elements(parts) :
        LET s == chain[PlanProvider(i)]
            g == Plan(i).global
        IN  s.st # "none" /\ s.first <= g /\ g < s.first + s.count

\* The owner confirms, and so lets the providers be paid, only what the page
\* holds in full: every chunk of the range, each fetched once.
ConfirmedIsComplete ==
    txs["confirm"] # "none" =>
        /\ Elements(parts) = range.from..range.to
        /\ Len(parts) = range.to - range.from + 1

\* No session completes, and no fee is paid out, for a download the user
\* does not hold or has not confirmed.
PaidIsDelivered ==
    \A p \in Providers :
        chain[p].st = "completed" =>
            /\ txs["confirm"] = "mined"
            /\ \A i \in range.from..range.to : PlanProvider(i) = p => i \in Elements(parts)

\* Every provider of a finished download is asked for its proof, so that each
\* of its sessions completes and its fee is paid.
DeliveredIsPaid ==
    phase = "done" ~> \A r \in opens : chain[r.provider].st = "completed"
-----------------------------------------------------------------------------
(* What a document, a comment or a test says and the code does not keep; the *)
(* README tells how. *)

\* The saved file has the bytes of the range in their order.
FileInOrder ==
    phase = "done" => file = [j \in 1..(range.to - range.from + 1) |-> range.from + j - 1]

\* Every range the page asks the chain to open is one the chain accepts.
OpensAreAccepted == \A r \in opens : Openable(r)

\* A session whose download was given up can be cancelled one day.
AbandonedCanBeCancelled ==
    \A p \in Providers :
        phase \in {"error", "closed"} /\ chain[p].st = "open" => chain[p].expires > 0

\* A service that wants the request signed gets a signature asked of the user.
SignatureIsAsked == phase = "error" => reason # "req_sig is required"

\* What has been fetched and confirmed is not thrown away for want of a local
\* gateway.
ConfirmedIsKept == phase = "error" /\ reason = "proof" => GatewayPresent
=============================================================================
