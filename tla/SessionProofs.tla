--------------------------- MODULE SessionProofs ---------------------------
(***************************************************************************)
(* The proofs of one on-chain retrieval session, from the page that asks   *)
(* for the chunks to the chain that checks the proofs.                     *)
(* Each chunk the provider serves lies in one blob; the handler looks the  *)
(* session up on chain, records the blob's proof in the session database   *)
(* and answers.  The page tries a chunk again when an attempt fails, and   *)
(* cannot tell an attempt that failed before the record from one that      *)
(* failed after it.  When it has every chunk it confirms the session and   *)
(* asks the provider to submit what was recorded.  Handlers run            *)
(* concurrently, and the provider may restart; its database stays.         *)
(***************************************************************************)
EXTENDS Naturals, Sequences, SequencesExt

CONSTANTS BlobCount,   \* blobs of the session
          MaxFetches,  \* attempts the page makes in all
          MaxCrashes   \* bound: restarts of the provider

\* What the constants are taken to be.
SessionProofsAssumption ==
    /\ BlobCount \in Nat \ {0}
    /\ MaxFetches \in Nat \ {0}
    /\ MaxCrashes \in Nat

VARIABLES status,   \* on chain: the session's status
          proofs,   \* onChainSessionProofsBucket: the session's proofs
          fetches,  \* GatewayFetch handlers, by attempt
          submit,   \* the SpSubmitRetrievalSessionProof handler
          chunk,    \* page: the next chunk
          waiting,  \* page: the attempt it waits for, or NoAttempt
          phase,    \* page: what it is doing
          lost,     \* an answer to the page was lost, in a restart or on the way
          dropped,  \* history: proofs that were to be submitted did not get on chain
          crashes   \* restarts so far

serverVars == <<proofs, fetches, submit>>
pageVars == <<chunk, waiting, phase>>
vars == <<status, serverVars, pageVars, lost, dropped, crashes>>

Blobs == 1 .. BlobCount
Attempts == 1 .. MaxFetches
NoAttempt == 0

-----------------------------------------------------------------------------

(* The handlers. *)

Idle == [step |-> "none", blob |-> 1]
NoSubmit == [step |-> "none", list |-> << >>]

At(f, step) == fetches[f].step = step
ToStep(f, step) == fetches' = [fetches EXCEPT ![f].step = step]
Sent == {f \in Attempts : ~At(f, "none")}

Init ==
    /\ status = "OPEN"
    /\ proofs = << >>
    /\ fetches = [f \in Attempts |-> Idle]
    /\ submit = NoSubmit
    /\ chunk = 1
    /\ waiting = NoAttempt
    /\ phase = "fetching"
    /\ lost = FALSE
    /\ dropped = FALSE
    /\ crashes = 0

(* The page asks for its next chunk; every attempt is a new request. *)
Ask ==
    /\ phase = "fetching"
    /\ chunk \in Blobs
    /\ waiting = NoAttempt
    /\ \E f \in Attempts :
         /\ Sent = 1 .. (f - 1)
         /\ fetches' = [fetches EXCEPT ![f] = [step |-> "begun", blob |-> chunk]]
         /\ waiting' = f
    /\ UNCHANGED <<status, proofs, submit, chunk, phase, lost, dropped, crashes>>

(* GatewayFetch looks the session up and goes on only when it is OPEN. *)
CheckSession(f) ==
    /\ At(f, "begun")
    /\ ToStep(f, IF status = "OPEN" THEN "checked" ELSE "refused")
    /\ UNCHANGED <<status, proofs, submit, pageVars, lost, dropped, crashes>>

(* The file, the range or the proof cannot be produced. *)
Refuse(f) ==
    /\ At(f, "begun") \/ At(f, "checked")
    /\ ToStep(f, "refused")
    /\ UNCHANGED <<status, proofs, submit, pageVars, lost, dropped, crashes>>

(* The proof goes to the front of the recorded list. *)
StoreProofFirst(f) ==
    /\ At(f, "checked")
    /\ proofs' = <<fetches[f].blob>> \o proofs
    /\ ToStep(f, "stored")
    /\ UNCHANGED <<status, submit, pageVars, lost, dropped, crashes>>

(* storeOnChainSessionProof: the proof goes to the end of the recorded list. *)
StoreProof(f) ==
    /\ At(f, "checked")
    /\ proofs' = Append(proofs, fetches[f].blob)
    /\ ToStep(f, "stored")
    /\ UNCHANGED <<status, submit, pageVars, lost, dropped, crashes>>

(* The answer reaches the page if it still waits for it. *)
Reply(f) ==
    /\ At(f, "stored")
    /\ ToStep(f, "gone")
    /\ \/ /\ waiting = f
          /\ waiting' = NoAttempt
          /\ chunk' = chunk + 1
       \/ /\ waiting # f
          /\ UNCHANGED <<waiting, chunk>>
    /\ UNCHANGED <<status, proofs, submit, phase, lost, dropped, crashes>>

ReplyError(f) ==
    /\ At(f, "refused")
    /\ ToStep(f, "gone")
    /\ waiting' = IF waiting = f THEN NoAttempt ELSE waiting
    /\ UNCHANGED <<status, proofs, submit, chunk, phase, lost, dropped, crashes>>

(* An attempt times out or its answer is lost: the page stops waiting, and *)
(* the handler does not notice. *)
Abandon ==
    /\ waiting # NoAttempt
    /\ waiting' = NoAttempt
    /\ lost' = TRUE
    /\ UNCHANGED <<status, serverVars, chunk, phase, dropped, crashes>>

(* Every attempt has failed. *)
GiveUp ==
    /\ phase = "fetching"
    /\ chunk \in Blobs
    /\ waiting = NoAttempt
    /\ Sent = Attempts
    /\ phase' = "failed"
    /\ UNCHANGED <<status, serverVars, chunk, waiting, lost, dropped, crashes>>

(* Every chunk is there: the page confirms the session on chain. *)
Confirm ==
    /\ phase = "fetching"
    /\ chunk = BlobCount + 1
    /\ phase' = "confirmed"
    /\ status' = CASE status = "OPEN" -> "USER_CONFIRMED"
                   [] status = "PROOF_SUBMITTED" -> "COMPLETED"
                   [] OTHER -> status
    /\ UNCHANGED <<serverVars, chunk, waiting, lost, dropped, crashes>>

(* The page asks, through its gateway, for the proof to be submitted. *)
RequestProof ==
    /\ phase = "confirmed"
    /\ phase' = "asking"
    /\ submit' = [NoSubmit EXCEPT !.step = "begun"]
    /\ UNCHANGED <<status, proofs, fetches, chunk, waiting, lost, dropped, crashes>>

(* The last proof is left out. *)
LoadProofsButLast ==
    /\ submit.step = "begun"
    /\ submit' = [step |-> IF proofs = << >> THEN "rejected" ELSE "loaded",
                  list |-> IF proofs = << >> THEN << >> ELSE Front(proofs)]
    /\ UNCHANGED <<status, proofs, fetches, pageVars, lost, dropped, crashes>>

(* The record is taken when it is read, before the chain has seen it. *)
TakeProofs ==
    /\ submit.step = "begun"
    /\ submit' = [step |-> IF proofs = << >> THEN "rejected" ELSE "loaded",
                  list |-> proofs]
    /\ proofs' = << >>
    /\ UNCHANGED <<status, fetches, pageVars, lost, dropped, crashes>>

(* loadOnChainSessionProofs; without a record there is no download session *)
(* of this name either, and the request is refused. *)
LoadProofs ==
    /\ submit.step = "begun"
    /\ submit' = [step |-> IF proofs = << >> THEN "rejected" ELSE "loaded",
                  list |-> proofs]
    /\ UNCHANGED <<status, proofs, fetches, pageVars, lost, dropped, crashes>>

(* What the chain asks of a submission: one proof per blob, in order. *)
Accepted(list) == list = [b \in Blobs |-> b]

(* SubmitRetrievalSessionProof on chain, waited for by submitTxAndWait,    *)
(* which may not find the transaction in time. *)
SubmitTx ==
    /\ submit.step = "loaded"
    /\ \/ /\ Accepted(submit.list)
          /\ status' = CASE status = "OPEN" -> "PROOF_SUBMITTED"
                         [] status = "USER_CONFIRMED" -> "COMPLETED"
                         [] OTHER -> status
          /\ \/ submit' = [submit EXCEPT !.step = "accepted"]
             \/ submit' = [submit EXCEPT !.step = "rejected"]
       \/ /\ ~Accepted(submit.list)
          /\ submit' = [submit EXCEPT !.step = "rejected"]
          /\ UNCHANGED status
    /\ UNCHANGED <<proofs, fetches, pageVars, lost, dropped, crashes>>

(* Nothing gets on chain: the provider's key, its temporary file, the      *)
(* command or the broadcast fails, and the request is answered with 500.   *)
SubmitFails ==
    /\ submit.step \in {"begun", "loaded"}
    /\ submit' = [submit EXCEPT !.step = "rejected"]
    /\ dropped' = TRUE
    /\ UNCHANGED <<status, proofs, fetches, pageVars, lost, crashes>>

(* The record is kept. *)
KeepProofs ==
    /\ submit.step = "accepted"
    /\ submit' = [submit EXCEPT !.step = "deleted"]
    /\ UNCHANGED <<status, proofs, fetches, pageVars, lost, dropped, crashes>>

(* deleteOnChainSessionProofs, after the transaction was seen. *)
DeleteProofs ==
    /\ submit.step = "accepted"
    /\ proofs' = << >>
    /\ submit' = [submit EXCEPT !.step = "deleted"]
    /\ UNCHANGED <<status, fetches, pageVars, lost, dropped, crashes>>

(* A request that failed is not answered. *)
ReplySuccessOnly ==
    /\ submit.step \in {"deleted", "rejected"}
    /\ phase' = IF submit.step = "deleted" THEN "done" ELSE phase
    /\ submit' = NoSubmit
    /\ UNCHANGED <<status, proofs, fetches, chunk, waiting, lost, dropped, crashes>>

ReplySubmit ==
    /\ submit.step \in {"deleted", "rejected"}
    /\ phase' = IF submit.step = "deleted" THEN "done" ELSE "failed"
    /\ submit' = NoSubmit
    /\ UNCHANGED <<status, proofs, fetches, chunk, waiting, lost, dropped, crashes>>

(* The provider restarts: its handlers are gone, and whoever waits for one *)
(* sees the connection break. *)
Crash ==
    /\ crashes < MaxCrashes
    /\ crashes' = crashes + 1
    /\ lost' = TRUE
    /\ fetches' = [f \in Attempts |->
                     IF f \in Sent THEN [fetches[f] EXCEPT !.step = "gone"]
                                   ELSE fetches[f]]
    /\ submit' = NoSubmit
    /\ waiting' = NoAttempt
    /\ phase' = IF phase = "asking" THEN "failed" ELSE phase
    /\ UNCHANGED <<status, proofs, chunk, dropped>>

Fetching(f) ==
    CheckSession(f) \/ Refuse(f) \/ StoreProof(f) \/ Reply(f) \/ ReplyError(f)

Submitting == LoadProofs \/ SubmitTx \/ SubmitFails \/ DeleteProofs \/ ReplySubmit

Page == Ask \/ GiveUp \/ Confirm \/ RequestProof

Next ==
    \/ Page
    \/ \E f \in Attempts : Fetching(f)
    \/ Submitting
    \/ Abandon
    \/ Crash

Spec == Init /\ [][Next]_vars

(* The page and the handlers go on; nothing has to fail. *)
Fairness ==
    /\ WF_vars(Page)
    /\ WF_vars(Submitting)
    /\ \A f \in Attempts : WF_vars(Fetching(f))

FairSpec == Spec /\ Fairness

-----------------------------------------------------------------------------

(* The ranges of the variables. *)
TypeOK ==
    /\ status \in {"OPEN", "USER_CONFIRMED", "PROOF_SUBMITTED", "COMPLETED"}
    /\ proofs \in Seq(Blobs)
    /\ fetches \in [Attempts ->
         [step : {"none", "begun", "checked", "stored", "refused", "gone"},
          blob : Blobs]]
    /\ submit.step \in {"none", "begun", "loaded", "accepted", "rejected", "deleted"}
    /\ submit.list \in Seq(Blobs)
    /\ chunk \in 1 .. (BlobCount + 1)
    /\ waiting \in Attempts \cup {NoAttempt}
    /\ phase \in {"fetching", "confirmed", "asking", "done", "failed"}
    /\ lost \in BOOLEAN
    /\ dropped \in BOOLEAN
    /\ crashes \in 0 .. MaxCrashes

Proved == status \in {"PROOF_SUBMITTED", "COMPLETED"}

(* Whatever fails, restarts included: a chunk the page was given has its   *)
(* proof in the database until the chain has accepted the session's        *)
(* proofs; storeOnChainSessionProof comes before the answer, and the       *)
(* record is deleted only after the transaction was seen. *)
AckedIsStored ==
    \A b \in Blobs : b < chunk => Proved \/ b \in ToSet(proofs)

(* When the page has every chunk, what the provider has recorded is what   *)
(* the chain accepts: one proof per blob, in order.                        *)
ProvableSession ==
    chunk = BlobCount + 1 => Proved \/ Accepted(proofs)

(* A finished download leaves nothing behind in the database. *)
DoneIsCleaned == phase = "done" => proofs = << >>

(* A session the page has confirmed is proved in the end, so that the      *)
(* provider is paid.                                                       *)
ConfirmedIsProved == (phase = "confirmed") ~> Proved

(* Or else the page was told, and what would prove it is still recorded,   *)
(* for another request to submit.                                          *)
ConfirmedIsProvable ==
    (phase = "confirmed") ~> (Proved \/ (phase = "failed" /\ Accepted(proofs)))

=============================================================================
