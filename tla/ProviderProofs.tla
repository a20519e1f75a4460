-------------------------- MODULE ProviderProofs --------------------------
(***************************************************************************)
(* Proofs about a provider: the proofs it stores for an on-chain session    *)
(* (SessionProofs), the sessions it keeps itself (DownloadSessions), and    *)
(* the slabs it takes in (SlabIngest).  What is proved is stated in         *)
(* Provider and Ingest, and no theorem is about two of the parts.           *)
(***************************************************************************)
EXTENDS Provider, Ingest, Integers, Sequences, SequencesExt, FiniteSets, FiniteSetTheorems,
        NaturalsInduction, WellFoundedInduction, TLAPS
-----------------------------------------------------------------------------
\* What Append adds to the elements of a sequence.
LEMMA ToSetAppend ==
    ASSUME NEW T, NEW s \in Seq(T), NEW e \in T
    PROVE  /\ Append(s, e) \in Seq(T)
           /\ ToSet(Append(s, e)) = ToSet(s) \cup {e}
  <1>1. /\ Append(s, e) \in Seq(T)
        /\ Len(Append(s, e)) = Len(s) + 1
        /\ \A i \in 1 .. Len(s) : Append(s, e)[i] = s[i]
        /\ Append(s, e)[Len(s) + 1] = e
    OBVIOUS
  <1>2. ToSet(s) \cup {e} \subseteq ToSet(Append(s, e))
    <2>1. Len(s) + 1 \in DOMAIN Append(s, e)
      BY <1>1
    <2>2. \A i \in DOMAIN s : i \in DOMAIN Append(s, e) /\ Append(s, e)[i] = s[i]
      BY <1>1
    <2>3. QED
      BY <1>1, <2>1, <2>2 DEF ToSet
  <1>3. ToSet(Append(s, e)) \subseteq ToSet(s) \cup {e}
    <2>1. SUFFICES ASSUME NEW i \in DOMAIN Append(s, e)
                   PROVE  Append(s, e)[i] \in ToSet(s) \cup {e}
      BY DEF ToSet
    <2>2. i \in 1 .. Len(s) \/ i = Len(s) + 1
      BY <1>1
    <2>3. QED
      BY <1>1, <2>2 DEF ToSet
  <1>4. QED
    BY <1>1, <1>2, <1>3

LEMMA ToSetEmpty == ToSet(<< >>) = {}
  BY DEF ToSet

\* The operators of an instance are its own, also the ones it extends.
LEMMA ToSetSame == /\ \A s : S!ToSet(s) = ToSet(s)
                   /\ \A s : D!ToSet(s) = ToSet(s)
  BY DEF S!ToSet, D!ToSet, ToSet

LEMMA CardinalitySame == \A T : /\ D!Cardinality(T) = Cardinality(T)
                                /\ I!Cardinality(T) = Cardinality(T)
  BY DEF D!Cardinality, I!Cardinality, Cardinality
-----------------------------------------------------------------------------
(***************************************************************************)
(* The proofs of an on-chain session.                                      *)
(***************************************************************************)
\* The attempt the page waits for is for its next chunk; a handler that has
\* stored a proof finds it in the record, until the chain has accepted it; and
\* the record is deleted only after that.
AckInv ==
    /\ S!TypeOK
    /\ S!AckedIsStored
    /\ waiting # S!NoAttempt => /\ fetches[waiting].blob = chunk
                                /\ chunk \in S!Blobs
    /\ \A f \in S!Attempts :
         S!At(f, "stored") => S!Proved \/ fetches[f].blob \in S!ToSet(proofs)
    /\ submit.step \in {"accepted", "deleted"} => S!Proved
    /\ DOMAIN submit = {"step", "list"}

LEMMA AckInit ==
    ASSUME S!SessionProofsAssumption, S!Init PROVE AckInv
  <1>1. /\ fetches = [f \in 1 .. MaxFetches |-> [step |-> "none", blob |-> 1]]
        /\ submit = [step |-> "none", list |-> << >>]
        /\ status = "OPEN" /\ proofs = << >> /\ chunk = 1 /\ waiting = 0
        /\ phase = "fetching" /\ lost \in BOOLEAN /\ dropped \in BOOLEAN /\ crashes = 0
    BY DEF S!Init, S!Idle, S!NoSubmit, S!Attempts, S!NoAttempt
  <1>2. BlobCount \in Nat \ {0} /\ MaxCrashes \in Nat
    BY DEF S!SessionProofsAssumption
  <1>3. S!TypeOK
    BY <1>1, <1>2 DEF S!TypeOK, S!Blobs, S!Attempts, S!NoAttempt
  <1>4. S!AckedIsStored
    BY <1>1, <1>2 DEF S!AckedIsStored, S!Blobs
  <1>5. QED
    BY <1>1, <1>2, <1>3, <1>4 DEF AckInv, S!NoAttempt, S!Attempts, S!At

\* A step of the page keeps AckInv.
LEMMA AckPage ==
    ASSUME S!SessionProofsAssumption, AckInv, S!Page PROVE AckInv'
  <1> USE DEF AckInv, S!TypeOK, S!AckedIsStored, S!Proved, S!NoAttempt, S!At
  <1>1. CASE S!Ask
    <2>1. PICK f \in S!Attempts :
            /\ S!Sent = 1 .. (f - 1)
            /\ fetches' = [fetches EXCEPT ![f] = [step |-> "begun", blob |-> chunk]]
            /\ waiting' = f
      BY <1>1 DEF S!Ask
    <2>2. chunk \in S!Blobs /\ UNCHANGED <<status, proofs, submit, chunk, phase, lost, dropped, crashes>>
      BY <1>1 DEF S!Ask
    <2>3. QED
      BY <2>1, <2>2
  <1>2. CASE S!GiveUp
    BY <1>2 DEF S!GiveUp, S!serverVars
  <1>3. CASE S!Confirm
    <2>1. S!Proved => S!Proved'
      BY <1>3 DEF S!Confirm
    <2>2. UNCHANGED <<proofs, fetches, submit, chunk, waiting, lost, dropped, crashes>>
          /\ phase' = "confirmed"
      BY <1>3 DEF S!Confirm, S!serverVars
    <2>3. status' \in {"OPEN", "USER_CONFIRMED", "PROOF_SUBMITTED", "COMPLETED"}
      BY <1>3 DEF S!Confirm
    <2>4. QED
      BY <2>1, <2>2, <2>3
  <1>4. CASE S!RequestProof
    <2>1. submit' = [step |-> "begun", list |-> << >>]
      BY <1>4, Zenon DEF S!RequestProof, S!NoSubmit
    <2>2. UNCHANGED <<status, proofs, fetches, chunk, waiting, lost, dropped, crashes>>
          /\ phase' = "asking"
      BY <1>4 DEF S!RequestProof
    <2>3. QED
      BY <2>1, <2>2
  <1>5. QED
    BY <1>1, <1>2, <1>3, <1>4 DEF S!Page

\* A step of a GatewayFetch handler keeps AckInv.
LEMMA AckFetching ==
    ASSUME S!SessionProofsAssumption, AckInv,
           NEW f \in S!Attempts, S!Fetching(f)
    PROVE  AckInv'
  <1> USE DEF AckInv, S!TypeOK, S!AckedIsStored, S!Proved, S!NoAttempt, S!At, S!ToStep
  <1>1. CASE S!CheckSession(f)
    BY <1>1 DEF S!CheckSession, S!pageVars
  <1>2. CASE S!Refuse(f)
    BY <1>2 DEF S!Refuse, S!pageVars
  <1>3. CASE S!StoreProof(f)
    <2>1. /\ proofs' = Append(proofs, fetches[f].blob)
          /\ fetches' = [fetches EXCEPT ![f].step = "stored"]
          /\ UNCHANGED <<status, submit, chunk, waiting, phase, lost, dropped, crashes>>
      BY <1>3 DEF S!StoreProof, S!pageVars
    <2>2. /\ proofs' \in Seq(S!Blobs)
          /\ S!ToSet(proofs)' = S!ToSet(proofs) \cup {fetches[f].blob}
      <3>1. fetches[f].blob \in S!Blobs
        OBVIOUS
      <3>2. QED
        BY <2>1, <3>1, ToSetAppend, ToSetSame
    <2>3. QED
      BY <2>1, <2>2
  <1>4. CASE S!Reply(f)
    <2>1. /\ fetches' = [fetches EXCEPT ![f].step = "gone"]
          /\ UNCHANGED <<status, proofs, submit, phase, lost, dropped, crashes>>
          /\ fetches[f].step = "stored"
      BY <1>4 DEF S!Reply
    <2>2. CASE waiting = f /\ waiting' = 0 /\ chunk' = chunk + 1
      <3>1. chunk \in S!Blobs /\ fetches[f].blob = chunk /\ BlobCount \in Nat
        BY <2>2 DEF S!Attempts, S!SessionProofsAssumption
      <3>2. chunk' \in 1 .. (BlobCount + 1) /\ waiting' \in S!Attempts \cup {0}
        BY <2>2, <3>1 DEF S!Blobs
      <3>3. fetches' \in [S!Attempts ->
              [step : {"none", "begun", "checked", "stored", "refused", "gone"},
               blob : S!Blobs]]
        BY <2>1
      <3>4. S!TypeOK'
        BY <2>1, <3>2, <3>3
      <3>5. S!AckedIsStored'
        BY <2>1, <2>2, <3>1 DEF S!Blobs
      <3>6. QED
        BY <2>1, <2>2, <3>4, <3>5
    <2>3. CASE waiting # f /\ UNCHANGED <<waiting, chunk>>
      BY <2>1, <2>3
    <2>4. QED
      BY <1>4, <2>2, <2>3 DEF S!Reply
  <1>5. CASE S!ReplyError(f)
    BY <1>5 DEF S!ReplyError
  <1>6. QED
    BY <1>1, <1>2, <1>3, <1>4, <1>5 DEF S!Fetching

\* A step of the submission keeps AckInv: the record is deleted when the chain
\* has the proofs.
LEMMA AckSubmitting ==
    ASSUME S!SessionProofsAssumption, AckInv, S!Submitting PROVE AckInv'
  <1> USE DEF AckInv, S!TypeOK, S!AckedIsStored, S!Proved, S!NoAttempt, S!At
  <1>1. CASE S!LoadProofs
    BY <1>1 DEF S!LoadProofs, S!pageVars
  <1>2. CASE S!SubmitTx
    <2>1. UNCHANGED <<proofs, fetches, chunk, waiting, phase, lost, dropped, crashes>>
      BY <1>2 DEF S!SubmitTx, S!pageVars
    <2>2. /\ S!Proved => S!Proved'
          /\ status' \in {"OPEN", "USER_CONFIRMED", "PROOF_SUBMITTED", "COMPLETED"}
      BY <1>2 DEF S!SubmitTx
    <2>3. CASE S!Accepted(submit.list)
      <3>1. S!Proved'
        BY <1>2, <2>3 DEF S!SubmitTx
      <3>2. \E s \in {"accepted", "rejected"} : submit' = [submit EXCEPT !.step = s]
        BY <1>2, <2>3 DEF S!SubmitTx
      <3>3. QED
        BY <2>1, <2>2, <3>1, <3>2
    <2>4. CASE ~S!Accepted(submit.list)
      <3>1. submit' = [submit EXCEPT !.step = "rejected"]
        BY <1>2, <2>4 DEF S!SubmitTx
      <3>2. QED
        BY <2>1, <2>2, <3>1
    <2>5. QED
      BY <2>3, <2>4
  <1>3. CASE S!DeleteProofs
    <2>1. /\ proofs' = << >>
          /\ submit' = [submit EXCEPT !.step = "deleted"]
          /\ submit.step = "accepted"
          /\ UNCHANGED <<status, fetches, chunk, waiting, phase, lost, dropped, crashes>>
      BY <1>3 DEF S!DeleteProofs, S!pageVars
    <2>2. QED
      BY <2>1
  <1>4. CASE S!ReplySubmit
    BY <1>4 DEF S!ReplySubmit, S!NoSubmit
  <1>5. CASE S!SubmitFails
    <2>1. /\ submit' = [submit EXCEPT !.step = "rejected"] /\ dropped' \in BOOLEAN
          /\ UNCHANGED <<status, proofs, fetches, chunk, waiting, phase, lost, crashes>>
      BY <1>5 DEF S!SubmitFails, S!pageVars
    <2>2. QED
      BY <2>1
  <1>6. QED
    BY <1>1, <1>2, <1>3, <1>4, <1>5 DEF S!Submitting

\* A lost answer and a restart keep AckInv: the database stays.
LEMMA AckFaults ==
    ASSUME S!SessionProofsAssumption, AckInv, S!Abandon \/ S!Crash PROVE AckInv'
  <1> USE DEF AckInv, S!TypeOK, S!AckedIsStored, S!Proved, S!NoAttempt, S!At
  <1>1. CASE S!Abandon
    BY <1>1 DEF S!Abandon, S!serverVars
  <1>2. CASE S!Crash
    <2>1. /\ fetches' = [f \in S!Attempts |->
                           IF f \in S!Sent THEN [fetches[f] EXCEPT !.step = "gone"]
                                           ELSE fetches[f]]
          /\ submit' = [step |-> "none", list |-> << >>]
          /\ waiting' = 0
          /\ phase' = IF phase = "asking" THEN "failed" ELSE phase
          /\ lost' = TRUE /\ crashes < MaxCrashes /\ crashes' = crashes + 1
          /\ UNCHANGED <<status, proofs, chunk, dropped>>
      BY <1>2 DEF S!Crash, S!NoSubmit
    <2>2. fetches' \in [S!Attempts ->
            [step : {"none", "begun", "checked", "stored", "refused", "gone"},
             blob : S!Blobs]]
      BY <2>1
    <2>3. \A f \in S!Attempts : fetches'[f].step # "stored"
      BY <2>1 DEF S!Sent
    <2>4. QED
      BY <2>1, <2>2, <2>3 DEF S!SessionProofsAssumption
  <1>3. QED
    BY <1>1, <1>2

LEMMA AckStep ==
    ASSUME S!SessionProofsAssumption, AckInv, [S!Next]_S!vars PROVE AckInv'
  <1>1. CASE UNCHANGED S!vars
    BY <1>1 DEF AckInv, S!TypeOK, S!AckedIsStored, S!Proved, S!At, S!vars,
                S!serverVars, S!pageVars
  <1>2. QED
    BY <1>1, AckPage, AckFetching, AckSubmitting, AckFaults DEF S!Next

\* Chunks whose proofs are recorded: those the page has, and the one whose
\* answer is on its way.
Recorded == IF waiting # S!NoAttempt /\ S!At(waiting, "stored") THEN chunk ELSE chunk - 1

\* When nothing is lost: no handler runs that the page does not wait for, the
\* record has one proof for each chunk, in order, and it is submitted, and
\* deleted, when no handler can add to it.
OrderInv ==
    /\ AckInv
    /\ \A f \in S!Attempts : f # waiting => S!At(f, "none") \/ S!At(f, "gone")
    /\ waiting # S!NoAttempt => phase = "fetching"
    /\ submit.step # "none" => phase = "asking"
    /\ phase \in {"confirmed", "asking"} => waiting = S!NoAttempt
    /\ S!Proved \/ proofs = [b \in 1 .. Recorded |-> b]
    /\ submit.step = "deleted" \/ phase = "done" => proofs = << >>

LEMMA OrderInit ==
    ASSUME S!SessionProofsAssumption, S!Init PROVE OrderInv
  <1>1. AckInv
    BY AckInit
  <1>2. /\ fetches = [f \in S!Attempts |-> [step |-> "none", blob |-> 1]]
        /\ submit = [step |-> "none", list |-> << >>]
        /\ proofs = << >> /\ chunk = 1 /\ waiting = 0 /\ phase = "fetching"
    BY DEF S!Init, S!Idle, S!NoSubmit, S!NoAttempt
  <1>3. proofs = [b \in 1 .. Recorded |-> b]
    BY <1>2 DEF Recorded, S!NoAttempt
  <1>4. QED
    BY <1>1, <1>2, <1>3 DEF OrderInv, S!NoAttempt, S!At

\* The record of one chunk more.
LEMMA RecordOneMore ==
    ASSUME NEW n \in Nat
    PROVE  Append([b \in 1 .. n |-> b], n + 1) = [b \in 1 .. (n + 1) |-> b]
  <1>1. [b \in 1 .. n |-> b] \in Seq(Nat) /\ [b \in 1 .. (n + 1) |-> b] \in Seq(Nat)
    OBVIOUS
  <1>2. Len([b \in 1 .. n |-> b]) = n
    OBVIOUS
  <1> DEFINE a == Append([b \in 1 .. n |-> b], n + 1)
  <1>3. a \in Seq(Nat) /\ Len(a) = n + 1
    BY <1>1, <1>2
  <1>4. \A i \in 1 .. (n + 1) : a[i] = i
    BY <1>1, <1>2
  <1>5. QED
    BY <1>1, <1>3, <1>4

LEMMA OrderPage ==
    ASSUME S!SessionProofsAssumption, OrderInv, S!Page PROVE OrderInv'
  <1> USE DEF S!NoAttempt, S!At, S!Proved
  <1>1. AckInv /\ AckInv' /\ S!TypeOK
    BY AckPage DEF OrderInv, AckInv
  <1>2. CASE S!Ask
    <2>1. PICK f \in S!Attempts :
            /\ S!Sent = 1 .. (f - 1)
            /\ fetches' = [fetches EXCEPT ![f] = [step |-> "begun", blob |-> chunk]]
            /\ waiting' = f
      BY <1>2 DEF S!Ask
    <2>2. /\ chunk \in S!Blobs /\ waiting = 0 /\ phase = "fetching"
          /\ UNCHANGED <<status, proofs, submit, chunk, phase, crashes>>
      BY <1>2 DEF S!Ask
    <2>3. f # 0 /\ fetches'[f].step = "begun"
      BY <1>1, <2>1 DEF S!Attempts, S!TypeOK
    <2>4. UNCHANGED Recorded
      BY <2>1, <2>2, <2>3 DEF Recorded
    <2>5. \A g \in S!Attempts : g # waiting' => fetches'[g] = fetches[g]
      BY <1>1, <2>1 DEF S!TypeOK
    <2>6. \A g \in S!Attempts : g # 0
      BY DEF S!Attempts
    <2>7. QED
      BY <1>1, <2>1, <2>2, <2>3, <2>4, <2>5, <2>6 DEF OrderInv
  <1>3. CASE S!GiveUp
    BY <1>1, <1>3 DEF S!GiveUp, S!serverVars, OrderInv, Recorded
  <1>4. CASE S!Confirm
    <2>1. S!Proved => S!Proved'
      BY <1>1, <1>4 DEF S!Confirm, S!TypeOK
    <2>2. /\ UNCHANGED <<proofs, fetches, submit, chunk, waiting, crashes>>
          /\ phase = "fetching" /\ phase' = "confirmed" /\ chunk = BlobCount + 1
      BY <1>4 DEF S!Confirm, S!serverVars
    <2>3. waiting = 0
      BY <1>1, <2>2 DEF AckInv, S!Blobs, S!SessionProofsAssumption
    <2>4. QED
      BY <1>1, <2>1, <2>2, <2>3 DEF OrderInv, Recorded
  <1>5. CASE S!RequestProof
    <2>1. submit'.step = "begun"
      BY <1>5, Zenon DEF S!RequestProof, S!NoSubmit
    <2>2. UNCHANGED <<status, proofs, fetches, chunk, waiting, crashes>>
          /\ phase = "confirmed" /\ phase' = "asking"
      BY <1>5 DEF S!RequestProof
    <2>3. QED
      BY <1>1, <2>1, <2>2 DEF OrderInv, Recorded
  <1>6. QED
    BY <1>2, <1>3, <1>4, <1>5 DEF S!Page

LEMMA OrderFetching ==
    ASSUME S!SessionProofsAssumption, OrderInv,
           NEW f \in S!Attempts, S!Fetching(f)
    PROVE  OrderInv'
  <1> USE DEF S!NoAttempt, S!At, S!Proved, S!ToStep
  <1>1. AckInv /\ AckInv' /\ S!TypeOK
    BY AckFetching DEF OrderInv, AckInv
  <1>2. waiting = f /\ phase = "fetching" /\ f # 0
    BY DEF S!Fetching, S!CheckSession, S!Refuse, S!StoreProof, S!Reply,
           S!ReplyError, OrderInv, S!Attempts
  <1>3. chunk \in S!Blobs /\ fetches[f].blob = chunk
    BY <1>1, <1>2 DEF AckInv
  <1>4. CASE S!CheckSession(f) \/ S!Refuse(f)
    <2>1. PICK s \in {"checked", "refused"} : fetches' = [fetches EXCEPT ![f].step = s]
      BY <1>4 DEF S!CheckSession, S!Refuse
    <2>2. UNCHANGED <<status, proofs, submit, chunk, waiting, phase, crashes>>
      BY <1>4 DEF S!CheckSession, S!Refuse, S!pageVars
    <2>3. fetches[f].step # "stored"
      BY <1>4 DEF S!CheckSession, S!Refuse
    <2>4. UNCHANGED Recorded
      BY <1>1, <1>2, <2>1, <2>2, <2>3 DEF Recorded, S!TypeOK
    <2>5. QED
      BY <1>1, <1>2, <2>1, <2>2, <2>4 DEF OrderInv, S!TypeOK
  <1>5. CASE S!StoreProof(f)
    <2>1. /\ proofs' = Append(proofs, fetches[f].blob)
          /\ fetches[f].step = "checked"
          /\ fetches' = [fetches EXCEPT ![f].step = "stored"]
          /\ UNCHANGED <<status, submit, chunk, waiting, phase, crashes>>
      BY <1>5 DEF S!StoreProof, S!pageVars
    <2>2. Recorded = chunk - 1 /\ Recorded' = chunk
      BY <1>1, <1>2, <2>1 DEF Recorded, S!TypeOK
    <2>3. chunk - 1 \in Nat /\ (chunk - 1) + 1 = chunk
      BY <1>3 DEF S!Blobs, S!SessionProofsAssumption
    <2>4. proofs = [b \in 1 .. Recorded |-> b] => proofs' = [b \in 1 .. Recorded' |-> b]
      BY <1>3, <2>1, <2>2, <2>3, RecordOneMore
    <2>5. submit.step # "deleted" /\ phase # "done"
      BY <1>2 DEF OrderInv
    <2>6. QED
      BY <1>1, <1>2, <2>1, <2>4, <2>5 DEF OrderInv, S!TypeOK
  <1>6. CASE S!Reply(f)
    <2>1. /\ fetches[f].step = "stored"
          /\ fetches' = [fetches EXCEPT ![f].step = "gone"]
          /\ waiting' = 0 /\ chunk' = chunk + 1
          /\ UNCHANGED <<status, proofs, submit, phase, crashes>>
      BY <1>2, <1>6 DEF S!Reply
    <2>2. Recorded = chunk /\ Recorded' = chunk
      BY <1>1, <1>2, <1>3, <2>1 DEF Recorded, S!Blobs, S!SessionProofsAssumption
    <2>3. QED
      BY <1>1, <1>2, <2>1, <2>2 DEF OrderInv, S!TypeOK
  <1>7. CASE S!ReplyError(f)
    <2>1. /\ fetches[f].step = "refused"
          /\ fetches' = [fetches EXCEPT ![f].step = "gone"]
          /\ waiting' = 0
          /\ UNCHANGED <<status, proofs, submit, chunk, phase, crashes>>
      BY <1>2, <1>7 DEF S!ReplyError
    <2>2. UNCHANGED Recorded
      BY <1>2, <2>1 DEF Recorded
    <2>3. QED
      BY <1>1, <1>2, <2>1, <2>2 DEF OrderInv, S!TypeOK
  <1>8. QED
    BY <1>4, <1>5, <1>6, <1>7 DEF S!Fetching

LEMMA OrderSubmitting ==
    ASSUME S!SessionProofsAssumption, OrderInv, S!Submitting PROVE OrderInv'
  <1> USE DEF S!NoAttempt, S!At, S!Proved
  <1>1. AckInv /\ AckInv' /\ S!TypeOK
    BY AckSubmitting DEF OrderInv, AckInv
  <1>2. UNCHANGED <<fetches, chunk, waiting>> /\ phase = "asking"
    BY DEF S!Submitting, S!LoadProofs, S!SubmitTx, S!SubmitFails, S!DeleteProofs, S!ReplySubmit,
           S!pageVars, OrderInv
  <1>3. UNCHANGED Recorded
    BY <1>2 DEF Recorded
  <1>4. CASE S!LoadProofs
    <2>1. submit'.step # "deleted" /\ UNCHANGED <<status, proofs, phase>>
      BY <1>4 DEF S!LoadProofs, S!pageVars
    <2>2. QED
      BY <1>1, <1>2, <1>3, <2>1 DEF OrderInv
  <1>5. CASE S!SubmitTx
    <2>1. submit'.step # "deleted" /\ UNCHANGED <<proofs, phase>>
      <3>1. \E s \in {"accepted", "rejected"} : submit' = [submit EXCEPT !.step = s]
        BY <1>5 DEF S!SubmitTx
      <3>2. QED
        BY <1>1, <1>5, <3>1 DEF S!SubmitTx, S!pageVars, AckInv
    <2>2. S!Proved => S!Proved'
      BY <1>1, <1>5 DEF S!SubmitTx, S!TypeOK
    <2>3. QED
      BY <1>1, <1>2, <1>3, <2>1, <2>2 DEF OrderInv
  <1>6. CASE S!DeleteProofs
    <2>1. submit.step = "accepted" /\ proofs' = << >> /\ UNCHANGED <<status, phase>>
      BY <1>6 DEF S!DeleteProofs, S!pageVars
    <2>2. S!Proved'
      BY <1>1, <2>1 DEF AckInv
    <2>3. QED
      BY <1>1, <1>2, <1>3, <2>1, <2>2 DEF OrderInv
  <1>7. CASE S!ReplySubmit
    <2>1. /\ phase' = IF submit.step = "deleted" THEN "done" ELSE "failed"
          /\ submit'.step = "none" /\ UNCHANGED <<status, proofs>>
      BY <1>7 DEF S!ReplySubmit, S!NoSubmit
    <2>2. QED
      BY <1>1, <1>2, <1>3, <2>1 DEF OrderInv
  <1>8. CASE S!SubmitFails
    <2>1. submit'.step # "deleted" /\ UNCHANGED <<status, proofs, phase>>
      BY <1>1, <1>8 DEF S!SubmitFails, S!pageVars, AckInv
    <2>2. QED
      BY <1>1, <1>2, <1>3, <2>1 DEF OrderInv
  <1>9. QED
    BY <1>4, <1>5, <1>6, <1>7, <1>8 DEF S!Submitting

\* An answer that was lost stays lost.
LEMMA LostStays ==
    ASSUME [S!Next]_S!vars PROVE lost => lost'
  BY DEF S!Next, S!vars, S!Page, S!Ask, S!GiveUp, S!Confirm, S!RequestProof, S!Fetching,
         S!CheckSession, S!Refuse, S!StoreProof, S!Reply, S!ReplyError, S!Submitting,
         S!LoadProofs, S!SubmitTx, S!SubmitFails, S!DeleteProofs, S!ReplySubmit, S!Abandon, S!Crash

LEMMA OrderStep ==
    ASSUME S!SessionProofsAssumption, ~lost', OrderInv, [S!Next]_S!vars
    PROVE  OrderInv'
  <1>1. ~S!Abandon /\ ~S!Crash
    BY DEF S!Abandon, S!Crash
  <1>2. CASE UNCHANGED S!vars
    <2>1. AckInv'
      BY <1>2, AckStep DEF OrderInv
    <2>2. QED
      BY <1>2, <2>1 DEF OrderInv, Recorded, S!Proved, S!At, S!vars, S!serverVars,
                        S!pageVars
  <1>3. QED
    BY <1>1, <1>2, OrderPage, OrderFetching, OrderSubmitting DEF S!Next

\* Whatever fails: the proofs of the chunks the page was given are stored until
\* the chain has them; and if no answer is lost, the page's last chunk finds in
\* the record what the chain accepts, and a finished download leaves nothing.
THEOREM ChunksAreProvable == S!Spec => []AckedIsStored
  <1>0. S!SessionProofsAssumption
    BY ProviderAssumption
  <1>1. S!Init => AckInv
    BY <1>0, AckInit
  <1>2. AckInv /\ [S!Next]_S!vars => AckInv'
    BY <1>0, AckStep
  <1>3. AckInv => S!TypeOK /\ S!AckedIsStored
    BY DEF AckInv
  <1>4. S!Init => (~lost => OrderInv)
    BY <1>0, OrderInit
  <1>5. (~lost => OrderInv) /\ [S!Next]_S!vars => (~lost => OrderInv)'
    BY <1>0, OrderStep, LostStays
  <1>6. (~lost => OrderInv) => (~lost => S!ProvableSession /\ S!DoneIsCleaned)
    <2> SUFFICES ASSUME OrderInv PROVE S!ProvableSession /\ S!DoneIsCleaned
      OBVIOUS
    <2>1. S!DoneIsCleaned
      BY DEF OrderInv, S!DoneIsCleaned
    <2>2. chunk = BlobCount + 1 => waiting = S!NoAttempt
      BY <1>0 DEF OrderInv, AckInv, S!Blobs, S!SessionProofsAssumption
    <2>3. chunk = BlobCount + 1 => Recorded = BlobCount
      BY <1>0, <2>2 DEF Recorded, S!SessionProofsAssumption
    <2>4. S!ProvableSession
      BY <2>3 DEF OrderInv, S!ProvableSession, S!Accepted, S!Blobs
    <2>5. QED
      BY <2>1, <2>4
  <1>7. QED
    BY <1>1, <1>2, <1>3, <1>4, <1>5, <1>6, PTL DEF S!Spec, AckedIsStored
-----------------------------------------------------------------------------
(***************************************************************************)
(* The sessions a provider keeps itself.                                   *)
(***************************************************************************)
Items == D!Ids \cup Chunks
RecordType == [present : BOOLEAN, chunks : Seq(Items)]
RequestType ==
    [kind : {"open", "range", "fetch", "receipt", "claim"},
     step : {"begun", "fresh", "read", "loaded", "recorded", "submitted", "mismatch",
             "taken", "consumed", "over"},
     arg : Nonces \cup Chunks \cup {"all"}, session : Nat,
     list : Seq(Items), read : RecordType]

\* What a request names was there when it came.
Fits(q) ==
    /\ q.kind \in {"open", "range"} =>
         q.arg \in Nonces /\ q.step \in {"begun", "fresh", "over"}
    /\ q.kind = "fetch" => q.arg \in Chunks
    /\ q.kind \in {"fetch", "receipt"} =>
         q.session \in DOMAIN opened /\ ToSet(q.read.chunks) \subseteq Chunks
    /\ q.kind = "claim" =>
         ToSet(q.list) \subseteq DOMAIN opened /\ ToSet(q.read.chunks) \subseteq DOMAIN opened

\* The ranges of the variables, and what they have to do with each other: a
\* session is named after the request that opened it, which is over.
StoreInv ==
    /\ requests \in Seq(RequestType) /\ DOMAIN requests \subseteq D!Ids
    /\ \A r \in DOMAIN requests : Fits(requests[r])
    /\ replays \subseteq Nonces
    /\ bucket \in [D!Ids -> RecordType] /\ cache \in [D!Ids -> RecordType]
    /\ \A s \in D!Ids : ToSet(bucket[s].chunks) \cup ToSet(cache[s].chunks) \subseteq Chunks
    /\ \A s \in DOMAIN opened : /\ s \in DOMAIN requests
                                /\ opened[s] = {requests[s].arg}
                                /\ requests[s].kind \in {"open", "range"}
                                /\ requests[s].step = "over"
    /\ single \subseteq DOMAIN opened /\ expired \subseteq DOMAIN opened
    /\ got \in [D!Ids -> SUBSET Chunks]
    /\ \A s \in D!Ids : IsFiniteSet(got[s]) /\ (got[s] # {} => s \in DOMAIN opened)
    /\ claims \in [D!Ids -> Nat]
    /\ crashes \in 0 .. MaxCrashes

LEMMA StoreInit ==
    ASSUME D!DownloadSessionsAssumption, D!Init PROVE StoreInv
  <1>1. /\ replays = {} /\ single = {} /\ expired = {} /\ requests = << >>
        /\ bucket = [s \in D!Ids |-> [present |-> FALSE, chunks |-> << >>]]
        /\ cache = [s \in D!Ids |-> [present |-> FALSE, chunks |-> << >>]]
        /\ got = [s \in D!Ids |-> {}] /\ claims = [s \in D!Ids |-> 0]
        /\ opened = [s \in {} |-> {}] /\ crashes = 0
    BY DEF D!Init, D!Absent
  <1>2. [present |-> FALSE, chunks |-> << >>] \in RecordType
    BY DEF RecordType
  <1>3. IsFiniteSet({})
    BY FS_EmptySet
  <1>4. MaxRequests \in Nat /\ MaxCrashes \in Nat
    BY DEF D!DownloadSessionsAssumption
  <1>5. /\ requests \in Seq(RequestType)
        /\ DOMAIN requests = {} /\ crashes \in 0 .. MaxCrashes
    BY <1>1, <1>4
  <1>6. DOMAIN opened = {}
    BY <1>1
  <1>7. /\ bucket \in [D!Ids -> RecordType] /\ cache \in [D!Ids -> RecordType]
        /\ \A s \in D!Ids : ToSet(bucket[s].chunks) \cup ToSet(cache[s].chunks)
                              \subseteq Chunks
    BY <1>1, <1>2, ToSetEmpty
  <1>8. /\ got \in [D!Ids -> SUBSET Chunks] /\ claims \in [D!Ids -> Nat]
        /\ \A s \in D!Ids : IsFiniteSet(got[s]) /\ (got[s] # {} => s \in DOMAIN opened)
    BY <1>1, <1>3
  <1>9. QED
    BY <1>1, <1>5, <1>6, <1>7, <1>8 DEF StoreInv

\* What ToStep does to the request that takes the step.
LEMMA Stepped ==
    ASSUME StoreInv, NEW r \in DOMAIN requests, NEW a, D!ToStep(r, a)
    PROVE  requests'[r] = [requests[r] EXCEPT !.step = a] /\ requests'[r].step = a
           /\ requests'[r].list = requests[r].list /\ requests'[r].read = requests[r].read
           /\ requests'[r].kind = requests[r].kind /\ requests'[r].arg = requests[r].arg
           /\ requests'[r].session = requests[r].session
  <1>1. requests \in Seq(RequestType) /\ requests[r] \in RequestType
    BY DEF StoreInv
  <1>2. requests'[r] = [requests[r] EXCEPT !.step = a]
    BY <1>1 DEF D!ToStep
  <1>3. QED
    BY <1>1, <1>2 DEF RequestType

\* A step of a request touches that request only, and neither what it is for nor
\* whose it is.
LEMMA StepMoves ==
    ASSUME StoreInv, NEW r \in D!Ids, D!Step(r)
    PROVE  /\ r \in DOMAIN requests
           /\ requests' \in Seq(RequestType) /\ DOMAIN requests' = DOMAIN requests
           /\ \A q \in DOMAIN requests : q # r => requests'[q] = requests[q]
           /\ requests'[r] \in RequestType
           /\ requests'[r].kind = requests[r].kind
           /\ requests'[r].arg = requests[r].arg
           /\ requests'[r].session = requests[r].session
  <1>1. r \in DOMAIN requests /\ requests \in Seq(RequestType)
    BY DEF StoreInv, D!Step, D!CheckReplay, D!OpenSession, D!ServeRange, D!Load,
           D!LoadCached, D!ReadBucket, D!FillCache, D!LoadExpired, D!AppendChunk,
           D!AppendFails, D!ServeChunk, D!CheckReceipt, D!TakeSession, D!DropCache,
           D!SubmitFails, D!TakeFetchSession, D!SubmitReceipts, D!Current, D!Loading
  <1>2. requests[r] \in RequestType
    BY <1>1
  <1>3. ASSUME NEW q \in RequestType, requests' = [requests EXCEPT ![r] = q],
               q.kind = requests[r].kind, q.arg = requests[r].arg,
               q.session = requests[r].session
        PROVE  /\ requests' \in Seq(RequestType) /\ DOMAIN requests' = DOMAIN requests
               /\ \A p \in DOMAIN requests : p # r => requests'[p] = requests[p]
               /\ requests'[r] \in RequestType
               /\ requests'[r].kind = requests[r].kind
               /\ requests'[r].arg = requests[r].arg
               /\ requests'[r].session = requests[r].session
    BY <1>1, <1>3
  <1>4. CASE \E s \in {"fresh", "loaded", "recorded", "submitted", "mismatch",
                       "taken", "consumed", "over"} : D!ToStep(r, s)
    <2>1. PICK s \in {"fresh", "loaded", "recorded", "submitted", "mismatch",
                      "taken", "consumed", "over"} :
            requests' = [requests EXCEPT ![r] = [requests[r] EXCEPT !.step = s]]
      BY <1>4 DEF D!ToStep
    <2> DEFINE q == [requests[r] EXCEPT !.step = s]
    <2>2. q \in RequestType /\ q.kind = requests[r].kind
          /\ q.arg = requests[r].arg /\ q.session = requests[r].session
      BY <1>2 DEF RequestType
    <2>3. QED
      BY <1>1, <1>3, <2>1, <2>2
  <1>5. CASE D!LoadCached(r) \/ D!ReadBucket(r)
    <2>1. requests[r].session \in D!Ids
      BY <1>1, <1>5 DEF D!LoadCached, D!ReadBucket, D!Loading, StoreInv, Fits
    <2>2. PICK s \in {"loaded", "read", "over"}, c \in RecordType :
            requests' = [requests EXCEPT ![r] = [requests[r] EXCEPT !.step = s, !.read = c]]
      <3>1. CASE D!LoadCached(r)
        <4>1. requests' = [requests EXCEPT ![r].step = "loaded",
                                           ![r].read = cache[requests[r].session]]
          BY <3>1 DEF D!LoadCached, D!Session
        <4>2. cache[requests[r].session] \in RecordType
          BY <2>1 DEF StoreInv
        <4>3. requests' = [requests EXCEPT ![r] =
                             [requests[r] EXCEPT !.step = "loaded",
                                                 !.read = cache[requests[r].session]]]
          BY <1>1, <4>1
        <4>4. QED
          BY <4>2, <4>3
      <3>2. CASE D!ReadBucket(r)
        <4>1. PICK s \in {"read", "over"} :
                requests' = [requests EXCEPT ![r].step = s,
                                             ![r].read = bucket[requests[r].session]]
          BY <3>2 DEF D!ReadBucket, D!Session
        <4>2. bucket[requests[r].session] \in RecordType
          BY <2>1 DEF StoreInv
        <4>3. requests' = [requests EXCEPT ![r] =
                             [requests[r] EXCEPT !.step = s,
                                                 !.read = bucket[requests[r].session]]]
          BY <1>1, <4>1
        <4>4. QED
          BY <4>2, <4>3
      <3>3. QED
        BY <1>5, <3>1, <3>2
    <2> DEFINE q == [requests[r] EXCEPT !.step = s, !.read = c]
    <2>3. q \in RequestType /\ q.kind = requests[r].kind
          /\ q.arg = requests[r].arg /\ q.session = requests[r].session
      BY <1>2 DEF RequestType
    <2>4. QED
      BY <1>1, <1>3, <2>2, <2>3
  <1>6. CASE D!TakeFetchSession(r) /\ ~D!ToStep(r, "over")
    <2> DEFINE s == Head(requests[r].list)
               q == [requests[r] EXCEPT !.list = Tail(requests[r].list),
                       !.read = [present |-> TRUE,
                                 chunks |-> Append(requests[r].read.chunks, s)]]
    <2>1. requests' = [requests EXCEPT ![r] = q] /\ requests[r].list # << >>
      BY <1>6 DEF D!TakeFetchSession, D!Record
    <2>2. s \in Items /\ Tail(requests[r].list) \in Seq(Items)
      BY <1>2, <2>1 DEF RequestType
    <2>3. Append(requests[r].read.chunks, s) \in Seq(Items)
      BY <1>2, <2>2 DEF RequestType, RecordType
    <2>4. q \in RequestType /\ q.kind = requests[r].kind
          /\ q.arg = requests[r].arg /\ q.session = requests[r].session
      BY <1>2, <2>2, <2>3 DEF RequestType, RecordType
    <2>5. QED
      BY <1>1, <1>3, <2>1, <2>4
  <1>7. CASE D!CheckReplay(r, "open") \/ D!CheckReplay(r, "range")
    BY <1>4, <1>7 DEF D!CheckReplay
  <1>8. CASE D!OpenSession(r) \/ D!ServeRange(r) \/ D!FillCache(r) \/ D!LoadExpired(r)
    BY <1>4, <1>8 DEF D!OpenSession, D!ServeRange, D!FillCache, D!LoadExpired
  <1>9. CASE D!AppendChunk(r) \/ D!AppendFails(r) \/ D!ServeChunk(r) \/ D!CheckReceipt(r)
    BY <1>4, <1>9 DEF D!AppendChunk, D!AppendFails, D!ServeChunk, D!CheckReceipt
  <1>10. CASE D!TakeSession(r) \/ D!DropCache(r) \/ D!SubmitFails(r) \/ D!SubmitReceipts(r)
    BY <1>4, <1>10 DEF D!TakeSession, D!DropCache, D!SubmitFails, D!SubmitReceipts
  <1>11. QED
    BY <1>4, <1>5, <1>6, <1>7, <1>8, <1>9, <1>10 DEF D!Step, D!Load

\* A request that takes a step is under way; one that opened a session is over.
LEMMA StepActive ==
    ASSUME StoreInv, NEW r \in D!Ids, D!Step(r)
    PROVE  /\ requests[r].step \notin {"over", "mismatch", "consumed"}
           /\ requests[r].step = "taken" => D!DropCache(r)
           /\ r \notin DOMAIN opened
  <1>1. D!DropCache(r) \/ requests[r].step \in {"begun", "fresh", "read", "loaded",
                                                "recorded", "submitted"}
    BY DEF D!Step, D!CheckReplay, D!OpenSession, D!ServeRange, D!Load, D!LoadCached,
           D!ReadBucket, D!FillCache, D!LoadExpired, D!AppendChunk, D!AppendFails,
           D!ServeChunk, D!CheckReceipt, D!TakeSession, D!SubmitFails,
           D!TakeFetchSession, D!SubmitReceipts, D!Current
  <1>2. D!DropCache(r) => requests[r].step = "taken"
    BY DEF D!DropCache, D!Current
  <1>3. QED
    BY <1>1, <1>2 DEF StoreInv

\* The session of a request that loads one.
LEMMA SessionKnown ==
    ASSUME StoreInv, NEW r \in DOMAIN requests,
           requests[r].kind \in {"fetch", "receipt"}
    PROVE  /\ requests[r].session \in D!Ids
           /\ requests[r].session \in DOMAIN opened
           /\ ToSet(requests[r].read.chunks) \subseteq Chunks
           /\ requests[r].read \in RecordType
  <1>1. Fits(requests[r]) /\ requests[r] \in RequestType
    BY DEF StoreInv
  <1>2. requests[r].session \in DOMAIN opened
    BY <1>1 DEF Fits
  <1>3. QED
    BY <1>1, <1>2 DEF StoreInv, Fits, RequestType

\* What is left to show of a step that opens no session.
LEMMA StoreKept ==
    ASSUME StoreInv, NEW r \in D!Ids, D!Step(r),
           UNCHANGED <<opened, expired, crashes>>,
           Fits(requests[r])',
           replays' \subseteq Nonces, single' \subseteq single,
           bucket' \in [D!Ids -> RecordType], cache' \in [D!Ids -> RecordType],
           \A s \in D!Ids : ToSet(bucket'[s].chunks) \cup ToSet(cache'[s].chunks)
                              \subseteq Chunks,
           got' \in [D!Ids -> SUBSET Chunks],
           \A s \in D!Ids : IsFiniteSet(got'[s]) /\ (got'[s] # {} => s \in DOMAIN opened),
           claims' \in [D!Ids -> Nat]
    PROVE  StoreInv'
  <1>1. /\ r \in DOMAIN requests
        /\ requests' \in Seq(RequestType) /\ DOMAIN requests' = DOMAIN requests
        /\ \A q \in DOMAIN requests : q # r => requests'[q] = requests[q]
    BY StepMoves
  <1>2. r \notin DOMAIN opened
    BY StepActive
  <1>3. \A q \in DOMAIN requests' : Fits(requests[q])'
    BY <1>1 DEF StoreInv, Fits
  <1>4. \A s \in DOMAIN opened' : /\ s \in DOMAIN requests'
                                  /\ opened'[s] = {requests'[s].arg}
                                  /\ requests'[s].kind \in {"open", "range"}
                                  /\ requests'[s].step = "over"
    BY <1>1, <1>2 DEF StoreInv
  <1>5. QED
    BY <1>1, <1>3, <1>4 DEF StoreInv

LEMMA StoreReplay ==
    ASSUME StoreInv, NEW r \in D!Ids, D!Step(r), NEW k \in {"open", "range"},
           D!CheckReplay(r, k)
    PROVE  StoreInv'
  <1>1. /\ UNCHANGED <<bucket, cache, single, expired, got, opened, claims, crashes>>
        /\ r \in DOMAIN requests /\ requests[r].kind = k
        /\ replays' \subseteq replays \cup {requests[r].arg}
    BY DEF D!CheckReplay, D!Current
  <1>2. requests[r].arg \in Nonces /\ requests[r] \in RequestType
    BY <1>1 DEF StoreInv, Fits
  <1>3. /\ requests'[r].kind = k /\ requests'[r].arg \in Nonces
        /\ requests'[r].step \in {"fresh", "over"}
    BY <1>1, <1>2, Stepped DEF D!CheckReplay
  <1>4. Fits(requests[r])'
    BY <1>3 DEF Fits
  <1>5. QED
    BY <1>1, <1>2, <1>4, StoreKept DEF StoreInv

\* A session is opened, and the request that opens it is over.
LEMMA StoreOpen ==
    ASSUME StoreInv, NEW r \in D!Ids, D!Step(r), D!OpenSession(r) \/ D!ServeRange(r)
    PROVE  StoreInv'
  <1>1. /\ r \in DOMAIN requests /\ requests[r].kind \in {"open", "range"}
        /\ D!ToStep(r, "over")
        /\ D!Opened(r)
        /\ UNCHANGED <<replays, got, claims, crashes>>
        /\ single' \subseteq single \cup {r} /\ expired' \subseteq expired \cup {r}
    BY DEF D!OpenSession, D!ServeRange, D!Current
  <1>2. /\ requests' \in Seq(RequestType) /\ DOMAIN requests' = DOMAIN requests
        /\ \A q \in DOMAIN requests : q # r => requests'[q] = requests[q]
        /\ requests'[r].kind = requests[r].kind /\ requests'[r].arg = requests[r].arg
    BY StepMoves
  <1>3. requests'[r].step = "over"
    BY <1>1, Stepped
  <1>4. /\ DOMAIN opened' = DOMAIN opened \cup {r}
        /\ \A s \in DOMAIN opened' : opened'[s] = {requests'[s].arg}
    <2>1. opened' = [s \in DOMAIN opened \cup {r} |->
                       IF s = r THEN {requests[r].arg} ELSE opened[s]]
      BY <1>1 DEF D!Opened
    <2>2. \A s \in DOMAIN opened : s \in DOMAIN requests /\ opened[s] = {requests[s].arg}
      BY DEF StoreInv
    <2>3. QED
      BY <1>1, <1>2, <2>1, <2>2
  <1>5. \A s \in DOMAIN opened' : /\ s \in DOMAIN requests'
                                  /\ requests'[s].kind \in {"open", "range"}
                                  /\ requests'[s].step = "over"
    BY <1>1, <1>2, <1>3, <1>4 DEF StoreInv
  <1>6. Fits(requests[r])'
    BY <1>1, <1>2, <1>3 DEF StoreInv, Fits
  <1>7. \A q \in DOMAIN requests' : Fits(requests[q])'
    <2>1. ASSUME NEW q \in DOMAIN requests, q # r PROVE Fits(requests[q])'
      <3>1. Fits(requests[q]) /\ requests'[q] = requests[q]
        BY <1>2, <2>1 DEF StoreInv
      <3>2. QED
        BY <1>4, <3>1 DEF Fits
    <2>2. QED
      BY <1>2, <1>6, <2>1
  <1>8. /\ bucket' \in [D!Ids -> RecordType] /\ cache' \in [D!Ids -> RecordType]
        /\ \A s \in D!Ids : ToSet(bucket'[s].chunks) \cup ToSet(cache'[s].chunks)
                              \subseteq Chunks
    <2>1. CASE D!ServeRange(r)
      BY <2>1 DEF D!ServeRange, StoreInv
    <2>2. CASE D!OpenSession(r)
      <3>1. /\ bucket' = [bucket EXCEPT ![r] = [present |-> TRUE, chunks |-> << >>]]
            /\ cache' = [cache EXCEPT ![r] = [present |-> TRUE, chunks |-> << >>]]
        BY <2>2 DEF D!OpenSession, D!Record
      <3>2. [present |-> TRUE, chunks |-> << >>] \in RecordType
        BY DEF RecordType
      <3>3. QED
        BY <3>1, <3>2, ToSetEmpty DEF StoreInv
    <2>3. QED
      BY <2>1, <2>2
  <1>9. QED
    BY <1>1, <1>2, <1>4, <1>5, <1>7, <1>8 DEF StoreInv

\* What a request has read when it has loaded its session.
LEMMA Loaded ==
    ASSUME StoreInv, NEW r \in DOMAIN requests
    PROVE  /\ D!LoadCached(r) => /\ requests'[r].step = "loaded"
                                 /\ requests'[r].read = cache[requests[r].session]
                                 /\ requests'[r].list = requests[r].list
           /\ D!ReadBucket(r) => /\ requests'[r].step =
                                      IF bucket[requests[r].session].present
                                      THEN "read" ELSE "over"
                                 /\ requests'[r].read = bucket[requests[r].session]
                                 /\ requests'[r].list = requests[r].list
  <1>1. requests \in Seq(RequestType) /\ requests[r] \in RequestType
    BY DEF StoreInv
  <1>2. ASSUME NEW a, NEW b,
               requests' = [requests EXCEPT ![r].step = a, ![r].read = b]
        PROVE  requests'[r].step = a /\ requests'[r].read = b
               /\ requests'[r].list = requests[r].list
    BY <1>1, <1>2 DEF RequestType
  <1>3. QED
    BY <1>2 DEF D!LoadCached, D!ReadBucket, D!Session

LEMMA StoreLoad ==
    ASSUME StoreInv, NEW r \in D!Ids, D!Step(r), D!Load(r) PROVE StoreInv'
  <1>1. r \in DOMAIN requests /\ requests[r].kind \in {"fetch", "receipt"}
    BY DEF D!Load, D!LoadCached, D!ReadBucket, D!FillCache, D!LoadExpired, D!Loading
  <1> DEFINE s == requests[r].session
  <1>2. /\ s \in D!Ids /\ s \in DOMAIN opened
        /\ requests[r].read \in RecordType /\ ToSet(requests[r].read.chunks) \subseteq Chunks
    BY <1>1, SessionKnown
  <1>3. /\ requests'[r].kind = requests[r].kind /\ requests'[r].arg = requests[r].arg
        /\ requests'[r].session = s
    BY StepMoves
  <1>4. ASSUME UNCHANGED opened, ToSet(requests'[r].read.chunks) \subseteq Chunks
        PROVE  Fits(requests[r])'
    BY <1>1, <1>2, <1>3, <1>4 DEF StoreInv, Fits
  <1>5. CASE D!LoadCached(r) \/ D!ReadBucket(r)
    <2>1. UNCHANGED <<replays, bucket, cache, single, expired, got, opened, claims, crashes>>
      BY <1>5 DEF D!LoadCached, D!ReadBucket, D!storeVars
    <2>2. ToSet(requests'[r].read.chunks) \subseteq Chunks
      BY <1>1, <1>2, <1>5, Loaded DEF StoreInv
    <2>3. Fits(requests[r])'
      BY <1>4, <2>1, <2>2
    <2>4. QED
      BY <2>1, <2>3, StoreKept DEF StoreInv
  <1>6. CASE D!FillCache(r)
    <2>1. /\ cache' = [cache EXCEPT ![s] = requests[r].read] /\ D!ToStep(r, "loaded")
          /\ UNCHANGED <<replays, bucket, single, expired, got, opened, claims, crashes>>
      BY <1>6 DEF D!FillCache, D!Session
    <2>2. Fits(requests[r])'
      BY <1>1, <1>2, <1>4, <2>1, Stepped
    <2>3. /\ cache' \in [D!Ids -> RecordType]
          /\ \A u \in D!Ids : ToSet(cache'[u].chunks) \subseteq Chunks
      BY <1>2, <2>1 DEF StoreInv
    <2>4. QED
      BY <2>1, <2>2, <2>3, StoreKept DEF StoreInv
  <1>7. CASE D!LoadExpired(r)
    <2>1. /\ cache' = [cache EXCEPT ![s] = [present |-> FALSE, chunks |-> << >>]]
          /\ bucket' = [bucket EXCEPT ![s] = [present |-> FALSE, chunks |-> << >>]]
          /\ D!ToStep(r, "over")
          /\ UNCHANGED <<replays, single, expired, got, opened, claims, crashes>>
      BY <1>7 DEF D!LoadExpired, D!Session, D!Absent
    <2>2. Fits(requests[r])'
      BY <1>1, <1>2, <1>4, <2>1, Stepped
    <2>3. [present |-> FALSE, chunks |-> << >>] \in RecordType
      BY DEF RecordType
    <2>4. /\ cache' \in [D!Ids -> RecordType] /\ bucket' \in [D!Ids -> RecordType]
          /\ \A u \in D!Ids : ToSet(bucket'[u].chunks) \cup ToSet(cache'[u].chunks)
                                \subseteq Chunks
      BY <1>2, <2>1, <2>3, ToSetEmpty DEF StoreInv
    <2>5. QED
      BY <2>1, <2>2, <2>4, StoreKept DEF StoreInv
  <1>8. QED
    BY <1>5, <1>6, <1>7 DEF D!Load

LEMMA StoreChunk ==
    ASSUME StoreInv, NEW r \in D!Ids, D!Step(r),
           D!AppendChunk(r) \/ D!AppendFails(r) \/ D!ServeChunk(r)
    PROVE  StoreInv'
  <1>1. r \in DOMAIN requests /\ requests[r].kind = "fetch"
    BY DEF D!AppendChunk, D!AppendFails, D!ServeChunk, D!Current
  <1> DEFINE s == requests[r].session
             c == requests[r].arg
  <1>2. /\ s \in D!Ids /\ s \in DOMAIN opened
        /\ ToSet(requests[r].read.chunks) \subseteq Chunks
    BY <1>1, SessionKnown
  <1>3. c \in Chunks
    BY <1>1 DEF StoreInv, Fits
  <1>4. ASSUME UNCHANGED opened, \E a : D!ToStep(r, a) PROVE Fits(requests[r])'
    <2>1. PICK a : D!ToStep(r, a)
      BY <1>4
    <2>2. /\ requests'[r].kind = "fetch" /\ requests'[r].arg = c
          /\ requests'[r].session = s /\ requests'[r].read = requests[r].read
      BY <1>1, <2>1, Stepped
    <2>3. QED
      BY <1>2, <1>3, <1>4, <2>2 DEF Fits
  <1>5. CASE D!AppendChunk(r)
    <2> DEFINE new == [present |-> TRUE, chunks |-> Append(bucket[s].chunks, c)]
    <2>1. /\ bucket' = [bucket EXCEPT ![s] = new] /\ cache' = [cache EXCEPT ![s] = new]
          /\ D!ToStep(r, "recorded")
          /\ UNCHANGED <<replays, single, expired, got, opened, claims, crashes>>
      BY <1>5 DEF D!AppendChunk, D!Session, D!Record
    <2>2. bucket[s].chunks \in Seq(Items) /\ c \in Items
      BY <1>2, <1>3 DEF StoreInv, RecordType, Items
    <2>3. new \in RecordType /\ ToSet(new.chunks) \subseteq Chunks
      BY <1>2, <1>3, <2>2, ToSetAppend DEF StoreInv, RecordType
    <2>4. Fits(requests[r])'
      BY <1>4, <2>1
    <2> HIDE DEF new
    <2>5. /\ cache' \in [D!Ids -> RecordType] /\ bucket' \in [D!Ids -> RecordType]
          /\ \A u \in D!Ids : ToSet(bucket'[u].chunks) \cup ToSet(cache'[u].chunks)
                                \subseteq Chunks
      BY <1>2, <2>1, <2>3 DEF StoreInv
    <2>6. QED
      BY <2>1, <2>4, <2>5, StoreKept DEF StoreInv
  <1>6. CASE D!AppendFails(r)
    <2>1. /\ cache' = [cache EXCEPT ![s] = IF bucket[s].present
                                           THEN [present |-> FALSE, chunks |-> << >>]
                                           ELSE cache[s]]
          /\ D!ToStep(r, "over")
          /\ UNCHANGED <<replays, bucket, single, expired, got, opened, claims, crashes>>
      BY <1>6 DEF D!AppendFails, D!Session, D!Absent
    <2>2. [present |-> FALSE, chunks |-> << >>] \in RecordType
      BY DEF RecordType
    <2>3. /\ cache' \in [D!Ids -> RecordType]
          /\ \A u \in D!Ids : ToSet(cache'[u].chunks) \subseteq Chunks
      BY <1>2, <2>1, <2>2, ToSetEmpty DEF StoreInv
    <2>4. Fits(requests[r])'
      BY <1>4, <2>1
    <2>5. QED
      BY <2>1, <2>3, <2>4, StoreKept DEF StoreInv
  <1>7. CASE D!ServeChunk(r)
    <2>1. /\ got' = [got EXCEPT ![s] = got[s] \cup {c}]
          /\ D!ToStep(r, "over")
          /\ UNCHANGED <<replays, bucket, cache, single, expired, opened, claims, crashes>>
      BY <1>7 DEF D!ServeChunk, D!Session, D!storeVars
    <2>2. IsFiniteSet(got[s] \cup {c})
      <3>1. IsFiniteSet(got[s])
        BY <1>2 DEF StoreInv
      <3>2. QED
        BY <3>1, FS_AddElement
    <2>3. /\ got' \in [D!Ids -> SUBSET Chunks]
          /\ \A u \in D!Ids : IsFiniteSet(got'[u]) /\ (got'[u] # {} => u \in DOMAIN opened)
      <3>1. got \in [D!Ids -> SUBSET Chunks]
        BY DEF StoreInv
      <3>2. /\ got' \in [D!Ids -> SUBSET Chunks] /\ got'[s] = got[s] \cup {c}
            /\ \A u \in D!Ids : u # s => got'[u] = got[u]
        BY <1>2, <1>3, <2>1, <3>1
      <3>3. QED
        BY <1>2, <2>2, <3>2 DEF StoreInv
    <2>4. Fits(requests[r])'
      BY <1>4, <2>1
    <2>5. QED
      BY <2>1, <2>3, <2>4, StoreKept DEF StoreInv
  <1>8. QED
    BY <1>5, <1>6, <1>7

LEMMA StoreReceipt ==
    ASSUME StoreInv, NEW r \in D!Ids, D!Step(r),
           D!CheckReceipt(r) \/ D!TakeSession(r) \/ D!DropCache(r) \/ D!SubmitFails(r)
    PROVE  StoreInv'
  <1>1. /\ r \in DOMAIN requests /\ requests[r].kind = "receipt"
        /\ UNCHANGED <<replays, single, expired, got, opened, claims, crashes>>
        /\ \E a : D!ToStep(r, a)
    BY DEF D!CheckReceipt, D!TakeSession, D!DropCache, D!SubmitFails, D!Current,
           D!storeVars
  <1> DEFINE s == requests[r].session
             none == [present |-> FALSE, chunks |-> << >>]
  <1>2. /\ s \in D!Ids /\ s \in DOMAIN opened
        /\ ToSet(requests[r].read.chunks) \subseteq Chunks
    BY <1>1, SessionKnown
  <1>3. Fits(requests[r])'
    <2>1. PICK a : D!ToStep(r, a)
      BY <1>1
    <2>2. /\ requests'[r].kind = "receipt" /\ requests'[r].session = s
          /\ requests'[r].read = requests[r].read
      BY <1>1, <2>1, Stepped
    <2>3. QED
      BY <1>1, <1>2, <2>2 DEF Fits
  <1>4. none \in RecordType /\ ToSet(none.chunks) = {}
    BY ToSetEmpty DEF RecordType
  <1>5. /\ bucket' \in {bucket, [bucket EXCEPT ![s] = none]}
        /\ cache' \in {cache, [cache EXCEPT ![s] = none]}
    BY DEF D!CheckReceipt, D!TakeSession, D!DropCache, D!SubmitFails, D!storeVars,
           D!Session, D!Absent
  <1> HIDE DEF none
  <1>6. /\ cache' \in [D!Ids -> RecordType] /\ bucket' \in [D!Ids -> RecordType]
        /\ \A u \in D!Ids : ToSet(bucket'[u].chunks) \cup ToSet(cache'[u].chunks)
                              \subseteq Chunks
    <2>1. ASSUME NEW m \in [D!Ids -> RecordType],
                 \A u \in D!Ids : ToSet(m[u].chunks) \subseteq Chunks
          PROVE  /\ [m EXCEPT ![s] = none] \in [D!Ids -> RecordType]
                 /\ \A u \in D!Ids : ToSet([m EXCEPT ![s] = none][u].chunks) \subseteq Chunks
      BY <1>2, <1>4, <2>1
    <2>2. /\ bucket \in [D!Ids -> RecordType] /\ cache \in [D!Ids -> RecordType]
          /\ \A u \in D!Ids : ToSet(bucket[u].chunks) \subseteq Chunks
          /\ \A u \in D!Ids : ToSet(cache[u].chunks) \subseteq Chunks
      BY DEF StoreInv
    <2>3. /\ bucket' \in [D!Ids -> RecordType]
          /\ \A u \in D!Ids : ToSet(bucket'[u].chunks) \subseteq Chunks
      BY <1>5, <2>1, <2>2
    <2>4. /\ cache' \in [D!Ids -> RecordType]
          /\ \A u \in D!Ids : ToSet(cache'[u].chunks) \subseteq Chunks
      BY <1>5, <2>1, <2>2
    <2>5. QED
      BY <2>3, <2>4
  <1>7. QED
    BY <1>1, <1>3, <1>6, StoreKept DEF StoreInv

\* A claim goes through its list: the head is taken and kept with what was read.
LEMMA Claimed ==
    ASSUME StoreInv, NEW r \in DOMAIN requests, D!TakeFetchSession(r)
    PROVE  LET s == Head(requests[r].list) IN
           /\ requests[r].kind = "claim" /\ requests[r].step = "begun"
           /\ s \in DOMAIN opened /\ ToSet(Tail(requests[r].list)) \subseteq DOMAIN opened
           /\ single' = single \ {s}
           /\ \/ s \in single \ expired
                 /\ requests'[r].kind = "claim" /\ requests'[r].step = "begun"
                 /\ requests'[r].list = Tail(requests[r].list)
                 /\ requests'[r].read.chunks = Append(requests[r].read.chunks, s)
              \/ D!ToStep(r, "over")
           /\ UNCHANGED <<replays, bucket, cache, expired, got, opened, claims, crashes>>
  <1> DEFINE s == Head(requests[r].list)
  <1>1. /\ requests \in Seq(RequestType) /\ requests[r] \in RequestType
        /\ requests[r].kind = "claim" /\ requests[r].step = "begun"
        /\ requests[r].list # << >> /\ requests[r].list \in Seq(Items)
        /\ single' = single \ {s}
        /\ UNCHANGED <<replays, bucket, cache, expired, got, opened, claims, crashes>>
    <2>1. requests \in Seq(RequestType) /\ requests[r] \in RequestType
      BY DEF StoreInv
    <2>2. requests[r].list \in Seq(Items)
      BY <2>1 DEF RequestType
    <2>3. QED
      BY <2>1, <2>2 DEF D!TakeFetchSession, D!Current
  <1>2. ToSet(requests[r].list) \subseteq DOMAIN opened
    BY <1>1 DEF StoreInv, Fits
  <1>3. s \in ToSet(requests[r].list)
    BY <1>1 DEF ToSet
  <1>4. ToSet(Tail(requests[r].list)) \subseteq ToSet(requests[r].list)
    <2>1. ASSUME NEW i \in DOMAIN Tail(requests[r].list)
          PROVE  i + 1 \in DOMAIN requests[r].list
                 /\ Tail(requests[r].list)[i] = requests[r].list[i + 1]
      BY <1>1, <2>1
    <2>2. QED
      BY <2>1 DEF ToSet
  <1>5. ~D!ToStep(r, "over") =>
          /\ s \in single \ expired
          /\ requests' = [requests EXCEPT ![r].list = Tail(requests[r].list),
                                          ![r].read = [present |-> TRUE,
                                                       chunks |-> Append(requests[r].read.chunks, s)]]
    BY DEF D!TakeFetchSession, D!Record
  <1>6. ~D!ToStep(r, "over") =>
          /\ requests'[r].kind = "claim" /\ requests'[r].step = "begun"
          /\ requests'[r].list = Tail(requests[r].list)
          /\ requests'[r].read.chunks = Append(requests[r].read.chunks, s)
    <2> DEFINE a == Tail(requests[r].list)
               b == [present |-> TRUE, chunks |-> Append(requests[r].read.chunks, s)]
    <2>1. SUFFICES ASSUME ~D!ToStep(r, "over")
                   PROVE  /\ requests'[r].kind = "claim" /\ requests'[r].step = "begun"
                          /\ requests'[r].list = a /\ requests'[r].read = b
      OBVIOUS
    <2>2. requests' = [requests EXCEPT ![r].list = a, ![r].read = b]
      BY <1>5, <2>1
    <2> HIDE DEF a, b
    <2>3. QED
      BY <1>1, <2>2 DEF RequestType
  <1>7. QED
    BY <1>1, <1>2, <1>3, <1>4, <1>5, <1>6

LEMMA StoreClaim ==
    ASSUME StoreInv, NEW r \in D!Ids, D!Step(r),
           D!TakeFetchSession(r) \/ D!SubmitReceipts(r)
    PROVE  StoreInv'
  <1>1. /\ r \in DOMAIN requests /\ requests[r].kind = "claim"
        /\ requests[r] \in RequestType
        /\ ToSet(requests[r].list) \subseteq DOMAIN opened
        /\ ToSet(requests[r].read.chunks) \subseteq DOMAIN opened
    BY DEF D!TakeFetchSession, D!SubmitReceipts, D!Current, StoreInv, Fits
  <1>2. ASSUME D!ToStep(r, "over"), UNCHANGED opened PROVE Fits(requests[r])'
    BY <1>1, <1>2, Stepped DEF Fits
  <1>3. CASE D!TakeFetchSession(r)
    <2> DEFINE s == Head(requests[r].list)
    <2>1. /\ s \in DOMAIN opened /\ ToSet(Tail(requests[r].list)) \subseteq DOMAIN opened
          /\ single' = single \ {s}
          /\ UNCHANGED <<replays, bucket, cache, expired, got, opened, claims, crashes>>
      BY <1>1, <1>3, Claimed
    <2>2. CASE ~D!ToStep(r, "over")
      <3>1. /\ requests'[r].kind = "claim"
            /\ requests'[r].list = Tail(requests[r].list)
            /\ requests'[r].read.chunks = Append(requests[r].read.chunks, s)
        BY <1>1, <1>3, <2>2, Claimed
      <3>2. s \in Items /\ requests[r].read.chunks \in Seq(Items)
        BY <1>1, <2>1 DEF StoreInv, Items, RequestType, RecordType
      <3>3. ToSet(requests'[r].read.chunks) = ToSet(requests[r].read.chunks) \cup {s}
        BY <3>1, <3>2, ToSetAppend
      <3>4. Fits(requests[r])'
        BY <1>1, <2>1, <3>1, <3>3 DEF Fits
      <3>5. QED
        BY <2>1, <3>4, StoreKept DEF StoreInv
    <2>3. CASE D!ToStep(r, "over")
      BY <1>2, <2>1, <2>3, StoreKept DEF StoreInv
    <2>4. QED
      BY <2>2, <2>3
  <1>4. CASE D!SubmitReceipts(r)
    <2>1. /\ D!ToStep(r, "over")
          /\ UNCHANGED <<replays, bucket, cache, single, expired, got, opened, crashes>>
          /\ claims' = [s \in D!Ids |->
                claims[s] + Cardinality({i \in DOMAIN requests[r].read.chunks :
                                           requests[r].read.chunks[i] = s})]
      BY <1>4, CardinalitySame DEF D!SubmitReceipts, D!storeVars
    <2>2. \A s : Cardinality({i \in DOMAIN requests[r].read.chunks :
                                requests[r].read.chunks[i] = s}) \in Nat
      <3>1. IsFiniteSet(DOMAIN requests[r].read.chunks)
        <4>1. requests[r].read.chunks \in Seq(Items)
          BY <1>1 DEF RequestType, RecordType
        <4>2. DOMAIN requests[r].read.chunks = 1 .. Len(requests[r].read.chunks)
              /\ Len(requests[r].read.chunks) \in Nat
          BY <4>1
        <4>3. QED
          BY <4>2, FS_Interval
      <3>2. TAKE s
      <3>3. IsFiniteSet({i \in DOMAIN requests[r].read.chunks :
                           requests[r].read.chunks[i] = s})
        BY <3>1, FS_Subset
      <3>4. QED
        BY <3>3, FS_CardinalityType
    <2>3. claims' \in [D!Ids -> Nat]
      <3>1. claims \in [D!Ids -> Nat]
        BY DEF StoreInv
      <3> DEFINE n(s) == Cardinality({i \in DOMAIN requests[r].read.chunks :
                                        requests[r].read.chunks[i] = s})
      <3>2. claims' = [s \in D!Ids |-> claims[s] + n(s)] /\ \A s : n(s) \in Nat
        BY <2>1, <2>2
      <3> HIDE DEF n
      <3>3. QED
        BY <3>1, <3>2
    <2>4. QED
      BY <1>2, <2>1, <2>3, StoreKept DEF StoreInv
  <1>5. QED
    BY <1>3, <1>4

\* A list of a set has the elements of the set.
LEMMA ListOfSet ==
    ASSUME NEW T, IsFiniteSet(T)
    PROVE  D!SetToSeq(T) \in Seq(T) /\ ToSet(D!SetToSeq(T)) \subseteq T
  <1>1. PICK n \in Nat : ExistsBijection(1 .. n, T)
    BY FS_NatBijection
  <1>2. D!Cardinality(T) = n
    BY <1>1, FS_CountingElements, CardinalitySame
  <1>3. PICK f \in [1 .. n -> T] : D!IsInjective(f)
    BY <1>1 DEF ExistsBijection, Bijection, Injection, IsInjective, D!IsInjective
  <1>4. D!SetToSeq(T) \in [1 .. n -> T]
    BY <1>2, <1>3 DEF D!SetToSeq
  <1>5. D!SetToSeq(T) \in Seq(T)
    BY <1>4
  <1>6. QED
    BY <1>4, <1>5 DEF ToSet

\* What a new request may be.
LEMMA Arrived ==
    ASSUME D!DownloadSessionsAssumption, StoreInv, D!Arrive
    PROVE  \E q \in RequestType :
             /\ requests' = Append(requests, q)
             /\ q.step = "begun" /\ q.read = [present |-> FALSE, chunks |-> << >>]
             /\ Fits(q)
             /\ q.kind = "receipt" => ToSet(q.list) \subseteq got[q.session]
             /\ q.kind = "fetch" => requests[q.session].kind = "open"
  <1> DEFINE none == [present |-> FALSE, chunks |-> << >>]
             new(kind, arg, session, list) ==
               [kind |-> kind, step |-> "begun", arg |-> arg, session |-> session,
                list |-> list, read |-> none]
  <1>1. none \in RecordType /\ none.chunks = << >>
    BY DEF RecordType
  <1> HIDE DEF none
  <1>2. PICK request :
          /\ requests' = Append(requests, request)
          /\ request.kind = "fetch" => requests[request.session].kind = "open"
          /\ \/ \E kind \in {"open", "range"}, n \in Nonces : request = new(kind, n, 0, << >>)
             \/ \E c \in Chunks, s \in DOMAIN opened : request = new("fetch", c, s, << >>)
             \/ \E s \in DOMAIN opened :
                  request = new("receipt", "all", s, D!SetToSeq(got[s]))
             \/ \E s \in DOMAIN opened : request = new("claim", "all", 0, <<s>>)
             \/ \E s, t \in DOMAIN opened : request = new("claim", "all", 0, <<s, t>>)
    BY DEF D!Arrive, D!Arrival, D!Absent, none
  <1>3. DOMAIN opened \subseteq D!Ids /\ D!Ids \subseteq Nat
    BY DEF StoreInv, D!Ids, D!DownloadSessionsAssumption
  <1>4. SUFFICES /\ request \in RequestType /\ Fits(request)
                 /\ request.step = "begun" /\ request.read = none
                 /\ request.kind = "receipt" => ToSet(request.list) \subseteq got[request.session]
    BY <1>2 DEF none
  <1>5. CASE \E kind \in {"open", "range"}, n \in Nonces : request = new(kind, n, 0, << >>)
    <2>1. PICK kind \in {"open", "range"}, n \in Nonces : request = new(kind, n, 0, << >>)
      BY <1>5
    <2>2. QED
      BY <1>1, <2>1 DEF RequestType, Fits
  <1>6. CASE \E c \in Chunks, s \in DOMAIN opened : request = new("fetch", c, s, << >>)
    <2>1. PICK c \in Chunks, s \in DOMAIN opened : request = new("fetch", c, s, << >>)
      BY <1>6
    <2>2. s \in Nat
      BY <1>3
    <2>3. QED
      BY <1>1, <2>1, <2>2, ToSetEmpty DEF RequestType, Fits
  <1>7. CASE \E s \in DOMAIN opened : request = new("receipt", "all", s, D!SetToSeq(got[s]))
    <2>1. PICK s \in DOMAIN opened : request = new("receipt", "all", s, D!SetToSeq(got[s]))
      BY <1>7
    <2>2. IsFiniteSet(got[s]) /\ got[s] \subseteq Items /\ s \in Nat
      BY <1>3 DEF StoreInv, Items
    <2>3. D!SetToSeq(got[s]) \in Seq(got[s]) /\ ToSet(D!SetToSeq(got[s])) \subseteq got[s]
      BY <2>2, ListOfSet
    <2>4. D!SetToSeq(got[s]) \in Seq(Items)
      BY <2>2, <2>3
    <2>5. QED
      BY <1>1, <2>1, <2>2, <2>3, <2>4, ToSetEmpty DEF RequestType, Fits
  <1>8. ASSUME NEW list \in Seq(Items), ToSet(list) \subseteq DOMAIN opened,
               request = new("claim", "all", 0, list)
        PROVE  /\ request \in RequestType /\ Fits(request)
               /\ request.step = "begun" /\ request.read = none
               /\ request.kind # "receipt"
    BY <1>1, <1>8, ToSetEmpty DEF RequestType, Fits
  <1>9. CASE \E s \in DOMAIN opened : request = new("claim", "all", 0, <<s>>)
    <2>1. PICK s \in DOMAIN opened : request = new("claim", "all", 0, <<s>>)
      BY <1>9
    <2>2. <<s>> \in Seq(Items) /\ ToSet(<<s>>) \subseteq DOMAIN opened
      BY <1>3 DEF ToSet, Items
    <2>3. QED
      BY <1>8, <2>1, <2>2
  <1>10. CASE \E s, t \in DOMAIN opened : request = new("claim", "all", 0, <<s, t>>)
    <2>1. PICK s \in DOMAIN opened, t \in DOMAIN opened :
            request = new("claim", "all", 0, <<s, t>>)
      BY <1>10
    <2>2. <<s, t>> \in Seq(Items) /\ ToSet(<<s, t>>) \subseteq DOMAIN opened
      BY <1>3 DEF ToSet, Items
    <2>3. QED
      BY <1>8, <2>1, <2>2
  <1>11. QED
    BY <1>2, <1>5, <1>6, <1>7, <1>9, <1>10

\* A new request comes after the others, which stay as they are.
LEMMA ArriveMoves ==
    ASSUME D!DownloadSessionsAssumption, StoreInv, D!Arrive
    PROVE  /\ UNCHANGED <<replays, bucket, cache, single, expired, got, opened, claims, crashes>>
           /\ requests' \in Seq(RequestType)
           /\ \E n \in D!Ids \ DOMAIN requests :
                /\ DOMAIN requests' = DOMAIN requests \cup {n}
                /\ \A r \in DOMAIN requests : requests'[r] = requests[r]
                /\ requests'[n].step = "begun"
                /\ requests'[n].read = [present |-> FALSE, chunks |-> << >>]
                /\ Fits(requests'[n])
                /\ requests'[n].kind = "receipt" =>
                     ToSet(requests'[n].list) \subseteq got[requests'[n].session]
                /\ requests'[n].kind = "fetch" => requests[requests'[n].session].kind = "open"
  <1>1. PICK q \in RequestType :
             /\ requests' = Append(requests, q)
             /\ q.step = "begun" /\ q.read = [present |-> FALSE, chunks |-> << >>]
             /\ Fits(q)
             /\ q.kind = "receipt" => ToSet(q.list) \subseteq got[q.session]
             /\ q.kind = "fetch" => requests[q.session].kind = "open"
    BY Arrived
  <1>2. requests \in Seq(RequestType) /\ Len(requests) < MaxRequests
    BY DEF StoreInv, D!Arrive
  <1> DEFINE n == Len(requests) + 1
  <1>3. n \in D!Ids \ DOMAIN requests
    BY <1>2 DEF D!Ids, D!DownloadSessionsAssumption
  <1>4. /\ requests' \in Seq(RequestType) /\ DOMAIN requests' = DOMAIN requests \cup {n}
        /\ requests'[n] = q /\ \A r \in DOMAIN requests : requests'[r] = requests[r]
    BY <1>1, <1>2
  <1>5. UNCHANGED <<replays, bucket, cache, single, expired, got, opened, claims, crashes>>
    BY DEF D!Arrive, D!storeVars
  <1> HIDE DEF n
  <1>6. QED
    BY <1>1, <1>3, <1>4, <1>5

\* A restart ends every request, or leaves it where it has ended.
LEMMA CrashMoves ==
    ASSUME StoreInv, D!Crash
    PROVE  /\ requests' \in Seq(RequestType) /\ DOMAIN requests' = DOMAIN requests
           /\ \A r \in DOMAIN requests :
                /\ requests'[r].step \in {"consumed", "over"}
                /\ requests'[r].step = "consumed" <=> requests[r].step \in {"taken", "consumed"}
                /\ requests'[r].kind = requests[r].kind /\ requests'[r].arg = requests[r].arg
                /\ requests'[r].session = requests[r].session
                /\ requests'[r].list = requests[r].list /\ requests'[r].read = requests[r].read
           /\ cache' = [s \in D!Ids |-> [present |-> FALSE, chunks |-> << >>]]
           /\ crashes < MaxCrashes /\ crashes' = crashes + 1
           /\ UNCHANGED <<replays, bucket, single, expired, got, opened, claims>>
  <1>1. /\ requests' = [r \in DOMAIN requests |->
                          [requests[r] EXCEPT !.step =
                             IF requests[r].step \in {"taken", "consumed"}
                             THEN "consumed" ELSE "over"]]
        /\ cache' = [s \in D!Ids |-> [present |-> FALSE, chunks |-> << >>]]
        /\ crashes < MaxCrashes /\ crashes' = crashes + 1
        /\ UNCHANGED <<replays, bucket, single, expired, got, opened, claims>>
    BY DEF D!Crash, D!Absent
  <1>2. requests \in Seq(RequestType)
    BY DEF StoreInv
  <1>3. ASSUME NEW r \in DOMAIN requests
        PROVE  /\ requests'[r] \in RequestType
               /\ requests'[r].step \in {"consumed", "over"}
               /\ requests'[r].step = "consumed" <=> requests[r].step \in {"taken", "consumed"}
               /\ requests'[r].kind = requests[r].kind /\ requests'[r].arg = requests[r].arg
               /\ requests'[r].session = requests[r].session
               /\ requests'[r].list = requests[r].list /\ requests'[r].read = requests[r].read
    <2>1. requests[r] \in RequestType
      BY <1>2, <1>3
    <2>2. requests'[r] = [requests[r] EXCEPT !.step =
                            IF requests[r].step \in {"taken", "consumed"}
                            THEN "consumed" ELSE "over"]
      BY <1>1, <1>3
    <2>3. QED
      BY <2>1, <2>2 DEF RequestType
  <1>4. requests' \in Seq(RequestType) /\ DOMAIN requests' = DOMAIN requests
    <2>1. DOMAIN requests = 1 .. Len(requests) /\ Len(requests) \in Nat
      BY <1>2
    <2>2. DOMAIN requests' = 1 .. Len(requests) /\ requests' = [r \in 1 .. Len(requests) |-> requests'[r]]
      BY <1>1, <2>1
    <2>3. QED
      BY <1>3, <2>1, <2>2
  <1>5. QED
    BY <1>1, <1>3, <1>4

LEMMA StoreStep ==
    ASSUME D!DownloadSessionsAssumption, StoreInv, [D!Next]_D!vars PROVE StoreInv'
  <1>1. CASE D!Arrive
    <2>1. UNCHANGED <<replays, bucket, cache, single, expired, got, opened, claims, crashes>>
      BY <1>1, ArriveMoves
    <2>2. PICK n \in D!Ids \ DOMAIN requests :
                /\ DOMAIN requests' = DOMAIN requests \cup {n}
                /\ \A r \in DOMAIN requests : requests'[r] = requests[r]
                /\ Fits(requests'[n])
      BY <1>1, ArriveMoves
    <2>3. \A r \in DOMAIN requests' : Fits(requests[r])'
      <3>1. \A r \in DOMAIN requests' : Fits(requests'[r])
        BY <2>2 DEF StoreInv
      <3>2. QED
        BY <2>1, <3>1 DEF Fits
    <2>4. requests' \in Seq(RequestType) /\ DOMAIN requests' \subseteq D!Ids
      BY <1>1, <2>2, ArriveMoves DEF StoreInv
    <2>5. \A s \in DOMAIN opened' : /\ s \in DOMAIN requests'
                                    /\ opened'[s] = {requests'[s].arg}
                                    /\ requests'[s].kind \in {"open", "range"}
                                    /\ requests'[s].step = "over"
      BY <2>1, <2>2 DEF StoreInv
    <2>6. QED
      BY <2>1, <2>3, <2>4, <2>5 DEF StoreInv
  <1>2. CASE D!NonceExpires \/ D!Expire
    <2>1. UNCHANGED <<replays, bucket, cache, single, requests, got, opened, claims, crashes>>
          /\ expired' \subseteq DOMAIN opened
      BY <1>2 DEF D!NonceExpires, D!Expire, D!storeVars, StoreInv
    <2>2. QED
      BY <2>1 DEF StoreInv, Fits
  <1>3. CASE D!Crash
    <2>1. UNCHANGED <<replays, bucket, single, expired, got, opened, claims>>
      BY <1>3, CrashMoves
    <2>2. /\ requests' \in Seq(RequestType) /\ DOMAIN requests' = DOMAIN requests
          /\ \A r \in DOMAIN requests :
                /\ requests'[r].step \in {"consumed", "over"}
                /\ requests'[r].step = "consumed" <=> requests[r].step \in {"taken", "consumed"}
                /\ requests'[r].kind = requests[r].kind /\ requests'[r].arg = requests[r].arg
                /\ requests'[r].session = requests[r].session
                /\ requests'[r].list = requests[r].list /\ requests'[r].read = requests[r].read
      BY <1>3, CrashMoves
    <2>3. \A r \in DOMAIN requests' : Fits(requests[r])'
      BY <2>1, <2>2 DEF StoreInv, Fits
    <2>4. \A s \in DOMAIN opened' : /\ s \in DOMAIN requests'
                                    /\ opened'[s] = {requests'[s].arg}
                                    /\ requests'[s].kind \in {"open", "range"}
                                    /\ requests'[s].step = "over"
      BY <2>1, <2>2 DEF StoreInv
    <2>5. /\ cache' \in [D!Ids -> RecordType]
          /\ \A s \in D!Ids : ToSet(cache'[s].chunks) \subseteq Chunks
      <3>1. cache' = [s \in D!Ids |-> [present |-> FALSE, chunks |-> << >>]]
        BY <1>3, CrashMoves
      <3>2. [present |-> FALSE, chunks |-> << >>] \in RecordType
        BY DEF RecordType
      <3>3. QED
        BY <3>1, <3>2, ToSetEmpty
    <2>6. crashes' \in 0 .. MaxCrashes
      BY <1>3, CrashMoves DEF StoreInv, D!DownloadSessionsAssumption
    <2>7. QED
      BY <2>1, <2>2, <2>3, <2>4, <2>5, <2>6 DEF StoreInv
  <1>4. ASSUME NEW r \in D!Ids, D!Step(r) PROVE StoreInv'
    BY <1>4, StoreReplay, StoreOpen, StoreLoad, StoreChunk, StoreReceipt, StoreClaim
       DEF D!Step
  <1>5. CASE UNCHANGED D!vars
    BY <1>5 DEF StoreInv, Fits, D!vars, D!storeVars
  <1>6. QED
    BY <1>1, <1>2, <1>3, <1>4, <1>5 DEF D!Next

\* A request that uses its nonce, or has used it.
Uses(r) ==
    /\ r \in DOMAIN requests
    /\ requests[r].kind \in {"open", "range"}
    /\ requests[r].step = "fresh" \/ r \in DOMAIN opened

\* The nonces in use are recorded, and no two requests use the same before it
\* expires.
NonceInv ==
    /\ \A r \in D!Ids : Uses(r) => requests[r].arg \in replays
    /\ \A r, q \in D!Ids : Uses(r) /\ Uses(q) /\ requests[r].arg = requests[q].arg =>
                             r = q \/ requests[r].arg \in past

\* Only requests that open a session look at the nonces.
LEMMA WhoOpens ==
    ASSUME NEW r \in D!Ids, D!Step(r)
    PROVE  \/ \E k \in {"open", "range"} : D!CheckReplay(r, k)
           \/ D!OpenSession(r)
           \/ D!ServeRange(r)
           \/ /\ requests[r].kind \in {"fetch", "receipt", "claim"}
              /\ UNCHANGED <<replays, opened>>
  BY DEF D!Step, D!Load, D!LoadCached, D!ReadBucket, D!FillCache, D!LoadExpired,
         D!AppendChunk, D!AppendFails, D!ServeChunk, D!CheckReceipt, D!TakeSession,
         D!DropCache, D!SubmitFails, D!TakeFetchSession, D!SubmitReceipts, D!Current,
         D!Loading, D!storeVars

\* Time does not go back.
LEMMA PastGrows ==
    ASSUME [D!Next]_D!vars
    PROVE  past \subseteq past' /\ (D!NonceExpires \/ UNCHANGED past)
  <1>1. \A r \in D!Ids : D!Step(r) => UNCHANGED past
    BY DEF D!Step, D!CheckReplay, D!OpenSession, D!ServeRange, D!Load, D!LoadCached,
           D!ReadBucket, D!FillCache, D!LoadExpired, D!AppendChunk, D!AppendFails,
           D!ServeChunk, D!CheckReceipt, D!TakeSession, D!DropCache, D!SubmitFails,
           D!TakeFetchSession, D!SubmitReceipts
  <1>2. QED
    BY <1>1 DEF D!Next, D!Arrive, D!NonceExpires, D!Expire, D!Crash, D!vars

LEMMA NonceStep ==
    ASSUME D!DownloadSessionsAssumption, StoreInv, NonceInv, [D!Next]_D!vars
    PROVE  NonceInv'
  <1>0. past \subseteq past'
    BY PastGrows
  <1>1. ASSUME NEW r \in D!Ids, D!Step(r) PROVE NonceInv'
    <2>1. /\ r \in DOMAIN requests /\ DOMAIN requests' = DOMAIN requests
          /\ \A q \in DOMAIN requests : q # r => requests'[q] = requests[q]
          /\ requests'[r].kind = requests[r].kind /\ requests'[r].arg = requests[r].arg
      BY <1>1, StepMoves
    <2>2. \A q \in DOMAIN requests : requests'[q].arg = requests[q].arg
      BY <2>1
    <2>3. CASE \E k \in {"open", "range"} : D!CheckReplay(r, k)
      <3>1. PICK k \in {"open", "range"} : D!CheckReplay(r, k)
        BY <2>3
      <3>2. UNCHANGED opened
        BY <3>1 DEF D!CheckReplay
      <3>3. \A q : q # r => (Uses(q)' <=> Uses(q))
        BY <2>1, <3>2 DEF Uses
      <3>4. CASE /\ requests[r].arg \notin replays \ past
                 /\ replays' = replays \cup {requests[r].arg}
        <4>1. UNCHANGED past
          BY <3>1 DEF D!CheckReplay
        <4>2. ASSUME NEW q \in D!Ids, q # r, Uses(q), requests[q].arg = requests[r].arg
              PROVE  requests[r].arg \in past
          BY <3>4, <4>2 DEF NonceInv
        <4>3. QED
          BY <1>0, <2>1, <2>2, <3>3, <3>4, <4>1, <4>2 DEF NonceInv, Uses
      <3>5. CASE D!ToStep(r, "over") /\ UNCHANGED replays
        <4>1. ~Uses(r)'
          BY <1>1, <2>1, <3>2, <3>5, Stepped, StepActive DEF Uses
        <4>2. QED
          BY <1>0, <2>1, <2>2, <3>3, <3>5, <4>1 DEF NonceInv, Uses
      <3>6. QED
        BY <3>1, <3>4, <3>5 DEF D!CheckReplay
    <2>4. CASE D!OpenSession(r) \/ D!ServeRange(r)
      <3>1. /\ requests[r].kind \in {"open", "range"} /\ requests[r].step = "fresh"
            /\ UNCHANGED replays /\ D!Opened(r)
        BY <2>4 DEF D!OpenSession, D!ServeRange, D!Current
      <3>2. DOMAIN opened' = DOMAIN opened \cup {r}
        BY <3>1 DEF D!Opened
      <3>3. Uses(r) /\ \A q : q # r => (Uses(q)' <=> Uses(q))
        BY <2>1, <3>1, <3>2 DEF Uses
      <3>4. \A q : Uses(q)' => Uses(q) /\ q \in DOMAIN requests
        BY <3>3 DEF Uses
      <3>5. QED
        BY <1>0, <2>2, <3>1, <3>4 DEF NonceInv
    <2>5. CASE /\ requests[r].kind \in {"fetch", "receipt", "claim"}
               /\ UNCHANGED <<replays, opened>>
      <3>1. \A q : Uses(q)' => Uses(q) /\ q \in DOMAIN requests
        BY <2>1, <2>5 DEF Uses
      <3>2. QED
        BY <1>0, <2>2, <2>5, <3>1 DEF NonceInv
    <2>6. QED
      BY <1>1, <2>3, <2>4, <2>5, WhoOpens
  <1>2. CASE D!Arrive
    <2>1. UNCHANGED <<replays, opened>>
      BY <1>2, ArriveMoves
    <2>2. PICK n \in D!Ids \ DOMAIN requests :
                /\ DOMAIN requests' = DOMAIN requests \cup {n}
                /\ \A r \in DOMAIN requests : requests'[r] = requests[r]
                /\ requests'[n].step = "begun"
      BY <1>2, ArriveMoves
    <2>3. n \notin DOMAIN opened
      BY <2>2 DEF StoreInv
    <2>4. \A q : Uses(q)' => Uses(q) /\ q \in DOMAIN requests
      BY <2>1, <2>2, <2>3 DEF Uses
    <2>5. QED
      BY <1>0, <2>1, <2>2, <2>4 DEF NonceInv
  <1>3. CASE D!Crash
    <2>1. /\ UNCHANGED <<replays, opened>> /\ DOMAIN requests' = DOMAIN requests
          /\ \A r \in DOMAIN requests :
                /\ requests'[r].step \in {"consumed", "over"}
                /\ requests'[r].kind = requests[r].kind /\ requests'[r].arg = requests[r].arg
      BY <1>3, CrashMoves
    <2>2. \A q : Uses(q)' => Uses(q) /\ q \in DOMAIN requests
      BY <2>1 DEF Uses
    <2>3. QED
      BY <1>0, <2>1, <2>2 DEF NonceInv
  <1>4. CASE D!NonceExpires \/ D!Expire \/ UNCHANGED D!vars
    <2>1. UNCHANGED <<replays, opened, requests>>
      BY <1>4 DEF D!NonceExpires, D!Expire, D!vars, D!storeVars
    <2>2. QED
      BY <1>0, <2>1 DEF NonceInv, Uses
  <1>5. QED
    BY <1>1, <1>2, <1>3, <1>4 DEF D!Next

\* A claim under way has taken a fetch session.
Claiming(r) ==
    /\ r \in DOMAIN requests
    /\ requests[r].kind = "claim"
    /\ requests[r].step = "begun"

InHand(r, s) == Claiming(r) /\ s \in ToSet(requests[r].read.chunks)

\* A fetch session is in the database, in the hands of one claim, once, or
\* claimed, and no two of these.
ClaimCounts ==
    \A s \in D!Ids : /\ claims[s] \in {0, 1}
                     /\ claims[s] = 1 => s \in DOMAIN opened /\ s \notin single
HeldIsFree == \A s, r \in D!Ids : InHand(r, s) => s \notin single /\ claims[s] = 0
HeldByOne  == \A s, r, q \in D!Ids : InHand(r, s) /\ InHand(q, s) => r = q
Distinct(t) == \A i, j \in DOMAIN t : t[i] = t[j] => i = j
HeldOnce   == \A r \in D!Ids : Claiming(r) => Distinct(requests[r].read.chunks)

ClaimInv == ClaimCounts /\ HeldIsFree /\ HeldByOne /\ HeldOnce

\* What only claims change.
LEMMA WhoClaims ==
    ASSUME NEW r \in D!Ids, D!Step(r)
    PROVE  \/ D!TakeFetchSession(r)
           \/ D!SubmitReceipts(r)
           \/ D!ServeRange(r)
           \/ /\ requests[r].kind \in {"open", "range", "fetch", "receipt"}
              /\ UNCHANGED <<single, claims>>
              /\ opened' = opened \/ D!Opened(r)
  BY DEF D!Step, D!Load, D!LoadCached, D!ReadBucket, D!FillCache, D!LoadExpired,
         D!AppendChunk, D!AppendFails, D!ServeChunk, D!CheckReceipt, D!TakeSession,
         D!DropCache, D!SubmitFails, D!OpenSession, D!CheckReplay, D!Current,
         D!Loading, D!storeVars

LEMMA ClaimStep ==
    ASSUME D!DownloadSessionsAssumption, StoreInv, ClaimInv, [D!Next]_D!vars
    PROVE  ClaimInv'
  <1>1. ASSUME NEW r \in D!Ids, D!Step(r) PROVE ClaimInv'
    <2>1. /\ r \in DOMAIN requests /\ DOMAIN requests' = DOMAIN requests
          /\ \A q \in DOMAIN requests : q # r => requests'[q] = requests[q]
          /\ requests'[r].kind = requests[r].kind
      BY <1>1, StepMoves
    <2>2. \A q : q # r => /\ Claiming(q)' <=> Claiming(q)
                          /\ Claiming(q) => requests'[q] = requests[q]
      BY <2>1 DEF Claiming
    <2>3. \A q, s : q # r => (InHand(q, s)' <=> InHand(q, s))
      BY <2>1, <2>2 DEF InHand
    <2>4. ASSUME ~Claiming(r)', UNCHANGED claims, DOMAIN opened \subseteq DOMAIN opened',
                 \A s \in single' : s \in single \/ s \notin DOMAIN opened
          PROVE  ClaimInv'
      <3>1. \A s, q \in D!Ids : InHand(q, s)' => InHand(q, s) /\ s \in DOMAIN opened
        <4>1. \A q, s \in D!Ids : InHand(q, s)' => InHand(q, s)
          BY <2>3, <2>4 DEF InHand
        <4>2. \A q, s \in D!Ids : InHand(q, s) => s \in DOMAIN opened
          BY DEF InHand, Claiming, StoreInv, Fits
        <4>3. QED
          BY <4>1, <4>2
      <3>2. \A q \in D!Ids : Claiming(q)' => Claiming(q) /\ requests'[q] = requests[q]
        BY <2>2, <2>4
      <3>3. QED
        BY <2>4, <3>1, <3>2 DEF ClaimInv, ClaimCounts, HeldIsFree, HeldByOne, HeldOnce, Distinct
    <2>5. CASE D!TakeFetchSession(r)
      <3> DEFINE s == Head(requests[r].list)
      <3>1. /\ requests[r].kind = "claim" /\ requests[r].step = "begun"
            /\ s \in DOMAIN opened /\ single' = single \ {s}
            /\ UNCHANGED <<opened, claims>>
        BY <2>1, <2>5, Claimed
      <3>2. CASE D!ToStep(r, "over")
        <4>1. ~Claiming(r)'
          BY <2>1, <3>2, Stepped DEF Claiming
        <4>2. QED
          BY <2>4, <3>1, <4>1
      <3>3. CASE ~D!ToStep(r, "over")
        <4> DEFINE c == requests[r].read.chunks
        <4>1. /\ s \in single
              /\ requests'[r].kind = "claim" /\ requests'[r].step = "begun"
              /\ requests'[r].read.chunks = Append(c, s)
          BY <2>1, <2>5, <3>3, Claimed
        <4>2. c \in Seq(Items) /\ s \in Items /\ s \in D!Ids
          <5>1. requests[r] \in RequestType
            BY <2>1 DEF StoreInv
          <5>2. QED
            BY <3>1, <5>1 DEF StoreInv, RequestType, RecordType, Items
        <4>3. Claiming(r) /\ Claiming(r)'
          BY <2>1, <3>1, <4>1 DEF Claiming
        <4>4. \A u : InHand(r, u)' <=> InHand(r, u) \/ u = s
          BY <4>1, <4>2, <4>3, ToSetAppend DEF InHand
        <4>5. \A q \in D!Ids : ~InHand(q, s)
          BY <4>1, <4>2 DEF ClaimInv, ClaimCounts, HeldIsFree, HeldByOne, HeldOnce, Distinct
        <4>6. Distinct(Append(c, s))
          <5>1. \A i \in DOMAIN c : c[i] # s
            BY <4>2, <4>3, <4>5 DEF InHand, ToSet
          <5>2. Distinct(c)
            BY <4>3 DEF ClaimInv, HeldOnce
          <5>3. \A i \in DOMAIN Append(c, s) :
                  \/ i \in DOMAIN c /\ Append(c, s)[i] = c[i]
                  \/ i = Len(c) + 1 /\ Append(c, s)[i] = s
            BY <4>2
          <5> HIDE DEF c, s
          <5>4. QED
            BY <5>1, <5>2, <5>3 DEF Distinct
        <4>7. claims[s] = 0
          BY <4>1, <4>2 DEF ClaimInv, ClaimCounts
        <4> HIDE DEF s, c
        <4>8. \A u, q \in D!Ids : InHand(q, u)' => InHand(q, u) \/ (q = r /\ u = s)
          BY <2>3, <4>4
        <4>9. ClaimCounts'
          BY <3>1 DEF ClaimInv, ClaimCounts
        <4>10. HeldIsFree'
          BY <3>1, <4>7, <4>8 DEF ClaimInv, HeldIsFree
        <4>11. HeldByOne'
          BY <4>5, <4>8 DEF ClaimInv, HeldByOne
        <4>12. HeldOnce'
          BY <2>2, <4>1, <4>6 DEF ClaimInv, HeldOnce
        <4>13. QED
          BY <4>9, <4>10, <4>11, <4>12 DEF ClaimInv
      <3>4. QED
        BY <3>2, <3>3
    <2>6. CASE D!SubmitReceipts(r)
      <3> DEFINE c == requests[r].read.chunks
                 at(s) == {i \in DOMAIN c : c[i] = s}
      <3>1. /\ Claiming(r) /\ UNCHANGED <<single, opened>> /\ D!ToStep(r, "over")
            /\ claims' = [s \in D!Ids |-> claims[s] + Cardinality(at(s))]
        BY <2>6, CardinalitySame DEF D!SubmitReceipts, D!storeVars, D!Current, Claiming
      <3>2. ~Claiming(r)'
        BY <2>1, <3>1, Stepped DEF Claiming
      <3>3. ASSUME NEW s \in D!Ids
            PROVE  \/ InHand(r, s) /\ Cardinality(at(s)) = 1
                   \/ ~InHand(r, s) /\ Cardinality(at(s)) = 0
        <4>1. CASE at(s) = {}
          BY <4>1, FS_EmptySet DEF InHand, ToSet
        <4>2. CASE at(s) # {}
          <5>1. PICK i \in DOMAIN c : c[i] = s
            BY <4>2
          <5>2. at(s) = {i}
            BY <3>1, <5>1 DEF ClaimInv, ClaimCounts, HeldIsFree, HeldByOne, HeldOnce, Distinct
          <5>3. InHand(r, s)
            BY <3>1, <5>1 DEF InHand, ToSet
          <5>4. QED
            BY <5>2, <5>3, FS_Singleton
        <4>3. QED
          BY <4>1, <4>2
      <3>4. \A s \in D!Ids : InHand(r, s) => claims[s] = 0 /\ s \notin single
                                             /\ s \in DOMAIN opened
        BY DEF ClaimInv, ClaimCounts, HeldIsFree, HeldByOne, HeldOnce, Distinct, InHand, Claiming, StoreInv, Fits
      <3>5. \A s \in D!Ids : claims'[s] = IF InHand(r, s) THEN 1 ELSE claims[s]
        <4> HIDE DEF at
        <4>1. QED
          BY <3>1, <3>3, <3>4 DEF ClaimInv, ClaimCounts, HeldIsFree, HeldByOne, HeldOnce, Distinct
      <3>6. \A s, q \in D!Ids : InHand(q, s)' => InHand(q, s) /\ q # r
        BY <2>3, <3>2 DEF InHand
      <3>7. \A q \in D!Ids : Claiming(q)' => Claiming(q) /\ requests'[q] = requests[q]
        BY <2>2, <3>2
      <3>8. QED
        BY <3>1, <3>4, <3>5, <3>6, <3>7 DEF ClaimInv, ClaimCounts, HeldIsFree, HeldByOne, HeldOnce, Distinct
    <2>7. CASE D!ServeRange(r)
      <3>1. /\ requests[r].kind = "range" /\ single' = single \cup {r}
            /\ UNCHANGED claims /\ D!Opened(r)
        BY <2>7 DEF D!ServeRange, D!Current
      <3>2. r \notin DOMAIN opened /\ ~Claiming(r)'
        BY <1>1, <2>1, <3>1, StepActive DEF Claiming
      <3>3. DOMAIN opened \subseteq DOMAIN opened'
        BY <3>1 DEF D!Opened
      <3>4. QED
        BY <2>4, <3>1, <3>2, <3>3
    <2>8. CASE /\ requests[r].kind \in {"open", "range", "fetch", "receipt"}
               /\ UNCHANGED <<single, claims>>
               /\ opened' = opened \/ D!Opened(r)
      <3>1. ~Claiming(r)' /\ DOMAIN opened \subseteq DOMAIN opened'
        BY <2>1, <2>8 DEF Claiming, D!Opened
      <3>2. QED
        BY <2>4, <2>8, <3>1
    <2>9. QED
      BY <1>1, <2>5, <2>6, <2>7, <2>8, WhoClaims
  <1>2. CASE D!Arrive
    <2>1. UNCHANGED <<single, claims, opened>>
      BY <1>2, ArriveMoves
    <2>2. PICK n \in D!Ids \ DOMAIN requests :
                /\ DOMAIN requests' = DOMAIN requests \cup {n}
                /\ \A r \in DOMAIN requests : requests'[r] = requests[r]
                /\ requests'[n].read = [present |-> FALSE, chunks |-> << >>]
      BY <1>2, ArriveMoves
    <2>3. \A q : Claiming(q)' /\ q # n => Claiming(q) /\ requests'[q] = requests[q]
      BY <2>2 DEF Claiming
    <2>4. requests'[n].read.chunks = << >>
      BY <2>2
    <2>5. \A q, s : InHand(q, s)' => InHand(q, s)
      BY <2>3, <2>4, ToSetEmpty DEF InHand
    <2>6. QED
      BY <2>1, <2>3, <2>4, <2>5 DEF ClaimInv, ClaimCounts, HeldIsFree, HeldByOne, HeldOnce, Distinct
  <1>3. CASE D!Crash
    <2>1. /\ UNCHANGED <<single, claims, opened>> /\ DOMAIN requests' = DOMAIN requests
          /\ \A r \in DOMAIN requests : requests'[r].step \in {"consumed", "over"}
      BY <1>3, CrashMoves
    <2>2. \A q : ~Claiming(q)'
      BY <2>1 DEF Claiming
    <2>3. QED
      BY <2>1, <2>2 DEF ClaimInv, ClaimCounts, HeldIsFree, HeldByOne, HeldOnce, Distinct, InHand
  <1>4. CASE D!NonceExpires \/ D!Expire \/ UNCHANGED D!vars
    <2>1. UNCHANGED <<single, claims, opened, requests>>
      BY <1>4 DEF D!NonceExpires, D!Expire, D!vars, D!storeVars
    <2>2. QED
      BY <2>1 DEF ClaimInv, ClaimCounts, HeldIsFree, HeldByOne, HeldOnce, Distinct, InHand, Claiming
  <1>5. QED
    BY <1>1, <1>2, <1>3, <1>4 DEF D!Next

\* A chunk of a session is in the database, or its time has passed.
Kept(c, s) == c \in ToSet(bucket[s].chunks) \/ D!Consumed(s) \/ s \in expired

Recording(r) ==
    /\ r \in DOMAIN requests
    /\ requests[r].kind = "fetch"
    /\ requests[r].step = "recorded"

\* That holds of the chunks that were given, and of those about to be.
GivenInv ==
    /\ \A s \in DOMAIN opened : \A c \in got[s] : Kept(c, s)
    /\ \A r \in D!Ids : Recording(r) => Kept(requests[r].arg, requests[r].session)

\* A session that was consumed stays so.
LEMMA ConsumedStays ==
    ASSUME D!DownloadSessionsAssumption, StoreInv, [D!Next]_D!vars, NEW s
    PROVE  D!Consumed(s) => D!Consumed(s)'
  <1> SUFFICES ASSUME NEW q \in DOMAIN requests, requests[q].session = s,
                      requests[q].step \in {"taken", "consumed"}
               PROVE  /\ q \in DOMAIN requests' /\ requests'[q].session = s
                      /\ requests'[q].step \in {"taken", "consumed"}
    BY DEF D!Consumed
  <1>1. ASSUME NEW r \in D!Ids, D!Step(r)
        PROVE  /\ q \in DOMAIN requests' /\ requests'[q].session = s
               /\ requests'[q].step \in {"taken", "consumed"}
    <2>1. /\ r \in DOMAIN requests /\ DOMAIN requests' = DOMAIN requests
          /\ \A p \in DOMAIN requests : p # r => requests'[p] = requests[p]
          /\ requests'[r].session = requests[r].session
      BY <1>1, StepMoves
    <2>2. CASE q = r
      <3>1. D!DropCache(r)
        BY <1>1, <2>2, StepActive
      <3>2. D!ToStep(r, "consumed")
        BY <3>1 DEF D!DropCache
      <3>3. QED
        BY <2>1, <2>2, <3>2, Stepped
    <2>3. QED
      BY <2>1, <2>2
  <1>2. CASE D!Arrive
    BY <1>2, ArriveMoves
  <1>3. CASE D!Crash
    BY <1>3, CrashMoves
  <1>4. CASE D!NonceExpires \/ D!Expire \/ UNCHANGED D!vars
    BY <1>4 DEF D!NonceExpires, D!Expire, D!vars
  <1>5. QED
    BY <1>1, <1>2, <1>3, <1>4 DEF D!Next

\* What happens to the database record of a session.
LEMMA WhoWrites ==
    ASSUME StoreInv, NEW r \in D!Ids, D!Step(r)
    PROVE  \/ D!OpenSession(r) \/ D!LoadExpired(r) \/ D!AppendChunk(r)
           \/ D!TakeSession(r)
           \/ UNCHANGED bucket
  BY DEF D!Step, D!CheckReplay, D!ServeRange, D!Load, D!LoadCached, D!ReadBucket,
         D!FillCache, D!AppendFails, D!ServeChunk, D!CheckReceipt, D!DropCache,
         D!SubmitFails, D!TakeFetchSession, D!SubmitReceipts, D!storeVars

\* A chunk that is kept stays so.
LEMMA KeptStays ==
    ASSUME D!DownloadSessionsAssumption, StoreInv, [D!Next]_D!vars,
           NEW s \in DOMAIN opened, NEW c
    PROVE  Kept(c, s) => Kept(c, s)'
  <1>0. s \in D!Ids
    BY DEF StoreInv
  <1>1. D!Consumed(s) => D!Consumed(s)'
    BY ConsumedStays
  <1>2. s \in expired => s \in expired'
    <2>1. \A r \in D!Ids : D!Step(r) => expired \subseteq expired'
      BY DEF D!Step, D!CheckReplay,
             D!OpenSession, D!ServeRange, D!Load, D!LoadCached, D!ReadBucket,
             D!FillCache, D!LoadExpired, D!AppendChunk, D!AppendFails, D!ServeChunk,
             D!CheckReceipt, D!TakeSession, D!DropCache, D!SubmitFails,
             D!TakeFetchSession, D!SubmitReceipts
    <2>2. D!Arrive \/ D!Crash \/ UNCHANGED D!vars => UNCHANGED expired
      BY DEF D!Arrive, D!Crash, D!vars
    <2>3. D!NonceExpires \/ D!Expire => expired \subseteq expired'
      BY DEF D!NonceExpires, D!Expire
    <2>4. QED
      BY <2>1, <2>2, <2>3 DEF D!Next
  <1>3. ASSUME UNCHANGED bucket PROVE Kept(c, s) => Kept(c, s)'
    BY <1>1, <1>2, <1>3 DEF Kept
  <1>4. ASSUME NEW r \in D!Ids, D!Step(r) PROVE Kept(c, s) => Kept(c, s)'
    <2>1. r \in DOMAIN requests /\ bucket \in [D!Ids -> RecordType]
      BY <1>4, StepMoves DEF StoreInv
    <2>2. CASE D!OpenSession(r)
      <3>1. r # s
        BY <1>4, StepActive
      <3>2. bucket'[s] = bucket[s]
        BY <2>1, <2>2, <3>1 DEF D!OpenSession
      <3>3. QED
        BY <1>1, <1>2, <3>2 DEF Kept
    <2>3. CASE D!LoadExpired(r)
      <3>1. s = requests[r].session => s \in expired
        BY <2>3 DEF D!LoadExpired, D!Expired, D!Session
      <3>2. s # requests[r].session => bucket'[s] = bucket[s]
        BY <2>1, <2>3 DEF D!LoadExpired, D!Session
      <3>3. QED
        BY <1>1, <1>2, <3>1, <3>2 DEF Kept
    <2>4. CASE D!AppendChunk(r)
      <3> DEFINE u == requests[r].session
      <3>1. requests[r].kind = "fetch"
        BY <2>4 DEF D!AppendChunk, D!Current
      <3>2. u \in D!Ids /\ requests[r].arg \in Items /\ bucket[u].chunks \in Seq(Items)
        <4>1. u \in D!Ids
          BY <2>1, <3>1, SessionKnown
        <4>2. requests[r].arg \in Chunks
          BY <2>1, <3>1 DEF StoreInv, Fits
        <4>3. QED
          BY <2>1, <4>1, <4>2 DEF Items, RecordType
      <3>3. bucket' = [bucket EXCEPT ![u] =
                         [present |-> TRUE,
                          chunks |-> Append(bucket[u].chunks, requests[r].arg)]]
        BY <2>4 DEF D!AppendChunk, D!Session, D!Record
      <3>4. ToSet(bucket[s].chunks) \subseteq ToSet(bucket'[s].chunks)
        BY <1>0, <2>1, <3>2, <3>3, ToSetAppend
      <3>5. QED
        BY <1>1, <1>2, <3>4 DEF Kept
    <2>5. CASE D!TakeSession(r)
      <3>1. s # requests[r].session => bucket'[s] = bucket[s]
        BY <2>1, <2>5 DEF D!TakeSession, D!Session
      <3>2. s = requests[r].session => D!Consumed(s)'
        <4>1. D!ToStep(r, "taken")
          BY <2>5 DEF D!TakeSession
        <4>2. requests'[r].step = "taken" /\ requests'[r].session = requests[r].session
              /\ r \in DOMAIN requests'
          BY <1>4, <2>1, <4>1, Stepped, StepMoves
        <4>3. QED
          BY <4>2 DEF D!Consumed
      <3>3. QED
        BY <1>1, <1>2, <3>1, <3>2 DEF Kept
    <2>6. QED
      BY <1>3, <1>4, <2>2, <2>3, <2>4, <2>5, WhoWrites
  <1>5. CASE D!Arrive \/ D!NonceExpires \/ D!Expire \/ D!Crash \/ UNCHANGED D!vars
    <2>1. UNCHANGED bucket
      BY <1>5 DEF D!Arrive, D!NonceExpires, D!Expire, D!Crash, D!vars, D!storeVars
    <2>2. QED
      BY <1>3, <2>1
  <1>6. QED
    BY <1>4, <1>5 DEF D!Next

\* Only appendDownloadChunkToSession records a chunk.
LEMMA WhoRecords ==
    ASSUME StoreInv, NEW r \in D!Ids, D!Step(r), NEW q, Recording(q)', ~Recording(q)
    PROVE  q = r /\ D!AppendChunk(r)
  <1>1. /\ r \in DOMAIN requests /\ DOMAIN requests' = DOMAIN requests
        /\ \A p \in DOMAIN requests : p # r => requests'[p] = requests[p]
        /\ requests'[r].kind = requests[r].kind
    BY StepMoves
  <1>2. q = r /\ requests[r].kind = "fetch" /\ requests'[r].step = "recorded"
    BY <1>1 DEF Recording
  <1>3. CASE D!LoadCached(r) \/ D!ReadBucket(r)
    BY <1>1, <1>2, <1>3, Loaded
  <1>4. CASE D!FillCache(r)
    <2>1. D!ToStep(r, "loaded")
      BY <1>4 DEF D!FillCache
    <2>2. QED
      BY <1>1, <1>2, <2>1, Stepped
  <1>5. CASE D!LoadExpired(r) \/ D!AppendFails(r) \/ D!ServeChunk(r)
    <2>1. D!ToStep(r, "over")
      BY <1>5 DEF D!LoadExpired, D!AppendFails, D!ServeChunk
    <2>2. QED
      BY <1>1, <1>2, <2>1, Stepped
  <1>6. QED
    BY <1>2, <1>3, <1>4, <1>5 DEF D!Step, D!Load, D!CheckReplay, D!OpenSession,
       D!ServeRange, D!CheckReceipt, D!TakeSession, D!DropCache, D!SubmitFails,
       D!TakeFetchSession, D!SubmitReceipts, D!Current

LEMMA GivenStep ==
    ASSUME D!DownloadSessionsAssumption, StoreInv, StoreInv', GivenInv, [D!Next]_D!vars
    PROVE  GivenInv'
  <1>1. ASSUME NEW r \in D!Ids, Recording(r), Recording(r)',
               UNCHANGED <<requests[r].arg, requests[r].session>>
        PROVE  Kept(requests[r].arg, requests[r].session)'
    <2>1. requests[r].session \in DOMAIN opened /\ Kept(requests[r].arg, requests[r].session)
      BY <1>1, SessionKnown DEF Recording, GivenInv
    <2>2. QED
      BY <1>1, <2>1, KeptStays DEF Kept
  <1>2. ASSUME NEW s \in DOMAIN opened, NEW c \in got[s] PROVE Kept(c, s)'
    BY <1>2, KeptStays DEF GivenInv
  <1>3. ASSUME NEW r \in D!Ids, D!Step(r) PROVE GivenInv'
    <2>1. /\ r \in DOMAIN requests /\ DOMAIN requests' = DOMAIN requests
          /\ \A p \in DOMAIN requests : p # r => requests'[p] = requests[p]
          /\ requests'[r].session = requests[r].session
          /\ requests'[r].kind = requests[r].kind /\ requests'[r].arg = requests[r].arg
      BY <1>3, StepMoves
    <2>2. ASSUME NEW q \in D!Ids, Recording(q)'
          PROVE  Kept(requests[q].arg, requests[q].session)'
      <3>1. CASE Recording(q)
        BY <1>1, <2>1, <2>2, <3>1 DEF Recording
      <3>2. CASE ~Recording(q)
        <4>1. q = r /\ requests[r].kind = "fetch" /\ requests'[r].step = "recorded"
          BY <2>1, <2>2, <3>2 DEF Recording
        <4>2. D!AppendChunk(r)
          BY <1>3, <2>2, <3>2, WhoRecords
        <4> DEFINE u == requests[r].session
                   c == requests[r].arg
        <4>3. u \in D!Ids /\ c \in Items /\ bucket[u].chunks \in Seq(Items)
          <5>1. u \in D!Ids
            BY <2>1, <4>1, SessionKnown
          <5>2. c \in Chunks /\ bucket[u] \in RecordType
            BY <2>1, <4>1, <5>1 DEF StoreInv, Fits
          <5>3. QED
            BY <5>1, <5>2 DEF Items, RecordType
        <4>4. bucket'[u].chunks = Append(bucket[u].chunks, c)
          <5>1. bucket' = [bucket EXCEPT ![u] =
                             [present |-> TRUE, chunks |-> Append(bucket[u].chunks, c)]]
            BY <4>2 DEF D!AppendChunk, D!Session, D!Record
          <5>2. bucket \in [D!Ids -> RecordType]
            BY DEF StoreInv
          <5>3. QED
            BY <4>3, <5>1, <5>2
        <4>5. c \in ToSet(bucket'[u].chunks)
          BY <4>3, <4>4, ToSetAppend
        <4>6. QED
          BY <2>1, <4>1, <4>5 DEF Kept
      <3>3. QED
        BY <3>1, <3>2
    <2>3. ASSUME NEW s \in DOMAIN opened', NEW c \in got'[s] PROVE Kept(c, s)'
      <3>1. CASE D!ServeChunk(r)
        <4> DEFINE u == requests[r].session
        <4>1. /\ Recording(r) /\ UNCHANGED opened
              /\ got' = [got EXCEPT ![u] = got[u] \cup {requests[r].arg}]
          BY <3>1 DEF D!ServeChunk, D!Session, D!Current, Recording
        <4>2. u \in DOMAIN opened /\ Kept(requests[r].arg, u)
          BY <4>1, SessionKnown DEF Recording, GivenInv
        <4>3. Kept(requests[r].arg, u)'
          BY <2>1, <4>2, KeptStays DEF Kept
        <4>4. got \in [D!Ids -> SUBSET Chunks] /\ s \in D!Ids
          BY <2>3, <4>1 DEF StoreInv
        <4>5. c \in got[s] \/ (s = u /\ c = requests[r].arg)
          BY <2>3, <4>1, <4>4
        <4>6. QED
          BY <1>2, <2>1, <2>3, <4>1, <4>3, <4>5 DEF Kept
      <3>2. CASE ~D!ServeChunk(r)
        <4>1. UNCHANGED got
          BY <1>3, <3>2 DEF D!Step, D!CheckReplay, D!OpenSession, D!ServeRange, D!Load,
             D!LoadCached, D!ReadBucket, D!FillCache, D!LoadExpired, D!AppendChunk,
             D!AppendFails, D!CheckReceipt, D!TakeSession, D!DropCache,
             D!SubmitFails, D!TakeFetchSession, D!SubmitReceipts
        <4>2. s \in DOMAIN opened
          BY <2>3, <4>1 DEF StoreInv
        <4>3. QED
          BY <1>2, <2>3, <4>1, <4>2
      <3>3. QED
        BY <3>1, <3>2
    <2>4. QED
      BY <2>2, <2>3 DEF GivenInv
  <1>4. CASE D!Arrive \/ D!Crash \/ D!NonceExpires \/ D!Expire \/ UNCHANGED D!vars
    <2>1. UNCHANGED <<got, opened>>
      BY <1>4 DEF D!Arrive, D!Crash, D!NonceExpires, D!Expire, D!vars
    <2>2. ASSUME NEW q \in D!Ids, Recording(q)'
          PROVE  Recording(q) /\ UNCHANGED <<requests[q].arg, requests[q].session>>
      <3>1. CASE D!Arrive
        BY <2>2, <3>1, ArriveMoves DEF Recording
      <3>2. CASE D!Crash
        BY <2>2, <3>2, CrashMoves DEF Recording
      <3>3. CASE D!NonceExpires \/ D!Expire \/ UNCHANGED D!vars
        BY <2>2, <3>3 DEF D!NonceExpires, D!Expire, D!vars, Recording
      <3>4. QED
        BY <1>4, <3>1, <3>2, <3>3
    <2>3. QED
      BY <1>1, <1>2, <2>1, <2>2 DEF GivenInv
  <1>5. QED
    BY <1>3, <1>4 DEF D!Next

\* Between restarts the cache has what the database has, and what is about to
\* be dropped; an expired session is not looked at again.
CacheFits(s) ==
    /\ s \notin DOMAIN opened => ~bucket[s].present /\ ~cache[s].present
    /\ s \notin expired /\ bucket[s].present => cache[s] = bucket[s]
    /\ s \notin expired /\ cache[s].present =>
         /\ got[s] \subseteq ToSet(cache[s].chunks)
         /\ \A r \in D!Ids : Recording(r) /\ requests[r].session = s =>
                               requests[r].arg \in ToSet(cache[s].chunks)
    /\ cache[s].present /\ ~bucket[s].present =>
         \E r \in DOMAIN requests : requests[r].session = s /\ requests[r].step = "taken"

\* A receipt lists chunks that were given, and sees them when it is checked.
ListSeen(r) ==
    /\ requests[r].step = "begun" => ToSet(requests[r].list) \subseteq got[requests[r].session]
    /\ requests[r].step \in {"loaded", "mismatch"} =>
         ToSet(requests[r].list) \subseteq ToSet(requests[r].read.chunks)

CacheInv ==
    crashes = 0 =>
      /\ \A s \in D!Ids : CacheFits(s)
      /\ \A r \in DOMAIN requests :
           /\ requests[r].step # "read"
           /\ requests[r].step = "taken" => /\ requests[r].kind = "receipt"
                                            /\ ~bucket[requests[r].session].present
           /\ requests[r].kind = "receipt" => ListSeen(r)

\* A session that a step does not touch.
LEMMA CacheFrame ==
    ASSUME NEW s \in D!Ids, CacheFits(s),
           bucket'[s] = bucket[s], cache'[s] = cache[s], got'[s] = got[s],
           expired \subseteq expired', DOMAIN opened \subseteq DOMAIN opened',
           \A q \in D!Ids : Recording(q)' /\ requests'[q].session = s =>
             Recording(q) /\ requests'[q].arg = requests[q].arg
             /\ requests[q].session = s,
           \A q \in DOMAIN requests : requests[q].session = s /\ requests[q].step = "taken" =>
             q \in DOMAIN requests' /\ requests'[q].session = s /\ requests'[q].step = "taken"
    PROVE  CacheFits(s)'
  <1>1. s \notin DOMAIN opened' => ~bucket'[s].present /\ ~cache'[s].present
    BY DEF CacheFits
  <1>2. s \notin expired' /\ bucket'[s].present => cache'[s] = bucket'[s]
    BY DEF CacheFits
  <1>3. s \notin expired' /\ cache'[s].present =>
         /\ got'[s] \subseteq ToSet(cache'[s].chunks)
         /\ \A r \in D!Ids : Recording(r)' /\ requests'[r].session = s =>
                               requests'[r].arg \in ToSet(cache'[s].chunks)
    BY DEF CacheFits
  <1>4. cache'[s].present /\ ~bucket'[s].present =>
         \E r \in DOMAIN requests' : requests'[r].session = s /\ requests'[r].step = "taken"
    BY DEF CacheFits
  <1>5. QED
    BY <1>1, <1>2, <1>3, <1>4 DEF CacheFits

\* Which steps touch what a session has in the database, the cache, or with the
\* client.
LEMMA WhoTouches ==
    ASSUME NEW r \in D!Ids, D!Step(r)
    PROVE  /\ UNCHANGED crashes /\ expired \subseteq expired'
           /\ \/ D!OpenSession(r) \/ D!FillCache(r) \/ D!LoadExpired(r)
              \/ D!AppendChunk(r) \/ D!AppendFails(r) \/ D!ServeChunk(r)
              \/ D!TakeSession(r) \/ D!DropCache(r)
              \/ UNCHANGED <<bucket, cache, got>>
  BY DEF D!Step, D!CheckReplay, D!OpenSession, D!ServeRange, D!Load, D!LoadCached,
         D!ReadBucket, D!FillCache, D!LoadExpired, D!AppendChunk, D!AppendFails,
         D!ServeChunk, D!CheckReceipt, D!TakeSession, D!DropCache, D!SubmitFails,
         D!TakeFetchSession, D!SubmitReceipts, D!storeVars

LEMMA CacheSessions ==
    ASSUME StoreInv, CacheInv, crashes = 0, NEW r \in D!Ids, D!Step(r), NEW s \in D!Ids
    PROVE  CacheFits(s)'
  <1> DEFINE u == requests[r].session
             none == [present |-> FALSE, chunks |-> << >>]
  <1>1. /\ r \in DOMAIN requests /\ DOMAIN requests' = DOMAIN requests
        /\ \A p \in DOMAIN requests : p # r => requests'[p] = requests[p]
        /\ requests'[r].session = u
        /\ requests'[r].kind = requests[r].kind /\ requests'[r].arg = requests[r].arg
    BY StepMoves
  <1>2. CacheFits(s) /\ \A q \in DOMAIN requests : requests[q].step # "read"
    BY DEF CacheInv
  <1>3. expired \subseteq expired'
    BY WhoTouches
  <1>4. DOMAIN opened \subseteq DOMAIN opened'
    BY WhoOpens DEF D!CheckReplay, D!OpenSession, D!ServeRange, D!Opened
  <1>5. bucket \in [D!Ids -> RecordType] /\ cache \in [D!Ids -> RecordType]
        /\ got \in [D!Ids -> SUBSET Chunks]
    BY DEF StoreInv
  <1>6. \A q \in D!Ids : Recording(q)' =>
          \/ /\ Recording(q) /\ requests'[q].arg = requests[q].arg
             /\ requests'[q].session = requests[q].session
          \/ q = r /\ D!AppendChunk(r)
    BY <1>1, WhoRecords DEF Recording
  <1>7. \A q \in DOMAIN requests : requests[q].step = "taken" =>
          \/ q = r /\ D!DropCache(r)
          \/ q \in DOMAIN requests' /\ requests'[q] = requests[q]
    BY <1>1, StepActive
  <1>8. ASSUME bucket'[s] = bucket[s], cache'[s] = cache[s], got'[s] = got[s],
               D!DropCache(r) => u # s, D!AppendChunk(r) => u # s
        PROVE  CacheFits(s)'
    BY <1>1, <1>2, <1>3, <1>4, <1>6, <1>7, <1>8, CacheFrame
  <1>9. CASE D!OpenSession(r)
    <2>1. /\ bucket' = [bucket EXCEPT ![r] = [present |-> TRUE, chunks |-> << >>]]
          /\ cache' = [cache EXCEPT ![r] = [present |-> TRUE, chunks |-> << >>]]
          /\ UNCHANGED got /\ requests[r].kind = "open" /\ D!Opened(r)
      BY <1>9 DEF D!OpenSession, D!Record, D!Current
    <2>2. CASE s # r
      <3>1. ~D!DropCache(r) /\ ~D!AppendChunk(r)
        BY <2>1 DEF D!DropCache, D!AppendChunk, D!Current
      <3>2. QED
        BY <1>5, <1>8, <2>1, <2>2, <3>1
    <2>3. CASE s = r
      <3>1. r \notin DOMAIN opened
        BY StepActive
      <3>2. got'[s] = {}
        BY <2>1, <2>3, <3>1 DEF StoreInv
      <3>3. \A q \in D!Ids : ~(Recording(q)' /\ requests'[q].session = s)
        <4>1. ~D!AppendChunk(r)
          BY <2>1 DEF D!AppendChunk, D!Current
        <4>2. \A q \in D!Ids : Recording(q) => requests[q].session # s
          BY <2>3, <3>1, SessionKnown DEF Recording
        <4>3. QED
          BY <1>6, <4>1, <4>2
      <3>4. /\ bucket'[s] = cache'[s] /\ bucket'[s].present
            /\ s \in DOMAIN opened'
        BY <1>5, <2>1, <2>3 DEF D!Opened
      <3>5. QED
        BY <3>2, <3>3, <3>4 DEF CacheFits
    <2>4. QED
      BY <2>2, <2>3
  <1>10. CASE D!FillCache(r)
    BY <1>1, <1>2, <1>10 DEF D!FillCache
  <1>11. CASE D!LoadExpired(r)
    <2>1. /\ cache' = [cache EXCEPT ![u] = none] /\ bucket' = [bucket EXCEPT ![u] = none]
          /\ UNCHANGED got /\ u \in expired /\ requests[r].step = "begun"
      BY <1>11 DEF D!LoadExpired, D!Session, D!Absent, D!Expired
    <2>2. CASE s # u
      BY <1>5, <1>8, <2>1, <2>2
    <2>3. CASE s = u
      <3>1. ~cache'[s].present /\ ~bucket'[s].present
        BY <1>5, <2>1, <2>3
      <3>2. QED
        BY <3>1 DEF CacheFits
    <2>4. QED
      BY <2>2, <2>3
  <1>12. CASE D!AppendChunk(r)
    <2> DEFINE new == [present |-> TRUE, chunks |-> Append(bucket[u].chunks, requests[r].arg)]
    <2>1. /\ cache' = [cache EXCEPT ![u] = new] /\ bucket' = [bucket EXCEPT ![u] = new]
          /\ UNCHANGED got /\ bucket[u].present /\ u \notin expired
          /\ requests[r].kind = "fetch" /\ requests[r].step = "loaded"
      BY <1>12 DEF D!AppendChunk, D!Session, D!Record, D!Expired, D!Current
    <2>2. CASE s # u
      BY <1>5, <1>8, <2>1, <2>2
    <2>3. CASE s = u
      <3>1. requests[r].arg \in Items /\ bucket[s].chunks \in Seq(Items) /\ s \in DOMAIN opened
        <4>1. requests[r].arg \in Chunks
          BY <1>1, <2>1 DEF StoreInv, Fits
        <4>2. QED
          BY <1>1, <1>5, <2>1, <2>3, <4>1, SessionKnown DEF Items, RecordType
      <3>2. /\ bucket'[s] = cache'[s] /\ bucket'[s].present
            /\ bucket'[s].chunks = Append(bucket[s].chunks, requests[r].arg)
        BY <1>5, <2>1, <2>3
      <3>3. ToSet(cache'[s].chunks) = ToSet(cache[s].chunks) \cup {requests[r].arg}
        <4>1. cache[s] = bucket[s]
          BY <1>2, <2>1, <2>3 DEF CacheFits
        <4>2. QED
          BY <3>1, <3>2, <4>1, ToSetAppend
      <3>4. cache[s].present
        BY <1>2, <2>1, <2>3 DEF CacheFits
      <3>5. got'[s] \subseteq ToSet(cache'[s].chunks)
        BY <1>2, <2>1, <2>3, <3>3, <3>4 DEF CacheFits
      <3>6. \A q \in D!Ids : Recording(q)' /\ requests'[q].session = s =>
                               requests'[q].arg \in ToSet(cache'[s].chunks)
        BY <1>1, <1>2, <1>6, <2>1, <2>3, <3>3, <3>4 DEF CacheFits
      <3>7. QED
        BY <1>4, <3>1, <3>2, <3>5, <3>6 DEF CacheFits
    <2>4. QED
      BY <2>2, <2>3
  <1>13. CASE D!AppendFails(r)
    <2>1. /\ cache' = [cache EXCEPT ![u] = IF bucket[u].present THEN none ELSE cache[u]]
          /\ UNCHANGED <<bucket, got>> /\ (bucket[u].present => u \in expired)
          /\ requests[r].kind = "fetch"
      BY <1>13 DEF D!AppendFails, D!Session, D!Absent, D!Expired, D!Current
    <2>2. CASE s # u \/ ~bucket[u].present
      <3>1. cache'[s] = cache[s]
        BY <1>5, <2>1, <2>2
      <3>2. ~D!DropCache(r)
        BY <2>1 DEF D!DropCache, D!Current
      <3>3. D!AppendChunk(r) => u # s
        BY <2>2 DEF D!AppendChunk, D!Session
      <3>4. QED
        BY <1>8, <2>1, <3>1, <3>2, <3>3
    <2>3. CASE s = u /\ bucket[u].present
      <3>1. ~cache'[s].present /\ s \in expired'
        BY <1>3, <1>5, <2>1, <2>3
      <3>2. s \in DOMAIN opened'
        BY <1>1, <1>4, <2>1, <2>3, SessionKnown
      <3>3. QED
        BY <3>1, <3>2 DEF CacheFits
    <2>4. QED
      BY <2>2, <2>3
  <1>14. CASE D!ServeChunk(r)
    <2>1. /\ got' = [got EXCEPT ![u] = got[u] \cup {requests[r].arg}]
          /\ UNCHANGED <<bucket, cache, opened>>
          /\ Recording(r) /\ requests[r].kind = "fetch"
          /\ ~D!AppendChunk(r) /\ ~D!DropCache(r)
      BY <1>14 DEF D!ServeChunk, D!Session, D!storeVars, D!Current, Recording,
                   D!AppendChunk, D!DropCache
    <2>2. CASE s # u
      BY <1>5, <1>8, <2>1, <2>2
    <2>3. CASE s = u
      <3>1. got'[s] = got[s] \cup {requests[r].arg}
        BY <1>5, <2>1, <2>3
      <3>2. s \notin expired' /\ cache'[s].present =>
              got'[s] \subseteq ToSet(cache'[s].chunks)
        BY <1>2, <1>3, <2>1, <2>3, <3>1 DEF CacheFits
      <3>3. s \notin expired' /\ cache'[s].present =>
              \A q \in D!Ids : Recording(q)' /\ requests'[q].session = s =>
                                 requests'[q].arg \in ToSet(cache'[s].chunks)
        BY <1>2, <1>3, <1>6, <2>1 DEF CacheFits
      <3>4. cache'[s].present /\ ~bucket'[s].present =>
              \E q \in DOMAIN requests' : requests'[q].session = s /\ requests'[q].step = "taken"
        BY <1>2, <1>7, <2>1 DEF CacheFits
      <3>5. QED
        BY <1>2, <1>3, <2>1, <3>2, <3>3, <3>4 DEF CacheFits
    <2>4. QED
      BY <2>2, <2>3
  <1>15. CASE D!TakeSession(r)
    <2>1. /\ bucket' = [bucket EXCEPT ![u] = none] /\ UNCHANGED <<cache, got, opened>>
          /\ requests[r].kind = "receipt" /\ D!ToStep(r, "taken")
          /\ ~D!AppendChunk(r) /\ ~D!DropCache(r)
      BY <1>15 DEF D!TakeSession, D!Session, D!Absent, D!Current, D!AppendChunk,
                   D!DropCache
    <2>2. CASE s # u
      BY <1>5, <1>8, <2>1, <2>2
    <2>3. CASE s = u
      <3>1. ~bucket'[s].present /\ s \in DOMAIN opened'
        BY <1>1, <1>4, <1>5, <2>1, <2>3, SessionKnown
      <3>2. requests'[r].step = "taken" /\ requests'[r].session = s /\ r \in DOMAIN requests'
        BY <1>1, <2>1, <2>3, Stepped
      <3>3. s \notin expired' /\ cache'[s].present =>
             /\ got'[s] \subseteq ToSet(cache'[s].chunks)
             /\ \A q \in D!Ids : Recording(q)' /\ requests'[q].session = s =>
                                   requests'[q].arg \in ToSet(cache'[s].chunks)
        BY <1>2, <1>3, <1>6, <2>1 DEF CacheFits
      <3>4. QED
        BY <3>1, <3>2, <3>3 DEF CacheFits
    <2>4. QED
      BY <2>2, <2>3
  <1>16. CASE D!DropCache(r)
    <2>1. /\ cache' = [cache EXCEPT ![u] = none] /\ UNCHANGED <<bucket, got, opened>>
          /\ requests[r].kind = "receipt" /\ requests[r].step = "taken"
          /\ ~D!AppendChunk(r)
      BY <1>16 DEF D!DropCache, D!Session, D!Absent, D!Current, D!AppendChunk
    <2>2. CASE s # u
      BY <1>5, <1>8, <2>1, <2>2
    <2>3. CASE s = u
      <3>1. ~cache'[s].present /\ ~bucket'[s].present
        BY <1>1, <1>5, <2>1, <2>3 DEF CacheInv
      <3>2. QED
        BY <3>1 DEF CacheFits
    <2>4. QED
      BY <2>2, <2>3
  <1>17. CASE /\ UNCHANGED <<bucket, cache, got>>
              /\ ~D!AppendChunk(r) /\ ~D!DropCache(r)
    BY <1>8, <1>17
  <1>18. QED
    BY <1>9, <1>10, <1>11, <1>12, <1>13, <1>14, <1>15, <1>16, <1>17, WhoTouches

\* Where a receipt is after a step of it.
LEMMA ReceiptMoves ==
    ASSUME StoreInv, NEW r \in D!Ids, D!Step(r), requests[r].kind = "receipt"
    PROVE  \/ D!LoadCached(r) \/ D!ReadBucket(r) \/ D!FillCache(r)
           \/ /\ requests[r].step = "loaded" /\ requests'[r].step \in {"submitted", "mismatch"}
              /\ requests'[r].list = requests[r].list
              /\ requests'[r].read = requests[r].read
              /\ UNCHANGED bucket
           \/ D!TakeSession(r) /\ requests'[r].step = "taken"
           \/ requests'[r].step \in {"consumed", "over"}
  <1>1. r \in DOMAIN requests
    BY StepMoves
  <1>2. CASE D!CheckReceipt(r)
    <2>1. PICK a \in {"submitted", "mismatch"} : D!ToStep(r, a)
      BY <1>2 DEF D!CheckReceipt
    <2>2. requests[r].step = "loaded" /\ UNCHANGED bucket
      BY <1>2 DEF D!CheckReceipt, D!Current, D!storeVars
    <2>3. QED
      BY <1>1, <2>1, <2>2, Stepped
  <1>3. CASE D!LoadExpired(r) \/ D!SubmitFails(r)
    <2>1. D!ToStep(r, "over")
      BY <1>3 DEF D!LoadExpired, D!SubmitFails
    <2>2. QED
      BY <1>1, <2>1, Stepped
  <1>4. CASE D!TakeSession(r)
    <2>1. D!ToStep(r, "taken")
      BY <1>4 DEF D!TakeSession
    <2>2. QED
      BY <1>1, <1>4, <2>1, Stepped
  <1>5. CASE D!DropCache(r)
    <2>1. D!ToStep(r, "consumed")
      BY <1>5 DEF D!DropCache
    <2>2. QED
      BY <1>1, <2>1, Stepped
  <1>6. QED
    BY <1>2, <1>3, <1>4, <1>5 DEF D!Step, D!Load, D!CheckReplay, D!OpenSession,
       D!ServeRange, D!AppendChunk, D!AppendFails, D!ServeChunk, D!TakeFetchSession,
       D!SubmitReceipts, D!Current

\* A step neither reaches "read", nor takes a session whose record it leaves.
LEMMA CacheRequests ==
    ASSUME StoreInv, CacheInv, crashes = 0, NEW r \in D!Ids, D!Step(r),
           NEW q \in DOMAIN requests'
    PROVE  /\ requests'[q].step # "read"
           /\ requests'[q].step = "taken" => /\ requests'[q].kind = "receipt"
                                             /\ ~bucket'[requests'[q].session].present
           /\ requests'[q].kind = "receipt" => ListSeen(q)'
  <1> DEFINE u == requests[r].session
  <1>1. /\ r \in DOMAIN requests /\ DOMAIN requests' = DOMAIN requests
        /\ \A p \in DOMAIN requests : p # r => requests'[p] = requests[p]
        /\ requests'[r].session = u
        /\ requests'[r].kind = requests[r].kind /\ requests'[r].arg = requests[r].arg
    BY StepMoves
  <1>2. bucket \in [D!Ids -> RecordType] /\ got \in [D!Ids -> SUBSET Chunks]
    BY DEF StoreInv
  <1>3. /\ requests[q].step # "read"
        /\ requests[q].step = "taken" => /\ requests[q].kind = "receipt"
                                         /\ ~bucket[requests[q].session].present
        /\ requests[q].kind = "receipt" => ListSeen(q)
    BY <1>1 DEF CacheInv
  <1>4. ~D!FillCache(r)
    BY <1>1 DEF CacheInv, D!FillCache
  <1>5. \A s \in D!Ids : got[s] \subseteq got'[s]
    <2>1. CASE D!ServeChunk(r)
      <3>1. got' = [got EXCEPT ![u] = got[u] \cup {requests[r].arg}]
        BY <2>1 DEF D!ServeChunk, D!Session
      <3>2. QED
        BY <1>2, <3>1
    <2>2. CASE ~D!ServeChunk(r)
      <3>1. UNCHANGED got
        BY <2>2, WhoTouches DEF D!OpenSession, D!FillCache, D!LoadExpired,
           D!AppendChunk, D!AppendFails, D!TakeSession, D!DropCache
      <3>2. QED
        BY <3>1
    <2>3. QED
      BY <2>1, <2>2
  <1>6. CASE q # r
    <2>1. requests'[q] = requests[q] /\ q \in DOMAIN requests
      BY <1>1, <1>6
    <2>2. requests[q].kind = "receipt" => ListSeen(q)'
      <3>1. requests[q].kind = "receipt" => requests[q].session \in D!Ids
        BY <2>1, SessionKnown
      <3>2. QED
        BY <1>3, <1>5, <2>1, <3>1 DEF ListSeen
    <2>3. ASSUME requests[q].step = "taken" PROVE ~bucket'[requests[q].session].present
      <3> DEFINE s == requests[q].session
      <3>1. s \in D!Ids /\ s \in DOMAIN opened /\ ~bucket[s].present
        BY <1>3, <2>1, <2>3, SessionKnown
      <3>2. CASE D!OpenSession(r)
        <4>1. r # s
          BY <3>1, StepActive
        <4>2. QED
          BY <1>2, <3>1, <3>2, <4>1 DEF D!OpenSession
      <3>3. CASE D!LoadExpired(r) \/ D!TakeSession(r)
        <4>1. bucket' = [bucket EXCEPT ![u] = [present |-> FALSE, chunks |-> << >>]]
          BY <3>3 DEF D!LoadExpired, D!TakeSession, D!Session, D!Absent
        <4>2. QED
          BY <1>2, <3>1, <4>1
      <3>4. CASE D!AppendChunk(r)
        <4>1. u # s
          BY <3>1, <3>4 DEF D!AppendChunk, D!Session
        <4>2. QED
          BY <1>2, <3>1, <3>4, <4>1 DEF D!AppendChunk, D!Session
      <3>5. QED
        BY <3>1, <3>2, <3>3, <3>4, WhoWrites
    <2>4. QED
      BY <1>3, <2>1, <2>2, <2>3
  <1>7. CASE q = r
    <2>1. CASE D!ReadBucket(r)
      <3>1. requests[r].kind \in {"fetch", "receipt"} /\ u \notin expired /\ ~cache[u].present
        BY <2>1 DEF D!ReadBucket, D!Loading, D!Session, D!Expired
      <3>2. u \in D!Ids
        BY <1>1, <3>1, SessionKnown
      <3>3. ~bucket[u].present
        BY <3>1, <3>2 DEF CacheInv, CacheFits
      <3>4. requests'[r].step = "over"
        BY <1>1, <2>1, <3>3, Loaded
      <3>5. QED
        BY <1>7, <3>4 DEF ListSeen
    <2>2. CASE D!LoadCached(r)
      <3>1. /\ requests[r].kind \in {"fetch", "receipt"} /\ u \notin expired
            /\ cache[u].present /\ requests[r].step = "begun"
        BY <2>2 DEF D!LoadCached, D!Loading, D!Session, D!Expired
      <3>2. u \in D!Ids
        BY <1>1, <3>1, SessionKnown
      <3>3. got[u] \subseteq ToSet(cache[u].chunks)
        BY <3>1, <3>2 DEF CacheInv, CacheFits
      <3>4. /\ requests'[r].step = "loaded" /\ requests'[r].read = cache[u]
            /\ requests'[r].list = requests[r].list
        BY <1>1, <2>2, Loaded
      <3>5. requests[r].kind = "receipt" => ToSet(requests[r].list) \subseteq got[u]
        BY <1>3, <1>7, <3>1 DEF ListSeen
      <3>6. QED
        BY <1>1, <1>7, <3>3, <3>4, <3>5 DEF ListSeen
    <2>3. CASE requests[r].kind = "receipt" /\ ~D!ReadBucket(r) /\ ~D!LoadCached(r)
      <3>1. CASE /\ requests[r].step = "loaded"
                 /\ requests'[r].step \in {"submitted", "mismatch"}
                 /\ requests'[r].list = requests[r].list
                 /\ requests'[r].read = requests[r].read
        BY <1>1, <1>3, <1>7, <2>3, <3>1 DEF ListSeen
      <3>2. CASE D!TakeSession(r) /\ requests'[r].step = "taken"
        <4>1. u \in D!Ids
          BY <1>1, <2>3, SessionKnown
        <4>2. ~bucket'[u].present
          BY <1>2, <3>2, <4>1 DEF D!TakeSession, D!Session, D!Absent
        <4>3. QED
          BY <1>1, <1>7, <2>3, <3>2, <4>2 DEF ListSeen
      <3>3. CASE requests'[r].step \in {"consumed", "over"}
        BY <1>7, <3>3 DEF ListSeen
      <3>4. QED
        BY <1>4, <2>3, <3>1, <3>2, <3>3, ReceiptMoves
    <2>4. CASE requests[r].kind # "receipt" /\ ~D!ReadBucket(r) /\ ~D!LoadCached(r)
      <3>1. requests'[r].step \notin {"read", "taken"}
        <4>1. CASE D!TakeFetchSession(r)
          BY <1>1, <4>1, Claimed, Stepped
        <4>2. CASE \E a \in {"fresh", "over", "recorded"} : D!ToStep(r, a)
          BY <1>1, <4>2, Stepped
        <4>3. QED
          BY <1>4, <2>4, <4>1, <4>2 DEF D!Step, D!Load, D!CheckReplay, D!OpenSession,
             D!ServeRange, D!LoadExpired, D!AppendChunk, D!AppendFails, D!ServeChunk,
             D!CheckReceipt, D!TakeSession, D!DropCache, D!SubmitFails,
             D!SubmitReceipts, D!Current
      <3>2. QED
        BY <1>1, <1>7, <2>4, <3>1
    <2>5. QED
      BY <2>1, <2>2, <2>3, <2>4
  <1>8. QED
    BY <1>6, <1>7

LEMMA CacheStep ==
    ASSUME D!DownloadSessionsAssumption, StoreInv, CacheInv, [D!Next]_D!vars
    PROVE  CacheInv'
  <1> SUFFICES ASSUME crashes' = 0
               PROVE  /\ \A s \in D!Ids : CacheFits(s)'
                      /\ \A r \in DOMAIN requests' :
                           /\ requests'[r].step # "read"
                           /\ requests'[r].step = "taken" =>
                                /\ requests'[r].kind = "receipt"
                                /\ ~bucket'[requests'[r].session].present
                           /\ requests'[r].kind = "receipt" => ListSeen(r)'
    BY DEF CacheInv
  <1>1. ASSUME NEW r \in D!Ids, D!Step(r), crashes = 0
        PROVE  /\ \A s \in D!Ids : CacheFits(s)'
               /\ \A q \in DOMAIN requests' :
                    /\ requests'[q].step # "read"
                    /\ requests'[q].step = "taken" =>
                         /\ requests'[q].kind = "receipt"
                         /\ ~bucket'[requests'[q].session].present
                    /\ requests'[q].kind = "receipt" => ListSeen(q)'
    BY <1>1, CacheSessions, CacheRequests
  <1>2. ~D!Crash
    BY DEF D!Crash, StoreInv
  <1>3. crashes = 0
    BY <1>2, WhoTouches DEF D!Next, D!Arrive, D!NonceExpires, D!Expire, D!vars
  <1>4. CASE D!Arrive
    <2>1. UNCHANGED <<replays, bucket, cache, single, expired, got, opened, claims, crashes>>
      BY <1>4, ArriveMoves
    <2>2. PICK n \in D!Ids \ DOMAIN requests :
                /\ DOMAIN requests' = DOMAIN requests \cup {n}
                /\ \A r \in DOMAIN requests : requests'[r] = requests[r]
                /\ requests'[n].step = "begun"
                /\ requests'[n].kind = "receipt" =>
                     ToSet(requests'[n].list) \subseteq got[requests'[n].session]
      BY <1>4, ArriveMoves
    <2>3. \A q : Recording(q)' => Recording(q) /\ requests'[q] = requests[q]
      BY <2>2 DEF Recording
    <2>4. \A s \in D!Ids : CacheFits(s)'
      BY <1>3, <2>1, <2>2, <2>3, CacheFrame DEF CacheInv
    <2>5. ASSUME NEW r \in DOMAIN requests
          PROVE  /\ requests'[r].step # "read"
                 /\ requests'[r].step = "taken" =>
                      /\ requests'[r].kind = "receipt"
                      /\ ~bucket'[requests'[r].session].present
                 /\ requests'[r].kind = "receipt" => ListSeen(r)'
      BY <1>3, <2>1, <2>2 DEF CacheInv, ListSeen
    <2>6. requests'[n].kind = "receipt" => ListSeen(n)'
      BY <2>1, <2>2 DEF ListSeen
    <2>7. QED
      BY <2>2, <2>4, <2>5, <2>6
  <1>5. CASE D!NonceExpires \/ D!Expire \/ UNCHANGED D!vars
    <2>1. UNCHANGED <<bucket, cache, got, opened, requests>> /\ expired \subseteq expired'
      BY <1>5 DEF D!NonceExpires, D!Expire, D!vars, D!storeVars
    <2>2. \A q : Recording(q)' <=> Recording(q)
      BY <2>1 DEF Recording
    <2>3. \A s \in D!Ids : CacheFits(s)'
      BY <1>3, <2>1, <2>2, CacheFrame DEF CacheInv
    <2>4. QED
      BY <1>3, <2>1, <2>3 DEF CacheInv, ListSeen
  <1>6. QED
    BY <1>1, <1>2, <1>3, <1>4, <1>5 DEF D!Next

\* A nonce that is signed for a download session and used again after it has
\* expired opens a session that gives nothing: no chunk of it was given or is
\* about to be, and none is recorded for a session that has expired.
Downloads(s) == Uses(s) /\ requests[s].kind = "open"

Barren(s) ==
    /\ requests[s].arg \in past
    /\ got[s] = {}
    /\ \A r \in D!Ids : Recording(r) => requests[r].session # s

LateIsExpired == \A s \in DOMAIN opened :
    requests[s].kind = "open" /\ requests[s].arg \in past => s \in expired
FetchedIsOpen ==
    /\ \A r \in DOMAIN requests :
         requests[r].kind = "fetch" => requests[requests[r].session].kind = "open"
    /\ \A s \in D!Ids : got[s] # {} => requests[s].kind = "open"
OthersBarren == \A s, t \in D!Ids :
    Downloads(s) /\ Downloads(t) /\ requests[s].arg = requests[t].arg =>
        s = t \/ Barren(s) \/ Barren(t)

ServeInv == past \subseteq Nonces /\ LateIsExpired /\ FetchedIsOpen /\ OthersBarren

\* What a request asks for does not change.
LEMMA SameRequest ==
    ASSUME D!DownloadSessionsAssumption, StoreInv, [D!Next]_D!vars, NEW q \in DOMAIN requests
    PROVE  /\ q \in DOMAIN requests'
           /\ requests'[q].kind = requests[q].kind /\ requests'[q].arg = requests[q].arg
           /\ requests'[q].session = requests[q].session
  <1>1. CASE \E r \in D!Ids : D!Step(r)
    <2>1. PICK r \in D!Ids : D!Step(r)
      BY <1>1
    <2>2. QED
      BY <2>1, StepMoves
  <1>2. CASE D!Arrive
    BY <1>2, ArriveMoves
  <1>3. CASE D!Crash
    BY <1>3, CrashMoves
  <1>4. CASE D!NonceExpires \/ D!Expire \/ UNCHANGED D!vars
    BY <1>4 DEF D!NonceExpires, D!Expire, D!vars
  <1>5. QED
    BY <1>1, <1>2, <1>3, <1>4 DEF D!Next

\* What a client has grows by a chunk that is served.
LEMMA GotGrows ==
    ASSUME StoreInv, [D!Next]_D!vars, NEW s \in D!Ids
    PROVE  \/ got'[s] = got[s]
           \/ \E r \in D!Ids : Recording(r) /\ requests[r].session = s
  <1>1. ASSUME NEW r \in D!Ids, D!ServeChunk(r)
        PROVE  got'[s] = got[s] \/ (Recording(r) /\ requests[r].session = s)
    <2>1. /\ got' = [got EXCEPT ![requests[r].session] =
                        got[requests[r].session] \cup {requests[r].arg}]
          /\ Recording(r)
      BY <1>1 DEF D!ServeChunk, D!Session, D!Current, Recording
    <2>2. got \in [D!Ids -> SUBSET Chunks]
      BY DEF StoreInv
    <2>3. QED
      BY <2>1, <2>2
  <1>2. \A r \in D!Ids : D!Step(r) /\ ~D!ServeChunk(r) => UNCHANGED got
    BY WhoTouches DEF D!OpenSession, D!FillCache, D!LoadExpired, D!AppendChunk,
       D!AppendFails, D!TakeSession, D!DropCache
  <1>3. D!Arrive \/ D!NonceExpires \/ D!Expire \/ D!Crash \/ UNCHANGED D!vars => UNCHANGED got
    BY DEF D!Arrive, D!NonceExpires, D!Expire, D!Crash, D!vars
  <1>4. QED
    BY <1>1, <1>2, <1>3 DEF D!Next

\* A request that comes to record a chunk does it in a session that has not
\* expired.
LEMMA RecordsInTime ==
    ASSUME D!DownloadSessionsAssumption, StoreInv, [D!Next]_D!vars,
           NEW q \in D!Ids, Recording(q)', ~Recording(q)
    PROVE  /\ requests'[q].session = requests[q].session
           /\ requests[q].session \in DOMAIN opened \ expired
  <1>1. ASSUME NEW r \in D!Ids, D!Step(r)
        PROVE  /\ requests'[q].session = requests[q].session
               /\ requests[q].session \in DOMAIN opened \ expired
    <2>1. q = r /\ D!AppendChunk(r)
      BY <1>1, WhoRecords
    <2>2. /\ q \in DOMAIN requests /\ requests[q].kind = "fetch"
          /\ requests[q].session \notin expired
      BY <2>1 DEF D!AppendChunk, D!Current, D!Expired, D!Session
    <2>3. QED
      BY <2>2, SameRequest, SessionKnown
  <1>2. ~D!Arrive
    <2> SUFFICES ASSUME D!Arrive PROVE FALSE
      OBVIOUS
    <2>1. QED
      BY ArriveMoves DEF Recording
  <1>3. ~D!Crash
    <2> SUFFICES ASSUME D!Crash PROVE FALSE
      OBVIOUS
    <2>1. QED
      BY CrashMoves DEF Recording
  <1>4. ~(D!NonceExpires \/ D!Expire \/ UNCHANGED D!vars)
    BY DEF D!NonceExpires, D!Expire, D!vars, Recording
  <1>5. QED
    BY <1>1, <1>2, <1>3, <1>4 DEF D!Next

LEMMA BarrenStays ==
    ASSUME D!DownloadSessionsAssumption, StoreInv, ServeInv, [D!Next]_D!vars,
           NEW s \in DOMAIN requests, requests[s].kind = "open", Barren(s)
    PROVE  Barren(s)'
  <1>1. s \in D!Ids /\ s \in DOMAIN requests' /\ requests'[s].arg = requests[s].arg
    BY SameRequest DEF StoreInv
  <1>2. requests'[s].arg \in past'
    BY <1>1, PastGrows DEF Barren
  <1>3. got'[s] = {}
    BY <1>1, GotGrows DEF Barren
  <1>4. ASSUME NEW q \in D!Ids, Recording(q)' PROVE requests'[q].session # s
    <2>1. CASE Recording(q)
      <3>1. requests'[q].session = requests[q].session
        BY <2>1, SameRequest DEF Recording
      <3>2. QED
        BY <2>1, <3>1 DEF Barren
    <2>2. CASE ~Recording(q)
      <3>1. /\ requests'[q].session = requests[q].session
            /\ requests[q].session \in DOMAIN opened \ expired
        BY <1>4, <2>2, RecordsInTime
      <3>2. QED
        BY <3>1 DEF ServeInv, LateIsExpired, Barren
    <2>3. QED
      BY <2>1, <2>2
  <1>5. QED
    BY <1>2, <1>3, <1>4 DEF Barren

\* A request that comes to use a nonce finds it unused, or expired.
LEMMA NewUse ==
    ASSUME D!DownloadSessionsAssumption, StoreInv, NonceInv, [D!Next]_D!vars,
           NEW q \in D!Ids, Uses(q)', ~Uses(q)
    PROVE  /\ q \in DOMAIN requests \ DOMAIN opened
           /\ \A t \in D!Ids : t # q => (Uses(t)' => Uses(t))
           /\ \A t \in D!Ids : Uses(t) /\ requests[t].arg = requests[q].arg =>
                                requests[q].arg \in past
           /\ UNCHANGED past
  <1>1. ASSUME NEW r \in D!Ids, D!Step(r)
        PROVE  q = r /\ \E k \in {"open", "range"} : D!CheckReplay(r, k)
                                                     /\ requests[r].arg \notin replays \ past
    <2>1. /\ r \in DOMAIN requests /\ DOMAIN requests' = DOMAIN requests
          /\ \A p \in DOMAIN requests : p # r => requests'[p] = requests[p]
          /\ requests'[r].kind = requests[r].kind
      BY <1>1, StepMoves
    <2>2. CASE \E k \in {"open", "range"} : D!CheckReplay(r, k)
      <3>1. PICK k \in {"open", "range"} : D!CheckReplay(r, k)
        BY <2>2
      <3>2. UNCHANGED opened
        BY <3>1 DEF D!CheckReplay
      <3>3. q = r
        BY <2>1, <3>2 DEF Uses
      <3>4. CASE D!ToStep(r, "over")
        BY <1>1, <2>1, <3>2, <3>3, <3>4, Stepped, StepActive DEF Uses
      <3>5. CASE requests[r].arg \notin replays \ past
        BY <3>1, <3>3, <3>5
      <3>6. QED
        BY <3>1, <3>4, <3>5 DEF D!CheckReplay
    <2>3. CASE D!OpenSession(r) \/ D!ServeRange(r)
      <3>1. requests[r].kind \in {"open", "range"} /\ requests[r].step = "fresh" /\ D!Opened(r)
        BY <2>3 DEF D!OpenSession, D!ServeRange, D!Current
      <3>2. DOMAIN opened' = DOMAIN opened \cup {r}
        BY <3>1 DEF D!Opened
      <3>3. QED
        BY <2>1, <3>1, <3>2 DEF Uses
    <2>4. CASE requests[r].kind \in {"fetch", "receipt", "claim"} /\ UNCHANGED opened
      BY <2>1, <2>4 DEF Uses
    <2>5. QED
      BY <1>1, <2>2, <2>3, <2>4, WhoOpens
  <1>2. ~D!Arrive
    <2> SUFFICES ASSUME D!Arrive PROVE FALSE
      OBVIOUS
    <2>1. UNCHANGED opened
      BY ArriveMoves
    <2>2. PICK n \in D!Ids \ DOMAIN requests :
                /\ DOMAIN requests' = DOMAIN requests \cup {n}
                /\ \A r \in DOMAIN requests : requests'[r] = requests[r]
                /\ requests'[n].step = "begun"
      BY ArriveMoves
    <2>3. n \notin DOMAIN opened
      BY DEF StoreInv
    <2>4. QED
      BY <2>1, <2>2, <2>3 DEF Uses
  <1>3. ~D!Crash
    <2> SUFFICES ASSUME D!Crash PROVE FALSE
      OBVIOUS
    <2>1. /\ UNCHANGED opened /\ DOMAIN requests' = DOMAIN requests
          /\ \A r \in DOMAIN requests : /\ requests'[r].step \in {"consumed", "over"}
                                         /\ requests'[r].kind = requests[r].kind
      BY CrashMoves
    <2>2. QED
      BY <2>1 DEF Uses
  <1>4. ~(D!NonceExpires \/ D!Expire \/ UNCHANGED D!vars)
    BY DEF D!NonceExpires, D!Expire, D!vars, Uses
  <1>5. D!Step(q) /\ \E k \in {"open", "range"} : D!CheckReplay(q, k)
                                               /\ requests[q].arg \notin replays \ past
    BY <1>1, <1>2, <1>3, <1>4 DEF D!Next
  <1>6. /\ q \in DOMAIN requests /\ DOMAIN requests' = DOMAIN requests
        /\ \A p \in DOMAIN requests : p # q => requests'[p] = requests[p]
    BY <1>5, StepMoves
  <1>7. q \notin DOMAIN opened /\ UNCHANGED <<opened, past>>
    BY <1>5, StepActive DEF D!CheckReplay
  <1>8. \A t \in D!Ids : t # q => (Uses(t)' => Uses(t))
    BY <1>6, <1>7 DEF Uses
  <1>9. \A t \in D!Ids : Uses(t) /\ requests[t].arg = requests[q].arg =>
                          requests[q].arg \in past
    BY <1>5 DEF NonceInv
  <1>10. QED
    BY <1>6, <1>7, <1>8, <1>9

LEMMA ServeStep ==
    ASSUME D!DownloadSessionsAssumption, StoreInv, StoreInv', NonceInv, ServeInv,
           [D!Next]_D!vars
    PROVE  ServeInv'
  <1>1. past' \subseteq Nonces
    BY PastGrows DEF ServeInv, D!NonceExpires
  <1>2. LateIsExpired'
    <2> SUFFICES ASSUME NEW s \in DOMAIN opened', requests'[s].kind = "open",
                        requests'[s].arg \in past'
                 PROVE  s \in expired'
      BY DEF LateIsExpired
    <2>1. expired \subseteq expired'
      BY WhoTouches DEF D!Next, D!Arrive, D!NonceExpires, D!Expire, D!Crash, D!vars
    <2>2. CASE s \in DOMAIN opened
      <3>1. requests[s].kind = "open" /\ requests'[s].arg = requests[s].arg
        BY <2>2, SameRequest DEF StoreInv
      <3>2. CASE requests[s].arg \in past
        BY <2>1, <2>2, <3>1, <3>2 DEF ServeInv, LateIsExpired
      <3>3. CASE requests[s].arg \notin past
        <4>1. D!NonceExpires
          BY <3>1, <3>3, PastGrows
        <4>2. QED
          BY <2>2, <3>1, <3>3, <4>1 DEF D!NonceExpires
      <3>4. QED
        BY <3>2, <3>3
    <2>3. CASE s \notin DOMAIN opened
      <3>1. ~(D!Arrive \/ D!NonceExpires \/ D!Expire \/ D!Crash \/ UNCHANGED D!vars)
        BY <2>3 DEF D!Arrive, D!NonceExpires, D!Expire, D!Crash, D!vars
      <3>2. PICK r \in D!Ids : D!Step(r)
        BY <3>1 DEF D!Next
      <3>3. D!OpenSession(r) \/ D!ServeRange(r)
        BY <2>3, <3>2, WhoOpens DEF D!CheckReplay
      <3>4. D!Opened(r)
        BY <3>3 DEF D!OpenSession, D!ServeRange
      <3>5. s = r
        BY <2>3, <3>4 DEF D!Opened
      <3>6. requests[r].kind = "open" /\ requests'[r].arg = requests[r].arg
        BY <3>2, <3>5, StepMoves
      <3>7. D!OpenSession(r)
        BY <3>3, <3>6 DEF D!ServeRange, D!Current
      <3>8. expired' = expired \cup {t \in {r} : requests[r].arg \in past} /\ UNCHANGED past
        BY <3>7 DEF D!OpenSession
      <3>9. QED
        BY <3>5, <3>6, <3>8
    <2>4. QED
      BY <2>2, <2>3
  <1>3. FetchedIsOpen'
    <2>1. ASSUME NEW r \in DOMAIN requests', requests'[r].kind = "fetch"
          PROVE  requests'[requests'[r].session].kind = "open"
      <3>1. CASE r \in DOMAIN requests
        <4>1. /\ requests[r].kind = "fetch" /\ requests'[r].session = requests[r].session
          BY <2>1, <3>1, SameRequest
        <4>2. requests[r].session \in DOMAIN requests
          BY <3>1, <4>1, SessionKnown DEF StoreInv
        <4>3. requests[requests[r].session].kind = "open"
          BY <3>1, <4>1 DEF ServeInv, FetchedIsOpen
        <4>4. QED
          BY <4>1, <4>2, <4>3, SameRequest
      <3>2. CASE r \notin DOMAIN requests
        <4>1. D!Arrive
          <5>1. \A q \in D!Ids : D!Step(q) => DOMAIN requests' = DOMAIN requests
            BY StepMoves
          <5>2. D!Crash => DOMAIN requests' = DOMAIN requests
            BY CrashMoves
          <5>3. D!NonceExpires \/ D!Expire \/ UNCHANGED D!vars => UNCHANGED requests
            BY DEF D!NonceExpires, D!Expire, D!vars
          <5>4. QED
            BY <2>1, <3>2, <5>1, <5>2, <5>3 DEF D!Next
        <4>2. PICK n \in D!Ids \ DOMAIN requests :
                /\ DOMAIN requests' = DOMAIN requests \cup {n}
                /\ requests'[n].kind = "fetch" => requests[requests'[n].session].kind = "open"
                /\ Fits(requests'[n])
          BY <4>1, ArriveMoves
        <4>3. r = n /\ requests'[r].session \in DOMAIN opened
          BY <2>1, <3>2, <4>2 DEF Fits
        <4>4. requests'[r].session \in DOMAIN requests
          BY <4>3 DEF StoreInv
        <4>5. QED
          BY <2>1, <4>2, <4>3, <4>4, SameRequest
      <3>3. QED
        BY <3>1, <3>2
    <2>2. ASSUME NEW s \in D!Ids, got'[s] # {} PROVE requests'[s].kind = "open"
      <3>1. CASE got'[s] = got[s]
        <4>1. s \in DOMAIN requests /\ requests[s].kind = "open"
          BY <2>2, <3>1 DEF StoreInv, ServeInv, FetchedIsOpen
        <4>2. QED
          BY <4>1, SameRequest
      <3>2. CASE \E r \in D!Ids : Recording(r) /\ requests[r].session = s
        <4>1. PICK r \in D!Ids : Recording(r) /\ requests[r].session = s
          BY <3>2
        <4>2. s \in DOMAIN opened
          BY <4>1, SessionKnown DEF Recording
        <4>3. s \in DOMAIN requests /\ requests[s].kind = "open"
          BY <4>1, <4>2 DEF StoreInv, ServeInv, FetchedIsOpen, Recording
        <4>4. QED
          BY <4>3, SameRequest
      <3>3. QED
        BY <2>2, <3>1, <3>2, GotGrows
    <2>3. QED
      BY <2>1, <2>2 DEF FetchedIsOpen
  <1>4. OthersBarren'
    <2>1. ASSUME NEW s \in D!Ids, NEW t \in D!Ids, s # t, Downloads(s)', Downloads(t)',
                 requests'[s].arg = requests'[t].arg, ~Uses(s)
          PROVE  Barren(s)'
      <3>1. /\ s \in DOMAIN requests \ DOMAIN opened /\ Uses(t)
            /\ requests[t].arg = requests[s].arg => requests[s].arg \in past
        BY <2>1, NewUse DEF Downloads
      <3>2. t \in DOMAIN requests
        BY <3>1 DEF Uses
      <3>3. requests[t].arg = requests[s].arg /\ requests[s].kind = "open"
        BY <2>1, <3>1, <3>2, SameRequest DEF Downloads
      <3>4. got[s] = {}
        BY <3>1 DEF StoreInv
      <3>5. ASSUME NEW r \in D!Ids, Recording(r) PROVE requests[r].session # s
        BY <3>1, <3>5, SessionKnown DEF Recording
      <3>6. Barren(s)
        BY <3>1, <3>3, <3>4, <3>5 DEF Barren
      <3>7. QED
        BY <3>1, <3>3, <3>6, BarrenStays
    <2>2. ASSUME NEW s \in D!Ids, NEW t \in D!Ids, s # t, Downloads(s)', Downloads(t)',
                 requests'[s].arg = requests'[t].arg
          PROVE  Barren(s)' \/ Barren(t)'
      <3>1. CASE Uses(s) /\ Uses(t)
        <4>1. s \in DOMAIN requests /\ t \in DOMAIN requests
          BY <3>1 DEF Uses
        <4>2. /\ requests[s].kind = "open" /\ requests[t].kind = "open"
              /\ requests[s].arg = requests[t].arg
          BY <2>2, <4>1, SameRequest DEF Downloads
        <4>3. Barren(s) \/ Barren(t)
          BY <2>2, <3>1, <4>2 DEF ServeInv, OthersBarren, Downloads
        <4>4. QED
          BY <4>1, <4>2, <4>3, BarrenStays
      <3>2. CASE ~Uses(s)
        BY <2>1, <2>2, <3>2
      <3>3. CASE ~Uses(t)
        BY <2>1, <2>2, <3>3
      <3>4. QED
        BY <3>1, <3>2, <3>3
    <2>3. QED
      BY <2>2 DEF OthersBarren
  <1>5. QED
    BY <1>1, <1>2, <1>3, <1>4 DEF ServeInv

SessionInv == StoreInv /\ NonceInv /\ ClaimInv /\ GivenInv /\ CacheInv /\ ServeInv

LEMMA SessionInit ==
    ASSUME D!DownloadSessionsAssumption, D!Init PROVE SessionInv
  <1>1. StoreInv
    BY StoreInit
  <1>2. /\ DOMAIN requests = {} /\ DOMAIN opened = {} /\ single = {}
        /\ claims = [s \in D!Ids |-> 0] /\ got = [s \in D!Ids |-> {}]
        /\ bucket = [s \in D!Ids |-> [present |-> FALSE, chunks |-> << >>]]
        /\ cache = [s \in D!Ids |-> [present |-> FALSE, chunks |-> << >>]]
    BY DEF D!Init, D!Absent
  <1>3. NonceInv
    BY <1>2 DEF NonceInv, Uses
  <1>4. ClaimInv
    BY <1>2 DEF ClaimInv, ClaimCounts, HeldIsFree, HeldByOne, HeldOnce, Distinct, Claiming, InHand
  <1>5. GivenInv
    BY <1>2 DEF GivenInv, Recording
  <1>6. CacheInv
    BY <1>2 DEF CacheInv, CacheFits
  <1>7. ServeInv
    <2>1. past = {}
      BY DEF D!Init
    <2>2. QED
      BY <1>2, <2>1 DEF ServeInv, LateIsExpired, FetchedIsOpen, OthersBarren, Downloads, Uses
  <1>8. QED
    BY <1>1, <1>3, <1>4, <1>5, <1>6, <1>7 DEF SessionInv

LEMMA SessionStep ==
    ASSUME D!DownloadSessionsAssumption, SessionInv, [D!Next]_D!vars PROVE SessionInv'
  <1>1. StoreInv'
    BY StoreStep DEF SessionInv
  <1>2. NonceInv' /\ ClaimInv'
    BY NonceStep, ClaimStep DEF SessionInv
  <1>3. GivenInv'
    BY <1>1, GivenStep DEF SessionInv
  <1>4. CacheInv'
    BY CacheStep DEF SessionInv
  <1>5. ServeInv'
    BY <1>1, ServeStep DEF SessionInv
  <1>6. QED
    BY <1>1, <1>2, <1>3, <1>4, <1>5 DEF SessionInv

\* Signed nonces and fetch sessions are used once, whatever is sent twice, at
\* once or after a restart: until it expires a nonce opens one session; of the
\* download sessions it opens then and in the 30 seconds after, one at most ever
\* gives a chunk, as a late one expires with its nonce; and a fetch session is
\* claimed once.  checkAndStoreRequestReplay, storeDownloadSession and
\* takeFetchSession.
THEOREM NoncesAndSessionsUsedOnce == D!Spec => []UsedOnce
  <1>1. D!Init => SessionInv
    BY SessionInit, ProviderAssumption
  <1>2. SessionInv /\ [D!Next]_D!vars => SessionInv'
    BY SessionStep, ProviderAssumption
  <1>3. SessionInv => UsedOnce
    <2> SUFFICES ASSUME SessionInv
                 PROVE  D!NonceOpensOnce /\ D!NonceServesOnce /\ D!ClaimedOnce
      BY DEF UsedOnce, D!UsedOnce
    <2>1. \A s \in DOMAIN opened : s \in D!Ids /\ Uses(s) /\ opened[s] = {requests[s].arg}
      BY DEF SessionInv, StoreInv, Uses
    <2>2. D!NonceOpensOnce
      <3> SUFFICES ASSUME NEW s \in DOMAIN opened, NEW t \in DOMAIN opened,
                          opened[s] = opened[t]
                   PROVE  s = t \/ opened[s] \subseteq past
        BY DEF D!NonceOpensOnce
      <3>1. requests[s].arg = requests[t].arg
        BY <2>1
      <3>2. QED
        BY <2>1, <3>1 DEF SessionInv, NonceInv
    <2>3. D!ClaimedOnce
      BY DEF SessionInv, ClaimInv, ClaimCounts, HeldIsFree, HeldByOne, HeldOnce, Distinct, D!ClaimedOnce
    <2>4. D!NonceServesOnce
      <3> SUFFICES ASSUME NEW s \in DOMAIN opened, NEW t \in DOMAIN opened,
                          opened[s] = opened[t], got[s] # {}, got[t] # {}
                   PROVE  s = t
        BY DEF D!NonceServesOnce
      <3>1. requests[s].arg = requests[t].arg
        BY <2>1
      <3>2. Downloads(s) /\ Downloads(t)
        BY <2>1 DEF SessionInv, ServeInv, FetchedIsOpen, Downloads
      <3>3. QED
        BY <2>1, <3>1, <3>2 DEF SessionInv, ServeInv, OthersBarren, Barren
    <2>5. QED
      BY <2>2, <2>3, <2>4
  <1>4. QED
    BY <1>1, <1>2, <1>3, PTL DEF D!Spec

\* A chunk the client was given stays in the database, through restarts, until
\* the session's receipt is submitted or the session expires; and up to the
\* first restart a receipt is checked against every chunk it is for, and no
\* session outlives its record in the cache.
THEOREM GivenChunksStay == D!Spec => []GivenIsRecorded
  <1>1. D!Init => SessionInv
    BY SessionInit, ProviderAssumption
  <1>2. SessionInv /\ [D!Next]_D!vars => SessionInv'
    BY SessionStep, ProviderAssumption
  <1>3. SessionInv => D!TypeOK
    <2> SUFFICES ASSUME StoreInv, past \subseteq Nonces PROVE D!TypeOK
      BY DEF SessionInv, ServeInv
    <2>1. \A s \in D!Ids :
            /\ D!ToSet(bucket[s].chunks) \cup D!ToSet(cache[s].chunks) \cup got[s] \subseteq Chunks
            /\ claims[s] \in Nat
      BY ToSetSame DEF StoreInv
    <2>2. DOMAIN opened \subseteq DOMAIN requests
      BY DEF StoreInv
    <2>3. QED
      BY <2>1, <2>2 DEF StoreInv, D!TypeOK
  <1>4. SessionInv => D!GivenIsRecorded
    BY ToSetSame DEF SessionInv, GivenInv, Kept, D!GivenIsRecorded
  <1>5. SessionInv => (crashes = 0 => D!LoadSeesGiven /\ D!TakenIsGone)
    <2> SUFFICES ASSUME StoreInv, CacheInv, crashes = 0 PROVE D!LoadSeesGiven /\ D!TakenIsGone
      BY DEF SessionInv
    <2>1. D!LoadSeesGiven
      BY ToSetSame DEF CacheInv, ListSeen, D!LoadSeesGiven
    <2>2. D!TakenIsGone
      <3> SUFFICES ASSUME \A r \in DOMAIN requests :
                            requests[r].step \in {"over", "mismatch", "consumed"},
                          NEW s \in DOMAIN opened, cache[s].present
                   PROVE  bucket[s].present
        BY DEF D!TakenIsGone
      <3>1. s \in D!Ids
        BY DEF StoreInv
      <3>2. QED
        BY <3>1 DEF CacheInv, CacheFits
    <2>3. QED
      BY <2>1, <2>2
  <1>6. QED
    BY <1>1, <1>2, <1>3, <1>4, <1>5, PTL DEF D!Spec, GivenIsRecorded
-----------------------------------------------------------------------------
(***************************************************************************)
(* Slabs that are taken in.                                                *)
(***************************************************************************)
LEMMA FirstIsOne ==
    ASSUME NEW T, T \subseteq Nat, T # {}
    PROVE  I!First(T) \in T
  <1> DEFINE Less == {ss \in Nat \X Nat : ss[1] < ss[2]}
  <1>1. IsWellFoundedOn(Less, Nat)
    BY NatLessThanWellFounded DEF OpToRel
  <1>2. \E x \in T : \A y \in T : ~(<<y, x>> \in Less)
    <2> HIDE DEF Less
    <2> QED  BY <1>1, WFMin
  <1>3. \A x \in Nat, y \in Nat : ~(<<y, x>> \in Less) => x <= y
    OBVIOUS
  <1>4. \E x \in T : \A y \in T : x <= y
    <2> HIDE DEF Less
    <2> QED  BY <1>2, <1>3
  <1>5. QED
    BY <1>4 DEF I!First

\* The ranges, and a request that still tries for the lock has tries left.
IngestInv ==
    /\ I!TypeOK
    /\ \A r \in Requests :
         pc[r] \in {"new", "building", "looking", "locking", "waiting", "breaking",
                    "sleeping"} => tries[r] < MaxTries

Early == {"new", "building", "looking", "locking", "waiting", "breaking", "sleeping"}
Places == {"new", "building", "looking", "discarding", "locking", "waiting", "breaking",
           "sleeping", "renaming", "merging", "removing", "replacing", "unlocking",
           "uploading", "failing", "over"}
Directories == [there : BOOLEAN, entries : SUBSET I!Entries]

LEMMA DirectoryType ==
    ASSUME I!SlabIngestAssumption
    PROVE  /\ I!Entries \subseteq Nat /\ I!Marker \in I!Entries
           /\ I!None \in Directories
           /\ \A e \in SUBSET I!Entries : I!Dir(e) \in Directories
           /\ \A d \in Directories : I!Marked(d) \in Directories
  BY DEF I!SlabIngestAssumption, I!Entries, I!Artifacts, I!Marker, I!Manifest,
         I!Mdu0, I!None, I!Dir, I!Marked, Directories

LEMMA IngestInit ==
    ASSUME I!SlabIngestAssumption, I!Init PROVE IngestInv
  <1>1. I!None \in Directories
    BY DirectoryType
  <1>2. final \in Directories /\ staging \in [Requests -> Directories]
    BY <1>1 DEF I!Init
  <1>3. lock \in [there : BOOLEAN, old : BOOLEAN]
    BY DEF I!Init, I!NoLock
  <1>4. /\ pc = [r \in Requests |-> "new"] /\ held = [r \in Requests |-> FALSE]
        /\ tries = [r \in Requests |-> 0] /\ sent = [r \in Requests |-> {}]
        /\ job = [r \in Requests |-> "none"] /\ restarts = 0 /\ shared \in BOOLEAN
        /\ MaxTries \in Nat \ {0} /\ MaxRestarts \in Nat
    BY DEF I!Init, I!SlabIngestAssumption
  <1>5. /\ pc \in [Requests -> Places] /\ held \in [Requests -> BOOLEAN]
        /\ tries \in [Requests -> 0 .. MaxTries] /\ sent \in [Requests -> SUBSET I!Artifacts]
        /\ job \in [Requests -> {"none", "running", "success", "error"}]
        /\ restarts \in 0 .. MaxRestarts
    BY <1>4 DEF Places
  <1>6. overrun \in BOOLEAN
    BY Zenon DEF I!Init
  <1>7. \A r \in Requests : tries[r] < MaxTries
    BY <1>4
  <1>8. QED
    BY <1>2, <1>3, <1>4, <1>5, <1>6, <1>7 DEF IngestInv, I!TypeOK, Directories, Places

\* What a step does to the place of a request.
LEMMA IngestType ==
    ASSUME I!SlabIngestAssumption, IngestInv, [I!Next]_I!vars PROVE IngestInv'
  <1>0. /\ final \in Directories /\ staging \in [Requests -> Directories]
        /\ MaxTries \in Nat \ {0} /\ MaxRestarts \in Nat
    BY DEF IngestInv, I!TypeOK, Directories, I!SlabIngestAssumption
  <1>s. shared' \in BOOLEAN
    BY DEF IngestInv, I!TypeOK, I!Next, I!vars
  <1> USE <1>s
  <1>1. ASSUME NEW r \in Requests, I!Begin(r) PROVE IngestInv'
    BY <1>1 DEF I!Begin, I!Go, IngestInv, I!TypeOK
  <1>2. ASSUME NEW r \in Requests, I!Build(r) PROVE IngestInv'
    <2>1. staging' = [staging EXCEPT ![r] = I!Dir(I!Entries)] /\ I!Dir(I!Entries) \in Directories
      BY <1>2, DirectoryType DEF I!Build
    <2>2. staging' \in [Requests -> Directories]
      BY <1>0, <2>1
    <2>3. QED
      BY <1>2, <2>2 DEF I!Build, I!Go, IngestInv, I!TypeOK, Directories
  <1>3. ASSUME NEW r \in Requests,
               \/ I!BuildFails(r) \/ I!FindComplete(r) \/ I!Look(r)
               \/ I!RenameOntoPartial(r) \/ I!RenameNothing(r) \/ I!MergeFails(r)
               \/ I!UploadFails(r)
        PROVE  IngestInv'
    BY <1>3 DEF I!BuildFails, I!FindComplete, I!Look, I!RenameOntoPartial,
       I!RenameNothing, I!MergeFails, I!UploadFails, I!Go, IngestInv, I!TypeOK
  <1>4. ASSUME NEW r \in Requests, I!TryLock(r) PROVE IngestInv'
    <2>1. UNCHANGED <<final, staging, tries, sent, job, restarts, overrun>> /\ pc[r] = "locking"
      BY <1>4 DEF I!TryLock, I!Go
    <2>2. lock' \in [there : BOOLEAN, old : BOOLEAN] /\ held' \in [Requests -> BOOLEAN]
      <3>1. lock' \in {lock, [there |-> TRUE, old |-> FALSE]}
        BY <1>4 DEF I!TryLock
      <3>2. held' \in {held, [held EXCEPT ![r] = TRUE]}
        BY <1>4 DEF I!TryLock
      <3>3. lock \in [there : BOOLEAN, old : BOOLEAN] /\ held \in [Requests -> BOOLEAN]
        BY DEF IngestInv, I!TypeOK
      <3>4. [held EXCEPT ![r] = TRUE] \in [Requests -> BOOLEAN]
        BY <3>3
      <3>5. [there |-> TRUE, old |-> FALSE] \in [there : BOOLEAN, old : BOOLEAN]
        OBVIOUS
      <3>6. QED
        BY <3>1, <3>2, <3>3, <3>4, <3>5, Zenon
    <2>3. \E to \in {"renaming", "waiting"} : pc' = [pc EXCEPT ![r] = to]
      BY <1>4 DEF I!TryLock, I!Go
    <2>4. QED
      BY <2>1, <2>2, <2>3 DEF IngestInv, I!TypeOK
  <1>5. ASSUME NEW r \in Requests, I!BreakLock(r) PROVE IngestInv'
    BY <1>5 DEF I!BreakLock, I!Go, I!NoLock, IngestInv, I!TypeOK
  <1>6. ASSUME NEW r \in Requests, I!Sleep(r) PROVE IngestInv'
    <2>1. /\ pc[r] = "sleeping" /\ tries[r] < MaxTries
          /\ pc' = [pc EXCEPT ![r] = IF tries[r] + 1 < MaxTries THEN "locking" ELSE "failing"]
          /\ tries' = [tries EXCEPT ![r] = tries[r] + 1]
          /\ UNCHANGED <<final, lock, staging, held, sent, job, restarts, overrun>>
      BY <1>6 DEF I!Sleep, I!Go, IngestInv
    <2>2. tries' \in [Requests -> 0 .. MaxTries]
      BY <1>0, <2>1 DEF IngestInv, I!TypeOK
    <2>3. \A q \in Requests :
           pc'[q] \in {"new", "building", "looking", "locking", "waiting", "breaking",
                       "sleeping"} => tries'[q] < MaxTries
      BY <2>1 DEF IngestInv, I!TypeOK
    <2>4. QED
      BY <2>1, <2>2, <2>3 DEF IngestInv, I!TypeOK
  <1>7. ASSUME NEW r \in Requests,
               \/ I!Discard(r) \/ I!Rename(r) \/ I!RenameOntoComplete(r) \/ I!Merged(r)
               \/ I!Replace(r)
        PROVE  IngestInv'
    <2>1. /\ I!None \in Directories /\ I!Marked(final) \in Directories
          /\ staging[r] \in Directories /\ I!Marked(staging[r]) \in Directories
      BY <1>0, DirectoryType
    <2>2. /\ final' \in {final, staging[r], I!Marked(final), I!Marked(staging[r])}
          /\ staging' \in {staging, [staging EXCEPT ![r] = I!None]}
          /\ \E to \in {"renaming", "unlocking", "failing"} : pc' = [pc EXCEPT ![r] = to]
          /\ UNCHANGED <<lock, held, tries, sent, job, restarts, overrun>>
      BY <1>7 DEF I!Discard, I!Rename, I!RenameOntoComplete, I!Merged, I!Replace, I!Go
    <2>3. final' \in Directories /\ staging' \in [Requests -> Directories]
      BY <1>0, <2>1, <2>2
    <2>4. /\ pc' \in [Requests -> Places]
          /\ \A q \in Requests : pc'[q] \in Early => pc[q] \in Early
      <3>1. PICK to \in {"renaming", "unlocking", "failing"} : pc' = [pc EXCEPT ![r] = to]
        BY <2>2
      <3>2. pc \in [Requests -> Places] /\ to \in Places /\ to \notin Early
        BY DEF IngestInv, I!TypeOK, Places, Early
      <3>3. QED
        BY <3>1, <3>2
    <2>5. UNCHANGED <<lock, held, tries, sent, job, restarts, overrun>>
      BY <2>2
    <2>6. QED
      BY <2>3, <2>4, <2>5 DEF IngestInv, Early, I!TypeOK, Directories, Places
  <1>8. ASSUME NEW r \in Requests, I!MergeEntry(r) PROVE IngestInv'
    <2> DEFINE e == I!First(staging[r].entries)
    <2>1. /\ final' = I!Dir(final.entries \cup {e})
          /\ staging' = [staging EXCEPT ![r] = I!Dir(staging[r].entries \ {e})]
          /\ staging[r].entries # {}
          /\ UNCHANGED <<lock, pc, held, tries, sent, job, restarts, overrun>>
      BY <1>8 DEF I!MergeEntry
    <2>2. staging[r].entries \in SUBSET I!Entries /\ final.entries \in SUBSET I!Entries
      BY <1>0 DEF Directories
    <2>3. e \in staging[r].entries
      BY <2>1, <2>2, FirstIsOne, DirectoryType
    <2> HIDE DEF e
    <2>4. /\ I!Dir(final.entries \cup {e}) \in Directories
          /\ I!Dir(staging[r].entries \ {e}) \in Directories
      BY <2>2, <2>3, DirectoryType
    <2>5. final' \in Directories /\ staging' \in [Requests -> Directories]
      BY <1>0, <2>1, <2>4
    <2>6. QED
      BY <2>1, <2>5 DEF IngestInv, I!TypeOK, Directories
  <1>9. ASSUME NEW r \in Requests, I!RemoveFinal(r) PROVE IngestInv'
    BY <1>9, DirectoryType DEF I!RemoveFinal, I!Go, IngestInv, I!TypeOK, Directories
  <1>10. ASSUME NEW r \in Requests, I!Unlock(r) PROVE IngestInv'
    BY <1>10 DEF I!Unlock, I!Go, I!NoLock, IngestInv, I!TypeOK
  <1>11. ASSUME NEW r \in Requests, I!Upload(r) PROVE IngestInv'
    BY <1>11 DEF I!Upload, IngestInv, I!TypeOK
  <1>12. ASSUME NEW r \in Requests, I!Succeed(r) PROVE IngestInv'
    BY <1>0, <1>12 DEF I!Succeed, I!Returns, I!Go, IngestInv, I!TypeOK
  <1>13. ASSUME NEW r \in Requests, I!Fail(r) PROVE IngestInv'
    <2>1. staging' \in [Requests -> Directories]
      BY <1>0, <1>13, DirectoryType DEF I!Fail
    <2>2. lock' \in [there : BOOLEAN, old : BOOLEAN]
      BY <1>13 DEF I!Fail, I!NoLock, IngestInv, I!TypeOK
    <2>3. QED
      BY <1>0, <1>13, <2>1, <2>2 DEF I!Fail, I!Returns, I!Go, IngestInv, I!TypeOK, Directories
  <1>14. CASE I!SpUpload
    <2>1. PICK a \in I!Artifacts \ final.entries : final' = I!Dir(final.entries \cup {a})
      BY <1>14 DEF I!SpUpload
    <2>2. final.entries \cup {a} \in SUBSET I!Entries
      BY <1>0 DEF Directories, I!Entries
    <2>3. final' \in Directories
      BY <2>1, <2>2, DirectoryType
    <2>4. QED
      BY <1>14, <2>3 DEF I!SpUpload, IngestInv, I!TypeOK, Directories
  <1>15. CASE I!LockAges
    BY <1>15 DEF I!LockAges, IngestInv, I!TypeOK
  <1>16. CASE I!Crash
    BY <1>0, <1>16 DEF I!Crash, IngestInv, I!TypeOK
  <1>17. CASE UNCHANGED I!vars
    BY <1>17 DEF I!vars, I!stepVars, IngestInv, I!TypeOK
  <1>18. ASSUME NEW r \in Requests, I!Wait(r) PROVE IngestInv'
    <2>1. /\ UNCHANGED <<final, lock, staging, held, tries, sent, job, restarts>>
          /\ pc[r] = "waiting"
          /\ \E to \in {"breaking", "sleeping"} : pc' = [pc EXCEPT ![r] = to]
      BY <1>18 DEF I!Wait, I!Go
    <2>2. overrun' \in BOOLEAN
      BY <1>18 DEF I!Wait, IngestInv, I!TypeOK
    <2>3. QED
      BY <2>1, <2>2 DEF IngestInv, I!TypeOK
  <1>19. QED
    BY <1>1, <1>2, <1>3, <1>4, <1>5, <1>6, <1>7, <1>8, <1>9, <1>10, <1>11, <1>12,
       <1>13, <1>14, <1>15, <1>16, <1>17, <1>18
       DEF I!Next, I!Step, I!Handle, I!AcquireLock, I!Finalize

(***************************************************************************)
(* The lock.  A request that holds it finds its file there and young, so   *)
(* nobody breaks it; a file that is broken is old, has no holder, and      *)
(* stays until its one breaker removes it.                                 *)
(***************************************************************************)
LockInv ==
    ~overrun =>
        /\ \A r \in Requests : held[r] => lock.there /\ ~lock.old
        /\ \A r, q \in Requests : held[r] /\ held[q] => r = q
        /\ \A r \in Requests : pc[r] = "breaking" => lock.there /\ lock.old
        /\ \A r, q \in Requests : pc[r] = "breaking" /\ pc[q] = "breaking" => r = q

LEMMA LockStep ==
    ASSUME I!SlabIngestAssumption, IngestInv, LockInv, [I!Next]_I!vars PROVE LockInv'
  <1>0. /\ pc \in [Requests -> Places] /\ held \in [Requests -> BOOLEAN]
        /\ lock \in [there : BOOLEAN, old : BOOLEAN] /\ overrun \in BOOLEAN
    BY DEF IngestInv, I!TypeOK, Places
  <1>1. ASSUME NEW r \in Requests,
               UNCHANGED <<lock, held, overrun>>,
               \E to \in Places \ {"breaking"} : pc' = [pc EXCEPT ![r] = to]
        PROVE  LockInv'
    <2>1. PICK to \in Places \ {"breaking"} : pc' = [pc EXCEPT ![r] = to]
      BY <1>1
    <2>2. \A q \in Requests : pc'[q] = "breaking" => pc[q] = "breaking"
      BY <1>0, <2>1
    <2>3. QED
      BY <1>1, <2>2 DEF LockInv
  <1>2. ASSUME NEW r \in Requests,
               \/ I!Begin(r) \/ I!Build(r) \/ I!BuildFails(r) \/ I!FindComplete(r)
               \/ I!Discard(r) \/ I!Look(r) \/ I!Sleep(r) \/ I!Rename(r)
               \/ I!RenameOntoComplete(r) \/ I!RenameOntoPartial(r) \/ I!RenameNothing(r)
               \/ I!Merged(r) \/ I!MergeFails(r) \/ I!RemoveFinal(r) \/ I!Replace(r)
               \/ I!UploadFails(r) \/ I!Succeed(r)
        PROVE  LockInv'
    <2>1. UNCHANGED <<lock, held, overrun>>
      BY <1>2 DEF I!Begin, I!Build, I!BuildFails, I!FindComplete, I!Discard, I!Look,
         I!Sleep, I!Rename, I!RenameOntoComplete, I!RenameOntoPartial, I!RenameNothing,
         I!Merged, I!MergeFails, I!RemoveFinal, I!Replace, I!UploadFails, I!Succeed
    <2>2. \E to \in Places \ {"breaking"} : pc' = [pc EXCEPT ![r] = to]
      BY <1>2 DEF I!Begin, I!Build, I!BuildFails, I!FindComplete, I!Discard, I!Look,
         I!Sleep, I!Rename, I!RenameOntoComplete, I!RenameOntoPartial, I!RenameNothing,
         I!Merged, I!MergeFails, I!RemoveFinal, I!Replace, I!UploadFails, I!Succeed, I!Go, Places
    <2>3. QED
      BY <1>1, <2>1, <2>2
  \* The one breaker of an old lock, which nobody holds.
  <1>3. ASSUME NEW r \in Requests, I!Wait(r) PROVE LockInv'
    <2>1. CASE lock.there /\ lock.old
      <3> SUFFICES ASSUME ~overrun' PROVE LockInv'
        BY DEF LockInv
      <3>1. /\ UNCHANGED <<lock, held>> /\ pc' = [pc EXCEPT ![r] = "breaking"]
            /\ ~overrun /\ ~I!OtherBreaks(r)
        BY <1>0, <1>3, <2>1 DEF I!Wait, I!Go
      <3>2. \A q \in Requests : pc'[q] = "breaking" => q = r
        BY <1>0, <3>1 DEF I!OtherBreaks
      <3>3. \A q \in Requests : ~held[q]
        BY <2>1, <3>1 DEF LockInv
      <3>4. QED
        BY <2>1, <3>1, <3>2, <3>3 DEF LockInv
    <2>2. CASE ~(lock.there /\ lock.old)
      <3>1. UNCHANGED <<lock, held, overrun>>
        BY <1>3, <2>2 DEF I!Wait
      <3>2. \E to \in Places \ {"breaking"} : pc' = [pc EXCEPT ![r] = to]
        BY <1>3, <2>2 DEF I!Wait, I!Go, Places
      <3>3. QED
        BY <1>1, <3>1, <3>2
    <2>3. QED
      BY <2>1, <2>2
  <1>4. ASSUME NEW r \in Requests, I!TryLock(r) PROVE LockInv'
    <2>1. CASE ~lock.there
      <3> SUFFICES ASSUME ~overrun' PROVE LockInv'
        BY DEF LockInv
      <3>1. /\ lock' = [there |-> TRUE, old |-> FALSE] /\ held' = [held EXCEPT ![r] = TRUE]
            /\ pc' = [pc EXCEPT ![r] = "renaming"] /\ ~overrun
        BY <1>4, <2>1 DEF I!TryLock, I!Go
      <3>2. \A q \in Requests : pc'[q] # "breaking"
        BY <1>0, <2>1, <3>1 DEF LockInv
      <3>3. lock'.there /\ ~lock'.old
        BY <3>1
      <3>4. \A q \in Requests : held'[q] => q = r
        BY <1>0, <2>1, <3>1 DEF LockInv
      <3>5. QED
        BY <3>2, <3>3, <3>4 DEF LockInv
    <2>2. CASE lock.there
      <3>1. UNCHANGED <<lock, held, overrun>>
        BY <1>4, <2>2 DEF I!TryLock
      <3>2. \E to \in Places \ {"breaking"} : pc' = [pc EXCEPT ![r] = to]
        BY <1>4, <2>2 DEF I!TryLock, I!Go, Places
      <3>3. QED
        BY <1>1, <3>1, <3>2
    <2>3. QED
      BY <2>1, <2>2
  \* The file that is removed has no holder, and no other breaker.
  <1>5. ASSUME NEW r \in Requests, I!BreakLock(r) PROVE LockInv'
    <2> SUFFICES ASSUME ~overrun' PROVE LockInv'
      BY DEF LockInv
    <2>1. /\ pc[r] = "breaking" /\ pc' = [pc EXCEPT ![r] = "sleeping"]
          /\ held' = held /\ ~overrun
      BY <1>5 DEF I!BreakLock, I!Go
    <2>2. \A q \in Requests : ~held'[q]
      BY <2>1 DEF LockInv
    <2>3. \A q \in Requests : pc'[q] # "breaking"
      BY <1>0, <2>1 DEF LockInv
    <2>4. QED
      BY <2>2, <2>3 DEF LockInv
  <1>6. ASSUME NEW r \in Requests, I!Unlock(r) \/ I!Fail(r) PROVE LockInv'
    <2>1. /\ lock' = IF held[r] THEN I!NoLock ELSE lock
          /\ held' = [held EXCEPT ![r] = FALSE] /\ overrun' = overrun
          /\ \E to \in Places \ {"breaking"} : pc' = [pc EXCEPT ![r] = to]
      BY <1>6 DEF I!Unlock, I!Fail, I!Go, Places
    <2>2. CASE held[r]
      <3> SUFFICES ASSUME ~overrun' PROVE LockInv'
        BY DEF LockInv
      <3>1. \A q \in Requests : pc'[q] # "breaking"
        <4>1. PICK to \in Places \ {"breaking"} : pc' = [pc EXCEPT ![r] = to]
          BY <2>1
        <4>2. QED
          BY <1>0, <2>1, <2>2, <4>1 DEF LockInv
      <3>2. \A q \in Requests : ~held'[q]
        BY <1>0, <2>1, <2>2 DEF LockInv
      <3>3. QED
        BY <3>1, <3>2 DEF LockInv
    <2>3. CASE ~held[r]
      <3>1. lock' = lock /\ held' = held
        BY <1>0, <2>1, <2>3
      <3>2. QED
        BY <1>1, <2>1, <3>1
    <2>4. QED
      BY <2>2, <2>3
  <1>7. CASE I!LockAges
    <2> SUFFICES ASSUME ~overrun' PROVE LockInv'
      BY DEF LockInv
    <2>1. /\ ~overrun /\ \A r \in Requests : ~held[r]
          /\ ~lock.old /\ UNCHANGED <<pc, held>>
      BY <1>0, <1>7 DEF I!LockAges
    <2>2. QED
      BY <2>1 DEF LockInv
  \* The requests are gone; the file stays.
  <1>8. CASE I!Crash
    <2>1. \A r \in Requests : ~held'[r] /\ pc'[r] # "breaking"
      BY <1>0, <1>8 DEF I!Crash
    <2>2. QED
      BY <2>1 DEF LockInv
  <1>9. ASSUME NEW r \in Requests, I!MergeEntry(r) \/ I!Upload(r) PROVE LockInv'
    BY <1>9 DEF I!MergeEntry, I!Upload, LockInv
  <1>10. CASE I!SpUpload \/ UNCHANGED I!vars
    BY <1>10 DEF I!SpUpload, I!vars, I!stepVars, LockInv
  <1>11. QED
    BY <1>2, <1>3, <1>4, <1>5, <1>6, <1>7, <1>8, <1>9, <1>10
       DEF I!Next, I!Step, I!Handle, I!AcquireLock, I!Finalize

LEMMA AtMostOneElement ==
    ASSUME NEW T, \A x, y \in T : x = y PROVE Cardinality(T) <= 1
  <1>1. CASE T = {}
    BY <1>1, FS_EmptySet
  <1>2. CASE T # {}
    <2>1. PICK x : T = {x}
      BY <1>2
    <2>2. QED
      <3>1. Cardinality(T) = 1
        BY <2>1, FS_Singleton, Zenon
      <3>2. QED
        BY <3>1
  <1>3. QED
    BY <1>1, <1>2

\* The lock file that mode2FinalizeStagingDir makes with O_EXCL, leaves behind in a
\* crash and breaks when it is old admits one request at a time to the slab's
\* directory, for any number of requests, tries, restarts and pieces that arrive
\* beside it, as long as no holder outlives its lock and no two break the same one.
THEOREM LockAdmitsOne == I!Spec => []LockExcludes
  <1>1. I!Init => IngestInv /\ LockInv
    BY IngestInit, IngestAssumption DEF I!Init, I!NoLock, LockInv
  <1>2. IngestInv /\ LockInv /\ [I!Next]_I!vars => (IngestInv /\ LockInv)'
    BY IngestType, LockStep, IngestAssumption
  <1>3. IngestInv /\ LockInv => LockExcludes
    <2>1. ASSUME LockInv PROVE I!LockExcludes
      <3>1. ~overrun => Cardinality({r \in Requests : held[r]}) <= 1
        BY <2>1, AtMostOneElement DEF LockInv
      <3>2. QED
        BY <3>1, CardinalitySame DEF I!LockExcludes
    <2>2. QED
      BY <2>1 DEF IngestInv, LockExcludes
  <1>4. QED
    BY <1>1, <1>2, <1>3, PTL DEF I!Spec

(***************************************************************************)
(* The slab.  When no piece arrives through /sp/upload_*, the place is     *)
(* free or has all of it: an os.Rename moves a directory as a whole, and   *)
(* nobody has a reason to merge into it or to remove it.                   *)
(***************************************************************************)
Whole == I!Dir(I!Entries)

WholeInv ==
    /\ final \in {I!None, Whole}
    /\ \A r \in Requests :
         /\ staging[r] \in {I!None, Whole}
         /\ pc[r] \notin {"merging", "removing", "replacing"}
         /\ pc[r] \in {"discarding", "unlocking", "uploading"} \/ job[r] = "success"
            => final = Whole

LEMMA WholeFacts ==
    ASSUME I!SlabIngestAssumption
    PROVE  /\ I!None # Whole /\ Whole.there /\ ~I!None.there
           /\ I!None.entries = {} /\ Whole.entries = I!Entries /\ I!Entries # {}
           /\ I!LooksComplete(Whole) /\ ~I!LooksComplete(I!None)
           /\ I!Marked(Whole) = Whole /\ I!Marked(I!None) = I!None
           /\ I!Artifacts \subseteq Whole.entries
  <1>1. I!Entries \cup {I!Marker} = I!Entries /\ I!Marker \in I!Entries
    BY DEF I!Entries
  <1>2. QED
    BY <1>1 DEF Whole, I!None, I!Dir, I!LooksComplete, I!Marked, I!Entries

LEMMA WholeStep ==
    ASSUME I!SlabIngestAssumption, ~shared, IngestInv, WholeInv, [I!Next]_I!vars
    PROVE  WholeInv'
  <1>0. /\ pc \in [Requests -> Places] /\ DOMAIN job = Requests
        /\ DOMAIN staging = Requests /\ staging = [r \in Requests |-> staging[r]]
    BY DEF IngestInv, I!TypeOK, Places
  <1> DEFINE Calm == Places \ {"merging", "removing", "replacing"}
             Settled == {"discarding", "unlocking", "uploading"}
  <1>1. ASSUME NEW r \in Requests, UNCHANGED <<final, job>>,
               \E d \in {I!None, Whole} : staging' = [staging EXCEPT ![r] = d],
               \E to \in Calm : pc' = [pc EXCEPT ![r] = to] /\ (to \in Settled => final = Whole)
        PROVE  WholeInv'
    <2>1. PICK d \in {I!None, Whole} : staging' = [staging EXCEPT ![r] = d]
      BY <1>1
    <2>2. PICK to \in Calm : pc' = [pc EXCEPT ![r] = to] /\ (to \in Settled => final = Whole)
      BY <1>1
    <2>3. \A q \in Requests : staging'[q] \in {I!None, Whole}
      BY <1>0, <2>1 DEF WholeInv
    <2>4. \A q \in Requests : pc'[q] \in Calm /\ (pc'[q] \in Settled => final = Whole)
      BY <1>0, <2>2 DEF WholeInv
    <2>5. QED
      BY <1>1, <2>3, <2>4 DEF WholeInv
  <1>2. ASSUME NEW r \in Requests, UNCHANGED <<final, job, staging>>,
               \E to \in Calm : pc' = [pc EXCEPT ![r] = to] /\ (to \in Settled => final = Whole)
        PROVE  WholeInv'
    <2>1. PICK to \in Calm : pc' = [pc EXCEPT ![r] = to] /\ (to \in Settled => final = Whole)
      BY <1>2
    <2>2. \A q \in Requests : pc'[q] \in Calm /\ (pc'[q] \in Settled => final = Whole)
      BY <1>0, <2>1 DEF WholeInv
    <2>3. QED
      BY <1>2, <2>2 DEF WholeInv
  <1>3. ASSUME NEW r \in Requests,
               \/ I!BuildFails(r) \/ I!Look(r) \/ I!TryLock(r) \/ I!Wait(r) \/ I!BreakLock(r)
               \/ I!Sleep(r) \/ I!RenameNothing(r) \/ I!UploadFails(r)
        PROVE  WholeInv'
    <2>1. UNCHANGED <<final, job, staging>>
      BY <1>3 DEF I!BuildFails, I!Look, I!TryLock, I!Wait, I!BreakLock, I!Sleep,
         I!RenameNothing, I!UploadFails
    <2>2. \E to \in Calm : pc' = [pc EXCEPT ![r] = to] /\ (to \in Settled => final = Whole)
      BY <1>3 DEF I!BuildFails, I!Look, I!TryLock, I!Wait, I!BreakLock, I!Sleep,
         I!RenameNothing, I!UploadFails, I!Go, Places
    <2>3. QED
      BY <1>2, <2>1, <2>2
  <1>4. ASSUME NEW r \in Requests, I!Begin(r) PROVE WholeInv'
    <2>1. /\ pc' = [pc EXCEPT ![r] = "building"] /\ job' = [job EXCEPT ![r] = "running"]
          /\ UNCHANGED <<final, staging>>
      BY <1>4 DEF I!Begin, I!Go, Places
    <2>2. QED
      BY <1>0, <2>1 DEF WholeInv
  <1>5. ASSUME NEW r \in Requests, I!Build(r) PROVE WholeInv'
    <2>1. UNCHANGED <<final, job>> /\ staging' = [staging EXCEPT ![r] = Whole]
      BY <1>5 DEF I!Build, Whole
    <2>2. \E to \in Calm : pc' = [pc EXCEPT ![r] = to] /\ (to \in Settled => final = Whole)
      <3>1. pc' = [pc EXCEPT ![r] = "looking"]
        BY <1>5 DEF I!Build, I!Go
      <3>2. "looking" \in Calm /\ "looking" \notin Settled
        BY DEF Places
      <3>3. QED
        BY <3>1, <3>2, Zenon
    <2>3. \E d \in {I!None, Whole} : staging' = [staging EXCEPT ![r] = d]
      BY <2>1
    <2>4. QED
      BY <1>1, <2>1, <2>2, <2>3
  <1>6. ASSUME NEW r \in Requests, I!FindComplete(r) PROVE WholeInv'
    <2>1. final = Whole
      BY <1>6, WholeFacts DEF I!FindComplete, WholeInv
    <2>2. UNCHANGED <<final, job, staging>>
      BY <1>6 DEF I!FindComplete
    <2>3. \E to \in Calm : pc' = [pc EXCEPT ![r] = to] /\ (to \in Settled => final = Whole)
      BY <1>6, <2>1 DEF I!FindComplete, I!Go, Places
    <2>4. QED
      BY <1>2, <2>2, <2>3
  <1>7. ASSUME NEW r \in Requests, I!Discard(r) \/ I!RenameOntoComplete(r) PROVE WholeInv'
    <2>1. /\ final' = I!Marked(final) /\ staging' = [staging EXCEPT ![r] = I!None]
          /\ \E to \in Calm : pc' = [pc EXCEPT ![r] = to]
          /\ job' = job /\ (pc[r] = "discarding" \/ I!LooksComplete(final))
      BY <1>7 DEF I!Discard, I!RenameOntoComplete, I!Go, Places
    <2>2. final = Whole
      BY <2>1, WholeFacts DEF WholeInv
    <2>3. final' = final
      BY <2>1, <2>2, WholeFacts
    <2>4. \E to \in Calm : pc' = [pc EXCEPT ![r] = to] /\ (to \in Settled => final = Whole)
      BY <2>1, <2>2
    <2>5. \E d \in {I!None, Whole} : staging' = [staging EXCEPT ![r] = d]
      BY <2>1
    <2>6. QED
      BY <1>1, <2>1, <2>3, <2>4, <2>5
  <1>8. ASSUME NEW r \in Requests, I!Rename(r) PROVE WholeInv'
    <2>1. /\ final' = staging[r] /\ staging' = [staging EXCEPT ![r] = I!None]
          /\ pc' = [pc EXCEPT ![r] = "unlocking"] /\ job' = job
          /\ staging[r].there
      BY <1>8 DEF I!Rename, I!Go, Places
    <2>2. final' = Whole
      BY <2>1, WholeFacts DEF WholeInv
    <2>3. QED
      BY <1>0, <2>1, <2>2 DEF WholeInv
  <1>9. ASSUME NEW r \in Requests, I!RenameOntoPartial(r) PROVE FALSE
    BY <1>9, WholeFacts DEF I!RenameOntoPartial, WholeInv
  <1>10. ASSUME NEW r \in Requests,
                \/ I!MergeEntry(r) \/ I!Merged(r) \/ I!MergeFails(r) \/ I!RemoveFinal(r)
                \/ I!Replace(r)
         PROVE  FALSE
    <2>1. pc[r] \in {"merging", "removing", "replacing"}
      BY <1>10 DEF I!MergeEntry, I!Merged, I!MergeFails, I!RemoveFinal, I!Replace, I!Go, Places
    <2>2. QED
      BY <2>1 DEF WholeInv
  <1>11. ASSUME NEW r \in Requests, I!Unlock(r) PROVE WholeInv'
    <2>1. /\ pc[r] = "unlocking" /\ pc' = [pc EXCEPT ![r] = "uploading"]
          /\ UNCHANGED <<final, job, staging>>
      BY <1>11 DEF I!Unlock, I!Go, Places
    <2>2. final = Whole
      BY <2>1 DEF WholeInv
    <2>3. \E to \in Calm : pc' = [pc EXCEPT ![r] = to] /\ (to \in Settled => final = Whole)
      <3>1. "uploading" \in Calm
        BY DEF Places
      <3>2. QED
        BY <2>1, <2>2, <3>1, Zenon
    <2>4. QED
      BY <1>2, <2>1, <2>3
  <1>12. ASSUME NEW r \in Requests, I!Succeed(r) PROVE WholeInv'
    <2>1. /\ pc[r] = "uploading" /\ pc' = [pc EXCEPT ![r] = "over"]
          /\ job' = [job EXCEPT ![r] = "success"] /\ UNCHANGED <<final, staging>>
      BY <1>12 DEF I!Succeed, I!Go, Places
    <2>2. final = Whole
      BY <2>1 DEF WholeInv
    <2>3. QED
      BY <1>0, <2>1, <2>2 DEF WholeInv
  <1>13. ASSUME NEW r \in Requests, I!Fail(r) PROVE WholeInv'
    <2>1. /\ pc' = [pc EXCEPT ![r] = "over"] /\ job' = [job EXCEPT ![r] = "error"]
          /\ staging' = [staging EXCEPT ![r] = I!None] /\ final' = final
      BY <1>13 DEF I!Fail, I!Go, Places
    <2>2. QED
      BY <1>0, <2>1 DEF WholeInv
  <1>14. CASE I!Crash
    <2>1. /\ pc' = [r \in Requests |-> IF pc[r] = "new" THEN "new" ELSE "over"]
          /\ job' = [r \in Requests |-> "none"] /\ UNCHANGED <<final, staging>>
      BY <1>14 DEF I!Crash
    <2>2. QED
      BY <2>1 DEF WholeInv
  <1>15. ASSUME NEW r \in Requests, I!Upload(r) PROVE WholeInv'
    BY <1>15 DEF I!Upload, WholeInv
  <1>16. CASE I!LockAges \/ UNCHANGED I!vars
    BY <1>16 DEF I!LockAges, I!vars, I!stepVars, WholeInv
  <1>17. ~I!SpUpload
    BY DEF I!SpUpload
  <1>18. QED
    BY <1>3, <1>4, <1>5, <1>6, <1>7, <1>8, <1>9, <1>10, <1>11, <1>12, <1>13, <1>14,
       <1>15, <1>16, <1>17
       DEF I!Next, I!Step, I!Handle, I!AcquireLock, I!Finalize

\* A directory that mode2DirLooksComplete accepts has every artifact, and the slab a
\* request has put in place keeps all of them while it uploads and after it has
\* succeeded: for any number of requests for the same content, with restarts between
\* any two steps and entries that cannot be moved.  It needs that no piece arrives
\* through /sp/upload_* meanwhile: those handlers do not take the lock.
THEOREM PlacedSlabIsWhole == I!Spec => []SlabStaysWhole
  <1> DEFINE Inv == IngestInv /\ (~shared => WholeInv)
  <1>1. I!Init => Inv
    <2>1. I!Init => WholeInv
      BY DEF I!Init, WholeInv
    <2>2. QED
      BY <2>1, IngestInit, IngestAssumption
  <1>2. Inv /\ [I!Next]_I!vars => Inv'
    <2>1. ASSUME [I!Next]_I!vars, Inv PROVE shared' = shared
      BY <2>1 DEF I!Next, I!vars
    <2>2. QED
      BY <2>1, IngestType, WholeStep, IngestAssumption
  <1>3. Inv => SlabStaysWhole
    BY WholeFacts, IngestAssumption
       DEF WholeInv, SlabStaysWhole, I!SlabStaysWhole, I!CompleteIsWhole, I!PlacedStaysWhole
  <1>4. QED
    BY <1>1, <1>2, <1>3, PTL DEF I!Spec
=============================================================================
