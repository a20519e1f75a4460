---------------------------- MODULE EscrowProofs ----------------------------
(***************************************************************************)
(* Proofs about the money: retrieval sessions implement RetrievalEscrow, a   *)
(* locked fee leaves its session once and goes where the outcome says, and   *)
(* the module account covers what the keeper owes.                           *)
(***************************************************************************)
EXTENDS NilChainProofs

\* What makes an opened session fresh for good: the nonce stored for its
\* owner, deal and provider has reached its own.
NoncesReached ==
    \A id \in DOMAIN sessions : id.nonce <= sessionNonce[SessionNonceKey(id)]
-----------------------------------------------------------------------------
(***************************************************************************)
(* No session is opened twice.                                               *)
(***************************************************************************)
\* A session that may be opened is not there yet.
LEMMA FreshIsNew ==
    ASSUME TypeOK, NoncesReached, NEW id \in SessionReqs, FreshSession(id)
    PROVE  id \notin DOMAIN sessions
  <1>1. SessionNonceKey(id) \in Users \X DealIds \X Providers
    BY SessionReqTyped DEF SessionNonceKey
  <1>2. sessionNonce[SessionNonceKey(id)] \in Nat /\ id.nonce \in Nat
    BY <1>1, SessionReqTyped DEF TypeOK
  <1>3. QED
    BY <1>2 DEF FreshSession, NoncesReached

\* A step that stores no new session and no nonce keeps the nonces reached.
LEMMA NoncesKept ==
    ASSUME NoncesReached, DOMAIN sessions' \subseteq DOMAIN sessions,
           UNCHANGED sessionNonce
    PROVE  NoncesReached'
  BY DEF NoncesReached, SessionNonceKey

\* Opening a session raises the nonce to the session's.
LEMMA OpenReachesNonce ==
    ASSUME TypeOK, NoncesReached, NEW sender, NEW id \in SessionReqs,
           OpenRetrievalSession(sender, id)
    PROVE  NoncesReached'
  <1> DEFINE key == SessionNonceKey(id)
  <1>1. key \in Users \X DealIds \X Providers
    BY SessionReqTyped DEF SessionNonceKey
  <1>2. /\ sessionNonce \in [Users \X DealIds \X Providers -> Nat]
        /\ DOMAIN sessions \subseteq SessionReqs
    BY DEF TypeOK
  <1>3. /\ sessionNonce' = [sessionNonce EXCEPT ![key] = id.nonce]
        /\ id.nonce > sessionNonce[key]
        /\ DOMAIN sessions' = DOMAIN sessions \cup {id}
    BY DEF OpenRetrievalSession, FreshSession, SetSession
  <1> HIDE DEF key
  <1>4. ASSUME NEW x \in DOMAIN sessions'
        PROVE  x.nonce <= sessionNonce'[SessionNonceKey(x)]
    <2>1. x \in SessionReqs /\ x.nonce \in Nat /\ id.nonce \in Nat
      BY <1>2, <1>3, SessionReqTyped
    <2>2. SessionNonceKey(x) \in Users \X DealIds \X Providers
      BY <2>1, SessionReqTyped DEF SessionNonceKey
    <2>3. x \in DOMAIN sessions => x.nonce <= sessionNonce[SessionNonceKey(x)]
      BY DEF NoncesReached
    <2>4. x \notin DOMAIN sessions => x = id
      BY <1>3
    <2>5. sessionNonce[SessionNonceKey(x)] \in Nat /\ sessionNonce[key] \in Nat
      BY <1>1, <1>2, <2>2
    <2>6. CASE SessionNonceKey(x) = key
      <3>1. sessionNonce'[SessionNonceKey(x)] = id.nonce
        BY <1>1, <1>2, <1>3, <2>6
      <3>2. QED
        BY <1>3, <2>1, <2>3, <2>4, <2>5, <2>6, <3>1
    <2>7. CASE SessionNonceKey(x) # key
      <3>1. sessionNonce'[SessionNonceKey(x)] = sessionNonce[SessionNonceKey(x)]
        BY <1>2, <1>3, <2>2, <2>7
      <3>2. x \in DOMAIN sessions
        BY <2>4, <2>7 DEF key
      <3>3. QED
        BY <2>3, <3>1, <3>2
    <2>8. QED
      BY <2>6, <2>7
  <1>5. QED
    BY <1>4 DEF NoncesReached, SessionNonceKey

\* Steps other than those of sessions leave sessions and their nonces alone.
LEMMA SessionsUntouched ==
    ASSUME RegistryNext \/ DealNext \/ ProofNext \/ PlacementNext
           \/ UNCHANGED vars
    PROVE  UNCHANGED <<height, sessions, sessionNonce>>
  <1>1. CASE RegistryNext
    BY <1>1 DEF RegistryNext, RegisterProvider, UpdateParams, nonceVars
  <1>2. CASE DealNext
    <2>1. ASSUME NEW u, NEW o, NEW m, OpenDeal(u, o, m)
          PROVE  UNCHANGED <<height, sessions>>
      BY <2>1 DEF OpenDeal
    <2>2. ASSUME NEW u, NEW d, NEW c, CommitContent(u, d, c)
          PROVE  UNCHANGED <<height, sessions>>
      BY <2>2 DEF CommitContent
    <2>3. ASSUME NEW u, NEW d, NEW x, AddCredit(u, d, x)
          PROVE  UNCHANGED <<height, sessions, sessionNonce>>
      BY <2>3 DEF AddCredit, nonceVars
    <2>4. QED
      BY <1>2, <2>1, <2>2, <2>3 DEF DealNext, CreateDeal, CreateDealFromEvm,
         UpdateDealContent, UpdateDealContentFromEvm, UseEvmNonce, nonceVars
  <1>3. CASE ProofNext
    <2> DEFINE Kept == UNCHANGED <<height, sessions, sessionNonce>>
    <2>1. ASSUME NEW p, NEW d, NEW s,
                 ProveLivenessSystem(p, d, s) \/ ProveLivenessSystemFails(p, d)
          PROVE  Kept
      BY <2>1 DEF ProveLivenessSystem, ProveLivenessSystemFails, AcceptProof, nonceVars
    <2>2. ASSUME NEW p, NEW d, NEW b, ProveLivenessReceipts(p, d, b) PROVE Kept
      BY <2>2 DEF ProveLivenessReceipts, AcceptProof
    <2>3. ASSUME NEW p, NEW d, NEW r, ProveLivenessSession(p, d, r) PROVE Kept
      BY <2>3 DEF ProveLivenessSession, AcceptProof
    <2>4. ASSUME NEW p, WithdrawRewards(p) PROVE Kept
      BY <2>4 DEF WithdrawRewards, nonceVars
    <2> HIDE DEF Kept
    <2>5. Kept
      BY <1>3, <2>1, <2>2, <2>3, <2>4 DEF ProofNext
    <2>6. QED
      BY <2>5 DEF Kept
  <1>4. CASE PlacementNext
    BY <1>4 DEF PlacementNext, SignalSaturation, StartSlotRepair,
       CompleteSlotRepair, nonceVars
  <1>5. CASE UNCHANGED vars
    BY <1>5 DEF vars, nonceVars
  <1>6. QED
    BY <1>1, <1>2, <1>3, <1>4, <1>5

\* Every step keeps the nonces reached.
LEMMA NextNonces ==
    TypeOK /\ NoncesReached /\ [Next]_vars => NoncesReached'
  <1> SUFFICES ASSUME TypeOK, NoncesReached, [Next]_vars PROVE NoncesReached'
    OBVIOUS
  <1>1. CASE RegistryNext \/ DealNext \/ ProofNext \/ PlacementNext
             \/ UNCHANGED vars
    BY <1>1, SessionsUntouched, NoncesKept
  <1>2. CASE EndBlock
    BY <1>2, NoncesKept DEF EndBlock, nonceVars
  <1>3. CASE SessionNext
    <2>1. ASSUME NEW u \in Users, NEW id \in SessionReqs,
                 OpenRetrievalSession(u, id)
          PROVE  NoncesReached'
      BY <2>1, OpenReachesNonce
    <2>2. ASSUME NEW u \in Users, NEW id \in SessionReqs,
                 ConfirmRetrievalSession(u, id)
          PROVE  NoncesReached'
      BY <2>2, NoncesKept
      DEF ConfirmRetrievalSession, AdvanceSession, SetSession, nonceVars
    <2>3. ASSUME NEW p \in Providers, NEW id \in SessionReqs,
                 SubmitRetrievalSessionProof(p, id)
          PROVE  NoncesReached'
      BY <2>3, NoncesKept
      DEF SubmitRetrievalSessionProof, AdvanceSession, SetSession, nonceVars
    <2>4. ASSUME NEW u \in Users, NEW id \in SessionReqs,
                 CancelRetrievalSession(u, id)
          PROVE  NoncesReached'
      BY <2>4, NoncesKept DEF CancelRetrievalSession, SetSession, nonceVars
    <2>5. QED
      BY <1>3, <2>1, <2>2, <2>3, <2>4 DEF SessionNext
  <1>4. QED
    BY <1>1, <1>2, <1>3 DEF Next

\* The nonces are reached in every reachable state.
LEMMA NoncesAlwaysReached == Spec => []NoncesReached
  <1>1. Init => NoncesReached
    BY DEF Init, NoncesReached
  <1>2. QED
    BY <1>1, NextNonces, TypeCorrect, PTL DEF Spec
-----------------------------------------------------------------------------
(***************************************************************************)
(* The refinement.  Phases and Agreements are what phase and agreed of       *)
(* RetrievalEscrow are mapped to.                                            *)
(***************************************************************************)
Phases == [id \in SessionReqs |-> PhaseOf(id)]
Agreements == [id \in SessionReqs |-> AgreedOf(id)]

\* The phase and the agreements of a session with a given status.
PhaseOfStatus(status) ==
    IF status = "COMPLETED" THEN "paid"
    ELSE IF status = "CANCELED" THEN "returned" ELSE "held"
AgreedOfStatus(status) ==
    (IF status \in {"PROOF_SUBMITTED", "COMPLETED"} THEN {"provider"} ELSE {})
    \cup
    (IF status \in {"USER_CONFIRMED", "COMPLETED"} THEN {"owner"} ELSE {})

\* Storing one session changes the image of that session only.
LEMMA OneSessionMapped ==
    ASSUME TypeOK, NEW id \in SessionReqs, NEW s,
           sessions' = SetSession(id, s)
    PROVE  /\ Phases' = [Phases EXCEPT ![id] = PhaseOfStatus(s.status)]
           /\ Agreements' = [Agreements EXCEPT ![id] = AgreedOfStatus(s.status)]
  <1>1. /\ DOMAIN sessions' = DOMAIN sessions \cup {id}
        /\ sessions'[id] = s
        /\ \A x \in DOMAIN sessions : x # id => sessions'[x] = sessions[x]
    BY DEF SetSession
  <1>2. /\ PhaseOf(id)' = PhaseOfStatus(s.status)
        /\ AgreedOf(id)' = AgreedOfStatus(s.status)
    BY <1>1 DEF PhaseOf, AgreedOf, PhaseOfStatus, AgreedOfStatus
  <1>3. ASSUME NEW x \in SessionReqs, x # id
        PROVE  PhaseOf(x)' = PhaseOf(x) /\ AgreedOf(x)' = AgreedOf(x)
    <2>1. x \in DOMAIN sessions' <=> x \in DOMAIN sessions
      BY <1>1, <1>3
    <2>2. x \in DOMAIN sessions => sessions'[x] = sessions[x]
      BY <1>1, <1>3
    <2>3. QED
      BY <2>1, <2>2 DEF PhaseOf, AgreedOf
  <1>4. QED
    BY <1>2, <1>3 DEF Phases, Agreements

\* The image of a session that is there.
LEMMA SessionImage ==
    ASSUME TypeOK, NEW id \in DOMAIN sessions
    PROVE  /\ Phases[id] = PhaseOfStatus(sessions[id].status)
           /\ Agreements[id] = AgreedOfStatus(sessions[id].status)
  BY DEF TypeOK, Phases, Agreements, PhaseOf, AgreedOf, PhaseOfStatus,
         AgreedOfStatus

\* The deadline of the abstract specification is that of the code.
LEMMA InTimeMeans ==
    ASSUME TypeOK, NEW id \in SessionReqs
    PROVE  Escrow!InTime(id) <=> ~isSessionExpired(id)
  <1>1. id.expires \in Nat /\ height \in Nat
    BY NilChainAssumption DEF TypeOK, SessionReq
  <1>2. QED
    BY <1>1 DEF Escrow!InTime, isSessionExpired

\* Opening a session holds its fee.
LEMMA OpenHolds ==
    ASSUME TypeOK, NoncesReached, NEW sender, NEW id \in SessionReqs,
           OpenRetrievalSession(sender, id)
    PROVE  Escrow!Hold(id)
  <1> DEFINE s == [status |-> "OPEN",
                   locked |-> VariableFee(params.blobPrice, id.blobs)]
  <1>1. /\ FreshSession(id)
        /\ sessions' = SetSession(id, s)
        /\ UNCHANGED height
    BY DEF OpenRetrievalSession
  <1>2. id \notin DOMAIN sessions
    BY <1>1, FreshIsNew
  <1>3. Phases[id] = "none" /\ Agreements[id] = {}
    BY <1>2 DEF Phases, PhaseOf, Agreements, AgreedOf
  <1>4. s.status = "OPEN"
    OBVIOUS
  <1> HIDE DEF s
  <1>5. /\ PhaseOfStatus(s.status) = "held"
        /\ AgreedOfStatus(s.status) = {}
    BY <1>4 DEF PhaseOfStatus, AgreedOfStatus
  <1>6. /\ Phases' = [Phases EXCEPT ![id] = "held"]
        /\ Agreements' = [Agreements EXCEPT ![id] = {}]
    BY <1>1, <1>5, OneSessionMapped
  <1>7. Agreements' = Agreements
    BY <1>3, <1>6 DEF Agreements
  <1>8. QED
    BY <1>1, <1>3, <1>6, <1>7 DEF Escrow!Hold, Phases, Agreements

\* Storing a session as it was changes no image.
LEMMA SameStatusStutters ==
    ASSUME TypeOK, NEW id \in DOMAIN sessions, NEW s,
           s.status = sessions[id].status, sessions' = SetSession(id, s)
    PROVE  UNCHANGED <<Phases, Agreements>>
  <1>1. id \in SessionReqs
    BY DEF TypeOK
  <1>2. /\ Phases' = [Phases EXCEPT ![id] = Phases[id]]
        /\ Agreements' = [Agreements EXCEPT ![id] = Agreements[id]]
    BY <1>1, OneSessionMapped, SessionImage
  <1>3. QED
    BY <1>1, <1>2 DEF Phases, Agreements

\* An answer of one party, in time, to a session that lacks it, is that
\* party's agreement, and pays the fee if it was the second.
LEMMA AnswerAgrees ==
    ASSUME TypeOK, NEW id \in DOMAIN sessions, NEW party, NEW s,
           Escrow!InTime(id), UNCHANGED height, sessions' = SetSession(id, s),
           \/ /\ party = "owner"
              /\ sessions[id].status \in {"OPEN", "PROOF_SUBMITTED"}
              /\ s.status = Confirmed(sessions[id].status)
           \/ /\ party = "provider"
              /\ sessions[id].status \in {"OPEN", "USER_CONFIRMED"}
              /\ s.status = Proved(sessions[id].status)
    PROVE  Escrow!Agree(id, party)
  <1> DEFINE old == sessions[id].status
             new == s.status
  <1>1. id \in SessionReqs
    BY DEF TypeOK
  <1>2. /\ Phases[id] = PhaseOfStatus(old)
        /\ Agreements[id] = AgreedOfStatus(old)
    BY SessionImage
  <1>3. /\ Phases' = [Phases EXCEPT ![id] = PhaseOfStatus(new)]
        /\ Agreements' = [Agreements EXCEPT ![id] = AgreedOfStatus(new)]
    BY <1>1, OneSessionMapped
  <1>4. \/ party = "owner" /\ old = "OPEN" /\ new = "USER_CONFIRMED"
        \/ party = "owner" /\ old = "PROOF_SUBMITTED" /\ new = "COMPLETED"
        \/ party = "provider" /\ old = "OPEN" /\ new = "PROOF_SUBMITTED"
        \/ party = "provider" /\ old = "USER_CONFIRMED" /\ new = "COMPLETED"
    BY DEF Confirmed, Proved
  <1> HIDE DEF old, new
  <1>5. /\ PhaseOfStatus(old) = "held"
        /\ party \notin AgreedOfStatus(old)
        /\ AgreedOfStatus(new) = AgreedOfStatus(old) \cup {party}
        /\ PhaseOfStatus(new) = IF AgreedOfStatus(new) = {"owner", "provider"}
                                THEN "paid" ELSE "held"
    BY <1>4 DEF PhaseOfStatus, AgreedOfStatus
  <1>6. Agreements'[id] = AgreedOfStatus(new)
    BY <1>1, <1>3 DEF Agreements
  <1>7. QED
    BY <1>2, <1>3, <1>5, <1>6
    DEF Escrow!Agree, Escrow!Parties, Phases, Agreements

\* A confirmation is the owner's agreement, or changes no image.
LEMMA ConfirmAgrees ==
    ASSUME TypeOK, NEW sender, NEW id \in SessionReqs,
           ConfirmRetrievalSession(sender, id)
    PROVE  \/ Escrow!Agree(id, "owner")
           \/ UNCHANGED <<height, Phases, Agreements>>
  <1> DEFINE new == Confirmed(sessions[id].status)
             s   == [status |-> new, locked |-> LockedAfter(id, new)]
  <1>1. /\ id \in DOMAIN sessions
        /\ ~isSessionExpired(id)
        /\ sessions[id].status # "COMPLETED"
        /\ sessions' = SetSession(id, s)
        /\ UNCHANGED height
    BY DEF ConfirmRetrievalSession, AdvanceSession
  <1>2. s.status = new
    OBVIOUS
  <1>3. Escrow!InTime(id)
    BY <1>1, InTimeMeans
  <1>4. sessions[id].status \in {"OPEN", "PROOF_SUBMITTED"}
        \/ new = sessions[id].status
    BY DEF Confirmed
  <1> HIDE DEF s
  <1>5. QED
    BY <1>1, <1>2, <1>3, <1>4, AnswerAgrees, SameStatusStutters

\* A proof is the provider's agreement, or changes no image.
LEMMA ProofAgrees ==
    ASSUME TypeOK, NEW sender, NEW id \in SessionReqs,
           SubmitRetrievalSessionProof(sender, id)
    PROVE  \/ Escrow!Agree(id, "provider")
           \/ UNCHANGED <<height, Phases, Agreements>>
  <1> DEFINE new == Proved(sessions[id].status)
             s   == [status |-> new, locked |-> LockedAfter(id, new)]
  <1>1. /\ id \in DOMAIN sessions
        /\ ~isSessionExpired(id)
        /\ sessions[id].status # "COMPLETED"
        /\ sessions' = SetSession(id, s)
        /\ UNCHANGED height
    BY DEF SubmitRetrievalSessionProof, AdvanceSession
  <1>2. s.status = new
    OBVIOUS
  <1>3. Escrow!InTime(id)
    BY <1>1, InTimeMeans
  <1>4. sessions[id].status \in {"OPEN", "USER_CONFIRMED"}
        \/ new = sessions[id].status
    BY DEF Proved
  <1> HIDE DEF s
  <1>5. QED
    BY <1>1, <1>2, <1>3, <1>4, AnswerAgrees, SameStatusStutters

\* A cancel returns the fee of an expired session.
LEMMA CancelReturns ==
    ASSUME TypeOK, NEW sender, NEW id \in SessionReqs,
           CancelRetrievalSession(sender, id)
    PROVE  Escrow!Return(id)
  <1> DEFINE s == [status |-> "CANCELED", locked |-> 0]
  <1>1. /\ id \in DOMAIN sessions
        /\ sessions[id].status \notin {"COMPLETED", "CANCELED"}
        /\ isSessionExpired(id)
        /\ sessions' = SetSession(id, s)
        /\ UNCHANGED height
    BY DEF CancelRetrievalSession, Closed
  <1>2. s.status = "CANCELED"
    OBVIOUS
  <1> HIDE DEF s
  <1>3. /\ PhaseOfStatus(s.status) = "returned"
        /\ AgreedOfStatus(s.status) = {}
    BY <1>2 DEF PhaseOfStatus, AgreedOfStatus
  <1>4. /\ Phases' = [Phases EXCEPT ![id] = "returned"]
        /\ Agreements' = [Agreements EXCEPT ![id] = {}]
    BY <1>1, <1>3, OneSessionMapped
  <1>5. Phases[id] = "held"
    BY <1>1, SessionImage DEF PhaseOfStatus
  <1>6. ~Escrow!InTime(id)
    BY <1>1, InTimeMeans
  <1>7. QED
    BY <1>1, <1>4, <1>5, <1>6 DEF Escrow!Return, Phases, Agreements

\* Steps that touch no session change no image.
LEMMA SameSessionsStutter ==
    ASSUME UNCHANGED sessions
    PROVE  UNCHANGED <<Phases, Agreements>>
  BY DEF Phases, Agreements, PhaseOf, AgreedOf

\* Every step of the chain is a step of RetrievalEscrow or changes no image.
LEMMA StepImplements ==
    TypeOK /\ NoncesReached /\ [Next]_vars
        => [Escrow!EscrowNext]_(Escrow!escrowVars)
  <1> SUFFICES ASSUME TypeOK, NoncesReached, [Next]_vars
               PROVE  Escrow!EscrowNext \/ UNCHANGED <<height, Phases, Agreements>>
    BY DEF Escrow!escrowVars, Phases, Agreements
  <1>1. CASE RegistryNext \/ DealNext \/ ProofNext \/ PlacementNext
             \/ UNCHANGED vars
    BY <1>1, SessionsUntouched, SameSessionsStutter
  <1>2. CASE EndBlock
    <2>1. height' = height + 1 /\ UNCHANGED sessions
      BY <1>2 DEF EndBlock
    <2>2. UNCHANGED <<Phases, Agreements>>
      BY <2>1, SameSessionsStutter
    <2>3. Escrow!Tick
      BY <2>1, <2>2 DEF Escrow!Tick, Phases, Agreements
    <2>4. QED
      BY <2>3 DEF Escrow!EscrowNext
  <1>3. CASE SessionNext
    <2>1. ASSUME NEW u \in Users, NEW id \in SessionReqs,
                 OpenRetrievalSession(u, id)
          PROVE  Escrow!EscrowNext
      BY <2>1, OpenHolds DEF Escrow!EscrowNext
    <2>2. ASSUME NEW u \in Users, NEW id \in SessionReqs,
                 ConfirmRetrievalSession(u, id)
          PROVE  Escrow!EscrowNext \/ UNCHANGED <<height, Phases, Agreements>>
      BY <2>2, ConfirmAgrees DEF Escrow!EscrowNext, Escrow!Parties
    <2>3. ASSUME NEW p \in Providers, NEW id \in SessionReqs,
                 SubmitRetrievalSessionProof(p, id)
          PROVE  Escrow!EscrowNext \/ UNCHANGED <<height, Phases, Agreements>>
      BY <2>3, ProofAgrees DEF Escrow!EscrowNext, Escrow!Parties
    <2>4. ASSUME NEW u \in Users, NEW id \in SessionReqs,
                 CancelRetrievalSession(u, id)
          PROVE  Escrow!EscrowNext
      BY <2>4, CancelReturns DEF Escrow!EscrowNext
    <2>5. QED
      BY <1>3, <2>1, <2>2, <2>3, <2>4 DEF SessionNext
  <1>4. QED
    BY <1>1, <1>2, <1>3 DEF Next

\* Initially every phase is none.
LEMMA InitImplements == Init => Escrow!EscrowInit
  BY DEF Init, Escrow!EscrowInit, PhaseOf, AgreedOf

\* Retrieval sessions implement RetrievalEscrow: whatever the owner, the
\* provider, governance and the blocks do in whatever order, a fee is held
\* once, paid only after both parties answered in time, returned only after
\* the deadline, and never both.
THEOREM SessionsImplementEscrow == Spec => SessionsAreEscrowed
  <1>1. Spec => Escrow!EscrowInit /\ [][Escrow!EscrowNext]_(Escrow!escrowVars)
    BY InitImplements, StepImplements, TypeCorrect, NoncesAlwaysReached, PTL
    DEF Spec
  <1>2. QED
    BY <1>1 DEF SessionsAreEscrowed, Escrow!EscrowSpec
-----------------------------------------------------------------------------
(***************************************************************************)
(* Where a locked fee goes.                                                  *)
(***************************************************************************)
\* A session a step does not store keeps its fee.
LEMMA OtherFeesKept ==
    ASSUME NEW id \in DOMAIN sessions, sessions'[id] = sessions[id]
    PROVE  FeeReleased(id)
  BY DEF FeeReleased

\* Storing one session leaves the others as they are.
LEMMA SetSessionKeepsOthers ==
    ASSUME NEW x, NEW s, sessions' = SetSession(x, s),
           NEW id \in DOMAIN sessions
    PROVE  sessions'[id] = IF id = x THEN s ELSE sessions[id]
  BY DEF SetSession

\* Settlement takes exactly the locked fee out of the module account.
LEMMA SettleTakesFee ==
    ASSUME TypeOK, NEW id \in DOMAIN sessions
    PROVE  Settle(balance, id)[Module] = balance[Module] - sessions[id].locked
  <1> DEFINE variable == sessions[id].locked
             burn     == BurnShare(variable, params.burnBps)
  <1>1. variable \in Nat
    BY DEF TypeOK, Session
  <1>2. params.burnBps \in Nat
    BY BurnBpsType DEF TypeOK
  <1>3. burn \in Nat
    BY <1>1, <1>2, BurnShareType
  <1>4. /\ balance \in [Accounts -> Nat]
        /\ Module \in Accounts
        /\ balance[Module] \in Nat
    BY AccountsInclude DEF TypeOK
  <1>5. id.provider # Module
    BY SessionReqTyped, NilChainAssumption DEF TypeOK
  <1>6. Settle(balance, id) =
          Send(BurnCoins(balance, burn), Module, id.provider, variable - burn)
    BY DEF Settle
  <1> HIDE DEF variable, burn
  <1>7. Settle(balance, id)[Module] = (balance[Module] - burn) - (variable - burn)
    BY <1>4, <1>5, <1>6 DEF Send, BurnCoins
  <1>8. Settle(balance, id)[Module] = balance[Module] - variable
    BY <1>1, <1>3, <1>4, <1>7
  <1>9. QED
    BY <1>8 DEF variable

\* An answer releases the fee of its session only by completing it.
LEMMA AdvanceReleases ==
    ASSUME TypeOK, NEW x \in DOMAIN sessions, NEW status,
           AdvanceSession(x, status), NEW id \in DOMAIN sessions
    PROVE  FeeReleased(id)
  <1> DEFINE s == [status |-> status, locked |-> LockedAfter(x, status)]
  <1>1. sessions' = SetSession(x, s) /\ UNCHANGED deals
    BY DEF AdvanceSession
  <1>2. s.status = status /\ s.locked = LockedAfter(x, status)
    OBVIOUS
  <1> HIDE DEF s
  <1>3. CASE id # x
    BY <1>1, <1>3, SetSessionKeepsOthers, OtherFeesKept
  <1>4. CASE id = x
    <2>1. sessions'[id] = s
      BY <1>1, <1>4, SetSessionKeepsOthers
    <2>2. CASE status = "COMPLETED"
      <3>1. s.locked = 0
        BY <1>2, <2>2 DEF LockedAfter
      <3>2. balance' = Settle(balance, id)
        BY <1>4, <2>2 DEF AdvanceSession
      <3>3. balance'[Module] = balance[Module] - sessions[id].locked
        BY <3>2, SettleTakesFee
      <3>4. QED
        BY <1>1, <1>2, <2>1, <2>2, <3>1, <3>3 DEF FeeReleased
    <2>3. CASE status # "COMPLETED"
      <3>1. s.locked = sessions[id].locked
        BY <1>2, <1>4, <2>3 DEF LockedAfter
      <3>2. QED
        BY <2>1, <3>1 DEF FeeReleased
    <2>4. QED
      BY <2>2, <2>3
  <1>5. QED
    BY <1>3, <1>4

\* A cancel puts the fee of its session back into the deal's escrow.
LEMMA CancelReleases ==
    ASSUME TypeOK, NEW sender, NEW x \in SessionReqs,
           CancelRetrievalSession(sender, x), NEW id \in DOMAIN sessions
    PROVE  FeeReleased(id)
  <1> DEFINE s == [status |-> "CANCELED", locked |-> 0]
             e == deals[x.deal].escrow + sessions[x].locked
  <1>1. /\ x \in DOMAIN sessions
        /\ sessions' = SetSession(x, s)
        /\ deals' = [deals EXCEPT ![x.deal].escrow = e]
        /\ balance' = balance
    BY DEF CancelRetrievalSession, bankVars
  <1>2. s.status = "CANCELED" /\ s.locked = 0
    OBVIOUS
  <1> HIDE DEF s
  <1>3. CASE id # x
    BY <1>1, <1>3, SetSessionKeepsOthers, OtherFeesKept
  <1>4. CASE id = x
    <2>1. sessions'[id] = s
      BY <1>1, <1>4, SetSessionKeepsOthers
    <2>2. x.deal \in DOMAIN deals /\ deals[x.deal] \in Deal
      BY <1>1, DealTyped DEF TypeOK
    <2>3. deals'[x.deal] = [deals[x.deal] EXCEPT !.escrow = e]
      BY <1>1, <2>2
    <2> HIDE DEF e
    <2>4. deals'[x.deal].escrow = e
      BY <2>2, <2>3 DEF Deal
    <2>5. deals'[id.deal].escrow = deals[id.deal].escrow + sessions[id].locked
      BY <1>4, <2>4 DEF e
    <2>6. QED
      BY <1>1, <1>2, <2>1, <2>5 DEF FeeReleased
  <1>5. QED
    BY <1>3, <1>4

\* No step changes the fee of a session in any other way.
LEMMA StepReleases ==
    TypeOK /\ NoncesReached /\ [Next]_vars
        => [\A id \in DOMAIN sessions : FeeReleased(id)]_vars
  <1> SUFFICES ASSUME TypeOK, NoncesReached, Next, NEW id \in DOMAIN sessions
               PROVE  FeeReleased(id)
    OBVIOUS
  <1>1. CASE RegistryNext \/ DealNext \/ ProofNext \/ PlacementNext
    BY <1>1, SessionsUntouched, OtherFeesKept
  <1>2. CASE EndBlock
    BY <1>2, OtherFeesKept DEF EndBlock
  <1>3. CASE SessionNext
    <2>1. ASSUME NEW u \in Users, NEW x \in SessionReqs,
                 OpenRetrievalSession(u, x)
          PROVE  FeeReleased(id)
      <3> DEFINE s == [status |-> "OPEN",
                       locked |-> VariableFee(params.blobPrice, x.blobs)]
      <3>1. FreshSession(x) /\ sessions' = SetSession(x, s)
        BY <2>1 DEF OpenRetrievalSession
      <3>2. id # x
        BY <3>1, FreshIsNew
      <3> HIDE DEF s
      <3>3. QED
        BY <3>1, <3>2, SetSessionKeepsOthers, OtherFeesKept
    <2>2. ASSUME NEW u \in Users, NEW x \in SessionReqs,
                 ConfirmRetrievalSession(u, x)
          PROVE  FeeReleased(id)
      BY <2>2, AdvanceReleases DEF ConfirmRetrievalSession
    <2>3. ASSUME NEW p \in Providers, NEW x \in SessionReqs,
                 SubmitRetrievalSessionProof(p, x)
          PROVE  FeeReleased(id)
      BY <2>3, AdvanceReleases DEF SubmitRetrievalSessionProof
    <2>4. ASSUME NEW u \in Users, NEW x \in SessionReqs,
                 CancelRetrievalSession(u, x)
          PROVE  FeeReleased(id)
      BY <2>4, CancelReleases
    <2>5. QED
      BY <1>3, <2>1, <2>2, <2>3, <2>4 DEF SessionNext
  <1>4. QED
    BY <1>1, <1>2, <1>3 DEF Next

\* A locked fee leaves its session in one step: out of the module account,
\* to the last coin, when the session completes, or back into the escrow of
\* the same deal when it is cancelled.  No other step changes it.
THEOREM FeesFollowOutcomes == Spec => FeeFollowsOutcome
  BY StepReleases, TypeCorrect, NoncesAlwaysReached, PTL
  DEF Spec, FeeFollowsOutcome

-----------------------------------------------------------------------------
(***************************************************************************)
(* The module account always covers what the keeper owes: all escrow        *)
(* balances and all fees locked in retrieval sessions.  Both are sums over   *)
(* records; Solvent counts them as sets with one element per coin, so that   *)
(* every handler adds or removes one pile of coins.                          *)
(***************************************************************************)
Pile(x, n) == {x} \X (1..n)

\* The inductive invariant: solvency, and what makes the sums meaningful.
SolventInv ==
    /\ IsFiniteSet(EscrowCoins)
    /\ IsFiniteSet(LockedCoins)
    /\ Solvent
-----------------------------------------------------------------------------
(***************************************************************************)
(* Counting coins.                                                           *)
(***************************************************************************)
\* A pile of n coins has n elements.
LEMMA PileSize ==
    ASSUME NEW x, NEW n \in Nat
    PROVE  IsFiniteSet(Pile(x, n)) /\ Cardinality(Pile(x, n)) = n
  <1>1. IsFiniteSet({x}) /\ Cardinality({x}) = 1
    BY FS_Singleton
  <1>2. IsFiniteSet(1..n) /\ Cardinality(1..n) = n
    <2>1. 1 \in Int /\ n \in Int
      OBVIOUS
    <2>2. /\ IsFiniteSet(1..n)
          /\ Cardinality(1..n) = IF 1 > n THEN 0 ELSE n - 1 + 1
      BY <2>1, FS_Interval
    <2>3. (IF 1 > n THEN 0 ELSE n - 1 + 1) = n
      OBVIOUS
    <2>4. QED
      BY <2>2, <2>3
  <1>3. /\ IsFiniteSet({x} \X (1..n))
        /\ Cardinality({x} \X (1..n)) = Cardinality({x}) * Cardinality(1..n)
    BY <1>1, <1>2, FS_Product
  <1>4. Cardinality({x}) * Cardinality(1..n) = n
    BY <1>1, <1>2
  <1>5. QED
    BY <1>3, <1>4 DEF Pile

\* Adding a pile to coins that have none of it.
LEMMA PileAdded ==
    ASSUME NEW R, IsFiniteSet(R), NEW x, NEW n \in Nat, R \cap Pile(x, n) = {}
    PROVE  /\ IsFiniteSet(R \cup Pile(x, n))
           /\ Cardinality(R \cup Pile(x, n)) = Cardinality(R) + n
           /\ Cardinality(R) \in Nat
  <1>1. IsFiniteSet(Pile(x, n)) /\ Cardinality(Pile(x, n)) = n
    BY PileSize
  <1>2. Cardinality(R) \in Nat
    BY FS_CardinalityType
  <1>3. /\ IsFiniteSet(R \cup Pile(x, n))
        /\ Cardinality(R \cup Pile(x, n)) =
              Cardinality(R) + Cardinality(Pile(x, n))
              - Cardinality(R \cap Pile(x, n))
    BY <1>1, FS_Union
  <1>4. Cardinality(R \cap Pile(x, n)) = 0
    BY FS_EmptySet, Zenon
  <1>5. QED
    BY <1>1, <1>2, <1>3, <1>4

\* The coins of f other than those of x.
Rest(f, x) == UNION {Pile(y, f[y]) : y \in DOMAIN f \ {x}}

\* Coins are the rest and the pile of x, and the two are disjoint.
LEMMA CoinsSplit ==
    ASSUME NEW f, NEW x
    PROVE  /\ x \in DOMAIN f => Coins(f) = Rest(f, x) \cup Pile(x, f[x])
           /\ x \notin DOMAIN f => Coins(f) = Rest(f, x)
           /\ \A n : Rest(f, x) \cap Pile(x, n) = {}
  <1>1. x \in DOMAIN f => Coins(f) = Rest(f, x) \cup Pile(x, f[x])
    BY DEF Coins, Rest, Pile
  <1>2. x \notin DOMAIN f => Coins(f) = Rest(f, x)
    BY DEF Coins, Rest, Pile
  <1>3. \A n : Rest(f, x) \cap Pile(x, n) = {}
    BY DEF Rest, Pile
  <1>4. QED
    BY <1>1, <1>2, <1>3

\* g is f with a pile of n coins at x, and what that does to their number.
PileGiven(f, g, x, n) ==
    /\ IsFiniteSet(Coins(f))
    /\ x \in DOMAIN f => f[x] \in Nat
    /\ DOMAIN g = DOMAIN f \cup {x}
    /\ g[x] = n
    /\ \A y \in DOMAIN f : y # x => g[y] = f[y]

PileCounted(f, g, x, n) ==
    /\ IsFiniteSet(Coins(g))
    /\ Cardinality(Coins(g)) \in Nat
    /\ x \in DOMAIN f =>
          Cardinality(Coins(g)) + f[x] = Cardinality(Coins(f)) + n
    /\ x \notin DOMAIN f =>
          Cardinality(Coins(g)) = Cardinality(Coins(f)) + n

\* Giving x a pile of n coins changes their number by n less what x had.
LEMMA CoinsSet ==
    ASSUME NEW f, NEW g, NEW x, NEW n \in Nat, PileGiven(f, g, x, n)
    PROVE  PileCounted(f, g, x, n)
  <1>0. /\ IsFiniteSet(Coins(f))
        /\ x \in DOMAIN f => f[x] \in Nat
        /\ DOMAIN g = DOMAIN f \cup {x}
        /\ g[x] = n
        /\ \A y \in DOMAIN f : y # x => g[y] = f[y]
    BY DEF PileGiven
  <1> DEFINE R == Rest(f, x)
  <1>1. R \subseteq Coins(f)
    BY CoinsSplit
  <1>2. IsFiniteSet(R)
    BY <1>0, <1>1, FS_Subset
  <1>3. Rest(g, x) = R
    <2>1. DOMAIN g \ {x} = DOMAIN f \ {x}
      BY <1>0
    <2>2. \A y \in DOMAIN f \ {x} : g[y] = f[y]
      BY <1>0
    <2>3. QED
      BY <2>1, <2>2 DEF Rest
  <1> HIDE DEF R
  <1>4. Coins(g) = R \cup Pile(x, n)
    <2>1. x \in DOMAIN g
      BY <1>0, Zenon
    <2>2. Coins(g) = Rest(g, x) \cup Pile(x, g[x])
      BY <2>1, CoinsSplit
    <2>3. g[x] = n
      BY <1>0, Zenon
    <2>4. Coins(g) = R \cup Pile(x, g[x])
      BY <1>3, <2>2, Zenon
    <2>5. Pile(x, g[x]) = Pile(x, n)
      BY <2>3
    <2>6. QED
      BY <2>4, <2>5
  <1>5. R \cap Pile(x, n) = {}
    BY CoinsSplit DEF R
  <1>6. /\ IsFiniteSet(Coins(g))
        /\ Cardinality(Coins(g)) = Cardinality(R) + n
        /\ Cardinality(R) \in Nat
    <2>1. /\ IsFiniteSet(R \cup Pile(x, n))
          /\ Cardinality(R \cup Pile(x, n)) = Cardinality(R) + n
          /\ Cardinality(R) \in Nat
      BY <1>2, <1>5, PileAdded
    <2>2. QED
      BY <1>4, <2>1
  <1>7. Cardinality(Coins(f)) \in Nat
    BY <1>0, FS_CardinalityType
  <1>8. x \in DOMAIN f => Cardinality(Coins(f)) = Cardinality(R) + f[x]
    <2> SUFFICES ASSUME x \in DOMAIN f
                 PROVE  Cardinality(Coins(f)) = Cardinality(R) + f[x]
      OBVIOUS
    <2>1. Coins(f) = R \cup Pile(x, f[x]) /\ R \cap Pile(x, f[x]) = {}
      BY CoinsSplit DEF R
    <2>2. f[x] \in Nat
      BY <1>0
    <2>3. Cardinality(R \cup Pile(x, f[x])) = Cardinality(R) + f[x]
      BY <1>2, <2>1, <2>2, PileAdded
    <2>4. QED
      BY <2>1, <2>3
  <1>9. x \notin DOMAIN f => Coins(f) = R
    BY CoinsSplit DEF R
  <1>10. ASSUME x \in DOMAIN f
         PROVE  Cardinality(Coins(g)) + f[x] = Cardinality(Coins(f)) + n
    <2>1. f[x] \in Nat
      BY <1>0, <1>10
    <2>2. QED
      BY <1>6, <1>7, <1>8, <1>10, <2>1
  <1>11. QED
    BY <1>6, <1>7, <1>9, <1>10 DEF PileCounted
-----------------------------------------------------------------------------
(***************************************************************************)
(* What a step does to the two sums.                                         *)
(***************************************************************************)
Escrows == [d \in DOMAIN deals |-> deals[d].escrow]
Locked == [id \in DOMAIN sessions |-> sessions[id].locked]

\* The two sums are natural numbers.
LEMMA SumsTyped ==
    ASSUME SolventInv
    PROVE  /\ Cardinality(EscrowCoins) \in Nat
           /\ Cardinality(LockedCoins) \in Nat
  BY FS_CardinalityType DEF SolventInv

\* Escrow of one deal set to e, or appended with a new deal.
LEMMA EscrowSet ==
    ASSUME TypeOK, SolventInv, NEW d, NEW e \in Nat,
           DOMAIN deals' = DOMAIN deals \cup {d}, deals'[d].escrow = e,
           \A x \in DOMAIN deals : x # d => deals'[x].escrow = deals[x].escrow
    PROVE  /\ IsFiniteSet(EscrowCoins')
           /\ Cardinality(EscrowCoins') \in Nat
           /\ d \in DOMAIN deals =>
                 Cardinality(EscrowCoins') + deals[d].escrow
                    = Cardinality(EscrowCoins) + e
           /\ d \notin DOMAIN deals =>
                 Cardinality(EscrowCoins') = Cardinality(EscrowCoins) + e
  <1> DEFINE f == Escrows
             g == Escrows'
  <1>1. EscrowCoins = Coins(f) /\ EscrowCoins' = Coins(g)
    BY DEF EscrowCoins, Escrows, Coins
  <1>2. d \in DOMAIN deals => deals[d].escrow \in Nat
    BY DealTyped DEF Deal
  <1>3. /\ DOMAIN f = DOMAIN deals
        /\ \A x \in DOMAIN deals : f[x] = deals[x].escrow
    BY DEF Escrows
  <1>4. /\ DOMAIN g = DOMAIN f \cup {d}
        /\ g[d] = e
        /\ \A x \in DOMAIN f : x # d => g[x] = f[x]
    BY <1>3 DEF Escrows
  <1>5. IsFiniteSet(Coins(f))
    BY <1>1 DEF SolventInv
  <1> HIDE DEF f, g
  <1>6. d \in DOMAIN f => f[d] \in Nat
    BY <1>2, <1>3
  <1>7. PileGiven(f, g, d, e)
    BY <1>4, <1>5, <1>6 DEF PileGiven
  <1>8. PileCounted(f, g, d, e)
    BY <1>7, CoinsSet
  <1>9. QED
    BY <1>1, <1>3, <1>8 DEF PileCounted

\* The fee locked in one session set to that of s.
LEMMA LockedSet ==
    ASSUME TypeOK, SolventInv, NEW id, NEW s, s.locked \in Nat,
           sessions' = SetSession(id, s)
    PROVE  /\ IsFiniteSet(LockedCoins')
           /\ Cardinality(LockedCoins') \in Nat
           /\ id \in DOMAIN sessions =>
                 Cardinality(LockedCoins') + sessions[id].locked
                    = Cardinality(LockedCoins) + s.locked
           /\ id \notin DOMAIN sessions =>
                 Cardinality(LockedCoins') = Cardinality(LockedCoins) + s.locked
  <1> DEFINE f == Locked
             g == Locked'
  <1>1. LockedCoins = Coins(f) /\ LockedCoins' = Coins(g)
    BY DEF LockedCoins, Locked, Coins
  <1>2. id \in DOMAIN sessions => sessions[id].locked \in Nat
    BY DEF TypeOK, Session
  <1>3. /\ DOMAIN f = DOMAIN sessions
        /\ \A x \in DOMAIN sessions : f[x] = sessions[x].locked
    BY DEF Locked
  <1>4. /\ DOMAIN sessions' = DOMAIN sessions \cup {id}
        /\ sessions'[id] = s
        /\ \A x \in DOMAIN sessions : x # id => sessions'[x] = sessions[x]
    BY DEF SetSession
  <1>5. /\ DOMAIN g = DOMAIN f \cup {id}
        /\ g[id] = s.locked
        /\ \A x \in DOMAIN f : x # id => g[x] = f[x]
    BY <1>3, <1>4 DEF Locked
  <1>6. IsFiniteSet(Coins(f))
    BY <1>1 DEF SolventInv
  <1> HIDE DEF f, g
  <1>7. id \in DOMAIN f => f[id] \in Nat
    BY <1>2, <1>3
  <1>8. PileGiven(f, g, id, s.locked)
    BY <1>5, <1>6, <1>7 DEF PileGiven
  <1>9. PileCounted(f, g, id, s.locked)
    BY <1>8, CoinsSet
  <1>10. QED
    BY <1>1, <1>3, <1>9 DEF PileCounted

\* One stored deal replaced by another.
LEMMA DealSet ==
    ASSUME TypeOK, SolventInv, NEW d \in DOMAIN deals, NEW new,
           new.escrow \in Nat, deals' = [deals EXCEPT ![d] = new]
    PROVE  /\ IsFiniteSet(EscrowCoins')
           /\ Cardinality(EscrowCoins') \in Nat
           /\ Cardinality(EscrowCoins') + deals[d].escrow
                 = Cardinality(EscrowCoins) + new.escrow
  <1>1. DOMAIN deals' = DOMAIN deals \cup {d} /\ deals'[d] = new
    OBVIOUS
  <1>2. \A x \in DOMAIN deals : x # d => deals'[x].escrow = deals[x].escrow
    OBVIOUS
  <1>3. deals'[d].escrow = new.escrow
    BY <1>1
  <1>4. QED
    BY <1>1, <1>2, <1>3, EscrowSet

\* Only the escrow of one deal changes.
LEMMA EscrowReplaced ==
    ASSUME TypeOK, SolventInv, NEW d \in DOMAIN deals, NEW e \in Nat,
           deals' = [deals EXCEPT ![d].escrow = e]
    PROVE  /\ IsFiniteSet(EscrowCoins')
           /\ Cardinality(EscrowCoins') \in Nat
           /\ Cardinality(EscrowCoins') + deals[d].escrow
                 = Cardinality(EscrowCoins) + e
           /\ deals[d].escrow \in Nat
  <1> DEFINE new == [deals[d] EXCEPT !.escrow = e]
  <1>1. deals[d] \in Deal
    BY DealTyped
  <1>2. new.escrow = e /\ deals[d].escrow \in Nat
    BY <1>1, Zenon DEF Deal
  <1>3. deals' = [deals EXCEPT ![d] = new]
    OBVIOUS
  <1> HIDE DEF new
  <1>4. QED
    BY <1>2, <1>3, DealSet

\* Deals that do not change hold the same escrow.
LEMMA SameDeals ==
    ASSUME UNCHANGED deals
    PROVE  EscrowCoins' = EscrowCoins
  BY DEF EscrowCoins, Coins

\* Sessions that do not change lock the same coins.
LEMMA SameSessions ==
    ASSUME UNCHANGED sessions
    PROVE  LockedCoins' = LockedCoins
  BY DEF LockedCoins, Coins

\* What the module account holds, and that a payment reaches it.
LEMMA ModulePaid ==
    ASSUME TypeOK, NEW payer \in Users, NEW amount \in Nat
    PROVE  /\ balance[Module] \in Nat
           /\ Send(balance, payer, Module, amount)[Module]
                 = balance[Module] + amount
  <1>1. balance \in [Accounts -> Nat] /\ payer # Module
    BY NilChainAssumption DEF TypeOK
  <1>2. QED
    BY <1>1, AccountsInclude DEF Send
-----------------------------------------------------------------------------
(***************************************************************************)
(* One lemma per handler that moves coins.                                   *)
(***************************************************************************)
\* A new deal brings the escrow it starts with ...
LEMMA OpenDealEscrow ==
    ASSUME TypeOK, SolventInv, NEW payer \in Users, NEW owner \in Users,
           NEW m \in DealMsgs, OpenDeal(payer, owner, m)
    PROVE  /\ m.escrow \in Nat
           /\ IsFiniteSet(EscrowCoins')
           /\ Cardinality(EscrowCoins') = Cardinality(EscrowCoins) + m.escrow
  <1>1. m.escrow \in Nat
    BY NilChainAssumption DEF DealMsg
  <1>2. PICK assigned \in AssignProviders(m.hint, RequestedReplicas(m)) :
          deals' = Append(deals, NewDeal(owner, m, assigned))
    BY DEF OpenDeal
  <1> DEFINE new == NewDeal(owner, m, assigned)
             d   == Len(deals) + 1
  <1>3. new.escrow = m.escrow
    BY DEF NewDeal, InitialEscrow
  <1>4. new \in Deal
    BY <1>2, ReplicasType, AssignedAreProviders, NewDealType
  <1>5. deals \in Seq(Deal) /\ deals' = Append(deals, new)
    BY <1>2 DEF TypeOK
  <1> HIDE DEF new
  <1>6. /\ Len(deals) \in Nat
        /\ DOMAIN deals = 1..Len(deals)
        /\ DOMAIN deals' = 1..(Len(deals) + 1)
        /\ deals'[d] = new
        /\ \A x \in 1..Len(deals) : deals'[x] = deals[x]
    BY <1>4, <1>5, AppendProperties, LenProperties
  <1>7. /\ DOMAIN deals' = DOMAIN deals \cup {d}
        /\ d \notin DOMAIN deals
        /\ deals'[d].escrow = m.escrow
        /\ \A x \in DOMAIN deals : x # d => deals'[x].escrow = deals[x].escrow
    BY <1>3, <1>6
  <1> HIDE DEF d
  <1>8. QED
    BY <1>1, <1>7, EscrowSet

\* ... which its payer pays next to the creation fee.
LEMMA OpenDealPaid ==
    ASSUME TypeOK, NEW payer \in Users, NEW owner \in Users,
           NEW m \in DealMsgs, OpenDeal(payer, owner, m)
    PROVE  /\ balance'[Module] = balance[Module] + m.escrow
           /\ balance'[FeeCollector] = balance[FeeCollector] + params.creationFee
           /\ balance'[payer] = balance[payer] - params.creationFee - m.escrow
           /\ \A a \in Users \ {payer} : balance'[a] = balance[a]
  <1>1. /\ balance \in [Accounts -> Nat]
        /\ payer # Module /\ payer # FeeCollector /\ Module # FeeCollector
        /\ \A a \in Users : a # Module /\ a # FeeCollector
    BY NilChainAssumption DEF TypeOK
  <1> DEFINE b == Send(balance, payer, FeeCollector, params.creationFee)
  <1>2. /\ DOMAIN b = Accounts /\ b[Module] = balance[Module]
        /\ b[payer] = balance[payer] - params.creationFee
        /\ b[FeeCollector] = balance[FeeCollector] + params.creationFee
        /\ \A a \in Users \ {payer} : b[a] = balance[a]
    BY <1>1, AccountsInclude DEF Send
  <1>3. balance' = Send(b, payer, Module, m.escrow)
    BY DEF OpenDeal
  <1> HIDE DEF b
  <1>4. /\ balance'[Module] = b[Module] + m.escrow
        /\ balance'[payer] = b[payer] - m.escrow
        /\ balance'[FeeCollector] = b[FeeCollector]
        /\ \A a \in Users \ {payer} : balance'[a] = b[a]
    BY <1>1, <1>2, <1>3, AccountsInclude DEF Send
  <1>5. QED
    BY <1>2, <1>4

LEMMA OpenDealSolvent ==
    ASSUME TypeOK, SolventInv, NEW payer \in Users, NEW owner \in Users,
           NEW m \in DealMsgs, OpenDeal(payer, owner, m)
    PROVE  SolventInv'
  <1>1. LockedCoins' = LockedCoins
    BY SameSessions DEF OpenDeal
  <1>2. balance[Module] \in Nat
    BY AccountsInclude DEF TypeOK
  <1>3. balance'[Module] = balance[Module] + m.escrow
    BY OpenDealPaid
  <1>4. QED
    BY <1>1, <1>2, <1>3, OpenDealEscrow, SumsTyped DEF SolventInv, Solvent

\* New content is paid into the escrow of its deal.
LEMMA CommitContentEscrow ==
    ASSUME TypeOK, SolventInv, NEW sender \in Users, NEW d \in DealIds,
           NEW c \in Contents, CommitContent(sender, d, c)
    PROVE  \E cost \in Nat :
              /\ balance' = Send(balance, sender, Module, cost)
              /\ IsFiniteSet(EscrowCoins')
              /\ Cardinality(EscrowCoins') = Cardinality(EscrowCoins) + cost
  <1> DEFINE cost == Deposit(deals[d], c.size)
             gen  == NextGen(deals[d], c.root)
  <1>1. /\ d \in DOMAIN deals
        /\ deals[d] \in Deal
        /\ c.root \in Roots /\ c.size \in Nat
    BY DealTyped, NilChainAssumption DEF CommitContent, Content
  <1>2. cost \in Nat
    BY <1>1, DepositType
  <1>3. deals[d].escrow \in Nat
    BY <1>1 DEF Deal
  <1>4. /\ balance' = Send(balance, sender, Module, cost)
        /\ deals' = [deals EXCEPT ![d].escrow = @ + cost, ![d].gen = gen,
                                  ![d].root = c.root, ![d].size = c.size]
    BY DEF CommitContent
  <1> HIDE DEF cost, gen
  <1> DEFINE e   == deals[d].escrow + cost
             new == [deals[d] EXCEPT !.escrow = e, !.gen = gen,
                                     !.root = c.root, !.size = c.size]
  <1>5. deals' = [deals EXCEPT ![d] = new]
    BY <1>1, <1>4
  <1>6. e \in Nat
    BY <1>2, <1>3
  <1>7. new.escrow = e
    <2> HIDE DEF e
    <2>1. QED
      BY <1>1, Zenon DEF Deal
  <1> HIDE DEF new
  <1>8. /\ IsFiniteSet(EscrowCoins')
        /\ Cardinality(EscrowCoins') \in Nat
        /\ Cardinality(EscrowCoins') + deals[d].escrow
              = Cardinality(EscrowCoins) + e
    BY <1>1, <1>5, <1>6, <1>7, DealSet
  <1>9. QED
    BY <1>2, <1>3, <1>4, <1>8, SumsTyped

\* A payment into an escrow keeps the account solvent.
LEMMA DepositSolvent ==
    ASSUME TypeOK, SolventInv, NEW sender \in Users, NEW cost \in Nat,
           balance' = Send(balance, sender, Module, cost),
           IsFiniteSet(EscrowCoins'),
           Cardinality(EscrowCoins') = Cardinality(EscrowCoins) + cost,
           UNCHANGED sessions
    PROVE  SolventInv'
  <1>1. LockedCoins' = LockedCoins
    BY SameSessions
  <1>2. balance[Module] \in Nat /\ balance'[Module] = balance[Module] + cost
    BY ModulePaid
  <1>3. QED
    BY <1>1, <1>2, SumsTyped DEF SolventInv, Solvent

LEMMA CommitContentSolvent ==
    ASSUME TypeOK, SolventInv, NEW sender \in Users, NEW d \in DealIds,
           NEW c \in Contents, CommitContent(sender, d, c)
    PROVE  SolventInv'
  <1>1. UNCHANGED sessions
    BY DEF CommitContent
  <1>2. QED
    BY <1>1, CommitContentEscrow, DepositSolvent

\* Credit is paid into the escrow of its deal.
LEMMA AddCreditEscrow ==
    ASSUME TypeOK, SolventInv, NEW sender \in Users, NEW d \in DealIds,
           NEW amount \in Amounts, AddCredit(sender, d, amount)
    PROVE  /\ amount \in Nat
           /\ balance' = Send(balance, sender, Module, amount)
           /\ IsFiniteSet(EscrowCoins')
           /\ Cardinality(EscrowCoins') = Cardinality(EscrowCoins) + amount
  <1> DEFINE e == deals[d].escrow + amount
  <1>1. /\ amount \in Nat
        /\ d \in DOMAIN deals
        /\ balance' = Send(balance, sender, Module, amount)
        /\ deals' = [deals EXCEPT ![d].escrow = e]
    BY NilChainAssumption DEF AddCredit
  <1>2. deals[d].escrow \in Nat
    BY <1>1, DealTyped DEF Deal
  <1>3. e \in Nat
    BY <1>1, <1>2
  <1>4. /\ IsFiniteSet(EscrowCoins')
        /\ Cardinality(EscrowCoins') \in Nat
        /\ Cardinality(EscrowCoins') + deals[d].escrow
              = Cardinality(EscrowCoins) + e
    <2> HIDE DEF e
    <2>1. QED
      BY <1>1, <1>3, EscrowReplaced
  <1>5. QED
    BY <1>1, <1>2, <1>4, SumsTyped

LEMMA AddCreditSolvent ==
    ASSUME TypeOK, SolventInv, NEW sender \in Users, NEW d \in DealIds,
           NEW amount \in Amounts, AddCredit(sender, d, amount)
    PROVE  SolventInv'
  <1>1. UNCHANGED sessions
    BY DEF AddCredit
  <1>2. QED
    BY <1>1, AddCreditEscrow, DepositSolvent

\* Opening a session burns the base fee and locks the rest of what it takes
\* out of the escrow; the session is new, so nothing locked is overwritten.
LEMMA OpenSessionSolvent ==
    ASSUME TypeOK, NoncesReached, SolventInv, NEW sender \in Users,
           NEW id \in SessionReqs, OpenRetrievalSession(sender, id)
    PROVE  SolventInv'
  <1> DEFINE fee   == VariableFee(params.blobPrice, id.blobs)
             total == fee + params.baseFee
             e     == deals[id.deal].escrow - total
             s     == [status |-> "OPEN", locked |-> fee]
  <1>1. params.blobPrice \in Nat /\ params.baseFee \in Nat
    BY DEF TypeOK, Params
  <1>2. fee \in Nat
    BY <1>1, SessionReqTyped DEF VariableFee
  <1>3. /\ id.deal \in DOMAIN deals
        /\ total <= deals[id.deal].escrow
        /\ balance[Module] >= params.baseFee
        /\ balance' = BurnCoins(balance, params.baseFee)
        /\ deals' = [deals EXCEPT ![id.deal].escrow = e]
        /\ sessions' = SetSession(id, s)
        /\ FreshSession(id)
    BY DEF OpenRetrievalSession, EscrowCovers, CanPay
  <1>4. s.locked = fee
    OBVIOUS
  <1> HIDE DEF s, fee
  <1>5. deals[id.deal].escrow \in Nat
    BY <1>3, DealTyped DEF Deal
  <1>6. e \in Nat
    BY <1>1, <1>2, <1>3, <1>5
  <1>7. /\ IsFiniteSet(EscrowCoins')
        /\ Cardinality(EscrowCoins') \in Nat
        /\ Cardinality(EscrowCoins') + deals[id.deal].escrow
              = Cardinality(EscrowCoins) + e
    <2> HIDE DEF e
    <2>1. QED
      BY <1>3, <1>6, EscrowReplaced
  <1>8. id \notin DOMAIN sessions
    BY <1>3, FreshIsNew
  <1>9. /\ IsFiniteSet(LockedCoins')
        /\ Cardinality(LockedCoins') = Cardinality(LockedCoins) + s.locked
    BY <1>2, <1>3, <1>4, <1>8, LockedSet
  <1>10. /\ balance[Module] \in Nat
         /\ balance'[Module] = balance[Module] - params.baseFee
    BY <1>3, AccountsInclude DEF TypeOK, BurnCoins
  <1>11. Cardinality(EscrowCoins') + fee + params.baseFee
            = Cardinality(EscrowCoins)
    BY <1>1, <1>2, <1>5, <1>7, SumsTyped
  <1> HIDE DEF e, total
  <1>12. QED
    BY <1>1, <1>2, <1>4, <1>7, <1>9, <1>10, <1>11, SumsTyped
    DEF SolventInv, Solvent

\* An answer pays out the locked fee and clears it, or leaves both.
LEMMA AdvanceSolvent ==
    ASSUME TypeOK, SolventInv, NEW id \in DOMAIN sessions, NEW status,
           AdvanceSession(id, status)
    PROVE  SolventInv'
  <1> DEFINE s == [status |-> status, locked |-> LockedAfter(id, status)]
             v == sessions[id].locked
  <1>1. sessions' = SetSession(id, s) /\ UNCHANGED deals
    BY DEF AdvanceSession
  <1>2. s.locked = LockedAfter(id, status)
    OBVIOUS
  <1> HIDE DEF s
  <1>3. v \in Nat /\ balance[Module] \in Nat
    BY AccountsInclude DEF TypeOK, Session
  <1>4. EscrowCoins' = EscrowCoins
    BY <1>1, SameDeals
  <1>5. CASE status = "COMPLETED"
    <2>1. s.locked = 0
      BY <1>2, <1>5 DEF LockedAfter
    <2>2. s.locked \in Nat
      BY <2>1
    <2>3. /\ IsFiniteSet(LockedCoins')
          /\ Cardinality(LockedCoins') \in Nat
          /\ Cardinality(LockedCoins') + v = Cardinality(LockedCoins) + s.locked
      BY <1>1, <2>2, LockedSet
    <2>4. balance'[Module] = balance[Module] - v
      BY <1>5, SettleTakesFee DEF AdvanceSession
    <2> HIDE DEF v
    <2>5. QED
      BY <1>3, <1>4, <2>1, <2>3, <2>4, SumsTyped DEF SolventInv, Solvent
  <1>6. CASE status # "COMPLETED"
    <2>1. s.locked = v
      BY <1>2, <1>6 DEF LockedAfter
    <2>2. s.locked \in Nat
      BY <1>3, <2>1
    <2>3. /\ IsFiniteSet(LockedCoins')
          /\ Cardinality(LockedCoins') \in Nat
          /\ Cardinality(LockedCoins') + v = Cardinality(LockedCoins) + s.locked
      BY <1>1, <2>2, LockedSet
    <2>4. balance' = balance
      BY <1>6 DEF AdvanceSession
    <2> HIDE DEF v
    <2>5. QED
      BY <1>3, <1>4, <2>1, <2>3, <2>4, SumsTyped DEF SolventInv, Solvent
  <1>7. QED
    BY <1>5, <1>6

\* A cancel moves the locked fee from the session to the escrow.
LEMMA CancelSolvent ==
    ASSUME TypeOK, SolventInv, NEW sender \in Users, NEW id \in SessionReqs,
           CancelRetrievalSession(sender, id)
    PROVE  SolventInv'
  <1> DEFINE s == [status |-> "CANCELED", locked |-> 0]
             v == sessions[id].locked
             e == deals[id.deal].escrow + v
  <1>1. /\ id \in DOMAIN sessions
        /\ sessions' = SetSession(id, s)
        /\ deals' = [deals EXCEPT ![id.deal].escrow = e]
        /\ balance' = balance
    BY DEF CancelRetrievalSession, bankVars
  <1>2. s.locked = 0
    OBVIOUS
  <1> HIDE DEF s
  <1>3. id.deal \in DOMAIN deals
    BY <1>1 DEF TypeOK
  <1>4. v \in Nat /\ balance[Module] \in Nat
    BY <1>1, AccountsInclude DEF TypeOK, Session
  <1>5. deals[id.deal].escrow \in Nat
    BY <1>3, DealTyped DEF Deal
  <1>6. e \in Nat
    BY <1>4, <1>5
  <1>7. /\ IsFiniteSet(EscrowCoins')
        /\ Cardinality(EscrowCoins') \in Nat
        /\ Cardinality(EscrowCoins') + deals[id.deal].escrow
              = Cardinality(EscrowCoins) + e
    <2> HIDE DEF e
    <2>1. QED
      BY <1>1, <1>3, <1>6, EscrowReplaced
  <1>8. /\ IsFiniteSet(LockedCoins')
        /\ Cardinality(LockedCoins') \in Nat
        /\ Cardinality(LockedCoins') + v = Cardinality(LockedCoins) + s.locked
    <2>1. s.locked \in Nat
      BY <1>2
    <2>2. QED
      BY <1>1, <2>1, LockedSet
  <1> HIDE DEF v
  <1>9. Cardinality(EscrowCoins') = Cardinality(EscrowCoins) + v
    BY <1>4, <1>5, <1>7, SumsTyped
  <1>10. QED
    BY <1>1, <1>2, <1>4, <1>7, <1>8, <1>9, SumsTyped DEF SolventInv, Solvent

\* A step that only lowers escrow, or leaves it, keeps the account solvent.
LEMMA LessEscrowSolvent ==
    ASSUME TypeOK, SolventInv, NEW d \in DOMAIN deals, NEW new,
           new.escrow \in Nat, new.escrow <= deals[d].escrow,
           deals' = [deals EXCEPT ![d] = new], UNCHANGED <<balance, sessions>>
    PROVE  SolventInv'
  <1>1. deals[d].escrow \in Nat /\ balance[Module] \in Nat
    BY DealTyped, AccountsInclude DEF TypeOK, Deal
  <1>2. /\ IsFiniteSet(EscrowCoins')
        /\ Cardinality(EscrowCoins') \in Nat
        /\ Cardinality(EscrowCoins') + deals[d].escrow
              = Cardinality(EscrowCoins) + new.escrow
    BY DealSet
  <1>3. LockedCoins' = LockedCoins
    BY SameSessions
  <1>4. QED
    BY <1>1, <1>2, <1>3, SumsTyped DEF SolventInv, Solvent

\* A step that touches no claim and takes nothing from the module account.
LEMMA SameClaimsSolvent ==
    ASSUME SolventInv, UNCHANGED <<deals, sessions>>,
           balance'[Module] = balance[Module]
    PROVE  SolventInv'
  BY SameDeals, SameSessions DEF SolventInv, Solvent

\* A proof's payment leaves the escrow; the coins stay in the account.
LEMMA AcceptProofSolvent ==
    ASSUME TypeOK, SolventInv, NEW p \in Providers, NEW d \in DealIds,
           NEW payment \in Nat, AcceptProof(p, d, payment)
    PROVE  SolventInv'
  <1> DEFINE e   == deals[d].escrow - payment
             new == [deals[d] EXCEPT !.escrow = e]
  <1>1. /\ d \in DOMAIN deals
        /\ payment <= deals[d].escrow
        /\ deals' = [deals EXCEPT ![d].escrow = e]
        /\ UNCHANGED <<balance, sessions>>
    BY DEF AcceptProof, MayProve, EscrowCovers, bankVars
  <1>2. deals[d] \in Deal /\ deals[d].escrow \in Nat
    BY <1>1, DealTyped DEF Deal
  <1>3. e \in Nat /\ e <= deals[d].escrow
    BY <1>1, <1>2
  <1> HIDE DEF e
  <1>4. new.escrow = e
    BY <1>2, Zenon DEF Deal
  <1>5. deals' = [deals EXCEPT ![d] = new]
    BY <1>1
  <1> HIDE DEF new
  <1>6. QED
    BY <1>1, <1>3, <1>4, <1>5, LessEscrowSolvent

\* None of the proof messages and withdrawals takes coins from the account.
LEMMA ProofSolvent ==
    ASSUME TypeOK, SolventInv, ProofNext
    PROVE  SolventInv'
  <1>1. ASSUME NEW p \in Providers, NEW d \in DealIds, NEW slot,
               ProveLivenessSystem(p, d, slot)
        PROVE  SolventInv'
    BY <1>1, AcceptProofSolvent DEF ProveLivenessSystem
  <1>2. ASSUME NEW p \in Providers, NEW d \in DealIds,
               ProveLivenessSystemFails(p, d)
        PROVE  SolventInv'
    BY <1>2, SameClaimsSolvent DEF ProveLivenessSystemFails, bankVars
  <1>3. ASSUME NEW p \in Providers, NEW d \in DealIds, NEW b \in Batches,
               ProveLivenessReceipts(p, d, b)
        PROVE  SolventInv'
    <2>1. BandwidthPayment(TotalBytes(b)) \in Nat
      BY NilChainAssumption, TotalBytesType, BandwidthPaymentType
    <2>2. AcceptProof(p, d, BandwidthPayment(TotalBytes(b)))
      BY <1>3 DEF ProveLivenessReceipts
    <2>3. QED
      BY <2>1, <2>2, AcceptProofSolvent
  <1>4. ASSUME NEW p \in Providers, NEW d \in DealIds, NEW r \in Downloads,
               ProveLivenessSession(p, d, r)
        PROVE  SolventInv'
    <2>1. r.bytes \in Nat
      BY NilChainAssumption DEF Download
    <2>2. BandwidthPayment(r.bytes) \in Nat
      BY <2>1, BandwidthPaymentType
    <2>3. AcceptProof(p, d, BandwidthPayment(r.bytes))
      BY <1>4 DEF ProveLivenessSession
    <2>4. QED
      BY <2>2, <2>3, AcceptProofSolvent
  <1>5. ASSUME NEW p \in Providers, WithdrawRewards(p)
        PROVE  SolventInv'
    <2>1. p # Module /\ balance \in [Accounts -> Nat]
      BY NilChainAssumption DEF TypeOK
    <2>2. balance'[Module] = balance[Module] /\ UNCHANGED <<deals, sessions>>
      BY <1>5, <2>1, AccountsInclude DEF WithdrawRewards, PayRewards
    <2>3. QED
      BY <2>2, SameClaimsSolvent
  <1>6. QED
    BY <1>1, <1>2, <1>3, <1>4, <1>5 DEF ProofNext

\* A stripe is charged to the escrow; the coins stay in the account.
LEMMA SignalSaturationSolvent ==
    ASSUME TypeOK, SolventInv, NEW p \in Providers, NEW d \in DealIds,
           SignalSaturation(p, d)
    PROVE  SolventInv'
  <1>1. d \in DOMAIN deals /\ deals[d] \in Deal
    BY DealTyped DEF SignalSaturation
  <1>2. deals[d].escrow \in Nat /\ ElasticityCost \in Nat
    <2>1. deals[d].escrow \in Nat
      BY <1>1 DEF Deal
    <2>2. params \in Params /\ DealBaseReplication \in Nat
      BY NilChainAssumption DEF TypeOK
    <2>3. ElasticityCost \in Nat
      BY <2>2 DEF Params, ElasticityCost
    <2>4. QED
      BY <2>1, <2>3
  <1>3. PICK assigned \in AssignProviders("Hot", DealBaseReplication) :
          deals' = [deals EXCEPT
                      ![d].providers   = @ \o assigned,
                      ![d].replication = @ + DealBaseReplication,
                      ![d].escrow      = @ - ElasticityCost,
                      ![d].winStart    = WindowStart(deals[d]),
                      ![d].winSpent    = SpentAfter(deals[d])]
    BY DEF SignalSaturation
  <1> DEFINE e   == deals[d].escrow - ElasticityCost
             ps  == deals[d].providers \o assigned
             r   == deals[d].replication + DealBaseReplication
             new == [deals[d] EXCEPT !.providers   = ps,
                                     !.replication = r,
                                     !.escrow      = e,
                                     !.winStart    = WindowStart(deals[d]),
                                     !.winSpent    = SpentAfter(deals[d])]
  <1>4. e \in Nat /\ e <= deals[d].escrow
    BY <1>2 DEF SignalSaturation, EscrowCovers
  <1>5. deals' = [deals EXCEPT ![d] = new]
    BY <1>1, <1>3
  <1> HIDE DEF e, ps, r
  <1>6. new.escrow = e
    BY <1>1, Zenon DEF Deal
  <1> HIDE DEF new
  <1>7. UNCHANGED <<balance, sessions>>
    BY DEF SignalSaturation, bankVars
  <1>8. QED
    BY <1>1, <1>4, <1>5, <1>6, <1>7, LessEscrowSolvent

\* A repair that starts leaves the escrow as it is.
LEMMA StartSlotRepairSolvent ==
    ASSUME TypeOK, SolventInv, NEW sender \in Users, NEW d \in DealIds,
           NEW i \in 1..DealBaseReplication, NEW pending \in Providers,
           StartSlotRepair(sender, d, i, pending)
    PROVE  SolventInv'
  <1> DEFINE slot == RepairingSlot(deals[d].slots[i], pending, deals[d].gen)
             ss   == [deals[d].slots EXCEPT ![i] = slot]
             new  == [deals[d] EXCEPT !.slots = ss]
  <1>1. d \in DOMAIN deals /\ deals[d] \in Deal /\ deals[d].escrow \in Nat
    BY DealTyped DEF StartSlotRepair, MayRepair, Deal
  <1>2. deals' = [deals EXCEPT ![d] = new]
    BY <1>1 DEF StartSlotRepair
  <1> HIDE DEF ss
  <1>3. new.escrow = deals[d].escrow
    BY <1>1, Zenon DEF Deal
  <1> HIDE DEF new
  <1>4. UNCHANGED <<balance, sessions>>
    BY DEF StartSlotRepair, bankVars
  <1>5. new.escrow \in Nat /\ new.escrow <= deals[d].escrow
    BY <1>1, <1>3
  <1>6. QED
    BY <1>1, <1>2, <1>4, <1>5, LessEscrowSolvent

\* So does one that completes.
LEMMA CompleteSlotRepairSolvent ==
    ASSUME TypeOK, SolventInv, NEW sender \in Users, NEW d \in DealIds,
           NEW i \in 1..DealBaseReplication, CompleteSlotRepair(sender, d, i)
    PROVE  SolventInv'
  <1> DEFINE slot == RepairedSlot(deals[d].slots[i])
             ss   == [deals[d].slots EXCEPT ![i] = slot]
             ps   == AlignProviders(deals[d], i)
             new  == [deals[d] EXCEPT !.slots = ss, !.providers = ps]
  <1>1. d \in DOMAIN deals /\ deals[d] \in Deal /\ deals[d].escrow \in Nat
    BY DealTyped DEF CompleteSlotRepair, MayRepair, Deal
  <1>2. deals' = [deals EXCEPT ![d] = new]
    BY <1>1 DEF CompleteSlotRepair
  <1> HIDE DEF ss, ps
  <1>3. new.escrow = deals[d].escrow
    BY <1>1, Zenon DEF Deal
  <1> HIDE DEF new
  <1>4. UNCHANGED <<balance, sessions>>
    BY DEF CompleteSlotRepair, bankVars
  <1>5. new.escrow \in Nat /\ new.escrow <= deals[d].escrow
    BY <1>1, <1>3
  <1>6. QED
    BY <1>1, <1>2, <1>4, <1>5, LessEscrowSolvent
-----------------------------------------------------------------------------
\* Nothing is owed at genesis.
LEMMA InitSolvent == Init => SolventInv
  <1> SUFFICES ASSUME Init PROVE SolventInv
    OBVIOUS
  <1>1. DOMAIN deals = {} /\ DOMAIN sessions = {}
    BY DEF Init
  <1>2. EscrowCoins = {} /\ LockedCoins = {}
    BY <1>1 DEF EscrowCoins, LockedCoins, Coins
  <1>3. IsFiniteSet({}) /\ Cardinality({}) = 0
    BY FS_EmptySet
  <1>4. balance[Module] = 0
    BY AccountsInclude DEF Init
  <1>5. QED
    BY <1>2, <1>3, <1>4 DEF SolventInv, Solvent

\* Every step keeps the module account solvent.
LEMMA NextSolvent ==
    TypeOK /\ NoncesReached /\ SolventInv /\ [Next]_vars => SolventInv'
  <1> SUFFICES ASSUME TypeOK, NoncesReached, SolventInv, [Next]_vars
               PROVE  SolventInv'
    OBVIOUS
  <1>1. CASE RegistryNext
    BY <1>1, SameClaimsSolvent
    DEF RegistryNext, RegisterProvider, UpdateParams, bankVars
  <1>2. CASE DealNext
    BY <1>2, OpenDealSolvent, CommitContentSolvent, AddCreditSolvent
    DEF DealNext, CreateDeal, CreateDealFromEvm, UpdateDealContent,
        UpdateDealContentFromEvm
  <1>3. CASE SessionNext
    <2>1. ASSUME NEW u \in Users, NEW id \in SessionReqs,
                 ConfirmRetrievalSession(u, id)
          PROVE  SolventInv'
      BY <2>1, AdvanceSolvent DEF ConfirmRetrievalSession
    <2>2. ASSUME NEW p \in Providers, NEW id \in SessionReqs,
                 SubmitRetrievalSessionProof(p, id)
          PROVE  SolventInv'
      BY <2>2, AdvanceSolvent DEF SubmitRetrievalSessionProof
    <2>3. QED
      BY <1>3, <2>1, <2>2, OpenSessionSolvent, CancelSolvent DEF SessionNext
  <1>4. CASE ProofNext
    BY <1>4, ProofSolvent
  <1>5. CASE PlacementNext
    BY <1>5, SignalSaturationSolvent, StartSlotRepairSolvent,
       CompleteSlotRepairSolvent DEF PlacementNext
  <1>6. CASE EndBlock
    <2>1. balance'[Module] = balance[Module] /\ UNCHANGED <<deals, sessions>>
      BY <1>6, AccountsInclude, NilChainAssumption DEF EndBlock
    <2>2. QED
      BY <2>1, SameClaimsSolvent
  <1>7. CASE UNCHANGED vars
    BY <1>7, SameClaimsSolvent DEF vars, bankVars
  <1>8. QED
    BY <1>1, <1>2, <1>3, <1>4, <1>5, <1>6, <1>7 DEF Next

LEMMA SolventKept == Spec => []SolventInv
  BY InitSolvent, NextSolvent, TypeCorrect, NoncesAlwaysReached, PTL DEF Spec

\* The module account always covers the escrow of every deal and the fee
\* locked in every session together, whatever parameters governance installs
\* in between: no settlement, burn or refund is ever short of coins.
THEOREM AlwaysSolvent == Spec => []Solvent
  <1>1. SolventInv => Solvent
    BY DEF SolventInv
  <1>2. QED
    BY <1>1, SolventKept, PTL
=============================================================================
