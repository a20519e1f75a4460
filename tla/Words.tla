------------------------------ MODULE Words ------------------------------
(***************************************************************************)
(* The 64-bit arithmetic of x/nilchain: the stripe a service hint asks for,*)
(* the blob range of a retrieval session with the slot it must lie in, the *)
(* blobs its proof must be about, and the deposit for a deal's growth.     *)
(* NilChain sees all of these as given; here they are computed the way the *)
(* handlers do, in words that wrap around, on one deal.                    *)
(* The constants 64, 12 and 128 KiB of the code are parameters, so that    *)
(* small words leave them the room that 64 bits leave them in the code.    *)
(***************************************************************************)
EXTENDS Integers, FiniteSetsExt

CONSTANTS Word,          \* uint64: 2^64 in the code
          Half,          \* uint32: 2^32 in the code
          BlobsPerMdu,   \* 64 in the code
          DealBaseReplication, \* 12 in the code
          BlobSizeBytes, \* 2^17 in the code
          Available,     \* providers suitable for the deal
          Hints,         \* pairs <<K, M>> of the hints asked for; <<0, 0>> is none
          MduIndices,    \* start_mdu_index of the requests
          BlobCounts,    \* blob_count of the requests
          Sizes,         \* sizes a deal's content is updated to
          Duration,      \* the deal's duration in blocks
          StoragePrice,  \* price of a byte for a block
          MaxDeposit     \* bound: no growth once this has been paid

ASSUME WordsAssumption ==
    /\ {Word, Half, BlobsPerMdu, DealBaseReplication, BlobSizeBytes, Available} \subseteq Nat \ {0}
    /\ BlobsPerMdu * DealBaseReplication < Half /\ Half < Word
    /\ Hints \subseteq (0..Word - 1) \X (0..Word - 1)
    /\ MduIndices \cup BlobCounts \cup Sizes \cup {Duration} \subseteq 0..Word - 1
    /\ StoragePrice \in Nat /\ MaxDeposit \in Nat

VARIABLES deal,     \* [hint, k, m, providers] or NoDeal
          size,     \* bytes of the deal's content
          deposit,  \* paid for its growth
          session,  \* [mdu, blob, count, slot] or NoSession
          proved    \* indices <<mdu, blob>> the session's proof was about

vars == <<deal, size, deposit, session, proved>>

NoDeal == [hint |-> <<0, 0>>, k |-> 0, m |-> 0, providers |-> -1]
NoSession == [mdu |-> 0, blob |-> 0, count |-> 0, slot |-> 0]

\* Unsigned words, and a word read as a signed one.
Add(a, b) == (a + b) % Word
Mul(a, b) == (a * b) % Word
Signed(a) == IF a < Word \div 2 THEN a ELSE a - Word

Init ==
    /\ deal = NoDeal
    /\ size = 0
    /\ deposit = 0
    /\ session = NoSession
    /\ proved = {}

----------------------------------------------------------------------------
(* Stripes                                                                 *)

\* ParseServiceHint's conditions on rs=K+M.
HintAccepted(k, m) ==
    /\ k # 0 /\ m # 0
    /\ BlobsPerMdu % k = 0
    /\ Add(k, m) <= DealBaseReplication

Striped(d) == d.k > 0 /\ d.m > 0
Rows(d) == BlobsPerMdu \div d.k
LeafCount(d) == IF Striped(d) THEN Mul(Add(d.k, d.m), Rows(d)) ELSE BlobsPerMdu

\* CreateDeal: K + M replicas are asked for, as many as there are are assigned,
\* and the profile keeps K and M as half words.
CreateDeal(hint) ==
    /\ deal = NoDeal
    /\ \/ hint = <<0, 0>>
       \/ HintAccepted(hint[1], hint[2])
    /\ LET replicas == IF hint = <<0, 0>> THEN DealBaseReplication
                       ELSE Add(hint[1], hint[2])
       IN deal' = [hint |-> hint, k |-> hint[1] % Half, m |-> hint[2] % Half,
                   providers |-> Min({replicas, Available})]
    /\ UNCHANGED <<size, deposit, session, proved>>

\* Takes the growth after the new size is stored.
UpdateDealContentLate(s) ==
    /\ deal # NoDeal
    /\ s # 0
    /\ deposit < MaxDeposit
    /\ size' = s
    /\ LET cost == StoragePrice * Signed(s - size') * Signed(Duration)
       IN deposit' = IF s > size /\ cost > 0 THEN deposit + cost ELSE deposit
    /\ UNCHANGED <<deal, session, proved>>

\* UpdateDealContent: the growth is paid for when the cost is positive.
UpdateDealContent(s) ==
    /\ deal # NoDeal
    /\ s # 0
    /\ deposit < MaxDeposit
    /\ size' = s
    /\ LET cost == StoragePrice * Signed(s - size) * Signed(Duration)
       IN deposit' = IF s > size /\ cost > 0 THEN deposit + cost ELSE deposit
    /\ UNCHANGED <<deal, session, proved>>

----------------------------------------------------------------------------
(* Sessions                                                                *)

StartGlobal(d, mdu, blob) == Add(Mul(mdu, LeafCount(d)), blob)

\* The slot a leaf lies in (leafSlotIndex).
SlotOf(d, leaf) == leaf \div Rows(d)

\* Looks at the first blob's slot only.
RangeOfFirstSlot(d, blob, count, slot) ==
    LET endIndex == Add(blob, count - 1)
    IN /\ endIndex < LeafCount(d)
       /\ SlotOf(d, blob) = slot

\* The conditions on a range of a striped deal: within an MDU, within a slot,
\* and within the provider's slot.
RangeInSlot(d, blob, count, slot) ==
    LET endIndex == Add(blob, count - 1)
    IN /\ endIndex < LeafCount(d)
       /\ SlotOf(d, blob) = SlotOf(d, endIndex)
       /\ SlotOf(d, blob) = slot

\* OpenRetrievalSession on a deal with content, asked of the provider at
\* position `slot'; one session at a time is enough here.
OpenRetrievalSession(mdu, blob, count, slot) ==
    LET startGlobal == StartGlobal(deal, mdu, blob) IN
    /\ deal # NoDeal /\ size # 0
    /\ session = NoSession
    /\ count # 0
    /\ slot < deal.providers
    /\ blob < LeafCount(deal) % Half
    /\ Add(startGlobal, count) >= startGlobal
    /\ Striped(deal) => RangeInSlot(deal, blob, count, slot)
    /\ Mul(count, BlobSizeBytes) \div BlobSizeBytes = count
    /\ session' = [mdu |-> mdu, blob |-> blob, count |-> count, slot |-> slot]
    /\ UNCHANGED <<deal, size, deposit, proved>>

\* Counts one blob too few.
ExpectedButLast(d, s) ==
    LET startGlobal == StartGlobal(d, s.mdu, s.blob)
    IN {<<Add(startGlobal, i) \div LeafCount(d), Add(startGlobal, i) % LeafCount(d)>> :
            i \in 0 .. s.count - 2}

\* The indices the proofs of a session must carry, in the handler's arithmetic.
Expected(d, s) ==
    LET startGlobal == StartGlobal(d, s.mdu, s.blob)
    IN {<<Add(startGlobal, i) \div LeafCount(d), Add(startGlobal, i) % LeafCount(d)>> :
            i \in 0 .. s.count - 1}

\* The proofs a session's provider can have accepted.
Acceptable(d, s) ==
    Striped(d) => \A e \in Expected(d, s) : SlotOf(d, e[2]) = s.slot

\* SubmitRetrievalSessionProof with the proofs of the expected blobs.
SubmitRetrievalSessionProof ==
    /\ session # NoSession
    /\ Acceptable(deal, session)
    /\ proved' = Expected(deal, session)
    /\ UNCHANGED <<deal, size, deposit, session>>

\* A session that is over makes room for another.
SessionOver ==
    /\ session # NoSession
    /\ session' = NoSession
    /\ proved' = {}
    /\ UNCHANGED <<deal, size, deposit>>

BlobIndices == 0 .. (BlobsPerMdu * DealBaseReplication)

Next ==
    \/ \E hint \in Hints : CreateDeal(hint)
    \/ \E s \in Sizes : UpdateDealContent(s)
    \/ \E mdu \in MduIndices, blob \in BlobIndices, count \in BlobCounts,
          slot \in 0 .. Available - 1 : OpenRetrievalSession(mdu, blob, count, slot)
    \/ SubmitRetrievalSessionProof
    \/ SessionOver

Spec == Init /\ [][Next]_vars

----------------------------------------------------------------------------
(* Properties                                                              *)

\* Types, and that words are words.
TypeOK ==
    /\ deal = NoDeal \/ /\ deal.hint \in Hints
                        /\ deal.k \in 0 .. Half - 1 /\ deal.m \in 0 .. Half - 1
                        /\ deal.providers \in 0 .. Available
    /\ size \in {0} \cup Sizes
    /\ deposit \in Nat
    /\ session.mdu \in 0 .. Word - 1 /\ session.blob \in 0 .. Half - 1
    /\ session.count \in 0 .. Word - 1 /\ session.slot \in 0 .. Available
    /\ proved \subseteq (0 .. Word - 1) \X (0 .. Word - 1)

\* The blobs a session asks for, in unbounded arithmetic: `count' consecutive
\* leaves from <<mdu, blob>> on, over as many MDUs as they take.
Asked(d, s) ==
    {<<s.mdu + ((s.blob + i) \div LeafCount(d)), (s.blob + i) % LeafCount(d)>> :
        i \in 0 .. s.count - 1}

\* The global indices of the session's blobs are words.
InWord(d, s) == s.mdu * LeafCount(d) + s.blob + s.count <= Word

\* A proof is accepted for the blobs that were asked for, and for all of them.
ProvenIsAsked ==
    proved # {} => proved = Asked(deal, session)

\* The range is checked when a session is opened and computed again, in other
\* terms, when it is proved.  If the indices of its blobs are words, its
\* provider can always prove it, since every blob the proof must be about lies
\* in the provider's slot, whatever the stripe has become by wrapping around;
\* and the proof is accepted for the blobs that were asked for, all of them.
OpenedCanBeProved ==
    /\ TypeOK
    /\ session # NoSession /\ InWord(deal, session)
       => Acceptable(deal, session) /\ ProvenIsAsked

\* `Storage Lock-in': when content grows, by what a signed word can hold, and
\* storage has a price, it is paid.
GrowthIsPaid ==
    [][size' > size /\ size' - size < Word \div 2 /\ Signed(Duration) > 0 /\ StoragePrice > 0
       => deposit' > deposit]_vars
-----------------------------------------------------------------------------
(* What a document, a comment or a test says and the code does not keep; the *)
(* README tells how. *)

\* `K+M exceeds base replication': no stripe is wider than the replication, and
\* the profile is the one that was asked for.
HintIsSound ==
    (deal # NoDeal /\ Striped(deal))
        => /\ deal.hint[1] + deal.hint[2] <= DealBaseReplication
           /\ deal.hint = <<deal.k, deal.m>>
=============================================================================
