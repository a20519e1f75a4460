------------------------------- MODULE MCDeals -------------------------------
(***************************************************************************)
(* From genesis: providers register, users create Mode 1 and Mode 2 deals by *)
(* Cosmos messages and by EVM-signed intents, commit content, top up escrow, *)
(* and governance changes the prices.                                        *)
(***************************************************************************)
EXTENDS MCBase, NilChainHistory

OneRoot == {r1}
MCDealMsgs ==
    {[hint |-> "Hot", rs |-> [k |-> 1, m |-> 1], replicas |-> 0,
      escrow |-> 1, spend |-> 0, duration |-> 2],
     [hint |-> "Cold", rs |-> NoProfile, replicas |-> 3,
      escrow |-> 0, spend |-> 0, duration |-> 1]}
MCContents == {[root |-> r1, size |-> s] : s \in {1, 2}}
MCAmounts == {1}

MCParamSets ==
    {[baseFee |-> 0, blobPrice |-> 0, burnBps |-> 0, creationFee |-> c,
      minDuration |-> 1 + c, monthLen |-> 0, stripeCost |-> 1,
      storagePrice |-> 5, halving |-> 2] : c \in {0, 1}}

MCNext ==
    /\ IntentNext \/ ((RegistryNext \/ SenderNext) /\ NothingSigned)
    /\ RecordWindows

MCInit == Init /\ HistoryInit

MCSpec == MCInit /\ [][MCNext]_allVars
-----------------------------------------------------------------------------
(* What a document, a comment or a test says and the code does not keep; the *)
(* README tells how. *)

\* A Mode 2 deal has a slot for each of its K+M shards.
SlotMapComplete ==
    \A d \in DOMAIN deals :
        deals[d].profile # NoProfile =>
            Len(deals[d].slots) = deals[d].profile.k + deals[d].profile.m
=============================================================================
