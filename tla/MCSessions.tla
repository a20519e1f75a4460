------------------------------ MODULE MCSessions ------------------------------
(*****************************************************************************)
(* Retrieval sessions on one Mode 2 deal with two slots.  Sessions of both   *)
(* providers overlap, some without a deadline, while the owner changes the   *)
(* content, slots are repaired, governance changes the fees and blocks go    *)
(* by.                                                                       *)
(*****************************************************************************)
EXTENDS MCBase

MCDealMsgs == {[hint |-> "General", rs |-> [k |-> 1, m |-> 1], replicas |-> 0,
                escrow |-> 7, spend |-> 0, duration |-> 9]}
MCContents == {[root |-> r, size |-> 1] : r \in {r1, r2}}

Request(p, slot, n, e) ==
    [owner |-> u1, deal |-> 1, provider |-> p, root |-> r1, slot |-> slot,
     blobs |-> 2, nonce |-> n, expires |-> e]
MCSessionReqs == {Request(p1, 1, 1, 0), Request(p1, 1, 1, 2),
                  Request(p1, 1, 2, 2), Request(p2, 2, 1, 2)}

\* A cheap and a dear fee schedule; 3333 basis points of a fee of 2 round up.
MCParamSets ==
    {[baseFee |-> b, blobPrice |-> 1, burnBps |-> 3333, creationFee |-> 0,
      minDuration |-> 0, monthLen |-> 0, stripeCost |-> 1, storagePrice |-> 1,
      halving |-> 5] : b \in {0, 1}}

\* The handlers that touch sessions, what they read, or the escrow.
MCNext ==
    \/ SessionNext
    \/ \E u \in Users, d \in DealIds, c \in Contents :
          UpdateDealContent(u, d, c)
    \/ \E new \in ParamSets : UpdateParams(new)
    \/ \E u \in Users, d \in DealIds : StartSlotRepair(u, d, 1, p3)
    \/ \E u \in Users, d \in DealIds : CompleteSlotRepair(u, d, 1)
    \/ EndBlock

MCInit == \E m \in DealMsgs : StartFrom(m, <<p1, p2>>)

MCSpec == MCInit /\ [][MCNext]_vars /\ Fairness
=============================================================================
