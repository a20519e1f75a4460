----------------------------- MODULE MCSlashing -----------------------------
(***************************************************************************)
(* Where a Mode 2 deal lives and who answers for it: two slots and three     *)
(* providers; slots are repaired in any order, a stripe is added, providers  *)
(* prove in time, late or not at all, and blocks go by until proofs are      *)
(* overdue.  assignedAt remembers when each provider was assigned to the     *)
(* deal, 0 while it is not.                                                  *)
(***************************************************************************)
EXTENDS MCBase, NilChainHistory

VARIABLE assignedAt
mcVars == <<allVars, assignedAt>>

MCDealMsgs == {[hint |-> "General", rs |-> [k |-> 1, m |-> 1], replicas |-> 0,
                escrow |-> 2, spend |-> 2, duration |-> 4]}

MCParamSets ==
    {[baseFee |-> 0, blobPrice |-> 0, burnBps |-> 0, creationFee |-> 0,
      minDuration |-> 0, monthLen |-> 0, stripeCost |-> 1, storagePrice |-> 0,
      halving |-> 2]}

RecordAssignment ==
    assignedAt' = [dp \in Pairs |->
                     CASE ~AssignedTo(dp)' -> 0
                       [] AssignedTo(dp)' /\ ~AssignedTo(dp) -> height
                       [] OTHER -> assignedAt[dp]]

MCInit ==
    /\ \E m \in DealMsgs : StartFrom(m, <<p1, p2>>)
    /\ HistoryInit
    /\ assignedAt = [dp \in Pairs |-> IF AssignedTo(dp) THEN height ELSE 0]

MCNext ==
    /\ \/ \E p \in Providers, d \in DealIds, s \in 1..DealBaseReplication :
             ProveLivenessSystem(p, d, s)
       \/ \E p \in Providers, d \in DealIds : SignalSaturation(p, d)
       \/ \E u \in Users, d \in DealIds, i \in 1..2, q \in {p1, p3} :
             StartSlotRepair(u, d, i, q)
       \/ \E u \in Users, d \in DealIds, i \in 1..2 : CompleteSlotRepair(u, d, i)
       \/ EndBlock
    /\ NothingSigned
    /\ RecordWindows
    /\ RecordAssignment

MCSpec == MCInit /\ [][MCNext]_mcVars
-----------------------------------------------------------------------------
(* What a document, a comment or a test says and the code does not keep; the *)
(* README tells how. *)

\* The legacy list of a Mode 2 deal equals the list of its slots' providers.
ProvidersEqualSlots ==
    \A d \in DOMAIN deals :
        deals[d].profile # NoProfile =>
            deals[d].providers =
                [i \in DOMAIN deals[d].slots |-> deals[d].slots[i].provider]

\* Per-slot accountability applies only to ACTIVE slots: a provider whose slot
\* is REPAIRING, and whose proofs are refused, is not slashed for missing them.
RepairingSlotsAreExempt ==
    [][\A dp \in Pairs : SlashStep(dp) =>
          ~SlotRepairing(deals[dp[1]], dp[2])]_mcVars

\* A provider has ProofWindow blocks to prove before it is slashed, counted
\* from the block in which it was assigned to the deal.
NewcomersGetAWindow ==
    [][\A dp \in Pairs : SlashStep(dp) =>
          height > assignedAt[dp] + ProofWindow]_mcVars
=============================================================================
