------------------------------- MODULE MCBase -------------------------------
(***************************************************************************)
(* What the model-checking modules of NilChain share: named model values and *)
(* the state in which most of them start.                                    *)
(***************************************************************************)
EXTENDS NilChain

CONSTANTS u1, u2, p1, p2, p3, r1, r2, f1, f2

NoMsgs == {}
OneUser == {u1}
TwoUsers == {u1, u2}
TwoProviders == {p1, p2}
ThreeProviders == {p1, p2, p3}
TwoRoots == {r1, r2}

\* The state after RegisterProvider of all providers, a CreateDeal with
\* message m that drew the given providers and an UpdateDealContent with root
\* r1 and size 1, all in block 1.
StartFrom(m, assigned) ==
    /\ height = 1
    /\ params \in ParamSets
    /\ capability = [p \in Providers |-> IF p = p1 THEN "Archive" ELSE "Edge"]
    /\ reputation = [p \in Providers |-> InitialReputation]
    /\ rewards = [p \in Providers |-> 0]
    /\ deals = <<[NewDeal(u1, m, assigned) EXCEPT
                    !.root = r1, !.size = 1, !.gen = 1,
                    !.escrow = @ + TermDeposit(params.storagePrice, 1,
                                               m.duration)]>>
    /\ balance = [a \in Accounts |->
                    CASE a = Module -> deals[1].escrow
                      [] a = FeeCollector -> 0
                      [] OTHER -> GenesisCoins]
    /\ sessions = [id \in {} |-> 0]
    /\ evmNonce = [u \in Users |-> 0]
    /\ sessionNonce = [k \in Users \X DealIds \X Providers |-> 0]
    /\ receiptNonce = [k \in DealIds \X Files |-> 0]
    /\ lastProof = [dp \in Pairs |-> 0]
    /\ failures = [dp \in Pairs |-> 0]
    /\ heat = [d \in DealIds |-> [bytes |-> 0, ok |-> 0, failed |-> 0]]
    /\ proofLog = [dp \in Pairs |-> [valid |-> 0, invalid |-> 0]]
=============================================================================
