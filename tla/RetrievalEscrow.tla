-------------------------- MODULE RetrievalEscrow --------------------------
(***************************************************************************)
(* What a retrieval session promises its two parties, whatever messages     *)
(* arrive in whatever order: the fee of a session is held once, and then     *)
(* either paid - after both the provider and the owner have agreed, neither  *)
(* of them later than the session's deadline - or returned to the deal, and  *)
(* only after the deadline.  A deadline of 0 never passes.                   *)
(***************************************************************************)
EXTENDS Naturals

CONSTANTS Sessions,     \* the sessions that may ever be opened
          Deadline      \* the deadline of each
VARIABLES now, phase, agreed

escrowVars == <<now, phase, agreed>>

Parties == {"owner", "provider"}
InTime(s) == Deadline[s] = 0 \/ now <= Deadline[s]

EscrowInit ==
    /\ now = 1
    /\ phase = [s \in Sessions |-> "none"]
    /\ agreed = [s \in Sessions |-> {}]

Hold(s) ==
    /\ phase[s] = "none"
    /\ phase' = [phase EXCEPT ![s] = "held"]
    /\ UNCHANGED <<now, agreed>>

\* The agreement that completes the pair pays the fee in the same step.
Agree(s, party) ==
    /\ phase[s] = "held"
    /\ InTime(s)
    /\ party \notin agreed[s]
    /\ agreed' = [agreed EXCEPT ![s] = @ \cup {party}]
    /\ phase' = [phase EXCEPT ![s] = IF agreed'[s] = Parties THEN "paid"
                                                             ELSE "held"]
    /\ UNCHANGED now

\* A single agreement lapses with the session.
Return(s) ==
    /\ phase[s] = "held"
    /\ ~InTime(s)
    /\ phase' = [phase EXCEPT ![s] = "returned"]
    /\ agreed' = [agreed EXCEPT ![s] = {}]
    /\ UNCHANGED now

Tick == now' = now + 1 /\ UNCHANGED <<phase, agreed>>

EscrowNext ==
    \/ \E s \in Sessions : Hold(s) \/ Return(s)
    \/ \E s \in Sessions, party \in Parties : Agree(s, party)
    \/ Tick

EscrowSpec == EscrowInit /\ [][EscrowNext]_escrowVars
=============================================================================
