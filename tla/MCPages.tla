------------------------------- MODULE MCPages --------------------------------
(*****************************************************************************)
(* The instance of Pages for TLC.  `which' says which of the two pages a     *)
(* behaviour is of, and the other stays where it starts.  The dashboard is   *)
(* also taken without reloads and with two operations, for what must come    *)
(* about, and the explorer also with a deal, or a slab in OPFS, that changes *)
(* while calls are under way: it then presses no button, and OPFS holds      *)
(* whole slabs only.                                                         *)
(*****************************************************************************)
EXTENDS Pages

VARIABLE which

boardVars  == <<owner, chain, lcd, address, nilAddress, deals, allDeals, overrides,
                target, staged, loads, content, recent, ui, ops, reloads>>
detailVars == <<serial, made, onChain, resets, opfs, cache, deal, cid, calls, flags, files,
                slab, slabSource, manifest, manifestError, mduKzg, part, busy, dls,
                started, saved>>

L == INSTANCE Dashboard WITH
        Accounts <- Owners, MaxOps <- 2, MaxAttempts <- 2, MaxRecent <- 1, MaxReloads <- 0,
        Expires <- FALSE
O == INSTANCE DealDetail WITH
        MaxDownloads <- 0, RootOnly <- FALSE, chain <- onChain, loading <- flags

ASSUME L!DashboardAssumption /\ O!DetailAssumption

MCInit ==
    /\ which \in {"board", "live board", "explorer", "busy explorer"}
    /\ B!Init /\ E!Init
    /\ serial = (which # "busy explorer")

MCNext ==
    \/ which = "board" /\ B!Next /\ UNCHANGED <<which, detailVars>>
    \/ which = "live board" /\ L!Next /\ UNCHANGED <<which, detailVars>>
    \/ which = "explorer" /\ E!Next /\ UNCHANGED <<which, boardVars>>
    \/ which = "busy explorer" /\ O!Next /\ UNCHANGED <<which, boardVars>>

MCSpec ==
    /\ MCInit /\ [][MCNext]_<<which, boardVars, detailVars>>
    /\ \A k \in 1..2 : WF_boardVars(which = "live board" /\ L!Progress(k))
-----------------------------------------------------------------------------
\* A deal whose creation the page has read in its receipt is selected in the
\* end, though the LCD may lag behind for the whole loop or fail in each round.
NewDealIsSelected == which = "live board" => L!NewDealIsSelected
=============================================================================
