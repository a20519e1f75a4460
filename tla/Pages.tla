-------------------------------- MODULE Pages ---------------------------------
(*****************************************************************************)
(* The two large pages of the website: the dashboard and the deal explorer.  *)
(* They share no state.  What is said of them here is checked by MCPages and *)
(* proved in BrowserProofs.                                                  *)
(*****************************************************************************)
EXTENDS Naturals

CONSTANTS
    Owners, Files, NoAccount, NoFile, NumDeals, MaxOps, MaxRefreshes,   \* Dashboard
    MaxRecent, MaxReloads, Expires,
    Deals, Paths, FirstDeal, NoPath, MaxContents, MaxResets,            \* DealDetail
    MaxDownloads, RootOnly

VARIABLES
    owner, chain, lcd, address, nilAddress, deals, allDeals, overrides,     \* Dashboard
    target, staged, loads, content, recent, ui, ops, reloads,
    serial, made, onChain, resets, opfs, cache, deal, cid, calls, flags,    \* DealDetail
    files, slab, slabSource, manifest, manifestError, mduKzg, part, busy, dls, started, saved

B == INSTANCE Dashboard WITH Accounts <- Owners, MaxAttempts <- MaxRefreshes
E == INSTANCE DealDetail WITH chain <- onChain, loading <- flags

ASSUME PagesAssumption == B!DashboardAssumption /\ E!DetailAssumption
-----------------------------------------------------------------------------
\* What the dashboard shows is of the deal that is selected: files shown when
\* nothing is loading are those of that deal under the root the list gives it,
\* and a root just committed stays on display while the LCD catches up,
\* however late answers come.
ContentIsOfTarget ==
    /\ B!ContentIsOfTarget
    /\ B!OptimisticRootShown

\* The variables of the dashboard have their types, its list of recent files has
\* no file twice and one load at most is current; and until the page is reloaded,
\* which forgets downloads and keeps the list, a file that is shown as downloading
\* is being downloaded.
PendingIsUnderWay ==
    /\ B!TypeOK
    /\ reloads = 0 => B!PendingIsUnderWay

\* While nothing changes under a call, the explorer shows the deal: a slab
\* whose source is named is that of the root on display; a manifest shown
\* without an error was computed from, or served for, that slab, even if OPFS
\* has a root with other MDUs; and a deal without content shows no files and
\* no slab.
ExplorerShowsTheDeal == serial => E!ExplorerShowsTheDeal

\* A panel that says it is loading has a call under way, whatever calls of
\* earlier deals are still answered.
LoadingIsTrue == E!LoadingIsTrue
=============================================================================
