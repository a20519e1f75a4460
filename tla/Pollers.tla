---------------------------- MODULE Pollers ----------------------------
(***************************************************************************)
(* The live views of the website: React effects that query a remote (the   *)
(* LCD, the EVM RPC, the local gateway, the wallet), repeat the query on   *)
(* an interval and copy each answer into component state.  The code has    *)
(* twelve of them, written with the same parts and differing in which they *)
(* have, so one machine models them and `view' says which one it is.       *)
(* A query is not awaited by the next one: several are under way at once   *)
(* and are answered in any order.  An effect that is over leaves its       *)
(* queries running; the `cancelled' flag it sets (or, where there is none, *)
(* the component being gone) keeps their answers out.                      *)
(* What the remote holds is abstracted to a version number.                *)
(***************************************************************************)
EXTENDS Naturals, FiniteSets

CONSTANTS Accounts,     \* wallet addresses (or deal lists) an effect may depend on
          MaxInFlight,  \* bound: queries under way at once
          MaxVersion    \* bound: versions of the remote's state

\* What the constants are taken to be.
PollersAssumption ==
    /\ MaxInFlight \in Nat \ {0}
    /\ MaxVersion \in Nat \ {0}
    /\ Accounts \cap {"off", "page"} = {}

Views == {"chain", "accounts", "rpc", "heat", "sessions", "params",
          "gateway", "unlock", "proofs", "bridge", "activity", "status"}

VARIABLES view,     \* which of the views this is
          version,  \* version of the state the remote holds
          key,      \* dependency of the running effect, Off when there is none
          timer,    \* whether the running effect's interval is set
          leaked,   \* an interval of an effect that is over is set (proofs only)
          reqs,     \* queries under way
          shown,    \* component state: whose answer, of which version
          listed,   \* version of the provider list (activity only)
          loading,  \* the loading flag; `connecting' for the gateway
          error     \* the error message is set

vars == <<view, version, key, timer, leaked, reqs, shown, listed, loading, error>>

Off == "off"
Slots == 1 .. MaxInFlight
NoReq == [key |-> Off, at |-> 0, live |-> FALSE, first |-> FALSE, stage |-> 0]
Nothing == [key |-> Off, at |-> 0]

----------------------------------------------------------------------------
(* How the views differ.                                                   *)

\* Effects that start again for another account or deal list.
Keyed == {"sessions", "heat"}

\* Effects that stop while the wallet is not connected, the page staying open.
Switched == {"accounts", "unlock"}

Keys == IF view \in Keyed THEN Accounts ELSE {"page"}

\* Views that repeat their query on an interval.
Timed == Views \ {"chain", "accounts", "status"}

\* useProofs sets its interval only after its first query is over.
TimerFirst == Timed \ {"proofs"}

\* Views the wallet tells of a change by an event.
Pushed == {"chain", "accounts"}

\* Views that query again when the window gets the focus.
OnFocus == {"accounts", "unlock"}

\* Views that raise a loading flag around each query.
HasLoading == {"sessions", "proofs", "bridge", "activity", "gateway"}

\* Views that ask in two stages: providers and then their sessions;
\* /status and, when it is not served, /health.
TwoStage == {"activity", "gateway"}

\* Views whose state is cleared when their effect finds nothing to depend on.
ClearedWhenOff == {"sessions", "heat", "accounts"}

\* Views whose state is cleared by a query that fails.
ClearedByFailure == {"params", "gateway", "accounts", "unlock", "heat"}

\* Views that take an answer they cannot read for an empty one.
EmptyWhenGarbled == {"chain", "accounts", "rpc", "heat", "sessions"}

\* Views whose queries catch every failure themselves and answer with what
\* they have.
NeverFails == {"status"}

\* Views that show a message when a query fails.
ShowsError == {"sessions", "params", "gateway", "bridge", "activity"}

----------------------------------------------------------------------------
Init ==
    /\ view \in Views
    /\ version = 1
    /\ key = Off
    /\ timer = FALSE
    /\ leaked = FALSE
    /\ reqs = [i \in Slots |-> NoReq]
    /\ shown = Nothing
    /\ listed = 0
    /\ loading = FALSE
    /\ error = FALSE

Free(i) == reqs[i].stage = 0

\* The cleanup of an effect: `cancelled' is set for every query it began.
Cancelled == [i \in Slots |-> [reqs[i] EXCEPT !.live = FALSE]]

NewReq(k, first) ==
    [key |-> k, at |-> 0, live |-> TRUE, first |-> first, stage |-> 1]

\* What beginning a query does to the flags.
Loading ==
    /\ loading' = (loading \/ view \in HasLoading)
    /\ error' = (error /\ view # "gateway")

\* The effect runs, for the first time or for another key: the previous one is
\* cleaned up, the first query goes out and the interval is set.
Start(k) ==
    /\ k \in Keys /\ k # key
    /\ \E i \in Slots :
        /\ Free(i)
        /\ reqs' = [Cancelled EXCEPT ![i] = NewReq(k, TRUE)]
    /\ key' = k
    /\ timer' = (view \in TimerFirst)
    /\ Loading
    /\ UNCHANGED <<view, version, leaked, shown, listed>>

\* The early return of the effect does not lower the loading flag.
DisconnectStillLoading ==
    /\ key # Off
    /\ view \in Keyed \cup Switched
    /\ key' = Off
    /\ timer' = FALSE
    /\ reqs' = Cancelled
    /\ shown' = IF view \in ClearedWhenOff THEN Nothing ELSE shown
    /\ UNCHANGED <<view, version, leaked, listed, loading, error>>

\* The wallet is disconnected or the deal list empties: the effect is cleaned
\* up and its next run returns early.
Disconnect ==
    /\ key # Off
    /\ view \in Keyed \cup Switched
    /\ key' = Off
    /\ timer' = FALSE
    /\ reqs' = Cancelled
    /\ shown' = IF view \in ClearedWhenOff THEN Nothing ELSE shown
    /\ loading' = FALSE
    /\ error' = FALSE
    /\ UNCHANGED <<view, version, leaked, listed>>

\* The component is unmounted and its state is gone.
Leave ==
    /\ key # Off
    /\ key' = Off
    /\ timer' = FALSE
    /\ reqs' = Cancelled
    /\ shown' = Nothing
    /\ listed' = 0
    /\ loading' = FALSE
    /\ error' = FALSE
    /\ UNCHANGED <<view, version, leaked>>

\* The interval elapses, or the window gets the focus: another query goes out
\* whether or not the one before has been answered.  An interval that outlived
\* its effect sends none, `if (cancelled) return'.
Query ==
    /\ key # Off
    /\ timer \/ view \in OnFocus
    /\ \E i \in Slots :
        /\ Free(i)
        /\ reqs' = [reqs EXCEPT ![i] = NewReq(key, FALSE)]
    /\ Loading
    /\ UNCHANGED <<view, version, key, timer, leaked, shown, listed>>

\* The remote's state changes.
Change ==
    /\ view \notin Pushed
    /\ version < MaxVersion
    /\ version' = version + 1
    /\ UNCHANGED <<view, key, timer, leaked, reqs, shown, listed, loading, error>>

\* The wallet changes accounts or chain and says so to a running effect.  It
\* delivers in order: the answers it computed before the change come first.
Push ==
    /\ view \in Pushed
    /\ version < MaxVersion
    /\ \A i \in Slots : reqs[i].at = 0
    /\ version' = version + 1
    /\ shown' = IF key = Off THEN shown ELSE [key |-> key, at |-> version + 1]
    /\ UNCHANGED <<view, key, timer, leaked, reqs, listed, loading, error>>

\* The remote computes its answer to a query.
Serve(i) ==
    /\ ~Free(i)
    /\ reqs[i].at = 0
    /\ reqs' = [reqs EXCEPT ![i].at = version]
    /\ UNCHANGED <<view, version, key, timer, leaked, shown, listed, loading, error>>

\* The first of two stages is answered: the provider list is shown and the
\* sessions are asked for; or /status is not served and /health is asked.
SecondStage(i) ==
    /\ view \in TwoStage
    /\ reqs[i].stage = 1
    /\ reqs[i].at # 0
    /\ reqs' = IF reqs[i].live
               THEN [reqs EXCEPT ![i].at = 0, ![i].stage = 2]
               ELSE [reqs EXCEPT ![i] = NoReq]
    /\ listed' = IF view = "activity" /\ reqs[i].live THEN reqs[i].at ELSE listed
    /\ UNCHANGED <<view, version, key, timer, leaked, shown, loading, error>>

\* `if (!cancelled)' left out.
AppliesAlways(r) == r.stage # 0

\* Whether the effect (or the component) that began a query is still there.
Applies(r) == r.live

\* The interval is set only when the first query succeeded.
OverTimerOnce(i) ==
    /\ reqs' = [reqs EXCEPT ![i] = NoReq]
    /\ loading' = (loading /\ ~Applies(reqs[i]))
    /\ timer' = (timer /\ ~Applies(reqs[i]))
    /\ UNCHANGED <<view, version, key, leaked, listed>>

\* What remains to be done when a query is over: the loading flag is lowered,
\* and useProofs sets its interval after its first one, whether or not it was
\* cancelled in the meantime; nothing clears one that is set too late.
Over(i) ==
    /\ reqs' = [reqs EXCEPT ![i] = NoReq]
    /\ loading' = (loading /\ ~Applies(reqs[i]))
    /\ timer' = (timer \/ (Applies(reqs[i]) /\ reqs[i].first /\ view = "proofs"))
    /\ leaked' = (leaked \/ (~Applies(reqs[i]) /\ reqs[i].first /\ view = "proofs"))
    /\ UNCHANGED <<view, version, key, listed>>

\* An answer arrives; some providers' sessions may be missing from it
\* (`partial').
Answer(i, partial) ==
    /\ reqs[i].at # 0
    /\ view = "activity" => reqs[i].stage = 2
    /\ partial => view = "activity"
    /\ Over(i)
    /\ IF Applies(reqs[i])
       THEN /\ shown' = [key |-> reqs[i].key, at |-> reqs[i].at]
            /\ error' = partial
       ELSE UNCHANGED <<shown, error>>

\* An answer arrives that cannot be read and counts as an empty one.
Garbled(i) ==
    /\ reqs[i].at # 0
    /\ view \in EmptyWhenGarbled
    /\ Over(i)
    /\ IF Applies(reqs[i])
       THEN /\ shown' = Nothing
            /\ error' = FALSE
       ELSE UNCHANGED <<shown, error>>

\* A query fails.  The session queries of the second stage of `activity' are
\* settled one by one and never fail as a whole.
Fail(i) ==
    /\ ~Free(i)
    /\ view \notin NeverFails
    /\ view = "activity" => reqs[i].stage = 1
    /\ Over(i)
    /\ IF Applies(reqs[i])
       THEN /\ shown' = IF view \in ClearedByFailure THEN Nothing ELSE shown
            /\ error' = (error \/ view \in ShowsError)
       ELSE UNCHANGED <<shown, error>>

Next ==
    \/ \E k \in Keys : Start(k)
    \/ Disconnect
    \/ Leave
    \/ Query
    \/ Change
    \/ Push
    \/ \E i \in Slots :
        \/ Serve(i)
        \/ SecondStage(i)
        \/ \E partial \in BOOLEAN : Answer(i, partial)
        \/ Garbled(i)
        \/ Fail(i)

Spec == Init /\ [][Next]_vars

\* Intervals go on firing, a query is served or fails, and a remote that is
\* asked again and again lets answers through again and again.
Fairness ==
    /\ WF_vars(Query)
    /\ \A i \in Slots :
        /\ WF_vars(Serve(i) \/ Fail(i))
        /\ SF_vars(Serve(i))
        /\ SF_vars(SecondStage(i))
        /\ SF_vars(\E partial \in BOOLEAN : Answer(i, partial))

FairSpec == Spec /\ Fairness

----------------------------------------------------------------------------
(* Properties.                                                             *)

Requests == [key : Accounts \cup {Off, "page"}, at : 0 .. MaxVersion,
             live : BOOLEAN, first : BOOLEAN, stage : 0 .. 2]

\* The variables have their types, an interval that sends queries is set only
\* while its effect runs, only useProofs leaves one behind, and a free slot
\* carries no query that could still take effect.
TypeOK ==
    /\ view \in Views
    /\ version \in 1 .. MaxVersion
    /\ key \in Keys \cup {Off}
    /\ timer \in BOOLEAN
    /\ reqs \in [Slots -> Requests]
    /\ shown \in [key : Accounts \cup {Off, "page"}, at : 0 .. MaxVersion]
    /\ listed \in 0 .. MaxVersion
    /\ loading \in BOOLEAN
    /\ error \in BOOLEAN
    /\ timer => key # Off
    /\ leaked \in BOOLEAN
    /\ leaked => view = "proofs"
    /\ \A i \in Slots : Free(i) => ~reqs[i].live /\ reqs[i].at = 0

\* A query whose answer will be applied was begun by the effect that runs now.
LiveIsCurrent == \A i \in Slots : reqs[i].live => key # Off /\ reqs[i].key = key

\* Hazard: an answer that arrives after the account has been switched.  What
\* a view writes into its state is the answer for the account it shows now:
\* the queries of an earlier effect, still under way, never reach it.
WritesAreOfKey ==
    [][shown' # shown => shown' = Nothing \/ shown'.key = key']_vars

\* Hazard: a flag raised by an effect that is cleaned up before its query is
\* answered.  While a view says it is loading, a query of its running effect
\* is under way, so the flag can always be lowered.
LoadingIsTrue ==
    loading => \E i \in Slots : reqs[i].live /\ reqs[i].stage # 0

\* What a view shows, and its loading flag, are of the effect that runs.
ViewsAreCurrent == [](TypeOK /\ LoadingIsTrue) /\ WritesAreOfKey

\* Polling goes on: a view that stays open for an account
\* comes to show the remote's state once that has stopped changing,
\* whatever was lost before.
CatchesUp ==
    \A k \in Accounts \cup {"page"} :
        <>[](view \in Timed /\ key = k /\ version = MaxVersion)
            => []<>(shown.at = MaxVersion)
-----------------------------------------------------------------------------
(* What a document, a comment or a test says and the code does not keep; the *)
(* README tells how. *)

\* `My Retrieval Sessions' shows the sessions of the wallet that is connected.
SessionsAreMine ==
    (view = "sessions" /\ key # Off /\ shown # Nothing) => shown.key = key

\* The cleanup of an effect clears its interval.
NoIntervalLeaks == ~leaked

\* `Live view of on-chain retrieval sessions': what is shown never gives way
\* to an earlier state of the chain while the page stays open.
ShownNeverGoesBack ==
    [][(view = "activity" /\ shown' # Nothing) => shown'.at >= shown.at]_vars
=============================================================================
