----------------------------- MODULE Transport -----------------------------
(***************************************************************************)
(* The website's transport router: every read, upload and byte range goes    *)
(* to one of up to three backends (local gateway, storage provider, libp2p), *)
(* is retried there, and falls back to the next.                             *)
(*                                                                         *)
(* A call is one invocation of a method of useTransportRouter; calls of the  *)
(* page run concurrently and share only the preference and the last trace.   *)
(* An answer is what reaches the browser: a status with the kind of text in  *)
(* its body, a success, a network error, or nothing at all.  Endpoints,      *)
(* payloads and clocks are left out; a timer is a step that may be taken.    *)
(***************************************************************************)
EXTENDS Integers, Sequences, FiniteSets

CONSTANTS
    Calls,          \* calls the page makes between two loads
    NoCall,         \* no trace yet
    Statuses        \* HTTP error statuses backends answer with

\* What the constants are taken to be.
StatusesAssumption == Statuses \subseteq Nat /\ 429 \in Statuses

VARIABLES
    config,         \* appConfig: the build's gatewayDisabled and p2pEnabled
    stored,         \* localStorage['nil_transport_preference']
    preference,     \* TransportContext.preference
    call,           \* the calls, each with its progress through the router
    lastTrace       \* TransportContext.lastTrace: the call it describes

vars == <<config, stored, preference, call, lastTrace>>

Backends    == {"gateway", "direct_sp", "libp2p"}
Preferences == {"auto", "prefer_gateway", "prefer_direct_sp", "prefer_p2p"}
Ops == {"list_files", "slab", "plan", "manifest_info", "mdu_kzg", "upload", "fetch"}
ErrorClasses ==
    {"timeout", "connection_refused", "dns", "http_429", "http_4xx", "http_5xx",
     "cors", "provider_mismatch", "invalid_response", "unknown"}

\* An attempt waits for the answer to begin (its headers), then reads it.
Trying  == {"waiting", "reading"}
Running == Trying \cup {"backoff"}
Settled == {"ok", "terminal", "exhausted", "no_candidates"}

Idle == [op |-> "plan", order |-> <<>>, at |-> 0, n |-> 0, total |-> 0,
         failures |-> [b \in Backends |-> <<>>], st |-> "idle"]

-----------------------------------------------------------------------------
(* Preference *)

InitialPreference(cfg, raw) ==
    CASE cfg.gatewayDisabled -> "prefer_direct_sp"
      [] ~cfg.gatewayDisabled /\ raw = "prefer_p2p" ->
            IF cfg.p2pEnabled THEN "prefer_p2p" ELSE "auto"
      [] OTHER -> raw

resolvePreference(cfg, candidate) ==
    CASE candidate = "prefer_p2p" /\ cfg.p2pEnabled -> "prefer_p2p"
      [] cfg.gatewayDisabled -> "prefer_direct_sp"
      [] candidate = "prefer_p2p" -> "auto"
      [] OTHER -> candidate

Preferred(pref) ==
    CASE pref = "auto"             -> {}
      [] pref = "prefer_gateway"   -> {"gateway"}
      [] pref = "prefer_p2p"       -> {"libp2p"}
      [] pref = "prefer_direct_sp" -> {"direct_sp"}

\* The order in which every method pushes its candidates.
Listed(S) ==
    (IF "gateway" \in S THEN <<"gateway">> ELSE <<>>)
    \o (IF "direct_sp" \in S THEN <<"direct_sp">> ELSE <<>>)
    \o (IF "libp2p" \in S THEN <<"libp2p">> ELSE <<>>)

\* A stable sort that moves the preferred backend to the front.
orderCandidates(pref, S) ==
    Listed(S \cap Preferred(pref)) \o Listed(S \ Preferred(pref))

-----------------------------------------------------------------------------
(* Candidates of each method.  An explicit direct base is one that differs   *)
(* from the gateway's; spBase, too, is not the gateway's address.            *)

\* Without the fallback to the provider the build names.
ExplicitBaseOnly(cfg, direct) == direct

HasDirectBase(cfg, direct) == direct \/ cfg.gatewayDisabled

ReadCandidates(cfg, direct) ==
    {b \in {"gateway", "direct_sp"} :
        \/ b = "gateway" /\ ~cfg.gatewayDisabled
        \/ b = "direct_sp" /\ HasDirectBase(cfg, direct)}

UploadCandidates(cfg) ==
    {"direct_sp"} \cup (IF cfg.gatewayDisabled THEN {} ELSE {"gateway"})

FetchCandidates(cfg, direct, p2p) ==
    ReadCandidates(cfg, direct)
    \cup (IF p2p /\ cfg.p2pEnabled THEN {"libp2p"} ELSE {})

Candidates(cfg, op, direct, p2p) ==
    CASE op = "upload" -> UploadCandidates(cfg)
      [] op = "fetch"  -> FetchCandidates(cfg, direct, p2p)
      [] OTHER         -> ReadCandidates(cfg, direct)

\* Two attempts for an upload as for everything else.
AttemptsTwice(op) == 2

maxAttemptsPerBackend(op) == IF op = "upload" THEN 1 ELSE 2

-----------------------------------------------------------------------------
(* Answers and how they are classified *)

Answers ==
    [kind : {"status"}, status : Statuses, body : {"empty", "plain", "cors", "not_found", "number"}]
    \cup [kind : {"ok", "malformed", "refused", "silence", "no_header", "other_provider"}]

classifyStatus(s) ==
    CASE s = 429 -> "http_429"
      [] s >= 500 -> "http_5xx"
      [] s >= 400 /\ s # 429 /\ s < 500 -> "http_4xx"
      [] OTHER -> "unknown"

\* The JSON clients throw the body's text, or a message with the status when
\* the body is empty; coerceHttpError reads the first three-digit number of
\* that message as the status, and classifyError looks for "not found".
coerceHttpError(a) ==
    CASE a.body = "empty"     -> {classifyStatus(a.status)}
      [] a.body = "number"    -> {classifyStatus(s) : s \in Statuses \cup {127}}
      [] a.body = "not_found" -> {"dns"}
      [] a.body = "cors"      -> {"cors"}
      [] a.body = "plain"     -> {"unknown"}

\* The byte-range backends drop the signal, as all the others do.
HonoursNoSignal(op) == FALSE

\* The abort signal reaches the byte-range backends only.
HonoursSignal(op) == op = "fetch"

\* Posts the upload without a timer.
OwnTimerOfReads(op) == op \in {"plan", "mdu_kzg"}

\* gatewayPlanRetrievalSession, gatewayFetchMduKzg and gatewayUpload bring
\* their own timer, whose error is no AbortError; fetchWithTimeout clears it
\* when the headers are there, before the body is read.
OwnTimer(op) == op \in {"plan", "mdu_kzg", "upload"}

\* What ends an attempt nobody answers.
TimerRuns(op, st) == HonoursSignal(op) \/ (OwnTimer(op) /\ st = "waiting")

\* A body that cannot be read is an error, save for the two clients that make
\* an empty result of it; a byte range has no form, but its libp2p frame has.
NoticesMalformed(op, b) == op \notin {"upload", "list_files", "fetch"} \/ b = "libp2p"

\* The answers an attempt can meet: what a method does not check is not told
\* apart from a success.  A connection that breaks while a JSON client reads
\* leaves it with an empty body or one that cannot be read.
PossibleAnswers(op, b, st) ==
    {a \in Answers :
        /\ a.kind = "silence" => TimerRuns(op, st)
        /\ a.kind = "refused" => st = "waiting" \/ op = "fetch"
        /\ a.kind \notin {"silence", "refused"} => st = "reading"
        /\ a.kind \in {"no_header", "other_provider"} => op = "fetch"
        /\ a.kind = "malformed" => NoticesMalformed(op, b)
        /\ a.kind = "status" /\ op = "fetch" => a.body = "empty"}

\* The classes of the error an answer becomes; a success has none.
classifyError(op, a) ==
    CASE a.kind = "ok"        -> {}
      [] a.kind = "malformed" -> {"unknown"}
      [] a.kind = "refused"   -> {"connection_refused"}
      [] a.kind = "silence"   -> IF HonoursSignal(op) THEN {"timeout"} ELSE {"unknown"}
      [] a.kind = "no_header" -> {"invalid_response"}
      [] a.kind = "other_provider" -> {"provider_mismatch"}
      [] a.kind = "status" /\ op = "fetch" -> {classifyStatus(a.status)}
      [] a.kind = "status" /\ op # "fetch" -> coerceHttpError(a)

isRetryable(e) == e \in {"timeout", "connection_refused", "dns", "http_5xx", "http_429"}

\* Takes a provider that answers for another one as a reason to try elsewhere.
IsTerminalWithoutMismatch(e) == e = "invalid_response"

isTerminal(e) == e \in {"provider_mismatch", "invalid_response"}

-----------------------------------------------------------------------------
(* executeWithFallback *)

Attempt(r) == [r EXCEPT !.st = "waiting", !.n = @ + 1, !.total = @ + 1]

maxTotal(r) == Len(r.order) * maxAttemptsPerBackend(r.op)

\* Gives up where the loop would go on to the next candidate.
GiveUp(r) == [r EXCEPT !.st = "exhausted"]

NextCandidate(r) ==
    IF r.at < Len(r.order) /\ r.total < maxTotal(r)
    THEN Attempt([r EXCEPT !.at = @ + 1, !.n = 0])
    ELSE [r EXCEPT !.st = "exhausted"]

AfterFailure(r, e) ==
    CASE isTerminal(e) -> [r EXCEPT !.st = "terminal"]
      [] ~isTerminal(e) /\ isRetryable(e) /\ r.n < maxAttemptsPerBackend(r.op)
         /\ r.total < maxTotal(r) ->
            IF e = "http_429" THEN [r EXCEPT !.st = "backoff"] ELSE Attempt(r)
      [] OTHER -> NextCandidate(r)

Backend(r) == r.order[r.at]

\* recordTrace, for a call that ends with a trace
Record(c, r) ==
    lastTrace' = IF r.st \in {"ok", "terminal", "exhausted"} THEN c ELSE lastTrace

\* A method of the hook is called; override is the request's own preference.
Start(c, op, override, direct, p2p) ==
    LET S == Candidates(config, op, direct, p2p)
        p == resolvePreference(config, IF op = "upload" \/ override = "none"
                                       THEN preference ELSE override)
    IN  /\ call[c].st = "idle"
        /\ call' = [call EXCEPT ![c] =
                      IF S = {} THEN [Idle EXCEPT !.op = op, !.st = "no_candidates"]
                      ELSE Attempt([Idle EXCEPT !.op = op, !.order = orderCandidates(p, S),
                                                !.at = 1])]
        /\ UNCHANGED <<config, stored, preference, lastTrace>>

\* The headers of an answer arrive.
Headers(c) ==
    /\ call[c].st = "waiting"
    /\ call' = [call EXCEPT ![c].st = "reading"]
    /\ UNCHANGED <<config, stored, preference, lastTrace>>

\* The attempt in progress succeeds.
Succeed(c) ==
    LET r == [call[c] EXCEPT !.st = "ok"]
    IN  /\ call[c].st = "reading"
        /\ call' = [call EXCEPT ![c] = r]
        /\ Record(c, r)
        /\ UNCHANGED <<config, stored, preference>>

\* The attempt in progress fails with class e.
Fail(c, a, e) ==
    LET f == [call[c] EXCEPT !.failures[Backend(call[c])] = Append(@, e)]
        r == AfterFailure(f, e)
    IN  /\ call[c].st \in Trying
        /\ a \in PossibleAnswers(call[c].op, Backend(call[c]), call[c].st)
        /\ e \in classifyError(call[c].op, a)
        /\ call' = [call EXCEPT ![c] = r]
        /\ Record(c, r)
        /\ UNCHANGED <<config, stored, preference>>

\* The timer of an attempt that no backend answers.
Silence(c) == \E e \in ErrorClasses : Fail(c, [kind |-> "silence"], e)

\* The sleep after a 429 ends.
Wake(c) ==
    /\ call[c].st = "backoff"
    /\ call' = [call EXCEPT ![c] = Attempt(@)]
    /\ UNCHANGED <<config, stored, preference, lastTrace>>

setPreference(p) ==
    /\ preference' = p
    /\ stored' = p
    /\ UNCHANGED <<config, call, lastTrace>>

\* The page is loaded again: the calls are gone, the preference is read back.
Reload ==
    /\ preference' = InitialPreference(config, stored)
    /\ call' = [c \in Calls |-> Idle]
    /\ lastTrace' = NoCall
    /\ UNCHANGED <<config, stored>>

Init ==
    /\ config \in [gatewayDisabled : BOOLEAN, p2pEnabled : BOOLEAN]
    /\ stored \in Preferences
    /\ preference = InitialPreference(config, stored)
    /\ call = [c \in Calls |-> Idle]
    /\ lastTrace = NoCall

Next ==
    \/ \E c \in Calls, op \in Ops, o \in Preferences \cup {"none"}, d, p \in BOOLEAN :
          Start(c, op, o, d, p)
    \/ \E c \in Calls : Headers(c) \/ Succeed(c) \/ Wake(c)
    \/ \E c \in Calls, a \in Answers, e \in ErrorClasses : Fail(c, a, e)
    \/ \E p \in Preferences : setPreference(p)
    \/ Reload

Spec == Init /\ [][Next]_vars

\* Timers fire.  Nothing is assumed of backends: they may stay silent, before
\* their answer and in the middle of it.
Fairness == \A c \in Calls : WF_vars(Silence(c)) /\ WF_vars(Wake(c))

FairSpec == Spec /\ Fairness

-----------------------------------------------------------------------------
(* Properties *)

Attempts(r, b) == Len(r.failures[b]) + (IF r.st \in Trying /\ Backend(r) = b THEN 1 ELSE 0)

CallOK(r) ==
    /\ DOMAIN r = {"op", "order", "at", "n", "total", "failures", "st"}
    /\ r.op \in Ops
    /\ r.order \in Seq(Backends)
    /\ r.n \in 0..maxAttemptsPerBackend(r.op)
    /\ r.at \in Nat /\ r.total \in Nat /\ r.total <= maxTotal(r)
    /\ r.failures \in [Backends -> Seq(ErrorClasses)]
    /\ r.st \in {"idle"} \cup Running \cup Settled
    /\ r.st \in Running => r.at \in 1..Len(r.order)

\* Types of the router's state; attempts never exceed the two budgets of
\* executeWithFallback.
TypeOK ==
    /\ config \in [gatewayDisabled : BOOLEAN, p2pEnabled : BOOLEAN]
    /\ stored \in Preferences
    /\ preference \in Preferences
    /\ DOMAIN call = Calls
    /\ \A c \in Calls : CallOK(call[c])
    /\ lastTrace \in Calls \cup {NoCall}

\* A call that ends with "All ... attempts failed" has tried every candidate,
\* and has given up on none of them while its last failure was worth a retry
\* and its budget was not spent: the cap on all attempts never cuts one short.
FallbackIsComplete ==
    \A c \in Calls : LET r == call[c] IN
        r.st = "exhausted" =>
            \A k \in 1..Len(r.order) :
                LET f == r.failures[r.order[k]] IN
                /\ f # <<>>
                /\ Len(f) = maxAttemptsPerBackend(r.op) \/ ~isRetryable(f[Len(f)])

\* A backend that answered for another provider, or named none, ends the
\* call: no other backend is contacted after it.
MismatchEndsCall ==
    \A c \in Calls : LET r == call[c] IN
        (\E b \in Backends, k \in 1..2 :
            k <= Len(r.failures[b]) /\ r.failures[b][k] \in {"provider_mismatch", "invalid_response"})
        => r.st = "terminal"

\* In a build without gateway every call still finds a backend, and none of
\* them, whatever preference was stored by another build, is the gateway.
GatewayIsOptional ==
    config.gatewayDisabled =>
        \A c \in Calls :
            /\ call[c].st # "no_candidates"
            /\ \A k \in 1..Len(call[c].order) : call[c].order[k] # "gateway"

\* A call of the router falls back as executeWithFallback means it to.
FallbackIsSound == TypeOK /\ FallbackIsComplete /\ MismatchEndsCall /\ GatewayIsOptional

\* An upload is sent at most once to each backend: a second copy of the file
\* is never posted to a gateway that may still be ingesting the first.
UploadSentOnce ==
    \A c \in Calls, b \in Backends :
        call[c].op = "upload" => Attempts(call[c], b) <= 1

\* Backends may fall silent at any point.  A byte-range call ends all the same:
\* the router's signal reaches the request and the reading of its body.  A call
\* that brings a timer of its own ends too, or is left with a backend that
\* stopped in the middle of its answer, where that timer is cleared already.
TimedCallsSettle ==
    \A c \in Calls :
        /\ (call[c].st = "waiting" /\ call[c].op = "fetch") ~> (call[c].st \notin Running)
        /\ [](call[c].st = "waiting" /\ call[c].op \in {"plan", "mdu_kzg", "upload"}
              => <>(call[c].st \notin Running \/ [](call[c].st = "reading")))
-----------------------------------------------------------------------------
(* What a document, a comment or a test says and the code does not keep; the *)
(* README tells how. *)

\* A 4xx answer is not retried on the same backend.
NoRetryOf4xx ==
    [][\A c \in Calls, a \in Answers, e \in ErrorClasses :
         a.kind = "status" /\ a.status \in 400..499 \ {429} /\ a.body \in {"empty", "not_found"}
         /\ Fail(c, a, e)
         => ~(call'[c].st = "waiting" /\ call'[c].at = call[c].at)]_vars

\* Every call ends, as the timeoutMs each operation passes suggests.
EveryCallSettles == \A c \in Calls : call[c].st = "waiting" ~> call[c].st \notin Running
=============================================================================
