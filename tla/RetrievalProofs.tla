-------------------------- MODULE RetrievalProofs --------------------------
(***************************************************************************)
(* Proofs about the website's transport router: executeWithFallback tries  *)
(* every candidate as often as it may and no more, for any number of       *)
(* concurrent calls, any statuses the backends answer with and any         *)
(* preference an earlier build has stored.  And about a download: what is  *)
(* paid for was delivered, over any stripe and any range.                  *)
(***************************************************************************)
EXTENDS Retrieval, FiniteSetTheorems, WellFoundedInduction, TLAPS

-----------------------------------------------------------------------------
(* The order of the candidates *)

\* s has each element of S once, and nothing else.
Lists(s, S) ==
    /\ s \in Seq(Backends)
    /\ \A i \in 1..Len(s) : s[i] \in S
    /\ \A b \in S : \E i \in 1..Len(s) : s[i] = b
    /\ \A i, j \in 1..Len(s) : s[i] = s[j] => i = j

LEMMA ConcatLists ==
    ASSUME NEW A, NEW B, NEW SA, NEW SB, Lists(A, SA), Lists(B, SB), SA \cap SB = {}
    PROVE  Lists(A \o B, SA \cup SB)
  <1> DEFINE s == A \o B
  <1>1. /\ A \in Seq(Backends) /\ B \in Seq(Backends)
        /\ Len(A) \in Nat /\ Len(B) \in Nat
    BY DEF Lists
  <1>2. s \in Seq(Backends) /\ Len(s) = Len(A) + Len(B)
    BY <1>1
  <1>3. \A i \in 1..Len(s) : s[i] = IF i <= Len(A) THEN A[i] ELSE B[i - Len(A)]
    BY <1>1
  <1> HIDE DEF s
  <1>4. \A i \in 1..Len(s) : s[i] \in SA \cup SB
    <2> SUFFICES ASSUME NEW i \in 1..Len(s) PROVE s[i] \in SA \cup SB
      OBVIOUS
    <2>1. CASE i <= Len(A)
      <3>1. i \in 1..Len(A) /\ s[i] = A[i]
        BY <1>1, <1>2, <1>3, <2>1
      <3>2. QED
        BY <3>1 DEF Lists
    <2>2. CASE i > Len(A)
      <3>1. i - Len(A) \in 1..Len(B) /\ s[i] = B[i - Len(A)]
        BY <1>1, <1>2, <1>3, <2>2
      <3>2. QED
        BY <3>1 DEF Lists
    <2>3. QED
      BY <1>1, <1>2, <2>1, <2>2
  <1>5. \A b \in SA \cup SB : \E i \in 1..Len(s) : s[i] = b
    <2>1. ASSUME NEW b \in SA PROVE \E i \in 1..Len(s) : s[i] = b
      <3>1. PICK i \in 1..Len(A) : A[i] = b
        BY DEF Lists
      <3>2. i \in 1..Len(s) /\ s[i] = b
        BY <1>1, <1>2, <1>3, <3>1
      <3>3. QED
        BY <3>2
    <2>2. ASSUME NEW b \in SB PROVE \E i \in 1..Len(s) : s[i] = b
      <3>1. PICK i \in 1..Len(B) : B[i] = b
        BY DEF Lists
      <3> DEFINE k == Len(A) + i
      <3>0. k \in 1..Len(s) /\ ~(k <= Len(A)) /\ k - Len(A) = i
        BY <1>1, <1>2
      <3> HIDE DEF k
      <3>2. k \in 1..Len(s) /\ s[k] = b
        BY <1>3, <3>0, <3>1
      <3>3. QED
        BY <3>2
    <2>3. QED
      BY <2>1, <2>2
  <1>6. ASSUME NEW i \in 1..Len(s), NEW j \in 1..Len(s), s[i] = s[j] PROVE i = j
    <2>1. CASE i <= Len(A) /\ j <= Len(A)
      BY <1>1, <1>2, <1>3, <1>6, <2>1 DEF Lists
    <2>2. CASE i > Len(A) /\ j > Len(A)
      <3>1. i - Len(A) \in 1..Len(B) /\ j - Len(A) \in 1..Len(B)
        BY <1>1, <1>2, <2>2
      <3>2. B[i - Len(A)] = B[j - Len(A)]
        BY <1>1, <1>2, <1>3, <1>6, <2>2
      <3>3. i - Len(A) = j - Len(A)
        BY <3>1, <3>2 DEF Lists
      <3>4. QED
        BY <1>1, <3>3
    <2>3. ASSUME NEW x \in 1..Len(s), NEW y \in 1..Len(s), x <= Len(A), y > Len(A)
          PROVE  s[x] # s[y]
      <3>1. x \in 1..Len(A) /\ y - Len(A) \in 1..Len(B)
        BY <1>1, <1>2, <2>3
      <3>2. s[x] = A[x] /\ s[y] = B[y - Len(A)]
        BY <1>1, <1>2, <1>3, <2>3
      <3>3. A[x] \in SA /\ B[y - Len(A)] \in SB
        BY <3>1 DEF Lists
      <3>4. QED
        BY <3>2, <3>3
    <2>4. QED
      BY <1>1, <1>6, <2>1, <2>2, <2>3
  <1>7. QED
    BY <1>2, <1>4, <1>5, <1>6 DEF Lists, s

LEMMA ListedLists ==
    ASSUME NEW S \in SUBSET Backends PROVE Lists(Listed(S), S)
  <1> DEFINE One(b) == IF b \in S THEN <<b>> ELSE <<>>
  <1>1. ASSUME NEW b \in Backends PROVE Lists(One(b), S \cap {b})
    <2>1. CASE b \in S
      <3>1. One(b) = <<b>> /\ S \cap {b} = {b}
        BY <2>1
      <3>2. Lists(<<b>>, {b})
        BY DEF Lists
      <3>3. QED
        BY <3>1, <3>2
    <2>2. CASE b \notin S
      <3>1. One(b) = <<>> /\ S \cap {b} = {}
        BY <2>2
      <3>2. Lists(<<>>, {})
        BY DEF Lists
      <3>3. QED
        BY <3>1, <3>2
    <2>3. QED
      BY <2>1, <2>2
  <1>2. Listed(S) = One("gateway") \o One("direct_sp") \o One("libp2p")
    BY DEF Listed
  <1> HIDE DEF One
  <1>3. Lists(One("gateway") \o One("direct_sp"), (S \cap {"gateway"}) \cup (S \cap {"direct_sp"}))
    BY <1>1, ConcatLists DEF Backends
  <1>4. Lists(One("gateway") \o One("direct_sp") \o One("libp2p"),
              ((S \cap {"gateway"}) \cup (S \cap {"direct_sp"})) \cup (S \cap {"libp2p"}))
    BY <1>1, <1>3, ConcatLists DEF Backends
  <1>5. ((S \cap {"gateway"}) \cup (S \cap {"direct_sp"})) \cup (S \cap {"libp2p"}) = S
    BY DEF Backends
  <1>6. QED
    BY <1>2, <1>4, <1>5

LEMMA OrderLists ==
    ASSUME NEW p, NEW S \in SUBSET Backends PROVE Lists(orderCandidates(p, S), S)
  <1>1. Lists(Listed(S \cap Preferred(p)), S \cap Preferred(p))
    BY ListedLists
  <1>2. Lists(Listed(S \ Preferred(p)), S \ Preferred(p))
    BY ListedLists
  <1>3. Lists(orderCandidates(p, S), (S \cap Preferred(p)) \cup (S \ Preferred(p)))
    BY <1>1, <1>2, ConcatLists DEF orderCandidates
  <1>4. (S \cap Preferred(p)) \cup (S \ Preferred(p)) = S
    OBVIOUS
  <1>5. QED
    BY <1>3, <1>4

LEMMA CandidateFacts ==
    ASSUME NEW cfg \in [gatewayDisabled : BOOLEAN, p2pEnabled : BOOLEAN],
           NEW op \in Ops, NEW d \in BOOLEAN, NEW p \in BOOLEAN
    PROVE  /\ Candidates(cfg, op, d, p) \in SUBSET Backends
           /\ cfg.gatewayDisabled => /\ "gateway" \notin Candidates(cfg, op, d, p)
                                     /\ Candidates(cfg, op, d, p) # {}
  <1>1. /\ ReadCandidates(cfg, d) \in SUBSET Backends
        /\ cfg.gatewayDisabled => /\ "gateway" \notin ReadCandidates(cfg, d)
                                  /\ "direct_sp" \in ReadCandidates(cfg, d)
    BY DEF ReadCandidates, HasDirectBase, Backends
  <1>2. /\ UploadCandidates(cfg) \in SUBSET Backends
        /\ cfg.gatewayDisabled => /\ "gateway" \notin UploadCandidates(cfg)
                                  /\ "direct_sp" \in UploadCandidates(cfg)
    BY DEF UploadCandidates, Backends
  <1>3. /\ FetchCandidates(cfg, d, p) \in SUBSET Backends
        /\ cfg.gatewayDisabled => /\ "gateway" \notin FetchCandidates(cfg, d, p)
                                  /\ "direct_sp" \in FetchCandidates(cfg, d, p)
    BY <1>1 DEF FetchCandidates, Backends
  <1>4. Candidates(cfg, op, d, p)
          \in {ReadCandidates(cfg, d), UploadCandidates(cfg), FetchCandidates(cfg, d, p)}
    BY DEF Candidates
  <1>5. QED
    BY <1>1, <1>2, <1>3, <1>4

-----------------------------------------------------------------------------
(***************************************************************************)
(* How far a call has come.  Every candidate before the current one has    *)
(* been given up for a reason, those after it have not been contacted, and *)
(* the attempts made so far fit what the candidates so far may have: this  *)
(* is why the cap on all attempts never cuts a candidate short.            *)
(***************************************************************************)
Stages == {"idle"} \cup Running \cup Settled

CallSet == [op : Ops, order : Seq(Backends), at : Nat, n : Nat, total : Nat,
            failures : [Backends -> Seq(ErrorClasses)],
            st : Stages]

\* A log of failures none of which ends the call.
Mild(f) == \A k \in 1..Len(f) : ~isTerminal(f[k])

\* A log after which a backend is not tried again.
GivenUp(f, op) ==
    /\ Len(f) \in 1..maxAttemptsPerBackend(op)
    /\ Len(f) = maxAttemptsPerBackend(op) \/ ~isRetryable(f[Len(f)])

Unstarted(r) ==
    /\ r.order = <<>> /\ r.n = 0 /\ r.total = 0
    /\ \A b \in Backends : r.failures[b] = <<>>

Current(r) == r.failures[r.order[r.at]]

Started(r) ==
    /\ r.at \in 1..Len(r.order)
    /\ r.n \in 1..maxAttemptsPerBackend(r.op)
    /\ r.total <= (r.at - 1) * maxAttemptsPerBackend(r.op) + r.n
    /\ \A k \in 1..Len(r.order) :
         /\ k < r.at => GivenUp(r.failures[r.order[k]], r.op) /\ Mild(r.failures[r.order[k]])
         /\ k > r.at => r.failures[r.order[k]] = <<>>
    /\ \A b \in Backends :
         (\A k \in 1..Len(r.order) : r.order[k] # b) => r.failures[b] = <<>>
    /\ r.st \in {"waiting", "reading", "ok"} => Len(Current(r)) = r.n - 1 /\ Mild(Current(r))
    /\ r.st = "backoff" => /\ Len(Current(r)) = r.n /\ Mild(Current(r))
                           /\ r.n < maxAttemptsPerBackend(r.op)
    /\ r.st = "terminal" => Len(Current(r)) = r.n
    /\ r.st = "exhausted" => /\ r.at = Len(r.order) /\ Mild(Current(r))
                             /\ GivenUp(Current(r), r.op)

CallInv(r) ==
    /\ r \in CallSet
    /\ \A i, j \in 1..Len(r.order) : r.order[i] = r.order[j] => i = j
    /\ r.st \in {"idle", "no_candidates"} => Unstarted(r)
    /\ r.st \notin {"idle", "no_candidates"} => Started(r)

\* In a build without gateway.
WithoutGateway(r) ==
    r.st # "no_candidates" /\ \A k \in 1..Len(r.order) : r.order[k] # "gateway"

RouterInv ==
    /\ config \in [gatewayDisabled : BOOLEAN, p2pEnabled : BOOLEAN]
    /\ stored \in Preferences /\ preference \in Preferences
    /\ DOMAIN call = Calls
    /\ \A c \in Calls : CallInv(call[c]) /\ (config.gatewayDisabled => WithoutGateway(call[c]))
    /\ lastTrace \in Calls \cup {NoCall}

LEMMA AttemptsBound ==
    ASSUME NEW op PROVE maxAttemptsPerBackend(op) \in {1, 2}
  BY DEF maxAttemptsPerBackend

LEMMA IdleInv == CallInv(Idle) /\ WithoutGateway(Idle)
  <1>1. Idle \in CallSet
    <2>1. [b \in Backends |-> <<>>] \in [Backends -> Seq(ErrorClasses)]
      OBVIOUS
    <2>2. <<>> \in Seq(Backends) /\ "plan" \in Ops /\ 0 \in Nat
      BY DEF Ops
    <2>3. QED
      BY <2>1, <2>2 DEF Idle, CallSet, Stages
  <1>2. /\ Idle.order = <<>> /\ Idle.n = 0 /\ Idle.total = 0 /\ Idle.st = "idle"
        /\ Idle.failures = [b \in Backends |-> <<>>]
    BY DEF Idle
  <1>3. QED
    BY <1>1, <1>2 DEF CallInv, Unstarted, WithoutGateway

LEMMA PreferenceType ==
    ASSUME NEW cfg \in [gatewayDisabled : BOOLEAN, p2pEnabled : BOOLEAN],
           NEW p \in Preferences
    PROVE  InitialPreference(cfg, p) \in Preferences
  BY DEF InitialPreference, Preferences

(* What a step of executeWithFallback does to the fields of a call *)

LEMMA AttemptFields ==
    ASSUME NEW r \in CallSet
    PROVE  /\ Attempt(r) \in CallSet
           /\ Attempt(r).op = r.op /\ Attempt(r).order = r.order /\ Attempt(r).at = r.at
           /\ Attempt(r).n = r.n + 1 /\ Attempt(r).total = r.total + 1
           /\ Attempt(r).failures = r.failures /\ Attempt(r).st = "waiting"
  <1>1. "waiting" \in Stages /\ r.n + 1 \in Nat /\ r.total + 1 \in Nat
    BY DEF CallSet, Trying, Running, Stages
  <1> DEFINE r1 == [r EXCEPT !.st = "waiting"]
             r2 == [r1 EXCEPT !.n = r.n + 1]
             r3 == [r2 EXCEPT !.total = r.total + 1]
  <1>2. r1 \in CallSet
    BY <1>1 DEF CallSet
  <1>3. r2 \in CallSet
    <2> HIDE DEF r1
    <2> QED BY <1>1, <1>2 DEF CallSet
  <1>4. r3 \in CallSet
    <2> HIDE DEF r2
    <2> QED BY <1>1, <1>3 DEF CallSet
  <1>5. Attempt(r) = r3
    BY DEF Attempt
  <1>6. QED
    BY <1>4, <1>5 DEF CallSet, Attempt

\* The call r, with the failure e of its current backend written down.
Failed(r, e) == [r EXCEPT !.failures[Backend(r)] = Append(@, e)]

LEMMA FailureFields ==
    ASSUME NEW r \in CallSet, NEW e \in ErrorClasses, r.at \in 1..Len(r.order)
    PROVE  /\ Failed(r, e) \in CallSet
           /\ Failed(r, e).op = r.op /\ Failed(r, e).order = r.order
           /\ Failed(r, e).at = r.at /\ Failed(r, e).n = r.n /\ Failed(r, e).total = r.total
           /\ Failed(r, e).failures = [r.failures EXCEPT ![Backend(r)] = Append(@, e)]
  <1>0. PICK f : f = Failed(r, e)
    OBVIOUS
  <1> DEFINE b == r.order[r.at]
             g == [r.failures EXCEPT ![b] = Append(r.failures[b], e)]
  <1>1. b \in Backends
    BY DEF CallSet
  <1>2. r.failures \in [Backends -> Seq(ErrorClasses)]
    BY DEF CallSet
  <1>3. f = [r EXCEPT !.failures = g]
    BY <1>0 DEF Backend, Failed
  <1>4. g \in [Backends -> Seq(ErrorClasses)]
    <2> HIDE DEF b
    <2>1. Append(r.failures[b], e) \in Seq(ErrorClasses)
      BY <1>1, <1>2
    <2>2. QED
      BY <1>1, <1>2, <2>1
  <1> HIDE DEF g, b
  <1>5. f \in CallSet
    BY <1>3, <1>4 DEF CallSet
  <1>6. f.failures = g
    BY <1>3 DEF CallSet
  <1>7. QED
    BY <1>0, <1>3, <1>5, <1>6 DEF CallSet, g, b, Backend

\* The call goes on to the next candidate.
Onward(r) == Attempt([r EXCEPT !.at = @ + 1, !.n = 0])

LEMMA CandidateFields ==
    ASSUME NEW r \in CallSet, NEW q, q = Onward(r)
    PROVE  /\ q \in CallSet
           /\ q.op = r.op /\ q.order = r.order /\ q.at = r.at + 1 /\ q.n = 1
           /\ q.total = r.total + 1 /\ q.failures = r.failures /\ q.st = "waiting"
  <1> DEFINE r1 == [r EXCEPT !.at = r.at + 1]
             r2 == [r1 EXCEPT !.n = 0]
  <1>0. r.at + 1 \in Nat
    BY DEF CallSet
  <1>1. r1 \in CallSet
    BY <1>0 DEF CallSet
  <1>2. r2 \in CallSet
    <2> HIDE DEF r1
    <2> QED  BY <1>1 DEF CallSet
  <1>3. /\ r2.op = r.op /\ r2.order = r.order /\ r2.at = r.at + 1 /\ r2.n = 0
        /\ r2.total = r.total /\ r2.failures = r.failures
    BY DEF CallSet
  <1>4. q = Attempt(r2)
    BY DEF Onward
  <1> HIDE DEF r1, r2
  <1>5. QED
    BY <1>2, <1>3, <1>4, AttemptFields

\* A call that has its order and makes its first attempt.
First(op, order) == Attempt([Idle EXCEPT !.op = op, !.order = order, !.at = 1])

LEMMA FirstAttempt ==
    ASSUME NEW op \in Ops, NEW S \in SUBSET Backends, S # {},
           NEW order, Lists(order, S),
           NEW q, q = First(op, order)
    PROVE  CallInv(q) /\ q.order = order /\ q.st = "waiting"
  <1> DEFINE r1 == [Idle EXCEPT !.op = op]
             r2 == [r1 EXCEPT !.order = order]
             r3 == [r2 EXCEPT !.at = 1]
  <1>1. order \in Seq(Backends) /\ Len(order) \in Nat /\ Len(order) >= 1
    BY DEF Lists
  <1>2. Idle \in CallSet
    BY IdleInv DEF CallInv
  <1>3. r1 \in CallSet
    BY <1>2 DEF CallSet
  <1>4. r2 \in CallSet
    <2> HIDE DEF r1
    <2> QED  BY <1>1, <1>3 DEF CallSet
  <1>5. r3 \in CallSet
    <2> HIDE DEF r2
    <2> QED  BY <1>4 DEF CallSet
  <1>6. /\ r3.op = op /\ r3.order = order /\ r3.at = 1 /\ r3.n = Idle.n
        /\ r3.total = Idle.total /\ r3.failures = Idle.failures
    BY <1>2 DEF CallSet
  <1>7. q = Attempt(r3)
    BY DEF First
  <1> HIDE DEF r1, r2, r3
  <1>8. /\ q \in CallSet
        /\ q.op = op /\ q.order = order /\ q.at = 1 /\ q.n = 1 /\ q.total = 1
        /\ q.st = "waiting" /\ \A b \in Backends : q.failures[b] = <<>>
    <2>1. Idle.n = 0 /\ Idle.total = 0 /\ \A b \in Backends : Idle.failures[b] = <<>>
      BY DEF Idle
    <2>2. QED
      BY <1>5, <1>6, <1>7, <2>1, AttemptFields
  <1>9. \A k \in 1..Len(order) : order[k] \in Backends /\ q.failures[order[k]] = <<>>
    BY <1>1, <1>8
  <1>10. Started(q)
    <2>1. maxAttemptsPerBackend(op) \in {1, 2}
      BY AttemptsBound
    <2>2. q.total <= (q.at - 1) * maxAttemptsPerBackend(q.op) + q.n
      BY <1>8, <2>1
    <2>3. q.n \in 1..maxAttemptsPerBackend(q.op) /\ q.at \in 1..Len(q.order)
      BY <1>1, <1>8, <2>1
    <2>4. Current(q) = <<>>
      BY <1>1, <1>8, <1>9 DEF Current
    <2>5. \A k \in 1..Len(q.order) : ~(k < q.at) /\ q.failures[q.order[k]] = <<>>
      BY <1>1, <1>8, <1>9
    <2>6. Len(Current(q)) = q.n - 1 /\ Mild(Current(q))
      BY <1>8, <2>4 DEF Mild
    <2>7. QED
      BY <1>8, <2>2, <2>3, <2>5, <2>6 DEF Started
  <1>11. QED
    BY <1>8, <1>10 DEF CallInv, Lists

\* The attempt in progress fails with class e.
LEMMA FailureStep ==
    ASSUME NEW r, CallInv(r), r.st \in Trying, NEW e \in ErrorClasses,
           NEW q, q = AfterFailure(Failed(r, e), e)
    PROVE  CallInv(q) /\ q.order = r.order /\ q.st # "no_candidates"
  <1>0. PICK f : f = Failed(r, e)
    OBVIOUS
  <1> DEFINE m == maxAttemptsPerBackend(r.op)
             L == Len(r.order)
             g == f.failures
             b == r.order[r.at]
  <1>1. r \in CallSet /\ Started(r)
    BY DEF CallInv, Trying
  <1>2. /\ r.at \in 1..L /\ r.n \in 1..m /\ r.total \in Nat /\ L \in Nat /\ r.at \in Nat
        /\ r.total <= (r.at - 1) * m + r.n
        /\ r.order \in Seq(Backends) /\ b \in Backends
    BY <1>1 DEF Started, CallSet
  <1>3. /\ f \in CallSet
        /\ f.op = r.op /\ f.order = r.order /\ f.at = r.at /\ f.n = r.n
        /\ f.total = r.total
        /\ g = [r.failures EXCEPT ![b] = Append(r.failures[b], e)]
    <2>1. r \in CallSet /\ r.at \in 1..Len(r.order)
      BY <1>1, <1>2
    <2>2. QED
      BY <1>0, <2>1, FailureFields DEF Backend
  <1>4. q = AfterFailure(f, e)
    BY <1>0
  <1>5. m \in {1, 2}
    BY AttemptsBound
  <1>6. r.failures \in [Backends -> Seq(ErrorClasses)]
    BY <1>1 DEF CallSet
  <1>7. \A k \in 1..L : r.order[k] \in Backends /\ (k # r.at => r.order[k] # b)
    <2>1. \A k \in 1..L : r.order[k] = r.order[r.at] => k = r.at
      BY <1>2 DEF CallInv
    <2>2. QED
      BY <1>2, <2>1
  <1>8. \A x \in Backends : x # b => g[x] = r.failures[x]
    BY <1>2, <1>3, <1>6
  <1>9. g[b] = Append(r.failures[b], e) /\ Len(r.failures[b]) = r.n - 1 /\ Mild(r.failures[b])
    BY <1>1, <1>2, <1>3, <1>6 DEF Started, Current, Trying
  <1>10. Len(g[b]) = r.n /\ g[b][r.n] = e /\ (~isTerminal(e) => Mild(g[b]))
    <2>1. r.failures[b] \in Seq(ErrorClasses) /\ r.n \in Nat
      BY <1>2, <1>5, <1>6
    <2> HIDE DEF g, b
    <2> DEFINE s == r.failures[b]
    <2>2. Len(g[b]) = r.n /\ g[b][r.n] = e
      <3>1. s \in Seq(ErrorClasses) /\ g[b] = Append(s, e) /\ r.n = Len(s) + 1
        BY <1>9, <2>1
      <3> HIDE DEF s, g, b
      <3>2. Len(Append(s, e)) = Len(s) + 1 /\ Append(s, e)[Len(s) + 1] = e
        BY <3>1
      <3>3. QED
        BY <3>1, <3>2
    <2>3. \A k \in 1..r.n : k # r.n => k \in 1..Len(r.failures[b]) /\ g[b][k] = r.failures[b][k]
      BY <1>9, <2>1
    <2>4. QED
      BY <1>9, <2>1, <2>2, <2>3 DEF Mild
  <1>11. \A k \in 1..L :
           /\ k < r.at => GivenUp(g[r.order[k]], r.op) /\ Mild(g[r.order[k]])
           /\ k > r.at => g[r.order[k]] = <<>>
    <2>1. \A k \in 1..L : k # r.at => g[r.order[k]] = r.failures[r.order[k]]
      BY <1>7, <1>8
    <2>2. QED
      BY <1>1, <1>2, <2>1 DEF Started
  <1>12. \A x \in Backends : (\A k \in 1..L : r.order[k] # x) => g[x] = <<>>
    <2>1. \A x \in Backends : (\A k \in 1..L : r.order[k] # x) => x # b
      BY <1>2
    <2>2. QED
      BY <1>1, <1>8, <2>1 DEF Started
  <1>13. /\ r.at < L => r.total < L * m /\ r.total + 1 <= r.at * m + 1
         /\ r.n < m => r.total < L * m
    <2>1. CASE m = 1
      BY <1>2, <2>1
    <2>2. CASE m = 2
      BY <1>2, <2>2
    <2>3. QED
      BY <1>5, <2>1, <2>2
  <1>14. maxTotal(f) = L * m /\ maxAttemptsPerBackend(f.op) = m
    BY <1>3 DEF maxTotal
  <1>15. \A i, j \in 1..L : r.order[i] = r.order[j] => i = j
    BY DEF CallInv
  <1> HIDE DEF m, g, b, L
  <1>20. ASSUME NEW v \in {"terminal", "backoff", "exhausted"}, q = [f EXCEPT !.st = v]
         PROVE  /\ q \in CallSet /\ q.op = r.op /\ q.order = r.order /\ q.at = r.at
                /\ q.n = r.n /\ q.total = r.total /\ q.failures = g /\ q.st = v
    <2>1. v \in Stages
      BY DEF Stages, Trying, Running, Settled
    <2>2. QED
      BY <1>3, <1>20, <2>1 DEF CallSet, g
  <1>21. CASE isTerminal(e)
    <2>1. q = [f EXCEPT !.st = "terminal"]
      BY <1>4, <1>21 DEF AfterFailure
    <2>2. /\ q \in CallSet /\ q.op = r.op /\ q.order = r.order /\ q.at = r.at
          /\ q.n = r.n /\ q.total = r.total /\ q.failures = g /\ q.st = "terminal"
      BY <1>20, <2>1
    <2>3. Started(q)
      <3>1. Len(Current(q)) = q.n
        BY <1>10, <2>2 DEF Current, b
      <3>2. QED
        BY <1>2, <1>11, <1>12, <2>2, <3>1 DEF Started, m, L
    <2>4. QED
      BY <1>15, <2>2, <2>3 DEF CallInv, L
  <1>22. CASE ~isTerminal(e) /\ isRetryable(e) /\ r.n < m /\ e = "http_429"
    <2>1. q = [f EXCEPT !.st = "backoff"]
      BY <1>3, <1>4, <1>13, <1>14, <1>22 DEF AfterFailure
    <2>2. /\ q \in CallSet /\ q.op = r.op /\ q.order = r.order /\ q.at = r.at
          /\ q.n = r.n /\ q.total = r.total /\ q.failures = g /\ q.st = "backoff"
      BY <1>20, <2>1
    <2>3. Started(q)
      BY <1>2, <1>10, <1>11, <1>12, <1>22, <2>2 DEF Started, Current, m, L, b
    <2>4. QED
      BY <1>15, <2>2, <2>3 DEF CallInv, L
  <1>23. CASE ~isTerminal(e) /\ isRetryable(e) /\ r.n < m /\ e # "http_429"
    <2>1. q = Attempt(f)
      BY <1>3, <1>4, <1>13, <1>14, <1>23 DEF AfterFailure
    <2>2. /\ q \in CallSet /\ q.op = r.op /\ q.order = r.order /\ q.at = r.at
          /\ q.n = r.n + 1 /\ q.total = r.total + 1 /\ q.failures = g /\ q.st = "waiting"
      BY <1>3, <2>1, AttemptFields DEF g
    <2>3. q.n \in 1..m /\ q.total <= (q.at - 1) * m + q.n
      <3>1. PICK k \in Int : k = (r.at - 1) * m
        BY <1>2, <1>5
      <3>2. r.total <= k + r.n /\ r.n \in 1..m /\ r.n < m /\ r.total \in Nat
        BY <1>2, <1>23, <3>1
      <3> HIDE DEF m
      <3>3. r.total + 1 <= k + (r.n + 1) /\ r.n + 1 \in 1..m
        BY <1>5, <3>2
      <3>4. QED
        BY <2>2, <3>1, <3>3
    <2>4. Len(Current(q)) = q.n - 1 /\ Mild(Current(q))
      <3>1. Current(q) = g[b]
        BY <2>2 DEF Current, b
      <3>2. r.n = (r.n + 1) - 1
        BY <1>2, <1>5
      <3>3. QED
        BY <1>10, <1>23, <2>2, <3>1, <3>2
    <2>5. Started(q)
      BY <1>2, <1>11, <1>12, <2>2, <2>3, <2>4 DEF Started, m, L
    <2>6. QED
      BY <1>15, <2>2, <2>5 DEF CallInv, L
  <1>24. CASE ~isTerminal(e) /\ ~(isRetryable(e) /\ r.n < m)
    <2>1. GivenUp(g[b], r.op) /\ Mild(g[b])
      BY <1>2, <1>5, <1>10, <1>24 DEF GivenUp, m
    <2>2. q = NextCandidate(f)
      BY <1>3, <1>4, <1>13, <1>14, <1>24 DEF AfterFailure
    <2>3. CASE r.at < L
      <3>1. q = Onward(f)
        BY <1>3, <1>13, <1>14, <2>2, <2>3 DEF NextCandidate, Onward, L
      <3>2. /\ q \in CallSet /\ q.op = r.op /\ q.order = r.order /\ q.at = r.at + 1
            /\ q.n = 1 /\ q.total = r.total + 1 /\ q.failures = g /\ q.st = "waiting"
        <4>1. f \in CallSet
          BY <1>3
        <4>2. /\ q \in CallSet /\ q.op = f.op /\ q.order = f.order /\ q.at = f.at + 1
              /\ q.n = 1 /\ q.total = f.total + 1 /\ q.failures = f.failures
              /\ q.st = "waiting"
          BY <3>1, <4>1, CandidateFields
        <4>3. f.op = r.op /\ f.order = r.order /\ f.at = r.at /\ f.total = r.total
          BY <1>3
        <4>4. f.failures = g
          BY DEF g
        <4>5. QED
          BY <4>2, <4>3, <4>4
      <3>3. q.n \in 1..m /\ q.total <= (q.at - 1) * m + q.n /\ q.at \in 1..L
        <4>1. (r.at + 1) - 1 = r.at
          BY <1>2
        <4>2. QED
          <5>1. q.total <= (q.at - 1) * m + q.n
            BY <1>13, <2>3, <3>2, <4>1
          <5>2. q.n \in 1..m
            BY <1>5, <3>2
          <5>3. r.at + 1 \in 1..L
            BY <1>2, <2>3
          <5>4. QED
            BY <3>2, <5>1, <5>2, <5>3
      <3>4. \A k \in 1..L :
              /\ k < q.at => GivenUp(g[q.order[k]], q.op) /\ Mild(g[q.order[k]])
              /\ k > q.at => g[q.order[k]] = <<>>
        BY <1>2, <1>11, <2>1, <3>2 DEF b
      <3>5. Current(q) = <<>>
        <4>1. r.at + 1 \in 1..L /\ r.at + 1 > r.at
          BY <1>2, <2>3
        <4>2. QED
          BY <1>11, <3>2, <4>1 DEF Current
      <3>6. Len(Current(q)) = q.n - 1 /\ Mild(Current(q))
        BY <3>2, <3>5 DEF Mild
      <3>7. Started(q)
        BY <1>12, <3>2, <3>3, <3>4, <3>6 DEF Started, m, L
      <3>8. QED
        BY <1>15, <3>2, <3>7 DEF CallInv, L
    <2>4. CASE ~(r.at < L)
      <3>1. q = [f EXCEPT !.st = "exhausted"]
        BY <1>3, <2>2, <2>4 DEF NextCandidate, L
      <3>2. /\ q \in CallSet /\ q.op = r.op /\ q.order = r.order /\ q.at = r.at
            /\ q.n = r.n /\ q.total = r.total /\ q.failures = g /\ q.st = "exhausted"
        BY <1>20, <3>1
      <3>3. q.at = L /\ GivenUp(Current(q), q.op) /\ Mild(Current(q))
        BY <1>2, <2>1, <2>4, <3>2 DEF Current, b
      <3>4. Started(q)
        BY <1>2, <1>11, <1>12, <3>2, <3>3 DEF Started, m, L
      <3>5. QED
        BY <1>15, <3>2, <3>4 DEF CallInv, L
    <2>5. QED
      BY <2>3, <2>4
  <1>25. QED
    BY <1>21, <1>22, <1>23, <1>24

-----------------------------------------------------------------------------
LEMMA HeadersStep ==
    ASSUME NEW r, CallInv(r), r.st = "waiting", NEW q, q = [r EXCEPT !.st = "reading"]
    PROVE  CallInv(q) /\ q.order = r.order /\ q.st # "no_candidates"
  <1>1. r \in CallSet /\ Started(r) /\ "reading" \in Stages
    BY DEF CallInv, Stages, Trying, Running
  <1>2. /\ q \in CallSet /\ q.op = r.op /\ q.order = r.order /\ q.at = r.at
        /\ q.n = r.n /\ q.total = r.total /\ q.failures = r.failures /\ q.st = "reading"
    BY <1>1 DEF CallSet
  <1>3. Started(q)
    BY <1>1, <1>2 DEF Started, Current
  <1>4. QED
    BY <1>2, <1>3 DEF CallInv

LEMMA SucceedStep ==
    ASSUME NEW r, CallInv(r), r.st = "reading", NEW q, q = [r EXCEPT !.st = "ok"]
    PROVE  CallInv(q) /\ q.order = r.order /\ q.st # "no_candidates"
  <1>1. r \in CallSet /\ Started(r) /\ "ok" \in Stages
    BY DEF CallInv, Stages, Settled
  <1>2. /\ q \in CallSet /\ q.op = r.op /\ q.order = r.order /\ q.at = r.at
        /\ q.n = r.n /\ q.total = r.total /\ q.failures = r.failures /\ q.st = "ok"
    BY <1>1 DEF CallSet
  <1>3. Started(q)
    BY <1>1, <1>2 DEF Started, Current
  <1>4. QED
    BY <1>2, <1>3 DEF CallInv

LEMMA WakeStep ==
    ASSUME NEW r, CallInv(r), r.st = "backoff", NEW q, q = Attempt(r)
    PROVE  CallInv(q) /\ q.order = r.order /\ q.st # "no_candidates"
  <1> DEFINE m == maxAttemptsPerBackend(r.op)
  <1>1. r \in CallSet /\ Started(r)
    BY DEF CallInv
  <1>2. /\ q \in CallSet /\ q.op = r.op /\ q.order = r.order /\ q.at = r.at
        /\ q.n = r.n + 1 /\ q.total = r.total + 1 /\ q.failures = r.failures
        /\ q.st = "waiting"
    BY <1>1, AttemptFields
  <1>3. /\ r.n \in Nat /\ r.total \in Nat /\ r.at \in Nat /\ r.n < m /\ 1 <= r.n
        /\ r.total <= (r.at - 1) * m + r.n /\ m \in {1, 2}
    BY <1>1, AttemptsBound DEF Started, CallSet
  <1>4. q.n \in 1..m /\ q.total <= (q.at - 1) * m + q.n
    <2> HIDE DEF m
    <2>1. m = 2
      BY <1>3
    <2>2. QED
      BY <1>2, <1>3, <2>1
  <1>5. Len(Current(q)) = q.n - 1 /\ Mild(Current(q))
    <2>1. Current(q) = Current(r)
      BY <1>2 DEF Current
    <2>2. r.n = (r.n + 1) - 1
      BY <1>3
    <2>3. QED
      BY <1>1, <1>2, <2>1, <2>2 DEF Started
  <1>6. Started(q)
    BY <1>1, <1>2, <1>4, <1>5 DEF Started
  <1>7. QED
    BY <1>2, <1>6 DEF CallInv

LEMMA RouterInit == ASSUME Init PROVE RouterInv
  <1>1. \A c \in Calls : call[c] = Idle
    BY DEF Init
  <1>2. QED
    BY <1>1, IdleInv, PreferenceType DEF Init, RouterInv

LEMMA RouterStep == ASSUME RouterInv, [Next]_vars PROVE RouterInv'
  <1>0. /\ config \in [gatewayDisabled : BOOLEAN, p2pEnabled : BOOLEAN]
        /\ stored \in Preferences /\ preference \in Preferences
        /\ DOMAIN call = Calls
        /\ \A c \in Calls : CallInv(call[c]) /\ (config.gatewayDisabled => WithoutGateway(call[c]))
        /\ lastTrace \in Calls \cup {NoCall}
    BY DEF RouterInv
  \* One call changes; the page's preference does not.
  <1>1. ASSUME NEW c \in Calls, NEW q, call' = [call EXCEPT ![c] = q],
               CallInv(q), config.gatewayDisabled => WithoutGateway(q),
               lastTrace' \in {lastTrace, c}, UNCHANGED <<config, stored, preference>>
        PROVE  RouterInv'
    <2>1. DOMAIN call' = Calls /\ \A x \in Calls : call'[x] = IF x = c THEN q ELSE call[x]
      BY <1>0, <1>1
    <2>2. QED
      BY <1>0, <1>1, <2>1 DEF RouterInv
  <1>2. ASSUME NEW c \in Calls, NEW op \in Ops, NEW o \in Preferences \cup {"none"},
               NEW d \in BOOLEAN, NEW p \in BOOLEAN, Start(c, op, o, d, p)
        PROVE  RouterInv'
    <2> DEFINE S == Candidates(config, op, d, p)
               w == resolvePreference(config, IF op = "upload" \/ o = "none"
                                              THEN preference ELSE o)
    <2>1. /\ S \in SUBSET Backends
          /\ config.gatewayDisabled => "gateway" \notin S /\ S # {}
      BY <1>0, CandidateFacts
    <2>2. UNCHANGED <<config, stored, preference, lastTrace>>
      BY <1>2 DEF Start
    <2>3. CASE S = {}
      <3>1. PICK q : q = [Idle EXCEPT !.op = op, !.st = "no_candidates"]
        OBVIOUS
      <3>2. call' = [call EXCEPT ![c] = q]
        BY <1>2, <2>3, <3>1 DEF Start
      <3>3. CallInv(q)
        <4>1. Idle \in CallSet /\ "no_candidates" \in Stages /\ Unstarted(Idle) /\ Idle.order = <<>>
          BY IdleInv DEF CallInv, Stages, Settled, Idle
        <4> DEFINE q1 == [Idle EXCEPT !.op = op]
        <4>2. q1 \in CallSet
          BY <4>1 DEF CallSet
        <4>3. q = [q1 EXCEPT !.st = "no_candidates"]
          BY <3>1, <4>1
        <4>4. q \in CallSet
          <5> HIDE DEF q1
          <5> QED  BY <4>1, <4>2, <4>3 DEF CallSet
        <4>5. /\ q.order = Idle.order /\ q.n = Idle.n /\ q.total = Idle.total
              /\ q.failures = Idle.failures /\ q.st = "no_candidates"
          BY <3>1, <4>1 DEF CallSet
        <4>6. QED
          BY <4>1, <4>4, <4>5 DEF CallInv, Unstarted
      <3>4. QED
        BY <1>1, <2>1, <2>2, <2>3, <3>2, <3>3
    <2>4. CASE S # {}
      <3> DEFINE order == orderCandidates(w, S)
      <3>1. PICK q : q = First(op, order)
        OBVIOUS
      <3>2. call' = [call EXCEPT ![c] = q]
        BY <1>2, <2>4, <3>1 DEF Start, First
      <3>3. Lists(order, S)
        BY <2>1, OrderLists
      <3> HIDE DEF S, order
      <3>4. CallInv(q) /\ q.order = order /\ q.st = "waiting"
        BY <2>1, <2>4, <3>1, <3>3, FirstAttempt
      <3>5. config.gatewayDisabled => WithoutGateway(q)
        BY <2>1, <3>3, <3>4 DEF WithoutGateway, Lists
      <3>6. QED
        BY <1>1, <2>2, <3>2, <3>4, <3>5
    <2>5. QED
      BY <2>3, <2>4
  <1>3. ASSUME NEW c \in Calls, NEW q, CallInv(q), q.order = call[c].order,
               q.st # "no_candidates"
        PROVE  config.gatewayDisabled => WithoutGateway(q)
    BY <1>0, <1>3 DEF WithoutGateway
  <1>4. ASSUME NEW c \in Calls, Succeed(c) PROVE RouterInv'
    <2>1. PICK q : q = [call[c] EXCEPT !.st = "ok"]
      OBVIOUS
    <2>2. /\ call[c].st = "reading" /\ call' = [call EXCEPT ![c] = q]
          /\ lastTrace' \in {lastTrace, c} /\ UNCHANGED <<config, stored, preference>>
      BY <1>4, <2>1 DEF Succeed, Record
    <2>3. CallInv(q) /\ q.order = call[c].order /\ q.st # "no_candidates"
      BY <1>0, <2>1, <2>2, SucceedStep
    <2>4. QED
      BY <1>1, <1>3, <2>2, <2>3
  <1>5. ASSUME NEW c \in Calls, Wake(c) PROVE RouterInv'
    <2>1. PICK q : q = Attempt(call[c])
      OBVIOUS
    <2>2. /\ call[c].st = "backoff" /\ call' = [call EXCEPT ![c] = q]
          /\ UNCHANGED <<config, stored, preference, lastTrace>>
      BY <1>5, <2>1 DEF Wake
    <2>3. CallInv(q) /\ q.order = call[c].order /\ q.st # "no_candidates"
      BY <1>0, <2>1, <2>2, WakeStep
    <2>4. QED
      BY <1>1, <1>3, <2>2, <2>3
  <1>6. ASSUME NEW c \in Calls, NEW a \in Answers, NEW e \in ErrorClasses, Fail(c, a, e)
        PROVE  RouterInv'
    <2>1. PICK q : q = AfterFailure(Failed(call[c], e), e)
      OBVIOUS
    <2>2. /\ call[c].st \in Trying /\ call' = [call EXCEPT ![c] = q]
          /\ lastTrace' \in {lastTrace, c} /\ UNCHANGED <<config, stored, preference>>
      BY <1>6, <2>1 DEF Fail, Record, Failed
    <2>3. CallInv(q) /\ q.order = call[c].order /\ q.st # "no_candidates"
      BY <1>0, <2>1, <2>2, FailureStep
    <2>4. QED
      BY <1>1, <1>3, <2>2, <2>3
  <1>7. ASSUME NEW p \in Preferences, setPreference(p) PROVE RouterInv'
    BY <1>0, <1>7 DEF setPreference, RouterInv
  <1>8. CASE Reload
    <2>1. preference' \in Preferences
      BY <1>0, <1>8, PreferenceType DEF Reload
    <2>2. DOMAIN call' = Calls /\ \A c \in Calls : call'[c] = Idle
      BY <1>8 DEF Reload
    <2>3. lastTrace' = NoCall /\ UNCHANGED <<config, stored>>
      BY <1>8 DEF Reload
    <2>4. QED
      BY <1>0, <2>1, <2>2, <2>3, IdleInv DEF RouterInv
  <1>9. CASE UNCHANGED vars
    BY <1>0, <1>9 DEF vars, RouterInv
  <1>10. ASSUME NEW c \in Calls, Headers(c) PROVE RouterInv'
    <2>1. PICK q : q = [call[c] EXCEPT !.st = "reading"]
      OBVIOUS
    <2>2. /\ call[c].st = "waiting" /\ call' = [call EXCEPT ![c] = q]
          /\ UNCHANGED <<config, stored, preference, lastTrace>>
      BY <1>10, <2>1 DEF Headers
    <2>3. CallInv(q) /\ q.order = call[c].order /\ q.st # "no_candidates"
      BY <1>0, <2>1, <2>2, HeadersStep
    <2>4. QED
      BY <1>1, <1>3, <2>2, <2>3
  <1>11. QED
    BY <1>2, <1>4, <1>5, <1>6, <1>7, <1>8, <1>9, <1>10 DEF Next

-----------------------------------------------------------------------------
LEMMA CallType == ASSUME NEW r, CallInv(r) PROVE CallOK(r)
  <1> DEFINE m == maxAttemptsPerBackend(r.op)
  <1>1. r \in CallSet /\ m \in {1, 2} /\ Len(r.order) \in Nat
    BY AttemptsBound DEF CallInv, CallSet
  <1>2. DOMAIN r = {"op", "order", "at", "n", "total", "failures", "st"}
    BY <1>1 DEF CallSet
  <1>3. /\ r.n \in 0..m /\ r.total <= Len(r.order) * m
        /\ r.st \in Running => r.at \in 1..Len(r.order)
    <2>1. CASE Unstarted(r) /\ r.st \in {"idle", "no_candidates"}
      <3>1. r.n = 0 /\ r.total = 0 /\ Len(r.order) = 0
        BY <2>1 DEF Unstarted
      <3>2. r.st \notin Running
        BY <2>1 DEF Trying, Running
      <3>3. QED
        BY <1>1, <3>1, <3>2
    <2>2. CASE Started(r)
      <3>1. /\ r.at \in 1..Len(r.order) /\ r.n \in 1..m /\ r.total <= (r.at - 1) * m + r.n
            /\ r.total \in Nat
        BY <1>1, <2>2 DEF Started, CallSet
      <3> HIDE DEF m
      <3>2. CASE m = 1
        BY <1>1, <3>1, <3>2
      <3>3. CASE m = 2
        BY <1>1, <3>1, <3>3
      <3>4. QED
        BY <1>1, <3>2, <3>3
    <2>3. QED
      BY <2>1, <2>2 DEF CallInv
  <1>4. QED
    BY <1>1, <1>2, <1>3 DEF CallOK, CallSet, Stages, maxTotal

LEMMA SoundCalls == ASSUME RouterInv PROVE FallbackIsSound
  <1>0. \A c \in Calls : CallInv(call[c])
    BY DEF RouterInv
  <1>1. TypeOK
    BY CallType DEF RouterInv, TypeOK
  <1>2. FallbackIsComplete
    <2> SUFFICES ASSUME NEW c \in Calls, call[c].st = "exhausted",
                        NEW k \in 1..Len(call[c].order)
                 PROVE  LET f == call[c].failures[call[c].order[k]] IN
                        /\ f # <<>>
                        /\ Len(f) = maxAttemptsPerBackend(call[c].op) \/ ~isRetryable(f[Len(f)])
      BY DEF FallbackIsComplete
    <2> DEFINE r == call[c]
               f == r.failures[r.order[k]]
    <2>1. r \in CallSet /\ Started(r) /\ r.at = Len(r.order) /\ GivenUp(Current(r), r.op)
      BY <1>0 DEF CallInv, Started
    <2>2. Len(r.order) \in Nat
      BY <2>1 DEF CallSet
    <2>3. k = r.at \/ k < r.at
      BY <2>1, <2>2
    <2>4. GivenUp(f, r.op)
      BY <2>1, <2>3 DEF Started, Current
    <2>5. f # <<>>
      BY <2>4, AttemptsBound DEF GivenUp
    <2>6. QED
      BY <2>4, <2>5 DEF GivenUp
  <1>3. MismatchEndsCall
    <2> SUFFICES ASSUME NEW c \in Calls, NEW b \in Backends, NEW k \in 1..2,
                        k <= Len(call[c].failures[b]), isTerminal(call[c].failures[b][k])
                 PROVE  call[c].st = "terminal"
      BY DEF MismatchEndsCall, isTerminal
    <2> DEFINE r == call[c]
               f == r.failures[b]
    <2>1. r \in CallSet /\ CallInv(r) /\ f \in Seq(ErrorClasses)
      BY <1>0 DEF CallInv, CallSet
    <2>2. k \in 1..Len(f) /\ ~Mild(f)
      BY <2>1 DEF Mild
    <2>3. f # <<>>
      BY <2>2
    <2>4. Started(r) /\ r.st \notin {"idle", "no_candidates"}
      BY <2>1, <2>3 DEF CallInv, Unstarted
    <2>5. PICK j \in 1..Len(r.order) : r.order[j] = b
      BY <2>3, <2>4 DEF Started
    <2>6. Len(r.order) \in Nat /\ r.at \in Nat
      BY <2>1 DEF CallSet
    <2>7. j = r.at
      <3>1. ~(j < r.at) /\ ~(j > r.at)
        BY <2>2, <2>3, <2>4, <2>5 DEF Started
      <3>2. QED
        BY <2>6, <3>1
    <2>8. ~Mild(Current(r))
      BY <2>2, <2>5, <2>7 DEF Current
    <2>9. r.st \in Stages
      BY <2>1 DEF CallSet
    <2>10. r.st \notin {"waiting", "reading", "ok", "backoff", "exhausted"}
      BY <2>4, <2>8 DEF Started
    <2>11. QED
      BY <2>4, <2>9, <2>10 DEF Stages, Trying, Running, Settled
  <1>4. GatewayIsOptional
    BY DEF RouterInv, GatewayIsOptional, WithoutGateway
  <1>5. QED
    BY <1>1, <1>2, <1>3, <1>4 DEF FallbackIsSound

\* executeWithFallback, for any number of calls, any statuses and any stored
\* preference: a call that ends with "All ... attempts failed" has tried every
\* candidate and given up none that was worth another attempt, one that met a
\* terminal failure has contacted nobody after it, no call exceeds its budgets, and
\* a build without gateway finds another backend for every call.
THEOREM FallbackSoundAlways == Spec => []FallbackIsSound
  <1>1. Init => RouterInv
    BY RouterInit
  <1>2. RouterInv /\ [Next]_vars => RouterInv'
    BY RouterStep
  <1>3. RouterInv => FallbackIsSound
    BY SoundCalls
  <1>4. QED
    BY <1>1, <1>2, <1>3, PTL DEF Spec

\* An upload is posted at most once to each backend, so a gateway that may still be
\* ingesting the file never gets a second copy of it from the same call.
THEOREM UploadsAreSentOnce == Spec => []UploadSentOnce
  <1>1. Init => RouterInv
    BY RouterInit
  <1>2. RouterInv /\ [Next]_vars => RouterInv'
    BY RouterStep
  <1>3. RouterInv => UploadSentOnce
    <2> SUFFICES ASSUME RouterInv, NEW c \in Calls, NEW b \in Backends,
                        call[c].op = "upload"
                 PROVE  Attempts(call[c], b) <= 1
      BY DEF UploadSentOnce
    <2> DEFINE r == call[c]
               f == r.failures[b]
    <2>1. CallInv(r) /\ r \in CallSet /\ maxAttemptsPerBackend(r.op) = 1
      BY DEF RouterInv, CallInv, maxAttemptsPerBackend
    <2>2. f \in Seq(ErrorClasses) /\ Len(f) \in Nat /\ Len(r.order) \in Nat /\ r.at \in Nat
      BY <2>1 DEF CallSet
    <2>0. /\ r.st \in Trying /\ Backend(r) = b => Attempts(r, b) = Len(f) + 1
          /\ ~(r.st \in Trying /\ Backend(r) = b) => Attempts(r, b) = Len(f)
      <3>1. Attempts(r, b) = Len(f) + (IF r.st \in Trying /\ Backend(r) = b THEN 1 ELSE 0)
        BY DEF Attempts
      <3> HIDE DEF f, r
      <3>2. QED
        BY <2>2, <3>1
    <2>3. CASE Unstarted(r) /\ r.st \in {"idle", "no_candidates"}
      <3>1. Len(f) = 0 /\ r.st \notin Trying
        BY <2>3 DEF Unstarted, Trying
      <3>2. QED
        BY <2>0, <3>1
    <2>4. CASE Started(r) /\ r.st \notin {"idle", "no_candidates"}
      <3>1. r.n = 1 /\ r.at \in 1..Len(r.order)
        BY <2>1, <2>4 DEF Started
      <3>2. CASE r.order[r.at] = b
        <4>1. f = Current(r)
          BY <3>2 DEF Current
        <4>2. r.st \in {"waiting", "reading", "ok", "backoff", "terminal", "exhausted"}
          BY <2>1, <2>4 DEF CallSet, Stages, Trying, Running, Settled
        <4>3. /\ r.st \in {"waiting", "reading", "ok"} => Len(f) = 0
              /\ r.st \in {"backoff", "terminal", "exhausted"} => Len(f) = 1
          <5>1. /\ r.st \in {"waiting", "reading", "ok"} => Len(Current(r)) = r.n - 1
                /\ r.st \in {"backoff", "terminal"} => Len(Current(r)) = r.n
                /\ r.st = "exhausted" => Len(Current(r)) \in 1..maxAttemptsPerBackend(r.op)
            BY <2>4 DEF Started, GivenUp
          <5> HIDE DEF r, f
          <5>2. /\ r.st \in {"waiting", "reading", "ok"} => Len(f) = 1 - 1
                /\ r.st \in {"backoff", "terminal"} => Len(f) = 1
                /\ r.st = "exhausted" => Len(f) \in 1..1
            BY <2>1, <3>1, <4>1, <5>1, Zenon
          <5>3. QED
            <6>1. 1 - 1 = 0 /\ 1..1 = {1}
              OBVIOUS
            <6>2. QED
              BY <5>2, <6>1, Zenon
        <4>4. QED
          <5> HIDE DEF r, f
          <5>1. Attempts(r, b) = 0 \/ Attempts(r, b) = 0 + 1 \/ Attempts(r, b) = 1
            <6>1. CASE r.st \in {"waiting", "reading", "ok"}
              BY <2>0, <4>3, <6>1, Zenon
            <6>2. CASE r.st \in {"backoff", "terminal", "exhausted"}
              <7>1. r.st \notin Trying
                BY <6>2 DEF Trying
              <7>2. QED
                BY <2>0, <4>3, <6>2, <7>1, Zenon
            <6>3. QED
              BY <4>2, <6>1, <6>2
          <5>2. Attempts(r, b) <= 1
            BY <5>1
          <5>3. QED
            BY <5>2 DEF r
      <3>3. CASE r.order[r.at] # b
        <4>1. Len(f) <= 1
          <5>1. CASE \E k \in 1..Len(r.order) : r.order[k] = b
            <6>1. PICK k \in 1..Len(r.order) : r.order[k] = b
              BY <5>1
            <6>2. k < r.at \/ k > r.at
              BY <2>2, <3>3, <6>1
            <6>3. GivenUp(f, r.op) \/ f = <<>>
              BY <2>4, <6>1, <6>2 DEF Started
            <6>4. QED
              BY <2>1, <2>2, <6>3 DEF GivenUp
          <5>2. CASE \A k \in 1..Len(r.order) : r.order[k] # b
            <6>1. f = <<>>
              BY <2>4, <5>2 DEF Started
            <6>2. QED
              BY <6>1
          <5>3. QED
            BY <5>1, <5>2
        <4>2. Attempts(r, b) = Len(f)
          BY <2>0, <3>3 DEF Backend
        <4>3. QED
          BY <4>1, <4>2
      <3>4. QED
        BY <3>2, <3>3
    <2>5. QED
      BY <2>1, <2>3, <2>4 DEF CallInv
  <1>4. QED
    BY <1>1, <1>2, <1>3, PTL DEF Spec
-----------------------------------------------------------------------------
(* Least and greatest elements *)

LEMMA LeastOfNats ==
    ASSUME NEW S, S \subseteq Nat, S # {}
    PROVE  F!Least(S) \in S /\ \A y \in S : F!Least(S) <= y
  <1> DEFINE Less == {ss \in Nat \X Nat : ss[1] < ss[2]}
  <1>1. IsWellFoundedOn(Less, Nat)
    BY NatLessThanWellFounded DEF OpToRel
  <1>2. \E x \in S : \A y \in S : ~(<<y, x>> \in Less)
    <2> HIDE DEF Less
    <2> QED  BY <1>1, WFMin
  <1>3. \A x \in Nat, y \in Nat : ~(<<y, x>> \in Less) => x <= y
    OBVIOUS
  <1>4. \E x \in S : \A y \in S : x <= y
    <2> HIDE DEF Less
    <2> QED  BY <1>2, <1>3
  <1>5. QED
    BY <1>4 DEF F!Least

\* Finitely many natural numbers have an upper bound: no least n is without.
LEMMA Bounded ==
    ASSUME NEW n \in Nat, NEW f, \A j \in 1..n : f[j] \in Nat
    PROVE  \E b \in Nat : \A j \in 1..n : f[j] <= b
  <1> DEFINE Below(m) == \E b \in Nat : \A j \in 1..m : f[j] <= b
             Bad == {m \in 0..n : ~Below(m)}
  <1>1. SUFFICES Bad = {}
    <2>1. n \in 0..n
      OBVIOUS
    <2>2. QED
      BY <1>1, <2>1
  <1>2. SUFFICES ASSUME Bad # {} PROVE FALSE
    OBVIOUS
  <1>3. PICK m \in Bad : \A k \in Bad : m <= k
    <2>1. Bad \subseteq Nat
      OBVIOUS
    <2> HIDE DEF Bad
    <2>2. QED
      BY <1>2, <2>1, LeastOfNats
  <1>4. m \in 0..n /\ ~Below(m)
    OBVIOUS
  <1>5. m # 0
    <2>1. Below(0)
      <3>1. 0 \in Nat /\ \A j \in 1..0 : f[j] <= 0
        OBVIOUS
      <3>2. QED
        BY <3>1
    <2> HIDE DEF Below
    <2>2. QED
      BY <1>4, <2>1
  <1>6. m - 1 \in 0..n /\ m - 1 < m
    BY <1>4, <1>5
  <1>7. Below(m - 1)
    <2> HIDE DEF Below
    <2>1. m - 1 \notin Bad
      BY <1>3, <1>6
    <2>2. QED
      BY <1>6, <2>1
  <1>8. PICK b \in Nat : \A j \in 1..(m - 1) : f[j] <= b
    BY <1>7
  <1>9. f[m] \in Nat
    BY <1>4, <1>5
  <1>10. ASSUME NEW j \in 1..m PROVE f[j] <= b + f[m]
    <2>1. CASE j = m
      BY <1>8, <1>9, <2>1
    <2>2. CASE j # m
      <3>1. j \in 1..(m - 1) /\ f[j] \in Nat
        BY <1>4, <2>2
      <3>2. QED
        BY <1>8, <1>9, <3>1
    <2>3. QED
      BY <2>1, <2>2
  <1>11. b + f[m] \in Nat
    BY <1>9
  <1>12. Below(m)
    BY <1>10, <1>11
  <1>13. QED
    BY <1>4, <1>12

LEMMA GreatestOfNats ==
    ASSUME NEW S, S \subseteq Nat, S # {}, NEW b \in Nat, \A y \in S : y <= b
    PROVE  F!Greatest(S) \in S /\ \A y \in S : y <= F!Greatest(S)
  <1> DEFINE T == {b - y : y \in S}
  <1>1. T \subseteq Nat /\ T # {}
    <2>1. \A y \in S : b - y \in Nat
      OBVIOUS
    <2>2. QED
      BY <2>1
  <1>2. PICK t \in T : \A u \in T : t <= u
    <2> HIDE DEF T
    <2>1. QED
      BY <1>1, LeastOfNats
  <1>3. PICK x \in S : t = b - x
    OBVIOUS
  <1>4. ASSUME NEW y \in S PROVE y <= x
    <2>1. b - y \in T
      OBVIOUS
    <2>2. b - x <= b - y
      BY <1>2, <1>3, <2>1
    <2>3. x \in Nat /\ y \in Nat
      OBVIOUS
    <2>4. QED
      BY <2>2, <2>3
  <1>5. \E z \in S : \A y \in S : y <= z
    BY <1>4
  <1>6. QED
    BY <1>5 DEF F!Greatest

-----------------------------------------------------------------------------
(* The plan of a chunk, and the sessions it leads to *)

LEMMA TimesNat == ASSUME NEW a \in Nat, NEW b \in Nat PROVE a * b \in Nat
  OBVIOUS

LEMMA TimesPositive ==
    ASSUME NEW a \in Nat \ {0}, NEW b \in Nat \ {0} PROVE a * b \in Nat \ {0}
  OBVIOUS

LEMMA Divides ==
    ASSUME NEW a \in Nat, NEW b \in Nat \ {0}
    PROVE  a \div b \in Nat /\ a % b \in 0..(b - 1)
  OBVIOUS

LEMMA PlanType ==
    ASSUME NEW i \in Nat
    PROVE  /\ F!PlanProvider(i) \in F!Providers
           /\ F!Plan(i) = [chunk |-> i, provider |-> F!PlanProvider(i), global |-> F!Plan(i).global]
           /\ F!Plan(i).global \in Nat
  <1>1. K \in Nat \ {0} /\ Rows \in Nat \ {0}
    BY RetrievalAssumption DEF F!StripeAssumption
  <1>2. PICK L \in Nat \ {0} : L = K * Rows
    BY <1>1, TimesPositive
  <1>3. i \div L \in Nat /\ i % L \in Nat
    <2>1. i \div L \in Nat /\ i % L \in 0..(L - 1)
      BY Divides
    <2>2. QED
      BY <2>1
  <1>4. PICK q \in Nat, m \in Nat : q = i \div L /\ m = i % L
    BY <1>3
  <1>5. m % K \in 0..(K - 1) /\ m \div K \in Nat
    BY <1>1, Divides
  <1>6. F!PlanProvider(i) = m % K /\ F!PlanLeaf(i) = (m % K) * Rows + m \div K
    BY <1>2, <1>4 DEF F!PlanProvider, F!PlanLeaf, F!BlobInMdu
  <1>7. F!PlanProvider(i) \in F!Providers
    BY <1>5, <1>6 DEF F!Providers
  <1>8. F!Plan(i) = [chunk |-> i, provider |-> F!PlanProvider(i),
                     global |-> (1 + q) * L + F!PlanLeaf(i)]
    BY <1>2, <1>4 DEF F!Plan, F!Mdu, F!leafCount
  <1>9. (1 + q) * L \in Nat /\ (m % K) * Rows \in Nat
    <2>1. m % K \in Nat /\ 1 + q \in Nat
      BY <1>5, <1>1
    <2>2. QED
      BY <1>1, <1>2, <2>1, TimesNat
  <1>10. (1 + q) * L + F!PlanLeaf(i) \in Nat
    BY <1>5, <1>6, <1>9
  <1>11. QED
    BY <1>7, <1>8, <1>10

\* The plan of the chunks from a blob on.
PlanOf(plan, from) ==
    /\ from \in Nat /\ Len(plan) \in Nat
    /\ \A j \in 1..Len(plan) : plan[j] = F!Plan(from + j - 1)

LEMMA PlanPlace ==
    ASSUME NEW plan, NEW from, PlanOf(plan, from), NEW j \in 1..Len(plan)
    PROVE  /\ from + j - 1 \in Nat
           /\ plan[j].chunk = from + j - 1
           /\ plan[j].provider = F!PlanProvider(from + j - 1) /\ plan[j].provider \in F!Providers
           /\ plan[j].global = F!Plan(from + j - 1).global /\ plan[j].global \in Nat
  <1>1. from + j - 1 \in Nat /\ plan[j] = F!Plan(from + j - 1)
    BY DEF PlanOf
  <1>2. PICK i \in Nat : i = from + j - 1
    BY <1>1
  <1>3. QED
    BY <1>1, <1>2, PlanType

\* A group has a first and a last blob.
LEMMA GroupRange ==
    ASSUME NEW plan, NEW from, PlanOf(plan, from), NEW p, NEW k \in F!Group(plan, p),
           NEW S, S = F!Globals(plan, p)
    PROVE  /\ F!Least(S) \in Nat /\ F!Greatest(S) \in Nat /\ F!Least(S) <= F!Greatest(S)
           /\ \A j \in F!Group(plan, p) :
                 F!Least(S) <= plan[j].global /\ plan[j].global <= F!Greatest(S)
  <1>1. \A j \in F!Group(plan, p) : j \in 1..Len(plan) /\ plan[j].global \in Nat
    BY PlanPlace DEF F!Group
  <1>2. S \subseteq Nat /\ S # {} /\ \A j \in F!Group(plan, p) : plan[j].global \in S
    BY <1>1 DEF F!Globals
  <1>3. PICK f : f = [j \in 1..Len(plan) |-> plan[j].global]
    OBVIOUS
  <1>4. Len(plan) \in Nat /\ \A j \in 1..Len(plan) : f[j] \in Nat
    BY <1>3, PlanPlace DEF PlanOf
  <1>5. PICK b \in Nat : \A j \in 1..Len(plan) : f[j] <= b
    BY <1>4, Bounded
  <1>6. \A y \in S : y <= b
    BY <1>3, <1>5 DEF F!Globals, F!Group
  <1>7. F!Least(S) \in S /\ \A y \in S : F!Least(S) <= y
    BY <1>2, LeastOfNats
  <1>8. F!Greatest(S) \in S /\ \A y \in S : y <= F!Greatest(S)
    BY <1>2, <1>6, GreatestOfNats
  <1>9. QED
    BY <1>2, <1>7, <1>8

\* The request of a provider's session covers each of its chunks.
LEMMA RequestCovers ==
    ASSUME NEW plan, NEW from, PlanOf(plan, from), NEW j \in 1..Len(plan),
           NEW p, p = plan[j].provider, NEW r, r = F!OpenRequest(plan, p)
    PROVE  /\ r = [provider |-> p, first |-> r.first, count |-> r.count, expires |-> 0]
           /\ r \in F!OpenRequests(plan) /\ p \in F!Providers
           /\ r.first \in Nat /\ r.count \in Nat
           /\ r.first <= plan[j].global /\ plan[j].global < r.first + r.count
  <1>1. PICK S : S = F!Globals(plan, p)
    OBVIOUS
  <1>2. j \in F!Group(plan, p)
    BY DEF F!Group
  <1>3. PICK a \in Nat, b \in Nat : a = F!Least(S) /\ b = F!Greatest(S) /\ a <= b
    BY <1>1, <1>2, GroupRange
  <1>4. a <= plan[j].global /\ plan[j].global <= b
    BY <1>1, <1>2, <1>3, GroupRange
  <1>5. r = [provider |-> p, first |-> a, count |-> b - a + 1, expires |-> 0]
    BY <1>1, <1>3 DEF F!OpenRequest
  <1>6. r \in F!OpenRequests(plan)
    BY DEF F!OpenRequests
  <1>7. plan[j].global \in Nat /\ p \in F!Providers
    BY PlanPlace
  <1>8. QED
    BY <1>3, <1>4, <1>5, <1>6, <1>7

LEMMA RequestOf ==
    ASSUME NEW plan, NEW from, PlanOf(plan, from), NEW r \in F!OpenRequests(plan)
    PROVE  /\ r \in [provider : F!Providers, first : Nat, count : Nat, expires : {0}]
           /\ r = F!OpenRequest(plan, r.provider)
  <1>1. PICK j \in 1..Len(plan) : r = F!OpenRequest(plan, plan[j].provider)
    BY DEF F!OpenRequests
  <1>2. PICK p : p = plan[j].provider
    OBVIOUS
  <1>3. /\ r = [provider |-> p, first |-> r.first, count |-> r.count, expires |-> 0]
        /\ p \in F!Providers /\ r.first \in Nat /\ r.count \in Nat
    BY <1>1, <1>2, RequestCovers
  <1>4. r.provider = p
    BY <1>3
  <1>5. QED
    BY <1>1, <1>2, <1>3, <1>4

\* The loops find a place while there is one.
LEMMA NextFound ==
    ASSUME NEW plan, NEW from, PlanOf(plan, from), NEW S, S \subseteq 1..Len(plan), S # {}
    PROVE  /\ \E j \in S : F!NextGroup(plan, S) = plan[j].provider
           /\ F!NextPlace(plan, S) \in S
  <1> DEFINE Firsts == {F!Least(F!Group(plan, plan[j].provider)) : j \in S}
  <1>1. ASSUME NEW j \in S
        PROVE  F!Least(F!Group(plan, plan[j].provider)) \in F!Group(plan, plan[j].provider)
    <2>1. j \in F!Group(plan, plan[j].provider)
      BY DEF F!Group
    <2>2. F!Group(plan, plan[j].provider) \subseteq Nat
      BY DEF F!Group
    <2>3. QED
      BY <2>1, <2>2, LeastOfNats
  <1>2. Firsts \subseteq Nat /\ Firsts # {}
    <2>1. \A j \in S : F!Least(F!Group(plan, plan[j].provider)) \in Nat
      BY <1>1 DEF F!Group
    <2>2. QED
      BY <2>1
  <1>3. F!Least(Firsts) \in Firsts
    <2> HIDE DEF Firsts
    <2>1. QED
      BY <1>2, LeastOfNats
  <1>4. PICK j \in S : F!Least(Firsts) = F!Least(F!Group(plan, plan[j].provider))
    BY <1>3
  <1>5. F!NextGroup(plan, S) = plan[j].provider
    <2>1. F!NextGroup(plan, S) = plan[F!Least(Firsts)].provider
      BY DEF F!NextGroup
    <2>2. F!Least(Firsts) \in F!Group(plan, plan[j].provider)
      BY <1>1, <1>4
    <2> HIDE DEF Firsts
    <2>3. QED
      BY <2>1, <2>2 DEF F!Group
  <1>6. PICK T : T = {k \in S : plan[k].provider = F!NextGroup(plan, S)}
    OBVIOUS
  <1>7. T \subseteq Nat /\ T # {}
    <2>1. \A k \in S : k \in Nat
      OBVIOUS
    <2>2. j \in T /\ T \subseteq S
      BY <1>5, <1>6
    <2>3. QED
      BY <2>1, <2>2
  <1>8. F!Least(T) \in T
    BY <1>7, LeastOfNats
  <1>9. F!NextPlace(plan, S) \in S
    BY <1>6, <1>8 DEF F!NextPlace
  <1>10. QED
    BY <1>5, <1>9
-----------------------------------------------------------------------------
(* The invariant of a download *)

Opened == {"fetching", "confirming", "confirm_sent", "proving", "done"}
Fetched == Opened \ {"fetching"}

\* The plan so far is of the chunks of the range from its first on, and no
\* session is asked for before it is complete.
PlanInv ==
    /\ PlanOf(planned, range.from)
    /\ phase = "idle" => planned = <<>>
    /\ phase = "planning" => /\ range.from <= range.to /\ Len(planned) <= range.to - range.from
                             /\ range.from \in F!BlobIds /\ range.to \in F!BlobIds
    /\ phase \in Opened \cup {"opening", "open_sent"} \/ txs["open"] # "none" =>
         /\ range.from <= range.to /\ Len(planned) = range.to - range.from + 1
         /\ opens = F!OpenRequests(planned)

\* Nothing is fetched before the sessions are on chain, and there they are
\* as they were asked for.
SessionInv ==
    /\ phase \in {"idle", "planning", "opening"} => txs["open"] = "none"
    /\ phase \in Opened => txs["open"] = "mined"
    /\ phase = "open_sent" => parts = <<>>
    /\ txs["open"] # "mined" => parts = <<>> /\ chain = [p \in F!Providers |-> F!NoSession]
    /\ txs["open"] = "mined" => \A r \in opens :
          /\ chain[r.provider].st # "none"
          /\ chain[r.provider].first = r.first /\ chain[r.provider].count = r.count

\* Each part is a chunk of the range, fetched once; when the loops are over
\* none is left.
PartsInv ==
    /\ \A j \in 1..Len(parts) : parts[j] \in range.from..range.to
    /\ \A j, k \in 1..Len(parts) : parts[j] = parts[k] => j = k
    /\ phase = "fetching" => F!Unfetched # {}
    /\ phase \in Fetched \/ txs["confirm"] # "none" => F!Unfetched = {} /\ txs["open"] = "mined"

\* Sessions are confirmed by the page's transaction, sent when it has all.
ConfirmInv ==
    /\ phase \in {"idle", "planning", "opening", "open_sent", "fetching", "confirming"}
       => txs["confirm"] = "none"
    /\ phase \in {"idle", "planning", "opening", "open_sent", "fetching", "confirming", "confirm_sent"}
       => asked = {}
    /\ phase = "proving" => F!Unasked # {}
    /\ \A p \in F!Providers : chain[p].st \in {"confirmed", "completed"} => txs["confirm"] = "mined"

SessionType ==
    [st : {"none", "open", "confirmed", "completed"}, proved : BOOLEAN, first : Nat, count : Nat,
     expires : Nat]

FetchInv == F!TypeOK /\ PlanInv /\ SessionInv /\ PartsInv /\ ConfirmInv

LEMMA FetchInit == ASSUME F!Init PROVE FetchInv
  <1>1. F!TypeOK
    <2>1. F!NoSession \in SessionType
      BY DEF F!NoSession, SessionType
    <2>2. chain \in [F!Providers -> SessionType]
      BY <2>1 DEF F!Init
    <2>3. auth \in BOOLEAN
      BY Zenon DEF F!Init
    <2>4. txs \in [{"open", "confirm"} -> {"none", "pending", "mined", "reverted", "dropped"}]
      BY DEF F!Init
    <2>5. QED
      BY <2>2, <2>3, <2>4 DEF F!Init, F!TypeOK, F!Over, SessionType
  <1>2. PlanInv
    BY DEF F!Init, PlanInv, PlanOf, Opened
  <1>3. SessionInv
    BY DEF F!Init, SessionInv, Opened
  <1>4. PartsInv
    BY DEF F!Init, PartsInv, Fetched, Opened
  <1>5. ConfirmInv
    BY DEF F!Init, ConfirmInv, F!NoSession
  <1>6. QED
    BY <1>1, <1>2, <1>3, <1>4, <1>5 DEF FetchInv

\* A step that only ends the download.
LEMMA EndStep ==
    ASSUME FetchInv, phase' \in {"error", "closed"}, F!TypeOK',
           UNCHANGED <<range, planned, parts, asked, opens, chain, txs>>
    PROVE  FetchInv'
  <1>1. PlanInv'
    BY DEF FetchInv, PlanInv, Opened
  <1>2. SessionInv'
    BY DEF FetchInv, SessionInv, Opened
  <1>3. PartsInv'
    BY DEF FetchInv, PartsInv, Fetched, Opened, F!Unfetched
  <1>4. ConfirmInv'
    BY DEF FetchInv, ConfirmInv
  <1>5. QED
    BY <1>1, <1>2, <1>3, <1>4 DEF FetchInv

EndsWith(why) ==
    /\ phase' \in {"error", "closed"} /\ reason' \in {reason, why}
    /\ UNCHANGED <<range, planned, parts, asked, auth, file, opens, chain, txs>>

LEMMA EndTypes ==
    ASSUME FetchInv, NEW why, why \in {"input", "plan", "wallet", "reverted", "receipt", "proof"} \cup F!Texts,
           EndsWith(why)
    PROVE  FetchInv'
  <1>1. F!TypeOK'
    BY DEF FetchInv, F!TypeOK, F!Over, EndsWith
  <1>2. QED
    BY <1>1, EndStep DEF EndsWith

LEMMA Ends ==
    ASSUME FetchInv,
           \/ F!BeginInvalid \/ F!PlanFails \/ F!RefuseTx \/ F!OpenReverted \/ F!ReceiptTimeout
           \/ F!RequestProofFails \/ F!CloseTab \/ \E text \in F!Texts : F!FetchFails(text)
    PROVE  FetchInv'
  <1>1. CASE F!BeginInvalid
    BY <1>1, EndTypes DEF F!BeginInvalid, F!FailWith, EndsWith, F!inputVars, F!chainVars
  <1>2. CASE F!PlanFails
    BY <1>2, EndTypes DEF F!PlanFails, F!FailWith, EndsWith, F!inputVars, F!chainVars
  <1>3. CASE F!RefuseTx
    BY <1>3, EndTypes DEF F!RefuseTx, F!FailWith, EndsWith, F!inputVars, F!chainVars
  <1>4. CASE F!OpenReverted
    BY <1>4, EndTypes DEF F!OpenReverted, F!FailWith, EndsWith, F!inputVars, F!chainVars
  <1>5. CASE F!ReceiptTimeout
    BY <1>5, EndTypes DEF F!ReceiptTimeout, F!FailWith, EndsWith, F!inputVars, F!chainVars
  <1>6. CASE F!RequestProofFails
    BY <1>6, EndTypes DEF F!RequestProofFails, F!FailWith, EndsWith, F!inputVars, F!chainVars
  <1>7. CASE F!CloseTab
    BY <1>7, EndTypes DEF F!CloseTab, EndsWith, F!inputVars, F!chainVars
  <1>8. CASE \E text \in F!Texts : F!FetchFails(text)
    <2>1. PICK text \in F!Texts : F!FetchFails(text)
      BY <1>8
    <2>2. ~F!shouldSignMetaAuth(F!Thrown(text))
      BY DEF F!shouldSignMetaAuth, F!Thrown
    <2>3. EndsWith(text)
      BY <2>1, <2>2 DEF F!FetchFails, F!FailWith, EndsWith, F!inputVars, F!chainVars
    <2>4. QED
      BY <2>3, EndTypes
  <1>9. QED
    BY <1>1, <1>2, <1>3, <1>4, <1>5, <1>6, <1>7, <1>8

LEMMA BeginKeeps ==
    ASSUME FetchInv, NEW a \in F!BlobIds, NEW b \in F!BlobIds, F!Begin(a, b)
    PROVE  FetchInv'
  <1>1. /\ phase = "idle" /\ a <= b /\ phase' = "planning"
        /\ range' = [from |-> a, to |-> b]
        /\ planned' = planned /\ parts' = parts /\ asked' = asked /\ opens' = opens
        /\ chain' = chain /\ txs' = txs /\ reason' = reason /\ auth' = auth /\ file' = file
    BY DEF F!Begin, F!chainVars
  <1>2. a \in Nat /\ b \in Nat
    BY RetrievalAssumption DEF F!StripeAssumption, F!BlobIds
  <1>3. planned = <<>> /\ parts = <<>> /\ txs["open"] = "none" /\ txs["confirm"] = "none"
    BY <1>1 DEF FetchInv, PlanInv, SessionInv, ConfirmInv
  <1>4. F!TypeOK'
    <2>1. range' \in [from : F!BlobIds, to : F!BlobIds]
      BY <1>1
    <2>2. QED
      BY <1>1, <2>1 DEF FetchInv, F!TypeOK
  <1>5. PlanInv'
    BY <1>1, <1>2, <1>3 DEF PlanInv, PlanOf, Opened
  <1>6. SessionInv'
    BY <1>1, <1>3 DEF FetchInv, SessionInv, Opened
  <1>7. PartsInv'
    BY <1>1, <1>3 DEF PartsInv, Fetched, Opened
  <1>8. ConfirmInv'
    BY <1>1 DEF FetchInv, ConfirmInv
  <1>9. QED
    BY <1>4, <1>5, <1>6, <1>7, <1>8 DEF FetchInv

LEMMA PlanChunkKeeps == ASSUME FetchInv, F!PlanChunk PROVE FetchInv'
  <1> DEFINE i == range.from + Len(planned)
             plan == Append(planned, F!Plan(i))
  <1>1. /\ phase = "planning" /\ planned' = plan
        /\ range' = range /\ parts' = parts /\ asked' = asked
        /\ chain' = chain /\ txs' = txs /\ reason' = reason /\ auth' = auth /\ file' = file
    BY DEF F!PlanChunk, F!chainVars
  <1>2. \/ i < range.to /\ phase' = phase /\ opens' = opens
        \/ ~(i < range.to) /\ phase' = "opening" /\ opens' = F!OpenRequests(plan)
    BY DEF F!PlanChunk
  <1>3. /\ range.from \in Nat /\ range.to \in Nat /\ range.from <= range.to
        /\ PlanOf(planned, range.from) /\ Len(planned) \in Nat /\ Len(planned) <= range.to - range.from
    <2>1. range.from \in Nat /\ range.to \in Nat
      BY RetrievalAssumption DEF FetchInv, F!TypeOK, F!StripeAssumption, F!BlobIds
    <2>2. QED
      BY <1>1, <2>1 DEF FetchInv, PlanInv, PlanOf
  <1>4. i \in F!BlobIds /\ i \in Nat
    <2>1. range.from \in F!BlobIds /\ range.to \in F!BlobIds
      BY <1>1 DEF FetchInv, PlanInv
    <2>2. QED
      BY <1>3, <2>1, RetrievalAssumption DEF F!StripeAssumption, F!BlobIds
  <1>5. PICK c : c = F!Plan(i)
    OBVIOUS
  <1>6. c \in [chunk : F!BlobIds, provider : F!Providers, global : Nat]
    BY <1>4, <1>5, PlanType
  <1>7. /\ planned' \in Seq([chunk : F!BlobIds, provider : F!Providers, global : Nat])
        /\ Len(planned') = Len(planned) + 1
        /\ \A j \in 1..Len(planned) : planned'[j] = planned[j]
        /\ planned'[Len(planned) + 1] = c
    <2>1. planned \in Seq([chunk : F!BlobIds, provider : F!Providers, global : Nat])
      BY DEF FetchInv, F!TypeOK
    <2>2. planned' = Append(planned, c)
      BY <1>1, <1>5
    <2>3. QED
      BY <1>6, <2>1, <2>2
  <1> HIDE DEF plan
  <1>8. PlanOf(planned', range.from)
    <2>1. ASSUME NEW j \in 1..Len(planned') PROVE planned'[j] = F!Plan(range.from + j - 1)
      <3>1. CASE j \in 1..Len(planned)
        BY <1>3, <1>7, <3>1 DEF PlanOf
      <3>2. CASE j = Len(planned) + 1
        <4>1. range.from + j - 1 = i
          BY <1>3, <3>2
        <4>2. QED
          BY <1>5, <1>7, <3>2, <4>1
      <3>3. QED
        BY <1>3, <1>7, <3>1, <3>2
    <2>2. QED
      BY <1>3, <1>7, <2>1 DEF PlanOf
  <1>9. parts = <<>> /\ txs["open"] = "none" /\ txs["confirm"] = "none"
    BY <1>1 DEF FetchInv, SessionInv, ConfirmInv
  <1>10. \A r \in opens' : r \in [provider : F!Providers, first : Nat, count : Nat, expires : {0}]
    <2>1. CASE opens' = opens
      BY <2>1 DEF FetchInv, F!TypeOK
    <2>2. CASE opens' = F!OpenRequests(planned')
      BY <1>8, <2>2, RequestOf
    <2>3. QED
      BY <1>1, <1>2, <2>1, <2>2
  <1>11. F!TypeOK'
    <2>1. phase' \in {"planning", "opening"}
      BY <1>1, <1>2
    <2>2. QED
      BY <1>1, <1>7, <1>10, <2>1 DEF FetchInv, F!TypeOK
  <1>12. PlanInv'
    <2>1. CASE i < range.to
      BY <1>1, <1>2, <1>3, <1>7, <1>8, <1>9, <2>1 DEF FetchInv, PlanInv, Opened
    <2>2. CASE ~(i < range.to)
      <3>1. /\ phase' = "opening" /\ Len(planned') = range.to - range.from + 1
            /\ opens' = F!OpenRequests(planned')
        BY <1>1, <1>2, <1>3, <1>7, <2>2
      <3>2. QED
        BY <1>1, <1>3, <1>8, <3>1 DEF PlanInv
    <2>3. QED
      BY <2>1, <2>2
  <1>13. phase' \in {"planning", "opening"}
    BY <1>1, <1>2
  <1>14. SessionInv'
    BY <1>1, <1>9, <1>13 DEF FetchInv, SessionInv, Opened
  <1>15. PartsInv'
    BY <1>1, <1>9, <1>13 DEF PartsInv, Fetched, Opened
  <1>16. ConfirmInv'
    BY <1>1, <1>13 DEF FetchInv, ConfirmInv
  <1>17. QED
    BY <1>11, <1>12, <1>14, <1>15, <1>16 DEF FetchInv

LEMMA SendOpenKeeps == ASSUME FetchInv, F!SendOpen PROVE FetchInv'
  <1>1. /\ phase = "opening" /\ phase' = "open_sent" /\ txs' = [txs EXCEPT !["open"] = "pending"]
        /\ UNCHANGED <<reason, range, planned, opens, parts, asked, auth, file, chain>>
    BY DEF F!SendOpen, F!SendTx, F!inputVars
  <1>2. txs \in [{"open", "confirm"} -> {"none", "pending", "mined", "reverted", "dropped"}]
    BY DEF FetchInv, F!TypeOK
  <1>3. txs'["open"] = "pending" /\ txs'["confirm"] = txs["confirm"]
    BY <1>1, <1>2
  <1>4. F!TypeOK'
    BY <1>1, <1>2 DEF FetchInv, F!TypeOK
  <1>5. PlanInv'
    BY <1>1, <1>3 DEF FetchInv, PlanInv, Opened
  <1>6. SessionInv'
    BY <1>1, <1>3 DEF FetchInv, SessionInv, Opened
  <1>7. PartsInv'
    BY <1>1, <1>3 DEF FetchInv, PartsInv, Fetched, Opened, ConfirmInv
  <1>8. ConfirmInv'
    BY <1>1, <1>3 DEF FetchInv, ConfirmInv
  <1>9. QED
    BY <1>4, <1>5, <1>6, <1>7, <1>8 DEF FetchInv

LEMMA SendConfirmKeeps == ASSUME FetchInv, F!SendConfirm PROVE FetchInv'
  <1>1. /\ phase = "confirming" /\ phase' = "confirm_sent"
        /\ txs' = [txs EXCEPT !["confirm"] = "pending"]
        /\ UNCHANGED <<reason, range, planned, opens, parts, asked, auth, file, chain>>
    BY DEF F!SendConfirm, F!SendTx, F!inputVars
  <1>2. txs \in [{"open", "confirm"} -> {"none", "pending", "mined", "reverted", "dropped"}]
    BY DEF FetchInv, F!TypeOK
  <1>3. txs'["confirm"] = "pending" /\ txs'["open"] = txs["open"]
    BY <1>1, <1>2
  <1>4. F!TypeOK'
    BY <1>1, <1>2 DEF FetchInv, F!TypeOK
  <1>5. PlanInv'
    BY <1>1, <1>3 DEF FetchInv, PlanInv, Opened
  <1>6. SessionInv'
    BY <1>1, <1>3 DEF FetchInv, SessionInv, Opened
  <1>7. PartsInv'
    BY <1>1, <1>3 DEF FetchInv, PartsInv, Fetched, Opened, F!Unfetched
  <1>8. txs["confirm"] = "none"
    BY <1>1 DEF FetchInv, ConfirmInv
  <1>9. ConfirmInv'
    BY <1>1, <1>3, <1>8 DEF FetchInv, ConfirmInv
  <1>10. QED
    BY <1>4, <1>5, <1>6, <1>7, <1>9 DEF FetchInv

LEMMA OpenReceiptKeeps == ASSUME FetchInv, F!OpenReceipt PROVE FetchInv'
  <1>1. /\ phase = "open_sent" /\ phase' = "fetching" /\ txs["open"] = "mined"
        /\ UNCHANGED <<reason, range, planned, opens, parts, asked, auth, file, chain, txs>>
    BY DEF F!OpenReceipt, F!inputVars, F!chainVars
  <1>2. F!TypeOK'
    BY <1>1 DEF FetchInv, F!TypeOK
  <1>3. PlanInv'
    BY <1>1 DEF FetchInv, PlanInv, Opened
  <1>4. SessionInv'
    BY <1>1 DEF FetchInv, SessionInv, Opened
  <1>5. F!Unfetched' # {}
    <2>1. parts' = <<>> /\ range.from <= range.to /\ Len(planned) = range.to - range.from + 1
      BY <1>1 DEF FetchInv, SessionInv, PlanInv
    <2>2. range.from \in Nat /\ range.to \in Nat
      BY RetrievalAssumption DEF FetchInv, F!TypeOK, F!StripeAssumption, F!BlobIds
    <2>3. 1 \in 1..Len(planned') /\ F!Elements(parts') = {}
      BY <1>1, <2>1, <2>2 DEF F!Elements
    <2>4. 1 \in F!Unfetched'
      BY <2>3 DEF F!Unfetched
    <2>5. QED
      BY <2>4
  <1>6. PartsInv'
    BY <1>1, <1>5 DEF FetchInv, PartsInv, Fetched, Opened, ConfirmInv
  <1>7. ConfirmInv'
    BY <1>1 DEF FetchInv, ConfirmInv
  <1>8. QED
    BY <1>2, <1>3, <1>4, <1>6, <1>7 DEF FetchInv

\* What the loops fetch next is a chunk of the range that they have not fetched.
LEMMA FetchChunkKeeps == ASSUME FetchInv, F!FetchChunk PROVE FetchInv'
  <1>1. PICK next : next = F!NextPlace(planned, F!Unfetched)
    OBVIOUS
  <1>2. /\ phase = "fetching" /\ parts' = Append(parts, planned[next].chunk)
        /\ phase' = IF F!Unfetched = {next} THEN "confirming" ELSE phase
        /\ UNCHANGED <<reason, range, planned, opens, asked, auth, file, chain, txs>>
    BY <1>1 DEF F!FetchChunk, F!inputVars, F!chainVars
  <1>3. /\ PlanOf(planned, range.from) /\ range.from \in Nat /\ range.to \in Nat
        /\ range.from <= range.to /\ Len(planned) = range.to - range.from + 1
    <2>1. range.from \in Nat /\ range.to \in Nat
      BY RetrievalAssumption DEF FetchInv, F!TypeOK, F!StripeAssumption, F!BlobIds
    <2>2. QED
      BY <1>2, <2>1 DEF FetchInv, PlanInv, Opened
  <1>4. next \in F!Unfetched /\ next \in 1..Len(planned)
    <2>1. PICK S : S = F!Unfetched
      OBVIOUS
    <2>2. S # {} /\ S \subseteq 1..Len(planned)
      BY <1>2, <2>1 DEF FetchInv, PartsInv, F!Unfetched
    <2>3. F!NextPlace(planned, S) \in S
      BY <1>3, <2>2, NextFound
    <2>4. QED
      BY <1>1, <2>1, <2>2, <2>3
  <1>5. PICK c : c = planned[next].chunk
    OBVIOUS
  <1>6. /\ c = range.from + next - 1 /\ c \in range.from..range.to /\ c \notin F!Elements(parts)
    <2>1. c = range.from + next - 1
      BY <1>3, <1>4, <1>5, PlanPlace
    <2>2. c \notin F!Elements(parts)
      BY <1>4, <1>5 DEF F!Unfetched
    <2>3. QED
      BY <1>3, <1>4, <2>1, <2>2
  <1>7. c \in F!BlobIds
    <2>1. planned \in Seq([chunk : F!BlobIds, provider : F!Providers, global : Nat])
      BY DEF FetchInv, F!TypeOK
    <2>2. PICK R : R = [chunk : F!BlobIds, provider : F!Providers, global : Nat]
      OBVIOUS
    <2>3. planned[next] \in R
      <3>1. planned \in Seq(R)
        BY <2>1, <2>2
      <3>2. QED
        BY <1>4, <3>1
    <2>4. QED
      BY <1>5, <2>2, <2>3
  <1>8. /\ parts \in Seq(F!BlobIds) /\ parts' \in Seq(F!BlobIds) /\ Len(parts) \in Nat
        /\ Len(parts') = Len(parts) + 1 /\ parts'[Len(parts) + 1] = c
        /\ \A j \in 1..Len(parts) : parts'[j] = parts[j]
    <2>1. parts \in Seq(F!BlobIds)
      BY DEF FetchInv, F!TypeOK
    <2>2. parts' = Append(parts, c)
      BY <1>2, <1>5
    <2>3. QED
      BY <1>7, <2>1, <2>2
  <1>9. \A j \in 1..Len(parts') : j \in 1..Len(parts) \/ j = Len(parts) + 1
    BY <1>8
  <1>10. \A j \in 1..Len(parts) : parts[j] # c
    BY <1>6 DEF F!Elements
  <1>11. F!Unfetched' = F!Unfetched \ {next}
    <2>1. F!Elements(parts') = F!Elements(parts) \cup {c}
      <3>1. \A j \in 1..Len(parts') : parts'[j] \in F!Elements(parts) \cup {c}
        BY <1>8, <1>9 DEF F!Elements
      <3>2. \A x \in F!Elements(parts) : x \in F!Elements(parts')
        <4>1. \A j \in 1..Len(parts) : j \in 1..Len(parts') /\ parts'[j] = parts[j]
          BY <1>8
        <4>2. QED
          BY <4>1 DEF F!Elements
      <3>3. c \in F!Elements(parts')
        <4>1. Len(parts) + 1 \in 1..Len(parts')
          BY <1>8
        <4>2. QED
          BY <1>8, <4>1 DEF F!Elements
      <3>4. QED
        BY <3>1, <3>2, <3>3 DEF F!Elements
    <2>2. \A j \in 1..Len(planned) : planned[j].chunk = c <=> j = next
      <3>1. \A j \in 1..Len(planned) : planned[j].chunk = range.from + j - 1
        BY <1>3, PlanPlace
      <3>2. QED
        BY <1>3, <1>4, <1>6, <3>1
    <2>3. planned' = planned
      BY <1>2
    <2>4. QED
      BY <2>1, <2>2, <2>3 DEF F!Unfetched
  <1>12. phase' \in {"fetching", "confirming"}
    BY <1>2
  <1>13. F!TypeOK'
    BY <1>2, <1>8, <1>12 DEF FetchInv, F!TypeOK
  <1>14. PlanInv'
    BY <1>2, <1>12 DEF FetchInv, PlanInv, Opened
  <1>15. SessionInv'
    BY <1>2, <1>12 DEF FetchInv, SessionInv, Opened
  <1>16. PartsInv'
    <2>1. \A j \in 1..Len(parts') : parts'[j] \in range'.from..range'.to
      BY <1>2, <1>6, <1>8, <1>9 DEF FetchInv, PartsInv
    <2>2. \A j, k \in 1..Len(parts') : parts'[j] = parts'[k] => j = k
      <3>1. \A j, k \in 1..Len(parts) : parts[j] = parts[k] => j = k
        BY DEF FetchInv, PartsInv
      <3>2. QED
        BY <1>8, <1>9, <1>10, <3>1
    <2>3. /\ phase' = "fetching" => F!Unfetched' # {}
          /\ phase' = "confirming" => F!Unfetched' = {}
      BY <1>2, <1>4, <1>11
    <2>4. txs'["open"] = "mined" /\ txs'["confirm"] = "none"
      BY <1>2 DEF FetchInv, SessionInv, ConfirmInv, Opened
    <2>5. QED
      BY <1>12, <2>1, <2>2, <2>3, <2>4 DEF PartsInv, Fetched, Opened
  <1>17. ConfirmInv'
    BY <1>2, <1>12 DEF FetchInv, ConfirmInv
  <1>18. QED
    BY <1>13, <1>14, <1>15, <1>16, <1>17 DEF FetchInv

LEMMA ConfirmReceiptKeeps == ASSUME FetchInv, F!ConfirmReceipt PROVE FetchInv'
  <1>1. /\ phase = "confirm_sent" /\ phase' = "proving"
        /\ UNCHANGED <<reason, range, planned, opens, parts, asked, auth, file, chain, txs>>
    BY DEF F!ConfirmReceipt, F!inputVars, F!chainVars
  <1>2. F!TypeOK'
    BY <1>1 DEF FetchInv, F!TypeOK
  <1>3. PlanInv'
    BY <1>1 DEF FetchInv, PlanInv, Opened
  <1>4. SessionInv'
    BY <1>1 DEF FetchInv, SessionInv, Opened
  <1>5. PartsInv'
    BY <1>1 DEF FetchInv, PartsInv, Fetched, Opened, F!Unfetched
  <1>6. F!Unasked' # {}
    <2>1. asked' = {} /\ range.from <= range.to /\ Len(planned) = range.to - range.from + 1
      BY <1>1 DEF FetchInv, ConfirmInv, PlanInv, Opened
    <2>2. range.from \in Nat /\ range.to \in Nat
      BY RetrievalAssumption DEF FetchInv, F!TypeOK, F!StripeAssumption, F!BlobIds
    <2>3. 1 \in 1..Len(planned')
      BY <1>1, <2>1, <2>2
    <2>4. 1 \in F!Unasked'
      BY <2>1, <2>3 DEF F!Unasked
    <2>5. QED
      BY <2>4
  <1>7. ConfirmInv'
    BY <1>1, <1>6 DEF FetchInv, ConfirmInv
  <1>8. QED
    BY <1>2, <1>3, <1>4, <1>5, <1>7 DEF FetchInv

LEMMA RequestProofKeeps == ASSUME FetchInv, F!RequestProof PROVE FetchInv'
  <1>1. PICK p : p = F!NextGroup(planned, F!Unasked)
    OBVIOUS
  <1>2. /\ phase = "proving" /\ asked' = asked \cup {p}
        /\ UNCHANGED <<reason, range, planned, opens, parts, auth, chain, txs>>
    BY <1>1 DEF F!RequestProof, F!inputVars, F!chainVars
  <1>3. \/ F!Unasked \subseteq F!Group(planned, p) /\ phase' = "done" /\ file' = parts
        \/ ~(F!Unasked \subseteq F!Group(planned, p)) /\ phase' = phase /\ file' = file
    BY <1>1 DEF F!RequestProof
  <1>4. p \in F!Providers
    <2>1. PICK S : S = F!Unasked
      OBVIOUS
    <2>2. S # {} /\ S \subseteq 1..Len(planned)
      BY <1>2, <2>1 DEF FetchInv, ConfirmInv, F!Unasked
    <2>3. PlanOf(planned, range.from)
      BY DEF FetchInv, PlanInv
    <2>4. PICK j \in S : F!NextGroup(planned, S) = planned[j].provider
      BY <2>2, <2>3, NextFound
    <2>5. planned[j].provider \in F!Providers
      BY <2>2, <2>3, PlanPlace
    <2>6. QED
      BY <1>1, <2>1, <2>4, <2>5
  <1>5. phase' \in {"proving", "done"}
    BY <1>2, <1>3
  <1>6. F!TypeOK'
    BY <1>2, <1>3, <1>4, <1>5 DEF FetchInv, F!TypeOK, F!Over
  <1>7. PlanInv'
    BY <1>2, <1>5 DEF FetchInv, PlanInv, Opened
  <1>8. SessionInv'
    BY <1>2, <1>5 DEF FetchInv, SessionInv, Opened
  <1>9. PartsInv'
    BY <1>2, <1>5 DEF FetchInv, PartsInv, Fetched, Opened, F!Unfetched
  <1>10. phase' = "proving" => F!Unasked' # {}
    <2>1. SUFFICES ASSUME phase' = "proving" PROVE F!Unasked' # {}
      OBVIOUS
    <2>2. PICK j \in F!Unasked : j \notin F!Group(planned, p)
      BY <1>2, <1>3, <2>1
    <2>3. j \in F!Unasked'
      BY <1>2, <2>2 DEF F!Unasked, F!Group
    <2>4. QED
      BY <2>3
  <1>11. ConfirmInv'
    BY <1>2, <1>5, <1>10 DEF FetchInv, ConfirmInv
  <1>12. QED
    BY <1>6, <1>7, <1>8, <1>9, <1>11 DEF FetchInv

-----------------------------------------------------------------------------
(* What the chain does *)

LEMMA ChainType == ASSUME FetchInv PROVE chain \in [F!Providers -> SessionType]
  BY DEF FetchInv, F!TypeOK, SessionType

LEMMA OpenedType ==
    ASSUME NEW r \in [provider : F!Providers, first : Nat, count : Nat, expires : {0}],
           NEW s, s = F!Opened(r)
    PROVE  /\ s \in SessionType
           /\ s.st = "open" /\ s.first = r.first /\ s.count = r.count
  <1>1. s = [st |-> "open", proved |-> FALSE, first |-> r.first, count |-> r.count,
             expires |-> r.expires]
    BY DEF F!Opened
  <1>2. PICK t : t = FALSE
    OBVIOUS
  <1>3. t \in BOOLEAN
    BY <1>2, Zenon
  <1>4. s = [st |-> "open", proved |-> t, first |-> r.first, count |-> r.count,
             expires |-> r.expires]
    BY <1>1, <1>2, Zenon
  <1>5. QED
    BY <1>3, <1>4 DEF SessionType

\* A transaction that opens sessions opens all of them, as asked.
LEMMA ExecuteOpenKeeps ==
    ASSUME FetchInv, NEW funded \in BOOLEAN, F!ExecuteOpen(funded)
    PROVE  FetchInv'
  <1>1. PICK ok \in BOOLEAN : ok <=> (funded /\ \A r \in opens : F!Openable(r))
    OBVIOUS
  <1>2. /\ txs["open"] = "pending"
        /\ txs' = [txs EXCEPT !["open"] = IF ok THEN "mined" ELSE "reverted"]
        /\ UNCHANGED <<phase, reason, range, planned, parts, asked, auth, file, opens>>
    BY <1>1 DEF F!ExecuteOpen, F!pageVars
  <1>3. chain' = [p \in F!Providers |->
                     IF ok /\ \E r \in opens : r.provider = p
                     THEN F!Opened(CHOOSE r \in opens : r.provider = p) ELSE chain[p]]
    BY <1>1 DEF F!ExecuteOpen
  <1>4. /\ opens = F!OpenRequests(planned) /\ PlanOf(planned, range.from)
        /\ parts = <<>> /\ chain = [p \in F!Providers |-> F!NoSession]
        /\ txs["confirm"] = "none"
    BY <1>2 DEF FetchInv, PlanInv, SessionInv, PartsInv
  <1>5. \A r \in opens : /\ r \in [provider : F!Providers, first : Nat, count : Nat, expires : {0}]
                         /\ r = F!OpenRequest(planned, r.provider)
    BY <1>4, RequestOf
  <1>6. ASSUME NEW r \in opens PROVE (CHOOSE q \in opens : q.provider = r.provider) = r
    <2>1. PICK q : q = CHOOSE x \in opens : x.provider = r.provider
      OBVIOUS
    <2>2. q \in opens /\ q.provider = r.provider
      BY <2>1
    <2>3. q = r
      BY <1>5, <2>2
    <2>4. QED
      BY <2>1, <2>3
  <1>7. ASSUME ok, NEW r \in opens
        PROVE  /\ chain'[r.provider] = F!Opened(r) /\ chain'[r.provider] \in SessionType
               /\ chain'[r.provider].st = "open"
               /\ chain'[r.provider].first = r.first /\ chain'[r.provider].count = r.count
    <2>1. r \in [provider : F!Providers, first : Nat, count : Nat, expires : {0}]
      BY <1>5
    <2>2. PICK p \in F!Providers : p = r.provider
      BY <2>1
    <2>3. chain'[p] = F!Opened(r)
      BY <1>3, <1>6, <1>7, <2>2
    <2>4. QED
      BY <2>1, <2>2, <2>3, OpenedType
  <1>8. ASSUME NEW p \in F!Providers, ~(ok /\ \E r \in opens : r.provider = p)
        PROVE  chain'[p] = F!NoSession /\ chain'[p] \in SessionType /\ chain'[p].st = "none"
    <2>1. chain'[p] = chain[p] /\ chain[p] = F!NoSession
      BY <1>3, <1>4, <1>8
    <2>2. chain[p] \in SessionType
      BY ChainType
    <2>3. QED
      BY <2>1, <2>2 DEF F!NoSession
  <1>9. ASSUME NEW p \in F!Providers
        PROVE  chain'[p] \in SessionType /\ chain'[p].st \in {"none", "open"}
    BY <1>7, <1>8
  <1>10. chain' \in [F!Providers -> SessionType]
    BY <1>3, <1>9
  <1>11. txs \in [{"open", "confirm"} -> {"none", "pending", "mined", "reverted", "dropped"}]
    BY DEF FetchInv, F!TypeOK
  <1>12. /\ txs' \in [{"open", "confirm"} -> {"none", "pending", "mined", "reverted", "dropped"}]
         /\ txs'["open"] \in {"mined", "reverted"} /\ (txs'["open"] = "mined" <=> ok)
         /\ txs'["confirm"] = txs["confirm"]
    BY <1>2, <1>11
  <1>13. F!TypeOK'
    BY <1>2, <1>10, <1>12 DEF FetchInv, F!TypeOK, SessionType
  <1>14. PlanInv'
    BY <1>2, <1>12 DEF FetchInv, PlanInv, Opened
  <1>15. SessionInv'
    <2>1. phase \notin Opened /\ phase \notin {"idle", "planning", "opening"}
      BY <1>2 DEF FetchInv, SessionInv
    <2>2. ~ok => chain' = [p \in F!Providers |-> F!NoSession]
      BY <1>3, <1>4
    <2>3. QED
      BY <1>2, <1>4, <1>7, <1>12, <2>1, <2>2 DEF SessionInv
  <1>16. PartsInv'
    BY <1>2, <1>4, <1>12 DEF FetchInv, PartsInv, SessionInv, Fetched, Opened
  <1>17. ConfirmInv'
    BY <1>2, <1>9, <1>12 DEF FetchInv, ConfirmInv, F!Unasked
  <1>18. QED
    BY <1>13, <1>14, <1>15, <1>16, <1>17 DEF FetchInv

\* A session that is answered keeps its range.
LEMMA CompletedType ==
    ASSUME NEW s \in SessionType, NEW c, c = F!Completed(s)
    PROVE  /\ c \in SessionType /\ c.st \in {s.st, "completed"}
           /\ c.st # s.st => s.st = "confirmed"
           /\ c.first = s.first /\ c.count = s.count
  <1>1. c = s \/ (s.st = "confirmed" /\ c = [s EXCEPT !.st = "completed"])
    BY DEF F!Completed
  <1>2. CASE c = s
    BY <1>2
  <1>3. CASE s.st = "confirmed" /\ c = [s EXCEPT !.st = "completed"]
    BY <1>3 DEF SessionType
  <1>4. QED
    BY <1>1, <1>2, <1>3

\* A step of the chain that answers sessions already open.
LEMMA AnswerStep ==
    ASSUME FetchInv, UNCHANGED <<phase, reason, range, planned, parts, asked, auth, file, opens>>,
           txs' \in [{"open", "confirm"} -> {"none", "pending", "mined", "reverted", "dropped"}],
           txs'["open"] = txs["open"],
           txs["confirm"] = "none" => txs'["confirm"] = "none",
           chain' \in [F!Providers -> SessionType],
           \A p \in F!Providers :
              /\ chain[p].st = "none" => chain'[p] = chain[p]
              /\ chain[p].st # "none" => chain'[p].st # "none"
              /\ chain'[p].first = chain[p].first /\ chain'[p].count = chain[p].count
              /\ chain'[p].st \in {"confirmed", "completed"} => txs'["confirm"] = "mined"
    PROVE  FetchInv'
  <1>1. F!TypeOK'
    BY DEF FetchInv, F!TypeOK, SessionType
  <1>2. PlanInv'
    BY DEF FetchInv, PlanInv, Opened
  <1>3. SessionInv'
    <2>1. txs'["open"] # "mined" => parts' = <<>> /\ chain' = [p \in F!Providers |-> F!NoSession]
      BY DEF FetchInv, SessionInv, F!NoSession
    <2>2. ASSUME txs'["open"] = "mined", NEW r \in opens'
          PROVE  /\ chain'[r.provider].st # "none"
                 /\ chain'[r.provider].first = r.first /\ chain'[r.provider].count = r.count
      <3>1. r.provider \in F!Providers
        BY <2>2 DEF FetchInv, F!TypeOK
      <3>2. QED
        BY <2>2, <3>1 DEF FetchInv, SessionInv
    <2>3. QED
      BY <2>1, <2>2 DEF FetchInv, SessionInv, Opened
  <1>4. PartsInv'
    BY DEF FetchInv, PartsInv, Fetched, Opened, F!Unfetched
  <1>5. ConfirmInv'
    BY DEF FetchInv, ConfirmInv, F!Unasked
  <1>6. QED
    BY <1>1, <1>2, <1>3, <1>4, <1>5 DEF FetchInv

LEMMA ExecuteConfirmKeeps == ASSUME FetchInv, F!ExecuteConfirm PROVE FetchInv'
  <1>1. /\ txs["confirm"] = "pending" /\ txs' = [txs EXCEPT !["confirm"] = "mined"]
        /\ UNCHANGED <<phase, reason, range, planned, parts, asked, auth, file, opens>>
    BY DEF F!ExecuteConfirm, F!pageVars
  <1>2. chain' = [p \in F!Providers |->
                     IF chain[p].st = "open" THEN F!Completed([chain[p] EXCEPT !.st = "confirmed"])
                     ELSE chain[p]]
    BY DEF F!ExecuteConfirm
  <1>3. /\ txs' \in [{"open", "confirm"} -> {"none", "pending", "mined", "reverted", "dropped"}]
        /\ txs'["open"] = txs["open"] /\ txs'["confirm"] = "mined"
    BY <1>1 DEF FetchInv, F!TypeOK
  <1>4. ASSUME NEW p \in F!Providers
        PROVE  /\ chain'[p] \in SessionType
               /\ chain[p].st = "none" => chain'[p] = chain[p]
               /\ chain[p].st # "none" => chain'[p].st # "none"
               /\ chain'[p].first = chain[p].first /\ chain'[p].count = chain[p].count
    <2>1. PICK s \in SessionType : s = chain[p]
      BY ChainType
    <2>2. CASE s.st = "open"
      <3>1. PICK t : t = [s EXCEPT !.st = "confirmed"]
        OBVIOUS
      <3>2. t \in SessionType /\ t.st = "confirmed" /\ t.first = s.first /\ t.count = s.count
        BY <3>1 DEF SessionType
      <3>3. PICK c : c = F!Completed(t)
        OBVIOUS
      <3>4. /\ c \in SessionType /\ c.st \in {"confirmed", "completed"}
            /\ c.first = s.first /\ c.count = s.count
        BY <3>2, <3>3, CompletedType
      <3>5. chain'[p] = c
        BY <1>2, <2>1, <2>2, <3>1, <3>3
      <3>6. QED
        BY <2>1, <2>2, <3>4, <3>5
    <2>3. CASE s.st # "open"
      BY <1>2, <2>1, <2>3
    <2>4. QED
      BY <2>2, <2>3
  <1>5. chain' \in [F!Providers -> SessionType]
    BY <1>2, <1>4
  <1>6. QED
    BY <1>1, <1>3, <1>4, <1>5, AnswerStep

LEMMA SubmitProofKeeps ==
    ASSUME FetchInv, NEW p \in F!Providers, F!SubmitProof(p)
    PROVE  FetchInv'
  <1>1. /\ chain[p].st \in {"open", "confirmed"} /\ txs' = txs
        /\ UNCHANGED <<phase, reason, range, planned, parts, asked, auth, file, opens>>
    BY DEF F!SubmitProof, F!pageVars
  <1>2. PICK s \in SessionType : s = chain[p]
    BY ChainType
  <1>3. PICK t : t = [s EXCEPT !.proved = TRUE]
    OBVIOUS
  <1>4. PICK c : c = F!Completed(t)
    OBVIOUS
  <1>5. chain' = [chain EXCEPT ![p] = c]
    BY <1>2, <1>3, <1>4, Zenon DEF F!SubmitProof
  <1>6. t \in SessionType /\ t.st = s.st /\ t.first = s.first /\ t.count = s.count
    <2>1. PICK yes \in BOOLEAN : yes = TRUE
      OBVIOUS
    <2>2. t = [s EXCEPT !.proved = yes]
      BY <1>3, <2>1, Zenon
    <2>3. QED
      BY <2>2 DEF SessionType
  <1>7. /\ c \in SessionType /\ c.st \in {t.st, "completed"}
        /\ c.st # t.st => t.st = "confirmed"
        /\ c.first = t.first /\ c.count = t.count
    BY <1>4, <1>6, CompletedType
  <1>8. chain \in [F!Providers -> SessionType]
    BY ChainType
  <1>9. /\ chain' \in [F!Providers -> SessionType] /\ chain'[p] = c
        /\ \A q \in F!Providers \ {p} : chain'[q] = chain[q]
    <2>1. PICK T : T = SessionType
      OBVIOUS
    <2>2. QED
      BY <1>5, <1>7, <1>8, <2>1
  <1>10. \A q \in F!Providers : chain[q].st \in {"confirmed", "completed"} => txs["confirm"] = "mined"
    BY DEF FetchInv, ConfirmInv
  <1>11. ASSUME NEW q \in F!Providers
         PROVE  /\ chain[q].st = "none" => chain'[q] = chain[q]
                /\ chain[q].st # "none" => chain'[q].st # "none"
                /\ chain'[q].first = chain[q].first /\ chain'[q].count = chain[q].count
                /\ chain'[q].st \in {"confirmed", "completed"} => txs["confirm"] = "mined"
    <2>1. CASE q = p
      BY <1>1, <1>2, <1>6, <1>7, <1>9, <1>10, <2>1
    <2>2. CASE q # p
      BY <1>9, <1>10, <2>2
    <2>3. QED
      BY <2>1, <2>2
  <1>12. txs \in [{"open", "confirm"} -> {"none", "pending", "mined", "reverted", "dropped"}]
    BY DEF FetchInv, F!TypeOK
  <1>13. QED
    BY <1>1, <1>9, <1>11, <1>12, AnswerStep

LEMMA DropTxKeeps ==
    ASSUME FetchInv, NEW t \in {"open", "confirm"}, F!DropTx(t)
    PROVE  FetchInv'
  <1>1. /\ txs[t] = "pending" /\ txs' = [txs EXCEPT ![t] = "dropped"] /\ chain' = chain
        /\ UNCHANGED <<phase, reason, range, planned, parts, asked, auth, file, opens>>
    BY DEF F!DropTx, F!pageVars
  <1>2. /\ txs \in [{"open", "confirm"} -> {"none", "pending", "mined", "reverted", "dropped"}]
        /\ txs' \in [{"open", "confirm"} -> {"none", "pending", "mined", "reverted", "dropped"}]
        /\ txs'[t] = "dropped" /\ \A u \in {"open", "confirm"} \ {t} : txs'[u] = txs[u]
    BY <1>1 DEF FetchInv, F!TypeOK
  <1>3. /\ txs'["open"] = "none" <=> txs["open"] = "none"
        /\ txs'["open"] = "mined" <=> txs["open"] = "mined"
        /\ txs'["confirm"] = "none" <=> txs["confirm"] = "none"
        /\ txs'["confirm"] = "mined" <=> txs["confirm"] = "mined"
    BY <1>1, <1>2
  <1>4. F!TypeOK'
    BY <1>1, <1>2 DEF FetchInv, F!TypeOK
  <1>5. PlanInv'
    BY <1>1, <1>3 DEF FetchInv, PlanInv, Opened
  <1>6. SessionInv'
    BY <1>1, <1>3 DEF FetchInv, SessionInv
  <1>7. PartsInv'
    BY <1>1, <1>3 DEF FetchInv, PartsInv, F!Unfetched
  <1>8. ConfirmInv'
    BY <1>1, <1>3 DEF FetchInv, ConfirmInv, F!Unasked
  <1>9. QED
    BY <1>4, <1>5, <1>6, <1>7, <1>8 DEF FetchInv

-----------------------------------------------------------------------------
(* What is paid *)

LEMMA FetchStep == ASSUME FetchInv, [F!Next]_F!vars PROVE FetchInv'
  <1>1. CASE UNCHANGED F!vars
    <2>1. UNCHANGED <<phase, reason, range, planned, parts, asked, auth, file, opens, chain, txs>>
      BY <1>1 DEF F!vars
    <2>2. F!TypeOK'
      BY <2>1 DEF FetchInv, F!TypeOK
    <2>3. PlanInv' /\ SessionInv'
      BY <2>1 DEF FetchInv, PlanInv, SessionInv
    <2>4. PartsInv' /\ ConfirmInv'
      BY <2>1 DEF FetchInv, PartsInv, ConfirmInv, F!Unfetched, F!Unasked
    <2>5. QED
      BY <2>2, <2>3, <2>4 DEF FetchInv
  <1>2. CASE F!Page
    <2>1. CASE \E a, b \in F!BlobIds : F!Begin(a, b)
      BY <2>1, BeginKeeps
    <2>2. CASE F!PlanChunk
      BY <2>2, PlanChunkKeeps
    <2>3. CASE F!SendOpen
      BY <2>3, SendOpenKeeps
    <2>4. CASE F!SendConfirm
      BY <2>4, SendConfirmKeeps
    <2>5. CASE F!OpenReceipt
      BY <2>5, OpenReceiptKeeps
    <2>6. CASE F!FetchChunk
      BY <2>6, FetchChunkKeeps
    <2>7. CASE F!ConfirmReceipt
      BY <2>7, ConfirmReceiptKeeps
    <2>8. CASE F!RequestProof
      BY <2>8, RequestProofKeeps
    <2>9. CASE \/ F!BeginInvalid \/ F!PlanFails \/ F!RefuseTx \/ F!OpenReverted \/ F!ReceiptTimeout
               \/ F!RequestProofFails \/ F!CloseTab \/ \E text \in F!Texts : F!FetchFails(text)
      BY <2>9, Ends
    <2>10. QED
      BY <1>2, <2>1, <2>2, <2>3, <2>4, <2>5, <2>6, <2>7, <2>8, <2>9, Zenon DEF F!Page
  <1>3. CASE F!Chain
    <2>1. CASE \E funded \in BOOLEAN : F!ExecuteOpen(funded)
      BY <2>1, ExecuteOpenKeeps
    <2>2. CASE F!ExecuteConfirm
      BY <2>2, ExecuteConfirmKeeps
    <2>3. CASE \E p \in F!Providers : F!SubmitProof(p)
      BY <2>3, SubmitProofKeeps
    <2>4. CASE \E t \in {"open", "confirm"} : F!DropTx(t)
      BY <2>4, DropTxKeeps
    <2>5. QED
      BY <1>3, <2>1, <2>2, <2>3, <2>4, Zenon DEF F!Chain
  <1>4. QED
    BY <1>1, <1>2, <1>3 DEF F!Next

\* When no place is left, the parts are the range.
LEMMA PartsAreRange ==
    ASSUME FetchInv, F!Unfetched = {}, txs["open"] = "mined"
    PROVE  /\ F!Elements(parts) = range.from..range.to
           /\ Len(parts) = range.to - range.from + 1
  <1>1. /\ PlanOf(planned, range.from) /\ range.from \in Nat /\ range.to \in Nat
        /\ range.from <= range.to /\ Len(planned) = range.to - range.from + 1
    <2>1. range.from \in Nat /\ range.to \in Nat
      BY RetrievalAssumption DEF FetchInv, F!TypeOK, F!StripeAssumption, F!BlobIds
    <2>2. QED
      BY <2>1 DEF FetchInv, PlanInv
  <1>2. ASSUME NEW i \in range.from..range.to PROVE i \in F!Elements(parts)
    <2>1. i - range.from + 1 \in 1..Len(planned)
      BY <1>1
    <2>2. planned[i - range.from + 1].chunk = range.from + (i - range.from + 1) - 1
      BY <1>1, <2>1, PlanPlace
    <2>3. planned[i - range.from + 1].chunk = i
      BY <1>1, <2>2
    <2>4. QED
      BY <2>1, <2>3 DEF F!Unfetched
  <1>3. F!Elements(parts) = range.from..range.to
    BY <1>2 DEF FetchInv, PartsInv, F!Elements
  <1>4. Len(parts) \in Nat
    BY DEF FetchInv, F!TypeOK
  <1>5. PICK f : f = [j \in 1..Len(parts) |-> parts[j]]
    OBVIOUS
  <1>6. f \in Bijection(1..Len(parts), range.from..range.to)
    <2>1. f \in [1..Len(parts) -> range.from..range.to]
      BY <1>5 DEF FetchInv, PartsInv
    <2>2. \A j, k \in 1..Len(parts) : f[j] = f[k] => j = k
      BY <1>5 DEF FetchInv, PartsInv
    <2>3. \A i \in range.from..range.to : \E j \in 1..Len(parts) : f[j] = i
      BY <1>3, <1>5 DEF F!Elements
    <2>4. QED
      BY <2>1, <2>2, <2>3 DEF Bijection, Injection, Surjection, IsInjective
  <1>7. IsFiniteSet(1..Len(parts)) /\ Cardinality(1..Len(parts)) = Len(parts)
    <2>1. PICK n \in Nat : n = Len(parts)
      BY <1>4
    <2>2. /\ IsFiniteSet(1..n)
          /\ Cardinality(1..n) = IF 1 > n THEN 0 ELSE n - 1 + 1
      BY FS_Interval
    <2>3. Cardinality(1..n) = n
      BY <2>2
    <2>4. QED
      BY <2>1, <2>2, <2>3, Zenon
  <1>8. Cardinality(range.from..range.to) = range.to - range.from + 1
    <2>1. PICK a \in Nat, b \in Nat : a = range.from /\ b = range.to /\ a <= b
      BY <1>1
    <2>2. Cardinality(a..b) = IF a > b THEN 0 ELSE b - a + 1
      BY FS_Interval
    <2>3. QED
      BY <2>1, <2>2
  <1>9. Cardinality(1..Len(parts)) = Cardinality(range.from..range.to)
    BY <1>6, <1>7, FS_Bijection DEF ExistsBijection
  <1>10. QED
    BY <1>3, <1>7, <1>8, <1>9

LEMMA FetchImplies == ASSUME FetchInv PROVE OnlyDeliveredIsPaid
  <1>1. F!FetchedUnderSession
    <2> SUFFICES ASSUME NEW i \in F!Elements(parts), NEW p, p = F!PlanProvider(i),
                        NEW g, g = F!Plan(i).global
                 PROVE  chain[p].st # "none" /\ chain[p].first <= g /\ g < chain[p].first + chain[p].count
      BY DEF F!FetchedUnderSession
    <2>1. parts # <<>>
      BY DEF F!Elements
    <2>2. txs["open"] = "mined"
      BY <2>1 DEF FetchInv, SessionInv
    <2>3. /\ PlanOf(planned, range.from) /\ range.from \in Nat /\ range.to \in Nat
          /\ range.from <= range.to /\ Len(planned) = range.to - range.from + 1
          /\ opens = F!OpenRequests(planned)
      <3>1. range.from \in Nat /\ range.to \in Nat
        BY RetrievalAssumption DEF FetchInv, F!TypeOK, F!StripeAssumption, F!BlobIds
      <3>2. QED
        BY <2>2, <3>1 DEF FetchInv, PlanInv
    <2>4. i \in range.from..range.to
      BY DEF FetchInv, PartsInv, F!Elements
    <2>5. PICK j \in 1..Len(planned) : range.from + j - 1 = i
      <3>1. i - range.from + 1 \in 1..Len(planned) /\ range.from + (i - range.from + 1) - 1 = i
        BY <2>3, <2>4
      <3>2. QED
        BY <3>1
    <2>6. planned[j].provider = p /\ planned[j].global = g
      BY <2>3, <2>5, PlanPlace
    <2>7. PICK r : r = F!OpenRequest(planned, p)
      OBVIOUS
    <2>8. /\ r = [provider |-> p, first |-> r.first, count |-> r.count, expires |-> 0]
          /\ r \in opens /\ r.first <= g /\ g < r.first + r.count
      BY <2>3, <2>6, <2>7, RequestCovers
    <2>9. r.provider = p
      BY <2>8
    <2>10. chain[p].st # "none" /\ chain[p].first = r.first /\ chain[p].count = r.count
      BY <2>2, <2>8, <2>9 DEF FetchInv, SessionInv
    <2>11. QED
      BY <2>8, <2>10
  <1>2. F!ConfirmedIsComplete
    BY PartsAreRange DEF FetchInv, PartsInv, F!ConfirmedIsComplete
  <1>3. F!PaidIsDelivered
    <2> SUFFICES ASSUME NEW p \in F!Providers, chain[p].st = "completed"
                 PROVE  /\ txs["confirm"] = "mined"
                        /\ \A i \in range.from..range.to : i \in F!Elements(parts)
      BY DEF F!PaidIsDelivered
    <2>1. txs["confirm"] = "mined"
      BY DEF FetchInv, ConfirmInv
    <2>2. F!Unfetched = {} /\ txs["open"] = "mined"
      BY <2>1 DEF FetchInv, PartsInv
    <2>3. QED
      BY <2>1, <2>2, PartsAreRange
  <1>4. QED
    BY <1>1, <1>2, <1>3 DEF FetchInv, OnlyDeliveredIsPaid

\* Of a download, over any stripe, any range and any number of providers and
\* however it ends: bytes come under a session that covers them, the owner
\* confirms only what the page holds, and no session is paid for anything else.
THEOREM PaidWasDelivered == F!Spec => []OnlyDeliveredIsPaid
  <1>1. F!Init => FetchInv
    BY FetchInit
  <1>2. FetchInv /\ [F!Next]_F!vars => FetchInv'
    BY FetchStep
  <1>3. FetchInv => OnlyDeliveredIsPaid
    BY FetchImplies
  <1>4. QED
    BY <1>1, <1>2, <1>3, PTL DEF F!Spec
=============================================================================
