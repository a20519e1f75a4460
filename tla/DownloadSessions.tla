-------------------------- MODULE DownloadSessions --------------------------
(***************************************************************************)
(* The sessions a provider keeps off chain: a download session gathers the *)
(* chunks of one file for one bundled receipt, a fetch session stands for  *)
(* one served range and is spent on one receipt.  Both live in the session *)
(* database, whose transactions are serial; download sessions are also     *)
(* cached in memory, and a load that misses the cache reads the database   *)
(* and fills the cache in two steps.  Requests run concurrently; a restart *)
(* loses them and the cache and keeps the database.                        *)
(* A nonce stands for the request it was signed in, with the time at which *)
(* that request expires; the skew allowed to the client's clock is time    *)
(* after that in which it is still accepted.                               *)
(* A session is named after the request that opened it.                    *)
(***************************************************************************)
EXTENDS Naturals, Sequences, SequencesExt, FiniteSets

CONSTANTS MaxRequests,  \* bound: requests to the provider
          Nonces,       \* nonces of signed retrieval requests
          Chunks,       \* chunks of the file
          MaxCrashes    \* bound: restarts

\* What the constants are taken to be.
DownloadSessionsAssumption ==
    /\ MaxRequests \in Nat
    /\ MaxCrashes \in Nat

VARIABLES past,      \* nonces whose req_expires_at has passed
          replays,   \* requestReplaysBucket: nonces that were used
          bucket,    \* downloadSessionsBucket: recorded chunks, by session
          cache,     \* downloadSessionCache
          single,    \* fetchSessionsBucket: fetch sessions not spent yet
          expired,   \* sessions whose expires_at has passed
          requests,  \* the requests, in order of arrival
          got,       \* chunks the client was given, by download session
          opened,    \* nonce of each session that was opened
          claims,    \* how often the chain was sent a fetch session's receipt
          crashes    \* restarts so far

storeVars == <<replays, bucket, cache, single>>
vars == <<past, storeVars, expired, requests, got, opened, claims, crashes>>

Ids == 1 .. MaxRequests
Absent == [present |-> FALSE, chunks |-> << >>]
Record(s) == [present |-> TRUE, chunks |-> s]

(* A request: what it is for, where it is, and what it has read. *)
Arrival(kind, arg, session, list) ==
    [kind |-> kind, step |-> "begun", arg |-> arg, session |-> session,
     list |-> list, read |-> Absent]

Current(r, kind, step) ==
    /\ r \in DOMAIN requests
    /\ requests[r].kind = kind
    /\ requests[r].step = step

Loading(r) == r \in DOMAIN requests /\ requests[r].kind \in {"fetch", "receipt"}
ToStep(r, step) == requests' = [requests EXCEPT ![r].step = step]

Init ==
    /\ past = {}
    /\ replays = {}
    /\ bucket = [s \in Ids |-> Absent]
    /\ cache = [s \in Ids |-> Absent]
    /\ single = {}
    /\ expired = {}
    /\ requests = << >>
    /\ got = [s \in Ids |-> {}]
    /\ opened = [s \in {} |-> {}]
    /\ claims = [s \in Ids |-> 0]
    /\ crashes = 0

(* A request arrives.  The client signs a nonce for a session or a range,  *)
(* asks for chunks of a session it was given, and sends a receipt for the  *)
(* chunks it has; it may send any of them twice.                           *)
Arrive ==
    /\ Len(requests) < MaxRequests
    /\ \E request \in
            {Arrival(kind, n, 0, << >>) : kind \in {"open", "range"}, n \in Nonces}
            \cup {Arrival("fetch", c, s, << >>) :
                    c \in Chunks, s \in {s \in DOMAIN opened : s \notin single}}
            \cup {Arrival("receipt", "all", s, SetToSeq(got[s])) :
                    s \in {s \in DOMAIN opened : got[s] # {}}}
            \cup {Arrival("claim", "all", 0, list) :
                    list \in {<<s>> : s \in DOMAIN opened}
                             \cup {<<s, t>> : s, t \in DOMAIN opened}} :
         /\ request.kind = "claim" =>
              \A i \in DOMAIN request.list : requests[request.list[i]].kind = "range"
         /\ request.kind = "fetch" => requests[request.session].kind = "open"
         /\ requests' = Append(requests, request)
    /\ UNCHANGED <<past, storeVars, expired, got, opened, claims, crashes>>

-----------------------------------------------------------------------------

(* Opening a session. *)

(* The nonce is looked up and not recorded. *)
CheckReplayOnly(r, kind) ==
    /\ Current(r, kind, "begun")
    /\ \/ /\ requests[r].arg \notin replays \ past
          /\ ToStep(r, "fresh")
       \/ /\ requests[r].arg \in replays \ past
          /\ ToStep(r, "over")
    /\ UNCHANGED <<past, storeVars, expired, got, opened, claims, crashes>>

(* checkAndStoreRequestReplay, one transaction; a nonce that was used is   *)
(* refused until it expires.                                               *)
CheckReplay(r, kind) ==
    /\ Current(r, kind, "begun")
    /\ \/ /\ requests[r].arg \notin replays \ past
          /\ replays' = replays \cup {requests[r].arg}
          /\ ToStep(r, "fresh")
       \/ /\ requests[r].arg \in replays \ past
          /\ ToStep(r, "over")
          /\ UNCHANGED replays
    /\ UNCHANGED <<past, bucket, cache, single, expired, got, opened, claims, crashes>>

Opened(r) == opened' = [s \in DOMAIN opened \cup {r} |->
                          IF s = r THEN {requests[r].arg} ELSE opened[s]]

(* The session has its time from when it is opened. *)
OpenSessionAnew(r) ==
    /\ Current(r, "open", "fresh")
    /\ bucket' = [bucket EXCEPT ![r] = Record(<< >>)]
    /\ cache' = [cache EXCEPT ![r] = Record(<< >>)]
    /\ Opened(r)
    /\ ToStep(r, "over")
    /\ UNCHANGED <<past, replays, single, expired, got, claims, crashes>>

(* storeDownloadSession: to the cache and to the database, then the answer. *)
(* The session expires when the signed request does.                       *)
OpenSession(r) ==
    /\ Current(r, "open", "fresh")
    /\ bucket' = [bucket EXCEPT ![r] = Record(<< >>)]
    /\ cache' = [cache EXCEPT ![r] = Record(<< >>)]
    /\ expired' = expired \cup {s \in {r} : requests[r].arg \in past}
    /\ Opened(r)
    /\ ToStep(r, "over")
    /\ UNCHANGED <<past, replays, single, got, claims, crashes>>

(* storeFetchSession, and the range is served. *)
ServeRange(r) ==
    /\ Current(r, "range", "fresh")
    /\ single' = single \cup {r}
    /\ Opened(r)
    /\ ToStep(r, "over")
    /\ UNCHANGED <<past, replays, bucket, cache, expired, got, claims, crashes>>

-----------------------------------------------------------------------------

(* loadDownloadSession, the first thing a fetch or a receipt does. *)

Session(r) == requests[r].session
Expired(r) == Session(r) \in expired

(* The cache has it. *)
LoadCached(r) ==
    /\ Loading(r)
    /\ requests[r].step = "begun"
    /\ cache[Session(r)].present
    /\ ~Expired(r)
    /\ requests' = [requests EXCEPT ![r].step = "loaded",
                                    ![r].read = cache[Session(r)]]
    /\ UNCHANGED <<past, storeVars, expired, got, opened, claims, crashes>>

(* The cache does not have it: the database is read, in a View ... *)
ReadBucket(r) ==
    /\ Loading(r)
    /\ requests[r].step = "begun"
    /\ ~cache[Session(r)].present
    /\ ~Expired(r)
    /\ requests' = [requests EXCEPT
         ![r].step = IF bucket[Session(r)].present THEN "read" ELSE "over",
         ![r].read = bucket[Session(r)]]
    /\ UNCHANGED <<past, storeVars, expired, got, opened, claims, crashes>>

(* ... and what was read is put in the cache afterwards. *)
FillCache(r) ==
    /\ Loading(r)
    /\ requests[r].step = "read"
    /\ cache' = [cache EXCEPT ![Session(r)] = requests[r].read]
    /\ ToStep(r, "loaded")
    /\ UNCHANGED <<past, replays, bucket, single, expired, got, opened, claims, crashes>>

(* An expired session is deleted where it is found, and refused. *)
LoadExpired(r) ==
    /\ Loading(r)
    /\ requests[r].step = "begun"
    /\ Expired(r)
    /\ cache' = [cache EXCEPT ![Session(r)] = Absent]
    /\ bucket' = [bucket EXCEPT ![Session(r)] = Absent]
    /\ ToStep(r, "over")
    /\ UNCHANGED <<past, replays, single, expired, got, opened, claims, crashes>>

-----------------------------------------------------------------------------

(* A chunk of a download session. *)

(* The chunk goes to the database and the cache keeps what it had. *)
AppendChunkToBucket(r) ==
    /\ Current(r, "fetch", "loaded")
    /\ bucket[Session(r)].present
    /\ ~Expired(r)
    /\ LET chunks == Append(bucket[Session(r)].chunks, requests[r].arg) IN
         bucket' = [bucket EXCEPT ![Session(r)] = Record(chunks)]
    /\ ToStep(r, "recorded")
    /\ UNCHANGED <<past, replays, cache, single, expired, got, opened, claims, crashes>>

(* The chunk goes to the cache only. *)
AppendChunkToCache(r) ==
    /\ Current(r, "fetch", "loaded")
    /\ bucket[Session(r)].present
    /\ ~Expired(r)
    /\ LET chunks == Append(requests[r].read.chunks, requests[r].arg) IN
         cache' = [cache EXCEPT ![Session(r)] = Record(chunks)]
    /\ ToStep(r, "recorded")
    /\ UNCHANGED <<past, replays, bucket, single, expired, got, opened, claims, crashes>>

(* appendDownloadChunkToSession: a transaction reads the record, adds the  *)
(* chunk, writes it back and refreshes the cache.                          *)
AppendChunk(r) ==
    /\ Current(r, "fetch", "loaded")
    /\ bucket[Session(r)].present
    /\ ~Expired(r)
    /\ LET chunks == Append(bucket[Session(r)].chunks, requests[r].arg) IN
         /\ bucket' = [bucket EXCEPT ![Session(r)] = Record(chunks)]
         /\ cache' = [cache EXCEPT ![Session(r)] = Record(chunks)]
    /\ ToStep(r, "recorded")
    /\ UNCHANGED <<past, replays, single, expired, got, opened, claims, crashes>>

(* The session was consumed or has expired in between.  The deletion of an *)
(* expired record is undone with its transaction, that of the cache stays. *)
AppendFails(r) ==
    /\ Current(r, "fetch", "loaded")
    /\ ~bucket[Session(r)].present \/ Expired(r)
    /\ cache' = [cache EXCEPT ![Session(r)] =
                   IF bucket[Session(r)].present THEN Absent ELSE @]
    /\ ToStep(r, "over")
    /\ UNCHANGED <<past, replays, bucket, single, expired, got, opened, claims, crashes>>

(* The client has the chunk. *)
ServeChunk(r) ==
    /\ Current(r, "fetch", "recorded")
    /\ got' = [got EXCEPT ![Session(r)] = @ \cup {requests[r].arg}]
    /\ ToStep(r, "over")
    /\ UNCHANGED <<past, storeVars, expired, opened, claims, crashes>>

-----------------------------------------------------------------------------

(* The bundled receipt of a download session, SpSubmitSessionReceipt. *)

Matches(r) ==
    /\ Len(requests[r].read.chunks) = Len(requests[r].list)
    /\ ToSet(requests[r].read.chunks) = ToSet(requests[r].list)

CheckReceipt(r) ==
    /\ Current(r, "receipt", "loaded")
    /\ ToStep(r, IF Matches(r) THEN "submitted" ELSE "mismatch")
    /\ UNCHANGED <<past, storeVars, expired, got, opened, claims, crashes>>

(* The cache is left as it is. *)
TakeFromBucket(r) ==
    /\ Current(r, "receipt", "submitted")
    /\ bucket' = [bucket EXCEPT ![Session(r)] = Absent]
    /\ ToStep(r, "consumed")
    /\ UNCHANGED <<past, replays, cache, single, expired, got, opened, claims, crashes>>

(* takeDownloadSession, once the transaction was seen: the database first ... *)
TakeSession(r) ==
    /\ Current(r, "receipt", "submitted")
    /\ bucket' = [bucket EXCEPT ![Session(r)] = Absent]
    /\ ToStep(r, "taken")
    /\ UNCHANGED <<past, replays, cache, single, expired, got, opened, claims, crashes>>

(* ... then the cache. *)
DropCache(r) ==
    /\ Current(r, "receipt", "taken")
    /\ cache' = [cache EXCEPT ![Session(r)] = Absent]
    /\ ToStep(r, "consumed")
    /\ UNCHANGED <<past, replays, bucket, single, expired, got, opened, claims, crashes>>

(* The transaction failed or was not seen in time: the session stays. *)
SubmitFails(r) ==
    /\ Current(r, "receipt", "submitted")
    /\ ToStep(r, "over")
    /\ UNCHANGED <<past, storeVars, expired, got, opened, claims, crashes>>

-----------------------------------------------------------------------------

(* Receipts of fetch sessions, SpSubmitReceipt and SpSubmitReceipts: every *)
(* session of the batch is taken in turn, then one transaction is sent.    *)

(* The session is looked up and left in place. *)
PeekFetchSession(r) ==
    /\ Current(r, "claim", "begun")
    /\ requests[r].list # << >>
    /\ LET s == Head(requests[r].list) IN
         IF s \in single \ expired
         THEN requests' = [requests EXCEPT ![r].list = Tail(@),
                                           ![r].read = Record(Append(@.chunks, s))]
         ELSE ToStep(r, "over")
    /\ UNCHANGED <<past, storeVars, expired, got, opened, claims, crashes>>

(* takeFetchSession; one that is missing or expired ends the request, and  *)
(* the ones taken before it are gone.                                      *)
TakeFetchSession(r) ==
    /\ Current(r, "claim", "begun")
    /\ requests[r].list # << >>
    /\ LET s == Head(requests[r].list) IN
         /\ single' = single \ {s}
         /\ IF s \in single \ expired
            THEN requests' = [requests EXCEPT ![r].list = Tail(@),
                                              ![r].read = Record(Append(@.chunks, s))]
            ELSE ToStep(r, "over")
    /\ UNCHANGED <<past, replays, bucket, cache, expired, got, opened, claims, crashes>>

(* The receipts go to the chain, which may refuse them. *)
SubmitReceipts(r) ==
    /\ Current(r, "claim", "begun")
    /\ requests[r].list = << >>
    /\ claims' = [s \in Ids |->
                    claims[s] + Cardinality({i \in DOMAIN requests[r].read.chunks :
                                               requests[r].read.chunks[i] = s})]
    /\ ToStep(r, "over")
    /\ UNCHANGED <<past, storeVars, expired, got, opened, crashes>>

-----------------------------------------------------------------------------

(* Time passes: a signed request expires, and the download sessions that   *)
(* were opened with it ...                                                 *)
NonceExpires ==
    /\ \E n \in Nonces \ past :
         /\ past' = past \cup {n}
         /\ expired' = expired \cup {s \in DOMAIN opened :
                                       requests[s].kind = "open" /\ requests[s].arg = n}
    /\ UNCHANGED <<storeVars, requests, got, opened, claims, crashes>>

(* ... and a fetch session, ten minutes after its range was served. *)
Expire ==
    /\ \E s \in DOMAIN opened \ expired :
         /\ requests[s].kind = "range"
         /\ expired' = expired \cup {s}
    /\ UNCHANGED <<past, storeVars, requests, got, opened, claims, crashes>>

(* The provider restarts. *)
Crash ==
    /\ crashes < MaxCrashes
    /\ crashes' = crashes + 1
    /\ cache' = [s \in Ids |-> Absent]
    /\ requests' = [r \in DOMAIN requests |->
                      [requests[r] EXCEPT !.step = IF @ \in {"taken", "consumed"}
                                                   THEN "consumed" ELSE "over"]]
    /\ UNCHANGED <<past, replays, bucket, single, expired, got, opened, claims>>

Load(r) == LoadCached(r) \/ ReadBucket(r) \/ FillCache(r) \/ LoadExpired(r)

Step(r) ==
    \/ CheckReplay(r, "open")
    \/ CheckReplay(r, "range")
    \/ OpenSession(r)
    \/ ServeRange(r)
    \/ Load(r)
    \/ AppendChunk(r)
    \/ AppendFails(r)
    \/ ServeChunk(r)
    \/ CheckReceipt(r)
    \/ TakeSession(r)
    \/ DropCache(r)
    \/ SubmitFails(r)
    \/ TakeFetchSession(r)
    \/ SubmitReceipts(r)

Next ==
    \/ Arrive
    \/ \E r \in Ids : Step(r)
    \/ NonceExpires
    \/ Expire
    \/ Crash

Spec == Init /\ [][Next]_vars

-----------------------------------------------------------------------------

(* The ranges of the variables; what is stored is of a session that was    *)
(* answered.                                                               *)
TypeOK ==
    /\ past \cup replays \subseteq Nonces
    /\ single \subseteq DOMAIN opened
    /\ expired \subseteq DOMAIN opened
    /\ DOMAIN opened \subseteq DOMAIN requests
    /\ \A s \in Ids :
         /\ ToSet(bucket[s].chunks) \cup ToSet(cache[s].chunks) \cup got[s] \subseteq Chunks
         /\ claims[s] \in Nat
    /\ crashes \in 0 .. MaxCrashes

(* Until it expires, a signed nonce opens one session at most, whatever is *)
(* sent twice, at once or after a restart.                                 *)
NonceOpensOnce ==
    \A s, t \in DOMAIN opened : opened[s] = opened[t] => s = t \/ opened[s] \subseteq past

(* Of the download sessions that a nonce opens, in its time and in the 30  *)
(* seconds after it, at most one ever gives its client a chunk.            *)
NonceServesOnce ==
    \A s, t \in DOMAIN opened :
        opened[s] = opened[t] /\ got[s] # {} /\ got[t] # {} => s = t

(* A fetch session is claimed once at most: takeFetchSession `atomically   *)
(* consumes a session so it can only be used once'.                        *)
ClaimedOnce == \A s \in Ids : claims[s] <= 1

(* Signed nonces and sessions are used once: checkAndStoreRequestReplay    *)
(* and takeFetchSession are one transaction each, and a nonce is forgotten *)
(* no sooner than the sessions it opened.                                  *)
UsedOnce == NonceOpensOnce /\ NonceServesOnce /\ ClaimedOnce

Consumed(s) == \E r \in DOMAIN requests :
    requests[r].session = s /\ requests[r].step \in {"taken", "consumed"}

(* A chunk the client was given stays in the database, through restarts,   *)
(* until the session's receipt is submitted or the session expires.        *)
GivenIsRecorded ==
    \A s \in DOMAIN opened : \A c \in got[s] :
        c \in ToSet(bucket[s].chunks) \/ Consumed(s) \/ s \in expired

(* A receipt is checked against every chunk it is for: whoever loads the   *)
(* session sees the chunks that were given before.                         *)
LoadSeesGiven ==
    \A r \in DOMAIN requests :
        requests[r].kind = "receipt" /\ requests[r].step = "mismatch" =>
            ToSet(requests[r].list) \subseteq ToSet(requests[r].read.chunks)

(* A session whose database record is gone is not found in the cache once  *)
(* no request is under way.                                                *)
TakenIsGone ==
    (\A r \in DOMAIN requests : requests[r].step \in {"over", "mismatch", "consumed"}) =>
        \A s \in DOMAIN opened : cache[s].present => bucket[s].present

-----------------------------------------------------------------------------
(* What a document says and the code does not keep; the README tells how.  *)

(* `request/session replays remain prevented': a nonce opens one session,  *)
(* or has one range served, ever.                                          *)
NonceIsConsumed ==
    \A s, t \in DOMAIN opened : opened[s] = opened[t] => s = t

=============================================================================
