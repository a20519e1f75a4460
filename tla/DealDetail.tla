----------------------------- MODULE DealDetail -----------------------------
(***************************************************************************)
(* The deal explorer of the website: slab, file list and manifest of the     *)
(* deal it is given, asked from the network and, failing that, read from     *)
(* OPFS; and the buttons that download a file from the network, from the     *)
(* slab in OPFS or from the cache of downloaded files.                       *)
(*                                                                         *)
(* Content number n is the n-th slab that was ever committed: it holds one   *)
(* file, Path(n), and its root tells it from all others.  Bytes are known by *)
(* the slab they are of and whether they are the whole file.  A call is not  *)
(* cancelled when the deal changes, and answers come in any order.           *)
(***************************************************************************)
EXTENDS Integers, Sequences, FiniteSets

CONSTANTS
    Deals, Paths, FirstDeal, NoPath,
    MaxContents,    \* slabs that are committed
    MaxResets,      \* times the chain is reset, after which deal ids are reused
    MaxDownloads,   \* buttons that are pressed
    RootOnly        \* the upload panel may save a root without its MDUs

\* What the constants are taken to be.
DetailAssumption ==
    /\ FirstDeal \in Deals /\ NoPath \notin Paths
    /\ MaxContents \in Nat /\ MaxResets \in Nat /\ MaxDownloads \in Nat
    /\ RootOnly \in BOOLEAN

VARIABLES
    serial,     \* the deal, and what OPFS has, change only when nothing is under way
    made,       \* the path of each content
    chain,      \* the content each deal has on chain, 0 if none
    resets,
    opfs,       \* per deal: the root in OPFS and the content of its MDUs
    cache,      \* per deal and path: cached bytes
    deal, cid,  \* the deal shown and its root: the component's property
    calls,      \* calls of fetchSlab, fetchFiles, fetchManifestInfo, fetchMduKzg under way
    loading,    \* the loading flags
    files,      \* the content the file list is of, 0 if there is no file
    slab, slabSource,
    manifest, manifestError,
    mduKzg,
    part,       \* the range fields ask for a part of the file
    busy,       \* busyFilePath
    dls,        \* downloads under way
    started, saved      \* downloads started; the last file handed to the user

chainVars == <<made, chain, resets>>
localVars == <<opfs, cache>>
shown == <<deal, cid, loading, files, slab, slabSource, manifest, manifestError, mduKzg>>
dlVars == <<part, busy, dls, started, saved>>
vars == <<serial, chainVars, localVars, calls, shown, dlVars>>

None == 0
Contents == 1..MaxContents
Path(n) == IF n = None THEN NoPath ELSE made[n]
NoBytes == [of |-> None, part |-> FALSE]
NoManifest == [root |-> None, of |-> None]
Flags == [slab : BOOLEAN, files : BOOLEAN, manifest : BOOLEAN, kzg : BOOLEAN]
Quiet == [slab |-> FALSE, files |-> FALSE, manifest |-> FALSE, kzg |-> FALSE]
NotSaved == [want |-> None, part |-> FALSE, got |-> NoBytes, by |-> "none"]
Call(k, d, r) == [kind |-> k, deal |-> d, root |-> r]

-----------------------------------------------------------------------------
(* The chain, and what other tabs and the upload panel leave in OPFS *)

Commit(d, p) ==
    /\ Len(made) < MaxContents
    /\ made' = Append(made, p)
    /\ chain' = [chain EXCEPT ![d] = Len(made) + 1]
    /\ UNCHANGED <<resets, localVars, calls, shown, dlVars>>

ChainReset ==
    /\ resets < MaxResets
    /\ resets' = resets + 1
    /\ chain' = [d \in Deals |-> None]
    /\ UNCHANGED <<made, localVars, calls, shown, dlVars>>

SaveSlab(d) ==
    /\ chain[d] # None
    /\ serial => dls = {}
    /\ \E m \in {chain[d]} \cup (IF RootOnly THEN {opfs[d].mdus} ELSE {}) :
          opfs' = [opfs EXCEPT ![d] = [root |-> chain[d], mdus |-> m]]
    /\ UNCHANGED <<chainVars, cache, calls, shown, dlVars>>

-----------------------------------------------------------------------------
(* The deal changes *)

\* Lets the source of the slab before stand.
ShowDealKeepsSource(d) ==
    /\ d # deal \/ chain[d] # cid
    /\ serial => calls = {} /\ dls = {}
    /\ deal' = d /\ cid' = chain[d]
    /\ IF cid' # None
       THEN /\ calls' = calls \cup {Call(k, d, cid') : k \in {"slab", "files", "manifest"}}
            /\ loading' = [loading EXCEPT !.slab = TRUE, !.files = TRUE, !.manifest = TRUE]
            /\ manifestError' = FALSE
            /\ UNCHANGED <<files, slab, slabSource, manifest>>
       ELSE /\ files' = None /\ slab' = None /\ slabSource' = "none" /\ manifest' = NoManifest
            /\ loading' = [loading EXCEPT !.slab = FALSE, !.files = FALSE]
            /\ UNCHANGED <<calls, manifestError>>
    /\ UNCHANGED <<chainVars, localVars, mduKzg, dlVars>>

\* Clears the list of a deal without content, and not its slab.
ShowDealKeepsSlab(d) ==
    /\ d # deal \/ chain[d] # cid
    /\ serial => calls = {} /\ dls = {}
    /\ deal' = d /\ cid' = chain[d]
    /\ slabSource' = "none"
    /\ IF cid' # None
       THEN /\ calls' = calls \cup {Call(k, d, cid') : k \in {"slab", "files", "manifest"}}
            /\ loading' = [loading EXCEPT !.slab = TRUE, !.files = TRUE, !.manifest = TRUE]
            /\ manifestError' = FALSE
            /\ UNCHANGED files
       ELSE /\ files' = None /\ UNCHANGED <<calls, loading, manifestError>>
    /\ UNCHANGED <<chainVars, localVars, slab, manifest, mduKzg, dlVars>>

\* The dashboard shows another deal, or another root of it: everything is
\* asked for again, or cleared when there is no content.
ShowDeal(d) ==
    /\ d # deal \/ chain[d] # cid
    /\ serial => calls = {} /\ dls = {}
    /\ deal' = d /\ cid' = chain[d]
    /\ slabSource' = "none"
    /\ IF cid' # None
       THEN /\ calls' = calls \cup {Call(k, d, cid') : k \in {"slab", "files", "manifest"}}
            /\ loading' = [loading EXCEPT !.slab = TRUE, !.files = TRUE, !.manifest = TRUE]
            /\ manifestError' = FALSE
            /\ UNCHANGED <<files, slab, manifest>>
       ELSE /\ files' = None /\ slab' = None /\ manifest' = NoManifest
            /\ loading' = [loading EXCEPT !.slab = FALSE, !.files = FALSE]
            /\ UNCHANGED <<calls, manifestError>>
    /\ UNCHANGED <<chainVars, localVars, mduKzg, dlVars>>

-----------------------------------------------------------------------------
(* Answers *)

\* The slab in OPFS is that of root r, by the root that is saved with it.
LocalMatches(d, r) == opfs[d].root = r /\ opfs[d].mdus # None

Answered(c) == calls' = calls \ {c}

\* fetchSlab: a layout inferred from OPFS is taken for that of the root.
SlabAnswer(c, ok) ==
    /\ c.kind = "slab" /\ Answered(c)
    /\ loading' = [loading EXCEPT !.slab = FALSE]
    /\ IF ok THEN slab' = c.root /\ slabSource' = "gateway"
       ELSE IF LocalMatches(c.deal, c.root) THEN slab' = c.root /\ slabSource' = "opfs"
       ELSE UNCHANGED <<slab, slabSource>>
    /\ UNCHANGED <<chainVars, localVars, deal, cid, files, manifest, manifestError, mduKzg, dlVars>>

\* fetchFiles: an empty list is replaced by the one in OPFS unless that is of
\* another root; an error falls back on it whatever it is of (fetchLocalFiles).
ListedFiles(c, answer) ==
    CASE answer = "list" -> c.root
      [] answer = "empty" /\ opfs[c.deal].root \notin {None, c.root} -> None
      [] OTHER -> opfs[c.deal].mdus

\* Forgets the flag when the list is empty.
FilesAnswerStuck(c, answer) ==
    /\ c.kind = "files" /\ Answered(c)
    /\ files' = ListedFiles(c, answer)
    /\ loading' = IF answer = "empty" THEN loading ELSE [loading EXCEPT !.files = FALSE]
    /\ UNCHANGED <<chainVars, localVars, deal, cid, slab, slabSource, manifest, manifestError,
                   mduKzg, dlVars>>

FilesAnswer(c, answer) ==
    /\ c.kind = "files" /\ Answered(c)
    /\ files' = ListedFiles(c, answer)
    /\ loading' = [loading EXCEPT !.files = FALSE]
    /\ UNCHANGED <<chainVars, localVars, deal, cid, slab, slabSource, manifest, manifestError,
                   mduKzg, dlVars>>

\* Does not compare the root it computed with the one it was asked for.
ManifestAnswerUnchecked(c, ok) ==
    LET local == LocalMatches(c.deal, c.root) IN
    /\ c.kind = "manifest" /\ Answered(c)
    /\ loading' = [loading EXCEPT !.manifest = FALSE]
    /\ manifest' = IF ok THEN [root |-> c.root, of |-> c.root]
                   ELSE IF local THEN [root |-> c.root, of |-> opfs[c.deal].mdus] ELSE NoManifest
    /\ manifestError' = IF ok \/ local THEN manifestError ELSE TRUE
    /\ UNCHANGED <<chainVars, localVars, deal, cid, files, slab, slabSource, mduKzg, dlVars>>

\* fetchManifestInfo: computed from the MDUs in OPFS, with an error when it
\* gives another root.
ManifestAnswer(c, ok) ==
    LET local == LocalMatches(c.deal, c.root) IN
    /\ c.kind = "manifest" /\ Answered(c)
    /\ loading' = [loading EXCEPT !.manifest = FALSE]
    /\ manifest' = IF ok THEN [root |-> c.root, of |-> c.root]
                   ELSE IF local THEN [root |-> c.root, of |-> opfs[c.deal].mdus] ELSE NoManifest
    /\ manifestError' = IF ok \/ (local /\ opfs[c.deal].mdus = c.root) THEN manifestError ELSE TRUE
    /\ UNCHANGED <<chainVars, localVars, deal, cid, files, slab, slabSource, mduKzg, dlVars>>

\* The MDU inspector: of the slab shown, and the deal shown.
fetchMduKzg ==
    /\ slab # None /\ ~loading.kzg
    /\ calls' = calls \cup {Call("kzg", deal, slab)}
    /\ loading' = [loading EXCEPT !.kzg = TRUE]
    /\ UNCHANGED <<chainVars, localVars, deal, cid, files, slab, slabSource, manifest, manifestError,
                   mduKzg, dlVars>>

KzgAnswer(c, ok) ==
    /\ c.kind = "kzg" /\ Answered(c)
    /\ loading' = [loading EXCEPT !.kzg = FALSE]
    /\ mduKzg' = IF ok \/ LocalMatches(c.deal, c.root) THEN c.root ELSE None
    /\ UNCHANGED <<chainVars, localVars, deal, cid, files, slab, slabSource, manifest, manifestError,
                   dlVars>>

-----------------------------------------------------------------------------
(* Downloads.  All but "verify" and "gateway" may take bytes that are here. *)

SetRange(p) ==
    /\ part # p /\ part' = p
    /\ UNCHANGED <<chainVars, localVars, calls, shown, busy, dls, started, saved>>

downloading == \E x \in dls : x.step = "fetch" /\ x.kind \in {"download", "verify"}

Pressed(kind, step) ==
    LET p == Path(files) IN
    /\ started < MaxDownloads
    /\ files # None /\ ~loading.files /\ busy # p
    /\ busy' = p /\ started' = started + 1
    /\ dls' = dls \cup {[kind |-> kind, deal |-> deal, cid |-> cid, path |-> p, part |-> part,
                         step |-> step]}
    /\ UNCHANGED <<chainVars, localVars, calls, shown, part, saved>>

PressCached   == Pressed("cached", "cache")
PressSlab     == Pressed("slab", "check")
PressDownload == ~downloading /\ cid # None /\ Pressed("download", "cache")
PressGateway  == ~downloading /\ slabSource = "gateway" /\ Pressed("gateway", "fetch")
PressVerify   == ~downloading /\ cid # None /\ Pressed("verify", "fetch")

\* The file goes to the user; where it was not from the cache, into it too.
Hand(x, bytes, keep) ==
    /\ saved' = [want |-> x.cid, part |-> x.part, got |-> bytes, by |-> x.kind]
    /\ cache' = IF keep THEN [cache EXCEPT ![x.deal][x.path] = bytes] ELSE cache
    /\ dls' = dls \ {x} /\ busy' = NoPath
    /\ UNCHANGED <<chainVars, opfs, calls, shown, part, started>>

GiveUp(x) ==
    /\ dls' = dls \ {x} /\ busy' = NoPath
    /\ UNCHANGED <<chainVars, localVars, calls, shown, part, started, saved>>

ToStep(x, s) ==
    /\ dls' = (dls \ {x}) \cup {[x EXCEPT !.step = s]}
    /\ UNCHANGED <<chainVars, localVars, calls, shown, part, busy, started, saved>>

\* readCachedFile: by deal and path
ReadCache(x) ==
    LET b == cache[x.deal][x.path] IN
    /\ x.step = "cache"
    /\ \/ b # NoBytes /\ Hand(x, b, FALSE)
       \/ b = NoBytes /\ x.kind = "cached" /\ GiveUp(x)
       \/ b = NoBytes /\ x.kind = "download" /\ ToStep(x, "fetch")

\* The slab in OPFS is used when its root is the deal's.
CheckSlab(x) ==
    /\ x.step = "check"
    /\ IF opfs[x.deal].root = x.cid /\ x.cid # None THEN ToStep(x, "read") ELSE GiveUp(x)

\* readNilfsFileFromOpfs
ReadSlab(x) ==
    /\ x.step = "read"
    /\ IF opfs[x.deal].mdus # None THEN Hand(x, [of |-> opfs[x.deal].mdus, part |-> x.part], TRUE)
       ELSE GiveUp(x)

\* useFetch, or the gateway's raw fetch, answers.
Fetched(x) == x.step = "fetch" /\ Hand(x, [of |-> x.cid, part |-> x.part], TRUE)

FetchFails(x) == x.step = "fetch" /\ GiveUp(x)

Clear ==
    /\ files # None /\ ~downloading /\ busy # Path(files) /\ cache[deal][Path(files)] # NoBytes
    /\ cache' = [cache EXCEPT ![deal][Path(files)] = NoBytes]
    /\ UNCHANGED <<chainVars, opfs, calls, shown, dlVars>>

-----------------------------------------------------------------------------

Init ==
    /\ serial \in BOOLEAN
    /\ made = <<>> /\ chain = [d \in Deals |-> None] /\ resets = 0
    /\ opfs = [d \in Deals |-> [root |-> None, mdus |-> None]]
    /\ cache = [d \in Deals |-> [p \in Paths |-> NoBytes]]
    /\ deal = FirstDeal /\ cid = None /\ calls = {} /\ loading = Quiet
    /\ files = None /\ slab = None /\ slabSource = "none"
    /\ manifest = NoManifest /\ manifestError = FALSE /\ mduKzg = None
    /\ part = FALSE /\ busy = NoPath /\ dls = {} /\ started = 0 /\ saved = NotSaved

Step ==
    \/ \E d \in Deals, p \in Paths : Commit(d, p)
    \/ ChainReset
    \/ \E d \in Deals : SaveSlab(d) \/ ShowDeal(d)
    \/ \E c \in calls :
          \/ \E ok \in BOOLEAN : SlabAnswer(c, ok) \/ ManifestAnswer(c, ok) \/ KzgAnswer(c, ok)
          \/ \E a \in {"list", "empty", "error"} : FilesAnswer(c, a)
    \/ fetchMduKzg
    \/ \E p \in BOOLEAN : SetRange(p)
    \/ PressCached \/ PressSlab \/ PressDownload \/ PressGateway \/ PressVerify
    \/ \E x \in dls : ReadCache(x) \/ CheckSlab(x) \/ ReadSlab(x) \/ Fetched(x) \/ FetchFails(x)
    \/ Clear

\* Whether the user waits does not change.
Next == Step /\ UNCHANGED serial

Spec == Init /\ [][Next]_vars

-----------------------------------------------------------------------------
(* Properties *)

\* Types, that a file list is of a slab that was committed, and that a row is
\* busy only with a download.
TypeOK ==
    /\ serial \in BOOLEAN
    /\ chain \in [Deals -> 0..Len(made)] /\ files \in 0..Len(made) /\ slab \in 0..Len(made)
    /\ deal \in Deals /\ cid \in 0..Len(made)
    /\ slabSource \in {"none", "gateway", "opfs"}
    /\ loading \in Flags
    /\ busy \in Paths \cup {NoPath} /\ (busy # NoPath => dls # {}) /\ started \in 0..MaxDownloads
    /\ \A x \in dls : x.step \in {"cache", "check", "read", "fetch"}

\* A slab whose source is named is that of the root on display.
SourceIsTrue == slabSource # "none" => slab = cid

\* A manifest shown without an error was computed from, or served for, the
\* slab of the root on display, even if OPFS has a root with other MDUs.
ManifestIsVerified ==
    manifest # NoManifest /\ ~loading.manifest /\ ~manifestError => manifest.of = cid

\* A deal without content shows no files and no slab.
EmptyShowsNothing == cid = None => files = None /\ slab = None

\* While nothing changes under a call, what the explorer shows is of the deal.
ExplorerShowsTheDeal ==
    TypeOK /\ SourceIsTrue /\ ManifestIsVerified /\ EmptyShowsNothing

\* A panel that says it is loading has a call under way, whatever calls of
\* earlier deals are still answered.
LoadingIsTrue ==
    /\ loading.files => \E c \in calls : c.kind = "files"
    /\ loading.slab => \E c \in calls : c.kind = "slab"
    /\ loading.manifest => \E c \in calls : c.kind = "manifest"
-----------------------------------------------------------------------------
(* What a document, a comment or a test says and the code does not keep; the *)
(* README tells how. *)

\* Once it is loaded, the file list is that of the root on display.
FilesAreOfRoot ==
    files # None /\ ~loading.files => files = cid

\* A file handed to the user is of the content that was on display.
SavedIsCurrent == saved.want # None => saved.got.of = saved.want

\* A file handed to the user covers the range that was asked for.
SavedIsTheRange == saved.want # None => saved.got.part = saved.part
=============================================================================
