------------------------------- MODULE NilFs -------------------------------
(***************************************************************************)
(* A slab in the browser's private file system: raw bytes packed into        *)
(* scalars, scalars into blobs, blobs into MDUs, files placed one after the  *)
(* other, and the readers that find them again (nilfsOpfsFetch, nilfsLocal)  *)
(* or cut a download into chunks of one blob (rangeChunker).                 *)
(*                                                                         *)
(* A scalar has ScalarBytes bytes of which one less carry payload (32 and 31 *)
(* in the code).  A byte is known by where it came from, so reading it back  *)
(* is looking in the place where it was put.                                 *)
(***************************************************************************)
EXTENDS Integers, Sequences, FiniteSets, FiniteSetsExt

CONSTANTS
    ScalarBytes,    \* NILFS_SCALAR_BYTES
    BlobScalars,    \* scalars per blob
    MduBlobs,       \* blobs per MDU
    WitnessBytes,   \* witness bytes a user MDU adds
    Lengths,        \* file lengths users pick
    MaxFiles, MaxSlabs, \* bounds: files in a slab, slabs of a deal
    MaxMdu              \* bound: greatest index of an MDU on disk

ASSUME NilFsAssumption ==
    /\ ScalarBytes \in Nat /\ ScalarBytes > 1
    /\ BlobScalars \in Nat \ {0} /\ MduBlobs \in Nat \ {0}
    /\ WitnessBytes \in Nat
    /\ Lengths \subseteq Nat \ {0}
    /\ {MaxFiles, MaxSlabs, MaxMdu} \subseteq Nat

VARIABLES
    striped,    \* whether the deal is a Mode 2 deal
    files,      \* the NilFS file table of MDU #0, in order
    slab,       \* which slab of the deal this is
    disk        \* mdu_<i>.bin in OPFS, by index from 0

slabVars == <<striped, files, slab, disk>>

PayloadBytes == ScalarBytes - 1
BlobBytes    == BlobScalars * ScalarBytes
RawCapacity  == MduBlobs * BlobScalars * PayloadBytes   \* rawMduCapacityFromMduSize

CeilDiv(a, b) == (a + b - 1) \div b
Least(a, b)   == IF a <= b THEN a ELSE b

-----------------------------------------------------------------------------
(* Encoding: where encodeToMdu puts raw byte r of an MDU of rawLen bytes *)

EncodedPos(rawLen, r) ==
    LET scalar   == r \div PayloadBytes
        chunkLen == Least(PayloadBytes, rawLen - scalar * PayloadBytes)
    IN  scalar * ScalarBytes + (ScalarBytes - chunkLen) + (r % PayloadBytes)

\* As if every scalar were full.
DecodedPosFull(rawValidLen, r) == (r \div PayloadBytes) * ScalarBytes + 1 + (r % PayloadBytes)

\* Decoding: where decodeRawSliceFromMdu looks for it.
DecodedPos(rawValidLen, r) ==
    LET rem       == rawValidLen % PayloadBytes
        scalar    == r \div PayloadBytes
        isPartial == rem # 0 /\ scalar = rawValidLen \div PayloadBytes
    IN  scalar * ScalarBytes + (IF isPartial THEN ScalarBytes - rem ELSE 1) + (r % PayloadBytes)

-----------------------------------------------------------------------------
(* rangeChunker *)

encodedPosFromRawOffset(r) == r + (r \div PayloadBytes) + 1
rawOffsetToEncodedBlobIndex(r) == encodedPosFromRawOffset(r) \div BlobBytes

\* The first offset between lo, which is in the blob, and hi that is not.
Bisect(blob) ==
    LET search[p \in (0..RawCapacity) \X (0..RawCapacity)] ==
            LET mid == (p[1] + p[2]) \div 2
            IN  IF p[1] + 1 >= p[2] THEN p[2]
                ELSE IF rawOffsetToEncodedBlobIndex(mid) = blob
                     THEN search[<<mid, p[2]>>]
                     ELSE search[<<p[1], mid>>]
    IN  search

\* The first raw offset after r in another blob.
nextBlobBoundary(r) ==
    LET blob == rawOffsetToEncodedBlobIndex(r)
        hi   == Bisect(blob)[<<r, RawCapacity>>]
    IN  IF rawOffsetToEncodedBlobIndex(hi) = blob THEN RawCapacity ELSE hi

\* Counts the bytes of a blob, not the payload they carry.
ChunkLenByBytes(abs, remaining) == Least(remaining, BlobBytes - ((abs % RawCapacity) % BlobBytes))

ChunkLen(abs, remaining) ==
    LET inMdu == abs % RawCapacity
    IN  Min({remaining, RawCapacity - inMdu, nextBlobBoundary(inMdu) - inMdu, BlobBytes})

\* The chunks of bytes c..end-1 of file f, for every c from from.
Chunks(f, from, end) ==
    LET plan[c \in from..end] ==
            IF c = end THEN <<>>
            ELSE LET n == ChunkLen(f.start + c, end - c)
                 IN  <<[start |-> c, len |-> n]>> \o plan[c + n]
    IN  plan

\* For bytes from..from+len-1 of file f.
planNilfsFileRangeChunks(f, from, len) ==
    Chunks(f, from, from + Least(len, f.len - from))[from]

-----------------------------------------------------------------------------
(* The slab in OPFS *)

Nothing == [kind |-> "none", slab |-> 0, user |-> 0, rawLen |-> 0]
MduIds  == 0..MaxMdu

mdusOnDisk  == {i \in MduIds : disk[i].kind # "none"}

inferMaxEnd(fs) == Max({0} \cup {fs[k].start + fs[k].len : k \in 1..Len(fs)})

userCount(fs) == CeilDiv(inferMaxEnd(fs), RawCapacity)

\* inferWitnessCountFromOpfs: whatever is left over on disk counts
inferWitnessCount(fs) == Cardinality(mdusOnDisk) - 1 - userCount(fs)

\* witnessMduCount of processFile
WitnessCount(users) == Max({1, CeilDiv(WitnessBytes * users, RawCapacity)})

\* The user MDUs of file f, as sharding encodes them.
Encoded(f, id, u) ==
    [kind |-> "user", slab |-> id, user |-> u,
     rawLen |-> Least(RawCapacity, f.start + f.len - u * RawCapacity)]

\* The slab saved over what is on disk: nothing is removed.  The user MDUs
\* before first are carried over from where the reader finds them.
Persisted(fs, id, first) ==
    LET users == userCount(fs)
        w     == WitnessCount(users)
        User(u) == IF u < first THEN disk[1 + inferWitnessCount(files) + u]
                                ELSE Encoded(fs[Len(fs)], id, u)
    IN  [i \in MduIds |->
           CASE i <= w -> [kind |-> "meta", slab |-> id, user |-> 0, rawLen |-> 0]
             [] i > w /\ i <= w + users -> User(i - w - 1)
             [] OTHER -> disk[i]]

\* The slab fits the indices modelled.
Fits(fs) == WitnessCount(userCount(fs)) + userCount(fs) <= MaxMdu

\* The base that processFile appends to can be read.
BaseReadable == striped /\ files # <<>> /\ inferWitnessCount(files) >= 0

\* A file is added to a Mode 2 deal whose slab is on disk: it starts at the
\* next MDU, and the slab is saved again once it is committed.
AppendFile(n) ==
    /\ BaseReadable
    /\ Len(files) < MaxFiles
    /\ files' = Append(files, [start |-> userCount(files) * RawCapacity, len |-> n])
    /\ Fits(files')
    /\ disk' = Persisted(files', slab, userCount(files))
    /\ UNCHANGED <<striped, slab>>

\* A file is sharded into a slab of its own: the first one of a deal, and
\* every one of a deal that is not striped.
FreshSlab(n) ==
    /\ ~BaseReadable
    /\ slab < MaxSlabs
    /\ slab' = slab + 1
    /\ files' = <<[start |-> 0, len |-> n]>>
    /\ Fits(files')
    /\ disk' = Persisted(files', slab', 0)
    /\ UNCHANGED striped

\* deleteDealDirectory
DeleteDirectory ==
    /\ files # <<>>
    /\ files' = <<>>
    /\ disk' = [i \in MduIds |-> Nothing]
    /\ UNCHANGED <<striped, slab>>

SlabInit ==
    /\ striped \in BOOLEAN
    /\ files = <<>>
    /\ slab = 0
    /\ disk = [i \in MduIds |-> Nothing]

SlabNext == DeleteDirectory \/ \E n \in Lengths : AppendFile(n) \/ FreshSlab(n)

SlabSpec == SlabInit /\ [][SlabNext]_slabVars

-----------------------------------------------------------------------------
(* readNilfsFileFromOpfs *)

\* The MDU and the place in it that the reader takes byte k of f from.
ReadPlace(f, k) ==
    LET abs   == f.start + k
        u     == abs \div RawCapacity
        valid == Max({0, Least(RawCapacity, inferMaxEnd(files) - u * RawCapacity)})
    IN  [mdu |-> 1 + inferWitnessCount(files) + u, pos |-> DecodedPos(valid, abs % RawCapacity)]

\* Byte k of f is there.
ReadsBack(f, k) ==
    LET p == ReadPlace(f, k)
        u == (f.start + k) \div RawCapacity
    IN  /\ p.mdu \in MduIds
        /\ disk[p.mdu].kind = "user" /\ disk[p.mdu].slab = slab /\ disk[p.mdu].user = u
        /\ p.pos = EncodedPos(disk[p.mdu].rawLen, (f.start + k) % RawCapacity)

FilesOf == {files[k] : k \in 1..Len(files)}

-----------------------------------------------------------------------------
(* Properties *)

\* Types of the slab on disk; a file starts a new MDU, so that no MDU is
\* shared.
SlabTypeOK ==
    /\ striped \in BOOLEAN
    /\ files \in Seq([start : Nat, len : Lengths])
    /\ \A f \in FilesOf : f.start % RawCapacity = 0
    /\ slab \in 0..MaxSlabs
    /\ disk \in [MduIds -> [kind : {"none", "meta", "user"}, slab : 0..MaxSlabs,
                            user : Nat, rawLen : 0..RawCapacity]]

\* Nothing is lost by saving and appending: every byte of every file is where
\* the reader looks, except, once another file was appended, those of a last
\* scalar that is not full, and except in a deal that was sharded anew over a
\* slab on disk.
SavedReadsBack ==
    striped =>
        \A j \in 1..Len(files) : \A k \in 0..(files[j].len - 1) :
            \/ ReadsBack(files[j], k)
            \/ j < Len(files) /\ k \div PayloadBytes = files[j].len \div PayloadBytes

\* The MDU and the blob in it where the encoder put byte k of f.
Home(f, k) ==
    LET abs == f.start + k
        u   == abs \div RawCapacity
    IN  <<u, EncodedPos(Encoded(f, slab, u).rawLen, abs % RawCapacity) \div BlobBytes>>

\* Chunks of a download are the runs of its bytes that share a blob: they
\* cover the range in order, each within one blob of one MDU as the encoder
\* fills them, and no two of them could have been one.
ChunksAreBlobRuns ==
    \A f \in FilesOf : \A from \in 0..(f.len - 1) : \A len \in 1..(f.len - from) :
        LET c == planNilfsFileRangeChunks(f, from, len)
        IN  /\ c[1].start = from
            /\ c[Len(c)].start + c[Len(c)].len = from + len
            /\ \A i \in 1..Len(c) : \A k \in c[i].start..(c[i].start + c[i].len - 1) :
                   Home(f, k) = Home(f, c[i].start)
            /\ \A i \in 1..(Len(c) - 1) :
                   /\ c[i + 1].start = c[i].start + c[i].len
                   /\ Home(f, c[i + 1].start) # Home(f, c[i].start)

\* Offsets agree: every byte of every file is where the reader looks, except,
\* once another file was appended, those of a last scalar that is not full, and
\* except in a deal that was sharded anew over a slab on disk; and the chunks
\* of a download cover its range in order, each within one blob of one MDU as
\* the encoder fills them, and no two of them could have been one.
LocalReadsBack == SlabTypeOK /\ SavedReadsBack /\ ChunksAreBlobRuns
-----------------------------------------------------------------------------
(* What a document, a comment or a test says and the code does not keep; the *)
(* README tells how. *)

\* Appending keeps prior files: all of them read back from the local slab.
AppendKeepsFiles ==
    striped => \A f \in FilesOf : \A k \in 0..(f.len - 1) : ReadsBack(f, k)

\* The local slab reads back the content it is a cache of, also when a slab
\* of another size was saved before it.
CacheHoldsContent == Len(files) = 1 => \A k \in 0..(files[1].len - 1) : ReadsBack(files[1], k)
=============================================================================
