---------------------------- MODULE SlabIngest ----------------------------
(***************************************************************************)
(* Ingest of one file into a Mode 2 deal on a provider: the artifacts are  *)
(* built in a staging directory, the directory is put in the place named   *)
(* after the manifest root, and the artifacts are uploaded from there.     *)
(* Requests for the same content meet at that place (a retry, a second     *)
(* tab), under a lock file that outlives a crash and may be broken when it *)
(* is old; the provider's own /sp/upload_* handlers write there one piece  *)
(* at a time and without the lock.                                         *)
(* A directory is the set of the entries in it; entries are numbered in    *)
(* the order of os.ReadDir, in which .slab_complete comes first.           *)
(***************************************************************************)
EXTENDS Naturals, FiniteSets

CONSTANTS Requests,   \* upload requests for the same file and deal
          Shards,     \* number of witness MDUs and shards
          MaxTries,   \* attempts to take the lock (80 in the code)
          MaxCrashes, \* bound: restarts of the provider
          DiskErrors  \* whether moving an entry may fail

\* What the constants are taken to be.
SlabIngestAssumption ==
    /\ Shards \in Nat \ {0}
    /\ MaxTries \in Nat \ {0}
    /\ MaxCrashes \in Nat
    /\ DiskErrors \in BOOLEAN

Marker == 1      \* .slab_complete
Manifest == 2    \* manifest.bin
Mdu0 == 3        \* mdu_0.bin
Artifacts == Manifest .. (Mdu0 + Shards)
Entries == {Marker} \cup Artifacts

VARIABLES shared,   \* whether pieces also arrive through /sp/upload_*
          final,    \* the directory of the manifest root
          lock,     \* the lock file beside it
          staging,  \* each request's staging directory
          pc,       \* where each request is
          held,     \* lockHeld of each request
          tries,    \* attempts each request has made to take the lock
          sent,     \* artifacts each request has uploaded
          job,      \* status of each request's upload job
          crashes,  \* restarts so far
          overrun   \* history: a holder took longer than the age at which its
                    \* lock is broken, or two requests went to break one lock

stepVars == <<final, lock, staging, pc, held, tries, sent, job, crashes, overrun>>
vars == <<shared, stepVars>>

None == [there |-> FALSE, entries |-> {}]
Dir(entries) == [there |-> TRUE, entries |-> entries]
NoLock == [there |-> FALSE, old |-> FALSE]

(* mode2DirLooksComplete: the marker, or else the manifest and MDU #0. *)
LooksComplete(dir) ==
    dir.there /\ (Marker \in dir.entries \/ {Manifest, Mdu0} \subseteq dir.entries)

(* mode2EnsureCompleteMarker *)
Marked(dir) == IF dir.there THEN Dir(dir.entries \cup {Marker}) ELSE dir

Go(r, from, to) == pc[r] = from /\ pc' = [pc EXCEPT ![r] = to]

Init ==
    /\ shared \in BOOLEAN
    /\ final = None
    /\ lock = NoLock
    /\ staging = [r \in Requests |-> None]
    /\ pc = [r \in Requests |-> "new"]
    /\ held = [r \in Requests |-> FALSE]
    /\ tries = [r \in Requests |-> 0]
    /\ sent = [r \in Requests |-> {}]
    /\ job = [r \in Requests |-> "none"]
    /\ crashes = 0
    /\ overrun = FALSE

-----------------------------------------------------------------------------

(* GatewayUpload stores its job and receives the file. *)
Begin(r) ==
    /\ Go(r, "new", "building")
    /\ job' = [job EXCEPT ![r] = "running"]
    /\ UNCHANGED <<final, lock, staging, held, tries, sent, crashes, overrun>>

(* The last shard is missing when the marker is written. *)
BuildShort(r) ==
    /\ Go(r, "building", "looking")
    /\ staging' = [staging EXCEPT ![r] = Dir(Entries \ {Mdu0 + Shards})]
    /\ UNCHANGED <<final, lock, held, tries, sent, job, crashes, overrun>>

(* mode2BuildArtifacts: everything is in the staging directory, the marker *)
(* last.                                                                   *)
Build(r) ==
    /\ Go(r, "building", "looking")
    /\ staging' = [staging EXCEPT ![r] = Dir(Entries)]
    /\ UNCHANGED <<final, lock, held, tries, sent, job, crashes, overrun>>

BuildFails(r) ==
    /\ Go(r, "building", "failing")
    /\ UNCHANGED <<final, lock, staging, held, tries, sent, job, crashes, overrun>>

-----------------------------------------------------------------------------

(* acquireLock *)

(* The slab is complete already: there is nothing to put in place. *)
FindComplete(r) ==
    /\ Go(r, "looking", "discarding") \/ Go(r, "waiting", "discarding")
    /\ LooksComplete(final)
    /\ UNCHANGED <<final, lock, staging, held, tries, sent, job, crashes, overrun>>

Discard(r) ==
    /\ Go(r, "discarding", "renaming")
    /\ final' = Marked(final)
    /\ staging' = [staging EXCEPT ![r] = None]
    /\ UNCHANGED <<lock, held, tries, sent, job, crashes, overrun>>

Look(r) ==
    /\ Go(r, "looking", "locking")
    /\ ~LooksComplete(final)
    /\ UNCHANGED <<final, lock, staging, held, tries, sent, job, crashes, overrun>>

(* The lock file is opened without O_EXCL. *)
TryLockShared(r) ==
    /\ lock' = [there |-> TRUE, old |-> FALSE]
    /\ held' = [held EXCEPT ![r] = TRUE]
    /\ Go(r, "locking", "renaming")
    /\ UNCHANGED <<final, staging, tries, sent, job, crashes, overrun>>

(* The lock file is created if it is not there. *)
TryLock(r) ==
    /\ \/ /\ ~lock.there
          /\ lock' = [there |-> TRUE, old |-> FALSE]
          /\ held' = [held EXCEPT ![r] = TRUE]
          /\ Go(r, "locking", "renaming")
       \/ /\ lock.there
          /\ Go(r, "locking", "waiting")
          /\ UNCHANGED <<lock, held>>
    /\ UNCHANGED <<final, staging, tries, sent, job, crashes, overrun>>

(* Another request is about to remove the lock file. *)
OtherBreaks(r) == \E q \in Requests \ {r} : pc[q] = "breaking"

(* Whatever its age, the lock file is removed. *)
WaitAnyAge(r) ==
    /\ ~LooksComplete(final)
    /\ \/ lock.there /\ Go(r, "waiting", "breaking") /\ overrun' = (overrun \/ OtherBreaks(r))
       \/ ~lock.there /\ Go(r, "waiting", "sleeping") /\ overrun' = overrun
    /\ UNCHANGED <<final, lock, staging, held, tries, sent, job, crashes>>

(* Somebody else has it: look how old the lock file is ... *)
Wait(r) ==
    /\ ~LooksComplete(final)
    /\ \/ /\ lock.there /\ lock.old
          /\ Go(r, "waiting", "breaking")
          /\ overrun' = (overrun \/ OtherBreaks(r))
       \/ /\ ~(lock.there /\ lock.old)
          /\ Go(r, "waiting", "sleeping")
          /\ overrun' = overrun
    /\ UNCHANGED <<final, lock, staging, held, tries, sent, job, crashes>>

(* ... and remove the one that is there by then, if it was old. *)
BreakLock(r) ==
    /\ Go(r, "breaking", "sleeping")
    /\ lock' = NoLock
    /\ UNCHANGED <<final, staging, held, tries, sent, job, crashes, overrun>>

(* 25 ms, and again. *)
Sleep(r) ==
    /\ Go(r, "sleeping", IF tries[r] + 1 < MaxTries THEN "locking" ELSE "failing")
    /\ tries' = [tries EXCEPT ![r] = @ + 1]
    /\ UNCHANGED <<final, lock, staging, held, sent, job, crashes, overrun>>

-----------------------------------------------------------------------------

(* mode2FinalizeStagingDir, with or without the lock *)

(* os.Rename puts the staging directory in a free or empty place. *)
Rename(r) ==
    /\ Go(r, "renaming", "unlocking")
    /\ staging[r].there
    /\ final.entries = {}
    /\ final' = staging[r]
    /\ staging' = [staging EXCEPT ![r] = None]
    /\ UNCHANGED <<lock, held, tries, sent, job, crashes, overrun>>

(* A complete slab gives way to the new one. *)
ReplaceComplete(r) ==
    /\ Go(r, "renaming", "removing")
    /\ LooksComplete(final)
    /\ UNCHANGED <<final, lock, staging, held, tries, sent, job, crashes, overrun>>

(* The place is taken by a complete slab. *)
RenameOntoComplete(r) ==
    /\ Go(r, "renaming", "unlocking")
    /\ LooksComplete(final)
    /\ final' = Marked(final)
    /\ staging' = [staging EXCEPT ![r] = None]
    /\ UNCHANGED <<lock, held, tries, sent, job, crashes, overrun>>

(* It is taken by an incomplete one. *)
RenameOntoPartial(r) ==
    /\ final.there
    /\ ~LooksComplete(final)
    /\ \/ /\ staging[r].there
          /\ final.entries # {}
          /\ Go(r, "renaming", "merging")
       \/ /\ ~staging[r].there
          /\ Go(r, "renaming", "removing")
    /\ UNCHANGED <<final, lock, staging, held, tries, sent, job, crashes, overrun>>

(* There is neither a place nor a staging directory: the rename is retried *)
(* and fails. *)
RenameNothing(r) ==
    /\ Go(r, "renaming", "failing")
    /\ ~staging[r].there
    /\ ~final.there
    /\ UNCHANGED <<final, lock, staging, held, tries, sent, job, crashes, overrun>>

First(entries) == CHOOSE e \in entries : \A f \in entries : e <= f

(* mode2MergeStagingIntoFinal moves the entries one by one ... *)
MergeEntry(r) ==
    /\ pc[r] = "merging"
    /\ final.there
    /\ staging[r].entries # {}
    /\ LET e == First(staging[r].entries) IN
         /\ final' = Dir(final.entries \cup {e})
         /\ staging' = [staging EXCEPT ![r] = Dir(@.entries \ {e})]
    /\ UNCHANGED <<lock, pc, held, tries, sent, job, crashes, overrun>>

Merged(r) ==
    /\ Go(r, "merging", "unlocking")
    /\ staging[r].entries = {}
    /\ staging' = [staging EXCEPT ![r] = None]
    /\ final' = Marked(final)
    /\ UNCHANGED <<lock, held, tries, sent, job, crashes, overrun>>

(* ... and fails when an entry cannot be moved, for one when the directory *)
(* has been taken away; the entries moved before it stay where they are.   *)
MergeFails(r) ==
    /\ Go(r, "merging", "removing")
    /\ DiskErrors \/ ~final.there
    /\ staging[r].entries # {}
    /\ UNCHANGED <<final, lock, staging, held, tries, sent, job, crashes, overrun>>

(* The incomplete directory is removed, and what is staged put in its place. *)
RemoveFinal(r) ==
    /\ Go(r, "removing", "replacing")
    /\ final' = None
    /\ UNCHANGED <<lock, staging, held, tries, sent, job, crashes, overrun>>

Replace(r) ==
    /\ IF staging[r].there /\ final.entries = {}
       THEN /\ Go(r, "replacing", "unlocking")
            /\ final' = Marked(staging[r])
            /\ staging' = [staging EXCEPT ![r] = None]
       ELSE /\ Go(r, "replacing", "failing")
            /\ UNCHANGED <<final, staging>>
    /\ UNCHANGED <<lock, held, tries, sent, job, crashes, overrun>>

(* The deferred removal of the lock file, whoever made it. *)
Unlock(r) ==
    /\ Go(r, "unlocking", "uploading")
    /\ lock' = IF held[r] THEN NoLock ELSE lock
    /\ held' = [held EXCEPT ![r] = FALSE]
    /\ UNCHANGED <<final, staging, tries, sent, job, crashes, overrun>>

-----------------------------------------------------------------------------

(* mode2UploadArtifactsToProviders, in any order *)

Upload(r) ==
    /\ pc[r] = "uploading"
    /\ \E a \in Artifacts \ sent[r] :
         /\ a \in final.entries
         /\ sent' = [sent EXCEPT ![r] = @ \cup {a}]
    /\ UNCHANGED <<final, lock, staging, pc, held, tries, job, crashes, overrun>>

(* An artifact is missing, or a provider does not take it. *)
UploadFails(r) ==
    /\ Go(r, "uploading", "failing")
    /\ UNCHANGED <<final, lock, staging, held, tries, sent, job, crashes, overrun>>

(* The locals of a handler go with it. *)
Returns(r) ==
    /\ tries' = [tries EXCEPT ![r] = 0]
    /\ sent' = [sent EXCEPT ![r] = {}]

(* job.setResult *)
Succeed(r) ==
    /\ Go(r, "uploading", "over")
    /\ sent[r] = Artifacts
    /\ job' = [job EXCEPT ![r] = "success"]
    /\ Returns(r)
    /\ UNCHANGED <<final, lock, staging, held, crashes, overrun>>

(* The job is not told. *)
FailQuietly(r) ==
    /\ Go(r, "failing", "over")
    /\ staging' = [staging EXCEPT ![r] = None]
    /\ lock' = IF held[r] THEN NoLock ELSE lock
    /\ held' = [held EXCEPT ![r] = FALSE]
    /\ Returns(r)
    /\ UNCHANGED <<final, job, crashes, overrun>>

(* The deferred clean-up: the lock, the staging directory, the job. *)
Fail(r) ==
    /\ Go(r, "failing", "over")
    /\ staging' = [staging EXCEPT ![r] = None]
    /\ lock' = IF held[r] THEN NoLock ELSE lock
    /\ held' = [held EXCEPT ![r] = FALSE]
    /\ job' = [job EXCEPT ![r] = "error"]
    /\ Returns(r)
    /\ UNCHANGED <<final, crashes, overrun>>

-----------------------------------------------------------------------------

(* SpUploadMdu, SpUploadShard, SpUploadManifest: the piece is renamed into *)
(* the directory, which is made if need be.                                *)
SpUpload ==
    /\ shared
    /\ \E a \in Artifacts \ final.entries : final' = Dir(final.entries \cup {a})
    /\ UNCHANGED <<lock, staging, pc, held, tries, sent, job, crashes, overrun>>

(* Two minutes pass since the lock file was made, by a request that is gone *)
(* or by one that is still at work.                                        *)
LockAges ==
    /\ lock.there
    /\ ~lock.old
    /\ lock' = [lock EXCEPT !.old = TRUE]
    /\ overrun' = (overrun \/ \E r \in Requests : held[r])
    /\ UNCHANGED <<final, staging, pc, held, tries, sent, job, crashes>>

(* The provider restarts.  What is on disk stays, and no deferred clean-up *)
(* is run; the jobs are forgotten.                                         *)
Crash ==
    /\ crashes < MaxCrashes
    /\ crashes' = crashes + 1
    /\ pc' = [r \in Requests |-> IF pc[r] = "new" THEN "new" ELSE "over"]
    /\ held' = [r \in Requests |-> FALSE]
    /\ tries' = [r \in Requests |-> 0]
    /\ sent' = [r \in Requests |-> {}]
    /\ job' = [r \in Requests |-> "none"]
    /\ UNCHANGED <<final, lock, staging, overrun>>

AcquireLock(r) ==
    FindComplete(r) \/ Discard(r) \/ Look(r) \/ TryLock(r) \/ Wait(r)
    \/ BreakLock(r) \/ Sleep(r)

Finalize(r) ==
    Rename(r) \/ RenameOntoComplete(r) \/ RenameOntoPartial(r) \/ RenameNothing(r)
    \/ MergeEntry(r) \/ Merged(r) \/ MergeFails(r) \/ RemoveFinal(r)
    \/ Replace(r) \/ Unlock(r)

Handle(r) ==
    Build(r) \/ BuildFails(r) \/ AcquireLock(r) \/ Finalize(r)
    \/ Upload(r) \/ UploadFails(r) \/ Succeed(r) \/ Fail(r)

Step ==
    \/ \E r \in Requests : Begin(r) \/ Handle(r)
    \/ SpUpload
    \/ LockAges
    \/ Crash

(* How pieces arrive does not change. *)
Next == Step /\ UNCHANGED shared

Spec == Init /\ [][Next]_vars

(* A handler that has begun goes on. *)
Fairness == \A r \in Requests : WF_stepVars(Handle(r))

FairSpec == Spec /\ Fairness

-----------------------------------------------------------------------------

(* The ranges of the variables. *)
TypeOK ==
    /\ shared \in BOOLEAN
    /\ final \in [there : BOOLEAN, entries : SUBSET Entries]
    /\ lock \in [there : BOOLEAN, old : BOOLEAN]
    /\ staging \in [Requests -> [there : BOOLEAN, entries : SUBSET Entries]]
    /\ pc \in [Requests -> {"new", "building", "looking", "discarding", "locking",
                            "waiting", "breaking", "sleeping", "renaming", "merging",
                            "removing", "replacing", "unlocking", "uploading",
                            "failing", "over"}]
    /\ held \in [Requests -> BOOLEAN]
    /\ tries \in [Requests -> 0 .. MaxTries]
    /\ sent \in [Requests -> SUBSET Artifacts]
    /\ job \in [Requests -> {"none", "running", "success", "error"}]
    /\ crashes \in 0 .. MaxCrashes
    /\ overrun \in BOOLEAN

(* A slab that looks complete is: mode2FinalizeStagingDir throws the staged *)
(* artifacts away on the strength of it.                                   *)
CompleteIsWhole == LooksComplete(final) => Artifacts \subseteq final.entries

(* Once a request has put its slab in place, no other request or restart   *)
(* takes an artifact of it away again.                                     *)
PlacedStaysWhole ==
    \A r \in Requests :
        pc[r] = "uploading" \/ job[r] = "success" => Artifacts \subseteq final.entries

(* The directory of the manifest root has the whole slab or is not taken   *)
(* for complete, and stays so.                                             *)
SlabStaysWhole == CompleteIsWhole /\ PlacedStaysWhole

(* The lock admits one request at a time to the directory, also when it is *)
(* broken after a restart.                                                 *)
LockExcludes == ~overrun => Cardinality({r \in Requests : held[r]}) <= 1

(* Requests that have begun come to an end the poller of their job can see, *)
(* in the end all of them.                                                 *)
JobSettles ==
    (\E r \in Requests : job[r] = "running") ~> (\A r \in Requests : job[r] # "running")

=============================================================================
