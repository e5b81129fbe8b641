----------------------------- MODULE BlazeFiles -----------------------------
(***************************************************************************)
(* The files of a bucket and their blobs: blaze/bucket.go.                 *)
(*                                                                         *)
(* A file is a document that tracks a blob of a service from the moment    *)
(* before its upload to the moment after its deletion.  Users upload files *)
(* and claim them with a key when they save an owner whose link refers to  *)
(* the file; saving and claiming are one transaction.  The cleanup job     *)
(* deletes what is not claimed, and the migration job moves the blob of a  *)
(* claimed file to another service by uploading a second file and swapping *)
(* the two handles.  The steps of all of them interleave.                  *)
(*                                                                         *)
(* The content of a blob is represented by the file it was uploaded as.    *)
(***************************************************************************)
EXTENDS Naturals

CONSTANTS
  Files,      \* the files that may be created: one for each upload
  NoFile,     \* an unset link, an absent blob
  Owners,     \* the models with a link
  NoOwner,    \* the owner of a file that is not claimed
  Services,   \* the services that are used for uploads
  NoHandle,   \* the handle of a file that does not exist
  Cleaners,   \* the workers of the cleanup task
  Retention,  \* the retention of the cleanup task
  UploadTime, \* bound: the longest time an upload takes
  MaxFaults   \* bound: the cleanup jobs that fail

ASSUME BlazeAssumption ==
  /\ NoFile \notin Files
  /\ NoOwner \notin Owners
  /\ NoHandle \notin Services \X Files
  /\ Retention \in Nat

ASSUME BlazeBounds == UploadTime \in Nat /\ MaxFaults \in Nat

VARIABLES
  files,     \* the documents of the files
  blobs,     \* the blobs of the services
  links,     \* the file each owner links to
  uploads,   \* the uploads, by the file they create
  jobs,      \* the files for which a cleanup job is enqueued or running
  cleaners,  \* the cleanup jobs that are being executed
  faults     \* the number of cleanup jobs that have failed

vars == <<files, blobs, links, uploads, jobs, cleaners, faults>>

(* Prepare yields a new handle for every upload.                           *)
Handles == Services \X Files

Service(h) == h[1]

States == {"absent", "uploading", "uploaded", "claimed", "released",
           "deleting"}

(* "age" is the time since Updated.                                        *)
Documents == [state : States, age : 0..(Retention + 1),
              handle : Handles \cup {NoHandle}, owner : Owners \cup {NoOwner}]

Absent == [state |-> "absent", age |-> 0, handle |-> NoHandle,
           owner |-> NoOwner]

(* "begun": inserted; "stored": the blob is complete; "verified"; "keyed": *)
(* a user has the claim key; "copied": ready to be swapped.  "to" is the   *)
(* handle of the upload.  A migration remembers the file it migrates and   *)
(* the handle it has read from.                                            *)
Phases == {"new", "begun", "stored", "verified", "keyed", "copied", "over"}

Uploads == [phase : Phases, time : 0..UploadTime, data : Files \cup {NoFile},
            to : Handles \cup {NoHandle}, original : Files \cup {NoFile},
            from : Handles \cup {NoHandle}]

NewUpload == [phase |-> "new", time |-> 0, data |-> NoFile, to |-> NoHandle,
              original |-> NoFile, from |-> NoHandle]

(* The file as a cleaner has found it; "remove": its blob is absent.       *)
CleanerStates == [phase : {"idle", "found", "remove"},
                  file : Files \cup {NoFile}, state : States,
                  handle : Handles \cup {NoHandle}]

Idle == [phase |-> "idle", file |-> NoFile, state |-> "absent",
         handle |-> NoHandle]

TypeOK ==
  /\ files \in [Files -> Documents]
  /\ blobs \in [Handles -> Files \cup {NoFile}]
  /\ links \in [Owners -> Files \cup {NoFile}]
  /\ uploads \in [Files -> Uploads]
  /\ jobs \subseteq Files
  /\ cleaners \in [Cleaners -> CleanerStates]
  /\ faults \in 0..MaxFaults

Init ==
  /\ files = [f \in Files |-> Absent]
  /\ blobs = [h \in Handles |-> NoFile]
  /\ links = [o \in Owners |-> NoFile]
  /\ uploads = [f \in Files |-> NewUpload]
  /\ jobs = {}
  /\ cleaners = [c \in Cleaners |-> Idle]
  /\ faults = 0

-----------------------------------------------------------------------------

(* Prepare and insert the file.                                            *)
Begin(f, upload) ==
  /\ uploads[f].phase = "new"
  /\ \E s \in Services :
       /\ files' = [files EXCEPT ![f] = [Absent EXCEPT !.state = "uploading",
                                                       !.handle = <<s, f>>]]
       /\ uploads' = [uploads EXCEPT ![f] = [upload EXCEPT !.phase = "begun",
                                                           !.to = <<s, f>>]]
  /\ UNCHANGED <<blobs, links, jobs, cleaners, faults>>

Upload(f) == Begin(f, [NewUpload EXCEPT !.data = f])

(* MigrateFile downloads the file, which has to be claimed, and uploads it *)
(* as another file.                                                        *)
MigrateFile(o, f) ==
  /\ files[o].state = "claimed"
  /\ blobs[files[o].handle] # NoFile
  /\ Begin(f, [NewUpload EXCEPT !.original = o,
                                !.from = files[o].handle,
                                !.data = blobs[files[o].handle]])

Advance(f, phase) == uploads' = [uploads EXCEPT ![f].phase = phase]

(* The blob is complete once the upload has been closed.                   *)
Store(f) ==
  /\ uploads[f].phase = "begun"
  /\ blobs' = [blobs EXCEPT ![uploads[f].to] = uploads[f].data]
  /\ Advance(f, "stored")
  /\ UNCHANGED <<files, links, jobs, cleaners, faults>>

(* The blob is looked up and its last byte is downloaded.                  *)
Verify(f) ==
  /\ uploads[f].phase = "stored"
  /\ blobs[uploads[f].to] # NoFile
  /\ Advance(f, "verified")
  /\ UNCHANGED <<files, blobs, links, jobs, cleaners, faults>>

Exists(f) == files[f].state # "absent"

(* The update is by ID: the state of the file is not compared, and a file  *)
(* that is missing goes unnoticed.  A user gets the claim key.             *)
Finish(f) ==
  /\ uploads[f].phase = "verified"
  /\ files' = IF Exists(f)
              THEN [files EXCEPT ![f].state = "uploaded", ![f].age = 0]
              ELSE files
  /\ Advance(f, IF uploads[f].original = NoFile THEN "keyed" ELSE "copied")
  /\ UNCHANGED <<blobs, links, jobs, cleaners, faults>>

(* An upload is aborted, or fails: the file is left to the cleanup.        *)
Abort(f) ==
  /\ uploads[f].phase \in {"begun", "stored", "verified", "copied"}
  /\ Advance(f, "over")
  /\ UNCHANGED <<files, blobs, links, jobs, cleaners, faults>>

(* The filters of the two updates of the transaction that swaps.           *)
Unswapped(u, f) ==
  /\ files[u.original].state = "claimed"
  /\ files[u.original].handle = u.from
  /\ files[f].state = "uploaded"
  /\ files[f].handle = u.to

(* Mutated: the copy keeps the handle it has given away.                   *)
SwapOneHandle(f) ==
  LET u == uploads[f] IN
  /\ u.phase = "copied"
  /\ IF Service(u.from) # Service(u.to) /\ Unswapped(u, f)
     THEN files' = [files EXCEPT
                      ![u.original].handle = u.to,
                      ![u.original].age = 0,
                      ![f].state = "released", ![f].age = 0]
     ELSE UNCHANGED files
  /\ Advance(f, "over")
  /\ UNCHANGED <<blobs, links, jobs, cleaners, faults>>

(* The copy becomes the file of the old blob and is released.              *)
Swap(f) ==
  LET u == uploads[f] IN
  /\ u.phase = "copied"
  /\ IF Service(u.from) # Service(u.to) /\ Unswapped(u, f)
     THEN files' = [files EXCEPT
                      ![u.original].handle = u.to,
                      ![u.original].age = 0,
                      ![f].state = "released", ![f].handle = u.from,
                      ![f].age = 0]
     ELSE UNCHANGED files
  /\ Advance(f, "over")
  /\ UNCHANGED <<blobs, links, jobs, cleaners, faults>>

-----------------------------------------------------------------------------

(* A user has the claim key of the file, and it has the state "uploaded".  *)
Claimable(f) == uploads[f].phase = "keyed" /\ files[f].state = "uploaded"

ClaimFile(fs, f, o) ==
  [fs EXCEPT ![f].state = "claimed", ![f].owner = o, ![f].age = 0]

(* Mutated: a released file may be claimed again.                          *)
ReuseFile(fs, f) ==
  [fs EXCEPT ![f].state = "uploaded", ![f].owner = NoOwner, ![f].age = 0]

ReleaseFile(fs, f) ==
  [fs EXCEPT ![f].state = "released", ![f].owner = NoOwner, ![f].age = 0]

(***************************************************************************)
(* An owner is saved with a link to the file of a claim key, or deleted.   *)
(* The file it has linked to is released.  If either fails the transaction *)
(* is aborted and nothing changes.                                         *)
(***************************************************************************)
ModifyLink(o, new) ==
  LET old == links[o]
      released == IF old = NoFile THEN files ELSE ReleaseFile(files, old)
  IN
  /\ new = NoFile => old # NoFile
  /\ old # NoFile => files[old].state = "claimed"
  /\ new # NoFile => Claimable(new)
  /\ files' = IF new = NoFile THEN released ELSE ClaimFile(released, new, o)
  /\ links' = [links EXCEPT ![o] = new]
  /\ UNCHANGED <<blobs, uploads, jobs, cleaners, faults>>

-----------------------------------------------------------------------------

(* Mutated: the retention is not considered.                               *)
ExpiredAlways(f) == Exists(f) /\ files[f].state # "claimed"

(* What the scan looks for.                                                *)
Expired(f) ==
  \/ files[f].state \in {"uploading", "uploaded"} /\ files[f].age > Retention
  \/ files[f].state \in {"released", "deleting"}

(* Mutated: only files that have not been claimed are scanned.             *)
ScanUnclaimed(f) ==
  /\ files[f].state \in {"uploading", "uploaded"} /\ files[f].age > Retention
  /\ f \notin jobs
  /\ jobs' = jobs \cup {f}
  /\ UNCHANGED <<files, blobs, links, uploads, cleaners, faults>>

(* The scan enqueues a job unless there is one for the file.               *)
Scan(f) ==
  /\ Expired(f)
  /\ f \notin jobs
  /\ jobs' = jobs \cup {f}
  /\ UNCHANGED <<files, blobs, links, uploads, cleaners, faults>>

Done(c) ==
  /\ cleaners' = [cleaners EXCEPT ![c] = Idle]
  /\ jobs' = jobs \ {cleaners[c].file}

(* CleanupFile finds the file.  A job whose timeout has been reached may be*)
(* executed by two cleaners.  A file that is missing or claimed is an error*)
(* and ends the job.                                                       *)
Find(c) ==
  /\ cleaners[c].phase = "idle"
  /\ \E f \in jobs :
       IF files[f].state \in {"absent", "claimed"}
       THEN jobs' = jobs \ {f} /\ UNCHANGED cleaners
       ELSE /\ cleaners' = [cleaners EXCEPT
                 ![c] = [phase |-> "found", file |-> f,
                         state |-> files[f].state,
                         handle |-> files[f].handle]]
            /\ UNCHANGED jobs
  /\ UNCHANGED <<files, blobs, links, uploads, faults>>

(* Mutated: the state the file has been found in is not compared.          *)
FoundStateAny(c) == Exists(cleaners[c].file)

FoundState(c) == files[cleaners[c].file].state = cleaners[c].state

(* The first step marks the file.  Updated does not change.                *)
Mark(c) ==
  /\ cleaners[c].phase = "found"
  /\ cleaners[c].state # "deleting"
  /\ files' = IF FoundState(c)
              THEN [files EXCEPT ![cleaners[c].file].state = "deleting"]
              ELSE files
  /\ Done(c)
  /\ UNCHANGED <<blobs, links, uploads, faults>>

(* Mutated: the file is deleted although its blob is not.                  *)
DeleteAtOnce(c) ==
  /\ cleaners[c].phase = "found"
  /\ cleaners[c].state = "deleting"
  /\ cleaners' = [cleaners EXCEPT ![c].phase = "remove"]
  /\ UNCHANGED <<files, blobs, links, uploads, jobs, faults>>

(* The second step deletes the blob: "return if blob is not yet absent".   *)
DeleteBlob(c) ==
  /\ cleaners[c].phase = "found"
  /\ cleaners[c].state = "deleting"
  /\ IF blobs[cleaners[c].handle] # NoFile
     THEN blobs' = [blobs EXCEPT ![cleaners[c].handle] = NoFile] /\ Done(c)
     ELSE /\ cleaners' = [cleaners EXCEPT ![c].phase = "remove"]
          /\ UNCHANGED <<blobs, jobs>>
  /\ UNCHANGED <<files, links, uploads, faults>>

(* The last step deletes the file by its ID.                               *)
DeleteFile(c) ==
  /\ cleaners[c].phase = "remove"
  /\ files' = [files EXCEPT ![cleaners[c].file] = Absent]
  /\ Done(c)
  /\ UNCHANGED <<blobs, links, uploads, faults>>

(* A job fails; the next scan enqueues another one.                        *)
Fail(c) ==
  /\ cleaners[c].phase # "idle"
  /\ faults < MaxFaults
  /\ faults' = faults + 1
  /\ Done(c)
  /\ UNCHANGED <<files, blobs, links, uploads>>

-----------------------------------------------------------------------------

Running(f) == uploads[f].phase \in {"begun", "stored", "verified"}

(* bound: ages beyond the retention are not told apart.                    *)
Aged(doc) ==
  IF doc.state \in {"uploading", "uploaded"} /\ doc.age <= Retention
  THEN [doc EXCEPT !.age = @ + 1] ELSE doc

Tick ==
  /\ \A f \in Files : Running(f) => uploads[f].time < UploadTime
  /\ files' = [f \in Files |-> Aged(files[f])]
  /\ uploads' = [f \in Files |->
                   IF Running(f) THEN [uploads[f] EXCEPT !.time = @ + 1]
                   ELSE uploads[f]]
  /\ UNCHANGED <<blobs, links, jobs, cleaners, faults>>

UploadStep(f) == Store(f) \/ Verify(f) \/ Finish(f) \/ Abort(f) \/ Swap(f)

CleanerStep(c) ==
  Find(c) \/ Mark(c) \/ DeleteBlob(c) \/ DeleteFile(c)

Next ==
  \/ \E f \in Files : Upload(f) \/ UploadStep(f) \/ Scan(f)
  \/ \E o, f \in Files : MigrateFile(o, f)
  \/ \E o \in Owners, f \in Files \cup {NoFile} : ModifyLink(o, f)
  \/ \E c \in Cleaners : CleanerStep(c) \/ Fail(c)
  \/ Tick

Spec == Init /\ [][Next]_vars

(* The cleanup task is periodic, its workers run, time passes, and uploads *)
(* and migrations come to an end.                                          *)
Fairness ==
  /\ WF_vars(Tick)
  /\ \A f \in Files : WF_vars(UploadStep(f)) /\ WF_vars(Scan(f))
  /\ \A c \in Cleaners : WF_vars(CleanerStep(c))

FairSpec == Spec /\ Fairness

-----------------------------------------------------------------------------

(* Uploads take less time than the retention.                              *)
Timely == UploadTime <= Retention

(* A link and a claimed file belong together, one to one: no file is       *)
(* claimed twice, and no file stays claimed without a link to it.  "The    *)
(* released link must be persisted in the same transaction".               *)
LinksClaim ==
  Timely =>
    /\ \A o \in Owners : links[o] # NoFile =>
         files[links[o]].state = "claimed" /\ files[links[o]].owner = o
    /\ \A f \in Files : files[f].state = "claimed" =>
         files[f].owner \in Owners /\ links[files[f].owner] = f

(* What is linked can be downloaded, and it is what was uploaded: neither  *)
(* the cleanup nor a migration deletes or replaces the blob of a link.     *)
LinksServed ==
  Timely =>
    \A o \in Owners : links[o] # NoFile =>
      blobs[files[links[o]].handle] = links[o]

(* No two files track the same blob: a cleanup deletes only its own.       *)
OneTracker ==
  \A f, g \in Files :
    Exists(f) /\ Exists(g) /\ files[f].handle = files[g].handle => f = g

FilesInv == TypeOK /\ LinksClaim /\ OneTracker

(* Every blob is tracked by a file, so that it can be deleted: "must be    *)
(* called outside a transaction to ensure the uploaded file is tracked".   *)
BlobsTracked ==
  Timely =>
    \A h \in Handles : blobs[h] # NoFile =>
      \E f \in Files : Exists(f) /\ files[f].handle = h

(* "the state of a file always moves forward by one step, but it may also  *)
(* jump directly to deleting".  A migration skips "claimed".               *)
Rank(state) ==
  CASE state = "uploading" -> 1 [] state = "uploaded" -> 2
    [] state = "claimed" -> 3 [] state = "released" -> 4
    [] state = "deleting" -> 5 [] state = "absent" -> 6

StateForward ==
  [][Timely => \A f \in Files :
       Exists(f) => Rank(files'[f].state) >= Rank(files[f].state)]_vars

(* The cleanup only takes "files in the uploading or uploaded state older  *)
(* than the specified retention".                                          *)
RetentionHonored ==
  [][Timely => \A f \in Files :
       /\ files[f].state \in {"uploading", "uploaded"}
       /\ files'[f].state = "deleting"
       => files[f].age > Retention]_vars

(* A file that is not claimed is claimed or deleted in the end.            *)
EventuallyReclaimed ==
  \A f \in Files :
    Exists(f) /\ files[f].state # "claimed"
      ~> ~Exists(f) \/ files[f].state = "claimed"

=============================================================================
