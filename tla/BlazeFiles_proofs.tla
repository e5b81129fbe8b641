------------------------- MODULE BlazeFiles_proofs -------------------------
(***************************************************************************)
(* Proofs that uploads, claims, migrations and cleanups of BlazeFiles keep *)
(* files, blobs and links together however their steps interleave.         *)
(***************************************************************************)
EXTENDS BlazeFiles, TLAPS

(* Every upload has a handle of its own.                                   *)
Origin(h) == h[2]

Fresh(f) == uploads[f].phase = "new"

(* A file that exists tracks a handle some upload has been given.          *)
Tracked ==
  /\ \A f \in Files : Exists(f) => /\ files[f].handle \in Handles
                                   /\ ~Fresh(Origin(files[f].handle))
  /\ \A f \in Files : ~Fresh(f) => /\ uploads[f].to \in Handles
                                   /\ Origin(uploads[f].to) = f
  /\ \A f \in Files : Fresh(f) => ~Exists(f)

(* What uploads and cleaners that have come so far are about.              *)
Roles ==
  /\ \A f \in Files : /\ uploads[f].phase = "keyed" =>
                           uploads[f].original = NoFile
                      /\ uploads[f].phase = "copied" =>
                           uploads[f].original # NoFile
  /\ \A c \in Cleaners : cleaners[c].phase # "idle" =>
       /\ cleaners[c].file \in Files
       /\ cleaners[c].state \notin {"absent", "claimed"}
       /\ cleaners[c].phase = "remove" => cleaners[c].state = "deleting"

(* What an upload stores: the file, or the one it is a copy of.            *)
Purpose(f) ==
  ~Fresh(f) => uploads[f].data = IF uploads[f].original = NoFile
                                 THEN f ELSE uploads[f].original

(* The blob of the upload is complete, and the file has not been passed on.*)
Complete(f) ==
  \/ uploads[f].phase \in {"stored", "verified"}
  \/ uploads[f].phase \in {"keyed", "copied"} /\ files[f].state = "uploaded"

(* A file that is being uploaded is younger than the retention: no cleanup *)
(* has seen it.  Until it is claimed or swapped it tracks its own blob.    *)
Progress(f) ==
  /\ Running(f) => /\ files[f].state = "uploading"
                   /\ files[f].age <= uploads[f].time
                   /\ files[f].handle = uploads[f].to
                   /\ f \notin jobs
                   /\ \A c \in Cleaners : cleaners[c].phase # "idle" =>
                        cleaners[c].file # f
  /\ Complete(f) => /\ files[f].handle = uploads[f].to
                    /\ blobs[uploads[f].to] = uploads[f].data

(* What is not claimed when a cleanup has begun is too old.                *)
Old(f) ==
  files[f].state \in {"uploading", "uploaded"} => files[f].age > Retention

(* A file that a cleaner has found marked is marked or gone, and no other  *)
(* tracks its blob.                                                        *)
Doomed(c) ==
  LET f == cleaners[c].file
      h == cleaners[c].handle
  IN /\ files[f].state \in {"deleting", "absent"}
     /\ Exists(f) => files[f].handle = h
     /\ h \in Handles /\ ~Fresh(Origin(h))
     /\ \A g \in Files : Exists(g) /\ files[g].handle = h => g = f

Cleaning(c) ==
  cleaners[c].phase # "idle" =>
    /\ ~Fresh(cleaners[c].file)
    /\ Old(cleaners[c].file)
    /\ cleaners[c].state = "deleting" => Doomed(c)
    /\ cleaners[c].phase = "remove" => blobs[cleaners[c].handle] = NoFile

(* A claimed file has its own content.                                     *)
Content ==
  \A f \in Files : files[f].state = "claimed" => blobs[files[f].handle] = f

Timed ==
  /\ \A f \in Files : Purpose(f) /\ Progress(f)
  /\ \A f \in jobs : ~Fresh(f) /\ Old(f)
  /\ \A c \in Cleaners : Cleaning(c)
  /\ Content
  /\ LinksClaim
  /\ BlobsTracked

IInv ==
  /\ TypeOK
  /\ OneTracker
  /\ Tracked
  /\ Roles
  /\ Timely => Timed

-----------------------------------------------------------------------------

LEMMA HandleOf ==
  ASSUME NEW s \in Services, NEW f \in Files
  PROVE  <<s, f>> \in Handles /\ Origin(<<s, f>>) = f /\ <<s, f>> # NoHandle
BY BlazeAssumption DEF Handles, Origin

LEMMA HandleOrigin ==
  /\ \A h \in Handles : Origin(h) \in Files
  /\ NoHandle \notin Handles
BY BlazeAssumption DEF Handles, Origin

(* What the proofs use of the types.                                       *)
LEMMA Types ==
  ASSUME TypeOK
  PROVE  /\ \A f \in Files :
              /\ files[f] \in Documents
              /\ files[f].state \in States /\ files[f].age \in Nat
              /\ files[f].handle \in Handles \cup {NoHandle}
              /\ uploads[f] \in Uploads
              /\ uploads[f].phase \in Phases /\ uploads[f].time \in 0..UploadTime
              /\ uploads[f].original \in Files \cup {NoFile}
              /\ uploads[f].data \in Files \cup {NoFile}
              /\ uploads[f].to \in Handles \cup {NoHandle}
         /\ \A c \in Cleaners :
              /\ cleaners[c] \in CleanerStates
              /\ cleaners[c].phase \in {"idle", "found", "remove"}
              /\ cleaners[c].file \in Files \cup {NoFile}
              /\ cleaners[c].handle \in Handles \cup {NoHandle}
         /\ \A h \in Handles : blobs[h] \in Files \cup {NoFile}
         /\ \A o \in Owners : links[o] \in Files \cup {NoFile}
         /\ Retention \in Nat /\ UploadTime \in Nat
         /\ NoFile \notin Files /\ NoOwner \notin Owners
<1>1. Retention \in Nat /\ UploadTime \in Nat /\ NoFile \notin Files
      /\ NoOwner \notin Owners
  BY BlazeAssumption, BlazeBounds
<1>2. /\ \A f \in Files : files[f] \in Documents /\ uploads[f] \in Uploads
      /\ \A c \in Cleaners : cleaners[c] \in CleanerStates
      /\ \A h \in Handles : blobs[h] \in Files \cup {NoFile}
      /\ \A o \in Owners : links[o] \in Files \cup {NoFile}
  BY DEF TypeOK
<1>3. \A f \in Files : /\ files[f].state \in States /\ files[f].age \in Nat
                       /\ files[f].handle \in Handles \cup {NoHandle}
  <2> SUFFICES ASSUME NEW f \in Files
               PROVE  /\ files[f].state \in States /\ files[f].age \in Nat
                      /\ files[f].handle \in Handles \cup {NoHandle}
    OBVIOUS
  <2>1. /\ files[f].state \in States /\ files[f].age \in 0..(Retention + 1)
        /\ files[f].handle \in Handles \cup {NoHandle}
    BY <1>2 DEF Documents
  <2> QED
    BY <2>1, <1>1
<1>4. \A f \in Files :
        /\ uploads[f].phase \in Phases /\ uploads[f].time \in 0..UploadTime
        /\ uploads[f].original \in Files \cup {NoFile}
        /\ uploads[f].data \in Files \cup {NoFile}
        /\ uploads[f].to \in Handles \cup {NoHandle}
  BY <1>2 DEF Uploads
<1>5. \A c \in Cleaners :
        /\ cleaners[c].phase \in {"idle", "found", "remove"}
        /\ cleaners[c].file \in Files \cup {NoFile}
        /\ cleaners[c].handle \in Handles \cup {NoHandle}
  BY <1>2 DEF CleanerStates
<1> QED
  BY <1>1, <1>2, <1>3, <1>4, <1>5

LEMMA RecordTypes ==
  Absent \in Documents /\ NewUpload \in Uploads /\ Idle \in CleanerStates
BY BlazeAssumption, BlazeBounds
   DEF Absent, Documents, States, NewUpload, Uploads, Phases, Idle,
       CleanerStates

LEMMA InitInv == Init => IInv
<1> SUFFICES ASSUME Init PROVE IInv
  OBVIOUS
<1>1. TypeOK
  BY RecordTypes, BlazeBounds DEF Init, TypeOK
<1>2. \A f \in Files : ~Exists(f) /\ Fresh(f) /\ ~Running(f) /\ ~Complete(f)
  BY DEF Init, Exists, Fresh, Running, Complete, Absent, NewUpload
<1>3. OneTracker /\ Tracked
  BY <1>2 DEF OneTracker, Tracked
<1>4. \A f \in Files : Purpose(f) /\ Progress(f)
  BY <1>2 DEF Purpose, Progress, Init, NewUpload
<1>5. (\A f \in jobs : ~Fresh(f) /\ Old(f)) /\ \A c \in Cleaners : Cleaning(c)
  BY DEF Init, Cleaning, Idle
<1>6. Content /\ LinksClaim /\ BlobsTracked
  BY DEF Init, Content, LinksClaim, BlobsTracked, Absent
<1>7. Roles
  BY DEF Init, Roles, NewUpload, Idle
<1> QED
  BY <1>1, <1>3, <1>4, <1>5, <1>6, <1>7 DEF IInv, Timed

-----------------------------------------------------------------------------

(* An upload that has become a phase further.                              *)
LEMMA AdvanceType ==
  ASSUME TypeOK, NEW f \in Files, NEW phase \in Phases, Advance(f, phase)
  PROVE  /\ uploads' \in [Files -> Uploads]
         /\ \A g \in Files \ {f} : uploads'[g] = uploads[g]
         /\ uploads'[f].phase = phase
         /\ uploads'[f].to = uploads[f].to
         /\ uploads'[f].time = uploads[f].time
         /\ uploads'[f].data = uploads[f].data
         /\ uploads'[f].original = uploads[f].original
         /\ uploads'[f].from = uploads[f].from
BY DEF TypeOK, Advance, Uploads

(* A cleaner that is done.                                                 *)
LEMMA DoneType ==
  ASSUME TypeOK, NEW c \in Cleaners, Done(c)
  PROVE  /\ cleaners' \in [Cleaners -> CleanerStates]
         /\ \A d \in Cleaners : cleaners'[d].phase # "idle" =>
              d # c /\ cleaners'[d] = cleaners[d]
         /\ jobs' \subseteq jobs
BY RecordTypes DEF TypeOK, Done, Idle

(* What the steps that neither insert nor delete a file, and do not swap,  *)
(* leave of the handles.                                                   *)
LEMMA HandlesKept ==
  ASSUME OneTracker, Tracked,
         \A f \in Files : /\ Exists(f)' <=> Exists(f)
                          /\ files'[f].handle = files[f].handle
                          /\ Fresh(f)' <=> Fresh(f)
                          /\ uploads'[f].to = uploads[f].to
  PROVE  OneTracker' /\ Tracked'
<1>1. OneTracker'
  BY DEF OneTracker
<1>2. Tracked'
  BY HandleOrigin DEF Tracked
<1> QED
  BY <1>1, <1>2


-----------------------------------------------------------------------------

LEMMA BeginInv ==
  ASSUME IInv, NEW f \in Files, NEW upload \in Uploads, Begin(f, upload),
         upload.time = 0,
         Timely => upload.data = IF upload.original = NoFile
                                 THEN f ELSE upload.original
  PROVE  IInv'
<1>0. TypeOK /\ OneTracker /\ Tracked /\ Roles
  BY DEF IInv
<1> PICK s \in Services :
      /\ files' = [files EXCEPT ![f] = [Absent EXCEPT !.state = "uploading",
                                                      !.handle = <<s, f>>]]
      /\ uploads' = [uploads EXCEPT ![f] = [upload EXCEPT !.phase = "begun",
                                                          !.to = <<s, f>>]]
  BY DEF Begin
<1> DEFINE h == <<s, f>>
<1>h. h \in Handles /\ Origin(h) = f
  BY HandleOf
<1> HIDE DEF h
<1>a. /\ files' \in [Files -> Documents]
      /\ \A g \in Files \ {f} : files'[g] = files[g]
      /\ files'[f].state = "uploading" /\ files'[f].age = 0
      /\ files'[f].handle = h
  BY <1>0, <1>h, RecordTypes DEF TypeOK, Documents, States, Absent, h
<1>b. /\ uploads' \in [Files -> Uploads]
      /\ \A g \in Files \ {f} : uploads'[g] = uploads[g]
      /\ uploads'[f].phase = "begun" /\ uploads'[f].to = h
      /\ uploads'[f].time = 0
      /\ uploads'[f].data = upload.data
      /\ uploads'[f].original = upload.original
  BY <1>0, <1>h DEF TypeOK, Uploads, Phases, h
<1>c. Fresh(f) /\ ~Exists(f)
      /\ UNCHANGED <<blobs, links, jobs, cleaners, faults>>
  BY <1>0 DEF Begin, Fresh, Tracked
<1>d. \A g \in Files : Exists(g) => g # f
  BY <1>c
<1>e. \A x \in Files : ~Fresh(x) => x # f /\ ~Fresh(x)'
  BY <1>b, <1>c DEF Fresh
<1>1. TypeOK'
  BY <1>0, <1>a, <1>b, <1>c DEF TypeOK
<1>n. \A g \in Files : Exists(g) => files[g].handle # h
  BY <1>0, <1>c, <1>h DEF Tracked
<1>2. OneTracker'
  BY <1>0, <1>a, <1>n DEF OneTracker, Exists
<1>3. Tracked'
  <2>1. ASSUME NEW g \in Files, Exists(g)'
        PROVE  (files[g].handle \in Handles /\ ~Fresh(Origin(files[g].handle)))'
    <3>1. CASE g = f
      BY <3>1, <1>a, <1>b, <1>h DEF Fresh
    <3>2. CASE g # f
      BY <2>1, <3>2, <1>0, <1>a, <1>e, HandleOrigin
         DEF Tracked, Exists, Fresh
    <3> QED
      BY <3>1, <3>2
  <2>2. ASSUME NEW g \in Files, ~Fresh(g)'
        PROVE  uploads'[g].to \in Handles /\ Origin(uploads'[g].to) = g
    BY <2>2, <1>0, <1>b, <1>h DEF Tracked, Fresh
  <2>3. ASSUME NEW g \in Files, Fresh(g)'
        PROVE  ~Exists(g)'
    BY <2>3, <1>0, <1>a, <1>b DEF Tracked, Fresh, Exists
  <2> QED
    BY <2>1, <2>2, <2>3 DEF Tracked
<1>5. Roles'
  BY <1>0, <1>b, <1>c DEF Roles
<1>4. ASSUME Timely
      PROVE  Timed'
  <2>0. Timed
    BY <1>4 DEF IInv
  <2>1. ASSUME NEW g \in Files
        PROVE  Purpose(g)' /\ Progress(g)'
    <3>1. CASE g = f
      <4>1. Purpose(f)'
        BY <1>4, <1>b DEF Purpose, Fresh
      <4>2. ~Complete(f)'
        BY <1>b DEF Complete
      <4>3. f \notin jobs
            /\ \A c \in Cleaners : cleaners[c].phase # "idle" =>
                 cleaners[c].file # f
        BY <2>0, <1>c DEF Timed, Cleaning, Fresh
      <4> QED
        BY <3>1, <4>1, <4>2, <4>3, <1>a, <1>b, <1>c DEF Progress
    <3>2. CASE g # f
      BY <3>2, <2>0, <1>a, <1>b, <1>c
         DEF Timed, Purpose, Progress, Running, Complete, Fresh
    <3> QED
      BY <3>1, <3>2
  <2>2. ASSUME NEW g \in jobs'
        PROVE  ~Fresh(g)' /\ Old(g)'
    BY <2>0, <1>0, <1>a, <1>c, <1>e DEF Timed, Old, TypeOK
  <2>3. ASSUME NEW c \in Cleaners
        PROVE  Cleaning(c)'
    <3>1. Cleaning(c)
      BY <2>0 DEF Timed
    <3>2. CASE cleaners[c].phase = "idle"
      BY <3>2, <1>c DEF Cleaning
    <3>3. CASE cleaners[c].phase # "idle"
      <4>1. cleaners[c].file \in Files /\ cleaners[c].file # f
        BY <3>1, <3>3, <1>0, <1>c DEF Cleaning, Roles
      <4>2. Doomed(c) => Doomed(c)'
        <5> SUFFICES ASSUME Doomed(c) PROVE Doomed(c)'
          OBVIOUS
        <5>1. cleaners[c].handle # h
          BY <1>c, <1>h DEF Doomed
        <5>2. ~Fresh(Origin(cleaners[c].handle))'
          BY <1>c, <1>e, HandleOrigin DEF Doomed, Fresh
        <5> QED
          BY <4>1, <5>1, <5>2, <1>a, <1>c DEF Doomed, Exists
      <4> QED
        BY <3>1, <3>3, <4>1, <4>2, <1>a, <1>c, <1>e DEF Cleaning, Old
    <3> QED
      BY <3>2, <3>3
  <2>4. Content'
    BY <2>0, <1>a, <1>c DEF Timed, Content
  <2>5. LinksClaim'
    <3>1. \A o \in Owners : links[o] # NoFile => links[o] \in Files \ {f}
      BY <2>0, <1>0, <1>4, <1>c, Types DEF Timed, LinksClaim, Exists
    <3> QED
      BY <3>1, <2>0, <1>4, <1>a, <1>c DEF Timed, LinksClaim
  <2>6. BlobsTracked'
    BY <2>0, <1>4, <1>a, <1>c, <1>d DEF Timed, BlobsTracked, Exists
  <2> QED
    BY <2>1, <2>2, <2>3, <2>4, <2>5, <2>6 DEF Timed
<1> QED
  BY <1>1, <1>2, <1>3, <1>4, <1>5 DEF IInv, Timely

LEMMA UploadInv == ASSUME IInv, NEW f \in Files, Upload(f) PROVE IInv'
<1> DEFINE upload == [NewUpload EXCEPT !.data = f]
<1>1. upload \in Uploads /\ upload.time = 0 /\ upload.data = f
      /\ upload.original = NoFile
  BY RecordTypes DEF NewUpload, Uploads
<1>2. Begin(f, upload)
  BY DEF Upload
<1> HIDE DEF upload
<1> QED
  BY <1>1, <1>2, BeginInv

(* A migration copies the blob of a claimed file, which is its own.        *)
LEMMA MigrateInv ==
  ASSUME IInv, NEW o \in Files, NEW f \in Files, MigrateFile(o, f)
  PROVE  IInv'
<1>0. TypeOK
  BY DEF IInv
<1> DEFINE upload == [NewUpload EXCEPT !.original = o,
                                       !.from = files[o].handle,
                                       !.data = blobs[files[o].handle]]
<1>1. files[o].state = "claimed" /\ Begin(f, upload)
  BY DEF MigrateFile
<1>2. files[o].handle \in Handles
  BY <1>1 DEF IInv, Tracked, Exists
<1>3. blobs[files[o].handle] \in Files \cup {NoFile}
  BY <1>0, <1>2, Types
<1>4. upload \in Uploads /\ upload.time = 0 /\ upload.original = o
      /\ upload.data = blobs[files[o].handle]
  BY <1>2, <1>3, RecordTypes DEF NewUpload, Uploads
<1>5. Timely => blobs[files[o].handle] = o
  BY <1>1 DEF IInv, Timed, Content
<1>6. o # NoFile
  BY <1>0, Types
<1> HIDE DEF upload
<1> QED
  BY <1>1, <1>4, <1>5, <1>6, BeginInv

-----------------------------------------------------------------------------

(* The blob that is complete is the one of the file that is uploaded.      *)
LEMMA StoreInv == ASSUME IInv, NEW f \in Files, Store(f) PROVE IInv'
<1>0. TypeOK /\ OneTracker /\ Tracked /\ Roles
  BY DEF IInv
<1>a. /\ uploads[f].phase = "begun"
      /\ blobs' = [blobs EXCEPT ![uploads[f].to] = uploads[f].data]
      /\ Advance(f, "stored")
      /\ UNCHANGED <<files, links, jobs, cleaners, faults>>
  BY DEF Store
<1>b. /\ uploads' \in [Files -> Uploads]
      /\ \A g \in Files \ {f} : uploads'[g] = uploads[g]
      /\ uploads'[f].phase = "stored"
      /\ uploads'[f].to = uploads[f].to
      /\ uploads'[f].time = uploads[f].time
      /\ uploads'[f].data = uploads[f].data
      /\ uploads'[f].original = uploads[f].original
  BY <1>0, <1>a, AdvanceType DEF Phases
<1>c. ~Fresh(f) /\ uploads[f].to \in Handles /\ Origin(uploads[f].to) = f
  BY <1>0, <1>a DEF Tracked, Fresh
<1>d. /\ blobs' \in [Handles -> Files \cup {NoFile}]
      /\ blobs'[uploads[f].to] = uploads[f].data
      /\ \A h \in Handles : h # uploads[f].to => blobs'[h] = blobs[h]
  BY <1>0, <1>a, <1>c, Types DEF TypeOK
<1>1. TypeOK'
  BY <1>0, <1>a, <1>b, <1>d DEF TypeOK
<1>e. \A g \in Files : Fresh(g)' <=> Fresh(g)
  BY <1>a, <1>b DEF Fresh
<1>2. OneTracker' /\ Tracked'
  BY <1>0, <1>a, <1>b, <1>e, HandlesKept DEF Exists
<1>3. Roles'
  BY <1>0, <1>a, <1>b DEF Roles
<1>4. ASSUME Timely
      PROVE  Timed'
  <2>0. Timed
    BY <1>4 DEF IInv
  <2>f. /\ files[f].state = "uploading" /\ files[f].handle = uploads[f].to
        /\ Exists(f)
    BY <2>0, <1>a DEF Timed, Progress, Running, Exists
  <2>1. ASSUME NEW g \in Files
        PROVE  Purpose(g)' /\ Progress(g)'
    <3>1. CASE g = f
      BY <3>1, <2>0, <2>f, <1>a, <1>b, <1>c, <1>d
         DEF Timed, Purpose, Progress, Running, Fresh
    <3>2. CASE g # f
      <4>1. Complete(g) => uploads[g].to \in Handles
                           /\ uploads[g].to # uploads[f].to
        BY <3>2, <1>0, <1>c DEF Complete, Tracked, Fresh
      <4> QED
        BY <3>2, <4>1, <2>0, <1>a, <1>b, <1>d
           DEF Timed, Purpose, Progress, Running, Complete, Fresh
    <3> QED
      BY <3>1, <3>2
  <2>2. \A g \in jobs' : ~Fresh(g)' /\ Old(g)'
    BY <2>0, <1>0, <1>a, <1>e DEF Timed, Old, TypeOK
  <2>3. ASSUME NEW c \in Cleaners, cleaners[c].phase # "idle"
        PROVE  Cleaning(c)'
    <3>1. Cleaning(c) /\ cleaners[c].file \in Files
      BY <2>0, <2>3, <1>0 DEF Timed, Roles
    <3>2. Doomed(c) => /\ cleaners[c].handle \in Handles
                       /\ cleaners[c].handle # uploads[f].to
      BY <2>f DEF Doomed
    <3>3. Doomed(c) => Doomed(c)'
      BY <1>a, <1>e, HandleOrigin DEF Doomed, Exists, Fresh
    <3> QED
      BY <3>1, <3>2, <3>3, <2>3, <1>0, <1>a, <1>d, <1>e
         DEF Cleaning, Old, Roles
  <2>4. Content'
    BY <2>0, <2>f, <1>0, <1>a, <1>d
       DEF Timed, Content, OneTracker, Exists, Tracked
  <2>5. LinksClaim'
    BY <2>0, <1>a DEF Timed, LinksClaim, Timely
  <2>6. BlobsTracked'
    BY <2>0, <2>f, <1>4, <1>a, <1>d DEF Timed, BlobsTracked, Exists
  <2>7. \A c \in Cleaners : Cleaning(c)'
    BY <2>3, <1>a DEF Cleaning
  <2> QED
    BY <2>1, <2>2, <2>7, <2>4, <2>5, <2>6 DEF Timed
<1> QED
  BY <1>1, <1>2, <1>3, <1>4 DEF IInv, Timely

(* An upload that is verified, and one that ends without a change.         *)
LEMMA PhaseInv ==
  ASSUME IInv, NEW f \in Files, NEW phase \in {"verified", "over"},
         ~Fresh(f), phase = "verified" => uploads[f].phase = "stored",
         Advance(f, phase),
         UNCHANGED <<files, blobs, links, jobs, cleaners, faults>>
  PROVE  IInv'
<1>0. TypeOK /\ OneTracker /\ Tracked /\ Roles
  BY DEF IInv
<1>b. /\ uploads' \in [Files -> Uploads]
      /\ \A g \in Files \ {f} : uploads'[g] = uploads[g]
      /\ uploads'[f].phase = phase
      /\ uploads'[f].to = uploads[f].to
      /\ uploads'[f].time = uploads[f].time
      /\ uploads'[f].data = uploads[f].data
      /\ uploads'[f].original = uploads[f].original
  <2>1. phase \in Phases
    BY DEF Phases
  <2> QED
    BY <2>1, <1>0, AdvanceType
<1>1. TypeOK'
  BY <1>0, <1>b DEF TypeOK
<1>e. \A g \in Files : Fresh(g)' <=> Fresh(g)
  BY <1>b DEF Fresh
<1>2. OneTracker' /\ Tracked'
  BY <1>0, <1>b, <1>e, HandlesKept DEF Exists
<1>3. Roles'
  BY <1>0, <1>b DEF Roles
<1>4. ASSUME Timely
      PROVE  Timed'
  <2>0. Timed
    BY <1>4 DEF IInv
  <2>1. ASSUME NEW g \in Files
        PROVE  Purpose(g)' /\ Progress(g)'
    <3>1. CASE g = f
      BY <3>1, <2>0, <1>b
         DEF Timed, Purpose, Progress, Running, Complete, Fresh
    <3>2. CASE g # f
      BY <3>2, <2>0, <1>b
         DEF Timed, Purpose, Progress, Running, Complete, Fresh
    <3> QED
      BY <3>1, <3>2
  <2>2. \A g \in jobs' : ~Fresh(g)' /\ Old(g)'
    BY <2>0, <1>0, <1>e DEF Timed, Old, TypeOK
  <2>3. ASSUME NEW c \in Cleaners
        PROVE  Cleaning(c)'
    <3>1. Doomed(c) => Doomed(c)'
      BY <1>e, HandleOrigin DEF Doomed, Exists, Fresh
    <3> QED
      BY <3>1, <2>0, <1>0, <1>e DEF Timed, Cleaning, Old, Roles
  <2>4. Content' /\ LinksClaim' /\ BlobsTracked'
    BY <2>0 DEF Timed, Content, LinksClaim, BlobsTracked, Exists, Timely
  <2> QED
    BY <2>1, <2>2, <2>3, <2>4 DEF Timed
<1> QED
  BY <1>1, <1>2, <1>3, <1>4 DEF IInv, Timely

LEMMA VerifyInv == ASSUME IInv, NEW f \in Files, Verify(f) PROVE IInv'
<1>1. ~Fresh(f) /\ uploads[f].phase = "stored"
  BY DEF Verify, Fresh
<1> QED
  BY <1>1, PhaseInv DEF Verify

LEMMA AbortInv == ASSUME IInv, NEW f \in Files, Abort(f) PROVE IInv'
<1>1. ~Fresh(f)
  BY DEF Abort, Fresh
<1> QED
  BY <1>1, PhaseInv DEF Abort

(* The file that is uploaded has not been changed by anyone else.          *)
LEMMA FinishInv == ASSUME IInv, NEW f \in Files, Finish(f) PROVE IInv'
<1>0. TypeOK /\ OneTracker /\ Tracked /\ Roles
  BY DEF IInv
<1> DEFINE phase == IF uploads[f].original = NoFile THEN "keyed" ELSE "copied"
<1>a. /\ uploads[f].phase = "verified"
      /\ files' = IF Exists(f)
                  THEN [files EXCEPT ![f].state = "uploaded", ![f].age = 0]
                  ELSE files
      /\ Advance(f, phase)
      /\ UNCHANGED <<blobs, links, jobs, cleaners, faults>>
  BY DEF Finish
<1>p. phase \in {"keyed", "copied"} /\ phase \in Phases
      /\ (phase = "keyed" => uploads[f].original = NoFile)
      /\ (phase = "copied" => uploads[f].original # NoFile)
  BY DEF Phases
<1> HIDE DEF phase
<1>b. /\ uploads' \in [Files -> Uploads]
      /\ \A g \in Files \ {f} : uploads'[g] = uploads[g]
      /\ uploads'[f].phase = phase
      /\ uploads'[f].to = uploads[f].to
      /\ uploads'[f].time = uploads[f].time
      /\ uploads'[f].data = uploads[f].data
      /\ uploads'[f].original = uploads[f].original
  BY <1>0, <1>a, <1>p, AdvanceType
<1>c. /\ files' \in [Files -> Documents]
      /\ \A g \in Files \ {f} : files'[g] = files[g]
      /\ files'[f].handle = files[f].handle
      /\ files'[f].owner = files[f].owner
      /\ Exists(f) => files'[f].state = "uploaded" /\ files'[f].age = 0
      /\ ~Exists(f) => files'[f] = files[f]
  <2>0. files \in [Files -> Documents] /\ Retention \in Nat
    BY <1>0, Types DEF TypeOK
  <2>1. CASE Exists(f)
    <3>1. files' = [files EXCEPT ![f].state = "uploaded", ![f].age = 0]
      BY <2>1, <1>a
    <3>2. files[f] \in Documents /\ 0 \in 0..(Retention + 1)
      BY <2>0
    <3>3. /\ files'[f] = [files[f] EXCEPT !.state = "uploaded", !.age = 0]
          /\ \A g \in Files \ {f} : files'[g] = files[g]
          /\ DOMAIN files' = Files
      BY <2>0, <3>1
    <3>4. /\ [files[f] EXCEPT !.state = "uploaded", !.age = 0] \in Documents
          /\ files'[f].state = "uploaded" /\ files'[f].age = 0
          /\ files'[f].handle = files[f].handle
          /\ files'[f].owner = files[f].owner
      BY <3>2, <3>3 DEF Documents, States
    <3> QED
      BY <2>0, <2>1, <3>1, <3>3, <3>4
  <2>2. CASE ~Exists(f)
    BY <2>0, <2>2, <1>a DEF Exists
  <2> QED
    BY <2>1, <2>2
<1>1. TypeOK'
  BY <1>0, <1>a, <1>b, <1>c DEF TypeOK
<1>e. \A g \in Files : /\ Fresh(g)' <=> Fresh(g)
                       /\ Exists(g)' <=> Exists(g)
                       /\ files'[g].handle = files[g].handle
                       /\ uploads'[g].to = uploads[g].to
  BY <1>a, <1>b, <1>c, <1>p DEF Fresh, Exists
<1>2. OneTracker' /\ Tracked'
  BY <1>0, <1>e, HandlesKept
<1>3. Roles'
  BY <1>0, <1>a, <1>b, <1>p DEF Roles
<1>4. ASSUME Timely
      PROVE  Timed'
  <2>0. Timed
    BY <1>4 DEF IInv
  <2>f. /\ files[f].state = "uploading" /\ files[f].handle = uploads[f].to
        /\ Exists(f) /\ f \notin jobs
        /\ \A c \in Cleaners : cleaners[c].phase # "idle" =>
             cleaners[c].file # f
        /\ blobs[uploads[f].to] = uploads[f].data
        /\ files'[f].state = "uploaded"
    BY <2>0, <1>a, <1>c DEF Timed, Progress, Running, Complete, Exists
  <2>1. ASSUME NEW g \in Files
        PROVE  Purpose(g)' /\ Progress(g)'
    <3>1. CASE g = f
      BY <3>1, <2>0, <2>f, <1>a, <1>b, <1>c, <1>p
         DEF Timed, Purpose, Progress, Running, Complete, Fresh
    <3>2. CASE g # f
      BY <3>2, <2>0, <1>a, <1>b, <1>c
         DEF Timed, Purpose, Progress, Running, Complete, Fresh
    <3> QED
      BY <3>1, <3>2
  <2>2. \A g \in jobs' : ~Fresh(g)' /\ Old(g)'
    BY <2>0, <2>f, <1>0, <1>a, <1>c, <1>e DEF Timed, Old, TypeOK
  <2>3. ASSUME NEW c \in Cleaners
        PROVE  Cleaning(c)'
    <3>1. CASE cleaners[c].phase = "idle"
      BY <3>1, <1>a DEF Cleaning
    <3>2. CASE cleaners[c].phase # "idle"
      <4>1. cleaners[c].file \in Files \ {f}
        BY <3>2, <2>f, <1>0 DEF Roles
      <4>2. Doomed(c) => Doomed(c)'
        BY <4>1, <1>a, <1>c, <1>e, HandleOrigin DEF Doomed, Fresh, Exists
      <4> QED
        BY <3>2, <4>1, <4>2, <2>0, <1>a, <1>c, <1>e
           DEF Timed, Cleaning, Old
    <3> QED
      BY <3>1, <3>2
  <2>4. Content'
    BY <2>0, <2>f, <1>a, <1>c DEF Timed, Content
  <2>5. LinksClaim'
    BY <2>0, <2>f, <1>0, <1>4, <1>a, <1>c, Types DEF Timed, LinksClaim
  <2>6. BlobsTracked'
    BY <2>0, <1>4, <1>a, <1>e DEF Timed, BlobsTracked
  <2> QED
    BY <2>1, <2>2, <2>3, <2>4, <2>5, <2>6 DEF Timed
<1> QED
  BY <1>1, <1>2, <1>3, <1>4 DEF IInv, Timely

(* A swap exchanges the handles of two files, neither of which is running  *)
(* or being cleaned up; the blob of the copy has the same content.         *)
LEMMA SwapInv == ASSUME IInv, NEW f \in Files, Swap(f) PROVE IInv'
<1>0. TypeOK /\ OneTracker /\ Tracked /\ Roles
  BY DEF IInv
<1> DEFINE o == uploads[f].original
           from == uploads[f].from
           to == uploads[f].to
           swapped == Service(from) # Service(to) /\ Unswapped(uploads[f], f)
<1>a. /\ uploads[f].phase = "copied"
      /\ Advance(f, "over")
      /\ UNCHANGED <<blobs, links, jobs, cleaners, faults>>
  BY DEF Swap
<1>u. ~Fresh(f)
  BY <1>a DEF Fresh
<1>5. CASE ~swapped
  <2>1. UNCHANGED files
    BY <1>5 DEF Swap
  <2> QED
    BY <2>1, <1>a, <1>u, PhaseInv
<1>6. CASE swapped
  <2>a. /\ files[o].state = "claimed" /\ files[o].handle = from
        /\ files[f].state = "uploaded" /\ files[f].handle = to
    BY <1>6 DEF Unswapped
  <2>b. files' = [files EXCEPT ![o].handle = to, ![o].age = 0,
                               ![f].state = "released", ![f].handle = from,
                               ![f].age = 0]
    BY <1>6 DEF Swap
  <2>o. o \in Files \ {f}
    BY <1>0, <1>a, <2>a, Types DEF Roles
  <2>h. to \in Handles /\ from \in Handles /\ Exists(o) /\ Exists(f)
        /\ from # to /\ ~Fresh(Origin(to)) /\ ~Fresh(Origin(from))
    BY <2>a, <2>o, <1>0 DEF Tracked, OneTracker, Exists
  <2>u. /\ uploads' \in [Files -> Uploads]
        /\ \A g \in Files \ {f} : uploads'[g] = uploads[g]
        /\ uploads'[f].phase = "over"
        /\ uploads'[f].to = uploads[f].to
        /\ uploads'[f].time = uploads[f].time
        /\ uploads'[f].data = uploads[f].data
        /\ uploads'[f].original = uploads[f].original
    BY <1>0, <1>a, AdvanceType DEF Phases
  <2> HIDE DEF o, from, to, swapped
  <2>f. /\ files' \in [Files -> Documents]
        /\ \A g \in Files \ {o, f} : files'[g] = files[g]
        /\ files'[o].state = "claimed" /\ files'[o].handle = to
        /\ files'[o].owner = files[o].owner
        /\ files'[f].state = "released" /\ files'[f].handle = from
    BY <1>0, <2>a, <2>b, <2>o, <2>h DEF TypeOK, Documents, States
  <2>e. \A g \in Files : /\ Fresh(g)' <=> Fresh(g)
                         /\ Exists(g)' <=> Exists(g)
                         /\ uploads'[g].to = uploads[g].to
    BY <1>u, <2>u, <2>f, <2>o, <2>h DEF Fresh, Exists
  <2>1. TypeOK'
    BY <1>0, <1>a, <2>u, <2>f DEF TypeOK
  <2>2. OneTracker'
    <3> SUFFICES ASSUME NEW x \in Files, NEW y \in Files,
                        Exists(x), Exists(y),
                        files'[x].handle = files'[y].handle
                 PROVE  x = y
      BY <2>e DEF OneTracker
    <3> QED
      BY <1>0, <2>a, <2>f, <2>h, <2>o DEF OneTracker
  <2>3. Tracked'
    <3>1. \A g \in Files : Exists(g) =>
            files'[g].handle \in Handles
            /\ ~Fresh(Origin(files'[g].handle))
      BY <1>0, <2>f, <2>h, <2>o DEF Tracked
    <3>2. \A h \in Handles : Fresh(Origin(h))' <=> Fresh(Origin(h))
      BY <2>e, HandleOrigin DEF Fresh
    <3> QED
      BY <1>0, <2>e, <3>1, <3>2 DEF Tracked
  <2>4. Roles'
    BY <1>0, <1>a, <2>u DEF Roles
  <2>5. ASSUME Timely
        PROVE  Timed'
    <3>0. Timed
      BY <2>5 DEF IInv
    <3>1. ASSUME NEW g \in Files
          PROVE  Purpose(g)' /\ Progress(g)'
      <4>1. Purpose(g)'
        BY <3>0, <2>u, <2>e, <1>u DEF Timed, Purpose, Fresh
      <4>2. CASE g = f
        BY <4>1, <4>2, <2>u DEF Progress, Running, Complete
      <4>3. CASE g = o
        BY <4>1, <4>3, <3>0, <2>a, <2>f, <2>o, <2>u
           DEF Timed, Progress, Running, Complete
      <4>4. CASE g \notin {o, f}
        BY <4>1, <4>4, <3>0, <1>a, <2>f, <2>u
           DEF Timed, Progress, Running, Complete
      <4> QED
        BY <4>2, <4>3, <4>4
    <3>2. \A g \in jobs' : ~Fresh(g)' /\ Old(g)'
      BY <3>0, <1>0, <1>a, <2>f, <2>e DEF Timed, Old, TypeOK
    <3>3. ASSUME NEW c \in Cleaners
          PROVE  Cleaning(c)'
      <4>1. CASE cleaners[c].phase = "idle"
        BY <4>1, <1>a DEF Cleaning
      <4>2. CASE cleaners[c].phase # "idle"
        <5>1. Cleaning(c) /\ cleaners[c].file \in Files
          BY <4>2, <3>0, <1>0 DEF Timed, Roles
        <5>2. Doomed(c) => Doomed(c)'
          <6> SUFFICES ASSUME Doomed(c) PROVE Doomed(c)'
            OBVIOUS
          <6>1. cleaners[c].file \notin {o, f}
            BY <2>a DEF Doomed
          <6>2. cleaners[c].handle \notin {from, to}
            BY <6>1, <2>a, <2>h, <2>o DEF Doomed
          <6>3. ~Fresh(Origin(cleaners[c].handle))'
            BY <1>a, <2>e, HandleOrigin DEF Doomed, Fresh
          <6> QED
            BY <5>1, <6>1, <6>2, <6>3, <1>a, <2>e, <2>f DEF Doomed, Exists
        <5>3. Old(cleaners[c].file)'
          BY <5>1, <4>2, <1>a, <2>f DEF Cleaning, Old
        <5> QED
          BY <5>1, <5>2, <5>3, <1>a, <2>e DEF Cleaning
      <4> QED
        BY <4>1, <4>2
    <3>4. Content'
      <4>1. o # NoFile
        BY <1>0, <2>o, Types
      <4>2. blobs[to] = o
        BY <4>1, <3>0, <2>a, <1>a, <1>u
           DEF Timed, Progress, Complete, Purpose, o, to
      <4> QED
        BY <4>2, <3>0, <1>a, <2>f, <2>o DEF Timed, Content
    <3>5. LinksClaim'
      BY <3>0, <1>0, <1>a, <2>5, <2>a, <2>f, <2>o, Types
         DEF Timed, LinksClaim
    <3>6. BlobsTracked'
      BY <3>0, <1>a, <2>5, <2>a, <2>e, <2>f, <2>h, <2>o
         DEF Timed, BlobsTracked
    <3> QED
      BY <3>1, <3>2, <3>3, <3>4, <3>5, <3>6 DEF Timed
  <2> QED
    BY <2>1, <2>2, <2>3, <2>4, <2>5 DEF IInv, Timely
<1> QED
  BY <1>5, <1>6

-----------------------------------------------------------------------------

(* What the scan finds is not running.                                     *)
LEMMA ScanInv == ASSUME IInv, NEW f \in Files, Scan(f) PROVE IInv'
<1>0. TypeOK /\ OneTracker /\ Tracked /\ Roles
  BY DEF IInv
<1>a. /\ Expired(f) /\ jobs' = jobs \cup {f}
      /\ UNCHANGED <<files, blobs, links, uploads, cleaners, faults>>
  BY DEF Scan
<1>1. TypeOK'
  BY <1>0, <1>a DEF TypeOK
<1>2. OneTracker' /\ Tracked'
  BY <1>0, <1>a, HandlesKept DEF Exists, Fresh
<1>3. Roles'
  BY <1>0, <1>a DEF Roles
<1>4. ASSUME Timely
      PROVE  Timed'
  <2>0. Timed
    BY <1>4 DEF IInv
  <2>1. ~Running(f)
    BY <2>0, <1>0, <1>4, <1>a, Types
       DEF Timed, Progress, Expired, Timely
  <2>2. ~Fresh(f) /\ Old(f)
    BY <1>0, <1>a DEF Expired, Tracked, Exists, Old
  <2>3. \A g \in Files : Purpose(g)' /\ Progress(g)'
    BY <2>0, <2>1, <1>a
       DEF Timed, Purpose, Progress, Running, Complete, Fresh
  <2>4. \A g \in jobs' : ~Fresh(g)' /\ Old(g)'
    BY <2>0, <2>2, <1>a DEF Timed, Old, Fresh
  <2>5. ASSUME NEW c \in Cleaners
        PROVE  Cleaning(c)'
    <3>1. Doomed(c) => Doomed(c)'
      BY <1>a DEF Doomed, Exists, Fresh
    <3> QED
      BY <3>1, <2>0, <1>a DEF Timed, Cleaning, Old, Fresh
  <2>6. Content' /\ LinksClaim' /\ BlobsTracked'
    BY <2>0, <1>a DEF Timed, Content, LinksClaim, BlobsTracked, Exists, Timely
  <2> QED
    BY <2>3, <2>4, <2>5, <2>6 DEF Timed
<1> QED
  BY <1>1, <1>2, <1>3, <1>4 DEF IInv, Timely

(* A file that is found marked has no other tracker of its blob.           *)
LEMMA FindInv == ASSUME IInv, NEW c \in Cleaners, Find(c) PROVE IInv'
<1>0. TypeOK /\ OneTracker /\ Tracked /\ Roles
  BY DEF IInv
<1> PICK f \in jobs :
      IF files[f].state \in {"absent", "claimed"}
      THEN jobs' = jobs \ {f} /\ UNCHANGED cleaners
      ELSE /\ cleaners' = [cleaners EXCEPT
                ![c] = [phase |-> "found", file |-> f,
                        state |-> files[f].state,
                        handle |-> files[f].handle]]
           /\ UNCHANGED jobs
  BY DEF Find
<1>a. UNCHANGED <<files, blobs, links, uploads, faults>> /\ f \in Files
      /\ jobs' \subseteq jobs
  BY <1>0 DEF Find, TypeOK
<1>b. /\ cleaners' \in [Cleaners -> CleanerStates]
      /\ \A d \in Cleaners : d # c => cleaners'[d] = cleaners[d]
      /\ \/ cleaners'[c] = cleaners[c]
         \/ /\ cleaners'[c].phase = "found" /\ cleaners'[c].file = f
            /\ cleaners'[c].state = files[f].state
            /\ cleaners'[c].handle = files[f].handle
            /\ files[f].state \notin {"absent", "claimed"}
  <2>1. CASE files[f].state \in {"absent", "claimed"}
    BY <2>1, <1>0 DEF TypeOK
  <2>2. CASE files[f].state \notin {"absent", "claimed"}
    <3>1. [phase |-> "found", file |-> f, state |-> files[f].state,
           handle |-> files[f].handle] \in CleanerStates
      BY <1>0, <1>a, Types DEF CleanerStates
    <3> QED
      BY <2>2, <3>1, <1>0 DEF TypeOK
  <2> QED
    BY <2>1, <2>2
<1>1. TypeOK'
  BY <1>0, <1>a, <1>b DEF TypeOK
<1>2. OneTracker' /\ Tracked'
  BY <1>0, <1>a, HandlesKept DEF Exists, Fresh
<1>3. Roles'
  <2>1. \A d \in Cleaners : cleaners'[d].phase # "idle" =>
          /\ cleaners'[d].file \in Files
          /\ cleaners'[d].state \notin {"absent", "claimed"}
          /\ cleaners'[d].phase = "remove" => cleaners'[d].state = "deleting"
    BY <1>0, <1>a, <1>b DEF Roles
  <2> QED
    BY <2>1, <1>0, <1>a DEF Roles
<1>4. ASSUME Timely
      PROVE  Timed'
  <2>0. Timed
    BY <1>4 DEF IInv
  <2>1. ~Running(f) /\ ~Fresh(f) /\ Old(f)
    BY <2>0, <1>a DEF Timed, Progress
  <2>2. ASSUME NEW g \in Files
        PROVE  Purpose(g)' /\ Progress(g)'
    <3>1. Running(g) => \A d \in Cleaners : cleaners'[d].phase # "idle" =>
                          cleaners'[d].file # g
      BY <2>0, <2>1, <1>b DEF Timed, Progress
    <3> QED
      BY <3>1, <2>0, <1>a
         DEF Timed, Purpose, Progress, Running, Complete, Fresh
  <2>3. \A g \in jobs' : ~Fresh(g)' /\ Old(g)'
    BY <2>0, <1>a DEF Timed, Old, Fresh
  <2>4. ASSUME NEW d \in Cleaners
        PROVE  Cleaning(d)'
    <3>1. CASE cleaners'[d] = cleaners[d]
      <4>1. Doomed(d) => Doomed(d)'
        BY <3>1, <1>a DEF Doomed, Exists, Fresh
      <4> QED
        BY <3>1, <4>1, <2>0, <1>a DEF Timed, Cleaning, Old, Fresh
    <3>2. CASE cleaners'[d] # cleaners[d]
      <4>1. /\ d = c
            /\ cleaners'[c].phase = "found" /\ cleaners'[c].file = f
            /\ cleaners'[c].state = files[f].state
            /\ cleaners'[c].handle = files[f].handle
            /\ files[f].state \notin {"absent", "claimed"}
        BY <3>2, <1>b
      <4>2. files[f].state = "deleting" => Doomed(c)'
        <5>1. Exists(f) /\ files[f].handle \in Handles
              /\ ~Fresh(Origin(files[f].handle))
          BY <4>1, <1>0, <1>a DEF Exists, Tracked
        <5>2. \A g \in Files : Exists(g) /\ files[g].handle = files[f].handle
                => g = f
          BY <5>1, <1>0, <1>a DEF OneTracker
        <5> QED
          BY <4>1, <5>1, <5>2, <1>a DEF Doomed, Exists, Fresh
      <4> QED
        BY <4>1, <4>2, <2>1, <1>a DEF Cleaning, Old, Fresh
    <3> QED
      BY <3>1, <3>2
  <2>5. Content' /\ LinksClaim' /\ BlobsTracked'
    BY <2>0, <1>a DEF Timed, Content, LinksClaim, BlobsTracked, Exists, Timely
  <2> QED
    BY <2>2, <2>3, <2>4, <2>5 DEF Timed
<1> QED
  BY <1>1, <1>2, <1>3, <1>4 DEF IInv, Timely

(* The state is compared: a file that has been claimed is not marked.      *)
LEMMA MarkInv == ASSUME IInv, NEW c \in Cleaners, Mark(c) PROVE IInv'
<1>0. TypeOK /\ OneTracker /\ Tracked /\ Roles
  BY DEF IInv
<1> DEFINE f == cleaners[c].file
<1>a. /\ cleaners[c].phase = "found"
      /\ files' = IF FoundState(c)
                  THEN [files EXCEPT ![f].state = "deleting"] ELSE files
      /\ Done(c)
      /\ UNCHANGED <<blobs, links, uploads, faults>>
  BY DEF Mark
<1>f. f \in Files /\ (FoundState(c) => files[f].state \notin {"absent", "claimed"})
  BY <1>0, <1>a DEF Roles, FoundState
<1>d. /\ cleaners' \in [Cleaners -> CleanerStates]
      /\ \A d \in Cleaners : cleaners'[d].phase # "idle" =>
           d # c /\ cleaners'[d] = cleaners[d]
      /\ jobs' \subseteq jobs
  BY <1>0, <1>a, DoneType
<1> HIDE DEF f
<1>b. /\ files' \in [Files -> Documents]
      /\ \A g \in Files \ {f} : files'[g] = files[g]
      /\ files'[f].handle = files[f].handle
      /\ files'[f].owner = files[f].owner
      /\ \/ files'[f] = files[f]
         \/ /\ files[f].state \notin {"absent", "claimed"}
            /\ files'[f].state = "deleting"
  <2>1. CASE FoundState(c)
    <3>1. files' = [files EXCEPT ![f].state = "deleting"]
      BY <2>1, <1>a
    <3> QED
      BY <2>1, <3>1, <1>0, <1>f DEF TypeOK, Documents, States
  <2>2. CASE ~FoundState(c)
    BY <2>2, <1>0, <1>a DEF TypeOK
  <2> QED
    BY <2>1, <2>2
<1>e. \A g \in Files : /\ Fresh(g)' <=> Fresh(g)
                       /\ Exists(g)' <=> Exists(g)
                       /\ files'[g].handle = files[g].handle
                       /\ \/ files'[g].state = files[g].state
                          \/ files'[g].state = "deleting" /\ g = f
                       /\ (files'[g].state = "claimed") <=>
                          (files[g].state = "claimed")
                       /\ files'[g].owner = files[g].owner
  BY <1>a, <1>b DEF Fresh, Exists
<1>1. TypeOK'
  BY <1>0, <1>a, <1>b, <1>d DEF TypeOK
<1>2. OneTracker' /\ Tracked'
  BY <1>0, <1>a, <1>e, HandlesKept
<1>3. Roles'
  BY <1>0, <1>a, <1>d DEF Roles
<1>4. ASSUME Timely
      PROVE  Timed'
  <2>0. Timed
    BY <1>4 DEF IInv
  <2>1. ~Running(f)
    BY <2>0, <1>a, <1>f DEF Timed, Progress, f
  <2>2. ASSUME NEW g \in Files
        PROVE  Purpose(g)' /\ Progress(g)'
    <3>1. Purpose(g)'
      BY <2>0, <1>a DEF Timed, Purpose, Fresh
    <3>2. CASE g = f
      BY <3>1, <3>2, <2>0, <2>1, <1>a, <1>b
         DEF Timed, Progress, Running, Complete
    <3>3. CASE g # f
      BY <3>1, <3>3, <2>0, <1>a, <1>b, <1>d
         DEF Timed, Progress, Running, Complete
    <3> QED
      BY <3>2, <3>3
  <2>3. \A g \in Files : Old(g) => Old(g)'
    BY <1>b DEF Old
  <2>4. \A g \in jobs' : ~Fresh(g)' /\ Old(g)'
    BY <2>0, <2>3, <1>0, <1>d, <1>e DEF Timed, TypeOK
  <2>5. ASSUME NEW d \in Cleaners
        PROVE  Cleaning(d)'
    <3>1. CASE cleaners'[d].phase = "idle"
      BY <3>1 DEF Cleaning
    <3>2. CASE cleaners'[d].phase # "idle"
      <4>1. cleaners'[d] = cleaners[d] /\ Cleaning(d)
            /\ cleaners[d].file \in Files
        BY <3>2, <2>0, <1>0, <1>d DEF Timed, Roles
      <4>2. Doomed(d) => Doomed(d)'
        BY <4>1, <1>e, HandleOrigin DEF Doomed
      <4> QED
        BY <4>1, <4>2, <2>3, <1>a, <1>e DEF Cleaning
    <3> QED
      BY <3>1, <3>2
  <2>6. Content' /\ BlobsTracked'
    BY <2>0, <1>a, <1>e DEF Timed, Content, BlobsTracked, Timely
  <2>7. LinksClaim'
    BY <2>0, <1>0, <1>4, <1>a, <1>e, Types DEF Timed, LinksClaim
  <2> QED
    BY <2>2, <2>4, <2>5, <2>6, <2>7 DEF Timed
<1> QED
  BY <1>1, <1>2, <1>3, <1>4 DEF IInv, Timely

(* No file but the one that is marked tracks the blob that is deleted.     *)
LEMMA DeleteBlobInv ==
  ASSUME IInv, NEW c \in Cleaners, DeleteBlob(c) PROVE IInv'
<1>0. TypeOK /\ OneTracker /\ Tracked /\ Roles
  BY DEF IInv
<1> DEFINE h == cleaners[c].handle
<1>a. /\ cleaners[c].phase = "found" /\ cleaners[c].state = "deleting"
      /\ UNCHANGED <<files, links, uploads, faults>>
  BY DEF DeleteBlob
<1>d. /\ cleaners' \in [Cleaners -> CleanerStates]
      /\ jobs' \subseteq jobs
      /\ blobs' \in [Handles -> Files \cup {NoFile}]
      /\ \A k \in Handles : /\ k # h => blobs'[k] = blobs[k]
                            /\ blobs[k] = NoFile => blobs'[k] = NoFile
                            /\ blobs'[k] # NoFile => blobs'[k] = blobs[k]
      /\ \A d \in Cleaners \ {c} : cleaners'[d] = cleaners[d]
      /\ cleaners'[c].phase # "idle" =>
           /\ cleaners'[c].phase = "remove"
           /\ cleaners'[c].file = cleaners[c].file
           /\ cleaners'[c].state = cleaners[c].state
           /\ cleaners'[c].handle = h
           /\ UNCHANGED blobs
           /\ blobs[h] = NoFile
  <2>1. CASE blobs[h] # NoFile
    <3>1. blobs' = [blobs EXCEPT ![h] = NoFile] /\ Done(c)
      BY <2>1 DEF DeleteBlob
    <3>2. cleaners'[c].phase = "idle"
      BY <3>1, <1>0 DEF Done, Idle, TypeOK
    <3>3. \A d \in Cleaners \ {c} : cleaners'[d] = cleaners[d]
      BY <3>1, <1>0 DEF Done, TypeOK
    <3>4. /\ cleaners' \in [Cleaners -> CleanerStates]
          /\ jobs' \subseteq jobs
      BY <3>1, <1>0, DoneType
    <3>5. /\ blobs' \in [Handles -> Files \cup {NoFile}]
          /\ \A k \in Handles : /\ k # h => blobs'[k] = blobs[k]
                                /\ blobs[k] = NoFile => blobs'[k] = NoFile
                                /\ blobs'[k] # NoFile => blobs'[k] = blobs[k]
      BY <3>1, <1>0 DEF TypeOK
    <3> QED
      BY <3>2, <3>3, <3>4, <3>5
  <2>2. CASE blobs[h] = NoFile
    <3>1. /\ cleaners' = [cleaners EXCEPT ![c].phase = "remove"]
          /\ UNCHANGED <<blobs, jobs>>
      BY <2>2 DEF DeleteBlob
    <3>2. cleaners \in [Cleaners -> CleanerStates]
          /\ blobs \in [Handles -> Files \cup {NoFile}]
      BY <1>0 DEF TypeOK
    <3>3. /\ cleaners'[c] = [cleaners[c] EXCEPT !.phase = "remove"]
          /\ \A d \in Cleaners \ {c} : cleaners'[d] = cleaners[d]
          /\ DOMAIN cleaners' = Cleaners
      BY <3>1, <3>2
    <3>4. /\ cleaners'[c] \in CleanerStates
          /\ cleaners'[c].phase = "remove"
          /\ cleaners'[c].file = cleaners[c].file
          /\ cleaners'[c].state = cleaners[c].state
          /\ cleaners'[c].handle = cleaners[c].handle
      BY <3>2, <3>3 DEF CleanerStates
    <3>5. cleaners' \in [Cleaners -> CleanerStates]
      BY <3>1, <3>2, <3>3, <3>4
    <3> QED
      BY <2>2, <3>1, <3>2, <3>3, <3>4, <3>5
  <2> QED
    BY <2>1, <2>2
<1> HIDE DEF h
<1>1. TypeOK'
  BY <1>0, <1>a, <1>d DEF TypeOK
<1>2. OneTracker' /\ Tracked'
  BY <1>0, <1>a, HandlesKept DEF Exists, Fresh
<1>b. \A d \in Cleaners : cleaners'[d].phase # "idle" =>
        /\ cleaners[d].phase # "idle"
        /\ cleaners'[d].file = cleaners[d].file
        /\ cleaners'[d].state = cleaners[d].state
        /\ cleaners'[d].handle = cleaners[d].handle
        /\ cleaners'[d].phase = "remove" => \/ cleaners[d].phase = "remove"
                                            \/ d = c /\ blobs[h] = NoFile
  BY <1>a, <1>d DEF h
<1>3. Roles'
  <2>1. \A d \in Cleaners : cleaners'[d].phase # "idle" =>
          /\ cleaners'[d].file \in Files
          /\ cleaners'[d].state \notin {"absent", "claimed"}
          /\ cleaners'[d].phase = "remove" => cleaners'[d].state = "deleting"
    BY <1>0, <1>a, <1>b DEF Roles
  <2> QED
    BY <2>1, <1>0, <1>a DEF Roles
<1>4. ASSUME Timely
      PROVE  Timed'
  <2>0. Timed
    BY <1>4 DEF IInv
  <2>1. Doomed(c)
    BY <2>0, <1>a DEF Timed, Cleaning
  <2>2. \A g \in Files : files[g].state \in {"uploading", "uploaded", "claimed"}
          => files[g].handle # h
    BY <2>1 DEF Doomed, Exists, h
  <2>3. ASSUME NEW g \in Files
        PROVE  Purpose(g)' /\ Progress(g)'
    <3>1. Purpose(g)'
      BY <2>0, <1>a DEF Timed, Purpose, Fresh
    <3>2. Complete(g)' => /\ Complete(g)
                          /\ files[g].state \in {"uploading", "uploaded"}
                          /\ uploads[g].to \in Handles
      BY <2>0, <1>0, <1>a
         DEF Timed, Progress, Complete, Running, Tracked, Fresh
    <3>3. Complete(g)' => (/\ files[g].handle = uploads[g].to
                           /\ blobs[uploads[g].to] = uploads[g].data)'
      BY <3>2, <2>0, <2>2, <1>a, <1>d DEF Timed, Progress
    <3>4. Running(g)' => (/\ files[g].state = "uploading"
                          /\ files[g].age <= uploads[g].time
                          /\ files[g].handle = uploads[g].to
                          /\ g \notin jobs
                          /\ \A d \in Cleaners : cleaners[d].phase # "idle" =>
                               cleaners[d].file # g)'
      BY <2>0, <1>a, <1>b, <1>d DEF Timed, Progress, Running
    <3> QED
      BY <3>1, <3>3, <3>4 DEF Progress
  <2>4. \A g \in jobs' : ~Fresh(g)' /\ Old(g)'
    BY <2>0, <1>a, <1>d DEF Timed, Old, Fresh
  <2>5. ASSUME NEW d \in Cleaners
        PROVE  Cleaning(d)'
    <3>1. CASE cleaners'[d].phase = "idle"
      BY <3>1 DEF Cleaning
    <3>2. CASE cleaners'[d].phase # "idle"
      <4>1. Cleaning(d) /\ cleaners[d].phase # "idle"
        BY <3>2, <2>0, <1>b DEF Timed
      <4>2. Doomed(d) => Doomed(d)'
        BY <3>2, <1>a, <1>b DEF Doomed, Exists, Fresh
      <4>3. cleaners'[d].phase = "remove" =>
              blobs'[cleaners[d].handle] = NoFile
        <5> SUFFICES ASSUME cleaners'[d].phase = "remove"
                     PROVE  blobs'[cleaners[d].handle] = NoFile
          OBVIOUS
        <5>1. cleaners[d].state = "deleting"
          BY <3>2, <1>0, <1>a, <1>b DEF Roles
        <5>2. cleaners[d].handle \in Handles
          BY <4>1, <5>1 DEF Cleaning, Doomed
        <5>3. blobs[cleaners[d].handle] = NoFile
          BY <4>1, <3>2, <1>b DEF Cleaning, h
        <5> QED
          BY <5>2, <5>3, <1>d
      <4> QED
        BY <3>2, <4>1, <4>2, <4>3, <1>a, <1>b DEF Cleaning, Old, Fresh
    <3> QED
      BY <3>1, <3>2
  <2>6. Content'
    BY <2>0, <2>2, <1>0, <1>a, <1>d
       DEF Timed, Content, Tracked, Exists
  <2>7. LinksClaim' /\ BlobsTracked'
    BY <2>0, <1>a, <1>d DEF Timed, LinksClaim, BlobsTracked, Exists, Timely
  <2> QED
    BY <2>3, <2>4, <2>5, <2>6, <2>7 DEF Timed
<1> QED
  BY <1>1, <1>2, <1>3, <1>4 DEF IInv, Timely

(* The blob of a file that is deleted is gone.                             *)
LEMMA DeleteFileInv ==
  ASSUME IInv, NEW c \in Cleaners, DeleteFile(c) PROVE IInv'
<1>0. TypeOK /\ OneTracker /\ Tracked /\ Roles
  BY DEF IInv
<1> DEFINE f == cleaners[c].file
<1>a. /\ cleaners[c].phase = "remove"
      /\ files' = [files EXCEPT ![f] = Absent]
      /\ Done(c)
      /\ UNCHANGED <<blobs, links, uploads, faults>>
  BY DEF DeleteFile
<1>f. f \in Files /\ cleaners[c].state = "deleting"
  BY <1>0, <1>a DEF Roles
<1>d. /\ cleaners' \in [Cleaners -> CleanerStates]
      /\ \A d \in Cleaners : cleaners'[d].phase # "idle" =>
           d # c /\ cleaners'[d] = cleaners[d]
      /\ jobs' \subseteq jobs
  BY <1>0, <1>a, DoneType
<1> HIDE DEF f
<1>b. /\ files' \in [Files -> Documents]
      /\ \A g \in Files \ {f} : files'[g] = files[g]
      /\ files'[f].state = "absent"
  BY <1>0, <1>a, <1>f, RecordTypes DEF TypeOK, Absent
<1>e. \A g \in Files : /\ Fresh(g)' <=> Fresh(g)
                       /\ Exists(g)' => Exists(g) /\ g # f
                                        /\ files'[g] = files[g]
  BY <1>a, <1>b DEF Fresh, Exists
<1>1. TypeOK'
  BY <1>0, <1>a, <1>b, <1>d DEF TypeOK
<1>2. OneTracker'
  BY <1>0, <1>e DEF OneTracker
<1>3. Tracked'
  <2>1. \A h \in Handles : Fresh(Origin(h))' <=> Fresh(Origin(h))
    BY <1>a, HandleOrigin DEF Fresh
  <2> QED
    BY <1>0, <1>a, <1>e, <2>1 DEF Tracked
<1>4. Roles'
  BY <1>0, <1>a, <1>d DEF Roles
<1>5. ASSUME Timely
      PROVE  Timed'
  <2>0. Timed
    BY <1>5 DEF IInv
  <2>1. /\ Doomed(c) /\ blobs[cleaners[c].handle] = NoFile
        /\ ~Running(f)
    BY <2>0, <1>a, <1>f DEF Timed, Cleaning, Progress, f
  <2>2. files[f].state # "claimed"
    BY <2>1 DEF Doomed, f
  <2>3. ASSUME NEW g \in Files
        PROVE  Purpose(g)' /\ Progress(g)'
    <3>1. Purpose(g)'
      BY <2>0, <1>a DEF Timed, Purpose, Fresh
    <3>2. CASE g = f
      BY <3>1, <3>2, <2>1, <1>a, <1>b DEF Progress, Running, Complete
    <3>3. CASE g # f
      BY <3>1, <3>3, <2>0, <1>a, <1>b, <1>d
         DEF Timed, Progress, Running, Complete
    <3> QED
      BY <3>2, <3>3
  <2>4. \A g \in Files : Old(g) => Old(g)'
    BY <1>b DEF Old
  <2>5. \A g \in jobs' : ~Fresh(g)' /\ Old(g)'
    BY <2>0, <2>4, <1>0, <1>d, <1>e DEF Timed, TypeOK
  <2>6. ASSUME NEW d \in Cleaners
        PROVE  Cleaning(d)'
    <3>1. CASE cleaners'[d].phase = "idle"
      BY <3>1 DEF Cleaning
    <3>2. CASE cleaners'[d].phase # "idle"
      <4>1. cleaners'[d] = cleaners[d] /\ Cleaning(d)
            /\ cleaners[d].file \in Files
        BY <3>2, <2>0, <1>0, <1>d DEF Timed, Roles
      <4>2. Doomed(d) => Doomed(d)'
        <5>1. ASSUME Doomed(d)
              PROVE  files'[cleaners[d].file].state \in {"deleting", "absent"}
          BY <4>1, <5>1, <1>b DEF Doomed
        <5> QED
          BY <4>1, <5>1, <1>e, HandleOrigin DEF Doomed
      <4> QED
        BY <4>1, <4>2, <2>4, <1>a, <1>e DEF Cleaning
    <3> QED
      BY <3>1, <3>2
  <2>7. Content'
    BY <2>0, <1>a, <1>b DEF Timed, Content
  <2>8. LinksClaim'
    BY <2>0, <2>2, <1>0, <1>5, <1>a, <1>b, Types DEF Timed, LinksClaim
  <2>9. BlobsTracked'
    <3> SUFFICES ASSUME NEW h \in Handles, blobs[h] # NoFile
                 PROVE  \E g \in Files : Exists(g)' /\ files'[g].handle = h
      BY <1>a DEF BlobsTracked
    <3>1. PICK g \in Files : Exists(g) /\ files[g].handle = h
      BY <2>0, <1>5 DEF Timed, BlobsTracked
    <3>2. g # f
      BY <3>1, <2>1 DEF Doomed, f
    <3> QED
      BY <3>1, <3>2, <1>b DEF Exists
  <2> QED
    BY <2>3, <2>5, <2>6, <2>7, <2>8, <2>9 DEF Timed
<1> QED
  BY <1>1, <1>2, <1>3, <1>4, <1>5 DEF IInv, Timely

LEMMA FailInv == ASSUME IInv, NEW c \in Cleaners, Fail(c) PROVE IInv'
<1>0. TypeOK /\ OneTracker /\ Tracked /\ Roles
  BY DEF IInv
<1>a. /\ faults < MaxFaults /\ faults' = faults + 1
      /\ Done(c)
      /\ UNCHANGED <<files, blobs, links, uploads>>
  BY DEF Fail
<1>d. /\ cleaners' \in [Cleaners -> CleanerStates]
      /\ \A d \in Cleaners : cleaners'[d].phase # "idle" =>
           d # c /\ cleaners'[d] = cleaners[d]
      /\ jobs' \subseteq jobs
  BY <1>0, <1>a, DoneType
<1>1. TypeOK'
  BY <1>0, <1>a, <1>d, BlazeBounds DEF TypeOK
<1>2. OneTracker' /\ Tracked'
  BY <1>0, <1>a, HandlesKept DEF Exists, Fresh
<1>3. Roles'
  BY <1>0, <1>a, <1>d DEF Roles
<1>4. ASSUME Timely
      PROVE  Timed'
  <2>0. Timed
    BY <1>4 DEF IInv
  <2>1. \A g \in Files : Purpose(g)' /\ Progress(g)'
    BY <2>0, <1>a, <1>d
       DEF Timed, Purpose, Progress, Running, Complete, Fresh
  <2>2. \A g \in jobs' : ~Fresh(g)' /\ Old(g)'
    BY <2>0, <1>a, <1>d DEF Timed, Old, Fresh
  <2>3. ASSUME NEW d \in Cleaners
        PROVE  Cleaning(d)'
    <3>1. CASE cleaners'[d].phase = "idle"
      BY <3>1 DEF Cleaning
    <3>2. CASE cleaners'[d].phase # "idle"
      <4>1. Doomed(d) => Doomed(d)'
        BY <3>2, <1>a, <1>d DEF Doomed, Exists, Fresh
      <4> QED
        BY <3>2, <4>1, <2>0, <1>a, <1>d DEF Timed, Cleaning, Old, Fresh
    <3> QED
      BY <3>1, <3>2
  <2>4. Content' /\ LinksClaim' /\ BlobsTracked'
    BY <2>0, <1>a DEF Timed, Content, LinksClaim, BlobsTracked, Exists, Timely
  <2> QED
    BY <2>1, <2>2, <2>3, <2>4 DEF Timed
<1> QED
  BY <1>1, <1>2, <1>3, <1>4 DEF IInv, Timely

-----------------------------------------------------------------------------

LEMMA ReleaseType ==
  ASSUME NEW fs \in [Files -> Documents], NEW f \in Files
  PROVE  LET new == ReleaseFile(fs, f)
         IN /\ new \in [Files -> Documents]
            /\ \A g \in Files \ {f} : new[g] = fs[g]
            /\ new[f].state = "released" /\ new[f].handle = fs[f].handle
<1> DEFINE doc == [fs[f] EXCEPT !.state = "released", !.owner = NoOwner,
                                !.age = 0]
<1>1. 0 \in 0..(Retention + 1)
  BY BlazeAssumption
<1>2. /\ doc \in Documents /\ doc.state = "released"
      /\ doc.handle = fs[f].handle
  BY <1>1 DEF Documents, States
<1>3. /\ ReleaseFile(fs, f)[f] = doc
      /\ \A g \in Files \ {f} : ReleaseFile(fs, f)[g] = fs[g]
      /\ DOMAIN ReleaseFile(fs, f) = Files
      /\ ReleaseFile(fs, f) = [g \in Files |-> IF g = f THEN doc ELSE fs[g]]
  BY DEF ReleaseFile
<1> HIDE DEF doc
<1>4. ReleaseFile(fs, f) \in [Files -> Documents]
  BY <1>2, <1>3
<1> QED
  BY <1>2, <1>3, <1>4

LEMMA ClaimType ==
  ASSUME NEW fs \in [Files -> Documents], NEW f \in Files, NEW o \in Owners
  PROVE  LET new == ClaimFile(fs, f, o)
         IN /\ new \in [Files -> Documents]
            /\ \A g \in Files \ {f} : new[g] = fs[g]
            /\ new[f].state = "claimed" /\ new[f].handle = fs[f].handle
            /\ new[f].owner = o
<1> DEFINE doc == [fs[f] EXCEPT !.state = "claimed", !.owner = o, !.age = 0]
<1>1. 0 \in 0..(Retention + 1)
  BY BlazeAssumption
<1>2. /\ doc \in Documents /\ doc.state = "claimed"
      /\ doc.handle = fs[f].handle /\ doc.owner = o
  BY <1>1 DEF Documents, States
<1>3. /\ ClaimFile(fs, f, o)[f] = doc
      /\ \A g \in Files \ {f} : ClaimFile(fs, f, o)[g] = fs[g]
      /\ ClaimFile(fs, f, o) = [g \in Files |-> IF g = f THEN doc ELSE fs[g]]
  BY DEF ClaimFile
<1> HIDE DEF doc
<1>4. ClaimFile(fs, f, o) \in [Files -> Documents]
  BY <1>2, <1>3
<1> QED
  BY <1>2, <1>3, <1>4

(* What saving or deleting an owner does to the files.                     *)
LEMMA ModifyType ==
  ASSUME TypeOK, NEW o \in Owners, NEW new \in Files \cup {NoFile},
         ModifyLink(o, new)
  PROVE  /\ files' \in [Files -> Documents]
         /\ \A g \in Files : g \notin {links[o], new} => files'[g] = files[g]
         /\ \A g \in Files : files'[g].handle = files[g].handle
         /\ links[o] # NoFile => /\ files[links[o]].state = "claimed"
                                 /\ files'[links[o]].state = "released"
         /\ new # NoFile => /\ uploads[new].phase = "keyed"
                            /\ files[new].state = "uploaded"
                            /\ files'[new].state = "claimed"
                            /\ files'[new].owner = o
<1> DEFINE old == links[o]
           released == IF old = NoFile THEN files ELSE ReleaseFile(files, old)
<1>1. /\ files \in [Files -> Documents] /\ old \in Files \cup {NoFile}
      /\ NoFile \notin Files
  BY Types DEF TypeOK
<1>2. /\ old # NoFile => files[old].state = "claimed"
      /\ new # NoFile => uploads[new].phase = "keyed"
                         /\ files[new].state = "uploaded"
      /\ files' = IF new = NoFile THEN released ELSE ClaimFile(released, new, o)
  BY DEF ModifyLink, Claimable
<1>3. old # NoFile => old # new
  BY <1>2
<1>4. /\ released \in [Files -> Documents]
      /\ \A g \in Files : g # old => released[g] = files[g]
      /\ old # NoFile => released[old].state = "released"
      /\ \A g \in Files : released[g].handle = files[g].handle
  <2>1. CASE old = NoFile
    BY <2>1, <1>1
  <2>2. CASE old # NoFile
    <3>1. released = ReleaseFile(files, old) /\ old \in Files
      BY <2>2, <1>1
    <3> HIDE DEF old, released
    <3>2. /\ released \in [Files -> Documents]
          /\ \A g \in Files \ {old} : released[g] = files[g]
          /\ released[old].state = "released"
          /\ released[old].handle = files[old].handle
      BY <3>1, <1>1, ReleaseType
    <3> QED
      BY <3>1, <3>2
  <2> QED
    BY <2>1, <2>2
<1> HIDE DEF old, released
<1>5. CASE new = NoFile
  BY <1>1, <1>2, <1>4, <1>5 DEF old
<1>6. CASE new # NoFile
  <2>1. new \in Files /\ files' = ClaimFile(released, new, o)
    BY <1>2, <1>6
  <2>2. /\ files' \in [Files -> Documents]
        /\ \A g \in Files \ {new} : files'[g] = released[g]
        /\ files'[new].state = "claimed"
        /\ files'[new].handle = released[new].handle
        /\ files'[new].owner = o
    BY <2>1, <1>4, ClaimType
  <2> QED
    BY <2>1, <2>2, <1>1, <1>2, <1>3, <1>4, <1>6 DEF old
<1> QED
  BY <1>5, <1>6

(* The file that is claimed has its own content and no other owner.        *)
LEMMA ModifyInv ==
  ASSUME IInv, NEW o \in Owners, NEW new \in Files \cup {NoFile},
         ModifyLink(o, new)
  PROVE  IInv'
<1>0. TypeOK /\ OneTracker /\ Tracked /\ Roles
  BY DEF IInv
<1> DEFINE old == links[o]
<1>a. /\ links' = [links EXCEPT ![o] = new]
      /\ UNCHANGED <<blobs, uploads, jobs, cleaners, faults>>
  BY DEF ModifyLink
<1>b. /\ files' \in [Files -> Documents]
      /\ \A g \in Files : g \notin {old, new} => files'[g] = files[g]
      /\ \A g \in Files : files'[g].handle = files[g].handle
      /\ old # NoFile => /\ files[old].state = "claimed"
                         /\ files'[old].state = "released"
      /\ new # NoFile => /\ uploads[new].phase = "keyed"
                         /\ files[new].state = "uploaded"
                         /\ files'[new].state = "claimed"
                         /\ files'[new].owner = o
  BY <1>0, ModifyType
<1>l. /\ links' \in [Owners -> Files \cup {NoFile}]
      /\ links'[o] = new
      /\ \A p \in Owners \ {o} : links'[p] = links[p]
      /\ old \in Files \cup {NoFile} /\ NoFile \notin Files
  BY <1>0, <1>a, Types DEF TypeOK
<1>o. old = links[o]
  OBVIOUS
<1> HIDE DEF old
<1>1. TypeOK'
  BY <1>0, <1>a, <1>b, <1>l DEF TypeOK
<1>c. \A g \in Files :
        \/ files'[g] = files[g]
        \/ /\ g = old
           /\ files[g].state = "claimed" /\ files'[g].state = "released"
        \/ /\ g = new
           /\ files[g].state = "uploaded" /\ files'[g].state = "claimed"
           /\ uploads[g].phase = "keyed" /\ files'[g].owner = o
  BY <1>b, <1>l
<1>e. \A g \in Files : Exists(g)' <=> Exists(g)
  BY <1>c DEF Exists
<1>2. OneTracker' /\ Tracked'
  BY <1>0, <1>a, <1>b, <1>e, HandlesKept DEF Fresh
<1>3. Roles'
  BY <1>0, <1>a DEF Roles
<1>4. ASSUME Timely
      PROVE  Timed'
  <2>0. Timed
    BY <1>4 DEF IInv
  <2>1. ASSUME NEW g \in Files
        PROVE  Purpose(g)' /\ Progress(g)'
    <3>1. Purpose(g)'
      BY <2>0, <1>a DEF Timed, Purpose, Fresh
    <3>2. CASE files'[g] = files[g]
      BY <3>1, <3>2, <2>0, <1>a DEF Timed, Progress, Running, Complete
    <3>3. CASE files'[g] # files[g]
      <4>1. /\ files[g].state \in {"claimed", "uploaded"}
            /\ files[g].state = "uploaded" => uploads[g].phase = "keyed"
            /\ files'[g].state \in {"claimed", "released"}
        BY <3>3, <1>c
      <4>2. ~Running(g)
        BY <4>1, <2>0 DEF Timed, Progress, Running
      <4> QED
        BY <3>1, <4>1, <4>2, <1>a DEF Progress, Running, Complete
    <3> QED
      BY <3>2, <3>3
  <2>2. \A g \in Files : Old(g) => Old(g)'
    BY <1>c DEF Old
  <2>3. \A g \in jobs' : ~Fresh(g)' /\ Old(g)'
    BY <2>0, <2>2, <1>0, <1>a DEF Timed, TypeOK, Fresh
  <2>4. ASSUME NEW c \in Cleaners
        PROVE  Cleaning(c)'
    <3>1. CASE cleaners[c].phase = "idle"
      BY <3>1, <1>a DEF Cleaning
    <3>2. CASE cleaners[c].phase # "idle"
      <4>1. Cleaning(c) /\ cleaners[c].file \in Files
        BY <3>2, <2>0, <1>0 DEF Timed, Roles
      <4>2. Old(cleaners[c].file)'
        BY <3>2, <4>1, <1>a, <1>c DEF Cleaning, Old
      <4>3. Doomed(c) => Doomed(c)'
        <5> SUFFICES ASSUME Doomed(c) PROVE Doomed(c)'
          OBVIOUS
        <5>1. files'[cleaners[c].file] = files[cleaners[c].file]
          BY <4>1, <1>c DEF Doomed
        <5> QED
          BY <4>1, <5>1, <1>a, <1>b, <1>e DEF Doomed, Exists, Fresh
      <4> QED
        BY <3>2, <4>1, <4>2, <4>3, <1>a DEF Cleaning, Fresh
    <3> QED
      BY <3>1, <3>2
  <2>5. Content'
    <3> SUFFICES ASSUME NEW g \in Files, files'[g].state = "claimed"
                 PROVE  blobs[files[g].handle] = g
      BY <1>a, <1>b DEF Content
    <3>1. CASE files'[g] = files[g]
      BY <3>1, <2>0 DEF Timed, Content
    <3>2. CASE files'[g] # files[g]
      <4>1. files[g].state = "uploaded" /\ uploads[g].phase = "keyed"
        BY <3>2, <1>c
      <4>2. uploads[g].original = NoFile /\ ~Fresh(g)
        BY <4>1, <1>0 DEF Roles, Fresh
      <4> QED
        BY <4>1, <4>2, <2>0 DEF Timed, Progress, Complete, Purpose
    <3> QED
      BY <3>1, <3>2
  <2>6. LinksClaim'
    <3>0. /\ \A p \in Owners : links[p] # NoFile =>
               files[links[p]].state = "claimed" /\ files[links[p]].owner = p
          /\ \A f \in Files : files[f].state = "claimed" =>
               files[f].owner \in Owners /\ links[files[f].owner] = f
          /\ \A p \in Owners : links[p] \in Files \cup {NoFile}
      BY <2>0, <1>0, <1>4, Types DEF Timed, LinksClaim
    <3>1. ASSUME NEW p \in Owners, links'[p] # NoFile
          PROVE  files'[links'[p]].state = "claimed"
                 /\ files'[links'[p]].owner = p
      <4>1. CASE p = o
        BY <3>1, <4>1, <1>b, <1>l
      <4>2. CASE p # o
        <5>1. links'[p] = links[p] /\ links[p] \in Files
          BY <3>0, <3>1, <4>2, <1>l
        <5>2. files[links[p]].state = "claimed" /\ files[links[p]].owner = p
          BY <3>0, <3>1, <5>1
        <5>3. links[p] # old
          BY <3>0, <3>1, <4>2, <5>1, <5>2, <1>o
        <5>4. links[p] # new
          BY <5>1, <5>2, <1>b, <1>l
        <5> QED
          BY <5>1, <5>2, <5>3, <5>4, <1>b
      <4> QED
        BY <4>1, <4>2
    <3>2. ASSUME NEW f \in Files, files'[f].state = "claimed"
          PROVE  files'[f].owner \in Owners /\ links'[files'[f].owner] = f
      <4>1. CASE f = new
        BY <4>1, <1>b, <1>l
      <4>2. CASE f # new
        <5>1. f # old /\ files'[f] = files[f]
          BY <3>2, <4>2, <1>b, <1>l
        <5>2. files[f].owner \in Owners /\ links[files[f].owner] = f
          BY <3>0, <3>2, <5>1
        <5>3. files[f].owner # o
          BY <5>1, <5>2, <1>o
        <5> QED
          BY <5>1, <5>2, <5>3, <1>l
      <4> QED
        BY <4>1, <4>2
    <3> QED
      BY <3>1, <3>2 DEF LinksClaim
  <2>7. BlobsTracked'
    BY <2>0, <1>4, <1>a, <1>b, <1>e DEF Timed, BlobsTracked
  <2> QED
    BY <2>1, <2>3, <2>4, <2>5, <2>6, <2>7 DEF Timed
<1> QED
  BY <1>1, <1>2, <1>3, <1>4 DEF IInv, Timely

-----------------------------------------------------------------------------

(* What the passing of time leaves of a file and of an upload.             *)
LEMMA AgedType ==
  ASSUME NEW doc \in Documents
  PROVE  /\ Aged(doc) \in Documents
         /\ Aged(doc).state = doc.state /\ Aged(doc).handle = doc.handle
         /\ Aged(doc).owner = doc.owner
         /\ doc.age <= Aged(doc).age /\ Aged(doc).age <= doc.age + 1
<1>1. doc.age \in 0..(Retention + 1) /\ Retention \in Nat
  BY BlazeAssumption DEF Documents
<1>2. CASE doc.state \in {"uploading", "uploaded"} /\ doc.age <= Retention
  <2>1. doc.age + 1 \in 0..(Retention + 1)
    BY <1>1, <1>2
  <2>2. Aged(doc) = [doc EXCEPT !.age = doc.age + 1]
    BY <1>2 DEF Aged
  <2> QED
    BY <2>1, <2>2, <1>1 DEF Documents
<1>3. CASE ~(doc.state \in {"uploading", "uploaded"} /\ doc.age <= Retention)
  <2>1. Aged(doc) = doc
    BY <1>3 DEF Aged
  <2> QED
    BY <2>1, <1>1
<1> QED
  BY <1>2, <1>3

(* A file and its upload grow old together.                                *)
LEMMA TickInv == ASSUME IInv, Tick PROVE IInv'
<1>0. TypeOK /\ OneTracker /\ Tracked /\ Roles
  BY DEF IInv
<1>a. /\ \A f \in Files : Running(f) => uploads[f].time < UploadTime
      /\ files' = [f \in Files |-> Aged(files[f])]
      /\ uploads' = [f \in Files |->
                       IF Running(f) THEN [uploads[f] EXCEPT !.time = @ + 1]
                       ELSE uploads[f]]
      /\ UNCHANGED <<blobs, links, jobs, cleaners, faults>>
  BY DEF Tick
<1>b. /\ files' \in [Files -> Documents]
      /\ \A g \in Files :
           /\ files'[g].state = files[g].state
           /\ files'[g].handle = files[g].handle
           /\ files'[g].owner = files[g].owner
           /\ files[g].age <= files'[g].age /\ files'[g].age <= files[g].age + 1
  BY <1>0, <1>a, AgedType, Types
<1>c. /\ uploads' \in [Files -> Uploads]
      /\ \A g \in Files :
           /\ uploads'[g].phase = uploads[g].phase
           /\ uploads'[g].to = uploads[g].to
           /\ uploads'[g].data = uploads[g].data
           /\ uploads'[g].original = uploads[g].original
           /\ Running(g) => uploads'[g].time = uploads[g].time + 1
  <2>1. ASSUME NEW g \in Files
        PROVE  /\ uploads'[g] \in Uploads
               /\ uploads'[g].phase = uploads[g].phase
               /\ uploads'[g].to = uploads[g].to
               /\ uploads'[g].data = uploads[g].data
               /\ uploads'[g].original = uploads[g].original
               /\ Running(g) => uploads'[g].time = uploads[g].time + 1
    <3>1. uploads[g] \in Uploads /\ uploads[g].time \in 0..UploadTime
          /\ UploadTime \in Nat
      BY <1>0, Types
    <3>2. CASE Running(g)
      <4>1. uploads'[g] = [uploads[g] EXCEPT !.time = uploads[g].time + 1]
        BY <3>2, <1>a
      <4>2. uploads[g].time + 1 \in 0..UploadTime
        BY <3>1, <3>2, <1>a
      <4> QED
        BY <3>1, <4>1, <4>2 DEF Uploads
    <3>3. CASE ~Running(g)
      <4>1. uploads'[g] = uploads[g]
        BY <3>3, <1>a
      <4> QED
        BY <3>1, <3>3, <4>1
    <3> QED
      BY <3>2, <3>3
  <2>2. uploads' \in [Files -> Uploads]
    BY <2>1, <1>a
  <2> QED
    BY <2>1, <2>2
<1>1. TypeOK'
  BY <1>0, <1>a, <1>b, <1>c DEF TypeOK
<1>e. \A g \in Files : /\ Fresh(g)' <=> Fresh(g)
                       /\ Exists(g)' <=> Exists(g)
                       /\ Running(g)' <=> Running(g)
                       /\ Complete(g)' <=> Complete(g)
  BY <1>b, <1>c DEF Fresh, Exists, Running, Complete
<1>2. OneTracker' /\ Tracked'
  BY <1>0, <1>b, <1>c, <1>e, HandlesKept
<1>3. Roles'
  BY <1>0, <1>a, <1>c DEF Roles
<1>4. ASSUME Timely
      PROVE  Timed'
  <2>0. Timed
    BY <1>4 DEF IInv
  <2>1. ASSUME NEW g \in Files
        PROVE  Purpose(g)' /\ Progress(g)'
    <3>1. Purpose(g)'
      BY <2>0, <1>c, <1>e DEF Timed, Purpose
    <3>2. Running(g) => files'[g].age <= uploads'[g].time
      <4> SUFFICES ASSUME Running(g) PROVE files'[g].age <= uploads'[g].time
        OBVIOUS
      <4>1. files[g].age <= uploads[g].time
        BY <2>0 DEF Timed, Progress
      <4>2. uploads[g].time \in Nat /\ files[g].age \in Nat
            /\ files'[g].age \in Nat
        BY <1>0, <1>1, Types DEF TypeOK, Documents
      <4>3. files'[g].age <= files[g].age + 1
            /\ uploads'[g].time = uploads[g].time + 1
        BY <1>b, <1>c
      <4> QED
        BY <4>1, <4>2, <4>3
    <3> QED
      BY <3>1, <3>2, <2>0, <1>a, <1>b, <1>c, <1>e DEF Timed, Progress
  <2>2. ASSUME NEW g \in Files, Old(g)
        PROVE  Old(g)'
    <3>1. files[g].age \in Nat /\ files'[g].age \in Nat /\ Retention \in Nat
      BY <1>0, <1>b, Types DEF Documents
    <3> QED
      BY <2>2, <3>1, <1>b DEF Old
  <2>3. \A g \in jobs' : ~Fresh(g)' /\ Old(g)'
    BY <2>0, <2>2, <1>0, <1>a, <1>e DEF Timed, TypeOK
  <2>4. ASSUME NEW c \in Cleaners
        PROVE  Cleaning(c)'
    <3>1. CASE cleaners[c].phase = "idle"
      BY <3>1, <1>a DEF Cleaning
    <3>2. CASE cleaners[c].phase # "idle"
      <4>1. Cleaning(c) /\ cleaners[c].file \in Files
        BY <3>2, <2>0, <1>0 DEF Timed, Roles
      <4>2. Old(cleaners[c].file)'
        <5>1. Old(cleaners[c].file)
          BY <3>2, <4>1 DEF Cleaning
        <5> DEFINE g == cleaners[c].file
        <5>2. files[g].age \in Nat /\ files'[g].age \in Nat /\ Retention \in Nat
          BY <4>1, <1>0, <1>b, Types DEF Documents
        <5> QED
          BY <4>1, <5>1, <5>2, <1>a, <1>b DEF Old
      <4>3. Doomed(c) => Doomed(c)'
        <5> SUFFICES ASSUME Doomed(c) PROVE Doomed(c)'
          OBVIOUS
        <5>1. ~Fresh(Origin(cleaners[c].handle))'
          BY <1>a, <1>c, HandleOrigin DEF Doomed, Fresh
        <5> QED
          BY <4>1, <5>1, <1>a, <1>b, <1>e DEF Doomed
      <4> QED
        BY <3>2, <4>1, <4>2, <4>3, <1>a, <1>c DEF Cleaning, Fresh
    <3> QED
      BY <3>1, <3>2
  <2>5. Content'
    BY <2>0, <1>a, <1>b DEF Timed, Content
  <2>6. LinksClaim'
    BY <2>0, <1>0, <1>4, <1>a, <1>b, Types DEF Timed, LinksClaim
  <2>7. BlobsTracked'
    BY <2>0, <1>4, <1>a, <1>b, <1>e DEF Timed, BlobsTracked
  <2> QED
    BY <2>1, <2>3, <2>4, <2>5, <2>6, <2>7 DEF Timed
<1> QED
  BY <1>1, <1>2, <1>3, <1>4 DEF IInv, Timely

LEMMA StutterInv == IInv /\ UNCHANGED vars => IInv'
<1> SUFFICES ASSUME IInv, UNCHANGED vars PROVE IInv'
  OBVIOUS
<1>1. UNCHANGED <<files, blobs, links, uploads, jobs, cleaners, faults>>
  BY DEF vars
<1>2. TypeOK' /\ OneTracker' /\ Tracked' /\ Roles'
  BY <1>1, HandlesKept DEF IInv, TypeOK, Exists, Fresh, Roles
<1>3. Timed => Timed'
  BY <1>1 DEF Timed, Purpose, Progress, Running, Complete, Fresh, Old,
              Cleaning, Doomed, Exists, Content, LinksClaim, BlobsTracked,
              Timely
<1> QED
  BY <1>2, <1>3 DEF IInv, Timely

(* Every step keeps the inductive invariant.                               *)
LEMMA StepInv == IInv /\ [Next]_vars => IInv'
<1> SUFFICES ASSUME IInv, [Next]_vars PROVE IInv'
  OBVIOUS
<1>1. CASE \E f \in Files : Upload(f) \/ UploadStep(f) \/ Scan(f)
  <2> PICK f \in Files : Upload(f) \/ UploadStep(f) \/ Scan(f)
    BY <1>1
  <2>1. CASE Upload(f)
    BY <2>1, UploadInv
  <2>2. CASE UploadStep(f)
    BY <2>2, StoreInv, VerifyInv, FinishInv, AbortInv, SwapInv DEF UploadStep
  <2>3. CASE Scan(f)
    BY <2>3, ScanInv
  <2> QED
    BY <2>1, <2>2, <2>3
<1>2. CASE \E o, f \in Files : MigrateFile(o, f)
  BY <1>2, MigrateInv
<1>3. CASE \E o \in Owners, f \in Files \cup {NoFile} : ModifyLink(o, f)
  BY <1>3, ModifyInv
<1>4. CASE \E c \in Cleaners : CleanerStep(c) \/ Fail(c)
  <2> PICK c \in Cleaners : CleanerStep(c) \/ Fail(c)
    BY <1>4
  <2> QED
    BY FindInv, MarkInv, DeleteBlobInv, DeleteFileInv, FailInv DEF CleanerStep
<1>5. CASE Tick
  BY <1>5, TickInv
<1>6. CASE UNCHANGED vars
  BY <1>6, StutterInv
<1> QED
  BY <1>1, <1>2, <1>3, <1>4, <1>5, <1>6 DEF Next

-----------------------------------------------------------------------------

(* The inductive invariant holds: uploads, claims, migrations and cleanups *)
(* agree on which file tracks which blob.                                  *)
THEOREM InvHolds == Spec => []IInv
BY InitInv, StepInv, PTL DEF Spec

(* A link and a claimed file belong together, and no two files track the   *)
(* same blob: bucket.go.                                                   *)
THEOREM FilesInvHolds == Spec => []FilesInv
<1>1. IInv => FilesInv
  BY DEF IInv, Timed, FilesInv, LinksClaim
<1> QED
  BY <1>1, InvHolds, PTL

(* The blob of a link is what was uploaded: no cleanup has deleted it and  *)
(* no migration has replaced it.                                           *)
THEOREM LinksServedHolds == Spec => []LinksServed
<1>1. IInv => LinksServed
  <2> SUFFICES ASSUME IInv, Timely, NEW o \in Owners, links[o] # NoFile
               PROVE  blobs[files[links[o]].handle] = links[o]
    BY DEF LinksServed
  <2>1. links[o] \in Files /\ files[links[o]].state = "claimed"
    BY Types DEF IInv, Timed, LinksClaim
  <2> QED
    BY <2>1 DEF IInv, Timed, Content
<1> QED
  BY <1>1, InvHolds, PTL

(* Every blob is tracked by a file.                                        *)
THEOREM BlobsTrackedHolds == Spec => []BlobsTracked
<1>1. IInv => BlobsTracked
  BY DEF IInv, Timed, BlobsTracked
<1> QED
  BY <1>1, InvHolds, PTL

-----------------------------------------------------------------------------

(* What a step may do to the state of a file.                              *)
Moved(f) ==
  \/ files'[f].state = files[f].state
  \/ files[f].state = "uploading" /\ files'[f].state = "uploaded"
  \/ files[f].state = "uploaded" /\ files'[f].state \in {"claimed", "released"}
  \/ files[f].state = "claimed" /\ files'[f].state = "released"
  \/ files[f].state = "deleting" /\ files'[f].state = "absent"
  \/ /\ files[f].state \in {"uploading", "uploaded", "released", "deleting"}
     /\ files'[f].state = "deleting"
     /\ Old(f)

LEMMA BeginMoves ==
  ASSUME IInv, NEW f \in Files, Exists(f),
         NEW g \in Files, NEW upload, Begin(g, upload)
  PROVE  Moved(f)
<1>1. ~Exists(g)
  BY DEF Begin, IInv, Tracked, Fresh
<1> QED
  BY <1>1 DEF Begin, Moved, IInv, TypeOK

LEMMA UploadMoves ==
  ASSUME IInv, Timely, NEW f \in Files, NEW g \in Files, UploadStep(g)
  PROVE  Moved(f)
<1>0. files \in [Files -> Documents]
  BY DEF IInv, TypeOK
<1>1. CASE UNCHANGED files
  BY <1>1 DEF Moved
<1>2. CASE Finish(g)
  <2>1. files[g].state = "uploading"
    BY <1>2 DEF Finish, IInv, Timed, Progress, Running
  <2>2. files' = [files EXCEPT ![g].state = "uploaded", ![g].age = 0]
    BY <1>2, <2>1 DEF Finish, Exists
  <2>3. CASE f = g
    <3>1. files'[f].state = "uploaded"
      BY <1>0, <2>2, <2>3 DEF Documents
    <3> QED
      BY <2>1, <2>3, <3>1 DEF Moved
  <2>4. CASE f # g
    BY <1>0, <2>2, <2>4 DEF Moved
  <2> QED
    BY <2>3, <2>4
<1>3. CASE Swap(g) /\ files' # files
  <2> DEFINE o == uploads[g].original
  <2>1. /\ files[o].state = "claimed" /\ files[g].state = "uploaded"
        /\ files' = [files EXCEPT
                       ![o].handle = uploads[g].to, ![o].age = 0,
                       ![g].state = "released",
                       ![g].handle = uploads[g].from, ![g].age = 0]
    BY <1>3 DEF Swap, Unswapped
  <2>2. o # g
    BY <2>1
  <2> HIDE DEF o
  <2>3. CASE f = g
    <3>1. files'[f].state = "released"
      BY <1>0, <2>1, <2>2, <2>3 DEF Documents
    <3> QED
      BY <2>1, <2>3, <3>1 DEF Moved
  <2>4. CASE f # g
    <3>1. files'[f].state = files[f].state
      BY <1>0, <2>1, <2>4 DEF Documents
    <3> QED
      BY <3>1 DEF Moved
  <2> QED
    BY <2>3, <2>4
<1>4. Store(g) \/ Verify(g) \/ Abort(g) => UNCHANGED files
  BY DEF Store, Verify, Abort
<1> QED
  BY <1>1, <1>2, <1>3, <1>4 DEF UploadStep

LEMMA LinkMoves ==
  ASSUME IInv, NEW f \in Files,
         NEW o \in Owners, NEW new \in Files \cup {NoFile}, ModifyLink(o, new)
  PROVE  Moved(f)
<1>1. TypeOK
  BY DEF IInv
<1>2. /\ \A g \in Files : g \notin {links[o], new} => files'[g] = files[g]
      /\ links[o] # NoFile => /\ files[links[o]].state = "claimed"
                              /\ files'[links[o]].state = "released"
      /\ new # NoFile => /\ files[new].state = "uploaded"
                         /\ files'[new].state = "claimed"
  BY <1>1, ModifyType
<1>3. NoFile \notin Files
  BY BlazeAssumption
<1> QED
  BY <1>2, <1>3 DEF Moved

LEMMA CleanerMoves ==
  ASSUME IInv, Timely, NEW f \in Files, Exists(f),
         NEW c \in Cleaners, CleanerStep(c) \/ Fail(c)
  PROVE  Moved(f)
<1>0. files \in [Files -> Documents]
  BY DEF IInv, TypeOK
<1>1. CASE UNCHANGED files
  BY <1>1 DEF Moved
<1>2. CASE Mark(c) /\ files' # files
  <2> DEFINE g == cleaners[c].file
  <2>1. /\ cleaners[c].phase = "found" /\ FoundState(c)
        /\ files' = [files EXCEPT ![g].state = "deleting"]
    BY <1>2 DEF Mark
  <2>2. g \in Files /\ Old(g) /\ files[g].state \notin {"absent", "claimed"}
    BY <2>1 DEF IInv, Roles, Timed, Cleaning, FoundState
  <2>3. files[g].state \in States
    BY <1>0, <2>2 DEF Documents
  <2> HIDE DEF g
  <2>4. CASE f = g
    <3>1. files'[f].state = "deleting"
      BY <1>0, <2>1, <2>4 DEF Documents
    <3> QED
      BY <2>2, <2>3, <2>4, <3>1 DEF Moved, States
  <2>5. CASE f # g
    BY <1>0, <2>1, <2>5 DEF Moved
  <2> QED
    BY <2>4, <2>5
<1>3. CASE DeleteFile(c)
  <2> DEFINE g == cleaners[c].file
  <2>1. /\ cleaners[c].phase = "remove"
        /\ files' = [files EXCEPT ![g] = Absent]
    BY <1>3 DEF DeleteFile
  <2>2. files[g].state \in {"deleting", "absent"}
    BY <2>1 DEF IInv, Roles, Timed, Cleaning, Doomed
  <2> HIDE DEF g
  <2>3. CASE f = g
    <3>1. files'[f].state = "absent"
      BY <1>0, <2>1, <2>3 DEF Absent
    <3> QED
      BY <2>2, <2>3, <3>1 DEF Moved, Exists
  <2>4. CASE f # g
    BY <1>0, <2>1, <2>4 DEF Moved
  <2> QED
    BY <2>3, <2>4
<1>4. Find(c) \/ DeleteBlob(c) \/ Fail(c) => UNCHANGED files
  BY DEF Find, DeleteBlob, Fail
<1> QED
  BY <1>1, <1>2, <1>3, <1>4 DEF CleanerStep

LEMMA NextMoves ==
  ASSUME IInv, [Next]_vars, Timely, NEW f \in Files, Exists(f)
  PROVE  Moved(f)
<1>1. CASE \E g \in Files : Upload(g) \/ UploadStep(g) \/ Scan(g)
  <2> PICK g \in Files : Upload(g) \/ UploadStep(g) \/ Scan(g)
    BY <1>1
  <2>1. CASE Upload(g)
    BY <2>1, BeginMoves DEF Upload
  <2>2. CASE UploadStep(g)
    BY <2>2, UploadMoves
  <2>3. CASE Scan(g)
    BY <2>3 DEF Scan, Moved
  <2> QED
    BY <2>1, <2>2, <2>3
<1>2. CASE \E o, g \in Files : MigrateFile(o, g)
  BY <1>2, BeginMoves DEF MigrateFile
<1>3. CASE \E o \in Owners, g \in Files \cup {NoFile} : ModifyLink(o, g)
  BY <1>3, LinkMoves
<1>4. CASE \E c \in Cleaners : CleanerStep(c) \/ Fail(c)
  BY <1>4, CleanerMoves
<1>5. CASE Tick
  BY <1>5, AgedType DEF Tick, Moved, IInv, TypeOK
<1>6. CASE UNCHANGED vars
  BY <1>6 DEF vars, Moved
<1> QED
  BY <1>1, <1>2, <1>3, <1>4, <1>5, <1>6 DEF Next

(* A file only moves forward: it is never claimed or uploaded again.       *)
THEOREM StateForwardHolds == Spec => StateForward
<1>1. IInv /\ [Next]_vars =>
        [Timely => \A f \in Files :
           Exists(f) => Rank(files'[f].state) >= Rank(files[f].state)]_vars
  <2> SUFFICES ASSUME IInv, [Next]_vars, Timely, NEW f \in Files, Exists(f)
               PROVE  Rank(files'[f].state) >= Rank(files[f].state)
    OBVIOUS
  <2>1. Moved(f)
    BY NextMoves
  <2>2. files[f].state \in States
    BY Types DEF IInv
  <2> QED
    BY <2>1, <2>2 DEF Moved, Rank, States
<1> QED
  BY <1>1, InvHolds, PTL DEF Spec, StateForward

(* The cleanup marks no file that is uploaded before the retention is over.*)
THEOREM RetentionHonoredHolds == Spec => RetentionHonored
<1>1. IInv /\ [Next]_vars =>
        [Timely => \A f \in Files :
           /\ files[f].state \in {"uploading", "uploaded"}
           /\ files'[f].state = "deleting"
           => files[f].age > Retention]_vars
  <2> SUFFICES ASSUME IInv, [Next]_vars, Timely, NEW f \in Files,
                      files[f].state \in {"uploading", "uploaded"},
                      files'[f].state = "deleting"
               PROVE  files[f].age > Retention
    OBVIOUS
  <2>1. Moved(f)
    BY NextMoves DEF Exists
  <2> QED
    BY <2>1 DEF Moved, Old
<1> QED
  BY <1>1, InvHolds, PTL DEF Spec, RetentionHonored

=============================================================================
