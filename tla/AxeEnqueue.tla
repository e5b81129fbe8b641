----------------------------- MODULE AxeEnqueue -----------------------------
(***************************************************************************)
(* How labels and isolation keep jobs apart: Enqueue of axe/basic.go on top*)
(* of coal's InsertIfMissing, and the index that removes finished jobs.    *)
(*                                                                         *)
(* The upsert of InsertIfMissing looks for a document that matches the     *)
(* filter and inserts one if there is none.  The filter of Enqueue is not  *)
(* covered by a unique index, so nothing stops a second upsert between the *)
(* two.  The execution of the jobs is that of AxeJobs, reduced to the end  *)
(* of a job.  All jobs have the same name; an id is used again once its    *)
(* document is gone, so that jobs may be enqueued forever.                 *)
(*                                                                         *)
(* Two variables are history: they restrict no action, and let the         *)
(* properties tell upserts that overlap from those that do not.            *)
(***************************************************************************)
EXTENDS Naturals

CONSTANTS
  Ids,         \* bound: the documents there may be at a time
  Callers,     \* those that enqueue: requests, handlers, periodic enqueuers
  Labels,      \* the labels of the jobs, NoLabel among them
  NoLabel,     \* the empty label
  Isolations,  \* the isolations jobs are enqueued with, 0 for none
  Expiry,      \* the age at which the index removes a finished job
  AgeCap       \* bound: ages are counted up to here

ASSUME EnqueueAssumption ==
  /\ NoLabel \in Labels
  /\ Isolations \subseteq Nat
  /\ Expiry \in Nat /\ AgeCap \in Nat
  /\ Expiry <= AgeCap
  /\ \A isolation \in Isolations : isolation <= AgeCap

VARIABLES
  jobs,     \* jobs[i]: state, label and the age since the job finished
  callers,  \* callers[c]: the upsert that c is in the middle of
  rested,   \* rested[l]: the time since a job with label l finished
  meanwhile,  \* history: meanwhile[c]: the jobs that others have enqueued with
              \*   the label of c between its look-up and its insert
  twins     \* history: twins[i]: meanwhile of its caller as i was enqueued

history == <<meanwhile, twins>>

vars == <<jobs, callers, rested, meanwhile, twins>>

Unfinished == {"enqueued", "dequeued", "failed"}

Finished == {"completed", "cancelled"}

NoDocument == [state |-> "none", label |-> NoLabel, age |-> 0]

Waiting == [phase |-> "idle", label |-> NoLabel, isolation |-> 0]

TypeOK ==
  /\ jobs \in [Ids -> [state : Unfinished \cup Finished \cup {"none"},
                       label : Labels, age : 0..AgeCap]]
  /\ callers \in [Callers -> [phase : {"idle", "insert"}, label : Labels,
                              isolation : Isolations \cup {0}]]
  /\ rested \in [Labels -> 0..AgeCap]
  /\ meanwhile \in [Callers -> SUBSET Ids]
  /\ twins \in [Ids -> SUBSET Ids]

Init ==
  /\ jobs = [i \in Ids |-> NoDocument]
  /\ callers = [c \in Callers |-> Waiting]
  /\ rested = [l \in Labels |-> AgeCap]
  /\ meanwhile = [c \in Callers |-> {}]
  /\ twins = [i \in Ids |-> {}]

Inserted(i, label) ==
  /\ jobs[i].state = "none"
  /\ jobs' = [jobs EXCEPT ![i] = [state |-> "enqueued", label |-> label,
                                  age |-> 0]]

(* The callers in the middle of an upsert with the label.                  *)
Upserts(label) ==
  {c \in Callers : callers[c].phase = "insert" /\ callers[c].label = label}

(* The jobs the others meet once i is enqueued.                            *)
Met(i, label) ==
  [c \in Callers |->
     IF c \in Upserts(label) THEN meanwhile[c] \cup {i} ELSE meanwhile[c]]

(* Mutated: a failed job does not count.                                   *)
ConflictsNotFailed(job, label, isolation) ==
  /\ job.label = label
  /\ \/ job.state \in {"enqueued", "dequeued"}
     \/ isolation > 0 /\ job.state \in Finished /\ job.age < isolation

(* Mutated: the age of finished jobs is not considered.                    *)
ConflictsUnfinished(job, label, isolation) ==
  job.label = label /\ job.state \in Unfinished

(* The filter of Enqueue: a job with the label that is not finished or, if *)
(* there is an isolation, has finished recently.                           *)
Conflicts(job, label, isolation) ==
  /\ job.label = label
  /\ \/ job.state \in Unfinished
     \/ isolation > 0 /\ job.state \in Finished /\ job.age < isolation

(* "insert unlabeled non-isolated jobs immediately"                        *)
EnqueueFreely(c) ==
  /\ callers[c].phase = "idle"
  /\ 0 \in Isolations
  /\ \E i \in Ids : /\ Inserted(i, NoLabel)
                    /\ meanwhile' = Met(i, NoLabel)
  /\ UNCHANGED <<callers, rested, twins>>

(* The first half of the upsert, with no match.  A match changes nothing.  *)
Lookup(c) ==
  /\ callers[c].phase = "idle"
  /\ \E label \in Labels, isolation \in Isolations :
       /\ label # NoLabel \/ isolation > 0
       /\ \A i \in Ids : ~Conflicts(jobs[i], label, isolation)
       /\ callers' = [callers EXCEPT ![c] = [phase |-> "insert",
                                             label |-> label,
                                             isolation |-> isolation]]
  /\ UNCHANGED <<jobs, rested, history>>

(* The second half of the upsert.                                          *)
Insert(c) ==
  /\ callers[c].phase = "insert"
  /\ \E i \in Ids :
       /\ Inserted(i, callers[c].label)
       /\ meanwhile' = [Met(i, callers[c].label) EXCEPT ![c] = {}]
       /\ twins' = [twins EXCEPT ![i] = meanwhile[c]]
  /\ callers' = [callers EXCEPT ![c] = Waiting]
  /\ UNCHANGED rested

(* The caller dies, its transaction is aborted or the database refuses.    *)
Abort(c) ==
  /\ callers[c].phase = "insert"
  /\ callers' = [callers EXCEPT ![c] = Waiting]
  /\ meanwhile' = [meanwhile EXCEPT ![c] = {}]
  /\ UNCHANGED <<jobs, rested, twins>>

(* Dequeue and Fail: the job remains unfinished.                           *)
Work(i) ==
  /\ jobs[i].state \in Unfinished
  /\ \E state \in {"dequeued", "failed"} :
       /\ state = "failed" => jobs[i].state = "dequeued"
       /\ jobs' = [jobs EXCEPT ![i].state = state]
  /\ UNCHANGED <<callers, rested, history>>

(* Complete and Cancel set the time the job finished.                      *)
Finish(i) ==
  /\ jobs[i].state = "dequeued"
  /\ \E state \in Finished :
       jobs' = [jobs EXCEPT ![i].state = state, ![i].age = 0]
  /\ rested' = [rested EXCEPT ![jobs[i].label] = 0]
  /\ UNCHANGED <<callers, history>>

(* The index on Finished ignores documents that have no such time.         *)
Expired(job) == job.state \in Finished /\ job.age >= Expiry

(* The database removes expired documents some time after they expire.     *)
Expire(i) ==
  /\ Expired(jobs[i])
  /\ jobs' = [jobs EXCEPT ![i] = NoDocument]
  /\ meanwhile' = [c \in Callers |-> meanwhile[c] \ {i}]
  /\ twins' = [j \in Ids |-> IF j = i THEN {} ELSE twins[j] \ {i}]
  /\ UNCHANGED <<callers, rested>>

Older(age) == IF age < AgeCap THEN age + 1 ELSE age

Tick ==
  /\ jobs' = [i \in Ids |->
                IF jobs[i].state \in Finished
                THEN [jobs[i] EXCEPT !.age = Older(@)] ELSE jobs[i]]
  /\ rested' = [l \in Labels |-> Older(rested[l])]
  /\ UNCHANGED <<callers, history>>

Next ==
  \/ \E c \in Callers : EnqueueFreely(c) \/ Lookup(c) \/ Insert(c) \/ Abort(c)
  \/ \E i \in Ids : Work(i) \/ Finish(i) \/ Expire(i)
  \/ Tick

Spec == Init /\ [][Next]_vars

-----------------------------------------------------------------------------

(* The unfinished jobs with a label.                                       *)
Open(label) ==
  {i \in Ids : jobs[i].label = label /\ jobs[i].state \in Unfinished}

(* "no job is queued if there is already a job with the same label in the  *)
(* enqueued, dequeued or failed state" (Enqueue), as far as the upsert can *)
(* keep it: two jobs with a label are unfinished at a time only if one of  *)
(* them was enqueued between the look-up and the insert of the other.  A   *)
(* job that was there before, in whatever state its worker, its failures   *)
(* and its retries have left it, is never enqueued again.                  *)
LabelUnique ==
  \A label \in Labels \ {NoLabel} : \A i, j \in Open(label) :
    i # j => i \in twins[j] \/ j \in twins[i]

EnqueueInv == TypeOK /\ LabelUnique

(* The upsert of c ends with an insert.                                    *)
InsertsFor(c) ==
  /\ callers[c].phase = "insert"
  /\ callers'[c].phase = "idle"
  /\ jobs' # jobs

(* How far back an isolation is enforced: the look-up sees finished jobs   *)
(* only as long as the index keeps them.                                   *)
Enforced(isolation) == IF isolation < Expiry THEN isolation ELSE Expiry

(* The last job with the label of c to finish was enqueued during c's      *)
(* upsert.                                                                 *)
FinishedMeanwhile(c) ==
  \E i \in meanwhile[c] :
    jobs[i].state \in Finished /\ jobs[i].age = rested[callers[c].label]

(* With an isolation "the same rules applies also to unlabeled jobs in     *)
(* addition to that finished jobs must be older than the specified         *)
(* duration" (Enqueue), as far as the index keeps finished jobs: when a    *)
(* job is inserted, none with its label has finished within the isolation, *)
(* other than one that was enqueued during the upsert itself.              *)
IsolationHonored ==
  [][\A c \in Callers : InsertsFor(c) =>
       \/ rested[callers[c].label] >= Enforced(callers[c].isolation)
       \/ FinishedMeanwhile(c)]_vars

=============================================================================
