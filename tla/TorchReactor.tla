---------------------------- MODULE TorchReactor ----------------------------
(***************************************************************************)
(* The reactor with a computed field: torch/reactor.go, torch/compute.go.  *)
(*                                                                         *)
(* A model has an input, an output that is computed from it by jobs, a     *)
(* status that names the input (by its hash) the output is for, and a tag  *)
(* that counts outstanding operations.  Saving the model checks it in the  *)
(* same transaction: a check increments the tag and enqueues a process job *)
(* unless there is one with the same label.  A process job loads the model,*)
(* computes, and updates it by its ID; a periodic scan job enqueues process*)
(* jobs for models that need one and clears tags that dangle.              *)
(*                                                                         *)
(* The output for an input is represented by the input, and inputs by      *)
(* numbers.  There is one model, as labels, filters and updates all name   *)
(* the model.                                                              *)
(***************************************************************************)
EXTENDS Integers

CONSTANTS
  Inputs,    \* the inputs, NoInput among them if inputs may be absent
  NoInput,   \* the absent input: its hash is empty
  Setups,    \* the settings the reactor is used with
  MaxSaves,  \* bound: the number of times the model is saved
  MaxFailures  \* bound: the failures and crashes

ASSUME TorchAssumption ==
  /\ Inputs \subseteq Nat /\ \E i \in Inputs : \A j \in Inputs : i <= j
  /\ NoInput \in Nat
  /\ Setups \subseteq SUBSET {"releaser", "retry", "rehash", "scanning"}
  /\ MaxSaves \in Nat /\ MaxFailures \in Nat

VARIABLES
  setup,    \* the settings
  model,    \* the document
  job,      \* the process job for the model
  worker,   \* the execution of the process job
  scan,     \* the scan job
  lapsed,   \* whether the tag has lost count of the saves (history)
  saves,    \* the number of saves so far
  failures    \* the number of faults so far

reactorVars == <<setup, model, job, worker, scan, lapsed, saves, failures>>

Hashes == Inputs \cup {NoInput}

(***************************************************************************)
(* There may be a releaser (and outputs are not kept), a retry interval, a *)
(* rehash interval and a scan task.                                        *)
(***************************************************************************)
Releaser == "releaser" \in setup
Retry == "retry" \in setup
Rehash == "rehash" \in setup
Scanning == "scanning" \in setup

(* "known": there is a status.  "recent": the status has been updated less *)
(* than the retry or rehash interval ago.                                  *)
Statuses == [known : BOOLEAN, hash : Hashes, valid : BOOLEAN,
             failed : BOOLEAN, recent : BOOLEAN]

Models == [input : Hashes, output : Hashes, status : Statuses, tag : Int]

NoStatus == [known |-> FALSE, hash |-> NoInput, valid |-> FALSE,
             failed |-> FALSE, recent |-> FALSE]

Valid(hash) == [known |-> TRUE, hash |-> hash, valid |-> TRUE,
                failed |-> FALSE, recent |-> TRUE]

Pending(failed) == [known |-> TRUE, hash |-> NoInput, valid |-> FALSE,
                    failed |-> failed, recent |-> TRUE]

(* The model that the handler has loaded.  A job has one handler at a time:*)
(* the context of a handler ends before its job is dequeued again, and it  *)
(* does not update the model any more (see AxeJobs).                       *)
WorkerStates == [phase : {"idle", "loaded", "updated"}, seen : Models]

ScanStates == [phase : {"idle", "enqueue", "reject"}, tag : Int]

Fresh == [input |-> CHOOSE i \in Inputs : \A j \in Inputs : i <= j,
          output |-> NoInput,
          status |-> NoStatus, tag |-> 0]

Idle == [phase |-> "idle", seen |-> Fresh]

NoScan == [phase |-> "idle", tag |-> 0]

ReactorTypeOK ==
  /\ setup \in Setups
  /\ model \in Models
  /\ model.tag <= MaxSaves
  /\ job \in {"none", "queued", "running"}
  /\ worker \in WorkerStates
  /\ scan \in ScanStates
  /\ lapsed \in BOOLEAN
  /\ saves \in 0..MaxSaves
  /\ failures \in 0..MaxFailures

(* The model has been created before the operation was added.              *)
ReactorInit ==
  /\ setup \in Setups
  /\ model = Fresh
  /\ job = "none"
  /\ worker = Idle
  /\ scan = NoScan
  /\ lapsed = FALSE
  /\ saves = 0
  /\ failures = 0

Fault ==
  /\ failures < MaxFailures
  /\ failures' = failures + 1

(* A handler, or a scan, has read the tag and has yet to decrement it.     *)
Handling == worker.phase = "loaded"
Rejecting == scan.phase = "reject"

(* The job of the model has a label: there is at most one.                 *)
Enqueued == IF job = "none" THEN "queued" ELSE job

-----------------------------------------------------------------------------

(* The filter of a computation: whether the model needs to be processed.   *)
Filter(m) ==
  /\ ~(Retry /\ m.status.failed /\ m.status.recent)
  /\ ~m.status.valid \/ m.input # m.status.hash

(* The input is absent and nothing has to be computed for that.            *)
Released(m) ==
  /\ m.input = NoInput
  /\ ~m.status.known \/ (IF m.status.hash = NoInput
                         THEN m.status.valid ELSE Releaser)

Release(m) == [m EXCEPT !.output = NoInput, !.status = Valid(NoInput)]

(* The output is released unless it is kept, and the status is cleared.    *)
Deferred(m) ==
  [m EXCEPT !.output = IF Releaser /\ m.status.hash # NoInput
                       THEN NoInput ELSE @,
            !.status = Pending(m.status.failed),
            !.tag = @ + 1]

(***************************************************************************)
(* A user saves the model.  The check runs the operation: what is released *)
(* in the transaction needs no tag, and a computation is deferred to a job.*)
(* The tag loses count when it is not incremented although a handler is    *)
(* computing for another input, and when it is removed while a handler or  *)
(* a scan is going to decrement it.                                        *)
(***************************************************************************)
Save(i) ==
  LET m == [model EXCEPT !.input = i] IN
  /\ saves < MaxSaves
  /\ saves' = saves + 1
  /\ \/ /\ ~Filter(m)
        /\ model' = m
        /\ lapsed' = (lapsed \/ (Handling /\ i # worker.seen.input))
        /\ UNCHANGED job
     \/ /\ Filter(m) /\ Released(m)
        /\ model' = [Release(m) EXCEPT !.tag = 0]
        /\ lapsed' = (lapsed \/ Handling \/ Rejecting)
        /\ UNCHANGED job
     \/ /\ Filter(m) /\ ~Released(m)
        /\ model' = Deferred(m)
        /\ job' = Enqueued
        /\ UNCHANGED lapsed
  /\ UNCHANGED <<setup, worker, scan, failures>>

-----------------------------------------------------------------------------

(* A worker dequeues the job and loads the model.  A job whose worker has  *)
(* crashed is dequeued again.  If a scan has put the model aside, both     *)
(* subtract the tag.                                                       *)
Load ==
  /\ job # "none"
  /\ worker.phase = "idle"
  /\ job' = "running"
  /\ worker' = [phase |-> "loaded", seen |-> model]
  /\ lapsed' = (lapsed \/ Rejecting)
  /\ UNCHANGED <<setup, model, scan, saves, failures>>

Updated == worker' = [worker EXCEPT !.phase = "updated"]

(* Mutated: the tag is reset, and not decremented by what has been loaded. *)
Reset(n) == 0

(* The update decrements the tag by what has been loaded.                  *)
Decremented(n) == IF n > 0 THEN model.tag - n ELSE model.tag

(* The filter rejects the model: only the tag is updated.                  *)
Reject ==
  LET m == worker.seen IN
  /\ Handling
  /\ ~Filter(m)
  /\ model' = [model EXCEPT !.tag = Decremented(m.tag)]
  /\ Updated
  /\ UNCHANGED <<setup, job, scan, lapsed, saves, failures>>

(* Mutated: the input is hashed again when the status is updated.          *)
StatusAfter(m) == Valid(model.input)

(* The hash has been taken before the computation.                         *)
StatusOf(m) == Valid(m.input)

(* The output for the input that has been loaded and the status are set by *)
(* one update; the input that the model has by now is not compared.        *)
Finish ==
  LET m == worker.seen IN
  /\ Handling
  /\ Filter(m)
  /\ model' = [model EXCEPT !.output = m.input, !.status = StatusOf(m),
                            !.tag = Decremented(m.tag)]
  /\ Updated
  /\ UNCHANGED <<setup, job, scan, lapsed, saves, failures>>

(* A handler reports its progress: the status is replaced by its ID.       *)
Progress ==
  /\ Handling
  /\ Filter(worker.seen) /\ ~Released(worker.seen)
  /\ model' = [model EXCEPT !.status = Pending(worker.seen.status.failed)]
  /\ UNCHANGED <<setup, job, worker, scan, lapsed, saves, failures>>

(* The computation fails: with a retry interval the failure is recorded,   *)
(* otherwise the job is cancelled after its only attempt.                  *)
FailJob ==
  LET m == worker.seen IN
  /\ Handling
  /\ Filter(m) /\ ~Released(m)
  /\ Fault
  /\ model' = IF Retry
              THEN [model EXCEPT !.status = Pending(TRUE),
                                 !.tag = Decremented(m.tag)]
              ELSE model
  /\ Updated
  /\ UNCHANGED <<setup, job, scan, lapsed, saves>>

(* The job is completed or cancelled by a write of its own.                *)
Complete ==
  /\ worker.phase = "updated"
  /\ worker' = Idle
  /\ job' = "none"
  /\ UNCHANGED <<setup, model, scan, lapsed, saves, failures>>

(* The process dies: the job stays dequeued until its timeout.             *)
Crash ==
  /\ worker.phase # "idle"
  /\ Fault
  /\ worker' = Idle
  /\ UNCHANGED <<setup, model, job, scan, lapsed, saves>>

-----------------------------------------------------------------------------

(* The query of a scan.                                                    *)
Query ==
  \/ model.tag > 0
  \/ ~model.status.valid /\ ~(Retry /\ model.status.failed
                                /\ model.status.recent)
  \/ Rehash /\ model.status.valid /\ ~model.status.recent

(* The models are loaded, and those the filter rejects are put aside.      *)
Scan ==
  /\ Scanning
  /\ scan.phase = "idle"
  /\ Query
  /\ \/ /\ Filter(model)
        /\ scan' = [phase |-> "enqueue", tag |-> 0]
        /\ UNCHANGED lapsed
     \/ /\ ~Filter(model)
        /\ model.tag > 0
        /\ scan' = [phase |-> "reject", tag |-> model.tag]
        /\ lapsed' = (lapsed \/ Handling)
  /\ UNCHANGED <<setup, model, job, worker, saves, failures>>

ScanEnqueue ==
  /\ scan.phase = "enqueue"
  /\ job' = Enqueued
  /\ scan' = NoScan
  /\ UNCHANGED <<setup, model, worker, lapsed, saves, failures>>

(* "clear dangling tags, preserving any concurrent increments"             *)
ScanReject ==
  /\ Rejecting
  /\ model' = [model EXCEPT !.tag = @ - scan.tag]
  /\ scan' = NoScan
  /\ UNCHANGED <<setup, job, worker, lapsed, saves, failures>>

(* The intervals are over.                                                 *)
Tick ==
  /\ Retry \/ Rehash
  /\ model.status.recent
  /\ model' = [model EXCEPT !.status.recent = FALSE]
  /\ UNCHANGED <<setup, job, worker, scan, lapsed, saves, failures>>

-----------------------------------------------------------------------------

ReactorNext ==
  \/ \E i \in Inputs : Save(i)
  \/ Load \/ Reject \/ Finish \/ Progress \/ FailJob \/ Complete \/ Crash
  \/ Scan \/ ScanEnqueue \/ ScanReject
  \/ Tick

ReactorSpec == ReactorInit /\ [][ReactorNext]_reactorVars

(* Jobs are executed, a computation ends, and the scan is periodic.        *)
ReactorFairness ==
  /\ WF_reactorVars(Load)
  /\ WF_reactorVars(Reject \/ Finish)
  /\ WF_reactorVars(Complete)
  /\ WF_reactorVars(Scan)
  /\ WF_reactorVars(ScanEnqueue \/ ScanReject)
  /\ WF_reactorVars(Tick)

ReactorFairSpec == ReactorSpec /\ ReactorFairness

-----------------------------------------------------------------------------

(* The output is that of the input.                                        *)
Current == model.status.valid /\ model.output = model.input

(* An output that is not that of the input is found by the next scan, be   *)
(* it in work or not: "outstanding operations are tracked using a tag on   *)
(* the model and are guaranteed to be executed eventually".  That is so    *)
(* until the tag has lost count: a save during a computation has not been  *)
(* counted, or the same count has been cleared twice.                      *)
Tracked == ~lapsed => Current \/ ~model.status.valid \/ model.tag > 0

ReactorInv == ReactorTypeOK /\ Tracked

(* Once the model is not saved any more the output is that of its input:   *)
(* the rehash interval makes up for what the tag has missed.               *)
Settles == Rehash /\ Scanning => <>[]Current

=============================================================================
