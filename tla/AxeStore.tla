------------------------------ MODULE AxeStore ------------------------------
(***************************************************************************)
(* The documents of the "jobs" collection and the writes of axe/basic.go.  *)
(*                                                                         *)
(* Every operation of basic.go is one conditional write of one document    *)
(* (coal's UpdateFirst): a filter, here a predicate on the document, and   *)
(* an update, here an operator that returns the new document.  AxeJobs and *)
(* AxeBoard build their actions from these operators.                      *)
(*                                                                         *)
(* Time is kept relative to the present, so that a behaviour may go on     *)
(* forever in a finite state space: "wait" is Available minus the present  *)
(* time.  A worker takes the time before it calls the database and the     *)
(* write takes effect "ago" ticks later.  "data" stands for the encoded    *)
(* job: the attempt whose handler wrote it, 0 for the enqueued one.        *)
(* Timestamps that nothing reads (Created, Started, Ended, the events) and *)
(* the status and progress are left out.                                   *)
(***************************************************************************)
EXTENDS Integers

(* Mutated: a job whose worker is gone is not dequeued again.              *)
PendingUnlessDequeued == {"enqueued", "failed"}

(* The states from which a job may be dequeued, and the final states.      *)
Pending == {"enqueued", "dequeued", "failed"}

Final == {"completed", "cancelled"}

(* "none" is the state of a document that has not been inserted.           *)
States == Pending \cup Final \cup {"none"}

Absent == [state |-> "none", wait |-> 0, attempts |-> 0, data |-> 0]

(* Enqueue: the document inserted for an unlabeled, non-isolated job.      *)
EnqueuedDoc(delay) ==
  [state |-> "enqueued", wait |-> delay, attempts |-> 0, data |-> 0]

(* Mutated: the filter does not compare the time.                          *)
DequeuableAnyTime(doc, ago) == doc.state \in Pending

(* Dequeue: "Available <= now" with the time of "ago" ticks before.        *)
Dequeuable(doc, ago) ==
  /\ doc.state \in Pending
  /\ doc.wait + ago <= 0

(* Mutated: the job stays available.                                       *)
DequeuedDocAvailable(doc, timeout, ago) ==
  [doc EXCEPT !.state = "dequeued", !.attempts = @ + 1]

DequeuedDoc(doc, timeout, ago) ==
  [doc EXCEPT !.state = "dequeued",
              !.wait = timeout - ago,
              !.attempts = @ + 1]

(* Mutated: any document of the job will do.                               *)
WritableAnyState(doc) == doc.state # "none"

(* The filter shared by Extend, Update, Complete, Fail and Cancel: neither *)
(* the attempt nor the worker is compared.                                 *)
Writable(doc) == doc.state = "dequeued"

ExtendedDoc(doc, attempt, timeout, ago) ==
  [doc EXCEPT !.data = attempt, !.wait = timeout - ago]

UpdatedDoc(doc, attempt) == [doc EXCEPT !.data = attempt]

CompletedDoc(doc, attempt) ==
  [doc EXCEPT !.state = "completed", !.data = attempt]

(* Fail and Cancel do not write the data of the job.                       *)
FailedDoc(doc, delay, ago) ==
  [doc EXCEPT !.state = "failed", !.wait = delay - ago]

CancelledDoc(doc) == [doc EXCEPT !.state = "cancelled"]

=============================================================================
