--------------------------- MODULE AxeJobs_proofs ---------------------------
(***************************************************************************)
(* Proofs about AxeJobs, for any number of jobs, workers, attempts and     *)
(* faults and any timing of the task.  The first part is about the types;  *)
(* in the second the margin between Lifetime and Timeout makes the workers *)
(* hold a job one at a time: LeaseInv is inductive, and mutual exclusion   *)
(* and the ownership of writes follow from it, and with them that a job    *)
(* notifies once and that the workers implement Exclusive.                 *)
(***************************************************************************)
EXTENDS AxeJobs, TLAPS

(* What is known of a worker: a record of this set.                        *)
WorkerRecords ==
  [phase : Phases, job : Jobs \cup {NoJob}, attempt : Nat,
   call : 0..Latency, ran : 0..RanCap, ctx : Nat,
   lifetime : 0..(RanCap - 1), late : BOOLEAN, save : Saves,
   verdict : Verdicts]

Documents == [state : States, wait : Int, attempts : Nat, data : Nat]

(* A worker that is not idle works on a job.                               *)
JobKnown == \A w \in Workers : ~In(w, "idle") => workers[w].job \in Jobs

LEMMA StartRecord ==
  ASSUME NEW j \in Jobs \cup {NoJob}
  PROVE  Start(j) \in WorkerRecords
BY TaskAssumption, BoundAssumption
   DEF Start, WorkerRecords, Phases, Saves, Update, Verdicts

LEMMA IdleRecord == Idle \in WorkerRecords
BY StartRecord DEF Idle, WorkerRecords, Start, Phases

(* The step of one worker: its new record decides.                         *)
LEMMA BecomesType ==
  ASSUME workers \in [Workers -> WorkerRecords], JobKnown,
         NEW w \in Workers, NEW rec \in WorkerRecords,
         rec.phase = "idle" \/ rec.job \in Jobs,
         Becomes(w, rec)
  PROVE  workers' \in [Workers -> WorkerRecords] /\ JobKnown'
BY DEF Becomes, JobKnown, In

(* Updates of the fields of records stay within their types.               *)
LEMMA RecordUpdates ==
  ASSUME NEW r \in WorkerRecords
  PROVE  /\ \A c \in 0..Latency : [r EXCEPT !.call = c] \in WorkerRecords
         /\ \A p \in Phases, c \in 0..Latency :
              [r EXCEPT !.phase = p, !.call = c] \in WorkerRecords
         /\ \A p \in Phases, c \in 0..Latency, s \in Saves :
              [r EXCEPT !.phase = p, !.call = c, !.save = s] \in WorkerRecords
         /\ \A p \in Phases, c \in 0..Latency, v \in Verdicts :
              [r EXCEPT !.phase = p, !.call = c, !.verdict = v]
                \in WorkerRecords
         /\ \A x \in Nat, l \in 0..(RanCap - 1) :
              [r EXCEPT !.ctx = x, !.lifetime = l] \in WorkerRecords
         /\ \A c \in 0..Latency, n \in 0..RanCap, x \in Nat :
              [r EXCEPT !.call = c, !.ran = n, !.ctx = x] \in WorkerRecords
         /\ \A p \in Phases, a \in Nat, x \in Nat, l \in 0..(RanCap - 1) :
              [r EXCEPT !.phase = p, !.attempt = a, !.ctx = x, !.lifetime = l]
                \in WorkerRecords
BY Zenon DEF WorkerRecords

LEMMA DocumentUpdates ==
  ASSUME NEW doc \in Documents
  PROVE  /\ \A i \in Int : [doc EXCEPT !.wait = i] \in Documents
         /\ \A d \in Nat : [doc EXCEPT !.data = d] \in Documents
         /\ \A s \in States : [doc EXCEPT !.state = s] \in Documents
         /\ \A s \in States, i \in Int :
              [doc EXCEPT !.state = s, !.wait = i] \in Documents
         /\ \A s \in States, d \in Nat :
              [doc EXCEPT !.state = s, !.data = d] \in Documents
         /\ \A d \in Nat, i \in Int :
              [doc EXCEPT !.data = d, !.wait = i] \in Documents
         /\ \A s \in States, i \in Int, n \in Nat :
              [doc EXCEPT !.state = s, !.wait = i, !.attempts = n]
                \in Documents
BY Zenon DEF Documents

(* The documents the writes of AxeStore produce.                           *)
LEMMA DocumentTypes ==
  ASSUME NEW doc \in Documents
  PROVE  /\ \A n \in Int : EnqueuedDoc(n) \in Documents
         /\ \A n, ago \in Int : DequeuedDoc(doc, n, ago) \in Documents
         /\ \A n, ago \in Int, a \in Nat :
              ExtendedDoc(doc, a, n, ago) \in Documents
         /\ \A a \in Nat : UpdatedDoc(doc, a) \in Documents
         /\ \A a \in Nat : CompletedDoc(doc, a) \in Documents
         /\ \A n, ago \in Int : FailedDoc(doc, n, ago) \in Documents
         /\ CancelledDoc(doc) \in Documents
         /\ AgedDoc(doc) \in Documents
<1>1. /\ \A n, ago \in Int : n - ago \in Int
      /\ doc.attempts + 1 \in Nat /\ Less(doc.wait, -Latency) \in Int
  BY BoundAssumption DEF Documents, Less
<1>2. {"enqueued", "dequeued", "completed", "failed", "cancelled"}
        \subseteq States
  BY DEF States, Pending, Final
<1>3. \A n \in Int : EnqueuedDoc(n) \in Documents
  BY <1>2 DEF Documents, EnqueuedDoc
<1>4. \A n, ago \in Int : DequeuedDoc(doc, n, ago) \in Documents
  BY <1>1, <1>2, DocumentUpdates DEF DequeuedDoc
<1>5. /\ \A n, ago \in Int, a \in Nat :
           ExtendedDoc(doc, a, n, ago) \in Documents
      /\ \A a \in Nat : UpdatedDoc(doc, a) \in Documents
  BY <1>1, <1>2, DocumentUpdates DEF ExtendedDoc, UpdatedDoc
<1>6. /\ \A a \in Nat : CompletedDoc(doc, a) \in Documents
      /\ \A n, ago \in Int : FailedDoc(doc, n, ago) \in Documents
      /\ CancelledDoc(doc) \in Documents
  BY <1>1, <1>2, DocumentUpdates DEF CompletedDoc, FailedDoc, CancelledDoc
<1>7. AgedDoc(doc) \in Documents
  BY <1>1, DocumentUpdates DEF AgedDoc
<1> QED
  BY <1>3, <1>4, <1>5, <1>6, <1>7

(* What the handler and time make of the record of a worker.               *)
LEMMA WorkerTypes ==
  ASSUME workers \in [Workers -> WorkerRecords], NEW w \in Workers
  PROVE  /\ Answered(w) \in WorkerRecords
         /\ Answered(w).job = workers[w].job
         /\ Answered(w).phase = "run"
         /\ workers[w].save # Update =>
              /\ Extended(w) \in WorkerRecords
              /\ Extended(w).job = workers[w].job
         /\ (Calling(w) => workers[w].call < Latency) =>
              AgedWorker(workers[w]) \in WorkerRecords
         /\ AgedWorker(workers[w]).job = workers[w].job
         /\ AgedWorker(workers[w]).phase = workers[w].phase
<1> USE TaskAssumption, BoundAssumption
<1>1. workers[w] \in WorkerRecords
  OBVIOUS
<1>2. /\ Answered(w) \in WorkerRecords
      /\ Answered(w).job = workers[w].job
      /\ Answered(w).phase = "run"
  <2>1. "run" \in Phases /\ 0 \in 0..Latency /\ Update \in Saves
    BY DEF Phases, Saves
  <2>2. Answered(w) \in WorkerRecords
    BY <1>1, <2>1, RecordUpdates DEF Answered
  <2>3. Answered(w).job = workers[w].job /\ Answered(w).phase = "run"
    BY <1>1 DEF Answered, WorkerRecords
  <2> QED
    BY <2>2, <2>3
<1>3. workers[w].save # Update =>
        Extended(w) \in WorkerRecords /\ Extended(w).job = workers[w].job
  <2> SUFFICES ASSUME workers[w].save # Update
               PROVE  Extended(w) \in WorkerRecords
                      /\ Extended(w).job = workers[w].job
    OBVIOUS
  <2>1. workers[w].save \in Extensions
    BY <1>1 DEF WorkerRecords, Saves
  <2>2. /\ workers[w].save.lifetime \in Nat
        /\ workers[w].save.lifetime \in 0..(RanCap - 1)
    BY <2>1
  <2> QED
    BY <1>2, <2>2 DEF Extended, WorkerRecords
<1>4. (Calling(w) => workers[w].call < Latency) =>
        AgedWorker(workers[w]) \in WorkerRecords
  <2> SUFFICES ASSUME Calling(w) => workers[w].call < Latency
               PROVE  AgedWorker(workers[w]) \in WorkerRecords
    OBVIOUS
  <2> DEFINE r == workers[w]
             n == IF r.ran < RanCap THEN r.ran + 1 ELSE r.ran
             c == IF r.phase = "save" THEN r.call + 1 ELSE r.call
  <2>1. Calling(w) => r.call + 1 \in 0..Latency
    BY <1>1 DEF WorkerRecords
  <2>2. r.phase \in {"run", "save"} =>
          c \in 0..Latency /\ n \in 0..RanCap /\ Less(r.ctx, 0) \in Nat
    BY <1>1, <2>1 DEF WorkerRecords, Calling, Less
  <2>3. CASE r.phase \in {"dequeue", "finish"}
    <3>1. r.call + 1 \in 0..Latency
      BY <2>1, <2>3 DEF Calling
    <3>2. [r EXCEPT !.call = r.call + 1] \in WorkerRecords
      BY <1>1, <3>1, RecordUpdates
    <3> QED
      BY <2>3, <3>2 DEF AgedWorker
  <2>4. CASE r.phase \in {"run", "save"}
    <3> HIDE DEF n, c
    <3>1. [r EXCEPT !.call = c, !.ran = n, !.ctx = Less(r.ctx, 0)]
            \in WorkerRecords
      BY <1>1, <2>2, <2>4, RecordUpdates
    <3>2. r.phase \notin {"dequeue", "finish"}
      BY <2>4
    <3> QED
      BY <2>4, <3>1, <3>2 DEF AgedWorker, n, c
  <2> QED
    BY <1>1, <2>3, <2>4 DEF AgedWorker
<1>5. /\ AgedWorker(workers[w]).job = workers[w].job
      /\ AgedWorker(workers[w]).phase = workers[w].phase
  BY <1>1 DEF AgedWorker, WorkerRecords
<1> QED
  BY <1>2, <1>3, <1>4, <1>5

(***************************************************************************)
(* Type correctness: every operation and handler step keeps the collection *)
(* and the workers within their types, and busy workers on a known job.    *)
(***************************************************************************)
LEMMA TypeInit == Init => TypeOK /\ JobKnown
<1> SUFFICES ASSUME Init PROVE TypeOK /\ JobKnown
  OBVIOUS
<1>1. jobs \in [Jobs -> Documents]
  BY DEF Init, Absent, Documents, States
<1>2. workers \in [Workers -> WorkerRecords]
  BY IdleRecord DEF Init
<1>3. JobKnown
  BY DEF Init, Idle, Start, JobKnown, In
<1> QED
  BY <1>1, <1>2, <1>3, BoundAssumption
  DEF Init, TypeOK, Documents, WorkerRecords

(* A task keeps its timeout.                                               *)
LEMMA TimeoutKept == [Next]_vars => timeout' = timeout
BY DEF Next, vars, Enqueue, Step, Request, Dequeue, Miss, CallSave, Save,
       SaveRevoked, Overrun, Return, Complete, Fail, Cancel, Notify, Crash,
       Tick

LEMMA TypeStep == TypeOK /\ JobKnown /\ [Next]_vars => TypeOK' /\ JobKnown'
<1> SUFFICES ASSUME TypeOK, JobKnown, [Next]_vars
             PROVE  TypeOK' /\ JobKnown'
  OBVIOUS
<1> USE TaskAssumption, BoundAssumption
<1>a. /\ jobs \in [Jobs -> Documents]
      /\ workers \in [Workers -> WorkerRecords]
  BY DEF TypeOK, Documents, WorkerRecords
<1>b. SUFFICES /\ jobs' \in [Jobs -> Documents]
               /\ workers' \in [Workers -> WorkerRecords]
               /\ notified' \in [Jobs -> Nat]
               /\ faults' \in 0..MaxFaults
               /\ JobKnown'
  BY TimeoutKept DEF TypeOK, Documents, WorkerRecords
<1> DEFINE Typed == /\ jobs' \in [Jobs -> Documents]
                    /\ workers' \in [Workers -> WorkerRecords]
                    /\ notified' \in [Jobs -> Nat]
                    /\ faults' \in 0..MaxFaults
                    /\ JobKnown'
<1>c. /\ notified \in [Jobs -> Nat]
      /\ faults \in 0..MaxFaults
      /\ timeout \in Int
  BY DEF TypeOK
<1>1. ASSUME NEW j \in Jobs, Enqueue(j)
      PROVE  Typed
  <2>1. PICK delay \in Delays : jobs' = [jobs EXCEPT ![j] = EnqueuedDoc(delay)]
    BY <1>1 DEF Enqueue
  <2>2. EnqueuedDoc(delay) \in Documents
    BY <1>a, DocumentTypes
  <2> QED
    BY <1>1, <1>a, <1>c, <2>1, <2>2 DEF Enqueue, JobKnown, In
<1>2. ASSUME NEW w \in Workers, Step(w)
      PROVE  Typed
  <2> DEFINE r == workers[w]
  <2>a. r \in WorkerRecords
    BY <1>a
  <2>b. ~In(w, "idle") => r.job \in Jobs /\ Doc(w) \in Documents
    BY <1>a DEF JobKnown, Doc
  <2>c. Idle \in WorkerRecords /\ Idle.phase = "idle"
    BY IdleRecord DEF Idle, Start
  <2>d. Fault => faults' \in 0..MaxFaults
    BY <1>c DEF Fault
  <2>1. ASSUME NEW j \in Jobs, Request(w, j)
        PROVE  Typed
    <3>1. Start(j) \in WorkerRecords /\ Start(j).job = j
      BY StartRecord DEF Start
    <3> QED
      BY <2>1, <3>1, <1>a, <1>c, BecomesType DEF Request
  <2>2. CASE Dequeue(w)
    <3>1. r.job \in Jobs /\ Doc(w) \in Documents
      BY <2>2, <2>b DEF Dequeue, In
    <3> DEFINE new == Begun(w)
    <3>2. new \in WorkerRecords /\ new.job = r.job
      <4>1. /\ "run" \in Phases /\ Doc(w).attempts + 1 \in Nat
            /\ Lifetime \in Nat /\ Lifetime \in 0..(RanCap - 1)
        BY <3>1 DEF Phases, Documents
      <4>2. Start(r.job) \in WorkerRecords /\ Start(r.job).job = r.job
        BY <3>1, StartRecord DEF Start
      <4>3. new \in WorkerRecords
        BY <4>1, <4>2, RecordUpdates DEF Begun
      <4> QED
        BY <4>2, <4>3 DEF WorkerRecords, Begun
    <3>3. r.call \in Int
      BY <2>a DEF WorkerRecords
    <3>4. DequeuedDoc(Doc(w), timeout, r.call) \in Documents
      BY <3>1, <3>3, <1>c, DocumentTypes
    <3>5. Becomes(w, new)
      BY <2>2 DEF Dequeue
    <3> QED
      BY <2>2, <3>1, <3>2, <3>4, <3>5, <1>a, <1>c, BecomesType
      DEF Dequeue, Writes
  <2>3. CASE Miss(w)
    BY <2>3, <2>c, <1>a, <1>c, BecomesType DEF Miss
  <2>4. CASE CallSave(w)
    <3>1. PICK s \in Saves : Becomes(w, [r EXCEPT !.phase = "save",
                                                  !.call = 0, !.save = s])
      BY <2>4 DEF CallSave
    <3> DEFINE new == [r EXCEPT !.phase = "save", !.call = 0, !.save = s]
    <3>2. new \in WorkerRecords /\ new.job = r.job
      <4>1. "save" \in Phases /\ 0 \in 0..Latency
        BY DEF Phases
      <4>2. new \in WorkerRecords
        BY <2>a, <4>1, RecordUpdates
      <4> QED
        BY <2>a, <4>2 DEF WorkerRecords
    <3>3. r.job \in Jobs
      BY <2>4, <2>b DEF CallSave, In
    <3>4. faults' \in 0..MaxFaults
      BY <2>4, <1>a, BoundAssumption DEF CallSave, Fault, TypeOK
    <3> QED
      BY <2>4, <3>1, <3>2, <3>3, <3>4, <1>a, <1>c, BecomesType DEF CallSave
  <2>5. CASE Save(w)
    <3>1. r.job \in Jobs /\ Doc(w) \in Documents
      BY <2>5, <2>b DEF Save, In
    <3>2. SavedDoc(w) \in Documents
      <4>1. r.attempt \in Nat /\ r.call \in Int /\ r.save \in Saves
        BY <2>a DEF WorkerRecords
      <4>2. r.save.timeout \in Int
        BY <4>1 DEF Saves, Update
      <4> QED
        BY <3>1, <4>1, <4>2, DocumentTypes DEF SavedDoc
    <3>3. jobs' \in [Jobs -> Documents]
      BY <2>5, <3>1, <3>2, <1>a DEF Save, Writes
    <3>4. PICK new \in WorkerRecords : Becomes(w, new) /\ new.job = r.job
      BY <2>5, <1>a, WorkerTypes DEF Save
    <3> QED
      BY <2>5, <3>1, <3>3, <3>4, <1>a, <1>c, BecomesType DEF Save
  <2>6. CASE SaveRevoked(w)
    <3>1. r.job \in Jobs
      BY <2>6, <2>b DEF SaveRevoked, In
    <3> QED
      BY <2>6, <3>1, <1>a, <1>c, WorkerTypes, BecomesType DEF SaveRevoked
  <2>7. CASE Overrun(w)
    <3> DEFINE new == [r EXCEPT !.late = TRUE]
    <3>1. new \in WorkerRecords /\ new.job = r.job
      BY <2>a DEF WorkerRecords
    <3>2. r.job \in Jobs
      BY <2>7, <2>b DEF Overrun, In
    <3> QED
      BY <2>7, <2>d, <3>1, <3>2, <1>a, <1>c, BecomesType DEF Overrun
  <2>8. CASE Return(w)
    <3>1. PICK outcome \in DOMAIN Verdict(0) :
            /\ IF outcome = "retry" THEN Fault ELSE UNCHANGED faults
            /\ \/ Becomes(w, Idle)
               \/ Becomes(w, [r EXCEPT !.phase = "finish", !.call = 0,
                                !.verdict = Verdict(r.attempt)[outcome]])
      BY <2>8 DEF Return
    <3> DEFINE new == [r EXCEPT !.phase = "finish", !.call = 0,
                                !.verdict = Verdict(r.attempt)[outcome]]
    <3>2. outcome \in {"ok", "retry", "cancel", "error"}
      BY DEF Verdict
    <3>3. Verdict(r.attempt)[outcome] \in Verdicts
      BY <3>2 DEF Verdict, Verdicts
    <3>4. new \in WorkerRecords /\ new.job = r.job
      <4>1. "finish" \in Phases /\ 0 \in 0..Latency
        BY DEF Phases
      <4>2. new \in WorkerRecords
        BY <2>a, <3>3, <4>1, RecordUpdates
      <4> QED
        BY <2>a, <4>2 DEF WorkerRecords
    <3>5. r.job \in Jobs
      BY <2>8, <2>b DEF Return, In
    <3>6. faults' \in 0..MaxFaults
      BY <3>1, <2>d, <1>c
    <3>7. workers' \in [Workers -> WorkerRecords] /\ JobKnown'
      BY <3>1, <3>4, <3>5, <2>c, <1>a, BecomesType
    <3> QED
      BY <2>8, <3>6, <3>7, <1>a, <1>c DEF Return
  <2>9. CASE Complete(w) \/ Cancel(w)
    <3>1. r.job \in Jobs /\ Doc(w) \in Documents
      BY <2>9, <2>b DEF Complete, Cancel, In
    <3> DEFINE new == [r EXCEPT !.phase = "notify", !.call = 0]
    <3>2. new \in WorkerRecords /\ new.job = r.job
      <4>1. "notify" \in Phases /\ 0 \in 0..Latency
        BY DEF Phases
      <4>2. new \in WorkerRecords
        BY <2>a, <4>1, RecordUpdates
      <4> QED
        BY <2>a, <4>2 DEF WorkerRecords
    <3>3. r.attempt \in Nat
      BY <2>a DEF WorkerRecords
    <3>4. /\ CompletedDoc(Doc(w), r.attempt) \in Documents
          /\ CancelledDoc(Doc(w)) \in Documents
      BY <3>1, <3>3, DocumentTypes
    <3>5. jobs' \in [Jobs -> Documents]
      BY <2>9, <3>1, <3>4, <1>a DEF Complete, Cancel, Writes
    <3>6. Becomes(w, Idle) \/ Becomes(w, new)
      BY <2>9 DEF Complete, Cancel
    <3>7. workers' \in [Workers -> WorkerRecords] /\ JobKnown'
      BY <3>6, <3>1, <3>2, <2>c, <1>a, BecomesType
    <3> QED
      BY <2>9, <3>5, <3>7, <1>c DEF Complete, Cancel
  <2>10. CASE Fail(w)
    <3>1. r.job \in Jobs /\ Doc(w) \in Documents
      BY <2>10, <2>b DEF Fail, In
    <3>2. jobs' \in [Jobs -> Documents]
      <4>1. ASSUME NEW delay \in MinDelay..MaxDelay
            PROVE  FailedDoc(Doc(w), delay, r.call) \in Documents
        <5>1. delay \in Int /\ r.call \in Int
          BY <2>a DEF WorkerRecords
        <5> QED
          BY <5>1, <3>1, DocumentTypes
      <4> QED
        BY <2>10, <3>1, <4>1, <1>a DEF Fail, Writes
    <3>3. workers' \in [Workers -> WorkerRecords] /\ JobKnown'
      BY <2>10, <2>c, <1>a, BecomesType DEF Fail
    <3> QED
      BY <2>10, <3>2, <3>3, <1>c DEF Fail
  <2>11. CASE Notify(w)
    <3>1. notified' \in [Jobs -> Nat]
      BY <2>11, <2>b, <1>c DEF Notify, In
    <3> QED
      BY <2>11, <3>1, <2>c, <1>a, <1>c, BecomesType DEF Notify
  <2>12. CASE Crash(w)
    BY <2>12, <2>c, <2>d, <1>a, <1>c, BecomesType DEF Crash
  <2> QED
    BY <1>2, <2>1, <2>2, <2>3, <2>4, <2>5, <2>6, <2>7, <2>8, <2>9, <2>10,
       <2>11, <2>12 DEF Step
<1>3. CASE Tick
  <2>1. jobs' \in [Jobs -> Documents]
    BY <1>3, <1>a, DocumentTypes DEF Tick
  <2>2. workers' \in [Workers -> WorkerRecords] /\ JobKnown'
    BY <1>3, <1>a, WorkerTypes DEF Tick, JobKnown, In
  <2> QED
    BY <1>3, <2>1, <2>2, <1>c DEF Tick
<1>4. CASE UNCHANGED vars
  BY <1>4, <1>a, <1>c DEF vars, JobKnown, In
<1> QED
  BY <1>1, <1>2, <1>3, <1>4 DEF Next

(* The model never leaves its types: type correctness of the job store and *)
(* of the workers.                                                         *)
THEOREM TypeCorrect == Spec => [](TypeOK /\ JobKnown)
BY TypeInit, TypeStep, PTL DEF Spec

-----------------------------------------------------------------------------


TypeInv ==
  /\ timeout \in Int
  /\ jobs \in [Jobs -> Documents]
  /\ workers \in [Workers -> WorkerRecords]
  /\ JobKnown

LEMMA TypeInvHolds == TypeOK /\ JobKnown => TypeInv
BY TaskAssumption DEF TypeOK, TypeInv, Documents, WorkerRecords

(* What the proofs use of the types.                                       *)
LEMMA Types ==
  ASSUME TypeInv, NEW w \in Workers
  PROVE  /\ workers[w] \in WorkerRecords
         /\ workers[w].call \in 0..Latency /\ workers[w].ran \in 0..RanCap
         /\ workers[w].ctx \in Nat /\ workers[w].attempt \in Nat
         /\ workers[w].lifetime \in 0..(RanCap - 1)
         /\ workers[w].save \in Saves
         /\ ~In(w, "idle") => /\ workers[w].job \in Jobs
                              /\ Doc(w) \in Documents
                              /\ Doc(w).wait \in Int
                              /\ Doc(w).attempts \in Nat
BY DEF TypeInv, WorkerRecords, Documents, JobKnown, Doc

(* The leases: what LeaseInv says once the margin is given.                *)
Leases ==
  /\ \A w \in Workers : LeaseOf(w)
  /\ \A v, w \in Workers : Apart(v, w)

LEMMA LeaseInit == Init => LeaseInv
BY DEF Init, LeaseInv, LeaseOf, Apart, Idle, Start, Executing

(* A worker that holds its job has a lease that has not run out.           *)
LEMMA HolderLease ==
  ASSUME TypeInv, NEW w \in Workers, LeaseOf(w), Holds(w)
  PROVE  Owns(w) /\ Doc(w).wait > 0
<1>1. ~In(w, "idle")
  BY DEF Holds, In
<1>2. CASE workers[w].phase \in {"save", "finish"}
  <2>1. Owns(w) /\ Doc(w).wait + workers[w].call > Latency
    BY <1>2 DEF LeaseOf
  <2> QED
    BY <1>1, <2>1, Types, BoundAssumption
<1>3. CASE In(w, "run") /\ Live(w)
  <2>1. Owns(w) /\ Doc(w).wait > workers[w].ctx + Latency
    BY <1>3 DEF LeaseOf, In
  <2> QED
    BY <1>1, <2>1, Types, BoundAssumption
<1> QED
  BY <1>2, <1>3 DEF Holds

(* Two workers never hold the same job.                                    *)
LEMMA OneHolder ==
  ASSUME TypeInv, Leases, NEW v \in Workers, NEW w \in Workers,
         Holds(v), Holds(w), workers[v].job = workers[w].job
  PROVE  v = w
<1>1. Owns(v) /\ Owns(w)
  BY HolderLease DEF Leases
<1>2. workers[v].attempt = workers[w].attempt
  BY <1>1 DEF Owns, Doc
<1>3. workers[v].phase \in Executing /\ workers[w].phase \in Executing
  BY DEF Holds, In, Executing
<1> QED
  BY <1>2, <1>3 DEF Leases, Apart

(* The lease of a worker does not depend on the others if its document     *)
(* stays as it is.                                                         *)
LEMMA LeaseKept ==
  ASSUME NEW v \in Workers, LeaseOf(v), workers'[v] = workers[v],
         jobs'[workers[v].job] = jobs[workers[v].job]
  PROVE  LeaseOf(v)'
BY DEF LeaseOf, Live, Owns, Doc, Executing

(* A write to the job of another worker leaves a worker its lease if it    *)
(* holds nothing of that job.                                              *)
LEMMA LeaseOfOther ==
  ASSUME TypeInv, NEW v \in Workers, LeaseOf(v), workers'[v] = workers[v],
         NEW j \in Jobs, NEW doc \in Documents,
         jobs' = [jobs EXCEPT ![j] = doc],
         doc.state # "none", doc.attempts >= jobs[j].attempts,
         workers[v].job = j => ~Holds(v)
  PROVE  LeaseOf(v)'
<1>1. CASE workers[v].job # j
  <2>1. jobs'[workers[v].job] = jobs[workers[v].job]
    BY <1>1
  <2> QED
    BY <2>1, LeaseKept
<1>2. CASE workers[v].job = j
  <2> DEFINE r == workers[v]
  <2>1. jobs[j] = Doc(v) /\ Doc(v)' = doc
    BY <1>2 DEF TypeInv, Doc
  <2>2. r.phase \notin {"save", "finish"} /\ (r.phase = "run" => ~Live(v))
    BY <1>2 DEF Holds, In
  <2>3. Live(v)' <=> Live(v)
    BY DEF Live
  <2>4. r.phase \in Executing => r.attempt <= Doc(v).attempts
    BY DEF LeaseOf
  <2>5. r.phase \in Executing => r.attempt <= doc.attempts
    <3>1. r.attempt \in Nat /\ doc.attempts \in Nat /\ jobs[j].attempts \in Nat
      BY DEF TypeInv, WorkerRecords, Documents
    <3> QED
      BY <2>1, <2>4, <3>1
  <2>6. r.phase \in {"run", "save"} => r.ran + r.ctx >= r.lifetime
    BY DEF LeaseOf
  <2> QED
    BY <2>1, <2>2, <2>3, <2>5, <2>6 DEF LeaseOf
<1> QED
  BY <1>1, <1>2

(* Attempts stay apart if a worker keeps its job and its attempt.          *)
LEMMA ApartKept ==
  ASSUME TypeInv, \A x, y \in Workers : Apart(x, y),
         NEW w \in Workers, NEW rec, workers' = [workers EXCEPT ![w] = rec],
         rec.phase \in Executing =>
           /\ workers[w].phase \in Executing
           /\ rec.job = workers[w].job
           /\ rec.attempt = workers[w].attempt
  PROVE  \A x, y \in Workers : Apart(x, y)'
<1> SUFFICES ASSUME NEW x \in Workers, NEW y \in Workers
             PROVE  Apart(x, y)'
  OBVIOUS
<1>1. /\ x # w => workers'[x] = workers[x]
      /\ y # w => workers'[y] = workers[y]
      /\ workers'[w] = rec
  BY DEF TypeInv
<1> QED
  BY <1>1 DEF Apart

(* A step of one worker that writes no document.                           *)
LEMMA QuietStep ==
  ASSUME TypeInv, Leases, NEW w \in Workers, NEW rec,
         Becomes(w, rec), UNCHANGED jobs,
         rec.phase \in Executing =>
           /\ workers[w].phase \in Executing
           /\ rec.job = workers[w].job
           /\ rec.attempt = workers[w].attempt,
         LeaseOf(w)'
  PROVE  Leases'
<1>1. workers' = [workers EXCEPT ![w] = rec]
  BY DEF Becomes
<1>2. ASSUME NEW v \in Workers, v # w
      PROVE  LeaseOf(v)'
  <2>1. workers'[v] = workers[v]
    BY <1>1, <1>2 DEF TypeInv
  <2> QED
    BY <2>1, LeaseKept DEF Leases
<1>3. \A x, y \in Workers : Apart(x, y)'
  BY <1>1, ApartKept DEF Leases
<1> QED
  BY <1>2, <1>3 DEF Leases

(* A step of one worker that holds its job and writes its document.        *)
LEMMA WriteStep ==
  ASSUME TypeInv, Leases, NEW w \in Workers, NEW rec, NEW doc \in Documents,
         Holds(w), Becomes(w, rec), Writes(w, doc),
         doc.state # "none", doc.attempts = Doc(w).attempts,
         rec.phase \in Executing =>
           /\ workers[w].phase \in Executing
           /\ rec.job = workers[w].job
           /\ rec.attempt = workers[w].attempt,
         LeaseOf(w)'
  PROVE  Leases'
<1>1. workers' = [workers EXCEPT ![w] = rec]
  BY DEF Becomes
<1>2. workers[w].job \in Jobs /\ Doc(w).attempts \in Nat
  BY Types DEF Holds, In
<1>3. ASSUME NEW v \in Workers, v # w
      PROVE  LeaseOf(v)'
  <2>1. workers'[v] = workers[v]
    BY <1>1, <1>3 DEF TypeInv
  <2>2. workers[v].job = workers[w].job => ~Holds(v)
    BY <1>3, OneHolder
  <2>3. doc.attempts >= jobs[workers[w].job].attempts
    BY <1>2 DEF Doc
  <2>4. jobs' = [jobs EXCEPT ![workers[w].job] = doc]
    BY DEF Writes
  <2>5. LeaseOf(v)
    BY DEF Leases
  <2> QED
    BY <1>2, <2>1, <2>2, <2>3, <2>4, <2>5, LeaseOfOther
<1>4. \A x, y \in Workers : Apart(x, y)'
  BY <1>1, ApartKept DEF Leases
<1> QED
  BY <1>3, <1>4 DEF Leases

(* A worker that becomes idle needs no lease.                              *)
LEMMA NoLease ==
  ASSUME TypeInv, NEW w \in Workers, NEW rec, Becomes(w, rec),
         rec.phase \in {"idle", "notify"}
  PROVE  LeaseOf(w)'
BY DEF TypeInv, Becomes, LeaseOf, Executing

LEMMA IdleFields ==
  /\ Idle.phase = "idle"
  /\ \A j \in Jobs : /\ Start(j).phase = "dequeue"
                     /\ Start(j).job = j
BY DEF Idle, Start

(***************************************************************************)
(* LeaseInv is inductive, action by action, under the margin.              *)
(***************************************************************************)
LEMMA EnqueueLease ==
  ASSUME TypeInv, Leases, NEW j \in Jobs, Enqueue(j)
  PROVE  Leases'
<1>1. ASSUME NEW w \in Workers
      PROVE  LeaseOf(w)'
  <2>1. workers' = workers
    BY DEF Enqueue
  <2>2. LeaseOf(w)
    BY DEF Leases
  <2>3. CASE workers[w].job # j
    BY <2>1, <2>2, <2>3, LeaseKept DEF Enqueue
  <2>4. CASE workers[w].job = j
    <3>1. workers[w].phase \in {"idle", "notify"}
      BY <2>2, <2>4, Types DEF LeaseOf, Enqueue, Doc, WorkerRecords, Phases
    <3> QED
      BY <2>1, <3>1 DEF LeaseOf, Executing
  <2> QED
    BY <2>3, <2>4
<1>2. \A x, y \in Workers : Apart(x, y)'
  BY DEF Enqueue, Leases, Apart
<1> QED
  BY <1>1, <1>2 DEF Leases

LEMMA DequeueLease ==
  ASSUME TypeInv, Leases, Margin, NEW w \in Workers, Dequeue(w)
  PROVE  Leases'
<1> DEFINE r == workers[w]
           j == workers[w].job
           doc == DequeuedDoc(Doc(w), timeout, r.call)
           rec == Begun(w)
<1>1. /\ j \in Jobs /\ Doc(w) \in Documents
      /\ r.call \in 0..Latency
      /\ Doc(w).wait \in Int /\ Doc(w).attempts \in Nat
  BY Types DEF Dequeue, In
<1>2. /\ workers' = [workers EXCEPT ![w] = rec]
      /\ jobs' = [jobs EXCEPT ![j] = doc]
      /\ Doc(w).wait <= 0
  BY <1>1, BoundAssumption DEF Dequeue, Becomes, Writes, Dequeuable
<1>3. /\ doc \in Documents
      /\ doc.state = "dequeued"
      /\ doc.attempts = Doc(w).attempts + 1
      /\ doc.wait = timeout - r.call
  <2>1. doc \in Documents
    <3>1. r.call \in Int /\ timeout \in Int
      BY <1>1 DEF TypeInv
    <3> QED
      BY <1>1, <3>1, DocumentTypes
  <2> QED
    BY <1>1, <2>1 DEF DequeuedDoc, Documents
<1>4. /\ rec.phase = "run" /\ rec.job = j
      /\ rec.attempt = Doc(w).attempts + 1
      /\ rec.ctx = Lifetime /\ rec.lifetime = Lifetime /\ rec.ran = 0
  BY DEF Start, Begun
<1>5. workers'[w] = rec /\ Doc(w)' = doc
  BY <1>1, <1>2, <1>4 DEF TypeInv, Doc
<1>6. LeaseOf(w)'
  <2>1. doc.wait > Lifetime + Latency
    BY <1>1, <1>3, TaskAssumption, BoundAssumption DEF Margin, TypeInv
  <2>2. rec.ran + rec.ctx >= rec.lifetime
    BY <1>4, TaskAssumption
  <2>3. rec.attempt <= doc.attempts
    BY <1>1, <1>3, <1>4
  <2> HIDE DEF rec, doc
  <2> QED
    BY <1>3, <1>4, <1>5, <2>1, <2>2, <2>3 DEF LeaseOf, Owns
<1>7. ASSUME NEW v \in Workers, v # w
      PROVE  LeaseOf(v)' /\ Apart(v, w)' /\ Apart(w, v)'
  <2>1. workers'[v] = workers[v] /\ LeaseOf(v)
    BY <1>2, <1>7 DEF TypeInv, Leases
  <2>2. j = workers[v].job => ~Holds(v)
    <3> SUFFICES ASSUME j = workers[v].job, Holds(v)
                 PROVE  FALSE
      OBVIOUS
    <3>1. Doc(v).wait > 0 /\ Doc(v) = Doc(w)
      BY <2>1, HolderLease DEF Doc
    <3> QED
      BY <1>1, <1>2, <3>1
  <2>3. doc.state # "none" /\ doc.attempts >= jobs[j].attempts
    BY <1>1, <1>3 DEF Doc
  <2>4. LeaseOf(v)'
    <3> HIDE DEF doc
    <3> QED
      BY <1>1, <1>2, <1>3, <2>1, <2>2, <2>3, LeaseOfOther
  <2>5. (workers[v].phase \in Executing /\ workers[v].job = j)
          => workers[v].attempt # rec.attempt
    <3> SUFFICES ASSUME workers[v].phase \in Executing, workers[v].job = j
                 PROVE  workers[v].attempt # rec.attempt
      OBVIOUS
    <3>1. workers[v].attempt <= Doc(v).attempts /\ Doc(v) = Doc(w)
      BY <2>1 DEF LeaseOf, Doc
    <3>2. workers[v].attempt \in Nat
      BY Types
    <3> QED
      BY <1>1, <1>4, <3>1, <3>2
  <2> HIDE DEF rec
  <2> QED
    BY <1>4, <1>5, <2>1, <2>4, <2>5 DEF Apart
<1>8. ASSUME NEW x \in Workers, NEW y \in Workers, x # w, y # w
      PROVE  Apart(x, y)'
  <2>1. workers'[x] = workers[x] /\ workers'[y] = workers[y]
    BY <1>2, <1>8 DEF TypeInv
  <2> QED
    BY <2>1 DEF Leases, Apart
<1>9. Apart(w, w)'
  BY DEF Apart
<1> QED
  BY <1>6, <1>7, <1>8, <1>9 DEF Leases

LEMMA CallSaveLease ==
  ASSUME TypeInv, Leases, NEW w \in Workers, CallSave(w)
  PROVE  Leases'
<1> DEFINE r == workers[w]
<1>1. PICK s \in Saves : Becomes(w, [r EXCEPT !.phase = "save", !.call = 0,
                                             !.save = s])
  BY DEF CallSave
<1> DEFINE rec == [r EXCEPT !.phase = "save", !.call = 0, !.save = s]
<1>2. /\ rec.phase = "save" /\ rec.call = 0 /\ rec.job = r.job
      /\ rec.attempt = r.attempt /\ rec.ctx = r.ctx /\ rec.ran = r.ran
      /\ rec.lifetime = r.lifetime
  BY Types DEF WorkerRecords
<1> HIDE DEF rec
<1>3. workers'[w] = rec /\ Doc(w)' = Doc(w)
  BY <1>1, <1>2 DEF rec, CallSave, Becomes, TypeInv, Doc
<1>4. /\ r.phase = "run" /\ Live(w) /\ LeaseOf(w)
      /\ r.ctx \in Nat /\ Doc(w).wait \in Int
  BY Types DEF CallSave, In, Live, Leases
<1>5. LeaseOf(w)'
  <2>1. Doc(w).wait + 0 > Latency
    BY <1>4, BoundAssumption DEF LeaseOf
  <2> QED
    BY <1>2, <1>3, <1>4, <2>1 DEF LeaseOf, Owns, Live, Executing
<1>6. Becomes(w, rec) /\ UNCHANGED jobs /\ r.phase \in Executing
  BY <1>1, <1>4 DEF CallSave, rec, Executing
<1> QED
  BY <1>2, <1>5, <1>6, QuietStep

LEMMA SaveLease ==
  ASSUME TypeInv, Leases, Margin, NEW w \in Workers, Save(w)
  PROVE  Leases'
<1> DEFINE r == workers[w]
           j == workers[w].job
<1>1. /\ r.phase = "save" /\ Holds(w) /\ Owns(w) /\ Writable(Doc(w))
      /\ LeaseOf(w) /\ r.phase \in Executing
  BY DEF Save, In, Holds, Leases, LeaseOf, Owns, Writable, Executing
<1>2. /\ r \in WorkerRecords /\ j \in Jobs /\ Doc(w) \in Documents
      /\ r.call \in 0..Latency /\ r.ctx \in Nat /\ r.attempt \in Nat
      /\ r.lifetime \in Nat /\ r.ran \in Nat
      /\ Doc(w).wait \in Int /\ Doc(w).attempts \in Nat
  BY <1>1, Types DEF In
<1>3. r.save # Update => /\ r.save \in Extensions
                        /\ r.save.timeout \in Nat
                        /\ r.save.lifetime \in Nat
                        /\ r.save.lifetime + 2 * Latency < r.save.timeout
  <2>1. r.save # Update => r.save \in Extensions
    BY <1>2 DEF WorkerRecords, Saves
  <2> QED
    BY <2>1, TaskAssumption DEF Margin
<1>4. /\ SavedDoc(w) \in Documents
      /\ SavedDoc(w).state = Doc(w).state
      /\ SavedDoc(w).attempts = Doc(w).attempts
      /\ SavedDoc(w).wait = IF r.save = Update THEN Doc(w).wait
                            ELSE r.save.timeout - r.call
  <2>1. CASE r.save = Update
    <3>1. UpdatedDoc(Doc(w), r.attempt) \in Documents
      BY <1>2, DocumentUpdates DEF UpdatedDoc
    <3> QED
      BY <1>2, <2>1, <3>1 DEF SavedDoc, UpdatedDoc, Documents
  <2>2. CASE r.save # Update
    <3>1. ExtendedDoc(Doc(w), r.attempt, r.save.timeout, r.call) \in Documents
      <4>1. r.call \in Int /\ r.save.timeout \in Int
        BY <1>2, <1>3, <2>2
      <4> QED
        BY <1>2, <4>1, DocumentTypes
    <3> QED
      BY <1>2, <2>2, <3>1 DEF SavedDoc, ExtendedDoc, Documents
  <2> QED
    BY <2>1, <2>2
<1>5. /\ Answered(w).phase = "run" /\ Answered(w).job = j
      /\ Answered(w).attempt = r.attempt /\ Answered(w).ctx = r.ctx
      /\ Answered(w).ran = r.ran /\ Answered(w).lifetime = r.lifetime
  BY <1>2 DEF Answered, WorkerRecords
<1>6. /\ Extended(w).phase = "run" /\ Extended(w).job = j
      /\ Extended(w).attempt = r.attempt
      /\ Extended(w).ctx = r.save.lifetime
      /\ Extended(w).ran = r.ran /\ Extended(w).lifetime = r.save.lifetime
  BY <1>2 DEF Extended, Answered, WorkerRecords
<1>7. /\ Writes(w, SavedDoc(w))
      /\ \/ Becomes(w, Answered(w))
         \/ r.save # Update /\ Becomes(w, Extended(w))
  BY <1>1 DEF Save
<1>8. Doc(w)' = SavedDoc(w) /\ workers'[w].job = j
  <2>1. workers'[w].job = j
    BY <1>5, <1>6, <1>7 DEF Becomes, TypeInv
  <2> QED
    BY <1>2, <1>7, <2>1 DEF Writes, TypeInv, Doc
<1>9. CASE Becomes(w, Answered(w))
  <2>1. workers'[w] = Answered(w)
    BY <1>9 DEF Becomes, TypeInv
  <2>2. Live(w)' => SavedDoc(w).wait > r.ctx + Latency
    <3>1. CASE r.save = Update
      BY <1>1, <1>4, <1>5, <2>1, <3>1 DEF LeaseOf, Live
    <3>2. CASE r.save # Update /\ r.ctx = 0
      BY <1>2, <1>3, <1>4, <3>2, BoundAssumption
    <3>3. CASE r.save # Update /\ r.ctx # 0
      <4>1. Becomes(w, Extended(w))
        BY <1>1, <1>2, <3>3 DEF Save
      <4>2. workers'[w] = Extended(w)
        BY <4>1 DEF Becomes, TypeInv
      <4>3. r.ctx = r.save.lifetime
        BY <1>5, <1>6, <2>1, <4>2
      <4> QED
        BY <1>2, <1>3, <1>4, <3>3, <4>3, BoundAssumption
    <3> QED
      BY <3>1, <3>2, <3>3
  <2>3. r.attempt <= SavedDoc(w).attempts /\ r.ran + r.ctx >= r.lifetime
    BY <1>1, <1>4 DEF LeaseOf
  <2>4. LeaseOf(w)'
    BY <1>1, <1>4, <1>5, <1>8, <2>1, <2>2, <2>3 DEF LeaseOf, Owns
  <2>5. SavedDoc(w).state # "none"
    BY <1>1, <1>4 DEF Owns
  <2> QED
    BY <1>1, <1>4, <1>5, <1>7, <1>9, <2>4, <2>5, WriteStep
<1>10. CASE r.save # Update /\ Becomes(w, Extended(w))
  <2>1. workers'[w] = Extended(w)
    BY <1>10 DEF Becomes, TypeInv
  <2>2. SavedDoc(w).wait > r.save.lifetime + Latency
    BY <1>2, <1>3, <1>4, <1>10, BoundAssumption
  <2>3. r.attempt <= SavedDoc(w).attempts
    BY <1>1, <1>4 DEF LeaseOf
  <2>4. Extended(w).ran + Extended(w).ctx >= Extended(w).lifetime
    BY <1>2, <1>3, <1>6, <1>10
  <2>5. LeaseOf(w)'
    BY <1>1, <1>4, <1>6, <1>8, <2>1, <2>2, <2>3, <2>4 DEF LeaseOf, Owns
  <2>6. SavedDoc(w).state # "none"
    BY <1>1, <1>4 DEF Owns
  <2> QED
    BY <1>1, <1>4, <1>6, <1>7, <1>10, <2>5, <2>6, WriteStep
<1> QED
  BY <1>7, <1>9, <1>10

LEMMA SaveRevokedLease ==
  ASSUME TypeInv, Leases, NEW w \in Workers, SaveRevoked(w)
  PROVE  Leases'
<1> DEFINE r == workers[w]
<1>1. /\ r.phase = "save" /\ LeaseOf(w) /\ r.phase \in Executing
      /\ r \in WorkerRecords
  BY Types DEF SaveRevoked, In, Leases, Executing
<1>2. /\ Answered(w).phase = "run" /\ Answered(w).job = r.job
      /\ Answered(w).attempt = r.attempt /\ Answered(w).ctx = r.ctx
      /\ Answered(w).ran = r.ran /\ Answered(w).lifetime = r.lifetime
  BY <1>1 DEF Answered, WorkerRecords
<1>3. workers'[w] = Answered(w) /\ Doc(w)' = Doc(w)
  BY <1>2 DEF SaveRevoked, Becomes, TypeInv, Doc
<1>4. LeaseOf(w)'
  BY <1>1, <1>2, <1>3 DEF LeaseOf, Owns, Live
<1> QED
  BY <1>1, <1>2, <1>4, QuietStep DEF SaveRevoked

LEMMA OverrunLease ==
  ASSUME TypeInv, Leases, NEW w \in Workers, Overrun(w)
  PROVE  Leases'
<1> DEFINE r == workers[w]
           rec == [r EXCEPT !.late = TRUE]
<1>1. r.phase = "run" /\ LeaseOf(w) /\ r \in WorkerRecords
  BY Types DEF Overrun, In, Leases
<1>2. /\ rec.phase = "run" /\ rec.job = r.job
      /\ rec.attempt = r.attempt /\ rec.ctx = r.ctx
      /\ rec.ran = r.ran /\ rec.lifetime = r.lifetime
  BY <1>1 DEF WorkerRecords
<1>3. Becomes(w, rec) /\ UNCHANGED jobs /\ r.phase \in Executing
  BY <1>1 DEF Overrun, Executing
<1> HIDE DEF rec
<1>4. workers'[w] = rec /\ Doc(w)' = Doc(w)
  BY <1>2, <1>3 DEF Becomes, TypeInv, Doc
<1>5. LeaseOf(w)'
  BY <1>1, <1>2, <1>4 DEF LeaseOf, Owns, Live
<1> QED
  BY <1>2, <1>3, <1>5, QuietStep

(* The check of the lifetime is what lets a worker go on to write.         *)
LEMMA ReturnLease ==
  ASSUME TypeInv, Leases, NEW w \in Workers, Return(w)
  PROVE  Leases'
<1> DEFINE r == workers[w]
<1>1. /\ r.phase = "run" /\ LeaseOf(w) /\ r.phase \in Executing
      /\ r \in WorkerRecords /\ r.ctx \in Nat /\ r.ran \in Nat
      /\ r.lifetime \in Nat /\ Doc(w).wait \in Int
  BY Types DEF Return, In, Leases, Executing
<1>2. CASE r.ran > r.lifetime
  <2>1. Becomes(w, Idle) /\ UNCHANGED jobs
    BY <1>1, <1>2 DEF Return, InLifetime
  <2>2. LeaseOf(w)' /\ Idle.phase \notin Executing
    BY <2>1, NoLease, IdleFields DEF Executing
  <2> QED
    BY <2>1, <2>2, QuietStep
<1>3. CASE ~(r.ran > r.lifetime)
  <2>1. PICK v : Becomes(w, [r EXCEPT !.phase = "finish", !.call = 0,
                                      !.verdict = v])
    <3>1. InLifetime(w)
      BY <1>1, <1>3 DEF InLifetime
    <3>2. \E outcome \in DOMAIN Verdict(0) :
            Becomes(w, [r EXCEPT !.phase = "finish", !.call = 0,
                                 !.verdict = Verdict(r.attempt)[outcome]])
      BY <3>1 DEF Return
    <3> QED
      BY <3>2
  <2> DEFINE rec == [r EXCEPT !.phase = "finish", !.call = 0, !.verdict = v]
  <2>2. /\ rec.phase = "finish" /\ rec.job = r.job
        /\ rec.attempt = r.attempt /\ rec.call = 0
    BY <1>1 DEF WorkerRecords
  <2>3. Becomes(w, rec) /\ UNCHANGED jobs
    BY <2>1 DEF Return
  <2> HIDE DEF rec
  <2>4. workers'[w] = rec /\ Doc(w)' = Doc(w)
    BY <2>2, <2>3 DEF Becomes, TypeInv, Doc
  <2>5. Live(w)
    BY <1>1, <1>3 DEF Live
  <2>6. Owns(w) /\ Doc(w).wait + 0 > Latency
    BY <1>1, <2>5, BoundAssumption DEF LeaseOf
  <2>7. LeaseOf(w)'
    BY <1>1, <2>2, <2>4, <2>6 DEF LeaseOf, Owns
  <2> QED
    BY <1>1, <2>2, <2>3, <2>7, QuietStep
<1> QED
  BY <1>2, <1>3

LEMMA FinishLease ==
  ASSUME TypeInv, Leases, NEW w \in Workers,
         Complete(w) \/ Fail(w) \/ Cancel(w)
  PROVE  Leases'
<1> DEFINE r == workers[w]
<1>1. /\ r.phase = "finish" /\ Holds(w) /\ Owns(w) /\ Writable(Doc(w))
      /\ r \in WorkerRecords /\ Doc(w) \in Documents /\ r.attempt \in Nat
      /\ r.call \in Int
  <2>1. r.phase = "finish"
    BY DEF Complete, Fail, Cancel, In
  <2> QED
    BY <2>1, Types, BoundAssumption
    DEF In, Holds, Leases, LeaseOf, Owns, Writable
<1>2. PICK doc \in Documents :
        /\ Writes(w, doc)
        /\ doc.state # "none"
        /\ doc.attempts = Doc(w).attempts
  <2>1. CASE Complete(w)
    <3> DEFINE doc == CompletedDoc(Doc(w), r.attempt)
    <3>1. doc \in Documents
      BY <1>1, DocumentTypes
    <3>2. doc.state = "completed" /\ doc.attempts = Doc(w).attempts
      BY <1>1 DEF CompletedDoc, Documents
    <3> QED
      BY <1>1, <2>1, <3>1, <3>2 DEF Complete
  <2>2. CASE Cancel(w)
    <3> DEFINE doc == CancelledDoc(Doc(w))
    <3>1. doc \in Documents
      BY <1>1, DocumentTypes
    <3>2. doc.state = "cancelled" /\ doc.attempts = Doc(w).attempts
      BY <1>1 DEF CancelledDoc, Documents
    <3> QED
      BY <1>1, <2>2, <3>1, <3>2 DEF Cancel
  <2>3. CASE Fail(w)
    <3>1. PICK delay \in MinDelay..MaxDelay :
            Writes(w, FailedDoc(Doc(w), delay, r.call))
      BY <1>1, <2>3 DEF Fail
    <3> DEFINE doc == FailedDoc(Doc(w), delay, r.call)
    <3>2. doc \in Documents
      <4>1. delay \in Int
        BY TaskAssumption
      <4> QED
        BY <1>1, <4>1, DocumentTypes
    <3>3. doc.state = "failed" /\ doc.attempts = Doc(w).attempts
      BY <1>1 DEF FailedDoc, Documents
    <3> QED
      BY <3>1, <3>2, <3>3
  <2> QED
    BY <2>1, <2>2, <2>3
<1>3. PICK rec : Becomes(w, rec) /\ rec.phase \in {"idle", "notify"}
  <2>1. CASE Fail(w)
    BY <2>1, IdleFields DEF Fail
  <2>2. CASE Complete(w) \/ Cancel(w)
    <3> DEFINE rec == [r EXCEPT !.phase = "notify", !.call = 0]
    <3>1. rec.phase = "notify"
      BY <1>1 DEF WorkerRecords
    <3> QED
      BY <1>1, <2>2, <3>1 DEF Complete, Cancel
  <2> QED
    BY <2>1, <2>2
<1>4. LeaseOf(w)' /\ rec.phase \notin Executing
  BY <1>3, NoLease DEF Executing
<1> QED
  BY <1>1, <1>2, <1>3, <1>4, WriteStep

(* Requests, misses, notifications and crashes write no document.          *)
LEMMA OtherLease ==
  ASSUME TypeInv, Leases, NEW w \in Workers,
         \/ \E j \in Jobs : Request(w, j)
         \/ Miss(w) \/ Notify(w) \/ Crash(w)
  PROVE  Leases'
<1>1. ASSUME NEW j \in Jobs, Request(w, j)
      PROVE  Leases'
  <2>1. /\ Becomes(w, Start(j)) /\ UNCHANGED jobs
        /\ Start(j).phase = "dequeue" /\ Start(j).job = j
        /\ jobs[j].state # "none"
    BY <1>1, IdleFields DEF Request, Pending
  <2>2. workers'[w] = Start(j)
    BY <2>1 DEF Becomes, TypeInv
  <2>3. LeaseOf(w)'
    BY <2>1, <2>2 DEF LeaseOf, Executing, Doc
  <2> QED
    BY <2>1, <2>3, QuietStep DEF Executing
<1>2. CASE Miss(w) \/ Notify(w) \/ Crash(w)
  <2>1. Becomes(w, Idle) /\ UNCHANGED jobs
    BY <1>2 DEF Miss, Notify, Crash
  <2>2. LeaseOf(w)' /\ Idle.phase \notin Executing
    BY <2>1, NoLease, IdleFields DEF Executing
  <2> QED
    BY <2>1, <2>2, QuietStep
<1> QED
  BY <1>1, <1>2

(* What a tick does to a worker that runs or waits, and to its document.   *)
LEMMA TickFields ==
  ASSUME TypeInv, Tick, NEW w \in Workers, ~In(w, "idle")
  PROVE  /\ workers'[w].phase = workers[w].phase
         /\ workers'[w].job = workers[w].job
         /\ workers'[w].attempt = workers[w].attempt
         /\ workers'[w].lifetime = workers[w].lifetime
         /\ Doc(w)'.state = Doc(w).state
         /\ Doc(w)'.attempts = Doc(w).attempts
         /\ Doc(w)'.wait = Less(Doc(w).wait, -Latency)
         /\ workers[w].phase \in {"dequeue", "save", "finish"} =>
              workers'[w].call = workers[w].call + 1
         /\ workers[w].phase \in {"run", "save"} =>
              /\ workers'[w].ctx = Less(workers[w].ctx, 0)
              /\ workers'[w].ran = IF workers[w].ran < RanCap
                                   THEN workers[w].ran + 1
                                   ELSE workers[w].ran
<1> DEFINE r == workers[w]
<1>1. r \in WorkerRecords /\ r.job \in Jobs /\ Doc(w) \in Documents
  BY Types
<1>2. workers'[w] = AgedWorker(r) /\ jobs'[r.job] = AgedDoc(Doc(w))
  BY <1>1 DEF Tick, TypeInv, Doc
<1>3. /\ AgedWorker(r).phase = r.phase
      /\ AgedWorker(r).job = r.job
      /\ AgedWorker(r).attempt = r.attempt
      /\ AgedWorker(r).lifetime = r.lifetime
  BY <1>1 DEF AgedWorker, WorkerRecords
<1>4. Doc(w)' = AgedDoc(Doc(w))
  BY <1>2, <1>3 DEF Doc
<1>5. /\ AgedDoc(Doc(w)).state = Doc(w).state
      /\ AgedDoc(Doc(w)).attempts = Doc(w).attempts
      /\ AgedDoc(Doc(w)).wait = Less(Doc(w).wait, -Latency)
  BY <1>1 DEF AgedDoc, Documents
<1>6. r.phase \in {"dequeue", "save", "finish"} =>
        AgedWorker(r).call = r.call + 1
  BY <1>1 DEF AgedWorker, WorkerRecords
<1>7. r.phase \in {"run", "save"} =>
        /\ AgedWorker(r).ctx = Less(r.ctx, 0)
        /\ AgedWorker(r).ran = IF r.ran < RanCap THEN r.ran + 1 ELSE r.ran
  BY <1>1 DEF AgedWorker, WorkerRecords
<1> QED
  BY <1>2, <1>3, <1>4, <1>5, <1>6, <1>7

LEMMA TickLease ==
  ASSUME TypeInv, Leases, Tick
  PROVE  Leases'
<1> USE BoundAssumption
<1>1. ASSUME NEW w \in Workers
      PROVE  LeaseOf(w)'
  <2> DEFINE r == workers[w]
             doc == Doc(w)
  <2>1. CASE In(w, "idle")
    <3>1. AgedWorker(r).phase = r.phase
      BY Types DEF AgedWorker, WorkerRecords
    <3>2. workers'[w].phase = "idle"
      BY <2>1, <3>1 DEF Tick, In
    <3> QED
      BY <3>2 DEF LeaseOf, Executing
  <2>2. CASE ~In(w, "idle")
    <3>1. /\ r.call \in 0..Latency /\ r.ran \in 0..RanCap /\ r.ctx \in Nat
          /\ r.lifetime \in 0..(RanCap - 1) /\ doc.wait \in Int
      BY <2>2, Types
    <3>2. LeaseOf(w)
      BY DEF Leases
    <3>3. r.phase \notin {"idle", "notify"} => Doc(w)'.state # "none"
      BY <2>2, <3>2, TickFields DEF LeaseOf
    <3>4. r.phase \in Executing => workers'[w].attempt <= Doc(w)'.attempts
      BY <2>2, <3>2, TickFields DEF LeaseOf
    <3>5. Owns(w)' <=> Owns(w)
      BY <2>2, TickFields DEF Owns
    <3>6. r.phase \in {"run", "save"} =>
            workers'[w].ran + workers'[w].ctx >= workers'[w].lifetime
      BY <2>2, <3>1, <3>2, TickFields DEF LeaseOf, Less
    <3>7. ASSUME r.phase \in {"run", "save"}, Live(w)'
          PROVE  Owns(w)' /\ Doc(w)'.wait > workers'[w].ctx + Latency
      <4>1. /\ workers'[w].ctx = Less(r.ctx, 0)
            /\ workers'[w].ran = IF r.ran < RanCap THEN r.ran + 1 ELSE r.ran
            /\ workers'[w].lifetime = r.lifetime
            /\ Doc(w)'.wait = Less(doc.wait, -Latency)
        BY <2>2, <3>7, TickFields
      <4>2. r.ran + r.ctx >= r.lifetime
        BY <3>2, <3>7 DEF LeaseOf
      <4>3. r.ctx > 0
        BY <3>1, <3>7, <4>1, <4>2 DEF Live, Less
      <4>4. Owns(w) /\ doc.wait > r.ctx + Latency
        BY <3>2, <3>7, <4>3 DEF LeaseOf, Live
      <4> QED
        BY <3>1, <3>5, <4>1, <4>3, <4>4 DEF Less
    <3>8. ASSUME r.phase \in {"save", "finish"}
          PROVE  Owns(w)' /\ Doc(w)'.wait + workers'[w].call > Latency
      <4>1. /\ workers'[w].call = r.call + 1
            /\ Doc(w)'.wait = Less(doc.wait, -Latency)
        BY <2>2, <3>8, TickFields
      <4>2. Owns(w) /\ doc.wait + r.call > Latency
        BY <3>2, <3>8 DEF LeaseOf
      <4>3. doc.wait + r.call + 1 > Latency + 1
        BY <3>1, <4>2
      <4> QED
        BY <3>1, <3>5, <4>1, <4>2, <4>3 DEF Less
    <3> QED
      BY <2>2, <3>3, <3>4, <3>6, <3>7, <3>8, TickFields DEF LeaseOf
  <2> QED
    BY <2>1, <2>2
<1>2. ASSUME NEW x \in Workers, NEW y \in Workers
      PROVE  Apart(x, y)'
  <2>1. ASSUME NEW w \in Workers
        PROVE  /\ workers'[w].phase = workers[w].phase
               /\ workers'[w].job = workers[w].job
               /\ workers'[w].attempt = workers[w].attempt
    <3>1. workers'[w] = AgedWorker(workers[w])
      BY DEF Tick
    <3> QED
      BY <3>1, Types DEF AgedWorker, WorkerRecords
  <2> QED
    BY <2>1 DEF Leases, Apart
<1> QED
  BY <1>1, <1>2 DEF Leases

LEMMA StutterLease ==
  ASSUME Leases, UNCHANGED vars
  PROVE  Leases'
BY DEF vars, Leases, LeaseOf, Apart, Live, Owns, Doc, Executing

LEMMA LeaseStep ==
  TypeOK /\ JobKnown /\ LeaseInv /\ [Next]_vars => LeaseInv'
<1> SUFFICES ASSUME TypeInv, LeaseInv, [Next]_vars, Margin
             PROVE  Leases'
  BY TypeInvHolds, TimeoutKept DEF LeaseInv, Leases, Margin
<1>1. Leases
  BY DEF LeaseInv, Leases
<1>2. ASSUME NEW w \in Workers, Step(w)
      PROVE  Leases'
  BY <1>1, <1>2, DequeueLease, CallSaveLease, SaveLease, SaveRevokedLease,
     OverrunLease, ReturnLease, FinishLease, OtherLease
  DEF Step
<1> QED
  BY <1>1, <1>2, EnqueueLease, TickLease, StutterLease DEF Next

THEOREM LeaseInvariant == Spec => []LeaseInv
<1>1. Spec => [](TypeOK /\ JobKnown)
  BY TypeCorrect
<1> QED
  BY <1>1, LeaseInit, LeaseStep, PTL DEF Spec

(* The invariant of the jobs and their workers, for every value of the     *)
(* constants.                                                              *)
THEOREM JobInvHolds == Spec => []JobInv
<1>1. Spec => [](TypeOK /\ JobKnown)
  BY TypeCorrect
<1> QED
  BY <1>1, LeaseInvariant, PTL DEF JobInv

(* No two workers hold the same job if Timeout exceeds Lifetime by more    *)
(* than two calls to the database, whatever crashes and overruns.          *)
THEOREM MutualExclusionHolds == Spec => []MutualExclusion
<1>1. TypeOK /\ JobKnown /\ LeaseInv => MutualExclusion
  BY TypeInvHolds, OneHolder DEF MutualExclusion, LeaseInv, Leases
<1> QED
  BY <1>1, TypeCorrect, LeaseInvariant, PTL

(* Every write a worker has on its way finds the attempt of that worker.   *)
THEOREM OwnWritesHold == Spec => []OwnWrites
<1>1. LeaseInv => OwnWrites
  BY DEF OwnWrites, LeaseInv, LeaseOf
<1> QED
  BY <1>1, LeaseInvariant, PTL
-----------------------------------------------------------------------------
(* The notifier.  A job that is completed or cancelled stays so, and is    *)
(* completed or cancelled once.                                            *)

LEMMA StaysFinal ==
  ASSUME TypeInv, NEW j \in Jobs, jobs[j].state \in Final, [Next]_vars
  PROVE  jobs'[j].state \in Final
<1>1. jobs[j].state \notin Pending /\ jobs[j].state # "none" /\ jobs[j] \in Documents
  BY DEF Final, Pending, TypeInv
<1>2. ASSUME NEW w \in Workers, NEW doc, Writes(w, doc), Doc(w).state \in Pending
      PROVE  jobs'[j] = jobs[j]
  BY <1>1, <1>2 DEF Writes, Doc, TypeInv
<1>3. CASE jobs' = jobs
  BY <1>3
<1>4. ASSUME NEW i \in Jobs, Enqueue(i)
      PROVE  jobs'[j] = jobs[j]
  BY <1>1, <1>4 DEF Enqueue, TypeInv
<1>5. CASE Tick
  BY <1>1, <1>5 DEF Tick, AgedDoc, Documents
<1>6. ASSUME NEW w \in Workers, Dequeue(w)
      PROVE  jobs'[j] = jobs[j]
  BY <1>2, <1>6 DEF Dequeue, Dequeuable
<1>7. ASSUME NEW w \in Workers, Save(w) \/ Complete(w) \/ Fail(w) \/ Cancel(w)
      PROVE  jobs'[j] = jobs[j]
  BY <1>2, <1>7 DEF Save, Complete, Fail, Cancel, Writable, Pending
<1>8. CASE UNCHANGED vars
  BY <1>8 DEF vars
<1>9. QED
  BY <1>3, <1>4, <1>5, <1>6, <1>7, <1>8
  DEF Next, Step, Request, Miss, CallSave, SaveRevoked, Overrun, Return, Notify, Crash

(* A step of a worker that does not go on to the notifier.                 *)
LEMMA NotNotifying ==
  ASSUME TypeInv, NotifiedOnce, NEW w \in Workers, NEW rec, Becomes(w, rec), rec.phase # "notify",
         \A j \in Jobs : jobs[j].state \in Final => jobs'[j].state \in Final,
         notified' = notified
  PROVE  NotifiedOnce'
<1>1. \A v \in Workers : In(v, "notify")' => In(v, "notify") /\ workers'[v] = workers[v]
  BY DEF TypeInv, Becomes, In
<1>2. QED
  BY <1>1 DEF NotifiedOnce

(* The write that completes or cancels a job finds it executed, so it has  *)
(* not been notified of and nobody is about to.                            *)
LEMMA ClosedOnce ==
  ASSUME TypeInv, NotifiedOnce, notified \in [Jobs -> Nat], NEW w \in Workers, NEW doc,
         In(w, "finish"), Writable(Doc(w)),
         Writes(w, doc), doc.state \in Final,
         Becomes(w, [workers[w] EXCEPT !.phase = "notify", !.call = 0]),
         \A j \in Jobs : jobs[j].state \in Final => jobs'[j].state \in Final,
         notified' = notified
  PROVE  NotifiedOnce'
<1> DEFINE i == workers[w].job
<1>1. i \in Jobs /\ jobs[i].state \notin Final /\ jobs'[i] = doc
  BY Types DEF TypeInv, In, Doc, Writable, Writes, Final
<1>2. /\ \A v \in Workers \ {w} : workers'[v] = workers[v]
      /\ workers'[w].job = i
  BY Types DEF TypeInv, Becomes, WorkerRecords
<1>3. ASSUME NEW j \in Jobs
      PROVE  LET notifying == {v \in Workers : In(v, "notify") /\ workers[v].job = j}
             IN  /\ notified[j] > 0 => jobs[j].state \in Final
                 /\ notifying # {} => jobs[j].state \in Final /\ notified[j] = 0
                 /\ notified[j] <= 1
                 /\ \A v, x \in notifying : v = x
  BY DEF NotifiedOnce
<1>4. ASSUME NEW j \in Jobs
      PROVE  LET notifying == {v \in Workers : In(v, "notify")' /\ workers'[v].job = j}
             IN  /\ notified'[j] > 0 => jobs'[j].state \in Final
                 /\ notifying # {} => jobs'[j].state \in Final /\ notified'[j] = 0
                 /\ notified'[j] <= 1
                 /\ \A v, x \in notifying : v = x
  <2>1. CASE j # i
    BY <1>2, <1>3, <2>1 DEF In
  <2>2. CASE j = i
    <3>1. \A v \in Workers : ~(In(v, "notify") /\ workers[v].job = i)
      BY <1>1, <1>3, <2>2
    <3>2. ~(notified[i] > 0) /\ notified[i] <= 1
      BY <1>1, <1>3, <2>2
    <3>3. \A v \in Workers \ {w} : ~(In(v, "notify")' /\ workers'[v].job = i)
      BY <1>2, <3>1 DEF In
    <3>4. notified[i] = 0
      BY <3>2, <1>1
    <3>5. QED
      BY <1>1, <2>2, <3>3, <3>4
  <2>3. QED
    BY <2>1, <2>2
<1>5. QED
  BY <1>4 DEF NotifiedOnce

(* The notifier runs.                                                      *)
LEMMA NotifyStep ==
  ASSUME TypeInv, NotifiedOnce, notified \in [Jobs -> Nat], NEW w \in Workers, Notify(w)
  PROVE  NotifiedOnce'
<1> DEFINE i == workers[w].job
<1>1. /\ i \in Jobs /\ In(w, "notify") /\ jobs' = jobs /\ workers'[w].phase = "idle"
      /\ notified' = [notified EXCEPT ![i] = @ + 1]
  BY Types, IdleFields DEF Notify, In, Becomes, TypeInv
<1>2. \A v \in Workers \ {w} : workers'[v] = workers[v]
  BY DEF Notify, TypeInv, Becomes
<1>3. ASSUME NEW j \in Jobs
      PROVE  LET notifying == {v \in Workers : In(v, "notify") /\ workers[v].job = j}
             IN  /\ notified[j] > 0 => jobs[j].state \in Final
                 /\ notifying # {} => jobs[j].state \in Final /\ notified[j] = 0
                 /\ notified[j] <= 1
                 /\ \A v, x \in notifying : v = x
  BY DEF NotifiedOnce
<1>4. ASSUME NEW j \in Jobs
      PROVE  LET notifying == {v \in Workers : In(v, "notify")' /\ workers'[v].job = j}
             IN  /\ notified'[j] > 0 => jobs'[j].state \in Final
                 /\ notifying # {} => jobs'[j].state \in Final /\ notified'[j] = 0
                 /\ notified'[j] <= 1
                 /\ \A v, x \in notifying : v = x
  <2>1. \A v \in Workers : In(v, "notify")' => v # w /\ In(v, "notify") /\ workers'[v] = workers[v]
    BY <1>1, <1>2 DEF In
  <2>2. CASE j # i
    <3>1. notified'[j] = notified[j]
      BY <1>1, <2>2
    <3>2. QED
      BY <1>1, <1>3, <2>1, <3>1
  <2>3. CASE j = i
    <3>1. jobs[i].state \in Final /\ notified[i] = 0
      BY <1>1, <1>3, <2>3
    <3>2. notified'[i] = 1
      BY <1>1, <3>1
    <3>3. \A v \in Workers : ~(In(v, "notify")' /\ workers'[v].job = i)
      BY <1>1, <1>3, <2>1, <2>3
    <3>4. QED
      BY <1>1, <2>3, <3>1, <3>2, <3>3
  <2>4. QED
    BY <2>2, <2>3
<1>5. QED
  BY <1>4 DEF NotifiedOnce

LEMMA NotifiedStep ==
  TypeOK /\ JobKnown /\ NotifiedOnce /\ [Next]_vars => NotifiedOnce'
<1> SUFFICES ASSUME TypeOK, TypeInv, NotifiedOnce, [Next]_vars
             PROVE  NotifiedOnce'
  BY TypeInvHolds
<1>1. /\ \A j \in Jobs : jobs[j].state \in Final => jobs'[j].state \in Final
      /\ notified \in [Jobs -> Nat]
  BY StaysFinal DEF TypeOK
<1>2. CASE workers' = workers /\ notified' = notified
  BY <1>1, <1>2 DEF NotifiedOnce, In
<1>3. CASE Tick
  <2>1. \A w \in Workers : workers'[w].phase = workers[w].phase /\ workers'[w].job = workers[w].job
    BY <1>3 DEF Tick, AgedWorker, TypeInv, WorkerRecords
  <2>2. notified' = notified
    BY <1>3 DEF Tick
  <2>3. QED
    BY <1>1, <2>1, <2>2 DEF NotifiedOnce, In
<1>4. ASSUME NEW w \in Workers, NEW rec, Becomes(w, rec), rec.phase # "notify", notified' = notified
      PROVE  NotifiedOnce'
  BY <1>1, <1>4, NotNotifying
<1>5. ASSUME NEW w \in Workers, Step(w)
      PROVE  NotifiedOnce'
  <2>1. CASE Idle.phase = "idle" /\ Becomes(w, Idle) /\ notified' = notified
    BY <1>4, <2>1
  <2>2. ASSUME NEW j \in Jobs, Request(w, j)
        PROVE  NotifiedOnce'
    BY <1>4, <2>2, IdleFields DEF Request
  <2>3. CASE Dequeue(w)
    <3>1. Begun(w).phase = "run"
      BY DEF Begun, Start
    <3>2. QED
      BY <1>4, <2>3, <3>1 DEF Dequeue
  <2>4. CASE CallSave(w) \/ Save(w) \/ SaveRevoked(w) \/ Overrun(w)
    <3>1. /\ Answered(w).phase = "run" /\ Extended(w).phase = "run"
          /\ \A s : [workers[w] EXCEPT !.phase = "save", !.call = 0, !.save = s].phase = "save"
          /\ [workers[w] EXCEPT !.late = TRUE].phase = workers[w].phase
      BY Types DEF Answered, Extended, WorkerRecords
    <3>2. QED
      BY <1>4, <2>4, <3>1 DEF CallSave, Save, SaveRevoked, Overrun, In
  <2>5. CASE Return(w)
    <3>1. \A v : [workers[w] EXCEPT !.phase = "finish", !.call = 0, !.verdict = v].phase = "finish"
      BY Types DEF WorkerRecords
    <3>2. QED
      BY <1>4, <2>5, <3>1, IdleFields DEF Return
  <2>6. CASE Miss(w) \/ Fail(w) \/ Crash(w)
    BY <1>4, <2>6, IdleFields DEF Miss, Fail, Crash
  <2>7. CASE (Complete(w) \/ Cancel(w)) /\ ~Writable(Doc(w))
    BY <1>4, <2>7, IdleFields DEF Complete, Cancel
  <2>8. CASE (Complete(w) \/ Cancel(w)) /\ Writable(Doc(w))
    <3>1. Doc(w) \in Documents
      BY <2>8, Types DEF Complete, Cancel, In
    <3>2. /\ CompletedDoc(Doc(w), workers[w].attempt).state \in Final
          /\ CancelledDoc(Doc(w)).state \in Final
      BY <3>1 DEF CompletedDoc, CancelledDoc, Final, Documents
    <3>3. QED
      BY <1>1, <2>8, <3>2, ClosedOnce DEF Complete, Cancel
  <2>9. CASE Notify(w)
    BY <1>1, <2>9, NotifyStep
  <2>10. QED
    BY <1>5, <2>2, <2>3, <2>4, <2>5, <2>6, <2>7, <2>8, <2>9 DEF Step
<1>6. QED
  BY <1>2, <1>3, <1>5 DEF Next, Enqueue, vars

(* The notifier runs at most once for a job, and only for one that has     *)
(* been completed or cancelled, even when workers overlap.                 *)
THEOREM NotifiedOnceHolds == Spec => []NotifiedOnce
<1>1. Init => NotifiedOnce
  BY DEF Init, NotifiedOnce, Idle, Start, In
<1>2. QED
  BY <1>1, NotifiedStep, TypeCorrect, PTL DEF Spec

-----------------------------------------------------------------------------
(* The refinement: each step is one of Exclusive, or gives claims up.      *)

StatusOf(j) ==
  IF ~Margin \/ jobs[j].state = "none" THEN "new"
  ELSE IF jobs[j].state \in Pending THEN "open" ELSE "closed"

HoldersOf(j) == {w \in Workers : Margin /\ Holds(w) /\ workers[w].job = j}

status == [j \in Jobs |-> StatusOf(j)]

holders == [j \in Jobs |-> HoldersOf(j)]

LEMMA ExclusiveInit ==
  ASSUME status = [j \in Jobs |-> "new"], holders = [j \in Jobs |-> {}]
  PROVE  Lease!Init
BY DEF Lease!Init, status, holders, StatusOf, HoldersOf

LEMMA ExclusiveOpen ==
  ASSUME NEW j \in Jobs, status[j] = "new", status' = [status EXCEPT ![j] = "open"],
         holders' = holders
  PROVE  Lease!Open(j)
BY DEF Lease!Open, status, holders, StatusOf, HoldersOf

LEMMA ExclusiveTake ==
  ASSUME NEW w \in Workers, NEW j \in Jobs, status[j] = "open", holders[j] = {},
         holders' = [holders EXCEPT ![j] = {w}], status' = status
  PROVE  Lease!Take(w, j)
BY DEF Lease!Take, status, holders, StatusOf, HoldersOf

LEMMA ExclusiveLose ==
  ASSUME \A j \in Jobs : StatusOf(j)' = StatusOf(j) /\ HoldersOf(j)' \subseteq HoldersOf(j)
  PROVE  Lease!Lose
<1>1. status' = status
  BY DEF status
<1>2. holders' \in [Jobs -> SUBSET Workers] /\ \A j \in Jobs : holders'[j] \subseteq holders[j]
  BY DEF holders, HoldersOf
<1>3. QED
  BY <1>1, <1>2 DEF Lease!Lose, status, holders, StatusOf, HoldersOf

LEMMA ExclusiveClose ==
  ASSUME NEW w \in Workers, NEW j \in Jobs, status[j] = "open", holders[j] = {w},
         status' = [status EXCEPT ![j] = "closed"], holders' = [holders EXCEPT ![j] = {}]
  PROVE  Lease!Close(w, j)
BY DEF Lease!Close, status, holders, StatusOf, HoldersOf

(* What a step of a worker leaves of what the others hold.                 *)
LEMMA OthersHold ==
  ASSUME TypeInv, NEW w \in Workers, NEW rec, Becomes(w, rec)
  PROVE  /\ \A v \in Workers \ {w} : workers'[v] = workers[v] /\ (Holds(v)' <=> Holds(v))
         /\ workers'[w] = rec
BY DEF TypeInv, Becomes, Holds, Live, In

(* A worker takes no claim, and its job stays as open as it is.            *)
LEMMA LoseStep ==
  ASSUME TypeInv, NEW w \in Workers, NEW rec, Becomes(w, rec),
         Holds(w)' => Holds(w) /\ rec.job = workers[w].job,
         \A j \in Jobs : jobs'[j].state = jobs[j].state \/
                         (jobs'[j].state \in Pending /\ jobs[j].state \in Pending),
         timeout' = timeout
  PROVE  Lease!Lose
<1>1. Margin' <=> Margin
  BY DEF Margin
<1>2. ASSUME NEW j \in Jobs
      PROVE  StatusOf(j)' = StatusOf(j) /\ HoldersOf(j)' \subseteq HoldersOf(j)
  <2>1. "none" \notin Pending
    BY DEF Pending
  <2>2. StatusOf(j)' = StatusOf(j)
    BY <1>1, <2>1 DEF StatusOf
  <2>3. ASSUME NEW v \in HoldersOf(j)'
        PROVE  v \in HoldersOf(j)
    <3>1. v \in Workers /\ Margin /\ Holds(v)' /\ workers'[v].job = j
      BY <1>1, <2>3 DEF HoldersOf
    <3>2. Holds(v) /\ workers[v].job = j
      BY <3>1, OthersHold
    <3>3. QED
      BY <3>1, <3>2 DEF HoldersOf
  <2>4. QED
    BY <2>2, <2>3
<1>3. QED
  BY <1>2, ExclusiveLose

(* Without the margin nothing is said.                                     *)
LEMMA NoMarginStep ==
  ASSUME ~Margin, timeout' = timeout
  PROVE  Lease!Lose
<1>1. ~Margin'
  BY DEF Margin
<1>2. \A j \in Jobs : StatusOf(j)' = StatusOf(j) /\ HoldersOf(j)' \subseteq HoldersOf(j)
  BY <1>1 DEF StatusOf, HoldersOf
<1>3. QED
  BY <1>2, ExclusiveLose

LEMMA EnqueueOpens ==
  ASSUME TypeInv, Leases, Margin, NEW j \in Jobs, Enqueue(j)
  PROVE  Lease!Open(j)
<1>1. /\ jobs[j].state = "none" /\ workers' = workers /\ timeout' = timeout
      /\ jobs'[j].state = "enqueued" /\ \A i \in Jobs \ {j} : jobs'[i] = jobs[i]
  BY DEF Enqueue, EnqueuedDoc, TypeInv
<1>2. Margin'
  BY <1>1 DEF Margin
<1>3. \A i \in Jobs : HoldersOf(i)' = HoldersOf(i)
  BY <1>1, <1>2 DEF HoldersOf, Holds, Live, In
<1>4. /\ StatusOf(j) = "new" /\ StatusOf(j)' = "open"
      /\ \A i \in Jobs \ {j} : StatusOf(i)' = StatusOf(i)
  BY <1>1, <1>2 DEF StatusOf, Pending
<1>5. holders' = holders
  BY <1>3 DEF holders
<1>6. status[j] = "new" /\ status' = [status EXCEPT ![j] = "open"]
  BY <1>4 DEF status
<1>7. QED
  BY <1>5, <1>6, ExclusiveOpen

(* A job is dequeued when its wait is over, so nobody holds it.            *)
LEMMA DequeueTakes ==
  ASSUME TypeInv, Leases, Margin, NEW w \in Workers, Dequeue(w), NEW i \in Jobs, workers[w].job = i
  PROVE  Lease!Take(w, i)
<1>1. /\ Doc(w) = jobs[i] /\ Doc(w) \in Documents /\ workers[w].call \in 0..Latency
      /\ jobs[i].state \in Pending /\ jobs[i].wait + workers[w].call <= 0
  BY Types DEF Dequeue, Dequeuable, In, Doc
<1>2. /\ jobs'[i].state = "dequeued" /\ \A k \in Jobs \ {i} : jobs'[k] = jobs[k]
      /\ timeout' = timeout
  BY <1>1 DEF Dequeue, Writes, DequeuedDoc, Documents, TypeInv
<1>3. Margin'
  BY <1>2 DEF Margin
<1>4. /\ Begun(w).phase = "run" /\ Begun(w).job = i /\ Begun(w).ctx = Lifetime
  BY DEF Begun, Start
<1>5. Becomes(w, Begun(w))
  BY DEF Dequeue
<1>6. Holds(w)' /\ workers'[w].job = i
  <2>1. Lifetime > 0
    BY TaskAssumption
  <2>2. workers'[w] = Begun(w)
    BY <1>5, OthersHold
  <2>3. QED
    BY <1>4, <2>1, <2>2 DEF Holds, Live, In
<1>7. ~Holds(w)
  BY DEF Dequeue, Holds, In
<1>8. \A v \in Workers : ~(Holds(v) /\ workers[v].job = i)
  <2>1. SUFFICES ASSUME NEW v \in Workers, Holds(v), workers[v].job = i
                 PROVE  FALSE
    OBVIOUS
  <2>2. Doc(v).wait > 0
    BY <2>1, HolderLease DEF Leases
  <2>3. jobs[i].wait > 0 /\ jobs[i].wait \in Int
    BY <1>1, <2>1, <2>2 DEF Doc, Documents
  <2>4. QED
    BY <1>1, <2>3, BoundAssumption
<1>9. HoldersOf(i) = {} /\ HoldersOf(i)' = {w}
  BY <1>3, <1>5, <1>6, <1>8, OthersHold DEF HoldersOf
<1>10. \A k \in Jobs \ {i} : HoldersOf(k)' = HoldersOf(k)
  BY <1>3, <1>5, <1>6, <1>7, OthersHold DEF HoldersOf
<1>11. StatusOf(i) = "open" /\ \A k \in Jobs : StatusOf(k)' = StatusOf(k)
  BY <1>1, <1>2, <1>3 DEF StatusOf, Pending
<1>12. status[i] = "open" /\ status' = status
  BY <1>1, <1>11 DEF status
<1>13. holders[i] = {} /\ holders' = [holders EXCEPT ![i] = {w}]
  BY <1>1, <1>9, <1>10 DEF holders
<1>14. QED
  BY <1>1, <1>12, <1>13, ExclusiveTake

(* The worker that completes or cancels a job is the one that holds it.    *)
LEMMA WriteCloses ==
  ASSUME TypeInv, Leases, Margin, NEW w \in Workers, In(w, "finish"), Writable(Doc(w)),
         NEW doc, Writes(w, doc), doc.state \in Final,
         Becomes(w, [workers[w] EXCEPT !.phase = "notify", !.call = 0]), timeout' = timeout,
         NEW i \in Jobs, workers[w].job = i
  PROVE  Lease!Close(w, i)
<1>1. /\ jobs[i].state = "dequeued" /\ Holds(w)
  BY Types DEF In, Writable, Doc, Holds
<1>2. jobs'[i].state \in Final /\ \A k \in Jobs \ {i} : jobs'[k] = jobs[k]
  BY <1>1 DEF Writes, TypeInv
<1>3. Margin'
  BY DEF Margin
<1>4. workers'[w].phase = "notify" /\ ~Holds(w)'
  <2>1. workers'[w].phase = "notify"
    BY OthersHold, Types DEF WorkerRecords
  <2>2. QED
    BY <2>1 DEF Holds, In
<1>5. \A v \in Workers : Holds(v) /\ workers[v].job = i => v = w
  BY <1>1, OneHolder
<1>6. HoldersOf(i) = {w} /\ HoldersOf(i)' = {}
  BY <1>1, <1>4, <1>5, OthersHold DEF HoldersOf
<1>7. \A k \in Jobs \ {i} : HoldersOf(k)' = HoldersOf(k)
  BY <1>1, <1>3, <1>4, OthersHold DEF HoldersOf
<1>8. /\ StatusOf(i) = "open" /\ StatusOf(i)' = "closed"
      /\ \A k \in Jobs \ {i} : StatusOf(k)' = StatusOf(k)
  BY <1>1, <1>2, <1>3 DEF StatusOf, Pending, Final
<1>9. status[i] = "open" /\ status' = [status EXCEPT ![i] = "closed"]
  BY <1>1, <1>8 DEF status
<1>10. holders[i] = {w} /\ holders' = [holders EXCEPT ![i] = {}]
  BY <1>1, <1>6, <1>7 DEF holders
<1>11. QED
  BY <1>1, <1>9, <1>10, ExclusiveClose

(* Time only takes claims away.                                            *)
LEMMA TickLoses ==
  ASSUME TypeInv, Tick
  PROVE  Lease!Lose
<1>1. \A j \in Jobs : jobs'[j].state = jobs[j].state
  BY DEF Tick, AgedDoc, TypeInv, Documents
<1>2. Margin' <=> Margin
  BY DEF Tick, Margin
<1>3. ASSUME NEW w \in Workers, Holds(w)'
      PROVE  Holds(w) /\ workers'[w].job = workers[w].job
  <2>1. CASE In(w, "idle")
    <3>1. workers'[w] = workers[w]
      BY <2>1 DEF Tick, AgedWorker, In
    <3>2. QED
      BY <1>3, <2>1, <3>1 DEF Holds, In
  <2>2. CASE ~In(w, "idle") /\ workers[w].phase # "run"
    BY <1>3, <2>2, TickFields DEF Holds, In
  <2>3. CASE workers[w].phase = "run"
    <3>1. /\ workers[w].ran \in Nat /\ workers[w].ctx \in Nat
          /\ workers[w].lifetime \in Nat /\ RanCap \in Nat
      BY Types, BoundAssumption
    <3>2. /\ workers'[w].phase = "run" /\ workers'[w].job = workers[w].job
          /\ workers'[w].lifetime = workers[w].lifetime
          /\ workers'[w].ctx = Less(workers[w].ctx, 0)
          /\ workers'[w].ran = IF workers[w].ran < RanCap THEN workers[w].ran + 1
                               ELSE workers[w].ran
      BY <2>3, TickFields DEF In
    <3>3. Live(w)'
      BY <1>3, <3>2 DEF Holds, In
    <3>4. Live(w)
      BY <3>1, <3>2, <3>3 DEF Live, Less
    <3>5. QED
      BY <2>3, <3>2, <3>4 DEF Holds, In
  <2>4. QED
    BY <2>1, <2>2, <2>3
<1>4. \A j \in Jobs : StatusOf(j)' = StatusOf(j) /\ HoldersOf(j)' \subseteq HoldersOf(j)
  BY <1>1, <1>2, <1>3 DEF StatusOf, HoldersOf
<1>5. QED
  BY <1>4, ExclusiveLose

(* The steps of a worker that take no claim and close no job.              *)
LEMMA OtherLoses ==
  ASSUME TypeInv, Leases, NEW w \in Workers, timeout' = timeout,
         \/ \E j \in Jobs : Request(w, j)
         \/ Miss(w) \/ CallSave(w) \/ Save(w) \/ SaveRevoked(w) \/ Overrun(w) \/ Return(w)
         \/ Fail(w) \/ Notify(w) \/ Crash(w)
         \/ ((Complete(w) \/ Cancel(w)) /\ ~Writable(Doc(w)))
  PROVE  Lease!Lose
<1>1. workers[w] \in WorkerRecords
  BY Types
<1>2. ASSUME NEW rec, Becomes(w, rec), jobs' = jobs,
             rec.phase \in {"idle", "dequeue", "notify"} \/ (Holds(w) /\ rec.job = workers[w].job)
      PROVE  Lease!Lose
  <2>1. Holds(w)' => Holds(w) /\ rec.job = workers[w].job
    BY <1>2, OthersHold DEF Holds, In
  <2>2. QED
    BY <1>2, <2>1, LoseStep
<1>3. ASSUME NEW j \in Jobs, Request(w, j)
      PROVE  Lease!Lose
  BY <1>2, <1>3, IdleFields DEF Request
<1>4. CASE Miss(w) \/ Notify(w) \/ Crash(w) \/ ((Complete(w) \/ Cancel(w)) /\ ~Writable(Doc(w)))
  BY <1>2, <1>4, IdleFields DEF Miss, Notify, Crash, Complete, Cancel
<1>5. CASE CallSave(w)
  <2>1. PICK s \in Saves : Becomes(w, [workers[w] EXCEPT !.phase = "save", !.call = 0, !.save = s])
    BY <1>5 DEF CallSave
  <2>2. Holds(w) /\ jobs' = jobs
    BY <1>5 DEF CallSave, Holds, Live
  <2>3. [workers[w] EXCEPT !.phase = "save", !.call = 0, !.save = s].job = workers[w].job
    BY <1>1 DEF WorkerRecords
  <2>4. QED
    BY <1>2, <2>1, <2>2, <2>3
<1>6. Answered(w).job = workers[w].job /\ Extended(w).job = workers[w].job
  BY <1>1 DEF Answered, Extended, WorkerRecords
<1>7. CASE SaveRevoked(w)
  <2>1. Holds(w)
    BY <1>7 DEF SaveRevoked, Holds, In
  <2>2. QED
    BY <1>2, <1>6, <1>7, <2>1 DEF SaveRevoked
<1>8. CASE Overrun(w)
  <2> DEFINE rec == [workers[w] EXCEPT !.late = TRUE]
  <2>1. /\ rec.job = workers[w].job /\ rec.phase = workers[w].phase /\ rec.ctx = workers[w].ctx
        /\ rec.ran = workers[w].ran /\ rec.lifetime = workers[w].lifetime
    BY <1>1 DEF WorkerRecords
  <2>2. Becomes(w, rec) /\ jobs' = jobs
    BY <1>8 DEF Overrun
  <2> HIDE DEF rec
  <2>3. Holds(w)' => Holds(w)
    BY <2>1, <2>2, OthersHold DEF Holds, Live, In
  <2>4. QED
    BY <2>1, <2>2, <2>3, LoseStep
<1>9. CASE Return(w)
  <2>1. CASE InLifetime(w)
    <3>1. PICK v : Becomes(w, [workers[w] EXCEPT !.phase = "finish", !.call = 0, !.verdict = v])
      BY <1>9, <2>1 DEF Return
    <3>2. Holds(w) /\ jobs' = jobs
      BY <1>9, <2>1 DEF Return, Holds, Live, InLifetime
    <3>3. [workers[w] EXCEPT !.phase = "finish", !.call = 0, !.verdict = v].job = workers[w].job
      BY <1>1 DEF WorkerRecords
    <3>4. QED
      BY <1>2, <3>1, <3>2, <3>3
  <2>2. CASE ~InLifetime(w)
    BY <1>2, <1>9, <2>2, IdleFields DEF Return
  <2>3. QED
    BY <2>1, <2>2
<1>10. ASSUME NEW doc, NEW rec, Becomes(w, rec), ~In(w, "idle"), Writable(Doc(w)), Writes(w, doc),
              doc.state \in Pending, rec.phase = "idle" \/ (Holds(w) /\ rec.job = workers[w].job)
       PROVE  Lease!Lose
  <2>1. workers[w].job \in Jobs /\ jobs[workers[w].job].state \in Pending
    BY <1>10, Types DEF Writable, Doc, Pending
  <2>2. \A j \in Jobs : jobs'[j].state = jobs[j].state \/
                        (jobs'[j].state \in Pending /\ jobs[j].state \in Pending)
    BY <1>10, <2>1 DEF Writes, TypeInv
  <2>3. Holds(w)' => Holds(w) /\ rec.job = workers[w].job
    BY <1>10, OthersHold DEF Holds, In
  <2>4. QED
    BY <1>10, <2>2, <2>3, LoseStep
<1>11. CASE Save(w)
  <2>1. Holds(w) /\ ~In(w, "idle")
    BY <1>11 DEF Save, Holds, In
  <2>2. CASE Writable(Doc(w))
    <3>1. SavedDoc(w).state \in Pending
      <4>1. Doc(w) \in Documents /\ Doc(w).state = "dequeued"
        BY <2>1, <2>2, Types DEF Writable
      <4>2. QED
        BY <4>1 DEF SavedDoc, UpdatedDoc, ExtendedDoc, Documents, Pending
    <3>2. QED
      BY <1>6, <1>10, <1>11, <2>1, <2>2, <3>1 DEF Save
  <2>3. CASE ~Writable(Doc(w))
    BY <1>2, <1>6, <1>11, <2>1, <2>3 DEF Save
  <2>4. QED
    BY <2>2, <2>3
<1>12. CASE Fail(w)
  <2>1. CASE Writable(Doc(w))
    <3>1. PICK delay : Writes(w, FailedDoc(Doc(w), delay, workers[w].call))
      BY <1>12, <2>1 DEF Fail
    <3>2. Doc(w) \in Documents /\ ~In(w, "idle")
      BY <1>12, Types DEF Fail, In
    <3>3. FailedDoc(Doc(w), delay, workers[w].call).state \in Pending
      BY <3>2 DEF FailedDoc, Documents, Pending
    <3>4. QED
      BY <1>10, <1>12, <2>1, <3>1, <3>2, <3>3, IdleFields DEF Fail
  <2>2. CASE ~Writable(Doc(w))
    BY <1>2, <1>12, <2>2, IdleFields DEF Fail
  <2>3. QED
    BY <2>1, <2>2
<1>13. QED
  BY <1>3, <1>4, <1>5, <1>7, <1>8, <1>9, <1>11, <1>12

LEMMA StutterLoses ==
  ASSUME UNCHANGED vars
  PROVE  Lease!Lose
<1>1. \A j \in Jobs : StatusOf(j)' = StatusOf(j) /\ HoldersOf(j)' = HoldersOf(j)
  BY DEF vars, StatusOf, HoldersOf, Margin, Holds, Live, In
<1>2. QED
  BY <1>1, ExclusiveLose

LEMMA StepClaims ==
  TypeOK /\ JobKnown /\ LeaseInv /\ [Next]_vars => Lease!Next
<1> SUFFICES ASSUME TypeInv, LeaseInv, [Next]_vars
             PROVE  Lease!Next
  BY TypeInvHolds
<1>1. timeout' = timeout
  BY TimeoutKept
<1>2. CASE ~Margin
  BY <1>1, <1>2, NoMarginStep DEF Lease!Next
<1>3. CASE Margin
  <2>1. Leases
    BY <1>3 DEF LeaseInv, Leases
  <2>2. ASSUME NEW j \in Jobs, Enqueue(j)
        PROVE  Lease!Open(j)
    BY <1>3, <2>1, <2>2, EnqueueOpens
  <2>3. ASSUME NEW w \in Workers, Dequeue(w)
        PROVE  \E j \in Jobs : Lease!Take(w, j)
    <3>1. ~In(w, "idle")
      BY <2>3 DEF Dequeue, In
    <3>2. PICK j \in Jobs : workers[w].job = j
      BY <3>1, Types
    <3>3. Lease!Take(w, j)
      BY <1>3, <2>1, <2>3, <3>2, DequeueTakes
    <3>4. QED
      BY <3>3
  <2>4. ASSUME NEW w \in Workers, Complete(w) \/ Cancel(w), Writable(Doc(w))
        PROVE  \E j \in Jobs : Lease!Close(w, j)
    <3>1. In(w, "finish") /\ ~In(w, "idle")
      BY <2>4 DEF Complete, Cancel, In
    <3>2. Doc(w) \in Documents
      BY <3>1, Types
    <3>3. /\ CompletedDoc(Doc(w), workers[w].attempt).state \in Final
          /\ CancelledDoc(Doc(w)).state \in Final
      BY <3>2 DEF CompletedDoc, CancelledDoc, Final, Documents
    <3>4. PICK j \in Jobs : workers[w].job = j
      BY <3>1, Types
    <3>5. PICK doc : /\ Writes(w, doc) /\ doc.state \in Final
                     /\ Becomes(w, [workers[w] EXCEPT !.phase = "notify", !.call = 0])
      BY <2>4, <3>3 DEF Complete, Cancel
    <3>6. Lease!Close(w, j)
      BY <1>1, <1>3, <2>1, <2>4, <3>1, <3>4, <3>5, WriteCloses
    <3>7. QED
      BY <3>6
  <2>5. ASSUME NEW w \in Workers, Step(w)
        PROVE  Lease!Next
    BY <1>1, <2>1, <2>3, <2>4, <2>5, OtherLoses DEF Step, Lease!Next
  <2>6. QED
    BY <1>3, <2>2, <2>5, TickLoses, StutterLoses DEF Next, Lease!Next
<1>4. QED
  BY <1>2, <1>3

(* Under the margin the queue hands out each job to one worker at a time   *)
(* and a job that has been completed or cancelled never again: AxeJobs     *)
(* implements Exclusive (axe/task.go, axe/basic.go).                       *)
THEOREM ExclusiveHolds == Spec => ImplementsExclusive
<1>1. Init => Lease!Init
  <2> SUFFICES ASSUME Init
               PROVE  Lease!Init
    OBVIOUS
  <2>1. \A j \in Jobs : StatusOf(j) = "new" /\ HoldersOf(j) = {}
    BY DEF Init, StatusOf, HoldersOf, Absent, Holds, In, Idle, Start
  <2>2. status = [j \in Jobs |-> "new"] /\ holders = [j \in Jobs |-> {}]
    BY <2>1 DEF status, holders
  <2>3. QED
    BY <2>2, ExclusiveInit
<1>2. Spec => [](TypeOK /\ JobKnown)
  BY TypeCorrect
<1>3. QED
  BY <1>1, <1>2, LeaseInvariant, StepClaims, PTL DEF Spec, ImplementsExclusive, Lease!Spec

=============================================================================
