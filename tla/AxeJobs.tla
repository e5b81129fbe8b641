------------------------------ MODULE AxeJobs ------------------------------
(***************************************************************************)
(* The execution of jobs by the workers of an axe queue: task.go on top of *)
(* the writes of basic.go.                                                 *)
(*                                                                         *)
(* Workers compete for jobs through the database.  A worker that dequeues  *)
(* a job holds it for Timeout; it gives its handler a context of Lifetime, *)
(* refuses the outcome of a handler that ran longer, and writes the        *)
(* outcome with a filter that compares the state of the job only.  Every   *)
(* call to the database takes up to Latency, workers crash, and handlers   *)
(* extend their time, save progress, fail, ask for a retry or overrun.     *)
(***************************************************************************)
EXTENDS AxeStore

CONSTANTS
  Jobs,         \* the identifiers of the jobs
  Workers,      \* the workers of all processes that run the task
  Delays,       \* the delays jobs are enqueued with
  Timeouts,     \* the values of Task.Timeout that are considered
  Lifetime,     \* Task.Lifetime
  Extensions,   \* the arguments handlers call Context.Extend with
  MinDelay,     \* Task.MinDelay
  MaxDelay,     \* Task.MaxDelay
  MaxAttempts,  \* Task.MaxAttempts, 0 for no limit
  Latency,      \* bound: the longest time a call to the database takes
  MaxTries,     \* bound: the number of times a job is dequeued
  MaxFaults,    \* bound: the faults and extensions, see Fault
  RanCap,       \* bound: the clock of a handler stops there
  NoJob         \* what an idle worker works on

ASSUME TaskAssumption ==
  /\ Delays \subseteq Nat
  /\ Timeouts \subseteq Nat /\ Lifetime \in Nat \ {0}
  /\ \A t \in Timeouts : Lifetime <= t
  /\ Extensions \subseteq [timeout : Nat, lifetime : Nat \ {0}]
  /\ \A e \in Extensions : e.lifetime <= e.timeout
  /\ MinDelay \in Nat /\ MaxDelay \in Nat /\ MinDelay <= MaxDelay
  /\ MaxAttempts \in Nat

ASSUME BoundAssumption ==
  /\ Latency \in Nat /\ MaxTries \in Nat /\ MaxFaults \in Nat
  /\ RanCap \in Nat /\ Lifetime < RanCap
  /\ \A e \in Extensions : e.lifetime < RanCap
  /\ NoJob \notin Jobs

VARIABLES
  timeout,   \* Task.Timeout
  jobs,      \* the collection: a document of AxeStore per job
  workers,   \* what each worker is doing
  notified,  \* notified[j]: the number of times the notifier has run for j
  faults     \* the number of faults so far

vars == <<timeout, jobs, workers, notified, faults>>

(***************************************************************************)
(* A worker is idle, waits for the answer to its Dequeue, runs the handler,*)
(* waits for an Extend or Update the handler made, writes the outcome or   *)
(* is about to call the notifier.                                          *)
(***************************************************************************)
Phases == {"idle", "dequeue", "run", "save", "finish", "notify"}

(* The write an outcome leads to.                                          *)
Verdicts == {"none", "complete", "fail", "cancel"}

(* A handler saves its progress with Update, or with Extend and a new      *)
(* timeout and lifetime.                                                   *)
Update == [timeout |-> 0, lifetime |-> 0]

Saves == Extensions \cup {Update}

Start(j) ==
  [phase |-> "dequeue", job |-> j, attempt |-> 0, call |-> 0, ran |-> 0,
   ctx |-> 0, lifetime |-> 0, late |-> FALSE, save |-> Update,
   verdict |-> "none"]

Idle == [Start(NoJob) EXCEPT !.phase = "idle"]

TypeOK ==
  /\ timeout \in Timeouts
  /\ jobs \in [Jobs -> [state : States, wait : Int, attempts : Nat,
                        data : Nat]]
  /\ workers \in [Workers -> [phase : Phases, job : Jobs \cup {NoJob}, attempt : Nat,
                              call : 0..Latency, ran : 0..RanCap,
                              ctx : Nat, lifetime : 0..(RanCap - 1),
                              late : BOOLEAN, save : Saves,
                              verdict : Verdicts]]
  /\ notified \in [Jobs -> Nat]
  /\ faults \in 0..MaxFaults

Init ==
  /\ timeout \in Timeouts
  /\ jobs = [j \in Jobs |-> Absent]
  /\ workers = [w \in Workers |-> Idle]
  /\ notified = [j \in Jobs |-> 0]
  /\ faults = 0

Becomes(w, rec) == workers' = [workers EXCEPT ![w] = rec]

Writes(w, doc) == jobs' = [jobs EXCEPT ![workers[w].job] = doc]

(* The document a worker works on.                                         *)
Doc(w) == jobs[workers[w].job]

In(w, phase) == workers[w].phase = phase

(* Crashes, overruns, requested retries and extensions, which do not start *)
(* the clock of the handler anew, share a budget.                          *)
Fault ==
  /\ faults < MaxFaults
  /\ faults' = faults + 1

-----------------------------------------------------------------------------

Enqueue(j) ==
  /\ jobs[j].state = "none"
  /\ \E delay \in Delays : jobs' = [jobs EXCEPT ![j] = EnqueuedDoc(delay)]
  /\ UNCHANGED <<timeout, workers, notified, faults>>

(***************************************************************************)
(* worker: queue.get returned a job that is due, and execute calls Dequeue.*)
(* AxeBoard models the board the job comes from; a board that is behind    *)
(* only adds calls that find nothing to dequeue.                           *)
(***************************************************************************)
Request(w, j) ==
  /\ In(w, "idle")
  /\ jobs[j].wait <= 0
  /\ jobs[j].state \in Pending
  /\ jobs[j].attempts < MaxTries
  /\ Becomes(w, Start(j))
  /\ UNCHANGED <<timeout, jobs, notified, faults>>

(* Mutated: the context lives as long as the job is reserved.              *)
BegunForTimeout(w) ==
  [Start(workers[w].job) EXCEPT !.phase = "run",
                                !.attempt = Doc(w).attempts + 1,
                                !.ctx = timeout,
                                !.lifetime = Lifetime]

(* The start time, the context and the lifetime of an attempt.             *)
Begun(w) ==
  [Start(workers[w].job) EXCEPT !.phase = "run",
                                !.attempt = Doc(w).attempts + 1,
                                !.ctx = Lifetime,
                                !.lifetime = Lifetime]

(* The Dequeue takes effect and execute calls the handler.                 *)
Dequeue(w) ==
  /\ In(w, "dequeue")
  /\ Dequeuable(Doc(w), workers[w].call)
  /\ Doc(w).attempts < MaxTries
  /\ Writes(w, DequeuedDoc(Doc(w), timeout, workers[w].call))
  /\ Becomes(w, Begun(w))
  /\ UNCHANGED <<timeout, notified, faults>>

(* Another worker was faster: the filter matches no document.              *)
Miss(w) ==
  /\ In(w, "dequeue")
  /\ \/ ~Dequeuable(Doc(w), workers[w].call)
     \/ Doc(w).attempts = MaxTries
  /\ Becomes(w, Idle)
  /\ UNCHANGED <<timeout, jobs, notified, faults>>

-----------------------------------------------------------------------------

(***************************************************************************)
(* The handler.  The calls that Context.Extend skips because enough of the *)
(* deadline is left change nothing and are left out.                       *)
(***************************************************************************)
CallSave(w) ==
  /\ In(w, "run")
  /\ workers[w].ctx > 0
  /\ \E s \in Saves :
       /\ IF s = Update THEN UNCHANGED faults
          ELSE workers[w].ctx <= s.lifetime /\ Fault
       /\ Becomes(w, [workers[w] EXCEPT !.phase = "save", !.call = 0,
                                        !.save = s])
  /\ UNCHANGED <<timeout, jobs, notified>>

(* The write of a save, and what the handler makes of the answer: an       *)
(* expired context has already failed the call, a missing job fails it,    *)
(* and an extension replaces the context and the lifetime, not the start.  *)
SavedDoc(w) ==
  IF workers[w].save = Update
  THEN UpdatedDoc(Doc(w), workers[w].attempt)
  ELSE ExtendedDoc(Doc(w), workers[w].attempt, workers[w].save.timeout,
                   workers[w].call)

Answered(w) == [workers[w] EXCEPT !.phase = "run", !.call = 0,
                                  !.save = Update]

Extended(w) == [Answered(w) EXCEPT !.ctx = workers[w].save.lifetime,
                                   !.lifetime = workers[w].save.lifetime]

Save(w) ==
  /\ In(w, "save")
  /\ IF Writable(Doc(w)) THEN Writes(w, SavedDoc(w)) ELSE UNCHANGED jobs
  /\ Becomes(w, IF /\ workers[w].save # Update
                   /\ workers[w].ctx > 0
                   /\ Writable(Doc(w))
                THEN Extended(w)
                ELSE Answered(w))
  /\ UNCHANGED <<timeout, notified, faults>>

(* The context expires before the write takes effect and revokes it.       *)
SaveRevoked(w) ==
  /\ In(w, "save")
  /\ workers[w].ctx = 0
  /\ Becomes(w, Answered(w))
  /\ UNCHANGED <<timeout, jobs, notified, faults>>

(* A handler that ignores its context.                                     *)
Overrun(w) ==
  /\ In(w, "run")
  /\ ~workers[w].late
  /\ Becomes(w, [workers[w] EXCEPT !.late = TRUE])
  /\ Fault
  /\ UNCHANGED <<timeout, jobs, notified>>

(***************************************************************************)
(* execute after the handler: what an outcome leads to.  A panic is caught *)
(* and is an error.                                                        *)
(***************************************************************************)
Verdict(attempt) ==
  [ok     |-> "complete",
   retry  |-> "fail",
   cancel |-> "cancel",
   error  |-> IF MaxAttempts = 0 \/ attempt < MaxAttempts
              THEN "fail" ELSE "cancel"]

(* Mutated: no check of the lifetime.                                      *)
InAnyLifetime(w) == workers[w].phase = "run"

(* "another worker might already have dequeued the job".                   *)
InLifetime(w) == workers[w].ran <= workers[w].lifetime

Return(w) ==
  /\ In(w, "run")
  /\ \E outcome \in DOMAIN Verdict(0) :
       /\ IF outcome = "retry" THEN Fault ELSE UNCHANGED faults
       /\ IF InLifetime(w)
          THEN Becomes(w, [workers[w] EXCEPT
                             !.phase = "finish",
                             !.call = 0,
                             !.verdict =
                               Verdict(workers[w].attempt)[outcome]])
          ELSE Becomes(w, Idle)
  /\ UNCHANGED <<timeout, jobs, notified>>

(* "missing job": a worker whose write matched nothing reports an error.   *)
Complete(w) ==
  /\ In(w, "finish")
  /\ workers[w].verdict = "complete"
  /\ IF Writable(Doc(w))
     THEN /\ Writes(w, CompletedDoc(Doc(w), workers[w].attempt))
          /\ Becomes(w, [workers[w] EXCEPT !.phase = "notify", !.call = 0])
     ELSE /\ Becomes(w, Idle)
          /\ UNCHANGED jobs
  /\ UNCHANGED <<timeout, notified, faults>>

(* stick.Backoff returns a delay between MinDelay and MaxDelay.            *)
Fail(w) ==
  /\ In(w, "finish")
  /\ workers[w].verdict = "fail"
  /\ IF Writable(Doc(w))
     THEN \E delay \in MinDelay..MaxDelay :
            Writes(w, FailedDoc(Doc(w), delay, workers[w].call))
     ELSE UNCHANGED jobs
  /\ Becomes(w, Idle)
  /\ UNCHANGED <<timeout, notified, faults>>

Cancel(w) ==
  /\ In(w, "finish")
  /\ workers[w].verdict = "cancel"
  /\ IF Writable(Doc(w))
     THEN /\ Writes(w, CancelledDoc(Doc(w)))
          /\ Becomes(w, [workers[w] EXCEPT !.phase = "notify", !.call = 0])
     ELSE /\ Becomes(w, Idle)
          /\ UNCHANGED jobs
  /\ UNCHANGED <<timeout, notified, faults>>

(* The notifier runs, whatever it returns.                                 *)
Notify(w) ==
  /\ In(w, "notify")
  /\ notified' = [notified EXCEPT ![workers[w].job] = @ + 1]
  /\ Becomes(w, Idle)
  /\ UNCHANGED <<timeout, jobs, faults>>

(***************************************************************************)
(* The process dies, the queue is closed, the answer to a call is lost, or *)
(* the job cannot be decoded, validated or encoded: execute is over.       *)
(***************************************************************************)
Crash(w) ==
  /\ ~In(w, "idle")
  /\ Becomes(w, Idle)
  /\ Fault
  /\ UNCHANGED <<timeout, jobs, notified>>

(***************************************************************************)
(* One tick of time.  Calls are answered within Latency, and a handler     *)
(* that is not late returns when its context is done.                      *)
(***************************************************************************)
Less(n, floor) == IF n > floor THEN n - 1 ELSE n

Calling(w) == workers[w].phase \in {"dequeue", "save", "finish"}

AgedDoc(doc) == [doc EXCEPT !.wait = Less(@, -Latency)]

AgedWorker(rec) ==
  IF rec.phase \in {"dequeue", "finish"}
  THEN [rec EXCEPT !.call = @ + 1]
  ELSE IF rec.phase \in {"run", "save"}
  THEN [rec EXCEPT !.call = IF rec.phase = "save" THEN @ + 1 ELSE @,
                   !.ran = IF @ < RanCap THEN @ + 1 ELSE @,
                   !.ctx = Less(@, 0)]
  ELSE rec

Tick ==
  /\ \A w \in Workers :
       /\ Calling(w) => workers[w].call < Latency
       /\ In(w, "run") /\ workers[w].ctx = 0 => workers[w].late
  /\ jobs' = [j \in Jobs |-> AgedDoc(jobs[j])]
  /\ workers' = [w \in Workers |-> AgedWorker(workers[w])]
  /\ UNCHANGED <<timeout, notified, faults>>

-----------------------------------------------------------------------------

Step(w) ==
  \/ \E j \in Jobs : Request(w, j)
  \/ Dequeue(w) \/ Miss(w)
  \/ CallSave(w) \/ Save(w) \/ SaveRevoked(w)
  \/ Overrun(w) \/ Return(w)
  \/ Complete(w) \/ Fail(w) \/ Cancel(w)
  \/ Notify(w)
  \/ Crash(w)

Next ==
  \/ \E j \in Jobs : Enqueue(j)
  \/ \E w \in Workers : Step(w)
  \/ Tick

Spec == Init /\ [][Next]_vars

(***************************************************************************)
(* Fairness.  Calls are answered, handlers return however often they save, *)
(* and time passes.  The board hands out its due jobs in the random order  *)
(* of a Go map, so a job that is due again and again is picked.            *)
(***************************************************************************)
Fairness ==
  /\ WF_vars(Tick)
  /\ \A j \in Jobs : SF_vars(\E w \in Workers : Request(w, j))
  /\ \A w \in Workers :
       /\ WF_vars(Dequeue(w) \/ Miss(w))
       /\ WF_vars(Save(w) \/ SaveRevoked(w))
       /\ SF_vars(Return(w))
       /\ WF_vars(Complete(w) \/ Fail(w) \/ Cancel(w))
       /\ WF_vars(Notify(w))

FairSpec == Spec /\ Fairness

-----------------------------------------------------------------------------

(* A worker that has dequeued its job and not yet written the outcome.     *)
Executing == {"run", "save", "finish"}

(* The context of the handler is live, or execute would still accept what  *)
(* the handler returns.                                                    *)
Live(w) ==
  \/ workers[w].ctx > 0
  \/ workers[w].ran <= workers[w].lifetime

(* A worker holds its job while it is live and while it writes.            *)
Holds(w) ==
  \/ workers[w].phase \in {"save", "finish"}
  \/ In(w, "run") /\ Live(w)

(* The job is in the attempt of the worker.                                *)
Owns(w) ==
  /\ Doc(w).state = "dequeued"
  /\ Doc(w).attempts = workers[w].attempt

(* What the margin between Lifetime and Timeout has to cover: the Dequeue  *)
(* on its way when the lease starts and a write on its way when it ends.   *)
Margin ==
  /\ Lifetime + 2 * Latency < timeout
  /\ \A e \in Extensions : e.lifetime + 2 * Latency < e.timeout

(* If the margin is kept no two workers hold the same job: "should be      *)
(* several minutes less than timeout to prevent race conditions" (Task).   *)
MutualExclusion ==
  Margin => \A v, w \in Workers :
              Holds(v) /\ Holds(w) /\ workers[v].job = workers[w].job => v = w

(* If the margin is kept every write of a worker (Extend, Update, Complete,*)
(* Fail, Cancel) finds its own attempt: the filter on the state is enough  *)
(* to keep a worker from writing over the attempt of another.              *)
OwnWrites ==
  Margin => \A w \in Workers :
              workers[w].phase \in {"save", "finish"} => Owns(w)

(***************************************************************************)
(* Why the two hold: the lease of a worker, the rest of the wait of its    *)
(* job, outlasts its context by more than a call to the database, and a    *)
(* write that is on its way arrives before the lease ends.                 *)
(***************************************************************************)
LeaseOf(w) ==
  LET r == workers[w]
  IN  /\ r.phase \notin {"idle", "notify"} => Doc(w).state # "none"
      /\ r.phase \in Executing => r.attempt <= Doc(w).attempts
      /\ r.phase \in {"run", "save"} =>
           /\ r.ran + r.ctx >= r.lifetime
           /\ Live(w) => Owns(w) /\ Doc(w).wait > r.ctx + Latency
      /\ r.phase \in {"save", "finish"} =>
           Owns(w) /\ Doc(w).wait + r.call > Latency

Apart(v, w) ==
  /\ workers[v].phase \in Executing
  /\ workers[w].phase \in Executing
  /\ workers[v].job = workers[w].job
  /\ v # w
  => workers[v].attempt # workers[w].attempt

LeaseInv ==
  Margin => /\ \A w \in Workers : LeaseOf(w)
            /\ \A v, w \in Workers : Apart(v, w)

(* What holds of the workers and the jobs they lease, with the types.      *)
JobInv == TypeOK /\ LeaseInv

(* Whatever the margin: the notifier has run at most once for a job, and   *)
(* only if the job is completed or cancelled, and no second worker is about*)
(* to run it, though several may have executed the job.                    *)
NotifiedOnce ==
  \A j \in Jobs :
    LET notifying == {w \in Workers : In(w, "notify") /\ workers[w].job = j}
    IN  /\ notified[j] > 0 => jobs[j].state \in Final
        /\ notifying # {} => jobs[j].state \in Final /\ notified[j] = 0
        /\ notified[j] <= 1
        /\ \A v, w \in notifying : v = w

(* Under the margin the queue hands out every job exclusively; without it  *)
(* nothing is said.                                                        *)
Lease == INSTANCE Exclusive WITH
  Items <- Jobs,
  Holders <- Workers,
  status <- [j \in Jobs |->
               IF ~Margin \/ jobs[j].state = "none" THEN "new"
               ELSE IF jobs[j].state \in Pending THEN "open" ELSE "closed"],
  holders <- [j \in Jobs |->
                {w \in Workers : Margin /\ Holds(w) /\ workers[w].job = j}]

ImplementsExclusive == Lease!Spec

(* Every enqueued job is completed or cancelled in the end, though workers *)
(* crash and overrun: a dequeued job is dequeued again.                    *)
EveryJobFinishes ==
  \A j \in Jobs : jobs[j].state \in Pending ~> jobs[j].state \in Final

=============================================================================
