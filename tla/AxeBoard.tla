------------------------------ MODULE AxeBoard ------------------------------
(***************************************************************************)
(* The board of an axe queue, through which the workers of one process     *)
(* learn of the jobs: axe/queue.go.                                        *)
(*                                                                         *)
(* The board is kept up to date by Reconcile.  Of CoalStream it needs that *)
(* every change is received in the end, while the stream lags behind; an   *)
(* event carries the document as it is when the event is received, and of  *)
(* a document that is gone there is no event.  The workers take due jobs   *)
(* off the board and try to dequeue them, in competition with the workers  *)
(* of other processes, which may die while they execute.  Dequeue is that  *)
(* of AxeStore.                                                            *)
(***************************************************************************)
EXTENDS AxeStore

CONSTANTS
  Jobs,         \* the identifiers of the jobs
  Workers,      \* the workers of the process
  NoJob,        \* what an idle worker works on
  Timeout,      \* Task.Timeout
  MaxLag,       \* Options.MaxLag: lags are 0..(MaxLag - 1)
  BlockPeriod,  \* Options.BlockPeriod
  Removal,      \* whether finished jobs are removed before the stream knows
  Floor,        \* bound: how far in the past times are told apart
  MaxTries,     \* bound: the number of times others dequeue a job
  MaxRestarts   \* bound: the number of times the process is restarted

ASSUME BoardAssumption ==
  /\ Timeout \in Nat /\ MaxLag \in Nat \ {0} /\ BlockPeriod \in Nat
  /\ Floor \in Nat /\ MaxTries \in Nat /\ MaxRestarts \in Nat
  /\ Removal \in BOOLEAN
  /\ NoJob \notin Jobs

VARIABLES
  docs,      \* the collection: a document of AxeStore per job
  removed,   \* the jobs whose documents have expired
  unseen,    \* the jobs with changes the stream has not delivered
  board,     \* board.jobs: the time until a job is available, per known job
  workers,   \* the job a worker has taken off the board and its phase
  restarts   \* the number of times the process has been restarted

boardVars == <<docs, removed, unseen, board, workers, restarts>>

Idle == [phase |-> "idle", job |-> NoJob]

BoardTypeOK ==
  /\ docs \in [Jobs -> [state : States, wait : Int, attempts : Nat,
                        data : {0}]]
  /\ removed \subseteq Jobs
  /\ unseen \subseteq Jobs
  /\ DOMAIN board \subseteq Jobs
  /\ \A j \in DOMAIN board :
       board[j] \in (-Floor)..(Timeout + MaxLag + BlockPeriod)
  /\ workers \in [Workers -> [phase : {"idle", "dequeue", "execute"},
                              job : Jobs \cup {NoJob}]]
  /\ restarts \in 0..MaxRestarts

(* The board of a queue that starts.                                       *)
NoJobs == [j \in {} |-> 0]

BoardInit ==
  /\ docs = [j \in Jobs |-> Absent]
  /\ removed = {}
  /\ unseen = {}
  /\ board = NoJobs
  /\ workers = [w \in Workers |-> Idle]
  /\ restarts = 0

(* A change of a document, which the stream will deliver.                  *)
Changes(j, doc) ==
  /\ docs' = [docs EXCEPT ![j] = doc]
  /\ unseen' = unseen \cup {j}

-----------------------------------------------------------------------------

(* The rest of the world: other processes enqueue jobs, dequeue them and   *)
(* may or may not finish them.                                             *)
Enqueue(j) ==
  /\ docs[j].state = "none"
  /\ Changes(j, EnqueuedDoc(0))
  /\ UNCHANGED <<removed, board, workers, restarts>>

DequeueElsewhere(j) ==
  /\ Dequeuable(docs[j], 0)
  /\ docs[j].attempts < MaxTries
  /\ Changes(j, DequeuedDoc(docs[j], Timeout, 0))
  /\ UNCHANGED <<removed, board, workers, restarts>>

FinishElsewhere(j) ==
  /\ Writable(docs[j])
  /\ \A w \in Workers : workers[w] # [phase |-> "execute", job |-> j]
  /\ \/ Changes(j, [CompletedDoc(docs[j], 0) EXCEPT !.data = 0])
     \/ Changes(j, FailedDoc(docs[j], 0, 0))
  /\ UNCHANGED <<removed, board, workers, restarts>>

(* The index on Finished; a minute is longer than the stream takes unless  *)
(* it is interrupted.                                                      *)
Remove(j) ==
  /\ docs[j].state \in Final
  /\ j \notin removed
  /\ Removal \/ j \notin unseen
  /\ removed' = removed \cup {j}
  /\ UNCHANGED <<docs, unseen, board, workers, restarts>>

-----------------------------------------------------------------------------

(* Mutated: a job that is being executed is taken off the board.           *)
KnownUnlessDequeued(job) == job.state \in {"enqueued", "failed"}

(* The states of the jobs that update keeps on the board.                  *)
Known(job) == job.state \in Pending

(***************************************************************************)
(* update: the stream delivers a change, and the lag is added that keeps   *)
(* processes apart.  There is no callback for a document that is gone.     *)
(***************************************************************************)
Deliver(j) ==
  /\ j \in unseen
  /\ unseen' = unseen \ {j}
  /\ IF j \in removed
     THEN UNCHANGED board
     ELSE IF Known(docs[j])
     THEN \E lag \in 0..(MaxLag - 1) :
            board' = [i \in DOMAIN board \cup {j} |->
                        IF i = j THEN docs[j].wait + lag ELSE board[i]]
     ELSE board' = [i \in DOMAIN board \ {j} |-> board[i]]
  /\ UNCHANGED <<docs, removed, workers, restarts>>

(* "block job until the specified timeout has been reached"                *)
Blocked(wait) == wait + BlockPeriod

(* get: a worker takes a due job off the board.                            *)
Get(w, j) ==
  /\ workers[w].phase = "idle"
  /\ j \in DOMAIN board
  /\ board[j] < 0
  /\ board' = [board EXCEPT ![j] = Blocked(@)]
  /\ workers' = [workers EXCEPT ![w] = [phase |-> "dequeue", job |-> j]]
  /\ UNCHANGED <<docs, removed, unseen, restarts>>

(* execute: the filter matches a due document or none.                     *)
Dequeue(w) ==
  LET j == workers[w].job
  IN  /\ workers[w].phase = "dequeue"
      /\ IF Dequeuable(docs[j], 0) /\ j \notin removed
         THEN /\ Changes(j, DequeuedDoc(docs[j], Timeout, 0))
              /\ workers' = [workers EXCEPT ![w].phase = "execute"]
         ELSE /\ workers' = [workers EXCEPT ![w] = Idle]
              /\ UNCHANGED <<docs, unseen>>
      /\ UNCHANGED <<removed, board, restarts>>

(* The call to Dequeue fails, and the job waits for the block to end.      *)
DequeueFails(w) ==
  /\ workers[w].phase = "dequeue"
  /\ workers' = [workers EXCEPT ![w] = Idle]
  /\ UNCHANGED <<docs, removed, unseen, board, restarts>>

(* A worker completes its job in time.                                     *)
Complete(w) ==
  LET j == workers[w].job
  IN  /\ workers[w].phase = "execute"
      /\ Changes(j, [CompletedDoc(docs[j], 0) EXCEPT !.data = 0])
      /\ workers' = [workers EXCEPT ![w] = Idle]
      /\ UNCHANGED <<removed, board, restarts>>

Later(n) == IF n > -Floor THEN n - 1 ELSE n

(* Time passes; a worker that executes a job completes it before the       *)
(* timeout, as AxeJobs shows of those that keep the margin.                *)
BoardTick ==
  /\ \A w \in Workers :
       workers[w].phase = "execute" => docs[workers[w].job].wait > 1
  /\ docs' = [j \in Jobs |-> [docs[j] EXCEPT !.wait = Later(@)]]
  /\ board' = [j \in DOMAIN board |-> Later(board[j])]
  /\ UNCHANGED <<removed, unseen, workers, restarts>>

-----------------------------------------------------------------------------

(* Run: a process that is restarted has an empty board, which Reconcile    *)
(* fills with what it finds in the collection.  Executions are abandoned.  *)
Restart ==
  /\ restarts < MaxRestarts
  /\ restarts' = restarts + 1
  /\ board' = NoJobs
  /\ unseen' = {j \in Jobs : docs[j].state # "none"} \ removed
  /\ workers' = [w \in Workers |-> Idle]
  /\ UNCHANGED <<docs, removed>>

Elsewhere(j) ==
  Enqueue(j) \/ DequeueElsewhere(j) \/ FinishElsewhere(j) \/ Remove(j)

WorkerStep(w) ==
  \/ \E j \in Jobs : Get(w, j)
  \/ Dequeue(w) \/ DequeueFails(w) \/ Complete(w)

BoardNext ==
  \/ \E j \in Jobs : Elsewhere(j) \/ Deliver(j)
  \/ \E w \in Workers : WorkerStep(w)
  \/ BoardTick \/ Restart

BoardSpec == BoardInit /\ [][BoardNext]_boardVars

(***************************************************************************)
(* The stream delivers, time passes, and the workers of the process run;   *)
(* get iterates over a Go map in random order, so a job that is due again  *)
(* and again is taken.  Dequeue works if it is tried again and again.      *)
(* Nothing is assumed of other processes.                                  *)
(***************************************************************************)
Fairness ==
  /\ WF_boardVars(BoardTick)
  /\ \A j \in Jobs : /\ WF_boardVars(Deliver(j))
                     /\ SF_boardVars(\E w \in Workers : Get(w, j))
  /\ \A w \in Workers : /\ WF_boardVars(Dequeue(w) \/ DequeueFails(w))
                        /\ WF_boardVars(Complete(w))
                        /\ \A j \in Jobs :
                             SF_boardVars(workers[w].job = j /\ Dequeue(w))

FairSpec == BoardSpec /\ Fairness

-----------------------------------------------------------------------------

(* Once its changes are delivered a job is on the board if and only if it  *)
(* is to be executed, and not before it is available: no job is forgotten, *)
(* and none that is finished is tried again.  Deletions are not delivered, *)
(* so that a job that has vanished may stay on the board.                  *)
BoardCurrent ==
  \A j \in Jobs \ (unseen \cup removed) :
    /\ (j \in DOMAIN board) = (docs[j].state \in Pending)
    /\ j \in DOMAIN board => board[j] >= docs[j].wait

BoardInv == BoardTypeOK /\ BoardCurrent

(* A job that other processes have dequeued and abandoned is found again,  *)
(* and every job that is to be executed is finished in the end.            *)
EveryJobFound ==
  \A j \in Jobs : docs[j].state \in Pending ~> docs[j].state \in Final

=============================================================================
