------------------------------ MODULE CoalStore ------------------------------
(***************************************************************************)
(* coal's transactions (store.go): T and RT run a function with a session  *)
(* of the database, on which the operations of CoalManager work, and RT    *)
(* runs it again after a transient error and commits again when the result *)
(* of a commit is unknown.  Other operations run outside of a transaction. *)
(*                                                                         *)
(* The database is external: a session reads the snapshot taken when it    *)
(* starts and its own writes; a write to a document that another session   *)
(* holds, or that has been committed since, fails with a transient error   *)
(* and aborts the session, and so does any other error of the database; a  *)
(* write that leaves a document as it is holds nothing.                    *)
(***************************************************************************)
EXTENDS CoalManager, FiniteSetsExt

CONSTANTS Procs,        \* the callers
          Filters,      \* the filters they use
          Initial,      \* the documents there are at first
          MaxAttempts,  \* the largest maxAttempts of a call; T makes one
          MaxOps,       \* bound: operations of the functions that are running
          MaxCalls      \* bound: calls, and operations outside of transactions

VARIABLES store,     \* what is committed of every document
          pc,        \* idle, open, commit, ok or error: the call of a process
          ctx,       \* what the context of its function carries
          left,      \* the attempts it has left
          snap,      \* the snapshot of its session
          local,     \* the documents as the session sees them
          written,   \* the documents the session has changed
          stale,     \* those others have committed since the snapshot
          dead,      \* whether the database has aborted the session
          landed,    \* whether a commit with an unknown result took effect
          locked,    \* the documents the manager has locked for the caller
          models,    \* the models its last read returned: document, lock counter
          ops, calls     \* the counters of the bounds

session == <<snap, local, written, stale, dead, landed, locked, models>>

vars == <<store, pc, ctx, left, session, ops, calls>>

Open(p) == pc[p] \in {"open", "commit"}

\* The documents other processes hold: a session of a transaction that has
\* committed holds nothing.
Held(p) == UNION {written[q] : q \in {q \in Procs \ {p} : Open(q) /\ ~dead[q] /\ ~landed[q]}}

TypeOK ==
  /\ store \in Views
  /\ pc \in [Procs -> {"idle", "open", "commit", "ok", "error"}]
  /\ ctx \in [Procs -> Contexts]
  /\ left \in [Procs -> Nat]
  /\ snap \in [Procs -> Views] /\ local \in [Procs -> Views]
  /\ written \in [Procs -> SUBSET Docs] /\ stale \in [Procs -> SUBSET Docs]
  /\ dead \in [Procs -> BOOLEAN] /\ landed \in [Procs -> BOOLEAN]
  /\ locked \in [Procs -> SUBSET Docs]
  /\ models \in [Procs -> SUBSET (Docs \X Nat)]
  /\ ops \in [Procs -> Nat] /\ calls \in Nat

Init ==
  /\ store \in [Docs -> {Missing} \cup [val : Values \ Invalid, lk : {0}]]
  /\ Present(store) = Initial
  /\ pc = [p \in Procs |-> "idle"]
  /\ ctx = [p \in Procs |-> "none"]
  /\ left = [p \in Procs |-> 0]
  /\ snap = [p \in Procs |-> [d \in Docs |-> Missing]] /\ local = snap
  /\ written = [p \in Procs |-> {}] /\ stale = written /\ locked = written
  /\ dead = [p \in Procs |-> FALSE] /\ landed = dead
  /\ models = [p \in Procs |-> {}]
  /\ ops = [p \in Procs |-> 0] /\ calls = 0

-----------------------------------------------------------------------------
NoSession == [d \in Docs |-> Missing]

\* What the caller and the database keep of a session that has ended.
Ended(p, aborted) ==
  /\ snap' = [snap EXCEPT ![p] = NoSession]
  /\ local' = [local EXCEPT ![p] = NoSession]
  /\ written' = [written EXCEPT ![p] = {}]
  /\ dead' = [dead EXCEPT ![p] = aborted]
  /\ landed' = [landed EXCEPT ![p] = FALSE]
  /\ locked' = [locked EXCEPT ![p] = {}]
  /\ models' = [models EXCEPT ![p] = {}]

\* A session of p on the documents as they are now.
StartTransaction(p) ==
  /\ snap' = [snap EXCEPT ![p] = store]
  /\ local' = [local EXCEPT ![p] = store]
  /\ written' = [written EXCEPT ![p] = {}]
  /\ stale' = [stale EXCEPT ![p] = {}]
  /\ dead' = [dead EXCEPT ![p] = FALSE]
  /\ landed' = [landed EXCEPT ![p] = FALSE]
  /\ locked' = [locked EXCEPT ![p] = {}]
  /\ models' = [models EXCEPT ![p] = {}]
  /\ ops' = [ops EXCEPT ![p] = 0]

Start(p, max, readOnly) ==
  /\ pc[p] \in {"idle", "ok", "error"} /\ calls < MaxCalls
  /\ calls' = calls + 1
  /\ pc' = [pc EXCEPT ![p] = "open"]
  /\ ctx' = [ctx EXCEPT ![p] = IF readOnly THEN "read" ELSE "write"]
  /\ left' = [left EXCEPT ![p] = max - 1]
  /\ StartTransaction(p)
  /\ UNCHANGED store

\* A transaction in a transaction is the outer one: its function runs in the
\* session and the context there is, so T is no step of its own.
T(p) == \E readOnly \in BOOLEAN : Start(p, 1, readOnly)

RT(p) == \E max \in 1..MaxAttempts : Start(p, max, FALSE)

-----------------------------------------------------------------------------
\* The operations that read models, those that read something else of the
\* documents, and those that write, with the outcomes on a view.
Reads(view, c, lock) ==
  UNION ({Find(view, c, id, lock) : id \in Docs} \cup
         UNION {{FindFirst(view, c, f, 0, lock), FindAll(view, c, f, 0, 0, lock, TRUE),
                 Decode(FindEach(view, c, f, 0, 0, lock, FALSE))} : f \in Filters})

Projections(view, c, lock) ==
  UNION ({Project(view, c, id, lock) : id \in Docs} \cup
         UNION {{ProjectFirst(view, c, f, 0, lock), ProjectAll(view, c, f, 0, 0, lock, FALSE),
                 ProjectEach(view, c, f, 1, 1, lock, TRUE), Count(view, c, f, 0, 0, lock, TRUE),
                 Distinct(view, c, f, lock, FALSE)} : f \in Filters})

Updates(view, c, lock) ==
  UNION ((UNION {{Update(view, c, id, v, lock, TRUE) : id \in Docs} : v \in Values}) \cup
         (UNION {{UpdateFirst(view, c, f, v, lock, TRUE), UpdateAll(view, c, f, v, lock),
                  Upsert(view, c, f, v, lock, FALSE)} : f \in Filters, v \in Values}))

\* A replacement is a model that was read, with a value of its own.
Replaces(view, c, hands, lock) ==
  UNION UNION {LET model == [val |-> v, lk |-> m[2]]
               IN {Replace(view, c, m[1], model, lock, TRUE)} \cup
                  {ReplaceFirst(view, c, m[1], f, model, lock, TRUE) : f \in Filters} :
                 m \in hands, v \in Values}

Inserts(view, c, lock) ==
  UNION UNION {LET model == [val |-> v, lk |-> 0]
               IN {Insert(view, c, id, model, TRUE), InsertAll(view, c, Docs, model, TRUE)} \cup
                  {InsertIfMissing(view, c, f, id, model, lock, TRUE) : f \in Filters} :
                 id \in Docs, v \in Values}

Deletes(view, c) ==
  UNION ({Delete(view, c, id) : id \in Docs} \cup
         UNION {{DeleteAll(view, c, f), DeleteFirst(view, c, f)} : f \in Filters})

\* The documents an operation has changed, as the database sees it.
Wrote(old, new) == {d \in Docs : old[d] # new[d]}

\* The models a read has put into its caller's hands.
Read(o) == {<<d, o.view[d].lk>> : d \in o.docs \cap Present(o.view)}

Operations(view, c, hands, lock) ==
  [reads   |-> Reads(view, c, lock),
   others  |-> Projections(view, c, lock) \cup Updates(view, c, lock)
                 \cup Replaces(view, c, hands, lock) \cup Inserts(view, c, lock),
   deletes |-> Deletes(view, c)]

-----------------------------------------------------------------------------
(***************************************************************************)
(* The function of a transaction.  It does what its caller wrote, with the *)
(* errors of the operations too: any operations, then any answer.          *)
(***************************************************************************)
Perform(p, o, lock, read) ==
  LET wrote == Wrote(local[p], o.view)
      conflict == wrote \cap (Held(p) \cup stale[p]) # {}
  IN /\ IF conflict \/ o.err = "failed"
          THEN Ended(p, TRUE)
          ELSE /\ local' = [local EXCEPT ![p] = o.view]
               /\ written' = [written EXCEPT ![p] = @ \cup wrote]
               /\ locked' = [locked EXCEPT ![p] = IF lock THEN @ \cup o.docs ELSE @]
               /\ models' = [models EXCEPT ![p] = IF read THEN Read(o) ELSE @]
               /\ UNCHANGED <<snap, dead, landed>>
     /\ UNCHANGED stale

Room == MapThenSumSet(LAMBDA q : ops[q], Procs) < MaxOps

Operate(p) ==
  /\ pc[p] = "open" /\ ~dead[p] /\ Room
  /\ ops' = [ops EXCEPT ![p] = @ + 1]
  /\ \E lock \in BOOLEAN :
       LET all == Operations(local[p], ctx[p], models[p], lock)
       IN \/ \E o \in all.reads : Perform(p, o, lock, TRUE)
          \/ \E o \in all.others : Perform(p, o, lock, FALSE)
          \/ \E o \in all.deletes : Perform(p, o, FALSE, FALSE)
  /\ UNCHANGED <<store, pc, ctx, left, calls>>

(* Mutated: an attempt is not counted.                                     *)
NotAttempted(n) == n

\* The attempts a call has left after another one.
Attempted(n) == n - 1

\* The next attempt, in the same session and with a new snapshot.
Again(p) ==
  /\ left[p] > 0
  /\ left' = [left EXCEPT ![p] = Attempted(@)]
  /\ pc' = [pc EXCEPT ![p] = "open"]
  /\ StartTransaction(p)

Answer(p, result) ==
  /\ pc' = [pc EXCEPT ![p] = result]
  /\ ctx' = [ctx EXCEPT ![p] = "none"]
  /\ left' = [left EXCEPT ![p] = 0]
  /\ ops' = [ops EXCEPT ![p] = 0]
  /\ Ended(p, FALSE)

\* The function returns an error, and the transaction is aborted.  After a
\* transient error it runs again, unless its context has been cancelled: the
\* error of a conflict, or of a session the database has given up, which ends
\* when the function learns of it.
Fail(p) ==
  /\ pc[p] = "open"
  /\ \/ Again(p) /\ UNCHANGED ctx
     \/ Answer(p, "error") /\ stale' = [stale EXCEPT ![p] = {}]
  /\ UNCHANGED <<store, calls>>

\* It returns none: a read only transaction is aborted all the same.
Finish(p) ==
  /\ pc[p] = "open"
  /\ stale' = [stale EXCEPT ![p] = {}]
  /\ \/ ctx[p] = "read" /\ Answer(p, "ok")
     \/ /\ ctx[p] # "read" /\ pc' = [pc EXCEPT ![p] = "commit"]
        /\ UNCHANGED <<ctx, left, snap, local, written, dead, landed, locked, models, ops>>
  /\ UNCHANGED <<store, calls>>

\* The writes of a session become visible, once.
Land(p) ==
  IF landed[p] THEN UNCHANGED <<store, stale>>
  ELSE /\ store' = [d \in Docs |-> IF d \in written[p] THEN local[p][d] ELSE store[d]]
       /\ stale' = [q \in Procs |-> IF pc[q] = "open" /\ q # p THEN stale[q] \cup written[p] ELSE {}]

Commit(p) ==
  /\ pc[p] = "commit" /\ ~dead[p]
  /\ Land(p)
  /\ Answer(p, "ok")
  /\ UNCHANGED calls

(* Mutated: the function runs again when the result of a commit is unknown. *)
CommitUnknownRerun(p) ==
  /\ pc[p] = "commit"
  /\ \/ Again(p) /\ store' = [d \in Docs |-> IF d \in written[p] THEN local[p][d] ELSE store[d]]
                  /\ UNCHANGED ctx
     \/ Answer(p, "error") /\ UNCHANGED <<store, stale>>
  /\ UNCHANGED calls

\* The result of a commit is unknown: it took effect or not.  The session
\* commits again while there are attempts; a label that says less, or a
\* cancelled context, ends the call with the error.
CommitUnknown(p) ==
  /\ pc[p] = "commit"
  /\ \/ /\ left[p] > 0 /\ left' = [left EXCEPT ![p] = Attempted(@)]
        /\ \/ UNCHANGED <<store, stale, landed>>
           \/ ~dead[p] /\ Land(p) /\ landed' = [landed EXCEPT ![p] = TRUE]
        /\ UNCHANGED <<pc, ctx, snap, local, written, dead, locked, models, ops>>
     \/ /\ Answer(p, "error")
        /\ \/ UNCHANGED <<store, stale>>
           \/ ~dead[p] /\ Land(p)
  /\ UNCHANGED calls

\* The session has been aborted, by an error the function has ignored or by
\* the database: the function runs again.
CommitTransient(p) ==
  /\ pc[p] = "commit" /\ ~landed[p]
  /\ \/ Again(p) /\ UNCHANGED ctx
     \/ Answer(p, "error") /\ stale' = [stale EXCEPT ![p] = {}]
  /\ UNCHANGED <<store, calls>>

-----------------------------------------------------------------------------
\* An operation outside of a transaction: it waits for the sessions that hold
\* what it writes, and is committed at once.  A model it replaces was read
\* just before.
Outside(p) ==
  /\ ~Open(p) /\ calls < MaxCalls
  /\ calls' = calls + 1
  /\ \E lock \in BOOLEAN :
       LET hands == {<<d, store[d].lk>> : d \in Present(store)}
           all == Operations(store, "none", hands, lock)
       IN \E o \in all.reads \cup all.others \cup all.deletes :
            /\ Wrote(store, o.view) \cap Held(p) = {}
            /\ store' = o.view
            /\ stale' = [q \in Procs |-> IF pc[q] = "open" THEN stale[q] \cup Wrote(store, o.view)
                                         ELSE {}]
  /\ UNCHANGED <<pc, ctx, left, snap, local, written, dead, landed, locked, models, ops>>

\* The function of a transaction returns and the database answers, if not with
\* certainty.
Return(p) == Fail(p) \/ Finish(p) \/ Commit(p) \/ CommitUnknown(p) \/ CommitTransient(p)

Next == \E p \in Procs : T(p) \/ RT(p) \/ Operate(p) \/ Return(p) \/ Outside(p)

Spec == Init /\ [][Next]_vars

FairSpec == Spec /\ \A p \in Procs : WF_vars(Return(p))

-----------------------------------------------------------------------------
\* A document a transaction has locked is, until the transaction commits, what
\* it was in its snapshot, and no other transaction has it locked: what a
\* caller has read under a lock is what it replaces.  The lock holds because
\* the manager makes it a write even when nothing else of the document changes.
LockHolds ==
  \A p \in Procs : Open(p) /\ ~dead[p] /\ ~landed[p] =>
    \A d \in locked[p] : store[d] = snap[p][d] /\ d \notin Held(p)

StoreInv == TypeOK /\ LockHolds

\* A call's changes are applied at once and at most once, whatever was retried.
Atomic ==
  INSTANCE AtomicStore WITH
    Contents <- Doc \cup {Missing},
    call <- [p \in Procs |-> IF ~Open(p) THEN pc[p]
                             ELSE IF landed[p] THEN "applied" ELSE "running"],
    wants <- [p \in Procs |-> IF Open(p) /\ ~landed[p]
                                THEN [d \in written[p] |-> local[p][d]]
                                ELSE [d \in {} |-> {}]]

ImplementsAtomic == Atomic!Spec

\* Every call of T and RT returns, however often the database answers that the
\* session was aborted or that it does not know.
EveryCallReturns == \A p \in Procs : Open(p) ~> ~Open(p)
=============================================================================
