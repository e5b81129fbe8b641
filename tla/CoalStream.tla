----------------------------- MODULE CoalStream -----------------------------
(***************************************************************************)
(* A change stream of coal and the reconciliation of a collection with it: *)
(* coal/stream.go and coal/reconcile.go.                                   *)
(*                                                                         *)
(* Writers change a collection; the database keeps a log of the changes.   *)
(* A stream watches the log, from a token or, without a token, from the    *)
(* present.  Reconcile loads the collection when the stream has been opened*)
(* and then forwards the events.  The user of Reconcile, here a mirror,    *)
(* keeps what created, updated and deleted tell it: the board of an axe    *)
(* queue is such a mirror.                                                 *)
(*                                                                         *)
(* A version stands for the content of a document: the index of the change *)
(* that wrote it.  The event of an update carries the document as it is    *)
(* when the event is delivered ("UpdateLookup"), that of an insert carries *)
(* the document that was inserted.                                         *)
(***************************************************************************)
EXTENDS Naturals, Sequences

CONSTANTS
  Docs,        \* the documents
  Ops,         \* the changes the writers make
  Faults,      \* what may fail, see FaultKinds
  MaxChanges,  \* bound: the number of changes
  MaxFaults    \* bound: the number of failures

(***************************************************************************)
(* "watch": a change stream cannot be opened.  "load": the collection      *)
(* cannot be read.  "stream": the change stream breaks, an event cannot be *)
(* decoded or the receiver refuses it.  "first": the same, before the first*)
(* event has been received.                                                *)
(***************************************************************************)
FaultKinds == {"watch", "load", "stream", "first"}

ASSUME StreamAssumption ==
  /\ Ops \subseteq {"insert", "update", "lock", "delete"}
  /\ Faults \subseteq FaultKinds
  /\ MaxChanges \in Nat /\ MaxFaults \in Nat

VARIABLES
  store,   \* store[d]: the version of d in the collection, 0 if it is missing
  log,     \* the changes of the collection
  stage,   \* what the stream is doing
  opened,  \* Stream.opened: the receiver has accepted the opened event
  token,   \* Stream.token: the last event received, 0 for none
  cursor,  \* the last change the change stream has returned
  toLoad,  \* the documents the cursor of load has not passed
  mirror,  \* mirror[d]: the version of d the user of Reconcile has seen
  stale,   \* history: what the mirror has from a load that has failed
  faults   \* the number of failures so far

streamVars ==
  <<store, log, stage, opened, token, cursor, toLoad, mirror, stale, faults>>

writers == <<store, log>>

stream == <<stage, opened, token, cursor, toLoad, mirror, stale, faults>>

Changes == [doc : Docs, op : {"insert", "update", "lock", "delete"},
            version : Nat]

StreamTypeOK ==
  /\ store \in [Docs -> Nat]
  /\ log \in Seq(Changes)
  /\ stage \in {"watch", "load", "tail", "stopped"}
  /\ opened \in BOOLEAN
  /\ token \in 0..Len(log)
  /\ cursor \in 0..Len(log)
  /\ toLoad \subseteq Docs
  /\ mirror \in [Docs -> Nat]
  /\ stale \subseteq Docs
  /\ faults \in 0..MaxFaults

StreamInit ==
  /\ store = [d \in Docs |-> 0]
  /\ log = <<>>
  /\ stage = "watch"
  /\ opened = FALSE
  /\ token = 0
  /\ cursor = 0
  /\ toLoad = {}
  /\ mirror = [d \in Docs |-> 0]
  /\ stale = {}
  /\ faults = 0

-----------------------------------------------------------------------------

(* A lock changes the field "_lk" of the document and nothing else.        *)
Written(d, op) ==
  CASE op = "delete" -> 0
    [] op = "lock"   -> store[d]
    [] OTHER         -> Len(log) + 1

Write(d, op) ==
  /\ Len(log) < MaxChanges
  /\ (op = "insert") = (store[d] = 0)
  /\ store' = [store EXCEPT ![d] = Written(d, op)]
  /\ log' = Append(log, [doc |-> d, op |-> op, version |-> Written(d, op)])
  /\ UNCHANGED stream

-----------------------------------------------------------------------------

(* Mutated: the stream is resumed at its end.                              *)
WatchedFromNow == Len(log)

(* Without a token a change stream starts at the present.                  *)
WatchedFrom == IF token = 0 THEN Len(log) ELSE token

(* tail: the change stream is opened.                                      *)
Watch ==
  /\ stage = "watch"
  /\ cursor' = WatchedFrom
  /\ IF opened
     THEN stage' = "tail" /\ UNCHANGED toLoad
     ELSE stage' = "load" /\ toLoad' = Docs
  /\ UNCHANGED <<writers, opened, token, mirror, stale, faults>>

(***************************************************************************)
(* load: the cursor comes by every document at some time and returns it as *)
(* it is then, if it exists.                                               *)
(***************************************************************************)
LoadDoc(d) ==
  /\ stage = "load"
  /\ d \in toLoad
  /\ toLoad' = toLoad \ {d}
  /\ mirror' = [mirror EXCEPT ![d] = IF store[d] = 0 THEN @ ELSE store[d]]
  /\ stale' = IF store[d] = 0 THEN stale ELSE stale \ {d}
  /\ UNCHANGED <<writers, stage, opened, token, cursor, faults>>

Loaded ==
  /\ stage = "load"
  /\ toLoad = {}
  /\ stage' = "tail"
  /\ opened' = TRUE
  /\ UNCHANGED <<writers, token, cursor, toLoad, mirror, stale, faults>>

(* Mutated: every update that writes a single field is taken for a lock.   *)
SkippedSingle(e) == e.op \in {"lock", "update"}

(* "continue if document hast just been locked or is unavailable due to a  *)
(* following a delete or drop event"                                       *)
Skipped(e) ==
  \/ e.op = "lock"
  \/ e.op = "update" /\ store[e.doc] = 0

(* Mutated: a deleted document is kept.                                    *)
YieldedKept(e) ==
  CASE e.op = "insert" -> e.version
    [] e.op = "update" -> store[e.doc]
    [] e.op = "delete" -> mirror[e.doc]

(* What the user of Reconcile learns from an event.                        *)
Yielded(e) ==
  CASE e.op = "insert" -> e.version
    [] e.op = "update" -> store[e.doc]
    [] e.op = "delete" -> 0

Receive ==
  /\ stage = "tail"
  /\ cursor < Len(log)
  /\ LET e == log[cursor + 1]
     IN  /\ mirror' = IF Skipped(e) THEN mirror
                      ELSE [mirror EXCEPT ![e.doc] = Yielded(e)]
         /\ stale' = IF Skipped(e) THEN stale ELSE stale \ {e.doc}
  /\ cursor' = cursor + 1
  /\ token' = cursor + 1
  /\ UNCHANGED <<writers, stage, opened, toLoad, faults>>

(* The error is reported with an errored event and the stream is opened    *)
(* anew.                                                                   *)
Fail(kind) ==
  /\ kind \in Faults
  /\ faults < MaxFaults
  /\ faults' = faults + 1
  /\ stage' = "watch"
  /\ UNCHANGED <<writers, opened, token, cursor, toLoad, mirror>>

WatchFails ==
  /\ stage = "watch"
  /\ Fail("watch")
  /\ UNCHANGED stale

(* What the load has yielded so far is not taken back.                     *)
LoadFails ==
  /\ stage = "load"
  /\ Fail("load")
  /\ stale' = {d \in Docs : mirror[d] # 0}

TailFails ==
  /\ stage = "tail"
  /\ UNCHANGED stale
  /\ IF token = 0 THEN Fail("first") ELSE Fail("stream")

(* Close waits for a load that is under way.                               *)
Close ==
  /\ stage \in {"watch", "tail"}
  /\ stage' = "stopped"
  /\ UNCHANGED <<writers, opened, token, cursor, toLoad, mirror, stale,
                 faults>>

-----------------------------------------------------------------------------

StreamNext ==
  \/ \E d \in Docs, op \in Ops : Write(d, op)
  \/ Watch \/ (\E d \in Docs : LoadDoc(d)) \/ Loaded \/ Receive
  \/ WatchFails \/ LoadFails \/ TailFails
  \/ Close

StreamSpec == StreamInit /\ [][StreamNext]_streamVars

(* The goroutine of the stream runs, and the database answers it.          *)
StreamFairness ==
  /\ WF_streamVars(Watch)
  /\ WF_streamVars(\E d \in Docs : LoadDoc(d))
  /\ WF_streamVars(Loaded)
  /\ WF_streamVars(Receive)

StreamFairSpec == StreamSpec /\ StreamFairness

-----------------------------------------------------------------------------

(* A change of d that the mirror has to learn of comes after position n.   *)
Announced(d, n) ==
  \E i \in (n + 1)..Len(log) : log[i].doc = d /\ log[i].op # "lock"

(* The mirror shows d as it is, or as a load that failed had found it when *)
(* d has been deleted before the next load, which yields what exists.      *)
Follows(d) == mirror[d] = store[d] \/ (d \in stale /\ store[d] = 0)

(* Reconcile "will yield all changes to the collection": whatever differs  *)
(* between the mirror and the collection is still to be received.          *)
NothingMissed ==
  stage = "tail" => \A d \in Docs : Follows(d) \/ Announced(d, cursor)

(* Once all events have been received the mirror is the collection.        *)
CaughtUp == stage = "tail" /\ cursor = Len(log) => \A d \in Docs : Follows(d)

(* The log tells the last version of every document.                       *)
LogCurrent ==
  \A i \in 1..Len(log) :
    LET e == log[i]
    IN  /\ e.op \in {"insert", "update"} => e.version > 0
        /\ e.op = "delete" => e.version = 0
        /\ e.op # "lock" /\ store[e.doc] # e.version => Announced(e.doc, i)

(***************************************************************************)
(* Why nothing is missed: a document the load has come by is up to date or *)
(* announced after the cursor, and a stream that is to be resumed has a    *)
(* token that is not behind what the mirror has seen.                      *)
(***************************************************************************)
StreamInv ==
  /\ LogCurrent
  /\ stage = "watch" /\ ~opened =>
       /\ token = 0
       /\ \A d \in Docs \ stale : mirror[d] = 0
  /\ stage = "watch" /\ opened =>
       /\ token > 0
       /\ \A d \in Docs : Follows(d) \/ Announced(d, token)
  /\ stage = "load" =>
       /\ ~opened /\ token = 0
       /\ \A d \in toLoad \ stale : mirror[d] = 0
       /\ \A d \in Docs \ toLoad : Follows(d) \/ Announced(d, cursor)
  /\ stage = "tail" => opened /\ token \in {0, cursor}
  /\ NothingMissed

TailInv == StreamTypeOK /\ StreamInv

(* The mirror follows the collection unless the stream is closed: once the *)
(* writers rest it shows the collection for good.                          *)
MirrorFollows == <>[](stage = "stopped" \/ \A d \in Docs : Follows(d))

=============================================================================
