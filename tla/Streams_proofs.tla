--------------------------- MODULE Streams_proofs ---------------------------
(***************************************************************************)
(* Proofs about the streams of coal and about those that follow them: what *)
(* Reconcile reports of a collection, the watchers that spark serves with  *)
(* the changes, and the reactor of torch that computes anew when inputs    *)
(* have changed.                                                           *)
(***************************************************************************)
EXTENDS CoalStream, SparkManager, TorchReactor, TLAPS

(***************************************************************************)
(* Streams: the user of Reconcile misses nothing as long as the stream does *)
(* not break before it has received an event.                              *)
(***************************************************************************)

(* A change that is appended to the log is a change.                       *)
LEMMA WriteTypes ==
  ASSUME StreamTypeOK, NEW d \in Docs, NEW op \in Ops, Write(d, op)
  PROVE  StreamTypeOK'
<1> USE StreamAssumption DEF StreamTypeOK, Write, stream
<1>1. Written(d, op) \in Nat
  BY DEF Written
<1>2. [doc |-> d, op |-> op, version |-> Written(d, op)] \in Changes
  BY <1>1 DEF Changes
<1>3. store' \in [Docs -> Nat]
  BY <1>1
<1>4. log' \in Seq(Changes) /\ Len(log') = Len(log) + 1
  BY <1>2
<1>5. QED
  BY <1>3, <1>4

(* What an event yields is a version.                                      *)
LEMMA ReceiveTypes ==
  ASSUME StreamTypeOK, Receive
  PROVE  StreamTypeOK'
<1> USE DEF StreamTypeOK, Receive, writers
<1> DEFINE e == log[cursor + 1]
<1>1. e \in Changes
  OBVIOUS
<1>2. Skipped(e) \/ Yielded(e) \in Nat
  BY <1>1 DEF Skipped, Yielded, Changes
<1>3. mirror' \in [Docs -> Nat]
  BY <1>1, <1>2 DEF Changes
<1>4. QED
  BY <1>3

(* Every step of the writers and of the stream keeps the types.            *)
LEMMA StreamTypeStep ==
  ASSUME StreamTypeOK, [StreamNext]_streamVars
  PROVE  StreamTypeOK'
<1> USE StreamAssumption DEF StreamTypeOK, writers
<1>1. ASSUME NEW d \in Docs, NEW op \in Ops, Write(d, op)
      PROVE  StreamTypeOK'
  BY <1>1, WriteTypes
<1>2. CASE Watch
  BY <1>2 DEF Watch, WatchedFrom
<1>3. ASSUME NEW d \in Docs, LoadDoc(d)
      PROVE  StreamTypeOK'
  BY <1>3 DEF LoadDoc
<1>4. CASE Loaded
  BY <1>4 DEF Loaded
<1>5. CASE Receive
  BY <1>5, ReceiveTypes
<1>6. CASE WatchFails
  BY <1>6 DEF WatchFails, Fail
<1>7. CASE LoadFails
  BY <1>7 DEF LoadFails, Fail
<1>8. CASE TailFails
  BY <1>8 DEF TailFails, Fail
<1>9. CASE Close
  BY <1>9 DEF Close
<1>10. CASE UNCHANGED streamVars
  BY <1>10 DEF streamVars
<1>11. QED
  BY <1>1, <1>2, <1>3, <1>4, <1>5, <1>6, <1>7, <1>8, <1>9, <1>10 DEF StreamNext

(* The collection, its log and the stream keep their types: the token and  *)
(* the cursor of a stream are positions of the log (coal/stream.go).       *)
THEOREM StreamTypeCorrect == StreamSpec => []StreamTypeOK
<1>1. StreamInit => StreamTypeOK
  <2>1. <<>> \in Seq(Changes) /\ Len(<<>>) = 0
    OBVIOUS
  <2>2. SUFFICES ASSUME StreamInit PROVE StreamTypeOK
    OBVIOUS
  <2>3. log \in Seq(Changes) /\ Len(log) = 0
    BY <2>1, <2>2 DEF StreamInit
  <2>4. token \in 0..Len(log) /\ cursor \in 0..Len(log)
    BY <2>2, <2>3 DEF StreamInit
  <2>5. faults \in 0..MaxFaults
    BY <2>2, StreamAssumption DEF StreamInit
  <2>6. store \in [Docs -> Nat] /\ mirror \in [Docs -> Nat]
    BY <2>2 DEF StreamInit
  <2>7. QED
    BY <2>2, <2>3, <2>4, <2>5, <2>6 DEF StreamInit, StreamTypeOK
<1>2. StreamTypeOK /\ [StreamNext]_streamVars => StreamTypeOK'
  BY StreamTypeStep
<1>3. QED
  BY <1>1, <1>2, PTL DEF StreamSpec

-----------------------------------------------------------------------------

(* A change that is announced remains so when the log grows.               *)
LEMMA AnnouncedStays ==
  ASSUME StreamTypeOK, NEW d \in Docs, NEW op \in Ops, Write(d, op),
         NEW c \in Docs, NEW n \in Nat, Announced(c, n)
  PROVE  Announced(c, n)'
<1>1. PICK i \in (n + 1)..Len(log) : log[i].doc = c /\ log[i].op # "lock"
  BY DEF Announced
<1>2. Len(log') = Len(log) + 1 /\ log'[i] = log[i]
  BY <1>1 DEF Write, StreamTypeOK
<1>3. i \in (n + 1)..Len(log')
  BY <1>1, <1>2 DEF StreamTypeOK
<1>4. QED
  BY <1>1, <1>2, <1>3 DEF Announced

(* A change of the content of a document is announced from everywhere.     *)
LEMMA WriteAnnounces ==
  ASSUME StreamTypeOK, NEW d \in Docs, NEW op \in Ops, Write(d, op),
         op # "lock", NEW n \in 0..Len(log)
  PROVE  Announced(d, n)'
<1>1. Len(log') = Len(log) + 1
  BY DEF Write, StreamTypeOK
<1>2. log'[Len(log) + 1] =
        [doc |-> d, op |-> op, version |-> Written(d, op)]
  BY DEF Write, StreamTypeOK
<1>3. Len(log) + 1 \in (n + 1)..Len(log')
  BY <1>1 DEF StreamTypeOK
<1>4. QED
  BY <1>1, <1>2, <1>3 DEF Announced

(* What differs from the collection is announced before and after a write. *)
LEMMA DifferenceAnnounced ==
  ASSUME StreamTypeOK, NEW d \in Docs, NEW op \in Ops, Write(d, op)
  PROVE  \A c \in Docs, n \in 0..Len(log), v \in Nat :
           v = store[c] \/ Announced(c, n) => v = store'[c] \/ Announced(c, n)'
<1> SUFFICES ASSUME NEW c \in Docs, NEW n \in 0..Len(log), NEW v \in Nat,
                    v = store[c] \/ Announced(c, n)
             PROVE  v = store'[c] \/ Announced(c, n)'
  OBVIOUS
<1>1. CASE Announced(c, n)
  BY <1>1, AnnouncedStays DEF StreamTypeOK
<1>2. CASE v = store[c] /\ (c # d \/ op = "lock")
  <2>1. store'[c] = store[c]
    BY <1>2 DEF Write, Written, StreamTypeOK
  <2>2. QED
    BY <1>2, <2>1
<1>3. CASE c = d /\ op # "lock"
  BY <1>3, WriteAnnounces
<1>4. QED
  BY <1>1, <1>2, <1>3

(* The log remains current when it grows.                                  *)
LEMMA WriteCurrent ==
  ASSUME StreamTypeOK, LogCurrent, NEW d \in Docs, NEW op \in Ops, Write(d, op)
  PROVE  LogCurrent'
<1> USE StreamAssumption
<1>1. Len(log') = Len(log) + 1
  BY DEF Write, StreamTypeOK
<1>2. ASSUME NEW i \in 1..Len(log'),
             log'[i].op # "lock", store'[log'[i].doc] # log'[i].version
      PROVE  Announced(log[i].doc, i)'
  <2>1. CASE i \in 1..Len(log)
    <3>1. log'[i] = log[i] /\ log[i] \in Changes
      BY <2>1 DEF Write, StreamTypeOK
    <3> log[i].doc \in Docs /\ log[i].version \in Nat
      BY <3>1 DEF Changes
    <3> i \in 0..Len(log)
      BY <2>1 DEF StreamTypeOK
    <3>2. \/ log[i].version = store[log[i].doc]
          \/ Announced(log[i].doc, i)
      BY <1>2, <2>1, <3>1 DEF LogCurrent
    <3>3. \/ log[i].version = store'[log[i].doc]
          \/ Announced(log[i].doc, i)'
      BY <2>1, <3>1, <3>2, DifferenceAnnounced
    <3>4. QED
      BY <1>2, <3>1, <3>3 DEF Announced
  <2>2. CASE i = Len(log) + 1
    <3>1. /\ log'[i].doc = d
          /\ log'[i].version = Written(d, op)
      BY <2>2 DEF Write, StreamTypeOK
    <3>2. store'[d] = Written(d, op)
      BY DEF Write, StreamTypeOK
    <3>3. QED
      BY <1>2, <3>1, <3>2
  <2>3. QED
    BY <1>1, <2>1, <2>2 DEF StreamTypeOK
<1>3. ASSUME NEW i \in 1..Len(log')
      PROVE  /\ log'[i].op \in {"insert", "update"} => log'[i].version > 0
             /\ log'[i].op = "delete" => log'[i].version = 0
  <2>1. CASE i \in 1..Len(log)
    <3>1. log'[i] = log[i]
      BY <2>1 DEF Write, StreamTypeOK
    <3>2. QED
      BY <2>1, <3>1 DEF LogCurrent
  <2>2. CASE i = Len(log) + 1
    <3>1. /\ log'[i].op = op
          /\ log'[i].version = Written(d, op)
      BY <2>2 DEF Write, StreamTypeOK
    <3>2. QED
      BY <3>1 DEF Written, StreamTypeOK
  <2>3. QED
    BY <1>1, <2>1, <2>2 DEF StreamTypeOK
<1>4. QED
  BY <1>2, <1>3 DEF LogCurrent

(* The log does not change, so neither does what it says.                  *)
LEMMA LogKept ==
  ASSUME UNCHANGED writers
  PROVE  /\ LogCurrent' = LogCurrent
         /\ \A d \in Docs, n \in Nat : Announced(d, n)' = Announced(d, n)
BY DEF writers, LogCurrent, Announced

-----------------------------------------------------------------------------

(* The writers.                                                            *)
LEMMA WriteStep ==
  ASSUME StreamTypeOK, StreamInv, NEW d \in Docs, NEW op \in Ops, Write(d, op)
  PROVE  StreamInv'
<1>1. LogCurrent'
  BY WriteCurrent DEF StreamInv
<1>2. UNCHANGED <<stage, opened, token, cursor, toLoad, mirror, stale>>
  BY DEF Write, stream
<1>3. token \in 0..Len(log) /\ cursor \in 0..Len(log) /\ toLoad \subseteq Docs
  BY DEF StreamTypeOK
<1>4. \A c \in Docs : mirror[c] \in Nat
  BY DEF StreamTypeOK
<1>5. ASSUME NEW c \in Docs, NEW n \in 0..Len(log),
             Follows(c) \/ Announced(c, n)
      PROVE  Follows(c)' \/ Announced(c, n)'
  <2>1. CASE mirror[c] = store[c] \/ Announced(c, n)
    <3>1. mirror[c] = store'[c] \/ Announced(c, n)'
      BY <1>4, <2>1, DifferenceAnnounced
    <3>2. QED
      BY <1>2, <3>1 DEF Follows
  <2>2. CASE c \in stale /\ store[c] = 0
    <3>1. 0 = store'[c] \/ Announced(c, n)'
      BY <2>2, DifferenceAnnounced
    <3>2. QED
      BY <1>2, <2>2, <3>1 DEF Follows
  <2>3. QED
    BY <1>5, <2>1, <2>2 DEF Follows
<1>6. \A c \in Docs :
        /\ Follows(c) \/ Announced(c, token) =>
             (Follows(c) \/ Announced(c, token))'
        /\ Follows(c) \/ Announced(c, cursor) =>
             (Follows(c) \/ Announced(c, cursor))'
  BY <1>2, <1>3, <1>5 DEF Announced
<1>7. QED
  BY <1>1, <1>2, <1>3, <1>6 DEF StreamInv, NothingMissed

(* An event: the mirror learns what the collection is, or of a change that *)
(* is followed by another one.                                             *)
LEMMA ReceiveStep ==
  ASSUME StreamTypeOK, StreamInv, Receive
  PROVE  StreamInv'
<1> DEFINE e == log[cursor + 1]
<1>0. cursor + 1 \in 1..Len(log) /\ cursor \in Nat
  BY DEF Receive, StreamTypeOK
<1> e \in Changes
  BY <1>0 DEF StreamTypeOK
<1>1. e \in Changes /\ e.doc \in Docs
  BY DEF Changes
<1>2. /\ stage = "tail" /\ stage' = "tail" /\ UNCHANGED <<store, log>>
      /\ opened /\ opened' /\ cursor' = cursor + 1 /\ token' = cursor + 1
  BY DEF Receive, writers, StreamInv
<1>3. \A c \in Docs, n \in Nat : Announced(c, n)' = Announced(c, n)
  BY <1>2, LogKept DEF writers
<1>4. LogCurrent /\ LogCurrent'
  BY <1>2, LogKept DEF writers, StreamInv
<1>5. /\ e.op \in {"insert", "update"} => e.version > 0
      /\ e.op = "delete" => e.version = 0
      /\ e.op # "lock" /\ store[e.doc] # e.version
           => Announced(e.doc, cursor + 1)
  BY <1>0, <1>4 DEF LogCurrent
<1>6. ASSUME NEW c \in Docs
      PROVE  Follows(c)' \/ Announced(c, cursor + 1)
  <2>1. Follows(c) \/ Announced(c, cursor)
    BY <1>2 DEF StreamInv, NothingMissed
  <2>2. CASE c # e.doc \/ e.op = "lock"
    <3>1. mirror'[c] = mirror[c] /\ (c \in stale => c \in stale')
      BY <2>2 DEF Receive, Skipped, StreamTypeOK
    <3>2. Announced(c, cursor) => Announced(c, cursor + 1)
      <4>1. SUFFICES ASSUME Announced(c, cursor)
                     PROVE  Announced(c, cursor + 1)
        OBVIOUS
      <4>2. PICK i \in (cursor + 1)..Len(log) :
              log[i].doc = c /\ log[i].op # "lock"
        BY <4>1 DEF Announced
      <4>3. i # cursor + 1
        BY <2>2, <4>2
      <4>4. i \in (cursor + 2)..Len(log)
        BY <1>0, <4>2, <4>3 DEF StreamTypeOK
      <4>5. (cursor + 1) + 1 = cursor + 2
        BY <1>0
      <4>6. QED
        BY <4>2, <4>4, <4>5 DEF Announced
    <3>3. QED
      BY <1>2, <2>1, <3>1, <3>2 DEF Follows
  <2>3. CASE c = e.doc /\ e.op = "update"
    <3>1. CASE store[c] = 0
      BY <1>5, <2>3, <3>1
    <3>2. CASE store[c] # 0
      <4>1. mirror'[c] = store[c]
        BY <2>3, <3>2 DEF Receive, Skipped, Yielded, StreamTypeOK
      <4>2. QED
        BY <1>2, <4>1 DEF Follows
    <3>3. QED
      BY <3>1, <3>2
  <2>4. CASE c = e.doc /\ e.op \in {"insert", "delete"}
    <3>1. mirror'[c] = e.version
      BY <1>5, <2>4 DEF Receive, Skipped, Yielded, StreamTypeOK
    <3>2. QED
      BY <1>2, <1>5, <2>4, <3>1 DEF Follows
  <2>5. QED
    BY <1>1, <2>2, <2>3, <2>4 DEF Changes
<1>7. ASSUME NEW c \in Docs
      PROVE  Follows(c)' \/ Announced(c, cursor)'
  <2>1. Announced(c, cursor)' = Announced(c, cursor + 1)
    BY <1>2 DEF Announced
  <2>2. QED
    BY <1>6, <2>1
<1>8. NothingMissed'
  BY <1>7 DEF NothingMissed
<1>9. QED
  BY <1>2, <1>4, <1>8 DEF StreamInv

(* The load comes by a document: the mirror shows what the collection is.  *)
LEMMA LoadStep ==
  ASSUME StreamTypeOK, StreamInv, NEW d \in Docs, LoadDoc(d)
  PROVE  StreamInv'
<1>1. /\ stage = "load" /\ UNCHANGED <<store, log, stage, opened, token, cursor>>
      /\ toLoad' = toLoad \ {d}
  BY DEF LoadDoc, writers
<1>2. LogCurrent'
  BY <1>1, LogKept DEF writers, StreamInv
<1>3. Follows(d)'
  <2>1. CASE store[d] = 0
    <3>1. mirror'[d] = mirror[d] /\ stale' = stale
      BY <2>1 DEF LoadDoc, StreamTypeOK
    <3>2. d \in stale \/ mirror[d] = 0
      BY <1>1 DEF LoadDoc, StreamInv
    <3>3. QED
      BY <1>1, <2>1, <3>1, <3>2 DEF Follows
  <2>2. CASE store[d] # 0
    <3>1. mirror'[d] = store[d]
      BY <2>2 DEF LoadDoc, StreamTypeOK
    <3>2. QED
      BY <1>1, <3>1 DEF Follows
  <2>3. QED
    BY <2>1, <2>2
<1>4. \A c \in Docs : c # d =>
        mirror'[c] = mirror[c] /\ (c \in stale' <=> c \in stale)
  BY DEF LoadDoc, StreamTypeOK
<1>5. \A c \in Docs \ toLoad' : (Follows(c) \/ Announced(c, cursor))'
  BY <1>1, <1>3, <1>4 DEF StreamInv, Follows, Announced
<1>6. \A c \in toLoad' \ stale' : mirror'[c] = 0
  BY <1>1, <1>4 DEF StreamInv, StreamTypeOK
<1>7. QED
  BY <1>1, <1>2, <1>5, <1>6 DEF StreamInv, NothingMissed

(* Every step of the writers and of the stream keeps the invariant.        *)
LEMMA StreamStep ==
  ASSUME "first" \notin Faults,
         StreamTypeOK, StreamInv, [StreamNext]_streamVars
  PROVE  StreamInv'
<1> USE DEF writers
<1>1. ASSUME NEW d \in Docs, NEW op \in Ops, Write(d, op)
      PROVE  StreamInv'
  BY <1>1, WriteStep
<1>2. CASE Watch
  <2>1. LogCurrent'
    BY <1>2, LogKept DEF Watch, StreamInv
  <2>2. CASE opened
    <3>1. cursor' = token /\ stage' = "tail" /\ opened'
      BY <1>2, <2>2 DEF Watch, WatchedFrom, StreamInv
    <3>2. UNCHANGED <<store, log, mirror, stale, token>>
      BY <1>2 DEF Watch
    <3>3. \A d \in Docs : Follows(d) \/ Announced(d, token)
      BY <1>2, <2>2 DEF Watch, StreamInv
    <3>4. NothingMissed'
      BY <3>1, <3>2, <3>3 DEF NothingMissed, Announced, Follows
    <3>5. QED
      BY <2>1, <3>1, <3>2, <3>4 DEF StreamInv
  <2>3. CASE ~opened
    BY <1>2, <2>1, <2>3 DEF Watch, StreamInv, NothingMissed
  <2>4. QED
    BY <2>2, <2>3
<1>3. ASSUME NEW d \in Docs, LoadDoc(d)
      PROVE  StreamInv'
  BY <1>3, LoadStep
<1>4. CASE Loaded
  <2>1. LogCurrent'
    BY <1>4, LogKept DEF Loaded, StreamInv
  <2>2. QED
    BY <1>4, <2>1 DEF Loaded, StreamInv, NothingMissed, Announced, Follows
<1>5. CASE Receive
  BY <1>5, ReceiveStep
<1>6. CASE WatchFails
  <2>1. LogCurrent'
    BY <1>6, LogKept DEF WatchFails, Fail, StreamInv
  <2>2. QED
    BY <1>6, <2>1 DEF WatchFails, Fail, StreamInv, NothingMissed, Announced, Follows
<1>7. CASE LoadFails
  <2>1. LogCurrent'
    BY <1>7, LogKept DEF LoadFails, Fail, StreamInv
  <2>2. ~opened /\ token = 0 /\ UNCHANGED <<opened, token, mirror>>
    BY <1>7 DEF LoadFails, Fail, StreamInv
  <2>3. stage' = "watch" /\ stale' = {d \in Docs : mirror[d] # 0}
    BY <1>7 DEF LoadFails, Fail
  <2>4. QED
    BY <2>1, <2>2, <2>3 DEF StreamInv, NothingMissed
<1>8. CASE TailFails
  <2>1. token # 0 /\ token = cursor /\ opened /\ opened' /\ stage' = "watch"
    BY <1>8 DEF TailFails, Fail, StreamInv
  <2>2. UNCHANGED <<store, log, mirror, stale, token>> /\ stage = "tail"
    BY <1>8 DEF TailFails, Fail
  <2>3. LogCurrent'
    BY <2>2, LogKept DEF StreamInv
  <2>4. token' > 0
    BY <2>1, <2>2 DEF StreamTypeOK
  <2>5. QED
    BY <2>1, <2>2, <2>3, <2>4 DEF StreamInv, NothingMissed, Announced, Follows
<1>9. CASE Close
  <2>1. LogCurrent'
    BY <1>9, LogKept DEF Close, StreamInv
  <2>2. QED
    BY <1>9, <2>1 DEF Close, StreamInv, NothingMissed, Announced, Follows
<1>10. CASE UNCHANGED streamVars
  <2>1. LogCurrent'
    BY <1>10, LogKept DEF streamVars, StreamInv
  <2>2. QED
    BY <1>10, <2>1 DEF streamVars, StreamInv, NothingMissed, Announced, Follows
<1>11. QED
  BY <1>1, <1>2, <1>3, <1>4, <1>5, <1>6, <1>7, <1>8, <1>9, <1>10 DEF StreamNext

(* If a stream that breaks has received an event before, whatever else     *)
(* fails, what the mirror has not seen is still to come, whatever the      *)
(* writers do (coal/stream.go, coal/reconcile.go).                         *)
THEOREM StreamInvariant ==
  ASSUME "first" \notin Faults
  PROVE  StreamSpec => []StreamInv
<1>1. StreamInit => StreamInv
  BY DEF StreamInit, StreamInv, NothingMissed, LogCurrent
<1>2. StreamTypeOK /\ StreamInv /\ [StreamNext]_streamVars => StreamInv'
  BY StreamStep
<1>3. QED
  BY <1>1, <1>2, StreamTypeCorrect, PTL DEF StreamSpec

(* The same with the types, which the run checks.                          *)
THEOREM TailInvHolds ==
  ASSUME "first" \notin Faults
  PROVE  StreamSpec => []TailInv
  BY StreamInvariant, StreamTypeCorrect, PTL DEF TailInv

(* Under the same assumption the mirror is the collection once all events  *)
(* have been received: Reconcile "will yield all changes".                 *)
THEOREM CaughtUpHolds ==
  ASSUME "first" \notin Faults
  PROVE  StreamSpec => []CaughtUp
<1>1. StreamTypeOK /\ StreamInv => CaughtUp
  <2>1. SUFFICES ASSUME StreamTypeOK, StreamInv, stage = "tail", cursor = Len(log),
                        NEW d \in Docs
                 PROVE  Follows(d)
    BY DEF CaughtUp
  <2>2. ~Announced(d, cursor)
    BY <2>1 DEF Announced, StreamTypeOK
  <2>3. QED
    BY <2>1, <2>2 DEF StreamInv, NothingMissed
<1>2. QED
  BY <1>1, StreamInvariant, StreamTypeCorrect, PTL


-----------------------------------------------------------------------------

(***************************************************************************)
(* Watchers, for any number of clients and any capacities of queues and    *)
(* channels: the manager uses no queue it has closed, and no client misses *)
(* an event.                                                               *)
(***************************************************************************)

(* The channel of registrations is used once by a client: while its queue  *)
(* waits there, it is new.                                                 *)
Untouched(c) ==
  c \notin queues /\ c \notin closed /\ queue[c] = <<>> /\ last[c] = None

Unserved(c) ==
  \/ phase[c] \in {"new", "register"}
  \/ \E i \in 1..Len(subscribes) : subscribes[i] = c

Waiting ==
  /\ \A i \in 1..Len(subscribes) : phase[subscribes[i]] \notin {"new", "register"}
  /\ \A i, j \in 1..Len(subscribes) : subscribes[i] = subscribes[j] => i = j

(* A queue is a chain of events up to the next one the manager takes, as   *)
(* long as it is registered.                                               *)
Chain(c) ==
  LET s == queue[c] IN
  /\ \A i \in 1..(Len(s) - 1) : s[i] = Older(s[i + 1])
  /\ last[c] # None /\ s # <<>> => last[c] = Older(s[1])
  /\ c \in queues /\ s # <<>> => s[Len(s)] = events
  /\ c \in queues /\ s = <<>> /\ last[c] # None => last[c] = events

WatchersIInv ==
  /\ TypeOK
  /\ NoPanic
  /\ Waiting
  /\ \A c \in Clients : Unserved(c) => Untouched(c)
  /\ \A c \in Clients : Chain(c)

-----------------------------------------------------------------------------
(* Sequences.                                                              *)

LEMMA TailOf ==
  ASSUME NEW S, NEW s \in Seq(S), s # <<>>
  PROVE  /\ Head(s) \in S /\ Head(s) = s[1] /\ Len(s) \in Nat \ {0}
         /\ Tail(s) \in Seq(S) /\ Len(Tail(s)) = Len(s) - 1
         /\ \A i \in 1..Len(Tail(s)) : Tail(s)[i] = s[i + 1]
  OBVIOUS

LEMMA AppendOf ==
  ASSUME NEW S, NEW s \in Seq(S), NEW x \in S
  PROVE  /\ Append(s, x) \in Seq(S) /\ Len(s) \in Nat /\ Len(Append(s, x)) = Len(s) + 1
         /\ Append(s, x) # <<>>
         /\ \A i \in 1..Len(s) : Append(s, x)[i] = s[i]
         /\ Append(s, x)[Len(s) + 1] = x
  OBVIOUS

LEMMA OlderAge == \A a \in Ages : Older(a) \in Ages
  BY SparkAssumption DEF Older, Ages

(* The ages of a queue, one event later.                                   *)
LEMMA OlderQueue ==
  ASSUME NEW s \in Seq(Ages)
  PROVE  LET t == [i \in DOMAIN s |-> Older(s[i])]
         IN t \in Seq(Ages) /\ Len(t) = Len(s) /\ \A i \in 1..Len(s) : t[i] = Older(s[i])
<1> DEFINE t == [i \in 1..Len(s) |-> Older(s[i])]
<1>1. DOMAIN s = 1..Len(s) /\ Len(s) \in Nat /\ \A i \in 1..Len(s) : s[i] \in Ages
  OBVIOUS
<1>2. \A i \in 1..Len(s) : Older(s[i]) \in Ages
  BY <1>1, OlderAge
<1>3. t \in Seq(Ages) /\ Len(t) = Len(s)
  BY <1>1, <1>2
<1>4. QED
  BY <1>1, <1>3

-----------------------------------------------------------------------------
LEMMA WatchersInitInv == Init => WatchersIInv
<1> SUFFICES ASSUME Init PROVE WatchersIInv
  OBVIOUS
<1>0. <<>> \in Seq(Clients) /\ <<>> \in Seq(Ages) /\ Len(<<>>) = 0
  OBVIOUS
<1>1. TypeOK /\ NoPanic /\ Waiting
  <2>1. /\ queue \in [Clients -> Seq(Ages)] /\ phase \in [Clients -> Phases]
        /\ last \in [Clients -> Ages \cup {None}]
        /\ \A c \in Clients : Len(queue[c]) <= QueueCap
    BY <1>0, SparkAssumption DEF Init, Phases
  <2>2. TypeOK
    <3>1. 0 \in 0..ChanCap /\ 0 <= ChanCap
      BY SparkAssumption
    <3>2. QED
      BY <1>0, <2>1, <3>1 DEF Init, TypeOK
  <2>3. Waiting
    BY <1>0 DEF Init, Waiting
  <2>4. QED
    BY <2>2, <2>3 DEF Init, NoPanic
<1>2. ASSUME NEW c \in Clients
      PROVE  Untouched(c) /\ Chain(c)
  <2>1. queue[c] = <<>> /\ last[c] = None /\ queues = {} /\ closed = {}
    BY DEF Init
  <2>2. \A i \in 1..(Len(queue[c]) - 1) : FALSE
    BY <1>0, <2>1
  <2>3. QED
    BY <2>1, <2>2 DEF Untouched, Chain
<1>3. QED
  BY <1>1, <1>2 DEF WatchersIInv

(* A stream broadcasts: all events are one older.                          *)
LEMMA BroadcastInv ==
  ASSUME WatchersIInv, Broadcast
  PROVE  WatchersIInv'
<1> USE DEF WatchersIInv
<1>1. \A c \in Clients :
        /\ queue[c] \in Seq(Ages) /\ queue'[c] \in Seq(Ages)
        /\ Len(queue[c]) \in Nat /\ Len(queue'[c]) = Len(queue[c])
        /\ \A i \in 1..Len(queue[c]) : queue'[c][i] = Older(queue[c][i]) /\ queue[c][i] \in Ages
  BY OlderQueue DEF TypeOK, Broadcast
<1>2. \A c \in Clients : /\ last[c] = None => last'[c] = None
                         /\ last[c] # None => /\ last[c] \in Ages /\ last'[c] \in Ages
                                              /\ last'[c] = Older(last[c]) /\ last'[c] # None
  BY OlderAge, SparkAssumption DEF TypeOK, Broadcast, Ages
<1>3. events' \in 0..ChanCap /\ events' = Older(events)
  BY SparkAssumption DEF TypeOK, Broadcast, Older
<1>4. TypeOK'
  <2>1. queue' \in [Clients -> Seq(Ages)] /\ \A c \in Clients : Len(queue'[c]) <= QueueCap
    BY <1>1 DEF TypeOK, Broadcast
  <2>2. last' \in [Clients -> Ages \cup {None}]
    BY <1>2 DEF TypeOK, Broadcast
  <2>3. QED
    BY <1>3, <2>1, <2>2 DEF TypeOK, Broadcast, lifecycle, manager
<1>5. NoPanic' /\ Waiting'
  BY DEF NoPanic, Waiting, Broadcast, manager
<1>6. ASSUME NEW c \in Clients, Unserved(c)'
      PROVE  Untouched(c)'
  <2>1. Unserved(c)
    BY <1>6 DEF Unserved, Broadcast
  <2>2. Untouched(c) /\ queue'[c] = <<>>
    BY <1>1, <2>1 DEF Untouched
  <2>3. QED
    BY <1>2, <2>2 DEF Untouched, Broadcast, manager
<1>7. ASSUME NEW c \in Clients
      PROVE  Chain(c)'
  <2>1. Chain(c) /\ queues' = queues
    BY DEF Broadcast, manager
  <2>2. queue'[c] # <<>> <=> queue[c] # <<>>
    BY <1>1
  <2>3. \A i \in 1..(Len(queue'[c]) - 1) : queue'[c][i] = Older(queue'[c][i + 1])
    BY <1>1, <2>1 DEF Chain
  <2>4. last'[c] # None /\ queue'[c] # <<>> => last'[c] = Older(queue'[c][1])
    BY <1>1, <1>2, <2>1, <2>2 DEF Chain
  <2>5. c \in queues' /\ queue'[c] # <<>> => queue'[c][Len(queue'[c])] = events'
    BY <1>1, <1>3, <2>1, <2>2 DEF Chain
  <2>6. c \in queues' /\ queue'[c] = <<>> /\ last'[c] # None => last'[c] = events'
    BY <1>2, <1>3, <2>1, <2>2 DEF Chain
  <2>7. QED
    BY <2>3, <2>4, <2>5, <2>6 DEF Chain
<1>8. QED
  BY <1>4, <1>5, <1>6, <1>7

(* The manager registers a queue, which is new.                            *)
LEMMA TakeSubscribeInv ==
  ASSUME WatchersIInv, TakeSubscribe
  PROVE  WatchersIInv'
<1> USE DEF WatchersIInv
<1> DEFINE h == Head(subscribes)
<1>1. /\ h \in Clients /\ Len(subscribes) \in Nat \ {0} /\ h = subscribes[1]
      /\ subscribes' \in Seq(Clients) /\ Len(subscribes') = Len(subscribes) - 1
      /\ \A i \in 1..Len(subscribes') : subscribes'[i] = subscribes[i + 1]
      /\ queues' = queues \cup {h}
  BY TailOf DEF TypeOK, TakeSubscribe
<1>2. Unserved(h) /\ Untouched(h)
  BY <1>1 DEF Unserved
<1>3. TypeOK'
  <2>1. Len(subscribes') <= ChanCap
    BY <1>1, SparkAssumption DEF TypeOK
  <2>2. QED
    BY <1>1, <2>1 DEF TypeOK, TakeSubscribe, lifecycle
<1>4. NoPanic' /\ Waiting'
  BY <1>1, <1>2 DEF NoPanic, Waiting, Untouched, TakeSubscribe
<1>5. phase[h] \notin {"new", "register"} /\ \A i \in 1..Len(subscribes') : subscribes'[i] # h
  BY <1>1 DEF Waiting
<1>6. ASSUME NEW c \in Clients, Unserved(c)'
      PROVE  Untouched(c)'
  <2>1. Unserved(c) /\ c # h
    BY <1>1, <1>5, <1>6 DEF Unserved, TakeSubscribe
  <2>2. QED
    BY <1>1, <2>1 DEF Untouched, TakeSubscribe
<1>7. ASSUME NEW c \in Clients
      PROVE  Chain(c)'
  BY <1>1, <1>2 DEF Chain, Untouched, TakeSubscribe
<1>8. QED
  BY <1>3, <1>4, <1>6, <1>7

(* The manager adds an event to the queues that have room, and closes the  *)
(* others.                                                                 *)
LEMMA TakeEventInv ==
  ASSUME WatchersIInv, TakeEvent
  PROVE  WatchersIInv'
<1> USE DEF WatchersIInv
<1>1. events' \in Ages /\ events = Older(events') /\ events' \in 0..ChanCap /\ events' # None
  BY SparkAssumption DEF TypeOK, TakeEvent, Older, Ages
<1>2. ASSUME NEW c \in Clients
      PROVE  /\ queue[c] \in Seq(Ages) /\ Len(queue[c]) \in 0..QueueCap
             /\ ~(c \in queues /\ ~Full(c)) => queue'[c] = queue[c] /\ c \notin queues'
             /\ c \in queues /\ ~Full(c) =>
                  queue'[c] = Append(queue[c], events') /\ Len(queue[c]) + 1 <= QueueCap
  BY SparkAssumption DEF TypeOK, TakeEvent, Full
<1>3. ASSUME NEW c \in Clients
      PROVE  queue'[c] \in Seq(Ages) /\ Len(queue'[c]) <= QueueCap
  <2>1. CASE ~(c \in queues /\ ~Full(c))
    BY <1>2, <2>1
  <2>2. CASE c \in queues /\ ~Full(c)
    <3>1. queue[c] \in Seq(Ages) /\ queue'[c] = Append(queue[c], events') /\ Len(queue[c]) + 1 <= QueueCap
      BY <1>2, <2>2
    <3>2. QED
      BY <1>1, <3>1, AppendOf
  <2>3. QED
    BY <2>1, <2>2
<1>4. TypeOK'
  <2>1. queue' \in [Clients -> Seq(Ages)] /\ \A c \in Clients : Len(queue'[c]) <= QueueCap
    BY <1>3 DEF TypeOK, TakeEvent
  <2>2. QED
    BY <1>1, <2>1 DEF TypeOK, TakeEvent, lifecycle
<1>5. NoPanic' /\ Waiting'
  BY DEF NoPanic, Waiting, TakeEvent
<1>6. ASSUME NEW c \in Clients, Unserved(c)'
      PROVE  Untouched(c)'
  <2>1. Unserved(c)
    BY <1>6 DEF Unserved, TakeEvent
  <2>2. QED
    BY <1>2, <2>1 DEF Untouched, TakeEvent
<1>7. ASSUME NEW c \in Clients
      PROVE  Chain(c)'
  <2>1. CASE ~(c \in queues /\ ~Full(c))
    BY <1>2, <2>1 DEF Chain, TakeEvent
  <2>2. CASE c \in queues /\ ~Full(c)
    <3> DEFINE s == queue[c]  t == queue'[c]
    <3>1. /\ t # <<>> /\ Len(s) \in Nat /\ Len(t) = Len(s) + 1
          /\ \A i \in 1..Len(s) : t[i] = s[i]
          /\ t[Len(s) + 1] = events'
      BY <1>1, <1>2, <2>2, AppendOf
    <3>2. Chain(c) /\ last' = last
      BY DEF TakeEvent
    <3>3. s = <<>> <=> Len(s) = 0
      BY <1>2
    <3>4. \A i \in 1..(Len(t) - 1) : t[i] = Older(t[i + 1])
      <4>1. ASSUME NEW i \in 1..(Len(t) - 1), i < Len(s)
            PROVE  t[i] = Older(t[i + 1])
        BY <3>1, <3>2, <4>1 DEF Chain
      <4>2. ASSUME NEW i \in 1..(Len(t) - 1), i = Len(s)
            PROVE  t[i] = Older(t[i + 1])
        BY <1>1, <2>2, <3>1, <3>2, <3>3, <4>2 DEF Chain
      <4>3. QED
        BY <3>1, <4>1, <4>2
    <3>5. last'[c] # None => last'[c] = Older(t[1])
      <4>1. CASE s = <<>>
        BY <1>1, <2>2, <3>1, <3>2, <3>3, <4>1 DEF Chain
      <4>2. CASE s # <<>>
        BY <3>1, <3>2, <3>3, <4>2 DEF Chain
      <4>3. QED
        BY <4>1, <4>2
    <3>6. QED
      BY <3>1, <3>4, <3>5 DEF Chain
  <2>3. QED
    BY <2>1, <2>2
<1>8. QED
  BY <1>4, <1>5, <1>6, <1>7

(* Queues are unregistered, or closed when the manager dies.               *)
LEMMA ManagerLeavesInv ==
  ASSUME WatchersIInv, TakeUnsubscribe \/ Die
  PROVE  WatchersIInv'
<1> USE DEF WatchersIInv
<1>1. /\ queues' \subseteq queues /\ closed' \subseteq closed \cup queues
      /\ queues' \cap closed' = {}
      /\ UNCHANGED <<subscribes, queue, phase, last, events>>
  BY DEF NoPanic, TakeUnsubscribe, Die, channels
<1>2. unsubscribes' \in Seq(Clients) /\ Len(unsubscribes') <= ChanCap
  <2>1. CASE TakeUnsubscribe
    <3>1. /\ unsubscribes \in Seq(Clients) /\ unsubscribes # <<>> /\ Len(unsubscribes) <= ChanCap
          /\ unsubscribes' = Tail(unsubscribes)
      BY <2>1 DEF TypeOK, TakeUnsubscribe
    <3>2. QED
      BY <3>1, TailOf, SparkAssumption
  <2>2. CASE Die
    BY <2>2 DEF TypeOK, Die, channels
  <2>3. QED
    BY <2>1, <2>2
<1>3. TypeOK'
  <2>1. overtaken' \subseteq Clients
    <3>1. Awaited \subseteq Clients
      BY DEF Awaited, TypeOK
    <3> QED
      BY <3>1 DEF TypeOK, TakeUnsubscribe, Die
  <2> QED
    BY <1>1, <1>2, <2>1 DEF TypeOK, TakeUnsubscribe, Die, lifecycle
<1>4. QED
  BY <1>1, <1>3 DEF NoPanic, Waiting, Unserved, Untouched, Chain

(* A handler sends its queue to the manager once, and then serves it.      *)
LEMMA RegisterInv ==
  ASSUME WatchersIInv, NEW c \in Clients, Register(c)
  PROVE  WatchersIInv'
<1> USE DEF WatchersIInv
<1>1. CASE subscribes' = Append(subscribes, c) /\ Goes(c, "serving") /\ Len(subscribes) < ChanCap
  <2>1. /\ subscribes' \in Seq(Clients) /\ Len(subscribes) \in Nat
        /\ Len(subscribes') = Len(subscribes) + 1
        /\ \A i \in 1..Len(subscribes) : subscribes'[i] = subscribes[i]
        /\ subscribes'[Len(subscribes')] = c
    BY <1>1, AppendOf DEF TypeOK
  <2>2. TypeOK'
    BY <1>1, <2>1, SparkAssumption DEF TypeOK, Goes, Phases, Register, lifecycle, manager
  <2>3. \A i \in 1..Len(subscribes) : subscribes[i] # c /\ subscribes[i] \in Clients
    BY DEF Waiting, Register, TypeOK
  <2>4. Waiting'
    <3>1. phase'[c] = "serving" /\ \A d \in Clients \ {c} : phase'[d] = phase[d]
      BY <1>1 DEF Goes, TypeOK
    <3>2. \A i \in 1..Len(subscribes') : i # Len(subscribes') =>
            i \in 1..Len(subscribes) /\ subscribes'[i] = subscribes[i]
      BY <2>1
    <3>3. \A i \in 1..Len(subscribes') :
            phase'[subscribes'[i]] \notin {"new", "register"}
      BY <2>1, <2>3, <3>1, <3>2 DEF Waiting
    <3>4. \A i, j \in 1..Len(subscribes') :
            subscribes'[i] = subscribes'[j] => i = j
      BY <2>1, <2>3, <3>2 DEF Waiting
    <3>5. QED
      BY <3>3, <3>4 DEF Waiting
  <2>5. ASSUME NEW d \in Clients, Unserved(d)'
        PROVE  Untouched(d)'
    <3>1. Unserved(d)
      BY <1>1, <2>1, <2>5 DEF Unserved, Goes, TypeOK, Register
    <3>2. QED
      BY <3>1 DEF Untouched, Register, manager
  <2>6. QED
    BY <2>2, <2>4, <2>5 DEF NoPanic, Chain, Register, manager
<1>2. CASE subscribes' = subscribes /\ Goes(c, "gone")
  <2>1. TypeOK'
    BY <1>2 DEF TypeOK, Goes, Phases, Register, lifecycle, manager
  <2>2. Waiting'
    BY <1>2 DEF Waiting, Goes, TypeOK
  <2>3. \A d \in Clients : Unserved(d)' => Unserved(d)
    BY <1>2 DEF Unserved, Goes, TypeOK
  <2>4. QED
    BY <2>1, <2>2, <2>3 DEF NoPanic, Untouched, Chain, Register, manager
<1>3. QED
  BY <1>1, <1>2 DEF Register

(* The writer takes an event: the chain becomes shorter at its front.      *)
LEMMA DeliverInv ==
  ASSUME WatchersIInv, NEW c \in Clients, Deliver(c)
  PROVE  WatchersIInv'
<1> USE DEF WatchersIInv
<1> DEFINE s == queue[c]  t == queue'[c]
<1>1. /\ s \in Seq(Ages) /\ s # <<>> /\ Head(s) \in Ages /\ Head(s) = s[1]
      /\ Len(s) \in Nat \ {0} /\ t \in Seq(Ages) /\ Len(t) = Len(s) - 1
      /\ \A i \in 1..Len(t) : t[i] = s[i + 1]
      /\ last'[c] = s[1]
  BY TailOf DEF Deliver, TypeOK
<1>2. \A d \in Clients \ {c} : queue'[d] = queue[d] /\ last'[d] = last[d]
  BY DEF Deliver, TypeOK
<1>3. TypeOK'
  <2>1. queue' \in [Clients -> Seq(Ages)]
    BY <1>1 DEF TypeOK, Deliver
  <2>2. ASSUME NEW d \in Clients
        PROVE  Len(queue'[d]) <= QueueCap
    <3>1. Len(s) <= QueueCap /\ Len(queue[d]) <= QueueCap
      BY DEF TypeOK
    <3>2. QED
      BY <1>1, <1>2, <3>1, SparkAssumption
  <2>3. last' \in [Clients -> Ages \cup {None}]
    BY <1>1 DEF TypeOK, Deliver
  <2>4. QED
    BY <2>1, <2>2, <2>3 DEF TypeOK, Deliver, lifecycle, manager, channels
<1>4. NoPanic' /\ Waiting'
  BY DEF NoPanic, Waiting, Deliver, manager, channels
<1>5. ASSUME NEW d \in Clients, Unserved(d)'
      PROVE  Untouched(d)'
  <2>1. Unserved(d)
    BY <1>5 DEF Unserved, Deliver, channels
  <2>2. Untouched(d) /\ d # c
    BY <1>1, <2>1 DEF Untouched
  <2>3. QED
    BY <1>2, <2>2 DEF Untouched, Deliver, manager
<1>6. Chain(c)'
  <2>1. Chain(c) /\ queues' = queues /\ events' = events
    BY DEF Deliver, manager, channels
  <2>2. t = <<>> <=> Len(t) = 0
    <3>1. \A q \in Seq(Ages) : q = <<>> <=> Len(q) = 0
      OBVIOUS
    <3>2. QED
      BY <1>1, <3>1
  <2>3. ASSUME NEW i \in 1..(Len(t) - 1)
        PROVE  t[i] = Older(t[i + 1])
    <3>1. i + 1 \in 1..(Len(s) - 1) /\ i \in 1..Len(t) /\ i + 1 \in 1..Len(t)
      BY <1>1
    <3>2. s[i + 1] = Older(s[i + 2])
      BY <2>1, <3>1 DEF Chain
    <3>3. t[i] = s[i + 1] /\ t[i + 1] = s[i + 2]
      BY <1>1, <3>1
    <3>4. QED
      BY <3>2, <3>3
  <2>4. t # <<>> => last'[c] = Older(t[1])
    BY <1>1, <2>1, <2>2 DEF Chain
  <2>5. c \in queues /\ t # <<>> => t[Len(t)] = events
    BY <1>1, <2>1, <2>2 DEF Chain
  <2>6. c \in queues /\ t = <<>> => last'[c] = events
    BY <1>1, <2>1, <2>2 DEF Chain
  <2>7. QED
    BY <2>1, <2>3, <2>4, <2>5, <2>6 DEF Chain
<1>7. \A d \in Clients : Chain(d)'
  BY <1>2, <1>6 DEF Chain, Deliver, manager, channels
<1>8. QED
  BY <1>3, <1>4, <1>5, <1>7

(* The other steps of a handler do not touch what the manager has of it.   *)
LEMMA HandlerInv ==
  ASSUME WatchersIInv, NEW c \in Clients, Connect(c) \/ Return(c) \/ Unregister(c) \/ Leave(c)
  PROVE  WatchersIInv'
<1> USE DEF WatchersIInv
<1>1. PICK p \in Phases : /\ phase' = [phase EXCEPT ![c] = p]
                           /\ p # "new" /\ (p = "register" => phase[c] = "new")
  BY DEF Connect, Return, Unregister, Leave, Goes, Phases
<1>2. UNCHANGED <<lifecycle, manager, events, subscribes, queue, last>>
  BY DEF Connect, Return, Unregister, Leave, channels
<1>3. unsubscribes' \in Seq(Clients) /\ Len(unsubscribes') <= ChanCap
  <2>1. CASE unsubscribes' = unsubscribes
    BY <2>1 DEF TypeOK
  <2>2. CASE unsubscribes' = Append(unsubscribes, c) /\ Len(unsubscribes) < ChanCap
    BY <2>2, AppendOf, SparkAssumption DEF TypeOK
  <2>3. QED
    BY <2>1, <2>2 DEF Connect, Return, Unregister, Leave, channels
<1>4. TypeOK'
  BY <1>1, <1>2, <1>3 DEF TypeOK, lifecycle, manager
<1>5. Waiting' /\ \A d \in Clients : Unserved(d)' => Unserved(d)
  BY <1>1, <1>2 DEF Waiting, Unserved, TypeOK
<1>6. QED
  BY <1>2, <1>4, <1>5 DEF NoPanic, Untouched, Chain, manager

(* The streams are closed and the manager is killed.                       *)
LEMMA CloseInv ==
  ASSUME WatchersIInv, CloseStreams \/ Kill \/ UNCHANGED vars
  PROVE  WatchersIInv'
<1> USE DEF WatchersIInv
<1>1. UNCHANGED <<manager, channels, queue, phase, last>>
  BY DEF CloseStreams, Kill, vars, manager, channels
<1>2. open' \in BOOLEAN /\ dying' \in BOOLEAN
  BY DEF TypeOK, CloseStreams, Kill, vars
<1>3. TypeOK'
  BY <1>1, <1>2 DEF TypeOK, manager, channels
<1>4. QED
  BY <1>1, <1>3 DEF NoPanic, Waiting, Unserved, Untouched, Chain, manager, channels

LEMMA WatchersStepInv == WatchersIInv /\ [Next]_vars => WatchersIInv'
  BY BroadcastInv, TakeSubscribeInv, TakeEventInv, ManagerLeavesInv, RegisterInv, DeliverInv,
     HandlerInv, CloseInv
  DEF Next, Handler

(* The queues: what waits in one continues what its client has been given, *)
(* for every number of connections and every capacity.                     *)
THEOREM WatchersIInvHolds == Spec => []WatchersIInv
  BY WatchersInitInv, WatchersStepInv, PTL DEF Spec

-----------------------------------------------------------------------------
(* A queue is unregistered by a handler that does not serve it any more.   *)
Departed ==
  \A i \in 1..Len(unsubscribes) : phase[unsubscribes[i]] = "gone"

LEMMA DepartedKept ==
  ASSUME TypeOK, Departed, [Next]_vars
  PROVE  Departed'
<1>1. ASSUME NEW c \in Clients, phase[c] = "gone"
      PROVE  phase'[c] = "gone"
  BY <1>1 DEF TypeOK, Next, Handler, Broadcast, TakeSubscribe, TakeEvent, TakeUnsubscribe,
       Die, CloseStreams, Kill, Connect, Register, Deliver, Return, Unregister, Leave,
       Goes, vars
<1>2. unsubscribes \in Seq(Clients)
      /\ \A i \in 1..Len(unsubscribes) : unsubscribes[i] \in Clients
  BY DEF TypeOK
<1>3. CASE unsubscribes' = unsubscribes
  BY <1>1, <1>2, <1>3 DEF Departed
<1>4. CASE TakeUnsubscribe
  <2>1. unsubscribes' = Tail(unsubscribes) /\ unsubscribes # <<>> /\ phase' = phase
    BY <1>4 DEF TakeUnsubscribe
  <2>2. /\ Len(unsubscribes') = Len(unsubscribes) - 1 /\ Len(unsubscribes) \in Nat
        /\ \A i \in 1..Len(unsubscribes') : unsubscribes'[i] = unsubscribes[i + 1]
    BY <1>2, <2>1, TailOf
  <2> QED
    BY <2>1, <2>2 DEF Departed
<1>5. ASSUME NEW c \in Clients, Unregister(c), unsubscribes' = Append(unsubscribes, c)
      PROVE  Departed'
  <2>1. phase'[c] = "gone"
    BY <1>5 DEF Unregister, Goes, TypeOK
  <2>2. /\ Len(unsubscribes') = Len(unsubscribes) + 1 /\ Len(unsubscribes) \in Nat
        /\ \A i \in 1..Len(unsubscribes) : unsubscribes'[i] = unsubscribes[i]
        /\ unsubscribes'[Len(unsubscribes) + 1] = c
    BY <1>2, <1>5, AppendOf
  <2> QED
    BY <1>1, <1>2, <2>1, <2>2 DEF Departed
<1>6. \/ unsubscribes' = unsubscribes \/ TakeUnsubscribe
      \/ \E c \in Clients : Unregister(c) /\ unsubscribes' = Append(unsubscribes, c)
  BY DEF Next, Handler, Broadcast, TakeSubscribe, TakeEvent, Die, CloseStreams, Kill,
       Connect, Register, Deliver, Return, Unregister, Leave, channels, vars
<1> QED
  BY <1>3, <1>4, <1>5, <1>6

(* The queue of a client that is served leaves the channel for the map, and *)
(* the map when it is closed.                                              *)
LEMMA ForgottenKept ==
  ASSUME TypeOK, Departed, NoneForgotten, [Next]_vars
  PROVE  NoneForgotten'
<1> DEFINE Held == Awaited \cup queues \cup closed
<1>1. ASSUME NEW c \in Clients, phase'[c] = "serving", phase[c] = "serving"
      PROVE  c \in Held'
  <2>0. c \in Held
    BY <1>1 DEF NoneForgotten
  <2>1. CASE TakeSubscribe
    <3>1. /\ subscribes' = Tail(subscribes) /\ subscribes # <<>> /\ closed' = closed
          /\ queues' = queues \cup {Head(subscribes)} /\ subscribes \in Seq(Clients)
      BY <2>1 DEF TakeSubscribe, TypeOK
    <3>2. /\ Len(subscribes') = Len(subscribes) - 1 /\ Len(subscribes) \in Nat
          /\ Head(subscribes) = subscribes[1]
          /\ \A i \in 1..Len(subscribes') : subscribes'[i] = subscribes[i + 1]
          /\ DOMAIN subscribes' = 1..Len(subscribes')
          /\ DOMAIN subscribes = 1..Len(subscribes)
      BY <3>1, TailOf
    <3>3. ASSUME NEW i \in 1..Len(subscribes), i # 1, c = subscribes[i]
          PROVE  c \in Awaited'
      <4>1. i - 1 \in 1..Len(subscribes') /\ subscribes'[i - 1] = c
        BY <3>2, <3>3
      <4> QED
        BY <3>2, <4>1 DEF Awaited
    <3> QED
      BY <2>0, <3>1, <3>2, <3>3 DEF Awaited
  <2>2. CASE TakeEvent \/ Die
    BY <2>0, <2>2 DEF TakeEvent, Die, channels, Awaited
  <2>3. CASE TakeUnsubscribe
    <3>1. c # Head(unsubscribes)
      <4>1. unsubscribes \in Seq(Clients) /\ unsubscribes # <<>>
        BY <2>3 DEF TakeUnsubscribe, TypeOK
      <4>2. Head(unsubscribes) = unsubscribes[1] /\ Len(unsubscribes) \in Nat \ {0}
        BY <4>1, TailOf
      <4> QED
        BY <1>1, <4>2 DEF Departed
    <3> QED
      BY <2>0, <2>3, <3>1 DEF TakeUnsubscribe, Awaited
  <2>4. CASE \E d \in Clients : Register(d) /\ subscribes' = Append(subscribes, d)
    <3>1. PICK d \in Clients : Register(d) /\ subscribes' = Append(subscribes, d)
      BY <2>4
    <3>2. /\ \A i \in 1..Len(subscribes) : subscribes'[i] = subscribes[i]
          /\ Len(subscribes') = Len(subscribes) + 1 /\ Len(subscribes) \in Nat
          /\ subscribes' \in Seq(Clients) /\ subscribes \in Seq(Clients)
      BY <3>1, AppendOf DEF TypeOK
    <3>3. DOMAIN subscribes' = 1..Len(subscribes')
          /\ DOMAIN subscribes = 1..Len(subscribes)
      BY <3>2
    <3>4. Awaited \subseteq Awaited'
      BY <3>2, <3>3 DEF Awaited
    <3> QED
      BY <2>0, <3>1, <3>4 DEF Register, manager
  <2>5. CASE UNCHANGED <<subscribes, queues, closed>>
    BY <2>0, <2>5 DEF Awaited
  <2> QED
    BY <2>1, <2>2, <2>3, <2>4, <2>5
       DEF Next, Handler, Broadcast, CloseStreams, Kill, Connect, Register, Deliver,
           Return, Unregister, Leave, manager, channels, vars
<1>2. ASSUME NEW c \in Clients, phase'[c] = "serving", phase[c] # "serving"
      PROVE  c \in Held'
  <2>1. Register(c) /\ subscribes' = Append(subscribes, c)
    BY <1>2
       DEF TypeOK, Next, Handler, Broadcast, TakeSubscribe, TakeEvent, TakeUnsubscribe,
           Die, CloseStreams, Kill, Connect, Register, Deliver, Return, Unregister, Leave,
           Goes, vars
  <2>2. /\ subscribes'[Len(subscribes) + 1] = c /\ Len(subscribes) \in Nat
        /\ subscribes' \in Seq(Clients) /\ Len(subscribes') = Len(subscribes) + 1
    BY <2>1, AppendOf DEF TypeOK
  <2>3. DOMAIN subscribes' = 1..Len(subscribes')
    BY <2>2
  <2> QED
    BY <2>2, <2>3 DEF Awaited
<1> QED
  BY <1>1, <1>2 DEF NoneForgotten

(* For any number of connections and any capacities: the manager neither   *)
(* adds an event to a queue that it has closed nor closes one twice, and   *)
(* does not lose one without closing it while its client is served         *)
(* (spark/manager.go run).                                                 *)
THEOREM ManagerInvHolds == Spec => []ManagerInv
<1>1. Init => Departed /\ NoneForgotten
  BY DEF Init, Departed, NoneForgotten
<1>2. TypeOK /\ Departed /\ NoneForgotten /\ [Next]_vars
        => (Departed /\ NoneForgotten)'
  BY DepartedKept, ForgottenKept
<1>3. WatchersIInv => TypeOK /\ NoPanic
  BY DEF WatchersIInv
<1>4. QED
  BY <1>1, <1>2, <1>3, WatchersIInvHolds, PTL DEF Spec, ManagerInv

(* What a client has seen is a chain if its queue is and its last event is *)
(* the one before.                                                         *)
LEMMA ChainSeen ==
  ASSUME TypeOK, NEW c \in Clients, Chain(c)
  PROVE  /\ \A i \in 1..(Len(Seen(c)) - 1) : Seen(c)[i] = Older(Seen(c)[i + 1])
         /\ c \in queues /\ Seen(c) # <<>> => Seen(c)[Len(Seen(c))] = events
<1> DEFINE s == queue[c]
<1>1. s \in Seq(Ages) /\ Len(s) \in Nat /\ (s = <<>> <=> Len(s) = 0)
  BY DEF TypeOK
<1>2. CASE last[c] = None
  BY <1>2 DEF Seen, Chain
<1>3. CASE last[c] # None
  <2> DEFINE t == <<last[c]>> \o s
  <2>1. /\ Seen(c) = t /\ last[c] \in Ages
    BY <1>3 DEF Seen, TypeOK
  <2>2. /\ Len(t) = Len(s) + 1 /\ t[1] = last[c]
        /\ \A i \in 2..Len(t) : t[i] = s[i - 1]
    BY <1>1, <2>1
  <2>3. \A i \in 1..(Len(t) - 1) : t[i] = Older(t[i + 1])
    <3>1. ASSUME NEW i \in 1..(Len(t) - 1), i = 1
          PROVE  t[i] = Older(t[i + 1])
      BY <1>1, <1>3, <2>2, <3>1 DEF Chain
    <3>2. ASSUME NEW i \in 1..(Len(t) - 1), i > 1
          PROVE  t[i] = Older(t[i + 1])
      BY <1>1, <2>2, <3>2 DEF Chain
    <3>3. QED
      BY <1>1, <2>2, <3>1, <3>2
  <2>4. c \in queues => t[Len(t)] = events
    BY <1>1, <1>3, <2>2 DEF Chain
  <2>5. QED
    BY <2>1, <2>3, <2>4
<1>4. QED
  BY <1>2, <1>3

(* No client misses an event between two that it receives: one that is too *)
(* slow is disconnected (spark/manager.go run).                            *)
THEOREM NoGapHolds == Spec => []NoGap
<1>1. WatchersIInv => NoGap
  BY ChainSeen DEF WatchersIInv, NoGap
<1>2. QED
  BY <1>1, WatchersIInvHolds, PTL

-----------------------------------------------------------------------------

(***************************************************************************)
(* The reactor: until the tag has lost count, a valid status for another   *)
(* input than that of the model leaves a tag, whatever the interleaving of *)
(* saves, jobs, scans and crashes.                                         *)
(***************************************************************************)

(* An output that is valid is that of the hash, and a job whose handler is *)
(* at work is running.  The tag counts saves at most once.                 *)
Bounded ==
  /\ model.tag <= saves
  /\ Rejecting => scan.tag > 0
  /\ worker.phase # "idle" => job = "running"
  /\ model.status.valid => /\ model.output = model.status.hash
                           /\ ~model.status.failed

(* The tag counts the saves after the handler has loaded the model: they   *)
(* remain when it decrements the tag.  What it has loaded was valid if the *)
(* model is.                                                               *)
Counts ==
  Handling =>
    /\ ~Rejecting
    /\ worker.seen.tag \in 0..model.tag
    /\ worker.seen.input # model.input => worker.seen.tag < model.tag
    /\ model.status.valid => /\ worker.seen.status.valid
                             /\ worker.seen.status.hash = model.status.hash
                             /\ ~worker.seen.status.failed

Outdated == model.status.valid /\ model.status.hash # model.input

(* An outdated output leaves a tag, also when a scan has cleared what it   *)
(* has found.                                                              *)
Tagged ==
  /\ model.tag >= 0
  /\ Outdated => model.tag > 0
  /\ Rejecting => /\ scan.tag <= model.tag
                  /\ Outdated => scan.tag < model.tag

ReactorIInv ==
  /\ ReactorTypeOK
  /\ Bounded
  /\ ~lapsed => Counts /\ Tagged

-----------------------------------------------------------------------------

LEMMA FreshType == Fresh \in Models /\ Fresh.input \in Inputs
<1>1. (CHOOSE i \in Inputs : \A j \in Inputs : i <= j) \in Inputs
  BY TorchAssumption
<1> QED
  BY <1>1 DEF Fresh, Models, NoStatus, Statuses, Hashes

(* What the proofs use of the types.                                       *)
LEMMA ReactorTypes ==
  ASSUME ReactorTypeOK
  PROVE  /\ model.tag \in Int /\ worker.seen.tag \in Int /\ scan.tag \in Int
         /\ model.input \in Nat /\ worker.seen.input \in Nat
         /\ saves \in Nat /\ MaxSaves \in Nat
         /\ model.status \in Statuses /\ worker.seen.status \in Statuses
         /\ worker.seen \in Models /\ model \in Models
<1>1. MaxSaves \in Nat
  BY TorchAssumption
<1>2. \A h \in Hashes : h \in Nat
  BY TorchAssumption DEF Hashes
<1>3. worker.seen \in Models /\ model \in Models /\ scan.tag \in Int
      /\ saves \in Nat
  BY <1>1 DEF ReactorTypeOK, WorkerStates, ScanStates
<1>4. /\ model.tag \in Int /\ worker.seen.tag \in Int
      /\ model.input \in Hashes /\ worker.seen.input \in Hashes
      /\ model.status \in Statuses /\ worker.seen.status \in Statuses
  BY <1>3 DEF Models
<1> QED
  BY <1>1, <1>2, <1>3, <1>4

LEMMA StatusTypes ==
  /\ \A hash \in Hashes : Valid(hash) \in Statuses
  /\ \A failed \in BOOLEAN : Pending(failed) \in Statuses
  /\ NoInput \in Hashes
BY DEF Valid, Pending, Statuses, Hashes

LEMMA ReactorInitInv == ReactorInit => ReactorIInv
<1> SUFFICES ASSUME ReactorInit PROVE ReactorIInv
  OBVIOUS
<1>l. lapsed \in BOOLEAN
  BY DEF ReactorInit
<1>1. ReactorTypeOK
  BY <1>l, FreshType, TorchAssumption
     DEF ReactorInit, ReactorTypeOK, Idle, NoScan, WorkerStates, ScanStates, Fresh
<1>2. Bounded
  BY TorchAssumption DEF ReactorInit, Bounded, Rejecting, Idle, NoScan, Fresh, NoStatus
<1>3. Counts /\ Tagged
  BY DEF ReactorInit, Counts, Tagged, Handling, Rejecting, Outdated, Idle, NoScan,
         Fresh, NoStatus
<1> QED
  BY <1>1, <1>2, <1>3 DEF ReactorIInv

-----------------------------------------------------------------------------

(* What a save that finds the output current leaves.                       *)
LEMMA SaveKeeps ==
  ASSUME ReactorIInv, NEW i \in Inputs, Save(i), 
         ~Filter([model EXCEPT !.input = i]),
         model' = [model EXCEPT !.input = i], UNCHANGED job,
         lapsed' = (lapsed \/ (Handling /\ i # worker.seen.input))
  PROVE  ReactorIInv'
<1>0. ReactorTypeOK /\ Bounded
  BY DEF ReactorIInv
<1> USE ReactorTypes, <1>0
<1>t. i \in Nat /\ i \in Hashes
  BY TorchAssumption DEF Hashes
<1>1. ReactorTypeOK'
  BY <1>t DEF ReactorTypeOK, Save, Models
<1>2. Bounded'
  BY DEF ReactorTypeOK, Bounded, Rejecting, Save, Models
<1>3. ASSUME ~lapsed'
      PROVE  Counts' /\ Tagged'
  <2>0. ~lapsed /\ Counts /\ Tagged /\ (Handling => worker.seen.input = i)
    BY <1>3 DEF ReactorIInv
  <2>1. model.status.valid => model.status.hash = i
    BY DEF Filter, Bounded, Models, ReactorTypeOK
  <2>2. /\ model'.tag = model.tag /\ model'.status = model.status
        /\ model'.input = i
    BY DEF Models
  <2>3. ~Outdated'
    BY <2>1, <2>2 DEF Outdated
  <2> QED
    BY <2>0, <2>2, <2>3 DEF Save, Counts, Tagged, Handling, Rejecting
<1> QED
  BY <1>1, <1>2, <1>3 DEF ReactorIInv, Save

(* What is released in the transaction has not been known before.          *)
LEMMA SaveReleases ==
  ASSUME ReactorIInv, NEW i \in Inputs, Save(i), 
         Filter([model EXCEPT !.input = i]),
         Released([model EXCEPT !.input = i]),
         model' = [Release([model EXCEPT !.input = i]) EXCEPT !.tag = 0],
         UNCHANGED job, lapsed' = (lapsed \/ Handling \/ Rejecting)
  PROVE  ReactorIInv'
<1>0. ReactorTypeOK /\ Bounded
  BY DEF ReactorIInv
<1> USE ReactorTypes, <1>0
<1>t. i \in Nat /\ i \in Hashes
  BY TorchAssumption DEF Hashes
<1>m. /\ model' \in Models
      /\ model'.tag = 0 /\ model'.input = i /\ model'.output = NoInput
      /\ model'.status = Valid(NoInput)
  <2> DEFINE m == [model EXCEPT !.input = i]
  <2>1. m \in Models /\ m.input = i
    BY <1>t DEF Models
  <2>2. /\ Release(m) \in Models /\ Release(m).input = i
        /\ Release(m).output = NoInput /\ Release(m).status = Valid(NoInput)
    BY <2>1, StatusTypes DEF Release, Models
  <2> QED
    BY <2>2 DEF Models
<1>i. i = NoInput
  BY DEF Released, Models
<1>1. ReactorTypeOK'
  BY <1>m DEF ReactorTypeOK, Save
<1>2. Bounded'
  BY <1>m DEF Bounded, Rejecting, Save, Valid
<1>3. ASSUME ~lapsed'
      PROVE  Counts' /\ Tagged'
  <2>1. ~Handling' /\ ~Rejecting'
    BY <1>3 DEF Save, Handling, Rejecting
  <2>2. ~Outdated'
    BY <1>m, <1>i DEF Outdated, Valid
  <2> QED
    BY <2>1, <2>2, <1>m DEF Counts, Tagged
<1> QED
  BY <1>1, <1>2, <1>3 DEF ReactorIInv, Save

(* A save that defers the computation clears the status and counts.        *)
LEMMA SaveDefers ==
  ASSUME ReactorIInv, NEW i \in Inputs, Save(i), 
         model' = Deferred([model EXCEPT !.input = i]),
         job' = Enqueued, UNCHANGED lapsed
  PROVE  ReactorIInv'
<1>0. ReactorTypeOK /\ Bounded
  BY DEF ReactorIInv
<1> USE ReactorTypes, <1>0
<1>t. i \in Nat /\ i \in Hashes
  BY TorchAssumption DEF Hashes
<1>m. /\ model' \in Models
      /\ model'.tag = model.tag + 1 /\ model'.input = i
      /\ model'.status = Pending(model.status.failed)
  <2> DEFINE m == [model EXCEPT !.input = i]
  <2>1. model.status.failed \in BOOLEAN
    BY DEF Statuses
  <2>2. /\ m \in Models /\ m.input = i /\ m.tag = model.tag
        /\ m.status = model.status
    BY <1>t DEF Models
  <2>3. model' = Deferred(m)
    OBVIOUS
  <2> HIDE DEF m
  <2>4. Pending(m.status.failed) \in Statuses
    BY <2>1, <2>2, StatusTypes
  <2>5. Deferred(m) =
          [m EXCEPT !.output = IF Releaser /\ m.status.hash # NoInput
                               THEN NoInput ELSE m.output,
                    !.status = Pending(m.status.failed),
                    !.tag = m.tag + 1]
    BY DEF Deferred
  <2>6. model.tag + 1 \in Int /\ NoInput \in Hashes
    BY StatusTypes
  <2> DEFINE o == IF Releaser /\ m.status.hash # NoInput
                  THEN NoInput ELSE m.output
  <2>7. o \in Hashes
    BY <2>2, <2>6 DEF Models
  <2>8. model' = [m EXCEPT !.output = o,
                           !.status = Pending(m.status.failed),
                           !.tag = m.tag + 1]
    BY <2>3, <2>5
  <2> HIDE DEF o
  <2> QED
    BY <2>2, <2>4, <2>6, <2>7, <2>8 DEF Models
<1>1. ReactorTypeOK'
  BY <1>m DEF ReactorTypeOK, Bounded, Save, Enqueued
<1>2. Bounded'
  BY <1>m DEF Bounded, Rejecting, Save, Pending, Enqueued, ReactorTypeOK
<1>3. ASSUME ~lapsed'
      PROVE  Counts' /\ Tagged'
  <2>0. Counts /\ Tagged
    BY <1>3 DEF ReactorIInv
  <2>1. Counts'
    BY <2>0, <1>m, <1>t DEF Save, Counts, Pending, Handling, Rejecting
  <2>2. ~Outdated'
    BY <1>m DEF Outdated, Pending
  <2> QED
    BY <2>0, <2>1, <2>2, <1>m DEF Save, Tagged, Rejecting
<1> QED
  BY <1>1, <1>2, <1>3 DEF ReactorIInv, Save

LEMMA SaveInv == ASSUME ReactorIInv, NEW i \in Inputs, Save(i) PROVE ReactorIInv'
BY SaveKeeps, SaveReleases, SaveDefers DEF Save

-----------------------------------------------------------------------------

LEMMA LoadInv == ASSUME ReactorIInv, Load PROVE ReactorIInv'
<1>0. ReactorTypeOK /\ Bounded
  BY DEF ReactorIInv
<1> USE ReactorTypes, <1>0
<1>1. ReactorTypeOK'
  BY DEF ReactorTypeOK, Load, WorkerStates
<1>2. Bounded'
  BY DEF Bounded, Rejecting, Load
<1>3. ASSUME ~lapsed'
      PROVE  Counts' /\ Tagged'
  <2>1. ~lapsed /\ ~Rejecting /\ Tagged
    BY <1>3 DEF ReactorIInv, Load
  <2> QED
    BY <2>1 DEF Load, Bounded, Counts, Tagged, Handling, Rejecting, Outdated
<1> QED
  BY <1>1, <1>2, <1>3 DEF ReactorIInv, Load

LEMMA DecrementedTag ==
  ASSUME ReactorTypeOK, NEW n \in Int
  PROVE  Decremented(n) \in Int /\ Decremented(n) <= model.tag
BY ReactorTypes DEF Decremented

(* After an update the handler is not in the middle of a computation.      *)
LEMMA UpdatedWorker ==
  ASSUME ReactorTypeOK, Updated
  PROVE  worker' \in WorkerStates /\ worker'.phase = "updated"
BY DEF ReactorTypeOK, Updated, WorkerStates

LEMMA RejectInv == ASSUME ReactorIInv, Reject PROVE ReactorIInv'
<1>0. ReactorTypeOK /\ Bounded
  BY DEF ReactorIInv
<1> USE ReactorTypes, <1>0
<1> DEFINE n == worker.seen.tag
<1>d. Decremented(n) \in Int /\ Decremented(n) <= model.tag
  BY DecrementedTag
<1>w. worker' \in WorkerStates /\ worker'.phase = "updated"
  BY UpdatedWorker DEF Reject
<1>m. /\ model' \in Models
      /\ model'.tag = Decremented(n) /\ model'.input = model.input
      /\ model'.output = model.output /\ model'.status = model.status
  BY <1>d DEF Reject, Models
<1>1. ReactorTypeOK'
  BY <1>m, <1>d, <1>w DEF ReactorTypeOK, Reject
<1>2. Bounded'
  BY <1>m, <1>d, <1>w DEF Bounded, Reject, Handling, Rejecting
<1>3. ASSUME ~lapsed'
      PROVE  Counts' /\ Tagged'
  <2>0. Counts /\ Tagged /\ Handling /\ ~Handling' /\ ~Rejecting /\ ~Rejecting'
    BY <1>3, <1>w DEF ReactorIInv, Reject, Counts, Handling, Rejecting
  <2>1. Decremented(n) >= 0
    BY <2>0 DEF Counts, Decremented
  <2>2. model.status.valid =>
          model.status.hash = worker.seen.input
    BY <2>0 DEF Reject, Filter, Counts
  <2>3. Outdated => Decremented(n) > 0
    BY <2>0, <2>2 DEF Counts, Tagged, Outdated, Decremented
  <2> QED
    BY <2>0, <2>1, <2>3, <1>m DEF Counts, Tagged, Outdated
<1> QED
  BY <1>1, <1>2, <1>3 DEF ReactorIInv, Reject

(* The saves that the computation has missed remain in the tag.            *)
LEMMA FinishInv == ASSUME ReactorIInv, Finish PROVE ReactorIInv'
<1>0. ReactorTypeOK /\ Bounded
  BY DEF ReactorIInv
<1> USE ReactorTypes, <1>0
<1> DEFINE n == worker.seen.tag
<1>d. Decremented(n) \in Int /\ Decremented(n) <= model.tag
  BY DecrementedTag
<1>w. worker' \in WorkerStates /\ worker'.phase = "updated"
  BY UpdatedWorker DEF Finish
<1>h. worker.seen.input \in Hashes
  BY DEF Models
<1>m. /\ model' \in Models
      /\ model'.tag = Decremented(n) /\ model'.input = model.input
      /\ model'.output = worker.seen.input
      /\ model'.status = Valid(worker.seen.input)
  BY <1>d, <1>h, StatusTypes DEF Finish, StatusOf, Models
<1>1. ReactorTypeOK'
  BY <1>m, <1>d, <1>w DEF ReactorTypeOK, Finish
<1>2. Bounded'
  BY <1>m, <1>d, <1>w DEF Bounded, Finish, Valid, Handling, Rejecting
<1>3. ASSUME ~lapsed'
      PROVE  Counts' /\ Tagged'
  <2>0. Counts /\ Handling /\ ~Handling' /\ ~Rejecting /\ ~Rejecting'
    BY <1>3, <1>w DEF ReactorIInv, Finish, Counts, Handling, Rejecting
  <2>1. Decremented(n) >= 0
    BY <2>0 DEF Counts, Decremented
  <2>2. worker.seen.input # model.input => Decremented(n) > 0
    BY <2>0 DEF Counts, Decremented
  <2> QED
    BY <2>0, <2>1, <2>2, <1>m DEF Counts, Tagged, Outdated, Valid
<1> QED
  BY <1>1, <1>2, <1>3 DEF ReactorIInv, Finish

LEMMA ProgressInv == ASSUME ReactorIInv, Progress PROVE ReactorIInv'
<1>0. ReactorTypeOK /\ Bounded
  BY DEF ReactorIInv
<1> USE ReactorTypes, <1>0
<1>m. /\ model' \in Models
      /\ model'.tag = model.tag /\ model'.input = model.input
      /\ model'.status = Pending(worker.seen.status.failed)
  <2>1. worker.seen.status.failed \in BOOLEAN
    BY DEF Statuses
  <2> QED
    BY <2>1, StatusTypes DEF Progress, Models
<1>1. ReactorTypeOK'
  BY <1>m DEF ReactorTypeOK, Progress
<1>2. Bounded'
  BY <1>m DEF Bounded, Rejecting, Progress, Pending
<1>3. ASSUME ~lapsed'
      PROVE  Counts' /\ Tagged'
  <2>1. Counts /\ Tagged
    BY <1>3 DEF ReactorIInv, Progress
  <2>2. ~Outdated'
    BY <1>m DEF Outdated, Pending
  <2> QED
    BY <2>1, <2>2, <1>m
       DEF Progress, Counts, Tagged, Handling, Rejecting, Pending
<1> QED
  BY <1>1, <1>2, <1>3 DEF ReactorIInv, Progress

LEMMA FailJobInv == ASSUME ReactorIInv, FailJob PROVE ReactorIInv'
<1>0. ReactorTypeOK /\ Bounded
  BY DEF ReactorIInv
<1> USE ReactorTypes, <1>0
<1> DEFINE n == worker.seen.tag
<1>d. Decremented(n) \in Int /\ Decremented(n) <= model.tag
  BY DecrementedTag
<1>w. worker' \in WorkerStates /\ worker'.phase = "updated"
  BY UpdatedWorker DEF FailJob
<1>f. failures' \in 0..MaxFailures
  BY TorchAssumption DEF FailJob, Fault, ReactorTypeOK
<1>m. /\ model' \in Models
      /\ model'.tag \in {model.tag, Decremented(n)}
      /\ ~model'.status.valid \/ model' = model
  <2>1. CASE Retry
    <3>1. [model EXCEPT !.status = Pending(TRUE), !.tag = Decremented(n)]
            \in Models
      BY <1>d, StatusTypes DEF Models
    <3> QED
      BY <2>1, <3>1 DEF FailJob, Models, Pending
  <2>2. CASE ~Retry
    BY <2>2 DEF FailJob
  <2> QED
    BY <2>1, <2>2
<1>1. ReactorTypeOK'
  BY <1>m, <1>d, <1>w, <1>f DEF ReactorTypeOK, FailJob
<1>2. Bounded'
  <2>1. model'.tag <= saves'
    BY <1>m, <1>d DEF Bounded, FailJob
  <2>2. model'.status.valid => /\ model'.output = model'.status.hash
                              /\ ~model'.status.failed
    BY <1>m DEF Bounded
  <2>3. job' = "running" /\ (Rejecting' => scan'.tag > 0)
    BY DEF Bounded, FailJob, Handling, Rejecting
  <2> QED
    BY <2>1, <2>2, <2>3 DEF Bounded
<1>3. ASSUME ~lapsed'
      PROVE  Counts' /\ Tagged'
  <2>0. Counts /\ Tagged /\ Handling /\ ~Handling' /\ ~Rejecting'
    BY <1>3, <1>w DEF ReactorIInv, FailJob, Counts, Handling, Rejecting
  <2>1. model'.tag >= 0
    BY <2>0, <1>m DEF Counts, Tagged, Decremented
  <2>2. Outdated' => model'.tag > 0
    BY <2>0, <1>m DEF Tagged, Outdated
  <2> QED
    BY <2>0, <2>1, <2>2 DEF Counts, Tagged
<1> QED
  BY <1>1, <1>2, <1>3 DEF ReactorIInv, FailJob

(* The handler that has ended or crashed has loaded nothing.               *)
LEMMA CompleteInv == ASSUME ReactorIInv, Complete PROVE ReactorIInv'
<1>0. ReactorTypeOK /\ Bounded
  BY DEF ReactorIInv
<1>1. ReactorTypeOK'
  BY <1>0, FreshType DEF ReactorTypeOK, Complete, WorkerStates, Idle
<1>2. Bounded'
  BY <1>0 DEF Bounded, Rejecting, Complete, Idle
<1>3. ASSUME ~lapsed'
      PROVE  Counts' /\ Tagged'
  BY <1>3
     DEF ReactorIInv, Complete, Counts, Tagged, Handling, Rejecting, Outdated, Idle
<1> QED
  BY <1>1, <1>2, <1>3 DEF ReactorIInv, Complete

LEMMA CrashInv == ASSUME ReactorIInv, Crash PROVE ReactorIInv'
<1>0. ReactorTypeOK /\ Bounded
  BY DEF ReactorIInv
<1>f. failures' \in 0..MaxFailures
  BY <1>0, TorchAssumption DEF Crash, Fault, ReactorTypeOK
<1>1. ReactorTypeOK'
  BY <1>0, <1>f, FreshType DEF ReactorTypeOK, Crash, WorkerStates, Idle
<1>2. Bounded'
  BY <1>0 DEF Bounded, Rejecting, Crash, Idle
<1>3. ASSUME ~lapsed'
      PROVE  Counts' /\ Tagged'
  BY <1>3
     DEF ReactorIInv, Crash, Counts, Tagged, Handling, Rejecting, Outdated, Idle
<1> QED
  BY <1>1, <1>2, <1>3 DEF ReactorIInv, Crash

-----------------------------------------------------------------------------

LEMMA ScanInv == ASSUME ReactorIInv, Scan PROVE ReactorIInv'
<1>0. ReactorTypeOK /\ Bounded
  BY DEF ReactorIInv
<1> USE ReactorTypes, <1>0
<1>c. \/ scan' = [phase |-> "enqueue", tag |-> 0] /\ UNCHANGED lapsed
      \/ /\ ~Filter(model) /\ model.tag > 0
         /\ scan' = [phase |-> "reject", tag |-> model.tag]
         /\ lapsed' = (lapsed \/ Handling)
  BY DEF Scan
<1>u. UNCHANGED <<setup, model, job, worker, saves, failures>>
  BY DEF Scan
<1>l. lapsed' \in BOOLEAN /\ (lapsed => lapsed')
  BY <1>c DEF ReactorTypeOK
<1>s. scan' \in ScanStates /\ (Rejecting' => scan'.tag > 0)
  BY <1>c DEF ScanStates, Rejecting
<1>1. ReactorTypeOK'
  BY <1>s, <1>l, <1>u DEF ReactorTypeOK
<1>2. Bounded'
  BY <1>s, <1>u DEF Bounded
<1>3. ASSUME ~lapsed'
      PROVE  Counts' /\ Tagged'
  <2>0. Counts /\ Tagged
    BY <1>3, <1>l DEF ReactorIInv
  <2>1. CASE scan' = [phase |-> "enqueue", tag |-> 0]
    BY <2>0, <2>1, <1>u DEF Counts, Tagged, Handling, Rejecting, Outdated
  <2>2. CASE /\ ~Filter(model) /\ lapsed' = (lapsed \/ Handling)
             /\ scan' = [phase |-> "reject", tag |-> model.tag]
    <3>1. ~Handling /\ ~Handling'
      BY <1>3, <2>2, <1>u DEF Handling
    <3>2. ~Outdated /\ ~Outdated'
      BY <2>2, <1>u DEF Filter, Bounded, Outdated
    <3> QED
      BY <2>0, <2>2, <3>1, <3>2, <1>u DEF Counts, Tagged
  <2> QED
    BY <1>c, <2>1, <2>2
<1> QED
  BY <1>1, <1>2, <1>3 DEF ReactorIInv

LEMMA ScanEnqueueInv == ASSUME ReactorIInv, ScanEnqueue PROVE ReactorIInv'
<1>0. ReactorTypeOK /\ Bounded
  BY DEF ReactorIInv
<1>1. ReactorTypeOK'
  BY <1>0 DEF ReactorTypeOK, ScanEnqueue, ScanStates, NoScan, Enqueued
<1>2. Bounded'
  BY <1>0 DEF Bounded, ScanEnqueue, NoScan, Enqueued, Rejecting
<1>3. ASSUME ~lapsed'
      PROVE  Counts' /\ Tagged'
  BY <1>3
     DEF ReactorIInv, ScanEnqueue, NoScan, Counts, Tagged, Handling, Rejecting,
         Outdated
<1> QED
  BY <1>1, <1>2, <1>3 DEF ReactorIInv

(* The saves since the scan has put the model aside remain counted.        *)
LEMMA ScanRejectInv == ASSUME ReactorIInv, ScanReject PROVE ReactorIInv'
<1>0. ReactorTypeOK /\ Bounded
  BY DEF ReactorIInv
<1> USE ReactorTypes, <1>0
<1>m. /\ model' \in Models /\ model'.tag = model.tag - scan.tag
      /\ model'.input = model.input
      /\ model'.output = model.output /\ model'.status = model.status
      /\ scan.tag > 0
  BY DEF ScanReject, Bounded, Models
<1>1. ReactorTypeOK'
  BY <1>m DEF ReactorTypeOK, ScanReject, ScanStates, NoScan
<1>2. Bounded'
  BY <1>m DEF Bounded, ScanReject, NoScan, Rejecting
<1>3. ASSUME ~lapsed'
      PROVE  Counts' /\ Tagged'
  <2>0. Counts /\ Tagged /\ Rejecting
    BY <1>3 DEF ReactorIInv, ScanReject
  <2>1. ~Handling' /\ ~Rejecting'
    BY <2>0 DEF ScanReject, NoScan, Counts, Handling, Rejecting
  <2> QED
    BY <2>0, <2>1, <1>m DEF Counts, Tagged, Outdated
<1> QED
  BY <1>1, <1>2, <1>3 DEF ReactorIInv

LEMMA TickInv == ASSUME ReactorIInv, Tick PROVE ReactorIInv'
<1>0. ReactorTypeOK /\ Bounded
  BY DEF ReactorIInv
<1> USE ReactorTypes, <1>0
<1>m. /\ model' \in Models
      /\ model'.tag = model.tag /\ model'.input = model.input
      /\ model'.output = model.output
      /\ model'.status.valid = model.status.valid
      /\ model'.status.hash = model.status.hash
      /\ model'.status.failed = model.status.failed
  BY DEF Tick, Models, Statuses
<1>1. ReactorTypeOK'
  BY <1>m DEF ReactorTypeOK, Tick
<1>2. Bounded'
  BY <1>m DEF Bounded, Rejecting, Tick
<1>3. ASSUME ~lapsed'
      PROVE  Counts' /\ Tagged'
  <2>1. Counts /\ Tagged
    BY <1>3 DEF ReactorIInv, Tick
  <2> QED
    BY <2>1, <1>m DEF Tick, Counts, Tagged, Handling, Rejecting, Outdated
<1> QED
  BY <1>1, <1>2, <1>3 DEF ReactorIInv, Tick

LEMMA StutterInv == ASSUME ReactorIInv, UNCHANGED reactorVars PROVE ReactorIInv'
BY DEF reactorVars, ReactorIInv, ReactorTypeOK, Bounded, Counts, Tagged, Handling,
       Rejecting, Outdated

LEMMA ReactorStepInv == ReactorIInv /\ [ReactorNext]_reactorVars => ReactorIInv'
BY SaveInv, LoadInv, RejectInv, FinishInv, ProgressInv, FailJobInv, CompleteInv,
   CrashInv, ScanInv, ScanEnqueueInv, ScanRejectInv, TickInv, StutterInv
   DEF ReactorNext

-----------------------------------------------------------------------------

(* The invariant is inductive: whatever the number of saves, failures and  *)
(* crashes, what a computation has missed is still counted when it ends.   *)
THEOREM ReactorIInvHolds == ReactorSpec => []ReactorIInv
BY ReactorInitInv, ReactorStepInv, PTL DEF ReactorSpec

(* An output that is not that of the input is invalid or tagged, so that   *)
(* the next scan finds it (torch/reactor.go, "guaranteed to be executed    *)
(* eventually"), with every setting, until the tag has lost count.         *)
THEOREM ReactorInvHolds == ReactorSpec => []ReactorInv
<1>1. ReactorIInv => ReactorInv
  <2>1. SUFFICES ASSUME ReactorIInv, ~lapsed, model.status.valid, ~(model.tag > 0)
                 PROVE  Current
    BY DEF ReactorIInv, ReactorInv, Tracked
  <2> QED
    BY <2>1 DEF ReactorIInv, Bounded, Tagged, Outdated, Current
<1> QED
  BY <1>1, ReactorIInvHolds, PTL


=============================================================================
