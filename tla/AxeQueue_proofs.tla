-------------------------- MODULE AxeQueue_proofs --------------------------
(***************************************************************************)
(* Proofs about what comes before and after a job's execution: that labels *)
(* are unique and isolation is honored when jobs are enqueued, and that    *)
(* the board of a queue knows the jobs there are.                          *)
(***************************************************************************)
EXTENDS AxeEnqueue, AxeBoard, TLAPS

(***************************************************************************)
(* Enqueueing.                                                             *)
(***************************************************************************)

(* A caller in the middle of an upsert has met every unfinished job with   *)
(* its label: there was none when it looked.                               *)
Unseen(c) ==
  callers[c].phase = "insert" =>
    \A i \in Ids : jobs[i].state \in Unfinished /\ jobs[i].label = callers[c].label
      => i \in meanwhile[c]

(* Nor was there one that had finished within the enforced isolation.      *)
Rested(c) ==
  callers[c].phase = "insert" =>
    \/ rested[callers[c].label] >= Enforced(callers[c].isolation)
    \/ \E i \in meanwhile[c] :
         /\ jobs[i].state \in Finished
         /\ jobs[i].label = callers[c].label
         /\ jobs[i].age = rested[callers[c].label]

(* The document of the last job that has finished is there, unless it is   *)
(* old enough to be removed.                                               *)
LastKept ==
  \A l \in Labels : rested[l] < Expiry =>
    \E i \in Ids : /\ jobs[i].state \in Finished
                   /\ jobs[i].label = l
                   /\ jobs[i].age = rested[l]

EnqueueIInv ==
  /\ TypeOK
  /\ LabelUnique
  /\ \A c \in Callers : Unseen(c) /\ Rested(c)
  /\ LastKept

-----------------------------------------------------------------------------

LEMMA Types ==
  ASSUME TypeOK
  PROVE  /\ \A i \in Ids :
              /\ jobs[i].state \in Unfinished \cup Finished \cup {"none"}
              /\ jobs[i].label \in Labels
              /\ jobs[i].age \in 0..AgeCap /\ jobs[i].age \in Nat
         /\ \A c \in Callers : /\ callers[c].label \in Labels
                               /\ callers[c].isolation \in Nat
         /\ \A l \in Labels : rested[l] \in 0..AgeCap /\ rested[l] \in Nat
         /\ AgeCap \in Nat /\ Expiry \in Nat /\ Expiry <= AgeCap
         /\ \A c \in Callers : Enforced(callers[c].isolation) \in Nat
                               /\ Enforced(callers[c].isolation) <= Expiry
<1>1. AgeCap \in Nat /\ Expiry \in Nat /\ Expiry <= AgeCap
  BY EnqueueAssumption
<1>2. ASSUME NEW n \in 0..AgeCap
      PROVE  n \in Nat
  BY <1>1
<1>3. ASSUME NEW i \in Ids
      PROVE  /\ jobs[i].state \in Unfinished \cup Finished \cup {"none"}
             /\ jobs[i].label \in Labels
             /\ jobs[i].age \in 0..AgeCap
  BY DEF TypeOK
<1>4. ASSUME NEW c \in Callers
      PROVE  callers[c].label \in Labels /\ callers[c].isolation \in Nat
  <2>1. callers[c] \in [phase : {"idle", "insert"}, label : Labels,
                        isolation : Isolations \cup {0}]
    BY DEF TypeOK
  <2>2. Isolations \cup {0} \subseteq Nat
    BY EnqueueAssumption
  <2> QED
    BY <2>1, <2>2
<1>5. ASSUME NEW l \in Labels
      PROVE  rested[l] \in 0..AgeCap
  BY DEF TypeOK
<1>6. ASSUME NEW c \in Callers
      PROVE  Enforced(callers[c].isolation) \in Nat
             /\ Enforced(callers[c].isolation) <= Expiry
  BY <1>1, <1>4 DEF Enforced
<1> QED
  BY <1>1, <1>2, <1>3, <1>4, <1>5, <1>6

LEMMA RecordTypes ==
  /\ NoDocument \in [state : Unfinished \cup Finished \cup {"none"},
                     label : Labels, age : 0..AgeCap]
  /\ Waiting \in [phase : {"idle", "insert"}, label : Labels,
                  isolation : Isolations \cup {0}]
BY EnqueueAssumption DEF NoDocument, Waiting

LEMMA InitInv == Init => EnqueueIInv
<1> SUFFICES ASSUME Init PROVE EnqueueIInv
  OBVIOUS
<1>1. TypeOK
  BY RecordTypes, EnqueueAssumption DEF Init, TypeOK
<1>2. LabelUnique
  BY DEF Init, LabelUnique, Open, NoDocument, Unfinished
<1>3. \A c \in Callers : Unseen(c) /\ Rested(c)
  BY DEF Init, Unseen, Rested, Waiting
<1>4. LastKept
  BY EnqueueAssumption DEF Init, LastKept
<1> QED
  BY <1>1, <1>2, <1>3, <1>4 DEF EnqueueIInv

(* The document of a finished job stays as it is while a job without one,  *)
(* or an unfinished one, changes.                                          *)
LEMMA LastKeptElsewhere ==
  ASSUME LastKept, NEW i \in Ids, jobs[i].state \notin Finished,
         \A j \in Ids \ {i} : jobs'[j] = jobs[j], UNCHANGED rested
  PROVE  LastKept'
<1> SUFFICES ASSUME NEW l \in Labels, rested[l] < Expiry
             PROVE  \E j \in Ids : /\ jobs'[j].state \in Finished
                                   /\ jobs'[j].label = l
                                   /\ jobs'[j].age = rested[l]
  BY DEF LastKept
<1> PICK j \in Ids : /\ jobs[j].state \in Finished /\ jobs[j].label = l
                     /\ jobs[j].age = rested[l]
  BY DEF LastKept
<1> QED
  OBVIOUS

(* The same of the job that a caller has met.                              *)
LEMMA RestedElsewhere ==
  ASSUME NEW c \in Callers, Rested(c), NEW i \in Ids,
         jobs[i].state \notin Finished, TypeOK,
         \A j \in Ids \ {i} : jobs'[j] = jobs[j], UNCHANGED rested,
         callers'[c].phase = "insert" => callers'[c] = callers[c],
         callers'[c].phase = "insert" => meanwhile[c] \subseteq meanwhile'[c]
  PROVE  Rested(c)'
<1> SUFFICES ASSUME callers'[c].phase = "insert",
                    ~(rested[callers[c].label] >= Enforced(callers[c].isolation))
             PROVE  \E j \in meanwhile'[c] :
                      /\ jobs'[j].state \in Finished
                      /\ jobs'[j].label = callers[c].label
                      /\ jobs'[j].age = rested[callers[c].label]
  BY DEF Rested
<1> PICK j \in meanwhile[c] : /\ jobs[j].state \in Finished
                              /\ jobs[j].label = callers[c].label
                              /\ jobs[j].age = rested[callers[c].label]
  BY DEF Rested
<1>1. j \in Ids \ {i}
  BY DEF TypeOK
<1> QED
  BY <1>1

(* Those in the middle of an upsert with the label meet the job.           *)
LEMMA MetFacts ==
  ASSUME TypeOK, NEW i \in Ids, NEW label \in Labels
  PROVE  /\ Met(i, label) \in [Callers -> SUBSET Ids]
         /\ \A c \in Callers :
              /\ meanwhile[c] \subseteq Met(i, label)[c]
              /\ (callers[c].phase = "insert" /\ callers[c].label = label) =>
                   i \in Met(i, label)[c]
<1>1. \A c \in Callers : meanwhile[c] \in SUBSET Ids
  BY DEF TypeOK
<1> QED
  BY <1>1 DEF Met, Upserts

(* A job is inserted, and the callers with its label have met it.  If the  *)
(* label is not the empty one, every unfinished job with it is a twin.     *)
LEMMA InsertedInv ==
  ASSUME EnqueueIInv, NEW i \in Ids, NEW label \in Labels, Inserted(i, label),
         callers' \in [Callers -> [phase : {"idle", "insert"}, label : Labels,
                                   isolation : Isolations \cup {0}]],
         meanwhile' \in [Callers -> SUBSET Ids],
         twins' \in [Ids -> SUBSET Ids],
         \A c \in Callers : callers'[c].phase = "insert" =>
           callers'[c] = callers[c] /\ meanwhile'[c] = Met(i, label)[c],
         \A j \in Ids \ {i} : twins'[j] = twins[j],
         label # NoLabel =>
           \A j \in Ids : jobs[j].state \in Unfinished /\ jobs[j].label = label
             => j \in twins'[i],
         UNCHANGED rested
  PROVE  EnqueueIInv'
<1>1. TypeOK /\ LabelUnique /\ LastKept
      /\ \A c \in Callers : Unseen(c) /\ Rested(c)
  BY DEF EnqueueIInv
<1>2. /\ jobs[i].state = "none"
      /\ jobs' \in [Ids -> [state : Unfinished \cup Finished \cup {"none"},
                            label : Labels, age : 0..AgeCap]]
      /\ \A j \in Ids \ {i} : jobs'[j] = jobs[j]
      /\ jobs'[i].state = "enqueued" /\ jobs'[i].label = label
  <2>1. 0 \in 0..AgeCap
    BY EnqueueAssumption
  <2> QED
    BY <1>1, <2>1 DEF Inserted, TypeOK, Unfinished
<1>3. jobs[i].state \notin Finished
  BY <1>2 DEF Finished
<1>4. TypeOK'
  BY <1>1, <1>2 DEF TypeOK
<1>5. LabelUnique'
  <2> SUFFICES ASSUME NEW l \in Labels \ {NoLabel},
                      NEW j \in Open(l)', NEW k \in Open(l)', j # k
               PROVE  j \in twins'[k] \/ k \in twins'[j]
    BY DEF LabelUnique
  <2>1. CASE j = i
    <3>1. k \in Ids \ {i} /\ jobs[k].state \in Unfinished
          /\ jobs[k].label = label /\ label # NoLabel
      BY <2>1, <1>2 DEF Open
    <3> QED
      BY <2>1, <3>1
  <2>2. CASE k = i
    <3>1. j \in Ids \ {i} /\ jobs[j].state \in Unfinished
          /\ jobs[j].label = label /\ label # NoLabel
      BY <2>2, <1>2 DEF Open
    <3> QED
      BY <2>2, <3>1
  <2>3. CASE j # i /\ k # i
    <3>1. j \in Open(l) /\ k \in Open(l) /\ j \in Ids \ {i} /\ k \in Ids \ {i}
      BY <2>3, <1>2 DEF Open
    <3> QED
      BY <3>1, <1>1 DEF LabelUnique
  <2> QED
    BY <2>1, <2>2, <2>3
<1>6. ASSUME NEW c \in Callers
      PROVE  Unseen(c)'
  <2> SUFFICES ASSUME callers'[c].phase = "insert", NEW j \in Ids,
                      jobs'[j].state \in Unfinished,
                      jobs'[j].label = callers'[c].label
               PROVE  j \in meanwhile'[c]
    BY DEF Unseen
  <2>1. callers'[c] = callers[c] /\ meanwhile'[c] = Met(i, label)[c]
    OBVIOUS
  <2>2. CASE j = i
    BY <2>1, <2>2, <1>1, <1>2, MetFacts
  <2>3. CASE j # i
    <3>1. j \in meanwhile[c]
      BY <2>1, <2>3, <1>1, <1>2 DEF Unseen
    <3> QED
      BY <3>1, <2>1, <1>1, MetFacts
  <2> QED
    BY <2>2, <2>3
<1>7. ASSUME NEW c \in Callers
      PROVE  Rested(c)'
  <2>1. callers'[c].phase = "insert" => meanwhile[c] \subseteq meanwhile'[c]
    BY <1>1, MetFacts
  <2> QED
    BY <2>1, <1>1, <1>2, <1>3, RestedElsewhere
<1>8. LastKept'
  BY <1>1, <1>2, <1>3, LastKeptElsewhere
<1> QED
  BY <1>4, <1>5, <1>6, <1>7, <1>8 DEF EnqueueIInv

LEMMA EnqueueFreelyInv ==
  ASSUME EnqueueIInv, NEW c \in Callers, EnqueueFreely(c)
  PROVE  EnqueueIInv'
<1> PICK i \in Ids : Inserted(i, NoLabel) /\ meanwhile' = Met(i, NoLabel)
  BY DEF EnqueueFreely
<1>1. UNCHANGED <<callers, rested, twins>> /\ NoLabel \in Labels
  BY EnqueueAssumption DEF EnqueueFreely
<1>2. TypeOK
  BY DEF EnqueueIInv
<1>3. meanwhile' \in [Callers -> SUBSET Ids]
  BY <1>1, <1>2, MetFacts
<1>4. /\ callers' \in [Callers -> [phase : {"idle", "insert"}, label : Labels,
                                   isolation : Isolations \cup {0}]]
      /\ twins' \in [Ids -> SUBSET Ids]
  BY <1>1, <1>2 DEF TypeOK
<1> QED
  BY <1>1, <1>3, <1>4, InsertedInv

(* What has not matched: no open job, and none that has finished recently. *)
LEMMA LookupInv ==
  ASSUME EnqueueIInv, NEW c \in Callers, Lookup(c)
  PROVE  EnqueueIInv'
<1>1. TypeOK /\ LabelUnique /\ LastKept
      /\ \A d \in Callers : Unseen(d) /\ Rested(d)
  BY DEF EnqueueIInv
<1> PICK label \in Labels, isolation \in Isolations :
      /\ \A i \in Ids : ~Conflicts(jobs[i], label, isolation)
      /\ callers' = [callers EXCEPT ![c] = [phase |-> "insert",
                                            label |-> label,
                                            isolation |-> isolation]]
  BY DEF Lookup
<1>2. UNCHANGED <<jobs, rested, meanwhile, twins>>
  BY DEF Lookup, history
<1>3. /\ callers' \in [Callers -> [phase : {"idle", "insert"}, label : Labels,
                                   isolation : Isolations \cup {0}]]
      /\ \A d \in Callers \ {c} : callers'[d] = callers[d]
      /\ callers'[c].label = label /\ callers'[c].isolation = isolation
  BY <1>1 DEF TypeOK
<1>4. TypeOK' /\ LastKept'
  BY <1>1, <1>2, <1>3 DEF TypeOK, LastKept
<1>5. LabelUnique'
  BY <1>1, <1>2 DEF LabelUnique, Open
<1>6. \A i \in Ids : jobs[i].state \in Unfinished => jobs[i].label # label
  BY DEF Conflicts
<1>7. rested[label] >= Enforced(isolation)
  <2>1. rested[label] \in Nat /\ Expiry \in Nat /\ isolation \in Nat
    BY <1>1, Types, EnqueueAssumption
  <2> SUFFICES ASSUME rested[label] < Enforced(isolation) PROVE FALSE
    BY <2>1 DEF Enforced
  <2>2. rested[label] < Expiry /\ rested[label] < isolation
    BY <2>1 DEF Enforced
  <2> PICK i \in Ids : /\ jobs[i].state \in Finished /\ jobs[i].label = label
                       /\ jobs[i].age = rested[label]
    BY <2>2, <1>1 DEF LastKept
  <2>3. isolation > 0
    BY <2>1, <2>2
  <2> QED
    BY <2>2, <2>3 DEF Conflicts
<1>8. ASSUME NEW d \in Callers
      PROVE  Unseen(d)' /\ Rested(d)'
  <2>1. CASE d = c
    BY <2>1, <1>2, <1>3, <1>6, <1>7 DEF Unseen, Rested
  <2>2. CASE d # c
    <3>1. callers'[d] = callers[d]
      BY <2>2, <1>3
    <3> QED
      BY <3>1, <1>1, <1>2 DEF Unseen, Rested
  <2> QED
    BY <2>1, <2>2
<1> QED
  BY <1>4, <1>5, <1>8 DEF EnqueueIInv

LEMMA InsertInv ==
  ASSUME EnqueueIInv, NEW c \in Callers, Insert(c)
  PROVE  EnqueueIInv'
<1>1. TypeOK /\ Unseen(c)
  BY DEF EnqueueIInv
<1> PICK i \in Ids : /\ Inserted(i, callers[c].label)
                     /\ meanwhile' = [Met(i, callers[c].label) EXCEPT ![c] = {}]
                     /\ twins' = [twins EXCEPT ![i] = meanwhile[c]]
  BY DEF Insert
<1>2. callers[c].label \in Labels
  BY <1>1, Types
<1>3. /\ callers' \in [Callers -> [phase : {"idle", "insert"}, label : Labels,
                                   isolation : Isolations \cup {0}]]
      /\ callers'[c].phase = "idle"
      /\ \A d \in Callers \ {c} : callers'[d] = callers[d]
      /\ UNCHANGED rested
  BY <1>1, RecordTypes DEF Insert, TypeOK, Waiting
<1>4. Met(i, callers[c].label) \in [Callers -> SUBSET Ids]
  BY <1>1, <1>2, MetFacts
<1>5. /\ meanwhile' \in [Callers -> SUBSET Ids]
      /\ \A d \in Callers \ {c} : meanwhile'[d] = Met(i, callers[c].label)[d]
  BY <1>4
<1>6. /\ twins' \in [Ids -> SUBSET Ids]
      /\ twins'[i] = meanwhile[c]
      /\ \A j \in Ids \ {i} : twins'[j] = twins[j]
  BY <1>1 DEF TypeOK
<1>7. \A d \in Callers : callers'[d].phase = "insert" =>
        callers'[d] = callers[d] /\ meanwhile'[d] = Met(i, callers[c].label)[d]
  BY <1>3, <1>5
<1>8. \A j \in Ids :
        jobs[j].state \in Unfinished /\ jobs[j].label = callers[c].label
          => j \in twins'[i]
  BY <1>1, <1>6 DEF Unseen, Insert
<1> QED
  BY <1>2, <1>3, <1>5, <1>6, <1>7, <1>8, InsertedInv

LEMMA AbortInv ==
  ASSUME EnqueueIInv, NEW c \in Callers, Abort(c)
  PROVE  EnqueueIInv'
<1>1. TypeOK /\ LabelUnique /\ LastKept
      /\ \A d \in Callers : Unseen(d) /\ Rested(d)
  BY DEF EnqueueIInv
<1>2. /\ callers' \in [Callers -> [phase : {"idle", "insert"}, label : Labels,
                                   isolation : Isolations \cup {0}]]
      /\ callers'[c].phase = "idle"
      /\ \A d \in Callers \ {c} : callers'[d] = callers[d]
      /\ UNCHANGED <<jobs, rested, twins>>
  BY <1>1, RecordTypes DEF Abort, TypeOK, Waiting
<1>3. /\ meanwhile' \in [Callers -> SUBSET Ids]
      /\ \A d \in Callers \ {c} : meanwhile'[d] = meanwhile[d]
  BY <1>1 DEF Abort, TypeOK
<1>4. TypeOK' /\ LastKept'
  BY <1>1, <1>2, <1>3 DEF TypeOK, LastKept
<1>5. LabelUnique'
  BY <1>1, <1>2 DEF LabelUnique, Open
<1>6. ASSUME NEW d \in Callers
      PROVE  Unseen(d)' /\ Rested(d)'
  <2>1. CASE d = c
    BY <2>1, <1>2 DEF Unseen, Rested
  <2>2. CASE d # c
    <3>1. callers'[d] = callers[d] /\ meanwhile'[d] = meanwhile[d]
      BY <2>2, <1>2, <1>3
    <3> QED
      BY <3>1, <1>1, <1>2 DEF Unseen, Rested
  <2> QED
    BY <2>1, <2>2
<1> QED
  BY <1>4, <1>5, <1>6 DEF EnqueueIInv

LEMMA WorkInv == ASSUME EnqueueIInv, NEW i \in Ids, Work(i) PROVE EnqueueIInv'
<1>1. TypeOK /\ LabelUnique /\ LastKept
      /\ \A d \in Callers : Unseen(d) /\ Rested(d)
  BY DEF EnqueueIInv
<1> PICK state \in {"dequeued", "failed"} :
      jobs' = [jobs EXCEPT ![i].state = state]
  BY DEF Work
<1>2. /\ jobs[i].state \in Unfinished
      /\ UNCHANGED <<callers, rested, meanwhile, twins>>
      /\ jobs' \in [Ids -> [state : Unfinished \cup Finished \cup {"none"},
                            label : Labels, age : 0..AgeCap]]
      /\ \A j \in Ids \ {i} : jobs'[j] = jobs[j]
      /\ jobs'[i].state \in Unfinished /\ jobs'[i].label = jobs[i].label
  BY <1>1 DEF Work, TypeOK, Unfinished, history
<1>3. jobs[i].state \notin Finished
  BY <1>2 DEF Finished, Unfinished
<1>4. TypeOK'
  BY <1>1, <1>2 DEF TypeOK
<1>5. LabelUnique'
  <2>1. \A l \in Labels : Open(l)' = Open(l)
    BY <1>2 DEF Open
  <2> QED
    BY <2>1, <1>1, <1>2 DEF LabelUnique
<1>6. \A d \in Callers : Unseen(d)'
  BY <1>1, <1>2 DEF Unseen
<1>7. \A d \in Callers : Rested(d)'
  BY <1>1, <1>2, <1>3, RestedElsewhere
<1>8. LastKept'
  BY <1>1, <1>2, <1>3, LastKeptElsewhere
<1> QED
  BY <1>4, <1>5, <1>6, <1>7, <1>8 DEF EnqueueIInv

(* A job that finishes during an upsert with its label has been met.       *)
LEMMA FinishInv ==
  ASSUME EnqueueIInv, NEW i \in Ids, Finish(i)
  PROVE  EnqueueIInv'
<1>1. TypeOK /\ LabelUnique /\ LastKept
      /\ \A d \in Callers : Unseen(d) /\ Rested(d)
  BY DEF EnqueueIInv
<1> PICK state \in Finished :
      jobs' = [jobs EXCEPT ![i].state = state, ![i].age = 0]
  BY DEF Finish
<1>2. 0 \in 0..AgeCap /\ jobs[i].label \in Labels
  BY <1>1, Types
<1>3. UNCHANGED <<callers, meanwhile, twins>>
  BY DEF Finish, history
<1>4. /\ jobs[i].state = "dequeued"
      /\ jobs' \in [Ids -> [state : Unfinished \cup Finished \cup {"none"},
                            label : Labels, age : 0..AgeCap]]
      /\ \A j \in Ids \ {i} : jobs'[j] = jobs[j]
      /\ jobs'[i].state \in Finished /\ jobs'[i].label = jobs[i].label
      /\ jobs'[i].age = 0
  <2>1. jobs[i].state = "dequeued"
    BY DEF Finish
  <2>2. jobs \in [Ids -> [state : Unfinished \cup Finished \cup {"none"},
                         label : Labels, age : 0..AgeCap]]
    BY <1>1 DEF TypeOK
  <2> QED
    BY <2>1, <2>2, <1>2
<1>5. /\ rested' \in [Labels -> 0..AgeCap]
      /\ rested'[jobs[i].label] = 0
      /\ \A l \in Labels : l # jobs[i].label => rested'[l] = rested[l]
  BY <1>1, <1>2 DEF Finish, TypeOK
<1>6. jobs[i].state \in Unfinished /\ jobs[i].state \notin Finished
      /\ jobs'[i].state \notin Unfinished
  BY <1>4, <1>3 DEF Finished, Unfinished
<1>7. TypeOK'
  BY <1>1, <1>4, <1>3, <1>5 DEF TypeOK
<1>8. LabelUnique'
  <2>1. \A l \in Labels : Open(l)' \subseteq Open(l)
    BY <1>4, <1>3, <1>6 DEF Open
  <2> QED
    BY <2>1, <1>1, <1>4, <1>3 DEF LabelUnique
<1>9. ASSUME NEW d \in Callers
      PROVE  Unseen(d)'
  BY <1>1, <1>4, <1>3, <1>6 DEF Unseen
<1>10. ASSUME NEW d \in Callers, callers[d].phase = "insert"
       PROVE  Rested(d)'
  <2>1. callers[d].label \in Labels
    BY <1>1, Types
  <2>2. CASE jobs[i].label = callers[d].label
    <3>1. i \in meanwhile[d]
      BY <2>2, <1>1, <1>10, <1>6 DEF Unseen
    <3> QED
      BY <3>1, <2>2, <1>4, <1>3, <1>5 DEF Rested
  <2>3. CASE jobs[i].label # callers[d].label
    <3>1. rested'[callers[d].label] = rested[callers[d].label]
      BY <2>1, <2>3, <1>5
    <3>2. CASE rested[callers[d].label] >= Enforced(callers[d].isolation)
      BY <3>1, <3>2, <1>4, <1>3 DEF Rested
    <3>3. CASE ~(rested[callers[d].label] >= Enforced(callers[d].isolation))
      <4> PICK j \in meanwhile[d] : /\ jobs[j].state \in Finished
                                    /\ jobs[j].label = callers[d].label
                                    /\ jobs[j].age = rested[callers[d].label]
        BY <3>3, <1>1, <1>10 DEF Rested
      <4>1. j \in Ids \ {i}
        BY <1>1, <1>6 DEF TypeOK
      <4> QED
        BY <4>1, <3>1, <1>4, <1>3 DEF Rested
    <3> QED
      BY <3>2, <3>3
  <2> QED
    BY <2>2, <2>3
<1>11. ASSUME NEW d \in Callers
       PROVE  Rested(d)'
  BY <1>4, <1>3, <1>10 DEF Rested
<1>12. LastKept'
  <2> SUFFICES ASSUME NEW l \in Labels, rested'[l] < Expiry
               PROVE  \E j \in Ids : /\ jobs'[j].state \in Finished
                                     /\ jobs'[j].label = l
                                     /\ jobs'[j].age = rested'[l]
    BY DEF LastKept
  <2>1. CASE l = jobs[i].label
    BY <2>1, <1>4, <1>3, <1>5
  <2>2. CASE l # jobs[i].label
    <3> PICK j \in Ids : /\ jobs[j].state \in Finished /\ jobs[j].label = l
                         /\ jobs[j].age = rested[l]
      BY <2>2, <1>1, <1>5 DEF LastKept
    <3> QED
      BY <2>2, <1>4, <1>3, <1>5
  <2> QED
    BY <2>1, <2>2
<1> QED
  BY <1>7, <1>8, <1>9, <1>11, <1>12 DEF EnqueueIInv

(* What the index removes is older than what is enforced of any isolation. *)
LEMMA ExpireInv ==
  ASSUME EnqueueIInv, NEW i \in Ids, Expire(i)
  PROVE  EnqueueIInv'
<1>1. TypeOK /\ LabelUnique /\ LastKept
      /\ \A d \in Callers : Unseen(d) /\ Rested(d)
  BY DEF EnqueueIInv
<1>2. /\ jobs[i].age >= Expiry /\ jobs[i].state \in Finished
      /\ UNCHANGED <<callers, rested>>
      /\ jobs' \in [Ids -> [state : Unfinished \cup Finished \cup {"none"},
                            label : Labels, age : 0..AgeCap]]
      /\ \A j \in Ids \ {i} : jobs'[j] = jobs[j]
      /\ jobs'[i].state = "none"
  BY <1>1, RecordTypes DEF Expire, Expired, TypeOK, NoDocument
<1>3. /\ meanwhile' \in [Callers -> SUBSET Ids]
      /\ twins' \in [Ids -> SUBSET Ids]
      /\ \A c \in Callers : meanwhile'[c] = meanwhile[c] \ {i}
      /\ \A j \in Ids \ {i} : twins'[j] = twins[j] \ {i}
  BY <1>1 DEF Expire, TypeOK
<1>4. TypeOK'
  BY <1>1, <1>2, <1>3 DEF TypeOK
<1>5. LabelUnique'
  <2> SUFFICES ASSUME NEW l \in Labels \ {NoLabel},
                      NEW j \in Open(l)', NEW k \in Open(l)', j # k
               PROVE  j \in twins'[k] \/ k \in twins'[j]
    BY DEF LabelUnique
  <2>1. j \in Ids \ {i} /\ k \in Ids \ {i} /\ j \in Open(l) /\ k \in Open(l)
    BY <1>2 DEF Open, Unfinished
  <2>2. j \in twins[k] \/ k \in twins[j]
    BY <2>1, <1>1 DEF LabelUnique
  <2> QED
    BY <2>1, <2>2, <1>3
<1>6. ASSUME NEW d \in Callers
      PROVE  Unseen(d)'
  <2> SUFFICES ASSUME callers[d].phase = "insert", NEW j \in Ids,
                      jobs'[j].state \in Unfinished,
                      jobs'[j].label = callers[d].label
               PROVE  j \in meanwhile'[d]
    BY <1>2 DEF Unseen
  <2>1. j \in Ids \ {i}
    BY <1>2 DEF Unfinished
  <2>2. j \in meanwhile[d]
    BY <2>1, <1>1, <1>2 DEF Unseen
  <2> QED
    BY <2>1, <2>2, <1>3
<1>7. ASSUME NEW d \in Callers
      PROVE  Rested(d)'
  <2> SUFFICES ASSUME callers[d].phase = "insert",
                      ~(rested[callers[d].label] >= Enforced(callers[d].isolation))
               PROVE  \E j \in meanwhile'[d] :
                        /\ jobs'[j].state \in Finished
                        /\ jobs'[j].label = callers[d].label
                        /\ jobs'[j].age = rested[callers[d].label]
    BY <1>2 DEF Rested
  <2> PICK j \in meanwhile[d] : /\ jobs[j].state \in Finished
                                /\ jobs[j].label = callers[d].label
                                /\ jobs[j].age = rested[callers[d].label]
    BY <1>1 DEF Rested
  <2>1. rested[callers[d].label] \in Nat /\ Expiry \in Nat
        /\ Enforced(callers[d].isolation) \in Nat
        /\ Enforced(callers[d].isolation) <= Expiry
    BY <1>1, Types
  <2>2. j # i
    BY <2>1, <1>2
  <2>3. j \in Ids \ {i} /\ j \in meanwhile'[d]
    BY <2>2, <1>1, <1>3 DEF TypeOK
  <2> QED
    BY <2>3, <1>2
<1>8. LastKept'
  <2> SUFFICES ASSUME NEW l \in Labels, rested[l] < Expiry
               PROVE  \E j \in Ids : /\ jobs'[j].state \in Finished
                                     /\ jobs'[j].label = l
                                     /\ jobs'[j].age = rested[l]
    BY <1>2 DEF LastKept
  <2> PICK j \in Ids : /\ jobs[j].state \in Finished /\ jobs[j].label = l
                       /\ jobs[j].age = rested[l]
    BY <1>1 DEF LastKept
  <2>1. j # i
    BY <1>1, <1>2, Types
  <2> QED
    BY <1>2, <2>1
<1> QED
  BY <1>4, <1>5, <1>6, <1>7, <1>8 DEF EnqueueIInv

LEMMA OlderType ==
  ASSUME NEW age \in 0..AgeCap
  PROVE  Older(age) \in 0..AgeCap /\ Older(age) >= age
         /\ (age < AgeCap => Older(age) = age + 1)
BY EnqueueAssumption DEF Older

LEMMA TickInv == ASSUME EnqueueIInv, Tick PROVE EnqueueIInv'
<1>1. TypeOK /\ LabelUnique /\ LastKept
      /\ \A d \in Callers : Unseen(d) /\ Rested(d)
  BY DEF EnqueueIInv
<1>2. /\ UNCHANGED <<callers, meanwhile, twins>>
      /\ jobs' = [i \in Ids |-> IF jobs[i].state \in Finished
                                THEN [jobs[i] EXCEPT !.age = Older(jobs[i].age)]
                                ELSE jobs[i]]
      /\ rested' = [l \in Labels |-> Older(rested[l])]
  BY DEF Tick, history
<1>3. \A i \in Ids :
        /\ jobs'[i] \in [state : Unfinished \cup Finished \cup {"none"},
                         label : Labels, age : 0..AgeCap]
        /\ jobs'[i].state = jobs[i].state /\ jobs'[i].label = jobs[i].label
        /\ jobs[i].state \in Finished => jobs'[i].age = Older(jobs[i].age)
  <2> SUFFICES ASSUME NEW i \in Ids
               PROVE  /\ jobs'[i] \in [state : Unfinished \cup Finished \cup {"none"},
                                       label : Labels, age : 0..AgeCap]
                      /\ jobs'[i].state = jobs[i].state
                      /\ jobs'[i].label = jobs[i].label
                      /\ jobs[i].state \in Finished =>
                           jobs'[i].age = Older(jobs[i].age)
    OBVIOUS
  <2>1. jobs[i] \in [state : Unfinished \cup Finished \cup {"none"},
                     label : Labels, age : 0..AgeCap]
        /\ Older(jobs[i].age) \in 0..AgeCap
    BY <1>1, Types, OlderType DEF TypeOK
  <2>2. CASE jobs[i].state \in Finished
    BY <1>2, <2>1, <2>2
  <2>3. CASE jobs[i].state \notin Finished
    BY <1>2, <2>1, <2>3
  <2> QED
    BY <2>2, <2>3
<1>4. \A l \in Labels : rested'[l] = Older(rested[l])
                        /\ rested'[l] \in 0..AgeCap
  BY <1>1, <1>2, Types, OlderType
<1>5. TypeOK'
  BY <1>1, <1>2, <1>3, <1>4 DEF TypeOK
<1>6. LabelUnique'
  <2>1. \A l \in Labels : Open(l)' = Open(l)
    BY <1>3 DEF Open
  <2> QED
    BY <2>1, <1>1, <1>2 DEF LabelUnique
<1>7. ASSUME NEW d \in Callers
      PROVE  Unseen(d)'
  BY <1>1, <1>2, <1>3 DEF Unseen
<1>8. ASSUME NEW d \in Callers, callers[d].phase = "insert"
      PROVE  Rested(d)'
  <2>1. callers[d].label \in Labels
        /\ rested[callers[d].label] \in 0..AgeCap
        /\ rested[callers[d].label] \in Nat /\ AgeCap \in Nat
        /\ Enforced(callers[d].isolation) \in Nat
    BY <1>1, Types
  <2>2. Older(rested[callers[d].label]) >= rested[callers[d].label]
        /\ Older(rested[callers[d].label]) \in 0..AgeCap
    BY <2>1, OlderType
  <2>3. rested'[callers[d].label] = Older(rested[callers[d].label])
    BY <2>1, <1>4
  <2>4. CASE rested[callers[d].label] >= Enforced(callers[d].isolation)
    <3>1. rested'[callers[d].label] >= Enforced(callers[d].isolation)
      BY <2>1, <2>2, <2>3, <2>4
    <3> QED
      BY <3>1, <1>2 DEF Rested
  <2>5. CASE ~(rested[callers[d].label] >= Enforced(callers[d].isolation))
    <3> PICK j \in meanwhile[d] : /\ jobs[j].state \in Finished
                                  /\ jobs[j].label = callers[d].label
                                  /\ jobs[j].age = rested[callers[d].label]
      BY <2>5, <1>1, <1>8 DEF Rested
    <3>1. j \in Ids
      BY <1>1 DEF TypeOK
    <3>2. /\ jobs'[j].state \in Finished /\ jobs'[j].label = callers[d].label
          /\ jobs'[j].age = rested'[callers[d].label]
      BY <3>1, <2>3, <1>3
    <3> QED
      BY <3>2, <1>2 DEF Rested
  <2> QED
    BY <2>4, <2>5
<1>9. ASSUME NEW d \in Callers
      PROVE  Rested(d)'
  BY <1>2, <1>8 DEF Rested
<1>10. LastKept'
  <2> SUFFICES ASSUME NEW l \in Labels, rested'[l] < Expiry
               PROVE  \E j \in Ids : /\ jobs'[j].state \in Finished
                                     /\ jobs'[j].label = l
                                     /\ jobs'[j].age = rested'[l]
    BY DEF LastKept
  <2>1. rested[l] \in 0..AgeCap /\ AgeCap \in Nat /\ Expiry \in Nat
        /\ Older(rested[l]) >= rested[l] /\ rested'[l] = Older(rested[l])
        /\ Older(rested[l]) \in 0..AgeCap
    BY <1>1, <1>4, Types, OlderType
  <2>2. rested[l] < Expiry
    BY <2>1
  <2> PICK j \in Ids : /\ jobs[j].state \in Finished /\ jobs[j].label = l
                       /\ jobs[j].age = rested[l]
    BY <2>2, <1>1 DEF LastKept
  <2> QED
    BY <1>3, <2>1
<1> QED
  BY <1>5, <1>6, <1>7, <1>9, <1>10 DEF EnqueueIInv

LEMMA StepInv == EnqueueIInv /\ [Next]_vars => EnqueueIInv'
<1> SUFFICES ASSUME EnqueueIInv, [Next]_vars PROVE EnqueueIInv'
  OBVIOUS
<1>1. CASE UNCHANGED vars
  BY <1>1 DEF vars, EnqueueIInv, TypeOK, LabelUnique, Open, Unseen, Rested,
              LastKept
<1>2. CASE \E c \in Callers :
             EnqueueFreely(c) \/ Lookup(c) \/ Insert(c) \/ Abort(c)
  BY <1>2, EnqueueFreelyInv, LookupInv, InsertInv, AbortInv
<1>3. CASE \E i \in Ids : Work(i) \/ Finish(i) \/ Expire(i)
  BY <1>3, WorkInv, FinishInv, ExpireInv
<1>4. CASE Tick
  BY <1>4, TickInv
<1> QED
  BY <1>1, <1>2, <1>3, <1>4 DEF Next

-----------------------------------------------------------------------------

(* The inductive invariant, whatever the callers and their interleaving.   *)
THEOREM InvHolds == Spec => []EnqueueIInv
BY InitInv, StepInv, PTL DEF Spec

(* "no job is queued if there is already a job with the same label in the  *)
(* enqueued, dequeued or failed state": for any number of callers, two     *)
(* jobs with a label are unfinished at a time only if their upserts        *)
(* overlapped (EnqueueInv).                                                *)
THEOREM EnqueueInvHolds == Spec => []EnqueueInv
BY InvHolds, PTL DEF EnqueueIInv, EnqueueInv

(* The insert of an upsert finds what its look-up has found, other than    *)
(* what it has met since.                                                  *)
LEMMA InsertHonors ==
  ASSUME EnqueueIInv
  PROVE  [\A c \in Callers : InsertsFor(c) =>
            \/ rested[callers[c].label] >= Enforced(callers[c].isolation)
            \/ FinishedMeanwhile(c)]_vars
BY DEF EnqueueIInv, InsertsFor, Rested, FinishedMeanwhile

(* A job is inserted with an isolation only if none with its label has     *)
(* finished within the isolation, as far back as the index keeps finished  *)
(* jobs, other than one enqueued during the upsert: for any isolations and *)
(* any number of callers (IsolationHonored).                               *)
THEOREM IsolationHolds == Spec => IsolationHonored
<1>1. EnqueueIInv =>
        [\A c \in Callers : InsertsFor(c) =>
            \/ rested[callers[c].label] >= Enforced(callers[c].isolation)
            \/ FinishedMeanwhile(c)]_vars
  BY InsertHonors
<1> QED
  BY <1>1, InvHolds, PTL DEF IsolationHonored

-----------------------------------------------------------------------------

(***************************************************************************)
(* The board of a queue.                                                   *)
(***************************************************************************)

(* The documents of the collection: available no later than a worker that  *)
(* has just dequeued the job would have to be done.                        *)
Documents ==
  [state : States, wait : (-Floor)..Timeout, attempts : Nat, data : {0}]

Executions ==
  [phase : {"idle", "dequeue", "execute"}, job : Jobs \cup {NoJob}]

Times == (-Floor)..(Timeout + MaxLag + BlockPeriod)

(* A worker that is not idle has a job.                                    *)
Busy == \A w \in Workers : workers[w].phase # "idle" => workers[w].job \in Jobs

BoardIInv ==
  /\ docs \in [Jobs -> Documents]
  /\ removed \subseteq Jobs
  /\ unseen \subseteq Jobs
  /\ DOMAIN board \subseteq Jobs
  /\ \A j \in DOMAIN board : board[j] \in Times
  /\ workers \in [Workers -> Executions]
  /\ restarts \in 0..MaxRestarts
  /\ Busy
  /\ BoardCurrent

(* The documents that the writes of AxeStore leave.                        *)
LEMMA Writes ==
  /\ Absent \in Documents /\ EnqueuedDoc(0) \in Documents
  /\ \A doc \in Documents :
       /\ DequeuedDoc(doc, Timeout, 0) \in Documents
       /\ [CompletedDoc(doc, 0) EXCEPT !.data = 0] \in Documents
       /\ FailedDoc(doc, 0, 0) \in Documents
<1>1. Timeout \in Nat /\ Floor \in Nat
  BY BoardAssumption
<1>2. 0 \in (-Floor)..Timeout /\ Timeout - 0 \in (-Floor)..Timeout
      /\ 0 - 0 \in (-Floor)..Timeout
  BY <1>1
<1>3. Absent \in Documents /\ EnqueuedDoc(0) \in Documents
  BY <1>2 DEF Absent, EnqueuedDoc, Documents, States, Pending
<1>4. ASSUME NEW doc \in Documents
      PROVE  /\ DequeuedDoc(doc, Timeout, 0) \in Documents
             /\ [CompletedDoc(doc, 0) EXCEPT !.data = 0] \in Documents
             /\ FailedDoc(doc, 0, 0) \in Documents
  <2>1. DequeuedDoc(doc, Timeout, 0) \in Documents
    <3>1. doc.attempts + 1 \in Nat
      BY DEF Documents
    <3> QED
      BY <1>2, <3>1 DEF DequeuedDoc, Documents, States, Pending
  <2>2. [CompletedDoc(doc, 0) EXCEPT !.data = 0] \in Documents
    BY DEF CompletedDoc, Documents, States, Final
  <2>3. FailedDoc(doc, 0, 0) \in Documents
    BY <1>2 DEF FailedDoc, Documents, States, Pending
  <2> QED
    BY <2>1, <2>2, <2>3
<1> QED
  BY <1>3, <1>4

LEMMA IdleType == Idle \in Executions
BY DEF Idle, Executions

LEMMA BoardInitInv == BoardInit => BoardIInv
<1> SUFFICES ASSUME BoardInit PROVE BoardIInv
  OBVIOUS
<1>1. docs \in [Jobs -> Documents] /\ workers \in [Workers -> Executions]
  BY Writes, IdleType DEF BoardInit
<1>2. restarts \in 0..MaxRestarts
  BY BoardAssumption DEF BoardInit
<1>3. Busy /\ BoardCurrent
  BY DEF BoardInit, Busy, Idle, BoardCurrent, NoJobs, Absent, Pending
<1> QED
  BY <1>1, <1>2, <1>3 DEF BoardInit, BoardIInv, NoJobs

(* A change that the stream has not delivered says nothing of the board.   *)
LEMMA ChangesInv ==
  ASSUME BoardIInv, NEW j \in Jobs, NEW doc \in Documents, Changes(j, doc),
         workers' \in [Workers -> Executions], Busy',
         UNCHANGED <<removed, board, restarts>>
  PROVE  BoardIInv'
<1>1. /\ docs' \in [Jobs -> Documents]
      /\ \A i \in Jobs \ {j} : docs'[i] = docs[i]
      /\ unseen' = unseen \cup {j}
  BY DEF BoardIInv, Changes
<1>2. BoardCurrent'
  BY <1>1 DEF BoardIInv, BoardCurrent
<1> QED
  BY <1>1, <1>2 DEF BoardIInv

LEMMA ElsewhereInv ==
  ASSUME BoardIInv, NEW j \in Jobs, Elsewhere(j) PROVE BoardIInv'
<1>1. docs[j] \in Documents
  BY DEF BoardIInv
<1>2. CASE Enqueue(j)
  BY <1>2, Writes, ChangesInv DEF Enqueue, BoardIInv, Busy
<1>3. CASE DequeueElsewhere(j)
  BY <1>1, <1>3, Writes, ChangesInv DEF DequeueElsewhere, BoardIInv, Busy
<1>4. CASE FinishElsewhere(j)
  BY <1>1, <1>4, Writes, ChangesInv DEF FinishElsewhere, BoardIInv, Busy
<1>5. CASE Remove(j)
  BY <1>5 DEF Remove, BoardIInv, Busy, BoardCurrent
<1> QED
  BY <1>2, <1>3, <1>4, <1>5 DEF Elsewhere

(* What is delivered is put on the board as it is, or a little later.      *)
LEMMA DeliverInv ==
  ASSUME BoardIInv, NEW j \in Jobs, Deliver(j) PROVE BoardIInv'
<1>1. UNCHANGED <<docs, removed, workers, restarts>> /\ unseen' = unseen \ {j}
  BY DEF Deliver
<1>2. DOMAIN board \subseteq Jobs /\ BoardCurrent
      /\ \A i \in DOMAIN board : board[i] \in Times
  BY DEF BoardIInv
<1>3. CASE j \in removed /\ UNCHANGED board
  BY <1>1, <1>3 DEF BoardIInv, Busy, BoardCurrent
<1>4. ASSUME j \notin removed, Known(docs[j]), NEW lag \in 0..(MaxLag - 1),
             board' = [i \in DOMAIN board \cup {j} |->
                         IF i = j THEN docs[j].wait + lag ELSE board[i]]
      PROVE  BoardIInv'
  <2>1. docs[j].wait \in (-Floor)..Timeout
    BY DEF BoardIInv, Documents
  <2>2. docs[j].wait + lag \in Times /\ docs[j].wait + lag >= docs[j].wait
    BY <2>1, BoardAssumption DEF Times
  <2>3. /\ DOMAIN board' = DOMAIN board \cup {j}
        /\ board'[j] = docs[j].wait + lag
        /\ \A i \in DOMAIN board \ {j} : board'[i] = board[i]
    BY <1>4
  <2>4. BoardCurrent'
    BY <1>1, <1>2, <1>4, <2>2, <2>3 DEF BoardCurrent, Known
  <2>5. DOMAIN board' \subseteq Jobs
        /\ \A i \in DOMAIN board' : board'[i] \in Times
    BY <1>2, <2>2, <2>3
  <2> QED
    BY <1>1, <2>4, <2>5 DEF BoardIInv, Busy
<1>5. CASE /\ j \notin removed /\ ~Known(docs[j])
           /\ board' = [i \in DOMAIN board \ {j} |-> board[i]]
  <2>1. /\ DOMAIN board' = DOMAIN board \ {j}
        /\ \A i \in DOMAIN board \ {j} : board'[i] = board[i]
    BY <1>5
  <2>2. BoardCurrent'
    BY <1>1, <1>2, <1>5, <2>1 DEF BoardCurrent, Known
  <2> QED
    BY <1>1, <1>2, <2>1, <2>2 DEF BoardIInv, Busy
<1> QED
  BY <1>3, <1>4, <1>5 DEF Deliver

LEMMA GetInv ==
  ASSUME BoardIInv, NEW w \in Workers, NEW j \in Jobs, Get(w, j)
  PROVE  BoardIInv'
<1>1. UNCHANGED <<docs, removed, unseen, restarts>>
  BY DEF Get
<1>2. /\ j \in DOMAIN board /\ board[j] \in Times /\ board[j] < 0
      /\ BoardCurrent /\ Busy
  BY DEF Get, BoardIInv
<1>3. board[j] + BlockPeriod \in Times
      /\ board[j] \in Int /\ board[j] + BlockPeriod >= board[j]
  BY <1>2, BoardAssumption DEF Times
<1>4. /\ DOMAIN board' = DOMAIN board
      /\ board'[j] = board[j] + BlockPeriod
      /\ \A i \in DOMAIN board \ {j} : board'[i] = board[i]
  BY <1>2 DEF Get, Blocked
<1>5. workers' \in [Workers -> Executions] /\ Busy'
  BY <1>2 DEF Get, BoardIInv, Executions, Busy
<1>6. docs[j].wait \in Int
  BY BoardAssumption DEF BoardIInv, Documents
<1>7. ASSUME NEW i \in Jobs \ (unseen \cup removed)
      PROVE  /\ (i \in DOMAIN board) = (docs[i].state \in Pending)
             /\ i \in DOMAIN board => board'[i] >= docs[i].wait
  <2>1. /\ (i \in DOMAIN board) = (docs[i].state \in Pending)
        /\ i \in DOMAIN board => board[i] >= docs[i].wait
    BY <1>2 DEF BoardCurrent
  <2>2. ASSUME i \in DOMAIN board PROVE board'[i] >= docs[i].wait
    <3>1. board[i] >= docs[i].wait
      BY <2>1, <2>2
    <3>2. CASE i = j
      BY <1>3, <1>4, <1>6, <3>1, <3>2, BoardAssumption
    <3>3. CASE i # j
      BY <1>4, <2>2, <3>1, <3>3
    <3> QED
      BY <3>2, <3>3
  <2> QED
    BY <2>1, <2>2
<1>8. BoardCurrent'
  BY <1>1, <1>4, <1>7 DEF BoardCurrent
<1> QED
  BY <1>1, <1>2, <1>3, <1>4, <1>5, <1>8 DEF BoardIInv

LEMMA WorkerInv ==
  ASSUME BoardIInv, NEW w \in Workers,
         Dequeue(w) \/ DequeueFails(w) \/ Complete(w)
  PROVE  BoardIInv'
<1>1. /\ workers \in [Workers -> Executions] /\ Busy
      /\ \A j \in Jobs : docs[j] \in Documents
  BY DEF BoardIInv
<1>2. workers[w].phase # "idle" /\ workers[w].job \in Jobs
  BY <1>1 DEF Dequeue, DequeueFails, Complete, Busy
<1>3. ASSUME workers' = [workers EXCEPT ![w] = Idle]
      PROVE  workers' \in [Workers -> Executions] /\ Busy'
  BY <1>1, <1>3, IdleType DEF Busy, Idle
<1>4. ASSUME workers' = [workers EXCEPT ![w].phase = "execute"]
      PROVE  workers' \in [Workers -> Executions] /\ Busy'
  BY <1>1, <1>2, <1>4 DEF Busy, Executions
<1>5. CASE /\ workers' = [workers EXCEPT ![w] = Idle]
           /\ UNCHANGED <<docs, removed, unseen, board, restarts>>
  BY <1>3, <1>5 DEF BoardIInv, BoardCurrent
<1>6. CASE Dequeue(w)
  BY <1>1, <1>2, <1>3, <1>4, <1>5, <1>6, Writes, ChangesInv DEF Dequeue
<1>7. CASE DequeueFails(w)
  BY <1>5, <1>7 DEF DequeueFails
<1>8. CASE Complete(w)
  BY <1>1, <1>2, <1>3, <1>8, Writes, ChangesInv DEF Complete
<1> QED
  BY <1>6, <1>7, <1>8

LEMMA LaterType ==
  /\ \A n \in (-Floor)..Timeout : Later(n) \in (-Floor)..Timeout
  /\ \A n \in Times : Later(n) \in Times
  /\ \A m, n \in Int : m >= n => Later(m) >= Later(n)
BY BoardAssumption DEF Later, Times

(* Time passes for the documents and on the board.                         *)
LEMMA BoardTickInv == ASSUME BoardIInv, BoardTick PROVE BoardIInv'
<1>1. UNCHANGED <<removed, unseen, workers, restarts>>
  BY DEF BoardTick
<1>2. \A j \in Jobs : /\ docs[j] \in Documents
                      /\ docs'[j] = [docs[j] EXCEPT !.wait = Later(docs[j].wait)]
  BY DEF BoardTick, BoardIInv
<1>3. \A j \in Jobs : /\ docs'[j] \in Documents
                      /\ docs'[j].state = docs[j].state
                      /\ docs'[j].wait = Later(docs[j].wait)
                      /\ docs[j].wait \in Int
  <2> SUFFICES ASSUME NEW j \in Jobs
               PROVE  /\ docs'[j] \in Documents
                      /\ docs'[j].state = docs[j].state
                      /\ docs'[j].wait = Later(docs[j].wait)
                      /\ docs[j].wait \in Int
    OBVIOUS
  <2>1. docs[j].wait \in (-Floor)..Timeout
    BY <1>2 DEF Documents
  <2>2. Later(docs[j].wait) \in (-Floor)..Timeout
    BY <2>1, LaterType
  <2>3. docs[j].wait \in Int
    BY <2>1, BoardAssumption
  <2> QED
    BY <1>2, <2>2, <2>3 DEF Documents
<1>4. docs' \in [Jobs -> Documents]
  BY <1>3 DEF BoardTick
<1>5. /\ DOMAIN board' = DOMAIN board /\ DOMAIN board \subseteq Jobs
      /\ \A j \in DOMAIN board : /\ board'[j] = Later(board[j])
                                 /\ board[j] \in Times /\ board[j] \in Int
  BY BoardAssumption DEF BoardTick, BoardIInv, Times
<1>6. \A j \in DOMAIN board : board'[j] \in Times
  BY <1>5, LaterType
<1>7. BoardCurrent'
  <2>1. \A j \in Jobs \ (unseen \cup removed) :
          /\ (j \in DOMAIN board) = (docs[j].state \in Pending)
          /\ j \in DOMAIN board => board[j] >= docs[j].wait
    BY DEF BoardIInv, BoardCurrent
  <2> QED
    BY <1>1, <1>3, <1>5, <2>1, LaterType DEF BoardCurrent
<1> QED
  BY <1>1, <1>4, <1>5, <1>6, <1>7 DEF BoardIInv, Busy

LEMMA RestartInv == ASSUME BoardIInv, Restart PROVE BoardIInv'
<1>1. /\ UNCHANGED <<docs, removed>>
      /\ board' = NoJobs /\ DOMAIN board' = {}
      /\ unseen' = {j \in Jobs : docs[j].state # "none"} \ removed
      /\ workers' = [w \in Workers |-> Idle]
  BY DEF Restart, NoJobs
<1>2. restarts' \in 0..MaxRestarts
  BY BoardAssumption DEF Restart, BoardIInv
<1>3. workers' \in [Workers -> Executions] /\ Busy'
  BY <1>1, IdleType DEF Busy, Idle
<1>4. BoardCurrent'
  BY <1>1 DEF BoardCurrent, Pending
<1> QED
  BY <1>1, <1>2, <1>3, <1>4 DEF BoardIInv

LEMMA BoardStepInv == BoardIInv /\ [BoardNext]_boardVars => BoardIInv'
<1> SUFFICES ASSUME BoardIInv, [BoardNext]_boardVars PROVE BoardIInv'
  OBVIOUS
<1>1. CASE UNCHANGED boardVars
  BY <1>1 DEF boardVars, BoardIInv, Busy, BoardCurrent
<1>2. CASE \E j \in Jobs : Elsewhere(j) \/ Deliver(j)
  BY <1>2, ElsewhereInv, DeliverInv
<1>3. CASE \E w \in Workers : WorkerStep(w)
  BY <1>3, GetInv, WorkerInv DEF WorkerStep
<1>4. CASE BoardTick
  BY <1>4, BoardTickInv
<1>5. CASE Restart
  BY <1>5, RestartInv
<1> QED
  BY <1>1, <1>2, <1>3, <1>4, <1>5 DEF BoardNext

LEMMA BoardIInvImplies == BoardIInv => BoardInv
<1> SUFFICES ASSUME BoardIInv PROVE BoardInv
  OBVIOUS
<1>1. docs \in [Jobs -> [state : States, wait : Int, attempts : Nat,
                         data : {0}]]
  <2>1. (-Floor)..Timeout \subseteq Int
    BY BoardAssumption
  <2>2. \A j \in Jobs : docs[j] \in [state : States, wait : Int,
                                     attempts : Nat, data : {0}]
    BY <2>1 DEF BoardIInv, Documents
  <2> QED
    BY <2>2 DEF BoardIInv
<1> QED
  BY <1>1 DEF BoardIInv, BoardInv, BoardTypeOK, Times, Executions

(* A job is on the board if and only if it is to be executed, and not      *)
(* before it is available, once the stream has delivered what has changed: *)
(* whatever other processes do, and however often the process restarts.    *)
THEOREM BoardInvHolds == BoardSpec => []BoardInv
BY BoardInitInv, BoardStepInv, BoardIInvImplies, PTL DEF BoardSpec

=============================================================================
