-------------------------- MODULE GlutLocks_proofs --------------------------
(***************************************************************************)
(* Proofs about GlutLocks: its types, that no two clients hold the lock,   *)
(* and that a locked write is based on the content it replaces.            *)
(***************************************************************************)
EXTENDS GlutLocks, TLAPS

(* A client state whose call and lock are within their bounds.             *)
Proper(rec) ==
  rec \in ClientStates /\ rec.call <= Latency /\ rec.left \in 0..Timeout

(* The client states the operations are built from.                        *)
LEMMA RecordTypes ==
  ASSUME NEW rec \in ClientStates, NEW phase \in Phases
  PROVE  /\ [rec EXCEPT !.phase = phase, !.call = 0] \in ClientStates
         /\ \A n \in Nat : [rec EXCEPT !.since = n] \in ClientStates
         /\ \A n \in Nat : [rec EXCEPT !.read = n] \in ClientStates
         /\ [rec EXCEPT !.phase = phase] \in ClientStates
         /\ [rec EXCEPT !.since = 0, !.left = 0, !.open = FALSE, !.read = 0]
              \in ClientStates
<1>1. 0 \in Nat /\ 0 \in Int /\ FALSE \in BOOLEAN
  OBVIOUS
<1>2. QED
  BY <1>1, Zenon DEF ClientStates

LEMMA OpenedTypes ==
  ASSUME NEW rec \in ClientStates, NEW left \in Int, NEW read \in Nat
  PROVE  [rec EXCEPT !.since = 0, !.left = left, !.open = TRUE, !.read = read]
           \in ClientStates
<1>1. 0 \in Nat /\ TRUE \in BOOLEAN
  OBVIOUS
<1>2. QED
  BY <1>1, Zenon DEF ClientStates

LEMMA AgedTypes ==
  ASSUME NEW rec \in ClientStates, NEW call \in Nat, NEW since \in Nat,
         NEW left \in Int
  PROVE  [rec EXCEPT !.call = call, !.since = since, !.left = left]
           \in ClientStates
  BY Zenon DEF ClientStates

(* A call begins at the present, and a client that closes the value holds  *)
(* nothing.                                                                *)
LEMMA CallsProper ==
  ASSUME TypeOK, NEW c \in Clients, NEW phase \in Phases
  PROVE  /\ Proper(Calls(c, phase))
         /\ Proper(Closed(c))
         /\ Proper([Closed(c) EXCEPT !.phase = phase])
         /\ Proper([Calls(c, phase) EXCEPT !.since = 0])
         /\ \A n \in Nat : Proper([Calls(c, phase) EXCEPT !.read = n])
<1> USE LockAssumption, LockBounds
<1>1. clients[c] \in ClientStates /\ clients[c].left \in 0..Timeout
  BY DEF TypeOK
<1>2. "idle" \in Phases
  BY DEF Phases
<1>3. Calls(c, phase) \in ClientStates /\ Calls(c, "idle") \in ClientStates
  BY <1>1, <1>2, RecordTypes DEF Calls
<1>4. Closed(c) \in ClientStates
  BY <1>2, <1>3, RecordTypes DEF Closed
<1>5. /\ [Closed(c) EXCEPT !.phase = phase] \in ClientStates
      /\ [Calls(c, phase) EXCEPT !.since = 0] \in ClientStates
      /\ \A n \in Nat : [Calls(c, phase) EXCEPT !.read = n] \in ClientStates
  BY <1>3, <1>4, RecordTypes
<1>6. Calls(c, phase).call = 0 /\ Calls(c, phase).left = clients[c].left
  BY <1>1 DEF Calls, ClientStates
<1>7. Closed(c).call = 0 /\ Closed(c).left = 0
  BY <1>1 DEF Calls, Closed, ClientStates
<1>8. /\ [Closed(c) EXCEPT !.phase = phase].call = 0
      /\ [Closed(c) EXCEPT !.phase = phase].left = 0
  BY <1>4, <1>7 DEF ClientStates
<1>9. /\ [Calls(c, phase) EXCEPT !.since = 0].call = 0
      /\ [Calls(c, phase) EXCEPT !.since = 0].left = clients[c].left
  BY <1>3, <1>6 DEF ClientStates
<1>10. \A n \in Nat :
         /\ [Calls(c, phase) EXCEPT !.read = n].call = 0
         /\ [Calls(c, phase) EXCEPT !.read = n].left = clients[c].left
  BY <1>3, <1>6 DEF ClientStates
<1>11. QED
  BY <1>1, <1>3, <1>4, <1>5, <1>6, <1>7, <1>8, <1>9, <1>10 DEF Proper

(* A lock lasts for its timeout less the time the call has taken.          *)
LEMMA LockedProper ==
  ASSUME TypeOK, NEW c \in Clients, NEW data \in Nat
  PROVE  Proper(Locked(c, data)) /\ LockedBy(c, data) \in Values
<1> USE LockAssumption, LockBounds
<1> DEFINE left == IF Timeout > clients[c].since
                   THEN Timeout - clients[c].since ELSE 0
           idle == Calls(c, "idle")
<1>1. clients[c] \in ClientStates
  BY DEF TypeOK
<1>2. clients[c].since \in Nat
  BY <1>1 DEF ClientStates
<1>3. left \in 0..Timeout
  BY <1>2
<1>4. idle \in ClientStates
  BY CallsProper DEF Proper, Phases
<1>5. Locked(c, data) =
        [idle EXCEPT !.since = 0, !.left = left, !.open = TRUE, !.read = data]
  BY DEF Locked
<1>6. Locked(c, data) \in ClientStates
  <2>1. left \in Int
    BY <1>3
  <2> HIDE DEF left, idle
  <2>2. [idle EXCEPT !.since = 0, !.left = left, !.open = TRUE, !.read = data]
          \in ClientStates
    BY <1>4, <2>1, OpenedTypes
  <2>3. QED
    BY <1>5, <2>2
<1>7. Locked(c, data).call = 0 /\ Locked(c, data).left = left
  BY <1>1 DEF Locked, Calls, ClientStates
<1>8. LockedBy(c, data) \in Values
  BY <1>2 DEF LockedBy, Values
<1>9. QED
  BY <1>3, <1>6, <1>7, <1>8 DEF Proper

(* The clients keep their types if one of them turns to a proper state.    *)
LEMMA BecomesTypes ==
  ASSUME TypeOK, NEW c \in Clients, NEW rec, Proper(rec), Becomes(c, rec)
  PROVE  /\ clients' \in [Clients -> ClientStates]
         /\ \A b \in Clients : /\ clients'[b].call <= Latency
                               /\ clients'[b].left \in 0..Timeout
  BY DEF TypeOK, Becomes, Proper

-----------------------------------------------------------------------------

(* What leaves the document a value.                                       *)
LEMMA ValueTypes ==
  ASSUME NEW doc \in Values, NEW data \in Nat, NEW end \in Int
  PROVE  /\ Unlocked(doc) \in Values
         /\ [Unlocked(doc) EXCEPT !.deadline = end] \in Values
         /\ [doc EXCEPT !.data = data, !.deadline = end] \in Values
         /\ [doc EXCEPT !.exists = TRUE, !.data = data, !.deadline = end]
              \in Values
         /\ [doc EXCEPT !.locked = end] \in Values
         /\ [doc EXCEPT !.deadline = end] \in Values
         /\ Missing \in Values
<1>1. 0 \in Int /\ 0 \in Nat /\ TRUE \in BOOLEAN /\ FALSE \in BOOLEAN
  OBVIOUS
<1>2. NoToken \in Clients \cup {NoToken}
  OBVIOUS
<1>3. Unlocked(doc) \in Values
  BY <1>1, <1>2, Zenon DEF Unlocked, Values
<1>4. [Unlocked(doc) EXCEPT !.deadline = end] \in Values
  BY <1>3, Zenon DEF Values
<1>5. Missing \in Values
  BY <1>1, <1>2 DEF Missing, Values
<1>6. QED
  BY <1>1, <1>3, <1>4, <1>5, Zenon DEF Values

(* A step of a client keeps the types.                                     *)
LEMMA ClientTypes ==
  ASSUME TypeOK, NEW c \in Clients, Step(c)
  PROVE  TypeOK'
<1> USE LockAssumption, LockBounds
<1>0. /\ value \in Values /\ value.data \in Nat
      /\ clients[c] \in ClientStates
      /\ clients[c].call \in Nat
      /\ writes + 1 \in Nat
      /\ TTL - clients[c].call \in Int
  BY DEF TypeOK, Values, ClientStates
<1>1. \A phase \in Phases :
        /\ Proper(Calls(c, phase))
        /\ Proper(Closed(c))
        /\ Proper([Closed(c) EXCEPT !.phase = phase])
        /\ Proper([Calls(c, phase) EXCEPT !.since = 0])
        /\ \A n \in Nat : Proper([Calls(c, phase) EXCEPT !.read = n])
  BY CallsProper
<1>2. \A data \in Nat : Proper(Locked(c, data)) /\ LockedBy(c, data) \in Values
  BY LockedProper
<1>3. {"idle", "insert", "update", "release", "get", "set", "delete",
       "unlock", "dead"} \subseteq Phases
  BY DEF Phases
<1>4. /\ Unlocked(value) \in Values
      /\ Missing \in Values
      /\ [Unlocked(value) EXCEPT !.deadline = TTL - clients[c].call] \in Values
      /\ [value EXCEPT !.data = writes + 1,
                       !.deadline = TTL - clients[c].call] \in Values
  BY <1>0, ValueTypes
<1>5. /\ value' \in Values
      /\ raw' \in BOOLEAN
      /\ deleted' \in BOOLEAN
      /\ writes' \in 0..MaxWrites
      /\ faults' \in 0..MaxFaults
  <2> USE <1>0, <1>2, <1>4 DEF TypeOK
  <2>1. CASE CallLock(c)
    BY <2>1 DEF CallLock
  <2>2. CASE Insert(c)
    BY <2>2 DEF Insert
  <2>3. CASE Update(c)
    BY <2>3 DEF Update, Fault
  <2>4. CASE Release(c)
    BY <2>4 DEF Release
  <2>5. CASE Call(c)
    BY <2>5 DEF Call
  <2>6. CASE GetLocked(c)
    BY <2>6 DEF GetLocked
  <2>7. CASE SetLocked(c)
    <3>1. value' \in Values
      BY <2>7, Zenon DEF SetLocked
    <3>2. raw' \in BOOLEAN
      BY <2>7, Zenon DEF SetLocked
    <3>3. /\ writes' \in 0..MaxWrites
          /\ faults' = faults /\ deleted' = deleted
      BY <2>7 DEF SetLocked
    <3>4. QED
      BY <3>1, <3>2, <3>3
  <2>8. CASE DeleteLocked(c)
    BY <2>8 DEF DeleteLocked
  <2>9. CASE Unlock(c)
    BY <2>9 DEF Unlock
  <2>10. CASE GiveUp(c) \/ Die(c)
    BY <2>10 DEF GiveUp, Die, Fault
  <2>11. QED
    BY <2>1, <2>2, <2>3, <2>4, <2>5, <2>6, <2>7, <2>8, <2>9, <2>10
       DEF Step, Answer
<1>6. \E rec : Proper(rec) /\ Becomes(c, rec)
  <2> USE <1>0, <1>1, <1>2, <1>3
  <2>1. CASE CallLock(c)
    BY <2>1 DEF CallLock
  <2>2. CASE Insert(c)
    BY <2>2 DEF Insert
  <2>3. CASE Update(c)
    BY <2>3 DEF Update
  <2>4. CASE Release(c)
    BY <2>4 DEF Release
  <2>5. CASE Call(c)
    BY <2>5 DEF Call
  <2>6. CASE GetLocked(c)
    BY <2>6 DEF GetLocked
  <2>7. CASE SetLocked(c)
    BY <2>7 DEF SetLocked
  <2>8. CASE DeleteLocked(c)
    BY <2>8 DEF DeleteLocked
  <2>9. CASE Unlock(c)
    BY <2>9 DEF Unlock
  <2>10. CASE GiveUp(c) \/ Die(c)
    BY <2>10 DEF GiveUp, Die
  <2>11. QED
    BY <2>1, <2>2, <2>3, <2>4, <2>5, <2>6, <2>7, <2>8, <2>9, <2>10
       DEF Step, Answer
<1>7. QED
  BY <1>5, <1>6, BecomesTypes DEF TypeOK

(* Those who ignore locks, and the index, keep the types.                  *)
LEMMA RawTypes ==
  ASSUME TypeOK, Set \/ Ensure \/ Delete \/ Expire
  PROVE  TypeOK'
<1> USE LockAssumption, LockBounds
<1>1. /\ value \in Values /\ Missing \in Values /\ writes + 1 \in Nat
      /\ \A ago \in 0..Latency : TTL - ago \in Int
  <2>1. value \in Values /\ writes + 1 \in Nat
    BY DEF TypeOK
  <2>2. \A ago \in 0..Latency : TTL - ago \in Int
    OBVIOUS
  <2>3. 0 \in Nat /\ 0 \in Int
    OBVIOUS
  <2>4. QED
    BY <2>1, <2>2, <2>3, ValueTypes
<1>2. CASE Set
  <2>1. PICK ago \in 0..Latency :
          value' = [value EXCEPT !.exists = TRUE, !.data = writes + 1,
                                 !.deadline = TTL - ago]
    BY <1>2 DEF Set
  <2>2. value' \in Values
    BY <1>1, <2>1, ValueTypes, Zenon
  <2>3. raw' \in BOOLEAN
    BY <1>2 DEF Set
  <2>4. writes' \in 0..MaxWrites
    <3>1. writes \in 0..MaxWrites
      BY DEF TypeOK
    <3>2. writes < MaxWrites /\ writes' = writes + 1
      BY <1>2 DEF Set
    <3>3. QED
      BY <3>1, <3>2
  <2>5. clients' = clients /\ faults' = faults /\ deleted' = deleted
    BY <1>2 DEF Set
  <2>6. QED
    BY <2>2, <2>3, <2>4, <2>5 DEF TypeOK
<1>3. CASE Ensure
  <2>1. PICK ago \in 0..Latency :
          value' = [Missing EXCEPT !.exists = TRUE, !.data = writes + 1,
                                   !.deadline = TTL - ago]
    BY <1>3 DEF Ensure
  <2>2. value' \in Values
    BY <1>1, <2>1, ValueTypes, Zenon
  <2>3. raw' \in BOOLEAN
    BY <1>3 DEF Ensure
  <2>4. writes' \in 0..MaxWrites
    <3>1. writes \in 0..MaxWrites
      BY DEF TypeOK
    <3>2. writes < MaxWrites /\ writes' = writes + 1
      BY <1>3 DEF Ensure
    <3>3. QED
      BY <3>1, <3>2
  <2>5. clients' = clients /\ faults' = faults /\ deleted' = deleted
    BY <1>3 DEF Ensure
  <2>6. QED
    BY <2>2, <2>3, <2>4, <2>5 DEF TypeOK
<1>4. CASE Delete \/ Expire
  <2>1. writes \in 0..MaxWrites /\ raw \in BOOLEAN /\ deleted \in BOOLEAN
    BY DEF TypeOK
  <2>2. raw' \in BOOLEAN /\ deleted' \in BOOLEAN
    BY <1>4, <2>1, Zenon DEF Delete, Expire
  <2>3. writes' \in 0..MaxWrites
    BY <1>4, <2>1 DEF Delete, Expire
  <2>4. value' = Missing /\ clients' = clients /\ faults' = faults
    BY <1>4 DEF Delete, Expire
  <2>5. QED
    BY <1>1, <2>2, <2>3, <2>4 DEF TypeOK
<1>5. QED
  BY <1>2, <1>3, <1>4

(* As time passes a call stays within Latency and a lock within Timeout.   *)
LEMMA TickTypes ==
  ASSUME TypeOK, Tick
  PROVE  TypeOK'
<1> USE LockAssumption, LockBounds
<1>1. value' \in Values
  <2> DEFINE locked == IF value.token = NoToken THEN 0
                       ELSE Earlier(value.locked, LockFloor)
             deadline == Earlier(value.deadline, DeadlineFloor)
  <2>1. value \in Values /\ value.locked \in Int /\ value.deadline \in Int
    BY DEF TypeOK, Values
  <2>2. locked \in Int /\ deadline \in Int
    BY <2>1 DEF Earlier
  <2>3. [value EXCEPT !.locked = locked, !.deadline = deadline] \in Values
    BY <2>1, <2>2, Zenon DEF Values
  <2>4. QED
    BY <2>1, <2>3 DEF Tick
<1>2. ASSUME NEW c \in Clients
      PROVE  Proper(Aged(clients[c]))
  <2> DEFINE rec == clients[c]
             call == IF rec.phase \in {"idle", "dead"} THEN rec.call
                     ELSE rec.call + 1
             since == IF rec.phase \in {"insert", "update"}
                      THEN rec.since + 1 ELSE rec.since
             left == Earlier(rec.left, 0)
  <2>1. /\ rec \in ClientStates /\ rec.call \in Nat /\ rec.since \in Nat
        /\ rec.call <= Latency /\ rec.left \in 0..Timeout
    BY DEF TypeOK, ClientStates
  <2>2. call \in Nat /\ since \in Nat /\ left \in Int
    BY <2>1 DEF Earlier
  <2>3. call <= Latency
    BY <2>1 DEF Tick, In
  <2>4. left \in 0..Timeout
    BY <2>1 DEF Earlier
  <2>5. Aged(rec) =
          [rec EXCEPT !.call = call, !.since = since, !.left = left]
    BY DEF Aged
  <2>6. Aged(rec) \in ClientStates
    <3> HIDE DEF rec, call, since, left
    <3>1. [rec EXCEPT !.call = call, !.since = since, !.left = left]
            \in ClientStates
      BY <2>1, <2>2, AgedTypes
    <3>2. QED
      BY <2>5, <3>1
  <2>7. Aged(rec).call = call /\ Aged(rec).left = left
    BY <2>1 DEF Aged, ClientStates
  <2>8. QED
    BY <2>3, <2>4, <2>6, <2>7 DEF Proper
<1>3. QED
  BY <1>1, <1>2 DEF Tick, TypeOK, Proper

(* The document, the clients and the bounds keep their types: no call is   *)
(* older than Latency, and no client holds a lock for longer than Timeout. *)
THEOREM TypeCorrect == Spec => []TypeOK
<1>1. Init => TypeOK
  <2>1. 0 \in Int /\ 0 \in Nat /\ FALSE \in BOOLEAN /\ "idle" \in Phases
    BY DEF Phases
  <2>2. Fresh \in ClientStates
    BY <2>1 DEF Fresh, ClientStates
  <2>3. Missing \in Values
    BY <2>1 DEF Missing, Values
  <2>4. Fresh.call = 0 /\ Fresh.left = 0
    BY DEF Fresh
  <2>5. 0 \in 0..MaxWrites /\ 0 \in 0..MaxFaults /\ 0 \in 0..Timeout /\ 0 <= Latency
    BY LockAssumption, LockBounds
  <2>6. QED
    BY <2>2, <2>3, <2>4, <2>5 DEF Init, TypeOK
<1>2. TypeOK /\ [Next]_vars => TypeOK'
  <2> SUFFICES ASSUME TypeOK, [Next]_vars PROVE TypeOK'
    OBVIOUS
  <2>1. CASE UNCHANGED vars
    BY <2>1 DEF vars, TypeOK
  <2>2. QED
    BY <2>1, ClientTypes, RawTypes, TickTypes DEF Next
<1>3. QED
  BY <1>1, <1>2, PTL DEF Spec

-----------------------------------------------------------------------------

(* LockInv as it is for one client.                                        *)
Knows(c) ==
  /\ clients[c].left > 0 => clients[c].open
  /\ In(c, "set") => clients[c].open
  /\ In(c, "get") => clients[c].open
  /\ clients[c].phase \in {"release", "delete", "unlock"} => ~clients[c].open
  /\ value.token = c /\ clients[c].open => raw \/ value.data = clients[c].read

Holds(c) == Kept /\ clients[c].left > 0 => Secured(c)

LEMMA LockInvSplit ==
  LockInv <=> /\ ~value.exists => value = Missing
              /\ \A c \in Clients : Holds(c) /\ Knows(c)
  BY DEF LockInv, Holds, Knows

(* What the operations make of the state of a client.                      *)
LEMMA States ==
  ASSUME TypeOK, NEW c \in Clients, NEW phase \in Phases, NEW data \in Nat
  PROVE  /\ Calls(c, phase).phase = phase
         /\ Calls(c, phase).left = clients[c].left
         /\ Calls(c, phase).open = clients[c].open
         /\ Calls(c, phase).read = clients[c].read
         /\ Closed(c).phase = "idle"
         /\ Closed(c).left = 0
         /\ ~Closed(c).open
         /\ [Closed(c) EXCEPT !.phase = phase].phase = phase
         /\ [Closed(c) EXCEPT !.phase = phase].left = 0
         /\ ~[Closed(c) EXCEPT !.phase = phase].open
         /\ Locked(c, data).phase = "idle"
         /\ Locked(c, data).left =
              IF Timeout > clients[c].since THEN Timeout - clients[c].since ELSE 0
         /\ Locked(c, data).open
         /\ Locked(c, data).read = data
         /\ [Calls(c, phase) EXCEPT !.since = 0].phase = phase
         /\ [Calls(c, phase) EXCEPT !.since = 0].left = clients[c].left
         /\ [Calls(c, phase) EXCEPT !.since = 0].open = clients[c].open
         /\ [Calls(c, phase) EXCEPT !.since = 0].read = clients[c].read
         /\ [Calls(c, phase) EXCEPT !.read = data].phase = phase
         /\ [Calls(c, phase) EXCEPT !.read = data].left = clients[c].left
         /\ [Calls(c, phase) EXCEPT !.read = data].open = clients[c].open
         /\ [Calls(c, phase) EXCEPT !.read = data].read = data
<1>1. clients[c] \in ClientStates
  BY DEF TypeOK
<1>2. QED
  BY <1>1 DEF Calls, Closed, Locked, ClientStates

(* The step of a client changes nobody else.                               *)
LEMMA Others ==
  ASSUME TypeOK, NEW c \in Clients, NEW rec, Becomes(c, rec)
  PROVE  /\ clients'[c] = rec
         /\ \A b \in Clients \ {c} : clients'[b] = clients[b]
  BY DEF TypeOK, Becomes

(* A client that holds the lock keeps others from taking it.               *)
LEMMA HeldNotLockable ==
  ASSUME TypeOK, LockInv, Kept, NEW b \in Clients, NEW c \in Clients,
         b # c, clients[b].left > 0
  PROVE  value.exists /\ value.token = b /\ ~Lockable(c) /\ ~Owned(c)
<1>1. Secured(b)
  BY DEF LockInv
<1>2. value.locked \in Int /\ clients[c].call \in Nat /\ clients[b].left \in Int
  BY DEF TypeOK, Values, ClientStates
<1>3. b # NoToken
  BY LockAssumption
<1>4. QED
  BY <1>1, <1>2, <1>3 DEF Secured, Lockable, Owned

(* The document is untouched, or c has written what is its own to write.   *)
Tame(c) ==
  /\ deleted' = deleted
  /\ \/ value' = value /\ raw' = raw
     \/ /\ value'.token \in {c, NoToken}
        /\ ~value.exists \/ Lockable(c) \/ Owned(c)

(* What the step of a client does to the others.                           *)
LEMMA OthersKeep ==
  ASSUME TypeOK, LockInv, NEW c \in Clients, NEW rec, Becomes(c, rec),
         Tame(c), NEW b \in Clients \ {c}
  PROVE  Holds(b)' /\ Knows(b)'
<1>1. clients'[b] = clients[b]
  BY Others
<1>2. Holds(b) /\ Knows(b) /\ deleted' = deleted
  BY LockInvSplit DEF Tame
<1>3. b # NoToken /\ b # c
  BY LockAssumption
<1>4. CASE value' = value /\ raw' = raw
  BY <1>1, <1>2, <1>4 DEF Holds, Knows, Secured, In, Kept
<1>5. CASE /\ value'.token \in {c, NoToken}
           /\ ~value.exists \/ Lockable(c) \/ Owned(c)
  <2>1. Kept => ~(clients[b].left > 0)
    BY <1>3, <1>5, HeldNotLockable
  <2>2. Holds(b)'
    BY <1>1, <1>2, <2>1 DEF Holds, Kept
  <2>3. Knows(b)'
    BY <1>1, <1>2, <1>3, <1>5 DEF Knows, In
  <2>4. QED
    BY <2>2, <2>3
<1>6. QED
  BY <1>4, <1>5 DEF Tame

(* What the step of a client makes of the document and of the client.      *)
Kind(c) ==
  /\ Tame(c)
  /\ ~value'.exists => value' = Missing
  /\ Holds(c)' /\ Knows(c)'

(* A client that gives up or loses the value says so before it acts.       *)
LEMMA ClosedKind ==
  ASSUME TypeOK, LockInv, NEW c \in Clients, NEW phase \in Phases,
         phase \notin {"set", "get"},
         Becomes(c, Closed(c)) \/ Becomes(c, [Closed(c) EXCEPT !.phase = phase])
  PROVE  Holds(c)' /\ Knows(c)'
<1> DEFINE gone == [Closed(c) EXCEPT !.phase = phase]
<1>1. clients'[c] = Closed(c) \/ clients'[c] = gone
  BY DEF TypeOK, Becomes
<1>2. /\ Closed(c).phase = "idle" /\ Closed(c).left = 0 /\ ~Closed(c).open
      /\ gone.phase = phase /\ gone.left = 0 /\ ~gone.open
  <2>1. 0 \in Nat
    OBVIOUS
  <2>2. QED
    BY <2>1, States
<1>3. /\ clients'[c].left = 0 /\ ~clients'[c].open
      /\ clients'[c].phase \in {phase, "idle"}
  BY <1>1, <1>2
<1>4. QED
  BY <1>3 DEF Holds, Knows, In

(* A client that locks the value is secured for as long as it holds it.    *)
LEMMA LockedKind ==
  ASSUME TypeOK, NEW c \in Clients, NEW data \in Nat,
         Becomes(c, Locked(c, data)), value' = LockedBy(c, data)
  PROVE  value'.exists /\ value'.token = c /\ Holds(c)' /\ Knows(c)'
<1> USE LockAssumption, LockBounds
<1>1. clients'[c] = Locked(c, data)
  BY Others
<1>2. /\ clients'[c].phase = "idle"
      /\ clients'[c].left =
           IF Timeout > clients[c].since THEN Timeout - clients[c].since ELSE 0
      /\ clients'[c].open
      /\ clients'[c].read = data
  BY <1>1, States DEF Phases
<1>3. /\ value'.exists /\ value'.token = c /\ value'.data = data
      /\ value'.locked = Timeout - clients[c].since
      /\ value'.deadline = TTL - clients[c].since
  BY DEF LockedBy
<1>4. clients[c].since \in Nat
  BY DEF TypeOK, ClientStates
<1>5. Holds(c)'
  BY <1>2, <1>3, <1>4 DEF Holds, Secured
<1>6. Knows(c)'
  BY <1>2, <1>3 DEF Knows, In
<1>7. QED
  BY <1>3, <1>5, <1>6

LEMMA CallLockKind ==
  ASSUME TypeOK, LockInv, NEW c \in Clients, CallLock(c)
  PROVE  Kind(c)
<1> DEFINE rec == [Calls(c, "insert") EXCEPT !.since = 0]
<1>1. /\ clients'[c] = rec /\ value' = value
      /\ raw' = raw /\ deleted' = deleted
  BY Others DEF CallLock
<1>2. /\ rec.phase = "insert" /\ rec.left = clients[c].left
      /\ rec.open = clients[c].open /\ rec.read = clients[c].read
  <2>1. 0 \in Nat /\ "insert" \in Phases
    BY DEF Phases
  <2>2. QED
    BY <2>1, States
<1>3. Holds(c) /\ Knows(c) /\ (~value.exists => value = Missing)
  BY LockInvSplit
<1> HIDE DEF rec
<1>4. QED
  BY <1>1, <1>2, <1>3 DEF Kind, Tame, Holds, Knows, Secured, In, Kept

LEMMA InsertKind ==
  ASSUME TypeOK, LockInv, NEW c \in Clients, Insert(c)
  PROVE  Kind(c)
<1>1. CASE value.exists
  <2>1. /\ clients'[c] = Calls(c, "update") /\ value' = value
        /\ raw' = raw /\ deleted' = deleted
    BY <1>1, Others DEF Insert
  <2>2. /\ Calls(c, "update").phase = "update"
        /\ Calls(c, "update").left = clients[c].left
        /\ Calls(c, "update").open = clients[c].open
        /\ Calls(c, "update").read = clients[c].read
    <3>1. 0 \in Nat /\ "update" \in Phases
      BY DEF Phases
    <3>2. QED
      BY <3>1, States
  <2>3. Holds(c) /\ Knows(c) /\ (~value.exists => value = Missing)
    BY LockInvSplit
  <2>4. QED
    BY <2>1, <2>2, <2>3 DEF Kind, Tame, Holds, Knows, Secured, In, Kept
<1>2. CASE ~value.exists
  <2>1. /\ Becomes(c, Locked(c, 0)) /\ value' = LockedBy(c, 0)
        /\ deleted' = deleted
    BY <1>2 DEF Insert
  <2>2. 0 \in Nat
    OBVIOUS
  <2>3. value'.exists /\ value'.token = c /\ Holds(c)' /\ Knows(c)'
    BY <2>1, <2>2, LockedKind
  <2>4. QED
    BY <1>2, <2>1, <2>3 DEF Kind, Tame
<1>3. QED
  BY <1>1, <1>2

LEMMA UpdateKind ==
  ASSUME TypeOK, LockInv, NEW c \in Clients, Update(c)
  PROVE  Kind(c)
<1>1. ~value.exists => value = Missing
  BY DEF LockInv
<1>2. "release" \in Phases /\ "release" \notin {"set", "get"} /\ value.data \in Nat
  BY DEF Phases, TypeOK, Values
<1>3. CASE Lockable(c)
  <2>1. value' = LockedBy(c, value.data) /\ deleted' = deleted
    BY <1>3 DEF Update
  <2>2. value'.exists /\ value'.token = c
    BY <2>1 DEF LockedBy
  <2>3. Holds(c)' /\ Knows(c)'
    <3>1. CASE Becomes(c, Locked(c, value.data))
      BY <1>2, <2>1, <3>1, LockedKind
    <3>2. CASE Becomes(c, [Closed(c) EXCEPT !.phase = "release"])
      BY <1>2, <3>2, ClosedKind
    <3>3. QED
      BY <1>3, <3>1, <3>2 DEF Update
  <2>4. QED
    BY <1>3, <2>1, <2>2, <2>3 DEF Kind, Tame
<1>4. CASE ~Lockable(c)
  <2>1. /\ Becomes(c, Closed(c)) /\ value' = value
        /\ raw' = raw /\ deleted' = deleted
    BY <1>4 DEF Update
  <2>2. Holds(c)' /\ Knows(c)'
    BY <1>2, <2>1, ClosedKind
  <2>3. QED
    BY <1>1, <2>1, <2>2 DEF Kind, Tame
<1>5. QED
  BY <1>3, <1>4

(* The three calls of a client that has given up the lock.                 *)
LEMMA GivenUpKind ==
  ASSUME TypeOK, LockInv, NEW c \in Clients,
         Release(c) \/ DeleteLocked(c) \/ Unlock(c)
  PROVE  Kind(c)
<1>1. ~clients[c].open /\ ~(clients[c].left > 0)
  BY DEF LockInv, Release, DeleteLocked, Unlock, In
<1>2. ~value.exists => value = Missing
  BY DEF LockInv
<1>3. clients'[c] = Calls(c, "idle")
  BY Others DEF Release, DeleteLocked, Unlock
<1>4. /\ clients'[c].phase = "idle" /\ ~clients'[c].open
      /\ ~(clients'[c].left > 0)
  <2>1. 0 \in Nat /\ "idle" \in Phases
    BY DEF Phases
  <2>2. /\ Calls(c, "idle").phase = "idle"
        /\ Calls(c, "idle").open = clients[c].open
        /\ Calls(c, "idle").left = clients[c].left
    BY <2>1, States
  <2>3. QED
    BY <1>1, <1>3, <2>2
<1>5. Holds(c)' /\ Knows(c)'
  BY <1>4 DEF Holds, Knows, In
<1>6. value \in Values /\ raw' = raw /\ deleted' = deleted
  BY DEF TypeOK, Release, DeleteLocked, Unlock
<1>7. Tame(c)
  <2>1. CASE Release(c)
    BY <1>6, <2>1 DEF Release, Tame, Unlocked, Lockable, Values
  <2>2. CASE DeleteLocked(c)
    BY <1>6, <2>2 DEF DeleteLocked, Tame, Missing
  <2>3. CASE Unlock(c)
    BY <1>6, <2>3 DEF Unlock, Tame, Unlocked, Values
  <2>4. QED
    BY <2>1, <2>2, <2>3
<1>8. ~value'.exists => value' = Missing
  <2>1. CASE Release(c)
    BY <1>2, <1>6, <2>1 DEF Release, Unlocked, Values
  <2>2. CASE DeleteLocked(c)
    BY <1>2, <2>2 DEF DeleteLocked
  <2>3. CASE Unlock(c)
    BY <1>2, <1>6, <2>3 DEF Unlock, Unlocked, Owned, Values
  <2>4. QED
    BY <2>1, <2>2, <2>3
<1>9. QED
  BY <1>5, <1>7, <1>8 DEF Kind

LEMMA CallKind ==
  ASSUME TypeOK, LockInv, NEW c \in Clients, Call(c)
  PROVE  Kind(c)
<1>1. /\ value' = value /\ raw' = raw
      /\ deleted' = deleted /\ clients[c].open
      /\ Holds(c) /\ Knows(c) /\ (~value.exists => value = Missing)
  BY LockInvSplit DEF Call
<1>2. CASE \E phase \in {"get", "set"} : Becomes(c, Calls(c, phase))
  <2>1. PICK phase \in {"get", "set"} : Becomes(c, Calls(c, phase))
    BY <1>2
  <2>2. clients'[c] = Calls(c, phase)
    BY <2>1, Others
  <2>3. 0 \in Nat /\ phase \in Phases
    BY DEF Phases
  <2>4. /\ Calls(c, phase).phase = phase
        /\ Calls(c, phase).left = clients[c].left
        /\ Calls(c, phase).open = clients[c].open
        /\ Calls(c, phase).read = clients[c].read
    BY <2>3, States
  <2>5. QED
    BY <1>1, <2>2, <2>4 DEF Kind, Tame, Holds, Knows, Secured, In, Kept
<1>3. CASE \E phase \in {"delete", "unlock"} :
             Becomes(c, [Closed(c) EXCEPT !.phase = phase])
  <2>1. PICK phase \in {"delete", "unlock"} :
          Becomes(c, [Closed(c) EXCEPT !.phase = phase])
    BY <1>3
  <2>2. phase \in Phases /\ phase \notin {"set", "get"}
    BY DEF Phases
  <2>3. Holds(c)' /\ Knows(c)'
    BY <2>1, <2>2, ClosedKind
  <2>4. QED
    BY <1>1, <2>3 DEF Kind, Tame
<1>4. QED
  BY <1>2, <1>3 DEF Call

LEMMA GetLockedKind ==
  ASSUME TypeOK, LockInv, NEW c \in Clients, GetLocked(c)
  PROVE  Kind(c)
<1>1. /\ value' = value /\ raw' = raw
      /\ deleted' = deleted /\ clients[c].open
      /\ Holds(c) /\ Knows(c) /\ (~value.exists => value = Missing)
  BY LockInvSplit DEF GetLocked, Knows
<1>2. "idle" \in Phases /\ "idle" \notin {"set", "get"} /\ value.data \in Nat
  BY DEF Phases, TypeOK, Values
<1>3. CASE Owned(c)
  <2> DEFINE rec == [Calls(c, "idle") EXCEPT !.read = value.data]
  <2>1. clients'[c] = rec
    BY <1>3, Others DEF GetLocked
  <2>2. /\ rec.phase = "idle" /\ rec.left = clients[c].left
        /\ rec.open = clients[c].open /\ rec.read = value.data
    BY <1>2, States
  <2> HIDE DEF rec
  <2>3. QED
    BY <1>1, <2>1, <2>2 DEF Kind, Tame, Holds, Knows, Secured, In, Kept
<1>4. CASE ~Owned(c)
  <2>1. Becomes(c, Closed(c))
    BY <1>4 DEF GetLocked
  <2>2. Holds(c)' /\ Knows(c)'
    BY <1>2, <2>1, ClosedKind
  <2>3. QED
    BY <1>1, <2>2 DEF Kind, Tame
<1>5. QED
  BY <1>3, <1>4

LEMMA SetLockedKind ==
  ASSUME TypeOK, LockInv, NEW c \in Clients, SetLocked(c)
  PROVE  Kind(c)
<1> USE LockAssumption, LockBounds
<1>1. Holds(c) /\ Knows(c) /\ (~value.exists => value = Missing)
  BY LockInvSplit
<1>2. "idle" \in Phases /\ "idle" \notin {"set", "get"} /\ writes + 1 \in Nat
  BY DEF Phases, TypeOK
<1>3. CASE Owned(c) /\ writes < MaxWrites
  <2>0. deleted' = deleted
    BY DEF SetLocked
  <2> DEFINE rec == [Calls(c, "idle") EXCEPT !.read = writes + 1]
  <2>1. clients'[c] = rec
    BY <1>3, Others DEF SetLocked
  <2>2. /\ rec.phase = "idle" /\ rec.left = clients[c].left
        /\ rec.open = clients[c].open /\ rec.read = writes + 1
    BY <1>2, States
  <2>3. value \in Values
    BY DEF TypeOK
  <2>4. value' = [value EXCEPT !.data = writes + 1,
                               !.deadline = TTL - clients[c].call]
    BY <1>3 DEF SetLocked
  <2>5. /\ value'.exists = value.exists /\ value'.token = value.token
        /\ value'.locked = value.locked /\ value'.data = writes + 1
        /\ value'.deadline = TTL - clients[c].call
    BY <2>3, <2>4 DEF Values
  <2>6. value.exists /\ value.token = c
    BY <1>3 DEF Owned
  <2>7. /\ clients[c].call \in Nat /\ clients[c].call <= Latency
        /\ clients[c].left \in 0..Timeout
    BY DEF TypeOK, ClientStates
  <2> HIDE DEF rec
  <2>8. TTL > 0 => value'.deadline + Latency >= clients'[c].left
    BY <2>1, <2>2, <2>5, <2>7
  <2>9. Holds(c)'
    BY <1>1, <2>0, <2>1, <2>2, <2>5, <2>6, <2>8 DEF Holds, Secured, Kept
  <2>10. Knows(c)'
    BY <1>1, <2>1, <2>2, <2>5 DEF Knows, In
  <2>11. QED
    BY <1>3, <2>0, <2>5, <2>6, <2>9, <2>10 DEF Kind, Tame
<1>4. CASE ~(Owned(c) /\ writes < MaxWrites)
  <2>1. /\ Becomes(c, Closed(c)) /\ value' = value
        /\ raw' = raw /\ deleted' = deleted
    BY <1>4 DEF SetLocked
  <2>2. Holds(c)' /\ Knows(c)'
    BY <1>2, <2>1, ClosedKind
  <2>3. QED
    BY <1>1, <2>1, <2>2 DEF Kind, Tame
<1>5. QED
  BY <1>3, <1>4

LEMMA LeaveKind ==
  ASSUME TypeOK, LockInv, NEW c \in Clients, GiveUp(c) \/ Die(c)
  PROVE  Kind(c)
<1>1. /\ value' = value /\ raw' = raw /\ deleted' = deleted
      /\ ~value.exists => value = Missing
  BY DEF LockInv, GiveUp, Die
<1>2. "dead" \in Phases /\ "dead" \notin {"set", "get"}
  BY DEF Phases
<1>3. Becomes(c, Closed(c)) \/ Becomes(c, [Closed(c) EXCEPT !.phase = "dead"])
  BY DEF GiveUp, Die
<1>4. Holds(c)' /\ Knows(c)'
  BY <1>2, <1>3, ClosedKind
<1>5. QED
  BY <1>1, <1>4 DEF Kind, Tame

(* A step of a client keeps the invariant.                                 *)
LEMMA ClientInv ==
  ASSUME TypeOK, LockInv, NEW c \in Clients, Step(c)
  PROVE  LockInv'
<1>1. Kind(c)
  BY CallLockKind, InsertKind, UpdateKind, GivenUpKind, CallKind,
     GetLockedKind, SetLockedKind, LeaveKind DEF Step, Answer
<1>2. \E rec : Becomes(c, rec)
  BY DEF Step, Answer, CallLock, Insert, Update, Release, Call, GetLocked,
         SetLocked, DeleteLocked, Unlock, GiveUp, Die
<1>3. \A b \in Clients \ {c} : Holds(b)' /\ Knows(b)'
  BY <1>1, <1>2, OthersKeep DEF Kind
<1>4. (~value.exists => value = Missing)'
  BY <1>1 DEF Kind
<1>5. (\A b \in Clients : Holds(b) /\ Knows(b))'
  BY <1>1, <1>3 DEF Kind
<1>6. QED
  BY <1>4, <1>5 DEF LockInv, Holds, Knows

(* Those who ignore locks change the content only, unless they may delete  *)
(* the value, and the index does not remove the value of a client that     *)
(* holds the lock.                                                         *)
LEMMA RawInv ==
  ASSUME TypeOK, LockInv, Set \/ Ensure \/ Delete \/ Expire
  PROVE  LockInv'
<1> USE LockAssumption, LockBounds
<1>1. clients' = clients
  BY DEF Set, Ensure, Delete, Expire
<1>2. /\ ~value.exists => value = Missing
      /\ \A c \in Clients : Holds(c) /\ Knows(c)
  BY LockInvSplit
<1>3. value \in Values
  BY DEF TypeOK
<1>4. (~value.exists => value = Missing)'
  BY <1>2, <1>3 DEF Set, Ensure, Delete, Expire, Missing, Values
<1>5. ASSUME NEW c \in Clients
      PROVE  Knows(c)'
  <2>1. raw' \/ value'.token = NoToken
    <3>1. CASE Set \/ Ensure \/ Delete
      BY <3>1, Zenon DEF Set, Ensure, Delete
    <3>2. CASE Expire
      BY <3>2 DEF Expire, Missing
    <3>3. QED
      BY <3>1, <3>2
  <2>2. c # NoToken
    OBVIOUS
  <2>3. QED
    BY <1>1, <1>2, <2>1, <2>2 DEF Knows, In
<1>6. ASSUME NEW c \in Clients, Kept', clients[c].left > 0
      PROVE  Secured(c)'
  <2>0. Kept /\ ~Delete
    BY <1>6 DEF Set, Ensure, Delete, Expire, Kept, TypeOK
  <2>1. Secured(c) /\ clients[c].left \in 0..Timeout
    BY <1>2, <1>6, <2>0 DEF Holds, TypeOK
  <2>2. CASE Set
    <3>1. PICK ago \in 0..Latency :
            value' = [value EXCEPT !.exists = TRUE, !.data = writes + 1,
                                   !.deadline = TTL - ago]
      BY <2>2 DEF Set
    <3>2. /\ value'.exists /\ value'.token = value.token
          /\ value'.locked = value.locked /\ value'.deadline = TTL - ago
      BY <1>3, <3>1 DEF Values
    <3>3. QED
      BY <1>1, <2>1, <3>2 DEF Secured
  <2>3. CASE Ensure
    BY <2>1, <2>3 DEF Ensure, Secured
  <2>4. CASE Delete
    BY <2>0, <2>4
  <2>5. CASE Expire
    BY <1>3, <1>6, <2>0, <2>1, <2>5 DEF Expire, Secured, Kept, Values
  <2>6. QED
    BY <2>2, <2>3, <2>4, <2>5
<1>7. \A c \in Clients : Holds(c)'
  BY <1>1, <1>6 DEF Holds
<1>8. QED
  BY <1>4, <1>5, <1>7 DEF LockInv, Holds, Knows

(* As time passes the lock in the database and what its owner knows of it  *)
(* end together.                                                           *)
LEMMA TickInv ==
  ASSUME TypeOK, LockInv, Tick
  PROVE  LockInv'
<1> USE LockAssumption, LockBounds
<1>1. /\ ~value.exists => value = Missing
      /\ \A c \in Clients : Holds(c) /\ Knows(c)
  BY LockInvSplit
<1>2. /\ value \in Values /\ raw' = raw /\ deleted' = deleted
      /\ value.locked \in Int /\ value.deadline \in Int
  BY DEF TypeOK, Values, Tick
<1>3. /\ value'.exists = value.exists /\ value'.token = value.token
      /\ value'.data = value.data
  BY <1>2 DEF Tick, Values
<1>4. value.exists =>
        /\ value.token # NoToken =>
             value'.locked = Earlier(value.locked, LockFloor)
        /\ value'.deadline = Earlier(value.deadline, DeadlineFloor)
  BY <1>2 DEF Tick, Values
<1>5. ASSUME NEW c \in Clients
      PROVE  /\ clients'[c].phase = clients[c].phase
             /\ clients'[c].open = clients[c].open
             /\ clients'[c].read = clients[c].read
             /\ clients'[c].left = Earlier(clients[c].left, 0)
  <2>1. clients[c] \in ClientStates
    BY DEF TypeOK
  <2>2. clients'[c] = Aged(clients[c])
    BY DEF Tick
  <2>3. QED
    BY <2>1, <2>2 DEF Aged, ClientStates
<1>6. (~value.exists => value = Missing)'
  BY <1>1, <1>3 DEF Tick
<1>7. ASSUME NEW c \in Clients
      PROVE  Holds(c)' /\ Knows(c)'
  <2>1. clients[c].left \in 0..Timeout
    BY DEF TypeOK
  <2>2. clients'[c].left > 0 =>
          clients[c].left > 0 /\ clients'[c].left = clients[c].left - 1
    BY <1>5, <2>1 DEF Earlier
  <2>3. Knows(c)'
    BY <1>1, <1>2, <1>3, <1>5, <2>2 DEF Knows, In
  <2>4. ASSUME Kept, clients'[c].left > 0
        PROVE  Secured(c)'
    <3>1. Secured(c)
      BY <1>1, <2>2, <2>4 DEF Holds
    <3>2. /\ value.token # NoToken
          /\ value'.locked = value.locked - 1
      BY <1>2, <1>4, <2>1, <2>2, <2>4, <3>1 DEF Secured, Earlier,
         LockFloor, DeadlineFloor, Kept
    <3>3. TTL > 0 => value'.deadline = value.deadline - 1
      BY <1>2, <1>4, <2>1, <2>2, <2>4, <3>1 DEF Secured, Earlier,
         LockFloor, DeadlineFloor, Kept
    <3>4. QED
      BY <1>2, <1>3, <2>1, <2>2, <2>4, <3>1, <3>2, <3>3 DEF Secured
  <2>5. QED
    BY <1>2, <2>3, <2>4 DEF Holds, Kept
<1>8. QED
  BY <1>6, <1>7 DEF LockInv, Holds, Knows

(* LockInv is inductive, given the types: a client that holds the lock is  *)
(* secured by the document (glut/locks.go Lock, SetLocked, Unlock).        *)
THEOREM LockInvariant == Spec => []LockInv
<1>1. Init => LockInv
  BY LockAssumption DEF Init, LockInv, Missing, Fresh, In
<1>2. TypeOK /\ LockInv /\ [Next]_vars => LockInv'
  <2> SUFFICES ASSUME TypeOK, LockInv, [Next]_vars PROVE LockInv'
    OBVIOUS
  <2>1. CASE UNCHANGED vars
    BY <2>1 DEF vars, LockInv, Kept, Secured, In
  <2>2. QED
    BY <2>1, ClientInv, RawInv, TickInv DEF Next
<1>3. QED
  BY <1>1, <1>2, TypeCorrect, PTL DEF Spec

(* What the run checks of the locks, for every value of the constants.     *)
THEOREM ValueInvHolds == Spec => []ValueInv
  BY TypeCorrect, LockInvariant, PTL DEF ValueInv

(* For any number of clients, any timeout, time to live and latency: no    *)
(* two of them hold the lock, unless others delete the value or the index  *)
(* keeps it for less than a call takes (glut/locks.go:14).                 *)
THEOREM MutualExclusionHolds == Spec => []MutualExclusion
<1>1. LockInv => MutualExclusion
  BY DEF LockInv, MutualExclusion, Secured
<1>2. QED
  BY <1>1, LockInvariant, PTL

(* For any number of clients: what SetLocked replaces is what the client   *)
(* has read or written, or content written by those who ignore locks       *)
(* (glut/locks.go SetLocked, MutateLocked).                                *)
THEOREM NoLostUpdateHolds == Spec => NoLostUpdate
<1> DEFINE Based == \A c \in Clients :
                      SetLocked(c) /\ value' # value =>
                        raw \/ value.data = clients[c].read
<1>1. LockInv /\ [Next]_vars => Based
  <2> SUFFICES ASSUME LockInv, NEW c \in Clients, SetLocked(c), value' # value
               PROVE  raw \/ value.data = clients[c].read
    OBVIOUS
  <2>1. value.token = c
    BY DEF SetLocked, Owned
  <2>2. clients[c].open
    BY DEF LockInv, SetLocked
  <2>3. QED
    BY <2>1, <2>2 DEF LockInv
<1>2. QED
  BY <1>1, LockInvariant, PTL DEF Spec, NoLostUpdate

=============================================================================
