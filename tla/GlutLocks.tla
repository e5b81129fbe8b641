----------------------------- MODULE GlutLocks -----------------------------
(***************************************************************************)
(* The values of glut and the locks on them: glut/locks.go, glut/basic.go. *)
(*                                                                         *)
(* Clients share a value, a document of the database.  A client locks the  *)
(* value with its own token for Timeout, loads it in the process, and reads*)
(* and writes it with filters that compare the token and the end of the    *)
(* lock.  A client takes the present time before it calls the database and *)
(* the call takes effect up to Latency later.  Other clients ignore locks  *)
(* with Set, Ensure and Delete, and the database removes the value some    *)
(* time after its deadline.  Every filter compares the key, so that values *)
(* with other keys play no part.                                           *)
(*                                                                         *)
(* Times are relative to the present: "locked" is the time until the lock  *)
(* ends and "left" the time until its owner has to assume that it has.     *)
(* "data" stands for the content: the number of the write it is from.      *)
(***************************************************************************)
EXTENDS Integers

CONSTANTS
  Clients,    \* the users of the value, each with a token of its own
  NoToken,    \* the token of a value that is not locked
  Timeout,    \* the timeout clients pass to Lock
  TTL,        \* the time to live of the value, 0 for none
  Grace,      \* the time the index keeps a value beyond its deadline
  Raw,        \* the operations in use that ignore locks
  Latency,    \* bound: the longest time a call to the database takes
  MaxWrites,  \* bound: the writes of the content and the calls of Delete
  MaxFaults   \* bound: the failing calls and the contents that are invalid

(* Lock refuses a deadline that is before the end of the lock.             *)
ASSUME LockAssumption ==
  /\ Timeout \in Nat \ {0}
  /\ TTL \in Nat /\ (TTL = 0 \/ TTL > Timeout)
  /\ Grace \in Nat
  /\ Raw \subseteq {"ensure", "set", "delete"}
  /\ NoToken \notin Clients

ASSUME LockBounds ==
  Latency \in Nat /\ MaxWrites \in Nat /\ MaxFaults \in Nat

VARIABLES
  value,    \* the document
  clients,  \* what each client is doing and knows
  raw,      \* whether the content was last changed ignoring locks
  deleted,  \* whether a Delete has ignored them
  writes,   \* the number of writes so far
  faults    \* the number of failures so far

vars == <<value, clients, raw, deleted, writes, faults>>

(* A Lock inserts the value or else updates it, and releases it again if   *)
(* it cannot be decoded.                                                   *)
Phases == {"idle", "insert", "update", "release", "get", "set", "delete",
           "unlock", "dead"}

Values == [exists : BOOLEAN, data : Nat, locked : Int,
           token : Clients \cup {NoToken}, deadline : Int]

ClientStates == [phase : Phases, call : Nat, since : Nat, left : Int,
                 open : BOOLEAN, read : Nat]

Missing == [exists |-> FALSE, data |-> 0, locked |-> 0, token |-> NoToken,
            deadline |-> 0]

(* "open": the client has loaded the value with its latest Lock.  "read" is*)
(* the content it has loaded or written.                                   *)
Fresh == [phase |-> "idle", call |-> 0, since |-> 0, left |-> 0,
          open |-> FALSE, read |-> 0]

TypeOK ==
  /\ value \in Values
  /\ clients \in [Clients -> ClientStates]
  /\ raw \in BOOLEAN /\ deleted \in BOOLEAN
  /\ writes \in 0..MaxWrites
  /\ faults \in 0..MaxFaults
  /\ \A c \in Clients : /\ clients[c].call <= Latency
                        /\ clients[c].left \in 0..Timeout

Init ==
  /\ value = Missing
  /\ clients = [c \in Clients |-> Fresh]
  /\ raw = FALSE /\ deleted = FALSE
  /\ writes = 0
  /\ faults = 0

In(c, phase) == clients[c].phase = phase

Becomes(c, rec) == clients' = [clients EXCEPT ![c] = rec]

Calls(c, phase) == [clients[c] EXCEPT !.phase = phase, !.call = 0]

Fault ==
  /\ faults < MaxFaults
  /\ faults' = faults + 1

(* The client knows no more of the value.                                  *)
Closed(c) ==
  [Calls(c, "idle") EXCEPT !.since = 0, !.left = 0, !.open = FALSE, !.read = 0]

-----------------------------------------------------------------------------

(* Lock takes the time its deadline and the end of the lock are based on.  *)
CallLock(c) ==
  /\ In(c, "idle")
  /\ Becomes(c, [Calls(c, "insert") EXCEPT !.since = 0])
  /\ UNCHANGED <<value, raw, writes, deleted, faults>>

(* The client holds the lock from now on and has loaded the value.         *)
Locked(c, data) ==
  [Calls(c, "idle") EXCEPT
     !.since = 0,
     !.left = IF Timeout > clients[c].since
              THEN Timeout - clients[c].since ELSE 0,
     !.open = TRUE,
     !.read = data]

(* Mutated: Lock does not renew the deadline.                              *)
LockedByOldDeadline(c, data) ==
  [exists |-> TRUE, data |-> data, token |-> c,
   locked |-> Timeout - clients[c].since,
   deadline |-> value.deadline]

(* The document as Lock leaves it.                                         *)
LockedBy(c, data) ==
  [exists |-> TRUE, data |-> data, token |-> c,
   locked |-> Timeout - clients[c].since,
   deadline |-> TTL - clients[c].since]

(* "insert value if missing"                                               *)
Insert(c) ==
  /\ In(c, "insert")
  /\ IF value.exists
     THEN /\ Becomes(c, Calls(c, "update"))
          /\ UNCHANGED <<value, raw>>
     ELSE /\ value' = LockedBy(c, 0)
          /\ raw' = FALSE
          /\ Becomes(c, Locked(c, 0))
  /\ UNCHANGED <<writes, deleted, faults>>

(* Mutated: a lock is taken over a moment before it ends.                  *)
LockableEarly(c) ==
  /\ value.exists
  /\ \/ value.token = NoToken
     \/ value.locked + clients[c].call <= 1
     \/ value.token = c

(* Mutated: a lock that has timed out is not taken over.                   *)
LockableUnlocked(c) ==
  value.exists /\ (value.token = NoToken \/ value.token = c)

(* "unlocked", "lock timed out" or "we have the lock"                      *)
Lockable(c) ==
  /\ value.exists
  /\ \/ value.token = NoToken
     \/ value.locked + clients[c].call < 0
     \/ value.token = c

(* The content may be invalid, in which case the lock is released.         *)
Update(c) ==
  /\ In(c, "update")
  /\ IF Lockable(c)
     THEN /\ value' = LockedBy(c, value.data)
          /\ \/ /\ Becomes(c, Locked(c, value.data))
                /\ UNCHANGED faults
             \/ /\ Becomes(c, [Closed(c) EXCEPT !.phase = "release"])
                /\ Fault
     ELSE /\ Becomes(c, Closed(c))
          /\ UNCHANGED <<value, faults>>
  /\ UNCHANGED <<raw, deleted, writes>>

Unlocked(doc) == [doc EXCEPT !.token = NoToken, !.locked = 0]

(* release: the end of the lock is not compared.                           *)
Release(c) ==
  /\ In(c, "release")
  /\ value' = IF value.exists /\ value.token = c
              THEN Unlocked(value) ELSE value
  /\ Becomes(c, Calls(c, "idle"))
  /\ UNCHANGED <<raw, writes, deleted, faults>>

-----------------------------------------------------------------------------

(* Mutated: the token is not compared.                                     *)
OwnedByAny(c) == value.exists /\ value.locked + clients[c].call > 0

(* The filter of GetLocked, SetLocked, DeleteLocked and Unlock.            *)
Owned(c) ==
  /\ value.exists
  /\ value.token = c
  /\ value.locked + clients[c].call > 0

(***************************************************************************)
(* A client that has the value open calls one of them, even if its lock has*)
(* ended.  MutateLocked is a GetLocked followed by a SetLocked.  A client  *)
(* that deletes or unlocks the value gives up the lock.                    *)
(***************************************************************************)
Call(c) ==
  /\ In(c, "idle")
  /\ clients[c].open
  /\ \/ \E phase \in {"get", "set"} : Becomes(c, Calls(c, phase))
     \/ \E phase \in {"delete", "unlock"} :
          Becomes(c, [Closed(c) EXCEPT !.phase = phase])
  /\ UNCHANGED <<value, raw, writes, deleted, faults>>

GetLocked(c) ==
  /\ In(c, "get")
  /\ Becomes(c, IF Owned(c)
                THEN [Calls(c, "idle") EXCEPT !.read = value.data]
                ELSE Closed(c))
  /\ UNCHANGED <<value, raw, writes, deleted, faults>>

(* A client whose SetLocked finds nothing has "lost lock"; beyond the bound*)
(* on writes the call fails.                                               *)
SetLocked(c) ==
  /\ In(c, "set")
  /\ IF Owned(c) /\ writes < MaxWrites
     THEN /\ writes' = writes + 1
          /\ value' = [value EXCEPT !.data = writes + 1,
                                    !.deadline = TTL - clients[c].call]
          /\ raw' = FALSE
          /\ Becomes(c, [Calls(c, "idle") EXCEPT !.read = writes + 1])
     ELSE /\ Becomes(c, Closed(c))
          /\ UNCHANGED <<value, raw, writes>>
  /\ UNCHANGED <<deleted, faults>>

DeleteLocked(c) ==
  /\ In(c, "delete")
  /\ value' = IF Owned(c) THEN Missing ELSE value
  /\ Becomes(c, Calls(c, "idle"))
  /\ UNCHANGED <<raw, writes, deleted, faults>>

Unlock(c) ==
  /\ In(c, "unlock")
  /\ value' = IF Owned(c)
              THEN [Unlocked(value) EXCEPT !.deadline = TTL - clients[c].call]
              ELSE value
  /\ Becomes(c, Calls(c, "idle"))
  /\ UNCHANGED <<raw, writes, deleted, faults>>

-----------------------------------------------------------------------------

(* "This method will ignore any locks held on the value": the lock stays.  *)
Set ==
  /\ "set" \in Raw
  /\ writes < MaxWrites
  /\ writes' = writes + 1
  /\ \E ago \in 0..Latency :
       value' = [value EXCEPT !.exists = TRUE, !.data = writes + 1,
                              !.deadline = TTL - ago]
  /\ raw' = TRUE
  /\ UNCHANGED <<clients, deleted, faults>>

Ensure ==
  /\ "ensure" \in Raw
  /\ ~value.exists
  /\ writes < MaxWrites
  /\ writes' = writes + 1
  /\ \E ago \in 0..Latency :
       value' = [Missing EXCEPT !.exists = TRUE, !.data = writes + 1,
                                !.deadline = TTL - ago]
  /\ raw' = TRUE
  /\ UNCHANGED <<clients, deleted, faults>>

Delete ==
  /\ "delete" \in Raw
  /\ value.exists
  /\ writes < MaxWrites
  /\ writes' = writes + 1
  /\ value' = Missing
  /\ raw' = TRUE /\ deleted' = TRUE
  /\ UNCHANGED <<clients, faults>>

(* The index on Deadline.                                                  *)
Expire ==
  /\ value.exists
  /\ TTL > 0
  /\ value.deadline + Grace < 0
  /\ value' = Missing
  /\ UNCHANGED <<clients, raw, writes, deleted, faults>>

(* A client dies: its token is not used any more.                          *)
Die(c) ==
  /\ ~In(c, "dead")
  /\ Fault
  /\ Becomes(c, [Closed(c) EXCEPT !.phase = "dead"])
  /\ UNCHANGED <<value, raw, deleted, writes>>

(* A call fails, before or after it has taken effect.                      *)
GiveUp(c) ==
  /\ ~In(c, "dead")
  /\ ~In(c, "idle") \/ clients[c].open
  /\ Fault
  /\ Becomes(c, Closed(c))
  /\ UNCHANGED <<value, raw, deleted, writes>>

(* bound: times that are long over are not told apart.                     *)
LockFloor == -(Latency + 1)
DeadlineFloor == -(Grace + 1)

Earlier(n, floor) == IF n > floor THEN n - 1 ELSE n

Aged(rec) ==
  [rec EXCEPT !.call = IF rec.phase \in {"idle", "dead"} THEN @ ELSE @ + 1,
              !.since = IF rec.phase \in {"insert", "update"}
                        THEN @ + 1 ELSE @,
              !.left = Earlier(@, 0)]

Tick ==
  /\ \A c \in Clients :
       In(c, "idle") \/ In(c, "dead") \/ clients[c].call < Latency
  /\ value' = IF value.exists
              THEN [value EXCEPT
                      !.locked = IF value.token = NoToken THEN 0
                                 ELSE Earlier(@, LockFloor),
                      !.deadline = Earlier(@, DeadlineFloor)]
              ELSE value
  /\ clients' = [c \in Clients |-> Aged(clients[c])]
  /\ UNCHANGED <<raw, writes, deleted, faults>>

-----------------------------------------------------------------------------

(* The database answers the call a client is waiting for.                  *)
Answer(c) ==
  \/ Insert(c) \/ Update(c) \/ Release(c)
  \/ GetLocked(c) \/ SetLocked(c) \/ DeleteLocked(c) \/ Unlock(c)

Step(c) == CallLock(c) \/ Call(c) \/ Answer(c) \/ GiveUp(c) \/ Die(c)

Next ==
  \/ \E c \in Clients : Step(c)
  \/ Set \/ Ensure \/ Delete
  \/ Expire
  \/ Tick

Spec == Init /\ [][Next]_vars

(* Time passes, the database answers, and clients keep asking for the lock.*)
Fairness ==
  /\ WF_vars(Tick)
  /\ \A c \in Clients : WF_vars(CallLock(c) \/ Answer(c))

FairSpec == Spec /\ Fairness

-----------------------------------------------------------------------------

(* Nobody has deleted the value without holding it, and the index keeps it *)
(* for longer than a call takes: a minute.                                 *)
Kept == ~deleted /\ Latency <= Grace

(* No two clients hold the lock, unless the value was deleted by somebody  *)
(* who does not hold it: "Lock will lock and read the specified value".    *)
MutualExclusion ==
  Kept =>
    \A b, c \in Clients : clients[b].left > 0 /\ clients[c].left > 0 => b = c

(* A locked write (SetLocked, MutateLocked) is based on the content it     *)
(* replaces: the writes of other clients are not lost, but for those that  *)
(* ignore locks.                                                           *)
NoLostUpdate ==
  [][\A c \in Clients :
       SetLocked(c) /\ value' # value =>
         raw \/ value.data = clients[c].read]_vars

(***************************************************************************)
(* Why the two hold: the document of a client that holds the lock ends     *)
(* neither the lock nor its own life before the client knows, and a client *)
(* that has the value open and whose token it bears knows its content.  A  *)
(* client has given up the lock before it releases or deletes the value.   *)
(***************************************************************************)
Secured(c) ==
  /\ value.exists
  /\ value.token = c
  /\ value.locked >= clients[c].left
  /\ TTL > 0 => value.deadline + Latency >= clients[c].left

LockInv ==
  /\ ~value.exists => value = Missing
  /\ Kept =>
       \A c \in Clients : clients[c].left > 0 => Secured(c)
  /\ \A c \in Clients :
       /\ clients[c].left > 0 => clients[c].open
       /\ In(c, "set") => clients[c].open
       /\ In(c, "get") => clients[c].open
       /\ clients[c].phase \in {"release", "delete", "unlock"} =>
            ~clients[c].open
       /\ value.token = c /\ clients[c].open =>
            raw \/ value.data = clients[c].read

(* What the filters of the database promise, with the types.               *)
ValueInv == TypeOK /\ LockInv

(* The lock of a client that has died ends: the value is locked again and  *)
(* again by those that are left.                                           *)
LockedAgain == []<>(\E c \in Clients : clients[c].left > 0)

=============================================================================
