----------------------------- MODULE Exclusive -----------------------------
(***************************************************************************)
(* What a queue promises of the work it hands out: an item has at most one *)
(* holder at a time, an item without a holder may be taken, a holder may   *)
(* lose its claim at any time, and only the holder may close an item.  A   *)
(* closed item is never taken again.                                       *)
(***************************************************************************)
CONSTANTS Items, Holders

VARIABLES
  status,   \* status[i]: "new", "open" or "closed"
  holders   \* holders[i]: the set of those that hold i, empty or a singleton

vars == <<status, holders>>

Init ==
  /\ status = [i \in Items |-> "new"]
  /\ holders = [i \in Items |-> {}]

Open(i) ==
  /\ status[i] = "new"
  /\ status' = [status EXCEPT ![i] = "open"]
  /\ UNCHANGED holders

Take(h, i) ==
  /\ status[i] = "open"
  /\ holders[i] = {}
  /\ holders' = [holders EXCEPT ![i] = {h}]
  /\ UNCHANGED status

(* Claims are given up or lost, any number of them at once.                *)
Lose ==
  /\ holders' \in [Items -> SUBSET Holders]
  /\ \A i \in Items : holders'[i] \subseteq holders[i]
  /\ UNCHANGED status

Close(h, i) ==
  /\ status[i] = "open"
  /\ holders[i] = {h}
  /\ status' = [status EXCEPT ![i] = "closed"]
  /\ holders' = [holders EXCEPT ![i] = {}]

Next ==
  \/ \E i \in Items : Open(i)
  \/ \E h \in Holders, i \in Items : Take(h, i) \/ Close(h, i)
  \/ Lose

Spec == Init /\ [][Next]_vars

=============================================================================
