----------------------------- MODULE AtomicStore -----------------------------
(***************************************************************************)
(* What coal's store promises of a transaction: "If the callback returns   *)
(* no error the transaction will be committed.  If T itself does not       *)
(* return an error the transaction has been committed" (store.go).  All    *)
(* the changes a call wants appear in the store in one step and at most    *)
(* once for a call, however often its function ran; a call that answers    *)
(* without an error has made them, one that answers with an error has made *)
(* all or none of them.                                                    *)
(***************************************************************************)
CONSTANTS Procs, Docs, Contents

VARIABLES store,    \* what is stored of every document
          call,     \* how far the call of a process is
          wants     \* the changes it has asked for: a function on documents

vars == <<store, call, wants>>

IsChanges(f) ==
  /\ DOMAIN f \subseteq Docs
  /\ \A d \in DOMAIN f : f[d] \in Contents

NoChanges == [d \in {} |-> {}]

Applied(p) == [d \in Docs |-> IF d \in DOMAIN wants[p] THEN wants[p][d] ELSE store[d]]

Init ==
  /\ store \in [Docs -> Contents]
  /\ call = [p \in Procs |-> "idle"]
  /\ wants = [p \in Procs |-> NoChanges]

Begin(p) ==
  /\ call[p] \in {"idle", "ok", "error"}
  /\ call' = [call EXCEPT ![p] = "running"]
  /\ wants' = [wants EXCEPT ![p] = NoChanges]
  /\ UNCHANGED store

\* The function asks for changes, or starts over.
Want(p) ==
  /\ call[p] = "running"
  /\ wants' = [wants EXCEPT ![p] = wants'[p]]
  /\ IsChanges(wants'[p])
  /\ UNCHANGED <<store, call>>

\* The call applies what it wants, and may answer at once.
Apply(p) ==
  /\ call[p] = "running"
  /\ store' = Applied(p)
  /\ call' = [call EXCEPT ![p] = call'[p]]
  /\ call'[p] \in {"applied", "ok", "error"}
  /\ wants' = [wants EXCEPT ![p] = NoChanges]

Answer(p) ==
  /\ \/ call[p] = "applied" /\ call'[p] \in {"ok", "error"}
     \/ call[p] = "running" /\ call'[p] = "error"
     \/ call[p] = "running" /\ call'[p] = "ok" /\ wants[p] = NoChanges
  /\ call' = [call EXCEPT ![p] = call'[p]]
  /\ wants' = [wants EXCEPT ![p] = NoChanges]
  /\ UNCHANGED store

\* An operation outside of a transaction changes one document.
Write ==
  /\ \E d \in Docs : store'[d] \in Contents /\ store' = [store EXCEPT ![d] = store'[d]]
  /\ UNCHANGED <<call, wants>>

Next ==
  \/ \E p \in Procs : Begin(p) \/ Want(p) \/ Apply(p) \/ Answer(p)
  \/ Write

Spec == Init /\ [][Next]_vars
=============================================================================
