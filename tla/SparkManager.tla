---------------------------- MODULE SparkManager ----------------------------
(***************************************************************************)
(* The connections of a watcher: spark/manager.go and spark/watcher.go.    *)
(*                                                                         *)
(* The streams of the watcher broadcast events to the manager, a goroutine *)
(* that adds them to the queue of every registered connection and closes   *)
(* the queue of a connection that is too slow.  The handler of a connection*)
(* registers its queue with one channel and unregisters it with another.   *)
(* All channels are bounded, and a select with several cases that are ready*)
(* takes any of them.                                                      *)
(*                                                                         *)
(* An event is known by its age, the number of events broadcast after it.  *)
(* All streams share one channel, in which events are consecutive: it is   *)
(* represented by their number.                                            *)
(***************************************************************************)
EXTENDS Naturals, Sequences

CONSTANTS
  Clients,   \* the connections, each of which comes once
  None,      \* the last event of a client that has not received any
  QueueCap,  \* the capacity of the queue of a connection
  ChanCap,   \* the capacity of the channels of the manager
  MaxAge     \* bound: the age from which events are not told apart

ASSUME SparkAssumption ==
  /\ QueueCap \in Nat \ {0}
  /\ ChanCap \in Nat \ {0}
  /\ MaxAge \in Nat
  /\ MaxAge > QueueCap + ChanCap
  /\ None \notin Nat

VARIABLES
  open,          \* whether the streams are open
  dying,         \* whether the tomb of the manager is dying
  running,       \* whether the manager runs
  events,        \* the number of events in the channel of events
  subscribes,    \* the channel of queues to register
  unsubscribes,  \* the channel of queues to unregister
  queues,        \* the clients whose queues are registered
  queue,         \* the queue of every client
  closed,        \* the clients whose queues have been closed
  phase,         \* what the handler of every client does
  last,          \* the last event every client has taken from its queue
  overtaken      \* the clients whose queue has been unregistered before it
                 \* was registered (history)

vars == <<open, dying, running, events, subscribes, unsubscribes, queues,
          queue, closed, phase, last, overtaken>>

manager == <<running, queues, closed, overtaken>>
channels == <<events, subscribes, unsubscribes>>
lifecycle == <<open, dying>>

Ages == 0..MaxAge

Older(age) == IF age < MaxAge THEN age + 1 ELSE age

Phases == {"new", "register", "serving", "leaving", "gone"}

TypeOK ==
  /\ open \in BOOLEAN /\ dying \in BOOLEAN /\ running \in BOOLEAN
  /\ events \in 0..ChanCap
  /\ subscribes \in Seq(Clients) /\ Len(subscribes) <= ChanCap
  /\ unsubscribes \in Seq(Clients) /\ Len(unsubscribes) <= ChanCap
  /\ queues \subseteq Clients
  /\ queue \in [Clients -> Seq(Ages)]
  /\ \A c \in Clients : Len(queue[c]) <= QueueCap
  /\ closed \subseteq Clients
  /\ phase \in [Clients -> Phases]
  /\ last \in [Clients -> Ages \cup {None}]
  /\ overtaken \subseteq Clients

Init ==
  /\ open = TRUE /\ dying = FALSE /\ running = TRUE
  /\ events = 0 /\ subscribes = <<>> /\ unsubscribes = <<>>
  /\ queues = {} /\ closed = {} /\ overtaken = {}
  /\ queue = [c \in Clients |-> <<>>]
  /\ phase = [c \in Clients |-> "new"]
  /\ last = [c \in Clients |-> None]

-----------------------------------------------------------------------------

(* A stream blocks until the channel has room.  The streams are closed     *)
(* before the manager, so that none of them broadcasts when it is dying.   *)
Broadcast ==
  /\ open
  /\ events < ChanCap
  /\ events' = events + 1
  /\ queue' = [c \in Clients |->
                 [i \in DOMAIN queue[c] |-> Older(queue[c][i])]]
  /\ last' = [c \in Clients |-> IF last[c] = None THEN None
                                ELSE Older(last[c])]
  /\ UNCHANGED <<lifecycle, manager, subscribes, unsubscribes, phase>>

TakeSubscribe ==
  /\ running
  /\ subscribes # <<>>
  /\ queues' = queues \cup {Head(subscribes)}
  /\ subscribes' = Tail(subscribes)
  /\ UNCHANGED <<lifecycle, running, closed, events, unsubscribes,
                 queue, phase, last, overtaken>>

(* The clients whose queues wait to be registered.                         *)
Awaited == {subscribes[i] : i \in DOMAIN subscribes}

Full(c) == Len(queue[c]) = QueueCap

(* Mutated: an event for a full queue is dropped.                          *)
TakeEventDropping ==
  /\ running
  /\ events > 0
  /\ events' = events - 1
  /\ queue' = [c \in Clients |-> IF c \in queues /\ ~Full(c)
                                 THEN Append(queue[c], events')
                                 ELSE queue[c]]
  /\ UNCHANGED <<lifecycle, running, closed, queues, subscribes,
                 unsubscribes, phase, last, overtaken>>

(* Mutated: a queue that has been closed stays registered.                 *)
TakeEventKeeping ==
  /\ running
  /\ events > 0
  /\ events' = events - 1
  /\ queue' = [c \in Clients |-> IF c \in queues /\ ~Full(c)
                                 THEN Append(queue[c], events')
                                 ELSE queue[c]]
  /\ closed' = closed \cup {c \in queues : Full(c)}
  /\ UNCHANGED <<lifecycle, running, queues, subscribes, unsubscribes,
                 phase, last, overtaken>>

(* "add message to all queues" and "close and delete" those that are full. *)
TakeEvent ==
  /\ running
  /\ events > 0
  /\ events' = events - 1
  /\ queue' = [c \in Clients |-> IF c \in queues /\ ~Full(c)
                                 THEN Append(queue[c], events')
                                 ELSE queue[c]]
  /\ closed' = closed \cup {c \in queues : Full(c)}
  /\ queues' = {c \in queues : ~Full(c)}
  /\ UNCHANGED <<lifecycle, running, subscribes, unsubscribes, phase,
                 last, overtaken>>

(* The queue may wait to be registered still: it is registered later, and  *)
(* nobody unregisters it again.                                            *)
TakeUnsubscribe ==
  /\ running
  /\ unsubscribes # <<>>
  /\ queues' = queues \ {Head(unsubscribes)}
  /\ unsubscribes' = Tail(unsubscribes)
  /\ overtaken' = overtaken \cup {c \in Awaited : c = Head(unsubscribes)}
  /\ UNCHANGED <<lifecycle, running, closed, events, subscribes, queue,
                 phase, last>>

(* The manager closes all queues and returns.                              *)
Die ==
  /\ running
  /\ dying
  /\ running' = FALSE
  /\ closed' = closed \cup queues
  /\ queues' = {}
  /\ UNCHANGED <<lifecycle, channels, queue, phase, last, overtaken>>

(* Close closes the streams and then kills the manager.                    *)
CloseStreams ==
  /\ open
  /\ open' = FALSE
  /\ UNCHANGED <<dying, manager, channels, queue, phase, last>>

Kill ==
  /\ ~open
  /\ ~dying
  /\ dying' = TRUE
  /\ UNCHANGED <<open, manager, channels, queue, phase, last>>

-----------------------------------------------------------------------------

Goes(c, p) == phase' = [phase EXCEPT ![c] = p]

(* The connection is refused if the manager is dying, and it may fail.     *)
Connect(c) ==
  /\ phase[c] = "new"
  /\ IF dying THEN Goes(c, "gone")
     ELSE Goes(c, "register") \/ Goes(c, "gone")
  /\ UNCHANGED <<lifecycle, manager, channels, queue, last>>

Register(c) ==
  /\ phase[c] = "register"
  /\ \/ /\ Len(subscribes) < ChanCap
        /\ subscribes' = Append(subscribes, c)
        /\ Goes(c, "serving")
     \/ /\ dying
        /\ Goes(c, "gone")
        /\ UNCHANGED subscribes
  /\ UNCHANGED <<lifecycle, manager, events, unsubscribes, queue, last>>

(* The writer takes an event; the events of a closed queue are taken first.*)
Deliver(c) ==
  /\ phase[c] = "serving"
  /\ queue[c] # <<>>
  /\ last' = [last EXCEPT ![c] = Head(queue[c])]
  /\ queue' = [queue EXCEPT ![c] = Tail(queue[c])]
  /\ UNCHANGED <<lifecycle, manager, channels, phase>>

(* Mutated: a handler goes on when the manager is dying.                   *)
EndedByClose(c) == queue[c] = <<>> /\ c \in closed

(* The writer has to return: its queue is closed or the manager is dying.  *)
Ended(c) == dying \/ EndedByClose(c)

Return(c) ==
  /\ phase[c] = "serving"
  /\ Ended(c)
  /\ Goes(c, "leaving")
  /\ UNCHANGED <<lifecycle, manager, channels, queue, last>>

(* The client goes away, sends an invalid request or cannot be written to. *)
Leave(c) ==
  /\ phase[c] = "serving"
  /\ Goes(c, "leaving")
  /\ UNCHANGED <<lifecycle, manager, channels, queue, last>>

(* Mutated: the handler does not wait for room in the channel.             *)
UnregisterOrNot(c) ==
  /\ phase[c] = "leaving"
  /\ Goes(c, "gone")
  /\ unsubscribes' = IF Len(unsubscribes) < ChanCap
                     THEN Append(unsubscribes, c) ELSE unsubscribes
  /\ UNCHANGED <<lifecycle, manager, events, subscribes, queue, last>>

(* "ensure unsubscribe"                                                    *)
Unregister(c) ==
  /\ phase[c] = "leaving"
  /\ Goes(c, "gone")
  /\ \/ /\ Len(unsubscribes) < ChanCap
        /\ unsubscribes' = Append(unsubscribes, c)
     \/ dying /\ UNCHANGED unsubscribes
  /\ UNCHANGED <<lifecycle, manager, events, subscribes, queue, last>>

Handler(c) == Register(c) \/ Deliver(c) \/ Return(c) \/ Unregister(c)

Next ==
  \/ Broadcast
  \/ TakeSubscribe \/ TakeEvent \/ TakeUnsubscribe \/ Die
  \/ CloseStreams \/ Kill
  \/ \E c \in Clients : Connect(c) \/ Handler(c) \/ Leave(c)

Spec == Init /\ [][Next]_vars

(* A select that is repeated takes each of its cases in the end, and the   *)
(* goroutines that wait for room in a channel get it in turn.              *)
Fairness ==
  /\ WF_vars(TakeSubscribe) /\ WF_vars(TakeEvent) /\ WF_vars(TakeUnsubscribe)
  /\ WF_vars(Kill) /\ WF_vars(Die)
  /\ \A c \in Clients :
       /\ SF_vars(Register(c)) /\ WF_vars(Deliver(c))
       /\ WF_vars(Return(c)) /\ SF_vars(Unregister(c))

FairSpec == Spec /\ Fairness

-----------------------------------------------------------------------------

(* The manager never adds an event to a closed queue nor closes it again,  *)
(* either of which would be a panic.                                       *)
NoPanic == queues \cap closed = {}

(* The manager does not lose a queue without closing it: the handler that  *)
(* serves it would wait for events that do not come.                       *)
NoneForgotten ==
  \A c \in Clients : phase[c] = "serving" => c \in Awaited \cup queues \cup closed

ManagerInv == TypeOK /\ NoPanic /\ NoneForgotten

(* What a client has received last and what it is going to receive.        *)
Seen(c) == IF last[c] = None THEN queue[c] ELSE <<last[c]>> \o queue[c]

(* No client misses an event between two that it receives, and as long as  *)
(* it is registered it is going to receive the event the manager takes     *)
(* next: a client that is too slow is disconnected instead.  Until then it *)
(* is registered, see NoneForgotten.                                       *)
NoGap ==
  \A c \in Clients :
    /\ \A i \in 1..(Len(Seen(c)) - 1) : Seen(c)[i] = Older(Seen(c)[i + 1])
    /\ c \in queues /\ Seen(c) # <<>> => Seen(c)[Len(Seen(c))] = events

(* A client that leaves is not kept by the manager, and all clients leave  *)
(* when the watcher is closed.                                             *)
AllLeave ==
  /\ \A c \in Clients : phase[c] = "leaving" ~> phase[c] = "gone"
  /\ dying ~> \A c \in Clients : phase[c] \in {"new", "gone"}

Abandoned(c) == phase[c] = "gone" /\ c \in queues

(* The queue of a client that has gone is unregistered for good: "ensure   *)
(* unsubscribe".  One whose unregistration has overtaken its registration  *)
(* stays until so many events have come that it is full.                   *)
Unsubscribed ==
  \A c \in Clients :
    /\ <>[](Abandoned(c) => c \in overtaken)
    /\ []<><<TakeEvent>>_vars => <>[]~Abandoned(c)

=============================================================================
