-------------------------------- MODULE Ring --------------------------------
(***************************************************************************)
(* The signalling of the hand-off (crates/kaas-ui-api/src/streaming.rs):   *)
(* three parties that share nothing but the slots and two `Notify`s.       *)
(*                                                                         *)
(*   the sender    push and Drop each change the slots under the lock and  *)
(*                 notify `ready` only after the unlock;                   *)
(*   the receiver  recv looks under the lock and awaits `ready` only after *)
(*                 the unlock, so items may arrive in between;             *)
(*   the watcher   the sender's closed() future, polled by the same task,  *)
(*                 does the same with `receiver_gone` and `closed`.        *)
(*                                                                         *)
(* Notify::notify_one wakes the task that is registered, or else stores    *)
(* one permit, which the next `notified().await` takes without waiting.    *)
(* Items are numbered in the order they are pushed.                        *)
(***************************************************************************)
EXTENDS DropOldest

CONSTANT MaxPushes   \* bound of the model: items pushed

ASSUME ItemsAssumption ==
  /\ MaxPushes \in Nat
  /\ Items = 1 .. MaxPushes

VARIABLES
  pushed,        \* how many items have been accepted
  received,      \* what recv has returned, in order
  sender,        \* "idle", "notifying" or "gone": the sender's place
  recv,          \* "looking", "empty", "parked", "ended" or "gone"
  watch,         \* closed(): "looking", "open", "parked" or "resolved"
  leaving,       \* Drop for Receiver is between its unlock and its notify
  readyPermit,   \* the permit stored in `ready`
  closedPermit   \* the permit stored in `closed`

signals == <<sender, recv, watch, leaving, readyPermit, closedPermit>>
ringVars == <<slots, pushed, received, signals>>

RingInit ==
  /\ Fresh
  /\ pushed = 0
  /\ received = <<>>
  /\ sender = "idle"
  /\ recv = "looking"
  /\ watch = "looking"
  /\ leaving = FALSE
  /\ readyPermit = FALSE
  /\ closedPermit = FALSE

(***************************************************************************)
(* The sender                                                              *)
(***************************************************************************)
\* push(): the receiver is already gone, and nobody is notified.
PushIgnored ==
  /\ sender = "idle"
  /\ receiverGone
  /\ pushed < MaxPushes
  /\ Send(pushed + 1)
  /\ UNCHANGED <<pushed, received, signals>>

Push ==
  /\ sender = "idle"
  /\ ~receiverGone
  /\ pushed < MaxPushes
  /\ Send(pushed + 1)
  /\ pushed' = pushed + 1
  /\ sender' = "notifying"
  /\ UNCHANGED <<received, recv, watch, leaving, readyPermit, closedPermit>>

DropSender ==
  /\ sender = "idle"
  /\ LeaveSender
  /\ sender' = "notifying"
  /\ UNCHANGED <<pushed, received, recv, watch, leaving, readyPermit, closedPermit>>

\* Mutant of NotifyReady: a waiter is woken, but no permit is stored.
NotifyReadyWaiterOnly ==
  /\ sender = "notifying"
  /\ sender' = IF senderGone THEN "gone" ELSE "idle"
  /\ recv' = IF recv = "parked" THEN "looking" ELSE recv
  /\ UNCHANGED <<slots, pushed, received, watch, leaving, readyPermit, closedPermit>>

\* ready.notify_one(), the last thing push and Drop for Sender do.
NotifyReady ==
  /\ sender = "notifying"
  /\ sender' = IF senderGone THEN "gone" ELSE "idle"
  /\ IF recv = "parked"
     THEN recv' = "looking" /\ UNCHANGED readyPermit
     ELSE readyPermit' = TRUE /\ UNCHANGED recv
  /\ UNCHANGED <<slots, pushed, received, watch, leaving, closedPermit>>

(***************************************************************************)
(* The receiver                                                            *)
(***************************************************************************)
RecvItem ==
  /\ recv = "looking"
  /\ Take
  /\ received' = Append(received, Head(queue))
  /\ UNCHANGED <<pushed, signals>>

RecvEnds ==
  /\ recv = "looking"
  /\ ~receiverGone
  /\ AtEnd
  /\ recv' = "ended"
  /\ UNCHANGED <<slots, pushed, received, sender, watch, leaving, readyPermit, closedPermit>>

RecvEmpty ==
  /\ recv = "looking"
  /\ ~receiverGone
  /\ queue = <<>>
  /\ ~senderGone
  /\ recv' = "empty"
  /\ UNCHANGED <<slots, pushed, received, sender, watch, leaving, readyPermit, closedPermit>>

\* Mutant of RecvAwait: a stored permit is not consulted.
RecvAwaitDeaf ==
  /\ recv = "empty"
  /\ recv' = "parked"
  /\ UNCHANGED <<slots, pushed, received, sender, watch, leaving, readyPermit, closedPermit>>

\* notified.await: take the permit and look again, or register and sleep.
RecvAwait ==
  /\ recv = "empty"
  /\ readyPermit' = FALSE
  /\ recv' = IF readyPermit THEN "looking" ELSE "parked"
  /\ UNCHANGED <<slots, pushed, received, sender, watch, leaving, closedPermit>>

\* The response is dropped, at whatever point recv had reached: a waiter
\* that was registered is deregistered with it.
DropReceiver ==
  /\ LeaveReceiver
  /\ recv' = "gone"
  /\ leaving' = TRUE
  /\ UNCHANGED <<pushed, received, sender, watch, readyPermit, closedPermit>>

NotifyClosed ==
  /\ leaving
  /\ leaving' = FALSE
  /\ IF watch = "parked"
     THEN watch' = "looking" /\ UNCHANGED closedPermit
     ELSE closedPermit' = TRUE /\ UNCHANGED watch
  /\ UNCHANGED <<slots, pushed, received, sender, recv, readyPermit>>

(***************************************************************************)
(* The watcher: Sender::closed                                             *)
(***************************************************************************)
\* The task polls closed() while the sender is alive and not inside push.
Watching == sender = "idle"

WatchLooks ==
  /\ Watching
  /\ watch = "looking"
  /\ watch' = IF receiverGone THEN "resolved" ELSE "open"
  /\ UNCHANGED <<slots, pushed, received, sender, recv, leaving, readyPermit, closedPermit>>

WatchAwaits ==
  /\ Watching
  /\ watch = "open"
  /\ closedPermit' = FALSE
  /\ watch' = IF closedPermit THEN "looking" ELSE "parked"
  /\ UNCHANGED <<slots, pushed, received, sender, recv, leaving, readyPermit>>

(***************************************************************************)
(* The specification                                                       *)
(***************************************************************************)
Recv  == RecvItem \/ RecvEnds \/ RecvEmpty \/ RecvAwait
Watch == WatchLooks \/ WatchAwaits

RingNext ==
  \/ PushIgnored \/ Push \/ DropSender \/ NotifyReady
  \/ Recv \/ DropReceiver \/ NotifyClosed
  \/ Watch

RingSafety == RingInit /\ [][RingNext]_ringVars

\* A thread inside push or a Drop finishes it, the SSE writer keeps polling
\* its body while the response lives, and the pump's task polls its select.
RingFairness ==
  /\ WF_ringVars(NotifyReady)
  /\ WF_ringVars(NotifyClosed)
  /\ WF_ringVars(Recv)
  /\ WF_ringVars(Watch)

RingSpec == RingSafety /\ RingFairness

-----------------------------------------------------------------------------
(***************************************************************************)
(* Properties                                                              *)
(***************************************************************************)

\* The state has its type.
RingTypeOK ==
  /\ TypeOK
  /\ pushed \in 0 .. MaxPushes
  /\ received \in Seq(Items)
  /\ sender \in {"idle", "notifying", "gone"}
  /\ recv \in {"looking", "empty", "parked", "ended", "gone"}
  /\ watch \in {"looking", "open", "parked", "resolved"}
  /\ leaving \in BOOLEAN
  /\ readyPermit \in BOOLEAN
  /\ closedPermit \in BOOLEAN

\* What is queued is the newest of what was pushed, without a gap: an
\* overflow loses the oldest entries and nothing else.
KeepsNewest ==
  /\ Len(queue) <= pushed
  /\ \A i \in 1 .. Len(queue) : queue[i] = pushed - Len(queue) + i

\* Every item pushed was received, is queued, or is in the drop count.
NothingUnaccounted == Len(received) + Len(queue) + dropped = pushed

\* An overflow loses the oldest frames, no others, and counts each of them:
\* what the reader is told of as dropped is what is missing (Sender::push and
\* Receiver::dropped).
OverflowIsTold == KeepsNewest /\ NothingUnaccounted

\* Nobody sleeps on something they should see.  If the receiver is
\* registered while an item is queued or the sender is gone, a notify is on
\* its way; if it is about to register, that notify is on its way or its
\* permit is stored.  The same of closed() and the receiver's departure.
NoLostWakeup ==
  /\ (queue # <<>> \/ senderGone) =>
       /\ recv = "parked" => sender = "notifying"
       /\ recv = "empty" => sender = "notifying" \/ readyPermit
  /\ receiverGone =>
       /\ watch = "parked" => leaving
       /\ watch = "open" => leaving \/ closedPermit

\* Whatever is pushed leaves the queue while the receiver lives.
QueueDrains == queue # <<>> ~> queue = <<>> \/ receiverGone

\* The inductive invariant of the proofs.
RingInv ==
  /\ RingTypeOK
  /\ KeepsNewest
  /\ NothingUnaccounted
  /\ NoLostWakeup
  /\ (recv = "gone") <=> receiverGone
  /\ (recv = "ended") => AtEnd
  /\ (sender = "gone") => senderGone
  /\ senderGone => (sender # "idle")

=============================================================================
