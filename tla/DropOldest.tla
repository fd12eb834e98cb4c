----------------------------- MODULE DropOldest -----------------------------
(***************************************************************************)
(* The bounded hand-off between a scan and the SSE writer, seen through    *)
(* its mutex (crates/kaas-ui-api/src/streaming.rs, `Slots`): a push never  *)
(* waits, and an overflowing queue loses its oldest entries and counts     *)
(* them.  Each operation is what one critical section does; Ring.tla adds  *)
(* the signalling between them.                                            *)
(***************************************************************************)
EXTENDS Naturals, Sequences

CONSTANTS
  Items,     \* what is handed over
  Capacity   \* `capacity.max(1)`

ASSUME CapacityAssumption == Capacity \in Nat \ {0}

VARIABLES
  queue,         \* Slots.queue, oldest first
  dropped,       \* Slots.dropped
  senderGone,    \* Slots.sender_gone
  receiverGone   \* Slots.receiver_gone

slots == <<queue, dropped, senderGone, receiverGone>>

Excess(q) == IF Len(q) > Capacity THEN Len(q) - Capacity ELSE 0

Newest(q) == SubSeq(q, Excess(q) + 1, Len(q))

Fresh ==
  /\ queue = <<>>
  /\ dropped = 0
  /\ senderGone = FALSE
  /\ receiverGone = FALSE

\* Mutant of Send: a full queue refuses the new item, and counts it.
SendDropsNewest(item) ==
  /\ ~senderGone
  /\ IF receiverGone \/ Len(queue) = Capacity
     THEN UNCHANGED queue
     ELSE queue' = Append(queue, item)
  /\ dropped' = IF ~receiverGone /\ Len(queue) = Capacity THEN dropped + 1 ELSE dropped
  /\ UNCHANGED <<senderGone, receiverGone>>

\* Sender::push, up to the unlock: nothing once the receiver is gone.
Send(item) ==
  /\ ~senderGone
  /\ IF receiverGone
     THEN UNCHANGED <<queue, dropped>>
     ELSE LET q == Append(queue, item)
          IN /\ queue' = Newest(q)
             /\ dropped' = dropped + Excess(q)
  /\ UNCHANGED <<senderGone, receiverGone>>

\* Receiver::recv finding an item.
Take ==
  /\ ~receiverGone
  /\ queue # <<>>
  /\ queue' = Tail(queue)
  /\ UNCHANGED <<dropped, senderGone, receiverGone>>

\* Receiver::recv answering None.
AtEnd == queue = <<>> /\ senderGone

\* Drop for Sender, and Drop for Receiver, up to the notify.
LeaveSender ==
  /\ ~senderGone
  /\ senderGone' = TRUE
  /\ UNCHANGED <<queue, dropped, receiverGone>>

LeaveReceiver ==
  /\ ~receiverGone
  /\ receiverGone' = TRUE
  /\ UNCHANGED <<queue, dropped, senderGone>>

Next ==
  \/ \E item \in Items : Send(item)
  \/ Take
  \/ LeaveSender
  \/ LeaveReceiver

Spec == Fresh /\ [][Next]_slots

\* The state has its type, and the queue never exceeds its capacity.
TypeOK ==
  /\ queue \in Seq(Items)
  /\ Len(queue) <= Capacity
  /\ dropped \in Nat
  /\ senderGone \in BOOLEAN
  /\ receiverGone \in BOOLEAN

=============================================================================
