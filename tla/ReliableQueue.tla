--------------------------- MODULE ReliableQueue ---------------------------
(***************************************************************************)
(* What the remote RPC sockets of the two-component agent architecture     *)
(* promise their users ("Reliable, remote RPC sockets for 2CAA",           *)
(* ion/services/sa/tcaa/r3pc.py): messages put on the client's queue are   *)
(* handed to the server's callback at least once, one at a time from the   *)
(* head of the queue, and a message leaves the queue only when it has been *)
(* handed over, or when the client's user takes it off while the link is   *)
(* down.  Nothing is said here of sockets, greenlets, timeouts or acks:    *)
(* module R3PC has them, and implements this specification.                *)
(***************************************************************************)
EXTENDS QueueOps

CONSTANT Msg                \* the messages a client may be given

VARIABLES
  linkUp,                   \* the client is started
  queue,                    \* the client's queue
  enqueued,                 \* every message ever queued, in order
  transmitted,              \* the messages that have been put on the wire
  arrived,                  \* first arrivals at the server, in order
  popped,                   \* the messages the client took off as delivered
  removed                   \* the messages the user took off

vars == <<linkUp, queue, enqueued, transmitted, arrived, popped, removed>>

Init ==
  /\ linkUp = FALSE
  /\ queue = <<>> /\ enqueued = <<>> /\ arrived = <<>>
  /\ transmitted = {} /\ popped = {} /\ removed = {}

SetLink ==
  /\ linkUp' \in BOOLEAN
  /\ UNCHANGED <<queue, enqueued, transmitted, arrived, popped, removed>>

Enqueue(m) ==
  /\ m \notin Range(enqueued)
  /\ queue' = Append(queue, m)
  /\ enqueued' = Append(enqueued, m)
  /\ UNCHANGED <<linkUp, transmitted, arrived, popped, removed>>

Remove(S) ==
  /\ ~linkUp
  /\ S # {} /\ S \subseteq Range(queue)
  /\ queue' \in Without(queue, S)
  /\ removed' = removed \cup S
  /\ UNCHANGED <<linkUp, enqueued, transmitted, arrived, popped>>

Transmit ==
  /\ linkUp
  /\ queue # <<>>
  /\ transmitted' = transmitted \cup {Head(queue)}
  /\ UNCHANGED <<linkUp, queue, enqueued, arrived, popped, removed>>

Arrive(m) ==
  /\ m \in transmitted \ Range(arrived)
  /\ arrived' = Append(arrived, m)
  /\ UNCHANGED <<linkUp, queue, enqueued, transmitted, popped, removed>>

Acknowledge ==
  /\ linkUp
  /\ queue # <<>>
  /\ Head(queue) \in Range(arrived)
  /\ queue' = Tail(queue)
  /\ popped' = popped \cup {Head(queue)}
  /\ UNCHANGED <<linkUp, enqueued, transmitted, arrived, removed>>

Next ==
  \/ SetLink
  \/ \E m \in Msg : Enqueue(m) \/ Arrive(m)
  \/ \E S \in SUBSET Msg : Remove(S)
  \/ Transmit
  \/ Acknowledge

Spec == Init /\ [][Next]_vars
=============================================================================
