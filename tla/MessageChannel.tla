--------------------------- MODULE MessageChannel ---------------------------
(***************************************************************************)
(* What a connection between a client and the server promises (the signals *)
(* and send() of ClientTransport and ServerTransport in                    *)
(* subsystems/networking): each end handles the messages the other end has *)
(* sent over it once each and in their order, and nothing else; what is on *)
(* its way when the connection ends is lost.  The models of the two        *)
(* programs take their queues of messages from this promise.               *)
(***************************************************************************)
EXTENDS Sequences, SequencesExt

CONSTANT Message

VARIABLES open,         \* whether messages can be sent
          queue,        \* queue[e]: messages on their way to e
          handled       \* handled[e]: messages e has handled, in order

vars == <<open, queue, handled>>

End     == {"client", "server"}
Peer(e) == CHOOSE f \in End : f # e

TypeOK ==
  /\ open \in BOOLEAN
  /\ queue \in [End -> Seq(Message)]
  /\ handled \in [End -> Seq(Message)]

-----------------------------------------------------------------------------
Init ==
  /\ open = FALSE
  /\ queue = [e \in End |-> << >>]
  /\ handled = [e \in End |-> << >>]

Open ==
  /\ open' = TRUE
  /\ UNCHANGED <<queue, handled>>

Send(e, m) ==
  /\ open
  /\ queue' = [queue EXCEPT ![Peer(e)] = Append(@, m)]
  /\ UNCHANGED <<open, handled>>

Handle(e) ==
  /\ queue[e] # << >>
  /\ handled' = [handled EXCEPT ![e] = Append(@, Head(queue[e]))]
  /\ queue' = [queue EXCEPT ![e] = Tail(@)]
  /\ UNCHANGED open

(* The connection ends, or an end learns of it: what has reached an end    *)
(* may still be handled.                                                   *)
Close ==
  /\ open' = FALSE
  /\ queue' \in [End -> Seq(Message)]
  /\ \A e \in End : IsPrefix(queue'[e], queue[e])
  /\ UNCHANGED handled

Next ==
  \/ Open \/ Close
  \/ \E e \in End : Handle(e) \/ \E m \in Message : Send(e, m)

Spec == Init /\ [][Next]_vars
=============================================================================
