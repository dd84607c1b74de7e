----------------------------- MODULE Transport -----------------------------
(***************************************************************************)
(* One connection between a client and the server (subsystems/networking   *)
(* the Tcp transports, which the programs use, and the Local ones, which   *)
(* do the same; and MessageProtocol of subsystems/communication).  A       *)
(* message is sent as a frame: its length in Header bytes, then its        *)
(* payload.  The socket carries the bytes in order and hands them over in  *)
(* pieces of any size; each end appends what has come to its buffer and    *)
(* handles the frames that are whole.                                      *)
(*                                                                         *)
(* A byte is a pair: the message whose frame it belongs to, and its place  *)
(* in the frame.  The header of a frame, read where no frame begins, gives *)
(* the length of whatever message its first byte is of.                    *)
(***************************************************************************)
EXTENDS Naturals, Sequences, SequencesExt

CONSTANTS Message,
          Size(_),      \* the length of a message's payload, a JSON object
          Header,       \* sizeof(quint32)
          MaxSent,      \* bound: messages sent
          Reconnects    \* whether the client connects a second time

ASSUME TransportAssumption ==
  /\ Header \in Nat \ {0}
  /\ \A m \in Message : Size(m) \in Nat \ {0}
  /\ MaxSent \in Nat
  /\ Reconnects \in BOOLEAN

VARIABLES link,         \* the connection is up
          connects,     \* connections so far
          sent,         \* messages sent so far
          wire,         \* wire[e]: bytes on their way to e
          buffer,       \* buffer[e]: bytes that e has read
          parsing,      \* parsing[e]: e is in the loop of processBuffer
          handled       \* handled[e]: messages e has handled

transportVars == <<link, connects, sent, wire, buffer, parsing, handled>>

End     == {"client", "server"}
Peer(e) == CHOOSE f \in End : f # e

Length(m)  == Header + Size(m)
Frame(m)   == [i \in 1..Length(m) |-> <<m, i>>]
IsLast(b)  == b[2] = Length(b[1])

(* The messages whose frames are whole in a stream of bytes.               *)
MessagesIn(bytes) ==
  LET upTo[i \in 0..Len(bytes)] ==
        IF i = 0 THEN << >>
        ELSE IF IsLast(bytes[i]) THEN Append(upTo[i - 1], bytes[i][1])
        ELSE upTo[i - 1]
  IN upTo[Len(bytes)]

Channel == INSTANCE MessageChannel
             WITH open  <- link,
                  queue <- [e \in End |-> MessagesIn(buffer[e] \o wire[e])]

-----------------------------------------------------------------------------
TransportInit ==
  /\ link = FALSE
  /\ connects = 0
  /\ sent = 0
  /\ wire = [e \in End |-> << >>]
  /\ buffer = [e \in End |-> << >>]
  /\ parsing = [e \in End |-> FALSE]
  /\ handled = [e \in End |-> << >>]

(* The server makes a buffer for the socket; the client's stays as it is.  *)
Connect ==
  /\ ~link
  /\ connects = 0 \/ (Reconnects /\ connects = 1)
  /\ wire = [e \in End |-> << >>] /\ ~parsing["client"] /\ ~parsing["server"]
  /\ link' = TRUE
  /\ connects' = connects + 1
  /\ buffer' = [buffer EXCEPT !["server"] = << >>]
  /\ UNCHANGED <<sent, wire, parsing, handled>>

(* The client sends nothing before it is connected, and what is written to *)
(* a closed socket goes nowhere.                                           *)
SendMessage(e, m) ==
  /\ link
  /\ sent < MaxSent
  /\ sent' = sent + 1
  /\ wire' = [wire EXCEPT ![Peer(e)] = @ \o Frame(m)]
  /\ UNCHANGED <<link, connects, buffer, parsing, handled>>

(* readyRead: the first n bytes have come.                                 *)
ReadyRead(e) ==
  /\ ~parsing[e]
  /\ \E n \in 1..Len(wire[e]) :
       /\ buffer' = [buffer EXCEPT ![e] = @ \o SubSeq(wire[e], 1, n)]
       /\ wire' = [wire EXCEPT ![e] = SubSeq(@, n + 1, Len(@))]
  /\ parsing' = [parsing EXCEPT ![e] = TRUE]
  /\ UNCHANGED <<link, connects, sent, handled>>

HoldsFrame(bytes) ==
  Len(bytes) >= Header /\ Len(bytes) >= Header + Size(bytes[1][1])

(* What deserialize makes of a payload: a message, or nothing.             *)
Deserialized(payload) ==
  {m \in Message : payload = SubSeq(Frame(m), Header + 1, Length(m))}

ParseFrame_Once(e) ==
  /\ parsing[e]
  /\ HoldsFrame(buffer[e])
  /\ LET length  == Size(buffer[e][1][1])
         payload == SubSeq(buffer[e], Header + 1, Header + length)
     IN /\ buffer' = [buffer EXCEPT ![e] = SubSeq(@, Header + length + 1, Len(@))]
        /\ \E m \in Deserialized(payload) :
             handled' = [handled EXCEPT ![e] = Append(@, m)]
  /\ parsing' = [parsing EXCEPT ![e] = FALSE]
  /\ UNCHANGED <<link, connects, sent, wire>>

(* One turn of the loop: a payload that is not a message is skipped.       *)
ParseFrame(e) ==
  /\ parsing[e]
  /\ HoldsFrame(buffer[e])
  /\ LET length  == Size(buffer[e][1][1])
         payload == SubSeq(buffer[e], Header + 1, Header + length)
     IN /\ buffer' = [buffer EXCEPT ![e] = SubSeq(@, Header + length + 1, Len(@))]
        /\ IF Deserialized(payload) = {} THEN UNCHANGED handled
           ELSE \E m \in Deserialized(payload) :
                  handled' = [handled EXCEPT ![e] = Append(@, m)]
  /\ UNCHANGED <<link, connects, sent, wire, parsing>>

EndOfLoop_Emptied(e) ==
  /\ parsing[e]
  /\ ~HoldsFrame(buffer[e])
  /\ parsing' = [parsing EXCEPT ![e] = FALSE]
  /\ buffer' = [buffer EXCEPT ![e] = << >>]
  /\ UNCHANGED <<link, connects, sent, wire, handled>>

EndOfLoop(e) ==
  /\ parsing[e]
  /\ ~HoldsFrame(buffer[e])
  /\ parsing' = [parsing EXCEPT ![e] = FALSE]
  /\ UNCHANGED <<link, connects, sent, wire, buffer, handled>>

(* The connection is lost, and some of the bytes with it.                  *)
Lose ==
  /\ link
  /\ link' = FALSE
  /\ \E kept \in [End -> 0..Len(wire["client"]) + Len(wire["server"])] :
       /\ \A e \in End : kept[e] <= Len(wire[e])
       /\ wire' = [e \in End |-> SubSeq(wire[e], 1, kept[e])]
  /\ UNCHANGED <<connects, sent, buffer, parsing, handled>>

(* disconnected: the server drops the buffer, the client keeps its own.    *)
OnDisconnected(e) ==
  /\ ~link /\ connects > 0
  /\ ~parsing[e]
  /\ wire' = [wire EXCEPT ![e] = << >>]
  /\ buffer' = IF e = "server" THEN [buffer EXCEPT ![e] = << >>] ELSE buffer
  /\ wire' # wire \/ buffer' # buffer
  /\ UNCHANGED <<link, connects, sent, parsing, handled>>

TransportNext ==
  \/ Connect \/ Lose
  \/ \E e \in End :
       \/ ReadyRead(e) \/ ParseFrame(e) \/ EndOfLoop(e) \/ OnDisconnected(e)
       \/ \E m \in Message : SendMessage(e, m)

(* TCP delivers what it carries, and the event loop runs the handlers.     *)
TransportFairness ==
  \A e \in End : WF_transportVars(ReadyRead(e)) /\ WF_transportVars(ParseFrame(e))
                 /\ WF_transportVars(EndOfLoop(e))

TransportSpec == TransportInit /\ [][TransportNext]_transportVars /\ TransportFairness

-----------------------------------------------------------------------------
(* Between two readings a buffer holds no whole frame, and no more than    *)
(* the beginning of one; a buffer begins where a frame begins.             *)
BufferIsAligned ==
  \A e \in End :
    /\ buffer[e] # << >> => buffer[e][1][2] = 1
    /\ ~parsing[e] => MessagesIn(buffer[e]) = << >>

(* In whatever pieces the bytes come, each end handles the messages that   *)
(* were sent to it once each and in their order, none that was not sent,   *)
(* and none of a frame that the end of the connection has cut off.         *)
TransportImplements == Channel!Spec

(* A message that is sent is handled, unless the connection ends.          *)
EveryMessageHandled ==
  \A e \in End : MessagesIn(buffer[e] \o wire[e]) # << >>
                   ~> MessagesIn(buffer[e] \o wire[e]) = << >> \/ ~link
=============================================================================
