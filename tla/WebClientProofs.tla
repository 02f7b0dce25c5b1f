-------------------------- MODULE WebClientProofs --------------------------
(***************************************************************************)
(* The web client never calls libwebsockets with a connection that is      *)
(* gone, and hands messages over in order, for every queue size and every  *)
(* set of messages.                                                        *)
(***************************************************************************)
EXTENDS WebClient, SequenceTheorems, TLAPS

\* SocketLive is only inductive with what the thread knows where it stands:
\* it connects when it has no socket, and drains only after the context was
\* renewed, so that a context marked for destruction is not used again to
\* connect.
Where ==
  /\ thread \notin {"lock", "waiting", "woken"} => context
  /\ web_socket => context
  /\ thread = "connect" => ~web_socket /\ ~destroyContext
  /\ ~web_socket => link = "none"

IInv == TypeOK /\ SocketLive /\ Where

LEMMA InitInv == Init => IInv
<1> SUFFICES ASSUME Init
             PROVE  IInv
  OBVIOUS
<1>1. webClientQ \in Seq(Message) /\ Len(webClientQ) = 0
  BY DEF Init
<1>2. Len(webClientQ) <= Capacity
  BY <1>1, CapacityAssumption
<1>3. TypeOK
  <2>1. link \in {"none", "connecting", "open", "broken", "dead"} /\ handled \in Message \cup {None}
    BY DEF Init
  <2>2. /\ connectedToServer \in BOOLEAN /\ destroyContext \in BOOLEAN
        /\ context \in BOOLEAN /\ web_socket \in BOOLEAN /\ writable \in BOOLEAN
        /\ server \in BOOLEAN
    BY DEF Init
  <2> QED
    BY <1>1, <1>2, <2>1, <2>2 DEF Init, TypeOK
<1>4. SocketLive /\ Where
  BY DEF Init, SocketLive, Where, InService
<1> QED
  BY <1>3, <1>4 DEF IInv

\* The queue after a message was accepted, or the first one taken.
LEMMA QueueType ==
  ASSUME TypeOK
  PROVE  /\ \A m \in Message : Len(webClientQ) < Capacity =>
              /\ Append(webClientQ, m) \in Seq(Message)
              /\ Len(Append(webClientQ, m)) <= Capacity
         /\ webClientQ # << >> =>
              /\ Tail(webClientQ) \in Seq(Message)
              /\ Len(Tail(webClientQ)) <= Capacity
              /\ Head(webClientQ) \in Message
<1>1. webClientQ \in Seq(Message) /\ Len(webClientQ) <= Capacity
  BY DEF TypeOK
<1>2. Len(webClientQ) \in Nat
  BY <1>1, LenProperties
<1>3. ASSUME NEW m \in Message, Len(webClientQ) < Capacity
      PROVE  /\ Append(webClientQ, m) \in Seq(Message)
             /\ Len(Append(webClientQ, m)) <= Capacity
  BY <1>1, <1>2, <1>3, CapacityAssumption, AppendProperties
<1>4. ASSUME webClientQ # << >>
      PROVE  /\ Tail(webClientQ) \in Seq(Message)
             /\ Len(Tail(webClientQ)) <= Capacity
             /\ Head(webClientQ) \in Message
  BY <1>1, <1>2, <1>4, CapacityAssumption, HeadTailProperties
<1> QED
  BY <1>3, <1>4

LEMMA StepInv == IInv /\ [Next]_vars => IInv'
<1> SUFFICES ASSUME IInv, [Next]_vars
             PROVE  IInv'
  OBVIOUS
<1> USE DEF IInv, flags, lws
<1>1. ASSUME NEW m \in Message, Send(m)
      PROVE  IInv'
  <2>1. TypeOK'
    BY <1>1, QueueType DEF Send, TypeOK
  <2>2. SocketLive' /\ Where'
    BY <1>1 DEF Send, SocketLive, Where, InService
  <2> QED
    BY <2>1, <2>2
<1>2. CASE Wait
  BY <1>2 DEF Wait, TypeOK, SocketLive, Where, InService
<1>3. CASE SpuriousWakeup
  BY <1>3 DEF SpuriousWakeup, TypeOK, SocketLive, Where, InService
<1>4. CASE RenewContext
  <2>1. TypeOK'
    BY <1>4 DEF RenewContext, TypeOK
  <2>2. CASE destroyContext
    <3>1. /\ ~web_socket' /\ link' = "none" /\ ~writable' /\ ~destroyContext' /\ context'
          /\ thread' = "connect" /\ connectedToServer' = connectedToServer
      BY <1>4, <2>2 DEF RenewContext
    <3>2. ~connectedToServer
      BY <2>2 DEF SocketLive
    <3> QED
      BY <2>1, <3>1, <3>2 DEF SocketLive, Where, InService
  <2>3. CASE ~destroyContext
    <3>1. /\ web_socket' <=> web_socket
          /\ writable' <=> writable
          /\ link' = link /\ ~destroyContext' /\ context'
          /\ thread' = IF web_socket THEN "check" ELSE "connect"
          /\ connectedToServer' = connectedToServer
      BY <1>4, <2>3 DEF RenewContext
    <3> QED
      BY <2>1, <3>1 DEF SocketLive, Where, InService
  <2> QED
    BY <2>2, <2>3
<1>5. CASE Connect
  <2>1. TypeOK'
    BY <1>5 DEF Connect, TypeOK
  <2>2. /\ link = "none" /\ ~connectedToServer /\ ~destroyContext /\ ~web_socket /\ ~writable
        /\ context /\ context' = context /\ writable' = writable
        /\ thread' = "service first"
    BY <1>5 DEF Connect, SocketLive, Where
  <2>3. CASE web_socket' = TRUE /\ link' = "connecting" /\ UNCHANGED flags
    <3>1. web_socket' /\ ~connectedToServer' /\ ~destroyContext' /\ ~writable' /\ context'
      BY <2>2, <2>3
    <3>2. link' = "connecting" /\ thread' = "service first"
      BY <2>2, <2>3
    <3>3. SocketLive' /\ Where'
      BY <3>1, <3>2, Zenon DEF SocketLive, Where, InService
    <3> QED
      BY <2>1, <3>3
  <2>4. CASE /\ UNCHANGED <<web_socket, link>>
             /\ UNCHANGED flags \/ (connectedToServer' = FALSE /\ destroyContext' = TRUE)
   <3>1. ~web_socket' /\ ~connectedToServer' /\ ~writable' /\ context'
      <4>1. CASE UNCHANGED flags
        BY <2>2, <2>4, <4>1
      <4>2. CASE connectedToServer' = FALSE
        BY <2>2, <2>4, <4>2
      <4> QED
        BY <2>4, <4>1, <4>2
    <3>2. link' = "none" /\ thread' = "service first"
      BY <2>2, <2>4
    <3>3. SocketLive' /\ Where'
      BY <3>1, <3>2, Zenon DEF SocketLive, Where, InService
    <3> QED
      BY <2>1, <3>3
  <2> QED
    BY <1>5, <2>3, <2>4 DEF Connect
<1>6. CASE ServiceReturns
  BY <1>6 DEF ServiceReturns, TypeOK, SocketLive, Where, InService
<1>7. CASE CheckConnected
  BY <1>7 DEF CheckConnected, TypeOK, SocketLive, Where, InService
<1>8. CASE Drain
  BY <1>8 DEF Drain, TypeOK, SocketLive, Where, InService
<1>9. CASE Established
  BY <1>9 DEF Established, TypeOK, SocketLive, Where, InService
<1>10. CASE Lost
  BY <1>10 DEF Lost, TypeOK, SocketLive, Where, InService
<1>11. CASE Writeable
  <2>1. TypeOK'
    BY <1>11, QueueType DEF Writeable, TypeOK
  <2>2. SocketLive' /\ Where'
    BY <1>11 DEF Writeable, SocketLive, Where, InService
  <2> QED
    BY <2>1, <2>2
<1>12. CASE ServerChange
  BY <1>12 DEF ServerChange, TypeOK, SocketLive, Where, InService
<1>13. CASE UNCHANGED vars
  BY <1>13 DEF vars, TypeOK, SocketLive, Where, InService
<1> QED
  BY <1>1, <1>2, <1>3, <1>4, <1>5, <1>6, <1>7, <1>8, <1>9, <1>10, <1>11, <1>12, <1>13
     DEF Next, ThreadStep

\* The flag of the thread always tells whether its socket is a connection of
\* libwebsockets, so the calls at webClientThread.c:231-234 and 204 never use
\* one that was freed.
THEOREM SocketsSafe == Spec => [](TypeOK /\ SocketLive)
<1>1. IInv => TypeOK /\ SocketLive
  BY DEF IInv
<1> QED
  BY <1>1, InitInv, StepInv, PTL DEF Spec

-----------------------------------------------------------------------------
LEMMA AcceptOrHandle ==
  IInv /\ [Next]_vars => [Handover!Next]_(Handover!vars)
<1> SUFFICES ASSUME IInv, [Next]_vars
             PROVE  [Handover!Next]_(Handover!vars)
  OBVIOUS
<1> USE DEF IInv, flags, lws, Handover!vars
<1>1. ASSUME NEW m \in Message, Send(m)
      PROVE  [Handover!Next]_(Handover!vars)
  BY <1>1 DEF Send, Handover!Next, Handover!Accept
<1>2. CASE Writeable
  BY <1>2 DEF Writeable, Handover!Next, Handover!Handle
<1>3. CASE UNCHANGED <<webClientQ, handled>>
  BY <1>3
<1>4. ASSUME ThreadStep \/ SpuriousWakeup \/ Established \/ Lost \/ ServerChange
             \/ UNCHANGED vars
      PROVE  UNCHANGED <<webClientQ, handled>>
  BY <1>4 DEF ThreadStep, Wait, SpuriousWakeup, RenewContext, Connect, ServiceReturns,
              CheckConnected, Drain, Established, Lost, ServerChange, vars
<1> QED
  BY <1>1, <1>2, <1>3, <1>4 DEF Next

\* Messages leave the web client's queue once each and in order, whatever
\* happens to the connection.
THEOREM DeliveryRefinement == Spec => ImplementsDelivery
<1>1. Init => Handover!Init
  BY DEF Init, Handover!Init
<1> QED
  BY <1>1, InitInv, StepInv, AcceptOrHandle, PTL DEF Spec, ImplementsDelivery, Handover!Spec

\* Whatever the server and the senders do, the queue stays within its capacity
\* and thread, context and socket are in one of their states.
THEOREM TypeCorrect == Spec => []TypeOK
BY SocketsSafe, PTL
=============================================================================
