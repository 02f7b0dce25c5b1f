----------------------------- MODULE WebClient -----------------------------
(***************************************************************************)
(* webClientThread.c: messages queued by the receive and status threads    *)
(* are written, one at a time, to a web socket that libwebsockets keeps    *)
(* connected to the gateway server.                                        *)
(*                                                                         *)
(* The callbacks of libwebsockets run in the web client thread, within its *)
(* calls of the library; a failed or closed connection only leaves a flag, *)
(* upon which the thread destroys the library's context and connects again *)
(* when it is next woken.  Like the receive thread's, its wait has no      *)
(* predicate, and its mutex is not the one the senders signal under.       *)
(***************************************************************************)
EXTENDS Naturals, Sequences

CONSTANTS Msg,        \* messages of the kinds the callback writes
          Other,      \* messages of other kinds (such as INFO_DATA)
          None,       \* no message
          Capacity    \* webClientQueueSize

Message == Msg \cup Other

ASSUME NoneAssumption     == None \notin Message
ASSUME CapacityAssumption == Capacity \in Nat \ {0}

VARIABLES webClientQ,         \* the queued messages, front first
          thread,             \* where the web client thread is
          connectedToServer,
          destroyContext,
          context,            \* whether ccinfo.context is a context
          web_socket,         \* whether web_socket is not NULL
          link,               \* libwebsockets' state of that connection
          writable,           \* whether a writable callback was asked for
          server,             \* whether the gateway server can be reached
          handled             \* history: the message dequeued last

flags == <<connectedToServer, destroyContext>>
lws   == <<context, web_socket, link, writable>>
vars  == <<webClientQ, thread, flags, lws, server, handled>>

Init ==
  /\ webClientQ = << >> /\ thread = "lock"
  /\ connectedToServer = FALSE /\ destroyContext = FALSE
  /\ context = FALSE /\ web_socket = FALSE /\ link = "none" /\ writable = FALSE
  /\ server \in BOOLEAN /\ handled = None

(* The operators named Slip... are plausible mistakes in the definition that *)
(* follows them, against which the properties below are measured.            *)

-----------------------------------------------------------------------------
(* The senders.                                                             *)

\* Slip: the capacity is not tested.
SlipSendFull(m) ==
  /\ webClientQ' = Append(webClientQ, m)
  /\ thread' = IF thread = "waiting" THEN "woken" ELSE thread
  /\ UNCHANGED <<flags, lws, server, handled>>

\* Slip: a full queue drops its oldest message instead.
SlipSend(m) ==
  /\ webClientQ' = Append(IF Len(webClientQ) < Capacity THEN webClientQ ELSE Tail(webClientQ), m)
  /\ thread' = IF thread = "waiting" THEN "woken" ELSE thread
  /\ UNCHANGED <<flags, lws, server, handled>>

\* sendToGatewayServer: a full queue refuses the message, which is freed.
Send(m) ==
  /\ webClientQ' = IF Len(webClientQ) < Capacity THEN Append(webClientQ, m) ELSE webClientQ
  /\ thread' = IF thread = "waiting" THEN "woken" ELSE thread
  /\ UNCHANGED <<flags, lws, server, handled>>

-----------------------------------------------------------------------------
(* The thread.                                                              *)

Wait ==
  /\ thread = "lock"
  /\ thread' = "waiting"
  /\ UNCHANGED <<webClientQ, flags, lws, server, handled>>

\* pthread_cond_wait may return without a signal.
SpuriousWakeup ==
  /\ thread = "waiting"
  /\ thread' = "woken"
  /\ UNCHANGED <<webClientQ, flags, lws, server, handled>>

\* A context marked for it is destroyed, with its connection, and one made if
\* there is none; the thread connects if it has no socket.
RenewContext ==
  /\ thread = "woken"
  /\ context' = TRUE
  /\ destroyContext' = FALSE
  /\ web_socket' = (web_socket /\ ~destroyContext)
  /\ link' = IF destroyContext THEN "none" ELSE link
  /\ writable' = (writable /\ ~destroyContext)
  /\ thread' = IF web_socket' THEN "check" ELSE "connect"
  /\ UNCHANGED <<webClientQ, connectedToServer, server, handled>>

\* lws_client_connect_via_info returns a socket, or NULL, before which it may
\* have called back with the error.
Connect ==
  /\ thread = "connect"
  /\ \/ /\ web_socket' = TRUE /\ link' = "connecting"
        /\ UNCHANGED flags
     \/ /\ UNCHANGED <<web_socket, link>>
        /\ \/ UNCHANGED flags
           \/ connectedToServer' = FALSE /\ destroyContext' = TRUE
  /\ thread' = "service first"
  /\ UNCHANGED <<webClientQ, context, writable, server, handled>>

\* A call of lws_service returns, whether or not anything was called back.
ServiceReturns ==
  /\ \/ thread = "service first"  /\ thread' = IF web_socket THEN "service second" ELSE "check"
     \/ thread = "service second" /\ thread' = "check"
     \/ thread = "service drain"  /\ thread' = "drain"
     \/ thread = "service last"   /\ thread' = "lock"
  /\ UNCHANGED <<webClientQ, flags, lws, server, handled>>

CheckConnected ==
  /\ thread = "check"
  /\ thread' = IF connectedToServer THEN "drain" ELSE "service last"
  /\ UNCHANGED <<webClientQ, flags, lws, server, handled>>

\* Slip: the loop goes on after the connection is lost.
SlipDrain ==
  /\ thread = "drain"
  /\ IF webClientQ # << >>
     THEN thread' = "service drain" /\ writable' = TRUE
     ELSE thread' = "lock" /\ UNCHANGED writable
  /\ UNCHANGED <<webClientQ, flags, context, web_socket, link, server, handled>>

\* While there are messages and a connection, a writable callback is asked for.
Drain ==
  /\ thread = "drain"
  /\ IF webClientQ # << >> /\ connectedToServer
     THEN thread' = "service drain" /\ writable' = TRUE
     ELSE thread' = "lock" /\ UNCHANGED writable
  /\ UNCHANGED <<webClientQ, flags, context, web_socket, link, server, handled>>

-----------------------------------------------------------------------------
(* callback_hab, within a call of lws_service.                              *)

InService ==
  thread \in {"service first", "service second", "service drain", "service last"}

Established ==
  /\ InService /\ link = "connecting" /\ server
  /\ link' = "open" /\ connectedToServer' = TRUE
  /\ UNCHANGED <<webClientQ, thread, destroyContext, context, web_socket, writable, server, handled>>

\* Slip: the loss is noticed, but not that a new context is needed.
SlipLost ==
  /\ InService /\ link \in {"connecting", "broken"}
  /\ link' = "dead" /\ connectedToServer' = FALSE /\ destroyContext' = destroyContext
  /\ writable' = FALSE
  /\ UNCHANGED <<webClientQ, thread, context, web_socket, server, handled>>

\* CLIENT_CONNECTION_ERROR, or the 75 that stands for CLIENT_CLOSED.
\* libwebsockets frees the connection; web_socket still points to it.
Lost ==
  /\ InService /\ link \in {"connecting", "broken"}
  /\ link' = "dead" /\ connectedToServer' = FALSE /\ destroyContext' = TRUE
  /\ writable' = FALSE
  /\ UNCHANGED <<webClientQ, thread, context, web_socket, server, handled>>

\* Slip: a message of a kind the switch does not know stays queued.
SlipWriteable ==
  /\ InService /\ link \in {"open", "broken"} /\ writable
  /\ writable' = FALSE
  /\ IF webClientQ # << >> /\ Head(webClientQ) \in Msg
     THEN webClientQ' = Tail(webClientQ) /\ handled' = Head(webClientQ)
     ELSE UNCHANGED <<webClientQ, handled>>
  /\ UNCHANGED <<thread, flags, context, web_socket, link, server>>

\* One message is dequeued.  It is freed, written or not: one of a kind the
\* switch does not know is not, and the result of the write is not looked at.
Writeable ==
  /\ InService /\ link \in {"open", "broken"} /\ writable
  /\ writable' = FALSE
  /\ IF webClientQ # << >>
     THEN webClientQ' = Tail(webClientQ) /\ handled' = Head(webClientQ)
     ELSE UNCHANGED <<webClientQ, handled>>
  /\ UNCHANGED <<thread, flags, context, web_socket, link, server>>

\* The server, or the network, fails or comes back.  A connection that breaks
\* is only noticed when the library gets to look.
ServerChange ==
  /\ server' = ~server
  /\ link' = IF link = "open" THEN "broken" ELSE link
  /\ UNCHANGED <<webClientQ, thread, flags, context, web_socket, writable, handled>>

-----------------------------------------------------------------------------
ThreadStep == Wait \/ RenewContext \/ Connect \/ ServiceReturns \/ CheckConnected \/ Drain

Next ==
  \/ \E m \in Message : Send(m)
  \/ ThreadStep \/ SpuriousWakeup
  \/ Established \/ Lost \/ Writeable
  \/ ServerChange

\* The thread runs when it can, the status thread sends a ping every 10 s, a
\* connection is not refused for ever by a server that can be reached, and an
\* lws_service that could call back does not time out for ever.
Fairness ==
  /\ WF_vars(ThreadStep)
  /\ WF_vars(\E m \in Msg : Send(m))
  /\ SF_vars(server /\ Connect /\ web_socket')
  /\ SF_vars(Established)
  /\ SF_vars(Writeable)
  /\ SF_vars(Lost /\ link = "broken")

Spec == Init /\ [][Next]_vars /\ Fairness

-----------------------------------------------------------------------------
\* Every variable holds a value of its kind, and the queue holds no more than
\* its capacity.
TypeOK ==
  /\ webClientQ \in Seq(Message) /\ Len(webClientQ) <= Capacity
  /\ thread \in {"lock", "waiting", "woken", "connect", "service first",
                 "service second", "check", "drain", "service drain", "service last"}
  /\ connectedToServer \in BOOLEAN /\ destroyContext \in BOOLEAN
  /\ context \in BOOLEAN /\ web_socket \in BOOLEAN /\ writable \in BOOLEAN
  /\ link \in {"none", "connecting", "open", "broken", "dead"}
  /\ server \in BOOLEAN
  /\ handled \in Message \cup {None}

\* The flag the thread relies on tells whether web_socket is a connection that
\* libwebsockets still knows: so lws_callback_on_writable is never called with
\* one that was freed, and a context is never destroyed under an established
\* connection, in whatever order the callbacks came.  A context exists whenever
\* the library is called with it.
SocketLive ==
  /\ connectedToServer <=> link \in {"open", "broken"}
  /\ link \in {"connecting", "open", "broken"} => web_socket /\ context
  /\ destroyContext => link \in {"none", "dead"}
  /\ writable => connectedToServer
  /\ InService => context

Handover == INSTANCE Delivery
  WITH Item <- Message, Bound <- Capacity, NoItem <- None,
       pending <- webClientQ, last <- handled

\* Messages accepted leave the queue once each and in order, also across lost
\* connections.
ImplementsDelivery == Handover!Spec

\* Once the server stays reachable the client is connected for good, however
\* often it failed before; and from then on no message stays in the queue.
Reconnects == <>[]server => <>[](link = "open")
DeliversWhenUp == <>[]server => Handover!Prompt
=============================================================================
