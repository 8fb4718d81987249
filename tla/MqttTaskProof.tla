--------------------------- MODULE MqttTaskProof ---------------------------
(***************************************************************************)
(* Proofs about MqttTask, for any number of callers, any broker that       *)
(* behaves as there, any retry limits and any set of messages: its types,  *)
(* the slot, and the connection: when callers are let in, what the task    *)
(* knows of its socket, and how it comes to use a connection.              *)
(***************************************************************************)
EXTENDS MqttTask, TLAPS

USE DEF vars, publishVars, slotVars, callVars, histVars, taskVars, flagVars,
        retryVars, connVars, inboundVars, endpointVars, otherVars

-----------------------------------------------------------------------------
(* What the steps shared by several actions do to the types.               *)

\* The packets the handlers name are packets.
LEMMA PacketTyped ==
    /\ \A type \in PacketTypes : P(type) \in Packet
    /\ \A id \in 0..MaxId, p \in Publishers \cup {NoOne} :
         [type |-> "PUBACK", id |-> id, of |-> p] \in Packet
    /\ \A m \in Inbound \cup {NoOne} :
         [type |-> "PUBLISH", id |-> 0, of |-> m] \in Packet
  BY MaxIdAssumption DEF P, Packet, PacketTypes

\* So are those the broker sends unasked.
LEMMA UnaskedTyped ==
    ASSUME TypeOK PROVE UnaskedPackets \subseteq Packet
  BY PacketTyped DEF UnaskedPackets, TypeOK, DataTypeOK, PacketTypes

\* Half a number is one, and no more than it.
LEMMA Half ==
    \A n \in Nat : n \div 2 \in Nat /\ 2 * (n \div 2) <= n /\ n <= 2 * (n \div 2) + 1
  OBVIOUS

\* The wait scheduled is half to all of the wait it is based on, which stays
\* between the shorter of RetryMin and RetryMax and the longer.
LEMMA RetryFacts ==
    ASSUME retry_wait \in Nat, schedule_retry
    PROVE  /\ retry_wait' \in Nat
           /\ wait_left' \in Nat
           /\ wait_left' <= RetryMax
           /\ retry_wait > 1 /\ RetryMax > 1 => wait_left' > 0 /\ retry_wait' > 1
  <1> DEFINE wait == IF retry_wait < RetryMax THEN retry_wait ELSE RetryMax
  <1>1. wait \in Nat /\ wait <= RetryMax
    BY RetryAssumption
  <1>2. PICK share \in 0..(wait \div 2) : wait_left' = wait \div 2 + share
    BY DEF schedule_retry
  <1>3. retry_wait' = IF wait > RetryMax \div 2 THEN RetryMax ELSE 2 * wait
    BY DEF schedule_retry
  <1>4. /\ wait_left' \in Nat
        /\ wait_left' <= wait
        /\ wait > 1 => wait_left' > 0
    <2>1. PICK h \in Nat : h = wait \div 2 /\ 2 * h <= wait /\ wait <= 2 * h + 1
      BY <1>1, Half
    <2>2. share \in 0..h /\ wait_left' = h + share
      BY <1>2, <2>1
    <2> HIDE DEF wait
    <2>3. QED
      BY <1>1, <2>1, <2>2
  <1>5. retry_wait > 1 /\ RetryMax > 1 => wait > 1
    BY RetryAssumption
  <1> HIDE DEF wait
  <1>6. QED
    BY <1>1, <1>3, <1>4, <1>5, RetryAssumption

-----------------------------------------------------------------------------
(* Types.                                                                  *)

\* The callers' steps keep the types of the slot.
LEMMA PublisherTyped ==
    ASSUME SlotTypeOK, NEW p \in Publishers, Publisher(p) PROVE SlotTypeOK'
  <1> USE DEF SlotTypeOK, Message, PubStates, Results
  <1>1. CASE Call(p)
    BY <1>1 DEF Call
  <1>2. CASE Give(p)
    <2>1. NextPacketId \in 0..MaxId
      BY MaxIdAssumption DEF NextPacketId
    <2>2. QED
      BY <1>2, <2>1, MaxIdAssumption DEF Give
  <1>3. CASE GiveUp(p)
    BY <1>3 DEF GiveUp, Return
  <1>4. CASE Collect(p)
    BY <1>4 DEF Collect, Return
  <1>5. CASE Abandon(p)
    BY <1>5 DEF Abandon, Return
  <1>6. CASE Expire(p)
    BY <1>6 DEF Expire
  <1>7. QED
    BY <1>1, <1>2, <1>3, <1>4, <1>5, <1>6 DEF Publisher

\* So do the task's.
LEMMA SlotStepsTyped ==
    ASSUME SlotTypeOK, UNCHANGED <<callVars, histVars>>,
           \/ \E open \in BOOLEAN : publish_open(open)
           \/ publish_take
           \/ \E id \in 0..MaxId : publish_acked(id)
           \/ publish_reconnected
           \/ publish_close
    PROVE  SlotTypeOK'
  <1> USE DEF SlotTypeOK, Message, PubStates, Results
  <1>1. CASE \E open \in BOOLEAN : publish_open(open)
    BY <1>1 DEF publish_open
  <1>2. CASE publish_take
    BY <1>2 DEF publish_take
  <1>3. CASE \E id \in 0..MaxId : publish_acked(id)
    BY <1>3 DEF publish_acked
  <1>4. CASE publish_reconnected
    BY <1>4 DEF publish_reconnected
  <1>5. CASE publish_close
    BY <1>5 DEF publish_close
  <1>6. QED
    BY <1>1, <1>2, <1>3, <1>4, <1>5

\* The solver knows the two truth values better one by one than as a set.
Two(b) == b = TRUE \/ b = FALSE

FlagsTwo ==
    /\ Two(running) /\ Two(sock_connected) /\ Two(mqtt_connected)
    /\ Two(pingresp_received) /\ Two(awaiting_suback) /\ Two(rested)
    /\ Two(ping_due) /\ Two(refused) /\ Two(accepted) /\ Two(subscribed)
    /\ Two(pinged)

\* A flag is TRUE or FALSE: the form SMT takes it in.
LEMMA FlagsAreTwo == FlagTypeOK => FlagsTwo
  BY Zenon DEF FlagTypeOK, FlagsTwo, Two

\* And back: the form the type invariant has it in.
LEMMA TwoAreFlags == FlagsTwo' => FlagTypeOK'
  BY Zenon DEF FlagTypeOK, FlagsTwo, Two

\* The types hold before the first task.
LEMMA TypeInit == Init => TypeOK
  <1> SUFFICES ASSUME Init PROVE TypeOK
    OBVIOUS
  <1>1. SlotTypeOK
    <2>1. pub_open \in BOOLEAN
      BY Zenon DEF Init, SlotInit
    <2>2. NoMessage \in Message
      BY MaxIdAssumption DEF NoMessage, Message
    <2>3. QED
      BY <2>1, <2>2, MaxIdAssumption
      DEF Init, SlotInit, SlotTypeOK, PubStates, Results
  <1>2. FlagTypeOK
    BY Zenon DEF Init, FlagTypeOK
  <1>3. DataTypeOK
    BY PacketTyped, RetryAssumption
    DEF Init, DataTypeOK, TaskStates, PacketTypes
  <1>4. QED
    BY <1>1, <1>2, <1>3 DEF TypeOK

\* A step keeps the types; that a message being sent has an owner is needed for
\* the histories.
LEMMA TypeStep ==
    ASSUME TypeOK, SendsOnlyWhatIsWaitedFor, [Next]_vars PROVE TypeOK'
  <1> DEFINE Typed == SlotTypeOK /\ FlagsTwo /\ DataTypeOK
  <1>0. Typed
    BY FlagsAreTwo DEF TypeOK
  <1> SUFFICES Typed'
    BY TwoAreFlags DEF TypeOK
  <1> USE <1>0 DEF DataTypeOK, FlagsTwo, Two, TaskStates, HandlerStates
  <1>1. CASE start_task
    <2>1. SlotTypeOK'
      BY <1>1, SlotStepsTyped DEF start_task
    <2>2. QED
      BY <1>1, <2>1 DEF start_task
  <1>2. CASE init_mqtt_state
    <2>1. SlotTypeOK'
      BY <1>2 DEF init_mqtt_state, SlotTypeOK
    <2>2. FlagsTwo'
      BY <1>2 DEF init_mqtt_state
    <2>3. header' \in Packet
      BY <1>2, PacketTyped DEF init_mqtt_state, PacketTypes
    <2>4. connect_failures' \in 0..(MaxConnectFailures - 1)
      BY <1>2, RetryAssumption DEF init_mqtt_state
    <2>5. DataTypeOK'
      BY <1>2, <2>3, <2>4, RetryAssumption, ConfigAssumption DEF init_mqtt_state
    <2>6. QED
      BY <2>1, <2>2, <2>5
  <1>3. CASE CreateFailed
    <2>1. SlotTypeOK'
      BY <1>3, SlotStepsTyped DEF CreateFailed
    <2>2. QED
      BY <1>3, <2>1 DEF CreateFailed
  <1>4. CASE CloseConnection
    <2>1. SlotTypeOK'
      BY <1>4 DEF CloseConnection, CloseSocket, SlotTypeOK
    <2>2. (FlagsTwo /\ DataTypeOK)'
      <3>1. CASE sock_connected
        BY <1>4, <3>1 DEF CloseConnection, CloseSocket
      <3>2. CASE ~sock_connected
        BY <1>4, <3>2 DEF CloseConnection
      <3>3. QED
        BY <3>1, <3>2
    <2>3. QED
      BY <2>1, <2>2
  <1>5. CASE PublishClose
    <2>1. SlotTypeOK'
      BY <1>5, SlotStepsTyped DEF PublishClose
    <2>2. QED
      BY <1>5, <2>1 DEF PublishClose
  <1>6. CASE ClearRunning
    BY <1>6 DEF ClearRunning, SlotTypeOK
  <1>7. CASE Discontinue
    BY <1>7 DEF Discontinue, SlotTypeOK
  <1>8. CASE WaitOn
    <2>1. wait_left' \in Nat
      BY <1>8, RetryAssumption DEF WaitOn
    <2>2. QED
      BY <1>8, <2>1 DEF WaitOn, SlotTypeOK
  <1>9. CASE state_install_push
    BY <1>9, RetryFacts DEF state_install_push, Handles, RequestFails, SlotTypeOK
  <1>10. CASE state_get_endpoint
    BY <1>10, RetryFacts
    DEF state_get_endpoint, GetEndpointOk, Handles, RequestFails, SlotTypeOK
  <1>11. CASE state_sock_connect
    <2>1. CASE SockConnectOk
      BY <1>11, <2>1, RetryAssumption
      DEF state_sock_connect, SockConnectOk, Handles, SlotTypeOK
    <2>2. CASE SockConnectFails
      <3>1. connect_failures' \in 0..(MaxConnectFailures - 1)
        BY <2>2, RetryAssumption DEF SockConnectFails
      <3>2. QED
        BY <1>11, <2>2, <3>1, RetryFacts
        DEF state_sock_connect, SockConnectFails, Handles, SlotTypeOK
    <2>3. QED
      BY <1>11, <2>1, <2>2 DEF state_sock_connect
  <1>12. CASE state_send_connect
    <2>1. from_broker' \in Seq(Packet)
      BY <1>12, PacketTyped
      DEF state_send_connect, BufferTooSmall, SendsConnect, Answer, PacketTypes
    <2>2. QED
      BY <1>12, <2>1
      DEF state_send_connect, BufferTooSmall, SendsConnect, Handles, SlotTypeOK
  <1>13. CASE state_recv_connack
    <2>1. CASE ConnackRefused
      <3>1. SlotTypeOK'
        BY <1>13, <2>1
        DEF state_recv_connack, ConnackRefused, CloseSocket, SlotTypeOK
      <3>2. FlagsTwo'
        BY <1>13, <2>1
        DEF state_recv_connack, ConnackRefused, CloseSocket, Handles
      <3>3. /\ task' \in TaskStates
            /\ endpoint' \in {"good", "moved", "revoked"}
            /\ retry_wait' \in Nat /\ wait_left' \in Nat
        BY <2>1, RetryFacts, ConfigAssumption DEF ConnackRefused
      <3>4. DataTypeOK'
        BY <1>13, <2>1, <3>3
        DEF state_recv_connack, ConnackRefused, CloseSocket, Handles
      <3>5. QED
        BY <3>1, <3>2, <3>4
    <2>2. CASE ConnackAccepted
      <3>1. SlotTypeOK'
        BY <1>13, <2>2, SlotStepsTyped DEF state_recv_connack, ConnackAccepted
      <3>2. QED
        BY <1>13, <2>2, <3>1
        DEF state_recv_connack, ConnackAccepted, Arrived, Consumed, Handles
    <2>3. CASE ConnackFails
      BY <1>13, <2>3 DEF state_recv_connack, ConnackFails, Handles, SlotTypeOK
    <2>4. QED
      BY <1>13, <2>1, <2>2, <2>3 DEF state_recv_connack
  <1>14. CASE state_send_subscribe
    <2>1. from_broker' \in Seq(Packet)
      <3>1. P("SUBACK_OK") \in Packet /\ P("SUBACK_FAIL") \in Packet
        BY PacketTyped DEF PacketTypes
      <3>2. QED
        BY <1>14, <3>1 DEF state_send_subscribe, BufferTooSmall, Answer
    <2>2. QED
      BY <1>14, <2>1
      DEF state_send_subscribe, BufferTooSmall, Handles, SlotTypeOK
  <1>15. CASE state_recv_suback
    BY <1>15, RetryAssumption, SMTT(30)
    DEF state_recv_suback, SubackAccepted, ReadsHeader, Arrived, Consumed,
        Handles, SlotTypeOK
  <1>16. CASE state_recv_ready
    <2>1. CASE publish_take
      <3>1. SlotTypeOK'
        BY <1>16, <2>1, SlotStepsTyped DEF state_recv_ready
      <3>2. QED
        BY <1>16, <2>1, <3>1 DEF state_recv_ready, Handles, publish_take,
           ReadsHeader, Consumed, Arrived, ReadsPuback, ReconnectAnew,
           publish_acked, publish_awaits_puback
    <2>2. CASE ReadsPuback /\ UNCHANGED <<header, pingresp_received>>
      <3>1. from_broker # <<>> /\ Head(from_broker).id \in 0..MaxId
        <4>1. from_broker # <<>> /\ Head(from_broker) \in Packet
          BY <2>2 DEF ReadsPuback, Arrived
        <4>2. QED
          BY <4>1, MaxIdAssumption DEF Packet
      <3>2. SlotTypeOK'
        <4>1. CASE publish_acked(Head(from_broker).id)
          BY <1>16, <3>1, <4>1, SlotStepsTyped DEF state_recv_ready
        <4>2. CASE UNCHANGED slotVars
          BY <1>16, <4>2 DEF state_recv_ready, SlotTypeOK
        <4>3. QED
          BY <2>2, <4>1, <4>2 DEF ReadsPuback
      <3>3. QED
        BY <1>16, <2>2, <3>1, <3>2
        DEF state_recv_ready, Handles, ReadsPuback, Consumed, ReconnectAnew
    <2>3. CASE UNCHANGED slotVars
      <3>1. SlotTypeOK'
        BY <1>16, <2>3 DEF state_recv_ready, SlotTypeOK
      <3>2. from_broker' \in Seq(Packet) /\ header' \in Packet
        BY <1>16 DEF state_recv_ready, ReadsHeader, Consumed, Arrived, ReadsPuback
      <3>3. FlagsTwo'
        BY <1>16
        DEF state_recv_ready, Handles, ReadsHeader, ReadsPuback, ReconnectAnew
      <3>4. DataTypeOK'
        BY <1>16, <3>2
        DEF state_recv_ready, Handles, ReadsHeader, ReadsPuback, ReconnectAnew
      <3>5. QED
        BY <3>1, <3>3, <3>4
    <2>4. QED
      BY <1>16, <2>1, <2>2, <2>3 DEF state_recv_ready
  <1>17. CASE state_recv_msg
    <2>1. SlotTypeOK'
      BY <1>17 DEF state_recv_msg, SlotTypeOK
    <2>2. FlagsTwo'
      BY <1>17 DEF state_recv_msg, TakesMessage, ReconnectAnew, Handles
    <2>3. owed' \in SUBSET Inbound
      BY <1>17 DEF state_recv_msg, TakesMessage, AcknowledgesHeader
    <2>4. delivered' \in SUBSET Inbound
      BY <1>17 DEF state_recv_msg, TakesMessage, Packet
    <2>5. DataTypeOK'
      BY <1>17, <2>3, <2>4
      DEF state_recv_msg, TakesMessage, ReconnectAnew, Handles
    <2>6. QED
      BY <2>1, <2>2, <2>5
  <1>18. CASE state_send_pingreq
    <2>1. SlotTypeOK'
      BY <1>18 DEF state_send_pingreq, PingTimesOut, SendsPingreq, SlotTypeOK
    <2>2. FlagsTwo'
      BY <1>18
      DEF state_send_pingreq, PingTimesOut, SendsPingreq, ReconnectAnew, Handles
    <2>3. P("PINGRESP") \in Packet
      BY PacketTyped DEF PacketTypes
    <2>4. from_broker' \in Seq(Packet)
      BY <1>18, <2>3 DEF state_send_pingreq, PingTimesOut, SendsPingreq, Answer
    <2>5. DataTypeOK'
      BY <1>18, <2>4
      DEF state_send_pingreq, PingTimesOut, SendsPingreq, ReconnectAnew, Handles
    <2>6. QED
      BY <2>1, <2>2, <2>5
  <1>19. CASE state_send_publish
    <2>1. PICK ok \in BOOLEAN, reached \in BOOLEAN :
            /\ SendsPublish(ok, reached)
            /\ publish_sent(ok)
            /\ IF ok THEN task' = "RECV_READY" /\ UNCHANGED ping_due
               ELSE ReconnectAnew
      BY <1>19 DEF state_send_publish
    <2>2. pub.owner \in Publishers
      BY <1>19 DEF state_send_publish, Handles, SendsOnlyWhatIsWaitedFor,
         SlotTypeOK, Message
    <2>3. SlotTypeOK'
      BY <1>19, <2>1, <2>2, ZenonT(30)
      DEF state_send_publish, SendsPublish, publish_sent, SlotTypeOK, Message,
          PubStates, Results
    <2>4. from_broker' \in Seq(Packet)
      BY <2>1, <2>2, PacketTyped DEF SendsPublish, Answer, SlotTypeOK, Message
    <2>5. QED
      BY <1>19, <2>1, <2>3, <2>4
      DEF state_send_publish, ReconnectAnew, Handles
  <1>20. CASE state_reconnect
    BY <1>20, RetryFacts DEF state_reconnect, CloseSocket, Handles, SlotTypeOK
  <1>21. CASE Tick
    BY <1>21 DEF Tick, SlotTypeOK
  <1>22. CASE ConnectionEnds
    <2>1. from_broker' \in Seq(Packet)
      BY <1>22 DEF ConnectionEnds
    <2>2. QED
      BY <1>22, <2>1 DEF ConnectionEnds, SlotTypeOK
  <1>23. CASE EndpointChanges
    BY <1>23, ConfigAssumption DEF EndpointChanges, SlotTypeOK
  <1>24. ASSUME NEW packet \in UnaskedPackets, BrokerSends(packet) PROVE Typed'
    BY <1>24, UnaskedTyped DEF BrokerSends, SlotTypeOK
  <1>25. ASSUME NEW p \in Publishers, Publisher(p), UNCHANGED otherVars
         PROVE Typed'
    BY <1>25, PublisherTyped
  <1>26. CASE UNCHANGED vars
    BY <1>26 DEF SlotTypeOK
  <1>27. QED
    BY <1>1, <1>2, <1>3, <1>4, <1>5, <1>6, <1>7, <1>8, <1>9, <1>10, <1>11,
       <1>12, <1>13, <1>14, <1>15, <1>16, <1>17, <1>18, <1>19, <1>20, <1>21,
       <1>22, <1>23, <1>24, <1>25, <1>26
    DEF Next, TaskStep, Handler, Exit, Environment

-----------------------------------------------------------------------------
(* The slot and the callers.                                               *)

SlotInv == SlotIsItsCallers /\ SendsOnlyWhatIsWaitedFor

\* A caller finds its own message in the slot, whatever step it takes: one that
\* is being sent stays, as no caller takes a message back in that state.
LEMMA PublisherKeepsSlot ==
    ASSUME SlotTypeOK, SlotInv, NEW p \in Publishers, Publisher(p), task' = task
    PROVE  SlotInv'
  <1> USE NoOneAssumption
      DEF SlotInv, SlotIsItsCallers, SendsOnlyWhatIsWaitedFor, SlotTypeOK, Message
  <1>1. CASE Call(p)
    BY <1>1 DEF Call
  <1>2. CASE Give(p)
    BY <1>2 DEF Give
  <1>3. CASE GiveUp(p)
    BY <1>3 DEF GiveUp, Return
  <1>4. CASE Collect(p)
    BY <1>4 DEF Collect, Return
  <1>5. CASE Abandon(p)
    BY <1>5 DEF Abandon, Return
  <1>6. CASE Expire(p)
    BY <1>6 DEF Expire
  <1>7. QED
    BY <1>1, <1>2, <1>3, <1>4, <1>5, <1>6 DEF Publisher

\* Every step keeps the message in the slot its caller's.
LEMMA SlotStep ==
    ASSUME TypeOK, SlotInv, [Next]_vars PROVE SlotInv'
  <1> USE DEF SlotInv, SlotIsItsCallers, SendsOnlyWhatIsWaitedFor
  <1>1. CASE UNCHANGED <<slotVars, callVars>> /\ task' # "SEND_PUBLISH"
    BY <1>1
  <1>2. CASE UNCHANGED <<slotVars, callVars, task>>
    BY <1>2
  <1>3. CASE start_task
    BY <1>3 DEF start_task, publish_open
  <1>4. CASE CreateFailed
    BY <1>4 DEF CreateFailed, publish_open
  <1>5. CASE PublishClose
    BY <1>5 DEF PublishClose, publish_close
  <1>6. CASE init_mqtt_state \/ CloseConnection \/ ClearRunning \/ Discontinue
    BY <1>1, <1>2, <1>6
    DEF init_mqtt_state, CloseConnection, ClearRunning, Discontinue
  <1>7. CASE state_install_push \/ state_get_endpoint \/ state_sock_connect
    BY <1>1, <1>7
    DEF state_install_push, state_get_endpoint, GetEndpointOk, RequestFails,
        state_sock_connect, SockConnectOk, SockConnectFails, Handles
  <1>8. CASE state_send_connect \/ state_send_subscribe \/ state_recv_suback
    BY <1>1, <1>8
    DEF state_send_connect, BufferTooSmall, SendsConnect, state_send_subscribe,
        state_recv_suback, SubackAccepted, ReadsHeader
  <1>9. CASE state_recv_connack
    <2>1. CASE ConnackAccepted
      BY <1>9, <2>1
      DEF state_recv_connack, ConnackAccepted, publish_reconnected, TypeOK,
          SlotTypeOK, Message
    <2>2. CASE ConnackRefused \/ ConnackFails
      BY <1>1, <1>9, <2>2 DEF state_recv_connack, ConnackRefused, ConnackFails
    <2>3. QED
      BY <1>9, <2>1, <2>2 DEF state_recv_connack
  <1>10. CASE state_recv_ready
    <2>1. CASE UNCHANGED slotVars
      BY <1>1, <1>10, <2>1
      DEF state_recv_ready, publish_take, ReadsHeader, ReadsPuback,
          ReconnectAnew, Handles
    <2>2. CASE publish_take
      BY <1>10, <2>2, NoOneAssumption
      DEF state_recv_ready, publish_take, TypeOK, SlotTypeOK, Message
    <2>3. CASE publish_acked(Head(from_broker).id) /\ UNCHANGED task
      BY <1>10, <2>3
      DEF state_recv_ready, publish_acked, publish_awaits_puback, Handles
    <2>4. QED
      BY <1>10, <2>1, <2>2, <2>3 DEF state_recv_ready, ReadsPuback
  <1>11. CASE state_recv_msg \/ state_send_pingreq \/ state_reconnect
    BY <1>1, <1>11
    DEF state_recv_msg, TakesMessage, state_send_pingreq, PingTimesOut,
        SendsPingreq, state_reconnect, ReconnectAnew
  <1>12. CASE state_send_publish
    <2>1. PICK ok \in BOOLEAN :
            publish_sent(ok) /\ task' \in {"RECV_READY", "RECONNECT"}
      BY <1>12 DEF state_send_publish, ReconnectAnew
    <2>2. QED
      BY <1>12, <2>1
      DEF state_send_publish, publish_sent, Handles, TypeOK, SlotTypeOK, Message
  <1>13. CASE Environment \/ WaitOn
    BY <1>2, <1>13
    DEF Environment, WaitOn, Tick, ConnectionEnds, EndpointChanges, BrokerSends
  <1>14. ASSUME NEW p \in Publishers, Publisher(p), UNCHANGED otherVars
         PROVE SlotInv'
    BY <1>14, PublisherKeepsSlot DEF TypeOK
  <1>15. QED
    BY <1>2, <1>3, <1>4, <1>5, <1>6, <1>7, <1>8, <1>9, <1>10, <1>11, <1>12,
       <1>13, <1>14
    DEF Next, TaskStep, Handler, Exit

Inv == TypeOK /\ SlotInv

\* The parts of Inv hold before the first task.
LEMMA InvInit == Init => Inv
  BY TypeInit, NoOneAssumption
  DEF Init, SlotInit, NoMessage, Inv, SlotInv, SlotIsItsCallers,
      SendsOnlyWhatIsWaitedFor

\* Every step keeps Inv.
LEMMA InvStep == Inv /\ [Next]_vars => Inv'
  BY TypeStep, SlotStep DEF Inv, SlotInv

\* The inductive invariant of the slot holds throughout.
THEOREM Invariance == Spec => []Inv
  BY InvInit, InvStep, PTL DEF Spec

\* The types hold for any constants that fit the assumptions.
THEOREM TypeCorrect == Spec => []TypeOK
  BY Invariance, PTL DEF Inv

\* No caller takes the result of another one's message.
THEOREM SlotCorrect == Spec => []SlotIsItsCallers
  BY Invariance, PTL DEF Inv, SlotInv

\* The topic and the payload that are sent without the lock stay valid.
THEOREM SendCorrect == Spec => []SendsOnlyWhatIsWaitedFor
  BY Invariance, PTL DEF Inv, SlotInv

-----------------------------------------------------------------------------
(* The connection.                                                         *)

\* Before the socket is connected, while it is, and the part of it after the
\* broker accepted, with the subscription and without.
Unconnected == {"NONE", "CREATED", "INSTALL_PUSH", "GET_ENDPOINT", "SOCK_CONNECT"}
Connecting == {"SEND_CONNECT", "RECV_CONNACK"}
Subscribing == {"SEND_SUBSCRIBE", "RECV_SUBACK"}
InUse == {"RECV_READY", "RECV_MSG", "SEND_PINGREQ", "SEND_PUBLISH"}
Connected == Connecting \cup Subscribing \cup InUse \cup {"RECONNECT"}

\* The way out of the task is taken once, after its last handler.
LifeInv ==
    /\ exiting # "no" => task = "NONE" /\ running
    /\ task # "NONE" => running /\ pub_open
    /\ ~running \/ exiting = "clear_running" => ~pub_open

\* A closed socket has nothing left of the connection it was for.
ConnInv ==
    /\ sock_connected <=> sock # "closed"
    /\ sock = "closed" =>
         /\ from_broker = <<>> /\ carried = {}
         /\ ~accepted /\ ~subscribed /\ ~pinged
    /\ task \in Unconnected => sock = "closed"
    /\ task \in Connected => sock # "closed"
    /\ task \in Connecting => ~mqtt_connected /\ carried = {}
    /\ task = "SEND_CONNECT" => ~accepted
    /\ mqtt_connected => accepted

\* The broker has accepted what it says it has.
ConnackInv ==
    \A i \in 1..Len(from_broker) : from_broker[i].type = "CONNACK_OK" => accepted

\* awaiting_suback is what it says wherever it is looked at.
UseInv ==
    /\ task \in Connecting \cup Subscribing => ~subscribed
    /\ task \in InUse \ {"RECV_MSG"} => subscribed /\ ~awaiting_suback
    /\ task = "RECV_MSG" => (awaiting_suback <=> ~subscribed)

\* Once refused, the credentials lead nowhere but to new ones.
RefusedInv ==
    refused => task \in {"GET_ENDPOINT", "ERR_EXIT", "DISCONTINUED", "NONE", "CREATED"}

\* With waits to speak of, every way back to connecting goes through one.
RestInv ==
    /\ wait_left <= RetryMax
    /\ RetryMin > 1 /\ RetryMax > 1 =>
         /\ retry_wait > 1
         /\ task \in {"INSTALL_PUSH", "GET_ENDPOINT", "SOCK_CONNECT"} /\ wait_left = 0
              => rested

-----------------------------------------------------------------------------
(* Callers are let in while a task serves them.                            *)

\* Every step keeps how far a task has come, and who may be let in, together.
LEMMA LifeStep ==
    ASSUME TypeOK, LifeInv, [Next]_vars PROVE LifeInv'
  <1> USE DEF LifeInv
  <1>1. CASE start_task \/ CreateFailed
    BY <1>1 DEF start_task, CreateFailed, publish_open
  <1>2. CASE init_mqtt_state \/ Discontinue \/ WaitOn
    BY <1>2, ConfigAssumption
    DEF init_mqtt_state, Discontinue, WaitOn, HandlerStates
  <1>3. CASE CloseConnection \/ PublishClose \/ ClearRunning
    BY <1>3 DEF CloseConnection, PublishClose, ClearRunning, publish_close
  <1>4. CASE Handler
    <2>1. UNCHANGED <<running, exiting, pub_open>> /\ task # "NONE" /\ task' # "NONE"
      <3>1. CASE state_install_push \/ state_get_endpoint \/ state_sock_connect
        BY <3>1
        DEF state_install_push, state_get_endpoint, GetEndpointOk, RequestFails,
            state_sock_connect, SockConnectOk, SockConnectFails, Handles
      <3>2. CASE state_send_connect \/ state_send_subscribe \/ state_recv_suback
        BY <3>2
        DEF state_send_connect, BufferTooSmall, SendsConnect, Handles,
            state_send_subscribe, state_recv_suback, SubackAccepted, ReadsHeader
      <3>3. CASE state_recv_connack
        BY <3>3
        DEF state_recv_connack, ConnackRefused, ConnackAccepted, ConnackFails,
            publish_reconnected, Handles
      <3>4. CASE state_recv_ready
        BY <3>4
        DEF state_recv_ready, ReadsHeader, ReadsPuback, ReconnectAnew,
            publish_take, publish_acked, Handles
      <3>5. CASE state_recv_msg \/ state_send_pingreq \/ state_reconnect
        BY <3>5
        DEF state_recv_msg, TakesMessage, state_send_pingreq, PingTimesOut,
            SendsPingreq, state_reconnect, ReconnectAnew, Handles
      <3>6. CASE state_send_publish
        BY <3>6 DEF state_send_publish, publish_sent, ReconnectAnew, Handles
      <3>7. QED
        BY <1>4, <3>1, <3>2, <3>3, <3>4, <3>5, <3>6 DEF Handler
    <2>2. QED
      BY <2>1
  <1>5. CASE Environment
    BY <1>5 DEF Environment, Tick, ConnectionEnds, EndpointChanges, BrokerSends
  <1>6. ASSUME NEW p \in Publishers, Publisher(p), UNCHANGED otherVars
         PROVE LifeInv'
    BY <1>6
    DEF Publisher, Call, Give, GiveUp, Collect, Abandon, Expire
  <1>7. CASE UNCHANGED vars
    BY <1>7
  <1>8. QED
    BY <1>1, <1>2, <1>3, <1>4, <1>5, <1>6, <1>7 DEF Next, TaskStep, Exit

-----------------------------------------------------------------------------
(* What the task knows of its socket.                                      *)

\* Packets added, read or lost don't change what the others are.
LEMMA QueueFacts ==
    ASSUME from_broker \in Seq(Packet)
    PROVE  /\ \A packet : \A i \in 1..Len(Append(from_broker, packet)) :
                \/ i = Len(from_broker) + 1 /\ Append(from_broker, packet)[i] = packet
                \/ i \in 1..Len(from_broker)
                   /\ Append(from_broker, packet)[i] = from_broker[i]
           /\ from_broker # <<>> =>
                \A i \in 1..Len(Tail(from_broker)) :
                  /\ i + 1 \in 1..Len(from_broker)
                  /\ Tail(from_broker)[i] = from_broker[i + 1]
           /\ \A n \in 0..Len(from_broker) :
                \A i \in 1..Len(SubSeq(from_broker, 1, n)) :
                  /\ i \in 1..Len(from_broker)
                  /\ SubSeq(from_broker, 1, n)[i] = from_broker[i]
  <1>1. Len(from_broker) \in Nat
    OBVIOUS
  <1>2. ASSUME NEW packet, NEW i \in 1..Len(Append(from_broker, packet))
        PROVE  \/ i = Len(from_broker) + 1 /\ Append(from_broker, packet)[i] = packet
               \/ i \in 1..Len(from_broker)
                  /\ Append(from_broker, packet)[i] = from_broker[i]
    OBVIOUS
  <1>3. ASSUME from_broker # <<>>, NEW i \in 1..Len(Tail(from_broker))
        PROVE  /\ i + 1 \in 1..Len(from_broker)
               /\ Tail(from_broker)[i] = from_broker[i + 1]
    BY <1>1, <1>3
  <1>4. ASSUME NEW n \in 0..Len(from_broker),
               NEW i \in 1..Len(SubSeq(from_broker, 1, n))
        PROVE  /\ i \in 1..Len(from_broker)
               /\ SubSeq(from_broker, 1, n)[i] = from_broker[i]
    BY <1>1
  <1>5. QED
    BY <1>2, <1>3, <1>4

\* Where no packet is sent by the broker, ConnackInv depends on little.
LEMMA ConnackKept ==
    ASSUME from_broker \in Seq(Packet), ConnackInv, UNCHANGED accepted,
           \/ UNCHANGED from_broker
           \/ from_broker # <<>> /\ Consumed
           \/ \E n \in 0..Len(from_broker) : from_broker' = SubSeq(from_broker, 1, n)
           \/ \E packet \in Packet :
                packet.type # "CONNACK_OK" /\ from_broker' = Append(from_broker, packet)
    PROVE  ConnackInv'
  <1> USE DEF ConnackInv
  <1>1. CASE UNCHANGED from_broker
    BY <1>1
  <1>2. CASE from_broker # <<>> /\ Consumed
    BY <1>2, QueueFacts DEF Consumed
  <1>3. CASE \E n \in 0..Len(from_broker) : from_broker' = SubSeq(from_broker, 1, n)
    BY <1>3, QueueFacts
  <1>4. CASE \E packet \in Packet :
               packet.type # "CONNACK_OK" /\ from_broker' = Append(from_broker, packet)
    BY <1>4, QueueFacts
  <1>5. QED
    BY <1>1, <1>2, <1>3, <1>4

\* Every step keeps a CONNACK_OK on its way to the task to an accepted CONNECT.
LEMMA ConnackStep ==
    ASSUME TypeOK, ConnInv, ConnackInv, [Next]_vars PROVE ConnackInv'
  <1>0. from_broker \in Seq(Packet)
    BY DEF TypeOK, DataTypeOK
  <1>1. CASE UNCHANGED <<from_broker, accepted>>
    BY <1>0, <1>1, ConnackKept
  <1>2. CASE CloseSocket
    BY <1>2 DEF CloseSocket, ConnackInv
  <1>3. CASE start_task \/ CreateFailed \/ Discontinue \/ init_mqtt_state \/ WaitOn
    BY <1>1, <1>3
    DEF start_task, CreateFailed, Discontinue, init_mqtt_state, WaitOn
  <1>4. CASE CloseConnection \/ PublishClose \/ ClearRunning
    BY <1>1, <1>2, <1>4 DEF CloseConnection, PublishClose, ClearRunning
  <1>5. CASE \/ state_install_push \/ state_get_endpoint \/ state_sock_connect
             \/ state_recv_msg
    BY <1>1, <1>5
    DEF state_install_push, state_get_endpoint, GetEndpointOk, RequestFails,
        state_sock_connect, state_recv_msg
  <1>6. CASE state_send_connect
    <2>1. CASE BufferTooSmall
      BY <1>1, <2>1 DEF BufferTooSmall
    <2>2. ASSUME NEW ok \in BOOLEAN, NEW reached \in BOOLEAN,
                 SendsConnect(ok, reached)
          PROVE  ConnackInv'
      <3>1. \A i \in 1..Len(from_broker) : from_broker[i].type # "CONNACK_OK"
        BY <1>6 DEF state_send_connect, Handles, ConnInv, ConnackInv
      <3>2. PICK type \in {"CONNACK_OK", "CONNACK_REFUSED", "CONNACK_ERROR"} :
              /\ Answer(reached, P(type))
              /\ accepted' = (reached /\ type = "CONNACK_OK")
        BY <2>2 DEF SendsConnect
      <3>3. CASE reached
        <4>1. CASE type = "CONNACK_OK"
          BY <3>2, <3>3, <4>1 DEF ConnackInv
        <4>2. CASE type # "CONNACK_OK"
          <5>1. P(type).type # "CONNACK_OK"
            BY <4>2 DEF P
          <5>2. from_broker' = Append(from_broker, P(type))
            BY <3>2, <3>3 DEF Answer
          <5>3. QED
            BY <1>0, <3>1, <5>1, <5>2, QueueFacts DEF ConnackInv
        <4>3. QED
          BY <4>1, <4>2
      <3>4. CASE ~reached
        BY <3>1, <3>2, <3>4 DEF Answer, ConnackInv
      <3>5. QED
        BY <3>3, <3>4
    <2>3. QED
      BY <1>6, <2>1, <2>2 DEF state_send_connect
  <1>7. CASE state_recv_connack
    BY <1>0, <1>1, <1>2, <1>7, ConnackKept
    DEF state_recv_connack, ConnackRefused, ConnackAccepted, ConnackFails, Arrived
  <1>8. CASE state_send_subscribe
    <2>1. CASE BufferTooSmall
      BY <1>1, <2>1 DEF BufferTooSmall
    <2>2. ASSUME NEW reached \in BOOLEAN, NEW type \in {"SUBACK_OK", "SUBACK_FAIL"},
                 Answer(reached, P(type)), UNCHANGED accepted
          PROVE  ConnackInv'
      <3>1. P(type) \in Packet /\ P(type).type # "CONNACK_OK"
        BY PacketTyped DEF P, PacketTypes
      <3>2. QED
        BY <1>0, <2>2, <3>1, ConnackKept DEF Answer
    <2>3. QED
      BY <1>8, <2>1, <2>2 DEF state_send_subscribe
  <1>9. CASE state_recv_suback
    BY <1>0, <1>9, ConnackKept
    DEF state_recv_suback, SubackAccepted, ReadsHeader, Arrived
  <1>10. CASE state_recv_ready
    BY <1>0, <1>10, ConnackKept
    DEF state_recv_ready, ReadsHeader, ReadsPuback, Arrived
  <1>11. CASE state_send_pingreq
    <2>1. P("PINGRESP") \in Packet /\ P("PINGRESP").type # "CONNACK_OK"
      BY PacketTyped DEF P, PacketTypes
    <2>2. QED
      BY <1>0, <1>11, <2>1, ConnackKept
      DEF state_send_pingreq, PingTimesOut, SendsPingreq, Answer
  <1>12. CASE state_send_publish
    <2>1. PICK reached \in BOOLEAN, acks \in BOOLEAN :
            Answer(reached /\ pub.qos = 1 /\ acks,
                   [type |-> "PUBACK", id |-> pub.id, of |-> pub.owner])
      BY <1>12 DEF state_send_publish, SendsPublish
    <2>2. [type |-> "PUBACK", id |-> pub.id, of |-> pub.owner] \in Packet
      BY PacketTyped DEF TypeOK, SlotTypeOK, Message
    <2>3. UNCHANGED accepted
      BY <1>12 DEF state_send_publish
    <2>4. QED
      BY <1>0, <2>1, <2>2, <2>3, ConnackKept DEF Answer
  <1>13. CASE state_reconnect
    BY <1>2, <1>13 DEF state_reconnect
  <1>14. CASE Tick \/ EndpointChanges
    BY <1>1, <1>14 DEF Tick, EndpointChanges
  <1>15. CASE ConnectionEnds
    BY <1>0, <1>15, ConnackKept DEF ConnectionEnds
  <1>16. ASSUME NEW packet \in UnaskedPackets, BrokerSends(packet)
         PROVE ConnackInv'
    <2>1. packet \in Packet /\ packet.type # "CONNACK_OK"
      BY UnaskedTyped DEF UnaskedPackets, P
    <2>2. QED
      BY <1>0, <1>16, <2>1, ConnackKept DEF BrokerSends
  <1>17. CASE UNCHANGED otherVars \/ UNCHANGED vars
    BY <1>1, <1>17
  <1>18. QED
    BY <1>3, <1>4, <1>5, <1>6, <1>7, <1>8, <1>9, <1>10, <1>11, <1>12, <1>13,
       <1>14, <1>15, <1>16, <1>17
    DEF Next, TaskStep, Handler, Exit, Environment

\* Every step keeps the task's flags in line with its socket.
LEMMA ConnStep ==
    ASSUME TypeOK, ConnInv, ConnackInv, [Next]_vars PROVE ConnInv'
  <1> USE DEF ConnInv, Unconnected, Connecting, Subscribing, InUse, Connected
  <1>0. CASE init_mqtt_state
    BY <1>0 DEF init_mqtt_state
  <1>1. CASE start_task \/ CreateFailed
    <2>1. CASE start_task
      BY <2>1 DEF start_task
    <2>2. CASE CreateFailed
      BY <2>2 DEF CreateFailed
    <2>3. QED
      BY <1>1, <2>1, <2>2
  <1>2. CASE Discontinue
    BY <1>2 DEF Discontinue
  <1>3. CASE WaitOn
    BY <1>3 DEF WaitOn
  <1>4. CASE CloseConnection
    <2>1. CASE sock_connected
      BY <1>4, <2>1 DEF CloseConnection, CloseSocket
    <2>2. CASE ~sock_connected
      BY <1>4, <2>2 DEF CloseConnection
    <2>3. QED
      BY <2>1, <2>2
  <1>5. CASE PublishClose \/ ClearRunning
    BY <1>5 DEF PublishClose, ClearRunning
  <1>6. CASE state_install_push \/ state_get_endpoint
    BY <1>6
    DEF state_install_push, state_get_endpoint, GetEndpointOk, RequestFails, Handles
  <1>7. CASE state_sock_connect
    BY <1>7 DEF state_sock_connect, SockConnectOk, SockConnectFails, Handles
  <1>8. CASE state_send_connect
    BY <1>8 DEF state_send_connect, BufferTooSmall, SendsConnect, Handles
  <1>9. CASE state_recv_connack
    <2>1. CASE ConnackRefused
      BY <1>9, <2>1 DEF state_recv_connack, ConnackRefused, CloseSocket, Handles
    <2>2. CASE ConnackAccepted
      <3>1. accepted
        BY <2>2 DEF ConnackAccepted, Arrived, ConnackInv, TypeOK, DataTypeOK
      <3>2. QED
        BY <1>9, <2>2, <3>1 DEF state_recv_connack, ConnackAccepted, Handles
    <2>3. CASE ConnackFails
      BY <1>9, <2>3 DEF state_recv_connack, ConnackFails, Handles
    <2>4. QED
      BY <1>9, <2>1, <2>2, <2>3 DEF state_recv_connack
  <1>10. CASE state_send_subscribe \/ state_recv_suback
    BY <1>10
    DEF state_send_subscribe, BufferTooSmall, state_recv_suback, SubackAccepted,
        ReadsHeader, Handles
  <1>11. CASE state_recv_ready
    BY <1>11
    DEF state_recv_ready, ReadsHeader, ReadsPuback, ReconnectAnew, Handles
  <1>12. CASE state_recv_msg
    BY <1>12 DEF state_recv_msg, TakesMessage, ReconnectAnew, Handles
  <1>13. CASE state_send_pingreq \/ state_send_publish
    BY <1>13
    DEF state_send_pingreq, PingTimesOut, SendsPingreq, state_send_publish,
        SendsPublish, ReconnectAnew, Handles
  <1>14. CASE state_reconnect
    BY <1>14 DEF state_reconnect, CloseSocket, Handles
  <1>15. CASE Environment
    BY <1>15 DEF Environment, Tick, ConnectionEnds, EndpointChanges, BrokerSends
  <1>16. ASSUME NEW p \in Publishers, Publisher(p), UNCHANGED otherVars
         PROVE ConnInv'
    <2>1. carried' = carried \/ carried' = carried \ {p}
      BY <1>16
      DEF Publisher, Call, Give, GiveUp, Collect, Abandon, Expire, Return
    <2>2. QED
      BY <1>16, <2>1
  <1>17. CASE UNCHANGED vars
    BY <1>17
  <1>18. QED
    BY <1>0, <1>1, <1>2, <1>3, <1>4, <1>5, <1>6, <1>7, <1>8, <1>9, <1>10, <1>11,
       <1>12, <1>13, <1>14, <1>15, <1>16, <1>17
    DEF Next, TaskStep, Handler, Exit

\* Every step keeps an unanswered PINGREQ to the connection that carried it.
LEMMA PingStep ==
    ASSUME TypeOK, ConnInv, PingIsThisConnections, [Next]_vars
    PROVE  PingIsThisConnections'
  <1> USE DEF PingIsThisConnections
  <1>1. CASE UNCHANGED <<mqtt_connected, pingresp_received, pinged>>
    BY <1>1
  <1>2. CASE \/ start_task \/ CreateFailed \/ Discontinue \/ WaitOn
             \/ PublishClose \/ ClearRunning \/ Environment
    BY <1>1, <1>2
    DEF start_task, CreateFailed, Discontinue, WaitOn, PublishClose,
        ClearRunning, Environment, Tick, ConnectionEnds, EndpointChanges,
        BrokerSends
  <1>3. CASE init_mqtt_state
    BY <1>3 DEF init_mqtt_state
  <1>4. CASE CloseConnection
    BY <1>4 DEF CloseConnection
  <1>5. CASE \/ state_install_push \/ state_get_endpoint \/ state_sock_connect
             \/ state_send_connect \/ state_send_subscribe \/ state_recv_suback
             \/ state_recv_msg \/ state_send_publish
    BY <1>1, <1>5
    DEF state_install_push, state_get_endpoint, GetEndpointOk, RequestFails,
        state_sock_connect, state_send_connect, BufferTooSmall,
        state_send_subscribe, state_recv_suback, SubackAccepted, state_recv_msg,
        state_send_publish
  <1>6. CASE state_recv_connack
    BY <1>6
    DEF state_recv_connack, ConnackRefused, ConnackAccepted, ConnackFails,
        Handles, ConnInv, Connecting
  <1>7. CASE state_recv_ready
    BY <1>7 DEF state_recv_ready
  <1>8. CASE state_send_pingreq
    BY <1>8 DEF state_send_pingreq, PingTimesOut, SendsPingreq
  <1>9. CASE state_reconnect
    BY <1>9 DEF state_reconnect
  <1>10. CASE UNCHANGED otherVars \/ UNCHANGED vars
    BY <1>1, <1>10
  <1>11. QED
    BY <1>2, <1>3, <1>4, <1>5, <1>6, <1>7, <1>8, <1>9, <1>10
    DEF Next, TaskStep, Handler, Exit

\* Every step keeps SUBACK before the states that use the connection.
LEMMA UseStep ==
    ASSUME TypeOK, ConnInv, UseInv, [Next]_vars PROVE UseInv'
  <1> USE DEF UseInv, Connecting, Subscribing, InUse
  <1>1. CASE UNCHANGED <<task, subscribed, awaiting_suback>>
    BY <1>1
  <1>2. CASE task' \notin Connecting \cup Subscribing \cup InUse
    BY <1>2
  <1>3. CASE \/ start_task \/ CreateFailed \/ Discontinue \/ init_mqtt_state
             \/ WaitOn \/ CloseConnection \/ PublishClose \/ ClearRunning
    BY <1>1, <1>2, <1>3
    DEF start_task, CreateFailed, Discontinue, init_mqtt_state, WaitOn,
        CloseConnection, PublishClose, ClearRunning
  <1>4. CASE state_install_push \/ state_get_endpoint
    BY <1>2, <1>4
    DEF state_install_push, state_get_endpoint, GetEndpointOk, RequestFails, Handles
  <1>5. CASE state_sock_connect
    BY <1>5
    DEF state_sock_connect, SockConnectOk, SockConnectFails, Handles, ConnInv,
        Unconnected
  <1>6. CASE state_send_connect
    BY <1>6 DEF state_send_connect, BufferTooSmall, SendsConnect, Handles
  <1>7. CASE state_recv_connack
    BY <1>7
    DEF state_recv_connack, ConnackRefused, ConnackAccepted, ConnackFails, Handles
  <1>8. CASE state_send_subscribe
    BY <1>8 DEF state_send_subscribe, BufferTooSmall, Handles
  <1>9. CASE state_recv_suback
    BY <1>9 DEF state_recv_suback, SubackAccepted, ReadsHeader, Handles
  <1>10. CASE state_recv_ready
    BY <1>10
    DEF state_recv_ready, ReadsHeader, ReadsPuback, ReconnectAnew, Handles
  <1>11. CASE state_recv_msg
    BY <1>11 DEF state_recv_msg, TakesMessage, ReconnectAnew, Handles
  <1>12. CASE state_send_pingreq \/ state_send_publish
    BY <1>12
    DEF state_send_pingreq, PingTimesOut, SendsPingreq, state_send_publish,
        ReconnectAnew, Handles
  <1>13. CASE state_reconnect
    BY <1>2, <1>13 DEF state_reconnect
  <1>14. CASE Environment
    BY <1>1, <1>14
    DEF Environment, Tick, ConnectionEnds, EndpointChanges, BrokerSends
  <1>15. CASE UNCHANGED otherVars \/ UNCHANGED vars
    BY <1>1, <1>15
  <1>16. QED
    BY <1>3, <1>4, <1>5, <1>6, <1>7, <1>8, <1>9, <1>10, <1>11, <1>12, <1>13,
       <1>14, <1>15
    DEF Next, TaskStep, Handler, Exit

\* Every step keeps refused credentials from the states that connect.
LEMMA RefusedStep ==
    ASSUME TypeOK, RefusedInv, [Next]_vars PROVE RefusedInv'
  <1> USE DEF RefusedInv
  <1>1. CASE UNCHANGED <<refused, task>>
    BY <1>1
  <1>2. CASE start_task \/ CreateFailed \/ init_mqtt_state \/ Discontinue
    BY <1>2 DEF start_task, CreateFailed, init_mqtt_state, Discontinue
  <1>3. CASE WaitOn \/ CloseConnection \/ PublishClose \/ ClearRunning
    BY <1>3 DEF WaitOn, CloseConnection, PublishClose, ClearRunning
  <1>4. CASE state_install_push \/ state_get_endpoint
    BY <1>4
    DEF state_install_push, state_get_endpoint, GetEndpointOk, RequestFails, Handles
  <1>5. CASE \/ state_sock_connect \/ state_send_connect \/ state_send_subscribe
             \/ state_recv_suback \/ state_recv_ready
    BY <1>5
    DEF state_sock_connect, state_send_connect, BufferTooSmall,
        state_send_subscribe, state_recv_suback, SubackAccepted,
        state_recv_ready, Handles
  <1>6. CASE state_recv_connack
    BY <1>6
    DEF state_recv_connack, ConnackRefused, ConnackAccepted, ConnackFails, Handles
  <1>7. CASE \/ state_recv_msg \/ state_send_pingreq \/ state_send_publish
             \/ state_reconnect
    BY <1>7
    DEF state_recv_msg, state_send_pingreq, PingTimesOut, SendsPingreq,
        state_send_publish, state_reconnect, Handles
  <1>8. CASE Environment
    BY <1>1, <1>8
    DEF Environment, Tick, ConnectionEnds, EndpointChanges, BrokerSends
  <1>9. CASE UNCHANGED otherVars \/ UNCHANGED vars
    BY <1>1, <1>9
  <1>10. QED
    BY <1>2, <1>3, <1>4, <1>5, <1>6, <1>7, <1>8, <1>9
    DEF Next, TaskStep, Handler, Exit

\* Every step keeps a wait, behind it or ahead of it, before the next connect.
LEMMA RestStep ==
    ASSUME TypeOK, RestInv, [Next]_vars PROVE RestInv'
  <1>0. /\ retry_wait \in Nat /\ wait_left \in Nat
        /\ RetryMin \in Nat \ {0} /\ RetryMax \in Nat \ {0} /\ WaitTurn \in Nat \ {0}
    BY RetryAssumption DEF TypeOK, DataTypeOK
  <1> USE <1>0 DEF RestInv
  <1>1. CASE UNCHANGED <<retry_wait, wait_left, rested, task>>
    BY <1>1
  <1>2. CASE /\ UNCHANGED <<retry_wait, wait_left>>
             /\ task' \notin {"INSTALL_PUSH", "GET_ENDPOINT", "SOCK_CONNECT"}
    BY <1>2
  <1>3. CASE schedule_retry
    BY <1>3, RetryFacts
  <1>4. CASE start_task \/ CreateFailed \/ Discontinue
    BY <1>2, <1>4 DEF start_task, CreateFailed, Discontinue
  <1>5. CASE CloseConnection \/ PublishClose \/ ClearRunning
    BY <1>1, <1>2, <1>5 DEF CloseConnection, PublishClose, ClearRunning
  <1>6. CASE init_mqtt_state
    BY <1>6 DEF init_mqtt_state
  <1>7. CASE WaitOn
    BY <1>7 DEF WaitOn
  <1>8. CASE RequestFails
    BY <1>2, <1>3, <1>8 DEF RequestFails
  <1>9. CASE state_install_push \/ state_get_endpoint
    BY <1>8, <1>9
    DEF state_install_push, state_get_endpoint, GetEndpointOk, Handles
  <1>10. CASE state_sock_connect
    BY <1>2, <1>3, <1>10 DEF state_sock_connect, SockConnectOk, SockConnectFails
  <1>11. CASE state_send_connect \/ state_send_subscribe
    BY <1>2, <1>11
    DEF state_send_connect, BufferTooSmall, SendsConnect, state_send_subscribe
  <1>12. CASE state_recv_connack
    BY <1>2, <1>3, <1>12
    DEF state_recv_connack, ConnackRefused, ConnackAccepted, ConnackFails
  <1>13. CASE state_recv_suback
    BY <1>13 DEF state_recv_suback, SubackAccepted, ReadsHeader
  <1>14. CASE state_recv_ready
    BY <1>2, <1>14
    DEF state_recv_ready, ReadsHeader, ReadsPuback, ReconnectAnew, Handles
  <1>15. CASE state_recv_msg \/ state_send_pingreq \/ state_send_publish
    BY <1>2, <1>15
    DEF state_recv_msg, TakesMessage, state_send_pingreq, PingTimesOut,
        SendsPingreq, state_send_publish, ReconnectAnew
  <1>16. CASE state_reconnect
    BY <1>3, <1>16 DEF state_reconnect
  <1>17. CASE Environment
    BY <1>1, <1>17
    DEF Environment, Tick, ConnectionEnds, EndpointChanges, BrokerSends
  <1>18. CASE UNCHANGED otherVars \/ UNCHANGED vars
    BY <1>1, <1>18
  <1>19. QED
    BY <1>4, <1>5, <1>6, <1>7, <1>9, <1>10, <1>11, <1>12, <1>13, <1>14, <1>15,
       <1>16, <1>17, <1>18
    DEF Next, TaskStep, Handler, Exit

\* PUBACK is sent for the message the callback was just given.
LEMMA AcknowledgedStep ==
    ASSUME TypeOK, AcknowledgedIsDelivered, [Next]_vars
    PROVE  AcknowledgedIsDelivered'
  <1> USE DEF AcknowledgedIsDelivered
  <1>1. CASE UNCHANGED inboundVars
    BY <1>1
  <1>2. CASE state_recv_msg
    <2>1. CASE TakesMessage
      <3>1. delivered' = delivered \cup ({header.of} \ (TooLarge \cup {NoOne}))
        BY <2>1 DEF TakesMessage
      <3>2. owed' = owed \/ owed' = owed \ {header.of}
        BY <2>1 DEF TakesMessage, AcknowledgesHeader
      <3>3. QED
        BY <3>1, <3>2, InboundAssumption
    <2>2. QED
      BY <1>1, <1>2, <2>1 DEF state_recv_msg
  <1>3. CASE Handler
    BY <1>1, <1>2, <1>3
    DEF Handler, state_install_push, state_get_endpoint, GetEndpointOk,
        RequestFails, state_sock_connect, state_send_connect, BufferTooSmall,
        state_recv_connack, state_send_subscribe, state_recv_suback,
        SubackAccepted, state_recv_ready, state_send_pingreq, PingTimesOut,
        SendsPingreq, state_send_publish, state_reconnect
  <1>4. CASE \/ start_task \/ CreateFailed \/ Discontinue \/ init_mqtt_state
             \/ WaitOn \/ Exit \/ Environment
    BY <1>1, <1>4
    DEF start_task, CreateFailed, Discontinue, init_mqtt_state, WaitOn, Exit,
        CloseConnection, PublishClose, ClearRunning, Environment, Tick,
        ConnectionEnds, EndpointChanges, BrokerSends
  <1>5. CASE UNCHANGED otherVars \/ UNCHANGED vars
    BY <1>1, <1>5
  <1>6. QED
    BY <1>3, <1>4, <1>5 DEF Next, TaskStep

-----------------------------------------------------------------------------

\* The inductive invariant of the connection.
ConnectionInv ==
    /\ Inv
    /\ LifeInv
    /\ ConnInv /\ ConnackInv
    /\ PingIsThisConnections
    /\ UseInv
    /\ RefusedInv
    /\ RestInv
    /\ AcknowledgedIsDelivered

\* The parts of ConnectionInv hold before the first task.
LEMMA ConnectionInit == Init => ConnectionInv
  <1> SUFFICES ASSUME Init PROVE ConnectionInv
    OBVIOUS
  <1> USE DEF Init, SlotInit
  <1>1. Inv
    BY InvInit
  <1>2. LifeInv /\ ConnInv /\ ConnackInv /\ PingIsThisConnections
    BY DEF LifeInv, ConnInv, ConnackInv, PingIsThisConnections, Connecting,
       Subscribing, InUse, Connected
  <1>3. UseInv /\ RefusedInv
    BY DEF UseInv, RefusedInv, Connecting, Subscribing, InUse
  <1>4. RestInv /\ AcknowledgedIsDelivered
    BY RetryAssumption DEF RestInv, AcknowledgedIsDelivered
  <1>5. QED
    BY <1>1, <1>2, <1>3, <1>4 DEF ConnectionInv

\* Every step keeps ConnectionInv.
LEMMA ConnectionStep == ConnectionInv /\ [Next]_vars => ConnectionInv'
  BY InvStep, LifeStep, ConnStep, ConnackStep, PingStep, UseStep, RefusedStep,
     RestStep, AcknowledgedStep
  DEF ConnectionInv, Inv

\* The inductive invariant of the connection holds throughout.
THEOREM ConnectionInvariance == Spec => []ConnectionInv
  BY ConnectionInit, ConnectionStep, PTL DEF Spec

\* kii_mqtt_publish() is let in while a task serves it, and not once it is gone.
THEOREM OpenCorrect == Spec => []OpenWhileServed
  <1>1. ConnectionInv => OpenWhileServed
    BY DEF ConnectionInv, LifeInv, OpenWhileServed, HandlerStates
  <1>2. QED
    BY <1>1, ConnectionInvariance, PTL

\* The task's flags tell the state of the socket and of the connection.
THEOREM SocketCorrect == Spec => []SocketIsTracked
  <1>1. ConnectionInv => SocketIsTracked
    BY DEF ConnectionInv, ConnInv, SocketIsTracked, Unconnected
  <1>2. QED
    BY <1>1, ConnectionInvariance, PTL

\* No connection pays for the PINGREQ of an earlier one.
THEOREM PingCorrect == Spec => []PingIsThisConnections
  BY ConnectionInvariance, PTL DEF ConnectionInv

\* The connection is used once subscribed, and RECV_MSG goes back to where it
\* came from.
THEOREM UseCorrect == Spec => []SubscribedBeforeUse
  <1>1. ConnectionInv => SubscribedBeforeUse
    BY DEF ConnectionInv, UseInv, SubscribedBeforeUse, InUse
  <1>2. QED
    BY <1>1, ConnectionInvariance, PTL

\* What is acknowledged to the broker was delivered.
THEOREM AcknowledgedCorrect == Spec => []AcknowledgedIsDelivered
  BY ConnectionInvariance, PTL DEF ConnectionInv

\* Refused credentials aren't presented again.
THEOREM RefusedCorrect == Spec => []RefusedNotReused
  <1>1. ConnectionInv => RefusedNotReused
    BY DEF ConnectionInv, RefusedInv, RefusedNotReused
  <1>2. QED
    BY <1>1, ConnectionInvariance, PTL

\* What is remembered of a connection is this connection's.
THEOREM ItselfCorrect == Spec => []ConnectionIsItself
  BY SocketCorrect, PingCorrect, UseCorrect, RefusedCorrect, PTL DEF ConnectionIsItself

\* The broker is left alone between two connects, whatever the limits are.
THEOREM WaitsCorrect == Spec => []WaitsBetweenConnects
  <1>1. ConnectionInv => WaitsBetweenConnects
    BY DEF ConnectionInv, RestInv, WaitsBetweenConnects
  <1>2. QED
    BY <1>1, ConnectionInvariance, PTL

=============================================================================
