-------------------------- MODULE MqttPublishProof -------------------------
(***************************************************************************)
(* Proofs about what kii_mqtt_publish() returns, for any number of         *)
(* callers: the invariant that ties the slot to what was sent, received    *)
(* and acknowledged, and that MqttTask implements PublishContract.         *)
(***************************************************************************)
EXTENDS MqttTaskProof

USE DEF vars, publishVars, slotVars, callVars, histVars, taskVars, flagVars,
        retryVars, connVars, inboundVars, endpointVars, otherVars

\* The message in the slot and its history: only messages waited for have one, a
\* message to be sent has its DUP flag by it, and on a connection in use it isn't
\* one that this connection has carried.
HistInv ==
    /\ \A p \in tried \cup got \cup carried : call[p] = "waiting"
    /\ pub_state \in {"QUEUED", "SENDING"} =>
         /\ pub.dup <=> pub.owner \in tried
         /\ task \in Subscribing \cup InUse => pub.owner \notin carried
    /\ pub_state = "AWAITING_PUBACK" => pub.owner \in tried
    /\ publish_awaits_puback => pub.qos = 1
    /\ pub.owner # NoOne => pub.qos = qos[pub.owner]
    /\ pub_state # "FREE" /\ pub.qos = 1 => pub.id >= 2

\* The result left for the caller is true.
DoneInv ==
    pub_state = "DONE" =>
        /\ pub_result = "OK" => pub.owner \in (IF pub.qos = 1 THEN got ELSE tried)
        /\ pub_result = "SOCK_SEND" => pub.qos = 0 /\ pub.owner \in tried

\* The packet is a PUBACK that answers a message, and the one waited for if the
\* connection is in use.
Answers(packet) ==
    /\ packet.of # NoOne
    /\ subscribed
    /\ task \in InUse =>
         /\ publish_awaits_puback
         /\ pub.id = packet.id
         /\ pub_state = "AWAITING_PUBACK" => pub.owner \in got

\* On a connection in use, a PUBACK on its way is the only one and is for the
\* message in the slot; one that answers nothing has no identifier in use.
PubackInv ==
    /\ \A i \in 1..Len(from_broker) :
         from_broker[i].type = "PUBACK" =>
           \/ from_broker[i].of = NoOne /\ from_broker[i].id = 0
           \/ Answers(from_broker[i])
    /\ \A i, j \in 1..Len(from_broker) :
         /\ from_broker[i].type = "PUBACK" /\ from_broker[i].of # NoOne
         /\ from_broker[j].type = "PUBACK" /\ from_broker[j].of # NoOne
         => i = j

-----------------------------------------------------------------------------

\* The callers' steps keep what the histories say of the message in the slot.
LEMMA PublisherKeepsHistory ==
    ASSUME SlotTypeOK, SlotInv, HistInv, NEW p \in Publishers, Publisher(p),
           task' = task
    PROVE  HistInv'
  <1> USE NoOneAssumption
      DEF HistInv, SlotInv, SlotIsItsCallers, SlotTypeOK, Message,
          publish_awaits_puback
  <1>1. CASE Call(p)
    BY <1>1 DEF Call
  <1>2. CASE Give(p)
    <2>1. qos[p] = 1 => NextPacketId >= 2
      BY MaxIdAssumption DEF NextPacketId
    <2>2. p \notin tried \cup got \cup carried
      BY <1>2 DEF Give
    <2>3. QED
      BY <1>2, <2>1, <2>2 DEF Give
  <1>3. CASE GiveUp(p)
    BY <1>3 DEF GiveUp, Return
  <1>4. CASE Collect(p)
    BY <1>4 DEF Collect, Return
  <1>5. CASE Abandon(p)
    BY <1>5 DEF Abandon, Return
  <1>6. CASE Expire(p)
    BY <1>6 DEF Expire
  <1>7. QED
    BY <1>1, <1>2, <1>3, <1>4, <1>5, <1>6 DEF Publisher

\* Every step keeps the histories in line with the slot.
LEMMA HistStep ==
    ASSUME ConnectionInv, HistInv, [Next]_vars PROVE HistInv'
  <1>0. TypeOK /\ SlotInv /\ ConnInv
    BY DEF ConnectionInv, Inv
  <1> USE <1>0 DEF HistInv, Subscribing, InUse
  <1>1. CASE /\ UNCHANGED <<slotVars, call, qos, tried, got>>
             /\ carried' = {} \/ UNCHANGED carried
             /\ task' \in Subscribing \cup InUse => task \in Subscribing \cup InUse
    BY <1>1 DEF publish_awaits_puback
  <1>2. CASE start_task \/ CreateFailed
    BY <1>2 DEF start_task, CreateFailed, publish_open, publish_awaits_puback
  <1>3. CASE PublishClose
    BY <1>3 DEF PublishClose, publish_close, publish_awaits_puback
  <1>4. CASE \/ init_mqtt_state \/ CloseConnection \/ ClearRunning \/ Discontinue
             \/ WaitOn \/ Environment
    BY <1>1, <1>4
    DEF init_mqtt_state, CloseConnection, CloseSocket, ClearRunning,
        Discontinue, WaitOn, Environment, Tick, ConnectionEnds,
        EndpointChanges, BrokerSends
  <1>5. CASE \/ state_install_push \/ state_get_endpoint \/ state_sock_connect
             \/ state_send_connect
    BY <1>1, <1>5
    DEF state_install_push, state_get_endpoint, GetEndpointOk, RequestFails,
        state_sock_connect, SockConnectOk, SockConnectFails,
        state_send_connect, BufferTooSmall, SendsConnect, Handles
  <1>6. CASE state_recv_connack
    <2>1. CASE ConnackAccepted
      <3>1. carried = {}
        BY <1>6 DEF state_recv_connack, Handles, ConnInv, Connecting
      <3>2. QED
        BY <1>6, <2>1, <3>1
        DEF state_recv_connack, ConnackAccepted, publish_reconnected,
            publish_awaits_puback, TypeOK, SlotTypeOK, Message
    <2>2. CASE ConnackRefused \/ ConnackFails
      BY <1>1, <1>6, <2>2
      DEF state_recv_connack, ConnackRefused, ConnackFails, CloseSocket
    <2>3. QED
      BY <1>6, <2>1, <2>2 DEF state_recv_connack
  <1>7. CASE state_send_subscribe \/ state_recv_suback
    BY <1>1, <1>7
    DEF state_send_subscribe, BufferTooSmall, state_recv_suback, SubackAccepted,
        ReadsHeader, Handles
  <1>8. CASE state_recv_ready
    <2>1. CASE UNCHANGED slotVars
      BY <1>1, <1>8, <2>1
      DEF state_recv_ready, publish_take, ReadsHeader, ReadsPuback,
          ReconnectAnew, Handles
    <2>2. CASE publish_take
      BY <1>8, <2>2
      DEF state_recv_ready, publish_take, publish_awaits_puback, Handles
    <2>3. CASE publish_acked(Head(from_broker).id)
      BY <1>8, <2>3 DEF state_recv_ready, publish_acked, publish_awaits_puback
    <2>4. QED
      BY <1>8, <2>1, <2>2, <2>3 DEF state_recv_ready, ReadsPuback
  <1>9. CASE state_recv_msg \/ state_send_pingreq \/ state_reconnect
    BY <1>1, <1>9
    DEF state_recv_msg, TakesMessage, state_send_pingreq, PingTimesOut,
        SendsPingreq, state_reconnect, ReconnectAnew, CloseSocket, Handles
  <1>10. CASE state_send_publish
    <2>1. PICK ok \in BOOLEAN, reached \in BOOLEAN :
            /\ SendsPublish(ok, reached)
            /\ publish_sent(ok)
            /\ task' = IF ok THEN "RECV_READY" ELSE "RECONNECT"
      BY <1>10 DEF state_send_publish, ReconnectAnew
    <2>2. /\ pub_state = "SENDING" /\ pub.owner # NoOne
          /\ call[pub.owner] = "waiting"
      BY <1>10 DEF state_send_publish, Handles, SlotInv, SendsOnlyWhatIsWaitedFor
    <2>3. UNCHANGED <<call, qos>>
      BY <1>10 DEF state_send_publish
    <2>4. /\ tried' = tried \cup {pub.owner}
          /\ carried' = carried \cup {pub.owner}
          /\ got' \subseteq got \cup {pub.owner}
      BY <2>1 DEF SendsPublish
    <2>5. CASE ok
      BY <2>1, <2>2, <2>3, <2>4, <2>5
      DEF publish_sent, publish_awaits_puback, TypeOK, SlotTypeOK, Message
    <2>6. CASE ~ok
      BY <2>1, <2>2, <2>3, <2>4, <2>6
      DEF publish_sent, publish_awaits_puback, TypeOK, SlotTypeOK, Message
    <2>7. QED
      BY <2>5, <2>6
  <1>11. ASSUME NEW p \in Publishers, Publisher(p), UNCHANGED otherVars
         PROVE HistInv'
    BY <1>11, PublisherKeepsHistory DEF TypeOK
  <1>12. CASE UNCHANGED vars
    BY <1>1, <1>12
  <1>13. QED
    BY <1>2, <1>3, <1>4, <1>5, <1>6, <1>7, <1>8, <1>9, <1>10, <1>11, <1>12
    DEF Next, TaskStep, Handler, Exit

-----------------------------------------------------------------------------
(* PUBACKs on their way.                                                   *)

\* The packet that is read first is the first one.
LEMMA HeadIsFirst ==
    ASSUME from_broker \in Seq(Packet), from_broker # <<>>
    PROVE  /\ 1 \in 1..Len(from_broker)
           /\ Head(from_broker) = from_broker[1]
  OBVIOUS

\* Packets are read or lost, or one that answers no message is added, and every
\* PUBACK that answered one still does.
LEMMA PubackKept ==
    ASSUME from_broker \in Seq(Packet), PubackInv,
           \A packet \in Packet : Answers(packet) => Answers(packet)',
           \/ UNCHANGED from_broker
           \/ from_broker # <<>> /\ Consumed
           \/ \E n \in 0..Len(from_broker) : from_broker' = SubSeq(from_broker, 1, n)
           \/ \E packet \in Packet :
                /\ packet.type = "PUBACK" => packet.of = NoOne /\ packet.id = 0
                /\ from_broker' = Append(from_broker, packet)
    PROVE  PubackInv'
  <1>1. \A i \in 1..Len(from_broker) : from_broker[i] \in Packet
    OBVIOUS
  <1>2. \A i \in 1..Len(from_broker) :
          from_broker[i].type = "PUBACK" =>
            \/ from_broker[i].of = NoOne /\ from_broker[i].id = 0
            \/ from_broker[i].of # NoOne /\ \E packet \in Packet :
                 packet = from_broker[i] /\ Answers(packet)'
    BY <1>1 DEF PubackInv, Answers
  <1>3. CASE UNCHANGED from_broker
    BY <1>2, <1>3 DEF PubackInv, Answers
  <1>4. CASE from_broker # <<>> /\ Consumed
    <2>1. \A i \in 1..Len(from_broker') :
            i + 1 \in 1..Len(from_broker) /\ from_broker'[i] = from_broker[i + 1]
      BY <1>4, QueueFacts DEF Consumed
    <2>2. \A i \in 1..Len(from_broker') :
            from_broker'[i].type = "PUBACK" =>
              \/ from_broker'[i].of = NoOne /\ from_broker'[i].id = 0
              \/ Answers(from_broker[i])'
      BY <1>2, <2>1 DEF Answers
    <2>3. ASSUME NEW i \in 1..Len(from_broker'), NEW j \in 1..Len(from_broker'),
                 from_broker'[i].type = "PUBACK", from_broker'[i].of # NoOne,
                 from_broker'[j].type = "PUBACK", from_broker'[j].of # NoOne
          PROVE  i = j
      <3>1. i + 1 = j + 1
        BY <2>1, <2>3, SMTT(30) DEF PubackInv
      <3>2. QED
        BY <3>1
    <2>4. QED
      BY <2>2, <2>3 DEF PubackInv
  <1>5. CASE \E n \in 0..Len(from_broker) : from_broker' = SubSeq(from_broker, 1, n)
    <2>1. \A i \in 1..Len(from_broker') :
            i \in 1..Len(from_broker) /\ from_broker'[i] = from_broker[i]
      BY <1>5, QueueFacts
    <2>2. QED
      BY <1>2, <2>1 DEF PubackInv, Answers
  <1>6. CASE \E packet \in Packet :
               /\ packet.type = "PUBACK" => packet.of = NoOne /\ packet.id = 0
               /\ from_broker' = Append(from_broker, packet)
    <2>1. \A i \in 1..Len(from_broker') :
            \/ i \in 1..Len(from_broker) /\ from_broker'[i] = from_broker[i]
            \/ from_broker'[i].type = "PUBACK" =>
                 from_broker'[i].of = NoOne /\ from_broker'[i].id = 0
      BY <1>6, QueueFacts
    <2>2. QED
      BY <1>2, <2>1, SMTT(30) DEF PubackInv, Answers
  <1>7. QED
    BY <1>3, <1>4, <1>5, <1>6

\* A PUBACK with the identifier waited for is the answer to the message.
LEMMA AckIsGenuine ==
    ASSUME TypeOK, HistInv, PubackInv, task \in InUse, Arrived({"PUBACK"}),
           publish_awaits_puback, pub.id = Head(from_broker).id
    PROVE  /\ Answers(Head(from_broker))
           /\ Head(from_broker) \in Packet
  <1>1. from_broker \in Seq(Packet) /\ from_broker # <<>>
    BY DEF Arrived, TypeOK, DataTypeOK
  <1>2. Head(from_broker) = from_broker[1] /\ 1 \in 1..Len(from_broker)
    BY <1>1, HeadIsFirst
  <1>3. from_broker[1].type = "PUBACK"
    BY <1>2 DEF Arrived
  <1>4. pub.id >= 2
    BY DEF HistInv, publish_awaits_puback
  <1>5. pub.id # 0
    BY <1>4 DEF TypeOK, SlotTypeOK, Message
  <1>6. Head(from_broker) \in Packet
    BY <1>1
  <1>7. QED
    BY <1>2, <1>3, <1>5, <1>6 DEF PubackInv

\* Every step keeps a PUBACK on its way the answer to the message waited for.
LEMMA PubackStep ==
    ASSUME ConnectionInv, HistInv, PubackInv, [Next]_vars PROVE PubackInv'
  <1>0. /\ TypeOK /\ SlotInv /\ LifeInv /\ ConnInv /\ UseInv
        /\ from_broker \in Seq(Packet)
    BY DEF ConnectionInv, Inv, TypeOK, DataTypeOK
  <1> USE <1>0
  <1> DEFINE Moves ==
        \/ UNCHANGED from_broker
        \/ from_broker # <<>> /\ Consumed
        \/ \E n \in 0..Len(from_broker) : from_broker' = SubSeq(from_broker, 1, n)
        \/ \E packet \in Packet :
             /\ packet.type = "PUBACK" => packet.of = NoOne /\ packet.id = 0
             /\ from_broker' = Append(from_broker, packet)
  <1>1. CASE /\ UNCHANGED <<pub_state, pub, got, subscribed>>
             /\ task' \in InUse => task \in InUse
             /\ Moves
    BY <1>1, PubackKept DEF Answers, publish_awaits_puback
  <1>2. CASE ~subscribed /\ Moves
    BY <1>2, PubackKept DEF Answers
  <1>3. CASE UNCHANGED subscribed /\ task' \notin InUse /\ Moves
    BY <1>3, PubackKept DEF Answers
  <1>4. CASE CloseSocket
    BY <1>4 DEF CloseSocket, PubackInv
  <1>5. CASE start_task \/ CreateFailed \/ Discontinue
    BY <1>3, <1>5 DEF start_task, CreateFailed, Discontinue, InUse
  <1>6. CASE init_mqtt_state \/ WaitOn \/ ClearRunning \/ Tick \/ EndpointChanges
    BY <1>1, <1>3, <1>6
    DEF init_mqtt_state, WaitOn, ClearRunning, Tick, EndpointChanges, InUse
  <1>7. CASE CloseConnection
    BY <1>3, <1>4, <1>7 DEF CloseConnection, InUse
  <1>8. CASE PublishClose
    BY <1>3, <1>8 DEF PublishClose, LifeInv, InUse
  <1>9. CASE state_install_push \/ state_get_endpoint \/ state_sock_connect
    BY <1>3, <1>9
    DEF state_install_push, state_get_endpoint, GetEndpointOk, RequestFails,
        state_sock_connect, SockConnectOk, SockConnectFails, Handles, InUse
  <1>10. CASE state_send_connect
    <2>1. CASE BufferTooSmall
      BY <1>3, <2>1 DEF BufferTooSmall, InUse
    <2>2. ASSUME NEW ok \in BOOLEAN, NEW reached \in BOOLEAN,
                 NEW type \in {"CONNACK_OK", "CONNACK_REFUSED", "CONNACK_ERROR"},
                 Answer(reached, P(type))
          PROVE  Moves
      <3>1. P(type) \in Packet /\ P(type).type # "PUBACK"
        BY PacketTyped DEF P, PacketTypes
      <3>2. QED
        BY <2>2, <3>1 DEF Answer
    <2>3. QED
      BY <1>3, <1>10, <2>1, <2>2 DEF state_send_connect, SendsConnect, InUse
  <1>11. CASE state_recv_connack
    BY <1>3, <1>4, <1>11
    DEF state_recv_connack, ConnackRefused, ConnackAccepted, ConnackFails,
        Arrived, InUse
  <1>12. CASE state_send_subscribe
    <2>1. CASE BufferTooSmall
      BY <1>3, <2>1 DEF BufferTooSmall, InUse
    <2>2. ASSUME NEW reached \in BOOLEAN, NEW type \in {"SUBACK_OK", "SUBACK_FAIL"},
                 Answer(reached, P(type))
          PROVE  Moves
      <3>1. P(type) \in Packet /\ P(type).type # "PUBACK"
        BY PacketTyped DEF P, PacketTypes
      <3>2. QED
        BY <2>2, <3>1 DEF Answer
    <2>3. QED
      BY <1>3, <1>12, <2>1, <2>2 DEF state_send_subscribe, InUse
  <1>13. CASE state_recv_suback
    <2>1. ~subscribed
      BY <1>13
      DEF state_recv_suback, SubackAccepted, Handles, UseInv, Subscribing
    <2>2. Moves
      BY <1>13 DEF state_recv_suback, SubackAccepted, ReadsHeader, Arrived
    <2>3. QED
      BY <1>2, <2>1, <2>2
  <1>14. CASE state_recv_ready
    <2>0. task \in InUse
      BY <1>14 DEF state_recv_ready, Handles, InUse
    <2>1. CASE UNCHANGED slotVars
      <3>1. Moves
        BY <1>14, <2>1 DEF state_recv_ready, ReadsHeader, ReadsPuback, Arrived
      <3>2. QED
        BY <1>1, <1>14, <2>0, <2>1, <3>1 DEF state_recv_ready
    <2>2. CASE publish_take /\ UNCHANGED from_broker
      <3>1. \A packet \in Packet : ~Answers(packet)
        BY <2>0, <2>2 DEF publish_take, Answers, publish_awaits_puback
      <3>2. QED
        BY <2>2, <3>1, PubackKept
    <2>3. CASE /\ publish_acked(Head(from_broker).id)
               /\ Arrived({"PUBACK"})
               /\ Consumed
      <3>1. Answers(Head(from_broker)) /\ from_broker # <<>>
        BY <2>0, <2>3, AckIsGenuine DEF publish_acked, Arrived
      <3>2. Head(from_broker) = from_broker[1] /\ 1 \in 1..Len(from_broker)
        BY <3>1, HeadIsFirst
      <3>3. \A i \in 1..Len(from_broker') :
              i + 1 \in 1..Len(from_broker) /\ from_broker'[i] = from_broker[i + 1]
        BY <2>3, <3>1, QueueFacts DEF Consumed
      <3>4. ASSUME NEW i \in 1..Len(from_broker'), from_broker'[i].type = "PUBACK"
            PROVE  from_broker'[i].of = NoOne /\ from_broker'[i].id = 0
        <4>1. i + 1 # 1
          OBVIOUS
        <4>2. from_broker[1].type = "PUBACK" /\ from_broker[1].of # NoOne
          BY <2>3, <3>1, <3>2 DEF Arrived, Answers
        <4>3. from_broker[i + 1].of = NoOne
          BY <3>2, <3>3, <3>4, <4>1, <4>2 DEF PubackInv
        <4>4. QED
          BY <3>3, <3>4, <4>3 DEF PubackInv, Answers
      <3>5. QED
        BY <3>4 DEF PubackInv
    <2>4. QED
      BY <1>14, <2>1, <2>2, <2>3 DEF state_recv_ready, ReadsPuback
  <1>15. CASE state_recv_msg
    BY <1>1, <1>15
    DEF state_recv_msg, TakesMessage, ReconnectAnew, Handles, InUse
  <1>16. CASE state_send_pingreq
    <2>1. P("PINGRESP") \in Packet /\ P("PINGRESP").type # "PUBACK"
      BY PacketTyped DEF P, PacketTypes
    <2>2. Moves
      BY <1>16, <2>1 DEF state_send_pingreq, PingTimesOut, SendsPingreq, Answer
    <2>3. QED
      BY <1>1, <1>16, <2>2
      DEF state_send_pingreq, PingTimesOut, SendsPingreq, Handles, InUse
  <1>17. CASE state_send_publish
    <2>1. PICK ok \in BOOLEAN, reached \in BOOLEAN :
            /\ SendsPublish(ok, reached)
            /\ publish_sent(ok)
            /\ task' = IF ok THEN "RECV_READY" ELSE "RECONNECT"
      BY <1>17 DEF state_send_publish, ReconnectAnew
    <2>2. /\ pub_state = "SENDING" /\ pub.owner \in Publishers
          /\ task \in InUse /\ subscribed /\ UNCHANGED subscribed
      BY <1>17
      DEF state_send_publish, Handles, SlotInv, SendsOnlyWhatIsWaitedFor,
          TypeOK, SlotTypeOK, Message, UseInv, InUse
    <2>3. \A packet \in Packet : ~Answers(packet)
      BY <2>2 DEF Answers, publish_awaits_puback
    <2>4. CASE UNCHANGED from_broker
      BY <2>3, <2>4, PubackKept
    <2>5. CASE /\ reached /\ pub.qos = 1
               /\ from_broker' = Append(from_broker,
                    [type |-> "PUBACK", id |-> pub.id, of |-> pub.owner])
      <3> DEFINE puback == [type |-> "PUBACK", id |-> pub.id, of |-> pub.owner]
      <3>1. \A i \in 1..Len(from_broker) : from_broker[i] \in Packet
        OBVIOUS
      <3>2. \A i \in 1..Len(from_broker) :
              from_broker[i].type = "PUBACK" =>
                from_broker[i].of = NoOne /\ from_broker[i].id = 0
        BY <2>3, <3>1 DEF PubackInv
      <3>3. \A i \in 1..Len(from_broker') :
              \/ i = Len(from_broker) + 1 /\ from_broker'[i] = puback
              \/ i \in 1..Len(from_broker) /\ from_broker'[i] = from_broker[i]
        BY <2>5, QueueFacts
      <3>4. pub'.id = pub.id /\ pub'.owner = pub.owner /\ pub.owner \in got'
        BY <2>1, <2>5
        DEF SendsPublish, publish_sent, TypeOK, SlotTypeOK, Message
      <3>5. ok => pub_state' = "AWAITING_PUBACK"
        BY <2>1, <2>5 DEF publish_sent
      <3>6. puback.of # NoOne /\ puback.id = pub.id
        BY <2>2, NoOneAssumption
      <3>7. ASSUME NEW i \in 1..Len(from_broker'), from_broker'[i] = puback
            PROVE  Answers(from_broker[i])'
        BY <2>1, <2>2, <3>4, <3>5, <3>6, <3>7
        DEF Answers, publish_awaits_puback, InUse
      <3>8. QED
        BY <3>2, <3>3, <3>7 DEF PubackInv
    <2>6. QED
      BY <2>1, <2>4, <2>5 DEF SendsPublish, Answer
  <1>18. CASE state_reconnect
    BY <1>4, <1>18 DEF state_reconnect
  <1>19. CASE ConnectionEnds
    BY <1>1, <1>19 DEF ConnectionEnds
  <1>20. ASSUME NEW packet \in UnaskedPackets, BrokerSends(packet)
         PROVE PubackInv'
    <2>1. /\ packet \in Packet
          /\ packet.type = "PUBACK" => packet.of = NoOne /\ packet.id = 0
      BY UnaskedTyped DEF UnaskedPackets, P
    <2>2. QED
      BY <1>1, <1>20, <2>1 DEF BrokerSends
  <1>21. ASSUME NEW p \in Publishers, Publisher(p), UNCHANGED otherVars
         PROVE PubackInv'
    <2>1. ASSUME NEW packet \in Packet, Answers(packet) PROVE Answers(packet)'
      <3> USE DEF Answers, publish_awaits_puback
      <3>1. CASE Call(p) \/ Expire(p)
        BY <1>21, <2>1, <3>1 DEF Call, Expire
      <3>2. CASE Give(p) \/ Collect(p)
        BY <1>21, <2>1, <3>2 DEF Give, Collect
      <3>3. CASE GiveUp(p)
        BY <1>21, <2>1, <3>3
        DEF GiveUp, Return, SlotInv, SlotIsItsCallers, TypeOK, SlotTypeOK, Message
      <3>4. CASE Abandon(p)
        BY <1>21, <2>1, <3>4 DEF Abandon, TypeOK, SlotTypeOK, Message
      <3>5. QED
        BY <1>21, <3>1, <3>2, <3>3, <3>4 DEF Publisher
    <2>2. QED
      BY <1>21, <2>1, PubackKept
  <1>22. CASE UNCHANGED vars
    BY <1>1, <1>22
  <1>23. QED
    BY <1>5, <1>6, <1>7, <1>8, <1>9, <1>10, <1>11, <1>12, <1>13, <1>14, <1>15,
       <1>16, <1>17, <1>18, <1>19, <1>20, <1>21, <1>22
    DEF Next, TaskStep, Handler, Exit, Environment

-----------------------------------------------------------------------------
(* Results.                                                                *)

\* Every step keeps the result of a message that is done true.
LEMMA DoneStep ==
    ASSUME ConnectionInv, HistInv, PubackInv, DoneInv, [Next]_vars PROVE DoneInv'
  <1>0. TypeOK /\ SlotInv
    BY DEF ConnectionInv, Inv
  <1> USE <1>0 DEF DoneInv
  <1>1. CASE UNCHANGED <<pub_state, pub, pub_result, tried, got>>
    BY <1>1
  <1>2. CASE \/ start_task \/ CreateFailed \/ Discontinue \/ init_mqtt_state
             \/ WaitOn \/ CloseConnection \/ ClearRunning \/ Environment
    BY <1>1, <1>2
    DEF start_task, CreateFailed, publish_open, Discontinue, init_mqtt_state,
        WaitOn, CloseConnection, ClearRunning, Environment, Tick,
        ConnectionEnds, EndpointChanges, BrokerSends
  <1>3. CASE PublishClose
    BY <1>3 DEF PublishClose, publish_close
  <1>4. CASE \/ state_install_push \/ state_get_endpoint \/ state_sock_connect
             \/ state_send_connect \/ state_send_subscribe \/ state_recv_suback
             \/ state_recv_msg \/ state_send_pingreq \/ state_reconnect
    BY <1>1, <1>4
    DEF state_install_push, state_get_endpoint, GetEndpointOk, RequestFails,
        state_sock_connect, state_send_connect, BufferTooSmall,
        state_send_subscribe, state_recv_suback, SubackAccepted, state_recv_msg,
        state_send_pingreq, PingTimesOut, SendsPingreq, state_reconnect
  <1>5. CASE state_recv_connack
    BY <1>5
    DEF state_recv_connack, ConnackRefused, ConnackAccepted, ConnackFails,
        publish_reconnected, TypeOK, SlotTypeOK, Message
  <1>6. CASE state_recv_ready
    <2>1. CASE UNCHANGED slotVars
      BY <1>1, <1>6, <2>1 DEF state_recv_ready
    <2>2. CASE publish_take
      BY <2>2 DEF publish_take
    <2>3. CASE publish_acked(Head(from_broker).id) /\ Arrived({"PUBACK"})
      <3>1. task \in InUse
        BY <1>6 DEF state_recv_ready, Handles, InUse
      <3>2. Answers(Head(from_broker))
        BY <2>3, <3>1, AckIsGenuine DEF publish_acked
      <3>3. QED
        BY <1>6, <2>3, <3>1, <3>2
        DEF state_recv_ready, publish_acked, publish_awaits_puback, Answers, HistInv
    <2>4. QED
      BY <1>6, <2>1, <2>2, <2>3 DEF state_recv_ready, ReadsPuback
  <1>7. CASE state_send_publish
    <2>1. PICK ok \in BOOLEAN, reached \in BOOLEAN :
            SendsPublish(ok, reached) /\ publish_sent(ok)
      BY <1>7 DEF state_send_publish
    <2>2. QED
      BY <2>1 DEF SendsPublish, publish_sent, TypeOK, SlotTypeOK, Message
  <1>8. ASSUME NEW p \in Publishers, Publisher(p), UNCHANGED otherVars
        PROVE DoneInv'
    <2>1. CASE Call(p) \/ Expire(p)
      BY <2>1 DEF Call, Expire
    <2>2. CASE Give(p) \/ Collect(p) \/ Abandon(p)
      BY <2>2 DEF Give, Collect, Abandon
    <2>3. CASE GiveUp(p)
      BY <2>3 DEF GiveUp, Return, SlotInv, SlotIsItsCallers
    <2>4. QED
      BY <1>8, <2>1, <2>2, <2>3 DEF Publisher
  <1>9. CASE UNCHANGED vars
    BY <1>1, <1>9
  <1>10. QED
    BY <1>2, <1>3, <1>4, <1>5, <1>6, <1>7, <1>8, <1>9
    DEF Next, TaskStep, Handler, Exit

\* The inductive invariant of publishing.
PublishInv == ConnectionInv /\ HistInv /\ PubackInv /\ DoneInv

\* The parts of PublishInv hold before the first call.
LEMMA PublishInit == Init => PublishInv
  BY ConnectionInit
  DEF PublishInv, Init, SlotInit, NoMessage, HistInv, PubackInv, DoneInv,
      publish_awaits_puback

\* Every step keeps PublishInv.
LEMMA PublishStep == PublishInv /\ [Next]_vars => PublishInv'
  BY ConnectionStep, HistStep, PubackStep, DoneStep DEF PublishInv

\* The inductive invariant of publishing holds throughout.
THEOREM PublishInvariance == Spec => []PublishInv
  BY PublishInit, PublishStep, PTL DEF Spec

\* A message goes out at most once on each connection.
THEOREM OnceCorrect == Spec => []OncePerConnection
  <1>1. PublishInv => OncePerConnection
    BY DEF PublishInv, ConnectionInv, Inv, SlotInv, SendsOnlyWhatIsWaitedFor,
       HistInv, OncePerConnection, InUse
  <1>2. QED
    BY <1>1, PublishInvariance, PTL

\* DUP is set on the attempts after the first, and only there.
THEOREM DupCorrect == Spec => []DupOnResendOnly
  <1>1. PublishInv => DupOnResendOnly
    BY DEF PublishInv, ConnectionInv, Inv, SlotInv, SendsOnlyWhatIsWaitedFor,
       HistInv, DupOnResendOnly
  <1>2. QED
    BY <1>1, PublishInvariance, PTL

\* The PUBACK of a message never ends the connection it comes on.
THEOREM PubackCorrect == Spec => []PubackIsExpected
  <1>1. PublishInv => PubackIsExpected
    BY DEF PublishInv, ConnectionInv, Inv, TypeOK, DataTypeOK, PubackInv,
       Answers, PubackIsExpected, InUse
  <1>2. QED
    BY <1>1, PublishInvariance, PTL

\* What is published is published as MQTT has it.
THEOREM MqttCorrect == Spec => []PublishIsMqtt
  BY SendCorrect, OnceCorrect, DupCorrect, PubackCorrect, PTL DEF PublishIsMqtt

-----------------------------------------------------------------------------
(* Steps of the task return to no caller.                                  *)

\* A step that isn't a caller's returns from no call of kii_mqtt_publish().
LEMMA TaskReturnsToNoCaller ==
    ASSUME PublishInv, [Next]_vars
    PROVE  \/ UNCHANGED <<call, qos, ret, got>>
           \/ /\ UNCHANGED <<call, qos, ret>>
              /\ pub.owner \in Publishers /\ call[pub.owner] = "waiting"
              /\ got' = got \cup {pub.owner}
           \/ \E p \in Publishers : Publisher(p)
  <1>1. CASE state_send_publish
    BY <1>1
    DEF state_send_publish, SendsPublish, Handles, PublishInv, ConnectionInv,
        Inv, SlotInv, SendsOnlyWhatIsWaitedFor, TypeOK, SlotTypeOK, Message
  <1>2. CASE Handler /\ ~state_send_publish
    BY <1>2
    DEF Handler, state_install_push, state_get_endpoint, GetEndpointOk,
        RequestFails, state_sock_connect, state_send_connect, BufferTooSmall,
        state_recv_connack, ConnackRefused, ConnackAccepted, ConnackFails,
        state_send_subscribe, state_recv_suback, SubackAccepted,
        state_recv_ready, state_recv_msg, state_send_pingreq, PingTimesOut,
        SendsPingreq, state_reconnect
  <1>3. CASE \/ start_task \/ CreateFailed \/ Discontinue \/ init_mqtt_state
             \/ WaitOn \/ Exit \/ Environment \/ UNCHANGED vars
    BY <1>3
    DEF start_task, CreateFailed, Discontinue, init_mqtt_state, WaitOn, Exit,
        CloseConnection, PublishClose, ClearRunning, Environment, Tick,
        ConnectionEnds, EndpointChanges, BrokerSends
  <1>4. QED
    BY <1>1, <1>2, <1>3 DEF Next, TaskStep

\* What a call returns says what became of its message.
THEOREM ResultsCorrect == Spec => ResultsAreTrue
  <1> DEFINE Told ==
        \A p \in Publishers : call[p] # "idle" /\ call'[p] = "idle" =>
            /\ ret' = "OK" => p \in (IF qos[p] = 1 THEN got ELSE tried)
            /\ ret' = "SOCK_SEND" => qos[p] = 0 /\ p \in tried
            /\ call[p] = "giving" => p \notin tried
  <1>1. ASSUME PublishInv, [Next]_vars PROVE [Told]_vars
    <2>0. SlotTypeOK /\ SlotInv /\ HistInv /\ DoneInv
      BY <1>1 DEF PublishInv, ConnectionInv, Inv, TypeOK
    <2>1. CASE UNCHANGED call
      BY <2>1
    <2>2. ASSUME NEW p \in Publishers, Publisher(p) PROVE Told
      <3> USE <2>0
          DEF SlotTypeOK, SlotInv, SlotIsItsCallers, HistInv, DoneInv, Results
      <3>1. CASE Call(p) \/ Give(p) \/ Expire(p)
        BY <3>1 DEF Call, Give, Expire
      <3>2. CASE GiveUp(p)
        BY <3>2 DEF GiveUp, Return
      <3>3. CASE Collect(p)
        BY <3>3 DEF Collect, Return
      <3>4. CASE Abandon(p)
        BY <3>4 DEF Abandon, Return
      <3>5. QED
        BY <2>2, <3>1, <3>2, <3>3, <3>4 DEF Publisher
    <2>3. QED
      BY <1>1, <2>1, <2>2, TaskReturnsToNoCaller
  <1>2. QED
    BY <1>1, PublishInvariance, PTL DEF Spec, ResultsAreTrue

\* MqttTask implements PublishContract.
THEOREM ContractCorrect == Spec => KeepsContract
  <1>1. Init => Contract!ContractInit
    BY DEF Init, SlotInit, Contract!ContractInit
  <1>2. ASSUME PublishInv, [Next]_vars
        PROVE  [Contract!ContractNext]_(Contract!contractVars)
    <2> USE DEF Contract!contractVars, Contract!ContractNext
    <2>0. SlotTypeOK /\ SlotInv /\ HistInv /\ DoneInv
      BY <1>2 DEF PublishInv, ConnectionInv, Inv, TypeOK
    <2>1. CASE UNCHANGED <<call, qos, ret, got>>
      BY <2>1
    <2>2. CASE /\ UNCHANGED <<call, qos, ret>>
               /\ pub.owner \in Publishers /\ call[pub.owner] = "waiting"
               /\ got' = got \cup {pub.owner}
      BY <2>2 DEF Contract!ReachBroker
    <2>3. ASSUME NEW p \in Publishers, Publisher(p)
          PROVE  [Contract!ContractNext]_(Contract!contractVars)
      <3> USE <2>0
          DEF SlotTypeOK, SlotInv, SlotIsItsCallers, HistInv, DoneInv, Results
      <3>1. CASE Call(p)
        BY <3>1 DEF Call, Contract!Begin
      <3>2. CASE Give(p)
        BY <3>2, NoOneAssumption, ZenonT(30) DEF Give, Contract!TakeUp
      <3>3. CASE GiveUp(p)
        BY <3>3 DEF GiveUp, Return, Contract!End, Contract!MayReturn
      <3>4. CASE Collect(p)
        BY <3>4 DEF Collect, Return, Contract!End, Contract!MayReturn
      <3>5. CASE Abandon(p)
        BY <3>5 DEF Abandon, Return, Contract!End, Contract!MayReturn
      <3>6. CASE Expire(p)
        BY <3>6 DEF Expire
      <3>7. QED
        BY <2>3, <3>1, <3>2, <3>3, <3>4, <3>5, <3>6 DEF Publisher
    <2>4. QED
      BY <1>2, <2>1, <2>2, <2>3, TaskReturnsToNoCaller
  <1>3. QED
    BY <1>1, <1>2, PublishInvariance, PTL
    DEF Spec, KeepsContract, Contract!ContractSpec

=============================================================================
