----------------------------- MODULE MqttTask ------------------------------
(***************************************************************************)
(* The MQTT task of the Kii SDK (kii_mqtt_task.c) with the threads that    *)
(* publish through it (PublishSlot), the socket it owns and the broker at  *)
(* the other end.  One action is one turn of the loop of mqtt_start_task():*)
(* the continue callback, then a turn of the wait that is left or the      *)
(* handler of the state.                                                   *)
(*                                                                         *)
(* Abstracted: the bytes of packets (Packet), the HTTP requests behind     *)
(* INSTALL_PUSH and GET_ENDPOINT (their three kinds of outcome), the time  *)
(* the keep-alive counts (ping_due: it is above the threshold) and the     *)
(* hash that spreads the retries (any share of the wait).                  *)
(***************************************************************************)
EXTENDS PublishSlot, Sequences

CONSTANTS
    EndpointGiven,       \* the application gave the endpoint
    KeepAlive,           \* the keep-alive interval isn't 0
    BufferMayNotFit,     \* the MQTT buffer may be too small for a packet
    EndpointFails,       \* what may become of the endpoint: moved, revoked
    StopStates,          \* states at which the continue callback may say no
    RetryMin, RetryMax,  \* RETRY_WAIT_MIN_MS, and the longest wait
    WaitTurn,            \* WAIT_MS, the most the loop waits in one turn
    MaxConnectFailures,  \* MAX_CONNECT_FAILURES
    Inbound,             \* messages the broker has for the task, at QoS 1
    TooLarge,            \* those of them that don't fit the buffer
    MaxInFlight          \* bound: packets on their way before one unasked for

HandlerStates ==
    {"INSTALL_PUSH", "GET_ENDPOINT", "SOCK_CONNECT", "SEND_CONNECT",
     "RECV_CONNACK", "SEND_SUBSCRIBE", "RECV_SUBACK", "RECV_READY", "RECV_MSG",
     "SEND_PINGREQ", "SEND_PUBLISH", "RECONNECT"}

TaskStates == HandlerStates \cup {"NONE", "CREATED", "ERR_EXIT", "DISCONTINUED"}

ASSUME ConfigAssumption ==
    /\ EndpointGiven \in BOOLEAN
    /\ KeepAlive \in BOOLEAN
    /\ BufferMayNotFit \in BOOLEAN
    /\ EndpointFails \subseteq {"moved", "revoked"}
    /\ StopStates \subseteq HandlerStates
ASSUME RetryAssumption ==
    /\ RetryMin \in Nat \ {0}
    /\ RetryMax \in Nat \ {0}
    /\ WaitTurn \in Nat \ {0}
    /\ MaxConnectFailures \in Nat \ {0}
ASSUME InboundAssumption ==
    /\ TooLarge \subseteq Inbound
    /\ NoOne \notin Inbound
    /\ MaxInFlight \in Nat

VARIABLES
    running,            \* _push_task_running
    exiting,            \* what is left of the way out of mqtt_start_task()
    task,               \* info.task_state, or NONE without a task
    sock_connected, mqtt_connected,
    pingresp_received, awaiting_suback,
    header,             \* the PUBLISH whose fixed header was read last
    retry_wait, wait_left, connect_failures,
    ping_due,           \* the elapsed time is above the threshold
    endpoint,           \* whether the endpoint the task has still serves
    sock,               \* the socket and the connection behind it
    from_broker,        \* packets sent by the broker and not yet read
    accepted,           \* the broker accepted CONNECT on this connection
    owed,               \* messages the broker has no PUBACK for
    delivered,          \* history: messages the message callback was given
    subscribed,         \* history: SUBACK was read on this connection
    pinged,             \* history: PINGREQ was sent on this connection
    refused,            \* history: CONNACK refused the credentials in use
    rested              \* history: it waited since the last connect

taskVars == <<running, exiting, task>>
flagVars == <<sock_connected, mqtt_connected, pingresp_received,
              awaiting_suback, header>>
retryVars == <<retry_wait, wait_left, connect_failures, rested>>
connVars == <<sock, from_broker, accepted, subscribed, pinged>>
inboundVars == <<owed, delivered>>
endpointVars == <<endpoint, refused>>
vars == <<publishVars, taskVars, flagVars, retryVars, ping_due, connVars,
          inboundVars, endpointVars>>

PacketTypes ==
    {"CONNACK_OK", "CONNACK_REFUSED", "CONNACK_ERROR", "SUBACK_OK",
     "SUBACK_FAIL", "PUBLISH", "PUBLISH_BAD", "PINGRESP", "PUBACK", "JUNK"}

\* A PUBACK has its identifier and whose message it is for, a PUBLISH at QoS 1
\* the message, one at QoS 0 no one.  PUBLISH_BAD: malformed, at QoS 2 or 3, or
\* with DUP at QoS 0.  JUNK: any other packet MQTT doesn't allow there.
Packet ==
    [type : PacketTypes \ {"PUBACK"}, id : {0}, of : Inbound \cup {NoOne}]
        \cup [type : {"PUBACK"}, id : 0..MaxId, of : Publishers \cup {NoOne}]

P(type) == [type |-> type, id |-> 0, of |-> NoOne]

FlagTypeOK ==
    /\ running \in BOOLEAN
    /\ sock_connected \in BOOLEAN
    /\ mqtt_connected \in BOOLEAN
    /\ pingresp_received \in BOOLEAN
    /\ awaiting_suback \in BOOLEAN
    /\ rested \in BOOLEAN
    /\ ping_due \in BOOLEAN
    /\ refused \in BOOLEAN
    /\ accepted \in BOOLEAN
    /\ subscribed \in BOOLEAN
    /\ pinged \in BOOLEAN

DataTypeOK ==
    /\ exiting \in {"no", "publish_close", "clear_running"}
    /\ task \in TaskStates
    /\ header \in Packet
    /\ retry_wait \in Nat
    /\ wait_left \in Nat
    /\ connect_failures \in 0..(MaxConnectFailures - 1)
    /\ endpoint \in {"good", "moved", "revoked"}
    /\ sock \in {"closed", "up", "eof", "broken"}
    /\ from_broker \in Seq(Packet)
    /\ owed \in SUBSET Inbound
    /\ delivered \in SUBSET Inbound

\* The variables of kii_mqtt_task.c, of the socket and of the broker keep to their
\* values; connect_failures stays below the limit and last_id within 16 bits.
TypeOK == SlotTypeOK /\ FlagTypeOK /\ DataTypeOK

Init ==
    /\ SlotInit
    /\ running = FALSE
    /\ exiting = "no"
    /\ task = "NONE"
    /\ sock_connected = FALSE
    /\ mqtt_connected = FALSE
    /\ pingresp_received = TRUE
    /\ awaiting_suback = FALSE
    /\ header = P("PUBLISH")
    /\ retry_wait = RetryMin
    /\ wait_left = 0
    /\ connect_failures = 0
    /\ rested = TRUE
    /\ ping_due = FALSE
    /\ endpoint = "good"
    /\ refused = FALSE
    /\ sock = "closed"
    /\ from_broker = <<>>
    /\ accepted = FALSE
    /\ subscribed = FALSE
    /\ pinged = FALSE
    /\ owed = Inbound
    /\ delivered = {}

-----------------------------------------------------------------------------
(* The socket and the broker, as the task uses them.                       *)

\* The outcomes of sending: whether the socket says it was sent, and whether it
\* reached the broker.  A send that fails may still have reached it.
Sends(ok, reached) ==
    /\ reached => sock = "up"
    /\ (ok /\ sock = "up") => reached

\* What the broker answers goes on its way to the task.
Answer(reached, packet) ==
    from_broker' = IF reached THEN Append(from_broker, packet) ELSE from_broker

\* A packet of one of the types is the next to be read.
Arrived(types) == from_broker # <<>> /\ Head(from_broker).type \in types

Consumed == from_broker' = Tail(from_broker)

CloseSocket ==
    /\ sock' = "closed"
    /\ from_broker' = <<>>
    /\ accepted' = FALSE
    /\ subscribed' = FALSE
    /\ pinged' = FALSE
    /\ carried' = {}

-----------------------------------------------------------------------------
(* Starting the task, and the way out of it.                               *)

start_task ==
    /\ ~running
    /\ task = "NONE"
    /\ running' = TRUE
    /\ task' = "CREATED"
    /\ publish_open(TRUE)
    /\ UNCHANGED <<callVars, histVars, exiting, flagVars, retryVars, ping_due,
                   connVars, inboundVars, endpointVars>>

\* task_create succeeds: the task runs _init_mqtt_state().  With an endpoint
\* given, or one from onboarding, it has nothing to install.
init_mqtt_state ==
    /\ task = "CREATED"
    /\ \/ task' = "SOCK_CONNECT" /\ endpoint' \in {"good"} \cup EndpointFails
       \/ ~EndpointGiven /\ task' = "INSTALL_PUSH" /\ UNCHANGED endpoint
    /\ refused' = FALSE
    /\ ping_due' = FALSE
    /\ header' = P("PUBLISH")
    /\ awaiting_suback' = FALSE
    /\ pingresp_received' = TRUE
    /\ sock_connected' = FALSE
    /\ mqtt_connected' = FALSE
    /\ retry_wait' = RetryMin
    /\ wait_left' = 0
    /\ connect_failures' = 0
    /\ rested' = TRUE
    /\ UNCHANGED <<publishVars, running, exiting, connVars, inboundVars>>

\* task_create fails.
CreateFailed ==
    /\ task = "CREATED"
    /\ task' = "NONE"
    /\ exiting' = "clear_running"
    /\ publish_open(FALSE)
    /\ UNCHANGED <<callVars, histVars, running, flagVars, retryVars, ping_due,
                   connVars, inboundVars, endpointVars>>

\* The loop is left: DISCONNECT, if the broker accepted the connection, and
\* close.
CloseConnection ==
    /\ task \in {"ERR_EXIT", "DISCONTINUED"}
    /\ task' = "NONE"
    /\ exiting' = "publish_close"
    /\ IF sock_connected
       THEN CloseSocket
       ELSE UNCHANGED <<connVars, carried>>
    /\ sock_connected' = FALSE
    /\ mqtt_connected' = (mqtt_connected /\ ~sock_connected)
    /\ UNCHANGED <<slotVars, callVars, tried, got, running, pingresp_received,
                   awaiting_suback, header, retryVars, ping_due, inboundVars,
                   endpointVars>>

PublishClose ==
    /\ exiting = "publish_close"
    /\ exiting' = "clear_running"
    /\ publish_close
    /\ UNCHANGED <<callVars, histVars, running, task, flagVars, retryVars,
                   ping_due, connVars, inboundVars, endpointVars>>

\* The exit callback, which may start the task again, runs after this.
ClearRunning ==
    /\ exiting = "clear_running"
    /\ exiting' = "no"
    /\ running' = FALSE
    /\ UNCHANGED <<publishVars, task, flagVars, retryVars, ping_due, connVars,
                   inboundVars, endpointVars>>

-----------------------------------------------------------------------------
(* The loop of mqtt_start_task(), up to the handler.                       *)

\* The continue callback says no.
Discontinue ==
    /\ task \in StopStates
    /\ task' = "DISCONTINUED"
    /\ UNCHANGED <<publishVars, running, exiting, flagVars, retryVars, ping_due,
                   connVars, inboundVars, endpointVars>>

\* It says yes, and a turn of the wait goes by.
WaitOn ==
    /\ task \in HandlerStates
    /\ wait_left > 0
    /\ wait_left' = IF wait_left < WaitTurn THEN 0 ELSE wait_left - WaitTurn
    /\ rested' = TRUE
    /\ UNCHANGED <<publishVars, taskVars, flagVars, retry_wait, connect_failures,
                   ping_due, connVars, inboundVars, endpointVars>>

\* It says yes, and the handler of state s runs.
Handles(s) == task = s /\ wait_left = 0 /\ UNCHANGED <<running, exiting>>

schedule_retry ==
    LET wait == IF retry_wait < RetryMax THEN retry_wait ELSE RetryMax IN
    /\ \E share \in 0..(wait \div 2) : wait_left' = wait \div 2 + share
    /\ retry_wait' = IF wait > RetryMax \div 2 THEN RetryMax ELSE 2 * wait

\* _refuse_packet(), and every other failure that starts the elapsed time again
\* and reconnects.
ReconnectAnew == task' = "RECONNECT" /\ ping_due' = FALSE

-----------------------------------------------------------------------------
(* Getting an endpoint and connecting to it.                               *)

\* A request to Kii Cloud fails: for now, or for good.
RequestFails ==
    /\ \/ task' = task /\ schedule_retry
       \/ task' = "ERR_EXIT" /\ UNCHANGED <<retry_wait, wait_left>>
    /\ UNCHANGED <<publishVars, flagVars, connect_failures, rested, ping_due,
                   connVars, inboundVars, endpointVars>>

state_install_push ==
    /\ Handles("INSTALL_PUSH")
    /\ \/ RequestFails
       \/ /\ task' = "GET_ENDPOINT"
          /\ UNCHANGED <<publishVars, flagVars, retryVars, ping_due, connVars,
                         inboundVars, endpointVars>>

GetEndpointOk ==
    /\ Handles("GET_ENDPOINT")
    /\ task' = "SOCK_CONNECT"
    /\ endpoint' = "good"
    /\ refused' = FALSE
    /\ UNCHANGED <<publishVars, flagVars, retryVars, ping_due, connVars,
                   inboundVars>>

state_get_endpoint == GetEndpointOk \/ (Handles("GET_ENDPOINT") /\ RequestFails)

SockConnectOk ==
    /\ endpoint # "moved"
    /\ task' = "SEND_CONNECT"
    /\ sock' = "up"
    /\ sock_connected' = TRUE
    /\ connect_failures' = 0
    /\ UNCHANGED <<retry_wait, wait_left>>

\* Mutant: the next attempt follows at once.
SockConnectFailsNoWait ==
    LET again == connect_failures + 1 >= MaxConnectFailures IN
    /\ connect_failures' = IF again THEN 0 ELSE connect_failures + 1
    /\ task' = IF again /\ ~EndpointGiven THEN "GET_ENDPOINT" ELSE task
    /\ UNCHANGED <<sock, sock_connected, retry_wait, wait_left>>

\* Mutant: the failures aren't counted.
SockConnectFailsUncounted ==
    /\ schedule_retry
    /\ UNCHANGED <<task, connect_failures, sock, sock_connected>>

SockConnectFails ==
    LET again == connect_failures + 1 >= MaxConnectFailures IN
    /\ schedule_retry
    /\ connect_failures' = IF again THEN 0 ELSE connect_failures + 1
    /\ task' = IF again /\ ~EndpointGiven THEN "GET_ENDPOINT" ELSE task
    /\ UNCHANGED <<sock, sock_connected>>

state_sock_connect ==
    /\ Handles("SOCK_CONNECT")
    /\ SockConnectOk \/ SockConnectFails
    /\ rested' = FALSE
    /\ UNCHANGED <<publishVars, mqtt_connected, pingresp_received,
                   awaiting_suback, header, ping_due, from_broker, accepted,
                   subscribed, pinged, inboundVars, endpointVars>>

\* The check of the buffer's size that CONNECT and SUBSCRIBE start with.
BufferTooSmall ==
    /\ BufferMayNotFit
    /\ task' = "ERR_EXIT"
    /\ UNCHANGED <<publishVars, flagVars, retryVars, ping_due, connVars,
                   inboundVars, endpointVars>>

\* The broker answers CONNECT by the credentials it came with.
SendsConnect(ok, reached) ==
    /\ Sends(ok, reached)
    /\ \E type \in (IF endpoint = "revoked" THEN {"CONNACK_REFUSED"}
                   ELSE {"CONNACK_OK", "CONNACK_ERROR"}) :
          /\ Answer(reached, P(type))
          /\ accepted' = (reached /\ type = "CONNACK_OK")
    /\ task' = IF ok THEN "RECV_CONNACK" ELSE "RECONNECT"
    /\ ping_due' = (ping_due /\ ~ok)

state_send_connect ==
    /\ Handles("SEND_CONNECT")
    /\ \/ BufferTooSmall
       \/ /\ \E ok, reached \in BOOLEAN : SendsConnect(ok, reached)
          /\ UNCHANGED <<publishVars, flagVars, retryVars, sock, subscribed,
                         pinged, inboundVars, endpointVars>>

\* CONNACK refuses the credentials: new ones from Kii Cloud, or from the
\* application if the endpoint is its own, which ends the task if it has none.
ConnackRefused ==
    /\ Arrived({"CONNACK_REFUSED"})
    /\ CloseSocket
    /\ sock_connected' = FALSE
    /\ \/ /\ ~EndpointGiven
          /\ schedule_retry
          /\ task' = "GET_ENDPOINT"
          /\ refused' = TRUE
          /\ UNCHANGED endpoint
       \/ /\ EndpointGiven
          /\ schedule_retry
          /\ task' = "SOCK_CONNECT"
          /\ refused' = FALSE
          /\ endpoint' \in {"good"} \cup EndpointFails
       \/ /\ EndpointGiven
          /\ task' = "ERR_EXIT"
          /\ refused' = TRUE
          /\ UNCHANGED <<retry_wait, wait_left, endpoint>>
    /\ UNCHANGED <<slotVars, tried, got, mqtt_connected, pingresp_received, ping_due>>

\* CONNACK accepts: the last connection's PINGREQ no longer counts, and a
\* message it left unacknowledged is sent again.
ConnackAccepted ==
    /\ Arrived({"CONNACK_OK"})
    /\ Consumed
    /\ pingresp_received' = TRUE
    /\ mqtt_connected' = TRUE
    /\ publish_reconnected
    /\ task' = "SEND_SUBSCRIBE"
    /\ UNCHANGED <<histVars, sock_connected, retry_wait, wait_left, ping_due,
                   sock, accepted, subscribed, pinged, endpointVars>>

\* The receive fails, or brings anything else.
ConnackFails ==
    /\ task' = "RECONNECT"
    /\ \/ ping_due' = ping_due
       \/ ping_due' = FALSE
    /\ UNCHANGED <<publishVars, sock_connected, mqtt_connected,
                   pingresp_received, retry_wait, wait_left, connVars,
                   endpointVars>>

state_recv_connack ==
    /\ Handles("RECV_CONNACK")
    /\ ConnackRefused \/ ConnackAccepted \/ ConnackFails
    /\ UNCHANGED <<callVars, awaiting_suback, header, connect_failures, rested,
                   inboundVars>>

state_send_subscribe ==
    /\ Handles("SEND_SUBSCRIBE")
    /\ \/ BufferTooSmall
       \/ /\ \E ok, reached \in BOOLEAN :
             /\ Sends(ok, reached)
             /\ \E type \in {"SUBACK_OK", "SUBACK_FAIL"} : Answer(reached, P(type))
             /\ task' = IF ok THEN "RECV_SUBACK" ELSE "RECONNECT"
          /\ UNCHANGED <<publishVars, flagVars, retryVars, ping_due, sock,
                         accepted, subscribed, pinged, inboundVars,
                         endpointVars>>

\* Reads the fixed header of a PUBLISH; RECV_MSG reads the rest.
ReadsHeader ==
    /\ Arrived({"PUBLISH", "PUBLISH_BAD"})
    /\ Consumed
    /\ header' = Head(from_broker)
    /\ task' = "RECV_MSG"

SubackAccepted ==
    /\ Arrived({"SUBACK_OK"})
    /\ Consumed
    /\ awaiting_suback' = FALSE
    /\ retry_wait' = RetryMin
    /\ subscribed' = TRUE
    /\ task' = "RECV_READY"
    /\ UNCHANGED header

state_recv_suback ==
    /\ Handles("RECV_SUBACK")
    /\ \/ /\ ReadsHeader
          /\ awaiting_suback' = TRUE
          /\ UNCHANGED <<retry_wait, subscribed>>
       \/ SubackAccepted
       \/ \* The receive fails, or brings anything else.
          /\ awaiting_suback' = FALSE
          /\ task' = "RECONNECT"
          /\ UNCHANGED <<retry_wait, subscribed, from_broker, header>>
    /\ UNCHANGED <<publishVars, sock_connected, mqtt_connected,
                   pingresp_received, wait_left, connect_failures, rested,
                   ping_due, sock, accepted, pinged, inboundVars, endpointVars>>

-----------------------------------------------------------------------------
(* The connection in use.                                                  *)

\* PUBACK of the message the task sent, or of none: _publish_awaits_puback(),
\* then _publish_acked() with the identifier read.
ReadsPuback ==
    LET id == Head(from_broker).id IN
    /\ Arrived({"PUBACK"})
    /\ \/ publish_acked(id) /\ Consumed /\ UNCHANGED <<task, ping_due>>
       \/ /\ ~(publish_awaits_puback /\ pub.id = id)
          /\ ReconnectAnew
          /\ UNCHANGED <<slotVars, from_broker>>

state_recv_ready ==
    /\ Handles("RECV_READY")
    /\ \/ /\ ping_due
          /\ task' = "SEND_PINGREQ"
          /\ UNCHANGED <<slotVars, from_broker, header, pingresp_received,
                         ping_due>>
       \/ /\ ~ping_due
          /\ publish_take
          /\ task' = "SEND_PUBLISH"
          /\ UNCHANGED <<from_broker, header, pingresp_received, ping_due>>
       \/ /\ ~ping_due /\ pub_state # "QUEUED"
          /\ \/ ReadsHeader /\ UNCHANGED <<slotVars, pingresp_received, ping_due>>
             \/ /\ Arrived({"PINGRESP"})
                /\ Consumed
                /\ pingresp_received' = TRUE
                /\ UNCHANGED <<slotVars, task, header, ping_due>>
             \/ ReadsPuback /\ UNCHANGED <<header, pingresp_received>>
             \/ \* Closed by the broker, lost, cut short or not allowed here.
                /\ sock = "eof" \/ from_broker # <<>>
                /\ ReconnectAnew
                /\ UNCHANGED <<slotVars, from_broker, header, pingresp_received>>
             \/ \* The receive times out, with no packet begun to arrive.
                /\ ~(sock = "eof" /\ from_broker = <<>>)
                /\ UNCHANGED <<slotVars, task, from_broker, header,
                               pingresp_received, ping_due>>
    /\ UNCHANGED <<callVars, histVars, sock_connected, mqtt_connected,
                   awaiting_suback, retryVars, sock, accepted, subscribed,
                   pinged, inboundVars, endpointVars>>

\* PUBACK, once the callback has returned: owed no more if it reaches the broker.
AcknowledgesHeader(ok) ==
    IF header.of = NoOne
    THEN ok /\ UNCHANGED owed
    ELSE \E reached \in BOOLEAN :
           /\ Sends(ok, reached)
           /\ owed' = IF reached THEN owed \ {header.of} ELSE owed

\* Mutant: PUBACK goes out before the message callback is called.
TakesMessageAckFirst ==
    /\ header.type = "PUBLISH"
    /\ \E ok \in BOOLEAN :
         /\ AcknowledgesHeader(ok)
         /\ delivered' = IF ok
                         THEN delivered \cup ({header.of} \ (TooLarge \cup {NoOne}))
                         ELSE delivered
         /\ IF ok
            THEN /\ task' = IF awaiting_suback THEN "RECV_SUBACK" ELSE "RECV_READY"
                 /\ UNCHANGED ping_due
            ELSE ReconnectAnew

\* The rest of the message is read and the message callback called, unless it is
\* too large, when it is dropped but acknowledged all the same.
TakesMessage ==
    /\ header.type = "PUBLISH"
    /\ delivered' = delivered \cup ({header.of} \ (TooLarge \cup {NoOne}))
    /\ \E ok \in BOOLEAN :
         /\ AcknowledgesHeader(ok)
         /\ IF ok
            THEN /\ task' = IF awaiting_suback THEN "RECV_SUBACK" ELSE "RECV_READY"
                 /\ UNCHANGED ping_due
            ELSE ReconnectAnew

state_recv_msg ==
    /\ Handles("RECV_MSG")
    /\ \/ TakesMessage
       \/ \* A message MQTT doesn't allow, or a receive that fails.
          /\ ReconnectAnew
          /\ UNCHANGED <<owed, delivered>>
    /\ UNCHANGED <<publishVars, flagVars, retryVars, connVars, endpointVars>>

PingTimesOut ==
    /\ ~pingresp_received
    /\ ReconnectAnew
    /\ UNCHANGED <<pingresp_received, from_broker, pinged>>

\* Mutant: PINGREQ is sent whether or not the last one was answered.
SendsPingreqUnanswered ==
    /\ \E ok, reached \in BOOLEAN :
         /\ Sends(ok, reached)
         /\ Answer(reached, P("PINGRESP"))
         /\ pingresp_received' = ~ok
         /\ task' = IF ok THEN "RECV_READY" ELSE "RECONNECT"
    /\ pinged' = TRUE
    /\ ping_due' = FALSE

SendsPingreq ==
    /\ pingresp_received
    /\ \E ok, reached \in BOOLEAN :
         /\ Sends(ok, reached)
         /\ Answer(reached, P("PINGRESP"))
         /\ pingresp_received' = ~ok
         /\ task' = IF ok THEN "RECV_READY" ELSE "RECONNECT"
    /\ pinged' = TRUE
    /\ ping_due' = FALSE

state_send_pingreq ==
    /\ Handles("SEND_PINGREQ")
    /\ PingTimesOut \/ SendsPingreq
    /\ UNCHANGED <<publishVars, sock_connected, mqtt_connected, awaiting_suback,
                   header, retryVars, sock, accepted, subscribed, inboundVars,
                   endpointVars>>

\* The broker acknowledges a message at QoS 1 that reached it, or never does.
SendsPublish(ok, reached) ==
    /\ Sends(ok, reached)
    /\ \E acks \in BOOLEAN :
         Answer(reached /\ pub.qos = 1 /\ acks,
                [type |-> "PUBACK", id |-> pub.id, of |-> pub.owner])
    /\ got' = IF reached THEN got \cup {pub.owner} ELSE got
    /\ tried' = tried \cup {pub.owner}
    /\ carried' = carried \cup {pub.owner}

state_send_publish ==
    /\ Handles("SEND_PUBLISH")
    /\ \E ok, reached \in BOOLEAN :
         /\ SendsPublish(ok, reached)
         /\ publish_sent(ok)
         /\ IF ok
            THEN task' = "RECV_READY" /\ UNCHANGED ping_due
            ELSE ReconnectAnew
    /\ UNCHANGED <<callVars, flagVars, retryVars, sock, accepted, subscribed,
                   pinged, inboundVars, endpointVars>>

\* Mutant: the new socket passes for a connection the broker accepted.
state_reconnect_connected ==
    /\ Handles("RECONNECT")
    /\ CloseSocket
    /\ sock_connected' = FALSE
    /\ schedule_retry
    /\ task' = "SOCK_CONNECT"
    /\ UNCHANGED <<slotVars, callVars, tried, got, mqtt_connected,
                   pingresp_received, awaiting_suback, header, connect_failures,
                   rested, ping_due, inboundVars, endpointVars>>

state_reconnect ==
    /\ Handles("RECONNECT")
    /\ CloseSocket
    /\ sock_connected' = FALSE
    /\ mqtt_connected' = FALSE
    /\ schedule_retry
    /\ task' = "SOCK_CONNECT"
    /\ UNCHANGED <<slotVars, callVars, tried, got, pingresp_received,
                   awaiting_suback, header, connect_failures, rested, ping_due,
                   inboundVars, endpointVars>>

Handler ==
    \/ state_install_push \/ state_get_endpoint \/ state_sock_connect
    \/ state_send_connect \/ state_recv_connack \/ state_send_subscribe
    \/ state_recv_suback \/ state_recv_ready \/ state_recv_msg
    \/ state_send_pingreq \/ state_send_publish \/ state_reconnect

-----------------------------------------------------------------------------
(* What happens around the task.                                           *)

\* The time the keep-alive counts passes the threshold.
Tick ==
    /\ KeepAlive /\ sock_connected /\ ~ping_due
    /\ ping_due' = TRUE
    /\ UNCHANGED <<publishVars, taskVars, flagVars, retryVars, connVars,
                   inboundVars, endpointVars>>

\* The broker sends something the task didn't ask for: a message, also before
\* SUBACK and again if it has no PUBACK for it, or a packet MQTT doesn't allow,
\* a PUBACK with an identifier the task never gives among them.
BrokerSends(packet) ==
    /\ sock = "up"
    /\ Len(from_broker) < MaxInFlight
    /\ packet.type = "PUBLISH" => accepted
    /\ from_broker' = Append(from_broker, packet)
    /\ UNCHANGED <<publishVars, taskVars, flagVars, retryVars, ping_due, sock,
                   accepted, subscribed, pinged, inboundVars, endpointVars>>

UnaskedPackets ==
    {[type |-> "PUBLISH", id |-> 0, of |-> m] : m \in owed \cup {NoOne}}
        \cup {P("PUBLISH_BAD"), P("JUNK"), P("PUBACK")}

\* The broker closes the connection or it is reset, which a receive finds, or it
\* breaks with no one told: what the broker sent last may be lost with it.
ConnectionEnds ==
    /\ sock = "up"
    /\ \/ sock' = "eof" /\ UNCHANGED from_broker
       \/ /\ sock' = "broken"
          /\ \E n \in 0..Len(from_broker) : from_broker' = SubSeq(from_broker, 1, n)
    /\ UNCHANGED <<publishVars, taskVars, flagVars, retryVars, ping_due,
                   accepted, subscribed, pinged, inboundVars, endpointVars>>

\* The broker moves, or no longer takes the credentials.
EndpointChanges ==
    /\ endpoint = "good"
    /\ endpoint' \in EndpointFails
    /\ UNCHANGED <<publishVars, taskVars, flagVars, retryVars, ping_due,
                   connVars, inboundVars, refused>>

Exit == CloseConnection \/ PublishClose \/ ClearRunning

TaskStep == init_mqtt_state \/ WaitOn \/ Handler \/ Exit

Environment ==
    \/ Tick
    \/ ConnectionEnds
    \/ EndpointChanges
    \/ \E packet \in UnaskedPackets : BrokerSends(packet)

otherVars == <<taskVars, flagVars, retryVars, ping_due, connVars, inboundVars,
               endpointVars>>

Next ==
    \/ start_task \/ CreateFailed \/ Discontinue
    \/ TaskStep
    \/ Environment
    \/ \E p \in Publishers : Publisher(p) /\ UNCHANGED otherVars

Spec == Init /\ [][Next]_vars

-----------------------------------------------------------------------------
(* Publishing.                                                             *)

\* A message is its caller's as long as the caller waits: the second loop of
\* kii_mqtt_publish() looks at the slot without asking whose message is there,
\* so two threads in it would take each other's result.
SlotIsItsCallers ==
    /\ \A p \in Publishers : call[p] = "waiting" <=> pub.owner = p
    /\ pub.owner = NoOne <=> pub_state \in {"FREE", "ABANDONED"}

\* _mqtt_state_send_publish() reads topic and payload without the lock: the
\* message was taken, and the thread they belong to still waits.
SendsOnlyWhatIsWaitedFor ==
    task = "SEND_PUBLISH" =>
        /\ pub_state = "SENDING"
        /\ pub.owner # NoOne
        /\ call[pub.owner] = "waiting"

\* KII_ERR_OK at QoS 1 is only returned once the broker has the message of this
\* very call, at QoS 0 once it was sent; KII_ERR_SOCK_SEND is for QoS 0 alone; and
\* a call that ends before it gave its message sent nothing.
ResultsAreTrue ==
    [][\A p \in Publishers : call[p] # "idle" /\ call'[p] = "idle" =>
          /\ ret' = "OK" => p \in (IF qos[p] = 1 THEN got ELSE tried)
          /\ ret' = "SOCK_SEND" => qos[p] = 0 /\ p \in tried
          /\ call[p] = "giving" => p \notin tried]_vars

\* kii_mqtt_publish() with the task, the socket and the broker behind it keeps
\* what it promises its callers.
Contract == INSTANCE PublishContract
    WITH Publishers <- Publishers, call <- call, qos <- qos, ret <- ret, got <- got
KeepsContract == Contract!ContractSpec

\* No connection carries a message twice: a message is sent again only on the
\* next connection (MQTT 3.1.1, section 4.4).
OncePerConnection == task = "SEND_PUBLISH" => pub.owner \notin carried

\* DUP says exactly that an earlier attempt may have reached the broker.
DupOnResendOnly == task = "SEND_PUBLISH" => (pub.dup <=> pub.owner \in tried)

\* A PUBACK the broker owes is never a surprise that ends the connection, even
\* when its caller has long returned and others have come.
PubackIsExpected ==
    \A i \in DOMAIN from_broker :
        /\ task \in {"RECV_READY", "RECV_MSG", "SEND_PINGREQ", "SEND_PUBLISH"}
        /\ from_broker[i].type = "PUBACK"
        /\ from_broker[i].of # NoOne
        =>
            publish_awaits_puback /\ pub.id = from_broker[i].id

\* What goes out on the connection and what comes back of it is MQTT's: a message is
\* sent while its caller waits for it, once on a connection, marked DUP where it may have
\* reached the broker before, and its PUBACK is known when it comes.
PublishIsMqtt ==
    /\ SendsOnlyWhatIsWaitedFor
    /\ OncePerConnection
    /\ DupOnResendOnly
    /\ PubackIsExpected

\* Callers are let in while a task serves them, and not once it is gone.
OpenWhileServed ==
    /\ task \in HandlerStates => pub_open
    /\ ~running => ~pub_open

-----------------------------------------------------------------------------
(* The connection.                                                         *)

\* What the task believes of its socket is so: it is closed once on every way
\* out and never left open, and DISCONNECT is only said where CONNECT was
\* accepted.
SocketIsTracked ==
    /\ sock_connected <=> sock # "closed"
    /\ task \in {"NONE", "CREATED"} => sock = "closed"
    /\ mqtt_connected => accepted

\* A connection is only given up for want of a PINGRESP if it carried the
\* PINGREQ.
PingIsThisConnections == mqtt_connected /\ ~pingresp_received => pinged

\* Messages are taken and sent only once subscribed, and a message that came
\* before SUBACK, and only such a one, leads back to waiting for SUBACK.
SubscribedBeforeUse ==
    /\ task \in {"RECV_READY", "SEND_PINGREQ", "SEND_PUBLISH"} => subscribed
    /\ task = "RECV_MSG" => (awaiting_suback <=> ~subscribed)

\* A message the broker was given a PUBACK for reached the application, unless
\* it was too large for the buffer.
AcknowledgedIsDelivered == Inbound \ (owed \cup TooLarge) \subseteq delivered

\* Credentials the broker refused aren't presented again.
RefusedNotReused == task \in {"SOCK_CONNECT", "SEND_CONNECT"} => ~refused

\* What the task remembers of a connection is this connection's, through every way one
\* ends and the next begins: its socket, its PINGREQ and its subscription, but for
\* credentials that were refused, which aren't used for the next.
ConnectionIsItself ==
    /\ SocketIsTracked
    /\ PingIsThisConnections
    /\ SubscribedBeforeUse
    /\ RefusedNotReused

\* The task doesn't keep at the broker: it has waited since it last tried to
\* connect, and for no longer than the longest wait.
WaitsBetweenConnects ==
    /\ wait_left <= RetryMax
    /\ (task = "SOCK_CONNECT" /\ wait_left = 0 /\ RetryMin > 1 /\ RetryMax > 1)
          => rested

-----------------------------------------------------------------------------
(* Liveness.                                                               *)

CallerSteps(p) ==
    (Give(p) \/ GiveUp(p) \/ Collect(p) \/ Abandon(p)) /\ UNCHANGED otherVars

Expires(p) == Expire(p) /\ UNCHANGED otherVars

\* The task's thread is scheduled, a caller's time runs out, and a caller that
\* polls every 10 ms finds a state that comes back for seconds at a time.
PublishFairSpec ==
    /\ Spec
    /\ WF_vars(TaskStep)
    /\ \A p \in Publishers : WF_vars(Expires(p)) /\ SF_vars(CallerSteps(p))

\* The task's thread is scheduled, the time the keep-alive counts goes on, and
\* Kii Cloud answers one of the requests made again and again.
ConnectFairSpec ==
    /\ Spec
    /\ WF_vars(TaskStep)
    /\ WF_vars(Tick)
    /\ SF_vars(GetEndpointOk)

\* kii_mqtt_publish() returns, whatever becomes of the task and the broker.
PublishReturns ==
    \A p \in Publishers : call[p] # "idle" ~> call[p] = "idle"

\* A connection that broke with no one told is noticed, and left.
BrokenIsLeft == sock = "broken" ~> sock # "broken"

\* A task that finds the broker moved asks for the endpoint again.
MovedIsFollowed ==
    (task = "SOCK_CONNECT" /\ endpoint = "moved")
        ~> (endpoint = "good" \/ task \notin HandlerStates)

=============================================================================
