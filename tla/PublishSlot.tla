---------------------------- MODULE PublishSlot ----------------------------
(***************************************************************************)
(* The hand-off between kii_mqtt_publish(), called from any number of      *)
(* application threads, and the MQTT task that owns the socket: one slot,  *)
(* kii_t::_mqtt_pub and its neighbours, guarded by the lock set with       *)
(* kii_set_mqtt_lock().  Every critical section is one atomic step.        *)
(*                                                                         *)
(* The operators of the first part are called by the task (MqttTask); the  *)
(* actions of the second part are the threads inside kii_mqtt_publish().   *)
(***************************************************************************)
EXTENDS Naturals

CONSTANTS
    Publishers,  \* threads that call kii_mqtt_publish()
    NoOne,       \* a NULL topic and payload
    MaxId        \* the last packet identifier, 65535 in the code

ASSUME NoOneAssumption == NoOne \notin Publishers
ASSUME MaxIdAssumption == MaxId \in Nat /\ MaxId >= 2

VARIABLES
    pub_open,    \* _mqtt_pub_open: a call may give a message
    pub_state,   \* _mqtt_pub_state
    pub,         \* _mqtt_pub: whose topic and payload, QoS, DUP, packet id
    pub_result,  \* _mqtt_pub_result
    last_id,     \* _mqtt_pub_last_id
    call,        \* where each thread is in kii_mqtt_publish()
    qos,         \* the QoS argument of its call
    expired,     \* the threads whose timeout_ms has run out
    ret,         \* what the call that returned last returned
    tried,       \* history: callers whose message the task began to send
    got,         \* history: callers whose message the broker received
    carried      \* history: callers whose message the current connection took

slotVars == <<pub_open, pub_state, pub, pub_result, last_id>>
callVars == <<call, qos, expired, ret>>
histVars == <<tried, got, carried>>
publishVars == <<slotVars, callVars, histVars>>

PubStates ==
    {"FREE", "QUEUED", "SENDING", "AWAITING_PUBACK", "ABANDONED", "DONE"}

Results == {"OK", "FAIL", "TIMEOUT", "SOCK_SEND"}

Message ==
    [owner : Publishers \cup {NoOne}, qos : {0, 1}, dup : BOOLEAN, id : 0..MaxId]

NoMessage == [owner |-> NoOne, qos |-> 0, dup |-> FALSE, id |-> 0]

SlotTypeOK ==
    /\ pub_open \in BOOLEAN
    /\ pub_state \in PubStates
    /\ pub \in Message
    /\ pub_result \in Results
    /\ last_id \in 0..MaxId
    /\ call \in [Publishers -> {"idle", "giving", "waiting"}]
    /\ qos \in [Publishers -> {0, 1}]
    /\ expired \in SUBSET Publishers
    /\ ret \in Results
    /\ tried \in SUBSET Publishers
    /\ got \in SUBSET Publishers
    /\ carried \in SUBSET Publishers

SlotInit ==
    /\ pub_open = FALSE
    /\ pub_state = "FREE"
    /\ pub = NoMessage
    /\ pub_result = "OK"
    /\ last_id = 0
    /\ call = [p \in Publishers |-> "idle"]
    /\ qos = [p \in Publishers |-> 0]
    /\ expired = {}
    /\ ret = "FAIL"
    /\ tried = {}
    /\ got = {}
    /\ carried = {}

-----------------------------------------------------------------------------
(* The task's side.                                                        *)

publish_open(open) ==
    /\ pub_open' = open
    /\ UNCHANGED <<pub_state, pub, pub_result, last_id>>

publish_take ==
    /\ pub_state = "QUEUED"
    /\ pub_state' = "SENDING"
    /\ UNCHANGED <<pub_open, pub, pub_result, last_id>>

publish_awaits_puback == pub_state \in {"AWAITING_PUBACK", "ABANDONED"}

publish_acked(id) ==
    /\ publish_awaits_puback
    /\ pub.id = id
    /\ IF pub_state = "AWAITING_PUBACK"
       THEN pub_result' = "OK" /\ pub_state' = "DONE"
       ELSE pub_state' = "FREE" /\ UNCHANGED pub_result
    /\ UNCHANGED <<pub_open, pub, last_id>>

publish_reconnected ==
    /\ pub_state' = CASE pub_state = "AWAITING_PUBACK" -> "QUEUED"
                      [] pub_state = "ABANDONED" -> "FREE"
                      [] OTHER -> pub_state
    /\ pub' = [pub EXCEPT !.dup = @ \/ pub_state = "AWAITING_PUBACK"]
    /\ UNCHANGED <<pub_open, pub_result, last_id>>

\* Mutant: callers are still let in.
publish_close_open ==
    LET failed == pub_state \in {"QUEUED", "AWAITING_PUBACK"} IN
    /\ pub_result' = IF failed THEN "FAIL" ELSE pub_result
    /\ pub_state' = CASE failed -> "DONE"
                      [] pub_state = "ABANDONED" -> "FREE"
                      [] OTHER -> pub_state
    /\ UNCHANGED <<pub_open, pub, last_id>>

\* Mutant: the result of the last message is left.
publish_close_stale ==
    /\ pub_open' = FALSE
    /\ pub_state' = CASE pub_state \in {"QUEUED", "AWAITING_PUBACK"} -> "DONE"
                      [] pub_state = "ABANDONED" -> "FREE"
                      [] OTHER -> pub_state
    /\ UNCHANGED <<pub, pub_result, last_id>>

publish_close ==
    LET failed == pub_state \in {"QUEUED", "AWAITING_PUBACK"} IN
    /\ pub_open' = FALSE
    /\ pub_result' = IF failed THEN "FAIL" ELSE pub_result
    /\ pub_state' = CASE failed -> "DONE"
                      [] pub_state = "ABANDONED" -> "FREE"
                      [] OTHER -> pub_state
    /\ UNCHANGED <<pub, last_id>>

\* Mutant: a message at QoS 1 is done once it was sent.
publish_sent_unacked(ok) ==
    /\ pub_state' = "DONE"
    /\ pub_result' = IF ok THEN "OK" ELSE "SOCK_SEND"
    /\ UNCHANGED <<pub_open, pub, last_id>>

\* What _mqtt_state_send_publish() records once its send has returned.
publish_sent(ok) ==
    /\ pub_state' = CASE pub.qos = 1 /\ ok -> "AWAITING_PUBACK"
                      [] pub.qos = 1 /\ ~ok -> "QUEUED"
                      [] OTHER -> "DONE"
    /\ pub' = [pub EXCEPT !.dup = @ \/ (pub.qos = 1 /\ ~ok)]
    /\ pub_result' = CASE pub.qos = 1 -> pub_result
                       [] ok -> "OK"
                       [] OTHER -> "SOCK_SEND"
    /\ UNCHANGED <<pub_open, last_id>>

-----------------------------------------------------------------------------
(* A thread in kii_mqtt_publish(), its arguments checked.                  *)

\* Mutant: the identifiers don't wrap.
NextPacketIdNoWrap == IF last_id < 2 THEN 2 ELSE last_id + 1

\* Not 0, which MQTT doesn't allow, nor 1, which SUBSCRIBE has.
NextPacketId == IF last_id < 2 \/ last_id = MaxId THEN 2 ELSE last_id + 1

\* The call starts.
Call(p) ==
    /\ call[p] = "idle"
    /\ call' = [call EXCEPT ![p] = "giving"]
    /\ \E q \in {0, 1} : qos' = [qos EXCEPT ![p] = q]
    /\ UNCHANGED <<slotVars, expired, ret, histVars>>

\* It returns; its arguments, its wait and its history end with it.
Return(p, res) ==
    /\ call' = [call EXCEPT ![p] = "idle"]
    /\ ret' = res
    /\ qos' = [qos EXCEPT ![p] = 0]
    /\ expired' = expired \ {p}
    /\ tried' = tried \ {p}
    /\ got' = got \ {p}
    /\ carried' = carried \ {p}

\* Mutant: the slot isn't looked at.
GiveOver(p) ==
    /\ call[p] = "giving"
    /\ pub_open
    /\ LET id == IF qos[p] = 1 THEN NextPacketId ELSE 0 IN
       /\ pub' = [owner |-> p, qos |-> qos[p], dup |-> FALSE, id |-> id]
       /\ last_id' = IF qos[p] = 1 THEN id ELSE last_id
    /\ pub_state' = "QUEUED"
    /\ call' = [call EXCEPT ![p] = "waiting"]
    /\ UNCHANGED <<pub_open, pub_result, qos, expired, ret, histVars>>

\* The first loop finds the slot free and fills it in.
Give(p) ==
    /\ call[p] = "giving"
    /\ pub_open
    /\ pub_state = "FREE"
    /\ LET id == IF qos[p] = 1 THEN NextPacketId ELSE 0 IN
       /\ pub' = [owner |-> p, qos |-> qos[p], dup |-> FALSE, id |-> id]
       /\ last_id' = IF qos[p] = 1 THEN id ELSE last_id
    /\ pub_state' = "QUEUED"
    /\ call' = [call EXCEPT ![p] = "waiting"]
    /\ UNCHANGED <<pub_open, pub_result, qos, expired, ret, histVars>>

\* It returns without having given the message.
GiveUp(p) ==
    /\ call[p] = "giving"
    /\ \/ ~pub_open /\ Return(p, "FAIL")
       \/ pub_open /\ pub_state # "FREE" /\ p \in expired /\ Return(p, "TIMEOUT")
    /\ UNCHANGED slotVars

\* Mutant: a message still queued is waited for.
CollectDone(p) ==
    /\ call[p] = "waiting"
    /\ pub_state = "DONE"
    /\ Return(p, pub_result)
    /\ pub_state' = "FREE"
    /\ pub' = [pub EXCEPT !.owner = NoOne]
    /\ UNCHANGED <<pub_open, pub_result, last_id>>

\* The second loop takes what became of the message, or the message itself back
\* if it is still queued once the time is out.
Collect(p) ==
    /\ call[p] = "waiting"
    /\ \/ pub_state = "DONE" /\ Return(p, pub_result)
       \/ pub_state = "QUEUED" /\ p \in expired /\ Return(p, "TIMEOUT")
    /\ pub_state' = "FREE"
    /\ pub' = [pub EXCEPT !.owner = NoOne]
    /\ UNCHANGED <<pub_open, pub_result, last_id>>

\* Mutant: the packet identifier is forgotten with the call.
AbandonFree(p) ==
    /\ call[p] = "waiting"
    /\ pub_state = "AWAITING_PUBACK"
    /\ p \in expired
    /\ pub_state' = "FREE"
    /\ pub' = [pub EXCEPT !.owner = NoOne]
    /\ Return(p, "TIMEOUT")
    /\ UNCHANGED <<pub_open, pub_result, last_id>>

\* Sent, but not acknowledged in time: only the packet identifier stays.
Abandon(p) ==
    /\ call[p] = "waiting"
    /\ pub_state = "AWAITING_PUBACK"
    /\ p \in expired
    /\ pub_state' = "ABANDONED"
    /\ pub' = [pub EXCEPT !.owner = NoOne]
    /\ Return(p, "TIMEOUT")
    /\ UNCHANGED <<pub_open, pub_result, last_id>>

\* timeout_ms runs out.
Expire(p) ==
    /\ call[p] # "idle"
    /\ p \notin expired
    /\ expired' = expired \cup {p}
    /\ UNCHANGED <<slotVars, call, qos, ret, histVars>>

Publisher(p) ==
    \/ Call(p) \/ Give(p) \/ GiveUp(p) \/ Collect(p) \/ Abandon(p) \/ Expire(p)

=============================================================================
