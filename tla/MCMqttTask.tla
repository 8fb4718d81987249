----------------------------- MODULE MCMqttTask ----------------------------
(***************************************************************************)
(* Instances of MqttTask for TLC.                                          *)
(***************************************************************************)
EXTENDS MqttTask

CONSTANTS p1, p2, m1, m2

OnePublisher == {p1}
TwoPublishers == {p1, p2}
OneMessage == {m1}
TwoMessages == {m1, m2}
JustM2 == {m2}
None == {}
Revoked == {"revoked"}
MovedOrRevoked == {"moved", "revoked"}

\* The continue callback may say no at every state.
Anywhere == HandlerStates

-----------------------------------------------------------------------------
(* One caller's calls, the callers being alike, where nobody else is in    *)
(* one.                                                                    *)

Alone == call[p1] # "idle" /\ call[p2] = "idle"

\* A task took its message and was stopped before it sent it (see PublishReturns).
Stranded == pub_state = "SENDING" /\ task # "SEND_PUBLISH"

\* The fairness of PublishFairSpec, for that caller: where it is alone from some point on,
\* which is all that ServedReturns is about, it is the same.
ServedFairSpec ==
    /\ Spec
    /\ WF_vars(Alone /\ TaskStep)
    /\ WF_vars(Alone /\ Expires(p1))
    /\ SF_vars(Alone /\ CallerSteps(p1))

\* kii_mqtt_publish() returns, whatever becomes of the broker, the connection and the
\* task, unless the task was stopped between taking its message and sending it.
ServedReturns == []<>~Alone \/ <>[]Stranded

=============================================================================
