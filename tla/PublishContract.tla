-------------------------- MODULE PublishContract --------------------------
(***************************************************************************)
(* What kii_mqtt_publish() promises its callers, with no task, socket or   *)
(* retry in sight: the calls are served one at a time, a message can reach *)
(* the broker only between being taken up and the return of its call, and  *)
(* the result says what became of it.                                      *)
(***************************************************************************)
CONSTANT Publishers

VARIABLES
    call,   \* idle, giving (waiting for its turn) or waiting (being served)
    qos,    \* the QoS the call asked for
    got,    \* callers whose message reached the broker
    ret     \* what the last call to return returned

contractVars == <<call, qos, got, ret>>

ContractInit ==
    /\ call = [p \in Publishers |-> "idle"]
    /\ qos = [p \in Publishers |-> 0]
    /\ got = {}
    /\ ret = "FAIL"

Begin(p) ==
    /\ call[p] = "idle"
    /\ call' = [call EXCEPT ![p] = "giving"]
    /\ \E q \in {0, 1} : qos' = [qos EXCEPT ![p] = q]
    /\ UNCHANGED <<got, ret>>

\* Its turn comes: no other call is being served.
TakeUp(p) ==
    /\ call[p] = "giving"
    /\ \A q \in Publishers : call[q] # "waiting"
    /\ call' = [call EXCEPT ![p] = "waiting"]
    /\ UNCHANGED <<qos, got, ret>>

\* Once, or again on another connection.
ReachBroker(p) ==
    /\ call[p] = "waiting"
    /\ got' = got \cup {p}
    /\ UNCHANGED <<call, qos, ret>>

\* The results a call may have, by what became of its message.
MayReturn(p, res) ==
    \/ call[p] = "giving" /\ res \in {"FAIL", "TIMEOUT"}
    \/ call[p] = "waiting" /\ res \in {"FAIL", "TIMEOUT"}
    \/ call[p] = "waiting" /\ res = "OK" /\ (qos[p] = 1 => p \in got)
    \/ call[p] = "waiting" /\ res = "SOCK_SEND" /\ qos[p] = 0

End(p, res) ==
    /\ MayReturn(p, res)
    /\ call' = [call EXCEPT ![p] = "idle"]
    /\ qos' = [qos EXCEPT ![p] = 0]
    /\ got' = got \ {p}
    /\ ret' = res

ContractNext ==
    \E p \in Publishers :
        \/ Begin(p) \/ TakeUp(p) \/ ReachBroker(p)
        \/ \E res \in {"OK", "FAIL", "TIMEOUT", "SOCK_SEND"} : End(p, res)

ContractSpec == ContractInit /\ [][ContractNext]_contractVars

=============================================================================
