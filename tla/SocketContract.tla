--------------------------- MODULE SocketContract ---------------------------
(***************************************************************************)
(* What ebisu_socket_ops_t (ebisu_socket.h) promises to khc and to the     *)
(* MQTT task: recv returns what the peer sent, in order and whatever the   *)
(* sizes asked for, says that the stream ended only after all of it, and   *)
(* loses nothing when it times out, after which the task uses it on; and   *)
(* recv_wait says that nothing is there only if recv would have to wait.   *)
(***************************************************************************)
EXTENDS Naturals, Sequences

CONSTANT Plaintexts    \* what peers send

VARIABLES
    conn,       \* closed or open
    left,       \* what the peer sent and recv hasn't returned
    ready,      \* recv would return without waiting
    got,        \* what the last recv returned
    outcome     \* how the last operation ended

contractVars == <<conn, left, ready, got, outcome>>

Init ==
    /\ conn = "closed"
    /\ left = <<>>
    /\ ready = FALSE
    /\ got = <<>>
    /\ outcome = "none"

Connect ==
    /\ conn' \in {"closed", "open"}
    /\ left' \in IF conn' = "open" THEN Plaintexts ELSE {<<>>}
    /\ ready' \in IF conn' = "open" THEN BOOLEAN ELSE {FALSE}
    /\ got' = <<>>
    /\ outcome' = IF conn' = "open" THEN "connected" ELSE "failed"

\* Data, the end of the stream or a failure comes while an operation runs.
Arrive ==
    /\ conn = "open"
    /\ ready' = TRUE
    /\ UNCHANGED <<conn, left, got, outcome>>

Send ==
    /\ outcome' \in IF conn = "open" THEN {"sent", "failed"} ELSE {"failed"}
    /\ got' = <<>>
    /\ UNCHANGED <<conn, left, ready>>

\* Whatever has come of it, at most length of it.
Recv ==
    /\ conn = "open"
    /\ ready' \in BOOLEAN
    /\ UNCHANGED conn
    /\ \/ \E n \in 1..Len(left) :
            /\ got' = SubSeq(left, 1, n)
            /\ left' = SubSeq(left, n + 1, Len(left))
            /\ outcome' = "data"
       \/ /\ outcome' \in {"timeout", "failed"} \cup (IF left = <<>> THEN {"end"} ELSE {})
          /\ got' = <<>>
          /\ UNCHANGED left

RecvWait ==
    /\ outcome' \in {"ready"} \cup (IF ready \/ conn # "open" THEN {} ELSE {"nothing"})
    /\ got' = <<>>
    /\ UNCHANGED <<conn, left, ready>>

Close ==
    /\ conn' = "closed"
    /\ left' = <<>>
    /\ ready' = FALSE
    /\ got' = <<>>
    /\ outcome' \in {"closed", "failed"}

Next == Connect \/ Arrive \/ Send \/ Recv \/ RecvWait \/ Close

Spec == Init /\ [][Next]_contractVars

=============================================================================
