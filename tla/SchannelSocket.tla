--------------------------- MODULE SchannelSocket ---------------------------
(***************************************************************************)
(* The Schannel socket (ebisu_schannel.c): a TLS stream through a buffer   *)
(* of one record, which holds what has been received and not used: part of *)
(* a record, or one decrypted in place and the start of the next.          *)
(*                                                                         *)
(* Abstracted: a record is a sequence of pieces, a header and one for each *)
(* byte of its data, and a read gets as many of them as it likes; Schannel *)
(* and Winsock are external, and fail whenever they like.                  *)
(***************************************************************************)
EXTENDS Naturals, FiniteSets, SequencesExt

CONSTANTS
    Streams,      \* the records peers send, and how they end the connection
    MaxRecord,    \* TLS_MAX_RECORD_SIZE, in pieces
    Lengths       \* the lengths recv is asked for

ASSUME SchannelAssumption ==
    /\ MaxRecord \in Nat /\ Lengths \subseteq Nat \ {0}
    /\ \A s \in Streams :
        /\ s.records \in Seq(Range(s.records))
        /\ \A r \in Range(s.records) :
            /\ r.size \in Nat /\ r.data \in Seq(Nat) /\ Len(r.data) < r.size
            /\ r.kind = "handshake" => r.data = <<>>

VARIABLES
    stream,       \* the peer's records, and how its connection ends
    pc,           \* where the operation is
    held,         \* what the context holds: socket, credentials, ...
    recv_buf,     \* received and not used: pieces <<record, piece>>
    record_len,   \* of the record decrypted
    plain,        \* of it, not yet returned
    peer_closed, recv_timed_out,
    error,        \* for last_error
    net,          \* on its way from the peer
    wanted,       \* length_to_read
    returned,     \* history: how many bytes recv has returned
    data,         \* history: what the last recv returned
    result        \* history: how the last operation ended

bufferVars == <<recv_buf, record_len, plain, peer_closed>>
apiVars == <<wanted, returned, data, result>>
schannelVars ==
    <<stream, pc, held, bufferVars, recv_timed_out, error, net, apiVars>>

Resources == {"socket", "ctxt", "cred", "recv_buf", "send_buf"}

NoStream == [records |-> <<>>, handshakes |-> 0, end |-> "fin"]

\* The pieces of records, from the first on.
Pieces(records) ==
    FlattenSeq([i \in 1..Len(records) |->
        [k \in 1..records[i].size |-> <<i, k>>]])

\* What the peer means to send: the data of its records up to close_notify, that of
\* a record cut short or refused too, which recv must not pass over.
Plaintext(s) ==
    LET counts == {i \in 1..Len(s.records) :
            \A j \in 1..i : s.records[j].kind # "close_notify"}
    IN  FlattenSeq([i \in 1..Cardinality(counts) |-> s.records[i].data])

SchannelInit ==
    /\ stream = NoStream
    /\ pc = "idle"
    /\ held = {}
    /\ recv_buf = <<>>
    /\ record_len = 0
    /\ plain = <<>>
    /\ peer_closed = FALSE
    /\ recv_timed_out = FALSE
    /\ error = "NONE"
    /\ net = <<>>
    /\ wanted = 0
    /\ returned = 0
    /\ data = <<>>
    /\ result = "none"

-----------------------------------------------------------------------------
(* Connecting.                                                             *)

\* Mutant: what was decrypted but not yet read stays.
TeardownKeepingRecord ==
    /\ held' = {}
    /\ recv_buf' = <<>>
    /\ UNCHANGED <<record_len, plain, peer_closed>>

\* teardown()
Teardown ==
    /\ held' = {}
    /\ recv_buf' = <<>>
    /\ record_len' = 0
    /\ plain' = <<>>
    /\ peer_closed' = FALSE

Returns(how) == pc' = "idle" /\ result' = how /\ data' = <<>>

\* An operation that fails for reason, for last_error.
FailsFor(reason) == error' = reason /\ Returns("failed")

ConnectFails(reason) ==
    /\ FailsFor(reason)
    /\ Teardown
    /\ UNCHANGED <<stream, recv_timed_out, net, wanted, returned>>

\* schannel_connect() up to the handshake: a name that is too long, or doesn't
\* resolve, no address that accepts, and a socket, credentials or memory that
\* can't be had.
SConnect ==
    /\ pc = "idle"
    /\ recv_timed_out' = FALSE
    /\ \/ \E reason \in {"DNS", "CONNECT", "TIMEOUT", "OTHER", "TLS"} :
            /\ FailsFor(reason)
            /\ Teardown
            /\ UNCHANGED <<stream, net, wanted, returned>>
       \/ \E s \in Streams :
            /\ stream' = s
            /\ net' = IF s.end = "cut" THEN Front(Pieces(s.records)) ELSE Pieces(s.records)
            /\ pc' = "handshake"
            /\ held' = {"socket", "cred", "recv_buf"}
            /\ recv_buf' = <<>>
            /\ record_len' = 0
            /\ plain' = <<>>
            /\ peer_closed' = FALSE
            /\ returned' = 0
            /\ data' = <<>>
            /\ result' = "closed"    \* what a connection before was torn down
            /\ UNCHANGED <<error, wanted>>

\* The first record of recv_buf is whole.
Record == stream.records[Head(recv_buf)[1]]
Whole == recv_buf # <<>> /\ Len(recv_buf) >= Record.size
Without(buf, n) == SubSeq(buf, n + 1, Len(buf))

\* What follows the record at the start of recv_buf: keep_extra(), drop_record().
KeepExtra == recv_buf' = Without(recv_buf, Record.size)

\* read_some(): n pieces more, the end, a timeout or a failure.
Room == MaxRecord - Len(recv_buf)
ReadData ==
    \E n \in 1..Min({Room, Len(net)}) :
        /\ recv_buf' = recv_buf \o SubSeq(net, 1, n)
        /\ net' = Without(net, n)

\* InitializeSecurityContext() with what has come: the handshake goes on, is done, or
\* fails, and what follows it in recv_buf is kept.
HandshakeRecord ==
    /\ pc = "handshake"
    /\ Whole
    /\ Record.kind = "handshake"
    /\ KeepExtra
    /\ held' = held \cup {"ctxt"}
    /\ pc' = IF Head(recv_buf)[1] = stream.handshakes THEN "verify" ELSE pc
    /\ UNCHANGED <<stream, record_len, plain, peer_closed, recv_timed_out, error, net,
                   apiVars>>

HandshakeRead ==
    /\ pc = "handshake"
    /\ ~Whole
    /\ ReadData
    /\ UNCHANGED <<stream, pc, held, record_len, plain, peer_closed, recv_timed_out,
                   error, apiVars>>

HandshakeFails ==
    /\ pc = "handshake"
    /\ \E reason \in {"TLS", "TIMEOUT", "CLOSED", "OTHER"} : ConnectFails(reason)

\* verify_server_certificate(), the sizes of records and send_buf.
Verified ==
    /\ pc = "verify"
    /\ held' = held \cup {"send_buf"}
    /\ Returns("connected")
    /\ UNCHANGED <<stream, bufferVars, recv_timed_out, error, net, wanted, returned>>

VerifyFails ==
    /\ pc = "verify"
    /\ \E reason \in {"VERIFY", "TLS", "OTHER"} : ConnectFails(reason)

-----------------------------------------------------------------------------
(* Sending, receiving and closing.                                         *)

Connected == "send_buf" \in held

\* One record at most; its failure is of Schannel or of the socket.
SSend ==
    /\ pc = "idle"
    /\ data' = <<>>
    /\ \/ Connected /\ result' = "sent" /\ UNCHANGED error
       \/ /\ result' = "failed"
          /\ error' \in IF Connected THEN {"TLS", "TIMEOUT", "CLOSED", "OTHER"} ELSE {"OTHER"}
    /\ UNCHANGED <<stream, pc, held, bufferVars, recv_timed_out, net, wanted, returned>>

SRecv ==
    /\ pc = "idle"
    /\ recv_timed_out' = FALSE
    /\ IF "recv_buf" \in held
       THEN wanted' \in Lengths /\ pc' = "recv" /\ UNCHANGED <<error, data, result>>
       ELSE FailsFor("OTHER") /\ UNCHANGED wanted
    /\ UNCHANGED <<stream, held, bufferVars, net, returned>>

\* schannel_recv_wait(): what recv has before it reads, or what select() says.
SRecvWait ==
    /\ pc = "idle"
    /\ \/ Returns("ready")
       \/ /\ Connected /\ plain = <<>> /\ ~peer_closed /\ recv_buf = <<>>
          /\ Returns("nothing")
    /\ UNCHANGED <<stream, held, bufferVars, recv_timed_out, error, net, wanted, returned>>

\* Plaintext left from a record, which is dropped with the last of it.
ReturnPlain ==
    LET n == Min({wanted, Len(plain)}) IN
    /\ pc = "recv"
    /\ plain # <<>>
    /\ plain' = Without(plain, n)
    /\ recv_buf' = IF n = Len(plain) THEN Without(recv_buf, record_len) ELSE recv_buf
    /\ record_len' = IF n = Len(plain) THEN 0 ELSE record_len
    /\ returned' = returned + n
    /\ data' = SubSeq(plain, 1, n)
    /\ result' = "data"
    /\ pc' = "idle"
    /\ UNCHANGED <<stream, held, peer_closed, recv_timed_out, error, net, wanted>>

ReturnEnd ==
    /\ pc = "recv"
    /\ plain = <<>>
    /\ peer_closed
    /\ Returns("end")
    /\ UNCHANGED <<stream, held, bufferVars, recv_timed_out, error, net, wanted, returned>>

\* decrypt_record() of a whole record: data, an empty one, close_notify, which wine's
\* Schannel has come as an empty alert, or what ends the connection.
Decrypt ==
    /\ pc = "recv"
    /\ plain = <<>>
    /\ ~peer_closed
    /\ Whole
    /\ UNCHANGED <<stream, held, recv_timed_out, net, wanted, returned>>
    /\ \/ /\ Record.kind = "data"
          /\ plain' = Record.data
          /\ record_len' = IF Record.data = <<>> THEN 0 ELSE Record.size
          /\ IF Record.data = <<>> THEN KeepExtra ELSE UNCHANGED recv_buf
          /\ UNCHANGED <<pc, peer_closed, error, data, result>>
       \/ /\ Record.kind = "close_notify"
          /\ peer_closed' = TRUE
          /\ record_len' = Record.size
          /\ UNCHANGED <<pc, plain, recv_buf, error, data, result>>
       \/ /\ Record.kind \in {"renegotiate", "bad"}
          /\ record_len' = IF Record.kind = "renegotiate" THEN Record.size ELSE record_len
          /\ FailsFor("TLS")
          /\ UNCHANGED <<plain, recv_buf, peer_closed>>

Incomplete == pc = "recv" /\ plain = <<>> /\ ~peer_closed /\ ~Whole

RecvRead ==
    /\ Incomplete
    /\ ReadData
    /\ UNCHANGED <<stream, pc, held, record_len, plain, peer_closed, recv_timed_out,
                   error, apiVars>>

\* Mutant: a record cut short ends the data.
AtEndAnywhere ==
    /\ peer_closed' = TRUE
    /\ Returns("end")
    /\ UNCHANGED error

\* The end of the TCP stream is one of the data only between two records.
AtEnd ==
    IF recv_buf = <<>>
    THEN peer_closed' = TRUE /\ Returns("end") /\ error' = "CLOSED"
    ELSE UNCHANGED peer_closed /\ FailsFor("CLOSED")

RecvEnd ==
    /\ Incomplete
    /\ Room > 0
    /\ net = <<>>
    /\ AtEnd
    /\ UNCHANGED <<stream, held, recv_buf, record_len, plain, recv_timed_out, net, wanted,
                   returned>>

\* What has come of a record is kept, and recv can be called again.
RecvTimeout ==
    /\ Incomplete
    /\ Room > 0
    /\ recv_timed_out' = TRUE
    /\ error' = "TIMEOUT"
    /\ Returns("timeout")
    /\ UNCHANGED <<stream, held, bufferVars, net, wanted, returned>>

\* The socket fails, or the record is larger than any.
RecvFails ==
    /\ Incomplete
    /\ IF Room = 0 THEN FailsFor("TLS")
       ELSE \E reason \in {"CLOSED", "OTHER"} : FailsFor(reason)
    /\ UNCHANGED <<stream, held, bufferVars, recv_timed_out, net, wanted, returned>>

\* close_notify, which only Schannel can fail to make, and teardown().
SClose ==
    /\ pc = "idle"
    /\ Teardown
    /\ data' = <<>>
    /\ \/ result' = "closed" /\ UNCHANGED error
       \/ Connected /\ result' = "failed" /\ error' = "TLS"
    /\ UNCHANGED <<stream, pc, recv_timed_out, net, wanted, returned>>

SchannelNext ==
    \/ SConnect \/ HandshakeRecord \/ HandshakeRead \/ HandshakeFails \/ Verified
    \/ VerifyFails \/ SSend \/ SRecv \/ SRecvWait \/ ReturnPlain \/ ReturnEnd \/ Decrypt \/ RecvRead
    \/ RecvEnd \/ RecvTimeout \/ RecvFails \/ SClose

SchannelSpec == SchannelInit /\ [][SchannelNext]_schannelVars

-----------------------------------------------------------------------------
(* Properties.                                                             *)

\* recv returns without reading the socket.
HasSomething ==
    \/ plain # <<>>
    \/ peer_closed
    \/ Whole /\ Record.kind = "data" /\ Record.data # <<>>

\* The Schannel socket keeps the contract of ebisu_socket_ops_t: through records cut
\* anywhere, decrypted in place and returned in pieces, and timeouts in the middle
\* of one, the plaintext comes out whole and in order, and its end only after it;
\* and recv_wait never says that nothing is there while the buffer holds data.
Contract == INSTANCE SocketContract WITH
    Plaintexts <- {Plaintext(s) : s \in Streams},
    conn <- IF Connected THEN "open" ELSE "closed",
    left <- IF Connected THEN Without(Plaintext(stream), returned) ELSE <<>>,
    ready <- Connected /\ HasSomething,
    got <- data,
    outcome <- result

KeepsSocketContract == Contract!Spec

\* A connection that isn't open holds nothing of Windows's, and recv_buf, through
\* handshakes, timeouts and reconnections, starts at a record and holds at most one
\* that is as long as any may be.
HoldsOnlyWhenConnected ==
    /\ pc = "idle" => held \in {{}, Resources}
    /\ Len(recv_buf) <= MaxRecord
    /\ recv_buf # <<>> => Head(recv_buf)[2] = 1
    /\ held = {} => recv_buf = <<>> /\ record_len = 0 /\ plain = <<>> /\ ~peer_closed

=============================================================================
