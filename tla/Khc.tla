-------------------------------- MODULE Khc --------------------------------
(***************************************************************************)
(* The HTTP client (khc.c, khc_state_impl.c, khc_impl.c): khc_perform()    *)
(* connects, sends a request, reads the response through two buffers of a  *)
(* few bytes and closes the connection, one state handler at a time, over  *)
(* a socket that sends and receives as much as it likes, says              *)
(* EBISU_SOCK_AGAIN or fails.                                              *)
(*                                                                         *)
(* Abstracted: the response is a sequence of symbols, which a read can cut *)
(* anywhere: CR, LF, a digit, a byte of the body, a byte of a value ("x"), *)
(* the name of a header with its colon, and a status line up to its status *)
(* are one symbol each, and buffers are as many symbols long.  What is     *)
(* sent is a sequence of <<what, how much>>.                               *)
(***************************************************************************)
EXTENDS Naturals, SequencesExt

CONSTANTS
    Exchanges,  \* the requests made, each with the response it gets
    Stops,      \* what may stop a request: subset of {"TIMEOUT", "CANCELLED"}
    SizeMax,    \* SIZE_MAX: 16^n - 1
    MaxData     \* bound: bytes of a chunked body that the read callback gives

\* Buffers are of some size, and what is sent and received is text.
ASSUME KhcAssumption ==
    /\ SizeMax \in Nat /\ MaxData \in Nat
    /\ \A e \in Exchanges :
        /\ e.header_size \in Nat \ {0} /\ e.stream_size \in Nat \ {0}
        /\ e.request.headers \in Seq(Range(e.request.headers))
        /\ e.request.length \in Nat
        /\ e.response.wire \in Seq(Range(e.response.wire))

VARIABLES
    exchange,   \* the request and its response
    khc,        \* khc->_...
    sock,       \* the connection: none, connecting, open, closing (close said
                \* EBISU_SOCK_AGAIN), closed, or failed (to close)
    wire,       \* what the server has sent and khc hasn't received
    late,       \* the request's timeout has run out
    heap,       \* the buffers khc_perform() has allocated
    phase,      \* where khc_perform() is: perform, loop or returned
    ret,        \* what it returned
    sent,       \* history: what was sent
    reads,      \* history: what the read callback returned, in turn
    body,       \* history: what the write callback got
    stray       \* history: a CR was taken from outside the buffer

khcVars == <<exchange, khc, sock, wire, late, heap, phase, ret, sent, reads,
          body, stray>>

\* method, headers: khc_set_method(), khc_set_req_headers(), each header a string,
\* an empty one or NULL.  length: khc_set_req_body_length(), or Chunked, or
\* NoBody without a read callback.  header_size, stream_size: of the buffers.
\* given: the buffers the application gave.  usable: what khc_perform() checks is
\* set.  faults: what may go wrong besides the data, of the socket, callbacks
\* and memory.  wire: the response.
Chunked == MaxData + 1
NoBody == MaxData + 2
request == exchange.request
response == exchange.response
may(fault) == fault \in exchange.faults

Reset ==
    [state |-> "IDLE", result |-> "OK", close_failed |-> FALSE,
     sent_length |-> 0, req_header |-> 1, req_body_left |-> 0, req_frame |-> <<>>,
     read_req_end |-> FALSE, resp_header_buff |-> <<>>, stream_buff |-> <<>>,
     status |-> 0, status_line_given |-> FALSE, version_1_0 |-> FALSE,
     chunked |-> FALSE, chunk_size |-> 0, chunk_size_written |-> 0,
     content_length |-> 0, has_content_length |-> FALSE, body_received |-> 0,
     trailer_end_matched |-> 0, header_skipped |-> FALSE, sock_error |-> "none"]

KhcInit ==
    /\ exchange \in Exchanges
    /\ khc = Reset
    /\ sock = "none"
    /\ wire = exchange.response.wire
    /\ late = FALSE
    /\ heap = {}
    /\ phase = "perform"
    /\ ret = "none"
    /\ sent = <<>>
    /\ reads = <<>>
    /\ body = <<>>
    /\ stray = FALSE

-----------------------------------------------------------------------------
(* Lines of the response, and numbers in them.                             *)

CRLF == <<"CR", "LF">>
Digits ==
    [d \in {"0", "1", "2", "3", "4"} |->
        CASE d = "0" -> 0 [] d = "1" -> 1 [] d = "2" -> 2 [] d = "3" -> 3 [] d = "4" -> 4]
Statuses ==
    [line \in {"HTTP/1.1 100", "HTTP/1.1 200", "HTTP/1.0 200", "HTTP/1.1 204"} |->
        CASE line = "HTTP/1.1 100" -> 100 [] line = "HTTP/1.1 204" -> 204 [] OTHER -> 200]
Is10(line) == Head(line) = "HTTP/1.0 200"
Names == {"Content-Length:", "Transfer-Encoding:", "X-Other:"}
Controls == {"CR", "LF", "NUL"}

\* Where the first CRLF of data starts, 0 without one.
find_crlf(data) ==
    LET ends == {i \in 1..Len(data) - 1 : SubSeq(data, i, i + 1) = CRLF}
    IN  IF ends = {} THEN 0 ELSE Min(ends)

is_field_text(text) == Controls \cap Range(text) = {}

is_header_line(line) ==
    line # <<>> /\ Head(line) \in Names /\ is_field_text(Tail(line))

\* Mutant: half of a line end counts as the header's.
WithoutLastCRLeft(data) == data

WithoutLastCR(data) ==
    IF data # <<>> /\ Last(data) = "CR" THEN Front(data) ELSE data

is_header_start(data) == is_header_line(WithoutLastCR(data))

is_status_line(line) ==
    line # <<>> /\ Head(line) \in DOMAIN Statuses /\ is_field_text(Tail(line))

is_header_present(name, data) == data # <<>> /\ Head(data) = name

\* 1, 0 and -1 of the code: "yes" is as good as its value, which comes with it.
is_chunked_encoding(line) ==
    IF ~is_header_present("Transfer-Encoding:", line) THEN "other"
    ELSE IF Last(line) = "chunked" THEN "chunked" ELSE "invalid"

\* The value of digits in base, Invalid where it doesn't fit in a size_t, or
\* where there is none or something that isn't a digit.
Invalid == SizeMax + 1
WithDigit(value, d, base) ==
    IF \/ value = Invalid \/ d \notin DOMAIN Digits
       \/ value * base + Digits[d] > SizeMax
    THEN Invalid ELSE value * base + Digits[d]
Number(digits, base) ==
    LET number[i \in 0..Len(digits)] ==
            IF i = 0 THEN 0 ELSE WithDigit(number[i - 1], digits[i], base)
    IN  IF digits = <<>> THEN Invalid ELSE number[Len(digits)]

read_content_length(line) == Number(Tail(line), 10)

\* The size line of a chunk: hex digits, and an extension after a semicolon.
read_chunk_size(line) ==
    LET semicolons == {i \in 1..Len(line) : line[i] = ";"}
        digits == IF semicolons = {} THEN line
                  ELSE SubSeq(line, 1, Min(semicolons) - 1)
        extension == SubSeq(line, Len(digits) + 1, Len(line))
    IN  IF is_field_text(extension) THEN Number(digits, 16) ELSE Invalid

-----------------------------------------------------------------------------
(* The loop of khc_perform(): a step is a handler, called with khc and one *)
(* outcome of the socket operation or callback in it.                      *)

Goto(k, state) == [k EXCEPT !.state = state]
Fails(k, code) == [k EXCEPT !.state = "CLOSE", !.result = code]
ClosedEarly(k) == [Fails(k, "SOCK_RECV") EXCEPT !.sock_error = "closed"]

Running == phase = "loop" /\ khc.state # "FINISHED"

\* _stop_reason(): a timeout that has run out stops it before the callback is asked.
At(state) == Running /\ khc.state = state /\ ~late

requestVars == <<exchange, late, heap, phase, ret>>
historyVars == <<sent, reads, body, stray>>

\* A handler that calls nothing.
Then(k) ==
    /\ khc' = k
    /\ UNCHANGED <<requestVars, sock, wire, historyVars>>

\* khc_cb_write with data, for the state k if it takes them.
Writes(data, k) ==
    \/ /\ khc' = k
       /\ body' = body \o data
       /\ UNCHANGED <<requestVars, sock, wire, sent, reads, stray>>
    \/ /\ may("write")
       /\ data # <<>>
       /\ Then(Fails(khc, "WRITE_CALLBACK"))

\* What recv may receive of room symbols: nothing says that the connection is closed.
Received(room) ==
    {SubSeq(wire, 1, n) : n \in 1..Min({room, Len(wire)})}
        \cup IF wire = <<>> \/ may("cut") THEN {<<>>} ELSE {}

\* recv into a handler whose state is k before it, and Got(data) after.
Recv(k, room, Got(_)) ==
    /\ UNCHANGED <<requestVars, sock, sent, reads, body>>
    /\ \/ \E data \in Received(room) :
            /\ khc' = Got(data)
            /\ wire' = IF data = <<>> THEN <<>> ELSE SubSeq(wire, Len(data) + 1, Len(wire))
       \/ may("again") /\ khc' = k /\ UNCHANGED wire
       \/ /\ may("recv")
          /\ khc' = [Fails(k, "SOCK_RECV") EXCEPT !.sock_error = "failed"]
          /\ UNCHANGED wire

\* Mutant: a short send isn't counted.
AfterSendForgetting(part, k, n) ==
    IF khc.sent_length + n < Len(part) THEN khc ELSE [k EXCEPT !.sent_length = 0]

\* After n more of a part were sent: k once all of it was.
AfterSend(part, k, n) ==
    IF khc.sent_length + n < Len(part) THEN [khc EXCEPT !.sent_length = @ + n]
    ELSE [k EXCEPT !.sent_length = 0]

\* send of a part of the request, from _sent_length on: k is the state after all
\* of it was sent.
Sends(part, k) ==
    /\ UNCHANGED <<requestVars, sock, wire, reads, body, stray>>
    /\ \/ \E n \in 1..Len(part) - khc.sent_length :
            /\ sent' = sent \o SubSeq(part, khc.sent_length + 1, khc.sent_length + n)
            /\ khc' = AfterSend(part, k, n)
       \/ may("again") /\ UNCHANGED <<khc, sent>>
       \/ /\ may("send")
          /\ khc' = [Fails(khc, "SOCK_SEND") EXCEPT !.sock_error = "failed"]
          /\ UNCHANGED sent

-----------------------------------------------------------------------------
(* Connecting and sending the request.                                     *)

\* A part of the request, in two pieces, so that it can be sent in two.
Part(name) == <<<<name, 1>>, <<name, 2>>>>

CanHaveBody == request.method \notin {"GET", "HEAD", "DELETE"}
HasReqBody == CanHaveBody /\ request.length \notin {NoBody, 0}

Framing ==
    IF ~CanHaveBody THEN <<>>
    ELSE IF request.length = NoBody THEN <<<<"Content-Length", 0>>>>
    ELSE IF request.length = Chunked THEN <<<<"Transfer-Encoding", 1>>>>
    ELSE <<<<"Content-Length", request.length>>>>

\* A header that is NULL or empty is passed over.
Unsent == {"NULL", ""}

Idle == At("IDLE") /\ Then(Goto(khc, "CONNECT"))

Connect ==
    /\ At("CONNECT")
    /\ UNCHANGED <<requestVars, wire, historyVars>>
    /\ \/ khc' = [khc EXCEPT !.state = "REQ_LINE", !.sent_length = 0] /\ sock' = "open"
       \/ may("again") /\ UNCHANGED khc /\ sock' = "connecting"
       \/ /\ may("connect")
          /\ khc' = [khc EXCEPT !.state = "FINISHED", !.result = "SOCK_CONNECT",
                                !.sock_error = "failed"]
          /\ sock' = "none"

ReqLine == At("REQ_LINE") /\ Sends(Part("line"), Goto(khc, "REQ_HOST_HEADER"))

ReqHostHeader ==
    /\ At("REQ_HOST_HEADER")
    /\ Sends(Part("host"), [khc EXCEPT !.state = "REQ_HEADER", !.req_header = 1])

ReqHeader ==
    /\ At("REQ_HEADER")
    /\ Then(IF khc.req_header > Len(request.headers) THEN Goto(khc, "REQ_HEADER_END")
            ELSE IF request.headers[khc.req_header] \in Unsent
            THEN [khc EXCEPT !.req_header = @ + 1]
            ELSE Goto(khc, "REQ_HEADER_SEND"))

ReqHeaderSend ==
    /\ At("REQ_HEADER_SEND")
    /\ Sends(Part(request.headers[khc.req_header]), Goto(khc, "REQ_HEADER_SEND_CRLF"))

ReqHeaderSendCrlf ==
    /\ At("REQ_HEADER_SEND_CRLF")
    /\ Sends(Part("crlf"),
             [khc EXCEPT !.state = "REQ_HEADER", !.req_header = @ + 1])

ReqHeaderEnd ==
    /\ At("REQ_HEADER_END")
    /\ Sends(Framing \o Part("end"),
             IF HasReqBody
             THEN [khc EXCEPT !.state = "REQ_BODY_READ", !.read_req_end = FALSE,
                              !.req_body_left = request.length]
             ELSE [khc EXCEPT !.state = "RESP_STATUS_READ", !.read_req_end = FALSE,
                              !.resp_header_buff = <<>>])

\* What the read callback gives the i-th time, n bytes of it, and in a chunk.
Given(i, n) == [j \in 1..n |-> <<"data", i, j>>]
Frame(i, n) == <<<<"size", n>>>> \o Given(i, n) \o <<<<"crlf", 2>>>>

\* The callback may return any size; one that is more than it was asked for,
\* or none of a length that isn't over, ends the request.
ReqBodyReadLength ==
    /\ request.length # Chunked
    /\ LET want == Min({khc.req_body_left, exchange.stream_size}) IN
       \E got \in 0..want + 1 :
          /\ got \in 1..want \/ may("read")
          /\ reads' = IF got \in 1..want THEN Append(reads, got) ELSE reads
          /\ khc' = IF got \notin 1..want THEN Fails(khc, "READ_CALLBACK")
                    ELSE [khc EXCEPT !.state = "REQ_BODY_SEND",
                                     !.req_body_left = @ - got,
                                     !.read_req_end = khc.req_body_left = got,
                                     !.req_frame = Given(Len(reads) + 1, got)]

\* Room in the stream buffer for a size line of one digit and a CRLF before the
\* data, and for a CRLF after it.
LineRoom == 3
ReqBodyReadChunk ==
    /\ request.length = Chunked
    /\ IF exchange.stream_size <= LineRoom + 2
       THEN khc' = Fails(khc, "TOO_LARGE_DATA") /\ UNCHANGED reads
       ELSE LET capacity == exchange.stream_size - LineRoom - 2 IN
            \E got \in 0..capacity + 1 :
               /\ FoldLeft(+, got, reads) <= MaxData
               /\ got <= capacity \/ may("read")
               /\ reads' = IF got <= capacity THEN Append(reads, got) ELSE reads
               /\ khc' = IF got > capacity THEN Fails(khc, "READ_CALLBACK")
                         ELSE [khc EXCEPT !.state = "REQ_BODY_SEND",
                                          !.read_req_end = got = 0,
                                          !.req_frame = Frame(Len(reads) + 1, got)]

ReqBodyRead ==
    /\ At("REQ_BODY_READ")
    /\ ReqBodyReadLength \/ ReqBodyReadChunk
    /\ UNCHANGED <<requestVars, sock, wire, sent, body, stray>>

ReqBodySend ==
    /\ At("REQ_BODY_SEND")
    /\ Sends(khc.req_frame,
             IF khc.read_req_end
             THEN [khc EXCEPT !.state = "RESP_STATUS_READ", !.resp_header_buff = <<>>]
             ELSE Goto(khc, "REQ_BODY_READ"))

-----------------------------------------------------------------------------
(* The head of the response.                                               *)

HeaderRoom(k) == exchange.header_size - Len(k.resp_header_buff) - 1

RespStatusRead ==
    LET Got(data) ==
            LET k == [khc EXCEPT !.resp_header_buff = @ \o data] IN
            IF find_crlf(k.resp_header_buff) # 0 THEN Goto(k, "RESP_STATUS_PARSE")
            ELSE IF HeaderRoom(k) = 0 THEN Fails(k, "TOO_LARGE_DATA")
            ELSE IF data = <<>> THEN ClosedEarly(k)
            ELSE k
    IN  /\ At("RESP_STATUS_READ")
        /\ Recv(khc, HeaderRoom(khc), Got)
        /\ UNCHANGED stray

Line(data) == SubSeq(data, 1, find_crlf(data) - 1)
AfterLine(data) == SubSeq(data, find_crlf(data) + 2, Len(data))

RespStatusParse ==
    LET line == Line(khc.resp_header_buff) IN
    /\ At("RESP_STATUS_PARSE")
    /\ Then(IF ~is_status_line(line) THEN Fails(khc, "INVALID_RESPONSE")
            ELSE [khc EXCEPT !.state = "RESP_HEADER_CALLBACK",
                             !.status = Statuses[Head(line)],
                             !.status_line_given = FALSE,
                             !.version_1_0 = Is10(line),
                             !.content_length = 0,
                             !.has_content_length = FALSE,
                             !.chunked = FALSE])

\* What a header that khc needs says of the body.
Framed(k, line) ==
    CASE is_chunked_encoding(line) = "chunked" -> [k EXCEPT !.chunked = TRUE]
      [] is_chunked_encoding(line) = "invalid" -> Fails(k, "INVALID_RESPONSE")
      [] is_header_present("Content-Length:", line) ->
           LET length == read_content_length(line) IN
           IF \/ length = Invalid
              \/ k.has_content_length /\ length # k.content_length
           THEN Fails(k, "INVALID_RESPONSE")
           ELSE [k EXCEPT !.content_length = length, !.has_content_length = TRUE]
      [] OTHER -> k

\* The headers are over.
HeadersEnd(k) ==
    IF k.status \in 100..199
    THEN Goto(k, IF find_crlf(k.resp_header_buff) # 0 THEN "RESP_STATUS_PARSE"
                 ELSE "RESP_STATUS_READ")
    ELSE IF request.method = "HEAD" \/ k.status \in {204, 304} THEN Goto(k, "CLOSE")
    ELSE IF k.chunked /\ (k.has_content_length \/ k.version_1_0)
    THEN Fails(k, "INVALID_RESPONSE")
    ELSE IF k.chunked
    THEN [k EXCEPT !.state = "RESP_BODY_PARSE_CHUNK_SIZE", !.stream_buff = <<>>]
    ELSE Goto(k, "RESP_BODY_FRAGMENT")

RespHeaderCallback ==
    LET buff == khc.resp_header_buff
        line == Line(buff)
        given == [khc EXCEPT !.status_line_given = TRUE,
                             !.resp_header_buff = AfterLine(buff)]
    IN  /\ At("RESP_HEADER_CALLBACK")
        /\ IF find_crlf(buff) = 0
           THEN Then(IF HeaderRoom(khc) > 0 THEN Goto(khc, "RESP_HEADER_READ")
                     ELSE IF ~is_header_start(buff) THEN Fails(khc, "INVALID_RESPONSE")
                     ELSE [khc EXCEPT !.state = "RESP_HEADER_SKIP",
                                      !.header_skipped = TRUE])
           ELSE IF line = <<>>
           THEN Then(HeadersEnd([khc EXCEPT !.resp_header_buff = AfterLine(buff)]))
           ELSE IF khc.status_line_given /\ ~is_header_line(line)
           THEN Then(Fails(khc, "INVALID_RESPONSE"))
           ELSE \/ Then(Framed(given, line))
                \/ may("header") /\ Then(Fails(khc, "HEADER_CALLBACK"))

RespHeaderRead ==
    LET Got(data) ==
            IF data = <<>> THEN ClosedEarly(khc)
            ELSE [khc EXCEPT !.state = "RESP_HEADER_CALLBACK",
                             !.resp_header_buff = @ \o data]
    IN  /\ At("RESP_HEADER_READ")
        /\ Recv(khc, HeaderRoom(khc), Got)
        /\ UNCHANGED stray

\* The header that is skipped goes on, or ends, with data after what was kept of it.
Skipped(kept, data) ==
    LET k == [khc EXCEPT !.resp_header_buff = kept \o data]
        end == find_crlf(k.resp_header_buff)
        value == IF end # 0 THEN Line(k.resp_header_buff)
                 ELSE WithoutLastCR(k.resp_header_buff)
    IN  IF data = <<>> THEN ClosedEarly(k)
        ELSE IF ~is_field_text(value) THEN Fails(k, "INVALID_RESPONSE")
        ELSE IF end = 0 THEN k
        ELSE [k EXCEPT !.state = "RESP_HEADER_CALLBACK", !.resp_header_buff = AfterLine(@)]

\* Of what has been read only a CR at its end is kept.
Kept(last) == IF last = "CR" THEN <<"CR">> ELSE <<>>

\* With nothing in the buffer the code looks at the byte before it, which can be any.
RespHeaderSkip ==
    LET buff == khc.resp_header_buff IN
    /\ At("RESP_HEADER_SKIP")
    /\ IF \/ is_header_present("Content-Length:", buff)
          \/ is_header_present("Transfer-Encoding:", buff)
       THEN Then(Fails(khc, "TOO_LARGE_DATA"))
       ELSE \E last \in IF buff = <<>> THEN {"CR", "x"} ELSE {Last(buff)} :
              LET k == [khc EXCEPT !.resp_header_buff = Kept(last)]
                  Got(data) == Skipped(Kept(last), data)
              IN  /\ Recv(k, HeaderRoom(k), Got)
                  /\ stray' = (stray \/ (buff = <<>> /\ last = "CR"))

-----------------------------------------------------------------------------
(* The body of the response, up to its length or to the end of the         *)
(* connection.                                                             *)

EndRespBody(k) ==
    IF k.body_received < k.content_length THEN ClosedEarly(k) ELSE Goto(k, "CLOSE")

BodyComplete(k) == k.has_content_length /\ k.body_received >= k.content_length

\* Mutant: what comes after the body on the connection is body too.
BodyPartAll(data) == data

\* How much of data is body.
BodyPart(data) ==
    IF ~khc.has_content_length THEN data
    ELSE IF BodyComplete(khc) THEN <<>>
    ELSE SubSeq(data, 1, Min({Len(data), khc.content_length - khc.body_received}))

WritesBody(data) ==
    LET part == BodyPart(data)
        k == [khc EXCEPT !.body_received = @ + Len(part)]
    IN  Writes(part, IF BodyComplete(k) THEN EndRespBody(k) ELSE Goto(k, "RESP_BODY_READ"))

RespBodyFragment == At("RESP_BODY_FRAGMENT") /\ WritesBody(khc.resp_header_buff)

RespBodyRead ==
    LET Got(data) ==
            LET k == [khc EXCEPT !.stream_buff = data] IN
            IF data = <<>> THEN EndRespBody(k) ELSE Goto(k, "RESP_BODY_CALLBACK")
    IN  /\ At("RESP_BODY_READ")
        /\ Recv(khc, exchange.stream_size, Got)
        /\ UNCHANGED stray

RespBodyCallback == At("RESP_BODY_CALLBACK") /\ WritesBody(khc.stream_buff)

-----------------------------------------------------------------------------
(* The body of the response, in chunks: what was read with the headers     *)
(* comes first, a part at a time through the stream buffer.                *)

StreamRoom(k) == exchange.stream_size - Len(k.stream_buff)

\* _move_resp_header_to_stream(), where there is room.
Moved(k) ==
    LET n == Min({StreamRoom(k), Len(k.resp_header_buff)}) IN
    [k EXCEPT !.stream_buff = @ \o SubSeq(k.resp_header_buff, 1, n),
              !.resp_header_buff = SubSeq(@, n + 1, Len(@))]

MovedTo(state) ==
    Then(IF StreamRoom(khc) = 0 THEN Fails(khc, "TOO_LARGE_DATA")
         ELSE Goto(Moved(khc), state))

ReadChunkSizeFromHeaderBuff ==
    At("READ_CHUNK_SIZE_FROM_HEADER_BUFF") /\ MovedTo("RESP_BODY_PARSE_CHUNK_SIZE")

ReadChunkBodyFromHeaderBuff ==
    At("READ_CHUNK_BODY_FROM_HEADER_BUFF") /\ MovedTo("RESP_BODY_PARSE_CHUNK_BODY")

RespBodyParseChunkSize ==
    LET size == read_chunk_size(Line(khc.stream_buff))
        k == [khc EXCEPT !.chunk_size = size, !.chunk_size_written = 0,
                         !.stream_buff = AfterLine(@)]
    IN  /\ At("RESP_BODY_PARSE_CHUNK_SIZE")
        /\ Then(IF find_crlf(khc.stream_buff) = 0
                THEN Goto(khc, IF khc.resp_header_buff # <<>>
                               THEN "READ_CHUNK_SIZE_FROM_HEADER_BUFF"
                               ELSE "RESP_BODY_READ_CHUNK_SIZE")
                ELSE IF size = Invalid THEN Fails(khc, "INVALID_RESPONSE")
                ELSE IF size > 0 THEN Goto(k, "RESP_BODY_PARSE_CHUNK_BODY")
                ELSE [k EXCEPT !.state = "RESP_BODY_SKIP_TRAILERS",
                               !.trailer_end_matched = 2])

RespBodyReadChunkSize ==
    LET Got(data) ==
            IF data = <<>> THEN ClosedEarly(khc)
            ELSE [khc EXCEPT !.state = "RESP_BODY_PARSE_CHUNK_SIZE",
                             !.stream_buff = @ \o data]
    IN  /\ At("RESP_BODY_READ_CHUNK_SIZE")
        /\ IF StreamRoom(khc) = 0 THEN Then(Fails(khc, "TOO_LARGE_DATA"))
           ELSE Recv(khc, StreamRoom(khc), Got) /\ UNCHANGED stray

RespBodyParseChunkBody ==
    LET n == Min({khc.chunk_size - khc.chunk_size_written, Len(khc.stream_buff)})
        k == [khc EXCEPT !.chunk_size_written = @ + n, !.body_received = @ + n]
    IN  /\ At("RESP_BODY_PARSE_CHUNK_BODY")
        /\ Writes(SubSeq(khc.stream_buff, 1, n),
             IF k.chunk_size = k.chunk_size_written
             THEN [k EXCEPT !.state = "RESP_BODY_SKIP_CHUNK_BODY_CRLF",
                            !.stream_buff = SubSeq(@, n + 1, Len(@))]
             ELSE IF k.resp_header_buff # <<>>
             THEN [k EXCEPT !.state = "READ_CHUNK_BODY_FROM_HEADER_BUFF",
                            !.stream_buff = <<>>]
             ELSE Goto(k, "RESP_BODY_READ_CHUNK_BODY"))

RespBodyReadChunkBody ==
    LET Got(data) ==
            IF data = <<>> THEN ClosedEarly(khc)
            ELSE [khc EXCEPT !.state = "RESP_BODY_PARSE_CHUNK_BODY", !.stream_buff = data]
    IN  /\ At("RESP_BODY_READ_CHUNK_BODY")
        /\ Recv(khc, exchange.stream_size, Got)
        /\ UNCHANGED stray

\* The CRLF after the data of a chunk, of which one symbol may have come: read a
\* symbol at a time, as nothing past it may be.
RespBodySkipChunkBodyCrlf ==
    LET buff == khc.stream_buff
        Got(data) ==
            IF data = <<>> THEN ClosedEarly(khc)
            ELSE IF ~IsPrefix(buff \o data, CRLF) THEN Fails(khc, "INVALID_RESPONSE")
            ELSE IF Len(buff \o data) < 2 THEN [khc EXCEPT !.stream_buff = <<"CR">>]
            ELSE [khc EXCEPT !.state = "RESP_BODY_PARSE_CHUNK_SIZE", !.stream_buff = <<>>]
    IN  /\ At("RESP_BODY_SKIP_CHUNK_BODY_CRLF")
        /\ IF ~IsPrefix(SubSeq(buff, 1, Min({2, Len(buff)})), CRLF)
           THEN Then(Fails(khc, "INVALID_RESPONSE"))
           ELSE IF Len(buff) >= 2
           THEN Then([khc EXCEPT !.state = "RESP_BODY_PARSE_CHUNK_SIZE",
                                 !.stream_buff = SubSeq(@, 3, Len(@))])
           ELSE IF khc.resp_header_buff # <<>> THEN Then(Moved(khc))
           ELSE Recv(khc, 2 - Len(buff), Got) /\ UNCHANGED stray

\* How much of the empty line that ends the trailers is matched after data; once
\* it has been, it stays so.
MatchedAfter(matched, data) ==
    LET Match(m, c) ==
            IF m = 4 THEN 4
            ELSE IF c = (CRLF \o CRLF)[m + 1] THEN m + 1
            ELSE IF c = "CR" THEN 1 ELSE 0
    IN  FoldLeft(Match, matched, data)

RespBodySkipTrailers ==
    LET matched == MatchedAfter(khc.trailer_end_matched,
                                khc.stream_buff \o khc.resp_header_buff)
        k == [khc EXCEPT !.trailer_end_matched = matched,
                         !.stream_buff = <<>>, !.resp_header_buff = <<>>]
        Got(data) ==
            IF data = <<>> THEN Goto(k, "CLOSE") ELSE [k EXCEPT !.stream_buff = data]
    IN  /\ At("RESP_BODY_SKIP_TRAILERS")
        /\ IF matched = 4
           THEN Then([khc EXCEPT !.state = "CLOSE", !.trailer_end_matched = 4])
           ELSE Recv(k, exchange.stream_size, Got) /\ UNCHANGED stray

-----------------------------------------------------------------------------
(* Closing, stopping and returning.                                        *)

\* Mutant: a close that fails is the request's result.
CloseFailedAsResult(k) ==
    [k EXCEPT !.state = "FINISHED", !.result = "FAIL", !.close_failed = TRUE]

CloseFailed(k) == [k EXCEPT !.state = "FINISHED", !.close_failed = TRUE]

\* khc_state_close(), on the state k.
Closes(k) ==
    /\ UNCHANGED <<requestVars, wire, historyVars>>
    /\ \/ khc' = Goto(k, "FINISHED") /\ sock' = "closed"
       \/ may("again") /\ khc' = k /\ sock' = "closing"
       \/ may("close") /\ khc' = CloseFailed(k) /\ sock' = "failed"

Close == At("CLOSE") /\ Closes(khc)

\* Mutant: the connection isn't closed.
StopForAtOnce(reason) == Then([khc EXCEPT !.state = "FINISHED", !.result = reason])

\* Mutant: a close under way is waited for.
StopForUnlessClosing(reason) ==
    CASE khc.state \in {"IDLE", "CONNECT"} ->
           Then([khc EXCEPT !.state = "FINISHED", !.result = reason])
      [] khc.state = "CLOSE" -> Then(khc)
      [] OTHER -> Closes(Fails(khc, reason))

\* Why the request may be stopped, _stop_reason().
Stoppable == late \/ ("CANCELLED" \in Stops /\ may("stop"))

\* _stop(), and the close that is its step. What it gives up in KHC_STATE_CLOSE may be a
\* close that hasn't been called.
StopFor(reason) ==
    CASE khc.state \in {"IDLE", "CONNECT"} ->
           Then([khc EXCEPT !.state = "FINISHED", !.result = reason])
      [] khc.state = "CLOSE" ->
           Then(CloseFailed(khc))
      [] OTHER -> Closes(Fails(khc, reason))

Stop ==
    /\ Running
    /\ Stoppable
    /\ StopFor(IF late THEN "TIMEOUT" ELSE "CANCELLED")

TimeRunsOut ==
    /\ phase = "loop"
    /\ ~late
    /\ "TIMEOUT" \in Stops
    /\ may("stop")
    /\ late' = TRUE
    /\ UNCHANGED <<exchange, khc, sock, wire, heap, phase, ret, historyVars>>

\* The start of khc_perform(): its checks, and the buffers it wasn't given.
Perform ==
    /\ phase = "perform"
    /\ khc' = [khc EXCEPT !.state = "IDLE", !.result = "OK", !.close_failed = FALSE,
                          !.header_skipped = FALSE]
    /\ UNCHANGED <<exchange, sock, wire, late, historyVars>>
    /\ LET missing == {"header", "stream"} \ exchange.given IN
       \/ /\ exchange.usable
          /\ heap' = missing
          /\ phase' = "loop"
          /\ UNCHANGED ret
       \/ /\ ~exchange.usable \/ (missing # {} /\ may("malloc"))
          /\ ret' = IF exchange.usable THEN "ALLOCATION" ELSE "FAIL"
          /\ phase' = "returned"
          /\ UNCHANGED heap

Return ==
    /\ phase = "loop"
    /\ khc.state = "FINISHED"
    /\ heap' = {}
    /\ ret' = khc.result
    /\ phase' = "returned"
    /\ khc' = [khc EXCEPT !.state = "IDLE", !.result = "OK"]
    /\ UNCHANGED <<exchange, sock, wire, late, historyVars>>

\* khc_reset_except_request(), and the same request on another connection.
ResetExceptRequest ==
    /\ phase = "returned"
    /\ khc' = Reset
    /\ sock' = "none"
    /\ wire' = response.wire
    /\ late' = FALSE
    /\ phase' = "perform"
    /\ ret' = "none"
    /\ sent' = <<>>
    /\ reads' = <<>>
    /\ body' = <<>>
    /\ stray' = FALSE
    /\ UNCHANGED <<exchange, heap>>

Handles ==
    \/ Idle \/ Connect \/ ReqLine \/ ReqHostHeader \/ ReqHeader \/ ReqHeaderSend
    \/ ReqHeaderSendCrlf \/ ReqHeaderEnd \/ ReqBodyRead \/ ReqBodySend
    \/ RespStatusRead \/ RespStatusParse \/ RespHeaderCallback \/ RespHeaderRead
    \/ RespHeaderSkip \/ RespBodyFragment \/ ReadChunkSizeFromHeaderBuff
    \/ ReadChunkBodyFromHeaderBuff \/ RespBodyRead \/ RespBodyCallback
    \/ RespBodyParseChunkSize \/ RespBodyReadChunkSize \/ RespBodyParseChunkBody
    \/ RespBodyReadChunkBody \/ RespBodySkipChunkBodyCrlf \/ RespBodySkipTrailers
    \/ Close

KhcNext == Perform \/ Handles \/ Stop \/ TimeRunsOut \/ Return \/ ResetExceptRequest

\* The task that called khc_perform() goes on, and time passes; nothing is asked of
\* the socket, which may say EBISU_SOCK_AGAIN for ever.
KhcGoesOn == Perform \/ Stop \/ Return

KhcSpec ==
    /\ KhcInit
    /\ [][KhcNext]_khcVars
    /\ WF_khcVars(KhcGoesOn)
    /\ WF_khcVars(TimeRunsOut)

-----------------------------------------------------------------------------
(* Responses that can be read: what the server says, for the properties.   *)

Ends(line) == line \o CRLF
Text(lines) == FlattenSeq([i \in 1..Len(lines) |-> Ends(lines[i])])
ChunkText(chunks) ==
    FlattenSeq([i \in 1..Len(chunks) |-> Ends(chunks[i].size) \o Ends(chunks[i].data)])
Joined(chunks) == FlattenSeq([i \in 1..Len(chunks) |-> chunks[i].data])

\* A response r is r.lines, with an empty one before each head but the first, an empty
\* line and r.rest.  Its last head starts at r.final, and only those before it are of an
\* interim status.
StartsHead(r, i) == i \in 1..Len(r.lines) /\ (i = 1 \/ r.lines[i - 1] = <<>>)
StatusOf(r, i) == Statuses[Head(r.lines[i])]
HasHead(r) ==
    /\ LET S == Range(r.wire) IN r.lines \in Seq(Seq(S)) /\ r.rest \in Seq(S)
    /\ r.wire = Text(r.lines) \o (CRLF \o r.rest)
    /\ \A i \in 1..Len(r.lines) : is_field_text(r.lines[i])
    /\ StartsHead(r, r.final) /\ is_status_line(r.lines[r.final])
    /\ \A i \in r.final..Len(r.lines) : r.lines[i] # <<>>
    /\ \A i \in 1..Len(r.lines) :
        StartsHead(r, i) /\ is_status_line(r.lines[i])
            => (i = r.final <=> StatusOf(r, i) \notin 100..199)

\* What its last head says of its body.
FinalHeaders(r) == {r.lines[i] : i \in r.final + 1..Len(r.lines)}
LengthHeaders(r) == {line \in FinalHeaders(r) : is_header_present("Content-Length:", line)}
IsChunked(r) == \E line \in FinalHeaders(r) : is_chunked_encoding(line) = "chunked"

\* The rest is r.chunks, the size line r.last of the last and r.trailers.
HasChunks(r) ==
    /\ LET S == Range(r.wire) IN
       /\ r.chunks \in Seq([size : Seq(S), data : Seq(S)])
       /\ r.last \in Seq(S) /\ r.trailers \in Seq(S)
    /\ r.rest = ChunkText(r.chunks) \o (Ends(r.last) \o r.trailers)
    /\ \A i \in 1..Len(r.chunks) :
        /\ is_field_text(r.chunks[i].size) /\ r.chunks[i].data # <<>>
        /\ read_chunk_size(r.chunks[i].size) = Len(r.chunks[i].data)
    /\ is_field_text(r.last) /\ read_chunk_size(r.last) = 0
    /\ r.body = Joined(r.chunks)

\* The rest starts with the body, as long as every header says that says its length.
HasLength(r) ==
    \E n \in 0..Len(r.rest) :
        /\ r.body = SubSeq(r.rest, 1, n)
        /\ \A line \in LengthHeaders(r) : read_content_length(line) = n

\* r is a response to a request of this method, and its body is r.body.
CanBeRead(method, r) ==
    /\ HasHead(r)
    /\ IF method = "HEAD" \/ StatusOf(r, r.final) \in {204, 304} THEN r.body = <<>>
       ELSE IF IsChunked(r) THEN HasChunks(r)
       ELSE IF LengthHeaders(r) # {} THEN HasLength(r)
       ELSE r.body = r.rest /\ r.framing = "close"

\* A response said to be one is one.
ASSUME ResponsesAssumption ==
    \A e \in Exchanges :
        e.response.verdict = "OK" => CanBeRead(e.request.method, e.response)

-----------------------------------------------------------------------------
(* Properties.                                                             *)

\* The application gets the body the server sent, in order, without framing and
\* with nothing of an earlier request, however it was cut by reads and buffers.
\* KHC_ERR_OK says that it has all of it, unless only the end of the
\* connection could tell, and never comes of a response that can be read two ways.
DeliversBody ==
    /\ IsPrefix(body, response.body)
    /\ ret = "OK" =>
         /\ response.verdict = "OK"
         /\ response.framing # "close" => body = response.body

\* A response is refused only for what README.md says of it: it can't be read, or
\* a line that khc needs is longer than its buffer.  What is left out here is a
\* byte from outside the buffer, which RespHeaderSkip may take for a CR.
RefusedForAReason ==
    ret \in {"INVALID_RESPONSE", "TOO_LARGE_DATA"} =>
        ret = response.verdict \/ stray \/ ret = request.verdict

\* The same, of what the code does: README.md has a header that doesn't fit skipped.
LongHeaderIsSkipped ==
    ret \in {"INVALID_RESPONSE", "TOO_LARGE_DATA"} =>
        ret \in {response.verdict, request.verdict}

\* The request as it should be on the wire.
HeaderOf(h) == IF h \in Unsent THEN <<>> ELSE Part(h) \o Part("crlf")
Headers == FlattenSeq([i \in 1..Len(request.headers) |-> HeaderOf(request.headers[i])])
BodyOf(sizes) ==
    FlattenSeq([i \in 1..Len(sizes) |->
        IF request.length = Chunked THEN Frame(i, sizes[i]) ELSE Given(i, sizes[i])])
Request ==
    Part("line") \o Part("host") \o Headers \o (Framing \o Part("end")) \o BodyOf(reads)

\* Whatever the socket takes at a time, the request goes out once, in order, framed
\* as its headers say, and the response is read only after the whole of it.
RequestInOrder ==
    /\ IsPrefix(sent, Request)
    /\ khc.resp_header_buff # <<>> =>
         /\ sent = Request
         /\ HasReqBody => IF request.length = Chunked THEN Last(reads) = 0
                          ELSE Len(BodyOf(reads)) = request.length

\* Until khc_perform() returns it sends and receives on an open connection, and what it
\* receives fits its buffers, the header's with a terminator. It returns with its buffers
\* freed and its connection closed, or close_failed tells that it isn't: close failed, or
\* was given up, called or not, which only a request that was stopped does.
LeavesNothing ==
    /\ phase = "loop" =>
         /\ Len(khc.resp_header_buff) < exchange.header_size
         /\ Len(khc.stream_buff) <= exchange.stream_size
         /\ khc.state \notin {"IDLE", "CONNECT", "CLOSE", "FINISHED"} => sock = "open"
    /\ phase = "returned" =>
         /\ heap = {}
         /\ sock \in {"open", "closing", "failed"} => khc.close_failed
         /\ sock \in {"open", "closing"} => Stoppable

\* Once connected, close is called when the request ends (khc.h:618-619): khc_perform()
\* doesn't return with a connection that it hasn't tried to close.
CloseIsCalled == phase = "returned" => sock # "open"

\* Once a request has its result, closing doesn't change it: a POST that the server
\* acted on never looks as if it hadn't, nor a failure as another.
ResultKept == [][khc.state = "CLOSE" => khc'.result = khc.result]_khcVars

\* A request with a timeout returns, whatever its socket does, one that says
\* EBISU_SOCK_AGAIN to every close included.
PerformEnds ==
    phase = "perform" /\ "TIMEOUT" \in Stops /\ may("stop") ~> phase = "returned"

=============================================================================
