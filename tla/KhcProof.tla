------------------------------ MODULE KhcProof ------------------------------
(***************************************************************************)
(* Proofs about the HTTP client, for buffers of any sizes, any requests    *)
(* and responses, whatever the socket takes, gives and fails at.           *)
(***************************************************************************)
EXTENDS Khc, SequenceFacts, FiniteSetTheorems

-----------------------------------------------------------------------------
(* The HTTP client: numbers, lines and what is received.                   *)

\* A digit added to a number makes a number.
LEMMA WithDigitType ==
    ASSUME NEW value \in Nat, NEW d, NEW base \in Nat
    PROVE  WithDigit(value, d, base) \in Nat
  <1>1. \A c \in DOMAIN Digits : Digits[c] \in Nat
    BY DEF Digits
  <1>2. Invalid \in Nat
    BY KhcAssumption DEF Invalid
  <1>3. CASE d \in DOMAIN Digits
    <2>1. Digits[d] \in Nat
      BY <1>1, <1>3
    <2>2. value * base + Digits[d] \in Nat
      BY <2>1
    <2>3. QED
      BY <1>2, <2>2, Zenon DEF WithDigit
  <1>4. CASE d \notin DOMAIN Digits
    BY <1>2, <1>4 DEF WithDigit
  <1>5. QED
    BY <1>3, <1>4

\* What the first n of digits come to, each.
Numbers(digits, base, n, f) ==
    f = [i \in 0 .. n |-> IF i = 0 THEN 0 ELSE WithDigit(f[i - 1], digits[i], base)]

\* There is such a function.
LEMMA NumbersExist == ASSUME NEW s, NEW base, NEW n \in Nat PROVE \E f : Numbers(s, base, n, f)
  <1> DEFINE Bad == {m \in Nat : ~\E f : Numbers(s, base, m, f)}
  <1>1. Bad = {}
    <2> SUFFICES ASSUME Bad # {} PROVE FALSE
      OBVIOUS
    <2>1. PICK m \in Bad : \A l \in Bad : m <= l
      <3>1. Bad \in SUBSET Nat
        OBVIOUS
      <3>2. QED
        BY <3>1, Least
    <2>2. m \in Nat /\ ~\E f : Numbers(s, base, m, f)
      BY <2>1
    <2>3. m # 0
      <3>1. Numbers(s, base, 0, [i \in 0 .. 0 |-> 0])
        BY DEF Numbers
      <3>2. QED
        BY <2>2, <3>1
    <2>4. PICK f : Numbers(s, base, m - 1, f)
      BY <2>1, <2>2, <2>3
    <2> DEFINE last == WithDigit(f[m - 1], s[m], base)
               g == [i \in 0 .. m |-> IF i = m THEN last ELSE f[i]]
    <2>5. f = [i \in 0 .. (m - 1) |-> IF i = 0 THEN 0 ELSE WithDigit(f[i - 1], s[i], base)]
      BY <2>4 DEF Numbers
    <2>6. ASSUME NEW i \in 0 .. m
          PROVE  g[i] = IF i = 0 THEN 0 ELSE WithDigit(g[i - 1], s[i], base)
      <3>1. CASE i = m
        <4>1. g[i] = last
          BY <3>1
        <4>2. g[m - 1] = f[m - 1]
          BY <2>2, <2>3
        <4>3. QED
          BY <2>3, <3>1, <4>1, <4>2
      <3>2. CASE i # m
        <4>1. i \in 0 .. (m - 1) /\ g[i] = f[i]
          BY <2>2, <3>2
        <4>2. i # 0 => g[i - 1] = f[i - 1]
          BY <2>2, <3>2
        <4>3. f[i] = IF i = 0 THEN 0 ELSE WithDigit(f[i - 1], s[i], base)
          BY <2>5, <4>1
        <4> HIDE DEF g
        <4>4. QED
          BY <4>1, <4>2, <4>3
      <3>3. QED
        BY <3>1, <3>2
    <2>7. g = [i \in 0 .. m |-> g[i]]
      OBVIOUS
    <2> HIDE DEF g
    <2>8. Numbers(s, base, m, g)
      BY <2>6, <2>7 DEF Numbers
    <2>9. QED
      BY <2>2, <2>8
  <1>2. QED
    BY <1>1

\* Digits are a number, or Invalid, which is one too.
LEMMA NumberType ==
    ASSUME NEW S, NEW s \in Seq(S), NEW base \in Nat
    PROVE  Number(s, base) \in Nat
  <1> DEFINE n == Len(s)
             F == CHOOSE f : Numbers(s, base, n, f)
  <1>1. n \in Nat
    OBVIOUS
  <1>2. Invalid \in Nat
    BY KhcAssumption DEF Invalid
  <1>3. Number(s, base) \in {Invalid, F[n]}
    BY DEF Number, Numbers
  <1>4. \E f : Numbers(s, base, n, f)
    BY <1>1, NumbersExist
  <1> HIDE DEF n
  <1>5. Numbers(s, base, n, F)
    BY <1>4, Zenon
  <1> HIDE DEF F
  <1>6. \A i \in 0 .. n : F[i] \in Nat
    <2> DEFINE Bad == {i \in 0 .. n : F[i] \notin Nat}
    <2> SUFFICES ASSUME Bad # {} PROVE FALSE
      OBVIOUS
    <2>1. PICK i \in Bad : \A l \in Bad : i <= l
      <3>1. Bad \in SUBSET Nat
        BY <1>1
      <3>2. QED
        BY <3>1, Least
    <2>2. F[i] = IF i = 0 THEN 0 ELSE WithDigit(F[i - 1], s[i], base)
      BY <1>5, <2>1 DEF Numbers
    <2>3. i # 0 => F[i - 1] \in Nat
      BY <1>1, <2>1
    <2>4. CASE i = 0
      BY <2>1, <2>2, <2>4
    <2>5. CASE i # 0
      <3>1. WithDigit(F[i - 1], s[i], base) \in Nat
        BY <2>3, <2>5, WithDigitType
      <3>2. QED
        BY <2>1, <2>2, <2>5, <3>1
    <2>6. QED
      BY <2>4, <2>5
  <1>7. F[n] \in Nat
    BY <1>1, <1>6
  <1>8. QED
    BY <1>2, <1>3, <1>7

\* Where a line ends.
LEMMA FindCrlf ==
    ASSUME NEW S, NEW data \in Seq(S)
    PROVE  find_crlf(data) \in Nat /\ (find_crlf(data) # 0 => find_crlf(data) < Len(data))
  <1> DEFINE ends == {i \in 1 .. Len(data) - 1 : SubSeq(data, i, i + 1) = CRLF}
  <1>1. Len(data) \in Nat
    OBVIOUS
  <1>2. ends \subseteq 1 .. Len(data) - 1
    OBVIOUS
  <1>3. CASE ends = {}
    BY <1>3 DEF find_crlf
  <1>4. CASE ends # {}
    <2>1. ends \in SUBSET Nat
      BY <1>1, <1>2
    <2>2. find_crlf(data) = Min(ends)
      BY <1>4 DEF find_crlf
    <2> HIDE DEF ends
    <2>3. Min(ends) \in ends
      BY <1>4, <2>1, MinIsIn
    <2>4. find_crlf(data) \in 1 .. Len(data) - 1
      BY <1>2, <2>2, <2>3, Zenon
    <2>5. QED
      BY <1>1, <2>4
  <1>5. QED
    BY <1>3, <1>4

\* What is after a line is no more than there was, and the line no more either.
LEMMA LineType ==
    ASSUME NEW S, NEW data \in Seq(S), find_crlf(data) # 0
    PROVE  /\ Line(data) \in Seq(S)
           /\ AfterLine(data) \in Seq(S) /\ Len(AfterLine(data)) <= Len(data)
  <1>1. find_crlf(data) \in Nat /\ find_crlf(data) < Len(data)
    BY FindCrlf
  <1>2. QED
    BY <1>1 DEF Line, AfterLine

\* The size of a chunk.
LEMMA ChunkSizeType ==
    ASSUME NEW S, NEW line \in Seq(S)
    PROVE  read_chunk_size(line) \in Nat
  <1> DEFINE semicolons == {i \in 1 .. Len(line) : line[i] = ";"}
             digits == IF semicolons = {} THEN line ELSE SubSeq(line, 1, Min(semicolons) - 1)
  <1>1. digits \in Seq(S)
    <2>1. CASE semicolons = {}
      BY <2>1, Zenon
    <2>2. CASE semicolons # {}
      <3>1. semicolons \subseteq 1 .. Len(line)
        BY Zenon
      <3> HIDE DEF semicolons
      <3>2. semicolons \in SUBSET Nat
        BY <3>1
      <3>3. Min(semicolons) \in semicolons
        BY <2>2, <3>2, MinIsIn
      <3>4. Min(semicolons) \in 1 .. Len(line)
        BY <3>1, <3>3, Zenon
      <3>5. digits = SubSeq(line, 1, Min(semicolons) - 1)
        BY <2>2
      <3>6. QED
        BY <3>4, <3>5
    <2>3. QED
      BY <2>1, <2>2, Zenon
  <1>2. Number(digits, 16) \in Nat
    <2> HIDE DEF digits
    <2>1. QED
      BY <1>1, NumberType
  <1>3. Invalid \in Nat
    BY KhcAssumption DEF Invalid
  <1>4. QED
    BY <1>2, <1>3, Zenon DEF read_chunk_size

-----------------------------------------------------------------------------
(* The HTTP client: its buffers, and its connection.                       *)

Symbols == Range(response.wire) \cup {"CR"}
Fields == DOMAIN Reset

\* The states before the response.
SendStates ==
    {"IDLE", "CONNECT", "REQ_LINE", "REQ_HOST_HEADER", "REQ_HEADER", "REQ_HEADER_SEND",
     "REQ_HEADER_SEND_CRLF", "REQ_HEADER_END", "REQ_BODY_READ", "REQ_BODY_SEND"}

\* What a buffer holds fits in it, and of a chunk no more is written than there is.
Buffers(k) ==
    /\ DOMAIN k = Fields
    /\ k.resp_header_buff \in Seq(Symbols)
    /\ Len(k.resp_header_buff) < exchange.header_size
    /\ k.stream_buff \in Seq(Symbols)
    /\ Len(k.stream_buff) <= exchange.stream_size
    /\ k.chunk_size \in Nat
    /\ k.chunk_size_written \in 0 .. k.chunk_size
    /\ k.state = "RESP_HEADER_SKIP" => exchange.header_size >= 2

\* The connection as a request leaves it.
AsLeft ==
    /\ sock \in {"open", "closing", "failed"} => khc.close_failed
    /\ sock \in {"open", "closing"} => Stoppable

\* The connection is open from REQ_LINE on until it is closed.
Connection ==
    /\ phase \in {"perform", "loop", "returned"}
    /\ phase # "loop" => khc.state = "IDLE" /\ heap = {}
    /\ phase = "perform" => sock = "none"
    /\ phase = "returned" => AsLeft
    /\ phase = "loop" =>
        /\ khc.state \in {"IDLE", "CONNECT"} => sock \in {"none", "connecting"}
        /\ khc.state = "FINISHED" => AsLeft
        /\ khc.state = "CLOSE" => sock \in {"open", "closing"}
        /\ khc.state \notin {"IDLE", "CONNECT", "CLOSE", "FINISHED"} => sock = "open"

BuffersInv ==
    /\ exchange \in Exchanges
    /\ wire \in Seq(Symbols)
    /\ Buffers(khc)
    /\ Connection

\* The names of the fields the proofs look at.
LEMMA FieldNames ==
    /\ "state" \in Fields /\ "result" \in Fields /\ "close_failed" \in Fields
    /\ "resp_header_buff" \in Fields /\ "stream_buff" \in Fields
    /\ "chunk_size" \in Fields /\ "chunk_size_written" \in Fields
    /\ "sent_length" \in Fields /\ "req_header" \in Fields /\ "req_body_left" \in Fields
    /\ "req_frame" \in Fields /\ "read_req_end" \in Fields
  BY DEF Fields, Reset

\* A response is symbols, and the buffers have their sizes.
LEMMA ExchangeType ==
    ASSUME exchange \in Exchanges
    PROVE  /\ exchange.header_size \in Nat \ {0} /\ exchange.stream_size \in Nat \ {0}
           /\ response.wire \in Seq(Symbols)
  <1>1. /\ exchange.header_size \in Nat \ {0} /\ exchange.stream_size \in Nat \ {0}
        /\ response.wire \in Seq(Range(response.wire))
    BY KhcAssumption DEF response
  <1>2. Range(response.wire) \subseteq Symbols
    BY DEF Symbols
  <1> HIDE DEF Symbols
  <1>3. response.wire \in Seq(Symbols)
    <2> DEFINE w == response.wire
               R == Range(w)
    <2>1. w \in Seq(R) /\ R \subseteq Symbols
      BY <1>1, <1>2
    <2> HIDE DEF w, R
    <2>2. w \in Seq(Symbols)
      BY <2>1
    <2>3. QED
      BY <2>2 DEF w
  <1>4. QED
    BY <1>1, <1>3

\* A state of the response, or its end.
Responding(k) == Buffers(k) /\ k.state \notin SendStates \cup {"FINISHED"}

\* What a handler of the response does at most.
Responds ==
    /\ Responding(khc)'
    /\ wire' \in Seq(Symbols)
    /\ UNCHANGED <<exchange, heap, phase, ret, sock, sent, reads>>

\* Where the handler comes from.
InResponse == BuffersInv /\ phase = "loop" /\ khc.state \notin SendStates \cup {"CLOSE", "FINISHED"}

\* Going on to another state, failing included.
LEMMA GotoResponding ==
    ASSUME NEW k, Buffers(k), NEW state, state \notin SendStates \cup {"FINISHED"},
           state = "RESP_HEADER_SKIP" => exchange.header_size >= 2
    PROVE  Responding(Goto(k, state))
  BY FieldNames DEF Goto, Responding, Buffers

\* So is one that fails, to close the connection.
LEMMA FailsResponding ==
    ASSUME NEW k, Buffers(k), NEW code
    PROVE  Responding(Fails(k, code)) /\ Responding(ClosedEarly(k))
           /\ Responding([Fails(k, code) EXCEPT !.sock_error = "failed"])
  BY FieldNames DEF Fails, ClosedEarly, Responding, Buffers, SendStates

\* A handler that calls nothing, or only a callback.
LEMMA ThenResponds ==
    ASSUME BuffersInv, NEW k, Responding(k), Then(k)
    PROVE  Responds
  BY DEF BuffersInv, Then, Responds, Responding, Buffers, requestVars, historyVars, Symbols,
         response

\* So does what gives the application a part of the body.
LEMMA WritesResponds ==
    ASSUME BuffersInv, NEW data, NEW k, Responding(k), Writes(data, k)
    PROVE  Responds
  <1>1. CASE Then(Fails(khc, "WRITE_CALLBACK"))
    <2>1. Responding(Fails(khc, "WRITE_CALLBACK"))
      BY FailsResponding DEF BuffersInv
    <2>2. QED
      BY <1>1, <2>1, ThenResponds
  <1>2. CASE khc' = k /\ UNCHANGED <<requestVars, sock, wire, sent, reads, stray>>
    BY <1>2 DEF BuffersInv, Responds, Responding, Buffers, requestVars, Symbols, response
  <1>3. QED
    BY <1>1, <1>2 DEF Writes

\* What is received fits in the room there is.
LEMMA ReceivedType ==
    ASSUME BuffersInv, NEW room \in Nat, NEW data \in Received(room)
    PROVE  data \in Seq(Symbols) /\ Len(data) <= room /\ Len(data) <= Len(wire)
  <1>1. wire \in Seq(Symbols) /\ Len(wire) \in Nat
    BY DEF BuffersInv
  <1>2. CASE data = <<>>
    BY <1>1, <1>2
  <1>3. CASE data # <<>>
    <2>1. PICK n \in 1 .. Min({room, Len(wire)}) : data = SubSeq(wire, 1, n)
      BY <1>3 DEF Received
    <2>2. Min({room, Len(wire)}) \in Nat /\ Min({room, Len(wire)}) <= room
          /\ Min({room, Len(wire)}) <= Len(wire)
      BY <1>1, LesserOf
    <2> DEFINE m == Min({room, Len(wire)})
    <2>3. n \in Nat /\ n <= room /\ n <= Len(wire) /\ n >= 1
      <3>1. m \in Nat /\ m <= room /\ m <= Len(wire) /\ n \in 1 .. m
        BY <2>1, <2>2
      <3> HIDE DEF m
      <3>2. QED
        BY <1>1, <3>1
    <2> HIDE DEF m
    <2>4. QED
      BY <1>1, <2>1, <2>3
  <1>4. QED
    BY <1>2, <1>3

\* A receive that goes well goes on as Responding says, and one that doesn't, too.
Receives(k, room) ==
    \/ \E data \in Received(room) :
        /\ Responding(khc')
        /\ wire' = IF data = <<>> THEN <<>> ELSE SubSeq(wire, Len(data) + 1, Len(wire))
    \/ khc' = k /\ UNCHANGED wire
    \/ khc' = [Fails(k, "SOCK_RECV") EXCEPT !.sock_error = "failed"] /\ UNCHANGED wire

\* A receive that fails, gives nothing yet, or gives what fits keeps to them.
LEMMA RecvResponds ==
    ASSUME BuffersInv, NEW k, Responding(k), NEW room \in Nat, Receives(k, room),
           UNCHANGED <<requestVars, sock, sent, reads, body>>
    PROVE  Responds
  <1>1. exchange' = exchange /\ wire \in Seq(Symbols) /\ Buffers(k)
    BY DEF requestVars, BuffersInv, Responding
  <1>2. Symbols' = Symbols
    BY <1>1 DEF Symbols, response
  <1>3. Responding(khc')
    <2>1. CASE khc' = k
      BY <2>1
    <2>2. CASE khc' = [Fails(k, "SOCK_RECV") EXCEPT !.sock_error = "failed"]
      <3>1. Responding([Fails(k, "SOCK_RECV") EXCEPT !.sock_error = "failed"])
        BY <1>1, FailsResponding
      <3>2. QED
        BY <2>2, <3>1, Zenon
    <2>3. QED
      BY <2>1, <2>2, Zenon DEF Receives
  <1>4. wire' \in Seq(Symbols)
    <2>1. CASE UNCHANGED wire
      BY <1>1, <2>1
    <2>2. CASE \E data \in Received(room) :
                 wire' = IF data = <<>> THEN <<>> ELSE SubSeq(wire, Len(data) + 1, Len(wire))
      <3>1. PICK data \in Received(room) :
              wire' = IF data = <<>> THEN <<>> ELSE SubSeq(wire, Len(data) + 1, Len(wire))
        BY <2>2
      <3>2. data \in Seq(Symbols)
        BY ReceivedType
      <3> HIDE DEF Symbols
      <3>3. QED
        BY <1>1, <3>1, <3>2
    <2>3. QED
      BY <2>1, <2>2 DEF Receives
  <1>5. Responding(khc)'
    BY <1>1, <1>2, <1>3 DEF Responding, Buffers
  <1>6. QED
    BY <1>2, <1>4, <1>5 DEF Responds, requestVars

\* What is left of the header's buffer, and of the stream's.
LEMMA Rooms ==
    ASSUME BuffersInv, NEW k, Buffers(k)
    PROVE  HeaderRoom(k) \in Nat /\ StreamRoom(k) \in Nat
  <1>1. exchange.header_size \in Nat \ {0} /\ exchange.stream_size \in Nat \ {0}
    BY ExchangeType DEF BuffersInv
  <1>2. /\ Len(k.resp_header_buff) \in Nat /\ Len(k.resp_header_buff) < exchange.header_size
        /\ Len(k.stream_buff) \in Nat /\ Len(k.stream_buff) <= exchange.stream_size
    BY DEF Buffers
  <1>3. QED
    BY <1>1, <1>2 DEF HeaderRoom, StreamRoom

\* What was received, after what the header's buffer holds.
LEMMA HeaderFits ==
    ASSUME BuffersInv, NEW k, Buffers(k), NEW data \in Received(HeaderRoom(k))
    PROVE  /\ k.resp_header_buff \o data \in Seq(Symbols)
           /\ Len(k.resp_header_buff \o data) < exchange.header_size
  <1>1. HeaderRoom(k) \in Nat
    BY Rooms
  <1>2. data \in Seq(Symbols) /\ Len(data) <= HeaderRoom(k)
    BY <1>1, ReceivedType
  <1>3. QED
    BY <1>1, <1>2, ExchangeType, SMTT(30) DEF BuffersInv, Buffers, HeaderRoom

-----------------------------------------------------------------------------

\* RESP_STATUS_READ keeps them, reading into what is left of its buffer.
LEMMA RespStatusReadResponds == ASSUME InResponse, RespStatusRead PROVE Responds
  <1>1. BuffersInv /\ Buffers(khc) /\ khc.state = "RESP_STATUS_READ"
    BY DEF InResponse, BuffersInv, RespStatusRead, At
  <1>2. Responding(khc) /\ HeaderRoom(khc) \in Nat
    BY <1>1, Rooms DEF Responding, SendStates
  <1>3. ASSUME NEW data \in Received(HeaderRoom(khc)) ,
               NEW k, k = [khc EXCEPT !.resp_header_buff = @ \o data]
        PROVE  Responding(Goto(k, "RESP_STATUS_PARSE")) /\ Responding(Fails(k, "TOO_LARGE_DATA"))
               /\ Responding(ClosedEarly(k)) /\ Responding(k)
    <2>1. Buffers(k)
      BY <1>1, <1>3, HeaderFits, FieldNames DEF Buffers
    <2>2. k.state = "RESP_STATUS_READ"
      BY <1>1, <1>3, FieldNames DEF Buffers
    <2>3. QED
      BY <2>1, <2>2, GotoResponding, FailsResponding DEF Responding, SendStates
  <1>4. Receives(khc, HeaderRoom(khc))
    BY <1>3 DEF RespStatusRead, Recv, Receives
  <1>5. QED
    BY <1>1, <1>2, <1>4, RecvResponds DEF RespStatusRead, Recv

\* RESP_STATUS_PARSE keeps them, with the line taken off the buffer.
LEMMA RespStatusParseResponds == ASSUME InResponse, RespStatusParse PROVE Responds
  <1> DEFINE line == Line(khc.resp_header_buff)
             k == [khc EXCEPT !.state = "RESP_HEADER_CALLBACK",
                              !.status = Statuses[Head(line)],
                              !.status_line_given = FALSE,
                              !.version_1_0 = Is10(line),
                              !.content_length = 0,
                              !.has_content_length = FALSE,
                              !.chunked = FALSE]
  <1>1. BuffersInv /\ Buffers(khc)
    BY DEF InResponse, BuffersInv
  <1>2. Responding(Fails(khc, "INVALID_RESPONSE"))
    BY <1>1, FailsResponding
  <1>3. Responding(k)
    BY <1>1, FieldNames DEF Responding, Buffers, SendStates
  <1>4. Then(Fails(khc, "INVALID_RESPONSE")) \/ Then(k)
    BY DEF RespStatusParse
  <1> HIDE DEF k
  <1>5. QED
    BY <1>1, <1>2, <1>3, <1>4, ThenResponds

\* A header that khc needs changes nothing that is bounded.
LEMMA FramedResponding ==
    ASSUME NEW k, Responding(k), NEW line
    PROVE  Responding(Framed(k, line))
  <1>1. Responding(Fails(k, "INVALID_RESPONSE"))
    BY FailsResponding DEF Responding
  <1>2. Responding([k EXCEPT !.chunked = TRUE])
    BY FieldNames DEF Responding, Buffers
  <1>3. ASSUME NEW n PROVE Responding([k EXCEPT !.content_length = n, !.has_content_length = TRUE])
    BY FieldNames DEF Responding, Buffers
  <1>4. \E n : Framed(k, line) \in {k, Fails(k, "INVALID_RESPONSE"), [k EXCEPT !.chunked = TRUE],
                    [k EXCEPT !.content_length = n, !.has_content_length = TRUE]}
    <2> WITNESS read_content_length(line)
    <2>1. QED
      BY Zenon DEF Framed
  <1>5. QED
    BY <1>1, <1>2, <1>3, <1>4, Zenon

\* Nor does the end of the headers.
LEMMA HeadersEndResponding ==
    ASSUME BuffersInv, NEW k, Buffers(k)
    PROVE  Responding(HeadersEnd(k))
  <1>1. \A state \in {"RESP_STATUS_PARSE", "RESP_STATUS_READ", "CLOSE", "RESP_BODY_FRAGMENT"} :
            Responding(Goto(k, state))
    BY GotoResponding DEF SendStates
  <1>2. Responding(Fails(k, "INVALID_RESPONSE"))
    BY FailsResponding
  <1>3. Responding([k EXCEPT !.state = "RESP_BODY_PARSE_CHUNK_SIZE", !.stream_buff = <<>>])
    BY FieldNames, ExchangeType DEF Responding, Buffers, SendStates, BuffersInv
  <1>4. QED
    BY <1>1, <1>2, <1>3, Zenon DEF HeadersEnd

\* RESP_HEADER_CALLBACK keeps them, whatever the header says.
LEMMA RespHeaderCallbackResponds == ASSUME InResponse, RespHeaderCallback PROVE Responds
  <1> DEFINE buff == khc.resp_header_buff
             line == Line(buff)
             given == [khc EXCEPT !.status_line_given = TRUE, !.resp_header_buff = AfterLine(buff)]
             after == [khc EXCEPT !.resp_header_buff = AfterLine(buff)]
             skip == [khc EXCEPT !.state = "RESP_HEADER_SKIP", !.header_skipped = TRUE]
  <1>1. BuffersInv /\ Buffers(khc) /\ khc.state = "RESP_HEADER_CALLBACK"
    BY DEF InResponse, BuffersInv, RespHeaderCallback, At
  <1>2. \A code : Responding(Fails(khc, code))
    BY <1>1, FailsResponding
  <1>3. Responding(Goto(khc, "RESP_HEADER_READ"))
    BY <1>1, GotoResponding DEF SendStates
  <1>4. CASE find_crlf(buff) = 0
    <2>1. \/ Then(Goto(khc, "RESP_HEADER_READ"))
          \/ Then(Fails(khc, "INVALID_RESPONSE"))
          \/ HeaderRoom(khc) <= 0 /\ is_header_start(buff) /\ Then(skip)
      <3>1. HeaderRoom(khc) \in Nat
        BY <1>1, Rooms
      <3>2. QED
        BY <1>4, <3>1 DEF RespHeaderCallback
    <2>2. CASE is_header_start(buff) /\ HeaderRoom(khc) <= 0 /\ Then(skip)
      <3>1. buff # <<>>
        <4>1. is_header_line(<<>>) = FALSE
          BY DEF is_header_line
        <4>2. WithoutLastCR(<<>>) = <<>>
          BY DEF WithoutLastCR
        <4>3. QED
          BY <2>2, <4>1, <4>2, Zenon DEF is_header_start
      <3>2. buff \in Seq(Symbols) /\ Len(buff) < exchange.header_size
        BY <1>1 DEF Buffers
      <3>3. exchange.header_size >= 2
        <4>1. exchange.header_size \in Nat
          BY <1>1, ExchangeType DEF BuffersInv
        <4> HIDE DEF buff
        <4>2. QED
          BY <3>1, <3>2, <4>1
      <3>4. Responding(skip)
        BY <1>1, <3>3, FieldNames DEF Responding, Buffers, SendStates
      <3> HIDE DEF skip
      <3>5. QED
        BY <1>1, <2>2, <3>4, ThenResponds
    <2>3. QED
      BY <1>1, <1>2, <1>3, <2>1, <2>2, ThenResponds, Zenon
  <1>5. CASE find_crlf(buff) # 0
    <2>1. AfterLine(buff) \in Seq(Symbols) /\ Len(AfterLine(buff)) <= Len(buff)
      BY <1>1, <1>5, LineType DEF Buffers
    <2>2. Buffers(after) /\ Responding(given)
      <3>1. exchange.header_size \in Nat /\ Len(AfterLine(buff)) \in Nat /\ Len(buff) \in Nat
            /\ Len(buff) < exchange.header_size
        BY <1>1, <2>1, ExchangeType DEF BuffersInv, Buffers
      <3>2. Len(AfterLine(buff)) < exchange.header_size
        BY <2>1, <3>1
      <3>3. QED
        BY <1>1, <2>1, <3>2, FieldNames DEF Responding, Buffers, SendStates
    <2>3. Responding(HeadersEnd(after)) /\ Responding(Framed(given, line))
      <3> HIDE DEF after, given, line
      <3>1. QED
        BY <1>1, <2>2, HeadersEndResponding, FramedResponding
    <2>4. \/ Then(HeadersEnd(after))
          \/ Then(Fails(khc, "INVALID_RESPONSE"))
          \/ Then(Framed(given, line))
          \/ Then(Fails(khc, "HEADER_CALLBACK"))
      BY <1>5, Zenon DEF RespHeaderCallback
    <2> HIDE DEF after, given, line
    <2>5. QED
      BY <1>1, <1>2, <2>3, <2>4, ThenResponds, Zenon
  <1>6. QED
    BY <1>4, <1>5

\* RESP_HEADER_READ keeps them, with room in the buffer or a header to skip.
LEMMA RespHeaderReadResponds == ASSUME InResponse, RespHeaderRead PROVE Responds
  <1>1. BuffersInv /\ Buffers(khc) /\ khc.state = "RESP_HEADER_READ"
    BY DEF InResponse, BuffersInv, RespHeaderRead, At
  <1>2. Responding(khc) /\ HeaderRoom(khc) \in Nat
    BY <1>1, Rooms DEF Responding, SendStates
  <1>3. ASSUME NEW data \in Received(HeaderRoom(khc))
        PROVE  Responding([khc EXCEPT !.state = "RESP_HEADER_CALLBACK",
                                      !.resp_header_buff = @ \o data])
    BY <1>1, HeaderFits, FieldNames DEF Responding, Buffers, SendStates
  <1>4. Responding(ClosedEarly(khc))
    BY <1>1, FailsResponding
  <1>5. Receives(khc, HeaderRoom(khc))
    BY <1>3, <1>4 DEF RespHeaderRead, Recv, Receives
  <1>6. QED
    BY <1>1, <1>2, <1>5, RecvResponds DEF RespHeaderRead, Recv

\* RESP_HEADER_SKIP keeps them, also where it takes any byte for the one before.
LEMMA RespHeaderSkipResponds == ASSUME InResponse, RespHeaderSkip PROVE Responds
  <1> DEFINE buff == khc.resp_header_buff
             After(last) == [khc EXCEPT !.resp_header_buff = Kept(last)]
             With(kept, data) == [khc EXCEPT !.resp_header_buff = kept \o data]
             On(k) == [k EXCEPT !.state = "RESP_HEADER_CALLBACK",
                                !.resp_header_buff = AfterLine(@)]
  <1>1. BuffersInv /\ Buffers(khc) /\ khc.state = "RESP_HEADER_SKIP"
        /\ exchange.header_size \in Nat /\ exchange.header_size >= 2
    BY ExchangeType DEF InResponse, BuffersInv, RespHeaderSkip, At, Buffers
  <1>2. Responding(Fails(khc, "TOO_LARGE_DATA"))
    BY <1>1, FailsResponding
  <1>3. ASSUME NEW last
        PROVE  /\ Kept(last) \in Seq(Symbols) /\ Len(Kept(last)) <= 1
               /\ Responding(After(last)) /\ HeaderRoom(After(last)) \in Nat
               /\ HeaderRoom(After(last)) = exchange.header_size - Len(Kept(last)) - 1
    <2>1. Kept(last) \in Seq(Symbols) /\ Len(Kept(last)) <= 1
      <3>1. "CR" \in Symbols
        BY DEF Symbols
      <3> HIDE DEF Symbols
      <3>2. CASE last = "CR"
        BY <3>1, <3>2 DEF Kept
      <3>3. CASE last # "CR"
        BY <3>3 DEF Kept
      <3>4. QED
        BY <3>2, <3>3
    <2>2. Len(Kept(last)) < exchange.header_size
      BY <1>1, <2>1
    <2>3. Responding(After(last))
      BY <1>1, <2>1, <2>2, FieldNames DEF Responding, Buffers, SendStates
    <2>4. After(last).resp_header_buff = Kept(last)
      BY <1>1, FieldNames DEF Buffers
    <2> HIDE DEF After
    <2>5. HeaderRoom(After(last)) \in Nat
      BY <1>1, <2>3, Rooms DEF Responding
    <2>6. QED
      BY <2>1, <2>3, <2>4, <2>5 DEF HeaderRoom
  <1>4. ASSUME NEW last, NEW data \in Received(HeaderRoom(After(last)))
        PROVE  /\ Responding(With(Kept(last), data))
               /\ Responding(ClosedEarly(With(Kept(last), data)))
               /\ Responding(Fails(With(Kept(last), data), "INVALID_RESPONSE"))
               /\ find_crlf(With(Kept(last), data).resp_header_buff) # 0
                    => Responding(On(With(Kept(last), data)))
    <2> DEFINE k == With(Kept(last), data)
               room == HeaderRoom(After(last))
               kept == Kept(last)
    <2>1. kept \in Seq(Symbols) /\ room \in Nat /\ room = exchange.header_size - Len(kept) - 1
      BY <1>3
    <2>2. data \in Received(room)
      BY <1>4
    <2> HIDE DEF room, kept
    <2>3. data \in Seq(Symbols) /\ Len(data) <= room
      BY <1>1, <2>1, <2>2, ReceivedType
    <2>4. kept \o data \in Seq(Symbols) /\ Len(kept \o data) < exchange.header_size
      BY <1>1, <2>1, <2>3
    <2>5. k = [khc EXCEPT !.resp_header_buff = kept \o data]
      BY DEF kept
    <2>6. Buffers(k) /\ k.state = "RESP_HEADER_SKIP" /\ k.resp_header_buff = kept \o data
      BY <1>1, <2>4, <2>5, FieldNames DEF Buffers
    <2> HIDE DEF k
    <2>7. Responding(k)
      BY <2>6 DEF Responding, SendStates
    <2>8. Responding(ClosedEarly(k)) /\ Responding(Fails(k, "INVALID_RESPONSE"))
      BY <2>6, FailsResponding
    <2>9. ASSUME find_crlf(k.resp_header_buff) # 0 PROVE Responding(On(k))
      <3>1. AfterLine(k.resp_header_buff) \in Seq(Symbols)
            /\ Len(AfterLine(k.resp_header_buff)) <= Len(k.resp_header_buff)
        BY <2>6, <2>9, LineType DEF Buffers
      <3>2. Len(AfterLine(k.resp_header_buff)) < exchange.header_size
        BY <1>1, <2>6, <3>1 DEF Buffers
      <3>3. QED
        BY <2>6, <3>1, <3>2, FieldNames DEF Responding, Buffers, SendStates
    <2>10. QED
      BY <2>7, <2>8, <2>9 DEF k
  <1>5. CASE Then(Fails(khc, "TOO_LARGE_DATA"))
    BY <1>1, <1>2, <1>5, ThenResponds
  <1>6. CASE \E last : /\ Receives(After(last), HeaderRoom(After(last)))
                       /\ UNCHANGED <<requestVars, sock, sent, reads, body>>
    <2>1. PICK last : /\ Receives(After(last), HeaderRoom(After(last)))
                      /\ UNCHANGED <<requestVars, sock, sent, reads, body>>
      BY <1>6
    <2>2. Responding(After(last)) /\ HeaderRoom(After(last)) \in Nat
      BY <1>3
    <2> HIDE DEF After
    <2>3. QED
      BY <1>1, <2>1, <2>2, RecvResponds
  <1>7. ASSUME ~Then(Fails(khc, "TOO_LARGE_DATA"))
        PROVE  \E last : /\ Receives(After(last), HeaderRoom(After(last)))
                         /\ UNCHANGED <<requestVars, sock, sent, reads, body>>
    <2>1. PICK last : /\ UNCHANGED <<requestVars, sock, sent, reads, body>>
                      /\ \/ \E data \in Received(HeaderRoom(After(last))) :
                              /\ khc' = Skipped(Kept(last), data)
                              /\ wire' = IF data = <<>> THEN <<>>
                                         ELSE SubSeq(wire, Len(data) + 1, Len(wire))
                         \/ khc' = After(last) /\ UNCHANGED wire
                         \/ /\ khc' = [Fails(After(last), "SOCK_RECV")
                                        EXCEPT !.sock_error = "failed"]
                            /\ UNCHANGED wire
      BY <1>7 DEF RespHeaderSkip, Recv
    <2>2. ASSUME NEW data \in Received(HeaderRoom(After(last)))
          PROVE  Responding(Skipped(Kept(last), data))
      BY <1>4, Zenon DEF Skipped
    <2> HIDE DEF After
    <2>3. Receives(After(last), HeaderRoom(After(last)))
      BY <2>1, <2>2, Zenon DEF Receives
    <2>4. QED
      BY <2>1, <2>3
  <1>8. QED
    BY <1>5, <1>6, <1>7, Zenon

-----------------------------------------------------------------------------

\* The end of a body, whole or not.
LEMMA EndRespBodyResponding ==
    ASSUME NEW k, Buffers(k)
    PROVE  Responding(EndRespBody(k))
  <1>1. Responding(ClosedEarly(k))
    BY FailsResponding
  <1>2. Responding(Goto(k, "CLOSE"))
    BY GotoResponding DEF SendStates
  <1>3. QED
    BY <1>1, <1>2, Zenon DEF EndRespBody

\* A part of the body written keeps them, to the end of the body or not.
LEMMA WritesBodyResponds == ASSUME InResponse, NEW data, WritesBody(data) PROVE Responds
  <1> DEFINE part == BodyPart(data)
             k == [khc EXCEPT !.body_received = @ + Len(part)]
             next == IF BodyComplete(k) THEN EndRespBody(k) ELSE Goto(k, "RESP_BODY_READ")
  <1>1. BuffersInv /\ Buffers(khc)
    BY DEF InResponse, BuffersInv
  <1>2. Buffers(k)
    BY <1>1, FieldNames DEF Buffers
  <1>3. Responding(next)
    <2> HIDE DEF k
    <2>1. Responding(EndRespBody(k)) /\ Responding(Goto(k, "RESP_BODY_READ"))
      BY <1>2, EndRespBodyResponding, GotoResponding DEF SendStates
    <2>2. QED
      BY <2>1, Zenon
  <1>4. Writes(part, next)
    BY DEF WritesBody
  <1> HIDE DEF next, part
  <1>5. QED
    BY <1>1, <1>3, <1>4, WritesResponds

\* RESP_BODY_FRAGMENT keeps them.
LEMMA RespBodyFragmentResponds == ASSUME InResponse, RespBodyFragment PROVE Responds
  BY WritesBodyResponds DEF RespBodyFragment

\* RESP_BODY_CALLBACK keeps them.
LEMMA RespBodyCallbackResponds == ASSUME InResponse, RespBodyCallback PROVE Responds
  BY WritesBodyResponds DEF RespBodyCallback

\* RESP_BODY_READ keeps them, reading as much as stream_buff has room for.
LEMMA RespBodyReadResponds == ASSUME InResponse, RespBodyRead PROVE Responds
  <1> DEFINE k(data) == [khc EXCEPT !.stream_buff = data]
  <1>1. BuffersInv /\ Buffers(khc) /\ khc.state = "RESP_BODY_READ"
        /\ exchange.stream_size \in Nat
    BY ExchangeType DEF InResponse, BuffersInv, RespBodyRead, At
  <1>2. Responding(khc)
    BY <1>1 DEF Responding, SendStates
  <1>3. ASSUME NEW data \in Received(exchange.stream_size)
        PROVE  Responding(EndRespBody(k(data))) /\ Responding(Goto(k(data), "RESP_BODY_CALLBACK"))
    <2>1. data \in Seq(Symbols) /\ Len(data) <= exchange.stream_size
      BY <1>1, ReceivedType
    <2>2. Buffers(k(data))
      BY <1>1, <2>1, FieldNames DEF Buffers
    <2> HIDE DEF k
    <2>3. QED
      BY <2>2, EndRespBodyResponding, GotoResponding DEF SendStates
  <1>4. Receives(khc, exchange.stream_size)
    BY <1>3, Zenon DEF RespBodyRead, Recv, Receives
  <1>5. QED
    BY <1>1, <1>2, <1>4, RecvResponds DEF RespBodyRead, Recv

-----------------------------------------------------------------------------

\* What is moved leaves one buffer for the room in the other.
LEMMA MovedBuffers ==
    ASSUME BuffersInv, NEW k, Buffers(k)
    PROVE  Buffers(Moved(k)) /\ Moved(k).state = k.state
  <1> DEFINE n == Min({StreamRoom(k), Len(k.resp_header_buff)})
             head == k.resp_header_buff
             stream == k.stream_buff
  <1>1. /\ head \in Seq(Symbols) /\ Len(head) \in Nat /\ Len(head) < exchange.header_size
        /\ stream \in Seq(Symbols) /\ Len(stream) \in Nat /\ DOMAIN k = Fields
        /\ exchange.header_size \in Nat /\ exchange.stream_size \in Nat
    BY ExchangeType, SMTT(30) DEF Buffers, BuffersInv
  <1>2. StreamRoom(k) \in Nat /\ StreamRoom(k) = exchange.stream_size - Len(stream)
    BY Rooms DEF StreamRoom
  <1>3. n \in Nat /\ n <= StreamRoom(k) /\ n <= Len(head)
    BY <1>1, <1>2, LesserOf
  <1> HIDE DEF n
  <1>4. /\ SubSeq(head, 1, n) \in Seq(Symbols) /\ Len(SubSeq(head, 1, n)) = n
        /\ SubSeq(head, n + 1, Len(head)) \in Seq(Symbols)
        /\ Len(SubSeq(head, n + 1, Len(head))) = Len(head) - n
    <2> HIDE DEF head
    <2>1. QED
      BY <1>1, <1>3
  <1>5. /\ stream \o SubSeq(head, 1, n) \in Seq(Symbols)
        /\ Len(stream \o SubSeq(head, 1, n)) <= exchange.stream_size
    <2> DEFINE moved == SubSeq(head, 1, n)
    <2>1. moved \in Seq(Symbols) /\ Len(moved) = n
      BY <1>4
    <2> HIDE DEF moved, stream
    <2>2. stream \in Seq(Symbols)
      BY <1>1
    <2>4. stream \o moved \in Seq(Symbols) /\ Len(stream \o moved) = Len(stream) + n
      BY <2>1, <2>2
    <2>3. QED
      BY <1>1, <1>2, <1>3, <2>4 DEF moved
  <1>6. Len(SubSeq(head, n + 1, Len(head))) < exchange.header_size
    BY <1>1, <1>3, <1>4
  <1>7. Moved(k) = [k EXCEPT !.stream_buff = stream \o SubSeq(head, 1, n),
                             !.resp_header_buff = SubSeq(head, n + 1, Len(head))]
    BY <1>1, FieldNames DEF Moved, n
  <1> HIDE DEF head, stream
  <1> DEFINE a == stream \o SubSeq(head, 1, n)
             b == SubSeq(head, n + 1, Len(head))
  <1>8. /\ a \in Seq(Symbols) /\ Len(a) <= exchange.stream_size
        /\ b \in Seq(Symbols) /\ Len(b) < exchange.header_size
        /\ Moved(k) = [k EXCEPT !.stream_buff = a, !.resp_header_buff = b]
    BY <1>4, <1>5, <1>6, <1>7
  <1> HIDE DEF a, b
  <1>9. QED
    BY <1>8, FieldNames DEF Buffers

\* So does the step that moves it.
LEMMA MovedToResponds ==
    ASSUME InResponse, NEW state, state \notin SendStates \cup {"FINISHED", "RESP_HEADER_SKIP"},
           MovedTo(state)
    PROVE  Responds
  <1>1. BuffersInv /\ Buffers(khc)
    BY DEF InResponse, BuffersInv
  <1>2. Buffers(Moved(khc))
    BY <1>1, MovedBuffers
  <1>3. Responding(Goto(Moved(khc), state)) /\ Responding(Fails(khc, "TOO_LARGE_DATA"))
    BY <1>1, <1>2, GotoResponding, FailsResponding
  <1>4. Then(Fails(khc, "TOO_LARGE_DATA")) \/ Then(Goto(Moved(khc), state))
    BY DEF MovedTo
  <1>5. QED
    BY <1>1, <1>3, <1>4, ThenResponds

\* The start of a chunked body, from what was read with the headers, keeps them.
LEMMA ReadChunkFromHeaderBuffResponds ==
    ASSUME InResponse, ReadChunkSizeFromHeaderBuff \/ ReadChunkBodyFromHeaderBuff
    PROVE  Responds
  <1>1. "RESP_BODY_PARSE_CHUNK_SIZE" \notin SendStates \cup {"FINISHED", "RESP_HEADER_SKIP"}
        /\ "RESP_BODY_PARSE_CHUNK_BODY" \notin SendStates \cup {"FINISHED", "RESP_HEADER_SKIP"}
    BY DEF SendStates
  <1>2. QED
    BY <1>1, MovedToResponds, Zenon DEF ReadChunkSizeFromHeaderBuff, ReadChunkBodyFromHeaderBuff

\* RESP_BODY_PARSE_CHUNK_SIZE keeps them, and the size it reads is a number.
LEMMA RespBodyParseChunkSizeResponds == ASSUME InResponse, RespBodyParseChunkSize PROVE Responds
  <1> DEFINE buff == khc.stream_buff
             size == read_chunk_size(Line(buff))
             k == [khc EXCEPT !.chunk_size = size, !.chunk_size_written = 0,
                              !.stream_buff = AfterLine(@)]
             last == [k EXCEPT !.state = "RESP_BODY_SKIP_TRAILERS", !.trailer_end_matched = 2]
  <1>1. BuffersInv /\ Buffers(khc) /\ khc.state = "RESP_BODY_PARSE_CHUNK_SIZE"
        /\ exchange.stream_size \in Nat
    BY ExchangeType DEF InResponse, BuffersInv, RespBodyParseChunkSize, At
  <1>2. CASE find_crlf(buff) = 0
    <2>1. /\ Responding(Goto(khc, "READ_CHUNK_SIZE_FROM_HEADER_BUFF"))
          /\ Responding(Goto(khc, "RESP_BODY_READ_CHUNK_SIZE"))
      BY <1>1, GotoResponding DEF SendStates
    <2>2. \/ Then(Goto(khc, "READ_CHUNK_SIZE_FROM_HEADER_BUFF"))
          \/ Then(Goto(khc, "RESP_BODY_READ_CHUNK_SIZE"))
      BY <1>2 DEF RespBodyParseChunkSize
    <2>3. QED
      BY <1>1, <2>1, <2>2, ThenResponds
  <1>3. CASE find_crlf(buff) # 0
    <2>1. /\ Line(buff) \in Seq(Symbols)
          /\ AfterLine(buff) \in Seq(Symbols) /\ Len(AfterLine(buff)) <= Len(buff)
      BY <1>1, <1>3, LineType DEF Buffers
    <2>2. size \in Nat
      BY <2>1, ChunkSizeType
    <2>3. Len(AfterLine(buff)) <= exchange.stream_size
      <3>1. Len(buff) \in Nat /\ Len(buff) <= exchange.stream_size
        BY <1>1 DEF Buffers
      <3>2. QED
        BY <1>1, <2>1, <3>1
    <2>4. Buffers(k)
      <3> HIDE DEF size
      <3>1. QED
        BY <1>1, <2>1, <2>2, <2>3, FieldNames DEF Buffers
    <2>5. \/ Then(Fails(khc, "INVALID_RESPONSE"))
          \/ Then(Goto(k, "RESP_BODY_PARSE_CHUNK_BODY"))
          \/ Then(last)
      BY <1>3, Zenon DEF RespBodyParseChunkSize
    <2> HIDE DEF k
    <2>6. Responding(Goto(k, "RESP_BODY_PARSE_CHUNK_BODY")) /\ Responding(last)
          /\ Responding(Fails(khc, "INVALID_RESPONSE"))
      <3>1. Responding(last)
        BY <2>4, FieldNames DEF Responding, Buffers, SendStates
      <3>2. QED
        BY <1>1, <2>4, <3>1, GotoResponding, FailsResponding DEF SendStates
    <2> HIDE DEF last
    <2>7. QED
      BY <1>1, <2>5, <2>6, ThenResponds
  <1>4. QED
    BY <1>2, <1>3

\* RESP_BODY_READ_CHUNK_SIZE keeps them, or fails with its buffer full.
LEMMA RespBodyReadChunkSizeResponds == ASSUME InResponse, RespBodyReadChunkSize PROVE Responds
  <1>1. BuffersInv /\ Buffers(khc) /\ khc.state = "RESP_BODY_READ_CHUNK_SIZE"
    BY DEF InResponse, BuffersInv, RespBodyReadChunkSize, At
  <1>2. Responding(khc) /\ StreamRoom(khc) \in Nat
    BY <1>1, Rooms DEF Responding, SendStates
  <1>3. Responding(Fails(khc, "TOO_LARGE_DATA")) /\ Responding(ClosedEarly(khc))
    BY <1>1, FailsResponding
  <1>4. ASSUME NEW data \in Received(StreamRoom(khc))
        PROVE  Responding([khc EXCEPT !.state = "RESP_BODY_PARSE_CHUNK_SIZE",
                                      !.stream_buff = @ \o data])
    <2>1. data \in Seq(Symbols) /\ Len(data) <= StreamRoom(khc)
      BY <1>1, <1>2, ReceivedType
    <2>2. exchange.stream_size \in Nat /\ Len(khc.stream_buff) \in Nat
          /\ StreamRoom(khc) = exchange.stream_size - Len(khc.stream_buff)
      BY <1>1, ExchangeType DEF BuffersInv, Buffers, StreamRoom
    <2>3. khc.stream_buff \o data \in Seq(Symbols)
          /\ Len(khc.stream_buff \o data) <= exchange.stream_size
      BY <1>1, <1>2, <2>1, <2>2 DEF Buffers
    <2>4. QED
      BY <1>1, <2>3, FieldNames DEF Responding, Buffers, SendStates
  <1>5. CASE Then(Fails(khc, "TOO_LARGE_DATA"))
    BY <1>1, <1>3, <1>5, ThenResponds
  <1>6. CASE Receives(khc, StreamRoom(khc)) /\ UNCHANGED <<requestVars, sock, sent, reads, body>>
    BY <1>1, <1>2, <1>6, RecvResponds
  <1>7. QED
    BY <1>3, <1>4, <1>5, <1>6 DEF RespBodyReadChunkSize, Recv, Receives

\* RESP_BODY_PARSE_CHUNK_BODY keeps them, and writes no more than the chunk.
LEMMA RespBodyParseChunkBodyResponds == ASSUME InResponse, RespBodyParseChunkBody PROVE Responds
  <1> DEFINE buff == khc.stream_buff
             n == Min({khc.chunk_size - khc.chunk_size_written, Len(buff)})
             k == [khc EXCEPT !.chunk_size_written = @ + n, !.body_received = @ + n]
             skip == [k EXCEPT !.state = "RESP_BODY_SKIP_CHUNK_BODY_CRLF",
                               !.stream_buff = SubSeq(@, n + 1, Len(@))]
             more == [k EXCEPT !.state = "READ_CHUNK_BODY_FROM_HEADER_BUFF",
                               !.stream_buff = <<>>]
             on == Goto(k, "RESP_BODY_READ_CHUNK_BODY")
  <1>1. BuffersInv /\ Buffers(khc) /\ exchange.stream_size \in Nat
    BY ExchangeType DEF InResponse, BuffersInv
  <1>2. /\ khc.chunk_size \in Nat /\ khc.chunk_size_written \in 0 .. khc.chunk_size
        /\ buff \in Seq(Symbols) /\ Len(buff) \in Nat /\ Len(buff) <= exchange.stream_size
    BY <1>1 DEF Buffers
  <1>3. n \in Nat /\ n <= khc.chunk_size - khc.chunk_size_written /\ n <= Len(buff)
    <2>1. khc.chunk_size - khc.chunk_size_written \in Nat
      BY <1>2
    <2>2. QED
      BY <1>2, <2>1, LesserOf
  <1> HIDE DEF n
  <1>4. Buffers(k) /\ k.stream_buff = buff
    <2>1. khc.chunk_size_written + n \in 0 .. khc.chunk_size
      BY <1>2, <1>3
    <2>2. QED
      BY <1>1, <2>1, FieldNames DEF Buffers
  <1>5. SubSeq(buff, n + 1, Len(buff)) \in Seq(Symbols)
        /\ Len(SubSeq(buff, n + 1, Len(buff))) <= exchange.stream_size
    <2> HIDE DEF buff
    <2>1. QED
      BY <1>1, <1>2, <1>3
  <1>6. Writes(SubSeq(buff, 1, n), skip) \/ Writes(SubSeq(buff, 1, n), more)
          \/ Writes(SubSeq(buff, 1, n), on)
    BY Zenon DEF RespBodyParseChunkBody, n
  <1> HIDE DEF k
  <1>7. Responding(skip) /\ Responding(more) /\ Responding(on)
    <2>1. skip = [k EXCEPT !.state = "RESP_BODY_SKIP_CHUNK_BODY_CRLF",
                           !.stream_buff = SubSeq(buff, n + 1, Len(buff))]
      BY <1>4, FieldNames DEF Buffers
    <2>2. Responding(skip)
      BY <1>4, <1>5, <2>1, FieldNames DEF Responding, Buffers, SendStates
    <2>3. Responding(more)
      BY <1>1, <1>4, FieldNames DEF Responding, Buffers, SendStates
    <2>4. Responding(on)
      BY <1>4, GotoResponding DEF SendStates
    <2>5. QED
      BY <2>2, <2>3, <2>4
  <1> HIDE DEF skip, more, on
  <1>8. QED
    BY <1>1, <1>6, <1>7, WritesResponds

\* RESP_BODY_READ_CHUNK_BODY keeps them, reading into an empty buffer.
LEMMA RespBodyReadChunkBodyResponds == ASSUME InResponse, RespBodyReadChunkBody PROVE Responds
  <1>1. BuffersInv /\ Buffers(khc) /\ khc.state = "RESP_BODY_READ_CHUNK_BODY"
        /\ exchange.stream_size \in Nat
    BY ExchangeType DEF InResponse, BuffersInv, RespBodyReadChunkBody, At
  <1>2. Responding(khc) /\ Responding(ClosedEarly(khc))
    BY <1>1, FailsResponding DEF Responding, SendStates
  <1>3. ASSUME NEW data \in Received(exchange.stream_size)
        PROVE  Responding([khc EXCEPT !.state = "RESP_BODY_PARSE_CHUNK_BODY",
                                      !.stream_buff = data])
    <2>1. data \in Seq(Symbols) /\ Len(data) <= exchange.stream_size
      BY <1>1, ReceivedType
    <2>2. QED
      BY <1>1, <2>1, FieldNames DEF Responding, Buffers, SendStates
  <1>4. Receives(khc, exchange.stream_size)
    BY <1>2, <1>3 DEF RespBodyReadChunkBody, Recv, Receives
  <1>5. QED
    BY <1>1, <1>2, <1>4, RecvResponds DEF RespBodyReadChunkBody, Recv

\* RESP_BODY_SKIP_CHUNK_BODY_CRLF keeps them, with the line's end in two reads or one.
LEMMA RespBodySkipChunkBodyCrlfResponds ==
    ASSUME InResponse, RespBodySkipChunkBodyCrlf
    PROVE  Responds
  <1> DEFINE buff == khc.stream_buff
             after == [khc EXCEPT !.state = "RESP_BODY_PARSE_CHUNK_SIZE",
                                  !.stream_buff = SubSeq(@, 3, Len(@))]
             half == [khc EXCEPT !.stream_buff = <<"CR">>]
             whole == [khc EXCEPT !.state = "RESP_BODY_PARSE_CHUNK_SIZE", !.stream_buff = <<>>]
             Got(data) == IF data = <<>> THEN ClosedEarly(khc)
                          ELSE IF ~IsPrefix(buff \o data, CRLF)
                          THEN Fails(khc, "INVALID_RESPONSE")
                          ELSE IF Len(buff \o data) < 2 THEN half ELSE whole
  <1>1. BuffersInv /\ Buffers(khc) /\ khc.state = "RESP_BODY_SKIP_CHUNK_BODY_CRLF"
        /\ exchange.stream_size \in Nat \ {0}
        /\ buff \in Seq(Symbols) /\ Len(buff) \in Nat /\ Len(buff) <= exchange.stream_size
    BY ExchangeType DEF InResponse, BuffersInv, RespBodySkipChunkBodyCrlf, At, Buffers
  <1>2. /\ Responding(khc) /\ Responding(ClosedEarly(khc))
        /\ Responding(Fails(khc, "INVALID_RESPONSE"))
    BY <1>1, FailsResponding DEF Responding, SendStates
  <1>3. Responding(half)
    <2>1. "CR" \in Symbols
      BY DEF Symbols
    <2> HIDE DEF Symbols
    <2>2. <<"CR">> \in Seq(Symbols) /\ Len(<<"CR">>) <= exchange.stream_size
      BY <1>1, <2>1
    <2>3. QED
      BY <1>1, <2>2, FieldNames DEF Responding, Buffers, SendStates
  <1>4. Responding(whole)
    BY <1>1, FieldNames DEF Responding, Buffers, SendStates
  <1>5. CASE Len(buff) >= 2 /\ Then(after)
    <2>1. SubSeq(buff, 3, Len(buff)) \in Seq(Symbols)
          /\ Len(SubSeq(buff, 3, Len(buff))) <= exchange.stream_size
      <3> HIDE DEF buff
      <3>1. QED
        BY <1>1, <1>5
    <2>2. Responding(after)
      BY <1>1, <2>1, FieldNames DEF Responding, Buffers, SendStates
    <2> HIDE DEF after
    <2>3. QED
      BY <1>1, <1>5, <2>2, ThenResponds
  <1>6. CASE Then(Moved(khc))
    <2>1. Responding(Moved(khc))
      BY <1>1, MovedBuffers DEF Responding, SendStates
    <2>2. QED
      BY <1>1, <1>6, <2>1, ThenResponds
  <1>7. CASE Then(Fails(khc, "INVALID_RESPONSE"))
    BY <1>1, <1>2, <1>7, ThenResponds
  <1>8. CASE Len(buff) < 2 /\ Receives(khc, 2 - Len(buff))
               /\ UNCHANGED <<requestVars, sock, sent, reads, body>>
    <2>1. 2 - Len(buff) \in Nat
      BY <1>1, <1>8
    <2>2. QED
      BY <1>1, <1>2, <1>8, <2>1, RecvResponds
  <1>9. \A data : Responding(Got(data))
    <2> HIDE DEF half, whole
    <2>1. QED
      BY <1>2, <1>3, <1>4, Zenon
  <1>10. \/ Then(Fails(khc, "INVALID_RESPONSE")) \/ Then(Moved(khc))
         \/ Len(buff) >= 2 /\ Then(after)
         \/ /\ ~(Len(buff) >= 2)
            /\ UNCHANGED <<requestVars, sock, sent, reads, body>>
            /\ \/ \E data \in Received(2 - Len(buff)) :
                    /\ khc' = Got(data)
                    /\ wire' = IF data = <<>> THEN <<>>
                               ELSE SubSeq(wire, Len(data) + 1, Len(wire))
               \/ khc' = khc /\ UNCHANGED wire
               \/ /\ khc' = [Fails(khc, "SOCK_RECV") EXCEPT !.sock_error = "failed"]
                  /\ UNCHANGED wire
    BY Zenon DEF RespBodySkipChunkBodyCrlf, Recv
  <1> HIDE DEF Got, after
  <1>11. \/ Then(Fails(khc, "INVALID_RESPONSE")) \/ Then(Moved(khc))
         \/ Len(buff) >= 2 /\ Then(after)
         \/ /\ ~(Len(buff) >= 2) /\ Receives(khc, 2 - Len(buff))
            /\ UNCHANGED <<requestVars, sock, sent, reads, body>>
    BY <1>9, <1>10, Zenon DEF Receives
  <1>12. ~(Len(buff) >= 2) => Len(buff) < 2
    BY <1>1
  <1>13. QED
    BY <1>5, <1>6, <1>7, <1>8, <1>11, <1>12, Zenon

\* RESP_BODY_SKIP_TRAILERS keeps them, line by line.
LEMMA RespBodySkipTrailersResponds == ASSUME InResponse, RespBodySkipTrailers PROVE Responds
  <1> DEFINE matched == MatchedAfter(khc.trailer_end_matched,
                                     khc.stream_buff \o khc.resp_header_buff)
             k == [khc EXCEPT !.trailer_end_matched = matched,
                              !.stream_buff = <<>>, !.resp_header_buff = <<>>]
             done == [khc EXCEPT !.state = "CLOSE", !.trailer_end_matched = 4]
             With(data) == [k EXCEPT !.stream_buff = data]
  <1>1. BuffersInv /\ Buffers(khc) /\ khc.state = "RESP_BODY_SKIP_TRAILERS"
        /\ exchange.stream_size \in Nat \ {0} /\ exchange.header_size \in Nat \ {0}
    BY ExchangeType DEF InResponse, BuffersInv, RespBodySkipTrailers, At
  <1>2. Buffers(k) /\ k.state = "RESP_BODY_SKIP_TRAILERS"
    <2> HIDE DEF matched
    <2>1. QED
      BY <1>1, FieldNames DEF Buffers
  <1>3. Responding(done)
    BY <1>1, FieldNames DEF Responding, Buffers, SendStates
  <1>4. \/ Then(done)
        \/ /\ UNCHANGED <<requestVars, sock, sent, reads, body>>
           /\ \/ \E data \in Received(exchange.stream_size) :
                   /\ khc' = IF data = <<>> THEN Goto(k, "CLOSE") ELSE With(data)
                   /\ wire' = IF data = <<>> THEN <<>>
                              ELSE SubSeq(wire, Len(data) + 1, Len(wire))
              \/ khc' = k /\ UNCHANGED wire
              \/ /\ khc' = [Fails(k, "SOCK_RECV") EXCEPT !.sock_error = "failed"]
                 /\ UNCHANGED wire
    BY Zenon DEF RespBodySkipTrailers, Recv
  <1> HIDE DEF k
  <1>5. Responding(k) /\ Responding(Goto(k, "CLOSE"))
    BY <1>2, GotoResponding DEF Responding, SendStates
  <1>6. ASSUME NEW data \in Received(exchange.stream_size) PROVE Responding(With(data))
    <2>1. data \in Seq(Symbols) /\ Len(data) <= exchange.stream_size
      BY <1>1, ReceivedType
    <2>2. QED
      BY <1>2, <2>1, FieldNames DEF Responding, Buffers, SendStates
  <1> HIDE DEF With, done
  <1>7. \/ Then(done)
        \/ Receives(k, exchange.stream_size) /\ UNCHANGED <<requestVars, sock, sent, reads, body>>
    BY <1>4, <1>5, <1>6, Zenon DEF Receives
  <1>8. CASE Then(done)
    BY <1>1, <1>3, <1>8, ThenResponds
  <1>9. CASE Receives(k, exchange.stream_size) /\ UNCHANGED <<requestVars, sock, sent, reads, body>>
    BY <1>1, <1>5, <1>9, RecvResponds
  <1>10. QED
    BY <1>7, <1>8, <1>9

-----------------------------------------------------------------------------
(* The HTTP client: sending, closing and returning.                        *)

\* What a handler of the request does at most to the buffers and the connection.
Asks ==
    /\ Buffers(khc)'
    /\ khc'.state \notin {"IDLE", "CONNECT", "FINISHED"}
    /\ UNCHANGED <<exchange, heap, phase, ret, sock, wire>>

\* A state that isn't at either end.
Between(k) == Buffers(k) /\ k.state \notin {"IDLE", "CONNECT", "FINISHED"}

\* The states of the response are some of them.
LEMMA RespondingBetween == ASSUME NEW k, Responding(k) PROVE Between(k)
  BY DEF Responding, Between, SendStates

\* What comes to them, without a change of the connection, keeps what is so.
LEMMA BetweenAsks ==
    ASSUME NEW k, Between(k), khc' = k, UNCHANGED <<requestVars, sock, wire>>
    PROVE  Asks
  BY DEF Between, Asks, Buffers, requestVars, Symbols, response

\* So does a send, whatever the socket takes of it.
LEMMA SendsAsks ==
    ASSUME NEW part, NEW k, Between(khc), Between(k), Sends(part, k)
    PROVE  Asks
  <1>1. UNCHANGED <<requestVars, sock, wire>>
    BY DEF Sends
  <1>2. ASSUME NEW n, NEW j, Between(j) PROVE Between([j EXCEPT !.sent_length = n])
    BY <1>2, FieldNames DEF Between, Buffers
  <1>3. Between([Fails(khc, "SOCK_SEND") EXCEPT !.sock_error = "failed"])
    <2>1. Responding([Fails(khc, "SOCK_SEND") EXCEPT !.sock_error = "failed"])
      BY FailsResponding DEF Between
    <2>2. QED
      BY <2>1, RespondingBetween, Zenon
  <1>4. Between(khc')
    <2>1. CASE \E n : khc' = AfterSend(part, k, n)
      <3>1. PICK n : khc' = AfterSend(part, k, n)
        BY <2>1
      <3> DEFINE m == khc.sent_length + n
                 short == [khc EXCEPT !.sent_length = m]
                 all == [k EXCEPT !.sent_length = 0]
      <3>2. Between(short) /\ Between(all)
        <4> HIDE DEF m
        <4>1. QED
          BY <1>2
      <3>3. khc' = short \/ khc' = all
        BY <3>1 DEF AfterSend
      <3> HIDE DEF short, all
      <3>4. QED
        BY <3>2, <3>3
    <2>2. CASE khc' = khc
      BY <2>2
    <2>3. CASE khc' = [Fails(khc, "SOCK_SEND") EXCEPT !.sock_error = "failed"]
      BY <1>3, <2>3, Zenon
    <2>4. QED
      BY <2>1, <2>2, <2>3 DEF Sends
  <1>5. QED
    BY <1>1, <1>4, BetweenAsks

\* Every handler of the request but the first two.
Asking ==
    \/ ReqLine \/ ReqHostHeader \/ ReqHeader \/ ReqHeaderSend \/ ReqHeaderSendCrlf
    \/ ReqHeaderEnd \/ ReqBodyRead \/ ReqBodySend

\* The states of the request keep what is so of buffers and connection.
LEMMA AskingAsks == ASSUME BuffersInv, Asking PROVE Asks
  <1>1. Between(khc)
    BY DEF Asking, ReqLine, ReqHostHeader, ReqHeader, ReqHeaderSend, ReqHeaderSendCrlf,
           ReqHeaderEnd, ReqBodyRead, ReqBodySend, At, Between, BuffersInv
  <1>2. ASSUME NEW state, state \notin {"IDLE", "CONNECT", "FINISHED", "RESP_HEADER_SKIP"}
        PROVE  Between(Goto(khc, state))
    BY <1>1, <1>2, FieldNames DEF Between, Buffers, Goto
  <1>3. CASE ReqLine
    <2>1. Between(Goto(khc, "REQ_HOST_HEADER"))
      BY <1>2
    <2>2. QED
      BY <1>1, <1>3, <2>1, SendsAsks DEF ReqLine
  <1>4. CASE ReqHostHeader
    <2> DEFINE k == [khc EXCEPT !.state = "REQ_HEADER", !.req_header = 1]
    <2>1. Between(k)
      BY <1>1, FieldNames DEF Between, Buffers
    <2>2. Sends(Part("host"), k)
      BY <1>4 DEF ReqHostHeader
    <2> HIDE DEF k
    <2>3. QED
      BY <1>1, <2>1, <2>2, SendsAsks
  <1>5. CASE ReqHeader
    <2> DEFINE k == [khc EXCEPT !.req_header = @ + 1]
    <2>1. Between(k)
      BY <1>1, FieldNames DEF Between, Buffers
    <2>2. Then(Goto(khc, "REQ_HEADER_END")) \/ Then(k) \/ Then(Goto(khc, "REQ_HEADER_SEND"))
      BY <1>5 DEF ReqHeader
    <2> HIDE DEF k
    <2>3. Between(Goto(khc, "REQ_HEADER_END")) /\ Between(Goto(khc, "REQ_HEADER_SEND"))
      BY <1>2
    <2>4. Between(khc') /\ UNCHANGED <<requestVars, sock, wire>>
      BY <2>1, <2>2, <2>3, Zenon DEF Then
    <2>5. QED
      BY <2>4, BetweenAsks
  <1>6. CASE ReqHeaderSend
    <2>1. Between(Goto(khc, "REQ_HEADER_SEND_CRLF"))
      BY <1>2
    <2>2. QED
      BY <1>1, <1>6, <2>1, SendsAsks DEF ReqHeaderSend
  <1>7. CASE ReqHeaderSendCrlf
    <2> DEFINE k == [khc EXCEPT !.state = "REQ_HEADER", !.req_header = @ + 1]
    <2>1. Between(k)
      BY <1>1, FieldNames DEF Between, Buffers
    <2>2. Sends(Part("crlf"), k)
      BY <1>7 DEF ReqHeaderSendCrlf
    <2> HIDE DEF k
    <2>3. QED
      BY <1>1, <2>1, <2>2, SendsAsks
  <1>8. CASE ReqHeaderEnd
    <2> DEFINE k == [khc EXCEPT !.state = "REQ_BODY_READ", !.read_req_end = FALSE,
                                !.req_body_left = request.length]
               l == [khc EXCEPT !.state = "RESP_STATUS_READ", !.read_req_end = FALSE,
                                !.resp_header_buff = <<>>]
    <2>1. Between(k) /\ Between(l)
      BY <1>1, FieldNames, ExchangeType DEF Between, Buffers, BuffersInv
    <2>2. Sends(Framing \o Part("end"), k) \/ Sends(Framing \o Part("end"), l)
      BY <1>8 DEF ReqHeaderEnd
    <2> HIDE DEF k, l
    <2>3. QED
      BY <1>1, <2>1, <2>2, SendsAsks
  <1>9. CASE ReqBodyRead
    <2>1. Between(Fails(khc, "READ_CALLBACK")) /\ Between(Fails(khc, "TOO_LARGE_DATA"))
      BY <1>1, FieldNames DEF Fails, Between, Buffers
    <2>2. ASSUME NEW left, NEW end, NEW frame
          PROVE  /\ Between([khc EXCEPT !.state = "REQ_BODY_SEND", !.req_body_left = left,
                                        !.read_req_end = end, !.req_frame = frame])
                 /\ Between([khc EXCEPT !.state = "REQ_BODY_SEND", !.read_req_end = end,
                                        !.req_frame = frame])
      BY <1>1, FieldNames DEF Between, Buffers
    <2>3. Between(khc')
      <3>1. CASE ReqBodyReadLength
        <4>1. PICK got :
                \/ khc' = Fails(khc, "READ_CALLBACK")
                \/ khc' = [khc EXCEPT !.state = "REQ_BODY_SEND", !.req_body_left = @ - got,
                                      !.read_req_end = khc.req_body_left = got,
                                      !.req_frame = Given(Len(reads) + 1, got)]
          BY <3>1 DEF ReqBodyReadLength
        <4> DEFINE left == khc.req_body_left - got
                   end == khc.req_body_left = got
                   frame == Given(Len(reads) + 1, got)
                   k == [khc EXCEPT !.state = "REQ_BODY_SEND", !.req_body_left = left,
                                    !.read_req_end = end, !.req_frame = frame]
        <4>2. khc' = Fails(khc, "READ_CALLBACK") \/ khc' = k
          BY <4>1, Zenon
        <4> HIDE DEF left, end, frame
        <4>3. Between(k) /\ khc' \in {Fails(khc, "READ_CALLBACK"), k}
          BY <2>2, <4>2
        <4> HIDE DEF k
        <4>4. QED
          BY <2>1, <4>3
      <3>2. CASE ReqBodyReadChunk
        <4>1. PICK end, frame :
                khc' \in {Fails(khc, "READ_CALLBACK"), Fails(khc, "TOO_LARGE_DATA"),
                          [khc EXCEPT !.state = "REQ_BODY_SEND", !.read_req_end = end,
                                      !.req_frame = frame]}
          BY <3>2, Zenon DEF ReqBodyReadChunk
        <4> DEFINE k == [khc EXCEPT !.state = "REQ_BODY_SEND", !.read_req_end = end,
                                    !.req_frame = frame]
        <4>2. Between(k)
              /\ khc' \in {Fails(khc, "READ_CALLBACK"), Fails(khc, "TOO_LARGE_DATA"), k}
          BY <2>2, <4>1
        <4> HIDE DEF k
        <4>3. QED
          BY <2>1, <4>2
      <3>3. QED
        BY <1>9, <3>1, <3>2 DEF ReqBodyRead
    <2>4. QED
      BY <1>9, <2>3, BetweenAsks DEF ReqBodyRead
  <1>10. CASE ReqBodySend
    <2> DEFINE k == [khc EXCEPT !.state = "RESP_STATUS_READ", !.resp_header_buff = <<>>]
    <2>1. Between(k) /\ Between(Goto(khc, "REQ_BODY_READ"))
      <3>1. Between(k)
        BY <1>1, FieldNames, ExchangeType DEF Between, Buffers, BuffersInv
      <3>2. QED
        BY <1>2, <3>1
    <2>2. Sends(khc.req_frame, k) \/ Sends(khc.req_frame, Goto(khc, "REQ_BODY_READ"))
      BY <1>10 DEF ReqBodySend
    <2> HIDE DEF k
    <2>3. QED
      BY <1>1, <2>1, <2>2, SendsAsks
  <1>11. QED
    BY <1>3, <1>4, <1>5, <1>6, <1>7, <1>8, <1>9, <1>10 DEF Asking

\* Every handler of the response.
Answering ==
    \/ RespStatusRead \/ RespStatusParse \/ RespHeaderCallback \/ RespHeaderRead
    \/ RespHeaderSkip \/ RespBodyFragment \/ ReadChunkSizeFromHeaderBuff
    \/ ReadChunkBodyFromHeaderBuff \/ RespBodyRead \/ RespBodyCallback
    \/ RespBodyParseChunkSize \/ RespBodyReadChunkSize \/ RespBodyParseChunkBody
    \/ RespBodyReadChunkBody \/ RespBodySkipChunkBodyCrlf \/ RespBodySkipTrailers

\* The states of the response do.
LEMMA AnsweringResponds == ASSUME BuffersInv, Answering PROVE InResponse /\ Responds
  <1>1. InResponse
    BY DEF Answering, RespStatusRead, RespStatusParse, RespHeaderCallback, RespHeaderRead,
           RespHeaderSkip, RespBodyFragment, ReadChunkSizeFromHeaderBuff,
           ReadChunkBodyFromHeaderBuff, RespBodyRead, RespBodyCallback,
           RespBodyParseChunkSize, RespBodyReadChunkSize, RespBodyParseChunkBody,
           RespBodyReadChunkBody, RespBodySkipChunkBodyCrlf, RespBodySkipTrailers,
           At, Running, InResponse, SendStates
  <1>2. QED
    BY <1>1, RespStatusReadResponds, RespStatusParseResponds, RespHeaderCallbackResponds,
       RespHeaderReadResponds, RespHeaderSkipResponds, RespBodyFragmentResponds,
       ReadChunkFromHeaderBuffResponds, RespBodyReadResponds, RespBodyCallbackResponds,
       RespBodyParseChunkSizeResponds, RespBodyReadChunkSizeResponds,
       RespBodyParseChunkBodyResponds, RespBodyReadChunkBodyResponds,
       RespBodySkipChunkBodyCrlfResponds, RespBodySkipTrailersResponds, Zenon
    DEF Answering

\* khc_state_close(), on a state that is between.
LEMMA ClosesKeeps ==
    ASSUME BuffersInv, phase = "loop", NEW k, Between(k), k.state = "CLOSE",
           sock \in {"open", "closing"}, Closes(k)
    PROVE  BuffersInv'
  <1>1. exchange' = exchange /\ wire' = wire /\ phase' = phase /\ Symbols' = Symbols
    BY DEF Closes, requestVars, Symbols, response
  <1>2. CASE khc' = Goto(k, "FINISHED") /\ sock' = "closed"
    BY <1>1, <1>2, FieldNames DEF Goto, Between, BuffersInv, Buffers, Connection,
       AsLeft
  <1>3. CASE khc' = k /\ k.state = "CLOSE" /\ sock' = "closing"
    BY <1>1, <1>3 DEF Between, BuffersInv, Buffers, Connection
  <1>4. CASE khc' = CloseFailed(k) /\ sock' = "failed"
    BY <1>1, <1>4, FieldNames DEF CloseFailed, Between, BuffersInv, Buffers, Connection,
       AsLeft
  <1>5. QED
    BY <1>2, <1>3, <1>4 DEF Closes

\* _stop(), in any state.
LEMMA StopForKeeps ==
    ASSUME BuffersInv, Running, Stoppable, NEW reason, StopFor(reason)
    PROVE  BuffersInv'
  <1> DEFINE stopped == [khc EXCEPT !.state = "FINISHED", !.result = reason]
  <1>1. phase = "loop" /\ khc.state # "FINISHED" /\ Buffers(khc)
    BY DEF Running, BuffersInv
  <1>2. CASE khc.state \in {"IDLE", "CONNECT"}
    <2>1. Then(stopped)
      BY <1>2 DEF StopFor
    <2>2. Buffers(stopped) /\ stopped.state = "FINISHED"
      BY <1>1, FieldNames DEF Buffers
    <2> HIDE DEF stopped
    <2>3. QED
      BY <1>1, <1>2, <2>1, <2>2 DEF Then, requestVars, BuffersInv, Buffers, Connection, AsLeft,
         Symbols, response
  <1>3. CASE khc.state = "CLOSE"
    <2>1. Then(CloseFailed(khc))
      BY <1>3 DEF StopFor
    <2>2. QED
      BY <1>1, <1>3, <2>1, FieldNames DEF Then, CloseFailed, requestVars, BuffersInv, Buffers,
         Connection, AsLeft, Stoppable, may, Symbols, response
  <1>4. CASE khc.state \notin {"IDLE", "CONNECT", "CLOSE"}
    <2>1. Closes(Fails(khc, reason))
      BY <1>4 DEF StopFor
    <2>2. Between(Fails(khc, reason)) /\ Fails(khc, reason).state = "CLOSE"
      BY <1>1, FailsResponding, RespondingBetween, FieldNames DEF Fails, Buffers
    <2>3. sock = "open"
      BY <1>1, <1>4 DEF BuffersInv, Connection
    <2>4. QED
      BY <1>1, <2>1, <2>2, <2>3, ClosesKeeps
  <1>5. QED
    BY <1>2, <1>3, <1>4

\* It begins so.
LEMMA BuffersInit == ASSUME KhcInit PROVE BuffersInv
  <1>1. wire \in Seq(Symbols) /\ exchange \in Exchanges
    BY ExchangeType DEF KhcInit, response
  <1>2. Buffers(khc)
    <2>1. khc = Reset
      BY DEF KhcInit
    <2>2. QED
      BY <1>1, <2>1, ExchangeType DEF Reset, Buffers, Fields
  <1>3. Connection
    BY DEF KhcInit, Reset, Connection
  <1>4. QED
    BY <1>1, <1>2, <1>3 DEF BuffersInv

\* What is received fits its buffers, whatever the sizes of both, and the connection is
\* open from the request's first line until it is closed, whatever fails.
THEOREM BuffersInvariance == KhcSpec => []BuffersInv
  <1>1. KhcInit => BuffersInv
    BY BuffersInit
  <1>2. BuffersInv /\ [KhcNext]_khcVars => BuffersInv'
    <2> SUFFICES ASSUME BuffersInv, [KhcNext]_khcVars PROVE BuffersInv'
      OBVIOUS
    <2>1. CASE Perform
      <3> DEFINE k == [khc EXCEPT !.state = "IDLE", !.result = "OK", !.close_failed = FALSE,
                                  !.header_skipped = FALSE]
      <3>1. Buffers(k) /\ k.state = "IDLE"
        BY FieldNames DEF BuffersInv, Buffers
      <3>2. /\ phase = "perform" /\ khc' = k /\ UNCHANGED <<exchange, sock, wire>>
            /\ phase' = "loop" \/ (phase' = "returned" /\ UNCHANGED heap)
        BY <2>1 DEF Perform
      <3> HIDE DEF k
      <3>3. QED
        BY <3>1, <3>2 DEF BuffersInv, Buffers, Connection, AsLeft, Symbols, response
    <2>2. CASE Idle
      <3>1. Buffers(Goto(khc, "CONNECT")) /\ Goto(khc, "CONNECT").state = "CONNECT"
        BY FieldNames DEF Goto, BuffersInv, Buffers
      <3>2. QED
        BY <2>2, <3>1 DEF Idle, At, Running, Then, requestVars, BuffersInv, Buffers, Connection,
           Symbols, response
    <2>3. CASE Connect
      <3>1. /\ phase = "loop" /\ khc.state = "CONNECT" /\ UNCHANGED <<requestVars, wire>>
            /\ phase' = phase /\ exchange' = exchange
        BY <2>3 DEF Connect, At, Running, requestVars
      <3>2. /\ Buffers(khc')
            /\ \/ khc'.state = "REQ_LINE" /\ sock' = "open"
               \/ khc'.state = "CONNECT" /\ sock' = "connecting"
               \/ khc'.state = "FINISHED" /\ sock' = "none"
        BY <2>3, <3>1, FieldNames DEF Connect, BuffersInv, Buffers
      <3>3. QED
        BY <3>1, <3>2 DEF requestVars, BuffersInv, Buffers, Connection, AsLeft, Symbols, response
    <2>4. CASE Asking
      <3>1. Asks
        BY <2>4, AskingAsks
      <3>2. phase = "loop" /\ khc.state \notin {"IDLE", "CONNECT", "CLOSE", "FINISHED"}
        BY <2>4 DEF Asking, ReqLine, ReqHostHeader, ReqHeader, ReqHeaderSend,
           ReqHeaderSendCrlf, ReqHeaderEnd, ReqBodyRead, ReqBodySend, At, Running
      <3>3. QED
        BY <3>1, <3>2 DEF Asks, BuffersInv, Connection, Symbols, response
    <2>5. CASE Answering
      <3>1. InResponse /\ Responds
        BY <2>5, AnsweringResponds
      <3>2. QED
        BY <3>1 DEF InResponse, Responds, Responding, SendStates, BuffersInv, Connection,
           Symbols, response
    <2>6. CASE Close
      <3>1. phase = "loop" /\ khc.state = "CLOSE" /\ Closes(khc)
        BY <2>6 DEF Close, At, Running
      <3>2. Between(khc) /\ sock \in {"open", "closing"}
        BY <3>1 DEF Between, BuffersInv, Connection
      <3>3. QED
        BY <3>1, <3>2, ClosesKeeps
    <2>7. CASE Stop
      BY <2>7, StopForKeeps DEF Stop
    <2>8. CASE TimeRunsOut
      BY <2>8 DEF TimeRunsOut, BuffersInv, Buffers, Connection, AsLeft, Stoppable, may,
         Symbols, response
    <2>9. CASE Return
      <3> DEFINE k == [khc EXCEPT !.state = "IDLE", !.result = "OK"]
      <3>1. Buffers(k) /\ k.state = "IDLE" /\ k.close_failed = khc.close_failed
        BY FieldNames DEF BuffersInv, Buffers
      <3>2. /\ phase = "loop" /\ khc.state = "FINISHED" /\ khc' = k /\ heap' = {}
            /\ phase' = "returned" /\ UNCHANGED <<exchange, sock, wire, late>>
        BY <2>9 DEF Return
      <3> HIDE DEF k
      <3>3. QED
        BY <3>1, <3>2 DEF BuffersInv, Buffers, Connection, AsLeft, Stoppable, may, Symbols, response
    <2>10. CASE ResetExceptRequest
      <3>1. /\ phase = "returned" /\ khc' = Reset /\ sock' = "none" /\ phase' = "perform"
            /\ wire' = response.wire /\ UNCHANGED <<exchange, heap>>
        BY <2>10 DEF ResetExceptRequest
      <3>2. response.wire \in Seq(Symbols)
        BY ExchangeType DEF BuffersInv
      <3>3. Buffers(Reset) /\ Reset.state = "IDLE"
        BY <3>2, ExchangeType DEF Reset, Buffers, Fields, BuffersInv
      <3>4. QED
        BY <3>1, <3>2, <3>3 DEF BuffersInv, Buffers, Connection, AsLeft, Symbols, response
    <2>11. CASE UNCHANGED khcVars
      BY <2>11 DEF khcVars, BuffersInv, Buffers, Connection, AsLeft, Stoppable, may, Symbols,
         response
    <2>12. QED
      BY <2>1, <2>2, <2>3, <2>4, <2>5, <2>6, <2>7, <2>8, <2>9, <2>10, <2>11
      DEF KhcNext, Handles, Asking, Answering
  <1>3. QED
    BY <1>1, <1>2, PTL DEF KhcSpec

\* However khc_perform() ends, it gives back its buffers, and its connection or the news
\* that it didn't, and no response overruns its buffers, for buffers of any sizes and any
\* response.
THEOREM LeavesNothingCorrect == KhcSpec => []LeavesNothing
  <1>1. BuffersInv => LeavesNothing
    BY DEF BuffersInv, Buffers, Connection, AsLeft, LeavesNothing
  <1>2. QED
    BY <1>1, BuffersInvariance, PTL

\* A request that has its result keeps it while its connection is closed, whatever close
\* comes to and whether it is stopped meanwhile.
THEOREM ResultKeptCorrect == KhcSpec => ResultKept
  <1>1. BuffersInv /\ [KhcNext]_khcVars
          => [khc.state = "CLOSE" => khc'.result = khc.result]_khcVars
    <2> SUFFICES ASSUME BuffersInv, KhcNext, khc.state = "CLOSE"
                 PROVE  khc'.result = khc.result
      BY DEF khcVars
    <2>1. DOMAIN khc = Fields /\ phase = "loop"
      BY DEF BuffersInv, Buffers, Connection
    <2>2. CASE Close
      BY <2>1, <2>2, FieldNames DEF Close, Closes, Goto, CloseFailed
    <2>3. CASE Stop
      <3>1. Then(CloseFailed(khc))
        BY <2>3 DEF Stop, StopFor
      <3>2. QED
        BY <2>1, <3>1, FieldNames DEF Then, CloseFailed
    <2>4. CASE TimeRunsOut
      BY <2>4 DEF TimeRunsOut
    <2>5. QED
      BY <2>1, <2>2, <2>3, <2>4 DEF KhcNext, Handles, Perform, Return, ResetExceptRequest, Idle,
         Connect, ReqLine, ReqHostHeader, ReqHeader, ReqHeaderSend, ReqHeaderSendCrlf,
         ReqHeaderEnd, ReqBodyRead, ReqBodySend, RespStatusRead, RespStatusParse,
         RespHeaderCallback, RespHeaderRead, RespHeaderSkip, RespBodyFragment,
         ReadChunkSizeFromHeaderBuff, ReadChunkBodyFromHeaderBuff, RespBodyRead,
         RespBodyCallback, RespBodyParseChunkSize, RespBodyReadChunkSize,
         RespBodyParseChunkBody, RespBodyReadChunkBody, RespBodySkipChunkBodyCrlf,
         RespBodySkipTrailers, At
  <1>2. QED
    BY <1>1, BuffersInvariance, PTL DEF KhcSpec, ResultKept

-----------------------------------------------------------------------------
(* The HTTP client: what it sends.                                         *)

\* What a request is made of.
Words ==
    {"line", "host", "crlf", "end", "Content-Length", "Transfer-Encoding", "size"}
        \cup Range(request.headers)
Sendable == (Words \X Nat) \cup ({"data"} \X Nat \X Nat)

Asked == Part("line") \o Part("host")
HeaderCount == Len(request.headers)
HeaderList == [i \in 1 .. HeaderCount |-> HeaderOf(request.headers[i])]
HeadersTo(n) == FlattenSeq(First(HeaderList, n))
HeadAsked == Asked \o Headers \o (Framing \o Part("end"))
Piece(i, n) == IF request.length = Chunked THEN Frame(i, n) ELSE Given(i, n)
RequestOf(r) == HeadAsked \o BodyOf(r)

\* A part is something to send.
LEMMA PartType ==
    ASSUME NEW name \in Words
    PROVE  Part(name) \in Seq(Sendable) /\ Len(Part(name)) = 2
  <1>1. <<name, 1>> \in Sendable /\ <<name, 2>> \in Sendable
    BY DEF Sendable
  <1> HIDE DEF Sendable
  <1>2. QED
    BY <1>1 DEF Part

\* Those that every request has are two elements each.
LEMMA NamedParts ==
    \A name \in {"line", "host", "crlf", "end"} :
        Part(name) \in Seq(Sendable) /\ Len(Part(name)) = 2
  <1> TAKE name \in {"line", "host", "crlf", "end"}
  <1>1. name \in Words
    BY DEF Words
  <1>2. QED
    BY <1>1, PartType

\* The request's headers are strings, and its body has a length.
LEMMA RequestType ==
    ASSUME exchange \in Exchanges
    PROVE  /\ HeaderCount \in Nat /\ request.length \in Nat
           /\ \A i \in 1 .. HeaderCount : request.headers[i] \in Words
  <1> DEFINE hs == request.headers
             R == Range(hs)
  <1>1. hs \in Seq(R) /\ request.length \in Nat
    BY KhcAssumption DEF request
  <1>2. R \subseteq Words
    BY DEF Words
  <1> HIDE DEF hs, R
  <1>3. Len(hs) \in Nat /\ \A i \in 1 .. Len(hs) : hs[i] \in R
    BY <1>1
  <1> HIDE DEF Words
  <1>4. QED
    BY <1>1, <1>2, <1>3 DEF hs, HeaderCount

\* So is what follows the headers, and there is something of it.
LEMMA FramingType ==
    ASSUME exchange \in Exchanges
    PROVE  /\ Framing \o Part("end") \in Seq(Sendable)
           /\ Len(Framing \o Part("end")) \in Nat \ {0}
  <1>1. request.length \in Nat
    BY RequestType
  <1>2. \A n \in Nat :
            <<"Content-Length", n>> \in Sendable /\ <<"Transfer-Encoding", n>> \in Sendable
    BY DEF Sendable, Words
  <1> HIDE DEF Sendable
  <1>3. Framing \in Seq(Sendable)
    <2> DEFINE a == <<"Content-Length", 0>>
               b == <<"Transfer-Encoding", 1>>
               c == <<"Content-Length", request.length>>
               none == <<a>>
               chunked == <<b>>
               long == <<c>>
    <2>1. a \in Sendable /\ b \in Sendable /\ c \in Sendable
      BY <1>1, <1>2
    <2>2. none \in Seq(Sendable) /\ chunked \in Seq(Sendable) /\ long \in Seq(Sendable)
      <3> HIDE DEF a, b, c
      <3>1. QED
        BY <2>1
    <2>3. <<>> \in Seq(Sendable)
      OBVIOUS
    <2>4. Framing \in {<<>>, none, chunked, long}
      BY Zenon DEF Framing
    <2> HIDE DEF none, chunked, long
    <2>5. QED
      BY <2>2, <2>3, <2>4
  <1>4. Part("end") \in Seq(Sendable) /\ Len(Part("end")) = 2
    BY NamedParts
  <1> HIDE DEF Framing, Part
  <1>5. QED
    BY <1>3, <1>4

\* What the read callback gave, as it is sent.
LEMMA PieceType ==
    ASSUME NEW i \in Nat, NEW n \in Nat
    PROVE  /\ Given(i, n) \in Seq(Sendable) /\ Len(Given(i, n)) = n
           /\ Frame(i, n) \in Seq(Sendable) /\ Len(Frame(i, n)) # 0
  <1>1. \A j \in 1 .. n : <<"data", i, j>> \in Sendable
    BY DEF Sendable
  <1>2. <<"size", n>> \in Sendable /\ <<"crlf", 2>> \in Sendable
    BY DEF Sendable, Words
  <1> HIDE DEF Sendable
  <1> DEFINE g == Given(i, n)
             a == <<<<"size", n>>>>
             b == <<<<"crlf", 2>>>>
  <1>3. g = [j \in 1 .. n |-> g[j]] /\ \A j \in 1 .. n : g[j] \in Sendable
    BY <1>1 DEF Given
  <1>4. a \in Seq(Sendable) /\ Len(a) = 1 /\ b \in Seq(Sendable) /\ Len(b) = 1
    BY <1>2
  <1> HIDE DEF g, a, b
  <1>5. g \in Seq(Sendable) /\ Len(g) = n
    BY <1>3
  <1>6. a \o g \o b \in Seq(Sendable) /\ Len(a \o g \o b) # 0
    BY <1>4, <1>5
  <1>7. Frame(i, n) = a \o g \o b
    BY DEF Frame, a, g, b
  <1>8. QED
    BY <1>5, <1>6, <1>7 DEF g

-----------------------------------------------------------------------------

\* A header of the request.
LEMMA HeaderOfType ==
    ASSUME exchange \in Exchanges, NEW i \in 1 .. HeaderCount
    PROVE  /\ HeaderOf(request.headers[i]) \in Seq(Sendable)
           /\ HeaderList[i] = HeaderOf(request.headers[i])
  <1>1. Part(request.headers[i]) \in Seq(Sendable) /\ Part("crlf") \in Seq(Sendable)
    BY RequestType, PartType, NamedParts
  <1> HIDE DEF Part, Sendable
  <1>2. Part(request.headers[i]) \o Part("crlf") \in Seq(Sendable)
    BY <1>1
  <1>3. <<>> \in Seq(Sendable)
    OBVIOUS
  <1>4. HeaderOf(request.headers[i]) \in Seq(Sendable)
    BY <1>2, <1>3, Zenon DEF HeaderOf
  <1>5. HeaderList[i] = HeaderOf(request.headers[i])
    BY DEF HeaderList
  <1>6. QED
    BY <1>4, <1>5

\* The first of the headers are to be sent.
LEMMA HeadersToType ==
    ASSUME exchange \in Exchanges, NEW n \in Nat, n <= HeaderCount
    PROVE  HeadersTo(n) \in Seq(Sendable)
  <1>1. HeaderCount \in Nat
    BY RequestType
  <1>2. \A i \in 1 .. n : HeaderList[i] \in Seq(Sendable)
    <2> TAKE i \in 1 .. n
    <2>1. i \in 1 .. HeaderCount
      BY <1>1
    <2>2. QED
      BY <2>1, HeaderOfType
  <1>3. First(HeaderList, n) \in Seq(Seq(Sendable))
    BY <1>2, FirstType
  <1>4. QED
    BY <1>3, FlattenType DEF HeadersTo

\* One header more is put after them.
LEMMA HeadersToNext ==
    ASSUME exchange \in Exchanges, NEW n \in 1 .. HeaderCount
    PROVE  HeadersTo(n) = HeadersTo(n - 1) \o HeaderOf(request.headers[n])
  <1> DEFINE m == n - 1
  <1>1. HeaderCount \in Nat /\ m \in Nat /\ m + 1 = n /\ m <= HeaderCount
    BY RequestType
  <1>2. \A i \in 1 .. (m + 1) : HeaderList[i] \in Seq(Sendable)
    <2> TAKE i \in 1 .. (m + 1)
    <2>1. i \in 1 .. HeaderCount
      BY <1>1
    <2>2. QED
      BY <2>1, HeaderOfType
  <1> HIDE DEF m
  <1>3. First(HeaderList, m + 1) = Append(First(HeaderList, m), HeaderList[m + 1])
    BY <1>1, <1>2, FirstOneMore
  <1>4. First(HeaderList, m) \in Seq(Seq(Sendable))
    BY <1>1, <1>2, FirstType
  <1>5. HeaderList[n] \in Seq(Sendable) /\ HeaderList[n] = HeaderOf(request.headers[n])
    BY HeaderOfType
  <1>6. FlattenSeq(Append(First(HeaderList, m), HeaderList[n]))
          = FlattenSeq(First(HeaderList, m)) \o HeaderList[n]
    BY <1>4, <1>5, FlattenAppend
  <1>7. HeadersTo(n) = HeadersTo(m) \o HeaderOf(request.headers[n])
    BY <1>1, <1>3, <1>5, <1>6 DEF HeadersTo
  <1>8. QED
    BY <1>7 DEF m

\* None of them is nothing, all of them are the headers of the request.
LEMMA HeadersEnds == HeadersTo(0) = <<>> /\ HeadersTo(HeaderCount) = Headers
  <1>1. First(HeaderList, 0) = <<>>
    BY DEF First
  <1>2. First(HeaderList, HeaderCount) = HeaderList
    BY DEF First, HeaderList
  <1>3. QED
    BY <1>1, <1>2, FlattenEmpty DEF HeadersTo, Headers, HeaderList, HeaderCount

\* The headers so far are the first of all of them.
LEMMA HeadersToStarts ==
    ASSUME exchange \in Exchanges, NEW n \in Nat, n <= HeaderCount
    PROVE  Starts(HeadersTo(n), Headers)
  <1> DEFINE Bad == {i \in Nat : i <= HeaderCount /\ ~Starts(HeadersTo(HeaderCount - i), Headers)}
  <1>1. HeaderCount \in Nat
    BY RequestType
  <1>2. Bad = {}
    <2> SUFFICES ASSUME Bad # {} PROVE FALSE
      OBVIOUS
    <2>1. PICK i \in Bad : \A l \in Bad : i <= l
      <3>1. Bad \in SUBSET Nat
        OBVIOUS
      <3>2. QED
        BY <3>1, Least
    <2>2. i \in Nat /\ i <= HeaderCount /\ ~Starts(HeadersTo(HeaderCount - i), Headers)
      BY <2>1
    <2>3. Headers \in Seq(Sendable)
      BY <1>1, HeadersToType, HeadersEnds
    <2>4. i # 0
      <3>1. Starts(HeadersTo(HeaderCount), Headers)
        BY <2>3, HeadersEnds, StartsItself
      <3>2. HeaderCount - 0 = HeaderCount
        BY <1>1
      <3>3. QED
        BY <2>2, <3>1, <3>2
    <2> DEFINE m == HeaderCount - i
               h == HeaderOf(request.headers[m + 1])
    <2>5. /\ m \in Nat /\ m <= HeaderCount /\ m + 1 \in 1 .. HeaderCount
          /\ (m + 1) - 1 = m /\ m + 1 = HeaderCount - (i - 1)
      BY <1>1, <2>2, <2>4
    <2>6. Starts(HeadersTo(HeaderCount - (i - 1)), Headers)
      <3>1. i - 1 \in Nat /\ i - 1 <= HeaderCount /\ i - 1 \notin Bad
        BY <1>1, <2>1, <2>2, <2>4
      <3>2. QED
        BY <3>1
    <2> HIDE DEF m, Bad
    <2>7. HeadersTo(m + 1) = HeadersTo(m) \o h
      BY <2>5, HeadersToNext
    <2>8. /\ HeadersTo(m) \in Seq(Sendable) /\ h \in Seq(Sendable)
          /\ HeadersTo(m + 1) \in Seq(Sendable)
      BY <2>5, HeadersToType, HeaderOfType
    <2> HIDE DEF h
    <2>9. Starts(HeadersTo(m), HeadersTo(m) \o h)
      BY <2>8, StartsJoined
    <2>10. Starts(HeadersTo(m), HeadersTo(m + 1)) /\ Starts(HeadersTo(m + 1), Headers)
      BY <2>5, <2>6, <2>7, <2>9
    <2>11. Starts(HeadersTo(m), Headers)
      BY <2>3, <2>8, <2>10, StartsThrough
    <2>12. QED
      BY <2>2, <2>11 DEF m
  <1>3. /\ HeaderCount - n \in Nat /\ HeaderCount - n <= HeaderCount
        /\ HeaderCount - (HeaderCount - n) = n
    BY <1>1
  <1>4. QED
    BY <1>2, <1>3

\* What the read callback gives next comes after what it gave.
LEMMA BodyNext ==
    ASSUME NEW r \in Seq(Nat), NEW n \in Nat
    PROVE  /\ BodyOf(r) \in Seq(Sendable) /\ BodyOf(Append(r, n)) \in Seq(Sendable)
           /\ BodyOf(Append(r, n)) = BodyOf(r) \o Piece(Len(r) + 1, n)
  <1> DEFINE m == Len(r)
             t == Append(r, n)
             g == [i \in 1 .. (m + 1) |-> Piece(i, t[i])]
             last == Piece(m + 1, n)
  <1>1. /\ m \in Nat /\ Len(t) = m + 1 /\ t[m + 1] = n
        /\ \A i \in 1 .. m : t[i] = r[i] /\ r[i] \in Nat
        /\ \A i \in 1 .. (m + 1) : t[i] \in Nat
    OBVIOUS
  <1>2. \A i \in Nat, k \in Nat : Piece(i, k) \in Seq(Sendable)
    BY PieceType, Zenon DEF Piece
  <1> HIDE DEF t, m
  <1>3. BodyOf(r) = FlattenSeq([i \in 1 .. m |-> Piece(i, r[i])])
    BY Zenon DEF BodyOf, Piece, m
  <1>4. BodyOf(t) = FlattenSeq([i \in 1 .. (m + 1) |-> Piece(i, t[i])])
    BY <1>1, Zenon DEF BodyOf, Piece
  <1>5. \A i \in 1 .. (m + 1) : g[i] = Piece(i, t[i]) /\ g[i] \in Seq(Sendable)
    BY <1>1, <1>2
  <1>6. First(g, m) = [i \in 1 .. m |-> Piece(i, r[i])]
    <2>1. \A i \in 1 .. m : g[i] = Piece(i, r[i])
      BY <1>1
    <2> HIDE DEF g
    <2>2. QED
      BY <2>1 DEF First
  <1>7. First(g, m + 1) = [i \in 1 .. (m + 1) |-> Piece(i, t[i])]
    BY DEF First
  <1>8. g[m + 1] = last /\ last \in Seq(Sendable)
    BY <1>1, <1>2
  <1> HIDE DEF g, last
  <1>9. First(g, m + 1) = Append(First(g, m), last)
    BY <1>1, <1>5, <1>8, FirstOneMore
  <1>10. First(g, m) \in Seq(Seq(Sendable)) /\ First(g, m + 1) \in Seq(Seq(Sendable))
    <2>1. m + 1 \in Nat /\ \A i \in 1 .. m : g[i] \in Seq(Sendable)
      BY <1>1, <1>5
    <2>2. First(g, m) \in Seq(Seq(Sendable))
      BY <1>1, <2>1, FirstType
    <2>3. First(g, m + 1) \in Seq(Seq(Sendable))
      BY <1>5, <2>1, FirstType
    <2>4. QED
      BY <2>2, <2>3
  <1>11. FlattenSeq(Append(First(g, m), last)) = FlattenSeq(First(g, m)) \o last
    BY <1>8, <1>10, FlattenAppend
  <1>12. FlattenSeq(First(g, m)) \in Seq(Sendable) /\ FlattenSeq(First(g, m + 1)) \in Seq(Sendable)
    BY <1>10, FlattenType
  <1>13. BodyOf(t) = BodyOf(r) \o last
    BY <1>3, <1>4, <1>6, <1>7, <1>9, <1>11
  <1>14. QED
    BY <1>3, <1>4, <1>6, <1>7, <1>12, <1>13 DEF t, m, last

\* Nothing read is nothing of a body.
LEMMA BodyNothing == BodyOf(<<>>) = <<>>
  <1>1. Len(<<>>) = 0
    OBVIOUS
  <1>2. [i \in 1 .. Len(<<>>) |-> IF request.length = Chunked THEN Frame(i, <<>>[i])
                                  ELSE Given(i, <<>>[i])] = <<>>
    BY <1>1
  <1>3. QED
    BY <1>2, FlattenEmpty DEF BodyOf

\* Up to where the request goes.
LEMMA HeadType ==
    ASSUME exchange \in Exchanges
    PROVE  /\ Asked \in Seq(Sendable) /\ Headers \in Seq(Sendable)
           /\ HeadAsked \in Seq(Sendable)
           /\ \A r \in Seq(Nat) : RequestOf(r) \in Seq(Sendable)
           /\ RequestOf(<<>>) = HeadAsked
  <1>1. Asked \in Seq(Sendable)
    <2>1. Part("line") \in Seq(Sendable) /\ Part("host") \in Seq(Sendable)
      BY NamedParts
    <2> HIDE DEF Part, Sendable
    <2>2. QED
      BY <2>1 DEF Asked
  <1>2. Headers \in Seq(Sendable)
    BY RequestType, HeadersToType, HeadersEnds
  <1>3. Framing \o Part("end") \in Seq(Sendable)
    BY FramingType
  <1>4. HeadAsked \in Seq(Sendable)
    <2> DEFINE f == Framing \o Part("end")
    <2>1. f \in Seq(Sendable)
      BY <1>3
    <2> HIDE DEF f
    <2>2. Asked \o Headers \o f \in Seq(Sendable)
      BY <1>1, <1>2, <2>1
    <2>3. QED
      BY <2>2 DEF f, HeadAsked
  <1>5. ASSUME NEW r \in Seq(Nat) PROVE RequestOf(r) \in Seq(Sendable)
    <2>1. BodyOf(r) \in Seq(Sendable)
      BY BodyNext
    <2>2. QED
      BY <1>4, <2>1 DEF RequestOf
  <1>6. RequestOf(<<>>) = HeadAsked
    BY <1>4, BodyNothing DEF RequestOf
  <1>7. QED
    BY <1>1, <1>2, <1>4, <1>5, <1>6

\* What is sent of the request up to here is its start.
LEMMA HeadStarts ==
    ASSUME exchange \in Exchanges
    PROVE  /\ \A r \in Seq(Nat) : Starts(HeadAsked, RequestOf(r))
           /\ Starts(Asked \o Headers, HeadAsked)
           /\ \A n \in Nat : n <= HeaderCount => Starts(Asked \o HeadersTo(n), Asked \o Headers)
           /\ Starts(Asked, Asked \o Headers)
           /\ Starts(Part("line"), Asked)
  <1>1. ASSUME NEW r \in Seq(Nat) PROVE Starts(HeadAsked, RequestOf(r))
    BY BodyNext, HeadType, StartsJoined DEF RequestOf
  <1>2. Starts(Asked \o Headers, HeadAsked)
    <2>1. Asked \o Headers \in Seq(Sendable)
      BY HeadType
    <2>2. Starts(Asked \o Headers, (Asked \o Headers) \o (Framing \o Part("end")))
      BY <2>1, FramingType, StartsJoined
    <2>3. QED
      BY <2>2 DEF HeadAsked
  <1>3. ASSUME NEW n \in Nat, n <= HeaderCount PROVE Starts(Asked \o HeadersTo(n), Asked \o Headers)
    BY <1>3, HeadType, HeadersToType, HeadersToStarts, StartsAfter
  <1>4. Starts(Asked, Asked \o Headers)
    BY HeadType, StartsJoined
  <1>5. Starts(Part("line"), Asked)
    BY NamedParts, StartsJoined DEF Asked
  <1>6. QED
    BY <1>1, <1>2, <1>3, <1>4, <1>5

-----------------------------------------------------------------------------

\* Of a part of the request, the one after before, sent_length is sent.
SentOf(k, s, before, part) ==
    /\ k.sent_length \in Nat /\ k.sent_length < Len(part)
    /\ s = before \o SubSeq(part, 1, k.sent_length)

\* The whole of the request is sent, and the callback gave all of its body.
WholeRead(r) ==
    HasReqBody => IF request.length = Chunked THEN Last(r) = 0
                  ELSE Len(BodyOf(r)) = request.length
WholeSent(s, r) == s = RequestOf(r) /\ WholeRead(r)

\* A header goes out after those before it.
HeaderSent(k, s) ==
    LET n == k.req_header
        h == request.headers[n]
        before == Asked \o HeadersTo(n - 1)
    IN  /\ n \in 1 .. (HeaderCount + 1)
        /\ k.state = "REQ_HEADER" => s = before /\ k.sent_length = 0
        /\ k.state # "REQ_HEADER" => n # HeaderCount + 1 /\ h \notin Unsent
        /\ k.state = "REQ_HEADER_SEND" => SentOf(k, s, before, Part(h))
        /\ k.state = "REQ_HEADER_SEND_CRLF" => SentOf(k, s, before \o Part(h), Part("crlf"))

\* What the callback gave, and what it has to give still, is the body.
BodyLeft(k, r) ==
    /\ HasReqBody
    /\ k.req_body_left \in Nat
    /\ request.length # Chunked => Len(BodyOf(r)) + k.req_body_left = request.length

\* What it gave last goes out after the rest.
FrameSent(k, s, r) ==
    /\ k.read_req_end => WholeRead(r)
    /\ k.req_frame \in Seq(Sendable)
    /\ \E before \in Seq(Sendable) :
        RequestOf(r) = before \o k.req_frame /\ SentOf(k, s, before, k.req_frame)

HeaderStates == {"REQ_HEADER", "REQ_HEADER_SEND", "REQ_HEADER_SEND_CRLF"}
BodyStates == {"REQ_BODY_READ", "REQ_BODY_SEND"}

\* What is sent, of what the callback gave, in each state.
Place(k, s, r) ==
    /\ k.state \in SendStates => k.resp_header_buff = <<>>
    /\ k.state \in SendStates \ BodyStates => r = <<>>
    /\ k.state \in {"IDLE", "CONNECT"} => s = <<>>
    /\ k.state = "REQ_LINE" => SentOf(k, s, <<>>, Part("line"))
    /\ k.state = "REQ_HOST_HEADER" => SentOf(k, s, Part("line"), Part("host"))
    /\ k.state \in HeaderStates => HeaderSent(k, s)
    /\ k.state = "REQ_HEADER_END" => SentOf(k, s, Asked \o Headers, Framing \o Part("end"))
    /\ k.state \in BodyStates => BodyLeft(k, r)
    /\ k.state = "REQ_BODY_READ" => s = RequestOf(r) /\ k.sent_length = 0
    /\ k.state = "REQ_BODY_SEND" => FrameSent(k, s, r)
    /\ k.state \notin SendStates \cup {"CLOSE", "FINISHED"} => WholeSent(s, r)

\* Whatever happens after.
Sent(k, s, r) ==
    /\ s \in Seq(Sendable) /\ r \in Seq(Nat)
    /\ Starts(s, RequestOf(r))
    /\ k.resp_header_buff # <<>> => WholeSent(s, r)

SendInv ==
    /\ BuffersInv
    /\ Sent(khc, sent, reads)
    /\ phase # "returned" => Place(khc, sent, reads)

\* A step of the request, of which the invariant follows.
Steps == /\ Sent(khc', sent', reads') /\ Place(khc', sent', reads')
         /\ exchange' = exchange

\* But for what is sent of the part.
Same(k, l) == DOMAIN k = Fields /\ \A f \in Fields \ {"sent_length"} : k[f] = l[f]

\* At a part of the request, of which more or all is sent, or nothing.
LEMMA SendsPart ==
    ASSUME SendInv, NEW before \in Seq(Sendable), NEW part \in Seq(Sendable),
           SentOf(khc, sent, before, part), Starts(before \o part, RequestOf(reads)),
           NEW k, DOMAIN k = Fields, k.resp_header_buff = <<>>, khc.resp_header_buff = <<>>,
           Sends(part, k)
    PROVE  /\ reads' = reads /\ exchange' = exchange /\ Sent(khc', sent', reads')
           /\ \/ Same(khc', khc) /\ SentOf(khc', sent', before, part)
              \/ Same(khc', k) /\ khc'.sent_length = 0 /\ sent' = before \o part
              \/ khc'.state = "CLOSE"
  <1>1. /\ reads' = reads /\ exchange' = exchange /\ sent \in Seq(Sendable) /\ reads \in Seq(Nat)
        /\ DOMAIN khc = Fields /\ Starts(sent, RequestOf(reads)) /\ exchange \in Exchanges
        /\ khc.sent_length \in Nat /\ khc.sent_length < Len(part)
        /\ sent = before \o SubSeq(part, 1, khc.sent_length)
    BY DEF Sends, SendInv, BuffersInv, Buffers, Sent, requestVars, SentOf
  <1>2. RequestOf(reads) \in Seq(Sendable)
    BY <1>1, HeadType
  <1>3. CASE khc' = khc /\ sent' = sent
    BY <1>1, <1>3 DEF Sent, SendInv, Same
  <1>4. CASE khc' = [Fails(khc, "SOCK_SEND") EXCEPT !.sock_error = "failed"] /\ sent' = sent
    <2>1. khc'.state = "CLOSE" /\ khc'.resp_header_buff = <<>>
      BY <1>1, <1>4, FieldNames DEF Fails
    <2>2. QED
      BY <1>1, <1>4, <2>1 DEF Sent, SendInv
  <1>5. ASSUME NEW n \in 1 .. Len(part) - khc.sent_length,
               sent' = sent \o SubSeq(part, khc.sent_length + 1, khc.sent_length + n),
               khc' = AfterSend(part, k, n)
        PROVE  /\ Sent(khc', sent', reads')
               /\ \/ Same(khc', khc) /\ SentOf(khc', sent', before, part)
                  \/ Same(khc', k) /\ khc'.sent_length = 0 /\ sent' = before \o part
    <2> DEFINE from == khc.sent_length
               to == from + n
               old == SubSeq(part, 1, from)
               new == SubSeq(part, from + 1, to)
               all == SubSeq(part, 1, to)
    <2>1. from \in Nat /\ to \in Nat /\ from < to /\ to <= Len(part) /\ Len(part) \in Nat
      BY <1>1
    <2>2. /\ old \in Seq(Sendable) /\ new \in Seq(Sendable) /\ all \in Seq(Sendable)
          /\ old \o new = all
      <3> HIDE DEF to, from
      <3>1. MadeOfParts(part, from, to)
        BY <2>1, PartsJoined
      <3>2. QED
        BY <2>1, <3>1 DEF MadeOfParts
    <2>3. sent' = before \o all
      <3>1. sent' = (before \o old) \o new
        BY <1>1, <1>5
      <3> HIDE DEF old, new, all
      <3>2. Groups(before, old, new)
        BY <2>2, Associative
      <3>3. QED
        BY <2>2, <3>1, <3>2 DEF Groups
    <2>4. Starts(sent', RequestOf(reads)) /\ sent' \in Seq(Sendable)
      <3>1. Starts(all, part)
        BY <2>1, StartsPart
      <3> HIDE DEF all
      <3>2. Starts(before \o all, before \o part)
        BY <2>2, <3>1, StartsAfter
      <3>3. before \o all \in Seq(Sendable) /\ before \o part \in Seq(Sendable)
        BY <2>2
      <3>4. Starts(before \o all, RequestOf(reads))
        <4> DEFINE a == before \o all
                   b == before \o part
        <4>1. a \in Seq(Sendable) /\ b \in Seq(Sendable) /\ Starts(a, b)
              /\ Starts(b, RequestOf(reads))
          BY <3>2, <3>3
        <4> HIDE DEF a, b
        <4>2. Starts(a, RequestOf(reads))
          BY <1>2, <4>1, StartsThrough
        <4>3. QED
          BY <4>2 DEF a
      <3>5. QED
        BY <2>3, <3>3, <3>4
    <2>5. CASE to < Len(part)
      <3>1. khc' = [khc EXCEPT !.sent_length = to]
        BY <1>5, <2>5 DEF AfterSend
      <3> HIDE DEF to, all
      <3>2. /\ DOMAIN khc' = Fields /\ khc'.sent_length = to
            /\ \A f \in Fields \ {"sent_length"} : khc'[f] = khc[f]
        BY <1>1, <3>1, FieldNames
      <3>3. khc'.resp_header_buff = <<>>
        BY <3>2, FieldNames
      <3>4. SentOf(khc', sent', before, part)
        BY <2>1, <2>3, <2>5, <3>2 DEF SentOf, all
      <3>5. QED
        BY <1>1, <2>4, <3>2, <3>3, <3>4 DEF Sent, Same
    <2>6. CASE ~(to < Len(part))
      <3>1. khc' = [k EXCEPT !.sent_length = 0] /\ all = part
        <4>1. to = Len(part)
          BY <2>1, <2>6
        <4>2. QED
          BY <1>5, <2>6, <4>1 DEF AfterSend
      <3>2. /\ DOMAIN khc' = Fields /\ khc'.sent_length = 0
            /\ \A f \in Fields \ {"sent_length"} : khc'[f] = k[f]
        BY <3>1, FieldNames
      <3>3. khc'.resp_header_buff = <<>>
        BY <3>2, FieldNames
      <3>4. QED
        BY <1>1, <2>3, <2>4, <3>1, <3>2, <3>3 DEF Sent, Same
    <2>7. QED
      BY <2>5, <2>6
  <1>6. QED
    BY <1>1, <1>3, <1>4, <1>5 DEF Sends

\* So it is of the whole.
LEMMA RequestStarts ==
    ASSUME exchange \in Exchanges, NEW r \in Seq(Nat)
    PROVE  /\ Starts(HeadAsked, RequestOf(r)) /\ Starts(Asked \o Headers, RequestOf(r))
           /\ \A n \in Nat : n <= HeaderCount => Starts(Asked \o HeadersTo(n), RequestOf(r))
           /\ Starts(Asked, RequestOf(r)) /\ Starts(Part("line"), RequestOf(r))
  <1> DEFINE R == RequestOf(r)
             AH == Asked \o Headers
  <1>1. /\ Asked \in Seq(Sendable) /\ HeadAsked \in Seq(Sendable) /\ R \in Seq(Sendable)
        /\ AH \in Seq(Sendable)
    BY HeadType
  <1>2. Starts(HeadAsked, R) /\ Starts(AH, HeadAsked) /\ Starts(Asked, AH)
        /\ Starts(Part("line"), Asked)
    BY HeadStarts
  <1>3. Part("line") \in Seq(Sendable)
    BY NamedParts
  <1>4. ASSUME NEW n \in Nat, n <= HeaderCount
        PROVE  Asked \o HeadersTo(n) \in Seq(Sendable) /\ Starts(Asked \o HeadersTo(n), AH)
    BY <1>1, <1>4, HeadersToType, HeadStarts
  <1> HIDE DEF R, AH
  <1>5. Starts(AH, R)
    BY <1>1, <1>2, StartsThrough
  <1>6. Starts(Asked, R)
    BY <1>1, <1>2, <1>5, StartsThrough
  <1>7. Starts(Part("line"), R)
    BY <1>1, <1>2, <1>3, <1>6, StartsThrough
  <1>8. ASSUME NEW n \in Nat, n <= HeaderCount PROVE Starts(Asked \o HeadersTo(n), R)
    <2> DEFINE a == Asked \o HeadersTo(n)
    <2>1. a \in Seq(Sendable) /\ Starts(a, AH)
      BY <1>4, <1>8
    <2> HIDE DEF a
    <2>2. Starts(a, R)
      BY <1>1, <1>5, <2>1, StartsThrough
    <2>3. QED
      BY <2>2 DEF a
  <1>9. QED
    BY <1>2, <1>5, <1>6, <1>7, <1>8 DEF R, AH

\* Nothing of a part that begins is sent.
LEMMA NothingSent ==
    ASSUME NEW before \in Seq(Sendable), NEW part \in Seq(Sendable), Len(part) # 0,
           NEW k, k.sent_length = 0
    PROVE  SentOf(k, before, before, part)
  <1>1. SubSeq(part, 1, 0) = <<>> /\ Len(part) \in Nat
    OBVIOUS
  <1>2. before \o SubSeq(part, 1, 0) = before
    BY <1>1
  <1>3. QED
    BY <1>1, <1>2 DEF SentOf

\* What is known in each state.
LEMMA InState ==
    ASSUME SendInv, NEW state, At(state)
    PROVE  /\ phase = "loop" /\ khc.state = state /\ DOMAIN khc = Fields
           /\ exchange \in Exchanges /\ Place(khc, sent, reads) /\ Sent(khc, sent, reads)
           /\ sent \in Seq(Sendable) /\ reads \in Seq(Nat)
  BY DEF At, Running, SendInv, BuffersInv, Buffers, Sent

\* Wherever a part of it is sent, and after all of it.
MorePlaced(before, part) ==
    \A k, s : Same(k, khc) /\ SentOf(k, s, before, part) => Place(k, s, reads)
AllPlaced(l, s) == \A k : Same(k, l) /\ k.sent_length = 0 => Place(k, s, reads)

\* A send of a part goes on in it, or goes over to what comes after.
LEMMA SendsSteps ==
    ASSUME SendInv, NEW before \in Seq(Sendable), NEW part \in Seq(Sendable),
           SentOf(khc, sent, before, part), Starts(before \o part, RequestOf(reads)),
           NEW k, DOMAIN k = Fields, k.resp_header_buff = <<>>, khc.resp_header_buff = <<>>,
           Sends(part, k), MorePlaced(before, part), AllPlaced(k, before \o part)
    PROVE  Steps
  <1> DEFINE all == before \o part
  <1>1. /\ reads' = reads /\ exchange' = exchange /\ Sent(khc', sent', reads')
        /\ \/ Same(khc', khc) /\ SentOf(khc', sent', before, part)
           \/ Same(khc', k) /\ khc'.sent_length = 0 /\ sent' = all
           \/ khc'.state = "CLOSE"
    BY SendsPart
  <1>2. AllPlaced(k, all)
    OBVIOUS
  <1> HIDE DEF all
  <1>3. CASE Same(khc', khc) /\ SentOf(khc', sent', before, part)
    BY <1>1, <1>3, Zenon DEF MorePlaced, Steps
  <1>4. CASE Same(khc', k) /\ khc'.sent_length = 0 /\ sent' = all
    BY <1>1, <1>2, <1>4, Zenon DEF AllPlaced, Steps
  <1>5. CASE khc'.state = "CLOSE"
    BY <1>1, <1>5 DEF Steps, Place, SendStates, BodyStates, HeaderStates
  <1>6. QED
    BY <1>1, <1>3, <1>4, <1>5

\* REQ_LINE sends the line, which is what the request begins with.
LEMMA ReqLineSteps == ASSUME SendInv, ReqLine PROVE Steps
  <1> DEFINE k == Goto(khc, "REQ_HOST_HEADER")
             part == Part("line")
             next == Part("host")
  <1>1. At("REQ_LINE") /\ Sends(part, k)
    BY DEF ReqLine
  <1>2. /\ khc.state = "REQ_LINE" /\ DOMAIN khc = Fields /\ exchange \in Exchanges
        /\ reads = <<>> /\ reads \in Seq(Nat)
        /\ SentOf(khc, sent, <<>>, part) /\ khc.resp_header_buff = <<>>
    BY <1>1, InState DEF Place, SendStates, BodyStates
  <1>3. DOMAIN k = Fields /\ k.state = "REQ_HOST_HEADER" /\ k.resp_header_buff = <<>>
    BY <1>2, FieldNames DEF Goto
  <1>4. /\ part \in Seq(Sendable) /\ next \in Seq(Sendable) /\ Len(next) # 0
        /\ Starts(part, RequestOf(reads))
    <2>1. part \in Seq(Sendable) /\ next \in Seq(Sendable) /\ Len(next) = 2
      BY NamedParts
    <2>2. Starts(part, RequestOf(reads))
      BY <1>2, RequestStarts
    <2>3. QED
      BY <2>1, <2>2
  <1> HIDE DEF k, part, next
  <1>5. <<>> \in Seq(Sendable) /\ <<>> \o part = part
    BY <1>4
  <1>6. ASSUME NEW l, NEW s, Same(l, khc), SentOf(l, s, <<>>, part)
        PROVE  Place(l, s, reads)
    <2>1. l.state = "REQ_LINE" /\ l.resp_header_buff = <<>>
      BY <1>2, <1>6, FieldNames DEF Same
    <2>2. QED
      BY <1>2, <1>6, <2>1 DEF Place, SendStates, BodyStates, HeaderStates, part
  <1>7. ASSUME NEW l, Same(l, k), l.sent_length = 0
        PROVE  Place(l, part, reads)
    <2>1. l.state = "REQ_HOST_HEADER" /\ l.resp_header_buff = <<>>
      BY <1>3, <1>7, FieldNames DEF Same
    <2>2. SentOf(l, part, part, next)
      BY <1>4, <1>7, NothingSent
    <2>3. QED
      BY <1>2, <2>1, <2>2 DEF Place, SendStates, BodyStates, HeaderStates, part, next
  <1>8. MorePlaced(<<>>, part) /\ AllPlaced(k, <<>> \o part)
    BY <1>5, <1>6, <1>7, Zenon DEF MorePlaced, AllPlaced
  <1>9. Starts(<<>> \o part, RequestOf(reads))
    BY <1>4, <1>5
  <1>10. QED
    BY <1>1, <1>2, <1>3, <1>4, <1>5, <1>8, <1>9, SendsSteps

\* REQ_HOST_HEADER sends the host after it.
LEMMA ReqHostHeaderSteps == ASSUME SendInv, ReqHostHeader PROVE Steps
  <1> DEFINE k == [khc EXCEPT !.state = "REQ_HEADER", !.req_header = 1]
             before == Part("line")
             part == Part("host")
  <1>1. At("REQ_HOST_HEADER") /\ Sends(part, k)
    BY DEF ReqHostHeader
  <1>2. /\ khc.state = "REQ_HOST_HEADER" /\ DOMAIN khc = Fields /\ exchange \in Exchanges
        /\ reads = <<>> /\ reads \in Seq(Nat)
        /\ SentOf(khc, sent, before, part) /\ khc.resp_header_buff = <<>>
    BY <1>1, InState DEF Place, SendStates, BodyStates
  <1>3. /\ DOMAIN k = Fields /\ k.state = "REQ_HEADER" /\ k.req_header = 1
        /\ k.resp_header_buff = <<>>
    BY <1>2, FieldNames
  <1>4. before \in Seq(Sendable) /\ part \in Seq(Sendable)
    BY NamedParts
  <1>5. Starts(before \o part, RequestOf(reads)) /\ before \o part = Asked
    BY <1>2, RequestStarts DEF Asked
  <1> HIDE DEF k, before, part
  <1>6. Asked \o HeadersTo(0) = Asked /\ HeaderCount \in Nat
    BY <1>2, HeadType, HeadersEnds, RequestType
  <1>7. ASSUME NEW l, NEW s, Same(l, khc), SentOf(l, s, before, part)
        PROVE  Place(l, s, reads)
    <2>1. l.state = "REQ_HOST_HEADER" /\ l.resp_header_buff = <<>>
      BY <1>2, <1>7, FieldNames DEF Same
    <2>2. QED
      BY <1>2, <1>7, <2>1 DEF Place, SendStates, BodyStates, HeaderStates, before, part
  <1>8. ASSUME NEW l, Same(l, k), l.sent_length = 0
        PROVE  Place(l, Asked, reads)
    <2>1. l.state = "REQ_HEADER" /\ l.resp_header_buff = <<>> /\ l.req_header = 1
      BY <1>3, <1>8, FieldNames DEF Same
    <2>2. HeaderSent(l, Asked)
      <3>1. 1 \in 1 .. (HeaderCount + 1) /\ 1 - 1 = 0
        BY <1>6
      <3>2. QED
        BY <1>6, <1>8, <2>1, <3>1 DEF HeaderSent
    <2>3. QED
      BY <1>2, <2>1, <2>2 DEF Place, SendStates, BodyStates, HeaderStates
  <1>9. MorePlaced(before, part) /\ AllPlaced(k, before \o part)
    BY <1>5, <1>7, <1>8, Zenon DEF MorePlaced, AllPlaced
  <1>10. QED
    BY <1>1, <1>2, <1>3, <1>4, <1>5, <1>9, SendsSteps

\* Another header, or their end.
LEMMA ReqHeaderSteps == ASSUME SendInv, ReqHeader PROVE Steps
  <1> DEFINE n == khc.req_header
             next == [khc EXCEPT !.req_header = @ + 1]
             before == Asked \o HeadersTo(n - 1)
  <1>1. At("REQ_HEADER")
    BY DEF ReqHeader
  <1>2. /\ khc.state = "REQ_HEADER" /\ DOMAIN khc = Fields /\ exchange \in Exchanges
        /\ reads = <<>> /\ Sent(khc, sent, reads) /\ HeaderSent(khc, sent)
        /\ khc.resp_header_buff = <<>>
    BY <1>1, InState DEF Place, SendStates, BodyStates, HeaderStates
  <1>3. /\ n \in 1 .. (HeaderCount + 1) /\ sent = before /\ khc.sent_length = 0
        /\ HeaderCount \in Nat
    BY <1>2, RequestType DEF HeaderSent
  <1>4. UNCHANGED <<sent, reads, exchange>>
    BY DEF ReqHeader, Then, requestVars, historyVars
  <1>5. CASE n > HeaderCount /\ khc' = Goto(khc, "REQ_HEADER_END")
    <2>1. n - 1 = HeaderCount
      BY <1>3, <1>5
    <2>2. sent = Asked \o Headers
      BY <1>3, <2>1, HeadersEnds
    <2>3. /\ khc'.state = "REQ_HEADER_END" /\ khc'.resp_header_buff = <<>>
          /\ khc'.sent_length = 0
      BY <1>2, <1>3, <1>5, FieldNames DEF Goto
    <2>4. SentOf(khc', sent, Asked \o Headers, Framing \o Part("end"))
      <3> DEFINE a == Asked \o Headers
                 b == Framing \o Part("end")
      <3>1. a \in Seq(Sendable)
        BY <1>2, HeadType
      <3>2. b \in Seq(Sendable) /\ Len(b) # 0
        BY <1>2, FramingType
      <3>3. sent = a
        BY <2>2
      <3> HIDE DEF a, b
      <3>4. SentOf(khc', a, a, b)
        BY <2>3, <3>1, <3>2, NothingSent
      <3>5. QED
        BY <3>3, <3>4 DEF a, b
    <2>5. Place(khc', sent, reads) /\ Sent(khc', sent, reads)
      BY <1>2, <2>3, <2>4 DEF Place, SendStates, BodyStates, HeaderStates, Sent
    <2>6. QED
      BY <1>4, <2>5 DEF Steps
  <1>6. CASE /\ ~(n > HeaderCount) /\ request.headers[n] \in Unsent
             /\ khc' = next
    <2>1. n \in 1 .. HeaderCount /\ n + 1 \in 1 .. (HeaderCount + 1) /\ (n + 1) - 1 = n
      BY <1>3, <1>6
    <2>2. /\ khc'.state = "REQ_HEADER" /\ khc'.resp_header_buff = <<>>
          /\ khc'.sent_length = 0 /\ khc'.req_header = n + 1
      BY <1>2, <1>3, <1>6, FieldNames
    <2>3. HeadersTo(n) = HeadersTo(n - 1)
      <3>1. HeaderOf(request.headers[n]) = <<>>
        BY <1>6, Zenon DEF HeaderOf
      <3>2. HeadersTo(n) = HeadersTo(n - 1) \o HeaderOf(request.headers[n])
        BY <1>2, <2>1, HeadersToNext
      <3>3. HeadersTo(n - 1) \in Seq(Sendable)
        <4>1. n - 1 \in Nat /\ n - 1 <= HeaderCount
          BY <1>3, <2>1
        <4>2. QED
          BY <1>2, <4>1, HeadersToType
      <3>4. QED
        BY <3>1, <3>2, <3>3
    <2>4. HeaderSent(khc', sent)
      <3>1. sent = Asked \o HeadersTo((n + 1) - 1)
        BY <1>3, <2>1, <2>3
      <3>2. QED
        BY <2>1, <2>2, <3>1 DEF HeaderSent
    <2>5. Place(khc', sent, reads) /\ Sent(khc', sent, reads)
      BY <1>2, <2>2, <2>4 DEF Place, SendStates, BodyStates, HeaderStates, Sent
    <2>6. QED
      BY <1>4, <2>5 DEF Steps
  <1>7. CASE /\ ~(n > HeaderCount) /\ request.headers[n] \notin Unsent
             /\ khc' = Goto(khc, "REQ_HEADER_SEND")
    <2>1. n \in 1 .. HeaderCount /\ n - 1 \in Nat /\ n - 1 <= HeaderCount
      BY <1>3, <1>7
    <2>2. /\ khc'.state = "REQ_HEADER_SEND" /\ khc'.resp_header_buff = <<>>
          /\ khc'.sent_length = 0 /\ khc'.req_header = n
      BY <1>2, <1>3, <1>7, FieldNames DEF Goto
    <2>3. SentOf(khc', sent, before, Part(request.headers[n]))
      <3> DEFINE b == Part(request.headers[n])
      <3>1. before \in Seq(Sendable)
        BY <1>2, <2>1, HeadType, HeadersToType
      <3>2. b \in Seq(Sendable) /\ Len(b) # 0
        <4>1. request.headers[n] \in Words
          BY <1>2, <2>1, RequestType
        <4>2. b \in Seq(Sendable) /\ Len(b) = 2
          BY <4>1, PartType
        <4>3. QED
          BY <4>2
      <3>3. sent = before
        BY <1>3
      <3> HIDE DEF before, b
      <3>4. SentOf(khc', before, before, b)
        BY <2>2, <3>1, <3>2, NothingSent
      <3>5. QED
        BY <3>3, <3>4 DEF b
    <2>4. HeaderSent(khc', sent)
      <3>1. n \in 1 .. (HeaderCount + 1) /\ n # HeaderCount + 1
        BY <1>3, <2>1
      <3>2. QED
        BY <1>7, <2>2, <2>3, <3>1 DEF HeaderSent
    <2>5. Place(khc', sent, reads) /\ Sent(khc', sent, reads)
      BY <1>2, <2>2, <2>4 DEF Place, SendStates, BodyStates, HeaderStates, Sent
    <2>6. QED
      BY <1>4, <2>5 DEF Steps
  <1>8. QED
    BY <1>5, <1>6, <1>7, Zenon DEF ReqHeader, Then, HeaderCount

\* A header that isn't passed over, and what is sent with it.
LEMMA HeaderParts ==
    ASSUME exchange \in Exchanges, NEW r \in Seq(Nat), NEW n \in 1 .. HeaderCount,
           request.headers[n] \notin Unsent
    PROVE  LET part == Part(request.headers[n])
               before == Asked \o HeadersTo(n - 1)
               next == Part("crlf")
           IN  /\ part \in Seq(Sendable) /\ before \in Seq(Sendable) /\ next \in Seq(Sendable)
               /\ before \o part \in Seq(Sendable) /\ Len(next) # 0
               /\ Starts(before \o part, RequestOf(r))
               /\ (before \o part) \o next = Asked \o HeadersTo(n)
               /\ Starts((before \o part) \o next, RequestOf(r))
  <1> DEFINE h == request.headers[n]
             before == Asked \o HeadersTo(n - 1)
             part == Part(h)
             next == Part("crlf")
             all == before \o part
             more == all \o next
  <1>1. /\ HeaderCount \in Nat /\ n \in Nat /\ n <= HeaderCount
        /\ n - 1 \in Nat /\ n - 1 <= HeaderCount
    BY RequestType
  <1>2. HeadersTo(n - 1) \in Seq(Sendable) /\ Asked \in Seq(Sendable)
    BY <1>1, HeadType, HeadersToType
  <1>3. part \in Seq(Sendable)
    <2>1. h \in Words
      BY RequestType
    <2>2. QED
      BY <2>1, PartType
  <1>4. next \in Seq(Sendable) /\ Len(next) = 2
    BY NamedParts
  <1>5. before \in Seq(Sendable)
    BY <1>2
  <1>6. all \in Seq(Sendable)
    <2> HIDE DEF before, part
    <2>1. QED
      BY <1>3, <1>5
  <1>7. more = Asked \o HeadersTo(n)
    <2>1. HeadersTo(n) = HeadersTo(n - 1) \o (part \o next)
      <3>1. HeadersTo(n) = HeadersTo(n - 1) \o HeaderOf(h)
        BY HeadersToNext
      <3>2. HeaderOf(h) = part \o next
        BY Zenon DEF HeaderOf
      <3>3. QED
        BY <3>1, <3>2
    <2>2. ((Asked \o HeadersTo(n - 1)) \o part) \o next
            = Asked \o (HeadersTo(n - 1) \o (part \o next))
      <3> HIDE DEF part, next
      <3>1. Regroups(Asked, HeadersTo(n - 1), part, next)
        BY <1>2, <1>3, <1>4, AssociativeOfFour
      <3>2. QED
        BY <3>1 DEF Regroups
    <2>3. QED
      BY <2>1, <2>2
  <1>8. Starts(more, RequestOf(r))
    <2>1. Starts(Asked \o HeadersTo(n), RequestOf(r))
      BY <1>1, RequestStarts
    <2>2. QED
      BY <1>7, <2>1
  <1>9. Starts(all, RequestOf(r))
    <2> HIDE DEF all, next
    <2>1. Starts(all, more) /\ more \in Seq(Sendable)
      BY <1>4, <1>6, StartsJoined
    <2> HIDE DEF more
    <2>2. RequestOf(r) \in Seq(Sendable)
      BY HeadType
    <2>3. QED
      BY <1>6, <1>8, <2>1, <2>2, StartsThrough
  <1>10. Len(next) # 0
    <2> HIDE DEF next
    <2>1. QED
      BY <1>4
  <1>11. QED
    BY <1>3, <1>4, <1>5, <1>6, <1>7, <1>8, <1>9, <1>10, Zenon

\* REQ_HEADER_SEND sends one header after those before it.
LEMMA ReqHeaderSendSteps == ASSUME SendInv, ReqHeaderSend PROVE Steps
  <1> DEFINE n == khc.req_header
             h == request.headers[n]
             k == Goto(khc, "REQ_HEADER_SEND_CRLF")
             before == Asked \o HeadersTo(n - 1)
             part == Part(h)
             next == Part("crlf")
             all == before \o part
  <1>1. At("REQ_HEADER_SEND") /\ Sends(part, k)
    BY DEF ReqHeaderSend
  <1>2. /\ khc.state = "REQ_HEADER_SEND" /\ DOMAIN khc = Fields /\ exchange \in Exchanges
        /\ reads = <<>> /\ reads \in Seq(Nat) /\ HeaderSent(khc, sent)
        /\ khc.resp_header_buff = <<>>
    BY <1>1, InState DEF Place, SendStates, BodyStates, HeaderStates
  <1>3. /\ n \in 1 .. HeaderCount /\ h \notin Unsent /\ SentOf(khc, sent, before, part)
        /\ n \in 1 .. (HeaderCount + 1) /\ n # HeaderCount + 1
    BY <1>2, RequestType DEF HeaderSent
  <1>4. /\ DOMAIN k = Fields /\ k.state = "REQ_HEADER_SEND_CRLF" /\ k.req_header = n
        /\ k.resp_header_buff = <<>>
    BY <1>2, FieldNames DEF Goto
  <1>5. /\ part \in Seq(Sendable) /\ before \in Seq(Sendable) /\ next \in Seq(Sendable)
        /\ all \in Seq(Sendable) /\ Len(next) # 0 /\ Starts(all, RequestOf(reads))
    BY <1>2, <1>3, HeaderParts
  <1> HIDE DEF k
  <1>6. ASSUME NEW l, NEW s, Same(l, khc), SentOf(l, s, before, part)
        PROVE  Place(l, s, reads)
    <2>1. l.state = "REQ_HEADER_SEND" /\ l.resp_header_buff = <<>> /\ l.req_header = n
      BY <1>2, <1>6, FieldNames DEF Same
    <2>2. HeaderSent(l, s)
      BY <1>3, <1>6, <2>1 DEF HeaderSent
    <2>3. QED
      BY <1>2, <2>1, <2>2 DEF Place, SendStates, BodyStates, HeaderStates
  <1>7. ASSUME NEW l, Same(l, k), l.sent_length = 0
        PROVE  Place(l, all, reads)
    <2>1. l.state = "REQ_HEADER_SEND_CRLF" /\ l.resp_header_buff = <<>> /\ l.req_header = n
      BY <1>4, <1>7, FieldNames DEF Same
    <2>2. SentOf(l, all, all, next)
      <3> HIDE DEF all, next
      <3>1. QED
        BY <1>5, <1>7, NothingSent
    <2>3. HeaderSent(l, all)
      BY <1>3, <2>1, <2>2 DEF HeaderSent
    <2>4. QED
      BY <1>2, <2>1, <2>3 DEF Place, SendStates, BodyStates, HeaderStates
  <1>8. MorePlaced(before, part)
    BY <1>6, Zenon DEF MorePlaced
  <1>9. AllPlaced(k, all)
    BY <1>7, Zenon DEF AllPlaced
  <1> HIDE DEF before, part
  <1>10. QED
    BY <1>1, <1>2, <1>3, <1>4, <1>5, <1>8, <1>9, SendsSteps

\* REQ_HEADER_SEND_CRLF ends the header, and goes on to the next.
LEMMA ReqHeaderSendCrlfSteps == ASSUME SendInv, ReqHeaderSendCrlf PROVE Steps
  <1> DEFINE n == khc.req_header
             h == request.headers[n]
             k == [khc EXCEPT !.state = "REQ_HEADER", !.req_header = @ + 1]
             before == (Asked \o HeadersTo(n - 1)) \o Part(h)
             part == Part("crlf")
             all == before \o part
  <1>1. At("REQ_HEADER_SEND_CRLF") /\ Sends(part, k)
    BY DEF ReqHeaderSendCrlf
  <1>2. /\ khc.state = "REQ_HEADER_SEND_CRLF" /\ DOMAIN khc = Fields /\ exchange \in Exchanges
        /\ reads = <<>> /\ reads \in Seq(Nat) /\ HeaderSent(khc, sent)
        /\ khc.resp_header_buff = <<>>
    BY <1>1, InState DEF Place, SendStates, BodyStates, HeaderStates
  <1>3. /\ n \in 1 .. HeaderCount /\ h \notin Unsent /\ SentOf(khc, sent, before, part)
        /\ n \in 1 .. (HeaderCount + 1) /\ n # HeaderCount + 1
        /\ n + 1 \in 1 .. (HeaderCount + 1) /\ (n + 1) - 1 = n
    BY <1>2, RequestType DEF HeaderSent
  <1>4. /\ DOMAIN k = Fields /\ k.state = "REQ_HEADER" /\ k.req_header = n + 1
        /\ k.resp_header_buff = <<>>
    BY <1>2, FieldNames
  <1>5. /\ part \in Seq(Sendable) /\ before \in Seq(Sendable)
        /\ Starts(all, RequestOf(reads)) /\ all = Asked \o HeadersTo(n)
    BY <1>2, <1>3, HeaderParts
  <1> HIDE DEF k
  <1>6. ASSUME NEW l, NEW s, Same(l, khc), SentOf(l, s, before, part)
        PROVE  Place(l, s, reads)
    <2>1. l.state = "REQ_HEADER_SEND_CRLF" /\ l.resp_header_buff = <<>> /\ l.req_header = n
      BY <1>2, <1>6, FieldNames DEF Same
    <2>2. HeaderSent(l, s)
      BY <1>3, <1>6, <2>1 DEF HeaderSent
    <2>3. QED
      BY <1>2, <2>1, <2>2 DEF Place, SendStates, BodyStates, HeaderStates
  <1>7. ASSUME NEW l, Same(l, k), l.sent_length = 0
        PROVE  Place(l, all, reads)
    <2>1. l.state = "REQ_HEADER" /\ l.resp_header_buff = <<>> /\ l.req_header = n + 1
      BY <1>4, <1>7, FieldNames DEF Same
    <2>2. all = Asked \o HeadersTo((n + 1) - 1)
      BY <1>3, <1>5
    <2> HIDE DEF all
    <2>3. HeaderSent(l, all)
      BY <1>3, <1>7, <2>1, <2>2 DEF HeaderSent
    <2>4. QED
      BY <1>2, <2>1, <2>3 DEF Place, SendStates, BodyStates, HeaderStates
  <1>8. MorePlaced(before, part)
    BY <1>6, Zenon DEF MorePlaced
  <1>9. AllPlaced(k, all)
    BY <1>7, Zenon DEF AllPlaced
  <1> HIDE DEF before, part
  <1>10. QED
    BY <1>1, <1>2, <1>3, <1>4, <1>5, <1>8, <1>9, SendsSteps

\* The end of the headers, before the body or without one.
LEMMA ReqHeaderEndSteps == ASSUME SendInv, ReqHeaderEnd PROVE Steps
  <1> DEFINE more == [khc EXCEPT !.state = "REQ_BODY_READ", !.read_req_end = FALSE,
                                 !.req_body_left = request.length]
             none == [khc EXCEPT !.state = "RESP_STATUS_READ", !.read_req_end = FALSE,
                                 !.resp_header_buff = <<>>]
             k == IF HasReqBody THEN more ELSE none
             before == Asked \o Headers
             part == Framing \o Part("end")
  <1>1. At("REQ_HEADER_END") /\ Sends(part, k)
    BY DEF ReqHeaderEnd
  <1>2. /\ khc.state = "REQ_HEADER_END" /\ DOMAIN khc = Fields /\ exchange \in Exchanges
        /\ reads = <<>> /\ reads \in Seq(Nat)
        /\ SentOf(khc, sent, before, part) /\ khc.resp_header_buff = <<>>
    BY <1>1, InState DEF Place, SendStates, BodyStates
  <1>3. /\ DOMAIN more = Fields /\ more.state = "REQ_BODY_READ"
        /\ more.req_body_left = request.length /\ more.resp_header_buff = <<>>
        /\ DOMAIN none = Fields /\ none.state = "RESP_STATUS_READ"
        /\ none.resp_header_buff = <<>>
    BY <1>2, FieldNames
  <1> HIDE DEF more, none
  <1>4. DOMAIN k = Fields /\ k.resp_header_buff = <<>>
    BY <1>3
  <1>5. before \in Seq(Sendable) /\ part \in Seq(Sendable)
    <2>1. before \in Seq(Sendable)
      BY <1>2, HeadType
    <2>2. QED
      BY <1>2, <2>1, FramingType
  <1>6. before \o part = HeadAsked
    BY DEF HeadAsked
  <1>7. RequestOf(reads) = HeadAsked /\ Starts(HeadAsked, RequestOf(reads))
    BY <1>2, HeadType, RequestStarts
  <1> HIDE DEF before, part
  <1>8. ASSUME NEW l, NEW s, Same(l, khc), SentOf(l, s, before, part)
        PROVE  Place(l, s, reads)
    <2>1. l.state = "REQ_HEADER_END" /\ l.resp_header_buff = <<>>
      BY <1>2, <1>8, FieldNames DEF Same
    <2>2. QED
      BY <1>2, <1>8, <2>1 DEF Place, SendStates, BodyStates, HeaderStates, before, part
  <1>9. ASSUME NEW l, Same(l, k), l.sent_length = 0
        PROVE  Place(l, HeadAsked, reads)
    <2>1. CASE HasReqBody
      <3>1. /\ l.state = "REQ_BODY_READ" /\ l.resp_header_buff = <<>>
            /\ l.req_body_left = request.length
        BY <1>3, <1>9, <2>1, FieldNames DEF Same
      <3>2. BodyLeft(l, reads)
        <4>1. Len(BodyOf(reads)) = 0
          BY <1>2, BodyNothing
        <4>2. request.length \in Nat
          BY <1>2, RequestType
        <4>3. QED
          BY <2>1, <3>1, <4>1, <4>2 DEF BodyLeft
      <3>3. QED
        BY <1>7, <1>9, <3>1, <3>2 DEF Place, SendStates, BodyStates, HeaderStates
    <2>2. CASE ~HasReqBody
      <3>1. l.state = "RESP_STATUS_READ" /\ l.resp_header_buff = <<>>
        BY <1>3, <1>9, <2>2, FieldNames DEF Same
      <3>2. WholeSent(HeadAsked, reads)
        BY <1>7, <2>2 DEF WholeSent, WholeRead
      <3>3. QED
        BY <3>1, <3>2 DEF Place, SendStates, BodyStates, HeaderStates
    <2>3. QED
      BY <2>1, <2>2
  <1> HIDE DEF k
  <1>10. MorePlaced(before, part) /\ AllPlaced(k, before \o part)
    BY <1>6, <1>8, <1>9, Zenon DEF MorePlaced, AllPlaced
  <1>11. Starts(before \o part, RequestOf(reads))
    BY <1>6, <1>7
  <1>12. QED
    BY <1>1, <1>2, <1>4, <1>5, <1>10, <1>11, SendsSteps

\* The callback's next, to be sent after what it gave.
LEMMA FramePlaced ==
    ASSUME SendInv, At("REQ_BODY_READ"), NEW got \in Nat,
           reads' = Append(reads, got), sent' = sent, exchange' = exchange,
           DOMAIN khc' = Fields, khc'.state = "REQ_BODY_SEND", khc'.sent_length = khc.sent_length,
           khc'.resp_header_buff = khc.resp_header_buff,
           khc'.req_frame = Piece(Len(reads) + 1, got), Len(Piece(Len(reads) + 1, got)) # 0,
           BodyLeft(khc', reads'), khc'.read_req_end => WholeRead(reads')
    PROVE  Steps
  <1> DEFINE r == Append(reads, got)
             frame == Piece(Len(reads) + 1, got)
  <1>1. /\ khc.state = "REQ_BODY_READ" /\ exchange \in Exchanges
        /\ reads \in Seq(Nat) /\ sent = RequestOf(reads) /\ khc.sent_length = 0
        /\ khc.resp_header_buff = <<>>
    BY InState DEF Place, SendStates, BodyStates
  <1>2. r \in Seq(Nat) /\ Len(reads) + 1 \in Nat
    BY <1>1
  <1>3. frame \in Seq(Sendable)
    BY <1>2, PieceType, Zenon DEF Piece
  <1>4. RequestOf(reads) \in Seq(Sendable) /\ RequestOf(r) \in Seq(Sendable)
    BY <1>1, <1>2, HeadType
  <1>5. RequestOf(r) = RequestOf(reads) \o frame
    <2>1. BodyOf(r) = BodyOf(reads) \o frame /\ BodyOf(reads) \in Seq(Sendable)
      BY <1>1, BodyNext
    <2>2. HeadAsked \in Seq(Sendable)
      BY <1>1, HeadType
    <2> DEFINE b == BodyOf(reads)
    <2> HIDE DEF frame, b, r
    <2>3. b \in Seq(Sendable) /\ BodyOf(r) = b \o frame
      BY <2>1 DEF b
    <2>4. Groups(HeadAsked, b, frame)
      BY <1>3, <2>2, <2>3, Associative
    <2>5. (HeadAsked \o b) \o frame = HeadAsked \o (b \o frame)
      BY <2>4 DEF Groups
    <2>6. QED
      BY <2>3, <2>5 DEF RequestOf, b
  <1>6. reads' = r /\ khc'.req_frame = frame /\ Len(frame) # 0
    OBVIOUS
  <1>7. khc'.sent_length = 0 /\ khc'.resp_header_buff = <<>> /\ sent' = RequestOf(reads)
    BY <1>1
  <1> HIDE DEF frame, r
  <1>8. Starts(sent', RequestOf(r))
    BY <1>3, <1>4, <1>5, <1>7, StartsJoined
  <1>9. SentOf(khc', sent', RequestOf(reads), frame)
    BY <1>3, <1>4, <1>6, <1>7, NothingSent
  <1>10. FrameSent(khc', sent', reads')
    BY <1>3, <1>4, <1>5, <1>6, <1>9 DEF FrameSent
  <1>11. Sent(khc', sent', reads')
    BY <1>2, <1>4, <1>6, <1>7, <1>8 DEF Sent
  <1>12. Place(khc', sent', reads')
    BY <1>7, <1>10 DEF Place, SendStates, BodyStates, HeaderStates
  <1>13. QED
    BY <1>11, <1>12 DEF Steps

\* A request that fails has sent what it has.
LEMMA FailsSteps ==
    ASSUME SendInv, NEW code, khc' = Fails(khc, code), UNCHANGED <<sent, reads, exchange>>
    PROVE  Steps
  <1>1. khc'.state = "CLOSE" /\ khc'.resp_header_buff = khc.resp_header_buff
    BY FieldNames DEF Fails, SendInv, BuffersInv, Buffers
  <1>2. Place(khc', sent', reads')
    BY <1>1 DEF Place, SendStates, BodyStates, HeaderStates
  <1>3. Sent(khc', sent', reads')
    BY <1>1 DEF SendInv, Sent
  <1>4. QED
    BY <1>2, <1>3 DEF Steps

\* As much of a body as its Content-Length says.
LEMMA ReqBodyReadLengthSteps ==
    ASSUME SendInv, At("REQ_BODY_READ"), ReqBodyReadLength, UNCHANGED <<sent, exchange>>
    PROVE  Steps
  <1> DEFINE left == khc.req_body_left
             want == Min({left, exchange.stream_size})
  <1>1. /\ khc.state = "REQ_BODY_READ" /\ DOMAIN khc = Fields /\ exchange \in Exchanges
        /\ reads \in Seq(Nat) /\ BodyLeft(khc, reads)
    BY InState DEF Place, SendStates, BodyStates
  <1>2. /\ HasReqBody /\ left \in Nat /\ request.length # Chunked
        /\ Len(BodyOf(reads)) + left = request.length
    BY <1>1 DEF BodyLeft, ReqBodyReadLength
  <1>3. want \in Nat /\ want <= left
    <2>1. exchange.stream_size \in Nat
      BY <1>1, ExchangeType
    <2>2. QED
      BY <1>2, <2>1, LesserOf
  <1>4. PICK got \in 0 .. want + 1 :
          /\ reads' = IF got \in 1 .. want THEN Append(reads, got) ELSE reads
          /\ khc' = IF got \notin 1 .. want THEN Fails(khc, "READ_CALLBACK")
                    ELSE [khc EXCEPT !.state = "REQ_BODY_SEND",
                                     !.req_body_left = @ - got,
                                     !.read_req_end = khc.req_body_left = got,
                                     !.req_frame = Given(Len(reads) + 1, got)]
    BY Zenon DEF ReqBodyReadLength
  <1> HIDE DEF want
  <1>5. CASE got \notin 1 .. want
    <2>1. khc' = Fails(khc, "READ_CALLBACK") /\ reads' = reads
      BY <1>4, <1>5, Zenon
    <2>2. QED
      BY <2>1, FailsSteps
  <1>6. CASE got \in 1 .. want
    <2> DEFINE frame == Given(Len(reads) + 1, got)
               end == khc.req_body_left = got
               k == [khc EXCEPT !.state = "REQ_BODY_SEND", !.req_body_left = @ - got,
                                !.read_req_end = end, !.req_frame = frame]
               r == Append(reads, got)
    <2>1. khc' = k /\ reads' = r
      BY <1>4, <1>6, Zenon
    <2>2. got \in Nat /\ got # 0 /\ got <= left /\ left - got \in Nat
      BY <1>2, <1>3, <1>6
    <2>3. /\ DOMAIN k = Fields /\ k.state = "REQ_BODY_SEND"
          /\ k.sent_length = khc.sent_length /\ k.resp_header_buff = khc.resp_header_buff
          /\ k.req_frame = frame /\ k.req_body_left = left - got
          /\ k.read_req_end = end
      <3> HIDE DEF frame, end
      <3>1. QED
        BY <1>1, FieldNames
    <2>4. frame = Piece(Len(reads) + 1, got)
      BY <1>2, Zenon DEF Piece
    <2>5. Len(frame) = got
      BY <1>1, <2>2, PieceType
    <2> HIDE DEF k, r, frame
    <2>6. Len(BodyOf(r)) = Len(BodyOf(reads)) + got /\ Len(BodyOf(reads)) \in Nat
      <3>1. BodyOf(r) = BodyOf(reads) \o frame /\ BodyOf(reads) \in Seq(Sendable)
        BY <1>1, <2>2, <2>4, BodyNext DEF r
      <3>2. frame \in Seq(Sendable)
        BY <1>1, <2>2, PieceType DEF frame
      <3> DEFINE b == BodyOf(reads)
      <3>3. b \in Seq(Sendable) /\ BodyOf(r) = b \o frame
        BY <3>1
      <3> HIDE DEF b
      <3>4. Len(b \o frame) = Len(b) + Len(frame) /\ Len(b) \in Nat
        BY <3>2, <3>3
      <3>5. QED
        BY <2>5, <3>3, <3>4 DEF b
    <2>7. BodyLeft(k, r)
      BY <1>2, <2>2, <2>3, <2>6 DEF BodyLeft
    <2>8. k.read_req_end => WholeRead(r)
      BY <1>2, <2>2, <2>3, <2>6 DEF WholeRead
    <2>9. Len(Piece(Len(reads) + 1, got)) # 0
      BY <2>2, <2>4, <2>5
    <2>10. QED
      BY <2>1, <2>2, <2>3, <2>4, <2>7, <2>8, <2>9, FramePlaced DEF r
  <1>7. QED
    BY <1>5, <1>6

\* A chunk, the last of which is empty.
LEMMA ReqBodyReadChunkSteps ==
    ASSUME SendInv, At("REQ_BODY_READ"), ReqBodyReadChunk, UNCHANGED <<sent, exchange>>
    PROVE  Steps
  <1>1. /\ khc.state = "REQ_BODY_READ" /\ DOMAIN khc = Fields /\ exchange \in Exchanges
        /\ reads \in Seq(Nat) /\ BodyLeft(khc, reads)
    BY InState DEF Place, SendStates, BodyStates
  <1>2. request.length = Chunked
    BY DEF ReqBodyReadChunk
  <1>3. CASE khc' = Fails(khc, "TOO_LARGE_DATA") /\ UNCHANGED reads
    BY <1>3, FailsSteps
  <1>4. CASE ~(exchange.stream_size <= LineRoom + 2)
    <2> DEFINE capacity == exchange.stream_size - LineRoom - 2
    <2>1. capacity \in Nat
      <3>1. exchange.stream_size \in Nat
        BY <1>1, ExchangeType
      <3>2. QED
        BY <1>4, <3>1 DEF LineRoom
    <2>2. PICK got \in 0 .. capacity + 1 :
            /\ reads' = IF got <= capacity THEN Append(reads, got) ELSE reads
            /\ khc' = IF got > capacity THEN Fails(khc, "READ_CALLBACK")
                      ELSE [khc EXCEPT !.state = "REQ_BODY_SEND",
                                       !.read_req_end = got = 0,
                                       !.req_frame = Frame(Len(reads) + 1, got)]
      BY <1>4, Zenon DEF ReqBodyReadChunk
    <2> HIDE DEF capacity
    <2>3. CASE got > capacity
      <3>1. ~(got <= capacity)
        BY <2>1, <2>3
      <3>2. khc' = Fails(khc, "READ_CALLBACK") /\ reads' = reads
        BY <2>2, <2>3, <3>1, Zenon
      <3>3. QED
        BY <3>2, FailsSteps
    <2>4. CASE ~(got > capacity)
      <3> DEFINE frame == Frame(Len(reads) + 1, got)
                 end == got = 0
                 k == [khc EXCEPT !.state = "REQ_BODY_SEND", !.read_req_end = end,
                                  !.req_frame = frame]
                 r == Append(reads, got)
      <3>1. got <= capacity /\ got \in Nat
        BY <2>1, <2>4
      <3>2. khc' = k /\ reads' = r
        BY <2>2, <2>4, <3>1, Zenon
      <3>3. /\ DOMAIN k = Fields /\ k.state = "REQ_BODY_SEND"
            /\ k.sent_length = khc.sent_length /\ k.resp_header_buff = khc.resp_header_buff
            /\ k.req_frame = frame /\ k.req_body_left = khc.req_body_left
            /\ k.read_req_end = end
        <4> HIDE DEF frame, end
        <4>1. QED
          BY <1>1, FieldNames
      <3>4. frame = Piece(Len(reads) + 1, got) /\ Len(frame) # 0
        <4>1. frame = Piece(Len(reads) + 1, got)
          BY <1>2, Zenon DEF Piece
        <4>2. Len(frame) # 0
          BY <1>1, <3>1, PieceType
        <4>3. QED
          BY <4>1, <4>2
      <3> HIDE DEF k, frame
      <3>5. BodyLeft(k, r)
        BY <1>1, <1>2, <3>3 DEF BodyLeft
      <3>6. k.read_req_end => WholeRead(r)
        <4>1. Last(r) = got
          BY <1>1, <3>1 DEF Last
        <4> HIDE DEF r
        <4>2. QED
          BY <1>2, <3>3, <4>1 DEF WholeRead
      <3>7. QED
        BY <3>1, <3>2, <3>3, <3>4, <3>5, <3>6, FramePlaced
    <2>5. QED
      BY <2>3, <2>4
  <1>5. QED
    BY <1>3, <1>4 DEF ReqBodyReadChunk

\* REQ_BODY_READ does, with a body of either kind.
LEMMA ReqBodyReadSteps == ASSUME SendInv, ReqBodyRead PROVE Steps
  <1>1. At("REQ_BODY_READ") /\ UNCHANGED <<sent, exchange>>
    BY DEF ReqBodyRead, requestVars
  <1>2. QED
    BY <1>1, ReqBodyReadLengthSteps, ReqBodyReadChunkSteps DEF ReqBodyRead

\* What the callback gave.
LEMMA ReqBodySendSteps == ASSUME SendInv, ReqBodySend PROVE Steps
  <1> DEFINE over == [khc EXCEPT !.state = "RESP_STATUS_READ", !.resp_header_buff = <<>>]
             more == Goto(khc, "REQ_BODY_READ")
             k == IF khc.read_req_end THEN over ELSE more
             part == khc.req_frame
  <1>1. At("REQ_BODY_SEND") /\ Sends(part, k)
    BY DEF ReqBodySend
  <1>2. /\ khc.state = "REQ_BODY_SEND" /\ DOMAIN khc = Fields /\ exchange \in Exchanges
        /\ reads \in Seq(Nat) /\ BodyLeft(khc, reads) /\ FrameSent(khc, sent, reads)
        /\ khc.resp_header_buff = <<>>
    BY <1>1, InState DEF Place, SendStates, BodyStates
  <1>3. PICK before \in Seq(Sendable) :
          RequestOf(reads) = before \o part /\ SentOf(khc, sent, before, part)
    BY <1>2 DEF FrameSent
  <1>4. part \in Seq(Sendable) /\ (khc.read_req_end => WholeRead(reads))
    BY <1>2 DEF FrameSent
  <1>5. Starts(before \o part, RequestOf(reads))
    <2>1. RequestOf(reads) \in Seq(Sendable)
      BY <1>2, HeadType
    <2>2. QED
      BY <1>3, <2>1, StartsItself
  <1>6. /\ DOMAIN over = Fields /\ over.state = "RESP_STATUS_READ"
        /\ over.resp_header_buff = <<>>
        /\ DOMAIN more = Fields /\ more.state = "REQ_BODY_READ"
        /\ more.resp_header_buff = <<>> /\ more.req_body_left = khc.req_body_left
    BY <1>2, FieldNames DEF Goto
  <1> HIDE DEF over, more, part
  <1>7. DOMAIN k = Fields /\ k.resp_header_buff = <<>>
    BY <1>6
  <1>8. ASSUME NEW l, NEW s, Same(l, khc), SentOf(l, s, before, part)
        PROVE  Place(l, s, reads)
    <2>1. /\ l.state = "REQ_BODY_SEND" /\ l.resp_header_buff = <<>>
          /\ l.req_body_left = khc.req_body_left /\ l.read_req_end = khc.read_req_end
          /\ l.req_frame = part
      BY <1>2, <1>8, FieldNames DEF Same, part
    <2>2. FrameSent(l, s, reads)
      BY <1>3, <1>4, <1>8, <2>1 DEF FrameSent
    <2>3. BodyLeft(l, reads)
      BY <1>2, <2>1 DEF BodyLeft
    <2>4. QED
      BY <2>1, <2>2, <2>3 DEF Place, SendStates, BodyStates, HeaderStates
  <1>9. ASSUME NEW l, Same(l, k), l.sent_length = 0
        PROVE  Place(l, before \o part, reads)
    <2>1. CASE khc.read_req_end
      <3>1. l.state = "RESP_STATUS_READ" /\ l.resp_header_buff = <<>>
        BY <1>6, <1>9, <2>1, FieldNames DEF Same
      <3>2. WholeSent(before \o part, reads)
        BY <1>3, <1>4, <2>1 DEF WholeSent
      <3>3. QED
        BY <3>1, <3>2 DEF Place, SendStates, BodyStates, HeaderStates
    <2>2. CASE ~khc.read_req_end
      <3>1. /\ l.state = "REQ_BODY_READ" /\ l.resp_header_buff = <<>>
            /\ l.req_body_left = khc.req_body_left
        BY <1>6, <1>9, <2>2, FieldNames DEF Same
      <3>2. BodyLeft(l, reads)
        BY <1>2, <3>1 DEF BodyLeft
      <3>3. QED
        BY <1>3, <1>9, <3>1, <3>2 DEF Place, SendStates, BodyStates, HeaderStates
    <2>3. QED
      BY <2>1, <2>2
  <1> HIDE DEF k
  <1>10. MorePlaced(before, part) /\ AllPlaced(k, before \o part)
    BY <1>8, <1>9, Zenon DEF MorePlaced, AllPlaced
  <1>11. QED
    BY <1>1, <1>2, <1>3, <1>4, <1>5, <1>7, <1>10, SendsSteps

\* IDLE begins with nothing sent.
LEMMA IdleSteps == ASSUME SendInv, Idle PROVE Steps
  <1>1. /\ khc.state = "IDLE" /\ DOMAIN khc = Fields /\ reads = <<>> /\ sent = <<>>
        /\ khc.resp_header_buff = <<>> /\ Sent(khc, sent, reads)
    BY InState DEF Idle, Place, SendStates, BodyStates
  <1>2. /\ khc'.state = "CONNECT" /\ khc'.resp_header_buff = <<>>
        /\ UNCHANGED <<sent, reads, exchange>>
    BY <1>1, FieldNames DEF Idle, Then, Goto, requestVars, historyVars
  <1>3. QED
    BY <1>1, <1>2 DEF Steps, Sent, Place, SendStates, BodyStates, HeaderStates

\* CONNECT ends with nothing sent, or fails.
LEMMA ConnectSteps == ASSUME SendInv, Connect PROVE Steps
  <1>1. /\ khc.state = "CONNECT" /\ DOMAIN khc = Fields /\ reads = <<>> /\ sent = <<>>
        /\ khc.resp_header_buff = <<>> /\ Sent(khc, sent, reads)
    BY InState DEF Connect, Place, SendStates, BodyStates
  <1>2. UNCHANGED <<sent, reads, exchange>>
    BY DEF Connect, requestVars, historyVars
  <1>3. /\ khc'.resp_header_buff = <<>>
        /\ \/ khc'.state = "REQ_LINE" /\ khc'.sent_length = 0
           \/ khc'.state \in {"CONNECT", "FINISHED"}
    BY <1>1, FieldNames DEF Connect
  <1>4. CASE khc'.state = "REQ_LINE" /\ khc'.sent_length = 0
    <2> DEFINE part == Part("line")
    <2>1. part \in Seq(Sendable) /\ Len(part) = 2
      BY NamedParts
    <2> HIDE DEF part
    <2>2. SentOf(khc', <<>>, <<>>, part)
      <3>1. <<>> \in Seq(Sendable) /\ Len(part) # 0
        BY <2>1
      <3>2. QED
        BY <1>4, <2>1, <3>1, NothingSent
    <2>3. QED
      BY <1>1, <1>2, <1>3, <1>4, <2>2
      DEF Steps, Sent, Place, SendStates, BodyStates, HeaderStates, part
  <1>5. CASE khc'.state \in {"CONNECT", "FINISHED"}
    BY <1>1, <1>2, <1>3, <1>5 DEF Steps, Sent, Place, SendStates, BodyStates, HeaderStates
  <1>6. QED
    BY <1>3, <1>4, <1>5

\* The response comes after the whole of the request.
LEMMA AnsweringSteps == ASSUME SendInv, Answering PROVE Steps
  <1>1. InResponse /\ Responds
    BY AnsweringResponds DEF SendInv
  <1>2. WholeSent(sent, reads) /\ Sent(khc, sent, reads)
    BY <1>1 DEF InResponse, SendInv, Place
  <1>3. khc'.state \notin SendStates \cup {"FINISHED"} /\ UNCHANGED <<sent, reads, exchange>>
    BY <1>1 DEF Responds, Responding
  <1>4. QED
    BY <1>2, <1>3 DEF Steps, Sent, Place, SendStates, BodyStates, HeaderStates

\* A request that is over.
LEMMA EndsSteps ==
    ASSUME SendInv, khc'.state \in {"CLOSE", "FINISHED"},
           khc'.resp_header_buff = khc.resp_header_buff, UNCHANGED <<sent, reads, exchange>>
    PROVE  Steps
  BY DEF SendInv, Steps, Sent, Place, SendStates, BodyStates, HeaderStates

\* Closing ends in one of those states.
LEMMA ClosesEnds ==
    ASSUME NEW k, DOMAIN k = Fields, k.state = "CLOSE", Closes(k)
    PROVE  /\ khc'.state \in {"CLOSE", "FINISHED"} /\ khc'.resp_header_buff = k.resp_header_buff
           /\ UNCHANGED <<sent, reads, exchange>>
  BY FieldNames DEF Closes, Goto, CloseFailed, requestVars, historyVars

\* A timeout and a cancel end the request where it is.
LEMMA StopForSteps == ASSUME SendInv, NEW reason, StopFor(reason) PROVE Steps
  <1>1. DOMAIN khc = Fields
    BY DEF SendInv, BuffersInv, Buffers
  <1>2. CASE khc.state \in {"IDLE", "CONNECT"}
    <2>1. Then([khc EXCEPT !.state = "FINISHED", !.result = reason])
      BY <1>2 DEF StopFor
    <2>2. khc'.state = "FINISHED" /\ khc'.resp_header_buff = khc.resp_header_buff
          /\ UNCHANGED <<sent, reads, exchange>>
      BY <1>1, <2>1, FieldNames DEF Then, requestVars, historyVars
    <2>3. QED
      BY <2>2, EndsSteps
  <1>3. CASE khc.state = "CLOSE"
    <2>1. Then(CloseFailed(khc))
      BY <1>3 DEF StopFor
    <2>2. khc'.state = "FINISHED" /\ khc'.resp_header_buff = khc.resp_header_buff
          /\ UNCHANGED <<sent, reads, exchange>>
      BY <1>1, <2>1, FieldNames DEF Then, CloseFailed, requestVars, historyVars
    <2>3. QED
      BY <2>2, EndsSteps
  <1>4. CASE khc.state \notin {"IDLE", "CONNECT", "CLOSE"}
    <2> DEFINE k == Fails(khc, reason)
    <2>1. Closes(k)
      BY <1>4 DEF StopFor
    <2>2. DOMAIN k = Fields /\ k.state = "CLOSE" /\ k.resp_header_buff = khc.resp_header_buff
      BY <1>1, FieldNames DEF Fails
    <2> HIDE DEF k
    <2>3. /\ khc'.state \in {"CLOSE", "FINISHED"} /\ khc'.resp_header_buff = khc.resp_header_buff
          /\ UNCHANGED <<sent, reads, exchange>>
      BY <2>1, <2>2, ClosesEnds
    <2>4. QED
      BY <2>3, EndsSteps
  <1>5. QED
    BY <1>2, <1>3, <1>4

\* Nothing is sent before it starts.
LEMMA ResetPlace ==
    ASSUME exchange \in Exchanges
    PROVE  Sent(Reset, <<>>, <<>>) /\ Place(Reset, <<>>, <<>>)
  <1>1. Reset.state = "IDLE" /\ Reset.resp_header_buff = <<>>
    BY DEF Reset
  <1>2. RequestOf(<<>>) \in Seq(Sendable) /\ <<>> \in Seq(Sendable) /\ <<>> \in Seq(Nat)
    BY HeadType
  <1>3. Starts(<<>>, RequestOf(<<>>))
    BY <1>2, StartsNothing
  <1>4. QED
    BY <1>1, <1>2, <1>3 DEF Sent, Place, SendStates, BodyStates, HeaderStates

\* The request stays what it is meanwhile.
LEMMA RequestKept ==
    ASSUME exchange' = exchange
    PROVE  /\ request' = request /\ Sendable' = Sendable /\ HasReqBody' = HasReqBody
           /\ RequestOf(reads)' = RequestOf(reads') /\ BodyOf(reads)' = BodyOf(reads')
           /\ (WholeSent(sent, reads)' <=> WholeSent(sent', reads'))
  <1>1. request' = request
    BY DEF request
  <1>2. Sendable' = Sendable
    BY <1>1 DEF Sendable, Words
  <1>3. RequestOf(reads)' = RequestOf(reads')
    BY <1>1, Zenon DEF RequestOf, HeadAsked, Asked, Headers, HeaderOf, Framing, CanHaveBody, BodyOf
  <1>4. BodyOf(reads)' = BodyOf(reads')
    BY <1>1, Zenon DEF BodyOf
  <1>5. HasReqBody' = HasReqBody
    BY <1>1, Zenon DEF HasReqBody, CanHaveBody
  <1>6. WholeSent(sent, reads)' <=> WholeSent(sent', reads')
    BY <1>1, <1>3, <1>4, <1>5, Zenon DEF WholeSent, WholeRead
  <1>7. QED
    BY <1>1, <1>2, <1>3, <1>4, <1>5, <1>6

\* So is what was sent of it.
LEMMA SentKept ==
    ASSUME exchange' = exchange, Sent(khc', sent', reads')
    PROVE  Sent(khc, sent, reads)'
  BY RequestKept, Zenon DEF Sent

\* A step that sends as it should keeps SendInv.
LEMMA StepsKeep ==
    ASSUME Steps
    PROVE  Sent(khc, sent, reads)' /\ Place(khc, sent, reads)'
  <1>1. exchange' = exchange
    BY DEF Steps
  <1>2. /\ request' = request /\ Sendable' = Sendable /\ HasReqBody' = HasReqBody
        /\ RequestOf(reads)' = RequestOf(reads') /\ BodyOf(reads)' = BodyOf(reads')
        /\ (WholeSent(sent, reads)' <=> WholeSent(sent', reads'))
    BY <1>1, RequestKept
  <1>3. HeaderSent(khc, sent)' <=> HeaderSent(khc', sent')
    BY <1>2, Zenon DEF HeaderSent, HeaderCount, HeadersTo, HeaderList, HeaderOf, Asked, SentOf
  <1>4. BodyLeft(khc, reads)' <=> BodyLeft(khc', reads')
    BY <1>2, Zenon DEF BodyLeft
  <1>5. FrameSent(khc, sent, reads)' <=> FrameSent(khc', sent', reads')
    BY <1>2, Zenon DEF FrameSent, WholeRead, SentOf
  <1>6. /\ (Asked \o Headers)' = Asked \o Headers
        /\ (Framing \o Part("end"))' = Framing \o Part("end")
    BY <1>2, Zenon DEF Asked, Headers, HeaderOf, Framing, CanHaveBody
  <1>7. Place(khc, sent, reads)'
    <2>1. Place(khc', sent', reads')
      BY DEF Steps
    <2>2. QED
      BY <1>2, <1>3, <1>4, <1>5, <1>6, <2>1, Zenon DEF Place, SentOf
  <1>8. QED
    BY <1>1, <1>7, SentKept DEF Steps

\* Every step of the request and its response, and khc_perform()'s.
LEMMA SendInvStep ==
    ASSUME SendInv, BuffersInv', [KhcNext]_khcVars
    PROVE  SendInv'
  <1>1. ASSUME Steps PROVE SendInv'
    BY <1>1, StepsKeep DEF SendInv
  <1>2. CASE Idle \/ Connect \/ Answering
    BY <1>1, <1>2, IdleSteps, ConnectSteps, AnsweringSteps
  <1>3. CASE Asking
    BY <1>1, <1>3, ReqLineSteps, ReqHostHeaderSteps, ReqHeaderSteps, ReqHeaderSendSteps,
       ReqHeaderSendCrlfSteps, ReqHeaderEndSteps, ReqBodyReadSteps, ReqBodySendSteps
    DEF Asking
  <1>4. CASE Close
    <2>1. khc.state = "CLOSE" /\ DOMAIN khc = Fields /\ Closes(khc)
      BY <1>4, InState DEF Close
    <2>2. Steps
      BY <2>1, ClosesEnds, EndsSteps
    <2>3. QED
      BY <1>1, <2>2
  <1>5. CASE Stop
    BY <1>1, <1>5, StopForSteps DEF Stop
  <1>6. CASE Perform
    <2> DEFINE k == [khc EXCEPT !.state = "IDLE", !.result = "OK", !.close_failed = FALSE,
                                !.header_skipped = FALSE]
    <2>1. /\ phase = "perform" /\ khc' = k /\ UNCHANGED <<exchange, sent, reads>>
      BY <1>6 DEF Perform, historyVars
    <2>2. khc.state = "IDLE" /\ DOMAIN khc = Fields
      BY <2>1 DEF SendInv, BuffersInv, Buffers, Connection
    <2>3. k.state = "IDLE" /\ k.resp_header_buff = khc.resp_header_buff
      BY <2>2, FieldNames
    <2> HIDE DEF k
    <2>4. Sent(khc, sent, reads) /\ Place(khc, sent, reads)
      BY <2>1 DEF SendInv
    <2>5. Steps
      BY <2>1, <2>2, <2>3, <2>4 DEF Steps, Sent, Place, SendStates, BodyStates, HeaderStates
    <2>6. QED
      BY <1>1, <2>5
  <1>7. CASE TimeRunsOut
    <2>1. phase = "loop" /\ UNCHANGED <<exchange, khc, sent, reads>>
      BY <1>7 DEF TimeRunsOut, historyVars
    <2>2. Steps
      BY <2>1 DEF Steps, SendInv
    <2>3. QED
      BY <1>1, <2>2
  <1>8. CASE Return
    <2> DEFINE k == [khc EXCEPT !.state = "IDLE", !.result = "OK"]
    <2>1. /\ phase' = "returned" /\ khc' = k /\ UNCHANGED <<exchange, sent, reads>>
      BY <1>8 DEF Return, historyVars
    <2>2. k.resp_header_buff = khc.resp_header_buff
      BY FieldNames DEF SendInv, BuffersInv, Buffers
    <2> HIDE DEF k
    <2>3. Sent(khc', sent', reads') /\ exchange' = exchange
      BY <2>1, <2>2 DEF SendInv, Sent
    <2>4. Sent(khc, sent, reads)'
      BY <2>3, SentKept
    <2>5. QED
      BY <2>1, <2>4 DEF SendInv
  <1>9. CASE ResetExceptRequest
    <2>1. khc' = Reset /\ sent' = <<>> /\ reads' = <<>> /\ exchange' = exchange
      BY <1>9 DEF ResetExceptRequest
    <2>2. Steps
      BY <2>1, ResetPlace DEF Steps, SendInv, BuffersInv
    <2>3. QED
      BY <1>1, <2>2
  <1>10. CASE UNCHANGED khcVars
    <2>1. UNCHANGED <<exchange, khc, sent, reads, phase>>
      BY <1>10 DEF khcVars
    <2>2. CASE phase # "returned"
      <3>1. Steps
        BY <2>1, <2>2 DEF Steps, SendInv
      <3>2. QED
        BY <1>1, <3>1
    <2>3. CASE phase = "returned"
      <3>1. Sent(khc', sent', reads') /\ exchange' = exchange
        BY <2>1 DEF SendInv
      <3>2. QED
        BY <2>1, <2>3, <3>1, SentKept DEF SendInv
    <2>4. QED
      BY <2>2, <2>3
  <1>11. QED
    BY <1>2, <1>3, <1>4, <1>5, <1>6, <1>7, <1>8, <1>9, <1>10 DEF KhcNext, Handles, Asking, Answering

\* The request goes out once and in order, whatever the socket takes of it at a time, and
\* nothing of a response is taken before all of it, for any headers, any body and any
\* sizes of what the callback gives.
THEOREM RequestInOrderCorrect == KhcSpec => []RequestInOrder
  <1>1. KhcInit => SendInv
    <2> SUFFICES ASSUME KhcInit PROVE SendInv
      OBVIOUS
    <2>1. BuffersInv
      BY BuffersInit
    <2>2. khc = Reset /\ sent = <<>> /\ reads = <<>>
      BY DEF KhcInit
    <2>3. QED
      BY <2>1, <2>2, ResetPlace DEF SendInv, BuffersInv
  <1>2. SendInv => RequestInOrder
    <2> SUFFICES ASSUME SendInv PROVE RequestInOrder
      OBVIOUS
    <2>1. /\ sent \in Seq(Sendable) /\ reads \in Seq(Nat) /\ exchange \in Exchanges
          /\ Starts(sent, RequestOf(reads))
          /\ khc.resp_header_buff # <<>> => WholeSent(sent, reads)
      BY DEF SendInv, Sent, BuffersInv
    <2>2. Request = RequestOf(reads)
      BY DEF Request, RequestOf, HeadAsked, Asked
    <2>3. RequestOf(reads) \in Seq(Sendable)
      BY <2>1, HeadType
    <2>4. IsPrefix(sent, Request)
      BY <2>1, <2>2, <2>3, StartsIsPrefix
    <2>5. QED
      BY <2>1, <2>2, <2>4 DEF RequestInOrder, WholeSent, WholeRead
  <1>3. QED
    BY <1>1, <1>2, SendInvStep, BuffersInvariance, PTL DEF KhcSpec

-----------------------------------------------------------------------------
(* The body of a response that can be read.                                *)

\* What the response is made of, and khc keeps of it.
Characters == Symbols \cup {"LF"}

\* Nothing in a line is taken for its end.
OneLine(line) == \A i \in 1 .. Len(line) : line[i] # "CR"

\* A CRLF is two of them.
LEMMA CrlfType == CRLF \in Seq(Characters) /\ Len(CRLF) = 2 /\ CRLF[1] = "CR" /\ CRLF[2] = "LF"
  <1>1. "CR" \in Characters /\ "LF" \in Characters
    BY DEF Characters, Symbols
  <1> HIDE DEF Characters
  <1>2. QED
    BY <1>1 DEF CRLF

\* A field's text is a line.
LEMMA FieldIsOneLine ==
    ASSUME NEW S, NEW line \in Seq(S), is_field_text(line)
    PROVE  OneLine(line)
  <1>1. \A i \in 1 .. Len(line) : line[i] \in Range(line)
    BY DEF Range
  <1>2. "CR" \in Controls
    BY DEF Controls
  <1>3. QED
    BY <1>1, <1>2 DEF OneLine, is_field_text

\* Text with a CR in it isn't a field's.
LEMMA CrInText ==
    ASSUME NEW S, NEW text \in Seq(S), NEW i \in 1 .. Len(text), text[i] = "CR"
    PROVE  ~is_field_text(text)
  BY FieldIsOneLine DEF OneLine

\* The first CRLF of data that starts with a line and its end, and the two around it.
LEMMA FirstCrlf ==
    ASSUME NEW S, NEW data \in Seq(S), NEW w \in Seq(S), NEW line \in Seq(S), NEW more \in Seq(S),
           "CR" \in S, "LF" \in S, OneLine(line), data \o w = line \o (CRLF \o more)
    PROVE  /\ find_crlf(data) \in {0, Len(line) + 1}
           /\ find_crlf(data) = 0 <=> Len(data) <= Len(line) + 1
  <1> DEFINE n == Len(line)
             z == data \o w
             tail == CRLF \o more
             ends == {i \in 1 .. Len(data) - 1 : SubSeq(data, i, i + 1) = CRLF}
             f == find_crlf(data)
  <1>1. n \in Nat /\ Len(data) \in Nat /\ Len(z) = Len(data) + Len(w) /\ Len(w) \in Nat
    OBVIOUS
  <1>2. tail \in Seq(S) /\ tail[1] = "CR" /\ tail[2] = "LF" /\ Len(tail) = 2 + Len(more)
        /\ Len(more) \in Nat
    BY DEF CRLF
  <1>3. \A i \in 1 .. Len(data) : z[i] = data[i]
    BY <1>1
  <1>4. /\ \A i \in 1 .. n : z[i] = line[i] /\ z[i] # "CR"
        /\ z[n + 1] = "CR" /\ z[n + 2] = "LF" /\ Len(z) >= n + 2
    <2>1. z = line \o tail
      OBVIOUS
    <2> HIDE DEF z, tail
    <2>2. QED
      BY <1>1, <1>2, <2>1 DEF OneLine
  <1>5. ASSUME NEW i \in 1 .. Len(data) - 1
        PROVE  SubSeq(data, i, i + 1) = CRLF <=> data[i] = "CR" /\ data[i + 1] = "LF"
    <2> DEFINE p == SubSeq(data, i, i + 1)
    <2>1. p = <<data[i], data[i + 1]>>
      <3>1. i \in Nat /\ i >= 1 /\ i + 1 <= Len(data)
        BY <1>1
      <3>2. Len(p) = 2 /\ p[1] = data[i] /\ p[2] = data[i + 1] /\ p \in Seq(S)
        BY <3>1
      <3> HIDE DEF p
      <3>3. QED
        BY <3>2
    <2> HIDE DEF p
    <2>2. p = CRLF <=> data[i] = "CR" /\ data[i + 1] = "LF"
      BY <2>1 DEF CRLF
    <2>3. QED
      BY <2>2 DEF p
  <1>6. f = IF ends = {} THEN 0 ELSE Min(ends)
    BY DEF find_crlf
  <1>7. ends \in SUBSET Nat
    BY <1>1
  <1>8. ASSUME NEW i \in ends PROVE i = n + 1 \/ i > n + 1
    <2>1. i \in 1 .. Len(data) - 1 /\ data[i] = "CR"
      BY <1>5
    <2>2. z[i] = "CR"
      BY <1>1, <1>3, <2>1
    <2> HIDE DEF z, ends
    <2>3. QED
      BY <1>1, <1>4, <2>1, <2>2
  <1>9. n + 1 \in ends <=> Len(data) >= n + 2
    <2>1. ASSUME Len(data) >= n + 2 PROVE n + 1 \in ends
      <3>1. n + 1 \in 1 .. Len(data) - 1 /\ n + 1 \in 1 .. Len(data) /\ n + 2 \in 1 .. Len(data)
            /\ (n + 1) + 1 = n + 2
        BY <1>1, <2>1
      <3>2. data[n + 1] = "CR" /\ data[(n + 1) + 1] = "LF"
        BY <1>3, <1>4, <3>1
      <3>3. QED
        BY <1>5, <3>1, <3>2
    <2>2. ASSUME n + 1 \in ends PROVE Len(data) >= n + 2
      BY <1>1, <2>2
    <2>3. QED
      BY <2>1, <2>2
  <1>10. ASSUME NEW i \in ends PROVE Len(data) >= n + 2
    <2>1. i \in 1 .. Len(data) - 1
      OBVIOUS
    <2>2. i = n + 1 \/ i > n + 1
      BY <1>8
    <2> HIDE DEF ends
    <2>3. QED
      BY <1>1, <2>1, <2>2
  <1> HIDE DEF ends, z, tail, f
  <1>11. CASE ends = {}
    <2>1. f = 0
      BY <1>6, <1>11
    <2>2. ~(Len(data) >= n + 2)
      BY <1>9, <1>11
    <2>3. QED
      BY <1>1, <2>1, <2>2 DEF f
  <1>12. CASE ends # {}
    <2>1. f \in ends
      BY <1>6, <1>7, <1>12, MinIsIn
    <2>2. Len(data) >= n + 2
      BY <1>10, <2>1
    <2>3. n + 1 \in ends
      BY <1>9, <2>2
    <2>4. f <= n + 1
      BY <1>6, <1>7, <1>12, <2>3, MinIsLeast
    <2>5. f = n + 1
      BY <1>1, <1>7, <1>8, <2>1, <2>4
    <2>6. QED
      BY <1>1, <2>2, <2>5 DEF f
  <1>13. QED
    BY <1>11, <1>12

\* What a CRLF ends is the line, and what is after it the rest.
LEMMA CutLine ==
    ASSUME NEW S, NEW data \in Seq(S), NEW w \in Seq(S), NEW line \in Seq(S), NEW more \in Seq(S),
           "CR" \in S, "LF" \in S, OneLine(line), data \o w = line \o (CRLF \o more),
           find_crlf(data) # 0
    PROVE  /\ Line(data) = line
           /\ AfterLine(data) \in Seq(S) /\ AfterLine(data) \o w = more
  <1> DEFINE n == Len(line)
             ended == line \o CRLF
             a == SubSeq(data, 1, n)
             b == Rest(data, n + 2)
  <1>1. n \in Nat /\ Len(data) \in Nat /\ CRLF \in Seq(S) /\ Len(CRLF) = 2
    BY DEF CRLF
  <1>2. find_crlf(data) = n + 1 /\ Len(data) > n + 1
    <2>1. /\ find_crlf(data) \in {0, Len(line) + 1}
          /\ find_crlf(data) = 0 <=> Len(data) <= Len(line) + 1
      BY FirstCrlf, Zenon
    <2>2. n \in Nat /\ Len(data) \in Nat
      BY <1>1
    <2>3. QED
      BY <2>1, <2>2
  <1>3. ended \in Seq(S) /\ Len(ended) = n + 2 /\ \A i \in 1 .. n : ended[i] = line[i]
    <2>1. /\ ended \in Seq(S) /\ Len(ended) = Len(line) + Len(CRLF)
          /\ \A i \in 1 .. Len(line) : ended[i] = line[i]
      BY <1>1, JoinedType, Zenon
    <2>2. QED
      BY <1>1, <2>1, Zenon
  <1>4. Groups(line, CRLF, more)
    BY <1>1, Associative
  <1>5. ended \o more = data \o w
    BY <1>4, Zenon DEF Groups
  <1> HIDE DEF ended
  <1>6. Len(ended) <= Len(data)
    BY <1>1, <1>2, <1>3
  <1>7. data = ended \o Rest(data, Len(ended)) /\ more = Rest(data, Len(ended)) \o w
    <2>1. CutsTwice(ended, more, data, w)
      BY <1>3, CutTwice
    <2>2. QED
      BY <1>5, <1>6, <2>1, Zenon DEF CutsTwice
  <1>8. more = b \o w
    BY <1>3, <1>7, Zenon
  <1>9. b \in Seq(S)
    BY <1>1, <1>2, RestType
  <1>10. AfterLine(data) = b
    <2>1. find_crlf(data) + 2 = (n + 2) + 1
      BY <1>1, <1>2
    <2>2. QED
      BY <2>1, Zenon DEF AfterLine, Rest
  <1>11. Line(data) = a
    <2>1. find_crlf(data) - 1 = n
      BY <1>1, <1>2
    <2>2. QED
      BY <2>1, Zenon DEF Line
  <1>12. a = line
    <2>1. a \in Seq(S) /\ Len(a) = n /\ \A i \in 1 .. n : a[i] = data[i]
      BY <1>1, <1>2
    <2>2. \A i \in 1 .. n : data[i] = line[i]
      <3> DEFINE c == Rest(data, Len(ended))
      <3>1. c \in Seq(S) /\ data = ended \o c
        BY <1>3, <1>6, <1>7, RestType
      <3> HIDE DEF c
      <3>2. QED
        BY <1>1, <1>3, <3>1
    <2> HIDE DEF a
    <2>3. SameTo(a, line, n)
      BY <2>1, <2>2 DEF SameTo
    <2>4. QED
      BY <2>1, <2>3, SameElements
  <1>13. QED
    BY <1>8, <1>9, <1>10, <1>11, <1>12, Zenon

\* A part of the line, or all of it and half of its end.
InLine(data, w, line, more) ==
    \/ /\ Len(data) <= Len(line)
       /\ line = data \o Rest(line, Len(data))
       /\ w = Rest(line, Len(data)) \o (CRLF \o more)
    \/ data = line \o <<"CR">> /\ w = <<"LF">> \o more

\* Data without a CRLF is that.
LEMMA CutInLine ==
    ASSUME NEW S, NEW data \in Seq(S), NEW w \in Seq(S), NEW line \in Seq(S), NEW more \in Seq(S),
           "CR" \in S, "LF" \in S, OneLine(line), data \o w = line \o (CRLF \o more),
           find_crlf(data) = 0
    PROVE  InLine(data, w, line, more)
  <1> DEFINE n == Len(line)
             tail == CRLF \o more
  <1>1. n \in Nat /\ Len(data) \in Nat /\ CRLF \in Seq(S) /\ Len(CRLF) = 2
    BY DEF CRLF
  <1>2. Len(data) <= n + 1
    BY FirstCrlf, Zenon
  <1>3. tail \in Seq(S)
    BY <1>1
  <1>4. data \o w = line \o tail
    OBVIOUS
  <1> HIDE DEF tail
  <1>5. CASE Len(data) <= n
    <2>1. line = data \o Rest(line, Len(data)) /\ w = Rest(line, Len(data)) \o tail
      <3>1. CutsTwice(data, w, line, tail)
        BY <1>3, CutTwice
      <3>2. QED
        BY <1>4, <1>5, <3>1, Zenon DEF CutsTwice
    <2>2. QED
      BY <1>5, <2>1, Zenon DEF tail, InLine
  <1>6. CASE Len(data) = n + 1
    <2> DEFINE c == line \o <<"CR">>
               d == <<"LF">> \o more
    <2>1. c \in Seq(S) /\ d \in Seq(S) /\ Len(c) = n + 1
      BY <1>1
    <2>2. c \o d = data \o w
      <3> DEFINE cr == <<"CR">>
                 lf == <<"LF">>
      <3>1. cr \in Seq(S) /\ lf \in Seq(S)
        OBVIOUS
      <3>2. cr \o lf = CRLF
        BY Pair, Zenon DEF CRLF
      <3>3. c = line \o cr /\ d = lf \o more
        OBVIOUS
      <3> HIDE DEF cr, lf, c, d
      <3>4. Groups(cr, lf, more) /\ Groups(line, cr, d)
        BY <2>1, <3>1, Associative
      <3>5. cr \o d = tail
        BY <3>2, <3>3, <3>4, Zenon DEF Groups, tail
      <3>6. QED
        BY <1>4, <3>3, <3>4, <3>5, Zenon DEF Groups
    <2> HIDE DEF c, d
    <2>3. Len(data) <= Len(c)
      BY <1>1, <1>6, <2>1
    <2>4. c = data \o Rest(c, Len(data)) /\ w = Rest(c, Len(data)) \o d
      <3>1. CutsTwice(data, w, c, d)
        BY <2>1, CutTwice
      <3>2. QED
        BY <2>2, <2>3, <3>1, Zenon DEF CutsTwice
    <2>5. Rest(c, Len(data)) = <<>>
      BY <1>1, <1>6, <2>1 DEF Rest
    <2>6. data \o <<>> = data /\ <<>> \o d = d
      BY <2>1
    <2>7. c = data /\ w = d
      BY <2>4, <2>5, <2>6, Zenon
    <2>8. QED
      BY <2>7, Zenon DEF c, d, InLine
  <1>7. Len(data) <= n \/ Len(data) = n + 1
    BY <1>1, <1>2
  <1>8. QED
    BY <1>5, <1>6, <1>7, Zenon

\* The lines of the response's heads, the empty one that ends the last included.
LineCount == Len(response.lines) + 1
LineAt(i) == IF i = LineCount THEN <<>> ELSE response.lines[i]
LinePieces == [i \in 1 .. LineCount |-> LineAt(i) \o CRLF]
FromLine(i) == From(response.wire, LinePieces, i - 1)

\* What there is to know of a response that can be read.
Readable == exchange \in Exchanges /\ response.verdict = "OK"

\* It can be.
LEMMA ReadableResponse == ASSUME Readable PROVE CanBeRead(request.method, response)
  BY ResponsesAssumption, Zenon DEF Readable, request, response

\* Sequences of what the response is of are sequences of its characters.
LEMMA WiderType ==
    ASSUME NEW s \in Seq(Range(response.wire))
    PROVE  s \in Seq(Characters)
  <1> DEFINE R == Range(response.wire)
  <1>1. s \in Seq(R) /\ R \subseteq Characters
    BY DEF Characters, Symbols
  <1> HIDE DEF R, Characters
  <1>2. QED
    BY <1>1

\* Its lines, and what comes after them.
LEMMA LineTypes ==
    ASSUME Readable
    PROVE  /\ LineCount \in Nat /\ LineCount >= 1 /\ LineCount - 1 = Len(response.lines)
           /\ response.wire \in Seq(Characters) /\ response.rest \in Seq(Characters)
           /\ \A i \in 1 .. LineCount : LineAt(i) \in Seq(Characters) /\ OneLine(LineAt(i))
           /\ \A i \in 1 .. LineCount - 1 :
                LineAt(i) = response.lines[i] /\ is_field_text(response.lines[i])
           /\ LineAt(LineCount) = <<>>
  <1> DEFINE R == Range(response.wire)
             l == response.lines
  <1>1. HasHead(response)
    BY ReadableResponse DEF CanBeRead
  <1>2. l \in Seq(Seq(R)) /\ response.rest \in Seq(R)
    BY <1>1 DEF HasHead
  <1>3. response.rest \in Seq(Characters)
    BY <1>2, WiderType
  <1>4. \A i \in 1 .. Len(l) : l[i] \in Seq(Characters)
    <2>1. \A i \in 1 .. Len(l) : l[i] \in Seq(R)
      BY <1>2
    <2>2. QED
      BY <2>1, WiderType
  <1>5. response.wire \in Seq(Characters)
    BY ExchangeType, WiderType, KhcAssumption DEF Readable, response
  <1>6. \A i \in 1 .. Len(l) : is_field_text(l[i])
    BY <1>1 DEF HasHead
  <1>7. \A i \in 1 .. Len(l) : OneLine(l[i])
    BY <1>4, <1>6, FieldIsOneLine
  <1>8. Len(l) \in Nat
    BY <1>2
  <1> HIDE DEF l
  <1>9. LineCount = Len(l) + 1 /\ LineCount \in Nat /\ LineCount >= 1 /\ LineCount - 1 = Len(l)
    BY <1>8 DEF LineCount, l
  <1>10. LineAt(LineCount) = <<>>
    BY DEF LineAt
  <1>11. \A i \in 1 .. LineCount - 1 : LineAt(i) = l[i]
    BY <1>9 DEF LineAt, l
  <1>12. <<>> \in Seq(Characters) /\ OneLine(<<>>)
    BY DEF OneLine
  <1>13. ASSUME NEW i \in 1 .. LineCount PROVE LineAt(i) \in Seq(Characters) /\ OneLine(LineAt(i))
    <2>1. CASE i = LineCount
      BY <1>10, <1>12, <2>1
    <2>2. CASE i # LineCount
      <3>1. i \in 1 .. LineCount - 1 /\ i \in 1 .. Len(l)
        BY <1>9, <2>2
      <3>2. QED
        BY <1>4, <1>7, <1>11, <3>1
    <2>3. QED
      BY <2>1, <2>2
  <1>14. QED
    BY <1>3, <1>5, <1>6, <1>9, <1>10, <1>11, <1>13 DEF l

\* The text from a line on is the line, its end and the text from the next.
LEMMA FromLineOn ==
    ASSUME Readable, NEW i \in 1 .. LineCount
    PROVE  /\ FromLine(i) \in Seq(Characters) /\ FromLine(i + 1) \in Seq(Characters)
           /\ FromLine(i) = LineAt(i) \o (CRLF \o FromLine(i + 1))
           /\ i = 1 => FromLine(i) = response.wire
           /\ i = LineCount => FromLine(i + 1) = response.rest
  <1> DEFINE n == LineCount
             g == LinePieces
             w == response.wire
             t == response.rest
  <1>1. /\ n \in Nat /\ n >= 1 /\ n - 1 = Len(response.lines)
        /\ w \in Seq(Characters) /\ t \in Seq(Characters)
    BY LineTypes
  <1>2. \A j \in 1 .. n : LineAt(j) \in Seq(Characters)
    BY LineTypes
  <1>3. \A j \in 1 .. n : g[j] = LineAt(j) \o CRLF
    BY DEF LinePieces
  <1>4. \A j \in 1 .. n : g[j] \in Seq(Characters)
    <2>1. \A x \in Seq(Characters) : x \o CRLF \in Seq(Characters)
      BY CrlfType
    <2>2. QED
      BY <1>2, <1>3, <2>1, Zenon
  <1>5. w = Flat(g, n) \o t
    <2> DEFINE m == n - 1
               f == Flat(g, m)
    <2>1. m \in Nat /\ m + 1 = n /\ \A j \in 1 .. m : j \in 1 .. n
      BY <1>1
    <2>2. Flat(g, m + 1) = f \o g[m + 1]
      <3>1. \A j \in 1 .. (m + 1) : g[j] \in Seq(Characters)
        BY <1>4, <2>1
      <3> HIDE DEF m, g
      <3>2. QED
        BY <2>1, <3>1, FlatNext
    <2>3. f \in Seq(Characters)
      <3>1. \A j \in 1 .. m : g[j] \in Seq(Characters)
        BY <1>4, <2>1
      <3> HIDE DEF m, g
      <3>2. QED
        BY <2>1, <3>1, FlatType
    <2>4. g[n] = CRLF
      <3>1. LineAt(n) = <<>> /\ n \in 1 .. n
        BY <1>1, LineTypes
      <3>2. <<>> \o CRLF = CRLF
        BY CrlfType
      <3>3. QED
        BY <1>3, <3>1, <3>2, Zenon
    <2>5. f = Text(response.lines)
      <3> DEFINE a == [j \in 1 .. m |-> g[j]]
                 b == [j \in 1 .. Len(response.lines) |-> Ends(response.lines[j])]
      <3>1. \A j \in 1 .. m : g[j] = Ends(response.lines[j])
        <4>1. \A j \in 1 .. m : LineAt(j) = response.lines[j]
          BY LineTypes
        <4>2. QED
          BY <1>3, <2>1, <4>1, Zenon DEF Ends
      <3>2. m = Len(response.lines)
        BY <1>1
      <3> HIDE DEF m, g
      <3>3. a = b
        BY <3>1, <3>2, Zenon
      <3>4. QED
        BY <3>3, Zenon DEF Text, Flat, First
    <2>6. w = Text(response.lines) \o (CRLF \o t)
      BY ReadableResponse, Zenon DEF CanBeRead, HasHead
    <2>7. Groups(f, CRLF, t)
      BY <1>1, <2>3, CrlfType, Associative
    <2>8. Flat(g, n) = f \o CRLF
      BY <2>1, <2>2, <2>4, Zenon
    <2>9. QED
      BY <2>5, <2>6, <2>7, <2>8, Zenon DEF Groups
  <1> DEFINE k == i - 1
  <1>6. k \in Nat /\ k < n /\ k <= n /\ k + 1 = i /\ i \in Nat /\ i <= n /\ (i + 1) - 1 = i
        /\ (i = 1 => k = 0)
    BY <1>1
  <1>7. FromLine(i) = From(w, g, k) /\ FromLine(i + 1) = From(w, g, k + 1)
    BY <1>6, Zenon DEF FromLine
  <1> HIDE DEF k, g, w, t, n
  <1>8. /\ From(w, g, k) \in Seq(Characters)
        /\ k = 0 => From(w, g, k) = w
        /\ k < n => From(w, g, k) = g[k + 1] \o From(w, g, k + 1)
    <2>1. \A m \in Nat : m <= n => LeftAfter(Characters, w, g, n, t, m)
      BY <1>1, <1>4, <1>5, PiecesLeft
    <2>2. QED
      BY <1>6, <2>1, Zenon DEF LeftAfter
  <1>9. /\ From(w, g, i) \in Seq(Characters)
        /\ i = n => From(w, g, i) = t
    <2>1. \A m \in Nat : m <= n => LeftAfter(Characters, w, g, n, t, m)
      BY <1>1, <1>4, <1>5, PiecesLeft
    <2>2. QED
      BY <1>6, <2>1, Zenon DEF LeftAfter
  <1>10. Groups(LineAt(i), CRLF, From(w, g, i))
    <2>1. LineAt(i) \in Seq(Characters)
      BY <1>2 DEF n
    <2>2. QED
      BY <1>9, <2>1, CrlfType, Associative
  <1>11. From(w, g, k) = LineAt(i) \o (CRLF \o From(w, g, i))
    <2>1. g[i] = LineAt(i) \o CRLF
      BY <1>3 DEF n
    <2>2. QED
      BY <1>6, <1>8, <1>10, <2>1, Zenon DEF Groups
  <1>12. QED
    BY <1>6, <1>7, <1>8, <1>9, <1>11, Zenon DEF w, t, n

\* Its chunks.
ChunkCount == Len(response.chunks)
ChunkAt(i) == response.chunks[i]
ChunkPieces == [i \in 1 .. ChunkCount |-> Ends(ChunkAt(i).size) \o Ends(ChunkAt(i).data)]
FromChunk(i) == From(response.rest, ChunkPieces, i - 1)
ChunkBodies == [i \in 1 .. ChunkCount |-> ChunkAt(i).data]

\* The parts of a chunk, and of the end of them.
LEMMA ChunkTypes ==
    ASSUME Readable, HasChunks(response)
    PROVE  /\ ChunkCount \in Nat
           /\ \A i \in 1 .. ChunkCount :
                /\ ChunkAt(i).size \in Seq(Characters) /\ OneLine(ChunkAt(i).size)
                /\ ChunkAt(i).data \in Seq(Characters) /\ ChunkAt(i).data # <<>>
                /\ read_chunk_size(ChunkAt(i).size) = Len(ChunkAt(i).data)
           /\ response.last \in Seq(Characters) /\ OneLine(response.last)
           /\ read_chunk_size(response.last) = 0
           /\ response.trailers \in Seq(Characters)
  <1> DEFINE R == Range(response.wire)
             c == response.chunks
  <1>1. /\ c \in Seq([size : Seq(R), data : Seq(R)])
        /\ response.last \in Seq(R) /\ response.trailers \in Seq(R)
        /\ is_field_text(response.last) /\ read_chunk_size(response.last) = 0
        /\ \A i \in 1 .. Len(c) : /\ is_field_text(c[i].size) /\ c[i].data # <<>>
                                  /\ read_chunk_size(c[i].size) = Len(c[i].data)
    BY Zenon DEF HasChunks
  <1>2. response.last \in Seq(Characters) /\ response.trailers \in Seq(Characters)
    BY <1>1, WiderType
  <1>3. OneLine(response.last)
    BY <1>1, <1>2, FieldIsOneLine
  <1>4. Len(c) \in Nat /\ \A i \in 1 .. Len(c) : c[i].size \in Seq(R) /\ c[i].data \in Seq(R)
    <2> DEFINE P == [size : Seq(R), data : Seq(R)]
    <2>1. \A x \in P : x.size \in Seq(R) /\ x.data \in Seq(R)
      OBVIOUS
    <2>2. c \in Seq(P)
      BY <1>1
    <2> HIDE DEF P, c
    <2>3. Len(c) \in Nat /\ \A i \in 1 .. Len(c) : c[i] \in P
      BY <2>2
    <2>4. QED
      BY <2>1, <2>3
  <1>5. \A i \in 1 .. Len(c) : c[i].size \in Seq(Characters) /\ c[i].data \in Seq(Characters)
    BY <1>4, WiderType
  <1>6. \A i \in 1 .. Len(c) : OneLine(c[i].size)
    BY <1>1, <1>5, FieldIsOneLine
  <1>7. QED
    BY <1>1, <1>2, <1>3, <1>4, <1>5, <1>6, Zenon DEF ChunkCount, ChunkAt

\* A chunk in the text: its size line, its data and both ends.
ChunkIs(c, next) == c.size \o (CRLF \o (c.data \o (CRLF \o next)))

\* A chunk's piece of the text, before the rest of it.
InPieces(a, b, e, t) == ((a \o e) \o (b \o e)) \o t = a \o (e \o (b \o (e \o t)))

\* The pieces can be joined in any order.
LEMMA ChunkPiece ==
    ASSUME NEW T, NEW a \in Seq(T), NEW b \in Seq(T), NEW e \in Seq(T), NEW t \in Seq(T)
    PROVE  InPieces(a, b, e, t)
  <1> DEFINE be == b \o e
             et == e \o t
             bet == b \o et
  <1>1. be \in Seq(T) /\ et \in Seq(T) /\ bet \in Seq(T)
    OBVIOUS
  <1>2. Groups(b, e, t)
    BY Associative
  <1>3. be \o t = bet
    BY <1>2, Zenon DEF Groups
  <1> HIDE DEF be, et, bet
  <1>4. Regroups(a, e, be, t)
    BY <1>1, AssociativeOfFour
  <1>5. Groups(a \o e, be, t)
    <2>1. a \o e \in Seq(T)
      OBVIOUS
    <2>2. QED
      BY <1>1, <2>1, Associative
  <1>6. ((a \o e) \o be) \o t = a \o (e \o bet)
    BY <1>3, <1>4, <1>5, Zenon DEF Regroups, Groups
  <1>7. QED
    BY <1>6, Zenon DEF InPieces, be, et, bet

\* The text from a chunk on is the chunk and the text from the next.
LEMMA FromChunkOn ==
    ASSUME Readable, HasChunks(response), NEW i \in 1 .. ChunkCount + 1
    PROVE  /\ FromChunk(i) \in Seq(Characters)
           /\ i = 1 => FromChunk(i) = response.rest
           /\ i <= ChunkCount => FromChunk(i) = ChunkIs(ChunkAt(i), FromChunk(i + 1))
           /\ i = ChunkCount + 1 => FromChunk(i) = response.last \o (CRLF \o response.trailers)
  <1> DEFINE n == ChunkCount
             g == ChunkPieces
             w == response.rest
             t == Ends(response.last) \o response.trailers
             k == i - 1
  <1>1. n \in Nat /\ w \in Seq(Characters) /\ t \in Seq(Characters)
    <2>1. response.last \in Seq(Characters) /\ response.trailers \in Seq(Characters)
      BY ChunkTypes
    <2>2. \A x, y \in Seq(Characters) : x \o y \in Seq(Characters)
      OBVIOUS
    <2>3. QED
      BY <2>1, <2>2, ChunkTypes, LineTypes, CrlfType, Zenon DEF Ends
  <1>2. \A j \in 1 .. n :
          /\ ChunkAt(j).size \in Seq(Characters) /\ ChunkAt(j).data \in Seq(Characters)
          /\ g[j] = (ChunkAt(j).size \o CRLF) \o (ChunkAt(j).data \o CRLF)
    BY ChunkTypes DEF ChunkPieces, Ends
  <1>3. \A j \in 1 .. n : g[j] \in Seq(Characters)
    <2>1. \A x, y \in Seq(Characters) : x \o y \in Seq(Characters)
      OBVIOUS
    <2>2. ASSUME NEW j \in 1 .. n PROVE g[j] \in Seq(Characters)
      <3> DEFINE a == ChunkAt(j).size \o CRLF
                 b == ChunkAt(j).data \o CRLF
      <3>1. a \in Seq(Characters) /\ b \in Seq(Characters) /\ g[j] = a \o b
        BY <1>2, <2>1, CrlfType, Zenon
      <3> HIDE DEF a, b
      <3>2. QED
        BY <2>1, <3>1, Zenon
    <2>3. QED
      BY <2>2
  <1>4. w = Flat(g, n) \o t
    <2>1. Flat(g, n) = ChunkText(response.chunks)
      <3> DEFINE a == [j \in 1 .. n |-> g[j]]
                 b == [j \in 1 .. n |-> Ends(response.chunks[j].size)
                                          \o Ends(response.chunks[j].data)]
      <3>1. \A j \in 1 .. n : a[j] = b[j]
        BY DEF ChunkPieces, ChunkAt
      <3>2. a = b
        BY <3>1
      <3>3. QED
        BY <3>2, Zenon DEF ChunkText, Flat, First, ChunkCount
    <2>2. QED
      BY <2>1, Zenon DEF HasChunks
  <1>5. /\ k \in Nat /\ k <= n /\ k + 1 = i /\ (i + 1) - 1 = i /\ (i = 1 => k = 0)
        /\ (i <= n => k < n) /\ (i = n + 1 => k = n) /\ k + 1 = i
    BY <1>1
  <1>6. FromChunk(i) = From(w, g, k) /\ FromChunk(i + 1) = From(w, g, k + 1)
    BY <1>5, Zenon DEF FromChunk
  <1> HIDE DEF k, g, w, t, n
  <1>7. LeftAfter(Characters, w, g, n, t, k)
    BY <1>1, <1>3, <1>4, <1>5, PiecesLeft
  <1>8. ASSUME i <= n PROVE FromChunk(i) = ChunkIs(ChunkAt(i), FromChunk(i + 1))
    <2> DEFINE a == ChunkAt(i).size
               b == ChunkAt(i).data
               next == FromChunk(i + 1)
    <2>1. From(w, g, k) = g[i] \o next
      BY <1>5, <1>6, <1>7, <1>8, Zenon DEF LeftAfter
    <2>2. next \in Seq(Characters)
      <3>1. k + 1 \in Nat /\ k + 1 <= n
        BY <1>1, <1>5, <1>8
      <3>2. LeftAfter(Characters, w, g, n, t, k + 1)
        BY <1>1, <1>3, <1>4, <3>1, PiecesLeft
      <3>3. QED
        BY <1>6, <3>2, Zenon DEF LeftAfter
    <2>3. i \in 1 .. n
      BY <1>1, <1>5, <1>8
    <2>4. a \in Seq(Characters) /\ b \in Seq(Characters) /\ g[i] = (a \o CRLF) \o (b \o CRLF)
      BY <1>2, <2>3
    <2> HIDE DEF a, b, next
    <2>5. InPieces(a, b, CRLF, next)
      BY <2>2, <2>4, CrlfType, ChunkPiece
    <2>6. QED
      BY <1>6, <2>1, <2>4, <2>5, Zenon DEF InPieces, ChunkIs, a, b, next
  <1>9. t = response.last \o (CRLF \o response.trailers)
    <2>1. Groups(response.last, CRLF, response.trailers)
      BY ChunkTypes, CrlfType, Associative
    <2>2. QED
      BY <2>1, Zenon DEF Groups, Ends, t
  <1>10. QED
    BY <1>5, <1>6, <1>7, <1>8, <1>9, Zenon DEF LeftAfter, n, w

\* The body so far, and with the data of one more chunk.
LEMMA BodiesOn ==
    ASSUME Readable, HasChunks(response), NEW i \in 0 .. ChunkCount
    PROVE  /\ Flat(ChunkBodies, i) \in Seq(Characters)
           /\ response.body \in Seq(Characters)
           /\ Starts(Flat(ChunkBodies, i), response.body)
           /\ i = 0 => Flat(ChunkBodies, i) = <<>>
           /\ i = ChunkCount => Flat(ChunkBodies, i) = response.body
           /\ i > 0 => Flat(ChunkBodies, i) = Flat(ChunkBodies, i - 1) \o ChunkAt(i).data
  <1> DEFINE n == ChunkCount
             g == ChunkBodies
  <1>1. n \in Nat /\ i \in Nat /\ i <= n
    BY ChunkTypes
  <1>2. \A j \in 1 .. n : g[j] = ChunkAt(j).data /\ g[j] \in Seq(Characters)
    BY ChunkTypes DEF ChunkBodies
  <1>3. response.body = Flat(g, n)
    <2> DEFINE a == [j \in 1 .. n |-> g[j]]
               b == [j \in 1 .. n |-> response.chunks[j].data]
    <2>1. \A j \in 1 .. n : a[j] = b[j]
      BY DEF ChunkBodies, ChunkAt
    <2>2. a = b
      BY <2>1
    <2>3. response.body = Joined(response.chunks)
      BY Zenon DEF HasChunks
    <2>4. QED
      BY <2>2, <2>3, Zenon DEF Joined, Flat, First, ChunkCount
  <1> HIDE DEF n, g
  <1>4. Flat(g, n) \in Seq(Characters) /\ Flat(g, i) \in Seq(Characters)
    <2>1. \A j \in 1 .. i : g[j] \in Seq(Characters)
      BY <1>1, <1>2
    <2>2. \A j \in 1 .. n : g[j] \in Seq(Characters)
      BY <1>2
    <2>3. QED
      BY <1>1, <2>1, <2>2, FlatType
  <1>5. Starts(Flat(g, i), Flat(g, n))
    <2>1. \A j \in 1 .. n : g[j] \in Seq(Characters)
      BY <1>2
    <2>2. QED
      BY <1>1, <2>1, FlatStarts
  <1>6. ASSUME i > 0 PROVE Flat(g, i) = Flat(g, i - 1) \o ChunkAt(i).data
    <2> DEFINE k == i - 1
    <2>1. k \in Nat /\ k + 1 = i /\ i \in 1 .. n /\ \A j \in 1 .. (k + 1) : j \in 1 .. n
      BY <1>1, <1>6
    <2>2. \A j \in 1 .. (k + 1) : g[j] \in Seq(Characters)
      BY <1>2, <2>1
    <2> HIDE DEF k
    <2>3. Flat(g, k + 1) = Flat(g, k) \o g[k + 1]
      BY <2>1, <2>2, FlatNext
    <2>4. g[k + 1] = ChunkAt(i).data
      BY <1>2, <2>1
    <2>5. QED
      BY <2>1, <2>3, <2>4, Zenon DEF k
  <1>7. i = 0 => Flat(g, i) = <<>>
    BY FlatNothing
  <1>8. QED
    BY <1>3, <1>4, <1>5, <1>6, <1>7, Zenon DEF n, g

\* Nothing of the body has been given yet.
NoneGiven(k, b) == b = <<>> /\ k.body_received = 0

AtHead(k, w) ==
    \E s \in 1 .. LineCount : StartsHead(response, s) /\ k.resp_header_buff \o w = FromLine(s)

\* k knows of the lines from s, the status line of a head, to before i.
Knows(k, s, i) ==
    /\ StartsHead(response, s) /\ is_status_line(response.lines[s])
    /\ k.status = StatusOf(response, s)
    /\ \A j \in s .. i - 1 : response.lines[j] # <<>>

Needed(line) ==
    is_header_present("Content-Length:", line) \/ is_header_present("Transfer-Encoding:", line)

\* and of what they say of the body.
KnowsFraming(k, i) ==
    /\ k.chunked <=> \E j \in response.final + 1 .. i - 1 :
                        is_chunked_encoding(response.lines[j]) = "chunked"
    /\ \A j \in response.final + 1 .. i - 1 :
        is_header_present("Content-Length:", response.lines[j]) => k.has_content_length
    /\ k.has_content_length =>
        \E line \in LengthHeaders(response) : k.content_length = read_content_length(line)
    /\ ~k.has_content_length => k.content_length = 0

HeadKnown(k, s, i) == Knows(k, s, i) /\ (s = response.final => KnowsFraming(k, i))

AtHeader(k, w) ==
    \E s \in 1 .. LineCount, i \in 1 .. LineCount :
        s <= i /\ HeadKnown(k, s, i) /\ k.resp_header_buff \o w = FromLine(i)

\* What is left of a line that is skipped.
LeftOf(line) == {Rest(line, n) : n \in 0 .. Len(line)}
SkipsLine(k, w, i) ==
    \E left \in LeftOf(response.lines[i]) :
        LET text == left \o (CRLF \o FromLine(i + 1)) IN
        \/ /\ k.resp_header_buff \o w = text
           /\ find_crlf(k.resp_header_buff) = 0
           /\ Needed(response.lines[i]) => Needed(k.resp_header_buff)
        \/ /\ k.resp_header_buff = <<"CR">> /\ w = text
           /\ ~Needed(response.lines[i])
InHeader(k, w) ==
    \E s \in 1 .. LineCount, i \in 1 .. LineCount - 1 :
        /\ s <= i /\ response.lines[i] # <<>>
        /\ HeadKnown(k, s, i) /\ SkipsLine(k, w, i)

\* The body is what the length says, or all that is left.
PlainBody(k, b) ==
    /\ k.body_received = Len(b)
    /\ k.has_content_length =>
        /\ k.content_length \in 0 .. Len(response.rest)
        /\ response.body = SubSeq(response.rest, 1, k.content_length)
        /\ k.body_received <= k.content_length
    /\ ~k.has_content_length =>
         response.body = response.rest /\ response.framing = "close" /\ k.content_length = 0
Incomplete(k) == k.has_content_length => k.body_received < k.content_length

ChunkStart(k, w, b) ==
    \E j \in 1 .. ChunkCount + 1 :
        /\ k.stream_buff \o (k.resp_header_buff \o w) = FromChunk(j)
        /\ b = Flat(ChunkBodies, j - 1)

ChunkInside(k, text, b) ==
    \E j \in 1 .. ChunkCount :
        /\ k.chunk_size = Len(ChunkAt(j).data)
        /\ k.chunk_size_written \in 0 .. k.chunk_size
        /\ text = Rest(ChunkAt(j).data, k.chunk_size_written) \o (CRLF \o FromChunk(j + 1))
        /\ b = Flat(ChunkBodies, j - 1) \o SubSeq(ChunkAt(j).data, 1, k.chunk_size_written)

ChunkEnd(k, w, b) ==
    \E j \in 1 .. ChunkCount :
        /\ k.stream_buff \o (k.resp_header_buff \o w) = CRLF \o FromChunk(j + 1)
        /\ b = Flat(ChunkBodies, j)

Complete(k, b) == k.result = "OK" => response.framing = "close" \/ b = response.body

ChunkSizeStates ==
    {"RESP_BODY_PARSE_CHUNK_SIZE", "READ_CHUNK_SIZE_FROM_HEADER_BUFF", "RESP_BODY_READ_CHUNK_SIZE"}
ChunkBodyStates == {"RESP_BODY_PARSE_CHUNK_BODY", "READ_CHUNK_BODY_FROM_HEADER_BUFF"}
ChunkStates == ChunkSizeStates \cup ChunkBodyStates
    \cup {"RESP_BODY_READ_CHUNK_BODY", "RESP_BODY_SKIP_CHUNK_BODY_CRLF"}

Read(k, w, b) ==
    /\ k.state \in SendStates => w = response.wire /\ NoneGiven(k, b)
    /\ k.state \in {"RESP_STATUS_READ", "RESP_STATUS_PARSE"} => AtHead(k, w) /\ NoneGiven(k, b)
    /\ k.state = "RESP_STATUS_READ" => find_crlf(k.resp_header_buff) = 0
    /\ k.state \in {"RESP_HEADER_CALLBACK", "RESP_HEADER_READ"} =>
         AtHeader(k, w) /\ NoneGiven(k, b)
    /\ k.state = "RESP_HEADER_SKIP" => InHeader(k, w) /\ NoneGiven(k, b)
    /\ k.state = "RESP_BODY_FRAGMENT" =>
         PlainBody(k, b) /\ b \o (k.resp_header_buff \o w) = response.rest
    /\ k.state = "RESP_BODY_READ" =>
         PlainBody(k, b) /\ Incomplete(k) /\ b \o w = response.rest
    /\ k.state = "RESP_BODY_CALLBACK" =>
         PlainBody(k, b) /\ b \o (k.stream_buff \o w) = response.rest
    /\ k.state \in ChunkSizeStates => ChunkStart(k, w, b)
    /\ k.state \in ChunkBodyStates =>
         ChunkInside(k, k.stream_buff \o (k.resp_header_buff \o w), b)
    /\ k.state = "RESP_BODY_READ_CHUNK_BODY" => ChunkInside(k, w, b)
    /\ k.state = "RESP_BODY_SKIP_CHUNK_BODY_CRLF" => ChunkEnd(k, w, b)
    /\ k.state \in {"RESP_BODY_READ_CHUNK_SIZE", "RESP_BODY_READ_CHUNK_BODY"} =>
         k.resp_header_buff = <<>>
    /\ k.state \in ChunkStates => HasChunks(response)
    /\ k.state = "RESP_BODY_SKIP_TRAILERS" => b = response.body
    /\ k.state \in {"CLOSE", "FINISHED"} => Complete(k, b)


BodyFields ==
    {"state", "result", "resp_header_buff", "stream_buff", "status", "status_line_given", "chunked",
     "content_length", "has_content_length", "body_received", "chunk_size",
     "chunk_size_written", "sock_error", "version_1_0", "trailer_end_matched",
     "header_skipped", "close_failed"}

\* These are fields, too.
LEMMA BodyFieldNames == BodyFields \subseteq Fields
  BY DEF BodyFields, Fields, Reset

\* Where khc is in the response, before a step and after it.
Reading ==
    /\ BuffersInv /\ Readable /\ phase = "loop"
    /\ Read(khc, wire, body)
    /\ body \in Seq(Characters) /\ Starts(body, response.body)
Reads ==
    /\ Read(khc', wire', body')
    /\ body' \in Seq(Characters) /\ Starts(body', response.body)

\* What is received, and kept of it, is of the response's characters.
LEMMA KeptType ==
    ASSUME BuffersInv, NEW k, Buffers(k)
    PROVE  /\ k.resp_header_buff \in Seq(Characters) /\ k.stream_buff \in Seq(Characters)
           /\ wire \in Seq(Characters)
  <1>1. Symbols \subseteq Characters
    BY DEF Characters
  <1>2. k.resp_header_buff \in Seq(Symbols) /\ k.stream_buff \in Seq(Symbols)
        /\ wire \in Seq(Symbols)
    BY DEF BuffersInv, Buffers
  <1> HIDE DEF Symbols, Characters
  <1>3. \A s \in Seq(Symbols) : s \in Seq(Characters)
    BY <1>1
  <1>4. QED
    BY <1>2, <1>3, Zenon

\* CR and LF are.
LEMMA EndsAreCharacters == "CR" \in Characters /\ "LF" \in Characters
  BY DEF Characters, Symbols

\* A state that only has to be complete.
LEMMA ClosedReads ==
    ASSUME NEW k, NEW w, NEW b, k.state \in {"CLOSE", "FINISHED"}, Complete(k, b)
    PROVE  Read(k, w, b)
  BY DEF Read, SendStates, ChunkSizeStates, ChunkBodyStates, ChunkStates

\* One that failed is.
LEMMA FailsReads ==
    ASSUME NEW k, DOMAIN k = Fields, NEW w, NEW b, NEW code, code # "OK"
    PROVE  /\ Read(Fails(k, code), w, b) /\ Read(ClosedEarly(k), w, b)
           /\ Read([Fails(k, code) EXCEPT !.sock_error = "failed"], w, b)
  <1>1. ASSUME NEW l, l \in {Fails(k, code), ClosedEarly(k),
                             [Fails(k, code) EXCEPT !.sock_error = "failed"]}
        PROVE  l.state = "CLOSE" /\ l.result # "OK"
    <2>1. "state" \in Fields /\ "result" \in Fields /\ "sock_error" \in Fields
      BY FieldNames, BodyFieldNames DEF BodyFields
    <2>2. CASE l = Fails(k, code)
      BY <2>1, <2>2 DEF Fails
    <2>3. CASE l = ClosedEarly(k)
      BY <2>1, <2>3 DEF ClosedEarly, Fails
    <2>4. CASE l = [Fails(k, code) EXCEPT !.sock_error = "failed"]
      BY <2>1, <2>4 DEF Fails
    <2>5. QED
      BY <1>1, <2>2, <2>3, <2>4
  <1>2. ASSUME NEW l, l \in {Fails(k, code), ClosedEarly(k),
                             [Fails(k, code) EXCEPT !.sock_error = "failed"]}
        PROVE  Read(l, w, b)
    <2>1. Complete(l, b) /\ l.state \in {"CLOSE", "FINISHED"}
      BY <1>1, <1>2 DEF Complete
    <2>2. QED
      BY <2>1, ClosedReads
  <1>3. QED
    BY <1>2

\* What was received comes off what the server sent.
LEMMA ReceivedStarts ==
    ASSUME BuffersInv, NEW room \in Nat, NEW data \in Received(room), data # <<>>,
           NEW w, w = SubSeq(wire, Len(data) + 1, Len(wire))
    PROVE  data \in Seq(Characters) /\ w \in Seq(Characters) /\ wire = data \o w
  <1>1. data \in Seq(Symbols) /\ Len(data) <= Len(wire) /\ wire \in Seq(Symbols)
        /\ Len(data) \in Nat /\ Len(wire) \in Nat
    BY ReceivedType DEF BuffersInv
  <1>2. PICK n \in 1 .. Min({room, Len(wire)}) : data = SubSeq(wire, 1, n)
    BY DEF Received
  <1>3. n \in Nat /\ n <= Len(wire)
    <2> DEFINE m == Min({room, Len(wire)})
    <2>1. m \in Nat /\ m <= Len(wire) /\ n \in 1 .. m
      BY <1>1, <1>2, LesserOf
    <2> HIDE DEF m
    <2>2. QED
      BY <1>1, <2>1
  <1> HIDE DEF Symbols
  <1>4. Len(data) = n
    BY <1>1, <1>2, <1>3
  <1>5. CutAt(wire, n) /\ Rest(wire, n) \in Seq(Symbols)
    BY <1>1, <1>3, CutInTwo, RestType
  <1>6. w = Rest(wire, n)
    BY <1>4, Zenon DEF Rest
  <1>7. wire = data \o w
    BY <1>2, <1>5, <1>6, Zenon DEF CutAt
  <1>8. Symbols \subseteq Characters
    BY DEF Characters
  <1> HIDE DEF Characters
  <1>9. \A s \in Seq(Symbols) : s \in Seq(Characters)
    BY <1>8
  <1>10. QED
    BY <1>1, <1>5, <1>6, <1>7, <1>9, Zenon

\* A handler that calls nothing.
LEMMA ThenReads ==
    ASSUME Reading, NEW k, Then(k), Read(k, wire, body)
    PROVE  Reads
  BY Zenon DEF Reading, Reads, Then, historyVars

\* Where data that is received goes on.
ReadsMore(k, room) ==
    \/ \E data \in Received(room) :
        /\ data # <<>> /\ wire' = SubSeq(wire, Len(data) + 1, Len(wire))
        /\ Read(khc', SubSeq(wire, Len(data) + 1, Len(wire)), body)
    \/ Read(khc', <<>>, body) /\ wire' = <<>>
    \/ khc' = k /\ UNCHANGED wire
    \/ khc' = [Fails(k, "SOCK_RECV") EXCEPT !.sock_error = "failed"] /\ UNCHANGED wire

\* A receive that fails or gives nothing yet goes on, too.
LEMMA RecvReads ==
    ASSUME Reading, NEW k, Buffers(k), Read(k, wire, body), NEW room \in Nat, ReadsMore(k, room),
           UNCHANGED body
    PROVE  Reads
  <1>1. Read([Fails(k, "SOCK_RECV") EXCEPT !.sock_error = "failed"], wire, body)
    BY FailsReads DEF Buffers
  <1>2. Read(khc', wire', body)
    BY <1>1, Zenon DEF ReadsMore
  <1>3. QED
    BY <1>2, Zenon DEF Reading, Reads

\* The body of a response is of its characters.
LEMMA BodyType == ASSUME Readable PROVE response.body \in Seq(Characters)
  <1>1. CASE response.body = <<>>
    BY <1>1
  <1>2. CASE HasChunks(response)
    <2>1. 0 \in 0 .. ChunkCount
      BY <1>2, ChunkTypes
    <2>2. QED
      BY <1>2, <2>1, BodiesOn
  <1>3. CASE HasLength(response)
    <2>1. PICK n \in 0 .. Len(response.rest) : response.body = SubSeq(response.rest, 1, n)
      BY <1>3 DEF HasLength
    <2>2. response.rest \in Seq(Characters)
      BY LineTypes
    <2> HIDE DEF Characters
    <2>3. QED
      BY <2>1, <2>2
  <1>4. CASE response.body = response.rest
    BY <1>4, LineTypes
  <1>5. QED
    BY <1>1, <1>2, <1>3, <1>4, ReadableResponse, Zenon DEF CanBeRead

-----------------------------------------------------------------------------
(* The head of a response that can be read.                                *)

\* Another state that has the same of the head, and of the body's framing.
SameHead(l, k) ==
    /\ l.status = k.status /\ l.chunked = k.chunked /\ l.content_length = k.content_length
    /\ l.has_content_length = k.has_content_length /\ l.body_received = k.body_received

\* Going on changes nothing else.
LEMMA GotoKeeps ==
    ASSUME NEW k, DOMAIN k = Fields, NEW state, NEW l, l = Goto(k, state)
    PROVE  /\ l.state = state /\ SameHead(l, k) /\ l.result = k.result
           /\ l.resp_header_buff = k.resp_header_buff /\ l.stream_buff = k.stream_buff
           /\ l.chunk_size = k.chunk_size /\ l.chunk_size_written = k.chunk_size_written
  BY BodyFieldNames DEF Goto, SameHead, BodyFields

\* A state at the start of a head.
LEMMA HeadReads ==
    ASSUME NEW k, NEW w, NEW b, k.state \in {"RESP_STATUS_READ", "RESP_STATUS_PARSE"},
           AtHead(k, w), NoneGiven(k, b),
           k.state = "RESP_STATUS_READ" => find_crlf(k.resp_header_buff) = 0
    PROVE  Read(k, w, b)
  BY DEF Read, SendStates, ChunkSizeStates, ChunkBodyStates, ChunkStates

\* One at a line of it.
LEMMA HeaderReads ==
    ASSUME NEW k, NEW w, NEW b, k.state \in {"RESP_HEADER_CALLBACK", "RESP_HEADER_READ"},
           AtHeader(k, w), NoneGiven(k, b)
    PROVE  Read(k, w, b)
  BY DEF Read, SendStates, ChunkSizeStates, ChunkBodyStates, ChunkStates

\* One that knows the same of the head does.
LEMMA HeadStaysKnown ==
    ASSUME NEW k, NEW l, SameHead(l, k), NEW s, NEW i, HeadKnown(k, s, i)
    PROVE  HeadKnown(l, s, i)
  BY Zenon DEF SameHead, HeadKnown, Knows, KnowsFraming

\* What a state is at in the response.
LEMMA ReadingAt ==
    ASSUME Reading
    PROVE  /\ Readable /\ BuffersInv /\ Buffers(khc) /\ DOMAIN khc = Fields
           /\ khc.resp_header_buff \in Seq(Characters) /\ khc.stream_buff \in Seq(Characters)
           /\ wire \in Seq(Characters) /\ body \in Seq(Characters)
  <1>1. BuffersInv /\ Buffers(khc) /\ DOMAIN khc = Fields
    BY DEF Reading, BuffersInv, Buffers
  <1>2. QED
    BY <1>1, KeptType DEF Reading

\* RESP_STATUS_READ.
LEMMA RespStatusReadReads == ASSUME Reading, RespStatusRead PROVE Reads
  <1> DEFINE buff == khc.resp_header_buff
             room == HeaderRoom(khc)
             Got(data) == [khc EXCEPT !.resp_header_buff = @ \o data]
  <1>1. /\ Readable /\ BuffersInv /\ Buffers(khc) /\ DOMAIN khc = Fields /\ room \in Nat
        /\ buff \in Seq(Characters) /\ wire \in Seq(Characters)
    BY ReadingAt, Rooms
  <1>2. /\ khc.state = "RESP_STATUS_READ" /\ Read(khc, wire, body) /\ AtHead(khc, wire)
        /\ NoneGiven(khc, body) /\ find_crlf(buff) = 0
    BY DEF RespStatusRead, At, Reading, Read
  <1>3. ASSUME NEW data, NEW k, k = Got(data)
        PROVE  /\ k.resp_header_buff = buff \o data /\ DOMAIN k = Fields
               /\ k.state = "RESP_STATUS_READ" /\ SameHead(k, khc)
    BY <1>1, <1>2, <1>3, BodyFieldNames DEF SameHead, BodyFields
  <1>4. ASSUME NEW data \in Received(room), data # <<>>, NEW w,
               w = SubSeq(wire, Len(data) + 1, Len(wire)), NEW k, k = Got(data)
        PROVE  /\ Read(Goto(k, "RESP_STATUS_PARSE"), w, body)
               /\ find_crlf(k.resp_header_buff) = 0 => Read(k, w, body)
    <2>1. data \in Seq(Characters) /\ w \in Seq(Characters) /\ wire = data \o w
      BY <1>1, <1>4, ReceivedStarts
    <2>2. k.resp_header_buff = buff \o data /\ DOMAIN k = Fields
          /\ k.state = "RESP_STATUS_READ" /\ SameHead(k, khc)
      BY <1>3, <1>4
    <2>3. Groups(buff, data, w)
      BY <1>1, <2>1, Associative
    <2>4. k.resp_header_buff \o w = buff \o wire
      BY <2>1, <2>2, <2>3, Zenon DEF Groups
    <2>5. AtHead(k, w)
      BY <1>2, <2>4, Zenon DEF AtHead
    <2>6. NoneGiven(k, body)
      BY <1>2, <2>2 DEF NoneGiven, SameHead
    <2> DEFINE l == Goto(k, "RESP_STATUS_PARSE")
    <2>7. l.state = "RESP_STATUS_PARSE" /\ SameHead(l, k)
          /\ l.resp_header_buff = k.resp_header_buff
      BY <2>2, GotoKeeps
    <2> HIDE DEF l
    <2>8. AtHead(l, w) /\ NoneGiven(l, body)
      BY <2>5, <2>6, <2>7 DEF AtHead, NoneGiven, SameHead
    <2>9. Read(l, w, body)
      BY <2>7, <2>8, HeadReads
    <2>10. ASSUME find_crlf(k.resp_header_buff) = 0 PROVE Read(k, w, body)
      <3>1. k.state \in {"RESP_STATUS_READ", "RESP_STATUS_PARSE"}
        BY <2>2
      <3>2. k.state = "RESP_STATUS_READ" => find_crlf(k.resp_header_buff) = 0
        BY <2>10
      <3>3. QED
        BY <2>5, <2>6, <3>1, <3>2, HeadReads
    <2>11. QED
      BY <2>9, <2>10 DEF l
  <1>5. ASSUME NEW data, NEW w, NEW k, k = Got(data)
        PROVE  Read(Fails(k, "TOO_LARGE_DATA"), w, body) /\ Read(ClosedEarly(k), w, body)
    <2>1. DOMAIN k = Fields
      BY <1>3, <1>5
    <2>2. "TOO_LARGE_DATA" # "OK"
      OBVIOUS
    <2>3. QED
      BY <2>1, <2>2, FailsReads, Zenon
  <1>6. find_crlf(Got(<<>>).resp_header_buff) = 0
    <2>1. Got(<<>>).resp_header_buff = buff \o <<>>
      BY <1>3
    <2>2. buff \o <<>> = buff
      BY <1>1
    <2>3. QED
      BY <1>2, <2>1, <2>2, Zenon
  <1>7. ReadsMore(khc, room)
    <2>1. CASE khc' = khc /\ UNCHANGED wire
      BY <2>1 DEF ReadsMore
    <2>2. CASE khc' = [Fails(khc, "SOCK_RECV") EXCEPT !.sock_error = "failed"] /\ UNCHANGED wire
      BY <2>2 DEF ReadsMore
    <2>3. ASSUME NEW data \in Received(room), NEW k, k = Got(data),
                 wire' = IF data = <<>> THEN <<>> ELSE SubSeq(wire, Len(data) + 1, Len(wire)),
                 khc' = IF find_crlf(k.resp_header_buff) # 0 THEN Goto(k, "RESP_STATUS_PARSE")
                        ELSE IF HeaderRoom(k) = 0 THEN Fails(k, "TOO_LARGE_DATA")
                        ELSE IF data = <<>> THEN ClosedEarly(k)
                        ELSE k
          PROVE  ReadsMore(khc, room)
      <3>1. CASE data = <<>>
        <4>1. khc' \in {Fails(k, "TOO_LARGE_DATA"), ClosedEarly(k)}
          BY <1>6, <2>3, <3>1, Zenon
        <4>2. Read(khc', <<>>, body)
          <5>1. Read(Fails(k, "TOO_LARGE_DATA"), <<>>, body) /\ Read(ClosedEarly(k), <<>>, body)
            BY <1>5, <2>3
          <5>2. QED
            BY <4>1, <5>1
        <4>3. wire' = <<>>
          BY <2>3, <3>1
        <4>4. QED
          BY <4>2, <4>3, Zenon DEF ReadsMore
      <3>2. CASE data # <<>>
        <4> DEFINE w == SubSeq(wire, Len(data) + 1, Len(wire))
        <4>1. wire' = w
          BY <2>3, <3>2
        <4>2. Read(Goto(k, "RESP_STATUS_PARSE"), w, body)
              /\ (find_crlf(k.resp_header_buff) = 0 => Read(k, w, body))
          BY <1>4, <2>3, <3>2
        <4>3. Read(Fails(k, "TOO_LARGE_DATA"), w, body) /\ Read(ClosedEarly(k), w, body)
          BY <1>5, <2>3
        <4>4. Read(khc', w, body)
          BY <2>3, <4>2, <4>3, Zenon
        <4>5. QED
          BY <2>3, <3>2, <4>1, <4>4, Zenon DEF ReadsMore
      <3>3. QED
        BY <3>1, <3>2
    <2>4. QED
      BY <2>1, <2>2, <2>3, Zenon DEF RespStatusRead, Recv
  <1>8. UNCHANGED body
    BY DEF RespStatusRead, Recv
  <1>9. QED
    BY <1>1, <1>2, <1>7, <1>8, RecvReads

\* A status line isn't a header that khc needs.
LEMMA StatusIsNotNeeded == ASSUME NEW line, is_status_line(line) PROVE ~Needed(line)
  <1>1. DOMAIN Statuses = {"HTTP/1.1 100", "HTTP/1.1 200", "HTTP/1.0 200", "HTTP/1.1 204"}
    BY DEF Statuses
  <1>2. QED
    BY <1>1, Zenon DEF is_status_line, is_header_present, Needed

\* Where a head is, of all the lines.
LEMMA HeadPlaces ==
    ASSUME Readable
    PROVE  /\ response.final \in 1 .. LineCount - 1
           /\ is_status_line(response.lines[response.final])
           /\ \A s : StartsHead(response, s) =>
                s \in 1 .. LineCount - 1 /\ (s = 1 \/ response.lines[s - 1] = <<>>)
           /\ \A i \in response.final .. LineCount - 1 : response.lines[i] # <<>>
           /\ \A s : StartsHead(response, s) /\ is_status_line(response.lines[s]) =>
                (s = response.final <=> StatusOf(response, s) \notin 100 .. 199)
  <1>1. HasHead(response)
    BY ReadableResponse DEF CanBeRead
  <1>2. LineCount - 1 = Len(response.lines)
    BY LineTypes
  <1>3. StartsHead(response, response.final) /\ is_status_line(response.lines[response.final])
    BY <1>1, Zenon DEF HasHead
  <1>4. \A s : StartsHead(response, s) =>
          s \in 1 .. LineCount - 1 /\ (s = 1 \/ response.lines[s - 1] = <<>>)
    BY <1>2, Zenon DEF StartsHead
  <1>5. \A i \in response.final .. LineCount - 1 : response.lines[i] # <<>>
    BY <1>1, <1>2, Zenon DEF HasHead
  <1>6. \A s : StartsHead(response, s) /\ is_status_line(response.lines[s]) =>
          (s = response.final <=> StatusOf(response, s) \notin 100 .. 199)
    BY <1>1, Zenon DEF HasHead, StartsHead
  <1>7. QED
    BY <1>3, <1>4, <1>5, <1>6, Zenon

\* RESP_STATUS_PARSE.
LEMMA RespStatusParseReads == ASSUME Reading, RespStatusParse PROVE Reads
  <1> DEFINE buff == khc.resp_header_buff
             line == Line(buff)
             k == [khc EXCEPT !.state = "RESP_HEADER_CALLBACK",
                              !.status = Statuses[Head(line)],
                              !.status_line_given = FALSE,
                              !.version_1_0 = Is10(line),
                              !.content_length = 0,
                              !.has_content_length = FALSE,
                              !.chunked = FALSE]
  <1>1. /\ Readable /\ BuffersInv /\ DOMAIN khc = Fields
        /\ buff \in Seq(Characters) /\ wire \in Seq(Characters)
    BY ReadingAt
  <1>2. khc.state = "RESP_STATUS_PARSE" /\ AtHead(khc, wire) /\ NoneGiven(khc, body)
    BY DEF RespStatusParse, At, Reading, Read
  <1>3. CASE ~is_status_line(line)
    <2>1. Then(Fails(khc, "INVALID_RESPONSE"))
      BY <1>3, Zenon DEF RespStatusParse
    <2>2. "INVALID_RESPONSE" # "OK"
      OBVIOUS
    <2>3. Read(Fails(khc, "INVALID_RESPONSE"), wire, body)
      BY <1>1, <2>2, FailsReads, Zenon
    <2>4. QED
      BY <2>1, <2>3, ThenReads
  <1>4. CASE is_status_line(line)
    <2>1. Then(k)
      BY <1>4, Zenon DEF RespStatusParse
    <2>2. /\ k.state = "RESP_HEADER_CALLBACK" /\ k.status = Statuses[Head(line)]
          /\ k.content_length = 0 /\ k.has_content_length = FALSE /\ k.chunked = FALSE
          /\ k.resp_header_buff = buff /\ k.body_received = khc.body_received
      BY <1>1, BodyFieldNames DEF BodyFields
    <2> HIDE DEF k
    <2>3. PICK s \in 1 .. LineCount : StartsHead(response, s) /\ buff \o wire = FromLine(s)
      BY <1>2 DEF AtHead
    <2> DEFINE next == FromLine(s + 1)
    <2>4. /\ LineAt(s) \in Seq(Characters) /\ OneLine(LineAt(s)) /\ next \in Seq(Characters)
          /\ buff \o wire = LineAt(s) \o (CRLF \o next)
      BY <1>1, <2>3, LineTypes, FromLineOn
    <2>5. find_crlf(buff) # 0
      <3> SUFFICES ASSUME find_crlf(buff) = 0 PROVE FALSE
        OBVIOUS
      <3>1. line = SubSeq(buff, 1, 0 - 1)
        BY Zenon DEF Line
      <3>2. SubSeq(buff, 1, 0 - 1) = <<>>
        BY <1>1
      <3>3. QED
        BY <1>4, <3>1, <3>2, Zenon DEF is_status_line
    <2>6. line = LineAt(s)
      <3> HIDE DEF next
      <3>1. QED
        BY <1>1, <2>4, <2>5, CutLine, EndsAreCharacters
    <2>7. s \in 1 .. LineCount - 1 /\ LineAt(s) = response.lines[s] /\ s \in Nat
      BY <1>1, <2>3, HeadPlaces, LineTypes
    <2>8. is_status_line(response.lines[s]) /\ k.status = StatusOf(response, s)
      BY <1>4, <2>2, <2>6, <2>7, Zenon DEF StatusOf
    <2>9. Knows(k, s, s)
      BY <2>3, <2>7, <2>8 DEF Knows
    <2>10. s = response.final => KnowsFraming(k, s)
      <3> SUFFICES ASSUME s = response.final PROVE KnowsFraming(k, s)
        OBVIOUS
      <3>1. ~\E j \in response.final + 1 .. s - 1 : TRUE
        BY <2>7
      <3>2. \A j : j \notin response.final + 1 .. s - 1
        BY <3>1, Zenon
      <3>3. QED
        BY <2>2, <3>2, Zenon DEF KnowsFraming
    <2>11. AtHeader(k, wire)
      <3>1. HeadKnown(k, s, s) /\ s <= s
        BY <2>7, <2>9, <2>10 DEF HeadKnown
      <3>2. QED
        BY <2>2, <2>3, <3>1, Zenon DEF AtHeader
    <2>12. NoneGiven(k, body)
      BY <1>2, <2>2 DEF NoneGiven
    <2>13. Read(k, wire, body)
      BY <2>2, <2>11, <2>12, HeaderReads
    <2>14. QED
      BY <2>1, <2>13, ThenReads
  <1>5. QED
    BY <1>3, <1>4

\* RESP_HEADER_READ.
LEMMA RespHeaderReadReads == ASSUME Reading, RespHeaderRead PROVE Reads
  <1> DEFINE buff == khc.resp_header_buff
             room == HeaderRoom(khc)
             Got(data) == [khc EXCEPT !.state = "RESP_HEADER_CALLBACK",
                                      !.resp_header_buff = @ \o data]
  <1>1. /\ Readable /\ BuffersInv /\ Buffers(khc) /\ DOMAIN khc = Fields /\ room \in Nat
        /\ buff \in Seq(Characters) /\ wire \in Seq(Characters)
    BY ReadingAt, Rooms
  <1>2. /\ khc.state = "RESP_HEADER_READ" /\ Read(khc, wire, body) /\ AtHeader(khc, wire)
        /\ NoneGiven(khc, body)
    BY DEF RespHeaderRead, At, Reading, Read
  <1>3. ASSUME NEW data \in Received(room), data # <<>>, NEW w,
               w = SubSeq(wire, Len(data) + 1, Len(wire)), NEW k, k = Got(data)
        PROVE  Read(k, w, body)
    <2>1. data \in Seq(Characters) /\ w \in Seq(Characters) /\ wire = data \o w
      BY <1>1, <1>3, ReceivedStarts
    <2>2. k.resp_header_buff = buff \o data /\ k.state = "RESP_HEADER_CALLBACK"
          /\ SameHead(k, khc)
      BY <1>1, <1>3, BodyFieldNames DEF SameHead, BodyFields
    <2>3. Groups(buff, data, w)
      BY <1>1, <2>1, Associative
    <2>4. k.resp_header_buff \o w = buff \o wire
      BY <2>1, <2>2, <2>3, Zenon DEF Groups
    <2>5. AtHeader(k, w)
      <3>1. PICK s \in 1 .. LineCount, i \in 1 .. LineCount :
              s <= i /\ HeadKnown(khc, s, i) /\ buff \o wire = FromLine(i)
        BY <1>2 DEF AtHeader
      <3>2. HeadKnown(k, s, i)
        BY <2>2, <3>1, HeadStaysKnown
      <3>3. QED
        BY <2>4, <3>1, <3>2, Zenon DEF AtHeader
    <2>6. NoneGiven(k, body)
      BY <1>2, <2>2 DEF NoneGiven, SameHead
    <2>7. QED
      BY <2>2, <2>5, <2>6, HeaderReads
  <1>4. \A w : Read(ClosedEarly(khc), w, body)
    <2>1. "SOCK_RECV" # "OK"
      OBVIOUS
    <2>2. QED
      BY <1>1, <2>1, FailsReads, Zenon
  <1>5. ReadsMore(khc, room)
    <2>1. CASE khc' = khc /\ UNCHANGED wire
      BY <2>1 DEF ReadsMore
    <2>2. CASE khc' = [Fails(khc, "SOCK_RECV") EXCEPT !.sock_error = "failed"] /\ UNCHANGED wire
      BY <2>2 DEF ReadsMore
    <2>3. ASSUME NEW data \in Received(room),
                 wire' = IF data = <<>> THEN <<>> ELSE SubSeq(wire, Len(data) + 1, Len(wire)),
                 khc' = IF data = <<>> THEN ClosedEarly(khc) ELSE Got(data)
          PROVE  ReadsMore(khc, room)
      <3>1. CASE data = <<>>
        BY <1>4, <2>3, <3>1, Zenon DEF ReadsMore
      <3>2. CASE data # <<>>
        BY <1>3, <2>3, <3>2, Zenon DEF ReadsMore
      <3>3. QED
        BY <3>1, <3>2
    <2>4. QED
      BY <2>1, <2>2, <2>3, Zenon DEF RespHeaderRead, Recv
  <1>6. UNCHANGED body
    BY DEF RespHeaderRead, Recv
  <1>7. QED
    BY <1>1, <1>2, <1>5, <1>6, RecvReads

\* The line after which one more is known.
LEMMA OneMoreLine ==
    ASSUME Readable, NEW s, NEW i \in 1 .. LineCount - 1, NEW k, HeadKnown(k, s, i), s <= i,
           response.lines[i] # <<>>
    PROVE  /\ s \in Nat /\ i \in Nat /\ (i + 1) - 1 = i
           /\ Knows(k, s, i + 1)
           /\ \A j \in response.final + 1 .. i : j \in response.final + 1 .. i - 1 \/ j = i
           /\ \A j \in response.final + 1 .. i - 1 : j \in response.final + 1 .. i
           /\ s = response.final => (i \in response.final + 1 .. i <=> i # s)
           /\ i = s => is_status_line(response.lines[i])
  <1>1. LineCount \in Nat /\ i \in Nat /\ (i + 1) - 1 = i
    BY LineTypes
  <1>2. Knows(k, s, i)
    BY DEF HeadKnown
  <1>3. s \in Nat /\ s >= 1
    BY <1>1, <1>2, HeadPlaces DEF Knows
  <1>4. response.final \in Nat
    BY <1>1, HeadPlaces
  <1>5. \A j \in s .. (i + 1) - 1 : j \in s .. i - 1 \/ j = i
    BY <1>1, <1>3
  <1>6. Knows(k, s, i + 1)
    BY <1>2, <1>5, Zenon DEF Knows
  <1>7. i = s => is_status_line(response.lines[i])
    BY <1>2 DEF Knows
  <1>8. /\ \A j \in response.final + 1 .. i : j \in response.final + 1 .. i - 1 \/ j = i
        /\ \A j \in response.final + 1 .. i - 1 : j \in response.final + 1 .. i
        /\ s = response.final => (i \in response.final + 1 .. i <=> i # s)
    <2> DEFINE f == response.final
    <2>1. f \in Nat
      BY <1>4
    <2> HIDE DEF f
    <2>2. /\ \A j \in f + 1 .. i : j \in f + 1 .. i - 1 \/ j = i
          /\ \A j \in f + 1 .. i - 1 : j \in f + 1 .. i
          /\ s = f => (i \in f + 1 .. i <=> i # s)
      BY <1>1, <1>3, <2>1
    <2>3. QED
      BY <2>2 DEF f
  <1>9. QED
    BY <1>1, <1>3, <1>6, <1>7, <1>8

\* A line that khc needs nothing of changes nothing.
LEMMA UnneededKnown ==
    ASSUME Readable, NEW s, NEW i \in 1 .. LineCount - 1, NEW k, HeadKnown(k, s, i), s <= i,
           response.lines[i] # <<>>, ~Needed(response.lines[i])
    PROVE  HeadKnown(k, s, i + 1)
  <1> DEFINE line == response.lines[i]
  <1>1. /\ Knows(k, s, i + 1) /\ (i + 1) - 1 = i
        /\ \A j \in response.final + 1 .. i : j \in response.final + 1 .. i - 1 \/ j = i
        /\ \A j \in response.final + 1 .. i - 1 : j \in response.final + 1 .. i
    BY OneMoreLine, Zenon
  <1>2. is_chunked_encoding(line) # "chunked"
    BY Zenon DEF Needed, is_chunked_encoding
  <1>3. ~is_header_present("Content-Length:", line)
    BY DEF Needed
  <1>4. ASSUME s = response.final PROVE KnowsFraming(k, i + 1)
    <2>1. KnowsFraming(k, i)
      BY <1>4, Zenon DEF HeadKnown
    <2>2. (\E j \in response.final + 1 .. i - 1 :
              is_chunked_encoding(response.lines[j]) = "chunked")
            <=> (\E j \in response.final + 1 .. i :
                    is_chunked_encoding(response.lines[j]) = "chunked")
      BY <1>1, <1>2, Zenon
    <2>3. (\A j \in response.final + 1 .. i - 1 :
              is_header_present("Content-Length:", response.lines[j]) => k.has_content_length)
            => (\A j \in response.final + 1 .. i :
                  is_header_present("Content-Length:", response.lines[j])
                    => k.has_content_length)
      BY <1>1, <1>3, Zenon
    <2>4. QED
      BY <1>1, <2>1, <2>2, <2>3, Zenon DEF KnowsFraming
  <1>5. QED
    BY <1>1, <1>4, Zenon DEF HeadKnown

\* A line read from k to l: it can't be, or what it says is known.
FramedOn(l, k, s, i) ==
    \/ l = Fails(k, "INVALID_RESPONSE")
    \/ /\ HeadKnown(l, s, i + 1) /\ l.state = k.state
       /\ l.resp_header_buff = k.resp_header_buff /\ l.body_received = k.body_received

\* What a line that khc reads whole says of the body is known after it.
LEMMA FramedKnown ==
    ASSUME Readable, NEW s, NEW i \in 1 .. LineCount - 1, NEW k, HeadKnown(k, s, i), s <= i,
           response.lines[i] # <<>>, DOMAIN k = Fields, NEW l, l = Framed(k, response.lines[i])
    PROVE  FramedOn(l, k, s, i)
  <1> SUFFICES \/ l = Fails(k, "INVALID_RESPONSE")
               \/ /\ HeadKnown(l, s, i + 1) /\ l.state = k.state
                  /\ l.resp_header_buff = k.resp_header_buff
                  /\ l.body_received = k.body_received
    BY Zenon DEF FramedOn
  <1> DEFINE line == response.lines[i]
             length == read_content_length(line)
             chunks == [k EXCEPT !.chunked = TRUE]
             plain == [k EXCEPT !.content_length = length, !.has_content_length = TRUE]
             Header(name) == is_header_present(name, line)
             Kept2 == /\ l.status = k.status /\ l.state = k.state
                      /\ l.resp_header_buff = k.resp_header_buff
                      /\ l.body_received = k.body_received
  <1>1. /\ Knows(k, s, i + 1) /\ (i + 1) - 1 = i /\ s \in Nat /\ i \in Nat
        /\ \A j \in response.final + 1 .. i : j \in response.final + 1 .. i - 1 \/ j = i
        /\ \A j \in response.final + 1 .. i - 1 : j \in response.final + 1 .. i
        /\ s = response.final => (i \in response.final + 1 .. i <=> i # s)
        /\ i = s => is_status_line(line)
    BY OneMoreLine, Zenon
  <1>2. Header("Content-Length:") => ~Header("Transfer-Encoding:")
    <2>1. "Content-Length:" # "Transfer-Encoding:"
      OBVIOUS
    <2>2. QED
      BY <2>1, Zenon DEF is_header_present
  <1>3. is_chunked_encoding(line) \in {"chunked", "invalid"} => Header("Transfer-Encoding:")
    <2>1. "other" \notin {"chunked", "invalid"}
      OBVIOUS
    <2>2. QED
      BY <2>1, Zenon DEF is_chunked_encoding
  <1>4. Needed(line) => i # s
    BY <1>1, StatusIsNotNeeded
  <1>5. Knows(k, s, i + 1) => \A m : m.status = k.status => Knows(m, s, i + 1)
    BY Zenon DEF Knows
  <1>6. CASE is_chunked_encoding(line) = "chunked"
    <2>1. l = chunks
      <3>1. "chunked" # "invalid" /\ ~Header("Content-Length:")
        BY <1>2, <1>3, <1>6
      <3>2. is_chunked_encoding(line) # "invalid"
        BY <1>6, <3>1
      <3>3. QED
        BY <1>6, <3>1, <3>2, Zenon DEF Framed
    <2>2. Kept2 /\ l.chunked = TRUE /\ l.content_length = k.content_length
          /\ l.has_content_length = k.has_content_length
      BY <2>1, BodyFieldNames DEF BodyFields
    <2>3. ~Header("Content-Length:")
      BY <1>2, <1>3, <1>6, Zenon
    <2>4. ASSUME s = response.final PROVE KnowsFraming(l, i + 1)
      <3>1. KnowsFraming(k, i)
        BY <2>4, Zenon DEF HeadKnown
      <3>2. \E j \in response.final + 1 .. i :
              is_chunked_encoding(response.lines[j]) = "chunked"
        <4>1. Needed(line)
          BY <1>3, <1>6 DEF Needed
        <4>2. i \in response.final + 1 .. i
          BY <1>1, <1>4, <2>4, <4>1, Zenon
        <4>3. QED
          BY <1>6, <4>2
      <3>3. \A j \in response.final + 1 .. i :
              is_header_present("Content-Length:", response.lines[j]) => l.has_content_length
        BY <1>1, <2>2, <2>3, <3>1, Zenon DEF KnowsFraming
      <3>4. QED
        BY <1>1, <2>2, <3>1, <3>2, <3>3, Zenon DEF KnowsFraming
    <2>5. QED
      BY <1>1, <1>5, <2>2, <2>4, Zenon DEF HeadKnown
  <1>7. CASE is_chunked_encoding(line) = "invalid"
    <2>1. "chunked" # "invalid" /\ ~Header("Content-Length:")
      BY <1>2, <1>3, <1>7
    <2>2. is_chunked_encoding(line) # "chunked"
      BY <1>7, <2>1
    <2>3. QED
      BY <1>7, <2>1, <2>2, Zenon DEF Framed
  <1>8. CASE is_chunked_encoding(line) \notin {"chunked", "invalid"} /\ Header("Content-Length:")
    <2>1. l = Fails(k, "INVALID_RESPONSE") \/ l = plain
      BY <1>8, Zenon DEF Framed
    <2>2. ASSUME l = plain
          PROVE  Kept2 /\ l.chunked = k.chunked /\ l.content_length = length
                 /\ l.has_content_length = TRUE
      BY <2>2, BodyFieldNames DEF BodyFields
    <2>3. ASSUME l = plain, s = response.final PROVE KnowsFraming(l, i + 1)
      <3>1. KnowsFraming(k, i)
        BY <2>3, Zenon DEF HeadKnown
      <3>2. (\E j \in response.final + 1 .. i - 1 :
                is_chunked_encoding(response.lines[j]) = "chunked")
              <=> (\E j \in response.final + 1 .. i :
                      is_chunked_encoding(response.lines[j]) = "chunked")
        BY <1>1, <1>8, Zenon
      <3>3. line \in LengthHeaders(response)
        <4>1. Needed(line)
          BY <1>8 DEF Needed
        <4>2. i \in response.final + 1 .. i
          BY <1>1, <1>4, <2>3, <4>1, Zenon
        <4>3. i \in response.final + 1 .. Len(response.lines)
          <5>1. response.final \in Nat /\ Len(response.lines) \in Nat
                /\ i \in 1 .. Len(response.lines)
            BY HeadPlaces, LineTypes
          <5> DEFINE f == response.final
                     m == Len(response.lines)
          <5>2. f \in Nat /\ m \in Nat /\ i \in 1 .. m /\ i \in f + 1 .. i
            BY <4>2, <5>1
          <5> HIDE DEF f, m
          <5>3. i \in f + 1 .. m
            BY <5>2
          <5>4. QED
            BY <5>3 DEF f, m
        <4>4. QED
          BY <1>8, <4>3 DEF LengthHeaders, FinalHeaders
      <3>4. QED
        BY <1>1, <2>2, <2>3, <3>1, <3>2, <3>3, Zenon DEF KnowsFraming
    <2>4. QED
      BY <1>1, <1>5, <2>1, <2>2, <2>3, Zenon DEF HeadKnown
  <1>9. CASE is_chunked_encoding(line) \notin {"chunked", "invalid"} /\ ~Header("Content-Length:")
    <2>1. l = k
      BY <1>9, Zenon DEF Framed
    <2>2. HeadKnown(k, s, i + 1)
      <3>1. ASSUME s = response.final PROVE KnowsFraming(k, i + 1)
        <4>1. KnowsFraming(k, i)
          BY <3>1, Zenon DEF HeadKnown
        <4>2. (\E j \in response.final + 1 .. i - 1 :
                  is_chunked_encoding(response.lines[j]) = "chunked")
                <=> (\E j \in response.final + 1 .. i :
                        is_chunked_encoding(response.lines[j]) = "chunked")
          BY <1>1, <1>9, Zenon
        <4>3. \A j \in response.final + 1 .. i :
                is_header_present("Content-Length:", response.lines[j]) => k.has_content_length
          BY <1>1, <1>9, <4>1, Zenon DEF KnowsFraming
        <4>4. QED
          BY <1>1, <4>1, <4>2, <4>3, Zenon DEF KnowsFraming
      <3>2. QED
        BY <1>1, <3>1, Zenon DEF HeadKnown
    <2>3. QED
      BY <2>1, <2>2
  <1>10. QED
    BY <1>6, <1>7, <1>8, <1>9, Zenon

\* A state in a header that is skipped.
LEMMA SkipReads ==
    ASSUME NEW k, NEW w, NEW b, k.state = "RESP_HEADER_SKIP", InHeader(k, w), NoneGiven(k, b)
    PROVE  Read(k, w, b)
  BY DEF Read, SendStates, ChunkSizeStates, ChunkBodyStates, ChunkStates

\* One with what was read with the headers.
LEMMA FragmentReads ==
    ASSUME NEW k, NEW w, NEW b, k.state = "RESP_BODY_FRAGMENT", PlainBody(k, b),
           b \o (k.resp_header_buff \o w) = response.rest
    PROVE  Read(k, w, b)
  BY DEF Read, SendStates, ChunkSizeStates, ChunkBodyStates, ChunkStates

\* One at the start of a chunk.
LEMMA ChunkSizeReads ==
    ASSUME NEW k, NEW w, NEW b, k.state \in ChunkSizeStates, ChunkStart(k, w, b),
           HasChunks(response),
           k.state = "RESP_BODY_READ_CHUNK_SIZE" => k.resp_header_buff = <<>>
    PROVE  Read(k, w, b)
  BY DEF Read, SendStates, ChunkSizeStates, ChunkBodyStates, ChunkStates

\* The empty line after an interim head is before another.
LEMMA NextHead ==
    ASSUME Readable, NEW s, NEW i \in 1 .. LineCount, NEW k, Knows(k, s, i), s <= i,
           LineAt(i) = <<>>, s # response.final
    PROVE  i + 1 \in 1 .. LineCount /\ StartsHead(response, i + 1)
  <1> DEFINE f == response.final
             n == LineCount - 1
  <1>1. n \in Nat /\ LineCount = n + 1
    BY LineTypes
  <1>2. /\ s \in 1 .. n /\ f \in 1 .. n /\ (s = 1 \/ response.lines[s - 1] = <<>>)
        /\ (f = 1 \/ response.lines[f - 1] = <<>>)
    <2>1. StartsHead(response, s) /\ StartsHead(response, f)
      BY ReadableResponse, Zenon DEF Knows, CanBeRead, HasHead
    <2>2. QED
      BY <2>1, HeadPlaces
  <1>3. \A j \in s .. i - 1 : response.lines[j] # <<>>
    BY DEF Knows
  <1>4. \A j \in f .. n : response.lines[j] # <<>>
    BY HeadPlaces
  <1> HIDE DEF f, n
  <1>5. s < f
    <2> SUFFICES ASSUME s > f PROVE FALSE
      BY <1>1, <1>2 DEF f
    <2>1. s - 1 \in f .. n /\ s # 1
      BY <1>1, <1>2
    <2>2. QED
      BY <1>2, <1>4, <2>1
  <1>6. i <= f - 1
    <2> SUFFICES ASSUME i > f - 1 PROVE FALSE
      BY <1>1, <1>2
    <2>1. f - 1 \in s .. i - 1 \/ f - 1 = i
      BY <1>1, <1>2, <1>5
    <2>2. f # 1
      BY <1>1, <1>2, <1>5
    <2>3. QED
      BY <1>1, <1>2, <1>3, <2>1, <2>2
  <1>7. i \in 1 .. n /\ i + 1 \in 1 .. n /\ (i + 1) - 1 = i /\ n \in Nat
    BY <1>1, <1>2, <1>6
  <1>8. response.lines[i] = <<>>
    BY <1>7, LineTypes DEF n
  <1>9. n = Len(response.lines)
    BY LineTypes DEF n
  <1>10. StartsHead(response, i + 1)
    BY <1>7, <1>8, <1>9, Zenon DEF StartsHead
  <1>11. QED
    BY <1>1, <1>7, <1>10

\* The headers that count are all known when they are over.
LEMMA FramingOver ==
    ASSUME Readable, NEW k, KnowsFraming(k, LineCount),
           ~(request.method = "HEAD" \/ StatusOf(response, response.final) \in {204, 304})
    PROVE  /\ k.chunked => HasChunks(response)
           /\ ~k.chunked /\ k.has_content_length =>
                /\ k.content_length \in 0 .. Len(response.rest)
                /\ response.body = SubSeq(response.rest, 1, k.content_length)
           /\ ~k.chunked /\ ~k.has_content_length =>
                response.body = response.rest /\ response.framing = "close"
                /\ k.content_length = 0
  <1>1. LineCount - 1 = Len(response.lines)
    BY LineTypes
  <1>2. k.chunked <=> IsChunked(response)
    BY <1>1, Zenon DEF KnowsFraming, IsChunked, FinalHeaders
  <1>3. LengthHeaders(response) # {} => k.has_content_length
    <2> SUFFICES ASSUME NEW line \in LengthHeaders(response) PROVE k.has_content_length
      OBVIOUS
    <2>1. line \in FinalHeaders(response) /\ is_header_present("Content-Length:", line)
      BY DEF LengthHeaders
    <2>2. PICK j \in response.final + 1 .. Len(response.lines) : line = response.lines[j]
      BY <2>1 DEF FinalHeaders
    <2>3. QED
      BY <1>1, <2>1, <2>2, Zenon DEF KnowsFraming
  <1>4. k.has_content_length =>
          \E line \in LengthHeaders(response) : k.content_length = read_content_length(line)
    BY Zenon DEF KnowsFraming
  <1>5. IF IsChunked(response) THEN HasChunks(response)
        ELSE IF LengthHeaders(response) # {} THEN HasLength(response)
        ELSE response.body = response.rest /\ response.framing = "close"
    BY ReadableResponse, Zenon DEF CanBeRead
  <1>6. ASSUME ~k.chunked, k.has_content_length
        PROVE  /\ k.content_length \in 0 .. Len(response.rest)
               /\ response.body = SubSeq(response.rest, 1, k.content_length)
    <2>1. HasLength(response)
      BY <1>2, <1>4, <1>5, <1>6, Zenon
    <2>2. QED
      BY <1>4, <1>6, <2>1, Zenon DEF HasLength
  <1>7. ~k.has_content_length => k.content_length = 0
    BY Zenon DEF KnowsFraming
  <1>8. QED
    BY <1>2, <1>3, <1>5, <1>6, <1>7, Zenon

\* The end of the headers.
LEMMA HeadersEndReads ==
    ASSUME Reading, NEW s \in 1 .. LineCount, NEW i \in 1 .. LineCount, s <= i,
           NEW k, DOMAIN k = Fields, HeadKnown(k, s, i), LineAt(i) = <<>>,
           k.resp_header_buff \o wire = FromLine(i + 1),
           k.resp_header_buff \in Seq(Characters), NoneGiven(k, body)
    PROVE  Read(HeadersEnd(k), wire, body)
  <1> DEFINE first == [k EXCEPT !.state = "RESP_BODY_PARSE_CHUNK_SIZE", !.stream_buff = <<>>]
             text == k.resp_header_buff \o wire
  <1>0. text \in Seq(Characters)
    <2>1. wire \in Seq(Characters)
      BY ReadingAt
    <2>2. QED
      BY <2>1, JoinedType, Zenon
  <1>1. Readable /\ wire \in Seq(Characters) /\ body = <<>> /\ k.body_received = 0
    BY ReadingAt DEF NoneGiven
  <1>2. Knows(k, s, i) /\ StartsHead(response, s) /\ is_status_line(response.lines[s])
        /\ k.status = StatusOf(response, s)
    BY Zenon DEF HeadKnown, Knows
  <1>3. s = response.final <=> k.status \notin 100 .. 199
    <2>1. s = response.final <=> StatusOf(response, s) \notin 100 .. 199
      BY <1>1, <1>2, HeadPlaces
    <2> DEFINE status == StatusOf(response, s)
               interim == 100 .. 199
    <2>2. k.status = status /\ (s = response.final <=> status \notin interim)
      BY <1>2, <2>1
    <2> HIDE DEF status, interim
    <2>3. s = response.final <=> k.status \notin interim
      BY <2>2
    <2>4. QED
      BY <2>3 DEF interim
  <1>4. CASE k.status \in 100 .. 199
    <2>1. i + 1 \in 1 .. LineCount /\ StartsHead(response, i + 1)
      BY <1>1, <1>2, <1>3, <1>4, NextHead
    <2>2. ASSUME NEW state, NEW l, l = Goto(k, state) PROVE l.state = state /\ AtHead(l, wire)
            /\ NoneGiven(l, body) /\ l.resp_header_buff = k.resp_header_buff
      <3>1. l.state = state /\ l.resp_header_buff = k.resp_header_buff /\ SameHead(l, k)
        BY <2>2, GotoKeeps
      <3>2. AtHead(l, wire)
        BY <2>1, <3>1, Zenon DEF AtHead
      <3>3. QED
        BY <1>1, <3>1, <3>2 DEF NoneGiven, SameHead
    <2>3. ASSUME find_crlf(k.resp_header_buff) = 0
          PROVE  Read(Goto(k, "RESP_STATUS_READ"), wire, body)
      <3> DEFINE l == Goto(k, "RESP_STATUS_READ")
      <3>1. l.state = "RESP_STATUS_READ" /\ AtHead(l, wire) /\ NoneGiven(l, body)
            /\ find_crlf(l.resp_header_buff) = 0
        BY <2>2, <2>3, Zenon
      <3> HIDE DEF l
      <3>2. Read(l, wire, body)
        BY <3>1, HeadReads
      <3>3. QED
        BY <3>2 DEF l
    <2>4. Read(Goto(k, "RESP_STATUS_PARSE"), wire, body)
      <3> DEFINE l == Goto(k, "RESP_STATUS_PARSE")
      <3>1. l.state = "RESP_STATUS_PARSE" /\ AtHead(l, wire) /\ NoneGiven(l, body)
        BY <2>2, Zenon
      <3> HIDE DEF l
      <3>2. Read(l, wire, body)
        BY <3>1, HeadReads
      <3>3. QED
        BY <3>2 DEF l
    <2>5. HeadersEnd(k) = Goto(k, IF find_crlf(k.resp_header_buff) # 0 THEN "RESP_STATUS_PARSE"
                                  ELSE "RESP_STATUS_READ")
      BY <1>4, Zenon DEF HeadersEnd
    <2>6. QED
      BY <2>3, <2>4, <2>5, Zenon
  <1>5. CASE k.status \notin 100 .. 199
    <2>1. s = response.final
      BY <1>3, <1>5
    <2>2. i = LineCount
      <3> SUFFICES ASSUME i # LineCount PROVE FALSE
        OBVIOUS
      <3>1. LineCount \in Nat /\ i \in 1 .. LineCount - 1 /\ response.lines[i] = <<>>
        BY <1>1, LineTypes
      <3>2. s \in Nat /\ i \in s .. LineCount - 1
        BY <3>1
      <3>3. QED
        BY <1>1, <2>1, <3>1, <3>2, HeadPlaces
    <2>3. KnowsFraming(k, LineCount)
      BY <2>1, <2>2, Zenon DEF HeadKnown
    <2>4. text = response.rest
      BY <1>1, <2>2, FromLineOn
    <2>5. Read(Fails(k, "INVALID_RESPONSE"), wire, body)
      <3>1. "INVALID_RESPONSE" # "OK"
        OBVIOUS
      <3>2. QED
        BY <3>1, FailsReads, Zenon
    <2>6. CASE request.method = "HEAD" \/ k.status \in {204, 304}
      <3> DEFINE l == Goto(k, "CLOSE")
      <3>1. HeadersEnd(k) = l
        BY <1>5, <2>6, Zenon DEF HeadersEnd
      <3>2. response.body = <<>>
        <4>1. request.method = "HEAD" \/ StatusOf(response, response.final) \in {204, 304}
          BY <1>2, <2>1, <2>6, Zenon
        <4>2. CanBeRead(request.method, response)
          BY <1>1, ReadableResponse
        <4>3. QED
          BY <4>1, <4>2, Zenon DEF CanBeRead
      <3>3. l.state = "CLOSE"
        BY GotoKeeps
      <3> HIDE DEF l
      <3>4. l.state \in {"CLOSE", "FINISHED"} /\ Complete(l, body)
        BY <1>1, <3>2, <3>3 DEF Complete
      <3>5. QED
        BY <3>1, <3>4, ClosedReads
    <2>7. CASE ~(request.method = "HEAD" \/ k.status \in {204, 304})
      <3>1. /\ k.chunked => HasChunks(response)
            /\ ~k.chunked /\ k.has_content_length =>
                 /\ k.content_length \in 0 .. Len(response.rest)
                 /\ response.body = SubSeq(response.rest, 1, k.content_length)
            /\ ~k.chunked /\ ~k.has_content_length =>
                 response.body = response.rest /\ response.framing = "close"
                 /\ k.content_length = 0
        BY <1>1, <1>2, <2>1, <2>3, <2>7, FramingOver, Zenon
      <3>2. CASE k.chunked
        <4>1. HeadersEnd(k) = Fails(k, "INVALID_RESPONSE") \/ HeadersEnd(k) = first
          BY <1>5, <2>7, <3>2, Zenon DEF HeadersEnd
        <4>2. first.state = "RESP_BODY_PARSE_CHUNK_SIZE" /\ first.stream_buff = <<>>
              /\ first.resp_header_buff = k.resp_header_buff
          BY BodyFieldNames DEF BodyFields
        <4>3. HasChunks(response)
          BY <3>1, <3>2
        <4> HIDE DEF first
        <4>4. ChunkStart(first, wire, body)
          <5>1. 1 \in 1 .. ChunkCount + 1 /\ 0 \in 0 .. ChunkCount /\ 1 - 1 = 0
            BY <1>1, <4>3, ChunkTypes
          <5>2. FromChunk(1) = response.rest /\ Flat(ChunkBodies, 0) = <<>>
            BY <1>1, <4>3, <5>1, FromChunkOn, BodiesOn
          <5> HIDE DEF text
          <5>4. <<>> \o text = text
            BY <1>0
          <5>5. first.stream_buff \o (first.resp_header_buff \o wire) = FromChunk(1)
            BY <2>4, <4>2, <5>2, <5>4, Zenon DEF text
          <5>6. body = Flat(ChunkBodies, 1 - 1)
            BY <1>1, <5>1, <5>2, Zenon
          <5>7. QED
            BY <5>1, <5>5, <5>6, Zenon DEF ChunkStart
        <4>5. Read(first, wire, body)
          <5>1. first.state \in ChunkSizeStates /\ first.state # "RESP_BODY_READ_CHUNK_SIZE"
            BY <4>2 DEF ChunkSizeStates
          <5>2. QED
            BY <4>3, <4>4, <5>1, ChunkSizeReads, Zenon
        <4>6. QED
          BY <2>5, <4>1, <4>5, Zenon
      <3>3. CASE ~k.chunked
        <4> DEFINE l == Goto(k, "RESP_BODY_FRAGMENT")
        <4>1. HeadersEnd(k) = l
          BY <1>5, <2>7, <3>3, Zenon DEF HeadersEnd
        <4>2. l.state = "RESP_BODY_FRAGMENT" /\ SameHead(l, k)
              /\ l.resp_header_buff = k.resp_header_buff
          BY GotoKeeps
        <4> HIDE DEF l
        <4>3. PlainBody(l, body)
          <5>1. l.body_received = Len(body) /\ l.body_received = 0
            BY <1>1, <4>2 DEF SameHead
          <5>2. l.has_content_length =>
                  /\ l.content_length \in 0 .. Len(response.rest)
                  /\ response.body = SubSeq(response.rest, 1, l.content_length)
            BY <3>1, <3>3, <4>2, Zenon DEF SameHead
          <5>3. l.has_content_length => l.body_received <= l.content_length
            BY <5>1, <5>2
          <5>4. ~l.has_content_length =>
                  response.body = response.rest /\ response.framing = "close"
                  /\ l.content_length = 0
            BY <3>1, <3>3, <4>2, Zenon DEF SameHead
          <5>5. QED
            BY <5>1, <5>2, <5>3, <5>4, Zenon DEF PlainBody
        <4>4. body \o (l.resp_header_buff \o wire) = response.rest
          <5> HIDE DEF text
          <5>2. <<>> \o text = text
            BY <1>0
          <5>3. QED
            BY <1>1, <2>4, <4>2, <5>2, Zenon DEF text
        <4>5. Read(l, wire, body)
          BY <4>2, <4>3, <4>4, FragmentReads
        <4>6. QED
          BY <4>1, <4>5
      <3>4. QED
        BY <3>2, <3>3
    <2>8. QED
      BY <2>6, <2>7
  <1>6. QED
    BY <1>4, <1>5

\* Two joined start with what the first does.
LEMMA HeadOfJoined ==
    ASSUME NEW S, NEW s \in Seq(S), NEW t \in Seq(S), s # <<>>
    PROVE  Head(s \o t) = Head(s) /\ s \o t # <<>>
  OBVIOUS

\* What is kept of a line and its end, and what comes after it: a part of the line, half of
\* its end or more.
Cuts(data, w, line, more) ==
    IF find_crlf(data) = 0 THEN InLine(data, w, line, more)
    ELSE Line(data) = line /\ AfterLine(data) \in Seq(Characters) /\ AfterLine(data) \o w = more

\* Where there is a line.
LEMMA CutLines ==
    ASSUME NEW data \in Seq(Characters), NEW w \in Seq(Characters), NEW line \in Seq(Characters),
           NEW more \in Seq(Characters), OneLine(line), data \o w = line \o (CRLF \o more)
    PROVE  Cuts(data, w, line, more)
  <1> USE EndsAreCharacters
  <1> HIDE DEF Characters
  <1>1. CASE find_crlf(data) = 0
    <2>1. InLine(data, w, line, more)
      BY <1>1, CutInLine, Zenon
    <2>2. QED
      BY <1>1, <2>1, Zenon DEF Cuts
  <1>2. CASE find_crlf(data) # 0
    <2>1. Line(data) = line /\ AfterLine(data) \in Seq(Characters) /\ AfterLine(data) \o w = more
      BY <1>2, CutLine
    <2>2. QED
      BY <1>2, <2>1, Zenon DEF Cuts
  <1>3. QED
    BY <1>1, <1>2

\* What is kept of a line that khc needs says so.
LEMMA NeededStart ==
    ASSUME NEW data \in Seq(Characters), NEW w \in Seq(Characters), NEW line \in Seq(Characters),
           NEW more \in Seq(Characters), OneLine(line), data \o w = line \o (CRLF \o more),
           find_crlf(data) = 0, data # <<>>, Needed(line)
    PROVE  Needed(data)
  <1> DEFINE cr == <<"CR">>
             left == Rest(line, Len(data))
  <1>1. line # <<>>
    BY DEF Needed, is_header_present
  <1>2. \/ Len(data) <= Len(line) /\ line = data \o left
        \/ data = line \o cr
    <2>1. Cuts(data, w, line, more)
      BY CutLines
    <2>2. QED
      BY <2>1, Zenon DEF Cuts, InLine
  <1>3. cr \in Seq(Characters)
    <2> HIDE DEF Characters
    <2>1. QED
      BY EndsAreCharacters
  <1> HIDE DEF cr
  <1>4. Head(data) = Head(line)
    <2>1. CASE data = line \o cr
      BY <1>1, <1>3, <2>1, HeadOfJoined
    <2>2. CASE Len(data) <= Len(line) /\ line = data \o left
      <3>1. left \in Seq(Characters)
        <4>1. Len(data) \in Nat
          OBVIOUS
        <4>2. QED
          BY <2>2, <4>1, RestType
      <3> HIDE DEF left
      <3>2. QED
        BY <2>2, <3>1, HeadOfJoined
    <2>3. QED
      BY <1>2, <2>1, <2>2
  <1>5. QED
    BY <1>4, Zenon DEF Needed, is_header_present

\* What starts a header isn't the empty line that ends them.
LEMMA HeaderStartIsMore ==
    ASSUME NEW data \in Seq(Characters), is_header_start(data)
    PROVE  data # <<>> /\ data # <<"CR">>
  <1>1. ~is_header_line(<<>>)
    BY DEF is_header_line
  <1>2. WithoutLastCR(<<>>) = <<>>
    BY DEF WithoutLastCR
  <1>3. WithoutLastCR(<<"CR">>) = <<>>
    <2> DEFINE cr == <<"CR">>
    <2>1. Last(cr) = "CR" /\ cr # <<>> /\ Front(cr) = <<>>
      BY DEF Last, Front
    <2> HIDE DEF cr
    <2>2. WithoutLastCR(cr) = <<>>
      BY <2>1, Zenon DEF WithoutLastCR
    <2>3. QED
      BY <2>2 DEF cr
  <1>4. QED
    BY <1>1, <1>2, <1>3, Zenon DEF is_header_start

\* RESP_HEADER_CALLBACK.
LEMMA RespHeaderCallbackReads == ASSUME Reading, RespHeaderCallback PROVE Reads
  <1> DEFINE buff == khc.resp_header_buff
             line == Line(buff)
             given == [khc EXCEPT !.status_line_given = TRUE, !.resp_header_buff = AfterLine(buff)]
             after == [khc EXCEPT !.resp_header_buff = AfterLine(buff)]
             skip == [khc EXCEPT !.state = "RESP_HEADER_SKIP", !.header_skipped = TRUE]
  <1>1. /\ Readable /\ BuffersInv /\ DOMAIN khc = Fields
        /\ buff \in Seq(Characters) /\ wire \in Seq(Characters)
    BY ReadingAt
  <1>2. khc.state = "RESP_HEADER_CALLBACK" /\ AtHeader(khc, wire) /\ NoneGiven(khc, body)
    BY DEF RespHeaderCallback, At, Reading, Read
  <1>3. PICK s \in 1 .. LineCount, i \in 1 .. LineCount :
          s <= i /\ HeadKnown(khc, s, i) /\ buff \o wire = FromLine(i)
    BY <1>2 DEF AtHeader
  <1> DEFINE text == LineAt(i)
             next == FromLine(i + 1)
  <1>4. /\ text \in Seq(Characters) /\ OneLine(text) /\ next \in Seq(Characters)
        /\ buff \o wire = text \o (CRLF \o next)
    BY <1>1, <1>3, LineTypes, FromLineOn
  <1>5. ASSUME NEW code, code # "OK", Then(Fails(khc, code)) PROVE Reads
    <2>1. Read(Fails(khc, code), wire, body)
      BY <1>1, <1>5, FailsReads
    <2>2. QED
      BY <1>5, <2>1, ThenReads
  <1>6. "INVALID_RESPONSE" # "OK" /\ "HEADER_CALLBACK" # "OK"
    OBVIOUS
  <1>7. ASSUME text # <<>>
        PROVE  /\ i \in 1 .. LineCount - 1 /\ response.lines[i] = text
               /\ LineCount \in Nat /\ i + 1 \in 1 .. LineCount /\ s <= i + 1
    <2>1. LineCount \in Nat /\ i # LineCount
      BY <1>1, <1>7, LineTypes
    <2>2. i \in 1 .. LineCount - 1
      BY <2>1
    <2>3. QED
      BY <1>1, <1>3, <2>1, <2>2, LineTypes
  <1>0. Cuts(buff, wire, text, next)
    <2> HIDE DEF text, next
    <2>1. QED
      BY <1>1, <1>4, CutLines
  <1>8. CASE find_crlf(buff) = 0
    <2>1. CASE Then(Goto(khc, "RESP_HEADER_READ"))
      <3> DEFINE l == Goto(khc, "RESP_HEADER_READ")
      <3>1. l.state = "RESP_HEADER_READ" /\ SameHead(l, khc) /\ l.resp_header_buff = buff
        BY <1>1, GotoKeeps
      <3> HIDE DEF l
      <3>2. HeadKnown(l, s, i)
        BY <1>3, <3>1, HeadStaysKnown
      <3>3. AtHeader(l, wire) /\ NoneGiven(l, body)
        BY <1>2, <1>3, <3>1, <3>2, Zenon DEF AtHeader, NoneGiven, SameHead
      <3>4. Read(l, wire, body)
        BY <3>1, <3>3, HeaderReads
      <3>5. QED
        BY <2>1, <3>4, ThenReads DEF l
    <2>2. CASE Then(Fails(khc, "INVALID_RESPONSE"))
      BY <1>5, <1>6, <2>2
    <2>3. CASE is_header_start(buff) /\ Then(skip)
      <3>1. buff # <<>> /\ buff # <<"CR">>
        BY <1>1, <2>3, HeaderStartIsMore
      <3>2. text # <<>>
        <4> SUFFICES ASSUME text = <<>> PROVE FALSE
          OBVIOUS
        <4>1. \/ Len(buff) <= Len(text)
              \/ buff = text \o <<"CR">>
          BY <1>8, <1>0, Zenon DEF Cuts, InLine
        <4>2. CASE Len(buff) <= Len(text)
          BY <1>1, <3>1, <4>2
        <4>3. CASE buff = text \o <<"CR">>
          BY <3>1, <4>3
        <4>4. QED
          BY <4>1, <4>2, <4>3
      <3>3. /\ skip.state = "RESP_HEADER_SKIP" /\ skip.resp_header_buff = buff
            /\ SameHead(skip, khc)
        BY <1>1, BodyFieldNames DEF SameHead, BodyFields
      <3> HIDE DEF skip
      <3>4. SkipsLine(skip, wire, i)
        <4>1. text = Rest(text, 0) /\ 0 \in 0 .. Len(text)
          BY <1>4 DEF Rest
        <4>2. text \in LeftOf(response.lines[i])
          BY <1>7, <3>2, <4>1, Zenon DEF LeftOf
        <4>3. Needed(response.lines[i]) => Needed(buff)
          BY <1>1, <1>4, <1>7, <1>8, <3>1, <3>2, NeededStart
        <4>4. QED
          BY <1>4, <1>8, <3>3, <4>2, <4>3, Zenon DEF SkipsLine
      <3>5. InHeader(skip, wire)
        <4>1. HeadKnown(skip, s, i)
          BY <1>3, <3>3, HeadStaysKnown
        <4>2. QED
          BY <1>3, <1>7, <3>2, <3>4, <4>1 DEF InHeader
      <3>6. NoneGiven(skip, body)
        BY <1>2, <3>3 DEF NoneGiven, SameHead
      <3>7. Read(skip, wire, body)
        BY <3>3, <3>5, <3>6, SkipReads
      <3>8. QED
        BY <2>3, <3>7, ThenReads
    <2>4. QED
      BY <1>8, <2>1, <2>2, <2>3, Zenon DEF RespHeaderCallback
  <1>9. CASE find_crlf(buff) # 0
    <2>1. line = text /\ AfterLine(buff) \in Seq(Characters) /\ AfterLine(buff) \o wire = next
      BY <1>9, <1>0, Zenon DEF Cuts
    <2>2. CASE line = <<>> /\ Then(HeadersEnd(after))
      <3>1. after.resp_header_buff = AfterLine(buff) /\ SameHead(after, khc)
            /\ DOMAIN after = Fields
        BY <1>1, BodyFieldNames DEF SameHead, BodyFields
      <3> HIDE DEF after
      <3>2. HeadKnown(after, s, i)
        BY <1>3, <3>1, HeadStaysKnown
      <3>3. NoneGiven(after, body)
        BY <1>2, <3>1 DEF NoneGiven, SameHead
      <3>4. Read(HeadersEnd(after), wire, body)
        BY <1>3, <2>1, <2>2, <3>1, <3>2, <3>3, HeadersEndReads
      <3>5. QED
        BY <2>2, <3>4, ThenReads
    <2>3. CASE Then(Fails(khc, "INVALID_RESPONSE")) \/ Then(Fails(khc, "HEADER_CALLBACK"))
      BY <1>5, <1>6, <2>3
    <2>4. CASE line # <<>> /\ Then(Framed(given, line))
      <3> DEFINE l == Framed(given, line)
      <3>1. /\ given.resp_header_buff = AfterLine(buff) /\ SameHead(given, khc)
            /\ DOMAIN given = Fields /\ given.state = "RESP_HEADER_CALLBACK"
        BY <1>1, <1>2, BodyFieldNames DEF SameHead, BodyFields
      <3>2. i \in 1 .. LineCount - 1 /\ response.lines[i] = line /\ response.lines[i] # <<>>
            /\ i + 1 \in 1 .. LineCount /\ s <= i + 1
        BY <1>7, <2>1, <2>4
      <3> HIDE DEF given
      <3>3. HeadKnown(given, s, i)
        BY <1>3, <3>1, HeadStaysKnown
      <3>4. NoneGiven(given, body)
        BY <1>2, <3>1 DEF NoneGiven, SameHead
      <3>5. l = Framed(given, response.lines[i])
        BY <3>2
      <3> HIDE DEF l
      <3>6. \/ l = Fails(given, "INVALID_RESPONSE")
            \/ /\ HeadKnown(l, s, i + 1) /\ l.state = given.state
               /\ l.resp_header_buff = given.resp_header_buff
               /\ l.body_received = given.body_received
        <4>1. s <= i /\ Readable /\ DOMAIN given = Fields
          BY <1>1, <1>3, <3>1
        <4>2. i \in 1 .. LineCount - 1 /\ response.lines[i] # <<>>
          BY <3>2
        <4>3. FramedOn(l, given, s, i)
          BY <3>3, <3>5, <4>1, <4>2, FramedKnown, Zenon
        <4>4. QED
          BY <4>3, Zenon DEF FramedOn
      <3>7. CASE l = Fails(given, "INVALID_RESPONSE")
        <4>1. Read(l, wire, body)
          BY <1>6, <3>1, <3>7, FailsReads
        <4>2. QED
          BY <2>4, <4>1, ThenReads DEF l
      <3>8. CASE /\ HeadKnown(l, s, i + 1) /\ l.state = given.state
                 /\ l.resp_header_buff = given.resp_header_buff
                 /\ l.body_received = given.body_received
        <4>1. AtHeader(l, wire)
          <5>1. l.resp_header_buff \o wire = FromLine(i + 1)
            BY <2>1, <3>1, <3>8
          <5>2. QED
            BY <1>3, <3>2, <3>8, <5>1, Zenon DEF AtHeader
        <4>2. NoneGiven(l, body)
          BY <3>4, <3>8 DEF NoneGiven
        <4>3. Read(l, wire, body)
          BY <3>1, <3>8, <4>1, <4>2, HeaderReads
        <4>4. QED
          BY <2>4, <4>3, ThenReads DEF l
      <3>9. QED
        BY <3>6, <3>7, <3>8
    <2>5. QED
      BY <1>9, <2>2, <2>3, <2>4, Zenon DEF RespHeaderCallback
  <1>10. QED
    BY <1>8, <1>9

\* What ends with one ends with it.
LEMMA OneAtEnd ==
    ASSUME NEW S, NEW s \in Seq(S), NEW t \in Seq(S), Len(t) = 1
    PROVE  (s \o t)[Len(s \o t)] = t[1]
  <1> DEFINE u == s \o t
             n == Len(s)
  <1>1. n \in Nat /\ Len(u) = n + 1
    <2>1. Len(u) = Len(s) + Len(t)
      BY JoinedType, Zenon
    <2>2. n \in Nat
      OBVIOUS
    <2>3. QED
      BY <2>1, <2>2
  <1>2. n + 1 \in 1 .. n + Len(t) /\ ~(n + 1 <= n) /\ (n + 1) - n = 1
    BY <1>1
  <1>3. u[n + 1] = t[(n + 1) - n]
    BY <1>1, <1>2
  <1> HIDE DEF u
  <1>4. u[Len(u)] = t[1]
    BY <1>1, <1>2, <1>3
  <1>5. QED
    BY <1>4 DEF u

\* What is left of a line of the response has none of the characters that end it.
LEMMA LeftType ==
    ASSUME Readable, NEW i \in 1 .. LineCount - 1, NEW left \in LeftOf(response.lines[i])
    PROVE  /\ left \in Seq(Characters) /\ OneLine(left)
           /\ \A j \in 1 .. Len(left) : left[j] # "LF"
           /\ \A n \in 0 .. Len(left) : Rest(left, n) \in LeftOf(response.lines[i])
           /\ <<>> \in LeftOf(response.lines[i])
  <1> DEFINE line == response.lines[i]
  <1>1. line \in Seq(Characters) /\ is_field_text(line)
    <2>1. LineCount \in Nat /\ LineAt(i) = line /\ is_field_text(line)
      BY LineTypes
    <2>2. i \in 1 .. LineCount
      BY <2>1
    <2>3. LineAt(i) \in Seq(Characters)
      BY <2>2, LineTypes
    <2>4. QED
      BY <2>1, <2>3
  <1>2. PICK m \in 0 .. Len(line) : left = Rest(line, m)
    BY DEF LeftOf
  <1>3. \A j \in 1 .. Len(line) : line[j] # "CR" /\ line[j] # "LF"
    <2>1. \A j \in 1 .. Len(line) : line[j] \in Range(line)
      BY DEF Range
    <2>2. "CR" \in Controls /\ "LF" \in Controls
      BY DEF Controls
    <2>3. QED
      BY <1>1, <2>1, <2>2 DEF is_field_text
  <1>4. LeftOf(line) = {Rest(line, n) : n \in 0 .. Len(line)}
    BY DEF LeftOf
  <1> HIDE DEF line
  <1>5. m \in Nat /\ m <= Len(line) /\ Len(line) \in Nat
    BY <1>1
  <1>6. /\ left \in Seq(Characters) /\ Len(left) = Len(line) - m
        /\ \A j \in 1 .. (Len(line) - m) : left[j] = line[m + j]
    BY <1>1, <1>2, <1>5, RestType
  <1>7. \A j \in 1 .. Len(left) : left[j] # "CR" /\ left[j] # "LF"
    <2> TAKE j \in 1 .. Len(left)
    <2>1. j \in 1 .. (Len(line) - m) /\ m + j \in 1 .. Len(line)
      BY <1>5, <1>6
    <2>2. QED
      BY <1>3, <1>6, <2>1
  <1>8. ASSUME NEW n \in 0 .. Len(left) PROVE Rest(left, n) \in LeftOf(line)
    <2>1. n \in Nat /\ m + n <= Len(line) /\ m + n \in 0 .. Len(line)
      BY <1>5, <1>6
    <2>2. AddsUp(line, m, n)
      BY <1>1, <1>5, <2>1, RestTwice
    <2>3. Rest(left, n) = Rest(line, m + n)
      BY <1>2, <2>2, Zenon DEF AddsUp
    <2>4. QED
      BY <1>4, <2>1, <2>3
  <1>9. <<>> \in LeftOf(line)
    <2>1. Rest(line, Len(line)) = <<>> /\ Len(line) \in 0 .. Len(line)
      BY <1>1, <1>5 DEF Rest
    <2>2. QED
      BY <1>4, <2>1
  <1>10. QED
    BY <1>6, <1>7, <1>8, <1>9 DEF OneLine, line

\* Where the first CRLF is, there is one, and none in less than two.
LEMMA CrlfAt ==
    ASSUME NEW S, NEW data \in Seq(S)
    PROVE  /\ Len(data) <= 1 => find_crlf(data) = 0
           /\ find_crlf(data) # 0 => SubSeq(data, find_crlf(data), find_crlf(data) + 1) = CRLF
  <1> DEFINE ends == {i \in 1 .. Len(data) - 1 : SubSeq(data, i, i + 1) = CRLF}
             f == find_crlf(data)
  <1>1. f \in Nat /\ (f # 0 => f < Len(data)) /\ Len(data) \in Nat
    BY FindCrlf
  <1>2. f = IF ends = {} THEN 0 ELSE Min(ends)
    BY DEF find_crlf
  <1>3. ASSUME f # 0 PROVE SubSeq(data, f, f + 1) = CRLF
    <2>1. ends \in SUBSET Nat
      BY <1>1
    <2>2. ends # {} /\ f = Min(ends)
      BY <1>2, <1>3
    <2>3. \A i \in ends : SubSeq(data, i, i + 1) = CRLF
      OBVIOUS
    <2> HIDE DEF ends, f
    <2>4. f \in ends
      BY <2>1, <2>2, MinIsIn
    <2>5. QED
      BY <2>3, <2>4
  <1>4. Len(data) <= 1 => f = 0
    <2> HIDE DEF f
    <2>1. QED
      BY <1>1
  <1>5. QED
    BY <1>3, <1>4

\* The end of a header's value that is skipped.
Value(data) == IF find_crlf(data) # 0 THEN Line(data) ELSE WithoutLastCR(data)

\* A CR that isn't followed by LF is no value.
LEMMA StrayIsNoValue ==
    ASSUME NEW data \in Seq(Characters), data # <<>>, data[1] # "LF"
    PROVE  ~is_field_text(Value(<<"CR">> \o data))
  <1> DEFINE d == <<"CR">> \o data
             f == find_crlf(d)
             n == Len(d)
  <1>1. d \in Seq(Characters) /\ d[1] = "CR" /\ d[2] # "LF" /\ n \in Nat /\ n >= 2
    BY EndsAreCharacters
  <1> HIDE DEF d
  <1>2. CASE f # 0
    <2>1. f \in Nat /\ f < n /\ SubSeq(d, f, f + 1) = CRLF
      BY <1>1, <1>2, FindCrlf, CrlfAt
    <2>2. f # 1
      <3> SUFFICES ASSUME f = 1 PROVE FALSE
        OBVIOUS
      <3> DEFINE p == SubSeq(d, 1, 2)
      <3>1. p = CRLF
        BY <2>1
      <3>2. p[2] = d[2]
        BY <1>1
      <3> HIDE DEF p
      <3>3. p[2] = "LF"
        BY <3>1, CrlfType
      <3>4. QED
        BY <1>1, <3>2, <3>3
    <2> DEFINE v == SubSeq(d, 1, f - 1)
    <2>3. v \in Seq(Characters) /\ 1 \in 1 .. Len(v) /\ v[1] = "CR"
      BY <1>1, <1>2, <2>1, <2>2
    <2>4. Value(d) = v
      BY <1>2, Zenon DEF Value, Line
    <2> HIDE DEF v
    <2>5. QED
      BY <2>3, <2>4, CrInText DEF d
  <1>3. CASE f = 0
    <2> DEFINE v == WithoutLastCR(d)
    <2>1. v = d \/ v = SubSeq(d, 1, Len(d) - 1)
      BY <1>1 DEF WithoutLastCR, Front
    <2> HIDE DEF v
    <2>2. v \in Seq(Characters) /\ 1 \in 1 .. Len(v) /\ v[1] = "CR"
      <3>1. CASE v = d
        BY <1>1, <3>1
      <3>2. CASE v = SubSeq(d, 1, Len(d) - 1)
        BY <1>1, <3>2
      <3>3. QED
        BY <2>1, <3>1, <3>2
    <2>3. Value(d) = v
      BY <1>3, Zenon DEF Value, v
    <2>4. QED
      BY <2>2, <2>3, CrInText DEF d
  <1>4. QED
    BY <1>2, <1>3

\* Of what was kept there is more of the line, or a CR that isn't the line's.
Skipping(kept, w, i) ==
    \E left \in LeftOf(response.lines[i]) :
        \/ kept \o w = left \o (CRLF \o FromLine(i + 1))
        \/ kept = <<"CR">> /\ w = left \o (CRLF \o FromLine(i + 1))

\* So it is when all but a CR is thrown away.
LEMMA KeptSkips ==
    ASSUME Readable, NEW i \in 1 .. LineCount - 1, NEW w \in Seq(Characters),
           NEW k, NEW buff \in Seq(Characters), buff = k.resp_header_buff, SkipsLine(k, w, i),
           NEW last \in IF buff = <<>> THEN {"CR", "x"} ELSE {Last(buff)}
    PROVE  Skipping(Kept(last), w, i)
  <1> DEFINE next == FromLine(i + 1)
             tail == CRLF \o next
             cr == <<"CR">>
  <1>1. next \in Seq(Characters) /\ tail \in Seq(Characters) /\ cr \in Seq(Characters)
    <2>1. LineCount \in Nat
      BY LineTypes
    <2>2. i \in 1 .. LineCount
      BY <2>1
    <2>3. next \in Seq(Characters)
      BY <2>2, FromLineOn
    <2>4. tail \in Seq(Characters)
      BY <2>3, CrlfType, JoinedType, Zenon
    <2>5. cr \in Seq(Characters)
      <3> HIDE DEF Characters
      <3>1. QED
        BY EndsAreCharacters
    <2>6. QED
      BY <2>3, <2>4, <2>5
  <1>2. PICK left \in LeftOf(response.lines[i]) :
          \/ buff \o w = left \o tail /\ find_crlf(buff) = 0
          \/ buff = cr /\ w = left \o tail
    BY Zenon DEF SkipsLine
  <1>3. /\ left \in Seq(Characters) /\ OneLine(left)
        /\ \A n \in 0 .. Len(left) : Rest(left, n) \in LeftOf(response.lines[i])
        /\ <<>> \in LeftOf(response.lines[i])
    BY LeftType
  <1>4. Kept("CR") = cr /\ \A c : c # "CR" => Kept(c) = <<>>
    BY DEF Kept
  <1>5. <<>> \o w = w
    OBVIOUS
  <1> HIDE DEF cr
  <1>6. CASE buff = <<>>
    <2>1. "x" # "CR" /\ cr # <<>>
      BY DEF cr
    <2>2. w = left \o tail
      BY <1>2, <1>5, <1>6, <2>1
    <2>3. Kept(last) = cr \/ Kept(last) = <<>>
      BY <1>4
    <2>4. QED
      BY <1>5, <2>2, <2>3, Zenon DEF Skipping, cr
  <1>7. CASE buff # <<>> /\ buff = cr /\ w = left \o tail
    <2>1. last = "CR"
      BY <1>7 DEF Last, cr
    <2>2. QED
      BY <1>4, <1>7, <2>1, Zenon DEF Skipping, cr
  <1>8. CASE buff # <<>> /\ buff \o w = left \o tail /\ find_crlf(buff) = 0
    <2> DEFINE rest == Rest(left, Len(buff))
    <2>1. Cuts(buff, w, left, next)
      <3> HIDE DEF next
      <3>1. QED
        BY <1>1, <1>3, <1>8, CutLines
    <2>2. \/ Len(buff) <= Len(left) /\ left = buff \o rest /\ w = rest \o tail
          \/ buff = left \o cr /\ w = <<"LF">> \o next
      BY <1>8, <2>1, Zenon DEF Cuts, InLine, cr
    <2>3. last = buff[Len(buff)] /\ Len(buff) \in Nat /\ Len(buff) >= 1
      BY <1>8 DEF Last
    <2>4. CASE Len(buff) <= Len(left) /\ left = buff \o rest /\ w = rest \o tail
      <3>1. rest \in Seq(Characters) /\ rest \in LeftOf(response.lines[i])
        BY <1>3, <2>3, <2>4, RestType
      <3>2. left[Len(buff)] = last /\ Len(buff) \in 1 .. Len(left)
        <4>1. Len(buff) \in 1 .. Len(left)
          BY <1>3, <2>3, <2>4
        <4> HIDE DEF rest
        <4>2. (buff \o rest)[Len(buff)] = buff[Len(buff)]
          BY <2>3, <3>1
        <4>3. QED
          BY <2>3, <2>4, <4>1, <4>2
      <3>3. last # "CR"
        BY <1>3, <3>2 DEF OneLine
      <3>4. Kept(last) \o w = rest \o tail
        BY <1>4, <1>5, <2>4, <3>3, Zenon
      <3>5. QED
        BY <3>1, <3>4, Zenon DEF Skipping
    <2>5. CASE buff = left \o cr /\ w = <<"LF">> \o next
      <3>1. last = "CR"
        <4>1. Len(cr) = 1 /\ cr[1] = "CR"
          BY DEF cr
        <4>2. (left \o cr)[Len(left \o cr)] = "CR"
          BY <1>1, <1>3, <4>1, OneAtEnd
        <4>3. QED
          BY <2>3, <2>5, <4>2
      <3>2. Kept(last) \o w = <<>> \o tail
        <4> DEFINE lf == <<"LF">>
        <4>1. lf \in Seq(Characters)
          <5> HIDE DEF Characters
          <5>1. QED
            BY EndsAreCharacters
        <4>2. cr \o lf = CRLF
          BY EndsAreCharacters, Pair, Zenon DEF CRLF, cr
        <4> HIDE DEF lf
        <4>3. Groups(cr, lf, next)
          BY <1>1, <4>1, Associative
        <4>4. cr \o (lf \o next) = tail
          BY <4>2, <4>3, Zenon DEF Groups
        <4>5. <<>> \o tail = tail
          <5> HIDE DEF tail
          <5>1. QED
            BY <1>1
        <4>6. QED
          BY <1>4, <2>5, <3>1, <4>4, <4>5, Zenon DEF lf
      <3>3. QED
        BY <1>3, <3>2, Zenon DEF Skipping
    <2>6. QED
      BY <2>2, <2>4, <2>5
  <1>9. QED
    BY <1>2, <1>6, <1>7, <1>8

\* More of a line that is skipped, or its end.
LEMMA SkippedReads ==
    ASSUME Reading, khc.state = "RESP_HEADER_SKIP", NoneGiven(khc, body),
           NEW s \in 1 .. LineCount, NEW i \in 1 .. LineCount - 1, s <= i,
           response.lines[i] # <<>>, ~Needed(response.lines[i]), HeadKnown(khc, s, i),
           NEW kept \in Seq(Characters), Skipping(kept, wire, i),
           NEW data \in Seq(Characters), data # <<>>, NEW w \in Seq(Characters), wire = data \o w
    PROVE  Read(Skipped(kept, data), w, body)
  <1> DEFINE d == kept \o data
             next == FromLine(i + 1)
             tail == CRLF \o next
             k == [khc EXCEPT !.resp_header_buff = d]
             on == [k EXCEPT !.state = "RESP_HEADER_CALLBACK", !.resp_header_buff = AfterLine(@)]
  <1>1. Readable /\ DOMAIN khc = Fields /\ wire \in Seq(Characters)
    BY ReadingAt
  <1>2. d \in Seq(Characters)
    BY JoinedType, Zenon
  <1>3. LineCount \in Nat /\ i \in 1 .. LineCount /\ i + 1 \in 1 .. LineCount /\ s <= i + 1
    <2>1. LineCount \in Nat
      BY <1>1, LineTypes
    <2>2. QED
      BY <2>1
  <1>4. next \in Seq(Characters) /\ tail \in Seq(Characters)
    <2>1. next \in Seq(Characters)
      BY <1>1, <1>3, FromLineOn
    <2>2. tail \in Seq(Characters)
      BY <2>1, CrlfType, JoinedType, Zenon
    <2>3. QED
      BY <2>1, <2>2
  <1>5. /\ DOMAIN k = Fields /\ k.resp_header_buff = d /\ k.state = "RESP_HEADER_SKIP"
        /\ SameHead(k, khc)
    BY <1>1, BodyFieldNames DEF SameHead, BodyFields
  <1>6. /\ on.resp_header_buff = AfterLine(d) /\ on.state = "RESP_HEADER_CALLBACK"
        /\ SameHead(on, khc)
    BY <1>1, BodyFieldNames DEF SameHead, BodyFields
  <1>7. /\ ~is_field_text(Value(d)) => Skipped(kept, data) = Fails(k, "INVALID_RESPONSE")
        /\ Skipped(kept, data) \in
             {Fails(k, "INVALID_RESPONSE"), IF find_crlf(d) = 0 THEN k ELSE on}
    <2> HIDE DEF d, on
    <2>1. Skipped(kept, data) =
            IF ~is_field_text(Value(d)) THEN Fails(k, "INVALID_RESPONSE")
            ELSE IF find_crlf(d) = 0 THEN k
            ELSE [k EXCEPT !.state = "RESP_HEADER_CALLBACK", !.resp_header_buff = AfterLine(@)]
      <3>1. k = [khc EXCEPT !.resp_header_buff = kept \o data]
        BY DEF d
      <3> HIDE DEF k
      <3>2. QED
        BY <1>5, <3>1, Zenon DEF Skipped, Value
    <2>2. QED
      BY <2>1, Zenon DEF on
  <1>8. Read(Fails(k, "INVALID_RESPONSE"), w, body)
    <2>1. "INVALID_RESPONSE" # "OK"
      OBVIOUS
    <2> HIDE DEF k
    <2>2. QED
      BY <1>5, <2>1, FailsReads
  <1> HIDE DEF k, on, tail
  <1>9. PICK left \in LeftOf(response.lines[i]) :
          kept \o wire = left \o tail \/ (kept = <<"CR">> /\ wire = left \o tail)
    BY Zenon DEF Skipping, tail
  <1>10. /\ left \in Seq(Characters) /\ OneLine(left)
         /\ \A j \in 1 .. Len(left) : left[j] # "LF"
    BY <1>1, LeftType
  <1>11. CASE kept \o wire = left \o tail
    <2>1. d \o w = left \o tail
      <3>1. Groups(kept, data, w)
        BY Associative
      <3>2. QED
        BY <1>11, <3>1, Zenon DEF Groups
    <2> HIDE DEF d, next
    <2>2. Cuts(d, w, left, next)
      BY <1>2, <1>4, <1>10, <2>1, CutLines DEF tail
    <2>3. ASSUME find_crlf(d) = 0 PROVE Read(k, w, body)
      <3>1. SkipsLine(k, w, i)
        <4>1. k.resp_header_buff \o w = left \o (CRLF \o FromLine(i + 1))
              /\ find_crlf(k.resp_header_buff) = 0
          BY <1>5, <2>1, <2>3, Zenon DEF tail, next
        <4>2. QED
          BY <4>1, Zenon DEF SkipsLine
      <3>2. HeadKnown(k, s, i)
        BY <1>5, HeadStaysKnown
      <3>3. InHeader(k, w)
        BY <3>1, <3>2 DEF InHeader
      <3>4. NoneGiven(k, body)
        BY <1>5 DEF NoneGiven, SameHead
      <3>5. QED
        BY <1>5, <3>3, <3>4, SkipReads
    <2>4. ASSUME find_crlf(d) # 0 PROVE Read(on, w, body)
      <3>1. AfterLine(d) \o w = next
        BY <2>2, <2>4, Zenon DEF Cuts
      <3>2. HeadKnown(on, s, i)
        BY <1>6, HeadStaysKnown
      <3>3. HeadKnown(on, s, i + 1)
        BY <1>1, <3>2, UnneededKnown
      <3>4. AtHeader(on, w)
        BY <1>3, <1>6, <3>1, <3>3, Zenon DEF AtHeader, next
      <3>5. NoneGiven(on, body)
        BY <1>6 DEF NoneGiven, SameHead
      <3>6. QED
        BY <1>6, <3>4, <3>5, HeaderReads
    <2>5. QED
      BY <1>7, <1>8, <2>3, <2>4, Zenon
  <1>12. CASE kept = <<"CR">> /\ wire = left \o tail
    <2>1. data[1] # "LF"
      <3>1. data[1] = wire[1]
        <4>1. Len(data) \in Nat /\ Len(data) >= 1
          OBVIOUS
        <4>2. (data \o w)[1] = data[1]
          BY <4>1
        <4>3. QED
          BY <4>2
      <3>2. (left \o tail)[1] # "LF"
        <4>1. CASE left = <<>>
          <5>1. <<>> \o tail = tail
            BY <1>4
          <5>2. tail[1] = "CR"
            <6> DEFINE crlf == CRLF
            <6>1. crlf \in Seq(Characters) /\ Len(crlf) = 2 /\ crlf[1] = "CR"
              BY CrlfType
            <6> HIDE DEF crlf, next
            <6>2. (crlf \o next)[1] = crlf[1]
              <7>1. \A j \in 1 .. Len(crlf) : (crlf \o next)[j] = crlf[j]
                BY <1>4, <6>1, JoinedType, Zenon
              <7>2. 1 \in 1 .. Len(crlf)
                BY <6>1
              <7>3. QED
                BY <7>1, <7>2
            <6>3. QED
              BY <6>1, <6>2 DEF crlf, tail
          <5>3. QED
            BY <4>1, <5>1, <5>2
        <4>2. CASE left # <<>>
          <5>1. 1 \in 1 .. Len(left)
            BY <1>10, <4>2
          <5>2. (left \o tail)[1] = left[1]
            BY <1>4, <1>10, <5>1
          <5>3. QED
            BY <1>10, <5>1, <5>2
        <4>3. QED
          BY <4>1, <4>2
      <3>3. QED
        BY <1>12, <3>1, <3>2
    <2>2. ~is_field_text(Value(d))
      BY <1>12, <2>1, StrayIsNoValue
    <2>3. QED
      BY <1>7, <1>8, <2>2, Zenon
  <1>13. QED
    BY <1>9, <1>11, <1>12

\* RESP_HEADER_SKIP.
LEMMA RespHeaderSkipReads == ASSUME Reading, RespHeaderSkip PROVE Reads
  <1> DEFINE buff == khc.resp_header_buff
             K(kept) == [khc EXCEPT !.resp_header_buff = kept]
  <1>1. /\ Readable /\ BuffersInv /\ Buffers(khc) /\ DOMAIN khc = Fields
        /\ buff \in Seq(Characters) /\ wire \in Seq(Characters)
    BY ReadingAt
  <1>2. khc.state = "RESP_HEADER_SKIP" /\ InHeader(khc, wire) /\ NoneGiven(khc, body)
    BY DEF RespHeaderSkip, At, Reading, Read
  <1>3. PICK s \in 1 .. LineCount, i \in 1 .. LineCount - 1 :
          /\ s <= i /\ response.lines[i] # <<>>
          /\ HeadKnown(khc, s, i) /\ SkipsLine(khc, wire, i)
    BY <1>2 DEF InHeader
  <1>4. CASE Needed(buff)
    <2>1. Then(Fails(khc, "TOO_LARGE_DATA"))
      BY <1>4, Zenon DEF RespHeaderSkip, Needed
    <2>2. "TOO_LARGE_DATA" # "OK"
      OBVIOUS
    <2>3. Read(Fails(khc, "TOO_LARGE_DATA"), wire, body)
      BY <1>1, <2>2, FailsReads
    <2>4. QED
      BY <2>1, <2>3, ThenReads
  <1>5. CASE ~Needed(buff)
    <2>1. ~Needed(response.lines[i])
      BY <1>3, <1>5, Zenon DEF SkipsLine
    <2>2. PICK last \in IF buff = <<>> THEN {"CR", "x"} ELSE {Last(buff)} :
            /\ UNCHANGED body
            /\ \/ \E data \in Received(HeaderRoom(K(Kept(last)))) :
                    /\ khc' = Skipped(Kept(last), data)
                    /\ wire' = IF data = <<>> THEN <<>> ELSE SubSeq(wire, Len(data) + 1, Len(wire))
               \/ khc' = K(Kept(last)) /\ UNCHANGED wire
               \/ /\ khc' = [Fails(K(Kept(last)), "SOCK_RECV") EXCEPT !.sock_error = "failed"]
                  /\ UNCHANGED wire
      BY <1>5, Zenon DEF RespHeaderSkip, Needed, Recv
    <2> DEFINE kept == Kept(last)
               k == K(kept)
               room == HeaderRoom(k)
    <2>3. kept \in Seq(Characters) /\ kept \in Seq(Symbols) /\ Len(kept) <= 1 /\ Len(kept) \in Nat
      <3>1. \A S : "CR" \in S => <<"CR">> \in Seq(S) /\ Len(<<"CR">>) = 1
        OBVIOUS
      <3>2. \A S : <<>> \in Seq(S) /\ Len(<<>>) = 0
        OBVIOUS
      <3>3. "CR" \in Symbols
        BY DEF Symbols
      <3>4. kept \in {<<>>, <<"CR">>}
        BY DEF Kept
      <3> HIDE DEF Symbols, Characters, kept
      <3>5. 0 \in Nat /\ 1 \in Nat /\ 0 <= 1 /\ 1 <= 1
        OBVIOUS
      <3>6. QED
        BY <3>1, <3>2, <3>3, <3>4, <3>5, EndsAreCharacters, Zenon
    <2>4. Skipping(kept, wire, i)
      BY <1>1, <1>3, <2>2, KeptSkips
    <2>5. /\ k.resp_header_buff = kept /\ k.state = "RESP_HEADER_SKIP" /\ SameHead(k, khc)
          /\ DOMAIN k = Fields
      BY <1>1, <1>2, BodyFieldNames DEF SameHead, BodyFields
    <2>6. Buffers(k) /\ room \in Nat
      <3>1. Buffers(k)
        <4>1. exchange.header_size >= 2 /\ exchange.header_size \in Nat
          BY <1>1, <1>2, ExchangeType DEF Buffers, BuffersInv
        <4>2. Len(kept) < exchange.header_size
          BY <2>3, <4>1
        <4> HIDE DEF kept
        <4>3. QED
          BY <1>1, <2>3, <4>2, FieldNames DEF Buffers
      <3> HIDE DEF k
      <3>2. QED
        BY <1>1, <3>1, Rooms
    <2> HIDE DEF kept, k, K
    <2>7. Read(k, wire, body)
      <3>1. PICK left \in LeftOf(response.lines[i]) :
              \/ kept \o wire = left \o (CRLF \o FromLine(i + 1))
              \/ kept = <<"CR">> /\ wire = left \o (CRLF \o FromLine(i + 1))
        BY <2>4, Zenon DEF Skipping
      <3>2. find_crlf(kept) = 0
        BY <2>3, CrlfAt
      <3>3. SkipsLine(k, wire, i)
        BY <2>1, <2>5, <3>1, <3>2, Zenon DEF SkipsLine
      <3>4. HeadKnown(k, s, i)
        BY <1>3, <2>5, HeadStaysKnown
      <3>5. InHeader(k, wire)
        BY <1>3, <3>3, <3>4 DEF InHeader
      <3>6. NoneGiven(k, body)
        BY <1>2, <2>5 DEF NoneGiven, SameHead
      <3>7. QED
        BY <2>5, <3>5, <3>6, SkipReads
    <2>8. ASSUME NEW data \in Received(room), data # <<>>, NEW w,
                 w = SubSeq(wire, Len(data) + 1, Len(wire))
          PROVE  Read(Skipped(kept, data), w, body)
      <3>1. data \in Seq(Characters) /\ w \in Seq(Characters) /\ wire = data \o w
        BY <1>1, <2>6, <2>8, ReceivedStarts
      <3>2. QED
        BY <1>2, <1>3, <2>1, <2>3, <2>4, <2>8, <3>1, SkippedReads
    <2>9. Read(Skipped(kept, <<>>), <<>>, body)
      <3> DEFINE l == [khc EXCEPT !.resp_header_buff = kept \o <<>>]
      <3>1. Skipped(kept, <<>>) = ClosedEarly(l)
        BY Zenon DEF Skipped
      <3>2. DOMAIN l = Fields
        BY <1>1
      <3>3. "SOCK_RECV" # "OK"
        OBVIOUS
      <3> HIDE DEF l
      <3>4. QED
        BY <3>1, <3>2, <3>3, FailsReads
    <2>10. ReadsMore(k, room)
      <3>1. CASE khc' = k /\ UNCHANGED wire
        BY <3>1 DEF ReadsMore
      <3>2. CASE khc' = [Fails(k, "SOCK_RECV") EXCEPT !.sock_error = "failed"] /\ UNCHANGED wire
        BY <3>2 DEF ReadsMore
      <3>3. ASSUME NEW data \in Received(room), khc' = Skipped(kept, data),
                   wire' = IF data = <<>> THEN <<>> ELSE SubSeq(wire, Len(data) + 1, Len(wire))
            PROVE  ReadsMore(k, room)
        <4>1. CASE data = <<>>
          BY <2>9, <3>3, <4>1, Zenon DEF ReadsMore
        <4>2. CASE data # <<>>
          BY <2>8, <3>3, <4>2, Zenon DEF ReadsMore
        <4>3. QED
          BY <4>1, <4>2
      <3>4. QED
        BY <2>2, <3>1, <3>2, <3>3, Zenon DEF k, kept
    <2>11. QED
      BY <2>2, <2>6, <2>7, <2>10, RecvReads
  <1>6. QED
    BY <1>4, <1>5

-----------------------------------------------------------------------------
(* The body of a response that can be read: up to its length or the end.   *)

\* Part of data is given and the rest of it is left.
GivesPart(b, data, w, n) ==
    b \o (data \o w) = (b \o SubSeq(data, 1, n)) \o (Rest(data, n) \o w)

\* Together they are what they were.
LEMMA PartGiven ==
    ASSUME NEW S, NEW b \in Seq(S), NEW data \in Seq(S), NEW w \in Seq(S), NEW n \in Nat,
           n <= Len(data)
    PROVE  GivesPart(b, data, w, n)
  <1> DEFINE part == SubSeq(data, 1, n)
             left == Rest(data, n)
             more == left \o w
  <1>1. part \in Seq(S) /\ left \in Seq(S)
    BY RestType
  <1>2. part \o left = data
    BY CutInTwo, Zenon DEF CutAt
  <1> HIDE DEF part, left
  <1>3. more \in Seq(S)
    BY <1>1
  <1>4. Groups(part, left, w)
    BY <1>1, Associative
  <1>5. data \o w = part \o more
    BY <1>2, <1>4, Zenon DEF Groups
  <1> HIDE DEF more
  <1>6. Groups(b, part, more)
    BY <1>1, <1>3, Associative
  <1>7. QED
    BY <1>5, <1>6, Zenon DEF Groups, GivesPart, part, left, more

\* What the text starts with starts the body, and is it when it is as long.
LEMMA PartOfBody ==
    ASSUME NEW S, NEW all \in Seq(S), NEW c \in 0 .. Len(all), NEW b \in Seq(S), NEW t \in Seq(S),
           all = b \o t, Len(b) <= c
    PROVE  /\ Starts(b, SubSeq(all, 1, c))
           /\ Len(b) = c => b = SubSeq(all, 1, c)
  <1> DEFINE p == SubSeq(all, 1, c)
  <1>1. Len(b) \in Nat /\ Len(all) \in Nat /\ c \in Nat /\ c <= Len(all)
    OBVIOUS
  <1>2. p \in Seq(S) /\ Len(p) = c /\ \A i \in 1 .. c : p[i] = all[i]
    BY <1>1
  <1>3. \A i \in 1 .. Len(b) : all[i] = b[i]
    BY JoinedType, Zenon
  <1> HIDE DEF p
  <1>4. \A i \in 1 .. Len(b) : b[i] = p[i]
    <2> TAKE i \in 1 .. Len(b)
    <2>1. i \in 1 .. c
      BY <1>1
    <2>2. QED
      BY <1>2, <1>3, <2>1
  <1>5. Starts(b, p)
    BY <1>2, <1>4 DEF Starts, SameTo
  <1>6. Len(b) = c => b = p
    BY <1>2, <1>4, SameElements DEF SameTo
  <1>7. QED
    BY <1>5, <1>6 DEF p

\* Another state with the same framing has the same of the body.
LEMMA PlainStays ==
    ASSUME NEW k, NEW l, SameHead(l, k), NEW b, PlainBody(k, b)
    PROVE  PlainBody(l, b)
  BY Zenon DEF SameHead, PlainBody

\* A state that reads more of the body.
LEMMA BodyReadReads ==
    ASSUME NEW k, NEW w, NEW b, k.state = "RESP_BODY_READ", PlainBody(k, b), Incomplete(k),
           b \o w = response.rest
    PROVE  Read(k, w, b)
  BY DEF Read, SendStates, ChunkSizeStates, ChunkBodyStates, ChunkStates

\* One with what was read of it.
LEMMA BodyCallbackReads ==
    ASSUME NEW k, NEW w, NEW b, k.state = "RESP_BODY_CALLBACK", PlainBody(k, b),
           b \o (k.stream_buff \o w) = response.rest
    PROVE  Read(k, w, b)
  BY DEF Read, SendStates, ChunkSizeStates, ChunkBodyStates, ChunkStates

\* What the application takes goes on from there, and what it refuses fails.
LEMMA WritesReads ==
    ASSUME Reading, NEW data \in Seq(Characters), NEW k, Writes(data, k),
           NEW b, b = body \o data, Read(k, wire, b), Starts(b, response.body)
    PROVE  Reads
  <1>1. CASE khc' = k /\ body' = body \o data /\ UNCHANGED wire
    <2>1. b \in Seq(Characters)
      BY JoinedType, Zenon DEF Reading
    <2>2. QED
      BY <1>1, <2>1, Zenon DEF Reads
  <1>2. CASE Then(Fails(khc, "WRITE_CALLBACK"))
    <2>1. "WRITE_CALLBACK" # "OK"
      OBVIOUS
    <2>2. Read(Fails(khc, "WRITE_CALLBACK"), wire, body)
      BY <2>1, ReadingAt, FailsReads
    <2>3. QED
      BY <1>2, <2>2, ThenReads
  <1>3. QED
    BY <1>1, <1>2, Zenon DEF Writes

\* A part of the body is written, or all of it.
LEMMA WritesBodyReads ==
    ASSUME Reading, NEW data \in Seq(Characters), PlainBody(khc, body),
           body \o (data \o wire) = response.rest, WritesBody(data)
    PROVE  Reads
  <1> DEFINE rest == response.rest
             part == BodyPart(data)
             k == [khc EXCEPT !.body_received = @ + Len(part)]
             next == IF BodyComplete(k) THEN EndRespBody(k) ELSE Goto(k, "RESP_BODY_READ")
             b == body \o part
             c == khc.content_length
             r == khc.body_received
  <1>1. /\ DOMAIN khc = Fields /\ wire \in Seq(Characters) /\ body \in Seq(Characters)
        /\ rest \in Seq(Characters) /\ r = Len(body) /\ r \in Nat
    <2>1. Readable /\ DOMAIN khc = Fields /\ wire \in Seq(Characters) /\ body \in Seq(Characters)
      BY ReadingAt
    <2>2. rest \in Seq(Characters)
      BY <2>1, LineTypes
    <2>3. r = Len(body)
      BY DEF PlainBody
    <2>4. QED
      BY <2>1, <2>2, <2>3
  <1>2. /\ DOMAIN k = Fields /\ k.body_received = r + Len(part)
        /\ k.has_content_length = khc.has_content_length /\ k.content_length = c
    BY <1>1, BodyFieldNames DEF BodyFields
  <1>3. Writes(part, next)
    BY Zenon DEF WritesBody
  <1>4. ASSUME NEW n \in Nat, n <= Len(data), part = SubSeq(data, 1, n)
        PROVE  /\ b \in Seq(Characters) /\ Len(b) = r + n /\ Len(part) = n
               /\ part \in Seq(Characters) /\ Rest(data, n) \o wire \in Seq(Characters)
               /\ rest = b \o (Rest(data, n) \o wire)
    <2>1. GivesPart(body, data, wire, n)
      BY <1>1, <1>4, PartGiven
    <2>2. part \in Seq(Characters) /\ Len(part) = n /\ Rest(data, n) \in Seq(Characters)
      BY <1>4, RestType
    <2> HIDE DEF part
    <2>3. b \in Seq(Characters) /\ Len(b) = r + n
      <3>1. b \in Seq(Characters) /\ Len(b) = Len(body) + Len(part)
        BY <1>1, <2>2, JoinedType, Zenon
      <3>2. QED
        BY <1>1, <2>2, <3>1, Zenon
    <2>4. Rest(data, n) \o wire \in Seq(Characters)
      BY <1>1, <2>2, JoinedType, Zenon
    <2>5. rest = b \o (Rest(data, n) \o wire)
      BY <1>4, <2>1, Zenon DEF GivesPart
    <2>6. QED
      BY <2>2, <2>3, <2>4, <2>5
  <1>5. ASSUME NEW l, l = Goto(k, "RESP_BODY_READ")
        PROVE  l.state = "RESP_BODY_READ" /\ SameHead(l, k)
    <2> HIDE DEF k
    <2>1. QED
      BY <1>2, <1>5, GotoKeeps
  <1>6. ASSUME NEW l, l = Goto(k, "CLOSE"), b = response.body
        PROVE  Read(l, wire, b)
    <2> HIDE DEF k
    <2>1. l.state = "CLOSE"
      BY <1>2, <1>6, GotoKeeps
    <2>2. l.state \in {"CLOSE", "FINISHED"} /\ Complete(l, b)
      BY <1>6, <2>1 DEF Complete
    <2>3. QED
      BY <2>2, ClosedReads
  <1>7. Len(data) \in Nat /\ 0 \in Nat /\ 0 <= Len(data) /\ SubSeq(data, 1, Len(data)) = data
        /\ SubSeq(data, 1, 0) = <<>> /\ Rest(data, Len(data)) = <<>> /\ <<>> \o wire = wire
    BY <1>1 DEF Rest
  <1>8. CASE ~khc.has_content_length
    <2>1. response.body = rest /\ response.framing = "close" /\ c = 0
      BY <1>8, Zenon DEF PlainBody
    <2>2. part = data
      BY <1>8, Zenon DEF BodyPart
    <2>3. next = Goto(k, "RESP_BODY_READ")
      BY <1>2, <1>8, Zenon DEF BodyComplete
    <2>4. /\ b \in Seq(Characters) /\ Len(b) = r + Len(data)
          /\ part \in Seq(Characters) /\ rest = b \o wire
      <3>1. /\ b \in Seq(Characters) /\ Len(b) = r + Len(data) /\ part \in Seq(Characters)
            /\ rest = b \o (Rest(data, Len(data)) \o wire)
        <4>1. Len(data) <= Len(data) /\ part = SubSeq(data, 1, Len(data))
          BY <1>7, <2>2
        <4>2. QED
          BY <1>4, <1>7, <4>1
      <3>2. QED
        BY <1>7, <3>1
    <2> HIDE DEF k
    <2>5. PlainBody(k, b) /\ Incomplete(k)
      BY <1>2, <1>8, <2>1, <2>2, <2>4 DEF PlainBody, Incomplete
    <2>6. Starts(b, response.body)
      <3> HIDE DEF b
      <3>1. Starts(b, b \o wire)
        BY <1>1, <2>4, StartsJoined
      <3>2. QED
        BY <2>1, <2>4, <3>1, Zenon
    <2>7. Read(next, wire, b)
      <3>1. next.state = "RESP_BODY_READ" /\ SameHead(next, k)
        BY <1>5, <2>3
      <3> HIDE DEF next, b
      <3>2. PlainBody(next, b) /\ Incomplete(next)
        BY <2>5, <3>1, PlainStays DEF Incomplete, SameHead
      <3>3. QED
        BY <2>4, <3>1, <3>2, BodyReadReads
    <2> HIDE DEF part, next
    <2>8. QED
      BY <1>3, <2>4, <2>6, <2>7, WritesReads
  <1>9. CASE khc.has_content_length
    <2>1. /\ c \in 0 .. Len(rest) /\ response.body = SubSeq(rest, 1, c) /\ r <= c
          /\ c \in Nat
      <3>1. c \in 0 .. Len(rest) /\ response.body = SubSeq(rest, 1, c) /\ r <= c
        BY <1>9, Zenon DEF PlainBody
      <3>2. QED
        BY <3>1
    <2> DEFINE want == Min({Len(data), c - r})
               n == IF r >= c THEN 0 ELSE want
    <2>2. want \in Nat /\ want <= Len(data) /\ want <= c - r /\ want \in {Len(data), c - r}
      <3>1. c - r \in Nat
        BY <1>1, <2>1
      <3>2. want \in {Len(data), c - r}
        <4>1. {Len(data), c - r} \in SUBSET Nat /\ {Len(data), c - r} # {}
          BY <1>7, <3>1
        <4>2. QED
          BY <4>1, MinIsIn
      <3>3. QED
        BY <1>7, <3>1, <3>2, LesserOf
    <2>3. part = SubSeq(data, 1, n)
      <3>1. CASE r >= c
        <4>1. part = <<>>
          BY <1>9, <3>1, Zenon DEF BodyPart, BodyComplete
        <4>2. QED
          BY <1>7, <3>1, <4>1
      <3>2. CASE ~(r >= c)
        BY <1>9, <3>2, Zenon DEF BodyPart, BodyComplete
      <3>3. QED
        BY <3>1, <3>2
    <2> HIDE DEF want
    <2>4. n \in Nat /\ n <= Len(data) /\ r + n <= c /\ (r + n < c => n = Len(data))
      <3> HIDE DEF r, c
      <3>1. r \in Nat /\ Len(data) \in Nat
        BY <1>1, <1>7 DEF r
      <3>2. CASE r >= c
        BY <2>1, <3>1, <3>2
      <3>3. CASE ~(r >= c)
        <4>1. n = want
          BY <3>3
        <4> HIDE DEF n
        <4>2. QED
          BY <2>1, <2>2, <3>1, <3>3, <4>1
      <3>4. QED
        BY <3>2, <3>3
    <2> HIDE DEF n
    <2>5. /\ b \in Seq(Characters) /\ Len(b) = r + n /\ Len(part) = n
          /\ part \in Seq(Characters) /\ Rest(data, n) \o wire \in Seq(Characters)
          /\ rest = b \o (Rest(data, n) \o wire)
      BY <1>4, <2>3, <2>4
    <2>6. k.body_received = r + n
      BY <1>2, <2>5
    <2>7. Starts(b, response.body) /\ (r + n = c => b = response.body)
      <3> DEFINE t == Rest(data, n) \o wire
      <3>1. b \in Seq(Characters) /\ t \in Seq(Characters) /\ rest = b \o t /\ Len(b) <= c
        BY <2>4, <2>5
      <3>2. rest \in Seq(Characters)
        BY <1>1
      <3> HIDE DEF b, t, rest
      <3>3. Starts(b, SubSeq(rest, 1, c)) /\ (Len(b) = c => b = SubSeq(rest, 1, c))
        BY <2>1, <3>1, <3>2, PartOfBody
      <3>4. QED
        BY <2>1, <2>5, <3>3, Zenon
    <2>8. CASE r + n = c
      <3>1. ~(k.body_received < k.content_length) /\ k.body_received >= k.content_length
        BY <1>1, <1>2, <2>1, <2>4, <2>6, <2>8
      <3>2. next = Goto(k, "CLOSE")
        BY <1>2, <1>9, <3>1, Zenon DEF BodyComplete, EndRespBody
      <3>3. Read(next, wire, b)
        BY <1>6, <2>7, <2>8, <3>2
      <3> HIDE DEF part, next
      <3>4. QED
        BY <1>3, <2>5, <2>7, <3>3, WritesReads
    <2>9. CASE r + n # c
      <3>1. r + n < c /\ n = Len(data) /\ ~(k.body_received >= k.content_length)
        <4> DEFINE received == k.body_received
                   length == k.content_length
        <4>1. received = r + n /\ length = c /\ r \in Nat
          BY <1>1, <1>2, <2>6
        <4> HIDE DEF received, length, r, c
        <4>2. r + n < c /\ n = Len(data) /\ ~(received >= length)
          BY <2>1, <2>4, <2>9, <4>1
        <4>3. QED
          BY <4>2 DEF received, length, r, c
      <3>2. next = Goto(k, "RESP_BODY_READ")
        BY <3>1, Zenon DEF BodyComplete
      <3>3. rest = b \o wire
        BY <1>7, <2>5, <3>1
      <3>4. next.state = "RESP_BODY_READ" /\ SameHead(next, k)
        <4> HIDE DEF next
        <4>1. QED
          BY <1>5, <3>2
      <3> HIDE DEF k, next, b
      <3>5. PlainBody(k, b) /\ Incomplete(k)
        BY <1>2, <1>9, <2>1, <2>4, <2>5, <2>6, <3>1 DEF PlainBody, Incomplete
      <3>6. PlainBody(next, b) /\ Incomplete(next)
        BY <3>4, <3>5, PlainStays DEF Incomplete, SameHead
      <3>7. Read(next, wire, b)
        BY <3>3, <3>4, <3>6, BodyReadReads
      <3> HIDE DEF part
      <3>8. QED
        BY <1>3, <2>5, <2>7, <3>7, WritesReads DEF b
    <2>10. QED
      BY <2>8, <2>9
  <1>10. QED
    BY <1>8, <1>9

\* RESP_BODY_FRAGMENT.
LEMMA RespBodyFragmentReads == ASSUME Reading, RespBodyFragment PROVE Reads
  <1>1. PlainBody(khc, body) /\ body \o (khc.resp_header_buff \o wire) = response.rest
    BY DEF RespBodyFragment, At, Reading, Read
  <1>2. WritesBody(khc.resp_header_buff)
    BY DEF RespBodyFragment
  <1>3. QED
    BY <1>1, <1>2, ReadingAt, WritesBodyReads

\* RESP_BODY_CALLBACK.
LEMMA RespBodyCallbackReads == ASSUME Reading, RespBodyCallback PROVE Reads
  <1>1. PlainBody(khc, body) /\ body \o (khc.stream_buff \o wire) = response.rest
    BY DEF RespBodyCallback, At, Reading, Read
  <1>2. WritesBody(khc.stream_buff)
    BY DEF RespBodyCallback
  <1>3. QED
    BY <1>1, <1>2, ReadingAt, WritesBodyReads

\* RESP_BODY_READ.
LEMMA RespBodyReadReads == ASSUME Reading, RespBodyRead PROVE Reads
  <1> DEFINE K(data) == [khc EXCEPT !.stream_buff = data]
             room == exchange.stream_size
             Got(data) == IF data = <<>> THEN EndRespBody(K(data))
                          ELSE Goto(K(data), "RESP_BODY_CALLBACK")
  <1>1. /\ Readable /\ BuffersInv /\ Buffers(khc) /\ DOMAIN khc = Fields
        /\ wire \in Seq(Characters) /\ body \in Seq(Characters) /\ room \in Nat
    BY ReadingAt, ExchangeType DEF BuffersInv
  <1>2. /\ khc.state = "RESP_BODY_READ" /\ Read(khc, wire, body) /\ PlainBody(khc, body)
        /\ Incomplete(khc) /\ body \o wire = response.rest
    BY DEF RespBodyRead, At, Reading, Read
  <1>3. ASSUME NEW data, NEW k, k = K(data)
        PROVE  DOMAIN k = Fields /\ k.stream_buff = data /\ SameHead(k, khc)
    BY <1>1, <1>3, BodyFieldNames DEF SameHead, BodyFields
  <1>4. ASSUME NEW data \in Received(room), data # <<>>, NEW w,
               w = SubSeq(wire, Len(data) + 1, Len(wire))
        PROVE  Read(Goto(K(data), "RESP_BODY_CALLBACK"), w, body)
    <2> DEFINE k == K(data)
               l == Goto(k, "RESP_BODY_CALLBACK")
    <2>1. wire = data \o w
      BY <1>1, <1>4, ReceivedStarts
    <2>2. DOMAIN k = Fields /\ k.stream_buff = data /\ SameHead(k, khc)
      BY <1>3
    <2> HIDE DEF k
    <2>3. l.state = "RESP_BODY_CALLBACK" /\ l.stream_buff = data /\ SameHead(l, k)
      BY <2>2, GotoKeeps
    <2> HIDE DEF l
    <2>4. PlainBody(l, body)
      BY <1>2, <2>2, <2>3, PlainStays
    <2>5. body \o (l.stream_buff \o w) = response.rest
      BY <1>2, <2>1, <2>3, Zenon
    <2>6. Read(l, w, body)
      BY <2>3, <2>4, <2>5, BodyCallbackReads
    <2>7. QED
      BY <2>6 DEF l, k
  <1>5. Read(EndRespBody(K(<<>>)), <<>>, body)
    <2> DEFINE k == K(<<>>)
    <2>1. DOMAIN k = Fields /\ SameHead(k, khc)
      BY <1>3
    <2> HIDE DEF k
    <2>2. CASE khc.has_content_length
      <3>1. k.body_received < k.content_length
        BY <1>2, <2>1, <2>2 DEF Incomplete, SameHead
      <3>2. EndRespBody(k) = ClosedEarly(k)
        BY <3>1, Zenon DEF EndRespBody
      <3>3. "SOCK_RECV" # "OK"
        OBVIOUS
      <3>4. QED
        BY <2>1, <3>2, <3>3, FailsReads DEF k
    <2>3. CASE ~khc.has_content_length
      <3> DEFINE l == Goto(k, "CLOSE")
      <3>1. response.framing = "close" /\ khc.content_length = 0 /\ khc.body_received = Len(body)
        BY <1>2, <2>3, Zenon DEF PlainBody
      <3>2. ~(k.body_received < k.content_length)
        BY <1>1, <2>1, <3>1 DEF SameHead
      <3>3. EndRespBody(k) = l
        BY <3>2, Zenon DEF EndRespBody
      <3>4. l.state = "CLOSE"
        BY <2>1, GotoKeeps
      <3> HIDE DEF l
      <3>5. l.state \in {"CLOSE", "FINISHED"} /\ Complete(l, body)
        BY <3>1, <3>4 DEF Complete
      <3>6. QED
        BY <3>3, <3>5, ClosedReads DEF k
    <2>4. QED
      BY <2>2, <2>3
  <1>6. ReadsMore(khc, room)
    <2>1. CASE khc' = khc /\ UNCHANGED wire
      BY <2>1 DEF ReadsMore
    <2>2. CASE khc' = [Fails(khc, "SOCK_RECV") EXCEPT !.sock_error = "failed"] /\ UNCHANGED wire
      BY <2>2 DEF ReadsMore
    <2>3. ASSUME NEW data \in Received(room), khc' = Got(data),
                 wire' = IF data = <<>> THEN <<>> ELSE SubSeq(wire, Len(data) + 1, Len(wire))
          PROVE  ReadsMore(khc, room)
      <3> HIDE DEF K
      <3>1. CASE data = <<>>
        BY <1>5, <2>3, <3>1, Zenon DEF ReadsMore
      <3>2. CASE data # <<>>
        BY <1>4, <2>3, <3>2, Zenon DEF ReadsMore
      <3>3. QED
        BY <3>1, <3>2
    <2>4. QED
      BY <2>1, <2>2, <2>3, Zenon DEF RespBodyRead, Recv
  <1>7. UNCHANGED body
    BY DEF RespBodyRead, Recv
  <1>8. QED
    BY <1>1, <1>2, <1>6, <1>7, RecvReads

-----------------------------------------------------------------------------
(* The body of a response that can be read: in chunks.                     *)

\* What is to be read after a buffer, and with it.
TextFrom(k, w) == k.stream_buff \o (k.resp_header_buff \o w)

\* Another state with the same of the chunk.
SameChunk(l, k) == l.chunk_size = k.chunk_size /\ l.chunk_size_written = k.chunk_size_written

\* At the start of a chunk there is only the text.
LEMMA ChunkStartStays ==
    ASSUME NEW k, NEW w, NEW b, ChunkStart(k, w, b), NEW l, NEW v, TextFrom(l, v) = TextFrom(k, w)
    PROVE  ChunkStart(l, v, b)
  BY Zenon DEF ChunkStart, TextFrom

\* Nor at the end of one.
LEMMA ChunkEndStays ==
    ASSUME NEW k, NEW w, NEW b, ChunkEnd(k, w, b), NEW l, NEW v, TextFrom(l, v) = TextFrom(k, w)
    PROVE  ChunkEnd(l, v, b)
  BY Zenon DEF ChunkEnd, TextFrom

\* Inside one, there is also what has been written of it.
LEMMA ChunkInsideStays ==
    ASSUME NEW k, NEW text, NEW b, ChunkInside(k, text, b), NEW l, SameChunk(l, k),
           NEW also, also = text
    PROVE  ChunkInside(l, also, b)
  BY Zenon DEF ChunkInside, SameChunk

\* A state inside a chunk.
LEMMA ChunkBodyReads ==
    ASSUME NEW k, NEW w, NEW b, k.state \in ChunkBodyStates, HasChunks(response),
           ChunkInside(k, TextFrom(k, w), b)
    PROVE  Read(k, w, b)
  <1>1. ChunkInside(k, k.stream_buff \o (k.resp_header_buff \o w), b)
    BY DEF TextFrom
  <1>2. QED
    BY <1>1 DEF Read, SendStates, ChunkSizeStates, ChunkBodyStates, ChunkStates

\* One that reads more of it.
LEMMA ReadChunkBodyReads ==
    ASSUME NEW k, NEW w, NEW b, k.state = "RESP_BODY_READ_CHUNK_BODY", HasChunks(response),
           ChunkInside(k, w, b), k.resp_header_buff = <<>>
    PROVE  Read(k, w, b)
  BY DEF Read, SendStates, ChunkSizeStates, ChunkBodyStates, ChunkStates

\* One at the end of it.
LEMMA ChunkEndReads ==
    ASSUME NEW k, NEW w, NEW b, k.state = "RESP_BODY_SKIP_CHUNK_BODY_CRLF", HasChunks(response),
           ChunkEnd(k, w, b)
    PROVE  Read(k, w, b)
  BY DEF Read, SendStates, ChunkSizeStates, ChunkBodyStates, ChunkStates

\* And one after the last.
LEMMA TrailersReads ==
    ASSUME NEW k, NEW w, NEW b, k.state = "RESP_BODY_SKIP_TRAILERS", b = response.body
    PROVE  Read(k, w, b)
  BY DEF Read, SendStates, ChunkSizeStates, ChunkBodyStates, ChunkStates

\* Going on keeps what there is to be read.
LEMMA GotoText ==
    ASSUME NEW k, DOMAIN k = Fields, NEW state, NEW l, l = Goto(k, state), NEW w
    PROVE  l.state = state /\ SameChunk(l, k) /\ TextFrom(l, w) = TextFrom(k, w)
           /\ l.resp_header_buff = k.resp_header_buff
  <1>1. /\ l.state = state /\ l.resp_header_buff = k.resp_header_buff
        /\ l.stream_buff = k.stream_buff
        /\ l.chunk_size = k.chunk_size /\ l.chunk_size_written = k.chunk_size_written
    BY GotoKeeps
  <1>2. QED
    BY <1>1, Zenon DEF SameChunk, TextFrom

\* So does what moves from one buffer to the other.
LEMMA MovedText ==
    ASSUME Reading, NEW l, l = Moved(khc)
    PROVE  /\ DOMAIN l = Fields /\ l.state = khc.state /\ SameChunk(l, khc)
           /\ TextFrom(l, wire) = TextFrom(khc, wire)
  <1> DEFINE s == khc.stream_buff
             t == khc.resp_header_buff
             n == Min({StreamRoom(khc), Len(t)})
             a == s \o SubSeq(t, 1, n)
             b == SubSeq(t, n + 1, Len(t))
  <1>1. /\ BuffersInv /\ Buffers(khc) /\ DOMAIN khc = Fields
        /\ s \in Seq(Characters) /\ t \in Seq(Characters) /\ wire \in Seq(Characters)
    BY ReadingAt
  <1>2. n \in Nat /\ n <= Len(t)
    <2>1. StreamRoom(khc) \in Nat /\ Len(t) \in Nat
      BY <1>1, Rooms
    <2>2. QED
      BY <2>1, LesserOf
  <1> HIDE DEF n
  <1>3. l = [khc EXCEPT !.stream_buff = a, !.resp_header_buff = b]
    BY <1>1, BodyFieldNames DEF Moved, n, BodyFields
  <1> HIDE DEF a, b
  <1>4. /\ DOMAIN l = Fields /\ l.state = khc.state /\ SameChunk(l, khc)
        /\ l.stream_buff = a /\ l.resp_header_buff = b
    BY <1>1, <1>3, BodyFieldNames DEF SameChunk, BodyFields
  <1>5. GivesPart(s, t, wire, n)
    BY <1>1, <1>2, PartGiven
  <1>6. TextFrom(l, wire) = TextFrom(khc, wire)
    BY <1>4, <1>5, Zenon DEF GivesPart, TextFrom, Rest, a, b
  <1>7. QED
    BY <1>4, <1>6

\* READ_CHUNK_SIZE_FROM_HEADER_BUFF.
LEMMA ReadChunkSizeFromHeaderBuffReads ==
    ASSUME Reading, ReadChunkSizeFromHeaderBuff
    PROVE  Reads
  <1> DEFINE k == Moved(khc)
             l == Goto(k, "RESP_BODY_PARSE_CHUNK_SIZE")
  <1>1. ChunkStart(khc, wire, body) /\ HasChunks(response)
    BY DEF ReadChunkSizeFromHeaderBuff, At, Reading, Read, ChunkSizeStates, ChunkStates
  <1>2. Then(Fails(khc, "TOO_LARGE_DATA")) \/ Then(l)
    BY Zenon DEF ReadChunkSizeFromHeaderBuff, MovedTo
  <1>3. DOMAIN k = Fields /\ TextFrom(k, wire) = TextFrom(khc, wire)
    BY MovedText
  <1> HIDE DEF k
  <1>4. l.state = "RESP_BODY_PARSE_CHUNK_SIZE" /\ TextFrom(l, wire) = TextFrom(k, wire)
    BY <1>3, GotoText
  <1> HIDE DEF l
  <1>5. ChunkStart(l, wire, body)
    BY <1>1, <1>3, <1>4, ChunkStartStays
  <1>6. l.state \in ChunkSizeStates /\ l.state # "RESP_BODY_READ_CHUNK_SIZE"
    BY <1>4 DEF ChunkSizeStates
  <1>7. Read(l, wire, body)
    BY <1>1, <1>5, <1>6, ChunkSizeReads
  <1>8. "TOO_LARGE_DATA" # "OK"
    OBVIOUS
  <1>9. Read(Fails(khc, "TOO_LARGE_DATA"), wire, body)
    BY <1>8, ReadingAt, FailsReads
  <1>10. QED
    BY <1>2, <1>7, <1>9, ThenReads

\* READ_CHUNK_BODY_FROM_HEADER_BUFF.
LEMMA ReadChunkBodyFromHeaderBuffReads ==
    ASSUME Reading, ReadChunkBodyFromHeaderBuff
    PROVE  Reads
  <1> DEFINE k == Moved(khc)
             l == Goto(k, "RESP_BODY_PARSE_CHUNK_BODY")
  <1>1. ChunkInside(khc, TextFrom(khc, wire), body) /\ HasChunks(response)
    BY DEF ReadChunkBodyFromHeaderBuff, At, Reading, Read, ChunkBodyStates, ChunkStates, TextFrom
  <1>2. Then(Fails(khc, "TOO_LARGE_DATA")) \/ Then(l)
    BY Zenon DEF ReadChunkBodyFromHeaderBuff, MovedTo
  <1>3. /\ DOMAIN k = Fields /\ TextFrom(k, wire) = TextFrom(khc, wire)
        /\ SameChunk(k, khc)
    BY MovedText
  <1> HIDE DEF k
  <1>4. /\ l.state = "RESP_BODY_PARSE_CHUNK_BODY" /\ TextFrom(l, wire) = TextFrom(k, wire)
        /\ SameChunk(l, k)
    BY <1>3, GotoText
  <1> HIDE DEF l
  <1>5. ChunkInside(l, TextFrom(l, wire), body)
    <2>1. SameChunk(l, khc)
      BY <1>3, <1>4 DEF SameChunk
    <2>2. TextFrom(l, wire) = TextFrom(khc, wire)
      BY <1>3, <1>4
    <2>3. QED
      BY <1>1, <2>1, <2>2, ChunkInsideStays
  <1>6. l.state \in ChunkBodyStates
    BY <1>4 DEF ChunkBodyStates
  <1>7. Read(l, wire, body)
    BY <1>1, <1>5, <1>6, ChunkBodyReads
  <1>8. "TOO_LARGE_DATA" # "OK"
    OBVIOUS
  <1>9. Read(Fails(khc, "TOO_LARGE_DATA"), wire, body)
    BY <1>8, ReadingAt, FailsReads
  <1>10. QED
    BY <1>2, <1>7, <1>9, ThenReads

\* RESP_BODY_PARSE_CHUNK_SIZE.
LEMMA RespBodyParseChunkSizeReads == ASSUME Reading, RespBodyParseChunkSize PROVE Reads
  <1> DEFINE buff == khc.stream_buff
             size == read_chunk_size(Line(buff))
             k == [khc EXCEPT !.chunk_size = size, !.chunk_size_written = 0,
                              !.stream_buff = AfterLine(@)]
             l == Goto(k, "RESP_BODY_PARSE_CHUNK_BODY")
             last == [k EXCEPT !.state = "RESP_BODY_SKIP_TRAILERS", !.trailer_end_matched = 2]
             more == khc.resp_header_buff \o wire
  <1>1. /\ Readable /\ DOMAIN khc = Fields /\ buff \in Seq(Characters)
        /\ khc.resp_header_buff \in Seq(Characters) /\ wire \in Seq(Characters)
    BY ReadingAt
  <1>2. ChunkStart(khc, wire, body) /\ HasChunks(response)
    BY DEF RespBodyParseChunkSize, At, Reading, Read, ChunkSizeStates, ChunkStates
  <1>3. more \in Seq(Characters)
    BY <1>1, JoinedType, Zenon
  <1>4. CASE find_crlf(buff) = 0
    <2>1. ASSUME NEW state \in {"READ_CHUNK_SIZE_FROM_HEADER_BUFF", "RESP_BODY_READ_CHUNK_SIZE"},
                 Then(Goto(khc, state)),
                 state = "RESP_BODY_READ_CHUNK_SIZE" => khc.resp_header_buff = <<>>
          PROVE  Reads
      <3> DEFINE m == Goto(khc, state)
      <3>1. m.state = state /\ TextFrom(m, wire) = TextFrom(khc, wire)
            /\ m.resp_header_buff = khc.resp_header_buff
        BY <1>1, GotoText
      <3> HIDE DEF m
      <3>2. ChunkStart(m, wire, body)
        BY <1>2, <3>1, ChunkStartStays
      <3>3. m.state \in ChunkSizeStates
            /\ (m.state = "RESP_BODY_READ_CHUNK_SIZE" => m.resp_header_buff = <<>>)
        BY <2>1, <3>1 DEF ChunkSizeStates
      <3>4. Read(m, wire, body)
        BY <1>2, <3>2, <3>3, ChunkSizeReads
      <3>5. QED
        BY <2>1, <3>4, ThenReads DEF m
    <2>2. CASE khc.resp_header_buff # <<>>
      <3>1. Then(Goto(khc, "READ_CHUNK_SIZE_FROM_HEADER_BUFF"))
        BY <1>4, <2>2, Zenon DEF RespBodyParseChunkSize
      <3>2. QED
        BY <2>1, <3>1
    <2>3. CASE khc.resp_header_buff = <<>>
      <3>1. Then(Goto(khc, "RESP_BODY_READ_CHUNK_SIZE"))
        BY <1>4, <2>3, Zenon DEF RespBodyParseChunkSize
      <3>2. QED
        BY <2>1, <2>3, <3>1
    <2>4. QED
      BY <2>2, <2>3
  <1>5. CASE find_crlf(buff) # 0
    <2>1. PICK j \in 1 .. ChunkCount + 1 :
            buff \o more = FromChunk(j) /\ body = Flat(ChunkBodies, j - 1)
      BY <1>2, Zenon DEF ChunkStart
    <2>2. ChunkCount \in Nat
      BY <1>1, <1>2, ChunkTypes
    <2>3. /\ Then(Fails(khc, "INVALID_RESPONSE"))
             \/ (size > 0 /\ Then(l)) \/ (~(size > 0) /\ Then(last))
      BY <1>5, Zenon DEF RespBodyParseChunkSize
    <2>4. ASSUME Then(Fails(khc, "INVALID_RESPONSE")) PROVE Reads
      <3>1. "INVALID_RESPONSE" # "OK"
        OBVIOUS
      <3>2. Read(Fails(khc, "INVALID_RESPONSE"), wire, body)
        BY <1>1, <3>1, FailsReads
      <3>3. QED
        BY <2>4, <3>2, ThenReads
    <2>5. /\ DOMAIN k = Fields /\ k.chunk_size = size /\ k.chunk_size_written = 0
          /\ k.stream_buff = AfterLine(buff) /\ k.resp_header_buff = khc.resp_header_buff
      <3> HIDE DEF size
      <3>1. QED
        BY <1>1, BodyFieldNames DEF BodyFields
    <2>6. last.state = "RESP_BODY_SKIP_TRAILERS"
      <3> HIDE DEF k
      <3>1. QED
        BY <2>5, BodyFieldNames DEF BodyFields
    <2> HIDE DEF k, more, last
    <2>7. l.state = "RESP_BODY_PARSE_CHUNK_BODY" /\ SameChunk(l, k)
          /\ TextFrom(l, wire) = TextFrom(k, wire)
      BY <2>5, GotoText
    <2> HIDE DEF l
    <2>8. CASE j \in 1 .. ChunkCount
      <3> DEFINE c == ChunkAt(j)
                 next == FromChunk(j + 1)
                 tail == CRLF \o next
                 after == c.data \o tail
      <3>1. /\ c.size \in Seq(Characters) /\ OneLine(c.size)
            /\ c.data \in Seq(Characters) /\ c.data # <<>>
            /\ read_chunk_size(c.size) = Len(c.data)
        BY <1>1, <1>2, <2>8, ChunkTypes
      <3>2. /\ j + 1 \in 1 .. ChunkCount + 1 /\ j <= ChunkCount /\ j - 1 \in 0 .. ChunkCount
        BY <2>2, <2>8
      <3>3. next \in Seq(Characters) /\ FromChunk(j) = ChunkIs(c, next)
        BY <1>1, <1>2, <2>1, <3>2, FromChunkOn
      <3>4. tail \in Seq(Characters)
        BY <3>3, CrlfType, JoinedType, Zenon
      <3>5. after \in Seq(Characters)
        BY <3>1, <3>4, JoinedType, Zenon
      <3>6. buff \o more = c.size \o (CRLF \o after)
        BY <2>1, <3>3, Zenon DEF ChunkIs
      <3> HIDE DEF c, next, tail, after
      <3>7. Cuts(buff, more, c.size, after)
        BY <1>1, <1>3, <3>1, <3>5, <3>6, CutLines
      <3>8. Line(buff) = c.size /\ AfterLine(buff) \o more = after
        BY <1>5, <3>7, Zenon DEF Cuts
      <3>9. size = Len(c.data) /\ Len(c.data) \in Nat /\ Len(c.data) > 0
        BY <3>1, <3>8
      <3>10. Then(l) \/ Reads
        <4>1. size > 0
          BY <3>9
        <4> HIDE DEF size
        <4>2. QED
          BY <2>3, <2>4, <4>1, Zenon
      <3>11. ChunkInside(l, TextFrom(l, wire), body)
        <4>1. l.chunk_size = Len(c.data) /\ l.chunk_size_written = 0
          BY <2>5, <2>7, <3>9 DEF SameChunk
        <4>2. TextFrom(l, wire) = Rest(c.data, l.chunk_size_written) \o tail
          <5>1. TextFrom(l, wire) = after
            BY <2>5, <2>7, <3>8, Zenon DEF TextFrom, more
          <5>2. Rest(c.data, 0) = c.data
            BY <3>1 DEF Rest
          <5>3. QED
            BY <4>1, <5>1, <5>2, Zenon DEF after
        <4>3. body = Flat(ChunkBodies, j - 1) \o SubSeq(c.data, 1, l.chunk_size_written)
          <5>1. SubSeq(c.data, 1, 0) = <<>>
            BY <3>1
          <5>2. body \o <<>> = body
            BY DEF Reading
          <5>3. QED
            BY <2>1, <4>1, <5>1, <5>2, Zenon
        <4>4. l.chunk_size_written \in 0 .. l.chunk_size
          BY <3>9, <4>1
        <4>5. QED
          BY <2>8, <4>1, <4>2, <4>3, <4>4, Zenon DEF ChunkInside, c, tail, next
      <3>12. Read(l, wire, body)
        <4>1. l.state \in ChunkBodyStates
          BY <2>7 DEF ChunkBodyStates
        <4>2. QED
          BY <1>2, <3>11, <4>1, ChunkBodyReads
      <3>13. QED
        BY <3>10, <3>12, ThenReads
    <2>9. CASE j = ChunkCount + 1
      <3> DEFINE line == response.last
                 after == response.trailers
      <3>1. /\ line \in Seq(Characters) /\ OneLine(line) /\ after \in Seq(Characters)
            /\ read_chunk_size(line) = 0
        BY <1>1, <1>2, ChunkTypes
      <3>2. buff \o more = line \o (CRLF \o after)
        BY <1>1, <1>2, <2>1, <2>9, FromChunkOn
      <3> HIDE DEF line, after
      <3>3. Cuts(buff, more, line, after)
        BY <1>1, <1>3, <3>1, <3>2, CutLines
      <3>4. size = 0
        BY <1>5, <3>1, <3>3, Zenon DEF Cuts
      <3>5. Then(last) \/ Reads
        <4>1. ~(size > 0)
          BY <3>4
        <4> HIDE DEF size
        <4>2. QED
          BY <2>3, <2>4, <4>1, Zenon
      <3>6. body = response.body
        <4>1. j - 1 = ChunkCount /\ ChunkCount \in 0 .. ChunkCount
          BY <2>2, <2>9
        <4>2. Flat(ChunkBodies, ChunkCount) = response.body
          BY <1>1, <1>2, <4>1, BodiesOn
        <4>3. QED
          BY <2>1, <4>1, <4>2
      <3>7. Read(last, wire, body)
        BY <2>6, <3>6, TrailersReads
      <3>8. QED
        BY <3>5, <3>7, ThenReads
    <2>10. QED
      BY <2>1, <2>2, <2>8, <2>9
  <1>6. QED
    BY <1>4, <1>5

\* Some of what is left of d is taken from a, the rest of which goes on with b.
TakesPart(a, b, d, e, m, n) ==
    /\ SubSeq(d, 1, m) \o SubSeq(a, 1, n) = SubSeq(d, 1, m + n)
    /\ Rest(a, n) \o b = Rest(d, m + n) \o e

\* What is taken is the next of d.
LEMMA PartTaken ==
    ASSUME NEW S, NEW a \in Seq(S), NEW b \in Seq(S), NEW d \in Seq(S), NEW e \in Seq(S),
           NEW m \in Nat, NEW n \in Nat, m + n <= Len(d), n <= Len(a),
           a \o b = Rest(d, m) \o e
    PROVE  TakesPart(a, b, d, e, m, n)
  <1> DEFINE c == Rest(d, m)
             p == SubSeq(a, 1, n)
             q == SubSeq(d, m + 1, m + n)
  <1>1. /\ m <= Len(d) /\ Len(d) \in Nat /\ Len(a) \in Nat /\ n <= Len(d) - m
        /\ m + n \in Nat /\ m <= m + n
    OBVIOUS
  <1>2. c \in Seq(S) /\ Len(c) = Len(d) - m /\ \A i \in 1 .. (Len(d) - m) : c[i] = d[m + i]
    BY <1>1, RestType
  <1> HIDE DEF c
  <1>3. a \o b = c \o e
    BY Zenon DEF c
  <1>4. LeavesBoth(a, b, n) /\ LeavesBoth(c, e, n)
    <2>1. n <= Len(c)
      BY <1>1, <1>2
    <2>2. QED
      BY <1>2, <2>1, RestJoined
  <1>5. AddsUp(d, m, n)
    BY RestTwice
  <1>6. Rest(a, n) \o b = Rest(d, m + n) \o e
    <2>1. Rest(a, n) \o b = Rest(c, n) \o e
      BY <1>3, <1>4, Zenon DEF LeavesBoth
    <2>2. Rest(c, n) = Rest(d, m + n)
      BY <1>5, Zenon DEF AddsUp, c
    <2>3. QED
      BY <2>1, <2>2, Zenon
  <1>7. p \in Seq(S) /\ Len(p) = n /\ \A i \in 1 .. n : p[i] = a[i]
    BY <1>1
  <1>8. q \in Seq(S) /\ Len(q) = n /\ \A i \in 1 .. n : q[i] = d[m + i]
    BY <1>1
  <1>9. \A i \in 1 .. n : a[i] = c[i]
    <2>1. \A i \in 1 .. Len(a) : (a \o b)[i] = a[i]
      BY JoinedType, Zenon
    <2>2. \A i \in 1 .. Len(c) : (c \o e)[i] = c[i]
      BY <1>2, JoinedType, Zenon
    <2>3. \A i \in 1 .. n : i \in 1 .. Len(a) /\ i \in 1 .. Len(c)
      BY <1>1, <1>2
    <2>4. QED
      BY <1>3, <2>1, <2>2, <2>3, Zenon
  <1>10. \A i \in 1 .. n : p[i] = q[i]
    <2>1. \A i \in 1 .. n : i \in 1 .. (Len(d) - m)
      BY <1>1
    <2>2. QED
      BY <1>2, <1>7, <1>8, <1>9, <2>1, Zenon
  <1> HIDE DEF p, q
  <1>11. p = q
    BY <1>7, <1>8, <1>10, SameElements DEF SameTo
  <1>12. MadeOfParts(d, m, m + n)
    BY <1>1, PartsJoined
  <1>13. QED
    BY <1>6, <1>11, <1>12, Zenon DEF MadeOfParts, TakesPart, p, q

\* The body with part of a chunk's data starts the body.
LEMMA ChunkBodyStarts ==
    ASSUME Readable, HasChunks(response), NEW j \in 1 .. ChunkCount,
           NEW n \in 0 .. Len(ChunkAt(j).data), NEW b,
           b = Flat(ChunkBodies, j - 1) \o SubSeq(ChunkAt(j).data, 1, n)
    PROVE  /\ Starts(b, response.body)
           /\ n = Len(ChunkAt(j).data) => b = Flat(ChunkBodies, j)
  <1> DEFINE f == Flat(ChunkBodies, j - 1)
             d == ChunkAt(j).data
             p == SubSeq(d, 1, n)
             all == Flat(ChunkBodies, j)
  <1>1. ChunkCount \in Nat /\ d \in Seq(Characters)
    BY ChunkTypes
  <1>2. j \in 0 .. ChunkCount /\ j - 1 \in 0 .. ChunkCount /\ j > 0
    BY <1>1
  <1>3. /\ f \in Seq(Characters) /\ all \in Seq(Characters) /\ response.body \in Seq(Characters)
        /\ Starts(all, response.body) /\ all = f \o d
    BY <1>2, BodiesOn
  <1> HIDE DEF d, f, all
  <1>4. n \in 0 .. Len(d) /\ b = f \o p
    BY Zenon DEF d, f
  <1>5. p \in Seq(Characters) /\ Starts(p, d)
    BY <1>1, <1>4, FirstPartType, StartsPart
  <1>6. Starts(f \o p, f \o d)
    BY <1>1, <1>3, <1>5, StartsAfter
  <1>7. b \in Seq(Characters)
    BY <1>3, <1>4, <1>5, JoinedType, Zenon
  <1>8. Starts(b, all)
    BY <1>3, <1>4, <1>6, Zenon
  <1>9. Starts(b, response.body)
    BY <1>3, <1>7, <1>8, StartsThrough
  <1>10. ASSUME n = Len(d) PROVE b = all
    <2>1. p = d
      BY <1>1, <1>10
    <2>2. QED
      BY <1>3, <1>4, <2>1, Zenon
  <1>11. QED
    BY <1>9, <1>10 DEF d, all

\* RESP_BODY_PARSE_CHUNK_BODY.
LEMMA RespBodyParseChunkBodyReads == ASSUME Reading, RespBodyParseChunkBody PROVE Reads
  <1> DEFINE buff == khc.stream_buff
             more == khc.resp_header_buff \o wire
             size == khc.chunk_size
             m == khc.chunk_size_written
             n == Min({size - m, Len(buff)})
             k == [khc EXCEPT !.chunk_size_written = @ + n, !.body_received = @ + n]
             data == SubSeq(buff, 1, n)
             b == body \o data
             ended == [k EXCEPT !.state = "RESP_BODY_SKIP_CHUNK_BODY_CRLF",
                                !.stream_buff = SubSeq(@, n + 1, Len(@))]
             again == [k EXCEPT !.state = "READ_CHUNK_BODY_FROM_HEADER_BUFF",
                                !.stream_buff = <<>>]
             reads_on == Goto(k, "RESP_BODY_READ_CHUNK_BODY")
             next == IF k.chunk_size = k.chunk_size_written THEN ended
                     ELSE IF k.resp_header_buff # <<>> THEN again ELSE reads_on
  <1>1. /\ Readable /\ DOMAIN khc = Fields /\ buff \in Seq(Characters)
        /\ khc.resp_header_buff \in Seq(Characters) /\ wire \in Seq(Characters)
        /\ body \in Seq(Characters)
    BY ReadingAt
  <1>2. ChunkInside(khc, buff \o more, body) /\ HasChunks(response)
    BY DEF RespBodyParseChunkBody, At, Reading, Read, ChunkBodyStates, ChunkStates
  <1>3. Writes(data, next)
    BY Zenon DEF RespBodyParseChunkBody
  <1>4. more \in Seq(Characters)
    BY <1>1, JoinedType, Zenon
  <1>5. PICK j \in 1 .. ChunkCount :
          /\ size = Len(ChunkAt(j).data) /\ m \in 0 .. size
          /\ buff \o more = Rest(ChunkAt(j).data, m) \o (CRLF \o FromChunk(j + 1))
          /\ body = Flat(ChunkBodies, j - 1) \o SubSeq(ChunkAt(j).data, 1, m)
    BY <1>2, Zenon DEF ChunkInside
  <1> DEFINE d == ChunkAt(j).data
             tail == CRLF \o FromChunk(j + 1)
             f == Flat(ChunkBodies, j - 1)
  <1>6. ChunkCount \in Nat /\ d \in Seq(Characters) /\ d # <<>>
    BY <1>1, <1>2, ChunkTypes
  <1>7. j + 1 \in 1 .. ChunkCount + 1 /\ j - 1 \in 0 .. ChunkCount
    BY <1>6
  <1>8. tail \in Seq(Characters) /\ f \in Seq(Characters)
    <2>1. FromChunk(j + 1) \in Seq(Characters)
      BY <1>1, <1>2, <1>7, FromChunkOn
    <2>2. f \in Seq(Characters)
      BY <1>1, <1>2, <1>7, BodiesOn
    <2>3. tail \in Seq(Characters)
      BY <2>1, CrlfType, JoinedType, Zenon
    <2>4. QED
      BY <2>2, <2>3
  <1> HIDE DEF d, tail, f
  <1>9. /\ size = Len(d) /\ m \in Nat /\ m <= size /\ size \in Nat /\ Len(buff) \in Nat
        /\ buff \o more = Rest(d, m) \o tail /\ body = f \o SubSeq(d, 1, m)
    <2>1. size = Len(d) /\ m \in 0 .. size /\ Len(buff) \in Nat /\ Len(d) \in Nat
      BY <1>1, <1>5, <1>6 DEF d
    <2>2. buff \o more = Rest(d, m) \o tail /\ body = f \o SubSeq(d, 1, m)
      BY <1>5, Zenon DEF d, tail, f
    <2>3. QED
      BY <2>1, <2>2
  <1>10. n \in Nat /\ m + n <= size /\ n <= Len(buff) /\ (m + n # size => n = Len(buff))
    <2> DEFINE left == size - m
               long == Len(buff)
    <2>1. left \in Nat /\ long \in Nat
      BY <1>9
    <2>2. {left, long} \in SUBSET Nat /\ {left, long} # {}
      BY <2>1
    <2>3. n \in {left, long}
      BY <2>2, MinIsIn
    <2>4. n \in Nat /\ n <= left /\ n <= long
      BY <2>1, LesserOf
    <2> HIDE DEF n, long
    <2>5. m + n <= size /\ (m + n # size => n = long)
      BY <1>9, <2>1, <2>3, <2>4
    <2>6. QED
      BY <2>4, <2>5 DEF long
  <1> HIDE DEF n
  <1>11. TakesPart(buff, more, d, tail, m, n)
    BY <1>1, <1>4, <1>6, <1>8, <1>9, <1>10, PartTaken
  <1>12. data \in Seq(Characters) /\ SubSeq(d, 1, m) \in Seq(Characters)
    <2>1. n \in 0 .. Len(buff) /\ m \in 0 .. Len(d)
      BY <1>9, <1>10
    <2>2. QED
      BY <1>1, <1>6, <2>1, FirstPartType
  <1>13. b = f \o SubSeq(d, 1, m + n)
    <2> DEFINE first == SubSeq(d, 1, m)
    <2>1. Groups(f, first, data)
      BY <1>8, <1>12, Associative
    <2>2. first \o data = SubSeq(d, 1, m + n)
      BY <1>11, Zenon DEF TakesPart
    <2>3. QED
      BY <1>9, <2>1, <2>2, Zenon DEF Groups
  <1>14. Starts(b, response.body) /\ (m + n = size => b = Flat(ChunkBodies, j))
    <2>1. m + n \in 0 .. Len(ChunkAt(j).data) /\ Len(ChunkAt(j).data) = size
      BY <1>9, <1>10 DEF d
    <2>2. b = Flat(ChunkBodies, j - 1) \o SubSeq(ChunkAt(j).data, 1, m + n)
      BY <1>13, Zenon DEF f, d
    <2> HIDE DEF b
    <2>3. QED
      BY <1>1, <1>2, <2>1, <2>2, ChunkBodyStarts
  <1>15. Rest(buff, n) \o more = Rest(d, m + n) \o tail
    BY <1>11, Zenon DEF TakesPart
  <1>16. /\ DOMAIN k = Fields /\ k.chunk_size = size /\ k.chunk_size_written = m + n
         /\ k.resp_header_buff = khc.resp_header_buff /\ k.stream_buff = buff
    BY <1>1, BodyFieldNames DEF BodyFields
  <1>17. /\ ended.state = "RESP_BODY_SKIP_CHUNK_BODY_CRLF" /\ ended.stream_buff = Rest(buff, n)
         /\ ended.resp_header_buff = khc.resp_header_buff
         /\ again.state = "READ_CHUNK_BODY_FROM_HEADER_BUFF" /\ again.stream_buff = <<>>
         /\ again.resp_header_buff = khc.resp_header_buff /\ SameChunk(again, k)
    <2> HIDE DEF k
    <2>1. QED
      BY <1>16, BodyFieldNames DEF BodyFields, SameChunk, Rest
  <1>18. /\ reads_on.state = "RESP_BODY_READ_CHUNK_BODY" /\ SameChunk(reads_on, k)
         /\ reads_on.resp_header_buff = khc.resp_header_buff
    <2> HIDE DEF k
    <2>1. QED
      BY <1>16, GotoText
  <1> HIDE DEF k, ended, again, reads_on, b, more
  <1>19. ASSUME Read(next, wire, b) PROVE Reads
    <2> HIDE DEF next, data
    <2>1. QED
      BY <1>3, <1>12, <1>14, <1>19, WritesReads DEF b
  <1>20. CASE m + n = size
    <2>1. next = ended
      BY <1>16, <1>20, Zenon
    <2>2. TextFrom(ended, wire) = tail
      <3>1. Rest(d, Len(d)) = <<>>
        BY <1>6 DEF Rest
      <3>2. <<>> \o tail = tail
        BY <1>8
      <3>3. TextFrom(ended, wire) = Rest(d, m + n) \o tail
        BY <1>15, <1>17, Zenon DEF TextFrom, more
      <3>4. m + n = Len(d)
        BY <1>9, <1>20
      <3>5. QED
        BY <3>1, <3>2, <3>3, <3>4, Zenon
    <2>3. ChunkEnd(ended, wire, b)
      <3>1. ended.stream_buff \o (ended.resp_header_buff \o wire) = CRLF \o FromChunk(j + 1)
        BY <2>2, Zenon DEF TextFrom, tail
      <3>2. QED
        BY <1>5, <1>14, <1>20, <3>1, Zenon DEF ChunkEnd
    <2>4. Read(ended, wire, b)
      BY <1>2, <1>17, <2>3, ChunkEndReads
    <2>5. QED
      BY <1>19, <2>1, <2>4
  <1>21. CASE m + n # size
    <2>1. more = Rest(d, m + n) \o tail
      <3>1. Rest(buff, n) = <<>>
        BY <1>1, <1>10, <1>21 DEF Rest
      <3>2. <<>> \o more = more
        BY <1>4
      <3>3. QED
        BY <1>15, <3>1, <3>2, Zenon
    <2>2. ASSUME NEW l, SameChunk(l, k) PROVE ChunkInside(l, more, b)
      <3>1. l.chunk_size = size /\ l.chunk_size_written = m + n
        BY <1>16, <2>2, Zenon DEF SameChunk
      <3>2. l.chunk_size = Len(d) /\ l.chunk_size_written \in 0 .. l.chunk_size
        BY <1>9, <1>10, <3>1
      <3>3. /\ more = Rest(d, l.chunk_size_written) \o tail
            /\ b = f \o SubSeq(d, 1, l.chunk_size_written)
        BY <1>13, <2>1, <3>1, Zenon DEF b
      <3>4. QED
        BY <1>5, <3>2, <3>3, Zenon DEF ChunkInside, d, tail, f
    <2>3. CASE khc.resp_header_buff # <<>>
      <3>1. next = again
        BY <1>16, <1>21, <2>3, Zenon
      <3>2. TextFrom(again, wire) = more
        <4>1. <<>> \o more = more
          BY <1>4
        <4>2. QED
          BY <1>17, <4>1, Zenon DEF TextFrom, more
      <3>3. ChunkInside(again, TextFrom(again, wire), b)
        BY <1>17, <2>2, <3>2
      <3>4. again.state \in ChunkBodyStates
        BY <1>17 DEF ChunkBodyStates
      <3>5. Read(again, wire, b)
        BY <1>2, <3>3, <3>4, ChunkBodyReads
      <3>6. QED
        BY <1>19, <3>1, <3>5
    <2>4. CASE khc.resp_header_buff = <<>>
      <3>1. next = reads_on
        BY <1>16, <1>21, <2>4, Zenon
      <3>2. more = wire
        <4>1. <<>> \o wire = wire
          BY <1>1
        <4>2. QED
          BY <2>4, <4>1, Zenon DEF more
      <3>3. ChunkInside(reads_on, wire, b)
        <4>1. ChunkInside(reads_on, more, b)
          BY <1>18, <2>2
        <4>2. QED
          BY <3>2, <4>1, Zenon
      <3>4. Read(reads_on, wire, b)
        BY <1>2, <1>18, <2>4, <3>3, ReadChunkBodyReads
      <3>5. QED
        BY <1>19, <3>1, <3>4
    <2>5. QED
      BY <2>3, <2>4
  <1>22. QED
    BY <1>20, <1>21

\* RESP_BODY_READ_CHUNK_SIZE.
LEMMA RespBodyReadChunkSizeReads == ASSUME Reading, RespBodyReadChunkSize PROVE Reads
  <1> DEFINE buff == khc.stream_buff
             room == StreamRoom(khc)
             K(data) == [khc EXCEPT !.state = "RESP_BODY_PARSE_CHUNK_SIZE",
                                    !.stream_buff = @ \o data]
             Got(data) == IF data = <<>> THEN ClosedEarly(khc) ELSE K(data)
  <1>1. /\ Readable /\ BuffersInv /\ Buffers(khc) /\ DOMAIN khc = Fields /\ room \in Nat
        /\ buff \in Seq(Characters) /\ wire \in Seq(Characters)
    BY ReadingAt, Rooms
  <1>2. /\ Read(khc, wire, body) /\ ChunkStart(khc, wire, body) /\ HasChunks(response)
        /\ khc.resp_header_buff = <<>>
    BY DEF RespBodyReadChunkSize, At, Reading, Read, ChunkSizeStates, ChunkStates
  <1>3. "TOO_LARGE_DATA" # "OK"
    OBVIOUS
  <1>4. CASE room = 0
    <2>1. Then(Fails(khc, "TOO_LARGE_DATA"))
      BY <1>4, Zenon DEF RespBodyReadChunkSize
    <2>2. Read(Fails(khc, "TOO_LARGE_DATA"), wire, body)
      BY <1>1, <1>3, FailsReads
    <2>3. QED
      BY <2>1, <2>2, ThenReads
  <1>5. CASE room # 0
    <2>1. ASSUME NEW data \in Received(room), data # <<>>, NEW w,
                 w = SubSeq(wire, Len(data) + 1, Len(wire))
          PROVE  Read(K(data), w, body)
      <3> DEFINE k == K(data)
      <3>1. data \in Seq(Characters) /\ w \in Seq(Characters) /\ wire = data \o w
        BY <1>1, <2>1, ReceivedStarts
      <3>2. /\ k.state = "RESP_BODY_PARSE_CHUNK_SIZE" /\ k.stream_buff = buff \o data
            /\ k.resp_header_buff = <<>>
        BY <1>1, <1>2, BodyFieldNames DEF BodyFields
      <3> HIDE DEF k
      <3>3. TextFrom(k, w) = TextFrom(khc, wire)
        <4>1. Groups(buff, data, w)
          BY <1>1, <3>1, Associative
        <4>2. <<>> \o w = w /\ <<>> \o wire = wire
          BY <1>1, <3>1
        <4>3. QED
          BY <1>2, <3>1, <3>2, <4>1, <4>2, Zenon DEF TextFrom, Groups
      <3>4. ChunkStart(k, w, body)
        BY <1>2, <3>3, ChunkStartStays
      <3>5. k.state \in ChunkSizeStates /\ k.state # "RESP_BODY_READ_CHUNK_SIZE"
        BY <3>2 DEF ChunkSizeStates
      <3>6. QED
        BY <1>2, <3>4, <3>5, ChunkSizeReads DEF k
    <2>2. Read(ClosedEarly(khc), <<>>, body)
      BY <1>1, <1>3, FailsReads
    <2>3. ReadsMore(khc, room)
      <3>1. CASE khc' = khc /\ UNCHANGED wire
        BY <3>1 DEF ReadsMore
      <3>2. CASE khc' = [Fails(khc, "SOCK_RECV") EXCEPT !.sock_error = "failed"] /\ UNCHANGED wire
        BY <3>2 DEF ReadsMore
      <3>3. ASSUME NEW data \in Received(room), khc' = Got(data),
                   wire' = IF data = <<>> THEN <<>> ELSE SubSeq(wire, Len(data) + 1, Len(wire))
            PROVE  ReadsMore(khc, room)
        <4> HIDE DEF K
        <4>1. CASE data = <<>>
          BY <2>2, <3>3, <4>1, Zenon DEF ReadsMore
        <4>2. CASE data # <<>>
          BY <2>1, <3>3, <4>2, Zenon DEF ReadsMore
        <4>3. QED
          BY <4>1, <4>2
      <3>4. QED
        BY <1>5, <3>1, <3>2, <3>3, Zenon DEF RespBodyReadChunkSize, Recv
    <2>4. UNCHANGED body
      BY <1>5 DEF RespBodyReadChunkSize, Recv
    <2>5. QED
      BY <1>1, <1>2, <2>3, <2>4, RecvReads
  <1>6. QED
    BY <1>4, <1>5

\* RESP_BODY_READ_CHUNK_BODY.
LEMMA RespBodyReadChunkBodyReads == ASSUME Reading, RespBodyReadChunkBody PROVE Reads
  <1> DEFINE room == exchange.stream_size
             K(data) == [khc EXCEPT !.state = "RESP_BODY_PARSE_CHUNK_BODY", !.stream_buff = data]
             Got(data) == IF data = <<>> THEN ClosedEarly(khc) ELSE K(data)
  <1>1. /\ Readable /\ BuffersInv /\ Buffers(khc) /\ DOMAIN khc = Fields /\ room \in Nat
        /\ wire \in Seq(Characters)
    BY ReadingAt, ExchangeType DEF BuffersInv
  <1>2. /\ Read(khc, wire, body) /\ ChunkInside(khc, wire, body) /\ HasChunks(response)
        /\ khc.resp_header_buff = <<>>
    BY DEF RespBodyReadChunkBody, At, Reading, Read, ChunkStates
  <1>3. ASSUME NEW data \in Received(room), data # <<>>, NEW w,
               w = SubSeq(wire, Len(data) + 1, Len(wire))
        PROVE  Read(K(data), w, body)
    <2> DEFINE k == K(data)
    <2>1. data \in Seq(Characters) /\ w \in Seq(Characters) /\ wire = data \o w
      BY <1>1, <1>3, ReceivedStarts
    <2>2. /\ k.state = "RESP_BODY_PARSE_CHUNK_BODY" /\ k.stream_buff = data
          /\ k.resp_header_buff = <<>> /\ SameChunk(k, khc)
      BY <1>1, <1>2, BodyFieldNames DEF BodyFields, SameChunk
    <2> HIDE DEF k
    <2>3. TextFrom(k, w) = wire
      <3>1. <<>> \o w = w
        BY <2>1
      <3>2. QED
        BY <2>1, <2>2, <3>1, Zenon DEF TextFrom
    <2>4. ChunkInside(k, TextFrom(k, w), body)
      BY <1>2, <2>2, <2>3, ChunkInsideStays
    <2>5. k.state \in ChunkBodyStates
      BY <2>2 DEF ChunkBodyStates
    <2>6. QED
      BY <1>2, <2>4, <2>5, ChunkBodyReads DEF k
  <1>4. Read(ClosedEarly(khc), <<>>, body)
    <2>1. "SOCK_RECV" # "OK"
      OBVIOUS
    <2>2. QED
      BY <1>1, <2>1, FailsReads
  <1>5. ReadsMore(khc, room)
    <2>1. CASE khc' = khc /\ UNCHANGED wire
      BY <2>1 DEF ReadsMore
    <2>2. CASE khc' = [Fails(khc, "SOCK_RECV") EXCEPT !.sock_error = "failed"] /\ UNCHANGED wire
      BY <2>2 DEF ReadsMore
    <2>3. ASSUME NEW data \in Received(room), khc' = Got(data),
                 wire' = IF data = <<>> THEN <<>> ELSE SubSeq(wire, Len(data) + 1, Len(wire))
          PROVE  ReadsMore(khc, room)
      <3> HIDE DEF K
      <3>1. CASE data = <<>>
        BY <1>4, <2>3, <3>1, Zenon DEF ReadsMore
      <3>2. CASE data # <<>>
        BY <1>3, <2>3, <3>2, Zenon DEF ReadsMore
      <3>3. QED
        BY <3>1, <3>2
    <2>4. QED
      BY <2>1, <2>2, <2>3, Zenon DEF RespBodyReadChunkBody, Recv
  <1>6. UNCHANGED body
    BY DEF RespBodyReadChunkBody, Recv
  <1>7. QED
    BY <1>1, <1>2, <1>5, <1>6, RecvReads

\* After the CRLF of a chunk comes the next, or the end of them.
LEMMA ChunkEnded ==
    ASSUME Readable, HasChunks(response), NEW k, NEW w, NEW b, ChunkEnd(k, w, b),
           NEW l, NEW v, TextFrom(k, w) \in Seq(Characters),
           TextFrom(l, v) = Rest(TextFrom(k, w), 2)
    PROVE  ChunkStart(l, v, b)
  <1>1. PICK j \in 1 .. ChunkCount :
          TextFrom(k, w) = CRLF \o FromChunk(j + 1) /\ b = Flat(ChunkBodies, j)
    BY Zenon DEF ChunkEnd, TextFrom
  <1>2. ChunkCount \in Nat
    BY ChunkTypes
  <1>3. j + 1 \in 1 .. ChunkCount + 1 /\ (j + 1) - 1 = j
    BY <1>2
  <1>4. FromChunk(j + 1) \in Seq(Characters)
    BY <1>3, FromChunkOn
  <1>5. Rest(CRLF \o FromChunk(j + 1), Len(CRLF)) = FromChunk(j + 1)
    BY <1>4, CrlfType, RestOfJoined
  <1>6. TextFrom(l, v) = FromChunk(j + 1)
    BY <1>1, <1>5, CrlfType, Zenon
  <1>7. l.stream_buff \o (l.resp_header_buff \o v) = FromChunk(j + 1)
        /\ b = Flat(ChunkBodies, (j + 1) - 1)
    BY <1>1, <1>3, <1>6, Zenon DEF TextFrom
  <1>8. QED
    BY <1>3, <1>7, Zenon DEF ChunkStart

\* Less than two symbols that start a CRLF are nothing or a CR.
LEMMA StartOfCrlf ==
    ASSUME NEW s \in Seq(Characters), IsPrefix(s, CRLF)
    PROVE  /\ Len(s) \in Nat /\ Len(s) <= 2
           /\ Len(s) = 0 => s = <<>>
           /\ Len(s) = 1 => s = <<"CR">>
  <1>1. Starts(s, CRLF)
    BY CrlfType, StartsIsPrefix
  <1>2. Len(s) \in Nat /\ Len(s) <= 2 /\ \A i \in 1 .. Len(s) : s[i] = CRLF[i]
    BY <1>1, CrlfType DEF Starts, SameTo
  <1>3. ASSUME Len(s) = 1 PROVE s = <<"CR">>
    <2>1. s[1] = "CR"
      BY <1>2, <1>3, CrlfType
    <2>2. QED
      BY <1>3, <2>1
  <1>4. QED
    BY <1>2, <1>3

\* RESP_BODY_SKIP_CHUNK_BODY_CRLF.
LEMMA RespBodySkipChunkBodyCrlfReads == ASSUME Reading, RespBodySkipChunkBodyCrlf PROVE Reads
  <1> DEFINE buff == khc.stream_buff
             head == khc.resp_header_buff
             more == head \o wire
             size == Len(buff)
             room == 2 - size
             after == [khc EXCEPT !.state = "RESP_BODY_PARSE_CHUNK_SIZE",
                                  !.stream_buff = SubSeq(@, 3, Len(@))]
             kept == [khc EXCEPT !.stream_buff = <<"CR">>]
             done == [khc EXCEPT !.state = "RESP_BODY_PARSE_CHUNK_SIZE", !.stream_buff = <<>>]
             Got(data) ==
                IF data = <<>> THEN ClosedEarly(khc)
                ELSE IF ~IsPrefix(buff \o data, CRLF) THEN Fails(khc, "INVALID_RESPONSE")
                ELSE IF Len(buff \o data) < 2 THEN kept ELSE done
  <1>1. /\ Readable /\ BuffersInv /\ Buffers(khc) /\ DOMAIN khc = Fields
        /\ buff \in Seq(Characters) /\ head \in Seq(Characters)
        /\ wire \in Seq(Characters)
    BY ReadingAt
  <1>2. /\ khc.state = "RESP_BODY_SKIP_CHUNK_BODY_CRLF" /\ Read(khc, wire, body)
        /\ ChunkEnd(khc, wire, body) /\ HasChunks(response)
    BY DEF RespBodySkipChunkBodyCrlf, At, Reading, Read, ChunkStates
  <1>3. size \in Nat
    BY <1>1
  <1>4. more \in Seq(Characters)
    BY <1>1, JoinedType, Zenon
  <1>5. TextFrom(khc, wire) = buff \o more /\ buff \o more \in Seq(Characters)
    BY <1>1, <1>4, JoinedType, Zenon DEF TextFrom
  <1>6. "INVALID_RESPONSE" # "OK"
    OBVIOUS
  <1>7. ASSUME NEW w PROVE Read(Fails(khc, "INVALID_RESPONSE"), w, body)
                           /\ Read(ClosedEarly(khc), w, body)
    BY <1>1, <1>6, FailsReads
  <1>8. /\ after.state = "RESP_BODY_PARSE_CHUNK_SIZE" /\ after.stream_buff = Rest(buff, 2)
        /\ after.resp_header_buff = head
    BY <1>1, BodyFieldNames DEF BodyFields, Rest
  <1>9. /\ kept.state = khc.state /\ kept.stream_buff = <<"CR">> /\ kept.resp_header_buff = head
        /\ done.state = "RESP_BODY_PARSE_CHUNK_SIZE" /\ done.stream_buff = <<>>
        /\ done.resp_header_buff = head
    BY <1>1, BodyFieldNames DEF BodyFields
  <1> HIDE DEF after, kept, done
  <1>10. ASSUME NEW l, l.state = "RESP_BODY_PARSE_CHUNK_SIZE", NEW w,
                TextFrom(l, w) = Rest(TextFrom(khc, wire), 2)
         PROVE  Read(l, w, body)
    <2>1. ChunkStart(l, w, body)
      BY <1>1, <1>2, <1>5, <1>10, ChunkEnded
    <2>2. l.state \in ChunkSizeStates /\ l.state # "RESP_BODY_READ_CHUNK_SIZE"
      BY <1>10 DEF ChunkSizeStates
    <2>3. QED
      BY <1>2, <2>1, <2>2, ChunkSizeReads
  <1> DEFINE wrong == ~IsPrefix(SubSeq(buff, 1, Min({2, size})), CRLF)
  <1>11. CASE wrong
    <2>1. Then(Fails(khc, "INVALID_RESPONSE"))
      BY <1>11, Zenon DEF RespBodySkipChunkBodyCrlf
    <2>2. QED
      BY <1>7, <2>1, ThenReads
  <1>12. CASE ~wrong /\ size >= 2
    <2>1. Then(after)
      BY <1>12, Zenon DEF RespBodySkipChunkBodyCrlf, after
    <2>2. TextFrom(after, wire) = Rest(TextFrom(khc, wire), 2)
      <3>1. LeavesBoth(buff, more, 2)
        BY <1>1, <1>4, <1>12, RestJoined
      <3>2. QED
        BY <1>5, <1>8, <3>1, Zenon DEF LeavesBoth, TextFrom
    <2>3. Read(after, wire, body)
      BY <1>8, <1>10, <2>2
    <2>4. QED
      BY <2>1, <2>3, ThenReads
  <1>13. CASE ~wrong /\ ~(size >= 2) /\ head # <<>>
    <2> DEFINE l == Moved(khc)
    <2>1. Then(l)
      BY <1>13, Zenon DEF RespBodySkipChunkBodyCrlf
    <2>2. l.state = khc.state /\ TextFrom(l, wire) = TextFrom(khc, wire)
      BY MovedText
    <2> HIDE DEF l
    <2>3. ChunkEnd(l, wire, body)
      BY <1>2, <2>2, ChunkEndStays
    <2>4. Read(l, wire, body)
      BY <1>2, <2>2, <2>3, ChunkEndReads
    <2>5. QED
      BY <2>1, <2>4, ThenReads
  <1>14. CASE ~wrong /\ ~(size >= 2) /\ head = <<>>
    <2>1. room \in Nat
      BY <1>3, <1>14
    <2>2. ASSUME NEW data \in Received(room), data # <<>>, NEW w,
                 w = SubSeq(wire, Len(data) + 1, Len(wire)),
                 IsPrefix(buff \o data, CRLF)
          PROVE  /\ Len(buff \o data) < 2 => Read(kept, w, body)
                 /\ ~(Len(buff \o data) < 2) => Read(done, w, body)
      <3> DEFINE both == buff \o data
      <3>1. data \in Seq(Characters) /\ w \in Seq(Characters) /\ wire = data \o w
        BY <1>1, <2>1, <2>2, ReceivedStarts
      <3>2. both \in Seq(Characters) /\ Len(both) = size + Len(data) /\ Len(data) \in Nat
            /\ Len(data) # 0
        <4>1. both \in Seq(Characters) /\ Len(both) = size + Len(data)
          BY <1>1, <3>1, JoinedType, Zenon
        <4>2. QED
          BY <2>2, <3>1, <4>1
      <3>3. /\ Len(both) <= 2 /\ (Len(both) = 1 => both = <<"CR">>)
        BY <2>2, <3>2, StartOfCrlf
      <3>4. TextFrom(khc, wire) = both \o w
        <4>1. Groups(buff, data, w)
          BY <1>1, <3>1, Associative
        <4>2. <<>> \o wire = wire
          BY <1>1
        <4>3. QED
          BY <1>14, <3>1, <4>1, <4>2, Zenon DEF TextFrom, Groups
      <3>5. <<>> \o w = w
        BY <3>1
      <3> HIDE DEF both
      <3>6. ASSUME Len(both) < 2 PROVE Read(kept, w, body)
        <4>1. Len(both) = 1
          BY <1>3, <3>2, <3>6
        <4>2. TextFrom(kept, w) = TextFrom(khc, wire)
          BY <1>9, <1>14, <3>3, <3>4, <3>5, <4>1, Zenon DEF TextFrom
        <4>3. ChunkEnd(kept, w, body)
          BY <1>2, <4>2, ChunkEndStays
        <4>4. QED
          BY <1>2, <1>9, <4>3, ChunkEndReads
      <3>7. ASSUME ~(Len(both) < 2) PROVE Read(done, w, body)
        <4>1. Len(both) = 2
          BY <1>3, <3>2, <3>3, <3>7
        <4>2. Rest(both \o w, Len(both)) = w
          BY <3>1, <3>2, RestOfJoined
        <4>3. TextFrom(done, w) = w
          BY <1>9, <1>14, <3>5, Zenon DEF TextFrom
        <4>4. TextFrom(done, w) = Rest(TextFrom(khc, wire), 2)
          BY <3>4, <4>1, <4>2, <4>3, Zenon
        <4>5. QED
          BY <1>9, <1>10, <4>4
      <3>8. QED
        BY <3>6, <3>7 DEF both
    <2>3. ReadsMore(khc, room)
      <3>1. CASE khc' = khc /\ UNCHANGED wire
        BY <3>1 DEF ReadsMore
      <3>2. CASE khc' = [Fails(khc, "SOCK_RECV") EXCEPT !.sock_error = "failed"] /\ UNCHANGED wire
        BY <3>2 DEF ReadsMore
      <3>3. ASSUME NEW data \in Received(room), khc' = Got(data),
                   wire' = IF data = <<>> THEN <<>> ELSE SubSeq(wire, Len(data) + 1, Len(wire))
            PROVE  ReadsMore(khc, room)
        <4>1. CASE data = <<>>
          BY <1>7, <3>3, <4>1, Zenon DEF ReadsMore
        <4>2. CASE data # <<>> /\ ~IsPrefix(buff \o data, CRLF)
          BY <1>7, <3>3, <4>2, Zenon DEF ReadsMore
        <4>3. CASE data # <<>> /\ IsPrefix(buff \o data, CRLF) /\ Len(buff \o data) < 2
          BY <2>2, <3>3, <4>3, Zenon DEF ReadsMore
        <4>4. CASE data # <<>> /\ IsPrefix(buff \o data, CRLF) /\ ~(Len(buff \o data) < 2)
          BY <2>2, <3>3, <4>4, Zenon DEF ReadsMore
        <4>5. QED
          BY <4>1, <4>2, <4>3, <4>4, Zenon
      <3>4. QED
        BY <1>14, <3>1, <3>2, <3>3, Zenon DEF RespBodySkipChunkBodyCrlf, Recv, kept, done
    <2>4. UNCHANGED body
      BY <1>14 DEF RespBodySkipChunkBodyCrlf, Recv
    <2>5. QED
      BY <1>1, <1>2, <2>1, <2>3, <2>4, RecvReads
  <1>15. QED
    BY <1>11, <1>12, <1>13, <1>14, Zenon

\* RESP_BODY_SKIP_TRAILERS.
LEMMA RespBodySkipTrailersReads == ASSUME Reading, RespBodySkipTrailers PROVE Reads
  <1> DEFINE matched == MatchedAfter(khc.trailer_end_matched,
                                     khc.stream_buff \o khc.resp_header_buff)
             k == [khc EXCEPT !.trailer_end_matched = matched,
                              !.stream_buff = <<>>, !.resp_header_buff = <<>>]
             room == exchange.stream_size
             ended == [khc EXCEPT !.state = "CLOSE", !.trailer_end_matched = 4]
             K(data) == [k EXCEPT !.stream_buff = data]
             Got(data) == IF data = <<>> THEN Goto(k, "CLOSE") ELSE K(data)
  <1>1. /\ Readable /\ BuffersInv /\ Buffers(khc) /\ DOMAIN khc = Fields /\ room \in Nat
    BY ReadingAt, ExchangeType DEF BuffersInv
  <1>2. khc.state = "RESP_BODY_SKIP_TRAILERS" /\ Read(khc, wire, body) /\ body = response.body
    BY DEF RespBodySkipTrailers, At, Reading, Read
  <1>3. ASSUME NEW l, l.state = khc.state, NEW w PROVE Read(l, w, body)
    BY <1>2, <1>3, TrailersReads
  <1>4. ASSUME NEW l, l.state = "CLOSE", NEW w PROVE Read(l, w, body)
    <2>1. Complete(l, body) /\ l.state \in {"CLOSE", "FINISHED"}
      BY <1>2, <1>4 DEF Complete
    <2>2. QED
      BY <2>1, ClosedReads
  <1>5. ended.state = "CLOSE" /\ DOMAIN k = Fields /\ k.state = khc.state
    BY <1>1, BodyFieldNames DEF BodyFields
  <1> HIDE DEF ended, matched
  <1>6. \A data : K(data).state = khc.state
    <2> HIDE DEF k
    <2>1. QED
      BY <1>5, BodyFieldNames DEF BodyFields
  <1>7. Goto(k, "CLOSE").state = "CLOSE"
    <2> HIDE DEF k
    <2>1. QED
      BY <1>5, GotoKeeps
  <1>8. CASE matched = 4
    <2>1. Then(ended)
      BY <1>8, Zenon DEF RespBodySkipTrailers, ended, matched
    <2>2. QED
      BY <1>4, <1>5, <2>1, ThenReads
  <1>9. CASE matched # 4
    <2> HIDE DEF K
    <2>1. Recv(k, room, Got)
      BY <1>9, Zenon DEF RespBodySkipTrailers, matched, K
    <2> HIDE DEF k
    <2>2. "SOCK_RECV" # "OK"
      OBVIOUS
    <2>3. Read([Fails(k, "SOCK_RECV") EXCEPT !.sock_error = "failed"], wire, body)
      BY <1>5, <2>2, FailsReads
    <2>4. ASSUME NEW data \in Received(room) PROVE Read(Got(data), wire', body)
      <3>1. CASE data = <<>>
        BY <1>4, <1>7, <3>1, Zenon
      <3>2. CASE data # <<>>
        BY <1>3, <1>6, <3>2, Zenon
      <3>3. QED
        BY <3>1, <3>2
    <2>5. Read(k, wire, body)
      BY <1>3, <1>5
    <2> HIDE DEF Got
    <2>6. Read(khc', wire', body) /\ UNCHANGED body
      BY <2>1, <2>3, <2>4, <2>5, Zenon DEF Recv
    <2>7. QED
      BY <2>6, Zenon DEF Reading, Reads
  <1>10. QED
    BY <1>8, <1>9

-----------------------------------------------------------------------------
(* The body of a response that can be read, and the rest of the request.   *)

\* A state that sends, or has just sent the last of the request.
Sending(k) ==
    /\ DOMAIN k = Fields /\ NoneGiven(k, body)
    /\ k.state \in SendStates \cup {"RESP_STATUS_READ"}
    /\ k.state = "RESP_STATUS_READ" => k.resp_header_buff = <<>>

\* All of the response is to come.
LEMMA SendingReads ==
    ASSUME Reading, NEW k, Sending(k), wire = response.wire
    PROVE  Read(k, wire, body)
  <1>1. Readable /\ wire \in Seq(Characters)
    BY ReadingAt
  <1>2. CASE k.state \in SendStates
    BY <1>2 DEF Sending, Read, SendStates, ChunkSizeStates, ChunkBodyStates, ChunkStates
  <1>3. CASE k.state \notin SendStates
    <2>1. /\ k.state = "RESP_STATUS_READ" /\ k.resp_header_buff = <<>> /\ NoneGiven(k, body)
      BY <1>3 DEF Sending
    <2>2. LineCount \in Nat /\ response.final \in 1 .. LineCount - 1
      BY <1>1, LineTypes, HeadPlaces
    <2>3. 1 \in 1 .. LineCount /\ 1 \in 1 .. LineCount - 1
      <3> DEFINE f == response.final
      <3>1. f \in 1 .. LineCount - 1
        BY <2>2
      <3> HIDE DEF f
      <3>2. QED
        BY <2>2, <3>1
    <2>4. StartsHead(response, 1)
      BY <1>1, <2>3, LineTypes DEF StartsHead
    <2>5. FromLine(1) = wire
      BY <1>1, <2>3, FromLineOn
    <2>6. <<>> \o wire = wire
      BY <1>1
    <2>7. AtHead(k, wire)
      BY <2>1, <2>3, <2>4, <2>5, <2>6, Zenon DEF AtHead
    <2>8. find_crlf(<<>>) = 0
      <3>1. <<>> \in Seq(Characters) /\ Len(<<>>) <= 1
        OBVIOUS
      <3>2. QED
        BY <3>1, CrlfAt
    <2>9. QED
      BY <2>1, <2>7, <2>8, HeadReads
  <1>4. QED
    BY <1>2, <1>3

\* Another state of the request.
LEMMA SendingGoes ==
    ASSUME Reading, NEW k, Sending(k), wire = response.wire, khc' = k, UNCHANGED <<wire, body>>
    PROVE  Reads
  <1>1. Read(k, wire, body)
    BY SendingReads
  <1>2. QED
    BY <1>1, Zenon DEF Reading, Reads

\* The failure of one.
LEMMA FailsGoes ==
    ASSUME Reading, NEW code, code # "OK", UNCHANGED <<wire, body>>,
           \/ khc' = Fails(khc, code)
           \/ khc' = [Fails(khc, code) EXCEPT !.sock_error = "failed"]
    PROVE  Reads
  <1>1. /\ Read(Fails(khc, code), wire, body)
        /\ Read([Fails(khc, code) EXCEPT !.sock_error = "failed"], wire, body)
    BY ReadingAt, FailsReads
  <1>2. Read(khc', wire, body)
    BY <1>1, Zenon
  <1>3. QED
    BY <1>2, Zenon DEF Reading, Reads

\* A send, whatever the socket takes of it.
LEMMA SendsReads ==
    ASSUME Reading, NEW part, NEW k, Sending(khc), Sending(k), wire = response.wire, Sends(part, k)
    PROVE  Reads
  <1>1. UNCHANGED <<wire, body>>
    BY DEF Sends
  <1>2. ASSUME NEW n, NEW j, Sending(j) PROVE Sending([j EXCEPT !.sent_length = n])
    BY <1>2, FieldNames, BodyFieldNames DEF Sending, NoneGiven, BodyFields
  <1>3. CASE \E n : khc' = AfterSend(part, k, n)
    <2>1. PICK n : khc' = AfterSend(part, k, n)
      BY <1>3
    <2> DEFINE m == khc.sent_length + n
               short == [khc EXCEPT !.sent_length = m]
               all == [k EXCEPT !.sent_length = 0]
    <2>2. Sending(short) /\ Sending(all)
      <3> HIDE DEF m
      <3>1. QED
        BY <1>2
    <2>3. khc' = short \/ khc' = all
      BY <2>1 DEF AfterSend
    <2> HIDE DEF short, all
    <2>4. QED
      BY <1>1, <2>2, <2>3, SendingGoes
  <1>4. CASE khc' = khc
    BY <1>1, <1>4, SendingGoes
  <1>5. CASE khc' = [Fails(khc, "SOCK_SEND") EXCEPT !.sock_error = "failed"]
    <2>1. "SOCK_SEND" # "OK"
      OBVIOUS
    <2>2. QED
      BY <1>1, <1>5, <2>1, FailsGoes
  <1>6. QED
    BY <1>3, <1>4, <1>5, Zenon DEF Sends

\* Every state of the request but the first two.
LEMMA AskingReads == ASSUME Reading, Asking PROVE Reads
  <1>1. khc.state \in SendStates
    BY DEF Asking, ReqLine, ReqHostHeader, ReqHeader, ReqHeaderSend, ReqHeaderSendCrlf,
           ReqHeaderEnd, ReqBodyRead, ReqBodySend, At, SendStates
  <1>2. wire = response.wire /\ NoneGiven(khc, body) /\ DOMAIN khc = Fields
    BY <1>1, ReadingAt DEF Reading, Read
  <1>3. Sending(khc)
    BY <1>1, <1>2 DEF Sending, SendStates
  <1>4. ASSUME NEW state \in SendStates PROVE Sending(Goto(khc, state))
    BY <1>2, <1>4, BodyFieldNames DEF Goto, Sending, NoneGiven, SendStates, BodyFields
  <1>5. /\ "REQ_HOST_HEADER" \in SendStates /\ "REQ_HEADER_END" \in SendStates
        /\ "REQ_HEADER_SEND" \in SendStates /\ "REQ_HEADER_SEND_CRLF" \in SendStates
        /\ "REQ_BODY_READ" \in SendStates
    BY DEF SendStates
  <1>6. "READ_CALLBACK" # "OK" /\ "TOO_LARGE_DATA" # "OK"
    OBVIOUS
  <1> USE FieldNames, BodyFieldNames DEF BodyFields
  <1>7. CASE ReqLine
    <2>1. Sending(Goto(khc, "REQ_HOST_HEADER"))
      BY <1>4, <1>5
    <2>2. QED
      BY <1>2, <1>3, <1>7, <2>1, SendsReads DEF ReqLine
  <1>8. CASE ReqHostHeader
    <2> DEFINE k == [khc EXCEPT !.state = "REQ_HEADER", !.req_header = 1]
    <2>1. Sending(k)
      BY <1>2 DEF Sending, NoneGiven, SendStates
    <2>2. Sends(Part("host"), k)
      BY <1>8 DEF ReqHostHeader
    <2> HIDE DEF k
    <2>3. QED
      BY <1>2, <1>3, <2>1, <2>2, SendsReads
  <1>9. CASE ReqHeader
    <2> DEFINE k == [khc EXCEPT !.req_header = @ + 1]
    <2>1. Sending(k)
      BY <1>2, <1>3 DEF Sending, NoneGiven, SendStates
    <2>2. Then(Goto(khc, "REQ_HEADER_END")) \/ Then(k) \/ Then(Goto(khc, "REQ_HEADER_SEND"))
      BY <1>9 DEF ReqHeader
    <2> HIDE DEF k
    <2>3. Sending(Goto(khc, "REQ_HEADER_END")) /\ Sending(Goto(khc, "REQ_HEADER_SEND"))
      BY <1>4, <1>5
    <2>4. Sending(khc') /\ UNCHANGED <<wire, body>>
      BY <2>1, <2>2, <2>3, Zenon DEF Then, historyVars
    <2>5. QED
      BY <1>2, <2>4, SendingGoes
  <1>10. CASE ReqHeaderSend
    <2>1. Sending(Goto(khc, "REQ_HEADER_SEND_CRLF"))
      BY <1>4, <1>5
    <2>2. QED
      BY <1>2, <1>3, <1>10, <2>1, SendsReads DEF ReqHeaderSend
  <1>11. CASE ReqHeaderSendCrlf
    <2> DEFINE k == [khc EXCEPT !.state = "REQ_HEADER", !.req_header = @ + 1]
    <2>1. Sending(k)
      BY <1>2 DEF Sending, NoneGiven, SendStates
    <2>2. Sends(Part("crlf"), k)
      BY <1>11 DEF ReqHeaderSendCrlf
    <2> HIDE DEF k
    <2>3. QED
      BY <1>2, <1>3, <2>1, <2>2, SendsReads
  <1>12. CASE ReqHeaderEnd
    <2> DEFINE k == [khc EXCEPT !.state = "REQ_BODY_READ", !.read_req_end = FALSE,
                                !.req_body_left = request.length]
               l == [khc EXCEPT !.state = "RESP_STATUS_READ", !.read_req_end = FALSE,
                                !.resp_header_buff = <<>>]
    <2>1. Sending(k) /\ Sending(l)
      BY <1>2 DEF Sending, NoneGiven, SendStates
    <2>2. Sends(Framing \o Part("end"), k) \/ Sends(Framing \o Part("end"), l)
      BY <1>12 DEF ReqHeaderEnd
    <2> HIDE DEF k, l
    <2>3. QED
      BY <1>2, <1>3, <2>1, <2>2, SendsReads
  <1>13. CASE ReqBodyRead
    <2>1. UNCHANGED <<wire, body>>
      BY <1>13 DEF ReqBodyRead
    <2>2. ASSUME NEW left, NEW end, NEW frame
          PROVE  /\ Sending([khc EXCEPT !.state = "REQ_BODY_SEND", !.req_body_left = left,
                                        !.read_req_end = end, !.req_frame = frame])
                 /\ Sending([khc EXCEPT !.state = "REQ_BODY_SEND", !.read_req_end = end,
                                        !.req_frame = frame])
      BY <1>2 DEF Sending, NoneGiven, SendStates
    <2>3. CASE ReqBodyReadLength
      <3>1. PICK got :
              \/ khc' = Fails(khc, "READ_CALLBACK")
              \/ khc' = [khc EXCEPT !.state = "REQ_BODY_SEND", !.req_body_left = @ - got,
                                    !.read_req_end = khc.req_body_left = got,
                                    !.req_frame = Given(Len(reads) + 1, got)]
        BY <2>3 DEF ReqBodyReadLength
      <3> DEFINE left == khc.req_body_left - got
                 end == khc.req_body_left = got
                 frame == Given(Len(reads) + 1, got)
                 k == [khc EXCEPT !.state = "REQ_BODY_SEND", !.req_body_left = left,
                                  !.read_req_end = end, !.req_frame = frame]
      <3>2. khc' = Fails(khc, "READ_CALLBACK") \/ khc' = k
        BY <3>1, Zenon
      <3> HIDE DEF left, end, frame
      <3>3. Sending(k)
        BY <2>2
      <3> HIDE DEF k
      <3>4. QED
        BY <1>2, <1>6, <2>1, <3>2, <3>3, SendingGoes, FailsGoes
    <2>4. CASE ReqBodyReadChunk
      <3>1. PICK end, frame :
              khc' \in {Fails(khc, "READ_CALLBACK"), Fails(khc, "TOO_LARGE_DATA"),
                        [khc EXCEPT !.state = "REQ_BODY_SEND", !.read_req_end = end,
                                    !.req_frame = frame]}
        BY <2>4, Zenon DEF ReqBodyReadChunk
      <3> DEFINE k == [khc EXCEPT !.state = "REQ_BODY_SEND", !.read_req_end = end,
                                  !.req_frame = frame]
      <3>2. Sending(k)
            /\ khc' \in {Fails(khc, "READ_CALLBACK"), Fails(khc, "TOO_LARGE_DATA"), k}
        BY <2>2, <3>1
      <3> HIDE DEF k
      <3>3. QED
        BY <1>2, <1>6, <2>1, <3>2, SendingGoes, FailsGoes
    <2>5. QED
      BY <1>13, <2>3, <2>4 DEF ReqBodyRead
  <1>14. CASE ReqBodySend
    <2> DEFINE k == [khc EXCEPT !.state = "RESP_STATUS_READ", !.resp_header_buff = <<>>]
    <2>1. Sending(k)
      BY <1>2 DEF Sending, NoneGiven, SendStates
    <2>2. Sending(Goto(khc, "REQ_BODY_READ"))
      BY <1>4, <1>5
    <2>3. Sends(khc.req_frame, k) \/ Sends(khc.req_frame, Goto(khc, "REQ_BODY_READ"))
      BY <1>14 DEF ReqBodySend
    <2> HIDE DEF k
    <2>4. QED
      BY <1>2, <1>3, <2>1, <2>2, <2>3, SendsReads
  <1>15. QED
    BY <1>7, <1>8, <1>9, <1>10, <1>11, <1>12, <1>13, <1>14 DEF Asking

\* The first two.
LEMMA ConnectingReads == ASSUME Reading, Idle \/ Connect PROVE Reads
  <1>1. khc.state \in SendStates
    BY DEF Idle, Connect, At, SendStates
  <1>2. wire = response.wire /\ NoneGiven(khc, body) /\ DOMAIN khc = Fields
    BY <1>1, ReadingAt DEF Reading, Read
  <1> DEFINE connect == Goto(khc, "CONNECT")
             line == [khc EXCEPT !.state = "REQ_LINE", !.sent_length = 0]
             failed == [khc EXCEPT !.state = "FINISHED", !.result = "SOCK_CONNECT",
                                   !.sock_error = "failed"]
  <1>3. Sending(connect) /\ Sending(line) /\ Sending(khc)
    BY <1>1, <1>2, FieldNames, BodyFieldNames DEF Goto, Sending, NoneGiven, SendStates, BodyFields
  <1>4. failed.state = "FINISHED" /\ failed.result # "OK"
    BY <1>2, FieldNames, BodyFieldNames DEF BodyFields
  <1>5. khc' \in {connect, line, khc, failed} /\ UNCHANGED <<wire, body>>
    BY DEF Idle, Connect, Then, historyVars
  <1> HIDE DEF connect, line, failed
  <1>6. Read(failed, wire, body)
    BY <1>4, ClosedReads DEF Complete
  <1>7. CASE khc' = failed
    BY <1>5, <1>6, <1>7, Zenon DEF Reading, Reads
  <1>8. QED
    BY <1>2, <1>3, <1>5, <1>7, SendingGoes

\* A close, whatever becomes of it.
LEMMA ClosesReads ==
    ASSUME Reading, NEW k, DOMAIN k = Fields, k.state = "CLOSE", Complete(k, body), Closes(k)
    PROVE  Reads
  <1>1. /\ CloseFailed(k).state = "FINISHED" /\ CloseFailed(k).result = k.result
        /\ Goto(k, "FINISHED").state = "FINISHED" /\ Goto(k, "FINISHED").result = k.result
    BY FieldNames DEF CloseFailed, Goto
  <1>2. /\ khc' \in {CloseFailed(k), Goto(k, "FINISHED"), k} /\ UNCHANGED <<wire, body>>
    BY DEF Closes, historyVars
  <1>3. Complete(khc', body) /\ khc'.state \in {"CLOSE", "FINISHED"}
    BY <1>1, <1>2 DEF Complete
  <1>4. Read(khc', wire, body)
    BY <1>3, ClosedReads
  <1>5. QED
    BY <1>2, <1>4, Zenon DEF Reading, Reads

\* What is closed is complete, if nothing failed.
LEMMA CloseReads == ASSUME Reading, Close PROVE Reads
  <1>1. khc.state = "CLOSE" /\ Closes(khc)
    BY DEF Close, At
  <1>2. Complete(khc, body) /\ DOMAIN khc = Fields
    BY <1>1, ReadingAt DEF Reading, Read
  <1>3. QED
    BY <1>1, <1>2, ClosesReads

\* What is stopped isn't KHC_ERR_OK, unless it was already being closed.
LEMMA StopForReads ==
    ASSUME Reading, Running, NEW reason, reason # "OK", StopFor(reason)
    PROVE  Reads
  <1> DEFINE stopped == [khc EXCEPT !.state = "FINISHED", !.result = reason]
             failed == CloseFailed(khc)
  <1>1. DOMAIN khc = Fields
    BY ReadingAt
  <1>2. CASE khc.state \in {"IDLE", "CONNECT"}
    <2>1. Then(stopped)
      BY <1>2 DEF StopFor
    <2>2. stopped.state = "FINISHED" /\ stopped.result # "OK"
      BY <1>1, FieldNames
    <2> HIDE DEF stopped
    <2>3. Read(stopped, wire, body)
      BY <2>2, ClosedReads DEF Complete
    <2>4. QED
      BY <2>1, <2>3, ThenReads
  <1>3. CASE khc.state = "CLOSE"
    <2>1. Then(failed)
      BY <1>3 DEF StopFor
    <2>2. failed.state = "FINISHED" /\ failed.result = khc.result
      BY <1>1, FieldNames DEF CloseFailed
    <2>3. Complete(khc, body)
      BY <1>3 DEF Reading, Read
    <2> HIDE DEF failed
    <2>4. Read(failed, wire, body)
      BY <2>2, <2>3, ClosedReads DEF Complete
    <2>5. QED
      BY <2>1, <2>4, ThenReads
  <1>4. CASE khc.state \notin {"IDLE", "CONNECT", "CLOSE"}
    <2>1. Closes(Fails(khc, reason))
      BY <1>4 DEF StopFor
    <2>2. LET k == Fails(khc, reason) IN
          DOMAIN k = Fields /\ k.state = "CLOSE" /\ k.result # "OK"
      BY <1>1, FieldNames DEF Fails
    <2>3. Complete(Fails(khc, reason), body)
      BY <2>2 DEF Complete
    <2>4. QED
      BY <2>1, <2>2, <2>3, ClosesReads
  <1>5. QED
    BY <1>2, <1>3, <1>4

\* Every state of the response.
LEMMA AnsweringReads == ASSUME Reading, Answering PROVE Reads
  BY RespStatusReadReads, RespStatusParseReads, RespHeaderCallbackReads, RespHeaderReadReads,
     RespHeaderSkipReads, RespBodyFragmentReads, ReadChunkSizeFromHeaderBuffReads,
     ReadChunkBodyFromHeaderBuffReads, RespBodyReadReads, RespBodyCallbackReads,
     RespBodyParseChunkSizeReads, RespBodyReadChunkSizeReads, RespBodyParseChunkBodyReads,
     RespBodyReadChunkBodyReads, RespBodySkipChunkBodyCrlfReads, RespBodySkipTrailersReads,
     Zenon DEF Answering

\* While the response stays, so does what is said of its lines.
LEMMA LinesStay ==
    ASSUME response' = response
    PROVE  /\ LineCount' = LineCount
           /\ \A i : FromLine(i)' = FromLine(i)
  <1>1. LineCount' = LineCount
    BY DEF LineCount
  <1>2. \A i : LineAt(i)' = LineAt(i)
    BY <1>1 DEF LineAt
  <1>3. LinePieces' = LinePieces
    BY <1>1, <1>2 DEF LinePieces
  <1>4. \A i : FromLine(i)' = FromLine(i)
    BY <1>3 DEF FromLine
  <1>5. QED
    BY <1>1, <1>4

\* And of its chunks.
LEMMA ChunksStay ==
    ASSUME response' = response
    PROVE  /\ ChunkCount' = ChunkCount
           /\ \A i : ChunkAt(i)' = ChunkAt(i)
           /\ \A i : FromChunk(i)' = FromChunk(i)
           /\ ChunkBodies' = ChunkBodies
  <1>1. ChunkCount' = ChunkCount
    BY DEF ChunkCount
  <1>2. \A i : ChunkAt(i)' = ChunkAt(i)
    BY DEF ChunkAt
  <1>3. ChunkPieces' = ChunkPieces /\ ChunkBodies' = ChunkBodies
    BY <1>1, <1>2 DEF ChunkPieces, ChunkBodies
  <1>4. \A i : FromChunk(i)' = FromChunk(i)
    BY <1>3 DEF FromChunk
  <1>5. QED
    BY <1>1, <1>2, <1>3, <1>4

\* A state's place in it is the same.
LEMMA ReadStays ==
    ASSUME response' = response, NEW k, NEW w, NEW b
    PROVE  Read(k, w, b)' <=> Read(k, w, b)
  <1>1. AtHead(k, w)' <=> AtHead(k, w)
    BY LinesStay DEF AtHead
  <1>2. \A s, i : HeadKnown(k, s, i)' <=> HeadKnown(k, s, i)
    <2>1. \A s, i : Knows(k, s, i)' <=> Knows(k, s, i)
      BY DEF Knows
    <2>2. \A i : KnowsFraming(k, i)' <=> KnowsFraming(k, i)
      BY DEF KnowsFraming
    <2>3. QED
      BY <2>1, <2>2 DEF HeadKnown
  <1>3. AtHeader(k, w)' <=> AtHeader(k, w)
    BY <1>2, LinesStay DEF AtHeader
  <1>4. \A i : SkipsLine(k, w, i)' <=> SkipsLine(k, w, i)
    BY LinesStay DEF SkipsLine
  <1>5. InHeader(k, w)' <=> InHeader(k, w)
    BY <1>2, <1>4, LinesStay DEF InHeader
  <1>6. PlainBody(k, b)' <=> PlainBody(k, b)
    BY DEF PlainBody
  <1>7. ChunkStart(k, w, b)' <=> ChunkStart(k, w, b)
    BY ChunksStay DEF ChunkStart
  <1>8. \A text : ChunkInside(k, text, b)' <=> ChunkInside(k, text, b)
    BY ChunksStay DEF ChunkInside
  <1>9. LET text == k.stream_buff \o (k.resp_header_buff \o w) IN
        ChunkInside(k, text, b)' <=> ChunkInside(k, text, b)
    BY <1>8
  <1>10. ChunkEnd(k, w, b)' <=> ChunkEnd(k, w, b)
    BY ChunksStay DEF ChunkEnd
  <1>11. Complete(k, b)' <=> Complete(k, b)
    BY DEF Complete
  <1>12. /\ NoneGiven(k, b)' <=> NoneGiven(k, b)
         /\ Incomplete(k)' <=> Incomplete(k)
         /\ HasChunks(response)' <=> HasChunks(response)
    BY DEF NoneGiven, Incomplete
  <1>13. response'.wire = response.wire /\ response'.rest = response.rest
         /\ response'.body = response.body
    OBVIOUS
  <1> DEFINE InHead ==
               /\ k.state \in SendStates => w = response.wire /\ NoneGiven(k, b)
               /\ k.state \in {"RESP_STATUS_READ", "RESP_STATUS_PARSE"} =>
                    AtHead(k, w) /\ NoneGiven(k, b)
               /\ k.state = "RESP_STATUS_READ" => find_crlf(k.resp_header_buff) = 0
               /\ k.state \in {"RESP_HEADER_CALLBACK", "RESP_HEADER_READ"} =>
                    AtHeader(k, w) /\ NoneGiven(k, b)
               /\ k.state = "RESP_HEADER_SKIP" => InHeader(k, w) /\ NoneGiven(k, b)
  <1>14. InHead <=> InHead'
    BY <1>1, <1>3, <1>5, <1>12, <1>13
  <1> DEFINE InPlain ==
               /\ k.state = "RESP_BODY_FRAGMENT" =>
                    PlainBody(k, b) /\ b \o (k.resp_header_buff \o w) = response.rest
               /\ k.state = "RESP_BODY_READ" =>
                    PlainBody(k, b) /\ Incomplete(k) /\ b \o w = response.rest
               /\ k.state = "RESP_BODY_CALLBACK" =>
                    PlainBody(k, b) /\ b \o (k.stream_buff \o w) = response.rest
  <1>15. InPlain <=> InPlain'
    BY <1>6, <1>12, <1>13
  <1> DEFINE InChunk ==
               /\ k.state \in ChunkSizeStates => ChunkStart(k, w, b)
               /\ k.state \in ChunkBodyStates =>
                    ChunkInside(k, k.stream_buff \o (k.resp_header_buff \o w), b)
               /\ k.state = "RESP_BODY_READ_CHUNK_BODY" => ChunkInside(k, w, b)
               /\ k.state = "RESP_BODY_SKIP_CHUNK_BODY_CRLF" => ChunkEnd(k, w, b)
  <1>16. InChunk <=> InChunk'
    BY <1>7, <1>8, <1>9, <1>10
  <1> DEFINE AtEndOf ==
               /\ k.state \in {"RESP_BODY_READ_CHUNK_SIZE", "RESP_BODY_READ_CHUNK_BODY"} =>
                    k.resp_header_buff = <<>>
               /\ k.state \in ChunkStates => HasChunks(response)
               /\ k.state = "RESP_BODY_SKIP_TRAILERS" => b = response.body
               /\ k.state \in {"CLOSE", "FINISHED"} => Complete(k, b)
  <1>17. AtEndOf <=> AtEndOf'
    BY <1>11, <1>12, <1>13
  <1>18. QED
    BY <1>14, <1>15, <1>16, <1>17, Zenon DEF Read

\* So it can be told with the state and the rest after a step.
LEMMA ReadNext ==
    ASSUME response' = response
    PROVE  Read(khc, wire, body)' <=> Read(khc', wire', body')
  BY ReadStays

\* Of a response that can be read khc knows where it is, and the application has what
\* comes before.
BodySoFar ==
    /\ body \in Seq(Characters) /\ Starts(body, response.body)
    /\ phase = "perform" => wire = response.wire /\ NoneGiven(khc, body)
    /\ phase = "loop" => Read(khc, wire, body)
    /\ phase = "returned" /\ ret = "OK" =>
         response.framing = "close" \/ body = response.body
    /\ phase # "returned" => ret # "OK"
BodyInv == Readable => BodySoFar

\* At first it has nothing.
LEMMA BodyInit == ASSUME KhcInit PROVE BodyInv
  <1>1. /\ body = <<>> /\ phase = "perform" /\ ret = "none" /\ wire = response.wire
        /\ khc.body_received = 0
    BY DEF KhcInit, Reset, response
  <1>2. ASSUME Readable PROVE body \in Seq(Characters) /\ Starts(body, response.body)
    <2>1. response.body \in Seq(Characters)
      BY <1>2, BodyType
    <2>2. QED
      BY <1>1, <2>1, StartsNothing
  <1>3. QED
    BY <1>1, <1>2 DEF BodyInv, BodySoFar, NoneGiven

\* A step of the loop goes on in the response.
LEMMA LoopReads ==
    ASSUME Reading, Handles \/ Stop
    PROVE  Reads /\ UNCHANGED <<exchange, phase, ret>>
  <1>1. phase = "loop" /\ BuffersInv
    BY DEF Reading
  <1>2. CASE Idle \/ Connect
    <2>1. UNCHANGED <<exchange, phase, ret>>
      BY <1>2 DEF Idle, Connect, Then, requestVars
    <2>2. QED
      BY <1>2, <2>1, ConnectingReads
  <1>3. CASE Asking
    <2>1. UNCHANGED <<exchange, phase, ret>>
      BY <1>1, <1>3, AskingAsks DEF Asks
    <2>2. QED
      BY <1>3, <2>1, AskingReads
  <1>4. CASE Answering
    <2>1. UNCHANGED <<exchange, phase, ret>>
      BY <1>1, <1>4, AnsweringResponds DEF Responds
    <2>2. QED
      BY <1>4, <2>1, AnsweringReads
  <1>5. CASE Close
    <2>1. UNCHANGED <<exchange, phase, ret>>
      BY <1>5 DEF Close, Closes, requestVars
    <2>2. QED
      BY <1>5, <2>1, CloseReads
  <1>6. CASE Stop
    <2>1. PICK reason \in {"TIMEOUT", "CANCELLED"} : StopFor(reason)
      BY <1>6 DEF Stop
    <2>2. UNCHANGED <<exchange, phase, ret>>
      BY <2>1 DEF StopFor, Then, Closes, requestVars
    <2>3. reason # "OK" /\ Running
      BY <1>6 DEF Stop
    <2>4. Reads
      BY <2>1, <2>3, StopForReads
    <2>5. QED
      BY <2>2, <2>4
  <1>7. QED
    BY <1>2, <1>3, <1>4, <1>5, <1>6, Zenon DEF Handles, Asking, Answering

\* And every step keeps what it knows.
LEMMA BodyStep == ASSUME BuffersInv, BodyInv, [KhcNext]_khcVars PROVE BodyInv'
  <1> SUFFICES ASSUME Readable' PROVE BodySoFar'
    BY DEF BodyInv
  <1>1. exchange' = exchange
    <2>1. CASE Handles \/ Stop
      <3>1. CASE Asking
        BY <3>1, AskingAsks DEF Asks
      <3>2. CASE Answering
        BY <3>2, AnsweringResponds DEF Responds
      <3>3. CASE Idle \/ Connect \/ Close \/ Stop
        BY <3>3 DEF Idle, Connect, Close, Stop, StopFor, Then, Closes, requestVars
      <3>4. QED
        BY <2>1, <3>1, <3>2, <3>3, Zenon DEF Handles, Asking, Answering
    <2>2. CASE Perform \/ TimeRunsOut \/ Return \/ ResetExceptRequest \/ UNCHANGED khcVars
      BY <2>2 DEF Perform, TimeRunsOut, Return, ResetExceptRequest, khcVars
    <2>3. QED
      BY <2>1, <2>2 DEF KhcNext
  <1>2. response' = response /\ Readable
    BY <1>1 DEF response, Readable
  <1>3. Characters' = Characters
    BY <1>2 DEF Characters, Symbols
  <1>4. Read(khc', wire', body') => Read(khc, wire, body)'
    BY <1>2, ReadNext
  <1>5. BodySoFar
    BY <1>2 DEF BodyInv
  <1>6. DOMAIN khc = Fields
    BY DEF BuffersInv, Buffers
  <1>7. CASE phase = "loop" /\ (Handles \/ Stop)
    <2>1. Reading
      BY <1>2, <1>5, <1>7 DEF Reading, BodySoFar
    <2>2. Reads /\ UNCHANGED <<exchange, phase, ret>>
      BY <1>7, <2>1, LoopReads
    <2>3. Read(khc, wire, body)' /\ body' \in Seq(Characters) /\ Starts(body', response.body)
      BY <1>4, <2>2, Zenon DEF Reads
    <2>4. phase' = "loop" /\ ret' # "OK"
      BY <1>5, <1>7, <2>2 DEF BodySoFar
    <2>5. QED
      BY <1>2, <1>3, <2>3, <2>4 DEF BodySoFar
  <1>8. CASE Perform
    <2> DEFINE k == [khc EXCEPT !.state = "IDLE", !.result = "OK", !.close_failed = FALSE,
                                !.header_skipped = FALSE]
    <2>1. /\ phase = "perform" /\ khc' = k /\ UNCHANGED <<exchange, wire, body>>
          /\ \/ phase' = "loop" /\ UNCHANGED ret
             \/ phase' = "returned" /\ ret' \in {"ALLOCATION", "FAIL"}
      BY <1>8 DEF Perform, historyVars
    <2>2. k.state = "IDLE" /\ k.body_received = khc.body_received
      BY <1>6, FieldNames, BodyFieldNames DEF BodyFields
    <2> HIDE DEF k
    <2>3. wire = response.wire /\ NoneGiven(k, body)
      BY <1>5, <2>1, <2>2 DEF NoneGiven, BodySoFar
    <2>4. Read(k, wire, body)
      BY <2>2, <2>3 DEF Read, SendStates, ChunkSizeStates, ChunkBodyStates, ChunkStates
    <2>5. Read(khc, wire, body)'
      <3>1. Read(khc', wire', body')
        BY <2>1, <2>4, Zenon
      <3>2. QED
        BY <1>4, <3>1
    <2>6. ret' # "OK" /\ phase' # "perform"
      BY <1>5, <2>1 DEF BodySoFar
    <2>7. QED
      BY <1>2, <1>3, <1>5, <2>1, <2>5, <2>6 DEF BodySoFar
  <1>9. CASE TimeRunsOut
    <2>1. phase = "loop" /\ UNCHANGED <<exchange, khc, wire, phase, ret, body>>
      BY <1>9 DEF TimeRunsOut, historyVars
    <2>2. Read(khc, wire, body)'
      <3>1. Read(khc', wire', body')
        BY <1>5, <2>1, Zenon DEF BodySoFar
      <3>2. QED
        BY <1>4, <3>1
    <2>3. QED
      BY <1>2, <1>3, <1>5, <2>1, <2>2 DEF BodySoFar
  <1>10. CASE Return
    <2>1. /\ phase = "loop" /\ khc.state = "FINISHED" /\ ret' = khc.result
          /\ phase' = "returned" /\ UNCHANGED <<wire, body>>
      BY <1>10 DEF Return, historyVars
    <2>2. Complete(khc, body)
      BY <1>5, <2>1 DEF Read, BodySoFar
    <2>3. QED
      BY <1>2, <1>3, <1>5, <2>1, <2>2 DEF Complete, BodySoFar
  <1>11. CASE ResetExceptRequest
    <2>1. /\ phase' = "perform" /\ ret' = "none" /\ body' = <<>> /\ wire' = response.wire
          /\ khc' = Reset
      BY <1>11 DEF ResetExceptRequest
    <2>2. response.body \in Seq(Characters)
      BY <1>2, BodyType DEF BodySoFar
    <2>3. Starts(<<>>, response.body)
      BY <2>2, StartsNothing
    <2>4. NoneGiven(khc', body')
      BY <2>1 DEF NoneGiven, Reset
    <2>5. QED
      BY <1>2, <1>3, <2>1, <2>3, <2>4 DEF BodySoFar
  <1>12. CASE UNCHANGED khcVars
    <2>1. UNCHANGED <<exchange, khc, wire, phase, ret, body>>
      BY <1>12 DEF khcVars
    <2>2. phase = "loop" => Read(khc, wire, body)'
      <3>1. phase = "loop" => Read(khc', wire', body')
        BY <1>5, <2>1, Zenon DEF BodySoFar
      <3>2. QED
        BY <1>4, <3>1
    <2>3. NoneGiven(khc, body) => NoneGiven(khc', body')
      BY <2>1 DEF NoneGiven
    <2>4. QED
      BY <1>2, <1>3, <1>5, <2>1, <2>2, <2>3 DEF BodySoFar
  <1>13. Handles \/ Stop => phase = "loop"
    BY DEF Handles, Stop, Idle, Connect, ReqLine, ReqHostHeader, ReqHeader, ReqHeaderSend,
       ReqHeaderSendCrlf, ReqHeaderEnd, ReqBodyRead, ReqBodySend, RespStatusRead,
       RespStatusParse, RespHeaderCallback, RespHeaderRead, RespHeaderSkip, RespBodyFragment,
       ReadChunkSizeFromHeaderBuff, ReadChunkBodyFromHeaderBuff, RespBodyRead,
       RespBodyCallback, RespBodyParseChunkSize, RespBodyReadChunkSize,
       RespBodyParseChunkBody, RespBodyReadChunkBody, RespBodySkipChunkBodyCrlf,
       RespBodySkipTrailers, Close, At, Running
  <1>14. QED
    BY <1>7, <1>8, <1>9, <1>10, <1>11, <1>12, <1>13 DEF KhcNext

\* Of a response that can be read the application gets the body, in order and without its
\* framing, however it was cut by reads and buffers, and all of it where KHC_ERR_OK says
\* so and its end is told.
THEOREM DeliversBodyCorrect == KhcSpec => [](response.verdict = "OK" => DeliversBody)
  <1>1. KhcInit => BodyInv
    BY BodyInit
  <1>2. BuffersInv /\ BodyInv /\ [KhcNext]_khcVars => BodyInv'
    BY BodyStep
  <1>3. BuffersInv /\ BodyInv => (response.verdict = "OK" => DeliversBody)
    <2> SUFFICES ASSUME BuffersInv, BodyInv, response.verdict = "OK" PROVE DeliversBody
      OBVIOUS
    <2>1. Readable
      BY DEF Readable, BuffersInv
    <2>2. /\ body \in Seq(Characters) /\ Starts(body, response.body)
          /\ phase = "returned" /\ ret = "OK" =>
               response.framing = "close" \/ body = response.body
          /\ phase # "returned" => ret # "OK"
      BY <2>1 DEF BodyInv, BodySoFar
    <2>3. IsPrefix(body, response.body)
      BY <2>1, <2>2, BodyType, StartsIsPrefix
    <2>4. QED
      BY <2>2, <2>3 DEF DeliversBody
  <1>4. QED
    BY <1>1, <1>2, <1>3, BuffersInvariance, PTL DEF KhcSpec

=============================================================================
