------------------------------- MODULE MCKhc -------------------------------
(***************************************************************************)
(* Instances of Khc for TLC: requests of every kind that get a short       *)
(* response, and a short request that gets responses of every kind.        *)
(***************************************************************************)
EXTENDS Khc

MCMaxData == 2

\* A response of these header lines and what comes after them.
Response(lines, rest, theBody, framing, verdict) ==
    [wire |-> Text(lines) \o CRLF \o rest, body |-> theBody, framing |-> framing,
     verdict |-> verdict, lines |-> lines, rest |-> rest,
     final |-> Max({1} \cup {i + 1 : i \in {j \in 1..Len(lines) : lines[j] = <<>>}}),
     chunks |-> <<>>, last |-> <<>>, trailers |-> <<>>]

Plain(lines) == Response(lines, <<>>, <<>>, "none", "OK")
Bad(lines, rest, theBody, verdict) == Response(lines, rest, theBody, "close", verdict)

Ok == <<"HTTP/1.1 200">>
Length(n) == <<"Content-Length:", n>>
InChunks == <<"Transfer-Encoding:", "chunked">>
Long(n) == <<"X-Other:">> \o [i \in 1..n |-> "x"]
Chunk(size, data) == Ends(<<size>>) \o Ends(data)

\* One whose body comes in chunks, each <<its size line, its data>>.
InChunksOf(pairs, last, trailers) ==
    LET chunks == [i \in 1..Len(pairs) |-> [size |-> pairs[i][1], data |-> pairs[i][2]]] IN
    [Response(<<Ok, InChunks>>, ChunkText(chunks) \o Ends(last) \o trailers, Joined(chunks),
              "chunked", "OK")
        EXCEPT !.chunks = chunks, !.last = last, !.trailers = trailers]

ab == <<"a", "b">>

Valid == {
    Plain(<<<<"HTTP/1.1 204">>, Length("2")>>),
    Response(<<Ok, Length("2")>>, ab \o <<"c">>, ab, "length", "OK"),
    Response(<<Ok, Length("0")>>, <<>>, <<>>, "length", "OK"),
    Response(<<Ok>>, ab, ab, "close", "OK"),
    Response(<<<<"HTTP/1.1 100">>, Length("1"), <<>>, Ok, Length("2")>>, ab, ab, "length", "OK"),
    Response(<<Ok, Length("2"), Length("2")>>, ab, ab, "length", "OK"),
    Response(<<Ok, Long(3), Length("2")>>, ab, ab, "length", "OK"),
    Response(<<Ok, Long(9), Length("2")>>, ab, ab, "length", "OK"),
    InChunksOf(<<<<<<"2">>, ab>>, <<<<"1">>, <<"c">>>>>>, <<"0">>, CRLF),
    InChunksOf(<<<<<<"1", ";", "x">>, <<"a">>>>>>, <<"0">>,
               Ends(<<"X-Other:", "CR", "x">>) \o CRLF)}

\* Two ways to read it, or none.
Invalids == {
    Bad(<<Ok, Length("1"), Length("2")>>, ab, ab, "INVALID_RESPONSE"),
    Bad(<<Ok, Length("x")>>, ab, ab, "INVALID_RESPONSE"),
    Bad(<<Ok, <<"Content-Length:", "1", "4">>>>, ab, ab, "INVALID_RESPONSE"),
    Bad(<<Ok, InChunks, Length("2")>>, Chunk("1", <<"a">>), <<"a">>, "INVALID_RESPONSE"),
    Bad(<<<<"HTTP/1.0 200">>, InChunks>>, Chunk("1", <<"a">>), <<"a">>, "INVALID_RESPONSE"),
    Bad(<<Ok, <<"Transfer-Encoding:", "chunked", "gzip">>>>, ab, ab, "INVALID_RESPONSE"),
    Bad(<<Ok, <<"x">>>>, ab, ab, "INVALID_RESPONSE"),
    Bad(<<<<"x">>>>, ab, ab, "INVALID_RESPONSE"),
    Bad(<<Ok, <<"X-Other:", "x", "x", "x", "NUL">>>>, ab, ab, "INVALID_RESPONSE"),
    Bad(<<Ok, InChunks>>, Ends(<<"1">>) \o Ends(ab), ab, "INVALID_RESPONSE"),
    Bad(<<Ok, InChunks>>, Ends(<<"1", "0">>) \o Ends(<<"a">>), <<>>, "INVALID_RESPONSE"),
    Bad(<<Ok, InChunks>>, Ends(<<>>), <<>>, "INVALID_RESPONSE")}

TooLarge == {
    Bad(<<<<"HTTP/1.1 200", "x", "x", "x", "x">>>>, ab, ab, "TOO_LARGE_DATA"),
    Bad(<<Ok, <<"Content-Length:", "0", "0", "0", "2">>>>, ab, ab, "TOO_LARGE_DATA"),
    Bad(<<Ok, InChunks>>, Ends(<<"1", ";", "x", "x", "x">>) \o Ends(<<"a">>), <<"a">>,
        "TOO_LARGE_DATA")}

Get == [method |-> "GET", headers |-> <<>>, length |-> NoBody, verdict |-> "OK"]

Exchange(theRequest, theResponse, faults) ==
    [request |-> theRequest, response |-> theResponse, header_size |-> 6,
     stream_size |-> 5, given |-> {"header", "stream"}, usable |-> TRUE,
     faults |-> faults]

Responding(faults) ==
    {Exchange([Get EXCEPT !.method = m], r, faults) :
        m \in {"GET"}, r \in Valid \cup Invalids \cup TooLarge}
        \cup {Exchange([Get EXCEPT !.method = "HEAD"],
                       Plain(<<Ok, Length("2")>>), faults)}

Short == Plain(<<<<"HTTP/1.1 204">>>>)

Requests ==
    {[method |-> "POST", headers |-> h, length |-> n, verdict |-> "OK"] :
        h \in {<<>>, <<"NULL", "h1", "", "h2">>}, n \in {NoBody, Chunked, 0, 2}}

Requesting(faults) ==
    {[Exchange(r, Short, faults) EXCEPT !.stream_size = 7] : r \in Requests}
        \cup {[Exchange([method |-> "POST", headers |-> <<>>, length |-> 2,
                         verdict |-> "OK"], Short, faults) EXCEPT !.stream_size = 1],
              Exchange([method |-> "POST", headers |-> <<>>, length |-> Chunked,
                        verdict |-> "TOO_LARGE_DATA"], Short, faults)}

Setups ==
    {[Exchange(Get, Short, {"malloc", "stop"}) EXCEPT !.given = g, !.usable = u] :
        g \in SUBSET {"header", "stream"}, u \in BOOLEAN}

AllFaults ==
    {"again", "cut", "recv", "send", "connect", "close", "write", "read", "header",
     "stop"}

MCExchanges == Responding(AllFaults) \cup Requesting(AllFaults) \cup Setups

\* A value that holds what a header khc needs starts with.
Quoting == Long(4) \o <<"Content-Length:", "x", "x">>
LongHeader ==
    {Exchange(Get, Response(<<Ok, Quoting, Length("2")>>, ab, ab, "length", "OK"), {})}

\* A request that only its timeout or the application stops.
Stopped == {Exchange(Get, Short, {"stop"})}

=============================================================================
