---------------------------- MODULE MCTransport ----------------------------
(***************************************************************************)
(* An instance of what a request goes through: the HTTP client, or the     *)
(* platforms' sockets, which are Schannel's, the lookups of OpenSSL's, and *)
(* the latter's TLS sessions; whichever part is.                           *)
(***************************************************************************)
EXTENDS MCKhc, SchannelSocket, OpensslLookup, OpensslSocket

VARIABLE part

Handshake == [kind |-> "handshake", size |-> 2, data |-> <<>>]
Data(d) == [kind |-> "data", size |-> 1 + Len(d), data |-> d]
Alert == [kind |-> "close_notify", size |-> 2, data |-> <<>>]
Renegotiate == [kind |-> "renegotiate", size |-> 2, data |-> <<>>]
BadRecord == [kind |-> "bad", size |-> 2, data |-> <<5>>]
LargeRecord == [kind |-> "large", size |-> 5, data |-> <<4, 5, 6, 7>>]

\* A record as large as any and the start of the next, an empty one, close_notify with
\* more after it, and what can't be used; each with its last piece and without.
MCStreams ==
    {[records |-> <<Handshake>> \o r, handshakes |-> 1, end |-> e] :
        r \in {<<Data(<<1, 2, 3>>), Data(<<4>>)>>,
               <<Data(<<1>>), Data(<<>>), Data(<<2>>)>>,
               <<Data(<<1>>), Alert, Data(<<3>>)>>,
               <<Renegotiate>>, <<BadRecord>>, <<Data(<<1>>), LargeRecord>>},
        e \in {"fin", "cut"}}
    \cup {[records |-> <<Handshake, Handshake, Data(<<1>>)>>, handshakes |-> 2, end |-> "fin"]}

\* A request that nothing happens to, for the other parts to leave alone.
NoExchange == Exchange(Get, Short, {})
MCAllExchanges == MCExchanges \cup {NoExchange}

transportVars == <<part, khcVars, schannelVars, lookupVars, opensslVars>>

MCInit ==
    /\ part \in {"http", "schannel", "lookup", "sessions"}
    /\ KhcInit
    /\ part = "http" \/ exchange = NoExchange
    /\ SchannelInit
    /\ LookupInit
    /\ OpensslInit
    /\ part = "sessions" \/ has_cache

MCNext ==
    /\ UNCHANGED part
    /\ \/ part = "http" /\ KhcNext /\ UNCHANGED <<schannelVars, lookupVars, opensslVars>>
       \/ part = "schannel" /\ SchannelNext /\ UNCHANGED <<khcVars, lookupVars, opensslVars>>
       \/ part = "lookup" /\ LookupNext /\ UNCHANGED <<khcVars, schannelVars, opensslVars>>
       \/ part = "sessions" /\ OpensslNext /\ UNCHANGED <<khcVars, schannelVars, lookupVars>>

MCSpec ==
    /\ MCInit
    /\ [][MCNext]_transportVars
    /\ WF_khcVars(part = "http" /\ KhcGoesOn)
    /\ WF_khcVars(part = "http" /\ TimeRunsOut)
    /\ WF_lookupVars(part = "lookup" /\ LookupGoesOn)

=============================================================================
