---------------------------- MODULE OpensslSocket ----------------------------
(***************************************************************************)
(* The OpenSSL sockets (ebisu_openssl.c) of several tasks, which connect   *)
(* at the same time and share the cache of TLS sessions of their SSL_CTX.  *)
(*                                                                         *)
(* Abstracted: a host stands for a host and port, connecting to it         *)
(* (OpensslLookup) is one step, and sending and receiving, and why an      *)
(* operation failed, change nothing here. OpenSSL is external.             *)
(***************************************************************************)
EXTENDS Naturals, FiniteSets, FiniteSetsExt

CONSTANTS
    Tasks,        \* each has a socket
    Hosts,
    MaxSessions,  \* SSL_SESSIONs at once: a bound
    CacheSize,    \* SESSION_CACHE_SIZE
    NoHost, NoSession

ASSUME OpensslAssumption ==
    /\ IsFiniteSet(Tasks)
    /\ MaxSessions \in Nat /\ NoSession \notin 1..MaxSessions
    /\ CacheSize \in Nat \ {0}

VARIABLES
    pos,          \* where each task is
    host,         \* that it connects to
    offered,      \* the session of its SSL
    has_cache,    \* add_session_cache() succeeded
    entries,      \* of the cache: a host and its session
    next,
    refs,         \* references to each session
    host_of       \* history: the host that gave it

cacheVars == <<entries, next, refs, host_of>>
opensslVars == <<pos, host, offered, has_cache, cacheVars>>

Sessions == 1..MaxSessions
Empty == [host |-> NoHost, session |-> NoSession]

OpensslInit ==
    /\ pos = [t \in Tasks |-> "closed"]
    /\ host = [t \in Tasks |-> NoHost]
    /\ offered = [t \in Tasks |-> NoSession]
    /\ has_cache \in BOOLEAN
    /\ entries = [i \in 0..(CacheSize - 1) |-> Empty]
    /\ next = 0
    /\ refs = [x \in Sessions |-> 0]
    /\ host_of = [x \in Sessions |-> NoHost]

-----------------------------------------------------------------------------
(* The cache of sessions.                                                  *)

\* find_session()
Found(h) == {i \in DOMAIN entries : entries[i].session # NoSession /\ entries[i].host = h}

\* SSL_SESSION_up_ref() of the sessions of up, and SSL_SESSION_free() of those of down.
References(up, down) ==
    /\ refs' = [x \in Sessions |->
            (refs[x] + (IF x \in up THEN 1 ELSE 0)) - (IF x \in down THEN 1 ELSE 0)]
    /\ host_of' = [x \in Sessions |-> IF refs'[x] = 0 THEN NoHost ELSE host_of[x]]

\* offer_session(): the one of the host, if OpenSSL can resume it.
OfferFor(h) == {entries[i].session : i \in Found(h)}

\* Mutant: the host's last session keeps its entry.
EntryIgnoringHost(h) ==
    LET free == {i \in DOMAIN entries : entries[i].session = NoSession} IN
    IF free # {} THEN Min(free) ELSE next

\* on_new_session(): in place of the host's last, in a free entry, or of the next
\* host's in turn.
EntryFor(h) ==
    LET free == {i \in DOMAIN entries : entries[i].session = NoSession} IN
    IF Found(h) # {} THEN Min(Found(h))
    ELSE IF free # {} THEN Min(free)
    ELSE next

NextAfter(h) ==
    IF Found(h) = {} /\ \A i \in DOMAIN entries : entries[i].session # NoSession
    THEN (next + 1) % CacheSize
    ELSE next

\* The session that the server of t gives becomes its SSL's, and the cache keeps the
\* reference it is given in place of that of the entry.
OnNewSession(t) ==
    /\ pos[t] \in {"handshake", "open"}
    /\ \E x \in {y \in Sessions : refs[y] = 0 /\ \A z \in 1..(y - 1) : refs[z] > 0} :
        LET i == EntryFor(host[t])
            evicted == IF has_cache THEN entries[i].session ELSE NoSession
            Freed(y) == Cardinality({who \in {"ssl", "cache"} :
                    y = IF who = "ssl" THEN offered[t] ELSE evicted})
        IN  /\ offered' = [offered EXCEPT ![t] = x]
            /\ refs' = [y \in Sessions |->
                    IF y = x THEN IF has_cache THEN 2 ELSE 1 ELSE refs[y] - Freed(y)]
            /\ host_of' = [y \in Sessions |->
                    IF y = x THEN host[t] ELSE IF refs'[y] = 0 THEN NoHost ELSE host_of[y]]
            /\ IF has_cache
               THEN /\ entries' = [entries EXCEPT ![i] = [host |-> host[t], session |-> x]]
                    /\ next' = NextAfter(host[t])
               ELSE UNCHANGED <<entries, next>>
    /\ UNCHANGED <<pos, host, has_cache>>

-----------------------------------------------------------------------------
(* Connecting, and the connection.                                         *)

\* openssl_connect() before the handshake, if it gets there: the session of the host
\* is offered, if OpenSSL can resume it.
OConnect(t) ==
    /\ pos[t] = "closed"
    /\ \E h \in Hosts :
        /\ host' = [host EXCEPT ![t] = h]
        /\ \E x \in OfferFor(h) \cup {NoSession} :
            /\ offered' = [offered EXCEPT ![t] = x]
            /\ References({x}, {})
    /\ pos' = [pos EXCEPT ![t] = "handshake"]
    /\ UNCHANGED <<has_cache, entries, next>>

HandshakeDone(t) ==
    /\ pos[t] = "handshake"
    /\ pos' = [pos EXCEPT ![t] = "open"]
    /\ UNCHANGED <<host, offered, has_cache, cacheVars>>

OHandshakeFails(t) ==
    /\ pos[t] = "handshake"
    /\ pos' = [pos EXCEPT ![t] = "forget"]
    /\ UNCHANGED <<host, offered, has_cache, cacheVars>>

\* forget_session()
ForgetSession(t) ==
    /\ pos[t] = "forget"
    /\ pos' = [pos EXCEPT ![t] = "failed"]
    /\ entries' = [i \in DOMAIN entries |-> IF i \in Found(host[t]) THEN Empty ELSE entries[i]]
    /\ References({}, {entries[i].session : i \in Found(host[t])})
    /\ UNCHANGED <<host, offered, has_cache, next>>

\* SSL_free() and close(), after a handshake that failed and in openssl_close().
FreeSsl(t) ==
    /\ pos' = [pos EXCEPT ![t] = "closed"]
    /\ host' = [host EXCEPT ![t] = NoHost]
    /\ offered' = [offered EXCEPT ![t] = NoSession]
    /\ References({}, {offered[t]})
    /\ UNCHANGED <<has_cache, entries, next>>

OConnectFails(t) == pos[t] = "failed" /\ FreeSsl(t)

OClose(t) == pos[t] = "open" /\ FreeSsl(t)

OpensslNext ==
    \E t \in Tasks :
        \/ OConnect(t) \/ HandshakeDone(t) \/ OHandshakeFails(t) \/ ForgetSession(t)
        \/ OConnectFails(t) \/ OnNewSession(t) \/ OClose(t)

OpensslSpec == OpensslInit /\ [][OpensslNext]_opensslVars

-----------------------------------------------------------------------------
(* Properties.                                                             *)

\* Each session is referred to by as many as hold it, the cache has at most one of a
\* host, and a connection resumes only a session of the host whose certificate was
\* checked for it, though tasks put, forget and evict them at the same time.
SessionAccounted ==
    /\ \A x \in Sessions :
        refs[x] = Cardinality({t \in Tasks : offered[t] = x})
                + Cardinality({i \in DOMAIN entries : entries[i].session = x})
    /\ \A i, j \in DOMAIN entries :
        entries[i].session # NoSession =>
            /\ host_of[entries[i].session] = entries[i].host
            /\ i # j => entries[j].host # entries[i].host \/ entries[j].session = NoSession
    /\ \A t \in Tasks : offered[t] # NoSession => host_of[offered[t]] = host[t]

=============================================================================
