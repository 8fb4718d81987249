---------------------------- MODULE OpensslLookup ----------------------------
(***************************************************************************)
(* Looking a host up and connecting to it (ebisu_openssl.c: look_up(),     *)
(* connect_to_host()): getaddrinfo() knows no timeout, so the task leaves  *)
(* it to a thread of its own, waits until its deadline, and may connect    *)
(* again while threads that it gave up still look up. Whoever of the two   *)
(* lets go of the lookup_t they share last frees it.                       *)
(*                                                                         *)
(* Abstracted: memory is who holds what, and an address that accepts or    *)
(* not is one step. The resolver and TCP are external.                     *)
(***************************************************************************)
EXTENDS Naturals, FiniteSets, FiniteSetsExt

CONSTANTS
    MaxLookups,   \* lookup_ts at once: a bound
    NoLookup

ASSUME LookupAssumption == MaxLookups \in Nat /\ NoLookup \notin 1..MaxLookups

VARIABLES
    at,           \* where the task is
    lookup,       \* its lookup_t
    lookups,      \* the lookup_ts
    user,         \* what the task and the thread do with each
    addrs,        \* how many addresses are left in the list that the task holds
    has_list,
    lists,        \* how many lists getaddrinfo() made and nobody freed
    fds           \* how many file descriptors are open

lookupVars == <<at, lookup, lookups, user, addrs, has_list, lists, fds>>

Lookups == 1..MaxLookups
ListSizes == 1..2

Unused == [live |-> FALSE, users |-> 0, done |-> FALSE, result |-> FALSE]
Nobody == [task |-> "none", thread |-> "none"]

LookupInit ==
    /\ at = "closed"
    /\ lookup = NoLookup
    /\ lookups = [l \in Lookups |-> Unused]
    /\ user = [l \in Lookups |-> Nobody]
    /\ addrs = 0
    /\ has_list = FALSE
    /\ lists = 0
    /\ fds = 0

\* calloc() of a lookup_t.
Allocated ==
    LET free == {l \in Lookups : ~lookups[l].live}
    IN  IF free = {} THEN {} ELSE {Min(free)}

\* Up to the wait: the name is too long or memory can't be had, which changes nothing,
\* or the thread starts.
LookUp ==
    /\ at = "closed"
    /\ \E l \in Allocated :
        /\ lookup' = l
        /\ lookups' = [lookups EXCEPT ![l].live = TRUE, ![l].users = 2]
        /\ user' = [user EXCEPT ![l] = [task |-> "waits", thread |-> "looks_up"]]
    /\ at' = "wait"
    /\ UNCHANGED <<addrs, has_list, lists, fds>>

\* pthread_create() failed: users goes from 2 to 1, for the task to free it.
ThreadNotCreated ==
    /\ at = "closed"
    /\ \E l \in Allocated :
        /\ lookup' = l
        /\ lookups' = [lookups EXCEPT ![l].live = TRUE, ![l].users = 1]
        /\ user' = [user EXCEPT ![l].task = "releases"]
    /\ at' = "release"
    /\ UNCHANGED <<addrs, has_list, lists, fds>>

\* Without a connect timeout the task looks up by itself.
LookUpItself ==
    /\ at = "closed"
    /\ at' = "connect"
    /\ addrs' \in ListSizes
    /\ has_list' = TRUE
    /\ lists' = lists + 1
    /\ UNCHANGED <<lookup, lookups, user, fds>>

\* run_lookup(): getaddrinfo() answers, with a list or an error.
RunLookup(l) ==
    /\ user[l].thread = "looks_up"
    /\ \E found \in BOOLEAN :
        /\ lookups' = [lookups EXCEPT ![l].done = TRUE, ![l].result = found]
        /\ lists' = IF found THEN lists + 1 ELSE lists
    /\ user' = [user EXCEPT ![l].thread = "releases"]
    /\ UNCHANGED <<at, lookup, addrs, has_list, fds>>

\* Mutant: the lookup keeps the list as well.
TakeListLeavingIt ==
    /\ has_list' = lookups[lookup].result
    /\ UNCHANGED lookups

\* The task takes the list out of a lookup that is done, or gives it up at its
\* deadline, and lets go of it.
TakeList ==
    /\ has_list' = lookups[lookup].result
    /\ lookups' = [lookups EXCEPT ![lookup].result = FALSE]

\* Mutant: the wait has no deadline.
WaitForLookupForEver ==
    /\ at = "wait"
    /\ lookups[lookup].done
    /\ TakeList
    /\ addrs' \in IF has_list' THEN ListSizes ELSE {0}
    /\ at' = "release"
    /\ user' = [user EXCEPT ![lookup].task = "releases"]
    /\ UNCHANGED <<lookup, lists, fds>>

WaitForLookup ==
    /\ at = "wait"
    /\ IF lookups[lookup].done THEN TakeList ELSE UNCHANGED <<has_list, lookups>>
    /\ addrs' \in IF has_list' THEN ListSizes ELSE {0}
    /\ at' = "release"
    /\ user' = [user EXCEPT ![lookup].task = "releases"]
    /\ UNCHANGED <<lookup, lists, fds>>

\* The task is done with its lookup: it connects, or has no address to connect to.
LookedUp ==
    /\ at' = IF has_list THEN "connect" ELSE "closed"
    /\ lookup' = NoLookup

\* release_lookup(): users goes down with the mutex held, and who took it to none
\* frees the lookup after.
Release(l, who) ==
    /\ user[l][who] = "releases"
    /\ lookups' = [lookups EXCEPT ![l].users = @ - 1]
    /\ user' = [user EXCEPT ![l][who] = IF lookups[l].users = 1 THEN "frees" ELSE "none"]
    /\ IF who = "task" /\ lookups[l].users > 1 THEN LookedUp ELSE UNCHANGED <<at, lookup>>
    /\ UNCHANGED <<addrs, has_list, lists, fds>>

Free(l, who) ==
    /\ user[l][who] = "frees"
    /\ lists' = IF lookups[l].result THEN lists - 1 ELSE lists
    /\ lookups' = [lookups EXCEPT ![l] = Unused]
    /\ user' = [user EXCEPT ![l][who] = "none"]
    /\ IF who = "task" THEN LookedUp ELSE UNCHANGED <<at, lookup>>
    /\ UNCHANGED <<addrs, has_list, fds>>

\* connect_by() of the next address; the list is freed with the first that accepts or
\* after the last.
FreeList ==
    /\ addrs' = 0
    /\ has_list' = FALSE
    /\ lists' = lists - 1

Accepted ==
    /\ at = "connect"
    /\ at' = "open"
    /\ fds' = fds + 1
    /\ FreeList
    /\ UNCHANGED <<lookup, lookups, user>>

Refused ==
    /\ at = "connect"
    /\ IF addrs > 1
       THEN addrs' = addrs - 1 /\ UNCHANGED <<at, has_list, lists>>
       ELSE at' = "closed" /\ FreeList
    /\ UNCHANGED <<lookup, lookups, user, fds>>

CloseFd ==
    /\ at = "open"
    /\ at' = "closed"
    /\ fds' = fds - 1
    /\ UNCHANGED <<lookup, lookups, user, addrs, has_list, lists>>

ByTask == \E l \in Lookups : Release(l, "task") \/ Free(l, "task")

LookupNext ==
    \/ LookUp \/ ThreadNotCreated \/ LookUpItself \/ WaitForLookup \/ Accepted \/ Refused
    \/ CloseFd
    \/ \E l \in Lookups :
        \/ RunLookup(l)
        \/ \E who \in {"task", "thread"} : Release(l, who) \/ Free(l, who)

\* The task runs on and its timeouts run out; the resolver may never answer, and
\* threads are left alone.
LookupGoesOn == WaitForLookup \/ Accepted \/ Refused \/ ByTask

LookupSpec == LookupInit /\ [][LookupNext]_lookupVars /\ WF_lookupVars(LookupGoesOn)

-----------------------------------------------------------------------------
(* Properties.                                                             *)

\* Whoever of the task and the thread lets go of a lookup last frees it, and its list
\* of addresses if nobody took it; neither uses it after, and no list or file
\* descriptor is lost or freed twice, whichever of the deadline and the answer comes
\* first (release_lookup(), look_up(), connect_to_host()).
LookupAccounted ==
    /\ \A l \in Lookups :
        LET using == {who \in DOMAIN Nobody : user[l][who] \notin {"none", "frees"}}
            freeing == {who \in DOMAIN Nobody : user[l][who] = "frees"}
        IN  /\ lookups[l].users = Cardinality(using)
            /\ freeing # {} => using = {} /\ Cardinality(freeing) = 1
            /\ lookups[l].live <=> user[l] # Nobody
    /\ lists = (IF has_list THEN 1 ELSE 0)
             + Cardinality({l \in Lookups : lookups[l].result})
    /\ fds = IF at = "open" THEN 1 ELSE 0

\* A task with a connect timeout is done connecting some time, though the resolver
\* never answers (wait_for_lookup()).
ConnectEnds == at = "wait" ~> at \in {"closed", "open"}

=============================================================================
