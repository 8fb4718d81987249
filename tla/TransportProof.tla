--------------------------- MODULE TransportProof ---------------------------
(***************************************************************************)
(* Proofs about the platforms' sockets, for any number of tasks, hosts,    *)
(* lookups and sessions, any size of the cache, and any records in pieces  *)
(* that come as they like.                                                 *)
(***************************************************************************)
EXTENDS OpensslLookup, OpensslSocket, SchannelSocket, SequenceFacts, FiniteSetTheorems

-----------------------------------------------------------------------------
(* Lookups.                                                                *)

\* What is kept of the lookups.
LookupRecords == [live : BOOLEAN, users : Nat, done : BOOLEAN, result : BOOLEAN]
Users ==
    [task : {"none", "waits", "releases", "frees"},
     thread : {"none", "looks_up", "releases", "frees"}]

LookupTypeOK ==
    /\ at \in {"closed", "wait", "release", "connect", "open"}
    /\ lookup \in Lookups \cup {NoLookup}
    /\ lookups \in [Lookups -> LookupRecords]
    /\ user \in [Lookups -> Users]
    /\ addrs \in Nat /\ lists \in Nat /\ fds \in Nat
    /\ has_list \in BOOLEAN

\* Whether one still counts among the users.
Counts(what) == IF what \in {"none", "frees"} THEN 0 ELSE 1

\* users counts who still uses a lookup; whoever frees it is alone with it; and its
\* thread has put no list in it before it is done.
OneLookup(l) ==
    /\ lookups[l].users = Counts(user[l].task) + Counts(user[l].thread)
    /\ user[l].task = "frees" => user[l].thread = "none"
    /\ user[l].thread = "frees" => user[l].task = "none"
    /\ lookups[l].live <=> user[l].task # "none" \/ user[l].thread # "none"
    /\ ~lookups[l].live => lookups[l] = Unused
    /\ user[l].thread = "looks_up" => ~lookups[l].done
    /\ ~lookups[l].done => ~lookups[l].result

\* Where the task is says which lookup it uses, and whether it holds a list.
TaskInv ==
    /\ \A l \in Lookups :
        /\ user[l].task = "waits" <=> at = "wait" /\ lookup = l
        /\ user[l].task \in {"releases", "frees"} <=> at = "release" /\ lookup = l
    /\ at \in {"wait", "release"} => lookup \in Lookups
    /\ at \in {"closed", "wait", "open"} => ~has_list
    /\ at = "connect" => has_list

\* The lists that threads made and no one has taken.
Results == {l \in Lookups : lookups[l].result}

\* What was allocated is somewhere.
CountInv ==
    /\ lists = (IF has_list THEN 1 ELSE 0) + Cardinality(Results)
    /\ fds = IF at = "open" THEN 1 ELSE 0

\* What keeps the lookups.
LookupInv == LookupTypeOK /\ (\A l \in Lookups : OneLookup(l)) /\ TaskInv /\ CountInv

\* There are finitely many lists that no one has taken.
LEMMA ResultsFinite ==
    /\ IsFiniteSet(Results) /\ Cardinality(Results) \in Nat
    /\ IsFiniteSet(Results') /\ Cardinality(Results)' \in Nat
  <1>1. IsFiniteSet(Lookups)
    BY LookupAssumption, FS_Interval DEF Lookups
  <1>2. Results \in SUBSET Lookups /\ Results' \in SUBSET Lookups
    BY DEF Results
  <1>3. QED
    BY <1>1, <1>2, FS_Subset, FS_CardinalityType

\* A step that changes one lookup.
LEMMA OneLookupMoves ==
    ASSUME LookupInv, LookupTypeOK', NEW l \in Lookups,
           \A m \in Lookups \ {l} : lookups'[m] = lookups[m] /\ user'[m] = user[m],
           OneLookup(l)'
    PROVE  \A m \in Lookups : OneLookup(m)'
  BY DEF LookupInv, OneLookup

\* What a step that changes one lookup does to them.
LEMMA ResultsMove ==
    ASSUME NEW l \in Lookups, \A m \in Lookups \ {l} : lookups'[m] = lookups[m],
           lookups[l].result \in BOOLEAN, lookups'[l].result \in BOOLEAN
    PROVE  Cardinality(Results)' =
             (Cardinality(Results) - (IF lookups[l].result THEN 1 ELSE 0))
               + (IF lookups'[l].result THEN 1 ELSE 0)
  <1>1. CASE lookups'[l].result
    <2>1. Results' = Results \cup {l}
      BY <1>1 DEF Results
    <2>2. l \in Results <=> lookups[l].result
      BY DEF Results
    <2>3. QED
      BY <1>1, <2>1, <2>2, ResultsFinite, FS_AddElement
  <1>2. CASE ~lookups'[l].result
    <2>1. Results' = Results \ {l}
      BY <1>2 DEF Results
    <2>2. l \in Results <=> lookups[l].result
      BY DEF Results
    <2>3. QED
      BY <1>2, <2>1, <2>2, ResultsFinite, FS_RemoveElement
  <1>3. QED
    BY <1>1, <1>2

\* calloc() gives a lookup_t that no one uses.
LEMMA AllocatedFree == \A l \in Allocated : l \in Lookups /\ ~lookups[l].live
  <1> DEFINE free == {l \in Lookups : ~lookups[l].live}
  <1>1. free \in SUBSET Nat
    BY DEF Lookups
  <1>2. free # {} => Min(free) \in free
    BY <1>1, MinIsIn
  <1>3. QED
    BY <1>2 DEF Allocated

\* The steps keep all that.
LEMMA LookupStep == ASSUME LookupInv, [LookupNext]_lookupVars PROVE LookupInv'
  <1> USE DEF lookupVars
  <1>0. Cardinality(Results) \in Nat /\ Cardinality(Results)' \in Nat
    BY ResultsFinite
  <1>a. ASSUME UNCHANGED lookups PROVE Cardinality(Results)' = Cardinality(Results)
    BY <1>a DEF Results
  <1>1. CASE LookUp \/ ThreadNotCreated
    <2>1. PICK l \in Lookups :
            /\ ~lookups[l].live /\ lookup' = l
            /\ \/ /\ lookups' = [lookups EXCEPT ![l].live = TRUE, ![l].users = 2]
                  /\ user' = [user EXCEPT ![l] = [task |-> "waits", thread |-> "looks_up"]]
                  /\ at' = "wait"
               \/ /\ lookups' = [lookups EXCEPT ![l].live = TRUE, ![l].users = 1]
                  /\ user' = [user EXCEPT ![l].task = "releases"]
                  /\ at' = "release"
      BY <1>1, AllocatedFree DEF LookUp, ThreadNotCreated
    <2>2. at = "closed" /\ UNCHANGED <<addrs, has_list, lists, fds>>
      BY <1>1 DEF LookUp, ThreadNotCreated
    <2>3. /\ lookups[l] = Unused /\ user[l].task = "none" /\ user[l].thread = "none"
      BY <2>1 DEF LookupInv, OneLookup, LookupTypeOK, Users
    <2>4. /\ LookupTypeOK'
          /\ \A m \in Lookups \ {l} : lookups'[m] = lookups[m] /\ user'[m] = user[m]
          /\ ~lookups[l].result /\ ~lookups'[l].result /\ ~lookups'[l].done /\ lookups'[l].live
          /\ \/ /\ user'[l].task = "waits" /\ user'[l].thread = "looks_up"
                /\ lookups'[l].users = 2 /\ at' = "wait"
             \/ /\ user'[l].task = "releases" /\ user'[l].thread = "none"
                /\ lookups'[l].users = 1 /\ at' = "release"
      BY <2>1, <2>2, <2>3 DEF LookupInv, LookupTypeOK, LookupRecords, Users, Unused
    <2>5. OneLookup(l)'
      BY <2>4 DEF OneLookup, Counts
    <2>6. TaskInv'
      BY <2>1, <2>2, <2>4 DEF LookupInv, TaskInv
    <2>7. CountInv'
      <3>1. Cardinality(Results)' = Cardinality(Results)
        <4>1. lookups[l].result \in BOOLEAN /\ lookups'[l].result \in BOOLEAN
          BY <2>4 DEF LookupInv, LookupTypeOK, LookupRecords
        <4>2. QED
          BY <1>0, <2>4, <4>1, ResultsMove
      <3>2. QED
        BY <2>2, <2>4, <3>1 DEF LookupInv, CountInv
    <2>8. QED
      BY <2>4, <2>5, <2>6, <2>7, OneLookupMoves DEF LookupInv
  <1>2. CASE LookUpItself
    <2>1. /\ at = "closed" /\ at' = "connect" /\ has_list' = TRUE /\ lists' = lists + 1
          /\ addrs' \in Nat /\ UNCHANGED <<lookup, lookups, user, fds>>
      BY <1>2 DEF LookUpItself, ListSizes
    <2>2. LookupTypeOK' /\ \A l \in Lookups : OneLookup(l)'
      BY <2>1 DEF LookupInv, LookupTypeOK, OneLookup
    <2>3. TaskInv' /\ CountInv'
      BY <1>0, <1>a, <2>1 DEF LookupInv, LookupTypeOK, TaskInv, CountInv
    <2>4. QED
      BY <2>2, <2>3 DEF LookupInv
  <1>3. ASSUME NEW l \in Lookups, RunLookup(l) PROVE LookupInv'
    <2>1. PICK found \in BOOLEAN :
            /\ lookups' = [lookups EXCEPT ![l].done = TRUE, ![l].result = found]
            /\ lists' = IF found THEN lists + 1 ELSE lists
      BY <1>3 DEF RunLookup
    <2>2. /\ user[l].thread = "looks_up" /\ user' = [user EXCEPT ![l].thread = "releases"]
          /\ UNCHANGED <<at, lookup, addrs, has_list, fds>>
      BY <1>3 DEF RunLookup
    <2>3. /\ \A m \in Lookups \ {l} : lookups'[m] = lookups[m] /\ user'[m] = user[m]
          /\ lookups' \in [Lookups -> LookupRecords] /\ user' \in [Lookups -> Users]
          /\ lookups'[l].live = lookups[l].live /\ lookups'[l].users = lookups[l].users
          /\ user'[l].thread = "releases" /\ user'[l].task = user[l].task
      BY <2>1, <2>2, ZenonT(30) DEF LookupInv, LookupTypeOK, LookupRecords, Users
    <2>4. lookups'[l].done /\ lookups'[l].result = found
      BY <2>1 DEF LookupInv, LookupTypeOK, LookupRecords
    <2>5. LookupTypeOK'
      BY <2>1, <2>2, <2>3 DEF LookupInv, LookupTypeOK
    <2>6. OneLookup(l)'
      BY <2>2, <2>3, <2>4 DEF LookupInv, LookupTypeOK, OneLookup, Counts
    <2>7. TaskInv'
      BY <2>2, <2>3 DEF LookupInv, TaskInv
    <2>8. ~lookups[l].result
      BY <2>2 DEF LookupInv, OneLookup
    <2>9. CountInv'
      <3>1. Cardinality(Results)' = Cardinality(Results) + (IF found THEN 1 ELSE 0)
        <4>1. lookups[l].result \in BOOLEAN /\ lookups'[l].result \in BOOLEAN
          BY <2>3 DEF LookupInv, LookupTypeOK, LookupRecords
        <4>2. QED
          BY <1>0, <2>3, <2>4, <2>8, <4>1, ResultsMove
      <3>2. QED
        BY <1>0, <2>1, <2>2, <3>1 DEF LookupInv, LookupTypeOK, CountInv
    <2>10. QED
      BY <2>3, <2>5, <2>6, <2>7, <2>9, OneLookupMoves DEF LookupInv
  <1>4. CASE WaitForLookup
    <2>1. /\ at = "wait" /\ at' = "release" /\ lookup \in Lookups /\ addrs' \in Nat
          /\ user' = [user EXCEPT ![lookup].task = "releases"]
          /\ UNCHANGED <<lookup, lists, fds>>
      BY <1>4 DEF WaitForLookup, LookupInv, TaskInv, ListSizes
    <2>2. user[lookup].task = "waits" /\ ~has_list
      BY <2>1 DEF LookupInv, TaskInv
    <2>3. /\ \A m \in Lookups \ {lookup} : lookups'[m] = lookups[m] /\ user'[m] = user[m]
          /\ user' \in [Lookups -> Users]
          /\ user'[lookup].task = "releases" /\ user'[lookup].thread = user[lookup].thread
      BY <1>4, <2>1 DEF WaitForLookup, TakeList, LookupInv, LookupTypeOK, Users
    <2>4. /\ lookups' \in [Lookups -> LookupRecords] /\ has_list' \in BOOLEAN
          /\ lookups'[lookup].live = lookups[lookup].live
          /\ lookups'[lookup].users = lookups[lookup].users
          /\ lookups'[lookup].done = lookups[lookup].done
          /\ \/ /\ lookups[lookup].done
                /\ has_list' = lookups[lookup].result /\ ~lookups'[lookup].result
             \/ /\ ~lookups[lookup].done
                /\ ~has_list' /\ lookups'[lookup].result = lookups[lookup].result
      <3>1. CASE lookups[lookup].done
        <4>1. /\ has_list' = lookups[lookup].result
              /\ lookups' = [lookups EXCEPT ![lookup].result = FALSE]
          BY <1>4, <3>1 DEF WaitForLookup, TakeList
        <4>2. lookups[lookup].result \in BOOLEAN
          BY <2>1 DEF LookupInv, LookupTypeOK, LookupRecords
        <4>3. /\ lookups' \in [Lookups -> LookupRecords]
              /\ lookups'[lookup].live = lookups[lookup].live
              /\ lookups'[lookup].users = lookups[lookup].users
              /\ lookups'[lookup].done = lookups[lookup].done
              /\ ~lookups'[lookup].result
          BY <2>1, <4>1 DEF LookupInv, LookupTypeOK, LookupRecords
        <4>4. QED
          BY <3>1, <4>1, <4>2, <4>3
      <3>2. CASE ~lookups[lookup].done
        BY <1>4, <2>1, <2>2, <3>2 DEF WaitForLookup, LookupInv, LookupTypeOK
      <3>3. QED
        BY <3>1, <3>2
    <2>5. LookupTypeOK'
      BY <2>1, <2>3, <2>4 DEF LookupInv, LookupTypeOK
    <2>6. OneLookup(lookup)'
      BY <2>1, <2>2, <2>3, <2>4 DEF LookupInv, LookupTypeOK, OneLookup, Counts
    <2>7. \A m \in Lookups : OneLookup(m)'
      BY <2>1, <2>3, <2>5, <2>6, OneLookupMoves
    <2>8. TaskInv'
      BY <2>1, <2>2, <2>3 DEF LookupInv, TaskInv
    <2>9. CountInv'
      <3>1. Cardinality(Results)' =
             (Cardinality(Results) - (IF lookups[lookup].result THEN 1 ELSE 0))
               + (IF lookups'[lookup].result THEN 1 ELSE 0)
        BY <2>1, <2>3, <2>4, ResultsMove DEF LookupInv, LookupTypeOK, LookupRecords
      <3>2. QED
        BY <1>0, <2>1, <2>2, <2>4, <3>1 DEF LookupInv, LookupTypeOK, CountInv
    <2>10. QED
      BY <2>5, <2>7, <2>8, <2>9 DEF LookupInv
  <1>5. CASE Accepted \/ Refused \/ CloseFd
    <2>1. /\ UNCHANGED <<lookup, lookups, user>> /\ at \in {"connect", "open"}
          /\ at' \in {"closed", "connect", "open"}
      BY <1>5 DEF Accepted, Refused, CloseFd, LookupInv, LookupTypeOK
    <2>2. LookupTypeOK' /\ \A l \in Lookups : OneLookup(l)'
      <3>1. lists' \in Nat /\ fds' \in Nat /\ addrs' \in Nat /\ has_list' \in BOOLEAN
        <4>0. ASSUME at = "connect" PROVE lists - 1 \in Nat
          <5>1. has_list
            BY <4>0 DEF LookupInv, TaskInv
          <5>2. lists = 1 + Cardinality(Results)
            BY <5>1 DEF LookupInv, CountInv
          <5>3. QED
            BY <1>0, <5>2
        <4>1. CASE Accepted
          <5>1. has_list' = FALSE
            BY <4>1 DEF Accepted, FreeList
          <5>2. at = "connect" /\ lists' = lists - 1 /\ fds' = fds + 1 /\ addrs' = 0
            BY <4>1 DEF Accepted, FreeList
          <5>3. lists' \in Nat
            BY <4>0, <5>2
          <5>4. fds' \in Nat /\ addrs' \in Nat
            BY <5>2 DEF LookupInv, LookupTypeOK
          <5>5. QED
            BY <5>1, <5>3, <5>4
        <4>2. CASE Refused
          <5>1. CASE addrs > 1
            BY <4>2, <5>1 DEF LookupInv, LookupTypeOK, Refused
          <5>2. CASE ~(addrs > 1)
            <6>1. has_list' = FALSE
              BY <4>2, <5>2 DEF Refused, FreeList
            <6>2. at = "connect" /\ lists' = lists - 1 /\ fds' = fds /\ addrs' = 0
              BY <4>2, <5>2 DEF Refused, FreeList
            <6>3. QED
              BY <4>0, <6>1, <6>2 DEF LookupInv, LookupTypeOK
          <5>3. QED
            BY <5>1, <5>2
        <4>3. CASE CloseFd
          BY <4>3 DEF LookupInv, LookupTypeOK, CloseFd, CountInv
        <4>4. QED
          BY <1>5, <4>1, <4>2, <4>3
      <3>2. LookupTypeOK'
        BY <2>1, <3>1 DEF LookupInv, LookupTypeOK
      <3>3. QED
        BY <2>1, <3>2 DEF LookupInv, OneLookup
    <2>3. TaskInv' /\ CountInv'
      BY <1>0, <1>5, <1>a, <2>1 DEF LookupInv, LookupTypeOK, TaskInv, CountInv, Accepted, Refused,
         CloseFd, FreeList
    <2>4. QED
      BY <2>2, <2>3 DEF LookupInv
  <1>6. ASSUME NEW l \in Lookups, NEW who \in {"task", "thread"}, Release(l, who) PROVE LookupInv'
    <2>1. /\ user[l][who] = "releases"
          /\ lookups' = [lookups EXCEPT ![l].users = @ - 1]
          /\ user' = [user EXCEPT ![l][who] = IF lookups[l].users = 1 THEN "frees" ELSE "none"]
          /\ UNCHANGED <<addrs, has_list, lists, fds>>
      BY <1>6 DEF Release
    <2>2. /\ lookups[l].users = Counts(user[l].task) + Counts(user[l].thread)
          /\ lookups[l].users > 0
      BY <2>1 DEF LookupInv, LookupTypeOK, OneLookup, Users, Counts
    <2>3. /\ \A m \in Lookups \ {l} : lookups'[m] = lookups[m] /\ user'[m] = user[m]
          /\ lookups' \in [Lookups -> LookupRecords] /\ user' \in [Lookups -> Users]
          /\ lookups'[l].live = lookups[l].live /\ lookups'[l].users = lookups[l].users - 1
          /\ lookups'[l].done = lookups[l].done /\ lookups'[l].result = lookups[l].result
      BY <2>1, <2>2 DEF LookupInv, LookupTypeOK, LookupRecords, Users
    <2>4. Cardinality(Results)' = Cardinality(Results)
      BY <1>0, <2>3, ResultsMove DEF LookupInv, LookupTypeOK, LookupRecords
    <2>5. CASE who = "task"
      <3>1. /\ user[l].task = "releases" /\ user'[l].thread = user[l].thread
            /\ user'[l].task = IF lookups[l].users = 1 THEN "frees" ELSE "none"
        BY <2>1, <2>5 DEF LookupInv, LookupTypeOK, Users
      <3>2. at = "release" /\ lookup = l
        BY <3>1 DEF LookupInv, TaskInv
      <3>3. /\ lookups[l].users > 1 =>
                 at' = (IF has_list THEN "connect" ELSE "closed") /\ lookup' = NoLookup
            /\ lookups[l].users = 1 => UNCHANGED <<at, lookup>>
        BY <1>6, <2>2, <2>5 DEF Release, LookedUp
      <3>4. LookupTypeOK'
        BY <2>1, <2>2, <2>3, <3>2, <3>3 DEF LookupInv, LookupTypeOK, LookupRecords
      <3>5. OneLookup(l)'
        BY <2>2, <2>3, <3>1, <3>4 DEF LookupInv, LookupTypeOK, OneLookup, Counts, Users
      <3>6. TaskInv'
        BY <2>1, <2>2, <2>3, <3>1, <3>2, <3>3, LookupAssumption
           DEF LookupInv, LookupTypeOK, LookupRecords, TaskInv, Lookups
      <3>7. CountInv'
        BY <2>1, <2>4, <3>2, <3>3, <2>2 DEF LookupInv, LookupTypeOK, LookupRecords, CountInv
      <3>8. QED
        BY <2>3, <3>4, <3>5, <3>6, <3>7, OneLookupMoves DEF LookupInv
    <2>6. CASE who = "thread"
      <3>1. /\ user[l].thread = "releases" /\ user'[l].task = user[l].task
            /\ user'[l].thread = IF lookups[l].users = 1 THEN "frees" ELSE "none"
            /\ UNCHANGED <<at, lookup>>
        BY <1>6, <2>1, <2>6 DEF LookupInv, LookupTypeOK, Users, Release
      <3>2. LookupTypeOK'
        BY <2>1, <2>3, <3>1 DEF LookupInv, LookupTypeOK
      <3>3. OneLookup(l)'
        BY <2>2, <2>3, <3>1, <3>2 DEF LookupInv, LookupTypeOK, OneLookup, Counts, Users
      <3>4. TaskInv' /\ CountInv'
        BY <2>1, <2>3, <2>4, <3>1 DEF LookupInv, TaskInv, CountInv
      <3>5. QED
        BY <2>3, <3>2, <3>3, <3>4, OneLookupMoves DEF LookupInv
    <2>7. QED
      BY <2>5, <2>6
  <1>7. ASSUME NEW l \in Lookups, NEW who \in {"task", "thread"}, Free(l, who) PROVE LookupInv'
    <2>1. /\ user[l][who] = "frees"
          /\ lists' = IF lookups[l].result THEN lists - 1 ELSE lists
          /\ lookups' = [lookups EXCEPT ![l] = Unused]
          /\ user' = [user EXCEPT ![l][who] = "none"]
          /\ UNCHANGED <<addrs, has_list, fds>>
      BY <1>7 DEF Free
    <2>2. /\ \A m \in Lookups \ {l} : lookups'[m] = lookups[m] /\ user'[m] = user[m]
          /\ lookups' \in [Lookups -> LookupRecords] /\ user' \in [Lookups -> Users]
          /\ lookups'[l] = Unused /\ ~lookups'[l].result
      BY <2>1 DEF LookupInv, LookupTypeOK, LookupRecords, Users, Unused
    <2>3. Cardinality(Results)' = Cardinality(Results) - (IF lookups[l].result THEN 1 ELSE 0)
      BY <1>0, <2>2, ResultsMove DEF LookupInv, LookupTypeOK, LookupRecords
    <2>4. lists' \in Nat /\ lists' = (IF has_list THEN 1 ELSE 0) + Cardinality(Results)'
      BY <1>0, <2>1, <2>3 DEF LookupInv, LookupTypeOK, LookupRecords, CountInv
    <2>5. CASE who = "task"
      <3>1. /\ user[l].task = "frees" /\ user'[l].thread = user[l].thread
            /\ user'[l].task = "none" /\ user[l].thread = "none"
        BY <2>1, <2>5 DEF LookupInv, LookupTypeOK, Users, OneLookup
      <3>2. at = "release" /\ lookup = l
        BY <3>1 DEF LookupInv, TaskInv
      <3>3. at' = (IF has_list THEN "connect" ELSE "closed") /\ lookup' = NoLookup
        BY <1>7, <2>5 DEF Free, LookedUp
      <3>4. LookupTypeOK'
        BY <2>1, <2>2, <2>4, <3>3 DEF LookupInv, LookupTypeOK
      <3>5. OneLookup(l)'
        BY <2>2, <3>1, <3>4 DEF LookupInv, OneLookup, Counts, Unused
      <3>6. TaskInv'
        BY <2>1, <2>2, <3>1, <3>2, <3>3, LookupAssumption DEF LookupInv, TaskInv, Lookups
      <3>7. CountInv'
        BY <2>1, <2>4, <3>2, <3>3 DEF LookupInv, CountInv
      <3>8. QED
        BY <2>2, <3>4, <3>5, <3>6, <3>7, OneLookupMoves DEF LookupInv
    <2>6. CASE who = "thread"
      <3>1. /\ user[l].thread = "frees" /\ user'[l].task = user[l].task
            /\ user'[l].thread = "none" /\ user[l].task = "none"
            /\ UNCHANGED <<at, lookup>>
        BY <1>7, <2>1, <2>6 DEF LookupInv, LookupTypeOK, Users, OneLookup, Free
      <3>2. LookupTypeOK'
        BY <2>1, <2>2, <2>4, <3>1 DEF LookupInv, LookupTypeOK
      <3>3. OneLookup(l)'
        BY <2>2, <3>1, <3>2 DEF LookupInv, OneLookup, Counts, Unused
      <3>4. TaskInv' /\ CountInv'
        BY <2>1, <2>2, <2>4, <3>1 DEF LookupInv, TaskInv, CountInv
      <3>5. QED
        BY <2>2, <3>2, <3>3, <3>4, OneLookupMoves DEF LookupInv
    <2>7. QED
      BY <2>5, <2>6
  <1>8. CASE UNCHANGED lookupVars
    BY <1>8, <1>a DEF LookupInv, LookupTypeOK, OneLookup, TaskInv, CountInv
  <1>9. QED
    BY <1>1, <1>2, <1>3, <1>4, <1>5, <1>6, <1>7, <1>8 DEF LookupNext

\* As many use a lookup as its users says.
LEMMA UsersCounted ==
    ASSUME LookupInv, NEW l \in Lookups
    PROVE  LET using == {who \in DOMAIN Nobody : user[l][who] \notin {"none", "frees"}}
               freeing == {who \in DOMAIN Nobody : user[l][who] = "frees"}
           IN  /\ lookups[l].users = Cardinality(using)
               /\ freeing # {} => using = {} /\ Cardinality(freeing) = 1
               /\ lookups[l].live <=> user[l] # Nobody
  <1> DEFINE using == {who \in DOMAIN Nobody : user[l][who] \notin {"none", "frees"}}
             freeing == {who \in DOMAIN Nobody : user[l][who] = "frees"}
             One(b, x) == IF b THEN {x} ELSE {}
  <1>1. user[l] \in Users /\ DOMAIN Nobody = {"task", "thread"}
    BY DEF LookupInv, LookupTypeOK, Nobody
  <1>2. using = One(Counts(user[l].task) = 1, "task") \cup One(Counts(user[l].thread) = 1, "thread")
    BY <1>1 DEF Users, Counts
  <1>3. freeing = One(user[l].task = "frees", "task") \cup One(user[l].thread = "frees", "thread")
    BY <1>1 DEF Users
  <1>4. /\ Cardinality({}) = 0 /\ Cardinality({"task"}) = 1 /\ Cardinality({"thread"}) = 1
        /\ Cardinality({"task"} \cup {"thread"}) = 2
    <2>1. IsFiniteSet({"task"})
      BY FS_Singleton
    <2>2. Cardinality({"task"}) = 1 /\ Cardinality({"thread"}) = 1 /\ Cardinality({}) = 0
      BY FS_EmptySet, FS_Singleton
    <2>3. Cardinality({"task"} \cup {"thread"}) = Cardinality({"task"}) + 1
      BY <2>1, FS_AddElement
    <2>4. QED
      BY <2>2, <2>3
  <1>5. lookups[l].users = Cardinality(using)
    <2>1. lookups[l].users = Counts(user[l].task) + Counts(user[l].thread)
      BY DEF LookupInv, OneLookup
    <2>2. Counts(user[l].task) \in {0, 1} /\ Counts(user[l].thread) \in {0, 1}
      BY DEF Counts
    <2>3. CASE Counts(user[l].task) = 1 /\ Counts(user[l].thread) = 1
      BY <1>2, <1>4, <2>1, <2>3
    <2>4. CASE Counts(user[l].task) = 1 /\ Counts(user[l].thread) = 0
      BY <1>2, <1>4, <2>1, <2>4
    <2>5. CASE Counts(user[l].task) = 0 /\ Counts(user[l].thread) = 1
      BY <1>2, <1>4, <2>1, <2>5
    <2>6. CASE Counts(user[l].task) = 0 /\ Counts(user[l].thread) = 0
      BY <1>2, <1>4, <2>1, <2>6
    <2>7. QED
      BY <2>2, <2>3, <2>4, <2>5, <2>6
  <1>6. freeing # {} => using = {} /\ Cardinality(freeing) = 1
    BY <1>1, <1>2, <1>3, <1>4 DEF LookupInv, OneLookup, Counts
  <1>7. lookups[l].live <=> user[l] # Nobody
    BY <1>1 DEF LookupInv, OneLookup, Users, Nobody
  <1>8. QED
    BY <1>5, <1>6, <1>7

\* The task and the thread that look a host up free what they share exactly once,
\* whichever lets go of it last, and no list of addresses nor descriptor is left behind,
\* however many lookups the task gave up (release_lookup(), look_up(),
\* connect_to_host()).
THEOREM LookupAccountedCorrect == LookupSpec => []LookupAccounted
  <1>1. LookupInit => LookupInv
    <2> SUFFICES ASSUME LookupInit PROVE LookupInv
      OBVIOUS
    <2>1. Results = {}
      BY DEF LookupInit, Results, Unused
    <2>2. Cardinality(Results) = 0
      BY <2>1, FS_EmptySet
    <2>3. LookupTypeOK
      BY DEF LookupInit, LookupTypeOK, LookupRecords, Users, Unused, Nobody
    <2>4. \A l \in Lookups : OneLookup(l)
      BY DEF LookupInit, OneLookup, Unused, Nobody, Counts
    <2>5. TaskInv /\ CountInv
      BY <2>2 DEF LookupInit, TaskInv, CountInv, Nobody
    <2>6. QED
      BY <2>3, <2>4, <2>5 DEF LookupInv
  <1>2. LookupInv /\ [LookupNext]_lookupVars => LookupInv'
    BY LookupStep
  <1>3. LookupInv => LookupAccounted
    BY UsersCounted DEF LookupInv, CountInv, Results, LookupAccounted
  <1>4. QED
    BY <1>1, <1>2, <1>3, PTL DEF LookupSpec

-----------------------------------------------------------------------------
(* TLS sessions.                                                           *)

\* What is kept of the sessions.
Entries == 0 .. (CacheSize - 1)

OpensslTypeOK ==
    /\ pos \in [Tasks -> {"closed", "handshake", "open", "forget", "failed"}]
    /\ host \in [Tasks -> Hosts \cup {NoHost}]
    /\ offered \in [Tasks -> Sessions \cup {NoSession}]
    /\ has_cache \in BOOLEAN
    /\ entries \in [Entries -> [host : Hosts \cup {NoHost}, session : Sessions \cup {NoSession}]]
    /\ next \in Entries
    /\ refs \in [Sessions -> Nat]
    /\ host_of \in [Sessions -> Hosts \cup {NoHost}]

Offering(x) == {t \in Tasks : offered[t] = x}
Caching(x) == {i \in Entries : entries[i].session = x}

\* The parts of SessionAccounted.
RefsCounted ==
    \A x \in Sessions : refs[x] = Cardinality(Offering(x)) + Cardinality(Caching(x))
EntriesOfHosts ==
    \A i \in Entries :
        entries[i].session # NoSession => host_of[entries[i].session] = entries[i].host
OneOfAHost ==
    \A i, j \in Entries :
        entries[i].session # NoSession /\ i # j =>
            entries[j].host # entries[i].host \/ entries[j].session = NoSession
OffersOfHosts == \A t \in Tasks : offered[t] # NoSession => host_of[offered[t]] = host[t]

\* A socket that is closed offers nothing, and a cache that there isn't is empty.
IdleHoldsNothing ==
    /\ \A t \in Tasks : pos[t] = "closed" => offered[t] = NoSession
    /\ ~has_cache => \A i \in Entries : entries[i].session = NoSession

\* What keeps the cache: the counts, and that all that is held is of its host.
SessionInv ==
    /\ OpensslTypeOK
    /\ RefsCounted /\ EntriesOfHosts /\ OneOfAHost /\ OffersOfHosts
    /\ IdleHoldsNothing

\* How many of S have x, after one of them gets another.
Having(S, f, x) == {u \in S : f[u] = x}
Is(a, b) == IF a = b THEN 1 ELSE 0
Moved(S, t, f, g, x) ==
    Cardinality(Having(S, g, x)) = (Cardinality(Having(S, f, x)) - Is(f[t], x)) + Is(g[t], x)

\* One more has what it gets, and one less what it had.
LEMMA CountMoves ==
    ASSUME NEW S, IsFiniteSet(S), NEW t \in S, NEW f, NEW g, NEW x,
           \A u \in S \ {t} : g[u] = f[u]
    PROVE  Moved(S, t, f, g, x)
  <1>1. /\ IsFiniteSet(Having(S, f, x)) /\ IsFiniteSet(Having(S, g, x))
        /\ Cardinality(Having(S, f, x)) \in Nat /\ Cardinality(Having(S, g, x)) \in Nat
    <2>1. Having(S, f, x) \in SUBSET S /\ Having(S, g, x) \in SUBSET S
      BY DEF Having
    <2>2. QED
      BY <2>1, FS_Subset, FS_CardinalityType
  <1>2. t \in Having(S, f, x) <=> f[t] = x
    BY DEF Having
  <1>3. /\ g[t] = x => Having(S, g, x) = Having(S, f, x) \cup {t}
        /\ g[t] # x => Having(S, g, x) = Having(S, f, x) \ {t}
    BY DEF Having
  <1>4. CASE g[t] = x
    BY <1>1, <1>2, <1>3, <1>4, FS_AddElement DEF Is, Moved
  <1>5. CASE g[t] # x
    BY <1>1, <1>2, <1>3, <1>5, FS_RemoveElement DEF Is, Moved
  <1>6. QED
    BY <1>4, <1>5

\* A set with an element has a positive number of them.
LEMMA Positive ==
    ASSUME NEW S, IsFiniteSet(S), NEW e \in S
    PROVE  Cardinality(S) \in Nat /\ Cardinality(S) > 0
  BY FS_CardinalityType, FS_EmptySet

\* The cache has finitely many entries.
LEMMA EntriesFinite == IsFiniteSet(Entries) /\ Entries \subseteq Nat
  BY OpensslAssumption, FS_Interval DEF Entries

\* What holds a session is counted.
LEMMA HoldersFinite ==
    ASSUME NEW x
    PROVE  /\ IsFiniteSet(Offering(x)) /\ Cardinality(Offering(x)) \in Nat
           /\ IsFiniteSet(Caching(x)) /\ Cardinality(Caching(x)) \in Nat
           /\ IsFiniteSet(Offering(x)') /\ Cardinality(Offering(x)') \in Nat
           /\ IsFiniteSet(Caching(x)') /\ Cardinality(Caching(x)') \in Nat
  <1>1. /\ Offering(x) \in SUBSET Tasks /\ Caching(x) \in SUBSET Entries
        /\ Offering(x)' \in SUBSET Tasks /\ Caching(x)' \in SUBSET Entries
    BY DEF Offering, Caching
  <1>2. QED
    BY <1>1, OpensslAssumption, EntriesFinite, FS_Subset, FS_CardinalityType

\* A session that is held is referred to.
LEMMA HeldReferred ==
    ASSUME OpensslTypeOK, RefsCounted, NEW x \in Sessions,
           (\E t \in Tasks : offered[t] = x) \/ (\E i \in Entries : entries[i].session = x)
    PROVE  refs[x] > 0
  <1>1. CASE \E t \in Tasks : offered[t] = x
    <2>1. PICK t \in Tasks : t \in Offering(x)
      BY <1>1 DEF Offering
    <2>2. QED
      BY <2>1, HoldersFinite, Positive DEF RefsCounted
  <1>2. CASE \E i \in Entries : entries[i].session = x
    <2>1. PICK i \in Entries : i \in Caching(x)
      BY <1>2 DEF Caching
    <2>2. QED
      BY <2>1, HoldersFinite, Positive DEF RefsCounted
  <1>3. QED
    BY <1>1, <1>2

\* The same after a step.
LEMMA HeldReferredNext ==
    ASSUME OpensslTypeOK', RefsCounted', NEW x \in Sessions,
           (\E t \in Tasks : offered'[t] = x) \/ (\E i \in Entries : entries'[i].session = x)
    PROVE  refs'[x] > 0
  <1>1. CASE \E t \in Tasks : offered'[t] = x
    <2>1. PICK t \in Tasks : t \in Offering(x)'
      BY <1>1 DEF Offering
    <2>2. QED
      BY <2>1, HoldersFinite, Positive DEF RefsCounted
  <1>2. CASE \E i \in Entries : entries'[i].session = x
    <2>1. PICK i \in Entries : i \in Caching(x)'
      BY <1>2 DEF Caching
    <2>2. QED
      BY <2>1, HoldersFinite, Positive DEF RefsCounted
  <1>3. QED
    BY <1>1, <1>2

\* How many hold x after t offers b, and after entry i is changed.
OfferMoved(t, b, x) ==
    Cardinality(Offering(x)') = (Cardinality(Offering(x)) - Is(offered[t], x)) + Is(b, x)
EntryMoved(i, x) ==
    Cardinality(Caching(x)') =
        (Cardinality(Caching(x)) - Is(entries[i].session, x)) + Is(entries'[i].session, x)

\* A step changes what one task offers.
LEMMA OfferMoves ==
    ASSUME OpensslTypeOK, NEW t \in Tasks, NEW b, offered' = [offered EXCEPT ![t] = b], NEW x
    PROVE  OfferMoved(t, b, x)
  <1>1. \A u \in Tasks \ {t} : offered'[u] = offered[u]
    BY DEF OpensslTypeOK
  <1>2. offered'[t] = b
    BY DEF OpensslTypeOK
  <1>3. Offering(x) = Having(Tasks, offered, x) /\ Offering(x)' = Having(Tasks, offered', x)
    BY DEF Offering, Having
  <1>4. Moved(Tasks, t, offered, offered', x)
    BY <1>1, OpensslAssumption, CountMoves, Zenon
  <1>5. QED
    BY <1>2, <1>3, <1>4 DEF Moved, OfferMoved

\* A step changes one entry.
LEMMA EntryMoves ==
    ASSUME NEW i \in Entries, \A j \in Entries \ {i} : entries'[j] = entries[j], NEW x
    PROVE  EntryMoved(i, x)
  <1> DEFINE f == [j \in Entries |-> entries[j].session]
             g == [j \in Entries |-> entries'[j].session]
  <1>1. \A u \in Entries \ {i} : g[u] = f[u]
    OBVIOUS
  <1>2. /\ Having(Entries, f, x) = Caching(x) /\ Having(Entries, g, x) = Caching(x)'
        /\ f[i] = entries[i].session /\ g[i] = entries'[i].session
    BY DEF Caching, Having
  <1> HIDE DEF f, g
  <1>3. Moved(Entries, i, f, g, x)
    BY <1>1, EntriesFinite, CountMoves, Zenon
  <1>4. QED
    BY <1>2, <1>3 DEF Moved, EntryMoved

\* Sessions keep their hosts while they are held.
LEMMA HostsKept ==
    ASSUME OpensslTypeOK, OpensslTypeOK', RefsCounted',
           \A y \in Sessions : host_of'[y] = IF refs'[y] = 0 THEN NoHost ELSE host_of[y]
    PROVE  /\ \A t \in Tasks :
                offered'[t] # NoSession => host_of'[offered'[t]] = host_of[offered'[t]]
           /\ \A i \in Entries : entries'[i].session # NoSession =>
                host_of'[entries'[i].session] = host_of[entries'[i].session]
  <1>1. ASSUME NEW t \in Tasks, offered'[t] # NoSession
        PROVE  host_of'[offered'[t]] = host_of[offered'[t]]
    <2>1. offered'[t] \in Sessions
      BY <1>1 DEF OpensslTypeOK
    <2>2. refs'[offered'[t]] > 0
      BY <2>1, HeldReferredNext
    <2>3. QED
      BY <2>1, <2>2
  <1>2. ASSUME NEW i \in Entries, entries'[i].session # NoSession
        PROVE  host_of'[entries'[i].session] = host_of[entries'[i].session]
    <2>1. entries'[i].session \in Sessions
      BY <1>2 DEF OpensslTypeOK
    <2>2. refs'[entries'[i].session] > 0
      BY <2>1, HeldReferredNext
    <2>3. QED
      BY <2>1, <2>2
  <1>3. QED
    BY <1>1, <1>2

\* No two entries hold the same session, nor sessions of the same host.
LEMMA OneEntry ==
    ASSUME SessionInv, NEW i \in Entries, NEW j \in Entries,
           entries[i].session # NoSession, entries[j].session # NoSession,
           entries[i].session = entries[j].session \/ entries[i].host = entries[j].host
    PROVE  i = j
  BY DEF SessionInv, EntriesOfHosts, OneOfAHost

\* on_new_session() finds an entry that there is.
LEMMA EntryForIsIn == ASSUME SessionInv, NEW h PROVE EntryFor(h) \in Entries
  <1> DEFINE free == {i \in DOMAIN entries : entries[i].session = NoSession}
  <1>1. DOMAIN entries = Entries /\ next \in Entries
    BY DEF SessionInv, OpensslTypeOK
  <1>2. free \in SUBSET Nat /\ Found(h) \in SUBSET Nat
    BY <1>1, EntriesFinite DEF Found
  <1>3. free # {} => Min(free) \in free
    BY <1>2, MinIsIn
  <1>4. Found(h) # {} => Min(Found(h)) \in Found(h)
    BY <1>2, MinIsIn
  <1>5. QED
    BY <1>1, <1>3, <1>4 DEF EntryFor, Found

\* The entry a session of a host is put in is the only one that may be of the host.
LEMMA EntryForIsTheHosts ==
    ASSUME SessionInv, NEW h, NEW j \in Entries, entries[j].session # NoSession,
           entries[j].host = h
    PROVE  EntryFor(h) = j
  <1>1. j \in Found(h) /\ Found(h) \in SUBSET Nat
    BY EntriesFinite DEF Found, SessionInv, OpensslTypeOK
  <1>2. Min(Found(h)) \in Found(h)
    BY <1>1, MinIsIn
  <1>3. EntryFor(h) \in Found(h)
    BY <1>1, <1>2 DEF EntryFor
  <1>4. QED
    BY <1>3, OneEntry DEF Found, SessionInv, OpensslTypeOK

\* Most steps leave the cache and change what one task offers.
LEMMA OfferStep ==
    ASSUME SessionInv, NEW t \in Tasks, NEW b \in Sessions \cup {NoSession},
           offered' = [offered EXCEPT ![t] = b], UNCHANGED <<has_cache, entries, next>>,
           \A x \in Sessions :
               refs'[x] = (refs[x] + Is(x, b)) - Is(x, offered[t]),
           refs' = [x \in Sessions |-> refs'[x]],
           host_of' = [y \in Sessions |-> IF refs'[y] = 0 THEN NoHost ELSE host_of[y]],
           pos' \in [Tasks -> {"closed", "handshake", "open", "forget", "failed"}],
           host' \in [Tasks -> Hosts \cup {NoHost}],
           \A u \in Tasks \ {t} : pos'[u] = pos[u] /\ host'[u] = host[u],
           b # NoSession => host_of[b] = host'[t],
           pos'[t] = "closed" => b = NoSession
    PROVE  SessionInv'
  <1>1. RefsCounted'
    <2>1. ASSUME NEW x \in Sessions
          PROVE  refs'[x] = Cardinality(Offering(x)') + Cardinality(Caching(x)')
      <3>1. refs[x] = Cardinality(Offering(x)) + Cardinality(Caching(x)) /\ refs[x] \in Nat
        BY DEF SessionInv, RefsCounted, OpensslTypeOK
      <3>2. Caching(x)' = Caching(x)
        BY DEF Caching
      <3>3. OfferMoved(t, b, x)
        <4>1. OpensslTypeOK
          BY DEF SessionInv
        <4>2. QED
          BY <4>1, OfferMoves, Zenon
      <3>4. QED
        BY <3>1, <3>2, <3>3, HoldersFinite DEF OfferMoved, Is
    <2>2. QED
      BY <2>1 DEF RefsCounted
  <1>2. OpensslTypeOK'
    <2>1. refs' \in [Sessions -> Nat]
      BY <1>1, HoldersFinite DEF RefsCounted
    <2>2. QED
      BY <2>1 DEF SessionInv, OpensslTypeOK
  <1>3. /\ \A u \in Tasks : offered'[u] # NoSession => host_of'[offered'[u]] = host_of[offered'[u]]
        /\ \A i \in Entries : entries'[i].session # NoSession =>
                host_of'[entries'[i].session] = host_of[entries'[i].session]
    BY <1>1, <1>2, HostsKept DEF SessionInv
  <1>4. EntriesOfHosts' /\ OneOfAHost'
    BY <1>3 DEF SessionInv, EntriesOfHosts, OneOfAHost
  <1>5. OffersOfHosts'
    BY <1>3 DEF SessionInv, OpensslTypeOK, OffersOfHosts
  <1>6. IdleHoldsNothing'
    BY DEF SessionInv, OpensslTypeOK, IdleHoldsNothing
  <1>7. QED
    BY <1>1, <1>2, <1>4, <1>5, <1>6 DEF SessionInv

\* The session a server gives takes the place of what the task offered and, in the
\* cache, of what the entry held.
LEMMA NewSessionStep == ASSUME SessionInv, NEW t \in Tasks, OnNewSession(t) PROVE SessionInv'
  <1> DEFINE i == EntryFor(host[t])
             evicted == IF has_cache THEN entries[i].session ELSE NoSession
             Freed(y) == Cardinality({who \in {"ssl", "cache"} :
                           y = IF who = "ssl" THEN offered[t] ELSE evicted})
  <1>1. PICK x \in Sessions :
          /\ refs[x] = 0
          /\ offered' = [offered EXCEPT ![t] = x]
          /\ refs' = [y \in Sessions |->
                 IF y = x THEN IF has_cache THEN 2 ELSE 1 ELSE refs[y] - Freed(y)]
          /\ host_of' = [y \in Sessions |->
                 IF y = x THEN host[t] ELSE IF refs'[y] = 0 THEN NoHost ELSE host_of[y]]
          /\ IF has_cache
             THEN /\ entries' = [entries EXCEPT ![i] = [host |-> host[t], session |-> x]]
                  /\ next' = NextAfter(host[t])
             ELSE UNCHANGED <<entries, next>>
    BY DEF OnNewSession
  <1>2. UNCHANGED <<pos, host, has_cache>> /\ pos[t] # "closed"
    BY DEF OnNewSession
  <1>3. i \in Entries
    BY EntryForIsIn
  <1>4. \A y : Freed(y) = Is(offered[t], y) + Is(evicted, y)
    <2> TAKE y
    <2> DEFINE S == {who \in {"ssl", "cache"} : y = IF who = "ssl" THEN offered[t] ELSE evicted}
    <2>1. /\ Cardinality({}) = 0 /\ Cardinality({"ssl"}) = 1 /\ Cardinality({"cache"}) = 1
          /\ Cardinality({"ssl"} \cup {"cache"}) = 2
      <3>1. IsFiniteSet({"ssl"})
        BY FS_Singleton
      <3>2. Cardinality({"ssl"}) = 1 /\ Cardinality({"cache"}) = 1 /\ Cardinality({}) = 0
        BY FS_EmptySet, FS_Singleton
      <3>3. Cardinality({"ssl"} \cup {"cache"}) = Cardinality({"ssl"}) + 1
        BY <3>1, FS_AddElement
      <3>4. QED
        BY <3>2, <3>3
    <2> HIDE DEF evicted
    <2>2. CASE offered[t] = y /\ evicted = y
      <3>1. S = {"ssl"} \cup {"cache"}
        BY <2>2
      <3>2. QED
        BY <2>1, <2>2, <3>1 DEF Is
    <2>3. CASE offered[t] = y /\ evicted # y
      <3>1. S = {"ssl"}
        BY <2>3
      <3>2. QED
        BY <2>1, <2>3, <3>1 DEF Is
    <2>4. CASE offered[t] # y /\ evicted = y
      <3>1. S = {"cache"}
        BY <2>4
      <3>2. QED
        BY <2>1, <2>4, <3>1 DEF Is
    <2>5. CASE offered[t] # y /\ evicted # y
      <3>1. S = {}
        BY <2>5
      <3>2. QED
        BY <2>1, <2>5, <3>1 DEF Is
    <2>6. QED
      BY <2>2, <2>3, <2>4, <2>5
  <1> HIDE DEF Freed
  <1>5. /\ x # NoSession /\ offered[t] # x /\ \A j \in Entries : entries[j].session # x
        /\ \A u \in Tasks : offered[u] # x
    <2>1. x # NoSession /\ ~(refs[x] > 0) /\ OpensslTypeOK /\ RefsCounted
      BY <1>1, OpensslAssumption DEF Sessions, SessionInv
    <2>2. ~((\E u \in Tasks : offered[u] = x) \/ (\E j \in Entries : entries[j].session = x))
      BY <2>1, HeldReferred
    <2>3. QED
      BY <2>1, <2>2
  <1>6. /\ \A j \in Entries \ {i} : entries'[j] = entries[j]
        /\ has_cache => entries'[i].session = x /\ entries'[i].host = host[t]
        /\ ~has_cache => entries' = entries
    BY <1>1, <1>3 DEF SessionInv, OpensslTypeOK
  <1>7. ASSUME NEW y \in Sessions
        PROVE  refs'[y] = Cardinality(Offering(y)') + Cardinality(Caching(y)')
    <2>1. OfferMoved(t, x, y)
      BY <1>1, OfferMoves DEF SessionInv
    <2>2. EntryMoved(i, y)
      BY <1>3, <1>6, EntryMoves
    <2>3. refs[y] = Cardinality(Offering(y)) + Cardinality(Caching(y)) /\ refs[y] \in Nat
      BY DEF SessionInv, RefsCounted, OpensslTypeOK
    <2>4. /\ Cardinality(Offering(y)) \in Nat /\ Cardinality(Offering(y)') \in Nat
          /\ Cardinality(Caching(y)) \in Nat /\ Cardinality(Caching(y)') \in Nat
      BY HoldersFinite
    <2>5. /\ evicted = IF has_cache THEN entries[i].session ELSE NoSession
          /\ NoSession # y
      BY OpensslAssumption DEF Sessions
    <2> HIDE DEF evicted
    <2>6. CASE y = x
      <3>1. Is(offered[t], y) = 0 /\ Is(x, y) = 1 /\ Is(entries[i].session, y) = 0
        BY <1>3, <1>5, <2>6 DEF Is
      <3>2. Is(entries'[i].session, y) = IF has_cache THEN 1 ELSE 0
        BY <1>3, <1>5, <1>6, <2>6 DEF Is
      <3>3. refs'[y] = IF has_cache THEN 2 ELSE 1
        BY <1>1, <2>6
      <3>4. refs[y] = 0
        BY <1>1, <2>6
      <3>5. CASE has_cache
        BY <2>1, <2>2, <2>3, <2>4, <3>1, <3>2, <3>3, <3>4, <3>5 DEF OfferMoved, EntryMoved
      <3>6. CASE ~has_cache
        BY <2>1, <2>2, <2>3, <2>4, <3>1, <3>2, <3>3, <3>4, <3>6 DEF OfferMoved, EntryMoved
      <3>7. QED
        BY <3>5, <3>6
    <2>7. CASE y # x
      <3>1. refs'[y] = refs[y] - (Is(offered[t], y) + Is(evicted, y)) /\ Is(x, y) = 0
        BY <1>1, <1>4, <2>7 DEF Is
      <3>2. Is(entries[i].session, y) - Is(entries'[i].session, y) = Is(evicted, y)
        BY <1>6, <2>5, <2>7 DEF Is
      <3>3. /\ Is(entries[i].session, y) \in {0, 1} /\ Is(entries'[i].session, y) \in {0, 1}
            /\ Is(offered[t], y) \in {0, 1} /\ Is(evicted, y) \in {0, 1}
        BY DEF Is
      <3>4. QED
        BY <2>1, <2>2, <2>3, <2>4, <3>1, <3>2, <3>3 DEF OfferMoved, EntryMoved
    <2>8. QED
      BY <2>6, <2>7
  <1>8. RefsCounted'
    BY <1>7 DEF RefsCounted
  <1>9. OpensslTypeOK'
    <2>1. \A y \in Sessions : refs'[y] \in Nat
      BY <1>7, HoldersFinite
    <2>2. refs' \in [Sessions -> Nat]
      BY <1>1, <2>1
    <2>3. next' \in Entries
      BY <1>1, OpensslAssumption DEF NextAfter, SessionInv, OpensslTypeOK, Entries
    <2>4. host_of' \in [Sessions -> Hosts \cup {NoHost}]
      BY <1>1 DEF SessionInv, OpensslTypeOK
    <2>5. entries' \in
            [Entries -> [host : Hosts \cup {NoHost}, session : Sessions \cup {NoSession}]]
      <3>1. CASE has_cache
        BY <1>1, <1>3, <3>1 DEF SessionInv, OpensslTypeOK
      <3>2. CASE ~has_cache
        BY <1>1, <3>2 DEF SessionInv, OpensslTypeOK
      <3>3. QED
        BY <3>1, <3>2
    <2>6. QED
      BY <1>1, <1>2, <2>2, <2>3, <2>4, <2>5 DEF SessionInv, OpensslTypeOK
  <1>10. ASSUME NEW y \in Sessions, y # x, refs'[y] > 0 PROVE host_of'[y] = host_of[y]
    BY <1>1, <1>10
  <1>11. host_of'[x] = host[t]
    BY <1>1
  <1>12. EntriesOfHosts'
    <2> SUFFICES ASSUME NEW j \in Entries, entries'[j].session # NoSession
                 PROVE  host_of'[entries'[j].session] = entries'[j].host
      BY DEF EntriesOfHosts
    <2>1. entries'[j].session \in Sessions /\ refs'[entries'[j].session] > 0
      BY <1>8, <1>9, HeldReferredNext DEF OpensslTypeOK
    <2>2. CASE entries'[j].session = x
      BY <1>5, <1>6, <1>11, <2>2
    <2>3. CASE entries'[j].session # x
      <3>1. entries'[j] = entries[j]
        BY <1>6, <2>3
      <3>2. QED
        BY <1>10, <2>1, <2>3, <3>1 DEF SessionInv, EntriesOfHosts
    <2>4. QED
      BY <2>2, <2>3
  <1>13. OneOfAHost'
    <2>1. ASSUME NEW j \in Entries, j # i, has_cache, entries[j].session # NoSession
          PROVE  entries[j].host # host[t]
      BY <2>1, EntryForIsTheHosts
    <2>2. CASE has_cache
      BY <1>3, <1>6, <2>1, <2>2 DEF SessionInv, OneOfAHost
    <2>3. CASE ~has_cache
      BY <1>6, <2>3 DEF SessionInv, OneOfAHost
    <2>4. QED
      BY <2>2, <2>3
  <1>14. OffersOfHosts'
    <2> SUFFICES ASSUME NEW u \in Tasks, offered'[u] # NoSession
                 PROVE  host_of'[offered'[u]] = host'[u]
      BY DEF OffersOfHosts
    <2>1. offered'[u] \in Sessions /\ refs'[offered'[u]] > 0
      BY <1>8, <1>9, HeldReferredNext DEF OpensslTypeOK
    <2>2. CASE u = t
      BY <1>1, <1>2, <1>11, <2>2 DEF SessionInv, OpensslTypeOK
    <2>3. CASE u # t
      <3>1. offered'[u] = offered[u] /\ offered[u] # x
        BY <1>1, <1>5, <2>3 DEF SessionInv, OpensslTypeOK
      <3>2. QED
        BY <1>2, <1>10, <2>1, <3>1 DEF SessionInv, OffersOfHosts
    <2>4. QED
      BY <2>2, <2>3
  <1>15. IdleHoldsNothing'
    BY <1>1, <1>2, <1>6 DEF SessionInv, OpensslTypeOK, IdleHoldsNothing
  <1>16. QED
    BY <1>8, <1>9, <1>12, <1>13, <1>14, <1>15 DEF SessionInv

\* Forgetting a host empties the one entry it has.
LEMMA ForgetStep == ASSUME SessionInv, NEW t \in Tasks, ForgetSession(t) PROVE SessionInv'
  <1> DEFINE h == host[t]
             down == {entries[i].session : i \in Found(h)}
  <1>1. /\ pos[t] = "forget" /\ pos' = [pos EXCEPT ![t] = "failed"]
        /\ UNCHANGED <<host, offered, has_cache, next>>
        /\ entries' = [i \in Entries |-> IF i \in Found(h) THEN Empty ELSE entries[i]]
        /\ refs' = [x \in Sessions |-> (refs[x] + 0) - (IF x \in down THEN 1 ELSE 0)]
        /\ host_of' = [x \in Sessions |-> IF refs'[x] = 0 THEN NoHost ELSE host_of[x]]
    BY DEF ForgetSession, References, SessionInv, OpensslTypeOK
  <1>2. Found(h) = {i \in Entries : entries[i].session # NoSession /\ entries[i].host = h}
    BY DEF Found, SessionInv, OpensslTypeOK
  <1>3. ASSUME NEW y \in Sessions
        PROVE  refs'[y] = Cardinality(Offering(y)') + Cardinality(Caching(y)')
    <2>1. Offering(y)' = Offering(y)
      BY <1>1 DEF Offering
    <2>2. refs[y] = Cardinality(Offering(y)) + Cardinality(Caching(y)) /\ refs[y] \in Nat
      BY DEF SessionInv, RefsCounted, OpensslTypeOK
    <2>3. /\ Cardinality(Offering(y)) \in Nat
          /\ Cardinality(Caching(y)) \in Nat /\ Cardinality(Caching(y)') \in Nat
      BY HoldersFinite
    <2>f. refs'[y] = (refs[y] + 0) - (IF y \in down THEN 1 ELSE 0)
      BY <1>1
    <2>4. CASE Found(h) = {}
      <3>1. entries' = entries /\ down = {}
        BY <1>1, <2>4 DEF SessionInv, OpensslTypeOK
      <3>2. Caching(y)' = Caching(y)
        BY <3>1 DEF Caching
      <3>3. refs'[y] = refs[y]
        <4> HIDE DEF down
        <4> QED
          BY <2>2, <2>f, <3>1
      <3>4. QED
        BY <2>1, <2>2, <3>2, <3>3
    <2>5. CASE Found(h) # {}
      <3>1. PICK i \in Entries : i \in Found(h)
        BY <1>2, <2>5
      <3>2. Found(h) = {i}
        BY <1>2, <3>1, OneEntry
      <3>3. /\ \A j \in Entries \ {i} : entries'[j] = entries[j]
            /\ entries'[i].session = NoSession /\ down = {entries[i].session}
        BY <1>1, <3>2 DEF Empty
      <3>4. EntryMoved(i, y)
        BY <3>3, EntryMoves
      <3>5. Is(entries'[i].session, y) = 0
        BY <3>3, OpensslAssumption DEF Is, Sessions
      <3>6. refs'[y] = refs[y] - Is(entries[i].session, y)
        <4> HIDE DEF down
        <4> QED
          BY <2>2, <2>f, <3>3 DEF Is
      <3>7. Is(entries[i].session, y) \in {0, 1}
        BY DEF Is
      <3>8. QED
        BY <2>1, <2>2, <2>3, <3>4, <3>5, <3>6, <3>7 DEF EntryMoved
    <2>6. QED
      BY <2>4, <2>5
  <1>4. RefsCounted'
    BY <1>3 DEF RefsCounted
  <1>5. OpensslTypeOK'
    <2>1. refs' \in [Sessions -> Nat]
      BY <1>1, <1>3, HoldersFinite
    <2>2. entries' \in
            [Entries -> [host : Hosts \cup {NoHost}, session : Sessions \cup {NoSession}]]
      BY <1>1 DEF SessionInv, OpensslTypeOK, Empty
    <2>3. QED
      BY <1>1, <2>1, <2>2 DEF SessionInv, OpensslTypeOK
  <1>6. /\ \A u \in Tasks : offered'[u] # NoSession => host_of'[offered'[u]] = host_of[offered'[u]]
        /\ \A i \in Entries : entries'[i].session # NoSession =>
                host_of'[entries'[i].session] = host_of[entries'[i].session]
    BY <1>1, <1>4, <1>5, HostsKept DEF SessionInv
  <1>7. \A i \in Entries :
          entries'[i] = entries[i] \/ (entries'[i].session = NoSession /\ entries'[i].host = NoHost)
    BY <1>1 DEF Empty
  <1>8. EntriesOfHosts' /\ OneOfAHost'
    BY <1>6, <1>7 DEF SessionInv, EntriesOfHosts, OneOfAHost
  <1>9. OffersOfHosts' /\ IdleHoldsNothing'
    <2>1. \A u \in Tasks : pos'[u] = "closed" => pos[u] = "closed"
      BY <1>1 DEF SessionInv, OpensslTypeOK
    <2>2. offered' = offered /\ host' = host
      BY <1>1
    <2>3. OffersOfHosts'
      BY <1>6, <2>2 DEF SessionInv, OffersOfHosts
    <2>4. ASSUME NEW u \in Tasks PROVE pos'[u] = "closed" => offered'[u] = NoSession
      BY <2>1, <2>2 DEF SessionInv, IdleHoldsNothing
    <2>5. ~has_cache' => \A i \in Entries : entries'[i].session = NoSession
      BY <1>1, <1>7 DEF SessionInv, IdleHoldsNothing
    <2>6. QED
      BY <2>3, <2>4, <2>5 DEF IdleHoldsNothing
  <1>10. QED
    BY <1>4, <1>5, <1>8, <1>9 DEF SessionInv

\* However tasks put sessions in, forget and evict them: SSL_SESSIONs are referred to by
\* exactly those that hold them, the cache keeps at most one of a host, and what is
\* offered to a host is the host's (on_new_session(), offer_session(),
\* forget_session()).
THEOREM SessionAccountedCorrect == OpensslSpec => []SessionAccounted
  <1>1. OpensslInit => SessionInv
    <2> SUFFICES ASSUME OpensslInit PROVE SessionInv
      OBVIOUS
    <2>1. OpensslTypeOK
      BY OpensslAssumption DEF OpensslInit, OpensslTypeOK, Empty, Entries
    <2>2. RefsCounted
      <3>1. \A x \in Sessions : Offering(x) = {} /\ Caching(x) = {}
        BY OpensslAssumption DEF OpensslInit, Offering, Caching, Empty, Entries, Sessions
      <3>2. Cardinality({}) = 0 /\ \A x \in Sessions : refs[x] = 0
        BY FS_EmptySet DEF OpensslInit
      <3>3. QED
        BY <3>1, <3>2 DEF RefsCounted
    <2>3. EntriesOfHosts /\ OneOfAHost /\ OffersOfHosts /\ IdleHoldsNothing
      BY DEF OpensslInit, EntriesOfHosts, OneOfAHost, OffersOfHosts, IdleHoldsNothing, Empty,
         Entries
    <2>4. QED
      BY <2>1, <2>2, <2>3 DEF SessionInv
  <1>2. SessionInv /\ [OpensslNext]_opensslVars => SessionInv'
    <2> SUFFICES ASSUME SessionInv, [OpensslNext]_opensslVars PROVE SessionInv'
      OBVIOUS
    <2> USE DEF opensslVars, cacheVars
    <2>a. \A x \in Sessions : x # NoSession
      BY OpensslAssumption DEF Sessions
    <2>1. ASSUME NEW t \in Tasks, OConnect(t) PROVE SessionInv'
      <3>h. PICK h \in Hosts :
              /\ host' = [host EXCEPT ![t] = h]
              /\ \E x \in OfferFor(h) \cup {NoSession} :
                    offered' = [offered EXCEPT ![t] = x] /\ References({x}, {})
        BY <2>1 DEF OConnect
      <3>1. PICK x \in OfferFor(h) \cup {NoSession} :
              offered' = [offered EXCEPT ![t] = x] /\ References({x}, {})
        BY <3>h
      <3>2. /\ pos[t] = "closed" /\ pos' = [pos EXCEPT ![t] = "handshake"]
            /\ UNCHANGED <<has_cache, entries, next>>
        BY <2>1 DEF OConnect
      <3>3. x # NoSession => x \in Sessions /\ host_of[x] = h
        BY <3>1 DEF OfferFor, Found, SessionInv, OpensslTypeOK, EntriesOfHosts
      <3>4. offered[t] = NoSession
        BY <3>2 DEF SessionInv, IdleHoldsNothing
      <3>5. /\ \A y \in Sessions : refs'[y] = (refs[y] + Is(y, x)) - Is(y, offered[t])
            /\ refs' = [y \in Sessions |-> refs'[y]]
            /\ host_of' = [y \in Sessions |-> IF refs'[y] = 0 THEN NoHost ELSE host_of[y]]
        BY <2>a, <3>1, <3>4 DEF References, Is, SessionInv, OpensslTypeOK
      <3>6. /\ pos' \in [Tasks -> {"closed", "handshake", "open", "forget", "failed"}]
            /\ host' \in [Tasks -> Hosts \cup {NoHost}]
            /\ \A u \in Tasks \ {t} : pos'[u] = pos[u] /\ host'[u] = host[u]
            /\ pos'[t] # "closed" /\ host'[t] = h /\ x \in Sessions \cup {NoSession}
        BY <3>h, <3>1, <3>2, <3>3 DEF SessionInv, OpensslTypeOK
      <3>7. QED
        BY <3>h, <3>1, <3>2, <3>3, <3>5, <3>6, OfferStep, ZenonT(30)
    <2>2. ASSUME NEW t \in Tasks, OConnectFails(t) \/ OClose(t) PROVE SessionInv'
      <3>1. FreeSsl(t)
        BY <2>2 DEF OConnectFails, OClose
      <3>2. /\ \A y \in Sessions : refs'[y] = (refs[y] + Is(y, NoSession)) - Is(y, offered[t])
            /\ refs' = [y \in Sessions |-> refs'[y]]
            /\ host_of' = [y \in Sessions |-> IF refs'[y] = 0 THEN NoHost ELSE host_of[y]]
        BY <2>a, <3>1 DEF FreeSsl, References, Is, SessionInv, OpensslTypeOK
      <3>3. /\ pos' \in [Tasks -> {"closed", "handshake", "open", "forget", "failed"}]
            /\ host' \in [Tasks -> Hosts \cup {NoHost}]
            /\ \A u \in Tasks \ {t} : pos'[u] = pos[u] /\ host'[u] = host[u]
            /\ offered' = [offered EXCEPT ![t] = NoSession]
            /\ UNCHANGED <<has_cache, entries, next>>
        BY <3>1 DEF FreeSsl, SessionInv, OpensslTypeOK
      <3>4. QED
        BY <3>2, <3>3, OfferStep
    <2>3. ASSUME NEW t \in Tasks, HandshakeDone(t) \/ OHandshakeFails(t) PROVE SessionInv'
      <3>1. /\ UNCHANGED <<host, offered, has_cache, cacheVars>> /\ pos[t] = "handshake"
            /\ \E to \in {"open", "forget"} : pos' = [pos EXCEPT ![t] = to]
        BY <2>3 DEF HandshakeDone, OHandshakeFails
      <3>2. OpensslTypeOK' /\ IdleHoldsNothing'
        BY <3>1 DEF SessionInv, OpensslTypeOK, IdleHoldsNothing
      <3>3. RefsCounted' /\ EntriesOfHosts' /\ OneOfAHost' /\ OffersOfHosts'
        BY <3>1 DEF SessionInv, RefsCounted, Offering, Caching, EntriesOfHosts, OneOfAHost,
           OffersOfHosts
      <3>4. QED
        BY <3>2, <3>3 DEF SessionInv
    <2>4. CASE UNCHANGED opensslVars
      <3>1. OpensslTypeOK' /\ IdleHoldsNothing'
        BY <2>4 DEF SessionInv, OpensslTypeOK, IdleHoldsNothing
      <3>2. RefsCounted' /\ EntriesOfHosts' /\ OneOfAHost' /\ OffersOfHosts'
        BY <2>4 DEF SessionInv, RefsCounted, Offering, Caching, EntriesOfHosts, OneOfAHost,
           OffersOfHosts
      <3>3. QED
        BY <3>1, <3>2 DEF SessionInv
    <2>5. QED
      BY <2>1, <2>2, <2>3, <2>4, NewSessionStep, ForgetStep DEF OpensslNext
  <1>3. SessionInv => SessionAccounted
    BY DEF SessionInv, OpensslTypeOK, RefsCounted, Offering, Caching, EntriesOfHosts, OneOfAHost,
       OffersOfHosts, SessionAccounted
  <1>4. QED
    BY <1>1, <1>2, <1>3, PTL DEF OpensslSpec

-----------------------------------------------------------------------------
(* The Schannel socket: the pieces of a stream's records.                  *)

Piece == Nat \X Nat
Size(s, i) == s.records[i].size

\* What SchannelAssumption says of one of the peers' streams.
StreamIs(s) ==
    /\ Len(s.records) \in Nat
    /\ \A i \in 1 .. Len(s.records) :
        /\ Size(s, i) \in Nat \ {0}
        /\ s.records[i].data \in Seq(Nat)
        /\ Size(s, i) = 1 => s.records[i].data = <<>>
        /\ s.records[i].kind = "handshake" => s.records[i].data = <<>>

\* That is what SchannelAssumption says of all of them.
LEMMA StreamsAre == ASSUME NEW s \in Streams PROVE StreamIs(s)
  <1> DEFINE t == s.records
  <1>1. /\ t \in Seq(Range(t))
        /\ \A r \in Range(t) :
            /\ r.size \in Nat /\ r.data \in Seq(Nat) /\ Len(r.data) < r.size
            /\ r.kind = "handshake" => r.data = <<>>
    BY SchannelAssumption, Zenon DEF SchannelAssumption
  <1> HIDE DEF t
  <1>2. Len(t) \in Nat
    BY <1>1
  <1>3. ASSUME NEW i \in 1 .. Len(t)
        PROVE  /\ t[i].size \in Nat \ {0} /\ t[i].data \in Seq(Nat)
               /\ t[i].size = 1 => t[i].data = <<>>
               /\ t[i].kind = "handshake" => t[i].data = <<>>
    <2>1. t[i] \in Range(t)
      BY <1>1 DEF Range
    <2>2. /\ t[i].size \in Nat /\ t[i].data \in Seq(Nat) /\ Len(t[i].data) < t[i].size
          /\ t[i].kind = "handshake" => t[i].data = <<>>
      BY <1>1, <2>1, Zenon
    <2> DEFINE d == t[i].data
    <2>3. d \in Seq(Nat) /\ Len(d) < t[i].size /\ t[i].size \in Nat
      BY <2>2
    <2> HIDE DEF d
    <2>4. t[i].size # 0 /\ (t[i].size = 1 => d = <<>>)
      BY <2>3
    <2>5. QED
      BY <2>2, <2>4 DEF d
  <1>4. QED
    BY <1>2, <1>3, Zenon DEF StreamIs, Size, t

\* The piece q comes after p.
Follows(s, p, q) ==
    \/ p[2] < Size(s, p[1]) /\ q[1] = p[1] /\ q[2] = p[2] + 1
    \/ p[2] = Size(s, p[1]) /\ q[1] = p[1] + 1 /\ q[2] = 1

\* Pieces of the stream, one after the other.
InOrder(s, c) ==
    /\ c \in Seq(Piece)
    /\ \A j \in 1 .. Len(c) : c[j][1] \in 1 .. Len(s.records) /\ c[j][2] \in 1 .. Size(s, c[j][1])
    /\ \A j \in 1 .. (Len(c) - 1) : Follows(s, c[j], c[j + 1])

\* Those of the first n records.
UpTo(s, c, n) ==
    /\ InOrder(s, c)
    /\ IF n = 0 THEN c = <<>>
       ELSE /\ c # <<>>
            /\ c[1][1] = 1 /\ c[1][2] = 1
            /\ c[Len(c)][1] = n /\ c[Len(c)][2] = Size(s, n)

PiecesOf(s) == [i \in 1 .. Len(s.records) |-> [k \in 1 .. s.records[i].size |-> <<i, k>>]]

\* One record more.
LEMMA UpToNext ==
    ASSUME NEW s, StreamIs(s), NEW n \in Nat, n + 1 <= Len(s.records),
           NEW c, UpTo(s, c, n)
    PROVE  UpTo(s, c \o PiecesOf(s)[n + 1], n + 1)
  <1> DEFINE z == Size(s, n + 1)
             h == PiecesOf(s)[n + 1]
             d == c \o h
  <1>1. n + 1 \in 1 .. Len(s.records) /\ z \in Nat \ {0}
    BY DEF StreamIs
  <1>2. h = [k \in 1 .. z |-> <<n + 1, k>>]
    BY <1>1 DEF PiecesOf, Size
  <1> HIDE DEF h, z
  <1>3. /\ h \in Seq(Piece) /\ Len(h) = z
        /\ \A k \in 1 .. z : h[k] = <<n + 1, k>>
    <2>1. \A k \in 1 .. z : <<n + 1, k>> \in Piece
      BY <1>1 DEF Piece
    <2>2. QED
      BY <1>1, <1>2, <2>1
  <1>4. \A k \in 1 .. z : h[k][1] = n + 1 /\ h[k][2] = k
    BY <1>3
  <1>5. c \in Seq(Piece) /\ Len(c) \in Nat
    BY DEF UpTo, InOrder
  <1>6. d \in Seq(Piece) /\ Len(d) = Len(c) + z
    <2>1. h \in Seq(Piece) /\ Len(h) = z
      BY <1>3
    <2>2. QED
      BY <1>5, <2>1
  <1>7. \A j \in 1 .. Len(d) : d[j] = IF j <= Len(c) THEN c[j] ELSE h[j - Len(c)]
    <2>1. h \in Seq(Piece)
      BY <1>3
    <2>2. QED
      BY <1>5, <1>6, <2>1
  <1> HIDE DEF d
  <1>8. ASSUME NEW j \in 1 .. Len(d), ~(j <= Len(c))
        PROVE  d[j][1] = n + 1 /\ d[j][2] = j - Len(c) /\ j - Len(c) \in 1 .. z
    <2>1. j - Len(c) \in 1 .. z
      BY <1>1, <1>5, <1>6, <1>8
    <2>2. QED
      BY <1>4, <1>7, <1>8, <2>1
  <1>9. ASSUME NEW j \in 1 .. Len(d)
        PROVE  d[j][1] \in 1 .. Len(s.records) /\ d[j][2] \in 1 .. Size(s, d[j][1])
    <2>1. CASE j <= Len(c)
      <3>1. j \in 1 .. Len(c) /\ d[j] = c[j]
        BY <1>5, <1>7, <1>9, <2>1
      <3>2. QED
        BY <3>1 DEF UpTo, InOrder
    <2>2. CASE ~(j <= Len(c))
      BY <1>1, <1>8, <2>2 DEF z
    <2>3. QED
      BY <2>1, <2>2
  <1>10. ASSUME NEW j \in 1 .. (Len(d) - 1)
         PROVE  Follows(s, d[j], d[j + 1])
    <2>1. j \in 1 .. Len(d) /\ j + 1 \in 1 .. Len(d) /\ j \in Nat
      BY <1>1, <1>5, <1>6
    <2>2. CASE j + 1 <= Len(c)
      <3>1. /\ j \in 1 .. (Len(c) - 1) /\ j <= Len(c)
        BY <1>5, <2>1, <2>2
      <3>2. d[j] = c[j] /\ d[j + 1] = c[j + 1]
        BY <1>7, <2>1, <2>2, <3>1
      <3>3. QED
        BY <3>1, <3>2 DEF UpTo, InOrder
    <2>3. CASE j = Len(c)
      <3>1. c # <<>> /\ n # 0 /\ ~(j + 1 <= Len(c)) /\ (j + 1) - Len(c) = 1
        BY <1>5, <2>1, <2>3 DEF UpTo
      <3>2. d[j] = c[j] /\ d[j + 1][1] = n + 1 /\ d[j + 1][2] = 1
        BY <1>5, <1>7, <1>8, <2>1, <2>3, <3>1
      <3>3. c[j][1] = n /\ c[j][2] = Size(s, n)
        BY <2>3, <3>1 DEF UpTo
      <3>4. QED
        BY <3>2, <3>3 DEF Follows
    <2>4. CASE ~(j <= Len(c))
      <3>1. ~(j + 1 <= Len(c)) /\ (j + 1) - Len(c) = (j - Len(c)) + 1
        BY <1>5, <2>1, <2>4
      <3>2. /\ d[j][1] = n + 1 /\ d[j][2] = j - Len(c)
            /\ d[j + 1][1] = n + 1 /\ d[j + 1][2] = (j - Len(c)) + 1
            /\ (j - Len(c)) + 1 \in 1 .. z
        BY <1>8, <2>1, <2>4, <3>1
      <3>3. j - Len(c) < z
        BY <1>1, <1>5, <2>1, <3>2
      <3>4. QED
        BY <3>2, <3>3 DEF Follows, z
    <2>5. QED
      BY <1>5, <2>1, <2>2, <2>3, <2>4
  <1>11. InOrder(s, d)
    BY <1>6, <1>9, <1>10 DEF InOrder
  <1>12. Len(d) \in 1 .. Len(d) /\ 1 \in 1 .. Len(d) /\ d # <<>>
    BY <1>1, <1>5, <1>6
  <1>13. d[1][1] = 1 /\ d[1][2] = 1
    <2>1. CASE n = 0
      <3>1. c = <<>> /\ Len(c) = 0
        BY <2>1 DEF UpTo
      <3>2. QED
        BY <1>8, <1>12, <2>1, <3>1
    <2>2. CASE n # 0
      <3>1. c # <<>> /\ c[1][1] = 1 /\ c[1][2] = 1
        BY <2>2 DEF UpTo
      <3>2. 1 <= Len(c)
        BY <1>5, <3>1
      <3>3. QED
        BY <1>7, <1>12, <3>1, <3>2
    <2>3. QED
      BY <2>1, <2>2
  <1>14. d[Len(d)][1] = n + 1 /\ d[Len(d)][2] = z
    <2>1. ~(Len(d) <= Len(c)) /\ Len(d) - Len(c) = z
      BY <1>1, <1>5, <1>6
    <2>2. QED
      BY <1>8, <1>12, <2>1
  <1>15. n + 1 # 0
    OBVIOUS
  <1>16. UpTo(s, d, n + 1)
    BY <1>11, <1>12, <1>13, <1>14, <1>15 DEF UpTo, z
  <1>17. QED
    BY <1>16 DEF d, h

\* The pieces of a stream are pieces.
LEMMA PiecesType ==
    ASSUME NEW s, StreamIs(s)
    PROVE  \A i \in 1 .. Len(s.records) : PiecesOf(s)[i] \in Seq(Piece)
  <1>1. SUFFICES ASSUME NEW i \in 1 .. Len(s.records) PROVE PiecesOf(s)[i] \in Seq(Piece)
    OBVIOUS
  <1> DEFINE z == s.records[i].size
  <1>2. z \in Nat /\ i \in Nat
    BY DEF StreamIs, Size
  <1>3. PiecesOf(s)[i] = [k \in 1 .. z |-> <<i, k>>]
    BY DEF PiecesOf
  <1> HIDE DEF z
  <1>4. \A k \in 1 .. z : <<i, k>> \in Piece
    BY <1>2 DEF Piece
  <1>5. QED
    BY <1>2, <1>3, <1>4

\* All of them.
LEMMA PiecesUpTo ==
    ASSUME NEW s, StreamIs(s)
    PROVE  UpTo(s, Pieces(s.records), Len(s.records))
  <1> DEFINE N == Len(s.records)
             g == PiecesOf(s)
             Bad == {n \in Nat : n <= N /\ ~UpTo(s, Flat(g, n), n)}
  <1>1. N \in Nat /\ \A i \in 1 .. N : g[i] \in Seq(Piece)
    BY PiecesType DEF StreamIs
  <1>2. Pieces(s.records) = Flat(g, N)
    <2>1. First(g, N) = g
      BY DEF First, PiecesOf
    <2>2. Pieces(s.records) = FlattenSeq(g)
      BY Zenon DEF Pieces, PiecesOf
    <2>3. QED
      BY <2>1, <2>2, Zenon DEF Flat
  <1> HIDE DEF g
  <1>3. Bad = {}
    <2> SUFFICES ASSUME Bad # {} PROVE FALSE
      OBVIOUS
    <2>1. PICK n \in Bad : \A l \in Bad : n <= l
      <3>1. Bad \in SUBSET Nat
        OBVIOUS
      <3>2. QED
        BY <3>1, Least
    <2>2. n \in Nat /\ n <= N /\ ~UpTo(s, Flat(g, n), n)
      BY <2>1
    <2>3. n # 0
      <3>1. Flat(g, 0) = <<>>
        BY FlatNothing
      <3>2. UpTo(s, <<>>, 0)
        BY DEF UpTo, InOrder
      <3>3. QED
        BY <2>2, <3>1, <3>2
    <2> DEFINE m == n - 1
    <2>4. m \in Nat /\ m + 1 = n /\ m + 1 <= N /\ m <= N /\ ~(n <= m)
      BY <1>1, <2>2, <2>3
    <2>5. UpTo(s, Flat(g, m), m)
      <3>1. m \notin Bad
        BY <2>1, <2>4, Zenon
      <3>2. QED
        BY <2>4, <3>1
    <2> HIDE DEF m, Bad
    <2>6. Flat(g, m + 1) = Flat(g, m) \o g[m + 1]
      <3>1. \A i \in 1 .. (m + 1) : g[i] \in Seq(Piece)
        BY <1>1, <2>4
      <3>2. QED
        BY <2>4, <3>1, FlatNext
    <2>7. UpTo(s, Flat(g, m) \o g[m + 1], m + 1)
      BY <2>4, <2>5, UpToNext DEF g
    <2>8. QED
      BY <2>2, <2>4, <2>6, <2>7
  <1>4. UpTo(s, Flat(g, N), N)
    BY <1>1, <1>3
  <1>5. QED
    BY <1>2, <1>4

\* Nothing comes of the r-th record, nor after it.
Exhausted(s, r) ==
    \/ r = Len(s.records) + 1
    \/ s.end = "cut" /\ r = Len(s.records) /\ Size(s, r) = 1

\* The stream may end with p: if a record does, it is the last.
EndsAt(s, p) == p[2] = Size(s, p[1]) => Exhausted(s, p[1] + 1)

\* c is what comes of the stream from its r-th record on.
Comes(s, c, r) ==
    /\ InOrder(s, c)
    /\ r \in 1 .. (Len(s.records) + 1)
    /\ IF c = <<>> THEN Exhausted(s, r)
       ELSE /\ c[1][1] = r /\ c[1][2] = 1
            /\ EndsAt(s, c[Len(c)])

Arriving(s) == IF s.end = "cut" THEN Front(Pieces(s.records)) ELSE Pieces(s.records)

\* All of it comes first, but for the last piece.
LEMMA ArrivingComes == ASSUME NEW s, StreamIs(s) PROVE Comes(s, Arriving(s), 1)
  <1> DEFINE N == Len(s.records)
             p == Pieces(s.records)
  <1>1. UpTo(s, p, N) /\ N \in Nat
    BY PiecesUpTo DEF StreamIs
  <1> HIDE DEF p
  <1>2. p \in Seq(Piece) /\ Len(p) \in Nat
    BY <1>1 DEF UpTo, InOrder
  <1>3. 1 \in 1 .. (N + 1)
    BY <1>1
  <1>4. CASE s.end # "cut"
    <2>1. Arriving(s) = p
      BY <1>4 DEF Arriving, p
    <2>2. CASE N = 0
      BY <1>1, <1>3, <2>1, <2>2 DEF UpTo, Comes, Exhausted
    <2>3. CASE N # 0
      <3>1. /\ p # <<>> /\ p[1][1] = 1 /\ p[1][2] = 1
            /\ p[Len(p)][1] = N /\ InOrder(s, p)
        BY <1>1, <2>3 DEF UpTo
      <3>2. EndsAt(s, p[Len(p)])
        BY <3>1 DEF EndsAt, Exhausted
      <3>3. QED
        BY <1>3, <2>1, <3>1, <3>2 DEF Comes
    <2>4. QED
      BY <2>2, <2>3
  <1>5. CASE s.end = "cut" /\ N = 0
    <2>1. p = <<>>
      BY <1>1, <1>5 DEF UpTo
    <2>2. Arriving(s) = SubSeq(p, 1, Len(p) - 1)
      BY <1>5 DEF Arriving, Front, p
    <2>3. Arriving(s) = <<>>
      BY <2>1, <2>2
    <2>4. InOrder(s, <<>>)
      BY DEF InOrder
    <2>5. QED
      BY <1>3, <1>5, <2>3, <2>4 DEF Comes, Exhausted
  <1>6. CASE s.end = "cut" /\ N # 0
    <2> DEFINE a == SubSeq(p, 1, Len(p) - 1)
    <2>1. Arriving(s) = a
      BY <1>6 DEF Arriving, Front, p
    <2>2. /\ InOrder(s, p) /\ p # <<>> /\ p[1][1] = 1 /\ p[1][2] = 1
          /\ p[Len(p)][1] = N /\ p[Len(p)][2] = Size(s, N)
      BY <1>1, <1>6 DEF UpTo
    <2>3. Len(p) # 0
      BY <1>2, <2>2
    <2>4. a \in Seq(Piece) /\ Len(a) = Len(p) - 1 /\ \A j \in 1 .. (Len(p) - 1) : a[j] = p[j]
      <3>1. Len(p) - 1 \in 0 .. Len(p)
        BY <1>2, <2>3
      <3>2. p \in Seq(Piece)
        BY <1>2
      <3>3. QED
        BY <3>1, <3>2, FirstPartType, Zenon
    <2> HIDE DEF a
    <2>5. InOrder(s, a)
      <3>1. ASSUME NEW j \in 1 .. Len(a) PROVE a[j] = p[j] /\ j \in 1 .. Len(p)
        BY <1>2, <2>3, <2>4
      <3>2. ASSUME NEW j \in 1 .. (Len(a) - 1)
            PROVE  j \in 1 .. Len(a) /\ j + 1 \in 1 .. Len(a) /\ j \in 1 .. (Len(p) - 1)
        BY <1>2, <2>3, <2>4
      <3>3. a \in Seq(Piece)
        BY <2>4
      <3>4. \A j \in 1 .. (Len(a) - 1) : Follows(s, a[j], a[j + 1])
        BY <2>2, <3>1, <3>2 DEF InOrder
      <3>5. \A j \in 1 .. Len(a) :
                a[j][1] \in 1 .. Len(s.records) /\ a[j][2] \in 1 .. Size(s, a[j][1])
        BY <2>2, <3>1 DEF InOrder
      <3>6. QED
        BY <3>3, <3>4, <3>5, Zenon DEF InOrder
    <2>6. CASE Len(p) = 1
      <3>1. a = <<>> /\ 1 = N /\ Size(s, 1) = 1
        <4>1. a \in Seq(Piece) /\ Len(a) = 0
          BY <2>4, <2>6
        <4>2. a = <<>>
          BY <4>1
        <4>3. p[Len(p)] = p[1]
          BY <2>6
        <4>4. 1 = N /\ Size(s, N) = 1
          BY <2>2, <4>3
        <4>5. QED
          BY <4>2, <4>4
      <3>2. Exhausted(s, 1)
        BY <1>6, <3>1 DEF Exhausted
      <3>3. QED
        BY <1>3, <2>1, <2>5, <3>1, <3>2 DEF Comes
    <2>7. CASE Len(p) # 1
      <3> DEFINE q == Len(p) - 1
      <3>1. q \in 1 .. (Len(p) - 1) /\ q + 1 = Len(p) /\ q = Len(a) /\ 1 \in 1 .. (Len(p) - 1)
        BY <1>2, <2>3, <2>4, <2>7
      <3>2. a[q] = p[q] /\ a[1] = p[1] /\ a # <<>>
        BY <2>4, <3>1
      <3>3. Follows(s, p[q], p[q + 1])
        BY <2>2, <3>1 DEF InOrder
      <3> HIDE DEF q
      <3>4. Follows(s, a[q], p[Len(p)])
        BY <3>1, <3>2, <3>3
      <3>5. p[Len(p)][1] = N /\ p[Len(p)][2] = Size(s, N)
        BY <2>2
      <3>6. ASSUME a[q][2] = Size(s, a[q][1]) PROVE Exhausted(s, a[q][1] + 1)
        BY <1>6, <3>4, <3>5, <3>6 DEF Follows, Exhausted
      <3>7. EndsAt(s, a[Len(a)])
        BY <3>1, <3>6 DEF EndsAt
      <3>8. QED
        BY <1>3, <2>1, <2>2, <2>5, <3>2, <3>7 DEF Comes
    <2>8. QED
      BY <2>6, <2>7
  <1>7. QED
    BY <1>4, <1>5, <1>6

\* What is first is the first piece of a record.
LEMMA ComesFirst ==
    ASSUME NEW s, NEW c, NEW r, Comes(s, c, r), c # <<>>
    PROVE  c[1][1] = r /\ c[1][2] = 1 /\ r \in 1 .. Len(s.records)
  <1>1. c \in Seq(Piece) /\ 1 \in 1 .. Len(c) /\ c[1][1] \in 1 .. Len(s.records)
    BY DEF Comes, InOrder
  <1>2. QED
    BY <1>1 DEF Comes

\* The rest of what is in order is.
LEMMA RestInOrder ==
    ASSUME NEW s, NEW c, InOrder(s, c), NEW n \in Nat, n <= Len(c)
    PROVE  InOrder(s, Rest(c, n))
  <1> DEFINE d == Rest(c, n)
  <1>1. c \in Seq(Piece) /\ Len(c) \in Nat
    BY DEF InOrder
  <1>2. d \in Seq(Piece) /\ Len(d) = Len(c) - n /\ \A i \in 1 .. (Len(c) - n) : d[i] = c[n + i]
    BY <1>1, RestType, Zenon
  <1> HIDE DEF d
  <1>3. ASSUME NEW j \in 1 .. Len(d)
        PROVE  d[j][1] \in 1 .. Len(s.records) /\ d[j][2] \in 1 .. Size(s, d[j][1])
    <2>1. j \in 1 .. (Len(c) - n) /\ n + j \in 1 .. Len(c)
      BY <1>1, <1>2
    <2>2. d[j] = c[n + j]
      BY <1>2, <2>1
    <2>3. QED
      BY <2>1, <2>2 DEF InOrder
  <1>4. ASSUME NEW j \in 1 .. (Len(d) - 1)
        PROVE  Follows(s, d[j], d[j + 1])
    <2>1. /\ j \in 1 .. (Len(c) - n) /\ j + 1 \in 1 .. (Len(c) - n)
          /\ n + j \in 1 .. (Len(c) - 1) /\ n + (j + 1) = (n + j) + 1
      BY <1>1, <1>2
    <2>2. d[j] = c[n + j] /\ d[j + 1] = c[(n + j) + 1]
      <3>1. d[j] = c[n + j] /\ d[j + 1] = c[n + (j + 1)]
        BY <1>2, <2>1
      <3>2. QED
        BY <2>1, <3>1
    <2>3. Follows(s, c[n + j], c[(n + j) + 1])
      BY <2>1 DEF InOrder
    <2>4. QED
      BY <2>2, <2>3
  <1>5. d \in Seq(Piece)
    BY <1>2
  <1>6. InOrder(s, d)
    BY <1>3, <1>4, <1>5 DEF InOrder
  <1>7. QED
    BY <1>6 DEF d

\* A record is there as soon as as many pieces as it has are.
LEMMA RecordIsThere ==
    ASSUME NEW s, StreamIs(s), NEW c, NEW r, Comes(s, c, r), c # <<>>, Size(s, r) <= Len(c)
    PROVE  \A j \in 1 .. Size(s, r) : c[j][1] = r /\ c[j][2] = j
  <1> DEFINE z == Size(s, r)
             Bad == {j \in Nat : j \in 1 .. z /\ ~(c[j][1] = r /\ c[j][2] = j)}
  <1>1. c[1][1] = r /\ c[1][2] = 1 /\ r \in 1 .. Len(s.records)
    BY ComesFirst
  <1>2. z \in Nat \ {0}
    BY <1>1 DEF StreamIs
  <1>3. /\ c \in Seq(Piece) /\ Len(c) \in Nat
        /\ \A j \in 1 .. (Len(c) - 1) : Follows(s, c[j], c[j + 1])
    BY DEF Comes, InOrder
  <1> HIDE DEF z
  <1>4. ASSUME Bad # {} PROVE FALSE
    <2>1. PICK j \in Bad : \A l \in Bad : j <= l
      <3>1. Bad \in SUBSET Nat
        OBVIOUS
      <3>2. QED
        BY <1>4, <3>1, Least
    <2>2. j \in Nat /\ j \in 1 .. z /\ ~(c[j][1] = r /\ c[j][2] = j)
      BY <2>1
    <2>3. j # 1
      BY <1>1, <2>2
    <2> DEFINE i == j - 1
    <2>4. i \in Nat /\ i \in 1 .. z /\ i + 1 = j /\ ~(j <= i) /\ i < z /\ i \in 1 .. (Len(c) - 1)
      BY <1>2, <1>3, <2>2, <2>3 DEF z
    <2>5. c[i][1] = r /\ c[i][2] = i
      <3>1. i \notin Bad
        BY <2>1, <2>4, Zenon
      <3>2. QED
        BY <2>4, <3>1
    <2> HIDE DEF i, Bad
    <2>6. Follows(s, c[i], c[j])
      BY <1>3, <2>4
    <2>7. QED
      BY <2>2, <2>4, <2>5, <2>6 DEF Follows, z
  <1>5. ASSUME NEW j \in 1 .. z PROVE c[j][1] = r /\ c[j][2] = j
    <2>1. j \notin Bad
      BY <1>4
    <2>2. j \in Nat
      BY <1>2
    <2>3. QED
      BY <2>1, <2>2
  <1>6. QED
    BY <1>5 DEF z

\* After it comes the next.
LEMMA NextComes ==
    ASSUME NEW s, StreamIs(s), NEW c, NEW r, Comes(s, c, r), c # <<>>, Size(s, r) <= Len(c)
    PROVE  Comes(s, Rest(c, Size(s, r)), r + 1)
  <1> DEFINE z == Size(s, r)
             d == Rest(c, z)
  <1>1. r \in 1 .. Len(s.records) /\ Len(s.records) \in Nat
    BY ComesFirst DEF StreamIs
  <1>2. z \in Nat \ {0} /\ z <= Len(c)
    BY <1>1 DEF StreamIs
  <1>3. InOrder(s, c) /\ c \in Seq(Piece) /\ Len(c) \in Nat /\ EndsAt(s, c[Len(c)])
    BY DEF Comes, InOrder
  <1>4. c[z][1] = r /\ c[z][2] = z
    BY <1>2, RecordIsThere
  <1> HIDE DEF z
  <1>5. InOrder(s, d)
    BY <1>2, <1>3, RestInOrder
  <1>6. d \in Seq(Piece) /\ Len(d) = Len(c) - z /\ \A i \in 1 .. (Len(c) - z) : d[i] = c[z + i]
    BY <1>2, <1>3, RestType, Zenon
  <1> HIDE DEF d
  <1>7. r + 1 \in 1 .. (Len(s.records) + 1)
    BY <1>1
  <1>8. CASE Len(c) = z
    <2>1. d = <<>>
      BY <1>2, <1>6, <1>8
    <2>2. Exhausted(s, r + 1)
      BY <1>3, <1>4, <1>8 DEF EndsAt, z
    <2>3. QED
      BY <1>5, <1>7, <2>1, <2>2 DEF Comes, d, z
  <1>9. CASE Len(c) # z
    <2>1. /\ z \in 1 .. (Len(c) - 1) /\ 1 \in 1 .. (Len(c) - z)
          /\ Len(d) \in 1 .. (Len(c) - z) /\ z + Len(d) = Len(c)
      BY <1>2, <1>3, <1>6, <1>9
    <2>2. d[1] = c[z + 1] /\ d[Len(d)] = c[Len(c)] /\ d # <<>>
      <3>1. d[1] = c[z + 1]
        BY <1>6, <2>1
      <3>2. d[Len(d)] = c[z + Len(d)]
        BY <1>6, <2>1
      <3>3. d # <<>>
        BY <2>1
      <3>4. QED
        BY <2>1, <3>1, <3>2, <3>3
    <2>3. Follows(s, c[z], c[z + 1])
      BY <1>3, <2>1 DEF InOrder
    <2>4. d[1][1] = r + 1 /\ d[1][2] = 1
      BY <1>2, <1>4, <2>2, <2>3 DEF Follows, z
    <2>5. Comes(s, d, r + 1)
      BY <1>3, <1>5, <1>7, <2>2, <2>4 DEF Comes
    <2>6. QED
      BY <2>5 DEF d, z
  <1>10. QED
    BY <1>8, <1>9

-----------------------------------------------------------------------------
(* The Schannel socket: the data of a stream's records.                    *)

\* The data of its first n records.
DataOf(s) == [i \in 1 .. Len(s.records) |-> s.records[i].data]
Given(s, n) == Flat(DataOf(s), n)

\* The first n of its records don't close the connection.
KeptOpen(s, n) == \A i \in 1 .. n : s.records[i].kind # "close_notify"

\* Those are all the records up to the m-th, as Plaintext() counts them.
EndsAfter(s, m) ==
    /\ m \in 0 .. Len(s.records)
    /\ KeptOpen(s, m)
    /\ m < Len(s.records) => s.records[m + 1].kind = "close_notify"

\* The plaintext of some of the records is a sequence.
LEMMA GivenType ==
    ASSUME NEW s, StreamIs(s), NEW n \in 0 .. Len(s.records)
    PROVE  Given(s, n) \in Seq(Nat)
  <1>1. n \in Nat
    OBVIOUS
  <1>2. \A i \in 1 .. n : DataOf(s)[i] \in Seq(Nat)
    BY DEF DataOf, StreamIs
  <1>3. QED
    BY <1>1, <1>2, FlatType DEF Given

\* The plaintext of one record more is put after it.
LEMMA GivenNext ==
    ASSUME NEW s, StreamIs(s), NEW n \in Nat, n + 1 <= Len(s.records)
    PROVE  Given(s, n + 1) = Given(s, n) \o s.records[n + 1].data
  <1>1. \A i \in 1 .. (n + 1) : DataOf(s)[i] \in Seq(Nat)
    BY DEF DataOf, StreamIs
  <1>2. Flat(DataOf(s), n + 1) = Flat(DataOf(s), n) \o DataOf(s)[n + 1]
    BY <1>1, FlatNext
  <1>3. DataOf(s)[n + 1] = s.records[n + 1].data
    <2>1. n + 1 \in 1 .. Len(s.records)
      BY DEF StreamIs
    <2>2. QED
      BY <2>1 DEF DataOf
  <1>4. QED
    BY <1>2, <1>3 DEF Given

\* A record that isn't data adds nothing to it.
LEMMA GivenNoMore ==
    ASSUME NEW s, StreamIs(s), NEW r \in 1 .. Len(s.records), s.records[r].data = <<>>
    PROVE  Given(s, r) = Given(s, r - 1)
  <1> DEFINE g == Given(s, r - 1)
  <1>1. r - 1 \in Nat /\ (r - 1) + 1 = r /\ (r - 1) + 1 <= Len(s.records)
    BY DEF StreamIs
  <1>2. Given(s, (r - 1) + 1) = g \o s.records[(r - 1) + 1].data
    BY <1>1, GivenNext
  <1>3. Given(s, r) = g \o <<>>
    BY <1>1, <1>2
  <1>4. g \in Seq(Nat)
    <2>1. r - 1 \in 0 .. Len(s.records)
      BY DEF StreamIs
    <2>2. QED
      BY <2>1, GivenType
  <1> HIDE DEF g
  <1>5. g \o <<>> = g
    BY <1>4
  <1>6. QED
    BY <1>3, <1>5 DEF g

\* The plaintext of fewer is the start of it.
LEMMA GivenStarts ==
    ASSUME NEW s, StreamIs(s), NEW n \in 0 .. Len(s.records), NEW m \in 0 .. n
    PROVE  Starts(Given(s, m), Given(s, n))
  <1>1. n \in Nat /\ m \in Nat /\ m <= n
    BY DEF StreamIs
  <1>2. \A i \in 1 .. n : DataOf(s)[i] \in Seq(Nat)
    BY DEF DataOf, StreamIs
  <1>3. QED
    BY <1>1, <1>2, FlatStarts DEF Given

\* The plaintext is the data of the records before the one that closes the connection.
LEMMA PlaintextIs ==
    ASSUME NEW s, StreamIs(s)
    PROVE  \E m : EndsAfter(s, m) /\ Plaintext(s) = Given(s, m)
  <1> DEFINE N == Len(s.records)
             Closing == {i \in Nat : i <= N /\ ~KeptOpen(s, i)}
             counts == {i \in 1 .. N : \A j \in 1 .. i : s.records[j].kind # "close_notify"}
  <1>1. N \in Nat
    BY DEF StreamIs
  <1>2. ASSUME NEW m \in 0 .. N, EndsAfter(s, m) PROVE Plaintext(s) = Given(s, m)
    <2>1. counts = 1 .. m
      <3>1. ASSUME NEW i \in counts PROVE i \in 1 .. m
        <4>1. i \in 1 .. N /\ \A j \in 1 .. i : s.records[j].kind # "close_notify"
          OBVIOUS
        <4>2. ASSUME m < i PROVE FALSE
          <5>1. m + 1 \in 1 .. i /\ m < N
            BY <1>1, <4>1, <4>2
          <5>2. QED
            BY <1>2, <4>1, <5>1 DEF EndsAfter
        <4>3. QED
          BY <1>1, <4>1, <4>2
      <3>2. ASSUME NEW i \in 1 .. m PROVE i \in counts
        <4>1. i \in 1 .. N /\ \A j \in 1 .. i : j \in 1 .. m
          BY <1>1
        <4>2. QED
          BY <1>2, <4>1 DEF EndsAfter, KeptOpen
      <3>3. QED
        BY <3>1, <3>2
    <2>2. Cardinality(counts) = m
      <3>1. Cardinality(1 .. m) = m
        BY <1>1, FS_Interval
      <3>2. QED
        BY <2>1, <3>1
    <2>3. Plaintext(s) = FlattenSeq([i \in 1 .. Cardinality(counts) |-> s.records[i].data])
      BY Zenon DEF Plaintext
    <2> HIDE DEF counts
    <2>4. First(DataOf(s), m) = [i \in 1 .. m |-> s.records[i].data]
      <3>1. \A i \in 1 .. m : DataOf(s)[i] = s.records[i].data
        BY <1>1 DEF DataOf
      <3>2. QED
        BY <3>1 DEF First
    <2>5. QED
      BY <2>2, <2>3, <2>4 DEF Given, Flat
  <1>3. \E m \in 0 .. N : EndsAfter(s, m)
    <2>1. CASE Closing = {}
      <3>1. N \in 0 .. N /\ KeptOpen(s, N)
        BY <1>1, <2>1
      <3>2. EndsAfter(s, N)
        BY <1>1, <3>1 DEF EndsAfter
      <3>3. QED
        BY <3>1, <3>2
    <2>2. CASE Closing # {}
      <3>1. PICK i \in Closing : \A l \in Closing : i <= l
        <4>1. Closing \in SUBSET Nat
          OBVIOUS
        <4>2. QED
          BY <2>2, <4>1, Least
      <3>2. i \in Nat /\ i <= N /\ ~KeptOpen(s, i)
        BY <3>1
      <3>3. i # 0
        BY <3>2 DEF KeptOpen
      <3> DEFINE m == i - 1
      <3>4. m \in 0 .. N /\ m + 1 = i /\ m <= N /\ ~(i <= m) /\ m \in Nat
        BY <1>1, <3>2, <3>3
      <3>5. KeptOpen(s, m)
        <4>1. m \notin Closing
          BY <3>1, <3>4, Zenon
        <4>2. QED
          BY <3>4, <4>1
      <3> HIDE DEF m
      <3>6. s.records[m + 1].kind = "close_notify"
        <4>1. PICK j \in 1 .. i : s.records[j].kind = "close_notify"
          BY <3>2 DEF KeptOpen
        <4>2. j \notin 1 .. m
          BY <3>5, <4>1 DEF KeptOpen
        <4>3. j = m + 1
          BY <3>4, <4>2
        <4>4. QED
          BY <4>1, <4>3
      <3>7. EndsAfter(s, m)
        BY <3>4, <3>5, <3>6 DEF EndsAfter
      <3>8. QED
        BY <3>4, <3>7
    <2>3. QED
      BY <2>1, <2>2
  <1>4. QED
    BY <1>2, <1>3

\* The records up to the n-th of these are among those that count.
LEMMA OpenCounts ==
    ASSUME NEW s, StreamIs(s), NEW m, EndsAfter(s, m), NEW n \in 0 .. Len(s.records), KeptOpen(s, n)
    PROVE  n \in 0 .. m
  <1>1. Len(s.records) \in Nat
    BY DEF StreamIs
  <1>2. ASSUME m < n PROVE FALSE
    <2>1. m + 1 \in 1 .. n /\ m < Len(s.records)
      BY <1>1, <1>2 DEF EndsAfter
    <2>2. QED
      BY <2>1 DEF EndsAfter, KeptOpen
  <1>3. QED
    BY <1>1, <1>2 DEF EndsAfter

\* n bytes have been returned, and p, if it isn't empty, is the rest of the r-th
\* record's, which is the next.
Reads(s, r, p, n) ==
    /\ r \in 1 .. (Len(s.records) + 1) /\ n \in Nat /\ p \in Seq(Nat)
    /\ KeptOpen(s, r - 1)
    /\ IF p = <<>> THEN n = Len(Given(s, r - 1))
       ELSE /\ r <= Len(s.records) /\ s.records[r].kind = "data"
            /\ n <= Len(Given(s, r)) /\ p = Rest(Given(s, r), n)

\* At the start of the stream nothing is read.
LEMMA ReadsFirst == ASSUME NEW s, StreamIs(s) PROVE Reads(s, 1, <<>>, 0)
  <1>1. Given(s, 0) = <<>>
    BY FlatNothing DEF Given
  <1>2. KeptOpen(s, 0)
    BY DEF KeptOpen
  <1>3. 1 \in 1 .. (Len(s.records) + 1) /\ 1 - 1 = 0 /\ <<>> \in Seq(Nat) /\ Len(<<>>) = 0
    BY DEF StreamIs
  <1>4. QED
    BY <1>1, <1>2, <1>3 DEF Reads

\* One more record is open.
LEMMA OpenNext ==
    ASSUME NEW s, StreamIs(s), NEW r \in 1 .. Len(s.records), KeptOpen(s, r - 1),
           s.records[r].kind # "close_notify"
    PROVE  KeptOpen(s, r)
  <1>1. \A i \in 1 .. r : i \in 1 .. (r - 1) \/ i = r
    BY DEF StreamIs
  <1>2. QED
    BY <1>1 DEF KeptOpen

\* A record without data is passed over.
LEMMA ReadsEmpty ==
    ASSUME NEW s, StreamIs(s), NEW r, NEW n, Reads(s, r, <<>>, n), r <= Len(s.records),
           s.records[r].kind # "close_notify", s.records[r].data = <<>>
    PROVE  Reads(s, r + 1, <<>>, n)
  <1>1. /\ Len(s.records) \in Nat /\ r \in 1 .. Len(s.records) /\ r - 1 \in Nat
        /\ r - 1 \in 0 .. Len(s.records)
        /\ (r - 1) + 1 = r /\ (r + 1) - 1 = r /\ r + 1 \in 1 .. (Len(s.records) + 1)
    BY DEF Reads, StreamIs
  <1>2. KeptOpen(s, r)
    BY <1>1, OpenNext DEF Reads
  <1>3. Given(s, r) = Given(s, r - 1)
    BY <1>1, GivenNoMore
  <1>4. n = Len(Given(s, r)) /\ n \in Nat
    BY <1>3 DEF Reads
  <1>5. QED
    BY <1>1, <1>2, <1>4 DEF Reads

\* One with data is decrypted.
LEMMA ReadsDecrypted ==
    ASSUME NEW s, StreamIs(s), NEW r, NEW n, Reads(s, r, <<>>, n), r <= Len(s.records),
           s.records[r].kind = "data", s.records[r].data # <<>>
    PROVE  Reads(s, r, s.records[r].data, n)
  <1> DEFINE d == s.records[r].data
             g == Given(s, r - 1)
             h == Given(s, r)
  <1>1. /\ Len(s.records) \in Nat /\ r \in 1 .. Len(s.records) /\ r - 1 \in Nat
        /\ r - 1 \in 0 .. Len(s.records) /\ (r - 1) + 1 = r
    BY DEF Reads, StreamIs
  <1>2. d \in Seq(Nat)
    BY <1>1 DEF StreamIs
  <1>3. g \in Seq(Nat) /\ h \in Seq(Nat)
    BY <1>1, GivenType
  <1>4. h = g \o d
    <2>1. Given(s, (r - 1) + 1) = Given(s, r - 1) \o s.records[(r - 1) + 1].data
      BY <1>1, GivenNext
    <2>2. QED
      BY <1>1, <2>1
  <1>5. n = Len(g)
    BY DEF Reads
  <1> HIDE DEF d, g, h
  <1>6. Rest(h, n) = d
    <2>1. Len(g) \in Nat /\ Len(g) <= Len(g)
      BY <1>3
    <2>2. LeavesBoth(g, d, Len(g))
      BY <1>2, <1>3, <2>1, RestJoined, Zenon
    <2>3. Rest(h, n) = Rest(g, Len(g)) \o d
      BY <1>4, <1>5, <2>2, Zenon DEF LeavesBoth
    <2>4. Rest(g, Len(g)) \in Seq(Nat) /\ Len(Rest(g, Len(g))) = Len(g) - Len(g)
      BY <1>3, <2>1, RestType, Zenon
    <2>5. Rest(g, Len(g)) = <<>>
      BY <2>1, <2>4
    <2>6. QED
      BY <1>2, <2>3, <2>5
  <1>7. n \in Nat /\ n <= Len(h)
    BY <1>2, <1>3, <1>4, <1>5
  <1>8. KeptOpen(s, r - 1) /\ d # <<>>
    BY DEF Reads, d
  <1>9. Reads(s, r, d, n)
    BY <1>1, <1>2, <1>6, <1>7, <1>8 DEF Reads, h
  <1>10. QED
    BY <1>9 DEF d

\* k bytes of what is left are returned, all of them or not.
LEMMA ReadsReturned ==
    ASSUME NEW s, StreamIs(s), NEW r, NEW p, NEW n, Reads(s, r, p, n), NEW k \in 1 .. Len(p)
    PROVE  IF k = Len(p) THEN Reads(s, r + 1, <<>>, n + k) ELSE Reads(s, r, Rest(p, k), n + k)
  <1> DEFINE h == Given(s, r)
  <1>1. p \in Seq(Nat) /\ n \in Nat /\ Len(p) \in Nat /\ k \in Nat
    BY DEF Reads
  <1>2. p # <<>>
    BY <1>1
  <1>3. /\ r \in 1 .. Len(s.records) /\ s.records[r].kind = "data" /\ n <= Len(h)
        /\ p = Rest(h, n) /\ KeptOpen(s, r - 1) /\ Len(s.records) \in Nat
    BY <1>2 DEF Reads, StreamIs
  <1>4. h \in Seq(Nat)
    <2>1. r \in 0 .. Len(s.records)
      BY <1>3
    <2>2. QED
      BY <2>1, GivenType
  <1> HIDE DEF h
  <1>5. Len(p) = Len(h) - n /\ Len(h) \in Nat
    <2>1. Len(Rest(h, n)) = Len(h) - n
      BY <1>1, <1>3, <1>4, RestType, Zenon
    <2>2. QED
      BY <1>3, <1>4, <2>1
  <1>6. CASE k = Len(p)
    <2>1. n + k = Len(h) /\ n + k \in Nat /\ (r + 1) - 1 = r /\ r + 1 \in 1 .. (Len(s.records) + 1)
      BY <1>1, <1>3, <1>5, <1>6
    <2>2. KeptOpen(s, r)
      BY <1>3, OpenNext
    <2>3. Reads(s, r + 1, <<>>, n + k)
      BY <2>1, <2>2 DEF Reads, h
    <2>4. QED
      BY <1>6, <2>3
  <1>7. CASE k # Len(p)
    <2> DEFINE q == Rest(p, k)
    <2>1. n + k \in Nat /\ n + k <= Len(h) /\ k <= Len(p) /\ Len(p) - k # 0
      BY <1>1, <1>5, <1>7
    <2>2. q \in Seq(Nat) /\ Len(q) = Len(p) - k
      BY <1>1, <2>1, RestType, Zenon
    <2>3. q = Rest(h, n + k)
      <3>1. AddsUp(h, n, k)
        BY <1>1, <1>4, <2>1, RestTwice, Zenon
      <3>2. QED
        BY <1>3, <3>1, Zenon DEF AddsUp
    <2> HIDE DEF q
    <2>4. q # <<>>
      BY <2>1, <2>2
    <2>5. r \in 1 .. (Len(s.records) + 1) /\ r <= Len(s.records)
      BY <1>3
    <2>6. Reads(s, r, q, n + k)
      BY <1>3, <2>1, <2>2, <2>3, <2>4, <2>5 DEF Reads, h
    <2>7. QED
      BY <1>7, <2>6 DEF q
  <1>8. QED
    BY <1>6, <1>7

\* What is returned next is the next of the plaintext.
LEMMA ReadsOfPlaintext ==
    ASSUME NEW s, StreamIs(s), NEW r, NEW p, NEW n, Reads(s, r, p, n), p # <<>>
    PROVE  /\ Plaintext(s) \in Seq(Nat) /\ n <= Len(Plaintext(s))
           /\ Starts(p, Rest(Plaintext(s), n))
  <1> DEFINE h == Given(s, r)
             t == Plaintext(s)
             u == Rest(t, n)
  <1>1. PICK m : EndsAfter(s, m) /\ t = Given(s, m)
    BY PlaintextIs
  <1>2. /\ r \in 1 .. Len(s.records) /\ s.records[r].kind = "data" /\ n <= Len(h) /\ n \in Nat
        /\ p = Rest(h, n) /\ KeptOpen(s, r - 1) /\ Len(s.records) \in Nat
    BY DEF Reads, StreamIs
  <1>3. KeptOpen(s, r) /\ r \in 0 .. Len(s.records)
    BY <1>2, OpenNext
  <1>4. r \in 0 .. m /\ m \in 0 .. Len(s.records)
    BY <1>1, <1>3, OpenCounts DEF EndsAfter
  <1>5. h \in Seq(Nat) /\ t \in Seq(Nat) /\ Starts(h, t)
    BY <1>1, <1>3, <1>4, GivenType, GivenStarts
  <1> HIDE DEF h, t
  <1>6. Len(h) <= Len(t) /\ Len(h) \in Nat /\ Len(t) \in Nat /\ SameTo(h, t, Len(h))
    BY <1>5 DEF Starts
  <1>7. n <= Len(t)
    BY <1>2, <1>6
  <1>8. /\ p \in Seq(Nat) /\ Len(p) = Len(h) - n
        /\ \A i \in 1 .. (Len(h) - n) : p[i] = h[n + i]
    <2>1. /\ Rest(h, n) \in Seq(Nat) /\ Len(Rest(h, n)) = Len(h) - n
          /\ \A i \in 1 .. (Len(h) - n) : Rest(h, n)[i] = h[n + i]
      BY <1>2, <1>5, RestType, Zenon
    <2>2. QED
      BY <1>2, <2>1, Zenon
  <1>9. /\ u \in Seq(Nat) /\ Len(u) = Len(t) - n
        /\ \A i \in 1 .. (Len(t) - n) : u[i] = t[n + i]
    BY <1>2, <1>5, <1>7, RestType, Zenon
  <1> HIDE DEF u
  <1>10. Len(p) <= Len(u)
    BY <1>2, <1>6, <1>8, <1>9
  <1>11. ASSUME NEW i \in 1 .. Len(p) PROVE p[i] = u[i]
    <2>1. i \in 1 .. (Len(h) - n) /\ i \in 1 .. (Len(t) - n) /\ n + i \in 1 .. Len(h)
      BY <1>2, <1>6, <1>8
    <2>2. p[i] = h[n + i] /\ u[i] = t[n + i]
      BY <1>8, <1>9, <2>1
    <2>3. h[n + i] = t[n + i]
      BY <1>6, <2>1 DEF SameTo
    <2>4. QED
      BY <2>2, <2>3
  <1>12. Starts(p, u)
    BY <1>10, <1>11 DEF Starts, SameTo
  <1>13. QED
    BY <1>5, <1>7, <1>12 DEF u, t

\* Where the stream ends, all of the plaintext has been returned.
LEMMA ReadsAll ==
    ASSUME NEW s, StreamIs(s), NEW r, NEW n, Reads(s, r, <<>>, n),
           \/ r <= Len(s.records) /\ s.records[r].kind = "close_notify"
           \/ Exhausted(s, r)
    PROVE  n = Len(Plaintext(s))
  <1>1. PICK m : EndsAfter(s, m) /\ Plaintext(s) = Given(s, m)
    BY PlaintextIs
  <1>2. /\ Len(s.records) \in Nat /\ r \in 1 .. (Len(s.records) + 1)
        /\ r - 1 \in 0 .. Len(s.records)
        /\ KeptOpen(s, r - 1) /\ n = Len(Given(s, r - 1))
    BY DEF Reads, StreamIs
  <1>3. r - 1 \in 0 .. m /\ m \in 0 .. Len(s.records)
    BY <1>1, <1>2, OpenCounts DEF EndsAfter
  <1>4. CASE m = r - 1
    BY <1>1, <1>2, <1>4
  <1>5. CASE m # r - 1
    <2>1. r \in 1 .. m
      BY <1>2, <1>3, <1>5
    <2>2. s.records[r].kind # "close_notify"
      BY <1>1, <2>1 DEF EndsAfter, KeptOpen
    <2>3. r # Len(s.records) + 1
      BY <1>2, <1>3, <2>1
    <2>4. r = Len(s.records) /\ Size(s, r) = 1
      BY <2>2, <2>3 DEF Exhausted
    <2>5. m = r /\ r \in 1 .. Len(s.records)
      BY <1>2, <1>3, <2>1, <2>4
    <2>6. s.records[r].data = <<>>
      BY <2>4, <2>5 DEF StreamIs
    <2>7. Given(s, r) = Given(s, r - 1)
      BY <2>5, <2>6, GivenNoMore
    <2>8. QED
      BY <1>1, <1>2, <2>5, <2>7
  <1>6. QED
    BY <1>4, <1>5

-----------------------------------------------------------------------------
(* The Schannel socket: what it keeps.                                     *)

Handshaking == {"socket", "cred", "recv_buf"}

\* What the context holds, by where the operation is.
HeldInv ==
    /\ pc \in {"idle", "handshake", "verify", "recv"}
    /\ pc = "idle" => held \in {{}, Resources}
    /\ pc = "handshake" => held \in {Handshaking, Handshaking \cup {"ctxt"}}
    /\ pc = "verify" => held = Handshaking \cup {"ctxt"}
    /\ pc = "recv" => held = Resources /\ wanted \in Lengths

BufferInv ==
    /\ recv_buf \in Seq(Piece) /\ net \in Seq(Piece) /\ Len(recv_buf) <= MaxRecord
    /\ plain \in Seq(Nat) /\ returned \in Nat /\ peer_closed \in BOOLEAN
    /\ held = {} => recv_buf = <<>> /\ record_len = 0 /\ plain = <<>> /\ ~peer_closed

\* recv_buf starts at the r-th record, which is the one decrypted if one is.
StreamAt(r) ==
    /\ Comes(stream, recv_buf \o net, r)
    /\ Reads(stream, r, plain, returned)
    /\ plain # <<>> => record_len = Size(stream, r) /\ record_len <= Len(recv_buf)

StreamInv ==
    held # {} =>
        /\ stream \in Streams
        /\ \E r : StreamAt(r)
        /\ peer_closed => plain = <<>> /\ returned = Len(Plaintext(stream))
        /\ pc \in {"handshake", "verify"} => plain = <<>> /\ ~peer_closed /\ returned = 0

SchannelInv == HeldInv /\ BufferInv /\ StreamInv

\* Whatever fails while connecting, and a close, leaves nothing.
LEMMA TornDown ==
    ASSUME SchannelInv, Teardown, pc' = "idle", returned' = returned, net' = net
    PROVE  SchannelInv'
  <1>1. HeldInv'
    BY DEF Teardown, HeldInv
  <1>2. BufferInv'
    <2>1. <<>> \in Seq(Piece) /\ <<>> \in Seq(Nat) /\ Len(<<>>) <= MaxRecord
      BY SchannelAssumption
    <2>2. QED
      BY <2>1 DEF SchannelInv, BufferInv, Teardown
  <1>3. StreamInv'
    BY DEF StreamInv, Teardown
  <1>4. QED
    BY <1>1, <1>2, <1>3 DEF SchannelInv

\* What is received is left as it is.
Untouched ==
    /\ UNCHANGED <<stream, held, recv_buf, plain, net, returned>>
    /\ held = {} => UNCHANGED <<record_len, peer_closed>>
    /\ plain # <<>> => record_len' = record_len
    /\ \/ peer_closed' = peer_closed
       \/ peer_closed' = TRUE /\ plain = <<>> /\ returned = Len(Plaintext(stream))

\* What changes nothing of the stream keeps what is so of it.
LEMMA LeftAsItIs ==
    ASSUME SchannelInv, Untouched, HeldInv', pc' \in {"idle", "recv"}
    PROVE  SchannelInv'
  <1>1. BufferInv'
    <2>1. peer_closed' \in BOOLEAN
      BY Zenon DEF SchannelInv, BufferInv, Untouched
    <2>2. QED
      BY <2>1 DEF SchannelInv, BufferInv, Untouched
  <1>2. ASSUME held # {} PROVE \E r : StreamAt(r)'
    <2>1. PICK r : StreamAt(r)
      BY <1>2 DEF SchannelInv, StreamInv
    <2>2. StreamAt(r)'
      BY <2>1 DEF StreamAt, Untouched
    <2>3. QED
      BY <2>2
  <1>3. StreamInv'
    BY <1>2 DEF SchannelInv, StreamInv, Untouched
  <1>4. QED
    BY <1>1, <1>3 DEF SchannelInv

\* The record that recv_buf starts with is the r-th.
LEMMA RecordIs ==
    ASSUME SchannelInv, held # {}, NEW r, StreamAt(r), recv_buf # <<>>
    PROVE  /\ Head(recv_buf)[1] = r /\ Head(recv_buf)[2] = 1
           /\ r \in 1 .. Len(stream.records) /\ Record = stream.records[r]
           /\ Record.size = Size(stream, r) /\ Size(stream, r) \in Nat \ {0}
  <1> DEFINE c == recv_buf \o net
  <1>1. recv_buf \in Seq(Piece) /\ net \in Seq(Piece) /\ stream \in Streams /\ Comes(stream, c, r)
    BY DEF SchannelInv, BufferInv, StreamInv, StreamAt
  <1>2. c # <<>> /\ c[1] = recv_buf[1] /\ Head(recv_buf) = recv_buf[1]
    BY <1>1
  <1> HIDE DEF c
  <1>3. c[1][1] = r /\ c[1][2] = 1 /\ r \in 1 .. Len(stream.records)
    BY <1>1, <1>2, ComesFirst
  <1>4. Head(recv_buf)[1] = r /\ Head(recv_buf)[2] = 1
    BY <1>2, <1>3
  <1>5. Record = stream.records[r]
    BY <1>4 DEF Record
  <1>6. StreamIs(stream)
    BY <1>1, StreamsAre
  <1>7. QED
    BY <1>3, <1>4, <1>5, <1>6 DEF StreamIs, Size

\* It is dropped (keep_extra(), drop_record()).
LEMMA RecordDropped ==
    ASSUME SchannelInv, held # {}, NEW r, StreamAt(r), recv_buf # <<>>,
           Size(stream, r) <= Len(recv_buf)
    PROVE  LET left == Without(recv_buf, Size(stream, r))
           IN  left \in Seq(Piece) /\ Len(left) <= MaxRecord /\ Comes(stream, left \o net, r + 1)
  <1> DEFINE c == recv_buf \o net
             z == Size(stream, r)
             left == Rest(recv_buf, z)
  <1>1. /\ recv_buf \in Seq(Piece) /\ net \in Seq(Piece)
        /\ stream \in Streams /\ Comes(stream, c, r)
        /\ Len(recv_buf) <= MaxRecord /\ Len(recv_buf) \in Nat /\ MaxRecord \in Nat
    BY SchannelAssumption DEF SchannelInv, BufferInv, StreamInv, StreamAt
  <1>2. z \in Nat /\ z <= Len(recv_buf)
    BY RecordIs
  <1>3. c # <<>> /\ z <= Len(c)
    BY <1>1, <1>2
  <1>4. Comes(stream, Rest(c, z), r + 1)
    <2>1. StreamIs(stream)
      BY <1>1, StreamsAre
    <2> HIDE DEF c
    <2>2. QED
      BY <1>1, <1>3, <2>1, NextComes
  <1>5. Rest(c, z) = left \o net
    <2>1. LeavesBoth(recv_buf, net, z)
      BY <1>1, <1>2, RestJoined, Zenon
    <2>2. QED
      BY <2>1, Zenon DEF LeavesBoth
  <1> HIDE DEF z
  <1>6. left \in Seq(Piece) /\ Len(left) = Len(recv_buf) - z
    BY <1>1, <1>2, RestType, Zenon
  <1> HIDE DEF left, c
  <1>7. Len(left) <= MaxRecord
    BY <1>1, <1>2, <1>6
  <1>8. Comes(stream, left \o net, r + 1)
    BY <1>4, <1>5
  <1>9. left = Without(recv_buf, Size(stream, r))
    BY Zenon DEF left, z, Rest, Without
  <1>10. QED
    BY <1>6, <1>7, <1>8, <1>9, Zenon

\* A read takes pieces over (read_some()).
LEMMA PiecesRead ==
    ASSUME SchannelInv, ReadData
    PROVE  /\ recv_buf' \in Seq(Piece) /\ net' \in Seq(Piece) /\ Len(recv_buf') <= MaxRecord
           /\ recv_buf' \o net' = recv_buf \o net
  <1>1. /\ recv_buf \in Seq(Piece) /\ net \in Seq(Piece) /\ Len(recv_buf) <= MaxRecord
        /\ Len(recv_buf) \in Nat /\ MaxRecord \in Nat /\ Len(net) \in Nat
    BY SchannelAssumption DEF SchannelInv, BufferInv
  <1>2. PICK n \in 1 .. Min({Room, Len(net)}) :
            /\ recv_buf' = recv_buf \o SubSeq(net, 1, n)
            /\ net' = Without(net, n)
    BY DEF ReadData
  <1>3. Room \in Nat /\ Room = MaxRecord - Len(recv_buf)
    BY <1>1 DEF Room
  <1>4. n \in Nat /\ n <= Room /\ n <= Len(net) /\ n \in 0 .. Len(net)
    <2>1. /\ Min({Room, Len(net)}) \in Nat /\ Min({Room, Len(net)}) <= Room
          /\ Min({Room, Len(net)}) <= Len(net)
      BY <1>1, <1>3, LesserOf
    <2>2. QED
      BY <1>1, <1>3, <2>1
  <1>5. net' = Rest(net, n)
    BY <1>2, Zenon DEF Rest, Without
  <1>6. net' \in Seq(Piece)
    <2>1. Rest(net, n) \in Seq(Piece)
      BY <1>1, <1>4, RestType, Zenon
    <2>2. QED
      BY <1>5, <2>1
  <1> DEFINE part == SubSeq(net, 1, n)
  <1>7. part \in Seq(Piece) /\ Len(part) = n
    BY <1>1, <1>4, FirstPartType, Zenon
  <1>8. recv_buf' = recv_buf \o part
    BY <1>2
  <1>9. recv_buf' \o net' = recv_buf \o net
    <2>1. GoesOver(recv_buf, net, n)
      BY <1>1, <1>4, PartGoesOver, Zenon
    <2>2. QED
      BY <1>2, <1>5, <2>1, Zenon DEF GoesOver
  <1> HIDE DEF part
  <1>10. recv_buf' \in Seq(Piece) /\ Len(recv_buf') = Len(recv_buf) + n
    <2>1. recv_buf \in Seq(Piece) /\ part \in Seq(Piece)
      BY <1>1, <1>7
    <2>2. recv_buf \o part \in Seq(Piece) /\ Len(recv_buf \o part) = Len(recv_buf) + Len(part)
      BY <2>1
    <2>3. QED
      BY <1>7, <1>8, <2>2
  <1>11. Len(recv_buf') <= MaxRecord
    BY <1>1, <1>3, <1>4, <1>10
  <1>12. QED
    BY <1>6, <1>9, <1>10, <1>11

\* Steps of the operation under way, whichever it is.
LEMMA ReadKeeps ==
    ASSUME SchannelInv, ReadData, pc \in {"handshake", "recv"}, ~Whole,
           pc = "recv" => plain = <<>>,
           UNCHANGED <<stream, pc, held, record_len, plain, peer_closed, apiVars>>
    PROVE  SchannelInv'
  <1>1. HeldInv'
    BY DEF SchannelInv, HeldInv, apiVars
  <1>2. BufferInv'
    <2>1. held # {}
      BY DEF SchannelInv, HeldInv, Handshaking, Resources
    <2>2. /\ recv_buf' \in Seq(Piece) /\ net' \in Seq(Piece) /\ Len(recv_buf') <= MaxRecord
      BY PiecesRead
    <2>3. QED
      BY <2>1, <2>2 DEF SchannelInv, BufferInv, apiVars
  <1>3. StreamInv'
    <2>1. ASSUME held # {} PROVE \E r : StreamAt(r)'
      <3>1. PICK r : StreamAt(r)
        BY <2>1 DEF SchannelInv, StreamInv
      <3>2. recv_buf' \o net' = recv_buf \o net
        BY PiecesRead
      <3>3. plain = <<>>
        BY <2>1 DEF SchannelInv, StreamInv
      <3>4. Comes(stream', recv_buf' \o net', r)
        BY <3>1, <3>2 DEF StreamAt
      <3>5. Reads(stream', r, plain', returned')
        BY <3>1 DEF StreamAt, apiVars
      <3>6. StreamAt(r)'
        BY <3>3, <3>4, <3>5 DEF StreamAt
      <3>7. QED
        BY <3>6
    <2>2. QED
      BY <2>1 DEF SchannelInv, StreamInv, apiVars
  <1>4. QED
    BY <1>1, <1>2, <1>3 DEF SchannelInv

\* Connecting keeps the invariant, whichever step of it fails.
LEMMA SConnectKeeps == ASSUME SchannelInv, SConnect PROVE SchannelInv'
  <1>1. CASE Teardown /\ pc' = "idle" /\ returned' = returned /\ net' = net
    BY <1>1, TornDown
  <1>2. ASSUME NEW s \in Streams,
               /\ stream' = s
               /\ net' = IF s.end = "cut" THEN Front(Pieces(s.records)) ELSE Pieces(s.records)
               /\ pc' = "handshake"
               /\ held' = {"socket", "cred", "recv_buf"}
               /\ recv_buf' = <<>>
               /\ record_len' = 0
               /\ plain' = <<>>
               /\ peer_closed' = FALSE
               /\ returned' = 0
        PROVE  SchannelInv'
    <2>1. net' = Arriving(s)
      BY <1>2, Zenon DEF Arriving
    <2>2. Comes(s, net', 1) /\ Reads(s, 1, <<>>, 0)
      BY <2>1, StreamsAre, ArrivingComes, ReadsFirst
    <2>3. net' \in Seq(Piece)
      BY <2>2 DEF Comes, InOrder
    <2>4. recv_buf' \o net' = net'
      BY <1>2, <2>3
    <2>5. StreamAt(1)'
      BY <1>2, <2>2, <2>4 DEF StreamAt
    <2>6. StreamInv'
      BY <1>2, <2>5 DEF StreamInv
    <2>7. HeldInv'
      BY <1>2 DEF HeldInv, Handshaking
    <2>8. BufferInv'
      <3>1. <<>> \in Seq(Piece) /\ <<>> \in Seq(Nat) /\ Len(<<>>) <= MaxRecord
        BY SchannelAssumption
      <3>2. QED
        BY <1>2, <2>3, <3>1 DEF BufferInv
    <2>9. QED
      BY <2>6, <2>7, <2>8 DEF SchannelInv
  <1>3. QED
    BY <1>1, <1>2 DEF SConnect, FailsFor, Returns

\* A pass of handshake()'s loop keeps it.
LEMMA HandshakeRecordKeeps == ASSUME SchannelInv, HandshakeRecord PROVE SchannelInv'
  <1>1. /\ pc = "handshake" /\ pc' \in {"handshake", "verify"}
        /\ held' = held \cup {"ctxt"}
        /\ UNCHANGED <<stream, record_len, plain, peer_closed, net, wanted, returned>>
    BY DEF HandshakeRecord, apiVars
  <1>2. held # {} /\ held' = Handshaking \cup {"ctxt"}
    BY <1>1 DEF SchannelInv, HeldInv, Handshaking
  <1>3. PICK r : StreamAt(r)
    BY <1>2 DEF SchannelInv, StreamInv
  <1>4. stream \in Streams /\ plain = <<>> /\ returned = 0 /\ ~peer_closed
    BY <1>1, <1>2 DEF SchannelInv, StreamInv
  <1>5. recv_buf # <<>> /\ Len(recv_buf) >= Record.size /\ Record.kind = "handshake"
        /\ recv_buf' = Without(recv_buf, Record.size)
    BY DEF HandshakeRecord, Whole, KeepExtra
  <1>6. /\ r \in 1 .. Len(stream.records) /\ Record = stream.records[r]
        /\ Record.size = Size(stream, r)
    BY <1>2, <1>3, <1>5, RecordIs
  <1>7. /\ recv_buf' \in Seq(Piece) /\ Len(recv_buf') <= MaxRecord
        /\ Comes(stream, recv_buf' \o net, r + 1)
    <2>1. Size(stream, r) <= Len(recv_buf) /\ recv_buf' = Without(recv_buf, Size(stream, r))
      BY <1>5, <1>6, <1>2, <1>3, RecordIs DEF SchannelInv, BufferInv
    <2>2. QED
      BY <1>2, <1>3, <1>5, <2>1, RecordDropped, Zenon
  <1>8. StreamIs(stream)
    BY <1>4, StreamsAre
  <1>9. /\ stream.records[r].data = <<>> /\ stream.records[r].kind # "close_notify"
        /\ r <= Len(stream.records)
    BY <1>5, <1>6, <1>8 DEF StreamIs
  <1>10. Reads(stream, r + 1, <<>>, returned)
    BY <1>3, <1>4, <1>8, <1>9, ReadsEmpty DEF StreamAt
  <1>11. StreamAt(r + 1)'
    BY <1>1, <1>4, <1>7, <1>10 DEF StreamAt
  <1>12. StreamInv'
    BY <1>1, <1>4, <1>11 DEF StreamInv
  <1>13. HeldInv'
    BY <1>1, <1>2 DEF HeldInv
  <1>14. BufferInv'
    BY <1>1, <1>2, <1>7 DEF SchannelInv, BufferInv, Handshaking
  <1>15. QED
    BY <1>12, <1>13, <1>14 DEF SchannelInv

\* The end of the handshake keeps it.
LEMMA VerifiedKeeps == ASSUME SchannelInv, Verified PROVE SchannelInv'
  <1>1. /\ pc = "verify" /\ pc' = "idle" /\ held' = held \cup {"send_buf"}
        /\ UNCHANGED <<stream, bufferVars, net, wanted, returned>>
    BY DEF Verified, Returns
  <1>2. held # {} /\ held' = Resources
    BY <1>1 DEF SchannelInv, HeldInv, Handshaking, Resources
  <1>3. PICK r : StreamAt(r)
    BY <1>2 DEF SchannelInv, StreamInv
  <1>4. StreamAt(r)'
    BY <1>1, <1>3 DEF StreamAt, bufferVars
  <1>5. StreamInv'
    BY <1>1, <1>2, <1>4 DEF SchannelInv, StreamInv, bufferVars
  <1>6. HeldInv' /\ BufferInv'
    BY <1>1, <1>2 DEF SchannelInv, HeldInv, BufferInv, bufferVars, Resources
  <1>7. QED
    BY <1>5, <1>6 DEF SchannelInv

\* Returning what was decrypted before keeps it.
LEMMA ReturnPlainKeeps ==
    ASSUME SchannelInv, ReturnPlain
    PROVE  /\ SchannelInv'
           /\ \E n \in 1 .. Len(plain) : /\ data' = SubSeq(plain, 1, n)
                                         /\ returned' = returned + n
  <1> DEFINE n == Min({wanted, Len(plain)})
  <1>1. /\ pc = "recv" /\ pc' = "idle" /\ plain # <<>>
        /\ plain' = Without(plain, n)
        /\ recv_buf' = (IF n = Len(plain) THEN Without(recv_buf, record_len) ELSE recv_buf)
        /\ record_len' = (IF n = Len(plain) THEN 0 ELSE record_len)
        /\ returned' = returned + n /\ data' = SubSeq(plain, 1, n)
        /\ UNCHANGED <<stream, held, peer_closed, net, wanted>>
    BY DEF ReturnPlain
  <1>2. /\ held = Resources /\ held # {} /\ wanted \in Lengths /\ wanted \in Nat \ {0}
        /\ plain \in Seq(Nat) /\ Len(plain) \in Nat
    <2>1. held = Resources /\ wanted \in Lengths
      BY <1>1, Zenon DEF SchannelInv, HeldInv
    <2>2. held # {}
      BY <2>1 DEF Resources
    <2>3. wanted \in Nat \ {0}
      BY <2>1, SchannelAssumption
    <2>4. plain \in Seq(Nat)
      BY DEF SchannelInv, BufferInv
    <2>5. Len(plain) \in Nat
      BY <2>4
    <2>6. QED
      BY <2>1, <2>2, <2>3, <2>4, <2>5
  <1>3. n \in 1 .. Len(plain)
    <2>1. {wanted, Len(plain)} \in SUBSET Nat /\ {wanted, Len(plain)} # {} /\ Len(plain) # 0
      BY <1>1, <1>2
    <2>2. n \in {wanted, Len(plain)}
      BY <2>1, MinIsIn
    <2>3. n \in Nat /\ n <= Len(plain)
      BY <1>2, LesserOf
    <2> HIDE DEF n
    <2>4. QED
      BY <1>2, <2>1, <2>2, <2>3
  <1> HIDE DEF n
  <1>4. PICK r : StreamAt(r)
    BY <1>2 DEF SchannelInv, StreamInv
  <1>5. stream \in Streams /\ ~peer_closed /\ StreamIs(stream)
    BY <1>1, <1>2, StreamsAre DEF SchannelInv, StreamInv
  <1>6. /\ Comes(stream, recv_buf \o net, r) /\ Reads(stream, r, plain, returned)
        /\ record_len = Size(stream, r) /\ record_len <= Len(recv_buf)
    BY <1>1, <1>4 DEF StreamAt
  <1>7. IF n = Len(plain) THEN Reads(stream, r + 1, <<>>, returned + n)
        ELSE Reads(stream, r, Rest(plain, n), returned + n)
    BY <1>3, <1>5, <1>6, ReadsReturned
  <1>8. plain' = Rest(plain, n)
    BY <1>1, Zenon DEF Without, Rest
  <1>9. plain' \in Seq(Nat) /\ Len(plain') = Len(plain) - n
    <2>1. n \in Nat /\ n <= Len(plain)
      BY <1>2, <1>3
    <2>2. Rest(plain, n) \in Seq(Nat) /\ Len(Rest(plain, n)) = Len(plain) - n
      BY <1>2, <2>1, RestType, Zenon
    <2>3. QED
      BY <1>8, <2>2
  <1>10. /\ recv_buf \in Seq(Piece) /\ net \in Seq(Piece)
         /\ Len(recv_buf) <= MaxRecord /\ returned \in Nat
    BY DEF SchannelInv, BufferInv
  <1>11. /\ recv_buf' \in Seq(Piece) /\ Len(recv_buf') <= MaxRecord
         /\ \E q : StreamAt(q)'
    <2>1. CASE n = Len(plain)
      <3>1. /\ plain' = <<>> /\ recv_buf' = Without(recv_buf, Size(stream, r))
            /\ net' = net /\ stream' = stream
        BY <1>1, <1>2, <1>6, <1>9, <2>1
      <3>2. recv_buf # <<>>
        <4>1. r \in 1 .. Len(stream.records)
          BY <1>1, <1>6, <1>5 DEF Reads, StreamIs
        <4>2. Size(stream, r) # 0 /\ Size(stream, r) \in Nat
          BY <1>5, <4>1 DEF StreamIs
        <4>3. Len(<<>>) = 0
          OBVIOUS
        <4>4. QED
          BY <1>6, <4>2, <4>3
      <3>3. Size(stream, r) <= Len(recv_buf)
        BY <1>6
      <3>4. /\ recv_buf' \in Seq(Piece) /\ Len(recv_buf') <= MaxRecord
            /\ Comes(stream, recv_buf' \o net, r + 1)
        BY <1>2, <1>4, <3>1, <3>2, <3>3, RecordDropped, Zenon
      <3>5. StreamAt(r + 1)'
        BY <1>1, <1>7, <2>1, <3>1, <3>4 DEF StreamAt
      <3>6. QED
        BY <3>4, <3>5
    <2>2. CASE n # Len(plain)
      <3>1. recv_buf' = recv_buf /\ record_len' = record_len /\ net' = net /\ stream' = stream
            /\ returned' = returned + n
        BY <1>1, <2>2
      <3>2. StreamAt(r)'
        BY <1>6, <1>7, <1>8, <2>2, <3>1 DEF StreamAt
      <3>3. QED
        BY <1>10, <3>1, <3>2
    <2>3. QED
      BY <2>1, <2>2
  <1>12. HeldInv'
    BY <1>1, <1>2 DEF HeldInv
  <1>13. BufferInv'
    <2>1. returned' \in Nat
      BY <1>1, <1>3, <1>10
    <2>2. plain' \in Seq(Nat) /\ peer_closed' \in BOOLEAN /\ held' # {} /\ net' = net
      <3>1. peer_closed \in BOOLEAN
        BY DEF SchannelInv, BufferInv
      <3>2. peer_closed' = peer_closed /\ held' = held /\ net' = net
        BY <1>1
      <3>3. QED
        BY <1>2, <1>9, <3>1, <3>2
    <2>3. recv_buf' \in Seq(Piece) /\ Len(recv_buf') <= MaxRecord
      BY <1>11
    <2>4. QED
      BY <1>10, <2>1, <2>2, <2>3 DEF BufferInv
  <1>14. StreamInv'
    BY <1>1, <1>5, <1>11 DEF StreamInv
  <1>15. QED
    BY <1>1, <1>3, <1>12, <1>13, <1>14 DEF SchannelInv

\* A record decrypted keeps it: its plaintext is what comes next.
LEMMA DecryptKeeps == ASSUME SchannelInv, Decrypt PROVE SchannelInv'
  <1>1. /\ pc = "recv" /\ plain = <<>> /\ ~peer_closed
        /\ recv_buf # <<>> /\ Len(recv_buf) >= Record.size
        /\ UNCHANGED <<stream, held, net, wanted, returned>>
    BY DEF Decrypt, Whole
  <1>2. held = Resources /\ held # {} /\ stream \in Streams /\ wanted \in Lengths
    BY <1>1 DEF SchannelInv, HeldInv, StreamInv, Resources
  <1>3. PICK r : StreamAt(r)
    BY <1>2 DEF SchannelInv, StreamInv
  <1>4. /\ r \in 1 .. Len(stream.records) /\ Record = stream.records[r]
        /\ Record.size = Size(stream, r) /\ Size(stream, r) \in Nat
    BY <1>1, <1>2, <1>3, RecordIs
  <1>5. /\ Len(recv_buf) \in Nat /\ Size(stream, r) <= Len(recv_buf)
        /\ recv_buf \in Seq(Piece) /\ Len(recv_buf) <= MaxRecord
    <2>1. recv_buf \in Seq(Piece) /\ Len(recv_buf) <= MaxRecord
      BY DEF SchannelInv, BufferInv
    <2>2. Len(recv_buf) \in Nat
      BY <2>1
    <2>3. QED
      BY <1>1, <1>4, <2>1, <2>2
  <1>6. /\ StreamIs(stream) /\ Comes(stream, recv_buf \o net, r)
        /\ Reads(stream, r, <<>>, returned) /\ r <= Len(stream.records)
    BY <1>1, <1>2, <1>3, <1>4, StreamsAre DEF StreamAt, StreamIs
  <1> DEFINE d == stream.records[r].data
  <1>7. d \in Seq(Nat)
    BY <1>4, <1>6 DEF StreamIs
  <1>8. HeldInv'
    <2>1. pc' \in {"recv", "idle"}
      BY <1>1 DEF Decrypt, FailsFor, Returns
    <2>2. QED
      BY <1>1, <1>2, <2>1 DEF HeldInv
  <1>9. CASE /\ Record.kind = "data" /\ d # <<>>
             /\ plain' = d /\ record_len' = Record.size
             /\ UNCHANGED <<pc, recv_buf, peer_closed>>
    <2>1. Reads(stream, r, d, returned)
      BY <1>4, <1>6, <1>9, ReadsDecrypted
    <2>2. StreamAt(r)'
      BY <1>1, <1>4, <1>5, <1>6, <1>9, <2>1 DEF StreamAt
    <2>3. StreamInv'
      BY <1>1, <1>2, <1>9, <2>2 DEF StreamInv
    <2>4. BufferInv'
      BY <1>1, <1>2, <1>7, <1>9 DEF SchannelInv, BufferInv
    <2>5. QED
      BY <1>8, <2>3, <2>4 DEF SchannelInv
  <1>10. CASE /\ Record.kind = "data" /\ d = <<>>
              /\ plain' = d /\ record_len' = 0
              /\ recv_buf' = Without(recv_buf, Record.size)
              /\ UNCHANGED <<pc, peer_closed>>
    <2>1. Reads(stream, r + 1, <<>>, returned)
      <3>1. stream.records[r].kind # "close_notify" /\ stream.records[r].data = <<>>
        BY <1>4, <1>10
      <3>2. QED
        BY <1>6, <3>1, ReadsEmpty
    <2>2. /\ recv_buf' \in Seq(Piece) /\ Len(recv_buf') <= MaxRecord
          /\ Comes(stream, recv_buf' \o net, r + 1)
      <3>1. recv_buf' = Without(recv_buf, Size(stream, r))
        BY <1>4, <1>10
      <3>2. QED
        BY <1>1, <1>2, <1>3, <1>5, <3>1, RecordDropped, Zenon
    <2>3. StreamAt(r + 1)'
      BY <1>1, <1>10, <2>1, <2>2 DEF StreamAt
    <2>4. StreamInv'
      BY <1>1, <1>2, <1>10, <2>3 DEF StreamInv
    <2>5. BufferInv'
      BY <1>1, <1>2, <1>10, <2>2 DEF SchannelInv, BufferInv
    <2>6. QED
      BY <1>8, <2>4, <2>5 DEF SchannelInv
  <1>11. CASE /\ Record.kind = "close_notify"
              /\ peer_closed' = TRUE
              /\ UNCHANGED <<pc, plain, recv_buf>>
    <2>1. returned = Len(Plaintext(stream))
      BY <1>4, <1>6, <1>11, ReadsAll
    <2>2. Untouched
      BY <1>1, <1>2, <1>11, <2>1 DEF Untouched
    <2>3. QED
      BY <1>1, <1>8, <1>11, <2>2, LeftAsItIs
  <1>12. CASE pc' = "idle" /\ UNCHANGED <<plain, recv_buf, peer_closed>>
    <2>1. Untouched
      BY <1>1, <1>2, <1>12 DEF Untouched
    <2>2. QED
      BY <1>8, <1>12, <2>1, LeftAsItIs
  <1>13. Record.data = d
    BY <1>4
  <1> HIDE DEF d
  <1>14. QED
    BY <1>9, <1>10, <1>11, <1>12, <1>13 DEF Decrypt, FailsFor, Returns, KeepExtra

\* Where nothing is left to come, the end is that of the data (RecvEnd).
LEMMA EndIsTheEnd ==
    ASSUME SchannelInv, held # {}, plain = <<>>, recv_buf = <<>>, net = <<>>
    PROVE  returned = Len(Plaintext(stream))
  <1>1. PICK r : StreamAt(r)
    BY DEF SchannelInv, StreamInv
  <1>2. stream \in Streams /\ StreamIs(stream)
    BY StreamsAre DEF SchannelInv, StreamInv
  <1>3. recv_buf \o net = <<>>
    OBVIOUS
  <1>4. Exhausted(stream, r)
    BY <1>1, <1>3 DEF StreamAt, Comes
  <1>5. Reads(stream, r, <<>>, returned)
    BY <1>1 DEF StreamAt
  <1>6. QED
    BY <1>2, <1>4, <1>5, ReadsAll

\* The end of the stream keeps it.
LEMMA RecvEndKeeps == ASSUME SchannelInv, RecvEnd PROVE SchannelInv'
  <1>1. /\ pc = "recv" /\ pc' = "idle" /\ plain = <<>> /\ ~peer_closed /\ net = <<>>
        /\ UNCHANGED <<stream, held, recv_buf, record_len, plain, net, wanted, returned>>
        /\ \/ recv_buf = <<>> /\ peer_closed' = TRUE
           \/ peer_closed' = peer_closed
    BY DEF RecvEnd, Incomplete, AtEnd, FailsFor, Returns
  <1>2. held = Resources /\ held # {}
    BY <1>1 DEF SchannelInv, HeldInv, Resources
  <1>3. HeldInv'
    BY <1>1, <1>2 DEF HeldInv
  <1>4. Untouched
    BY <1>1, <1>2, EndIsTheEnd DEF Untouched
  <1>5. QED
    BY <1>1, <1>3, <1>4, LeftAsItIs

\* Steps that take nothing of what was received.
LEMMA QuietKeeps ==
    ASSUME SchannelInv, pc \in {"idle", "recv"},
           UNCHANGED <<stream, held, bufferVars, net, returned>>,
           \/ pc' = "idle" /\ held \in {{}, Resources}
           \/ pc' = "recv" /\ "recv_buf" \in held /\ pc = "idle" /\ wanted' \in Lengths
    PROVE  SchannelInv'
  <1>1. HeldInv'
    BY DEF SchannelInv, HeldInv, Resources
  <1>2. Untouched
    BY DEF Untouched, bufferVars
  <1>3. QED
    BY <1>1, <1>2, LeftAsItIs

\* recv_buf starts at a record, of which it holds as much as any has at most, from the
\* handshake on and whatever fails; what was decrypted is of that record, and what was
\* returned is the data before it.
THEOREM SchannelInvariance == SchannelSpec => []SchannelInv
  <1>1. SchannelInit => SchannelInv
    <2>1. <<>> \in Seq(Piece) /\ <<>> \in Seq(Nat) /\ Len(<<>>) <= MaxRecord
      BY SchannelAssumption
    <2> SUFFICES ASSUME SchannelInit PROVE SchannelInv
      OBVIOUS
    <2>2. HeldInv /\ StreamInv
      BY DEF SchannelInit, HeldInv, StreamInv
    <2>3. BufferInv
      BY <2>1 DEF SchannelInit, BufferInv
    <2>4. QED
      BY <2>2, <2>3 DEF SchannelInv
  <1>2. SchannelInv /\ [SchannelNext]_schannelVars => SchannelInv'
    <2> SUFFICES ASSUME SchannelInv, [SchannelNext]_schannelVars PROVE SchannelInv'
      OBVIOUS
    <2>0. pc = "idle" => held \in {{}, Resources}
      BY Zenon DEF SchannelInv, HeldInv
    <2>00. pc = "recv" => held \in {{}, Resources}
      BY Zenon DEF SchannelInv, HeldInv
    <2>1. CASE SConnect
      BY <2>1, SConnectKeeps
    <2>2. CASE HandshakeRecord
      BY <2>2, HandshakeRecordKeeps
    <2>3. CASE HandshakeRead
      BY <2>3, ReadKeeps DEF HandshakeRead
    <2>4. CASE HandshakeFails \/ VerifyFails
      BY <2>4, TornDown DEF HandshakeFails, VerifyFails, ConnectFails, FailsFor, Returns
    <2>5. CASE Verified
      BY <2>5, VerifiedKeeps
    <2>6. CASE SSend \/ SRecvWait
      BY <2>0, <2>6, QuietKeeps DEF SSend, SRecvWait, Returns
    <2>7. CASE SRecv
      BY <2>0, <2>7, QuietKeeps DEF SRecv, FailsFor, Returns
    <2>8. CASE ReturnEnd \/ RecvTimeout \/ RecvFails
      BY <2>00, <2>8, QuietKeeps
      DEF ReturnEnd, RecvTimeout, RecvFails, Incomplete, FailsFor, Returns
    <2>9. CASE ReturnPlain
      BY <2>9, ReturnPlainKeeps
    <2>10. CASE Decrypt
      BY <2>10, DecryptKeeps
    <2>11. CASE RecvRead
      BY <2>11, ReadKeeps DEF RecvRead, Incomplete
    <2>12. CASE RecvEnd
      BY <2>12, RecvEndKeeps
    <2>13. CASE SClose
      BY <2>13, TornDown DEF SClose
    <2>14. CASE UNCHANGED schannelVars
      <3>1. HeldInv' /\ BufferInv'
        BY <2>14 DEF SchannelInv, HeldInv, BufferInv, schannelVars, bufferVars, apiVars
      <3>2. \A r : StreamAt(r)' <=> StreamAt(r)
        BY <2>14 DEF StreamAt, schannelVars, bufferVars, apiVars
      <3>3. StreamInv'
        BY <2>14, <3>2 DEF SchannelInv, StreamInv, schannelVars, bufferVars, apiVars
      <3>4. QED
        BY <3>1, <3>3 DEF SchannelInv
    <2>15. QED
      BY <2>1, <2>2, <2>3, <2>4, <2>5, <2>6, <2>7, <2>8, <2>9, <2>10, <2>11, <2>12, <2>13, <2>14
      DEF SchannelNext
  <1>3. QED
    BY <1>1, <1>2, PTL DEF SchannelSpec

\* A socket that isn't open holds nothing of Windows's, and recv_buf, through handshakes,
\* timeouts and reconnections, starts at a record and holds at most one that is as long
\* as any may be (schannel_connect(), schannel_recv(), teardown()).
THEOREM HoldsCorrect == SchannelSpec => []HoldsOnlyWhenConnected
  <1>1. SchannelInv => HoldsOnlyWhenConnected
    <2> SUFFICES ASSUME SchannelInv PROVE HoldsOnlyWhenConnected
      OBVIOUS
    <2>1. ASSUME recv_buf # <<>> PROVE Head(recv_buf)[2] = 1
      <3>1. held # {}
        BY <2>1 DEF SchannelInv, BufferInv
      <3>2. PICK r : StreamAt(r)
        BY <3>1 DEF SchannelInv, StreamInv
      <3>3. QED
        BY <2>1, <3>1, <3>2, RecordIs
    <2>2. QED
      BY <2>1 DEF SchannelInv, HeldInv, BufferInv, HoldsOnlyWhenConnected
  <1>2. QED
    BY <1>1, SchannelInvariance, PTL

-----------------------------------------------------------------------------
(* The Schannel socket keeps its contract.                                 *)

Left == IF Connected THEN Without(Plaintext(stream), returned) ELSE <<>>
Ready == Connected /\ HasSomething
Keeps == [Contract!Next]_(Contract!contractVars)

\* Steps that the contract doesn't see, or only sees something arrive in.
LEMMA Unseen ==
    ASSUME Connected' <=> Connected, Left' = Left, data' = data, result' = result,
           Ready => Ready'
    PROVE  Keeps
  <1>1. CASE Ready' <=> Ready
    BY <1>1 DEF Keeps, Contract!contractVars, Left, Ready
  <1>2. CASE ~(Ready' <=> Ready)
    <2>1. Connected /\ Ready'
      BY <1>2 DEF Ready
    <2>2. Contract!Arrive
      BY <2>1 DEF Contract!Arrive, Left, Ready
    <2>3. QED
      BY <2>2 DEF Keeps, Contract!Next
  <1>3. QED
    BY <1>1, <1>2

\* A step that leaves the socket closed is one of closing.
LEMMA Closes ==
    ASSUME ~Connected', data' = <<>>, result' \in {"closed", "failed"}
    PROVE  Keeps
  <1>1. Contract!Close
    BY DEF Contract!Close
  <1>2. QED
    BY <1>1 DEF Keeps, Contract!Next

\* One that opens it with the whole stream ahead is one of connecting.
LEMMA Opens ==
    ASSUME Connected', Left' \in {Plaintext(s) : s \in Streams}, data' = <<>>,
           result' = "connected"
    PROVE  Keeps
  <1>1. Contract!Connect
    BY DEF Contract!Connect, Left
  <1>2. QED
    BY <1>1 DEF Keeps, Contract!Next

\* One that only says what a send came to is a send.
LEMMA Sends ==
    ASSUME Connected' <=> Connected, Left' = Left, Ready' <=> Ready, data' = <<>>,
           result' = "failed" \/ (result' = "sent" /\ Connected)
    PROVE  Keeps
  <1>1. Contract!Send
    BY DEF Contract!Send, Left, Ready
  <1>2. QED
    BY <1>1 DEF Keeps, Contract!Next

\* One that gives nothing is what a receive that waits may come to.
LEMMA Waits ==
    ASSUME Connected' <=> Connected, Left' = Left, Ready' <=> Ready, data' = <<>>,
           result' = "ready" \/ (result' = "nothing" /\ Connected /\ ~Ready)
    PROVE  Keeps
  <1>1. Contract!RecvWait
    BY DEF Contract!RecvWait, Left, Ready
  <1>2. QED
    BY <1>1 DEF Keeps, Contract!Next

\* One that gives the next of the plaintext is a receive.
LEMMA Receives ==
    ASSUME Connected, Connected',
           \/ \E n \in 1 .. Len(Left) :
                /\ data' = SubSeq(Left, 1, n)
                /\ Left' = SubSeq(Left, n + 1, Len(Left))
                /\ result' = "data"
           \/ /\ data' = <<>> /\ Left' = Left
              /\ \/ result' \in {"timeout", "failed"}
                 \/ result' = "end" /\ Left = <<>>
    PROVE  Keeps
  <1>1. Contract!Recv
    BY DEF Contract!Recv, Left
  <1>2. QED
    BY <1>1 DEF Keeps, Contract!Next

\* What an operation that takes nothing leaves as it was.
LEMMA SameAsBefore ==
    ASSUME UNCHANGED <<stream, held, recv_buf, plain, peer_closed, returned>>
    PROVE  (Connected' <=> Connected) /\ Left' = Left /\ (Ready' <=> Ready)
  BY DEF Connected, Left, Ready, HasSomething, Whole, Record

\* What is open is where recv is, and what isn't, where it isn't.
LEMMA OpenWhere ==
    ASSUME SchannelInv
    PROVE  /\ pc = "recv" => Connected /\ held # {} /\ stream \in Streams
           /\ pc \in {"handshake", "verify"} => ~Connected
           /\ "recv_buf" \notin held => ~Connected
  BY DEF SchannelInv, HeldInv, StreamInv, Connected, Resources, Handshaking

\* The plaintext is a sequence.
LEMMA PlaintextType == ASSUME NEW s \in Streams PROVE Plaintext(s) \in Seq(Nat)
  <1>1. StreamIs(s)
    BY StreamsAre
  <1>2. PICK m : EndsAfter(s, m) /\ Plaintext(s) = Given(s, m)
    BY <1>1, PlaintextIs
  <1>3. QED
    BY <1>1, <1>2, GivenType DEF EndsAfter

\* All of it is left before any has been returned, and none when all has.
LEMMA LeftAtTheEnds ==
    ASSUME NEW s \in Streams
    PROVE  /\ Without(Plaintext(s), 0) = Plaintext(s)
           /\ Without(Plaintext(s), Len(Plaintext(s))) = <<>>
  <1> DEFINE t == Plaintext(s)
  <1>1. t \in Seq(Nat)
    BY PlaintextType
  <1> HIDE DEF t
  <1>2. Without(t, 0) = t /\ Without(t, Len(t)) = <<>>
    BY <1>1 DEF Without
  <1>3. QED
    BY <1>2 DEF t

\* Returning what was decrypted before is a receive.
LEMMA ReturnPlainReceives == ASSUME SchannelInv, ReturnPlain PROVE Keeps
  <1>1. PICK n \in 1 .. Len(plain) : data' = SubSeq(plain, 1, n) /\ returned' = returned + n
    BY ReturnPlainKeeps
  <1>2. /\ pc = "recv" /\ plain # <<>> /\ result' = "data" /\ held' = held /\ stream' = stream
    BY DEF ReturnPlain
  <1>3. Connected /\ Connected' /\ held # {} /\ stream \in Streams
    BY <1>2, OpenWhere DEF Connected
  <1>4. PICK r : StreamAt(r)
    BY <1>3 DEF SchannelInv, StreamInv
  <1> DEFINE t == Plaintext(stream)
             u == Rest(t, returned)
  <1>5. t \in Seq(Nat) /\ returned <= Len(t) /\ Starts(plain, u)
    BY <1>2, <1>3, <1>4, StreamsAre, ReadsOfPlaintext DEF StreamAt
  <1>6. returned \in Nat /\ plain \in Seq(Nat)
    BY DEF SchannelInv, BufferInv
  <1>7. Left = u /\ Left' = Rest(t, returned + n)
    BY <1>1, <1>2, <1>3 DEF Left, Rest, Without
  <1> HIDE DEF t
  <1>8. u \in Seq(Nat) /\ Len(u) = Len(t) - returned
    BY <1>5, <1>6, RestType, Zenon
  <1>9. n \in Nat /\ n <= Len(plain) /\ Len(plain) <= Len(u) /\ Len(plain) \in Nat
    BY <1>5, <1>6 DEF Starts
  <1>10. Left' = SubSeq(u, n + 1, Len(u))
    <2>1. returned + n <= Len(t)
      BY <1>5, <1>6, <1>8, <1>9
    <2>2. AddsUp(t, returned, n)
      BY <1>5, <1>6, <1>9, <2>1, RestTwice, Zenon
    <2>3. QED
      BY <1>7, <2>2, Zenon DEF AddsUp, Rest
  <1> HIDE DEF u
  <1>11. SubSeq(plain, 1, n) = SubSeq(u, 1, n)
    <2> DEFINE a == SubSeq(plain, 1, n)
               b == SubSeq(u, 1, n)
    <2>1. n \in 0 .. Len(plain) /\ n \in 0 .. Len(u)
      BY <1>8, <1>9
    <2>2. a \in Seq(Nat) /\ Len(a) = n /\ \A i \in 1 .. n : a[i] = plain[i]
      BY <1>6, <2>1, FirstPartType, Zenon
    <2>3. b \in Seq(Nat) /\ Len(b) = n /\ \A i \in 1 .. n : b[i] = u[i]
      BY <1>8, <2>1, FirstPartType, Zenon
    <2> HIDE DEF a, b
    <2>4. \A i \in 1 .. n : plain[i] = u[i]
      BY <1>5, <1>9 DEF Starts, SameTo
    <2>5. a = b
      BY <2>2, <2>3, <2>4, SameElements DEF SameTo
    <2>6. QED
      BY <2>5 DEF a, b
  <1>12. n \in 1 .. Len(u)
    BY <1>1, <1>8, <1>9
  <1>13. \E k \in 1 .. Len(Left) :
            /\ data' = SubSeq(Left, 1, k)
            /\ Left' = SubSeq(Left, k + 1, Len(Left))
            /\ result' = "data"
    BY <1>1, <1>2, <1>7, <1>10, <1>11, <1>12
  <1>14. QED
    BY <1>3, <1>13, Receives

\* Decrypting a record isn't seen from outside.
LEMMA DecryptUnseen == ASSUME SchannelInv, Decrypt PROVE Keeps
  <1>1. /\ pc = "recv" /\ plain = <<>> /\ ~peer_closed /\ Whole
        /\ UNCHANGED <<stream, held, net, wanted, returned>>
    BY DEF Decrypt
  <1>2. Connected /\ Connected' /\ Left' = Left
    BY <1>1, OpenWhere DEF Connected, Left
  <1>3. CASE /\ Record.kind = "data" /\ plain' = Record.data
             /\ UNCHANGED <<pc, peer_closed, data, result>>
    <2>1. Ready => Ready'
      BY <1>1, <1>2, <1>3 DEF Ready, HasSomething
    <2>2. QED
      BY <1>2, <1>3, <2>1, Unseen
  <1>4. CASE peer_closed' = TRUE /\ UNCHANGED <<data, result>>
    <2>1. Ready'
      BY <1>2, <1>4 DEF Ready, HasSomething
    <2>2. QED
      BY <1>2, <1>4, <2>1, Unseen
  <1>5. CASE data' = <<>> /\ result' = "failed"
    BY <1>2, <1>5, Receives
  <1>6. QED
    BY <1>3, <1>4, <1>5 DEF Decrypt, FailsFor, Returns

\* The end of the stream is the receive that finds it.
LEMMA RecvEndReceives == ASSUME SchannelInv, RecvEnd PROVE Keeps
  <1>1. /\ pc = "recv" /\ plain = <<>> /\ net = <<>> /\ data' = <<>>
        /\ (result' = "end" /\ recv_buf = <<>>) \/ result' = "failed"
        /\ UNCHANGED <<stream, held, returned>>
    BY DEF RecvEnd, Incomplete, AtEnd, FailsFor, Returns
  <1>2. Connected /\ Connected' /\ Left' = Left /\ held # {} /\ stream \in Streams
    BY <1>1, OpenWhere DEF Connected, Left
  <1>3. recv_buf = <<>> => Left = <<>>
    BY <1>1, <1>2, EndIsTheEnd, LeftAtTheEnds DEF Left
  <1>4. QED
    BY <1>1, <1>2, <1>3, Receives

\* The end of the handshake is what opens the socket.
LEMMA VerifiedOpens == ASSUME SchannelInv, Verified PROVE Keeps
  <1>1. /\ pc = "verify" /\ held' = held \cup {"send_buf"} /\ data' = <<>>
        /\ result' = "connected" /\ UNCHANGED <<stream, returned>>
    BY DEF Verified, Returns
  <1>2. held # {} /\ stream \in Streams /\ returned = 0
    BY <1>1 DEF SchannelInv, HeldInv, StreamInv, Handshaking
  <1>3. Connected' /\ Left' = Plaintext(stream)
    BY <1>1, <1>2, LeftAtTheEnds DEF Connected, Left
  <1>4. QED
    BY <1>1, <1>2, <1>3, Opens

\* Records cut anywhere, decrypted in place and returned in pieces, and timeouts in the
\* middle of one: the Schannel socket keeps the contract of ebisu_socket_ops_t. What the
\* peer sends comes whole and in order, its end only after it, and recv_wait doesn't say
\* that nothing is there while the buffer holds data (schannel_recv(), decrypt_record(),
\* schannel_recv_wait()).
THEOREM SchannelContractCorrect == SchannelSpec => KeepsSocketContract
  <1>1. SchannelInit => Contract!Init
    BY DEF SchannelInit, Contract!Init, Connected
  <1>2. SchannelInv /\ [SchannelNext]_schannelVars => Keeps
    <2> SUFFICES ASSUME SchannelInv, [SchannelNext]_schannelVars PROVE Keeps
      OBVIOUS
    <2>1. CASE SConnect \/ HandshakeFails \/ VerifyFails \/ SClose
      <3>1. ~Connected' /\ data' = <<>> /\ result' \in {"closed", "failed"}
        BY <2>1 DEF SConnect, HandshakeFails, VerifyFails, SClose, ConnectFails, Teardown,
                    FailsFor, Returns, Connected
      <3>2. QED
        BY <3>1, Closes
    <2>2. CASE HandshakeRecord \/ HandshakeRead
      <3>1. /\ pc = "handshake" /\ held' \in {held, held \cup {"ctxt"}}
            /\ data' = data /\ result' = result
        BY <2>2 DEF HandshakeRecord, HandshakeRead, apiVars
      <3>2. ~Connected /\ ~Connected'
        BY <3>1, OpenWhere DEF Connected
      <3>3. QED
        BY <3>1, <3>2, Unseen DEF Left, Ready
    <2>3. CASE Verified
      BY <2>3, VerifiedOpens
    <2>4. CASE SSend
      BY <2>4, SameAsBefore, Sends DEF SSend, bufferVars
    <2>5. CASE SRecv
      <3>1. UNCHANGED <<stream, held, recv_buf, plain, peer_closed, returned>>
        BY <2>5 DEF SRecv, bufferVars
      <3>2. CASE data' = data /\ result' = result
        BY <3>1, <3>2, SameAsBefore, Unseen
      <3>3. CASE data' = <<>> /\ result' = "failed"
        BY <3>1, <3>3, SameAsBefore, Sends
      <3>4. QED
        BY <2>5, <3>2, <3>3 DEF SRecv, FailsFor, Returns
    <2>6. CASE SRecvWait
      <3>1. /\ UNCHANGED <<stream, held, recv_buf, plain, peer_closed, returned>>
            /\ data' = <<>>
            /\ \/ result' = "ready"
               \/ /\ result' = "nothing" /\ Connected /\ plain = <<>>
                  /\ ~peer_closed /\ recv_buf = <<>>
        BY <2>6 DEF SRecvWait, Returns, bufferVars
      <3>2. recv_buf = <<>> /\ plain = <<>> /\ ~peer_closed => ~Ready
        BY DEF Ready, HasSomething, Whole
      <3>3. QED
        BY <3>1, <3>2, SameAsBefore, Waits
    <2>7. CASE ReturnPlain
      BY <2>7, ReturnPlainReceives
    <2>8. CASE ReturnEnd
      <3>1. /\ pc = "recv" /\ peer_closed /\ data' = <<>> /\ result' = "end"
            /\ UNCHANGED <<stream, held, recv_buf, plain, peer_closed, returned>>
        BY <2>8 DEF ReturnEnd, Returns, bufferVars
      <3>2. Connected /\ held # {} /\ stream \in Streams
        BY <3>1, OpenWhere
      <3>3. returned = Len(Plaintext(stream))
        BY <3>1, <3>2 DEF SchannelInv, StreamInv
      <3>4. Left = <<>>
        BY <3>2, <3>3, LeftAtTheEnds DEF Left
      <3>5. QED
        BY <3>1, <3>2, <3>4, SameAsBefore, Receives
    <2>9. CASE Decrypt
      BY <2>9, DecryptUnseen
    <2>10. CASE RecvRead
      <3>1. /\ pc = "recv" /\ plain = <<>> /\ ~peer_closed /\ ~Whole
            /\ UNCHANGED <<stream, held, returned, data, result>>
        BY <2>10 DEF RecvRead, Incomplete, apiVars
      <3>2. ~Ready
        BY <3>1 DEF Ready, HasSomething
      <3>3. QED
        BY <3>1, <3>2, Unseen DEF Connected, Left
    <2>11. CASE RecvEnd
      BY <2>11, RecvEndReceives
    <2>12. CASE RecvTimeout \/ RecvFails
      <3>1. /\ pc = "recv" /\ data' = <<>> /\ result' \in {"timeout", "failed"}
            /\ UNCHANGED <<stream, held, recv_buf, plain, peer_closed, returned>>
        BY <2>12 DEF RecvTimeout, RecvFails, Incomplete, FailsFor, Returns, bufferVars
      <3>2. QED
        BY <3>1, OpenWhere, SameAsBefore, Receives
    <2>13. CASE UNCHANGED schannelVars
      BY <2>13, SameAsBefore, Unseen DEF schannelVars, bufferVars, apiVars
    <2>14. QED
      BY <2>1, <2>2, <2>3, <2>4, <2>5, <2>6, <2>7, <2>8, <2>9, <2>10, <2>11, <2>12, <2>13
      DEF SchannelNext
  <1>3. QED
    BY <1>1, <1>2, SchannelInvariance, PTL
    DEF SchannelSpec, KeepsSocketContract, Contract!Spec, Keeps

=============================================================================
