---------------------------- MODULE SessionProof ----------------------------
(***************************************************************************)
(* Proofs about Session, for any number of kii_t instances, any bodies,    *)
(* any longest wait and whatever of AppCalls applications call.            *)
(***************************************************************************)
EXTENDS Session, SequenceFacts

USE DEF vars, authorVars, passwordVars, copyVars, requestVars, serverVars

-----------------------------------------------------------------------------
(* Types.                                                                  *)

Authors == [access : Nat, refresh : Nat]
Requests ==
    [token : Nat, streamed : BOOLEAN, room : SUBSET Modes, force : BOOLEAN,
     keep : BOOLEAN, body_kept : BOOLEAN]
Places ==
    {"idle", "check", "size", "renew", "refreshing", "logging_in", "onboarding",
     "onboarding_again", "send", "resend", "plain", "done", "auth", "onboard",
     "publish_auth", "publish_onboard", "again"}

TokensTypeOK ==
    /\ author \in Authors
    /\ generation \in Nat
    /\ kii \in [Kiis -> Authors]
    /\ kii_generation \in [Kiis -> Nat]
    /\ valid \in SUBSET Nat
    /\ issued \in Nat

RequestsTypeOK ==
    /\ lock \in Kiis \cup {NoOne}
    /\ pc \in [Kiis -> Places]
    /\ request \in [Kiis -> Requests]
    /\ ret \in [Kiis -> {"none", "ok", "error", "renewed", "refused"}]
    /\ acted \in [Kiis -> Nat]
    /\ body \in [Kiis -> {"whole", "lost"}]

WaitsTypeOK ==
    /\ password_wait \in Nat /\ waited \in Nat
    /\ refusals \in Nat /\ since \in Nat

-----------------------------------------------------------------------------
(* The inductive invariant.                                                *)

\* The lock is held through a renewal, and through nothing else.
HoldsLock(k) == pc[k] \in Renewing \cup {"onboarding_again"}
LockInv == \A k \in Kiis : HoldsLock(k) <=> lock = k

\* What becomes of a request is decided once, and it was acted on then at most.
ActedInv(k) ==
    /\ pc[k] # "done" => acted[k] = 0 /\ ret[k] = "none"
    /\ acted[k] <= 1
    /\ ret[k] = "ok" => acted[k] = 1
    /\ ret[k] \in {"refused", "renewed"} => acted[k] = 0

\* Only a request that was refused forces a renewal, and loses its body to it: a
\* renewal that isn't forced is only made where the body is safe.
BodyInv(k) ==
    /\ pc[k] \notin Renewing \cup {"size", "renew", "resend", "done"} => ~request[k].force
    /\ ~request[k].force /\ pc[k] # "done" => body[k] = "whole"
    /\ ~request[k].force /\ pc[k] \in Renewing \cup {"renew"}
         => request[k].keep \/ request[k].streamed
    /\ request[k].force /\ request[k].body_kept /\ pc[k] \in Renewing \cup {"size", "renew"}
         => body[k] = "whole" /\ ~request[k].streamed
    /\ pc[k] = "resend" => body[k] = "whole" /\ ~request[k].streamed

RequestInv ==
    /\ RequestsTypeOK
    /\ LockInv
    /\ \A k \in Kiis : ActedInv(k) /\ BodyInv(k)

-----------------------------------------------------------------------------
(* Tokens.                                                                 *)

\* What a token that is issued does to those the server takes.
LEMMA IssuesOne ==
    ASSUME NEW hasRefresh \in BOOLEAN, NEW spent, Issues(hasRefresh, spent),
           issued \in Nat, valid \in SUBSET Nat
    PROVE  /\ issued' = issued + 1
           /\ issued' \in Nat
           /\ valid' \subseteq valid \cup {issued'}
           /\ issued' \in valid'
           /\ valid' \in SUBSET Nat
           /\ NewAuthor(hasRefresh) \in Authors
  <1>1. issued' = issued + 1 /\ issued' \in Nat
    BY DEF Issues
  <1>2. valid' = (valid \ spent) \cup {issued'}
    BY DEF Issues
  <1>3. NewAuthor(hasRefresh) \in Authors
    BY <1>1 DEF NewAuthor, Authors
  <1> QED
    BY <1>1, <1>2, <1>3

\* The steps keep the types of what the tokens are held in.
LEMMA TokensTyped == ASSUME TokensTypeOK, [Next]_vars PROVE TokensTypeOK'
  <1> USE DEF TokensTypeOK, Authors
  <1>1. ASSUME NEW k \in Kiis, Start(k) PROVE TokensTypeOK'
    BY <1>1 DEF Start, Sync
  <1>2. ASSUME NEW k \in Kiis, OnboardAgain(k) PROVE TokensTypeOK'
    BY <1>2 DEF OnboardAgain
  <1>3. ASSUME NEW k \in Kiis, Check(k) PROVE TokensTypeOK'
    BY <1>3 DEF Check
  <1>4. ASSUME NEW k \in Kiis, Size(k) PROVE TokensTypeOK'
    BY <1>4 DEF Size
  <1>5. ASSUME NEW k \in Kiis, Renew(k) PROVE TokensTypeOK'
    BY <1>5 DEF Renew, Sync, Finish
  <1>6. ASSUME NEW k \in Kiis, RefreshRefused(k) PROVE TokensTypeOK'
    BY <1>6 DEF RefreshRefused, Finish, Sync
  <1>7. ASSUME NEW k \in Kiis, PasswordTurnedDown(k) PROVE TokensTypeOK'
    BY <1>7 DEF PasswordTurnedDown, Finish, Sync
  <1>8. ASSUME NEW k \in Kiis, Unanswered(k) PROVE TokensTypeOK'
    BY <1>8 DEF Unanswered, Finish, Sync
  <1>9. ASSUME NEW k \in Kiis, Served(k) PROVE TokensTypeOK'
    BY <1>9 DEF Served
  <1>10. ASSUME NEW k \in Kiis, Refused(k) PROVE TokensTypeOK'
    BY <1>10 DEF Refused
  <1>11. ASSUME NEW k \in Kiis, Fails(k) PROVE TokensTypeOK'
    BY <1>11 DEF Fails
  <1>12. ASSUME NEW k \in Kiis, Return(k) PROVE TokensTypeOK'
    BY <1>12 DEF Return
  <1>13. ASSUME NEW k \in Kiis, LoginAnswered(k) PROVE TokensTypeOK'
    BY <1>13 DEF LoginAnswered, Issues, NewAuthor
  <1>14. ASSUME NEW k \in Kiis, LoginFails(k) PROVE TokensTypeOK'
    BY <1>14 DEF LoginFails
  <1>15. ASSUME NEW k \in Kiis, Publish(k) PROVE TokensTypeOK'
    BY <1>15 DEF Publish, Store, Sync
  <1>16. ASSUME NEW k \in Kiis, Again(k) PROVE TokensTypeOK'
    BY <1>16 DEF Again, Sync
  <1>17. ASSUME NEW k \in Kiis, NEW received \in BOOLEAN, RefreshAccepted(k, received)
         PROVE  TokensTypeOK'
    <2>0. PICK rotates \in BOOLEAN :
            /\ Issues(rotates, IF rotates THEN {author.refresh, author.access} ELSE {})
            /\ IF received
               THEN Store([access |-> issued',
                           refresh |-> IF rotates THEN issued' ELSE author.refresh], TRUE)
               ELSE UNCHANGED authorVars
      BY <1>17 DEF RefreshAccepted
    <2>1. issued' \in Nat /\ valid' \in SUBSET Nat
      BY <2>0, IssuesOne
    <2>2. author' \in Authors /\ generation' \in Nat
      BY <2>0, <2>1 DEF Store
    <2>3. Sync(k)
      BY <1>17 DEF RefreshAccepted, Finish
    <2>4. QED
      BY <2>1, <2>2, <2>3 DEF Sync
  <1>18. ASSUME NEW k \in Kiis, NEW received \in BOOLEAN, PasswordTaken(k, received)
         PROVE  TokensTypeOK'
    <2>0. PICK hasRefresh \in BOOLEAN :
            /\ Issues(hasRefresh, {})
            /\ IF received
               THEN Store(NewAuthor(hasRefresh), pc[k] = "logging_in") /\ PasswordAccepted
               ELSE UNCHANGED <<authorVars, passwordVars>>
      BY <1>18 DEF PasswordTaken
    <2>1. issued' \in Nat /\ valid' \in SUBSET Nat
      BY <2>0, IssuesOne
    <2>2. author' \in Authors /\ generation' \in Nat
      <3>1. CASE received
        BY <2>0, <3>1, IssuesOne DEF Store
      <3>2. CASE ~received
        BY <2>0, <3>2
      <3>3. QED
        BY <3>1, <3>2
    <2>3. Sync(k)
      BY <1>18 DEF PasswordTaken, Finish
    <2>4. QED
      BY <2>1, <2>2, <2>3 DEF Sync
  <1>19. ASSUME NEW k \in Kiis, NEW how \in {"auth_thing", "onboard"}, Login(k, how)
         PROVE  TokensTypeOK'
    BY <1>19 DEF Login
  <1>20. CASE SetAuthor
    BY <1>20 DEF SetAuthor
  <1>21. CASE SetPassword \/ \E mode \in Modes : SetRenewMode(mode)
    BY <1>21 DEF SetPassword, SetRenewMode
  <1>22. CASE Pass \/ Ages \/ Expires \/ PasswordPutRight
    BY <1>22 DEF Pass, Ages, Expires, PasswordPutRight
  <1>23. CASE UNCHANGED vars
    BY <1>23
  <1>24. QED
    BY <1>1, <1>2, <1>3, <1>4, <1>5, <1>6, <1>7, <1>8, <1>9, <1>10, <1>11, <1>12, <1>13,
       <1>14, <1>15, <1>16, <1>17, <1>18, <1>19, <1>20, <1>21, <1>22, <1>23
       DEF Next, Begins, Goes, Renewal

-----------------------------------------------------------------------------
(* Requests.                                                               *)

\* What a kii_t's step leaves of the requests of the others.
OthersStay(k) ==
    \A j \in Kiis \ {k} :
        /\ pc'[j] = pc[j] /\ request'[j] = request[j] /\ ret'[j] = ret[j]
        /\ acted'[j] = acted[j] /\ body'[j] = body[j]

\* It keeps what concerns itself.
KeepsItself(k) == RequestsTypeOK' /\ OthersStay(k) /\ ActedInv(k)' /\ BodyInv(k)'

\* The end of a renewal.
LEMMA RestoredKeeps ==
    ASSUME RequestsTypeOK, NEW k \in Kiis, NEW ok \in BOOLEAN, Restored(k, ok),
           kii'[k].access \in Nat, pc[k] \in Renewing \cup {"renew"}, ActedInv(k), BodyInv(k),
           lock' \in Kiis \cup {NoOne}
    PROVE  /\ RequestsTypeOK'
           /\ OthersStay(k)
           /\ ActedInv(k)' /\ BodyInv(k)'
           /\ pc'[k] \in {"send", "resend", "done"}
  <1>1. PICK replaced \in BOOLEAN :
      LET r == request[k] 
          again == r.force /\ ok /\ replaced /\ r.keep /\ r.body_kept IN
      /\ request' = [request EXCEPT ![k].token = IF replaced THEN kii'[k].access ELSE @]
      /\ body' = [body EXCEPT ![k] = IF r.keep \/ r.streamed THEN @ ELSE "lost"]
      /\ pc' = [pc EXCEPT ![k] = CASE ~r.force -> "send"
                                   [] again -> "resend"
                                   [] OTHER -> "done"]
      /\ ret' = [ret EXCEPT ![k] = IF ~r.force \/ again THEN @
                                     ELSE IF ok /\ replaced THEN "renewed"
                                     ELSE "refused"]
      /\ UNCHANGED acted
    BY DEF Restored
  <1>2. /\ request'[k] \in Requests
        /\ request'[k].force = request[k].force
        /\ request'[k].streamed = request[k].streamed
        /\ request'[k].keep = request[k].keep
        /\ request'[k].body_kept = request[k].body_kept
    BY <1>1 DEF RequestsTypeOK, Requests
  <1>3. CASE ~request[k].force
    <2>1. pc'[k] = "send" /\ acted'[k] = acted[k]
      BY <1>1, <1>3 DEF RequestsTypeOK
    <2>2. ret'[k] = ret[k]
      BY <1>1, <1>3 DEF RequestsTypeOK
    <2>3. body'[k] = body[k]
      BY <1>1, <1>3 DEF RequestsTypeOK, BodyInv
    <2> QED
      BY <1>1, <1>2, <1>3, <2>1, <2>2, <2>3
         DEF RequestsTypeOK, OthersStay, ActedInv, BodyInv, Renewing, Places
  <1>4. CASE request[k].force /\ ok /\ replaced /\ request[k].keep /\ request[k].body_kept
    <2>1. pc'[k] = "resend" /\ acted'[k] = acted[k]
      BY <1>1, <1>4 DEF RequestsTypeOK
    <2>2. ret'[k] = ret[k]
      BY <1>1, <1>4 DEF RequestsTypeOK
    <2>3. body'[k] = body[k]
      BY <1>1, <1>4 DEF RequestsTypeOK
    <2> QED
      BY <1>1, <1>2, <1>4, <2>1, <2>2, <2>3
         DEF RequestsTypeOK, OthersStay, ActedInv, BodyInv, Renewing, Places
  <1>5. CASE request[k].force /\ ~(ok /\ replaced /\ request[k].keep /\ request[k].body_kept)
    <2>1. pc'[k] = "done" /\ ret'[k] \in {"renewed", "refused"} /\ acted'[k] = acted[k]
      BY <1>1, <1>5 DEF RequestsTypeOK
    <2>2. body'[k] \in {"whole", "lost"}
      BY <1>1 DEF RequestsTypeOK
    <2> QED
      BY <1>1, <1>2, <1>5, <2>1, <2>2
         DEF RequestsTypeOK, OthersStay, ActedInv, BodyInv, Renewing, Places
  <1> QED BY <1>3, <1>4, <1>5
\* A step of k's that keeps what concerns k, and takes or releases the lock if it goes to
\* or from where it is held.
LEMMA OneMoves ==
    ASSUME RequestInv, NEW k \in Kiis, RequestsTypeOK', OthersStay(k), ActedInv(k)', BodyInv(k)',
           \/ lock' = lock /\ (HoldsLock(k)' <=> HoldsLock(k))
           \/ lock = NoOne /\ lock' = k /\ HoldsLock(k)'
           \/ lock = k /\ lock' = NoOne /\ ~HoldsLock(k)'
    PROVE  RequestInv'
  <1>1. \A j \in Kiis \ {k} : ActedInv(j)' /\ BodyInv(j)'
    BY DEF RequestInv, OthersStay, ActedInv, BodyInv
  <1>2. LockInv'
    BY NoOneAssumption DEF RequestInv, LockInv, OthersStay, HoldsLock
  <1> QED
    BY <1>1, <1>2 DEF RequestInv

\* The end of a renewal that had the lock.
LEMMA FinishKeeps ==
    ASSUME RequestInv, NEW k \in Kiis, NEW ok \in BOOLEAN, Finish(k, ok), author' \in Authors,
           kii \in [Kiis -> Authors],
           HoldsLock(k) \/ (pc[k] = "renew" /\ lock = NoOne)
    PROVE  RequestInv' /\ OthersStay(k) /\ pc'[k] \in {"idle", "send", "resend", "done"}
  <1>1. lock' = NoOne /\ kii'[k].access \in Nat
    BY DEF Finish, Sync, Authors
  <1>2. lock = k \/ (lock = NoOne /\ ~HoldsLock(k))
    BY DEF RequestInv, LockInv, HoldsLock, Renewing
  <1>3. CASE pc[k] = "onboarding_again"
    <2>1. pc' = [pc EXCEPT ![k] = "idle"] /\ UNCHANGED requestVars
      BY <1>3 DEF Finish
    <2>2. RequestsTypeOK' /\ OthersStay(k) /\ pc'[k] = "idle"
      BY <1>1, <2>1 DEF RequestInv, RequestsTypeOK, OthersStay, Places
    <2>3. ActedInv(k)' /\ BodyInv(k)' /\ ~HoldsLock(k)'
      BY <1>3, <2>1, <2>2 DEF RequestInv, ActedInv, BodyInv, Renewing, HoldsLock
    <2> QED
      BY <1>1, <1>2, <2>2, <2>3, OneMoves
  <1>4. CASE pc[k] # "onboarding_again"
    <2>1. Restored(k, ok) /\ pc[k] \in Renewing \cup {"renew"}
      BY <1>4 DEF Finish, HoldsLock
    <2>2. /\ RequestsTypeOK' /\ OthersStay(k) /\ ActedInv(k)' /\ BodyInv(k)'
          /\ pc'[k] \in {"send", "resend", "done"}
      BY <1>1, <2>1, RestoredKeeps DEF RequestInv
    <2>3. ~HoldsLock(k)'
      BY <2>2 DEF HoldsLock, Renewing
    <2> QED
      BY <1>1, <1>2, <2>2, <2>3, OneMoves
  <1> QED BY <1>3, <1>4

\* What a field set to a Boolean leaves of a request.
LEMMA KeepSet ==
    ASSUME NEW f \in [Kiis -> Requests], NEW k \in Kiis, NEW b \in BOOLEAN
    PROVE  LET g == [f EXCEPT ![k].keep = b] IN
           /\ g[k] \in Requests /\ g[k].keep = b /\ g[k].streamed = f[k].streamed
           /\ g[k].force = f[k].force /\ g[k].body_kept = f[k].body_kept
           /\ g[k].token = f[k].token
           /\ g \in [Kiis -> Requests]
  BY DEF Requests

\* A request whose renewal a refusal forces.
Forced(r, b) == [r EXCEPT !.force = TRUE, !.body_kept = b]

\* What that leaves of it.
LEMMA ForceSet ==
    ASSUME NEW r \in Requests, NEW b \in BOOLEAN
    PROVE  /\ Forced(r, b) \in Requests
           /\ Forced(r, b).force = TRUE
           /\ Forced(r, b).streamed = r.streamed
           /\ Forced(r, b).body_kept = b /\ Forced(r, b).token = r.token
  BY DEF Requests, Forced

\* The steps keep what is so of requests.
LEMMA RequestsKept == ASSUME TokensTypeOK, RequestInv, [Next]_vars PROVE RequestInv'
  <1> USE DEF RequestInv, KeepsItself, RequestsTypeOK, OthersStay, HoldsLock, ActedInv, BodyInv,
              Renewing, Places
  <1>1. ASSUME NEW k \in Kiis, Check(k) PROVE RequestInv'
    <2>1. KeepsItself(k) /\ lock' = lock /\ ~HoldsLock(k) /\ ~HoldsLock(k)'
      BY <1>1 DEF Check
    <2>2. QED
      BY <2>1, OneMoves DEF KeepsItself
  <1>2. ASSUME NEW k \in Kiis, OnboardAgain(k) PROVE RequestInv'
    <2>1. KeepsItself(k) /\ lock' = lock /\ ~HoldsLock(k) /\ ~HoldsLock(k)'
      BY <1>2 DEF OnboardAgain
    <2>2. QED
      BY <2>1, OneMoves DEF KeepsItself
  <1>3. ASSUME NEW k \in Kiis, Fails(k) PROVE RequestInv'
    <2>1. KeepsItself(k) /\ lock' = lock /\ ~HoldsLock(k) /\ ~HoldsLock(k)'
      BY <1>3 DEF Fails, Sending, Ends
    <2>2. QED
      BY <2>1, OneMoves DEF KeepsItself
  <1>4. ASSUME NEW k \in Kiis, Served(k) PROVE RequestInv'
    <2>1. KeepsItself(k) /\ lock' = lock /\ ~HoldsLock(k) /\ ~HoldsLock(k)'
      BY <1>4 DEF Served, Sending, Ends
    <2>2. QED
      BY <2>1, OneMoves DEF KeepsItself
  <1>5. ASSUME NEW k \in Kiis, Return(k) PROVE RequestInv'
    <2>1. KeepsItself(k) /\ lock' = lock /\ ~HoldsLock(k) /\ ~HoldsLock(k)'
      BY <1>5 DEF Return, NoRequest, Requests
    <2>2. QED
      BY <2>1, OneMoves DEF KeepsItself
  <1>6. ASSUME NEW k \in Kiis, LoginAnswered(k) PROVE RequestInv'
    <2>1. PICK to \in {"publish_auth", "publish_onboard", "idle"} : pc' = [pc EXCEPT ![k] = to]
      BY <1>6 DEF LoginAnswered
    <2>2. pc[k] \in {"auth", "onboard"} /\ UNCHANGED <<lock, requestVars>>
      BY <1>6 DEF LoginAnswered
    <2>3. KeepsItself(k) /\ lock' = lock /\ ~HoldsLock(k) /\ ~HoldsLock(k)'
      BY <2>1, <2>2
    <2>4. QED
      BY <2>3, OneMoves DEF KeepsItself
  <1>7. ASSUME NEW k \in Kiis, LoginFails(k) PROVE RequestInv'
    <2>1. KeepsItself(k) /\ lock' = lock /\ ~HoldsLock(k) /\ ~HoldsLock(k)'
      BY <1>7 DEF LoginFails
    <2>2. QED
      BY <2>1, OneMoves DEF KeepsItself
  <1>8. ASSUME NEW k \in Kiis, Publish(k) PROVE RequestInv'
    <2>1. KeepsItself(k) /\ lock' = lock /\ ~HoldsLock(k) /\ ~HoldsLock(k)'
      BY <1>8 DEF Publish
    <2>2. QED
      BY <2>1, OneMoves DEF KeepsItself
  <1>9. ASSUME NEW k \in Kiis, Size(k) PROVE RequestInv'
    <2> DEFINE fits == renew_mode \in request[k].room
               keep == fits /\ ~request[k].streamed
    <2>1. /\ pc[k] = "size"
          /\ pc' = [pc EXCEPT ![k] = IF fits \/ request[k].force THEN "renew" ELSE "send"]
          /\ request' = [request EXCEPT ![k].keep = keep]
          /\ UNCHANGED <<lock, ret, acted, body>>
      BY <1>9 DEF Size
    <2>2. keep \in BOOLEAN /\ request \in [Kiis -> Requests]
      OBVIOUS
    <2>x. ~request[k].force /\ fits => keep \/ request[k].streamed
      OBVIOUS
    <2> HIDE DEF fits, keep
    <2>3. /\ request'[k] \in Requests
          /\ request'[k].keep = keep
          /\ request'[k].streamed = request[k].streamed
          /\ request'[k].force = request[k].force
          /\ request'[k].body_kept = request[k].body_kept
      BY <2>1, <2>2, KeepSet
    <2>4. ~request[k].force /\ fits => request'[k].keep \/ request'[k].streamed
      BY <2>3, <2>x
    <2>5. RequestsTypeOK' /\ OthersStay(k) /\ ActedInv(k)'
      BY <2>1, <2>3
    <2>6. pc'[k] = IF fits \/ request[k].force THEN "renew" ELSE "send"
      BY <2>1
    <2>7. BodyInv(k)'
      BY <2>1, <2>3, <2>4, <2>6
    <2>8. lock' = lock /\ ~HoldsLock(k) /\ ~HoldsLock(k)'
      BY <2>1, <2>6
    <2>9. QED
      BY <2>5, <2>7, <2>8, OneMoves
  <1>10. ASSUME NEW k \in Kiis, Start(k) PROVE RequestInv'
    <2>1. PICK b \in Bodies :
            request' = [request EXCEPT ![k] =
              [NoRequest EXCEPT !.token = author.access, !.streamed = b.streamed, !.room = b.room]]
      BY <1>10 DEF Start
    <2>2. /\ pc[k] = "idle" /\ UNCHANGED <<lock, ret, acted, body>>
          /\ pc' = [pc EXCEPT ![k] = IF author.access = 0 THEN "plain" ELSE "check"]
      BY <1>10 DEF Start
    <2>3. b.streamed \in BOOLEAN /\ b.room \in SUBSET Modes /\ author.access \in Nat
      BY <2>1, BoundsAssumption DEF Modes, TokensTypeOK, Authors
    <2>4. request'[k] \in Requests /\ ~request'[k].force
      BY <2>1, <2>3 DEF NoRequest, Requests
    <2>5. KeepsItself(k) /\ lock' = lock /\ ~HoldsLock(k) /\ ~HoldsLock(k)'
      BY <2>1, <2>2, <2>4
    <2>6. QED
      BY <2>5, OneMoves DEF KeepsItself
  <1>11. ASSUME NEW k \in Kiis, Refused(k) PROVE RequestInv'
    <2>1. pc[k] \in {"send", "resend"} /\ UNCHANGED <<lock, acted>>
      BY <1>11 DEF Refused
    <2>2. CASE pc[k] = "resend"
      <3>1. /\ pc' = [pc EXCEPT ![k] = "done"] /\ ret' = [ret EXCEPT ![k] = "refused"]
            /\ UNCHANGED <<request, body>>
        BY <1>11, <2>2 DEF Refused, Ends
      <3>2. KeepsItself(k) /\ lock' = lock /\ ~HoldsLock(k) /\ ~HoldsLock(k)'
        BY <2>1, <2>2, <3>1
      <3>3. QED
        BY <3>2, OneMoves DEF KeepsItself
    <2>3. CASE pc[k] = "send"
      <3>0. PICK fits \in BOOLEAN :
              LET kept == fits /\ ~request[k].streamed IN
              /\ request' = [request EXCEPT ![k] = [@ EXCEPT !.force = TRUE, !.body_kept = kept]]
              /\ body' = [body EXCEPT ![k] = IF kept THEN @ ELSE "lost"]
              /\ pc' = [pc EXCEPT ![k] = "size"]
              /\ UNCHANGED ret
        BY <1>11, <2>3 DEF Refused
      <3> DEFINE kept == fits /\ ~request[k].streamed
      <3>1. /\ kept \in BOOLEAN /\ request \in [Kiis -> Requests]
            /\ kept => ~request[k].streamed
            /\ request' = [request EXCEPT ![k] = [@ EXCEPT !.force = TRUE, !.body_kept = kept]]
            /\ body' = [body EXCEPT ![k] = IF kept THEN @ ELSE "lost"]
            /\ pc' = [pc EXCEPT ![k] = "size"]
            /\ UNCHANGED ret
        BY <3>0
      <3> HIDE DEF kept
      <3>2. /\ request'[k] \in Requests
            /\ request'[k].force
            /\ request'[k].streamed = request[k].streamed
            /\ request'[k].body_kept = kept
        <4>1. request'[k] = Forced(request[k], kept)
          BY <3>1 DEF Forced
        <4>2. request[k] \in Requests
          BY <3>1
        <4>3. kept \in BOOLEAN
          BY <3>1
        <4>4. /\ Forced(request[k], kept) \in Requests
              /\ Forced(request[k], kept).force = TRUE
              /\ Forced(request[k], kept).streamed = request[k].streamed
              /\ Forced(request[k], kept).body_kept = kept
          BY <4>2, <4>3, ForceSet, ZenonT(30)
        <4>5. QED
          BY <4>1, <4>4
      <3>3. RequestsTypeOK' /\ OthersStay(k) /\ ActedInv(k)'
        BY <2>1, <2>3, <3>1, <3>2
      <3>4. BodyInv(k)'
        BY <2>1, <2>3, <3>1, <3>2
      <3>5. lock' = lock /\ ~HoldsLock(k) /\ ~HoldsLock(k)'
        BY <2>1, <2>3, <3>1
      <3>6. QED
        BY <3>3, <3>4, <3>5, OneMoves
    <2>4. QED
      BY <2>1, <2>2, <2>3
  <1>12. ASSUME NEW k \in Kiis, NEW how \in {"auth_thing", "onboard"}, Login(k, how)
         PROVE  RequestInv'
    <2>1. KeepsItself(k) /\ lock' = lock /\ ~HoldsLock(k) /\ ~HoldsLock(k)'
      BY <1>12 DEF Login
    <2>2. QED
      BY <2>1, OneMoves DEF KeepsItself
  <1>13. ASSUME NEW k \in Kiis, Again(k) PROVE RequestInv'
    <2>1. /\ pc[k] = "again" /\ lock = NoOne /\ UNCHANGED requestVars
          /\ \/ lock' = k /\ pc' = [pc EXCEPT ![k] = "onboarding_again"]
             \/ lock' = lock /\ pc' = [pc EXCEPT ![k] = "idle"]
      BY <1>13 DEF Again, Free
    <2>2. /\ KeepsItself(k)
          /\ \/ lock' = k /\ HoldsLock(k)'
             \/ lock' = lock /\ ~HoldsLock(k)'
      <3>1. CASE lock' = k /\ pc' = [pc EXCEPT ![k] = "onboarding_again"]
        BY <2>1, <3>1
      <3>2. CASE lock' = lock /\ pc' = [pc EXCEPT ![k] = "idle"]
        BY <2>1, <3>2
      <3>3. QED
        BY <2>1, <3>1, <3>2
    <2>3. ~HoldsLock(k)
      BY <2>1
    <2>4. QED
      BY <2>1, <2>2, <2>3, OneMoves DEF KeepsItself
  <1>14. ASSUME NEW k \in Kiis, Renew(k) PROVE RequestInv'
    <2>1. pc[k] = "renew" /\ lock = NoOne /\ UNCHANGED author
      BY <1>14 DEF Renew, Free
    <2>2. CASE lock' = lock /\ Sync(k) /\ Restored(k, TRUE)
      <3>1. kii'[k].access \in Nat
        BY <2>1, <2>2 DEF Sync, TokensTypeOK, Authors
      <3>2. KeepsItself(k) /\ pc'[k] \in {"send", "resend", "done"}
        BY <2>1, <2>2, <3>1, RestoredKeeps
      <3>3. ~HoldsLock(k) /\ ~HoldsLock(k)'
        BY <2>1, <3>2
      <3>4. QED
        BY <2>2, <3>2, <3>3, OneMoves DEF KeepsItself
    <2>3. CASE Finish(k, FALSE)
      BY <2>1, <2>3, FinishKeeps DEF TokensTypeOK
    <2>4. CASE /\ FirstStep # "none" /\ lock' = k /\ pc' = [pc EXCEPT ![k] = FirstStep]
               /\ UNCHANGED requestVars
      <3>1. FirstStep \in Renewing
        BY <2>4 DEF FirstStep
      <3>2. KeepsItself(k) /\ HoldsLock(k)'
        BY <2>1, <2>4, <3>1
      <3>3. QED
        BY <2>1, <2>4, <3>2, OneMoves DEF KeepsItself
    <2>5. QED
      BY <1>14, <2>2, <2>3, <2>4 DEF Renew
  <1>15. ASSUME NEW k \in Kiis, NEW ok \in BOOLEAN, HoldsLock(k), Finish(k, ok) PROVE RequestInv'
    <2>1. author' \in Authors /\ kii \in [Kiis -> Authors]
      BY TokensTyped DEF TokensTypeOK
    <2>2. QED
      BY <1>15, <2>1, FinishKeeps
  <1>16. ASSUME NEW k \in Kiis, RefreshRefused(k) PROVE RequestInv'
    <2>1. HoldsLock(k)
      BY <1>16 DEF RefreshRefused
    <2>2. CASE pc' = [pc EXCEPT ![k] = "logging_in"] /\ UNCHANGED <<lock, requestVars>>
      <3>1. KeepsItself(k) /\ HoldsLock(k)'
        BY <1>16, <2>2 DEF RefreshRefused
      <3>2. QED
        BY <2>1, <2>2, <3>1, OneMoves DEF KeepsItself
    <2>3. CASE Finish(k, FALSE)
      BY <1>15, <2>1, <2>3
    <2>4. QED
      BY <1>16, <2>2, <2>3 DEF RefreshRefused
  <1>17. ASSUME NEW k \in Kiis, PasswordTurnedDown(k) \/ Unanswered(k) PROVE RequestInv'
    <2>1. HoldsLock(k) /\ Finish(k, FALSE)
      BY <1>17 DEF PasswordTurnedDown, Unanswered, UsesPassword
    <2>2. QED
      BY <1>15, <2>1
  <1>18. ASSUME NEW k \in Kiis, NEW received \in BOOLEAN,
                RefreshAccepted(k, received) \/ PasswordTaken(k, received)
         PROVE  RequestInv'
    <2>1. HoldsLock(k) /\ Finish(k, received)
      BY <1>18 DEF RefreshAccepted, PasswordTaken, UsesPassword
    <2>2. QED
      BY <1>15, <2>1
  <1>19. CASE UNCHANGED <<lock, pc, requestVars>>
    BY <1>19 DEF LockInv
  <1>20. SetAuthor \/ SetPassword \/ (\E mode \in Modes : SetRenewMode(mode)) \/ Pass \/ Ages
         \/ Expires \/ PasswordPutRight \/ UNCHANGED vars => UNCHANGED <<lock, pc, requestVars>>
    BY DEF SetAuthor, SetPassword, SetRenewMode, Pass, Ages, Expires, PasswordPutRight
  <1> HIDE DEF RequestInv, KeepsItself, RequestsTypeOK, OthersStay, HoldsLock, ActedInv, BodyInv,
               Renewing, Places
  <1>21. ASSUME NEW k \in Kiis, Renewal(k) PROVE RequestInv'
    BY <1>1, <1>9, <1>14, <1>16, <1>17, <1>18, <1>21, Zenon DEF Renewal
  <1>22. ASSUME NEW k \in Kiis, Goes(k) PROVE RequestInv'
    BY <1>3, <1>4, <1>5, <1>6, <1>7, <1>8, <1>11, <1>13, <1>21, <1>22, Zenon DEF Goes
  <1>23. ASSUME NEW k \in Kiis, Begins(k) PROVE RequestInv'
    BY <1>2, <1>10, <1>12, <1>23, Zenon DEF Begins
  <1>24. QED
    BY <1>19, <1>20, <1>22, <1>23, Zenon DEF Next

\* What keeps requests: whoever renews holds the session's lock alone, a request is
\* decided once, and its body is only at risk where a refusal forces a renewal
\* (_kii_perform(), _renew_and_restore()).
THEOREM RequestInvariance == Spec => [](TokensTypeOK /\ RequestInv)
  <1>1. Init => TokensTypeOK /\ RequestInv
    BY NoOneAssumption DEF Init, TokensTypeOK, RequestInv, RequestsTypeOK, LockInv, HoldsLock,
       ActedInv, BodyInv, Authors, Requests, Places, Renewing, NoRequest
  <1>2. TokensTypeOK /\ RequestInv /\ [Next]_vars => (TokensTypeOK /\ RequestInv)'
    BY TokensTyped, RequestsKept
  <1>3. QED
    BY <1>1, <1>2, PTL DEF Spec

\* A request is acted on at most once, and its caller told of a 403 only if it
\* wasn't, whatever renewals it went through (_kii_perform(), _renew_and_restore()).
THEOREM ActedOnceCorrect == Spec => []ActedOnce
  <1>1. RequestInv => ActedOnce
    BY DEF RequestInv, ActedInv, ActedOnce
  <1>2. QED
    BY <1>1, RequestInvariance, PTL

\* What is sent again after a renewal is the request as it was built: neither the
\* refusal nor the renewal overwrote its body.
THEOREM ResentWholeCorrect == Spec => []ResentWhole
  <1>1. RequestInv => ResentWhole
    BY DEF RequestInv, BodyInv, ResentWhole
  <1>2. QED
    BY <1>1, RequestInvariance, PTL

-----------------------------------------------------------------------------
(* Tokens and generations.                                                 *)

\* No token is held, or taken by the server, that wasn't issued, and no kii_t is
\* ahead of the session.
Bounded ==
    /\ author.access <= issued
    /\ \A n \in valid : n <= issued
    /\ \A k \in Kiis : kii[k].access <= issued /\ kii_generation[k] <= generation

\* Of a kii_t of the session's generation: its request carries the session's token,
\* and a token it renews by force was refused.  A forced renewal is only made with
\* the session's generation.
TokenHeld(k) ==
    /\ pc[k] \in Renewing \cup {"check", "size", "renew", "send"}
         /\ kii_generation[k] = generation
         => request[k].token = author.access
    /\ pc[k] \in Renewing \cup {"size", "renew"} /\ request[k].force
         /\ kii_generation[k] = generation
         => author.access \notin valid
    /\ pc[k] \in Renewing /\ request[k].force => kii_generation[k] = generation

TokenInv == Bounded /\ \A k \in Kiis : TokenHeld(k)

\* What a step does to the server's tokens: those it adds are new.
ServerMoves ==
    /\ issued <= issued'
    /\ \A n \in valid' : n <= issued' /\ (n \in valid \/ n > issued)

\* What a step does to the session's author: it stays, or another generation of it
\* is stored by who has the lock.
SessionMoves(k) ==
    \/ author' = author /\ generation' = generation
    \/ /\ generation' = generation + 1
       /\ author'.access <= issued'
       /\ lock \in {k, NoOne}

OthersAside(k) ==
    \A j \in Kiis \ {k} :
        /\ pc'[j] = pc[j] /\ request'[j] = request[j]
        /\ kii'[j] = kii[j] /\ kii_generation'[j] = kii_generation[j]

\* A step of k's that holds the tokens as TokenHeld says.
LEMMA TokensMove ==
    ASSUME TokensTypeOK, TokensTypeOK', LockInv, TokenInv, NEW k \in Kiis,
           ServerMoves, SessionMoves(k), OthersAside(k),
           kii'[k].access <= issued', kii_generation'[k] <= generation', TokenHeld(k)'
    PROVE  TokenInv'
  <1>1. author'.access <= issued' /\ generation' >= generation
    BY DEF TokensTypeOK, Authors, ServerMoves, SessionMoves, TokenInv, Bounded
  <1>2. Bounded'
    BY <1>1 DEF TokensTypeOK, Authors, ServerMoves, OthersAside, TokenInv, Bounded
  <1>3. ASSUME NEW j \in Kiis \ {k} PROVE TokenHeld(j)'
    <2>1. /\ pc'[j] = pc[j] /\ request'[j] = request[j]
          /\ kii'[j] = kii[j] /\ kii_generation'[j] = kii_generation[j]
      BY DEF OthersAside
    <2>2. CASE author' = author /\ generation' = generation
      <3>1. author.access \notin valid => author.access \notin valid'
        BY DEF TokensTypeOK, Authors, ServerMoves, TokenInv, Bounded
      <3>2. QED
        BY <2>1, <2>2, <3>1 DEF TokenInv, TokenHeld
    <2>3. CASE generation' = generation + 1 /\ lock \in {k, NoOne}
      <3>1. kii_generation'[j] # generation'
        BY <2>1, <2>3 DEF TokensTypeOK, TokenInv, Bounded
      <3>2. pc'[j] \notin Renewing
        BY <2>1, <2>3, NoOneAssumption DEF LockInv, HoldsLock
      <3>3. QED
        BY <3>1, <3>2 DEF TokenHeld
    <2>4. QED
      BY <2>2, <2>3 DEF SessionMoves
  <1>4. QED
    BY <1>2, <1>3 DEF TokenInv

\* A kii_t that ends a renewal has the session's author, and its request the token.
LEMMA FinishHolds ==
    ASSUME HeaderMayFail = FALSE, TokensTypeOK, TokensTypeOK', RequestInv, RequestInv',
           NEW k \in Kiis, NEW ok \in BOOLEAN, author'.access <= issued',
           \/ Finish(k, ok) /\ (HoldsLock(k) \/ (pc[k] = "renew" /\ lock = NoOne))
           \/ Sync(k) /\ Restored(k, ok) /\ pc[k] = "renew"
    PROVE  /\ OthersAside(k) /\ kii'[k].access <= issued' /\ kii_generation'[k] <= generation'
           /\ TokenHeld(k)'
  <1>1. /\ kii'[k] = author' /\ kii_generation'[k] = generation'
        /\ \A j \in Kiis \ {k} : kii'[j] = kii[j] /\ kii_generation'[j] = kii_generation[j]
    BY DEF Finish, Sync, TokensTypeOK
  <1>2. CASE pc[k] = "onboarding_again"
    <2>1. pc' = [pc EXCEPT ![k] = "idle"] /\ UNCHANGED request
      BY <1>2 DEF Finish
    <2>2. pc'[k] = "idle" /\ OthersAside(k)
      BY <1>1, <2>1 DEF OthersAside, RequestInv, RequestsTypeOK
    <2>3. QED
      BY <1>1, <2>2 DEF TokenHeld, Renewing, TokensTypeOK
  <1>3. CASE pc[k] # "onboarding_again"
    <2>1. /\ Restored(k, ok) /\ pc[k] \in Renewing \cup {"renew"}
          /\ kii'[k].access \in Nat /\ lock' \in Kiis \cup {NoOne}
      BY <1>1, <1>3 DEF Finish, HoldsLock, TokensTypeOK, Authors, RequestInv, RequestsTypeOK
    <2>2. pc'[k] \in {"send", "resend", "done"} /\ OthersStay(k)
      BY <2>1, RestoredKeeps DEF RequestInv
    <2>3. request' = [request EXCEPT ![k].token = kii'[k].access]
      BY <2>1 DEF Restored
    <2>4. request'[k].token = author'.access
      BY <1>1, <2>3 DEF RequestInv, RequestsTypeOK, Requests
    <2>5. QED
      BY <1>1, <2>2, <2>4 DEF TokenHeld, OthersAside, OthersStay, Renewing, TokensTypeOK
  <1>4. QED
    BY <1>2, <1>3

\* The steps keep what is so of tokens, where no request header is lost.
LEMMA TokensKept ==
    ASSUME HeaderMayFail = FALSE, TokensTypeOK, RequestInv, TokenInv, [Next]_vars
    PROVE  TokenInv'
  <1>0. TokensTypeOK' /\ RequestInv' /\ LockInv /\ Bounded
    BY TokensTyped, RequestsKept DEF RequestInv, TokenInv
  <1> USE <1>0
  <1> DEFINE Moves(k) ==
               /\ ServerMoves /\ SessionMoves(k) /\ OthersAside(k)
               /\ kii'[k].access <= issued' /\ kii_generation'[k] <= generation'
               /\ TokenHeld(k)'
  <1>a. ASSUME NEW k \in Kiis, Moves(k) PROVE TokenInv'
    BY <1>a, TokensMove
  <1> HIDE DEF Moves
  <1>b. ASSUME UNCHANGED serverVars PROVE ServerMoves
    BY <1>b DEF ServerMoves, Bounded, TokensTypeOK
  <1>c. ASSUME NEW k \in Kiis, UNCHANGED <<authorVars, copyVars, serverVars>>,
               \A j \in Kiis \ {k} : pc'[j] = pc[j] /\ request'[j] = request[j],
               TokenHeld(k)'
        PROVE  TokenInv'
    <2>1. ServerMoves /\ SessionMoves(k) /\ OthersAside(k)
      BY <1>b, <1>c DEF SessionMoves, OthersAside
    <2>2. kii'[k].access <= issued' /\ kii_generation'[k] <= generation'
      BY <1>c DEF Bounded
    <2>3. QED
      BY <1>a, <1>c, <2>1, <2>2 DEF Moves
  <1>d. ASSUME NEW k \in Kiis, NEW ok \in BOOLEAN, ServerMoves, SessionMoves(k),
               \/ Finish(k, ok) /\ (HoldsLock(k) \/ (pc[k] = "renew" /\ lock = NoOne))
               \/ Sync(k) /\ Restored(k, ok) /\ pc[k] = "renew"
        PROVE  TokenInv'
    <2>1. author'.access <= issued'
      BY <1>d DEF TokensTypeOK, Authors, ServerMoves, SessionMoves, Bounded
    <2>2. Moves(k)
      BY <1>d, <2>1, FinishHolds DEF Moves
    <2>3. QED
      BY <1>a, <2>2
  <1>e. ASSUME NEW k \in Kiis, NEW ok \in BOOLEAN, ServerMoves, SessionMoves(k), HoldsLock(k),
               Finish(k, ok)
        PROVE  TokenInv'
    <2>1. author'.access <= issued'
      BY <1>e DEF TokensTypeOK, Authors, ServerMoves, SessionMoves, Bounded
    <2>. \/ Finish(k, ok) /\ (HoldsLock(k) \/ (pc[k] = "renew" /\ lock = NoOne))
         \/ Sync(k) /\ Restored(k, ok) /\ pc[k] = "renew"
      BY <1>e, Zenon
    <2>2. Moves(k)
      BY <1>e, <2>1, FinishHolds DEF Moves
    <2>3. QED
      BY <1>a, <2>2
  <1> USE DEF RequestInv, RequestsTypeOK
  <1>1. ASSUME NEW k \in Kiis, Check(k) PROVE TokenInv'
    <2>1. /\ pc[k] = "check" /\ pc'[k] \in {"size", "send"} /\ UNCHANGED request
          /\ UNCHANGED <<authorVars, copyVars, serverVars>>
          /\ \A j \in Kiis \ {k} : pc'[j] = pc[j]
      BY <1>1 DEF Check
    <2>2. ~request[k].force
      BY <2>1 DEF BodyInv, Renewing
    <2>3. TokenHeld(k)'
      BY <2>1, <2>2 DEF TokenInv, TokenHeld, Renewing
    <2>4. QED
      BY <1>c, <2>1, <2>3
  <1>2. ASSUME NEW k \in Kiis, OnboardAgain(k) \/ LoginFails(k) \/ Fails(k) \/ Served(k)
                 \/ \E how \in {"auth_thing", "onboard"} : Login(k, how)
        PROVE  TokenInv'
    <2>1. /\ pc'[k] \in {"again", "idle", "done", "auth", "onboard"} /\ UNCHANGED request
          /\ UNCHANGED <<authorVars, copyVars, serverVars>>
          /\ \A j \in Kiis \ {k} : pc'[j] = pc[j]
      BY <1>2 DEF OnboardAgain, LoginFails, Fails, Served, Login, Ends
    <2>2. TokenHeld(k)'
      BY <2>1 DEF TokenHeld, Renewing
    <2>3. QED
      BY <1>c, <2>1, <2>2
  <1>3. ASSUME NEW k \in Kiis, Return(k) PROVE TokenInv'
    <2>1. /\ pc'[k] = "idle"
          /\ UNCHANGED <<authorVars, copyVars, serverVars>>
          /\ \A j \in Kiis \ {k} : pc'[j] = pc[j] /\ request'[j] = request[j]
      BY <1>3 DEF Return
    <2>2. TokenHeld(k)'
      BY <2>1 DEF TokenHeld, Renewing
    <2>3. QED
      BY <1>c, <2>1, <2>2
  <1>4. ASSUME NEW k \in Kiis, Size(k) PROVE TokenInv'
    <2> DEFINE keep == renew_mode \in request[k].room /\ ~request[k].streamed
    <2>1. /\ pc[k] = "size" /\ pc'[k] \in {"renew", "send"}
          /\ pc'[k] = "send" => ~request[k].force
          /\ UNCHANGED <<authorVars, copyVars, serverVars>>
          /\ \A j \in Kiis \ {k} : pc'[j] = pc[j] /\ request'[j] = request[j]
          /\ request' = [request EXCEPT ![k].keep = keep]
          /\ keep \in BOOLEAN
      BY <1>4 DEF Size
    <2> HIDE DEF keep
    <2>2. request'[k].token = request[k].token /\ request'[k].force = request[k].force
      BY <2>1, KeepSet
    <2>3. TokenHeld(k)'
      BY <2>1, <2>2 DEF TokenInv, TokenHeld, Renewing
    <2>4. QED
      BY <1>c, <2>1, <2>3
  <1>5. ASSUME NEW k \in Kiis, Refused(k) PROVE TokenInv'
    <2>1. /\ UNCHANGED <<authorVars, copyVars, serverVars>>
          /\ \A j \in Kiis \ {k} : pc'[j] = pc[j] /\ request'[j] = request[j]
          /\ pc[k] \in {"send", "resend"} /\ request[k].token \notin valid
      BY <1>5, ZenonT(30) DEF Refused, Ends
    <2>2. CASE pc[k] = "resend"
      <3>1. pc'[k] = "done"
        BY <1>5, <2>2 DEF Refused, Ends
      <3>2. TokenHeld(k)'
        BY <3>1 DEF TokenHeld, Renewing
      <3>3. QED
        BY <1>c, <2>1, <3>2
    <2>3. CASE pc[k] = "send"
      <3>1. pc'[k] = "size" /\ request'[k].token = request[k].token
        <4>1. PICK fits \in BOOLEAN :
                request' = [request EXCEPT ![k] =
                  [@ EXCEPT !.force = TRUE, !.body_kept = fits /\ ~request[k].streamed]]
          BY <1>5, <2>3 DEF Refused
        <4>2. pc'[k] = "size"
          BY <1>5, <2>3 DEF Refused
        <4> DEFINE kept == fits /\ ~request[k].streamed
        <4>3. kept \in BOOLEAN /\ request[k] \in Requests
          OBVIOUS
        <4>4. request'[k] = Forced(request[k], kept)
          BY <4>1 DEF Forced
        <4> HIDE DEF kept
        <4>5. Forced(request[k], kept).token = request[k].token
          BY <4>3, ForceSet, Zenon
        <4>6. QED
          BY <4>2, <4>4, <4>5
      <3>2. kii_generation[k] = generation => author.access \notin valid
        BY <2>1, <2>3 DEF TokenInv, TokenHeld
      <3>3. TokenHeld(k)'
        BY <2>1, <2>3, <3>1, <3>2 DEF TokenInv, TokenHeld, Renewing
      <3>4. QED
        BY <1>c, <2>1, <3>3
    <2>4. QED
      BY <2>1, <2>2, <2>3
  <1>6. ASSUME NEW k \in Kiis, Start(k) PROVE TokenInv'
    <2>1. /\ pc'[k] \in {"plain", "check"} /\ UNCHANGED <<authorVars, serverVars>>
          /\ kii'[k] = author /\ kii_generation'[k] = generation
          /\ OthersAside(k)
      BY <1>6 DEF Start, Sync, OthersAside, TokensTypeOK
    <2>2. PICK b \in Bodies :
            request' = [request EXCEPT ![k] =
              [NoRequest EXCEPT !.token = author.access, !.streamed = b.streamed, !.room = b.room]]
      BY <1>6 DEF Start
    <2>3. request'[k].token = author.access
      BY <2>2 DEF NoRequest
    <2>4. TokenHeld(k)'
      BY <2>1, <2>3 DEF TokenHeld, Renewing
    <2>5. Moves(k)
      BY <1>b, <2>1, <2>4 DEF Moves, SessionMoves, TokensTypeOK, Bounded
    <2>6. QED
      BY <1>a, <2>5
  <1>7. ASSUME NEW k \in Kiis, LoginAnswered(k) PROVE TokenInv'
    <2>1. PICK hasRefresh \in BOOLEAN, h \in BOOLEAN :
            Issues(hasRefresh, {}) /\ kii' = [kii EXCEPT ![k] = NewAuthor(h)]
      BY <1>7 DEF LoginAnswered
    <2>2. /\ UNCHANGED <<author, generation, kii_generation, request>>
          /\ pc'[k] \in {"publish_auth", "publish_onboard", "idle"}
          /\ \A j \in Kiis \ {k} : pc'[j] = pc[j]
      BY <1>7 DEF LoginAnswered
    <2>3. ServerMoves
      BY <2>1, IssuesOne DEF ServerMoves, TokensTypeOK, Bounded
    <2>4. kii'[k].access = issued' /\ issued' \in Nat /\ \A j \in Kiis \ {k} : kii'[j] = kii[j]
      BY <2>1 DEF TokensTypeOK, NewAuthor
    <2>5. TokenHeld(k)'
      BY <2>2 DEF TokenHeld, Renewing
    <2>6. Moves(k)
      BY <2>2, <2>3, <2>4, <2>5 DEF Moves, SessionMoves, OthersAside, TokensTypeOK, Bounded
    <2>7. QED
      BY <1>a, <2>6
  <1>8. ASSUME NEW k \in Kiis, Publish(k) PROVE TokenInv'
    <2>1. /\ author' = kii[k] /\ generation' = generation + 1 /\ lock = NoOne
          /\ UNCHANGED <<serverVars, request>>
          /\ pc'[k] = "idle" /\ \A j \in Kiis \ {k} : pc'[j] = pc[j]
          /\ kii'[k] = author' /\ kii_generation'[k] = generation'
          /\ \A j \in Kiis \ {k} : kii'[j] = kii[j] /\ kii_generation'[j] = kii_generation[j]
      BY <1>8 DEF Publish, Store, Free, Sync, TokensTypeOK
    <2>2. TokenHeld(k)'
      BY <2>1 DEF TokenHeld, Renewing
    <2>3. Moves(k)
      BY <1>b, <2>1, <2>2 DEF Moves, SessionMoves, OthersAside, TokensTypeOK, Bounded
    <2>4. QED
      BY <1>a, <2>3
  <1>9. ASSUME NEW k \in Kiis, Again(k) PROVE TokenInv'
    <2>1. /\ UNCHANGED <<authorVars, serverVars, request>>
          /\ pc'[k] \in {"idle", "onboarding_again"} /\ \A j \in Kiis \ {k} : pc'[j] = pc[j]
          /\ kii'[k] \in {kii[k], author} /\ kii_generation'[k] \in {kii_generation[k], generation}
          /\ \A j \in Kiis \ {k} : kii'[j] = kii[j] /\ kii_generation'[j] = kii_generation[j]
      <3>1. CASE password_usable
        BY <1>9, <3>1 DEF Again, TokensTypeOK
      <3>2. CASE ~password_usable
        BY <1>9, <3>2 DEF Again, Sync, TokensTypeOK
      <3>3. QED
        BY <3>1, <3>2
    <2>2. TokenHeld(k)'
      BY <2>1 DEF TokenHeld, Renewing
    <2>3. Moves(k)
      BY <1>b, <2>1, <2>2 DEF Moves, SessionMoves, OthersAside, TokensTypeOK, Bounded
    <2>4. QED
      BY <1>a, <2>3
  <1>10. ASSUME NEW k \in Kiis, Renew(k) PROVE TokenInv'
    <2>1. /\ pc[k] = "renew" /\ lock = NoOne
          /\ UNCHANGED <<authorVars, serverVars>>
          /\ ServerMoves /\ SessionMoves(k)
      BY <1>10, <1>b DEF Renew, Free, SessionMoves
    <2>2. CASE kii_generation[k] # generation \/ (~request[k].force /\ ~due_locked)
      BY <1>10, <1>d, <2>1, <2>2 DEF Renew
    <2>3. CASE /\ ~(kii_generation[k] # generation \/ (~request[k].force /\ ~due_locked))
               /\ FirstStep = "none"
      <3>1. Finish(k, FALSE)
        BY <1>10, <2>3 DEF Renew
      <3>2. QED
        BY <1>d, <2>1, <3>1
    <2>4. CASE /\ ~(kii_generation[k] # generation \/ (~request[k].force /\ ~due_locked))
               /\ FirstStep # "none"
      <3>1. pc' = [pc EXCEPT ![k] = FirstStep] /\ UNCHANGED <<copyVars, requestVars>>
        BY <1>10, <2>4 DEF Renew
      <3>2. TokenHeld(k)'
        BY <2>1, <2>4, <3>1 DEF TokenInv, TokenHeld, Renewing
      <3>3. QED
        BY <1>c, <2>1, <3>1, <3>2
    <2>5. QED
      BY <2>2, <2>3, <2>4
  <1>11. ASSUME NEW k \in Kiis, RefreshRefused(k) PROVE TokenInv'
    <2>1. /\ UNCHANGED <<authorVars, serverVars>> /\ pc[k] = "refreshing" /\ HoldsLock(k)
          /\ ServerMoves /\ SessionMoves(k)
      BY <1>11, <1>b DEF RefreshRefused, SessionMoves, HoldsLock, Renewing
    <2>2. CASE pc' = [pc EXCEPT ![k] = "logging_in"] /\ UNCHANGED <<lock, copyVars, requestVars>>
      <3>1. TokenHeld(k)'
        BY <2>1, <2>2 DEF TokenInv, TokenHeld, Renewing
      <3>2. QED
        BY <1>c, <2>1, <2>2, <3>1
    <2>3. CASE Finish(k, FALSE)
      BY <1>e, <2>1, <2>3
    <2>4. QED
      BY <1>11, <2>2, <2>3 DEF RefreshRefused
  <1>12. ASSUME NEW k \in Kiis, PasswordTurnedDown(k) \/ Unanswered(k) PROVE TokenInv'
    <2>1. /\ UNCHANGED <<authorVars, serverVars>> /\ HoldsLock(k) /\ Finish(k, FALSE)
          /\ ServerMoves /\ SessionMoves(k)
      BY <1>12, <1>b
         DEF PasswordTurnedDown, Unanswered, UsesPassword, SessionMoves, HoldsLock, Renewing
    <2>2. QED
      BY <1>e, <2>1
  <1>13. ASSUME NEW k \in Kiis, NEW received \in BOOLEAN, RefreshAccepted(k, received)
         PROVE  TokenInv'
    <2>1. PICK rotates \in BOOLEAN :
            /\ Issues(rotates, IF rotates THEN {author.refresh, author.access} ELSE {})
            /\ IF received
               THEN Store([access |-> issued',
                           refresh |-> IF rotates THEN issued' ELSE author.refresh], TRUE)
               ELSE UNCHANGED authorVars
      BY <1>13 DEF RefreshAccepted
    <2>2. HoldsLock(k) /\ lock = k /\ Finish(k, received)
      BY <1>13 DEF RefreshAccepted, HoldsLock, Renewing, LockInv
    <2>3. ServerMoves /\ issued' \in Nat
      BY <2>1, IssuesOne DEF ServerMoves, TokensTypeOK, Bounded
    <2>4. SessionMoves(k)
      BY <2>1, <2>2, <2>3 DEF SessionMoves, Store
    <2>5. QED
      BY <1>e, <2>2, <2>3, <2>4
  <1>14. ASSUME NEW k \in Kiis, NEW received \in BOOLEAN, PasswordTaken(k, received)
         PROVE  TokenInv'
    <2>1. PICK hasRefresh \in BOOLEAN :
            /\ Issues(hasRefresh, {})
            /\ IF received
               THEN Store(NewAuthor(hasRefresh), pc[k] = "logging_in") /\ PasswordAccepted
               ELSE UNCHANGED <<authorVars, passwordVars>>
      BY <1>14 DEF PasswordTaken
    <2>2. HoldsLock(k) /\ lock = k /\ Finish(k, received)
      BY <1>14 DEF PasswordTaken, UsesPassword, HoldsLock, Renewing, LockInv
    <2>3. ServerMoves /\ issued' \in Nat
      BY <2>1, IssuesOne DEF ServerMoves, TokensTypeOK, Bounded
    <2>4. NewAuthor(hasRefresh).access = issued'
      BY DEF NewAuthor
    <2>5. SessionMoves(k)
      <3>1. CASE received
        BY <2>1, <2>2, <2>3, <2>4, <3>1 DEF SessionMoves, Store
      <3>2. CASE ~received
        BY <2>1, <3>2 DEF SessionMoves
      <3>3. QED
        BY <3>1, <3>2
    <2>6. QED
      BY <1>e, <2>2, <2>3, <2>5
  <1>15. CASE SetAuthor
    <2>1. /\ generation' = generation + 1 /\ author'.access <= issued /\ lock = NoOne
          /\ UNCHANGED <<copyVars, pc, request, serverVars>>
      BY <1>15 DEF SetAuthor, Free
    <2>2. \A k \in Kiis : kii_generation'[k] # generation' /\ pc'[k] \notin Renewing
      BY <2>1, NoOneAssumption DEF TokensTypeOK, Bounded, LockInv, HoldsLock
    <2>3. \A k \in Kiis : TokenHeld(k)'
      BY <2>2 DEF TokenHeld
    <2>4. Bounded'
      BY <2>1 DEF TokensTypeOK, Bounded
    <2>5. QED
      BY <2>3, <2>4 DEF TokenInv
  <1>16. ASSUME UNCHANGED <<author, generation, issued, copyVars, pc, request>>,
                valid' \subseteq valid
         PROVE  TokenInv'
    BY <1>16 DEF TokenInv, TokenHeld, Bounded
  <1>17. CASE SetPassword \/ (\E mode \in Modes : SetRenewMode(mode)) \/ Pass \/ Ages \/ Expires
              \/ PasswordPutRight \/ UNCHANGED vars
    <2>1. UNCHANGED <<author, generation, issued, copyVars, pc, request>> /\ valid' \subseteq valid
      BY <1>17 DEF SetPassword, SetRenewMode, Pass, Ages, Expires, PasswordPutRight
    <2>2. QED
      BY <1>16, <2>1
  <1>18. QED
    BY <1>1, <1>2, <1>3, <1>4, <1>5, <1>6, <1>7, <1>8, <1>9, <1>10, <1>11, <1>12, <1>13, <1>14,
       <1>15, <1>17 DEF Next, Begins, Goes, Renewal

\* Where the headers of a request can always be allocated, a renewal that is forced
\* replaces a token the server no longer takes: one kii_t whose token was refused
\* doesn't make away with the token another kii_t has got since.
THEOREM LiveTokenKeptCorrect ==
    ASSUME HeaderMayFail = FALSE
    PROVE  Spec => []LiveTokenKept
  <1>1. Init => TokenInv
    BY DEF Init, TokenInv, Bounded, TokenHeld, Renewing
  <1>2. TokensTypeOK /\ RequestInv /\ TokenInv /\ [Next]_vars => TokenInv'
    BY TokensKept
  <1>3. TokenInv => LiveTokenKept
    BY DEF TokenInv, TokenHeld, LiveTokenKept
  <1>4. QED
    BY <1>1, <1>2, <1>3, RequestInvariance, PTL DEF Spec

-----------------------------------------------------------------------------
(* Doublings.                                                              *)

\* The doublings up to n, and the one table of them there is.
Upto(n, f) ==
    f \in [0 .. n -> Nat] /\ \A i \in 0 .. n : f[i] = IF i = 0 THEN 1 ELSE 2 * f[i - 1]
Table(n) == CHOOSE f : Upto(n, f)

\* There is one.
LEMMA TableIs == ASSUME NEW n \in Nat PROVE Upto(n, Table(n))
  <1> DEFINE Bad == {m \in Nat : ~\E f : Upto(m, f)}
  <1>1. Bad = {}
    <2> SUFFICES ASSUME Bad # {} PROVE FALSE
      OBVIOUS
    <2>0. Bad \in SUBSET Nat
      OBVIOUS
    <2>1. PICK i \in Bad : \A m \in Bad : i <= m
      BY <2>0, Least
    <2>2. i \in Nat /\ ~\E f : Upto(i, f)
      BY <2>1
    <2>3. i # 0
      <3>1. Upto(0, [j \in 0 .. 0 |-> 1])
        BY DEF Upto
      <3>2. QED
        BY <2>2, <3>1
    <2>4. i - 1 \in Nat /\ i - 1 \notin Bad
      BY <2>1, <2>2, <2>3
    <2>5. PICK f : Upto(i - 1, f)
      BY <2>4
    <2>6. Upto(i, [j \in 0 .. i |-> IF j = i THEN 2 * f[i - 1] ELSE f[j]])
      BY <2>2, <2>3, <2>5 DEF Upto
    <2>7. QED
      BY <2>2, <2>6
  <1>2. \E f : Upto(n, f)
    BY <1>1
  <1>3. QED
    BY <1>2, Zenon DEF Table

\* There is one only.
LEMMA OneTable ==
    ASSUME NEW n \in Nat, NEW f, NEW g, Upto(n, f), Upto(n, g)
    PROVE  f = g
  <1> DEFINE Bad == {i \in 0 .. n : f[i] # g[i]}
  <1> SUFFICES ASSUME Bad # {} PROVE FALSE
    <2>1. f \in [0 .. n -> Nat] /\ g \in [0 .. n -> Nat]
      BY DEF Upto
    <2>2. Bad = {} => \A i \in 0 .. n : f[i] = g[i]
      OBVIOUS
    <2> HIDE DEF Bad
    <2>3. QED
      BY <2>1, <2>2
  <1>0. Bad \in SUBSET Nat
    OBVIOUS
  <1>1. PICK i \in Bad : \A m \in Bad : i <= m
    BY <1>0, Least
  <1>2. i # 0
    BY DEF Upto
  <1>3. i - 1 \in 0 .. n /\ i - 1 \notin Bad
    BY <1>1, <1>2
  <1>4. QED
    BY <1>1, <1>2, <1>3 DEF Upto

\* What the definition of Doublings says of it.
LEMMA DoublingsDef ==
    /\ Doublings \in [Nat -> Nat]
    /\ Doublings[0] = 1
    /\ \A n \in Nat : Doublings[n + 1] = 2 * Doublings[n]
  <1> DEFINE d == [n \in Nat |-> Table(n)[n]]
             Eq(f) == f = [n \in Nat |-> IF n = 0 THEN 1 ELSE 2 * f[n - 1]]
  <1>1. d \in [Nat -> Nat] /\ d[0] = 1
    BY TableIs DEF Upto
  <1>2. ASSUME NEW n \in Nat PROVE d[n + 1] = 2 * d[n]
    <2> DEFINE h == [i \in 0 .. n |-> Table(n + 1)[i]]
    <2>1. Upto(n, Table(n)) /\ Upto(n + 1, Table(n + 1))
      BY TableIs
    <2>2. Upto(n, h)
      BY <2>1 DEF Upto
    <2>3. h = Table(n)
      BY <2>1, <2>2, OneTable
    <2>4. Table(n + 1)[n + 1] = 2 * Table(n + 1)[n]
      BY <2>1 DEF Upto
    <2>5. h[n] = Table(n + 1)[n]
      OBVIOUS
    <2>6. QED
      BY <2>3, <2>4, <2>5
  <1> HIDE DEF d
  <1>3. ASSUME NEW n \in Nat PROVE d[n] = IF n = 0 THEN 1 ELSE 2 * d[n - 1]
    <2>1. CASE n = 0
      BY <1>1, <2>1
    <2>2. CASE n # 0
      <3>1. n - 1 \in Nat /\ (n - 1) + 1 = n
        BY <2>2
      <3>2. d[(n - 1) + 1] = 2 * d[n - 1]
        BY <1>2, <3>1
      <3>3. QED
        BY <2>2, <3>1, <3>2
    <2>3. QED
      BY <2>1, <2>2
  <1>4. Eq(d)
    BY <1>1, <1>3
  <1>5. Doublings = CHOOSE f : Eq(f)
    BY DEF Doublings
  <1> HIDE DEF Eq
  <1>6. Eq(Doublings)
    BY <1>4, <1>5, Zenon
  <1>7. Doublings = [n \in Nat |-> IF n = 0 THEN 1 ELSE 2 * Doublings[n - 1]]
    BY <1>6 DEF Eq
  <1>8. \A n \in Nat : Doublings[n] = IF n = 0 THEN 1 ELSE 2 * Doublings[n - 1]
    BY <1>7
  <1>9. Doublings \in [Nat -> Nat]
    <2> DEFINE Bad == {n \in Nat : Doublings[n] \notin Nat}
    <2>1. Bad = {}
      <3> SUFFICES ASSUME Bad # {} PROVE FALSE
        OBVIOUS
      <3>0. Bad \in SUBSET Nat
        OBVIOUS
      <3>1. PICK i \in Bad : \A m \in Bad : i <= m
        BY <3>0, Least
      <3>2. i # 0
        BY <1>8
      <3>3. i - 1 \in Nat /\ i - 1 \notin Bad
        BY <3>1, <3>2
      <3>4. QED
        BY <1>8, <3>1, <3>2, <3>3
    <2>2. QED
      BY <1>7, <2>1
  <1>10. \A n \in Nat : Doublings[n + 1] = 2 * Doublings[n]
    BY <1>8
  <1>11. QED
    BY <1>8, <1>9, <1>10

\* However long the longest wait, that many doublings reach it.
LEMMA DoublingsGrow == \A n \in Nat : Doublings[n] >= n + 1
  <1> DEFINE Bad == {n \in Nat : ~(Doublings[n] >= n + 1)}
  <1> SUFFICES ASSUME Bad # {} PROVE FALSE
    OBVIOUS
  <1>1. Bad \in SUBSET Nat
    OBVIOUS
  <1>2. PICK i \in Bad : \A m \in Bad : i <= m
    BY <1>1, Least
  <1>3. i # 0
    BY DoublingsDef
  <1>4. i - 1 \in Nat /\ i - 1 \notin Bad
    BY <1>2, <1>3
  <1>5. Doublings[i] = 2 * Doublings[i - 1] /\ Doublings[i - 1] \in Nat
    <2>1. Doublings[(i - 1) + 1] = 2 * Doublings[i - 1] /\ Doublings[i - 1] \in Nat
      BY <1>4, DoublingsDef
    <2>2. (i - 1) + 1 = i
      OBVIOUS
    <2>3. QED
      BY <2>1, <2>2
  <1>6. Doublings[i - 1] >= i
    BY <1>4
  <1>7. QED
    BY <1>3, <1>5, <1>6

-----------------------------------------------------------------------------
(* Waits after a refused password.                                         *)

\* The wait is twice as long with every refusal, up to the longest; the time
\* recorded of the last refusal is no earlier than it was; and who uses the
\* password, with the lock held, has found the wait over.
WaitInv ==
    /\ WaitsTypeOK
    /\ refusals <= WaitMax
    /\ refusals = 0 => password_wait = 0
    /\ refusals > 0 => password_wait = AtMost(Doublings[refusals - 1], WaitMax)
    /\ waited <= since
    /\ \A k \in Kiis : UsesPassword(k) /\ refusals > 0 => since >= password_wait

\* The steps keep what is so of the waits.
LEMMA WaitsKept == ASSUME LockInv, WaitInv, RequestsTypeOK, [Next]_vars PROVE WaitInv'
  <1> USE BoundsAssumption
  <1>a. ASSUME UNCHANGED passwordVars,
               \A k \in Kiis : UsesPassword(k)' => UsesPassword(k) \/ password_usable
        PROVE  WaitInv'
    <2>1. \A k \in Kiis : UsesPassword(k)' /\ refusals' > 0 => since' >= password_wait'
      BY <1>a DEF WaitInv, WaitsTypeOK, password_usable
    <2>2. QED
      BY <1>a, <2>1 DEF WaitInv, WaitsTypeOK
  <1>b. ASSUME NEW k \in Kiis, UNCHANGED passwordVars,
               \A j \in Kiis \ {k} : pc'[j] = pc[j],
               UsesPassword(k)' => UsesPassword(k) \/ password_usable
        PROVE  WaitInv'
    BY <1>a, <1>b DEF UsesPassword
  <1>c. ASSUME NEW k \in Kiis, NEW ok, Finish(k, ok)
        PROVE  ~UsesPassword(k)' /\ \A j \in Kiis \ {k} : pc'[j] = pc[j]
    <2>1. PICK to \in {"idle", "send", "resend", "done"} : pc' = [pc EXCEPT ![k] = to]
      BY <1>c DEF Finish, Restored
    <2>2. QED
      BY <2>1 DEF UsesPassword, RequestsTypeOK
  <1>d. ASSUME UNCHANGED waited, since' = since, refusals' = 0, password_wait' = 0 PROVE WaitInv'
    BY <1>d DEF WaitInv, WaitsTypeOK
  <1> USE DEF UsesPassword, RequestsTypeOK
  <1>1. ASSUME NEW k \in Kiis, Check(k) \/ Size(k) \/ Start(k) \/ OnboardAgain(k) \/ Served(k)
                 \/ Refused(k) \/ Fails(k) \/ Return(k) \/ LoginFails(k) \/ Publish(k)
                 \/ (\E how \in {"auth_thing", "onboard"} : Login(k, how))
        PROVE  WaitInv'
    <2>1. /\ UNCHANGED passwordVars
          /\ \A j \in Kiis \ {k} : pc'[j] = pc[j]
          /\ pc'[k] \in {"size", "send", "renew", "plain", "check", "again", "done", "idle",
                         "auth", "onboard"}
      BY <1>1 DEF Check, Size, Start, OnboardAgain, Served, Refused, Fails, Return, LoginFails,
                  Publish, Login, Ends
    <2>2. QED
      BY <1>b, <2>1
  <1>2. ASSUME NEW k \in Kiis, LoginAnswered(k) PROVE WaitInv'
    <2>1. PICK to \in {"publish_auth", "publish_onboard", "idle"} : pc' = [pc EXCEPT ![k] = to]
      BY <1>2 DEF LoginAnswered
    <2>2. UNCHANGED passwordVars
      BY <1>2 DEF LoginAnswered
    <2>3. QED
      BY <1>b, <2>1, <2>2
  <1>3. ASSUME NEW k \in Kiis, Again(k) PROVE WaitInv'
    <2>1. CASE password_usable
      BY <1>3, <1>b, <2>1 DEF Again
    <2>2. CASE ~password_usable
      BY <1>3, <1>b, <2>2 DEF Again
    <2>3. QED
      BY <2>1, <2>2
  <1>4. ASSUME NEW k \in Kiis, Renew(k) PROVE WaitInv'
    <2>1. UNCHANGED passwordVars
      BY <1>4 DEF Renew
    <2>2. CASE Restored(k, TRUE)
      <3>1. PICK to \in {"send", "resend", "done"} : pc' = [pc EXCEPT ![k] = to]
        BY <2>2 DEF Restored
      <3>2. QED
        BY <1>b, <2>1, <3>1
    <2>3. CASE Finish(k, FALSE)
      BY <1>b, <1>c, <2>1, <2>3
    <2>4. CASE pc' = [pc EXCEPT ![k] = FirstStep]
      <3>1. FirstStep \in {"none", "refreshing"} \/ password_usable
        BY DEF FirstStep
      <3>2. UsesPassword(k)' => password_usable
        BY <2>4, <3>1
      <3>3. QED
        BY <1>b, <2>1, <2>4, <3>2
    <2>5. QED
      BY <1>4, <2>2, <2>3, <2>4 DEF Renew
  <1>5. ASSUME NEW k \in Kiis, RefreshRefused(k) PROVE WaitInv'
    <2>1. UNCHANGED passwordVars
      BY <1>5 DEF RefreshRefused
    <2>2. CASE password_usable
      BY <1>5, <1>b, <2>1, <2>2 DEF RefreshRefused
    <2>3. CASE ~password_usable
      BY <1>5, <1>b, <1>c, <2>1, <2>3 DEF RefreshRefused
    <2>4. QED
      BY <2>2, <2>3
  <1>6. ASSUME NEW k \in Kiis, Unanswered(k) PROVE WaitInv'
    BY <1>6, <1>b, <1>c DEF Unanswered
  <1>7. ASSUME NEW k \in Kiis, NEW received \in BOOLEAN, RefreshAccepted(k, received)
        PROVE  WaitInv'
    BY <1>7, <1>b, <1>c DEF RefreshAccepted
  <1>8. ASSUME NEW k \in Kiis, NEW received \in BOOLEAN, PasswordTaken(k, received)
        PROVE  WaitInv'
    <2>1. Finish(k, received)
      BY <1>8 DEF PasswordTaken
    <2>2. CASE received
      BY <1>8, <1>d, <2>2 DEF PasswordTaken, PasswordAccepted
    <2>3. CASE ~received
      <3>1. UNCHANGED passwordVars
        BY <1>8, <2>3 DEF PasswordTaken
      <3>2. QED
        BY <1>b, <1>c, <2>1, <3>1
    <2>4. QED
      BY <2>2, <2>3
  <1>9. ASSUME NEW k \in Kiis, PasswordTurnedDown(k) PROVE WaitInv'
    <2> DEFINE d == Doublings[refusals - 1]
    <2>1. /\ waited' = 0 /\ since' = 0 /\ refusals' = AtMost(refusals + 1, WaitMax)
          /\ password_wait' = AtMost(IF password_wait = 0 THEN 1 ELSE 2 * password_wait, WaitMax)
      BY <1>9 DEF PasswordTurnedDown, PasswordRefused
    <2>2. lock = k /\ Finish(k, FALSE)
      BY <1>9 DEF PasswordTurnedDown, LockInv, HoldsLock, Renewing
    <2>3. \A j \in Kiis : ~UsesPassword(j)'
      <3>1. \A j \in Kiis \ {k} : ~UsesPassword(j)
        BY <2>2 DEF LockInv, HoldsLock, Renewing
      <3>2. QED
        BY <1>c, <2>2, <3>1
    <2>4. refusals' \in Nat /\ refusals' <= WaitMax /\ refusals' > 0
      BY <2>1 DEF AtMost, WaitInv, WaitsTypeOK
    <2>5. password_wait' = AtMost(Doublings[refusals' - 1], WaitMax)
      <3>1. CASE refusals = 0
        BY <2>1, <3>1, DoublingsDef DEF AtMost, WaitInv
      <3>2. CASE refusals > 0
        <4>1. refusals - 1 \in Nat /\ (refusals - 1) + 1 = refusals /\ refusals \in Nat
          BY <3>2 DEF WaitInv, WaitsTypeOK
        <4>2. d \in Nat /\ d >= refusals /\ Doublings[refusals] = 2 * d
          <5>1. d \in Nat /\ d >= (refusals - 1) + 1
            BY <4>1, DoublingsDef, DoublingsGrow
          <5>2. Doublings[(refusals - 1) + 1] = 2 * d
            BY <4>1, DoublingsDef
          <5>3. QED
            BY <4>1, <5>1, <5>2
        <4>3. password_wait = AtMost(d, WaitMax)
          BY <3>2 DEF WaitInv
        <4> HIDE DEF d
        <4>4. CASE refusals < WaitMax
          <5>1. refusals' - 1 = refusals
            BY <2>1, <4>1, <4>4 DEF AtMost
          <5>2. QED
            BY <2>1, <3>2, <4>1, <4>2, <4>3, <5>1 DEF AtMost
        <4>5. CASE refusals = WaitMax
          <5>1. refusals' = refusals /\ password_wait = WaitMax
            BY <2>1, <4>1, <4>2, <4>3, <4>5 DEF AtMost
          <5>2. password_wait' = WaitMax
            BY <2>1, <5>1 DEF AtMost
          <5>3. AtMost(d, WaitMax) = WaitMax
            BY <4>3, <5>1
          <5>4. QED
            BY <5>1, <5>2, <5>3 DEF d
        <4>6. QED
          BY <4>1, <4>4, <4>5 DEF WaitInv
      <3>3. QED
        BY <3>1, <3>2 DEF WaitInv, WaitsTypeOK
    <2>6. password_wait' \in Nat
      BY <2>1 DEF AtMost, WaitInv, WaitsTypeOK
    <2>7. QED
      BY <2>1, <2>3, <2>4, <2>5, <2>6 DEF WaitInv, WaitsTypeOK
  <1>10. CASE SetPassword
    BY <1>10, <1>d DEF SetPassword
  <1>11. CASE Pass
    <2>1. /\ waited' \in Nat /\ since' \in Nat /\ waited' <= since'
          /\ UNCHANGED <<password_wait, refusals, pc>>
          /\ since' >= since \/ since' = WaitMax
      BY <1>11 DEF Pass, AtMost, WaitInv, WaitsTypeOK
    <2>2. refusals > 0 => password_wait <= WaitMax
      <3>1. Doublings \in [Nat -> Nat]
        BY DoublingsDef
      <3>2. refusals > 0 => Doublings[refusals - 1] \in Nat
        BY <3>1 DEF WaitInv, WaitsTypeOK
      <3>3. QED
        BY <3>2 DEF AtMost, WaitInv, WaitsTypeOK
    <2>3. \A k \in Kiis : UsesPassword(k)' /\ refusals' > 0 => since' >= password_wait'
      BY <2>1, <2>2 DEF WaitInv, WaitsTypeOK
    <2>4. QED
      BY <2>1, <2>3 DEF WaitInv, WaitsTypeOK
  <1>12. CASE SetAuthor \/ (\E mode \in Modes : SetRenewMode(mode)) \/ Ages \/ Expires
              \/ PasswordPutRight \/ UNCHANGED vars
    <2>1. UNCHANGED <<passwordVars, pc>>
      BY <1>12 DEF SetAuthor, SetRenewMode, Ages, Expires, PasswordPutRight
    <2>2. QED
      BY <1>a, <2>1
  <1>13. QED
    BY <1>1, <1>2, <1>3, <1>4, <1>5, <1>6, <1>7, <1>8, <1>9, <1>10, <1>11, <1>12
       DEF Next, Begins, Goes, Renewal

\* Whichever kii_t logs in or onboards, the wait that the refusals so far call for
\* is over (_password_usable(), _password_refused()).
THEOREM PasswordRestsCorrect == Spec => []PasswordRests
  <1>1. Init => WaitInv
    BY BoundsAssumption DEF Init, WaitInv, WaitsTypeOK, UsesPassword
  <1>2. LockInv /\ WaitInv /\ RequestsTypeOK /\ [Next]_vars => WaitInv'
    BY WaitsKept
  <1>3. WaitInv => PasswordRests
    BY DEF WaitInv, PasswordRests, UsesPassword
  <1>4. RequestInv => LockInv /\ RequestsTypeOK
    BY DEF RequestInv
  <1>5. QED
    BY <1>1, <1>2, <1>3, <1>4, RequestInvariance, PTL DEF Spec
====
