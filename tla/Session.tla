------------------------------ MODULE Session ------------------------------
(***************************************************************************)
(* A session of the Kii SDK (kii_session.c): the tokens of a thing, shared *)
(* by the kii_t instances of several threads under one lock, and renewed   *)
(* by whichever of them finds them close to expiry or refused.  A renewal  *)
(* is made with the lock held, over the network; requests are made without *)
(* it.                                                                     *)
(*                                                                         *)
(* Abstracted: a token is a number, in the order of issue; an author is    *)
(* its access token and its refresh token, 0 for none; a buffer is the     *)
(* renewals that fit in it after the request's body; the lifetime of a     *)
(* token is whether it is known and whether it is over; the waits after a  *)
(* refused password are in units of the shortest.                          *)
(***************************************************************************)
EXTENDS Naturals

CONSTANTS
    Kiis,          \* the kii_t instances, one thread each
    NoOne,         \* holder of a lock that is free
    WaitMax,       \* _PASSWORD_WAIT_MAX_MS over _PASSWORD_WAIT_MIN_MS
    MaxTokens,     \* bound: tokens the server issues
    MaxGeneration, \* bound: the last generation an application sets
    AppCalls,      \* what applications call besides requests
    Bodies,        \* the requests they make, by their bodies
    HeaderMayFail  \* allocating a request header may fail

ASSUME NoOneAssumption == NoOne \notin Kiis
ASSUME BoundsAssumption ==
    /\ WaitMax \in Nat \ {0}
    /\ MaxTokens \in Nat \ {0}
    /\ MaxGeneration \in Nat
    /\ HeaderMayFail \in BOOLEAN
    /\ AppCalls \subseteq
         {"auth_thing", "onboard", "onboard_again", "set_author", "set_password"}
    /\ Bodies \subseteq
         [streamed : BOOLEAN, room : SUBSET {"token_endpoint", "onboarding"}]

VARIABLES
    author, generation, renew_mode,  \* of kii_session_t
    renew_at_known, due,             \* the lifetime is known, and over
    password_wait,                   \* _password_wait_ms
    waited,                          \* time since _password_refused_at_ms
    lock,                            \* who holds the session's lock
    kii,                             \* of each kii_t: its copy of the author
    kii_generation,                  \* _session_generation
    pc,                              \* where its thread is
    request,                         \* the request it makes
    ret,                             \* what the request returns
    valid, refreshable, issued,      \* the server's tokens
    password,                        \* _password: none, a wrong or the right one
    acted,                           \* history: the server acted on the request
    body,                            \* history: the body is as it was built
    refusals,                        \* history: passwords refused in a row
    since                            \* history: time since the last of them

authorVars == <<author, generation, renew_mode, renew_at_known, due>>
passwordVars == <<password_wait, waited, refusals, since>>
copyVars == <<kii, kii_generation>>
requestVars == <<request, ret, acted, body>>
serverVars == <<valid, refreshable, issued, password>>
vars == <<authorVars, passwordVars, lock, copyVars, pc, requestVars, serverVars>>

Modes == {"token_endpoint", "onboarding"}
Renewing == {"refreshing", "logging_in", "onboarding"}

\* token: in the Authorization header.  streamed: the caller reads the body.
\* room: the renewals that fit after the body.  force, keep: how the renewal
\* under way is made.  body_kept: the refusal fitted after the body.
NoRequest ==
    [token |-> 0, streamed |-> FALSE, room |-> {}, force |-> FALSE,
     keep |-> FALSE, body_kept |-> FALSE]

\* A session with no author, or with the one a restart found saved: its tokens may
\* have been replaced since.  The kii_t instances are attached.
Init ==
    /\ \/ author = [access |-> 0, refresh |-> 0] /\ generation = 0 /\ issued = 0
       \/ /\ author \in [access : {1}, refresh : {0, 1}]
          /\ generation = 1
          /\ issued = 1
    /\ renew_mode \in Modes
    /\ renew_at_known = FALSE
    /\ due = FALSE
    /\ password_wait = 0
    /\ waited = WaitMax
    /\ lock = NoOne
    /\ kii = [k \in Kiis |-> author]
    /\ kii_generation = [k \in Kiis |-> generation]
    /\ pc = [k \in Kiis |-> "idle"]
    /\ request = [k \in Kiis |-> NoRequest]
    /\ ret = [k \in Kiis |-> "none"]
    /\ valid \in SUBSET {n \in 1..issued : n = author.access}
    /\ refreshable \in SUBSET {n \in 1..issued : n = author.refresh}
    /\ password \in {"none", "wrong", "right"}
    /\ acted = [k \in Kiis |-> 0]
    /\ body = [k \in Kiis |-> "whole"]
    /\ refusals = 0
    /\ since = WaitMax

-----------------------------------------------------------------------------
(* The session, with its lock held.                                        *)

Free == lock = NoOne

\* _sync_locked(), of what the session holds after the step.
Sync(k) ==
    /\ kii' = [kii EXCEPT ![k] = author']
    /\ kii_generation' = [kii_generation EXCEPT ![k] = generation']

\* _store_locked(): a lifetime may be given where the token endpoint gave it.
Store(new, mayExpire) ==
    /\ author' = new
    /\ generation' = generation + 1
    /\ renew_at_known' \in (IF mayExpire THEN BOOLEAN ELSE {FALSE})
    /\ due' = FALSE

password_usable ==
    /\ password # "none"
    /\ password_wait = 0 \/ waited >= password_wait

due_locked == renew_at_known /\ due

AtMost(n, limit) == IF n < limit THEN n ELSE limit

PasswordAccepted ==
    /\ password_wait' = 0
    /\ refusals' = 0
    /\ UNCHANGED <<waited, since>>

\* Mutant: the time of the refusal is not recorded.
PasswordRefusedUntimed ==
    /\ password_wait' = AtMost(IF password_wait = 0 THEN 1 ELSE 2 * password_wait,
                               WaitMax)
    /\ refusals' = AtMost(refusals + 1, WaitMax)
    /\ since' = 0
    /\ UNCHANGED waited

\* The wait starts, twice as long as the last, 1 being the shortest.
PasswordRefused ==
    /\ password_wait' = AtMost(IF password_wait = 0 THEN 1 ELSE 2 * password_wait,
                               WaitMax)
    /\ waited' = 0
    /\ refusals' = AtMost(refusals + 1, WaitMax)
    /\ since' = 0

-----------------------------------------------------------------------------
(* The server: what becomes of a request for tokens.                       *)

Issues(hasRefresh, spent) ==
    /\ issued < MaxTokens
    /\ issued' = issued + 1
    /\ valid' = (valid \ spent) \cup {issued'}
    /\ refreshable' = (refreshable \ spent) \cup (IF hasRefresh THEN {issued'} ELSE {})
    /\ UNCHANGED password

NewAuthor(hasRefresh) ==
    [access |-> issued', refresh |-> IF hasRefresh THEN issued' ELSE 0]

-----------------------------------------------------------------------------
(* A renewal, inside the request that needed it.                           *)

\* Mutant: whether the refusal overwrote the body doesn't count.
RestoredOverwritten(k, ok) ==
    LET r == request[k] IN
    \E replaced \in IF HeaderMayFail THEN BOOLEAN ELSE {TRUE} :
      LET again == r.force /\ ok /\ replaced /\ r.keep IN
      /\ request' = [request EXCEPT ![k].token = IF replaced THEN kii'[k].access ELSE @]
      /\ body' = [body EXCEPT ![k] = IF r.keep \/ r.streamed THEN @ ELSE "lost"]
      /\ pc' = [pc EXCEPT ![k] = CASE ~r.force -> "send"
                                   [] again -> "resend"
                                   [] OTHER -> "done"]
      /\ ret' = [ret EXCEPT ![k] = IF ~r.force \/ again THEN @
                                     ELSE IF ok /\ replaced THEN "renewed"
                                     ELSE "refused"]
      /\ UNCHANGED acted

\* Once the lock is released: the request is put back, its header with the token
\* now held, and goes on, is sent again or ends with its 403.
Restored(k, ok) ==
    LET r == request[k] IN
    \E replaced \in IF HeaderMayFail THEN BOOLEAN ELSE {TRUE} :
      LET again == r.force /\ ok /\ replaced /\ r.keep /\ r.body_kept IN
      /\ request' = [request EXCEPT ![k].token = IF replaced THEN kii'[k].access ELSE @]
      /\ body' = [body EXCEPT ![k] = IF r.keep \/ r.streamed THEN @ ELSE "lost"]
      /\ pc' = [pc EXCEPT ![k] = CASE ~r.force -> "send"
                                   [] again -> "resend"
                                   [] OTHER -> "done"]
      /\ ret' = [ret EXCEPT ![k] = IF ~r.force \/ again THEN @
                                     ELSE IF ok /\ replaced THEN "renewed"
                                     ELSE "refused"]
      /\ UNCHANGED acted

\* The renewal made with the lock held ends, and the lock is released.
Finish(k, ok) ==
    /\ lock' = NoOne
    /\ Sync(k)
    /\ IF pc[k] = "onboarding_again"
       THEN pc' = [pc EXCEPT ![k] = "idle"] /\ UNCHANGED requestVars
       ELSE Restored(k, ok)

\* _renewal_due(), before the request is sent.
Check(k) ==
    /\ pc[k] = "check"
    /\ Free
    /\ pc' = [pc EXCEPT ![k] = IF kii_generation[k] # generation \/ due_locked
                               THEN "size" ELSE "send"]
    /\ UNCHANGED <<authorVars, passwordVars, lock, copyVars, requestVars, serverVars>>

\* _renew_and_restore() up to the renewal: a body it would cost is only given up
\* for a token that was refused.
Size(k) ==
    LET fits == renew_mode \in request[k].room IN
    /\ pc[k] = "size"
    /\ Free
    /\ pc' = [pc EXCEPT ![k] = IF fits \/ request[k].force THEN "renew" ELSE "send"]
    /\ request' = [request EXCEPT ![k].keep = fits /\ ~request[k].streamed]
    /\ UNCHANGED <<authorVars, passwordVars, lock, copyVars, ret, acted, body,
                   serverVars>>

\* Mutant: having no refresh token isn't treated like having it refused.
FirstStepRefreshOnly ==
    CASE renew_mode = "onboarding" /\ password_usable -> "onboarding"
      [] renew_mode = "token_endpoint" /\ author.refresh # 0 -> "refreshing"
      [] OTHER -> "none"

\* The request the renewal starts with, if it can be made at all.
FirstStep ==
    CASE renew_mode = "onboarding" /\ password_usable -> "onboarding"
      [] renew_mode = "token_endpoint" /\ author.refresh # 0 -> "refreshing"
      [] renew_mode = "token_endpoint" /\ author.refresh = 0 /\ password_usable
           -> "logging_in"
      [] OTHER -> "none"

\* Mutant: another kii_t may have renewed the token already.
RenewAnyway(k) ==
    /\ pc[k] = "renew"
    /\ Free
    /\ UNCHANGED <<authorVars, passwordVars, serverVars>>
    /\ IF ~request[k].force /\ ~due_locked
       THEN lock' = lock /\ Sync(k) /\ Restored(k, TRUE)
       ELSE IF FirstStep = "none"
       THEN Finish(k, FALSE)
       ELSE /\ lock' = k
            /\ pc' = [pc EXCEPT ![k] = FirstStep]
            /\ UNCHANGED <<copyVars, requestVars>>

\* Mutant: the kii_t doesn't take over what another kii_t renewed, and looks again.
RenewUnsynced(k) ==
    /\ pc[k] = "renew"
    /\ Free
    /\ UNCHANGED <<authorVars, passwordVars, serverVars>>
    /\ IF kii_generation[k] # generation
       THEN /\ pc' = [pc EXCEPT ![k] = "size"]
            /\ UNCHANGED <<lock, copyVars, requestVars>>
       ELSE IF ~request[k].force /\ ~due_locked
       THEN lock' = lock /\ Sync(k) /\ Restored(k, TRUE)
       ELSE IF FirstStep = "none"
       THEN Finish(k, FALSE)
       ELSE /\ lock' = k
            /\ pc' = [pc EXCEPT ![k] = FirstStep]
            /\ UNCHANGED <<copyVars, requestVars>>

\* _renew_locked() up to its first request.
Renew(k) ==
    /\ pc[k] = "renew"
    /\ Free
    /\ UNCHANGED <<authorVars, passwordVars, serverVars>>
    /\ IF kii_generation[k] # generation \/ (~request[k].force /\ ~due_locked)
       THEN lock' = lock /\ Sync(k) /\ Restored(k, TRUE)
       ELSE IF FirstStep = "none"
       THEN Finish(k, FALSE)
       ELSE /\ lock' = k
            /\ pc' = [pc EXCEPT ![k] = FirstStep]
            /\ UNCHANGED <<copyVars, requestVars>>

\* The refresh token is good for one renewal, which may come without another: the
\* one held is then kept.
RefreshAccepted(k, received) ==
    /\ pc[k] = "refreshing"
    /\ author.refresh \in refreshable
    /\ \E rotates \in BOOLEAN :
         /\ Issues(rotates, IF rotates THEN {author.refresh, author.access} ELSE {})
         /\ IF received
            THEN Store([access |-> issued',
                        refresh |-> IF rotates THEN issued' ELSE author.refresh], TRUE)
            ELSE UNCHANGED authorVars
    /\ UNCHANGED <<renew_mode, passwordVars>>
    /\ Finish(k, received)

\* The password stands in for a refresh token that was refused.
RefreshRefused(k) ==
    /\ pc[k] = "refreshing"
    /\ author.refresh \notin refreshable
    /\ UNCHANGED <<authorVars, passwordVars, serverVars>>
    /\ IF password_usable
       THEN /\ pc' = [pc EXCEPT ![k] = "logging_in"]
            /\ UNCHANGED <<lock, copyVars, requestVars>>
       ELSE Finish(k, FALSE)

\* A login, or onboarding, with the thing's credentials.
UsesPassword(k) == pc[k] \in {"logging_in", "onboarding", "onboarding_again"}

PasswordTaken(k, received) ==
    /\ UsesPassword(k)
    /\ password = "right"
    /\ \E hasRefresh \in IF pc[k] = "logging_in" THEN BOOLEAN ELSE {FALSE} :
         /\ Issues(hasRefresh, {})
         /\ IF received
            THEN Store(NewAuthor(hasRefresh), pc[k] = "logging_in") /\ PasswordAccepted
            ELSE UNCHANGED <<authorVars, passwordVars>>
    /\ UNCHANGED renew_mode
    /\ Finish(k, received)

PasswordTurnedDown(k) ==
    /\ UsesPassword(k)
    /\ password = "wrong"
    /\ PasswordRefused
    /\ UNCHANGED <<authorVars, serverVars>>
    /\ Finish(k, FALSE)

\* No answer, or one that says nothing of the token or of the password.
Unanswered(k) ==
    /\ pc[k] \in Renewing \cup {"onboarding_again"}
    /\ UNCHANGED <<authorVars, passwordVars, serverVars>>
    /\ Finish(k, FALSE)

-----------------------------------------------------------------------------
(* A request, in _kii_perform().                                           *)

\* It is put together: kii_api_call_start() takes the session's author.
Start(k) ==
    /\ pc[k] = "idle"
    /\ Free
    /\ UNCHANGED <<authorVars, passwordVars, lock, serverVars>>
    /\ Sync(k)
    /\ \E b \in Bodies :
         request' = [request EXCEPT ![k] =
           [NoRequest EXCEPT !.token = author.access, !.streamed = b.streamed,
                             !.room = b.room]]
    /\ pc' = [pc EXCEPT ![k] = IF author.access = 0 THEN "plain" ELSE "check"]
    /\ UNCHANGED <<ret, acted, body>>

Ends(k, res) ==
    /\ pc' = [pc EXCEPT ![k] = "done"]
    /\ ret' = [ret EXCEPT ![k] = res]

Sending(k) == pc[k] \in {"send", "resend", "plain"}

\* Mutant: a request whose answer was lost is sent again.
ServedRetrying(k) ==
    /\ Sending(k)
    /\ request[k].token \in valid \/ pc[k] = "plain"
    /\ acted' = [acted EXCEPT ![k] = @ + 1]
    /\ \/ \E res \in {"ok", "error"} : Ends(k, res)
       \/ pc[k] = "send" /\ pc' = [pc EXCEPT ![k] = "resend"] /\ UNCHANGED ret
    /\ UNCHANGED <<authorVars, passwordVars, lock, copyVars, request, body, serverVars>>

\* The server acts on the request, and its answer arrives or doesn't.
Served(k) ==
    /\ Sending(k)
    /\ request[k].token \in valid \/ pc[k] = "plain"
    /\ acted' = [acted EXCEPT ![k] = @ + 1]
    /\ \E res \in {"ok", "error"} : Ends(k, res)
    /\ UNCHANGED <<authorVars, passwordVars, lock, copyVars, request, body, serverVars>>

\* 403 WRONG_TOKEN: read past the body if it fits there, it leads to a renewal,
\* once.
Refused(k) ==
    LET r == request[k] IN
    /\ pc[k] \in {"send", "resend"}
    /\ r.token \notin valid
    /\ IF pc[k] = "resend"
       THEN Ends(k, "refused") /\ UNCHANGED <<request, body>>
       ELSE \E fits \in BOOLEAN :
              LET kept == fits /\ ~r.streamed IN
              /\ request' =
                    [request EXCEPT ![k] = [@ EXCEPT !.force = TRUE, !.body_kept = kept]]
              /\ body' = [body EXCEPT ![k] = IF kept THEN @ ELSE "lost"]
              /\ pc' = [pc EXCEPT ![k] = "size"]
              /\ UNCHANGED ret
    /\ UNCHANGED <<authorVars, passwordVars, lock, copyVars, acted, serverVars>>

\* Not sent, not answered, or answered otherwise.
Fails(k) ==
    /\ Sending(k)
    /\ Ends(k, "error")
    /\ UNCHANGED <<authorVars, passwordVars, lock, copyVars, request, acted, body,
                   serverVars>>

\* The caller has its result, and the request is gone.
Return(k) ==
    /\ pc[k] = "done"
    /\ pc' = [pc EXCEPT ![k] = "idle"]
    /\ request' = [request EXCEPT ![k] = NoRequest]
    /\ ret' = [ret EXCEPT ![k] = "none"]
    /\ acted' = [acted EXCEPT ![k] = 0]
    /\ body' = [body EXCEPT ![k] = "whole"]
    /\ UNCHANGED <<authorVars, passwordVars, lock, copyVars, serverVars>>

-----------------------------------------------------------------------------
(* What else applications call.                                            *)

\* kii_auth_thing(), kii_register_thing() and kii_ti_onboard() ask the server with
\* no lock held, write what they get to the kii_t, and then store it in the
\* session.  An answer that can't be read may have been written in part.
Login(k, how) ==
    /\ how \in AppCalls
    /\ pc[k] = "idle"
    /\ pc' = [pc EXCEPT ![k] = IF how = "auth_thing" THEN "auth" ELSE "onboard"]
    /\ UNCHANGED <<authorVars, passwordVars, lock, copyVars, requestVars, serverVars>>

LoginAnswered(k) ==
    /\ pc[k] \in {"auth", "onboard"}
    /\ \E hasRefresh \in IF pc[k] = "auth" THEN BOOLEAN ELSE {FALSE} :
         /\ Issues(hasRefresh, {})
         /\ \/ /\ kii' = [kii EXCEPT ![k] = NewAuthor(hasRefresh)]
               /\ pc' = [pc EXCEPT ![k] = IF @ = "auth" THEN "publish_auth"
                                          ELSE "publish_onboard"]
            \/ /\ kii' = [kii EXCEPT ![k] = NewAuthor(FALSE)]
               /\ pc' = [pc EXCEPT ![k] = "idle"]
    /\ UNCHANGED <<authorVars, passwordVars, lock, kii_generation, requestVars>>

LoginFails(k) ==
    /\ pc[k] \in {"auth", "onboard"}
    /\ pc' = [pc EXCEPT ![k] = "idle"]
    /\ UNCHANGED <<authorVars, passwordVars, lock, copyVars, requestVars, serverVars>>

\* _kii_session_publish()
Publish(k) ==
    /\ pc[k] \in {"publish_auth", "publish_onboard"}
    /\ Free
    /\ Store(kii[k], pc[k] = "publish_auth")
    /\ renew_mode' = IF pc[k] = "publish_auth" THEN "token_endpoint" ELSE "onboarding"
    /\ Sync(k)
    /\ pc' = [pc EXCEPT ![k] = "idle"]
    /\ UNCHANGED <<passwordVars, lock, requestVars, serverVars>>

\* The MQTT task asks for a new endpoint: _kii_session_renews_by_onboarding(), and
\* then _kii_session_onboard_again(), whatever has become of the token.
OnboardAgain(k) ==
    /\ "onboard_again" \in AppCalls
    /\ pc[k] = "idle"
    /\ Free
    /\ renew_mode = "onboarding"
    /\ pc' = [pc EXCEPT ![k] = "again"]
    /\ UNCHANGED <<authorVars, passwordVars, lock, copyVars, requestVars, serverVars>>

Again(k) ==
    /\ pc[k] = "again"
    /\ Free
    /\ UNCHANGED <<authorVars, passwordVars, requestVars, serverVars>>
    /\ IF password_usable
       THEN /\ lock' = k
            /\ pc' = [pc EXCEPT ![k] = "onboarding_again"]
            /\ UNCHANGED copyVars
       ELSE /\ lock' = lock
            /\ Sync(k)
            /\ pc' = [pc EXCEPT ![k] = "idle"]

\* An author saved earlier is set, as it may be at any time.
SetAuthor ==
    /\ "set_author" \in AppCalls
    /\ Free
    /\ generation < MaxGeneration
    /\ \E n \in 1..issued : author' \in [access : {n}, refresh : {0, n}]
    /\ generation' = generation + 1
    /\ renew_at_known' = FALSE
    /\ due' = FALSE
    /\ UNCHANGED <<renew_mode, passwordVars, lock, copyVars, pc, requestVars, serverVars>>

SetRenewMode(mode) ==
    /\ "set_author" \in AppCalls
    /\ Free
    /\ renew_mode' = mode
    /\ UNCHANGED <<author, generation, renew_at_known, due, passwordVars, lock,
                   copyVars, pc, requestVars, serverVars>>

\* The password is set again, to one that is right or not.
SetPassword ==
    /\ "set_password" \in AppCalls
    /\ Free
    /\ password_wait' = 0
    /\ refusals' = 0
    /\ password' \in {"none", "wrong", "right"}
    /\ UNCHANGED <<authorVars, waited, since, lock, copyVars, pc, requestVars, valid,
                   refreshable, issued>>

-----------------------------------------------------------------------------
(* Time and the server.                                                    *)

Pass ==
    /\ waited < WaitMax \/ since < WaitMax
    /\ waited' = AtMost(waited + 1, WaitMax)
    /\ since' = AtMost(since + 1, WaitMax)
    /\ UNCHANGED <<authorVars, password_wait, refusals, lock, copyVars, pc,
                   requestVars, serverVars>>

\* The token held comes close to its expiry.
Ages ==
    /\ renew_at_known /\ ~due
    /\ due' = TRUE
    /\ UNCHANGED <<author, generation, renew_mode, renew_at_known, passwordVars, lock,
                   copyVars, pc, requestVars, serverVars>>

\* A token expires, or is revoked.
Expires ==
    /\ \/ \E n \in valid : valid' = valid \ {n} /\ UNCHANGED refreshable
       \/ \E n \in refreshable : refreshable' = refreshable \ {n} /\ UNCHANGED valid
    /\ UNCHANGED <<authorVars, passwordVars, lock, copyVars, pc, requestVars, issued,
                   password>>

PasswordPutRight ==
    /\ password = "wrong"
    /\ password' = "right"
    /\ UNCHANGED <<authorVars, passwordVars, lock, copyVars, pc, requestVars, valid,
                   refreshable, issued>>

Renewal(k) ==
    \/ Check(k) \/ Size(k) \/ Renew(k)
    \/ \E received \in BOOLEAN : RefreshAccepted(k, received) \/ PasswordTaken(k, received)
    \/ RefreshRefused(k) \/ PasswordTurnedDown(k) \/ Unanswered(k)

Goes(k) ==
    \/ Renewal(k) \/ Served(k) \/ Refused(k) \/ Fails(k) \/ Return(k)
    \/ LoginAnswered(k) \/ LoginFails(k) \/ Publish(k) \/ Again(k)

Begins(k) ==
    \/ Start(k)
    \/ OnboardAgain(k)
    \/ \E how \in {"auth_thing", "onboard"} : Login(k, how)

Next ==
    \/ \E k \in Kiis : Begins(k) \/ Goes(k)
    \/ SetAuthor \/ SetPassword \/ \E mode \in Modes : SetRenewMode(mode)
    \/ Pass \/ Ages \/ Expires \/ PasswordPutRight

Spec == Init /\ [][Next]_vars

-----------------------------------------------------------------------------
(* Safety.                                                                 *)

\* A token is renewed for having been refused only if it was this one: a kii_t
\* whose token was refused doesn't make away with the one another kii_t has got
\* since, "sharing renews once for all of them".
LiveTokenKept ==
    \A k \in Kiis :
        pc[k] \in Renewing /\ request[k].force => author.access \notin valid

\* A request is acted on at most once, although it may be sent twice, and its
\* caller is told of a 403 only if it wasn't.
ActedOnce ==
    \A k \in Kiis :
        /\ acted[k] <= 1
        /\ ret[k] = "ok" => acted[k] = 1
        /\ ret[k] \in {"refused", "renewed"} => acted[k] = 0

\* A request is sent again with the body it had: neither the refusal nor the
\* renewal, read to the same buffer, has overwritten it.
ResentWhole ==
    \A k \in Kiis : pc[k] = "resend" => body[k] = "whole" /\ ~request[k].streamed

\* 2^n, as a function that proofs can unfold.
Doublings[n \in Nat] == IF n = 0 THEN 1 ELSE 2 * Doublings[n - 1]

\* Credentials the server refused n times aren't tried again before 2^(n-1) times
\* the shortest wait, or the longest wait, is over, by whichever kii_t.
PasswordRests ==
    \A k \in Kiis :
        pc[k] \in {"logging_in", "onboarding", "onboarding_again"} /\ refusals > 0
            => since >= AtMost(Doublings[refusals - 1], WaitMax)

-----------------------------------------------------------------------------
(* Liveness.                                                               *)

\* A thread that is in a call goes on: the lock comes to everyone who keeps asking
\* for it, and every request ends, answered or not.
CallsSpec == Spec /\ \A k \in Kiis : SF_vars(Goes(k))

\* A call ends, whatever the other threads and the server do: no path out of a
\* renewal keeps the lock, and no request is renewed and sent again for ever.
CallsEnd == \A k \in Kiis : pc[k] # "idle" ~> pc[k] = "idle"

\* Besides, applications make requests, time passes, a wrong password is put
\* right, and the server answers one of the requests made again and again.
RecoverySpec ==
    /\ CallsSpec
    /\ WF_vars(Pass) /\ WF_vars(PasswordPutRight)
    /\ \A k \in Kiis :
         /\ SF_vars(Start(k))
         /\ SF_vars(Refused(k))
         /\ SF_vars(RefreshRefused(k))
         /\ SF_vars(RefreshAccepted(k, TRUE))
         /\ SF_vars(PasswordTaken(k, TRUE))

\* A session whose token the server no longer takes gets another with no help of
\* the application's, also after a renewal whose answer was lost, and after its
\* password was refused.
Recovers ==
    (author.access # 0 /\ author.access \notin valid /\ password # "none")
        ~> (author.access \in valid \/ issued = MaxTokens)

=============================================================================
