------------------------------- MODULE Clock -------------------------------
(***************************************************************************)
(* The clock of a device without one (ebisu_clock.c): the time a server    *)
(* gave, counted on with a monotonic clock, against which the sockets of   *)
(* several tasks check the certificates of servers (verify_callback(),     *)
(* verify_server_certificate()), and which their responses set again.      *)
(*                                                                         *)
(* The monotonic clock stops while the device sleeps, runs up to 1% fast,  *)
(* wraps round, and starts over with the device. Each function holds the   *)
(* clock's lock throughout, and is one step; a handshake is two.           *)
(***************************************************************************)
EXTENDS Integers, Sequences

CONSTANTS
    Tasks,
    Step,         \* seconds that pass at once
    MaxTime,      \* when the model ends: a bound
    Wrap,         \* the monotonic clock's range, in hundredths of a second
    ExactFor      \* what ebisu_clock_set_exact_for() is given, in seconds, if not 0

ASSUME ClockAssumption ==
    /\ Step \in Nat /\ MaxTime \in Nat /\ Wrap \in Nat \ {0} /\ ExactFor \in Nat

VARIABLES
    real,         \* the time, in seconds since the source was built
    mono,         \* the monotonic clock, in hundredths of a second
    floor, time_known, time, time_at, exact_for,    \* ebisu_clock_t
    saved,        \* the time that the application saved for when it starts again
    not_before,   \* of the server's certificate, which is valid and stays so
    shake,        \* the time each task's handshake checks at, and whether exact
    refusals      \* how often each task was refused for the certificate

clockVars == <<floor, time_known, time, time_at, exact_for>>
vars == <<real, mono, clockVars, saved, not_before, shake, refusals>>

NoShake == [on |-> FALSE, now |-> 0, exact |-> FALSE]

MaxOf(a, b) == IF a > b THEN a ELSE b

\* ebisu_clock_init(): a week before the source was built.
FirstFloor == 0 - 7 * 86400

Init ==
    /\ real = 0
    /\ mono = 0
    /\ floor = FirstFloor
    /\ time_known = FALSE
    /\ time = 0
    /\ time_at = 0
    /\ exact_for \in {0, ExactFor}
    /\ saved = FirstFloor
    /\ not_before = 0
    /\ shake = [t \in Tasks |-> NoShake]
    /\ refusals = [t \in Tasks |-> 0]

-----------------------------------------------------------------------------
(* The clock.                                                              *)

\* ebisu_clock_set_time()
SetTime(now) ==
    IF now >= floor
    THEN time_known' = TRUE /\ time' = now /\ time_at' = mono
    ELSE UNCHANGED <<time_known, time, time_at>>

\* _counted(): the monotonic clock went back, or the time counted on from the one
\* given, less 1% once it is no longer exact.
WentBack == time_known /\ mono < time_at
Counts == time_known /\ ~WentBack
Elapsed == (mono - time_at) \div 100
Fresh == mono - time_at < exact_for * 100

\* Mutant: the ticks are taken to be exact for ever.
CountedInFull == time + Elapsed

Counted == time + Elapsed - (IF Fresh THEN 0 ELSE Elapsed \div 100)

\* What _counted() leaves behind.
ForgotWentBack ==
    /\ floor' = IF WentBack THEN MaxOf(floor, time) ELSE floor
    /\ time_known' = Counts

\* ebisu_clock_get_time(), after ForgotWentBack.
GetTime(flr) ==
    IF Counts /\ Counted >= flr
    THEN [now |-> Counted, exact |-> Fresh]
    ELSE [now |-> flr, exact |-> FALSE]

\* Mutant: the refused time is kept.
ForgetTimeKeepingIt == ForgotWentBack

\* ebisu_clock_forget_time()
ForgetTime ==
    /\ floor' = IF Counts THEN MaxOf(floor, time + Elapsed - Elapsed \div 100)
                ELSE IF WentBack THEN MaxOf(floor, time)
                ELSE floor
    /\ time_known' = FALSE

-----------------------------------------------------------------------------
(* Time, the application, and connections.                                 *)

\* While the device is on, or asleep.
Pass ==
    /\ real + Step <= MaxTime
    /\ real' = real + Step
    /\ \E counts \in {0, Step * 100, Step * 101} : mono' = (mono + counts) % Wrap
    /\ UNCHANGED <<clockVars, saved, not_before, shake, refusals>>

\* A task asks the time, as for the application to save it.
Save ==
    /\ ForgotWentBack
    /\ saved' = MaxOf(saved, GetTime(floor').now)
    /\ UNCHANGED <<real, mono, time, time_at, exact_for, not_before, shake, refusals>>

\* The device starts again, and sets what was saved: ebisu_clock_set_floor().
Restart ==
    /\ mono' = 0
    /\ floor' = MaxOf(FirstFloor, saved)
    /\ time_known' = FALSE
    /\ time' = 0
    /\ time_at' = 0
    /\ shake' = [t \in Tasks |-> NoShake]
    /\ UNCHANGED <<real, exact_for, saved, not_before, refusals>>

\* The server has a new certificate.
Renew ==
    /\ not_before' = real
    /\ not_before' # not_before
    /\ refusals' = [t \in Tasks |-> 0]
    /\ UNCHANGED <<real, mono, clockVars, saved, shake>>

\* openssl_connect() sets the time to check at before the handshake, and
\* verify_server_certificate() asks it just before it checks.
StartHandshake(t) ==
    /\ ~shake[t].on
    /\ ForgotWentBack
    /\ shake' = [shake EXCEPT ![t] =
            [on |-> TRUE, now |-> GetTime(floor').now, exact |-> GetTime(floor').exact]]
    /\ UNCHANGED <<real, mono, time, time_at, exact_for, saved, not_before, refusals>>

\* Only a time that is exact has a certificate refused for not being valid yet.
RefusedNotYet(t) == shake[t].exact /\ shake[t].now < not_before

Refuse(t) ==
    /\ shake[t].on
    /\ RefusedNotYet(t)
    /\ ForgetTime
    /\ shake' = [shake EXCEPT ![t] = NoShake]
    /\ refusals' = [refusals EXCEPT ![t] = @ + 1]
    /\ UNCHANGED <<real, mono, time, time_at, exact_for, saved, not_before>>

\* _record_resp_date() of each Date of a response: a malformed one, or one that
\* disagrees, leaves it without any. khc_get_resp_date() is -1 without one. A response
\* has up to two: a bound.
RecordRespDate(resp_date, date) ==
    IF date = -2 \/ (resp_date # -1 /\ resp_date # date) THEN -2 ELSE date

RespDate(dates) ==
    IF dates = <<>> THEN -1
    ELSE IF Len(dates) = 1 THEN RecordRespDate(-1, dates[1])
    ELSE RecordRespDate(RecordRespDate(-1, dates[1]), dates[2])

\* The certificate is accepted and the response comes: _kii_clock_record().
Respond(t) ==
    /\ shake[t].on
    /\ ~RefusedNotYet(t)
    /\ \E dates \in {<<>>, <<real>>, <<real, real>>, <<-2, real>>, <<real, real + Step>>} :
        IF RespDate(dates) >= 0 THEN SetTime(RespDate(dates))
        ELSE UNCHANGED <<time_known, time, time_at>>
    /\ shake' = [shake EXCEPT ![t] = NoShake]
    /\ UNCHANGED <<real, mono, floor, exact_for, saved, not_before, refusals>>

Next ==
    \/ Pass \/ Save \/ Restart \/ Renew
    \/ \E t \in Tasks : StartHandshake(t) \/ Refuse(t) \/ Respond(t)

Spec == Init /\ [][Next]_vars

-----------------------------------------------------------------------------
(* Properties.                                                             *)

\* How far ahead a time that counts as exact may be: 1% of how long it does, and the
\* second that is rounded away.
Slack == ExactFor \div 100 + 1

\* A time that the clock doesn't have as exact, and its floor, are lower bounds: through
\* fast, stopped and wrapping monotonic clocks, times forgotten, saved and set again
\* after a restart, they are never ahead of the time by more than a time that was
\* exact may have been, and the error doesn't add up (ebisu_clock_get_time()).
LowerBound ==
    LET flr == IF WentBack THEN MaxOf(floor, time) ELSE floor
        read == GetTime(flr)
    IN  /\ floor <= real + Slack
        /\ ~read.exact => read.now <= real + Slack

\* A task whose handshake is refused because the clock fell behind isn't refused the
\* same certificate again: what it forgets, or the time another task's response gave
\* meanwhile, has the next connection go through (ebisu_clock_forget_time()).
RefusedOnce == \A t \in Tasks : refusals[t] <= 1

=============================================================================
