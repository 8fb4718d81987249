-------------------------- MODULE ApplicationProof --------------------------
(***************************************************************************)
(* Proofs about the clock and the updater of the state, for any number of  *)
(* tasks, any interval, any steps of time, and a monotonic clock that      *)
(* wraps anywhere; about JSON Lines, for any input, however it is cut, and *)
(* a buffer of any size; about fields, for any documents and integers of   *)
(* any width; about the writer, for any calls and a buffer of any size;    *)
(* and about dates, for every date of the calendar.                        *)
(***************************************************************************)
EXTENDS Clock, TioUpdater, JsonLines, Json, JsonWriter, Dates, SequenceFacts, FiniteSetTheorems

-----------------------------------------------------------------------------
(* The clock.                                                              *)

\* What the clock keeps.
ClockTypeOK ==
    /\ real \in Nat /\ mono \in Nat
    /\ floor \in Int
    /\ time_known \in BOOLEAN
    /\ time \in Int /\ time_at \in Nat
    /\ exact_for \in {0, ExactFor}
    /\ saved \in Int
    /\ not_before \in Nat
    /\ shake \in [Tasks -> [on : BOOLEAN, now : Int, exact : BOOLEAN]]
    /\ refusals \in [Tasks -> Nat]

\* The monotonic clock has counted 1% too much at most since the time was given.
CountInv ==
    /\ floor <= real + Slack
    /\ saved <= real + Slack
    /\ time_known => time <= real /\ mono - time_at <= 101 * (real - time)

\* Nothing that a task refused once may check with is before its certificate's time.
RefusalInv ==
    /\ not_before <= real
    /\ \A t \in Tasks :
        /\ refusals[t] <= 1
        /\ refusals[t] > 0 =>
            /\ time_known => time >= not_before
            /\ shake[t].exact => shake[t].now >= not_before

ClockInv == ClockTypeOK /\ CountInv /\ RefusalInv

\* The monotonic clock wraps to something smaller.
LEMMA Modulo == \A a \in Nat, b \in Nat \ {0} : a % b \in Nat /\ a % b <= a
  OBVIOUS

\* In a step of time it counts 1% more than the time at most.
LEMMA TicksCounted == \A n \in Nat : \A c \in {0, n * 100, n * 101} : c \in Nat /\ c <= 101 * n
  OBVIOUS

\* Taking 1% off what a clock that is 1% fast counted leaves no more than has passed.
LEMMA Percent ==
    ASSUME NEW d \in Nat, NEW passed \in Nat, d <= 101 * passed
    PROVE  LET elapsed == d \div 100
           IN  /\ elapsed \in Nat
               /\ elapsed \div 100 \in Nat
               /\ elapsed - elapsed \div 100 <= passed
  OBVIOUS

\* What an exact time is ahead is 1% of how long it is exact.
LEMMA Ahead ==
    ASSUME NEW d \in Nat, NEW passed \in Nat, d <= 101 * passed, NEW e \in Nat, d < e * 100
    PROVE  d \div 100 <= passed + e \div 100 + 1
  OBVIOUS

\* The Date headers of one response give the time it was made, or none: a second one
\* that differs takes the first back (ebisu_clock_on_resp_header()).
LEMMA RespDates ==
    ASSUME real \in Nat,
           NEW dates \in {<<>>, <<real>>, <<real, real>>, <<-2, real>>, <<real, real + Step>>},
           RespDate(dates) >= 0
    PROVE  RespDate(dates) = real
  BY ClockAssumption DEF RespDate, RecordRespDate

\* What a task reads of the clock.
LEMMA Reads ==
    ASSUME ClockTypeOK, CountInv, NEW flr \in Int, flr <= real + Slack
    PROVE  /\ Counts => Counted \in Int /\ Elapsed \in Nat
           /\ GetTime(flr).now \in Int
           /\ GetTime(flr).exact \in BOOLEAN
           /\ GetTime(flr).now <= real + Slack
           /\ GetTime(flr).exact => Counts /\ GetTime(flr).now >= time
           /\ Counts => time + Elapsed - Elapsed \div 100 <= real
           /\ Slack \in Nat
  <1> USE ClockAssumption
  <1>0. Slack \in Nat /\ exact_for \in Nat /\ exact_for \div 100 + 1 <= Slack
    BY DEF ClockTypeOK, Slack
  <1>1. CASE Counts
    <2> DEFINE d == mono - time_at
               passed == real - time
    <2>1. d \in Nat /\ passed \in Nat /\ d <= 101 * passed
      BY <1>1 DEF Counts, WentBack, ClockTypeOK, CountInv
    <2>2. Elapsed = d \div 100 /\ Fresh = (d < exact_for * 100)
      BY DEF Elapsed, Fresh
    <2>3. /\ Elapsed \in Nat
          /\ Elapsed \div 100 \in Nat
          /\ Elapsed - Elapsed \div 100 <= passed
      BY <2>1, <2>2, Percent
    <2>4. Fresh => Elapsed <= passed + Slack
      <3>1. SUFFICES ASSUME d < exact_for * 100 PROVE Elapsed <= passed + Slack
        BY <2>2
      <3>2. d \div 100 <= passed + exact_for \div 100 + 1
        BY <2>1, <1>0, <3>1, Ahead
      <3> QED
        BY <3>2, <2>2, <2>1, <2>3, <1>0
    <2> HIDE DEF d
    <2>5. Counted \in Int /\ Counted <= real + Slack /\ (Fresh => Counted >= time)
      BY <2>1, <2>3, <2>4, <1>0 DEF Counted, ClockTypeOK
    <2>6. Fresh \in BOOLEAN
      BY DEF Fresh
    <2>7. time + Elapsed - Elapsed \div 100 <= real
      BY <2>3, <2>1 DEF ClockTypeOK
    <2> QED
      BY <1>1, <1>0, <2>3, <2>5, <2>6, <2>7 DEF GetTime
  <1>2. CASE ~Counts
    BY <1>2, <1>0 DEF GetTime
  <1> QED BY <1>1, <1>2

\* The floor after a reading, and after a time was forgotten.
LEMMA Floors ==
    ASSUME ClockTypeOK, CountInv, ForgotWentBack \/ ForgetTime
    PROVE  /\ floor' \in Int
           /\ floor' <= real + Slack
           /\ time_known' \in BOOLEAN
           /\ time_known' => time_known
  <1>1. Slack \in Nat /\ (Counts => Elapsed \in Nat /\ time + Elapsed - Elapsed \div 100 <= real)
    BY Reads DEF ClockTypeOK, CountInv
  <1>2. Counts \in BOOLEAN /\ (Counts => time_known) /\ (WentBack => time_known)
    BY DEF Counts, WentBack, ClockTypeOK
  <1>3. CASE ForgotWentBack
    BY <1>1, <1>2, <1>3 DEF ForgotWentBack, MaxOf, ClockTypeOK, CountInv
  <1>4. CASE ForgetTime
    <2>1. time_known' = FALSE
      BY <1>4 DEF ForgetTime
    <2>2. floor' \in Int /\ floor' <= real + Slack
      BY <1>1, <1>2, <1>4 DEF ForgetTime, MaxOf, ClockTypeOK, CountInv
    <2> QED BY <2>1, <2>2
  <1> QED BY <1>3, <1>4

\* What keeps the clock true: neither the floor, which is saved over restarts, nor the
\* time a response gave is past the real time by more than what an inexact monotonic
\* clock counts too much while its time is taken for exact, and a time that refused a
\* certificate is forgotten.
THEOREM ClockInvariance == Spec => []ClockInv
  <1> USE ClockAssumption DEF vars, clockVars, NoShake
  <1>0. Slack \in Nat
    BY DEF Slack
  <1>00. FirstFloor \in Int /\ FirstFloor <= 0
    BY SMT DEF FirstFloor
  <1>1. Init => ClockInv
    <2> SUFFICES ASSUME Init PROVE ClockInv
      OBVIOUS
    <2>1. ~time_known /\ time_known \in BOOLEAN
      BY DEF Init
    <2>2. \A t \in Tasks : refusals[t] = 0
      BY DEF Init
    <2>3. ClockTypeOK
      BY <1>00, <2>1 DEF Init, ClockTypeOK
    <2>4. QED
      BY <1>0, <1>00, <2>1, <2>2, <2>3 DEF Init, ClockInv, CountInv, RefusalInv
  <1>2. ClockInv /\ [Next]_vars => ClockInv'
    <2> SUFFICES ASSUME ClockInv, [Next]_vars PROVE ClockInv'
      OBVIOUS
    <2> USE DEF ClockInv
    <2>1. CASE Pass
      <3>1. PICK counts \in {0, Step * 100, Step * 101} : mono' = (mono + counts) % Wrap
        BY <2>1 DEF Pass
      <3>2. counts \in Nat /\ counts <= 101 * Step
        <4>1. Step \in Nat
          OBVIOUS
        <4>2. QED
          BY <3>1, <4>1, TicksCounted, Zenon
      <3>3. mono' \in Nat /\ mono' <= mono + counts
        <4>1. mono + counts \in Nat /\ Wrap \in Nat \ {0}
          BY <3>2 DEF ClockTypeOK
        <4>2. QED
          BY <3>1, <4>1, Modulo, Zenon
      <3>4. real' = real + Step /\ UNCHANGED <<clockVars, saved, not_before, shake, refusals>>
        BY <2>1 DEF Pass
      <3>5. ClockTypeOK'
        BY <3>3, <3>4 DEF ClockTypeOK
      <3>6. CountInv'
        <4>1. real' + Slack' = real + Slack + Step
          BY <1>0, <3>4 DEF ClockTypeOK, Slack
        <4>2. floor' <= real' + Slack' /\ saved' <= real' + Slack'
          BY <1>0, <3>4, <4>1 DEF ClockTypeOK, CountInv
        <4>3. ASSUME time_known PROVE time <= real' /\ mono' - time_at <= 101 * (real' - time)
          <5>1. time <= real /\ mono - time_at <= 101 * (real - time)
            BY <4>3 DEF CountInv
          <5>2. real - time \in Int /\ real' - time = (real - time) + Step /\ time <= real'
            BY <3>4, <5>1 DEF ClockTypeOK
          <5>3. mono \in Nat /\ time_at \in Nat /\ Step \in Nat
            BY DEF ClockTypeOK
          <5>4. mono' - time_at <= 101 * ((real - time) + Step)
            <6> DEFINE m == mono
                       n == mono'
                       a == time_at
                       passed == real - time
            <6>1. m \in Nat /\ n \in Nat /\ a \in Nat /\ passed \in Int
              BY <3>3, <5>2, <5>3
            <6>2. n <= m + counts /\ m - a <= 101 * passed
              BY <3>3, <5>1
            <6> HIDE DEF m, n, a, passed
            <6>3. n - a <= 101 * (passed + Step)
              BY <3>2, <5>3, <6>1, <6>2
            <6>4. QED
              BY <6>3 DEF m, n, a, passed
          <5> QED
            BY <5>2, <5>4
        <4> QED
          BY <3>4, <4>2, <4>3 DEF CountInv
      <3>7. RefusalInv'
        BY <3>4 DEF ClockTypeOK, RefusalInv
      <3>8. QED
        BY <3>5, <3>6, <3>7
    <2>2. CASE Save
      <3>1. ForgotWentBack /\ saved' = MaxOf(saved, GetTime(floor').now)
            /\ UNCHANGED <<real, mono, time, time_at, exact_for, not_before, shake, refusals>>
        BY <2>2 DEF Save
      <3>2. floor' \in Int /\ floor' <= real + Slack /\ time_known' \in BOOLEAN
            /\ (time_known' => time_known)
        BY <3>1, Floors
      <3>3. GetTime(floor').now \in Int /\ GetTime(floor').now <= real + Slack
        BY <3>2, Reads
      <3>4. ClockTypeOK'
        BY <3>1, <3>2, <3>3 DEF ClockTypeOK, MaxOf
      <3>5. CountInv'
        BY <1>0, <3>1, <3>2, <3>3 DEF ClockTypeOK, CountInv, MaxOf, Slack
      <3>6. RefusalInv'
        BY <3>1, <3>2 DEF ClockTypeOK, RefusalInv
      <3>7. QED
        BY <3>4, <3>5, <3>6
    <2>3. CASE Restart
      <3>1. ~time_known' /\ time_known' \in BOOLEAN
        BY <2>3 DEF Restart
      <3>2. ClockTypeOK'
        BY <1>00, <2>3, <3>1 DEF Restart, ClockTypeOK, MaxOf
      <3>3. CountInv'
        BY <1>0, <1>00, <2>3, <3>1 DEF Restart, ClockTypeOK, CountInv, MaxOf, Slack
      <3>4. \A t \in Tasks : ~shake'[t].exact
        BY <2>3 DEF Restart
      <3>5. RefusalInv'
        BY <2>3, <3>1, <3>4 DEF Restart, ClockTypeOK, RefusalInv
      <3>6. QED
        BY <3>2, <3>3, <3>5
    <2>4. CASE Renew
      BY <2>4 DEF Renew, ClockTypeOK, CountInv, RefusalInv, Slack
    <2>5. ASSUME NEW t \in Tasks, StartHandshake(t) PROVE ClockInv'
      <3> DEFINE reading ==
            [on |-> TRUE, now |-> GetTime(floor').now, exact |-> GetTime(floor').exact]
      <3>1. /\ ForgotWentBack
            /\ shake' = [shake EXCEPT ![t] = reading]
            /\ UNCHANGED <<real, mono, time, time_at, exact_for, saved, not_before, refusals>>
        BY <2>5 DEF StartHandshake
      <3>2. floor' \in Int /\ floor' <= real + Slack /\ time_known' \in BOOLEAN
            /\ (time_known' => time_known)
        BY <3>1, Floors
      <3>3. /\ reading.now \in Int /\ reading.exact \in BOOLEAN /\ reading.on \in BOOLEAN
            /\ reading.exact => time_known /\ reading.now >= time
            /\ reading \in [on : BOOLEAN, now : Int, exact : BOOLEAN]
        BY <3>2, Reads DEF Counts
      <3> HIDE DEF reading
      <3>4. ClockTypeOK'
        BY <3>1, <3>2, <3>3 DEF ClockTypeOK
      <3>5. CountInv'
        BY <1>0, <3>1, <3>2 DEF ClockTypeOK, CountInv, Slack
      <3>6. \A u \in Tasks : shake'[u] = IF u = t THEN reading ELSE shake[u]
        BY <3>1 DEF ClockTypeOK
      <3>7. RefusalInv'
        BY <3>1, <3>2, <3>3, <3>6 DEF ClockTypeOK, RefusalInv
      <3>8. QED
        BY <3>4, <3>5, <3>7
    <2>6. ASSUME NEW t \in Tasks, Refuse(t) PROVE ClockInv'
      <3>1. /\ ForgetTime
            /\ shake' = [shake EXCEPT ![t] = NoShake]
            /\ refusals' = [refusals EXCEPT ![t] = @ + 1]
            /\ UNCHANGED <<real, mono, time, time_at, exact_for, saved, not_before>>
        BY <2>6 DEF Refuse
      <3>2. floor' \in Int /\ floor' <= real + Slack /\ time_known' \in BOOLEAN
        BY <3>1, Floors
      <3>3. ~time_known'
        BY <3>1 DEF ForgetTime
      <3>4. ClockTypeOK'
        BY <3>1, <3>2 DEF ClockTypeOK
      <3>5. CountInv'
        BY <1>0, <3>1, <3>2, <3>3 DEF ClockTypeOK, CountInv, Slack
      <3>6. shake[t].exact /\ shake[t].now < not_before
        BY <2>6 DEF Refuse, RefusedNotYet
      <3>7. refusals[t] = 0
        BY <3>6 DEF ClockTypeOK, RefusalInv
      <3>8. ~shake'[t].exact /\ refusals'[t] = 1
            /\ \A u \in Tasks \ {t} : shake'[u] = shake[u] /\ refusals'[u] = refusals[u]
        BY <3>1, <3>7 DEF ClockTypeOK
      <3>9. RefusalInv'
        BY <3>1, <3>3, <3>8 DEF ClockTypeOK, RefusalInv
      <3>10. QED
        BY <3>4, <3>5, <3>9
    <2>7. ASSUME NEW t \in Tasks, Respond(t) PROVE ClockInv'
      <3>1. /\ shake' = [shake EXCEPT ![t] = NoShake]
            /\ UNCHANGED <<real, mono, floor, exact_for, saved, not_before, refusals>>
        BY <2>7 DEF Respond
      <3>2. \/ UNCHANGED <<time_known, time, time_at>>
            \/ time_known' = TRUE /\ time' = real /\ time_at' = mono
        <4> DEFINE Dates == {<<>>, <<real>>, <<real, real>>, <<-2, real>>, <<real, real + Step>>}
        <4>1. PICK dates \in Dates :
                IF RespDate(dates) >= 0 THEN SetTime(RespDate(dates))
                ELSE UNCHANGED <<time_known, time, time_at>>
          BY <2>7 DEF Respond
        <4>2. RespDate(dates) >= 0 => RespDate(dates) = real
          BY <4>1, RespDates DEF ClockTypeOK
        <4>3. CASE RespDate(dates) >= 0
          BY <4>1, <4>2, <4>3 DEF SetTime
        <4>4. CASE ~(RespDate(dates) >= 0)
          BY <4>1, <4>4
        <4> QED
          BY <4>3, <4>4
      <3>3. ~shake'[t].exact /\ \A u \in Tasks \ {t} : shake'[u] = shake[u]
        BY <3>1 DEF ClockTypeOK
      <3>4. time_known' \in BOOLEAN
        BY <3>2 DEF ClockTypeOK
      <3>5. ClockTypeOK'
        BY <3>1, <3>2, <3>4 DEF ClockTypeOK
      <3>6. CountInv'
        BY <1>0, <3>1, <3>2 DEF ClockTypeOK, CountInv, Slack
      <3>7. RefusalInv'
        BY <3>1, <3>2, <3>3 DEF ClockTypeOK, RefusalInv
      <3>8. QED
        BY <3>5, <3>6, <3>7
    <2>8. CASE UNCHANGED vars
      BY <2>8 DEF ClockTypeOK, CountInv, RefusalInv, Slack
    <2>9. QED
      BY <2>1, <2>2, <2>3, <2>4, <2>5, <2>6, <2>7, <2>8 DEF Next
  <1>3. QED
    BY <1>1, <1>2, PTL DEF Spec

\* Whatever responses say, however often the monotonic clock wraps, stops or restarts
\* and whenever the floor is saved: no time that ebisu_clock_get_time() gives, and none
\* that ebisu_clock_save() wrote, is later than it is, but for what 1% is of how long a
\* time is exact.
THEOREM LowerBoundCorrect == Spec => []LowerBound
  <1>1. ClockInv => LowerBound
    <2> SUFFICES ASSUME ClockInv PROVE LowerBound
      OBVIOUS
    <2> DEFINE flr == IF WentBack THEN MaxOf(floor, time) ELSE floor
    <2>1. flr \in Int /\ flr <= real + Slack
      BY ClockAssumption DEF ClockInv, ClockTypeOK, CountInv, WentBack, MaxOf, Slack
    <2>2. GetTime(flr).now <= real + Slack
      BY <2>1, Reads DEF ClockInv
    <2>3. QED
      BY <2>2 DEF LowerBound, ClockInv, CountInv
  <1>2. QED
    BY <1>1, ClockInvariance, PTL

\* A task whose handshake refused a certificate as not valid yet refuses it no second
\* time: the time that refused it is forgotten (ebisu_clock_forget_time()), and no later
\* one that is exact is before the certificate's.
THEOREM RefusedOnceCorrect == Spec => []RefusedOnce
  <1>1. ClockInv => RefusedOnce
    BY DEF ClockInv, RefusalInv, RefusedOnce
  <1>2. QED
    BY <1>1, ClockInvariance, PTL

-----------------------------------------------------------------------------
(* The updater of the state.                                               *)

\* Where an updater task is.
UpdaterStates == {"none", "ask", "delay", "size", "put", "size_again", "put_again", "exiting"}

UpdaterTypeOK ==
    /\ task_running \in BOOLEAN
    /\ starting \in UpdaterTasks \cup {"app", "none"}
    /\ task \in [UpdaterTasks -> [at : UpdaterStates, remain : Nat]]
    /\ read \in {"start", "read"}
    /\ waited \in Nat
    /\ puts \in Nat

\* Uses the updater's socket and buffer.
Live(t) == task[t].at \notin {"none", "exiting"}

\* One task, or one start of a task, at a time.
OneInv ==
    /\ \A t, u \in UpdaterTasks : Live(t) /\ Live(u) => t = u
    /\ \A t \in UpdaterTasks : Live(t) => starting = "none"
    /\ task_running => starting # "none" \/ \E t \in UpdaterTasks : Live(t)
    /\ ~task_running => starting = "none" /\ \A t \in UpdaterTasks : ~Live(t)

\* Where a task is says how long it has waited, and how often it has sent the state.
UploadInv ==
    /\ (\A t \in UpdaterTasks : ~Live(t)) => puts = 0
    /\ \A t \in UpdaterTasks :
        /\ task[t].at \in {"ask", "delay"} =>
            task[t].remain > 0 /\ waited + task[t].remain = Interval /\ puts = 0
        /\ task[t].at = "size" => waited = Interval /\ task[t].remain = Interval /\ puts = 0
        /\ task[t].at \in {"put", "size_again", "put_again"} =>
            waited = 0 /\ task[t].remain = Interval
        /\ task[t].at = "put" => puts = 0
        /\ task[t].at \in {"size_again", "put_again"} => puts = 1
        /\ task[t].at \in {"put", "put_again"} => read = "start"

UpdaterInv == UpdaterTypeOK /\ OneInv /\ UploadInv

\* task_running is set for as long as a task uses the updater's socket and buffer, or is
\* being started, and how far a task got says what it waited and sent.
THEOREM UpdaterInvariance == UpdaterSpec => []UpdaterInv
  <1> USE TioUpdaterAssumption DEF UpdaterStates, Live, Goes, updaterVars
  <1>1. UpdaterInit => UpdaterInv
    <2> SUFFICES ASSUME UpdaterInit PROVE UpdaterInv
      OBVIOUS
    <2>1. ~task_running /\ task_running \in BOOLEAN
      BY DEF UpdaterInit
    <2>2. \A t \in UpdaterTasks : task[t].at = "none"
      BY DEF UpdaterInit
    <2>3. UpdaterTypeOK
      BY <2>1 DEF UpdaterInit, UpdaterTypeOK
    <2>4. OneInv
      BY <2>1, <2>2 DEF UpdaterInit, OneInv
    <2>5. UploadInv
      BY <2>2 DEF UpdaterInit, UploadInv
    <2>6. QED
      BY <2>3, <2>4, <2>5 DEF UpdaterInv
  <1>2. UpdaterInv /\ [UpdaterNext]_updaterVars => UpdaterInv'
    <2> SUFFICES ASSUME UpdaterInv, [UpdaterNext]_updaterVars PROVE UpdaterInv'
      OBVIOUS
    <2> USE DEF UpdaterInv, UpdaterTypeOK, OneInv, UploadInv
    <2>1. ASSUME NEW by \in UpdaterTasks \cup {"app"}, UpdaterStart(by) PROVE UpdaterInv'
      BY <2>1 DEF UpdaterStart
    <2>2. CASE TaskNotCreated
      BY <2>2 DEF TaskNotCreated
    <2>3. ASSUME NEW t \in UpdaterTasks, TaskCreated(t) PROVE UpdaterInv'
      BY <2>3 DEF TaskCreated
    <2>4. ASSUME NEW t \in UpdaterTasks, Continues(t) PROVE UpdaterInv'
      BY <2>4 DEF Continues
    <2>5. ASSUME NEW t \in UpdaterTasks, Ends(t) PROVE UpdaterInv'
      <3>1. ~task_running' /\ task_running' \in BOOLEAN
        BY <2>5 DEF Ends
      <3>2. task' = [task EXCEPT ![t].at = "exiting"] /\ UNCHANGED <<starting, read, waited, puts>>
        BY <2>5 DEF Ends
      <3>3. \A u \in UpdaterTasks : ~Live(u)'
        BY <2>5, <3>2 DEF Ends
      <3>4. starting = "none" /\ puts = 0
        BY <2>5 DEF Ends
      <3>5. QED
        BY <3>1, <3>2, <3>3, <3>4
    <2>6. ASSUME NEW t \in UpdaterTasks, Exits(t) PROVE UpdaterInv'
      BY <2>6 DEF Exits
    <2>7. ASSUME NEW t \in UpdaterTasks, Delay(t) PROVE UpdaterInv'
      BY <2>7 DEF Delay
    <2>8. ASSUME NEW t \in UpdaterTasks, NEW size \in 0..1, AskSize(t, size) PROVE UpdaterInv'
      BY <2>8 DEF AskSize
    <2>9. ASSUME NEW t \in UpdaterTasks, NEW outcome \in {"ok", "refused", "failed", "unsent"},
                 PutState(t, outcome)
          PROVE  UpdaterInv'
      BY <2>9 DEF PutState, AfterRefusal
    <2>10. CASE UNCHANGED updaterVars
      BY <2>10
    <2>11. QED
      BY <2>1, <2>2, <2>3, <2>4, <2>5, <2>6, <2>7, <2>8, <2>9, <2>10 DEF UpdaterNext
  <1>3. QED
    BY <1>1, <1>2, PTL DEF UpdaterSpec

\* At most one task updates the state at a time, whoever starts one while another
\* exits, and task_running says if one does (tio_updater_start(), _task_exit()).
THEOREM OneUpdaterCorrect == UpdaterSpec => []OneUpdater
  <1>1. UpdaterInv => OneUpdater
    <2> SUFFICES ASSUME UpdaterInv PROVE OneUpdater
      OBVIOUS
    <2> DEFINE live == {t \in UpdaterTasks : task[t].at \notin {"none", "exiting"}}
    <2>1. CASE \E t \in UpdaterTasks : Live(t)
      <3>1. PICK t \in UpdaterTasks : Live(t)
        BY <2>1
      <3>2. live = {t}
        BY <3>1 DEF UpdaterInv, OneInv, Live
      <3>3. Cardinality(live) = 1
        BY <3>2, FS_Singleton
      <3>4. starting = "none" /\ task_running
        BY <3>1 DEF UpdaterInv, OneInv
      <3> QED
        BY <3>3, <3>4 DEF OneUpdater
    <2>2. CASE ~\E t \in UpdaterTasks : Live(t)
      <3>1. live = {}
        BY <2>2 DEF Live
      <3>2. Cardinality(live) = 0
        BY <3>1, FS_EmptySet
      <3>3. task_running <=> starting # "none"
        BY <2>2 DEF UpdaterInv, OneInv
      <3> QED
        BY <3>2, <3>3 DEF OneUpdater
    <2> QED BY <2>1, <2>2
  <1>2. QED
    BY <1>1, UpdaterInvariance, PTL

\* Each state is sent after a whole interval and from its beginning, twice at most, the
\* second time after the token was renewed (_update_state(), _upload_state()).
THEOREM UploadsCorrect == UpdaterSpec => []UploadsWhole
  <1>1. UpdaterInv => UploadsWhole
    BY DEF UpdaterInv, UpdaterTypeOK, UpdaterStates, OneInv, UploadInv, UploadsWhole, Live
  <1>2. QED
    BY <1>1, UpdaterInvariance, PTL

-----------------------------------------------------------------------------
(* JSON Lines, read at once.                                               *)

\* What the calls return.
Outcomes == {<<"TOO_LONG">>} \cup ({"RECORD", "TRUNCATED"} \X Seq(Bytes))
NothingRead == [line |-> <<>>, results |-> <<>>]

\* What the first n bytes of s come to, each.
Readings(size, s, n, f) ==
    f = [i \in 0 .. n |-> IF i = 0 THEN NothingRead ELSE AndByte(size, f[i - 1], s[i])]
Reading(size, s) == CHOOSE f : Readings(size, s, Len(s), f)

\* There is such a function.
LEMMA ReadingsExist ==
    ASSUME NEW size, NEW s, NEW n \in Nat
    PROVE  \E f : Readings(size, s, n, f)
  <1> DEFINE Bad == {m \in Nat : ~\E f : Readings(size, s, m, f)}
  <1>1. Bad = {}
    <2> SUFFICES ASSUME Bad # {} PROVE FALSE
      OBVIOUS
    <2>1. PICK m \in Bad : \A l \in Bad : m <= l
      <3>1. Bad \in SUBSET Nat
        OBVIOUS
      <3>2. QED
        BY <3>1, Least
    <2>2. m \in Nat /\ ~\E f : Readings(size, s, m, f)
      BY <2>1
    <2>3. m # 0
      <3>1. Readings(size, s, 0, [i \in 0 .. 0 |-> NothingRead])
        BY DEF Readings
      <3>2. QED
        BY <2>2, <3>1
    <2>4. PICK f : Readings(size, s, m - 1, f)
      BY <2>1, <2>2, <2>3
    <2> DEFINE last == AndByte(size, f[m - 1], s[m])
               g == [i \in 0 .. m |-> IF i = m THEN last ELSE f[i]]
    <2>5. f = [i \in 0 .. (m - 1) |->
                 IF i = 0 THEN NothingRead ELSE AndByte(size, f[i - 1], s[i])]
      BY <2>4 DEF Readings
    <2>6. ASSUME NEW i \in 0 .. m
          PROVE  g[i] = IF i = 0 THEN NothingRead ELSE AndByte(size, g[i - 1], s[i])
      <3>1. CASE i = m
        <4>1. g[i] = last
          BY <3>1
        <4>2. g[m - 1] = f[m - 1]
          BY <2>2, <2>3
        <4>3. QED
          BY <2>3, <3>1, <4>1, <4>2
      <3>2. CASE i # m
        <4>1. i \in 0 .. (m - 1) /\ g[i] = f[i]
          BY <2>2, <3>2
        <4>2. i # 0 => g[i - 1] = f[i - 1]
          BY <2>2, <3>2
        <4>3. f[i] = IF i = 0 THEN NothingRead ELSE AndByte(size, f[i - 1], s[i])
          BY <2>5, <4>1
        <4> HIDE DEF g
        <4>4. QED
          BY <4>1, <4>2, <4>3
      <3>3. QED
        BY <3>1, <3>2
    <2>7. g = [i \in 0 .. m |-> g[i]]
      OBVIOUS
    <2> HIDE DEF g
    <2>8. Readings(size, s, m, g)
      BY <2>6, <2>7 DEF Readings
    <2>9. QED
      BY <2>2, <2>8
  <1>2. QED
    BY <1>1

\* That is what ResultsOf() takes its results from.
LEMMA ReadingIs ==
    ASSUME NEW size, NEW S, NEW s \in Seq(S)
    PROVE  /\ Reading(size, s)[0] = NothingRead
           /\ \A i \in 1 .. Len(s) :
                Reading(size, s)[i] = AndByte(size, Reading(size, s)[i - 1], s[i])
           /\ ResultsOf(size, s) =
                Reading(size, s)[Len(s)].results
                    \o ResultOf(size, Reading(size, s)[Len(s)].line, "TRUNCATED")
  <1> DEFINE R == Reading(size, s)
             n == Len(s)
  <1>1. n \in Nat
    OBVIOUS
  <1>2. ResultsOf(size, s) = R[n].results \o ResultOf(size, R[n].line, "TRUNCATED")
    BY Zenon DEF ResultsOf, Reading, Readings, NothingRead
  <1>3. \E f : Readings(size, s, n, f)
    BY <1>1, ReadingsExist
  <1>4. Readings(size, s, n, R)
    <2> HIDE DEF n
    <2>1. QED
      BY <1>3, Zenon DEF Reading, n
  <1> HIDE DEF R, n
  <1>5. /\ R[0] = NothingRead
        /\ \A i \in 1 .. n : R[i] = AndByte(size, R[i - 1], s[i])
    BY <1>1, <1>4 DEF Readings
  <1>6. QED
    BY <1>2, <1>5 DEF R, n

\* Without the '\r' it is no longer.
LEMMA WithoutCRType ==
    ASSUME NEW S, NEW s \in Seq(S)
    PROVE  WithoutCR(s) \in Seq(S) /\ Len(WithoutCR(s)) <= Len(s)
  BY DEF WithoutCR, Front, Last

\* A line has one result at most.
LEMMA ResultOfType ==
    ASSUME NEW size, NEW line \in Seq(Bytes), NEW what \in {"RECORD", "TRUNCATED"}
    PROVE  ResultOf(size, line, what) \in Seq(Outcomes)
  <1>1. WithoutCR(line) \in Seq(Bytes)
    BY WithoutCRType
  <1>2. <<what, WithoutCR(line)>> \in Outcomes /\ <<"TOO_LONG">> \in Outcomes
    BY <1>1, Zenon DEF Outcomes
  <1>3. ASSUME NEW o \in Outcomes PROVE <<o>> \in Seq(Outcomes)
    OBVIOUS
  <1>4. <<>> \in Seq(Outcomes)
    OBVIOUS
  <1>5. <<<<what, WithoutCR(line)>>>> \in Seq(Outcomes)
    BY <1>2, <1>3, Zenon
  <1>6. <<<<"TOO_LONG">>>> \in Seq(Outcomes)
    BY <1>2, <1>3, Zenon
  <1>7. QED
    BY <1>4, <1>5, <1>6, Zenon DEF ResultOf

\* What was read is results and a line.
Texts == [line : Seq(Bytes), results : Seq(Outcomes)]

\* It stays so with a byte more, which takes no result back.
LEMMA AndByteType ==
    ASSUME NEW size, NEW text \in Texts, NEW byte \in Bytes
    PROVE  /\ AndByte(size, text, byte) \in Texts
           /\ Starts(text.results, AndByte(size, text, byte).results)
  <1> DEFINE more == ResultOf(size, text.line, "RECORD")
  <1>1. text.line \in Seq(Bytes) /\ text.results \in Seq(Outcomes)
    BY DEF Texts
  <1>2. more \in Seq(Outcomes)
    BY <1>1, ResultOfType
  <1> HIDE DEF more
  <1>3. text.results \o more \in Seq(Outcomes)
    BY <1>1, <1>2
  <1>4. Append(text.line, byte) \in Seq(Bytes) /\ <<>> \in Seq(Bytes)
    BY <1>1
  <1>5. Starts(text.results, text.results \o more)
    BY <1>1, <1>2, StartsJoined
  <1>6. Starts(text.results, text.results)
    BY <1>1, StartsItself
  <1>7. CASE byte = "LF"
    <2>1. AndByte(size, text, byte) = [line |-> <<>>, results |-> text.results \o more]
      BY <1>7, Zenon DEF AndByte, more
    <2>2. QED
      BY <1>3, <1>4, <1>5, <2>1 DEF Texts
  <1>8. CASE byte # "LF"
    <2>1. AndByte(size, text, byte)
            = [line |-> Append(text.line, byte), results |-> text.results]
      BY <1>8, Zenon DEF AndByte
    <2>2. QED
      BY <1>1, <1>4, <1>6, <2>1 DEF Texts
  <1>9. QED
    BY <1>7, <1>8

\* It is results and a line, of every prefix.
LEMMA ReadingType ==
    ASSUME NEW size, NEW s \in Seq(Bytes)
    PROVE  \A i \in 0 .. Len(s) : Reading(size, s)[i] \in Texts
  <1> DEFINE R == Reading(size, s)
             Bad == {i \in 0 .. Len(s) : R[i] \notin Texts}
  <1> SUFFICES ASSUME Bad # {} PROVE FALSE
    OBVIOUS
  <1>1. Len(s) \in Nat
    OBVIOUS
  <1>2. R[0] = NothingRead /\ \A i \in 1 .. Len(s) : R[i] = AndByte(size, R[i - 1], s[i])
    BY ReadingIs
  <1> HIDE DEF R
  <1>3. PICK m \in Bad : \A l \in Bad : m <= l
    <2>1. Bad \in SUBSET Nat
      BY <1>1
    <2>2. QED
      BY <2>1, Least
  <1>4. CASE m = 0
    <2>1. <<>> \in Seq(Bytes) /\ <<>> \in Seq(Outcomes)
      OBVIOUS
    <2>2. NothingRead \in Texts
      BY <2>1 DEF NothingRead, Texts
    <2>3. QED
      BY <1>2, <1>3, <1>4, <2>2
  <1>5. CASE m # 0
    <2>1. m \in 1 .. Len(s) /\ R[m - 1] \in Texts
      BY <1>1, <1>3, <1>5
    <2>2. s[m] \in Bytes
      BY <2>1
    <2>3. AndByte(size, R[m - 1], s[m]) \in Texts
      BY <2>1, <2>2, AndByteType
    <2>4. QED
      BY <1>2, <1>3, <2>1, <2>3
  <1>6. QED
    BY <1>4, <1>5

\* The results so far are the first of those of the whole.
LEMMA ReadingStarts ==
    ASSUME NEW size, NEW s \in Seq(Bytes), NEW m \in 0 .. Len(s)
    PROVE  IsPrefix(Reading(size, s)[m].results, ResultsOf(size, s))
  <1> DEFINE R == Reading(size, s)
             n == Len(s)
             last == ResultOf(size, R[n].line, "TRUNCATED")
             Bad == {i \in 0 .. n : i >= m /\ ~Starts(R[m].results, R[i].results)}
  <1>1. n \in Nat
    OBVIOUS
  <1>2. /\ \A i \in 1 .. n : R[i] = AndByte(size, R[i - 1], s[i])
        /\ ResultsOf(size, s) = R[n].results \o last
    BY ReadingIs
  <1>3. \A i \in 0 .. n : R[i] \in Texts
    BY ReadingType
  <1>4. \A i \in 1 .. n : s[i] \in Bytes
    OBVIOUS
  <1> HIDE DEF R, n
  <1>5. \A i \in 0 .. n : R[i].results \in Seq(Outcomes) /\ R[i].line \in Seq(Bytes)
    BY <1>3 DEF Texts
  <1>6. Bad = {}
    <2> SUFFICES ASSUME Bad # {} PROVE FALSE
      OBVIOUS
    <2>1. PICK i \in Bad : \A l \in Bad : i <= l
      <3>1. Bad \in SUBSET Nat
        BY <1>1
      <3>2. QED
        BY <3>1, Least
    <2>2. i # m
      <3>1. Starts(R[m].results, R[m].results)
        BY <1>5, StartsItself DEF n
      <3>2. QED
        BY <2>1, <3>1
    <2>3. i \in 1 .. n /\ i - 1 \in 0 .. n /\ i - 1 >= m /\ m \in 0 .. n
      BY <1>1, <2>1, <2>2 DEF n
    <2>4. Starts(R[m].results, R[i - 1].results)
      BY <1>1, <2>1, <2>3
    <2>5. Starts(R[i - 1].results, R[i].results)
      <3>1. R[i - 1] \in Texts /\ s[i] \in Bytes /\ R[i] = AndByte(size, R[i - 1], s[i])
        BY <1>2, <1>3, <1>4, <2>3
      <3>2. QED
        BY <3>1, AndByteType, Zenon
    <2>6. Starts(R[m].results, R[i].results)
      <3>1. /\ R[m].results \in Seq(Outcomes) /\ R[i].results \in Seq(Outcomes)
            /\ R[i - 1].results \in Seq(Outcomes)
        BY <1>5, <2>3
      <3>2. QED
        BY <2>4, <2>5, <3>1, StartsThrough, Zenon
    <2>7. QED
      BY <2>1, <2>6
  <1>7. Starts(R[m].results, R[n].results)
    BY <1>1, <1>6 DEF n
  <1>8. n \in 0 .. n /\ m \in 0 .. n
    BY <1>1 DEF n
  <1>9. R[m].results \in Seq(Outcomes) /\ R[n].results \in Seq(Outcomes) /\ R[n].line \in Seq(Bytes)
    BY <1>5, <1>8
  <1>10. last \in Seq(Outcomes)
    BY <1>9, ResultOfType
  <1> HIDE DEF last
  <1>11. Starts(R[n].results, R[n].results \o last)
    BY <1>9, <1>10, StartsJoined, Zenon
  <1>12. R[n].results \o last \in Seq(Outcomes)
    BY <1>9, <1>10
  <1>13. Starts(R[m].results, R[n].results \o last)
    BY <1>7, <1>9, <1>11, <1>12, StartsThrough, Zenon
  <1>14. IsPrefix(R[m].results, R[n].results \o last)
    BY <1>9, <1>12, <1>13, StartsIsPrefix, Zenon
  <1>15. QED
    BY <1>2, <1>14 DEF R

\* Bytes without the end of a line among them are part of the line.
LineGoesOn(text, onward, part) ==
    onward = [line |-> text.line \o part, results |-> text.results]

\* They go on it one by one.
LEMMA ReadingPart ==
    ASSUME NEW size, NEW s \in Seq(Bytes), NEW m \in Nat, NEW part \in Seq(Bytes),
           m + Len(part) <= Len(s),
           \A i \in 1 .. Len(part) : part[i] = s[m + i] /\ part[i] # "LF"
    PROVE  LineGoesOn(Reading(size, s)[m], Reading(size, s)[m + Len(part)], part)
  <1> DEFINE R == Reading(size, s)
             k == Len(part)
             Begun(i) == SubSeq(part, 1, i)
             Bad == {i \in 0 .. k : ~LineGoesOn(R[m], R[m + i], Begun(i))}
  <1>1. k \in Nat /\ Len(s) \in Nat /\ m + k <= Len(s)
    OBVIOUS
  <1>2. \A i \in 1 .. Len(s) : R[i] = AndByte(size, R[i - 1], s[i])
    BY ReadingIs
  <1>3. R[m] \in Texts
    BY <1>1, ReadingType
  <1> HIDE DEF R
  <1>4. R[m].line \in Seq(Bytes) /\ R[m] = [line |-> R[m].line, results |-> R[m].results]
    BY <1>3 DEF Texts
  <1>5. Bad = {}
    <2> SUFFICES ASSUME Bad # {} PROVE FALSE
      OBVIOUS
    <2>1. PICK i \in Bad : \A l \in Bad : i <= l
      <3>1. Bad \in SUBSET Nat
        BY <1>1
      <3>2. QED
        BY <3>1, Least
    <2>2. i # 0
      <3>1. Begun(0) = <<>>
        OBVIOUS
      <3>2. R[m].line \o <<>> = R[m].line
        BY <1>4
      <3>3. LineGoesOn(R[m], R[m + 0], Begun(0))
        <4>1. m + 0 = m
          OBVIOUS
        <4>2. QED
          BY <1>4, <3>1, <3>2, <4>1 DEF LineGoesOn
      <3>4. QED
        BY <2>1, <3>3
    <2>3. i \in 1 .. k /\ i - 1 \in 0 .. k /\ m + i - 1 = m + (i - 1)
      BY <1>1, <2>1, <2>2
    <2>4. LineGoesOn(R[m], R[m + (i - 1)], Begun(i - 1))
      BY <1>1, <2>1, <2>3
    <2>5. m + i \in 1 .. Len(s) /\ (m + i) - 1 = m + (i - 1) /\ s[m + i] = part[i]
      BY <1>1, <2>3
    <2>6. R[m + i] = AndByte(size, R[m + (i - 1)], part[i])
      BY <1>2, <2>5
    <2>7. part[i] # "LF"
      BY <2>3
    <2>8. R[m + i] = [line |-> Append(R[m].line \o Begun(i - 1), part[i]),
                      results |-> R[m].results]
      <3> DEFINE before == R[m].line \o Begun(i - 1)
      <3>1. R[m + (i - 1)] = [line |-> before, results |-> R[m].results]
        BY <2>4, Zenon DEF LineGoesOn
      <3> HIDE DEF before
      <3>2. R[m + (i - 1)].line = before /\ R[m + (i - 1)].results = R[m].results
        BY <3>1
      <3>3. R[m + i] = [line |-> Append(before, part[i]), results |-> R[m].results]
        BY <2>6, <2>7, <3>2, Zenon DEF AndByte
      <3>4. QED
        BY <3>3 DEF before
    <2>9. Append(R[m].line \o Begun(i - 1), part[i]) = R[m].line \o Begun(i)
      BY <1>4, <2>3, OneMoreJoined
    <2>10. LineGoesOn(R[m], R[m + i], Begun(i))
      BY <2>8, <2>9, Zenon DEF LineGoesOn
    <2>11. QED
      BY <2>1, <2>10
  <1>6. Begun(k) = part
    <2>1. Begun(k) \in Seq(Bytes) /\ Len(Begun(k)) = k /\ \A i \in 1 .. k : Begun(k)[i] = part[i]
      BY <1>1
    <2> HIDE DEF Begun
    <2>2. QED
      BY <2>1, SameElements DEF SameTo
  <1>7. LineGoesOn(R[m], R[m + k], Begun(k))
    <2>1. k \in Nat /\ k \in 0 .. k
      BY <1>1
    <2> HIDE DEF k, R, Begun
    <2>2. QED
      BY <1>5, <2>1
  <1>8. QED
    BY <1>6, <1>7 DEF R

\* Nothing comes of an empty line, and all that comes of the input are results.
LEMMA NothingInNothing == ASSUME NEW size, NEW what PROVE ResultOf(size, <<>>, what) = <<>>
  <1>1. DOMAIN <<>> = {}
    OBVIOUS
  <1>2. _blank(<<>>)
    BY <1>1, Zenon DEF _blank
  <1>3. QED
    BY <1>2, Zenon DEF ResultOf

\* All that comes of the input are results.
LEMMA ResultsType ==
    ASSUME NEW size, NEW s \in Seq(Bytes)
    PROVE  ResultsOf(size, s) \in Seq(Outcomes)
  <1> DEFINE R == Reading(size, s)
             n == Len(s)
             last == ResultOf(size, R[n].line, "TRUNCATED")
  <1>1. n \in 0 .. n
    OBVIOUS
  <1>2. R[n] \in Texts
    BY <1>1, ReadingType
  <1>3. ResultsOf(size, s) = R[n].results \o last
    BY ReadingIs
  <1> HIDE DEF R, n
  <1>4. R[n].line \in Seq(Bytes) /\ R[n].results \in Seq(Outcomes)
    BY <1>2 DEF Texts
  <1>5. last \in Seq(Outcomes)
    BY <1>4, ResultOfType
  <1> HIDE DEF last
  <1>6. R[n].results \o last \in Seq(Outcomes)
    BY <1>4, <1>5
  <1>7. QED
    BY <1>3, <1>6, Zenon

-----------------------------------------------------------------------------
(* JSON Lines, read as they come.                                          *)

Readers == [size : Nat, buff : Seq(Bytes), skipping : BOOLEAN, returned : BOOLEAN]

\* The reader when it has seen so much of a line: it holds that, or has found it too
\* long, or holds the record before still.
Holds(r, line) ==
    /\ r \in Readers
    /\ r.size > 0 => Len(r.buff) < r.size
    /\ r.returned => ~r.skipping /\ line = <<>>
    /\ ~r.returned /\ ~r.skipping => r.buff = line /\ (line = <<>> \/ Len(line) < r.size)
    /\ r.skipping => line # <<>> /\ Len(line) >= r.size

\* A record given out is dropped, and what is held is of the next line.
LEMMA DropHolds ==
    ASSUME NEW r, NEW line \in Seq(Bytes), Holds(r, line)
    PROVE  /\ Holds(_drop_returned(r), line)
           /\ ~_drop_returned(r).returned
           /\ _drop_returned(r).size = r.size
  <1>1. CASE r.returned
    <2>1. _drop_returned(r) = [r EXCEPT !.buff = <<>>, !.returned = FALSE]
      BY <1>1 DEF _drop_returned
    <2>2. <<>> \in Seq(Bytes) /\ Len(<<>>) = 0
      OBVIOUS
    <2>3. QED
      BY <1>1, <2>1, <2>2 DEF Holds, Readers
  <1>2. CASE ~r.returned
    BY <1>2 DEF _drop_returned, Holds
  <1>3. QED
    BY <1>1, <1>2

\* What is read more is held as well, if it fits.
LEMMA KeptHolds ==
    ASSUME NEW r, NEW line \in Seq(Bytes), NEW part \in Seq(Bytes), Holds(r, line), ~r.returned
    PROVE  /\ Holds(Kept(r, part), line \o part)
           /\ ~Kept(r, part).returned
           /\ Kept(r, part).size = r.size
  <1> DEFINE l == line \o part
  <1>1. l \in Seq(Bytes) /\ Len(l) = Len(line) + Len(part) /\ Len(line) \in Nat /\ Len(part) \in Nat
    OBVIOUS
  <1>2. part # <<>> => l # <<>>
    <2>1. part # <<>> => Len(part) > 0
      OBVIOUS
    <2> HIDE DEF l
    <2>2. Len(l) > 0 => l # <<>>
      OBVIOUS
    <2>3. QED
      BY <1>1, <2>1, <2>2
  <1>3. line # <<>> => l # <<>>
    <2>1. line # <<>> => Len(line) > 0
      OBVIOUS
    <2> HIDE DEF l
    <2>2. Len(l) > 0 => l # <<>>
      OBVIOUS
    <2>3. QED
      BY <1>1, <2>1, <2>2
  <1>4. part = <<>> => l = line
    OBVIOUS
  <1>5. line = <<>> => Len(line) = 0
    OBVIOUS
  <1>6. r \in Readers /\ r.size \in Nat
    BY DEF Holds, Readers
  <1>7. CASE r.skipping
    <2>1. Kept(r, part) = r
      BY <1>7 DEF Kept
    <2> HIDE DEF l
    <2>2. Holds(r, l)
      BY <1>1, <1>3, <1>6, <1>7 DEF Holds
    <2>3. QED
      BY <2>1, <2>2 DEF l
  <1>8. CASE ~r.skipping /\ part = <<>>
    BY <1>4, <1>8 DEF Kept
  <1>9. CASE ~r.skipping /\ part # <<>> /\ Len(part) > RoomLeft(r)
    <2>1. Kept(r, part) = [r EXCEPT !.skipping = TRUE, !.buff = <<>>]
      BY <1>9 DEF Kept
    <2>2. r.buff = line /\ Len(l) >= r.size
      BY <1>1, <1>5, <1>6, <1>9 DEF Holds, RoomLeft
    <2>3. <<>> \in Seq(Bytes) /\ Len(<<>>) = 0
      OBVIOUS
    <2> HIDE DEF l
    <2>4. Holds(Kept(r, part), l)
      BY <1>2, <1>6, <1>9, <2>1, <2>2, <2>3 DEF Holds, Readers
    <2>5. QED
      BY <1>6, <2>1, <2>4 DEF l, Readers
  <1>10. CASE ~r.skipping /\ part # <<>> /\ ~(Len(part) > RoomLeft(r))
    <2>1. r.buff = line
      BY <1>10 DEF Holds
    <2>2. Kept(r, part) = [r EXCEPT !.buff = l]
      BY <1>10, <2>1 DEF Kept
    <2>3. Len(part) > 0
      BY <1>10
    <2>4. r.size > 0 /\ Len(l) < r.size
      BY <1>1, <1>6, <1>10, <2>1, <2>3 DEF RoomLeft
    <2> HIDE DEF l
    <2>5. Holds(Kept(r, part), l)
      BY <1>1, <1>6, <1>10, <2>2, <2>4 DEF Holds, Readers
    <2>6. QED
      BY <1>6, <2>2, <2>5 DEF l, Readers
  <1>11. QED
    BY <1>7, <1>8, <1>9, <1>10

\* A '\r' at the end is blank itself.
LEMMA BlankWithoutCR ==
    ASSUME NEW s \in Seq(Bytes)
    PROVE  _blank(WithoutCR(s)) <=> _blank(s)
  <1> DEFINE Blank == {" ", "CR"}
             t == WithoutCR(s)
  <1>1. _blank(s) <=> \A i \in DOMAIN s : s[i] \in Blank
    BY Zenon DEF _blank
  <1>2. _blank(t) <=> \A i \in DOMAIN t : t[i] \in Blank
    BY Zenon DEF _blank
  <1>3. "CR" \in Blank
    BY Zenon
  <1> HIDE DEF Blank
  <1>4. CASE s # <<>> /\ Last(s) = "CR"
    <2>1. t = Front(s)
      BY <1>4 DEF WithoutCR
    <2>2. /\ Len(s) \in Nat /\ Len(s) > 0 /\ s[Len(s)] = "CR" /\ DOMAIN s = 1 .. Len(s)
          /\ DOMAIN t = 1 .. Len(s) - 1 /\ \A i \in 1 .. Len(s) - 1 : t[i] = s[i]
      BY <1>4, <2>1 DEF Front, Last
    <2> HIDE DEF t
    <2> DEFINE n == Len(s)
    <2>3. n \in Nat
      OBVIOUS
    <2> HIDE DEF n
    <2>4. /\ \A i \in 1 .. n : i = n \/ i \in 1 .. n - 1
          /\ \A i \in 1 .. n - 1 : i \in 1 .. n
      BY <2>3
    <2>5. QED
      BY <1>1, <1>2, <1>3, <2>2, <2>4 DEF t, n
  <1>5. CASE ~(s # <<>> /\ Last(s) = "CR")
    <2>1. t = s
      BY <1>5 DEF WithoutCR
    <2>2. QED
      BY <2>1
  <1>6. QED
    BY <1>4, <1>5

\* The end of a line gives its result, and nothing is held of the next.
LEMMA ResultHolds ==
    ASSUME NEW r, NEW line \in Seq(Bytes), NEW what \in {"RECORD", "TRUNCATED"},
           Holds(r, line), ~r.returned, results \in Seq(Outcomes), LineResult(r, what)
    PROVE  /\ Holds(reader', <<>>) /\ reader'.size = r.size
           /\ results' = results \o ResultOf(r.size, line, what)
  <1>1. r \in Readers
    BY DEF Holds
  <1>2. <<>> \in Seq(Bytes) /\ Len(<<>>) = 0
    OBVIOUS
  <1>3. CASE r.skipping
    <2>1. reader' = [r EXCEPT !.skipping = FALSE, !.buff = <<>>]
          /\ results' = Append(results, <<"TOO_LONG">>)
      BY <1>3 DEF LineResult
    <2>2. ResultOf(r.size, line, what) = <<<<"TOO_LONG">>>>
      BY <1>3, Zenon DEF Holds, ResultOf
    <2>3. Append(results, <<"TOO_LONG">>) = results \o <<<<"TOO_LONG">>>>
      <3>1. <<"TOO_LONG">> \in Outcomes
        BY Zenon DEF Outcomes
      <3> DEFINE o == <<"TOO_LONG">>
      <3> HIDE DEF o
      <3>2. QED
        BY <3>1, AppendIs DEF o
    <2>4. Holds(reader', <<>>) /\ reader'.size = r.size
      BY <1>1, <1>2, <1>3, <2>1 DEF Holds, Readers
    <2>5. QED
      BY <2>1, <2>2, <2>3, <2>4, Zenon
  <1>4. CASE ~r.skipping
    <2>1. /\ reader' = Taken(r)
          /\ results' = IF Taken(r).returned
                        THEN Append(results, <<what, WithoutCR(r.buff)>>) ELSE results
      BY <1>4, Zenon DEF LineResult
    <2>2. r.buff = line /\ (line = <<>> \/ Len(line) < r.size) /\ r.size \in Nat
      BY <1>1, <1>4 DEF Holds, Readers
    <2>3. ~(line # <<>> /\ Len(line) >= r.size)
      <3>1. Len(line) \in Nat
        OBVIOUS
      <3>2. QED
        BY <2>2, <3>1
    <2>4. _blank(WithoutCR(line)) <=> _blank(line)
      BY BlankWithoutCR
    <2>5. CASE _blank(line)
      <3>1. Taken(r) = [r EXCEPT !.buff = <<>>]
        BY <2>2, <2>4, <2>5, Zenon DEF Taken
      <3>2. Holds(Taken(r), <<>>) /\ Taken(r).size = r.size /\ ~Taken(r).returned
        BY <1>1, <1>2, <1>4, <3>1 DEF Holds, Readers
      <3>3. ResultOf(r.size, line, what) = <<>>
        BY <2>3, <2>5, Zenon DEF ResultOf
      <3>4. results \o <<>> = results
        OBVIOUS
      <3>5. QED
        BY <2>1, <3>2, <3>3, <3>4, Zenon
    <2>6. CASE ~_blank(line)
      <3> DEFINE l == WithoutCR(line)
                 o == <<what, l>>
      <3>1. Taken(r) = [r EXCEPT !.buff = l, !.returned = TRUE]
        BY <2>2, <2>4, <2>6, Zenon DEF Taken
      <3>2. l \in Seq(Bytes) /\ Len(l) <= Len(line) /\ Len(l) \in Nat /\ Len(line) \in Nat
        BY WithoutCRType
      <3>3. line # <<>>
        <4>1. _blank(<<>>)
          <5>1. DOMAIN <<>> = {}
            OBVIOUS
          <5>2. QED
            BY <5>1, Zenon DEF _blank
        <4>2. QED
          BY <2>6, <4>1
      <3>4. o \in Outcomes
        BY <3>2, Zenon DEF Outcomes
      <3>5. ResultOf(r.size, line, what) = <<o>>
        BY <2>3, <2>6, Zenon DEF ResultOf
      <3> HIDE DEF l
      <3>6. Holds(Taken(r), <<>>) /\ Taken(r).size = r.size /\ Taken(r).returned
        <4>1. Len(l) < r.size
          BY <2>2, <3>2, <3>3
        <4>2. QED
          BY <1>1, <1>4, <3>1, <3>2, <4>1 DEF Holds, Readers
      <3>7. results' = Append(results, o)
        BY <2>1, <2>2, <3>6, Zenon DEF l
      <3> HIDE DEF o
      <3>8. Append(results, o) = results \o <<o>>
        BY <3>4, AppendIs
      <3>9. QED
        BY <2>1, <3>5, <3>6, <3>7, <3>8, Zenon
    <2>7. QED
      BY <2>5, <2>6
  <1>5. QED
    BY <1>3, <1>4

-----------------------------------------------------------------------------
(* The invariant.                                                          *)

\* m bytes of the input have been read, and piece and rest are those after them.
ReadTo(m, p, r, whole) ==
    /\ m + Len(p) + Len(r) = Len(whole)
    /\ \A i \in 1 .. Len(p) : p[i] = whole[m + i]
    /\ \A i \in 1 .. Len(r) : r[i] = whole[m + Len(p) + i]

\* The results so far, and what the reader holds, are what those bytes come to.
AsRead(m, r, whole, given) ==
    /\ Holds(r, Reading(r.size, whole)[m].line)
    /\ given = Reading(r.size, whole)[m].results

\* Until the last call of jkii_lines_finish() that gave anything.
LinesInv ==
    /\ input \in Seq(Bytes) /\ piece \in Seq(Bytes) /\ rest \in Seq(Bytes)
    /\ \/ \E m \in Nat : ReadTo(m, piece, rest, input) /\ AsRead(m, reader, input, results)
       \/ /\ piece = <<>> /\ rest = <<>>
          /\ Holds(reader, <<>>) /\ results = ResultsOf(reader.size, input)

\* Nothing is read, and each step keeps to what was.
LEMMA LinesStart == ASSUME LinesInit PROVE LinesInv
  <1>1. PICK size \in LineBuffs :
            reader = [size |-> size, buff |-> <<>>, skipping |-> FALSE, returned |-> FALSE]
    BY DEF LinesInit
  <1>2. size \in Nat
    BY JsonLinesAssumption
  <1>3. input \in Seq(Bytes)
    <2>1. \A S, n : BoundedSeq(S, n) \subseteq Seq(S)
      BY DEF BoundedSeq, SeqOf
    <2>2. QED
      BY <2>1, Zenon DEF LinesInit
  <1>4. rest = input /\ piece = <<>> /\ results = <<>>
    BY DEF LinesInit
  <1>5. <<>> \in Seq(Bytes) /\ Len(<<>>) = 0
    OBVIOUS
  <1>6. Reading(reader.size, input)[0] = NothingRead
    BY <1>3, ReadingIs
  <1>7. Holds(reader, <<>>) /\ reader.size = size
    BY <1>1, <1>2, <1>5 DEF Holds, Readers
  <1>8. AsRead(0, reader, input, results)
    BY <1>4, <1>6, <1>7 DEF AsRead, NothingRead
  <1>9. ReadTo(0, piece, rest, input)
    <2>1. Len(input) \in Nat
      BY <1>3
    <2>2. QED
      BY <1>4, <1>5, <2>1 DEF ReadTo
  <1>10. QED
    BY <1>3, <1>4, <1>5, <1>8, <1>9 DEF LinesInv

\* More of the input is read: what was come to is the same.
LEMMA LinesReadKeeps == ASSUME LinesInv, LinesRead PROVE LinesInv'
  <1>1. piece = <<>> /\ reader' = reader /\ input' = input /\ results' = results
    BY DEF LinesRead
  <1>2. PICK n \in 1 .. Len(rest) :
            piece' = SubSeq(rest, 1, n) /\ rest' = SubSeq(rest, n + 1, Len(rest))
    BY DEF LinesRead
  <1>3. input \in Seq(Bytes) /\ rest \in Seq(Bytes) /\ Len(rest) \in Nat /\ Len(input) \in Nat
    BY DEF LinesInv
  <1>4. rest # <<>>
    BY <1>2
  <1>5. PICK m \in Nat : ReadTo(m, piece, rest, input) /\ AsRead(m, reader, input, results)
    BY <1>4 DEF LinesInv
  <1>6. /\ piece' \in Seq(Bytes) /\ Len(piece') = n
        /\ \A i \in 1 .. n : piece'[i] = rest[i]
    BY <1>2, <1>3
  <1>7. /\ rest' \in Seq(Bytes) /\ Len(rest') = Len(rest) - n
        /\ \A i \in 1 .. Len(rest) - n : rest'[i] = rest[n + i]
    BY <1>2, <1>3
  <1>8. Len(piece) = 0
    BY <1>1
  <1>9. ReadTo(m, piece', rest', input)
    <2>1. m + Len(rest) = Len(input) /\ \A i \in 1 .. Len(rest) : rest[i] = input[m + i]
      BY <1>3, <1>5, <1>8 DEF ReadTo
    <2>2. ASSUME NEW i \in 1 .. Len(rest') PROVE rest'[i] = input[m + n + i]
      <3>1. n + i \in 1 .. Len(rest) /\ i \in 1 .. Len(rest) - n /\ m + (n + i) = m + n + i
        BY <1>3, <1>7
      <3>2. QED
        BY <1>7, <2>1, <3>1
    <2>3. ASSUME NEW i \in 1 .. n PROVE piece'[i] = input[m + i]
      <3>1. i \in 1 .. Len(rest)
        BY <1>3
      <3>2. QED
        BY <1>6, <2>1, <3>1
    <2>4. m + n + Len(rest') = Len(input)
      <3>1. Len(rest') = Len(rest) - n /\ n \in Nat
        BY <1>3, <1>7
      <3>2. QED
        BY <1>3, <2>1, <3>1, SMTT(30)
    <2>5. QED
      BY <1>6, <2>2, <2>3, <2>4 DEF ReadTo
  <1>10. AsRead(m, reader', input', results')
    BY <1>1, <1>5
  <1>11. QED
    BY <1>1, <1>3, <1>6, <1>7, <1>9, <1>10 DEF LinesInv

\* The start of a line, or all of it up to its end.
LEMMA PartRead ==
    ASSUME NEW m \in Nat, input \in Seq(Bytes), piece \in Seq(Bytes), rest \in Seq(Bytes),
           ReadTo(m, piece, rest, input), AsRead(m, reader, input, results),
           NEW part \in Seq(Bytes), Len(part) <= Len(piece),
           \A i \in 1 .. Len(part) : part[i] = piece[i] /\ part[i] # "LF"
    PROVE  LET r == Kept(_drop_returned(reader), part)
           IN  /\ AsRead(m + Len(part), r, input, results)
               /\ ~r.returned /\ r.size = reader.size
               /\ m + Len(part) <= Len(input)
  <1> DEFINE k == Len(part)
             R == Reading(reader.size, input)
             d == _drop_returned(reader)
             e == Kept(d, part)
  <1>1. k \in Nat /\ Len(piece) \in Nat /\ Len(rest) \in Nat /\ Len(input) \in Nat
    OBVIOUS
  <1>2. m + Len(piece) + Len(rest) = Len(input) /\ m + k <= Len(input) /\ m \in 0 .. Len(input)
    BY <1>1 DEF ReadTo
  <1>3. \A i \in 1 .. k : part[i] = input[m + i] /\ part[i] # "LF"
    BY <1>1 DEF ReadTo
  <1>4. LineGoesOn(R[m], R[m + k], part)
    BY <1>2, <1>3, ReadingPart
  <1>5. R[m] \in Texts
    BY <1>2, ReadingType
  <1> HIDE DEF R
  <1>6. R[m].line \in Seq(Bytes)
    BY <1>5 DEF Texts
  <1>7. Holds(reader, R[m].line) /\ results = R[m].results
    BY DEF AsRead, R
  <1>8. Holds(d, R[m].line) /\ ~d.returned /\ d.size = reader.size
    BY <1>6, <1>7, DropHolds
  <1> HIDE DEF d
  <1>9. Holds(e, R[m].line \o part) /\ ~e.returned /\ e.size = d.size
    BY <1>6, <1>8, KeptHolds
  <1>10. R[m + k].line = R[m].line \o part /\ R[m + k].results = R[m].results
    <2> DEFINE l == R[m].line \o part
    <2>1. R[m + k] = [line |-> l, results |-> R[m].results]
      BY <1>4, Zenon DEF LineGoesOn
    <2> HIDE DEF l
    <2>2. R[m + k].line = l /\ R[m + k].results = R[m].results
      BY <2>1
    <2>3. QED
      BY <2>2 DEF l
  <1> HIDE DEF e
  <1>11. AsRead(m + k, e, input, results)
    BY <1>7, <1>8, <1>9, <1>10, Zenon DEF AsRead, R
  <1>12. QED
    BY <1>2, <1>8, <1>9, <1>11 DEF d, e

\* A piece without the end of a line is held of the line.
LEMMA LinesFeedPartKeeps == ASSUME LinesInv, LinesFeedPart PROVE LinesInv'
  <1>1. /\ piece # <<>> /\ \A i \in DOMAIN piece : piece[i] # "LF"
        /\ reader' = Kept(_drop_returned(reader), piece)
        /\ piece' = <<>> /\ rest' = rest /\ input' = input /\ results' = results
    BY DEF LinesFeedPart
  <1>2. input \in Seq(Bytes) /\ piece \in Seq(Bytes) /\ rest \in Seq(Bytes)
    BY DEF LinesInv
  <1>3. PICK m \in Nat : ReadTo(m, piece, rest, input) /\ AsRead(m, reader, input, results)
    BY <1>1 DEF LinesInv
  <1>4. \A i \in 1 .. Len(piece) : piece[i] = piece[i] /\ piece[i] # "LF"
    BY <1>1, <1>2
  <1>5. AsRead(m + Len(piece), reader', input, results)
    <2>1. Len(piece) <= Len(piece)
      BY <1>2
    <2>2. QED
      BY <1>1, <1>2, <1>3, <1>4, <2>1, PartRead
  <1>6. <<>> \in Seq(Bytes) /\ Len(<<>>) = 0
    OBVIOUS
  <1>7. ReadTo(m + Len(piece), <<>>, rest, input)
    <2>1. Len(piece) \in Nat /\ Len(rest) \in Nat /\ Len(input) \in Nat
      BY <1>2
    <2>2. QED
      BY <1>3, <1>6, <2>1 DEF ReadTo
  <1>8. m + Len(piece) \in Nat
    BY <1>2
  <1>9. QED
    BY <1>1, <1>2, <1>5, <1>6, <1>7, <1>8 DEF LinesInv

\* A line that ends gives its result.
LEMMA LinesFeedLineKeeps == ASSUME LinesInv, LinesFeedLine PROVE LinesInv'
  <1>1. PICK n \in DOMAIN piece :
            /\ piece[n] = "LF" /\ \A i \in 1 .. (n - 1) : piece[i] # "LF"
            /\ LineResult(Kept(_drop_returned(reader), SubSeq(piece, 1, n - 1)), "RECORD")
            /\ piece' = SubSeq(piece, n + 1, Len(piece))
            /\ rest' = rest /\ input' = input
    BY DEF LinesFeedLine
  <1>2. input \in Seq(Bytes) /\ piece \in Seq(Bytes) /\ rest \in Seq(Bytes)
    BY DEF LinesInv
  <1>3. /\ Len(piece) \in Nat /\ Len(rest) \in Nat /\ Len(input) \in Nat
        /\ n \in 1 .. Len(piece) /\ n - 1 \in 0 .. Len(piece)
    BY <1>2
  <1>4. PICK m \in Nat : ReadTo(m, piece, rest, input) /\ AsRead(m, reader, input, results)
    <2>1. piece # <<>>
      BY <1>3
    <2>2. QED
      BY <2>1 DEF LinesInv
  <1> DEFINE part == SubSeq(piece, 1, n - 1)
             e == Kept(_drop_returned(reader), part)
             R == Reading(reader.size, input)
             k == m + (n - 1)
  <1>5. /\ part \in Seq(Bytes) /\ Len(part) = n - 1
        /\ \A i \in 1 .. n - 1 : part[i] = piece[i]
    BY <1>2, <1>3, FirstPartType
  <1> HIDE DEF part
  <1>6. AsRead(k, e, input, results) /\ ~e.returned /\ e.size = reader.size /\ k <= Len(input)
    <2>1. \A i \in 1 .. Len(part) : part[i] = piece[i] /\ part[i] # "LF"
      BY <1>1, <1>5
    <2>2. Len(part) <= Len(piece)
      BY <1>3, <1>5
    <2>3. QED
      BY <1>2, <1>4, <1>5, <2>1, <2>2, PartRead
  <1>7. LineResult(e, "RECORD")
    BY <1>1 DEF part
  <1> HIDE DEF e
  <1>8. Holds(e, R[k].line) /\ results = R[k].results
    BY <1>6, Zenon DEF AsRead
  <1>9. /\ R[k] \in Texts
        /\ k + 1 \in 1 .. Len(input) /\ (k + 1) - 1 = k /\ k + 1 = m + n /\ k \in 0 .. Len(input)
        /\ input[k + 1] = "LF"
    <2>1. k + 1 = m + n /\ (k + 1) - 1 = k /\ k \in 0 .. Len(input)
      BY <1>3, <1>6
    <2>2. m + Len(piece) + Len(rest) = Len(input) /\ input[m + n] = piece[n]
      BY <1>3, <1>4 DEF ReadTo
    <2>3. k + 1 \in 1 .. Len(input)
      BY <1>3, <2>2, SMTT(30)
    <2>4. R[k] \in Texts
      BY <1>2, <2>1, ReadingType
    <2>5. QED
      BY <1>1, <2>1, <2>2, <2>3, <2>4
  <1>10. R[k + 1] = AndByte(reader.size, R[(k + 1) - 1], input[k + 1])
    BY <1>2, <1>9, ReadingIs, ZenonT(30)
  <1> HIDE DEF R, k
  <1>11. R[k].line \in Seq(Bytes) /\ results \in Seq(Outcomes)
    BY <1>8, <1>9 DEF Texts
  <1>12. /\ Holds(reader', <<>>) /\ reader'.size = e.size
         /\ results' = results \o ResultOf(e.size, R[k].line, "RECORD")
    BY <1>6, <1>7, <1>8, <1>11, ResultHolds
  <1> DEFINE more == ResultOf(reader.size, R[k].line, "RECORD")
  <1>13. R[k + 1] = [line |-> <<>>, results |-> R[k].results \o more]
    BY <1>9, <1>10, Zenon DEF AndByte
  <1>14. results' = R[k].results \o more /\ reader'.size = reader.size
    BY <1>6, <1>8, <1>12, Zenon
  <1> HIDE DEF more
  <1>15. R[k + 1].line = <<>> /\ R[k + 1].results = R[k].results \o more
    <2> DEFINE all == R[k].results \o more
    <2>1. R[k + 1] = [line |-> <<>>, results |-> all]
      BY <1>13
    <2> HIDE DEF all
    <2>2. R[k + 1].line = <<>> /\ R[k + 1].results = all
      BY <2>1
    <2>3. QED
      BY <2>2 DEF all
  <1>16. AsRead(k + 1, reader', input', results')
    BY <1>1, <1>12, <1>14, <1>15, Zenon DEF AsRead, R
  <1>17. /\ piece' \in Seq(Bytes) /\ Len(piece') = Len(piece) - n
         /\ \A i \in 1 .. Len(piece) - n : piece'[i] = piece[n + i]
    BY <1>1, <1>2, <1>3, SMTT(30)
  <1>18. ReadTo(m + n, piece', rest, input)
    <2>1. /\ m + Len(piece) + Len(rest) = Len(input)
          /\ \A i \in 1 .. Len(piece) : piece[i] = input[m + i]
          /\ \A i \in 1 .. Len(rest) : rest[i] = input[m + Len(piece) + i]
      BY <1>4 DEF ReadTo
    <2>2. ASSUME NEW i \in 1 .. Len(piece') PROVE piece'[i] = input[m + n + i]
      <3>1. n + i \in 1 .. Len(piece) /\ i \in 1 .. Len(piece) - n /\ m + (n + i) = m + n + i
        BY <1>3, <1>17, SMTT(30)
      <3>2. QED
        BY <1>17, <2>1, <3>1
    <2>3. m + n + Len(piece') = m + Len(piece)
      BY <1>3, <1>17
    <2>4. QED
      BY <2>1, <2>2, <2>3 DEF ReadTo
  <1>19. m + n \in Nat
    BY <1>3
  <1>20. QED
    BY <1>1, <1>2, <1>9, <1>16, <1>17, <1>18, <1>19 DEF LinesInv

\* The end of the input gives the last line's result, and no other after it.
LEMMA LinesFinishKeeps == ASSUME LinesInv, LinesFinish PROVE LinesInv'
  <1>1. /\ piece = <<>> /\ rest = <<>>
        /\ LineResult(_drop_returned(reader), "TRUNCATED")
        /\ piece' = piece /\ rest' = rest /\ input' = input
    BY DEF LinesFinish
  <1>2. input \in Seq(Bytes) /\ <<>> \in Seq(Bytes) /\ Len(<<>>) = 0 /\ Len(input) \in Nat
    BY DEF LinesInv
  <1> DEFINE d == _drop_returned(reader)
             R == Reading(reader.size, input)
             n == Len(input)
  <1> SUFFICES Holds(reader', <<>>) /\ results' = ResultsOf(reader'.size, input)
    BY <1>1, <1>2 DEF LinesInv
  <1>3. CASE \E m \in Nat : ReadTo(m, piece, rest, input) /\ AsRead(m, reader, input, results)
    <2>1. PICK m \in Nat : ReadTo(m, piece, rest, input) /\ AsRead(m, reader, input, results)
      BY <1>3
    <2>2. m = n
      BY <1>1, <1>2, <2>1 DEF ReadTo
    <2>3. Holds(reader, R[n].line) /\ results = R[n].results
      BY <2>1, <2>2, Zenon DEF AsRead
    <2>4. R[n] \in Texts
      BY <1>2, ReadingType
    <2>5. ResultsOf(reader.size, input)
            = R[n].results \o ResultOf(reader.size, R[n].line, "TRUNCATED")
      BY <1>2, ReadingIs
    <2> HIDE DEF R, n
    <2>6. R[n].line \in Seq(Bytes) /\ results \in Seq(Outcomes)
      BY <2>3, <2>4 DEF Texts
    <2>7. Holds(d, R[n].line) /\ ~d.returned /\ d.size = reader.size
      BY <2>3, <2>6, DropHolds
    <2>8. LineResult(d, "TRUNCATED")
      BY <1>1
    <2> HIDE DEF d
    <2>9. /\ Holds(reader', <<>>) /\ reader'.size = d.size
          /\ results' = results \o ResultOf(d.size, R[n].line, "TRUNCATED")
      BY <2>6, <2>7, <2>8, ResultHolds
    <2>10. QED
      BY <2>3, <2>5, <2>7, <2>9, Zenon
  <1>4. CASE Holds(reader, <<>>) /\ results = ResultsOf(reader.size, input)
    <2>1. Holds(d, <<>>) /\ ~d.returned /\ d.size = reader.size
      BY <1>2, <1>4, DropHolds
    <2>2. LineResult(d, "TRUNCATED")
      BY <1>1
    <2>3. results \in Seq(Outcomes)
      BY <1>2, <1>4, ResultsType
    <2> HIDE DEF d
    <2>4. /\ Holds(reader', <<>>) /\ reader'.size = d.size
          /\ results' = results \o ResultOf(d.size, <<>>, "TRUNCATED")
      BY <1>2, <2>1, <2>2, <2>3, ResultHolds
    <2>5. ResultOf(d.size, <<>>, "TRUNCATED") = <<>>
      BY NothingInNothing
    <2>6. results \o <<>> = results
      BY <2>3
    <2>7. QED
      BY <1>4, <2>1, <2>4, <2>5, <2>6, Zenon
  <1>5. QED
    BY <1>3, <1>4 DEF LinesInv

\* However jkii_lines_feed() is given the input, it has come to what is read at once of
\* as many bytes.
THEOREM LinesInvariance == LinesSpec => []LinesInv
  <1>1. LinesInv /\ [LinesNext]_linesVars => LinesInv'
    <2> SUFFICES ASSUME LinesInv, [LinesNext]_linesVars PROVE LinesInv'
      OBVIOUS
    <2>1. CASE LinesRead
      BY <2>1, LinesReadKeeps
    <2>2. CASE LinesFeedLine
      BY <2>2, LinesFeedLineKeeps
    <2>3. CASE LinesFeedPart
      BY <2>3, LinesFeedPartKeeps
    <2>4. CASE LinesFinish
      BY <2>4, LinesFinishKeeps
    <2>5. CASE UNCHANGED linesVars
      BY <2>5 DEF LinesInv, linesVars
    <2>6. QED
      BY <2>1, <2>2, <2>3, <2>4, <2>5 DEF LinesNext
  <1>2. QED
    BY <1>1, LinesStart, PTL DEF LinesSpec

\* The records that jkii_lines_feed() and jkii_lines_finish() give are those of the lines
\* of the input: each once, in order, whole, and none of a line that doesn't fit.
THEOREM RecordsCorrect == LinesSpec => []RecordsAreLines
  <1>1. LinesInv => RecordsAreLines
    <2> SUFFICES ASSUME LinesInv PROVE RecordsAreLines
      OBVIOUS
    <2> DEFINE R == Reading(reader.size, input)
               n == Len(input)
               all == ResultsOf(reader.size, input)
    <2>1. input \in Seq(Bytes) /\ n \in Nat
      BY DEF LinesInv
    <2>2. all \in Seq(Outcomes)
      BY <2>1, ResultsType
    <2>3. CASE \E m \in Nat : ReadTo(m, piece, rest, input) /\ AsRead(m, reader, input, results)
      <3>1. PICK m \in Nat : ReadTo(m, piece, rest, input) /\ AsRead(m, reader, input, results)
        BY <2>3
      <3>2. m \in 0 .. n
        <4>1. Len(piece) \in Nat /\ Len(rest) \in Nat
          BY DEF LinesInv
        <4>2. QED
          BY <2>1, <3>1, <4>1 DEF ReadTo
      <3>3. Holds(reader, R[m].line) /\ results = R[m].results
        BY <3>1, Zenon DEF AsRead
      <3>4. IsPrefix(results, all)
        BY <2>1, <3>2, <3>3, ReadingStarts
      <3>5. reader.size > 0 => Len(reader.buff) < reader.size
        BY <3>3 DEF Holds
      <3>6. ASSUME rest = <<>>, piece = <<>>, reader.buff = <<>> \/ reader.returned,
                   ~reader.skipping
            PROVE  results = all
        <4>1. m = n
          BY <2>1, <3>1, <3>6 DEF ReadTo
        <4>2. R[m].line = <<>>
          BY <3>3, <3>6 DEF Holds
        <4>3. all = R[n].results \o ResultOf(reader.size, R[n].line, "TRUNCATED")
          BY <2>1, ReadingIs
        <4>4. R[n] \in Texts
          BY <2>1, ReadingType
        <4> HIDE DEF R, n
        <4>5. R[n].results \in Seq(Outcomes)
          BY <4>4 DEF Texts
        <4>6. ResultOf(reader.size, R[n].line, "TRUNCATED") = <<>>
          BY <4>1, <4>2, NothingInNothing
        <4>7. R[n].results \o <<>> = R[n].results
          BY <4>5
        <4>8. QED
          BY <3>3, <4>1, <4>3, <4>6, <4>7, Zenon
      <3>7. QED
        BY <3>4, <3>5, <3>6 DEF RecordsAreLines
    <2>4. CASE Holds(reader, <<>>) /\ results = all
      <3>1. IsPrefix(all, all)
        BY <2>2, StartsItself, StartsIsPrefix, Zenon
      <3>2. reader.size > 0 => Len(reader.buff) < reader.size
        BY <2>4 DEF Holds
      <3>3. QED
        BY <2>4, <3>1, <3>2, Zenon DEF RecordsAreLines
    <2>5. QED
      BY <2>3, <2>4 DEF LinesInv
  <1>2. QED
    BY <1>1, LinesInvariance, PTL

-----------------------------------------------------------------------------
(* A field.                                                                *)

\* What a value is to a field.
LEMMA TypeOfValue ==
    ASSUME NEW v, IsValue(v)
    PROVE  LET type == _jkii_to_jkii_field_type(v)
           IN  /\ type \in FieldTypes
               /\ type \in Integral <=> v.type = "NUMBER" /\ v.integer
               /\ type \in {"ANY", "DOUBLE"} => v.type = "NUMBER" /\ ~v.integer
               /\ type \notin Integral \cup {"ANY", "DOUBLE"} => type = v.type
  BY DEF _jkii_to_jkii_field_type, _jkii_integer_type, IsValue, FieldTypes, Integral, Containers

\* The field that comes of a value is the same field, and what it says of the value is right.
Becomes(f, g, v) ==
    /\ IsField(g) /\ g.path = f.path
    /\ ResultIsRight(g, <<v>>)
    /\ g.result = "OK" => f.type \in {"ANY", g.type}

With(f, type, result, copy, string) ==
    [f EXCEPT !.type = type, !.result = result, !.copy = copy, !.string = string]

LEMMA IntegerBecomes ==
    ASSUME NEW f, IsField(f), NEW v, IsValue(v), v.type = "NUMBER", v.integer,
           NEW type \in Integral, f.type \in {"ANY", type},
           NEW number, number = IF type = "INTEGER" THEN _jkii_narrow_to_int32(_jkii_to_int64(v.n))
                                ELSE _jkii_to_int64(v.n)
    PROVE  Becomes(f, With(f, type, number.res, number.value, AfterNumber(f, number.value)), v)
  <1> DEFINE string == AfterNumber(f, number.value)
             g == With(f, type, number.res, number.value, string)
             long == _jkii_to_int64(v.n)
  <1>1. v.n \in Int /\ Int32Max \in Nat /\ Int64Max \in Nat /\ Int32Max < Int64Max
    BY JsonAssumption DEF IsValue
  <1>2. /\ long.value \in Int
        /\ \/ long.res = "OK" /\ long.value = v.n
           \/ long.res = "NUM_OVERFLOW" /\ v.n > Int64Max /\ long.value = Int64Max
           \/ long.res = "NUM_UNDERFLOW" /\ v.n < -Int64Max - 1 /\ long.value = -Int64Max - 1
    BY <1>1 DEF _jkii_to_int64, Int64Min
  <1> HIDE DEF long
  <1> DEFINE max == IF type = "INTEGER" THEN Int32Max ELSE Int64Max
  <1>3. /\ number.value \in Int
        /\ \/ number.res = "OK" /\ number.value = v.n
           \/ number.res = "NUM_OVERFLOW" /\ v.n > max /\ number.value = max
           \/ number.res = "NUM_UNDERFLOW" /\ v.n < -max - 1 /\ number.value = -max - 1
    <2>1. CASE type = "INTEGER"
      <3>1. number = _jkii_narrow_to_int32(long)
        BY <2>1 DEF long
      <3>2. QED
        BY <1>1, <1>2, <2>1, <3>1 DEF _jkii_narrow_to_int32, Int32Min
    <2>2. CASE type # "INTEGER"
      <3>1. number = long
        BY <2>2 DEF long
      <3>2. QED
        BY <1>1, <1>2, <2>2, <3>1
    <2>3. QED
      BY <2>1, <2>2
  <1>10. string \in {"NULL", "number"}
    BY DEF AfterNumber
  <1> HIDE DEF string
  <1>4. /\ DOMAIN g = {"path", "type", "size", "result", "copy", "string"}
        /\ g.path = f.path /\ g.size = f.size /\ g.string = string
        /\ g.type = type /\ g.result = number.res /\ g.copy = number.value
    BY DEF With, IsField
  <1> HIDE DEF g, max
  <1>5. IntegerIsRight(g, v.n)
    BY <1>3, <1>4 DEF IntegerIsRight, max
  <1>6. <<v>> # NotFound /\ <<v>>[1] = v
    BY DEF NotFound
  <1>7. ResultIsRight(g, <<v>>)
    BY <1>4, <1>5, <1>6 DEF ResultIsRight
  <1>8. IsField(g)
    BY <1>3, <1>4, <1>10 DEF IsField, FieldTypes, Integral
  <1>9. QED
    BY <1>4, <1>7, <1>8 DEF Becomes, g, string

\* Nor does the copy go astray unless a number was left where the pointer is read.
LEMMA ValueBecomes ==
    ASSUME NEW f, IsField(f), NEW v, IsValue(v), NEW pointer \in PointersOf(f)
    PROVE  LET c == _jkii_convert_value_to_field(f, v, pointer)
           IN  /\ IsField(c.field) /\ c.field.path = f.path
               /\ ~c.invalid /\ ~c.strays => Becomes(f, c.field, v)
               /\ c.strays \in BOOLEAN /\ (c.strays => ~HoldsPointer(f))
  <1> DEFINE type == _jkii_to_jkii_field_type(v)
             wants == IF f.type = "ANY" THEN type ELSE f.type
             double == _jkii_to_double(v)
             invalid == type = "ANY"
                          \/ (wants = "DOUBLE" /\ type = "DOUBLE" /\ double.res = "INVALID")
             strays == wants = type /\ type \in Copied /\ pointer = "stray" /\ CopyFits(f, v)
             c == _jkii_convert_value_to_field(f, v, pointer)
             g == c.field
  <1>1. /\ type \in FieldTypes
        /\ type \in Integral <=> v.type = "NUMBER" /\ v.integer
        /\ type \in {"ANY", "DOUBLE"} => v.type = "NUMBER" /\ ~v.integer
        /\ type \notin Integral \cup {"ANY", "DOUBLE"} => type = v.type
    BY TypeOfValue
  <1>2. <<v>> # NotFound /\ <<v>>[1] = v
    BY DEF NotFound
  <1>3. /\ DOMAIN f = {"path", "type", "size", "result", "copy", "string"}
        /\ f.type \in FieldTypes /\ f.size \in Nat /\ f.copy \in Int
        /\ f.string \in {"NULL", "buffer", "number"}
    BY DEF IsField
  <1>4. v.n \in Int /\ v.len \in Nat
    BY DEF IsValue
  <1>5. c.invalid = invalid /\ c.strays = strays
    BY Zenon DEF _jkii_convert_value_to_field
  <1>6. strays => ~HoldsPointer(f)
    <2>1. strays => f.string = "number"
      BY <1>3 DEF PointersOf
    <2>2. strays => f.type \in Copied \cup {"ANY"}
      OBVIOUS
    <2>3. QED
      BY <2>1, <2>2 DEF HoldsPointer
  <1>7. wants \in FieldTypes /\ f.type \in {"ANY", wants} /\ (wants = "ANY" => type = "ANY")
    BY <1>1, <1>3
  <1> HIDE DEF strays
  <1> SUFFICES /\ IsField(g) /\ g.path = f.path
               /\ ~invalid /\ ~strays => Becomes(f, g, v)
    BY <1>5, <1>6 DEF strays
  <1>8. CASE invalid
    <2>1. g = IF type = "ANY" THEN f ELSE [f EXCEPT !.type = wants, !.result = "NUM_UNDERFLOW"]
      BY <1>8, Zenon DEF _jkii_convert_value_to_field
    <2> HIDE DEF c, type, wants
    <2>2. QED
      BY <1>7, <1>3, <1>8, <2>1 DEF IsField
  <1>9. CASE ~invalid
    <2> DEFINE Converted(n) == With(f, wants, n.res, n.value, AfterNumber(f, n.value))
               Matched(copy, string) == With(f, wants, "OK", copy, string)
               long == _jkii_to_int64(v.n)
               number == IF wants = "INTEGER" THEN _jkii_narrow_to_int32(long) ELSE long
    <2>1. g =
            IF wants \in Integral /\ type \in Integral
            THEN Converted(number)
            ELSE IF wants # type THEN [f EXCEPT !.type = type, !.result = "TYPE_MISMATCH"]
            ELSE IF wants = "DOUBLE" THEN Converted(double)
            ELSE IF wants = "BOOLEAN" THEN Converted([res |-> "OK", value |-> v.n])
            ELSE IF wants = "NULL" THEN Matched(f.copy, f.string)
            ELSE IF pointer = "NULL" THEN Matched(f.copy, "NULL")
            ELSE IF ~CopyFits(f, v) THEN [f EXCEPT !.type = wants, !.result = "COPY"]
            ELSE IF pointer = "buffer" THEN Matched(v.n, "buffer")
            ELSE Matched(f.copy, f.string)
      <3>1. \A n : Converted(n) = [[f EXCEPT !.type = wants] EXCEPT !.result = n.res,
                                      !.copy = n.value, !.string = AfterNumber(f, n.value)]
        BY <1>3 DEF With
      <3>2. \A copy, string : Matched(copy, string) = [[f EXCEPT !.type = wants] EXCEPT
                                      !.result = "OK", !.copy = copy, !.string = string]
        BY <1>3 DEF With
      <3>3. [f EXCEPT !.type = wants, !.result = "COPY"]
              = [[f EXCEPT !.type = wants] EXCEPT !.result = "COPY"]
        BY <1>3
      <3> HIDE DEF Converted, Matched
      <3>4. QED
        BY <1>9, <3>1, <3>2, <3>3, Zenon DEF _jkii_convert_value_to_field
    <2>2. \A n : AfterNumber(f, n) \in {"NULL", "number"}
      BY DEF AfterNumber
    <2>3. \A result, copy, string :
             copy \in Int /\ string \in {"NULL", "buffer", "number"} =>
               LET h == With(f, wants, result, copy, string) IN
               /\ IsField(h) /\ h.path = f.path /\ h.type = wants /\ h.size = f.size
               /\ h.result = result /\ h.copy = copy /\ h.string = string
      <3> HIDE DEF wants
      <3>1. QED
        BY <1>3, <1>7 DEF IsField, With
    <2>4. CASE wants \in Integral /\ type \in Integral
      <3>1. g = With(f, wants, number.res, number.value, AfterNumber(f, number.value))
        BY <2>1, <2>4, Zenon
      <3>2. v.type = "NUMBER" /\ v.integer
        BY <1>1, <2>4
      <3>3. f.type \in {"ANY", wants}
        BY <1>7
      <3> HIDE DEF g, wants, type, invalid
      <3>4. Becomes(f, g, v)
        BY <2>4, <3>1, <3>2, <3>3, IntegerBecomes
      <3>5. QED
        BY <3>4 DEF Becomes
    <2>5. CASE ~(wants \in Integral /\ type \in Integral) /\ wants # type
      <3>1. g = [f EXCEPT !.type = type, !.result = "TYPE_MISMATCH"]
        BY <2>1, <2>5, Zenon
      <3> HIDE DEF g, wants, c, invalid
      <3>2. IsField(g) /\ g.path = f.path /\ g.result = "TYPE_MISMATCH" /\ g.type = type
        <4> HIDE DEF type
        <4>1. QED
          BY <1>1, <1>3, <3>1 DEF IsField
      <3>3. ResultIsRight(g, <<v>>)
        BY <1>2, <3>2, Zenon DEF ResultIsRight
      <3>4. QED
        BY <3>2, <3>3 DEF Becomes
    <2>6. CASE ~(wants \in Integral /\ type \in Integral) /\ wants = type
      <3>1. type \notin Integral /\ type # "ANY" /\ wants \notin Integral
        BY <1>9, <2>6
      <3>2. CASE wants = "DOUBLE"
        <4>1. g = With(f, wants, double.res, double.value, AfterNumber(f, double.value))
          BY <2>1, <2>6, <3>2, Zenon
        <4>2. double.value = v.n /\ double.res =
                CASE v.range = "normal" -> "OK" [] v.range = "tiny" -> "NUM_UNDERFLOW"
                  [] OTHER -> "NUM_OVERFLOW"
          <5>1. double.res # "INVALID"
            BY <1>9, <2>6, <3>2
          <5>2. QED
            BY <5>1 DEF _jkii_to_double, Erange, IsValue
        <4>3. v.type = "NUMBER" /\ ~v.integer
          BY <1>1, <2>6, <3>2
        <4> HIDE DEF g, c, double, type, wants, invalid
        <4>4. /\ IsField(g) /\ g.path = f.path /\ g.type = "DOUBLE"
              /\ g.result = double.res /\ g.copy = double.value
          BY <1>4, <2>2, <2>3, <3>2, <4>1, <4>2
        <4>5. DoubleIsRight(g, v)
          BY <4>2, <4>4, Zenon DEF DoubleIsRight
        <4>6. ResultIsRight(g, <<v>>)
          BY <1>2, <4>3, <4>4, <4>5, Zenon DEF ResultIsRight
        <4>7. QED
          BY <1>7, <3>2, <4>4, <4>6 DEF Becomes
      <3>3. CASE wants = "BOOLEAN"
        <4>1. g = With(f, wants, "OK", v.n, AfterNumber(f, v.n))
          BY <2>1, <2>6, <3>3, Zenon
        <4>2. wants = v.type
          BY <1>1, <2>6, <3>1, <3>3
        <4> HIDE DEF g, c, type, wants, invalid
        <4>3. /\ IsField(g) /\ g.path = f.path /\ g.type = wants /\ g.result = "OK"
              /\ g.copy = v.n
          BY <1>4, <2>2, <2>3, <4>1
        <4>4. ValueIsRight(g, v)
          BY <3>3, <4>3 DEF ValueIsRight
        <4>5. ResultIsRight(g, <<v>>)
          BY <1>2, <4>2, <4>3, <4>4, Zenon DEF ResultIsRight
        <4>6. QED
          BY <1>7, <4>3, <4>5 DEF Becomes
      <3>4. CASE wants = "NULL"
        <4>1. g = With(f, wants, "OK", f.copy, f.string)
          BY <2>1, <2>6, <3>4, Zenon
        <4>2. wants = v.type
          BY <1>1, <2>6, <3>1, <3>4
        <4> HIDE DEF g, c, type, wants, invalid
        <4>3. IsField(g) /\ g.path = f.path /\ g.type = wants /\ g.result = "OK"
          BY <1>3, <2>3, <4>1
        <4>4. ValueIsRight(g, v)
          BY <3>4, <4>3 DEF ValueIsRight
        <4>5. ResultIsRight(g, <<v>>)
          BY <1>2, <4>2, <4>3, <4>4, Zenon DEF ResultIsRight
        <4>6. QED
          BY <1>7, <4>3, <4>5 DEF Becomes
      <3>5. CASE wants \notin {"DOUBLE", "BOOLEAN", "NULL"}
        <4>1. /\ pointer = "NULL" => g = With(f, wants, "OK", f.copy, "NULL")
              /\ pointer # "NULL" /\ ~CopyFits(f, v) =>
                   g = [f EXCEPT !.type = wants, !.result = "COPY"]
              /\ pointer = "buffer" /\ CopyFits(f, v) => g = With(f, wants, "OK", v.n, "buffer")
              /\ pointer \notin {"NULL", "buffer"} /\ CopyFits(f, v) =>
                   g = With(f, wants, "OK", f.copy, f.string)
          <5> HIDE DEF g, c, type, wants, invalid, double, number
          <5>1. QED
            BY <2>1, <2>6, <3>5, Zenon
        <4>2. wants = v.type
          BY <1>1, <2>6, <3>1, <3>5
        <4>3. wants \in Copied
          BY <1>7, <2>6, <3>1, <3>5 DEF FieldTypes, Integral, Containers, Copied
        <4>4. wants = type
          BY <2>6
        <4>5. pointer \in {"NULL", "buffer", "stray"}
          BY <1>3 DEF PointersOf
        <4> HIDE DEF g, c, type, wants, invalid
        <4>6. CASE pointer = "NULL"
          <5>1. /\ IsField(g) /\ g.path = f.path /\ g.type = wants /\ g.result = "OK"
                /\ g.string = "NULL"
            BY <1>3, <2>3, <4>1, <4>6
          <5>2. ValueIsRight(g, v)
            BY <4>3, <5>1 DEF ValueIsRight
          <5>3. ResultIsRight(g, <<v>>)
            BY <1>2, <4>2, <5>1, <5>2, Zenon DEF ResultIsRight
          <5>4. QED
            BY <1>7, <5>1, <5>3 DEF Becomes
        <4>7. CASE pointer # "NULL" /\ ~CopyFits(f, v)
          <5>1. g = [f EXCEPT !.type = wants, !.result = "COPY"] /\ f.size <= v.len
            BY <1>3, <1>4, <4>1, <4>7 DEF CopyFits
          <5>2. /\ IsField(g) /\ g.path = f.path /\ g.type = v.type /\ g.result = "COPY"
                /\ g.size <= v.len
            BY <1>3, <1>7, <4>2, <5>1 DEF IsField
          <5>3. ResultIsRight(g, <<v>>)
            BY <1>2, <5>2, Zenon DEF ResultIsRight
          <5>4. QED
            BY <5>2, <5>3 DEF Becomes
        <4>8. CASE pointer = "buffer" /\ CopyFits(f, v)
          <5>1. /\ IsField(g) /\ g.path = f.path /\ g.type = wants /\ g.result = "OK"
                /\ g.string = "buffer" /\ g.copy = v.n /\ g.size = f.size
            BY <1>4, <2>3, <4>1, <4>8
          <5>2. ValueIsRight(g, v)
            BY <4>3, <4>8, <5>1 DEF ValueIsRight, CopyFits
          <5>3. ResultIsRight(g, <<v>>)
            BY <1>2, <4>2, <5>1, <5>2, Zenon DEF ResultIsRight
          <5>4. QED
            BY <1>7, <5>1, <5>3 DEF Becomes
        <4>9. CASE pointer = "stray" /\ CopyFits(f, v)
          <5>1. strays
            BY <4>3, <4>4, <4>9 DEF strays
          <5>2. IsField(g) /\ g.path = f.path
            BY <1>3, <2>3, <4>1, <4>9
          <5>3. QED
            BY <5>1, <5>2
        <4>10. QED
          BY <4>5, <4>6, <4>7, <4>8, <4>9
      <3>6. QED
        BY <3>2, <3>3, <3>4, <3>5
    <2>7. QED
      BY <2>4, <2>5, <2>6
  <1>10. QED
    BY <1>8, <1>9

-----------------------------------------------------------------------------
(* The fields of a call, one after the other.                              *)

\* A field can be read in every document.
CanBeRead(f) ==
    /\ IsField(f)
    /\ \A d \in Documents :
         LET at == _jkii_find_by_path(d, f.path) IN at # NotFound => IsValue(at[1])

\* What a call that hasn't copied astray has made of a field so far, and would return.
FieldIsRight(root, f, g, ret, strays) ==
    /\ CanBeRead(g)
    /\ ret # "INVALID_INPUT" /\ ~strays => ResultIsRight(g, _jkii_find_by_path(root, g.path))
    /\ ret = "OK" /\ ~strays => g.result = "OK" /\ f.type \in {"ANY", g.type}

FieldsAreRight(root, fs, n, a) ==
    /\ a = [ret |-> a.ret, fields |-> a.fields, strays |-> a.strays]
    /\ a.strays \in BOOLEAN
    /\ a.strays => \E i \in 1 .. n : ~HoldsPointer(fs[i])
    /\ a.ret \in {"OK", "PARTIAL", "INVALID_INPUT"}
    /\ \E S : a.fields \in Seq(S)
    /\ Len(a.fields) = n
    /\ \A i \in 1 .. n : FieldIsRight(root, fs[i], a.fields[i], a.ret, a.strays)
    /\ a.ret = "PARTIAL" => \E i \in 1 .. n : a.fields[i].result # "OK"

\* One more field.
LEMMA FieldAdded ==
    ASSUME NEW root, NEW fs, NEW n \in Nat, NEW a, FieldsAreRight(root, fs, n, a),
           NEW g, NEW ret \in {"OK", "PARTIAL", "INVALID_INPUT"},
           NEW strays \in BOOLEAN,
           FieldIsRight(root, fs[n + 1], g, ret, strays),
           a.strays => strays, strays => a.strays \/ ~HoldsPointer(fs[n + 1]),
           ret = a.ret \/ ret = "INVALID_INPUT" \/ (ret = "PARTIAL" /\ a.ret = "OK"),
           ret = "PARTIAL" => a.ret = "PARTIAL" \/ g.result # "OK"
    PROVE  FieldsAreRight(root, fs, n + 1,
                          [ret |-> ret, fields |-> Append(a.fields, g), strays |-> strays])
  <1> DEFINE s == a.fields
             t == Append(s, g)
             b == [ret |-> ret, fields |-> t, strays |-> strays]
  <1>1. PICK S : s \in Seq(S)
    BY DEF FieldsAreRight
  <1>2. s \in Seq(S \cup {g}) /\ g \in S \cup {g} /\ Len(s) = n
    BY <1>1 DEF FieldsAreRight
  <1> HIDE DEF s
  <1>3. /\ t \in Seq(S \cup {g}) /\ Len(t) = n + 1
        /\ \A i \in 1 .. n : t[i] = s[i]
        /\ t[n + 1] = g
    BY <1>2
  <1>4. /\ \A i \in 1 .. n : FieldIsRight(root, fs[i], s[i], a.ret, a.strays)
        /\ a.ret = "PARTIAL" => \E i \in 1 .. n : s[i].result # "OK"
        /\ a.ret \in {"OK", "PARTIAL", "INVALID_INPUT"}
        /\ a.strays => \E i \in 1 .. n : ~HoldsPointer(fs[i])
    BY DEF FieldsAreRight, s
  <1> HIDE DEF t
  <1>5. /\ b = [ret |-> b.ret, fields |-> b.fields, strays |-> b.strays]
        /\ b.ret = ret /\ b.fields = t /\ b.strays = strays
    OBVIOUS
  <1>6. \A i \in 1 .. n : FieldIsRight(root, fs[i], s[i], ret, strays)
    BY <1>4 DEF FieldIsRight
  <1>7. \A i \in 1 .. (n + 1) : FieldIsRight(root, fs[i], t[i], ret, strays)
    BY <1>3, <1>6
  <1>8. ret = "PARTIAL" => \E i \in 1 .. (n + 1) : t[i].result # "OK"
    BY <1>3, <1>4
  <1>9. \E R : t \in Seq(R)
    BY <1>3
  <1>10. strays => \E i \in 1 .. (n + 1) : ~HoldsPointer(fs[i])
    BY <1>4
  <1> HIDE DEF b
  <1>11. FieldsAreRight(root, fs, n + 1, b)
    BY <1>3, <1>5, <1>7, <1>8, <1>9, <1>10 DEF FieldsAreRight
  <1>12. QED
    BY <1>11 DEF b, t, s

\* A call goes on to the next field.
LEMMA NextField ==
    ASSUME NEW root \in Documents, NEW fs, NEW n \in Nat, NEW a, FieldsAreRight(root, fs, n, a),
           CanBeRead(fs[n + 1]), NEW pointer \in PointersOf(fs[n + 1])
    PROVE  FieldsAreRight(root, fs, n + 1, ParseField(root, a, fs[n + 1], pointer))
  <1> DEFINE f == fs[n + 1]
             at == _jkii_find_by_path(root, f.path)
             v == at[1]
             c == _jkii_convert_value_to_field(f, v, pointer)
  <1>1. /\ a.ret \in {"OK", "PARTIAL", "INVALID_INPUT"} /\ a.strays \in BOOLEAN
        /\ a = [ret |-> a.ret, fields |-> a.fields, strays |-> a.strays]
    BY DEF FieldsAreRight
  <1>2. IsField(f)
    BY DEF CanBeRead
  <1>3. CASE a.ret = "INVALID_INPUT"
    <2>1. ParseField(root, a, f, pointer)
            = [ret |-> a.ret, fields |-> Append(a.fields, f), strays |-> a.strays]
      BY <1>1, <1>3 DEF ParseField
    <2>2. FieldIsRight(root, f, f, a.ret, a.strays)
      BY <1>3 DEF FieldIsRight
    <2>3. QED
      BY <1>1, <1>3, <2>1, <2>2, FieldAdded
  <1>4. CASE a.ret # "INVALID_INPUT" /\ at = NotFound
    <2> DEFINE g == [f EXCEPT !.result = "NOT_FOUND"]
    <2>1. ParseField(root, a, f, pointer)
            = [ret |-> "PARTIAL", fields |-> Append(a.fields, g), strays |-> a.strays]
      BY <1>4, Zenon DEF ParseField
    <2>2. IsField(g) /\ g.path = f.path /\ g.result = "NOT_FOUND"
      BY <1>2 DEF IsField
    <2> HIDE DEF g
    <2>3. CanBeRead(g)
      BY <2>2 DEF CanBeRead
    <2>4. ResultIsRight(g, at)
      BY <1>4, <2>2, Zenon DEF ResultIsRight
    <2>5. FieldIsRight(root, f, g, "PARTIAL", a.strays)
      BY <2>2, <2>3, <2>4 DEF FieldIsRight
    <2>6. g.result # "OK"
      BY <2>2
    <2>7. QED
      BY <1>1, <1>4, <2>1, <2>5, <2>6, FieldAdded
  <1>5. CASE a.ret # "INVALID_INPUT" /\ at # NotFound
    <2> DEFINE g == c.field
               strays == a.strays \/ c.strays
               ret == IF c.invalid THEN "INVALID_INPUT"
                      ELSE IF g.result = "OK" THEN a.ret ELSE "PARTIAL"
    <2>1. ParseField(root, a, f, pointer)
            = [ret |-> ret, fields |-> Append(a.fields, g), strays |-> strays]
      BY <1>5, Zenon DEF ParseField
    <2>2. IsValue(v)
      BY <1>5, Zenon DEF CanBeRead
    <2>3. /\ IsField(g) /\ g.path = f.path
          /\ ~c.invalid /\ ~c.strays => Becomes(f, g, v)
          /\ c.strays \in BOOLEAN /\ (c.strays => ~HoldsPointer(f))
      BY <1>2, <2>2, ValueBecomes, Zenon
    <2>4. CanBeRead(g)
      <3> HIDE DEF g
      <3>1. QED
        BY <2>3 DEF CanBeRead
    <2>5. ret \in {"OK", "PARTIAL", "INVALID_INPUT"}
      BY <1>1
    <2>9. /\ strays \in BOOLEAN /\ (a.strays => strays)
          /\ strays => a.strays \/ ~HoldsPointer(f)
      BY <1>1, <2>3
    <2>6. CASE c.invalid
      <3>1. ret = "INVALID_INPUT"
        BY <2>6
      <3> HIDE DEF g, ret, strays
      <3>2. FieldIsRight(root, f, g, ret, strays)
        BY <2>4, <3>1 DEF FieldIsRight
      <3>3. QED
        BY <2>1, <2>5, <2>9, <3>1, <3>2, FieldAdded
    <2>7. CASE ~c.invalid
      <3>1. ret = IF g.result = "OK" THEN a.ret ELSE "PARTIAL"
        BY <2>7
      <3>2. ~strays => ResultIsRight(g, <<v>>) /\ (g.result = "OK" => f.type \in {"ANY", g.type})
        BY <2>3, <2>7, Zenon DEF Becomes
      <3> HIDE DEF g, ret, strays
      <3>3. ~strays => ResultIsRight(g, at)
        <4>1. <<v>> # NotFound /\ <<v>>[1] = v
          BY DEF NotFound
        <4> HIDE DEF at
        <4>2. QED
          BY <1>5, <3>2, <4>1, Zenon DEF ResultIsRight
      <3>4. ret = "OK" /\ ~strays => g.result = "OK" /\ f.type \in {"ANY", g.type}
        BY <3>1, <3>2
      <3>5. FieldIsRight(root, f, g, ret, strays)
        BY <2>3, <2>4, <3>3, <3>4, Zenon DEF FieldIsRight
      <3>6. QED
        BY <1>1, <1>5, <2>1, <2>5, <2>9, <3>1, <3>5, FieldAdded
    <2>8. QED
      BY <2>6, <2>7
  <1>6. QED
    BY <1>3, <1>4, <1>5

\* What has been read of the fields, one more at a time.
NoFieldRead == [ret |-> "OK", fields |-> <<>>, strays |-> FALSE]
FieldReads(root, fs, pointers, n, f) ==
    f = [i \in 0 .. n |-> IF i = 0 THEN NoFieldRead
                          ELSE ParseField(root, f[i - 1], fs[i], pointers[i])]
FieldsRead(root, fs, pointers) == CHOOSE f : FieldReads(root, fs, pointers, Len(fs), f)

\* There is such a function.
LEMMA FieldReadsExist ==
    ASSUME NEW root, NEW s, NEW p, NEW n \in Nat
    PROVE  \E f : FieldReads(root, s, p, n, f)
  <1> DEFINE Bad == {m \in Nat : ~\E f : FieldReads(root, s, p, m, f)}
  <1>1. Bad = {}
    <2> SUFFICES ASSUME Bad # {} PROVE FALSE
      OBVIOUS
    <2>1. PICK m \in Bad : \A l \in Bad : m <= l
      <3>1. Bad \in SUBSET Nat
        OBVIOUS
      <3>2. QED
        BY <3>1, Least
    <2>2. m \in Nat /\ ~\E f : FieldReads(root, s, p, m, f)
      BY <2>1
    <2>3. m # 0
      <3>1. FieldReads(root, s, p, 0, [i \in 0 .. 0 |-> NoFieldRead])
        BY DEF FieldReads
      <3>2. QED
        BY <2>2, <3>1
    <2>4. PICK f : FieldReads(root, s, p, m - 1, f)
      BY <2>1, <2>2, <2>3
    <2> DEFINE last == ParseField(root, f[m - 1], s[m], p[m])
               g == [i \in 0 .. m |-> IF i = m THEN last ELSE f[i]]
    <2>5. f = [i \in 0 .. (m - 1) |->
                 IF i = 0 THEN NoFieldRead ELSE ParseField(root, f[i - 1], s[i], p[i])]
      BY <2>4 DEF FieldReads
    <2>6. ASSUME NEW i \in 0 .. m
          PROVE  g[i] = IF i = 0 THEN NoFieldRead ELSE ParseField(root, g[i - 1], s[i], p[i])
      <3>1. CASE i = m
        <4>1. g[i] = last
          BY <3>1
        <4>2. g[m - 1] = f[m - 1]
          BY <2>2, <2>3
        <4>3. QED
          BY <2>3, <3>1, <4>1, <4>2
      <3>2. CASE i # m
        <4>1. i \in 0 .. (m - 1) /\ g[i] = f[i]
          BY <2>2, <3>2
        <4>2. i # 0 => g[i - 1] = f[i - 1]
          BY <2>2, <3>2
        <4>3. f[i] = IF i = 0 THEN NoFieldRead ELSE ParseField(root, f[i - 1], s[i], p[i])
          BY <2>5, <4>1
        <4> HIDE DEF g
        <4>4. QED
          BY <4>1, <4>2, <4>3
      <3>3. QED
        BY <3>1, <3>2
    <2>7. FieldReads(root, s, p, m, g)
      <3> HIDE DEF last
      <3>1. g = [i \in 0 .. m |-> g[i]]
        OBVIOUS
      <3> HIDE DEF g
      <3>2. QED
        BY <2>6, <3>1, Zenon DEF FieldReads
    <2>8. QED
      BY <2>2, <2>7
  <1>2. QED
    BY <1>1

\* It is what the call comes to.
LEMMA FieldsReadIs ==
    ASSUME NEW root, NEW S, NEW fs \in Seq(S), NEW p, root.type \in Containers
    PROVE  /\ FieldsRead(root, fs, p)[0] = NoFieldRead
           /\ \A i \in 1 .. Len(fs) :
                FieldsRead(root, fs, p)[i]
                  = ParseField(root, FieldsRead(root, fs, p)[i - 1], fs[i], p[i])
           /\ ParseOf(root, fs, p) = FieldsRead(root, fs, p)[Len(fs)]
  <1> DEFINE R == FieldsRead(root, fs, p)
             n == Len(fs)
  <1>1. n \in Nat
    OBVIOUS
  <1>2. ParseOf(root, fs, p) = R[n]
    BY Zenon DEF ParseOf, FieldsRead, FieldReads, NoFieldRead
  <1>3. \E f : FieldReads(root, fs, p, n, f)
    BY <1>1, FieldReadsExist
  <1>4. FieldReads(root, fs, p, n, R)
    <2> HIDE DEF n
    <2>1. QED
      BY <1>3, Zenon DEF FieldsRead, n
  <1> HIDE DEF R, n
  <1>5. /\ R[0] = NoFieldRead
        /\ \A i \in 1 .. n : R[i] = ParseField(root, R[i - 1], fs[i], p[i])
    BY <1>1, <1>4 DEF FieldReads
  <1>6. QED
    BY <1>2, <1>5 DEF R, n

\* What a call makes of the fields, and returns, is right.
LEMMA ParseIsRight ==
    ASSUME NEW root \in Documents, NEW S, NEW fs \in Seq(S),
           \A i \in 1 .. Len(fs) : CanBeRead(fs[i]),
           NEW p, \A i \in 1 .. Len(fs) : p[i] \in PointersOf(fs[i])
    PROVE  FieldsAreRight(root, fs, Len(fs), ParseOf(root, fs, p))
  <1>1. CASE root.type \notin Containers
    <2>1. ParseOf(root, fs, p) = [ret |-> "INVALID_INPUT", fields |-> fs, strays |-> FALSE]
      BY <1>1 DEF ParseOf
    <2>2. QED
      BY <2>1 DEF FieldsAreRight, FieldIsRight
  <1>2. CASE root.type \in Containers
    <2> DEFINE R == FieldsRead(root, fs, p)
               n == Len(fs)
               Bad == {i \in Nat : i <= n /\ ~FieldsAreRight(root, fs, i, R[i])}
    <2>1. /\ R[0] = NoFieldRead /\ n \in Nat
          /\ \A i \in 1 .. n : R[i] = ParseField(root, R[i - 1], fs[i], p[i])
          /\ ParseOf(root, fs, p) = R[n]
      BY <1>2, FieldsReadIs
    <2>2. Bad = {}
      <3> SUFFICES ASSUME Bad # {} PROVE FALSE
        OBVIOUS
      <3> HIDE DEF R, n
      <3>1. PICK m \in Bad : \A l \in Bad : m <= l
        <4>1. Bad \in SUBSET Nat
          OBVIOUS
        <4>2. QED
          BY <4>1, Least
      <3>2. m \in Nat /\ m <= n /\ ~FieldsAreRight(root, fs, m, R[m])
        BY <3>1
      <3>3. CASE m = 0
        <4>1. FieldsAreRight(root, fs, 0, NoFieldRead)
          <5>1. <<>> \in Seq({}) /\ Len(<<>>) = 0
            OBVIOUS
          <5>2. QED
            BY <5>1 DEF FieldsAreRight, NoFieldRead
        <4>2. QED
          BY <2>1, <3>2, <3>3, <4>1
      <3>4. CASE m # 0
        <4> DEFINE l == m - 1
        <4>1. l \in Nat /\ m = l + 1 /\ l < m /\ m \in 1 .. n /\ l <= n
          BY <2>1, <3>2, <3>4
        <4>2. FieldsAreRight(root, fs, l, R[l])
          BY <3>1, <4>1
        <4>3. CanBeRead(fs[l + 1]) /\ p[l + 1] \in PointersOf(fs[l + 1])
          BY <4>1 DEF n
        <4>4. FieldsAreRight(root, fs, l + 1, ParseField(root, R[l], fs[l + 1], p[l + 1]))
          BY <4>1, <4>2, <4>3, NextField
        <4>5. QED
          BY <2>1, <3>2, <4>1, <4>4
      <3>5. QED
        BY <3>3, <3>4
    <2>3. QED
      BY <2>1, <2>2
  <1>3. QED
    BY <1>1, <1>2

-----------------------------------------------------------------------------
(* The calls.                                                              *)

\* Every field can be read, is as wide as it was set up, and what was read is right.
JsonInv ==
    /\ \E S : fields \in Seq(S)
    /\ \A i \in 1 .. Len(fields) : CanBeRead(fields[i])
    /\ DOMAIN wanted = DOMAIN fields
    /\ parses \in Nat
    /\ parses = 0 => /\ parsed = ""
                     /\ \A i \in DOMAIN fields : /\ wanted[i] = fields[i].type
                                                 /\ HoldsPointer(fields[i])
    /\ FieldsAreTheDocuments

LEMMA JsonInitInv == JsonInit => JsonInv
  <1> SUFFICES ASSUME JsonInit PROVE JsonInv
    OBVIOUS
  <1>1. /\ fields \in Seq(Range(fields))
        /\ \A f \in Range(fields) : CanBeRead(f) /\ HoldsPointer(f)
    BY FieldsAssumption, Zenon DEF JsonInit, CanBeRead
  <1>2. \A i \in 1 .. Len(fields) : fields[i] \in Range(fields)
    BY <1>1
  <1>3. \A i \in 1 .. Len(fields) : CanBeRead(fields[i]) /\ HoldsPointer(fields[i])
    BY <1>1, <1>2
  <1>4. DOMAIN fields = 1 .. Len(fields)
    BY <1>1
  <1>5. QED
    BY <1>1, <1>3, <1>4 DEF JsonInit, JsonInv, FieldsAreTheDocuments

LEMMA JsonNextInv == JsonInv /\ [JsonNext]_jsonVars => JsonInv'
  <1> SUFFICES ASSUME JsonInv, [JsonNext]_jsonVars PROVE JsonInv'
    OBVIOUS
  <1>1. CASE jkii_parse
    <2>1. PICK d \in Documents, p \in [DOMAIN fields -> Pointers] :
            /\ \A i \in DOMAIN fields : p[i] \in PointersOf(fields[i])
            /\ document' = d /\ parsed' = ParseOf(d, fields, p).ret
            /\ fields' = ParseOf(d, fields, p).fields
            /\ strayed' = ParseOf(d, fields, p).strays
      BY <1>1, Zenon DEF jkii_parse
    <2>2. PICK S : fields \in Seq(S)
      BY DEF JsonInv
    <2> DEFINE n == Len(fields)
    <2>3. /\ n \in Nat /\ DOMAIN fields = 1 .. n /\ DOMAIN wanted = 1 .. n
          /\ parses \in Nat /\ parses' = parses + 1 /\ wanted' = wanted
          /\ parses = 0 => \A i \in 1 .. n : /\ wanted[i] = fields[i].type
                                             /\ HoldsPointer(fields[i])
      <3>1. n \in Nat /\ DOMAIN fields = 1 .. n
        BY <2>2
      <3>2. /\ DOMAIN wanted = DOMAIN fields /\ parses \in Nat
            /\ parses = 0 => \A i \in DOMAIN fields : /\ wanted[i] = fields[i].type
                                                      /\ HoldsPointer(fields[i])
        BY Zenon DEF JsonInv
      <3>3. parses' = parses + 1 /\ wanted' = wanted
        BY <1>1, Zenon DEF jkii_parse
      <3> HIDE DEF n
      <3>4. QED
        BY <3>1, <3>2, <3>3
    <2>4. FieldsAreRight(d, fields, n,
                         [ret |-> parsed', fields |-> fields', strays |-> strayed'])
      <3>1. FieldsAreRight(d, fields, n, ParseOf(d, fields, p))
        BY <2>1, <2>2, <2>3, ParseIsRight DEF JsonInv
      <3>2. ParseOf(d, fields, p)
              = [ret |-> parsed', fields |-> fields', strays |-> strayed']
        BY <2>1, <3>1 DEF FieldsAreRight
      <3>3. QED
        BY <3>1, <3>2
    <2> HIDE DEF n
    <2>5. /\ parsed' \in {"OK", "PARTIAL", "INVALID_INPUT"}
          /\ \E R : fields' \in Seq(R)
          /\ Len(fields') = n
          /\ \A i \in 1 .. n : FieldIsRight(d, fields[i], fields'[i], parsed', strayed')
          /\ strayed' \in BOOLEAN /\ (strayed' => \E i \in 1 .. n : ~HoldsPointer(fields[i]))
          /\ parsed' = "PARTIAL" => \E i \in 1 .. n : fields'[i].result # "OK"
      BY <2>4 DEF FieldsAreRight
    <2>6. DOMAIN fields' = 1 .. n
      BY <2>5
    <2>7. FieldsAreTheDocuments'
      <3>1. ~strayed' /\ parsed' \in {"OK", "PARTIAL"} => \A i \in DOMAIN fields' :
               ResultIsRight(fields'[i], _jkii_find_by_path(document', fields'[i].path))
        BY <2>1, <2>5, <2>6 DEF FieldIsRight
      <3>2. ~strayed' /\ parsed' = "OK" => \A i \in DOMAIN fields' : fields'[i].result = "OK"
        BY <2>5, <2>6 DEF FieldIsRight
      <3>3. parsed' = "PARTIAL" => \E i \in DOMAIN fields' : fields'[i].result # "OK"
        BY <2>5, <2>6
      <3>4. ~strayed' /\ parses' = 1 /\ parsed' = "OK" => \A i \in DOMAIN fields' :
               wanted'[i] = "ANY" \/ wanted'[i] = fields'[i].type
        BY <2>3, <2>5, <2>6 DEF FieldIsRight
      <3>5. strayed' => parses' > 1
        <4>1. strayed' => parses # 0
          BY <2>3, <2>5
        <4>2. QED
          BY <2>3, <4>1
      <3>6. QED
        BY <3>1, <3>2, <3>3, <3>4, <3>5, Zenon DEF FieldsAreTheDocuments
    <2>8. \A i \in 1 .. Len(fields') : CanBeRead(fields'[i])
      BY <2>5 DEF FieldIsRight
    <2>9. parses' # 0 /\ parses' \in Nat /\ DOMAIN wanted' = DOMAIN fields'
      BY <2>3, <2>6
    <2>10. QED
      BY <2>5, <2>7, <2>8, <2>9 DEF JsonInv
  <1>2. CASE UNCHANGED jsonVars
    BY <1>2 DEF JsonInv, FieldsAreTheDocuments, jsonVars
  <1>3. QED
    BY <1>1, <1>2 DEF JsonNext

\* Whatever is parsed into whichever fields, and however often: what the fields are said
\* to have read is what the document has, until a copy goes through a pointer that a
\* number was written over, which in an array just set up none does (jkii_parse(),
\* _jkii_convert_value_to_field()).
THEOREM FieldsCorrect == JsonSpec => []FieldsAreTheDocuments
  <1>1. JsonInit => JsonInv
    BY JsonInitInv
  <1>2. JsonInv /\ [JsonNext]_jsonVars => JsonInv'
    BY JsonNextInv
  <1>3. JsonInv => FieldsAreTheDocuments
    BY DEF JsonInv
  <1>4. QED
    BY <1>1, <1>2, <1>3, PTL DEF JsonSpec

-----------------------------------------------------------------------------
(* The writer: what it puts out.                                           *)

Symbols == {"object", "object_end", "array", "array_end", "k", "v", "w", "comma", "colon", "LF"}
WriterErrs == {"OK", "TOO_LARGE", "CALLBACK", "STRUCTURE", "TOO_DEEP", "VALUE"}
Levels == [object : BOOLEAN, has_member : BOOLEAN, after_key : BOOLEAN]
Writers ==
    [kind : {"buff", "cb", "none"}, size : Nat \ {0}, takes : Nat, used : Seq(Symbols),
     total : Nat, err : WriterErrs, levels : Seq(Levels), top_done : BOOLEAN, records : Nat,
     got : Seq(Symbols), text : Seq(Symbols)]

\* What is out and what the buffer holds are the text, as long as all went well.
OutInv(w) ==
    /\ w \in Writers
    /\ Starts(w.got, w.text)
    /\ ~stopped(w) => w.total = Len(w.text)
    /\ w.kind = "buff" => w.used = w.got /\ Len(w.got) < w.size
    /\ w.kind = "buff" /\ w.err = "OK" => w.got = w.text
    /\ w.err = "TOO_LARGE" => w.kind = "buff" /\ w.total >= w.size
    /\ w.kind = "cb" /\ ~stopped(w) => w.got \o w.used = w.text /\ Len(w.used) < w.size

\* What a part that is put leaves alone.
SamePlace(w, v) ==
    /\ v.kind = w.kind /\ v.size = w.size
    /\ v.levels = w.levels /\ v.top_done = w.top_done /\ v.records = w.records

\* A writer through a callback, when n symbols of a part have been put after the text.
Filling(c, text, s, n, f) ==
    /\ f \in Writers /\ SamePlace(c, f) /\ f.kind = "cb"
    /\ f.text = c.text /\ f.total = c.total /\ f.err # "TOO_LARGE"
    /\ Starts(f.got, f.text)
    /\ ~stopped(f) => f.got \o f.used = text \o SubSeq(s, 1, n) /\ Len(f.used) < f.size

\* What is given to the callback is out, unless that fails.
LEMMA FlushKeeps ==
    ASSUME NEW w \in Writers, w.kind = "cb", w.err # "TOO_LARGE", Starts(w.got, w.text),
           ~stopped(w) => Starts(w.got \o w.used, w.text)
    PROVE  LET f == flush(w)
           IN  /\ f \in Writers /\ SamePlace(w, f) /\ f.text = w.text /\ f.total = w.total
               /\ f.err # "TOO_LARGE" /\ f.used = <<>>
               /\ Starts(f.got, f.text)
               /\ stopped(w) => stopped(f)
               /\ ~stopped(f) => ~stopped(w) /\ f.got = w.got \o w.used
  <1> DEFINE empty == [w EXCEPT !.used = <<>>]
             f == flush(w)
             both == w.got \o w.used
  <1>0. w.got \in Seq(Symbols) /\ w.used \in Seq(Symbols) /\ <<>> \in Seq(Symbols)
    BY DEF Writers
  <1>1. both \in Seq(Symbols) /\ w.got \o <<>> = w.got
    BY <1>0
  <1>2. /\ empty \in Writers /\ empty.used = <<>> /\ empty.got = w.got /\ empty.err = w.err
        /\ empty.text = w.text /\ empty.total = w.total /\ SamePlace(w, empty)
        /\ empty.takes = w.takes
    BY <1>0 DEF Writers, SamePlace
  <1>3. CASE w.used = <<>> \/ stopped(w)
    <2>1. f = empty
      BY <1>3, Zenon DEF flush
    <2>2. stopped(empty) <=> stopped(w)
      BY <1>2 DEF stopped
    <2>3. ~stopped(w) => w.got = both
      BY <1>1, <1>3
    <2> HIDE DEF f, empty, both
    <2>4. QED
      BY <1>2, <2>1, <2>2, <2>3 DEF f, both
  <1>4. CASE w.used # <<>> /\ ~stopped(w) /\ w.takes = 0
    <2>1. f = fail(empty, "CALLBACK")
      BY <1>4, Zenon DEF flush
    <2>2. ~stopped(empty)
      BY <1>2, <1>4 DEF stopped
    <2>3. f = [empty EXCEPT !.err = "CALLBACK"]
      BY <2>1, <2>2, Zenon DEF fail
    <2> HIDE DEF f, empty, both
    <2>4. /\ f \in Writers /\ SamePlace(w, f) /\ f.text = w.text /\ f.total = w.total
          /\ f.err = "CALLBACK" /\ f.used = <<>> /\ f.got = w.got
      BY <1>2, <2>3 DEF Writers, WriterErrs, SamePlace
    <2>5. stopped(f)
      BY <2>4 DEF stopped
    <2>6. QED
      BY <2>4, <2>5 DEF f
  <1>5. CASE w.used # <<>> /\ ~stopped(w) /\ w.takes # 0
    <2>1. f = [empty EXCEPT !.got = @ \o w.used, !.takes = @ - 1]
      BY <1>5, Zenon DEF flush
    <2>2. f = [empty EXCEPT !.got = both, !.takes = w.takes - 1]
      BY <1>2, <2>1
    <2>3. w.takes - 1 \in Nat
      BY <1>5 DEF Writers
    <2> HIDE DEF f, empty, both
    <2>4. /\ f \in Writers /\ SamePlace(w, f) /\ f.text = w.text /\ f.total = w.total
          /\ f.err = w.err /\ f.used = <<>> /\ f.got = both
      BY <1>1, <1>2, <2>2, <2>3 DEF Writers, SamePlace
    <2>5. ~stopped(f)
      BY <1>5, <2>4 DEF stopped
    <2>6. Starts(both, w.text)
      BY <1>5 DEF both
    <2>7. QED
      BY <1>5, <2>4, <2>5, <2>6 DEF f, both
  <1>6. QED
    BY <1>3, <1>4, <1>5

\* A sequence with one more at its end, joined on.
LEMMA AppendJoined ==
    ASSUME NEW S, NEW a \in Seq(S), NEW b \in Seq(S), NEW x \in S
    PROVE  a \o Append(b, x) = Append(a \o b, x)
  <1>1. a \o b \in Seq(S) /\ <<x>> \in Seq(S)
    OBVIOUS
  <1>2. Append(b, x) = b \o <<x>> /\ Append(a \o b, x) = (a \o b) \o <<x>>
    BY <1>1, AppendIs, Zenon
  <1>3. Groups(a, b, <<x>>)
    BY <1>1, Associative, Zenon
  <1>4. QED
    BY <1>2, <1>3, Zenon DEF Groups

\* One more symbol of the part.
LEMMA FillKeeps ==
    ASSUME NEW c \in Writers, NEW text \in Seq(Symbols), NEW s \in Seq(Symbols),
           c.text = text \o s, NEW n \in 1 .. Len(s), NEW f, Filling(c, text, s, n - 1, f)
    PROVE  Filling(c, text, s, n, Fill(f, s[n]))
  <1> DEFINE more == Append(f.used, s[n])
             g == [f EXCEPT !.used = more]
             before == text \o SubSeq(s, 1, n - 1)
             after == text \o SubSeq(s, 1, n)
  <1>0. s[n] \in Symbols /\ f \in Writers /\ Len(s) \in Nat
    BY DEF Filling
  <1>1. /\ f.used \in Seq(Symbols) /\ more \in Seq(Symbols) /\ Len(more) = Len(f.used) + 1
        /\ Len(f.used) \in Nat
    <2>1. f.used \in Seq(Symbols)
      BY <1>0 DEF Writers
    <2>2. QED
      BY <1>0, <2>1
  <1>2. CASE stopped(f)
    <2>1. Fill(f, s[n]) = f
      BY <1>2 DEF Fill
    <2>2. QED
      BY <1>2, <2>1 DEF Filling
  <1>3. CASE ~stopped(f)
    <2>1. f.got \o f.used = before /\ Len(f.used) < f.size
      BY <1>3 DEF Filling
    <2>2. f.got \o more = after
      <3>1. Append(before, s[n]) = after
        BY OneMoreJoined
      <3>2. f.got \in Seq(Symbols)
        BY <1>0 DEF Writers
      <3>3. f.got \o Append(f.used, s[n]) = Append(f.got \o f.used, s[n])
        <4>1. f.used \in Seq(Symbols) /\ s[n] \in Symbols
          BY <1>0, <1>1
        <4> DEFINE a == f.got
                   b == f.used
                   x == s[n]
        <4>2. a \in Seq(Symbols) /\ b \in Seq(Symbols) /\ x \in Symbols
          BY <3>2, <4>1
        <4> HIDE DEF a, b, x
        <4>3. a \o Append(b, x) = Append(a \o b, x)
          BY <4>2, AppendJoined, SMTT(30)
        <4>4. QED
          BY <4>3 DEF a, b, x
      <3>4. QED
        BY <2>1, <3>1, <3>3
    <2>3. /\ g \in Writers /\ SamePlace(f, g) /\ g.text = f.text /\ g.total = f.total
          /\ g.err = f.err /\ g.used = more /\ g.got = f.got /\ g.size = f.size
          /\ g.kind = f.kind
      BY <1>0, <1>1 DEF Writers, SamePlace
    <2>4. Fill(f, s[n]) = IF Len(g.used) = g.size THEN flush(g) ELSE g
      <3>1. Fill(f, s[n]) = IF Len(g.used) = f.size THEN flush(g) ELSE g
        BY <1>3, Zenon DEF Fill
      <3>2. QED
        BY <2>3, <3>1
    <2>5. Starts(after, c.text)
      <3>1. /\ SubSeq(s, 1, n) \in Seq(Symbols)
            /\ Starts(SubSeq(s, 1, n), s)
        <4>1. n \in 0 .. Len(s)
          BY <1>0
        <4>2. QED
          BY <4>1, FirstPartType, StartsPart
      <3>2. QED
        BY <3>1, StartsAfter
    <2> HIDE DEF g, more, after, before
    <2>6. f.kind = "cb" /\ f.err # "TOO_LARGE" /\ f.text = c.text /\ Starts(f.got, f.text)
      BY DEF Filling
    <2>7. CASE Len(g.used) = g.size
      <3>1. Fill(f, s[n]) = flush(g)
        BY <2>4, <2>7
      <3> DEFINE h == flush(g)
      <3>2. /\ h \in Writers /\ SamePlace(g, h) /\ h.text = g.text /\ h.total = g.total
            /\ h.err # "TOO_LARGE" /\ h.used = <<>>
            /\ Starts(h.got, h.text)
            /\ ~stopped(h) => h.got = g.got \o g.used
        <4>1. Starts(g.got \o g.used, g.text)
          BY <2>2, <2>3, <2>5, <2>6
        <4>2. QED
          BY <2>3, <2>6, <4>1, FlushKeeps, ZenonT(30)
      <3> HIDE DEF h
      <3>3. ~stopped(h) => h.got \o h.used = after
        <4>1. h.got \in Seq(Symbols)
          BY <3>2 DEF Writers
        <4>2. h.got \o <<>> = h.got
          BY <4>1
        <4>3. QED
          BY <2>2, <2>3, <3>2, <4>2
      <3>4. Len(h.used) < h.size
        <4>1. h.size \in Nat \ {0}
          BY <3>2 DEF Writers
        <4>2. Len(<<>>) = 0
          OBVIOUS
        <4>3. QED
          BY <3>2, <4>1, <4>2
      <3>5. Filling(c, text, s, n, h)
        BY <2>3, <3>2, <3>3, <3>4 DEF Filling, SamePlace, after
      <3>6. QED
        BY <3>1, <3>5 DEF h
    <2>8. CASE Len(g.used) # g.size
      <3>1. Fill(f, s[n]) = g
        BY <2>4, <2>8
      <3>2. Len(g.used) < g.size
        <4>1. f.size \in Nat
          BY <1>0 DEF Writers
        <4>2. QED
          BY <1>1, <2>1, <2>3, <2>8, <4>1
      <3>3. Filling(c, text, s, n, g)
        BY <2>2, <2>3, <2>6, <3>2 DEF Filling, SamePlace, after
      <3>4. QED
        BY <3>1, <3>3
    <2>9. QED
      BY <2>7, <2>8
  <1>4. QED
    BY <1>2, <1>3

\* What has been put of a part, one symbol more at a time.
Fills(c, s, n, f) == f = [i \in 0 .. n |-> IF i = 0 THEN c ELSE Fill(f[i - 1], s[i])]
Filled(c, s) == CHOOSE f : Fills(c, s, Len(s), f)

\* There is such a function.
LEMMA FillsExist ==
    ASSUME NEW c, NEW s, NEW n \in Nat
    PROVE  \E f : Fills(c, s, n, f)
  <1> DEFINE Bad == {m \in Nat : ~\E f : Fills(c, s, m, f)}
  <1>1. Bad = {}
    <2> SUFFICES ASSUME Bad # {} PROVE FALSE
      OBVIOUS
    <2>1. PICK m \in Bad : \A l \in Bad : m <= l
      <3>1. Bad \in SUBSET Nat
        OBVIOUS
      <3>2. QED
        BY <3>1, Least
    <2>2. m \in Nat /\ ~\E f : Fills(c, s, m, f)
      BY <2>1
    <2>3. m # 0
      <3>1. Fills(c, s, 0, [i \in 0 .. 0 |-> c])
        BY DEF Fills
      <3>2. QED
        BY <2>2, <3>1
    <2>4. PICK f : Fills(c, s, m - 1, f)
      BY <2>1, <2>2, <2>3
    <2> DEFINE last == Fill(f[m - 1], s[m])
               g == [i \in 0 .. m |-> IF i = m THEN last ELSE f[i]]
    <2>5. f = [i \in 0 .. (m - 1) |-> IF i = 0 THEN c ELSE Fill(f[i - 1], s[i])]
      BY <2>4 DEF Fills
    <2>6. ASSUME NEW i \in 0 .. m
          PROVE  g[i] = IF i = 0 THEN c ELSE Fill(g[i - 1], s[i])
      <3>1. CASE i = m
        <4>1. g[i] = last
          BY <3>1
        <4>2. g[m - 1] = f[m - 1]
          BY <2>2, <2>3
        <4>3. QED
          BY <2>3, <3>1, <4>1, <4>2
      <3>2. CASE i # m
        <4>1. i \in 0 .. (m - 1) /\ g[i] = f[i]
          BY <2>2, <3>2
        <4>2. i # 0 => g[i - 1] = f[i - 1]
          BY <2>2, <3>2
        <4>3. f[i] = IF i = 0 THEN c ELSE Fill(f[i - 1], s[i])
          BY <2>5, <4>1
        <4> HIDE DEF g
        <4>4. QED
          BY <4>1, <4>2, <4>3
      <3>3. QED
        BY <3>1, <3>2
    <2>7. Fills(c, s, m, g)
      <3> HIDE DEF last
      <3>1. g = [i \in 0 .. m |-> g[i]]
        OBVIOUS
      <3> HIDE DEF g
      <3>2. QED
        BY <2>6, <3>1, Zenon DEF Fills
    <2>8. QED
      BY <2>2, <2>7
  <1>2. QED
    BY <1>1

\* It is what the part comes to.
LEMMA FilledIs ==
    ASSUME NEW c, NEW S, NEW s \in Seq(S)
    PROVE  /\ Filled(c, s)[0] = c
           /\ \A i \in 1 .. Len(s) : Filled(c, s)[i] = Fill(Filled(c, s)[i - 1], s[i])
  <1> DEFINE R == Filled(c, s)
             n == Len(s)
  <1>1. n \in Nat
    OBVIOUS
  <1>2. \E f : Fills(c, s, n, f)
    BY <1>1, FillsExist
  <1>3. Fills(c, s, n, R)
    <2> HIDE DEF n
    <2>1. QED
      BY <1>2, Zenon DEF Filled, n
  <1> HIDE DEF R, n
  <1>4. /\ R[0] = c
        /\ \A i \in 1 .. n : R[i] = Fill(R[i - 1], s[i])
    BY <1>1, <1>3 DEF Fills
  <1>5. QED
    BY <1>4 DEF R, n

\* The whole of the part.
LEMMA AllFilled ==
    ASSUME NEW c \in Writers, NEW text \in Seq(Symbols), NEW s \in Seq(Symbols),
           c.text = text \o s, Filling(c, text, s, 0, c)
    PROVE  Filling(c, text, s, Len(s), Filled(c, s)[Len(s)])
  <1> DEFINE R == Filled(c, s)
             n == Len(s)
             Bad == {i \in Nat : i <= n /\ ~Filling(c, text, s, i, R[i])}
  <1>1. /\ R[0] = c /\ n \in Nat
        /\ \A i \in 1 .. n : R[i] = Fill(R[i - 1], s[i])
    BY FilledIs
  <1>2. Bad = {}
    <2> SUFFICES ASSUME Bad # {} PROVE FALSE
      OBVIOUS
    <2> HIDE DEF R
    <2>1. PICK m \in Bad : \A l \in Bad : m <= l
      <3>1. Bad \in SUBSET Nat
        OBVIOUS
      <3>2. QED
        BY <3>1, Least
    <2>2. m \in Nat /\ m <= n /\ ~Filling(c, text, s, m, R[m])
      BY <2>1
    <2>3. m # 0
      BY <1>1, <2>2
    <2>4. m \in 1 .. n /\ m - 1 \in Nat /\ m - 1 <= n
      BY <1>1, <2>2, <2>3
    <2>5. Filling(c, text, s, m - 1, R[m - 1])
      BY <2>1, <2>4
    <2>6. Filling(c, text, s, m, Fill(R[m - 1], s[m]))
      BY <2>4, <2>5, FillKeeps
    <2>7. QED
      BY <1>1, <2>2, <2>4, <2>6
  <1>3. QED
    BY <1>1, <1>2

\* A part put leaves what is out and in the buffer so, and comes after the text.
LEMMA PutKeeps ==
    ASSUME NEW w, OutInv(w), NEW s \in Seq(Symbols), s # <<>>
    PROVE  LET p == put(w, s)
           IN  /\ OutInv(p) /\ SamePlace(w, p)
               /\ stopped(w) => p = w
               /\ ~stopped(w) => p.text = w.text \o s
  <1> DEFINE p == put(w, s)
             longer == w.text \o s
             total == w.total + Len(s)
             c == [w EXCEPT !.total = total, !.text = longer]
  <1>1. /\ w.text \in Seq(Symbols) /\ w.got \in Seq(Symbols) /\ w.used \in Seq(Symbols)
        /\ w.size \in Nat \ {0} /\ w.total \in Nat
    BY DEF OutInv, Writers
  <1>2. /\ longer \in Seq(Symbols) /\ Len(longer) = Len(w.text) + Len(s) /\ Len(s) \in Nat \ {0}
        /\ Len(w.text) \in Nat /\ Len(w.used) \in Nat /\ Len(w.got) \in Nat
    BY <1>1
  <1>3. Starts(w.got, w.text) /\ Starts(w.text, longer) /\ Starts(w.got, longer)
    <2>1. Starts(w.got, w.text)
      BY DEF OutInv
    <2>2. Starts(w.text, longer)
      BY <1>1, StartsJoined
    <2> HIDE DEF longer
    <2>3. QED
      BY <1>1, <1>2, <2>1, <2>2, StartsThrough
  <1>4. CASE stopped(w)
    <2>1. p = w
      BY <1>4, Zenon DEF put
    <2>2. QED
      BY <1>4, <2>1 DEF SamePlace
  <1>5. CASE ~stopped(w)
    <2>0. total \in Nat /\ total = Len(longer)
      BY <1>1, <1>2, <1>5 DEF OutInv
    <2> HIDE DEF longer, total
    <2>1. /\ c \in Writers /\ SamePlace(w, c) /\ c.text = longer /\ c.total = total
          /\ c.err = w.err /\ c.used = w.used /\ c.got = w.got /\ c.kind = w.kind
          /\ c.size = w.size
      BY <1>2, <2>0 DEF OutInv, Writers, SamePlace
    <2>2. ~stopped(c)
      BY <1>5, <2>1 DEF stopped
    <2>3. p = IF w.kind = "cb" THEN Filled(c, s)[Len(s)]
              ELSE IF w.kind = "none" \/ w.err = "TOO_LARGE" THEN c
              ELSE IF Fits(w, s) THEN [c EXCEPT !.used = @ \o s, !.got = @ \o s]
              ELSE [c EXCEPT !.err = "TOO_LARGE"]
      BY <1>5, Zenon DEF put, Filled, Fills, longer, total
    <2>4. w.err \in {"OK", "TOO_LARGE"} /\ w.kind \in {"buff", "cb", "none"}
      BY <1>5 DEF stopped, OutInv, Writers
    <2> HIDE DEF p, c
    <2>5. CASE w.kind = "cb"
      <3>1. w.got \o w.used = w.text /\ Len(w.used) < w.size /\ w.err # "TOO_LARGE"
        BY <1>5, <2>5 DEF OutInv
      <3>2. SubSeq(s, 1, 0) = <<>> /\ w.text \o <<>> = w.text
        BY <1>1
      <3>3. Filling(c, w.text, s, 0, c)
        BY <1>3, <2>1, <2>2, <2>5, <3>1, <3>2 DEF Filling, SamePlace
      <3>4. c.text = w.text \o s
        BY <2>1 DEF longer
      <3>5. Filling(c, w.text, s, Len(s), p)
        <4>1. Filling(c, w.text, s, Len(s), Filled(c, s)[Len(s)])
          BY <1>1, <2>1, <3>3, <3>4, AllFilled
        <4>2. QED
          BY <2>3, <2>5, <4>1
      <3>6. SubSeq(s, 1, Len(s)) = s
        OBVIOUS
      <3>7. /\ p \in Writers /\ SamePlace(c, p) /\ p.kind = "cb" /\ p.text = longer
            /\ p.total = total /\ p.err # "TOO_LARGE" /\ Starts(p.got, p.text)
            /\ ~stopped(p) => p.got \o p.used = longer /\ Len(p.used) < p.size
        BY <2>1, <3>5, <3>6 DEF Filling, longer
      <3>8. OutInv(p)
        BY <2>0, <3>7 DEF OutInv
      <3>9. QED
        BY <1>5, <2>1, <3>7, <3>8 DEF SamePlace, p, longer
    <2>6. CASE w.kind = "none" \/ (w.kind # "cb" /\ w.err = "TOO_LARGE")
      <3>1. p = c
        BY <2>3, <2>6
      <3>0. total >= w.total
        BY <1>1, <1>2 DEF total
      <3>2. OutInv(c)
        <4>1. w.err = "TOO_LARGE" => w.kind = "buff" /\ w.total >= w.size
          BY DEF OutInv
        <4>2. w.kind = "buff" => w.used = w.got /\ Len(w.got) < w.size
          BY DEF OutInv
        <4>3. c.err = "TOO_LARGE" => c.kind = "buff" /\ c.total >= c.size
          BY <1>1, <2>0, <2>1, <3>0, <4>1
        <4>4. c.kind = "buff" => c.used = c.got /\ Len(c.got) < c.size
          BY <2>1, <4>2
        <4>5. c.kind # "cb" /\ ~(c.kind = "buff" /\ c.err = "OK")
          BY <2>1, <2>6
        <4>6. Starts(c.got, c.text) /\ c.total = Len(c.text)
          BY <1>3, <2>0, <2>1
        <4>7. QED
          BY <2>1, <4>3, <4>4, <4>5, <4>6 DEF OutInv
      <3>3. QED
        BY <1>5, <2>1, <3>1, <3>2 DEF p, longer
    <2>7. CASE w.kind = "buff" /\ w.err = "OK" /\ Fits(w, s)
      <3>1. w.got = w.text /\ w.used = w.text
        BY <2>7 DEF OutInv
      <3>2. p = [c EXCEPT !.used = longer, !.got = longer]
        BY <2>1, <2>3, <2>7, <3>1 DEF longer
      <3>3. Len(longer) < w.size
        BY <1>1, <1>2, <2>7, <3>1 DEF Fits
      <3>4. /\ p \in Writers /\ SamePlace(w, p) /\ p.text = longer /\ p.total = total
            /\ p.err = w.err /\ p.used = longer /\ p.got = longer /\ p.kind = w.kind
            /\ p.size = w.size
        BY <1>2, <2>1, <3>2 DEF Writers, SamePlace
      <3>5. Starts(longer, longer)
        BY <1>2, StartsItself
      <3>6. OutInv(p)
        BY <2>0, <2>7, <3>3, <3>4, <3>5 DEF OutInv
      <3>7. QED
        BY <1>5, <3>4, <3>6 DEF p, longer
    <2>8. CASE w.kind = "buff" /\ w.err = "OK" /\ ~Fits(w, s)
      <3>1. w.got = w.text /\ w.used = w.text /\ Len(w.got) < w.size
        BY <2>8 DEF OutInv
      <3>2. p = [c EXCEPT !.err = "TOO_LARGE"]
        BY <2>3, <2>8
      <3>3. total >= w.size
        BY <1>1, <1>2, <2>0, <2>8, <3>1 DEF Fits
      <3>4. /\ p \in Writers /\ SamePlace(w, p) /\ p.text = longer /\ p.total = total
            /\ p.err = "TOO_LARGE" /\ p.used = w.used /\ p.got = w.got /\ p.kind = w.kind
            /\ p.size = w.size
        BY <2>1, <3>2 DEF Writers, SamePlace, WriterErrs
      <3>5. OutInv(p)
        BY <1>3, <2>0, <2>8, <3>1, <3>3, <3>4 DEF OutInv
      <3>6. QED
        BY <1>5, <3>4, <3>5 DEF p, longer
    <2>9. QED
      BY <2>4, <2>5, <2>6, <2>7, <2>8
  <1>6. QED
    BY <1>4, <1>5

\* Nothing is out that wasn't, when an error is noted.
LEMMA FailKeeps ==
    ASSUME NEW w, OutInv(w), NEW err \in WriterErrs \ {"OK", "TOO_LARGE"}
    PROVE  OutInv(fail(w, err)) /\ stopped(fail(w, err)) /\ SamePlace(w, fail(w, err))
  <1> DEFINE f == fail(w, err)
  <1>1. CASE stopped(w)
    <2>1. f = w
      BY <1>1, Zenon DEF fail
    <2>2. QED
      BY <1>1, <2>1 DEF SamePlace
  <1>2. CASE ~stopped(w)
    <2>1. f = [w EXCEPT !.err = err]
      BY <1>2, Zenon DEF fail
    <2> HIDE DEF f
    <2>2. /\ f \in Writers /\ f.err = err /\ f.got = w.got /\ f.text = w.text /\ f.used = w.used
          /\ SamePlace(w, f)
      BY <2>1 DEF OutInv, Writers, WriterErrs, SamePlace
    <2>3. stopped(f)
      BY <2>2 DEF stopped
    <2>4. OutInv(f)
      BY <2>2, <2>3 DEF OutInv, SamePlace
    <2>5. QED
      BY <2>2, <2>3, <2>4 DEF f
  <1>3. QED
    BY <1>1, <1>2

-----------------------------------------------------------------------------
(* What a text reads as.                                                   *)

\* What has been read of it, one symbol more at a time.
TextStart == [open |-> <<>>, expects |-> ValueStarts]
TextReads(s, n, f) ==
    f = [i \in 0 .. n |-> IF i = 0 THEN TextStart ELSE ReadSymbol(f[i - 1], s[i])]
TextRead(s) == CHOOSE f : TextReads(s, Len(s), f)

\* There is such a function.
LEMMA TextReadsExist ==
    ASSUME NEW s, NEW n \in Nat
    PROVE  \E f : TextReads(s, n, f)
  <1> DEFINE Bad == {m \in Nat : ~\E f : TextReads(s, m, f)}
  <1>1. Bad = {}
    <2> SUFFICES ASSUME Bad # {} PROVE FALSE
      OBVIOUS
    <2>1. PICK m \in Bad : \A l \in Bad : m <= l
      <3>1. Bad \in SUBSET Nat
        OBVIOUS
      <3>2. QED
        BY <3>1, Least
    <2>2. m \in Nat /\ ~\E f : TextReads(s, m, f)
      BY <2>1
    <2>3. m # 0
      <3>1. TextReads(s, 0, [i \in 0 .. 0 |-> TextStart])
        BY DEF TextReads
      <3>2. QED
        BY <2>2, <3>1
    <2>4. PICK f : TextReads(s, m - 1, f)
      BY <2>1, <2>2, <2>3
    <2> DEFINE last == ReadSymbol(f[m - 1], s[m])
               g == [i \in 0 .. m |-> IF i = m THEN last ELSE f[i]]
    <2>5. f = [i \in 0 .. (m - 1) |-> IF i = 0 THEN TextStart ELSE ReadSymbol(f[i - 1], s[i])]
      BY <2>4 DEF TextReads
    <2>6. ASSUME NEW i \in 0 .. m
          PROVE  g[i] = IF i = 0 THEN TextStart ELSE ReadSymbol(g[i - 1], s[i])
      <3>1. CASE i = m
        <4>1. g[i] = last
          BY <3>1
        <4>2. g[m - 1] = f[m - 1]
          BY <2>2, <2>3
        <4>3. QED
          BY <2>3, <3>1, <4>1, <4>2
      <3>2. CASE i # m
        <4>1. i \in 0 .. (m - 1) /\ g[i] = f[i]
          BY <2>2, <3>2
        <4>2. i # 0 => g[i - 1] = f[i - 1]
          BY <2>2, <3>2
        <4>3. f[i] = IF i = 0 THEN TextStart ELSE ReadSymbol(f[i - 1], s[i])
          BY <2>5, <4>1
        <4> HIDE DEF g
        <4>4. QED
          BY <4>1, <4>2, <4>3
      <3>3. QED
        BY <3>1, <3>2
    <2>7. TextReads(s, m, g)
      <3> HIDE DEF last
      <3>1. g = [i \in 0 .. m |-> g[i]]
        OBVIOUS
      <3> HIDE DEF g
      <3>2. QED
        BY <2>6, <3>1, Zenon DEF TextReads
    <2>8. QED
      BY <2>2, <2>7
  <1>2. QED
    BY <1>1

\* It is what the text reads as.
LEMMA TextReadIs ==
    ASSUME NEW S, NEW s \in Seq(S)
    PROVE  /\ TextRead(s)[0] = TextStart
           /\ \A i \in 1 .. Len(s) : TextRead(s)[i] = ReadSymbol(TextRead(s)[i - 1], s[i])
           /\ ReadText(s) = TextRead(s)[Len(s)]
  <1> DEFINE R == TextRead(s)
             n == Len(s)
  <1>1. n \in Nat
    OBVIOUS
  <1>2. ReadText(s) = R[n]
    BY Zenon DEF ReadText, TextRead, TextReads, TextStart
  <1>3. \E f : TextReads(s, n, f)
    BY <1>1, TextReadsExist
  <1>4. TextReads(s, n, R)
    <2> HIDE DEF n
    <2>1. QED
      BY <1>3, Zenon DEF TextRead, n
  <1> HIDE DEF R, n
  <1>5. /\ R[0] = TextStart
        /\ \A i \in 1 .. n : R[i] = ReadSymbol(R[i - 1], s[i])
    BY <1>1, <1>4 DEF TextReads
  <1>6. QED
    BY <1>2, <1>5 DEF R, n

\* One more symbol is read after those before it.
LEMMA OneMoreRead ==
    ASSUME NEW S, NEW s \in Seq(S), NEW x \in S
    PROVE  ReadText(s \o <<x>>) = ReadSymbol(ReadText(s), x)
  <1> DEFINE t == s \o <<x>>
             n == Len(s)
             P == TextRead(s)
             Q == TextRead(t)
             Bad == {i \in Nat : i <= n /\ P[i] # Q[i]}
  <1>1. /\ t \in Seq(S) /\ Len(t) = n + 1 /\ n \in Nat /\ t[n + 1] = x
        /\ \A i \in 1 .. n : t[i] = s[i]
    OBVIOUS
  <1> HIDE DEF t
  <1>2. /\ P[0] = TextStart /\ ReadText(s) = P[n]
        /\ \A i \in 1 .. n : P[i] = ReadSymbol(P[i - 1], s[i])
    BY TextReadIs
  <1>3. /\ Q[0] = TextStart /\ ReadText(t) = Q[n + 1]
        /\ \A i \in 1 .. (n + 1) : Q[i] = ReadSymbol(Q[i - 1], t[i])
    <2>1. /\ Q[0] = TextStart /\ ReadText(t) = Q[Len(t)]
          /\ \A i \in 1 .. Len(t) : Q[i] = ReadSymbol(Q[i - 1], t[i])
      BY <1>1, TextReadIs
    <2>2. QED
      BY <1>1, <2>1
  <1> HIDE DEF P, Q, n
  <1>4. Bad = {}
    <2> SUFFICES ASSUME Bad # {} PROVE FALSE
      OBVIOUS
    <2>1. PICK m \in Bad : \A l \in Bad : m <= l
      <3>1. Bad \in SUBSET Nat
        OBVIOUS
      <3>2. QED
        BY <3>1, Least
    <2>2. m \in Nat /\ m <= n /\ P[m] # Q[m] /\ m # 0
      BY <1>2, <1>3, <2>1
    <2>3. m \in 1 .. n /\ m \in 1 .. (n + 1) /\ m - 1 \in Nat /\ m - 1 <= n
      BY <1>1, <2>2
    <2>4. P[m - 1] = Q[m - 1]
      BY <2>1, <2>3
    <2>5. QED
      BY <1>1, <1>2, <1>3, <2>2, <2>3, <2>4
  <1>5. P[n] = Q[n]
    BY <1>1, <1>4
  <1>6. Q[n + 1] = ReadSymbol(Q[n], x)
    <2>1. n + 1 \in 1 .. (n + 1) /\ (n + 1) - 1 = n
      BY <1>1
    <2>2. QED
      BY <1>1, <1>3, <2>1
  <1>7. QED
    BY <1>2, <1>3, <1>5, <1>6 DEF t

\* Nothing reads as the start.
LEMMA NothingReads == ReadText(<<>>) = TextStart
  <1>1. <<>> \in Seq({}) /\ Len(<<>>) = 0
    OBVIOUS
  <1>2. QED
    BY <1>1, TextReadIs

\* What is read of a text, as what is open and what may come next.
EndSymbols == {"object_end", "array_end"}
ReadAs(open, expects) == [open |-> open, expects |-> expects]
ValueRead(open) == ReadAs(open, IF open = <<>> THEN {"LF"} ELSE {"comma", Last(open)})

\* How each of them is read after what is open.
LEMMA SymbolReads ==
    ASSUME NEW open \in Seq(EndSymbols), NEW expects
    PROVE  LET r == ReadAs(open, expects)
           IN  /\ "object" \in expects => ReadSymbol(r, "object") =
                    ReadAs(Append(open, "object_end"), {"k", "object_end"})
               /\ "array" \in expects => ReadSymbol(r, "array") =
                    ReadAs(Append(open, "array_end"), ValueStarts \cup {"array_end"})
               /\ \A x \in EndSymbols : x \in expects => ReadSymbol(r, x) = ValueRead(Front(open))
               /\ "k" \in expects => ReadSymbol(r, "k") = ReadAs(open, {"colon"})
               /\ "v" \in expects => ReadSymbol(r, "v") = ReadAs(open, {"w"})
               /\ "w" \in expects => ReadSymbol(r, "w") = ValueRead(open)
               /\ "comma" \in expects => ReadSymbol(r, "comma") =
                    ReadAs(open, IF Last(open) = "object_end" THEN {"k"} ELSE ValueStarts)
               /\ "colon" \in expects => ReadSymbol(r, "colon") = ReadAs(open, ValueStarts)
               /\ "LF" \in expects => ReadSymbol(r, "LF") = ReadAs(open, ValueStarts)
  <1> DEFINE r == ReadAs(open, expects)
  <1>1. ASSUME "object" \in expects
        PROVE  ReadSymbol(r, "object") = ReadAs(Append(open, "object_end"), {"k", "object_end"})
    BY <1>1 DEF ReadSymbol, ReadAs
  <1>2. ASSUME "array" \in expects
        PROVE  ReadSymbol(r, "array") =
                 ReadAs(Append(open, "array_end"), ValueStarts \cup {"array_end"})
    BY <1>2 DEF ReadSymbol, ReadAs
  <1>3. ASSUME NEW x \in EndSymbols, x \in expects PROVE ReadSymbol(r, x) = ValueRead(Front(open))
    BY <1>3 DEF ReadSymbol, ReadAs, ValueRead, EndSymbols
  <1>4. ASSUME "k" \in expects PROVE ReadSymbol(r, "k") = ReadAs(open, {"colon"})
    BY <1>4 DEF ReadSymbol, ReadAs
  <1>5. ASSUME "v" \in expects PROVE ReadSymbol(r, "v") = ReadAs(open, {"w"})
    BY <1>5 DEF ReadSymbol, ReadAs
  <1>6. ASSUME "w" \in expects PROVE ReadSymbol(r, "w") = ValueRead(open)
    BY <1>6 DEF ReadSymbol, ReadAs, ValueRead
  <1>7. ASSUME "comma" \in expects
        PROVE  ReadSymbol(r, "comma") =
                 ReadAs(open, IF Last(open) = "object_end" THEN {"k"} ELSE ValueStarts)
    BY <1>7 DEF ReadSymbol, ReadAs
  <1>8. ASSUME "colon" \in expects PROVE ReadSymbol(r, "colon") = ReadAs(open, ValueStarts)
    BY <1>8 DEF ReadSymbol, ReadAs
  <1>9. ASSUME "LF" \in expects PROVE ReadSymbol(r, "LF") = ReadAs(open, ValueStarts)
    BY <1>9 DEF ReadSymbol, ReadAs
  <1>10. QED
    BY <1>1, <1>2, <1>3, <1>4, <1>5, <1>6, <1>7, <1>8, <1>9, Zenon

-----------------------------------------------------------------------------
(* What is open, and what may come next.                                   *)

\* How the levels end, from the outermost on.
Closers(levels) == [i \in 1 .. Len(levels) |-> EndOf(levels[i].object)]

\* A level that a value is in.
Under(level) == level.has_member /\ ~level.after_key

\* What may come next, by the levels.
Expected(w) ==
    IF w.levels = <<>> THEN (IF w.top_done THEN {"LF"} ELSE ValueStarts)
    ELSE IF Top(w).after_key THEN ValueStarts
    ELSE IF Top(w).has_member THEN {"comma", EndOf(Top(w).object)}
    ELSE {EndOf(Top(w).object)} \cup (IF Top(w).object THEN {"k"} ELSE ValueStarts)

\* The text reads as the levels say.
ReadsAsLevels(w) ==
    /\ ReadText(w.text) = ReadAs(Closers(w.levels), Expected(w))
    /\ \A i \in 1 .. (Len(w.levels) - 1) : Under(w.levels[i])
    /\ w.levels # <<>> /\ Top(w).after_key => Top(w).object /\ Top(w).has_member
    /\ w.levels = <<>> /\ ~w.top_done /\ w.records > 0 => w.text # <<>> /\ Last(w.text) = "LF"

PlaceInv(w) == OutInv(w) /\ (~stopped(w) => ReadsAsLevels(w))

\* Here a value may begin.
CanBegin(w) ==
    /\ \E expects : /\ ReadText(w.text) = ReadAs(Closers(w.levels), expects)
                    /\ ValueStarts \subseteq expects
    /\ \A i \in 1 .. Len(w.levels) : Under(w.levels[i])
    /\ w.levels = <<>> => ~w.top_done

\* Here one has ended.
HasEnded(w) ==
    /\ ReadText(w.text) = ValueRead(Closers(w.levels))
    /\ \A i \in 1 .. Len(w.levels) : Under(w.levels[i])

\* The ends of levels.
LEMMA ClosersType ==
    ASSUME NEW levels \in Seq(Levels)
    PROVE  /\ Closers(levels) \in Seq(EndSymbols) /\ Len(Closers(levels)) = Len(levels)
           /\ Closers(levels) = <<>> <=> levels = <<>>
           /\ \A i \in 1 .. Len(levels) : Closers(levels)[i] = EndOf(levels[i].object)
           /\ levels # <<>> => Last(Closers(levels)) = EndOf(levels[Len(levels)].object)
  <1> DEFINE c == Closers(levels)
             n == Len(levels)
  <1>1. n \in Nat /\ (levels = <<>> <=> n = 0)
    OBVIOUS
  <1>2. c = [i \in 1 .. n |-> c[i]] /\ \A i \in 1 .. n : c[i] = EndOf(levels[i].object)
    BY DEF Closers
  <1>3. \A i \in 1 .. n : c[i] \in EndSymbols
    BY <1>2 DEF EndOf, EndSymbols
  <1> HIDE DEF c, n
  <1>4. c \in Seq(EndSymbols) /\ Len(c) = n
    BY <1>1, <1>2, <1>3
  <1>5. n # 0 => Last(c) = EndOf(levels[n].object)
    BY <1>1, <1>2, <1>4 DEF Last
  <1>6. c = <<>> <=> n = 0
    BY <1>1, <1>4
  <1>7. QED
    BY <1>1, <1>2, <1>4, <1>5, <1>6 DEF c, n

\* Of a level more, and of one fewer.
LEMMA ClosersAppend ==
    ASSUME NEW levels \in Seq(Levels), NEW level \in Levels
    PROVE  Closers(Append(levels, level)) = Append(Closers(levels), EndOf(level.object))
  <1> DEFINE more == Append(levels, level)
             a == Closers(more)
             b == Append(Closers(levels), EndOf(level.object))
             n == Len(levels)
  <1>1. /\ more \in Seq(Levels) /\ Len(more) = n + 1 /\ n \in Nat /\ more[n + 1] = level
        /\ \A i \in 1 .. n : more[i] = levels[i]
    OBVIOUS
  <1>2. EndOf(level.object) \in EndSymbols
    BY DEF EndOf, EndSymbols
  <1>3. /\ Closers(levels) \in Seq(EndSymbols) /\ Len(Closers(levels)) = n
        /\ \A i \in 1 .. n : Closers(levels)[i] = EndOf(levels[i].object)
    BY ClosersType
  <1> HIDE DEF more
  <1>4. /\ a \in Seq(EndSymbols) /\ Len(a) = n + 1
        /\ \A i \in 1 .. (n + 1) : a[i] = EndOf(more[i].object)
    BY <1>1, ClosersType
  <1>5. /\ b \in Seq(EndSymbols) /\ Len(b) = n + 1 /\ b[n + 1] = EndOf(level.object)
        /\ \A i \in 1 .. n : b[i] = Closers(levels)[i]
    BY <1>1, <1>2, <1>3
  <1> HIDE DEF a, b, n
  <1>6. SameTo(a, b, n + 1)
    BY <1>1, <1>3, <1>4, <1>5, SMTT(30) DEF SameTo
  <1>7. a = b
    BY <1>4, <1>5, <1>6, SameElements
  <1>8. QED
    BY <1>7 DEF a, b, more

\* Without the innermost level they end one level less.
LEMMA ClosersFront ==
    ASSUME NEW levels \in Seq(Levels), levels # <<>>
    PROVE  /\ Front(levels) \in Seq(Levels) /\ Len(Front(levels)) = Len(levels) - 1
           /\ \A i \in 1 .. (Len(levels) - 1) : Front(levels)[i] = levels[i]
           /\ Closers(Front(levels)) = Front(Closers(levels))
  <1> DEFINE less == Front(levels)
             c == Closers(levels)
             a == Closers(less)
             b == Front(c)
             n == Len(levels) - 1
  <1>1. /\ less \in Seq(Levels) /\ Len(less) = n /\ n \in Nat /\ Len(levels) = n + 1
        /\ \A i \in 1 .. n : less[i] = levels[i]
    <2>1. n \in Nat /\ Len(levels) = n + 1
      OBVIOUS
    <2>2. less = SubSeq(levels, 1, n)
      BY DEF Front
    <2> HIDE DEF n, less
    <2>3. n \in 0 .. Len(levels)
      BY <2>1
    <2>4. QED
      BY <2>1, <2>2, <2>3, FirstPartType
  <1>2. /\ c \in Seq(EndSymbols) /\ Len(c) = n + 1
        /\ \A i \in 1 .. (n + 1) : c[i] = EndOf(levels[i].object)
    BY <1>1, ClosersType
  <1> HIDE DEF less, c, n
  <1>3. /\ a \in Seq(EndSymbols) /\ Len(a) = n
        /\ \A i \in 1 .. n : a[i] = EndOf(less[i].object)
    BY <1>1, ClosersType
  <1>4. /\ b \in Seq(EndSymbols) /\ Len(b) = n
        /\ \A i \in 1 .. n : b[i] = c[i]
    BY <1>1, <1>2 DEF Front
  <1> HIDE DEF a, b
  <1>5. SameTo(a, b, n)
    BY <1>1, <1>2, <1>3, <1>4 DEF SameTo
  <1>6. a = b
    BY <1>3, <1>4, <1>5, SameElements
  <1>7. QED
    BY <1>1, <1>6 DEF a, b, c, less, n

\* Another level of the same kind innermost.
LEMMA SetTopKeeps ==
    ASSUME NEW w, OutInv(w), w.levels # <<>>, NEW level \in Levels, level.object = Top(w).object
    PROVE  LET v == SetTop(w, level)
           IN  /\ OutInv(v) /\ v.text = w.text /\ v.kind = w.kind /\ v.top_done = w.top_done
               /\ v.records = w.records /\ (stopped(v) <=> stopped(w))
               /\ v.levels # <<>> /\ Top(v) = level /\ Len(v.levels) = Len(w.levels)
               /\ v.levels[Len(w.levels)] = level
               /\ \A i \in 1 .. (Len(w.levels) - 1) : v.levels[i] = w.levels[i]
               /\ Closers(v.levels) = Closers(w.levels)
  <1> DEFINE l == w.levels
             n == Len(l)
             m == [l EXCEPT ![n] = level]
             v == SetTop(w, level)
  <1>1. l \in Seq(Levels) /\ n \in Nat /\ n # 0
    BY DEF OutInv, Writers
  <1>2. /\ m \in Seq(Levels) /\ Len(m) = n /\ m[n] = level /\ m # <<>>
        /\ \A i \in 1 .. (n - 1) : m[i] = l[i]
    BY <1>1
  <1>3. v = [w EXCEPT !.levels = m]
    BY Zenon DEF SetTop
  <1> HIDE DEF m, v
  <1>4. /\ v \in Writers /\ v.levels = m /\ v.text = w.text /\ v.kind = w.kind
        /\ v.top_done = w.top_done /\ v.records = w.records /\ v.err = w.err /\ v.got = w.got
        /\ v.used = w.used /\ v.total = w.total /\ v.size = w.size
    BY <1>2, <1>3 DEF OutInv, Writers
  <1>5. stopped(v) <=> stopped(w)
    BY <1>4 DEF stopped
  <1>6. OutInv(v)
    BY <1>4, <1>5 DEF OutInv
  <1>7. Top(v) = level
    BY <1>2, <1>4 DEF Top
  <1>8. Closers(m) = Closers(l)
    <2>1. \A i \in 1 .. n : m[i].object = l[i].object
      BY <1>1, <1>2 DEF Top
    <2> HIDE DEF l, n
    <2>2. QED
      BY <1>2, <2>1, Zenon DEF Closers, n
  <1>9. QED
    BY <1>2, <1>4, <1>5, <1>6, <1>7, <1>8 DEF v

-----------------------------------------------------------------------------
(* The calls.                                                              *)

\* A symbol that may come next is read.
LEMMA SymbolPut ==
    ASSUME NEW w, OutInv(w), NEW x \in Symbols, NEW open, NEW expects,
           ReadText(w.text) = ReadAs(open, expects)
    PROVE  LET p == put(w, <<x>>)
           IN  /\ OutInv(p) /\ SamePlace(w, p)
               /\ stopped(w) => p = w
               /\ ~stopped(w) => /\ p.text = w.text \o <<x>>
                                 /\ ReadText(p.text) = ReadSymbol(ReadAs(open, expects), x)
  <1>1. <<x>> \in Seq(Symbols) /\ <<x>> # <<>>
    OBVIOUS
  <1>2. w.text \in Seq(Symbols)
    BY DEF OutInv, Writers
  <1>3. ReadText(w.text \o <<x>>) = ReadSymbol(ReadAs(open, expects), x)
    BY <1>2, OneMoreRead
  <1> DEFINE p == put(w, <<x>>)
  <1>4. /\ OutInv(p) /\ SamePlace(w, p)
        /\ stopped(w) => p = w
        /\ ~stopped(w) => p.text = w.text \o <<x>>
    BY <1>1, PutKeeps, ZenonT(30)
  <1> HIDE DEF p
  <1>5. QED
    BY <1>3, <1>4 DEF p

\* Before a value.
LEMMA BeginKeeps ==
    ASSUME NEW w, PlaceInv(w), ~stopped(w)
    PROVE  LET b == _begin_value(w)
           IN  /\ OutInv(b) /\ (~stopped(b) => CanBegin(b))
               /\ b.kind = w.kind /\ b.records = w.records /\ Len(b.levels) = Len(w.levels)
  <1> DEFINE b == _begin_value(w)
             t == Top(w)
             o == Closers(w.levels)
             n == Len(w.levels)
  <1>0. OutInv(w) /\ ReadsAsLevels(w)
    BY DEF PlaceInv
  <1>1. w.levels \in Seq(Levels) /\ n \in Nat
    BY <1>0 DEF OutInv, Writers
  <1>2. CASE w.levels = <<>> /\ ~w.top_done
    <2>1. b = w
      BY <1>2, Zenon DEF _begin_value
    <2>2. ReadText(w.text) = ReadAs(o, ValueStarts)
      BY <1>0, <1>2, Zenon DEF ReadsAsLevels, Expected
    <2>3. CanBegin(w)
      BY <1>2, <2>2 DEF CanBegin
    <2>4. QED
      BY <1>0, <2>1, <2>3
  <1>3. CASE \/ w.levels = <<>> /\ w.top_done
             \/ w.levels # <<>> /\ t.object /\ ~t.after_key
    <2>1. b = fail(w, "STRUCTURE")
      BY <1>3, Zenon DEF _begin_value
    <2>2. "STRUCTURE" \in WriterErrs \ {"OK", "TOO_LARGE"}
      BY DEF WriterErrs
    <2>3. QED
      BY <1>0, <2>1, <2>2, FailKeeps DEF SamePlace
  <1>4. CASE w.levels # <<>>
    <2>1. t \in Levels /\ t = w.levels[n] /\ n \in 1 .. n
      BY <1>1, <1>4 DEF Top
    <2>2. /\ \A i \in 1 .. (n - 1) : Under(w.levels[i])
          /\ t.after_key => t.object /\ t.has_member
          /\ ReadText(w.text) = ReadAs(o, Expected(w))
      BY <1>0, <1>4 DEF ReadsAsLevels
    <2> HIDE DEF t
    <2>3. CASE t.object /\ t.after_key
      <3> DEFINE level == [t EXCEPT !.after_key = FALSE]
      <3>1. b = SetTop(w, level)
        BY <1>4, <2>3, Zenon DEF _begin_value, t
      <3>2. level \in Levels /\ level.object = t.object /\ Under(level)
        BY <2>1, <2>2, <2>3 DEF Levels, Under
      <3> HIDE DEF level, b
      <3>3. /\ OutInv(b) /\ b.text = w.text /\ b.kind = w.kind /\ b.top_done = w.top_done
            /\ b.records = w.records /\ b.levels # <<>> /\ Len(b.levels) = n
            /\ b.levels[n] = level /\ \A i \in 1 .. (n - 1) : b.levels[i] = w.levels[i]
            /\ Closers(b.levels) = o
        BY <1>0, <1>4, <3>1, <3>2, SetTopKeeps DEF t
      <3>4. ReadText(b.text) = ReadAs(Closers(b.levels), ValueStarts)
        <4>1. Expected(w) = ValueStarts
          BY <1>4, <2>3 DEF Expected, t
        <4>2. QED
          BY <2>2, <3>3, <4>1
      <3>5. \A i \in 1 .. n : Under(b.levels[i])
        BY <1>1, <2>2, <3>2, <3>3
      <3>6. CanBegin(b)
        BY <3>3, <3>4, <3>5 DEF CanBegin
      <3>7. QED
        BY <3>3, <3>6 DEF b
    <2>4. CASE ~t.object
      <3> DEFINE c == PutComma(w)
                 level == [t EXCEPT !.has_member = TRUE]
      <3>1. b = SetTop(c, level)
        BY <1>4, <2>4, Zenon DEF _begin_value, t
      <3>2. level \in Levels /\ level.object = t.object /\ Under(level) /\ ~t.after_key
        BY <2>1, <2>2, <2>4 DEF Levels, Under
      <3>3. /\ OutInv(c) /\ SamePlace(w, c)
            /\ ~stopped(c) => \E expects : /\ ReadText(c.text) = ReadAs(o, expects)
                                           /\ ValueStarts \subseteq expects
        <4>1. CASE t.has_member
          <5>1. c = put(w, <<"comma">>)
            BY <4>1, Zenon DEF PutComma, t
          <5>2. Expected(w) = {"comma", "array_end"}
            BY <1>4, <2>4, <3>2, <4>1 DEF Expected, EndOf, t
          <5>3. "comma" \in Symbols
            BY DEF Symbols
          <5>4. /\ OutInv(c) /\ SamePlace(w, c)
                /\ ReadText(c.text) = ReadSymbol(ReadAs(o, Expected(w)), "comma")
            BY <1>0, <2>2, <5>1, <5>3, SymbolPut, ZenonT(30)
          <5>5. o \in Seq(EndSymbols) /\ Last(o) = "array_end"
            BY <1>1, <1>4, <2>1, <2>4, ClosersType DEF EndOf
          <5>6. ReadSymbol(ReadAs(o, Expected(w)), "comma") = ReadAs(o, ValueStarts)
            <6>1. "comma" \in Expected(w) /\ Last(o) # "object_end"
              BY <5>2, <5>5
            <6>2. ReadSymbol(ReadAs(o, Expected(w)), "comma") =
                    ReadAs(o, IF Last(o) = "object_end" THEN {"k"} ELSE ValueStarts)
              BY <5>5, <6>1, SymbolReads, ZenonT(30)
            <6>3. QED
              BY <6>1, <6>2
          <5>7. QED
            BY <5>4, <5>6
        <4>2. CASE ~t.has_member
          <5>1. c = w
            BY <4>2, Zenon DEF PutComma, t
          <5>2. Expected(w) = {"array_end"} \cup ValueStarts
            BY <1>4, <2>4, <3>2, <4>2 DEF Expected, EndOf, t
          <5>3. QED
            BY <1>0, <2>2, <5>1, <5>2 DEF SamePlace
        <4>3. QED
          BY <4>1, <4>2
      <3> HIDE DEF c, level, b, o
      <3>4. Top(c) = t /\ c.levels = w.levels
        BY <3>3 DEF SamePlace, Top, t
      <3>5. /\ OutInv(b) /\ b.text = c.text /\ b.kind = c.kind /\ b.top_done = c.top_done
            /\ b.records = c.records /\ (stopped(b) <=> stopped(c))
            /\ b.levels # <<>> /\ Len(b.levels) = n
            /\ b.levels[n] = level /\ \A i \in 1 .. (n - 1) : b.levels[i] = w.levels[i]
            /\ Closers(b.levels) = o
        <4>1. c.levels # <<>> /\ level.object = Top(c).object
          BY <1>4, <3>2, <3>4
        <4> DEFINE d == SetTop(c, level)
                   m == Len(c.levels)
        <4>2. /\ OutInv(d) /\ d.text = c.text /\ d.kind = c.kind /\ d.top_done = c.top_done
              /\ d.records = c.records /\ (stopped(d) <=> stopped(c))
              /\ d.levels # <<>> /\ Len(d.levels) = m
              /\ d.levels[m] = level /\ \A i \in 1 .. (m - 1) : d.levels[i] = c.levels[i]
              /\ Closers(d.levels) = Closers(c.levels)
          BY <3>2, <3>3, <4>1, SetTopKeeps
        <4> HIDE DEF d
        <4>3. QED
          BY <3>1, <3>4, <4>2 DEF d, o
      <3>6. \A i \in 1 .. n : Under(b.levels[i])
        BY <1>1, <2>2, <3>2, <3>5
      <3>7. ~stopped(b) => CanBegin(b)
        BY <3>3, <3>5, <3>6 DEF CanBegin
      <3>8. b.kind = w.kind /\ b.records = w.records
        BY <3>3, <3>5 DEF SamePlace
      <3>9. QED
        BY <3>5, <3>7, <3>8 DEF b
    <2>5. QED
      BY <1>3, <1>4, <2>3, <2>4 DEF t
  <1>5. QED
    BY <1>2, <1>3, <1>4

\* After a value.
LEMMA EndKeeps ==
    ASSUME NEW p, OutInv(p), ~stopped(p) => HasEnded(p)
    PROVE  PlaceInv(_end_value(p))
  <1> DEFINE e == _end_value(p)
             o == Closers(p.levels)
             n == Len(p.levels)
  <1>0. p.levels \in Seq(Levels) /\ n \in Nat
    BY DEF OutInv, Writers
  <1>1. CASE stopped(p)
    <2>1. e = p
      BY <1>1, Zenon DEF _end_value
    <2>2. QED
      BY <1>1, <2>1 DEF PlaceInv
  <1>2. CASE ~stopped(p) /\ p.levels = <<>>
    <2>1. e = [p EXCEPT !.top_done = TRUE]
      BY <1>2, Zenon DEF _end_value
    <2> HIDE DEF e, o
    <2>2. /\ e \in Writers /\ e.levels = <<>> /\ e.text = p.text /\ e.top_done = TRUE
          /\ e.err = p.err /\ e.got = p.got /\ e.used = p.used /\ e.total = p.total
          /\ e.size = p.size /\ e.kind = p.kind
      BY <1>2, <2>1 DEF OutInv, Writers
    <2>3. stopped(e) <=> stopped(p)
      BY <2>2 DEF stopped
    <2>4. OutInv(e)
      BY <2>2, <2>3 DEF OutInv
    <2>5. o = <<>>
      BY <1>0, <1>2, ClosersType DEF o
    <2>6. ReadText(e.text) = ReadAs(Closers(e.levels), Expected(e))
      <3>1. ReadText(p.text) = ReadAs(<<>>, {"LF"})
        BY <1>2, <2>5 DEF HasEnded, ValueRead, o
      <3>2. Closers(e.levels) = <<>>
        BY <1>2, <2>2, <2>5 DEF o
      <3>3. Expected(e) = {"LF"}
        BY <2>2, Zenon DEF Expected
      <3>4. QED
        BY <2>2, <3>1, <3>2, <3>3
    <2>7. Len(<<>>) = 0
      OBVIOUS
    <2>8. ReadsAsLevels(e)
      BY <2>2, <2>6, <2>7 DEF ReadsAsLevels
    <2>9. QED
      BY <2>4, <2>8 DEF PlaceInv, e
  <1>3. CASE ~stopped(p) /\ p.levels # <<>>
    <2>1. e = p
      BY <1>3, Zenon DEF _end_value
    <2>2. n \in 1 .. n /\ Top(p) = p.levels[n]
      BY <1>0, <1>3 DEF Top
    <2>3. Under(Top(p))
      BY <1>3, <2>2 DEF HasEnded
    <2>4. o # <<>> /\ Last(o) = EndOf(Top(p).object)
      BY <1>0, <1>3, <2>2, ClosersType
    <2>5. ReadText(p.text) = ReadAs(o, {"comma", Last(o)})
      <3>1. ReadText(p.text) = ValueRead(o)
        BY <1>3 DEF HasEnded
      <3> HIDE DEF o
      <3>2. QED
        BY <2>4, <3>1 DEF ValueRead
    <2>6. Expected(p) = {"comma", EndOf(Top(p).object)}
      BY <1>3, <2>3, Zenon DEF Expected, Under
    <2>7. \A i \in 1 .. (n - 1) : Under(p.levels[i])
      BY <1>0, <1>3 DEF HasEnded
    <2>8. ReadsAsLevels(p)
      BY <1>3, <2>3, <2>4, <2>5, <2>6, <2>7 DEF ReadsAsLevels, Under
    <2>9. QED
      BY <2>1, <2>8 DEF PlaceInv
  <1>4. QED
    BY <1>1, <1>2, <1>3

\* A value is put where one can begin.
LEMMA ValueKeeps ==
    ASSUME NEW w, OutInv(w), ~stopped(w), CanBegin(w)
    PROVE  /\ PlaceInv(_end_value(put(w, <<"v", "w">>)))
           /\ PlaceInv(_end_value(put(put(w, <<"v">>), <<"w">>)))
  <1> DEFINE o == Closers(w.levels)
             p == put(w, <<"v">>)
             q == put(p, <<"w">>)
             r == put(w, <<"v", "w">>)
  <1>1. PICK expects : ReadText(w.text) = ReadAs(o, expects) /\ ValueStarts \subseteq expects
    BY DEF CanBegin
  <1>2. o \in Seq(EndSymbols) /\ w.text \in Seq(Symbols)
    BY ClosersType DEF OutInv, Writers
  <1>3. "v" \in Symbols /\ "w" \in Symbols /\ "v" \in expects
    BY <1>1 DEF Symbols, ValueStarts
  <1>4. ReadSymbol(ReadAs(o, expects), "v") = ReadAs(o, {"w"})
    BY <1>2, <1>3, SymbolReads, ZenonT(30)
  <1>5. ReadSymbol(ReadAs(o, {"w"}), "w") = ValueRead(o)
    <2>1. "w" \in {"w"}
      OBVIOUS
    <2>2. QED
      BY <1>2, <2>1, SymbolReads, ZenonT(30)
  <1>6. /\ OutInv(p) /\ SamePlace(w, p) /\ p.text = w.text \o <<"v">>
        /\ ReadText(p.text) = ReadSymbol(ReadAs(o, expects), "v")
    BY <1>1, <1>3, SymbolPut, ZenonT(30)
  <1>7. ReadText(p.text) = ReadAs(o, {"w"})
    BY <1>4, <1>6
  <1>8. /\ OutInv(q) /\ SamePlace(p, q) /\ (stopped(p) => q = p)
        /\ ~stopped(p) => ReadText(q.text) = ReadSymbol(ReadAs(o, {"w"}), "w")
    <2> HIDE DEF p, o
    <2>1. OutInv(p) /\ "w" \in Symbols /\ ReadText(p.text) = ReadAs(o, {"w"})
      BY <1>3, <1>6, <1>7
    <2> DEFINE last == {"w"}
    <2>2. ReadText(p.text) = ReadAs(o, last)
      BY <2>1
    <2> HIDE DEF last
    <2>3. /\ OutInv(q) /\ SamePlace(p, q) /\ (stopped(p) => q = p)
          /\ ~stopped(p) => ReadText(q.text) = ReadSymbol(ReadAs(o, last), "w")
      BY <2>1, <2>2, SymbolPut, ZenonT(30)
    <2>4. QED
      BY <2>3, Zenon DEF last
  <1>9. /\ OutInv(r) /\ SamePlace(w, r) /\ r.text = w.text \o <<"v", "w">>
    <2>1. <<"v", "w">> \in Seq(Symbols) /\ <<"v", "w">> # <<>>
      BY DEF Symbols
    <2>2. QED
      BY <2>1, PutKeeps, ZenonT(30)
  <1>10. ReadText(r.text) = ValueRead(o)
    <2>1. p.text \in Seq(Symbols)
      BY <1>6 DEF OutInv, Writers
    <2>2. ReadText(p.text \o <<"w">>) = ValueRead(o)
      BY <1>3, <1>5, <1>7, <2>1, OneMoreRead
    <2>3. p.text \o <<"w">> = r.text
      <3>1. <<"v">> \in Seq(Symbols) /\ <<"w">> \in Seq(Symbols)
        BY <1>3
      <3>2. Groups(w.text, <<"v">>, <<"w">>)
        BY <1>2, <3>1, Associative, Zenon
      <3>3. <<"v">> \o <<"w">> = <<"v", "w">>
        BY <1>3, Pair, Zenon
      <3>4. QED
        BY <1>6, <1>9, <3>2, <3>3 DEF Groups
    <2>4. QED
      BY <2>2, <2>3
  <1> HIDE DEF p, q, r
  <1>11. \A i \in 1 .. Len(w.levels) : Under(w.levels[i])
    BY DEF CanBegin
  <1>12. PlaceInv(_end_value(r))
    <2>1. HasEnded(r)
      BY <1>9, <1>10, <1>11 DEF HasEnded, SamePlace
    <2>2. QED
      BY <1>9, <2>1, EndKeeps
  <1>13. PlaceInv(_end_value(q))
    <2>1. ~stopped(q) => ReadText(q.text) = ValueRead(o)
      BY <1>5, <1>8
    <2>2. ~stopped(q) => HasEnded(q)
      BY <1>6, <1>8, <1>11, <2>1 DEF HasEnded, SamePlace
    <2>3. QED
      BY <1>8, <2>2, EndKeeps
  <1>14. QED
    BY <1>12, <1>13 DEF p, q, r

\* A level begins where a value can.
LEMMA StartKeeps ==
    ASSUME NEW w, OutInv(w), ~stopped(w), CanBegin(w), NEW object \in BOOLEAN
    PROVE  PlaceInv(put([w EXCEPT !.levels = Append(@,
                           [object |-> object, has_member |-> FALSE, after_key |-> FALSE])],
                        <<BeginOf(object)>>))
  <1> DEFINE level == [object |-> object, has_member |-> FALSE, after_key |-> FALSE]
             l == w.levels
             n == Len(l)
             m == Append(l, level)
             v == [w EXCEPT !.levels = m]
             x == BeginOf(object)
             p == put(v, <<x>>)
             o == Closers(l)
  <1>1. l \in Seq(Levels) /\ n \in Nat /\ level \in Levels
    BY DEF OutInv, Writers, Levels
  <1>2. /\ m \in Seq(Levels) /\ Len(m) = n + 1 /\ m[n + 1] = level /\ m # <<>>
        /\ \A i \in 1 .. n : m[i] = l[i]
    <2> HIDE DEF level, l
    <2>1. QED
      BY <1>1
  <1>3. o \in Seq(EndSymbols) /\ Closers(m) = Append(o, EndOf(object))
    <2>1. level.object = object
      OBVIOUS
    <2>2. Closers(m) = Append(o, EndOf(level.object))
      BY <1>1, ClosersAppend
    <2>3. QED
      BY <1>1, <2>1, <2>2, ClosersType
  <1>4. PICK expects : ReadText(w.text) = ReadAs(o, expects) /\ ValueStarts \subseteq expects
    BY DEF CanBegin
  <1>5. level.has_member = FALSE /\ level.after_key = FALSE /\ level.object = object
    OBVIOUS
  <1> HIDE DEF level, m
  <1>6. /\ v \in Writers /\ v.levels = m /\ v.text = w.text /\ v.kind = w.kind /\ v.err = w.err
        /\ v.got = w.got /\ v.used = w.used /\ v.total = w.total /\ v.size = w.size
    BY <1>2 DEF OutInv, Writers
  <1> HIDE DEF v, o
  <1>7. ~stopped(v)
    BY <1>6 DEF stopped
  <1>8. OutInv(v)
    BY <1>6, <1>7 DEF OutInv, stopped
  <1>9. x \in Symbols /\ x \in expects
    BY <1>4 DEF BeginOf, Symbols, ValueStarts
  <1>10. ReadText(v.text) = ReadAs(o, expects)
    BY <1>4, <1>6
  <1>11. /\ OutInv(p) /\ SamePlace(v, p)
         /\ ReadText(p.text) = ReadSymbol(ReadAs(o, expects), x)
    BY <1>7, <1>8, <1>9, <1>10, SymbolPut, ZenonT(30)
  <1>12. ReadSymbol(ReadAs(o, expects), x) =
           ReadAs(Closers(m), {EndOf(object)} \cup (IF object THEN {"k"} ELSE ValueStarts))
    <2>1. CASE object
      <3>1. x = "object" /\ EndOf(object) = "object_end"
        BY <2>1 DEF BeginOf, EndOf
      <3>2. "object" \in expects
        BY <1>9, <3>1
      <3>3. ReadSymbol(ReadAs(o, expects), "object") =
              ReadAs(Append(o, "object_end"), {"k", "object_end"})
        BY <1>3, <3>2, SymbolReads, ZenonT(30)
      <3>4. {"k", "object_end"} = {"object_end"} \cup {"k"}
        OBVIOUS
      <3>5. QED
        BY <1>3, <2>1, <3>1, <3>3, <3>4
    <2>2. CASE ~object
      <3>1. x = "array" /\ EndOf(object) = "array_end"
        BY <2>2 DEF BeginOf, EndOf
      <3>2. "array" \in expects
        BY <1>9, <3>1
      <3>3. ReadSymbol(ReadAs(o, expects), "array") =
              ReadAs(Append(o, "array_end"), ValueStarts \cup {"array_end"})
        BY <1>3, <3>2, SymbolReads, ZenonT(30)
      <3>4. ValueStarts \cup {"array_end"} = {"array_end"} \cup ValueStarts
        OBVIOUS
      <3>5. QED
        BY <1>3, <2>2, <3>1, <3>3, <3>4
    <2>3. QED
      BY <2>1, <2>2
  <1> HIDE DEF x, p
  <1>13. p.levels = m /\ Top(p) = level
    BY <1>1, <1>2, <1>6, <1>11 DEF SamePlace, Top
  <1>14. Expected(p) = {EndOf(object)} \cup (IF object THEN {"k"} ELSE ValueStarts)
    BY <1>2, <1>5, <1>13, Zenon DEF Expected
  <1>15. \A i \in 1 .. (Len(p.levels) - 1) : Under(p.levels[i])
    BY <1>1, <1>2, <1>13 DEF CanBegin
  <1>16. ReadsAsLevels(p)
    BY <1>2, <1>5, <1>11, <1>12, <1>13, <1>14, <1>15 DEF ReadsAsLevels
  <1>17. PlaceInv(p)
    BY <1>11, <1>16 DEF PlaceInv
  <1>18. QED
    BY <1>17 DEF p, v, x, m, level, l

\* A level ends, with no key before.
LEMMA EndOfLevelKeeps ==
    ASSUME NEW w, PlaceInv(w), ~stopped(w), w.levels # <<>>, ~Top(w).after_key,
           NEW object, object = Top(w).object
    PROVE  PlaceInv(_end_value(put([w EXCEPT !.levels = Front(@)], <<EndOf(object)>>)))
  <1> DEFINE l == w.levels
             n == Len(l) - 1
             m == Front(l)
             v == [w EXCEPT !.levels = m]
             x == EndOf(object)
             p == put(v, <<x>>)
             o == Closers(l)
  <1>1. OutInv(w) /\ ReadsAsLevels(w) /\ l \in Seq(Levels)
    BY DEF PlaceInv, OutInv, Writers
  <1>2. /\ m \in Seq(Levels) /\ Len(m) = n /\ Closers(m) = Front(o)
        /\ \A i \in 1 .. n : m[i] = l[i]
    BY <1>1, ClosersFront
  <1>3. o \in Seq(EndSymbols) /\ x \in EndSymbols /\ x \in Symbols
    BY <1>1, ClosersType DEF EndOf, EndSymbols, Symbols
  <1>4. x \in Expected(w) /\ ReadText(w.text) = ReadAs(o, Expected(w))
    BY <1>1 DEF Expected, ReadsAsLevels
  <1> HIDE DEF m, n
  <1>5. /\ v \in Writers /\ v.levels = m /\ v.text = w.text /\ v.kind = w.kind /\ v.err = w.err
        /\ v.got = w.got /\ v.used = w.used /\ v.total = w.total /\ v.size = w.size
    BY <1>1, <1>2 DEF OutInv, Writers
  <1> HIDE DEF v, o
  <1>6. ~stopped(v) /\ OutInv(v)
    BY <1>1, <1>5 DEF OutInv, stopped
  <1>7. ReadText(v.text) = ReadAs(o, Expected(w))
    BY <1>4, <1>5
  <1>8. /\ OutInv(p) /\ SamePlace(v, p)
        /\ ReadText(p.text) = ReadSymbol(ReadAs(o, Expected(w)), x)
    BY <1>3, <1>6, <1>7, SymbolPut, ZenonT(30)
  <1>9. ReadSymbol(ReadAs(o, Expected(w)), x) = ValueRead(Front(o))
    BY <1>3, <1>4, SymbolReads, ZenonT(30)
  <1> HIDE DEF p, x
  <1>10. HasEnded(p)
    <2>1. p.levels = m
      BY <1>5, <1>8 DEF SamePlace
    <2>2. \A i \in 1 .. n : Under(l[i])
      BY <1>1 DEF ReadsAsLevels, n
    <2>3. QED
      BY <1>2, <1>8, <1>9, <2>1, <2>2 DEF HasEnded
  <1>11. PlaceInv(_end_value(p))
    BY <1>8, <1>10, EndKeeps
  <1>12. QED
    BY <1>11 DEF p, v, x, m, l

\* A key is put, after a comma if it isn't the first.
LEMMA KeyKeeps ==
    ASSUME NEW w, PlaceInv(w), ~stopped(w), w.levels # <<>>, Top(w).object, ~Top(w).after_key
    PROVE  LET v == SetTop(PutComma(w),
                           [Top(w) EXCEPT !.has_member = TRUE, !.after_key = TRUE])
           IN  PlaceInv(put(put(v, <<"k">>), <<"colon">>))
  <1> DEFINE t == Top(w)
             l == w.levels
             n == Len(l)
             o == Closers(l)
             level == [t EXCEPT !.has_member = TRUE, !.after_key = TRUE]
             c == PutComma(w)
             v == SetTop(c, level)
             p == put(v, <<"k">>)
             q == put(p, <<"colon">>)
  <1>1. OutInv(w) /\ ReadsAsLevels(w) /\ l \in Seq(Levels) /\ n \in Nat
    BY DEF PlaceInv, OutInv, Writers
  <1>2. /\ o \in Seq(EndSymbols) /\ Last(o) = "object_end"
        /\ ReadText(w.text) = ReadAs(o, Expected(w))
        /\ t \in Levels
    BY <1>1, ClosersType DEF EndOf, ReadsAsLevels, Top
  <1>3. /\ level \in Levels /\ level.object = t.object /\ level.has_member /\ level.after_key
    BY <1>2 DEF Levels
  <1>4. /\ OutInv(c) /\ SamePlace(w, c)
        /\ ~stopped(c) => \E expects : ReadText(c.text) = ReadAs(o, expects) /\ "k" \in expects
    <2>1. CASE t.has_member
      <3>1. c = put(w, <<"comma">>)
        BY <2>1, Zenon DEF PutComma
      <3>2. "comma" \in Expected(w) /\ "comma" \in Symbols
        BY <2>1 DEF Expected, Symbols
      <3>3. /\ OutInv(c) /\ SamePlace(w, c)
            /\ ReadText(c.text) = ReadSymbol(ReadAs(o, Expected(w)), "comma")
        BY <1>1, <1>2, <3>1, <3>2, SymbolPut, ZenonT(30)
      <3>4. ReadSymbol(ReadAs(o, Expected(w)), "comma") =
              ReadAs(o, IF Last(o) = "object_end" THEN {"k"} ELSE ValueStarts)
        BY <1>2, <3>2, SymbolReads, ZenonT(30)
      <3>5. ReadText(c.text) = ReadAs(o, {"k"})
        BY <1>2, <3>3, <3>4
      <3>6. QED
        BY <3>3, <3>5
    <2>2. CASE ~t.has_member
      <3>1. c = w
        BY <2>2, Zenon DEF PutComma
      <3>2. "k" \in Expected(w)
        BY <2>2 DEF Expected
      <3>3. QED
        BY <1>1, <1>2, <3>1, <3>2 DEF SamePlace
    <2>3. QED
      BY <2>1, <2>2
  <1> HIDE DEF c, level
  <1>5. c.levels = l /\ Top(c) = t
    BY <1>4 DEF SamePlace, Top
  <1>6. /\ OutInv(v) /\ v.text = c.text /\ (stopped(v) <=> stopped(c))
        /\ v.levels # <<>> /\ Top(v) = level /\ Len(v.levels) = n
        /\ \A i \in 1 .. (n - 1) : v.levels[i] = l[i]
        /\ Closers(v.levels) = o
    <2>1. c.levels # <<>> /\ level.object = Top(c).object
      BY <1>3, <1>5
    <2> DEFINE d == SetTop(c, level)
               m == Len(c.levels)
    <2>2. /\ OutInv(d) /\ d.text = c.text /\ (stopped(d) <=> stopped(c))
          /\ d.levels # <<>> /\ Top(d) = level /\ Len(d.levels) = m
          /\ \A i \in 1 .. (m - 1) : d.levels[i] = c.levels[i]
          /\ Closers(d.levels) = Closers(c.levels)
      BY <1>3, <1>4, <2>1, SetTopKeeps
    <2> HIDE DEF d
    <2>3. QED
      BY <1>5, <2>2 DEF d
  <1> HIDE DEF v, o
  <1>7. CASE stopped(v)
    <2>0. w.text = w.text /\ "k" \in Symbols /\ "colon" \in Symbols
      BY DEF Symbols
    <2>1. p = v
      BY <1>7, Zenon DEF put
    <2>2. q = v
      BY <1>7, <2>1, Zenon DEF put
    <2>3. QED
      BY <1>6, <1>7, <2>2 DEF PlaceInv, v, c, level
  <1>8. CASE ~stopped(v)
    <2>0. "k" \in Symbols /\ "colon" \in Symbols
      BY DEF Symbols
    <2>1. PICK expects : ReadText(v.text) = ReadAs(o, expects) /\ "k" \in expects
      BY <1>4, <1>6, <1>8
    <2>2. /\ OutInv(p) /\ SamePlace(v, p)
          /\ ReadText(p.text) = ReadSymbol(ReadAs(o, expects), "k")
      <3>1. OutInv(v) /\ ~stopped(v) /\ "k" \in Symbols
        BY <1>6, <1>8, <2>0
      <3>2. ReadText(v.text) = ReadAs(o, expects)
        BY <2>1
      <3>3. QED
        BY <3>1, <3>2, SymbolPut, ZenonT(30)
    <2>3. ReadSymbol(ReadAs(o, expects), "k") = ReadAs(o, {"colon"})
      BY <1>2, <2>1, SymbolReads, ZenonT(30)
    <2> DEFINE last == {"colon"}
    <2>4. ReadText(p.text) = ReadAs(o, last) /\ "colon" \in last
      BY <2>2, <2>3
    <2> HIDE DEF last, p
    <2>5. ReadSymbol(ReadAs(o, last), "colon") = ReadAs(o, ValueStarts)
      BY <1>2, <2>4, SymbolReads, ZenonT(30)
    <2>6. /\ OutInv(q) /\ SamePlace(p, q) /\ (stopped(p) => q = p)
          /\ ~stopped(p) => ReadText(q.text) = ReadSymbol(ReadAs(o, last), "colon")
      <3>1. OutInv(p) /\ "colon" \in Symbols
        BY <2>0, <2>2
      <3>2. ReadText(p.text) = ReadAs(o, last)
        BY <2>4
      <3>3. QED
        BY <3>1, <3>2, SymbolPut, ZenonT(30)
    <2> HIDE DEF q
    <2>7. q.levels = v.levels /\ Top(q) = level
      BY <1>6, <2>2, <2>6 DEF SamePlace, Top
    <2>8. Expected(q) = ValueStarts
      BY <1>3, <1>6, <2>7, Zenon DEF Expected
    <2>9. ASSUME ~stopped(q) PROVE ReadsAsLevels(q)
      <3>1. ReadText(q.text) = ReadAs(Closers(q.levels), Expected(q))
        BY <1>6, <2>5, <2>6, <2>7, <2>8, <2>9
      <3>2. \A i \in 1 .. (n - 1) : Under(q.levels[i])
        BY <1>1, <1>6, <2>7 DEF ReadsAsLevels
      <3>3. level.object /\ level.has_member
        BY <1>3
      <3>4. QED
        BY <1>6, <2>7, <3>1, <3>2, <3>3 DEF ReadsAsLevels
    <2>10. PlaceInv(q)
      BY <2>6, <2>9 DEF PlaceInv
    <2>11. QED
      BY <2>10 DEF q, p, v, c, level
  <1>9. QED
    BY <1>7, <1>8

\* A record is complete.
RecordIsDone(w) == w.levels = <<>> /\ w.top_done

\* A record ends.
LEMMA RecordEndKeeps ==
    ASSUME NEW w, PlaceInv(w), ~stopped(w), RecordIsDone(w)
    PROVE  PlaceInv([put(w, <<"LF">>) EXCEPT !.top_done = FALSE, !.records = @ + 1])
  <1> DEFINE x == "LF"
             p == put(w, <<x>>)
             r == [p EXCEPT !.top_done = FALSE, !.records = @ + 1]
             expects == {"LF"}
             o == Closers(w.levels)
  <1>1. OutInv(w) /\ ReadsAsLevels(w) /\ w.text \in Seq(Symbols)
    BY DEF PlaceInv, OutInv, Writers
  <1>2. o = <<>> /\ o \in Seq(EndSymbols)
    <2>1. w.levels \in Seq(Levels)
      BY <1>1 DEF OutInv, Writers
    <2>2. QED
      BY <2>1, ClosersType DEF RecordIsDone
  <1>3. ReadText(w.text) = ReadAs(o, expects)
    BY <1>1, <1>2 DEF ReadsAsLevels, Expected, RecordIsDone
  <1>4. x \in expects /\ x \in Symbols
    BY DEF Symbols
  <1>6. ReadSymbol(ReadAs(o, expects), x) = ReadAs(o, ValueStarts)
    <2> HIDE DEF o, expects
    <2>1. QED
      BY <1>2, <1>4, SymbolReads, ZenonT(30)
  <1> HIDE DEF expects, o, x
  <1>5. /\ OutInv(p) /\ SamePlace(w, p) /\ p.text = w.text \o <<x>>
        /\ ReadText(p.text) = ReadSymbol(ReadAs(o, expects), x)
    <2>1. OutInv(w)
      BY <1>1
    <2>2. x \in Symbols
      BY <1>4
    <2>3. /\ OutInv(p) /\ SamePlace(w, p)
          /\ ~stopped(w) => /\ p.text = w.text \o <<x>>
                            /\ ReadText(p.text) = ReadSymbol(ReadAs(o, expects), x)
      BY <1>3, <2>1, <2>2, SymbolPut, ZenonT(30)
    <2>4. QED
      BY <2>3
  <1>7. p.text # <<>> /\ Last(p.text) = "LF"
    <2>1. /\ p.text \in Seq(Symbols) /\ Len(p.text) = Len(w.text) + 1 /\ Len(w.text) \in Nat
          /\ p.text[Len(w.text) + 1] = x
      <3>1. x \in Symbols
        BY <1>4
      <3>2. p.text = w.text \o <<x>>
        BY <1>5
      <3> HIDE DEF p
      <3>3. <<x>> \in Seq(Symbols) /\ Len(<<x>>) = 1 /\ <<x>>[1] = x
        BY <3>1
      <3>4. /\ p.text \in Seq(Symbols) /\ Len(p.text) = Len(w.text) + 1 /\ Len(w.text) \in Nat
            /\ p.text[Len(w.text) + 1] = x
        BY <1>1, <3>2, <3>3
      <3>5. QED
        BY <3>4
    <2>2. QED
      BY <2>1 DEF Last, x
  <1> HIDE DEF p
  <1>8. p.records \in Nat /\ p.levels = <<>>
    BY <1>5 DEF OutInv, Writers, SamePlace, RecordIsDone
  <1>9. /\ r \in Writers /\ r.levels = <<>> /\ r.top_done = FALSE /\ r.text = p.text
        /\ r.err = p.err /\ r.got = p.got /\ r.used = p.used /\ r.total = p.total
        /\ r.size = p.size /\ r.kind = p.kind
    <2> DEFINE more == p.records + 1
    <2>1. p \in Writers /\ more \in Nat
      BY <1>5, <1>8 DEF OutInv
    <2>2. r = [p EXCEPT !.top_done = FALSE, !.records = more]
      BY <2>1 DEF Writers
    <2> HIDE DEF more, r
    <2>3. QED
      BY <1>8, <2>1, <2>2 DEF Writers
  <1> HIDE DEF r
  <1>10. stopped(r) <=> stopped(p)
    BY <1>9 DEF stopped
  <1>11. OutInv(r)
    BY <1>5, <1>9, <1>10 DEF OutInv
  <1>12. ReadText(r.text) = ReadAs(Closers(r.levels), Expected(r))
    <2>1. Expected(r) = ValueStarts
      BY <1>9, Zenon DEF Expected
    <2>2. Closers(r.levels) = o
      BY <1>8, <1>9, <1>5 DEF o, SamePlace, RecordIsDone
    <2>3. QED
      BY <1>5, <1>6, <1>9, <2>1, <2>2
  <1>13. Len(<<>>) = 0
    OBVIOUS
  <1>14. ReadsAsLevels(r)
    BY <1>7, <1>9, <1>12, <1>13 DEF ReadsAsLevels
  <1>15. QED
    BY <1>11, <1>14 DEF PlaceInv, r, p, x

\* A writer that is finished without an error has written what it began.
WriterInv ==
    /\ PlaceInv(writer)
    /\ finished \in BOOLEAN
    /\ finished /\ ~stopped(writer) =>
            writer.levels = <<>> /\ (writer.top_done \/ writer.records > 0)
    /\ finished /\ writer.kind = "cb" => writer.used = <<>>

\* A writer that failed is somewhere.
LEMMA FailedKeeps ==
    ASSUME NEW w, OutInv(w), NEW err \in WriterErrs \ {"OK", "TOO_LARGE"}
    PROVE  PlaceInv(fail(w, err)) /\ stopped(fail(w, err)) /\ SamePlace(w, fail(w, err))
  BY FailKeeps DEF PlaceInv

\* A writer is nowhere yet (jkii_writer_init_buff(), jkii_writer_init_cb()).
LEMMA WriterStarts == JsonWriterAssumption /\ WriterInit => WriterInv
  <1> SUFFICES ASSUME JsonWriterAssumption, WriterInit PROVE WriterInv
    OBVIOUS
  <1>1. PICK kind \in {"buff", "cb", "none"}, size \in BuffSizes, takes \in Takes :
            writer = [kind |-> kind, size |-> size, takes |-> takes, used |-> <<>>, total |-> 0,
                      err |-> "OK", levels |-> <<>>, top_done |-> FALSE, records |-> 0,
                      got |-> <<>>, text |-> <<>>]
    BY DEF WriterInit
  <1>2. size \in Nat \ {0} /\ takes \in Nat
    BY DEF JsonWriterAssumption
  <1>3. <<>> \in Seq(Symbols) /\ <<>> \in Seq(Levels) /\ Len(<<>>) = 0 /\ <<>> \o <<>> = <<>>
    OBVIOUS
  <1>4. writer \in Writers
    BY <1>1, <1>2, <1>3 DEF Writers, WriterErrs
  <1>5. Starts(<<>>, <<>>)
    BY <1>3, StartsItself
  <1>6. OutInv(writer)
    BY <1>1, <1>2, <1>3, <1>4, <1>5 DEF OutInv, stopped
  <1>7. Closers(<<>>) = <<>>
    BY <1>3, ClosersType
  <1>8. ReadsAsLevels(writer)
    <2>1. Expected(writer) = ValueStarts
      BY <1>1, Zenon DEF Expected
    <2>2. ReadText(<<>>) = ReadAs(<<>>, ValueStarts)
      BY NothingReads DEF TextStart, ReadAs
    <2>3. writer.levels = <<>> /\ writer.text = <<>> /\ writer.records = 0
      BY <1>1
    <2>4. QED
      BY <1>3, <1>7, <2>1, <2>2, <2>3 DEF ReadsAsLevels
  <1>9. finished = FALSE
    BY DEF WriterInit
  <1>10. QED
    BY <1>6, <1>8, <1>9 DEF WriterInv, PlaceInv

\* Every call leaves the writer somewhere.
LEMMA WriterCallsKeep ==
    ASSUME WriterInv, WriterCalled,
           \/ \E object \in BOOLEAN : WriteStart(object) \/ WriteEnd(object)
           \/ WriteKey
           \/ WriteRefused
           \/ \E at_once \in BOOLEAN : WriteValue(at_once)
           \/ WriteRecordEnd
    PROVE  WriterInv'
  <1>1. PlaceInv(writer) /\ OutInv(writer) /\ ~stopped(writer) /\ finished = FALSE
        /\ finished' = FALSE
    BY DEF WriterInv, PlaceInv, WriterCalled
  <1>2. SUFFICES PlaceInv(writer')
    <2>1. (PlaceInv(writer))' <=> PlaceInv(writer')
      BY DEF PlaceInv, OutInv, ReadsAsLevels, Expected, Top, stopped
    <2>2. QED
      BY <1>1, <1>2, <2>1 DEF WriterInv
  <1> DEFINE b == _begin_value(writer)
  <1>3. OutInv(b) /\ (~stopped(b) => CanBegin(b))
    BY <1>1, BeginKeeps, ZenonT(30)
  <1>4. /\ "STRUCTURE" \in WriterErrs \ {"OK", "TOO_LARGE"}
        /\ "TOO_DEEP" \in WriterErrs \ {"OK", "TOO_LARGE"}
        /\ "VALUE" \in WriterErrs \ {"OK", "TOO_LARGE"}
    BY DEF WriterErrs
  <1>5. PlaceInv(fail(writer, "STRUCTURE")) /\ PlaceInv(fail(writer, "VALUE"))
    BY <1>1, <1>4, FailedKeeps, Zenon
  <1>6. stopped(b) => PlaceInv(b)
    BY <1>3 DEF PlaceInv
  <1> HIDE DEF b
  <1>7. ASSUME NEW object \in BOOLEAN, WriteStart(object) PROVE PlaceInv(writer')
    <2>1. CASE stopped(b)
      <3>1. writer' = b
        BY <1>7, <2>1, Zenon DEF WriteStart, b
      <3>2. QED
        BY <1>6, <2>1, <3>1
    <2>2. CASE ~stopped(b) /\ Len(b.levels) = MaxDepth
      <3>1. writer' = fail(b, "TOO_DEEP")
        BY <1>7, <2>2, Zenon DEF WriteStart, b
      <3>2. PlaceInv(fail(b, "TOO_DEEP"))
        BY <1>3, <1>4, FailedKeeps, Zenon
      <3>3. QED
        BY <3>1, <3>2
    <2>3. CASE ~stopped(b) /\ Len(b.levels) # MaxDepth
      <3>1. writer' = put([b EXCEPT !.levels =
                              Append(@, [object |-> object, has_member |-> FALSE,
                                         after_key |-> FALSE])],
                          <<BeginOf(object)>>)
        BY <1>7, <2>3, Zenon DEF WriteStart, b
      <3>2. CanBegin(b)
        BY <1>3, <2>3
      <3>3. QED
        BY <1>3, <2>3, <3>1, <3>2, StartKeeps, ZenonT(30)
    <2>4. QED
      BY <2>1, <2>2, <2>3
  <1>8. ASSUME NEW object \in BOOLEAN, WriteEnd(object) PROVE PlaceInv(writer')
    <2>1. CASE writer.levels = <<>> \/ Top(writer).object # object \/ Top(writer).after_key
      <3>1. writer' = fail(writer, "STRUCTURE")
        BY <1>8, <2>1, Zenon DEF WriteEnd
      <3>2. QED
        BY <1>5, <3>1
    <2>2. CASE ~(writer.levels = <<>> \/ Top(writer).object # object \/ Top(writer).after_key)
      <3>1. writer' = _end_value(put([writer EXCEPT !.levels = Front(@)], <<EndOf(object)>>))
        BY <1>8, <2>2, Zenon DEF WriteEnd
      <3>2. writer.levels # <<>> /\ ~Top(writer).after_key /\ object = Top(writer).object
        BY <2>2
      <3>3. QED
        BY <1>1, <3>1, <3>2, EndOfLevelKeeps, ZenonT(30)
    <2>3. QED
      BY <2>1, <2>2
  <1>9. ASSUME WriteKey PROVE PlaceInv(writer')
    <2>1. CASE writer.levels = <<>> \/ ~Top(writer).object \/ Top(writer).after_key
      <3>1. writer' = fail(writer, "STRUCTURE")
        BY <1>9, <2>1, Zenon DEF WriteKey
      <3>2. QED
        BY <1>5, <3>1
    <2>2. CASE ~(writer.levels = <<>> \/ ~Top(writer).object \/ Top(writer).after_key)
      <3> DEFINE v == SetTop(PutComma(writer),
                             [Top(writer) EXCEPT !.has_member = TRUE, !.after_key = TRUE])
      <3>1. writer' = put(put(v, <<"k">>), <<"colon">>)
        BY <1>9, <2>2, Zenon DEF WriteKey
      <3>2. writer.levels # <<>> /\ Top(writer).object /\ ~Top(writer).after_key
        BY <2>2
      <3>3. PlaceInv(put(put(v, <<"k">>), <<"colon">>))
        BY <1>1, <3>2, KeyKeeps, ZenonT(30)
      <3>4. QED
        BY <3>1, <3>3
    <2>3. QED
      BY <2>1, <2>2
  <1>10. ASSUME WriteRefused PROVE PlaceInv(writer')
    BY <1>5, <1>10 DEF WriteRefused
  <1>11. ASSUME NEW at_once \in BOOLEAN, WriteValue(at_once) PROVE PlaceInv(writer')
    <2>1. CASE stopped(b)
      <3>1. writer' = b
        BY <1>11, <2>1, Zenon DEF WriteValue, b
      <3>2. QED
        BY <1>6, <2>1, <3>1
    <2>2. CASE ~stopped(b)
      <3>1. CanBegin(b)
        BY <1>3, <2>2
      <3>2. /\ PlaceInv(_end_value(put(b, <<"v", "w">>)))
            /\ PlaceInv(_end_value(put(put(b, <<"v">>), <<"w">>)))
        BY <1>3, <2>2, <3>1, ValueKeeps, ZenonT(30)
      <3>3. CASE at_once
        <4>1. writer' = _end_value(put(b, <<"v", "w">>))
          BY <1>11, <2>2, <3>3, Zenon DEF WriteValue, b
        <4>2. QED
          BY <3>2, <4>1
      <3>4. CASE ~at_once
        <4>1. writer' = _end_value(put(put(b, <<"v">>), <<"w">>))
          BY <1>11, <2>2, <3>4, Zenon DEF WriteValue, b
        <4>2. QED
          BY <3>2, <4>1
      <3>5. QED
        BY <3>3, <3>4
    <2>3. QED
      BY <2>1, <2>2
  <1>12. ASSUME WriteRecordEnd PROVE PlaceInv(writer')
    <2>1. CASE writer.levels # <<>> \/ ~writer.top_done
      <3>1. writer' = fail(writer, "STRUCTURE")
        BY <1>12, <2>1, Zenon DEF WriteRecordEnd
      <3>2. QED
        BY <1>5, <3>1
    <2>2. CASE writer.levels = <<>> /\ writer.top_done
      <3>1. writer' = [put(writer, <<"LF">>) EXCEPT !.top_done = FALSE, !.records = @ + 1]
        BY <1>12, <2>2, Zenon DEF WriteRecordEnd
      <3>2. RecordIsDone(writer)
        BY <2>2 DEF RecordIsDone
      <3>3. QED
        BY <1>1, <3>1, <3>2, RecordEndKeeps, ZenonT(30)
    <2>3. QED
      BY <2>1, <2>2
  <1>13. QED
    BY <1>7, <1>8, <1>9, <1>10, <1>11, <1>12

\* So does its end: the callback has been given everything, unless it failed.
LEMMA WriterFinishKeeps == ASSUME WriterInv, WriterFinish PROVE WriterInv'
  <1> DEFINE open == writer.levels # <<>> \/ (~writer.top_done /\ writer.records = 0)
             w == IF ~stopped(writer) /\ open THEN fail(writer, "STRUCTURE") ELSE writer
             r == IF w.kind = "cb" THEN flush(w) ELSE w
  <1>1. PlaceInv(writer) /\ OutInv(writer) /\ writer.records \in Nat
    BY DEF WriterInv, PlaceInv, OutInv, Writers
  <1>2. writer' = r /\ finished' = TRUE
    BY Zenon DEF WriterFinish
  <1>3. /\ PlaceInv(w)
        /\ ~stopped(w) => w.levels = <<>> /\ (w.top_done \/ w.records > 0)
    <2>1. CASE ~stopped(writer) /\ open
      <3>1. w = fail(writer, "STRUCTURE")
        BY <2>1, Zenon
      <3>2. "STRUCTURE" \in WriterErrs \ {"OK", "TOO_LARGE"}
        BY DEF WriterErrs
      <3>3. PlaceInv(fail(writer, "STRUCTURE")) /\ stopped(fail(writer, "STRUCTURE"))
        BY <1>1, <3>2, FailedKeeps, Zenon
      <3> HIDE DEF w, open
      <3>4. QED
        BY <3>1, <3>3
    <2>2. CASE ~(~stopped(writer) /\ open)
      <3>1. w = writer
        BY <2>2, Zenon
      <3> HIDE DEF w
      <3>2. QED
        BY <1>1, <2>2, <3>1
    <2>3. QED
      BY <2>1, <2>2
  <1> HIDE DEF w, open
  <1>4. OutInv(w) /\ (~stopped(w) => ReadsAsLevels(w)) /\ w \in Writers
    BY <1>3 DEF PlaceInv, OutInv
  <1>5. /\ OutInv(r) /\ SamePlace(w, r) /\ r.text = w.text /\ (stopped(w) => stopped(r))
        /\ r.kind = "cb" => r.used = <<>>
    <2>1. CASE w.kind # "cb"
      <3>1. r = w
        BY <2>1, Zenon
      <3> HIDE DEF r
      <3>2. QED
        BY <1>4, <2>1, <3>1 DEF SamePlace
    <2>2. CASE w.kind = "cb"
      <3> DEFINE f == flush(w)
                 both == w.got \o w.used
      <3>1. r = f
        BY <2>2, Zenon
      <3>2. w.err # "TOO_LARGE" /\ Starts(w.got, w.text) /\ (~stopped(w) => both = w.text)
        BY <1>4, <2>2 DEF OutInv
      <3>3. w.text \in Seq(Symbols)
        BY <1>4 DEF Writers
      <3>4. Starts(w.text, w.text)
        BY <3>3, StartsItself
      <3> HIDE DEF r
      <3>5. ~stopped(w) => Starts(w.got \o w.used, w.text)
        BY <3>2, <3>4
      <3>6. /\ f \in Writers /\ SamePlace(w, f) /\ f.text = w.text /\ f.total = w.total
            /\ f.err # "TOO_LARGE" /\ f.used = <<>>
            /\ Starts(f.got, f.text)
            /\ stopped(w) => stopped(f)
            /\ ~stopped(f) => ~stopped(w) /\ f.got = w.got \o w.used
        BY <1>4, <2>2, <3>2, <3>5, FlushKeeps, ZenonT(30)
      <3> HIDE DEF f
      <3>7. ~stopped(f) => f.got = w.text /\ f.total = Len(f.text)
        BY <1>4, <3>2, <3>6 DEF OutInv
      <3>8. f.got \in Seq(Symbols) /\ f.size \in Nat \ {0} /\ f.kind = "cb"
        BY <2>2, <3>6 DEF Writers, SamePlace
      <3>9. f.got \o <<>> = f.got /\ Len(<<>>) = 0
        BY <3>8
      <3>10. ~stopped(f) => f.got \o f.used = f.text /\ Len(f.used) < f.size
        BY <3>6, <3>7, <3>8, <3>9
      <3>11. OutInv(f)
        BY <3>6, <3>7, <3>8, <3>10 DEF OutInv
      <3>12. QED
        BY <3>1, <3>6, <3>11
    <2>3. QED
      BY <2>1, <2>2
  <1> HIDE DEF r
  <1>6. /\ r.levels = w.levels /\ r.top_done = w.top_done /\ r.records = w.records
    BY <1>5 DEF SamePlace
  <1>7. ~stopped(r) => ReadsAsLevels(r)
    BY <1>4, <1>5, <1>6 DEF ReadsAsLevels, Expected, Top
  <1>8. PlaceInv(r)
    BY <1>5, <1>7 DEF PlaceInv
  <1>9. (PlaceInv(writer))' <=> PlaceInv(writer')
    BY DEF PlaceInv, OutInv, ReadsAsLevels, Expected, Top, stopped
  <1>10. (stopped(writer))' <=> stopped(writer')
    BY DEF stopped
  <1>11. QED
    BY <1>2, <1>3, <1>5, <1>6, <1>8, <1>9, <1>10 DEF WriterInv

\* What the text of a finished writer is.
LEMMA WriterInvSuffices == WriterInv => WritesJson
  <1> SUFFICES ASSUME WriterInv PROVE WritesJson
    OBVIOUS
  <1>1. PlaceInv(writer) /\ OutInv(writer)
    BY DEF WriterInv, PlaceInv
  <1>2. /\ writer.got \in Seq(Symbols) /\ writer.text \in Seq(Symbols)
        /\ writer.used \in Seq(Symbols) /\ writer.kind \in {"buff", "cb", "none"}
    BY <1>1 DEF OutInv, Writers
  <1>3. ASSUME finished, ~stopped(writer)
        PROVE  IsJsonLines(writer.text) /\ writer.total = Len(writer.text)
    <2>1. writer.levels = <<>> /\ (writer.top_done \/ writer.records > 0) /\ ReadsAsLevels(writer)
      BY <1>3, <1>1 DEF WriterInv, PlaceInv
    <2>2. Closers(<<>>) = <<>>
      <3>1. <<>> \in Seq(Levels)
        OBVIOUS
      <3>2. QED
        BY <3>1, ClosersType
    <2>3. ReadText(writer.text) = ReadAs(<<>>, Expected(writer))
      BY <2>1, <2>2 DEF ReadsAsLevels
    <2>4. /\ ReadText(writer.text).open = <<>>
          /\ ReadText(writer.text).expects = Expected(writer)
      BY <2>3 DEF ReadAs
    <2>5. CASE writer.top_done
      <3>1. Expected(writer) = {"LF"}
        BY <2>1, <2>5, Zenon DEF Expected
      <3>2. ReadText(<<>>).expects = ValueStarts
        BY NothingReads DEF TextStart
      <3>3. "v" \in ValueStarts /\ "v" \notin {"LF"}
        BY DEF ValueStarts
      <3>4. writer.text # <<>>
        BY <2>4, <3>1, <3>2, <3>3
      <3>5. QED
        BY <1>1, <1>3, <2>4, <3>1, <3>4 DEF IsJsonLines, OutInv
    <2>6. CASE ~writer.top_done
      <3>1. Expected(writer) = ValueStarts
        BY <2>1, <2>6, Zenon DEF Expected
      <3>2. writer.text # <<>> /\ Last(writer.text) = "LF"
        BY <2>1, <2>6 DEF ReadsAsLevels
      <3>3. ValueStarts # {}
        BY DEF ValueStarts
      <3>4. QED
        BY <1>1, <1>3, <2>4, <3>1, <3>2, <3>3 DEF IsJsonLines, OutInv
    <2>7. QED
      BY <2>5, <2>6
  <1>4. finished /\ writer.err = "OK" => writer.kind = "none" \/ writer.got = writer.text
    <2> SUFFICES ASSUME finished, writer.err = "OK", writer.kind # "none"
                 PROVE  writer.got = writer.text
      OBVIOUS
    <2>1. CASE writer.kind = "buff"
      BY <1>1, <2>1 DEF OutInv
    <2>2. CASE writer.kind = "cb"
      <3>1. ~stopped(writer)
        BY DEF stopped
      <3>2. writer.used = <<>> /\ writer.got \o writer.used = writer.text
        BY <1>1, <2>2, <3>1 DEF WriterInv, OutInv
      <3>3. QED
        BY <1>2, <3>2
    <2>3. QED
      BY <1>2, <2>1, <2>2
  <1>5. Starts(writer.got, writer.text)
    BY <1>1 DEF OutInv
  <1>6. IsPrefix(writer.got, writer.text)
    BY <1>2, <1>5, StartsIsPrefix
  <1>7. /\ writer.kind = "buff" => Len(writer.got) < writer.size
        /\ writer.err = "TOO_LARGE" => writer.total >= writer.size
    BY <1>1 DEF OutInv
  <1>8. QED
    BY <1>3, <1>4, <1>6, <1>7 DEF WritesJson

\* Whatever is written, in whatever calls, what a writer that doesn't fail gives out is JSON, or
\* JSON Lines, all of it (_put(), _begin_value(), jkii_writer_finish()).
THEOREM WriterCorrect == WriterSpec => []WritesJson
  <1>1. WriterInit => WriterInv
    BY JsonWriterAssumption, WriterStarts
  <1>2. WriterInv /\ [WriterNext]_writerVars => WriterInv'
    <2> SUFFICES ASSUME WriterInv, [WriterNext]_writerVars PROVE WriterInv'
      OBVIOUS
    <2>1. ASSUME WriterNext, ~WriterFinish PROVE WriterInv'
      <3>1. WriterCalled
        BY <2>1 DEF WriterNext, WriteStart, WriteEnd, WriteKey, WriteRefused, WriteValue,
                    WriteRecordEnd
      <3>2. \/ \E object \in BOOLEAN : WriteStart(object) \/ WriteEnd(object)
            \/ WriteKey
            \/ WriteRefused
            \/ \E at_once \in BOOLEAN : WriteValue(at_once)
            \/ WriteRecordEnd
        BY <2>1 DEF WriterNext
      <3>3. QED
        BY <3>1, <3>2, WriterCallsKeep, Zenon
    <2>2. CASE WriterFinish
      BY <2>2, WriterFinishKeeps
    <2>3. CASE UNCHANGED writerVars
      BY <2>3, Zenon DEF writerVars, WriterInv, PlaceInv, OutInv, ReadsAsLevels, Expected, Top,
                         stopped
    <2>4. QED
      BY <2>1, <2>2, <2>3
  <1>3. WriterInv => WritesJson
    BY WriterInvSuffices
  <1>4. QED
    BY <1>1, <1>2, <1>3, PTL DEF WriterSpec

-----------------------------------------------------------------------------
(* Years, months and days.                                                 *)

\* The days of the years before one, and those of the months before one: years begin in March.
DaysOfYears(y) == y * 365 + y \div 4 - y \div 100 + y \div 400
DaysOfMonths(m) == (153 * m + 2) \div 5
YearOf(year, month) == IF month <= 2 THEN year - 1 ELSE year
MonthOf(month) == IF month <= 2 THEN month + 9 ELSE month - 3
IsDate(year, month, day) ==
    /\ year \in Nat /\ IsYear(year)
    /\ month \in 1 .. 12
    /\ day \in Nat /\ day >= 1 /\ day <= LengthOfMonth(year, month)

\* Both ways of telling leap years, and so the length of a month, are the same.
LEMMA LeapYears == \A y \in Nat : _is_leap(y) <=> LeapYear(y)
  BY SMTT(30) DEF _is_leap, LeapYear

\* The days of a month.
LEMMA LengthsOfMonths ==
    ASSUME NEW year \in Nat, NEW month \in 1 .. 12
    PROVE  _days_in_month(year, month) = LengthOfMonth(year, month)
  <1>1. _is_leap(year) <=> LeapYear(year)
    BY LeapYears
  <1>2. CASE month = 2
    BY <1>1, <1>2 DEF _days_in_month, LengthOfMonth
  <1>3. CASE month # 2
    <2>1. month \in {1, 3, 4, 5, 6, 7, 8, 9, 10, 11, 12}
      BY <1>3
    <2>2. QED
      BY <2>1 DEF _days_in_month, LengthOfMonth
  <1>4. QED
    BY <1>2, <1>3

\* The days of the months.
LEMMA MonthDays ==
    /\ DaysOfMonths(0) = 0 /\ DaysOfMonths(1) = 31 /\ DaysOfMonths(2) = 61
    /\ DaysOfMonths(3) = 92 /\ DaysOfMonths(4) = 122 /\ DaysOfMonths(5) = 153
    /\ DaysOfMonths(6) = 184 /\ DaysOfMonths(7) = 214 /\ DaysOfMonths(8) = 245
    /\ DaysOfMonths(9) = 275 /\ DaysOfMonths(10) = 306 /\ DaysOfMonths(11) = 337
  BY SMTT(30) DEF DaysOfMonths

\* A year has 365 days, or 366: the leap day is its last, at the end of February.
LEMMA YearDays ==
    ASSUME NEW y \in Nat
    PROVE  /\ DaysOfYears(y) \in Nat
           /\ DaysOfYears(y + 1) = DaysOfYears(y) + IF LeapYear(y + 1) THEN 366 ELSE 365
  <1>1. DaysOfYears(y) \in Nat
    BY SMTT(30) DEF DaysOfYears
  <1>2. CASE (y + 1) % 4 # 0
    <2>1. ~LeapYear(y + 1)
      BY <1>2, SMTT(30) DEF LeapYear
    <2>2. /\ (y + 1) \div 4 = y \div 4 /\ (y + 1) \div 100 = y \div 100
          /\ (y + 1) \div 400 = y \div 400
      BY <1>2, SMTT(30)
    <2>3. QED
      BY <1>1, <2>1, <2>2, SMTT(30) DEF DaysOfYears
  <1>3. CASE (y + 1) % 4 = 0 /\ (y + 1) % 100 # 0
    <2>1. LeapYear(y + 1)
      BY <1>3, SMTT(30) DEF LeapYear
    <2>2. /\ (y + 1) \div 4 = y \div 4 + 1 /\ (y + 1) \div 100 = y \div 100
          /\ (y + 1) \div 400 = y \div 400
      BY <1>3, SMTT(30)
    <2>3. QED
      BY <1>1, <2>1, <2>2, SMTT(30) DEF DaysOfYears
  <1>4. CASE (y + 1) % 100 = 0 /\ (y + 1) % 400 # 0
    <2>1. ~LeapYear(y + 1)
      BY <1>4, SMTT(30) DEF LeapYear
    <2>2. /\ (y + 1) \div 4 = y \div 4 + 1 /\ (y + 1) \div 100 = y \div 100 + 1
          /\ (y + 1) \div 400 = y \div 400
      BY <1>4, SMTT(30)
    <2>3. QED
      BY <1>1, <2>1, <2>2, SMTT(30) DEF DaysOfYears
  <1>5. CASE (y + 1) % 100 = 0 /\ (y + 1) % 400 = 0
    <2>1. LeapYear(y + 1)
      BY <1>5, SMTT(30) DEF LeapYear
    <2>2. /\ (y + 1) \div 4 = y \div 4 + 1 /\ (y + 1) \div 100 = y \div 100 + 1
          /\ (y + 1) \div 400 = y \div 400 + 1
      BY <1>5, SMTT(30)
    <2>3. QED
      BY <1>1, <2>1, <2>2, SMTT(30) DEF DaysOfYears
  <1>6. (y + 1) % 4 = 0 \/ (y + 1) % 100 # 0
    BY SMTT(30)
  <1>7. QED
    BY <1>1, <1>2, <1>3, <1>4, <1>5, <1>6

\* The days of 400 years are always as many.
LEMMA EraDays ==
    ASSUME NEW e \in Nat, NEW k \in Nat, k < 400
    PROVE  DaysOfYears(400 * e + k) = DaysOfEra * e + DaysOfYears(k)
  <1>1. /\ (400 * e + k) \div 4 = 100 * e + k \div 4
        /\ (400 * e + k) \div 100 = 4 * e + k \div 100
        /\ (400 * e + k) \div 400 = e + k \div 400
    BY SMTT(30)
  <1>2. QED
    BY <1>1, SMTT(30) DEF DaysOfYears, DaysOfEra

\* What a year of 400 is, by its day: the century, the four years of it, and the year of these.
LEMMA YearOfEraIs ==
    ASSUME NEW k \in Nat, k < 400, NEW doy \in Nat, doy <= 365,
           doy = 365 => LeapYear(k + 1), NEW doe, doe = DaysOfYears(k) + doy
    PROVE  /\ doe \in Nat /\ doe < DaysOfEra
           /\ YearOfEra(doe) = k
           /\ DayOfYear(doe, k) = doy
  <1> DEFINE c == k \div 100
             q == (k % 100) \div 4
             r == k % 4
  <1>1. /\ c \in 0 .. 3 /\ q \in Nat /\ q <= 24 /\ r \in 0 .. 3 /\ k = 100 * c + 4 * q + r
        /\ k \div 4 = 25 * c + q /\ k \div 400 = 0
    BY SMTT(30)
  <1>2. doy = 365 => r = 3 /\ (q = 24 => c = 3)
    BY SMTT(30) DEF LeapYear
  <1>3. doe = 36524 * c + 1461 * q + 365 * r + doy
    BY <1>1, SMTT(30) DEF DaysOfYears
  <1>4. doe - (365 * k + k \div 4 - k \div 100) = doy
    BY <1>1, <1>3, SMTT(30)
  <1>5. c \in 0 .. 3 /\ q \in Nat /\ q <= 24 /\ r \in 0 .. 3 /\ doy \in Nat /\ doy <= 365
    BY <1>1
  <1> HIDE DEF c, q, r
  <1>6. doe \in Nat /\ doe <= 146096
    <2>1. 36524 * c \in Nat /\ 36524 * c <= 109572 /\ 1461 * q \in Nat /\ 1461 * q <= 35064
          /\ 365 * r \in Nat /\ 365 * r <= 1095
      BY <1>5
    <2> DEFINE x == 36524 * c
               y == 1461 * q
               z == 365 * r
    <2>2. doe = x + y + z + doy
      BY <1>3
    <2>3. x \in Nat /\ x <= 109572 /\ y \in Nat /\ y <= 35064 /\ z \in Nat /\ z <= 1095
      BY <2>1
    <2> HIDE DEF x, y, z
    <2>4. QED
      BY <1>5, <2>2, <2>3
  <1> DEFINE left == 1461 * q + 365 * r + doy
             over == 24 * c + q + 365 * r + doy
             u == IF over >= 1460 THEN 1 ELSE 0
  <1>7. doe \div 1460 = 25 * c + q + u
    <2>1. doe = 1460 * (25 * c + q) + over /\ over \in Nat /\ over < 2920
      BY <1>3, <1>5, SMTT(30)
    <2>2. 25 * c + q \in Nat
      BY <1>5
    <2> DEFINE n == 25 * c + q
    <2> HIDE DEF n, over
    <2>3. CASE over >= 1460
      BY <2>1, <2>2, <2>3, SMTT(30) DEF n
    <2>4. CASE over < 1460
      BY <2>1, <2>2, <2>4, SMTT(30) DEF n
    <2>5. QED
      BY <2>1, <2>3, <2>4
  <1>8. doe \div 36524 - doe \div 146096 = c
    <2>1. CASE doe = 146096
      <3>1. c = 3
        BY <1>2, <1>3, <1>5, <2>1, SMTT(30)
      <3>2. QED
        BY <2>1, <3>1, SMTT(30)
    <2>2. CASE doe # 146096
      <3>1. left \in Nat /\ left < 36524
        BY <1>2, <1>3, <1>5, <2>2, SMTT(30)
      <3>2. doe = 36524 * c + left
        BY <1>3, <1>5, SMTT(30)
      <3> HIDE DEF left
      <3>3. doe \div 36524 = c
        BY <1>5, <3>1, <3>2, SMTT(30)
      <3>4. doe \div 146096 = 0
        <4>1. doe \in Nat /\ doe < 146096
          BY <1>6, <2>2
        <4>2. \A d \in Nat : d < 146096 => d \div 146096 = 0
          BY SMTT(30)
        <4>3. QED
          BY <4>1, <4>2
      <3>5. QED
        BY <1>5, <3>3, <3>4
    <2>3. QED
      BY <2>1, <2>2
  <1>9. doy - u \in Nat /\ doy - u < 365 /\ u \in {0, 1}
    BY <1>2, <1>5, SMTT(30)
  <1>10. doe - doe \div 1460 + doe \div 36524 - doe \div 146096 = 365 * k + (doy - u)
    <2> DEFINE x == doe \div 1460
               y == doe \div 36524
               z == doe \div 146096
    <2>1. x = 25 * c + q + u /\ y - z = c
      BY <1>7, <1>8
    <2>2. x \in Int /\ y \in Int /\ z \in Int
      BY <1>6
    <2>3. k = 100 * c + 4 * q + r
      BY <1>1
    <2> HIDE DEF u, x, y, z
    <2>4. doe - x + y - z = 365 * k + (doy - u)
      BY <1>3, <1>5, <1>9, <2>1, <2>2, <2>3
    <2>5. QED
      BY <2>4 DEF x, y, z
  <1>11. (doe - doe \div 1460 + doe \div 36524 - doe \div 146096) \div 365 = k
    <2> HIDE DEF u
    <2>1. (365 * k + (doy - u)) \div 365 = k
      BY <1>9, SMTT(30)
    <2>2. QED
      BY <1>10, <2>1
  <1>12. QED
    BY <1>4, <1>6, <1>11, SMT DEF YearOfEra, DayOfYear, DaysOfEra

\* The day of the year that a date is, and the month and the day that come of it.
LEMMA DayOfYearIs ==
    ASSUME NEW year \in Nat, NEW month \in 1 .. 12,
           NEW day \in Nat, day >= 1, day <= LengthOfMonth(year, month),
           NEW doy, doy = DaysOfMonths(MonthOf(month)) + day - 1
    PROVE  /\ doy \in Nat /\ doy <= 365
           /\ doy = 365 => month = 2 /\ LeapYear(year)
           /\ (5 * doy + 2) \div 153 = MonthOf(month)
           /\ doy - DaysOfMonths(MonthOf(month)) + 1 = day
  <1>1. CASE month \in {4, 6, 9, 11}
    <2>1. LengthOfMonth(year, month) = 30
      BY <1>1 DEF LengthOfMonth
    <2>2. QED
      BY <1>1, <2>1, MonthDays DEF MonthOf
  <1>2. CASE month \in {1, 3, 5, 7, 8, 10, 12}
    <2>1. LengthOfMonth(year, month) = 31
      BY <1>2 DEF LengthOfMonth
    <2>2. QED
      BY <1>2, <2>1, MonthDays DEF MonthOf
  <1>3. CASE month = 2
    <2>1. LengthOfMonth(year, month) = IF LeapYear(year) THEN 29 ELSE 28
      BY <1>3 DEF LengthOfMonth
    <2>2. day <= 29 /\ (day = 29 => LeapYear(year))
      BY <2>1
    <2>3. QED
      BY <1>3, <2>2, MonthDays DEF MonthOf
  <1>4. QED
    BY <1>1, <1>2, <1>3

\* A date by its day: days are counted from 0000-03-01.
LEMMA DaysOfDate ==
    ASSUME NEW year \in Nat, year >= 1, NEW month \in 1 .. 12, NEW day \in Nat
    PROVE  /\ YearOf(year, month) \in Nat /\ _days_from_civil(year, month, day) \in Int
           /\ _days_from_civil(year, month, day) =
             DaysOfYears(YearOf(year, month)) + (DaysOfMonths(MonthOf(month)) + day - 1) - Day1970
  <1>1. YearOf(year, month) \in Nat /\ MonthOf(month) \in Nat
    BY DEF YearOf, MonthOf
  <1>2. DaysOfYears(YearOf(year, month)) \in Int /\ DaysOfMonths(MonthOf(month)) \in Int
    BY <1>1, YearDays DEF DaysOfMonths
  <1>3. Day1970 \in Int
    BY SMT DEF Day1970
  <1>4. CASE month <= 2
    <2>1. YearOf(year, month) = year - 1 /\ MonthOf(month) = month + 9
      BY <1>4 DEF YearOf, MonthOf
    <2>2. _days_from_civil(year, month, day) =
             DaysOfYears(YearOf(year, month)) + (DaysOfMonths(MonthOf(month)) + day - 1) - Day1970
      BY <1>1, <1>4, <2>1, SMTT(30) DEF _days_from_civil, DaysOfYears, DaysOfMonths, Day1970
    <2>3. QED
      BY <1>1, <1>2, <1>3, <2>2, SMT
  <1>5. CASE ~(month <= 2)
    <2>1. YearOf(year, month) = year /\ MonthOf(month) = month - 3
      BY <1>5 DEF YearOf, MonthOf
    <2>2. _days_from_civil(year, month, day) =
             DaysOfYears(YearOf(year, month)) + (DaysOfMonths(MonthOf(month)) + day - 1) - Day1970
      BY <1>1, <1>5, <2>1, SMTT(30) DEF _days_from_civil, DaysOfYears, DaysOfMonths, Day1970
    <2>3. QED
      BY <1>1, <1>2, <1>3, <2>2, SMT
  <1>6. QED
    BY <1>4, <1>5

\* A date is what its day is given as, with the time that a second of the day is.
LEMMA ToCivil ==
    ASSUME NEW year, NEW month, NEW day, IsDate(year, month, day), NEW s \in Nat, NEW days,
           days = _days_from_civil(year, month, day)
    PROVE  /\ days \in Int
           /\ ebisu_time_to_civil(<<days, s>>) =
                [year |-> year, month |-> month, day |-> day,
                 hour |-> s \div 3600, minute |-> (s \div 60) % 60, second |-> s % 60,
                 weekday |-> (days - FirstDay + 1) % 7]
  <1> DEFINE y == YearOf(year, month)
             mm == MonthOf(month)
             doy == DaysOfMonths(mm) + day - 1
             e == y \div 400
             k == y % 400
             doe == DaysOfYears(k) + doy
             z == days + Day1970
  <1>1. /\ year \in Nat /\ year >= 1 /\ month \in 1 .. 12
        /\ day \in Nat /\ day >= 1 /\ day <= LengthOfMonth(year, month)
    BY DEF IsDate, IsYear
  <1>2. y \in Nat /\ days = DaysOfYears(y) + doy - Day1970
    BY <1>1, DaysOfDate
  <1>3. /\ doy \in Nat /\ doy <= 365 /\ (doy = 365 => month = 2 /\ LeapYear(year))
        /\ (5 * doy + 2) \div 153 = mm /\ doy - DaysOfMonths(mm) + 1 = day
    BY <1>1, DayOfYearIs
  <1>4. e \in Nat /\ k \in Nat /\ k < 400 /\ y = 400 * e + k
    <2> HIDE DEF y
    <2>1. QED
      BY <1>2
  <1>5. doy = 365 => LeapYear(k + 1)
    <2> SUFFICES ASSUME doy = 365 PROVE LeapYear(k + 1)
      OBVIOUS
    <2>1. y = year - 1 /\ LeapYear(year)
      BY <1>3 DEF YearOf
    <2>2. (year = 400 * e + (k + 1)) /\ k + 1 \in Nat
      BY <1>1, <1>4, <2>1
    <2> DEFINE n == k + 1
    <2>3. n \in Nat /\ year = 400 * e + n
      BY <2>2
    <2> HIDE DEF n, e, k
    <2>4. year % 100 = n % 100 /\ year % 400 = n % 400 /\ year % 4 = n % 4
      BY <1>4, <2>3
    <2>5. LeapYear(n)
      BY <2>1, <2>4 DEF LeapYear
    <2>6. QED
      BY <2>5 DEF n
  <1>6. z = DaysOfEra * e + doe /\ DaysOfYears(k) \in Nat
    <2>1. DaysOfYears(y) = DaysOfEra * e + DaysOfYears(k)
      BY <1>4, EraDays
    <2>2. DaysOfYears(k) \in Nat /\ DaysOfYears(y) \in Nat
      BY <1>2, <1>4, YearDays
    <2>3. Day1970 \in Nat /\ DaysOfEra \in Nat
      BY SMT DEF Day1970, DaysOfEra
    <2> HIDE DEF y, e, k, doy
    <2>4. QED
      BY <1>2, <1>3, <1>4, <2>1, <2>2, <2>3, SMT
  <1>7. /\ doe \in Nat /\ doe < DaysOfEra
        /\ YearOfEra(doe) = k /\ DayOfYear(doe, k) = doy
    <2> HIDE DEF k, doy
    <2>1. QED
      BY <1>3, <1>4, <1>5, YearOfEraIs
  <1> HIDE DEF y, mm, doy, e, k, doe
  <1>8. z \div DaysOfEra = e /\ z - e * DaysOfEra = doe
    BY <1>4, <1>6, <1>7, SMT DEF DaysOfEra
  <1>9. /\ k + e * 400 + (IF month <= 2 THEN 1 ELSE 0) = year
        /\ (IF mm < 10 THEN mm + 3 ELSE mm - 9) = month
    <2>1. year = (IF month <= 2 THEN y + 1 ELSE y) /\ y = 400 * e + k
      BY <1>1, <1>4 DEF y, YearOf
    <2>2. mm = (IF month <= 2 THEN month + 9 ELSE month - 3)
      BY DEF mm, MonthOf
    <2>3. QED
      BY <1>1, <1>4, <2>1, <2>2
  <1>10. doy - (153 * mm + 2) \div 5 + 1 = day
    BY <1>3 DEF DaysOfMonths
  <1>11. days \in Int
    BY <1>2, <1>3, YearDays, SMT DEF Day1970
  <1>12. ebisu_time_to_civil(<<days, s>>) =
                [year |-> year, month |-> month, day |-> day,
                 hour |-> s \div 3600, minute |-> (s \div 60) % 60, second |-> s % 60,
                 weekday |-> (days - FirstDay + 1) % 7]
    BY <1>3, <1>7, <1>8, <1>9, <1>10, SMT DEF ebisu_time_to_civil
  <1>13. QED
    BY <1>11, <1>12

\* A date and the time of a day, as a call is given them.
IsCivilDate(t) ==
    /\ IsDate(t.year, t.month, t.day)
    /\ t.hour \in 0 .. 23 /\ t.minute \in 0 .. 59 /\ t.second \in 0 .. 59

\* The second of the day.
OfDay(t) == (t.hour * 60 + t.minute) * 60 + t.second

\* What is taken of a date is its day and the second of it.
LEMMA FromCivil ==
    ASSUME NEW t, IsCivilDate(t)
    PROVE  /\ IsCivil(t)
           /\ ebisu_time_from_civil(t) = <<_days_from_civil(t.year, t.month, t.day), OfDay(t)>>
           /\ _days_from_civil(t.year, t.month, t.day) \in Int
           /\ OfDay(t) \in Nat /\ OfDay(t) \div 3600 = t.hour
           /\ (OfDay(t) \div 60) % 60 = t.minute /\ OfDay(t) % 60 = t.second
  <1> DEFINE days == _days_from_civil(t.year, t.month, t.day)
             s == OfDay(t)
  <1>1. /\ t.year \in Nat /\ IsYear(t.year) /\ t.month \in 1 .. 12
        /\ t.day \in 1 .. LengthOfMonth(t.year, t.month)
    BY DEF IsCivilDate, IsDate, LengthOfMonth
  <1>2. IsCivil(t)
    <2>1. t.day \in 1 .. _days_in_month(t.year, t.month)
      BY <1>1, LengthsOfMonths
    <2>2. t.second # 60 /\ t.second \in 0 .. 60
      BY DEF IsCivilDate
    <2>3. QED
      BY <1>1, <2>1, <2>2 DEF IsCivil, IsCivilDate
  <1>3. days \in Int
    <2>1. t.year >= 1 /\ t.day \in Nat
      BY DEF IsCivilDate, IsDate, IsYear
    <2>2. QED
      BY <1>1, <2>1, DaysOfDate, Zenon
  <1>4. /\ s \in Nat /\ s < 86400 /\ s \div 3600 = t.hour /\ (s \div 60) % 60 = t.minute
        /\ s % 60 = t.second
    <2> DEFINE h == t.hour
               m == t.minute
               r == t.second
    <2>1. h \in Nat /\ h < 24 /\ m \in Nat /\ m < 60 /\ r \in Nat /\ r < 60
      BY DEF IsCivilDate
    <2>2. s = (h * 60 + m) * 60 + r
      BY DEF OfDay
    <2> HIDE DEF s, h, m, r
    <2>3. s = 3600 * h + 60 * m + r /\ s \in Nat
      BY <2>1, <2>2, SMT
    <2>4. s < 86400 /\ s \div 3600 = h
      BY <2>1, <2>3, SMT
    <2>5. s \div 60 = 60 * h + m /\ s % 60 = r
      BY <2>1, <2>3, SMT
    <2>6. (60 * h + m) % 60 = m
      BY <2>1, SMT
    <2>7. QED
      BY <2>3, <2>4, <2>5, <2>6, SMT DEF h, m, r
  <1>5. ebisu_time_from_civil(t) = <<days + s \div 86400, s % 86400>>
    BY <1>2, SMT DEF ebisu_time_from_civil, OfDay
  <1> HIDE DEF days, s
  <1>6. s \div 86400 = 0 /\ s % 86400 = s
    BY <1>4, SMT
  <1>7. <<days + s \div 86400, s % 86400>> = <<days, s>>
    BY <1>3, <1>6, SMT
  <1>8. QED
    BY <1>2, <1>3, <1>4, <1>5, <1>7, SMT DEF days, s

\* Any date and time of day, taken and given again, is the same (ebisu_time_from_civil(),
\* ebisu_time_to_civil()), with its weekday.
THEOREM CivilTimesReturn ==
    ASSUME NEW t, IsCivilDate(t)
    PROVE  ebisu_time_to_civil(ebisu_time_from_civil(t)) =
                [year |-> t.year, month |-> t.month, day |-> t.day,
                 hour |-> t.hour, minute |-> t.minute, second |-> t.second,
                 weekday |-> (ebisu_time_from_civil(t)[1] - FirstDay + 1) % 7]
  <1> DEFINE days == _days_from_civil(t.year, t.month, t.day)
             s == OfDay(t)
  <1>1. /\ ebisu_time_from_civil(t) = <<days, s>>
        /\ s \in Nat /\ s \div 3600 = t.hour /\ (s \div 60) % 60 = t.minute /\ s % 60 = t.second
    BY FromCivil
  <1>2. IsDate(t.year, t.month, t.day)
    BY DEF IsCivilDate
  <1> DEFINE d == days
  <1>3. d = _days_from_civil(t.year, t.month, t.day)
    OBVIOUS
  <1> HIDE DEF d, s
  <1>4. ebisu_time_to_civil(<<d, s>>) =
                [year |-> t.year, month |-> t.month, day |-> t.day,
                 hour |-> s \div 3600, minute |-> (s \div 60) % 60, second |-> s % 60,
                 weekday |-> (d - FirstDay + 1) % 7]
    BY <1>1, <1>2, <1>3, ToCivil
  <1>5. <<d, s>>[1] = d
    OBVIOUS
  <1>6. ebisu_time_from_civil(t) = <<d, s>>
    BY <1>1 DEF d
  <1>7. QED
    BY <1>1, <1>4, <1>5, <1>6, SMT

-----------------------------------------------------------------------------
(* The calendar.                                                           *)

\* A month's next day is the next, so is the next month's first, and the next year's.
LEMMA NextDate ==
    ASSUME NEW year \in Nat, year >= 1
    PROVE  /\ \A month \in 1 .. 12, day \in Nat :
                _days_from_civil(year, month, day + 1) = _days_from_civil(year, month, day) + 1
           /\ \A month \in 1 .. 11 :
                _days_from_civil(year, month + 1, 1) =
                    _days_from_civil(year, month, LengthOfMonth(year, month)) + 1
           /\ _days_from_civil(year + 1, 1, 1) = _days_from_civil(year, 12, 31) + 1
           /\ _days_from_civil(year + 1, 1, 1) =
                _days_from_civil(year, 1, 1) + IF LeapYear(year) THEN 366 ELSE 365
  <1> DEFINE D(month, day) == _days_from_civil(year, month, day)
             before == DaysOfYears(year - 1)
             its == DaysOfYears(year)
             length == IF LeapYear(year) THEN 366 ELSE 365
  <1>1. before \in Nat /\ its \in Nat /\ its = before + length /\ length \in Nat
    <2> DEFINE y == year - 1
    <2>1. y \in Nat /\ y + 1 = year
      OBVIOUS
    <2> HIDE DEF y
    <2>2. /\ DaysOfYears(y) \in Nat
          /\ DaysOfYears(y + 1) = DaysOfYears(y) + IF LeapYear(y + 1) THEN 366 ELSE 365
      BY <2>1, YearDays
    <2>3. its \in Nat
      BY YearDays
    <2>4. its = DaysOfYears(y) + length /\ DaysOfYears(y) \in Nat
      BY <2>1, <2>2
    <2>5. y = year - 1
      BY DEF y
    <2>6. QED
      BY <2>3, <2>4, <2>5
  <1>2. Day1970 \in Int
    BY SMT DEF Day1970
  <1>3. ASSUME NEW month \in 1 .. 12, NEW day \in Nat
        PROVE  /\ month <= 2 => D(month, day) = before + DaysOfMonths(month + 9) + day - 1 - Day1970
               /\ month > 2 => D(month, day) = its + DaysOfMonths(month - 3) + day - 1 - Day1970
    <2>1. D(month, day) =
            DaysOfYears(YearOf(year, month)) + (DaysOfMonths(MonthOf(month)) + day - 1) - Day1970
      BY DaysOfDate
    <2> DEFINE m == DaysOfMonths(MonthOf(month))
    <2>2. m \in Int
      BY DEF MonthOf, DaysOfMonths
    <2>3. CASE month <= 2
      <3>1. YearOf(year, month) = year - 1 /\ MonthOf(month) = month + 9
        BY <2>3 DEF YearOf, MonthOf
      <3> HIDE DEF D
      <3>2. D(month, day) = before + (DaysOfMonths(month + 9) + day - 1) - Day1970
        BY <2>1, <3>1
      <3>3. DaysOfMonths(month + 9) \in Int
        BY <2>2, <3>1
      <3> HIDE DEF before
      <3>4. QED
        BY <1>1, <1>2, <2>3, <3>2, <3>3, SMT
    <2>4. CASE month > 2
      <3>1. YearOf(year, month) = year /\ MonthOf(month) = month - 3
        BY <2>4 DEF YearOf, MonthOf
      <3> HIDE DEF D
      <3>2. D(month, day) = its + (DaysOfMonths(month - 3) + day - 1) - Day1970
        BY <2>1, <3>1
      <3>3. DaysOfMonths(month - 3) \in Int
        BY <2>2, <3>1
      <3> HIDE DEF its
      <3>4. QED
        BY <1>1, <1>2, <2>4, <3>2, <3>3, SMT
    <2>5. QED
      BY <2>3, <2>4
  <1> HIDE DEF D, before, its, length
  <1>4. /\ \A day \in Nat : D(1, day) = before + 306 + day - 1 - Day1970
        /\ \A day \in Nat : D(2, day) = before + 337 + day - 1 - Day1970
        /\ \A day \in Nat : D(3, day) = its + 0 + day - 1 - Day1970
        /\ \A day \in Nat : D(4, day) = its + 31 + day - 1 - Day1970
        /\ \A day \in Nat : D(5, day) = its + 61 + day - 1 - Day1970
        /\ \A day \in Nat : D(6, day) = its + 92 + day - 1 - Day1970
        /\ \A day \in Nat : D(7, day) = its + 122 + day - 1 - Day1970
        /\ \A day \in Nat : D(8, day) = its + 153 + day - 1 - Day1970
        /\ \A day \in Nat : D(9, day) = its + 184 + day - 1 - Day1970
        /\ \A day \in Nat : D(10, day) = its + 214 + day - 1 - Day1970
        /\ \A day \in Nat : D(11, day) = its + 245 + day - 1 - Day1970
        /\ \A day \in Nat : D(12, day) = its + 275 + day - 1 - Day1970
    BY <1>3, MonthDays, SMTT(30)
  <1>5. ASSUME NEW month \in 1 .. 12, NEW day \in Nat PROVE D(month, day + 1) = D(month, day) + 1
    <2>1. month \in {1, 2, 3, 4, 5, 6, 7, 8, 9, 10, 11, 12} /\ day + 1 \in Nat
      OBVIOUS
    <2>2. QED
      BY <1>1, <1>2, <1>4, <2>1, SMTT(30)
  <1>6. ASSUME NEW month \in 1 .. 11
        PROVE  D(month + 1, 1) = D(month, LengthOfMonth(year, month)) + 1
    <2>1. CASE month = 2
      <3>1. LengthOfMonth(year, month) = IF LeapYear(year) THEN 29 ELSE 28
        BY <2>1 DEF LengthOfMonth
      <3>2. its = before + 365 + (LengthOfMonth(year, month) - 28)
        BY <1>1, <3>1 DEF length
      <3>3. QED
        BY <1>1, <1>2, <1>4, <2>1, <3>1, <3>2, SMTT(30)
    <2>2. CASE month \in {4, 6, 9, 11}
      <3>1. LengthOfMonth(year, month) = 30
        BY <2>2 DEF LengthOfMonth
      <3>2. QED
        BY <1>1, <1>2, <1>4, <2>2, <3>1, SMTT(30)
    <2>3. CASE month \in {1, 3, 5, 7, 8, 10}
      <3>1. LengthOfMonth(year, month) = 31
        BY <2>3 DEF LengthOfMonth
      <3>2. QED
        BY <1>1, <1>2, <1>4, <2>3, <3>1, SMTT(30)
    <2>4. QED
      BY <2>1, <2>2, <2>3
  <1>7. /\ _days_from_civil(year + 1, 1, 1) = its + 306 - Day1970
    <2>1. /\ year + 1 \in Nat /\ year + 1 >= 1 /\ 1 \in 1 .. 12 /\ 1 \in Nat
          /\ YearOf(year + 1, 1) = year /\ MonthOf(1) = 10
      BY DEF YearOf, MonthOf
    <2> DEFINE n == year + 1
    <2>2. n \in Nat /\ n >= 1 /\ YearOf(n, 1) = year
      BY <2>1
    <2> HIDE DEF n
    <2>3. _days_from_civil(n, 1, 1) =
            DaysOfYears(YearOf(n, 1)) + (DaysOfMonths(MonthOf(1)) + 1 - 1) - Day1970
      BY <2>1, <2>2, DaysOfDate
    <2>4. QED
      BY <1>1, <1>2, <2>1, <2>2, <2>3, MonthDays, SMT DEF its, n
  <1>8. QED
    <2>1. its + 306 - Day1970 = D(12, 31) + 1
      BY <1>1, <1>2, <1>4, SMT
    <2>2. its + 306 - Day1970 = D(1, 1) + length
      BY <1>1, <1>2, <1>4, SMT
    <2>3. QED
      BY <1>5, <1>6, <1>7, <2>1, <2>2 DEF D, length

\* A day that is the calendar's, in its place.
IsCalendars(c) ==
    /\ c \in [days : Int, year : Nat, month : 1 .. 12, day : Nat, weekday : Int]
    /\ IsDate(c.year, c.month, c.day)
    /\ c.days = _days_from_civil(c.year, c.month, c.day)
    /\ c.weekday = (c.days - FirstDay + 1) % 7

\* The days that the calendar begins at.
LEMMA CalendarStarts == ASSUME NEW c \in FirstDays PROVE IsCalendars(c)
  <1>1. ASSUME NEW year \in Nat, year >= 1, IsYear(year), NEW days \in Int, NEW weekday \in Int,
               days = DaysOfYears(year - 1) + 306 - Day1970,
               weekday = (days - FirstDay + 1) % 7
        PROVE  IsCalendars(Jan1(year, days, weekday))
    <2>1. YearOf(year, 1) = year - 1 /\ MonthOf(1) = 10 /\ 1 \in 1 .. 12 /\ 1 \in Nat
      BY DEF YearOf, MonthOf
    <2>2. _days_from_civil(year, 1, 1) =
            DaysOfYears(YearOf(year, 1)) + (DaysOfMonths(MonthOf(1)) + 1 - 1) - Day1970
      BY <1>1, <2>1, DaysOfDate
    <2>3. DaysOfYears(year - 1) \in Int /\ Day1970 \in Int
      BY <1>1, SMT DEF DaysOfYears, Day1970
    <2>4. _days_from_civil(year, 1, 1) = days
      BY <1>1, <2>1, <2>2, <2>3, MonthDays, SMT
    <2>5. IsDate(year, 1, 1)
      BY <1>1 DEF IsDate, LengthOfMonth
    <2>6. QED
      BY <1>1, <2>1, <2>4, <2>5, SMT DEF Jan1, IsCalendars
  <1>2. /\ DaysOfYears(0) = 0 /\ DaysOfYears(1969) = 719162 /\ DaysOfYears(1999) = 730119
    BY SMT DEF DaysOfYears
  <1>3. CASE c = Jan1(1, -719162, 1)
    <2>1. IsYear(1)
      BY SMT DEF IsYear
    <2>2. /\ 1 \in Nat /\ 1 >= 1 /\ -719162 \in Int /\ 1 \in Int
          /\ -719162 = DaysOfYears(1 - 1) + 306 - Day1970
          /\ 1 = (-719162 - FirstDay + 1) % 7
      BY <1>2, SMT DEF Day1970, FirstDay
    <2>3. QED
      BY <1>1, <1>3, <2>1, <2>2, SMT
  <1>4. CASE c = Jan1(1970, 0, 4)
    <2>1. IsYear(1970)
      BY SMT DEF IsYear
    <2>2. /\ 1970 \in Nat /\ 1970 >= 1 /\ 0 \in Int /\ 4 \in Int
          /\ 0 = DaysOfYears(1970 - 1) + 306 - Day1970
          /\ 4 = (0 - FirstDay + 1) % 7
      BY <1>2, SMT DEF Day1970, FirstDay
    <2>3. QED
      BY <1>1, <1>4, <2>1, <2>2, SMT
  <1>5. CASE c = Jan1(2000, 10957, 6)
    <2>1. IsYear(2000)
      BY SMT DEF IsYear
    <2>2. /\ 2000 \in Nat /\ 2000 >= 1 /\ 10957 \in Int /\ 6 \in Int
          /\ 10957 = DaysOfYears(2000 - 1) + 306 - Day1970
          /\ 6 = (10957 - FirstDay + 1) % 7
      BY <1>2, SMT DEF Day1970, FirstDay
    <2>3. QED
      BY <1>1, <1>5, <2>1, <2>2, SMT
  <1>6. QED
    BY <1>3, <1>4, <1>5, SMT DEF FirstDays

\* The weekday goes on with the days.
LEMMA NextWeekday ==
    ASSUME NEW days \in Int, NEW weekday, weekday = (days - FirstDay + 1) % 7, NEW n \in Nat
    PROVE  (weekday + n) % 7 = ((days + n) - FirstDay + 1) % 7 /\ (weekday + n) % 7 \in Int
  <1> DEFINE a == days - FirstDay + 1
  <1>1. a \in Int /\ a + n = (days + n) - FirstDay + 1 /\ weekday = a % 7
    BY SMT DEF FirstDay
  <1> HIDE DEF a
  <1>2. ((a % 7) + n) % 7 = (a + n) % 7
    BY <1>1, SMT
  <1>3. QED
    BY <1>1, <1>2, SMT

\* A year later, on its first day.
LEMMA NextYearKeeps == ASSUME IsCalendars(calendar), NextYear PROVE IsCalendars(calendar')
  <1> DEFINE c == calendar
             length == IF LeapYear(c.year) THEN 366 ELSE 365
             days == c.days + length
             weekday == (c.weekday + length) % 7
  <1>1. /\ c.year \in Nat /\ c.year >= 1 /\ c.days \in Int /\ c.month = 1 /\ c.day = 1
        /\ c.days = _days_from_civil(c.year, 1, 1)
        /\ c.weekday = (c.days - FirstDay + 1) % 7
    BY DEF IsCalendars, IsDate, IsYear, NextYear
  <1>2. length \in Nat
    OBVIOUS
  <1>3. calendar' = Jan1(c.year + 1, days, weekday)
    BY SMT DEF NextYear
  <1>4. IsYear(c.year + 1)
    BY <1>1, SMT DEF NextYear, IsYear
  <1>5. _days_from_civil(c.year + 1, 1, 1) = days
    BY <1>1, NextDate
  <1>6. weekday = (days - FirstDay + 1) % 7 /\ weekday \in Int
    <2> DEFINE d == c.days
               w == c.weekday
    <2>1. d \in Int /\ w = (d - FirstDay + 1) % 7
      BY <1>1
    <2> HIDE DEF length, d, w
    <2>2. (w + length) % 7 = ((d + length) - FirstDay + 1) % 7 /\ (w + length) % 7 \in Int
      BY <1>2, <2>1, NextWeekday
    <2>3. QED
      BY <2>2 DEF d, w
  <1>7. days \in Int /\ c.year + 1 \in Nat
    BY <1>1, <1>2
  <1> HIDE DEF days, weekday, c
  <1>8. IsDate(c.year + 1, 1, 1)
    BY <1>4, <1>7 DEF IsDate, LengthOfMonth
  <1>9. QED
    BY <1>3, <1>5, <1>6, <1>7, <1>8, SMT DEF Jan1, IsCalendars

\* A day later.
LEMMA NextDayKeeps == ASSUME IsCalendars(calendar), NextDay PROVE IsCalendars(calendar')
  <1> DEFINE c == calendar
             days == c.days + 1
             weekday == (c.weekday + 1) % 7
             last == LengthOfMonth(c.year, c.month)
             n == [c EXCEPT !.days = @ + 1, !.weekday = (@ + 1) % 7]
  <1>1. /\ c \in [days : Int, year : Nat, month : 1 .. 12, day : Nat, weekday : Int]
        /\ c.year \in Nat /\ c.year >= 1 /\ c.days \in Int /\ c.month \in 1 .. 12
        /\ c.day \in Nat /\ c.day >= 1 /\ c.day <= last /\ IsYear(c.year)
        /\ c.days = _days_from_civil(c.year, c.month, c.day)
        /\ c.weekday = (c.days - FirstDay + 1) % 7 /\ c.weekday \in Int
    BY DEF IsCalendars, IsDate, IsYear
  <1>2. days \in Int /\ weekday = (days - FirstDay + 1) % 7 /\ weekday \in Int
    <2> DEFINE d == c.days
               w == c.weekday
    <2>1. d \in Int /\ w = (d - FirstDay + 1) % 7 /\ 1 \in Nat
      BY <1>1
    <2> HIDE DEF d, w
    <2>2. (w + 1) % 7 = ((d + 1) - FirstDay + 1) % 7 /\ (w + 1) % 7 \in Int
      BY <2>1, NextWeekday
    <2>3. QED
      BY <1>1, <2>2 DEF d, w
  <1>3. /\ n \in [days : Int, year : Nat, month : 1 .. 12, day : Nat, weekday : Int]
        /\ n.days = days /\ n.weekday = weekday /\ n.year = c.year /\ n.month = c.month
        /\ n.day = c.day
    <2> HIDE DEF c
    <2>1. n = [c EXCEPT !.days = days, !.weekday = weekday]
      BY <1>1
    <2> HIDE DEF days, weekday, n
    <2>2. QED
      BY <1>1, <1>2, <2>1
  <1>4. calendar' =
            IF c.day < last THEN [n EXCEPT !.day = @ + 1]
            ELSE IF c.month < 12 THEN [n EXCEPT !.day = 1, !.month = @ + 1]
            ELSE Jan1(n.year + 1, n.days, n.weekday)
    BY SMT DEF NextDay
  <1>5. calendar'.year <= 9999
    BY SMT DEF NextDay
  <1>6. last \in Nat
    BY DEF LengthOfMonth
  <1> HIDE DEF n, days, weekday, last, c
  <1>7. CASE c.day < last
    <2> DEFINE day == c.day + 1
    <2>1. calendar' = [n EXCEPT !.day = day]
      BY <1>3, <1>4, <1>7, SMT
    <2>2. day \in Nat /\ day >= 1 /\ day <= LengthOfMonth(c.year, c.month)
      BY <1>1, <1>6, <1>7 DEF last
    <2>3. _days_from_civil(c.year, c.month, day) = days
      BY <1>1, NextDate, SMT DEF days
    <2> HIDE DEF day
    <2>4. IsDate(c.year, c.month, day)
      BY <1>1, <2>2 DEF IsDate
    <2>5. QED
      BY <1>1, <1>2, <1>3, <2>1, <2>2, <2>3, <2>4, SMT DEF IsCalendars
  <1>8. CASE ~(c.day < last) /\ c.month < 12
    <2> DEFINE month == c.month + 1
    <2>1. calendar' = [n EXCEPT !.day = 1, !.month = month]
      BY <1>3, <1>4, <1>8, SMT
    <2>2. month \in 1 .. 12 /\ c.month \in 1 .. 11 /\ c.day = LengthOfMonth(c.year, c.month)
      BY <1>1, <1>6, <1>8 DEF last
    <2>3. _days_from_civil(c.year, month, 1) = days
      BY <1>1, <2>2, NextDate, SMT DEF days
    <2> HIDE DEF month
    <2>4. IsDate(c.year, month, 1)
      BY <1>1, <2>2 DEF IsDate, LengthOfMonth
    <2>5. /\ calendar' \in [days : Int, year : Nat, month : 1 .. 12, day : Nat, weekday : Int]
          /\ calendar'.days = days /\ calendar'.weekday = weekday
          /\ calendar'.year = c.year /\ calendar'.month = month /\ calendar'.day = 1
      BY <1>3, <2>1, <2>2
    <2>6. QED
      BY <1>2, <2>3, <2>4, <2>5, Zenon DEF IsCalendars
  <1>9. CASE ~(c.day < last) /\ ~(c.month < 12)
    <2> DEFINE year == c.year + 1
    <2>1. calendar' = Jan1(year, days, weekday)
      BY <1>3, <1>4, <1>9, SMT
    <2>2. c.month = 12 /\ c.day = LengthOfMonth(c.year, c.month)
      BY <1>1, <1>6, <1>9 DEF last
    <2>3. LengthOfMonth(c.year, 12) = 31
      BY DEF LengthOfMonth
    <2>4. _days_from_civil(year, 1, 1) = days
      BY <1>1, <2>2, <2>3, NextDate, SMT DEF days
    <2>5. year \in Nat /\ year >= 1
      BY <1>1
    <2> HIDE DEF year
    <2>6. IsYear(year)
      BY <1>5, <2>1, <2>5, SMT DEF Jan1, IsYear
    <2>7. IsDate(year, 1, 1)
      BY <2>5, <2>6 DEF IsDate, LengthOfMonth
    <2>8. QED
      BY <1>2, <2>1, <2>4, <2>5, <2>7, SMT DEF Jan1, IsCalendars
  <1>10. QED
    BY <1>7, <1>8, <1>9

\* Every time of a day of the calendar is taken and given as that.
LEMMA DayTimes ==
    ASSUME NEW c, IsCalendars(c), NEW hms,
           hms[1] \in 0 .. 23, hms[2] \in 0 .. 59, hms[3] \in 0 .. 59
    PROVE  /\ IsCivilDate(At(c, hms)) /\ IsCivil(At(c, hms))
           /\ SecondOf(hms) \in Nat /\ c.days \in Int
           /\ ebisu_time_from_civil(At(c, hms)) = <<c.days, SecondOf(hms)>>
           /\ ebisu_time_to_civil(<<c.days, SecondOf(hms)>>) = At(c, hms)
  <1> DEFINE t == At(c, hms)
             s == SecondOf(hms)
  <1>1. /\ t.year = c.year /\ t.month = c.month /\ t.day = c.day /\ t.weekday = c.weekday
        /\ t.hour = hms[1] /\ t.minute = hms[2] /\ t.second = hms[3]
    BY DEF At
  <1>2. /\ IsDate(c.year, c.month, c.day) /\ c.days \in Int
        /\ c.days = _days_from_civil(c.year, c.month, c.day)
        /\ c.weekday = (c.days - FirstDay + 1) % 7
    BY SMT DEF IsCalendars
  <1>3. OfDay(t) = s
    <2> DEFINE h == hms[1]
               m == hms[2]
               r == hms[3]
    <2>1. h \in Nat /\ m \in Nat /\ r \in Nat
      OBVIOUS
    <2>2. OfDay(t) = (h * 60 + m) * 60 + r /\ s = h * 3600 + m * 60 + r
      BY <1>1, SMT DEF OfDay, SecondOf
    <2> HIDE DEF h, m, r, s, t
    <2>3. QED
      BY <2>1, <2>2, SMT
  <1> HIDE DEF t, s
  <1>4. IsCivilDate(t)
    BY <1>1, <1>2, Zenon DEF IsCivilDate
  <1>5. /\ IsCivil(t) /\ OfDay(t) \in Nat
        /\ ebisu_time_from_civil(t) = <<_days_from_civil(t.year, t.month, t.day), OfDay(t)>>
    BY <1>4, FromCivil
  <1>6. ebisu_time_from_civil(t) = <<c.days, s>>
    BY <1>1, <1>2, <1>3, <1>5
  <1>7. ebisu_time_to_civil(ebisu_time_from_civil(t)) =
                [year |-> t.year, month |-> t.month, day |-> t.day,
                 hour |-> t.hour, minute |-> t.minute, second |-> t.second,
                 weekday |-> (ebisu_time_from_civil(t)[1] - FirstDay + 1) % 7]
    BY <1>4, CivilTimesReturn
  <1>8. ebisu_time_from_civil(t)[1] = c.days
    BY <1>6, SMT
  <1>9. t = [year |-> t.year, month |-> t.month, day |-> t.day,
             hour |-> t.hour, minute |-> t.minute, second |-> t.second,
             weekday |-> t.weekday]
    BY SMT DEF t, At
  <1>10. ebisu_time_to_civil(<<c.days, s>>) = t
    BY <1>1, <1>2, <1>6, <1>7, <1>8, <1>9, SMT
  <1>11. QED
    BY <1>2, <1>3, <1>4, <1>5, <1>6, <1>10 DEF t, s

\* What isn't a time of a day is refused, but for a leap second.
LEMMA TimesConvert == ASSUME IsCalendars(calendar) PROVE TimesAreTheCalendars
  <1> DEFINE c == calendar
  <1>1. ASSUME NEW hms \in TimesOfDay
        PROVE  /\ ebisu_time_from_civil(At(c, hms)) = <<c.days, SecondOf(hms)>>
               /\ ebisu_time_to_civil(<<c.days, SecondOf(hms)>>) = At(c, hms)
    <2>1. hms[1] \in 0 .. 23 /\ hms[2] \in 0 .. 59 /\ hms[3] \in 0 .. 59
      BY DEF TimesOfDay
    <2>2. QED
      BY <2>1, DayTimes
  <1>2. /\ c \in [days : Int, year : Nat, month : 1 .. 12, day : Nat, weekday : Int]
        /\ c.year \in Nat /\ IsYear(c.year) /\ c.month \in 1 .. 12 /\ c.days \in Int
        /\ c.day \in Nat /\ c.day >= 1 /\ c.day <= LengthOfMonth(c.year, c.month)
        /\ c.days = _days_from_civil(c.year, c.month, c.day)
        /\ _days_in_month(c.year, c.month) = LengthOfMonth(c.year, c.month)
        /\ LengthOfMonth(c.year, c.month) \in Nat
    <2>1. c.month \in 1 .. 12 /\ c.year \in Nat
      BY DEF IsCalendars
    <2>2. _days_in_month(c.year, c.month) = LengthOfMonth(c.year, c.month)
      BY <2>1, LengthsOfMonths
    <2>3. QED
      BY <2>2 DEF IsCalendars, IsDate, LengthOfMonth
  <1>3. ebisu_time_from_civil(At(c, <<23, 59, 60>>)) = <<c.days + 1, 0>>
    <2> DEFINE t == At(c, <<23, 59, 60>>)
    <2>1. /\ t.year = c.year /\ t.month = c.month /\ t.day = c.day
          /\ t.hour = 23 /\ t.minute = 59 /\ t.second = 60
      BY DEF At
    <2> HIDE DEF t, c
    <2>2. IsCivil(t)
      BY <1>2, <2>1 DEF IsCivil
    <2>3. ebisu_time_from_civil(t) = <<c.days + 86400 \div 86400, 86400 % 86400>>
      BY <1>2, <2>1, <2>2, SMT DEF ebisu_time_from_civil
    <2>4. QED
      BY <1>2, <2>3, SMT DEF t
  <1>4. ebisu_time_from_civil(At(c, <<23, 58, 60>>)) = Refused
    <2> DEFINE t == At(c, <<23, 58, 60>>)
    <2>1. t.minute = 58 /\ t.second = 60
      BY DEF At
    <2>2. ~IsCivil(t)
      BY <2>1 DEF IsCivil
    <2> HIDE DEF t
    <2>3. QED
      BY <2>2, SMT DEF ebisu_time_from_civil, t
  <1>5. LET past == [c EXCEPT !.day = LengthOfMonth(c.year, c.month) + 1]
        IN  ebisu_time_from_civil(At(past, <<0, 0, 0>>)) = Refused
    <2> DEFINE past == [c EXCEPT !.day = LengthOfMonth(c.year, c.month) + 1]
               t == At(past, <<0, 0, 0>>)
    <2>1. t.year = c.year /\ t.month = c.month /\ t.day = LengthOfMonth(c.year, c.month) + 1
      BY <1>2 DEF At
    <2> HIDE DEF t
    <2>2. ~IsCivil(t)
      BY <1>2, <2>1 DEF IsCivil
    <2>3. ebisu_time_from_civil(t) = Refused
      BY <2>2, SMT DEF ebisu_time_from_civil
    <2>4. QED
      BY <2>3 DEF t
  <1>6. QED
    BY <1>1, <1>3, <1>4, <1>5, Zenon DEF TimesAreTheCalendars

-----------------------------------------------------------------------------
(* The Date of a response.                                                 *)

\* Years have at least 365 days.
LEMMA YearsGrow ==
    ASSUME NEW a \in Nat, NEW b \in Nat, a < b
    PROVE  DaysOfYears(a) + 365 <= DaysOfYears(b)
  <1> DEFINE p == a \div 4
             q == b \div 4
  <1>1. p \in Nat /\ q \in Nat /\ p <= q
    BY SMTT(30)
  <1>2. a \div 100 = p \div 25 /\ b \div 100 = q \div 25
    BY SMTT(30)
  <1>3. a \div 400 <= b \div 400 /\ a \div 400 \in Int /\ b \div 400 \in Int
    BY SMTT(30)
  <1>4. (q \div 25) - (p \div 25) <= q - p /\ q \div 25 \in Int /\ p \div 25 \in Int
    <2> HIDE DEF p, q
    <2>1. QED
      BY <1>1, SMTT(30)
  <1>5. /\ DaysOfYears(a) = a * 365 + p - p \div 25 + a \div 400
        /\ DaysOfYears(b) = b * 365 + q - q \div 25 + b \div 400
    BY <1>2, SMTT(30) DEF DaysOfYears
  <1>6. a * 365 + 365 <= b * 365
    BY SMTT(30)
  <1> DEFINE x == q \div 25
             y == p \div 25
             u == a \div 400
             v == b \div 400
  <1>7. /\ x \in Int /\ y \in Int /\ u \in Int /\ v \in Int /\ x - y <= q - p /\ u <= v
        /\ DaysOfYears(a) = a * 365 + p - y + u /\ DaysOfYears(b) = b * 365 + q - x + v
    BY <1>3, <1>4, <1>5
  <1> HIDE DEF p, q, x, y, u, v
  <1>8. QED
    BY <1>1, <1>6, <1>7, SMTT(30)

\* A day's place in its year, which begins in March.
LEMMA DayInYear ==
    ASSUME NEW year, NEW month, NEW day, IsDate(year, month, day)
    PROVE  /\ YearOf(year, month) \in Nat
           /\ YearOf(year, month) = IF month <= 2 THEN year - 1 ELSE year
           /\ DaysOfYears(YearOf(year, month)) \in Nat
           /\ \E doy \in Nat :
                /\ doy <= 365
                /\ _days_from_civil(year, month, day) =
                     DaysOfYears(YearOf(year, month)) + doy - Day1970
  <1> DEFINE doy == DaysOfMonths(MonthOf(month)) + day - 1
  <1>1. /\ year \in Nat /\ year >= 1 /\ month \in 1 .. 12
        /\ day \in Nat /\ day >= 1 /\ day <= LengthOfMonth(year, month)
    BY DEF IsDate, IsYear
  <1>2. /\ YearOf(year, month) \in Nat
        /\ _days_from_civil(year, month, day) = DaysOfYears(YearOf(year, month)) + doy - Day1970
    BY <1>1, DaysOfDate
  <1>3. DaysOfYears(YearOf(year, month)) \in Nat
    BY <1>2, YearDays
  <1>4. doy \in Nat /\ doy <= 365
    BY <1>1, DayOfYearIs
  <1>5. QED
    BY <1>2, <1>3, <1>4 DEF YearOf

\* The years that the earliest time taken may be in.
IsFloorYear(year) == year \in Nat /\ year >= 1970 /\ year <= 9999

\* The earliest time taken, where the floor is in July of a year.
FloorDay(year) == _days_from_civil(year, 7, 1)

\* It is of that year, and every date of an earlier year is before it.
LEMMA FloorIsIn ==
    ASSUME NEW year, IsFloorYear(year)
    PROVE  /\ FloorDay(year) \in Int
           /\ _year_of(<<FloorDay(year), 0>>) = year
           /\ \A y, month, day : IsDate(y, month, day) /\ y < year
                => _days_from_civil(y, month, day) < FloorDay(year)
  <1> DEFINE its == DaysOfYears(year)
             f == FloorDay(year)
  <1> USE DEF IsFloorYear
  <1>1. IsDate(year, 7, 1)
    BY SMT DEF IsDate, IsYear, LengthOfMonth
  <1>2. year \in Nat /\ its \in Nat /\ Day1970 \in Nat
    BY YearDays, SMT DEF Day1970
  <1>3. f = its + 122 - Day1970
    <2>1. YearOf(year, 7) = year /\ MonthOf(7) = 4 /\ 7 \in 1 .. 12 /\ 1 \in Nat
      BY DEF YearOf, MonthOf
    <2>2. year >= 1
      BY SMT
    <2>3. _days_from_civil(year, 7, 1) =
            DaysOfYears(YearOf(year, 7)) + (DaysOfMonths(MonthOf(7)) + 1 - 1) - Day1970
      BY <2>1, <2>2, DaysOfDate
    <2>4. f = its + (122 + 1 - 1) - Day1970
      BY <2>1, <2>3, MonthDays DEF FloorDay
    <2> HIDE DEF its, f
    <2>5. QED
      BY <1>2, <2>4, SMT
  <1>4. f \in Int /\ f >= 0 /\ f <= LastDay
    <2>1. DaysOfYears(1969) = 719162 /\ DaysOfYears(9999) = 3652059
      BY SMT DEF DaysOfYears
    <2>2. its >= 719527
      <3>1. 1969 \in Nat /\ 1969 < year
        BY SMT
      <3>2. DaysOfYears(1969) + 365 <= its
        BY <3>1, YearsGrow, SMT
      <3> HIDE DEF its
      <3>3. QED
        BY <1>2, <2>1, <3>2, SMT
    <2>3. its <= 3652059
      <3>1. CASE year = 9999
        BY <2>1, <3>1, SMT
      <3>2. CASE year # 9999
        <4>1. 9999 \in Nat /\ year < 9999
          BY <3>2, SMT
        <4>2. its + 365 <= DaysOfYears(9999)
          BY <4>1, YearsGrow, SMT
        <4> HIDE DEF its
        <4>3. QED
          BY <1>2, <2>1, <4>2, SMT
      <3>3. QED
        BY <3>1, <3>2, SMT
    <2> HIDE DEF its, f
    <2>4. Day1970 = 719468 /\ LastDay = 2932896
      BY SMT DEF Day1970, LastDay
    <2>5. f = its - 719346
      BY <1>2, <1>3, <2>4, SMT
    <2>6. QED
      BY <1>2, <2>2, <2>3, <2>4, <2>5, SMT
  <1>5. _year_of(<<f, 0>>) = year
    <2> DEFINE month == 7
               day == 1
               s == 0
    <2>1. IsDate(year, month, day) /\ f = _days_from_civil(year, month, day)
      BY <1>1 DEF FloorDay
    <2>2. s \in Nat
      OBVIOUS
    <2> HIDE DEF f, month, day, s, IsFloorYear
    <2>3. ebisu_time_to_civil(<<f, s>>) =
                [year |-> year, month |-> month, day |-> day,
                 hour |-> s \div 3600, minute |-> (s \div 60) % 60, second |-> s % 60,
                 weekday |-> (f - FirstDay + 1) % 7]
      BY <2>1, <2>2, ToCivil
    <2>4. ebisu_time_to_civil(<<f, s>>).year = year
      BY <2>3
    <2>5. <<f, s>>[1] = f
      OBVIOUS
    <2>6. QED
      BY <1>4, <2>4, <2>5, SMT DEF _year_of, s
  <1>6. ASSUME NEW y, NEW month, NEW day, IsDate(y, month, day), y < year
        PROVE  _days_from_civil(y, month, day) < f
    <2> DEFINE b == YearOf(y, month)
               n == DaysOfYears(b)
               d == _days_from_civil(y, month, day)
    <2>1. /\ b \in Nat /\ b = (IF month <= 2 THEN y - 1 ELSE y) /\ n \in Nat
          /\ \E doy \in Nat : doy <= 365 /\ d = n + doy - Day1970
      BY <1>6, DayInYear
    <2>2. PICK doy \in Nat : doy <= 365 /\ d = n + doy - Day1970
      BY <2>1
    <2>3. y \in Nat
      BY <1>6 DEF IsDate
    <2>4. b < year
      BY <1>6, <2>1, <2>3
    <2>5. n + 365 <= its
      BY <2>1, <2>4, YearsGrow
    <2> HIDE DEF b, n, d, its, f
    <2>6. d < f
      BY <1>2, <1>3, <2>1, <2>2, <2>5, SMT
    <2>7. QED
      BY <2>6 DEF d
  <1>7. QED
    BY <1>4, <1>5, <1>6

\* The year that two digits stand for.
LEMMA TwoDigits ==
    ASSUME NEW y \in Nat, NEW year \in Nat, year >= 50
    PROVE  /\ YearOfTwoDigits(y % 100, year) \in Nat
           /\ YearOfTwoDigits(y % 100, year) <= year + 50
           /\ year <= y /\ y <= year + 50 => YearOfTwoDigits(y % 100, year) = y
  <1> DEFINE c == year - (year % 100)
             n == c + (y % 100)
  <1>1. c \in Nat /\ c <= year /\ year < c + 100 /\ y % 100 \in Nat /\ y % 100 < 100
    BY SMT
  <1>2. c % 100 = 0
    BY SMT
  <1>3. n \in Nat
    BY <1>1
  <1> DEFINE k == IF n > year + 50 THEN n - 100 ELSE IF n <= year - 50 THEN n + 100 ELSE n
  <1>4. YearOfTwoDigits(y % 100, year) = k
    BY DEF YearOfTwoDigits
  <1>5. n % 100 = y % 100
    <2> DEFINE d == y % 100
    <2>1. d \in Nat /\ d < 100
      BY <1>1
    <2> HIDE DEF c, d
    <2>2. (c + d) % 100 = d
      BY <1>1, <1>2, <2>1, SMT
    <2>3. QED
      BY <2>2 DEF d
  <1>6. c <= n /\ n < c + 100
    BY <1>1
  <1> HIDE DEF n, c
  <1>7. k \in Nat /\ k <= year + 50
    BY <1>1, <1>3, <1>6
  <1>8. ASSUME year <= y, y <= year + 50 PROVE k = y
    <2>1. k % 100 = y % 100 /\ year - 50 < k
      <3>1. CASE n > year + 50
        BY <1>1, <1>3, <1>5, <1>6, <3>1, SMT
      <3>2. CASE n <= year - 50
        BY <1>1, <1>3, <1>5, <1>6, <3>2, SMT
      <3>3. CASE ~(n > year + 50) /\ ~(n <= year - 50)
        BY <1>1, <1>3, <1>5, <1>6, <3>3, SMT
      <3>4. QED
        BY <3>1, <3>2, <3>3
    <2> HIDE DEF k
    <2>2. QED
      BY <1>7, <1>8, <2>1, SMT
  <1>9. QED
    BY <1>4, <1>7, <1>8

\* A header whose fields are what was sent is read as the time sent, unless it is too early.
LEMMA DateRead ==
    ASSUME NEW c, IsCalendars(c), NEW hms,
           hms[1] \in 0 .. 23, hms[2] \in 0 .. 59, hms[3] \in 0 .. 59,
           NEW year, IsFloorYear(year), NEW earliest, earliest = <<FloorDay(year), 0>>,
           NEW header, Fields(header, earliest) = At(c, hms),
           NEW given, given = <<c.days, SecondOf(hms)>>
    PROVE  /\ Before(given, earliest) => _parse_http_date(header, earliest) = Refused
           /\ ~Before(given, earliest) => _parse_http_date(header, earliest) = given
  <1> DEFINE d == At(c, hms)
             midnight == _days_from_civil(d.year, d.month, d.day)
  <1>1. ebisu_time_from_civil(d) = given
    BY DayTimes
  <1>2. /\ c.days \in Int /\ IsDate(c.year, c.month, c.day) /\ c.year \in Nat
        /\ c.days = _days_from_civil(c.year, c.month, c.day)
        /\ c.weekday = (c.days - FirstDay + 1) % 7
    BY SMT DEF IsCalendars
  <1>3. d.year = c.year /\ d.weekday = c.weekday /\ midnight = c.days
    BY <1>2 DEF At
  <1>4. (midnight + 4) % 7 = d.weekday
    <2> DEFINE n == c.days
    <2>1. n \in Int /\ d.weekday = (n - FirstDay + 1) % 7 /\ midnight = n
      BY <1>2, <1>3
    <2> HIDE DEF n, d, midnight
    <2>2. (n - FirstDay + 1) % 7 = (n + 4) % 7
      BY <2>1, SMT DEF FirstDay
    <2>3. QED
      BY <2>1, <2>2
  <1>5. ASSUME ~Before(given, earliest) PROVE ~(d.year < 1970)
    <2> SUFFICES ASSUME c.year < 1970 PROVE FALSE
      BY <1>3
    <2>1. c.year < year
      BY <1>2, SMT DEF IsFloorYear
    <2>2. c.days < FloorDay(year)
      BY <1>2, <2>1, FloorIsIn
    <2>3. given[1] = c.days /\ earliest[1] = FloorDay(year)
      OBVIOUS
    <2>4. QED
      BY <1>5, <2>2, <2>3 DEF Before
  <1>6. given # Refused
    BY SMT DEF Refused
  <1> DEFINE early == d.year < 1970
  <1>7. _parse_http_date(header, earliest) =
          IF early \/ given = Refused THEN Refused
          ELSE IF (midnight + 4) % 7 # d.weekday \/ Before(given, earliest) THEN Refused
          ELSE given
    BY <1>1, SMT DEF _parse_http_date
  <1> HIDE DEF d, midnight, early
  <1>8. CASE Before(given, earliest)
    BY <1>7, <1>8, Zenon
  <1>9. CASE ~Before(given, earliest)
    <2>1. ~early
      BY <1>5, <1>9 DEF early
    <2>2. QED
      BY <1>4, <1>6, <1>7, <1>9, <2>1, Zenon
  <1>10. QED
    BY <1>8, <1>9

\* A date with two digits for its year is never read as one more than 50 years ahead.
LEMMA YearRead ==
    ASSUME NEW c, IsCalendars(c), NEW hms,
           hms[1] \in 0 .. 23, hms[2] \in 0 .. 59, hms[3] \in 0 .. 59,
           NEW year, IsFloorYear(year), NEW earliest, earliest = <<FloorDay(year), 0>>,
           NEW header, header.form = "rfc850",
           header.date = [At(c, hms) EXCEPT !.year = @ % 100],
           NEW taken, taken = _parse_http_date(header, earliest), taken # Refused
    PROVE  ebisu_time_to_civil(taken).year <= year + 50
  <1> DEFINE y == YearOfTwoDigits(c.year % 100, year)
             d == Fields(header, earliest)
  <1>1. c.year \in Nat /\ c.month \in 1 .. 12 /\ c.day \in Nat
    BY DEF IsCalendars
  <1>2. y \in Nat /\ y <= year + 50
    BY <1>1, TwoDigits, SMT DEF IsFloorYear
  <1>3. /\ d.year = y /\ d.month = c.month /\ d.day = c.day
        /\ d.hour = hms[1] /\ d.minute = hms[2] /\ d.second = hms[3]
    <2>1. _year_of(earliest) = year
      BY FloorIsIn
    <2>2. d = [header.date EXCEPT !.year = YearOfTwoDigits(@, year)]
      BY <2>1, Zenon DEF Fields
    <2> DEFINE h == header.date
    <2>3. /\ h = [year |-> c.year % 100, month |-> c.month, day |-> c.day, weekday |-> c.weekday,
                  hour |-> hms[1], minute |-> hms[2], second |-> hms[3]]
      BY DEF At
    <2>4. d = [h EXCEPT !.year = YearOfTwoDigits(h.year, year)]
      BY <2>2, Zenon
    <2> HIDE DEF d, h
    <2>5. h.year = c.year % 100
      BY <2>3
    <2>6. d = [h EXCEPT !.year = y]
      BY <2>4, <2>5, Zenon
    <2> HIDE DEF y
    <2>7. QED
      BY <2>3, <2>6
  <1>4. taken = ebisu_time_from_civil(d)
    BY SMT DEF _parse_http_date
  <1>5. IsCivil(d)
    BY <1>4, SMT DEF ebisu_time_from_civil
  <1> HIDE DEF d, y
  <1>6. IsCivilDate(d)
    <2>1. d.year \in Nat /\ d.month \in 1 .. 12 /\ d.day \in Nat
      BY <1>1, <1>2, <1>3
    <2>2. /\ IsYear(d.year) /\ d.day \in 1 .. LengthOfMonth(d.year, d.month)
      BY <1>5, <2>1, LengthsOfMonths DEF IsCivil
    <2>3. IsDate(d.year, d.month, d.day)
      BY <2>1, <2>2 DEF IsDate, LengthOfMonth
    <2>4. QED
      BY <1>3, <2>3 DEF IsCivilDate
  <1>7. ebisu_time_to_civil(taken).year = d.year
    BY <1>4, <1>6, CivilTimesReturn
  <1>8. QED
    BY <1>2, <1>3, <1>7

\* The Date of a response is its sender's.
LEMMA DatesRead == ASSUME IsCalendars(calendar) PROVE DateIsTheSenders
  <1> DEFINE c == calendar
  <1> SUFFICES ASSUME NEW hms \in {<<0, 0, 0>>, <<23, 59, 59>>},
                      NEW form \in {"imf", "asctime", "rfc850"}, NEW year \in FloorYears
               PROVE  LET given == At(c, hms)
                          header == [form |-> form,
                                     date |-> IF form = "rfc850"
                                              THEN [given EXCEPT !.year = @ % 100] ELSE given]
                          earliest == <<_days_from_civil(year, 7, 1), 0>>
                          taken == _parse_http_date(header, earliest)
                          at == <<c.days, SecondOf(hms)>>
                      IN  /\ Before(at, earliest) /\ form # "rfc850" => taken = Refused
                          /\ ~Before(at, earliest) /\ (form # "rfc850" \/ c.year <= year + 50)
                                => taken = at
                          /\ taken # Refused => ~Before(taken, earliest)
                          /\ taken # Refused /\ form = "rfc850"
                                => ebisu_time_to_civil(taken).year <= year + 50
    BY DEF DateIsTheSenders
  <1> DEFINE given == At(c, hms)
             header == [form |-> form,
                        date |-> IF form = "rfc850"
                                 THEN [given EXCEPT !.year = @ % 100] ELSE given]
             earliest == <<FloorDay(year), 0>>
             taken == _parse_http_date(header, earliest)
             at == <<c.days, SecondOf(hms)>>
  <1>1. IsFloorYear(year)
    BY DatesAssumption, SMT DEF IsFloorYear
  <1>2. hms[1] \in 0 .. 23 /\ hms[2] \in 0 .. 59 /\ hms[3] \in 0 .. 59
    OBVIOUS
  <1>3. /\ header.form = form /\ earliest = <<FloorDay(year), 0>> /\ given = At(c, hms)
        /\ earliest[1] = FloorDay(year) /\ at[1] = c.days /\ at = <<c.days, SecondOf(hms)>>
        /\ taken = _parse_http_date(header, earliest)
        /\ form # "rfc850" => header.date = given
        /\ form = "rfc850" => header.date = [given EXCEPT !.year = @ % 100]
    OBVIOUS
  <1>4. year \in Nat /\ c.year \in Nat /\ c.days \in Int /\ IsDate(c.year, c.month, c.day)
         /\ c.days = _days_from_civil(c.year, c.month, c.day) /\ IsCalendars(c)
    BY <1>1, SMT DEF IsCalendars, IsFloorYear
  <1> HIDE DEF header, earliest, taken, at, given, c
  <1>5. ASSUME Fields(header, earliest) = given
        PROVE  (Before(at, earliest) => taken = Refused) /\ (~Before(at, earliest) => taken = at)
    BY <1>1, <1>2, <1>3, <1>5, <1>4, DateRead
  <1>6. taken # Refused => ~Before(taken, earliest)
    BY <1>3, SMT DEF _parse_http_date
  <1>7. /\ Before(at, earliest) /\ form # "rfc850" => taken = Refused
        /\ ~Before(at, earliest) /\ (form # "rfc850" \/ c.year <= year + 50) => taken = at
        /\ taken # Refused => ~Before(taken, earliest)
        /\ taken # Refused /\ form = "rfc850" => ebisu_time_to_civil(taken).year <= year + 50
    <2>1. CASE form # "rfc850"
      <3>1. Fields(header, earliest) = given
        BY <1>3, <2>1 DEF Fields
      <3>2. QED
        BY <1>5, <1>6, <2>1, <3>1
    <2>2. CASE form = "rfc850"
      <3>1. header.date = [At(c, hms) EXCEPT !.year = @ % 100]
        BY <1>3, <2>2
      <3>2. taken # Refused => ebisu_time_to_civil(taken).year <= year + 50
        <4>1. IsCalendars(c) /\ header.form = "rfc850" /\ earliest = <<FloorDay(year), 0>>
              /\ taken = _parse_http_date(header, earliest)
          BY <1>3, <1>4, <2>2
        <4>2. QED
          BY <1>1, <1>2, <3>1, <4>1, YearRead, ZenonT(30)
      <3>3. ASSUME ~Before(at, earliest), c.year <= year + 50 PROVE taken = at
        <4>1. year <= c.year
          <5> SUFFICES ASSUME c.year < year PROVE FALSE
            BY <1>4
          <5>1. \A y, month, day : IsDate(y, month, day) /\ y < year
                    => _days_from_civil(y, month, day) < FloorDay(year)
            BY <1>1, FloorIsIn
          <5>2. c.days < FloorDay(year)
            BY <1>4, <5>1
          <5>3. QED
            BY <1>3, <3>3, <5>2 DEF Before
        <4>2. year >= 50
          BY <1>1, SMT DEF IsFloorYear
        <4>3. YearOfTwoDigits(c.year % 100, year) = c.year
          BY <1>4, <3>3, <4>1, <4>2, TwoDigits
        <4>4. _year_of(earliest) = year
          BY <1>1, <1>3, FloorIsIn
        <4>5. Fields(header, earliest) =
                [header.date EXCEPT !.year = YearOfTwoDigits(@, year)]
          BY <1>3, <2>2, <4>4, Zenon DEF Fields
        <4>6. given = [year |-> c.year, month |-> c.month, day |-> c.day, weekday |-> c.weekday,
                      hour |-> hms[1], minute |-> hms[2], second |-> hms[3]]
          BY <1>3 DEF At
        <4>7. header.date = [year |-> c.year % 100, month |-> c.month, day |-> c.day,
                             weekday |-> c.weekday,
                             hour |-> hms[1], minute |-> hms[2], second |-> hms[3]]
          BY <1>3, <2>2, <4>6
        <4>8. Fields(header, earliest) = [header.date EXCEPT !.year = c.year]
          BY <4>3, <4>5, <4>7
        <4>9. Fields(header, earliest) = given
          BY <4>6, <4>7, <4>8
        <4>10. QED
          BY <1>5, <3>3, <4>9
      <3>4. QED
        BY <1>6, <2>2, <3>2, <3>3
    <2>3. QED
      BY <2>1, <2>2
  <1>8. QED
    BY <1>7 DEF FloorDay, header, earliest, taken, at, given, c

\* Dates are the calendar's, and the Date of a response is its sender's, in every year that
\* is walked and wherever the earliest time taken is (ebisu_time_from_civil(),
\* ebisu_time_to_civil(), _parse_http_date()).
THEOREM DatesCorrect == CalendarSpec => []DatesAreTheCalendars
  <1> DEFINE Inv == calendar # NoDay => IsCalendars(calendar)
  <1>1. CalendarInit => Inv
    BY DEF CalendarInit
  <1>2. Inv /\ [CalendarNext]_calendar => Inv'
    <2> SUFFICES ASSUME Inv, [CalendarNext]_calendar PROVE Inv'
      OBVIOUS
    <2>1. CASE OpenCalendar
      BY <2>1, CalendarStarts DEF OpenCalendar
    <2>2. CASE NextYear
      <3>1. calendar # NoDay
        BY <2>2, SMT DEF NextYear
      <3>2. QED
        BY <2>2, <3>1, NextYearKeeps
    <2>3. CASE NextDay
      <3>1. calendar # NoDay
        BY <2>3, Zenon DEF NextDay
      <3>2. QED
        BY <2>3, <3>1, NextDayKeeps
    <2>4. CASE UNCHANGED calendar
      BY <2>4
    <2>5. QED
      BY <2>1, <2>2, <2>3, <2>4 DEF CalendarNext
  <1>3. Inv => DatesAreTheCalendars
    BY TimesConvert, DatesRead DEF DatesAreTheCalendars
  <1> HIDE DEF Inv
  <1>4. QED
    BY <1>1, <1>2, <1>3, PTL DEF CalendarSpec

=============================================================================
