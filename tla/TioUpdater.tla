----------------------------- MODULE TioUpdater -----------------------------
(***************************************************************************)
(* tio_updater_t: a task that uploads the thing's state every so often     *)
(* (tio.c), and the calls that start it: the application's, and one made   *)
(* in the exit callback of a task that is ending.                          *)
(*                                                                         *)
(* _task_running is what keeps two tasks from the updater's socket and     *)
(* buffer. It isn't guarded by a mutex: the application starts the updater *)
(* from one thread at a time.                                              *)
(***************************************************************************)
EXTENDS Naturals, FiniteSets

CONSTANTS
    UpdaterTasks,  \* bound: the tasks there may be at once
    Interval       \* tio_updater_set_interval(), in seconds

ASSUME TioUpdaterAssumption == Interval \in Nat \ {0} /\ {"app", "none"} \cap UpdaterTasks = {}

VARIABLES
    task_running,  \* _task_running
    starting,      \* who is in tio_updater_start(), past its checks, or "none"
    task,          \* of each task: where it is, and the seconds it still waits
    read,          \* the state's reader: at its "start", or "read"
    waited,        \* history: seconds since the last upload was due
    puts           \* history: requests of this upload

updaterVars == <<task_running, starting, task, read, waited, puts>>

\* tio_updater_init()
UpdaterInit ==
    /\ task_running = FALSE
    /\ starting = "none"
    /\ task = [t \in UpdaterTasks |-> [at |-> "none", remain |-> 0]]
    /\ read = "start"
    /\ waited = 0
    /\ puts = 0

Goes(t, to) == task' = [task EXCEPT ![t].at = to]

-----------------------------------------------------------------------------
(* tio_updater_start()                                                     *)

\* A start while a task runs, or without what the task needs, changes nothing. Setting
\* what the task reads, and then that it runs, is before creating it.
UpdaterStart(by) ==
    /\ starting = "none"
    /\ by \in UpdaterTasks => task[by].at = "exiting"
    /\ ~task_running
    /\ starting' = by
    /\ task_running' = TRUE
    /\ UNCHANGED <<task, read, waited, puts>>

TaskCreated(t) ==
    /\ starting # "none"
    /\ task[t].at = "none"
    /\ starting' = "none"
    /\ task' = [task EXCEPT ![t] = [at |-> "ask", remain |-> Interval]]
    /\ waited' = 0
    /\ UNCHANGED <<task_running, read, puts>>

TaskNotCreated ==
    /\ starting # "none"
    /\ starting' = "none"
    /\ task_running' = FALSE
    /\ UNCHANGED <<task, read, waited, puts>>

-----------------------------------------------------------------------------
(* _update_state()                                                         *)

\* The continue callback, asked every second, has the task go on.
Continues(t) ==
    /\ task[t].at = "ask"
    /\ Goes(t, "delay")
    /\ UNCHANGED <<task_running, starting, read, waited, puts>>

\* Mutant: the task is marked ended after its exit callback.
EndsAfterCallback(t) ==
    /\ task[t].at = "ask"
    /\ Goes(t, "exiting")
    /\ UNCHANGED <<task_running, starting, read, waited, puts>>

\* It ends it. The exit callback may start the updater again, so the task has ended
\* before it is called.
Ends(t) ==
    /\ task[t].at = "ask"
    /\ task_running' = FALSE
    /\ Goes(t, "exiting")
    /\ UNCHANGED <<starting, read, waited, puts>>

\* The exit callback returns, and the task's thread is gone.
Exits(t) ==
    /\ task[t].at = "exiting"
    /\ starting # t
    /\ task' = [task EXCEPT ![t] = [at |-> "none", remain |-> 0]]
    /\ UNCHANGED <<task_running, starting, read, waited, puts>>

\* delay_ms() of a second.
Delay(t) ==
    /\ task[t].at = "delay"
    /\ IF task[t].remain > 1
       THEN task' = [task EXCEPT ![t] = [at |-> "ask", remain |-> @.remain - 1]]
       ELSE task' = [task EXCEPT ![t] = [at |-> "size", remain |-> Interval]]
    /\ waited' = waited + 1
    /\ UNCHANGED <<task_running, starting, read, puts>>

\* _tio_updater_upload(): asks the size, which starts the reader over. No state is no
\* upload, and no second one.
AskSize(t, size) ==
    /\ task[t].at \in {"size", "size_again"}
    /\ Goes(t, IF size = 0 THEN "ask" ELSE IF task[t].at = "size" THEN "put" ELSE "put_again")
    /\ read' = "start"
    /\ waited' = 0
    /\ puts' = IF size = 0 THEN 0 ELSE puts
    /\ UNCHANGED <<task_running, starting>>

\* Mutant: the size isn't asked for again.
AfterRefusalAtOnce(t, outcome) ==
    IF outcome = "refused" /\ task[t].at = "put" THEN "put_again" ELSE "ask"

\* _put_state(): kii reads the state, or fails before it does. A refusal of a token that
\* the session then renewed is uploaded once more.
AfterRefusal(t, outcome) ==
    IF outcome = "refused" /\ task[t].at = "put" THEN "size_again" ELSE "ask"

PutState(t, outcome) ==
    /\ task[t].at \in {"put", "put_again"}
    /\ Goes(t, AfterRefusal(t, outcome))
    /\ read' = IF outcome = "unsent" THEN read ELSE "read"
    /\ puts' = IF AfterRefusal(t, outcome) = "ask" THEN 0 ELSE puts + 1
    /\ UNCHANGED <<task_running, starting, waited>>

UpdaterNext ==
    \/ \E by \in UpdaterTasks \cup {"app"} : UpdaterStart(by)
    \/ TaskNotCreated
    \/ \E t \in UpdaterTasks :
        \/ TaskCreated(t)
        \/ Continues(t)
        \/ Ends(t)
        \/ Exits(t)
        \/ Delay(t)
        \/ \E size \in 0..1 : AskSize(t, size)
        \/ \E outcome \in {"ok", "refused", "failed", "unsent"} : PutState(t, outcome)

UpdaterSpec == UpdaterInit /\ [][UpdaterNext]_updaterVars

-----------------------------------------------------------------------------
(* Properties.                                                             *)

\* At most one task uses the updater's socket and buffer, also when the exit callback of
\* one has started the next; and the updater counts as running exactly while one does,
\* so that it can be started again once its task has ended (tio_updater_start(),
\* _update_state()).
OneUpdater ==
    LET live == {t \in UpdaterTasks : task[t].at \notin {"none", "exiting"}}
    IN  Cardinality(live) + (IF starting # "none" THEN 1 ELSE 0) = IF task_running THEN 1 ELSE 0

\* An upload that is due sends the state from its start, twice at most, and is due
\* Interval seconds of waiting after the last (_tio_updater_upload(), _update_state()).
UploadsWhole ==
    \A t \in UpdaterTasks :
        /\ task[t].at \in {"put", "put_again"} => read = "start"
        /\ task[t].at = "size" => waited = Interval
        /\ puts < 2

=============================================================================
