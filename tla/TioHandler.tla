----------------------------- MODULE TioHandler -----------------------------
(***************************************************************************)
(* tio_handler_t's handling of a command that the server pushed            *)
(* (command_parser.c, tio.c): the actions of the command are run one after *)
(* the other, in the handler's task, and their results put together in a   *)
(* request of kii_api_call.c's (Requests) as they come.                    *)
(*                                                                         *)
(* Abstracted: JSON is what the parser says of it. A command is its        *)
(* aliases, an alias its actions, each well formed or not; a part of the   *)
(* results' body is the tokens that its commas and brackets are.           *)
(***************************************************************************)
EXTENDS Requests

CONSTANTS
    MaxAliases,  \* bound: aliases of a command
    MaxActions   \* bound: actions of an alias

ASSUME TioHandlerAssumption == MaxAliases \in Nat /\ MaxActions \in Nat

VARIABLES
    phase,     \* where _handle_command() is
    command,   \* what was pushed
    at,        \* the alias and the action it is at
    ran,       \* history: the results of the actions run, alias by alias
    reported,  \* history: the request that reported them, if one was sent
    told       \* what _handle_command() returned, and cb_err is told if it isn't OK

handlerVars == <<phase, command, at, ran, reported, told>>
tioVars == <<requestsVars, handlerVars>>

-----------------------------------------------------------------------------
(* Parsing.                                                                *)

\* An alias holds an array, or what isn't one; each of its elements is an object whose
\* first member is an action (_parse_first_kv(), _parse_primitive()), or is malformed.
Aliases ==
    [array : {FALSE}, actions : {<<>>}]
        \cup [array : {TRUE}, actions : BoundedSeq({"action", "malformed"}, MaxActions)]
Commands == [id : BOOLEAN, aliases : BoundedSeq(Aliases, MaxAliases)]

\* _walk_command(): fails at the first alias or action that is malformed.
_walk_command(c) ==
    /\ c.id
    /\ \A i \in DOMAIN c.aliases :
            /\ c.aliases[i].array
            /\ \A j \in DOMAIN c.aliases[i].actions : c.aliases[i].actions[j] = "action"

\* Mutant: the command is only looked at as it is handled.
CheckNothing(c) == c.id

\* _check_command(): the whole command, before any of it is handled.
_check_command(c) == _walk_command(c)

NoCommand == [id |-> FALSE, aliases |-> <<>>]

HandlerInit ==
    /\ phase = "idle"
    /\ command = NoCommand
    /\ at = [alias |-> 1, action |-> 1]
    /\ ran = <<>>
    /\ reported = {}
    /\ told = "OK"

-----------------------------------------------------------------------------
(* The body of the results, part by part.                                  *)

ResultsOpen == <<"results">>
AliasOpen(i) == IF i > 1 THEN <<"comma", "alias">> ELSE <<"alias">>
ActionResult(i, j, result) == IF j > 1 THEN <<"comma", result>> ELSE <<result>>
Close == <<"close">>

\* What it returns as it ends.
Returns(code) == phase' = "done" /\ told' = code

\* A part is appended, or doesn't fit: the request is then given up.
Appends(part, next) ==
    /\ ApiAppendBody(part)
    /\ \/ ret'.code = "OK" /\ phase' = next /\ UNCHANGED told
       \/ ret'.code # "OK" /\ Returns(ret'.code)

-----------------------------------------------------------------------------
(* _handle_command()                                                       *)

\* _cb_receive_push(), of a push that cb_push doesn't take for itself.
ReceivePush(c) ==
    /\ phase = "idle" /\ making = "none"
    /\ command' = c
    /\ at' = [alias |-> 1, action |-> 1]
    /\ ran' = <<>>
    /\ reported' = {}
    /\ IF _check_command(c) THEN phase' = "start" /\ UNCHANGED told ELSE Returns("PARSE_JSON")
    /\ UNCHANGED requestsVars

\* _start_result_request(): the path has a buffer of its own.
StartResultRequest ==
    /\ phase = "start"
    /\ \/ Returns("TOO_LARGE_DATA") /\ UNCHANGED requestsVars
       \/ /\ ApiStart(TRUE, TRUE)
          /\ \/ ret'.code = "OK" /\ phase' = "open" /\ UNCHANGED told
             \/ ret'.code # "OK" /\ Returns(ret'.code)
    /\ UNCHANGED <<command, at, ran, reported>>

OpenResults ==
    /\ phase = "open"
    /\ Appends(ResultsOpen, "alias")
    /\ UNCHANGED <<command, at, ran, reported>>

\* The next alias: its comma, name and bracket, which are appended one by one. An alias
\* or an action that the check found well formed is again.
OpenAlias ==
    /\ phase = "alias"
    /\ at.alias <= Len(command.aliases)
    /\ IF command.aliases[at.alias].array
       THEN Appends(AliasOpen(at.alias), "action")
       ELSE ApiCancel /\ Returns("PARSE_JSON")
    /\ ran' = Append(ran, <<>>)
    /\ UNCHANGED <<command, at, reported>>

\* cb_action(), then _append_action_result(): what the application gave with the result
\* may not be JSON, or not fit, and either gives the request up.
RunAction ==
    /\ phase = "action"
    /\ at.action <= Len(command.aliases[at.alias].actions)
    /\ IF command.aliases[at.alias].actions[at.action] = "malformed"
       THEN ApiCancel /\ Returns("PARSE_JSON") /\ UNCHANGED <<at, ran>>
       ELSE /\ at' = [at EXCEPT !.action = @ + 1]
            /\ \E result \in {"done", "failed"} :
                /\ ran' = [ran EXCEPT ![at.alias] = Append(@, result)]
                /\ \/ Appends(ActionResult(at.alias, at.action, result), "action")
                   \/ /\ ApiCancel
                      /\ \E code \in {"PARSE_JSON", "TOO_LARGE_DATA"} : Returns(code)
    /\ UNCHANGED <<command, reported>>

CloseAlias ==
    /\ phase = "action"
    /\ at.action > Len(command.aliases[at.alias].actions)
    /\ Appends(Close, "alias")
    /\ at' = [alias |-> at.alias + 1, action |-> 1]
    /\ UNCHANGED <<command, ran, reported>>

CloseResults ==
    /\ phase = "alias"
    /\ at.alias > Len(command.aliases)
    /\ Appends(Close, "run")
    /\ UNCHANGED <<command, at, ran, reported>>

\* kii_api_call_run(), which only reports errors of the transport.
StatusCode ==
    IF ret'.code = "OK" /\ kii'.status \notin Success THEN "RESP_STATUS" ELSE ret'.code

RunResultRequest ==
    /\ phase = "run"
    /\ ApiRun
    /\ reported' = sent'
    /\ Returns(StatusCode)
    /\ UNCHANGED <<command, at, ran>>

\* The task is back to receiving.
Handled ==
    /\ phase = "done"
    /\ phase' = "idle"
    /\ command' = NoCommand
    /\ at' = [alias |-> 1, action |-> 1]
    /\ ran' = <<>>
    /\ reported' = {}
    /\ told' = "OK"
    /\ UNCHANGED requestsVars

HandlerNext ==
    \/ \E c \in Commands : ReceivePush(c)
    \/ StartResultRequest
    \/ OpenResults
    \/ OpenAlias
    \/ RunAction
    \/ CloseAlias
    \/ CloseResults
    \/ RunResultRequest
    \/ Handled

\* Between commands, the task's own calls (kii_mqtt_task.c).
TaskCalls == {"install_push", "get_mqtt_endpoint"}

TioInit == RequestsInit /\ HandlerInit
TioNext ==
    \/ HandlerNext
    \/ /\ phase = "idle"
       /\ \E call \in TaskCalls : CallBegins(call) \/ CallFails(call) \/ CallSent(call)
       /\ UNCHANGED handlerVars

TioSpec == TioInit /\ [][TioNext]_tioVars

-----------------------------------------------------------------------------
(* Properties.                                                             *)

Joined(elements) ==
    FlattenSeq([i \in DOMAIN elements |->
        IF i = 1 THEN elements[i] ELSE <<"comma">> \o elements[i]])

Rendered(results) ==
    LET Alias(of) == <<"alias">> \o Joined([j \in DOMAIN of |-> <<of[j]>>]) \o Close
    IN  ResultsOpen \o Joined([i \in DOMAIN results |-> Alias(results[i])]) \o Close

\* A command that is malformed anywhere is refused before any of its actions runs. The
\* results reported are those of every action of the command, in its order, as JSON
\* whose commas stand between elements; and a command whose results the server didn't
\* take, or that ran some of its actions only, is told as an error (_check_command(),
\* _append_action_result(), _handle_command()).
ResultsAreThoseRun ==
    phase = "done" =>
        /\ ~_walk_command(command) => ran = <<>> /\ told = "PARSE_JSON"
        /\ \A request \in reported :
                /\ FlattenSeq(request.body) = Rendered(ran)
                /\ Len(ran) = Len(command.aliases)
                /\ \A i \in DOMAIN ran : Len(ran[i]) = Len(command.aliases[i].actions)
        /\ told = "OK" => reported # {} /\ kii.status \in Success

=============================================================================
