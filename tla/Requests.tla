------------------------------ MODULE Requests ------------------------------
(***************************************************************************)
(* The requests a kii_t makes (kii_object.c, kii_push.c, kii_thing.c,      *)
(* kii_ti.c, kii_server_code.c) and those an application puts together     *)
(* with kii_api_call_start() and the calls after it (kii_api_call.c).      *)
(*                                                                         *)
(* One buffer holds the path, each header, the body and then the response, *)
(* and one khc the callbacks a request reads and writes through: each call *)
(* takes what earlier ones left of them, whatever step those failed at.    *)
(* One thread makes the calls: a call begins, and then fails or is sent.   *)
(* What the session does of it is Session's, and what is sent and received *)
(* is Khc's.                                                               *)
(*                                                                         *)
(* Abstracted: a header is its name, a body its parts, a response the call *)
(* it answers, and of the buffers' contents only the secrets.              *)
(***************************************************************************)
EXTENDS Naturals, FiniteSets, Sequences, SequencesExt

CONSTANTS
    Room,           \* bound: the parts of a body that fit in the buffer
    MaxHeaders,     \* bound: headers the application adds to a call of its own
    GivesUpReading  \* the application may give up a call it set a body reader for

ASSUME RequestsAssumption ==
    /\ Room \in Nat \ {0}
    /\ MaxHeaders \in Nat
    /\ GivesUpReading \in BOOLEAN

VARIABLES
    kii,        \* of kii_t and its khc: what one call leaves to the next
    use_m_0,    \* _use_m_0_header
    making,     \* the call being made; an "api_call" is made from _start() to _run()
    asked,      \* history: what the last call made was asked to send
    sent,       \* history: the request it sent, if it got that far
    ret         \* what the last call returned

requestsVars == <<kii, use_m_0, making, asked, sent, ret>>

-----------------------------------------------------------------------------
(* Steps that every call is made of, as functions of what kii holds.       *)

\* _reset_buff()
ResetBuff(k) == [k EXCEPT !.body = <<>>, !.resp = "none"]

\* _reset_khc(): callbacks are kept.
ResetKhc(k) == [k EXCEPT !.length = "unknown", !.status = 0, !.status_of = "none"]

\* _req_headers_free_all()
FreeHeaders(k) == [k EXCEPT !.headers = <<>>]

\* _body_from_buff()
BodyFromBuff(k) == [k EXCEPT !.streamed = FALSE, !.reader = "kii"]

\* _kii_clear_buffers(): a response that refuses the request stays.
ClearBuffers(k) ==
    [k EXCEPT !.buff = {}, !.stream = {},
              !.resp = IF k.status \in 200..299 THEN "none" ELSE k.resp]

\* kii_init() and kii_set_buff()
RequestsInit ==
    /\ kii = [headers |-> <<>>, body |-> <<>>, streamed |-> FALSE,
              reader |-> "kii", writer |-> "kii", length |-> "unknown",
              status |-> 0, status_of |-> "none", resp |-> "none",
              buff |-> {}, stream |-> {}]
    /\ use_m_0 \in BOOLEAN
    /\ making = "none"
    /\ asked = [headers |-> <<>>, body |-> <<>>, reader |-> "kii", writer |-> "kii"]
    /\ sent = {}
    /\ ret = [call |-> "none", code |-> "OK"]

-----------------------------------------------------------------------------
(* The calls: the headers in order, the body, the statuses that are a      *)
(* success, whether the response is parsed, and what is secret.            *)

Success == 200..299

AppHeaders == <<"X-Kii-Appid", "X-Kii-Appkey">>
ThingHeaders == AppHeaders \o <<"Authorization">>

\* A body that is "none" or "given" is _set_req_body()'s, one "built" is written into
\* the buffer, one "streamed" is read by the application's callback.
\* kii_object_impl.c
post_object == [headers |-> ThingHeaders \o <<"Content-Type">>, body |-> "given"]
put_object == [headers |-> ThingHeaders \o <<"Content-Type", "If-Match">>, body |-> "given"]
patch_object == [headers |-> ThingHeaders \o <<"If-Match">>, body |-> "given"]
delete_object == [headers |-> ThingHeaders, body |-> "none"]
get_object == [headers |-> ThingHeaders, body |-> "none"]
upload_body == [headers |-> ThingHeaders \o <<"Content-Type">>, body |-> "streamed"]
download_body == [headers |-> ThingHeaders, body |-> "none"]

\* kii_push_impl.c
install_push == [headers |-> ThingHeaders \o <<"Content-Type">>, body |-> "built"]
get_mqtt_endpoint == [headers |-> ThingHeaders, body |-> "none"]
subscribe_bucket == [headers |-> ThingHeaders, body |-> "none"]
unsubscribe_bucket == [headers |-> ThingHeaders, body |-> "none"]
subscribe_topic == [headers |-> ThingHeaders, body |-> "none"]
unsubscribe_topic == [headers |-> ThingHeaders, body |-> "none"]
put_topic == [headers |-> ThingHeaders, body |-> "none"]
delete_topic == [headers |-> ThingHeaders, body |-> "none"]
post_push_message == [headers |-> ThingHeaders \o <<"Content-Type">>, body |-> "given"]

\* kii_thing_impl.c, kii_ti_impl.c and kii_server_code.c
thing_auth == [headers |-> AppHeaders \o <<"Content-Type">>, body |-> "built"]
thing_register == [headers |-> AppHeaders \o <<"Content-Type">>, body |-> "built"]
onboard_and_read == [headers |-> <<"Authorization", "Content-Type">>, body |-> "built"]
put_firmware_version == [headers |-> <<"Authorization", "Content-Type">>, body |-> "built"]
get_firmware_version == [headers |-> <<"Authorization">>, body |-> "unset"]
upload_state ==
    [headers |-> <<"Authorization", "Content-Type", "Content-Encoding">>, body |-> "streamed"]
execute_server_code == [headers |-> ThingHeaders \o <<"Content-Type">>, body |-> "given"]

Plain(request, accepts, parses) ==
    [request |-> request, accepts |-> accepts, parses |-> parses,
     secret |-> {}, got |-> {}, writer |-> "kii"]

\* Carries the password, and is answered with tokens; the buffers are cleared.
Login(request) ==
    [request |-> request, accepts |-> Success, parses |-> TRUE,
     secret |-> {"password"}, got |-> {"tokens"}, writer |-> "kii"]

kii_post_object == Plain(post_object, Success, TRUE)
kii_put_object == Plain(put_object, Success, FALSE)
kii_patch_object == Plain(patch_object, Success, FALSE)
kii_delete_object == Plain(delete_object, Success, FALSE)
kii_get_object == Plain(get_object, Success, FALSE)
kii_upload_object_body == Plain(upload_body, Success, FALSE)
kii_download_object_body == [Plain(download_body, Success, FALSE) EXCEPT !.writer = "app"]
kii_subscribe_bucket == Plain(subscribe_bucket, {204, 409}, FALSE)
kii_unsubscribe_bucket == Plain(unsubscribe_bucket, Success, FALSE)
kii_subscribe_topic == Plain(subscribe_topic, {204, 409}, FALSE)
kii_unsubscribe_topic == Plain(unsubscribe_topic, {204, 409}, FALSE)
kii_put_topic == Plain(put_topic, {204, 409}, FALSE)
kii_delete_topic == Plain(delete_topic, Success, FALSE)
kii_send_push_message == Plain(post_push_message, Success, FALSE)
kii_install_push == Plain(install_push, Success, TRUE)
kii_get_mqtt_endpoint == [Plain(get_mqtt_endpoint, Success, TRUE) EXCEPT !.got = {"tokens"}]
kii_auth_thing == Login(thing_auth)
kii_register_thing == Login(thing_register)
kii_ti_onboard == Login(onboard_and_read)
kii_ti_put_firmware_version == Plain(put_firmware_version, Success, FALSE)
kii_ti_get_firmware_version == Plain(get_firmware_version, Success, TRUE)
kii_ti_put_state == Plain(upload_state, Success, FALSE)
kii_execute_server_code == Plain(execute_server_code, Success, FALSE)

Calls ==
    [post_object |-> kii_post_object, put_object |-> kii_put_object,
     patch_object |-> kii_patch_object, delete_object |-> kii_delete_object,
     get_object |-> kii_get_object, upload_object_body |-> kii_upload_object_body,
     download_object_body |-> kii_download_object_body,
     subscribe_bucket |-> kii_subscribe_bucket, unsubscribe_bucket |-> kii_unsubscribe_bucket,
     subscribe_topic |-> kii_subscribe_topic, unsubscribe_topic |-> kii_unsubscribe_topic,
     put_topic |-> kii_put_topic, delete_topic |-> kii_delete_topic,
     send_push_message |-> kii_send_push_message, install_push |-> kii_install_push,
     get_mqtt_endpoint |-> kii_get_mqtt_endpoint, auth_thing |-> kii_auth_thing,
     register_thing |-> kii_register_thing, ti_onboard |-> kii_ti_onboard,
     ti_put_firmware_version |-> kii_ti_put_firmware_version,
     ti_get_firmware_version |-> kii_ti_get_firmware_version,
     ti_put_state |-> kii_ti_put_state, execute_server_code |-> kii_execute_server_code]

\* Left out when what they carry isn't given: the etag, the encoding, and the token of
\* a thing that has none. Onboarding's authorizes the application.
Optional(call) ==
    {"If-Match", "Content-Encoding"}
        \cup (IF call = "ti_onboard" THEN {} ELSE {"Authorization"})

-----------------------------------------------------------------------------
(* Putting a request together, sending it, and what it leaves.             *)

\* Mutant: the headers put together so far are left.
PreparedLeavingHeaders(k, fails, headers) ==
    IF fails = "path" THEN k ELSE [k EXCEPT !.headers = @ \o headers]

\* The request is put together up to a step that fails: its path, a header, or its
\* body. Only a header or a body frees the headers, as a path has none before it.
Prepared(k, fails, headers) == IF fails = "path" THEN k ELSE FreeHeaders(k)

\* The body, after the headers. kii_api_call_append_body() refuses one that the
\* callback left to read would be sent in place of.
WithBody(k, body, secret) ==
    IF body \in {"given", "built"} THEN [k EXCEPT !.body = <<"body">>, !.buff = secret]
    ELSE IF body = "none" THEN ResetBuff(k)
    ELSE k
BodyRefused(k, body) == body = "given" /\ k.streamed

\* _set_req_body() takes an empty body for none.
BodyKind(call) ==
    IF Calls[call].request.body = "given" /\ asked.body = <<>> THEN "none"
    ELSE Calls[call].request.body

\* _req_send(): appends the SDK's headers, and gives a body in the buffer its length.
SdkHeaders == <<"X-Kii-SDK">> \o (IF use_m_0 THEN <<"kii-m">> ELSE <<>>)

Sent(k) ==
    [headers |-> k.headers \o SdkHeaders,
     body |-> IF k.reader = "kii" THEN k.body ELSE <<k.reader>>,
     reader |-> k.reader,
     writer |-> k.writer,
     framing |-> IF k.reader = "kii" THEN "length" ELSE k.length]

\* What khc_perform() may end in: nothing received, a response that doesn't fit where
\* it is written, one cut short, or one received whole, with a body or without.
Answers ==
    [code : {"SOCK"}, status : {0}, body : {FALSE}]
        \cup [code : {"WRITE_CALLBACK", "SOCK"}, status : {200, 403}, body : {TRUE}]
        \cup [code : {"OK"}, status : {200, 204, 403, 409}, body : BOOLEAN]

\* What it leaves in kii. The body went through the stream buffer, and a response's
\* first part clears the buffer it is written to.
Answered(k, call, answer, secret, got) ==
    LET gave == IF answer.status \in Success THEN got ELSE {}
    IN  [FreeHeaders(k) EXCEPT
            !.length = IF k.reader = "kii" THEN "buffer" ELSE @,
            !.status = answer.status,
            !.status_of = IF answer.status = 0 THEN "none" ELSE call,
            !.resp = IF answer.body /\ k.writer = "kii" THEN call ELSE @,
            !.buff = IF answer.body /\ k.writer = "kii" THEN gave ELSE @,
            !.stream = IF answer.body THEN secret \cup gave ELSE secret]

\* _req_send()'s result, and the check of the status that follows it.
SendCode(k, answer) ==
    IF answer.code = "WRITE_CALLBACK" /\ k.writer = "kii" THEN "TOO_LARGE_DATA" ELSE answer.code

Outcomes(k, answer, accepts, parses) ==
    IF answer.code # "OK" THEN {SendCode(k, answer)}
    ELSE IF answer.status \notin accepts THEN {"RESP_STATUS"}
    ELSE IF parses THEN {"OK", "PARSE_JSON"}
    ELSE {"OK"}

-----------------------------------------------------------------------------
(* The calls of the kii_t.                                                 *)

\* kii_upload_object_body() and kii_download_object_body() set their callbacks first,
\* and put kii's back whatever happens. _upload_state() sets its own for sending only.
SetCallbacks(k, call) ==
    IF call = "upload_object_body" THEN [k EXCEPT !.reader = call, !.streamed = TRUE]
    ELSE IF call = "download_object_body" THEN [k EXCEPT !.writer = "app", !.streamed = TRUE]
    ELSE k
Restored(k, call) ==
    IF call = "upload_object_body" THEN BodyFromBuff(k)
    ELSE IF call = "download_object_body" THEN [k EXCEPT !.writer = "kii", !.streamed = FALSE]
    ELSE k

BeforeSend(k, call) ==
    IF call = "ti_put_state" THEN [k EXCEPT !.reader = call, !.streamed = TRUE] ELSE k
AfterSend(k, call) == IF call = "ti_put_state" THEN BodyFromBuff(k) ELSE k

\* The end of a call: buffers that held a secret are cleared.
Ended(k, call) ==
    IF Calls[call].secret \cup Calls[call].got # {}
    THEN ClearBuffers(Restored(k, call))
    ELSE Restored(k, call)

\* Mutant: khc isn't reset.
BegunWithoutReset(k, call) == SetCallbacks(ResetBuff(k), call)

\* Every call starts by resetting the buffer and khc.
Begun(k, call) == SetCallbacks(ResetBuff(ResetKhc(k)), call)

\* The headers but those left out, in their order.
Given(headers, left_out) ==
    LET kept == {i \in DOMAIN headers : headers[i] \notin left_out}
        Nth(n) == CHOOSE i \in kept : Cardinality({j \in kept : j <= i}) = n
    IN  [n \in 1..Cardinality(kept) |-> headers[Nth(n)]]

\* The bodies a call may be asked to send: one given may be empty.
Bodies(call) ==
    LET body == Calls[call].request.body
    IN  IF body = "given" THEN {<<>>, <<"body">>}
        ELSE IF body = "built" THEN {<<"body">>}
        ELSE IF body = "streamed" THEN {<<call>>} ELSE {<<>>}

\* A call begins, with what the application gives it.
CallBegins(call) ==
    /\ making = "none"
    /\ making' = call
    /\ kii' = Begun(kii, call)
    /\ \E body \in Bodies(call),
          left_out \in SUBSET (Optional(call) \cap Range(Calls[call].request.headers)) :
            asked' = [headers |-> Given(Calls[call].request.headers, left_out),
                      body |-> body,
                      reader |-> IF Calls[call].request.body = "streamed" THEN call ELSE "kii",
                      writer |-> Calls[call].writer]
    /\ sent' = {}
    /\ ret' = [call |-> call, code |-> "none"]
    /\ UNCHANGED use_m_0

\* One of its steps fails before it is sent. A password may have been written.
CallFails(call) ==
    LET body == BodyKind(call)
    IN  \E fails \in {"path", "header", "body"} :
            /\ making = call
            /\ making' = "none"
            /\ \/ fails # "body" /\ ret' = [call |-> call, code |-> "TOO_LARGE_DATA"]
               \/ fails = "header" /\ ret' = [call |-> call, code |-> "ALLOCATION"]
               \/ /\ fails = "body"
                  /\ body \in {"given", "built"}
                  /\ ret' = [call |-> call, code |->
                        IF BodyRefused(kii, body) THEN "FAIL" ELSE "TOO_LARGE_DATA"]
            /\ kii' = Ended([Prepared(kii, fails, asked.headers) EXCEPT
                        !.buff = IF fails = "body" THEN Calls[call].secret ELSE @], call)
            /\ UNCHANGED <<use_m_0, asked, sent>>

\* It is sent.
CallSent(call) ==
    LET op == Calls[call]
        ready == BeforeSend(
            WithBody([kii EXCEPT !.headers = @ \o asked.headers], BodyKind(call), op.secret), call)
    IN  \E answer \in Answers :
            /\ making = call
            /\ making' = "none"
            /\ ~BodyRefused(kii, BodyKind(call))
            /\ sent' = {Sent(ready)}
            /\ \E code \in Outcomes(ready, answer, op.accepts, op.parses) :
                    ret' = [call |-> call, code |-> code]
            /\ kii' = Ended(AfterSend(Answered(ready, call, answer, op.secret, op.got), call), call)
            /\ UNCHANGED <<use_m_0, asked>>

-----------------------------------------------------------------------------
(* A call that the application puts together.                              *)

Started(k) == BodyFromBuff(ResetKhc(FreeHeaders(ResetBuff(k))))

\* kii_api_call_start(), also of a call in place of one that it didn't run. Its method
\* or path may be too long, or a header fail.
ApiStart(content_type, authenticated) ==
    LET given == AppHeaders
            \o (IF content_type THEN <<"Content-Type">> ELSE <<>>)
            \o (IF authenticated THEN <<"Authorization">> ELSE <<>>)
    IN  /\ making \in {"none", "api_call"}
        /\ \/ /\ kii' = [Started(kii) EXCEPT !.headers = given]
              /\ making' = "api_call"
              /\ ret' = [call |-> "api_call", code |-> "OK"]
           \/ /\ kii' = Started(kii)
              /\ making' = "none"
              /\ \E code \in {"TOO_LARGE_DATA", "ALLOCATION"} :
                    ret' = [call |-> "api_call", code |-> code]
        /\ asked' = [headers |-> given, body |-> <<>>, reader |-> "kii", writer |-> "kii"]
        /\ sent' = {}
        /\ UNCHANGED use_m_0

\* A step of the call fails, and the application gives it up.
GivenUp(code) ==
    /\ kii' = FreeHeaders(kii)
    /\ making' = "none"
    /\ ret' = [call |-> "api_call", code |-> code]
    /\ UNCHANGED <<use_m_0, asked, sent>>

\* kii_api_call_append_body(). Parts have sizes of their own: any may be too large for
\* what is left of the buffer.
ApiAppendBody(part) ==
    /\ making = "api_call"
    /\ \/ kii.streamed /\ GivesUpReading /\ GivenUp("FAIL")
       \/ ~kii.streamed /\ GivenUp("TOO_LARGE_DATA")
       \/ /\ ~kii.streamed
          /\ Len(kii.body) < Room
          /\ kii' = [kii EXCEPT !.body = Append(@, part)]
          /\ asked' = [asked EXCEPT !.body = Append(@, part)]
          /\ ret' = [call |-> "api_call", code |-> "OK"]
          /\ UNCHANGED <<use_m_0, making, sent>>

\* kii_api_call_set_body_reader()
ApiSetBodyReader(is_null, length) ==
    /\ making = "api_call"
    /\ ~kii.streamed
    /\ IF is_null \/ kii.body # <<>>
       THEN GivenUp("FAIL")
       ELSE /\ kii' = [kii EXCEPT !.reader = "api_call", !.length = length, !.streamed = TRUE]
            /\ asked' = [asked EXCEPT !.body = <<"api_call">>, !.reader = "api_call"]
            /\ ret' = [call |-> "api_call", code |-> "OK"]
            /\ UNCHANGED <<use_m_0, making, sent>>

\* kii_api_call_append_header()
ApiAppendHeader ==
    /\ making = "api_call"
    /\ \/ /\ Len(kii.headers) < 4 + MaxHeaders
          /\ kii' = [kii EXCEPT !.headers = Append(@, "X-Other")]
          /\ asked' = [asked EXCEPT !.headers = Append(@, "X-Other")]
          /\ ret' = [call |-> "api_call", code |-> "OK"]
          /\ UNCHANGED <<use_m_0, making, sent>>
       \/ /\ kii.streamed => GivesUpReading
          /\ \E code \in {"TOO_LARGE_DATA", "ALLOCATION"} : GivenUp(code)

\* kii_api_call_run(): the status is the application's to check.
ApiRun ==
    /\ making = "api_call"
    /\ making' = "none"
    /\ \/ /\ kii' = BodyFromBuff(FreeHeaders(kii))
          /\ \E code \in {"TOO_LARGE_DATA", "ALLOCATION"} :
                ret' = [call |-> "api_call", code |-> code]
          /\ UNCHANGED sent
       \/ \E answer \in Answers :
            /\ sent' = {Sent(kii)}
            /\ ret' = [call |-> "api_call", code |-> SendCode(kii, answer)]
            /\ kii' = BodyFromBuff(Answered(kii, "api_call", answer, {}, {}))
    /\ UNCHANGED <<use_m_0, asked>>

\* kii_cancel_request_being_prepared()
ApiCancel ==
    /\ making = "api_call"
    /\ kii.streamed => GivesUpReading
    /\ GivenUp("OK")

RequestsNext ==
    \/ \E call \in DOMAIN Calls : CallBegins(call) \/ CallFails(call) \/ CallSent(call)
    \/ \E content_type, authenticated \in BOOLEAN : ApiStart(content_type, authenticated)
    \/ ApiAppendBody("part")
    \/ \E is_null \in BOOLEAN, length \in {"unknown", "given"} : ApiSetBodyReader(is_null, length)
    \/ ApiAppendHeader
    \/ ApiRun
    \/ ApiCancel

RequestsSpec == RequestsInit /\ [][RequestsNext]_requestsVars

-----------------------------------------------------------------------------
(* Properties.                                                             *)

\* A request carries its own headers, in order and none of another call's, and its own
\* body, read and written through its own callbacks: whatever step of whatever earlier
\* call failed, or was given up (_req_send()).
SentAsAsked ==
    \A request \in sent :
        /\ request.headers = asked.headers \o SdkHeaders
        /\ request.body = asked.body
        /\ request.reader = asked.reader
        /\ request.writer = asked.writer
        /\ request.reader = "kii" => request.framing = "length"

\* A call leaves nothing to the next but its response, and no earlier one's: what
\* kii_get_resp_status() and the buffer give is what the last call was answered, and a
\* success it returned is a status it was sent (_reset_khc(), _req_headers_free_all()).
\* Neither buffer holds a password or tokens once the call that needed them is over, at
\* whatever step it ended (_kii_clear_buffers()).
LeftReady ==
    making = "none" =>
        /\ kii.headers = <<>>
        /\ ~kii.streamed
        /\ kii.reader = "kii" /\ kii.writer = "kii"
        /\ {kii.status_of, kii.resp} \subseteq {"none", ret.call}
        /\ ret.code = "OK" /\ ret.call \in DOMAIN Calls => kii.status \in Calls[ret.call].accepts
        /\ kii.buff = {} /\ kii.stream = {}

\* A body reader is its call's alone, though the call isn't run: a later call's body
\* comes from the buffer (kii_api_call_set_body_reader(),
\* kii_cancel_request_being_prepared()).
ReaderIsItsCalls ==
    \A request \in sent : request.reader = "api_call" => asked.reader = "api_call"

=============================================================================
