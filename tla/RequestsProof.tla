---------------------------- MODULE RequestsProof ----------------------------
(***************************************************************************)
(* Proofs about the requests a kii_t makes, for any room of its buffer and *)
(* any number of headers, and about the handler of the commands that are   *)
(* pushed, for commands of any length.                                     *)
(***************************************************************************)
EXTENDS TioHandler, SequenceFacts, FiniteSetTheorems

-----------------------------------------------------------------------------
(* The calls.                                                              *)

\* The names of the calls.
CallNames ==
    {"post_object", "put_object", "patch_object", "delete_object", "get_object",
     "upload_object_body", "download_object_body", "subscribe_bucket", "unsubscribe_bucket",
     "subscribe_topic", "unsubscribe_topic", "put_topic", "delete_topic", "send_push_message",
     "install_push", "get_mqtt_endpoint", "auth_thing", "register_thing", "ti_onboard",
     "ti_put_firmware_version", "ti_get_firmware_version", "ti_put_state", "execute_server_code"}

\* What matters of a call: where its body comes from, and where its response goes.
CallIs(call, op) ==
    /\ op.request.body \in {"given", "built", "none", "unset", "streamed"}
    /\ op.request.body = "streamed" <=> call \in {"upload_object_body", "ti_put_state"}
    /\ op.writer = IF call = "download_object_body" THEN "app" ELSE "kii"

\* That is what all of them are.
LEMMA CallsAre ==
    ASSUME NEW call \in DOMAIN Calls
    PROVE  CallIs(call, Calls[call]) /\ call \notin {"none", "api_call", "kii"}
  <1>1. DOMAIN Calls = CallNames
    BY DEF Calls, CallNames
  <1>2. /\ CallIs("post_object", Calls["post_object"])
        /\ CallIs("put_object", Calls["put_object"])
        /\ CallIs("patch_object", Calls["patch_object"])
        /\ CallIs("delete_object", Calls["delete_object"])
        /\ CallIs("get_object", Calls["get_object"])
        /\ CallIs("upload_object_body", Calls["upload_object_body"])
    BY DEF CallIs, Calls, Plain, Login, kii_post_object, kii_put_object, kii_patch_object,
       kii_delete_object, kii_get_object, kii_upload_object_body, post_object, put_object,
       patch_object, delete_object, get_object, upload_body
  <1>3. /\ CallIs("download_object_body", Calls["download_object_body"])
        /\ CallIs("subscribe_bucket", Calls["subscribe_bucket"])
        /\ CallIs("unsubscribe_bucket", Calls["unsubscribe_bucket"])
        /\ CallIs("subscribe_topic", Calls["subscribe_topic"])
        /\ CallIs("unsubscribe_topic", Calls["unsubscribe_topic"])
        /\ CallIs("put_topic", Calls["put_topic"])
    BY DEF CallIs, Calls, Plain, Login, kii_download_object_body, kii_subscribe_bucket,
       kii_unsubscribe_bucket, kii_subscribe_topic, kii_unsubscribe_topic, kii_put_topic,
       download_body, subscribe_bucket, unsubscribe_bucket, subscribe_topic, unsubscribe_topic,
       put_topic
  <1>4. /\ CallIs("delete_topic", Calls["delete_topic"])
        /\ CallIs("send_push_message", Calls["send_push_message"])
        /\ CallIs("install_push", Calls["install_push"])
        /\ CallIs("get_mqtt_endpoint", Calls["get_mqtt_endpoint"])
        /\ CallIs("auth_thing", Calls["auth_thing"])
        /\ CallIs("register_thing", Calls["register_thing"])
    BY DEF CallIs, Calls, Plain, Login, kii_delete_topic, kii_send_push_message, kii_install_push,
       kii_get_mqtt_endpoint, kii_auth_thing, kii_register_thing, delete_topic, post_push_message,
       install_push, get_mqtt_endpoint, thing_auth, thing_register
  <1>5. /\ CallIs("ti_onboard", Calls["ti_onboard"])
        /\ CallIs("ti_put_firmware_version", Calls["ti_put_firmware_version"])
        /\ CallIs("ti_get_firmware_version", Calls["ti_get_firmware_version"])
        /\ CallIs("ti_put_state", Calls["ti_put_state"])
        /\ CallIs("execute_server_code", Calls["execute_server_code"])
    BY DEF CallIs, Calls, Plain, Login, kii_ti_onboard, kii_ti_put_firmware_version,
       kii_ti_get_firmware_version, kii_ti_put_state, kii_execute_server_code, onboard_and_read,
       put_firmware_version, get_firmware_version, upload_state, execute_server_code
  <1>6. QED
    BY <1>1, <1>2, <1>3, <1>4, <1>5 DEF CallNames

\* The headers there are.
HeaderNames ==
    {"X-Kii-Appid", "X-Kii-Appkey", "Authorization", "Content-Type", "If-Match", "Content-Encoding"}
HeaderLists ==
    {ThingHeaders, ThingHeaders \o <<"Content-Type">>, ThingHeaders \o <<"If-Match">>,
     ThingHeaders \o <<"Content-Type", "If-Match">>, AppHeaders \o <<"Content-Type">>,
     <<"Authorization">>, <<"Authorization", "Content-Type">>,
     <<"Authorization", "Content-Type", "Content-Encoding">>}

\* The headers of a call are a sequence of them.
LEMMA HeadersAre ==
    ASSUME NEW call \in DOMAIN Calls
    PROVE  Calls[call].request.headers \in Seq(HeaderNames)
  <1>1. DOMAIN Calls = CallNames
    BY DEF Calls, CallNames
  <1>2. AppHeaders \in Seq(HeaderNames)
    BY DEF AppHeaders, HeaderNames
  <1>3. /\ <<"Content-Type">> \in Seq(HeaderNames) /\ <<"If-Match">> \in Seq(HeaderNames)
        /\ <<"Content-Type", "If-Match">> \in Seq(HeaderNames)
        /\ <<"Authorization">> \in Seq(HeaderNames)
        /\ <<"Authorization", "Content-Type">> \in Seq(HeaderNames)
        /\ <<"Authorization", "Content-Type", "Content-Encoding">> \in Seq(HeaderNames)
    BY DEF HeaderNames
  <1>4. ThingHeaders \in Seq(HeaderNames)
    BY <1>2, <1>3 DEF ThingHeaders
  <1>5. HeaderLists \subseteq Seq(HeaderNames)
    BY <1>2, <1>3, <1>4 DEF HeaderLists
  <1>6. /\ Calls["post_object"].request.headers \in HeaderLists
        /\ Calls["put_object"].request.headers \in HeaderLists
        /\ Calls["patch_object"].request.headers \in HeaderLists
        /\ Calls["delete_object"].request.headers \in HeaderLists
        /\ Calls["get_object"].request.headers \in HeaderLists
        /\ Calls["upload_object_body"].request.headers \in HeaderLists
    BY DEF HeaderLists, Calls, Plain, Login, kii_post_object, kii_put_object, kii_patch_object,
       kii_delete_object, kii_get_object, kii_upload_object_body, post_object, put_object,
       patch_object, delete_object, get_object, upload_body
  <1>7. /\ Calls["download_object_body"].request.headers \in HeaderLists
        /\ Calls["subscribe_bucket"].request.headers \in HeaderLists
        /\ Calls["unsubscribe_bucket"].request.headers \in HeaderLists
        /\ Calls["subscribe_topic"].request.headers \in HeaderLists
        /\ Calls["unsubscribe_topic"].request.headers \in HeaderLists
        /\ Calls["put_topic"].request.headers \in HeaderLists
    BY DEF HeaderLists, Calls, Plain, Login, kii_download_object_body, kii_subscribe_bucket,
       kii_unsubscribe_bucket, kii_subscribe_topic, kii_unsubscribe_topic, kii_put_topic,
       download_body, subscribe_bucket, unsubscribe_bucket, subscribe_topic, unsubscribe_topic,
       put_topic
  <1>8. /\ Calls["delete_topic"].request.headers \in HeaderLists
        /\ Calls["send_push_message"].request.headers \in HeaderLists
        /\ Calls["install_push"].request.headers \in HeaderLists
        /\ Calls["get_mqtt_endpoint"].request.headers \in HeaderLists
        /\ Calls["auth_thing"].request.headers \in HeaderLists
        /\ Calls["register_thing"].request.headers \in HeaderLists
    BY DEF HeaderLists, Calls, Plain, Login, kii_delete_topic, kii_send_push_message,
       kii_install_push, kii_get_mqtt_endpoint, kii_auth_thing, kii_register_thing, delete_topic,
       post_push_message, install_push, get_mqtt_endpoint, thing_auth, thing_register
  <1>9. /\ Calls["ti_onboard"].request.headers \in HeaderLists
        /\ Calls["ti_put_firmware_version"].request.headers \in HeaderLists
        /\ Calls["ti_get_firmware_version"].request.headers \in HeaderLists
        /\ Calls["ti_put_state"].request.headers \in HeaderLists
        /\ Calls["execute_server_code"].request.headers \in HeaderLists
    BY DEF HeaderLists, Calls, Plain, Login, kii_ti_onboard, kii_ti_put_firmware_version,
       kii_ti_get_firmware_version, kii_ti_put_state, kii_execute_server_code, onboard_and_read,
       put_firmware_version, get_firmware_version, upload_state, execute_server_code
  <1>10. QED
    BY <1>1, <1>5, <1>6, <1>7, <1>8, <1>9 DEF CallNames

-----------------------------------------------------------------------------
(* What a call finds and leaves.                                          *)

\* What kii holds.
KiiFields ==
    {"headers", "body", "streamed", "reader", "writer", "length", "status", "status_of",
     "resp", "buff", "stream"}

\* Between calls.
LeftInv ==
    making = "none" =>
        /\ kii.headers = <<>>
        /\ kii.streamed = FALSE
        /\ kii.reader = "kii" /\ kii.writer = "kii"
        /\ kii.status_of \in {"none", ret.call} /\ kii.resp \in {"none", ret.call}
        /\ ret.code = "OK" /\ ret.call \in DOMAIN Calls => kii.status \in Calls[ret.call].accepts
        /\ kii.buff = {} /\ kii.stream = {}

\* What is so of every request until it is sent.
UnsentInv ==
    making # "none" =>
        /\ ret.call = making
        /\ sent = {}
        /\ kii.status = 0 /\ kii.status_of = "none" /\ kii.resp = "none"
        /\ kii.buff = {} /\ kii.stream = {}
        /\ kii.writer = asked.writer

\* A call of kii's has begun: nothing is put together, and the callbacks are its own.
BegunInv ==
    making \in DOMAIN Calls =>
        /\ kii.headers = <<>> /\ kii.body = <<>>
        /\ <<>> \o asked.headers = asked.headers
        /\ kii.reader = IF making = "upload_object_body" THEN making ELSE "kii"
        /\ kii.streamed = FALSE \/ making \in {"upload_object_body", "download_object_body"}
        /\ asked.body \in Bodies(making)
        /\ asked.reader = IF Calls[making].request.body = "streamed" THEN making ELSE "kii"
        /\ asked.writer = Calls[making].writer

\* One of the application's is put together as it is asked for.
ApiInv ==
    making = "api_call" =>
        /\ kii.headers = asked.headers
        /\ kii.writer = "kii"
        /\ \/ /\ kii.streamed = TRUE /\ kii.reader = "api_call"
              /\ asked.body = <<"api_call">> /\ asked.reader = "api_call"
           \/ /\ kii.streamed = FALSE /\ kii.reader = "kii"
              /\ asked.body = kii.body /\ asked.reader = "kii"

RequestsInv ==
    /\ DOMAIN kii = KiiFields /\ DOMAIN asked = {"headers", "body", "reader", "writer"}
    /\ kii = [f \in KiiFields |-> kii[f]]
    /\ making \in DOMAIN Calls \cup {"none", "api_call"}
    /\ SentAsAsked /\ LeftInv /\ UnsentInv /\ BegunInv /\ ApiInv

\* The headers of a call are a sequence.
LEMMA GivenIsSeq ==
    ASSUME NEW call \in DOMAIN Calls, NEW left_out
    PROVE  <<>> \o Given(Calls[call].request.headers, left_out)
             = Given(Calls[call].request.headers, left_out)
  <1> DEFINE headers == Calls[call].request.headers
             kept == {i \in DOMAIN headers : headers[i] \notin left_out}
             Nth(n) == CHOOSE i \in kept : Cardinality({j \in kept : j <= i}) = n
             m == Cardinality(kept)
  <1>1. headers \in Seq(HeaderNames)
    BY HeadersAre
  <1>2. m \in Nat
    <2>1. DOMAIN headers = 1 .. Len(headers) /\ Len(headers) \in Nat
      BY <1>1
    <2>2. IsFiniteSet(1 .. Len(headers)) /\ kept \subseteq 1 .. Len(headers)
      BY <2>1, FS_Interval
    <2> HIDE DEF kept
    <2>3. QED
      BY <2>2, FS_Subset, FS_CardinalityType
  <1>3. Given(headers, left_out) = [n \in 1 .. m |-> headers[Nth(n)]]
    BY DEF Given
  <1> HIDE DEF m, Nth
  <1>4. <<>> \o [n \in 1 .. m |-> headers[Nth(n)]] = [n \in 1 .. m |-> headers[Nth(n)]]
    BY <1>2
  <1>5. QED
    BY <1>3, <1>4

\* A call begins: what earlier ones left is reset.
LEMMA BeginsKeeps ==
    ASSUME RequestsInv, NEW call \in DOMAIN Calls, CallBegins(call) PROVE RequestsInv'
  <1>1. /\ making = "none" /\ making' = call /\ kii' = Begun(kii, call)
        /\ sent' = {} /\ ret' = [call |-> call, code |-> "none"] /\ UNCHANGED use_m_0
    BY DEF CallBegins
  <1>2. PICK body \in Bodies(call),
             left_out \in SUBSET (Optional(call) \cap Range(Calls[call].request.headers)) :
          asked' = [headers |-> Given(Calls[call].request.headers, left_out),
                    body |-> body,
                    reader |-> IF Calls[call].request.body = "streamed" THEN call ELSE "kii",
                    writer |-> Calls[call].writer]
    BY DEF CallBegins
  <1>3. CallIs(call, Calls[call]) /\ call \notin {"none", "api_call", "kii"}
    BY CallsAre
  <1>4. /\ DOMAIN kii = KiiFields /\ kii.headers = <<>> /\ kii.streamed = FALSE
        /\ kii.reader = "kii" /\ kii.writer = "kii" /\ kii.buff = {} /\ kii.stream = {}
    BY <1>1 DEF RequestsInv, LeftInv
  <1>5. /\ DOMAIN kii' = KiiFields /\ kii' = [f \in KiiFields |-> kii'[f]]
        /\ kii'.headers = <<>> /\ kii'.body = <<>>
        /\ kii'.reader = IF call = "upload_object_body" THEN call ELSE "kii"
        /\ kii'.writer = IF call = "download_object_body" THEN "app" ELSE "kii"
        /\ kii'.status = 0 /\ kii'.status_of = "none" /\ kii'.resp = "none"
        /\ kii'.buff = {} /\ kii'.stream = {}
    BY <1>1, <1>4 DEF Begun, SetCallbacks, ResetBuff, ResetKhc, KiiFields
  <1>6. kii'.streamed = FALSE \/ call \in {"upload_object_body", "download_object_body"}
    BY <1>1, <1>4 DEF Begun, SetCallbacks, ResetBuff, ResetKhc, KiiFields
  <1>7. /\ <<>> \o asked'.headers = asked'.headers
        /\ DOMAIN asked' = {"headers", "body", "reader", "writer"}
    BY <1>2, GivenIsSeq
  <1>8. making' \in DOMAIN Calls /\ making' # "none" /\ making' # "api_call" /\ ret'.call = making'
    BY <1>1, <1>3
  <1>9. UnsentInv'
    BY <1>1, <1>2, <1>3, <1>5, <1>8 DEF UnsentInv, CallIs
  <1>10. BegunInv'
    BY <1>1, <1>2, <1>5, <1>6, <1>7 DEF BegunInv
  <1>11. SentAsAsked'
    BY <1>1 DEF SentAsAsked
  <1>12. QED
    BY <1>5, <1>7, <1>8, <1>9, <1>10, <1>11 DEF RequestsInv, LeftInv, ApiInv

\* What the end of a call leaves of k.
LeftOf(k, e) ==
    /\ DOMAIN e = KiiFields /\ e = [f \in KiiFields |-> e[f]]
    /\ e.headers = k.headers /\ e.body = k.body /\ e.streamed = FALSE
    /\ e.reader = "kii" /\ e.writer = "kii"
    /\ e.status_of = k.status_of /\ e.status = k.status
    /\ e.resp \in {"none", k.resp}
    /\ e.buff = {} /\ e.stream = {}

\* What a call's own steps may leave of kii to its end: callbacks and secrets of its own.
Endable(k, call) ==
    /\ DOMAIN k = KiiFields /\ k = [f \in KiiFields |-> k[f]]
    /\ k.reader = "kii" \/ call = "upload_object_body"
    /\ k.writer = "kii" \/ call = "download_object_body"
    /\ k.streamed = FALSE \/ call \in {"upload_object_body", "download_object_body"}
    /\ k.buff \subseteq Calls[call].secret \cup Calls[call].got
    /\ k.stream \subseteq Calls[call].secret \cup Calls[call].got

\* A call ends with its callbacks put back and the secrets cleared.
LEMMA EndsLeft ==
    ASSUME NEW call \in DOMAIN Calls, NEW k, Endable(k, call)
    PROVE  LeftOf(k, Ended(k, call))
  <1> USE DEF Endable
  <1> DEFINE r == Restored(k, call)
  <1>1. /\ DOMAIN r = KiiFields /\ r = [f \in KiiFields |-> r[f]]
        /\ r.headers = k.headers /\ r.body = k.body /\ r.streamed = FALSE
        /\ r.reader = "kii" /\ r.writer = "kii" /\ r.status_of = k.status_of
        /\ r.status = k.status /\ r.resp = k.resp /\ r.buff = k.buff /\ r.stream = k.stream
    BY DEF Restored, BodyFromBuff, KiiFields
  <1> HIDE DEF r
  <1>2. CASE Calls[call].secret \cup Calls[call].got # {}
    <2>1. Ended(k, call) = ClearBuffers(r)
      BY <1>2 DEF Ended, r
    <2>2. QED
      BY <1>1, <2>1, ZenonT(30) DEF ClearBuffers, KiiFields, LeftOf
  <1>3. CASE Calls[call].secret \cup Calls[call].got = {}
    <2>1. Ended(k, call) = r /\ k.buff = {} /\ k.stream = {}
      BY <1>3 DEF Ended, r
    <2>2. QED
      BY <1>1, <2>1 DEF LeftOf
  <1>4. QED
    BY <1>2, <1>3

\* A call that ended: the next finds nothing of it but its response.
LEMMA EndKeeps ==
    ASSUME RequestsInv, NEW call \in DOMAIN Calls, NEW k, kii' = Ended(k, call),
           Endable(k, call), k.headers = <<>>, k.status_of \in {"none", call},
           k.resp \in {"none", call},
           making' = "none", asked' = asked, ret'.call = call,
           ret'.code = "OK" => k.status \in Calls[call].accepts, SentAsAsked'
    PROVE  RequestsInv'
  <1>1. LeftOf(k, kii')
    BY EndsLeft
  <1>2. LeftInv'
    BY <1>1 DEF LeftInv, LeftOf
  <1>3. "none" \notin DOMAIN Calls
    BY CallsAre
  <1>4. QED
    BY <1>1, <1>2, <1>3 DEF RequestsInv, UnsentInv, BegunInv, ApiInv, LeftOf

\* A call fails before it is sent.
LEMMA FailsKeeps ==
    ASSUME RequestsInv, NEW call \in DOMAIN Calls, CallFails(call) PROVE RequestsInv'
  <1>1. PICK fails \in {"path", "header", "body"} :
          /\ making = call /\ making' = "none"
          /\ \/ fails # "body" /\ ret' = [call |-> call, code |-> "TOO_LARGE_DATA"]
             \/ fails = "header" /\ ret' = [call |-> call, code |-> "ALLOCATION"]
             \/ ret' = [call |-> call, code |->
                    IF BodyRefused(kii, BodyKind(call)) THEN "FAIL" ELSE "TOO_LARGE_DATA"]
          /\ kii' = Ended([Prepared(kii, fails, asked.headers) EXCEPT
                      !.buff = IF fails = "body" THEN Calls[call].secret ELSE @], call)
          /\ UNCHANGED <<use_m_0, asked, sent>>
    BY DEF CallFails
  <1> DEFINE k == [Prepared(kii, fails, asked.headers) EXCEPT
                      !.buff = IF fails = "body" THEN Calls[call].secret ELSE @]
  <1>2. CallIs(call, Calls[call]) /\ call \notin {"none", "api_call", "kii"}
    BY CallsAre
  <1>3. /\ DOMAIN kii = KiiFields /\ kii = [f \in KiiFields |-> kii[f]] /\ kii.headers = <<>>
        /\ kii.reader = IF call = "upload_object_body" THEN call ELSE "kii"
        /\ kii.writer = Calls[call].writer
        /\ kii.status = 0 /\ kii.status_of = "none" /\ kii.resp = "none"
        /\ kii.buff = {} /\ kii.stream = {} /\ sent = {}
    BY <1>1, <1>2 DEF RequestsInv, UnsentInv, BegunInv
  <1>4. kii.streamed = FALSE \/ call \in {"upload_object_body", "download_object_body"}
    BY <1>1, <1>2 DEF RequestsInv, BegunInv
  <1>5. /\ DOMAIN k = KiiFields /\ k = [f \in KiiFields |-> k[f]] /\ k.headers = <<>>
        /\ k.reader = kii.reader /\ k.writer = kii.writer /\ k.streamed = kii.streamed
        /\ k.status_of = "none" /\ k.resp = "none" /\ k.stream = {}
        /\ k.buff \subseteq Calls[call].secret
    BY <1>3 DEF Prepared, FreeHeaders, KiiFields
  <1>6. ret'.call = call /\ ret'.code # "OK" /\ SentAsAsked'
    BY <1>1, <1>3 DEF SentAsAsked
  <1>7. kii' = Ended(k, call)
    BY <1>1
  <1> HIDE DEF k
  <1>8. Endable(k, call)
    BY <1>2, <1>3, <1>4, <1>5 DEF CallIs, Endable
  <1>9. QED
    BY <1>1, <1>5, <1>6, <1>7, <1>8, EndKeeps

\* A call is sent, and answered.
LEMMA SentKeeps ==
    ASSUME RequestsInv, NEW call \in DOMAIN Calls, CallSent(call) PROVE RequestsInv'
  <1> DEFINE op == Calls[call]
             put == WithBody([kii EXCEPT !.headers = @ \o asked.headers], BodyKind(call),
                             op.secret)
             ready == BeforeSend(put, call)
  <1>1. PICK answer \in Answers :
          /\ making = call /\ making' = "none"
          /\ sent' = {Sent(ready)}
          /\ \E code \in Outcomes(ready, answer, op.accepts, op.parses) :
                ret' = [call |-> call, code |-> code]
          /\ kii' = Ended(AfterSend(Answered(ready, call, answer, op.secret, op.got), call), call)
          /\ UNCHANGED <<use_m_0, asked>>
    BY DEF CallSent
  <1> DEFINE ans == Answered(ready, call, answer, op.secret, op.got)
             k == AfterSend(ans, call)
  <1>2. CallIs(call, op) /\ call \notin {"none", "api_call", "kii"}
    BY CallsAre
  <1>3. /\ DOMAIN kii = KiiFields /\ kii = [f \in KiiFields |-> kii[f]]
        /\ kii.headers = <<>> /\ kii.body = <<>> /\ <<>> \o asked.headers = asked.headers
        /\ kii.reader = IF call = "upload_object_body" THEN call ELSE "kii"
        /\ kii.streamed = FALSE \/ call \in {"upload_object_body", "download_object_body"}
        /\ kii.writer = op.writer
        /\ kii.status_of = "none" /\ kii.resp = "none"
        /\ kii.buff = {} /\ kii.stream = {}
        /\ asked.body \in Bodies(call)
        /\ asked.reader = IF op.request.body = "streamed" THEN call ELSE "kii"
        /\ asked.writer = op.writer
    BY <1>1, <1>2 DEF RequestsInv, UnsentInv, BegunInv
  <1>4a. /\ op.request.body = "given" => asked.body \in {<<>>, <<"body">>}
         /\ op.request.body = "built" => asked.body = <<"body">>
         /\ op.request.body = "streamed" => asked.body = <<call>>
         /\ op.request.body \in {"none", "unset"} => asked.body = <<>>
    BY <1>3 DEF Bodies
  <1>4b. /\ op.request.body \in {"given", "built", "none", "unset", "streamed"}
         /\ BodyKind(call) = IF op.request.body = "given" /\ asked.body = <<>> THEN "none"
                             ELSE op.request.body
    BY <1>2 DEF BodyKind, CallIs
  <1> HIDE DEF op
  <1>4. /\ DOMAIN put = KiiFields /\ put = [f \in KiiFields |-> put[f]]
        /\ put.headers = asked.headers /\ put.reader = kii.reader /\ put.writer = kii.writer
        /\ put.body = IF op.request.body = "streamed" THEN <<>> ELSE asked.body
        /\ put.streamed = kii.streamed
        /\ put.status_of = "none" /\ put.resp = "none"
        /\ put.buff \subseteq op.secret /\ put.stream = {}
    BY <1>3, <1>4a, <1>4b DEF WithBody, ResetBuff, KiiFields
  <1> HIDE DEF put
  <1>5. /\ DOMAIN ready = KiiFields /\ ready = [f \in KiiFields |-> ready[f]]
        /\ ready.headers = asked.headers /\ ready.writer = put.writer
        /\ ready.reader = IF call = "ti_put_state" THEN call ELSE put.reader
        /\ ready.body = put.body
        /\ ready.status_of = "none" /\ ready.resp = "none"
        /\ ready.buff \subseteq op.secret /\ ready.stream = {}
    BY <1>4 DEF BeforeSend, KiiFields
  <1>6. call # "ti_put_state" => ready.streamed = kii.streamed
    BY <1>4 DEF BeforeSend, KiiFields
  <1> HIDE DEF ready
  <1>7. ready.reader = asked.reader /\ ready.writer = asked.writer
    BY <1>2, <1>3, <1>4, <1>5 DEF CallIs
  <1>8. (IF ready.reader = "kii" THEN ready.body ELSE <<ready.reader>>) = asked.body
    BY <1>2, <1>3, <1>4, <1>4a, <1>5, <1>7 DEF CallIs
  <1>9. SentAsAsked'
    <2> DEFINE s == Sent(ready)
    <2>1. /\ s.headers = asked.headers \o SdkHeaders /\ s.body = asked.body
          /\ s.reader = asked.reader /\ s.writer = asked.writer
          /\ s.reader = "kii" => s.framing = "length"
      BY <1>5, <1>7, <1>8 DEF Sent
    <2>2. SdkHeaders' = SdkHeaders
      BY <1>1 DEF SdkHeaders
    <2> HIDE DEF s
    <2>3. sent' = {s} /\ asked' = asked
      BY <1>1 DEF s
    <2>4. QED
      BY <2>1, <2>2, <2>3 DEF SentAsAsked
  <1>10. /\ DOMAIN ans = KiiFields /\ ans = [f \in KiiFields |-> ans[f]]
         /\ ans.headers = <<>> /\ ans.reader = ready.reader /\ ans.writer = ready.writer
         /\ ans.status = answer.status
         /\ ans.status_of \in {"none", call} /\ ans.resp \in {"none", call}
    BY <1>5, ZenonT(30) DEF Answered, FreeHeaders, KiiFields
  <1>11. /\ ans.buff \subseteq op.secret \cup op.got
         /\ ans.stream \subseteq op.secret \cup op.got
    BY <1>5 DEF Answered, FreeHeaders, KiiFields
  <1>12. ans.streamed = ready.streamed
    BY <1>5 DEF Answered, FreeHeaders, KiiFields
  <1> HIDE DEF ans
  <1>13. /\ DOMAIN k = KiiFields /\ k = [f \in KiiFields |-> k[f]]
         /\ k.headers = <<>> /\ k.writer = ans.writer
         /\ k.reader = IF call = "ti_put_state" THEN "kii" ELSE ans.reader
         /\ k.status = ans.status /\ k.status_of = ans.status_of /\ k.resp = ans.resp
         /\ k.buff = ans.buff /\ k.stream = ans.stream
    BY <1>10 DEF AfterSend, BodyFromBuff, KiiFields
  <1>14. /\ k.reader = "kii" \/ call = "upload_object_body"
         /\ k.writer = "kii" \/ call = "download_object_body"
    BY <1>2, <1>3, <1>4, <1>5, <1>10, <1>13 DEF CallIs
  <1>15. k.streamed = FALSE \/ call \in {"upload_object_body", "download_object_body"}
    <2>1. CASE call = "ti_put_state"
      BY <1>10, <2>1 DEF AfterSend, BodyFromBuff, KiiFields
    <2>2. CASE call # "ti_put_state"
      BY <1>3, <1>6, <1>12, <2>2 DEF AfterSend
    <2>3. QED
      BY <2>1, <2>2
  <1>16. ret'.call = call /\ (ret'.code = "OK" => answer.status \in op.accepts)
    BY <1>1 DEF Outcomes, SendCode, Answers
  <1>17. kii' = Ended(k, call)
    BY <1>1 DEF ans
  <1> HIDE DEF k
  <1>18. /\ k.buff \subseteq Calls[call].secret \cup Calls[call].got
         /\ k.stream \subseteq Calls[call].secret \cup Calls[call].got
         /\ ret'.code = "OK" => k.status \in Calls[call].accepts
    BY <1>10, <1>11, <1>13, <1>16 DEF op
  <1>19. /\ k.status_of \in {"none", call} /\ k.resp \in {"none", call}
         /\ making' = "none" /\ asked' = asked /\ ret'.call = call
    BY <1>1, <1>10, <1>13, <1>16
  <1>20. Endable(k, call)
    BY <1>13, <1>14, <1>15, <1>18 DEF Endable
  <1>21. QED
    BY <1>9, <1>13, <1>17, <1>18, <1>19, <1>20, EndKeeps

\* What the steps of a call that the application puts together do to it.
LEMMA ApiKeeps ==
    ASSUME RequestsInv, GivesUpReading = FALSE,
           \/ \E content_type, authenticated \in BOOLEAN : ApiStart(content_type, authenticated)
           \/ \E part : ApiAppendBody(part)
           \/ \E is_null \in BOOLEAN, length \in {"unknown", "given"} :
                ApiSetBodyReader(is_null, length)
           \/ ApiAppendHeader \/ ApiRun \/ ApiCancel
    PROVE  RequestsInv'
  <1>0. "api_call" \notin DOMAIN Calls /\ "none" \notin DOMAIN Calls
    BY CallsAre
  <1>1. ASSUME NEW content_type \in BOOLEAN, NEW authenticated \in BOOLEAN,
               ApiStart(content_type, authenticated)
        PROVE  RequestsInv'
    <2> DEFINE k == Started(kii)
    <2>1. PICK given :
            /\ \/ /\ kii' = [k EXCEPT !.headers = given] /\ making' = "api_call"
                  /\ ret' = [call |-> "api_call", code |-> "OK"]
               \/ /\ kii' = k /\ making' = "none"
                  /\ \E code \in {"TOO_LARGE_DATA", "ALLOCATION"} :
                        ret' = [call |-> "api_call", code |-> code]
            /\ asked' = [headers |-> given, body |-> <<>>, reader |-> "kii", writer |-> "kii"]
            /\ sent' = {}
      BY <1>1 DEF ApiStart
    <2>2. making \in {"none", "api_call"}
      BY <1>1 DEF ApiStart
    <2>3. kii.writer = "kii" /\ kii.buff = {} /\ kii.stream = {} /\ DOMAIN kii = KiiFields
      BY <2>2 DEF RequestsInv, LeftInv, UnsentInv, ApiInv
    <2>4. /\ DOMAIN k = KiiFields /\ k = [f \in KiiFields |-> k[f]]
          /\ k.headers = <<>> /\ k.body = <<>> /\ k.reader = "kii" /\ k.writer = "kii"
          /\ k.status = 0 /\ k.status_of = "none" /\ k.resp = "none"
          /\ k.buff = {} /\ k.stream = {}
      BY <2>3 DEF Started, BodyFromBuff, ResetKhc, FreeHeaders, ResetBuff, KiiFields
    <2>5. k.streamed = FALSE
      BY <2>3 DEF Started, BodyFromBuff, ResetKhc, FreeHeaders, ResetBuff, KiiFields
    <2> HIDE DEF k
    <2>6. CASE making' = "none"
      <3>1. kii' = k /\ ret'.call = "api_call" /\ ret'.code # "OK"
        BY <2>1, <2>6
      <3>2. QED
        BY <1>0, <2>1, <2>4, <2>5, <2>6, <3>1
           DEF RequestsInv, LeftInv, UnsentInv, BegunInv, ApiInv, SentAsAsked
    <2>7. CASE making' = "api_call"
      <3>1. kii' = [k EXCEPT !.headers = given] /\ ret'.call = "api_call"
        BY <2>1, <2>7
      <3>2. /\ DOMAIN kii' = KiiFields /\ kii' = [f \in KiiFields |-> kii'[f]]
            /\ kii'.headers = given /\ kii'.body = <<>> /\ kii'.reader = "kii"
            /\ kii'.writer = "kii"
            /\ kii'.status = 0 /\ kii'.status_of = "none" /\ kii'.resp = "none"
            /\ kii'.buff = {} /\ kii'.stream = {}
        BY <2>4, <3>1 DEF KiiFields
      <3>3. kii'.streamed = FALSE
        BY <2>4, <2>5, <3>1 DEF KiiFields
      <3>4. QED
        BY <1>0, <2>1, <2>7, <3>1, <3>2, <3>3
           DEF RequestsInv, LeftInv, UnsentInv, BegunInv, ApiInv, SentAsAsked
    <2>8. QED
      BY <2>1, <2>6, <2>7
  <1>2. ASSUME NEW code, GivenUp(code), making = "api_call", kii.streamed = FALSE
        PROVE  RequestsInv'
    <2>1. /\ kii' = FreeHeaders(kii) /\ making' = "none"
          /\ ret' = [call |-> "api_call", code |-> code] /\ UNCHANGED <<use_m_0, asked, sent>>
      BY <1>2 DEF GivenUp
    <2>2. /\ DOMAIN kii' = KiiFields /\ kii' = [f \in KiiFields |-> kii'[f]]
          /\ kii'.headers = <<>> /\ kii'.reader = "kii" /\ kii'.writer = "kii"
          /\ kii'.status_of = "none" /\ kii'.resp = "none" /\ kii'.buff = {} /\ kii'.stream = {}
      BY <1>2, <2>1 DEF RequestsInv, UnsentInv, ApiInv, FreeHeaders, KiiFields
    <2>3. kii'.streamed = FALSE
      BY <1>2, <2>1 DEF RequestsInv, FreeHeaders, KiiFields
    <2>4. sent' = {}
      BY <1>2, <2>1 DEF RequestsInv, UnsentInv
    <2>5. QED
      BY <1>0, <2>1, <2>2, <2>3, <2>4
         DEF RequestsInv, LeftInv, UnsentInv, BegunInv, ApiInv, SentAsAsked
  <1>3. ASSUME NEW part, ApiAppendBody(part) PROVE RequestsInv'
    <2>1. making = "api_call"
      BY <1>3 DEF ApiAppendBody
    <2>2. CASE kii.streamed = FALSE /\ GivenUp("TOO_LARGE_DATA")
      BY <1>2, <2>1, <2>2
    <2>3. CASE /\ kii.streamed = FALSE
               /\ kii' = [kii EXCEPT !.body = Append(@, part)]
               /\ asked' = [asked EXCEPT !.body = Append(@, part)]
               /\ ret' = [call |-> "api_call", code |-> "OK"]
               /\ UNCHANGED <<use_m_0, making, sent>>
      <3>1. /\ DOMAIN kii' = KiiFields /\ kii' = [f \in KiiFields |-> kii'[f]]
            /\ kii'.body = Append(kii.body, part)
            /\ \A f \in KiiFields \ {"body"} : kii'[f] = kii[f]
        BY <2>3 DEF RequestsInv, KiiFields
      <3>2. /\ asked'.body = Append(asked.body, part) /\ asked'.headers = asked.headers
            /\ asked'.reader = asked.reader /\ asked'.writer = asked.writer
            /\ DOMAIN asked' = DOMAIN asked
        BY <2>3 DEF RequestsInv
      <3>3. /\ kii.reader = "kii" /\ asked.body = kii.body /\ asked.reader = "kii"
            /\ kii.headers = asked.headers /\ kii.writer = "kii"
        BY <2>1, <2>3 DEF RequestsInv, ApiInv
      <3>4. /\ kii.status = 0 /\ kii.status_of = "none" /\ kii.resp = "none" /\ kii.buff = {}
            /\ kii.stream = {} /\ sent = {} /\ kii.writer = asked.writer
        BY <2>1 DEF RequestsInv, UnsentInv
      <3>5. /\ kii'.headers = kii.headers /\ kii'.streamed = kii.streamed
            /\ kii'.reader = kii.reader /\ kii'.writer = kii.writer /\ kii'.status = kii.status
            /\ kii'.status_of = kii.status_of /\ kii'.resp = kii.resp /\ kii'.buff = kii.buff
            /\ kii'.stream = kii.stream
        BY <3>1 DEF KiiFields
      <3>6. QED
        BY <1>0, <2>1, <2>3, <3>1, <3>2, <3>3, <3>4, <3>5, ZenonT(30)
           DEF RequestsInv, LeftInv, UnsentInv, BegunInv, ApiInv, SentAsAsked
    <2>4. QED
      BY <1>3, <2>1, <2>2, <2>3 DEF ApiAppendBody, RequestsInv, ApiInv
  <1>4. ASSUME NEW is_null \in BOOLEAN, NEW length \in {"unknown", "given"},
               ApiSetBodyReader(is_null, length)
        PROVE  RequestsInv'
    <2>1. making = "api_call" /\ kii.streamed = FALSE
      BY <1>4 DEF ApiSetBodyReader, RequestsInv, ApiInv
    <2>2. CASE GivenUp("FAIL")
      BY <1>2, <2>1, <2>2
    <2>3. CASE /\ kii' = [kii EXCEPT !.reader = "api_call", !.length = length, !.streamed = TRUE]
               /\ asked' = [asked EXCEPT !.body = <<"api_call">>, !.reader = "api_call"]
               /\ ret' = [call |-> "api_call", code |-> "OK"]
               /\ UNCHANGED <<use_m_0, making, sent>>
      <3>1. /\ DOMAIN kii' = KiiFields /\ kii' = [f \in KiiFields |-> kii'[f]]
            /\ kii'.reader = "api_call" /\ kii'.headers = kii.headers
            /\ kii'.writer = kii.writer /\ kii'.status = kii.status
            /\ kii'.status_of = kii.status_of /\ kii'.resp = kii.resp /\ kii'.buff = kii.buff
            /\ kii'.stream = kii.stream
        BY <2>3 DEF RequestsInv, KiiFields
      <3>2. kii'.streamed = TRUE
        BY <2>3 DEF RequestsInv, KiiFields
      <3>3. /\ asked'.body = <<"api_call">> /\ asked'.headers = asked.headers
            /\ asked'.reader = "api_call" /\ asked'.writer = asked.writer
            /\ DOMAIN asked' = DOMAIN asked
        BY <2>3 DEF RequestsInv
      <3>4. kii.headers = asked.headers /\ kii.writer = "kii"
        BY <2>1 DEF RequestsInv, ApiInv
      <3>5. /\ kii.status = 0 /\ kii.status_of = "none" /\ kii.resp = "none" /\ kii.buff = {}
            /\ kii.stream = {} /\ sent = {} /\ kii.writer = asked.writer
        BY <2>1 DEF RequestsInv, UnsentInv
      <3>6. ApiInv'
        BY <3>1, <3>2, <3>3, <3>4 DEF ApiInv
      <3>7. making' = "api_call" /\ ret'.call = "api_call" /\ sent' = {}
        BY <2>1, <2>3, <3>5
      <3>8. UnsentInv' /\ SentAsAsked'
        BY <3>1, <3>3, <3>5, <3>7 DEF UnsentInv, SentAsAsked
      <3>9. QED
        BY <1>0, <3>1, <3>3, <3>6, <3>7, <3>8 DEF RequestsInv, LeftInv, BegunInv
    <2>4. QED
      BY <1>4, <2>2, <2>3 DEF ApiSetBodyReader
  <1>5. CASE ApiAppendHeader
    <2>1. making = "api_call"
      BY <1>5 DEF ApiAppendHeader
    <2>2. CASE /\ kii' = [kii EXCEPT !.headers = Append(@, "X-Other")]
               /\ asked' = [asked EXCEPT !.headers = Append(@, "X-Other")]
               /\ ret' = [call |-> "api_call", code |-> "OK"]
               /\ UNCHANGED <<use_m_0, making, sent>>
      <3>1. /\ DOMAIN kii' = KiiFields /\ kii' = [f \in KiiFields |-> kii'[f]]
            /\ kii'.headers = Append(kii.headers, "X-Other") /\ kii'.body = kii.body
            /\ kii'.reader = kii.reader
            /\ kii'.writer = kii.writer /\ kii'.status = kii.status
            /\ kii'.status_of = kii.status_of /\ kii'.resp = kii.resp /\ kii'.buff = kii.buff
            /\ kii'.stream = kii.stream
        BY <2>2 DEF RequestsInv, KiiFields
      <3>2. kii'.streamed = kii.streamed
        BY <2>2 DEF RequestsInv, KiiFields
      <3>3. /\ asked'.headers = Append(asked.headers, "X-Other") /\ asked'.body = asked.body
            /\ asked'.reader = asked.reader /\ asked'.writer = asked.writer
            /\ DOMAIN asked' = DOMAIN asked
        BY <2>2 DEF RequestsInv
      <3>4. /\ kii.headers = asked.headers /\ kii.writer = "kii"
            /\ \/ /\ kii.streamed = TRUE /\ kii.reader = "api_call"
                  /\ asked.body = <<"api_call">> /\ asked.reader = "api_call"
               \/ /\ kii.streamed = FALSE /\ kii.reader = "kii"
                  /\ asked.body = kii.body /\ asked.reader = "kii"
        BY <2>1 DEF RequestsInv, ApiInv
      <3>5. /\ kii.status = 0 /\ kii.status_of = "none" /\ kii.resp = "none" /\ kii.buff = {}
            /\ kii.stream = {} /\ sent = {} /\ kii.writer = asked.writer
        BY <2>1 DEF RequestsInv, UnsentInv
      <3>6. QED
        BY <1>0, <2>1, <2>2, <3>1, <3>2, <3>3, <3>4, <3>5, ZenonT(30)
           DEF RequestsInv, LeftInv, UnsentInv, BegunInv, ApiInv, SentAsAsked
    <2>3. CASE kii.streamed = FALSE /\ \E code \in {"TOO_LARGE_DATA", "ALLOCATION"} : GivenUp(code)
      BY <1>2, <2>1, <2>3
    <2>4. QED
      BY <1>5, <2>1, <2>2, <2>3 DEF ApiAppendHeader, RequestsInv, ApiInv
  <1>6. CASE ApiCancel
    <2>1. making = "api_call" /\ kii.streamed = FALSE /\ GivenUp("OK")
      BY <1>6 DEF ApiCancel, RequestsInv, ApiInv
    <2>2. QED
      BY <1>2, <2>1
  <1>7. CASE ApiRun
    <2>1. making = "api_call" /\ making' = "none" /\ UNCHANGED <<use_m_0, asked>>
      BY <1>7 DEF ApiRun
    <2>2. /\ DOMAIN kii = KiiFields /\ kii.headers = asked.headers /\ kii.writer = "kii"
          /\ \/ kii.reader = "api_call" /\ asked.body = <<"api_call">> /\ asked.reader = "api_call"
             \/ kii.reader = "kii" /\ asked.body = kii.body /\ asked.reader = "kii"
          /\ kii.status_of = "none" /\ kii.resp = "none" /\ kii.buff = {} /\ kii.stream = {}
          /\ sent = {} /\ asked.writer = "kii"
      BY <2>1 DEF RequestsInv, ApiInv, UnsentInv
    <2>3. ASSUME NEW k, kii' = BodyFromBuff(k), DOMAIN k = KiiFields, k.headers = <<>>,
                 k.writer = "kii", k.status_of \in {"none", "api_call"},
                 k.resp \in {"none", "api_call"}, k.buff = {}, k.stream = {},
                 ret'.call = "api_call", SentAsAsked'
          PROVE  RequestsInv'
      <3>1. /\ DOMAIN kii' = KiiFields /\ kii' = [f \in KiiFields |-> kii'[f]]
            /\ kii'.headers = <<>> /\ kii'.reader = "kii" /\ kii'.writer = "kii"
            /\ kii'.status_of = k.status_of /\ kii'.resp = k.resp
            /\ kii'.buff = {} /\ kii'.stream = {}
        BY <2>3 DEF BodyFromBuff, KiiFields
      <3>2. kii'.streamed = FALSE
        BY <2>3 DEF BodyFromBuff, KiiFields
      <3>3. QED
        BY <1>0, <2>1, <2>3, <3>1, <3>2 DEF RequestsInv, LeftInv, UnsentInv, BegunInv, ApiInv
    <2>4. ASSUME kii' = BodyFromBuff(FreeHeaders(kii)), sent' = sent,
                 NEW code \in {"TOO_LARGE_DATA", "ALLOCATION"},
                 ret' = [call |-> "api_call", code |-> code]
          PROVE  RequestsInv'
      <3> DEFINE k == FreeHeaders(kii)
      <3>1. /\ DOMAIN k = KiiFields /\ k.headers = <<>> /\ k.writer = "kii"
            /\ k.status_of = "none" /\ k.resp = "none" /\ k.buff = {} /\ k.stream = {}
        BY <2>2 DEF FreeHeaders, KiiFields
      <3>2. SentAsAsked' /\ ret'.call = "api_call" /\ kii' = BodyFromBuff(k)
        BY <2>2, <2>4 DEF SentAsAsked
      <3> HIDE DEF k
      <3>3. QED
        BY <2>3, <3>1, <3>2
    <2>5. ASSUME NEW answer \in Answers, sent' = {Sent(kii)},
                 ret' = [call |-> "api_call", code |-> SendCode(kii, answer)],
                 kii' = BodyFromBuff(Answered(kii, "api_call", answer, {}, {}))
          PROVE  RequestsInv'
      <3> DEFINE k == Answered(kii, "api_call", answer, {}, {})
                 s == Sent(kii)
      <3>1. /\ DOMAIN k = KiiFields /\ k.headers = <<>> /\ k.writer = "kii"
            /\ k.status_of \in {"none", "api_call"} /\ k.resp \in {"none", "api_call"}
            /\ k.buff = {} /\ k.stream = {}
        BY <2>2 DEF Answered, FreeHeaders, KiiFields
      <3>2. /\ s.headers = asked.headers \o SdkHeaders /\ s.body = asked.body
            /\ s.reader = asked.reader /\ s.writer = asked.writer
            /\ s.reader = "kii" => s.framing = "length"
        BY <2>2 DEF Sent
      <3>3. SdkHeaders' = SdkHeaders /\ ret'.call = "api_call"
        BY <2>1, <2>5 DEF SdkHeaders
      <3>4. sent' = {s} /\ asked' = asked /\ kii' = BodyFromBuff(k)
        BY <2>1, <2>5
      <3> HIDE DEF k, s
      <3>5. SentAsAsked'
        BY <3>2, <3>3, <3>4 DEF SentAsAsked
      <3>6. QED
        BY <2>3, <3>1, <3>3, <3>4, <3>5
    <2>6. QED
      BY <1>7, <2>4, <2>5 DEF ApiRun
  <1>8. QED
    BY <1>1, <1>3, <1>4, <1>5, <1>6, <1>7

\* What keeps requests apart: between calls nothing is left but a response, and the
\* request being put together is what was asked for. Where the application gives a call
\* up after it set a body reader, the reader is left, so it isn't to.
THEOREM RequestsInvariance ==
    ASSUME GivesUpReading = FALSE
    PROVE  RequestsSpec => []RequestsInv
  <1>1. RequestsInit => RequestsInv
    <2> SUFFICES ASSUME RequestsInit PROVE RequestsInv
      OBVIOUS
    <2>1. "api_call" \notin DOMAIN Calls /\ "none" \notin DOMAIN Calls
      BY CallsAre
    <2>2. /\ kii.headers = <<>> /\ kii.reader = "kii" /\ kii.writer = "kii"
          /\ kii.status_of = "none" /\ kii.resp = "none" /\ kii.buff = {} /\ kii.stream = {}
          /\ DOMAIN kii = KiiFields /\ kii = [f \in KiiFields |-> kii[f]]
          /\ DOMAIN asked = {"headers", "body", "reader", "writer"}
      BY DEF RequestsInit, KiiFields
    <2>3. kii.streamed = FALSE
      BY DEF RequestsInit
    <2>4. making = "none" /\ sent = {} /\ ret.call = "none"
      BY DEF RequestsInit
    <2>5. QED
      BY <2>1, <2>2, <2>3, <2>4
         DEF RequestsInv, LeftInv, UnsentInv, BegunInv, ApiInv, SentAsAsked
  <1>2. RequestsInv /\ [RequestsNext]_requestsVars => RequestsInv'
    <2> SUFFICES ASSUME RequestsInv, [RequestsNext]_requestsVars PROVE RequestsInv'
      OBVIOUS
    <2>1. CASE \E call \in DOMAIN Calls : CallBegins(call) \/ CallFails(call) \/ CallSent(call)
      BY <2>1, BeginsKeeps, FailsKeeps, SentKeeps
    <2>2. CASE \/ \E content_type, authenticated \in BOOLEAN : ApiStart(content_type, authenticated)
               \/ ApiAppendBody("part")
               \/ \E is_null \in BOOLEAN, length \in {"unknown", "given"} :
                    ApiSetBodyReader(is_null, length)
               \/ ApiAppendHeader \/ ApiRun \/ ApiCancel
      BY <2>2, ApiKeeps
    <2>3. CASE UNCHANGED requestsVars
      BY <2>3 DEF requestsVars, RequestsInv, LeftInv, UnsentInv, BegunInv, ApiInv, SentAsAsked,
                  SdkHeaders
    <2>4. QED
      BY <2>1, <2>2, <2>3 DEF RequestsNext
  <1>3. QED
    BY <1>1, <1>2, PTL DEF RequestsSpec

\* A request carries the headers and the body of its own call, in order and complete,
\* and is read and written through its callbacks, at whatever step an earlier call of
\* either kind failed (_req_send(), _req_headers_free_all(), _body_from_buff()).
THEOREM SentAsAskedCorrect ==
    ASSUME GivesUpReading = FALSE
    PROVE  RequestsSpec => []SentAsAsked
  <1>1. RequestsInv => SentAsAsked
    BY DEF RequestsInv
  <1>2. QED
    BY <1>1, RequestsInvariance, PTL

\* A call leaves neither headers nor callbacks, nor an earlier call's response, nor a
\* secret in either buffer, and has succeeded only with a status that it takes for
\* success (_reset_khc(), _kii_clear_buffers()).
THEOREM LeftReadyCorrect ==
    ASSUME GivesUpReading = FALSE
    PROVE  RequestsSpec => []LeftReady
  <1>1. RequestsInv => LeftReady
    BY DEF RequestsInv, LeftInv, LeftReady
  <1>2. QED
    BY <1>1, RequestsInvariance, PTL

-----------------------------------------------------------------------------
(* The body of the results of a command.                                   *)

\* What the results are made of, and what they are.
Tokens == {"results", "alias", "comma", "close", "done", "failed"}
Results == {"done", "failed"}

\* The parts of the results' body are sequences of them.
LEMMA PartsAreTokens ==
    /\ ResultsOpen \in Seq(Tokens) /\ Close \in Seq(Tokens) /\ <<"comma">> \in Seq(Tokens)
    /\ <<"alias">> \in Seq(Tokens)
    /\ \A i \in Nat : AliasOpen(i) \in Seq(Tokens)
    /\ \A result \in Results : <<result>> \in Seq(Tokens)
  <1>1. ResultsOpen \in Seq(Tokens) /\ Close \in Seq(Tokens) /\ <<"comma">> \in Seq(Tokens)
    BY DEF ResultsOpen, Close, Tokens
  <1>2. <<"alias">> \in Seq(Tokens) /\ <<"comma", "alias">> \in Seq(Tokens)
    BY DEF Tokens
  <1>3. \A i \in Nat : AliasOpen(i) \in Seq(Tokens)
    BY <1>2 DEF AliasOpen
  <1>4. \A result \in Results : <<result>> \in Seq(Tokens)
    BY DEF Tokens, Results
  <1>5. QED
    BY <1>1, <1>2, <1>3, <1>4

\* The elements, each but the first after a comma.
WithCommas(elements) ==
    [i \in DOMAIN elements |-> IF i = 1 THEN elements[i] ELSE <<"comma">> \o elements[i]]

\* They are sequences of tokens as the elements are.
LEMMA CommasType ==
    ASSUME NEW e \in Seq(Seq(Tokens))
    PROVE  WithCommas(e) \in Seq(Seq(Tokens)) /\ Len(WithCommas(e)) = Len(e)
  <1>1. \A i \in 1 .. Len(e) : WithCommas(e)[i] \in Seq(Tokens)
    <2> TAKE i \in 1 .. Len(e)
    <2>1. e[i] \in Seq(Tokens) /\ <<"comma">> \in Seq(Tokens)
      BY PartsAreTokens
    <2>2. <<"comma">> \o e[i] \in Seq(Tokens)
      BY <2>1
    <2>3. WithCommas(e)[i] = IF i = 1 THEN e[i] ELSE <<"comma">> \o e[i]
      BY DEF WithCommas
    <2>4. QED
      BY <2>1, <2>2, <2>3
  <1>2. WithCommas(e) = [i \in 1 .. Len(e) |-> WithCommas(e)[i]]
    BY DEF WithCommas
  <1> DEFINE w == WithCommas(e)
  <1> HIDE DEF w
  <1>3. \A i \in 1 .. Len(e) : w[i] \in Seq(Tokens)
    BY <1>1 DEF w
  <1>4. w = [i \in 1 .. Len(e) |-> w[i]]
    BY <1>2 DEF w
  <1>5. w \in Seq(Seq(Tokens)) /\ Len(w) = Len(e)
    BY <1>3, <1>4
  <1>6. QED
    BY <1>5 DEF w

\* One element more comes after the others, and after a comma if there are any.
LEMMA CommasAppend ==
    ASSUME NEW e \in Seq(Seq(Tokens)), NEW x \in Seq(Tokens)
    PROVE  WithCommas(Append(e, x))
             = Append(WithCommas(e), IF e = <<>> THEN x ELSE <<"comma">> \o x)
  <1> DEFINE a == Append(e, x)
             last == IF e = <<>> THEN x ELSE <<"comma">> \o x
             w == WithCommas(e)
             b == Append(w, last)
             n == Len(e)
  <1>1. /\ a \in Seq(Seq(Tokens)) /\ Len(a) = n + 1 /\ n \in Nat /\ a[n + 1] = x
        /\ \A i \in 1 .. n : a[i] = e[i]
    OBVIOUS
  <1>2. w \in Seq(Seq(Tokens)) /\ Len(w) = n
    BY CommasType
  <1>3. last \in Seq(Tokens)
    BY PartsAreTokens
  <1>4. e = <<>> <=> n = 0
    OBVIOUS
  <1>5. \A i \in 1 .. n : w[i] = IF i = 1 THEN e[i] ELSE <<"comma">> \o e[i]
    BY DEF WithCommas
  <1> HIDE DEF w, last
  <1>6. /\ Len(b) = n + 1 /\ b[n + 1] = last /\ \A i \in 1 .. n : b[i] = w[i]
    BY <1>1, <1>2, <1>3
  <1>7. b = [i \in 1 .. (n + 1) |-> b[i]]
    <2>1. b \in Seq(Seq(Tokens)) /\ Len(b) = n + 1
      BY <1>1, <1>2, <1>3
    <2> HIDE DEF b, n
    <2>2. QED
      BY <2>1
  <1> HIDE DEF a, b, n
  <1>8. ASSUME NEW i \in 1 .. (n + 1) PROVE b[i] = IF i = 1 THEN a[i] ELSE <<"comma">> \o a[i]
    <2>1. CASE i = n + 1
      <3>1. last = IF i = 1 THEN x ELSE <<"comma">> \o x
        BY <1>1, <1>4, <2>1 DEF last
      <3>2. QED
        BY <1>1, <1>6, <2>1, <3>1
    <2>2. CASE i # n + 1
      <3>1. i \in 1 .. n
        BY <1>1, <2>2
      <3>2. QED
        BY <1>1, <1>5, <1>6, <3>1
    <2>3. QED
      BY <2>1, <2>2
  <1>9. WithCommas(a) = [i \in 1 .. (n + 1) |-> IF i = 1 THEN a[i] ELSE <<"comma">> \o a[i]]
    <2>1. DOMAIN a = 1 .. (n + 1)
      BY <1>1
    <2>2. QED
      BY <2>1 DEF WithCommas
  <1>10. WithCommas(a) = b
    BY <1>7, <1>8, <1>9
  <1>11. QED
    BY <1>10 DEF a, b, w, last

\* As it is put together.
LEMMA JoinedIs ==
    ASSUME NEW e \in Seq(Seq(Tokens))
    PROVE  Joined(e) = FlattenSeq(WithCommas(e)) /\ Joined(e) \in Seq(Tokens)
  <1>1. Joined(e) = FlattenSeq(WithCommas(e))
    BY DEF Joined, WithCommas
  <1>2. QED
    BY <1>1, CommasType, FlattenType

\* The same of what is joined.
LEMMA JoinedAppend ==
    ASSUME NEW e \in Seq(Seq(Tokens)), NEW x \in Seq(Tokens)
    PROVE  Joined(Append(e, x)) = Joined(e) \o (IF e = <<>> THEN x ELSE <<"comma">> \o x)
  <1> DEFINE last == IF e = <<>> THEN x ELSE <<"comma">> \o x
  <1>1. last \in Seq(Tokens)
    BY PartsAreTokens
  <1>2. Append(e, x) \in Seq(Seq(Tokens)) /\ WithCommas(e) \in Seq(Seq(Tokens))
    BY CommasType
  <1>3. WithCommas(Append(e, x)) = Append(WithCommas(e), last)
    BY CommasAppend
  <1> HIDE DEF last
  <1>4. FlattenSeq(Append(WithCommas(e), last)) = FlattenSeq(WithCommas(e)) \o last
    BY <1>1, <1>2, FlattenAppend
  <1>5. Joined(Append(e, x)) = FlattenSeq(WithCommas(Append(e, x)))
    BY <1>2, JoinedIs
  <1>6. Joined(e) = FlattenSeq(WithCommas(e))
    BY JoinedIs
  <1>7. QED
    BY <1>3, <1>4, <1>5, <1>6 DEF last

\* Nothing joined is nothing.
LEMMA JoinedEmpty == Joined(<<>>) = <<>>
  <1>1. WithCommas(<<>>) = <<>>
    BY DEF WithCommas
  <1>2. Joined(<<>>) = FlattenSeq(WithCommas(<<>>))
    BY DEF Joined, WithCommas
  <1>3. QED
    BY <1>1, <1>2, FlattenEmpty

\* The results of one alias, without its closing bracket and with it.
Opened(of) == <<"alias">> \o Joined([j \in DOMAIN of |-> <<of[j]>>])
Whole(of) == Opened(of) \o Close

\* The aliases whose results are complete.
Complete(results) == Joined([i \in DOMAIN results |-> Whole(results[i])])

\* The results that an alias's elements are.
Singles == [result \in Results |-> <<result>>]

\* The text of an alias that isn't closed is tokens.
LEMMA OpenedIs ==
    ASSUME NEW of \in Seq(Results)
    PROVE  /\ Opened(of) = <<"alias">> \o Joined(Mapped(of, Singles))
           /\ Mapped(of, Singles) \in Seq(Seq(Tokens))
           /\ Opened(of) \in Seq(Tokens)
           /\ Mapped(of, Singles) = <<>> <=> of = <<>>
  <1> DEFINE m == Mapped(of, Singles)
  <1>1. Gives(Singles, Results, Seq(Tokens))
    BY PartsAreTokens DEF Singles, Gives
  <1>2. m \in Seq(Seq(Tokens)) /\ Len(m) = Len(of)
    BY <1>1, MappedType
  <1>3. m = [j \in DOMAIN of |-> <<of[j]>>]
    BY DEF Mapped, Singles
  <1>4. Opened(of) = <<"alias">> \o Joined(m)
    BY <1>3 DEF Opened
  <1> HIDE DEF m
  <1>5. Joined(m) \in Seq(Tokens) /\ <<"alias">> \in Seq(Tokens)
    BY <1>2, JoinedIs, PartsAreTokens
  <1>6. Opened(of) \in Seq(Tokens)
    BY <1>4, <1>5
  <1>7. m = <<>> <=> of = <<>>
    BY <1>2
  <1>8. QED
    BY <1>2, <1>4, <1>6, <1>7 DEF m

\* The results of an action come after those of the ones before it.
LEMMA OpenedAppend ==
    ASSUME NEW of \in Seq(Results), NEW result \in Results
    PROVE  Opened(Append(of, result))
             = Opened(of) \o (IF of = <<>> THEN <<result>> ELSE <<"comma", result>>)
  <1> DEFINE m == Mapped(of, Singles)
             o == Append(of, result)
             x == <<result>>
             last == IF m = <<>> THEN x ELSE <<"comma">> \o x
  <1>1. /\ m \in Seq(Seq(Tokens)) /\ Opened(of) = <<"alias">> \o Joined(m)
        /\ m = <<>> <=> of = <<>>
    BY OpenedIs
  <1>2. x \in Seq(Tokens) /\ <<"alias">> \in Seq(Tokens) /\ <<"comma">> \in Seq(Tokens)
    BY PartsAreTokens
  <1>3. o \in Seq(Results) /\ Mapped(o, Singles) = Append(m, x)
    <2>1. Gives(Singles, Results, Seq(Tokens)) /\ Singles[result] = x
      BY PartsAreTokens DEF Singles, Gives
    <2>2. MapsOneMore(of, result, Singles)
      BY <2>1, MappedAppend, Zenon
    <2>3. QED
      BY <2>1, <2>2 DEF MapsOneMore
  <1>4. Opened(o) = <<"alias">> \o Joined(Mapped(o, Singles))
    BY <1>3, OpenedIs
  <1>5. <<"comma">> \o x = <<"comma", result>>
    <2>1. "comma" \in Tokens /\ result \in Tokens
      BY DEF Tokens, Results
    <2>2. QED
      BY <2>1, Pair
  <1> HIDE DEF m, x, o
  <1>6. Joined(Append(m, x)) = Joined(m) \o last
    BY <1>1, <1>2, JoinedAppend
  <1>7. last \in Seq(Tokens) /\ Joined(m) \in Seq(Tokens)
    BY <1>1, <1>2, JoinedIs
  <1> HIDE DEF last
  <1>8. Groups(<<"alias">>, Joined(m), last)
    BY <1>2, <1>7, Associative, Zenon
  <1>9. Opened(o) = Opened(of) \o last
    BY <1>1, <1>3, <1>4, <1>6, <1>8 DEF Groups
  <1>10. last = IF of = <<>> THEN <<result>> ELSE <<"comma", result>>
    BY <1>1, <1>5 DEF last, x
  <1>11. QED
    BY <1>9, <1>10 DEF o

\* What an alias's results are.
Wholes == [of \in Seq(Results) |-> Whole(of)]

\* The text of whole aliases is tokens.
LEMMA CompleteIs ==
    ASSUME NEW r \in Seq(Seq(Results))
    PROVE  /\ Complete(r) = Joined(Mapped(r, Wholes))
           /\ Mapped(r, Wholes) \in Seq(Seq(Tokens))
           /\ Complete(r) \in Seq(Tokens)
           /\ Mapped(r, Wholes) = <<>> <=> r = <<>>
  <1> DEFINE m == Mapped(r, Wholes)
  <1>1. Gives(Wholes, Seq(Results), Seq(Tokens))
    <2> SUFFICES ASSUME NEW of \in Seq(Results) PROVE Whole(of) \in Seq(Tokens)
      BY DEF Wholes, Gives
    <2>1. Opened(of) \in Seq(Tokens) /\ Close \in Seq(Tokens)
      BY OpenedIs, PartsAreTokens
    <2>2. QED
      BY <2>1 DEF Whole
  <1>2. m \in Seq(Seq(Tokens)) /\ Len(m) = Len(r)
    BY <1>1, MappedType
  <1>3. m = [i \in DOMAIN r |-> Whole(r[i])]
    BY DEF Mapped, Wholes
  <1>4. Complete(r) = Joined(m)
    BY <1>3 DEF Complete
  <1> HIDE DEF m
  <1>5. Joined(m) \in Seq(Tokens)
    BY <1>2, JoinedIs
  <1>6. m = <<>> <=> r = <<>>
    BY <1>2
  <1>7. QED
    BY <1>2, <1>4, <1>5, <1>6 DEF m

\* The results of an alias come after those of the ones before it.
LEMMA CompleteAppend ==
    ASSUME NEW r \in Seq(Seq(Results)), NEW of \in Seq(Results)
    PROVE  Complete(Append(r, of))
             = Complete(r) \o (IF r = <<>> THEN Whole(of) ELSE <<"comma">> \o Whole(of))
  <1> DEFINE m == Mapped(r, Wholes)
             a == Append(r, of)
             x == Whole(of)
  <1>1. m \in Seq(Seq(Tokens)) /\ Complete(r) = Joined(m) /\ (m = <<>> <=> r = <<>>)
    BY CompleteIs
  <1>2. \A o \in Seq(Results) : Whole(o) \in Seq(Tokens)
    <2> TAKE o \in Seq(Results)
    <2>1. Opened(o) \in Seq(Tokens) /\ Close \in Seq(Tokens)
      BY OpenedIs, PartsAreTokens
    <2>2. QED
      BY <2>1 DEF Whole
  <1>3. a \in Seq(Seq(Results)) /\ Mapped(a, Wholes) = Append(m, x)
    <2>1. Gives(Wholes, Seq(Results), Seq(Tokens)) /\ Wholes[of] = x
      BY <1>2 DEF Wholes, Gives
    <2> DEFINE R == Seq(Results)
               T == Seq(Tokens)
    <2>2. r \in Seq(R) /\ of \in R /\ Gives(Wholes, R, T)
      BY <2>1
    <2> HIDE DEF R, T
    <2>3. MapsOneMore(r, of, Wholes)
      BY <2>2, MappedAppend, Zenon
    <2>4. QED
      BY <2>1, <2>3 DEF MapsOneMore
  <1>4. Complete(a) = Joined(Mapped(a, Wholes))
    BY <1>3, CompleteIs
  <1>5. x \in Seq(Tokens)
    BY <1>2
  <1> HIDE DEF m, a, x
  <1>6. Joined(Append(m, x)) = Joined(m) \o (IF m = <<>> THEN x ELSE <<"comma">> \o x)
    BY <1>1, <1>5, JoinedAppend
  <1>7. QED
    BY <1>1, <1>3, <1>4, <1>6 DEF a, x

\* The body as far as an alias that is open: those before it, and its results so far.
Partial(before, last) ==
    (ResultsOpen \o Complete(before))
        \o (IF before = <<>> THEN Opened(last) ELSE <<"comma">> \o Opened(last))

\* What the body is when an alias is opened, an action run, and the alias closed.
LEMMA PartialOpens ==
    ASSUME NEW before \in Seq(Seq(Results))
    PROVE  Partial(before, <<>>) = (ResultsOpen \o Complete(before)) \o AliasOpen(Len(before) + 1)
  <1>1. Opened(<<>>) = <<"alias">>
    <2>1. Opened(<<>>) = <<"alias">> \o Joined(<<>>)
      <3>1. [j \in DOMAIN <<>> |-> <<(<<>>)[j]>>] = <<>>
        OBVIOUS
      <3>2. QED
        BY <3>1 DEF Opened
    <2>2. <<"alias">> \in Seq(Tokens)
      BY PartsAreTokens
    <2>3. QED
      BY <2>1, <2>2, JoinedEmpty
  <1>2. <<"comma">> \o <<"alias">> = <<"comma", "alias">>
    <2>1. "comma" \in Tokens /\ "alias" \in Tokens
      BY DEF Tokens
    <2>2. QED
      BY <2>1, Pair
  <1>3. before = <<>> <=> Len(before) = 0
    OBVIOUS
  <1>4. Len(before) \in Nat
    OBVIOUS
  <1>5. AliasOpen(Len(before) + 1) = IF before = <<>> THEN <<"alias">> ELSE <<"comma", "alias">>
    BY <1>3, <1>4 DEF AliasOpen
  <1>6. QED
    BY <1>1, <1>2, <1>5 DEF Partial

\* An action that has run adds its result to the alias it is in.
LEMMA PartialRuns ==
    ASSUME NEW before \in Seq(Seq(Results)), NEW last \in Seq(Results), NEW result \in Results,
           NEW i
    PROVE  Partial(before, Append(last, result))
             = Partial(before, last) \o ActionResult(i, Len(last) + 1, result)
  <1> DEFINE head == ResultsOpen \o Complete(before)
             one == IF last = <<>> THEN <<result>> ELSE <<"comma", result>>
             mid == Opened(last)
  <1>1. head \in Seq(Tokens) /\ mid \in Seq(Tokens) /\ <<"comma">> \in Seq(Tokens)
    BY CompleteIs, OpenedIs, PartsAreTokens
  <1>2. one \in Seq(Tokens)
    <2>1. <<result>> \in Seq(Tokens)
      BY PartsAreTokens
    <2>2. "comma" \in Tokens /\ result \in Tokens
      BY DEF Tokens, Results
    <2>3. <<"comma", result>> \in Seq(Tokens)
      BY <2>2
    <2>4. QED
      BY <2>1, <2>3
  <1>3. ActionResult(i, Len(last) + 1, result) = one
    <2>1. Len(last) \in Nat /\ (last = <<>> <=> Len(last) = 0)
      OBVIOUS
    <2>2. QED
      BY <2>1 DEF ActionResult
  <1>4. Opened(Append(last, result)) = mid \o one
    BY OpenedAppend
  <1>5. Partial(before, Append(last, result))
          = head \o (IF before = <<>> THEN mid \o one ELSE <<"comma">> \o (mid \o one))
    BY <1>4 DEF Partial
  <1>6. Partial(before, last) = head \o (IF before = <<>> THEN mid ELSE <<"comma">> \o mid)
    BY DEF Partial
  <1> HIDE DEF head, one, mid
  <1>7. CASE before = <<>>
    <2>1. Groups(head, mid, one)
      BY <1>1, <1>2, Associative, Zenon
    <2>2. QED
      BY <1>3, <1>5, <1>6, <1>7, <2>1 DEF Groups
  <1>8. CASE before # <<>>
    <2> DEFINE c == <<"comma">>
    <2>1. c \in Seq(Tokens) /\ c \o mid \in Seq(Tokens)
      BY <1>1
    <2>2. Partial(before, last) \o one = (head \o (c \o mid)) \o one
      BY <1>6, <1>8
    <2>3. Partial(before, Append(last, result)) = head \o (c \o (mid \o one))
      BY <1>5, <1>8
    <2> HIDE DEF c
    <2>4. (head \o (c \o mid)) \o one = head \o ((c \o mid) \o one)
      <3> DEFINE cm == c \o mid
      <3>1. cm \in Seq(Tokens)
        BY <2>1
      <3> HIDE DEF cm
      <3>2. Groups(head, cm, one)
        BY <1>1, <1>2, <3>1, Associative, Zenon
      <3>3. QED
        BY <3>2 DEF cm, Groups
    <2>5. Groups(c, mid, one)
      BY <1>1, <1>2, <2>1, Associative, Zenon
    <2>6. QED
      BY <1>3, <2>2, <2>3, <2>4, <2>5 DEF Groups
  <1>9. QED
    BY <1>7, <1>8

\* Closing the alias makes it one of the whole ones.
LEMMA PartialCloses ==
    ASSUME NEW before \in Seq(Seq(Results)), NEW last \in Seq(Results)
    PROVE  Partial(before, last) \o Close = ResultsOpen \o Complete(Append(before, last))
  <1> DEFINE o == ResultsOpen
             b == Complete(before)
             mid == Opened(last)
             c == <<"comma">>
             e == Close
  <1>1. /\ o \in Seq(Tokens) /\ b \in Seq(Tokens) /\ mid \in Seq(Tokens) /\ c \in Seq(Tokens)
        /\ e \in Seq(Tokens)
    BY CompleteIs, OpenedIs, PartsAreTokens
  <1>2. Complete(Append(before, last))
          = b \o (IF before = <<>> THEN mid \o e ELSE c \o (mid \o e))
    BY CompleteAppend DEF Whole
  <1>3. Partial(before, last) = (o \o b) \o (IF before = <<>> THEN mid ELSE c \o mid)
    BY DEF Partial
  <1> HIDE DEF o, b, mid, c, e
  <1>5. CASE before = <<>>
    <2>1. Partial(before, last) \o e = ((o \o b) \o mid) \o e
      BY <1>3, <1>5
    <2>2. Complete(Append(before, last)) = b \o (mid \o e)
      BY <1>2, <1>5
    <2>3. Regroups(o, b, mid, e)
      BY <1>1, AssociativeOfFour, Zenon
    <2>4. QED
      BY <2>1, <2>2, <2>3 DEF o, e, Regroups
  <1>6. CASE before # <<>>
    <2>1. Partial(before, last) \o e = ((o \o b) \o (c \o mid)) \o e
      BY <1>3, <1>6
    <2>2. Complete(Append(before, last)) = b \o (c \o (mid \o e))
      BY <1>2, <1>6
    <2>3. c \o mid \in Seq(Tokens) /\ (c \o mid) \o e = c \o (mid \o e)
      <3>1. c \o mid \in Seq(Tokens)
        BY <1>1
      <3>2. Groups(c, mid, e)
        BY <1>1, Associative, Zenon
      <3>3. QED
        BY <3>1, <3>2 DEF Groups
    <2>4. ((o \o b) \o (c \o mid)) \o e = o \o (b \o ((c \o mid) \o e))
      <3> DEFINE cm == c \o mid
      <3>1. cm \in Seq(Tokens)
        BY <2>3
      <3> HIDE DEF cm
      <3>2. Regroups(o, b, cm, e)
        BY <1>1, <3>1, AssociativeOfFour, Zenon
      <3>3. QED
        BY <3>2 DEF cm, Regroups
    <2>5. QED
      BY <2>1, <2>2, <2>3, <2>4 DEF o, e
  <1>7. QED
    BY <1>5, <1>6

-----------------------------------------------------------------------------
(* Handling a command.                                                     *)

\* The results are those of every action of the aliases.
EveryRun(results, of) ==
    \A i \in 1 .. Len(results) : Len(results[i]) = Len(of.aliases[i].actions)

\* The aliases of a command are a sequence, and so are their actions.
Shaped(c) ==
    /\ Len(c.aliases) \in Nat /\ DOMAIN c.aliases = 1 .. Len(c.aliases)
    /\ \A i \in 1 .. Len(c.aliases) :
            LET actions == c.aliases[i].actions
            IN  Len(actions) \in Nat /\ DOMAIN actions = 1 .. Len(actions)

\* The command is handled once it has been checked, and nothing is reported meanwhile.
CheckedInv ==
    phase \in {"start", "open", "alias", "action", "run"} =>
        /\ _walk_command(command)
        /\ reported = {}
        /\ Shaped(command)

\* The request that is put together is the handler's.
OwnRequestInv ==
    phase \in {"open", "alias", "action", "run"} =>
        /\ making = "api_call" /\ sent = {}
        /\ kii.streamed = FALSE /\ kii.reader = "kii"
        /\ kii.body \in Seq(Seq(Tokens))

StartsInv ==
    phase \in {"start", "open"} =>
        ran = <<>> /\ at = [alias |-> 1, action |-> 1] /\ (phase = "open" => kii.body = <<>>)

\* Before an alias: the results of those before it are written.
AtAlias ==
    /\ ran \in Seq(Seq(Results))
    /\ at = [alias |-> Len(ran) + 1, action |-> 1]
    /\ Len(ran) <= Len(command.aliases)
    /\ EveryRun(ran, command)
    /\ FlattenSeq(kii.body) = ResultsOpen \o Complete(ran)

\* In one: and those of its actions that have run.
InAlias(before, last, c, results, place, text) ==
    /\ results = Append(before, last)
    /\ place = [alias |-> Len(before) + 1, action |-> Len(last) + 1]
    /\ Len(before) + 1 <= Len(c.aliases)
    /\ Len(last) <= Len(c.aliases[Len(before) + 1].actions)
    /\ EveryRun(before, c)
    /\ text = Partial(before, last)

AtAction ==
    \E before \in Seq(Seq(Results)), last \in Seq(Results) :
        InAlias(before, last, command, ran, at, FlattenSeq(kii.body))

\* After the last: they are written whole.
AtRun ==
    /\ ran \in Seq(Seq(Results))
    /\ Len(ran) = Len(command.aliases)
    /\ EveryRun(ran, command)
    /\ FlattenSeq(kii.body) = Rendered(ran)

HandlerInv ==
    /\ DOMAIN kii = KiiFields
    /\ CheckedInv /\ OwnRequestInv /\ StartsInv
    /\ phase = "alias" => AtAlias
    /\ phase = "action" => AtAction
    /\ phase = "run" => AtRun
    /\ ResultsAreThoseRun

\* A command given up is told as an error.
LEMMA GivesUp ==
    ASSUME HandlerInv, phase \in {"start", "open", "alias", "action", "run"},
           phase' = "done", told' # "OK", command' = command, reported' = reported,
           DOMAIN kii' = KiiFields
    PROVE  HandlerInv'
  <1>1. _walk_command(command) /\ reported = {}
    BY DEF HandlerInv, CheckedInv
  <1>2. _walk_command(command)' /\ reported' = {}
    BY <1>1 DEF _walk_command
  <1>3. ResultsAreThoseRun'
    BY <1>2 DEF ResultsAreThoseRun
  <1>4. QED
    BY <1>3 DEF HandlerInv, CheckedInv, OwnRequestInv, StartsInv

\* A part was appended to the body of the request.
PartWritten(part) ==
    /\ DOMAIN kii' = KiiFields /\ making' = "api_call" /\ sent' = {}
    /\ kii'.streamed = FALSE /\ kii'.reader = "kii"
    /\ kii'.body \in Seq(Seq(Tokens))
    /\ FlattenSeq(kii'.body) = FlattenSeq(kii.body) \o part

\* A part appended is put after the body, or the request is given up.
LEMMA AppendsPart ==
    ASSUME HandlerInv, phase \in {"open", "alias", "action", "run"},
           NEW part \in Seq(Tokens), NEW next, Appends(part, next)
    PROVE  \/ phase' = next /\ PartWritten(part)
           \/ phase' = "done" /\ told' # "OK" /\ DOMAIN kii' = KiiFields
  <1>1. /\ DOMAIN kii = KiiFields /\ making = "api_call" /\ sent = {}
        /\ kii.reader = "kii" /\ kii.body \in Seq(Seq(Tokens))
    BY DEF HandlerInv, OwnRequestInv
  <1>2. kii.streamed = FALSE
    BY DEF HandlerInv, OwnRequestInv
  <1>3. CASE GivenUp("TOO_LARGE_DATA")
    <2>1. ret'.code = "TOO_LARGE_DATA" /\ DOMAIN kii' = KiiFields
      BY <1>1, <1>3 DEF GivenUp, FreeHeaders, KiiFields
    <2>2. phase' = "done" /\ told' # "OK"
      BY <2>1 DEF Appends, Returns
    <2>3. QED
      BY <2>1, <2>2
  <1>4. CASE /\ kii' = [kii EXCEPT !.body = Append(@, part)]
             /\ ret' = [call |-> "api_call", code |-> "OK"]
             /\ UNCHANGED <<use_m_0, making, sent>>
    <2>1. /\ DOMAIN kii' = KiiFields /\ kii'.body = Append(kii.body, part)
          /\ kii'.reader = kii.reader
      BY <1>1, <1>4 DEF KiiFields
    <2>2. kii'.streamed = FALSE
      BY <1>1, <1>2, <1>4 DEF KiiFields
    <2>3. FlattenSeq(Append(kii.body, part)) = FlattenSeq(kii.body) \o part
      BY <1>1, FlattenAppend
    <2>4. Append(kii.body, part) \in Seq(Seq(Tokens))
      BY <1>1
    <2>5. ret'.code = "OK"
      BY <1>4
    <2>6. phase' = next
      BY <2>5 DEF Appends
    <2>7. PartWritten(part)
      BY <1>1, <1>4, <2>1, <2>2, <2>3, <2>4 DEF PartWritten
    <2>8. QED
      BY <2>6, <2>7
  <1>5. QED
    BY <1>2, <1>3, <1>4 DEF Appends, ApiAppendBody

\* kii's own calls keep its fields.
LEMMA CallsKeepFields ==
    ASSUME DOMAIN kii = KiiFields, NEW call, CallBegins(call) \/ CallFails(call) \/ CallSent(call)
    PROVE  DOMAIN kii' = KiiFields
  <1>1. ASSUME NEW k, DOMAIN k = KiiFields PROVE DOMAIN Ended(k, call) = KiiFields
    <2>1. DOMAIN Restored(k, call) = KiiFields
      BY <1>1 DEF Restored, BodyFromBuff
    <2>2. DOMAIN ClearBuffers(Restored(k, call)) = KiiFields
      BY <2>1 DEF ClearBuffers
    <2>3. QED
      BY <2>1, <2>2 DEF Ended
  <1>2. CASE CallBegins(call)
    BY <1>2 DEF CallBegins, Begun, SetCallbacks, ResetBuff, ResetKhc
  <1>3. CASE CallFails(call)
    <2>1. PICK fails : kii' = Ended([Prepared(kii, fails, asked.headers) EXCEPT
                !.buff = IF fails = "body" THEN Calls[call].secret ELSE @], call)
      BY <1>3 DEF CallFails
    <2> DEFINE k == [Prepared(kii, fails, asked.headers) EXCEPT
                !.buff = IF fails = "body" THEN Calls[call].secret ELSE @]
    <2>2. DOMAIN k = KiiFields
      BY DEF Prepared, FreeHeaders
    <2>3. kii' = Ended(k, call)
      BY <2>1
    <2> HIDE DEF k
    <2>4. QED
      BY <1>1, <2>2, <2>3
  <1>4. CASE CallSent(call)
    <2> DEFINE op == Calls[call]
               put == WithBody([kii EXCEPT !.headers = @ \o asked.headers], BodyKind(call),
                               op.secret)
               ready == BeforeSend(put, call)
    <2>1. PICK answer : kii' = Ended(
            AfterSend(Answered(ready, call, answer, op.secret, op.got), call), call)
      BY <1>4 DEF CallSent
    <2> DEFINE ans == Answered(ready, call, answer, op.secret, op.got)
               k == AfterSend(ans, call)
    <2>2. kii' = Ended(k, call)
      BY <2>1
    <2> HIDE DEF op
    <2>3. DOMAIN put = KiiFields
      BY DEF WithBody, ResetBuff
    <2> HIDE DEF put
    <2>4. DOMAIN ready = KiiFields
      BY <2>3 DEF BeforeSend
    <2> HIDE DEF ready
    <2>5. DOMAIN ans = KiiFields
      BY <2>4 DEF Answered, FreeHeaders
    <2> HIDE DEF ans
    <2>6. DOMAIN k = KiiFields
      BY <2>5 DEF AfterSend, BodyFromBuff
    <2> HIDE DEF k
    <2>7. QED
      BY <1>1, <2>2, <2>6
  <1>5. QED
    BY <1>2, <1>3, <1>4

\* What a command is as it is received.
LEMMA CommandsAre ==
    ASSUME NEW c \in Commands
    PROVE  Shaped(c)
  <1>1. \A S, n : BoundedSeq(S, n) \subseteq Seq(S)
    BY DEF BoundedSeq, SeqOf
  <1>2. c.aliases \in Seq(Aliases)
    BY <1>1 DEF Commands
  <1>3. \A a \in Aliases : a.actions \in Seq({"action", "malformed"})
    <2> SUFFICES ASSUME NEW a \in Aliases PROVE a.actions \in Seq({"action", "malformed"})
      OBVIOUS
    <2>1. CASE a \in [array : {FALSE}, actions : {<<>>}]
      <3>1. a.actions = <<>>
        BY <2>1
      <3>2. QED
        BY <3>1
    <2>2. CASE a \in [array : {TRUE}, actions : BoundedSeq({"action", "malformed"}, MaxActions)]
      BY <1>1, <2>2
    <2>3. QED
      BY <2>1, <2>2 DEF Aliases
  <1>4. \A i \in 1 .. Len(c.aliases) : c.aliases[i] \in Aliases
    BY <1>2
  <1>5. Len(c.aliases) \in Nat /\ DOMAIN c.aliases = 1 .. Len(c.aliases)
    BY <1>2
  <1>6. ASSUME NEW i \in 1 .. Len(c.aliases)
        PROVE  /\ Len(c.aliases[i].actions) \in Nat
               /\ DOMAIN c.aliases[i].actions = 1 .. Len(c.aliases[i].actions)
    <2>1. c.aliases[i].actions \in Seq({"action", "malformed"})
      BY <1>3, <1>4
    <2>2. QED
      BY <2>1
  <1>7. QED
    BY <1>5, <1>6 DEF Shaped

\* A command is received: one malformed anywhere is refused.
LEMMA PushKeeps == ASSUME HandlerInv, NEW c \in Commands, ReceivePush(c) PROVE HandlerInv'
  <1>1. /\ command' = c /\ at' = [alias |-> 1, action |-> 1] /\ ran' = <<>> /\ reported' = {}
        /\ UNCHANGED requestsVars
    BY DEF ReceivePush
  <1>2. DOMAIN kii' = KiiFields
    BY <1>1 DEF HandlerInv, requestsVars
  <1>3. CASE _check_command(c) /\ phase' = "start"
    <2>1. _walk_command(command)'
      BY <1>1, <1>3 DEF _check_command, _walk_command
    <2>2. CheckedInv'
      BY <1>1, <2>1, CommandsAre DEF CheckedInv
    <2>3. QED
      BY <1>1, <1>2, <1>3, <2>2 DEF HandlerInv, OwnRequestInv, StartsInv, ResultsAreThoseRun
  <1>4. CASE phase' = "done" /\ told' = "PARSE_JSON"
    <2>1. ResultsAreThoseRun'
      BY <1>1, <1>4 DEF ResultsAreThoseRun
    <2>2. QED
      BY <1>2, <1>4, <2>1 DEF HandlerInv, CheckedInv, OwnRequestInv, StartsInv
  <1>5. QED
    BY <1>3, <1>4 DEF ReceivePush, Returns

\* The request is started.
LEMMA StartKeeps == ASSUME HandlerInv, StartResultRequest PROVE HandlerInv'
  <1>1. phase = "start" /\ UNCHANGED <<command, at, ran, reported>> /\ DOMAIN kii = KiiFields
    BY DEF StartResultRequest, HandlerInv
  <1>2. CASE Returns("TOO_LARGE_DATA") /\ UNCHANGED requestsVars
    <2>1. phase' = "done" /\ told' # "OK" /\ DOMAIN kii' = KiiFields
      BY <1>1, <1>2 DEF Returns, requestsVars
    <2>2. QED
      BY <1>1, <2>1, GivesUp
  <1>3. CASE /\ ApiStart(TRUE, TRUE)
             /\ \/ ret'.code = "OK" /\ phase' = "open" /\ UNCHANGED told
                \/ ret'.code # "OK" /\ Returns(ret'.code)
    <2> DEFINE k == Started(kii)
    <2>1. PICK given :
            /\ \/ /\ kii' = [k EXCEPT !.headers = given] /\ making' = "api_call"
                  /\ ret' = [call |-> "api_call", code |-> "OK"]
               \/ /\ kii' = k
                  /\ \E code \in {"TOO_LARGE_DATA", "ALLOCATION"} :
                        ret' = [call |-> "api_call", code |-> code]
            /\ sent' = {}
      BY <1>3 DEF ApiStart
    <2>2. DOMAIN k = KiiFields /\ k.body = <<>> /\ k.reader = "kii"
      BY <1>1 DEF Started, BodyFromBuff, ResetKhc, FreeHeaders, ResetBuff, KiiFields
    <2>3. k.streamed = FALSE
      BY <1>1 DEF Started, BodyFromBuff, ResetKhc, FreeHeaders, ResetBuff, KiiFields
    <2> HIDE DEF k
    <2>4. CASE kii' = k /\ ret'.code # "OK"
      <3>1. phase' = "done" /\ told' # "OK" /\ DOMAIN kii' = KiiFields
        BY <1>3, <2>2, <2>4 DEF Returns
      <3>2. QED
        BY <1>1, <3>1, GivesUp
    <2>5. CASE kii' = [k EXCEPT !.headers = given] /\ making' = "api_call" /\ ret'.code = "OK"
      <3>1. DOMAIN kii' = KiiFields /\ kii'.body = <<>> /\ kii'.reader = "kii"
        BY <2>2, <2>5 DEF KiiFields
      <3>2. kii'.streamed = FALSE
        BY <2>2, <2>3, <2>5 DEF KiiFields
      <3>3. phase' = "open"
        BY <1>3, <2>5
      <3>4. <<>> \in Seq(Seq(Tokens))
        OBVIOUS
      <3>5. OwnRequestInv'
        BY <2>1, <2>5, <3>1, <3>2, <3>4 DEF OwnRequestInv
      <3>6. CheckedInv'
        BY <1>1, <3>3 DEF HandlerInv, CheckedInv, _walk_command
      <3>7. StartsInv'
        BY <1>1, <3>1, <3>3 DEF HandlerInv, StartsInv
      <3>8. QED
        BY <3>1, <3>3, <3>5, <3>6, <3>7 DEF HandlerInv, ResultsAreThoseRun
    <2>6. QED
      BY <2>1, <2>4, <2>5
  <1>4. QED
    BY <1>2, <1>3 DEF StartResultRequest

\* What a part that was written leaves, but for what the body is then.
LEMMA WrittenKeeps ==
    ASSUME HandlerInv, phase \in {"open", "alias", "action"}, NEW part, PartWritten(part),
           phase' \in {"alias", "action", "run"}, UNCHANGED <<command, reported>>,
           phase' = "alias" => AtAlias', phase' = "action" => AtAction', phase' = "run" => AtRun'
    PROVE  HandlerInv'
  <1>1. CheckedInv'
    BY DEF HandlerInv, CheckedInv, _walk_command
  <1>2. OwnRequestInv'
    BY DEF PartWritten, OwnRequestInv
  <1>3. QED
    BY <1>1, <1>2 DEF HandlerInv, StartsInv, ResultsAreThoseRun, PartWritten

\* The results are opened.
LEMMA OpenResultsKeeps == ASSUME HandlerInv, OpenResults PROVE HandlerInv'
  <1>1. /\ phase = "open" /\ Appends(ResultsOpen, "alias")
        /\ UNCHANGED <<command, at, ran, reported>>
    BY DEF OpenResults
  <1>2. ResultsOpen \in Seq(Tokens)
    BY PartsAreTokens
  <1>3. \/ phase' = "alias" /\ PartWritten(ResultsOpen)
        \/ phase' = "done" /\ told' # "OK" /\ DOMAIN kii' = KiiFields
    BY <1>1, <1>2, AppendsPart
  <1>4. CASE phase' = "alias" /\ PartWritten(ResultsOpen)
    <2>1. ran = <<>> /\ at = [alias |-> 1, action |-> 1] /\ kii.body = <<>>
      BY <1>1 DEF HandlerInv, StartsInv
    <2>2. ran \in Seq(Seq(Results)) /\ Len(ran) = 0
      BY <2>1
    <2>3. Complete(ran) = <<>>
      <3>1. [i \in DOMAIN <<>> |-> Whole((<<>>)[i])] = <<>>
        OBVIOUS
      <3>2. QED
        BY <2>1, <3>1, JoinedEmpty DEF Complete
    <2>4. FlattenSeq(kii'.body) = ResultsOpen \o Complete(ran)
      BY <1>2, <1>4, <2>1, <2>3, FlattenEmpty DEF PartWritten
    <2>5. EveryRun(ran, command)
      BY <2>2 DEF EveryRun
    <2>6. Len(command.aliases) \in Nat
      BY <1>1 DEF HandlerInv, CheckedInv, Shaped
    <2>7. AtAlias'
      BY <1>1, <2>1, <2>2, <2>4, <2>5, <2>6 DEF AtAlias, EveryRun
    <2>8. QED
      BY <1>1, <1>4, <2>7, WrittenKeeps
  <1>5. CASE phase' = "done" /\ told' # "OK" /\ DOMAIN kii' = KiiFields
    BY <1>1, <1>5, GivesUp
  <1>6. QED
    BY <1>3, <1>4, <1>5

\* An alias is opened.
LEMMA OpenAliasKeeps == ASSUME HandlerInv, OpenAlias PROVE HandlerInv'
  <1> DEFINE part == AliasOpen(at.alias)
  <1>1. /\ phase = "alias" /\ at.alias <= Len(command.aliases)
        /\ ran' = Append(ran, <<>>) /\ UNCHANGED <<command, at, reported>>
    BY DEF OpenAlias
  <1>2. /\ ran \in Seq(Seq(Results)) /\ at = [alias |-> Len(ran) + 1, action |-> 1]
        /\ Len(ran) \in Nat
        /\ EveryRun(ran, command) /\ FlattenSeq(kii.body) = ResultsOpen \o Complete(ran)
    BY <1>1 DEF HandlerInv, AtAlias
  <1>3. /\ Len(ran) + 1 \in 1 .. Len(command.aliases)
        /\ DOMAIN command.aliases = 1 .. Len(command.aliases)
        /\ Len(command.aliases[Len(ran) + 1].actions) \in Nat
    BY <1>1, <1>2 DEF HandlerInv, CheckedInv, Shaped
  <1>4. Appends(part, "action")
    <2>1. command.aliases[at.alias].array
      BY <1>1, <1>2, <1>3 DEF HandlerInv, CheckedInv, _walk_command
    <2>2. QED
      BY <2>1 DEF OpenAlias
  <1>5. part \in Seq(Tokens)
    BY <1>2, PartsAreTokens
  <1>6. \/ phase' = "action" /\ PartWritten(part)
        \/ phase' = "done" /\ told' # "OK" /\ DOMAIN kii' = KiiFields
    BY <1>1, <1>4, <1>5, AppendsPart
  <1>7. CASE phase' = "action" /\ PartWritten(part)
    <2>1. FlattenSeq(kii'.body) = Partial(ran, <<>>)
      BY <1>2, <1>7, PartialOpens DEF PartWritten
    <2>2. <<>> \in Seq(Results) /\ Len(<<>>) = 0
      OBVIOUS
    <2>3. InAlias(ran, <<>>, command', ran', at', FlattenSeq(kii'.body))
      BY <1>1, <1>2, <1>3, <2>1, <2>2 DEF InAlias
    <2>4. AtAction'
      BY <1>2, <2>2, <2>3 DEF AtAction
    <2>5. QED
      BY <1>1, <1>7, <2>4, WrittenKeeps
  <1>8. CASE phase' = "done" /\ told' # "OK" /\ DOMAIN kii' = KiiFields
    BY <1>1, <1>8, GivesUp
  <1>9. QED
    BY <1>6, <1>7, <1>8

\* An action runs, and its result is appended.
LEMMA RunActionKeeps == ASSUME HandlerInv, RunAction PROVE HandlerInv'
  <1>1. /\ phase = "action" /\ at.action <= Len(command.aliases[at.alias].actions)
        /\ UNCHANGED <<command, reported>>
    BY DEF RunAction
  <1>2. PICK before \in Seq(Seq(Results)), last \in Seq(Results) :
          InAlias(before, last, command, ran, at, FlattenSeq(kii.body))
    BY <1>1 DEF HandlerInv, AtAction
  <1>3. /\ ran = Append(before, last) /\ Len(before) \in Nat /\ Len(last) \in Nat
        /\ at = [alias |-> Len(before) + 1, action |-> Len(last) + 1]
        /\ Len(before) + 1 <= Len(command.aliases)
        /\ EveryRun(before, command) /\ FlattenSeq(kii.body) = Partial(before, last)
    BY <1>2 DEF InAlias
  <1> DEFINE n == Len(before) + 1
             actions == command.aliases[n].actions
  <1>4. /\ n \in 1 .. Len(command.aliases) /\ DOMAIN command.aliases = 1 .. Len(command.aliases)
        /\ Len(actions) \in Nat /\ DOMAIN actions = 1 .. Len(actions)
    BY <1>1, <1>3 DEF HandlerInv, CheckedInv, Shaped
  <1>5. Len(last) + 1 \in 1 .. Len(actions)
    BY <1>1, <1>3, <1>4
  <1>6. command.aliases[at.alias].actions[at.action] # "malformed"
    BY <1>1, <1>3, <1>4, <1>5 DEF HandlerInv, CheckedInv, _walk_command
  <1>7. PICK result \in {"done", "failed"} :
          /\ ran' = [ran EXCEPT ![at.alias] = Append(@, result)]
          /\ \/ Appends(ActionResult(at.alias, at.action, result), "action")
             \/ /\ ApiCancel
                /\ \E code \in {"PARSE_JSON", "TOO_LARGE_DATA"} : Returns(code)
    BY <1>6 DEF RunAction
  <1>8. at' = [at EXCEPT !.action = @ + 1]
    BY <1>6 DEF RunAction
  <1> DEFINE part == ActionResult(at.alias, at.action, result)
             more == Append(last, result)
  <1>9. result \in Results /\ more \in Seq(Results) /\ Len(more) = Len(last) + 1
    BY DEF Results
  <1>10. part \in Seq(Tokens)
    <2>1. <<result>> \in Seq(Tokens)
      BY <1>9, PartsAreTokens
    <2>2. "comma" \in Tokens /\ result \in Tokens
      BY <1>9 DEF Tokens, Results
    <2>3. <<"comma", result>> \in Seq(Tokens)
      BY <2>2
    <2>4. QED
      BY <2>1, <2>3 DEF ActionResult
  <1>11. CASE Appends(part, "action")
    <2>1. \/ phase' = "action" /\ PartWritten(part)
          \/ phase' = "done" /\ told' # "OK" /\ DOMAIN kii' = KiiFields
      <3> HIDE DEF part
      <3>1. QED
        BY <1>1, <1>10, <1>11, AppendsPart
    <2>2. CASE phase' = "action" /\ PartWritten(part)
      <3>1. ran' = Append(before, more)
        <4> DEFINE a == Append(before, last)
                   b == Append(before, more)
        <4>1. /\ a \in Seq(Seq(Results)) /\ Len(a) = n /\ a[n] = last
              /\ \A i \in 1 .. Len(before) : a[i] = before[i]
          BY <1>3
        <4>2. /\ b \in Seq(Seq(Results)) /\ Len(b) = n /\ b[n] = more
              /\ \A i \in 1 .. Len(before) : b[i] = before[i]
          BY <1>3, <1>9
        <4>3. ran' = [a EXCEPT ![n] = Append(@, result)]
          BY <1>3, <1>7
        <4> HIDE DEF a, b
        <4>4. a = [i \in 1 .. n |-> a[i]] /\ b = [i \in 1 .. n |-> b[i]]
          BY <4>1, <4>2
        <4>5. ASSUME NEW i \in 1 .. n, i # n PROVE a[i] = b[i]
          <5>1. i \in 1 .. Len(before)
            BY <1>3, <4>5
          <5>2. QED
            BY <4>1, <4>2, <5>1
        <4>6. ran' = [i \in 1 .. n |-> IF i = n THEN Append(a[n], result) ELSE a[i]]
          BY <4>3, <4>4
        <4>7. QED
          BY <4>1, <4>2, <4>4, <4>5, <4>6 DEF b
      <3>2. at' = [alias |-> Len(before) + 1, action |-> Len(more) + 1]
        BY <1>3, <1>8, <1>9
      <3>3. FlattenSeq(kii'.body) = Partial(before, more)
        <4>1. part = ActionResult(at.alias, Len(last) + 1, result)
          BY <1>3
        <4>2. Partial(before, more) = Partial(before, last) \o part
          BY <1>9, <4>1, PartialRuns
        <4>3. QED
          BY <1>3, <2>2, <4>2 DEF PartWritten
      <3>4. EveryRun(before, command') /\ command' = command
        BY <1>1, <1>3
      <3>5. InAlias(before, more, command', ran', at', FlattenSeq(kii'.body))
        BY <1>1, <1>3, <1>5, <1>9, <3>1, <3>2, <3>3, <3>4 DEF InAlias
      <3>6. AtAction'
        BY <1>9, <3>5 DEF AtAction
      <3> HIDE DEF part
      <3>7. QED
        BY <1>1, <2>2, <3>6, WrittenKeeps
    <2>3. CASE phase' = "done" /\ told' # "OK" /\ DOMAIN kii' = KiiFields
      BY <1>1, <2>3, GivesUp
    <2>4. QED
      BY <2>1, <2>2, <2>3
  <1>12. CASE ApiCancel /\ \E code \in {"PARSE_JSON", "TOO_LARGE_DATA"} : Returns(code)
    <2>1. phase' = "done" /\ told' # "OK"
      BY <1>12 DEF Returns
    <2>2. DOMAIN kii' = KiiFields
      BY <1>12 DEF ApiCancel, GivenUp, FreeHeaders, HandlerInv
    <2>3. QED
      BY <1>1, <2>1, <2>2, GivesUp
  <1>13. QED
    BY <1>7, <1>11, <1>12

\* An alias is closed.
LEMMA CloseAliasKeeps == ASSUME HandlerInv, CloseAlias PROVE HandlerInv'
  <1>1. /\ phase = "action" /\ at.action > Len(command.aliases[at.alias].actions)
        /\ Appends(Close, "alias") /\ at' = [alias |-> at.alias + 1, action |-> 1]
        /\ UNCHANGED <<command, ran, reported>>
    BY DEF CloseAlias
  <1>2. PICK before \in Seq(Seq(Results)), last \in Seq(Results) :
          InAlias(before, last, command, ran, at, FlattenSeq(kii.body))
    BY <1>1 DEF HandlerInv, AtAction
  <1> DEFINE n == Len(before) + 1
             actions == command.aliases[n].actions
  <1>3. /\ ran = Append(before, last) /\ Len(before) \in Nat /\ Len(last) \in Nat
        /\ at = [alias |-> n, action |-> Len(last) + 1]
        /\ n <= Len(command.aliases) /\ Len(last) <= Len(actions)
        /\ EveryRun(before, command) /\ FlattenSeq(kii.body) = Partial(before, last)
    BY <1>2 DEF InAlias
  <1>4. /\ n \in 1 .. Len(command.aliases) /\ Len(actions) \in Nat /\ Len(command.aliases) \in Nat
    BY <1>1, <1>3 DEF HandlerInv, CheckedInv, Shaped
  <1>5. Len(last) = Len(actions)
    BY <1>1, <1>3, <1>4
  <1>6. Close \in Seq(Tokens)
    BY PartsAreTokens
  <1>7. \/ phase' = "alias" /\ PartWritten(Close)
        \/ phase' = "done" /\ told' # "OK" /\ DOMAIN kii' = KiiFields
    BY <1>1, <1>6, AppendsPart
  <1>8. CASE phase' = "alias" /\ PartWritten(Close)
    <2>1. /\ ran \in Seq(Seq(Results)) /\ Len(ran) = n
          /\ ran[n] = last /\ \A i \in 1 .. Len(before) : ran[i] = before[i]
      BY <1>3
    <2>2. EveryRun(ran, command)
      <3> SUFFICES ASSUME NEW i \in 1 .. n PROVE Len(ran[i]) = Len(command.aliases[i].actions)
        BY <2>1 DEF EveryRun
      <3>1. CASE i = n
        BY <1>5, <2>1, <3>1
      <3>2. CASE i # n
        <4>1. i \in 1 .. Len(before)
          BY <1>3, <3>2
        <4>2. QED
          BY <1>3, <2>1, <4>1 DEF EveryRun
      <3>3. QED
        BY <3>1, <3>2
    <2>3. FlattenSeq(kii'.body) = ResultsOpen \o Complete(ran)
      BY <1>3, <1>8, PartialCloses DEF PartWritten
    <2>4. at' = [alias |-> Len(ran) + 1, action |-> 1]
      BY <1>1, <1>3, <2>1
    <2>5. AtAlias'
      BY <1>1, <1>3, <2>1, <2>2, <2>3, <2>4 DEF AtAlias
    <2>6. QED
      BY <1>1, <1>8, <2>5, WrittenKeeps
  <1>9. CASE phase' = "done" /\ told' # "OK" /\ DOMAIN kii' = KiiFields
    BY <1>1, <1>9, GivesUp
  <1>10. QED
    BY <1>7, <1>8, <1>9

\* The results are closed.
LEMMA CloseResultsKeeps == ASSUME HandlerInv, CloseResults PROVE HandlerInv'
  <1>1. /\ phase = "alias" /\ at.alias > Len(command.aliases) /\ Appends(Close, "run")
        /\ UNCHANGED <<command, at, ran, reported>>
    BY DEF CloseResults
  <1>2. /\ ran \in Seq(Seq(Results)) /\ at = [alias |-> Len(ran) + 1, action |-> 1]
        /\ Len(ran) \in Nat /\ Len(ran) <= Len(command.aliases)
        /\ EveryRun(ran, command) /\ FlattenSeq(kii.body) = ResultsOpen \o Complete(ran)
    BY <1>1 DEF HandlerInv, AtAlias
  <1>3. Len(command.aliases) \in Nat
    BY <1>1 DEF HandlerInv, CheckedInv, Shaped
  <1>4. Len(ran) = Len(command.aliases)
    BY <1>1, <1>2, <1>3
  <1>5. Close \in Seq(Tokens)
    BY PartsAreTokens
  <1>6. \/ phase' = "run" /\ PartWritten(Close)
        \/ phase' = "done" /\ told' # "OK" /\ DOMAIN kii' = KiiFields
    BY <1>1, <1>5, AppendsPart
  <1>7. CASE phase' = "run" /\ PartWritten(Close)
    <2>1. Rendered(ran) = (ResultsOpen \o Complete(ran)) \o Close
      BY DEF Rendered, Complete, Whole, Opened
    <2>2. FlattenSeq(kii'.body) = Rendered(ran)
      BY <1>2, <1>7, <2>1 DEF PartWritten
    <2>3. AtRun'
      <3>1. ran' = ran /\ command' = command
        BY <1>1
      <3>2. QED
        BY <1>2, <1>4, <2>2, <3>1 DEF AtRun
    <2>4. QED
      BY <1>1, <1>7, <2>3, WrittenKeeps
  <1>8. CASE phase' = "done" /\ told' # "OK" /\ DOMAIN kii' = KiiFields
    BY <1>1, <1>8, GivesUp
  <1>9. QED
    BY <1>6, <1>7, <1>8

\* The request is run: its body is all the results.
LEMMA RunKeeps == ASSUME HandlerInv, RunResultRequest PROVE HandlerInv'
  <1>1. /\ phase = "run" /\ phase' = "done" /\ reported' = sent' /\ told' = StatusCode
        /\ UNCHANGED <<command, at, ran>>
    BY DEF RunResultRequest, Returns
  <1>2. /\ DOMAIN kii = KiiFields /\ sent = {} /\ kii.reader = "kii"
        /\ _walk_command(command) /\ Shaped(command)
    BY <1>1 DEF HandlerInv, OwnRequestInv, CheckedInv
  <1>3. /\ ran \in Seq(Seq(Results)) /\ Len(ran) = Len(command.aliases)
        /\ EveryRun(ran, command) /\ FlattenSeq(kii.body) = Rendered(ran)
    BY <1>1 DEF HandlerInv, AtRun
  <1>4. _walk_command(command)'
    BY <1>1, <1>2 DEF _walk_command
  <1>5. ASSUME kii' = BodyFromBuff(FreeHeaders(kii)), UNCHANGED sent,
               NEW code \in {"TOO_LARGE_DATA", "ALLOCATION"},
               ret' = [call |-> "api_call", code |-> code]
        PROVE  HandlerInv'
    <2>1. DOMAIN kii' = KiiFields /\ reported' = {} /\ told' # "OK"
      BY <1>1, <1>2, <1>5 DEF BodyFromBuff, FreeHeaders, StatusCode
    <2>2. ResultsAreThoseRun'
      BY <1>4, <2>1 DEF ResultsAreThoseRun
    <2>3. QED
      BY <1>1, <2>1, <2>2 DEF HandlerInv, CheckedInv, OwnRequestInv, StartsInv
  <1>6. ASSUME NEW answer \in Answers, sent' = {Sent(kii)},
               ret' = [call |-> "api_call", code |-> SendCode(kii, answer)],
               kii' = BodyFromBuff(Answered(kii, "api_call", answer, {}, {}))
        PROVE  HandlerInv'
    <2>1. DOMAIN kii' = KiiFields
      BY <1>2, <1>6 DEF BodyFromBuff, Answered, FreeHeaders
    <2>2. told' = "OK" => kii'.status \in Success
      BY <1>1 DEF StatusCode
    <2>3. reported' = {Sent(kii)} /\ Sent(kii).body = kii.body
      BY <1>1, <1>2, <1>6 DEF Sent
    <2>4. \A i \in DOMAIN ran : Len(ran[i]) = Len(command.aliases[i].actions)
      BY <1>3 DEF EveryRun
    <2>5. ResultsAreThoseRun'
      <3> DEFINE r == Sent(kii)
      <3> HIDE DEF r
      <3>1. reported' = {r} /\ r.body = kii.body
        BY <2>3 DEF r
      <3>2. \A request \in reported' : FlattenSeq(request.body) = Rendered(ran')
        BY <1>1, <1>3, <3>1
      <3>3. QED
        BY <1>1, <1>3, <1>4, <2>2, <2>4, <3>1, <3>2 DEF ResultsAreThoseRun
    <2>6. QED
      BY <1>1, <2>1, <2>5 DEF HandlerInv, CheckedInv, OwnRequestInv, StartsInv
  <1>7. QED
    BY <1>5, <1>6 DEF RunResultRequest, ApiRun

\* What the handler of a command keeps.
THEOREM HandlerInvariance == TioSpec => []HandlerInv
  <1>1. TioInit => HandlerInv
    BY DEF TioInit, RequestsInit, HandlerInit, HandlerInv, CheckedInv, OwnRequestInv, StartsInv,
           ResultsAreThoseRun, KiiFields
  <1>2. HandlerInv /\ [TioNext]_tioVars => HandlerInv'
    <2> SUFFICES ASSUME HandlerInv, [TioNext]_tioVars PROVE HandlerInv'
      OBVIOUS
    <2>1. CASE \E c \in Commands : ReceivePush(c)
      BY <2>1, PushKeeps
    <2>2. CASE Handled
      BY <2>2 DEF Handled, requestsVars, HandlerInv, CheckedInv, OwnRequestInv, StartsInv,
                  ResultsAreThoseRun
    <2>3. CASE /\ phase = "idle"
               /\ \E call \in TaskCalls : CallBegins(call) \/ CallFails(call) \/ CallSent(call)
               /\ UNCHANGED handlerVars
      <3>1. DOMAIN kii' = KiiFields
        BY <2>3, CallsKeepFields DEF HandlerInv
      <3>2. phase' = "idle"
        BY <2>3 DEF handlerVars
      <3>3. QED
        BY <3>1, <3>2 DEF HandlerInv, CheckedInv, OwnRequestInv, StartsInv, ResultsAreThoseRun
    <2>4. CASE UNCHANGED tioVars
      <3>1. UNCHANGED <<kii, making, sent, phase, command, at, ran, reported, told>>
        BY <2>4 DEF tioVars, requestsVars, handlerVars
      <3>2. QED
        BY <3>1 DEF HandlerInv, CheckedInv, OwnRequestInv, StartsInv, AtAlias, AtAction, AtRun,
                    ResultsAreThoseRun, _walk_command
    <2>5. QED
      BY <2>1, <2>2, <2>3, <2>4, StartKeeps, OpenResultsKeeps, OpenAliasKeeps, RunActionKeeps,
         CloseAliasKeeps, CloseResultsKeeps, RunKeeps DEF TioNext, HandlerNext
  <1>3. QED
    BY <1>1, <1>2, PTL DEF TioSpec

\* A command is refused whole or handled whole, in its order: what is reported is every
\* result, as JSON, and OK is told only of what the server took (_check_command(),
\* _append_action_result(), _handle_command()).
THEOREM ResultsAreThoseRunCorrect == TioSpec => []ResultsAreThoseRun
  <1>1. HandlerInv => ResultsAreThoseRun
    BY DEF HandlerInv
  <1>2. QED
    BY <1>1, HandlerInvariance, PTL

=============================================================================
