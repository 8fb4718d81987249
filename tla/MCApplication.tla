--------------------------- MODULE MCApplication ---------------------------
(***************************************************************************)
(* An instance of what the application calls and what is done for it       *)
(* beside the session: the clock, requests, the handler of commands, the   *)
(* updater of the state, and the JSON and dates they are made of;          *)
(* whichever part is.                                                      *)
(***************************************************************************)
EXTENDS Clock, TioHandler, TioUpdater, JsonWriter, JsonLines, Json, Dates, TLC

VARIABLE part

\* Tasks only take the clock's lock, and are alike.
Alike == Permutations(Tasks)

\* bound: parts of the body of a call that the application puts together
AppParts == 2

Value(type, n, len, kids) ==
    [type |-> type, n |-> n, len |-> len, kids |-> kids, integer |-> FALSE, dot |-> FALSE,
     range |-> "normal"]
Integer(n) == [Value("NUMBER", n, 1, <<>>) EXCEPT !.integer = TRUE]
Double(len, range) ==
    [Value("NUMBER", IF range = "tiny" THEN 0 ELSE 7, len, <<>>) EXCEPT !.range = range]
String(len) == Value("STRING", 8, len, <<>>)
Object(members) == Value("OBJECT", 9, 2, members)
Array(elements) ==
    Value("ARRAY", 9, 2, [i \in DOMAIN elements |-> [key |-> "", value |-> elements[i]]])
Member(key, value) == [key |-> key, value |-> value]

\* Integers at both ends of either width, doubles as long as any and longer, with a dot
\* and without, and of every range, strings about the size of the buffer, and the rest.
Leaves ==
    {Integer(n) : n \in {0, 3, 4, -4, -5, 15, 16, -16, -17}}
        \cup {Double(len, "normal") : len \in {3, 4, 5}}
        \cup {[Double(len, "normal") EXCEPT !.dot = TRUE] : len \in {2, 3}}
        \cup {Double(1, range) : range \in {"subnormal", "tiny", "huge"}}
        \cup {String(len) : len \in {2, 3}}
        \cup {Value("BOOLEAN", 1, 4, <<>>), Value("NULL", 0, 4, <<>>)}

\* One of each conversion, for those inside an array.
Elements ==
    {Integer(4), Double(4, "normal"), String(2), Value("BOOLEAN", 1, 4, <<>>),
     Value("NULL", 0, 4, <<>>)}

\* Each with the value under "a", twice, or in an array, or without it.
MCDocuments ==
    {Object(<<Member("b", Integer(1)), Member("a", v), Member("a", Integer(2))>>) : v \in Leaves}
        \cup {Object(<<Member("a", Array(<<String(2), v>>)), Member("b", String(1))>>) :
                v \in Elements}
        \cup {Object(<<>>), Array(<<Object(<<>>)>>), Integer(0)}

Key(key) == [in |-> "OBJECT", key |-> key, index |-> 0]
Index(index) == [in |-> "ARRAY", key |-> "", index |-> index]
Field(path, type, size, string) ==
    [path |-> path, type |-> type, size |-> size, result |-> "unset", copy |-> 0,
     string |-> string]
FieldArray(field) == <<field, Field(<<Key("b")>>, "ANY", 0, "NULL")>>

\* With a buffer, with one of no size, without one, or with whatever was there.
MCFieldArrays ==
    {FieldArray(Field(path, type, 3, "buffer")) :
        path \in {<<Key("a")>>, <<Key("a"), Index(1)>>}, type \in FieldTypes}
    \cup {FieldArray(Field(<<Key("a")>>, type, 0, "buffer")) : type \in {"ANY", "STRING"}}
    \cup {FieldArray(Field(<<Key("a")>>, type, 3, "NULL")) : type \in FieldTypes}
    \cup {FieldArray(Field(<<Key("a")>>, "INTEGER", 3, "number"))}

OneFieldArray == FieldArray(Field(<<Key("a")>>, "ANY", 3, "buffer"))

clockAndRequestVars == <<vars, tioVars, updaterVars>>
dataVars == <<writerVars, linesVars, jsonVars, calendar>>
applicationVars == <<part, clockAndRequestVars, dataVars>>

\* What is not part of what runs has one state.
MCInit ==
    /\ part \in {"clock", "requests", "handler", "updater", "writer", "lines", "json", "dates"}
    /\ Init
    /\ part = "clock" \/ exact_for = 0
    /\ TioInit
    /\ part = "requests" \/ use_m_0
    /\ UpdaterInit
    /\ WriterInit
    /\ part = "writer" \/ (writer.kind = "none" /\ writer.size = 1 /\ writer.takes = 0)
    /\ LinesInit
    /\ part = "lines" \/ (input = <<>> /\ reader.size = 1)
    /\ JsonInit
    /\ document = Object(<<>>)
    /\ part = "json" \/ fields = OneFieldArray
    /\ CalendarInit

\* The writer is finished, the documents are parsed and the calendar is at its end.
AtItsEnd ==
    \/ part = "writer" /\ finished
    \/ part = "json" /\ (parses = MaxParses \/ strayed)
    \/ part = "dates" /\ calendar.days = LastDay

MCNext ==
    /\ UNCHANGED part
    /\ \/ /\ part = "clock" /\ Next
          /\ UNCHANGED <<tioVars, updaterVars, dataVars>>
       \/ /\ part = "requests" /\ RequestsNext /\ Len(kii'.body) <= AppParts
          /\ UNCHANGED <<vars, handlerVars, updaterVars, dataVars>>
       \/ /\ part = "handler" /\ TioNext
          /\ UNCHANGED <<vars, updaterVars, dataVars>>
       \/ /\ part = "updater" /\ UpdaterNext
          /\ UNCHANGED <<vars, tioVars, dataVars>>
       \/ /\ part = "writer" /\ WriterNext
          /\ UNCHANGED <<clockAndRequestVars, linesVars, jsonVars, calendar>>
       \/ /\ part = "lines" /\ LinesNext
          /\ UNCHANGED <<clockAndRequestVars, writerVars, jsonVars, calendar>>
       \/ /\ part = "json" /\ JsonNext
          /\ UNCHANGED <<clockAndRequestVars, writerVars, linesVars, calendar>>
       \/ /\ part = "dates" /\ CalendarNext
          /\ UNCHANGED <<clockAndRequestVars, writerVars, linesVars, jsonVars>>
       \/ AtItsEnd /\ UNCHANGED <<clockAndRequestVars, dataVars>>

MCSpec == MCInit /\ [][MCNext]_applicationVars

=============================================================================
