----------------------------- MODULE JsonWriter -----------------------------
(***************************************************************************)
(* jkii_writer_t (jkii_writer.c): JSON, or JSON Lines, written call by     *)
(* call, into a buffer, through a callback that is given the buffer each   *)
(* time it is full, or nowhere, to count it.                               *)
(*                                                                         *)
(* Abstracted: a key is one symbol of the output and a value two, put one  *)
(* by one (a string, a number) or at once (a literal, jkii_write_raw()),   *)
(* so that a value may be cut where the buffer ends. How strings are       *)
(* escaped and numbers formatted is not modelled.                          *)
(***************************************************************************)
EXTENDS Naturals, Sequences, SequencesExt

CONSTANTS
    BuffSizes,   \* sizes of the writer's buffer
    Takes,       \* how often the callback takes the buffer before it fails
    MaxDepth,    \* JKII_WRITER_MAX_DEPTH
    MaxText      \* bound: symbols written before the application finishes

ASSUME JsonWriterAssumption ==
    /\ BuffSizes \subseteq Nat \ {0}
    /\ Takes \subseteq Nat
    /\ MaxDepth \in Nat \ {0}
    /\ MaxText \in Nat

VARIABLES
    writer,    \* jkii_writer_t; got and text are history: what the callback took or
               \* the buffer holds, and what there would be with room for it
    finished   \* jkii_writer_finish() has been called

writerVars == <<writer, finished>>

\* jkii_writer_init_buff(), with a buffer or with none, and jkii_writer_init_cb()
WriterInit ==
    /\ \E kind \in {"buff", "cb", "none"}, size \in BuffSizes, takes \in Takes :
        writer = [kind |-> kind, size |-> size, takes |-> takes, used |-> <<>>, total |-> 0,
                  err |-> "OK", levels |-> <<>>, top_done |-> FALSE, records |-> 0,
                  got |-> <<>>, text |-> <<>>]
    /\ finished = FALSE

\* An error after which nothing more is written, nor counted.
stopped(w) == w.err \notin {"OK", "TOO_LARGE"}

fail(w, err) == IF stopped(w) THEN w ELSE [w EXCEPT !.err = err]

-----------------------------------------------------------------------------
(* Output.                                                                 *)

\* _flush()
flush(w) ==
    LET empty == [w EXCEPT !.used = <<>>] IN
    IF w.used = <<>> \/ stopped(w) THEN empty
    ELSE IF w.takes = 0 THEN fail(empty, "CALLBACK")
    ELSE [empty EXCEPT !.got = @ \o w.used, !.takes = @ - 1]

\* _put()'s loop, for one byte.
Fill(w, byte) ==
    LET f == [w EXCEPT !.used = Append(@, byte)] IN
    IF stopped(w) THEN w ELSE IF Len(f.used) = w.size THEN flush(f) ELSE f

\* Mutant: no room is kept for the terminator.
FitsExactly(w, s) == Len(s) <= w.size - Len(w.used)

\* Into a buffer: room for the terminator too.
Fits(w, s) == Len(s) < w.size - Len(w.used)

\* _put()
put(w, s) ==
    LET c == [w EXCEPT !.total = @ + Len(s), !.text = @ \o s] IN
    IF stopped(w) THEN w
    ELSE IF w.kind = "cb"
    THEN LET filled[n \in 0 .. Len(s)] == IF n = 0 THEN c ELSE Fill(filled[n - 1], s[n])
         IN  filled[Len(s)]
    ELSE IF w.kind = "none" \/ w.err = "TOO_LARGE" THEN c
    ELSE IF Fits(w, s) THEN [c EXCEPT !.used = @ \o s, !.got = @ \o s]
    ELSE [c EXCEPT !.err = "TOO_LARGE"]

-----------------------------------------------------------------------------
(* Where a value, a key or an end can go.                                  *)

Top(w) == w.levels[Len(w.levels)]
SetTop(w, level) == [w EXCEPT !.levels[Len(w.levels)] = level]
PutComma(w) == IF Top(w).has_member THEN put(w, <<"comma">>) ELSE w

\* _begin_value()
_begin_value(w) ==
    IF stopped(w) \/ (w.levels = <<>> /\ ~w.top_done) THEN w
    ELSE IF w.levels = <<>> \/ (Top(w).object /\ ~Top(w).after_key) THEN fail(w, "STRUCTURE")
    ELSE IF Top(w).object THEN SetTop(w, [Top(w) EXCEPT !.after_key = FALSE])
    ELSE SetTop(PutComma(w), [Top(w) EXCEPT !.has_member = TRUE])

\* _end_value()
_end_value(w) == IF w.levels = <<>> /\ ~stopped(w) THEN [w EXCEPT !.top_done = TRUE] ELSE w

-----------------------------------------------------------------------------
(* The calls: one of a writer that is stopped changes nothing.             *)

WriterCalled == ~finished /\ ~stopped(writer) /\ Len(writer.text) < MaxText /\ UNCHANGED finished

\* What begins and ends an object, or an array.
BeginOf(object) == IF object THEN "object" ELSE "array"
EndOf(object) == IF object THEN "object_end" ELSE "array_end"

\* _start(), of an object or an array
WriteStart(object) ==
    LET w == _begin_value(writer) IN
    /\ WriterCalled
    /\ writer' =
        IF stopped(w) THEN w
        ELSE IF Len(w.levels) = MaxDepth THEN fail(w, "TOO_DEEP")
        ELSE put([w EXCEPT !.levels =
                     Append(@, [object |-> object, has_member |-> FALSE, after_key |-> FALSE])],
                 <<BeginOf(object)>>)

\* _end()
WriteEnd(object) ==
    /\ WriterCalled
    /\ writer' =
        IF writer.levels = <<>> \/ Top(writer).object # object \/ Top(writer).after_key
        THEN fail(writer, "STRUCTURE")
        ELSE _end_value(put([writer EXCEPT !.levels = Front(@)], <<EndOf(object)>>))

\* jkii_write_key()
WriteKey ==
    /\ WriterCalled
    /\ writer' =
        IF writer.levels = <<>> \/ ~Top(writer).object \/ Top(writer).after_key
        THEN fail(writer, "STRUCTURE")
        ELSE LET w == SetTop(PutComma(writer),
                             [Top(writer) EXCEPT !.has_member = TRUE, !.after_key = TRUE])
             IN  put(put(w, <<"k">>), <<"colon">>)

\* jkii_write_key() of NULL, and a value that JSON can't hold, or NULL: refused before
\* where it stands is looked at.
WriteRefused ==
    /\ WriterCalled
    /\ writer' = fail(writer, "VALUE")

\* jkii_write_string(), _int(), _uint() and _double(); and _bool(), _null() and _raw(),
\* which put what they write at once.
WriteValue(at_once) ==
    LET w == _begin_value(writer) IN
    /\ WriterCalled
    /\ writer' = IF stopped(w) THEN w
                 ELSE _end_value(IF at_once THEN put(w, <<"v", "w">>)
                                 ELSE put(put(w, <<"v">>), <<"w">>))

\* jkii_write_record_end()
WriteRecordEnd ==
    /\ WriterCalled
    /\ writer' = IF writer.levels # <<>> \/ ~writer.top_done THEN fail(writer, "STRUCTURE")
                 ELSE [put(writer, <<"LF">>) EXCEPT !.top_done = FALSE, !.records = @ + 1]

\* jkii_writer_finish(): the callback is given what is left, unless it failed.
WriterFinish ==
    LET w == IF /\ ~stopped(writer)
                /\ writer.levels # <<>> \/ (~writer.top_done /\ writer.records = 0)
             THEN fail(writer, "STRUCTURE") ELSE writer
    IN  /\ ~finished
        /\ finished' = TRUE
        /\ writer' = IF w.kind = "cb" THEN flush(w) ELSE w

WriterNext ==
    \/ \E object \in BOOLEAN : WriteStart(object) \/ WriteEnd(object)
    \/ WriteKey
    \/ WriteRefused
    \/ \E at_once \in BOOLEAN : WriteValue(at_once)
    \/ WriteRecordEnd
    \/ WriterFinish

WriterSpec == WriterInit /\ [][WriterNext]_writerVars

-----------------------------------------------------------------------------
(* Properties.                                                             *)

\* JSON Lines, read from the left: what may come next, and what is open around it.
ValueStarts == {"object", "array", "v"}

ReadSymbol(s, symbol) ==
    LET after(t) ==
            [t EXCEPT !.expects = IF t.open = <<>> THEN {"LF"} ELSE {"comma", Last(t.open)}]
        opened(close, first) == [open |-> Append(s.open, close), expects |-> first \cup {close}]
    IN  IF symbol \notin s.expects THEN [s EXCEPT !.expects = {}]
        ELSE CASE symbol = "object" -> opened("object_end", {"k"})
               [] symbol = "array" -> opened("array_end", ValueStarts)
               [] symbol \in {"object_end", "array_end"} -> after([s EXCEPT !.open = Front(@)])
               [] symbol = "k" -> [s EXCEPT !.expects = {"colon"}]
               [] symbol = "v" -> [s EXCEPT !.expects = {"w"}]
               [] symbol = "w" -> after(s)
               [] symbol = "comma" /\ Last(s.open) = "object_end" -> [s EXCEPT !.expects = {"k"}]
               [] OTHER -> [s EXCEPT !.expects = ValueStarts]

ReadText(s) ==
    LET readTo[n \in 0 .. Len(s)] ==
            IF n = 0 THEN [open |-> <<>>, expects |-> ValueStarts]
            ELSE ReadSymbol(readTo[n - 1], s[n])
    IN  readTo[Len(s)]

IsJsonLines(s) ==
    LET end == ReadText(s)
    IN  /\ s # <<>>
        /\ end.open = <<>>
        /\ end.expects = {"LF"} \/ (Last(s) = "LF" /\ end.expects # {})

\* Whatever calls were made, in whatever order, a writer that finishes without an error
\* has given out JSON, all of it and nothing twice, however its parts fell on the ends
\* of its buffer; one that ran out of buffer holds the start of it, terminated, and says
\* how much would do (_put(), _begin_value(), jkii_writer_finish()).
WritesJson ==
    /\ finished /\ ~stopped(writer) =>
            IsJsonLines(writer.text) /\ writer.total = Len(writer.text)
    /\ finished /\ writer.err = "OK" => writer.kind = "none" \/ writer.got = writer.text
    /\ IsPrefix(writer.got, writer.text)
    /\ writer.kind = "buff" => Len(writer.got) < writer.size
    /\ writer.err = "TOO_LARGE" => writer.total >= writer.size

=============================================================================
