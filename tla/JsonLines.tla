------------------------------ MODULE JsonLines ------------------------------
(***************************************************************************)
(* jkii_lines_t (jkii_lines.c): JSON Lines taken apart into records,       *)
(* however the bytes come: jkii_lines_feed() is called with a piece, and   *)
(* again with what it didn't consume, and jkii_lines_finish() at the end.  *)
(*                                                                         *)
(* Abstracted: the bytes are "x" (of a record), " " (JSON whitespace),     *)
(* "CR" and "LF".                                                          *)
(***************************************************************************)
EXTENDS Naturals, Sequences, SequencesExt

CONSTANTS
    LineBuffs,   \* sizes of the reader's buffer
    MaxInput     \* bound: bytes of input

ASSUME JsonLinesAssumption == LineBuffs \subseteq Nat /\ MaxInput \in Nat

Bytes == {"x", " ", "CR", "LF"}

VARIABLES
    reader,   \* jkii_lines_t; buff is its first _len bytes
    piece,    \* what the application gives the next jkii_lines_feed()
    rest,     \* the input after piece
    input,    \* history: the whole input
    results   \* history: what the calls returned, but NEED_MORE

linesVars == <<reader, piece, rest, input, results>>

\* jkii_lines_init()
LinesInit ==
    /\ \E size \in LineBuffs :
        reader = [size |-> size, buff |-> <<>>, skipping |-> FALSE, returned |-> FALSE]
    /\ input \in BoundedSeq(Bytes, MaxInput)
    /\ rest = input
    /\ piece = <<>>
    /\ results = <<>>

-----------------------------------------------------------------------------
(* The reader.                                                             *)

_blank(s) == \A i \in DOMAIN s : s[i] \in {" ", "CR"}

\* A record given out at the last call is dropped at the next.
_drop_returned(r) == IF r.returned THEN [r EXCEPT !.buff = <<>>, !.returned = FALSE] ELSE r

\* Mutant: no room is kept for the terminator.
RoomWithoutTerminator(r) == r.size - Len(r.buff)

\* Room for the terminator too.
RoomLeft(r) == IF r.size > 0 THEN r.size - 1 - Len(r.buff) ELSE 0

\* The part of a record up to the end of the piece, or to the '\n'.
Kept(r, part) ==
    IF r.skipping \/ part = <<>> THEN r
    ELSE IF Len(part) > RoomLeft(r) THEN [r EXCEPT !.skipping = TRUE, !.buff = <<>>]
    ELSE [r EXCEPT !.buff = @ \o part]

WithoutCR(s) == IF s # <<>> /\ Last(s) = "CR" THEN Front(s) ELSE s

\* _take_record(): the record, unless it is blank. The reader is left with it.
Taken(r) ==
    IF _blank(WithoutCR(r.buff)) THEN [r EXCEPT !.buff = <<>>]
    ELSE [r EXCEPT !.buff = WithoutCR(@), !.returned = TRUE]

\* A call's result, if it is one: a record that was too long, or one that was taken.
LineResult(r, what) ==
    IF r.skipping
    THEN /\ reader' = [r EXCEPT !.skipping = FALSE, !.buff = <<>>]
         /\ results' = Append(results, <<"TOO_LONG">>)
    ELSE /\ reader' = Taken(r)
         /\ results' = IF Taken(r).returned THEN Append(results, <<what, WithoutCR(r.buff)>>)
                       ELSE results

\* The application reads some more of the input.
LinesRead ==
    /\ piece = <<>>
    /\ \E n \in 1..Len(rest) :
        /\ piece' = SubSeq(rest, 1, n)
        /\ rest' = SubSeq(rest, n + 1, Len(rest))
    /\ UNCHANGED <<reader, input, results>>

\* jkii_lines_feed(), as far as the end of a line: it returns there, or goes on when the
\* line was blank.
LinesFeedLine ==
    \E n \in DOMAIN piece :
        /\ piece[n] = "LF" /\ \A i \in 1..(n - 1) : piece[i] # "LF"
        /\ LineResult(Kept(_drop_returned(reader), SubSeq(piece, 1, n - 1)), "RECORD")
        /\ piece' = SubSeq(piece, n + 1, Len(piece))
        /\ UNCHANGED <<rest, input>>

\* jkii_lines_feed() of the start of a line: JKII_LINES_NEED_MORE.
LinesFeedPart ==
    /\ piece # <<>> /\ \A i \in DOMAIN piece : piece[i] # "LF"
    /\ reader' = Kept(_drop_returned(reader), piece)
    /\ piece' = <<>>
    /\ UNCHANGED <<rest, input, results>>

\* jkii_lines_finish(): called until it returns JKII_LINES_END.
LinesFinish ==
    /\ piece = <<>> /\ rest = <<>>
    /\ LineResult(_drop_returned(reader), "TRUNCATED")
    /\ UNCHANGED <<piece, rest, input>>

LinesNext == LinesRead \/ LinesFeedLine \/ LinesFeedPart \/ LinesFinish

LinesSpec == LinesInit /\ [][LinesNext]_linesVars

-----------------------------------------------------------------------------
(* Properties.                                                             *)

\* What a line of the input stands for, given what ends it.
ResultOf(size, line, what) ==
    IF line # <<>> /\ Len(line) >= size THEN <<<<"TOO_LONG">>>>
    ELSE IF _blank(line) THEN <<>>
    ELSE <<<<what, WithoutCR(line)>>>>

\* What was read, and a byte more: the results of its lines, and the line it ends in.
AndByte(size, read, byte) ==
    IF byte = "LF"
    THEN [line |-> <<>>, results |-> read.results \o ResultOf(size, read.line, "RECORD")]
    ELSE [line |-> Append(read.line, byte), results |-> read.results]

\* The results of the whole input, read at once.
ResultsOf(size, s) ==
    LET read[n \in 0 .. Len(s)] ==
            IF n = 0 THEN [line |-> <<>>, results |-> <<>>]
            ELSE AndByte(size, read[n - 1], s[n])
    IN  read[Len(s)].results \o ResultOf(size, read[Len(s)].line, "TRUNCATED")

\* However the input is cut into pieces, the records are those of its lines: each once,
\* in order, whole, and without what a record before it left in the buffer. A line that
\* doesn't fit takes nothing with it but itself, and one the input ends in is never given
\* out as a record (jkii_lines_feed(), jkii_lines_finish()).
RecordsAreLines ==
    /\ IsPrefix(results, ResultsOf(reader.size, input))
    /\ reader.size > 0 => Len(reader.buff) < reader.size
    /\ (rest = <<>> /\ piece = <<>> /\ (reader.buff = <<>> \/ reader.returned) /\ ~reader.skipping)
            => results = ResultsOf(reader.size, input)

=============================================================================
