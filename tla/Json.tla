-------------------------------- MODULE Json --------------------------------
(***************************************************************************)
(* jkii_parse() (jkii.c): the values of an array of fields, found in a     *)
(* document by name or by path, and converted to what each field asks for. *)
(* The application may parse into an array again, as the last call left    *)
(* it.                                                                     *)
(*                                                                         *)
(* Abstracted: a document is the tree coreJSON reads it as (external), a   *)
(* value its type, the number or the content it stands for, and how long   *)
(* it is written. The two widths of integers are constants. field_copy, a  *)
(* union, is the pointer it holds (string: NULL, to the field's buffer, or *)
(* what a number has left there), and the number or content last written   *)
(* through it (copy). Where a value is in the document (start, end) is     *)
(* left out.                                                               *)
(***************************************************************************)
EXTENDS Integers, Sequences, FiniteSets, SequencesExt

CONSTANTS
    Documents,    \* what the application may parse
    FieldArrays,  \* arrays of fields it may set up
    Int32Max, Int64Max,
    DoubleSize,   \* DOUBLEBUFSIZE
    PointLen,     \* bytes of the locale's decimal point
    MaxParses     \* bound: calls of jkii_parse()

ASSUME JsonAssumption ==
    /\ Int32Max \in Nat /\ Int64Max \in Nat /\ Int32Max < Int64Max
    /\ DoubleSize \in Nat /\ PointLen \in Nat
    /\ MaxParses \in Nat

VARIABLES
    fields,    \* jkii_field_t[]
    wanted,    \* history: the types the application set the fields up with
    document,  \* the document parsed last
    parsed,    \* what jkii_parse() returned, "" before
    parses,    \* how often it was called
    strayed    \* history: it copied to where no buffer is

jsonVars == <<fields, wanted, document, parsed, parses, strayed>>

Containers == {"OBJECT", "ARRAY"}
Copied == Containers \cup {"STRING"}
Integral == {"INTEGER", "LONG"}

-----------------------------------------------------------------------------
(* Numbers.                                                                *)

Int32Min == -Int32Max - 1
Int64Min == -Int64Max - 1

\* _jkii_to_int64(), of an integer as JSON writes one
_jkii_to_int64(n) ==
    IF n > Int64Max THEN [res |-> "NUM_OVERFLOW", value |-> Int64Max]
    ELSE IF n < Int64Min THEN [res |-> "NUM_UNDERFLOW", value |-> Int64Min]
    ELSE [res |-> "OK", value |-> n]

_jkii_integer_type(integer) ==
    IF integer.res = "OK" /\ integer.value \in Int32Min..Int32Max THEN "INTEGER" ELSE "LONG"

\* Mutant: the upper bits are dropped.
NarrowTruncating(integer) ==
    [res |-> integer.res, value |-> ((integer.value - Int32Min) % (2 * Int32Max + 2)) + Int32Min]

_jkii_narrow_to_int32(integer) ==
    IF integer.res = "NUM_OVERFLOW" \/ integer.value > Int32Max
    THEN [res |-> "NUM_OVERFLOW", value |-> Int32Max]
    ELSE IF integer.res = "NUM_UNDERFLOW" \/ integer.value < Int32Min
    THEN [res |-> "NUM_UNDERFLOW", value |-> Int32Min]
    ELSE integer

\* What strtod() says of a number it reads to its end (external): ERANGE for what is
\* past a double's range, what rounds to 0, and, as glibc has it, a subnormal.
Erange(v) == v.range # "normal"

\* _jkii_to_double(), of a number of len bytes, with room for a terminator and for the
\* locale's decimal point in place of its dot.
_jkii_to_double(v) ==
    [res |-> IF v.len >= DoubleSize \/ (v.dot /\ v.len - 1 + PointLen >= DoubleSize)
             THEN "INVALID"
             ELSE IF ~Erange(v) THEN "OK"
             ELSE IF v.n = 0 THEN "NUM_UNDERFLOW" ELSE "NUM_OVERFLOW",
     value |-> v.n]

\* _jkii_to_jkii_field_type(): a number too long to read as a double has no type.
_jkii_to_jkii_field_type(v) ==
    IF v.type # "NUMBER" THEN v.type
    ELSE IF v.integer THEN _jkii_integer_type(_jkii_to_int64(v.n))
    ELSE IF v.len <= DoubleSize THEN "DOUBLE" ELSE "ANY"

-----------------------------------------------------------------------------
(* Looking values up.                                                      *)

NotFound == <<>>

\* The first member with the key, as _jkii_find_member_by_name() and _jkii_is_same_key()
\* compare it, or the element of the index; of a value of the other kind, none.
ValueAt(v, segment) ==
    LET found == {i \in DOMAIN v.kids : IF v.type = "OBJECT" THEN v.kids[i].key = segment.key
                                        ELSE i = segment.index + 1}
    IN  IF v.type # segment.in \/ found = {} THEN NotFound
        ELSE <<v.kids[CHOOSE i \in found : \A j \in found : i <= j].value>>

\* _jkii_find_by_path(), and by name, which is a path of one key. A segment that
\* _jkii_get_target() can't read leads nowhere.
_jkii_find_by_path(root, path) ==
    FoldLeft(LAMBDA at, segment : IF at = NotFound THEN NotFound ELSE ValueAt(at[1], segment),
             <<root>>, path)

-----------------------------------------------------------------------------
(* Fields.                                                                 *)

\* _jkii_string_copy(): room for the terminator too.
CopyFits(f, v) == f.size > v.len

\* field_copy.string after a number was written to the union, and what it may be read
\* as: undefined after a number other than 0, and after 0 NULL if all its bytes are.
AfterNumber(f, n) == IF n = 0 /\ f.string = "NULL" THEN "NULL" ELSE "number"
Pointers == {"NULL", "buffer", "stray"}
PointersOf(f) ==
    IF f.string # "number" THEN {f.string}
    ELSE IF f.copy = 0 THEN {"NULL", "stray"} ELSE {"stray"}

\* _jkii_convert_value_to_field(), where string is read as pointer: the field, and what
\* comes of the call. It is invalid only where the value has no type or reads as none,
\* and then the call ends there.
_jkii_convert_value_to_field(f, v, pointer) ==
    LET type == _jkii_to_jkii_field_type(v)
        wants == IF f.type = "ANY" THEN type ELSE f.type
        typed == [f EXCEPT !.type = wants]
        Converted(number) ==
            [typed EXCEPT !.result = number.res, !.copy = number.value,
                          !.string = AfterNumber(f, number.value)]
        Matched(copy, string) ==
            [typed EXCEPT !.result = "OK", !.copy = copy, !.string = string]
        long == _jkii_to_int64(v.n)
        double == _jkii_to_double(v)
        invalid == type = "ANY"
                     \/ (wants = "DOUBLE" /\ type = "DOUBLE" /\ double.res = "INVALID")
    IN  [invalid |-> invalid,
         strays |-> wants = type /\ type \in Copied /\ pointer = "stray" /\ CopyFits(f, v),
         field |->
            IF type = "ANY" THEN f
            ELSE IF invalid THEN [typed EXCEPT !.result = "NUM_UNDERFLOW"]
            ELSE IF wants \in Integral /\ type \in Integral
            THEN Converted(IF wants = "INTEGER" THEN _jkii_narrow_to_int32(long) ELSE long)
            ELSE IF wants # type THEN [f EXCEPT !.type = type, !.result = "TYPE_MISMATCH"]
            ELSE IF wants = "DOUBLE" THEN Converted(double)
            ELSE IF wants = "BOOLEAN" THEN Converted([res |-> "OK", value |-> v.n])
            ELSE IF wants = "NULL" THEN Matched(f.copy, f.string)
            ELSE IF pointer = "NULL" THEN Matched(f.copy, "NULL")
            ELSE IF ~CopyFits(f, v) THEN [typed EXCEPT !.result = "COPY"]
            ELSE IF pointer = "buffer" THEN Matched(v.n, "buffer")
            ELSE Matched(f.copy, f.string)]

\* _jkii_parse_fields(), as far as a field
ParseField(root, a, f, pointer) ==
    LET at == _jkii_find_by_path(root, f.path)
        c == _jkii_convert_value_to_field(f, at[1], pointer)
    IN  IF a.ret = "INVALID_INPUT" THEN [a EXCEPT !.fields = Append(@, f)]
        ELSE IF at = NotFound
        THEN [ret |-> "PARTIAL", fields |-> Append(a.fields, [f EXCEPT !.result = "NOT_FOUND"]),
              strays |-> a.strays]
        ELSE [ret |-> IF c.invalid THEN "INVALID_INPUT"
                      ELSE IF c.field.result = "OK" THEN a.ret ELSE "PARTIAL",
              fields |-> Append(a.fields, c.field),
              strays |-> a.strays \/ c.strays]

\* jkii_parse(): what isn't JSON, or is neither an object nor an array, is refused.
ParseOf(root, fs, pointers) ==
    IF root.type \notin Containers
    THEN [ret |-> "INVALID_INPUT", fields |-> fs, strays |-> FALSE]
    ELSE LET read[n \in 0 .. Len(fs)] ==
                IF n = 0 THEN [ret |-> "OK", fields |-> <<>>, strays |-> FALSE]
                ELSE ParseField(root, read[n - 1], fs[n], pointers[n])
         IN  read[Len(fs)]

\* Fields, and what may be found for them. The application sets one up with a pointer
\* where its type says that it is one, and with anything elsewhere.
FieldTypes ==
    {"ANY", "INTEGER", "LONG", "DOUBLE", "BOOLEAN", "NULL", "STRING", "OBJECT", "ARRAY"}
IsField(f) ==
    /\ DOMAIN f = {"path", "type", "size", "result", "copy", "string"}
    /\ f.type \in FieldTypes /\ f.size \in Nat /\ f.copy \in Int
    /\ f.string \in {"NULL", "buffer", "number"}
HoldsPointer(f) == f.type \in Copied \cup {"ANY"} => f.string # "number"
IsValue(v) ==
    /\ v.type \in Containers \cup {"STRING", "NUMBER", "BOOLEAN", "NULL"}
    /\ v.n \in Int /\ v.len \in Nat /\ v.integer \in BOOLEAN /\ v.dot \in BOOLEAN
    /\ v.range \in {"normal", "subnormal", "tiny", "huge"}
    /\ v.range # "normal" => (v.range = "tiny" <=> v.n = 0)

ASSUME FieldsAssumption ==
    \A fs \in FieldArrays :
        /\ fs \in Seq(Range(fs))
        /\ \A f \in Range(fs) :
            /\ IsField(f) /\ HoldsPointer(f)
            /\ \A d \in Documents :
                LET at == _jkii_find_by_path(d, f.path) IN at # NotFound => IsValue(at[1])

JsonInit ==
    /\ fields \in FieldArrays
    /\ wanted = [i \in DOMAIN fields |-> fields[i].type]
    /\ document \in Documents
    /\ parsed = ""
    /\ parses = 0
    /\ strayed = FALSE

\* After a copy to where no buffer is nothing more can be said.
jkii_parse ==
    /\ parses < MaxParses /\ ~strayed
    /\ parses' = parses + 1
    /\ \E d \in Documents, pointers \in [DOMAIN fields -> Pointers] :
        LET parse == ParseOf(d, fields, pointers) IN
        /\ \A i \in DOMAIN fields : pointers[i] \in PointersOf(fields[i])
        /\ document' = d
        /\ parsed' = parse.ret
        /\ fields' = parse.fields
        /\ strayed' = parse.strays
    /\ UNCHANGED wanted

JsonNext == jkii_parse

JsonSpec == JsonInit /\ [][JsonNext]_jsonVars

-----------------------------------------------------------------------------
(* Properties.                                                             *)

\* What has to be found for a field for its result to be right: an integer that is the
\* value's, or past the width on the side that is said, or a value of the field's type
\* that is copied whole if it is copied.
IntegerIsRight(f, n) ==
    LET max == IF f.type = "INTEGER" THEN Int32Max ELSE Int64Max
    IN  \/ f.result = "OK" /\ f.copy = n
        \/ f.result = "NUM_OVERFLOW" /\ n > max /\ f.copy = max
        \/ f.result = "NUM_UNDERFLOW" /\ n < -max - 1 /\ f.copy = -max - 1

\* jkii.h:278-283 has a double that overflowed hold plus or minus HUGE_VAL, but a
\* subnormal is reported so as well (jkii.c:545-553).
DoubleIsRight(f, v) ==
    /\ f.copy = v.n
    /\ f.result = CASE v.range = "normal" -> "OK" [] v.range = "tiny" -> "NUM_UNDERFLOW"
                     [] OTHER -> "NUM_OVERFLOW"

ValueIsRight(f, v) ==
    \/ f.type = "BOOLEAN" /\ f.copy = v.n
    \/ f.type = "NULL"
    \/ f.type \in Copied /\ f.string = "NULL"
    \/ f.type \in Copied /\ f.string = "buffer" /\ f.copy = v.n /\ f.size > v.len

ResultIsRight(f, at) ==
    IF at = NotFound THEN f.result = "NOT_FOUND"
    ELSE LET v == at[1] IN
        \/ f.result = "TYPE_MISMATCH" /\ f.type = _jkii_to_jkii_field_type(v)
        \/ f.type \in Integral /\ v.type = "NUMBER" /\ v.integer /\ IntegerIsRight(f, v.n)
        \/ f.type = "DOUBLE" /\ v.type = "NUMBER" /\ ~v.integer /\ DoubleIsRight(f, v)
        \/ f.type = v.type /\ f.result = "COPY" /\ f.size <= v.len
        \/ f.type = v.type /\ f.result = "OK" /\ ValueIsRight(f, v)

\* Whatever array is parsed into, one just set up or one that an earlier call left with
\* other types in it, and whatever is in the document: a field that is said to have been
\* read has the document's value, whole and of the field's type; an integer past the
\* width asked for is reported and saturated, never cut down; JKII_ERR_OK means that
\* all of them were read, and JKII_ERR_PARTIAL that one wasn't (jkii_parse(),
\* _jkii_convert_value_to_field(), _jkii_narrow_to_int32()). A type that was asked for and
\* not found is only reported once: the field holds the type found from then on, and with
\* it, where the union held a number, a pointer that isn't one. So only in an array just
\* set up is it certain that no copy goes astray (strayed), and no more is said of an
\* array after one has.
FieldsAreTheDocuments ==
    /\ strayed => parses > 1
    /\ ~strayed =>
        /\ parsed \in {"OK", "PARTIAL"} => \A i \in DOMAIN fields :
                ResultIsRight(fields[i], _jkii_find_by_path(document, fields[i].path))
        /\ parsed = "OK" => \A i \in DOMAIN fields : fields[i].result = "OK"
        /\ parsed = "PARTIAL" => \E i \in DOMAIN fields : fields[i].result # "OK"
        /\ parses = 1 /\ parsed = "OK" => \A i \in DOMAIN fields :
                wanted[i] = "ANY" \/ wanted[i] = fields[i].type

=============================================================================
