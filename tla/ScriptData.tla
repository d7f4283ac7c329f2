----------------------------- MODULE ScriptData -----------------------------
(***************************************************************************)
(* What the scripts write to an array of bytes and read from one: the      *)
(* libraries fldatawrite and fldataread, their wrappers writeArray.lua and *)
(* readArray.lua, the typed operations of WriteByteArray and               *)
(* ReadByteArray, and the parsers under lua/proto.  A byte holds BASE      *)
(* values.  A value of Lua is what the three checks of lauxlib make of it: *)
(* i, its integer; f and d, its float as a C float and as a double; s, its *)
(* text; None where the check would raise an error.  The room in the       *)
(* buffers is the subject of module BufferPool and left out here.          *)
(***************************************************************************)
EXTENDS Integers, Sequences, SequencesExt

CONSTANTS BASE,     \* values of a byte
          None

Types == {"int8", "int16", "int32", "int64", "float", "double", "string"}
IntTypes == {"int8", "int16", "int32", "int64"}
size == [int8 |-> 1, int16 |-> 2, int32 |-> 4, int64 |-> 8, float |-> 4, double |-> 8]

-----------------------------------------------------------------------------
(* The unions: an integer and its bytes in the memory of this machine.     *)

\* Least significant first.
Digits(x, w) == [k \in 1 .. w |-> (x \div BASE ^ (k - 1)) % BASE]

Memory(x, w, big) == IF big THEN Reverse(Digits(x, w)) ELSE Digits(x, w)

\* The signed integer with these bytes.
Signed(bytes, big) ==
    LET ds == IF big THEN Reverse(bytes) ELSE bytes
        w == Len(ds)
        sum[k \in 0 .. w] == IF k = 0 THEN 0 ELSE sum[k - 1] + ds[k] * BASE ^ (k - 1)
    IN IF 2 * ds[w] >= BASE THEN sum[w] - BASE ^ w ELSE sum[w]

\* The bytes go out, and come in, most significant first on every machine.
Swapped(bytes, big) == IF big THEN bytes ELSE Reverse(bytes)

-----------------------------------------------------------------------------
(* WriteByteArray, its content up to m_size.                               *)

WriteInt(array, x, w, big) == array \o Swapped(Memory(x, w, big), big)

WriteFloating(array, memory, big) == array \o Swapped(memory, big)

WriteString(array, text, big) ==
    WriteInt(array, Len(text), size["int32"], big) \o Swapped(text, big)

\* luaL_checkinteger, luaL_checknumber and luaL_checklstring.
Checked(type, value) ==
    CASE type \in IntTypes -> value.i [] type = "float" -> value.f
      [] type = "double" -> value.d [] type = "string" -> value.s

\* One call of writeArray, of a line [op, value, onArray]: the argument is checked
\* whether there is an array or not.  A double or a float is kept least significant
\* byte first, as the machine's is when it is not a big-endian one.
write(w, line, big) ==
    IF line.op \in {"reset_data", "release_data"} THEN [w EXCEPT !.array = <<>>]
    ELSE LET arg == Checked(line.op, line.value) IN
         IF arg = None THEN [w EXCEPT !.raised = TRUE]
         ELSE IF ~line.onArray THEN w
         ELSE [w EXCEPT !.array =
                   CASE line.op \in IntTypes -> WriteInt(@, arg, size[line.op], big)
                     [] line.op = "string" -> WriteString(@, arg, big)
                     [] OTHER -> WriteFloating(@, IF big THEN Reverse(arg) ELSE arg, big)]

\* What a script has written when it ends or raises an error.
RECURSIVE Writing(_, _, _)
Writing(w, script, big) ==
    IF script = <<>> \/ w.raised THEN w
    ELSE Writing(write(w, script[1], big), Tail(script), big)

Written(script, big) == Writing([array |-> <<>>, raised |-> FALSE], script, big)

-----------------------------------------------------------------------------
(* ReadByteArray: array, m_cur_pos (pos), and the values pushed so far.    *)

Piece(r, w) == SubSeq(r.array, r.pos + 1, r.pos + w)

Push(r, v, moved) == [r EXCEPT !.got = Append(@, v), !.pos = @ + moved]

\* Too few bytes: zero, and the position stays.
ReadInt(r, w, big) ==
    IF r.pos + w > Len(r.array) THEN Push(r, 0, 0)
    ELSE Push(r, Signed(Swapped(Piece(r, w), big), big), w)

ReadFloating(r, w, big) ==
    IF r.pos + w > Len(r.array) THEN Push(r, [k \in 1 .. w |-> 0], 0)
    ELSE LET memory == Swapped(Piece(r, w), big) IN
         Push(r, IF big THEN Reverse(memory) ELSE memory, w)

\* The length is read even when the text is not there.  The sum of the position and the
\* length is an int: a length that is negative or makes it overflow passes the test, and
\* a std::string of it throws or takes bytes from after the array (lost).
ReadString(r, big) ==
    LET w == size["int32"]
        half == BASE ^ w \div 2
        Sum(x, y) == ((x + y + half) % (2 * half)) - half
        len == Last(ReadInt(r, w, big).got)
        r1 == [r EXCEPT !.pos = ReadInt(r, w, big).pos] IN
    IF len = 0 \/ Sum(r1.pos, len) > Len(r.array) THEN Push(r1, <<>>, 0)
    ELSE IF len < 0 \/ r1.pos + len > Len(r.array) THEN [r1 EXCEPT !.lost = TRUE]
    ELSE Push(r1, Swapped(Piece(r1, len), big), len)

\* One call of readArray.
read(r, op, big) ==
    CASE op = "reset_data" -> [r EXCEPT !.pos = 0]
      [] op = "release_data" -> [r EXCEPT !.array = <<>>, !.pos = 0]
      [] op \in IntTypes -> ReadInt(r, size[op], big)
      [] op = "string" -> ReadString(r, big)
      [] OTHER -> ReadFloating(r, size[op], big)

RECURSIVE Reading(_, _, _)
Reading(r, script, big) ==
    IF script = <<>> \/ r.lost THEN r
    ELSE Reading(read(r, script[1], big), Tail(script), big)

Readout(array, script, big) ==
    Reading([array |-> array, pos |-> 0, got |-> <<>>, lost |-> FALSE], script, big)

\* The calls of the two parsers; what they put in the table is all but the first value.
Parse2s001 == <<"reset_data", "int32", "string">>
Parse2s10000 == <<"reset_data", "int32", "int32", "string">>

-----------------------------------------------------------------------------
(* What reading should give.                                               *)

\* A script writes on a machine that is big-endian or not, another reads what it wrote.
Result(c) == Readout(Written(c.script, c.big).array, c.reads, c.toBig)

\* A field as a reader gets it: an integer is the one of its type's range that differs
\* from the argument by a multiple of what the type can hold.
Field(line) ==
    LET half == BASE ^ size[line.op] \div 2 IN
    IF line.op \in IntTypes THEN ((line.value.i + half) % (2 * half)) - half
    ELSE Checked(line.op, line.value)

Nothing(type) ==
    CASE type \in IntTypes -> 0 [] type = "string" -> <<>>
      [] OTHER -> [k \in 1 .. size[type] |-> 0]

\* The lines that left a field: those before the first error, after the last reset.
Fields(script) ==
    LET errors == {k \in DOMAIN script :
                      script[k].op \in Types /\ Checked(script[k].op, script[k].value) = None}
        resets == {0} \cup {k \in DOMAIN script :
                              /\ script[k].op \notin Types
                              /\ \A e \in errors : k < e}
        before == CHOOSE b \in {Len(script)} \cup {e - 1 : e \in errors} : \A e \in errors : b < e
        after == CHOOSE r \in resets : \A s \in resets : s <= r
    IN SelectSeq(SubSeq(script, after + 1, before), LAMBDA line : line.onArray)

\* The values that reads should give, as far as their types are those of the fields: the
\* fields in their order, nothing after the last, and from the first again after a reset.
Expected(fields, reads) ==
    LET from(k) == {0} \cup {m \in 1 .. k - 1 : reads[m] = "reset_data"}
        field(k) == k - CHOOSE m \in from(k) : \A o \in from(k) : o <= m
        typed(k) == \/ reads[k] = "reset_data"
                    \/ field(k) > Len(fields) /\ reads[k] \in Types
                    \/ field(k) <= Len(fields) /\ fields[field(k)].op = reads[k]
        upTo == CHOOSE m \in 0 .. Len(reads) :
                    /\ \A k \in 1 .. m : typed(k)
                    /\ m < Len(reads) => ~typed(m + 1)
        values == [k \in 1 .. upTo |->
                      IF reads[k] = "reset_data" THEN None
                      ELSE IF field(k) > Len(fields) THEN Nothing(reads[k])
                      ELSE Field(fields[field(k)])]
    IN SelectSeq(values, LAMBDA v : v # None)

\* A reader gets the fields in the order in which they were written, also on a machine
\* with another byte order when none of them is a string (WriteByteArray.cpp reverses
\* a string on one kind of machine only); and whatever it reads, it stays in the array.
IsMeant(c, r) ==
    LET fields == Fields(c.script) IN
    /\ ~r.lost => r.pos \in 0 .. Len(r.array)
    /\ c.big = c.toBig \/ (\A k \in DOMAIN fields : fields[k].op # "string")
        => IsPrefix(Expected(fields, c.reads), r.got)
=============================================================================
