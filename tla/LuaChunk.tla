------------------------------- MODULE LuaChunk -------------------------------
(***************************************************************************)
(* Precompiled chunks (ldump.c, lundump.c, lzio.c) and the files chunks    *)
(* are read from (lauxlib.c).  A function is written as a sequence of      *)
(* bytes, by a writer that may refuse a block, and read again from pieces  *)
(* that a reader hands over, cut anywhere; the reader ends the chunk with  *)
(* an empty piece.  A byte is below BYTE, and an int, a size_t, an         *)
(* instruction and a number take two of them.  A string is a sequence of   *)
(* bytes other than 0.                                                     *)
(***************************************************************************)
EXTENDS Integers, Sequences, SequencesExt

CONSTANTS BYTE,
          Functions,            \* the functions to dump
          PieceSizes,           \* how the reader cuts a chunk
          Texts                 \* the files: sequences of the characters below

NULL == <<0>>                   \* no string
LUA_TNIL == 0
LUA_TBOOLEAN == 1
LUA_TNUMFLT == 2
LUA_TNUMINT == 3
LUA_TSTR == 4
Two(x) == <<x \div BYTE, x % BYTE>>

-----------------------------------------------------------------------------
(* Dumping: the blocks that go to the writer, in order.                    *)

Blocks(b) == IF b = <<>> THEN <<>> ELSE <<b>>           \* DumpBlock
DumpInt(x) == <<Two(x)>>
DumpVector(v) == Blocks(FlattenSeq([i \in DOMAIN v |-> Two(v[i])]))
DumpString(s) ==
    IF s = NULL THEN << <<0>> >>
    ELSE LET size == Len(s) + 1
         IN  (IF size < BYTE - 1 THEN << <<size>> >> ELSE << <<BYTE - 1>>, Two(size) >>) \o Blocks(s)
DumpConstant(o) ==
    << <<o.t>> >> \o CASE o.t = LUA_TNIL -> <<>>
                      [] o.t = LUA_TBOOLEAN -> <<o.v>>
                      [] o.t \in {LUA_TNUMFLT, LUA_TNUMINT} -> DumpInt(o.v[1])
                      [] o.t = LUA_TSTR -> DumpString(o.v)
RECURSIVE DumpFunction(_, _, _)
\* A number of entries and the entries, each of them as blocks.
DumpEach(n, s) == DumpInt(n) \o FlattenSeq(s)
DumpDebug(f, strip) ==
    LET names == IF strip THEN <<>> ELSE f.upvalues
        locals == IF strip THEN <<>> ELSE f.locvars
        lines == IF strip THEN <<>> ELSE f.lineinfo
    IN  DumpInt(Len(lines)) \o DumpVector(lines)
        \o DumpEach(Len(locals), [i \in DOMAIN locals |-> DumpString(locals[i].varname)
                                    \o DumpInt(locals[i].startpc) \o DumpInt(locals[i].endpc)])
        \o DumpEach(Len(names), [i \in DOMAIN names |-> DumpString(names[i].name)])
DumpFunction(f, psource, strip) ==
    DumpString(IF strip \/ f.source = psource THEN NULL ELSE f.source)
    \o DumpInt(f.linedefined) \o DumpInt(f.lastlinedefined)
    \o << <<f.numparams>>, <<f.is_vararg>>, <<f.maxstacksize>> >>
    \o DumpInt(Len(f.code)) \o DumpVector(f.code)
    \o DumpEach(Len(f.k), [i \in DOMAIN f.k |-> DumpConstant(f.k[i])])
    \o DumpEach(Len(f.upvalues), [i \in DOMAIN f.upvalues |-> << <<f.upvalues[i].instack>>, <<f.upvalues[i].idx>> >>])
    \o DumpEach(Len(f.p), [i \in DOMAIN f.p |-> DumpFunction(f.p[i], f.source, strip)])
    \o DumpDebug(f, strip)

\* Signature, version, format, data, five sizes, an integer and a float.
Header == << <<1, 2>>, <<5>>, <<0>>, <<3, 4>>, <<2>>, <<2>>, <<2>>, <<2>>, <<2>>, <<5, 6>>, <<3, 7>> >>

\* luaU_dump to a writer that takes the first limit blocks: what it got and the status.
luaU_dump(f, strip, limit) ==
    LET blocks == Header \o << <<Len(f.upvalues)>> >> \o DumpFunction(f, NULL, strip)
        taken == IF limit < Len(blocks) THEN limit ELSE Len(blocks)
    IN  [data |-> FlattenSeq(SubSeq(blocks, 1, taken)), status |-> IF taken < Len(blocks) THEN 1 ELSE 0]

-----------------------------------------------------------------------------
(* Loading.  z: what is left of the current piece and the pieces after it; *)
(* after an error everything read is 0.                                    *)

luaZ_init(pieces) == [p |-> <<>>, more |-> pieces, error |-> FALSE]
Zeros(n) == [i \in 1 .. n |-> 0]

\* LoadBlock: n bytes, from as many pieces as it takes (luaZ_read, luaZ_fill).
RECURSIVE luaZ_read(_, _, _)
luaZ_read(z, n, b) ==
    LET m == IF n <= Len(z.p) THEN n ELSE Len(z.p) IN
    IF n = 0 THEN [z |-> z, v |-> b]
    ELSE IF z.p # <<>> THEN luaZ_read([z EXCEPT !.p = SubSeq(@, m + 1, Len(@))], n - m, b \o SubSeq(z.p, 1, m))
    ELSE IF z.more = <<>> \/ z.more[1] = <<>> THEN [z |-> [z EXCEPT !.error = TRUE], v |-> b \o Zeros(n)]
    ELSE luaZ_read([z EXCEPT !.p = z.more[1], !.more = Tail(@)], n, b)
LoadBlock(z, n) == IF z.error THEN [z |-> z, v |-> Zeros(n)] ELSE luaZ_read(z, n, <<>>)

LoadByte(z) == LET r == LoadBlock(z, 1) IN [z |-> r.z, v |-> IF r.z.error THEN 0 ELSE r.v[1]]
LoadInt(z) == LET r == LoadBlock(z, 2) IN [z |-> r.z, v |-> IF r.z.error THEN 0 ELSE r.v[1] * BYTE + r.v[2]]
LoadString(z) ==
    LET byte == LoadByte(z)
        size == IF byte.v = BYTE - 1 THEN LoadInt(byte.z) ELSE byte
    IN  IF size.v = 0 THEN [z |-> size.z, v |-> NULL] ELSE LoadBlock(size.z, size.v - 1)

\* n entries, read by Load one after another
LoadEach(z, n, Load(_)) ==
    FoldLeft(LAMBDA a, i : LET r == Load(a.z) IN [z |-> r.z, v |-> Append(a.v, r.v)],
             [z |-> z, v |-> <<>>], [i \in 1 .. n |-> i])
LoadVector(z) == LET n == LoadInt(z) IN LoadEach(n.z, n.v, LoadInt)
LoadConstant(z) ==
    LET t == LoadByte(z)
        Constant(r) == [z |-> r.z, v |-> [t |-> t.v, v |-> r.v]]
        n == LoadInt(t.z)
    IN  CASE t.v = LUA_TBOOLEAN -> Constant(LoadBlock(t.z, 1))
          [] t.v \in {LUA_TNUMFLT, LUA_TNUMINT} -> Constant([n EXCEPT !.v = <<@>>])
          [] t.v = LUA_TSTR -> Constant(LoadString(t.z))
          [] OTHER -> Constant([z |-> t.z, v |-> <<>>])
LoadUpvalue(z) ==
    LET s == LoadByte(z)
        x == LoadByte(s.z)
    IN  [z |-> x.z, v |-> [instack |-> s.v, idx |-> x.v, name |-> NULL]]
LoadLocal(z) ==
    LET n == LoadString(z)
        s == LoadInt(n.z)
        e == LoadInt(s.z)
    IN  [z |-> e.z, v |-> [varname |-> n.v, startpc |-> s.v, endpc |-> e.v]]

RECURSIVE LoadFunction(_, _)
LoadFunction(z, psource) ==
    LET s == LoadString(z)
        source == IF s.v = NULL THEN psource ELSE s.v
        l == LoadInt(s.z)
        ll == LoadInt(l.z)
        np == LoadByte(ll.z)
        va == LoadByte(np.z)
        ms == LoadByte(va.z)
        code == LoadVector(ms.z)
        nk == LoadInt(code.z)
        k == LoadEach(nk.z, nk.v, LoadConstant)
        nu == LoadInt(k.z)
        u == LoadEach(nu.z, nu.v, LoadUpvalue)
        npr == LoadInt(u.z)
        p == LoadEach(npr.z, npr.v, LAMBDA w : LoadFunction(w, source))
        lines == LoadVector(p.z)
        nl == LoadInt(lines.z)
        locals == LoadEach(nl.z, nl.v, LoadLocal)
        nn == LoadInt(locals.z)
        names == LoadEach(nn.z, nn.v, LoadString)
        Named(i) == [u.v[i] EXCEPT !.name = IF i \in DOMAIN names.v THEN names.v[i] ELSE NULL]
    IN  [z |-> names.z,
         v |-> [source |-> source, linedefined |-> l.v, lastlinedefined |-> ll.v, numparams |-> np.v,
                is_vararg |-> va.v, maxstacksize |-> ms.v, code |-> code.v, k |-> k.v,
                upvalues |-> [i \in DOMAIN u.v |-> Named(i)], p |-> p.v,
                lineinfo |-> lines.v, locvars |-> locals.v]]

\* luaU_undump: the function, or <<>> for an error (checkHeader, "truncated").
luaU_undump(pieces) ==
    LET head == LoadBlock(luaZ_init(pieces), Len(FlattenSeq(Header)))
        n == LoadByte(head.z)
        f == LoadFunction(n.z, NULL)
    IN  IF head.z.error \/ head.v # FlattenSeq(Header) THEN <<>>
        ELSE IF f.z.error THEN <<>> ELSE <<f.v>>

-----------------------------------------------------------------------------
(* Files: characters are the three of a byte order mark, "#", "\n", the     *)
(* ESC of a binary chunk and others.  What lua_load gets to read: the      *)
(* start of the buffer and the rest of the file.                           *)

BOM == <<"b1", "b2", "b3">>
ESC == "ESC"
EOF == "EOF"
CharAt(s, i) == IF i <= Len(s) THEN s[i] ELSE EOF

\* The first character after a mark, its place, and what is already in the buffer.
skipBOM(s) ==
    LET i == CHOOSE x \in 1 .. 4 : /\ x = 4 \/ CharAt(s, x) # BOM[x]
                                   /\ \A y \in 1 .. x - 1 : CharAt(s, y) = BOM[y]
    IN  [at |-> i, buff |-> IF i = 4 THEN <<>> ELSE SubSeq(BOM, 1, i - 1)]
\* The first line ends at the newline or the end of the file.
skipcomment(s) ==
    LET b == skipBOM(s)
        end == CHOOSE x \in b.at .. Len(s) + 1 :
                    /\ CharAt(s, x) \in {"\n", EOF}
                    /\ \A y \in b.at .. x - 1 : s[y] # "\n"
    IN  IF CharAt(s, b.at) = "#" THEN [at |-> end + 1, buff |-> Append(b.buff, "\n")] ELSE b
\* A binary file is opened again, and its first line leaves nothing behind.
luaL_loadfilex(s) ==
    LET c == skipcomment(s)
        buff == IF CharAt(s, c.at) = ESC THEN skipBOM(s).buff ELSE c.buff
    IN  buff \o SubSeq(s, c.at, Len(s))

-----------------------------------------------------------------------------
Cut(data, size) ==
    [i \in 1 .. (Len(data) + size - 1) \div size |->
        SubSeq(data, (i - 1) * size + 1, IF i * size < Len(data) THEN i * size ELSE Len(data))]
Dumped(c) == luaU_dump(c.f, c.strip, c.limit)
Whole(f) == Len(luaU_dump(f, FALSE, 1000).data)

\* A dump is read in pieces of one size; the writer takes limit blocks, the reader ends
\* after end bytes, or one byte of the header is another.
IsCall(c) ==
    \/ \E f \in Functions : c \in [lib : {"chunk"}, op : {"load"}, f : {f}, strip : BOOLEAN, limit : {0, 11, 12, 20, 1000},
                                   end : 0 .. Whole(f), size : PieceSizes, wrong : {0}]
    \/ \E f \in Functions : c \in [lib : {"chunk"}, op : {"load"}, f : {f}, strip : {FALSE}, limit : {1000},
                                   end : {Whole(f)}, size : PieceSizes, wrong : 1 .. 13]
    \/ c \in [lib : {"chunk"}, op : {"file"}, text : Texts]

Sent(c) ==
    LET d == Dumped(c).data
        e == IF c.end < Len(d) THEN SubSeq(d, 1, c.end) ELSE d
    IN  IF c.wrong = 0 THEN e ELSE [e EXCEPT ![c.wrong] = (@ + 1) % BYTE]
Result(c) ==
    CASE c.op = "load" -> [status |-> Dumped(c).status, loaded |-> luaU_undump(Cut(Sent(c), c.size))]
      [] c.op = "file" -> luaL_loadfilex(c.text)

\* What strip takes away.
RECURSIVE Stripped(_)
Stripped(f) ==
    [f EXCEPT !.source = NULL, !.lineinfo = <<>>, !.locvars = <<>>,
              !.upvalues = [i \in DOMAIN @ |-> [@[i] EXCEPT !.name = NULL]],
              !.p = [i \in DOMAIN @ |-> Stripped(@[i])]]

\* The call gave r: the same function or an error, and never a part of a function; of a
\* file what follows the mark and the first line, if that is a comment, which counts.
IsMeant(c, r) ==
    CASE c.op = "load" ->
            LET complete == Dumped(c).status = 0 /\ c.end >= Len(Dumped(c).data) /\ c.wrong = 0
            IN  /\ (r.status = 0) = (Dumped([c EXCEPT !.limit = 1000]).data = Dumped(c).data)
                /\ r.loaded = IF complete THEN <<IF c.strip THEN Stripped(c.f) ELSE c.f>> ELSE <<>>
      [] c.op = "file" ->
            LET t == IF IsPrefix(BOM, c.text) THEN SubSeq(c.text, 4, Len(c.text)) ELSE c.text
                end == SelectInSeq(t, LAMBDA x : x = "\n")
            IN  r = IF ~IsPrefix(<<"#">>, t) THEN t
                    ELSE IF end \in 1 .. Len(t) - 1 /\ t[end + 1] = ESC THEN SubSeq(t, end + 1, Len(t))
                    ELSE <<"\n">> \o IF end = 0 THEN <<>> ELSE SubSeq(t, end + 1, Len(t))
=============================================================================
