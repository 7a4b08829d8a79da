---------------------------- MODULE BinaryChunk ----------------------------
(***************************************************************************)
(* Binary chunks: vmkU_dump (ldump.c), vmkU_undump (lundump.c) and the     *)
(* input stream between them (lzio.c).  A chunk is a sequence of bytes; a  *)
(* value of more than one byte is its first byte followed by Tails.        *)
(***************************************************************************)
EXTENDS Integers, Sequences, SequencesExt

CONSTANTS
    VarintBits,         \* the bits that a byte of a varint holds (7)
    SizeInstruction,    \* sizeof(Instruction)
    SizeCInt,           \* sizeof(int)
    SizeNumeral,        \* sizeof(vmk_Integer), sizeof(vmk_Number)
    MaxCInt,            \* INT_MAX
    MaxObject,          \* MAX_SIZE
    MaxShortString      \* VMKI_MAXSHORTLEN

ASSUME ChunkAssumption ==
    /\ {VarintBits, SizeInstruction, SizeCInt, SizeNumeral, MaxShortString} \subseteq Nat \ {0}
    /\ SizeInstruction <= SizeNumeral /\ SizeCInt <= SizeNumeral
    /\ \E k \in VarintBits .. MaxCInt : MaxCInt = 2 ^ k - 1
    /\ \E k \in VarintBits .. MaxObject : MaxObject = 2 ^ k - 1

Tail_ == -1
Block(v, size) == [n \in 1 .. size |-> IF n = 1 THEN v ELSE Tail_]
Blocks(vs, size) == FlattenSeq([n \in 1 .. Len(vs) |-> Block(vs[n], size)])

NoString == <<-1>>      \* no string
VNIL == 0   VFALSE == 1   VTRUE == 17   VNUMINT == 3   VNUMFLT == 19   VSHRSTR == 4   VLNGSTR == 20
PF_ISVARARG == 1
PF_FIXED == 2

Signature == <<27, 86, 109, 107>>
Data == <<25, 147, 13, 10, 26, 10>>
Version == 85
Format == 0
CheckInt == 22136
CheckNum == 370

-----------------------------------------------------------------------------
(* Dump.  The state D: [out, offset, strip, status, h, room, asserts], h   *)
(* being the strings saved so far in order, asserts whether each assertion *)
(* of dumpAlign has held, and room the number of blocks the writer takes    *)
(* before it fails.                                                        *)

DumpBlock(D, bytes) ==
    IF D.status # 0 THEN D
    ELSE IF D.room = 0 THEN [D EXCEPT !.status = 1, !.offset = @ + Len(bytes)]
    ELSE [D EXCEPT !.out = @ \o bytes, !.offset = @ + Len(bytes), !.room = @ - 1]

\* dumpAlign, and its assertion that the position is a multiple of align now.
DumpAlign(D, align) ==
    LET d == IF D.offset % align = 0 THEN D
             ELSE DumpBlock(D, Block(0, align - (D.offset % align)))
    IN  [d EXCEPT !.asserts = @ /\ d.offset % align = 0]

DumpByte(D, y) == DumpBlock(D, <<y>>)

\* dumpVarint: the most significant digit first, each but the last with the continuation bit.
Varint(x) ==
    LET base == 2 ^ VarintBits
        n == CHOOSE k \in 1 .. x + 1 : x < base ^ k /\ (k = 1 \/ x >= base ^ (k - 1))
    IN  [d \in 1 .. n |-> ((x \div base ^ (n - d)) % base) + (IF d < n THEN base ELSE 0)]

DumpSize(D, sz) == DumpBlock(D, Varint(sz))
DumpInt(D, n) == DumpBlock(D, Varint(n))
DumpNumeral(D, v) == DumpBlock(D, Block(v, SizeNumeral))

DumpString(D, ts) ==
    IF ts = NoString THEN DumpSize(D, 0)
    ELSE IF Contains(D.h, ts)
    THEN DumpSize(DumpSize(D, 1), CHOOSE n \in DOMAIN D.h : D.h[n] = ts)
    ELSE [DumpBlock(DumpSize(D, Len(ts) + 2), Append(ts, 0)) EXCEPT !.h = Append(@, ts)]

\* The number of elements, then each of them.
DumpAll(D, es, DumpOne(_, _)) == FoldLeft(DumpOne, DumpInt(D, Len(es)), es)

DumpCode(D, f) ==
    DumpBlock(DumpAlign(DumpInt(D, Len(f.code)), SizeInstruction), Blocks(f.code, SizeInstruction))

DumpConstant(D, o) ==
    LET d == DumpByte(D, o.tag)
    IN  CASE o.tag \in {VNUMFLT, VNUMINT} -> DumpNumeral(d, o.v[1])
          [] o.tag \in {VSHRSTR, VLNGSTR} -> DumpString(d, o.v)
          [] OTHER -> d

DumpUpvalue(D, u) == DumpByte(DumpByte(DumpByte(D, u.instack), u.idx), u.kind)

DumpLocVar(D, v) == DumpInt(DumpInt(DumpString(D, v.varname), v.startpc), v.endpc)

DumpDebug(D, f) ==
    LET Kept(es) == IF D.strip THEN <<>> ELSE es
        abs == Kept(f.abslineinfo)
        d1 == DumpInt(D, Len(Kept(f.lineinfo)))
        d2 == IF f.lineinfo = <<>> THEN d1 ELSE DumpBlock(d1, Kept(f.lineinfo))
        d3 == DumpInt(d2, Len(abs))
        d4 == IF abs = <<>> THEN d3
              ELSE DumpBlock(DumpAlign(d3, SizeCInt),
                             Blocks(FlattenSeq([n \in DOMAIN abs |-> <<abs[n].pc, abs[n].line>>]), SizeCInt))
        d5 == DumpAll(d4, Kept(f.locvars), DumpLocVar)
    IN  DumpAll(d5, Kept(f.upvalues), LAMBDA d, u : DumpString(d, u.name))

RECURSIVE DumpFunction(_, _)
DumpFunction(D, f) ==
    LET d1 == DumpInt(DumpInt(D, f.linedefined), f.lastlinedefined)
        d2 == DumpByte(DumpByte(DumpByte(d1, f.numparams), f.flag), f.maxstacksize)
        d3 == DumpAll(DumpCode(d2, f), f.k, DumpConstant)
        d4 == DumpAll(d3, f.upvalues, DumpUpvalue)
        d5 == FoldLeft(DumpFunction, DumpInt(d4, Len(f.p)), f.p)
    IN  DumpDebug(DumpString(d5, IF D.strip THEN NoString ELSE f.source), f)

DumpHeader(D) ==
    LET Bytes(d, bs) == FoldLeft(DumpByte, d, bs)
        d1 == Bytes(DumpBlock(D, Signature), <<Version, Format>>)
        d2 == Bytes(DumpBlock(d1, Data), <<SizeInstruction, SizeNumeral, SizeNumeral>>)
    IN  DumpNumeral(DumpNumeral(d2, CheckInt), CheckNum)

\* The state that vmkU_dump starts from, with a writer that takes room blocks.
NewDump(strip, room) ==
    [out |-> <<>>, offset |-> 0, strip |-> strip, status |-> 0, h |-> <<>>, room |-> room, asserts |-> TRUE]

Dump(f, strip, room) ==
    LET D == NewDump(strip, room)
    IN  DumpBlock(DumpFunction(DumpByte(DumpHeader(D), Len(f.upvalues)), f), <<>>)

-----------------------------------------------------------------------------
(* The input stream z: buf is what is left of the block that the reader    *)
(* gave last, rest are the blocks that it will give.                       *)

\* vmkZ_fill: no block, or an empty one, is the end.
AtEnd(z) == z.buf = <<>> /\ (z.rest = <<>> \/ Head(z.rest) = <<>>)
Fill(z) == IF z.buf # <<>> \/ AtEnd(z) THEN z ELSE [buf |-> Head(z.rest), rest |-> Tail(z.rest)]

Take(z, n) == [z EXCEPT !.buf = SubSeq(@, n + 1, Len(@))]

\* Mutant: only what the first block still holds.
ZReadOnce(z, n) ==
    LET full == Fill(z)
        m == IF n <= Len(full.buf) THEN n ELSE Len(full.buf)
    IN  [bytes |-> SubSeq(full.buf, 1, m), z |-> Take(full, m)]

\* vmkZ_read: the bytes read, fewer than n at the end of the input, and the stream after them.
RECURSIVE ZRead(_, _)
ZRead(z, n) ==
    IF n = 0 \/ AtEnd(z) THEN [bytes |-> <<>>, z |-> z]
    ELSE LET full == Fill(z)
             m == IF n <= Len(full.buf) THEN n ELSE Len(full.buf)
             more == ZRead(Take(full, m), n - m)
         IN  [bytes |-> SubSeq(full.buf, 1, m) \o more.bytes, z |-> more.z]

-----------------------------------------------------------------------------
(* Undump.  The state S: [z, offset, fixed, h, err, v], v being the value  *)
(* loaded last.  After an error nothing more is loaded.                    *)

LoadError(S, why) == [S EXCEPT !.err = why]
HasError(S) == S.err # ""
Returns(S, v) == [S EXCEPT !.v = v]

LoadBlock(S, size) ==
    IF HasError(S) THEN S
    ELSE LET r == ZRead(S.z, size)
         IN  IF Len(r.bytes) < size THEN LoadError(S, "truncated chunk")
             ELSE [S EXCEPT !.z = r.z, !.offset = @ + size, !.v = r.bytes]

LoadAlign(S, align) ==
    IF HasError(S) \/ S.offset % align = 0 THEN S ELSE LoadBlock(S, align - (S.offset % align))

\* getaddr_: an address in the buffer, which must hold all of it.
GetAddr(S, size) ==
    IF HasError(S) THEN S
    ELSE LET z == Fill(S.z)
         IN  IF AtEnd(z) \/ Len(z.buf) < size THEN LoadError(S, "truncated fixed buffer")
             ELSE [S EXCEPT !.z = Take(z, size), !.offset = @ + size, !.v = SubSeq(z.buf, 1, size)]

LoadByte(S) == LET s == LoadBlock(S, 1) IN IF HasError(s) THEN s ELSE Returns(s, s.v[1])

RECURSIVE LoadDigits(_, _, _)
LoadDigits(S, x, limit) ==
    LET s == LoadByte(S)
        base == 2 ^ VarintBits
    IN  IF HasError(s) THEN s
        ELSE IF x > limit THEN LoadError(s, "integer overflow")
        ELSE IF s.v >= base THEN LoadDigits(s, x * base + (s.v % base), limit)
        ELSE Returns(s, x * base + s.v)

LoadVarint(S, limit) == LoadDigits(S, 0, limit \div 2 ^ VarintBits)

LoadSize(S) == LoadVarint(S, MaxObject)
LoadInt(S) == LoadVarint(S, MaxCInt)
LoadNumeral(S) == LET s == LoadBlock(S, SizeNumeral) IN IF HasError(s) THEN s ELSE Returns(s, s.v[1])

\* The value of each element of a block of n elements of size bytes.
LoadVector(S, n, size) ==
    LET s == IF S.fixed THEN GetAddr(S, n * size) ELSE LoadBlock(S, n * size)
    IN  IF HasError(s) THEN s ELSE Returns(s, [e \in 1 .. n |-> s.v[(e - 1) * size + 1]])

LoadString(S) ==
    LET s == LoadSize(S)
        Save(t) == IF HasError(t) THEN t
                   ELSE LET str == SubSeq(t.v, 1, s.v - 2)
                        IN  [t EXCEPT !.h = Append(@, str), !.v = str]
    IN  IF HasError(s) THEN s
        ELSE IF s.v = 0 THEN Returns(s, NoString)
        ELSE IF s.v = 1
        THEN LET t == LoadSize(s) IN IF HasError(t) THEN t ELSE Returns(t, t.h[t.v])
        ELSE IF s.v - 2 > MaxShortString /\ s.fixed THEN Save(GetAddr(s, s.v - 1))
        ELSE Save(LoadBlock(s, s.v - 1))

\* A number of elements that the chunk gives, or the code knows, and each of them.
LoadN(S, n, LoadOne(_)) ==
    LET Step(s, unused) == LET t == LoadOne(s.s) IN [s |-> t, all |-> Append(s.all, t.v)]
        end == FoldLeft(Step, [s |-> S, all |-> <<>>], [e \in 1 .. n |-> e])
    IN  Returns(end.s, end.all)
LoadAll(S, LoadOne(_)) == LET s == LoadInt(S) IN IF HasError(s) THEN s ELSE LoadN(s, s.v, LoadOne)

LoadCode(S) ==
    LET s == LoadInt(S) IN IF HasError(s) THEN s ELSE LoadVector(LoadAlign(s, SizeInstruction), s.v, SizeInstruction)

LoadConstant(S) ==
    LET s == LoadByte(S)
        Constant(t, tag, v) == Returns(t, [tag |-> tag, v |-> v])
    IN  IF HasError(s) THEN s
        ELSE CASE s.v \in {VNUMFLT, VNUMINT} -> LET t == LoadNumeral(s) IN Constant(t, s.v, <<t.v>>)
               [] s.v \in {VSHRSTR, VLNGSTR} ->
                    LET t == LoadString(s)
                    IN  IF HasError(t) THEN t
                        ELSE IF t.v = NoString THEN LoadError(t, "bad format for constant string")
                        ELSE Constant(t, IF Len(t.v) <= MaxShortString THEN VSHRSTR ELSE VLNGSTR, t.v)
               [] s.v \in {VNIL, VFALSE, VTRUE} -> Constant(s, s.v, <<>>)
               [] OTHER -> LoadError(s, "assertion: a constant's tag")

LoadUpvalue(S) ==
    LET s1 == LoadByte(S)  s2 == LoadByte(s1)  s3 == LoadByte(s2)
    IN  Returns(s3, [instack |-> s1.v, idx |-> s2.v, kind |-> s3.v, name |-> NoString])

LoadLocVar(S) ==
    LET s1 == LoadString(S)  s2 == LoadInt(s1)  s3 == LoadInt(s2)
    IN  Returns(s3, [varname |-> s1.v, startpc |-> s2.v, endpc |-> s3.v])

\* loadDebug: lineinfo, abslineinfo, locvars and the names of the n upvalues, if there are any.
LoadDebug(S, n) ==
    LET s1 == LoadInt(S)
        s2 == IF HasError(s1) THEN s1 ELSE LoadVector(s1, s1.v, 1)
        s3 == LoadInt(s2)
        s4 == IF HasError(s3) THEN s3 ELSE IF s3.v = 0 THEN Returns(s3, <<>>)
              ELSE LoadVector(LoadAlign(s3, SizeCInt), 2 * s3.v, SizeCInt)
        s5 == LoadAll(s4, LoadLocVar)
        s6 == LoadInt(s5)
        s7 == IF HasError(s6) THEN s6 ELSE LoadN(s6, IF s6.v = 0 THEN 0 ELSE n, LoadString)
    IN  IF HasError(s7) THEN s7
        ELSE Returns(s7, [lineinfo |-> s2.v,
                          abslineinfo |-> [e \in 1 .. s3.v |-> [pc |-> s4.v[2 * e - 1], line |-> s4.v[2 * e]]],
                          locvars |-> s5.v,
                          names |-> s7.v])

RECURSIVE LoadFunction(_)

\* loadProtos: the functions inside.
LoadProtos(S) ==
    LET n == LoadInt(S)
        Step(s, unused) == LET t == LoadFunction(s.s) IN [s |-> t, all |-> Append(s.all, t.v)]
        end == FoldLeft(Step, [s |-> n, all |-> <<>>], [e \in 1 .. n.v |-> e])
    IN  IF HasError(n) THEN n ELSE Returns(end.s, end.all)

LoadFunction(S) ==
    LET s1 == LoadInt(S)     s2 == LoadInt(s1)
        s3 == LoadByte(s2)   s4 == LoadByte(s3)   s5 == LoadByte(s4)
        s6 == LoadCode(s5)
        s7 == LoadAll(s6, LoadConstant)
        s8 == LoadAll(s7, LoadUpvalue)
        s9 == LoadProtos(s8)
        s10 == LoadString(s9)
        s11 == IF HasError(s10) THEN s10 ELSE LoadDebug(s10, Len(s8.v))
    IN  IF HasError(s11) THEN s11
        ELSE Returns(s11,
               [linedefined |-> s1.v, lastlinedefined |-> s2.v, numparams |-> s3.v,
                flag |-> (s4.v % 2) + (IF S.fixed THEN PF_FIXED ELSE 0),
                maxstacksize |-> s5.v, code |-> s6.v, k |-> s7.v,
                upvalues |-> [u \in DOMAIN s8.v |->
                                IF s11.v.names = <<>> THEN s8.v[u] ELSE [s8.v[u] EXCEPT !.name = s11.v.names[u]]],
                p |-> s9.v, source |-> s10.v, lineinfo |-> s11.v.lineinfo,
                abslineinfo |-> s11.v.abslineinfo, locvars |-> s11.v.locvars])

CheckLiteral(S, lit, msg) ==
    LET s == LoadBlock(S, Len(lit)) IN IF ~HasError(s) /\ s.v # lit THEN LoadError(s, msg) ELSE s
CheckByte(S, b, msg) == LET s == LoadByte(S) IN IF ~HasError(s) /\ s.v # b THEN LoadError(s, msg) ELSE s
CheckNumeral(S, v, msg) ==
    LET s == LoadBlock(S, SizeNumeral)
    IN  IF ~HasError(s) /\ s.v # Block(v, SizeNumeral) THEN LoadError(s, msg) ELSE s

CheckHeader(S) ==
    LET s1 == CheckLiteral(S, Tail(Signature), "not a binary chunk")
        s2 == CheckByte(CheckByte(s1, Version, "version mismatch"), Format, "format mismatch")
        s3 == CheckLiteral(s2, Data, "corrupted chunk")
        s4 == CheckByte(s3, SizeInstruction, "Instruction size mismatch")
        s5 == CheckByte(CheckByte(s4, SizeNumeral, "vmk_Integer size mismatch"), SizeNumeral, "vmk_Number size mismatch")
    IN  CheckNumeral(CheckNumeral(s5, CheckInt, "integer format mismatch"), CheckNum, "float format mismatch")

\* vmkU_undump of an input whose first byte was already read.
Undump(z, fixed) ==
    LET S == [z |-> z, offset |-> 1, fixed |-> fixed, h |-> <<>>, err |-> "", v |-> 0]
        n == LoadByte(CheckHeader(S))
        s == LoadFunction(n)
    IN  IF HasError(n) THEN n
        ELSE IF ~HasError(s) /\ Len(s.v.upvalues) # n.v THEN LoadError(s, "assertion: nupvalues") ELSE s

-----------------------------------------------------------------------------
(* f_parser (ldo.c): the first byte and the mode, a set of "b", "t" and    *)
(* "B", say which parser takes the chunk.                                  *)

Parse(bytes, rest, mode) ==
    LET binary == bytes # <<>> /\ bytes[1] = Head(Signature)
        z == [buf |-> IF bytes = <<>> THEN <<>> ELSE Tail(bytes), rest |-> rest]
    IN  CASE binary /\ "B" \in mode -> Undump(z, TRUE)
          [] binary /\ "B" \notin mode /\ "b" \in mode -> Undump(z, FALSE)
          [] ~binary /\ "t" \in mode -> [err |-> "not binary: vmkY_parser takes it", v |-> 0]
          [] OTHER -> [err |-> "attempt to load a chunk of another mode", v |-> 0]

-----------------------------------------------------------------------------
(* Properties. *)

\* The function that the chunk of f stands for.
RECURSIVE Meant(_, _, _)
Meant(f, strip, fixed) ==
    LET g == [f EXCEPT !.flag = (@ % 2) + (IF fixed THEN PF_FIXED ELSE 0),
                       !.p = [n \in DOMAIN f.p |-> Meant(f.p[n], strip, fixed)]]
    IN  IF ~strip THEN g
        ELSE [g EXCEPT !.source = NoString, !.lineinfo = <<>>, !.abslineinfo = <<>>, !.locvars = <<>>,
                       !.upvalues = [u \in DOMAIN f.upvalues |-> [f.upvalues[u] EXCEPT !.name = NoString]]]

\* bytes as a reader gives them, n at a time.
RECURSIVE Pieces(_, _)
Pieces(bytes, n) ==
    IF Len(bytes) <= n THEN <<bytes>>
    ELSE <<SubSeq(bytes, 1, n)>> \o Pieces(SubSeq(bytes, n + 1, Len(bytes)), n)

\* The chunk loaded in pieces of that size, or in place when it is 0, the reader giving
\* the blocks of more after them.
LoadedBefore(bytes, piece, more) ==
    LET all == Pieces(bytes, IF piece = 0 THEN Len(bytes) ELSE piece)
    IN  Parse(all[1], Tail(all) \o more, IF piece = 0 THEN {"B"} ELSE {"b", "t"})
Loaded(bytes, piece) == LoadedBefore(bytes, piece, <<>>)

\* A dump, stripped or not, read in pieces of any size or in place, gives the function
\* again, every string created once, and takes all of the input.
ChunkSurvives(f, strip, piece) ==
    LET d == Dump(f, strip, 1000)
        s == Loaded(d.out, piece)
    IN  /\ d.status = 0 /\ d.asserts /\ s.err = ""
        /\ s.v = Meant(f, strip, piece = 0)
        /\ IsInjective(s.h) /\ s.h = d.h
        /\ AtEnd(s.z)

\* When the writer fails, vmkU_dump says so and writes nothing more; what it wrote is
\* a chunk that undump refuses, in place or not, also if the rest comes after an empty
\* piece, which is the end of the input.  (The assertion of dumpAlign may fail then:
\* see AlignedWhenFailed.)
PartRefused(f, strip, room, piece) ==
    LET d == Dump(f, strip, room)
        whole == Dump(f, strip, 1000).out
        rest == SubSeq(whole, Len(d.out) + 1, Len(whole))
    IN  d.status # 0 =>
          /\ IsPrefix(d.out, whole)
          /\ d.out # whole /\ d.out # <<>> =>
               \A more \in {<<>>, << <<>>, rest >>} :
                  LoadedBefore(d.out, piece, more).err \in {"truncated chunk", "truncated fixed buffer"}

\* The position is a multiple of the alignment after every dumpAlign, as its assertion
\* says, whether the writer failed or not.
AlignedWhenFailed(f, strip, room) == Dump(f, strip, room).asserts

\* A header that differs anywhere is refused.
ForeignRefused(f, at) ==
    LET d == Dump(f, FALSE, 1000).out
        header == Len(DumpHeader(NewDump(FALSE, 1000)).out)
        changed == [d EXCEPT ![at] = @ + 1]
    IN  at \in 1 .. header => Loaded(changed, Len(d)).err # ""

\* A varint is read back, and refused exactly when it is over the limit.
VarintExact(x, limit) ==
    LET s == LoadVarint([z |-> [buf |-> Varint(x), rest |-> <<>>], offset |-> 1, fixed |-> FALSE, h |-> <<>>,
                         err |-> "", v |-> 0], limit)
    IN  IF x <= limit THEN s.err = "" /\ s.v = x ELSE s.err = "integer overflow"
=============================================================================
