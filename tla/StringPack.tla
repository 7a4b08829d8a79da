----------------------------- MODULE StringPack -----------------------------
(***************************************************************************)
(* string.pack, packsize and unpack (lstrlib.c).  A string of bytes is a   *)
(* sequence of 0 .. MC; a format is a sequence of options [opt, n], where  *)
(* n is the numeral after the option, or None.                             *)
(***************************************************************************)
EXTENDS Integers, Sequences, SequencesExt, FiniteSets

CONSTANTS
    NB,             \* NB: the bits of a char
    SizeInt,        \* SZINT: the bytes of an integer
    SizeShort,      \* sizeof(short), for h and H
    SizeFloat,      \* sizeof(float), for f
    NativeAlign,    \* the alignment of option '!' with no number
    MaxIntSize,     \* MAXINTSIZE
    MaxSize         \* MAX_SIZE

ASSUME SizesAssumption ==
    /\ {NB, SizeInt, SizeShort, SizeFloat, NativeAlign, MaxIntSize, MaxSize} \subseteq Nat \ {0}
    /\ SizeShort <= SizeInt /\ SizeInt <= MaxIntSize

None == -1
MC == 2 ^ NB - 1
Width == NB * SizeInt
MinInteger == -(2 ^ (Width - 1))
MaxInteger == 2 ^ (Width - 1) - 1
ToUnsigned(n) == n % 2 ^ Width
ToSigned(u) == IF u > MaxInteger THEN u - 2 ^ Width ELSE u

-----------------------------------------------------------------------------
(* Options.  The header h = [islittle, maxalign] changes as they are read. *)

InitHeader == [islittle |-> TRUE, maxalign |-> 1]

Option(kind, size) == [kind |-> kind, size |-> size]

Sized == {"i", "I", "s", "!"}
NumLimit(o, default) == IF o.n = None THEN default ELSE o.n

\* getoption: the kind and the size of option o, or kind "error".
GetOption(o) ==
    LET size == NumLimit(o, CASE o.opt = "s" -> SizeInt [] o.opt = "!" -> NativeAlign [] OTHER -> SizeShort)
    IN  CASE o.opt \in Sized /\ size \notin 1 .. MaxIntSize -> Option("error", 0)
          [] o.opt = "b" -> Option("int", 1)
          [] o.opt = "B" -> Option("uint", 1)
          [] o.opt = "h" -> Option("int", SizeShort)
          [] o.opt = "j" -> Option("int", SizeInt)
          [] o.opt = "J" -> Option("uint", SizeInt)
          [] o.opt = "f" -> Option("float", SizeFloat)
          [] o.opt = "i" -> Option("int", size)
          [] o.opt = "I" -> Option("uint", size)
          [] o.opt = "s" -> Option("string", size)
          [] o.opt = "c" -> IF o.n = None THEN Option("error", 0) ELSE Option("char", o.n)
          [] o.opt = "z" -> Option("zstr", 0)
          [] o.opt = "x" -> Option("padding", 1)
          [] o.opt = "X" -> Option("paddalign", 0)
          [] o.opt \in {"<", ">", "!", " "} -> Option("nop", 0)
          [] OTHER -> Option("error", 0)

\* What getoption does to the header.
HeaderAfter(h, o) ==
    CASE o.opt = "<" -> [h EXCEPT !.islittle = TRUE]
      [] o.opt = ">" -> [h EXCEPT !.islittle = FALSE]
      [] o.opt = "!" -> [h EXCEPT !.maxalign = NumLimit(o, NativeAlign)]
      [] OTHER -> h

IsPow2(n) == \E k \in 0 .. n : n = 2 ^ k

\* getdetails of the first option of fmt at offset total: its kind and size, the
\* padding before it, and how many options it took; 'X' aligns as the option after it would.
GetDetails(h, total, fmt) ==
    LET o == GetOption(fmt[1])
        next == IF o.kind = "paddalign" /\ Len(fmt) > 1 THEN GetOption(fmt[2]) ELSE Option("char", 0)
        wanted == IF o.kind = "paddalign" THEN next.size ELSE o.size
        maxalign == HeaderAfter(h, fmt[1]).maxalign
        align == IF wanted > maxalign THEN maxalign ELSE wanted
        Details(kind, pad) == [kind |-> kind, size |-> o.size, ntoalign |-> pad, h |-> HeaderAfter(h, fmt[1]),
                               used |-> IF o.kind = "paddalign" THEN 2 ELSE 1]
    IN  IF o.kind = "error" \/ (o.kind = "paddalign" /\ (next.kind \in {"char", "error"} \/ wanted = 0))
        THEN Details("error", 0)
        ELSE IF wanted <= 1 \/ o.kind = "char" THEN Details(o.kind, 0)
        ELSE IF ~IsPow2(align) THEN Details("error", 0)
        ELSE Details(o.kind, (align - (total % align)) % align)

-----------------------------------------------------------------------------
(* Integers and floats.                                                    *)

Ordered(bytes, islittle) == IF islittle THEN bytes ELSE Reverse(bytes)

\* Mutant: no sign beyond the size of an integer.
PackIntZeros(n, islittle, size, neg) ==
    Ordered([i \in 1 .. size |-> IF i > SizeInt THEN 0
                                 ELSE (ToUnsigned(n) \div 2 ^ (NB * (i - 1))) % 2 ^ NB], islittle)

\* packint: the low byte first; the bytes beyond an integer are zeros, or MC for a negative number.
PackInt(n, islittle, size, neg) ==
    Ordered([i \in 1 .. size |-> IF neg /\ i > SizeInt THEN MC
                                 ELSE (ToUnsigned(n) \div 2 ^ (NB * (i - 1))) % 2 ^ NB], islittle)

\* The unsigned integer in the first bytes of a little-endian sequence.
FromBytes(bytes) == FoldRight(LAMBDA byte, res : res * 2 ^ NB + byte, bytes, 0)

\* unpackint: sign extension if the size is smaller than an integer, and a check of the
\* bytes that are not read if it is larger.
UnpackInt(bytes, islittle, issigned) ==
    LET size == Len(bytes)
        little == Ordered(bytes, islittle)
        limit == IF size <= SizeInt THEN size ELSE SizeInt
        res == FromBytes(SubSeq(little, 1, limit))
        mask == 2 ^ (size * NB - 1)
        xored == IF (res \div mask) % 2 = 1 THEN res - mask ELSE res + mask
        unread == IF ~issigned \/ ToSigned(res) >= 0 THEN 0 ELSE MC
    IN  IF size < SizeInt
        THEN [ok |-> TRUE, value |-> ToSigned(IF issigned THEN ToUnsigned(xored - mask) ELSE res)]
        ELSE [ok |-> \A i \in limit + 1 .. size : little[i] = unread, value |-> ToSigned(res)]

\* copywithendian, from or to the native order, which is little.
CopyWithEndian(bytes, islittle) == Ordered(bytes, islittle)

-----------------------------------------------------------------------------
(* The functions.  Their state is the header, the rest of the format, the  *)
(* data, the arguments or results, and ok, which an error makes FALSE.     *)

Zeros(n) == [i \in 1 .. n |-> 0]

\* The bytes that str_pack adds for an argument, after the check of its range.
Packed(d, arg) ==
    LET Checked(fits, bytes) == [ok |-> fits, bytes |-> bytes] IN
    CASE d.kind = "int" ->
            Checked(d.size < SizeInt => (-(2 ^ (d.size * NB - 1)) <= arg /\ arg < 2 ^ (d.size * NB - 1)),
                    PackInt(arg, d.h.islittle, d.size, arg < 0))
      [] d.kind = "uint" ->
            Checked(d.size < SizeInt => ToUnsigned(arg) < 2 ^ (d.size * NB),
                    PackInt(arg, d.h.islittle, d.size, FALSE))
      [] d.kind = "float" -> Checked(TRUE, CopyWithEndian(arg, d.h.islittle))
      [] d.kind = "char" -> Checked(Len(arg) <= d.size, arg \o Zeros(d.size - Len(arg)))
      [] d.kind = "string" ->
            Checked(d.size < SizeInt => Len(arg) < 2 ^ (d.size * NB),
                    PackInt(Len(arg), d.h.islittle, d.size, FALSE) \o arg)
      [] d.kind = "zstr" -> Checked(\A i \in 1 .. Len(arg) : arg[i] # 0, Append(arg, 0))
      [] OTHER -> Checked(TRUE, Zeros(d.size))

TakesArgument(d) == d.kind \notin {"padding", "paddalign", "nop", "error"}

\* str_pack from a format and arguments: the bytes after data, whose length is totalsize.
RECURSIVE PackFrom(_, _, _, _)
PackFrom(h, fmt, args, data) ==
    IF fmt = <<>> THEN [ok |-> TRUE, data |-> data]
    ELSE LET d == GetDetails(h, Len(data), fmt)
             p == Packed(d, args[1])
             taken == IF TakesArgument(d) THEN 1 ELSE 0
         IN  IF d.kind = "error" \/ d.size + d.ntoalign > MaxSize - Len(data) \/ ~p.ok
             THEN [ok |-> FALSE, data |-> data]
             ELSE PackFrom(d.h, SubSeq(fmt, d.used + 1, Len(fmt)), SubSeq(args, taken + 1, Len(args)),
                           data \o Zeros(d.ntoalign) \o p.bytes)

StrPack(fmt, args) == PackFrom(InitHeader, fmt, args, <<>>)

\* str_packsize.
RECURSIVE PackSizeFrom(_, _, _)
PackSizeFrom(h, fmt, total) ==
    IF fmt = <<>> THEN [ok |-> TRUE, size |-> total]
    ELSE LET d == GetDetails(h, total, fmt) IN
         IF d.kind \in {"error", "string", "zstr"} \/ total > MaxSize - (d.size + d.ntoalign)
         THEN [ok |-> FALSE, size |-> total]
         ELSE PackSizeFrom(d.h, SubSeq(fmt, d.used + 1, Len(fmt)), total + d.ntoalign + d.size)

StrPackSize(fmt) == PackSizeFrom(InitHeader, fmt, 0)

\* What str_unpack reads at pos (after the alignment): the value, and the bytes beyond the
\* size of the option that it takes.
Unpacked(d, data, pos) ==
    LET Read(ok, value, more) == [ok |-> ok, value |-> value, more |-> more]
        bytes == SubSeq(data, pos + 1, pos + d.size)
        int == UnpackInt(bytes, d.h.islittle, d.kind = "int")
        len == ToUnsigned(int.value)
        zeros == {i \in pos + 1 .. Len(data) : data[i] = 0}
        zero == CHOOSE i \in zeros : \A k \in zeros : i <= k
    IN  CASE d.kind \in {"int", "uint"} -> Read(int.ok, int.value, 0)
          [] d.kind = "float" -> Read(TRUE, CopyWithEndian(bytes, d.h.islittle), 0)
          [] d.kind = "char" -> Read(TRUE, bytes, 0)
          [] d.kind = "string" ->
                IF ~int.ok \/ len > Len(data) - pos - d.size THEN Read(FALSE, 0, 0)
                ELSE Read(TRUE, SubSeq(data, pos + d.size + 1, pos + d.size + len), len)
          [] d.kind = "zstr" ->
                IF zeros = {} THEN Read(FALSE, 0, 0)
                ELSE Read(TRUE, SubSeq(data, pos + 1, zero - 1), zero - pos)
          [] OTHER -> Read(TRUE, 0, 0)

\* str_unpack from offset pos.
RECURSIVE UnpackFrom(_, _, _, _, _)
UnpackFrom(h, fmt, data, pos, values) ==
    IF fmt = <<>> THEN [ok |-> TRUE, values |-> values, next |-> pos + 1]
    ELSE LET d == GetDetails(h, pos, fmt)
             u == Unpacked(d, data, pos + d.ntoalign)
             short == d.ntoalign + d.size > Len(data) - pos
         IN  IF d.kind = "error" \/ short \/ ~u.ok
             THEN [ok |-> FALSE, values |-> values, next |-> pos + 1]
             ELSE UnpackFrom(d.h, SubSeq(fmt, d.used + 1, Len(fmt)), data, pos + d.ntoalign + d.size + u.more,
                             IF TakesArgument(d) THEN Append(values, u.value) ELSE values)

\* posrelatI: a position counted from the end if it is negative, at least 1.
Positive(pos, len) == IF pos > 0 THEN pos ELSE IF pos = 0 \/ pos < -len THEN 1 ELSE len + pos + 1

\* str_unpack, which refuses an initial position out of the string.
StrUnpack(fmt, data, init) ==
    LET pos == Positive(init, Len(data)) - 1
    IN  IF pos > Len(data) THEN [ok |-> FALSE, values |-> <<>>, next |-> init]
        ELSE UnpackFrom(InitHeader, fmt, data, pos, <<>>)

-----------------------------------------------------------------------------
(* Properties of a format and its arguments. *)

\* What an option may hold without loss: the range of its bytes.
Fits(o, arg) ==
    CASE o.kind = "int" -> o.size >= SizeInt \/ arg \in -(2 ^ (o.size * NB - 1)) .. 2 ^ (o.size * NB - 1) - 1
      [] o.kind = "uint" -> o.size >= SizeInt \/ arg \in 0 .. 2 ^ (o.size * NB) - 1
      [] o.kind = "string" -> o.size >= SizeInt \/ Len(arg) \in 0 .. 2 ^ (o.size * NB) - 1
      [] o.kind = "char" -> Len(arg) <= o.size
      [] o.kind = "zstr" -> 0 \notin ToSet(arg)
      [] OTHER -> TRUE

\* What comes back for an argument: fixed-size strings are filled with zeros.
Restored(o, arg) == IF o.kind = "char" THEN arg \o Zeros(o.size - Len(arg)) ELSE arg

\* The options of a format that take an argument ('X' takes the option after it instead).
Fields(fmt) == SelectSeq([k \in 1 .. Len(fmt) |-> k],
                         LAMBDA k : TakesArgument(GetOption(fmt[k])) /\ (k = 1 \/ fmt[k - 1].opt # "X"))

\* Arguments that always fit.
Least(o) == IF o.kind \in {"int", "uint"} THEN 0 ELSE IF o.kind = "float" THEN Zeros(o.size) ELSE <<>>

\* The alignment in force at option k: what the last '!' before it asks for.
AlignmentAt(fmt, k) ==
    LET marks == {i \in 1 .. k : fmt[i].opt = "!"}
    IN  IF marks = {} THEN 1 ELSE NumLimit(fmt[CHOOSE i \in marks : \A m \in marks : m <= i], NativeAlign)

\* pack succeeds exactly if the format is legal and each argument fits; unpack gives the
\* arguments back and goes to the end of the data, also from behind other data that
\* keeps the alignment; numbers are aligned; and packsize, where it is defined, is the size of the result.
PackRoundTrip(fmt, args) ==
    LET fields == Fields(fmt)
        n == Len(fields)
        option(i) == GetOption(fmt[fields[i]])
        packed == StrPack(fmt, args)
        legal == StrPack(fmt, [i \in 1 .. n |-> Least(option(i))]).ok
        fits == \A i \in 1 .. n : Fits(option(i), args[i])
        values == [i \in 1 .. n |-> Restored(option(i), args[i])]
        size == StrPackSize(fmt)
        shift == 2 ^ MaxIntSize
        start(i) == Len(StrPack(SubSeq(fmt, 1, fields[i]), args).data) - option(i).size
        step(i) == LET a == AlignmentAt(fmt, fields[i]) IN IF option(i).size < a THEN option(i).size ELSE a
    IN  /\ packed.ok => fits
        /\ legal /\ fits => packed.ok \/ Len(packed.data) + MaxIntSize > MaxSize
        /\ packed.ok =>
            /\ StrUnpack(fmt, packed.data, 1) = [ok |-> TRUE, values |-> values, next |-> Len(packed.data) + 1]
            /\ LET back == StrUnpack(fmt, Zeros(shift) \o packed.data, shift + 1)
               IN  back.ok /\ back.values = values
            /\ size.ok => size.size = Len(packed.data)
            /\ \A i \in 1 .. n : option(i).kind \in {"int", "uint", "float"} => start(i) % step(i) = 0

\* The other way round: what unpack reads as integers packs to the same bytes; and a
\* position counted from the end is the same as one from the start, the end itself
\* included, after which there is nothing to start from.
UnpackRoundTrip(fmt, data) ==
    LET read == StrUnpack(fmt, data, 1)
        onlyInts == \A k \in 1 .. Len(fmt) : GetOption(fmt[k]).kind \in {"int", "uint", "nop"}
        aligned == \A k \in 1 .. Len(fmt) : fmt[k].opt # "!"
        n == Len(data)
    IN  /\ read.ok /\ onlyInts /\ aligned =>
            /\ StrPack(fmt, read.values) = [ok |-> TRUE, data |-> SubSeq(data, 1, read.next - 1)]
            /\ \A k \in 1 .. Len(read.values) : read.values[k] \in MinInteger .. MaxInteger
        /\ \A init \in 1 .. n : StrUnpack(fmt, data, init - n - 1) = StrUnpack(fmt, data, init)
        /\ StrUnpack(<<>>, data, n + 1).ok /\ ~StrUnpack(fmt, data, n + 2).ok
        /\ StrUnpack(fmt, data, 0) = read /\ StrUnpack(fmt, data, -n - 1) = read
=============================================================================
