-------------------------- MODULE Decoders_proofs --------------------------
(***************************************************************************)
(* What PyExt decodes from bytes that CPython laid out: the text of a str, *)
(* bytes or bytearray object, read from the block it is in, and the lines  *)
(* and variables of a frame, for texts, programs and codes of every size.  *)
(***************************************************************************)
EXTENDS Strings, Frames, Induction

-----------------------------------------------------------------------------
(* Texts: each is read from the block it is in, and the literal that is    *)
(* shown reads back as the text.                                           *)

(* A character takes one, two or four bytes.                               *)
LEMMA WidthTyped == \A t : WidthOf(t) \in {1, 2, 4}
BY DEF WidthOf

(* UTF-16 has at least as many units as there are characters, and is the   *)
(* text itself if it has no more.                                          *)
LEMMA Utf16Typed ==
    ASSUME NEW n \in Nat, NEW t \in Seq(CodePoints), Len(t) = n
    PROVE  /\ Utf16(t) \in Seq(Nat) /\ Len(Utf16(t)) >= n
           /\ Len(Utf16(t)) = n => Utf16(t) = t
<1> DEFINE P == [k \in DOMAIN t |-> Surrogates(t[k])]
           flat == FlattenSeq(P)
<1>1. DOMAIN t = 1..n /\ \A k \in 1..n : t[k] \in CodePoints
  OBVIOUS
<1>2. ASSUME NEW c \in CodePoints
      PROVE  /\ Surrogates(c) \in Seq(Nat) /\ Len(Surrogates(c)) \in 1..2
             /\ Len(Surrogates(c)) = 1 => Surrogates(c) = <<c>>
  <2>1. CASE c < 65536
    BY <2>1, SMT DEF Surrogates, CodePoints
  <2>2. CASE ~(c < 65536)
    <3>1. /\ Surrogates(c) = <<55296 + (c - 65536) \div 1024, 56320 + ((c - 65536) % 1024)>>
          /\ 55296 + (c - 65536) \div 1024 \in Nat /\ 56320 + ((c - 65536) % 1024) \in Nat
      BY <2>2, SMT DEF Surrogates, CodePoints
    <3> QED  BY <3>1
  <2> QED  BY <2>1, <2>2
<1>3. /\ P \in Seq(Seq(Nat)) /\ Len(P) = n
      /\ \A k \in 1..n : P[k] = Surrogates(t[k])
  <2>1. P \in [1..n -> Seq(Nat)]
    BY <1>1, <1>2
  <2> QED  BY <1>1, <2>1
<1>4. Utf16(t) = flat
  BY DEF Utf16
<1> HIDE DEF P, flat
<1>5. flat \in Seq(Nat) /\ \E off : IsLayout(flat, P, n, off)
  BY <1>1, <1>3, FlattenLayout DEF flat
<1>6. PICK off : IsLayout(flat, P, n, off)
  BY <1>5
<1>7. \A k \in 1..n : Len(P[k]) \in Nat \ {0}
  <2> TAKE k \in 1..n
  <2>1. t[k] \in CodePoints /\ P[k] = Surrogates(t[k])
    BY <1>1, <1>3
  <2>2. Len(P[k]) \in 1..2
    BY <1>2, <2>1
  <2>3. \A x \in 1..2 : x \in Nat \ {0}
    OBVIOUS
  <2> QED  BY <2>2, <2>3, Zenon
<1>8. Len(flat) >= n /\ (Len(flat) = n => \A k \in 0..n : off[k] = k)
  BY <1>1, <1>6, <1>7, LayoutGrows
<1>9. ASSUME Len(flat) = n PROVE flat = t
  <2>1. ASSUME NEW k \in 1..n PROVE flat[k] = t[k]
    <3>1. off[k - 1] = k - 1 /\ off[k] = k
      BY <1>1, <1>8, <1>9
    <3>2. Len(P[k]) = 1
      <4>1. Len(P[k]) \in Nat /\ off[k] = off[k - 1] + Len(P[k])
        BY <1>6, <1>7 DEF IsLayout
      <4>2. \A x \in Nat : k = (k - 1) + x => x = 1
        BY <1>1
      <4> QED  BY <3>1, <4>1, <4>2, Zenon
    <3>3. P[k] = <<t[k]>>
      BY <1>1, <1>2, <1>3, <3>2
    <3>4. flat[off[k - 1] + 1] = P[k][1]
      BY <1>6, <3>2 DEF IsLayout
    <3>5. off[k - 1] + 1 = k
      BY <3>1
    <3> QED  BY <3>3, <3>4, <3>5
  <2>2. Len(flat) = Len(t) /\ t \in Seq(Nat)
    <3>1. CodePoints \subseteq Nat
      BY SMT DEF CodePoints
    <3>2. t \in Seq(Nat)
      BY <3>1, SeqMonotonic
    <3> QED  BY <1>9, <3>2
  <2>3. \A i \in 1..Len(flat) : flat[i] = t[i]
    BY <1>9, <2>1
  <2> QED  BY <1>5, <2>2, <2>3, SeqEqual
<1> QED  BY <1>4, <1>5, <1>8, <1>9

-----------------------------------------------------------------------------
(* Where PyExt reads is where CPython has put the text, and all of it is   *)
(* there.                                                                  *)
LEMMA TextTyped ==
    ASSUME TypeOK
    PROVE  /\ Len(text) \in Nat /\ DOMAIN text = 1..Len(text) /\ text \in Seq(Nat)
           /\ class = "str" => text \in Seq(CodePoints)
           /\ class # "str" => text \in Seq(Bytes)
<1>1. CodePoints \subseteq Nat
  BY SMT DEF CodePoints
<1>2. Bytes \subseteq Nat
  BY DEF Bytes
<1>3. CASE class = "str"
  <2>1. text \in Seq(CodePoints)
    BY <1>3 DEF TypeOK
  <2>2. text \in Seq(Nat)
    BY <1>1, <2>1, SeqMonotonic
  <2> QED  BY <1>3, <2>1, <2>2, LenProperties
<1>4. CASE class # "str"
  <2>1. text \in Seq(Bytes)
    BY <1>4 DEF TypeOK
  <2>2. text \in Seq(Nat)
    BY <1>2, <2>1, SeqMonotonic
  <2> QED  BY <1>4, <2>1, <2>2, LenProperties
<1> QED  BY <1>3, <1>4

IsBlock(block) ==
    /\ block.width = Source.width /\ block.units \in Seq(Nat)
    /\ Len(text) <= Len(block.units)

LEMMA ReadBlock ==
    ASSUME InductiveInv, class = "str" => IsReady
    PROVE  /\ StringLength = Len(text)
           /\ Source.width \in {1, 2, 4}
           /\ IsBlock(At(Source.place))
<1>1. TypeOK /\ StrInPlace /\ BytesInPlace
  BY DEF InductiveInv
<1>2. /\ Len(text) \in Nat /\ text \in Seq(Nat)
      /\ class = "str" => text \in Seq(CodePoints)
  BY <1>1, TextTyped
<1>3. CASE class = "str"
  <2>1. state.ready
    BY <1>1, <1>3 DEF IsReady, StrInPlace
  <2>2. /\ state.kind = WidthOf(text)
        /\ data = [place |-> InlinePlace, width |-> state.kind, units |-> text]
        /\ wstr \in {<<>>, text, Utf16(text)}
    BY <1>1, <1>3, <2>1 DEF StrInPlace
  <2>3. StringLength = Len(text)
    BY <1>3, <2>1 DEF StringLength, LengthField, IsReady
  <2>4. Source = StrSource
    BY <1>3 DEF Source
  <2>5. CASE layout = "old" /\ wstr # <<>>
    <3>1. Source.place = "wstr" /\ Source.width = 2
      BY <2>4, <2>5 DEF StrSource
    <3>2. At("wstr") = [place |-> "wstr", width |-> 2, units |-> wstr]
      <4>1. data.place # "wstr"
        BY <2>2 DEF InlinePlace
      <4> QED  BY <4>1 DEF At
    <3>3. wstr \in Seq(Nat) /\ Len(text) <= Len(wstr)
      <4>1. CASE wstr = text
        BY <1>2, <4>1
      <4>2. CASE wstr = Utf16(text)
        <5>1. Utf16(text) \in Seq(Nat) /\ Len(Utf16(text)) >= Len(text)
          BY <1>2, <1>3, Utf16Typed
        <5>2. Len(Utf16(text)) \in Nat
          BY <5>1, LenProperties
        <5> QED  BY <1>2, <4>2, <5>1, <5>2
      <4> QED  BY <2>2, <2>5, <4>1, <4>2
    <3>4. IsBlock([place |-> "wstr", width |-> 2, units |-> wstr])
      BY <3>1, <3>3 DEF IsBlock
    <3> QED  BY <2>3, <3>1, <3>2, <3>4
  <2>6. CASE ~(layout = "old" /\ wstr # <<>>)
    <3>1. Source.place = InlinePlace /\ Source.width = state.kind
      BY <2>4, <2>6 DEF StrSource
    <3>2. InlinePlace # "wstr"
      BY DEF InlinePlace
    <3>3. At(InlinePlace) = data
      BY <2>2, <3>2 DEF At
    <3>4. IsBlock(data)
      BY <1>2, <2>2, <3>1 DEF IsBlock
    <3>5. state.kind \in {1, 2, 4}
      BY <2>2, WidthTyped
    <3> QED  BY <2>3, <3>1, <3>3, <3>4, <3>5
  <2> QED  BY <2>5, <2>6
<1>4. CASE class # "str"
  <2>1. /\ data \in [place : {Source.place}, width : {1}, units : Seq(Bytes)]
        /\ start + Len(text) <= Len(data.units)
    BY <1>1, <1>4 DEF BytesInPlace
  <2>2. Source.width = 1 /\ Source.place \in {"ob_sval", "ob_bytes"}
    BY <1>1, <1>4 DEF TypeOK, Source, BytesSource, ByteArraySource
  <2>3. At(Source.place) = data
    <3>1. data.place = Source.place /\ Source.place # "wstr"
      BY <2>1, <2>2
    <3> QED  BY <3>1 DEF At
  <2>4. data.units \in Seq(Nat) /\ Len(data.units) \in Nat
    <3>1. Bytes \subseteq Nat
      BY DEF Bytes
    <3>2. data.units \in Seq(Bytes)
      BY <2>1
    <3>3. data.units \in Seq(Nat)
      BY <3>1, <3>2, SeqMonotonic
    <3> QED  BY <3>3, LenProperties
  <2>5. Len(text) <= Len(data.units)
    <3>1. start \in Nat
      BY <1>1 DEF TypeOK
    <3> QED  BY <1>2, <2>1, <2>4, <3>1
  <2>6. IsBlock(data)
    BY <2>1, <2>2, <2>4, <2>5 DEF IsBlock
  <2>7. StringLength = Len(text)
    BY <1>4 DEF StringLength, LengthField
  <2> QED  BY <2>2, <2>3, <2>6, <2>7
<1> QED  BY <1>3, <1>4

(* A str that is not ready yet is not read at all. *)
LEMMA NotRead ==
    ASSUME class = "str", ~IsReady
    PROVE  StringLength = 0
BY DEF StringLength

LEMMA ValueRead ==
    ASSUME InductiveInv, class = "str" => IsReady
    PROVE  /\ StringValue \in Seq(Bytes) /\ Len(StringValue) = Len(text)
           /\ \A k \in 1..Len(text) :
                 StringValue[k] = IF IsRead(k) THEN At(Source.place).units[k] % 256 ELSE 0
<1> DEFINE n == Len(text)
           units == At(Source.place).units
<1>1. n \in Nat
  BY TextTyped DEF InductiveInv
<1>2. /\ StringLength = n /\ At(Source.place).width = Source.width
      /\ units \in Seq(Nat) /\ n <= Len(units)
  BY ReadBlock DEF IsBlock
<1>3. StringValue = [k \in 1..n |->
         IF ~IsRead(k) THEN 0 ELSE IF k <= Len(units) THEN units[k] % 256 ELSE -1]
  BY <1>2 DEF StringValue
<1> HIDE DEF n, units
<1>4. ASSUME NEW k \in 1..n
      PROVE  /\ StringValue[k] = IF IsRead(k) THEN units[k] % 256 ELSE 0
             /\ StringValue[k] \in Bytes
  <2>1. k \in 1..Len(units) /\ units[k] \in Nat
    <3>1. Len(units) \in Nat /\ units \in [1..Len(units) -> Nat]
      BY <1>2, LenProperties
    <3>2. k \in 1..Len(units)
      BY <1>1, <1>2, <3>1
    <3> QED  BY <3>1, <3>2
  <2>2. units[k] % 256 \in 0..255
    <3>1. \A x \in Nat : x % 256 \in 0..255
      OBVIOUS
    <3> QED  BY <2>1, <3>1, Zenon
  <2>3. StringValue[k] = IF ~IsRead(k) THEN 0 ELSE IF k <= Len(units) THEN units[k] % 256 ELSE -1
    BY <1>3
  <2>4. k <= Len(units)
    BY <1>1, <2>1
  <2> QED  BY <2>2, <2>3, <2>4 DEF Bytes
<1>5. StringValue \in [1..n -> Bytes]
  BY <1>3, <1>4
<1> QED  BY <1>1, <1>4, <1>5 DEF n, units

(* What InductiveInv promises of the reader: ReadsInBounds.                *)
LEMMA InBounds == InductiveInv => ReadsInBounds
<1> SUFFICES ASSUME InductiveInv, NEW k \in 1..StringLength PROVE StringValue[k] >= 0
  BY DEF ReadsInBounds
<1>1. class = "str" => IsReady
  BY NotRead
<1>2. StringLength = Len(text) /\ Len(text) \in Nat
  BY <1>1, ReadBlock, TextTyped DEF InductiveInv
<1>3. StringValue \in Seq(Bytes) /\ Len(StringValue) = Len(text)
  BY <1>1, ValueRead
<1>4. StringValue[k] \in Bytes
  BY <1>2, <1>3, LenProperties
<1> QED  BY <1>4 DEF Bytes

-----------------------------------------------------------------------------
(* Every new object is in place. *)
LEMMA NewStrInv ==
    ASSUME NewStr, start = 0
    PROVE  InductiveInv
<1>1. class = "str" /\ layout \in {"old", "new"} /\ text \in Seq(CodePoints)
  BY StringsAssumption DEF NewStr
<1>2. WidthOf(text) \in {0, 1, 2, 4} /\ Least(text, 128) \in BOOLEAN
  BY WidthTyped DEF Least
<1>3. CASE \E compact \in BOOLEAN : ReadyStr(layout = "old", text, compact)
  <2>1. PICK compact \in BOOLEAN : ReadyStr(layout = "old", text, compact)
    BY <1>3
  <2>2. /\ state = [ready |-> TRUE, compact |-> compact, ascii |-> Least(text, 128),
                    kind |-> WidthOf(text)]
        /\ wstr = IF layout = "old" /\ WidthOf(text) = 2 THEN text ELSE <<>>
        /\ data = [place |-> IF ~compact THEN "any"
                             ELSE IF Least(text, 128) THEN "ascii" ELSE "compact",
                   width |-> WidthOf(text), units |-> text]
    BY <2>1 DEF ReadyStr
  <2>3. data = [place |-> InlinePlace, width |-> state.kind, units |-> text]
    BY <2>2 DEF InlinePlace
  <2>4. StrInPlace
    BY <1>1, <2>2, <2>3 DEF StrInPlace
  <2> QED  BY <1>1, <1>2, <2>2, <2>4 DEF InductiveInv, TypeOK, BytesInPlace
<1>4. CASE /\ layout = "old" /\ text # <<>>
           /\ state = [ready |-> FALSE, compact |-> FALSE, ascii |-> FALSE, kind |-> 0]
           /\ wstr = Utf16(text) /\ data = NoData
  BY <1>1, <1>4 DEF InductiveInv, TypeOK, StrInPlace, BytesInPlace
<1> QED  BY <1>3, <1>4 DEF NewStr

LEMMA NewBytesInv ==
    ASSUME NewBytes, start = 0
    PROVE  InductiveInv
<1>1. /\ class \in {"bytes", "bytearray"} /\ layout = "new" /\ text \in Seq(Bytes)
      /\ state = NoState
      /\ data = [place |-> IF class = "bytes" THEN "ob_sval" ELSE "ob_bytes", width |-> 1,
                 units |-> IF text = <<>> THEN <<>> ELSE Append(text, 0)]
  BY StringsAssumption DEF NewBytes
<1>2. /\ data.units \in Seq(Bytes) /\ Len(text) <= Len(data.units)
      /\ \A k \in DOMAIN text : data.units[k] = text[k]
  <2>1. CASE text = <<>>
    BY <1>1, <2>1
  <2>2. CASE text # <<>>
    <3>1. data.units = Append(text, 0) /\ 0 \in Bytes
      BY <1>1, <2>2 DEF Bytes
    <3> QED  BY <1>1, <3>1, AppendProperties
  <2> QED  BY <2>1, <2>2
<1>3. Source.place = data.place
  BY <1>1 DEF Source, BytesSource, ByteArraySource
<1>4. TypeOK
  BY <1>1 DEF TypeOK, NoState
<1>5. BytesInPlace
  <2>1. data \in [place : {Source.place}, width : {1}, units : Seq(Bytes)]
    BY <1>1, <1>2, <1>3
  <2>2. \A k \in DOMAIN text : data.units[start + k] = text[k]
    BY <1>1, <1>2
  <2>3. start + Len(text) <= Len(data.units)
    BY <1>1, <1>2
  <2> QED  BY <2>1, <2>2, <2>3 DEF BytesInPlace
<1> QED  BY <1>1, <1>4, <1>5 DEF InductiveInv, StrInPlace

(* PyUnicode_READY and PyUnicode_AsUnicode *)
LEMMA StrStep ==
    ASSUME InductiveInv, Ready \/ AsUnicode
    PROVE  InductiveInv'
<1>1. class = "str" /\ UNCHANGED <<class, layout, text, start>>
  BY DEF Ready, AsUnicode
<1>2. WidthOf(text) \in {0, 1, 2, 4} /\ Least(text, 128) \in BOOLEAN
  BY WidthTyped DEF Least
<1>3. CASE Ready
  <2>1. /\ state' = [ready |-> TRUE, compact |-> FALSE, ascii |-> Least(text, 128),
                     kind |-> WidthOf(text)]
        /\ wstr' = IF WidthOf(text) = 2 THEN wstr ELSE <<>>
        /\ data' = [place |-> "any", width |-> WidthOf(text), units |-> text]
        /\ ~state.ready
    BY <1>3 DEF Ready
  <2>2. wstr = Utf16(text) /\ layout # "new"
    BY <1>1, <2>1 DEF InductiveInv, StrInPlace
  <2>3. InlinePlace' = "any"
    BY <2>1 DEF InlinePlace
  <2>4. StrInPlace'
    BY <1>1, <2>1, <2>2, <2>3 DEF StrInPlace
  <2> QED  BY <1>1, <1>2, <2>1, <2>4 DEF InductiveInv, TypeOK, BytesInPlace
<1>4. CASE AsUnicode
  <2>1. /\ layout = "old" /\ state.ready /\ wstr' = Utf16(text)
        /\ UNCHANGED <<state, data>>
    BY <1>4 DEF AsUnicode
  <2>2. InlinePlace' = InlinePlace
    BY <2>1 DEF InlinePlace
  <2>3. StrInPlace'
    BY <1>1, <2>1, <2>2 DEF InductiveInv, StrInPlace
  <2> QED  BY <1>1, <2>1, <2>3 DEF InductiveInv, TypeOK, BytesInPlace
<1> QED  BY <1>3, <1>4

(* The bytes of a bytearray stay at its start, whether it gets a new block *)
(* or not.                                                                 *)
LEMMA ResizeInv ==
    ASSUME InductiveInv, class = "bytearray", NEW t \in Seq(Bytes), NEW logical \in Nat,
           Resize(t, logical)
    PROVE  InductiveInv'
<1> DEFINE alloc == Len(data.units)
           size == Len(t)
           kept == [k \in 1..alloc |-> IF k \in logical + 1..logical + size THEN t[k - logical]
                                       ELSE IF k = logical + size + 1 THEN 0 ELSE data.units[k]]
<1>1. /\ data \in [place : {Source.place}, width : {1}, units : Seq(Bytes)]
      /\ TypeOK
  BY DEF InductiveInv, BytesInPlace
<1>2. /\ alloc \in Nat /\ size \in Nat /\ 0 \in Bytes
      /\ \A k \in 1..alloc : data.units[k] \in Bytes
      /\ \A k \in 1..size : t[k] \in Bytes
      /\ DOMAIN t = 1..size
  <2>1. data.units \in Seq(Bytes)
    BY <1>1
  <2>2. 0 \in Bytes
    BY DEF Bytes
  <2> QED  BY <2>1, <2>2, LenProperties
<1>3. /\ text' = t /\ UNCHANGED <<class, layout, state, wstr>>
  BY DEF Resize
<1>4. TypeOK' /\ Source' = Source
  <2>1. start' = logical \/ start' = 0
    BY DEF Resize
  <2>2. TypeOK'
    BY <1>1, <1>3, <2>1 DEF TypeOK
  <2> QED  BY <1>3, <2>2 DEF Source, BytesSource, ByteArraySource
<1>5. ASSUME NEW m \in Nat, NEW units \in [1..m -> Bytes], data' = [data EXCEPT !.units = units],
             start' + size <= m,
             \A k \in 1..size : units[start' + k] = t[k]
      PROVE  InductiveInv'
  <2>1. units \in Seq(Bytes) /\ Len(units) = m
    BY <1>5
  <2>2. data'.units = units /\ data' \in [place : {Source.place}, width : {1}, units : Seq(Bytes)]
    BY <1>1, <1>5, <2>1
  <2>3. BytesInPlace'
    BY <1>2, <1>3, <1>4, <1>5, <2>1, <2>2 DEF BytesInPlace
  <2> QED  BY <1>3, <1>4, <2>3 DEF InductiveInv, StrInPlace
<1>6. CASE size + logical + 1 <= alloc /\ size >= alloc \div 2
  <2>1. start' = logical /\ data' = [data EXCEPT !.units = kept]
    BY <1>6 DEF Resize
  <2>2. kept \in [1..alloc -> Bytes]
    BY <1>2
  <2>3. \A k \in 1..size : kept[logical + k] = t[k]
    <3> TAKE k \in 1..size
    <3>1. logical + k \in 1..alloc /\ logical + k \in logical + 1..logical + size
          /\ (logical + k) - logical = k
      BY <1>2, <1>6
    <3> QED  BY <3>1, Zenon
  <2> HIDE DEF kept, alloc
  <2>4. start' + size <= alloc
    BY <1>2, <1>6, <2>1
  <2> QED  BY <1>2, <1>5, <2>1, <2>2, <2>3, <2>4
<1>7. CASE ~(size + logical + 1 <= alloc /\ size >= alloc \div 2)
  <2> DEFINE new == IF size + logical + 1 <= alloc \/ size * 8 > alloc * 9 THEN size + 1
                    ELSE size + size \div 8 + (IF size < 9 THEN 3 ELSE 6)
             copied == [k \in 1..new |-> IF k <= size THEN t[k] ELSE 0]
  <2>1. start' = 0 /\ data' = [data EXCEPT !.units = copied]
    BY <1>7 DEF Resize
  <2>2. new \in Nat /\ new >= size
    <3> DEFINE eighth == size \div 8
    <3>1. eighth \in Nat
      BY <1>2
    <3>2. new \in {size + 1, size + eighth + 3, size + eighth + 6}
      OBVIOUS
    <3> HIDE DEF alloc, size, new, eighth
    <3> QED  BY <1>2, <3>1, <3>2
  <2> HIDE DEF new, alloc
  <2>3. copied \in [1..new -> Bytes] /\ \A k \in 1..size : copied[k] = t[k]
    BY <1>2, <2>2
  <2> HIDE DEF copied
  <2>4. \A k \in 1..size : start' + k = k
    BY <1>2, <2>1
  <2>5. start' + size <= new
    BY <1>2, <2>1, <2>2
  <2>6. \A k \in 1..size : copied[start' + k] = t[k]
    BY <2>3, <2>4
  <2> QED  BY <1>5, <2>1, <2>2, <2>3, <2>5, <2>6
<1> QED  BY <1>6, <1>7

LEMMA StepInv == InductiveInv /\ [Next]_vars => InductiveInv'
<1> SUFFICES ASSUME InductiveInv, [Next]_vars PROVE InductiveInv'
  OBVIOUS
<1>1. CASE Ready \/ AsUnicode
  BY <1>1, StrStep
<1>2. CASE DeleteBytes
  <2>1. PICK i \in 0..Len(text), j \in 0..Len(text) :
           /\ class = "bytearray" /\ i < j
           /\ Resize(SubSeq(text, 1, i) \o SubSeq(text, j + 1, Len(text)),
                     IF i = 0 THEN start + j ELSE start)
    BY <1>2 DEF DeleteBytes
  <2>2. text \in Seq(Bytes) /\ Len(text) \in Nat /\ start \in Nat
    BY <2>1, TextTyped DEF InductiveInv, TypeOK
  <2>3. SubSeq(text, 1, i) \in Seq(Bytes) /\ SubSeq(text, j + 1, Len(text)) \in Seq(Bytes)
    BY <2>2
  <2>4. SubSeq(text, 1, i) \o SubSeq(text, j + 1, Len(text)) \in Seq(Bytes)
    BY <2>3, ConcatProperties
  <2>5. (IF i = 0 THEN start + j ELSE start) \in Nat
    BY <2>2
  <2> QED  BY <2>1, <2>4, <2>5, ResizeInv
<1>3. CASE AppendByte
  <2>1. PICK t \in ByteTexts :
           class = "bytearray" /\ t # <<>> /\ Resize(Append(text, Head(t)), start)
    BY <1>3 DEF AppendByte
  <2>2. text \in Seq(Bytes) /\ start \in Nat
    BY <2>1, TextTyped DEF InductiveInv, TypeOK
  <2>3. t \in Seq(Bytes) /\ t # <<>>
    BY <2>1, StringsAssumption
  <2>4. Head(t) \in Bytes
    BY <2>3, HeadTailProperties
  <2>5. Append(text, Head(t)) \in Seq(Bytes)
    BY <2>2, <2>4, AppendProperties
  <2> QED  BY <2>1, <2>2, <2>5, ResizeInv
<1>4. CASE UNCHANGED vars
  <2>1. /\ UNCHANGED <<class, layout, text, state, wstr, data, start>>
        /\ InlinePlace' = InlinePlace /\ Source' = Source
    BY <1>4 DEF vars, InlinePlace, Source, StrSource, BytesSource, ByteArraySource
  <2> QED  BY <2>1 DEF InductiveInv, TypeOK, StrInPlace, BytesInPlace
<1> QED  BY <1>1, <1>2, <1>3, <1>4 DEF Next

(* Whatever the program does with its object, PyExt looks for the text     *)
(* where it is: PyUnicodeObject::stringValue and its siblings.             *)
THEOREM TextsStayInPlace == Spec => []InductiveInv
<1>1. Init => InductiveInv
  BY NewStrInv, NewBytesInv DEF Init
<1> QED  BY <1>1, StepInv, PTL DEF Spec

(* Nothing beyond the block of the text is shown, for every text and every *)
(* limit of one read.                                                      *)
THEOREM NothingElseIsRead == Spec => []ReadsInBounds
<1> QED  BY TextsStayInPlace, InBounds, PTL

-----------------------------------------------------------------------------
(* How one character is written. *)
Piece(c) == IF c = DoubleQuote THEN <<c>> ELSE EscapeCharacter(c)

LEMMA NamedCodes ==
    /\ \A m, n \in Named : m[1] = n[1] => m = n
    /\ \A m, n \in Named : m[2] = n[2] => m = n
    /\ \A n \in Named : /\ n[1] \in Bytes /\ n[2] \in Bytes
                        /\ n[2] # LetterX
BY DEF Named, Backslash, Quote, DoubleQuote, LetterX, Bytes

(* As itself, as a letter behind a backslash, or in hexadecimal. *)
AsItself(c) == Piece(c) = <<c>> /\ c # Quote /\ c # Backslash
AsLetter(c) == \E n \in Named : n[1] = c /\ Piece(c) = <<Backslash, n[2]>>
AsHex(c) == /\ ~IsPrint(c) /\ \A n \in Named : n[1] # c
            /\ Piece(c) = <<Backslash, LetterX, Digit(c % 16), Digit(c \div 16)>>

LEMMA PieceForms == ASSUME NEW c \in Bytes PROVE AsItself(c) \/ AsLetter(c) \/ AsHex(c)
<1>1. CASE c = DoubleQuote
  BY <1>1 DEF AsItself, Piece, DoubleQuote, Quote, Backslash
<1>2. CASE c # DoubleQuote /\ \E n \in Named : n[1] = c
  <2> DEFINE n == CHOOSE n \in Named : n[1] = c
  <2>1. n \in Named /\ n[1] = c
    BY <1>2
  <2>2. Piece(c) = <<Backslash, n[2]>>
    BY <1>2 DEF Piece, EscapeCharacter
  <2> HIDE DEF n
  <2> QED  BY <2>1, <2>2 DEF AsLetter
<1>3. CASE c # DoubleQuote /\ ~\E n \in Named : n[1] = c
  <2>1. CASE IsPrint(c)
    <3>1. Piece(c) = <<c>>
      BY <1>3, <2>1 DEF Piece, EscapeCharacter
    <3>2. c # Quote /\ c # Backslash
      <4>1. <<Quote, Quote>> \in Named /\ <<Backslash, Backslash>> \in Named
        BY DEF Named
      <4> QED  BY <1>3, <4>1
    <3> QED  BY <3>1, <3>2 DEF AsItself
  <2>2. CASE ~IsPrint(c)
    <3>1. Piece(c) = <<Backslash, LetterX>> \o CharToHex(c)
      BY <1>3, <2>2 DEF Piece, EscapeCharacter
    <3>2. ASSUME NEW a, NEW b, NEW x, NEW y PROVE <<a, b>> \o <<x, y>> = <<a, b, x, y>>
      <4> DEFINE S == {a, b, x, y}
                 left == <<a, b>> \o <<x, y>>
                 right == <<a, b, x, y>>
      <4>1. /\ <<a, b>> \in Seq(S) /\ <<x, y>> \in Seq(S)
            /\ right \in Seq(S) /\ Len(right) = 4
        OBVIOUS
      <4>2. left \in Seq(S) /\ Len(left) = 4
        BY <4>1, ConcatProperties
      <4>3. \A k \in 1..4 : left[k] = right[k]
        OBVIOUS
      <4> HIDE DEF left, right, S
      <4> QED  BY <4>1, <4>2, <4>3, SeqEqual DEF left, right
    <3>3. Piece(c) = <<Backslash, LetterX, Digit(c % 16), Digit(c \div 16)>>
      BY <3>1, <3>2 DEF CharToHex
    <3> QED  BY <1>3, <2>2, <3>3 DEF AsHex
  <2> QED  BY <2>1, <2>2
<1> QED  BY <1>1, <1>2, <1>3

LEMMA PieceTyped ==
    ASSUME NEW c \in Bytes
    PROVE  Piece(c) \in Seq(Nat) /\ Len(Piece(c)) \in Nat \ {0}
<1>1. CASE AsItself(c)
  BY <1>1 DEF AsItself, Bytes
<1>2. CASE AsLetter(c)
  <2>1. PICK n \in Named : Piece(c) = <<Backslash, n[2]>>
    BY <1>2 DEF AsLetter
  <2>2. Backslash \in Nat /\ n[2] \in Nat
    BY NamedCodes DEF Bytes, Backslash
  <2> QED  BY <2>1, <2>2
<1>3. CASE AsHex(c)
  <2>1. \A d \in Nat : Digit(d) \in Nat
    BY DEF Digit
  <2>2. c % 16 \in Nat /\ c \div 16 \in Nat /\ Backslash \in Nat /\ LetterX \in Nat
    BY DEF Bytes, Backslash, LetterX
  <2>3. Digit(c % 16) \in Nat /\ Digit(c \div 16) \in Nat
    BY <2>1, <2>2
  <2> QED  BY <1>3, <2>2, <2>3 DEF AsHex
<1> QED  BY <1>1, <1>2, <1>3, PieceForms

(* The literal of s: a quote, the pieces, each where off says, a quote.    *)
IsLiteral(lit, s, n, off) ==
    /\ off \in [0..n -> Nat] /\ off[0] = 0 /\ off[n] >= n
    /\ lit \in Seq(Nat) /\ Len(lit) = off[n] + 2
    /\ lit[off[n] + 2] = Quote
    /\ \A k \in 1..n : /\ off[k] = off[k - 1] + Len(Piece(s[k]))
                       /\ off[k] <= off[n]
                       /\ \A j \in 1..Len(Piece(s[k])) :
                             lit[off[k - 1] + j + 1] = Piece(s[k])[j]

LEMMA LiteralLayout ==
    ASSUME NEW n \in Nat, NEW s \in Seq(Bytes), Len(s) = n
    PROVE  \E off : IsLiteral(EscapeAndQuoteString(s), s, n, off)
<1> DEFINE P == [k \in DOMAIN s |->
                   IF s[k] = DoubleQuote THEN <<s[k]>> ELSE EscapeCharacter(s[k])]
           flat == FlattenSeq(P)
           lit == EscapeAndQuoteString(s)
<1>1. DOMAIN s = 1..n /\ \A k \in 1..n : s[k] \in Bytes
  OBVIOUS
<1>2. /\ P \in Seq(Seq(Nat)) /\ Len(P) = n
      /\ \A k \in 1..n : P[k] = Piece(s[k])
  <2>1. \A k \in 1..n : P[k] = Piece(s[k])
    BY <1>1 DEF Piece
  <2>2. \A k \in 1..n : P[k] \in Seq(Nat)
    BY <1>1, <2>1, PieceTyped
  <2>3. P \in [1..n -> Seq(Nat)]
    BY <1>1, <2>2
  <2> QED  BY <2>1, <2>3
<1>3. lit = <<Quote>> \o flat \o <<Quote>>
  BY DEF EscapeAndQuoteString
<1> HIDE DEF P, flat, lit
<1>4. flat \in Seq(Nat) /\ \E off : IsLayout(flat, P, n, off)
  BY <1>2, FlattenLayout DEF flat
<1>5. PICK off : IsLayout(flat, P, n, off)
  BY <1>4
<1>6. /\ off \in [0..n -> Nat] /\ off[0] = 0 /\ off[n] = Len(flat)
      /\ \A k \in 1..n : /\ off[k] = off[k - 1] + Len(Piece(s[k]))
                         /\ \A j \in 1..Len(Piece(s[k])) :
                               /\ off[k - 1] + j \in 1..Len(flat)
                               /\ flat[off[k - 1] + j] = Piece(s[k])[j]
  BY <1>2, <1>5, ZenonT(30) DEF IsLayout
<1>7. \A k \in 1..n : Len(Piece(s[k])) \in Nat \ {0}
  BY <1>1, PieceTyped
<1>8. off[n] >= n
  BY <1>2, <1>5, <1>6, <1>7, LayoutGrows
<1>9. /\ lit \in Seq(Nat) /\ Len(lit) = Len(flat) + 2
      /\ lit[Len(flat) + 2] = Quote
      /\ \A x \in 1..Len(flat) : lit[x + 1] = flat[x]
  <2>1. <<Quote>> \in Seq(Nat) /\ Len(<<Quote>>) = 1 /\ <<Quote>>[1] = Quote
    BY DEF Quote
  <2>2. Len(flat) \in Nat
    BY <1>4, LenProperties
  <2> DEFINE front == <<Quote>> \o flat
  <2>3. /\ front \in Seq(Nat) /\ Len(front) = 1 + Len(flat)
        /\ \A x \in 1..(1 + Len(flat)) : front[x] = IF x <= 1 THEN <<Quote>>[x] ELSE flat[x - 1]
    BY <1>4, <2>1, ConcatProperties
  <2> HIDE DEF front
  <2>4. /\ front \o <<Quote>> \in Seq(Nat) /\ Len(front \o <<Quote>>) = Len(front) + 1
        /\ \A x \in 1..(Len(front) + 1) :
              (front \o <<Quote>>)[x] =
                 IF x <= Len(front) THEN front[x] ELSE <<Quote>>[x - Len(front)]
    BY <2>1, <2>3, ConcatProperties
  <2>5. lit = front \o <<Quote>>
    BY <1>3 DEF front
  <2>6. lit[Len(flat) + 2] = Quote
    BY <2>1, <2>2, <2>3, <2>4, <2>5
  <2>7. ASSUME NEW x \in 1..Len(flat) PROVE lit[x + 1] = flat[x]
    BY <2>2, <2>3, <2>4, <2>5, SMTT(30)
  <2> QED  BY <2>2, <2>3, <2>4, <2>5, <2>6, <2>7
<1>10. ASSUME NEW k \in 1..n
       PROVE  /\ off[k] <= off[n]
              /\ \A j \in 1..Len(Piece(s[k])) : lit[off[k - 1] + j + 1] = Piece(s[k])[j]
  <2>1. ASSUME NEW j \in 1..Len(Piece(s[k]))
        PROVE  lit[off[k - 1] + j + 1] = Piece(s[k])[j]
    BY <1>6, <1>9, Zenon
  <2>2. off[k] <= off[n]
    <3> DEFINE len == Len(Piece(s[k]))
    <3>1. len \in Nat \ {0} /\ off[k] = off[k - 1] + len
      BY <1>6, <1>7
    <3>2. len \in 1..len
      BY <3>1
    <3>3. off[k - 1] + len \in 1..off[n]
      BY <1>6, <3>2
    <3> HIDE DEF len
    <3> QED  BY <3>1, <3>3
  <2> QED  BY <2>1, <2>2
<1>11. IsLiteral(lit, s, n, off)
  BY <1>6, <1>8, <1>9, <1>10 DEF IsLiteral
<1> QED  BY <1>11 DEF lit

(* A literal without anything between its quotes is that of no characters. *)
LEMMA EmptyLiteral ==
    ASSUME NEW s \in Seq(Bytes), EscapeAndQuoteString(s) = <<Quote, Quote>>
    PROVE  Len(s) = 0
<1> DEFINE n == Len(s)
<1>1. n \in Nat
  OBVIOUS
<1>2. PICK off : IsLiteral(<<Quote, Quote>>, s, n, off)
  BY <1>1, LiteralLayout
<1> HIDE DEF n
<1>3. off[n] + 2 = 2 /\ off[n] >= n /\ off[n] \in Nat
  BY <1>1, <1>2 DEF IsLiteral
<1> QED  BY <1>1, <1>3 DEF n

LEMMA NoFalseEmpty == InductiveInv => EmptyMeansEmpty
<1> SUFFICES ASSUME InductiveInv, Shown = <<Quote, Quote>> PROVE text = <<>>
  BY DEF EmptyMeansEmpty
<1>1. <<>> # <<Quote, Quote>>
  OBVIOUS
<1>2. /\ class = "str" => IsReady
      /\ EscapeAndQuoteString(StringValue) = <<Quote, Quote>>
  BY <1>1 DEF Shown
<1>3. StringValue \in Seq(Bytes) /\ Len(StringValue) = Len(text)
  BY <1>2, ValueRead
<1>4. Len(text) = 0
  BY <1>2, <1>3, EmptyLiteral
<1>5. text \in Seq(Nat)
  BY TextTyped DEF InductiveInv
<1> QED  BY <1>4, <1>5

(* Only what is empty is shown as empty, whatever is in the text. *)
THEOREM EmptyIsEmpty == Spec => []EmptyMeansEmpty
<1> QED  BY TextsStayInPlace, NoFalseEmpty, PTL

-----------------------------------------------------------------------------
(* Reading is defined by what the reader says of the places behind.        *)
IsReading(lit, m, from) ==
    /\ Reading(lit) = from[2]
    /\ \A i \in 1..(m + 4) : from[i] = ReadAt(lit, i, from)

LEMMA ReadingSteps ==
    ASSUME NEW m \in Nat, NEW lit \in Seq(Nat), Len(lit) = m
    PROVE  \E from : IsReading(lit, m, from)
<1> DEFINE D == 1..(m + 4)
           Meaning(b) == (CHOOSE x \in Named : x[2] = b)[1]
           V == Int \cup {Meaning(lit[j]) : j \in 1..m}
           R == [chars : Seq(V), end : Nat]
           rank == [i \in D |-> m + 4 - i]
           F == [p \in [D -> R] \X D |-> ReadAt(lit, p[2], p[1])]
           from == CHOOSE f : f = [i \in 1..Len(lit) + 4 |-> ReadAt(lit, i, f)]
<1>1. Reading(lit) = from[2]
  BY DEF Reading
<1>2. rank \in [D -> 0..(m + 4)] /\ \A i, j \in D : i < j => rank[j] < rank[i]
  OBVIOUS
<1>3. Broken \in R
  BY DEF Broken
<1>4. ASSUME NEW c \in V, NEW rest \in R PROVE Plus(c, rest) \in R
  <2>1. rest.chars \in Seq(V) /\ rest.end \in Nat
    OBVIOUS
  <2> HIDE DEF V
  <2>2. <<c>> \in Seq(V)
    OBVIOUS
  <2>3. <<c>> \o rest.chars \in Seq(V)
    BY <2>1, <2>2, ConcatProperties
  <2> QED  BY <2>1, <2>3 DEF Plus
<1>5. \A j \in 1..m : lit[j] \in Nat /\ lit[j] \in V /\ Meaning(lit[j]) \in V
  <2>1. \A j \in 1..m : lit[j] \in Nat
    BY LenProperties
  <2> HIDE DEF Meaning
  <2> QED  BY <2>1
<1>6. \A a, b \in Nat : 16 * DigitValue(a) + DigitValue(b) \in V
  <2>1. \A a, b \in Nat : 16 * DigitValue(a) + DigitValue(b) \in Int
    BY DEF DigitValue
  <2> QED  BY <2>1
<1>7. ASSUME NEW g \in [D -> R], NEW i \in D PROVE ReadAt(lit, i, g) \in R
  <2>1. CASE i > Len(lit)
    BY <1>3, <2>1 DEF ReadAt
  <2>2. CASE i <= m
    <3>1. /\ i \in 1..m /\ i + 1 \in D /\ i + 2 \in D /\ i + 4 \in D
          /\ g[i + 1] \in R /\ g[i + 2] \in R /\ g[i + 4] \in R
      <4>1. i \in 1..m /\ i + 1 \in D /\ i + 2 \in D /\ i + 4 \in D
        BY <2>2
      <4> HIDE DEF D, R
      <4> QED  BY <4>1
    <3>2. [chars |-> <<>>, end |-> i] \in R
      <4>1. <<>> \in Seq(V)
        OBVIOUS
      <4>2. i \in Nat
        BY <1>7
      <4> HIDE DEF V, D
      <4> QED  BY <4>1, <4>2
    <3>3. i < m => i + 1 \in 1..m
      BY <2>2
    <3>4. ~(i + 3 > m) => i + 2 \in 1..m /\ i + 3 \in 1..m
      BY <2>2
    <3> HIDE DEF R, V, D, Meaning
    <3>5. ~(i + 3 > m) =>
             Plus(16 * DigitValue(lit[i + 2]) + DigitValue(lit[i + 3]), g[i + 4]) \in R
      BY <1>4, <1>5, <1>6, <3>1, <3>4
    <3>6. i < m => Plus(Meaning(lit[i + 1]), g[i + 2]) \in R
      BY <1>4, <1>5, <3>1, <3>3
    <3>7. Plus(lit[i], g[i + 1]) \in R
      BY <1>4, <1>5, <3>1
    <3> QED  BY <1>3, <2>2, <3>1, <3>2, <3>5, <3>6, <3>7 DEF ReadAt, Meaning
  <2> QED  BY <2>1, <2>2
<1>8. ASSUME NEW g \in [D -> R], NEW h \in [D -> R], NEW i \in D,
             \A j \in D : rank[j] < rank[i] => g[j] = h[j]
      PROVE  ReadAt(lit, i, g) = ReadAt(lit, i, h)
  <2>1. CASE i > Len(lit)
    BY <2>1 DEF ReadAt
  <2>2. CASE i <= m
    <3>1. i + 1 \in D /\ i + 2 \in D /\ i + 4 \in D
      BY <2>2
    <3>2. i < i + 1 /\ i < i + 2 /\ i < i + 4
      OBVIOUS
    <3>3. g[i + 1] = h[i + 1] /\ g[i + 2] = h[i + 2] /\ g[i + 4] = h[i + 4]
      <4> HIDE DEF rank, D
      <4> QED  BY <1>2, <1>8, <3>1, <3>2
    <3> QED  BY <3>3 DEF ReadAt
  <2> QED  BY <2>1, <2>2
<1>9. PICK g \in [D -> R] : \A i \in D : g[i] = ReadAt(lit, i, g)
  <2> HIDE DEF D, R, rank, from
  <2>1. F \in [[D -> R] \X D -> R]
    BY <1>7
  <2>2. \A h \in [D -> R], i \in D : F[<<h, i>>] = ReadAt(lit, i, h)
    OBVIOUS
  <2> HIDE DEF F
  <2>3. LooksBelow(D, R, rank, F)
    <3> SUFFICES ASSUME NEW h \in [D -> R], NEW u \in [D -> R], NEW i \in D,
                        \A j \in D : rank[j] < rank[i] => h[j] = u[j]
                 PROVE  F[<<h, i>>] = F[<<u, i>>]
      BY DEF LooksBelow
    <3>1. ReadAt(lit, i, h) = ReadAt(lit, i, u)
      BY <1>8
    <3> QED  BY <2>2, <3>1
  <2>4. R # {} /\ m + 4 \in Nat
    BY <1>3
  <2>5. \E g \in [D -> R] : Solution(D, F, g)
    BY <1>2, <2>1, <2>3, <2>4, RecursiveFunction
  <2> QED  BY <2>2, <2>5 DEF Solution
<1>10. from = [i \in D |-> ReadAt(lit, i, from)]
  <2>1. g = [i \in D |-> ReadAt(lit, i, g)]
    <3> HIDE DEF R, D
    <3> QED  BY <1>9
  <2> QED  BY <2>1
<1> HIDE DEF from
<1>11. IsReading(lit, m, from)
  BY <1>1, <1>10 DEF IsReading
<1> QED  BY <1>11

(* A byte that stands for itself is not read as another one. *)
LEMMA ReadInHex == \A c \in Bytes : AsItself(c) => ~InHex(c)
<1>1. ASSUME NEW c \in Bytes, AsItself(c), InHex(c) PROVE FALSE
  <2>1. <<DoubleQuote, DoubleQuote>> \in Named /\ <<DoubleQuote, DoubleQuote>>[1] = DoubleQuote
    BY DEF Named
  <2>2. c # DoubleQuote
    BY <1>1, <2>1 DEF InHex
  <2>3. Piece(c) = <<Backslash, LetterX>> \o CharToHex(c)
    BY <1>1, <2>2 DEF InHex, Piece, EscapeCharacter
  <2>4. Len(Piece(c)) = 4
    BY <2>3 DEF CharToHex
  <2>5. Len(Piece(c)) = 1
    BY <1>1 DEF AsItself
  <2> QED  BY <2>4, <2>5
<1> QED  BY <1>1

LEMMA ReadAsByte == \A c \in Bytes : ReadAs(c) \in Bytes
<1>1. ASSUME NEW c \in Bytes PROVE 16 * (c % 16) + (c \div 16) \in Bytes
  <2>1. c % 16 \in 0..15 /\ c \div 16 \in 0..15
    BY DEF Bytes
  <2> QED  BY <2>1 DEF Bytes
<1> QED  BY <1>1 DEF ReadAs

(* The reader finds each character again, or the one it takes it for.      *)
LEMMA ReadsOne ==
    ASSUME NEW n \in Nat, NEW s \in Seq(Bytes), Len(s) = n, NEW off, NEW lit, NEW from,
           IsLiteral(lit, s, n, off), IsReading(lit, off[n] + 2, from),
           NEW k \in 1..n
    PROVE  from[off[k - 1] + 2] = Plus(ReadAs(s[k]), from[off[k] + 2])
<1> DEFINE c == s[k]
           i == off[k - 1] + 2
           m == off[n] + 2
           len == Len(Piece(c))
<1>1. c \in Bytes /\ len \in Nat \ {0}
  BY PieceTyped
<1>2. off[k - 1] \in Nat /\ off[n] \in Nat
  <2>1. k - 1 \in 0..n /\ n \in 0..n
    OBVIOUS
  <2>2. off \in [0..n -> Nat]
    BY DEF IsLiteral
  <2> QED  BY <2>1, <2>2, Zenon
<1>3. /\ off[k] = off[k - 1] + len /\ off[k] <= off[n] /\ Len(lit) = m
      /\ \A j \in 1..len : lit[off[k - 1] + j + 1] = Piece(c)[j]
  BY DEF IsLiteral
<1> HIDE DEF c, i, m, len
<1>4. i \in Nat /\ m \in Nat /\ i >= 2 /\ off[k] + 2 = i + len /\ i + len <= m
  <2>1. \A a, b, x, y \in Nat : x = a + b /\ x <= y =>
           a + 2 \in Nat /\ y + 2 \in Nat /\ a + 2 >= 2 /\ x + 2 = a + 2 + b /\ a + 2 + b <= y + 2
    OBVIOUS
  <2>2. off[k] \in Nat
    BY <1>1, <1>2, <1>3
  <2> QED  BY <1>1, <1>2, <1>3, <2>1, <2>2, Zenon DEF i, m
<1>5. ASSUME NEW j \in 1..len PROVE lit[i + (j - 1)] = Piece(c)[j]
  <2>1. off[k - 1] + j + 1 = i + (j - 1)
    BY <1>1, <1>2 DEF i
  <2> QED  BY <1>3, <2>1
<1>6. from[i] = ReadAt(lit, i, from)
  <2>1. i \in 1..(m + 4)
    <3>1. len \in Nat
      BY <1>1
    <3> QED  BY <1>4, <3>1
  <2> QED  BY <2>1, Zenon DEF IsReading, m
<1>7. lit[i] = Piece(c)[1] /\ ~(i > Len(lit))
  <2>1. 1 \in 1..len /\ i + (1 - 1) = i
    BY <1>1, <1>4
  <2> QED  BY <1>1, <1>3, <1>4, <1>5, <2>1
<1>8. CASE AsItself(c)
  <2>1. len = 1 /\ lit[i] = c /\ c # Quote /\ c # Backslash
    BY <1>7, <1>8 DEF AsItself, len
  <2>2. ReadAt(lit, i, from) = Plus(c, from[i + 1])
    BY <1>7, <2>1 DEF ReadAt
  <2>3. ReadAs(c) = c
    BY <1>1, <1>8, ReadInHex DEF ReadAs
  <2> QED  BY <1>4, <1>6, <2>1, <2>2, <2>3 DEF c, i
<1>9. CASE AsLetter(c)
  <2>1. PICK x \in Named : x[1] = c /\ Piece(c) = <<Backslash, x[2]>>
    BY <1>9 DEF AsLetter
  <2>2. len = 2 /\ Piece(c)[1] = Backslash /\ Piece(c)[2] = x[2]
    BY <2>1 DEF len
  <2>3. lit[i] = Backslash /\ lit[i + 1] = x[2] /\ i < Len(lit)
    <3>1. 2 \in 1..len /\ i + (2 - 1) = i + 1
      BY <1>4, <2>2
    <3>2. lit[i + 1] = Piece(c)[2]
      BY <1>5, <3>1
    <3> QED  BY <1>3, <1>4, <1>7, <2>2, <3>2
  <2>4. (CHOOSE y \in Named : y[2] = x[2]) = x
    BY NamedCodes
  <2>5. Backslash # Quote /\ x[2] # LetterX
    BY NamedCodes DEF Backslash, Quote
  <2>6. ReadAt(lit, i, from) = Plus(x[1], from[i + 2])
    BY <1>7, <2>3, <2>4, <2>5 DEF ReadAt
  <2>7. ReadAs(c) = c
    BY <2>1 DEF ReadAs, InHex
  <2> QED  BY <1>4, <1>6, <2>1, <2>2, <2>6, <2>7 DEF c, i
<1>10. CASE AsHex(c)
  <2>1. Piece(c) = <<Backslash, LetterX, Digit(c % 16), Digit(c \div 16)>>
    BY <1>10 DEF AsHex
  <2>2. len = 4 /\ Piece(c)[1] = Backslash /\ Piece(c)[2] = LetterX
        /\ Piece(c)[3] = Digit(c % 16) /\ Piece(c)[4] = Digit(c \div 16)
    BY <2>1 DEF len
  <2>3. /\ lit[i] = Backslash /\ lit[i + 1] = LetterX
        /\ lit[i + 2] = Digit(c % 16) /\ lit[i + 3] = Digit(c \div 16)
        /\ i < Len(lit) /\ ~(i + 3 > Len(lit))
    <3>1. /\ 2 \in 1..len /\ i + (2 - 1) = i + 1
          /\ 3 \in 1..len /\ i + (3 - 1) = i + 2
          /\ 4 \in 1..len /\ i + (4 - 1) = i + 3
      BY <1>4, <2>2
    <3>2. /\ lit[i + 1] = Piece(c)[2] /\ lit[i + 2] = Piece(c)[3]
          /\ lit[i + 3] = Piece(c)[4]
      BY <1>5, <3>1
    <3> QED  BY <1>3, <1>4, <1>7, <2>2, <3>2
  <2>4. 16 * DigitValue(Digit(c % 16)) + DigitValue(Digit(c \div 16)) = ReadAs(c)
    <3>1. c % 16 \in 0..15 /\ c \div 16 \in 0..15
      BY <1>1 DEF Bytes
    <3>2. ReadAs(c) = 16 * (c % 16) + (c \div 16)
      BY <1>10 DEF AsHex, ReadAs, InHex
    <3>3. \A d \in 0..15 : DigitValue(Digit(d)) = d
      BY DEF DigitValue, Digit
    <3> QED  BY <3>1, <3>2, <3>3
  <2>5. Backslash # Quote
    BY DEF Backslash, Quote
  <2>6. ReadAt(lit, i, from) = Plus(ReadAs(c), from[i + 4])
    BY <1>7, <2>3, <2>4, <2>5 DEF ReadAt
  <2> QED  BY <1>4, <1>6, <2>2, <2>6 DEF c, i
<1> QED  BY <1>1, <1>8, <1>9, <1>10, PieceForms

(* The reader finds all characters, and the literal ends with its closing  *)
(* quote.                                                                  *)
LEMMA ReadingEscaped ==
    ASSUME NEW s \in Seq(Bytes)
    PROVE  Reading(EscapeAndQuoteString(s)) =
              [chars |-> [k \in DOMAIN s |-> ReadAs(s[k])],
               end |-> Len(EscapeAndQuoteString(s))]
<1> DEFINE n == Len(s)
           lit == EscapeAndQuoteString(s)
           t == [k \in DOMAIN s |-> ReadAs(s[k])]
<1>1. n \in Nat /\ DOMAIN s = 1..n /\ s \in [1..n -> Bytes]
  BY LenProperties
<1>2. PICK off : IsLiteral(lit, s, n, off)
  BY <1>1, LiteralLayout
<1>0. /\ t \in Seq(Bytes) /\ Len(t) = n /\ t \in [1..n -> Bytes]
      /\ \A k \in 1..n : t[k] = ReadAs(s[k])
  <2>1. \A k \in 1..n : ReadAs(s[k]) \in Bytes
    BY <1>1, ReadAsByte
  <2>2. t \in [1..n -> Bytes]
    BY <1>1, <2>1
  <2> QED  BY <1>1, <2>2
<1> HIDE DEF n, lit, t
<1>3. /\ off \in [0..n -> Nat] /\ off[0] = 0
      /\ lit \in Seq(Nat) /\ Len(lit) = off[n] + 2 /\ lit[off[n] + 2] = Quote
  BY <1>2 DEF IsLiteral
<1>4. off[n] \in Nat /\ off[n] + 2 \in Nat
  BY <1>1, <1>3
<1>5. PICK from : IsReading(lit, off[n] + 2, from)
  BY <1>3, <1>4, ReadingSteps
<1> DEFINE S == {d \in 0..n : from[off[n - d] + 2] =
                                 [chars |-> SubSeq(t, n - d + 1, n), end |-> Len(lit)]}
<1>6. 0 \in S
  <2>1. from[off[n] + 2] = ReadAt(lit, off[n] + 2, from)
    BY <1>4, <1>5 DEF IsReading
  <2>2. ReadAt(lit, off[n] + 2, from) = [chars |-> <<>>, end |-> Len(lit)]
    BY <1>3, <1>4 DEF ReadAt
  <2>3. SubSeq(t, n - 0 + 1, n) = <<>>
    BY <1>0, <1>1
  <2>4. n - 0 = n /\ 0 \in 0..n
    BY <1>1
  <2> QED  BY <2>1, <2>2, <2>3, <2>4
<1>7. ASSUME NEW d \in 0..(n - 1), d \in S PROVE d + 1 \in S
  <2> DEFINE k == n - d
  <2>1. k \in 1..n /\ k - 1 = n - (d + 1) /\ d + 1 \in 0..n /\ n - (d + 1) + 1 = k
    BY <1>1
  <2>2. from[off[k] + 2] = [chars |-> SubSeq(t, k + 1, n), end |-> Len(lit)]
    BY <1>7
  <2> HIDE DEF k, S
  <2>3. from[off[k - 1] + 2] = Plus(t[k], from[off[k] + 2])
    <3>1. Len(s) = n
      BY DEF n
    <3>2. from[off[k - 1] + 2] = Plus(ReadAs(s[k]), from[off[k] + 2])
      BY <1>1, <1>2, <1>5, <2>1, <3>1, ReadsOne
    <3> QED  BY <1>0, <2>1, <3>2
  <2>4. <<t[k]>> \o SubSeq(t, k + 1, n) = SubSeq(t, k, n)
    <3> DEFINE rest == SubSeq(t, k + 1, n)
               left == <<t[k]>> \o rest
               right == SubSeq(t, k, n)
    <3>1. /\ rest \in Seq(Bytes) /\ Len(rest) = n - k
          /\ \A x \in 1..(n - k) : rest[x] = t[k + x]
      BY <1>0, <1>1, <2>1
    <3>2. /\ right \in Seq(Bytes) /\ Len(right) = (n - k) + 1
          /\ \A x \in 1..((n - k) + 1) : right[x] = t[k + x - 1]
      BY <1>0, <1>1, <2>1
    <3>3. <<t[k]>> \in Seq(Bytes) /\ Len(<<t[k]>>) = 1 /\ <<t[k]>>[1] = t[k]
      BY <1>0, <1>1, <2>1
    <3> HIDE DEF rest, right
    <3>4. /\ left \in Seq(Bytes) /\ Len(left) = 1 + (n - k)
          /\ \A x \in 1..(1 + (n - k)) : left[x] = IF x <= 1 THEN t[k] ELSE rest[x - 1]
      <4>1. /\ left \in Seq(Bytes) /\ Len(left) = 1 + Len(rest)
            /\ \A x \in 1..(1 + Len(rest)) :
                  left[x] = IF x <= 1 THEN <<t[k]>>[x] ELSE rest[x - 1]
        BY <3>1, <3>3, ConcatProperties
      <4> HIDE DEF left
      <4>2. \A x \in 1..(1 + (n - k)) : x <= 1 => x = 1
        BY <1>1, <2>1
      <4> QED  BY <3>1, <3>3, <4>1, <4>2
    <3> HIDE DEF left
    <3>5. ASSUME NEW x \in 1..((n - k) + 1) PROVE left[x] = right[x]
      <4>1. CASE x = 1
        <5>1. left[x] = t[k] /\ right[x] = t[k + 1 - 1] /\ k + 1 - 1 = k
          BY <1>1, <2>1, <3>2, <3>4, <4>1
        <5> QED  BY <5>1
      <4>2. CASE x # 1
        <5>1. x - 1 \in 1..(n - k) /\ k + (x - 1) = k + x - 1 /\ ~(x <= 1)
              /\ x \in 1..(1 + (n - k))
          BY <1>1, <2>1, <4>2
        <5>2. left[x] = rest[x - 1]
          BY <3>4, <5>1
        <5>3. rest[x - 1] = t[k + (x - 1)]
          BY <3>1, <5>1
        <5> QED  BY <3>2, <5>1, <5>2, <5>3
      <4> QED  BY <4>1, <4>2
    <3>6. Len(left) = Len(right) /\ Len(right) = (n - k) + 1
      BY <1>1, <2>1, <3>2, <3>4
    <3>7. left = right
      BY <3>2, <3>4, <3>5, <3>6, SeqEqual
    <3> QED  BY <3>7 DEF left, right, rest
  <2>5. from[off[k - 1] + 2] = [chars |-> SubSeq(t, k, n), end |-> Len(lit)]
    <3>1. \A x, y, e : Plus(x, [chars |-> y, end |-> e]) = [chars |-> <<x>> \o y, end |-> e]
      BY DEF Plus
    <3> DEFINE X == SubSeq(t, k + 1, n)
               Y == SubSeq(t, k, n)
    <3>2. Plus(t[k], [chars |-> X, end |-> Len(lit)]) = [chars |-> <<t[k]>> \o X, end |-> Len(lit)]
      BY <3>1
    <3>3. from[off[k] + 2] = [chars |-> X, end |-> Len(lit)] /\ <<t[k]>> \o X = Y
      BY <2>2, <2>4
    <3> HIDE DEF X, Y
    <3>4. from[off[k - 1] + 2] = [chars |-> Y, end |-> Len(lit)]
      BY <2>3, <3>2, <3>3
    <3> QED  BY <3>4 DEF Y
  <2> QED  BY <2>1, <2>5 DEF S
<1>8. n \in S
  <2> HIDE DEF S
  <2>1. 0..n \subseteq S
    BY <1>1, <1>6, <1>7, BoundedInduction
  <2> QED  BY <1>1, <2>1
<1>9. n - n = 0 /\ n - n + 1 = 1
  BY <1>1
<1>10. from[off[0] + 2] = [chars |-> SubSeq(t, 1, n), end |-> Len(lit)]
  BY <1>8, <1>9
<1>11. SubSeq(t, 1, n) = t
  BY <1>0, <1>1
<1>12. Reading(lit) = from[2] /\ off[0] + 2 = 2
  BY <1>3, <1>5 DEF IsReading
<1> QED  BY <1>10, <1>11, <1>12 DEF lit, t

(* All that is read is the text.                                           *)
LEMMA TheTextIsRead ==
    ASSUME InductiveInv, IsReady, ~ReadShort, ~FrontDeleted
    PROVE  StringValue = TextBytes
<1> DEFINE n == Len(text)
           w == Source.width
           units == At(Source.place).units
<1>1. /\ n \in Nat /\ text \in Seq(Nat) /\ DOMAIN text = 1..n
      /\ class = "str" => text \in Seq(CodePoints)
  BY TextTyped DEF InductiveInv
<1>2. StringLength = n /\ w \in {1, 2, 4}
  BY ReadBlock
<1>3. /\ StringValue \in Seq(Bytes) /\ Len(StringValue) = n
      /\ \A k \in 1..n : StringValue[k] = IF IsRead(k) THEN units[k] % 256 ELSE 0
  BY ValueRead
<1>4. \A k \in 1..n : units[k] = text[k]
  <2>1. CASE class = "str"
    <3>1. /\ data = [place |-> InlinePlace, width |-> state.kind, units |-> text]
          /\ wstr \in {<<>>, text, Utf16(text)}
      BY <2>1 DEF InductiveInv, StrInPlace, IsReady
    <3>2. Source = StrSource
      BY <2>1 DEF Source
    <3>3. CASE layout = "old" /\ wstr # <<>>
      <4>1. At(Source.place).units = wstr
        <5>1. data.place # "wstr" /\ Source.place = "wstr"
          BY <3>1, <3>2, <3>3 DEF InlinePlace, StrSource
        <5> QED  BY <5>1 DEF At
      <4>2. wstr = text
        <5>1. ~(Len(wstr) > Len(text))
          BY <2>1 DEF ReadShort
        <5>2. CASE wstr = Utf16(text)
          <6>1. /\ Utf16(text) \in Seq(Nat) /\ Len(Utf16(text)) >= n
                /\ Len(Utf16(text)) = n => Utf16(text) = text
            BY <1>1, <2>1, Utf16Typed
          <6>2. Len(Utf16(text)) \in Nat
            BY <6>1, LenProperties
          <6> QED  BY <1>1, <5>1, <5>2, <6>1, <6>2
        <5> QED  BY <3>1, <3>3, <5>2
      <4> QED  BY <4>1, <4>2
    <3>4. CASE ~(layout = "old" /\ wstr # <<>>)
      <4>1. data.place = Source.place /\ Source.place # "wstr" /\ data.units = text
        BY <3>1, <3>2, <3>4 DEF StrSource, InlinePlace
      <4>2. At(Source.place) = data
        BY <4>1 DEF At
      <4> QED  BY <4>1, <4>2
    <3> QED  BY <3>3, <3>4
  <2>2. CASE class # "str"
    <3>1. /\ data \in [place : {Source.place}, width : {1}, units : Seq(Bytes)]
          /\ class = "bytes" => start = 0
          /\ \A k \in DOMAIN text : data.units[start + k] = text[k]
      BY <2>2 DEF InductiveInv, BytesInPlace
    <3>2. start = 0
      BY <2>2, <3>1 DEF InductiveInv, TypeOK, FrontDeleted
    <3>3. Source.place # "wstr"
      BY <2>2 DEF InductiveInv, TypeOK, Source, BytesSource, ByteArraySource
    <3>4. At(Source.place) = data
      BY <3>1, <3>3 DEF At
    <3>5. \A k \in 1..n : start + k = k
      BY <1>1, <3>2
    <3> HIDE DEF n
    <3> QED  BY <1>1, <3>1, <3>4, <3>5
  <2> QED  BY <2>1, <2>2
<1>5. Extent = Taken
  BY <1>2 DEF Extent, Taken
<1> HIDE DEF n, w, units
<1>6. TextBytes = [k \in 1..n |-> IF IsRead(k) THEN text[k] % 256 ELSE 0]
  BY <1>1, <1>5 DEF TextBytes, IsRead
<1>7. \A k \in 1..n : StringValue[k] = IF IsRead(k) THEN text[k] % 256 ELSE 0
  BY <1>3, <1>4
<1>8. StringValue = [k \in 1..n |-> StringValue[k]]
  BY <1>3, LenProperties
<1> QED  BY <1>6, <1>7, <1>8

LEMMA ReadBack == InductiveInv => ReadsBack
<1> SUFFICES ASSUME InductiveInv, IsReady, ~Refused
             PROVE  /\ Reading(Shown) =
                          [chars |-> [k \in DOMAIN StringValue |-> ReadAs(StringValue[k])],
                           end |-> Len(Shown)]
                    /\ ~ReadShort /\ ~FrontDeleted => StringValue = TextBytes
  BY DEF ReadsBack
<1>1. Shown = EscapeAndQuoteString(StringValue)
  BY DEF Shown
<1>2. StringValue \in Seq(Bytes)
  BY ValueRead
<1> QED  BY <1>1, <1>2, ReadingEscaped, TheTextIsRead

(* Whatever is read from the object, and however long it is, the literal   *)
(* is one that Python reads back byte for byte, those in hexadecimal with  *)
(* their digits exchanged; and what is read is the text, to the low byte   *)
(* of each character that one read takes, unless a wide copy is longer     *)
(* than the text or the start of a bytearray has moved.                    *)
THEOREM LiteralsReadBack == Spec => []ReadsBack
<1> QED  BY TextsStayInPlace, ReadBack, PTL

-----------------------------------------------------------------------------
(* Totals, and the places of the entries of a table. *)

(* Totals obeys its equation.                                              *)
LEMMA TotalsSteps ==
    ASSUME NEW s \in Seq(Int)
    PROVE  /\ Totals(s) \in [0..Len(s) -> Int] /\ Totals(s)[0] = 0
           /\ \A k \in 1..Len(s) : Totals(s)[k] = Totals(s)[k - 1] + s[k]
<1> DEFINE n == Len(s)
           D == 0..n
           Step(g, k) == IF k = 0 THEN 0 ELSE g[k - 1] + s[k]
           F == [p \in [D -> Int] \X D |-> Step(p[1], p[2])]
           rank == [k \in D |-> k]
           f == CHOOSE f : f = [k \in 0..Len(s) |-> IF k = 0 THEN 0 ELSE f[k - 1] + s[k]]
<1>1. Totals(s) = f /\ n \in Nat
  BY DEF Totals
<1>2. ASSUME NEW g \in [D -> Int], NEW k \in D PROVE Step(g, k) \in Int
  <2>1. k # 0 => k - 1 \in D /\ s[k] \in Int
    BY <1>1
  <2> QED  BY <2>1
<1>3. rank \in [D -> 0..n] /\ \A k \in D : rank[k] = k
  OBVIOUS
<1>4. PICK g \in [D -> Int] : \A k \in D : g[k] = Step(g, k)
  <2> HIDE DEF D, rank, Step, f, n
  <2>1. F \in [[D -> Int] \X D -> Int]
    BY <1>2
  <2>2. \A h \in [D -> Int], k \in D : F[<<h, k>>] = Step(h, k)
    OBVIOUS
  <2> HIDE DEF F
  <2>3. LooksBelow(D, Int, rank, F)
    <3> SUFFICES ASSUME NEW h \in [D -> Int], NEW u \in [D -> Int], NEW k \in D,
                        \A j \in D : rank[j] < rank[k] => h[j] = u[j]
                 PROVE  F[<<h, k>>] = F[<<u, k>>]
      BY DEF LooksBelow
    <3>1. k # 0 => k - 1 \in D /\ rank[k - 1] < rank[k]
      BY <1>1, <1>3 DEF D
    <3>2. Step(h, k) = Step(u, k)
      BY <3>1 DEF Step
    <3> QED  BY <2>2, <3>2
  <2>4. \E h \in [D -> Int] : Solution(D, F, h)
    <3>1. Int # {} /\ n \in Nat
      BY <1>1
    <3> QED  BY <1>3, <2>1, <2>3, <3>1, RecursiveFunction
  <2> QED  BY <2>2, <2>4 DEF Solution
<1>5. f = [k \in D |-> Step(f, k)]
  <2>1. g = [k \in D |-> Step(g, k)]
    <3> HIDE DEF Step, D
    <3> QED  BY <1>4
  <2> QED  BY <2>1
<1> HIDE DEF f, F, rank
<1>6. f[0] = 0 /\ \A k \in 1..n : f[k] = f[k - 1] + s[k]
  BY <1>1, <1>5
<1>7. f \in [D -> Int]
  <2> DEFINE S == {k \in 0..n : f[k] \in Int}
  <2>1. 0 \in S
    BY <1>1, <1>6
  <2>2. ASSUME NEW k \in 0..(n - 1), k \in S PROVE k + 1 \in S
    <3>1. k + 1 \in 1..n /\ (k + 1) - 1 = k /\ s[k + 1] \in Int
      BY <1>1
    <3>2. f[k + 1] = f[k] + s[k + 1]
      BY <1>6, <3>1
    <3> QED  BY <2>2, <3>1, <3>2
  <2> HIDE DEF S
  <2>3. 0..n \subseteq S
    BY <1>1, <2>1, <2>2, BoundedInduction
  <2>4. \A k \in D : f[k] \in Int
    BY <2>3 DEF S
  <2> QED  BY <1>5, <2>4
<1> QED  BY <1>1, <1>6, <1>7

HaveLengths(seqs, n) == DOMAIN seqs = 1..n /\ \A k \in 1..n : Len(seqs[k]) \in Nat

(* Where the pieces of a sequence begin is the total of their lengths.     *)
LEMMA LayoutIsTotals ==
    ASSUME NEW n \in Nat, NEW seqs, HaveLengths(seqs, n), NEW flat, NEW off,
           IsLayout(flat, seqs, n, off)
    PROVE  Totals(Lengths(seqs)) = off
<1>0. DOMAIN seqs = 1..n /\ \A k \in 1..n : Len(seqs[k]) \in Nat
  BY DEF HaveLengths
<1> DEFINE L == Lengths(seqs)
<1>1. L \in Seq(Int) /\ Len(L) = n /\ \A k \in 1..n : L[k] = Len(seqs[k])
  <2>1. L \in [1..n -> Int]
    BY <1>0 DEF Lengths
  <2> QED  BY <1>0, <2>1 DEF Lengths
<1> HIDE DEF L
<1>2. /\ Totals(L) \in [0..n -> Int] /\ Totals(L)[0] = 0
      /\ \A k \in 1..n : Totals(L)[k] = Totals(L)[k - 1] + L[k]
  BY <1>1, TotalsSteps
<1>3. /\ off \in [0..n -> Nat] /\ off[0] = 0
      /\ \A k \in 1..n : off[k] = off[k - 1] + Len(seqs[k])
  BY DEF IsLayout
<1> DEFINE S == {k \in 0..n : Totals(L)[k] = off[k]}
<1>4. 0 \in S
  BY <1>2, <1>3
<1>5. ASSUME NEW k \in 0..(n - 1), k \in S PROVE k + 1 \in S
  <2>1. k + 1 \in 1..n /\ (k + 1) - 1 = k
    OBVIOUS
  <2>2. Totals(L)[k + 1] = Totals(L)[k] + L[k + 1] /\ L[k + 1] = Len(seqs[k + 1])
    BY <1>1, <1>2, <2>1
  <2>3. off[k + 1] = off[k] + Len(seqs[k + 1])
    BY <1>3, <2>1
  <2> QED  BY <1>5, <2>1, <2>2, <2>3
<1>6. 0..n \subseteq S
  <2> HIDE DEF S
  <2> QED  BY <1>4, <1>5, BoundedInduction
<1>7. Totals(L) = off
  BY <1>2, <1>3, <1>6
<1> QED  BY <1>7 DEF L

(* A table is its entries one behind the other, and the entries are those  *)
(* of each run one behind the other.                                       *)
IsTable(entries, V) == /\ entries \in Seq(Seq(V))
                       /\ \A e \in V : e \in Seq(Nat) /\ Len(e) > 0
All(entries) == FlattenSeq(entries)

IsPlaced(entries, i) ==
    /\ i - 1 \in 0..Len(All(entries)) /\ Place(entries, i - 1) \in Nat
    /\ Place(entries, i) = Place(entries, i - 1) + Len(All(entries)[i])
    /\ \A x \in 1..Len(All(entries)[i]) :
          /\ Place(entries, i - 1) + x \in 1..Len(Joined(entries))
          /\ Joined(entries)[Place(entries, i - 1) + x] = All(entries)[i][x]

(* Each entry of a table is where Place says, one behind the other.        *)
LEMMA TablePlaces ==
    ASSUME NEW V, NEW entries, IsTable(entries, V)
    PROVE  /\ All(entries) \in Seq(V) /\ Joined(entries) \in Seq(Nat)
           /\ Place(entries, 0) = 0
           /\ Place(entries, Len(All(entries))) = Len(Joined(entries))
           /\ \A i \in 1..Len(All(entries)) : IsPlaced(entries, i)
<1> DEFINE G == All(entries)
           n == Len(G)
           T == Joined(entries)
<1>1. G \in Seq(V)
  BY FlattenLayout DEF IsTable, All
<1>2. G \in Seq(Seq(Nat)) /\ n \in Nat /\ DOMAIN G = 1..n /\ T = FlattenSeq(G)
  <2>1. V \subseteq Seq(Nat)
    BY DEF IsTable
  <2> HIDE DEF G
  <2>2. G \in Seq(Seq(Nat)) /\ n \in Nat /\ DOMAIN G = 1..n
    BY <1>1, <2>1
  <2> QED  BY <2>2 DEF Joined, All, G
<1> HIDE DEF G, n, T
<1>3. T \in Seq(Nat) /\ \E off : IsLayout(T, G, n, off)
  BY <1>2, FlattenLayout DEF n
<1>4. PICK off : IsLayout(T, G, n, off)
  BY <1>3
<1>5. HaveLengths(G, n)
  BY <1>2 DEF HaveLengths
<1>6. /\ Totals(Lengths(G)) = off
      /\ \A i \in 1..n : off[i - 1] \in Nat /\ off[i] = off[i - 1] + Len(G[i])
  <2>1. Totals(Lengths(G)) = off
    BY <1>2, <1>4, <1>5, LayoutIsTotals
  <2>2. \A i \in 1..n : i - 1 \in 0..n
    BY <1>2
  <2> QED  BY <1>4, <2>1, <2>2 DEF IsLayout
<1>7. \A i : Place(entries, i) = off[i]
  BY <1>6 DEF Place, G, All
<1>8. /\ off[0] = 0 /\ off[n] = Len(T)
      /\ \A i \in 1..n : \A x \in 1..Len(G[i]) :
            off[i - 1] + x \in 1..Len(T) /\ T[off[i - 1] + x] = G[i][x]
  BY <1>4 DEF IsLayout
<1>9. \A i \in 1..n : i - 1 \in 0..n
  BY <1>2
<1>10. \A i \in 1..n : /\ i - 1 \in 0..n /\ Place(entries, i - 1) \in Nat
                         /\ Place(entries, i) = Place(entries, i - 1) + Len(G[i])
                         /\ \A x \in 1..Len(G[i]) :
                              /\ Place(entries, i - 1) + x \in 1..Len(T)
                              /\ T[Place(entries, i - 1) + x] = G[i][x]
  <2> SUFFICES ASSUME NEW i \in 1..n
               PROVE  /\ i - 1 \in 0..n /\ off[i - 1] \in Nat /\ off[i] = off[i - 1] + Len(G[i])
                      /\ \A x \in 1..Len(G[i]) :
                           off[i - 1] + x \in 1..Len(T) /\ T[off[i - 1] + x] = G[i][x]
    BY <1>7, SMTT(30)
  <2> QED  BY <1>6, <1>8, <1>9, Zenon
<1>11. Place(entries, 0) = 0 /\ Place(entries, n) = Len(T)
  BY <1>7, <1>8
<1>12. \A i \in 1..n : IsPlaced(entries, i)
  BY <1>10, Zenon DEF IsPlaced, G, n, T
<1> QED  BY <1>1, <1>3, <1>11, <1>12 DEF G, n, T

(* The entries of a run follow each other in the table.                    *)
LEMMA RunPlaces ==
    ASSUME NEW V, NEW entries, IsTable(entries, V)
    PROVE  /\ Len(entries) \in Nat /\ DOMAIN entries = 1..Len(entries)
           /\ Totals(Lengths(entries))[0] = 0
           /\ Totals(Lengths(entries))[Len(entries)] = Len(All(entries))
           /\ \A k \in 1..Len(entries) :
                 /\ entries[k] \in Seq(V) /\ Totals(Lengths(entries))[k - 1] \in Nat
                 /\ Totals(Lengths(entries))[k] =
                       Totals(Lengths(entries))[k - 1] + Len(entries[k])
                 /\ \A j \in 1..Len(entries[k]) :
                       /\ Totals(Lengths(entries))[k - 1] + j \in 1..Len(All(entries))
                       /\ All(entries)[Totals(Lengths(entries))[k - 1] + j] = entries[k][j]
<1> DEFINE n == Len(entries)
           G == All(entries)
<1>1. entries \in Seq(Seq(V))
  BY DEF IsTable
<1>2. n \in Nat /\ DOMAIN entries = 1..n /\ \A k \in 1..n : entries[k] \in Seq(V)
        /\ Len(entries[k]) \in Nat
  BY <1>1
<1>3. \E off : IsLayout(G, entries, n, off)
  BY <1>1, <1>2, FlattenLayout DEF All
<1> HIDE DEF n, G
<1>4. PICK off : IsLayout(G, entries, n, off)
  BY <1>3
<1>5. /\ Totals(Lengths(entries)) = off
      /\ \A k \in 1..n : off[k - 1] \in Nat /\ off[k] = off[k - 1] + Len(entries[k])
  <2>1. HaveLengths(entries, n)
    BY <1>2 DEF HaveLengths
  <2>2. Totals(Lengths(entries)) = off
    BY <1>2, <1>4, <2>1, LayoutIsTotals
  <2>3. \A k \in 1..n : k - 1 \in 0..n
    BY <1>2
  <2> QED  BY <1>4, <2>2, <2>3 DEF IsLayout
<1>6. /\ off[0] = 0 /\ off[n] = Len(G)
      /\ \A k \in 1..n : \A j \in 1..Len(entries[k]) :
            off[k - 1] + j \in 1..Len(G) /\ G[off[k - 1] + j] = entries[k][j]
  BY <1>4 DEF IsLayout
<1> QED  BY <1>2, <1>5, <1>6 DEF n, G

-----------------------------------------------------------------------------
(* Lengths and deltas that are split. *)

IsSplit(s, d, min, max) ==
    /\ s \in Seq(min..max) /\ Len(s) \in Nat \ {0}
    /\ \A j \in 1..Len(s) : s[j] = Partial(d, min, max, j) - Partial(d, min, max, j - 1)
    /\ \A j \in Int : j >= Len(s) => Partial(d, min, max, j) = d

(* All steps but the last are of the same size.                            *)
LEMMA SplitAt ==
    ASSUME NEW q \in Nat, NEW b, NEW r, NEW min, NEW max, b \in min..max, r \in min..max
    PROVE  LET s == [k \in 1..q |-> b] \o <<r>>
           IN  /\ s \in Seq(min..max) /\ Len(s) = q + 1
               /\ \A j \in 1..(q + 1) : s[j] = IF j <= q THEN b ELSE r
<1> DEFINE u == [k \in 1..q |-> b]
<1>1. u \in Seq(min..max) /\ Len(u) = q /\ \A k \in 1..q : u[k] = b
  OBVIOUS
<1>2. <<r>> \in Seq(min..max) /\ Len(<<r>>) = 1 /\ <<r>>[1] = r
  OBVIOUS
<1> HIDE DEF u
<1>3. /\ u \o <<r>> \in Seq(min..max) /\ Len(u \o <<r>>) = q + 1
      /\ \A j \in 1..(q + 1) : (u \o <<r>>)[j] = IF j <= q THEN u[j] ELSE <<r>>[j - q]
  BY <1>1, <1>2, ConcatProperties
<1>4. \A j \in 1..(q + 1) : IF j <= q THEN j \in 1..q ELSE j - q = 1
  OBVIOUS
<1> QED  BY <1>1, <1>2, <1>3, <1>4 DEF u

(* q times m and a rest; what the partial sums then are. *)
IsQuotient(n, m, q, r) == q \in Nat /\ r \in 0..(m - 1) /\ n = m * q + r
StepsAre(d, min, max, q, b, r) ==
    /\ \A j \in 1..(q + 1) :
          Partial(d, min, max, j) - Partial(d, min, max, j - 1) = IF j <= q THEN b ELSE r
    /\ \A j \in Int : j >= q + 1 => Partial(d, min, max, j) = d

(* Quotient and remainder.                                                 *)
LEMMA Division ==
    ASSUME NEW n \in Nat, NEW m \in {127, 128, 254, 255}
    PROVE  IsQuotient(n, m, n \div m, n % m)
<1>1. CASE m = 127
  BY <1>1, SMT DEF IsQuotient
<1>2. CASE m = 128
  BY <1>2, SMT DEF IsQuotient
<1>3. CASE m = 254
  BY <1>3, SMT DEF IsQuotient
<1>4. CASE m = 255
  BY <1>4, SMT DEF IsQuotient
<1> QED  BY <1>1, <1>2, <1>3, <1>4

(* A length in steps of at most max: the first q are max, the last is the  *)
(* rest.                                                                   *)
LEMMA UpSteps ==
    ASSUME NEW n \in Nat, NEW q \in Nat, NEW r \in Nat, NEW min \in Int, min <= 0,
           NEW m \in {127, 254, 255}, IsQuotient(n, m, q, r)
    PROVE  StepsAre(n, min, m, q, m, r)
<1>1. \A j \in Nat : Partial(n, min, m, j) = IF n > m * j THEN m * j ELSE n
  <2> TAKE j \in Nat
  <2>1. min * j <= 0 /\ min * j \in Int
    <3>1. \A x, y \in Nat : x * y \in Nat
      OBVIOUS
    <3>2. min * j = -((-min) * j)
      OBVIOUS
    <3> QED  BY <3>1, <3>2
  <2> QED  BY <2>1 DEF Partial
<1>2. CASE m = 127
  BY <1>1, <1>2 DEF IsQuotient, StepsAre
<1>3. CASE m = 254
  BY <1>1, <1>3 DEF IsQuotient, StepsAre
<1>4. CASE m = 255
  BY <1>1, <1>4 DEF IsQuotient, StepsAre
<1> QED  BY <1>2, <1>3, <1>4

(* Chunks splits a length.                                                 *)
LEMMA ChunksSplit ==
    ASSUME NEW n \in Nat, NEW m \in {127, 254, 255}, NEW min \in Int, min <= 0
    PROVE  IsSplit(Chunks(n, m), n, min, m)
<1> DEFINE q == n \div m
           r == n % m
<1>1. q \in Nat /\ r \in 0..(m - 1) /\ n = m * q + r
  BY Division DEF IsQuotient
<1>2. m \in Nat /\ m \in min..m /\ r \in min..m /\ r \in Nat /\ r < m
  BY <1>1
<1>3. Chunks(n, m) = [k \in 1..q |-> m] \o <<r>>
  BY DEF Chunks
<1> HIDE DEF q, r
<1>4. /\ Chunks(n, m) \in Seq(min..m) /\ Len(Chunks(n, m)) = q + 1
      /\ \A j \in 1..(q + 1) : Chunks(n, m)[j] = IF j <= q THEN m ELSE r
  BY <1>1, <1>2, <1>3, SplitAt
<1>5. StepsAre(n, min, m, q, m, r)
  <2>1. IsQuotient(n, m, q, r)
    BY <1>1 DEF IsQuotient
  <2> QED  BY <1>1, <1>2, <2>1, UpSteps
<1> QED  BY <1>1, <1>4, <1>5 DEF IsSplit, StepsAre

(* The same for a negative delta.                                          *)
LEMMA DownSteps ==
    ASSUME NEW n \in Nat, NEW q \in Nat, NEW r \in Nat,
           NEW m \in {127, 128}, IsQuotient(n, m, q, r)
    PROVE  StepsAre(-n, -m, 127, q, -m, -r)
<1>1. CASE m = 127
  <2>1. \A j \in Int : Partial(-n, -127, 127, j) =
           IF j <= 0 THEN 0 ELSE IF -n < (-127) * j THEN (-127) * j ELSE -n
    BY DEF Partial
  <2> QED  BY <1>1, <2>1 DEF IsQuotient, StepsAre
<1>2. CASE m = 128
  <2>1. \A j \in Int : Partial(-n, -128, 127, j) =
           IF j <= 0 THEN 0 ELSE IF -n < (-128) * j THEN (-128) * j ELSE -n
    BY DEF Partial
  <2> QED  BY <1>2, <2>1 DEF IsQuotient, StepsAre
<1> QED  BY <1>1, <1>2

(* Deltas splits a delta.                                                  *)
LEMMA DeltasSplit ==
    ASSUME NEW d \in Int, NEW m \in {127, 128}
    PROVE  IsSplit(Deltas(d, m, 127), d, -m, 127)
<1>1. -m \in Int /\ -m <= 0 /\ d \in Int /\ -(-m) = m
  OBVIOUS
<1>2. CASE d > 127
  <2>1. Deltas(d, m, 127) = Chunks(d, 127) /\ d \in Nat
    BY <1>2 DEF Deltas
  <2> QED  BY <1>1, <2>1, ChunksSplit
<1>3. CASE d < -m
  <2> DEFINE n == -d
             q == n \div m
             r == n % m
  <2>1. Deltas(d, m, 127) = [k \in 1..q |-> -m] \o <<-r>>
    <3>1. ~(d > 127)
      BY <1>3
    <3>2. Deltas(d, m, 127) = IF d > 127 THEN Chunks(d, 127) ELSE IF d < -m
             THEN [k \in 1..((-d) \div m) |-> -m] \o <<-((-d) % m)>> ELSE <<d>>
      BY DEF Deltas
    <3> HIDE DEF Deltas
    <3> QED  BY <1>3, <3>1, <3>2
  <2>2. n \in Nat /\ -n = d
    BY <1>3
  <2>3. q \in Nat /\ r \in 0..(m - 1) /\ n = m * q + r
    <3> HIDE DEF n
    <3>1. CASE m = 127
      BY <2>2, <3>1, SMT
    <3>2. CASE m = 128
      BY <2>2, <3>2, SMT
    <3> QED  BY <3>1, <3>2
  <2> HIDE DEF q, r, n
  <2>4. /\ -m \in (-m)..127 /\ -r \in (-m)..127 /\ r \in Nat /\ r < m
    BY <2>3
  <2>5. /\ Deltas(d, m, 127) \in Seq((-m)..127) /\ Len(Deltas(d, m, 127)) = q + 1
        /\ \A j \in 1..(q + 1) : Deltas(d, m, 127)[j] = IF j <= q THEN -m ELSE -r
    BY <2>1, <2>3, <2>4, SplitAt
  <2>6. StepsAre(d, -m, 127, q, -m, -r)
    <3>1. IsQuotient(n, m, q, r)
      BY <2>3 DEF IsQuotient
    <3>2. StepsAre(-n, -m, 127, q, -m, -r)
      BY <2>2, <2>3, <2>4, <3>1, DownSteps
    <3> QED  BY <2>2, <3>2
  <2>7. q + 1 \in Nat \ {0}
    BY <2>3
  <2> DEFINE low == -m
             rest == -r
             s == Deltas(d, m, 127)
  <2>8. /\ s \in Seq(low..127) /\ Len(s) = q + 1
        /\ \A j \in 1..(q + 1) : s[j] = IF j <= q THEN low ELSE rest
    BY <2>5
  <2>9. StepsAre(d, low, 127, q, low, rest)
    BY <2>6
  <2>10. IsSplit(s, d, low, 127)
    <3> HIDE DEF low, rest, s
    <3>1. \A j \in 1..(q + 1) : s[j] = Partial(d, low, 127, j) - Partial(d, low, 127, j - 1)
      <4> TAKE j \in 1..(q + 1)
      <4>1. s[j] = IF j <= q THEN low ELSE rest
        BY <2>8
      <4>2. Partial(d, low, 127, j) - Partial(d, low, 127, j - 1) = IF j <= q THEN low ELSE rest
        BY <2>9 DEF StepsAre
      <4> QED  BY <4>1, <4>2
    <3>2. \A j \in Int : j >= q + 1 => Partial(d, low, 127, j) = d
      BY <2>9 DEF StepsAre
    <3> QED  BY <2>7, <2>8, <3>1, <3>2 DEF IsSplit
  <2> QED  BY <2>10
<1>4. CASE d \in (-m)..127
  <2> DEFINE s == <<d>>
  <2>1. Deltas(d, m, 127) = s
    BY <1>4 DEF Deltas
  <2>2. s \in Seq((-m)..127) /\ Len(s) = 1 /\ s[1] = d
    BY <1>4
  <2>3. \A j \in Int : Partial(d, -m, 127, j) = IF j <= 0 THEN 0 ELSE d
    <3>1. CASE m = 127
      BY <1>4, <3>1 DEF Partial
    <3>2. CASE m = 128
      BY <1>4, <3>2 DEF Partial
    <3> QED  BY <3>1, <3>2
  <2> HIDE DEF s
  <2>4. Len(s) \in Nat \ {0} /\ \A j \in 1..Len(s) : j = 1
    BY <2>2
  <2>5. Partial(d, -m, 127, 1) = d /\ Partial(d, -m, 127, 1 - 1) = 0
    BY <2>3
  <2>6. \A j \in Int : j >= Len(s) => Partial(d, -m, 127, j) = d
    BY <2>2, <2>3
  <2>7. \A j \in 1..Len(s) : s[j] = Partial(d, -m, 127, j) - Partial(d, -m, 127, j - 1)
    <3> TAKE j \in 1..Len(s)
    <3>1. j = 1
      BY <2>4
    <3>2. s[1] = Partial(d, -m, 127, 1) - Partial(d, -m, 127, 1 - 1)
      BY <2>2, <2>5
    <3> QED  BY <3>1, <3>2
  <2>8. IsSplit(s, d, -m, 127)
    BY <2>2, <2>4, <2>6, <2>7, Zenon DEF IsSplit
  <2> QED  BY <2>1, <2>8
<1> QED  BY <1>1, <1>2, <1>3, <1>4

-----------------------------------------------------------------------------
(* What each decoder makes of an entry. *)

(* A byte read as signed is the number it was written for.                 *)
LEMMA SignedByte ==
    ASSUME NEW d \in -128..127
    PROVE  Byte(d) \in 0..255 /\ Byte(d) - (IF Byte(d) >= 128 THEN 256 ELSE 0) = d
<1>1. CASE d < 0
  <2>1. Byte(d) = d + 256
    BY <1>1 DEF Byte
  <2> QED  BY <1>1, <2>1
<1>2. CASE ~(d < 0)
  <2>1. Byte(d) = d
    BY <1>2 DEF Byte
  <2> QED  BY <1>2, <2>1
<1> QED  BY <1>1, <1>2, Zenon

(* The decoder of 3.10 reads the delta that was written.                   *)
LEMMA SignedDelta ==
    /\ \A d \in -127..127 : Byte(d) \in 0..255 /\ NewDelta(Byte(d)) = d
    /\ Byte(-128) = 128 /\ NewDelta(128) = 0
<1>1. ASSUME NEW d \in -127..127 PROVE Byte(d) \in 0..255 /\ NewDelta(Byte(d)) = d
  <2>1. CASE d < 0
    <3>1. Byte(d) = d + 256
      BY <2>1 DEF Byte
    <3> QED  BY <2>1, <3>1 DEF NewDelta
  <2>2. CASE ~(d < 0)
    <3>1. Byte(d) = d
      BY <2>2 DEF Byte
    <3> QED  BY <2>2, <3>1 DEF NewDelta
  <2> QED  BY <2>1, <2>2, Zenon
<1>2. Byte(-128) = 128
  <2>1. Byte(-128) \in 0..255 /\ Byte(-128) - (IF Byte(-128) >= 128 THEN 256 ELSE 0) = -128
    <3>1. -128 \in -128..127
      OBVIOUS
    <3> QED  BY <3>1, SignedByte
  <2> QED  BY <2>1
<1> QED  BY <1>1, <1>2, ZenonT(30) DEF NewDelta

(* A varint of one byte.                                                   *)
LEMMA VarintOfOne ==
    ASSUME NEW at \in Nat, table[at] \in 0..63
    PROVE  ReadVarint(at) = [value |-> table[at], behind |-> at + 1]
<1> DEFINE IsEnd(k) == /\ (table[k] \div 64) % 2 = 0
                       /\ \A j \in at..(k - 1) : (table[j] \div 64) % 2 = 1
           end == CHOOSE k \in at..(at + 5) : IsEnd(k)
           value == CHOOSE f : f = [k \in at..end |->
                       (table[k] % 64) + (IF k = end THEN 0 ELSE 64 * f[k + 1])]
<1>1. ReadVarint(at) = [value |-> value[at], behind |-> end + 1]
  BY DEF ReadVarint
<1>2. (table[at] \div 64) % 2 = 0 /\ table[at] % 64 = table[at]
  BY SMT
<1>3. end = at
  <2>1. at \in at..(at + 5) /\ IsEnd(at)
    BY <1>2
  <2>2. ASSUME NEW k \in at..(at + 5), IsEnd(k) PROVE k = at
    BY <1>2, <2>2
  <2> HIDE DEF IsEnd
  <2> QED  BY <2>1, <2>2
<1> HIDE DEF end
<1>4. value[at] = table[at]
  <2> DEFINE g == [k \in at..end |-> table[at]]
  <2>1. g = [k \in at..end |-> (table[k] % 64) + (IF k = end THEN 0 ELSE 64 * g[k + 1])]
    BY <1>2, <1>3
  <2>2. value = [k \in at..end |-> (table[k] % 64) + (IF k = end THEN 0 ELSE 64 * value[k + 1])]
    <3> HIDE DEF g
    <3> QED  BY <2>1, ZenonT(30)
  <2> HIDE DEF value
  <2>3. at \in at..end /\ table[at] \in Int
    BY <1>3
  <2>4. value[at] = (table[at] % 64) + (IF at = end THEN 0 ELSE 64 * value[at + 1])
    BY <2>2, <2>3
  <2> QED  BY <1>2, <1>3, <2>3, <2>4
<1> QED  BY <1>1, <1>3, <1>4

(* A varint of two bytes.                                                  *)
LEMMA VarintOfTwo ==
    ASSUME NEW at \in Nat, table[at] \in 64..127, table[at + 1] \in 0..63
    PROVE  ReadVarint(at) = [value |-> table[at] - 64 + 64 * table[at + 1], behind |-> at + 2]
<1> DEFINE IsEnd(k) == /\ (table[k] \div 64) % 2 = 0
                       /\ \A j \in at..(k - 1) : (table[j] \div 64) % 2 = 1
           end == CHOOSE k \in at..(at + 5) : IsEnd(k)
           value == CHOOSE f : f = [k \in at..end |->
                       (table[k] % 64) + (IF k = end THEN 0 ELSE 64 * f[k + 1])]
<1>1. ReadVarint(at) = [value |-> value[at], behind |-> end + 1]
  BY DEF ReadVarint
<1>2. /\ (table[at] \div 64) % 2 = 1 /\ table[at] % 64 = table[at] - 64
      /\ (table[at + 1] \div 64) % 2 = 0 /\ table[at + 1] % 64 = table[at + 1]
  BY SMT
<1>3. end = at + 1
  <2>1. at + 1 \in at..(at + 5) /\ IsEnd(at + 1)
    <3>1. \A j \in at..((at + 1) - 1) : j = at
      OBVIOUS
    <3> QED  BY <1>2, <3>1
  <2>2. ASSUME NEW k \in at..(at + 5), IsEnd(k) PROVE k = at + 1
    <3>1. k # at
      BY <1>2, <2>2
    <3>2. k > at + 1 => at + 1 \in at..(k - 1)
      OBVIOUS
    <3> QED  BY <1>2, <2>2, <3>1, <3>2
  <2> HIDE DEF IsEnd
  <2> QED  BY <2>1, <2>2
<1> HIDE DEF end
<1>4. value[at] = table[at] - 64 + 64 * table[at + 1]
  <2> DEFINE g == [k \in at..end |-> (table[k] % 64) + (IF k = end THEN 0 ELSE 64 * table[at + 1])]
  <2>1. g = [k \in at..end |-> (table[k] % 64) + (IF k = end THEN 0 ELSE 64 * g[k + 1])]
    <3>1. ASSUME NEW k \in at..end, k # end PROVE g[k + 1] = table[at + 1]
      <4>1. k + 1 = end /\ at + 1 = end /\ end \in at..end
        BY <1>3, <3>1
      <4>2. g[end] = (table[end] % 64) + 0
        BY <4>1
      <4>3. table[end] % 64 = table[at + 1] /\ table[at + 1] \in Int
        BY <1>2, <4>1
      <4> HIDE DEF g
      <4>4. g[end] = table[at + 1]
        BY <4>2, <4>3
      <4> QED  BY <4>1, <4>4
    <3> DEFINE rest(k) == 64 * g[k + 1]
               last == 64 * table[at + 1]
    <3>2. \A k \in at..end : k # end => rest(k) = last
      <4> HIDE DEF g
      <4> QED  BY <3>1
    <3>3. g = [k \in at..end |-> (table[k] % 64) + (IF k = end THEN 0 ELSE last)]
      OBVIOUS
    <3> HIDE DEF last, rest
    <3>4. g = [k \in at..end |-> (table[k] % 64) + (IF k = end THEN 0 ELSE rest(k))]
      <4> HIDE DEF g
      <4> QED  BY <3>2, <3>3
    <3> USE DEF rest
    <3> HIDE DEF g
    <3> QED  BY <3>4
  <2>2. value = [k \in at..end |-> (table[k] % 64) + (IF k = end THEN 0 ELSE 64 * value[k + 1])]
    <3> HIDE DEF g
    <3> QED  BY <2>1
  <2> HIDE DEF value
  <2>3. at \in at..end /\ at + 1 \in at..end /\ table[at] \in Int /\ table[at + 1] \in Int
          /\ at # end
    BY <1>3
  <2>4. value[at + 1] = (table[at + 1] % 64) + 0
    BY <1>3, <2>2, <2>3
  <2>5. value[at] = (table[at] % 64) + 64 * value[at + 1]
    BY <2>2, <2>3
  <2> QED  BY <1>2, <2>3, <2>4, <2>5
<1> QED  BY <1>1, <1>3, <1>4

IsCoded(d, n) == n \in Nat /\ n < 4096 /\ Signed(n) = d /\ Svarint(d) = Varint(n)

(* A signed varint is a varint of a number that Signed takes back.         *)
LEMMA SvarintCodes ==
    ASSUME NEW d \in Jumps
    PROVE  \E n : IsCoded(d, n)
<1> DEFINE n == IF d < 0 THEN 2 * (-d) + 1 ELSE 2 * d
<1>1. n \in Nat /\ n < 4096 /\ Signed(n) = d
  <2>1. CASE d < 0
    BY <2>1, SMT DEF Signed, Jumps
  <2>2. CASE ~(d < 0)
    BY <2>2, SMT DEF Signed, Jumps
  <2> QED  BY <2>1, <2>2
<1>2. Svarint(d) = Varint(n)
  BY DEF Svarint
<1> HIDE DEF n
<1>3. IsCoded(d, n)
  BY <1>1, <1>2 DEF IsCoded
<1> QED  BY <1>3

IsAt(at, e) == \A x \in 1..Len(e) : table[at + x - 1] = e[x]

(* The loop of readVarint stops behind the varint, with its value.         *)
LEMMA ReadsSvarint ==
    ASSUME NEW at \in Nat, NEW d \in Jumps, IsAt(at, Svarint(d))
    PROVE  /\ Svarint(d) \in Seq(Nat) /\ Len(Svarint(d)) \in 1..2
           /\ Signed(ReadVarint(at).value) = d
           /\ ReadVarint(at).behind = at + Len(Svarint(d))
<1>1. PICK n : IsCoded(d, n)
  BY SvarintCodes
<1>2. n \in Nat /\ n < 4096 /\ Signed(n) = d /\ Svarint(d) = Varint(n)
  BY <1>1 DEF IsCoded
<1>3. CASE n < 64
  <2>1. Svarint(d) = <<n>> /\ n \in 0..63
    BY <1>2, <1>3 DEF Varint
  <2>2. Svarint(d) \in Seq(Nat) /\ Len(Svarint(d)) = 1 /\ Svarint(d)[1] = n
    BY <2>1
  <2>3. table[at] = n
    <3>1. at + 1 - 1 = at /\ 1 \in 1..Len(Svarint(d))
      BY <2>2
    <3> QED  BY <2>2, <3>1 DEF IsAt
  <2>4. table[at] \in 0..63
    BY <2>1, <2>3
  <2>5. ReadVarint(at) = [value |-> table[at], behind |-> at + 1]
    BY <2>4, VarintOfOne
  <2> QED  BY <1>2, <2>1, <2>2, <2>3, <2>5
<1>4. CASE ~(n < 64)
  <2> DEFINE a == 64 + (n % 64)
             b == n \div 64
  <2>1. Svarint(d) = <<a, b>>
    BY <1>2, <1>4 DEF Varint
  <2>2. a \in 64..127 /\ b \in 0..63 /\ a - 64 + 64 * b = n
    BY <1>2, SMT
  <2> HIDE DEF a, b
  <2>3. /\ Svarint(d) \in Seq(Nat) /\ Len(Svarint(d)) = 2
        /\ Svarint(d)[1] = a /\ Svarint(d)[2] = b
    BY <2>1, <2>2
  <2>4. table[at] = a /\ table[at + 1] = b
    <3>1. at + 1 - 1 = at /\ at + 2 - 1 = at + 1 /\ 1 \in 1..Len(Svarint(d))
            /\ 2 \in 1..Len(Svarint(d))
      BY <2>3
    <3> QED  BY <2>3, <3>1 DEF IsAt
  <2>5. table[at] \in 64..127 /\ table[at + 1] \in 0..63
    BY <2>2, <2>4
  <2>6. ReadVarint(at) = [value |-> table[at] - 64 + 64 * table[at + 1], behind |-> at + 2]
    BY <2>5, VarintOfTwo
  <2>7. ReadVarint(at).value = n /\ ReadVarint(at).behind = at + 2
    BY <2>2, <2>4, <2>6
  <2> QED  BY <1>2, <2>3, <2>7
<1> QED  BY <1>3, <1>4

(* The columns and the end line of the long form. *)
LEMMA LongFormRest ==
    ASSUME NEW at \in Nat, IsAt(at, <<1, 70, 1, 86, 2>>)
    PROVE  BehindLongForm(at) = at + 5
<1>1. /\ table[at] = 1 /\ table[at + 1] = 70 /\ table[at + 1 + 1] = 1
      /\ table[at + 3] = 86 /\ table[at + 3 + 1] = 2
  <2> DEFINE e == <<1, 70, 1, 86, 2>>
  <2>1. Len(e) = 5 /\ e[1] = 1 /\ e[2] = 70 /\ e[3] = 1 /\ e[4] = 86 /\ e[5] = 2
    OBVIOUS
  <2>2. \A x \in 1..5 : table[at + x - 1] = e[x]
    BY <2>1 DEF IsAt
  <2> HIDE DEF e
  <2>3. /\ table[at + 1 - 1] = 1 /\ table[at + 2 - 1] = 70 /\ table[at + 3 - 1] = 1
        /\ table[at + 4 - 1] = 86 /\ table[at + 5 - 1] = 2
    BY <2>1, <2>2
  <2> QED  BY <2>3
<1>2. ReadVarint(at).behind = at + 1
  BY <1>1, VarintOfOne
<1>3. ReadVarint(at + 1).behind = at + 3
  <2>1. at + 1 \in Nat /\ (at + 1) + 2 = at + 3 /\ table[at + 1] \in 64..127
          /\ table[(at + 1) + 1] \in 0..63
    BY <1>1
  <2> QED  BY <2>1, VarintOfTwo
<1>4. ReadVarint(at + 3).behind = at + 5
  <2>1. at + 3 \in Nat /\ (at + 3) + 2 = at + 5 /\ table[at + 3] \in 64..127
          /\ table[(at + 3) + 1] \in 0..63
    BY <1>1
  <2> QED  BY <2>1, VarintOfTwo
<1> QED  BY <1>2, <1>3, <1>4 DEF BehindLongForm

-----------------------------------------------------------------------------
(* The entries of a location table. *)

Units == 1..8
LocationSet == {Location(u, d, full) : u \in Units, d \in Jumps \cup {NoLine}, full \in BOOLEAN}
Jump(d) == IF d = NoLine THEN 0 ELSE d

(* What a round has to leave behind. *)
Reads(e, units, d) == /\ it' = it + Len(e) /\ addr' = addr + 2 * units
                      /\ line' = line + Jump(d)

IsHead(h, c, u) == h \in Nat /\ (h \div 8) % 16 = c /\ (h % 8) + 1 = u

(* The first byte of a location has its code and its code units.           *)
LEMMA HeadOfEntry ==
    ASSUME NEW u \in Units, NEW c \in {5, 11, 12, 13, 14, 15}
    PROVE  IsHead(128 + 8 * c + (u - 1), c, u)
<1> DEFINE h == 128 + 8 * c + (u - 1)
<1>1. h \in Nat /\ h \div 8 = 16 + c /\ h % 8 = u - 1
  BY SMT DEF Units
<1>2. (16 + c) % 16 = c
  BY SMT
<1>3. (u - 1) + 1 = u
  BY DEF Units
<1>4. IsHead(h, c, u)
  <2> HIDE DEF h
  <2> QED  BY <1>1, <1>2, <1>3 DEF IsHead
<1> QED  BY <1>4, Zenon

IsForm(e, u, d, c, h) ==
    /\ IsHead(h, c, u)
    /\ \/ c = 15 /\ e = <<h>> /\ d = NoLine
       \/ c = 5 /\ e = <<h, 130>> /\ d = 0
       \/ c \in {11, 12} /\ e = <<h, 3, 200>> /\ d = c - 10
       \/ c = 13 /\ e = <<h>> \o Svarint(d) /\ d \in Jumps
       \/ c = 14 /\ e = <<h>> \o Svarint(d) \o <<1>> \o <<70, 1>> \o <<86, 2>> /\ d \in Jumps

(* Each location has one of the five forms.                                *)
LEMMA LocationForm ==
    ASSUME NEW u \in Units, NEW d \in Jumps \cup {NoLine}, NEW full \in BOOLEAN
    PROVE  \E c, h : IsForm(Location(u, d, full), u, d, c, h)
<1> DEFINE head(c) == 128 + 8 * c + (u - 1)
           e == Location(u, d, full)
<1>1. \A c \in {5, 11, 12, 13, 14, 15} : IsHead(head(c), c, u)
  BY HeadOfEntry
<1>2. e = CASE d = NoLine -> <<head(15)>>
            [] d # NoLine /\ full ->
                 <<head(14)>> \o Svarint(d) \o Varint(1) \o Varint(70) \o Varint(150)
            [] d = 0 /\ ~full -> <<head(5), 130>>
            [] d \in 1..2 /\ ~full -> <<head(10 + d), 3, 200>>
            [] OTHER -> <<head(13)>> \o Svarint(d)
  BY DEF Location
<1>3. Varint(1) = <<1>> /\ Varint(70) = <<70, 1>> /\ Varint(150) = <<86, 2>>
  BY SMT DEF Varint
<1>4. 0 # NoLine /\ 1 # NoLine /\ 2 # NoLine
  <2>1. 0 \in Jumps /\ 1 \in Jumps /\ 2 \in Jumps
    BY DEF Jumps
  <2> QED  BY <2>1, LineAssumption
<1> HIDE DEF head, e
<1>5. CASE d = NoLine
  <2>1. e = <<head(15)>>
    BY <1>2, <1>4, <1>5
  <2> QED  BY <1>1, <1>5, <2>1 DEF IsForm, e
<1>6. CASE d # NoLine /\ full
  <2>1. e = <<head(14)>> \o Svarint(d) \o <<1>> \o <<70, 1>> \o <<86, 2>>
    BY <1>2, <1>3, <1>4, <1>6
  <2> QED  BY <1>1, <1>6, <2>1 DEF IsForm, e
<1>7. CASE d # NoLine /\ ~full
  <2>1. CASE d = 0
    <3>1. e = <<head(5), 130>>
      BY <1>2, <1>7, <2>1
    <3> QED  BY <1>1, <2>1, <3>1 DEF IsForm, e
  <2>2. CASE d = 1
    <3>1. e = <<head(11), 3, 200>>
      BY <1>2, <1>7, <2>2
    <3> QED  BY <1>1, <2>2, <3>1 DEF IsForm, e
  <2>3. CASE d = 2
    <3>1. e = <<head(12), 3, 200>>
      BY <1>2, <1>7, <2>3
    <3> QED  BY <1>1, <2>3, <3>1 DEF IsForm, e
  <2>4. CASE d # 0 /\ d # 1 /\ d # 2
    <3>1. d \in Jumps /\ d \notin 1..2
      BY <1>7, <2>4 DEF Jumps
    <3>2. e = <<head(13)>> \o Svarint(d)
      BY <1>2, <1>7, <2>4, <3>1
    <3> QED  BY <1>1, <3>1, <3>2 DEF IsForm, e
  <2> QED  BY <2>1, <2>2, <2>3, <2>4
<1> QED  BY <1>5, <1>6, <1>7

(* The delta of a location takes one or two bytes.                         *)
LEMMA ShortVarint ==
    ASSUME NEW d \in Jumps
    PROVE  Svarint(d) \in Seq(Nat) /\ Len(Svarint(d)) \in 1..2
<1>1. PICK n : IsCoded(d, n)
  BY SvarintCodes
<1>2. n \in Nat /\ n < 4096 /\ Svarint(d) = Varint(n)
  BY <1>1 DEF IsCoded
<1>3. n % 64 \in Nat /\ n \div 64 \in Nat
  BY <1>2, SMT
<1> QED  BY <1>2, <1>3 DEF Varint

(* A sequence with two bytes behind it.                                    *)
LEMMA WithPair ==
    ASSUME NEW c \in Seq(Nat), NEW x \in Nat, NEW y \in Nat
    PROVE  /\ c \o <<x, y>> \in Seq(Nat) /\ Len(c \o <<x, y>>) = Len(c) + 2
           /\ (c \o <<x, y>>)[Len(c) + 1] = x /\ (c \o <<x, y>>)[Len(c) + 2] = y
           /\ \A i \in 1..Len(c) : (c \o <<x, y>>)[i] = c[i]
<1> DEFINE w == <<x, y>>
<1>1. w \in Seq(Nat) /\ Len(w) = 2 /\ w[1] = x /\ w[2] = y /\ Len(c) \in Nat
  OBVIOUS
<1> HIDE DEF w
<1>2. /\ c \o w \in Seq(Nat) /\ Len(c \o w) = Len(c) + 2
      /\ \A i \in 1..(Len(c) + 2) : (c \o w)[i] = IF i <= Len(c) THEN c[i] ELSE w[i - Len(c)]
  <2>1. /\ c \o w \in Seq(Nat) /\ Len(c \o w) = Len(c) + Len(w)
        /\ \A i \in 1..(Len(c) + Len(w)) :
              (c \o w)[i] = IF i <= Len(c) THEN c[i] ELSE w[i - Len(c)]
    BY <1>1, ConcatProperties
  <2> QED  BY <1>1, <2>1
<1>3. (c \o w)[Len(c) + 1] = w[1] /\ (c \o w)[Len(c) + 2] = w[2]
  BY <1>1, <1>2
<1>4. \A i \in 1..Len(c) : (c \o w)[i] = c[i]
  BY <1>1, <1>2
<1> QED  BY <1>1, <1>2, <1>3, <1>4 DEF w

(* The parts of the long form. *)
LEMMA LongFormParts ==
    ASSUME NEW h \in Nat, NEW s \in Seq(Nat)
    PROVE  LET e == <<h>> \o s \o <<1>> \o <<70, 1>> \o <<86, 2>>
               l == Len(s)
           IN  /\ e \in Seq(Nat) /\ Len(e) = l + 6 /\ e[1] = h
               /\ \A x \in 1..l : e[x + 1] = s[x]
               /\ \A x \in 1..5 : e[l + 1 + x] = <<1, 70, 1, 86, 2>>[x]
<1> DEFINE l == Len(s)
           a == <<h>> \o s
           b == a \o <<1>>
           c == b \o <<70, 1>>
           e == c \o <<86, 2>>
<1>1. /\ a \in Seq(Nat) /\ Len(a) = l + 1 /\ a[1] = h /\ l \in Nat
      /\ \A x \in 1..l : a[x + 1] = s[x]
  <2>1. <<h>> \in Seq(Nat) /\ Len(<<h>>) = 1 /\ <<h>>[1] = h
    OBVIOUS
  <2>2. /\ a \in Seq(Nat) /\ Len(a) = 1 + l
        /\ \A x \in 1..(1 + l) : a[x] = IF x <= 1 THEN <<h>>[x] ELSE s[x - 1]
    BY <2>1, ConcatProperties
  <2> HIDE DEF a
  <2> QED  BY <2>1, <2>2, SMTT(30)
<1> HIDE DEF a
<1>2. /\ b \in Seq(Nat) /\ Len(b) = l + 2 /\ b[l + 2] = 1
      /\ \A x \in 1..(l + 1) : b[x] = a[x]
  <2>1. <<1>> \in Seq(Nat) /\ Len(<<1>>) = 1 /\ <<1>>[1] = 1
    OBVIOUS
  <2>2. /\ b \in Seq(Nat) /\ Len(b) = (l + 1) + 1
        /\ \A x \in 1..((l + 1) + 1) : b[x] = IF x <= l + 1 THEN a[x] ELSE <<1>>[x - (l + 1)]
    BY <1>1, <2>1, ConcatProperties
  <2> HIDE DEF b, l
  <2> QED  BY <1>1, <2>1, <2>2
<1> HIDE DEF b
<1>3. /\ c \in Seq(Nat) /\ Len(c) = l + 4 /\ c[l + 3] = 70 /\ c[l + 4] = 1
      /\ \A x \in 1..(l + 2) : c[x] = b[x]
  <2>1. /\ c \in Seq(Nat) /\ Len(c) = Len(b) + 2 /\ c[Len(b) + 1] = 70 /\ c[Len(b) + 2] = 1
        /\ \A x \in 1..Len(b) : c[x] = b[x]
    BY <1>2, WithPair
  <2> HIDE DEF c, l
  <2> QED  BY <1>1, <1>2, <2>1
<1> HIDE DEF c
<1>4. /\ e \in Seq(Nat) /\ Len(e) = l + 6 /\ e[l + 5] = 86 /\ e[l + 6] = 2
      /\ \A x \in 1..(l + 4) : e[x] = c[x]
  <2>1. /\ e \in Seq(Nat) /\ Len(e) = Len(c) + 2 /\ e[Len(c) + 1] = 86 /\ e[Len(c) + 2] = 2
        /\ \A x \in 1..Len(c) : e[x] = c[x]
    BY <1>3, WithPair, SMTT(30)
  <2> HIDE DEF e, l
  <2> QED  BY <1>1, <1>3, <2>1
<1> HIDE DEF e, l
<1>5. e[1] = h /\ \A x \in 1..l : e[x + 1] = s[x]
  <2>1. \A x \in 1..(l + 1) : e[x] = a[x]
    BY <1>1, <1>2, <1>3, <1>4
  <2> QED  BY <1>1, <2>1
<1>6. /\ e[l + 1 + 1] = 1 /\ e[l + 1 + 2] = 70 /\ e[l + 1 + 3] = 1
      /\ e[l + 1 + 4] = 86 /\ e[l + 1 + 5] = 2
  BY <1>1, <1>2, <1>3, <1>4
<1>7. \A x \in 1..5 : e[l + 1 + x] = <<1, 70, 1, 86, 2>>[x]
  <2> TAKE x \in 1..5
  <2>1. x = 1 \/ x = 2 \/ x = 3 \/ x = 4 \/ x = 5
    OBVIOUS
  <2> QED  BY <1>6, <2>1
<1>8. e \in Seq(Nat) /\ Len(e) = l + 6
  BY <1>4
<1> QED  BY <1>5, <1>7, <1>8 DEF a, b, c, e, l

(* Each form, when it is at the iterator, takes the decoder behind itself  *)
(* and says by how much the address and the line change.                   *)
LEMMA LocationTyped ==
    ASSUME NEW e, NEW u, NEW d, NEW c, NEW h, IsForm(e, u, d, c, h)
    PROVE  e \in Seq(Nat) /\ Len(e) \in Nat \ {0} /\ e[1] = h
<1>1. h \in Nat
  BY DEF IsForm, IsHead
<1>2. CASE c = 13 /\ e = <<h>> \o Svarint(d) /\ d \in Jumps
  <2>1. <<h>> \in Seq(Nat) /\ Len(<<h>>) = 1 /\ <<h>>[1] = h
    BY <1>1
  <2>2. Svarint(d) \in Seq(Nat) /\ Len(Svarint(d)) \in 1..2
    BY <1>2, ShortVarint
  <2> QED  BY <1>2, <2>1, <2>2, ConcatProperties
<1>3. CASE c = 14 /\ e = <<h>> \o Svarint(d) \o <<1>> \o <<70, 1>> \o <<86, 2>> /\ d \in Jumps
  <2>1. Svarint(d) \in Seq(Nat) /\ Len(Svarint(d)) \in 1..2
    BY <1>3, ShortVarint
  <2>2. e \in Seq(Nat) /\ Len(e) = Len(Svarint(d)) + 6 /\ e[1] = h
    BY <1>1, <1>3, <2>1, LongFormParts
  <2> QED  BY <2>1, <2>2
<1>4. CASE e = <<h>>
  BY <1>1, <1>4
<1>5. CASE e = <<h, 130>>
  BY <1>1, <1>5
<1>6. CASE e = <<h, 3, 200>>
  BY <1>1, <1>6
<1> QED  BY <1>2, <1>3, <1>4, <1>5, <1>6 DEF IsForm

(* A round of the decoder of 3.11 reads one location: it moves behind it   *)
(* and adds its code units and its delta.                                  *)
LEMMA LocationRead ==
    ASSUME NEW u \in Units, NEW d \in Jumps \cup {NoLine}, NEW full \in BOOLEAN,
           it \in Nat, line \in Int, IsAt(it, Location(u, d, full)), LocationEntry
    PROVE  Reads(Location(u, d, full), u, d)
<1> DEFINE e == Location(u, d, full)
<1>1. PICK c, h : IsForm(e, u, d, c, h)
  BY LocationForm
<1> HIDE DEF e
<1>2. e \in Seq(Nat) /\ Len(e) \in Nat \ {0} /\ e[1] = h
  BY <1>1, LocationTyped
<1>3. /\ IsHead(h, c, u) /\ c \in Nat
      /\ \/ c = 15 /\ e = <<h>> /\ d = NoLine
         \/ c = 5 /\ e = <<h, 130>> /\ d = 0
         \/ c \in {11, 12} /\ e = <<h, 3, 200>> /\ d = c - 10
         \/ c = 13 /\ e = <<h>> \o Svarint(d) /\ d \in Jumps
         \/ c = 14 /\ e = <<h>> \o Svarint(d) \o <<1>> \o <<70, 1>> \o <<86, 2>> /\ d \in Jumps
  <2>1. IsHead(h, c, u)
    BY <1>1, Zenon DEF IsForm
  <2>2. c \in Nat
    BY <2>1 DEF IsHead
  <2> QED  BY <1>1, <2>1, <2>2, Zenon DEF IsForm
<1>4. IsAt(it, e)
  BY DEF e
<1>5. table[it] = h
  <2>1. it + 1 - 1 = it /\ 1 \in 1..Len(e)
    BY <1>2
  <2> QED  BY <1>2, <1>4, <2>1 DEF IsAt
<1>6. (table[it] \div 8) % 16 = c /\ (table[it] % 8) + 1 = u
  BY <1>3, <1>5 DEF IsHead
<1>7. /\ addr' = addr + 2 * u
      /\ CASE c <= 9 -> it' = it + 2 /\ line' = line
           [] c \in 10..12 -> it' = it + 3 /\ line' = line + (c - 10)
           [] c = 13 -> /\ it' = ReadVarint(it + 1).behind
                        /\ line' = line + Signed(ReadVarint(it + 1).value)
           [] c = 14 -> /\ it' = BehindLongForm(ReadVarint(it + 1).behind)
                        /\ line' = line + Signed(ReadVarint(it + 1).value)
           [] c = 15 -> it' = it + 1 /\ line' = line
  BY <1>6, Zenon DEF LocationEntry
<1> DEFINE total == addr + 2 * u
<1>16. addr' = total
  BY <1>7
<1> HIDE DEF total
<1>17. ASSUME it' = it + Len(e), line' = line + Jump(d) PROVE Reads(e, u, d)
  BY <1>16, <1>17 DEF Reads, total
<1>8. d \in Jumps => d # NoLine /\ d \in Int
  <2>1. Jumps \subseteq Int
    BY DEF Jumps
  <2> QED  BY <2>1, LineAssumption
<1>9. 0 \in Jumps /\ 1 \in Jumps /\ 2 \in Jumps
  BY DEF Jumps
<1>10. CASE c = 15 /\ e = <<h>> /\ d = NoLine
  <2>1. it' = it + 1 /\ line' = line
    BY <1>7, <1>10
  <2>2. Len(e) = 1 /\ Jump(d) = 0
    BY <1>10 DEF Jump
  <2> QED  BY <1>17, <2>1, <2>2 DEF e
<1>11. CASE c = 5 /\ e = <<h, 130>> /\ d = 0
  <2>1. Len(e) = 2 /\ Jump(d) = 0
    <3>1. d \in Jumps
      BY <1>9, <1>11
    <3> QED  BY <1>8, <1>11, <3>1 DEF Jump
  <2>2. it' = it + 2 /\ line' = line
    BY <1>7, <1>11
  <2> QED  BY <1>17, <2>1, <2>2 DEF e
<1>12. CASE c \in {11, 12} /\ e = <<h, 3, 200>> /\ d = c - 10
  <2>1. Len(e) = 3 /\ Jump(d) = c - 10
    <3>1. d = 1 \/ d = 2
      BY <1>12
    <3>2. d \in Jumps
      BY <1>9, <3>1
    <3> QED  BY <1>8, <1>12, <3>2 DEF Jump
  <2>2. it' = it + 3 /\ line' = line + (c - 10)
    <3>1. ~(c <= 9) /\ c \in 10..12 /\ c # 13 /\ c # 14 /\ c # 15
      BY <1>12
    <3> QED  BY <1>7, <3>1, Zenon
  <2> QED  BY <1>17, <2>1, <2>2 DEF e
<1>13. CASE c = 13 /\ e = <<h>> \o Svarint(d) /\ d \in Jumps
  <2>1. Svarint(d) \in Seq(Nat) /\ Len(Svarint(d)) \in 1..2
    BY <1>13, ShortVarint
  <2>2. Len(e) = 1 + Len(Svarint(d)) /\ \A x \in 1..Len(Svarint(d)) : e[x + 1] = Svarint(d)[x]
    <3> DEFINE a == <<h>>
    <3>1. a \in Seq(Nat) /\ Len(a) = 1
      BY <1>3 DEF IsHead
    <3> HIDE DEF a
    <3>2. /\ Len(a \o Svarint(d)) = Len(a) + Len(Svarint(d))
          /\ \A x \in 1..(Len(a) + Len(Svarint(d))) :
                (a \o Svarint(d))[x] = IF x <= Len(a) THEN a[x] ELSE Svarint(d)[x - Len(a)]
      BY <2>1, <3>1, ConcatProperties
    <3>3. e = a \o Svarint(d)
      BY <1>13 DEF a
    <3> QED  BY <2>1, <3>1, <3>2, <3>3
  <2>3. IsAt(it + 1, Svarint(d))
    <3>1. ASSUME NEW x \in 1..Len(Svarint(d)) PROVE table[(it + 1) + x - 1] = Svarint(d)[x]
      <4>1. x + 1 \in 1..Len(e) /\ (it + 1) + x - 1 = it + (x + 1) - 1
        BY <2>1, <2>2
      <4> QED  BY <1>4, <2>2, <4>1 DEF IsAt
    <3> QED  BY <3>1 DEF IsAt
  <2>4. /\ Signed(ReadVarint(it + 1).value) = d
        /\ ReadVarint(it + 1).behind = (it + 1) + Len(Svarint(d))
    <3>1. it + 1 \in Nat
      OBVIOUS
    <3> QED  BY <1>13, <2>3, <3>1, ReadsSvarint
  <2>5. it' = ReadVarint(it + 1).behind /\ line' = line + Signed(ReadVarint(it + 1).value)
    BY <1>7, <1>13
  <2>6. it' = it + Len(e)
    BY <2>1, <2>2, <2>4, <2>5
  <2>7. line' = line + Jump(d)
    <3>1. Jump(d) = d
      BY <1>8, <1>13 DEF Jump
    <3> QED  BY <2>4, <2>5, <3>1
  <2> QED  BY <1>17, <2>6, <2>7 DEF e
<1>14. CASE c = 14 /\ e = <<h>> \o Svarint(d) \o <<1>> \o <<70, 1>> \o <<86, 2>> /\ d \in Jumps
  <2> DEFINE s == Svarint(d)
  <2>1. s \in Seq(Nat) /\ Len(s) \in 1..2
    BY <1>14, ShortVarint
  <2>2. /\ Len(e) = Len(s) + 6
        /\ \A x \in 1..Len(s) : e[x + 1] = s[x]
        /\ \A x \in 1..5 : e[Len(s) + 1 + x] = <<1, 70, 1, 86, 2>>[x]
    <3>1. h \in Nat
      BY <1>3 DEF IsHead
    <3> QED  BY <1>14, <2>1, <3>1, LongFormParts, SMTT(30)
  <2> DEFINE r == <<1, 70, 1, 86, 2>>
  <2>3. Len(r) = 5
    OBVIOUS
  <2> HIDE DEF r
  <2>4. IsAt(it + 1, s)
    <3>1. ASSUME NEW x \in 1..Len(s) PROVE table[(it + 1) + x - 1] = s[x]
      <4>1. x + 1 \in 1..Len(e) /\ (it + 1) + x - 1 = it + (x + 1) - 1
        BY <2>1, <2>2
      <4> QED  BY <1>4, <2>2, <4>1 DEF IsAt
    <3> HIDE DEF s
    <3> QED  BY <3>1 DEF IsAt
  <2>5. /\ Signed(ReadVarint(it + 1).value) = d
        /\ ReadVarint(it + 1).behind = (it + 1) + Len(s)
    <3>1. it + 1 \in Nat
      OBVIOUS
    <3> QED  BY <1>14, <2>4, <3>1, ReadsSvarint
  <2> DEFINE at == (it + 1) + Len(s)
  <2>6. at \in Nat /\ IsAt(at, r)
    <3>1. ASSUME NEW x \in 1..Len(r) PROVE table[at + x - 1] = r[x]
      <4>1. Len(s) + 1 + x \in 1..Len(e) /\ at + x - 1 = it + (Len(s) + 1 + x) - 1
        BY <2>1, <2>2, <2>3
      <4>2. e[Len(s) + 1 + x] = r[x]
        BY <2>2, <2>3 DEF r
      <4> QED  BY <1>4, <4>1, <4>2 DEF IsAt
    <3>2. at \in Nat
      BY <2>1
    <3> HIDE DEF at
    <3> QED  BY <3>1, <3>2 DEF IsAt
  <2>7. BehindLongForm(at) = at + 5
    <3> HIDE DEF at
    <3> QED  BY <2>6, LongFormRest DEF r
  <2>8. /\ it' = BehindLongForm(ReadVarint(it + 1).behind)
        /\ line' = line + Signed(ReadVarint(it + 1).value)
    BY <1>7, <1>14
  <2>9. it' = it + Len(e)
    <3>1. it' = BehindLongForm(at)
      BY <2>5, <2>8
    <3> QED  BY <2>1, <2>2, <2>7, <3>1
  <2>10. line' = line + Jump(d)
    <3>1. Jump(d) = d
      BY <1>8, <1>14 DEF Jump
    <3> QED  BY <2>5, <2>8, <3>1
  <2> QED  BY <1>17, <2>9, <2>10 DEF e
<1> QED  BY <1>3, <1>10, <1>11, <1>12, <1>13, <1>14 DEF e

-----------------------------------------------------------------------------
(* The entries of a run add up to the run. *)

SplitFacts(s, d, min, max) ==
    /\ s \in Seq(min..max) /\ Len(s) \in Nat \ {0}
    /\ \A j \in 1..Len(s) : s[j] \in min..max
    /\ \A j \in 1..Len(s) : s[j] = Partial(d, min, max, j) - Partial(d, min, max, j - 1)
    /\ \A j \in Int : j >= Len(s) => Partial(d, min, max, j) = d

(* The elements of a split are the differences of its partial sums.        *)
LEMMA SplitElements ==
    ASSUME NEW s, NEW d, NEW min, NEW max, IsSplit(s, d, min, max)
    PROVE  SplitFacts(s, d, min, max)
<1>1. s \in Seq(min..max)
  BY DEF IsSplit
<1>2. \A j \in 1..Len(s) : s[j] \in min..max
  <2> DEFINE S == min..max
  <2>1. s \in Seq(S)
    BY <1>1
  <2> HIDE DEF S
  <2>2. \A j \in 1..Len(s) : s[j] \in S
    BY <2>1
  <2> QED  BY <2>2 DEF S
<1> QED  BY <1>1, <1>2, Zenon DEF IsSplit, SplitFacts

(* What the assumption says of a program.                                  *)
LEMMA ProgramTyped ==
    ASSUME NEW p \in Programs
    PROVE  /\ Len(p) \in Nat \ {0} /\ DOMAIN p = 1..Len(p)
           /\ \A k \in 1..Len(p) :
                 /\ p[k].length \in Nat /\ p[k].length >= 2 /\ p[k].length % 2 = 0
                 /\ p[k].delta \in Jumps \cup {NoLine} /\ Delta(p[k]) = Jump(p[k].delta)
                 /\ Delta(p[k]) \in Jumps /\ Delta(p[k]) \in Int
<1>1. p \in Seq(LineRun) /\ p # <<>>
  BY LineAssumption
<1>2. Len(p) \in Nat \ {0} /\ DOMAIN p = 1..Len(p) /\ \A k \in 1..Len(p) : p[k] \in LineRun
  BY <1>1
<1>3. ASSUME NEW run \in LineRun
      PROVE  /\ run.length \in Nat /\ run.length >= 2 /\ run.length % 2 = 0
             /\ run.delta \in Jumps \cup {NoLine} /\ Delta(run) = Jump(run.delta)
             /\ Delta(run) \in Jumps /\ Delta(run) \in Int
  <2>1. run.length \in {2 * n : n \in 1..1000} /\ run.delta \in Jumps \cup {NoLine}
    BY DEF LineRun
  <2>2. PICK n \in 1..1000 : run.length = 2 * n
    BY <2>1
  <2>3. run.length \in Nat /\ run.length >= 2 /\ run.length % 2 = 0
    BY <2>2, SMT
  <2>4. 0 \in Jumps /\ Jumps \subseteq Int
    BY DEF Jumps
  <2> QED  BY <2>1, <2>3, <2>4, ZenonT(30) DEF Delta, Jump
<1> QED  BY <1>2, <1>3

(* A partial sum of a length stays within the length.                      *)
LEMMA PartialBounds ==
    ASSUME NEW n \in Nat, NEW m \in {16, 254, 255}, NEW j \in Int
    PROVE  Partial(n, 0, m, j) \in 0..n
<1>1. CASE m = 16
  BY <1>1 DEF Partial
<1>2. CASE m = 254
  BY <1>2 DEF Partial
<1>3. CASE m = 255
  BY <1>3 DEF Partial
<1> QED  BY <1>1, <1>2, <1>3

(* A partial sum of a delta is an integer.                                 *)
LEMMA PartialTyped ==
    \A d, j \in Int : /\ Partial(d, -128, 127, j) \in Int
                      /\ Partial(d, -127, 127, j) \in Int
                      /\ Partial(d, -2000, 2000, j) \in Int
<1> TAKE d, j \in Int
<1>1. Partial(d, -128, 127, j) \in Int
  BY DEF Partial
<1>2. Partial(d, -127, 127, j) \in Int
  BY DEF Partial
<1>3. Partial(d, -2000, 2000, j) \in Int
  BY DEF Partial
<1> QED  BY <1>1, <1>2, <1>3

(* What the run begins with and what it comes to. *)
RunFacts(p, k, n, d) ==
    /\ n \in Nat \ {0}
    /\ BytesOf(p, k, 0) = 0 /\ BytesOf(p, k, n) = p[k].length
    /\ DeltaOf(p, k, 0) = 0 /\ DeltaOf(p, k, n) = d
    /\ \A j \in 0..n : BytesOf(p, k, j) \in 0..p[k].length /\ DeltaOf(p, k, j) \in Int

PairSet == {e \in Seq(0..255) : Len(e) = 2}

LnotabEntry(e, p, k, j) ==
    /\ e[1] = BytesOf(p, k, j) - BytesOf(p, k, j - 1)
    /\ e[2] - (IF e[2] >= 128 THEN 256 ELSE 0) = DeltaOf(p, k, j) - DeltaOf(p, k, j - 1)
    /\ e[1] > 0 => DeltaOf(p, k, j - 1) = 0

(* The pairs of a run up to 3.9 come to its length and the jump to the     *)
(* next.                                                                   *)
LEMMA LnotabRun ==
    ASSUME format = "lnotab", NEW p \in Programs, NEW k \in 1..(Len(p) - 1)
    PROVE  /\ LnotabPairs(p, k) \in Seq(PairSet)
           /\ RunFacts(p, k, Len(LnotabPairs(p, k)), Delta(p[k + 1]))
           /\ \A j \in 1..Len(LnotabPairs(p, k)) : LnotabEntry(LnotabPairs(p, k)[j], p, k, j)
<1> DEFINE ahead == Chunks(p[k].length, 255)
           lines == Deltas(Delta(p[k + 1]), 128, 127)
           last == Len(ahead)
           n == last + Len(lines) - 1
           bytes(j) == Partial(p[k].length, 0, 255, j)
           delta(j) == Partial(Delta(p[k + 1]), -128, 127, j)
           a(j) == IF j <= last THEN ahead[j] ELSE 0
           b(j) == IF j < last THEN 0 ELSE Byte(lines[j - last + 1])
<1>1. p[k].length \in Nat /\ Delta(p[k + 1]) \in Int
  <2>1. k \in 1..Len(p) /\ k + 1 \in 1..Len(p)
    BY ProgramTyped
  <2> QED  BY <2>1, ProgramTyped
<1>2. LnotabPairs(p, k) = [j \in 1..n |-> <<a(j), b(j)>>]
  BY DEF LnotabPairs
<1>3. \A j \in Int : BytesOf(p, k, j) = bytes(j) /\ DeltaOf(p, k, j) = delta(j - (last - 1))
  BY DEF BytesOf, DeltaOf
<1>4. IsSplit(ahead, p[k].length, 0, 255) /\ IsSplit(lines, Delta(p[k + 1]), -128, 127)
  BY <1>1, ChunksSplit, DeltasSplit
<1>5. /\ ahead \in Seq(0..255) /\ last \in Nat \ {0}
      /\ \A j \in 1..last : ahead[j] \in 0..255
      /\ \A j \in 1..last : ahead[j] = bytes(j) - bytes(j - 1)
      /\ \A j \in Int : j >= last => bytes(j) = p[k].length
  <2>1. SplitFacts(ahead, p[k].length, 0, 255)
    BY <1>4, SplitElements
  <2> QED  BY <2>1, Zenon DEF SplitFacts
<1>6. /\ lines \in Seq(-128..127) /\ Len(lines) \in Nat \ {0}
      /\ \A j \in 1..Len(lines) : lines[j] \in -128..127
      /\ \A j \in 1..Len(lines) : lines[j] = delta(j) - delta(j - 1)
      /\ \A j \in Int : j >= Len(lines) => delta(j) = Delta(p[k + 1])
  <2>1. SplitFacts(lines, Delta(p[k + 1]), -128, 127)
    BY <1>4, SplitElements
  <2> QED  BY <2>1, Zenon DEF SplitFacts
<1>7. \A j \in Int : /\ bytes(j) \in 0..p[k].length /\ delta(j) \in Int
                     /\ j <= 0 => bytes(j) = 0 /\ delta(j) = 0
  <2>1. \A j \in Int : bytes(j) \in 0..p[k].length /\ delta(j) \in Int
    <3>1. \A j \in Int : bytes(j) \in 0..p[k].length
      BY <1>1, PartialBounds, ZenonT(30)
    <3>2. \A j \in Int : delta(j) \in Int
      BY <1>1, PartialTyped
    <3> QED  BY <3>1, <3>2, ZenonT(30)
  <2>2. \A j \in Int : j <= 0 => bytes(j) = 0 /\ delta(j) = 0
    BY SMTT(30) DEF Partial
  <2> QED  BY <2>1, <2>2, ZenonT(30)
<1> HIDE DEF bytes, delta, ahead, lines
<1>8. ASSUME NEW j \in 1..n
      PROVE  /\ a(j) \in 0..255 /\ b(j) \in 0..255
             /\ a(j) = bytes(j) - bytes(j - 1)
             /\ b(j) - (IF b(j) >= 128 THEN 256 ELSE 0) = delta(j - (last - 1)) - delta((j - 1) - (last - 1))
             /\ a(j) > 0 => delta((j - 1) - (last - 1)) = 0
  <2>1. a(j) \in 0..255 /\ a(j) = bytes(j) - bytes(j - 1)
    <3>1. CASE j <= last
      <4>1. j \in 1..last
        BY <3>1
      <4> QED  BY <1>5, <3>1, <4>1
    <3>2. CASE ~(j <= last)
      <4>1. bytes(j) = p[k].length /\ bytes(j - 1) = p[k].length
        BY <1>5, <3>2
      <4> QED  BY <1>1, <3>2, <4>1
    <3> QED  BY <3>1, <3>2
  <2>2. CASE j < last
    <3>1. j - (last - 1) <= 0 /\ (j - 1) - (last - 1) <= 0 /\ j - (last - 1) \in Int
            /\ (j - 1) - (last - 1) \in Int
      BY <1>5, <2>2
    <3>2. delta(j - (last - 1)) = 0 /\ delta((j - 1) - (last - 1)) = 0
      BY <1>7, <3>1
    <3>3. b(j) = 0
      BY <2>2
    <3> HIDE DEF a, b
    <3> QED  BY <2>1, <3>2, <3>3
  <2>3. CASE ~(j < last)
    <3> DEFINE i == j - last + 1
    <3>1. i \in 1..Len(lines) /\ j - (last - 1) = i /\ (j - 1) - (last - 1) = i - 1
            /\ i \in Int /\ i - 1 \in Int
      BY <1>5, <1>6, <2>3
    <3>2. lines[i] \in -128..127 /\ lines[i] = delta(i) - delta(i - 1)
      <4> HIDE DEF i
      <4> QED  BY <1>6, <3>1, Zenon
    <3>3. b(j) = Byte(lines[i])
      BY <2>3
    <3>4. Byte(lines[i]) \in 0..255
            /\ Byte(lines[i]) - (IF Byte(lines[i]) >= 128 THEN 256 ELSE 0) = lines[i]
      BY <3>2, SignedByte, Zenon
    <3>5. a(j) > 0 => delta(i - 1) = 0
      <4>1. CASE j <= last
        <5>1. i - 1 <= 0
          BY <2>3, <4>1
        <5> QED  BY <1>7, <3>1, <5>1
      <4>2. CASE ~(j <= last)
        BY <4>2
      <4> QED  BY <4>1, <4>2
    <3> HIDE DEF a, b, i
    <3> QED  BY <2>1, <3>1, <3>2, <3>3, <3>4, <3>5, SMTT(30)
  <2> QED  BY <2>2, <2>3
<1> HIDE DEF a, b
<1>9. n \in Nat \ {0}
  BY <1>5, <1>6
<1>10. LnotabPairs(p, k) \in Seq(PairSet) /\ Len(LnotabPairs(p, k)) = n
  <2>1. \A j \in 1..n : <<a(j), b(j)>> \in PairSet
    BY <1>8, SMTT(30) DEF PairSet
  <2> HIDE DEF n
  <2> QED  BY <1>2, <1>9, <2>1
<1>11. RunFacts(p, k, n, Delta(p[k + 1]))
  <2>1. bytes(0) = 0 /\ bytes(n) = p[k].length
    <3>1. n \in Int /\ n >= last /\ 0 \in Int /\ 0 <= 0
      BY <1>5, <1>6
    <3> HIDE DEF n
    <3>2. bytes(0) = 0
      BY <1>7, <3>1, Zenon
    <3>3. bytes(n) = p[k].length
      BY <1>5, <3>1, Zenon
    <3> QED  BY <3>2, <3>3
  <2>2. 0 - (last - 1) <= 0 /\ 0 - (last - 1) \in Int /\ n - (last - 1) = Len(lines) /\ n \in Int
    BY <1>5, <1>6
  <2>3. delta(0 - (last - 1)) = 0 /\ delta(n - (last - 1)) = Delta(p[k + 1])
    BY <1>6, <1>7, <2>2
  <2>4. \A j \in 0..n : j \in Int /\ j - (last - 1) \in Int
    BY <1>5, <1>9
  <2> HIDE DEF n
  <2> QED  BY <1>3, <1>7, <1>9, <2>1, <2>2, <2>3, <2>4, ZenonT(30) DEF RunFacts
<1>12. ASSUME NEW j \in 1..n PROVE LnotabEntry(LnotabPairs(p, k)[j], p, k, j)
  <2> DEFINE e == LnotabPairs(p, k)[j]
  <2>1. e[1] = a(j) /\ e[2] = b(j)
    BY <1>2
  <2>2. j \in Int /\ j - 1 \in Int
    BY <1>9
  <2> HIDE DEF e
  <2>3. LnotabEntry(e, p, k, j)
    BY <1>3, <1>8, <2>1, <2>2, ZenonT(30) DEF LnotabEntry
  <2> QED  BY <2>3 DEF e
<1> QED  BY <1>10, <1>11, <1>12

LinetableEntry(e, p, k, j) ==
    /\ e[1] = BytesOf(p, k, j) - BytesOf(p, k, j - 1)
    /\ NewDelta(e[2]) = DeltaOf(p, k, j) - DeltaOf(p, k, j - 1)
    /\ e[1] > 0 => DeltaOf(p, k, j) = Delta(p[k])

(* The pairs of a run in 3.10 come to the jump to it and its length.       *)
LEMMA LinetableRun ==
    ASSUME format = "linetable", NEW p \in Programs, NEW k \in 1..Len(p)
    PROVE  /\ LinetablePairs(p, k) \in Seq(PairSet)
           /\ RunFacts(p, k, Len(LinetablePairs(p, k)), Delta(p[k]))
           /\ \A j \in 1..Len(LinetablePairs(p, k)) :
                 LinetableEntry(LinetablePairs(p, k)[j], p, k, j)
<1> DEFINE lengths == Chunks(p[k].length, 254)
           lines == Deltas(Delta(p[k]), 127, 127)
           first == Len(lines)
           n == first + Len(lengths) - 1
           bytes(j) == Partial(p[k].length, 0, 254, j)
           delta(j) == Partial(Delta(p[k]), -127, 127, j)
           a(j) == IF j < first THEN 0 ELSE lengths[j - first + 1]
           b(j) == IF p[k].delta = NoLine THEN Byte(-128)
                   ELSE IF j <= first THEN Byte(lines[j]) ELSE 0
<1>1. p[k].length \in Nat /\ Delta(p[k]) \in Int /\ (p[k].delta = NoLine => Delta(p[k]) = 0)
  BY ProgramTyped DEF Delta
<1>2. LinetablePairs(p, k) = [j \in 1..n |-> <<a(j), b(j)>>]
  BY DEF LinetablePairs
<1>3. \A j \in Int : BytesOf(p, k, j) = bytes(j - (first - 1)) /\ DeltaOf(p, k, j) = delta(j)
  BY DEF BytesOf, DeltaOf
<1>4. IsSplit(lengths, p[k].length, 0, 254) /\ IsSplit(lines, Delta(p[k]), -127, 127)
  BY <1>1, ChunksSplit, DeltasSplit
<1>5. /\ lengths \in Seq(0..254) /\ Len(lengths) \in Nat \ {0}
      /\ \A j \in 1..Len(lengths) : lengths[j] \in 0..254
      /\ \A j \in 1..Len(lengths) : lengths[j] = bytes(j) - bytes(j - 1)
      /\ \A j \in Int : j >= Len(lengths) => bytes(j) = p[k].length
  <2>1. SplitFacts(lengths, p[k].length, 0, 254)
    BY <1>4, SplitElements
  <2> QED  BY <2>1, Zenon DEF SplitFacts
<1>6. /\ lines \in Seq(-127..127) /\ first \in Nat \ {0}
      /\ \A j \in 1..first : lines[j] \in -127..127
      /\ \A j \in 1..first : lines[j] = delta(j) - delta(j - 1)
      /\ \A j \in Int : j >= first => delta(j) = Delta(p[k])
  <2>1. SplitFacts(lines, Delta(p[k]), -127, 127)
    BY <1>4, SplitElements
  <2> QED  BY <2>1, Zenon DEF SplitFacts
<1>7. \A j \in Int : /\ bytes(j) \in 0..p[k].length /\ delta(j) \in Int
                     /\ j <= 0 => bytes(j) = 0 /\ delta(j) = 0
  <2>1. \A j \in Int : bytes(j) \in 0..p[k].length
    BY <1>1, PartialBounds, ZenonT(30)
  <2>2. \A j \in Int : delta(j) \in Int
    BY <1>1, PartialTyped
  <2>3. \A j \in Int : j <= 0 => bytes(j) = 0 /\ delta(j) = 0
    BY DEF Partial
  <2> HIDE DEF bytes, delta
  <2> QED  BY <2>1, <2>2, <2>3
<1>8. Delta(p[k]) = 0 => \A j \in Int : delta(j) = 0
  BY DEF Partial
<1> HIDE DEF bytes, delta, lengths, lines
<1>9. ASSUME NEW j \in 1..n
      PROVE  /\ a(j) \in 0..255 /\ b(j) \in 0..255
             /\ a(j) = bytes(j - (first - 1)) - bytes((j - 1) - (first - 1))
             /\ NewDelta(b(j)) = delta(j) - delta(j - 1)
             /\ a(j) > 0 => delta(j) = Delta(p[k])
  <2>0. j \in Int /\ j - 1 \in Int /\ j >= 1
    BY <1>5, <1>6
  <2>1. a(j) \in 0..255 /\ a(j) = bytes(j - (first - 1)) - bytes((j - 1) - (first - 1))
    <3>1. CASE j < first
      <4>1. j - (first - 1) <= 0 /\ (j - 1) - (first - 1) <= 0 /\ j - (first - 1) \in Int
              /\ (j - 1) - (first - 1) \in Int
        BY <1>6, <3>1
      <4>2. bytes(j - (first - 1)) = 0 /\ bytes((j - 1) - (first - 1)) = 0
        BY <1>7, <4>1
      <4>3. a(j) = 0
        BY <3>1
      <4> HIDE DEF a
      <4> QED  BY <4>2, <4>3
    <3>2. CASE ~(j < first)
      <4> DEFINE i == j - first + 1
      <4>1. i \in 1..Len(lengths) /\ j - (first - 1) = i /\ (j - 1) - (first - 1) = i - 1
        BY <1>5, <1>6, <3>2
      <4>2. a(j) = lengths[i]
        BY <3>2
      <4> HIDE DEF a, i
      <4> QED  BY <1>5, <4>1, <4>2
    <3> QED  BY <3>1, <3>2
  <2>2. b(j) \in 0..255 /\ NewDelta(b(j)) = delta(j) - delta(j - 1)
    <3>1. CASE p[k].delta = NoLine
      <4>1. b(j) = 128
        BY <3>1, SignedDelta
      <4>2. delta(j) = 0 /\ delta(j - 1) = 0
        BY <1>1, <1>8, <2>0, <3>1
      <4>3. NewDelta(128) = 0 /\ 0 = delta(j) - delta(j - 1)
        BY <4>2 DEF NewDelta
      <4> HIDE DEF b
      <4>4. b(j) \in 0..255
        BY <4>1
      <4>5. NewDelta(b(j)) = NewDelta(128)
        BY <4>1
      <4> QED  BY <4>3, <4>4, <4>5
    <3>2. CASE p[k].delta # NoLine /\ j <= first
      <4>1. b(j) = Byte(lines[j])
        BY <3>2
      <4>2. lines[j] \in -127..127 /\ lines[j] = delta(j) - delta(j - 1)
        BY <1>6, <2>0, <3>2
      <4>3. Byte(lines[j]) \in 0..255 /\ NewDelta(Byte(lines[j])) = lines[j]
        <5> DEFINE d == lines[j]
        <5>1. d \in -127..127
          BY <4>2, Zenon
        <5> HIDE DEF d
        <5>2. Byte(d) \in 0..255 /\ NewDelta(Byte(d)) = d
          BY <5>1, SignedDelta
        <5> QED  BY <5>2 DEF d
      <4> HIDE DEF b
      <4> QED  BY <4>1, <4>2, <4>3
    <3>3. CASE p[k].delta # NoLine /\ ~(j <= first)
      <4>1. b(j) = 0
        BY <3>3
      <4>2. delta(j) = Delta(p[k]) /\ delta(j - 1) = Delta(p[k])
        BY <1>6, <2>0, <3>3
      <4> HIDE DEF b
      <4> QED  BY <1>1, <4>1, <4>2 DEF NewDelta
    <3> HIDE DEF b
    <3> QED  BY <3>1, <3>2, <3>3, Zenon
  <2>3. a(j) > 0 => delta(j) = Delta(p[k])
    <3>1. CASE j < first
      BY <3>1
    <3>2. CASE ~(j < first)
      <4>1. j >= first
        BY <1>6, <2>0, <3>2
      <4> QED  BY <1>6, <2>0, <4>1
    <3> QED  BY <3>1, <3>2
  <2> QED  BY <2>1, <2>2, <2>3
<1> HIDE DEF a, b
<1>10. n \in Nat \ {0}
  BY <1>5, <1>6
<1>11. LinetablePairs(p, k) \in Seq(PairSet) /\ Len(LinetablePairs(p, k)) = n
  <2>1. \A j \in 1..n : <<a(j), b(j)>> \in PairSet
    BY <1>9, SMTT(30) DEF PairSet
  <2> HIDE DEF n
  <2> QED  BY <1>2, <1>10, <2>1
<1>12. RunFacts(p, k, n, Delta(p[k]))
  <2>1. 0 - (first - 1) <= 0 /\ 0 - (first - 1) \in Int /\ n - (first - 1) = Len(lengths)
        /\ n \in Int /\ n >= first
    BY <1>5, <1>6
  <2>2. bytes(0 - (first - 1)) = 0 /\ bytes(n - (first - 1)) = p[k].length
    BY <1>5, <1>7, <2>1
  <2>3. delta(0) = 0 /\ delta(n) = Delta(p[k])
    <3> HIDE DEF n
    <3> QED  BY <1>6, <1>7, <2>1
  <2>4. \A j \in 0..n : j \in Int /\ j - (first - 1) \in Int
    BY <1>6, <1>10
  <2> HIDE DEF n
  <2> QED  BY <1>3, <1>7, <1>10, <2>1, <2>2, <2>3, <2>4, ZenonT(30) DEF RunFacts
<1>13. ASSUME NEW j \in 1..n PROVE LinetableEntry(LinetablePairs(p, k)[j], p, k, j)
  <2> DEFINE e == LinetablePairs(p, k)[j]
  <2>1. e[1] = a(j) /\ e[2] = b(j)
    BY <1>2
  <2>2. j \in Int /\ j - 1 \in Int
    BY <1>10
  <2> HIDE DEF e
  <2>3. LinetableEntry(e, p, k, j)
    BY <1>3, <1>9, <2>1, <2>2, ZenonT(30) DEF LinetableEntry
  <2> QED  BY <2>3 DEF e
<1> QED  BY <1>11, <1>12, <1>13

(* The limits of a jump.                                                   *)
LEMMA JumpBounds == \A d \in Jumps : d \in Int /\ -2000 <= d /\ d <= 2000
<1> DEFINE low == -2000
           high == 2000
<1>1. low \in Int /\ high \in Int /\ Jumps = low..high
  BY DEF Jumps
<1> HIDE DEF low, high
<1>2. \A d \in Jumps : d \in Int /\ low <= d /\ d <= high
  BY <1>1
<1> QED  BY <1>2 DEF low, high

(* A jump that fits one entry is taken in the first.                       *)
LEMMA OneStep ==
    ASSUME NEW big \in Nat, NEW d \in Int, -big <= d, d <= big, NEW j \in Int
    PROVE  Partial(d, -big, big, j) = IF j <= 0 THEN 0 ELSE d
<1>1. CASE j <= 0
  BY <1>1 DEF Partial
<1>2. CASE j > 0
  <2>1. \A x, y \in Nat : x * y \in Nat
    OBVIOUS
  <2>2. big * (j - 1) \in Nat /\ j - 1 \in Nat
    BY <1>2, <2>1
  <2>3. big * j = big * (j - 1) + big
    BY <1>2
  <2>4. (-big) * j = -(big * j)
    BY <1>2
  <2>5. ~(d > big * j) /\ ~(d < (-big) * j)
    BY <2>2, <2>3, <2>4
  <2> QED  BY <1>2, <2>5 DEF Partial
<1> QED  BY <1>1, <1>2
(* Jumps are of that kind in 3.11.                                         *)
LEMMA JumpsAreSmall ==
    \A d \in Jumps, j \in Int : Partial(d, -2000, 2000, j) = IF j <= 0 THEN 0 ELSE d
<1> DEFINE high == 2000
<1>1. high \in Nat /\ \A d \in Jumps : d \in Int /\ -high <= d /\ d <= high
  BY JumpBounds
<1> HIDE DEF high
<1>2. \A d \in Jumps, j \in Int : Partial(d, -high, high, j) = IF j <= 0 THEN 0 ELSE d
  BY <1>1, OneStep
<1> QED  BY <1>2 DEF high

LocationsEntry(e, p, k, j) ==
    \E u \in Units, d \in Jumps \cup {NoLine}, full \in BOOLEAN :
       /\ e = Location(u, d, full)
       /\ 2 * u = BytesOf(p, k, j) - BytesOf(p, k, j - 1)
       /\ Jump(d) = DeltaOf(p, k, j) - DeltaOf(p, k, j - 1)
       /\ DeltaOf(p, k, j) = Delta(p[k])

(* The locations of a run come to the jump to it and its length.           *)
LEMMA LocationsRun ==
    ASSUME format = "locations", NEW p \in Programs, NEW k \in 1..Len(p), NEW full \in BOOLEAN
    PROVE  /\ LocationEntries(p, k, full) \in Seq(LocationSet)
           /\ RunFacts(p, k, Len(LocationEntries(p, k, full)), Delta(p[k]))
           /\ \A j \in 1..Len(LocationEntries(p, k, full)) :
                 LocationsEntry(LocationEntries(p, k, full)[j], p, k, j)
<1> DEFINE m == p[k].length \div 2
           n == (m + 7) \div 8
           dl == Delta(p[k])
           u(j) == IF j < n THEN 8 ELSE m - 8 * (n - 1)
           d(j) == IF p[k].delta = NoLine THEN NoLine ELSE IF j = 1 THEN p[k].delta ELSE 0
           bytes(j) == Partial(p[k].length, 0, 16, j)
           delta(j) == Partial(dl, -2000, 2000, j)
<1>1. /\ p[k].length \in Nat /\ p[k].length >= 2 /\ p[k].length % 2 = 0
      /\ p[k].delta \in Jumps \cup {NoLine} /\ dl = Jump(p[k].delta) /\ dl \in Jumps
  BY ProgramTyped
<1>2. m \in Nat /\ m >= 1 /\ p[k].length = 2 * m
  BY <1>1, SMT
<1>3. LocationEntries(p, k, full) = [j \in 1..n |-> Location(u(j), d(j), full)]
  BY DEF LocationEntries
<1>4. \A j \in Int : BytesOf(p, k, j) = bytes(j) /\ DeltaOf(p, k, j) = delta(j)
  BY DEF BytesOf, DeltaOf
<1> HIDE DEF m
<1>5. n \in Nat \ {0} /\ m <= 8 * n /\ 8 * (n - 1) < m
  BY <1>2, SMT
<1> HIDE DEF n, dl
<1>6. \A j \in 1..n : u(j) \in Units
  BY <1>2, <1>5 DEF Units
<1>7. \A j \in Int : bytes(j) = IF j <= 0 THEN 0 ELSE IF j < n THEN 16 * j ELSE 2 * m
  BY <1>2, <1>5 DEF Partial
<1>8. \A j \in Int : delta(j) = IF j <= 0 THEN 0 ELSE dl
  BY <1>1, JumpsAreSmall
<1>9. dl \in Int /\ 0 \in Jumps
  <2>1. 0 \in Jumps
    BY DEF Jumps
  <2> QED  BY <1>1, <2>1, JumpBounds
<1>10. \A j \in 1..n : d(j) \in Jumps \cup {NoLine} /\ Jump(d(j)) = IF j = 1 THEN dl ELSE 0
  BY <1>1, <1>9, LineAssumption DEF Jump
<1> HIDE DEF u, d, bytes, delta
<1>11. LocationEntries(p, k, full) \in Seq(LocationSet) /\ Len(LocationEntries(p, k, full)) = n
  <2>1. \A j \in 1..n : Location(u(j), d(j), full) \in LocationSet
    BY <1>6, <1>10 DEF LocationSet
  <2> QED  BY <1>3, <1>5, <2>1
<1>12. RunFacts(p, k, n, dl)
  <2>1. \A j \in 0..n : j \in Int
    BY <1>5
  <2>2. n \in Int /\ 0 \in Int /\ n \in 0..n /\ 0 \in 0..n /\ n >= 1
    BY <1>5
  <2>3. bytes(0) = 0 /\ bytes(n) = p[k].length /\ delta(0) = 0 /\ delta(n) = dl
    BY <1>2, <1>7, <1>8, <2>2
  <2>4. \A j \in 0..n : bytes(j) \in 0..p[k].length /\ delta(j) \in Int
    BY <1>2, <1>5, <1>7, <1>8, <1>9
  <2> QED  BY <1>4, <1>5, <2>1, <2>2, <2>3, <2>4, Zenon DEF RunFacts
<1>13. ASSUME NEW j \in 1..n PROVE LocationsEntry(LocationEntries(p, k, full)[j], p, k, j)
  <2>1. j \in Int /\ j - 1 \in Int /\ j >= 1
    BY <1>5
  <2>2. LocationEntries(p, k, full)[j] = Location(u(j), d(j), full)
    BY <1>3
  <2>3. 2 * u(j) = bytes(j) - bytes(j - 1)
    BY <1>2, <1>5, <1>7, <2>1 DEF u
  <2>4. Jump(d(j)) = delta(j) - delta(j - 1) /\ delta(j) = dl
    BY <1>8, <1>9, <1>10, <2>1
  <2>5. u(j) \in Units /\ d(j) \in Jumps \cup {NoLine}
    BY <1>6, <1>10
  <2>6. /\ BytesOf(p, k, j) = bytes(j) /\ BytesOf(p, k, j - 1) = bytes(j - 1)
        /\ DeltaOf(p, k, j) = delta(j) /\ DeltaOf(p, k, j - 1) = delta(j - 1)
    BY <1>4, <2>1
  <2> QED  BY <2>2, <2>3, <2>4, <2>5, <2>6, Zenon DEF LocationsEntry, dl
<1> QED  BY <1>11, <1>12, <1>13 DEF dl

-----------------------------------------------------------------------------
(* Where the runs end, and their lines. *)

IsEven(n) == n \in Nat /\ n % 2 = 0

EndsRise(p) ==
    /\ Len(p) \in Nat \ {0} /\ DOMAIN p = 1..Len(p)
    /\ EndOf(p, 0) = 0 /\ LineAt(p, 0) = FirstLine
    /\ \A k \in 1..Len(p) : /\ k - 1 \in 0..Len(p)
                             /\ EndOf(p, k) = EndOf(p, k - 1) + p[k].length
                             /\ LineAt(p, k) = LineAt(p, k - 1) + Delta(p[k])
                             /\ IsEven(p[k].length) /\ p[k].length >= 2 /\ Delta(p[k]) \in Int
    /\ \A k \in 0..Len(p) : /\ IsEven(EndOf(p, k)) /\ LineAt(p, k) \in Int
                             /\ \A m \in 0..k : EndOf(p, m) <= EndOf(p, k)

(* Sums of even numbers are even.                                          *)
LEMMA EvenSum == \A a, b \in Nat : IsEven(a) /\ IsEven(b) => IsEven(a + b)
BY SMT DEF IsEven

(* Runs end one behind the other, at even offsets.                         *)
LEMMA Ends == ASSUME NEW p \in Programs PROVE EndsRise(p)
<1> DEFINE n == Len(p)
           ls == [j \in DOMAIN p |-> p[j].length]
           ds == [j \in DOMAIN p |-> Delta(p[j])]
<1>1. /\ n \in Nat \ {0} /\ DOMAIN p = 1..n
      /\ \A k \in 1..n : p[k].length \in Nat /\ p[k].length >= 2 /\ IsEven(p[k].length)
           /\ Delta(p[k]) \in Int
  BY ProgramTyped DEF IsEven
<1>2. ls \in Seq(Int) /\ ds \in Seq(Int) /\ Len(ls) = n /\ Len(ds) = n
  <2>1. ls = [j \in 1..n |-> p[j].length] /\ ds = [j \in 1..n |-> Delta(p[j])]
    BY <1>1
  <2> HIDE DEF ls, ds, n
  <2> QED  BY <1>1, <2>1
<1>3. \A k \in 1..n : ls[k] = p[k].length /\ ds[k] = Delta(p[k])
  BY <1>1
<1>4. /\ \A k : EndOf(p, k) = Totals(ls)[k]
      /\ \A k : LineAt(p, k) = FirstLine + Totals(ds)[k]
  BY DEF EndOf, LineAt
<1> HIDE DEF ls, ds, n
<1>5. /\ Totals(ls) \in [0..n -> Int] /\ Totals(ls)[0] = 0
      /\ \A k \in 1..n : Totals(ls)[k] = Totals(ls)[k - 1] + ls[k]
  BY <1>2, TotalsSteps
<1>6. /\ Totals(ds) \in [0..n -> Int] /\ Totals(ds)[0] = 0
      /\ \A k \in 1..n : Totals(ds)[k] = Totals(ds)[k - 1] + ds[k]
  BY <1>2, TotalsSteps
<1>7. \A k \in 1..n : k - 1 \in 0..n
  BY <1>1
<1>8. EndOf(p, 0) = 0 /\ LineAt(p, 0) = FirstLine
  BY <1>4, <1>5, <1>6, LineAssumption
<1>9. \A k \in 0..n : EndOf(p, k) \in Int /\ LineAt(p, k) \in Int
  BY <1>4, <1>5, <1>6, LineAssumption
<1>10. \A k \in 1..n : /\ EndOf(p, k) = EndOf(p, k - 1) + p[k].length
                        /\ LineAt(p, k) = LineAt(p, k - 1) + Delta(p[k])
  <2> TAKE k \in 1..n
  <2>1. EndOf(p, k) = EndOf(p, k - 1) + p[k].length
    BY <1>3, <1>4, <1>5
  <2>2. LineAt(p, k) = FirstLine + (Totals(ds)[k - 1] + Delta(p[k]))
          /\ LineAt(p, k - 1) = FirstLine + Totals(ds)[k - 1]
    BY <1>3, <1>4, <1>6
  <2>3. Totals(ds)[k - 1] \in Int /\ Delta(p[k]) \in Int
    BY <1>1, <1>6, <1>7
  <2> QED  BY <2>1, <2>2, <2>3, LineAssumption
<1> DEFINE S == {k \in 0..n : IsEven(EndOf(p, k)) /\ \A m \in 0..k : EndOf(p, m) <= EndOf(p, k)}
<1>11. 0 \in S
  <2>1. 0 \in 0..n /\ \A m \in 0..0 : m = 0
    BY <1>1
  <2> QED  BY <1>8, <2>1 DEF IsEven
<1>12. ASSUME NEW k \in 0..(n - 1), k \in S PROVE k + 1 \in S
  <2>1. k + 1 \in 1..n /\ (k + 1) - 1 = k /\ k + 1 \in 0..n /\ k \in 0..n
    BY <1>1
  <2>2. EndOf(p, k + 1) = EndOf(p, k) + p[k + 1].length
    BY <1>10, <2>1
  <2>3. IsEven(EndOf(p, k)) /\ IsEven(p[k + 1].length) /\ EndOf(p, k) \in Nat
          /\ p[k + 1].length \in Nat
    BY <1>1, <1>12, <2>1 DEF IsEven
  <2>4. IsEven(EndOf(p, k + 1))
    BY <2>2, <2>3, EvenSum
  <2>5. \A m \in 0..(k + 1) : EndOf(p, m) <= EndOf(p, k + 1)
    <3>1. ASSUME NEW m \in 0..(k + 1) PROVE EndOf(p, m) <= EndOf(p, k + 1)
      <4>1. CASE m = k + 1
        <5>1. EndOf(p, k + 1) \in Nat
          BY <2>4 DEF IsEven
        <5> QED  BY <4>1, <5>1
      <4>2. CASE m \in 0..k
        <5>1. EndOf(p, m) <= EndOf(p, k)
          BY <1>12, <4>2
        <5>2. EndOf(p, m) \in Int
          <6>1. m \in 0..n
            BY <1>1, <2>1, <4>2
          <6> QED  BY <1>9, <6>1
        <5> QED  BY <2>2, <2>3, <5>1, <5>2
      <4> QED  BY <4>1, <4>2
    <3> QED  BY <3>1
  <2> QED  BY <2>1, <2>4, <2>5
<1> HIDE DEF S
<1>13. 0..n \subseteq S
  <2>1. n \in Nat
    BY <1>1
  <2> QED  BY <1>11, <1>12, <2>1, BoundedInduction
<1>14. \A k \in 0..n : IsEven(EndOf(p, k)) /\ \A m \in 0..k : EndOf(p, m) <= EndOf(p, k)
  BY <1>13 DEF S
<1> QED  BY <1>1, <1>7, <1>8, <1>9, <1>10, <1>14, Zenon DEF EndsRise, n

InRun(p, k, offset) == k \in 1..Len(p) /\ EndOf(p, k - 1) <= offset /\ offset < EndOf(p, k)

(* The line of an instruction is that of the run it is in, and of no       *)
(* other.                                                                  *)
LEMMA LineOfRun ==
    ASSUME NEW p \in Programs, NEW offset \in Int, NEW k, InRun(p, k, offset)
    PROVE  LineOf(p, offset) = LineAt(p, k)
<1> DEFINE Is(m) == offset < EndOf(p, m) /\ EndOf(p, m - 1) <= offset
           c == CHOOSE m \in DOMAIN p : Is(m)
<1>1. LineOf(p, offset) = LineAt(p, c)
  BY DEF LineOf
<1>2. EndsRise(p)
  BY Ends
<1>3. k \in DOMAIN p /\ Is(k)
  BY <1>2 DEF InRun, EndsRise
<1>4. c \in DOMAIN p /\ Is(c)
  BY <1>3
<1> HIDE DEF c
<1>5. ASSUME NEW a \in 1..Len(p), NEW b \in 1..Len(p), Is(a), Is(b), a < b PROVE FALSE
  <2>1. a \in 0..(b - 1) /\ b - 1 \in 0..Len(p) /\ a \in 0..Len(p)
    BY <1>2, <1>5 DEF EndsRise
  <2>2. EndOf(p, a) <= EndOf(p, b - 1) /\ EndOf(p, a) \in Int /\ EndOf(p, b - 1) \in Int
    <3>1. EndOf(p, a) <= EndOf(p, b - 1) /\ IsEven(EndOf(p, a)) /\ IsEven(EndOf(p, b - 1))
      BY <1>2, <2>1, Zenon DEF EndsRise
    <3> QED  BY <3>1 DEF IsEven
  <2> QED  BY <1>5, <2>2
<1>6. c = k
  <2>1. c \in 1..Len(p) /\ k \in 1..Len(p)
    BY <1>2, <1>3, <1>4 DEF EndsRise
  <2>2. ~(c < k) /\ ~(k < c)
    BY <1>3, <1>4, <1>5, <2>1
  <2> QED  BY <1>2, <2>1, <2>2 DEF EndsRise
<1> QED  BY <1>1, <1>6

(* Each instruction that is looked at is in a run.                         *)
LEMMA InstructionInRun ==
    ASSUME NEW p \in Programs, NEW i \in Instructions(p)
    PROVE  IsEven(i) /\ i < EndOf(p, Len(p)) /\ \E k \in 1..Len(p) : InRun(p, k, i)
<1>1. EndsRise(p)
  BY Ends
<1>2. PICK k \in 1..Len(p) : i = EndOf(p, k - 1) \/ i = EndOf(p, k) - 2
  BY <1>1 DEF Instructions, EndsRise
<1>3. /\ k \in 0..Len(p) /\ k - 1 \in 0..Len(p) /\ k \in 0..Len(p) /\ Len(p) \in 0..Len(p)
      /\ k \in 0..Len(p)
  BY <1>1 DEF EndsRise
<1>4. /\ EndOf(p, k) = EndOf(p, k - 1) + p[k].length /\ IsEven(p[k].length) /\ p[k].length >= 2
      /\ IsEven(EndOf(p, k)) /\ IsEven(EndOf(p, k - 1)) /\ IsEven(EndOf(p, Len(p)))
      /\ EndOf(p, k) <= EndOf(p, Len(p))
  BY <1>1, <1>3 DEF EndsRise
<1>5. IsEven(i)
  BY <1>2, <1>4, SMTT(30) DEF IsEven
<1>6. InRun(p, k, i)
  BY <1>2, <1>4 DEF InRun, IsEven
<1>7. i < EndOf(p, Len(p))
  BY <1>4, <1>5, <1>6 DEF InRun, IsEven
<1> QED  BY <1>5, <1>6, <1>7

-----------------------------------------------------------------------------
(* The three tables alike. *)

Formats == {"lnotab", "linetable", "locations"}
EntrySet == IF format = "locations" THEN LocationSet ELSE PairSet
RunDelta(p, k) == IF format = "lnotab" THEN Delta(p[k + 1]) ELSE Delta(p[k])
Describes(e, p, k, j) ==
    /\ format = "lnotab" => LnotabEntry(e, p, k, j)
    /\ format = "linetable" => LinetableEntry(e, p, k, j)
    /\ format = "locations" => LocationsEntry(e, p, k, j)

DescribesRun(run, p, k) ==
    /\ run \in Seq(EntrySet)
    /\ RunFacts(p, k, Len(run), RunDelta(p, k))
    /\ \A j \in 1..Len(run) : Describes(run[j], p, k, j)

IsTableOf(E, p) ==
    /\ IsTable(E, EntrySet)
    /\ Len(E) = IF format = "lnotab" THEN Len(p) - 1 ELSE Len(p)
    /\ \A k \in 1..Len(E) : DescribesRun(E[k], p, k)

(* Entries are sequences of bytes that are not empty.                      *)
LEMMA EntriesTyped == \A e \in EntrySet : e \in Seq(Nat) /\ Len(e) > 0
<1>1. ASSUME NEW e \in PairSet PROVE e \in Seq(Nat) /\ Len(e) > 0
  <2> DEFINE S == 0..255
  <2>1. e \in Seq(S) /\ Len(e) = 2 /\ \A x \in S : x \in Nat
    BY DEF PairSet
  <2> HIDE DEF S
  <2>2. e \in Seq(Nat)
    BY <2>1
  <2> QED  BY <2>1, <2>2
<1>2. ASSUME NEW e \in LocationSet PROVE e \in Seq(Nat) /\ Len(e) > 0
  <2>1. PICK u \in Units, d \in Jumps \cup {NoLine}, full \in BOOLEAN : e = Location(u, d, full)
    BY DEF LocationSet
  <2>2. PICK c, h : IsForm(e, u, d, c, h)
    BY <2>1, LocationForm
  <2>3. e \in Seq(Nat) /\ Len(e) \in Nat \ {0}
    BY <2>2, LocationTyped
  <2> QED  BY <2>3
<1> QED  BY <1>1, <1>2 DEF EntrySet

(* The three compilers alike: the entries describe the runs of the         *)
(* program.                                                                *)
LEMMA TablesAre ==
    ASSUME format \in Formats, NEW p \in Programs, NEW full \in BOOLEAN
    PROVE  IsTableOf(Entries(format, p, full), p)
<1> DEFINE E == Entries(format, p, full)
           n == IF format = "lnotab" THEN Len(p) - 1 ELSE Len(p)
           Run(k) == CASE format = "lnotab" -> LnotabPairs(p, k)
                       [] format = "linetable" -> LinetablePairs(p, k)
                       [] format = "locations" -> LocationEntries(p, k, full)
<1>1. Len(p) \in Nat \ {0} /\ DOMAIN p = 1..Len(p)
  BY ProgramTyped
<1>2. n \in Nat
  BY <1>1
<1>3. E = [k \in 1..n |-> Run(k)]
  <2>1. CASE format = "lnotab"
    BY <2>1 DEF Entries, Lnotab
  <2>2. CASE format = "linetable"
    BY <1>1, <2>2 DEF Entries, Linetable
  <2>3. CASE format = "locations"
    BY <1>1, <2>3 DEF Entries, Locations
  <2> QED  BY <2>1, <2>2, <2>3 DEF Formats
<1>4. \A k \in 1..n : DescribesRun(Run(k), p, k)
  <2>1. CASE format = "lnotab"
    <3>1. ASSUME NEW k \in 1..(Len(p) - 1)
          PROVE  DescribesRun(LnotabPairs(p, k), p, k)
      <4>1. RunDelta(p, k) = Delta(p[k + 1]) /\ EntrySet = PairSet
        BY <2>1 DEF RunDelta, EntrySet
      <4> QED  BY <2>1, <4>1, LnotabRun DEF DescribesRun, Describes
    <3>2. n = Len(p) - 1 /\ \A k : Run(k) = LnotabPairs(p, k)
      BY <2>1
    <3> QED  BY <3>1, <3>2
  <2>2. CASE format = "linetable"
    <3>1. ASSUME NEW k \in 1..Len(p)
          PROVE  DescribesRun(LinetablePairs(p, k), p, k)
      <4>1. RunDelta(p, k) = Delta(p[k]) /\ EntrySet = PairSet
        BY <2>2 DEF RunDelta, EntrySet
      <4> QED  BY <2>2, <4>1, LinetableRun DEF DescribesRun, Describes
    <3>2. n = Len(p) /\ \A k : Run(k) = LinetablePairs(p, k)
      BY <2>2
    <3> QED  BY <3>1, <3>2
  <2>3. CASE format = "locations"
    <3>1. ASSUME NEW k \in 1..Len(p)
          PROVE  DescribesRun(LocationEntries(p, k, full), p, k)
      <4>1. RunDelta(p, k) = Delta(p[k]) /\ EntrySet = LocationSet
        BY <2>3 DEF RunDelta, EntrySet
      <4> QED  BY <2>3, <4>1, LocationsRun DEF DescribesRun, Describes
    <3>2. n = Len(p) /\ \A k : Run(k) = LocationEntries(p, k, full)
      BY <2>3
    <3> QED  BY <3>1, <3>2
  <2> QED  BY <2>1, <2>2, <2>3 DEF Formats
<1> HIDE DEF n, Run
<1>5. \A k \in 1..n : Run(k) \in Seq(EntrySet)
  BY <1>4 DEF DescribesRun
<1>6. E \in Seq(Seq(EntrySet)) /\ Len(E) = n /\ \A k \in 1..n : E[k] = Run(k)
  BY <1>2, <1>3, <1>5
<1> HIDE DEF E
<1>7. IsTable(E, EntrySet)
  BY <1>6, EntriesTyped DEF IsTable
<1> QED  BY <1>4, <1>6, <1>7 DEF IsTableOf, E, n

(* The table of the other code is one, too.                                *)
LEMMA OtherTableIs == IsTable(OtherEntries, LocationSet)
<1>1. 0 \in Jumps \cup {NoLine}
  BY DEF Jumps
<1>2. Location(1, 0, FALSE) \in LocationSet
  <2>1. 1 \in Units
    BY DEF Units
  <2>2. \A u \in Units, d \in Jumps \cup {NoLine}, full \in BOOLEAN :
          Location(u, d, full) \in LocationSet
    BY DEF LocationSet
  <2> QED  BY <1>1, <2>1, <2>2
<1>3. <<<<Location(1, 0, FALSE)>>>> \in Seq(Seq(LocationSet))
  <2> DEFINE e == Location(1, 0, FALSE)
  <2>1. e \in LocationSet
    BY <1>2
  <2> HIDE DEF e
  <2>2. <<<<e>>>> \in Seq(Seq(LocationSet))
    BY <2>1
  <2> QED  BY <2>2 DEF e
<1>4. ASSUME NEW e \in LocationSet PROVE e \in Seq(Nat) /\ Len(e) > 0
  <2>1. PICK u \in Units, d \in Jumps \cup {NoLine}, full \in BOOLEAN : e = Location(u, d, full)
    BY DEF LocationSet
  <2>2. PICK c, h : IsForm(e, u, d, c, h)
    BY <2>1, LocationForm
  <2>3. e \in Seq(Nat) /\ Len(e) \in Nat \ {0}
    BY <2>2, LocationTyped
  <2> QED  BY <2>3
<1> QED  BY <1>3, <1>4 DEF IsTable, OtherEntries

-----------------------------------------------------------------------------
(* The decoders on the way. *)

ReadTo(E, p, k, j, i, a, l) == /\ i = Place(E, Totals(Lengths(E))[k - 1] + j) + 1
                               /\ a = EndOf(p, k - 1) + BytesOf(p, k, j)
                               /\ l = StartLine(p, k) + DeltaOf(p, k, j)

AtTheEnd(E, p, i, a, l) == /\ i = Len(Joined(E)) + 1
                           /\ a = EndOf(p, Len(E))
                           /\ l = StartLine(p, Len(E)) + RunDelta(p, Len(E))

(* The runs of a table have entries, and the places of these are numbers.  *)
LEMMA RunsTyped ==
    ASSUME format \in Formats, NEW p \in Programs, NEW E, IsTableOf(E, p), NEW k \in 1..Len(E)
    PROVE  /\ Len(E) \in Nat /\ k \in 1..Len(p) /\ k - 1 \in 0..Len(p) /\ k \in 0..Len(p)
           /\ StartLine(p, k) \in Int /\ RunDelta(p, k) \in Int
           /\ k < Len(E) => StartLine(p, k + 1) = StartLine(p, k) + RunDelta(p, k)
           /\ RunFacts(p, k, Len(E[k]), RunDelta(p, k))
<1>1. EndsRise(p)
  BY Ends, SMTT(30)
<1>2. Len(E) = (IF format = "lnotab" THEN Len(p) - 1 ELSE Len(p)) /\ Len(p) \in Nat \ {0}
  BY <1>1, Zenon DEF IsTableOf, EndsRise
<1>3. Len(E) \in Nat /\ k \in 1..Len(p) /\ k - 1 \in 0..Len(p) /\ k \in 0..Len(p)
  BY <1>2
<1>4. format = "lnotab" => k + 1 \in 1..Len(p) /\ (k + 1) - 1 = k
  BY <1>2
<1>5. StartLine(p, k) \in Int /\ RunDelta(p, k) \in Int
  BY <1>1, <1>3, <1>4 DEF EndsRise, StartLine, RunDelta
<1>6. ASSUME k < Len(E) PROVE StartLine(p, k + 1) = StartLine(p, k) + RunDelta(p, k)
  <2>1. (k + 1) - 1 = k
    BY <1>3
  <2>2. LineAt(p, k) = LineAt(p, k - 1) + Delta(p[k])
    BY <1>1, <1>3 DEF EndsRise
  <2>3. format = "lnotab" => LineAt(p, k + 1) = LineAt(p, k) + Delta(p[k + 1])
    BY <1>1, <1>4 DEF EndsRise
  <2> QED  BY <2>1, <2>2, <2>3 DEF StartLine, RunDelta
<1> QED  BY <1>3, <1>5, <1>6 DEF IsTableOf, DescribesRun

(* Behind the last entry of a run is the first of the next one.            *)
LEMMA EndOrAhead ==
    ASSUME format \in Formats, NEW p \in Programs, NEW E, IsTableOf(E, p),
           NEW k \in 1..Len(E), NEW j \in 0..Len(E[k]), NEW i, NEW a, NEW l,
           ReadTo(E, p, k, j, i, a, l)
    PROVE  \/ AtTheEnd(E, p, i, a, l)
           \/ \E m \in 1..Len(E) : \E n \in 1..Len(E[m]) : ReadTo(E, p, m, n - 1, i, a, l)
<1>1. RunFacts(p, k, Len(E[k]), RunDelta(p, k)) /\ Len(E[k]) \in Nat \ {0} /\ Len(E) \in Nat
  BY RunsTyped DEF RunFacts
<1>2. CASE j < Len(E[k])
  <2>1. j + 1 \in 1..Len(E[k]) /\ (j + 1) - 1 = j
    BY <1>1, <1>2
  <2> QED  BY <2>1
<1>3. CASE ~(j < Len(E[k]))
  <2>0. j = Len(E[k])
    BY <1>1, <1>3
  <2> DEFINE T == Totals(Lengths(E))
  <2>1. BytesOf(p, k, j) = p[k].length /\ DeltaOf(p, k, j) = RunDelta(p, k)
    BY <1>1, <2>0 DEF RunFacts
  <2>2. EndOf(p, k) = EndOf(p, k - 1) + p[k].length /\ k \in 1..Len(p)
    BY RunsTyped, Ends DEF EndsRise
  <2>3. T[k] = T[k - 1] + Len(E[k]) /\ T[Len(E)] = Len(All(E))
    <3>1. IsTable(E, EntrySet)
      BY DEF IsTableOf
    <3> QED  BY <3>1, RunPlaces
  <2> HIDE DEF T
  <2>4. i = Place(E, T[k]) + 1 /\ a = EndOf(p, k) /\ l = StartLine(p, k) + RunDelta(p, k)
    BY <2>0, <2>1, <2>2, <2>3 DEF ReadTo, T
  <2>5. CASE k = Len(E)
    <3>1. Place(E, Len(All(E))) = Len(Joined(E))
      BY TablePlaces DEF IsTableOf
    <3> QED  BY <2>3, <2>4, <2>5, <3>1 DEF AtTheEnd
  <2>6. CASE k < Len(E)
    <3> DEFINE m == k + 1
    <3>1. m \in 1..Len(E) /\ m - 1 = k
      BY <1>1, <2>6
    <3>2. StartLine(p, m) = StartLine(p, k) + RunDelta(p, k)
      BY <2>6, RunsTyped
    <3> HIDE DEF m
    <3>3. /\ RunFacts(p, m, Len(E[m]), RunDelta(p, m)) /\ StartLine(p, m) \in Int
          /\ k \in 0..Len(p)
      BY <3>1, RunsTyped
    <3>4. BytesOf(p, m, 0) = 0 /\ DeltaOf(p, m, 0) = 0 /\ Len(E[m]) \in Nat \ {0}
      BY <3>3 DEF RunFacts
    <3>5. T[k] \in Nat
      BY <3>1, RunPlaces DEF IsTableOf, T
    <3>6. EndOf(p, k) \in Nat
      BY <3>3, Ends DEF EndsRise, IsEven
    <3>7. T[k] + 0 = T[k] /\ EndOf(p, k) + 0 = EndOf(p, k)
            /\ StartLine(p, m) + 0 = StartLine(p, m)
      BY <3>3, <3>5, <3>6
    <3>8. ReadTo(E, p, m, 0, i, a, l)
      BY <2>4, <3>1, <3>2, <3>4, <3>7 DEF ReadTo, T
    <3>9. 1 \in 1..Len(E[m]) /\ 1 - 1 = 0
      BY <3>4
    <3> QED  BY <3>1, <3>8, <3>9
  <2> QED  BY <1>1, <2>5, <2>6
<1> QED  BY <1>2, <1>3

(* The entry the decoder is at, and where it is when it has read it.       *)
IsAhead(E, p, k, j, i, a, l) ==
    /\ i \in 1..Len(Joined(E)) /\ i \in Nat /\ a \in Nat /\ l \in Int
    /\ i + Len(E[k][j]) - 1 \in 1..Len(Joined(E))
    /\ \A x \in 1..Len(E[k][j]) : Joined(E)[i + x - 1] = E[k][j][x]
    /\ E[k][j] \in EntrySet /\ Describes(E[k][j], p, k, j)
    /\ Totals(Lengths(E))[k - 1] + j \in 1..Len(All(E))
    /\ i + Len(E[k][j]) = Place(E, Totals(Lengths(E))[k - 1] + j) + 1
    /\ ReadTo(E, p, k, j, i + Len(E[k][j]),
              a + (BytesOf(p, k, j) - BytesOf(p, k, j - 1)),
              l + (DeltaOf(p, k, j) - DeltaOf(p, k, j - 1)))
    /\ EndOf(p, k - 1) <= a
    /\ a + (BytesOf(p, k, j) - BytesOf(p, k, j - 1)) <= EndOf(p, k)

(* The entry a decoder is about to read, and where it lies.                *)
LEMMA EntryAhead ==
    ASSUME format \in Formats, NEW p \in Programs, NEW E, IsTableOf(E, p),
           NEW k \in 1..Len(E), NEW j \in 1..Len(E[k]), NEW i, NEW a, NEW l,
           ReadTo(E, p, k, j - 1, i, a, l)
    PROVE  IsAhead(E, p, k, j, i, a, l)
<1> DEFINE t == Totals(Lengths(E))[k - 1]
           e == E[k][j]
<1>1. IsTable(E, EntrySet)
  BY DEF IsTableOf
<1>2. E[k] \in Seq(EntrySet) /\ t \in Nat /\ t + j \in 1..Len(All(E)) /\ All(E)[t + j] = e
  BY <1>1, RunPlaces
<1>3. RunFacts(p, k, Len(E[k]), RunDelta(p, k)) /\ StartLine(p, k) \in Int
        /\ k \in 1..Len(p) /\ k - 1 \in 0..Len(p)
  BY RunsTyped
<1>4. /\ Len(E[k]) \in Nat \ {0} /\ j \in 0..Len(E[k]) /\ j - 1 \in 0..Len(E[k]) /\ j \in Nat
      /\ (t + j) - 1 = t + (j - 1)
  <2>1. Len(E[k]) \in Nat \ {0}
    BY <1>3 DEF RunFacts
  <2> HIDE DEF t
  <2> QED  BY <1>2, <2>1
<1>5. /\ BytesOf(p, k, j) \in 0..p[k].length /\ DeltaOf(p, k, j) \in Int
      /\ BytesOf(p, k, j - 1) \in 0..p[k].length /\ DeltaOf(p, k, j - 1) \in Int
  BY <1>3, <1>4 DEF RunFacts
<1>6. EndOf(p, k) = EndOf(p, k - 1) + p[k].length /\ EndOf(p, k - 1) \in Nat
        /\ p[k].length \in Nat
  BY <1>3, Ends DEF EndsRise, IsEven
<1>7. e \in EntrySet /\ Describes(e, p, k, j)
  <2>1. e \in EntrySet
    BY <1>2
  <2> QED  BY <2>1 DEF IsTableOf, DescribesRun
<1>8. Len(e) \in Nat \ {0}
  <2>1. e \in Seq(Nat) /\ Len(e) > 0
    BY <1>7, EntriesTyped
  <2> HIDE DEF e
  <2> QED  BY <2>1
<1> HIDE DEF t, e
<1>9. /\ Place(E, t + (j - 1)) \in Nat
      /\ Place(E, t + j) = Place(E, t + (j - 1)) + Len(e)
      /\ \A x \in 1..Len(e) : /\ Place(E, t + (j - 1)) + x \in 1..Len(Joined(E))
                              /\ Joined(E)[Place(E, t + (j - 1)) + x] = e[x]
  <2> DEFINE m == t + j
  <2>1. m \in 1..Len(All(E)) /\ All(E)[m] = e /\ m - 1 = t + (j - 1)
    BY <1>2, <1>4 DEF t, e
  <2> HIDE DEF m
  <2>2. /\ Place(E, m - 1) \in Nat
        /\ Place(E, m) = Place(E, m - 1) + Len(All(E)[m])
        /\ \A x \in 1..Len(All(E)[m]) : /\ Place(E, m - 1) + x \in 1..Len(Joined(E))
                                        /\ Joined(E)[Place(E, m - 1) + x] = All(E)[m][x]
    <3>1. IsPlaced(E, m)
      BY <1>1, <2>1, TablePlaces
    <3> QED  BY <3>1, Zenon DEF IsPlaced
  <2>3. /\ Place(E, t + (j - 1)) \in Nat
        /\ Place(E, m) = Place(E, t + (j - 1)) + Len(e)
        /\ \A x \in 1..Len(e) : /\ Place(E, t + (j - 1)) + x \in 1..Len(Joined(E))
                                /\ Joined(E)[Place(E, t + (j - 1)) + x] = e[x]
    BY <2>1, <2>2, Zenon
  <2> QED  BY <2>3 DEF m
<1>10. /\ i = Place(E, t + (j - 1)) + 1
       /\ a = EndOf(p, k - 1) + BytesOf(p, k, j - 1)
       /\ l = StartLine(p, k) + DeltaOf(p, k, j - 1)
  BY DEF ReadTo, t
<1>11. /\ i \in Nat /\ i \in 1..Len(Joined(E)) /\ i + Len(e) - 1 \in 1..Len(Joined(E))
       /\ \A x \in 1..Len(e) : Joined(E)[i + x - 1] = e[x]
  <2>1. 1 \in 1..Len(e) /\ Len(e) \in 1..Len(e)
    BY <1>8
  <2>2. ASSUME NEW x \in 1..Len(e) PROVE i + x - 1 = Place(E, t + (j - 1)) + x
    BY <1>9, <1>10, SMTT(30)
  <2>3. i \in Nat /\ i \in 1..Len(Joined(E))
    BY <1>9, <1>10, <2>1
  <2>4. i + Len(e) - 1 \in 1..Len(Joined(E))
    BY <1>9, <2>1, <2>2
  <2> QED  BY <1>9, <2>2, <2>3, <2>4, Zenon
<1>12. i + Len(e) = Place(E, t + j) + 1
  BY <1>8, <1>9, <1>10
<1>13. /\ a \in Nat /\ l \in Int /\ EndOf(p, k - 1) <= a
       /\ a + (BytesOf(p, k, j) - BytesOf(p, k, j - 1)) = EndOf(p, k - 1) + BytesOf(p, k, j)
       /\ a + (BytesOf(p, k, j) - BytesOf(p, k, j - 1)) <= EndOf(p, k)
       /\ l + (DeltaOf(p, k, j) - DeltaOf(p, k, j - 1)) = StartLine(p, k) + DeltaOf(p, k, j)
  <2> DEFINE low == EndOf(p, k - 1)
             b == BytesOf(p, k, j)
             c == BytesOf(p, k, j - 1)
             n == p[k].length
             u == DeltaOf(p, k, j)
             v == DeltaOf(p, k, j - 1)
             w == StartLine(p, k)
  <2>1. /\ low \in Nat /\ n \in Nat /\ b \in 0..n /\ c \in 0..n /\ u \in Int /\ v \in Int
             /\ w \in Int
        /\ a = low + c /\ l = w + v /\ EndOf(p, k) = low + n
    BY <1>3, <1>5, <1>6, <1>10
  <2> HIDE DEF low, b, c, n, u, v, w
  <2>2. /\ a \in Nat /\ l \in Int /\ low <= a /\ a + (b - c) = low + b
        /\ a + (b - c) <= EndOf(p, k) /\ l + (u - v) = w + u
    BY <2>1
  <2> QED  BY <2>2 DEF low, b, c, n, u, v, w
<1>14. ReadTo(E, p, k, j, i + Len(e), a + (BytesOf(p, k, j) - BytesOf(p, k, j - 1)),
              l + (DeltaOf(p, k, j) - DeltaOf(p, k, j - 1)))
  BY <1>12, <1>13 DEF ReadTo, t
<1> QED  BY <1>2, <1>7, <1>11, <1>12, <1>13, <1>14, Zenon DEF IsAhead, t, e

(* A round reads one entry.  When it goes beyond the instruction the line  *)
(* is that of the run.                                                     *)
Round(p, k, j, e) ==
    /\ it' = it + Len(e)
    /\ addr' = addr + (BytesOf(p, k, j) - BytesOf(p, k, j - 1))
    /\ \/ /\ ~(addr' > Offset) /\ pc' = "loop"
          /\ line' = line + (DeltaOf(p, k, j) - DeltaOf(p, k, j - 1))
       \/ addr' > Offset /\ pc' = "done" /\ line' = LineAt(p, k)

(* A round of a decoder of pairs reads one pair.                           *)
LEMMA PairRead ==
    ASSUME NEW e \in PairSet, it \in Nat, \A x \in 1..Len(e) : table[it + x - 1] = e[x]
    PROVE  table[it] = e[1] /\ table[it + 1] = e[2] /\ Len(e) = 2 /\ e[1] \in Int /\ e[2] \in Int
<1> DEFINE S == 0..255
<1>1. e \in Seq(S) /\ Len(e) = 2 /\ \A x \in S : x \in Int
  BY DEF PairSet
<1> HIDE DEF S
<1>2. e[1] \in Int /\ e[2] \in Int
  <2>1. 1 \in 1..Len(e) /\ 2 \in 1..Len(e)
    BY <1>1
  <2>2. \A x \in 1..Len(e) : e[x] \in S
    <3>1. e \in Seq(S)
      BY <1>1
    <3> QED  BY <3>1
  <2> QED  BY <1>1, <2>1, <2>2
<1>3. it + 1 - 1 = it /\ it + 2 - 1 = it + 1 /\ 1 \in 1..2 /\ 2 \in 1..2
  OBVIOUS
<1>4. table[it + 1 - 1] = e[1] /\ table[it + 2 - 1] = e[2]
  BY <1>1, <1>3
<1> QED  BY <1>1, <1>2, <1>3, <1>4

(* A round of any decoder over the table of the program reads one entry.   *)
LEMMA OwnRound ==
    ASSUME format \in Formats, program \in Programs, NEW E, IsTableOf(E, program),
             table = Joined(E),
           NEW k \in 1..Len(E), NEW j \in 1..Len(E[k]),
           ReadTo(E, program, k, j - 1, it, addr, line),
           Offset \in Int, addr <= Offset, pc = "loop", OldPair \/ NewPair \/ LocationEntry
    PROVE  Round(program, k, j, E[k][j])
<1> DEFINE p == program
           e == E[k][j]
           b == BytesOf(p, k, j) - BytesOf(p, k, j - 1)
           d == DeltaOf(p, k, j) - DeltaOf(p, k, j - 1)
<1>1. /\ it \in Nat /\ addr \in Nat /\ line \in Int
      /\ \A x \in 1..Len(e) : table[it + x - 1] = e[x]
      /\ e \in EntrySet /\ Describes(e, p, k, j)
  <2>1. IsAhead(E, program, k, j, it, addr, line)
    BY EntryAhead
  <2> QED  BY <2>1, Zenon DEF IsAhead
<1>2. line = StartLine(p, k) + DeltaOf(p, k, j - 1)
  BY DEF ReadTo
<1>3. EndsRise(p) /\ k \in 1..Len(p) /\ StartLine(p, k) \in Int
        /\ RunFacts(p, k, Len(E[k]), RunDelta(p, k))
  BY Ends, RunsTyped
<1>4. DeltaOf(p, k, j) \in Int /\ DeltaOf(p, k, j - 1) \in Int /\ BytesOf(p, k, j) \in Int
        /\ BytesOf(p, k, j - 1) \in Int
  <2>1. Len(E[k]) \in Nat \ {0}
    BY <1>3 DEF RunFacts
  <2>2. j \in 0..Len(E[k]) /\ j - 1 \in 0..Len(E[k])
    BY <2>1
  <2>3. BytesOf(p, k, j) \in 0..p[k].length /\ BytesOf(p, k, j - 1) \in 0..p[k].length
        /\ DeltaOf(p, k, j) \in Int /\ DeltaOf(p, k, j - 1) \in Int
    BY <1>3, <2>2 DEF RunFacts
  <2> QED  BY <2>3
<1>5. LineAt(p, k) = LineAt(p, k - 1) + Delta(p[k]) /\ LineAt(p, k - 1) \in Int
        /\ Delta(p[k]) \in Int
      /\ LineAt(p, k) \in Int
  <2>1. k - 1 \in 0..Len(p) /\ k \in 0..Len(p)
    BY <1>3 DEF EndsRise
  <2> QED  BY <1>3, <2>1 DEF EndsRise
<1>6. b \in Int /\ d \in Int
  BY <1>4
<1>7. CASE format = "lnotab"
  <2>1. OldPair
    BY <1>7 DEF NewPair, LocationEntry
  <2>2. /\ e[1] = b /\ (e[1] > 0 => DeltaOf(p, k, j - 1) = 0)
        /\ e[2] - (IF e[2] >= 128 THEN 256 ELSE 0) = d
    BY <1>1, <1>7 DEF Describes, LnotabEntry
  <2>3. e \in PairSet
    BY <1>1, <1>7 DEF EntrySet
  <2> HIDE DEF e, b, d
  <2>4. table[it] = e[1] /\ table[it + 1] = e[2] /\ Len(e) = 2
    BY <1>1, <2>3, PairRead
  <2>5. it' = it + Len(e) /\ addr' = addr + b
    BY <2>1, <2>2, <2>4 DEF OldPair
  <2>6. CASE ~(addr' > Offset)
    <3>1. pc' = "loop" /\ line' = line + d
      BY <2>1, <2>2, <2>4, <2>6, ZenonT(30) DEF OldPair
    <3> QED  BY <2>5, <2>6, <3>1 DEF Round, e, b, d
  <2>7. CASE addr' > Offset
    <3>1. pc' = "done" /\ line' = line
      BY <2>1, <2>7 DEF OldPair
    <3>2. b > 0
      BY <1>1, <1>6, <2>5, <2>7
    <3>3. line = LineAt(p, k)
      BY <1>2, <1>3, <1>7, <2>2, <3>2 DEF StartLine
    <3> QED  BY <2>5, <2>7, <3>1, <3>3 DEF Round, e, b, d
  <2> QED  BY <2>6, <2>7
<1>8. CASE format = "linetable"
  <2>1. NewPair
    BY <1>8 DEF OldPair, LocationEntry
  <2>2. /\ e[1] = b /\ (e[1] > 0 => DeltaOf(p, k, j) = Delta(p[k])) /\ NewDelta(e[2]) = d
    BY <1>1, <1>8 DEF Describes, LinetableEntry
  <2>3. e \in PairSet
    BY <1>1, <1>8 DEF EntrySet
  <2>8. line + d = StartLine(p, k) + DeltaOf(p, k, j)
    BY <1>2, <1>3, <1>4
  <2> HIDE DEF e, b, d
  <2>4. table[it] = e[1] /\ table[it + 1] = e[2] /\ Len(e) = 2
    BY <1>1, <2>3, PairRead
  <2>5. it' = it + Len(e) /\ addr' = addr + b /\ line' = line + d
        /\ pc' = IF addr' > Offset THEN "done" ELSE "loop"
    BY <2>1, <2>2, <2>4 DEF NewPair
  <2>6. CASE ~(addr' > Offset)
    BY <2>5, <2>6 DEF Round, e, b, d
  <2>7. CASE addr' > Offset
    <3>1. b > 0
      BY <1>1, <1>6, <2>5, <2>7
    <3>2. line' = LineAt(p, k)
      BY <1>5, <1>8, <2>2, <2>5, <2>8, <3>1 DEF StartLine
    <3> QED  BY <2>5, <2>7, <3>2 DEF Round, e, b, d
  <2> QED  BY <2>6, <2>7
<1>9. CASE format = "locations"
  <2>1. LocationEntry
    BY <1>9 DEF OldPair, NewPair
  <2>2. PICK u \in Units, c \in Jumps \cup {NoLine}, full \in BOOLEAN :
           e = Location(u, c, full) /\ 2 * u = b /\ Jump(c) = d /\ DeltaOf(p, k, j) = Delta(p[k])
    BY <1>1, <1>9, Zenon DEF Describes, LocationsEntry
  <2>3. line + d = StartLine(p, k) + DeltaOf(p, k, j)
    BY <1>2, <1>3, <1>4
  <2> HIDE DEF e, b, d
  <2>4. IsAt(it, Location(u, c, full))
    BY <1>1, <2>2 DEF IsAt
  <2>5. Reads(Location(u, c, full), u, c)
    BY <1>1, <2>1, <2>4, LocationRead
  <2>6. it' = it + Len(e) /\ addr' = addr + b /\ line' = line + d
    BY <2>2, <2>5 DEF Reads
  <2>7. pc' = IF addr' > Offset THEN "done" ELSE "loop"
    BY <2>1 DEF LocationEntry
  <2>8. line' = LineAt(p, k)
    BY <1>5, <1>9, <2>2, <2>3, <2>6 DEF StartLine
  <2> QED  BY <2>6, <2>7, <2>8 DEF Round, e, b, d
<1> QED  BY <1>7, <1>8, <1>9 DEF Formats

(* A decoder at an entry, or behind the last, is inside of the table.      *)
LEMMA InsideTheTable ==
    ASSUME NEW E, NEW V, IsTable(E, V), table = Joined(E), AtAnEntry(E)
    PROVE  StaysInTheTable
<1> DEFINE n == Len(All(E))
<1>1. /\ All(E) \in Seq(V) /\ Joined(E) \in Seq(Nat) /\ Place(E, 0) = 0
           /\ Place(E, n) = Len(Joined(E))
      /\ \A i \in 1..n : IsPlaced(E, i)
  BY TablePlaces
<1>2. n \in Nat /\ Len(Joined(E)) \in Nat
  BY <1>1
<1> HIDE DEF n
<1>3. PICK i \in 0..n : it = Place(E, i) + 1
  BY DEF AtAnEntry, n, All
<1>4. CASE i = n
  BY <1>1, <1>2, <1>3, <1>4 DEF StaysInTheTable
<1>5. CASE i \in 0..(n - 1)
  <2> DEFINE m == i + 1
  <2>1. m \in 1..n /\ m - 1 = i
    BY <1>2, <1>5
  <2> HIDE DEF m
  <2>2. IsPlaced(E, m) /\ All(E)[m] \in V
    BY <1>1, <2>1 DEF n
  <2>3. All(E)[m] \in Seq(Nat) /\ Len(All(E)[m]) > 0
    BY <2>2 DEF IsTable
  <2>4. 1 \in 1..Len(All(E)[m])
    BY <2>3
  <2>5. Place(E, i) \in Nat /\ Place(E, i) + 1 \in 1..Len(Joined(E))
    BY <2>1, <2>2, <2>4, Zenon DEF IsPlaced
  <2> QED  BY <1>2, <1>3, <2>5 DEF StaysInTheTable
<1> QED  BY <1>2, <1>4, <1>5

(* A decoder that begins is at an entry.                                   *)
LEMMA AtTheFirst ==
    ASSUME NEW E, NEW V, IsTable(E, V), it = 1
    PROVE  AtAnEntry(E)
<1> DEFINE n == Len(All(E))
<1>1. All(E) \in Seq(V) /\ Place(E, 0) = 0
  BY TablePlaces
<1>2. n \in Nat
  BY <1>1
<1> HIDE DEF n
<1>3. 0 \in 0..n /\ it = Place(E, 0) + 1
  BY <1>1, <1>2
<1> QED  BY <1>3 DEF AtAnEntry, n, All

(* The entry j of run k lies behind those of the runs before and j - 1     *)
(* more.                                                                   *)
LEMMA EntryIsPlaced ==
    ASSUME format \in Formats, NEW p \in Programs, NEW E, IsTableOf(E, p),
           NEW k \in 1..Len(E), NEW j \in 1..Len(E[k])
    PROVE  Len(Joined(E)) > 0
<1> DEFINE m == Totals(Lengths(E))[k - 1] + j
<1>1. IsTable(E, EntrySet)
  BY DEF IsTableOf
<1>2. m \in 1..Len(All(E))
  BY <1>1, RunPlaces
<1> HIDE DEF m
<1>3. All(E) \in Seq(EntrySet) /\ IsPlaced(E, m) /\ Joined(E) \in Seq(Nat)
  BY <1>1, <1>2, TablePlaces
<1>4. All(E)[m] \in EntrySet
  BY <1>2, <1>3
<1>5. 1 \in 1..Len(All(E)[m])
  <2>1. All(E)[m] \in Seq(Nat) /\ Len(All(E)[m]) > 0
    BY <1>4, EntriesTyped
  <2> QED  BY <2>1
<1>6. Place(E, m - 1) + 1 \in 1..Len(Joined(E))
  BY <1>3, <1>5, Zenon DEF IsPlaced
<1>7. Len(Joined(E)) \in Nat
  BY <1>3
<1> HIDE DEF IsPlaced
<1> QED  BY <1>6, <1>7

(* A decoder that begins has read nothing of the first run; a program      *)
(* without entries has one line.                                           *)
LEMMA FirstRun ==
    ASSUME format \in Formats, program \in Programs, NEW E, IsTableOf(E, program),
           it = 1, addr = 0, line = FirstLine, format = "lnotab" => program[1].delta = 0
    PROVE  /\ Len(E) > 0 => /\ 1 \in 1..Len(E) /\ 0 \in 0..Len(E[1]) /\ Len(Joined(E)) > 0
                            /\ ReadTo(E, program, 1, 0, it, addr, line)
           /\ Len(E) = 0 => \A i \in Instructions(program) : line = LineOf(program, i)
<1> DEFINE p == program
<1>1. EndsRise(p) /\ FirstLine \in Int
  BY Ends, LineAssumption
<1>2. Len(p) \in Nat \ {0} /\ EndOf(p, 0) = 0 /\ LineAt(p, 0) = FirstLine
  BY <1>1 DEF EndsRise
<1>3. LineAt(p, 1) = LineAt(p, 1 - 1) + Delta(p[1])
  <2>1. 1 \in 1..Len(p)
    BY <1>2
  <2> QED  BY <1>1, <2>1 DEF EndsRise
<1>4. format = "lnotab" => LineAt(p, 1) = FirstLine
  <2>1. 0 # NoLine
    <3>1. 0 \in Jumps
      BY DEF Jumps
    <3> QED  BY <3>1, LineAssumption
  <2>2. 1 - 1 = 0
    OBVIOUS
  <2>3. format = "lnotab" => Delta(p[1]) = 0
    BY <2>1 DEF Delta
  <2> QED  BY <1>1, <1>2, <1>3, <2>2, <2>3
<1>5. Len(E) = IF format = "lnotab" THEN Len(p) - 1 ELSE Len(p)
  BY DEF IsTableOf
<1>6. ASSUME Len(E) > 0
      PROVE  /\ 1 \in 1..Len(E) /\ 0 \in 0..Len(E[1]) /\ Len(Joined(E)) > 0
             /\ ReadTo(E, p, 1, 0, it, addr, line)
  <2>1. 1 \in 1..Len(E)
    BY <1>2, <1>5, <1>6
  <2>2. RunFacts(p, 1, Len(E[1]), RunDelta(p, 1))
    BY <2>1, RunsTyped
  <2>3. Len(E[1]) \in Nat \ {0} /\ BytesOf(p, 1, 0) = 0 /\ DeltaOf(p, 1, 0) = 0
    BY <2>2 DEF RunFacts
  <2>4. 1 \in 1..Len(E[1]) /\ 0 \in 0..Len(E[1])
    BY <2>3
  <2>5. Len(Joined(E)) > 0
    BY <2>1, <2>4, EntryIsPlaced
  <2>6. Totals(Lengths(E))[1 - 1] + 0 = 0 /\ Place(E, 0) = 0
    <3>1. IsTable(E, EntrySet)
      BY DEF IsTableOf
    <3>2. Totals(Lengths(E))[0] = 0
      BY <3>1, RunPlaces
    <3>3. 1 - 1 = 0
      OBVIOUS
    <3>4. Place(E, 0) = 0
      BY <3>1, TablePlaces
    <3> QED  BY <3>2, <3>3, <3>4
  <2>7. StartLine(p, 1) = FirstLine /\ 1 - 1 = 0
    BY <1>2, <1>4 DEF StartLine
  <2> QED  BY <1>1, <1>2, <2>1, <2>3, <2>4, <2>5, <2>6, <2>7 DEF ReadTo
<1>7. ASSUME Len(E) = 0, NEW i \in Instructions(p) PROVE line = LineOf(p, i)
  <2>1. format = "lnotab" /\ Len(p) = 1
    BY <1>2, <1>5, <1>7
  <2>2. PICK k \in 1..Len(p) : InRun(p, k, i)
    BY InstructionInRun
  <2>3. k = 1 /\ i \in Int
    BY <2>1, InstructionInRun DEF IsEven
  <2> QED  BY <1>4, <2>1, <2>2, <2>3, LineOfRun
<1> QED  BY <1>6, <1>7

(* A decoder at the end of the table has the line of the last run.         *)
LEMMA EndOfOwn ==
    ASSUME format \in Formats, program \in Programs, NEW E, IsTableOf(E, program),
           instruction \in Instructions(program), addr <= instruction,
           AtTheEnd(E, program, it, addr, line)
    PROVE  line = LineOf(program, instruction)
<1> DEFINE p == program
           n == Len(p)
<1>1. EndsRise(p) /\ n \in Nat \ {0}
  BY Ends DEF EndsRise
<1>2. n \in 1..n /\ n - 1 \in 0..n /\ n \in 0..n /\ (n - 1) + 1 = n
  BY <1>1
<1>3. /\ IsEven(EndOf(p, n)) /\ IsEven(EndOf(p, n - 1))
      /\ LineAt(p, n) = LineAt(p, n - 1) + Delta(p[n])
  BY <1>1, <1>2 DEF EndsRise
<1>4. instruction \in Int /\ instruction < EndOf(p, n)
  BY InstructionInRun DEF IsEven
<1>5. /\ Len(E) = IF format = "lnotab" THEN n - 1 ELSE n
      /\ addr = EndOf(p, Len(E)) /\ line = StartLine(p, Len(E)) + RunDelta(p, Len(E))
  BY DEF IsTableOf, AtTheEnd
<1> HIDE DEF n
<1>6. format = "lnotab"
  BY <1>3, <1>4, <1>5 DEF IsEven
<1>7. addr = EndOf(p, n - 1) /\ line = LineAt(p, n)
  BY <1>2, <1>3, <1>5, <1>6 DEF StartLine, RunDelta
<1>8. InRun(p, n, instruction)
  BY <1>2, <1>4, <1>7 DEF InRun, n
<1> QED  BY <1>4, <1>7, <1>8, LineOfRun

-----------------------------------------------------------------------------
(* The frame. *)

HasFields(f, tag, st, trace, tracing, lineno) ==
    /\ f \in FrameRecord /\ f.tag = tag /\ f.state = st /\ f.trace = trace
    /\ f.tracing = tracing /\ f.lineno = lineno

(* Assignments to fields of a frame: f_lineno,                             *)
LEMMA LinenoSet ==
    ASSUME NEW f \in FrameRecord, NEW n \in Int, NEW g, g = [f EXCEPT !.lineno = n]
    PROVE  HasFields(g, f.tag, f.state, f.trace, f.tracing, n)
BY DEF FrameRecord, HasFields

(* a variable,                                                             *)
LEMMA ValueSet ==
    ASSUME NEW f \in FrameRecord, NEW k \in DOMAIN Variables, NEW g,
           g = [f EXCEPT !.values[k] = ~@]
    PROVE  HasFields(g, f.tag, f.state, f.trace, f.tracing, f.lineno)
<1>1. [f.values EXCEPT ![k] = ~@] \in [DOMAIN Variables -> BOOLEAN]
  BY DEF FrameRecord
<1> QED  BY <1>1 DEF FrameRecord, HasFields

(* f_trace,                                                                *)
LEMMA TraceSet ==
    ASSUME NEW f \in FrameRecord, NEW n \in Int, NEW traced \in {"function", "method"}, NEW g,
           g = [f EXCEPT !.trace = traced, !.tracing = TRUE, !.lineno = n]
    PROVE  HasFields(g, f.tag, f.state, traced, TRUE, n)
BY DEF FrameRecord, HasFields

(* tracing,                                                                *)
LEMMA TracingStopped ==
    ASSUME NEW f \in FrameRecord, NEW g, g = [f EXCEPT !.tracing = FALSE]
    PROVE  HasFields(g, f.tag, f.state, f.trace, FALSE, f.lineno)
BY DEF FrameRecord, HasFields

(* the code of the function,                                               *)
LEMMA CodeSet ==
    ASSUME NEW f \in FrameRecord, NEW g, g = [f EXCEPT !.code = Other]
    PROVE  HasFields(g, f.tag, f.state, f.trace, f.tracing, f.lineno)
BY DEF FrameRecord, HasFields

(* the state of a generator.                                               *)
LEMMA StateSet ==
    ASSUME NEW f \in FrameRecord, NEW g,
           NEW s \in {"executing", "suspended", "suspended_yield_from", "cleared"},
           g = [f EXCEPT !.state = s]
    PROVE  HasFields(g, f.tag, s, f.trace, f.tracing, f.lineno)
BY DEF FrameRecord, HasFields

(* The format of a table that can be read.                                 *)
LEMMA FormatTyped ==
    ASSUME version \in 9..14, format \in {"none", FormatOf(version)}, format # "none"
                     PROVE  format \in Formats
BY DEF FormatOf, Formats

(* Offsets are even, and lines are integers.                               *)
LEMMA LineTyped ==
    ASSUME NEW p \in Programs, NEW i \in Instructions(p)
    PROVE  LineOf(p, i) \in Int /\ i \in Nat /\ i % 2 = 0
<1>1. PICK k \in 1..Len(p) : InRun(p, k, i) /\ IsEven(i)
  BY InstructionInRun
<1>2. LineOf(p, i) = LineAt(p, k) /\ EndsRise(p)
  BY <1>1, LineOfRun, Ends DEF IsEven
<1>3. k \in 0..Len(p)
  BY <1>2 DEF EndsRise
<1> QED  BY <1>1, <1>2, <1>3 DEF EndsRise, IsEven

(* The offset that is looked up is that of the instruction.                *)
LEMMA OffsetIsInstruction ==
    ASSUME NEW i \in Nat, i % 2 = 0, instruction = i,
           lasti = IF format = "linetable" THEN instruction \div 2 ELSE instruction
    PROVE  Offset = instruction
<1>1. (i \div 2) * 2 = i
  BY SMT
<1> QED  BY <1>1 DEF Offset

(* The invariant holds at first.                                           *)
LEMMA InitHolds == FramesInit => FramesInv
<1> SUFFICES ASSUME FramesInit PROVE FramesInv
  OBVIOUS
<1>1. program \in Programs /\ instruction \in Instructions(program) /\ pc = "begin" /\ it = 1
      /\ addr = 0 /\ line = FirstLine /\ FirstLine \in Int
  BY LineAssumption DEF FramesInit, LineInit
<1>2. version \in 9..14 /\ format \in {"none", FormatOf(version)}
      /\ kind \in {"frame", "generator"} \cup (IF version >= 11 THEN {"iframe"} ELSE {})
  BY DEF FramesInit
<1>3. /\ frame \in FrameRecord /\ frame.tag = (IF version = 14 THEN 1 ELSE 0)
      /\ kind # "generator" => frame.state = "executing"
      /\ frame.tracing = FALSE /\ (version = 10 => frame.lineno = 0)
  <2>1. [k \in DOMAIN Variables |-> FALSE] \in [DOMAIN Variables -> BOOLEAN]
    OBVIOUS
  <2> QED  BY <1>1, <2>1 DEF FramesInit, FrameRecord
<1>4. FramesTypeOK /\ LinenoOK
  BY <1>1, <1>2, <1>3 DEF FramesTypeOK, LinenoOK
<1>5. DecoderOK
  <2>1. CASE format = "none"
    <3>1. table = <<>>
      BY <2>1 DEF FramesInit, LineInit
    <3> QED  BY <1>1, <2>1, <3>1 DEF DecoderOK, NoTable
  <2>2. CASE format # "none"
    <3>1. PICK full \in BOOLEAN : table = Joined(Entries(format, program, full))
      BY <2>2 DEF FramesInit, LineInit
    <3>2. format \in Formats
      BY <1>2, <2>2, FormatTyped
    <3> DEFINE E == Entries(format, program, full)
    <3>3. IsTable(E, EntrySet)
      BY <1>1, <3>2, TablesAre DEF IsTableOf
    <3>4. AtAnEntry(E)
      BY <1>1, <3>3, AtTheFirst
    <3>5. /\ format = "lnotab" => program[1].delta = 0
          /\ lasti = IF format = "linetable" THEN instruction \div 2 ELSE instruction
      BY <2>2 DEF FramesInit, LineInit
    <3> HIDE DEF E
    <3>6. OwnTable
      BY <1>1, <2>2, <3>1, <3>4, <3>5, Zenon DEF OwnTable, E
    <3> QED  BY <1>1, <3>6 DEF DecoderOK
  <2> QED  BY <2>1, <2>2
<1>6. ShowsTheFrame /\ ShowsTheLine
  BY <1>1 DEF ShowsTheFrame, ShowsTheLine
<1> QED  BY <1>4, <1>5, <1>6 DEF FramesInv

(* While the debuggee runs only the frame and the instruction change.      *)
LEMMA DebuggeeTyped ==
    ASSUME FramesTypeOK, LinenoOK, Debuggee
    PROVE  /\ FramesTypeOK' /\ LinenoOK' /\ pc = "begin"
           /\ UNCHANGED <<program, format, table, pc, it, addr, line, version>>
           /\ \/ UNCHANGED <<instruction, lasti>>
              \/ lasti' = IF format = "linetable" THEN instruction' \div 2 ELSE instruction'
<1> USE DEF IsRunning, Executes, Still, StandsStill
<1>1. /\ version \in 9..14 /\ format \in {"none", FormatOf(version)}
      /\ kind \in {"frame", "generator"} \cup (IF version >= 11 THEN {"iframe"} ELSE {})
      /\ program \in Programs /\ instruction \in Instructions(program)
      /\ frame \in FrameRecord /\ frame.tag = (IF version = 14 THEN 1 ELSE 0)
      /\ kind # "generator" => frame.state = "executing"
  BY DEF FramesTypeOK
<1>2. pc = "begin" /\ UNCHANGED <<program, format, table, pc, it, addr, line, version, kind>>
  BY DEF Debuggee, Advance, SetVariable, SetTrace, StopTracing, CallTrace, ReplaceCode,
    SwitchGenerator
<1>3. frame.lineno \in Int
  BY <1>1 DEF FrameRecord
<1>4. \A i \in Instructions(program) : LineOf(program, i) \in Int
  BY <1>1, LineTyped
<1> DEFINE New(f, i) == /\ f \in FrameRecord /\ f.tag = frame.tag
                        /\ kind # "generator" => f.state = "executing"
                        /\ i \in Instructions(program)
                        /\ f.tracing => f.trace # "none"
                        /\ (version = 9 /\ f.tracing) \/ (version = 10 /\ f.lineno # 0)
                              => f.lineno = LineOf(program, i)
           Moved == \/ UNCHANGED <<instruction, lasti>>
                    \/ lasti' = IF format = "linetable" THEN instruction' \div 2 ELSE instruction'
<1> HIDE DEF IsRunning
<1>14. New(frame, instruction)
  BY <1>1 DEF LinenoOK
<1>5. ASSUME Advance PROVE New(frame', instruction') /\ Moved
  <2>1. PICK i \in Instructions(program) \ {instruction} :
           /\ instruction' = i /\ lasti' = IF format = "linetable" THEN i \div 2 ELSE i
           /\ frame' = IF version = 9 /\ frame.trace # "none" /\ frame.tracing
                       THEN [frame EXCEPT !.lineno = LineOf(program, i)] ELSE frame
    BY <1>5 DEF Advance
  <2>2. version = 10 => frame.lineno = 0
    BY <1>5 DEF Advance
  <2>3. New(frame', i)
    <3>1. CASE version = 9 /\ frame.trace # "none" /\ frame.tracing
      <4> DEFINE n == LineOf(program, i)
      <4>1. n \in Int /\ frame' = [frame EXCEPT !.lineno = n]
        BY <1>4, <2>1, <3>1
      <4>2. HasFields(frame', frame.tag, frame.state, frame.trace, frame.tracing, n)
        BY <1>1, <4>1, LinenoSet
      <4> QED  BY <1>14, <2>1, <3>1, <4>2 DEF HasFields
    <3>2. CASE ~(version = 9 /\ frame.trace # "none" /\ frame.tracing)
      BY <1>14, <2>1, <2>2, <3>2
    <3> QED  BY <3>1, <3>2
  <2> QED  BY <2>1, <2>3
<1>6. ASSUME SetVariable PROVE New(frame', instruction') /\ Moved
  <2>1. PICK k \in DOMAIN Variables : frame' = [frame EXCEPT !.values[k] = ~@]
          /\ UNCHANGED <<instruction, lasti>>
    BY <1>6 DEF SetVariable
  <2>2. New(frame', instruction)
    <3>1. HasFields(frame', frame.tag, frame.state, frame.trace, frame.tracing, frame.lineno)
      BY <1>1, <2>1, ValueSet
    <3> QED  BY <1>14, <3>1 DEF HasFields
  <2> QED  BY <2>1, <2>2
<1>7. ASSUME SetTrace PROVE New(frame', instruction') /\ Moved
  <2>1. PICK traced \in {"function", "method"} :
           /\ frame' = [frame EXCEPT !.trace = traced, !.tracing = TRUE,
                     !.lineno = IF version = 9 THEN LineOf(program, instruction) ELSE @]
           /\ UNCHANGED <<instruction, lasti>>
    BY <1>7 DEF SetTrace
  <2>2. New(frame', instruction)
    <3> DEFINE n == IF version = 9 THEN LineOf(program, instruction) ELSE frame.lineno
    <3>1. n \in Int /\ frame' = [frame EXCEPT !.trace = traced, !.tracing = TRUE, !.lineno = n]
      BY <1>1, <1>3, <1>4, <2>1
    <3>2. HasFields(frame', frame.tag, frame.state, traced, TRUE, n)
      BY <1>1, <3>1, TraceSet, Zenon
    <3> QED  BY <1>14, <3>2 DEF HasFields
  <2> QED  BY <2>1, <2>2
<1>8. ASSUME StopTracing PROVE New(frame', instruction') /\ Moved
  <2>1. frame' = [frame EXCEPT !.tracing = FALSE] /\ UNCHANGED <<instruction, lasti>>
    BY <1>8 DEF StopTracing
  <2>2. New(frame', instruction)
    <3>1. HasFields(frame', frame.tag, frame.state, frame.trace, FALSE, frame.lineno)
      BY <1>1, <2>1, TracingStopped
    <3> QED  BY <1>14, <3>1 DEF HasFields
  <2> QED  BY <2>1, <2>2
<1>9. ASSUME CallTrace PROVE New(frame', instruction') /\ Moved
  <2>1. /\ frame' = [frame EXCEPT !.lineno = IF @ = 0 THEN LineOf(program, instruction) ELSE 0]
        /\ version = 10 /\ UNCHANGED <<instruction, lasti>>
    BY <1>9 DEF CallTrace
  <2>2. New(frame', instruction)
    <3> DEFINE n == IF frame.lineno = 0 THEN LineOf(program, instruction) ELSE 0
    <3>1. n \in Int /\ frame' = [frame EXCEPT !.lineno = n]
      BY <1>1, <1>3, <1>4, <2>1
    <3>2. HasFields(frame', frame.tag, frame.state, frame.trace, frame.tracing, n)
      BY <1>1, <3>1, LinenoSet
    <3> QED  BY <1>14, <2>1, <3>2 DEF HasFields
  <2> QED  BY <2>1, <2>2
<1>10. ASSUME ReplaceCode PROVE New(frame', instruction') /\ Moved
  <2>1. frame' = [frame EXCEPT !.code = Other] /\ UNCHANGED <<instruction, lasti>>
    BY <1>10 DEF ReplaceCode
  <2>2. New(frame', instruction)
    <3>1. HasFields(frame', frame.tag, frame.state, frame.trace, frame.tracing, frame.lineno)
      BY <1>1, <2>1, CodeSet
    <3> QED  BY <1>14, <3>1 DEF HasFields
  <2> QED  BY <2>1, <2>2
<1>11. ASSUME SwitchGenerator PROVE New(frame', instruction') /\ Moved
  <2>1. PICK s \in {"executing", "suspended", "suspended_yield_from", "cleared"} :
           frame' = [frame EXCEPT !.state = s]
    BY <1>11 DEF SwitchGenerator
  <2>2. kind = "generator" /\ UNCHANGED <<instruction, lasti>>
    BY <1>11 DEF SwitchGenerator
  <2>3. New(frame', instruction)
    <3>1. HasFields(frame', frame.tag, s, frame.trace, frame.tracing, frame.lineno)
      BY <1>1, <2>1, StateSet
    <3> QED  BY <1>14, <2>2, <3>1 DEF HasFields
  <2> QED  BY <2>2, <2>3
<1>12. New(frame', instruction') /\ Moved
  BY <1>5, <1>6, <1>7, <1>8, <1>9, <1>10, <1>11 DEF Debuggee
<1> HIDE DEF Moved
<1>13. FramesTypeOK' /\ LinenoOK'
  BY <1>1, <1>2, <1>12 DEF FramesTypeOK, LinenoOK
<1> QED  BY <1>2, <1>12, <1>13 DEF Moved

(* Steps of the debuggee keep the invariant.                               *)
LEMMA DebuggeeKeeps == FramesInv /\ Debuggee => FramesInv'
<1> SUFFICES ASSUME FramesInv, Debuggee PROVE FramesInv'
  OBVIOUS
<1>1. FramesTypeOK /\ LinenoOK /\ DecoderOK
  BY DEF FramesInv
<1>2. /\ FramesTypeOK' /\ LinenoOK' /\ pc = "begin"
      /\ UNCHANGED <<program, format, table, pc, it, addr, line, version>>
      /\ \/ UNCHANGED <<instruction, lasti>>
         \/ lasti' = IF format = "linetable" THEN instruction' \div 2 ELSE instruction'
  BY <1>1, DebuggeeTyped
<1>3. it = 1 /\ addr = 0 /\ line = FirstLine
  BY <1>1, <1>2 DEF DecoderOK
<1>4. ASSUME NoTable PROVE DecoderOK'
  BY <1>2, <1>3, <1>4 DEF DecoderOK, NoTable
<1>5. ASSUME OwnTable PROVE DecoderOK'
  <2>1. PICK full \in BOOLEAN : table = Joined(Entries(format, program, full))
                                /\ AtAnEntry(Entries(format, program, full))
    BY <1>5 DEF OwnTable
  <2>2. lasti' = IF format' = "linetable" THEN instruction' \div 2 ELSE instruction'
    BY <1>2, <1>5 DEF OwnTable
  <2>3. OwnTable'
    BY <1>2, <1>5, <2>1, <2>2 DEF OwnTable, AtAnEntry
  <2> QED  BY <1>2, <1>3, <2>3 DEF DecoderOK
<1>6. DecoderOK'
  BY <1>1, <1>2, <1>4, <1>5 DEF DecoderOK, OtherTable
<1>7. ShowsTheLine' /\ ShowsTheFrame'
  BY <1>2 DEF ShowsTheLine, ShowsTheFrame
<1> QED  BY <1>2, <1>6, <1>7 DEF FramesInv

(* Which code object a frame that is decoded has.                          *)
LEMMA CodeOfFrame ==
    ASSUME FramesTypeOK, version >= 11 => kind # "frame"
    PROVE  Code = (IF version = 12 THEN frame.code ELSE Own)
<1>1. version \in 9..14 /\ frame.tag \in 0..1
  BY DEF FramesTypeOK
<1>2. Masked(Own + frame.tag) = Own /\ Masked(Func + frame.tag) = Func
  <2>1. CASE frame.tag = 0
    BY <2>1, SMT DEF Masked, Own, Func
  <2>2. CASE frame.tag = 1
    BY <2>2, SMT DEF Masked, Own, Func
  <2> QED  BY <1>1, <2>1, <2>2
<1>3. CASE version >= 13
  BY <1>1, <1>2, <1>3 DEF Code, HasField
<1>4. CASE version = 12
  BY <1>1, <1>2, <1>4 DEF Code, HasField, FunctionCode
<1>5. CASE version <= 11
  BY <1>1, <1>5 DEF Code, HasField
<1> QED  BY <1>1, <1>3, <1>4, <1>5

(* What has been read is said of the variables after the step.             *)
LEMMA ReadAgain ==
    ASSUME program' = program, format' = format, NEW E, NEW k, NEW j,
           ReadTo(E, program, k, j, it', addr', line')
    PROVE  HasRead(E, k, j)'
<1>1. BytesOf(program, k, j)' = BytesOf(program, k, j)
  BY DEF BytesOf
<1>2. DeltaOf(program, k, j)' = DeltaOf(program, k, j)
  BY DEF DeltaOf
<1>3. StartLine(program, k)' = StartLine(program, k)
  BY DEF StartLine
<1> QED  BY <1>1, <1>2, <1>3, Zenon DEF HasRead, ReadTo

(* A table without entries has no bytes.                                   *)
LEMMA EmptyTable == Joined(<<>>) = <<>>
BY FlattenNone DEF Joined

(* The bytes of the other table.                                           *)
LEMMA OtherBytes == Joined(OtherEntries) = Location(1, 0, FALSE)
<1> DEFINE e == Location(1, 0, FALSE)
<1>1. OtherEntries \in Seq(Seq(LocationSet)) /\ \A x \in LocationSet : x \in Seq(Nat)
  BY OtherTableIs DEF IsTable
<1>2. OtherEntries = <<<<e>>>>
  BY DEF OtherEntries
<1> HIDE DEF e
<1>3. e \in LocationSet
  <2>1. OtherEntries[1] \in Seq(LocationSet) /\ OtherEntries[1] = <<e>>
    BY <1>1, <1>2
  <2> QED  BY <2>1
<1>4. e \in Seq(Nat) /\ <<e>> \in Seq(Seq(Nat))
  BY <1>1, <1>3
<1>5. FlattenSeq(OtherEntries) = <<e>>
  BY <1>2, <1>4, FlattenOne
<1>6. Joined(OtherEntries) = e
  BY <1>4, <1>5, FlattenOne DEF Joined
<1> QED  BY <1>6 DEF e

(* The choice between f_lineno and the decoders keeps the invariant.       *)
LEMMA CurrentLineNumberKeeps == FramesInv /\ CurrentLineNumber => FramesInv'
<1> SUFFICES ASSUME FramesInv, CurrentLineNumber PROVE FramesInv'
  OBVIOUS
<1>1. FramesTypeOK /\ LinenoOK /\ DecoderOK /\ pc = "begin" /\ UNCHANGED frameVars
  BY DEF FramesInv, CurrentLineNumber
<1>2. it = 1 /\ addr = 0 /\ line = FirstLine /\ FirstLine \in Int
  BY <1>1, LineAssumption DEF DecoderOK
<1>3. UNCHANGED <<program, instruction>> /\ pc' \in {"loop", "done"}
  <2>1. CASE UsesLineno
    BY <2>1 DEF CurrentLineNumber
  <2>2. CASE ~UsesLineno /\ Code = Own
    BY <2>2, Zenon DEF CurrentLineNumber, Begin
  <2>3. CASE ~UsesLineno /\ Code # Own
    BY <2>3 DEF CurrentLineNumber
  <2> QED  BY <2>1, <2>2, <2>3
<1>4. version \in 9..14 /\ program \in Programs /\ instruction \in Instructions(program)
      /\ (format # "none" => format \in Formats)
  BY <1>1, FormatTyped DEF FramesTypeOK
<1>5. LinenoOK' /\ ShowsTheFrame'
  BY <1>1, <1>3 DEF LinenoOK, ShowsTheFrame, frameVars
<1>6. CASE UsesLineno
  <2>1. line' = frame.lineno /\ pc' = "done"
          /\ UNCHANGED <<program, instruction, it, table, format, lasti, addr>>
    BY <1>6 DEF CurrentLineNumber
  <2>2. FramesTypeOK'
    BY <1>1, <2>1 DEF FramesTypeOK, frameVars
  <2>3. ShowsTheLine'
    <3>1. ASSUME ~LinenoIsStale PROVE frame.lineno = LineOf(program, instruction)
      <4>1. version \in {9, 10}
        BY <1>4, <1>6 DEF UsesLineno
      <4> QED  BY <1>1, <1>6, <3>1, <4>1 DEF LinenoOK, LinenoIsStale
    <3> QED  BY <1>1, <2>1, <3>1 DEF ShowsTheLine, LinenoIsStale, UsesLineno, CodeReplaced,
          frameVars
  <2>4. DecoderOK'
    <3>1. CASE NoTable
      BY <2>1, <3>1 DEF DecoderOK, NoTable
    <3>2. CASE OwnTable
      <4>1. OwnTable'
        BY <2>1, <3>2 DEF OwnTable, AtAnEntry
      <4> QED  BY <2>1, <4>1 DEF DecoderOK
    <3> QED  BY <1>1, <3>1, <3>2 DEF DecoderOK, OtherTable
  <2> QED  BY <1>5, <2>2, <2>3, <2>4 DEF FramesInv
<1>7. CASE ~UsesLineno /\ Code = Own
  <2>1. Begin
    BY <1>7 DEF CurrentLineNumber
  <2>2. /\ UNCHANGED <<program, format, table, instruction, lasti, it, addr, line>>
        /\ pc' = IF table = <<>> THEN "done" ELSE "loop"
    BY <2>1 DEF Begin
  <2>3. FramesTypeOK'
    BY <1>1, <2>2 DEF FramesTypeOK, frameVars
  <2>4. CASE NoTable
    <3>1. DecoderOK'
      BY <2>2, <2>4 DEF DecoderOK, NoTable
    <3>2. ShowsTheLine'
      BY <1>1, <1>7, <2>2, <2>4 DEF ShowsTheLine, NoTable, UsesLineno, frameVars
    <3> QED  BY <1>5, <2>3, <3>1, <3>2 DEF FramesInv
  <2>5. CASE OwnTable
    <3>1. PICK full, E : /\ full \in BOOLEAN /\ E = Entries(format, program, full)
                         /\ table = Joined(E) /\ AtAnEntry(E)
      BY <2>5 DEF OwnTable
    <3>2. format \in Formats /\ IsTableOf(E, program)
            /\ (format = "lnotab" => program[1].delta = 0)
      BY <1>4, <2>5, <3>1, TablesAre DEF OwnTable
    <3>3. /\ Len(E) > 0 => /\ 1 \in 1..Len(E) /\ 0 \in 0..Len(E[1]) /\ Len(Joined(E)) > 0
                           /\ ReadTo(E, program, 1, 0, it, addr, line)
          /\ Len(E) = 0 => \A i \in Instructions(program) : line = LineOf(program, i)
      BY <1>2, <1>4, <3>2, FirstRun
    <3>4. E \in Seq(Seq(EntrySet))
      BY <3>2 DEF IsTableOf, IsTable
    <3>5. Len(E) \in Nat /\ DOMAIN E = 1..Len(E)
      BY <3>4
    <3>6. CASE table = <<>>
      <4>1. Len(E) = 0
        BY <3>1, <3>3, <3>5, <3>6
      <4>2. pc' = "done" /\ line = LineOf(program, instruction)
        BY <1>4, <2>2, <3>3, <3>6, <4>1
      <4>3. ShowsTheLine'
        BY <2>2, <4>2 DEF ShowsTheLine
      <4>4. OwnTable'
        BY <2>2, <2>5, <3>1, <4>2 DEF OwnTable, AtAnEntry
      <4> QED  BY <1>5, <2>3, <4>2, <4>3, <4>4 DEF FramesInv, DecoderOK
    <3>7. CASE table # <<>>
      <4>1. Len(E) > 0
        <5>1. CASE Len(E) = 0
          <6>1. E = <<>>
            BY <3>4, <5>1
          <6>2. Joined(E) = <<>>
            BY <6>1, EmptyTable
          <6> QED  BY <3>1, <3>7, <6>2
        <5> QED  BY <3>5, <5>1
      <4>2. pc' = "loop"
        BY <2>2, <3>7
      <4>3. Offset = instruction /\ addr <= Offset
        <5>1. instruction \in Nat /\ instruction % 2 = 0
          BY <1>4, LineTyped
        <5> QED  BY <1>2, <2>5, <5>1, OffsetIsInstruction DEF OwnTable
      <4>4. ReadTo(E, program, 1, 0, it', addr', line')
        BY <2>2, <3>3, <4>1
      <4>5. addr' <= Offset' /\ HasRead(E, 1, 0)'
        <5>1. Offset' = Offset
          BY <2>2 DEF Offset
        <5> QED  BY <2>2, <4>3, <4>4, <5>1, ReadAgain
      <4>6. OwnTable'
        BY <2>2, <2>5, <3>1, <3>3, <3>5, <4>1, <4>2, <4>5 DEF OwnTable, AtAnEntry
      <4>7. ShowsTheLine'
        BY <4>2 DEF ShowsTheLine
      <4> QED  BY <1>5, <2>3, <4>2, <4>6, <4>7 DEF FramesInv, DecoderOK
    <3> QED  BY <3>6, <3>7
  <2> QED  BY <1>1, <2>4, <2>5 DEF DecoderOK, OtherTable
<1>8. CASE ~UsesLineno /\ Code # Own
  <2>1. /\ pc' = "loop" /\ format' = "locations" /\ table' = Location(1, 0, FALSE)
        /\ UNCHANGED <<program, instruction, it, addr, line>> /\ (version >= 11 => kind # "frame")
    BY <1>8 DEF CurrentLineNumber
  <2>2. CodeReplaced /\ version = 12
    BY <1>1, <1>8, <2>1, CodeOfFrame DEF CodeReplaced
  <2>3. FramesTypeOK'
    BY <1>1, <2>1, <2>2 DEF FramesTypeOK, frameVars, FormatOf
  <2>4. Joined(OtherEntries) = Location(1, 0, FALSE) /\ AtAnEntry(OtherEntries)
    BY <1>2, OtherTableIs, AtTheFirst, OtherBytes
  <2>5. OtherTable'
    BY <1>1, <1>2, <2>1, <2>2, <2>4 DEF OtherTable, CodeReplaced, frameVars, AtAnEntry
  <2> QED  BY <1>5, <2>1, <2>3, <2>5 DEF FramesInv, DecoderOK, ShowsTheLine
<1> QED  BY <1>6, <1>7, <1>8

(* A round over the program's own table: the decoder is at an entry again  *)
(* and has not passed the instruction, or it ends with its line.           *)
LEMMA OwnDecode ==
    ASSUME format \in Formats, program \in Programs, NEW E, IsTableOf(E, program),
           table = Joined(E), AtAnEntry(E), instruction \in Instructions(program), Offset = instruction,
           pc = "loop", addr <= Offset,
           NEW k \in 1..Len(E), NEW j \in 0..Len(E[k]), HasRead(E, k, j), Decode
    PROVE  /\ AtAnEntry(E)'
           /\ pc' = "loop" => /\ addr' <= Offset'
                              /\ \E m \in 1..Len(E) : \E n \in 0..Len(E[m]) : HasRead(E, m, n)'
           /\ pc' = "done" => line' = LineOf(program, instruction)
<1>1. UNCHANGED <<program, format, table, instruction, lasti>>
  BY DEF Decode, OldPair, NewPair, LocationEntry, End
<1>2. ReadTo(E, program, k, j, it, addr, line)
  BY DEF HasRead, ReadTo
<1>3. \/ AtTheEnd(E, program, it, addr, line)
      \/ \E m \in 1..Len(E) : \E n \in 1..Len(E[m]) : ReadTo(E, program, m, n - 1, it, addr, line)
  BY <1>2, EndOrAhead
<1>4. CASE AtTheEnd(E, program, it, addr, line)
  <2>1. End
    BY <1>4 DEF AtTheEnd, Decode, OldPair, NewPair, LocationEntry, Looping, Stops
  <2>2. pc' = "done" /\ it' = it /\ line' = line
    BY <1>4, <2>1 DEF End, AtTheEnd
  <2>3. line = LineOf(program, instruction)
    BY <1>4, EndOfOwn
  <2> QED  BY <2>2, <2>3 DEF AtAnEntry
<1>5. CASE \E m \in 1..Len(E) : \E n \in 1..Len(E[m]) :
            ReadTo(E, program, m, n - 1, it, addr, line)
  <2>1. PICK m \in 1..Len(E) : \E n \in 1..Len(E[m]) :
          ReadTo(E, program, m, n - 1, it, addr, line)
    BY <1>5
  <2>2. PICK n \in 1..Len(E[m]) : ReadTo(E, program, m, n - 1, it, addr, line)
    BY <2>1
  <2> DEFINE e == E[m][n]
             b == BytesOf(program, m, n) - BytesOf(program, m, n - 1)
             d == DeltaOf(program, m, n) - DeltaOf(program, m, n - 1)
             t == Totals(Lengths(E))[m - 1] + n
  <2>3. IsAhead(E, program, m, n, it, addr, line)
    BY <2>2, EntryAhead
  <2>4. /\ it \in 1..Len(Joined(E)) /\ addr \in Nat /\ t \in 1..Len(All(E))
        /\ it + Len(e) - 1 \in 1..Len(Joined(E))
        /\ e \in EntrySet
        /\ it + Len(e) = Place(E, t) + 1
        /\ ReadTo(E, program, m, n, it + Len(e), addr + b, line + d)
        /\ EndOf(program, m - 1) <= addr /\ addr + b <= EndOf(program, m)
    BY <2>3, Zenon DEF IsAhead
  <2>5. /\ OldPair \/ NewPair \/ LocationEntry
        /\ instruction \in Nat
    <3>1. it # Len(table) + 1
      BY <2>4
    <3>2. format # "locations" => it # Len(table)
      <4>1. SUFFICES ASSUME format # "locations" PROVE it # Len(table)
        OBVIOUS
      <4>2. Len(e) = 2
        BY <2>4, <4>1 DEF EntrySet, PairSet
      <4> HIDE DEF e
      <4> QED  BY <2>4, <4>2
    <3> QED  BY <3>1, <3>2, LineTyped DEF Decode, End, Stops
  <2>6. Round(program, m, n, e)
    BY <2>2, <2>5, OwnRound
  <2> HIDE DEF e, b, d, t
  <2>7. /\ it' = it + Len(e) /\ addr' = addr + b
        /\ \/ ~(addr' > Offset) /\ pc' = "loop" /\ line' = line + d
           \/ addr' > Offset /\ pc' = "done" /\ line' = LineAt(program, m)
    BY <2>6 DEF Round, e, b, d
  <2>8. AtAnEntry(E)'
    <3>1. it' = Place(E, t) + 1
      BY <2>4, <2>7
    <3>2. t \in 0..Len(All(E))
      BY <2>4
    <3> QED  BY <3>1, <3>2 DEF AtAnEntry, All
  <2>9. EndsRise(program) /\ m \in 1..Len(program) /\ m - 1 \in 0..Len(program)
          /\ m \in 0..Len(program)
        /\ RunFacts(program, m, Len(E[m]), RunDelta(program, m))
    BY Ends, RunsTyped
  <2>10. /\ EndOf(program, m - 1) \in Nat /\ EndOf(program, m) \in Nat
         /\ Len(E[m]) \in Nat /\ n \in 0..Len(E[m])
    <3>1. IsEven(EndOf(program, m - 1)) /\ IsEven(EndOf(program, m))
      BY <2>9 DEF EndsRise
    <3>2. Len(E[m]) \in Nat \ {0}
      BY <2>9 DEF RunFacts
    <3>3. n \in 0..Len(E[m])
      BY <3>2
    <3> QED  BY <3>1, <3>2, <3>3 DEF IsEven
  <2>11. b \in Int
    <3>1. n - 1 \in 0..Len(E[m])
      BY <2>10
    <3>2. BytesOf(program, m, n) \in 0..program[m].length
            /\ BytesOf(program, m, n - 1) \in 0..program[m].length
      BY <2>9, <2>10, <3>1 DEF RunFacts
    <3> QED  BY <3>2 DEF b
  <2>12. CASE ~(addr' > Offset) /\ pc' = "loop" /\ line' = line + d
    <3>1. Offset' = Offset
      BY <1>1 DEF Offset
    <3>2. addr' <= Offset'
      BY <2>4, <2>5, <2>7, <2>11, <2>12, <3>1
    <3>3. HasRead(E, m, n)'
      BY <1>1, <2>4, <2>7, <2>12, ReadAgain
    <3> QED  BY <2>8, <2>10, <2>12, <3>2, <3>3
  <2>13. CASE addr' > Offset /\ pc' = "done" /\ line' = LineAt(program, m)
    <3>1. InRun(program, m, instruction)
      <4> DEFINE low == EndOf(program, m - 1)
                 high == EndOf(program, m)
      <4>1. low \in Nat /\ high \in Nat /\ low <= addr /\ addr + b <= high /\ addr \in Nat
        BY <2>4, <2>10
      <4>2. addr + b > instruction /\ addr <= instruction
        BY <2>7, <2>13
      <4> HIDE DEF low, high
      <4>3. low <= instruction /\ instruction < high
        BY <2>5, <2>11, <4>1, <4>2
      <4> QED  BY <2>9, <4>3 DEF InRun, low, high
    <3>2. LineOf(program, instruction) = LineAt(program, m)
      BY <2>5, <3>1, LineOfRun
    <3> QED  BY <2>8, <2>13, <3>2
  <2> QED  BY <2>7, <2>12, <2>13
<1> QED  BY <1>3, <1>4, <1>5

(* A round over the other table.                                           *)
LEMMA OtherDecode ==
    ASSUME OtherTable, pc = "loop", Decode
    PROVE  AtAnEntry(OtherEntries)' /\ line' \in Int
<1>1. IsTable(OtherEntries, LocationSet) /\ OtherEntries = <<<<Location(1, 0, FALSE)>>>>
  BY OtherTableIs DEF OtherEntries
<1> DEFINE e == Location(1, 0, FALSE)
           G == All(OtherEntries)
<1>2. format = "locations" /\ table = e /\ line \in Int /\ AtAnEntry(OtherEntries)
  BY OtherBytes DEF OtherTable
<1>3. CASE End
  <2>1. it' = it /\ line' = line
    BY <1>2, <1>3 DEF End, Stops
  <2> QED  BY <1>2, <2>1 DEF AtAnEntry
<1>4. CASE ~End
  <2>1. LocationEntry /\ it # Len(table) + 1
    BY <1>2, <1>4 DEF Decode, OldPair, NewPair, LocationEntry, Looping, Stops
  <2>2. 1 \in Units /\ 0 \in Jumps \cup {NoLine} /\ Jump(0) = 0
    <3>1. 0 \in Jumps
      BY DEF Jumps
    <3> QED  BY <3>1 DEF Units, Jump
  <2> HIDE DEF e
  <2>3. G = <<e>> /\ e \in Seq(Nat)
    <3>1. <<e>> \in Seq(LocationSet)
      <4>1. OtherEntries \in Seq(Seq(LocationSet)) /\ OtherEntries = <<<<e>>>>
        BY <1>1 DEF IsTable, e
      <4>2. OtherEntries[1] \in Seq(LocationSet) /\ OtherEntries[1] = <<e>>
        BY <4>1
      <4> QED  BY <4>2
    <3>2. e \in LocationSet
      BY <3>1
    <3> QED  BY <1>1, <3>1, <3>2, FlattenOne DEF All, IsTable, e
  <2>4. /\ Place(OtherEntries, 0) = 0 /\ Place(OtherEntries, 1) = Len(e)
        /\ Len(G) = 1 /\ Len(e) \in Nat
    <3>1. Len(G) = 1 /\ Len(e) \in Nat
      BY <2>3
    <3>2. Place(OtherEntries, 0) = 0 /\ Place(OtherEntries, Len(G)) = Len(Joined(OtherEntries))
      BY <1>1, TablePlaces
    <3>3. Joined(OtherEntries) = e
      BY OtherBytes DEF e
    <3> QED  BY <3>1, <3>2, <3>3
  <2>5. it = 1
    <3>1. PICK i \in 0..Len(G) : it = Place(OtherEntries, i) + 1
      BY <1>2 DEF AtAnEntry, All
    <3>2. i = 0 \/ i = 1
      BY <2>4, <3>1
    <3> QED  BY <1>2, <2>1, <2>4, <3>1, <3>2
  <2>6. IsAt(it, e)
    BY <1>2, <2>5 DEF IsAt
  <2>7. Reads(e, 1, 0)
    BY <1>2, <2>1, <2>2, <2>5, <2>6, LocationRead DEF e
  <2>8. it' = Place(OtherEntries, 1) + 1 /\ line' = line + 0
    BY <2>2, <2>4, <2>5, <2>7 DEF Reads
  <2>9. 1 \in 0..Len(G)
    BY <2>4
  <2> QED  BY <1>2, <2>8, <2>9 DEF AtAnEntry, All
<1> QED  BY <1>3, <1>4

(* Rounds of the decoders keep the invariant.                              *)
LEMMA DecodeKeeps == FramesInv /\ Decode => FramesInv'
<1> SUFFICES ASSUME FramesInv, Decode PROVE FramesInv'
  OBVIOUS
<1>1. FramesTypeOK /\ LinenoOK /\ DecoderOK /\ UNCHANGED frameVars
  BY DEF FramesInv, Decode
<1>2. /\ pc = "loop" /\ UNCHANGED <<program, format, table, instruction, lasti>>
      /\ pc' \in {"loop", "done"}
  <2>1. CASE OldPair
    BY <2>1, Zenon DEF OldPair, Looping
  <2>2. CASE NewPair
    BY <2>2, Zenon DEF NewPair, Looping
  <2>3. CASE LocationEntry
    BY <2>3, Zenon DEF LocationEntry, Looping
  <2>4. CASE End
    BY <2>4 DEF End
  <2> QED  BY <2>1, <2>2, <2>3, <2>4 DEF Decode
<1>3. FramesTypeOK' /\ LinenoOK' /\ ShowsTheFrame'
  BY <1>1, <1>2 DEF FramesTypeOK, LinenoOK, ShowsTheFrame, frameVars
<1>4. CASE OwnTable
  <2>1. PICK full, E : /\ full \in BOOLEAN /\ E = Entries(format, program, full)
                       /\ table = Joined(E) /\ AtAnEntry(E) /\ addr <= Offset
                       /\ \E k \in DOMAIN E : \E j \in 0..Len(E[k]) : HasRead(E, k, j)
    BY <1>2, <1>4 DEF OwnTable
  <2>2. program \in Programs /\ instruction \in Instructions(program) /\ format \in Formats
    BY <1>1, <1>4, FormatTyped DEF FramesTypeOK, OwnTable
  <2>3. IsTableOf(E, program)
    BY <2>1, <2>2, TablesAre
  <2>4. DOMAIN E = 1..Len(E)
    <3>1. E \in Seq(Seq(EntrySet))
      BY <2>3 DEF IsTableOf, IsTable
    <3> QED  BY <3>1
  <2>5. Offset = instruction
    <3>1. instruction \in Nat /\ instruction % 2 = 0
      BY <2>2, LineTyped
    <3> QED  BY <1>4, <3>1, OffsetIsInstruction DEF OwnTable
  <2>6. PICK k \in 1..Len(E) : \E j \in 0..Len(E[k]) : HasRead(E, k, j)
    BY <2>1, <2>4
  <2>7. PICK j \in 0..Len(E[k]) : HasRead(E, k, j)
    BY <2>6
  <2>8. /\ AtAnEntry(E)'
        /\ pc' = "loop" => /\ addr' <= Offset'
                           /\ \E m \in 1..Len(E) : \E n \in 0..Len(E[m]) : HasRead(E, m, n)'
        /\ pc' = "done" => line' = LineOf(program, instruction)
    BY <1>2, <2>1, <2>2, <2>3, <2>5, <2>7, OwnDecode
  <2>9. OwnTable'
    BY <1>2, <1>4, <2>1, <2>4, <2>8 DEF OwnTable
  <2>10. ShowsTheLine'
    BY <1>2, <2>8 DEF ShowsTheLine
  <2> QED  BY <1>2, <1>3, <2>9, <2>10 DEF FramesInv, DecoderOK
<1>5. CASE OtherTable
  <2>1. AtAnEntry(OtherEntries)' /\ line' \in Int
    BY <1>2, <1>5, OtherDecode
  <2>2. OtherTable'
    BY <1>1, <1>2, <1>5, <2>1 DEF OtherTable, CodeReplaced, frameVars
  <2> QED  BY <1>2, <1>3, <2>2 DEF FramesInv, DecoderOK, ShowsTheLine, OtherTable
<1> QED  BY <1>1, <1>2, <1>4, <1>5 DEF DecoderOK, NoTable

-----------------------------------------------------------------------------
(* The variables of a frame. *)

(* pos says where the elements that are kept are. *)
IsKept(t, s, S, pos) ==
    /\ Len(t) \in Nat /\ DOMAIN t = 1..Len(t)
    /\ \A i \in DOMAIN s : s[i] \in S => pos[i] \in DOMAIN t /\ t[pos[i]] = s[i]
    /\ \A j \in DOMAIN t : \E i \in DOMAIN s : s[i] \in S /\ pos[i] = j

(* Kept has the elements that are in the set, each at one place for each   *)
(* of its places in the sequence.                                          *)
LEMMA KeptAre ==
    ASSUME NEW V, NEW s \in Seq(V), NEW S
    PROVE  Kept(s, S) \in Seq(V) /\ \E pos : IsKept(Kept(s, S), s, S, pos)
<1> DEFINE n == Len(s)
           seqs == [j \in DOMAIN s |-> IF s[j] \in S THEN <<s[j]>> ELSE <<>>]
           t == Kept(s, S)
<1>1. n \in Nat /\ DOMAIN s = 1..n /\ \A j \in 1..n : s[j] \in V
  OBVIOUS
<1>2. seqs \in Seq(Seq(V)) /\ Len(seqs) = n
  <2>1. seqs = [j \in 1..n |-> IF s[j] \in S THEN <<s[j]>> ELSE <<>>]
    BY <1>1
  <2>2. \A j \in 1..n : (IF s[j] \in S THEN <<s[j]>> ELSE <<>>) \in Seq(V)
    BY <1>1
  <2> HIDE DEF seqs, n
  <2> QED  BY <1>1, <2>1, <2>2
<1>3. \A j \in 1..n : IF s[j] \in S THEN Len(seqs[j]) = 1 /\ seqs[j][1] = s[j]
                                    ELSE Len(seqs[j]) = 0
  BY <1>1
<1>4. t = FlattenSeq(seqs)
  BY DEF Kept
<1> HIDE DEF seqs, t, n
<1>5. t \in Seq(V) /\ \E off : IsLayout(t, seqs, n, off)
  BY <1>1, <1>2, <1>4, FlattenLayout
<1>6. PICK off : IsLayout(t, seqs, n, off)
  BY <1>5
<1>7. /\ off \in [0..n -> Nat] /\ off[0] = 0 /\ off[n] = Len(t)
      /\ \A i \in 1..n : /\ i - 1 \in 0..n /\ off[i - 1] \in Nat
                         /\ s[i] \in S => /\ off[i] = off[i - 1] + 1
                                          /\ off[i - 1] + 1 \in 1..Len(t)
                                               /\ t[off[i - 1] + 1] = s[i]
                         /\ s[i] \notin S => off[i] = off[i - 1]
  <2>1. /\ off \in [0..n -> Nat] /\ off[0] = 0 /\ off[n] = Len(t)
        /\ \A i \in 1..n : /\ off[i] = off[i - 1] + Len(seqs[i])
                           /\ \A j \in 1..Len(seqs[i]) :
                                 off[i - 1] + j \in 1..Len(t) /\ t[off[i - 1] + j] = seqs[i][j]
    BY <1>6 DEF IsLayout
  <2>2. ASSUME NEW i \in 1..n
        PROVE  /\ i - 1 \in 0..n /\ off[i - 1] \in Nat
               /\ s[i] \in S => /\ off[i] = off[i - 1] + 1
                                /\ off[i - 1] + 1 \in 1..Len(t) /\ t[off[i - 1] + 1] = s[i]
               /\ s[i] \notin S => off[i] = off[i - 1]
    <3>1. i - 1 \in 0..n
      BY <1>1
    <3>2. off[i - 1] \in Nat
      BY <2>1, <3>1
    <3>3. CASE s[i] \in S
      <4>1. 1 \in 1..Len(seqs[i]) /\ Len(seqs[i]) = 1 /\ seqs[i][1] = s[i]
        BY <1>3, <3>3
      <4> QED  BY <2>1, <3>1, <3>2, <3>3, <4>1
    <3>4. CASE s[i] \notin S
      <4>1. Len(seqs[i]) = 0
        BY <1>3, <3>4
      <4> QED  BY <2>1, <3>1, <3>2, <3>4, <4>1
    <3> QED  BY <3>3, <3>4
  <2> QED  BY <2>1, <2>2
<1> DEFINE From(j) == \E i \in 1..n : s[i] \in S /\ off[i - 1] + 1 = j
           T == {k \in 0..n : \A j \in 1..off[k] : From(j)}
<1>8. 0 \in T
  BY <1>1, <1>7
<1>9. ASSUME NEW k \in 0..(n - 1), k \in T PROVE k + 1 \in T
  <2>1. k + 1 \in 1..n /\ (k + 1) - 1 = k /\ k + 1 \in 0..n /\ off[k] \in Nat
    BY <1>1, <1>7
  <2>2. ASSUME NEW j \in 1..off[k + 1] PROVE From(j)
    <3>1. CASE j \in 1..off[k]
      BY <1>9, <3>1
    <3>2. CASE j \notin 1..off[k]
      <4>1. s[k + 1] \in S /\ off[k] + 1 = j
        BY <1>7, <2>1, <3>2
      <4> QED  BY <2>1, <4>1
    <3> QED  BY <3>1, <3>2
  <2> HIDE DEF From
  <2> QED  BY <2>1, <2>2
<1>10. \A j \in 1..Len(t) : From(j)
  <2>1. n \in T
    <3> HIDE DEF T
    <3>1. 0..n \subseteq T
      BY <1>1, <1>8, <1>9, BoundedInduction
    <3>2. n \in 0..n
      BY <1>1
    <3> QED  BY <3>1, <3>2
  <2> QED  BY <1>7, <2>1
<1> DEFINE pos == [i \in 1..n |-> off[i - 1] + 1]
<1>11. Len(t) \in Nat /\ DOMAIN t = 1..Len(t)
  BY <1>5
<1>12. IsKept(t, s, S, pos)
  <2>1. \A i \in 1..n : pos[i] = off[i - 1] + 1
    OBVIOUS
  <2>2. DOMAIN s = 1..n
    BY <1>1
  <2> HIDE DEF pos
  <2>3. \A i \in 1..n : s[i] \in S => pos[i] \in 1..Len(t) /\ t[pos[i]] = s[i]
    BY <1>7, <2>1, Zenon
  <2>4. \A j \in 1..Len(t) : \E i \in 1..n : s[i] \in S /\ pos[i] = j
    BY <1>10, <2>1, Zenon
  <2> QED  BY <1>11, <2>2, <2>3, <2>4, Zenon DEF IsKept
<1> QED  BY <1>5, <1>12 DEF t

(* The word by which a variable is shown. *)
WordOf(k) == IF IsCell(k) THEN CellOf(k) ELSE Contents(k)

(* Every word that is not null is that of its variable, and each variable  *)
(* has one.                                                                *)
IsComplete(l) ==
    /\ \A q \in DOMAIN l : /\ l[q].name \in DOMAIN Variables
                           /\ l[q].word # Null => l[q].word = WordOf(l[q].name)
    /\ \A k \in DOMAIN Variables : \E q \in DOMAIN l : l[q].name = k /\ l[q].word = WordOf(k)
    /\ \A q, r \in DOMAIN l : l[q].word # Null /\ l[r].word # Null
         /\ l[q].name = l[r].name => q = r

(* A code object has variables.                                            *)
LEMMA VariablesTyped == Len(Variables) \in Nat \ {0} /\ DOMAIN Variables = 1..Len(Variables)
BY FramesAssumption

(* The addresses of cells and values are even, differ and are not null.    *)
LEMMA Addresses ==
    /\ \A k \in DOMAIN Variables : /\ CellAt(CellOf(k)) = {k} /\ CellAt(ValueOf(k)) = {}
                                   /\ CellOf(k) # Null /\ ValueOf(k) # Null
                                   /\ CellOf(k) \in Nat /\ ValueOf(k) \in Nat
                                   /\ CellOf(k) % 2 = 0 /\ ValueOf(k) % 2 = 0
    /\ CellAt(Freed) = {} /\ Freed \in Nat /\ Freed % 2 = 0
<1> DEFINE n == Len(Variables)
<1>1. n \in Nat \ {0} /\ DOMAIN Variables = 1..n
  BY VariablesTyped
<1> HIDE DEF n
<1>2. \A k : CellOf(k) = 2 * (n + k)
  BY DEF CellOf, n
<1>3. ASSUME NEW k \in 1..n
      PROVE  /\ CellAt(CellOf(k)) = {k} /\ CellAt(ValueOf(k)) = {}
             /\ CellOf(k) # Null /\ ValueOf(k) # Null
             /\ CellOf(k) \in Nat /\ ValueOf(k) \in Nat
             /\ CellOf(k) % 2 = 0 /\ ValueOf(k) % 2 = 0
  <2>1. \A m \in 1..n : CellOf(m) = CellOf(k) => m = k
    BY <1>1, <1>2
  <2>2. \A m \in 1..n : CellOf(m) # ValueOf(k)
    BY <1>1, <1>2 DEF ValueOf
  <2>3. CellAt(CellOf(k)) = {k} /\ CellAt(ValueOf(k)) = {}
    BY <1>1, <2>1, <2>2 DEF CellAt
  <2>4. CellOf(k) # Null /\ ValueOf(k) # Null /\ CellOf(k) \in Nat /\ ValueOf(k) \in Nat
    BY <1>1, <1>2 DEF ValueOf, Null
  <2>5. \A m \in Nat : (2 * m) % 2 = 0
    BY SMT
  <2>6. n + k \in Nat /\ k \in Nat
    BY <1>1
  <2> QED  BY <1>2, <2>3, <2>4, <2>5, <2>6 DEF ValueOf
<1>4. CellAt(Freed) = {} /\ Freed \in Nat /\ Freed % 2 = 0
  <2>1. Freed = 2 * (2 * n + 1)
    BY DEF Freed, n
  <2>2. \A m \in 1..n : CellOf(m) # Freed
    BY <1>1, <1>2, <2>1
  <2>3. \A m \in Nat : (2 * m) % 2 = 0
    BY SMT
  <2>4. 2 * n + 1 \in Nat
    BY <1>1
  <2> QED  BY <1>1, <2>1, <2>2, <2>3, <2>4 DEF CellAt
<1> QED  BY <1>1, <1>3, <1>4

(* Masking gives an even address back, tagged or not.                      *)
LEMMA MaskedEven ==
    ASSUME NEW a \in Nat, a % 2 = 0, NEW tag \in 0..1
    PROVE  Masked(a + tag) = a
<1>1. CASE tag = 0
  BY <1>1, SMT DEF Masked
<1>2. CASE tag = 1
  BY <1>2, SMT DEF Masked
<1> QED  BY <1>1, <1>2

(* The word of a slot since 3.11, unmasked.                                *)
LEMMA NewSlotWord ==
    ASSUME FramesTypeOK, NEW k \in DOMAIN Variables
    PROVE  Masked(NewSlots[k]) = IF frame.state = "cleared" THEN Freed ELSE WordOf(k)
<1>1. frame.tag \in 0..1 /\ (version # 14 => frame.tag = 0)
  BY DEF FramesTypeOK
<1>2. /\ CellOf(k) \in Nat /\ CellOf(k) % 2 = 0 /\ ValueOf(k) \in Nat /\ ValueOf(k) % 2 = 0
      /\ ValueOf(k) # Null /\ Freed \in Nat /\ Freed % 2 = 0
  BY Addresses
<1>3. Masked(CellOf(k) + frame.tag) = CellOf(k) /\ Masked(ValueOf(k) + frame.tag) = ValueOf(k)
      /\ Masked(Freed) = Freed
  <2>1. Masked(Freed) = Freed
    BY <1>2, SMT DEF Masked
  <2> QED  BY <1>1, <1>2, <2>1, MaskedEven
<1>4. Masked(Null) = Null /\ Masked(1) = Null /\ Masked(Null + 0) = Null
  BY SMT DEF Masked, Null
<1>5. CASE frame.state = "cleared"
  <2>1. NewSlots[k] = Freed
    BY <1>5 DEF NewSlots
  <2> QED  BY <1>3, <1>5, <2>1
<1>6. CASE frame.state # "cleared" /\ IsCell(k)
  <2>1. NewSlots[k] = CellOf(k) + frame.tag
    BY <1>6 DEF NewSlots
  <2> QED  BY <1>3, <1>6, <2>1 DEF WordOf
<1>7. CASE frame.state # "cleared" /\ ~IsCell(k)
  <2>1. NewSlots[k] = IF Contents(k) = Null /\ version = 14 THEN 1
                      ELSE Contents(k) + (IF Contents(k) = Null THEN 0 ELSE frame.tag)
    BY <1>7 DEF NewSlots
  <2>2. CASE frame.values[k]
    <3>1. Contents(k) = ValueOf(k)
      BY <2>2 DEF Contents
    <3> QED  BY <1>2, <1>3, <1>7, <2>1, <3>1 DEF WordOf
  <2>3. CASE ~frame.values[k]
    <3>1. Contents(k) = Null
      BY <2>3 DEF Contents
    <3> QED  BY <1>4, <1>7, <2>1, <3>1 DEF WordOf
  <2> QED  BY <2>2, <2>3
<1> QED  BY <1>5, <1>6, <1>7

(* What is read of the slots since 3.11.                                   *)
LEMMA NewLocals ==
    ASSUME FramesTypeOK, version >= 11
    PROVE  /\ \A q \in DOMAIN localsplus :
                 /\ q \in DOMAIN Variables
                 /\ localsplus[q].word = IF frame.state = "cleared" THEN Freed ELSE WordOf(q)
           /\ Code = Own => /\ DOMAIN localsplus = DOMAIN Variables
                            /\ \A q \in DOMAIN Variables : localsplus[q].name = q
<1> DEFINE names == localsplusNames
           m == Len(names)
<1>1. Len(Variables) \in Nat \ {0} /\ DOMAIN Variables = 1..Len(Variables) /\ version \in 9..14
  BY VariablesTyped DEF FramesTypeOK
<1>2. m \in 1..Len(Variables) /\ DOMAIN names = 1..m
  <2>1. CASE Code = Own
    <3>1. names = [k \in 1..Len(Variables) |-> k]
      <4>1. ~(version <= 10) /\ ~(Code # Own)
        BY <1>1, <2>1
      <4> QED  BY <1>1, <4>1, Zenon DEF localsplusNames, names
    <3> QED  BY <1>1, <3>1
  <2>2. CASE Code # Own
    <3>1. names = <<0>>
      BY <2>2 DEF localsplusNames
    <3> HIDE DEF names
    <3> QED  BY <1>1, <3>1
  <2> QED  BY <2>1, <2>2
<1> HIDE DEF names, m
<1>3. NewSlots = [k \in 1..Len(Variables) |-> NewSlots[k]]
  BY <1>1 DEF NewSlots
<1>4. \A j \in 1..m : Words[j] = Masked(NewSlots[j])
  <2> DEFINE words == SubSeq(NewSlots, 1, m)
  <2>1. words = [j \in 1..m |-> NewSlots[j]]
    BY <1>1, <1>2
  <2>2. Words = [j \in DOMAIN words |-> Masked(words[j])]
    BY <1>1 DEF Words, readOffsetArray, m, names
  <2> HIDE DEF words
  <2> QED  BY <2>1, <2>2
<1>5. CASE Code = Null
  <2>1. localsplus = <<>>
    BY <1>5 DEF localsplus
  <2>2. Code # Own
    BY <1>5 DEF Null, Own
  <2> QED  BY <2>1, <2>2
<1>6. CASE Code # Null
  <2>1. localsplus = [j \in 1..m |-> [name |-> names[j], word |-> Words[j]]]
    BY <1>1, <1>2, <1>6 DEF localsplus, NoFrame, names
  <2>2. \A q \in 1..m : q \in DOMAIN Variables
    BY <1>1, <1>2
  <2>3. ASSUME NEW q \in 1..m
        PROVE  localsplus[q].word = IF frame.state = "cleared" THEN Freed ELSE WordOf(q)
    BY <1>4, <2>1, <2>2, NewSlotWord
  <2>4. Code = Own => m = Len(Variables) /\ \A q \in 1..m : localsplus[q].name = q
    <3>1. ASSUME Code = Own PROVE names = [k \in 1..Len(Variables) |-> k]
      <4>1. ~(version <= 10) /\ ~(Code # Own)
        BY <1>1, <3>1
      <4> QED  BY <1>1, <4>1, Zenon DEF localsplusNames, names
    <3>2. ASSUME Code = Own PROVE m = Len(Variables)
      BY <1>1, <3>1, <3>2 DEF m
    <3> QED  BY <2>1, <3>1, <3>2
  <2> QED  BY <1>1, <2>1, <2>2, <2>3, <2>4
<1> QED  BY <1>5, <1>6

(* They are complete, unless the frame was cleared.                        *)
LEMMA NewComplete ==
    ASSUME FramesTypeOK, version >= 11, Code = Own, frame.state # "cleared"
    PROVE  IsComplete(localsplus)
<1>1. /\ DOMAIN localsplus = DOMAIN Variables
      /\ \A q \in DOMAIN Variables : localsplus[q].name = q /\ localsplus[q].word = WordOf(q)
  BY NewLocals
<1> QED  BY <1>1 DEF IsComplete

(* The variables of some parts, each once.                                 *)
IsListOf(t, parts) ==
    /\ t \in Seq(DOMAIN Variables)
    /\ \A j \in DOMAIN t : Variables[t[j]].part \in parts
    /\ \A k \in DOMAIN Variables : Variables[k].part \in parts => \E j \in DOMAIN t : t[j] = k
    /\ \A i, j \in DOMAIN t : t[i] = t[j] => i = j

(* InParts has the variables of some parts, each once.                     *)
LEMMA PartsAre == ASSUME NEW parts PROVE IsListOf(InParts(parts), parts)
<1> DEFINE D == DOMAIN Variables
           s == [k \in D |-> k]
           S == {k \in D : Variables[k].part \in parts}
           t == Kept(s, S)
<1>1. s \in Seq(D) /\ DOMAIN s = D /\ \A k \in D : s[k] = k
  BY VariablesTyped
<1>2. t = InParts(parts)
  BY DEF InParts
<1>3. \A k \in D : k \in S <=> Variables[k].part \in parts
  OBVIOUS
<1> HIDE DEF s, S, t, D
<1>4. t \in Seq(D) /\ \E pos : IsKept(t, s, S, pos)
  BY <1>1, KeptAre DEF t
<1>5. PICK pos : IsKept(t, s, S, pos)
  BY <1>4
<1>6. /\ \A k \in D : k \in S => pos[k] \in DOMAIN t /\ t[pos[k]] = k
      /\ \A j \in DOMAIN t : \E k \in D : k \in S /\ pos[k] = j
  BY <1>1, <1>5, ZenonT(30) DEF IsKept
<1>7. \A j \in DOMAIN t : t[j] \in S /\ pos[t[j]] = j
  BY <1>6, Zenon
<1>8. \A j \in DOMAIN t : t[j] \in D
  BY <1>6, Zenon
<1>9. \A j \in DOMAIN t : Variables[t[j]].part \in parts
  BY <1>3, <1>7, <1>8, Zenon
<1>10. \A k \in D : Variables[k].part \in parts => \E j \in DOMAIN t : t[j] = k
  BY <1>3, <1>6, Zenon
<1>11. \A i, j \in DOMAIN t : t[i] = t[j] => i = j
  BY <1>7, Zenon
<1> QED  BY <1>2, <1>4, <1>9, <1>10, <1>11, Zenon DEF IsListOf, D

(* The part a variable is.                                                 *)
LEMMA PartOf ==
    ASSUME NEW k \in DOMAIN Variables
    PROVE  /\ Variables[k].part \in Parts
           /\ IsCell(k) <=> Variables[k].part # "local"
<1> DEFINE R == [name : STRING, part : Parts]
<1>1. Variables \in Seq(R)
  BY FramesAssumption
<1> HIDE DEF R
<1>2. Variables[k] \in R
  BY <1>1
<1>3. Variables[k].part \in Parts
  BY <1>2 DEF R
<1> QED  BY <1>3 DEF IsCell

(* Three sequences, one behind the other.                                  *)
LEMMA Joined3 ==
    ASSUME NEW V, NEW r \in Seq(V), NEW s \in Seq(V), NEW t \in Seq(V)
    PROVE  /\ r \o s \o t \in Seq(V) /\ Len(r \o s \o t) = Len(r) + Len(s) + Len(t)
           /\ \A q \in 1..(Len(r) + Len(s) + Len(t)) :
                 /\ q <= Len(r) => (r \o s \o t)[q] = r[q]
                 /\ Len(r) < q /\ q <= Len(r) + Len(s) => (r \o s \o t)[q] = s[q - Len(r)]
                 /\ Len(r) + Len(s) < q => (r \o s \o t)[q] = t[q - Len(r) - Len(s)]
<1>1. r \o s \in Seq(V) /\ Len(r \o s) = Len(r) + Len(s)
      /\ \A q \in 1..(Len(r) + Len(s)) : (r \o s)[q] = IF q <= Len(r) THEN r[q] ELSE s[q - Len(r)]
  OBVIOUS
<1> DEFINE u == r \o s
<1> HIDE DEF u
<1>2. u \o t \in Seq(V) /\ Len(u \o t) = Len(u) + Len(t)
      /\ \A q \in 1..(Len(u) + Len(t)) : (u \o t)[q] = IF q <= Len(u) THEN u[q] ELSE t[q - Len(u)]
  BY <1>1 DEF u
<1> QED  BY <1>1, <1>2 DEF u

(* The slots of a frame before 3.11: locals, cells, and free variables.    *)
OldPart(l, at, t, Word(_)) ==
    \A x \in DOMAIN t : /\ at + x \in DOMAIN l
                        /\ l[at + x].name = t[x] /\ l[at + x].word = Word(t[x])
LocalWord(k) == IF IsCell(k) THEN Null ELSE Contents(k)

(* What is read of the slots before 3.11.                                  *)
LEMMA OldLocals ==
    ASSUME FramesTypeOK, version <= 10, ~NoFrame
    PROVE  LET a == Len(VarNames)
               b == Len(CellVars)
           IN  /\ OldPart(localsplus, 0, VarNames, LocalWord)
               /\ OldPart(localsplus, a, CellVars, CellOf)
               /\ OldPart(localsplus, a + b, FreeVars, CellOf)
               /\ \A q \in DOMAIN localsplus : \/ q \in DOMAIN VarNames
                                               \/ \E x \in DOMAIN CellVars : q = a + x
                                               \/ \E x \in DOMAIN FreeVars : q = a + b + x
<1> DEFINE V == VarNames
           C == CellVars
           F == FreeVars
           a == Len(V)
           b == Len(C)
           c == Len(F)
           D == DOMAIN Variables
           A == [j \in DOMAIN V |-> LocalWord(V[j])]
           B == [j \in DOMAIN C |-> CellOf(C[j])]
           G == [j \in DOMAIN F |-> CellOf(F[j])]
           names == V \o C \o F
           slots == A \o B \o G
           n == Len(localsplusNames)
<1>1. V \in Seq(D) /\ C \in Seq(D) /\ F \in Seq(D)
  BY PartsAre DEF VarNames, CellVars, FreeVars, IsListOf
<1>2. \A k \in D : LocalWord(k) \in Nat /\ CellOf(k) \in Nat
  BY Addresses DEF LocalWord, Contents, Null
<1>3. slots = OldSlots
  BY Zenon DEF OldSlots, LocalWord
<1> HIDE DEF V, C, F, D
<1>4. a \in Nat /\ b \in Nat /\ c \in Nat /\ DOMAIN V = 1..a /\ DOMAIN C = 1..b /\ DOMAIN F = 1..c
      /\ (\A x \in 1..a : V[x] \in D) /\ (\A x \in 1..b : C[x] \in D)
           /\ (\A x \in 1..c : F[x] \in D)
  BY <1>1
<1>5. /\ A \in Seq(Nat) /\ Len(A) = a /\ \A x \in 1..a : A[x] = LocalWord(V[x])
      /\ B \in Seq(Nat) /\ Len(B) = b /\ \A x \in 1..b : B[x] = CellOf(C[x])
      /\ G \in Seq(Nat) /\ Len(G) = c /\ \A x \in 1..c : G[x] = CellOf(F[x])
  <2>1. A = [j \in 1..a |-> LocalWord(V[j])] /\ B = [j \in 1..b |-> CellOf(C[j])]
        /\ G = [j \in 1..c |-> CellOf(F[j])]
    BY <1>4
  <2> HIDE DEF A, B, G, a, b, c
  <2>2. A \in Seq(Nat) /\ Len(A) = a /\ \A x \in 1..a : A[x] = LocalWord(V[x])
    BY <1>2, <1>4, <2>1
  <2>3. B \in Seq(Nat) /\ Len(B) = b /\ \A x \in 1..b : B[x] = CellOf(C[x])
    BY <1>2, <1>4, <2>1
  <2>4. G \in Seq(Nat) /\ Len(G) = c /\ \A x \in 1..c : G[x] = CellOf(F[x])
    BY <1>2, <1>4, <2>1
  <2> QED  BY <2>2, <2>3, <2>4
<1>6. Code = Own /\ Code # Null /\ ~NoFrame
  BY DEF Code, HasField, FramesTypeOK, Own, Null
<1>7. localsplusNames = names
  BY <1>6, Zenon DEF localsplusNames, V, C, F
<1>8. Words = SubSeq(slots, 1, n)
  BY <1>3, <1>6, Zenon DEF Words, readOffsetArray
<1> HIDE DEF A, B, G, a, b, c
<1>9. /\ names \in Seq(D) /\ Len(names) = a + b + c
      /\ \A q \in 1..(a + b + c) : /\ q <= a => names[q] = V[q]
                                   /\ a < q /\ q <= a + b => names[q] = C[q - a]
                                   /\ a + b < q => names[q] = F[q - a - b]
  BY <1>1, Joined3 DEF a, b, c
<1>10. /\ slots \in Seq(Nat) /\ Len(slots) = a + b + c
       /\ \A q \in 1..(a + b + c) : /\ q <= a => slots[q] = A[q]
                                    /\ a < q /\ q <= a + b => slots[q] = B[q - a]
                                    /\ a + b < q => slots[q] = G[q - a - b]
  <2>1. A \in Seq(Nat) /\ B \in Seq(Nat) /\ G \in Seq(Nat)
    BY <1>5
  <2>2. /\ slots \in Seq(Nat) /\ Len(slots) = Len(A) + Len(B) + Len(G)
        /\ \A q \in 1..(Len(A) + Len(B) + Len(G)) :
              /\ q <= Len(A) => slots[q] = A[q]
              /\ Len(A) < q /\ q <= Len(A) + Len(B) => slots[q] = B[q - Len(A)]
              /\ Len(A) + Len(B) < q => slots[q] = G[q - Len(A) - Len(B)]
    BY <2>1, Joined3
  <2> QED  BY <1>5, <2>2, Zenon
<1> DEFINE m == a + b + c
<1> HIDE DEF names, slots
<1>11. m \in Nat /\ n = m /\ DOMAIN names = 1..m
  BY <1>4, <1>7, <1>9
<1>12. SubSeq(slots, 1, m) = slots
  <2>1. DOMAIN slots = 1..m /\ slots = [q \in 1..m |-> slots[q]]
    BY <1>10, <1>11
  <2> HIDE DEF m
  <2>2. SubSeq(slots, 1, m) = [q \in 1..m |-> slots[q]]
    BY <1>10, <1>11
  <2> QED  BY <2>1, <2>2
<1>13. localsplus = [q \in 1..m |-> [name |-> names[q], word |-> slots[q]]]
  <2> HIDE DEF m, n
  <2>1. localsplus = [q \in DOMAIN names |-> [name |-> names[q], word |-> Words[q]]]
    BY <1>6, <1>7, Zenon DEF localsplus
  <2> QED  BY <1>8, <1>11, <1>12, <2>1
<1>14. DOMAIN localsplus = 1..m
       /\ \A q \in 1..m : localsplus[q].name = names[q] /\ localsplus[q].word = slots[q]
  <2> HIDE DEF m
  <2> QED  BY <1>13
<1>15. OldPart(localsplus, 0, V, LocalWord)
  <2>1. ASSUME NEW x \in 1..a
        PROVE  0 + x = x /\ x \in 1..m /\ names[x] = V[x] /\ slots[x] = LocalWord(V[x])
    BY <1>4, <1>5, <1>9, <1>10, <2>1
  <2> HIDE DEF m
  <2> QED  BY <1>4, <1>14, <2>1 DEF OldPart
<1>16. OldPart(localsplus, a, C, CellOf)
  <2>1. ASSUME NEW x \in 1..b
        PROVE  a + x \in 1..m /\ names[a + x] = C[x] /\ slots[a + x] = CellOf(C[x])
    <3>1. a + x \in 1..m /\ a < a + x /\ a + x <= a + b /\ (a + x) - a = x
      BY <1>4
    <3>2. names[a + x] = C[(a + x) - a] /\ slots[a + x] = B[(a + x) - a]
      BY <1>9, <1>10, <3>1, Zenon
    <3> QED  BY <1>5, <3>1, <3>2
  <2> HIDE DEF m
  <2> QED  BY <1>4, <1>14, <2>1 DEF OldPart
<1>17. OldPart(localsplus, a + b, F, CellOf)
  <2>1. ASSUME NEW x \in 1..c
        PROVE  (a + b) + x \in 1..m /\ names[(a + b) + x] = F[x]
                 /\ slots[(a + b) + x] = CellOf(F[x])
    <3>1. (a + b) + x \in 1..m /\ a + b < (a + b) + x /\ ((a + b) + x) - a - b = x
      BY <1>4
    <3>2. names[(a + b) + x] = F[((a + b) + x) - a - b]
            /\ slots[(a + b) + x] = G[((a + b) + x) - a - b]
      BY <1>9, <1>10, <3>1, Zenon
    <3>3. ((a + b) + x) - a - b = x
      BY <3>1
    <3> QED  BY <1>5, <3>1, <3>2, <3>3
  <2> HIDE DEF m
  <2> QED  BY <1>4, <1>14, <2>1 DEF OldPart
<1>18. \A q \in 1..m : q \in 1..a \/ (\E x \in 1..b : q = a + x) \/ (\E x \in 1..c : q = a + b + x)
  <2> SUFFICES ASSUME NEW q \in 1..m
               PROVE  q \in 1..a \/ (\E x \in 1..b : q = a + x) \/ (\E x \in 1..c : q = a + b + x)
    OBVIOUS
  <2>1. CASE q <= a
    BY <1>4, <2>1
  <2>2. CASE a < q /\ q <= a + b
    <3>1. q - a \in 1..b /\ q = a + (q - a)
      BY <1>4, <2>2
    <3> QED  BY <3>1
  <2>3. CASE a + b < q
    <3>1. q - a - b \in 1..c /\ q = a + b + (q - a - b)
      BY <1>4, <2>3
    <3> QED  BY <3>1
  <2> QED  BY <1>4, <2>1, <2>2, <2>3
<1> HIDE DEF m
<1> QED  BY <1>4, <1>14, <1>15, <1>16, <1>17, <1>18, Zenon DEF V, C, F, a, b

(* They are complete, too: an argument in a cell has two slots, one of     *)
(* them null.                                                              *)
LEMMA OldComplete ==
    ASSUME FramesTypeOK, version <= 10, ~NoFrame
    PROVE  IsComplete(localsplus)
<1> DEFINE V == VarNames
           C == CellVars
           F == FreeVars
           a == Len(V)
           b == Len(C)
           l == localsplus
           D == DOMAIN Variables
           IsVar(q, k) == q \in DOMAIN V /\ V[q] = k
           IsCellVar(q, k) == \E x \in DOMAIN C : q = a + x /\ C[x] = k
           IsFreeVar(q, k) == \E x \in DOMAIN F : q = a + b + x /\ F[x] = k
<1>1. /\ OldPart(l, 0, V, LocalWord) /\ OldPart(l, a, C, CellOf) /\ OldPart(l, a + b, F, CellOf)
      /\ \A q \in DOMAIN l : q \in DOMAIN V \/ (\E x \in DOMAIN C : q = a + x)
                             \/ (\E x \in DOMAIN F : q = a + b + x)
  BY OldLocals
<1>2. IsListOf(V, {"local", "argcell"}) /\ IsListOf(C, {"argcell", "cell"})
        /\ IsListOf(F, {"free"})
  BY PartsAre DEF VarNames, CellVars, FreeVars
<1> HIDE DEF V, C, F, l
<1>3. \A q \in DOMAIN V : 0 + q = q /\ V[q] \in D
  BY <1>2 DEF IsListOf
<1>4. (\A x \in DOMAIN C : C[x] \in D) /\ (\A x \in DOMAIN F : F[x] \in D)
  BY <1>2 DEF IsListOf
<1> HIDE DEF a, b, D
<1>5. /\ \A q \in DOMAIN V : q \in DOMAIN l /\ l[q].name = V[q] /\ l[q].word = LocalWord(V[q])
      /\ \A x \in DOMAIN C : a + x \in DOMAIN l /\ l[a + x].name = C[x]
           /\ l[a + x].word = CellOf(C[x])
      /\ \A x \in DOMAIN F : /\ a + b + x \in DOMAIN l /\ l[a + b + x].name = F[x]
                             /\ l[a + b + x].word = CellOf(F[x])
  <2>1. \A q \in DOMAIN V : q \in DOMAIN l /\ l[q].name = V[q] /\ l[q].word = LocalWord(V[q])
    BY <1>1, <1>3 DEF OldPart
  <2>2. \A x \in DOMAIN C : a + x \in DOMAIN l /\ l[a + x].name = C[x]
          /\ l[a + x].word = CellOf(C[x])
    BY <1>1, Zenon DEF OldPart
  <2>3. \A x \in DOMAIN F : /\ a + b + x \in DOMAIN l /\ l[a + b + x].name = F[x]
                            /\ l[a + b + x].word = CellOf(F[x])
    BY <1>1, Zenon DEF OldPart
  <2> QED  BY <2>1, <2>2, <2>3, Zenon
<1>6. /\ \A j \in DOMAIN V : Variables[V[j]].part \in {"local", "argcell"}
      /\ \A j \in DOMAIN C : Variables[C[j]].part \in {"argcell", "cell"}
      /\ \A j \in DOMAIN F : Variables[F[j]].part \in {"free"}
  BY <1>2, Zenon DEF IsListOf
<1>7. ASSUME NEW q \in DOMAIN l, l[q].word # Null
      PROVE  \E k \in D : /\ l[q].name = k /\ l[q].word = WordOf(k)
                          /\ \/ Variables[k].part = "local" /\ IsVar(q, k)
                             \/ Variables[k].part \in {"argcell", "cell"} /\ IsCellVar(q, k)
                             \/ Variables[k].part = "free" /\ IsFreeVar(q, k)
  <2>1. CASE q \in DOMAIN V
    <3>1. V[q] \in D /\ l[q].name = V[q] /\ ~IsCell(V[q]) /\ l[q].word = Contents(V[q])
      BY <1>3, <1>5, <1>7, <2>1, Zenon DEF LocalWord
    <3>2. Variables[V[q]].part = "local"
      BY <3>1, Zenon DEF IsCell
    <3>3. l[q].word = WordOf(V[q])
      BY <3>1, Zenon DEF WordOf
    <3> QED  BY <2>1, <3>1, <3>2, <3>3, Zenon
  <2>2. ASSUME NEW x \in DOMAIN C, q = a + x
        PROVE  C[x] \in D /\ l[q].name = C[x] /\ l[q].word = WordOf(C[x])
               /\ Variables[C[x]].part \in {"argcell", "cell"} /\ IsCellVar(q, C[x])
    <3>1. C[x] \in D /\ l[q].name = C[x] /\ l[q].word = CellOf(C[x])
          /\ Variables[C[x]].part \in {"argcell", "cell"} /\ IsCellVar(q, C[x])
      BY <1>4, <1>5, <1>6, <2>2, Zenon
    <3>2. IsCell(C[x])
      BY <3>1 DEF IsCell
    <3> QED  BY <3>1, <3>2, Zenon DEF WordOf
  <2>3. ASSUME NEW x \in DOMAIN F, q = a + b + x
        PROVE  F[x] \in D /\ l[q].name = F[x] /\ l[q].word = WordOf(F[x])
               /\ Variables[F[x]].part = "free" /\ IsFreeVar(q, F[x])
    <3>1. F[x] \in D /\ l[q].name = F[x] /\ l[q].word = CellOf(F[x])
          /\ Variables[F[x]].part = "free" /\ IsFreeVar(q, F[x])
      BY <1>4, <1>5, <1>6, <2>3, Zenon
    <3>2. IsCell(F[x])
      BY <3>1 DEF IsCell
    <3> QED  BY <3>1, <3>2, Zenon DEF WordOf
  <2> HIDE DEF IsVar, IsCellVar, IsFreeVar
  <2> QED  BY <1>1, <2>1, <2>2, <2>3, Zenon
<1>8. ASSUME NEW k \in D
      PROVE  /\ \A q, r : IsVar(q, k) /\ IsVar(r, k) => q = r
             /\ \A q, r : IsCellVar(q, k) /\ IsCellVar(r, k) => q = r
             /\ \A q, r : IsFreeVar(q, k) /\ IsFreeVar(r, k) => q = r
  <2>1. /\ \A x, y \in DOMAIN V : V[x] = V[y] => x = y
        /\ \A x, y \in DOMAIN C : C[x] = C[y] => x = y
        /\ \A x, y \in DOMAIN F : F[x] = F[y] => x = y
    BY <1>2, Zenon DEF IsListOf
  <2>2. \A q, r : IsVar(q, k) /\ IsVar(r, k) => q = r
    BY <2>1
  <2>3. \A q, r : IsCellVar(q, k) /\ IsCellVar(r, k) => q = r
    BY <2>1
  <2>4. \A q, r : IsFreeVar(q, k) /\ IsFreeVar(r, k) => q = r
    BY <2>1
  <2> QED  BY <2>2, <2>3, <2>4, Zenon
<1>9. ASSUME NEW k \in D PROVE \E q \in DOMAIN l : l[q].name = k /\ l[q].word = WordOf(k)
  <2>1. Variables[k].part \in Parts /\ (IsCell(k) <=> Variables[k].part # "local")
    BY PartOf DEF D
  <2>2. CASE Variables[k].part = "local"
    <3>1. PICK j \in DOMAIN V : V[j] = k
      BY <1>2, <2>2 DEF IsListOf, D
    <3>2. ~IsCell(k)
      BY <2>1, <2>2
    <3> QED  BY <1>5, <3>1, <3>2, Zenon DEF LocalWord, WordOf
  <2>3. CASE Variables[k].part \in {"argcell", "cell"}
    <3>1. PICK j \in DOMAIN C : C[j] = k
      BY <1>2, <2>3 DEF IsListOf, D
    <3>2. IsCell(k)
      BY <2>1, <2>3
    <3> QED  BY <1>5, <3>1, <3>2, Zenon DEF WordOf
  <2>4. CASE Variables[k].part = "free"
    <3>1. PICK j \in DOMAIN F : F[j] = k
      BY <1>2, <2>4 DEF IsListOf, D
    <3>2. IsCell(k)
      BY <2>1, <2>4
    <3> QED  BY <1>5, <3>1, <3>2, Zenon DEF WordOf
  <2> QED  BY <2>1, <2>2, <2>3, <2>4 DEF Parts
<1> HIDE DEF IsVar, IsCellVar, IsFreeVar
<1>10. ASSUME NEW q \in DOMAIN l, NEW r \in DOMAIN l,
              l[q].word # Null, l[r].word # Null, l[q].name = l[r].name
       PROVE  q = r
  <2> DEFINE k == l[q].name
             part == Variables[k].part
  <2>1. /\ k \in D
        /\ \/ part = "local" /\ IsVar(q, k)
           \/ part \in {"argcell", "cell"} /\ IsCellVar(q, k)
           \/ part = "free" /\ IsFreeVar(q, k)
    BY <1>7, <1>10, Zenon
  <2>2. \/ part = "local" /\ IsVar(r, k)
        \/ part \in {"argcell", "cell"} /\ IsCellVar(r, k)
        \/ part = "free" /\ IsFreeVar(r, k)
    BY <1>7, <1>10, Zenon
  <2> HIDE DEF k, part
  <2>3. \/ IsVar(q, k) /\ IsVar(r, k)
        \/ IsCellVar(q, k) /\ IsCellVar(r, k)
        \/ IsFreeVar(q, k) /\ IsFreeVar(r, k)
    <3>1. CASE part = "local"
      BY <2>1, <2>2, <3>1
    <3>2. CASE part \in {"argcell", "cell"}
      BY <2>1, <2>2, <3>2
    <3>3. CASE part = "free"
      BY <2>1, <2>2, <3>3
    <3> QED  BY <2>1, <3>1, <3>2, <3>3
  <2> QED  BY <1>8, <2>1, <2>3, Zenon
<1>11. \A q \in DOMAIN l : l[q].word # Null => l[q].name \in D /\ l[q].word = WordOf(l[q].name)
  BY <1>7, Zenon
<1>12. \A q \in DOMAIN l : l[q].name \in D
  <2> SUFFICES ASSUME NEW q \in DOMAIN l PROVE l[q].name \in D
    OBVIOUS
  <2>1. CASE q \in DOMAIN V
    BY <1>3, <1>5, <2>1, Zenon
  <2>2. CASE \E x \in DOMAIN C : q = a + x
    BY <1>4, <1>5, <2>2, ZenonT(30)
  <2>3. CASE \E x \in DOMAIN F : q = a + b + x
    BY <1>4, <1>5, <2>3, ZenonT(30)
  <2> QED  BY <1>1, <2>1, <2>2, <2>3, Zenon
<1> QED  BY <1>9, <1>10, <1>11, <1>12, Zenon DEF IsComplete, l, D

(* The locals are a sequence.                                              *)
LEMMA LocalsAreTyped ==
    ASSUME FramesTypeOK PROVE localsplus \in Seq(Range(localsplus))
<1> DEFINE names == localsplusNames
           n == Len(names)
           l == localsplus
<1>1. n \in Nat /\ DOMAIN names = 1..n
  <2>1. CASE Code # Own
    <3>1. names = <<0>>
      BY <2>1 DEF localsplusNames
    <3> HIDE DEF names
    <3> QED  BY <3>1
  <2>2. CASE Code = Own /\ version <= 10
    <3>1. names = VarNames \o CellVars \o FreeVars
      BY <2>2, Zenon DEF localsplusNames
    <3>2. VarNames \in Seq(DOMAIN Variables) /\ CellVars \in Seq(DOMAIN Variables)
          /\ FreeVars \in Seq(DOMAIN Variables)
      BY PartsAre DEF VarNames, CellVars, FreeVars, IsListOf
    <3>3. names \in Seq(DOMAIN Variables)
      BY <3>1, <3>2, Joined3
    <3> HIDE DEF names
    <3> QED  BY <3>3
  <2>3. CASE Code = Own /\ ~(version <= 10)
    <3>1. names = [k \in DOMAIN Variables |-> k]
      BY <2>3, Zenon DEF localsplusNames
    <3> HIDE DEF names
    <3> QED  BY <3>1, VariablesTyped
  <2> QED  BY <2>1, <2>2, <2>3
<1>2. CASE Code = Null \/ NoFrame
  <2>1. l = <<>>
    BY <1>2 DEF localsplus
  <2> HIDE DEF l
  <2>2. l \in Seq(Range(l))
    BY <2>1
  <2> QED  BY <2>2 DEF l
<1>3. CASE ~(Code = Null \/ NoFrame)
  <2>1. l = [j \in DOMAIN names |-> [name |-> names[j], word |-> Words[j]]]
    BY <1>3, Zenon DEF localsplus
  <2> HIDE DEF l, names, n
  <2>2. DOMAIN l = 1..n /\ l = [j \in 1..n |-> l[j]]
    BY <1>1, <2>1
  <2>3. \A j \in 1..n : l[j] \in Range(l)
    BY <2>2 DEF Range
  <2>4. l \in Seq(Range(l))
    BY <1>1, <2>2, <2>3
  <2> QED  BY <2>4 DEF l
<1> QED  BY <1>2, <1>3

(* What is shown of a variable whose word is not null.                     *)
LEMMA ReprOfWord ==
    ASSUME FramesTypeOK, NEW k \in DOMAIN Variables
    PROVE  /\ WordOf(k) # Null /\ Fails(WordOf(k)) => IsCell(k) /\ ~frame.values[k]
           /\ WordOf(k) # Null /\ ~Fails(WordOf(k)) => frame.values[k]
                /\ ReprOf(WordOf(k)) = ValueOf(k)
           /\ frame.values[k] => WordOf(k) # Null
           /\ ~Fails(Freed)
<1>1. /\ CellAt(CellOf(k)) = {k} /\ CellAt(ValueOf(k)) = {} /\ CellOf(k) # Null
           /\ ValueOf(k) # Null
      /\ CellOf(k) % 2 # 1 /\ ValueOf(k) % 2 # 1 /\ CellAt(Freed) = {} /\ Freed % 2 # 1
  BY Addresses
<1>2. ~Fails(Freed)
  BY <1>1, Zenon DEF Fails
<1>3. CASE IsCell(k)
  <2>1. WordOf(k) = CellOf(k)
    BY <1>3, Zenon DEF WordOf
  <2>2. (CHOOSE m \in {k} : TRUE) = k
    BY SMT
  <2>3. ReprOf(CellOf(k)) = Contents(k)
    BY <1>1, <2>2, Zenon DEF ReprOf
  <2>4. Contents(k) = IF frame.values[k] THEN ValueOf(k) ELSE Null
    BY Zenon DEF Contents
  <2>5. Fails(CellOf(k)) <=> Contents(k) = Null
    BY <1>1, <2>3, Zenon DEF Fails
  <2> QED  BY <1>1, <1>2, <1>3, <2>1, <2>3, <2>4, <2>5, Zenon
<1>4. CASE ~IsCell(k)
  <2>1. WordOf(k) = IF frame.values[k] THEN ValueOf(k) ELSE Null
    BY <1>4, Zenon DEF WordOf, Contents
  <2>2. ~Fails(ValueOf(k)) /\ ReprOf(ValueOf(k)) = ValueOf(k)
    BY <1>1, Zenon DEF Fails, ReprOf
  <2> QED  BY <1>1, <1>2, <2>1, <2>2, Zenon
<1> QED  BY <1>3, <1>4

(* Any word that is read is null, freed, or that of a variable.            *)
LEMMA WordsAre ==
    ASSUME FramesTypeOK, NEW q \in DOMAIN localsplus
    PROVE  \/ localsplus[q].word \in {Null, Freed}
           \/ \E k \in DOMAIN Variables : localsplus[q].word = WordOf(k)
<1>1. CASE version >= 11
  BY <1>1, NewLocals
<1>2. CASE version <= 10 /\ ~NoFrame
  BY <1>2, OldComplete DEF IsComplete
<1>3. CASE NoFrame
  <2>1. localsplus = <<>>
    BY <1>3 DEF localsplus
  <2> QED  BY <2>1
<1> QED  BY <1>1, <1>2, <1>3 DEF FramesTypeOK

(* Where ShowsTheFrame speaks of the variables, the locals are complete.   *)
LEMMA LocalsAreComplete ==
    ASSUME FramesTypeOK, ~CodeReplaced, ~HasNoLocals
    PROVE  IsComplete(localsplus)
<1>1. version \in 9..14 /\ frame.state # "cleared" /\ (version >= 11 => kind # "frame")
  BY DEF FramesTypeOK, HasNoLocals
<1>2. CASE version >= 11
  <2>1. Code = Own
    BY <1>1, <1>2, CodeOfFrame DEF CodeReplaced
  <2> QED  BY <1>1, <1>2, <2>1, NewComplete
<1>3. CASE version <= 10
  BY <1>1, <1>3, OldComplete DEF NoFrame
<1> QED  BY <1>1, <1>2, <1>3

(* The variables that are not null, in the order of their slots.           *)
SetLocals == Kept(localsplus, {p \in Range(localsplus) : p.word # Null})

(* They are some of the locals.                                            *)
LEMMA SetLocalsAre ==
    /\ FramesTypeOK => /\ SetLocals \in Seq(Range(localsplus))
                       /\ \A j \in DOMAIN SetLocals : \E q \in DOMAIN localsplus :
                             SetLocals[j] = localsplus[q] /\ localsplus[q].word # Null
    /\ FramesTypeOK => \E pos : IsKept(SetLocals, localsplus,
                                       {p \in Range(localsplus) : p.word # Null}, pos)
<1> DEFINE l == localsplus
           S == {p \in Range(l) : p.word # Null}
           t == Kept(l, S)
<1> SUFFICES ASSUME FramesTypeOK
             PROVE  /\ t \in Seq(Range(l))
                    /\ \A j \in DOMAIN t : \E q \in DOMAIN l : t[j] = l[q] /\ l[q].word # Null
                    /\ \E pos : IsKept(t, l, S, pos)
  BY Zenon DEF SetLocals
<1>1. l \in Seq(Range(l))
  BY LocalsAreTyped
<1>2. \A p \in S : p.word # Null
  OBVIOUS
<1> HIDE DEF l, S, t
<1>3. t \in Seq(Range(l)) /\ \E pos : IsKept(t, l, S, pos)
  BY <1>1, KeptAre DEF t
<1>4. PICK pos : IsKept(t, l, S, pos)
  BY <1>3
<1>5. \A j \in DOMAIN t : \E q \in DOMAIN l : t[j] = l[q] /\ l[q].word # Null
  <2> SUFFICES ASSUME NEW j \in DOMAIN t
               PROVE  \E q \in DOMAIN l : t[j] = l[q] /\ l[q].word # Null
    OBVIOUS
  <2>1. PICK q \in DOMAIN l : l[q] \in S /\ pos[q] = j
    BY <1>4, Zenon DEF IsKept
  <2>2. t[pos[q]] = l[q]
    BY <1>4, <2>1, Zenon DEF IsKept
  <2> QED  BY <1>2, <2>1, <2>2
<1> QED  BY <1>3, <1>5

(* Only an empty cell makes the details fail.                              *)
LEMMA FailureIsAnEmptyCell ==
    ASSUME FramesTypeOK, NEW j \in DOMAIN SetLocals, Fails(SetLocals[j].word)
    PROVE  \E k \in DOMAIN Variables : IsCell(k) /\ ~frame.values[k]
<1>1. PICK q \in DOMAIN localsplus : SetLocals[j] = localsplus[q] /\ localsplus[q].word # Null
  BY SetLocalsAre
<1>2. Fails(localsplus[q].word)
  BY <1>1
<1>3. PICK m \in DOMAIN Variables : TRUE
  <2>1. 1 \in DOMAIN Variables
    BY VariablesTyped
  <2> QED  BY <2>1, Zenon
<1>4. localsplus[q].word # Freed
  BY <1>2, <1>3, ReprOfWord
<1>5. PICK k \in DOMAIN Variables : localsplus[q].word = WordOf(k)
  BY <1>1, <1>4, WordsAre
<1> QED  BY <1>1, <1>2, <1>5, ReprOfWord

LocalPairs == [j \in DOMAIN SetLocals |-> <<SetLocals[j].name, ReprOf(SetLocals[j].word)>>]

(* Names and values that are shown of complete locals are the variables    *)
(* that are set, each once.                                                *)
LEMMA PairsAreTheVariables ==
    ASSUME FramesTypeOK, IsComplete(localsplus),
           \A j \in DOMAIN SetLocals : ~Fails(SetLocals[j].word)
    PROVE  Range(LocalPairs) = SetVariables /\ IsInjective(LocalPairs)
<1> DEFINE l == localsplus
           D == DOMAIN Variables
           t == SetLocals
           S == {p \in Range(l) : p.word # Null}
           ps == LocalPairs
<1>1. PICK pos : IsKept(t, l, S, pos)
  BY SetLocalsAre
<1>2. DOMAIN ps = DOMAIN t /\ \A j \in DOMAIN t : ps[j] = <<t[j].name, ReprOf(t[j].word)>>
  BY DEF LocalPairs
<1>3. \A p : p \in S <=> p \in Range(l) /\ p.word # Null
  OBVIOUS
<1>4. \A q \in DOMAIN l : l[q] \in Range(l)
  BY DEF Range
<1> HIDE DEF l, t, S, ps, D
<1>5. /\ \A q \in DOMAIN l : l[q].name \in D
           /\ (l[q].word # Null => l[q].word = WordOf(l[q].name))
      /\ \A k \in D : \E q \in DOMAIN l : l[q].name = k /\ l[q].word = WordOf(k)
      /\ \A q, r \in DOMAIN l : l[q].word # Null /\ l[r].word # Null
           /\ l[q].name = l[r].name => q = r
  BY Zenon DEF IsComplete, l, D
<1>6. \A j \in DOMAIN t : \E q \in DOMAIN l : l[q] \in S /\ pos[q] = j /\ t[j] = l[q]
        /\ l[q].word # Null
  <2> SUFFICES ASSUME NEW j \in DOMAIN t
               PROVE  \E q \in DOMAIN l : /\ l[q] \in S /\ pos[q] = j
                                          /\ t[j] = l[q] /\ l[q].word # Null
    BY Zenon
  <2>1. PICK q \in DOMAIN l : l[q] \in S /\ pos[q] = j
    BY <1>1, Zenon DEF IsKept
  <2>2. t[pos[q]] = l[q]
    BY <1>1, <2>1, Zenon DEF IsKept
  <2>3. l[q].word # Null
    BY <1>3, <2>1
  <2> QED  BY <2>1, <2>2, <2>3
<1>7. \A k \in D : /\ WordOf(k) # Null /\ ~Fails(WordOf(k))
                        => frame.values[k] /\ ReprOf(WordOf(k)) = ValueOf(k)
                   /\ frame.values[k] => WordOf(k) # Null
  BY ReprOfWord DEF D
<1>8. \A j \in DOMAIN t : ~Fails(t[j].word)
  BY DEF t
<1>9. ASSUME NEW j \in DOMAIN t
      PROVE  t[j].name \in D /\ frame.values[t[j].name]
               /\ ps[j] = <<t[j].name, ValueOf(t[j].name)>>
  <2>1. PICK q \in DOMAIN l : t[j] = l[q] /\ l[q].word # Null
    BY <1>6
  <2> DEFINE k == l[q].name
  <2>2. k \in D /\ l[q].word = WordOf(k) /\ t[j].name = k /\ t[j].word = WordOf(k)
    BY <1>5, <2>1, Zenon
  <2> HIDE DEF k
  <2>3. WordOf(k) # Null /\ ~Fails(WordOf(k))
    BY <1>8, <2>1, <2>2, Zenon
  <2>4. frame.values[k] /\ ReprOf(WordOf(k)) = ValueOf(k)
    BY <1>7, <2>2, <2>3
  <2> QED  BY <1>2, <2>2, <2>4, Zenon
<1>10. ASSUME NEW k \in D, frame.values[k] PROVE \E j \in DOMAIN t : ps[j] = <<k, ValueOf(k)>>
  <2>1. PICK q \in DOMAIN l : l[q].name = k /\ l[q].word = WordOf(k)
    BY <1>5
  <2>2. l[q] \in S
    BY <1>3, <1>4, <1>7, <1>10, <2>1
  <2>3. pos[q] \in DOMAIN t /\ t[pos[q]] = l[q]
    BY <1>1, <2>2, Zenon DEF IsKept
  <2>4. t[pos[q]].name = k
    BY <2>1, <2>3
  <2> QED  BY <1>9, <2>3, <2>4
<1>11. Range(ps) = SetVariables
  <2>1. \A x : x \in SetVariables <=> \E k \in D : frame.values[k] /\ x = <<k, ValueOf(k)>>
    BY DEF SetVariables, D
  <2>2. \A x : x \in Range(ps) <=> \E j \in DOMAIN t : x = ps[j]
    BY <1>2 DEF Range
  <2>3. \A x : x \in SetVariables <=> x \in Range(ps)
    BY <1>9, <1>10, <2>1, <2>2, ZenonT(30)
  <2> QED  BY <2>3
<1>12. ASSUME NEW i \in DOMAIN t, NEW j \in DOMAIN t, ps[i] = ps[j] PROVE i = j
  <2>1. t[i].name = t[j].name
    BY <1>2, <1>12
  <2>2. PICK q \in DOMAIN l : pos[q] = i /\ t[i] = l[q] /\ l[q].word # Null
    BY <1>6
  <2>3. PICK r \in DOMAIN l : pos[r] = j /\ t[j] = l[r] /\ l[r].word # Null
    BY <1>6
  <2>4. q = r
    BY <1>5, <2>1, <2>2, <2>3
  <2> QED  BY <2>2, <2>3, <2>4
<1> QED  BY <1>2, <1>11, <1>12, Zenon DEF IsInjective, ps

(* Since 3.13 the state of a generator has its name.                       *)
LEMMA StateIsNamed ==
    ASSUME FramesTypeOK, version >= 13
    PROVE  frameStateString(frameState) = frame.state
<1>1. frame.state \in {"created", "suspended", "suspended_yield_from", "executing", "cleared"}
  BY DEF FramesTypeOK, FrameRecord
<1>2. version >= 11 /\ HasField("frame_state") /\ frameState = FrameStateField
  BY DEF frameState, HasField, FramesTypeOK
<1>3. CASE frame.state = "created"
  BY <1>2, <1>3, SMT DEF FrameStateField, frameStateString
<1>4. CASE frame.state = "suspended"
  BY <1>2, <1>4, SMT DEF FrameStateField, frameStateString
<1>5. CASE frame.state = "suspended_yield_from"
  BY <1>2, <1>5, SMT DEF FrameStateField, frameStateString
<1>6. CASE frame.state = "executing"
  BY <1>2, <1>6, SMT DEF FrameStateField, frameStateString
<1>7. CASE frame.state = "cleared"
  BY <1>2, <1>7, SMT DEF FrameStateField, frameStateString
<1> QED  BY <1>1, <1>3, <1>4, <1>5, <1>6, <1>7

(* Showing the details keeps the invariant.                                *)
LEMMA ShowDetailsKeeps == FramesInv /\ ShowDetails => FramesInv'
<1> SUFFICES ASSUME FramesInv, ShowDetails PROVE FramesInv'
  OBVIOUS
<1> DEFINE Some == \E j \in DOMAIN SetLocals : Fails(SetLocals[j].word)
           State == IF kind = "generator" THEN <<frameStateString(frameState)>> ELSE <<>>
<1>1. FramesTypeOK /\ LinenoOK /\ DecoderOK
  BY DEF FramesInv
<1>2. /\ pc = "begin"
      /\ UNCHANGED <<program, format, table, instruction, lasti, it, addr, line>>
      /\ UNCHANGED <<version, kind, frame>>
  BY DEF ShowDetails
<1>3. \/ pc' = "failed" /\ Some
      \/ pc' = "shown" /\ ~Some /\ shown' = State \o LocalPairs
  BY Zenon DEF ShowDetails, SetLocals, LocalPairs
<1> HIDE DEF Some, State
<1>4. FramesTypeOK' /\ LinenoOK' /\ ShowsTheLine'
  <2>1. pc' \in {"failed", "shown"}
    BY <1>3
  <2>2. FramesTypeOK'
    BY <1>1, <1>2, <2>1 DEF FramesTypeOK
  <2>3. LinenoOK'
    BY <1>1, <1>2 DEF LinenoOK
  <2> QED  BY <2>1, <2>2, <2>3 DEF ShowsTheLine
<1>5. DecoderOK'
  <2>1. CASE NoTable
    BY <1>2, <1>3, <2>1 DEF DecoderOK, NoTable
  <2>2. CASE OwnTable
    <3>1. PICK full \in BOOLEAN : table = Joined(Entries(format, program, full))
                                  /\ AtAnEntry(Entries(format, program, full))
      BY <2>2 DEF OwnTable
    <3>2. OwnTable'
      BY <1>2, <1>3, <2>2, <3>1 DEF OwnTable, AtAnEntry
    <3> QED  BY <1>2, <1>3, <3>2 DEF DecoderOK
  <2> QED  BY <1>1, <1>2, <2>1, <2>2 DEF DecoderOK, OtherTable
<1>6. CASE pc' = "failed"
  <2>1. \E k \in DOMAIN Variables : IsCell(k) /\ ~frame.values[k]
    BY <1>1, <1>3, <1>6, FailureIsAnEmptyCell DEF Some
  <2>2. ShowsTheFrame'
    BY <1>2, <1>6, <2>1 DEF ShowsTheFrame, IsCell
  <2> QED  BY <1>4, <1>5, <2>2 DEF FramesInv
<1>7. CASE pc' = "shown"
  <2>1. ~Some /\ shown' = State \o LocalPairs
    BY <1>3, <1>7
  <2> DEFINE locals == IF kind = "generator" THEN Tail(shown') ELSE shown'
  <2>2. locals = LocalPairs /\ (kind = "generator" => shown'[1] = frameStateString(frameState))
    <3>1. \E V : LocalPairs \in Seq(V)
      <4>1. SetLocals \in Seq(Range(localsplus))
        BY <1>1, SetLocalsAre
      <4>2. Len(SetLocals) \in Nat /\ DOMAIN SetLocals = 1..Len(SetLocals)
        BY <4>1
      <4> DEFINE n == Len(SetLocals)
      <4>3. LocalPairs = [j \in 1..n |-> LocalPairs[j]]
        BY <4>2 DEF LocalPairs
      <4> HIDE DEF n
      <4>4. LocalPairs \in Seq({LocalPairs[j] : j \in 1..n})
        BY <4>2, <4>3 DEF n
      <4> QED  BY <4>4
    <3>2. PICK V : LocalPairs \in Seq(V)
      BY <3>1
    <3> DEFINE p == LocalPairs
    <3> HIDE DEF p
    <3>3. p \in Seq(V)
      BY <3>2 DEF p
    <3>4. CASE kind = "generator"
      <4> DEFINE s == frameStateString(frameState)
      <4>1. shown' = <<s>> \o p
        BY <2>1, <3>4 DEF State, p
      <4> HIDE DEF s
      <4>2. Tail(<<s>> \o p) = p /\ (<<s>> \o p)[1] = s
        BY <3>3
      <4> QED  BY <3>4, <4>1, <4>2 DEF s, p
    <3>5. CASE kind # "generator"
      <4>1. shown' = <<>> \o p
        BY <2>1, <3>5 DEF State, p
      <4>2. <<>> \o p = p
        BY <3>3
      <4> QED  BY <3>5, <4>1, <4>2 DEF p
    <3> QED  BY <3>4, <3>5
  <2> HIDE DEF locals
  <2>3. ASSUME ~CodeReplaced, ~HasNoLocals
        PROVE  Range(locals) = SetVariables /\ IsInjective(locals)
    BY <1>1, <2>1, <2>2, <2>3, LocalsAreComplete, PairsAreTheVariables DEF Some
  <2>4. ASSUME kind = "generator", version >= 13 PROVE shown'[1] = frame.state
    BY <1>1, <2>2, <2>4, StateIsNamed
  <2>5. (SetVariables' = SetVariables) /\ (CodeReplaced' = CodeReplaced)
          /\ (HasNoLocals' = HasNoLocals)
    BY <1>2 DEF SetVariables, CodeReplaced, HasNoLocals
  <2>6. ShowsTheFrame'
    BY <1>2, <1>7, <2>3, <2>4, <2>5 DEF ShowsTheFrame, locals
  <2> QED  BY <1>4, <1>5, <2>6 DEF FramesInv
<1> QED  BY <1>3, <1>6, <1>7

(* Every step keeps the invariant.                                         *)
LEMMA FramesStep == FramesInv /\ [FramesNext]_allVars => FramesInv'
<1> SUFFICES ASSUME FramesInv, [FramesNext]_allVars PROVE FramesInv'
  OBVIOUS
<1>1. ASSUME UNCHANGED allVars PROVE FramesInv'
  <2>1. UNCHANGED <<program, format, table, instruction, lasti, pc, it, addr, line>>
        /\ UNCHANGED <<version, kind, frame, shown>>
    BY <1>1 DEF allVars, lineVars, frameVars
  <2>2. FramesTypeOK' /\ LinenoOK'
    BY <2>1 DEF FramesInv, FramesTypeOK, LinenoOK
  <2>3. ShowsTheLine'
    BY <2>1 DEF FramesInv, ShowsTheLine, CodeReplaced, LinenoIsStale, UsesLineno
  <2>4. ShowsTheFrame'
    BY <2>1 DEF FramesInv, ShowsTheFrame, CodeReplaced, HasNoLocals, SetVariables, IsCell
  <2>5. ASSUME OwnTable PROVE OwnTable'
    <3>1. PICK full, E :
            /\ full \in BOOLEAN /\ E = Entries(format, program, full) /\ table = Joined(E)
                 /\ AtAnEntry(E)
            /\ pc = "loop" => addr <= Offset
                 /\ \E k \in DOMAIN E : \E j \in 0..Len(E[k]) : HasRead(E, k, j)
      BY <2>5 DEF OwnTable
    <3>2. Offset' = Offset /\ AtAnEntry(E)'
      BY <2>1, <3>1 DEF Offset, AtAnEntry
    <3>3. ASSUME NEW k, NEW j, HasRead(E, k, j) PROVE HasRead(E, k, j)'
      <4>1. ReadTo(E, program, k, j, it', addr', line')
        BY <2>1, <3>3, Zenon DEF HasRead, ReadTo
      <4> QED  BY <2>1, <4>1, ReadAgain
    <3>4. pc' = "loop" => addr' <= Offset'
            /\ \E k \in DOMAIN E : \E j \in 0..Len(E[k]) : HasRead(E, k, j)'
      BY <2>1, <3>1, <3>2, <3>3
    <3> QED  BY <2>1, <2>5, <3>1, <3>2, <3>4 DEF OwnTable
  <2>6. DecoderOK'
    BY <2>1, <2>5 DEF FramesInv, DecoderOK, OtherTable, AtAnEntry, NoTable, CodeReplaced
  <2> QED  BY <2>2, <2>3, <2>4, <2>6 DEF FramesInv
<1>2. CASE Debuggee
  BY <1>2, DebuggeeKeeps
<1>3. CASE ShowDetails
  BY <1>3, ShowDetailsKeeps
<1>4. CASE CurrentLineNumber
  BY <1>4, CurrentLineNumberKeeps
<1>5. CASE Decode
  BY <1>5, DecodeKeeps
<1>6. CASE Returned
  BY <1>1, <1>6 DEF Returned
<1> QED  BY <1>1, <1>2, <1>3, <1>4, <1>5, <1>6 DEF FramesNext

(* A decoder at an entry stays in the table.                               *)
LEMMA InvStaysInTheTable == FramesInv => StaysInTheTable
<1> SUFFICES ASSUME FramesTypeOK, DecoderOK PROVE StaysInTheTable
  BY DEF FramesInv
<1>1. program \in Programs /\ (format # "none" => format \in Formats)
  BY FormatTyped DEF FramesTypeOK
<1>2. CASE OwnTable
  <2>1. PICK full, E : /\ full \in BOOLEAN /\ E = Entries(format, program, full)
                       /\ table = Joined(E) /\ AtAnEntry(E)
    BY <1>2 DEF OwnTable
  <2>2. IsTable(E, EntrySet)
    BY <1>1, <1>2, <2>1, TablesAre DEF OwnTable, IsTableOf
  <2> QED  BY <2>1, <2>2, InsideTheTable
<1>3. CASE OtherTable
  BY <1>3, OtherTableIs, InsideTheTable DEF OtherTable
<1>4. CASE NoTable
  <2>1. it = 1 /\ Len(table) = 0
    BY <1>4 DEF NoTable
  <2> QED  BY <2>1 DEF StaysInTheTable
<1> QED  BY <1>2, <1>3, <1>4 DEF DecoderOK

(* After any steps of the debuggee, a decoder of currentLineNumber stands  *)
(* behind some first entries of some run, and its address and line are     *)
(* what these come to.                                                     *)
THEOREM DecodersFollowTheRuns == FramesSpec => []FramesInv
BY InitHolds, FramesStep, PTL DEF FramesSpec

(* PyFrameObject and PyInterpreterFrame::currentLineNumber give the line   *)
(* of the run the instruction is in, for every program and format, however *)
(* CPython has split its runs.                                             *)
THEOREM LinesAreRight == FramesSpec => []ShowsTheLine
<1>1. FramesInv => ShowsTheLine
  BY DEF FramesInv
<1> QED  BY <1>1, DecodersFollowTheRuns, PTL

(* PyFrame::details and PyGenObjectBase::details show each variable that   *)
(* is set once, with its value, and no other, in every version from 3.9 to *)
(* 3.14 and for every code, and fail only at an empty cell.                *)
THEOREM DetailsAreRight == FramesSpec => []ShowsTheFrame
<1>1. FramesInv => ShowsTheFrame
  BY DEF FramesInv
<1> QED  BY <1>1, DecodersFollowTheRuns, PTL

(* The iterators of PyCodeObject's decoders never step over the end of the *)
(* table, for which their loops only look at equality.                     *)
THEOREM DecodersStayInTheTable == FramesSpec => []StaysInTheTable
BY InvStaysInTheTable, DecodersFollowTheRuns, PTL
=============================================================================
