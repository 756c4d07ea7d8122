------------------------------ MODULE Strings ------------------------------
(***************************************************************************)
(* The text that PyExt shows for a str, bytes or bytearray, against what   *)
(* CPython does to such an object on Windows, where a wchar_t has two      *)
(* bytes.  Characters are numbers; "old" is the str of CPython 3.3 to      *)
(* 3.11, "new" that of 3.12 and later.                                     *)
(***************************************************************************)
EXTENDS Integers, SequencesExt

CONSTANTS Texts,       \* values of str objects, sequences of code points
          ByteTexts,   \* initial values of bytes and bytearray objects
          MaxBytes,    \* length up to which a bytearray grows
          ExtentLimit  \* the bytes that one read can take, 2^32

CodePoints == {c \in Nat : c < 1114112}
Bytes == 0..255

ASSUME StringsAssumption ==
    /\ ExtentLimit \in Nat \ {0} /\ ExtentLimit % 4 = 0
    /\ \A t \in Texts : t \in Seq(CodePoints)
    /\ \A t \in ByteTexts : t \in Seq(Bytes)

VARIABLES class,   \* "str", "bytes" or "bytearray"
          layout,  \* "old" or "new"
          text,    \* the value, as the program sees it
          state,   \* PyASCIIObject.state
          wstr,    \* wstr of an old str, <<>> for NULL
          data,    \* the characters: where they are, their width, the units
          start    \* ob_start - ob_bytes

vars == <<class, layout, text, state, wstr, data, start>>

-----------------------------------------------------------------------------
(* CPython *)

Least(t, limit) == \A k \in DOMAIN t : t[k] < limit
WidthOf(t) == IF Least(t, 256) THEN 1 ELSE IF Least(t, 65536) THEN 2 ELSE 4

Surrogates(c) == IF c < 65536 THEN <<c>>
                 ELSE <<55296 + (c - 65536) \div 1024, 56320 + ((c - 65536) % 1024)>>
Utf16(t) == FlattenSeq([k \in DOMAIN t |-> Surrogates(t[k])])

NoState == [ready |-> TRUE, compact |-> TRUE, ascii |-> FALSE, kind |-> 0]
NoData == [place |-> "none", width |-> 1, units |-> <<>>]

(* A str that is ready; characters of two bytes are shared with wstr. *)
ReadyStr(old, t, compact) ==
    LET ascii == Least(t, 128)
    IN  /\ state = [ready |-> TRUE, compact |-> compact, ascii |-> ascii, kind |-> WidthOf(t)]
        /\ wstr = IF old /\ WidthOf(t) = 2 THEN t ELSE <<>>
        /\ data = [place |-> IF ~compact THEN "any" ELSE IF ascii THEN "ascii" ELSE "compact",
                   width |-> WidthOf(t), units |-> t]

(* PyUnicode_New, the constructor of a subclass, and PyUnicode_FromUnicode *)
(* of an extension module, which leaves the object to be made ready.       *)
NewStr == /\ class = "str" /\ layout \in {"old", "new"} /\ text \in Texts
          /\ \/ \E compact \in BOOLEAN : ReadyStr(layout = "old", text, compact)
             \/ /\ layout = "old" /\ text # <<>>
                /\ state = [ready |-> FALSE, compact |-> FALSE, ascii |-> FALSE, kind |-> 0]
                /\ wstr = Utf16(text) /\ data = NoData

(* PyBytes_FromStringAndSize, PyByteArray_FromStringAndSize *)
NewBytes == /\ class \in {"bytes", "bytearray"} /\ layout = "new" /\ text \in ByteTexts
            /\ state = NoState /\ wstr = <<>>
            /\ data = [place |-> IF class = "bytes" THEN "ob_sval" ELSE "ob_bytes", width |-> 1,
                       units |-> IF text = <<>> THEN <<>> ELSE Append(text, 0)]

Init == (NewStr \/ NewBytes) /\ start = 0

(* PyUnicode_READY *)
Ready == /\ class = "str" /\ ~state.ready
         /\ state' = [ready |-> TRUE, compact |-> FALSE, ascii |-> Least(text, 128),
                      kind |-> WidthOf(text)]
         /\ wstr' = IF WidthOf(text) = 2 THEN wstr ELSE <<>>
         /\ data' = [place |-> "any", width |-> WidthOf(text), units |-> text]
         /\ UNCHANGED <<class, layout, text, start>>

(* PyUnicode_AsUnicode keeps the text it makes. *)
AsUnicode == /\ class = "str" /\ layout = "old" /\ state.ready /\ wstr = <<>> /\ text # <<>>
             /\ wstr' = Utf16(text)
             /\ UNCHANGED <<class, layout, text, state, data, start>>

(* PyByteArray_Resize, after the start has been moved to a logical one:    *)
(* the buffer is kept when it is neither too small nor too large by half,  *)
(* and otherwise copied to one that is exact or a little larger.           *)
Resize(t, logical) ==
    LET alloc == Len(data.units)
        size == Len(t)
        new == IF size + logical + 1 <= alloc \/ size * 8 > alloc * 9 THEN size + 1
               ELSE size + size \div 8 + (IF size < 9 THEN 3 ELSE 6)
    IN  /\ text' = t
        /\ IF size + logical + 1 <= alloc /\ size >= alloc \div 2
           THEN /\ start' = logical
                /\ data' = [data EXCEPT !.units = [k \in 1..alloc |->
                      IF k \in logical + 1..logical + size THEN t[k - logical]
                      ELSE IF k = logical + size + 1 THEN 0 ELSE @[k]]]
           ELSE /\ start' = 0
                /\ data' = [data EXCEPT !.units = [k \in 1..new |-> IF k <= size THEN t[k] ELSE 0]]
        /\ UNCHANGED <<class, layout, state, wstr>>

(* del b[i:j], at the front by moving the start; b.append(c) *)
DeleteBytes ==
    /\ class = "bytearray"
    /\ \E i, j \in 0..Len(text) :
          /\ i < j
          /\ Resize(SubSeq(text, 1, i) \o SubSeq(text, j + 1, Len(text)),
                    IF i = 0 THEN start + j ELSE start)
AppendByte == /\ class = "bytearray" /\ Len(text) < MaxBytes
              /\ \E t \in ByteTexts : t # <<>> /\ Resize(Append(text, Head(t)), start)

Next == Ready \/ AsUnicode \/ DeleteBytes \/ AppendByte

Spec == Init /\ [][Next]_vars

(* length of a str, which is 0 until it is ready; ob_size of the others. *)
LengthField == IF class = "str" /\ ~state.ready THEN 0 ELSE Len(text)

-----------------------------------------------------------------------------
(* Where the text is: PyUnicodeObject, PyBaseStringObject, PyByteArrayObject *)

(* Wrong on purpose: the bit is not looked at. *)
AlwaysReady == TRUE

(* Since 3.12 there is no such bit. *)
IsReady == layout = "new" \/ state.ready

StringLength == IF class = "str" /\ ~IsReady THEN 0 ELSE LengthField

(* Wrong on purpose: a compact str is taken for one of ASCII characters. *)
InlinePlaceAscii == IF state.compact THEN "ascii" ELSE "any"

(* Behind the structure the object is up-cast to, or at data.any. *)
InlinePlace == IF state.compact THEN (IF state.ascii THEN "ascii" ELSE "compact") ELSE "any"

(* The place that is read, and the width of its elements. *)
StrSource == IF layout = "old" /\ wstr # <<>> THEN [place |-> "wstr", width |-> 2]
             ELSE [place |-> InlinePlace, width |-> state.kind]
BytesSource == [place |-> "ob_sval", width |-> 1]
ByteArraySource == [place |-> "ob_bytes", width |-> 1]

Source == CASE class = "str" -> StrSource
            [] class = "bytes" -> BytesSource
            [] class = "bytearray" -> ByteArraySource

At(place) == CASE place = "wstr" -> [place |-> place, width |-> 2, units |-> wstr]
               [] place = data.place -> data
               [] OTHER -> NoData

(* readArray: the number of bytes is narrowed, and what is not read is     *)
(* zero; only the number of elements is checked, of a bytearray not even   *)
(* that.                                                                   *)
Extent == (StringLength * Source.width) % ExtentLimit
Refused == class # "bytearray" /\ StringLength > ExtentLimit - 1
IsRead(k) == k * Source.width <= Extent

(* stringValue(): each element is clipped to a char, the low byte.  What   *)
(* is read beyond the block or at another width is anything, here -1.      *)
StringValue ==
    LET block == At(Source.place)
    IN  [k \in 1..StringLength |->
           IF ~IsRead(k) THEN 0
           ELSE IF Source.width = block.width /\ k <= Len(block.units) THEN block.units[k] % 256
           ELSE -1]

-----------------------------------------------------------------------------
(* How it is written: PyStringValue *)

Backslash == 92
Quote == 39
DoubleQuote == 34
LetterX == 120

(* \a \b \t \n \v \f \r and \\ \' \" *)
Named == {<<7, 97>>, <<8, 98>>, <<9, 116>>, <<10, 110>>, <<11, 118>>, <<12, 102>>, <<13, 114>>}
         \cup {<<c, c>> : c \in {Backslash, Quote, DoubleQuote}}

IsPrint(c) == c \in 32..126
Digit(d) == IF d < 10 THEN 48 + d ELSE 55 + d

(* The low digit is first. *)
CharToHex(c) == <<Digit(c % 16), Digit(c \div 16)>>

(* Wrong on purpose: quotes are left alone. *)
EscapeNoQuote(c) == IF IsPrint(c) /\ c # Backslash THEN <<c>>
                    ELSE <<Backslash, LetterX>> \o CharToHex(c)

EscapeCharacter(c) ==
    IF \E n \in Named : n[1] = c THEN <<Backslash, (CHOOSE n \in Named : n[1] = c)[2]>>
    ELSE IF ~IsPrint(c) THEN <<Backslash, LetterX>> \o CharToHex(c)
    ELSE <<c>>

(* With single quotes around it, a double quote needs no escape. *)
EscapeAndQuoteString(s) ==
    <<Quote>> \o FlattenSeq([k \in DOMAIN s |->
                     IF s[k] = DoubleQuote THEN <<s[k]>> ELSE EscapeCharacter(s[k])])
    \o <<Quote>>

(* repr(): the literal, or nothing but a remark or an error. *)
Shown == IF (class = "str" /\ ~IsReady) \/ Refused THEN <<>> ELSE EscapeAndQuoteString(StringValue)

-----------------------------------------------------------------------------

DigitValue(d) == IF d < 58 THEN d - 48 ELSE d - 55

(* Python's reader of a literal: the characters from a place on, and where *)
(* the literal ends, 0 if nowhere.  rest is what the places behind say.    *)
Broken == [chars |-> <<>>, end |-> 0]
Plus(c, rest) == [chars |-> <<c>> \o rest.chars, end |-> rest.end]
ReadAt(lit, i, rest) ==
    LET escaped == i < Len(lit) /\ lit[i] = Backslash
    IN  IF i > Len(lit) THEN Broken
        ELSE IF lit[i] = Quote THEN [chars |-> <<>>, end |-> i]
        ELSE IF escaped /\ lit[i + 1] = LetterX THEN
             IF i + 3 > Len(lit) THEN Broken
             ELSE Plus((16 * DigitValue(lit[i + 2])) + DigitValue(lit[i + 3]), rest[i + 4])
        ELSE IF escaped THEN Plus((CHOOSE n \in Named : n[2] = lit[i + 1])[1], rest[i + 2])
        ELSE Plus(lit[i], rest[i + 1])

(* Behind the first quote. *)
Reading(lit) ==
    LET From[i \in 1..Len(lit) + 4] == ReadAt(lit, i, From)
    IN  From[2]

(* The bytes of the text that an object has, those that one read takes: of *)
(* a text of 2^32 bytes or more the others are zero.                       *)
Taken == (Len(text) * Source.width) % ExtentLimit
TextBytes == [k \in DOMAIN text |-> IF k * Source.width <= Taken THEN text[k] % 256 ELSE 0]

(* Two cases in which other bytes are read: a str with characters beyond   *)
(* 16 bits that has a wstr, which is longer than the str, and a bytearray  *)
(* whose start has moved.                                                  *)
ReadShort == class = "str" /\ Len(wstr) > Len(text)
FrontDeleted == class = "bytearray" /\ start > 0

(* A byte written in hexadecimal, low digit first, is another one to       *)
(* Python, the one with its digits exchanged.                              *)
InHex(c) == ~IsPrint(c) /\ \A n \in Named : n[1] # c
ReadAs(c) == IF InHex(c) THEN (16 * (c % 16)) + (c \div 16) ELSE c

(* Wherever the text is kept and whatever the program has called before,   *)
(* what is shown is a literal that ends with its closing quote, and from   *)
(* which Python reads each byte that PyExt has read, in hexadecimal the    *)
(* one with the digits exchanged; and but for the two cases PyExt has read *)
(* the text.                                                               *)
ReadsBack ==
    IsReady /\ ~Refused =>
       /\ Reading(Shown) = [chars |-> [k \in DOMAIN StringValue |-> ReadAs(StringValue[k])],
                            end |-> Len(Shown)]
       /\ ~ReadShort /\ ~FrontDeleted => StringValue = TextBytes

(* What a str or bytes object keeps, and where PyExt looks for it.  A str  *)
(* that is ready has its characters at InlinePlace, in the width of its    *)
(* kind, and may have UTF-16 in wstr; a bytearray has its bytes from start *)
(* on, anywhere in its block.                                              *)
TypeOK ==
    /\ class \in {"str", "bytes", "bytearray"} /\ layout \in {"old", "new"}
    /\ text \in Seq(IF class = "str" THEN CodePoints ELSE Bytes)
    /\ start \in Nat
    /\ state \in [ready : BOOLEAN, compact : BOOLEAN, ascii : BOOLEAN, kind : {0, 1, 2, 4}]
StrInPlace ==
    class = "str" =>
       /\ layout = "new" => state.ready /\ wstr = <<>>
       /\ state.ready =>
             /\ state.kind = WidthOf(text)
             /\ data = [place |-> InlinePlace, width |-> state.kind, units |-> text]
             /\ wstr \in {<<>>, text, Utf16(text)}
       /\ ~state.ready => wstr = Utf16(text)
BytesInPlace ==
    class # "str" =>
       /\ data \in [place : {Source.place}, width : {1}, units : Seq(Bytes)]
       /\ class = "bytes" => start = 0
       /\ start + Len(text) <= Len(data.units)
       /\ \A k \in DOMAIN text : data.units[start + k] = text[k]
InductiveInv == TypeOK /\ StrInPlace /\ BytesInPlace

(* The elements read all lie in the block that CPython has put there, at   *)
(* its width: a layout taken for another, or a length for that of another  *)
(* block, would show what lies behind the object.                          *)
ReadsInBounds == \A k \in 1..StringLength : StringValue[k] >= 0

(* Only what is empty is shown as empty. *)
EmptyMeansEmpty == Shown = <<Quote, Quote>> => text = <<>>

(* README.rst:46, "Displays the reference count, type, and value of a      *)
(* Python object": a bytearray is shown with the bytes it has.             *)
ShowsItsBytes == class = "bytearray" => StringValue = text
=============================================================================
