----------------------------- MODULE LineTable -----------------------------
(***************************************************************************)
(* How PyCodeObject (src/objects/PyCodeObject.cpp) turns the position of a *)
(* frame into a line number.  CPython compresses the lines of a code       *)
(* object into a table of bytes, in three formats:                         *)
(*   "lnotab"     Python <= 3.9, pairs of byte increments;                 *)
(*   "linetable"  Python 3.10, pairs of a length and a signed delta;       *)
(*   "locations"  Python >= 3.11, entries of variable size;                *)
(* and "none" when the code object has no table that can be read.  The     *)
(* loops of the decoders are steps here; Frames calls them.                *)
(***************************************************************************)
EXTENDS Integers, Sequences, SequencesExt

CONSTANTS Programs,    \* the lines of code objects, see Line
          NoLine,      \* the delta of instructions without a line
          FirstLine    \* co_firstlineno

(* A run of instructions: its length in bytes, and how its line differs    *)
(* from the one before.                                                    *)
Jumps == -2000..2000
LineRun == [length : {2 * n : n \in 1..1000}, delta : Jumps \cup {NoLine}]

ASSUME LineAssumption == /\ NoLine \notin Jumps
                         /\ \A p \in Programs : p \in Seq(LineRun) \ {<<>>}
                         /\ FirstLine \in Nat

-----------------------------------------------------------------------------
(* CPython's compilers of the tables. *)

Delta(run) == IF run.delta = NoLine THEN 0 ELSE run.delta
Byte(n) == n % 256

(* A length in steps of at most max, and a delta in steps of a signed byte. *)
Chunks(n, max) == [k \in 1..(n \div max) |-> max] \o <<n % max>>
Deltas(d, down, up) == IF d > up THEN Chunks(d, up)
                       ELSE IF d < -down THEN [k \in 1..((-d) \div down) |-> -down]
                                              \o <<-((-d) % down)>>
                       ELSE <<d>>

(* lnotab: the first bytes of a pair lead to where the line changes. *)
LnotabPairs(p, k) ==
    LET ahead == Chunks(p[k].length, 255)
        lines == Deltas(Delta(p[k + 1]), 128, 127)
        last == Len(ahead)
    IN  [j \in 1..(last + Len(lines) - 1) |->
           <<IF j <= last THEN ahead[j] ELSE 0,
             IF j < last THEN 0 ELSE Byte(lines[j - last + 1])>>]
Lnotab(p) == [k \in 1..(Len(p) - 1) |-> LnotabPairs(p, k)]

(* linetable: the line changes before the bytes it counts. *)
LinetablePairs(p, k) ==
    LET lengths == Chunks(p[k].length, 254)
        lines == Deltas(Delta(p[k]), 127, 127)
        first == Len(lines)
    IN  [j \in 1..(first + Len(lengths) - 1) |->
           <<IF j < first THEN 0 ELSE lengths[j - first + 1],
             IF p[k].delta = NoLine THEN Byte(-128)
             ELSE IF j <= first THEN Byte(lines[j]) ELSE 0>>]
Linetable(p) == [k \in DOMAIN p |-> LinetablePairs(p, k)]

Varint(n) == IF n < 64 THEN <<n>> ELSE <<64 + (n % 64), n \div 64>>
Svarint(n) == Varint(IF n < 0 THEN 2 * (-n) + 1 ELSE 2 * n)

(* locations: an entry for at most 8 code units.  full says that columns   *)
(* and end line are there and that they do not fit a shorter form.         *)
Location(units, delta, full) ==
    LET head(code) == 128 + 8 * code + (units - 1)
    IN  CASE delta = NoLine -> <<head(15)>>
          [] delta # NoLine /\ full ->
               <<head(14)>> \o Svarint(delta) \o Varint(1) \o Varint(70) \o Varint(150)
          [] delta = 0 /\ ~full -> <<head(5), 130>>
          [] delta \in 1..2 /\ ~full -> <<head(10 + delta), 3, 200>>
          [] OTHER -> <<head(13)>> \o Svarint(delta)

LocationEntries(p, k, full) ==
    LET units == p[k].length \div 2
        entries == (units + 7) \div 8
    IN  [j \in 1..entries |->
           Location(IF j < entries THEN 8 ELSE units - 8 * (entries - 1),
                    IF p[k].delta = NoLine THEN NoLine
                    ELSE IF j = 1 THEN p[k].delta ELSE 0, full)]
Locations(p, full) == [k \in DOMAIN p |-> LocationEntries(p, k, full)]

(* The entries of each run, and the bytes of all. *)
Entries(form, p, full) == CASE form = "lnotab" -> Lnotab(p)
                            [] form = "linetable" -> Linetable(p)
                            [] form = "locations" -> Locations(p, full)
Joined(entries) == FlattenSeq(FlattenSeq(entries))

(* What the first k of some numbers are together.                          *)
Totals(numbers) ==
    LET total[k \in 0..Len(numbers)] == IF k = 0 THEN 0 ELSE total[k - 1] + numbers[k]
    IN  total

(* The line of an instruction: where there is none, the one before.        *)
EndOf(p, k) == Totals([j \in DOMAIN p |-> p[j].length])[k]
LineAt(p, k) == FirstLine + Totals([j \in DOMAIN p |-> Delta(p[j])])[k]
LineOf(p, offset) == LineAt(p, CHOOSE k \in DOMAIN p : /\ offset < EndOf(p, k)
                                                       /\ EndOf(p, k - 1) <= offset)
-----------------------------------------------------------------------------

VARIABLES program,      \* the lines the program has
          format,
          table,        \* the bytes of the table
          instruction,  \* the offset of the instruction, in bytes
          lasti,        \* how the frame says it
          pc,           \* "begin", "loop" or "done"
          it,           \* the next byte
          addr, line    \* what has been decoded

lineVars == <<program, format, table, instruction, lasti, pc, it, addr, line>>

(* The first instruction of each run and the last one before it. *)
Instructions(p) == {EndOf(p, k - 1) : k \in DOMAIN p} \cup {EndOf(p, k) - 2 : k \in DOMAIN p}

LineInit ==
    /\ program \in Programs
    /\ \/ /\ format \in {"lnotab", "linetable", "locations"}
          /\ \E full \in BOOLEAN : table = Joined(Entries(format, program, full))
          /\ format = "lnotab" => /\ program[1].delta = 0
                                  /\ \A k \in DOMAIN program : program[k].delta # NoLine
       \/ format = "none" /\ table = <<>>
    /\ instruction \in Instructions(program)
    /\ lasti = IF format = "linetable" THEN instruction \div 2 ELSE instruction
    /\ pc = "begin" /\ it = 1 /\ addr = 0 /\ line = FirstLine

(* Since Python 3.10 f_lasti counts code units; the difference of addresses *)
(* that 3.11 needs is in bytes again.                                      *)
Offset == IF format = "linetable" THEN lasti * 2 ELSE lasti

(* lineNumberFromInstructionOffset and lineNumberFromPrevInstruction: an   *)
(* empty table leaves the first line.                                      *)
Begin ==
    /\ pc = "begin"
    /\ pc' = IF table = <<>> THEN "done" ELSE "loop"
    /\ UNCHANGED <<program, format, table, instruction, lasti, it, addr, line>>

(* A loop ends at the end of the table; those that read pairs also before  *)
(* a last byte that has no other, which no compiled table has.             *)
Stops == {Len(table) + 1} \cup IF format = "locations" THEN {} ELSE {Len(table)}
Looping == pc = "loop" /\ it \notin Stops

(* Wrong on purpose: the increment of the line is taken as unsigned. *)
OldPairUnsigned ==
    /\ Looping /\ format = "lnotab"
    /\ addr' = addr + table[it]
    /\ IF addr' > Offset
       THEN pc' = "done" /\ UNCHANGED line
       ELSE line' = line + table[it + 1] /\ UNCHANGED pc
    /\ it' = it + 2
    /\ UNCHANGED <<program, format, table, instruction, lasti>>

(* One round of lineNumberFromInstructionOffsetOld. *)
OldPair ==
    /\ Looping /\ format = "lnotab"
    /\ addr' = addr + table[it]
    /\ IF addr' > Offset
       THEN pc' = "done" /\ UNCHANGED line
       ELSE /\ line' = line + (table[it + 1] - IF table[it + 1] >= 128 THEN 256 ELSE 0)
            /\ UNCHANGED pc
    /\ it' = it + 2
    /\ UNCHANGED <<program, format, table, instruction, lasti>>

(* Wrong on purpose: the marker of a missing line is taken as a delta. *)
NewDeltaPlain(b) == IF b >= 128 THEN b - 256 ELSE b

(* static_cast<int8_t>, and -128 for no line. *)
NewDelta(b) == IF b = 128 THEN 0 ELSE IF b > 128 THEN b - 256 ELSE b

(* One round of lineNumberFromInstructionOffsetNew. *)
NewPair ==
    /\ Looping /\ format = "linetable"
    /\ addr' = addr + table[it]
    /\ line' = line + NewDelta(table[it + 1])
    /\ pc' = IF addr' > Offset THEN "done" ELSE pc
    /\ it' = it + 2
    /\ UNCHANGED <<program, format, table, instruction, lasti>>

(* readVarint at a place: its value and the place behind it. *)
ReadVarint(at) ==
    LET end == CHOOSE k \in at..(at + 5) : /\ (table[k] \div 64) % 2 = 0
                                           /\ \A j \in at..(k - 1) : (table[j] \div 64) % 2 = 1
        value[k \in at..end] ==
            (table[k] % 64) + (IF k = end THEN 0 ELSE 64 * value[k + 1])
    IN  [value |-> value[at], behind |-> end + 1]

(* readSvarint: the sign is in the lowest bit. *)
Signed(n) == IF n % 2 = 1 THEN -(n \div 2) ELSE n \div 2

(* Wrong on purpose: one of the three numbers of the long form is forgotten. *)
BehindLongFormShort(at) ==
    ReadVarint(ReadVarint(at).behind).behind

(* The end line, the start column and the end column are read and dropped. *)
BehindLongForm(at) ==
    ReadVarint(ReadVarint(ReadVarint(at).behind).behind).behind

(* One round of lineNumberFromPrevInstruction. *)
LocationEntry ==
    /\ Looping /\ format = "locations"
    /\ LET code == (table[it] \div 8) % 16
           units == (table[it] % 8) + 1
       IN  /\ addr' = addr + 2 * units
           /\ CASE code <= 9 -> it' = it + 2 /\ line' = line
                [] code \in 10..12 -> it' = it + 3 /\ line' = line + (code - 10)
                [] code = 13 -> LET start == ReadVarint(it + 1)
                                IN  it' = start.behind /\ line' = line + Signed(start.value)
                [] code = 14 -> LET start == ReadVarint(it + 1)
                                IN  /\ it' = BehindLongForm(start.behind)
                                    /\ line' = line + Signed(start.value)
                [] code = 15 -> it' = it + 1 /\ line' = line
    /\ pc' = IF addr' > Offset THEN "done" ELSE pc
    /\ UNCHANGED <<program, format, table, instruction, lasti>>

(* The line is what has been decoded so far. *)
End == /\ pc = "loop" /\ it \in Stops
       /\ pc' = "done" /\ it' = Len(table) + 1
       /\ UNCHANGED <<program, format, table, instruction, lasti, addr, line>>

-----------------------------------------------------------------------------

(* What the first n steps of a delta that is split come to. *)
Partial(d, min, max, n) == IF n <= 0 THEN 0
                           ELSE IF d > max * n THEN max * n
                           ELSE IF d < min * n THEN min * n
                           ELSE d

(* The bytes that the first j entries of run k count, and by how much they *)
(* change the line: in lnotab to that of the next run.                     *)
BytesOf(p, k, j) ==
    CASE format = "lnotab" -> Partial(p[k].length, 0, 255, j)
      [] format = "linetable" ->
           Partial(p[k].length, 0, 254, j - (Len(Deltas(Delta(p[k]), 127, 127)) - 1))
      [] format = "locations" -> Partial(p[k].length, 0, 16, j)
DeltaOf(p, k, j) ==
    CASE format = "lnotab" ->
           Partial(Delta(p[k + 1]), -128, 127, j - (Len(Chunks(p[k].length, 255)) - 1))
      [] format = "linetable" -> Partial(Delta(p[k]), -127, 127, j)
      [] format = "locations" -> Partial(Delta(p[k]), -2000, 2000, j)
StartLine(p, k) == IF format = "lnotab" THEN LineAt(p, k) ELSE LineAt(p, k - 1)

(* Where the first i entries of the table end.                             *)
Lengths(seqs) == [k \in DOMAIN seqs |-> Len(seqs[k])]
Place(entries, i) == Totals(Lengths(FlattenSeq(entries)))[i]
AtAnEntry(entries) == \E i \in 0..Len(FlattenSeq(entries)) : it = Place(entries, i) + 1

(* The decoder has read the first j entries of run k and all before.       *)
HasRead(entries, k, j) ==
    /\ it = Place(entries, Totals(Lengths(entries))[k - 1] + j) + 1
    /\ addr = EndOf(program, k - 1) + BytesOf(program, k, j)
    /\ line = StartLine(program, k) + DeltaOf(program, k, j)

(* The decoders move an iterator and only look for its being equal to the  *)
(* end: it must never step over the end.                                   *)
StaysInTheTable == it \in 1..(Len(table) + 1)
=============================================================================
