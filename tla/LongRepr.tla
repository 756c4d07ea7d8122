------------------------------ MODULE LongRepr ------------------------------
(***************************************************************************)
(* PyLongObject::repr (src/objects/PyLongObject.cpp): the decimal digits   *)
(* of an int of any size.  CPython keeps it as digits of base 2^SHIFT, the *)
(* lowest first; they are converted to digits of base 10^DECIMAL_SHIFT in  *)
(* a buffer of 64-bit words, the highest first.  SHIFT and DECIMAL_SHIFT   *)
(* are 30 and 9 or 15 and 4 in the source and smaller here.                *)
(***************************************************************************)
EXTENDS Integers, Sequences

CONSTANTS BASE,           \* 2^SHIFT
          DECIMAL_SHIFT,
          DECIMAL_BASE,   \* 10^DECIMAL_SHIFT, see TenTo
          WORD,           \* 2^64: more than fits the words of the buffer
          Ints            \* the objects

(* The powers of 10, as a function: the provers know nothing of "^".       *)
TenTo[n \in 0..DECIMAL_SHIFT] == IF n = 0 THEN 1 ELSE 10 * TenTo[n - 1]

ASSUME LongAssumption ==
    /\ BASE \in Nat /\ BASE > 1
    /\ DECIMAL_SHIFT \in Nat \ {0}
    /\ DECIMAL_BASE \in Nat /\ DECIMAL_BASE > 1
    /\ DECIMAL_BASE = TenTo[DECIMAL_SHIFT]
    /\ WORD \in Nat /\ DECIMAL_BASE * BASE <= WORD
    /\ Ints \subseteq [digits : Seq(0..(BASE - 1)) \ {<<>>}, size : Nat,
                       negative : BOOLEAN, bool : BOOLEAN, tagged : BOOLEAN]
    /\ \A o \in Ints : /\ o.size <= Len(o.digits)
                       /\ o.size > 0 => o.digits[o.size] # 0
                       /\ o.negative => o.size > 0
                       /\ o.bool => ~o.negative /\ o.size <= 1 /\ o.digits[1] = o.size

-----------------------------------------------------------------------------
(* An int in memory: ob_digit, which always has one digit, how many of     *)
(* them count (none for zero), the sign, whether it is a bool, and whether *)
(* size and sign are in the lv_tag of Python 3.12 or in ob_size.  CPython  *)
(* counts no zeros in front, but may have allocated more than it counts.   *)

ObSize(o) == IF o.negative THEN -o.size ELSE o.size

(* The size, and three bits of flags, of which two say 0 for a positive    *)
(* number, 1 for zero and 2 for a negative one.                            *)
LvTag(o) == 8 * o.size + (IF o.negative THEN 2 ELSE IF o.size = 0 THEN 1 ELSE 0)

-----------------------------------------------------------------------------

VARIABLES object,   \* the int
          pc,       \* the step of repr()
          sign, i,  \* the sign, and the digits that are left
          hi, k,    \* what is carried, and where to
          buff,     \* the number so far, in base DECIMAL_BASE
          out       \* the characters, the last one first

vars == <<object, pc, sign, i, hi, k, buff, out>>

digits == object.digits

Init == /\ object \in Ints
        /\ pc = "header" /\ sign = 0 /\ i = 0 /\ hi = 0 /\ k = 1
        /\ buff = <<>> /\ out = <<>>

(* A character is the digit it shows; the minus sign comes behind them.    *)
Minus == 10

(* do ... while (rem != 0)                                                 *)
Characters(n) ==
    LET Digits[rem \in 0..n] ==
            <<rem % 10>> \o (IF rem < 10 THEN <<>> ELSE Digits[rem \div 10])
    IN  Digits[n]

MinusIf(condition) == IF condition THEN <<Minus>> ELSE <<>>

(* sign = 1 - (tag & 3) *)
SignOfTag(tag) == 1 - (tag % 4)

(* "True" and "False" stand as 1 and 0. *)
ReadBool ==
    /\ pc = "header" /\ object.bool
    /\ out' = IF digits[1] = 1 THEN <<1>> ELSE <<0>>
    /\ pc' = "done"
    /\ UNCHANGED <<object, sign, i, hi, k, buff>>

(* A tag below 2 << 3: at most one digit. *)
IsCompact(tag) == tag < 16

(* to_string(sign * digit) *)
ReadCompact ==
    /\ pc = "header" /\ ~object.bool
    /\ object.tagged /\ IsCompact(LvTag(object))
    /\ sign' = SignOfTag(LvTag(object))
    /\ LET value == sign' * digits[1]
       IN  out' = Characters(IF value < 0 THEN -value ELSE value) \o MinusIf(value < 0)
    /\ pc' = "done"
    /\ UNCHANGED <<object, i, hi, k, buff>>

ReadHeader ==
    /\ pc = "header" /\ ~object.bool
    /\ ~(object.tagged /\ IsCompact(LvTag(object)))
    /\ sign' = IF object.tagged THEN SignOfTag(LvTag(object)) ELSE ObSize(object)
    /\ i' = IF object.tagged THEN LvTag(object) \div 8
            ELSE IF ObSize(object) < 0 THEN -ObSize(object) ELSE ObSize(object)
    /\ pc' = "digit"
    /\ UNCHANGED <<object, hi, k, buff, out>>

(* The next lower digit is to be added to BASE times the buffer. *)
NextDigit ==
    /\ pc = "digit" /\ i > 0
    /\ hi' = digits[i] /\ k' = 1 /\ i' = i - 1
    /\ pc' = "carry"
    /\ UNCHANGED <<object, sign, buff, out>>

(* buffDigit << SHIFT | hi: the bits of hi are below SHIFT, see HiFits. *)
Shifted == buff[k] * BASE + hi

(* The loop over the buffer. *)
Carry ==
    /\ pc = "carry" /\ k <= Len(buff)
    /\ hi' = Shifted \div DECIMAL_BASE
    /\ buff' = [buff EXCEPT ![k] = Shifted - (Shifted \div DECIMAL_BASE) * DECIMAL_BASE]
    /\ k' = k + 1
    /\ UNCHANGED <<object, pc, sign, i, out>>

(* Wrong on purpose: what is left over is pushed as one digit. *)
PushOnce ==
    /\ pc = "carry" /\ k > Len(buff) /\ hi # 0
    /\ buff' = Append(buff, hi)
    /\ hi' = 0 /\ k' = k + 1
    /\ UNCHANGED <<object, pc, sign, i, out>>

(* while (hi): what is left over becomes new digits. *)
Push ==
    /\ pc = "carry" /\ k > Len(buff) /\ hi # 0
    /\ buff' = Append(buff, hi % DECIMAL_BASE)
    /\ hi' = hi \div DECIMAL_BASE /\ k' = k + 1
    /\ UNCHANGED <<object, pc, sign, i, out>>

EndCarry ==
    /\ pc = "carry" /\ k > Len(buff) /\ hi = 0
    /\ pc' = "digit"
    /\ UNCHANGED <<object, sign, i, hi, k, buff, out>>

(* No digit at all is zero. *)
EndDigits ==
    /\ pc = "digit" /\ i = 0
    /\ buff' = IF buff = <<>> THEN <<0>> ELSE buff
    /\ k' = 1 /\ pc' = "write"
    /\ UNCHANGED <<object, sign, i, hi, out>>

(* Wrong on purpose: zeros inside the number get lost. *)
PaddedLess(n) == Characters(n)

(* Each digit of the buffer but the last is DECIMAL_SHIFT characters. *)
Padded(n) ==
    LET Rem[j \in 0..DECIMAL_SHIFT] == IF j = 0 THEN n ELSE Rem[j - 1] \div 10
    IN  [j \in 1..DECIMAL_SHIFT |-> Rem[j - 1] % 10]

WriteDigit ==
    /\ pc = "write" /\ k < Len(buff)
    /\ out' = out \o Padded(buff[k])
    /\ k' = k + 1
    /\ UNCHANGED <<object, pc, sign, i, hi, buff>>

(* The last one without zeros in front, and the sign. *)
WriteLast ==
    /\ pc = "write" /\ k = Len(buff)
    /\ out' = out \o Characters(buff[k]) \o MinusIf(sign < 0)
    /\ pc' = "done"
    /\ UNCHANGED <<object, sign, i, hi, k, buff>>

Done == pc = "done" /\ UNCHANGED vars

Next == \/ ReadBool \/ ReadCompact \/ ReadHeader
        \/ NextDigit \/ Carry \/ Push \/ EndCarry \/ EndDigits
        \/ WriteDigit \/ WriteLast \/ Done

Spec == Init /\ [][Next]_vars
-----------------------------------------------------------------------------

TypeOK == /\ object \in Ints
          /\ pc \in {"header", "digit", "carry", "write", "done"}
          /\ sign \in Int
          /\ i \in 0..object.size /\ k \in Nat \ {0}
          /\ hi \in Nat
          /\ buff \in Seq(0..(DECIMAL_BASE - 1))
          /\ out \in Seq(0..Minus)

(* The value of the first n digits, the lowest first, from each of them    *)
(* on, with top above them.                                                *)
Values(seq, n, base, top) ==
    LET From[j \in 1..(n + 1)] == IF j > n THEN top ELSE seq[j] + base * From[j + 1]
    IN  From
ValueOf(seq, base) == Values(seq, Len(seq), base, 0)[1]

(* The number an int stands for, from each of its digits on. *)
Number == Values(digits, object.size, BASE, 0)

Negative == out[Len(out)] = Minus
Shown == IF Negative THEN SubSeq(out, 1, Len(out) - 1) ELSE out

(* What is printed is the number, in base 10, with its sign and without    *)
(* zeros in front (PyLongObject::repr, both the compact and the long way). *)
PrintsTheNumber ==
    pc = "done" => /\ Negative <=> object.negative
                   /\ ValueOf(Shown, 10) = Number[1]
                   /\ Len(Shown) > 1 => Shown[Len(Shown)] # 0

(* hi leaves the bits of the shifted digit alone, so that "|" is the       *)
(* addition (PyLongObject.cpp:81).                                         *)
HiFits == hi < BASE

(* No word of the buffer overflows when it is shifted. *)
NoOverflow == pc = "carry" /\ k <= Len(buff) => Shifted < WORD

(* What the buffer is worth from each digit on. *)
Buffered == Values(buff, Len(buff), DECIMAL_BASE, 0)

(* The digits taken so far are worth what the buffer is; in the middle of  *)
(* a multiplication, what is carried stands on the part that is done, and  *)
(* the rest still is to be multiplied; what is written stands below the    *)
(* rest of the buffer (PyLongObject.cpp:77-104).                           *)
ValueKept ==
    /\ pc = "digit" => ValueOf(buff, DECIMAL_BASE) = Number[i + 1]
    /\ pc = "carry" => /\ k <= Len(buff) + 1
                       /\ Values(buff, k - 1, DECIMAL_BASE, hi + BASE * Buffered[k])[1]
                             = Number[i + 1]
    /\ pc = "write" => /\ k <= Len(buff) /\ out \in Seq(0..9)
                       /\ Values(out, Len(out), 10, Buffered[k])[1] = Number[1]

(* The highest digit of the buffer is not zero, except while its carry is  *)
(* on the way.                                                             *)
NoZeroInFront ==
    /\ pc \in {"digit", "carry"} /\ buff # <<>> /\ (pc = "carry" => k <= Len(buff) \/ hi = 0)
          => buff[Len(buff)] # 0
    /\ pc = "write" /\ Len(buff) > 1 => buff[Len(buff)] # 0

(* What has not begun yet, and the sign once it is known. *)
NotYet == /\ pc = "header" => buff = <<>> /\ sign = 0
          /\ pc \in {"header", "digit", "carry"} \/ (pc = "write" /\ k = 1) => out = <<>>
          /\ pc # "header" => (sign < 0 <=> object.negative)

(* The conversion stays within its types: every digit of the buffer is     *)
(* less than DECIMAL_BASE, so that Padded loses nothing of it, and the     *)
(* next shift fits a word again; and at each of its steps the number is    *)
(* still there (PyLongObject.cpp:77-104).                                  *)
InductiveInv == /\ TypeOK /\ HiFits /\ NoOverflow
                /\ ValueKept /\ NoZeroInFront /\ NotYet
=============================================================================
