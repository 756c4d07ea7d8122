----------------------------- MODULE MCLongRepr -----------------------------
EXTENDS LongRepr

(* Numbers of no, one, two and three digits of base 128, around the powers *)
(* of 10, 100 and 128.                                                     *)
Some == (0..20) \cup (95..130) \cup (9995..10005) \cup (12797..12801)
        \cup (16382..16385) \cup (999997..1000003) \cup (2097148..2097151)

DigitsIn(n, base) ==
    LET Digits[rem \in 0..n] ==
            IF rem = 0 THEN <<>> ELSE <<rem % base>> \o Digits[rem \div base]
    IN  Digits[n]

AnInt(n, negative, bool, tagged) ==
    [digits |-> IF n = 0 THEN <<0>> ELSE DigitsIn(n, BASE), size |-> Len(DigitsIn(n, BASE)),
     negative |-> negative, bool |-> bool, tagged |-> tagged]

(* With a digit that is allocated and not counted. *)
Larger(o) == [o EXCEPT !.digits = @ \o <<BASE - 1>>]

MCInts == {AnInt(n, FALSE, FALSE, tagged) : n \in Some, tagged \in BOOLEAN}
          \cup {Larger(AnInt(n, FALSE, FALSE, tagged)) : n \in Some, tagged \in BOOLEAN}
          \cup {AnInt(n, TRUE, FALSE, tagged) : n \in Some \ {0}, tagged \in BOOLEAN}
          \cup {AnInt(n, FALSE, TRUE, tagged) : n \in 0..1, tagged \in BOOLEAN}
=============================================================================
