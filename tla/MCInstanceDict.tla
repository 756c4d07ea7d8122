--------------------------- MODULE MCInstanceDict ---------------------------
EXTENDS InstanceDict

CONSTANTS k1, k2, k3, v1, v2

(* Three attributes and room for two shared keys: the third does not fit.  *)
MCKeys == {k1, k2, k3}
MCValues == {v1, v2}
MCVersions == {"3.10", "3.11", "3.12", "3.13"}

(* A plain class with inline values or without, one with a dict at a fixed *)
(* place, and subclasses of variable-size types (items of 8 and of 4       *)
(* bytes, and int) with a dict at their end.                               *)
MCType(basic, item, offset, managed, inline) ==
    [basic |-> basic, item |-> item, dictoffset |-> offset, managed |-> managed,
     inline |-> inline, int |-> FALSE]
MCTypes == {MCType(16, 0, 0, TRUE, TRUE), MCType(40, 0, 0, TRUE, FALSE),
            MCType(32, 0, 24, FALSE, FALSE),
            MCType(32, 8, -8, FALSE, FALSE), MCType(36, 4, -8, FALSE, FALSE),
            [MCType(32, 4, -8, FALSE, FALSE) EXCEPT !.int = TRUE]}

(* The sign of ob_size was the sign of an int before 3.12. *)
MCSizes == {-3, -1, 0, 2}

(* Behind an object there is nothing yet, or something else. *)
MCBeyond == {"null", "junk"}

(* Read as a dict, that is a pair no instance has. *)
MCRubbish == <<<<Dummy, NULL>>>>
=============================================================================
