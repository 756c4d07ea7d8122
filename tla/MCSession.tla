----------------------------- MODULE MCSession -----------------------------
(***************************************************************************)
(* Sessions over three targets and three directories.  In Apart no         *)
(* directory's text occurs in another's; in Nested the text of d1 does in  *)
(* that of d2, as C:\Python3 does in C:\Python39.                          *)
(***************************************************************************)
EXTENDS Session

CONSTANTS d1, d2, d3, e1, e2

MCDirs == {d1, d2, d3}
MCExprs == {e1, e2}
Apart == {<<d, d>> : d \in MCDirs}
Nested == Apart \cup {<<d1, d2>>}

Module(python, dir, pdb) == [python |-> python, dir |-> dir, pdb |-> pdb]
When(a, b) == [e \in MCExprs |-> IF e = e1 THEN a ELSE b]
MCTargets ==
    {[modules |-> <<Module(FALSE, d3, TRUE), Module(TRUE, d1, TRUE), Module(TRUE, d1, TRUE)>>,
      served |-> FALSE, evaluates |-> When("symbols", "never")],
     [modules |-> <<Module(TRUE, d2, TRUE), Module(TRUE, d3, FALSE)>>,
      served |-> TRUE, evaluates |-> When("never", "symbols")],
     [modules |-> <<Module(TRUE, d3, FALSE)>>,
      served |-> FALSE, evaluates |-> When("always", "symbols")],
     [modules |-> <<Module(TRUE, d1, TRUE), Module(TRUE, d2, TRUE)>>,
      served |-> TRUE, evaluates |-> When("symbols", "symbols")]}
UserPath == <<d3>>
NestedPath == <<d2>>
=============================================================================
