---------------------------- MODULE MCLineTable ----------------------------
EXTENDS Frames

Run(length, delta) == [length |-> length, delta |-> delta]

(* Lengths around the limit of a location entry (8 units) and beyond the   *)
(* limits of a byte; deltas of each form, with one and two signed bytes    *)
(* and one and two chunks of a varint.                                     *)
Runs == {Run(length, delta) : length \in {2, 16, 18, 300},
                             delta \in {NoLine, 0, 1, 2, 3, -1, 127, 128, -128, -200}}
Few == {Run(length, delta) : length \in {2, 18}, delta \in {NoLine, 2, -200}}

MCWatched == {<<Run(4, 0), Run(2, 3)>>}

MCPrograms == {<<r>> : r \in Runs} \cup {<<r, s>> : r \in {t \in Runs : t.delta \in {0, 3}}, s \in Runs}
              \cup {<<Run(4, 0), r, s>> : r \in Few, s \in Few} \cup MCWatched

(* One variable of each sort; programs of two lines that are seen to run.  *)
MCVariables == <<[name |-> "a", part |-> "argcell"], [name |-> "x", part |-> "local"],
                 [name |-> "c", part |-> "cell"], [name |-> "f", part |-> "free"]>>
=============================================================================
