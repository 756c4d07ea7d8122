---------------------------- MODULE MCDictObject ----------------------------
EXTENDS DictObject, TLC

(* Two keys are enough for an order of insertion that differs from the     *)
(* order of the shared keys, a hole before a live entry, and a shared key  *)
(* without a value.                                                        *)
CONSTANTS k1, k2, v1, v2

MCKeys == {k1, k2}
MCValues == {v1, v2}

(* Exponents on both sides of each limit of the width of an index. *)
MCLog2Sizes == {1, 2, 7, 8, 15, 16}

Symmetric == Permutations(MCValues)
=============================================================================
