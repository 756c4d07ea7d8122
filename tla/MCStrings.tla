----------------------------- MODULE MCStrings -----------------------------
EXTENDS Strings

(* A letter, the characters with an escape of their own, controls with     *)
(* equal and with different digits, a byte that is not printable, and      *)
(* characters of two and of four bytes, one of which clips to a quote.     *)
Characters == {97, 39, 34, 92, 10, 17, 27, 255, 353, 295, 128512}
MCTexts == UNION {[1..n -> Characters] : n \in 0..3}

MCByteTexts == UNION {[1..n -> {97, 39, 10}] : n \in 0..3}

(* One bytearray whose bytes all differ. *)
NoTexts == {}
Letters == {<<97, 98, 99, 100>>}
=============================================================================
