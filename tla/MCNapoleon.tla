----------------------------- MODULE MCNapoleon -----------------------------
(***************************************************************************)
(* Two adjutants, a map of two rows, three reports on a stack of two.  One *)
(* division reports from either row, two others from one row each, so that *)
(* the first one can meet both; the register has room for two.             *)
(***************************************************************************)
EXTENDS Napoleon

CONSTANTS d1, d2, d3

MCDivisions == {d1, d2, d3}
MCContents  == [name : {d1}, x : 1..Height, y : 1..Width]
               \union {[name |-> d2, x |-> 2, y |-> 1], [name |-> d3, x |-> 1, y |-> 1]}
=============================================================================
