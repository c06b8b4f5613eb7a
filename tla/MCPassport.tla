----------------------------- MODULE MCPassport -----------------------------
(* A calendar of twelve days with one day before, between and after the dates at *)
(* which something changes, two leap days of which one ends 2016, and a circle   *)
(* of six units of four parts each.                                              *)
EXTENDS Passport

MCLeapDays == {4, 6}
MCOffsets == -1..1
MCLongitudes == {-12, -11, 2, 10, 11, 12}
MCMoons == {0, 1, 2, 3, 6, 21, 22, 23}
MCAyanamshas == {0, 2, 9, 22, 23}
=============================================================================
