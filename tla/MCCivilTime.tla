---------------------------- MODULE MCCivilTime ----------------------------
(* Every spaced zone with two changes, two or four units apart, and offsets in    *)
(* -1..1, and one zone with no change: offsets rise, fall, stay and return, and   *)
(* the second disturbed stretch may begin just where the first has closed.        *)
EXTENDS CivilTime

MCZones == {[changes |-> 2, at |-> [i \in 1..2 |-> IF i = 1 THEN 0 ELSE second],
             off |-> off] : second \in {2, 4}, off \in [0..2 -> -1..1]}
MCSpaced == {z \in MCZones : Spaced(z)}
             \cup {[changes |-> 0, at |-> [i \in {} |-> 0], off |-> [i \in {0} |-> 1]]}
MCLocals == -4..8
MCSupported == -3..7
MCInstants == -6..10
=============================================================================
