--------------------------- MODULE MCSourceCache ---------------------------
(* Two names; the assignment of calls to names is given by the kind of run: four  *)
(* acquirers, or one acquirer, two recorders of one name and a packer.            *)
EXTENDS SourceCache, TLC

CONSTANTS first, second   \* the calls on each name

MCDigests == {"x", "y"}
MCDigestOf == [u \in Acquirers \cup Recorders |-> IF u \in first THEN "x" ELSE "y"]
=============================================================================
