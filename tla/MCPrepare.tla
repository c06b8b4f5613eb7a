----------------------------- MODULE MCPrepare -----------------------------
(* One name, which an acquirer and two recorders use; a packer archives it, and   *)
(* two preparers publish it and the archive compiled from it.                     *)
EXTENDS Prepare, TLC

MCDigests == {"x"}
MCDigestOf == [u \in Acquirers \cup Recorders |-> "x"]

\* Recorders and preparers are interchangeable, and only invariants are checked.
Interchangeable == Permutations(Recorders) \cup Permutations(Preparers)
=============================================================================
