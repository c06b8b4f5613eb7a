------------------------------- MODULE MCApi -------------------------------
(* Requests over two admission slots, one science permit and a pool of two: a     *)
(* handler can meet a full service, a busy science and a queue behind work whose  *)
(* waiter has left.  The key may be charged twice.                                *)
EXTENDS Api, TLC

MCTasks == {"authenticate", "reserve", "science"} \X Calls
MCResolveFaults == {"boundary"}
MCNativeFaults == {"timeout"}
MCPreFaults == {<<413, "too_large">>}
MCHeaderFaults == {<<406, "unsupported_version">>}
MCBodyFaults == {<<408, "timeout">>}
Symmetry == Permutations(Calls)
=============================================================================
