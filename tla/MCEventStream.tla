--------------------------- MODULE MCEventStream ---------------------------
(***************************************************************************)
(* Instances of EventStream for TLC, over the same variables.  Part "kept" *)
(* joins from a stored cursor within retention and within the page cap,    *)
(* with a small buffer and window; part "gaps" adds every other fault:     *)
(* expiry, a cursor that cannot be loaded, a page cap of one.              *)
(***************************************************************************)
EXTENDS EventStream

VARIABLE part

Ga == INSTANCE EventStream WITH
  MaxPages <- 1, BufferCap <- 2, SeenCap <- 3, Stored <- {0, 1}, MaxFaults <- 2,
  Faults <- {"socket", "page", "handler", "save", "load", "expire", "crash"}

ASSUME Ga!StreamAssumption

StreamInit == (part = "kept" /\ Init) \/ (part = "gaps" /\ Ga!Init)

StreamNext ==
  /\ part' = part
  /\ (part = "kept" /\ Next) \/ (part = "gaps" /\ Ga!Next)

StreamSpec ==
  /\ StreamInit
  /\ [][StreamNext]_<<vars, part>>
  /\ WF_vars((part = "kept" /\ Consume) \/ (part = "gaps" /\ Ga!Consume))

-----------------------------------------------------------------------------
\* From a stored cursor nothing is lost, and no gift is left showing an older
\* event (NothingWrittenOff and CaughtUpShowsNewest).
KeptIsWhole == part = "kept" => NothingWrittenOff /\ CaughtUpShowsNewest
=============================================================================
