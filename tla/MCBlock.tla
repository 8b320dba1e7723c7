------------------------------ MODULE MCBlock -------------------------------
(***************************************************************************)
(* Instances of BlockControl for TLC.  Part "desk" has one route, pollers  *)
(* and the block state of the desk; part "routes" has a free and a paid    *)
(* route shared by a read and a write, and no pauses.  One tick stands for *)
(* about a minute and a half; the deadlines keep the order they have in    *)
(* the code: first rest < probe interval <= recovery hold < pause < notice *)
(* interval.                                                               *)
(***************************************************************************)
EXTENDS BlockControl

CONSTANTS stats, feed, buy

VARIABLE part

ShortRests  == <<1, 2>>
ShortPauses == <<3, 4>>

Ro == INSTANCE BlockControl WITH
  N <- 2, Gated <- {stats}, Writers <- {buy}, Probe <- stats, Retries <- 0,
  Rests <- <<1>>, Pauses <- <<0>>, ProbeEvery <- 0, Hold <- 1, NoticeEvery <- 0, FrugalEvery <- 1

ASSUME RoutesAssumption /\ CallersAssumption /\ TimesAssumption
ASSUME Ro!RoutesAssumption /\ Ro!CallersAssumption /\ Ro!TimesAssumption

BlockInit == (part = "desk" /\ Init) \/ (part = "routes" /\ Ro!Init)

\* On the routes nobody arms and the GRAM is not quoted: neither uses a route.
Quiet == ~rearmed' /\ at'["gram"] = "idle"

BlockNext ==
  /\ part' = part
  /\ (part = "desk" /\ Next) \/ (part = "routes" /\ Ro!Next /\ Quiet)

\* The fairness of FairSpec, for the desk.
BlockSpec ==
  /\ BlockInit
  /\ [][BlockNext]_<<vars, part>>
  /\ \A c \in Callers : WF_vars(part = "desk" /\ Call(c))
  /\ WF_vars(part = "desk" /\ Poll(Probe))
  /\ SF_vars(part = "desk" /\ Tick)

-----------------------------------------------------------------------------
\* When Tonnel answers for good, the desk returns to full rate.
DeskComesBack == part = "desk" => DeskRecovers
=============================================================================
