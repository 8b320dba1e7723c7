----------------------------- MODULE MCSignals ------------------------------
(***************************************************************************)
(* From a listing on the market to a tap on its card: Intake, and Card in  *)
(* variables of its own.  A behaviour runs one of them; what joins them is *)
(* a signal, which Card takes as given.                                    *)
(***************************************************************************)
EXTENDS Intake

CONSTANTS gift1, gift2, model1, model2

\* Of Card.
CONSTANTS Taps, Asks, SigPrice, LotMoves

VARIABLES part, keyboard, tooOld, task, told, lotAsk, permit, claimed, paid, muted, lotMoves

deal == <<keyboard, tooOld, task, told, lotAsk, permit, claimed, paid, muted, lotMoves>>

TwoModels == [g \in Gifts |-> IF g = gift1 THEN model1 ELSE model2]

Ca == INSTANCE Card WITH MaxMoves <- LotMoves, ask <- lotAsk, moves <- lotMoves

-----------------------------------------------------------------------------
SignalsInit ==
  /\ part \in {"intake", "card"}
  /\ Init /\ Ca!Init
  /\ ranked \in {<<>>, <<model1, model2>>}    \* the other orders by Rebuild
  /\ part = "card" => ranked = <<>>

SignalsNext ==
  /\ part' = part
  /\ \/ part = "intake" /\ Next /\ UNCHANGED deal
     \/ part = "card" /\ Ca!Next /\ UNCHANGED vars

SignalsSpec ==
  /\ SignalsInit
  /\ [][SignalsNext]_<<vars, part, deal>>
  /\ WF_vars(part = "intake" /\ SweepStep)
  /\ WF_deal(part = "card" /\ Ca!OtherDone)
  /\ \A h \in Taps : WF_deal(part = "card" /\ Ca!Handler(h))

-----------------------------------------------------------------------------
\* A tap spends at most what the card shows (Card).
PaidWithinCard == Ca!PaidWithinCard

\* Every tap and command is answered in the chat (Card).
EveryTapAnswered == Ca!EveryTapAnswered
=============================================================================
