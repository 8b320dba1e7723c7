------------------------------- MODULE Relist -------------------------------
(***************************************************************************)
(* Putting an owned gift on sale (internal/exec/executor.go, ListAt and    *)
(* what calls it in internal/app).  Tonnel has no reprice call: an active  *)
(* ask is withdrawn and a new one placed, each a request that may be       *)
(* throttled, with other callers in between.  One tick is ten seconds.     *)
(***************************************************************************)
EXTENDS Naturals, Sequences

CONSTANTS
  Callers,    \* goroutines inside ListAt: /relist taps, the undercut watcher
  Asks,       \* asks a valuation may come to
  Floor,      \* entry * (1 + MinMarkup)
  Quiet,      \* relistQuiet
  Waits,      \* relistBackoff
  MaxTime,    \* bound on the clock
  MaxFaults   \* bound on throttled, refused and cancelled requests

RelistAssumption ==
  /\ Asks \subseteq Nat \ {0} /\ Floor \in Nat /\ Quiet \in Nat
  /\ Waits \in Seq(Nat \ {0}) /\ MaxTime \in Nat /\ MaxFaults \in Nat

VARIABLES
  now,
  ask,        \* what the marketplace asks for the gift, 0 when off sale
  row,        \* list_price of the position
  relisting,  \* Executor.relisting of this gift
  call,       \* ListAt of each goroutine
  told,       \* the operator was told the gift is off the market
  met,        \* two reprices of the gift have overlapped
  faults

vars == <<now, ask, row, relisting, call, told, met, faults>>

Idle == [at |-> "idle", target |-> 0, now |-> 0, tries |-> 0, until |-> 0]

\* Between the claim and its release.
InFlight(c) == call[c].at \notin {"idle", "priced"}

Goto(c, at) == call' = [call EXCEPT ![c].at = at]

\* Every way out of ListAt stamps the window again.
Release(c) == /\ call' = [call EXCEPT ![c] = Idle]
              /\ relisting' = now

Fault == faults < MaxFaults /\ faults' = faults + 1

-----------------------------------------------------------------------------

TimePasses ==
  /\ now < MaxTime /\ now' = now + 1
  /\ UNCHANGED <<ask, row, relisting, call, told, met, faults>>

\* The caller takes the time, then prices the gift off books and sales.
Price(c) ==
  /\ call[c].at = "idle"
  /\ \E t \in Asks : call' = [call EXCEPT ![c] = [Idle EXCEPT !.at = "priced", !.target = t, !.now = now]]
  /\ UNCHANGED <<now, ask, row, relisting, told, met, faults>>

Busy(c) == relisting > 0 /\ call[c].now < relisting + Quiet

\* Below cost plus markup, or busy: nothing is asked of the marketplace.
TurnDown(c) ==
  /\ call[c].at = "priced"
  /\ call[c].target < Floor \/ Busy(c)
  /\ call' = [call EXCEPT ![c] = Idle]
  /\ UNCHANGED <<now, ask, row, relisting, told, met, faults>>

Claim(c) ==
  /\ call[c].at = "priced" /\ call[c].target >= Floor /\ ~Busy(c)
  /\ relisting' = call[c].now
  /\ met' = (met \/ \E d \in Callers : InFlight(d))
  /\ Goto(c, "list")
  /\ UNCHANGED <<now, ask, row, told, faults>>

\* ListForSale looks among the gifts that are not on sale.
ListForSale(c) ==
  /\ call[c].at \in {"list", "again"} /\ ask = 0
  /\ ask' = call[c].target
  /\ Goto(c, "record")
  /\ UNCHANGED <<now, row, relisting, told, met, faults>>

\* "Gift not found": there is an old ask to withdraw first.
NotListable(c) ==
  /\ call[c].at = "list" /\ ask > 0
  /\ Goto(c, "withdraw")
  /\ UNCHANGED <<now, ask, row, relisting, told, met, faults>>

\* Any other answer to the first attempt leaves the market as it was.
ListFails(c) ==
  /\ call[c].at = "list" /\ Fault
  /\ Release(c)
  /\ UNCHANGED <<now, ask, row, told, met>>

Withdraw(c) ==
  /\ call[c].at = "withdraw" /\ ask > 0
  /\ ask' = 0 /\ Goto(c, "again")
  /\ UNCHANGED <<now, row, relisting, told, met, faults>>

\* Refused, throttled, or there is nothing to withdraw any more.
WithdrawFails(c) ==
  /\ call[c].at = "withdraw"
  /\ (ask = 0 /\ UNCHANGED faults) \/ Fault
  /\ Release(c)
  /\ UNCHANGED <<now, ask, row, told, met>>

\* relistWithRetry waits out a throttle, four times at most.
Throttled(c) ==
  /\ call[c].at = "again" /\ ask = 0 /\ call[c].tries < Len(Waits) /\ Fault
  /\ call' = [call EXCEPT ![c].at = "wait", ![c].tries = @ + 1,
                          ![c].until = now + Waits[call[c].tries + 1]]
  /\ UNCHANGED <<now, ask, row, relisting, told, met>>

WaitEnds(c) ==
  /\ call[c].at = "wait" /\ (now >= call[c].until \/ now = MaxTime)
  /\ Goto(c, "again")
  /\ UNCHANGED <<now, ask, row, relisting, told, met, faults>>

\* Slip: giving up looks like any other failed listing.
Slip_OffMarket(c) ==
  /\ \/ call[c].at = "again" /\ ((ask > 0 /\ UNCHANGED faults) \/ Fault)
     \/ call[c].at = "wait" /\ Fault
  /\ Release(c)
  /\ UNCHANGED <<now, ask, row, told, met>>

\* A refusal that is not temporary, too many of them, or a context that ends
\* while waiting: the operator is asked for hands.
OffMarket(c) ==
  /\ \/ call[c].at = "again" /\ ((ask > 0 /\ UNCHANGED faults) \/ Fault)
     \/ call[c].at = "wait" /\ Fault
  /\ told' = TRUE
  /\ Release(c)
  /\ UNCHANGED <<now, ask, row, met>>

\* SetPositionListed; the book is invalidated with it.
Record(c) ==
  /\ call[c].at = "record"
  /\ row' = call[c].target
  /\ Release(c)
  /\ UNCHANGED <<now, ask, told, met, faults>>

Init ==
  /\ now = 1 /\ ask \in {0} \cup {a \in Asks : a >= Floor} /\ row = ask
  /\ relisting = 0 /\ call = [c \in Callers |-> Idle]
  /\ told = FALSE /\ met = FALSE /\ faults = 0

Step(c) ==
  \/ Price(c) \/ TurnDown(c) \/ Claim(c) \/ ListForSale(c) \/ NotListable(c) \/ ListFails(c)
  \/ Withdraw(c) \/ WithdrawFails(c) \/ Throttled(c) \/ WaitEnds(c) \/ OffMarket(c) \/ Record(c)

Next == TimePasses \/ \E c \in Callers : Step(c)

Spec == Init /\ [][Next]_vars

-----------------------------------------------------------------------------
(* Properties *)

TypeOK ==
  /\ now \in 1..MaxTime /\ ask \in Asks \cup {0} /\ row \in Asks \cup {0}
  /\ relisting \in 0..now /\ faults \in 0..MaxFaults
  /\ \A c \in Callers : call[c].tries \in 0..Len(Waits)

Quiescent == \A c \in Callers : ~InFlight(c)

\* A gift that was on sale and is not any more is one the operator was told of:
\* whoever withdraws, and however the attempts behind it interleave and fail.
OffMarketIsTold == Quiescent /\ row > 0 /\ ask = 0 => told

\* What is written is what is asked, unless two reprices have overlapped.
RowIsAsk == Quiescent /\ ~met /\ ~told => row = ask

\* The ask on the market is one the desk or its operator knows of: both.
AskIsKnown == RowIsAsk /\ OffMarketIsTold

\* "One gift, one reprice at a time" (executor.go).
OneAtATime == \A c, d \in Callers : InFlight(c) /\ InFlight(d) => c = d
=============================================================================
