------------------------------ MODULE History -------------------------------
(***************************************************************************)
(* The trade history every valuation rests on (internal/app/backfill.go,   *)
(* pollSales, nextCollections and Client.TradeHistory): a backfill that    *)
(* walks the collections once, a rotation that re-reads a few of them each *)
(* round over a short window, and what the desk concludes from the table:  *)
(* its coverage, and whether it is warm enough to buy unattended.          *)
(* The event stream also stores trades; this is the desk without it.       *)
(***************************************************************************)
EXTENDS Naturals, Sequences, FiniteSets, FiniteSetsExt, Functions

CONSTANTS
  Collections,  \* 1..n, in the order of their names
  Batch,        \* SalesBatch
  Window,       \* SalesWindow, in rounds of the poller
  Lookback,     \* LookbackDays
  Attributes,   \* AttributeLookbackDays
  Epoch,        \* the clock at the start of the model
  MaxTime,      \* bound on the clock
  MaxTrades,    \* bound on the trades made while the desk watches
  MaxFaults     \* bound on failed requests and restarts

\* Rounds the rotation needs to come around.
Cycle == (Cardinality(Collections) - 1) \div Batch + 1

\* SalesWindow covers a full rotation, and one more for everything that may fail.
HistoryAssumption ==
  /\ IsFiniteSet(Collections) /\ Collections # {} /\ Collections = 1..Cardinality(Collections)
  /\ Batch \in Nat \ {0} /\ Epoch \in Nat /\ MaxFaults \in Nat
  /\ Lookback \in Nat \ {0} /\ Attributes \in Nat
  /\ Window \in Nat /\ Window >= (MaxFaults + 1) * Cycle

VARIABLES
  now,
  traded,    \* the marketplace's archive: collection and time
  sales,     \* the table
  snapshot,  \* a.collections
  names, idx,   \* a.rotation
  polled,    \* pollSales ran this round
  fill,      \* Backfill: collections still to do, and its cutoff; "idle" between runs
  done,      \* kv "backfill.done"
  attrs,     \* kv "backfill.attributes.done"
  owed,      \* trades the running backfill has to bring
  promised,  \* and those the last finished one vouched for
  warm,      \* backfillDon and the coverage, as last refreshed
  trades, faults

vars == <<now, traded, sales, snapshot, names, idx, polled, fill, done, attrs, owed, promised, warm, trades, faults>>
archive == <<traded, trades>>
filling == <<fill, done, attrs, owed, promised>>

NoFill == [at |-> "idle", todo |-> <<>>, since |-> 0, days |-> 0]
NotWarm == [don |-> FALSE, coverage |-> 0]

Fault == faults < MaxFaults /\ faults' = faults + 1

Monus(a, b) == IF a > b THEN a - b ELSE 0
Lesser(a, b) == IF a < b THEN a ELSE b

\* The names of a snapshot, sort.Strings.
Sorted(S) ==
  CHOOSE s \in [1..Cardinality(S) -> S] :
    Range(s) = S /\ \A i, j \in DOMAIN s : i < j => s[i] < s[j]

-----------------------------------------------------------------------------
(* The market *)

\* A round of the poller goes by; Run has the snapshot before it starts them.
Round ==
  /\ now < MaxTime /\ polled /\ snapshot # {}
  /\ now' = now + 1 /\ polled' = FALSE
  /\ UNCHANGED <<archive, sales, snapshot, names, idx, filling, warm, faults>>

\* A collection trades; one trade per round tells them apart.
Trades(c) ==
  /\ trades < MaxTrades /\ trades' = trades + 1
  /\ [c |-> c, t |-> now] \notin traded
  /\ traded' = traded \cup {[c |-> c, t |-> now]}
  /\ UNCHANGED <<now, sales, snapshot, names, idx, polled, filling, warm, faults>>

\* pollStats: the market snapshot names the collections.
PollStats ==
  /\ snapshot = {} /\ snapshot' = Collections
  /\ UNCHANGED <<now, archive, sales, names, idx, polled, filling, warm, faults>>

-----------------------------------------------------------------------------
(* Trades in *)

\* TradeHistory: every settled trade of one collection since a time.
TradeHistory(c, since) == {x \in traded : x.c = c /\ x.t >= since}

\* refreshCoverage, over a table and a done flag.
Refreshed(rows, flag) ==
  [don |-> flag, coverage |-> IF rows = {} THEN 0 ELSE Lesser(Lookback, now - Min({x.t : x \in rows}))]

Warm == warm.don /\ 2 * warm.coverage >= Lookback

\* The list is refreshed from the snapshot when it is exhausted.
Names == IF idx >= Len(names) THEN Sorted(snapshot) ELSE names
Index == IF idx >= Len(names) THEN 0 ELSE idx

Rotated == Lesser(Index + Batch, Len(Names))

\* pollSales: the rotation has moved on before the first request is made, and an
\* error leaves the rest of the batch for the next time around.
PollSales(failed) ==
  /\ ~polled /\ polled' = TRUE
  /\ IF failed = 0 THEN faults' = faults ELSE failed <= Rotated - Index /\ Fault
  /\ LET read  == {Names[i] : i \in Index + 1 .. IF failed = 0 THEN Rotated ELSE Index + failed - 1}
         fresh == (UNION {TradeHistory(c, Monus(now, Window)) : c \in read}) \ sales
     IN  /\ sales' = sales \cup fresh
         /\ warm' = IF failed = 0 /\ fresh # {} THEN Refreshed(sales', done) ELSE warm
  /\ names' = Names /\ idx' = Rotated
  /\ UNCHANGED <<now, archive, snapshot, filling>>

-----------------------------------------------------------------------------
(* Backfill *)

\* backfillIfNeeded at start, or `floorline backfill` with days of its own; as a
\* bound, a download that finished is not repeated.
StartBackfill(days) ==
  /\ fill.at = "idle" /\ snapshot # {}
  /\ IF days = Attributes THEN ~attrs ELSE ~done
  /\ fill' = [at |-> "read", todo |-> Sorted(snapshot), since |-> Monus(now, days), days |-> days]
  /\ owed' = UNION {TradeHistory(c, Monus(now, days)) : c \in snapshot}
  /\ UNCHANGED <<now, archive, sales, snapshot, names, idx, polled, done, attrs, promised, warm, faults>>

\* One collection, read and stored.
FillOne ==
  /\ fill.at = "read" /\ fill.todo # <<>>
  /\ sales' = sales \cup TradeHistory(Head(fill.todo), fill.since)
  /\ fill' = [fill EXCEPT !.todo = Tail(@)]
  /\ UNCHANGED <<now, archive, snapshot, names, idx, polled, done, attrs, owed, promised, warm, faults>>

\* Slip: a collection that cannot be read is passed over.
Slip_FillFails ==
  /\ fill.at = "read" /\ fill.todo # <<>> /\ Fault
  /\ fill' = [fill EXCEPT !.todo = Tail(@)]
  /\ UNCHANGED <<now, archive, sales, snapshot, names, idx, polled, done, attrs, owed, promised, warm>>

\* One error ends the download; the next start begins it again.
FillFails ==
  /\ fill.at = "read" /\ fill.todo # <<>> /\ Fault
  /\ fill' = NoFill
  /\ UNCHANGED <<now, archive, sales, snapshot, names, idx, polled, done, attrs, owed, promised, warm>>

\* The flags are written last, and the coverage read after them.
FillDone ==
  /\ fill.at = "read" /\ fill.todo = <<>>
  /\ done' = TRUE /\ attrs' = (attrs \/ fill.days >= Attributes)
  /\ promised' = owed /\ warm' = Refreshed(sales, TRUE)
  /\ fill' = NoFill
  /\ UNCHANGED <<now, archive, sales, snapshot, names, idx, polled, owed, faults>>

\* The process ends and starts again: the table and the flags survive.
Restart ==
  /\ Fault
  /\ snapshot' = {} /\ names' = <<>> /\ idx' = 0 /\ fill' = NoFill
  /\ warm' = Refreshed(sales, done)
  /\ UNCHANGED <<now, archive, sales, polled, done, attrs, owed, promised>>

-----------------------------------------------------------------------------

Init ==
  /\ now = Epoch /\ sales = {} /\ snapshot = {} /\ names = <<>> /\ idx = 0 /\ polled = TRUE
  /\ traded = {[c |-> c, t |-> 1] : c \in Collections}
  /\ fill = NoFill /\ done = FALSE /\ attrs = FALSE /\ owed = {} /\ promised = {} /\ warm = NotWarm
  /\ trades = 0 /\ faults = 0

Next ==
  \/ Round \/ PollStats \/ FillOne \/ FillFails \/ FillDone \/ Restart
  \/ \E c \in Collections : Trades(c)
  \/ \E f \in 0..Batch : PollSales(f)
  \/ \E days \in {Lookback, Attributes} : StartBackfill(days)

Spec == Init /\ [][Next]_vars

-----------------------------------------------------------------------------
(* Properties *)

TypeOK ==
  /\ sales \subseteq traded /\ idx \in 0..Len(names) /\ warm.coverage \in 0..Lookback

\* "The bot stays in warm-up until this has run once": a warm desk has stored
\* every trade of every collection that the download it trusts set out to bring,
\* however requests failed and restarts cut earlier runs short.
WarmMeansDownloaded == Warm => done /\ promised \subseteq sales

\* The window covers a rotation and one more for each failure: a trade made while
\* the desk runs is stored before it leaves the window, although requests fail and
\* the process restarts in between.
RotationMissesNothing ==
  \A x \in traded : x.t >= Epoch /\ x.t + Window < now => x \in sales

\* No trade is missing from the history the desk values gifts by: both.
HistoryHolds == WarmMeansDownloaded /\ RotationMissesNothing
=============================================================================
