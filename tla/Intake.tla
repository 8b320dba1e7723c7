------------------------------- MODULE Intake -------------------------------
(***************************************************************************)
(* How an ask becomes a signal (internal/app/events.go, pollers.go and     *)
(* scanner.go).  The event stream stores listings and queues the new and   *)
(* the cheaper ones, dropping them when the queue is full; the worker      *)
(* prices them in batches; pollFeed does the same while the stream is      *)
(* down; the sweep walks the standing books, a slice of the ranked models  *)
(* at a time.  All three end in handleDecision, which writes the journal   *)
(* they are deduplicated against and sends the card.  Buying is Purchase.  *)
(***************************************************************************)
EXTENDS Naturals, Sequences, SequencesExt, FiniteSets

CONSTANTS
  Gifts,      \* gifts of one collection
  Models,
  ModelOf,    \* the model of each gift
  Prices,     \* asks with a positive edge
  QueueSize,  \* evalQueueSize
  BatchMax,   \* evalBatchMax
  Slice,      \* scanModelsPerPass
  Cooldown,   \* alertCooldown and collectionCooldown
  MaxTime,    \* bound on the clock
  MaxMoves    \* bound on what sellers, blocks, outages and rebuilds do

VARIABLES
  now,
  ask,       \* the marketplace: price of each gift on sale, 0 when it is not
  feed,      \* events on their way, in order
  listing,   \* listings: last price stored, 0 when never seen, and gone_at
  queue,     \* evalQ
  work,      \* what each evaluator has in hand
  ranked,    \* scanRanked
  cursor,    \* scanCursor
  journal,   \* signals: the cheapest price recorded for each gift
  last,      \* and the time of the newest, 0 for none
  card,      \* time of the newest card, 0 for none
  thin,      \* gifts with a positive edge that fail a gate at the moment
  up,        \* streamHealthy
  cooling,
  moves

vars == <<now, ask, feed, listing, queue, work, ranked, cursor, journal, last, card, thin, up, cooling, moves>>

Evaluators == {"stream", "poll", "sweep"}
Idle == [at |-> "idle", lots |-> <<>>, decided |-> <<>>]

Move == moves < MaxMoves /\ moves' = moves + 1

\* Rows of the marketplace for some gifts, cheapest first.
Book(gs) ==
  LET lots == {[gift |-> g, price |-> ask[g]] : g \in {h \in gs : ask[h] > 0}}
  IN  SortSeq(SetToSeq(lots), LAMBDA a, b : a.price < b.price)

-----------------------------------------------------------------------------
(* The marketplace and the clock *)

TimePasses ==
  /\ now < MaxTime /\ now' = now + 1
  /\ UNCHANGED <<ask, feed, listing, queue, work, ranked, cursor, journal, last, card, thin, up, cooling, moves>>

\* listing.created and listing.price_changed.
Sell(g, p) ==
  /\ Move /\ ask[g] # p
  /\ ask' = [ask EXCEPT ![g] = p]
  /\ feed' = Append(feed, [type |-> "listing", gift |-> g, price |-> p])
  /\ UNCHANGED <<now, listing, queue, work, ranked, cursor, journal, last, card, thin, up, cooling>>

\* listing.cancelled and sale.completed.
Leave(g) ==
  /\ Move /\ ask[g] > 0
  /\ ask' = [ask EXCEPT ![g] = 0]
  /\ feed' = Append(feed, [type |-> "gone", gift |-> g, price |-> 0])
  /\ UNCHANGED <<now, listing, queue, work, ranked, cursor, journal, last, card, thin, up, cooling>>

\* The books, sales and limits a gate reads move: a near miss now passes, or back.
GatesTurn(g) ==
  /\ Move /\ thin' = IF g \in thin THEN thin \ {g} ELSE thin \cup {g}
  /\ UNCHANGED <<now, ask, feed, listing, queue, work, ranked, cursor, journal, last, card, up, cooling>>

StreamTurns ==
  /\ Move /\ up' = ~up
  /\ UNCHANGED <<now, ask, feed, listing, queue, work, ranked, cursor, journal, last, card, thin, cooling>>

DeskTurns ==
  /\ Move /\ cooling' = ~cooling
  /\ UNCHANGED <<now, ask, feed, listing, queue, work, ranked, cursor, journal, last, card, thin, up>>

-----------------------------------------------------------------------------
(* Listings in *)

\* UpsertListings, and what it reports: new ids, and known ones gone cheaper.
Stored(lots) ==
  [g \in Gifts |-> LET mine == SelectSeq(lots, LAMBDA l : l.gift = g)
                   IN  IF mine = <<>> THEN listing[g] ELSE [price |-> Last(mine).price, gone |-> FALSE]]
Candidates(lots) ==
  SelectSeq(lots, LAMBDA l : listing[l.gift].price = 0 \/ l.price < listing[l.gift].price)

\* onListingEvent: never blocks the socket.
Listed ==
  /\ up /\ feed # <<>> /\ Head(feed).type = "listing"
  /\ LET lot == [gift |-> Head(feed).gift, price |-> Head(feed).price] IN
       /\ listing' = Stored(<<lot>>)
       /\ queue' = IF Candidates(<<lot>>) # <<>> /\ Len(queue) < QueueSize THEN Append(queue, lot) ELSE queue
  /\ feed' = Tail(feed)
  /\ UNCHANGED <<now, ask, work, ranked, cursor, journal, last, card, thin, up, cooling, moves>>

\* MarkListingGone.
Gone ==
  /\ up /\ feed # <<>> /\ Head(feed).type = "gone"
  /\ listing' = [listing EXCEPT ![Head(feed).gift].gone = TRUE]
  /\ feed' = Tail(feed)
  /\ UNCHANGED <<now, ask, queue, work, ranked, cursor, journal, last, card, thin, up, cooling, moves>>

\* evalWorker: one listing, and whatever else arrives inside the window.
Collect ==
  /\ work["stream"].at = "idle" /\ queue # <<>>
  /\ \E n \in 1..Len(queue) :
       /\ n <= BatchMax
       /\ work' = [work EXCEPT !["stream"] = [Idle EXCEPT !.at = "judge", !.lots = SubSeq(queue, 1, n)]]
       /\ queue' = SubSeq(queue, n + 1, Len(queue))
  /\ UNCHANGED <<now, ask, feed, listing, ranked, cursor, journal, last, card, thin, up, cooling, moves>>

\* pollFeed: a page of the newest listings, only while the stream is not to be
\* trusted.  The page is stored, and what is new in it priced.
PollFeed ==
  /\ work["poll"].at = "idle" /\ ~up /\ ~cooling
  /\ listing' = Stored(Book(Gifts))
  /\ Candidates(Book(Gifts)) # <<>>
  /\ work' = [work EXCEPT !["poll"] = [Idle EXCEPT !.at = "judge", !.lots = Candidates(Book(Gifts))]]
  /\ UNCHANGED <<now, ask, feed, queue, ranked, cursor, journal, last, card, thin, up, cooling, moves>>

-----------------------------------------------------------------------------
(* The sweep *)

\* rankedModels after scanRankTTL; a cursor past the end starts over.
Rebuild(order) ==
  /\ Move /\ order # ranked
  /\ ranked' = order
  /\ cursor' = IF cursor > Len(order) THEN 0 ELSE cursor
  /\ UNCHANGED <<now, ask, feed, listing, queue, work, journal, last, card, thin, up, cooling>>

Start == IF cursor >= Len(ranked) THEN 0 ELSE cursor
End   == IF Start + Slice > Len(ranked) THEN Len(ranked) ELSE Start + Slice

\* Slip: a pass does not hand its place on.
Slip_Advance == Start

\* Where the next pass continues.
Advance == IF End >= Len(ranked) THEN 0 ELSE End

\* scanKeys and scanPass: the books of one slice, our own asks left out.
Sweep ==
  /\ work["sweep"].at = "idle" /\ ~cooling /\ ranked # <<>>
  /\ cursor' = Advance
  /\ LET slice == Range(SubSeq(ranked, Start + 1, End)) IN
       work' = [work EXCEPT !["sweep"] = [Idle EXCEPT !.at = "judge",
                                           !.lots = Book({g \in Gifts : ModelOf[g] \in slice})]]
  /\ UNCHANGED <<now, ask, feed, listing, queue, ranked, journal, last, card, thin, up, cooling, moves>>

\* /scan takes its slice off the same cursor, and buys nothing.
ScanCommand ==
  /\ Move /\ ranked # <<>>
  /\ cursor' = Advance
  /\ UNCHANGED <<now, ask, feed, listing, queue, work, ranked, journal, last, card, thin, up, cooling>>

-----------------------------------------------------------------------------
(* From listing to signal *)

AlreadySignalled(l) == journal[l.gift] > 0 /\ journal[l.gift] <= l.price

\* evaluateListings reads a batch into a map first: a gift queued twice is
\* priced twice, at what it was queued with last.
Latest(lots) == [i \in DOMAIN lots |-> Last(SelectSeq(lots, LAMBDA l : l.gift = lots[i].gift))]

\* Inside a cooldown the card is suppressed, and the signal recorded all the same.
Judgement(lots) ==
  [i \in DOMAIN lots |-> lots[i] @@ [suppressed |-> last > 0 /\ now < last + Cooldown, passes |-> lots[i].gift \notin thin]]

\* The journal after these rows, which are cheaper than what it holds.
Recorded(lots) == [g \in Gifts |-> LET mine == SelectSeq(lots, LAMBDA l : l.gift = g)
                                   IN  IF mine = <<>> THEN journal[g] ELSE Head(mine).price]

\* The feed's batch is judged whole before any signal of it is handled; while the
\* desk cools it is not judged at all.  observe writes its near misses into the
\* same journal as it goes, and so starts the cooldown for the rest of the batch.
Judge(e) ==
  /\ work[e].at = "judge" /\ e # "sweep"
  /\ LET all  == Judgement(SelectSeq(Latest(work[e].lots), LAMBDA l : ~AlreadySignalled(l)))
         near == SelectSeq(all, LAMBDA d : ~d.passes)
         late == [i \in DOMAIN all |-> [all[i] EXCEPT !.suppressed = @ \/ \E j \in 1..(i-1) : ~all[j].passes]]
     IN  IF cooling
         THEN work' = [work EXCEPT ![e] = Idle] /\ UNCHANGED <<journal, last>>
         ELSE /\ journal' = Recorded(near) /\ last' = IF near = <<>> THEN last ELSE now
              /\ work' = [work EXCEPT ![e] = [Idle EXCEPT !.at = "handle",
                                                          !.decided = SelectSeq(late, LAMBDA d : d.passes)]]
  /\ UNCHANGED <<now, ask, feed, listing, queue, ranked, cursor, card, thin, up, cooling, moves>>

\* refine: repriced against the queue of its own attributes, whatever was said before.
Refine ==
  /\ work["sweep"].at = "judge"
  /\ work' = [work EXCEPT !["sweep"] = [Idle EXCEPT !.at = "handle", !.decided = Judgement(work["sweep"].lots)]]
  /\ UNCHANGED <<now, ask, feed, listing, queue, ranked, cursor, journal, last, card, thin, up, cooling, moves>>

Done(e) == work' = [work EXCEPT ![e].decided = Tail(@)]

\* InsertSignal, and the card with it unless suppressed; the sweep's near misses
\* are recorded without one (observe).
HandleDecision(e) ==
  /\ work[e].at = "handle" /\ work[e].decided # <<>>
  /\ LET d == Head(work[e].decided) IN
       /\ e = "sweep" => ~AlreadySignalled(d)
       /\ journal' = [journal EXCEPT ![d.gift] = IF @ > 0 /\ @ < d.price THEN @ ELSE d.price]
       /\ last' = now
       /\ card' = IF d.passes /\ ~d.suppressed THEN now ELSE card
  /\ Done(e)
  /\ UNCHANGED <<now, ask, feed, listing, queue, ranked, cursor, thin, up, cooling, moves>>

\* The sweep meets the same asks every pass.
SkipKnown ==
  /\ work["sweep"].at = "handle" /\ work["sweep"].decided # <<>>
  /\ AlreadySignalled(Head(work["sweep"].decided))
  /\ Done("sweep")
  /\ UNCHANGED <<now, ask, feed, listing, queue, ranked, cursor, journal, last, card, thin, up, cooling, moves>>

Finish(e) ==
  /\ work[e].at = "handle" /\ work[e].decided = <<>>
  /\ work' = [work EXCEPT ![e] = Idle]
  /\ UNCHANGED <<now, ask, feed, listing, queue, ranked, cursor, journal, last, card, thin, up, cooling, moves>>

-----------------------------------------------------------------------------

Orders == {o \in UNION {[1..n -> Models] : n \in 0..Cardinality(Models)} : IsInjective(o)}

Init ==
  /\ now = 1 /\ ask = [g \in Gifts |-> 0] /\ feed = <<>>
  /\ listing = [g \in Gifts |-> [price |-> 0, gone |-> FALSE]]
  /\ queue = <<>> /\ work = [e \in Evaluators |-> Idle]
  /\ ranked \in Orders /\ cursor = 0
  /\ journal = [g \in Gifts |-> 0] /\ last = 0 /\ card = 0
  /\ thin = {} /\ up = TRUE /\ cooling = FALSE /\ moves = 0

Market ==
  \/ TimePasses \/ StreamTurns \/ DeskTurns \/ ScanCommand
  \/ \E g \in Gifts : Leave(g) \/ GatesTurn(g) \/ \E p \in Prices : Sell(g, p)
  \/ \E o \in Orders : Rebuild(o)

SweepStep == Sweep \/ Refine \/ HandleDecision("sweep") \/ SkipKnown \/ Finish("sweep")

Desk ==
  \/ Listed \/ Gone \/ Collect \/ PollFeed \/ SweepStep
  \/ \E e \in {"stream", "poll"} : Judge(e) \/ HandleDecision(e) \/ Finish(e)

Next == Market \/ Desk

Spec == Init /\ [][Next]_vars

\* pollScan runs on a ticker, and every pass ends at its deadline.
FairSpec == Spec /\ WF_vars(SweepStep)

-----------------------------------------------------------------------------
(* Properties *)

TypeOK ==
  /\ now \in 1..MaxTime /\ ask \in [Gifts -> Prices \cup {0}] /\ journal \in [Gifts -> Prices \cup {0}]
  /\ thin \subseteq Gifts
  /\ Len(queue) <= QueueSize /\ cursor \in 0..Cardinality(Models)
  /\ \A e \in Evaluators : Len(work[e].lots) <= Cardinality(Gifts) + BatchMax

Standing(g, p) == ask[g] = p /\ ModelOf[g] \in Range(ranked) /\ ~cooling

\* "The sweep of the standing book covers what is skipped here" (events.go): an
\* ask that stays on the market at a price worth pricing is signalled in the end,
\* or written down as a near miss if it fails a gate, whatever the full queue
\* dropped, a block kept from being priced or an outage hid, however models were
\* reranked, slices taken by /scan and gates passed and failed meanwhile.
StandingAskIsSignalled ==
  \A g \in Gifts, p \in Prices :
    <>[]Standing(g, p) => <>(journal[g] > 0 /\ journal[g] <= p)

\* observe has "no notification, no cooldown, no effect on anything the bot does
\* today" (observe.go:106): an ask is only ever silenced, and the cooldown of its
\* model only runs, after a card was sent.  Does not hold and no run checks it: the
\* row of a near miss is of kind "buy", and neither AlreadySignalled nor
\* LastSignalForModel asks for its action, so an ask written down as a near miss is
\* not heard of when it comes to pass the gates.
SilenceHasACard == \A g \in Gifts : journal[g] > 0 => card > 0
=============================================================================
