----------------------------- MODULE BookCache -----------------------------
(***************************************************************************)
(* The cache of one model's order book (internal/pricing/book.go).  Get    *)
(* finds the entry under one mutex and fills it under the entry's own,     *)
(* Invalidate drops the entry from the map, so a fetch in flight may fill  *)
(* an entry nobody will find again.                                        *)
(***************************************************************************)
EXTENDS Naturals, FiniteSets

CONSTANTS
  Readers,   \* goroutines that price something
  Slots,     \* cacheEntry objects, one more than there are readers
  TTL,       \* effectiveTTL
  MaxMoves,  \* bound on changes of the book
  MaxTime    \* bound on the clock

BookCacheAssumption ==
  /\ IsFiniteSet(Readers) /\ "none" \notin Readers
  /\ Slots \in Nat /\ Cardinality(Readers) < Slots /\ TTL \in Nat \ {0} /\ MaxMoves \in Nat /\ MaxTime \in Nat

VARIABLES
  now,
  real,     \* version of the book on the marketplace
  known,    \* version at the last Invalidate
  entry,    \* index in the map, 0 when the model has none
  slots,    \* the entries: what they hold, since when, who fills them
  get       \* Get of each reader

vars == <<now, real, known, entry, slots, get>>

NoBook == [has |-> "nothing", version |-> 0]
Empty  == [book |-> NoBook, at |-> 0, holder |-> "none"]
Idle   == [at |-> "idle", slot |-> 0, since |-> 0, read |-> NoBook]

\* Entries nobody holds a reference to: an object of its own each time.
Unused == {s \in 1..Slots : s # entry /\ \A r \in Readers : get[r].slot # s}

-----------------------------------------------------------------------------

TimePasses ==
  /\ now < MaxTime /\ now' = now + 1
  /\ UNCHANGED <<real, known, entry, slots, get>>

\* Somebody trades or reprices.
BookMoves ==
  /\ real < MaxMoves /\ real' = real + 1
  /\ UNCHANGED <<now, known, entry, slots, get>>

\* Get, the map: the model's entry, a new one when there is none.
Find(r) ==
  /\ get[r].at = "idle"
  /\ LET s == IF entry > 0 THEN entry ELSE CHOOSE u \in Unused : TRUE IN
       /\ entry' = s
       /\ slots' = IF entry > 0 THEN slots ELSE [slots EXCEPT ![s] = Empty]
       /\ get' = [get EXCEPT ![r] = [Idle EXCEPT !.at = "found", !.slot = s, !.since = known]]
  /\ UNCHANGED <<now, real, known>>

\* The entry's mutex, and what it holds when that is fresh enough: a book, or
\* an error, which is not retried any faster.
Lock(r) ==
  LET s == get[r].slot IN
  /\ get[r].at = "found" /\ slots[s].holder = "none"
  /\ IF slots[s].book.has # "nothing" /\ now < slots[s].at + TTL
       THEN /\ get' = [get EXCEPT ![r].at = "done", ![r].read = slots[s].book]
            /\ UNCHANGED slots
       ELSE /\ slots' = [slots EXCEPT ![s].holder = r]
            /\ get' = [get EXCEPT ![r].at = "fetch"]
  /\ UNCHANGED <<now, real, known, entry>>

\* The marketplace answers with the book of this moment, or with an error.
Answer(r) ==
  /\ get[r].at = "fetch"
  /\ \E has \in {"book", "error"} :
       get' = [get EXCEPT ![r].at = "store", ![r].read = [has |-> has, version |-> real]]
  /\ UNCHANGED <<now, real, known, entry, slots>>

Store(r) ==
  /\ get[r].at = "store"
  /\ slots' = [slots EXCEPT ![get[r].slot] = [book |-> get[r].read, at |-> now, holder |-> "none"]]
  /\ get' = [get EXCEPT ![r].at = "done"]
  /\ UNCHANGED <<now, real, known, entry>>

Return(r) ==
  /\ get[r].at = "done"
  /\ get' = [get EXCEPT ![r] = Idle]
  /\ UNCHANGED <<now, real, known, entry, slots>>

\* Slip: the entry is emptied where it is.
Slip_Invalidate ==
  /\ entry > 0 /\ known' = real
  /\ slots' = [slots EXCEPT ![entry].book = NoBook]
  /\ UNCHANGED <<now, real, entry, get>>

\* Invalidate: we have just bought, listed or been asked to look again.
Invalidate ==
  /\ entry > 0 /\ known' = real
  /\ entry' = 0
  /\ UNCHANGED <<now, real, slots, get>>

Init ==
  /\ now = 1 /\ real = 0 /\ known = 0 /\ entry = 0
  /\ slots = [s \in 1..Slots |-> Empty] /\ get = [r \in Readers |-> Idle]

Next ==
  \/ TimePasses \/ BookMoves \/ Invalidate
  \/ \E r \in Readers : Find(r) \/ Lock(r) \/ Answer(r) \/ Store(r) \/ Return(r)

Spec == Init /\ [][Next]_vars

-----------------------------------------------------------------------------
(* Properties *)

TypeOK ==
  /\ now \in 1..MaxTime /\ known \in 0..real /\ entry \in 0..Slots
  /\ \A s \in 1..Slots : slots[s].at <= now

\* A reader that asks after an Invalidate never prices off a book read before
\* it, although readers that were already waiting fill entries behind it.
FreshAfterInvalidate ==
  \A r \in Readers : get[r].at = "done" => get[r].read.version >= get[r].since

\* One request per entry at a time, and never two answers to one within the TTL.
SingleFlight ==
  \A r, q \in Readers :
    get[r].at \in {"fetch", "store"} /\ get[q].at \in {"fetch", "store"} /\ get[r].slot = get[q].slot
      => r = q

\* Both.
CacheHolds == FreshAfterInvalidate /\ SingleFlight
=============================================================================
