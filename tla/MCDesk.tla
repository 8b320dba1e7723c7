------------------------------- MODULE MCDesk -------------------------------
(***************************************************************************)
(* The parts of the desk that keep something between two moments: the      *)
(* switches, the settings of the operator, the downloaded history, the     *)
(* caches of books and venues, the Telegram session, the asks of its own   *)
(* gifts.  They share no state, so a behaviour runs one of them; the clock, *)
(* the calls and the fault budget are those of the part that runs.         *)
(***************************************************************************)
EXTENDS RiskManager, Sequences

\* The parts of a run, and for each the bounds on its clock and its faults.
CONSTANTS Parts, Time, FaultsOf

CONSTANTS
  Pairs, Creds, FromEnv,            \* Settings
  Collections, Batch, Window, Lookback, Attributes, Epoch, MaxTrades,    \* History
  Readers, Slots, TTL, MaxMoves,    \* BookCache; TTL of every cache
  Calls, Models, Session, Pasted, MaxTokens,    \* VenueCache
  Asks, Floor, Quiet, Waits,        \* Relist
  Rivals                            \* Watchers

VARIABLES part, now, call, faults

VARIABLES kvSession, session, loaded, saving, spoiled, kvAuth, auth, swap, good, accepted
settings == <<kvSession, session, loaded, saving, spoiled, kvAuth, auth, swap, good, accepted>>

VARIABLES traded, sales, snapshot, names, idx, polled, fill, done, attrs, owed, promised, warm, trades
history == <<traded, sales, snapshot, names, idx, polled, fill, done, attrs, owed, promised, warm, trades>>

VARIABLES real, known, entry, slots, get
books == <<real, known, entry, slots, get>>

VARIABLES token, issued, revoked, refused, entries
venues == <<token, issued, revoked, refused, entries>>

VARIABLES marker, signedIn, start, running, api, ready, line, cached, fetches
miniapp == <<marker, signedIn, start, running, api, ready, line, cached, fetches>>

VARIABLES ask, row, relisting, warned, met
relist == <<ask, row, relisting, warned, met>>

VARIABLES cooldown, list, repriced, pass, autos, lost
watchers == <<cooldown, list, repriced, pass, autos, lost>>

all == <<vars, part, now, call, faults, settings, history, books, venues, miniapp, relist, watchers>>

Se == INSTANCE Settings WITH MaxFaults <- FaultsOf["settings"]

Hi == INSTANCE History WITH
  MaxTime <- Time["history"], MaxFaults <- FaultsOf["history"]

Bo == INSTANCE BookCache WITH MaxTime <- Time["books"]

Ve == INSTANCE VenueCache WITH
  Keys <- Models, MaxTime <- Time["venues"], MaxFaults <- FaultsOf["venues"]

Mi == INSTANCE MiniApp WITH MaxTime <- Time["miniapp"], MaxFaults <- FaultsOf["miniapp"]

Re == INSTANCE Relist WITH told <- warned, MaxTime <- Time["relist"], MaxFaults <- FaultsOf["relist"]

Wa == INSTANCE Watchers WITH
  Asks <- Rivals, MaxTime <- Time["watchers"], MaxFaults <- FaultsOf["watchers"]

ASSUME Hi!HistoryAssumption /\ Bo!BookCacheAssumption /\ Ve!VenueCacheAssumption /\ Re!RelistAssumption

\* Bounds and back-offs of the run.
Short == [p \in Parts |->
  CASE p = "history" -> 15 [] p = "venues" -> 2 [] p = "relist" -> 5 [] p = "watchers" -> 7 [] OTHER -> 3]
Few   == [p \in Parts |->
  CASE p \in {"history", "watchers"} -> 1 [] p = "relist" -> 3 [] OTHER -> 2]
ShortWaits == <<1, 2>>

-----------------------------------------------------------------------------
\* A part that does not run holds nothing.
NoClock ==
  /\ part \in {"switches", "settings"} => now = 0
  /\ part \notin {"venues", "miniapp", "relist"} => call = 0
  /\ part \in {"switches", "books"} => faults = 0
NoSettings ==
  /\ kvSession = 0 /\ session = 0 /\ loaded = 0 /\ saving = 0 /\ spoiled = 0
  /\ kvAuth = 0 /\ auth = 0 /\ swap = 0 /\ good = 0 /\ accepted = 0
NoHistory ==
  /\ traded = 0 /\ sales = 0 /\ snapshot = 0 /\ names = 0 /\ idx = 0 /\ polled = 0 /\ fill = 0
  /\ done = 0 /\ attrs = 0 /\ owed = 0 /\ promised = 0 /\ warm = 0 /\ trades = 0
NoBooks    == real = 0 /\ known = 0 /\ entry = 0 /\ slots = 0 /\ get = 0
NoVenues   == token = 0 /\ issued = 0 /\ revoked = 0 /\ refused = 0 /\ entries = 0
NoMiniapp  ==
  /\ marker = 0 /\ signedIn = 0 /\ start = 0 /\ running = 0 /\ api = 0
  /\ ready = 0 /\ line = 0 /\ cached = 0 /\ fetches = 0
NoRelist   == ask = 0 /\ row = 0 /\ relisting = 0 /\ warned = 0 /\ met = 0
NoWatchers == cooldown = 0 /\ list = 0 /\ repriced = 0 /\ pass = 0 /\ autos = 0 /\ lost = 0

DeskInit ==
  /\ part \in Parts
  /\ Init
  /\ IF part = "settings" THEN Se!Init ELSE NoSettings
  /\ IF part = "history"  THEN Hi!Init ELSE NoHistory
  /\ IF part = "books"    THEN Bo!Init ELSE NoBooks
  /\ IF part = "venues"   THEN Ve!Init ELSE NoVenues
  /\ IF part = "miniapp"  THEN Mi!Init ELSE NoMiniapp
  /\ IF part = "relist"   THEN Re!Init ELSE NoRelist
  /\ IF part = "watchers" THEN Wa!Init ELSE NoWatchers
  /\ NoClock

DeskNext ==
  /\ part' = part
  /\ \/ part = "switches" /\ Next /\ UNCHANGED <<now, call, faults>>
     \/ part = "settings" /\ Se!Next /\ UNCHANGED <<now, call>>
     \/ part = "history"  /\ Hi!Next /\ UNCHANGED call
     \/ part = "books"    /\ Bo!Next /\ UNCHANGED <<call, faults>>
     \/ part = "venues"   /\ Ve!Next
     \/ part = "miniapp"  /\ Mi!Next
     \/ part = "relist"   /\ Re!Next
     \/ part = "watchers" /\ Wa!Next /\ UNCHANGED call
  /\ part # "switches" => UNCHANGED vars
  /\ part # "settings" => UNCHANGED settings
  /\ part # "history"  => UNCHANGED history
  /\ part # "books"    => UNCHANGED books
  /\ part # "venues"   => UNCHANGED venues
  /\ part # "miniapp"  => UNCHANGED miniapp
  /\ part # "relist"   => UNCHANGED relist
  /\ part # "watchers" => UNCHANGED watchers

DeskSpec == DeskInit /\ [][DeskNext]_all

-----------------------------------------------------------------------------
\* The operator's session and credential are the stored and the answered ones
\* (SessionAsStored and CredentialWasAccepted of Settings).
SettingsHold == part = "settings" => Se!SettingsHold

\* A warm desk has its history, and the rotation misses no trade
\* (WarmMeansDownloaded and RotationMissesNothing of History).
HistoryHolds == part = "history" => Hi!HistoryHolds

\* A book read before an Invalidate prices nothing after it, and one goroutine at
\* a time asks for one (FreshAfterInvalidate and SingleFlight of BookCache); nobody
\* is answered with another's deadline (DeadlineStaysPrivate of VenueCache).
CacheHolds ==
  /\ part = "books" => Bo!CacheHolds
  /\ part = "venues" => Ve!CacheHolds

\* A late 401 drops only the token it is about (VenueCache).
FreshTokenKept == [][part = "venues" => Ve!DropsTheRefused]_all

\* No mini app is opened on a session Telegram has not confirmed (MiniApp).
OpensOnlyWhenConfirmed == [][part = "miniapp" => Mi!OpensConfirmed]_all

\* What is on sale is what is written, and a gift lost on the way to its new
\* price is one the operator was told of (RowIsAsk and OffMarketIsTold of Relist).
AskIsKnown == part = "relist" => Re!AskIsKnown

\* Two unattended reprices of a gift are six hours apart (Watchers).
RepricesApart == part = "watchers" => Wa!RepricesApart
=============================================================================
