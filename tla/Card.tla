-------------------------------- MODULE Card --------------------------------
(***************************************************************************)
(* The bot's handlers around one signal card (internal/bot/bot.go and      *)
(* App.buySignal).  telebot runs every update in a goroutine of its own,   *)
(* so taps on one card overlap: each answers the callback, edits the       *)
(* message, asks the backend and edits again, and Telegram may refuse to   *)
(* edit a message that has grown old.  Executor.Buy is two steps here, its *)
(* claim and its write; Purchase has the rest.                             *)
(***************************************************************************)
EXTENDS Naturals, FiniteSets

CONSTANTS
  Taps,       \* updates from the owner
  Asks,       \* prices the listing may move to; 0 is off the market
  SigPrice,   \* the price on the card
  MaxMoves    \* bound on what the seller and other purchases do

VARIABLES
  keyboard,  \* buttons under the card: "card", "confirm", "none", or "gone" with it
  tooOld,    \* Telegram no longer edits the card
  task,      \* what each handler does, and where it stands
  told,      \* handlers whose answer reached the chat
  ask,       \* the listing
  permit,    \* purchaseMu: "free", "other", or a handler
  claimed,   \* the gift has a purchase claim
  paid,      \* price paid, 0 for none
  muted,     \* mutes, for the card's model
  moves

vars == <<keyboard, tooOld, task, told, ask, permit, claimed, paid, muted, moves>>

Fresh == [op |-> "none", at |-> "idle", price |-> 0]

Move == moves < MaxMoves /\ moves' = moves + 1

\* Buttons each keyboard offers.
Offers ==
  [card |-> {"buy", "book", "mute", "drop"}, confirm |-> {"confirm", "cancel"}, none |-> {}, gone |-> {}]

Goto(h, where) == task' = [task EXCEPT ![h].at = where]

-----------------------------------------------------------------------------
(* The world around the handlers *)

Reprice(p) ==
  /\ Move /\ paid = 0 /\ ask # p /\ ask' = p
  /\ UNCHANGED <<keyboard, tooOld, task, told, permit, claimed, paid, muted>>

OtherPurchase ==
  /\ Move /\ permit = "free" /\ permit' = "other"
  /\ UNCHANGED <<keyboard, tooOld, task, told, ask, claimed, paid, muted>>

OtherDone ==
  /\ permit = "other" /\ permit' = "free"
  /\ UNCHANGED <<keyboard, tooOld, task, told, ask, claimed, paid, muted, moves>>

CardAges ==
  /\ ~tooOld /\ tooOld' = TRUE
  /\ UNCHANGED <<keyboard, task, told, ask, permit, claimed, paid, muted, moves>>

-----------------------------------------------------------------------------
(* Handlers *)

\* A tap on a button the card shows; its handler starts whenever it is scheduled.
Tap(h, op) ==
  /\ task[h] = Fresh /\ op \in Offers[keyboard]
  /\ task' = [task EXCEPT ![h].op = op, ![h].at = "tapped"]
  /\ UNCHANGED <<keyboard, tooOld, told, ask, permit, claimed, paid, muted, moves>>

\* A typed command needs no card.
Command(h) ==
  /\ task[h] = Fresh
  /\ task' = [task EXCEPT ![h].op = "command", ![h].at = "deliver"]
  /\ UNCHANGED <<keyboard, tooOld, told, ask, permit, claimed, paid, muted, moves>>

\* A view lives on a panel of its own: a placeholder, then the backend's answer,
\* in place or as a new message, which is the same to the card.
View(h) ==
  /\ task[h] = Fresh
  /\ task' = [task EXCEPT ![h].op = "view", ![h].at = "deliver"]
  /\ UNCHANGED <<keyboard, tooOld, told, ask, permit, claimed, paid, muted, moves>>

\* Only the keyboard changes: Buy asks for confirmation, Cancel takes that back.
Rekey(h) ==
  /\ task[h].at = "tapped" /\ task[h].op \in {"buy", "cancel"}
  /\ keyboard' = IF tooOld \/ keyboard = "gone" THEN keyboard
                 ELSE IF task[h].op = "buy" THEN "confirm" ELSE "card"
  /\ Goto(h, "done") /\ told' = told \cup {h}
  /\ UNCHANGED <<tooOld, ask, permit, claimed, paid, muted, moves>>

DropCard(h) ==
  /\ task[h].at = "tapped" /\ task[h].op = "drop"
  /\ keyboard' = IF tooOld THEN keyboard ELSE "gone"
  /\ Goto(h, "done") /\ told' = told \cup {h}
  /\ UNCHANGED <<tooOld, ask, permit, claimed, paid, muted, moves>>

\* callback: a handler that will replace the card says so on it first.
Placeholder(h) ==
  /\ task[h].at = "tapped" /\ task[h].op \in {"confirm", "mute", "book"}
  /\ keyboard' = IF task[h].op = "book" \/ tooOld \/ keyboard = "gone" THEN keyboard ELSE "none"
  /\ Goto(h, CASE task[h].op = "confirm" -> "lock" [] task[h].op = "mute" -> "mute" [] OTHER -> "deliver")
  /\ UNCHANGED <<tooOld, told, ask, permit, claimed, paid, muted, moves>>

Mute(h) ==
  /\ task[h].at = "mute"
  /\ muted' = TRUE
  /\ Goto(h, "edit")
  /\ UNCHANGED <<keyboard, tooOld, told, ask, permit, claimed, paid, moves>>

-----------------------------------------------------------------------------
(* buySignal *)

Lock(h) ==
  /\ task[h].at = "lock" /\ permit = "free"
  /\ permit' = h
  /\ Goto(h, "quote")
  /\ UNCHANGED <<keyboard, tooOld, told, ask, claimed, paid, muted, moves>>

\* Slip: the price on the card is not compared.
Slip_Dearer(p) == FALSE

\* The card may have been in the chat for a while.
Dearer(p) == p > SigPrice

\* The listing read again: sold, withdrawn or dearer than the card, nothing is
\* bought.  A read that fails ends the same way.
Refuse(h) ==
  /\ task[h].at = "quote"
  /\ permit' = "free"
  /\ Goto(h, "edit")
  /\ UNCHANGED <<keyboard, tooOld, told, ask, claimed, paid, muted, moves>>

Requote(h) ==
  /\ task[h].at = "quote" /\ ask > 0 /\ paid = 0 /\ ~Dearer(ask)
  /\ task' = [task EXCEPT ![h].at = "claim", ![h].price = ask]
  /\ UNCHANGED <<keyboard, tooOld, told, ask, permit, claimed, paid, muted, moves>>

Claim(h) ==
  /\ task[h].at = "claim"
  /\ claimed' = TRUE
  /\ Goto(h, IF claimed THEN "edit" ELSE "write")
  /\ permit' = IF claimed THEN "free" ELSE permit
  /\ UNCHANGED <<keyboard, tooOld, told, ask, paid, muted, moves>>

\* The request names the price; the marketplace executes it at no other.
Write(h) ==
  /\ task[h].at = "write"
  /\ paid' = IF ask = task[h].price THEN ask ELSE paid
  /\ ask' = IF ask = task[h].price THEN 0 ELSE ask
  /\ permit' = "free"
  /\ Goto(h, "edit")
  /\ UNCHANGED <<keyboard, tooOld, told, claimed, muted, moves>>

-----------------------------------------------------------------------------
(* Answers *)

\* Slip: an answer the card cannot take is lost.
Slip_Edit(h) ==
  /\ task[h].at = "edit"
  /\ keyboard' = IF tooOld \/ keyboard = "gone" THEN keyboard ELSE "none"
  /\ told' = IF tooOld \/ keyboard = "gone" THEN told ELSE told \cup {h}
  /\ Goto(h, "done")
  /\ UNCHANGED <<tooOld, ask, permit, claimed, paid, muted, moves>>

\* editWith: the answer replaces the card, or follows as a message of its own.
Edit(h) ==
  /\ task[h].at = "edit"
  /\ IF tooOld \/ keyboard = "gone"
     THEN keyboard' = keyboard /\ Goto(h, "deliver") /\ told' = told
     ELSE keyboard' = "none" /\ Goto(h, "done") /\ told' = told \cup {h}
  /\ UNCHANGED <<tooOld, ask, permit, claimed, paid, muted, moves>>

Deliver(h) ==
  /\ task[h].at = "deliver"
  /\ told' = told \cup {h}
  /\ Goto(h, "done")
  /\ UNCHANGED <<keyboard, tooOld, ask, permit, claimed, paid, muted, moves>>

-----------------------------------------------------------------------------

Init ==
  /\ keyboard = "card" /\ tooOld = FALSE /\ task = [h \in Taps |-> Fresh] /\ told = {}
  /\ ask = SigPrice /\ permit = "free" /\ claimed = FALSE /\ paid = 0 /\ muted = FALSE /\ moves = 0

Handler(h) ==
  Rekey(h) \/ DropCard(h) \/ Placeholder(h) \/ Mute(h) \/ Lock(h) \/ Refuse(h) \/ Requote(h) \/ Claim(h)
    \/ Write(h) \/ Edit(h) \/ Deliver(h)

Next ==
  \/ OtherPurchase \/ OtherDone \/ CardAges \/ \E p \in Asks : Reprice(p)
  \/ \E h \in Taps : Handler(h) \/ Command(h) \/ View(h) \/ \E op \in {"buy", "book", "mute", "drop", "confirm", "cancel"} : Tap(h, op)

\* Goroutines are scheduled, and a purchase elsewhere gives the permit back.
Fairness == WF_vars(OtherDone) /\ \A h \in Taps : WF_vars(Handler(h))

Spec == Init /\ [][Next]_vars /\ Fairness

-----------------------------------------------------------------------------
(* Properties *)

TypeOK ==
  /\ keyboard \in DOMAIN Offers /\ told \subseteq Taps /\ permit \in Taps \cup {"free", "other"}
  /\ ask \in Asks \cup {SigPrice} /\ paid \in Asks \cup {SigPrice}

\* A card that sat in the chat spends at most the price it shows, whatever the
\* seller did before the tap, while it waited for the permit, or between the
\* second reading and the write.
PaidWithinCard == paid <= SigPrice

\* Every tap and command gets its answer into the chat, on a card too old to be
\* edited or already dismissed as well ("do not lose the result over that").
EveryTapAnswered == \A h \in Taps : task[h].at = "tapped" ~> h \in told

\* "The purchase result replaces the card.  Leaving a live Buy button on a
\* listing we already acted on is how double-taps happen."
ActedCardIsDead ==
  (paid > 0 /\ \A h \in Taps : task[h].at \in {"idle", "done"}) => keyboard \in {"none", "gone"}
=============================================================================
