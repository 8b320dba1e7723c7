----------------------------- MODULE CardProofs -----------------------------
(***************************************************************************)
(* Proofs about Card, for any number of taps and commands on a card and    *)
(* any asks of the seller: alone and as the part "card" of the run.         *)
(***************************************************************************)
EXTENDS MCSignals, TLAPS

\* A handler past the second reading carries a price the card allows.
PricesAllowed ==
  /\ lotAsk \in Nat /\ paid \in Nat
  /\ task = [h \in Taps |-> [f \in {"op", "at", "price"} |-> task[h][f]]]
  /\ \A h \in Taps : task[h].at \in {"claim", "write"} => task[h].price <= SigPrice

CardInv == PricesAllowed /\ Ca!PaidWithinCard

\* A handler that moved within its record is all that has to be looked at.
LEMMA HandlerMoves ==
  ASSUME CardInv, NEW h \in Taps, NEW k, k = [f \in {"op", "at", "price"} |-> k[f]],
         task' = [task EXCEPT ![h] = k], k.at \in {"claim", "write"} => k.price <= SigPrice,
         lotAsk' \in Nat, paid' \in Nat, paid' <= SigPrice
  PROVE  CardInv'
<1>1. /\ task' = [g \in Taps |-> [f \in {"op", "at", "price"} |-> task'[g][f]]]
      /\ \A g \in Taps : task'[g] = IF g = h THEN k ELSE task[g]
  BY DEF CardInv, PricesAllowed
<1>2. QED  BY <1>1 DEF CardInv, PricesAllowed, Ca!PaidWithinCard

LEMMA CardStep ==
  ASSUME SigPrice \in Nat, Asks \subseteq Nat, CardInv, [Ca!Next]_(Ca!vars)
  PROVE  CardInv'
<1> DEFINE Record(k) == k = [f \in {"op", "at", "price"} |-> k[f]]
<1>1. /\ lotAsk \in Nat /\ paid \in Nat /\ paid <= SigPrice
      /\ \A h \in Taps : Record(task[h])
      /\ \A h \in Taps : task[h].at \in {"claim", "write"} => task[h].price <= SigPrice
  BY DEF CardInv, PricesAllowed, Ca!PaidWithinCard
<1>2. ASSUME NEW k, Record(k), NEW where
      PROVE  /\ Record([k EXCEPT !.at = where])
             /\ [k EXCEPT !.at = where].at = where /\ [k EXCEPT !.at = where].price = k.price
  BY <1>2
<1> HIDE DEF Record
<1>3. ASSUME NEW h \in Taps, NEW k, Record(k), task' = [task EXCEPT ![h] = k],
             k.at \in {"claim", "write"} => k.price <= SigPrice, lotAsk' \in Nat, paid' \in Nat, paid' <= SigPrice
      PROVE  CardInv'
  BY <1>3, HandlerMoves DEF Record
<1>4. CASE Ca!OtherPurchase \/ Ca!OtherDone \/ Ca!CardAges \/ UNCHANGED Ca!vars
  BY <1>4 DEF Ca!OtherPurchase, Ca!OtherDone, Ca!CardAges, Ca!vars, CardInv, PricesAllowed, Ca!PaidWithinCard
<1>5. ASSUME NEW p \in Asks, Ca!Reprice(p)
      PROVE  CardInv'
  BY <1>5 DEF Ca!Reprice, CardInv, PricesAllowed, Ca!PaidWithinCard
<1>6. ASSUME NEW h \in Taps, NEW where, where \notin {"claim", "write"}, Ca!Goto(h, where), UNCHANGED <<lotAsk, paid>>
      PROVE  CardInv'
  <2> DEFINE k == [task[h] EXCEPT !.at = where]
  <2>1. task' = [task EXCEPT ![h] = k]
    BY <1>6 DEF Ca!Goto
  <2>2. Record(k) /\ k.at = where
    BY <1>1, <1>2
  <2> HIDE DEF k
  <2>3. QED  BY <1>1, <1>3, <1>6, <2>1, <2>2
<1>7. ASSUME NEW h \in Taps,
             Ca!Rekey(h) \/ Ca!DropCard(h) \/ Ca!Placeholder(h) \/ Ca!Mute(h) \/ Ca!Lock(h) \/ Ca!Refuse(h)
               \/ Ca!Edit(h) \/ Ca!Deliver(h)
      PROVE  CardInv'
  <2>1. UNCHANGED <<lotAsk, paid>>
    BY <1>7 DEF Ca!Rekey, Ca!DropCard, Ca!Placeholder, Ca!Mute, Ca!Lock, Ca!Refuse, Ca!Edit, Ca!Deliver
  <2>2. \E where \in {"lock", "quote", "mute", "edit", "deliver", "done"} : Ca!Goto(h, where)
    BY <1>7 DEF Ca!Rekey, Ca!DropCard, Ca!Placeholder, Ca!Mute, Ca!Lock, Ca!Refuse, Ca!Edit, Ca!Deliver
  <2>3. QED  BY <1>6, <2>1, <2>2
<1>8. ASSUME NEW h \in Taps, NEW op, Ca!Command(h) \/ Ca!View(h) \/ Ca!Tap(h, op)
      PROVE  CardInv'
  <2>1. ASSUME NEW x, NEW where \in {"deliver", "tapped"},
               task' = [task EXCEPT ![h].op = x, ![h].at = where], UNCHANGED <<lotAsk, paid>>
        PROVE  CardInv'
    <3> DEFINE k == [task[h] EXCEPT !.op = x, !.at = where]
    <3>1. task' = [task EXCEPT ![h] = k]
      BY <2>1
    <3>2. Record(k) /\ k.at = where
      BY <1>1 DEF Record
    <3> HIDE DEF k
    <3>3. QED  BY <1>1, <1>3, <2>1, <3>1, <3>2
  <2>2. CASE Ca!Tap(h, op)
    BY <2>1, <2>2 DEF Ca!Tap
  <2>3. CASE Ca!Command(h)
    BY <2>1, <2>3 DEF Ca!Command
  <2>4. CASE Ca!View(h)
    BY <2>1, <2>4 DEF Ca!View
  <2>5. QED  BY <1>8, <2>2, <2>3, <2>4
<1>9. ASSUME NEW h \in Taps, Ca!Requote(h)
      PROVE  CardInv'
  <2> DEFINE k == [task[h] EXCEPT !.at = "claim", !.price = lotAsk]
  <2>1. lotAsk > 0 /\ ~(lotAsk > SigPrice) /\ UNCHANGED <<lotAsk, paid>>
    BY <1>9 DEF Ca!Requote, Ca!Dearer
  <2>2. task' = [task EXCEPT ![h] = k]
    BY <1>9 DEF Ca!Requote
  <2>3. Record(k) /\ k.price = lotAsk
    BY <1>1 DEF Record
  <2> HIDE DEF k
  <2>4. k.price <= SigPrice /\ lotAsk' \in Nat /\ paid' \in Nat /\ paid' <= SigPrice
    BY <1>1, <2>1, <2>3
  <2>5. QED  BY <1>3, <2>2, <2>3, <2>4
<1>10. ASSUME NEW h \in Taps, Ca!Claim(h)
       PROVE  CardInv'
  <2>1. PICK where \in {"edit", "write"} : task' = [task EXCEPT ![h] = [task[h] EXCEPT !.at = where]]
    BY <1>10 DEF Ca!Claim, Ca!Goto
  <2>2. task[h].at = "claim" /\ UNCHANGED <<lotAsk, paid>>
    BY <1>10 DEF Ca!Claim
  <2>3. QED  BY <1>1, <1>2, <1>3, <2>1, <2>2
<1>11. ASSUME NEW h \in Taps, Ca!Write(h)
       PROVE  CardInv'
  <2>1. /\ task' = [task EXCEPT ![h] = [task[h] EXCEPT !.at = "edit"]] /\ task[h].at = "write"
        /\ paid' = IF lotAsk = task[h].price THEN lotAsk ELSE paid
        /\ lotAsk' = IF lotAsk = task[h].price THEN 0 ELSE lotAsk
    BY <1>11 DEF Ca!Write, Ca!Goto
  <2>2. paid' \in Nat /\ paid' <= SigPrice /\ lotAsk' \in Nat
    BY <1>1, <2>1
  <2>3. QED  BY <1>1, <1>2, <1>3, <2>1, <2>2
<1>12. QED
  BY <1>4, <1>5, <1>7, <1>8, <1>9, <1>10, <1>11 DEF Ca!Next, Ca!Handler

\* A tap spends at most what the card shows, with any number of handlers of the
\* card running and the seller repricing between any two of their steps
\* (App.buySignal).
THEOREM CardNeverOverspent ==
  ASSUME SigPrice \in Nat, Asks \subseteq Nat
  PROVE  /\ Ca!Spec => []Ca!PaidWithinCard
         /\ SignalsSpec => []PaidWithinCard
<1>1. Ca!Init => CardInv
  BY DEF Ca!Init, Ca!Fresh, CardInv, PricesAllowed, Ca!PaidWithinCard
<1>2. CardInv /\ [Ca!Next]_(Ca!vars) => CardInv'
  BY CardStep
<1>3. CardInv => PaidWithinCard /\ Ca!PaidWithinCard
  BY DEF CardInv, PaidWithinCard
<1>4. SignalsInit => Ca!Init
  BY DEF SignalsInit
<1>5. [SignalsNext]_<<vars, part, deal>> => [Ca!Next]_(Ca!vars)
  BY DEF SignalsNext, deal, Ca!vars
<1>6. QED  BY <1>1, <1>2, <1>3, <1>4, <1>5, PTL DEF Ca!Spec, SignalsSpec
=============================================================================
