----------------------------- MODULE BlockProofs -----------------------------
(***************************************************************************)
(* Proofs about BlockControl, for any number of routes and callers, any    *)
(* ladder of rests and pauses and any intervals: what the desk tells the   *)
(* operator of a block, how long it cools, and when a route rests.         *)
(***************************************************************************)
EXTENDS BlockControl, TLAPS, WellFoundedInduction

\* The ranges the arguments below need.
Ranges ==
  /\ at = [c \in Callers |-> at[c]]
  /\ blocked \in BOOLEAN /\ announced \in BOOLEAN /\ rearmed \in BOOLEAN
  /\ hold \in Nat /\ cool \in Nat /\ probe \in Nat /\ pause \in Nat /\ knocks \in Nat
  /\ blockEpisodes \in 0..Len(Pauses)
  /\ consecutive \in [Routes -> Nat] /\ rests \in [Routes -> Nat] /\ rest \in [Routes -> Nat]
  /\ refused \in [Routes -> Nat]

\* A block is announced by the one caller that opened the episode, and the
\* episode outlives the announcement: its hold has not run out.
OneHerald ==
  /\ \A c \in Callers : at[c] = "announce" => blocked /\ ~announced /\ hold > 0
  /\ \A c, d \in Callers : at[c] = "announce" /\ at[d] = "announce" => c = d

\* An all-clear is owed exactly while an announced block lasts.
NoticeOwed ==
  /\ announced => blocked /\ owed = 1
  /\ ~announced => owed = 0

\* The pollers cool for the current episode, and no longer than it says.
CoolsForEpisode ==
  /\ blocked => blockEpisodes > 0 /\ cool <= Pauses[blockEpisodes]
  /\ ~blocked => cool = 0
  /\ BuyingPausedWhileCooling

\* A second poll has to wait for the slot the first one took.
SlotTaken == knocks <= 1 /\ (knocks = 1 => probe > 0)

\* The pool counts no refusal the route did not give since it last answered.
RefusalsCounted ==
  /\ \A r \in Routes : consecutive[r] < RestAfter /\ consecutive[r] <= refused[r] /\ refused[r] <= RestAfter
  /\ RestIsEarned

IInv == Ranges /\ CoolsForEpisode /\ RefusalsCounted

-----------------------------------------------------------------------------
\* The rung of a ladder is one of its rungs.
LEMMA Rung ==
  ASSUME NEW s \in Seq(Nat) \ {<<>>}, NEW n \in Nat \ {0}
  PROVE  Clamp(n, s) \in 1..Len(s) /\ Clamp(n, s) \in Nat /\ s[Clamp(n, s)] \in Nat
<1>1. Len(s) \in Nat /\ Len(s) # 0 /\ \A i \in 1..Len(s) : s[i] \in Nat
  OBVIOUS
<1>2. Clamp(n, s) \in 1..Len(s)
  BY <1>1 DEF Clamp
<1>3. QED  BY <1>1, <1>2

\* Only the report that opens an episode sends a caller on to announce it.
LEMMA Heralds ==
  ASSUME Ranges, NEW c \in Callers, Call(c)
  PROVE  /\ \A d \in Callers \ {c} : at'[d] = at[d]
         /\ at' = [d \in Callers |-> at'[d]]
         /\ at'[c] = "announce" => OnBlocked(c) /\ ~blocked
BY DEF Call, Choose, Answered, Refused, Failed, OnBlocked, Announce, NoteRecovered, Again, Ends, Ranges

\* Refusals and answers keep the pool's counts in range.
LEMMA RouteRanges ==
  ASSUME RoutesAssumption, TimesAssumption, Ranges, NEW r,
         Refuse(r) \/ Reward(r) \/ UNCHANGED <<consecutive, rests, rest>>
  PROVE  consecutive' \in [Routes -> Nat] /\ rests' \in [Routes -> Nat] /\ rest' \in [Routes -> Nat]
<1> DEFINE Counts == [Routes -> Nat]
<1>1. consecutive \in Counts /\ rests \in Counts /\ rest \in Counts
  BY DEF Ranges
<1>2. \A f \in Counts, v \in Nat : [f EXCEPT ![r] = v] \in Counts
  OBVIOUS
<1>3. \A f \in Counts : \A v : r \notin Routes => [f EXCEPT ![r] = v] = f
  OBVIOUS
<1> HIDE DEF Counts
<1>4. CASE Reward(r)
  BY <1>1, <1>2, <1>4 DEF Reward, Counts
<1>5. CASE UNCHANGED <<consecutive, rests, rest>>
  BY <1>1, <1>5 DEF Counts
<1>6. CASE Refuse(r)
  <2>1. CASE r \in Routes
    <3>1. consecutive[r] + 1 \in Nat /\ rests[r] + 1 \in Nat \ {0} /\ rest[r] \in Nat
      BY <1>1, <2>1 DEF Counts
    <3>2. Clamp(rests[r] + 1, Rests) \in Nat /\ Rests[Clamp(rests[r] + 1, Rests)] \in Nat
      BY <3>1, Rung DEF TimesAssumption
    <3>3. Larger(rest[r], Rests[Clamp(rests[r] + 1, Rests)]) \in Nat
      BY <3>1, <3>2 DEF Larger
    <3>4. QED  BY <1>1, <1>2, <1>6, <3>1, <3>2, <3>3 DEF Refuse, Counts
  <2>2. CASE r \notin Routes
    BY <1>1, <1>3, <1>6, <2>2 DEF Refuse, Counts
  <2>3. QED  BY <2>1, <2>2
<1>7. QED  BY <1>4, <1>5, <1>6

\* A reported episode is on a rung of the ladder of pauses.
LEMMA EpisodeRung ==
  ASSUME TimesAssumption, Ranges, CoolsForEpisode, NEW c \in Callers, OnBlocked(c)
  PROVE  /\ blockEpisodes' \in 1..Len(Pauses)
         /\ Pauses[blockEpisodes'] \in Nat
         /\ cool' = Larger(cool, Pauses[blockEpisodes'])
         /\ pause' = Larger(pause, Pauses[blockEpisodes'])
         /\ blocked => blockEpisodes' = blockEpisodes
<1> DEFINE episodes == IF blocked THEN blockEpisodes ELSE blockEpisodes + 1
<1>1. Pauses \in Seq(Nat) \ {<<>>} /\ Len(Pauses) \in Nat
  BY DEF TimesAssumption
<1>2. blockEpisodes \in Nat /\ blockEpisodes <= Len(Pauses) /\ (blocked => blockEpisodes > 0)
  BY <1>1 DEF Ranges, CoolsForEpisode
<1>3. episodes \in Nat \ {0} /\ (blocked => episodes = blockEpisodes)
  BY <1>2
<1>4. Clamp(episodes, Pauses) \in 1..Len(Pauses) /\ Pauses[Clamp(episodes, Pauses)] \in Nat
  BY <1>1, <1>3, Rung
<1>5. blocked => Clamp(episodes, Pauses) = blockEpisodes
  BY <1>1, <1>2, <1>3 DEF Clamp
<1>6. /\ blockEpisodes' = Clamp(episodes, Pauses)
      /\ cool' = Larger(cool, Pauses[Clamp(episodes, Pauses)])
      /\ pause' = Larger(pause, Pauses[Clamp(episodes, Pauses)])
  BY DEF OnBlocked, PauseBuying
<1>7. QED  BY <1>4, <1>5, <1>6

LEMMA RangesStep ==
  ASSUME RoutesAssumption, TimesAssumption, Ranges, CoolsForEpisode, [Next]_vars
  PROVE  Ranges'
<1>1. /\ Hold \in Nat /\ ProbeEvery \in Nat /\ RestAfter \in Nat
      /\ Len(Pauses) \in Nat
      /\ \A a, b \in Nat : Larger(a, b) \in Nat /\ Less(a) \in Nat
  BY DEF RoutesAssumption, TimesAssumption, Larger, Less
<1>2. ASSUME NEW c \in Callers, Choose(c) \/ Failed(c) \/ Announce(c)
      PROVE  Ranges'
  <2>1. at' = [d \in Callers |-> at'[d]]
    BY <1>2, Heralds DEF Call
  <2>2. announced' \in BOOLEAN
    BY <1>2 DEF Choose, Failed, Announce, Ranges, app
  <2>3. UNCHANGED <<blocked, rearmed, hold, cool, probe, pause, knocks, blockEpisodes,
                    consecutive, rests, rest, refused>>
    BY <1>2 DEF Choose, Failed, Announce, app, routes, ghosts
  <2>4. QED  BY <2>1, <2>2, <2>3 DEF Ranges
<1>3. ASSUME NEW c \in Callers, Answered(c) \/ Refused(c)
      PROVE  Ranges'
  <2>1. at' = [d \in Callers |-> at'[d]]
    BY <1>3, Heralds DEF Call
  <2>2. consecutive' \in [Routes -> Nat] /\ rests' \in [Routes -> Nat] /\ rest' \in [Routes -> Nat]
    BY <1>3, RouteRanges DEF Answered, Refused
  <2>3. UNCHANGED <<blocked, announced, rearmed, hold, cool, probe, pause, knocks, blockEpisodes>>
    BY <1>3 DEF Answered, Refused
  <2>4. refused' \in [Routes -> Nat]
    <3> DEFINE r == on[c]
    <3>1. \A f \in [Routes -> Nat], v \in Nat : [f EXCEPT ![r] = v] \in [Routes -> Nat]
      OBVIOUS
    <3>2. CASE Answered(c)
      BY <3>1, <3>2 DEF Answered, Ranges
    <3>3. CASE Refused(c) /\ r \in Routes
      <4>1. refused[r] \in Nat /\ refused[r] + 1 \in Nat
        BY <3>3 DEF Ranges
      <4>2. QED  BY <3>1, <3>3, <4>1 DEF Refused, Ranges
    <3>4. CASE Refused(c) /\ r \notin Routes
      <4>1. \A f \in [Routes -> Nat] : \A v : [f EXCEPT ![r] = v] = f
        BY <3>4
      <4>2. QED  BY <3>4, <4>1 DEF Refused, Ranges
    <3>5. QED  BY <1>3, <3>2, <3>3, <3>4
  <2>5. QED  BY <2>1, <2>2, <2>3, <2>4 DEF Ranges
<1>4. ASSUME NEW c \in Callers, OnBlocked(c)
      PROVE  Ranges'
  <2>1. at' = [d \in Callers |-> at'[d]]
    BY <1>4, Heralds DEF Call
  <2>2. blockEpisodes' \in 0..Len(Pauses) /\ cool' \in Nat /\ pause' \in Nat
    <3>1. /\ blockEpisodes' \in 1..Len(Pauses) /\ Pauses[blockEpisodes'] \in Nat
          /\ cool' = Larger(cool, Pauses[blockEpisodes'])
          /\ pause' = Larger(pause, Pauses[blockEpisodes'])
      BY <1>4, EpisodeRung
    <3>2. cool \in Nat /\ pause \in Nat
      BY DEF Ranges
    <3>3. blockEpisodes' \in 0..Len(Pauses)
      BY <3>1
    <3>4. Larger(cool, Pauses[blockEpisodes']) \in Nat /\ Larger(pause, Pauses[blockEpisodes']) \in Nat
      BY <3>1, <3>2 DEF Larger
    <3>5. QED  BY <3>1, <3>3, <3>4
  <2>3. /\ blocked' \in BOOLEAN /\ rearmed' \in BOOLEAN /\ hold' \in Nat /\ knocks' \in Nat
        /\ UNCHANGED <<announced, probe, consecutive, rests, rest, refused>>
    BY <1>1, <1>4 DEF OnBlocked, Ranges, routes
  <2>4. QED  BY <2>1, <2>2, <2>3 DEF Ranges
<1>5. ASSUME NEW c \in Callers, NoteRecovered(c)
      PROVE  Ranges'
  <2>1. at' = [d \in Callers |-> at'[d]]
    BY <1>5, Heralds DEF Call
  <2>2. CASE Recovers
    <3>1. blockEpisodes' = 0 /\ 0 \in 0..Len(Pauses)
      BY <1>1, <2>2 DEF Recovers
    <3>2. UNCHANGED <<rearmed, hold, probe, pause, consecutive, rests, rest, refused>>
      BY <1>5 DEF NoteRecovered, routes
    <3>3. QED  BY <2>1, <2>2, <3>1, <3>2 DEF Recovers, Ranges
  <2>3. CASE UNCHANGED <<blocked, announced, blockEpisodes, cool, knocks, owed>>
    BY <1>5, <2>1, <2>3 DEF NoteRecovered, Ranges, routes
  <2>4. QED  BY <1>5, <2>2, <2>3 DEF NoteRecovered
<1>6. ASSUME NEW p \in Gated, Poll(p)
      PROVE  Ranges'
  <2>1. probe' \in Nat
    BY <1>1, <1>6 DEF Poll, MayPoll, Ranges
  <2>2. knocks' \in Nat
    BY <1>6 DEF Poll, Ranges
  <2>3. at' = [d \in Callers |-> at'[d]]
    BY <1>6 DEF Poll, Begin, Ranges
  <2>4. UNCHANGED <<blocked, announced, rearmed, hold, cool, pause, blockEpisodes,
                    consecutive, rests, rest, refused>>
    BY <1>6 DEF Poll, routes
  <2>5. QED  BY <2>1, <2>2, <2>3, <2>4 DEF Ranges
<1>7. CASE (\E c \in Writers : Write(c)) \/ PollGram
  BY <1>7 DEF Write, Begin, PollGram, Ranges, routes, app, ghosts
<1>8. CASE Arm
  BY <1>8 DEF Arm, Ranges, routes, callers
<1>9. CASE UNCHANGED vars \/ \E r \in Routes, m \in {"open", "refusing", "down"} : Mood(r, m)
  BY <1>9 DEF Mood, Ranges, routes, app, callers, ghosts, vars
<1>10. CASE Tick
  BY <1>1, <1>10 DEF Tick, Ranges, callers
<1>11. QED
  BY <1>2, <1>3, <1>4, <1>5, <1>6, <1>7, <1>8, <1>9, <1>10 DEF Next, Call

\* An episode's pause is what the pollers cool for, and buying pauses with them.
LEMMA CoolsStep ==
  ASSUME TimesAssumption, Ranges, CoolsForEpisode, [Next]_vars
  PROVE  CoolsForEpisode'
<1> USE DEF CoolsForEpisode, BuyingPausedWhileCooling
<1>1. ASSUME NEW c \in Callers, OnBlocked(c)
      PROVE  CoolsForEpisode'
  <2>1. /\ blockEpisodes' \in 1..Len(Pauses) /\ Pauses[blockEpisodes'] \in Nat
        /\ cool' = Larger(cool, Pauses[blockEpisodes'])
        /\ pause' = Larger(pause, Pauses[blockEpisodes'])
        /\ blocked => blockEpisodes' = blockEpisodes
    BY <1>1, EpisodeRung
  <2>2. cool \in Nat /\ pause \in Nat /\ cool <= Pauses[blockEpisodes'] /\ blockEpisodes' > 0
    BY <2>1 DEF Ranges
  <2>3. cool' <= Pauses[blockEpisodes'] /\ cool' <= pause'
    BY <2>1, <2>2 DEF Larger
  <2>4. blocked' = TRUE
    BY <1>1 DEF OnBlocked
  <2>5. QED  BY <2>2, <2>3, <2>4
<1>2. ASSUME NEW c \in Callers, NoteRecovered(c)
      PROVE  CoolsForEpisode'
  BY <1>2 DEF NoteRecovered, Recovers, Ranges
<1>3. CASE Arm
  BY <1>3 DEF Arm
<1>4. CASE Tick
  <2>1. cool \in Nat /\ pause \in Nat /\ (blocked => blockEpisodes > 0)
    BY DEF Ranges
  <2>2. /\ UNCHANGED <<blocked, blockEpisodes, rearmed>>
        /\ cool' = Less(cool) /\ pause' = Less(pause)
    BY <1>4 DEF Tick
  <2>3. cool' <= cool /\ (cool <= pause => cool' <= pause') /\ (cool = 0 => cool' = 0)
    BY <2>1, <2>2 DEF Less
  <2>4. cool' \in Nat
    BY <2>1, <2>2 DEF Less
  <2>5. blocked => cool' <= Pauses[blockEpisodes]
    <3>1. CASE blocked
      <4>1. blockEpisodes \in 1..Len(Pauses) /\ Pauses[blockEpisodes] \in Nat
        BY <2>1, <3>1, SMTT(60) DEF Ranges, TimesAssumption
      <4>2. QED  BY <2>1, <2>3, <2>4, <3>1, <4>1
    <3>2. QED  BY <3>1
  <2>6. QED  BY <2>2, <2>3, <2>5
<1>5. CASE UNCHANGED <<blocked, blockEpisodes, cool, pause, rearmed>>
  BY <1>5
<1>6. QED
  BY <1>1, <1>2, <1>3, <1>4, <1>5 DEF Next, Call, Choose, Answered, Refused, Failed, Announce, Poll,
     Write, PollGram, Mood, app, ghosts, vars

\* The refusals that rest a route are refusals it gave since it last answered.
LEMMA RefusalsStep ==
  ASSUME RoutesAssumption, TimesAssumption, Ranges, RefusalsCounted, [Next]_vars
  PROVE  RefusalsCounted'
<1> USE DEF RefusalsCounted, RestIsEarned
<1>1. ASSUME NEW c \in Callers, Answered(c)
      PROVE  RefusalsCounted'
  <2>1. \A r \in Routes :
          \/ consecutive'[r] = 0 /\ refused'[r] = 0 /\ rest'[r] = 0
          \/ consecutive'[r] = consecutive[r] /\ refused'[r] = refused[r] /\ rest'[r] = rest[r]
    BY <1>1 DEF Answered, Reward, Ranges
  <2>2. QED  BY <2>1 DEF RoutesAssumption
<1>2. ASSUME NEW c \in Callers, Refused(c)
      PROVE  RefusalsCounted'
  <2> DEFINE r == on[c]
  <2>1. /\ Refuse(r)
        /\ refused' = [refused EXCEPT ![r] = IF @ = RestAfter THEN @ ELSE @ + 1]
    BY <1>2 DEF Refused
  <2>2. \A o \in Routes : o # r => /\ consecutive'[o] = consecutive[o]
                                  /\ refused'[o] = refused[o] /\ rest'[o] = rest[o]
    BY <2>1 DEF Refuse, Ranges
  <2>3. CASE r \in Routes
    <3>1. /\ consecutive[r] \in Nat /\ refused[r] \in Nat /\ RestAfter \in Nat
          /\ consecutive[r] < RestAfter /\ consecutive[r] <= refused[r] /\ refused[r] <= RestAfter
          /\ rest[r] > 0 => refused[r] = RestAfter
      BY <2>3 DEF Ranges, RoutesAssumption
    <3>2. refused'[r] = IF refused[r] = RestAfter THEN refused[r] ELSE refused[r] + 1
      BY <2>1, <2>3 DEF Ranges
    <3>3. \/ consecutive[r] + 1 < RestAfter /\ consecutive'[r] = consecutive[r] + 1 /\ rest'[r] = rest[r]
          \/ consecutive[r] + 1 >= RestAfter /\ consecutive'[r] = 0
      BY <2>1, <2>3, <3>1 DEF Refuse, Ranges
    <3>4. /\ consecutive'[r] < RestAfter /\ consecutive'[r] <= refused'[r] /\ refused'[r] <= RestAfter
          /\ rest'[r] > 0 => refused'[r] = RestAfter
      BY <3>1, <3>2, <3>3
    <3>5. QED  BY <2>2, <3>4
  <2>4. CASE r \notin Routes
    BY <2>2, <2>4
  <2>5. QED  BY <2>3, <2>4
<1>3. CASE Tick
  <2>1. UNCHANGED <<consecutive, refused>>
    BY <1>3 DEF Tick
  <2>2. \A r \in Routes : rest'[r] > 0 => rest[r] > 0
    BY <1>3 DEF Tick, Less, Ranges
  <2>3. QED  BY <2>1, <2>2
<1>4. CASE UNCHANGED <<consecutive, rest, refused>>
  BY <1>4
<1>5. QED
  BY <1>1, <1>2, <1>3, <1>4 DEF Next, Call, Choose, Failed, OnBlocked, Announce, NoteRecovered, Poll,
     Write, PollGram, Arm, Mood, routes, app, ghosts, vars

\* One caller announces an episode, and the episode lasts until it has.
LEMMA HeraldStep ==
  ASSUME Hold > 0, Ranges, OneHerald, NoticeOwed, [Next]_vars
  PROVE  OneHerald' /\ NoticeOwed'
<1> USE DEF OneHerald, NoticeOwed
<1>1. ASSUME NEW c \in Callers, OnBlocked(c)
      PROVE  OneHerald' /\ NoticeOwed'
  <2>1. /\ blocked' = TRUE /\ hold' = Hold /\ announced' = announced /\ owed' = owed
    BY <1>1 DEF OnBlocked
  <2>2. \A d \in Callers \ {c} : at'[d] = at[d]
    BY <1>1, Heralds DEF Call
  <2>3. at'[c] = "announce" => ~blocked
    BY <1>1, Heralds DEF Call
  <2>4. QED  BY <2>1, <2>2, <2>3
<1>2. ASSUME NEW c \in Callers, Announce(c)
      PROVE  OneHerald' /\ NoticeOwed'
  <2>1. /\ at[c] = "announce" /\ UNCHANGED <<blocked, hold>>
        /\ (announced' = TRUE /\ owed' = owed + 1) \/ UNCHANGED <<announced, owed>>
    BY <1>2 DEF Announce
  <2>2. \A d \in Callers \ {c} : at'[d] = at[d]
    BY <1>2, Heralds DEF Call
  <2>3. at'[c] # "announce"
    BY <1>2, <2>1, Heralds DEF Call, OnBlocked
  <2>4. QED  BY <2>1, <2>2, <2>3
<1>3. ASSUME NEW c \in Callers, NoteRecovered(c)
      PROVE  OneHerald' /\ NoticeOwed'
  <2>1. \A d \in Callers : at'[d] = "announce" => at[d] = "announce"
    BY <1>3 DEF NoteRecovered, Ranges
  <2>2. CASE hold = 0 /\ Recovers
    BY <2>1, <2>2 DEF Recovers
  <2>3. CASE UNCHANGED <<blocked, announced, owed>>
    <3>1. hold' = hold
      BY <1>3 DEF NoteRecovered
    <3>2. QED  BY <2>1, <2>3, <3>1
  <2>4. QED  BY <1>3, <2>2, <2>3 DEF NoteRecovered
<1>4. CASE Tick
  <2>1. \A d \in Callers : at'[d] # "announce"
    BY <1>4 DEF Tick, callers
  <2>2. UNCHANGED <<blocked, announced, owed>>
    BY <1>4 DEF Tick
  <2>3. QED  BY <2>1, <2>2
<1>5. ASSUME UNCHANGED <<blocked, announced, owed, hold>>,
             \A d \in Callers : at'[d] = "announce" => at[d] = "announce"
      PROVE  OneHerald' /\ NoticeOwed'
  BY <1>5
<1>6. ASSUME NEW c \in Callers, Choose(c) \/ Answered(c) \/ Refused(c) \/ Failed(c)
      PROVE  OneHerald' /\ NoticeOwed'
  <2>1. UNCHANGED <<blocked, announced, owed, hold>>
    BY <1>6 DEF Choose, Answered, Refused, Failed, app, ghosts
  <2>2. at'[c] # "announce" /\ \A d \in Callers \ {c} : at'[d] = at[d]
    BY <1>6, Heralds DEF Call, Choose, Answered, Refused, Failed, OnBlocked
  <2>3. QED  BY <1>5, <2>1, <2>2
<1>7. CASE (\E p \in Gated : Poll(p)) \/ (\E c \in Writers : Write(c)) \/ PollGram
  <2>1. UNCHANGED <<blocked, announced, owed, hold>>
    BY <1>7 DEF Poll, Write, PollGram, app, ghosts
  <2>2. \A d \in Callers : at'[d] = "announce" => at[d] = "announce"
    BY <1>7 DEF Poll, Write, PollGram, Begin, Ranges
  <2>3. QED  BY <1>5, <2>1, <2>2
<1>8. CASE Arm \/ UNCHANGED vars \/ \E r \in Routes, m \in {"open", "refusing", "down"} : Mood(r, m)
  BY <1>5, <1>8 DEF Arm, Mood, app, callers, ghosts, vars
<1>9. QED
  BY <1>1, <1>2, <1>3, <1>4, <1>6, <1>7, <1>8 DEF Next, Call

\* The slot of a poll is not over before the next one is due.
LEMMA SlotStep ==
  ASSUME ProbeEvery \in Nat \ {0}, Ranges, SlotTaken, [Next]_vars
  PROVE  SlotTaken'
<1> USE DEF SlotTaken
<1>1. ASSUME NEW p \in Gated, Poll(p)
      PROVE  SlotTaken'
  <2>1. CASE cool > 0
    BY <1>1, <2>1 DEF Poll, MayPoll, Ranges
  <2>2. CASE ~(cool > 0)
    BY <1>1, <2>2 DEF Poll, MayPoll
  <2>3. QED  BY <2>1, <2>2
<1>2. CASE Tick
  BY <1>2 DEF Tick, Less, Ranges
<1>3. ASSUME knocks' \in {0, knocks}, probe' = probe
      PROVE  SlotTaken'
  BY <1>3
<1>4. ASSUME NEW c \in Callers, Call(c)
      PROVE  SlotTaken'
  <2>1. knocks' \in {0, knocks} /\ probe' = probe
    BY <1>4 DEF Call, Choose, Answered, Refused, Failed, OnBlocked, Announce, NoteRecovered,
       Recovers, app, ghosts
  <2>2. QED  BY <1>3, <2>1
<1>5. CASE UNCHANGED <<knocks, probe>>
  BY <1>3, <1>5
<1>6. QED
  BY <1>1, <1>2, <1>4, <1>5 DEF Next, Write, PollGram, Arm, Mood, app, ghosts, vars

-----------------------------------------------------------------------------
LEMMA Inductive ==
  ASSUME RoutesAssumption, TimesAssumption
  PROVE  Spec => []IInv
<1>1. Init => IInv
  <2> SUFFICES ASSUME Init PROVE IInv
    OBVIOUS
  <2>1. RestAfter \in Nat /\ RestAfter > 0 /\ 0 \in 0..Len(Pauses)
    BY DEF RoutesAssumption, TimesAssumption
  <2>2. /\ at = [c \in Callers |-> at[c]]
        /\ consecutive \in [Routes -> Nat] /\ rests \in [Routes -> Nat] /\ rest \in [Routes -> Nat]
        /\ refused \in [Routes -> Nat]
    BY DEF Init
  <2>3. Ranges
    BY <2>1, <2>2 DEF Init, Ranges
  <2>4. CoolsForEpisode
    BY DEF Init, CoolsForEpisode, BuyingPausedWhileCooling
  <2>5. RefusalsCounted
    BY <2>1 DEF Init, RefusalsCounted, RestIsEarned
  <2>6. QED  BY <2>3, <2>4, <2>5 DEF IInv
<1>2. IInv /\ [Next]_vars => IInv'
  BY RangesStep, CoolsStep, RefusalsStep DEF IInv
<1>3. QED  BY <1>1, <1>2, PTL DEF Spec

(* Theorems *)

\* A block is announced at most once before its all-clear, and an all-clear
\* answers an announcement: the hold outlasts the moment between the two
\* critical sections.
THEOREM NoticesPair ==
  ASSUME RoutesAssumption, TimesAssumption, Hold > 0
  PROVE  Spec => []AllClearAnswersNotice
<1>1. Init => OneHerald /\ NoticeOwed
  BY DEF Init, OneHerald, NoticeOwed
<1>2. IInv /\ OneHerald /\ NoticeOwed /\ [Next]_vars => OneHerald' /\ NoticeOwed'
  BY HeraldStep DEF IInv
<1>3. IInv /\ NoticeOwed => AllClearAnswersNotice
  BY DEF IInv, Ranges, NoticeOwed, AllClearAnswersNotice
<1>4. QED  BY <1>1, <1>2, <1>3, Inductive, PTL DEF Spec

\* The desk cools only while blocked, and buying pauses at least as long, unless
\* the operator armed since the last report.
THEOREM CoolsAndPauses ==
  ASSUME RoutesAssumption, TimesAssumption
  PROVE  Spec => [](CoolingOnlyWhileBlocked /\ BuyingPausedWhileCooling)
<1>1. IInv => CoolingOnlyWhileBlocked /\ BuyingPausedWhileCooling
  BY DEF IInv, CoolsForEpisode, CoolingOnlyWhileBlocked
<1>2. QED  BY <1>1, Inductive, PTL

\* A route rests only after RestAfter refusals since its last answer, however
\* many calls are on the wire.
THEOREM RestsEarned ==
  ASSUME RoutesAssumption, TimesAssumption
  PROVE  Spec => []RestIsEarned
<1>1. IInv => RestIsEarned
  BY DEF IInv, RefusalsCounted
<1>2. QED  BY <1>1, Inductive, PTL

\* While the desk cools the private endpoints see one poll per probe slot,
\* whichever pollers are ready.
THEOREM OneProbe ==
  ASSUME RoutesAssumption, TimesAssumption, ProbeEvery > 0
  PROVE  Spec => []OneKnock
<1>1. Init => SlotTaken
  BY DEF Init, SlotTaken
<1>2. IInv /\ SlotTaken /\ [Next]_vars => SlotTaken'
  BY SlotStep DEF IInv, TimesAssumption
<1>3. SlotTaken => OneKnock
  BY DEF SlotTaken, OneKnock
<1>4. QED  BY <1>1, <1>2, <1>3, Inductive, PTL DEF Spec

\* The three together: the desk cools only for a block, buying pauses with it,
\* and a cooling desk knocks once per probe slot.
THEOREM DeskCools ==
  ASSUME RoutesAssumption, TimesAssumption, ProbeEvery > 0
  PROVE  Spec => []CoolingHolds
<1>1. CoolingOnlyWhileBlocked /\ BuyingPausedWhileCooling /\ OneKnock => CoolingHolds
  BY DEF CoolingHolds
<1>2. QED  BY <1>1, CoolsAndPauses, OneProbe, PTL

-----------------------------------------------------------------------------
(* The order of routes *)

\* What choosing a route depends on.
RouteRecords ==
  /\ on = [c \in Callers |-> on[c]]
  /\ recent \in [Routes -> Int] /\ \A r \in Routes : recent[r] <= N
  /\ idx \in Int

\* A set of naturals has a least element.
LEMMA LeastNumber ==
  ASSUME NEW T \in SUBSET Nat, T # {}
  PROVE  \E x \in T : \A y \in T : x <= y
<1>1. PICK x \in T : \A y \in T : <<y, x>> \notin OpToRel(<, Nat)
  BY WFMin, NatLessThanWellFounded
<1>2. \A y \in T : ~(y < x)
  BY <1>1 DEF OpToRel
<1>3. QED  BY <1>2

\* Somebody comes first in every round, and a read takes him.
LEMMA PickIsCandidate ==
  ASSUME RoutesAssumption, RouteRecords, NEW skip, Candidates(skip) # {}
  PROVE  Pick(skip) \in Candidates(skip)
<1> DEFINE s == Candidates(skip)
<1>1. s \subseteq Routes /\ s # {}
  BY DEF Candidates, Untried, Up
<1>2. \A r \in s : Turn(r) \in Nat
  BY <1>1 DEF RoutesAssumption, RouteRecords, Routes, Turn
<1>3. \E r \in s : \A o \in s : Turn(r) <= Turn(o)
  <2> DEFINE T == {Turn(r) : r \in s}
  <2>1. T \in SUBSET Nat /\ T # {}
    BY <1>1, <1>2
  <2> HIDE DEF s
  <2>2. PICK x \in T : \A y \in T : x <= y
    BY <2>1, LeastNumber
  <2>3. QED  BY <2>2
<1>4. QED  BY <1>1, <1>3 DEF Pick

\* Among the candidates one answered last, and a write takes him.
LEMMA StickyIsCandidate ==
  ASSUME RoutesAssumption, RouteRecords, NEW skip, Candidates(skip) # {}
  PROVE  Sticky(skip) \in Candidates(skip)
<1> DEFINE s == Candidates(skip)
<1>1. s \subseteq Routes /\ s # {}
  BY DEF Candidates, Untried, Up
<1>2. \A r \in s : r \in Nat /\ N - recent[r] \in Nat /\ recent[r] \in Int /\ N \in Nat
  BY <1>1 DEF RoutesAssumption, RouteRecords, Routes
<1> HIDE DEF s
<1>3. PICK m \in s : \A o \in s : N - recent[m] <= N - recent[o]
  <2> DEFINE T == {N - recent[r] : r \in s}
  <2>1. T \in SUBSET Nat /\ T # {}
    BY <1>1, <1>2
  <2>2. PICK x \in T : \A y \in T : x <= y
    BY <2>1, LeastNumber
  <2>3. QED  BY <2>2
<1>4. \A o \in s : recent[m] >= recent[o]
  BY <1>2, <1>3
<1>5. \E r \in s : \A o \in s : recent[r] > recent[o] \/ (recent[r] = recent[o] /\ r <= o)
  <2> DEFINE T == {r \in s : recent[r] = recent[m]}
  <2>1. T \in SUBSET Nat /\ T # {}
    BY <1>2, <1>3
  <2>2. PICK x \in T : \A y \in T : x <= y
    BY <2>1, LeastNumber
  <2>3. \A o \in s : recent[x] > recent[o] \/ (recent[x] = recent[o] /\ x <= o)
    BY <1>2, <1>4, <2>2
  <2>4. QED  BY <2>3
<1>6. QED  BY <1>1, <1>5 DEF Sticky, s

LEMMA RecordsStep ==
  ASSUME RoutesAssumption, RouteRecords, [Next]_vars
  PROVE  RouteRecords'
<1>1. on' = [c \in Callers |-> on'[c]]
  BY DEF RouteRecords, Next, Call, Choose, Answered, Refused, Failed, OnBlocked, Announce, NoteRecovered,
    Again, Ends, Poll, Write, Begin, PollGram, Arm, Mood, Tick, app, routes, callers, vars
<1>2. recent' \in [Routes -> Int] /\ \A r \in Routes : recent'[r] <= N
  <2>1. CASE UNCHANGED recent
    BY <2>1 DEF RouteRecords
  <2>2. ASSUME NEW r, recent' = [o \in Routes |-> IF o = r THEN N
                                 ELSE IF recent[o] > recent[r] THEN recent[o] - 1 ELSE recent[o]]
        PROVE  recent' \in [Routes -> Int] /\ \A o \in Routes : recent'[o] <= N
    <3>1. N \in Nat /\ \A o \in Routes : recent[o] \in Int /\ recent[o] <= N
      BY DEF RoutesAssumption, RouteRecords
    <3>2. ASSUME NEW o \in Routes
          PROVE  recent'[o] \in Int /\ recent'[o] <= N
      <4>1. recent'[o] \in {N, recent[o] - 1, recent[o]}
        BY <2>2
      <4>2. QED  BY <3>1, <4>1
    <3>3. recent' = [o \in Routes |-> recent'[o]]
      BY <2>2
    <3>4. QED  BY <3>2, <3>3
  <2>3. ASSUME NEW c \in Callers, Call(c)
        PROVE  UNCHANGED recent \/ \E r : recent' = [o \in Routes |-> IF o = r THEN N
                                 ELSE IF recent[o] > recent[r] THEN recent[o] - 1 ELSE recent[o]]
    BY <2>3 DEF Call, Choose, Answered, Refused, Failed, OnBlocked, Announce, NoteRecovered, Reward, routes
  <2>4. QED
    BY <2>1, <2>2, <2>3 DEF Next, Poll, Write, PollGram, Arm, Mood, Tick, routes, vars
<1>3. idx' \in Int
  <2>1. ASSUME NEW c \in Callers, Choose(c)
        PROVE  idx' \in Int
    <3>1. CASE Candidates(tried[c]) = {}
      BY <2>1, <3>1 DEF Choose, Cursor, RouteRecords
    <3>2. CASE Candidates(tried[c]) # {}
      <4>1. Pick(tried[c]) \in Routes
        BY <3>2, PickIsCandidate DEF Candidates, Untried, Up
      <4>2. Pick(tried[c]) % N \in Int
        BY <4>1 DEF Routes, RoutesAssumption
      <4>3. QED  BY <2>1, <3>2, <4>2 DEF Choose, Cursor
    <3>3. QED  BY <3>1, <3>2
  <2>2. CASE UNCHANGED idx
    BY <2>2 DEF RouteRecords
  <2>3. QED
    BY <2>1, <2>2 DEF Next, Call, Answered, Refused, Failed, OnBlocked, Announce, NoteRecovered,
      Poll, Write, PollGram, Arm, Mood, Tick, routes, vars
<1>4. QED  BY <1>1, <1>2, <1>3 DEF RouteRecords

\* Only Choose puts a caller on the wire.
LEMMA ChosenGoesOut ==
  ASSUME Ranges, RouteRecords, [Next]_vars,
         NEW c \in Callers, at[c] = "choose", at'[c] = "wire"
  PROVE  /\ Choose(c)
         /\ on'[c] = IF c \in Writers THEN Sticky(tried[c]) ELSE Pick(tried[c])
<1>1. \A d \in Callers : d # c /\ (Call(d) \/ Poll(d) \/ Write(d)) => at'[c] = at[c]
  BY ZenonT(60) DEF Call, Choose, Answered, Refused, Failed, OnBlocked, Announce, NoteRecovered, Again, Ends,
    Poll, Write, Begin, Ranges
<1>2. at'[c] # at[c]
  OBVIOUS
<1>3. Call(c)
  <2>1. ~(PollGram \/ Arm \/ Tick \/ (\E r \in Routes, m \in {"open", "refusing", "down"} : Mood(r, m))
          \/ UNCHANGED vars)
    BY <1>2 DEF PollGram, Arm, Mood, Tick, callers, vars, Ranges
  <2>2. ~Poll(c) /\ ~Write(c)
    BY DEF Poll, Write, Begin
  <2>3. QED  BY <1>1, <1>2, <2>1, <2>2 DEF Next, Callers
<1>4. Choose(c)
  BY <1>3 DEF Call, Answered, Refused, Failed, OnBlocked, Announce, NoteRecovered
<1>5. QED  BY <1>4 DEF Choose, RouteRecords

\* A call goes out on a paid route only when the direct one rests or has failed
\* this very call, and no call goes back to a route while one it has not tried
\* is up: for any pool, any number of calls in flight and any past of answers.
THEOREM RoutesKeepOrder ==
  ASSUME RoutesAssumption, CallersAssumption, TimesAssumption
  PROVE  Spec => RoutesInOrder
<1>1. Init => RouteRecords
  BY DEF Init, RouteRecords, Routes, RoutesAssumption
<1>2. IInv /\ RouteRecords /\ [Next]_vars => RouteRecords'
  BY RecordsStep
<1>3. ASSUME IInv, RouteRecords, [Next]_vars
      PROVE  PaysLast /\ TakesNewRoute
  <2> DOMAIN at = Callers /\ DOMAIN rest = Routes
    BY <1>3 DEF IInv, Ranges
  <2> Len(rest) = Direct
    BY <1>3 DEF IInv, Ranges, Direct, Routes, RoutesAssumption
  <2>1. ASSUME NEW c \in Callers, GoesOut(c), on'[c] # Direct, Direct \notin tried[c], ~(rest[Direct] > 0)
        PROVE  FALSE
    <3>1. on'[c] \in {Sticky(tried[c]), Pick(tried[c])}
      BY <1>3, <2>1, ChosenGoesOut DEF IInv, GoesOut
    <3>2. Direct \in Routes /\ rest[Direct] \in Nat
      BY <1>3 DEF IInv, Ranges, Direct, Routes, RoutesAssumption
    <3>3. Direct \in Up \ tried[c]
      BY <2>1, <3>2 DEF Up
    <3>4. Candidates(tried[c]) = {Direct}
      BY <3>3 DEF Candidates, Untried
    <3>5. Pick(tried[c]) = Direct /\ Sticky(tried[c]) = Direct
      BY <1>3, <3>4, PickIsCandidate, StickyIsCandidate
    <3>6. QED  BY <2>1, <3>1, <3>5
  <2>2. ASSUME NEW c \in Callers, GoesOut(c), on'[c] \in tried[c],
               NEW r \in Routes, rest[r] = 0, r \notin tried[c]
        PROVE  FALSE
    <3>1. ~(Up \subseteq tried[c])
      BY <2>2 DEF Up
    <3>2. on'[c] \in {Sticky(tried[c]), Pick(tried[c])}
      BY <1>3, <2>2, ChosenGoesOut DEF IInv, GoesOut
    <3>3. Candidates(tried[c]) # {} /\ Candidates(tried[c]) \cap tried[c] = {}
      BY <3>1 DEF Candidates, Untried
    <3>4. on'[c] \in Candidates(tried[c])
      BY <1>3, <3>2, <3>3, PickIsCandidate, StickyIsCandidate
    <3>5. QED  BY <2>2, <3>3, <3>4
  <2>3. QED  BY <2>1, <2>2 DEF PaysLast, TakesNewRoute
<1>4. QED  BY <1>1, <1>2, <1>3, Inductive, PTL DEF Spec, RoutesInOrder
=============================================================================
