----------------------------- MODULE DeskProofs -----------------------------
(***************************************************************************)
(* Proofs about the parts of the desk that keep something between two      *)
(* moments, for any number of callers, entries, tokens and prices and any  *)
(* lifetimes: the switches (RiskManager), the history (History), the       *)
(* settings of the operator (Settings), the caches (BookCache,             *)
(* VenueCache), the Telegram session (MiniApp) and the asks of its own     *)
(* gifts (Relist, Watchers); each alone, and as its part of the run.       *)
(***************************************************************************)
EXTENDS MCDesk, Integers, FiniteSetTheorems, FunctionTheorems, TLAPS

\* A behaviour of the run is one of the part that runs.
LEMMA PartStarts ==
  DeskInit =>
    /\ part = "settings" => Se!Init
    /\ part = "history"  => Hi!Init
    /\ part = "books"    => Bo!Init
    /\ part = "venues"   => Ve!Init
    /\ part = "miniapp"  => Mi!Init
    /\ part = "relist"   => Re!Init
    /\ part = "watchers" => Wa!Init
BY DEF DeskInit

LEMMA PartSteps ==
  [DeskNext]_all =>
    /\ part' = part
    /\ part = "settings" => [Se!Next]_(Se!vars)
    /\ part = "history"  => [Hi!Next]_(Hi!vars)
    /\ part = "books"    => [Bo!Next]_(Bo!vars)
    /\ part = "venues"   => [Ve!Next]_(Ve!vars)
    /\ part = "miniapp"  => [Mi!Next]_(Mi!vars)
    /\ part = "relist"   => [Re!Next]_(Re!vars)
    /\ part = "watchers" => [Wa!Next]_(Wa!vars)
<1>1. CASE DeskNext
  BY <1>1 DEF DeskNext
<1>2. CASE UNCHANGED all
  BY <1>2 DEF all, settings, history, books, venues, miniapp, relist, watchers,
              Se!vars, Hi!vars, Bo!vars, Ve!vars, Mi!vars, Re!vars, Wa!vars
<1>3. QED  BY <1>1, <1>2

-----------------------------------------------------------------------------
(* The switches *)

\* Jobs exist only in a process that is up, and that has been seeded.
UpToWork ==
  /\ phase # "up" => \A c \in Callers : job[c].todo = "idle"
  /\ phase = "up" => seeded
  /\ phase \in {"seeding", "seeded"} => ~seeded

\* A process that is still starting has counted no failure.
StreakStartsAnew ==
  /\ phase \in {"seeding", "seeded"} => failStreak = 0
  /\ ThreeFailuresDisarm

\* Automatic buying is never off unannounced, from the start of the process on.
TellsOff == phase # "down" /\ ~mem.armed => told \/ \E c \in Callers : job[c].todo = "tell"

\* A key that is not overlapping has one writer, and that one writes the value
\* in memory, or will once it has told.
OneWriter ==
  \A k \in Keys \ Overlapping :
    /\ \A c, d \in Callers : job[c].key = k /\ job[d].key = k => c = d
    /\ \A c \in Callers : job[c].key = k =>
         /\ job[c].todo = "save" => job[c].value = {mem[k]}
         /\ job[c].todo = "tell" => ~mem[k]

\* At rest the row brings back the field.
RowBringsBack ==
  \A k \in Keys \ Overlapping :
    phase # "down" /\ ~Changing(k) /\ k \notin unsaved => Restored[k] = mem[k]

\* The stored shadow mode is the operator's from his first choice on.
ChoiceIsStored ==
  chosen # {} => kv["shadow"] = chosen /\ seeded /\ \E on \in BOOLEAN : chosen = {on}

IInv ==
  /\ TypeOK /\ UpToWork /\ StreakStartsAnew /\ TellsOff

Memory == [armed : BOOLEAN, resell : BOOLEAN, shadow : BOOLEAN, waived : BOOLEAN, limits : Limits]

USE DEF vars, Give, Idle, Save, Tell, MustDisarm

-----------------------------------------------------------------------------
\* What New restores is well formed, whatever rows it finds.
LEMMA RestoredType ==
  ASSUME TypeOK
  PROVE  Restored \in Memory
<1>1. Raised(CHOOSE l \in kv["limits"] : TRUE) \in Limits \/ kv["limits"] = {}
  <2>1. SUFFICES ASSUME kv["limits"] # {}
                 PROVE  Raised(CHOOSE l \in kv["limits"] : TRUE) \in Limits
    OBVIOUS
  <2>2. (CHOOSE l \in kv["limits"] : TRUE) \in Limits
    BY <2>1 DEF TypeOK
  <2>3. \A l \in Limits : Raised(l) \in Limits
    BY DEF Raised, Limits, DefaultExitDays
  <2>4. QED  BY <2>2, <2>3
<1>2. DefaultLimits \in Limits
  BY DEF DefaultLimits, Limits, DefaultExitDays
<1>3. QED  BY <1>1, <1>2 DEF Restored, StoredLimits, Memory

\* The jobs an operation leaves behind are well formed.
LEMMA JobsType ==
  /\ JobOK(Idle) /\ JobOK(Tell) /\ JobOK(MustDisarm)
  /\ \A k \in Switches, on \in BOOLEAN : JobOK(Save(k, on))
  /\ \A l \in Limits : JobOK(Save("limits", l))
BY DEF JobOK, Switches

LEMMA InitIInv == Init => IInv
<1> SUFFICES ASSUME Init PROVE IInv
  OBVIOUS
<1>1. TypeOK
  <2>1. DefaultLimits \in Limits
    BY DEF DefaultLimits, Limits, DefaultExitDays
  <2>2. \A c \in Callers : JobOK(job[c])
    BY JobsType DEF Init
  <2>3. failStreak \in 0..MaxStreak
    BY RiskConstants DEF Init, StreakAssumption
  <2>4. QED  BY <2>1, <2>2, <2>3 DEF Init, TypeOK, Keys, Switches
<1>2. UpToWork /\ StreakStartsAnew /\ TellsOff
  BY DEF Init, UpToWork, StreakStartsAnew, ThreeFailuresDisarm, TellsOff
<1>3. QED  BY <1>1, <1>2 DEF IInv

\* What an operation on one goroutine's job leaves well formed.
LEMMA GivenJobs ==
  ASSUME TypeOK, NEW c \in Callers, NEW j, JobOK(j), job' = [job EXCEPT ![c] = j]
  PROVE  job' = [d \in Callers |-> job'[d]] /\ \A d \in Callers : JobOK(job'[d])
BY DEF TypeOK

-----------------------------------------------------------------------------
LEMMA TypeStep ==
  ASSUME TypeOK, [Next]_vars
  PROVE  TypeOK'
<1>1. CASE New
  <2>1. mem' \in Memory
    BY <1>1, RestoredType DEF New
  <2>2. QED  BY <1>1, <2>1, RiskConstants DEF New, TypeOK, Memory, StreakAssumption, Restored
<1>2. CASE Seed
  BY <1>2, RiskConstants DEF Seed, TypeOK, Keys, Switches, SwitchAssumption
<1>3. CASE MarkSeeded
  BY <1>3 DEF MarkSeeded, TypeOK
<1>4. CASE Crash
  BY <1>4, JobsType DEF Crash, TypeOK
<1>5. ASSUME NEW c \in Callers, NEW k \in Switches, NEW on \in BOOLEAN, SetSwitch(c, k, on)
      PROVE  TypeOK'
  <2>1. mem' \in Memory
    BY <1>5 DEF SetSwitch, TypeOK, Memory, Switches
  <2>2. QED  BY <1>5, <2>1, JobsType, GivenJobs DEF SetSwitch, TypeOK, Memory
<1>6. ASSUME NEW c \in Callers, NEW name \in {"ticket", "budget", "days"},
             NEW v \in Amounts \cup ExitDays, SetLimit(c, name, v)
      PROVE  TypeOK'
  <2>1. mem' \in Memory /\ mem'.limits \in Limits
    BY <1>6 DEF SetLimit, TypeOK, Memory, Limits
  <2>2. job' = [d \in Callers |-> job'[d]] /\ \A d \in Callers : JobOK(job'[d])
    <3>1. JobOK(Save("limits", mem'.limits)) /\ job' = [job EXCEPT ![c] = Save("limits", mem'.limits)]
      BY <1>6, <2>1, JobsType DEF SetLimit
    <3>2. QED  BY <3>1, GivenJobs
  <2>3. UNCHANGED <<phase, failStreak, kv, seeded, told, unsaved, chosen>>
    BY <1>6 DEF SetLimit
  <2>4. QED  BY <2>1, <2>2, <2>3 DEF TypeOK, Memory
<1>7. ASSUME NEW c \in Callers, Arm(c)
      PROVE  TypeOK'
  <2>1. JobOK(Save("armed", TRUE))
    BY JobsType DEF Switches
  <2>2. mem' \in Memory
    BY <1>7 DEF Arm, TypeOK, Memory
  <2>3. job' = [d \in Callers |-> job'[d]] /\ \A d \in Callers : JobOK(job'[d])
    <3>1. job' = [job EXCEPT ![c] = Save("armed", TRUE)]
      BY <1>7 DEF Arm
    <3>2. QED  BY <2>1, <3>1, GivenJobs
  <2>4. failStreak' = 0 /\ told' = FALSE /\ UNCHANGED <<phase, kv, seeded, unsaved, chosen>>
    BY <1>7 DEF Arm
  <2>5. 0 \in 0..MaxStreak
    BY RiskConstants DEF StreakAssumption
  <2>6. QED  BY <2>2, <2>3, <2>4, <2>5 DEF TypeOK, Memory
<1>8. ASSUME NEW c \in Callers, Disarming(c), UNCHANGED failStreak
      PROVE  TypeOK'
  <2>1. JobOK(Save("armed", FALSE)) /\ JobOK(Tell)
    BY JobsType DEF Switches
  <2>2. QED  BY <1>8, <2>1, GivenJobs DEF Disarming, TypeOK
<1>9. ASSUME NEW c \in Callers, RecordFailure(c)
      PROVE  TypeOK'
  <2>1. job' = [d \in Callers |-> job'[d]] /\ \A d \in Callers : JobOK(job'[d])
    <3>1. job' = [job EXCEPT ![c] = MustDisarm] \/ job' = [job EXCEPT ![c] = Idle]
      BY <1>9 DEF RecordFailure
    <3>2. QED  BY <3>1, JobsType, GivenJobs
  <2>2. failStreak' \in 0..MaxStreak /\ UNCHANGED <<phase, mem, kv, seeded, told, unsaved, chosen>>
    BY <1>9, RiskConstants DEF RecordFailure, TypeOK, StreakAssumption
  <2>3. QED  BY <2>1, <2>2 DEF TypeOK
<1>10. ASSUME NEW c \in Callers, RecordSuccess(c)
       PROVE  TypeOK'
  BY <1>10, RiskConstants DEF RecordSuccess, TypeOK, StreakAssumption
<1>11. ASSUME NEW c \in Callers, OnDisarm(c)
       PROVE  TypeOK'
  <2>1. JobOK(Save("armed", FALSE))
    BY JobsType DEF Switches
  <2>2. QED  BY <1>11, <2>1, GivenJobs DEF OnDisarm, TypeOK
<1>12. ASSUME NEW c \in Callers, SetKV(c)
       PROVE  TypeOK'
  <2>1. \/ job[c].key \in Switches /\ job[c].value \subseteq BOOLEAN
        \/ job[c].key = "limits" /\ job[c].value \subseteq Limits
    BY <1>12 DEF SetKV, TypeOK, JobOK
  <2>2. QED  BY <1>12, <2>1, JobsType, GivenJobs, ZenonT(60) DEF SetKV, TypeOK, Keys, Switches
<1>13. ASSUME NEW c \in Callers, SetKVFails(c)
       PROVE  TypeOK'
  <2>1. job[c].key \in Keys
    BY <1>13 DEF SetKVFails, TypeOK, JobOK, Keys
  <2>2. QED  BY <1>13, <2>1, JobsType, GivenJobs DEF SetKVFails, TypeOK
<1>14. CASE UNCHANGED vars
  BY <1>14 DEF TypeOK
<1>15. QED
  BY <1>1, <1>2, <1>3, <1>4, <1>5, <1>6, <1>7, <1>8, <1>9, <1>10, <1>11, <1>12, <1>13, <1>14
    DEF Next, Operate, Proceed, Disarm, DisarmAfterFailures

\* Goroutines work in a process that is up, and leave it up.
LEMMA Working ==
  ASSUME TypeOK, UpToWork, NEW c \in Callers, Operate(c) \/ Proceed(c)
  PROVE  phase = "up" /\ UNCHANGED <<phase, seeded>>
<1>1. CASE Operate(c)
  BY <1>1 DEF Operate, SetSwitch, SetLimit, Arm, Disarm, Disarming, RecordFailure, RecordSuccess, Free
<1>2. CASE Proceed(c)
  BY <1>2 DEF Proceed, DisarmAfterFailures, Disarming, OnDisarm, SetKV, SetKVFails, UpToWork, TypeOK
<1>3. QED  BY <1>1, <1>2

LEMMA UpStep ==
  ASSUME TypeOK, UpToWork, [Next]_vars
  PROVE  UpToWork'
<1>1. CASE New \/ Seed \/ MarkSeeded \/ Crash
  BY <1>1 DEF New, Seed, MarkSeeded, Crash, UpToWork
<1>2. CASE \E c \in Callers : Operate(c) \/ Proceed(c)
  BY <1>2, Working DEF UpToWork
<1>3. CASE UNCHANGED vars
  BY <1>3 DEF UpToWork
<1>4. QED  BY <1>1, <1>2, <1>3 DEF Next

\* The third failure leaves a job to disarm, and only that job's own step, which
\* disarms, takes it away; arming and starting anew clear the count.
LEMMA StreakStep ==
  ASSUME TypeOK, UpToWork, StreakStartsAnew, [Next]_vars
  PROVE  StreakStartsAnew'
<1> USE DEF StreakStartsAnew, ThreeFailuresDisarm
<1>1. CASE New \/ Seed \/ MarkSeeded \/ Crash
  BY <1>1 DEF New, Seed, MarkSeeded, Crash, TypeOK
<1>2. ASSUME NEW c \in Callers, Disarm(c) \/ DisarmAfterFailures(c)
      PROVE  StreakStartsAnew'
  <2>1. ~mem'.armed
    BY <1>2 DEF Disarm, DisarmAfterFailures, Disarming, TypeOK
  <2>2. phase' = "up"
    BY <1>2, Working DEF Operate, Proceed
  <2>3. QED  BY <2>1, <2>2
<1>3. ASSUME NEW c \in Callers, Arm(c) \/ RecordSuccess(c)
      PROVE  StreakStartsAnew'
  <2>1. failStreak' = 0
    BY <1>3 DEF Arm, RecordSuccess
  <2>2. QED  BY <2>1
<1>4. ASSUME NEW c \in Callers, RecordFailure(c)
      PROVE  StreakStartsAnew'
  <2>1. phase' = "up" /\ failStreak \in Nat /\ failStreak' = failStreak + 1
    BY <1>4, Working, RiskConstants DEF Operate, RecordFailure, TypeOK, StreakAssumption
  <2>2. CASE failStreak + 1 >= 3
    <3>1. job'[c].todo = "disarm"
      BY <1>4, <2>2 DEF RecordFailure, TypeOK
    <3>2. QED  BY <2>1, <3>1
  <2>3. CASE ~(failStreak + 1 >= 3)
    BY <2>1, <2>3
  <2>4. QED  BY <2>2, <2>3
<1>5. ASSUME NEW c \in Callers, job[c].todo # "disarm", NEW j, job' = [job EXCEPT ![c] = j],
             UNCHANGED <<phase, failStreak>>, mem'.armed = mem.armed
      PROVE  StreakStartsAnew'
  BY <1>5 DEF TypeOK
<1>6. ASSUME NEW c \in Callers, NEW k \in Switches, NEW on \in BOOLEAN, SetSwitch(c, k, on)
      PROVE  StreakStartsAnew'
  <2>1. mem'.armed = mem.armed /\ job[c].todo # "disarm"
    BY <1>6 DEF SetSwitch, Free, TypeOK, Switches
  <2>2. QED  BY <1>5, <1>6, <2>1 DEF SetSwitch
<1>7. ASSUME NEW c \in Callers, NEW name \in {"ticket", "budget", "days"},
             NEW v \in Amounts \cup ExitDays, SetLimit(c, name, v)
      PROVE  StreakStartsAnew'
  <2>1. mem'.armed = mem.armed /\ job[c].todo # "disarm"
    BY <1>7 DEF SetLimit, Free, TypeOK
  <2>2. QED  BY <1>5, <1>7, <2>1 DEF SetLimit
<1>8. ASSUME NEW c \in Callers, OnDisarm(c) \/ SetKV(c) \/ SetKVFails(c)
      PROVE  StreakStartsAnew'
  BY <1>5, <1>8 DEF OnDisarm, SetKV, SetKVFails
<1>9. CASE UNCHANGED vars
  BY <1>9
<1>10. QED
  BY <1>1, <1>2, <1>3, <1>4, <1>6, <1>7, <1>8, <1>9 DEF Next, Operate, Proceed

\* Only Arm forgets that the operator was told, and whoever turns buying off
\* takes the job of telling.
LEMMA TellStep ==
  ASSUME TypeOK, UpToWork, TellsOff, [Next]_vars
  PROVE  TellsOff'
<1> USE DEF TellsOff
<1>1. CASE New \/ Seed \/ MarkSeeded \/ Crash
  BY <1>1 DEF New, Seed, MarkSeeded, Crash, TypeOK
<1>2. ASSUME NEW c \in Callers, Disarm(c) \/ DisarmAfterFailures(c)
      PROVE  TellsOff'
  <2>1. phase = "up" /\ told' = told /\ job[c].todo # "tell"
    <3>1. phase = "up"
      BY <1>2, Working DEF Operate, Proceed
    <3>2. told' = told
      BY <1>2 DEF Disarm, DisarmAfterFailures, Disarming
    <3>3. job[c] = Idle \/ job[c].todo = "disarm"
      BY <1>2 DEF Disarm, DisarmAfterFailures, Free
    <3>4. QED  BY <3>1, <3>2, <3>3
  <2>2. CASE mem.armed
    <3>1. job' = [job EXCEPT ![c] = Tell]
      BY <1>2, <2>2 DEF Disarm, DisarmAfterFailures, Disarming
    <3>2. job'[c].todo = "tell"
      BY <3>1 DEF TypeOK
    <3>3. QED  BY <3>2
  <2>3. CASE ~mem.armed
    <3>1. \A d \in Callers \ {c} : job'[d] = job[d]
      BY <1>2 DEF Disarm, DisarmAfterFailures, Disarming, TypeOK
    <3>2. QED  BY <2>1, <2>3, <3>1
  <2>4. QED  BY <2>2, <2>3
<1>3. ASSUME NEW c \in Callers, Arm(c)
      PROVE  TellsOff'
  <2>1. mem'.armed
    BY <1>3 DEF Arm, TypeOK
  <2>2. QED  BY <2>1
<1>4. ASSUME NEW c \in Callers, OnDisarm(c)
      PROVE  TellsOff'
  BY <1>4 DEF OnDisarm
<1>5. ASSUME NEW c \in Callers, job[c].todo # "tell", NEW j, job' = [job EXCEPT ![c] = j],
             UNCHANGED <<phase, told>>, mem'.armed = mem.armed
      PROVE  TellsOff'
  BY <1>5 DEF TypeOK
<1>6. ASSUME NEW c \in Callers, NEW k \in Switches, NEW on \in BOOLEAN, SetSwitch(c, k, on)
      PROVE  TellsOff'
  <2>1. mem'.armed = mem.armed /\ job[c].todo # "tell"
    BY <1>6 DEF SetSwitch, Free, TypeOK, Switches
  <2>2. QED  BY <1>5, <1>6, <2>1 DEF SetSwitch
<1>7. ASSUME NEW c \in Callers, NEW name \in {"ticket", "budget", "days"},
             NEW v \in Amounts \cup ExitDays, SetLimit(c, name, v)
      PROVE  TellsOff'
  <2>1. mem'.armed = mem.armed /\ job[c].todo # "tell"
    BY <1>7 DEF SetLimit, Free, TypeOK
  <2>2. QED  BY <1>5, <1>7, <2>1 DEF SetLimit
<1>8. ASSUME NEW c \in Callers, SetKV(c) \/ SetKVFails(c)
      PROVE  TellsOff'
  BY <1>5, <1>8 DEF SetKV, SetKVFails
<1>9. ASSUME NEW c \in Callers, RecordFailure(c)
      PROVE  TellsOff'
  <2>1. job' = [job EXCEPT ![c] = MustDisarm] \/ job' = [job EXCEPT ![c] = Idle]
    BY <1>9 DEF RecordFailure
  <2>2. job[c].todo # "tell" /\ UNCHANGED <<phase, told, mem>>
    BY <1>9 DEF RecordFailure, Free
  <2>3. QED  BY <1>5, <2>1, <2>2
<1>10. CASE UNCHANGED vars \/ \E c \in Callers : RecordSuccess(c)
  BY <1>10 DEF RecordSuccess
<1>11. QED
  BY <1>1, <1>2, <1>3, <1>4, <1>6, <1>7, <1>8, <1>9, <1>10 DEF Next, Operate, Proceed

LEMMA StepIInv == IInv /\ [Next]_vars => IInv'
BY TypeStep, UpStep, StreakStep, TellStep DEF IInv

LEMMA Inductive == Spec => []IInv
BY InitIInv, StepIInv, PTL DEF Spec

-----------------------------------------------------------------------------
(* What a restart brings back *)

RInv == TypeOK /\ UpToWork /\ OneWriter /\ RowBringsBack /\ ChoiceIsStored

\* A job names a key, and no goroutine has one before the process is up.
LEMMA IdleHasNoKey ==
  ASSUME TypeOK, UpToWork, phase # "up", NEW k \in Keys, NEW c \in Callers
  PROVE  job[c].key # k
BY DEF TypeOK, UpToWork, JobOK, Keys, Switches

\* A goroutine that takes up a key nobody else is changing is its one writer.
LEMMA TakesKey ==
  ASSUME TypeOK, OneWriter, NEW c \in Callers, NEW k \in Keys, NEW j, j.key = k,
         job' = [job EXCEPT ![c] = j], job[c].key \in {"none", k},
         k \in Overlapping \/ \A d \in Callers \ {c} : job[d].key # k,
         \A o \in Keys \ {k} : mem'[o] = mem[o],
         j.todo = "save" => j.value = {mem'[k]}, j.todo = "tell" => ~mem'[k]
  PROVE  OneWriter'
<1>1. \A d \in Callers : job'[d] = IF d = c THEN j ELSE job[d]
  BY DEF TypeOK
<1>2. "none" \notin Keys
  BY DEF Keys, Switches
<1>3. QED  BY <1>1, <1>2 DEF OneWriter

LEMMA SavesKey ==
  ASSUME TypeOK, OneWriter, NEW c \in Callers, NEW k \in Keys,
         job' = [job EXCEPT ![c] = Save(k, mem'[k])], job[c].key = "none",
         k \in Overlapping \/ \A d \in Callers : job[d].key # k,
         \A o \in Keys \ {k} : mem'[o] = mem[o]
  PROVE  OneWriter'
<1>1. PICK j : j = Save(k, mem'[k])
  OBVIOUS
<1>2. j.key = k /\ j.todo = "save" /\ j.value = {mem'[k]}
  BY <1>1
<1>3. \A d \in Callers : job'[d] = IF d = c THEN j ELSE job[d]
  BY <1>1 DEF TypeOK
<1>4. "none" \notin Keys
  BY DEF Keys, Switches
<1>5. QED  BY <1>2, <1>3, <1>4 DEF OneWriter

\* A goroutine that is done leaves every key as it was.
LEMMA DropsKey ==
  ASSUME TypeOK, OneWriter, NEW c \in Callers, job' = [job EXCEPT ![c] = Idle], mem' = mem
  PROVE  OneWriter'
<1>1. \A d \in Callers : job'[d] = IF d = c THEN Idle ELSE job[d]
  BY DEF TypeOK
<1>2. "none" \notin Keys
  BY DEF Keys, Switches
<1>3. QED  BY <1>1, <1>2 DEF OneWriter

LEMMA OneWriterStep ==
  ASSUME TypeOK, UpToWork, OneWriter, [Next]_vars
  PROVE  OneWriter'
<1>1. CASE New \/ Seed \/ MarkSeeded
  <2>1. \A k \in Keys, c \in Callers : job'[c].key # k
    BY <1>1, IdleHasNoKey DEF New, Seed, MarkSeeded
  <2>2. QED  BY <2>1 DEF OneWriter
<1>2. CASE Crash
  <2>1. \A k \in Keys, c \in Callers : job'[c].key # k
    BY <1>2 DEF Crash, Keys, Switches
  <2>2. QED  BY <2>1 DEF OneWriter
<1>3. ASSUME NEW c \in Callers, NEW k \in Switches, NEW on \in BOOLEAN, SetSwitch(c, k, on)
      PROVE  OneWriter'
  <2>1. /\ mem'[k] = on /\ \A o \in Keys \ {k} : mem'[o] = mem[o]
        /\ k \in Keys /\ job[c].key = "none" /\ job' = [job EXCEPT ![c] = Save(k, on)]
        /\ k \in Overlapping \/ \A d \in Callers : job[d].key # k
    BY <1>3 DEF SetSwitch, Free, TypeOK, Keys, Switches
  <2>2. job' = [job EXCEPT ![c] = Save(k, mem'[k])]
    BY <2>1
  <2>3. QED  BY <2>1, <2>2, SavesKey
<1>4. ASSUME NEW c \in Callers, NEW name \in {"ticket", "budget", "days"},
             NEW v \in Amounts \cup ExitDays, SetLimit(c, name, v)
      PROVE  OneWriter'
  <2>1. /\ \A o \in Keys \ {"limits"} : mem'[o] = mem[o]
        /\ "limits" \in Keys /\ job[c].key = "none" /\ job' = [job EXCEPT ![c] = Save("limits", mem'["limits"])]
        /\ "limits" \in Overlapping \/ \A d \in Callers : job[d].key # "limits"
    BY <1>4 DEF SetLimit, Free, TypeOK, Keys, Switches
  <2>2. QED  BY <2>1, SavesKey
<1>5. ASSUME NEW c \in Callers, Arm(c)
      PROVE  OneWriter'
  <2>1. /\ mem'["armed"] = TRUE /\ \A o \in Keys \ {"armed"} : mem'[o] = mem[o]
        /\ "armed" \in Keys /\ job[c].key = "none" /\ job' = [job EXCEPT ![c] = Save("armed", TRUE)]
        /\ "armed" \in Overlapping \/ \A d \in Callers : job[d].key # "armed"
    BY <1>5 DEF Arm, Free, TypeOK, Keys, Switches
  <2>2. job' = [job EXCEPT ![c] = Save("armed", mem'["armed"])]
    BY <2>1
  <2>3. QED  BY <2>1, <2>2, SavesKey
<1>6. ASSUME NEW c \in Callers, Disarming(c), job[c].key \in {"none", "armed"},
             "armed" \in Overlapping \/ \A d \in Callers \ {c} : job[d].key # "armed"
      PROVE  OneWriter'
  <2>1. /\ mem'["armed"] = FALSE /\ \A o \in Keys \ {"armed"} : mem'[o] = mem[o]
        /\ "armed" \in Keys
    BY <1>6 DEF Disarming, TypeOK, Keys, Switches
  <2>2. job' = [job EXCEPT ![c] = Tell] \/ job' = [job EXCEPT ![c] = Save("armed", FALSE)]
    BY <1>6 DEF Disarming
  <2>3. CASE job' = [job EXCEPT ![c] = Tell]
    <3>1. PICK j : j = Tell
      OBVIOUS
    <3>2. /\ "armed" \in Keys /\ j.key = "armed" /\ job' = [job EXCEPT ![c] = j]
          /\ job[c].key \in {"none", "armed"}
          /\ "armed" \in Overlapping \/ \A d \in Callers \ {c} : job[d].key # "armed"
          /\ \A o \in Keys \ {"armed"} : mem'[o] = mem[o]
          /\ (j.todo = "save" => j.value = {mem'["armed"]}) /\ (j.todo = "tell" => ~mem'["armed"])
      BY <1>6, <2>1, <2>3, <3>1
    <3>3. QED  BY <3>2, TakesKey
  <2>4. CASE job' = [job EXCEPT ![c] = Save("armed", FALSE)]
    <3>1. PICK j : j = Save("armed", FALSE)
      OBVIOUS
    <3>2. /\ "armed" \in Keys /\ j.key = "armed" /\ job' = [job EXCEPT ![c] = j]
          /\ job[c].key \in {"none", "armed"}
          /\ "armed" \in Overlapping \/ \A d \in Callers \ {c} : job[d].key # "armed"
          /\ \A o \in Keys \ {"armed"} : mem'[o] = mem[o]
          /\ (j.todo = "save" => j.value = {mem'["armed"]}) /\ (j.todo = "tell" => ~mem'["armed"])
      BY <1>6, <2>1, <2>4, <3>1
    <3>3. QED  BY <3>2, TakesKey
  <2>5. QED  BY <2>2, <2>3, <2>4
<1>7. ASSUME NEW c \in Callers, Disarm(c)
      PROVE  OneWriter'
  BY <1>6, <1>7 DEF Disarm, Free
<1>8. ASSUME NEW c \in Callers, DisarmAfterFailures(c)
      PROVE  OneWriter'
  <2>1. job[c].key = "armed" /\ "armed" \in Keys
    BY <1>8 DEF DisarmAfterFailures, TypeOK, JobOK, Keys, Switches
  <2>2. QED  BY <1>6, <1>8, <2>1 DEF DisarmAfterFailures, OneWriter
<1>9. ASSUME NEW c \in Callers, OnDisarm(c)
      PROVE  OneWriter'
  <2>1. job[c].key = "armed" /\ "armed" \in Keys /\ mem["armed"] \in BOOLEAN
    BY <1>9 DEF OnDisarm, TypeOK, JobOK, Keys, Switches
  <2>2. mem' = mem /\ job' = [job EXCEPT ![c] = Save("armed", FALSE)]
    BY <1>9 DEF OnDisarm
  <2>3. CASE "armed" \in Overlapping
    BY <2>1, <2>2, <2>3, ZenonT(60) DEF OneWriter, TypeOK
  <2>4. CASE "armed" \notin Overlapping
    <3>1. mem["armed"] = FALSE /\ \A d \in Callers \ {c} : job[d].key # "armed"
      BY <1>9, <2>1, <2>4 DEF OnDisarm, OneWriter
    <3>2. PICK j : j = Save("armed", FALSE)
      OBVIOUS
    <3>3. /\ "armed" \in Keys /\ j.key = "armed" /\ job' = [job EXCEPT ![c] = j]
          /\ job[c].key \in {"none", "armed"}
          /\ "armed" \in Overlapping \/ \A d \in Callers \ {c} : job[d].key # "armed"
          /\ \A o \in Keys \ {"armed"} : mem'[o] = mem[o]
          /\ (j.todo = "save" => j.value = {mem'["armed"]}) /\ (j.todo = "tell" => ~mem'["armed"])
      BY <2>1, <2>2, <3>1, <3>2
    <3>4. QED  BY <3>3, TakesKey
  <2>5. QED  BY <2>3, <2>4
<1>10. ASSUME NEW c \in Callers, RecordFailure(c)
       PROVE  OneWriter'
  <2>1. mem' = mem /\ job[c].key = "none" /\ "armed" \in Keys
        /\ ("armed" \in Overlapping \/ \A d \in Callers : job[d].key # "armed")
    BY <1>10 DEF RecordFailure, Free, Keys, Switches
  <2>2. CASE job' = [job EXCEPT ![c] = MustDisarm]
    <3>1. PICK j : j = MustDisarm
      OBVIOUS
    <3>2. /\ "armed" \in Keys /\ j.key = "armed" /\ job' = [job EXCEPT ![c] = j]
          /\ job[c].key \in {"none", "armed"}
          /\ "armed" \in Overlapping \/ \A d \in Callers \ {c} : job[d].key # "armed"
          /\ \A o \in Keys \ {"armed"} : mem'[o] = mem[o]
          /\ (j.todo = "save" => j.value = {mem'["armed"]}) /\ (j.todo = "tell" => ~mem'["armed"])
      BY <2>1, <2>2, <3>1
    <3>3. QED  BY <3>2, TakesKey
  <2>3. CASE job' = [job EXCEPT ![c] = Idle]
    BY <2>1, <2>3, DropsKey
  <2>4. QED  BY <1>10, <2>2, <2>3 DEF RecordFailure
<1>11. ASSUME NEW c \in Callers, SetKV(c) \/ SetKVFails(c)
       PROVE  OneWriter'
  BY <1>11, DropsKey DEF SetKV, SetKVFails
<1>12. CASE UNCHANGED vars \/ \E c \in Callers : RecordSuccess(c)
  BY <1>12 DEF RecordSuccess, OneWriter
<1>13. QED
  BY <1>1, <1>2, <1>3, <1>4, <1>5, <1>7, <1>8, <1>9, <1>10, <1>11, <1>12 DEF Next, Operate, Proceed

\* The operator's first saved choice also ends the seeding.
LEMMA ChoiceStep ==
  ASSUME TypeOK, UpToWork, ChoiceIsStored, [Next]_vars
  PROVE  ChoiceIsStored'
<1> USE DEF ChoiceIsStored
<1>1. CASE New \/ Seed \/ MarkSeeded \/ Crash
  BY <1>1 DEF New, Seed, MarkSeeded, Crash, UpToWork
<1>2. ASSUME NEW c \in Callers, SetKV(c)
      PROVE  ChoiceIsStored'
  <2>1. seeded' = seeded /\ seeded
    BY <1>2, Working DEF Proceed, SetKV, UpToWork
  <2>2. CASE job[c].key = "shadow"
    <3>1. chosen' = job[c].value /\ kv'["shadow"] = job[c].value
      BY <1>2, <2>2 DEF SetKV, TypeOK, Keys, Switches
    <3>2. \E on \in BOOLEAN : job[c].value = {on}
      BY <1>2, <2>2 DEF SetKV, TypeOK, JobOK
    <3>3. QED  BY <2>1, <3>1, <3>2
  <2>3. CASE job[c].key # "shadow"
    <3>1. chosen' = chosen /\ kv'["shadow"] = kv["shadow"]
      BY <1>2, <2>3 DEF SetKV, TypeOK, Keys, Switches
    <3>2. QED  BY <2>1, <3>1
  <2>4. QED  BY <2>2, <2>3
<1>3. CASE UNCHANGED <<chosen, kv, seeded>>
  BY <1>3
<1>4. QED
  BY <1>1, <1>2, <1>3 DEF Next, Operate, Proceed, SetSwitch, SetLimit, Arm, Disarm, Disarming,
    RecordFailure, RecordSuccess, DisarmAfterFailures, OnDisarm, SetKVFails

\* A field comes back as it was left when its row holds it: off for every
\* switch but shadow mode without a row, and limits unless they are the old default.
Kept == LegacyMaxExitDays \notin ExitDays

\* Restored reads each field off its own row.
LEMMA RowAlone ==
  ASSUME TypeOK, NEW k \in Keys, kv'[k] = kv[k]
  PROVE  Restored'[k] = Restored[k]
<1>1. CASE k = "armed"
  BY <1>1 DEF Restored
<1>2. CASE k = "resell"
  BY <1>2 DEF Restored
<1>3. CASE k = "shadow"
  BY <1>3 DEF Restored
<1>4. CASE k = "waived"
  BY <1>4 DEF Restored
<1>5. CASE k = "limits"
  <2>1. \A stored : stored = kv["limits"] => stored = kv'["limits"]
    BY <1>5
  <2>2. Restored["limits"] = StoredLimits(kv["limits"])
    BY DEF Restored
  <2>3. Restored'["limits"] = StoredLimits(kv'["limits"])
    BY DEF Restored
  <2>4. QED  BY <1>5, <2>1, <2>2, <2>3
<1>6. QED  BY <1>1, <1>2, <1>3, <1>4, <1>5 DEF Keys, Switches

LEMMA RowHolds ==
  ASSUME Kept, TypeOK, TypeOK', NEW k \in Keys, kv'[k] = {mem'[k]}
  PROVE  Restored'[k] = mem'[k]
<1>1. CASE k \in Switches
  <2>1. mem'[k] \in BOOLEAN
    BY <1>1 DEF TypeOK, Switches
  <2>2. CASE mem'[k] = TRUE
    <3>1. kv'[k] = {TRUE} /\ {TRUE} # {FALSE}
      BY <2>2
    <3>2. CASE k = "armed"
      BY <2>2, <3>1, <3>2 DEF Restored
    <3>3. CASE k = "resell"
      BY <2>2, <3>1, <3>3 DEF Restored
    <3>4. CASE k = "shadow"
      BY <2>2, <3>1, <3>4 DEF Restored
    <3>5. CASE k = "waived"
      BY <2>2, <3>1, <3>5 DEF Restored
    <3>6. QED  BY <1>1, <3>2, <3>3, <3>4, <3>5 DEF Switches
  <2>3. CASE mem'[k] = FALSE
    <3>1. kv'[k] = {FALSE} /\ {TRUE} # {FALSE}
      BY <2>3
    <3>2. CASE k = "armed"
      BY <2>3, <3>1, <3>2 DEF Restored
    <3>3. CASE k = "resell"
      BY <2>3, <3>1, <3>3 DEF Restored
    <3>4. CASE k = "shadow"
      BY <2>3, <3>1, <3>4 DEF Restored
    <3>5. CASE k = "waived"
      BY <2>3, <3>1, <3>5 DEF Restored
    <3>6. QED  BY <1>1, <3>2, <3>3, <3>4, <3>5 DEF Switches
  <2>4. QED  BY <2>1, <2>2, <2>3
<1>2. CASE k = "limits"
  <2>1. mem'["limits"] \in Limits
    BY DEF TypeOK
  <2>2. mem'["limits"].days # LegacyMaxExitDays
    BY <2>1 DEF Kept, Limits, LegacyMaxExitDays, DefaultExitDays
  <2>3. Raised(mem'["limits"]) = mem'["limits"]
    BY <2>1, <2>2 DEF Raised, Limits
  <2>4. Restored'["limits"] = Raised(CHOOSE l \in {mem'["limits"]} : TRUE)
    BY <1>2 DEF Restored, StoredLimits
  <2>5. (CHOOSE l \in {mem'["limits"]} : TRUE) = mem'["limits"]
    OBVIOUS
  <2>6. QED  BY <1>2, <2>3, <2>4, <2>5
<1>3. QED  BY <1>1, <1>2 DEF Keys

\* Nothing but k moves: another key at rest brings back what it did.
LEMMA OtherRows ==
  ASSUME TypeOK, RowBringsBack, NEW c \in Callers, NEW k, NEW j, phase # "down",
         job' = [job EXCEPT ![c] = j], job[c].key \in {"none", k},
         \A o \in Keys \ {k} :
           mem'[o] = mem[o] /\ kv'[o] = kv[o] /\ (o \notin unsaved' => o \notin unsaved)
  PROVE  \A o \in (Keys \ Overlapping) \ {k} :
           ~Changing(o)' /\ o \notin unsaved' => Restored'[o] = mem'[o]
<1> SUFFICES ASSUME NEW o \in (Keys \ Overlapping) \ {k}, ~Changing(o)', o \notin unsaved'
             PROVE  Restored'[o] = mem'[o]
  OBVIOUS
<1>1. "none" \notin Keys
  BY DEF Keys, Switches
<1>2. o \in Keys /\ o # k /\ o \notin Overlapping
  OBVIOUS
<1>3. ~Changing(o)
  BY <1>1, <1>2 DEF Changing, TypeOK
<1>4. o \notin unsaved /\ mem'[o] = mem[o] /\ kv'[o] = kv[o]
  BY <1>2
<1>5. Restored[o] = mem[o]
  BY <1>2, <1>3, <1>4 DEF RowBringsBack
<1>6. Restored'[o] = Restored[o]
  BY <1>2, <1>4, RowAlone
<1>7. QED  BY <1>4, <1>5, <1>6

LEMMA RowStep ==
  ASSUME Kept, TypeOK, TypeOK', UpToWork, OneWriter, RowBringsBack, [Next]_vars
  PROVE  RowBringsBack'
<1>1. CASE New
  BY <1>1 DEF New, RowBringsBack, Restored
<1>2. CASE Seed
  <2>1. \A k \in Keys \ {"shadow"} : kv'[k] = kv[k] /\ mem'[k] = mem[k]
    BY <1>2 DEF Seed, TypeOK, Keys, Switches
  <2>2. kv'["shadow"] = {mem'["shadow"]} /\ "shadow" \in Keys
    BY <1>2 DEF Seed, TypeOK, Keys, Switches
  <2>3. Restored'["shadow"] = mem'["shadow"]
    BY <2>2, RowHolds
  <2>4. \A k \in Keys : Changing(k)' <=> Changing(k)
    BY <1>2 DEF Seed, Changing
  <2>5. unsaved' = unsaved /\ phase # "down"
    BY <1>2 DEF Seed
  <2>6. \A k \in (Keys \ Overlapping) \ {"shadow"} :
          ~Changing(k) /\ k \notin unsaved => Restored'[k] = mem'[k]
    BY <2>1, <2>5, RowAlone DEF RowBringsBack
  <2>7. QED
    <3> SUFFICES ASSUME NEW k \in Keys \ Overlapping, ~Changing(k)', k \notin unsaved'
                 PROVE  Restored'[k] = mem'[k]
      BY DEF RowBringsBack
    <3>1. ~Changing(k) /\ k \notin unsaved
      BY <2>4, <2>5
    <3>2. QED  BY <2>3, <2>6, <3>1
<1>3. CASE MarkSeeded \/ UNCHANGED vars \/ \E c \in Callers : RecordSuccess(c)
  <2>1. UNCHANGED <<mem, kv, job, unsaved>> /\ (phase' # "down" => phase # "down")
    BY <1>3 DEF MarkSeeded, RecordSuccess, vars
  <2>2. \A k \in Keys : (Changing(k)' <=> Changing(k)) /\ Restored'[k] = Restored[k]
    BY <2>1, RowAlone DEF Changing
  <2>3. QED
    <3> SUFFICES ASSUME NEW k \in Keys \ Overlapping, phase' # "down",
                        ~Changing(k)', k \notin unsaved'
                 PROVE  Restored'[k] = mem'[k]
      BY DEF RowBringsBack
    <3>1. phase # "down" /\ ~Changing(k) /\ k \notin unsaved
      BY <2>1, <2>2
    <3>2. Restored[k] = mem[k]
      BY <3>1 DEF RowBringsBack
    <3>3. QED  BY <2>1, <2>2, <3>2
<1>4. CASE Crash
  BY <1>4 DEF Crash, RowBringsBack
<1>5. ASSUME NEW c \in Callers, NEW k \in Keys, NEW j, j.key = k, phase # "down",
             job' = [job EXCEPT ![c] = j], job[c].key \in {"none", k},
             \A o \in Keys \ {k} : mem'[o] = mem[o], UNCHANGED <<kv, unsaved>>
      PROVE  RowBringsBack'
  <2>1. Changing(k)'
    BY <1>5 DEF Changing, TypeOK
  <2>2. \A o \in (Keys \ Overlapping) \ {k} :
          ~Changing(o)' /\ o \notin unsaved' => Restored'[o] = mem'[o]
    <3>1. \A o \in Keys \ {k} :
            mem'[o] = mem[o] /\ kv'[o] = kv[o] /\ (o \notin unsaved' => o \notin unsaved)
      BY <1>5
    <3>2. QED  BY <1>5, <3>1, OtherRows
  <2>3. QED
    <3> SUFFICES ASSUME NEW o \in Keys \ Overlapping, ~Changing(o)', o \notin unsaved'
                 PROVE  Restored'[o] = mem'[o]
      BY DEF RowBringsBack
    <3>1. o # k
      BY <2>1
    <3>2. QED  BY <2>2, <3>1
<1>6. ASSUME NEW c \in Callers, NEW k \in Switches, NEW on \in BOOLEAN, SetSwitch(c, k, on)
      PROVE  RowBringsBack'
  <2>1. /\ \A o \in Keys \ {k} : mem'[o] = mem[o]
        /\ k \in Keys /\ job[c].key = "none" /\ job' = [job EXCEPT ![c] = Save(k, on)]
        /\ phase # "down" /\ UNCHANGED <<kv, unsaved>>
    BY <1>6 DEF SetSwitch, Free, TypeOK, Keys, Switches
  <2>2. QED  BY <1>5, <2>1
<1>7. ASSUME NEW c \in Callers, NEW name \in {"ticket", "budget", "days"},
             NEW v \in Amounts \cup ExitDays, SetLimit(c, name, v)
      PROVE  RowBringsBack'
  <2>1. /\ \A o \in Keys \ {"limits"} : mem'[o] = mem[o]
        /\ "limits" \in Keys /\ job[c].key = "none"
        /\ job' = [job EXCEPT ![c] = Save("limits", mem'.limits)]
        /\ phase # "down" /\ UNCHANGED <<kv, unsaved>>
    BY <1>7 DEF SetLimit, Free, TypeOK, Keys, Switches
  <2>2. QED  BY <1>5, <2>1
<1>8. ASSUME NEW c \in Callers, Arm(c)
      PROVE  RowBringsBack'
  <2>1. /\ \A o \in Keys \ {"armed"} : mem'[o] = mem[o]
        /\ "armed" \in Keys /\ job[c].key = "none" /\ job' = [job EXCEPT ![c] = Save("armed", TRUE)]
        /\ phase # "down" /\ UNCHANGED <<kv, unsaved>>
    BY <1>8 DEF Arm, Free, TypeOK, Keys, Switches
  <2>2. QED  BY <1>5, <2>1
<1>9. ASSUME NEW c \in Callers, Disarm(c) \/ DisarmAfterFailures(c)
      PROVE  RowBringsBack'
  <2>1. /\ \A o \in Keys \ {"armed"} : mem'[o] = mem[o]
        /\ "armed" \in Keys /\ UNCHANGED <<kv, unsaved>>
    BY <1>9, ZenonT(60) DEF Disarm, DisarmAfterFailures, Disarming, TypeOK, Keys, Switches
  <2>2. job[c].key \in {"none", "armed"}
    BY <1>9 DEF Disarm, DisarmAfterFailures, Free, TypeOK, JobOK
  <2>3. phase # "down"
    BY <1>9, Working DEF Operate, Proceed
  <2>4. job' = [job EXCEPT ![c] = Tell] \/ job' = [job EXCEPT ![c] = Save("armed", FALSE)]
    BY <1>9 DEF Disarm, DisarmAfterFailures, Disarming
  <2>5. QED  BY <1>5, <2>1, <2>2, <2>3, <2>4
<1>10. ASSUME NEW c \in Callers, OnDisarm(c)
       PROVE  RowBringsBack'
  <2>1. job[c].key = "armed" /\ "armed" \in Keys
    BY <1>10 DEF OnDisarm, TypeOK, JobOK, Keys, Switches
  <2>2. phase # "down"
    BY <1>10, Working DEF Proceed
  <2>3. job' = [job EXCEPT ![c] = Save("armed", FALSE)] /\ UNCHANGED <<mem, kv, unsaved>>
    BY <1>10 DEF OnDisarm
  <2>4. QED  BY <1>5, <2>1, <2>2, <2>3
<1>11. ASSUME NEW c \in Callers, RecordFailure(c)
       PROVE  RowBringsBack'
  <2>1. /\ UNCHANGED <<mem, kv, unsaved>> /\ job[c].key = "none" /\ "armed" \in Keys
        /\ phase # "down"
    BY <1>11 DEF RecordFailure, Free, Keys, Switches
  <2>2. CASE job' = [job EXCEPT ![c] = MustDisarm]
    BY <1>5, <2>1, <2>2
  <2>3. CASE job' = [job EXCEPT ![c] = Idle]
    <3>1. \A o \in (Keys \ Overlapping) \ {"none"} :
            ~Changing(o)' /\ o \notin unsaved' => Restored'[o] = mem'[o]
      BY <2>1, <2>3, OtherRows
    <3>2. QED  BY <3>1 DEF RowBringsBack, Keys, Switches
  <2>4. QED  BY <1>11, <2>2, <2>3 DEF RecordFailure
<1>12. ASSUME NEW c \in Callers, SetKV(c) \/ SetKVFails(c)
       PROVE  RowBringsBack'
  <2>1. job[c].key \in Keys /\ mem' = mem /\ job' = [job EXCEPT ![c] = Idle]
    BY <1>12 DEF SetKV, SetKVFails, TypeOK, JobOK, Keys
  <2>2. phase # "down"
    BY <1>12, Working DEF Proceed
  <2>3. \A o \in Keys \ {job[c].key} : kv'[o] = kv[o] /\ (o \notin unsaved' => o \notin unsaved)
    BY <1>12 DEF SetKV, SetKVFails, TypeOK
  <2>4. \A o \in (Keys \ Overlapping) \ {job[c].key} :
          ~Changing(o)' /\ o \notin unsaved' => Restored'[o] = mem'[o]
    BY <2>1, <2>2, <2>3, OtherRows, ZenonT(60)
  <2>5. CASE SetKVFails(c)
    <3>1. job[c].key \in unsaved'
      BY <2>5 DEF SetKVFails
    <3>2. QED  BY <2>4, <3>1 DEF RowBringsBack
  <2>6. CASE SetKV(c) /\ job[c].key \notin Overlapping
    <3>1. kv'[job[c].key] = {mem'[job[c].key]}
      BY <2>1, <2>6 DEF SetKV, TypeOK, OneWriter
    <3>2. Restored'[job[c].key] = mem'[job[c].key]
      BY <2>1, <3>1, RowHolds
    <3>3. QED  BY <2>4, <3>2 DEF RowBringsBack
  <2>7. CASE job[c].key \in Overlapping
    BY <2>4, <2>7 DEF RowBringsBack
  <2>8. QED  BY <1>12, <2>5, <2>6, <2>7
<1>13. QED
  BY <1>1, <1>2, <1>3, <1>4, <1>6, <1>7, <1>8, <1>9, <1>10, <1>11, <1>12 DEF Next, Operate, Proceed

LEMMA RInvInductive ==
  ASSUME Kept
  PROVE  Spec => []RInv
<1>1. Init => RInv
  <2> SUFFICES ASSUME Init PROVE RInv
    OBVIOUS
  <2>1. TypeOK /\ UpToWork
    BY InitIInv DEF IInv
  <2>2. OneWriter /\ RowBringsBack /\ ChoiceIsStored
    BY DEF Init, OneWriter, RowBringsBack, ChoiceIsStored, Keys, Switches
  <2>3. QED  BY <2>1, <2>2 DEF RInv
<1>2. RInv /\ [Next]_vars => RInv'
  BY TypeStep, UpStep, OneWriterStep, RowStep, ChoiceStep DEF RInv
<1>3. QED  BY <1>1, <1>2, PTL DEF Spec

-----------------------------------------------------------------------------
(* The switches, alone and in the run *)

\* Whichever part runs, the switches take their own steps or none.
LEMMA SwitchesRun == DeskSpec => Spec
<1>1. DeskInit => Init
  BY DEF DeskInit
<1>2. [DeskNext]_all => [Next]_vars
  BY DEF DeskNext, all
<1>3. QED  BY <1>1, <1>2, PTL DEF DeskSpec, Spec

\* Switches stay Booleans and limits stay in their range, in memory and in every
\* row, through crashes and failed writes.
THEOREM TypeCorrect ==
  /\ Spec => []TypeOK
  /\ DeskSpec => []TypeOK
<1>1. IInv => TypeOK
  BY DEF IInv
<1>2. QED  BY <1>1, Inductive, SwitchesRun, PTL

\* Behind three failures in a row automatic buying is off or about to be,
\* whoever arms it meanwhile.
THEOREM ThirdFailureDisarms ==
  /\ Spec => []ThreeFailuresDisarm
  /\ DeskSpec => []ThreeFailuresDisarm
<1>1. IInv => ThreeFailuresDisarm
  BY DEF IInv, StreakStartsAnew
<1>2. QED  BY <1>1, Inductive, SwitchesRun, PTL

\* However many goroutines disarm at once, the operator has been told of it or
\* one of them is about to tell.
THEOREM DisarmAnnounced ==
  /\ Spec => []DisarmIsAnnounced
  /\ DeskSpec => []DisarmIsAnnounced
<1>1. IInv => DisarmIsAnnounced
  BY DEF IInv, TellsOff, DisarmIsAnnounced
<1>2. QED  BY <1>1, Inductive, SwitchesRun, PTL

\* A restart brings back what the operator was answered for, for every key one
\* goroutine changes at a time, unless he chose the old default of three days.
THEOREM ChoicesSurvive ==
  ASSUME Kept
  PROVE  /\ Spec => []RestartKeepsChoices
         /\ DeskSpec => []RestartKeepsChoices
<1>1. RInv => RestartKeepsChoices
  <2> SUFFICES ASSUME RInv, NEW k \in Keys \ Overlapping,
                      phase = "up", ~Changing(k), k \notin unsaved
               PROVE  Restored[k] = mem[k] /\ (k = "shadow" => chosen \subseteq {mem[k]})
    BY DEF RestartKeepsChoices
  <2>1. Restored[k] = mem[k]
    BY DEF RInv, RowBringsBack
  <2>2. ASSUME k = "shadow", NEW b \in chosen
        PROVE  b = mem[k]
    <3>1. kv["shadow"] = {b} /\ b \in BOOLEAN
      BY <2>2 DEF RInv, ChoiceIsStored
    <3>2. CASE b = TRUE
      BY <2>1, <2>2, <3>1, <3>2 DEF Restored
    <3>3. CASE b = FALSE
      BY <2>1, <2>2, <3>1, <3>3 DEF Restored
    <3>4. QED  BY <3>1, <3>2, <3>3
  <2>3. QED  BY <2>1, <2>2
<1>2. QED  BY <1>1, RInvInductive, SwitchesRun, PTL

HIDE DEF vars, Give, Idle, Save, Tell, MustDisarm

-----------------------------------------------------------------------------
(* The history *)

\* The rotation's list, and what is fixed about it: a collection's place, and the
\* batch it is read in, counted from 0.
Order    == Hi!Sorted(Collections)
Size     == Hi!Cardinality(Collections)
Place(c) == CHOOSE i \in 1..Size : Order[i] = c
Block(c) == (Place(c) - 1) \div Batch

LEMMA Divides ==
  ASSUME NEW a \in Nat, NEW b \in Nat \ {0}
  PROVE  a \div b \in Nat /\ b * (a \div b) <= a /\ a < b * (a \div b) + b
OBVIOUS

LEMMA Below ==
  ASSUME NEW b \in Nat \ {0}, NEW p \in Nat, NEW q \in Nat, b * p < b * q + b
  PROVE  p <= q
<1>1. SUFFICES ASSUME p >= q + 1 PROVE FALSE
  OBVIOUS
<1>2. b * p >= b * (q + 1)
  BY <1>1
<1>3. QED  BY <1>2

LEMMA Divided ==
  ASSUME NEW b \in Nat \ {0}, NEW q \in Nat
  PROVE  (b * q) \div b = q
BY Below, Divides

\* Collections are numbers here, so there is a list in their order.
LEMMA OrderIs ==
  ASSUME Hi!HistoryAssumption
  PROVE  /\ Size \in Nat \ {0} /\ Order \in Seq(Collections) /\ Len(Order) = Size
         /\ {Order[i] : i \in 1..Size} = Collections
<1>1. Size \in Nat \ {0} /\ Collections = 1..Size
  <2>1. IsFiniteSet(Collections) /\ Collections # {}
    BY DEF Hi!HistoryAssumption, Hi!IsFiniteSet, IsFiniteSet
  <2>2. Cardinality(Collections) = Size
    BY DEF Size, Cardinality, Hi!Cardinality, IsFiniteSet, Hi!IsFiniteSet
  <2>3. Size \in Nat
    BY <2>1, <2>2, FS_CardinalityType
  <2>4. Collections = 1..Size
    BY DEF Hi!HistoryAssumption, Size
  <2>5. QED  BY <2>1, <2>3, <2>4
<1> DEFINE P(s) == Hi!Range(s) = Collections /\ \A i, j \in DOMAIN s : i < j => s[i] < s[j]
           w == [i \in 1..Size |-> i]
<1>2. w \in [1..Size -> Collections] /\ P(w)
  BY <1>1 DEF Hi!Range
<1>3. Order \in [1..Size -> Collections] /\ P(Order)
  <2> HIDE DEF P, w
  <2>1. Order = CHOOSE s \in [1..Size -> Collections] : P(s)
    BY DEF Order, Size, Hi!Sorted, P
  <2>2. QED  BY <1>2, <2>1
<1>4. Order \in Seq(Collections) /\ Len(Order) = Size
  BY <1>1, <1>3
<1>5. QED  BY <1>1, <1>3, <1>4 DEF Hi!Range

LEMMA NothingSorted == Len(Hi!Sorted({})) = 0
<1>1. Hi!Cardinality({}) = 0
  <2>1. Hi!Cardinality({}) = Cardinality({})
    BY DEF Cardinality, Hi!Cardinality, IsFiniteSet, Hi!IsFiniteSet
  <2>2. QED  BY <2>1, FS_EmptySet
<1> DEFINE P(s) == Hi!Range(s) = {} /\ \A i, j \in DOMAIN s : i < j => s[i] < s[j]
           w == [i \in 1..0 |-> i]
<1>2. w \in [1..0 -> {}] /\ P(w)
  BY DEF Hi!Range
<1>3. Hi!Sorted({}) \in [1..0 -> {}]
  <2> HIDE DEF P, w
  <2>1. Hi!Sorted({}) = CHOOSE s \in [1..0 -> {}] : P(s)
    BY <1>1 DEF Hi!Sorted, P
  <2>2. QED  BY <1>2, <2>1
<1>4. QED  BY <1>3

\* A batch is read by the round it is the turn of, and a rotation has Cycle of them.
LEMMA Batches ==
  ASSUME Hi!HistoryAssumption
  PROVE  /\ Hi!Cycle \in Nat \ {0}
         /\ \A c \in Collections : Place(c) \in 1..Size /\ Order[Place(c)] = c /\ Block(c) \in 0..(Hi!Cycle - 1)
         /\ \A b \in 0..(Hi!Cycle - 1) :
              /\ Batch * b < Size
              /\ Batch * b + Batch >= Size <=> b = Hi!Cycle - 1
              /\ \A c \in Collections : Block(c) = b =>
                   Place(c) \in (Batch * b + 1)..(Batch * b + Batch)
<1>1. /\ Size \in Nat \ {0} /\ Batch \in Nat \ {0}
      /\ Hi!Cycle = (Size - 1) \div Batch + 1
  BY OrderIs DEF Hi!HistoryAssumption, Hi!Cycle, Size
<1> DEFINE last == (Size - 1) \div Batch
<1>2. Size - 1 \in Nat
  BY <1>1
<1>3. last \in Nat /\ Batch * last <= Size - 1 /\ Size - 1 < Batch * last + Batch
  BY <1>1, <1>2, Divides
<1>4. \A c \in Collections : Place(c) \in 1..Size /\ Order[Place(c)] = c
  BY OrderIs DEF Place
<1>5. \A c \in Collections :
        /\ Block(c) \in Nat
        /\ Batch * Block(c) <= Place(c) - 1 /\ Place(c) - 1 < Batch * Block(c) + Batch
  <2> TAKE c \in Collections
  <2>1. Place(c) - 1 \in Nat
    BY <1>1, <1>4
  <2>2. QED  BY <1>1, <2>1, Divides DEF Block
<1> HIDE DEF last
<1>6. Hi!Cycle = last + 1
  BY <1>1 DEF last
<1>7. \A c \in Collections : Block(c) <= last
  <2> TAKE c \in Collections
  <2>1. /\ Batch * Block(c) \in Nat /\ Batch * last \in Nat
        /\ Place(c) \in 1..Size /\ Batch * Block(c) <= Place(c) - 1
    BY <1>1, <1>3, <1>4, <1>5
  <2>2. Batch * Block(c) < Batch * last + Batch
    BY <1>1, <1>3, <2>1
  <2>3. QED  BY <1>1, <1>3, <1>5, <2>2, Below
<1>8. ASSUME NEW b \in 0..last
      PROVE  /\ Batch * b < Size
             /\ Batch * b + Batch >= Size <=> b = last
             /\ \A c \in Collections : Block(c) = b => Place(c) \in (Batch * b + 1)..(Batch * b + Batch)
  <2>1. Batch * b \in Nat /\ Batch * last \in Nat /\ b \in Nat
    BY <1>1, <1>3
  <2>2. Batch * b <= Batch * last
    BY <1>1, <1>3
  <2>3. b < last => Batch * b + Batch <= Batch * last
    <3>1. SUFFICES ASSUME b < last PROVE Batch * (b + 1) <= Batch * last
      BY <1>1, <2>1
    <3>2. QED  BY <1>1, <1>3, <3>1
  <2>4. QED  BY <1>1, <1>3, <1>4, <1>5, <2>1, <2>2, <2>3
<1>9. QED  BY <1>3, <1>4, <1>5, <1>6, <1>7, <1>8

\* The batch that is next, and how many rounds a collection is away from its own.
Turn    == Hi!Index \div Batch
Away(c) == IF Block(c) >= Turn THEN Block(c) - Turn + 1 ELSE Hi!Cycle - Turn + Block(c) + 1

\* Everything that may fail costs a rotation; a round not polled yet is still owed.
Span == (faults + 1) * Hi!Cycle
Due  == IF polled \/ snapshot = {} THEN 0 ELSE 1

HistoryRanges ==
  /\ now \in Nat /\ faults \in 0..FaultsOf["history"] /\ polled \in BOOLEAN
  /\ snapshot \in {{}, Collections} /\ (names = Order \/ (Len(names) = 0 /\ idx = 0))
  /\ snapshot = {} => Len(names) = 0
  /\ idx \in Nat
  /\ \A x \in traded : x.c \in Collections /\ x.t \in Nat

OnSchedule ==
  /\ Turn \in 0..(Hi!Cycle - 1) /\ Hi!Index = Batch * Turn
  /\ \A x \in traded \ sales : x.t >= Epoch => now + Away(x.c) <= x.t + Span + Due

\* A download under way is still to bring what it owes and has not stored.
Downloading ==
  /\ fill.at \in {"idle", "read"}
  /\ fill.at = "read" =>
       /\ fill = [at |-> "read", todo |-> fill.todo, since |-> fill.since, days |-> fill.days]
       /\ fill.todo \in Seq(Collections)
       /\ \A x \in owed \ sales :
            x \in traded /\ x.t >= fill.since /\ \E i \in 1..Len(fill.todo) : fill.todo[i] = x.c
  /\ promised \subseteq sales /\ (warm.don => done)

HistoryInv == HistoryRanges /\ OnSchedule /\ Downloading

\* The list the rotation reads from, and where.
LEMMA Rotation ==
  ASSUME Hi!HistoryAssumption, HistoryRanges
  PROVE  /\ snapshot = {} => Hi!Index = 0 /\ Len(Hi!Names) = 0
         /\ snapshot = Collections => Hi!Names = Order
         /\ Hi!Index \in Nat
<1>1. snapshot = {} => Hi!Names = Hi!Sorted({})
  BY DEF HistoryRanges, Hi!Names
<1>2. Collections # {} /\ Size > 0 /\ Len(Order) = Size
  BY OrderIs DEF Hi!HistoryAssumption
<1>3. snapshot = Collections => Hi!Names = Order
  BY <1>2 DEF HistoryRanges, Hi!Names, Order
<1>4. QED  BY <1>1, <1>2, <1>3, NothingSorted DEF HistoryRanges, Hi!Index

\* Nobody is further away than a rotation.
LEMMA AwayIs ==
  ASSUME Hi!HistoryAssumption, Turn \in 0..(Hi!Cycle - 1)
  PROVE  /\ Hi!Cycle \in Nat /\ \A c \in Collections : Away(c) \in 1..Hi!Cycle
         /\ \A c \in Collections : Away(c) = 1 <=> Block(c) = Turn
<1>1. Hi!Cycle \in Nat \ {0} /\ \A c \in Collections : Block(c) \in 0..(Hi!Cycle - 1)
  BY Batches
<1>2. QED  BY <1>1 DEF Away

\* A failure buys every collection one more rotation.
LEMMA SpanIs ==
  ASSUME Hi!HistoryAssumption, faults \in 0..FaultsOf["history"]
  PROVE  /\ Span \in Nat /\ Span >= Hi!Cycle /\ Span <= Window
         /\ ((faults + 1) + 1) * Hi!Cycle = Span + Hi!Cycle
<1>1. /\ Hi!Cycle \in Nat /\ FaultsOf["history"] \in Nat /\ faults \in Nat /\ faults <= FaultsOf["history"]
      /\ Window \in Nat /\ Window >= (FaultsOf["history"] + 1) * Hi!Cycle
  BY Batches DEF Hi!HistoryAssumption
<1> DEFINE F == FaultsOf["history"]
<1> HIDE DEF F
<1>2. ASSUME NEW f \in Nat, NEW g \in Nat, f <= g, NEW n \in Nat
      PROVE  /\ (f + 1) * n \in Nat /\ n <= (f + 1) * n /\ (f + 1) * n <= (g + 1) * n
             /\ ((f + 1) + 1) * n = (f + 1) * n + n
  <2>1. (f + 1) * n \in Nat /\ n <= (f + 1) * n /\ ((f + 1) + 1) * n = (f + 1) * n + n
    OBVIOUS
  <2>2. (f + 1) * n <= (g + 1) * n
    BY <1>2
  <2>3. QED  BY <2>1, <2>2
<1>3. QED  BY <1>1, <1>2 DEF Span

\* Steps that leave the rotation alone but may store trades, or make one.
LEMMA StaysOnSchedule ==
  ASSUME Hi!HistoryAssumption, HistoryRanges, OnSchedule, UNCHANGED <<now, snapshot, names, idx, polled, faults>>,
         sales \subseteq sales', \A x \in traded' : x \in traded \/ (x.t = now /\ x.c \in Collections)
  PROVE  HistoryRanges' /\ OnSchedule'
<1>1. HistoryRanges'
  BY DEF HistoryRanges
<1>2. /\ Turn' = Turn /\ Hi!Index' = Hi!Index /\ Span' = Span /\ Due' = Due
      /\ \A c \in Collections : Away(c)' = Away(c)
  BY DEF Turn, Hi!Index, Span, Due, Away, Block, Place
<1>3. /\ Turn \in 0..(Hi!Cycle - 1) /\ Hi!Index = Batch * Turn
      /\ \A x \in traded \ sales : x.t >= Epoch => now + Away(x.c) <= x.t + Span + Due
  BY DEF OnSchedule
<1>4. Span \in Nat /\ Span >= Hi!Cycle /\ Due \in {0, 1} /\ now \in Nat
  BY SpanIs DEF HistoryRanges, Due
<1>5. \A c \in Collections : Away(c) \in Nat /\ Away(c) <= Hi!Cycle
  BY <1>3, AwayIs
<1>6. ASSUME NEW x \in traded' \ sales', x.t >= Epoch
      PROVE  now + Away(x.c) <= x.t + Span + Due
  <2>1. CASE x \in traded
    BY <1>3, <1>6, <2>1
  <2>2. CASE x.t = now /\ x.c \in Collections
    <3>1. Away(x.c) \in Nat /\ Away(x.c) <= Hi!Cycle /\ Hi!Cycle \in Nat
      BY <1>3, <1>5, <2>2, AwayIs
    <3>2. QED  BY <1>4, <2>2, <3>1
  <2>3. QED  BY <1>6, <2>1, <2>2
<1>7. \A x \in traded' \ sales' : x.t >= Epoch => (now + Away(x.c) <= x.t + Span + Due)'
  BY <1>1, <1>2, <1>6 DEF HistoryRanges
<1>8. QED  BY <1>1, <1>2, <1>3, <1>7 DEF OnSchedule

\* The rotation moves on by one batch, and everybody waits a round less; a batch
\* that was not read waits for the next rotation.
LEMMA Advances ==
  ASSUME Hi!HistoryAssumption, HistoryRanges, OnSchedule, snapshot = Collections,
         names' = Hi!Names, idx' = Hi!Rotated
  PROVE  /\ Turn' \in 0..(Hi!Cycle - 1) /\ Hi!Index' = Batch * Turn' /\ idx' \in Nat
         /\ \A c \in Collections :
              IF Block(c) = Turn THEN Away(c)' <= Hi!Cycle ELSE Away(c)' = Away(c) - 1
<1> DEFINE b == Turn
           next == IF b = Hi!Cycle - 1 THEN 0 ELSE b + 1
<1>1. /\ Hi!Names = Order /\ Len(Order) = Size /\ Size \in Nat \ {0}
      /\ b \in 0..(Hi!Cycle - 1) /\ Hi!Index = Batch * b /\ Batch \in Nat \ {0} /\ Hi!Cycle \in Nat \ {0}
      /\ Batch * b < Size /\ (Batch * b + Batch >= Size <=> b = Hi!Cycle - 1)
  BY OrderIs, Rotation, Batches DEF OnSchedule, Hi!HistoryAssumption
<1>2. idx' = IF Batch * b + Batch < Size THEN Batch * b + Batch ELSE Size
  BY <1>1 DEF Hi!Rotated, Hi!Lesser
<1>3. Hi!Index' = Batch * next
  <2>1. Hi!Index' = IF idx' >= Size THEN 0 ELSE idx'
    BY <1>1 DEF Hi!Index
  <2>2. CASE b = Hi!Cycle - 1
    BY <1>1, <1>2, <2>1, <2>2
  <2>3. CASE b # Hi!Cycle - 1
    <3>1. Batch * b + Batch = Batch * (b + 1)
      BY <1>1
    <3>2. QED  BY <1>1, <1>2, <2>1, <2>3, <3>1
  <2>4. QED  BY <2>2, <2>3
<1>4. next \in 0..(Hi!Cycle - 1)
  BY <1>1
<1>5. Turn' = next
  BY <1>1, <1>3, <1>4, Divided DEF Turn
<1>6. idx' \in Nat
  BY <1>1, <1>2
<1>7. ASSUME NEW c \in Collections
      PROVE  IF Block(c) = b THEN Away(c)' <= Hi!Cycle ELSE Away(c)' = Away(c) - 1
  <2>1. Block(c) \in 0..(Hi!Cycle - 1)
    BY Batches
  <2>2. Away(c)' = IF Block(c) >= next THEN Block(c) - next + 1 ELSE Hi!Cycle - next + Block(c) + 1
    BY <1>5 DEF Away, Block, Place
  <2>3. Away(c) = IF Block(c) >= b THEN Block(c) - b + 1 ELSE Hi!Cycle - b + Block(c) + 1
    BY DEF Away
  <2>4. QED  BY <1>1, <2>1, <2>2, <2>3
<1>8. QED  BY <1>3, <1>4, <1>5, <1>6, <1>7

\* What a poll that gets through reads is the batch whose turn it is.
LEMMA ReadsItsBatch ==
  ASSUME Hi!HistoryAssumption, HistoryRanges, OnSchedule, snapshot = Collections, NEW c \in Collections, Block(c) = Turn
  PROVE  c \in {Hi!Names[i] : i \in Hi!Index + 1 .. Hi!Rotated}
<1>1. /\ Hi!Names = Order /\ Len(Order) = Size /\ Size \in Nat \ {0}
      /\ Hi!Index = Batch * Turn /\ Batch \in Nat \ {0} /\ Turn \in Nat
      /\ Turn \in 0..(Hi!Cycle - 1) /\ Hi!Cycle \in Nat
  BY OrderIs, Rotation, Batches, SMTT(60) DEF OnSchedule, Hi!HistoryAssumption
<1>0. /\ Place(c) \in 1..Size /\ Order[Place(c)] = c
      /\ Place(c) \in (Batch * Turn + 1)..(Batch * Turn + Batch)
  BY <1>1, Batches
<1>2. Batch * Turn \in Nat
  BY <1>1
<1>3. Place(c) \in Hi!Index + 1 .. Hi!Rotated
  BY <1>0, <1>1, <1>2 DEF Hi!Rotated, Hi!Lesser
<1>4. QED  BY <1>0, <1>1, <1>3

LEMMA PollStep ==
  ASSUME Hi!HistoryAssumption, HistoryRanges, OnSchedule, NEW failed \in 0..Batch, Hi!PollSales(failed)
  PROVE  HistoryRanges' /\ OnSchedule'
<1>1. /\ ~polled /\ polled' = TRUE /\ sales \subseteq sales' /\ names' = Hi!Names /\ idx' = Hi!Rotated
      /\ UNCHANGED <<now, traded, snapshot>>
  BY DEF Hi!PollSales, Hi!archive
<1>2. /\ faults' = faults \/ (faults' = faults + 1 /\ faults < FaultsOf["history"])
      /\ faults' \in 0..FaultsOf["history"] /\ faults \in Nat /\ FaultsOf["history"] \in Nat
  BY DEF Hi!PollSales, Hi!Fault, HistoryRanges, Hi!HistoryAssumption
<1>3. /\ Span \in Nat /\ Span >= Hi!Cycle /\ Span <= Window
      /\ Span' = IF faults' = faults THEN Span ELSE Span + Hi!Cycle
  BY <1>2, SpanIs DEF HistoryRanges, Span
<1>4. Due' = 0 /\ now \in Nat /\ Hi!Cycle \in Nat \ {0}
  BY <1>1, Batches DEF Due, HistoryRanges
<1>5. /\ Turn \in 0..(Hi!Cycle - 1) /\ Hi!Index = Batch * Turn
      /\ \A x \in traded \ sales : x.t >= Epoch => now + Away(x.c) <= x.t + Span + Due
      /\ \A c \in Collections : Away(c) \in 1..Hi!Cycle /\ (Away(c) = 1 <=> Block(c) = Turn)
  BY AwayIs DEF OnSchedule
<1>6. CASE snapshot = {}
  <2>1. Hi!Index = 0 /\ Len(Hi!Names) = 0 /\ Due = 0 /\ Batch \in Nat \ {0}
    BY <1>6, Rotation DEF Due, Hi!HistoryAssumption
  <2>2. idx' = 0 /\ Len(names') = 0 /\ Hi!Index' = 0
    BY <1>1, <2>1 DEF Hi!Rotated, Hi!Lesser, Hi!Index
  <2>3. HistoryRanges'
    BY <1>1, <1>2, <1>6, <2>2 DEF HistoryRanges
  <2>4. Turn' = Turn /\ \A c \in Collections : Away(c)' = Away(c)
    BY <2>1, <2>2 DEF Turn, Away, Block, Place
  <2>5. \A x \in traded' \ sales' : x.t >= Epoch => now' + Away(x.c)' <= x.t + Span' + Due'
    <3>1. ASSUME NEW x \in traded \ sales, x.t >= Epoch
          PROVE  now + Away(x.c) <= x.t + Span' + 0
      <4>1. now + Away(x.c) <= x.t + Span + 0 /\ x.t \in Nat /\ Away(x.c) \in Nat
        BY <1>5, <2>1, <3>1 DEF HistoryRanges
      <4>2. QED  BY <1>3, <1>4, <4>1
    <3>2. \A x \in traded' \ sales' : x \in traded \ sales /\ x.c \in Collections
      BY <1>1 DEF HistoryRanges
    <3>3. QED  BY <1>1, <1>4, <2>4, <3>1, <3>2
  <2>6. QED  BY <1>5, <2>1, <2>2, <2>3, <2>4, <2>5 DEF OnSchedule
<1>7. CASE snapshot = Collections
  <2>1. Hi!Names = Order /\ Due = 1
    BY <1>1, <1>7, Rotation DEF Due, Hi!HistoryAssumption
  <2>2. /\ Turn' \in 0..(Hi!Cycle - 1) /\ Hi!Index' = Batch * Turn' /\ idx' \in Nat
        /\ \A c \in Collections :
             IF Block(c) = Turn THEN Away(c)' <= Hi!Cycle ELSE Away(c)' = Away(c) - 1
    BY <1>1, <1>7, Advances
  <2>3. HistoryRanges'
    BY <1>1, <1>2, <1>7, <2>1, <2>2 DEF HistoryRanges, Hi!HistoryAssumption
  <2>4. ASSUME NEW x \in traded' \ sales', x.t >= Epoch
        PROVE  now + Away(x.c)' <= x.t + Span'
    <3>1. x \in traded \ sales /\ x.c \in Collections /\ x.t \in Nat
      BY <1>1, <2>4 DEF HistoryRanges
    <3>2. now + Away(x.c) <= x.t + Span + 1 /\ Away(x.c) \in 1..Hi!Cycle
      BY <1>5, <2>1, <2>4, <3>1
    <3>3. CASE Block(x.c) # Turn
      BY <1>3, <1>4, <2>2, <3>1, <3>2, <3>3
    <3>4. CASE Block(x.c) = Turn
      <4>1. now <= x.t + Span /\ now <= x.t + Window
        BY <1>3, <1>4, <1>5, <3>1, <3>2, <3>4, SMTT(60) DEF Hi!HistoryAssumption
      <4>2. failed # 0
        <5> SUFFICES ASSUME failed = 0 PROVE FALSE
          OBVIOUS
        <5> DEFINE upTo     == IF failed = 0 THEN Hi!Rotated ELSE Hi!Index + failed - 1
                   read     == {Hi!Names[i] : i \in Hi!Index + 1 .. upTo}
                   found(c) == Hi!TradeHistory(c, Hi!Monus(now, Window))
                   brought  == UNION {found(c) : c \in read}
        <5>1. x.c \in read
          BY <1>7, <3>1, <3>4, ReadsItsBatch
        <5>2. x \in found(x.c)
          BY <1>4, <3>1, <4>1 DEF Hi!TradeHistory, Hi!Monus, Hi!HistoryAssumption
        <5>3. sales' = sales \cup (brought \ sales)
          BY DEF Hi!PollSales
        <5> HIDE DEF upTo, read, found, brought
        <5>4. x \in brought
          BY <5>1, <5>2 DEF brought
        <5>5. QED  BY <2>4, <3>1, <5>3, <5>4
      <4>3. faults' = faults + 1
        BY <4>2 DEF Hi!PollSales, Hi!Fault
      <4>4. Span' = Span + Hi!Cycle /\ Away(x.c)' <= Hi!Cycle
        BY <1>2, <1>3, <2>2, <3>1, <3>4, <4>3
      <4>5. Away(x.c)' \in Int
        <5>1. Block(x.c) \in Nat /\ Turn' \in Nat
          BY <2>2, <3>1, Batches
        <5>2. Away(x.c)' = IF Block(x.c) >= Turn' THEN Block(x.c) - Turn' + 1 ELSE Hi!Cycle - Turn' + Block(x.c) + 1
          BY DEF Away, Block, Place
        <5>3. QED  BY <1>4, <5>1, <5>2
      <4>6. QED  BY <1>3, <1>4, <3>1, <4>1, <4>4, <4>5
    <3>5. QED  BY <3>3, <3>4
  <2>5. \A x \in traded' \ sales' : x.t >= Epoch => now' + Away(x.c)' <= x.t + Span' + Due'
    <3> SUFFICES ASSUME NEW x \in traded' \ sales', x.t >= Epoch
                 PROVE  now + Away(x.c)' <= x.t + Span' + 0
      BY <1>1, <1>4
    <3>1. x.t + Span' + 0 = x.t + Span'
      BY <1>1, <1>3, <1>4 DEF HistoryRanges
    <3>2. QED  BY <2>4, <3>1
  <2>6. QED  BY <2>2, <2>3, <2>5 DEF OnSchedule
<1>8. snapshot = {} \/ snapshot = Collections
  BY DEF HistoryRanges
<1>9. QED  BY <1>6, <1>7, <1>8

LEMMA RotationStep ==
  ASSUME Hi!HistoryAssumption, HistoryRanges, OnSchedule, [Hi!Next]_(Hi!vars)
  PROVE  HistoryRanges' /\ OnSchedule'
<1>1. CASE \E failed \in 0..Batch : Hi!PollSales(failed)
  BY <1>1, PollStep
<1>2. CASE \/ Hi!FillOne \/ Hi!FillDone \/ UNCHANGED Hi!vars
           \/ \E days \in {Lookback, Attributes} : Hi!StartBackfill(days)
  BY <1>2, StaysOnSchedule DEF Hi!FillOne, Hi!FillDone, Hi!StartBackfill, Hi!vars, Hi!archive
<1>3. ASSUME NEW c \in Collections, Hi!Trades(c)
      PROVE  HistoryRanges' /\ OnSchedule'
  <2>1. /\ UNCHANGED <<now, sales, snapshot, names, idx, polled, faults>>
        /\ traded' = traded \cup {[c |-> c, t |-> now]}
    BY <1>3 DEF Hi!Trades
  <2>2. QED  BY <2>1, StaysOnSchedule
<1>4. now \in Nat /\ faults \in 0..FaultsOf["history"] /\ FaultsOf["history"] \in Nat /\ Due \in {0, 1}
  BY DEF HistoryRanges, Hi!HistoryAssumption, Due
<1>5. /\ Span \in Nat /\ Span >= Hi!Cycle /\ Hi!Cycle \in Nat \ {0}
      /\ ((faults + 1) + 1) * Hi!Cycle = Span + Hi!Cycle
  BY <1>4, SpanIs, Batches
<1>6. /\ Turn \in 0..(Hi!Cycle - 1) /\ Hi!Index = Batch * Turn
      /\ \A x \in traded \ sales : x.t >= Epoch => now + Away(x.c) <= x.t + Span + Due
      /\ \A c \in Collections : Away(c) \in 1..Hi!Cycle
  BY AwayIs DEF OnSchedule
<1>7. ASSUME UNCHANGED <<names, idx>>
      PROVE  Turn' = Turn /\ Hi!Index' = Hi!Index /\ \A c \in Collections : Away(c)' = Away(c)
  BY <1>7 DEF Turn, Hi!Index, Away, Block, Place
<1>8. CASE Hi!Round
  <2>1. /\ now' = now + 1 /\ now' \in Nat /\ polled /\ polled' = FALSE /\ snapshot # {}
        /\ UNCHANGED <<traded, sales, snapshot, names, idx, faults>>
    BY <1>4, <1>8 DEF Hi!Round, Hi!archive
  <2>2. HistoryRanges'
    BY <2>1 DEF HistoryRanges
  <2>3. Due = 0 /\ Due' = 1 /\ Span' = Span
    BY <2>1 DEF Due, Span
  <2>4. \A x \in traded' \ sales' : x.t >= Epoch => now' + Away(x.c)' <= x.t + Span' + Due'
    <3>1. ASSUME NEW x \in traded \ sales, x.t >= Epoch
          PROVE  (now + 1) + Away(x.c) <= x.t + Span + 1
      <4>1. x.c \in Collections /\ x.t \in Nat /\ now + Away(x.c) <= x.t + Span + 0
        BY <1>6, <2>3, <3>1 DEF HistoryRanges
      <4>2. QED  BY <1>4, <1>5, <1>6, <4>1
    <3>2. \A x \in traded' \ sales' : x \in traded \ sales /\ x.c \in Collections
      BY <2>1 DEF HistoryRanges
    <3>3. QED  BY <1>7, <2>1, <2>3, <3>1, <3>2
  <2>5. QED  BY <1>6, <1>7, <2>1, <2>2, <2>4 DEF OnSchedule
<1>9. CASE Hi!PollStats
  <2>1. snapshot' = Collections /\ UNCHANGED <<now, traded, sales, names, idx, polled, faults>> /\ snapshot = {}
    BY <1>9 DEF Hi!PollStats, Hi!archive
  <2>2. HistoryRanges'
    BY <2>1 DEF HistoryRanges, Hi!HistoryAssumption
  <2>3. Due = 0 /\ Due' \in {0, 1} /\ Span' = Span
    BY <2>1 DEF Due, Span
  <2>4. \A x \in traded' \ sales' : x.t >= Epoch => now' + Away(x.c)' <= x.t + Span' + Due'
    <3>1. ASSUME NEW x \in traded \ sales, x.t >= Epoch
          PROVE  now + Away(x.c) <= x.t + Span + Due'
      <4>1. x.c \in Collections /\ x.t \in Nat /\ now + Away(x.c) <= x.t + Span + 0
        BY <1>6, <2>3, <3>1 DEF HistoryRanges
      <4>2. QED  BY <1>4, <1>5, <1>6, <2>3, <4>1
    <3>2. \A x \in traded' \ sales' : x \in traded \ sales /\ x.c \in Collections
      BY <2>1 DEF HistoryRanges
    <3>3. QED  BY <1>7, <2>1, <2>3, <3>1, <3>2
  <2>5. QED  BY <1>6, <1>7, <2>1, <2>2, <2>4 DEF OnSchedule
<1>10. CASE Hi!FillFails
  <2>1. /\ faults' = faults + 1 /\ faults < FaultsOf["history"]
        /\ UNCHANGED <<now, traded, sales, snapshot, names, idx, polled>>
    BY <1>10 DEF Hi!FillFails, Hi!Fault, Hi!archive
  <2>2. HistoryRanges'
    BY <1>4, <2>1 DEF HistoryRanges
  <2>3. Due' = Due /\ Span' = Span + Hi!Cycle
    BY <1>5, <2>1 DEF Due, Span
  <2>4. \A x \in traded' \ sales' : x.t >= Epoch => now' + Away(x.c)' <= x.t + Span' + Due'
    <3>1. ASSUME NEW x \in traded \ sales, x.t >= Epoch
          PROVE  now + Away(x.c) <= x.t + (Span + Hi!Cycle) + Due
      <4>1. x.c \in Collections /\ x.t \in Nat /\ now + Away(x.c) <= x.t + Span + Due
        BY <1>6, <3>1 DEF HistoryRanges
      <4>2. QED  BY <1>4, <1>5, <1>6, <4>1
    <3>2. \A x \in traded' \ sales' : x \in traded \ sales /\ x.c \in Collections
      BY <2>1 DEF HistoryRanges
    <3>3. QED  BY <1>7, <2>1, <2>3, <3>1, <3>2
  <2>5. QED  BY <1>6, <1>7, <2>1, <2>2, <2>4 DEF OnSchedule
<1>11. CASE Hi!Restart
  \* The rotation starts over, with everybody within a rotation of their turn.
  <2>1. /\ faults' = faults + 1 /\ faults < FaultsOf["history"] /\ snapshot' = {} /\ names' = <<>> /\ idx' = 0
        /\ UNCHANGED <<now, traded, sales, polled>>
    BY <1>11 DEF Hi!Restart, Hi!Fault, Hi!archive
  <2>2. HistoryRanges'
    BY <1>4, <2>1 DEF HistoryRanges
  <2>3. Due' = 0 /\ Span' = Span + Hi!Cycle
    BY <1>5, <2>1 DEF Due, Span
  <2>4. Hi!Index' = 0 /\ Turn' = 0 /\ Batch \in Nat \ {0}
    <3>1. Hi!Index' = 0 /\ Batch \in Nat \ {0}
      BY <2>1 DEF Hi!Index, Hi!HistoryAssumption
    <3>2. (Batch * 0) \div Batch = 0 /\ Batch * 0 = 0
      BY <3>1, Divided
    <3>3. QED  BY <3>1, <3>2 DEF Turn
  <2>5. \A c \in Collections : Away(c)' \in Nat /\ Away(c)' <= Hi!Cycle
    <3>1. \A c \in Collections : Block(c) \in 0..(Hi!Cycle - 1)
      BY Batches
    <3>2. \A c \in Collections : Away(c)' = IF Block(c) >= 0 THEN Block(c) - 0 + 1 ELSE Hi!Cycle - 0 + Block(c) + 1
      BY <2>4 DEF Away, Block, Place
    <3>3. QED  BY <1>5, <3>1, <3>2
  <2>6. \A x \in traded' \ sales' : x.t >= Epoch => now' + Away(x.c)' <= x.t + Span' + Due'
    <3>1. ASSUME NEW x \in traded \ sales, x.t >= Epoch
          PROVE  now + Away(x.c)' <= x.t + (Span + Hi!Cycle) + 0
      <4>1. x.c \in Collections /\ x.t \in Nat /\ now + Away(x.c) <= x.t + Span + Due
        BY <1>6, <3>1 DEF HistoryRanges
      <4>2. now <= x.t + Span
        BY <1>4, <1>5, <1>6, <4>1
      <4>3. QED  BY <1>4, <1>5, <2>5, <4>1, <4>2
    <3>2. \A x \in traded' \ sales' : x \in traded \ sales /\ x.c \in Collections
      BY <2>1 DEF HistoryRanges
    <3>3. QED  BY <2>1, <2>3, <3>1, <3>2
  <2>7. QED  BY <1>5, <2>1, <2>2, <2>4, <2>6 DEF OnSchedule
<1>12. QED
  BY <1>1, <1>2, <1>3, <1>8, <1>9, <1>10, <1>11 DEF Hi!Next

LEMMA DownloadStep ==
  ASSUME Hi!HistoryAssumption, HistoryRanges, Downloading, [Hi!Next]_(Hi!vars)
  PROVE  Downloading'
<1> USE DEF Downloading
<1>1. Hi!NoFill.at = "idle"
  BY DEF Hi!NoFill
<1>2. CASE Hi!Round \/ Hi!PollStats \/ UNCHANGED Hi!vars
  BY <1>2 DEF Hi!Round, Hi!PollStats, Hi!vars, Hi!archive, Hi!filling
<1>3. ASSUME NEW c \in Collections, Hi!Trades(c)
      PROVE  Downloading'
  BY <1>3 DEF Hi!Trades, Hi!filling
<1>4. ASSUME NEW failed \in 0..Batch, Hi!PollSales(failed)
      PROVE  Downloading'
  <2>1. sales \subseteq sales' /\ UNCHANGED <<traded, fill, done, owed, promised>>
    BY <1>4 DEF Hi!PollSales, Hi!archive, Hi!filling
  <2>2. warm'.don => done
    BY <1>4 DEF Hi!PollSales, Hi!Refreshed
  <2>3. QED  BY <2>1, <2>2
<1>5. ASSUME NEW days \in {Lookback, Attributes}, Hi!StartBackfill(days)
      PROVE  Downloading'
  <2> DEFINE since == Hi!Monus(now, days)
  <2>1. snapshot = Collections /\ Order \in Seq(Collections) /\ {Order[i] : i \in 1..Len(Order)} = Collections
    <3>1. snapshot = Collections
      BY <1>5 DEF Hi!StartBackfill, HistoryRanges
    <3>2. QED  BY <3>1, OrderIs
  <2>2. /\ fill' = [at |-> "read", todo |-> Order, since |-> since, days |-> days]
        /\ owed' = UNION {Hi!TradeHistory(c, since) : c \in Collections}
        /\ UNCHANGED <<traded, sales, done, promised, warm>>
    BY <1>5, <2>1 DEF Hi!StartBackfill, Hi!archive, Order
  <2> HIDE DEF since
  <2>3. \A x \in owed' : x \in traded /\ x.t >= since /\ \E i \in 1..Len(Order) : Order[i] = x.c
    BY <2>1, <2>2 DEF Hi!TradeHistory
  <2>4. QED  BY <2>1, <2>2, <2>3
<1>6. CASE Hi!FillOne
  <2>1. /\ fill.at = "read" /\ fill.todo # <<>> /\ fill.todo \in Seq(Collections)
        /\ fill = [at |-> "read", todo |-> fill.todo, since |-> fill.since, days |-> fill.days]
        /\ sales' = sales \cup Hi!TradeHistory(Head(fill.todo), fill.since)
        /\ fill' = [fill EXCEPT !.todo = Tail(fill.todo)]
        /\ UNCHANGED <<traded, done, owed, promised, warm>>
    BY <1>6 DEF Hi!FillOne, Hi!archive
  <2>2. fill' = [at |-> "read", todo |-> Tail(fill.todo), since |-> fill.since, days |-> fill.days]
    BY <2>1
  <2>3. Tail(fill.todo) \in Seq(Collections)
    BY <2>1
  <2>4. ASSUME NEW x \in owed \ sales'
        PROVE  x \in traded /\ x.t >= fill.since /\ \E i \in 1..Len(Tail(fill.todo)) : Tail(fill.todo)[i] = x.c
    <3>1. x \in owed \ sales /\ x \in traded /\ x.t >= fill.since
      BY <2>1, <2>4
    <3>2. PICK i \in 1..Len(fill.todo) : fill.todo[i] = x.c
      BY <2>1, <3>1
    <3>3. i # 1
      BY <2>1, <2>4, <3>1, <3>2 DEF Hi!TradeHistory
    <3>4. i - 1 \in 1..Len(Tail(fill.todo)) /\ Tail(fill.todo)[i - 1] = fill.todo[i]
      BY <2>1, <3>2, <3>3
    <3>5. QED  BY <3>1, <3>2, <3>4
  <2>5. QED  BY <2>1, <2>2, <2>3, <2>4, ZenonT(60)
<1>7. CASE Hi!FillFails \/ Hi!Restart
  <2>1. fill' = Hi!NoFill /\ UNCHANGED <<sales, done, promised>> /\ (warm'.don => warm.don \/ done)
    BY <1>7 DEF Hi!FillFails, Hi!Restart, Hi!Refreshed
  <2>2. QED  BY <1>1, <2>1
<1>8. CASE Hi!FillDone
  <2>1. fill.at = "read" /\ fill.todo = <<>> /\ fill' = Hi!NoFill /\ done' = TRUE /\ promised' = owed /\ sales' = sales
    BY <1>8 DEF Hi!FillDone
  <2>2. owed \subseteq sales
    BY <2>1
  <2>3. QED  BY <1>1, <2>1, <2>2
<1>9. QED
  BY <1>2, <1>3, <1>4, <1>5, <1>6, <1>7, <1>8 DEF Hi!Next

LEMMA HistoryStep ==
  ASSUME Hi!HistoryAssumption, HistoryInv, [Hi!Next]_(Hi!vars)
  PROVE  HistoryInv'
BY RotationStep, DownloadStep DEF HistoryInv

\* A warm desk has every trade its download set out to bring, and the rotation
\* stores a trade before it leaves the window: for any number of collections and
\* any batch, whichever requests fail and whenever the desk restarts, as long as
\* the window covers a rotation more than there are failures (App.Backfill,
\* pollSales, nextCollections).
THEOREM HistoryIsWhole ==
  ASSUME Hi!HistoryAssumption
  PROVE  /\ Hi!Spec => []Hi!HistoryHolds
         /\ DeskSpec => []HistoryHolds
<1> DEFINE Inv == part = "history" => HistoryInv
<1>1. Hi!Init => HistoryInv
  <2> SUFFICES ASSUME Hi!Init PROVE HistoryInv
    OBVIOUS
  <2>1. /\ now = Epoch /\ sales = {} /\ snapshot = {} /\ names = <<>> /\ idx = 0 /\ polled = TRUE
        /\ traded = {[c |-> c, t |-> 1] : c \in Collections} /\ faults = 0 /\ promised = {}
        /\ fill = Hi!NoFill /\ done = FALSE /\ warm = Hi!NotWarm
    BY DEF Hi!Init
  <2>2. HistoryRanges
    BY <2>1 DEF HistoryRanges, Hi!HistoryAssumption
  <2>3. Downloading
    BY <2>1 DEF Downloading, Hi!NoFill, Hi!NotWarm
  <2>4. Hi!Index = 0 /\ Turn = 0 /\ Batch \in Nat \ {0}
    <3>1. Hi!Index = 0 /\ Batch \in Nat \ {0}
      BY <2>1 DEF Hi!Index, Hi!HistoryAssumption
    <3>2. (Batch * 0) \div Batch = 0 /\ Batch * 0 = 0
      BY <3>1, Divided
    <3>3. QED  BY <3>1, <3>2 DEF Turn
  <2>5. Hi!Cycle \in Nat \ {0} /\ Span \in Nat /\ Span >= Hi!Cycle /\ \A c \in Collections : Away(c) \in 1..Hi!Cycle
    BY <2>2, <2>4, AwayIs, SpanIs, Batches DEF HistoryRanges
  <2>6. \A x \in traded \ sales : x.t >= Epoch => now + Away(x.c) <= x.t + Span + Due
    <3> SUFFICES ASSUME NEW c \in Collections, 1 >= Epoch PROVE Epoch + Away(c) <= 1 + Span + 0
      BY <2>1 DEF Due
    <3>1. Epoch \in Nat
      BY DEF Hi!HistoryAssumption
    <3>2. QED  BY <2>5, <3>1
  <2>7. QED  BY <2>2, <2>3, <2>4, <2>5, <2>6 DEF HistoryInv, OnSchedule
<1>2. HistoryInv /\ [Hi!Next]_(Hi!vars) => HistoryInv'
  BY HistoryStep
<1>3. HistoryInv => Hi!HistoryHolds
  <2> SUFFICES ASSUME HistoryInv PROVE Hi!HistoryHolds
    OBVIOUS
  <2>1. Hi!WarmMeansDownloaded
    BY DEF HistoryInv, Downloading, Hi!WarmMeansDownloaded, Hi!Warm
  <2>2. Hi!RotationMissesNothing
    <3> SUFFICES ASSUME NEW x \in traded \ sales, x.t >= Epoch, x.t + Window < now PROVE FALSE
      BY DEF Hi!RotationMissesNothing
    <3>1. x.c \in Collections /\ x.t \in Nat /\ now \in Nat /\ now + Away(x.c) <= x.t + Span + Due
      BY DEF HistoryInv, HistoryRanges, OnSchedule
    <3>2. Away(x.c) \in Nat /\ Away(x.c) >= 1 /\ Span \in Nat /\ Span <= Window /\ Window \in Nat
      <4>1. Away(x.c) \in 1..Hi!Cycle /\ Hi!Cycle \in Nat
        BY <3>1, AwayIs DEF HistoryInv, OnSchedule
      <4>2. Span \in Nat /\ Span <= Window /\ Window \in Nat
        BY SpanIs DEF HistoryInv, HistoryRanges, Hi!HistoryAssumption
      <4>3. QED  BY <4>1, <4>2
    <3>3. Due \in {0, 1}
      BY DEF Due
    <3>4. QED  BY <3>1, <3>2, <3>3
  <2>3. QED  BY <2>1, <2>2 DEF Hi!HistoryHolds
<1>4. DeskInit => Inv
  BY <1>1, PartStarts
<1>5. Inv /\ [DeskNext]_all => Inv'
  BY <1>2, PartSteps
<1>6. Inv => HistoryHolds
  BY <1>3 DEF HistoryHolds
<1> HIDE DEF Inv
<1>7. QED  BY <1>1, <1>2, <1>3, <1>4, <1>5, <1>6, PTL DEF Hi!Spec, DeskSpec

-----------------------------------------------------------------------------
(* The order books *)

Answers == [has : {"nothing", "book", "error"}, version : Nat]
Entries == [book : Answers, at : Nat, holder : Readers \cup {"none"}]
Gets    == [at : {"idle", "found", "fetch", "store", "done"}, slot : 0..Slots, since : Nat, read : Answers]

BookRanges ==
  /\ now \in Nat /\ real \in Nat /\ known \in Nat /\ known <= real /\ entry \in 0..Slots
  /\ slots \in [1..Slots -> Entries] /\ get \in [Readers -> Gets]

\* A reader inside Get has an entry, and holds its mutex while it fetches.
Engaged ==
  \A r \in Readers :
    /\ get[r].at # "idle" => get[r].slot \in 1..Slots /\ get[r].since <= known
    /\ get[r].at \in {"fetch", "store"} => slots[get[r].slot].holder = r

\* What the model's entry holds, or is about to, is no older than the last Invalidate.
EntryFresh ==
  /\ entry > 0 /\ slots[entry].book.has # "nothing" => slots[entry].book.version >= known
  /\ \A q \in Readers : get[q].at = "store" /\ get[q].slot = entry => get[q].read.version >= known

\* An entry somebody found, whether or not the map still has it, never comes to
\* hold a book older than the Invalidate its finder followed.
FoundFresh ==
  \A r \in Readers : get[r].at # "idle" =>
    /\ slots[get[r].slot].book.has # "nothing" => slots[get[r].slot].book.version >= get[r].since
    /\ \A q \in Readers : get[q].at = "store" /\ get[q].slot = get[r].slot => get[q].read.version >= get[r].since
    /\ get[r].at = "done" => get[r].read.version >= get[r].since

BookInv == BookRanges /\ Engaged /\ EntryFresh /\ FoundFresh

\* There is one entry more than there are readers: one is free for a model that
\* has none.
LEMMA EntryToSpare ==
  ASSUME Bo!BookCacheAssumption, BookRanges, entry = 0
  PROVE  Bo!Unused # {}
<1>1. SUFFICES ASSUME Bo!Unused = {} PROVE FALSE
  OBVIOUS
<1>2. \A s \in 1..Slots : \E r \in Readers : get[r].slot = s
  BY <1>1 DEF Bo!Unused
<1> DEFINE f == [s \in 1..Slots |-> CHOOSE r \in Readers : get[r].slot = s]
<1>3. \A s \in 1..Slots : f[s] \in Readers /\ get[f[s]].slot = s
  BY <1>2
<1>4. f \in Injection(1..Slots, Readers)
  <2>1. f \in [1..Slots -> Readers]
    BY <1>3
  <2>2. \A s, t \in 1..Slots : f[s] = f[t] => s = t
    BY <1>3
  <2> HIDE DEF f
  <2>3. QED  BY <2>1, <2>2 DEF Injection, IsInjective
<1>5. IsFiniteSet(Readers) /\ Slots \in Nat /\ Cardinality(Readers) < Slots
  <2>1. Bo!IsFiniteSet(Readers) <=> IsFiniteSet(Readers)
    BY DEF IsFiniteSet, Bo!IsFiniteSet
  <2>2. Bo!Cardinality(Readers) = Cardinality(Readers)
    BY <2>1 DEF Cardinality, Bo!Cardinality
  <2>3. QED  BY <2>1, <2>2 DEF Bo!BookCacheAssumption
<1> HIDE DEF f
<1>6. Cardinality(1..Slots) <= Cardinality(Readers) /\ Cardinality(Readers) \in Nat
  BY <1>4, <1>5, FS_Injection, FS_CardinalityType
<1>7. Cardinality(1..Slots) = Slots
  BY <1>5, FS_Interval
<1>8. QED  BY <1>5, <1>6, <1>7

\* What finding, or making, an entry comes to.
LEMMA Finds ==
  ASSUME Bo!BookCacheAssumption, BookRanges, NEW r \in Readers, Bo!Find(r)
  PROVE  /\ entry' \in 1..Slots /\ get[r].at = "idle"
         /\ get' = [get EXCEPT ![r] = [Bo!Idle EXCEPT !.at = "found", !.slot = entry', !.since = known]]
         /\ \/ entry' = entry /\ slots' = slots
            \/ /\ slots' = [slots EXCEPT ![entry'] = Bo!Empty]
               /\ \A q \in Readers : get[q].slot # entry'
         /\ UNCHANGED <<now, real, known>>
<1> DEFINE s == IF entry > 0 THEN entry ELSE CHOOSE u \in Bo!Unused : TRUE
<1>0. get' = [get EXCEPT ![r] = [Bo!Idle EXCEPT !.at = "found", !.slot = s, !.since = known]]
  BY DEF Bo!Find
<1>1. CASE entry > 0
  BY <1>0, <1>1 DEF Bo!Find, BookRanges
<1>2. CASE entry = 0
  <2>1. PICK u \in Bo!Unused : u = CHOOSE v \in Bo!Unused : TRUE
    BY <1>2, EntryToSpare
  <2>2. entry' = u /\ slots' = [slots EXCEPT ![u] = Bo!Empty]
    BY <1>2, <2>1 DEF Bo!Find
  <2>3. QED  BY <1>0, <1>2, <2>1, <2>2 DEF Bo!Find, Bo!Unused
<1>3. QED  BY <1>1, <1>2 DEF BookRanges, Bo!BookCacheAssumption

\* A reader behind the mutex takes what is fresh, or takes the mutex.
LEMMA Locks ==
  ASSUME BookRanges, Engaged, NEW r \in Readers, Bo!Lock(r)
  PROVE  LET s == get[r].slot IN
         /\ s \in 1..Slots /\ slots[s].holder = "none" /\ get[r].at = "found"
         /\ \/ /\ slots[s].book.has # "nothing" /\ slots' = slots
               /\ get' = [get EXCEPT ![r] = [get[r] EXCEPT !.at = "done", !.read = slots[s].book]]
            \/ /\ slots' = [slots EXCEPT ![s].holder = r]
               /\ get' = [get EXCEPT ![r].at = "fetch"]
         /\ UNCHANGED <<now, real, known, entry>>
BY DEF Bo!Lock, Engaged

LEMMA BookRangesStep ==
  ASSUME Bo!BookCacheAssumption, BookRanges, Engaged, [Bo!Next]_(Bo!vars)
  PROVE  BookRanges'
<1>1. Bo!Idle \in Gets /\ Bo!Empty \in Entries /\ Bo!NoBook \in Answers
  BY DEF Bo!Idle, Bo!Empty, Bo!NoBook, Gets, Entries, Answers, Bo!BookCacheAssumption
<1>2. CASE Bo!TimePasses \/ Bo!BookMoves \/ Bo!Invalidate \/ UNCHANGED Bo!vars
  <2>1. now + 1 \in Nat /\ real + 1 \in Nat /\ known <= real + 1 /\ 0 \in 0..Slots
    BY DEF BookRanges, Bo!BookCacheAssumption
  <2>2. QED  BY <1>2, <2>1 DEF Bo!TimePasses, Bo!BookMoves, Bo!Invalidate, Bo!vars, BookRanges
<1>3. ASSUME NEW r \in Readers, Bo!Find(r)
      PROVE  BookRanges'
  <2>1. [Bo!Idle EXCEPT !.at = "found", !.slot = entry', !.since = known] \in Gets
    <3>1. entry' \in 0..Slots
      BY <1>3, Finds DEF Bo!BookCacheAssumption
    <3>2. QED  BY <3>1 DEF Bo!Idle, Bo!NoBook, Gets, Answers, BookRanges
  <2>2. get' \in [Readers -> Gets] /\ slots' \in [1..Slots -> Entries]
    BY <1>1, <1>3, <2>1, Finds DEF BookRanges
  <2>3. QED  BY <1>3, <2>2, Finds DEF BookRanges
<1>4. ASSUME NEW r \in Readers, Bo!Lock(r) \/ Bo!Answer(r) \/ Bo!Store(r) \/ Bo!Return(r)
      PROVE  BookRanges'
  <2>1. get[r] \in Gets /\ (get[r].at # "idle" => slots[get[r].slot] \in Entries)
    BY DEF BookRanges, Engaged
  <2>2. UNCHANGED <<now, real, known, entry>>
    BY <1>4 DEF Bo!Lock, Bo!Answer, Bo!Store, Bo!Return
  <2>3. get' \in [Readers -> Gets]
    <3>1. CASE Bo!Lock(r)
      <4> DEFINE s == get[r].slot
      <4>1. s \in 1..Slots /\ slots[s].book \in Answers
        BY <3>1, <2>1, Locks DEF Entries
      <4>2. [get[r] EXCEPT !.at = "done", !.read = slots[s].book] \in Gets
        BY <4>1, <2>1 DEF Gets
      <4>3. [get[r] EXCEPT !.at = "fetch"] \in Gets
        BY <2>1 DEF Gets
      <4>4. QED  BY <3>1, <4>2, <4>3, Locks DEF BookRanges
    <3>2. CASE Bo!Answer(r)
      <4>1. PICK has \in {"book", "error"} :
              get' = [get EXCEPT ![r].at = "store", ![r].read = [has |-> has, version |-> real]]
        BY <3>2 DEF Bo!Answer
      <4>2. [has |-> has, version |-> real] \in Answers
        BY DEF Answers, BookRanges
      <4>3. QED  BY <2>1, <4>1, <4>2 DEF BookRanges, Gets
    <3>3. CASE Bo!Store(r)
      BY <3>3, <2>1 DEF Bo!Store, BookRanges, Gets
    <3>4. CASE Bo!Return(r)
      BY <3>4, <1>1 DEF Bo!Return, BookRanges
    <3>5. QED  BY <1>4, <3>1, <3>2, <3>3, <3>4, SMTT(60)
  <2>4. slots' \in [1..Slots -> Entries]
    <3>1. CASE Bo!Lock(r)
      BY <3>1, <2>1 DEF Bo!Lock, BookRanges, Entries
    <3>2. CASE Bo!Answer(r) \/ Bo!Return(r)
      BY <3>2 DEF Bo!Answer, Bo!Return, BookRanges
    <3>3. CASE Bo!Store(r)
      <4>1. [book |-> get[r].read, at |-> now, holder |-> "none"] \in Entries
        BY <2>1 DEF Entries, Gets, BookRanges
      <4>2. QED  BY <3>3, <4>1 DEF Bo!Store, BookRanges
    <3>4. QED  BY <1>4, <3>1, <3>2, <3>3
  <2>5. QED  BY <2>2, <2>3, <2>4 DEF BookRanges
<1>5. QED  BY <1>2, <1>3, <1>4 DEF Bo!Next

LEMMA BookStep ==
  ASSUME Bo!BookCacheAssumption, BookInv, [Bo!Next]_(Bo!vars)
  PROVE  BookInv'
<1> USE DEF BookInv
<1>1. BookRanges'
  BY BookRangesStep
<1>2. \A r \in Readers : get[r] \in Gets /\ get'[r] \in Gets
  BY <1>1 DEF BookRanges
<1>3. "none" \notin Readers
  BY DEF Bo!BookCacheAssumption
<1>4. CASE Bo!TimePasses \/ Bo!BookMoves \/ UNCHANGED Bo!vars
  BY <1>1, <1>4 DEF Bo!TimePasses, Bo!BookMoves, Bo!vars, Engaged, EntryFresh, FoundFresh
<1>5. CASE Bo!Invalidate
  \* known moves up to real, and the map lets go of the entry.
  <2>1. Engaged'
    BY <1>2, <1>5 DEF Bo!Invalidate, Engaged, BookRanges, Gets
  <2>2. EntryFresh'
    BY <1>2, <1>5 DEF Bo!Invalidate, EntryFresh, Engaged, Gets
  <2>3. FoundFresh'
    BY <1>5 DEF Bo!Invalidate, FoundFresh
  <2>4. QED  BY <1>1, <2>1, <2>2, <2>3
<1>6. ASSUME NEW r \in Readers, Bo!Find(r)
      PROVE  BookInv'
  <2>1. /\ entry' \in 1..Slots /\ get[r].at = "idle"
        /\ get'[r].at = "found" /\ get'[r].slot = entry' /\ get'[r].since = known
        /\ \A q \in Readers \ {r} : get'[q] = get[q]
        /\ UNCHANGED <<now, real, known>>
    <3>1. get'[r] = [Bo!Idle EXCEPT !.at = "found", !.slot = entry', !.since = known]
      BY <1>6, Finds DEF BookRanges
    <3>2. QED  BY <1>6, <3>1, Finds DEF BookRanges, Bo!Idle
  <2>2. CASE entry' = entry /\ slots' = slots
    BY <1>1, <1>2, <2>1, <2>2 DEF Engaged, EntryFresh, FoundFresh, BookRanges
  <2>3. CASE slots' = [slots EXCEPT ![entry'] = Bo!Empty] /\ \A q \in Readers : get[q].slot # entry'
    <3>1. /\ slots'[entry'].book.has = "nothing"
          /\ \A q \in Readers \ {r} : get[q].at # "idle" => slots'[get[q].slot] = slots[get[q].slot]
      BY <2>1, <2>3 DEF Engaged, BookRanges, Bo!Empty, Bo!NoBook
    <3>2. QED  BY <1>1, <1>2, <2>1, <2>3, <3>1 DEF Engaged, EntryFresh, FoundFresh, BookRanges
  <2>4. QED  BY <1>6, <2>2, <2>3, Finds
<1>7. ASSUME NEW r \in Readers, Bo!Lock(r)
      PROVE  BookInv'
  <2>1. get[r].slot \in 1..Slots /\ slots[get[r].slot].holder = "none" /\ get[r].at = "found"
    BY <1>7, Locks, ZenonT(60)
  <2> DEFINE mine == get[r].slot
  <2>2. /\ get'[r].slot = mine /\ get'[r].since = get[r].since
        /\ \A q \in Readers \ {r} : get'[q] = get[q]
        /\ \A s \in 1..Slots : slots'[s].book = slots[s].book
        /\ \A s \in 1..Slots : s # mine => slots'[s] = slots[s]
        /\ UNCHANGED <<now, real, known, entry>>
        /\ \/ /\ get'[r].at = "done" /\ get'[r].read = slots[mine].book
              /\ slots[mine].book.has # "nothing" /\ slots' = slots
           \/ get'[r].at = "fetch" /\ slots'[mine].holder = r
    <3>1. CASE /\ slots[mine].book.has # "nothing" /\ slots' = slots
               /\ get' = [get EXCEPT ![r] = [get[r] EXCEPT !.at = "done", !.read = slots[mine].book]]
      <4>1. get'[r] = [get[r] EXCEPT !.at = "done", !.read = slots[mine].book]
        BY <3>1 DEF BookRanges
      <4>2. QED  BY <1>2, <1>7, <3>1, <4>1, Locks DEF BookRanges, Gets
    <3>2. CASE slots' = [slots EXCEPT ![mine].holder = r] /\ get' = [get EXCEPT ![r].at = "fetch"]
      <4>1. /\ get'[r] = [get[r] EXCEPT !.at = "fetch"] /\ slots'[mine] = [slots[mine] EXCEPT !.holder = r]
            /\ \A q \in Readers \ {r} : get'[q] = get[q]
            /\ \A s \in 1..Slots : s # mine => slots'[s] = slots[s]
        BY <2>1, <3>2 DEF BookRanges
      <4>2. get[r] \in Gets /\ slots[mine] \in Entries
        BY <1>2, <2>1 DEF BookRanges
      <4>3. /\ get'[r].slot = mine /\ get'[r].since = get[r].since /\ get'[r].at = "fetch"
            /\ slots'[mine].book = slots[mine].book /\ slots'[mine].holder = r
        BY <4>1, <4>2 DEF Gets, Entries
      <4>4. UNCHANGED <<now, real, known, entry>>
        BY <1>7 DEF Bo!Lock
      <4>5. QED  BY <4>1, <4>3, <4>4
    <3>3. QED  BY <1>7, <3>1, <3>2, Locks
  <2>3. Engaged'
    BY <1>3, <2>1, <2>2 DEF Engaged
  <2>4. EntryFresh'
    BY <2>1, <2>2 DEF EntryFresh, BookRanges
  <2>5. FoundFresh'
    BY <2>1, <2>2 DEF FoundFresh, Engaged
  <2>6. QED  BY <1>1, <2>3, <2>4, <2>5, SMTT(60)
<1>8. ASSUME NEW r \in Readers, Bo!Answer(r)
      PROVE  BookInv'
  <2>1. /\ get[r].at = "fetch" /\ get'[r].at = "store" /\ get'[r].read.version = real
        /\ get'[r].slot = get[r].slot /\ get'[r].since = get[r].since
        /\ \A q \in Readers \ {r} : get'[q] = get[q]
        /\ UNCHANGED <<now, real, known, entry, slots>>
    BY <1>8 DEF Bo!Answer, BookRanges, Gets
  <2>2. \A q \in Readers : get[q].at # "idle" => get[q].since <= real
    BY <1>2 DEF BookRanges, Engaged, Gets
  <2>3. QED  BY <1>1, <2>1, <2>2 DEF Engaged, EntryFresh, FoundFresh, BookRanges
<1>9. ASSUME NEW r \in Readers, Bo!Store(r)
      PROVE  BookInv'
  <2>1. /\ get[r].at = "store" /\ get[r].slot \in 1..Slots /\ slots[get[r].slot].holder = r
        /\ get'[r].at = "done" /\ get'[r].read = get[r].read
        /\ get'[r].slot = get[r].slot /\ get'[r].since = get[r].since
        /\ \A q \in Readers \ {r} : get'[q] = get[q]
        /\ slots'[get[r].slot].book = get[r].read
        /\ \A s \in 1..Slots : s # get[r].slot => slots'[s] = slots[s]
        /\ UNCHANGED <<now, real, known, entry>>
    BY <1>9 DEF Bo!Store, BookRanges, Gets, Engaged
  <2>2. Engaged'
    BY <2>1 DEF Engaged
  <2>3. EntryFresh'
    BY <2>1 DEF EntryFresh, BookRanges
  <2>4. FoundFresh'
    BY <2>1 DEF FoundFresh, Engaged
  <2>5. QED  BY <1>1, <2>2, <2>3, <2>4
<1>10. ASSUME NEW r \in Readers, Bo!Return(r)
       PROVE  BookInv'
  <2>1. /\ get'[r].at = "idle" /\ \A q \in Readers \ {r} : get'[q] = get[q]
        /\ UNCHANGED <<now, real, known, entry, slots>>
    BY <1>10 DEF Bo!Return, BookRanges, Bo!Idle
  <2>2. QED  BY <1>1, <2>1 DEF Engaged, EntryFresh, FoundFresh
<1>11. QED  BY <1>4, <1>5, <1>6, <1>7, <1>8, <1>9, <1>10 DEF Bo!Next

LEMMA BookStart ==
  ASSUME Bo!BookCacheAssumption
  PROVE  Bo!Init => BookInv
BY DEF Bo!Init, Bo!BookCacheAssumption, Bo!Idle, Bo!Empty, Bo!NoBook, BookInv, BookRanges, Engaged,
       EntryFresh, FoundFresh, Gets, Entries, Answers

LEMMA BookInvHolds == BookInv => Bo!CacheHolds
BY DEF BookInv, Engaged, FoundFresh, Bo!CacheHolds, Bo!FreshAfterInvalidate, Bo!SingleFlight

\* Whoever asks for a book after an Invalidate is answered with one read after it,
\* however many fetches that started before it are still under way, and an entry
\* is filled by one of its readers at a time (pricing.BookCache.Get, Invalidate).
THEOREM BooksAreFresh ==
  ASSUME Bo!BookCacheAssumption
  PROVE  Bo!Spec => []Bo!CacheHolds
<1>1. Bo!Init => BookInv
  BY BookStart
<1>2. BookInv /\ [Bo!Next]_(Bo!vars) => BookInv'
  BY BookStep
<1>3. BookInv => Bo!CacheHolds
  BY BookInvHolds
<1>4. QED  BY <1>1, <1>2, <1>3, PTL DEF Bo!Spec

-----------------------------------------------------------------------------
(* The other venues *)

\* What may be remembered under a key: another caller's deadline is not among it.
Remembered == {"nothing", "asks", "failure", "rejected"}
Memos      == [holds : Remembered, at : Nat, holder : Calls \cup {"none"}]
Lookups    == [at : {"idle", "get", "token", "auth", "keep", "send", "done", "late"}, key : Models \cup {"none"},
               token : Nat, again : BOOLEAN, got : Remembered \cup {"deadline"}]

VenueRanges ==
  /\ now \in Nat /\ token \in Nat /\ issued \in Nat
  /\ entries \in [Models -> Memos] /\ call \in [Calls -> Lookups]

\* A lookup under way has a key, keeps no empty token, and ends with an answer of
\* the venue unless it ends late.
LookupsHonest ==
  \A c \in Calls :
    /\ call[c].at # "idle" => call[c].key \in Models
    /\ call[c].at = "keep" => call[c].token > 0
    /\ call[c].at = "done" => call[c].got \in Remembered

VenueInv == VenueRanges /\ LookupsHonest

\* Every step of a lookup but the first leaves its key alone.
LEMMA Remembers ==
  ASSUME VenueInv, NEW c \in Calls, call[c].at # "idle", NEW what \in Remembered, Ve!Remember(c, what)
  PROVE  /\ entries' \in [Models -> Memos]
         /\ call'[c] \in Lookups /\ call'[c].at = "done" /\ call'[c].key \in Models /\ call'[c].got = what
         /\ call' = [call EXCEPT ![c] = call'[c]]
<1>1. call[c] \in Lookups /\ call[c].key \in Models
  BY DEF VenueInv, VenueRanges, LookupsHonest
<1>2. [holds |-> what, at |-> now, holder |-> "none"] \in Memos
  BY DEF VenueInv, VenueRanges, Memos
<1>3. entries' \in [Models -> Memos]
  BY <1>2 DEF Ve!Remember, VenueInv, VenueRanges
<1>4. call'[c] = [call[c] EXCEPT !.at = "done", !.got = what]
  BY DEF Ve!Remember, VenueInv, VenueRanges
<1>5. call' = [call EXCEPT ![c] = call'[c]]
  BY <1>4 DEF Ve!Remember, VenueInv, VenueRanges
<1>6. QED  BY <1>1, <1>3, <1>4, <1>5 DEF Lookups

\* A lookup that moved within its record is all that has to be looked at.
LEMMA LookupMoves ==
  ASSUME VenueInv, NEW c \in Calls, NEW k \in Lookups, call' = [call EXCEPT ![c] = k],
         k.at # "idle" => k.key \in Models, k.at = "keep" => k.token > 0, k.at = "done" => k.got \in Remembered,
         now' \in Nat, token' \in Nat, issued' \in Nat, entries' \in [Models -> Memos]
  PROVE  VenueInv'
<1>1. call' \in [Calls -> Lookups] /\ call'[c] = k /\ \A d \in Calls \ {c} : call'[d] = call[d]
  BY DEF VenueInv, VenueRanges
<1>2. QED  BY <1>1 DEF VenueInv, VenueRanges, LookupsHonest

LEMMA VenueStep ==
  ASSUME Ve!VenueCacheAssumption, VenueInv, [Ve!Next]_(Ve!vars)
  PROVE  VenueInv'
<1>1. /\ now \in Nat /\ token \in Nat /\ issued \in Nat /\ entries \in [Models -> Memos]
      /\ now + 1 \in Nat /\ issued + 1 \in Nat /\ issued + 1 > 0
  BY DEF VenueInv, VenueRanges
<1>2. CASE Ve!TimePasses \/ Ve!Revoke \/ UNCHANGED Ve!vars
  BY <1>1, <1>2 DEF Ve!TimePasses, Ve!Revoke, Ve!vars, VenueInv, VenueRanges, LookupsHonest
<1>3. ASSUME NEW c \in Calls, Ve!Ask(c) \/ Ve!Return(c)
      PROVE  VenueInv'
  <2>1. Ve!Idle \in Lookups /\ Ve!Idle.at = "idle"
        /\ \A k \in Models : LET i == [Ve!Idle EXCEPT !.at = "get", !.key = k] IN
             i \in Lookups /\ i.at = "get" /\ i.key \in Models
    BY DEF Ve!Idle, Lookups, Remembered
  <2>2. UNCHANGED <<now, token, issued, entries>>
    BY <1>3 DEF Ve!Ask, Ve!Return
  <2>3. QED  BY <1>1, <1>3, <2>1, <2>2, LookupMoves DEF Ve!Ask, Ve!Return
<1>4. ASSUME NEW c \in Calls, Ve!Lock(c)
      PROVE  VenueInv'
  <2> DEFINE e == entries[call[c].key]
             taken == [call[c] EXCEPT !.at = "done", !.got = e.holds]
             held == [call[c] EXCEPT !.at = "token"]
  <2>1. call[c] \in Lookups /\ call[c].key \in Models /\ e \in Memos
    BY <1>4 DEF Ve!Lock, VenueInv, VenueRanges, LookupsHonest
  <2>2. taken \in Lookups /\ taken.at = "done" /\ taken.key \in Models /\ taken.got \in Remembered
    BY <2>1 DEF Lookups, Memos
  <2>3. held \in Lookups /\ held.at = "token" /\ held.key \in Models
    BY <2>1 DEF Lookups
  <2>4. UNCHANGED <<now, token, issued>>
    BY <1>4 DEF Ve!Lock
  <2>5. CASE call' = [call EXCEPT ![c] = taken] /\ UNCHANGED entries
    BY <1>1, <2>2, <2>4, <2>5, LookupMoves
  <2>6. CASE call' = [call EXCEPT ![c] = held] /\ entries' = [entries EXCEPT ![call[c].key].holder = c]
    <3>1. [e EXCEPT !.holder = c] \in Memos
      BY <2>1 DEF Memos
    <3>2. entries' \in [Models -> Memos]
      BY <1>1, <2>6, <3>1
    <3>3. QED  BY <1>1, <2>3, <2>4, <2>6, <3>2, LookupMoves
  <2>7. QED  BY <1>4, <2>5, <2>6 DEF Ve!Lock
<1>5. ASSUME NEW c \in Calls, Ve!EnsureToken(c)
      PROVE  VenueInv'
  <2> DEFINE k == [call[c] EXCEPT !.at = IF token > 0 THEN "send" ELSE "auth", !.token = token]
  <2>1. call[c] \in Lookups /\ call[c].key \in Models
    BY <1>5 DEF Ve!EnsureToken, VenueInv, VenueRanges, LookupsHonest
  <2>2. k \in Lookups /\ k.at \in {"send", "auth"} /\ k.key \in Models
    BY <1>1, <2>1 DEF Lookups
  <2>3. call' = [call EXCEPT ![c] = k] /\ UNCHANGED <<now, token, issued, entries>>
    BY <1>5 DEF Ve!EnsureToken
  <2> HIDE DEF k
  <2>4. QED  BY <1>1, <2>2, <2>3, LookupMoves
<1>6. ASSUME NEW c \in Calls, Ve!Exchange(c)
      PROVE  VenueInv'
  <2> DEFINE k == [call[c] EXCEPT !.at = "keep", !.token = issued + 1]
  <2>1. call[c] \in Lookups /\ call[c].key \in Models
    BY <1>6 DEF Ve!Exchange, VenueInv, VenueRanges, LookupsHonest
  <2>2. k \in Lookups /\ k.at = "keep" /\ k.token > 0 /\ k.key \in Models
    BY <1>1, <2>1 DEF Lookups
  <2>3. call' = [call EXCEPT ![c] = k] /\ issued' = issued + 1 /\ UNCHANGED <<now, token, entries>>
    BY <1>6 DEF Ve!Exchange
  <2> HIDE DEF k
  <2>4. QED  BY <1>1, <2>2, <2>3, LookupMoves
<1>7. ASSUME NEW c \in Calls, Ve!KeepToken(c)
      PROVE  VenueInv'
  <2> DEFINE k == [call[c] EXCEPT !.at = "send"]
  <2>1. call[c] \in Lookups /\ call[c].key \in Models
    BY <1>7 DEF Ve!KeepToken, VenueInv, VenueRanges, LookupsHonest
  <2>2. k \in Lookups /\ k.at = "send" /\ k.key \in Models /\ call[c].token \in Nat
    BY <2>1 DEF Lookups
  <2>3. call' = [call EXCEPT ![c] = k] /\ token' = call[c].token /\ UNCHANGED <<now, issued, entries>>
    BY <1>7 DEF Ve!KeepToken
  <2> HIDE DEF k
  <2>4. QED  BY <1>1, <2>2, <2>3, LookupMoves
<1>8. ASSUME NEW c \in Calls, NEW what \in Remembered, call[c].at # "idle", Ve!Remember(c, what),
             UNCHANGED <<now, token, issued>>
      PROVE  VenueInv'
  BY <1>1, <1>8, Remembers, LookupMoves
<1>9. ASSUME NEW c \in Calls, Ve!Answered(c) \/ Ve!VenueFails(c)
      PROVE  VenueInv'
  <2>1. call[c].at # "idle" /\ UNCHANGED <<now, token, issued>>
    BY <1>9 DEF Ve!Answered, Ve!VenueFails
  <2>2. \E what \in Remembered : Ve!Remember(c, what)
    BY <1>9 DEF Ve!Answered, Ve!VenueFails, Remembered
  <2>3. QED  BY <1>8, <2>1, <2>2
<1>10. ASSUME NEW c \in Calls, Ve!Rejected(c)
       PROVE  VenueInv'
  <2> DEFINE k == [call[c] EXCEPT !.at = "token", !.again = TRUE]
  <2>1. call[c] \in Lookups /\ call[c].key \in Models /\ call[c].at # "idle" /\ UNCHANGED <<now, issued>>
    BY <1>10 DEF Ve!Rejected, VenueInv, VenueRanges, LookupsHonest
  <2>2. k \in Lookups /\ k.at = "token" /\ k.key \in Models
    BY <2>1 DEF Lookups
  <2>3. CASE call' = [call EXCEPT ![c] = k] /\ token' = Ve!Drop(c) /\ UNCHANGED entries
    <3>1. token' \in Nat
      BY <1>1, <2>3 DEF Ve!Drop
    <3> HIDE DEF k
    <3>2. QED  BY <1>1, <2>1, <2>2, <2>3, <3>1, LookupMoves
  <2>4. CASE Ve!Remember(c, "rejected") /\ UNCHANGED token
    BY <1>8, <2>1, <2>4 DEF Remembered
  <2>5. QED  BY <1>10, <2>3, <2>4 DEF Ve!Rejected
<1>11. ASSUME NEW c \in Calls, Ve!Deadline(c)
       PROVE  VenueInv'
  <2> DEFINE k == [call[c] EXCEPT !.at = "late", !.got = "deadline"]
             e == entries[call[c].key]
  <2>1. call[c] \in Lookups /\ call[c].key \in Models /\ e \in Memos
    BY <1>11 DEF Ve!Deadline, VenueInv, VenueRanges, LookupsHonest
  <2>2. k \in Lookups /\ k.at = "late" /\ k.key \in Models
    BY <2>1 DEF Lookups
  <2>3. [e EXCEPT !.holder = "none"] \in Memos
    BY <2>1 DEF Memos
  <2>4. entries' \in [Models -> Memos]
    BY <1>1, <1>11, <2>3 DEF Ve!Deadline
  <2>5. call' = [call EXCEPT ![c] = k] /\ UNCHANGED <<now, token, issued>>
    BY <1>11 DEF Ve!Deadline
  <2> HIDE DEF k
  <2>6. QED  BY <1>1, <2>2, <2>4, <2>5, LookupMoves
<1>12. QED
  BY <1>2, <1>3, <1>4, <1>5, <1>6, <1>7, <1>9, <1>10, <1>11 DEF Ve!Next, Ve!Load

LEMMA VenueInvariant ==
  ASSUME Ve!VenueCacheAssumption
  PROVE  /\ Ve!Spec => []VenueInv
         /\ DeskSpec => [](part = "venues" => VenueInv)
<1> DEFINE Inv == part = "venues" => VenueInv
<1>1. Ve!Init => VenueInv
  BY DEF Ve!Init, Ve!Idle, Ve!Blank, VenueInv, VenueRanges, LookupsHonest, Lookups, Memos, Remembered
<1>2. VenueInv /\ [Ve!Next]_(Ve!vars) => VenueInv'
  BY VenueStep
<1>3. DeskInit => Inv
  BY <1>1, PartStarts
<1>4. Inv /\ [DeskNext]_all => Inv'
  BY <1>2, PartSteps
<1>5. DeskSpec => []Inv
  <2> HIDE DEF Inv
  <2>1. QED  BY <1>3, <1>4, PTL DEF DeskSpec
<1>6. QED  BY <1>1, <1>2, <1>5, PTL DEF Ve!Spec

LEMMA VenueInvHolds == VenueInv => Ve!CacheHolds
BY DEF VenueInv, LookupsHonest, Remembered, Ve!CacheHolds, Ve!DeadlineStaysPrivate

\* A caller that still has time is never answered with another caller's deadline:
\* none is ever remembered (cache.get of internal/market, which keeps no error of
\* a context that ended).
THEOREM DeadlinesStayPrivate ==
  ASSUME Ve!VenueCacheAssumption
  PROVE  Ve!Spec => []Ve!CacheHolds
<1>1. VenueInv => Ve!CacheHolds
  BY VenueInvHolds
<1>2. QED  BY <1>1, VenueInvariant, PTL

\* In the run of the desk neither cache answers with a book older than the last
\* Invalidate or with somebody else's deadline (BookCache.Get, cache.get).
THEOREM CachesStayHonest ==
  ASSUME Bo!BookCacheAssumption, Ve!VenueCacheAssumption
  PROVE  DeskSpec => []CacheHolds
<1> DEFINE Books  == part = "books" => BookInv
           Venues == part = "venues" => VenueInv
<1>1. DeskInit => Books
  BY BookStart, PartStarts
<1>2. Books /\ [DeskNext]_all => Books'
  BY BookStep, PartSteps
<1>3. Books /\ Venues => CacheHolds
  BY BookInvHolds, VenueInvHolds DEF CacheHolds
<1>4. DeskSpec => []Venues
  BY VenueInvariant
<1> HIDE DEF Books, Venues
<1>5. QED  BY <1>1, <1>2, <1>3, <1>4, PTL DEF DeskSpec

\* A late 401 drops the token it is about and no other, with any number of
\* lookups in flight on older and newer tokens (MRKT.invalidate, post).
THEOREM OnlyTheRefusedIsDropped ==
  ASSUME Ve!VenueCacheAssumption
  PROVE  /\ Ve!Spec => Ve!FreshTokenKept
         /\ DeskSpec => FreshTokenKept
<1> DEFINE Inv    == part = "venues" => VenueInv
           OneOff == part = "venues" => Ve!DropsTheRefused
<1>1. VenueInv /\ Ve!Next => Ve!DropsTheRefused
  <2> SUFFICES ASSUME VenueInv, Ve!Next, token' = 0, token # 0
               PROVE  token \in refused'
    BY SMTT(60) DEF Ve!DropsTheRefused
  <2>1. PICK c \in Calls : Ve!KeepToken(c) \/ Ve!Rejected(c)
    BY DEF Ve!Next, Ve!Load, Ve!TimePasses, Ve!Revoke, Ve!Ask, Ve!Lock, Ve!EnsureToken, Ve!Exchange,
           Ve!Answered, Ve!VenueFails, Ve!Deadline, Ve!Return
  <2>2. ~Ve!KeepToken(c)
    BY DEF Ve!KeepToken, VenueInv, LookupsHonest
  <2>3. token = call[c].token /\ call[c].token \in refused'
    BY <2>1, <2>2 DEF Ve!Rejected, Ve!Drop
  <2>4. QED  BY <2>3
<1>2. Inv /\ DeskNext => OneOff
  BY <1>1 DEF DeskNext
<1>3. DeskSpec => []Inv
  BY VenueInvariant
<1>4. DeskSpec => [][OneOff]_all
  <2> HIDE DEF Inv, OneOff
  <2>1. QED  BY <1>2, <1>3, PTL DEF DeskSpec
<1>5. Ve!Spec => Ve!FreshTokenKept
  BY <1>1, VenueInvariant, PTL DEF Ve!Spec, Ve!FreshTokenKept
<1>6. QED  BY <1>4, <1>5 DEF FreshTokenKept

-----------------------------------------------------------------------------
(* The Telegram account *)

\* The gate callers wait at opens with the API, and nobody is past it before.
ReadyMeansAPI ==
  /\ ready \in Nat /\ (ready > 0 => api)
  /\ call = [c \in Callers |-> call[c]]
  /\ \A c \in Callers : call[c] = "open" => api

\* The API callers share is set once Telegram has confirmed the account, and no
\* mini app is opened before, whatever order Start, logins, waits and drops of
\* the line come in (tgsession.Client.Start, openMiniApp).
THEOREM OpensOnlyConfirmed ==
  /\ Mi!Spec => Mi!OpensOnlyWhenConfirmed
  /\ DeskSpec => OpensOnlyWhenConfirmed
<1> DEFINE Inv    == part = "miniapp" => ReadyMeansAPI
           Opened == part = "miniapp" => Mi!OpensConfirmed
<1>1. Mi!Init => ReadyMeansAPI
  BY DEF Mi!Init, ReadyMeansAPI
<1>2. ReadyMeansAPI /\ [Mi!Next]_(Mi!vars) => ReadyMeansAPI' /\ (Mi!Next => Mi!OpensConfirmed)
  <2> SUFFICES ASSUME ReadyMeansAPI, [Mi!Next]_(Mi!vars)
               PROVE  ReadyMeansAPI' /\ (Mi!Next => Mi!OpensConfirmed)
    OBVIOUS
  <2> USE DEF ReadyMeansAPI, Mi!OpensConfirmed
  <2>1. CASE Mi!TimePasses \/ Mi!SignOut \/ Mi!Start \/ Mi!LineDrops \/ Mi!Invalidate \/ UNCHANGED Mi!vars
    BY <2>1 DEF Mi!TimePasses, Mi!SignOut, Mi!Start, Mi!LineDrops, Mi!Invalidate, Mi!vars
  <2>2. CASE Mi!Connection \/ \E ok \in BOOLEAN : Mi!Login(ok)
    BY <2>2 DEF Mi!Connection, Mi!Connect, Mi!Check, Mi!StartFails, Mi!Login
  <2>3. ASSUME NEW c \in Callers, Mi!Ask(c) \/ Mi!Caller(c)
        PROVE  ReadyMeansAPI' /\ Mi!OpensConfirmed
    <3>1. /\ call' = [d \in Callers |-> call'[d]] /\ \A d \in Callers \ {c} : call'[d] = call[d]
          /\ UNCHANGED <<ready, api>>
      BY <2>3 DEF Mi!Ask, Mi!Caller, Mi!Ready, Mi!WaitExpires, Mi!OpenFails, Mi!Opened, Mi!Store, Mi!Goto
    <3>2. call'[c] = "open" => api
      BY <2>3 DEF Mi!Ask, Mi!Caller, Mi!Ready, Mi!WaitExpires, Mi!OpenFails, Mi!Opened, Mi!Store, Mi!Goto
    <3>3. QED  BY <3>1, <3>2
  <2>4. QED  BY <2>1, <2>2, <2>3 DEF Mi!Next
<1>3. DeskInit => Inv
  BY <1>1, PartStarts
<1>4. Inv /\ [DeskNext]_all => Inv'
  BY <1>2, PartSteps
<1>5. Inv /\ DeskNext => Opened
  BY <1>2 DEF DeskNext
<1>6. DeskSpec => [][Opened]_all
  <2> HIDE DEF Inv, Opened
  <2>1. QED  BY <1>3, <1>4, <1>5, PTL DEF DeskSpec
<1>7. Mi!Spec => Mi!OpensOnlyWhenConfirmed
  BY <1>1, <1>2, PTL DEF Mi!Spec, Mi!OpensOnlyWhenConfirmed
<1>8. QED  BY <1>6, <1>7 DEF OpensOnlyWhenConfirmed

-----------------------------------------------------------------------------
(* Settings *)

\* The session in memory is the stored one, or the one about to be stored; once a
\* kv operation has failed nothing is promised until the next start.
SessionAhead ==
  /\ saving.at \in {"idle", "kv"} /\ (saving.at = "kv" => loaded)
  /\ loaded /\ ~spoiled => session = IF saving.at = "kv" THEN saving.pairs ELSE kvSession

\* While a new credential is on trial the one to go back to is a good one, and
\* what is about to be stored has been answered.
OnTrial ==
  /\ swap = [at |-> swap.at, new |-> swap.new, prev |-> swap.prev]
  /\ swap.at \in {"idle", "check", "save"}
  /\ swap.at = "check" => swap.prev \in accepted \cup {FromEnv} /\ auth = swap.new
  /\ swap.at = "save" => swap.new \in accepted /\ auth = swap.new

SettingsInv == SessionAhead /\ OnTrial /\ Se!CredentialWasAccepted

\* The session the desk works with is the one a restart brings back, and so is a
\* credential that was never answered: through failed writes, refused and
\* unanswered checks, and restarts between any two steps (App.saveSession,
\* App.setAuthText).
THEOREM SettingsAreKept ==
  /\ Se!Spec => []Se!SettingsHold
  /\ DeskSpec => []SettingsHold
<1> DEFINE Inv == part = "settings" => SettingsInv
<1>1. Se!Init => SettingsInv
  BY DEF Se!Init, Se!NotSaving, Se!NoSwap, Se!None, SettingsInv, SessionAhead, OnTrial, Se!CredentialWasAccepted
<1>2. SettingsInv /\ [Se!Next]_(Se!vars) => SettingsInv'
  <2> SUFFICES ASSUME SettingsInv, [Se!Next]_(Se!vars) PROVE SettingsInv'
    OBVIOUS
  <2> USE DEF SettingsInv, SessionAhead, OnTrial, Se!CredentialWasAccepted
  <2>1. CASE Se!LoadSession \/ Se!LoadFails \/ Se!SaveKV \/ Se!SaveKVFails
    BY <2>1 DEF Se!LoadSession, Se!LoadFails, Se!SaveKV, Se!SaveKVFails, Se!NotSaving, Se!credential
  <2>2. CASE Se!OpenTradeSession \/ Se!CloseTradeSession
    <3>1. PICK pairs : Se!SaveInMemory(pairs)
      BY <2>2 DEF Se!OpenTradeSession, Se!CloseTradeSession
    <3>2. QED  BY <3>1 DEF Se!SaveInMemory, Se!credential
  <2>3. ASSUME NEW a \in Creds, Se!SetAuth(a) \/ Se!Expire(a)
        PROVE  SettingsInv'
    BY <2>3 DEF Se!SetAuth, Se!Expire, Se!trade
  <2>4. CASE Se!AuthAccepted
    BY <2>4 DEF Se!AuthAccepted, Se!trade
  <2>5. CASE Se!AuthRefused
    BY <2>5 DEF Se!AuthRefused, Se!NoSwap, Se!None, Se!trade
  <2>6. CASE Se!SaveAuth
    BY <2>6 DEF Se!SaveAuth, Se!NoSwap, Se!None, Se!trade
  <2>7. CASE Se!Restart
    BY <2>7 DEF Se!Restart, Se!NotSaving, Se!NoSwap, Se!None
  <2>8. CASE UNCHANGED Se!vars
    BY <2>8 DEF Se!vars
  <2>9. QED  BY <2>1, <2>2, <2>3, <2>4, <2>5, <2>6, <2>7, <2>8 DEF Se!Next
<1>3. SettingsInv => Se!SettingsHold
  BY DEF SettingsInv, SessionAhead, Se!SettingsHold, Se!SessionAsStored
<1>4. DeskInit => Inv
  BY <1>1, PartStarts
<1>5. Inv /\ [DeskNext]_all => Inv'
  BY <1>2, PartSteps
<1>6. Inv => SettingsHold
  BY <1>3 DEF SettingsHold
<1> HIDE DEF Inv
<1>7. QED  BY <1>1, <1>2, <1>3, <1>4, <1>5, <1>6, PTL DEF Se!Spec, DeskSpec

-----------------------------------------------------------------------------
(* The undercut watcher *)

\* Until a record is lost, every unattended reprice is in the table, but the one
\* just placed; a reprice about to be placed is six hours after all of them.
RepricesRecorded ==
  /\ now \in Int /\ repriced \in Int /\ repriced <= now /\ autos \subseteq Int
  /\ pass = [f \in {"at", "list", "now", "target"} |-> pass[f]]
  /\ pass.now \in Int /\ (pass.at # "idle" => pass.now <= now)
  /\ ~lost =>
       /\ \A a \in autos : a <= repriced \/ (pass.at = "record" /\ a = pass.now)
       /\ pass.at = "place" => \A a \in autos : a + 6 <= pass.now

WatchersInv == RepricesRecorded /\ Wa!RepricesApart

LEMMA WatchersStep ==
  ASSUME WatchersInv, [Wa!Next]_(Wa!vars)
  PROVE  WatchersInv'
<1> DEFINE Record(p) == p = [f \in {"at", "list", "now", "target"} |-> p[f]]
<1>1. /\ now \in Int /\ repriced \in Int /\ repriced <= now /\ autos \subseteq Int
      /\ Record(pass) /\ pass.now \in Int /\ (pass.at # "idle" => pass.now <= now)
  BY DEF WatchersInv, RepricesRecorded
<1>2. Record(Wa!Sleeping) /\ Wa!Sleeping.at = "idle" /\ Wa!Sleeping.now = 0
  BY DEF Wa!Sleeping
<1>3. /\ Record([pass EXCEPT !.at = "record"])
      /\ [pass EXCEPT !.at = "record"].at = "record" /\ [pass EXCEPT !.at = "record"].now = pass.now
  BY <1>1
<1> HIDE DEF Record
<1>4. ASSUME pass'.at \in {"idle", "read"}, Record(pass'), pass'.now \in Int, pass'.at = "read" => pass'.now <= now',
             now' \in Int, now <= now', repriced' \in Int, repriced <= repriced', repriced' <= now', autos' = autos,
             lost => lost', pass.at = "record" => lost' \/ pass.now <= repriced'
      PROVE  WatchersInv'
  <2>1. ~lost' => \A a \in autos' : a <= repriced'
    BY <1>1, <1>4 DEF WatchersInv, RepricesRecorded
  <2>2. QED  BY <1>1, <1>4, <2>1 DEF WatchersInv, RepricesRecorded, Wa!RepricesApart, Record
<1>5. CASE Wa!TimePasses
  <2>1. now' = now + 1 /\ UNCHANGED <<repriced, pass, autos, lost>>
    BY <1>5 DEF Wa!TimePasses
  <2>2. QED  BY <1>1, <2>1 DEF WatchersInv, RepricesRecorded, Wa!RepricesApart
<1>6. CASE Wa!OperatorReprices
  <2>1. repriced' = now /\ UNCHANGED <<now, pass, autos, lost>>
    BY <1>6 DEF Wa!OperatorReprices
  <2>2. QED  BY <1>1, <2>1 DEF WatchersInv, RepricesRecorded, Wa!RepricesApart
<1>7. CASE Wa!ReadPositions
  <2>1. /\ pass.at = "idle" /\ pass' = [Wa!Sleeping EXCEPT !.at = "read", !.list = list, !.now = now]
        /\ UNCHANGED <<now, repriced, autos, lost>>
    BY <1>7 DEF Wa!ReadPositions
  <2>2. Record(pass') /\ pass'.at = "read" /\ pass'.now = now
    BY <2>1 DEF Wa!Sleeping, Record
  <2>3. QED  BY <1>1, <1>4, <2>1, <2>2
<1>8. CASE Wa!Skip \/ Wa!Restart \/ \E best \in Rivals : Wa!Warn(best)
  <2>1. /\ pass' = Wa!Sleeping /\ UNCHANGED <<now, repriced, autos>>
        /\ (lost => lost') /\ (pass.at = "record" => lost')
    <3>1. CASE Wa!Skip
      BY <3>1 DEF Wa!Skip
    <3>2. CASE Wa!Restart
      BY <3>2 DEF Wa!Restart
    <3>3. ASSUME NEW best \in Rivals, Wa!Warn(best)
          PROVE  /\ pass' = Wa!Sleeping /\ UNCHANGED <<now, repriced, autos>>
                 /\ (lost => lost') /\ (pass.at = "record" => lost')
      BY <3>3 DEF Wa!Warn, Wa!Undercut
    <3>4. QED  BY <1>8, <3>1, <3>2, <3>3
  <2>2. QED  BY <1>1, <1>2, <1>4, <2>1
<1>9. ASSUME NEW best \in Rivals, Wa!Answer(best)
      PROVE  WatchersInv'
  <2>1. pass.at = "read" /\ pass.now - repriced >= 6 /\ UNCHANGED <<now, repriced, autos, lost>>
    BY <1>9 DEF Wa!Answer, Wa!Undercut, Wa!Due
  <2>2. PICK t \in Rivals : pass' = [pass EXCEPT !.at = "place", !.target = t]
    BY <1>9 DEF Wa!Answer
  <2>3. Record(pass') /\ pass'.at = "place" /\ pass'.now = pass.now
    <3>1. /\ Record([pass EXCEPT !.at = "place", !.target = t])
          /\ [pass EXCEPT !.at = "place", !.target = t].at = "place"
          /\ [pass EXCEPT !.at = "place", !.target = t].now = pass.now
      BY <1>1 DEF Record
    <3>2. QED  BY <2>2, <3>1
  <2>4. ~lost => \A a \in autos : a + 6 <= pass.now
    BY <1>1, <2>1 DEF WatchersInv, RepricesRecorded
  <2>5. QED  BY <1>1, <2>1, <2>3, <2>4 DEF WatchersInv, RepricesRecorded, Wa!RepricesApart, Record
<1>10. CASE Wa!Place
  <2>1. pass.at = "place" /\ UNCHANGED <<now, repriced, lost>>
    BY <1>10 DEF Wa!Place
  <2>2. CASE pass' = Wa!Sleeping /\ UNCHANGED autos
    BY <1>1, <1>2, <1>4, <2>1, <2>2
  <2>3. CASE pass' = [pass EXCEPT !.at = "record"] /\ autos' = autos \cup {pass.now}
    <3>1. Record(pass') /\ pass'.at = "record" /\ pass'.now = pass.now
      BY <1>1, <1>3, <2>3
    <3>2. ~lost => \A a \in autos : a <= repriced /\ a + 6 <= pass.now
      BY <2>1 DEF WatchersInv, RepricesRecorded
    <3>3. QED  BY <1>1, <2>1, <2>3, <3>1, <3>2 DEF WatchersInv, RepricesRecorded, Wa!RepricesApart, Record
  <2>4. QED  BY <1>10, <2>2, <2>3 DEF Wa!Place
<1>11. CASE Wa!RecordReprice
  <2>1. /\ pass.at = "record" /\ pass' = Wa!Sleeping /\ UNCHANGED <<now, autos>>
        /\ \/ repriced' = Wa!Higher(repriced, pass.now) /\ UNCHANGED lost
           \/ lost' /\ UNCHANGED repriced
    BY <1>11 DEF Wa!RecordReprice
  <2>2. QED  BY <1>1, <1>2, <1>4, <2>1 DEF Wa!Higher
<1>12. CASE UNCHANGED Wa!vars
  BY <1>12 DEF Wa!vars, WatchersInv, RepricesRecorded, Wa!RepricesApart
<1>13. QED
  BY <1>5, <1>6, <1>7, <1>8, <1>9, <1>10, <1>11, <1>12 DEF Wa!Next

\* Two unattended reprices of a gift are six hours apart, through passes the
\* operator overtakes and restarts that forget every cooldown, as long as no
\* record of one is lost (App.checkUndercut, Store.LastReprice).
THEOREM SixHoursApart ==
  /\ Wa!Spec => []Wa!RepricesApart
  /\ DeskSpec => []RepricesApart
<1> DEFINE Inv == part = "watchers" => WatchersInv
<1>1. Wa!Init => WatchersInv
  BY DEF Wa!Init, Wa!Sleeping, Wa!LongAgo, WatchersInv, RepricesRecorded, Wa!RepricesApart
<1>2. WatchersInv /\ [Wa!Next]_(Wa!vars) => WatchersInv'
  BY WatchersStep
<1>3. WatchersInv => Wa!RepricesApart
  BY DEF WatchersInv
<1>4. DeskInit => Inv
  BY <1>1, PartStarts
<1>5. Inv /\ [DeskNext]_all => Inv'
  BY <1>2, PartSteps
<1>6. Inv => RepricesApart
  BY <1>3 DEF RepricesApart
<1> HIDE DEF Inv
<1>7. QED  BY <1>1, <1>2, <1>3, <1>4, <1>5, <1>6, PTL DEF Wa!Spec, DeskSpec

-----------------------------------------------------------------------------
(* Relisting *)

Attempts == [at : {"idle", "priced", "list", "withdraw", "again", "wait", "record"}, target : Asks \cup {0},
          now : Nat, tries : Nat, until : Nat]

RelistRanges ==
  /\ now \in Nat /\ ask \in Nat /\ call \in [Callers -> Attempts] /\ warned \in BOOLEAN /\ met \in BOOLEAN
  /\ \A c \in Callers : call[c].at # "idle" => call[c].target \in Asks

\* A gift that is off the market untold is on its way back: somebody withdrew it
\* and is still trying, or it was never listed and nobody is about to write so.
OnItsWay ==
  ask = 0 /\ ~warned =>
    \/ \E c \in Callers : call[c].at \in {"again", "wait"}
    \/ row = 0 /\ \A c \in Callers : call[c].at # "record"

\* As long as reprices have not overlapped there is one at most, and what is
\* written differs from what is asked only while it is between its two requests
\* or about to write.
OneReprice ==
  ~met /\ ~warned =>
    /\ \A c, d \in Callers : Re!InFlight(c) /\ Re!InFlight(d) => c = d
    /\ (\A c \in Callers : call[c].at \notin {"again", "wait", "record"}) => row = ask
    /\ \A c \in Callers : call[c].at \in {"again", "wait"} => ask = 0
    /\ \A c \in Callers : call[c].at = "record" => ask = call[c].target

RelistInv == RelistRanges /\ OnItsWay /\ OneReprice

\* A call that moved within its record is all that has to be typed again.
LEMMA CallMoves ==
  ASSUME RelistRanges, NEW c \in Callers, NEW k \in Attempts, call' = [call EXCEPT ![c] = k],
         k.at # "idle" => k.target \in Asks, now' \in Nat, ask' \in Nat, warned' \in BOOLEAN, met' \in BOOLEAN
  PROVE  /\ RelistRanges'
         /\ call'[c] = k /\ \A d \in Callers \ {c} : call'[d] = call[d]
BY DEF RelistRanges

\* What a step within ListAt makes of its own call.
LEMMA RelistRangesStep ==
  ASSUME Re!RelistAssumption, RelistRanges, NEW c \in Callers, Re!Step(c)
  PROVE  /\ RelistRanges'
         /\ \A d \in Callers \ {c} : call'[d] = call[d]
         /\ call' = [call EXCEPT ![c] = call'[c]]
<1>1. /\ call[c] \in Attempts /\ (call[c].at # "idle" => call[c].target \in Asks) /\ Asks \subseteq Nat
      /\ now \in Nat /\ ask \in Nat /\ warned \in BOOLEAN /\ met \in BOOLEAN
  BY DEF RelistRanges, Re!RelistAssumption
<1>2. Re!Idle \in Attempts /\ Re!Idle.at = "idle"
  BY DEF Re!Idle, Attempts
<1>3. ASSUME NEW k \in Attempts, call' = [call EXCEPT ![c] = k], k.at # "idle" => k.target \in Asks,
             now' \in Nat, ask' \in Nat, warned' \in BOOLEAN, met' \in BOOLEAN
      PROVE  /\ RelistRanges'
             /\ \A d \in Callers \ {c} : call'[d] = call[d]
             /\ call' = [call EXCEPT ![c] = call'[c]]
  BY <1>3, CallMoves
<1>4. CASE Re!Price(c)
  <2>1. PICK t \in Asks : call' = [call EXCEPT ![c] = [Re!Idle EXCEPT !.at = "priced", !.target = t, !.now = now]]
    BY <1>4 DEF Re!Price
  <2> DEFINE k == [Re!Idle EXCEPT !.at = "priced", !.target = t, !.now = now]
  <2>2. k \in Attempts /\ k.target \in Asks
    BY <1>1, <2>1 DEF Re!Idle, Attempts
  <2> HIDE DEF k
  <2>3. UNCHANGED <<now, ask, warned, met>>
    BY <1>4 DEF Re!Price
  <2>4. QED  BY <1>1, <1>3, <2>1, <2>2, <2>3 DEF k
<1>5. CASE /\ call' = [call EXCEPT ![c] = Re!Idle] /\ UNCHANGED <<now, ask, met>> /\ warned' \in BOOLEAN
  BY <1>1, <1>2, <1>3, <1>5
<1>6. ASSUME NEW where \in {"list", "withdraw", "again", "record"}, Re!Goto(c, where), call[c].at # "idle",
             ask' \in Nat, met' \in BOOLEAN, UNCHANGED <<now, warned>>
      PROVE  /\ RelistRanges'
             /\ \A d \in Callers \ {c} : call'[d] = call[d]
             /\ call' = [call EXCEPT ![c] = call'[c]]
  <2> DEFINE k == [call[c] EXCEPT !.at = where]
  <2>1. k \in Attempts /\ k.target \in Asks
    BY <1>1, <1>6 DEF Attempts
  <2>2. call' = [call EXCEPT ![c] = k]
    BY <1>6 DEF Re!Goto
  <2> HIDE DEF k
  <2>3. QED  BY <1>1, <1>3, <1>6, <2>1, <2>2
<1>7. CASE Re!TurnDown(c) \/ Re!ListFails(c) \/ Re!WithdrawFails(c) \/ Re!OffMarket(c)
  BY <1>1, <1>5, <1>7 DEF Re!TurnDown, Re!ListFails, Re!WithdrawFails, Re!OffMarket, Re!Release
<1>8. CASE Re!Record(c)
  BY <1>1, <1>5, <1>8 DEF Re!Record, Re!Release
<1>9. CASE Re!Claim(c)
  <2>1. met' \in BOOLEAN
    BY <1>9 DEF Re!Claim
  <2>2. Re!Goto(c, "list") /\ call[c].at # "idle" /\ UNCHANGED <<now, ask, warned>>
    BY <1>9 DEF Re!Claim
  <2>3. QED  BY <1>1, <1>6, <2>1, <2>2
<1>10. CASE Re!ListForSale(c)
  BY <1>1, <1>6, <1>10 DEF Re!ListForSale
<1>11. CASE Re!NotListable(c) \/ Re!WaitEnds(c)
  BY <1>1, <1>6, <1>11 DEF Re!NotListable, Re!WaitEnds
<1>12. CASE Re!Withdraw(c)
  BY <1>1, <1>6, <1>12 DEF Re!Withdraw
<1>13. CASE Re!Throttled(c)
  <2> DEFINE w == Waits[call[c].tries + 1]
             k == [call[c] EXCEPT !.at = "wait", !.tries = call[c].tries + 1, !.until = now + w]
  <2>1. call[c].tries \in Nat /\ call[c].tries < Len(Waits) /\ Waits \in Seq(Nat \ {0}) /\ call[c].at = "again"
    BY <1>1, <1>13 DEF Re!Throttled, Re!RelistAssumption, Attempts
  <2>2. w \in Nat
    BY <2>1
  <2> HIDE DEF w
  <2>6. now + w \in Nat /\ call[c].tries + 1 \in Nat
    BY <1>1, <2>1, <2>2
  <2>3. k \in Attempts /\ k.target \in Asks
    BY <1>1, <2>1, <2>6 DEF Attempts
  <2>4. call' = [call EXCEPT ![c] = k] /\ UNCHANGED <<now, ask, warned, met>>
    BY <1>13 DEF Re!Throttled, w
  <2> HIDE DEF k
  <2>5. QED  BY <1>1, <1>3, <2>3, <2>4
<1>14. QED
  BY <1>4, <1>7, <1>8, <1>9, <1>10, <1>11, <1>12, <1>13 DEF Re!Step

LEMMA RelistStep ==
  ASSUME Re!RelistAssumption, RelistInv, [Re!Next]_(Re!vars)
  PROVE  RelistInv'
<1> USE DEF RelistInv
<1>1. /\ \A d \in Callers : call[d].at # "idle" => call[d].target \in Asks
      /\ Asks \subseteq Nat \ {0} /\ ask \in Nat /\ met \in BOOLEAN /\ warned \in BOOLEAN
      /\ call \in [Callers -> Attempts] /\ \A d \in Callers : call[d] \in Attempts
  BY DEF RelistRanges, Re!RelistAssumption
<1>2. CASE Re!TimePasses \/ UNCHANGED Re!vars
  BY <1>2 DEF Re!TimePasses, Re!vars, RelistRanges, OnItsWay, OneReprice, Re!InFlight
<1>3. ASSUME NEW c \in Callers, Re!Step(c)
      PROVE  RelistInv'
  <2>1. /\ RelistRanges' /\ \A d \in Callers \ {c} : call'[d] = call[d]
        /\ call' = [call EXCEPT ![c] = call'[c]]
    BY <1>3, RelistRangesStep
  <2>2. Re!Idle.at = "idle"
    BY DEF Re!Idle
  <2>3. \A where : Re!Goto(c, where) => call'[c].at = where /\ call'[c].target = call[c].target
    <3> SUFFICES ASSUME NEW where, Re!Goto(c, where)
                 PROVE  call'[c].at = where /\ call'[c].target = call[c].target
      OBVIOUS
    <3>1. call'[c] = [call[c] EXCEPT !.at = where]
      BY <1>1 DEF Re!Goto
    <3>2. QED  BY <1>1, <3>1 DEF Attempts
  \* Outside the claim: nothing is in flight that was not.
  <2>4. CASE Re!Price(c) \/ Re!TurnDown(c)
    <3>1. call[c].at \in {"idle", "priced"} /\ UNCHANGED <<ask, row, warned, met>>
      BY <2>4 DEF Re!Price, Re!TurnDown
    <3>2. call'[c].at \in {"idle", "priced"}
      <4>1. CASE Re!Price(c)
        <5>1. PICK t \in Asks : call' = [call EXCEPT ![c] = [Re!Idle EXCEPT !.at = "priced", !.target = t, !.now = now]]
          BY <4>1 DEF Re!Price
        <5>2. call'[c] = [Re!Idle EXCEPT !.at = "priced", !.target = t, !.now = now]
          BY <1>1, <5>1
        <5>3. QED  BY <5>2 DEF Re!Idle
      <4>2. CASE Re!TurnDown(c)
        BY <1>1, <2>2, <4>2 DEF Re!TurnDown
      <4>3. QED  BY <2>4, <4>1, <4>2
    <3>3. QED  BY <2>1, <3>1, <3>2 DEF OnItsWay, OneReprice, Re!InFlight
  <2>5. CASE Re!Claim(c)
    <3>1. /\ call[c].at = "priced" /\ call'[c].at = "list" /\ UNCHANGED <<ask, row, warned>>
          /\ met' <=> (met \/ \E d \in Callers : Re!InFlight(d))
      BY <2>3, <2>5 DEF Re!Claim
    <3>2. QED  BY <2>1, <3>1 DEF OnItsWay, OneReprice, Re!InFlight
  <2>6. CASE Re!ListForSale(c)
    <3>1. /\ call[c].at \in {"list", "again"} /\ ask' = call[c].target /\ call'[c].at = "record"
          /\ call'[c].target = call[c].target /\ UNCHANGED <<row, warned, met>>
      BY <2>3, <2>6 DEF Re!ListForSale
    <3>2. ask' \in Nat \ {0} /\ ask' > 0
      <4>1. ask' \in Asks
        BY <1>1, <3>1
      <4>2. \A n \in Nat \ {0} : n > 0
        OBVIOUS
      <4>3. QED  BY <1>1, <4>1, <4>2
    <3>3. QED  BY <2>1, <3>1, <3>2 DEF OnItsWay, OneReprice, Re!InFlight
  <2>7. CASE Re!NotListable(c)
    <3>1. call[c].at = "list" /\ call'[c].at = "withdraw" /\ UNCHANGED <<ask, row, warned, met>>
      BY <2>3, <2>7 DEF Re!NotListable
    <3>2. QED  BY <2>1, <3>1 DEF OnItsWay, OneReprice, Re!InFlight
  <2>8. CASE Re!ListFails(c) \/ Re!WithdrawFails(c)
    <3>1. call[c].at \in {"list", "withdraw"} /\ call'[c].at = "idle" /\ UNCHANGED <<ask, row, warned, met>>
      BY <1>1, <2>2, <2>8 DEF Re!ListFails, Re!WithdrawFails, Re!Release
    <3>2. QED  BY <2>1, <3>1 DEF OnItsWay, OneReprice, Re!InFlight
  <2>9. CASE Re!Withdraw(c)
    <3>1. call[c].at = "withdraw" /\ call'[c].at = "again" /\ ask' = 0 /\ UNCHANGED <<row, warned, met>>
      BY <2>3, <2>9 DEF Re!Withdraw
    <3>2. QED  BY <2>1, <3>1 DEF OnItsWay, OneReprice, Re!InFlight
  <2>10. CASE Re!Throttled(c) \/ Re!WaitEnds(c)
    <3>1. /\ call[c].at \in {"again", "wait"} /\ call'[c].at \in {"again", "wait"}
          /\ UNCHANGED <<ask, row, warned, met>>
      <4>1. CASE Re!Throttled(c)
        <5>1. call'[c] = [call[c] EXCEPT !.at = "wait", !.tries = call[c].tries + 1,
                                         !.until = now + Waits[call[c].tries + 1]]
          BY <1>1, <4>1 DEF Re!Throttled
        <5>2. call'[c].at = "wait"
          BY <1>1, <5>1 DEF Attempts
        <5>3. QED  BY <4>1, <5>2 DEF Re!Throttled
      <4>2. CASE Re!WaitEnds(c)
        BY <2>3, <4>2 DEF Re!WaitEnds
      <4>3. QED  BY <2>10, <4>1, <4>2
    <3>2. QED  BY <2>1, <3>1 DEF OnItsWay, OneReprice, Re!InFlight
  <2>11. CASE Re!OffMarket(c)
    <3>1. warned'
      BY <2>11 DEF Re!OffMarket
    <3>2. QED  BY <2>1, <3>1 DEF OnItsWay, OneReprice
  <2>12. CASE Re!Record(c)
    <3>1. /\ call[c].at = "record" /\ call'[c].at = "idle" /\ row' = call[c].target
          /\ UNCHANGED <<ask, warned, met>>
      BY <1>1, <2>2, <2>12 DEF Re!Record, Re!Release
    <3>2. OnItsWay'
      BY <2>1, <3>1 DEF OnItsWay
    <3>3. OneReprice'
      BY <2>1, <3>1 DEF OneReprice, Re!InFlight
    <3>4. QED  BY <2>1, <3>2, <3>3
  <2>13. QED
    BY <1>3, <2>4, <2>5, <2>6, <2>7, <2>8, <2>9, <2>10, <2>11, <2>12 DEF Re!Step
<1>4. QED  BY <1>2, <1>3 DEF Re!Next

\* A gift that was on sale and is not any more is one the operator was told of,
\* and what is written is what is asked unless two reprices have overlapped: for
\* any number of callers, whichever of a reprice's requests fails or is given up
\* (Executor.ListAt, relistWithRetry).
THEOREM AskAlwaysKnown ==
  ASSUME Re!RelistAssumption
  PROVE  /\ Re!Spec => []Re!AskIsKnown
         /\ DeskSpec => []AskIsKnown
<1> DEFINE Inv == part = "relist" => RelistInv
<1>1. Re!Init => RelistInv
  <2> SUFFICES ASSUME Re!Init PROVE RelistInv
    OBVIOUS
  <2>1. ask \in Nat /\ row = ask /\ now = 1 /\ warned = FALSE /\ met = FALSE
    BY DEF Re!Init, Re!RelistAssumption
  <2>2. call \in [Callers -> Attempts] /\ \A c \in Callers : call[c].at = "idle"
    BY DEF Re!Init, Re!Idle, Attempts
  <2>3. QED  BY <2>1, <2>2 DEF RelistInv, RelistRanges, OnItsWay, OneReprice, Re!InFlight
<1>2. RelistInv /\ [Re!Next]_(Re!vars) => RelistInv'
  BY RelistStep
<1>3. RelistInv => Re!AskIsKnown
  BY DEF RelistInv, RelistRanges, Attempts, OnItsWay, OneReprice, Re!AskIsKnown, Re!RowIsAsk, Re!OffMarketIsTold,
         Re!Quiescent, Re!InFlight
<1>4. DeskInit => Inv
  BY <1>1, PartStarts
<1>5. Inv /\ [DeskNext]_all => Inv'
  BY <1>2, PartSteps
<1>6. Inv => AskIsKnown
  BY <1>3 DEF AskIsKnown
<1> HIDE DEF Inv
<1>7. QED  BY <1>1, <1>2, <1>3, <1>4, <1>5, <1>6, PTL DEF Re!Spec, DeskSpec
=============================================================================
