---------------------------- MODULE CaptureProofs ----------------------------
(* What the containers of a job leave: for any number of games, rates and  *)
(* intervals, the screenshots of an id show the ROM of that id, evenly     *)
(* spaced (FrameCapture) or never older than one period (SaturnCapture).   *)
EXTENDS GameRunProofs

-----------------------------------------------------------------------------
(* What a container is given                                               *)

LEMMA StagedIsRomOf ==
  ASSUME TypeOK, RInv, StageInv, NEW i \in Slots, at[i] = "staged"
  PROVE  dir[games[i].id][input[i]] = RomOf(i)
<1>1. i \in DOMAIN games /\ StagingTypeOK /\ GameInv(i)
  BY GameType DEF TypeOK, StageInv
<1>2. games = Resolved
  BY <1>1 DEF RInv
<1>3. Rom(i) = EntryFor(set.gamelist, set.titlemap[i].stem)
  BY <1>1, <1>2 DEF Resolved, Rom
<1>4. RomOf(i) = [entry |-> Rom(i), member |-> IF IsDirect(i) THEN 0 ELSE Final(Rom(i), BestAnchor(Rom(i)))]
  BY <1>3 DEF RomOf
<1> QED BY <1>1, <1>4, StagedIsRom

LEMMA RomOfUnchanged ==
  ASSUME UNCHANGED <<set, games>>, NEW i
  PROVE  RomOf(i)' = RomOf(i) /\ Out(i)' = Out(i)
BY DEF RomOf, IsDirect, Rom, Out

(* No container has written for an id before the one of its game boots,    *)
(* and one that runs has loaded the ROM of its game.                       *)
Unused(o) == \A c \in Slots : c \in DOMAIN games /\ games[c].id = o => proc[c] = "created"

DiscInv ==
  /\ \A o \in GameIds : Unused(o) => shots[o] = {}
  /\ \A c \in Slots : proc[c] \in {"emulating", "writing", "done"} => disc[c] = RomOf(c)

(* Only the directory of its own game is written to by a container.        *)
LEMMA OwnOutput ==
  ASSUME TypeOK, NEW i \in Slots, ContainerStep(i)
  PROVE  /\ proc'[i] # "created" /\ at[i] = "staged"
         /\ UNCHANGED <<staging, worker>>
         /\ \A j \in Slots : j # i => /\ proc'[j] = proc[j] /\ disc'[j] = disc[j] /\ rate'[j] = rate[j]
                                      /\ clock'[j] = clock[j] /\ frame'[j] = frame[j] /\ fb'[j] = fb[j]
         /\ \A o \in GameIds : o # Out(i) => shots'[o] = shots[o]
<1>1. /\ proc \in [Slots -> Programs] /\ disc \in [Slots -> File \cup {NoPath}]
      /\ rate \in [Slots -> Rates \cup {0}] /\ clock \in [Slots -> Nat] /\ frame \in [Slots -> Nat]
      /\ shots \in [GameIds -> SUBSET Gecko!Shot] /\ fb \in [Slots -> Ymir!FrameBuffer]
  BY DEF TypeOK, Gecko!CaptureTypeOK, Programs
<1>2. /\ at[i] = "staged" /\ UNCHANGED <<staging, worker>>
      /\ \E place \in Programs \ {"created"} : proc' = [proc EXCEPT ![i] = place]
      /\ disc' = disc \/ \E x : disc' = [disc EXCEPT ![i] = x]
      /\ rate' = rate \/ \E x : rate' = [rate EXCEPT ![i] = x]
      /\ clock' = clock \/ \E x : clock' = [clock EXCEPT ![i] = x]
      /\ frame' = frame \/ \E x : frame' = [frame EXCEPT ![i] = x]
      /\ fb' = fb \/ \E x : fb' = [fb EXCEPT ![i] = x]
      /\ shots' = shots \/ \E x : shots' = [shots EXCEPT ![Out(i)] = x]
  <2>1. CASE BootContainer(i)
    BY <2>1 DEF BootContainer, Gecko!Boot, Ymir!BootSaturn, Gecko!Enter, Ymir!Enter, Programs
  <2>2. CASE StopContainer(i)
    BY <2>2 DEF StopContainer, Gecko!Stop, Ymir!StopSaturn, Gecko!Enter, Ymir!Enter, Ymir!Leave,
                Gecko!Save, Ymir!Save, Programs
  <2>3. CASE RunContainer(i) /\ worker = "gecko"
    BY <2>3 DEF RunContainer, Gecko!Write, Gecko!Emulate, Gecko!Enter, Gecko!Save, Programs
  <2>4. CASE RunContainer(i) /\ worker = "ymir"
    <3>1. Ymir!Saturn(i, Out(i)) /\ UNCHANGED <<frame, staging, worker>> /\ at[i] = "staged"
      BY <2>4 DEF RunContainer
    <3>2. \/ Ymir!Iterate(i) \/ Ymir!PassOver(i) \/ Ymir!WriteFrame(i, Out(i)) \/ Ymir!EndSaturn(i)
      BY <3>1 DEF Ymir!Saturn
    <3>3. \/ fb' = fb
          \/ \E x : fb' = [fb EXCEPT ![i] = x]
      BY <3>2 DEF Ymir!Iterate, Ymir!PassOver, Ymir!WriteFrame, Ymir!EndSaturn, Ymir!Leave, Ymir!Seen
    <3> QED BY <3>1, <3>2, <3>3 DEF Ymir!Iterate, Ymir!PassOver, Ymir!WriteFrame, Ymir!EndSaturn,
                Ymir!Leave, Ymir!Seen, Ymir!Enter, Ymir!Save, Programs
  <2> QED BY <2>1, <2>2, <2>3, <2>4 DEF ContainerStep, RunContainer
<1>3. proc'[i] # "created" /\ \A j \in Slots : j # i => proc'[j] = proc[j]
  BY <1>1, <1>2
<1>4. \A j \in Slots : j # i => disc'[j] = disc[j] /\ rate'[j] = rate[j]
  BY <1>1, <1>2
<1>5. \A j \in Slots : j # i => clock'[j] = clock[j] /\ frame'[j] = frame[j]
  BY <1>1, <1>2
<1>6. \A j \in Slots : j # i => fb'[j] = fb[j]
  BY <1>1, <1>2
<1>7. \A o \in GameIds : o # Out(i) => shots'[o] = shots[o]
  BY <1>1, <1>2
<1> QED BY <1>2, <1>3, <1>4, <1>5, <1>6, <1>7
LEMMA OwnGame ==
  ASSUME TypeOK, RInv, NEW i \in Slots, at[i] = "staged",
         NEW j \in Slots, j \in DOMAIN games, j # i
  PROVE  Out(j) # Out(i) /\ Out(i) \in GameIds
<1>1. at[j] # "waiting" /\ StagingTypeOK
  BY DEF TypeOK, StagingTypeOK
<1> QED BY <1>1, OwnDirectory, GameType DEF Out

(* A step that leaves the containers and the games alone, or comes before  *)
(* there are any games.                                                    *)
LEMMA NothingRuns ==
  ASSUME TypeOK, ReadInv, RInv, StageInv,
         \/ UNCHANGED vars
         \/ StagingNext /\ UNCHANGED containers
         \/ \E i \in Slots : Free(i)
  PROVE  /\ UNCHANGED containers
         /\ \/ UNCHANGED <<set, games>>
            \/ (\A c \in Slots : proc[c] = "created") /\ games = <<>>
<1>1. CASE UNCHANGED vars
  BY <1>1 DEF vars, staging
<1>2. CASE \E i \in Slots : Free(i)
  BY <1>2 DEF Free
<1>3. CASE StagingNext /\ UNCHANGED containers
  <2>1. CASE \E i \in Slots : StageOne(i)
    BY <1>3, <2>1, StageOneType DEF TypeOK
  <2>2. CASE LoadGameSet \/ ResolveGames \/ ResolveFails
    <3>1. games = <<>>
      BY <2>2 DEF LoadGameSet, ResolveGames, ResolveFails, RInv
    <3>2. \A c \in Slots : at[c] = "waiting"
      BY <3>1 DEF TypeOK, StagingTypeOK
    <3> QED BY <1>3, <3>1, <3>2 DEF TypeOK
  <2> QED BY <1>3, <2>1, <2>2 DEF StagingNext
<1> QED BY <1>1, <1>2, <1>3

LEMMA DiscInvStep ==
  ASSUME TypeOK, ReadInv, RInv, StageInv, DiscInv, [Next]_vars
  PROVE  DiscInv'
<1>1. ASSUME UNCHANGED containers,
             \/ UNCHANGED <<set, games>>
             \/ (\A c \in Slots : proc[c] = "created") /\ games = <<>>
      PROVE  DiscInv'
  <2>1. /\ proc' = proc /\ shots' = shots /\ disc' = disc
    BY <1>1 DEF containers
  <2>2. CASE UNCHANGED <<set, games>>
    BY <2>1, <2>2, RomOfUnchanged DEF DiscInv, Unused
  <2>3. CASE (\A c \in Slots : proc[c] = "created") /\ games = <<>>
    BY <2>1, <2>3 DEF DiscInv, Unused
  <2> QED BY <1>1, <2>2, <2>3
<1>2. ASSUME NEW i \in Slots, ContainerStep(i)
      PROVE  DiscInv'
  <2>1. /\ proc'[i] # "created" /\ at[i] = "staged"
        /\ UNCHANGED <<set, games>>
        /\ \A j \in Slots : j # i => proc'[j] = proc[j] /\ disc'[j] = disc[j]
        /\ \A o \in GameIds : o # Out(i) => shots'[o] = shots[o]
    BY <1>2, OwnOutput DEF staging
  <2>2. i \in DOMAIN games
    BY <2>1, GameType DEF TypeOK
  <2>3. ASSUME NEW o \in GameIds, Unused(o)' PROVE shots'[o] = {}
    <3>1. o # Out(i)
      BY <2>1, <2>2, <2>3 DEF Unused, Out
    <3>2. Unused(o)
      BY <2>1, <2>3, <3>1 DEF Unused, Out
    <3> QED BY <2>1, <3>1, <3>2 DEF DiscInv
  <2>4. proc'[i] \in {"emulating", "writing", "done"} => disc'[i] = RomOf(i)
    <3>1. CASE BootContainer(i)
      <4>1. disc' = [disc EXCEPT ![i] = dir[games[i].id][input[i]]]
        BY <3>1 DEF BootContainer, Gecko!Boot, Ymir!BootSaturn
      <4>2. disc \in [Slots -> File \cup {NoPath}]
        BY DEF TypeOK, Gecko!CaptureTypeOK
      <4> QED BY <2>1, <4>1, <4>2, StagedIsRomOf
    <3>2. CASE StopContainer(i) \/ RunContainer(i)
      <4>1. disc' = disc
        BY <3>2 DEF StopContainer, RunContainer, Gecko!Stop, Gecko!Write, Gecko!Emulate, Ymir!StopSaturn,
               Ymir!Saturn, Ymir!Iterate, Ymir!PassOver, Ymir!WriteFrame, Ymir!EndSaturn
      <4>2. proc \in [Slots -> Programs]
        BY DEF TypeOK, Gecko!CaptureTypeOK, Programs
      <4>3. proc[i] \in {"emulating", "writing", "done"} \/ proc'[i] = "stopped"
        BY <3>2, <4>2 DEF StopContainer, RunContainer, Gecko!Stop, Gecko!Write, Gecko!Emulate,
               Ymir!StopSaturn, Ymir!Saturn, Ymir!Iterate, Ymir!PassOver, Ymir!WriteFrame,
               Ymir!EndSaturn, Gecko!Enter, Ymir!Enter, Ymir!Leave
      <4> QED BY <4>1, <4>3 DEF DiscInv
    <3> QED BY <1>2, <3>1, <3>2 DEF ContainerStep
  <2> QED BY <2>1, <2>3, <2>4, RomOfUnchanged DEF DiscInv
<1>3. ASSUME NEW i \in Slots, Free(i) PROVE DiscInv'
  BY <1>1, <1>3, NothingRuns
<1> QED BY <1>1, <1>2, <1>3, NothingRuns DEF Next, ContainerStep

-----------------------------------------------------------------------------
(* The program of gecko                                                    *)

LEMMA TimesMonotonic ==
  ASSUME NEW k \in Nat, NEW m \in Nat, NEW s \in Nat \ {0}, k < m
  PROVE  k * s < m * s
OBVIOUS

LEMMA TimesInjective ==
  ASSUME NEW k \in Nat, NEW m \in Nat, NEW s \in Nat \ {0}, k * s = m * s
  PROVE  k = m
OBVIOUS

(* The first n screenshots, as they should be.                             *)
Series(i, n) == {[frame |-> k * (rate[i] * 2), at |-> k * (rate[i] * 2) - rate[i],
                  of |-> RomOf(i), whole |-> TRUE] : k \in 1..n}

Erased(S) == {[s EXCEPT !.whole = TRUE] : s \in S}

(* After m - 1 intervals.                                                  *)
Progress(i, m) ==
  /\ rate[i] \in Nat \ {0}
  /\ frame[i] = m * (rate[i] * 2)
  /\ clock[i] = m * (rate[i] * 2) - rate[i]
  /\ proc[i] = "emulating" => m <= Intervals
  /\ proc[i] = "done" => m = Intervals + 1
  /\ Erased(shots[Out(i)]) = Series(i, IF proc[i] = "writing" THEN m - 1 ELSE m)

SeriesInv ==
  worker = "gecko" =>
    \A i \in Slots : proc[i] \in {"emulating", "writing", "done"} =>
      \E m \in 1..(Intervals + 1) : Progress(i, m)
LEMMA SeriesOfNext ==
  ASSUME NEW i, NEW n \in Nat, n > 0
  PROVE  Series(i, n) = Series(i, n - 1) \cup
           {[frame |-> n * (rate[i] * 2), at |-> n * (rate[i] * 2) - rate[i], of |-> RomOf(i), whole |-> TRUE]}
<1>1. 1..n = (1..(n - 1)) \cup {n}
  OBVIOUS
<1> QED BY <1>1 DEF Series

LEMMA BootProgress ==
  ASSUME TypeOK, RInv, StageInv, DiscInv, NEW i \in Slots, worker = "gecko", BootContainer(i)
  PROVE  Progress(i, 1)' /\ 1 \in 1..(Intervals + 1)
<1>1. /\ proc \in [Slots -> Programs] /\ rate \in [Slots -> Rates \cup {0}]
      /\ clock \in [Slots -> Nat] /\ frame \in [Slots -> Nat] /\ Intervals \in Nat
  BY CaptureAssumption DEF TypeOK, Gecko!CaptureTypeOK, Programs
<1>2. Gecko!Boot(i, dir[games[i].id][input[i]]) /\ at[i] = "staged" /\ UNCHANGED staging
  BY DEF BootContainer
<1>3. PICK r \in Rates : /\ rate' = [rate EXCEPT ![i] = r]
                         /\ clock' = [clock EXCEPT ![i] = r]
                         /\ frame' = [frame EXCEPT ![i] = r * 2]
                         /\ proc' = [proc EXCEPT ![i] = "writing"]
                         /\ shots' = shots /\ proc[i] = "created"
  BY <1>2 DEF Gecko!Boot, Gecko!Enter
<1>4. r \in Nat \ {0}
  BY CaptureAssumption
<1>5. shots[Out(i)] = {}
  <2>1. \A j \in Slots : j # i /\ j \in DOMAIN games => Out(j) # Out(i)
    BY <1>2, OwnGame
  <2>2. Unused(Out(i))
    BY <1>3, <2>1 DEF Unused, Out
  <2>3. Out(i) \in GameIds
    BY <1>2, GameType DEF TypeOK, Out
  <2> QED BY <2>2, <2>3 DEF DiscInv
<1>6. /\ rate'[i] = r /\ clock'[i] = r /\ frame'[i] = r * 2 /\ proc'[i] = "writing"
      /\ Out(i)' = Out(i)
  BY <1>1, <1>2, <1>3 DEF Out, staging
<1>7. Erased(shots'[Out(i)']) = {} /\ Series(i, 0)' = {}
  BY <1>3, <1>5, <1>6 DEF Erased, Series
<1>8. 1 * (r * 2) = r * 2 /\ r * 2 - r = r
  BY <1>4
<1>9. (IF proc'[i] = "writing" THEN 1 - 1 ELSE 1) = 0
  BY <1>6
<1> QED BY <1>1, <1>4, <1>6, <1>7, <1>8, <1>9 DEF Progress

LEMMA ErasedShot ==
  ASSUME NEW s \in Gecko!Shot
  PROVE  [s EXCEPT !.whole = TRUE] = [frame |-> s.frame, at |-> s.at, of |-> s.of, whole |-> TRUE]
<1>1. \A v : [s EXCEPT !.whole = v] = [frame |-> s.frame, at |-> s.at, of |-> s.of, whole |-> v]
  BY DEF Gecko!Shot
<1> QED BY <1>1, Zenon

LEMMA WriteProgress ==
  ASSUME TypeOK, DiscInv, NEW i \in Slots, NEW m \in 1..(Intervals + 1), Progress(i, m),
         Gecko!Write(i, Out(i)), Out(i) \in GameIds, UNCHANGED <<set, games>>
  PROVE  Progress(i, m)'
<1> DEFINE o == Out(i)
           step == rate[i] * 2
<1>1. /\ proc \in [Slots -> Programs] /\ shots \in [GameIds -> SUBSET Gecko!Shot]
      /\ Intervals \in Nat
  BY CaptureAssumption DEF TypeOK, Gecko!CaptureTypeOK, Programs
<1>2. /\ rate[i] \in Nat \ {0} /\ frame[i] = m * step /\ clock[i] = m * step - rate[i]
      /\ proc[i] = "writing" /\ UNCHANGED <<disc, rate, clock, frame>>
      /\ disc[i] = RomOf(i)
      /\ Erased(shots[o]) = Series(i, m - 1)
  BY DEF Gecko!Write, Progress, DiscInv
<1>3. step \in Nat \ {0} /\ m \in Nat /\ m > 0 /\ m - 1 \in Nat
  BY <1>1, <1>2
<1>4. PICK whole \in BOOLEAN : Gecko!Save(i, o, whole)
  BY DEF Gecko!Write
<1> DEFINE new == [frame |-> frame[i], at |-> clock[i], of |-> disc[i], whole |-> whole]
<1>5. ASSUME NEW s \in shots[o] PROVE s.frame # frame[i]
  <2>1. s \in Gecko!Shot /\ [s EXCEPT !.whole = TRUE] \in Series(i, m - 1)
    BY <1>1, <1>2 DEF Erased
  <2>2. PICK k \in 1..(m - 1) : [s EXCEPT !.whole = TRUE].frame = k * step
    BY <2>1 DEF Series
  <2>3. s.frame = k * step
    BY <2>1, <2>2 DEF Gecko!Shot
  <2>4. k * step < m * step
    BY <1>3, TimesMonotonic
  <2> QED BY <1>2, <1>3, <2>3, <2>4
<1>6. shots'[o] = shots[o] \cup {new}
  BY <1>1, <1>4, <1>5 DEF Gecko!Save
<1>7. [new EXCEPT !.whole = TRUE]
        = [frame |-> m * step, at |-> m * step - rate[i], of |-> RomOf(i), whole |-> TRUE]
  <2>1. new \in Gecko!Shot
    <3>1. disc[i] \in File /\ frame[i] \in Nat /\ clock[i] \in Nat
      <4>1. i \in Slots /\ proc[i] = "writing"
        BY <1>2
      <4> QED BY <4>1 DEF TypeOK, Gecko!CaptureTypeOK
    <3> QED BY <3>1 DEF Gecko!Shot
  <2>2. new.frame = frame[i] /\ new.at = clock[i] /\ new.of = disc[i]
    OBVIOUS
  <2> HIDE DEF new, step
  <2> QED BY <1>2, <2>1, <2>2, ErasedShot
<1>8. Erased(shots'[o]) = Erased(shots[o]) \cup {[new EXCEPT !.whole = TRUE]}
  BY <1>6 DEF Erased
<1>9. Series(i, m) = Erased(shots'[o])
  BY <1>2, <1>3, <1>7, <1>8, SeriesOfNext
<1>10. Series(i, m)' = Series(i, m) /\ Out(i)' = Out(i)
  BY <1>2, RomOfUnchanged DEF Series
<1>11. /\ proc'[i] = IF frame[i] = rate[i] * 2 * (Intervals + 1) THEN "done" ELSE "emulating"
  BY <1>1 DEF Gecko!Write, Gecko!Enter, Gecko!IsLast
<1>12. frame[i] = rate[i] * 2 * (Intervals + 1) <=> m = Intervals + 1
  <2>1. step * (Intervals + 1) = (Intervals + 1) * step /\ Intervals + 1 \in Nat
    BY <1>1, <1>3
  <2> HIDE DEF step
  <2>2. m * step = (Intervals + 1) * step <=> m = Intervals + 1
    BY <1>3, <2>1, TimesInjective
  <2> QED BY <1>2, <2>1, <2>2 DEF step
<1>13. proc'[i] = "done" => m = Intervals + 1
  BY <1>11, <1>12
<1>14. proc'[i] = "emulating" => m <= Intervals
  BY <1>1, <1>3, <1>11, <1>12
<1>15. proc'[i] # "writing"
  BY <1>11
<1> QED BY <1>2, <1>9, <1>10, <1>13, <1>14, <1>15 DEF Progress

LEMMA EmulateProgress ==
  ASSUME TypeOK, DiscInv, NEW i \in Slots, NEW m \in 1..(Intervals + 1), Progress(i, m),
         Gecko!Emulate(i), UNCHANGED <<set, games>>
  PROVE  Progress(i, m + 1)' /\ m + 1 \in 1..(Intervals + 1)
<1> DEFINE step == rate[i] * 2
<1>1. /\ proc \in [Slots -> Programs] /\ clock \in [Slots -> Nat] /\ frame \in [Slots -> Nat]
      /\ Intervals \in Nat
  BY CaptureAssumption DEF TypeOK, Gecko!CaptureTypeOK, Programs
<1>2. /\ rate[i] \in Nat \ {0} /\ frame[i] = m * step /\ clock[i] = m * step - rate[i]
      /\ proc[i] = "emulating" /\ m <= Intervals /\ UNCHANGED <<disc, rate, shots>>
      /\ Erased(shots[Out(i)]) = Series(i, m)
  BY DEF Gecko!Emulate, Progress
<1>3. /\ proc'[i] = "writing" /\ frame'[i] = frame[i] + step /\ clock'[i] = clock[i] + step
  BY <1>1 DEF Gecko!Emulate, Gecko!Enter
<1>4. m * step + step = (m + 1) * step /\ m * step \in Nat /\ step \in Nat
  BY <1>2
<1>5. frame'[i] = (m + 1) * step /\ clock'[i] = (m + 1) * step - rate[i]
  BY <1>2, <1>3, <1>4
<1>6. Series(i, m)' = Series(i, m) /\ Out(i)' = Out(i)
  BY <1>2, RomOfUnchanged DEF Series
<1>7. (m + 1) - 1 = m /\ m + 1 \in 1..(Intervals + 1)
  BY <1>1, <1>2
<1>8. Erased(shots'[Out(i)']) = Series(i, (m + 1) - 1)'
  BY <1>2, <1>6, <1>7
<1> QED BY <1>2, <1>3, <1>5, <1>7, <1>8 DEF Progress
LEMMA SeriesStep ==
  ASSUME TypeOK, ReadInv, RInv, StageInv, DiscInv, SeriesInv, [Next]_vars
  PROVE  SeriesInv'
<1>1. ASSUME UNCHANGED containers,
             \/ UNCHANGED <<set, games>>
             \/ (\A c \in Slots : proc[c] = "created") /\ games = <<>>
      PROVE  SeriesInv'
  <2>1. CASE UNCHANGED <<set, games>>
    <3>1. /\ worker' = worker /\ proc' = proc /\ rate' = rate /\ clock' = clock
          /\ frame' = frame /\ shots' = shots
      BY <1>1 DEF containers
    <3>2. \A i, m : Progress(i, m) => Progress(i, m)'
      <4> SUFFICES ASSUME NEW i, NEW m, Progress(i, m) PROVE Progress(i, m)'
        OBVIOUS
      <4>1. RomOf(i)' = RomOf(i) /\ Out(i)' = Out(i)
        BY <2>1, RomOfUnchanged
      <4> QED BY <3>1, <4>1 DEF Progress, Series
    <3> QED BY <3>1, <3>2 DEF SeriesInv
  <2>2. CASE \A c \in Slots : proc[c] = "created"
    <3>1. \A c \in Slots : proc'[c] = "created"
      BY <1>1, <2>2 DEF containers
    <3> QED BY <3>1 DEF SeriesInv
  <2> QED BY <1>1, <2>1, <2>2
<1>2. ASSUME NEW i \in Slots, ContainerStep(i), worker = "gecko"
      PROVE  SeriesInv'
  <2>1. /\ at[i] = "staged" /\ UNCHANGED <<staging, worker>> /\ UNCHANGED <<set, games>>
        /\ \A j \in Slots : j # i => /\ proc'[j] = proc[j] /\ rate'[j] = rate[j]
                                     /\ clock'[j] = clock[j] /\ frame'[j] = frame[j]
        /\ \A o \in GameIds : o # Out(i) => shots'[o] = shots[o]
    BY <1>2, OwnOutput DEF staging
  <2>2. Out(i) \in GameIds
    BY <2>1, GameType DEF TypeOK, Out
  <2>3. ASSUME NEW j \in Slots, j # i, proc'[j] \in {"emulating", "writing", "done"}
        PROVE  \E m \in 1..(Intervals + 1) : Progress(j, m)'
    <3>1. proc[j] \in {"emulating", "writing", "done"} /\ j \in DOMAIN games
      <4>1. proc[j] \in {"emulating", "writing", "done"}
        BY <2>1, <2>3
      <4>2. at[j] # "waiting"
        BY <4>1 DEF TypeOK
      <4> QED BY <4>1, <4>2, GameType DEF TypeOK
    <3>2. PICK m \in 1..(Intervals + 1) : Progress(j, m)
      BY <1>2, <3>1 DEF SeriesInv
    <3>3. Out(j) # Out(i) /\ Out(j) \in GameIds
      <4>1. at[j] # "waiting"
        BY <3>1 DEF TypeOK
      <4> QED BY <2>1, <2>3, <3>1, <4>1, OwnGame, GameType DEF TypeOK, Out
    <3>4. shots'[Out(j)] = shots[Out(j)] /\ RomOf(j)' = RomOf(j) /\ Out(j)' = Out(j)
      BY <2>1, <3>3, RomOfUnchanged
    <3>5. proc'[j] = proc[j] /\ rate'[j] = rate[j] /\ clock'[j] = clock[j] /\ frame'[j] = frame[j]
      BY <2>1, <2>3
    <3>6. Progress(j, m)'
      BY <3>2, <3>4, <3>5 DEF Progress, Series
    <3> QED BY <3>6
  <2>4. ASSUME proc'[i] \in {"emulating", "writing", "done"}
        PROVE  \E m \in 1..(Intervals + 1) : Progress(i, m)'
    <3>1. CASE BootContainer(i)
      BY <1>2, <3>1, BootProgress
    <3>2. CASE Gecko!Write(i, Out(i))
      <4>1. PICK m \in 1..(Intervals + 1) : Progress(i, m)
        BY <1>2, <3>2 DEF SeriesInv, Gecko!Write
      <4> QED BY <2>1, <2>2, <3>2, <4>1, WriteProgress
    <3>3. CASE Gecko!Emulate(i)
      <4>1. PICK m \in 1..(Intervals + 1) : Progress(i, m)
        BY <1>2, <3>3 DEF SeriesInv, Gecko!Emulate
      <4> QED BY <2>1, <3>3, <4>1, EmulateProgress
    <3>4. CASE StopContainer(i)
      <4>1. proc \in [Slots -> Programs] /\ proc' = [proc EXCEPT ![i] = "stopped"]
        BY <1>2, <3>4 DEF StopContainer, Gecko!Stop, Gecko!Enter, TypeOK, Gecko!CaptureTypeOK, Programs
      <4> QED BY <2>4, <4>1
    <3> QED BY <1>2, <3>1, <3>2, <3>3, <3>4 DEF ContainerStep, RunContainer
  <2> QED BY <1>2, <2>1, <2>3, <2>4 DEF SeriesInv
<1>3. ASSUME NEW i \in Slots, ContainerStep(i), worker # "gecko"
      PROVE  SeriesInv'
  BY <1>3, OwnOutput DEF SeriesInv
<1> QED BY <1>1, <1>2, <1>3, NothingRuns DEF Next, ContainerStep

LEMMA CaptureInv == Spec => [](DiscInv /\ SeriesInv)
<1>1. Init => DiscInv /\ SeriesInv
  BY DEF Init, Gecko!CaptureInit, DiscInv, SeriesInv
<1>2. TypeOK /\ ReadInv /\ RInv /\ StageInv /\ DiscInv /\ SeriesInv /\ [Next]_vars
        => (DiscInv /\ SeriesInv)'
  BY DiscInvStep, SeriesStep
<1> QED BY <1>1, <1>2, ResolvedInv, TypeInv, StagedInv, PTL DEF Spec

LEMMA SeriesIsComplete ==
  ASSUME TypeOK, RInv, SeriesInv
  PROVE  CaptureIsComplete
<1> SUFFICES ASSUME NEW i \in DOMAIN games, worker = "gecko", proc[i] = "done"
             PROVE  Erased(shots[Out(i)]) = Series(i, Intervals + 1)
  BY DEF CaptureIsComplete, Erased, Series
<1>1. i \in Slots
  <2>1. phase = "stage"
    BY DEF RInv
  <2> QED BY <2>1, ResolvedType DEF RInv
<1>2. PICK m \in 1..(Intervals + 1) : Progress(i, m)
  BY <1>1 DEF SeriesInv
<1>3. m = Intervals + 1
  BY <1>2 DEF Progress
<1> QED BY <1>2, <1>3 DEF Progress

(* When the worker of gecko ends well, its directory holds the number of   *)
(* screenshots it should, evenly spaced in name and in time, all of the    *)
(* right ROM, whatever another container does.                             *)
THEOREM CaptureIsCompleteCorrect == Spec => []CaptureIsComplete
BY ResolvedInv, TypeInv, CaptureInv, SeriesIsComplete, PTL
-----------------------------------------------------------------------------
(* The program of ymir                                                     *)

LEMMA TimesQuotient ==
  ASSUME NEW n \in Nat, NEW s \in Nat \ {0}
  PROVE  (n * s) \div s = n /\ (n * s) % s = 0
OBVIOUS

(* Between two multiples there is no other.                                *)
LEMMA NoMultiple ==
  ASSUME NEW n \in Nat, NEW e \in Nat \ {0}, NEW w \in Nat, w * e < n, n < (w + 1) * e
  PROVE  n % e # 0
<1> SUFFICES ASSUME n % e = 0 PROVE FALSE
  OBVIOUS
<1> DEFINE q == n \div e
<1>1. q \in Nat /\ n = e * q
  BY DEF q
<1> HIDE DEF q
<1>2. q <= w \/ q >= w + 1
  BY <1>1
<1>3. CASE q <= w
  <2>1. q * e <= w * e
    BY <1>1, <1>3
  <2> QED BY <1>1, <2>1
<1>4. CASE q >= w + 1
  <2>1. (w + 1) * e <= q * e
    BY <1>1, <1>4
  <2> QED BY <1>1, <2>1
<1> QED BY <1>2, <1>3, <1>4

Step(i) == Ymir!Step(i)

Period(i) == Step(i) * Every

Fresh(i, s) == /\ s.of = RomOf(i)
               /\ s.frame % Period(i) = 0
               /\ s.at \in (s.frame - Period(i) + 1)..s.frame

(* After n iterations and w times to write; what is fresh came after the   *)
(* last of them.                                                           *)
Running(i, n, w) ==
  /\ clock[i] = n * Step(i)
  /\ w * Every <= n
  /\ proc[i] = "emulating" => n < (w + 1) * Every
  /\ proc[i] = "writing" => n = (w + 1) * Every
  /\ fb[i].fresh => fb[i].at \in (w * Period(i) + 1)..clock[i]

FreshInv ==
  worker = "ymir" =>
    \A i \in Slots :
      /\ proc[i] = "created" => clock[i] = 0 /\ ~fb[i].fresh
      /\ proc[i] # "created" => \A s \in shots[Out(i)] : Fresh(i, s)
      /\ proc[i] \in {"emulating", "writing"} => \E n, w \in Nat : Running(i, n, w)

LEMMA PeriodType ==
  ASSUME TypeOK, NEW i \in Slots
  PROVE  Step(i) \in Nat \ {0} /\ Period(i) \in Nat \ {0} /\ Every \in Nat \ {0}
<1>1. Step(i) \in Nat \ {0} /\ Every \in Nat \ {0}
  BY StepType, CaptureAssumption DEF TypeOK, Step
<1> QED BY <1>1 DEF Period

(* The clock at a time to write, and at the one before.                    *)
LEMMA Periods ==
  ASSUME NEW s \in Nat \ {0}, NEW e \in Nat \ {0}, NEW w \in Nat
  PROVE  /\ ((w + 1) * e) * s = (w + 1) * (s * e)
         /\ (w + 1) * (s * e) = w * (s * e) + s * e
         /\ (w * e) * s = w * (s * e)
         /\ w * (s * e) \in Nat /\ (w + 1) * (s * e) \in Nat
<1>1. s * e \in Nat
  OBVIOUS
<1>2. ((w + 1) * e) * s = (w + 1) * (s * e) /\ (w * e) * s = w * (s * e)
  OBVIOUS
<1> DEFINE p == s * e
<1> HIDE DEF p
<1>3. p \in Nat => (w + 1) * p = w * p + p /\ w * p \in Nat /\ (w + 1) * p \in Nat
  OBVIOUS
<1> QED BY <1>1, <1>2, <1>3 DEF p

LEMMA StepUnchanged ==
  ASSUME NEW i, rate'[i] = rate[i]
  PROVE  Step(i)' = Step(i) /\ Period(i)' = Period(i)
BY DEF Step, Period, Ymir!Step

LEMMA SavedIsFresh ==
  ASSUME TypeOK, DiscInv, NEW i \in Slots, proc[i] = "writing", fb[i].fresh,
         NEW n \in Nat, NEW w \in Nat, Running(i, n, w), NEW whole \in BOOLEAN,
         Ymir!Save(i, Out(i), whole), Out(i) \in GameIds,
         \A s \in shots[Out(i)] : Fresh(i, s)
  PROVE  \A s \in shots'[Out(i)] : Fresh(i, s)
<1> DEFINE new == [frame |-> clock[i], at |-> fb[i].at, of |-> disc[i], whole |-> whole]
<1>1. shots \in [GameIds -> SUBSET Gecko!Shot]
  BY DEF TypeOK, Gecko!CaptureTypeOK
<1>2. shots'[Out(i)] \subseteq shots[Out(i)] \cup {new}
  BY <1>1 DEF Ymir!Save
<1>3. Step(i) \in Nat \ {0} /\ Every \in Nat \ {0} /\ Period(i) \in Nat \ {0}
  BY PeriodType
<1>4. /\ clock[i] = (w + 1) * Period(i) /\ w * Period(i) \in Nat
      /\ (w + 1) * Period(i) = w * Period(i) + Period(i)
  <2>1. clock[i] = ((w + 1) * Every) * Step(i)
    BY DEF Running
  <2>2. Period(i) = Step(i) * Every
    BY DEF Period
  <2>3. \A k \in Nat : k * Period(i) = (k * Every) * Step(i)
    BY <1>3, <2>2, Periods
  <2>4. w * Period(i) \in Nat /\ (w + 1) * Period(i) = w * Period(i) + Period(i)
    BY <1>3
  <2>5. w + 1 \in Nat
    OBVIOUS
  <2> QED BY <2>1, <2>3, <2>4, <2>5
<1>5. clock[i] % Period(i) = 0
  BY <1>3, <1>4, TimesQuotient
<1>6. clock[i] - Period(i) + 1 = w * Period(i) + 1
  BY <1>3, <1>4
<1>7. fb[i].at \in (clock[i] - Period(i) + 1)..clock[i]
  BY <1>6 DEF Running
<1>8. disc[i] = RomOf(i)
  BY DEF DiscInv
<1>9. Fresh(i, new)
  BY <1>5, <1>7, <1>8 DEF Fresh
<1> QED BY <1>2, <1>9
LEMMA BootFresh ==
  ASSUME TypeOK, RInv, StageInv, DiscInv, FreshInv, NEW i \in Slots, worker = "ymir", BootContainer(i)
  PROVE  Running(i, 0, 0)' /\ shots'[Out(i)] = {} /\ proc'[i] = "emulating"
<1>1. /\ proc \in [Slots -> Programs] /\ rate \in [Slots -> Rates \cup {0}]
  BY DEF TypeOK, Gecko!CaptureTypeOK, Programs
<1>2. Ymir!BootSaturn(i, dir[games[i].id][input[i]]) /\ at[i] = "staged"
  BY DEF BootContainer
<1>3. /\ proc' = [proc EXCEPT ![i] = "emulating"] /\ UNCHANGED <<shots, clock, fb>>
      /\ proc[i] = "created"
  BY <1>2 DEF Ymir!BootSaturn, Ymir!Enter
<1>4. shots[Out(i)] = {}
  <2>1. \A j \in Slots : j # i /\ j \in DOMAIN games => Out(j) # Out(i)
    BY <1>2, OwnGame
  <2>2. Unused(Out(i))
    BY <1>3, <2>1 DEF Unused, Out
  <2>3. Out(i) \in GameIds
    BY <1>2, GameType DEF TypeOK, Out
  <2> QED BY <2>2, <2>3 DEF DiscInv
<1>5. clock'[i] = 0 /\ ~fb'[i].fresh /\ proc'[i] = "emulating"
  BY <1>1, <1>3 DEF FreshInv
<1>7. 0 * Step(i)' = 0 /\ 0 * Every <= 0 /\ 0 < (0 + 1) * Every
  <2>1. rate'[i] \in Nat
    BY <1>1, <1>2, CaptureAssumption DEF Ymir!BootSaturn
  <2>2. Step(i)' = IF rate'[i] < 2 THEN 1 ELSE rate'[i] \div 2
    BY DEF Step, Ymir!Step
  <2>3. Step(i)' \in Nat
    BY <2>1, <2>2
  <2> QED BY <2>3, PeriodType
<1> QED BY <1>3, <1>4, <1>5, <1>7 DEF Running

LEMMA IterateFresh ==
  ASSUME TypeOK, NEW i \in Slots, NEW n \in Nat, NEW w \in Nat, Running(i, n, w),
         Ymir!Iterate(i)
  PROVE  Running(i, n + 1, w)' /\ UNCHANGED shots
<1> DEFINE step == Step(i)
<1>1. /\ proc \in [Slots -> Programs] /\ clock \in [Slots -> Nat] /\ fb \in [Slots -> Ymir!FrameBuffer]
  BY DEF TypeOK, Gecko!CaptureTypeOK, Programs
<1>2. step \in Nat \ {0} /\ Every \in Nat \ {0} /\ Period(i) \in Nat \ {0}
  BY PeriodType
<1>3. /\ proc[i] = "emulating" /\ clock' = [clock EXCEPT ![i] = @ + step]
      /\ rate' = rate /\ shots' = shots
      /\ \/ UNCHANGED fb
         \/ \E b \in BOOLEAN : fb' = [fb EXCEPT ![i] = [at |-> clock'[i], blank |-> b, fresh |-> TRUE]]
      /\ proc' = [proc EXCEPT ![i] = IF (clock'[i] \div step) % Every = 0 THEN "writing" ELSE "emulating"]
  BY DEF Ymir!Iterate, Ymir!Enter, Step
<1> HIDE DEF step
<1>4. clock[i] = n * step /\ w * Every <= n /\ n < (w + 1) * Every
      /\ (fb[i].fresh => fb[i].at \in (w * Period(i) + 1)..clock[i])
  BY <1>3 DEF Running, step
<1>5. clock'[i] = (n + 1) * step
  <2>1. n * step + step = (n + 1) * step
    BY <1>2
  <2> QED BY <1>1, <1>3, <1>4, <2>1
<1>6. clock'[i] \div step = n + 1
  BY <1>2, <1>5, TimesQuotient
<1>7. w * Every \in Nat /\ (w + 1) * Every \in Nat /\ w * Every < n + 1 /\ n + 1 <= (w + 1) * Every
  <2>1. w * Every \in Nat /\ (w + 1) * Every \in Nat
    BY <1>2
  <2> QED BY <1>4, <2>1
<1>8. proc'[i] = IF (n + 1) % Every = 0 THEN "writing" ELSE "emulating"
  BY <1>1, <1>3, <1>6
<1>9. n + 1 = (w + 1) * Every => proc'[i] = "writing"
  <2>1. ((w + 1) * Every) % Every = 0
    <3>1. w + 1 \in Nat
      OBVIOUS
    <3> QED BY <1>2, <3>1, TimesQuotient
  <2> QED BY <1>8, <2>1
<1>10. n + 1 # (w + 1) * Every => proc'[i] = "emulating" /\ n + 1 < (w + 1) * Every
  <2> SUFFICES ASSUME n + 1 # (w + 1) * Every
               PROVE  proc'[i] = "emulating" /\ n + 1 < (w + 1) * Every
    OBVIOUS
  <2>1. n + 1 \in Nat /\ n + 1 < (w + 1) * Every
    BY <1>7
  <2>2. (n + 1) % Every # 0
    BY <1>2, <1>7, <2>1, NoMultiple
  <2> QED BY <1>8, <2>1, <2>2
<1>11. w * Period(i) < clock'[i] /\ clock[i] <= clock'[i] /\ clock'[i] \in Nat /\ w * Period(i) \in Nat
  <2>1. w * Period(i) = (w * Every) * step
    BY <1>2, Periods DEF Period, step
  <2>2. (w * Every) * step < (n + 1) * step
    BY <1>2, <1>7, TimesMonotonic
  <2>3. clock[i] \in Nat /\ clock'[i] = clock[i] + step
    BY <1>1, <1>3
  <2>4. w * Period(i) \in Nat
    BY <1>2
  <2> QED BY <1>2, <1>5, <2>1, <2>2, <2>3, <2>4
<1>12. fb'[i].fresh => fb'[i].at \in (w * Period(i) + 1)..clock'[i]
  <2>1. CASE UNCHANGED fb
    <3>1. clock[i] \in Nat /\ (fb[i].fresh => fb[i].at \in Nat)
      BY <1>1, <1>4, <1>11
    <3> QED BY <2>1, <1>4, <1>11, <3>1
  <2>2. CASE \E b \in BOOLEAN : fb' = [fb EXCEPT ![i] = [at |-> clock'[i], blank |-> b, fresh |-> TRUE]]
    <3>1. fb'[i].at = clock'[i]
      BY <1>1, <2>2
    <3> QED BY <1>11, <3>1
  <2> QED BY <1>3, <2>1, <2>2
<1>13. Step(i)' = Step(i) /\ Period(i)' = Period(i)
  BY <1>3, StepUnchanged
<1> QED BY <1>3, <1>5, <1>7, <1>9, <1>10, <1>12, <1>13 DEF Running, step
(* What FreshInv says of one container.                                    *)
OneFresh(i) ==
  /\ proc[i] = "created" => clock[i] = 0 /\ ~fb[i].fresh
  /\ proc[i] # "created" => \A s \in shots[Out(i)] : Fresh(i, s)
  /\ proc[i] \in {"emulating", "writing"} => \E n, w \in Nat : Running(i, n, w)

LEMMA RunFresh ==
  ASSUME TypeOK, DiscInv, NEW i \in Slots, OneFresh(i), Out(i) \in GameIds,
         Ymir!Saturn(i, Out(i)) \/ (Ymir!StopSaturn(i, Out(i)) /\ proc[i] # "created"),
         UNCHANGED <<set, games>>
  PROVE  OneFresh(i)'
<1>1. /\ proc \in [Slots -> Programs] /\ clock \in [Slots -> Nat] /\ fb \in [Slots -> Ymir!FrameBuffer]
  BY DEF TypeOK, Gecko!CaptureTypeOK, Programs
<1>2. /\ rate' = rate /\ proc[i] # "created"
      /\ RomOf(i)' = RomOf(i) /\ Out(i)' = Out(i)
  BY RomOfUnchanged DEF Ymir!Saturn, Ymir!Iterate, Ymir!PassOver, Ymir!WriteFrame, Ymir!EndSaturn,
                        Ymir!StopSaturn
<1>3. Step(i)' = Step(i) /\ Period(i)' = Period(i)
  BY <1>2, StepUnchanged
<1>4. \A s : Fresh(i, s)' <=> Fresh(i, s)
  BY <1>2, <1>3 DEF Fresh
<1>5. \A s \in shots[Out(i)] : Fresh(i, s)
  BY <1>2 DEF OneFresh
<1>6. ASSUME \A s \in shots'[Out(i)] : Fresh(i, s), proc'[i] # "created",
             proc'[i] \in {"emulating", "writing"} => \E n, w \in Nat : Running(i, n, w)'
      PROVE  OneFresh(i)'
  BY <1>2, <1>4, <1>6 DEF OneFresh
<1>7. CASE Ymir!Iterate(i)
  <2>1. PICK n \in Nat, w \in Nat : Running(i, n, w)
    BY <1>7 DEF OneFresh, Ymir!Iterate
  <2>2. Running(i, n + 1, w)' /\ shots' = shots
    BY <1>7, <2>1, IterateFresh
  <2>3. n + 1 \in Nat /\ proc'[i] # "created"
    BY <1>1, <1>7 DEF Ymir!Iterate, Ymir!Enter
  <2> QED BY <1>5, <1>6, <2>2, <2>3
<1>8. CASE Ymir!PassOver(i) \/ Ymir!WriteFrame(i, Out(i))
  <2>1. /\ proc[i] = "writing" /\ proc' = [proc EXCEPT ![i] = "emulating"] /\ clock' = clock
        /\ fb' = [fb EXCEPT ![i].fresh = FALSE]
    BY <1>8 DEF Ymir!PassOver, Ymir!WriteFrame, Ymir!Enter, Ymir!Seen
  <2>2. PICK n \in Nat, w \in Nat : Running(i, n, w)
    BY <2>1 DEF OneFresh
  <2>3. \A s \in shots'[Out(i)] : Fresh(i, s)
    <3>1. CASE UNCHANGED shots
      BY <1>5, <3>1
    <3>2. ASSUME NEW whole \in BOOLEAN, Ymir!Save(i, Out(i), whole), fb[i].fresh
          PROVE  \A s \in shots'[Out(i)] : Fresh(i, s)
      BY <1>5, <2>1, <2>2, <3>2, SavedIsFresh
    <3> QED BY <1>8, <3>1, <3>2 DEF Ymir!PassOver, Ymir!WriteFrame
  <2>4. proc'[i] = "emulating" /\ ~fb'[i].fresh /\ clock'[i] = clock[i]
    BY <1>1, <2>1 DEF Ymir!FrameBuffer
  <2>5. n = (w + 1) * Every /\ w + 1 \in Nat
    BY <2>1, <2>2 DEF Running
  <2>6. (w + 1) * Every <= n /\ n < ((w + 1) + 1) * Every
    <3>1. Every \in Nat \ {0}
      BY PeriodType
    <3>2. ((w + 1) + 1) * Every = (w + 1) * Every + Every
      BY <3>1
    <3> QED BY <2>5, <3>1, <3>2
  <2>7. Running(i, n, w + 1)'
    BY <1>3, <2>2, <2>4, <2>6 DEF Running
  <2> QED BY <1>6, <2>3, <2>4, <2>5, <2>7
<1>9. CASE Ymir!EndSaturn(i)
  <2>1. proc' = [proc EXCEPT ![i] = "done"] /\ shots' = shots
    BY <1>9 DEF Ymir!EndSaturn, Ymir!Leave, Ymir!Enter
  <2>2. proc'[i] = "done"
    BY <1>1, <2>1
  <2> QED BY <1>5, <1>6, <2>1, <2>2
<1>10. CASE Ymir!StopSaturn(i, Out(i))
  <2>1. proc' = [proc EXCEPT ![i] = "stopped"]
    BY <1>10 DEF Ymir!StopSaturn, Ymir!Leave, Ymir!Enter
  <2>2. proc'[i] = "stopped"
    BY <1>1, <2>1
  <2>3. CASE UNCHANGED shots
    BY <1>5, <1>6, <2>2, <2>3
  <2>4. CASE proc[i] = "writing" /\ fb[i].fresh /\ Ymir!Save(i, Out(i), FALSE)
    <3>1. PICK n \in Nat, w \in Nat : Running(i, n, w)
      BY <2>4 DEF OneFresh
    <3>2. \A s \in shots'[Out(i)] : Fresh(i, s)
      BY <1>5, <2>4, <3>1, SavedIsFresh
    <3> QED BY <1>6, <2>2, <3>2
  <2> QED BY <1>10, <2>3, <2>4 DEF Ymir!StopSaturn
<1> QED BY <1>7, <1>8, <1>9, <1>10 DEF Ymir!Saturn

LEMMA FreshStep ==
  ASSUME TypeOK, ReadInv, RInv, StageInv, DiscInv, FreshInv, [Next]_vars
  PROVE  FreshInv'
<1>1. ASSUME NEW j \in Slots, OneFresh(j),
             proc'[j] = proc[j], rate'[j] = rate[j], clock'[j] = clock[j], fb'[j] = fb[j],
             proc[j] # "created" => /\ UNCHANGED <<set, games>>
                                    /\ shots'[Out(j)] = shots[Out(j)]
      PROVE  OneFresh(j)'
  <2>1. Step(j)' = Step(j) /\ Period(j)' = Period(j)
    BY <1>1, StepUnchanged
  <2>2. ASSUME NEW n, NEW w PROVE Running(j, n, w) => Running(j, n, w)'
    BY <1>1, <2>1 DEF Running
  <2>3. CASE proc[j] = "created"
    BY <1>1, <2>3 DEF OneFresh
  <2>4. CASE proc[j] # "created"
    <3>1. RomOf(j)' = RomOf(j) /\ Out(j)' = Out(j)
      BY <1>1, <2>4, RomOfUnchanged
    <3>2. \A s : Fresh(j, s)' <=> Fresh(j, s)
      BY <2>1, <3>1 DEF Fresh
    <3> QED BY <1>1, <2>2, <2>4, <3>1, <3>2 DEF OneFresh
  <2> QED BY <2>3, <2>4
<1>2. FreshInv <=> (worker = "ymir" => \A i \in Slots : OneFresh(i))
  BY DEF FreshInv, OneFresh
<1>3. FreshInv' <=> (worker' = "ymir" => \A i \in Slots : OneFresh(i)')
  BY DEF FreshInv, OneFresh
<1>4. ASSUME UNCHANGED containers,
             \/ UNCHANGED <<set, games>>
             \/ (\A c \in Slots : proc[c] = "created") /\ games = <<>>
      PROVE  FreshInv'
  BY <1>1, <1>2, <1>3, <1>4 DEF containers
<1>5. ASSUME NEW i \in Slots, ContainerStep(i), worker = "ymir"
      PROVE  FreshInv'
  <2>1. /\ at[i] = "staged" /\ UNCHANGED <<staging, worker>> /\ UNCHANGED <<set, games>>
        /\ \A j \in Slots : j # i => /\ proc'[j] = proc[j] /\ rate'[j] = rate[j]
                                     /\ clock'[j] = clock[j] /\ fb'[j] = fb[j]
        /\ \A o \in GameIds : o # Out(i) => shots'[o] = shots[o]
    BY <1>5, OwnOutput DEF staging
  <2>2. Out(i) \in GameIds
    BY <2>1, GameType DEF TypeOK, Out
  <2>3. ASSUME NEW j \in Slots, j # i PROVE OneFresh(j)'
    <3>1. proc[j] # "created" => shots'[Out(j)] = shots[Out(j)]
      <4> SUFFICES ASSUME proc[j] # "created" PROVE shots'[Out(j)] = shots[Out(j)]
        OBVIOUS
      <4>1. at[j] # "waiting"
        BY DEF TypeOK
      <4>2. j \in DOMAIN games /\ Out(j) \in GameIds
        BY <4>1, GameType DEF TypeOK, Out
      <4> QED BY <2>1, <2>3, <4>2, OwnGame
    <3> QED BY <1>1, <1>2, <1>5, <2>1, <2>3, <3>1
  <2>4. OneFresh(i)'
    <3>1. CASE BootContainer(i)
      <4>1. Running(i, 0, 0)' /\ shots'[Out(i)] = {} /\ proc'[i] = "emulating" /\ Out(i)' = Out(i)
        BY <1>5, <2>1, <3>1, BootFresh, RomOfUnchanged
      <4> QED BY <4>1 DEF OneFresh
    <3>2. CASE Ymir!Saturn(i, Out(i)) \/ (Ymir!StopSaturn(i, Out(i)) /\ proc[i] # "created")
      BY <1>2, <1>5, <2>1, <2>2, <3>2, RunFresh
    <3>3. CASE Ymir!StopSaturn(i, Out(i)) /\ proc[i] = "created"
      <4>1. proc \in [Slots -> Programs] /\ proc' = [proc EXCEPT ![i] = "stopped"] /\ shots' = shots
        BY <3>3 DEF Ymir!StopSaturn, Ymir!Leave, Ymir!Enter, TypeOK, Gecko!CaptureTypeOK, Programs
      <4>2. \A j \in Slots : j # i /\ j \in DOMAIN games => Out(j) # Out(i)
        BY <2>1, OwnGame
      <4>3. Unused(Out(i))
        BY <3>3, <4>2 DEF Unused, Out
      <4>4. shots'[Out(i)'] = {}
        BY <2>1, <2>2, <4>1, <4>3, RomOfUnchanged DEF DiscInv
      <4>5. proc'[i] = "stopped"
        BY <4>1
      <4> QED BY <4>4, <4>5 DEF OneFresh
    <3> QED BY <1>5, <3>1, <3>2, <3>3 DEF ContainerStep, RunContainer, StopContainer
  <2> QED BY <1>3, <2>3, <2>4
<1>6. ASSUME NEW i \in Slots, ContainerStep(i), worker # "ymir"
      PROVE  FreshInv'
  BY <1>6, OwnOutput DEF FreshInv
<1> QED BY <1>4, <1>5, <1>6, NothingRuns DEF Next, ContainerStep

LEMMA FreshnessInv == Spec => []FreshInv
<1>1. Init => FreshInv
  BY DEF Init, Gecko!CaptureInit, Ymir!NoImage, FreshInv
<1>2. TypeOK /\ ReadInv /\ RInv /\ StageInv /\ DiscInv /\ FreshInv /\ [Next]_vars => FreshInv'
  BY FreshStep
<1> QED BY <1>1, <1>2, ResolvedInv, TypeInv, StagedInv, CaptureInv, PTL DEF Spec

LEMMA FreshInvImplies ==
  ASSUME RInv, FreshInv
  PROVE  ShotsAreFresh
<1> SUFFICES ASSUME NEW i \in DOMAIN games, worker = "ymir", proc[i] # "created", NEW s \in shots[Out(i)]
             PROVE  Fresh(i, s)
  BY DEF ShotsAreFresh, Fresh, Period, Step
<1>1. i \in Slots
  <2>1. phase = "stage"
    BY DEF RInv
  <2> QED BY <2>1, ResolvedType DEF RInv
<1> QED BY <1>1 DEF FreshInv

(* The worker of ymir never writes a frame that the emulator completed     *)
(* before the previous time to write one: if the game hangs, screenshots   *)
(* stop instead of repeating themselves.                                   *)
THEOREM ShotsAreFreshCorrect == Spec => []ShotsAreFresh
BY ResolvedInv, FreshnessInv, FreshInvImplies, PTL
=============================================================================
