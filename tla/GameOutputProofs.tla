--------------------------- MODULE GameOutputProofs ---------------------------
(* Proofs about GameOutput, for any number of games, captures and frames:  *)
(* a valid output is the wanted one, and an invalid output has a cause.    *)
EXTENDS GameOutput, FiniteSetTheorems, TLAPS

USE DEF folder

-----------------------------------------------------------------------------
(* Where a game is *)

(* What the container captured, and what was chosen of it so far.          *)
Shown(g)  == {n \in Index : captured[g][n] # NoFrame}
Chosen(g) == {kept[g][i] : i \in 1..Len(kept[g])}

(* The kept frames are in order, so that the new number of a frame is not  *)
(* above the old one; there is one at most of a single screenshot.         *)
Ascends(g) ==
  /\ \A i \in 1..Len(kept[g]) : i - 1 <= kept[g][i]
  /\ \A i, j \in 1..Len(kept[g]) : i < j => kept[g][i] < kept[g][j]
  /\ cfg.mode = "single" => Len(kept[g]) <= 1

Before(g) ==
  pc[g] \in {"run", "list"} =>
    /\ kept[g] = <<>> /\ staged[g] = <<>> /\ previous[g] = NoFrame
    /\ dir[g] <=> pc[g] = "list"
    /\ pc[g] = "list" => frames[g] = captured[g]

(* previous is the last usable frame that was read.                        *)
Remembers(g) ==
  \/ previous[g] = NoFrame /\ Usable(g) \subseteq unread[g]
  \/ \E m \in Usable(g) \ unread[g] : /\ captured[g][m] = previous[g]
                                      /\ \A u \in Usable(g) \ unread[g] : u <= m

(* The pass over the frames is right about those it has read.              *)
Filtering(g) ==
  pc[g] = "filter" =>
    /\ dir[g] /\ staged[g] = <<>> /\ frames[g] = captured[g]
    /\ unread[g] \subseteq Shown(g)
    /\ \A n \in Shown(g) \ unread[g], m \in unread[g] : n < m
    /\ Chosen(g) = Wanted(g) \ unread[g]
    /\ cfg.mode = "multi" /\ cfg.dedupe => Remembers(g)
    /\ cfg.mode = "single" =>
         unread[g] = {} \/ (unread[g] = Shown(g) /\ kept[g] = <<>>)

Keeps(g) ==
  pc[g] \in {"move", "name", "rendered"} =>
    /\ dir[g]
    /\ kept[g] # <<>>
    /\ Chosen(g) = Wanted(g)

(* The kept frames that have not been moved are still there.               *)
Moving(g) ==
  pc[g] = "move" =>
    /\ Len(staged[g]) <= Len(kept[g])
    /\ \A i \in 1..Len(staged[g]) : staged[g][i] = captured[g][kept[g][i]]
    /\ \A i \in 1..Len(kept[g]) :
         i > Len(staged[g]) => frames[g][kept[g][i]] = captured[g][kept[g][i]]

(* So many have their number.                                              *)
Named(g) == Len(kept[g]) - Len(staged[g])

Naming(g) ==
  pc[g] \in {"name", "rendered"} =>
    /\ "png" \notin extra[g]
    /\ Len(staged[g]) <= Len(kept[g])
    /\ pc[g] = "rendered" => staged[g] = <<>>
    /\ \A i \in 1..Len(staged[g]) : staged[g][i] = captured[g][kept[g][Named(g) + i]]
    /\ \A n \in Index :
         frames[g][n] = IF n < Named(g) THEN captured[g][kept[g][n + 1]] ELSE NoFrame

Skipped(g) ==
  pc[g] = "skipped" =>
    /\ Wanted(g) = {}
    /\ ~dir[g] => frames[g] = Empty

(* Of a lost game there is all that the container wrote, or nothing.       *)
Lost(g) == pc[g] = "lost" /\ dir[g] => frames[g] = captured[g]

(* What was chosen has been decoded, if anything is.                       *)
Decoded(g) == MayBeTorn \/ \A n \in Chosen(g) : captured[g][n] \in Images

GameInv(g) == /\ Ascends(g)
              /\ Decoded(g)
              /\ Before(g)
              /\ Filtering(g)
              /\ Keeps(g)
              /\ Moving(g)
              /\ Naming(g)
              /\ Skipped(g)
              /\ Lost(g)

(* Nothing changes after the verdict.                                      *)
Concluded ==
  verdict \in {"valid", "invalid"} => AllReported /\ (verdict = "valid" <=> IsValid)

OInv == TypeOK /\ Concluded /\ \A g \in Games : GameInv(g)

-----------------------------------------------------------------------------
(* Types *)

ScreenTypeOK ==
  /\ frames \in [Games -> Frames]
  /\ captured \in [Games -> Frames]
  /\ staged \in [Games -> Seq(File)]
  /\ kept \in [Games -> Seq(Index)]
  /\ unread \in [Games -> SUBSET Index]
  /\ previous \in [Games -> File \cup {NoFrame}]

StageTypeOK ==
  /\ cfg \in Settings
  /\ pc \in [Games -> {"run", "list", "filter", "move", "name",
                     "rendered", "skipped", "failed", "lost"}]
  /\ dir \in [Games -> BOOLEAN]
  /\ extra \in [Games -> SUBSET Extra]
  /\ verdict \in {"none", "failed", "nothing", "valid", "invalid"}
  /\ faults \in 0..MaxFaults

LEMMA TypeOKParts ==
  /\ TypeOK => ScreenTypeOK /\ StageTypeOK
  /\ ScreenTypeOK /\ StageTypeOK /\ (\A g \in Games : Keeps(g)) => TypeOK
BY DEF TypeOK, ScreenTypeOK, StageTypeOK, Keeps

LEMMA Mode ==
  ASSUME StageTypeOK
  PROVE  cfg.mode \in {"single", "multi"}
BY OutputAssumption DEF StageTypeOK

LEMMA SameWanted ==
  ASSUME NEW g \in Games, cfg' = cfg, captured'[g] = captured[g]
  PROVE  Usable(g)' = Usable(g) /\ Shown(g)' = Shown(g) /\ Wanted(g)' = Wanted(g)
<1>1. Usable(g)' = Usable(g) /\ Shown(g)' = Shown(g)
  BY DEF Usable, Shown, IsBlank
<1>2. \A n : Repeats(g, n)' <=> Repeats(g, n)
  BY <1>1 DEF Repeats
<1> QED BY <1>1, <1>2 DEF Wanted

LEMMA SameDecoded ==
  ASSUME NEW g \in Games, Decoded(g), cfg' = cfg, captured'[g] = captured[g], kept'[g] = kept[g]
  PROVE  Decoded(g)'
BY DEF Decoded, MayBeTorn, Chosen

LEMMA UsableIsShown ==
  ASSUME NEW g \in Games
  PROVE  /\ Wanted(g) \subseteq Usable(g)
         /\ Usable(g) \subseteq Shown(g)
         /\ Shown(g) \subseteq Index
BY DEF Wanted, Usable, Shown

-----------------------------------------------------------------------------
(* The pass over the frames *)

(* What came before the next frame has been read.                          *)
LEMMA BeforeNext ==
  ASSUME NEW g \in Games, Filtering(g), pc[g] = "filter", NEW n \in Index, IsNext(g, n)
  PROVE  /\ n \in Shown(g) /\ frames[g][n] = captured[g][n]
         /\ \A k \in Shown(g) : k < n <=> k \notin unread[g]
<1>1. n \in Nat /\ \A k \in Shown(g) : k \in Nat
  BY OutputAssumption DEF Shown, Index
<1> QED BY <1>1 DEF Filtering, IsNext

LEMMA ShownImage ==
  ASSUME ScreenTypeOK, NEW g \in Games, NEW n \in Shown(g), captured[g][n] \notin Unreadable
  PROVE  captured[g][n] \in Images
BY DEF ScreenTypeOK, Frames, File, Shown, Unreadable

LEMMA DropBlank ==
  ASSUME NEW g \in Games, Filtering(g), pc[g] = "filter", NEW n \in Index,
         IsNext(g, n), IsBlank(frames[g][n])
  PROVE  /\ n \notin Wanted(g)
         /\ Usable(g) \ (unread[g] \ {n}) = Usable(g) \ unread[g]
BY UsableIsShown DEF Filtering, Usable

LEMMA DropRepeat ==
  ASSUME NEW g \in Games, Filtering(g), pc[g] = "filter", cfg.mode = "multi", NEW n \in Index,
         IsNext(g, n), IsRepeat(g, frames[g][n]), ~IsBlank(frames[g][n])
  PROVE  /\ n \notin Wanted(g)
         /\ n \in Usable(g) /\ captured[g][n] = previous[g]
<1>1. /\ n \in Shown(g) /\ frames[g][n] = captured[g][n]
      /\ \A k \in Shown(g) : k < n <=> k \notin unread[g]
  BY BeforeNext
<1>2. n \in Usable(g) /\ captured[g][n] = previous[g] /\ previous[g] # NoFrame
  BY <1>1 DEF Usable, Shown, IsRepeat
<1>3. PICK m \in Usable(g) \ unread[g] : /\ captured[g][m] = previous[g]
                                         /\ \A u \in Usable(g) \ unread[g] : u <= m
  BY <1>2 DEF Filtering, Remembers, IsRepeat
<1>4. m < n
  BY <1>1, <1>3, UsableIsShown
<1>5. \A u \in Usable(g) : u <= m \/ u >= n
  <2> TAKE u \in Usable(g)
  <2>1. u \in Nat /\ n \in Nat
    BY OutputAssumption, UsableIsShown DEF Index
  <2>2. CASE u < n
    BY <1>1, <1>3, <2>2, UsableIsShown
  <2> QED BY <2>1, <2>2
<1>6. Repeats(g, n)
  BY <1>2, <1>3, <1>4, <1>5 DEF Repeats
<1> QED BY <1>2, <1>6 DEF Wanted, IsRepeat

LEMMA TakeWanted ==
  ASSUME NEW g \in Games, Filtering(g), pc[g] = "filter", cfg.mode = "multi", NEW n \in Index,
         IsNext(g, n), ~IsRepeat(g, frames[g][n]), ~IsBlank(frames[g][n])
  PROVE  n \in Wanted(g)
<1>1. /\ n \in Shown(g) /\ frames[g][n] = captured[g][n]
      /\ \A k \in Shown(g) : k < n <=> k \notin unread[g]
  BY BeforeNext
<1>2. n \in Usable(g)
  BY <1>1 DEF Usable, Shown
<1>3. ASSUME cfg.dedupe, Repeats(g, n)
      PROVE  FALSE
  <2>1. PICK m \in Usable(g) : /\ m < n
                               /\ captured[g][m] = captured[g][n]
                               /\ \A u \in Usable(g) : u <= m \/ u >= n
    BY <1>3 DEF Repeats
  <2>2. m \in Usable(g) \ unread[g]
    BY <1>1, <2>1, UsableIsShown
  <2>3. PICK k \in Usable(g) \ unread[g] : /\ captured[g][k] = previous[g]
                                           /\ \A u \in Usable(g) \ unread[g] : u <= k
    BY <1>3, <2>2 DEF Filtering, Remembers
  <2>4. k < n
    BY <1>1, <2>3, UsableIsShown
  <2>5. k \in Nat /\ m \in Nat /\ n \in Nat
    BY OutputAssumption, UsableIsShown DEF Index
  <2>6. k = m
    BY <2>1, <2>2, <2>3, <2>4, <2>5
  <2> QED BY <1>1, <1>3, <2>1, <2>3, <2>6 DEF IsRepeat
<1> QED BY <1>2, <1>3 DEF Wanted

(* Of a single screenshot, the first frame is wanted unless it is blank.   *)
LEMMA FirstWanted ==
  ASSUME StageTypeOK, NEW g \in Games, Filtering(g), pc[g] = "filter", cfg.mode = "single",
         NEW n \in Index, IsNext(g, n)
  PROVE  Wanted(g) = IF IsBlank(frames[g][n]) THEN {} ELSE {n}
<1>1. /\ n \in Shown(g) /\ frames[g][n] = captured[g][n]
      /\ \A k \in Shown(g) : k < n <=> k \notin unread[g]
  BY BeforeNext
<1>2. unread[g] = Shown(g)
  BY DEF Filtering, IsNext
<1>3. Index \subseteq Nat /\ \A i \in Index : 0..(i - 1) \subseteq Index
  BY OutputAssumption DEF Index
<1>4. \A m \in 0..(n - 1) : captured[g][m] = NoFrame
  BY <1>1, <1>2, <1>3 DEF Shown
<1>5. \A k \in Wanted(g) : k = n
  <2> SUFFICES ASSUME NEW k \in Wanted(g), k # n
               PROVE  FALSE
    OBVIOUS
  <2>1. k \in Shown(g) /\ k \in Index /\ \A m \in 0..(k - 1) : captured[g][m] = NoFrame
    BY UsableIsShown DEF Wanted
  <2>2. n \in 0..(k - 1)
    BY <1>1, <1>2, <1>3, <2>1
  <2> QED BY <1>1, <2>1, <2>2 DEF Shown
<1>6. n \in Usable(g) <=> ~IsBlank(frames[g][n])
  BY <1>1 DEF Usable, Shown
<1>7. n \in Wanted(g) <=> ~IsBlank(frames[g][n])
  BY <1>4, <1>6 DEF Wanted
<1> QED BY <1>5, <1>7

-----------------------------------------------------------------------------
(* The steps of the other games *)

LEMMA OtherGame ==
  ASSUME ScreenTypeOK, StageTypeOK, NEW g \in Games, NEW k \in Games \ {g},
         RunContainer(k) \/ PostProcess(k), GameInv(g)
  PROVE  GameInv(g)'
<1>1. /\ UNCHANGED <<cfg, verdict>>
      /\ pc'[g] = pc[g] /\ dir'[g] = dir[g]
      /\ frames'[g] = frames[g] /\ extra'[g] = extra[g] /\ staged'[g] = staged[g]
      /\ unread'[g] = unread[g] /\ previous'[g] = previous[g] /\ kept'[g] = kept[g]
      /\ captured'[g] = captured[g]
  <2> USE DEF ScreenTypeOK, StageTypeOK, Goto
  <2>2. CASE RunContainer(k)
    BY <2>2 DEF RunContainer
  <2>3. CASE ListFrames(k) \/ Undecodable(k) \/ KeepFirst(k) \/ Drop(k) \/ Take(k)
    BY <2>3 DEF ListFrames, Undecodable, KeepFirst, Drop, Take
  <2>4. CASE Skip(k) \/ Keep(k) \/ MoveAside(k) \/ Sweep(k) \/ Name(k) \/ Rendered(k)
    BY <2>4 DEF Skip, Keep, MoveAside, Sweep, Name, Rendered
  <2>5. CASE SkipFault(k) \/ GameFault(k) \/ Lose(k)
    BY <2>5 DEF SkipFault, GameFault, Lose
  <2> QED BY <2>2, <2>3, <2>4, <2>5 DEF PostProcess
<1>2. Usable(g)' = Usable(g) /\ Shown(g)' = Shown(g) /\ Wanted(g)' = Wanted(g)
  BY <1>1, SameWanted
<1>3. Chosen(g)' = Chosen(g) /\ Named(g)' = Named(g)
  BY <1>1 DEF Chosen, Named
<1>4. Ascends(g)' /\ Decoded(g)' /\ Before(g)'
  BY <1>1, SameDecoded DEF GameInv, Ascends, Before
<1>5. Remembers(g)' <=> Remembers(g)
  BY <1>1, <1>2 DEF Remembers
<1>6. Filtering(g)'
  BY <1>1, <1>2, <1>3, <1>5 DEF GameInv, Filtering
<1>7. Keeps(g)' /\ Skipped(g)' /\ Lost(g)'
  BY <1>1, <1>2, <1>3 DEF GameInv, Keeps, Skipped, Lost
<1>8. Moving(g)'
  BY <1>1 DEF GameInv, Moving
<1>9. Naming(g)'
  BY <1>1, <1>3 DEF GameInv, Naming
<1> QED BY <1>4, <1>6, <1>7, <1>8, <1>9 DEF GameInv

-----------------------------------------------------------------------------
(* Its own steps *)

LEMMA Capture ==
  ASSUME ScreenTypeOK, StageTypeOK, NEW g \in Games, GameInv(g), RunContainer(g)
  PROVE  ScreenTypeOK' /\ StageTypeOK' /\ GameInv(g)'
<1>1. PICK shot \in Captures[g] : /\ frames' = [frames EXCEPT ![g] = shot.frames]
                                  /\ captured' = [captured EXCEPT ![g] = shot.frames]
                                  /\ extra' = [extra EXCEPT ![g] = shot.extra]
  BY DEF RunContainer
<1>2. shot.frames \in Frames /\ shot.extra \in SUBSET Extra
  BY OutputAssumption
<1>3. /\ pc[g] = "run" /\ pc'[g] = "list" /\ dir'[g] /\ frames'[g] = captured'[g]
      /\ UNCHANGED <<cfg, staged, unread, previous, kept, verdict, faults>>
  BY <1>1 DEF RunContainer, Goto, StageTypeOK, ScreenTypeOK
<1>4. ScreenTypeOK' /\ StageTypeOK'
  BY <1>1, <1>2 DEF RunContainer, Goto, ScreenTypeOK, StageTypeOK
<1>5. kept[g] = <<>> /\ staged[g] = <<>> /\ previous[g] = NoFrame
  BY <1>3 DEF GameInv, Before
<1>6. Before(g)' /\ Filtering(g)' /\ Keeps(g)' /\ Moving(g)' /\ Naming(g)' /\ Skipped(g)' /\ Lost(g)'
  BY <1>3, <1>5 DEF Before, Filtering, Keeps, Moving, Naming, Skipped, Lost
<1>7. Ascends(g)' /\ Decoded(g)'
  BY <1>3, <1>5 DEF Ascends, Decoded, Chosen
<1> QED BY <1>4, <1>6, <1>7 DEF GameInv

LEMMA List ==
  ASSUME ScreenTypeOK, StageTypeOK, NEW g \in Games, GameInv(g), ListFrames(g)
  PROVE  ScreenTypeOK' /\ StageTypeOK' /\ GameInv(g)'
<1>1. /\ pc[g] = "list" /\ pc'[g] = "filter" /\ unread'[g] = Numbers(g)
      /\ UNCHANGED <<cfg, folder, previous, kept, captured, verdict, faults>>
  BY DEF ListFrames, Goto, StageTypeOK, ScreenTypeOK
<1>2. /\ kept[g] = <<>> /\ staged[g] = <<>> /\ previous[g] = NoFrame
      /\ dir[g] /\ frames[g] = captured[g]
  BY <1>1 DEF GameInv, Before
<1>3. ScreenTypeOK' /\ StageTypeOK'
  BY DEF ListFrames, Goto, ScreenTypeOK, StageTypeOK, Numbers
<1>4. Usable(g)' = Usable(g) /\ Shown(g)' = Shown(g) /\ Wanted(g)' = Wanted(g)
  BY <1>1, SameWanted
<1>5. unread'[g] = Shown(g) /\ Wanted(g) \subseteq Shown(g) /\ Usable(g) \subseteq Shown(g)
  BY <1>1, <1>2, UsableIsShown DEF Numbers, Shown
<1>6. Chosen(g)' = {}
  BY <1>1, <1>2 DEF Chosen
<1>7. Remembers(g)'
  BY <1>1, <1>2, <1>4, <1>5 DEF Remembers
<1>8. Filtering(g)'
  BY <1>1, <1>2, <1>4, <1>5, <1>6, <1>7 DEF Filtering
<1>9. Before(g)' /\ Keeps(g)' /\ Moving(g)' /\ Naming(g)' /\ Skipped(g)' /\ Lost(g)'
  BY <1>1 DEF Before, Keeps, Moving, Naming, Skipped, Lost
<1>10. Ascends(g)' /\ Decoded(g)'
  BY <1>1, <1>2, <1>6 DEF Ascends, Decoded
<1> QED BY <1>3, <1>8, <1>9, <1>10 DEF GameInv

LEMMA First ==
  ASSUME ScreenTypeOK, StageTypeOK, NEW g \in Games, GameInv(g), KeepFirst(g)
  PROVE  ScreenTypeOK' /\ StageTypeOK' /\ GameInv(g)'
<1>1. PICK n \in Index : /\ IsNext(g, n)
                         /\ cfg.removeSolid => frames[g][n] \notin Unreadable
                         /\ kept' = [kept EXCEPT ![g] =
                                      IF IsBlank(frames[g][n]) THEN <<>> ELSE <<n>>]
  BY DEF KeepFirst
<1>2. /\ pc[g] = "filter" /\ cfg.mode = "single" /\ unread'[g] = {}
      /\ kept'[g] = IF IsBlank(frames[g][n]) THEN <<>> ELSE <<n>>
      /\ UNCHANGED <<cfg, pc, folder, previous, captured, verdict, faults>>
  BY <1>1 DEF KeepFirst, ScreenTypeOK
<1>3. ScreenTypeOK' /\ StageTypeOK'
  BY <1>1 DEF KeepFirst, ScreenTypeOK, StageTypeOK
<1>4. Usable(g)' = Usable(g) /\ Shown(g)' = Shown(g) /\ Wanted(g)' = Wanted(g)
  BY <1>2, SameWanted
<1>5. Wanted(g) = IF IsBlank(frames[g][n]) THEN {} ELSE {n}
  BY <1>1, <1>2, FirstWanted DEF GameInv
<1>6. Chosen(g)' = Wanted(g)
  <2>1. CASE IsBlank(frames[g][n])
    BY <1>2, <1>5, <2>1 DEF Chosen
  <2>2. CASE ~IsBlank(frames[g][n])
    <3>1. Len(kept'[g]) = 1 /\ kept'[g][1] = n
      BY <1>2, <2>2
    <3>2. 1..1 = {1}
      OBVIOUS
    <3> QED BY <1>5, <2>2, <3>1, <3>2 DEF Chosen
  <2> QED BY <2>1, <2>2
<1>7. Filtering(g)'
  BY <1>2, <1>4, <1>6 DEF GameInv, Filtering
<1>8. Before(g)' /\ Keeps(g)' /\ Moving(g)' /\ Naming(g)' /\ Skipped(g)' /\ Lost(g)'
  BY <1>2 DEF Before, Keeps, Moving, Naming, Skipped, Lost
<1>9. Ascends(g)'
  <2>1. n \in Nat
    BY OutputAssumption DEF Index
  <2> QED BY <1>2, <2>1 DEF Ascends
<1>10. Decoded(g)'
  <2>1. n \in Shown(g) /\ frames[g][n] = captured[g][n]
    BY <1>1, <1>2, BeforeNext DEF GameInv
  <2>2. cfg.removeSolid => captured[g][n] \in Images
    BY <1>1, <2>1, ShownImage
  <2> QED BY <1>2, <1>5, <1>6, <2>2 DEF Decoded, MayBeTorn
<1> QED BY <1>3, <1>7, <1>8, <1>9, <1>10 DEF GameInv

LEMMA DropFrame ==
  ASSUME ScreenTypeOK, StageTypeOK, NEW g \in Games, GameInv(g), Drop(g)
  PROVE  ScreenTypeOK' /\ StageTypeOK' /\ GameInv(g)'
<1>1. PICK n \in Index : /\ IsNext(g, n)
                         /\ IsBlank(frames[g][n]) \/ IsRepeat(g, frames[g][n])
                         /\ unread' = [unread EXCEPT ![g] = @ \ {n}]
  BY DEF Drop
<1>2. /\ pc[g] = "filter" /\ cfg.mode = "multi" /\ unread'[g] = unread[g] \ {n}
      /\ UNCHANGED <<cfg, pc, folder, previous, kept, captured, verdict, faults>>
      /\ Filtering(g)
  BY <1>1 DEF Drop, ScreenTypeOK, GameInv
<1>3. ScreenTypeOK' /\ StageTypeOK'
  BY <1>1 DEF Drop, ScreenTypeOK, StageTypeOK
<1>4. Usable(g)' = Usable(g) /\ Shown(g)' = Shown(g) /\ Wanted(g)' = Wanted(g)
  BY <1>2, SameWanted
<1>5. n \notin Wanted(g) /\ Chosen(g)' = Chosen(g)
  BY <1>1, <1>2, DropBlank, DropRepeat DEF Chosen
<1>6. cfg.dedupe => Remembers(g)'
  <2>1. CASE IsBlank(frames[g][n])
    <3>1. Usable(g) \ (unread[g] \ {n}) = Usable(g) \ unread[g]
      BY <1>1, <1>2, <2>1, DropBlank
    <3> QED BY <1>2, <1>4, <3>1 DEF Filtering, Remembers
  <2>2. CASE ~IsBlank(frames[g][n])
    <3>1. n \in Usable(g) /\ captured[g][n] = previous[g]
      BY <1>1, <1>2, <2>2, DropRepeat
    <3>2. \A u \in Usable(g) \ unread'[g] : u <= n
      <4> TAKE u \in Usable(g) \ unread'[g]
      <4>1. CASE u = n
        BY <4>1, OutputAssumption DEF Index
      <4>2. CASE u # n
        <5>1. u < n
          BY <1>1, <1>2, <4>2, BeforeNext, UsableIsShown
        <5> QED BY <5>1, OutputAssumption, UsableIsShown DEF Index
      <4> QED BY <4>1, <4>2
    <3> QED BY <1>2, <1>4, <3>1, <3>2 DEF Remembers
  <2> QED BY <2>1, <2>2
<1>7. Filtering(g)'
  <2>1. \A k \in Shown(g) \ unread'[g], m \in unread'[g] : k < m
    <3> TAKE k \in Shown(g) \ unread'[g], m \in unread'[g]
    <3>1. n < m
      BY <1>1, <1>2, OutputAssumption, UsableIsShown DEF IsNext, Index, Filtering
    <3> QED BY <1>2, <3>1 DEF Filtering
  <2> QED BY <1>2, <1>4, <1>5, <1>6, <2>1 DEF Filtering
<1>8. Before(g)' /\ Keeps(g)' /\ Moving(g)' /\ Naming(g)' /\ Skipped(g)' /\ Lost(g)' /\ Ascends(g)' /\ Decoded(g)'
  BY <1>2, SameDecoded DEF GameInv, Before, Keeps, Moving, Naming, Skipped, Lost, Ascends
<1> QED BY <1>3, <1>7, <1>8 DEF GameInv

(* A frame that is taken comes after those that were.                      *)
LEMMA Appended ==
  ASSUME ScreenTypeOK, NEW g \in Games, NEW n \in Index,
         Ascends(g), cfg' = cfg, cfg.mode # "single",
         \A k \in Chosen(g) : k < n,
         kept'[g] = Append(kept[g], n)
  PROVE  Ascends(g)' /\ Chosen(g)' = Chosen(g) \cup {n}
<1>1. Index \subseteq Nat
  BY OutputAssumption DEF Index
<1>2. /\ Len(kept[g]) \in Nat /\ Len(kept'[g]) = Len(kept[g]) + 1
      /\ \A i \in 1..Len(kept[g]) : kept'[g][i] = kept[g][i] /\ kept[g][i] \in Index
      /\ kept'[g][Len(kept[g]) + 1] = n
  BY DEF ScreenTypeOK
<1>3. \A i : i \in 1..Len(kept'[g]) <=> i \in 1..Len(kept[g]) \/ i = Len(kept[g]) + 1
  BY <1>2
<1>4. \A i \in 1..Len(kept[g]) : kept[g][i] < n
  BY DEF Chosen
<1>5. Len(kept[g]) <= n
  <2>1. CASE Len(kept[g]) = 0
    BY <1>1, <2>1
  <2>2. CASE Len(kept[g]) # 0
    <3>1. Len(kept[g]) \in 1..Len(kept[g])
      BY <1>2, <2>2
    <3>2. kept[g][Len(kept[g])] < n /\ Len(kept[g]) - 1 <= kept[g][Len(kept[g])]
      BY <1>4, <3>1 DEF Ascends
    <3> QED BY <1>1, <1>2, <3>1, <3>2
  <2> QED BY <2>1, <2>2
<1>6. Chosen(g)' = Chosen(g) \cup {n}
  BY <1>2, <1>3 DEF Chosen
<1>7. \A i \in 1..Len(kept'[g]) : i - 1 <= kept'[g][i]
  BY <1>1, <1>2, <1>3, <1>5 DEF Ascends
<1>8. \A i, j \in 1..Len(kept'[g]) : i < j => kept'[g][i] < kept'[g][j]
  BY <1>2, <1>3, <1>4 DEF Ascends
<1> QED BY <1>6, <1>7, <1>8 DEF Ascends

LEMMA TakeFrame ==
  ASSUME ScreenTypeOK, StageTypeOK, NEW g \in Games, GameInv(g), Take(g)
  PROVE  ScreenTypeOK' /\ StageTypeOK' /\ GameInv(g)'
<1>1. PICK n \in Index :
        /\ IsNext(g, n) /\ frames[g][n] \notin Unreadable
        /\ ~IsBlank(frames[g][n]) /\ ~IsRepeat(g, frames[g][n])
        /\ unread' = [unread EXCEPT ![g] = @ \ {n}]
        /\ previous' = [previous EXCEPT ![g] = IF cfg.dedupe THEN frames[g][n] ELSE @]
        /\ kept' = [kept EXCEPT ![g] = Append(@, n)]
  BY DEF Take
<1>2. /\ pc[g] = "filter" /\ cfg.mode = "multi"
      /\ unread'[g] = unread[g] \ {n} /\ kept'[g] = Append(kept[g], n)
      /\ cfg.dedupe => previous'[g] = frames[g][n]
      /\ UNCHANGED <<cfg, pc, folder, captured, verdict, faults>>
      /\ Filtering(g) /\ Ascends(g)
  BY <1>1 DEF Take, ScreenTypeOK, GameInv
<1>3. ScreenTypeOK' /\ StageTypeOK'
  <2>1. frames[g][n] \in File \cup {NoFrame}
    BY DEF ScreenTypeOK, Frames
  <2> QED BY <1>1, <2>1 DEF Take, ScreenTypeOK, StageTypeOK
<1>4. Usable(g)' = Usable(g) /\ Shown(g)' = Shown(g) /\ Wanted(g)' = Wanted(g)
  BY <1>2, SameWanted
<1>5. n \in Wanted(g) /\ n \in Usable(g) /\ frames[g][n] = captured[g][n]
  BY <1>1, <1>2, TakeWanted, BeforeNext, UsableIsShown
<1>6. \A k \in Shown(g) \ unread[g] : k < n
  BY <1>1, <1>2 DEF IsNext, Filtering
<1>7. Ascends(g)' /\ Chosen(g)' = Chosen(g) \cup {n}
  <2>1. \A k \in Chosen(g) : k < n
    BY <1>2, <1>6, UsableIsShown DEF Filtering
  <2> QED BY <1>2, <2>1, Appended
<1>8. cfg.dedupe => Remembers(g)'
  <2>1. \A u \in Usable(g) \ unread'[g] : u <= n
    <3> TAKE u \in Usable(g) \ unread'[g]
    <3>1. CASE u = n
      BY <3>1, OutputAssumption DEF Index
    <3>2. CASE u # n
      BY <1>2, <1>6, <3>2, OutputAssumption, UsableIsShown DEF Index
    <3> QED BY <3>1, <3>2
  <2> QED BY <1>2, <1>4, <1>5, <2>1 DEF Remembers
<1>9. Filtering(g)'
  <2>1. \A k \in Shown(g) \ unread'[g], m \in unread'[g] : k < m
    <3> TAKE k \in Shown(g) \ unread'[g], m \in unread'[g]
    <3>1. n < m
      BY <1>1, <1>2, OutputAssumption, UsableIsShown DEF IsNext, Index, Filtering
    <3> QED BY <1>2, <3>1 DEF Filtering
  <2> QED BY <1>1, <1>2, <1>4, <1>5, <1>7, <1>8, <2>1 DEF Filtering, IsNext
<1>10. Before(g)' /\ Keeps(g)' /\ Moving(g)' /\ Naming(g)' /\ Skipped(g)' /\ Lost(g)'
  BY <1>2 DEF Before, Keeps, Moving, Naming, Skipped, Lost
<1>11. Decoded(g)'
  <2>1. captured[g][n] \in Images
    BY <1>1, <1>2, <1>5, BeforeNext, ShownImage
  <2> QED BY <1>2, <1>7, <2>1 DEF GameInv, Decoded, MayBeTorn
<1> QED BY <1>3, <1>7, <1>9, <1>10, <1>11 DEF GameInv

LEMMA SkipGame ==
  ASSUME ScreenTypeOK, StageTypeOK, NEW g \in Games, GameInv(g), Skip(g) \/ SkipFault(g)
  PROVE  ScreenTypeOK' /\ StageTypeOK' /\ GameInv(g)'
<1>1. /\ pc[g] = "filter" /\ pc'[g] = "skipped" /\ unread[g] = {} /\ kept[g] = <<>>
      /\ UNCHANGED <<cfg, staged, unread, previous, kept, captured, verdict>>
  BY DEF Skip, SkipFault, Goto, StageTypeOK
<1>2. faults \in Nat /\ faults' \in 0..MaxFaults
  BY OutputAssumption DEF Skip, SkipFault, Fault, StageTypeOK
<1>3. Empty \in Frames
  BY DEF Empty, Frames
<1>4. ScreenTypeOK' /\ StageTypeOK'
  <2>1. CASE Skip(g)
    BY <1>3, <2>1 DEF Skip, Goto, ScreenTypeOK, StageTypeOK
  <2>2. CASE SkipFault(g)
    BY <1>2, <2>2 DEF SkipFault, Goto, ScreenTypeOK, StageTypeOK
  <2> QED BY <2>1, <2>2
<1>5. ~dir'[g] => frames'[g] = Empty
  <2>1. CASE Skip(g)
    BY <2>1 DEF Skip, ScreenTypeOK, StageTypeOK
  <2>2. CASE SkipFault(g)
    BY <1>1, <1>2, <2>2 DEF SkipFault, Fault, GameInv, Filtering
  <2> QED BY <2>1, <2>2
<1>6. Wanted(g)' = {}
  <2>1. Chosen(g) = {}
    BY <1>1 DEF Chosen
  <2> QED BY <1>1, <2>1, SameWanted DEF GameInv, Filtering
<1>7. Before(g)' /\ Filtering(g)' /\ Keeps(g)' /\ Moving(g)' /\ Naming(g)'
  BY <1>1 DEF Before, Filtering, Keeps, Moving, Naming
<1>8. Skipped(g)' /\ Lost(g)' /\ Ascends(g)' /\ Decoded(g)'
  BY <1>1, <1>5, <1>6, SameDecoded DEF GameInv, Skipped, Lost, Ascends
<1> QED BY <1>4, <1>7, <1>8 DEF GameInv

LEMMA KeepGame ==
  ASSUME ScreenTypeOK, StageTypeOK, NEW g \in Games, GameInv(g), Keep(g)
  PROVE  ScreenTypeOK' /\ StageTypeOK' /\ GameInv(g)'
<1>1. /\ pc[g] = "filter" /\ pc'[g] = "move" /\ unread[g] = {} /\ kept[g] # <<>>
      /\ UNCHANGED <<cfg, folder, unread, previous, kept, captured, verdict, faults>>
      /\ dir[g] /\ staged[g] = <<>> /\ frames[g] = captured[g]
      /\ Chosen(g) = Wanted(g)
  BY DEF Keep, Goto, StageTypeOK, GameInv, Filtering
<1>2. ScreenTypeOK' /\ StageTypeOK'
  BY DEF Keep, Goto, ScreenTypeOK, StageTypeOK
<1>3. Wanted(g)' = Wanted(g) /\ Chosen(g)' = Chosen(g)
  BY <1>1, SameWanted DEF Chosen
<1>4. Keeps(g)'
  BY <1>1, <1>3 DEF Keeps
<1>5. Moving(g)'
  <2>1. Len(kept[g]) \in Nat
    BY DEF ScreenTypeOK
  <2> QED BY <1>1, <2>1 DEF Moving
<1>6. Before(g)' /\ Filtering(g)' /\ Naming(g)' /\ Skipped(g)' /\ Lost(g)' /\ Ascends(g)' /\ Decoded(g)'
  BY <1>1, SameDecoded DEF GameInv, Before, Filtering, Naming, Skipped, Lost, Ascends
<1> QED BY <1>2, <1>4, <1>5, <1>6 DEF GameInv

(* What is chosen is a file.                                               *)
LEMMA KeptFrames ==
  ASSUME ScreenTypeOK, NEW g \in Games, Keeps(g), pc[g] \in {"move", "name", "rendered"},
         NEW i \in 1..Len(kept[g])
  PROVE  /\ kept[g][i] \in Index
         /\ captured[g][kept[g][i]] \in File
<1>1. kept[g][i] \in Wanted(g)
  BY DEF Keeps, Chosen
<1> QED BY <1>1, UsableIsShown DEF ScreenTypeOK, Frames, Shown

LEMMA MoveGame ==
  ASSUME ScreenTypeOK, StageTypeOK, NEW g \in Games, GameInv(g), MoveAside(g)
  PROVE  ScreenTypeOK' /\ StageTypeOK' /\ GameInv(g)'
<1> DEFINE s == Len(staged[g]) + 1
           n == kept[g][s]
<1>1. /\ pc[g] = "move" /\ Len(staged[g]) < Len(kept[g])
      /\ staged' = [staged EXCEPT ![g] = Append(@, frames[g][n])]
      /\ frames' = [frames EXCEPT ![g][n] = NoFrame]
      /\ UNCHANGED <<cfg, pc, dir, extra, unread, previous, kept, captured, verdict, faults>>
  BY DEF MoveAside
<1>2. /\ Len(staged[g]) \in Nat /\ Len(kept[g]) \in Nat /\ s \in 1..Len(kept[g])
  BY <1>1 DEF ScreenTypeOK
<1>3. n \in Index /\ captured[g][n] \in File /\ frames[g][n] = captured[g][n]
  <2>1. n \in Index /\ captured[g][n] \in File
    BY <1>1, <1>2, KeptFrames DEF GameInv
  <2> QED BY <1>1, <1>2, <2>1 DEF GameInv, Moving
<1>4. /\ staged'[g] = Append(staged[g], captured[g][n])
      /\ frames'[g] = [frames[g] EXCEPT ![n] = NoFrame]
  BY <1>1, <1>3 DEF ScreenTypeOK
<1>5. frames'[g] \in Frames /\ staged'[g] \in Seq(File)
  BY <1>3, <1>4 DEF ScreenTypeOK, Frames
<1>6. ScreenTypeOK' /\ StageTypeOK'
  BY <1>1, <1>5 DEF ScreenTypeOK, StageTypeOK
<1>7. /\ Len(staged'[g]) = s /\ staged'[g][s] = captured[g][n]
      /\ \A i \in 1..Len(staged[g]) : staged'[g][i] = staged[g][i]
  BY <1>3, <1>4 DEF ScreenTypeOK
<1>8. Moving(g)'
  <2>1. \A i \in 1..s : staged'[g][i] = captured[g][kept[g][i]]
    <3> TAKE i \in 1..s
    <3>1. CASE i = s
      BY <1>7, <3>1
    <3>2. CASE i # s
      <4>1. i \in 1..Len(staged[g])
        BY <1>2, <3>2
      <4> QED BY <1>1, <1>7, <4>1 DEF GameInv, Moving
    <3> QED BY <3>1, <3>2
  <2>2. \A i \in 1..Len(kept[g]) : i > s => frames'[g][kept[g][i]] = captured[g][kept[g][i]]
    <3> SUFFICES ASSUME NEW i \in 1..Len(kept[g]), i > s
                 PROVE  frames'[g][kept[g][i]] = captured[g][kept[g][i]]
      OBVIOUS
    <3>1. n < kept[g][i] /\ kept[g][i] \in Index
      BY <1>2 DEF GameInv, Ascends, ScreenTypeOK
    <3>2. kept[g][i] # n
      BY <1>3, <3>1, OutputAssumption DEF Index
    <3>3. frames[g][kept[g][i]] = captured[g][kept[g][i]]
      BY <1>1, <1>2 DEF GameInv, Moving
    <3> QED BY <1>4, <3>1, <3>2, <3>3 DEF ScreenTypeOK, Frames
  <2> QED BY <1>1, <1>2, <1>7, <2>1, <2>2 DEF Moving
<1>9. Keeps(g)'
  BY <1>1, SameWanted DEF GameInv, Keeps, Chosen
<1>10. Before(g)' /\ Filtering(g)' /\ Naming(g)' /\ Skipped(g)' /\ Lost(g)' /\ Ascends(g)' /\ Decoded(g)'
  BY <1>1, SameDecoded DEF GameInv, Before, Filtering, Naming, Skipped, Lost, Ascends
<1> QED BY <1>6, <1>8, <1>9, <1>10 DEF GameInv

LEMMA SweepGame ==
  ASSUME ScreenTypeOK, StageTypeOK, NEW g \in Games, GameInv(g), Sweep(g)
  PROVE  ScreenTypeOK' /\ StageTypeOK' /\ GameInv(g)'
<1>1. /\ pc[g] = "move" /\ pc'[g] = "name" /\ Len(staged[g]) = Len(kept[g])
      /\ frames' = [frames EXCEPT ![g] = Empty] /\ frames'[g] = Empty
      /\ "png" \notin extra'[g]
      /\ UNCHANGED <<cfg, dir, staged, unread, previous, kept, captured, verdict, faults>>
  BY DEF Sweep, Goto, ScreenTypeOK, StageTypeOK
<1>2. ScreenTypeOK' /\ StageTypeOK'
  <2>1. Empty \in Frames
    BY DEF Empty, Frames
  <2> QED BY <2>1 DEF Sweep, Goto, ScreenTypeOK, StageTypeOK
<1>3. Len(kept[g]) \in Nat
  BY DEF ScreenTypeOK
<1>4. Naming(g)'
  <2>1. Named(g)' = 0
    BY <1>1, <1>3 DEF Named
  <2>2. \A n \in Index : frames'[g][n] = NoFrame /\ ~(n < 0)
    BY <1>1, OutputAssumption DEF Empty, Index
  <2>3. \A i \in 1..Len(staged'[g]) : /\ staged'[g][i] = captured'[g][kept'[g][i]]
                                      /\ 0 + i = i
    BY <1>1 DEF GameInv, Moving
  <2> QED BY <1>1, <1>3, <2>1, <2>2, <2>3 DEF Naming
<1>5. Keeps(g)'
  BY <1>1, SameWanted DEF GameInv, Keeps, Chosen
<1>6. Before(g)' /\ Filtering(g)' /\ Moving(g)' /\ Skipped(g)' /\ Lost(g)' /\ Ascends(g)' /\ Decoded(g)'
  BY <1>1, SameDecoded DEF GameInv, Before, Filtering, Moving, Skipped, Lost, Ascends
<1> QED BY <1>2, <1>4, <1>5, <1>6 DEF GameInv

(* The new numbers exist: there are no more kept frames than indices.      *)
LEMMA NumbersExist ==
  ASSUME ScreenTypeOK, NEW g \in Games, Ascends(g), NEW n \in Nat, n < Len(kept[g])
  PROVE  n \in Index
<1>1. Len(kept[g]) \in Nat /\ \A i \in 1..Len(kept[g]) : kept[g][i] \in Index
  BY DEF ScreenTypeOK
<1>2. n + 1 \in 1..Len(kept[g])
  BY <1>1
<1>3. n <= kept[g][n + 1]
  BY <1>2 DEF Ascends
<1> QED BY <1>1, <1>2, <1>3, OutputAssumption DEF Index

LEMMA NameGame ==
  ASSUME ScreenTypeOK, StageTypeOK, NEW g \in Games, GameInv(g), Name(g)
  PROVE  ScreenTypeOK' /\ StageTypeOK' /\ GameInv(g)'
<1> DEFINE n == Len(kept[g]) - Len(staged[g])
<1>1. /\ pc[g] = "name" /\ staged[g] # <<>>
      /\ frames' = [frames EXCEPT ![g][n] = Head(staged[g])]
      /\ staged' = [staged EXCEPT ![g] = Tail(@)]
      /\ UNCHANGED <<cfg, pc, dir, extra, unread, previous, kept, captured, verdict, faults>>
      /\ Naming(g)
  BY DEF Name, GameInv
<1>2. /\ Len(staged[g]) \in Nat \ {0} /\ Len(kept[g]) \in Nat
      /\ n \in Nat /\ n < Len(kept[g]) /\ n + 1 \in 1..Len(kept[g])
  BY <1>1 DEF ScreenTypeOK, Naming
<1>3. n \in Index
  BY <1>2, NumbersExist DEF GameInv
<1>4. /\ Head(staged[g]) = captured[g][kept[g][n + 1]]
      /\ Head(staged[g]) \in File
  <2>1. 1 \in 1..Len(staged[g]) /\ Head(staged[g]) = staged[g][1]
    BY <1>2 DEF ScreenTypeOK
  <2>2. staged[g][1] = captured[g][kept[g][n + 1]]
    BY <1>1, <2>1 DEF Naming, Named
  <2> QED BY <1>1, <1>2, <2>1, <2>2, KeptFrames DEF GameInv
<1>5. /\ frames'[g] = [frames[g] EXCEPT ![n] = captured[g][kept[g][n + 1]]]
      /\ staged'[g] = Tail(staged[g])
      /\ Len(staged'[g]) = Len(staged[g]) - 1
      /\ \A i \in 1..Len(staged'[g]) : staged'[g][i] = staged[g][i + 1]
  <2>1. frames'[g] = [frames[g] EXCEPT ![n] = captured[g][kept[g][n + 1]]]
    <3> HIDE DEF n
    <3> QED BY <1>1, <1>4 DEF ScreenTypeOK
  <2>2. staged'[g] = Tail(staged[g]) /\ staged[g] \in Seq(File) /\ staged[g] # <<>>
    BY <1>1 DEF ScreenTypeOK
  <2>3. /\ Len(staged'[g]) = Len(staged[g]) - 1
        /\ \A i \in 1..Len(staged'[g]) : staged'[g][i] = staged[g][i + 1]
    BY <2>2
  <2> QED BY <2>1, <2>2, <2>3
<1>6. frames'[g] \in Frames /\ staged'[g] \in Seq(File)
  BY <1>2, <1>3, <1>4, <1>5 DEF ScreenTypeOK, Frames
<1>7. ScreenTypeOK' /\ StageTypeOK'
  BY <1>1, <1>6 DEF ScreenTypeOK, StageTypeOK
<1>8. Named(g)' = n + 1
  <2>1. Named(g)' = Len(kept[g]) - (Len(staged[g]) - 1)
    BY <1>1, <1>5 DEF Named
  <2> QED BY <1>2, <2>1
<1>9. \A i \in 1..Len(staged'[g]) : staged'[g][i] = captured'[g][kept'[g][(n + 1) + i]]
  <2> TAKE i \in 1..Len(staged'[g])
  <2>1. i + 1 \in 1..Len(staged[g]) /\ (n + 1) + i = n + (i + 1)
    <3>1. i \in 1..(Len(staged[g]) - 1)
      BY <1>5
    <3> HIDE DEF n
    <3> QED BY <1>2, <3>1
  <2>2. staged[g][i + 1] = captured[g][kept[g][n + (i + 1)]]
    BY <1>1, <2>1 DEF Naming, Named
  <2> QED BY <1>1, <1>5, <2>1, <2>2
<1>10. \A k \in Index : frames'[g][k] = IF k < n + 1 THEN captured'[g][kept'[g][k + 1]]
                                                     ELSE NoFrame
  <2> TAKE k \in Index
  <2>1. frames[g][k] = IF k < n THEN captured[g][kept[g][k + 1]] ELSE NoFrame
    BY <1>1 DEF Naming, Named
  <2>2. CASE k = n
    BY <1>1, <1>2, <1>3, <1>5, <2>2 DEF ScreenTypeOK, Frames
  <2>3. CASE k # n
    <3>1. k < n + 1 <=> k < n
      <4> HIDE DEF n
      <4> QED BY <1>2, <2>3, OutputAssumption DEF Index
    <3> QED BY <1>1, <1>5, <2>1, <2>3, <3>1 DEF ScreenTypeOK, Frames
  <2> QED BY <2>2, <2>3
<1>11. Naming(g)'
  <2>1. Len(staged'[g]) <= Len(kept'[g])
    BY <1>1, <1>2, <1>5
  <2>2. pc'[g] = "name" /\ "png" \notin extra'[g]
    BY <1>1 DEF Naming
  <2> HIDE DEF n
  <2> QED BY <1>8, <1>9, <1>10, <2>1, <2>2 DEF Naming
<1>12. Keeps(g)'
  BY <1>1, SameWanted DEF GameInv, Keeps, Chosen
<1>13. Before(g)' /\ Filtering(g)' /\ Moving(g)' /\ Skipped(g)' /\ Lost(g)' /\ Ascends(g)' /\ Decoded(g)'
  BY <1>1, SameDecoded DEF GameInv, Before, Filtering, Moving, Skipped, Lost, Ascends
<1> QED BY <1>7, <1>11, <1>12, <1>13 DEF GameInv

LEMMA RenderedGame ==
  ASSUME ScreenTypeOK, StageTypeOK, NEW g \in Games, GameInv(g), Rendered(g)
  PROVE  ScreenTypeOK' /\ StageTypeOK' /\ GameInv(g)'
<1>1. /\ pc[g] = "name" /\ pc'[g] = "rendered" /\ staged[g] = <<>>
      /\ UNCHANGED <<cfg, folder, unread, previous, kept, captured, verdict, faults>>
  BY DEF Rendered, Goto, StageTypeOK
<1>2. ScreenTypeOK' /\ StageTypeOK'
  BY DEF Rendered, Goto, ScreenTypeOK, StageTypeOK
<1>3. Named(g)' = Named(g)
  BY <1>1 DEF Named
<1>4. Naming(g)'
  BY <1>1, <1>3 DEF GameInv, Naming
<1>5. Keeps(g)'
  BY <1>1, SameWanted DEF GameInv, Keeps, Chosen
<1>6. Before(g)' /\ Filtering(g)' /\ Moving(g)' /\ Skipped(g)' /\ Lost(g)' /\ Ascends(g)' /\ Decoded(g)'
  BY <1>1, SameDecoded DEF GameInv, Before, Filtering, Moving, Skipped, Lost, Ascends
<1> QED BY <1>2, <1>4, <1>5, <1>6 DEF GameInv

LEMMA FailGame ==
  ASSUME ScreenTypeOK, StageTypeOK, NEW g \in Games, GameInv(g), Undecodable(g) \/ GameFault(g)
  PROVE  ScreenTypeOK' /\ StageTypeOK' /\ GameInv(g)'
<1>1. /\ pc'[g] = "failed"
      /\ UNCHANGED <<cfg, folder, unread, previous, kept, captured, verdict>>
      /\ faults' \in 0..MaxFaults
  BY OutputAssumption DEF Undecodable, GameFault, Fault, Goto, StageTypeOK
<1>2. ScreenTypeOK' /\ StageTypeOK'
  BY <1>1 DEF Undecodable, GameFault, Goto, ScreenTypeOK, StageTypeOK
<1>3. /\ Before(g)' /\ Filtering(g)' /\ Keeps(g)' /\ Moving(g)' /\ Naming(g)' /\ Skipped(g)' /\ Lost(g)'
      /\ Ascends(g)' /\ Decoded(g)'
  BY <1>1, SameDecoded DEF GameInv, Before, Filtering, Keeps, Moving, Naming, Skipped, Lost, Ascends
<1> QED BY <1>2, <1>3 DEF GameInv

LEMMA LoseGame ==
  ASSUME ScreenTypeOK, StageTypeOK, NEW g \in Games, GameInv(g), Lose(g)
  PROVE  ScreenTypeOK' /\ StageTypeOK' /\ GameInv(g)'
<1>1. /\ pc[g] \in {"run", "list", "filter"} /\ pc'[g] = "lost"
      /\ UNCHANGED <<cfg, folder, unread, previous, kept, captured, verdict, faults>>
  BY DEF Lose, Goto, StageTypeOK
<1>2. ScreenTypeOK' /\ StageTypeOK'
  BY <1>1 DEF Lose, Goto, ScreenTypeOK, StageTypeOK
<1>3. Lost(g)'
  BY <1>1 DEF GameInv, Before, Filtering, Lost
<1>4. /\ Before(g)' /\ Filtering(g)' /\ Keeps(g)' /\ Moving(g)' /\ Naming(g)' /\ Skipped(g)'
      /\ Ascends(g)' /\ Decoded(g)'
  BY <1>1, SameDecoded
  DEF GameInv, Before, Filtering, Keeps, Moving, Naming, Skipped, Ascends
<1> QED BY <1>2, <1>3, <1>4 DEF GameInv

-----------------------------------------------------------------------------
(* OInv is inductive *)

LEMMA InitInv == Init => OInv
<1> SUFFICES ASSUME Init PROVE OInv
  OBVIOUS
<1>1. Empty \in Frames
  BY DEF Empty, Frames
<1>2. ScreenTypeOK /\ StageTypeOK
  BY <1>1, OutputAssumption DEF Init, ScreenTypeOK, StageTypeOK
<1>3. ASSUME NEW g \in Games
      PROVE  GameInv(g)
  BY DEF Init, GameInv, Ascends, Before, Filtering, Keeps, Moving, Naming, Skipped, Lost,
         Decoded, Chosen
<1>4. Concluded
  BY DEF Init, Concluded
<1> QED BY <1>2, <1>3, <1>4, TypeOKParts DEF OInv, GameInv

LEMMA OwnGame ==
  ASSUME ScreenTypeOK, StageTypeOK, NEW g \in Games, GameInv(g), RunContainer(g) \/ PostProcess(g)
  PROVE  ScreenTypeOK' /\ StageTypeOK' /\ GameInv(g)' /\ verdict' = verdict
<1>1. verdict' = verdict
  BY DEF RunContainer, PostProcess, ListFrames, Undecodable, KeepFirst, Drop, Take, Skip,
         SkipFault, Keep, MoveAside, Sweep, Name, Rendered, GameFault, Lose
<1> QED BY <1>1, Capture, List, First, DropFrame, TakeFrame, SkipGame, KeepGame, MoveGame,
           SweepGame, NameGame, RenderedGame, FailGame, LoseGame DEF PostProcess

LEMMA NextInv == OInv /\ [Next]_vars => OInv'
<1> SUFFICES ASSUME OInv, [Next]_vars
             PROVE  OInv'
  OBVIOUS
<1> ScreenTypeOK /\ StageTypeOK
  BY TypeOKParts DEF OInv
<1>1. ASSUME verdict = "none", NEW k \in Games, RunContainer(k) \/ PostProcess(k)
      PROVE  OInv'
  <2>1. ScreenTypeOK' /\ StageTypeOK' /\ verdict' = verdict
    BY <1>1, OwnGame DEF OInv
  <2>2. \A g \in Games : GameInv(g)'
    BY <1>1, OwnGame, OtherGame DEF OInv
  <2>3. \A g \in Games : Keeps(g)'
    BY <2>2 DEF GameInv
  <2>4. TypeOK'
    BY <2>1, <2>3 DEF TypeOK, ScreenTypeOK, StageTypeOK, Keeps
  <2>5. Concluded'
    BY <1>1, <2>1 DEF Concluded
  <2> QED BY <2>2, <2>4, <2>5 DEF OInv
<1>2. ASSUME UNCHANGED <<cfg, pc, folder, unread, previous, kept, captured, faults>>
      PROVE  /\ \A g \in Games : GameInv(g)'
             /\ (AllReported' <=> AllReported) /\ (IsValid' <=> IsValid)
  <2>1. ASSUME NEW g \in Games
        PROVE  GameInv(g)'
    <3>1. GameInv(g)
      BY DEF OInv
    <3>2. Usable(g)' = Usable(g) /\ Shown(g)' = Shown(g) /\ Wanted(g)' = Wanted(g)
      BY <1>2, SameWanted
    <3>3. Chosen(g)' = Chosen(g) /\ Named(g)' = Named(g) /\ (Remembers(g)' <=> Remembers(g))
      BY <1>2, <3>2 DEF Chosen, Named, Remembers
    <3> QED BY <1>2, <3>1, <3>2, <3>3, SameDecoded
            DEF GameInv, Ascends, Before, Filtering, Keeps, Moving, Naming, Skipped, Lost
  <2>2. \A g \in Games : Numbers(g)' = Numbers(g)
    BY <1>2 DEF Numbers
  <2>3. RenderedGames' = RenderedGames
    BY <1>2 DEF RenderedGames
  <2>4. \A g \in Games : GameIsValid(g)' <=> GameIsValid(g)
    BY <1>2, <2>2 DEF GameIsValid
  <2>5. IsValid' <=> IsValid
    BY <1>2, <2>3, <2>4 DEF IsValid, RenderedGames
  <2> QED BY <1>2, <2>1, <2>5 DEF AllReported
<1>3. CASE BatchFailed \/ NothingUsable \/ Validate
  <2>1. UNCHANGED <<cfg, pc, folder, unread, previous, kept, captured, faults>>
    BY <1>3 DEF BatchFailed, NothingUsable, Validate, Conclude
  <2>2. verdict' \in {"failed", "nothing"} \/ (AllReported /\ verdict' = IF IsValid THEN "valid" ELSE "invalid")
    BY <1>3 DEF BatchFailed, NothingUsable, Validate, Conclude
  <2>3. TypeOK'
    BY <2>1, <2>2 DEF OInv, TypeOK
  <2>4. Concluded'
    BY <1>2, <2>1, <2>2 DEF Concluded
  <2> QED BY <1>2, <2>1, <2>3, <2>4 DEF OInv
<1>4. CASE UNCHANGED vars
  <2>1. UNCHANGED <<cfg, pc, folder, unread, previous, kept, captured, faults, verdict>>
    BY <1>4 DEF vars
  <2>2. TypeOK'
    BY <2>1 DEF OInv, TypeOK
  <2>3. Concluded'
    BY <1>2, <2>1 DEF OInv, Concluded
  <2> QED BY <1>2, <2>1, <2>2, <2>3 DEF OInv
<1> QED BY <1>1, <1>3, <1>4 DEF Next, Finished

LEMMA InvariantHolds == Spec => []OInv
BY InitInv, NextInv, PTL DEF Spec

(* Every variable has its type, and reindex is never called with nothing   *)
(* to keep.                                                                *)
THEOREM TypeOKCorrect == Spec => []TypeOK
<1>1. OInv => TypeOK
  BY DEF OInv
<1> QED BY <1>1, InvariantHolds, PTL
-----------------------------------------------------------------------------
(* Counting what was kept *)

LEMMA Ascending ==
  ASSUME ScreenTypeOK, NEW g \in Games, Ascends(g), NEW k \in 0..Len(kept[g])
  PROVE  Cardinality({kept[g][i] : i \in 1..k}) = k
<1> DEFINE S == {kept[g][i] : i \in 1..k}
           f == [i \in 1..k |-> kept[g][i]]
<1>1. Len(kept[g]) \in Nat /\ k \in Nat /\ \A i \in 1..k : i \in 1..Len(kept[g])
  BY DEF ScreenTypeOK
<1>2. \A i \in 1..k : kept[g][i] \in Nat
  BY <1>1, OutputAssumption DEF ScreenTypeOK, Index
<1>3. ASSUME NEW i \in 1..k, NEW j \in 1..k, kept[g][i] = kept[g][j]
      PROVE  i = j
  <2>1. i < j => kept[g][i] < kept[g][j]
    BY <1>1 DEF Ascends
  <2>2. j < i => kept[g][j] < kept[g][i]
    BY <1>1 DEF Ascends
  <2> QED BY <1>1, <1>2, <1>3, <2>1, <2>2
<1>4. f \in Bijection(1..k, S)
  <2>1. f \in [1..k -> S]
    OBVIOUS
  <2>2. f \in Injection(1..k, S)
    BY <1>3, <2>1 DEF Injection, IsInjective
  <2>3. f \in Surjection(1..k, S)
    BY <2>1 DEF Surjection
  <2> QED BY <2>2, <2>3 DEF Bijection
<1>5. ExistsBijection(1..k, S)
  BY <1>4 DEF ExistsBijection
<1> HIDE DEF S
<1> QED BY <1>1, <1>5, FS_CountingElements DEF S

(* The rank of a kept frame is its new number.                             *)
LEMMA Ranks ==
  ASSUME ScreenTypeOK, NEW g \in Games, Ascends(g)
  PROVE  /\ Cardinality(Chosen(g)) = Len(kept[g])
         /\ \A k \in 1..Len(kept[g]) : Cardinality({m \in Chosen(g) : m < kept[g][k]}) = k - 1
<1>1. Len(kept[g]) \in Nat
  BY DEF ScreenTypeOK
<1>2. Cardinality(Chosen(g)) = Len(kept[g])
  BY <1>1, Ascending DEF Chosen
<1>3. ASSUME NEW k \in 1..Len(kept[g])
      PROVE  Cardinality({m \in Chosen(g) : m < kept[g][k]}) = k - 1
  <2>1. \A i \in 1..Len(kept[g]) : kept[g][i] \in Nat
    BY OutputAssumption DEF ScreenTypeOK, Index
  <2>2. \A i \in 1..Len(kept[g]) : kept[g][i] < kept[g][k] <=> i < k
    <3> TAKE i \in 1..Len(kept[g])
    <3>1. /\ i < k => kept[g][i] < kept[g][k]
          /\ k < i => kept[g][k] < kept[g][i]
      BY DEF Ascends
    <3> QED BY <1>1, <2>1, <3>1
  <2>3. 1..(k - 1) \subseteq 1..Len(kept[g]) /\ \A i \in 1..Len(kept[g]) : i < k <=> i \in 1..(k - 1)
    BY <1>1
  <2>4. {m \in Chosen(g) : m < kept[g][k]} = {kept[g][i] : i \in 1..(k - 1)}
    BY <2>2, <2>3 DEF Chosen
  <2>5. k - 1 \in 0..Len(kept[g])
    BY <1>1
  <2> QED BY <2>4, <2>5, Ascending
<1> QED BY <1>2, <1>3

(* A rendered game has the frames 0 to Len(kept) - 1 and nothing else of   *)
(* its own.                                                                *)
LEMMA RenderedFrames ==
  ASSUME ScreenTypeOK, StageTypeOK, NEW g \in Games, GameInv(g), pc[g] = "rendered"
  PROVE  /\ Len(kept[g]) \in Nat \ {0}
         /\ Numbers(g) = 0..(Len(kept[g]) - 1)
         /\ Cardinality(Numbers(g)) = Len(kept[g])
         /\ \A k \in 1..Len(kept[g]) : /\ k - 1 \in Index
                                       /\ frames[g][k - 1] = captured[g][kept[g][k]]
<1>1. Len(kept[g]) \in Nat \ {0}
  BY DEF ScreenTypeOK, GameInv, Keeps
<1>2. Named(g) = Len(kept[g]) /\ \A n \in Index : frames[g][n] =
        IF n < Len(kept[g]) THEN captured[g][kept[g][n + 1]] ELSE NoFrame
  <2>1. staged[g] = <<>>
    BY DEF GameInv, Naming
  <2>2. Named(g) = Len(kept[g])
    BY <1>1, <2>1 DEF Named
  <2> QED BY <2>2 DEF GameInv, Naming
<1>3. \A n \in Nat : n < Len(kept[g]) => n \in Index
  BY NumbersExist DEF GameInv
<1>4. \A k \in 1..Len(kept[g]) : captured[g][kept[g][k]] \in File
  BY KeptFrames DEF GameInv
<1>5. Index \subseteq Nat
  BY OutputAssumption DEF Index
<1>6. \A n \in Index : n \in Numbers(g) <=> n < Len(kept[g])
  <2> TAKE n \in Index
  <2>1. CASE n < Len(kept[g])
    <3>1. n + 1 \in 1..Len(kept[g])
      BY <1>1, <1>5, <2>1
    <3> QED BY <1>2, <1>4, <2>1, <3>1, OutputAssumption DEF Numbers
  <2>2. CASE ~(n < Len(kept[g]))
    BY <1>2, <2>2 DEF Numbers
  <2> QED BY <2>1, <2>2
<1>7. \A n : n \in 0..(Len(kept[g]) - 1) <=> n \in Nat /\ n < Len(kept[g])
  BY <1>1
<1>8. Numbers(g) \subseteq Index
  BY DEF Numbers
<1>9. Numbers(g) = 0..(Len(kept[g]) - 1)
  BY <1>3, <1>5, <1>6, <1>7, <1>8
<1>10. Cardinality(Numbers(g)) = Len(kept[g])
  BY <1>1, <1>9, FS_Interval
<1>11. ASSUME NEW k \in 1..Len(kept[g])
       PROVE  k - 1 \in Index /\ frames[g][k - 1] = captured[g][kept[g][k]]
  <2>1. k - 1 \in Nat /\ k - 1 < Len(kept[g]) /\ (k - 1) + 1 = k
    BY <1>1
  <2> QED BY <1>2, <1>3, <2>1
<1> QED BY <1>1, <1>9, <1>10, <1>11

-----------------------------------------------------------------------------
(* What is handed to the uploader holds, of every game, exactly the wanted *)
(* frames, in the order of their capture, numbered from 0 and whole, and   *)
(* no trace of the games that have none; of a game that was lost to a      *)
(* panicked worker, it holds the capture as the container wrote it.        *)
THEOREM OutputIsWantedCorrect == Spec => []OutputIsWanted
<1>1. OInv => OutputIsWanted
  <2> SUFFICES ASSUME OInv, verdict = "valid", NEW g \in Games
               PROVE  IF pc[g] = "lost"
                        THEN dir[g] /\ frames[g] = captured[g]
                        ELSE /\ \A n \in Wanted(g) :
                                  frames[g][Cardinality({m \in Wanted(g) : m < n})] = captured[g][n]
                             /\ Cardinality(Numbers(g)) = Cardinality(Wanted(g))
                             /\ \A n \in Numbers(g) : MayBeTorn \/ frames[g][n] \in Images
                             /\ dir[g] <=> Wanted(g) # {}
    BY DEF OutputIsWanted
  <2>1. ScreenTypeOK /\ StageTypeOK /\ GameInv(g)
    BY TypeOKParts DEF OInv
  <2>2. IsValid /\ pc[g] \in {"rendered", "skipped", "lost"}
    BY DEF OInv, Concluded, AllReported
  <2>3. CASE pc[g] = "rendered"
    <3>1. dir[g] /\ Chosen(g) = Wanted(g) /\ Ascends(g)
      BY <2>1, <2>3 DEF GameInv, Keeps
    <3>2. ASSUME NEW n \in Wanted(g)
          PROVE  frames[g][Cardinality({m \in Wanted(g) : m < n})] = captured[g][n]
      <4>1. PICK k \in 1..Len(kept[g]) : n = kept[g][k]
        BY <3>1 DEF Chosen
      <4>2. Cardinality({m \in Wanted(g) : m < n}) = k - 1
        BY <2>1, <3>1, <4>1, Ranks
      <4> QED BY <2>1, <2>3, <4>1, <4>2, RenderedFrames
    <3>3. Cardinality(Numbers(g)) = Cardinality(Wanted(g))
      BY <2>1, <2>3, <3>1, Ranks, RenderedFrames
    <3>4. Wanted(g) # {}
      <4>1. 1 \in 1..Len(kept[g])
        BY <2>1, <2>3, RenderedFrames
      <4> QED BY <3>1, <4>1 DEF Chosen
    <3>5. ASSUME NEW n \in Numbers(g)
          PROVE  MayBeTorn \/ frames[g][n] \in Images
      <4>1. n + 1 \in 1..Len(kept[g]) /\ (n + 1) - 1 = n
        BY <2>1, <2>3, RenderedFrames
      <4>2. frames[g][n] = captured[g][kept[g][n + 1]]
        BY <2>1, <2>3, <4>1, RenderedFrames
      <4> QED BY <2>1, <4>1, <4>2 DEF GameInv, Decoded, Chosen
    <3> QED BY <2>3, <3>1, <3>2, <3>3, <3>4, <3>5
  <2>4. CASE pc[g] = "skipped"
    <3>1. Wanted(g) = {} /\ (~dir[g] => frames[g] = Empty)
      BY <2>1, <2>4 DEF GameInv, Skipped, Lost
    <3>2. ~dir[g]
      BY <2>2, <2>4 DEF IsValid, RenderedGames
    <3>3. Numbers(g) = {}
      BY <3>1, <3>2 DEF Numbers, Empty
    <3> QED BY <2>4, <3>1, <3>2, <3>3
  <2>5. CASE pc[g] = "lost"
    <3>1. dir[g]
      BY <2>2, <2>5 DEF IsValid, RenderedGames, GameIsValid
    <3> QED BY <2>1, <2>5, <3>1 DEF GameInv, Lost
  <2> QED BY <2>2, <2>3, <2>4, <2>5
<1> QED BY <1>1, InvariantHolds, PTL

(* What post-processing leaves is what validation accepts: an invalid      *)
(* output means that a worker panicked, that the directory of a skipped    *)
(* game could not be removed, or that a container wrote a file that is no  *)
(* image where nobody decodes them.                                        *)
THEOREM RefusalHasCauseCorrect == Spec => []RefusalHasCause
<1>1. OInv => RefusalHasCause
  <2> SUFFICES ASSUME OInv, verdict = "invalid",
                      \A g \in Games : pc[g] # "lost",
                      \A g \in Games : pc[g] = "skipped" => ~dir[g],
                      \A g \in Games : pc[g] = "rendered" => "other" \notin extra[g],
                      \A g \in Games : pc[g] = "rendered" /\ MayBeTorn => frames[g][0] # Broken
               PROVE  FALSE
    BY DEF RefusalHasCause
  <2>1. ScreenTypeOK /\ StageTypeOK /\ \A g \in Games : GameInv(g)
    BY TypeOKParts DEF OInv
  <2>2. ~IsValid /\ \A g \in Games : pc[g] \in {"rendered", "skipped"}
    BY DEF OInv, Concluded, AllReported
  <2>3. \A g \in Games : dir[g] => g \in RenderedGames
    BY DEF RenderedGames
  <2>4. ASSUME NEW g \in RenderedGames
        PROVE  GameIsValid(g)
    <3>1. g \in Games /\ pc[g] = "rendered" /\ GameInv(g)
      BY <2>1, <2>2, <2>4 DEF RenderedGames
    <3>2. dir[g] /\ staged[g] = <<>> /\ "png" \notin extra[g]
      BY <3>1 DEF GameInv, Keeps, Naming
    <3>3. extra[g] = {}
      BY <2>1, <3>1, <3>2 DEF StageTypeOK, Extra
    <3>4. /\ Len(kept[g]) \in Nat \ {0}
          /\ Numbers(g) = 0..(Len(kept[g]) - 1)
          /\ Cardinality(Numbers(g)) = Len(kept[g])
          /\ \A k \in 1..Len(kept[g]) : frames[g][k - 1] = captured[g][kept[g][k]]
      BY <2>1, <3>1, RenderedFrames
    <3>5. cfg.mode = "single" => Numbers(g) = {0}
      BY <3>1, <3>4 DEF GameInv, Ascends
    <3>6. \A n \in Numbers(g) : frames[g][n] # Broken
      <4> TAKE n \in Numbers(g)
      <4>1. n + 1 \in 1..Len(kept[g]) /\ (n + 1) - 1 = n
        BY <3>4
      <4>2. frames[g][n] = captured[g][kept[g][n + 1]]
        BY <3>4, <4>1
      <4>3. CASE MayBeTorn
        BY <3>1, <3>5, <4>3 DEF MayBeTorn
      <4>4. CASE ~MayBeTorn
        BY <3>1, <4>1, <4>2, <4>4, OutputAssumption DEF GameInv, Decoded, Chosen
      <4> QED BY <4>3, <4>4
    <3>7. Numbers(g) # {} /\ Numbers(g) = 0..(Cardinality(Numbers(g)) - 1)
      <4>1. 0 \in 0..(Len(kept[g]) - 1)
        BY <3>4
      <4> QED BY <3>4, <4>1
    <3> QED BY <3>2, <3>3, <3>5, <3>6, <3>7 DEF GameIsValid
  <2> QED BY <2>2, <2>3, <2>4 DEF IsValid
<1> QED BY <1>1, InvariantHolds, PTL
=============================================================================
