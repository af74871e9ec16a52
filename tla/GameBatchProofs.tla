--------------------------- MODULE GameBatchProofs ---------------------------
(* Proofs of the safety properties of GameBatch, and that it implements    *)
(* BatchOutcome, for any number of games and worker threads and any number *)
(* of panics.                                                              *)
EXTENDS GameBatch, FiniteSetTheorems, TLAPS

USE DEF Threads, channels, disk, tally

(* A thread has a game exactly while it works on it, and after it died.    *)
Busy == {"staging", "sending", "received", "running", "panicked"}

Holding == \A t \in Threads : game[t] # NoGame <=> pc[t] \in Busy

TInv == TypeOK /\ Holding

-----------------------------------------------------------------------------
(* Type correctness *)

(* What a step does to pc and game keeps their types and Holding.          *)
LEMMA MoveStage ==
  ASSUME TInv, NEW s \in StageWorkers, NEW to \in StagePC, Move(s, to),
         NEW g \in Games \cup {NoGame}, Hold(s, g), g # NoGame <=> to \in Busy
  PROVE  /\ pc' \in [Threads -> StagePC \cup RunPC]
         /\ \A x \in StageWorkers : pc'[x] \in StagePC
         /\ \A x \in RunWorkers : pc'[x] \in RunPC
         /\ game' \in [Threads -> Games \cup {NoGame}]
         /\ Holding'
  BY PoolAssumption DEF TInv, TypeOK, Move, Hold, Holding

LEMMA MoveRun ==
  ASSUME TInv, NEW r \in RunWorkers, NEW to \in RunPC, Move(r, to),
         NEW g \in Games \cup {NoGame}, Hold(r, g), g # NoGame <=> to \in Busy
  PROVE  /\ pc' \in [Threads -> StagePC \cup RunPC]
         /\ \A x \in StageWorkers : pc'[x] \in StagePC
         /\ \A x \in RunWorkers : pc'[x] \in RunPC
         /\ game' \in [Threads -> Games \cup {NoGame}]
         /\ Holding'
  BY PoolAssumption DEF TInv, TypeOK, Move, Hold, Holding

(* A thread that keeps its game.                                           *)
LEMMA KeepGame ==
  ASSUME TInv, UNCHANGED game, NEW t \in Threads
  PROVE  Hold(t, game[t]) /\ game[t] \in Games \cup {NoGame}
  BY DEF TInv, TypeOK, Hold

LEMMA BusyGame ==
  ASSUME TInv, NEW t \in Threads
  PROVE  /\ pc[t] \in Busy => game[t] \in Games
         /\ pc[t] \notin Busy => game[t] = NoGame
  BY DEF TInv, TypeOK, Holding

LEMMA TInvInductive ==
  /\ Init => TInv
  /\ TInv /\ [Next]_vars => TInv'
<1>1. Init => TInv
  BY PoolAssumption DEF Init, TInv, Holding, Busy, TypeOK, StagePC, RunPC
<1>2. TInv /\ [Next]_vars => TInv'
  <2> SUFFICES ASSUME TInv, [Next]_vars PROVE TInv'
    OBVIOUS
  <2>1. ASSUME NEW s \in StageWorkers, StageStep(s) PROVE TInv'
    <3> s \in Threads /\ NoGame \in Games \cup {NoGame} /\ game[s] \in Games \cup {NoGame}
      BY KeepGame DEF TInv, TypeOK
    <3>1. CASE StageCheck(s)
      BY <3>1, MoveStage, KeepGame, BusyGame, PoolAssumption
      DEF StageCheck, TInv, TypeOK, StagePC, Busy
    <3>2. CASE StageTake(s)
      BY <3>2, MoveStage, KeepGame, BusyGame, PoolAssumption
      DEF StageTake, TInv, TypeOK, StagePC, Busy
    <3>3. CASE StageDrained(s)
      BY <3>3, MoveStage, KeepGame, BusyGame, PoolAssumption
      DEF StageDrained, TInv, TypeOK, StagePC, Busy
    <3>4. CASE StageSucceeds(s)
      BY <3>4, MoveStage, KeepGame, BusyGame, PoolAssumption
      DEF StageSucceeds, TInv, TypeOK, StagePC, Busy
    <3>5. CASE StageFails(s)
      BY <3>5, MoveStage, KeepGame, BusyGame, PoolAssumption
      DEF StageFails, TInv, TypeOK, StagePC, Busy, Report, Msg
    <3>6. CASE StageRaises(s)
      BY <3>6, MoveStage, KeepGame, BusyGame, PoolAssumption
      DEF StageRaises, TInv, TypeOK, StagePC, Busy
    <3>7. CASE StageSend(s)
      BY <3>7, MoveStage, KeepGame, BusyGame, PoolAssumption
      DEF StageSend, TInv, TypeOK, StagePC, Busy
    <3> QED BY <2>1, <3>1, <3>2, <3>3, <3>4, <3>5, <3>6, <3>7 DEF StageStep
  <2>2. ASSUME NEW r \in RunWorkers, RunStep(r) PROVE TInv'
    <3> r \in Threads /\ NoGame \in Games \cup {NoGame} /\ game[r] \in Games \cup {NoGame}
      BY KeepGame DEF TInv, TypeOK
    <3>1. CASE RunLock(r)
      BY <3>1, MoveRun, KeepGame, BusyGame, PoolAssumption
      DEF RunLock, TInv, TypeOK, RunPC, Busy
    <3>2. CASE RunReceive(r)
      BY <3>2, MoveRun, KeepGame, BusyGame, PoolAssumption
      DEF RunReceive, TInv, TypeOK, RunPC, Busy
    <3>3. CASE RunDisconnected(r)
      BY <3>3, MoveRun, KeepGame, BusyGame, PoolAssumption
      DEF RunDisconnected, TInv, TypeOK, RunPC, Busy
    <3>4. CASE RunDiscard(r)
      BY <3>4, MoveRun, KeepGame, BusyGame, PoolAssumption
      DEF RunDiscard, TInv, TypeOK, RunPC, Busy
    <3>5. CASE RunStart(r)
      BY <3>5, MoveRun, KeepGame, BusyGame, PoolAssumption
      DEF RunStart, TInv, TypeOK, RunPC, Busy
    <3>6. CASE RunReport(r)
      BY <3>6, MoveRun, KeepGame, BusyGame, PoolAssumption
      DEF RunReport, Free, TInv, TypeOK, RunPC, Busy, Report, Msg
    <3> QED BY <2>2, <3>1, <3>2, <3>3, <3>4, <3>5, <3>6 DEF RunStep
  <2>3. ASSUME NEW t \in Threads, Panic(t) PROVE TInv'
    <3>1. CASE t \in StageWorkers
      BY <2>3, <3>1, MoveStage, KeepGame, BusyGame, PoolAssumption
      DEF Panic, TInv, TypeOK, StagePC, Busy
    <3>2. CASE t \in RunWorkers
      BY <2>3, <3>2, MoveRun, KeepGame, BusyGame, PoolAssumption
      DEF Panic, TInv, TypeOK, RunPC, Busy
    <3> QED BY <3>1, <3>2
  <2>4. CASE CallerStep
    BY <2>4 DEF CallerStep, CollectRendered, CollectSkipped, CollectFailed,
                CallerRaises, Return, TInv, TypeOK, Holding
  <2>5. CASE Returned \/ UNCHANGED vars
    BY <2>5 DEF Returned, vars, TInv, TypeOK, Holding
  <2> QED BY <2>1, <2>2, <2>3, <2>4, <2>5 DEF Next
<1> QED BY <1>1, <1>2

(* The variables have their types in every reachable state.                *)
THEOREM TypeCorrect == Spec => []TypeOK
<1>1. TInv => TypeOK
  BY DEF TInv
<1> QED BY <1>1, TInvInductive, PTL DEF Spec

-----------------------------------------------------------------------------
(* No game is in two places *)

(* GameInOnePlace, game by game.                                           *)
Apart ==
  /\ \A t, u \in Threads : game[t] = game[u] /\ t # u => game[t] = NoGame
  /\ \A m, n \in progress : m.game = n.game => m = n
  /\ \A t \in Threads : game[t] \notin pending \cup ready \cup rendered \cup skipped
  /\ \A m \in progress : m.game \notin pending \cup ready \cup rendered \cup skipped
  /\ \A t \in Threads, m \in progress : game[t] # m.game
  /\ pending \cap (ready \cup rendered \cup skipped) = {}
  /\ ready \cap (rendered \cup skipped) = {}
  /\ rendered \cap skipped = {}

LEMMA ApartIsGameInOnePlace ==
  ASSUME TInv, Apart PROVE GameInOnePlace
<1>1. \A m \in progress : m.game \in Games
  BY DEF TInv, TypeOK, Report
<1>2. InHand \cap (pending \cup ready \cup Reported \cup rendered \cup skipped) = {}
  BY DEF Apart, InHand, Reported
<1>3. Reported \cap (pending \cup ready \cup rendered \cup skipped) = {}
  BY DEF Apart, Reported
<1> QED BY <1>2, <1>3 DEF Apart, GameInOnePlace

LEMMA ApartInductive ==
  /\ Init => Apart
  /\ TInv /\ Apart /\ [Next]_vars => Apart'
<1>1. Init => Apart
  BY PoolAssumption DEF Init, Apart
<1>2. TInv /\ Apart /\ [Next]_vars => Apart'
  <2> SUFFICES ASSUME TInv, Apart, [Next]_vars PROVE Apart'
    OBVIOUS
  <2> USE PoolAssumption DEF Apart
  <2>1. ASSUME NEW s \in StageWorkers, StageStep(s) PROVE Apart'
    <3>1. CASE StageCheck(s)
      BY <3>1 DEF StageCheck
    <3>2. CASE StageTake(s)
      BY <3>2, BusyGame DEF StageTake, Hold, Busy, TInv, TypeOK
    <3>3. CASE StageDrained(s)
      BY <3>3 DEF StageDrained
    <3>4. CASE StageSucceeds(s)
      BY <3>4 DEF StageSucceeds
    <3>5. CASE StageFails(s)
      BY <3>5, BusyGame DEF StageFails, Hold, Busy, TInv, TypeOK, Msg, Report
    <3>6. CASE StageRaises(s)
      BY <3>6 DEF StageRaises
    <3>7. CASE StageSend(s)
      BY <3>7, BusyGame DEF StageSend, Hold, Busy, TInv, TypeOK, Report
    <3> QED BY <2>1, <3>1, <3>2, <3>3, <3>4, <3>5, <3>6, <3>7 DEF StageStep
  <2>2. ASSUME NEW r \in RunWorkers, RunStep(r) PROVE Apart'
    <3>1. CASE RunLock(r)
      BY <3>1 DEF RunLock
    <3>2. CASE RunReceive(r)
      BY <3>2, BusyGame DEF RunReceive, Hold, Busy, TInv, TypeOK
    <3>3. CASE RunDisconnected(r)
      BY <3>3 DEF RunDisconnected
    <3>4. CASE RunDiscard(r)
      BY <3>4, BusyGame DEF RunDiscard, Hold, Busy, TInv, TypeOK, Report
    <3>5. CASE RunStart(r)
      BY <3>5 DEF RunStart
    <3>6. CASE RunReport(r)
      BY <3>6, BusyGame DEF RunReport, Hold, Busy, TInv, TypeOK, Msg, Report
    <3> QED BY <2>2, <3>1, <3>2, <3>3, <3>4, <3>5, <3>6 DEF RunStep
  <2>3. ASSUME NEW t \in Threads, Panic(t) PROVE Apart'
    BY <2>3 DEF Panic
  <2>4. CASE CallerStep
    <3>1. CASE \E g \in Games : CollectRendered(g)
      BY <3>1 DEF CollectRendered, Msg, TInv, TypeOK
    <3>2. CASE \E g \in Games : CollectSkipped(g)
      BY <3>2 DEF CollectSkipped, Msg, TInv, TypeOK
    <3>3. CASE \E g \in Games : CollectFailed(g)
      BY <3>3 DEF CollectFailed
    <3>4. CASE CallerRaises \/ Return
      BY <3>4 DEF CallerRaises, Return
    <3> QED BY <2>4, <3>1, <3>2, <3>3, <3>4 DEF CallerStep
  <2>5. CASE Returned \/ UNCHANGED vars
    BY <2>5 DEF Returned, vars
  <2> QED BY <2>1, <2>2, <2>3, <2>4, <2>5 DEF Next
<1> QED BY <1>1, <1>2

(* No game is processed, reported or counted twice.                        *)
THEOREM GameInOnePlaceCorrect == Spec => []GameInOnePlace
<1>1. Init => TInv /\ Apart
  BY TInvInductive, ApartInductive
<1>2. TInv /\ Apart /\ [Next]_vars => (TInv /\ Apart)'
  BY TInvInductive, ApartInductive
<1>3. TInv /\ Apart => GameInOnePlace
  BY ApartIsGameInOnePlace
<1> QED BY <1>1, <1>2, <1>3, PTL DEF Spec

-----------------------------------------------------------------------------
(* The cancel flag and the result *)

LEMMA MsgFields ==
  \A g, o : Msg(g, o).game = g /\ Msg(g, o).outcome = o
BY DEF Msg

(* An error has been reported, though the caller may not have seen it yet. *)
Trouble == firstErr \/ \E m \in progress : m.outcome = "failed"

Causes ==
  /\ cancel => Trouble
  /\ \A s \in StageWorkers : pc[s] = "raising" => Trouble
  /\ caller = "raise" => firstErr
  /\ result # "none" <=> caller = "returned"
  /\ result = "ok" => ~firstErr
  /\ caller = "returned" => progress = {} /\ \A t \in Threads : Closed(t)

LEMMA CausesInductive ==
  /\ Init => Causes
  /\ TInv /\ Causes /\ [Next]_vars => Causes' /\ (Trouble => Trouble')
<1>1. Init => Causes
  BY PoolAssumption DEF Init, Causes
<1>2. TInv /\ Causes /\ [Next]_vars => Causes' /\ (Trouble => Trouble')
  <2> SUFFICES ASSUME TInv, Causes, [Next]_vars PROVE Causes' /\ (Trouble => Trouble')
    OBVIOUS
  <2> USE PoolAssumption DEF Causes, Trouble, Closed, Move, TInv, TypeOK
  <2>1. ASSUME NEW s \in StageWorkers, StageStep(s) PROVE Causes' /\ (Trouble => Trouble')
    <3>1. CASE StageCheck(s)
      BY <3>1 DEF StageCheck
    <3>2. CASE StageTake(s)
      BY <3>2 DEF StageTake
    <3>3. CASE StageDrained(s)
      BY <3>3 DEF StageDrained
    <3>4. CASE StageSucceeds(s)
      BY <3>4 DEF StageSucceeds
    <3>5. CASE StageFails(s)
      <4>1. Trouble'
        BY <3>5, MsgFields DEF StageFails
      <4> QED BY <3>5, <4>1 DEF StageFails
    <3>6. CASE StageRaises(s)
      BY <3>6 DEF StageRaises
    <3>7. CASE StageSend(s)
      BY <3>7 DEF StageSend
    <3> QED BY <2>1, <3>1, <3>2, <3>3, <3>4, <3>5, <3>6, <3>7 DEF StageStep
  <2>2. ASSUME NEW r \in RunWorkers, RunStep(r) PROVE Causes' /\ (Trouble => Trouble')
    <3>1. CASE RunLock(r)
      BY <3>1 DEF RunLock
    <3>2. CASE RunReceive(r)
      BY <3>2 DEF RunReceive
    <3>3. CASE RunDisconnected(r)
      BY <3>3 DEF RunDisconnected
    <3>4. CASE RunDiscard(r)
      BY <3>4 DEF RunDiscard
    <3>5. CASE RunStart(r)
      BY <3>5 DEF RunStart
    <3>6. CASE RunReport(r)
      BY <3>6 DEF RunReport, Msg
    <3> QED BY <2>2, <3>1, <3>2, <3>3, <3>4, <3>5, <3>6 DEF RunStep
  <2>3. ASSUME NEW t \in Threads, Panic(t) PROVE Causes' /\ (Trouble => Trouble')
    BY <2>3 DEF Panic
  <2>4. CASE CallerStep
    <3>1. CASE \E g \in Games : CollectRendered(g)
      BY <3>1 DEF CollectRendered, Msg
    <3>2. CASE \E g \in Games : CollectSkipped(g)
      BY <3>2 DEF CollectSkipped, Msg
    <3>3. CASE \E g \in Games : CollectFailed(g)
      BY <3>3 DEF CollectFailed, Msg
    <3>4. CASE CallerRaises
      BY <3>4 DEF CallerRaises, Msg
    <3>5. CASE Return
      BY <3>5 DEF Return, Msg
    <3> QED BY <2>4, <3>1, <3>2, <3>3, <3>4, <3>5 DEF CallerStep
  <2>5. CASE Returned \/ UNCHANGED vars
    BY <2>5 DEF Returned, vars
  <2> QED BY <2>1, <2>2, <2>3, <2>4, <2>5 DEF Next
<1> QED BY <1>1, <1>2

(* The cancel flag is up only because of a reported error, and never when  *)
(* the call returned Ok.                                                   *)
THEOREM CancelHasCauseCorrect == Spec => []CancelHasCause
<1>1. Init => TInv /\ Causes
  BY TInvInductive, CausesInductive
<1>2. TInv /\ Causes /\ [Next]_vars => (TInv /\ Causes)'
  BY TInvInductive, CausesInductive
<1>3. TInv /\ Causes => CancelHasCause
  BY DEF Causes, Trouble, CancelHasCause
<1> QED BY <1>1, <1>2, <1>3, PTL DEF Spec

-----------------------------------------------------------------------------
(* Ok means complete *)

(* Until something fails, every game is somewhere, and what is staged is   *)
(* on its way through a run worker, or could not be removed after it.  A   *)
(* worker that exits leaves nothing behind.                                *)
Complete ==
  /\ ~Trouble => \A g \in Games : \/ g \in pending \cup ready \cup rendered \cup skipped
                                  \/ \E t \in Threads : game[t] = g
                                  \/ \E m \in progress : m.game = g
  /\ ~Trouble => \A g \in staged : g \in ready \cup unfreed \/ \E t \in Threads : game[t] = g
  /\ \A s \in StageWorkers : pc[s] = "exited" => Trouble \/ pending = {}
  /\ \A r \in RunWorkers : pc[r] = "exited" => ready = {} /\ \A s \in StageWorkers : Closed(s)

LEMMA CompleteInductive ==
  /\ Init => Complete
  /\ TInv /\ Apart /\ Causes /\ Complete /\ [Next]_vars => Complete'
<1>1. Init => Complete
  BY PoolAssumption DEF Init, Complete
<1>2. TInv /\ Apart /\ Causes /\ Complete /\ [Next]_vars => Complete'
  <2> SUFFICES ASSUME TInv, Apart, Causes, Complete, [Next]_vars PROVE Complete'
    OBVIOUS
  <2>a. Trouble => Trouble'
    BY CausesInductive
  <2> USE <2>a, PoolAssumption DEF Complete, Closed, Move, Hold
  <2>1. ASSUME NEW s \in StageWorkers, StageStep(s) PROVE Complete'
    <3>1. CASE StageCheck(s)
      BY <3>1, BusyGame DEF StageCheck, TInv, TypeOK, Trouble, Causes
    <3>2. CASE StageTake(s)
      <4>1. PICK g \in pending : /\ pending' = pending \ {g}
                                 /\ staged' = staged \cup {g}
                                 /\ game' = [game EXCEPT ![s] = g]
        BY <3>2 DEF StageTake
      <4>2. game[s] = NoGame
        BY <3>2, BusyGame DEF StageTake, Busy
      <4>3. \A t \in Threads : game'[t] = IF t = s THEN g ELSE game[t]
        BY <4>1 DEF TInv, TypeOK
      <4>4. UNCHANGED <<ready, unfreed, progress, rendered, skipped, firstErr>> /\ Trouble' = Trouble
        BY <3>2 DEF StageTake, Trouble
      <4>5. \A x \in Threads : pc'[x] = IF x = s THEN "staging" ELSE pc[x]
        BY <3>2 DEF StageTake, TInv, TypeOK
      <4>6. ~Trouble' => \A h \in Games : \/ h \in pending' \cup ready' \cup rendered' \cup skipped'
                                          \/ \E t \in Threads : game'[t] = h
                                          \/ \E m \in progress' : m.game = h
        BY <4>1, <4>2, <4>3, <4>4
      <4>7. ~Trouble' => \A h \in staged' : h \in ready' \cup unfreed' \/ \E t \in Threads : game'[t] = h
        <5> SUFFICES ASSUME ~Trouble', NEW h \in staged'
                     PROVE  h \in ready' \cup unfreed' \/ \E t \in Threads : game'[t] = h
          OBVIOUS
        <5>1. h # NoGame
          BY <4>1 DEF TInv, TypeOK
        <5>2. CASE h = g
          BY <5>2, <4>3
        <5>3. CASE h \in staged
          BY <5>1, <5>3, <4>2, <4>3, <4>4
        <5> QED BY <4>1, <5>2, <5>3
      <4> QED BY <3>2, <4>1, <4>4, <4>5, <4>6, <4>7 DEF StageTake
    <3>3. CASE StageDrained(s)
      BY <3>3, BusyGame DEF StageDrained, TInv, TypeOK, Trouble, Causes
    <3>4. CASE StageSucceeds(s)
      BY <3>4, BusyGame DEF StageSucceeds, TInv, TypeOK, Trouble, Causes
    <3>5. CASE StageFails(s)
      <4>1. Trouble'
        BY <3>5, MsgFields DEF StageFails, Trouble
      <4>2. \A r \in RunWorkers : pc'[r] # "exited"
        BY <3>5 DEF StageFails, TInv, TypeOK
      <4> QED BY <4>1, <4>2
    <3>6. CASE StageRaises(s)
      BY <3>6, BusyGame DEF StageRaises, TInv, TypeOK, Trouble, Causes
    <3>7. CASE StageSend(s)
      BY <3>7, BusyGame DEF StageSend, TInv, TypeOK, Trouble, Causes
    <3> QED BY <2>1, <3>1, <3>2, <3>3, <3>4, <3>5, <3>6, <3>7 DEF StageStep
  <2>2. ASSUME NEW r \in RunWorkers, RunStep(r) PROVE Complete'
    <3>1. CASE RunLock(r)
      BY <3>1, BusyGame DEF RunLock, TInv, TypeOK, Trouble, Causes
    <3>2. CASE RunReceive(r)
      <4>1. PICK g \in ready : /\ ready' = ready \ {g}
                               /\ game' = [game EXCEPT ![r] = g]
        BY <3>2 DEF RunReceive
      <4>2. game[r] = NoGame
        BY <3>2, BusyGame DEF RunReceive, Busy
      <4>3. \A t \in Threads : game'[t] = IF t = r THEN g ELSE game[t]
        BY <4>1 DEF TInv, TypeOK
      <4>4. /\ UNCHANGED <<pending, staged, unfreed, progress, rendered, skipped, firstErr>>
            /\ Trouble' = Trouble
        BY <3>2 DEF RunReceive, Trouble
      <4>5. \A x \in Threads : pc'[x] = IF x = r THEN "received" ELSE pc[x]
        BY <3>2 DEF RunReceive, TInv, TypeOK
      <4>6. ~Trouble' => \A h \in Games : \/ h \in pending' \cup ready' \cup rendered' \cup skipped'
                                          \/ \E t \in Threads : game'[t] = h
                                          \/ \E m \in progress' : m.game = h
        BY <4>1, <4>2, <4>3, <4>4
      <4>7. ~Trouble' => \A h \in staged' : h \in ready' \cup unfreed' \/ \E t \in Threads : game'[t] = h
        <5> SUFFICES ASSUME ~Trouble', NEW h \in staged'
                     PROVE  h \in ready' \cup unfreed' \/ \E t \in Threads : game'[t] = h
          OBVIOUS
        <5>1. h # NoGame /\ (h \in ready \cup unfreed \/ \E t \in Threads : game[t] = h)
          BY <4>4 DEF TInv, TypeOK
        <5>2. CASE h = g
          BY <5>2, <4>3
        <5>3. CASE h # g
          BY <5>1, <5>3, <4>1, <4>2, <4>3, <4>4
        <5> QED BY <5>2, <5>3
      <4> QED BY <4>1, <4>4, <4>5, <4>6, <4>7
    <3>3. CASE RunDisconnected(r)
      BY <3>3, BusyGame DEF RunDisconnected, TInv, TypeOK, Trouble, Causes
    <3>4. CASE RunDiscard(r)
      BY <3>4, BusyGame DEF RunDiscard, TInv, TypeOK, Trouble, Causes
    <3>5. CASE RunStart(r)
      BY <3>5, BusyGame DEF RunStart, TInv, TypeOK, Trouble, Causes
    <3>6. CASE RunReport(r)
      <4>1. PICK o \in {"rendered", "skipped", "failed"} :
              /\ progress' = progress \cup {Msg(game[r], o)}
              /\ o # "failed" => Free(game[r])
        BY <3>6 DEF RunReport
      <4>2. \A t \in Threads : game'[t] = IF t = r THEN NoGame ELSE game[t]
        BY <3>6 DEF RunReport, TInv, TypeOK
      <4>3. UNCHANGED <<pending, ready, rendered, skipped, firstErr>>
        BY <3>6 DEF RunReport
      <4>4. \A x \in Threads : pc'[x] = IF x = r THEN "idle" ELSE pc[x]
        BY <3>6 DEF RunReport, TInv, TypeOK
      <4>5. ~Trouble' => ~Trouble /\ Free(game[r])
        BY <4>1, <2>a, MsgFields DEF Trouble
      <4>6. ~Trouble' => \A h \in Games : \/ h \in pending' \cup ready' \cup rendered' \cup skipped'
                                          \/ \E t \in Threads : game'[t] = h
                                          \/ \E m \in progress' : m.game = h
        <5> SUFFICES ASSUME ~Trouble', NEW h \in Games
                     PROVE  \/ h \in pending' \cup ready' \cup rendered' \cup skipped'
                            \/ \E t \in Threads : game'[t] = h
                            \/ \E m \in progress' : m.game = h
          OBVIOUS
        <5>1. CASE h = game[r]
          BY <5>1, <4>1, MsgFields
        <5>2. CASE h # game[r]
          BY <5>2, <4>1, <4>2, <4>3, <4>5
        <5> QED BY <5>1, <5>2
      <4>7. ~Trouble' => \A h \in staged' : h \in ready' \cup unfreed' \/ \E t \in Threads : game'[t] = h
        <5> SUFFICES ASSUME ~Trouble', NEW h \in staged'
                     PROVE  h \in ready' \cup unfreed' \/ \E t \in Threads : game'[t] = h
          OBVIOUS
        <5>1. unfreed \subseteq unfreed' /\ h \in staged /\ (h = game[r] => h \in unfreed')
          BY <4>5 DEF Free
        <5>2. CASE h = game[r]
          BY <5>1, <5>2
        <5>3. CASE h # game[r]
          BY <5>1, <5>3, <4>2, <4>3, <4>5
        <5> QED BY <5>2, <5>3
      <4> QED BY <4>3, <4>4, <4>5, <4>6, <4>7
    <3> QED BY <2>2, <3>1, <3>2, <3>3, <3>4, <3>5, <3>6 DEF RunStep
  <2>3. ASSUME NEW t \in Threads, Panic(t) PROVE Complete'
    BY <2>3 DEF Panic, TInv, TypeOK
  <2>4. CASE CallerStep
    <3>1. CASE \E g \in Games : CollectRendered(g)
      BY <3>1 DEF CollectRendered, Msg, TInv, TypeOK, Trouble
    <3>2. CASE \E g \in Games : CollectSkipped(g)
      BY <3>2 DEF CollectSkipped, Msg, TInv, TypeOK, Trouble
    <3>3. CASE \E g \in Games : CollectFailed(g)
      BY <3>3 DEF CollectFailed, Msg, TInv, TypeOK, Trouble
    <3>4. CASE CallerRaises
      BY <3>4 DEF CallerRaises, Msg, TInv, TypeOK, Trouble
    <3>5. CASE Return
      BY <3>5 DEF Return, Msg, TInv, TypeOK, Trouble
    <3> QED BY <2>4, <3>1, <3>2, <3>3, <3>4, <3>5 DEF CallerStep
  <2>5. CASE Returned \/ UNCHANGED vars
    BY <2>5 DEF Returned, vars, Trouble
  <2> QED BY <2>1, <2>2, <2>3, <2>4, <2>5 DEF Next
<1> QED BY <1>1, <1>2

SInv == TInv /\ Apart /\ Causes /\ Complete

LEMMA SInvInductive ==
  /\ Init => SInv
  /\ SInv /\ [Next]_vars => SInv'
BY TInvInductive, ApartInductive, CausesInductive, CompleteInductive DEF SInv

LEMMA SInvOkIsComplete == SInv => OkIsComplete
<1> SUFFICES ASSUME SInv, result = "ok"
             PROVE  Games = rendered \cup skipped \cup Lost /\ staged \subseteq Lost \cup unfreed
  BY DEF OkIsComplete
<1>1. ~Trouble /\ progress = {} /\ \A t \in Threads : Closed(t)
  BY DEF SInv, Causes, Trouble
<1>2. \A t \in Threads : pc[t] = "exited" => game[t] = NoGame
  BY BusyGame DEF SInv, Busy
<1>3. \A t \in Threads : game[t] \in Games => game[t] \in Lost
  BY <1>1, <1>2, PoolAssumption DEF Closed, Lost, Panicked
<1>4. pending \subseteq Lost
  <2>1. CASE \E s \in StageWorkers : pc[s] = "exited"
    BY <1>1, <2>1 DEF SInv, Complete
  <2>2. CASE ~ \E s \in StageWorkers : pc[s] = "exited"
    BY <1>1, <2>2 DEF Closed, Lost, Panicked
  <2> QED BY <2>1, <2>2
<1>5. ready \subseteq Lost
  <2>1. CASE \E r \in RunWorkers : pc[r] = "exited"
    BY <1>1, <2>1 DEF SInv, Complete
  <2>2. CASE ~ \E r \in RunWorkers : pc[r] = "exited"
    BY <1>1, <2>2 DEF Closed, Lost, Panicked
  <2> QED BY <2>1, <2>2
<1>6. Games \subseteq rendered \cup skipped \cup Lost
  BY <1>1, <1>3, <1>4, <1>5 DEF SInv, Complete
<1>7. staged \subseteq Lost \cup unfreed
  BY <1>1, <1>3, <1>5 DEF SInv, Complete, TInv, TypeOK
<1>8. Lost \subseteq Games
  BY BusyGame DEF Lost, Panicked, SInv, TInv, TypeOK, Busy
<1> QED BY <1>6, <1>7, <1>8 DEF SInv, TInv, TypeOK

(* Ok means that every game was rendered or skipped, except what panicked  *)
(* threads took with them, and that of the staged inputs only theirs and   *)
(* those that could not be removed are left behind.                        *)
THEOREM OkIsCompleteCorrect == Spec => []OkIsComplete
BY SInvInductive, SInvOkIsComplete, PTL DEF Spec

-----------------------------------------------------------------------------
(* The batch implements its contract *)

LEMMA LostGames == ASSUME TInv PROVE Lost \subseteq Games
BY BusyGame DEF Lost, Panicked, TInv, TypeOK, Busy

(* Nothing is lost by a step of a thread that lives on, as long as the     *)
(* channels of dead pools stay as they are.                                *)
LEMMA LostSame ==
  ASSUME TInv, NEW t \in Threads, pc[t] # "panicked",
         NEW to, to # "panicked", Move(t, to),
         UNCHANGED game \/ \E g : Hold(t, g),
         StageWorkers \subseteq Panicked => UNCHANGED pending,
         RunWorkers \subseteq Panicked => UNCHANGED ready
  PROVE  Lost' = Lost
<1>1. Panicked' = Panicked /\ t \notin Panicked
  BY DEF Panicked, Move, TInv, TypeOK
<1>2. \A u \in Panicked : u \in Threads /\ game'[u] = game[u]
  BY <1>1 DEF Hold, TInv, TypeOK, Panicked
<1>3. {game'[u] : u \in Panicked'} = {game[u] : u \in Panicked}
  BY <1>1, <1>2
<1> QED BY <1>1, <1>3 DEF Lost

(* A step that loses games, or nothing, and tells the caller nothing.      *)
LEMMA LoseStep ==
  ASSUME Lost' \subseteq Games, result = "none", UNCHANGED <<rendered, skipped, firstErr, result>>,
         Lost \subseteq Lost', (Lost' \ Lost) \cap (rendered \cup skipped) = {}
  PROVE  [Contract!Next]_(Contract!vars)
<1> DEFINE S == Lost' \ Lost
<1>1. S \subseteq Games
  OBVIOUS
<1>2. CASE S = {}
  BY <1>2 DEF Contract!vars
<1>3. CASE S # {}
  <2>1. Contract!Lose(S)
    BY DEF Contract!Lose, Contract!Open, Contract!Settled
  <2> QED BY <1>1, <1>3, <2>1 DEF Contract!Next
<1> QED BY <1>2, <1>3

(* Every step of the batch is a step of its contract, or a stutter.        *)
LEMMA StepImplements ==
  ASSUME SInv, [Next]_vars, OkIsComplete', Lost' \subseteq Games
  PROVE  [Contract!Next]_(Contract!vars)
<1>1. ASSUME NEW s \in StageWorkers, StageStep(s)
      PROVE  [Contract!Next]_(Contract!vars)
  <2>1. CASE StageCheck(s)
    <3>1. Lost' = Lost
      BY <2>1, LostSame DEF StageCheck, Panicked, SInv
    <3> QED BY <2>1, <3>1 DEF StageCheck, Contract!vars
  <2>2. CASE StageTake(s)
    <3>1. Lost' = Lost
      BY <2>2, LostSame DEF StageTake, Panicked, SInv
    <3> QED BY <2>2, <3>1 DEF StageTake, Contract!vars
  <2>3. CASE StageDrained(s)
    <3>1. Lost' = Lost
      BY <2>3, LostSame DEF StageDrained, Panicked, SInv
    <3> QED BY <2>3, <3>1 DEF StageDrained, Contract!vars
  <2>4. CASE StageSucceeds(s)
    <3>1. Lost' = Lost
      BY <2>4, LostSame DEF StageSucceeds, Panicked, SInv
    <3> QED BY <2>4, <3>1 DEF StageSucceeds, Contract!vars
  <2>5. CASE StageFails(s)
    <3>1. Lost' = Lost
      BY <2>5, LostSame DEF StageFails, Panicked, SInv
    <3> QED BY <2>5, <3>1 DEF StageFails, Contract!vars
  <2>6. CASE StageRaises(s)
    <3>1. Lost' = Lost
      BY <2>6, LostSame DEF StageRaises, Panicked, SInv
    <3> QED BY <2>6, <3>1 DEF StageRaises, Contract!vars
  <2>7. CASE StageSend(s)
    <3>1. Lost' = Lost \/ Lost' = Lost \cup {game[s]}
      <4>1. Panicked' = Panicked /\ s \notin Panicked
        BY <2>7 DEF StageSend, Panicked, Move, SInv, TInv, TypeOK
      <4>2. {game'[u] : u \in Panicked'} = {game[u] : u \in Panicked}
        BY <2>7, <4>1 DEF StageSend, Hold, Panicked, SInv, TInv, TypeOK
      <4> QED BY <2>7, <4>1, <4>2 DEF Lost, StageSend
    <3>2. game[s] \notin rendered \cup skipped
      BY DEF SInv, Apart
    <3>3. result = "none"
      BY <2>7 DEF StageSend, SInv, TInv, TypeOK, Causes, Closed
    <3> QED BY <2>7, <3>1, <3>2, <3>3, LoseStep DEF StageSend
  <2> QED BY <1>1, <2>1, <2>2, <2>3, <2>4, <2>5, <2>6, <2>7 DEF StageStep
<1>2. ASSUME NEW r \in RunWorkers, RunStep(r)
      PROVE  [Contract!Next]_(Contract!vars)
  <2>1. CASE RunLock(r)
    <3>1. Lost' = Lost
      BY <2>1, LostSame DEF RunLock, Panicked, SInv
    <3> QED BY <2>1, <3>1 DEF RunLock, Contract!vars
  <2>2. CASE RunReceive(r)
    <3>1. Lost' = Lost
      BY <2>2, LostSame DEF RunReceive, Panicked, SInv
    <3> QED BY <2>2, <3>1 DEF RunReceive, Contract!vars
  <2>3. CASE RunDisconnected(r)
    <3>1. Lost' = Lost
      BY <2>3, LostSame DEF RunDisconnected, Panicked, SInv
    <3> QED BY <2>3, <3>1 DEF RunDisconnected, Contract!vars
  <2>4. CASE RunDiscard(r)
    <3>1. Lost' = Lost
      BY <2>4, LostSame DEF RunDiscard, Panicked, SInv
    <3> QED BY <2>4, <3>1 DEF RunDiscard, Contract!vars
  <2>5. CASE RunStart(r)
    <3>1. Lost' = Lost
      BY <2>5, LostSame DEF RunStart, Panicked, SInv
    <3> QED BY <2>5, <3>1 DEF RunStart, Contract!vars
  <2>6. CASE RunReport(r)
    <3>1. Lost' = Lost
      BY <2>6, LostSame DEF RunReport, Panicked, SInv
    <3> QED BY <2>6, <3>1 DEF RunReport, Contract!vars
  <2> QED BY <1>2, <2>1, <2>2, <2>3, <2>4, <2>5, <2>6 DEF RunStep
<1>3. ASSUME NEW t \in Threads, Panic(t)
      PROVE  [Contract!Next]_(Contract!vars)
  <2>1. Panicked' = Panicked \cup {t}
    BY <1>3 DEF Panic, Panicked, Move, SInv, TInv, TypeOK
  <2>2. UNCHANGED <<game, pending, ready, rendered, skipped, firstErr, result>>
    BY <1>3 DEF Panic
  <2>3. Lost \subseteq Lost' /\ Lost' \subseteq Lost \cup {game[t]} \cup pending \cup ready
    BY <2>1, <2>2 DEF Lost
  <2>4. ({game[t]} \cup pending \cup ready) \cap (rendered \cup skipped) = {}
    BY DEF SInv, Apart
  <2>5. result = "none"
    BY <1>3 DEF Panic, SInv, TInv, TypeOK, Causes, Closed
  <2> QED BY <2>2, <2>3, <2>4, <2>5, LoseStep
<1>4. CASE CallerStep
  <2> SUFFICES ASSUME CallerStep PROVE Contract!Next \/ UNCHANGED Contract!vars
    BY <1>4
  <2>1. Lost' = Lost
    BY DEF Lost, Panicked, CallerStep, CollectRendered, CollectSkipped,
           CollectFailed, CallerRaises, Return
  <2>2. caller # "returned" => result = "none"
    BY DEF SInv, Causes
  <2>3. \A m \in progress : m.game \notin rendered \cup skipped \cup Lost
    <3>1. \A m \in progress, t \in Panicked : m.game # game[t]
      BY DEF SInv, Apart, Panicked
    <3> QED BY <3>1 DEF SInv, Apart, Lost
  <2>4. ASSUME NEW g \in Games, CollectRendered(g) PROVE Contract!Render(g)
    BY <2>1, <2>2, <2>3, <2>4, MsgFields
    DEF CollectRendered, Contract!Render, Contract!Open, Contract!Settled
  <2>5. ASSUME NEW g \in Games, CollectSkipped(g) PROVE Contract!Skip(g)
    BY <2>1, <2>2, <2>3, <2>5, MsgFields
    DEF CollectSkipped, Contract!Skip, Contract!Open, Contract!Settled
  <2>6. ASSUME NEW g \in Games, CollectFailed(g) PROVE Contract!Fail
    BY <2>1, <2>2, <2>6 DEF CollectFailed, Contract!Fail
  <2>7. CASE CallerRaises
    BY <2>1, <2>7 DEF CallerRaises, Contract!vars
  <2>8. CASE Return
    <3>1. CASE firstErr
      BY <2>1, <2>2, <2>8, <3>1 DEF Return, Contract!Next, Contract!ReturnErr
    <3>2. CASE ~firstErr
      BY <2>1, <2>2, <2>8, <3>2
      DEF Return, OkIsComplete, Contract!Next, Contract!ReturnOk, Contract!Settled
    <3> QED BY <3>1, <3>2
  <2> QED BY <2>4, <2>5, <2>6, <2>7, <2>8 DEF CallerStep, Contract!Next
<1>5. CASE Returned \/ UNCHANGED vars
  BY <1>5 DEF Returned, vars, Lost, Panicked, Contract!vars
<1> QED BY <1>1, <1>2, <1>3, <1>4, <1>5 DEF Next

(* The pools of worker threads implement the batch as run_stages sees it.  *)
THEOREM ImplementsContractCorrect == Spec => ImplementsContract
<1>1. Init => Contract!Init
  <2> SUFFICES ASSUME Init PROVE Lost = {}
    BY DEF Init, Contract!Init
  <2>1. Panicked = {}
    BY DEF Init, Panicked
  <2> QED BY <2>1, PoolAssumption DEF Lost
<1>2. SInv => OkIsComplete /\ Lost \subseteq Games
  BY SInvOkIsComplete, LostGames DEF SInv
<1>3. SInv /\ [Next]_vars /\ (OkIsComplete /\ Lost \subseteq Games)'
        => [Contract!Next]_(Contract!vars)
  BY StepImplements
<1> QED BY <1>1, <1>2, <1>3, SInvInductive, PTL
    DEF Spec, ImplementsContract, Contract!Spec

-----------------------------------------------------------------------------
(* The bounded channel *)

Fits == Cardinality(ready) <= ReadyCapacity

LEMMA FitsInductive ==
  /\ Init => Fits
  /\ TInv /\ Fits /\ [Next]_vars => Fits'
<1>0. ReadyCapacity \in Nat
  BY PoolAssumption, FS_CardinalityType DEF ReadyCapacity
<1>1. Init => Fits
  BY <1>0, FS_EmptySet DEF Init, Fits
<1>2. TInv /\ Fits /\ [Next]_vars => Fits'
  <2> SUFFICES ASSUME TInv, Fits, [Next]_vars PROVE Fits'
    OBVIOUS
  <2>0. IsFiniteSet(ready) /\ Cardinality(ready) \in Nat
    BY PoolAssumption, FS_Subset, FS_CardinalityType DEF TInv, TypeOK
  <2>1. CASE \E s \in StageWorkers : StageSend(s)
    <3>1. PICK s \in StageWorkers : /\ Cardinality(ready) < ReadyCapacity
                                    /\ ready' = ready \cup {game[s]}
      BY <2>1 DEF StageSend
    <3>2. Cardinality(ready \cup {game[s]})
            = IF game[s] \in ready THEN Cardinality(ready) ELSE Cardinality(ready) + 1
      BY <2>0, FS_AddElement
    <3>3. Cardinality(ready \cup {game[s]}) <= ReadyCapacity
      BY <1>0, <2>0, <3>1, <3>2
    <3> QED BY <3>1, <3>3 DEF Fits, ReadyCapacity
  <2>2. CASE \E r \in RunWorkers : RunReceive(r)
    <3>1. PICK g \in ready : ready' = ready \ {g}
      BY <2>2 DEF RunReceive
    <3>2. Cardinality(ready \ {g}) = Cardinality(ready) - 1
      BY <2>0, FS_RemoveElement
    <3>3. Cardinality(ready \ {g}) <= ReadyCapacity
      BY <1>0, <2>0, <3>2 DEF Fits
    <3> QED BY <3>1, <3>3 DEF Fits, ReadyCapacity
  <2>3. CASE UNCHANGED ready
    BY <2>3 DEF Fits, ReadyCapacity
  <2>4. \/ \E s \in StageWorkers : StageSend(s)
        \/ \E r \in RunWorkers : RunReceive(r)
        \/ UNCHANGED ready
    BY DEF Next, vars, StageStep, StageCheck, StageTake, StageDrained, StageSucceeds, StageFails,
       StageRaises, RunStep, RunLock, RunDisconnected, RunDiscard, RunStart, RunReport, Panic,
       CallerStep, CollectRendered, CollectSkipped, CollectFailed, CallerRaises, Return, Returned
  <2> QED BY <2>1, <2>2, <2>3, <2>4
<1> QED BY <1>1, <1>2

(* As long as nothing failed, /staging holds, besides the games being run, *)
(* at most one per stage worker, one per slot of the ready channel, and    *)
(* those that could not be removed.                                        *)
THEOREM StagingBoundCorrect == Spec => []StagingBound
<1> DEFINE Hands == {game[s] : s \in StageWorkers}
           Moving == ready \cup Hands
           Waiting == staged \ {game[r] : r \in RunWorkers}
<1>1. ASSUME SInv, Fits PROVE StagingBound
  <2> SUFFICES ASSUME ~firstErr, \A m \in progress : m.outcome # "failed"
               PROVE  Cardinality(Waiting) <= Cardinality(StageWorkers) + Cardinality(RunWorkers)
                                                + Cardinality(unfreed)
    BY DEF StagingBound
  <2>1. Waiting \subseteq Moving \cup unfreed
    BY <1>1 DEF SInv, Complete, Trouble, TInv, TypeOK
  <2>2. IsFiniteSet(Hands) /\ Cardinality(Hands) <= Cardinality(StageWorkers)
    <3> DEFINE f == [s \in StageWorkers |-> game[s]]
    <3>1. f \in Surjection(StageWorkers, Hands)
      BY DEF Surjection
    <3> QED BY <3>1, FS_Surjection, PoolAssumption
  <2>3. IsFiniteSet(ready) /\ Cardinality(ready) <= Cardinality(RunWorkers)
    BY <1>1, PoolAssumption, FS_Subset DEF SInv, TInv, TypeOK, Fits, ReadyCapacity
  <2>4. IsFiniteSet(unfreed)
    BY <1>1, PoolAssumption, FS_Subset DEF SInv, TInv, TypeOK
  <2> HIDE DEF Hands, Waiting
  <2>5. /\ IsFiniteSet(Moving)
        /\ Cardinality(Moving) = Cardinality(ready) + Cardinality(Hands) - Cardinality(ready \cap Hands)
    BY <2>2, <2>3, FS_Union
  <2>6. IsFiniteSet(ready \cap Hands)
    BY <2>3, FS_Subset
  <2> HIDE DEF Moving
  <2>7. /\ IsFiniteSet(Moving \cup unfreed)
        /\ Cardinality(Moving \cup unfreed)
             = Cardinality(Moving) + Cardinality(unfreed) - Cardinality(Moving \cap unfreed)
    BY <2>4, <2>5, FS_Union
  <2>8. IsFiniteSet(Moving \cap unfreed)
    BY <2>4, FS_Subset
  <2>9. IsFiniteSet(Waiting) /\ Cardinality(Waiting) <= Cardinality(Moving \cup unfreed)
    BY <2>1, <2>7, FS_Subset
  <2>10. /\ Cardinality(ready \cap Hands) \in Nat /\ Cardinality(ready) \in Nat
         /\ Cardinality(Hands) \in Nat /\ Cardinality(Moving) \in Nat
         /\ Cardinality(Moving \cap unfreed) \in Nat /\ Cardinality(unfreed) \in Nat
         /\ Cardinality(Moving \cup unfreed) \in Nat /\ Cardinality(Waiting) \in Nat
         /\ Cardinality(StageWorkers) \in Nat /\ Cardinality(RunWorkers) \in Nat
    BY <2>2, <2>3, <2>4, <2>5, <2>6, <2>7, <2>8, <2>9, FS_CardinalityType, PoolAssumption
  <2> QED BY <2>2, <2>3, <2>5, <2>7, <2>9, <2>10
<1>2. Init => SInv /\ Fits
  BY SInvInductive, FitsInductive
<1>3. (SInv /\ Fits) /\ [Next]_vars => (SInv /\ Fits)'
  BY SInvInductive, FitsInductive DEF SInv
<1> QED BY <1>1, <1>2, <1>3, PTL DEF Spec
=============================================================================
