------------------------------ MODULE GameBatch ------------------------------
(***************************************************************************)
(* process_games_concurrently and run_and_postprocess (job.rs): a pool of  *)
(* stage workers copies ROMs into /staging and hands the games over a      *)
(* bounded channel to a pool of run workers; both pools report to the      *)
(* calling thread over a third channel, and share one cancel flag.         *)
(*                                                                         *)
(* The three mpsc channels are modelled as the set of what is in them: a   *)
(* game travels at most once (titlemap ids are unique) and no property     *)
(* depends on the order in which two games travel, so a receive takes any  *)
(* element, which includes the FIFO one.                                   *)
(***************************************************************************)
EXTENDS Naturals, FiniteSets

CONSTANTS Games,         \* the resolved games of the job
          StageWorkers,  \* threads of the stage pool (max_parallel_stages)
          RunWorkers,    \* threads of the run pool (max_parallel_games)
          NoGame,        \* a thread holds no game
          NoWorker,      \* nobody holds the lock of the ready receiver
          MaxPanics,     \* bound: worker threads that may panic
          MaxUnfreed     \* bound: staging directories that cannot be removed

ASSUME PoolAssumption ==
  /\ IsFiniteSet(Games) /\ NoGame \notin Games
  /\ IsFiniteSet(StageWorkers) /\ StageWorkers # {}
  /\ IsFiniteSet(RunWorkers) /\ RunWorkers # {}
  /\ StageWorkers \cap RunWorkers = {}
  /\ NoWorker \notin RunWorkers
  /\ MaxPanics \in Nat /\ MaxUnfreed \in Nat

VARIABLES pending,    \* channel of games to stage
          ready,      \* bounded channel of staged games
          readyLock,  \* holder of the mutex around the ready receiver
          progress,   \* channel of reports to the calling thread
          cancel,     \* the shared AtomicBool
          staged,     \* games with a directory under /staging/<job>
          unfreed,    \* those that were run, and whose removal failed
          pc,         \* where each worker thread is
          game,       \* the game each worker thread holds
          caller,     \* where the calling thread is
          rendered,   \* ids counted in `done`
          skipped,    \* ids pushed to `skipped`
          firstErr,   \* first_err.is_some()
          result      \* what the call returned

vars == <<pending, ready, readyLock, progress, cancel, staged, unfreed, pc,
          game, caller, rendered, skipped, firstErr, result>>

channels == <<pending, ready, readyLock, progress>>
disk     == <<staged, unfreed>>
tally    == <<caller, rendered, skipped, firstErr, result>>

Threads == StageWorkers \cup RunWorkers

(* sync_channel(run_pool) *)
ReadyCapacity == Cardinality(RunWorkers)

StagePC == {"idle", "taking", "staging", "sending", "raising", "exited", "panicked"}
RunPC   == {"idle", "receiving", "received", "running", "exited", "panicked"}

Report == [game : Games, outcome : {"rendered", "skipped", "failed"}]

Msg(g, o) == [game |-> g, outcome |-> o]

Closed(t) == pc[t] \in {"exited", "panicked"}

Panicked == {t \in Threads : pc[t] = "panicked"}

(* A panic unwinds the thread; the caller drops the Err of join().  The    *)
(* game in its hands is gone, and once a whole pool is dead, so is what    *)
(* only that pool would have received.                                     *)
Lost == {game[t] : t \in Panicked}
          \cup (IF StageWorkers \subseteq Panicked THEN pending ELSE {})
          \cup (IF RunWorkers \subseteq Panicked THEN ready ELSE {})

InHand == {game[t] : t \in Threads} \ {NoGame}

Reported == {m.game : m \in progress}

Move(t, to) == pc' = [pc EXCEPT ![t] = to]
Hold(t, g)  == game' = [game EXCEPT ![t] = g]

Init ==
  /\ pending = Games
  /\ ready = {}
  /\ readyLock = NoWorker
  /\ progress = {}
  /\ cancel = FALSE
  /\ staged = {}
  /\ unfreed = {}
  /\ pc = [t \in Threads |-> "idle"]
  /\ game = [t \in Threads |-> NoGame]
  /\ caller = "collect"
  /\ rendered = {}
  /\ skipped = {}
  /\ firstErr = FALSE
  /\ result = "none"

-----------------------------------------------------------------------------
(* Stage workers *)

(* The channel holds the games in the order of the list, whichever it is.  *)
First == CHOOSE g \in pending : TRUE

(* Top of the loop: the cancel flag is read before a game is taken.        *)
StageCheck(s) ==
  /\ pc[s] = "idle"
  /\ Move(s, IF cancel THEN "exited" ELSE "taking")
  /\ UNCHANGED <<channels, cancel, disk, game, tally>>

(* Mutant: the game is looked at, not received.                            *)
StageTakePeek(s) ==
  /\ pc[s] = "taking"
  /\ \E g \in pending : g = First /\ staged' = staged \cup {g} /\ Hold(s, g)
  /\ Move(s, "staging")
  /\ UNCHANGED <<channels, cancel, unfreed, tally>>

(* rx.lock().unwrap().recv(): every game was sent and the sender dropped   *)
(* before the threads started, so this never blocks.  stage_one_game       *)
(* begins by creating the staging directory.                               *)
StageTake(s) ==
  /\ pc[s] = "taking"
  /\ \E g \in pending :
       /\ g = First
       /\ pending' = pending \ {g}
       /\ staged' = staged \cup {g}
       /\ Hold(s, g)
  /\ Move(s, "staging")
  /\ UNCHANGED <<ready, readyLock, progress, cancel, unfreed, tally>>

(* Mutant: the Err of recv() is not looked at.                             *)
StageDrainedIgnored(s) ==
  /\ pc[s] = "taking" /\ pending = {}
  /\ Move(s, "staging")
  /\ UNCHANGED <<channels, cancel, disk, game, tally>>

StageDrained(s) ==
  /\ pc[s] = "taking"
  /\ pending = {}
  /\ Move(s, "exited")
  /\ UNCHANGED <<channels, cancel, disk, game, tally>>

StageSucceeds(s) ==
  /\ pc[s] = "staging"
  /\ Move(s, "sending")
  /\ UNCHANGED <<channels, cancel, disk, game, tally>>

(* Mutant: the worker stops the others and tells nobody why.               *)
StageFailsSilently(s) ==
  /\ pc[s] = "staging"
  /\ Hold(s, NoGame)
  /\ Move(s, "raising")
  /\ UNCHANGED <<channels, cancel, disk, tally>>

(* The error is reported first; the flag is raised by the next statement.  *)
(* What was staged stays, unless creating the directory is what failed.    *)
StageFails(s) ==
  /\ pc[s] = "staging"
  /\ progress' = progress \cup {Msg(game[s], "failed")}
  /\ staged' \in {staged, staged \ {game[s]}}
  /\ Hold(s, NoGame)
  /\ Move(s, "raising")
  /\ UNCHANGED <<pending, ready, readyLock, cancel, unfreed, tally>>

StageRaises(s) ==
  /\ pc[s] = "raising"
  /\ cancel' = TRUE
  /\ Move(s, "exited")
  /\ UNCHANGED <<channels, disk, game, tally>>

(* Mutant: channel() instead of sync_channel(run_pool).                    *)
StageSendUnbounded(s) ==
  /\ pc[s] = "sending"
  /\ ready' = ready \cup {game[s]}
  /\ Hold(s, NoGame)
  /\ Move(s, "idle")
  /\ UNCHANGED <<pending, readyLock, progress, cancel, disk, tally>>

(* tx.send blocks while the channel is full.  It cannot fail: the caller   *)
(* keeps its Arc of the receiver until it returns.                         *)
StageSend(s) ==
  /\ pc[s] = "sending"
  /\ Cardinality(ready) < ReadyCapacity
  /\ ready' = ready \cup {game[s]}
  /\ Hold(s, NoGame)
  /\ Move(s, "idle")
  /\ UNCHANGED <<pending, readyLock, progress, cancel, disk, tally>>

StageStep(s) == \/ StageCheck(s)
                \/ StageTake(s)
                \/ StageDrained(s)
                \/ StageSucceeds(s)
                \/ StageFails(s)
                \/ StageRaises(s)
                \/ StageSend(s)

-----------------------------------------------------------------------------
(* Run workers *)

(* The guard of rx.lock() lives until recv() has returned, so one worker   *)
(* blocks in recv() and the others block on the mutex.                     *)
RunLock(r) ==
  /\ pc[r] = "idle"
  /\ readyLock = NoWorker
  /\ readyLock' = r
  /\ Move(r, "receiving")
  /\ UNCHANGED <<pending, ready, progress, cancel, disk, game, tally>>

RunReceive(r) ==
  /\ pc[r] = "receiving"
  /\ \E g \in ready :
       /\ ready' = ready \ {g}
       /\ Hold(r, g)
  /\ readyLock' = NoWorker
  /\ Move(r, "received")
  /\ UNCHANGED <<pending, progress, cancel, disk, tally>>

(* Mutant: try_recv().                                                     *)
RunGivesUp(r) ==
  /\ pc[r] = "receiving"
  /\ ready = {}
  /\ readyLock' = NoWorker
  /\ Move(r, "exited")
  /\ UNCHANGED <<pending, ready, progress, cancel, disk, game, tally>>

(* recv() fails once the channel is empty and every sender is dropped.     *)
RunDisconnected(r) ==
  /\ pc[r] = "receiving"
  /\ ready = {}
  /\ \A s \in StageWorkers : Closed(s)
  /\ readyLock' = NoWorker
  /\ Move(r, "exited")
  /\ UNCHANGED <<pending, ready, progress, cancel, disk, game, tally>>

(* After cancel the staged game is dropped, its directory left behind.     *)
RunDiscard(r) ==
  /\ pc[r] = "received"
  /\ cancel
  /\ Hold(r, NoGame)
  /\ Move(r, "idle")
  /\ UNCHANGED <<channels, cancel, disk, tally>>

RunStart(r) ==
  /\ pc[r] = "received"
  /\ ~cancel
  /\ Move(r, "running")
  /\ UNCHANGED <<channels, cancel, disk, game, tally>>

(* remove_dir_all, whose result is ignored: the game counts as freed, and  *)
(* the log says so, even if its directory is still there.                  *)
Free(g) ==
  \/ staged' = staged \ {g} /\ UNCHANGED unfreed
  \/ /\ Cardinality(unfreed) < MaxUnfreed
     /\ unfreed' = unfreed \cup {g}
     /\ UNCHANGED staged

(* Mutant: a game without usable frames returns before the removal.        *)
RunReportSkipsFree(r) ==
  /\ pc[r] = "running"
  /\ \/ \E o \in {"skipped", "failed"} :
           progress' = progress \cup {Msg(game[r], o)} /\ UNCHANGED disk
     \/ progress' = progress \cup {Msg(game[r], "rendered")} /\ Free(game[r])
  /\ Hold(r, NoGame)
  /\ Move(r, "idle")
  /\ UNCHANGED <<pending, ready, readyLock, cancel, tally>>

(* run_and_postprocess: only the Ok paths reach the removal; the `?`s      *)
(* return before it.                                                       *)
RunReport(r) ==
  /\ pc[r] = "running"
  /\ \/ progress' = progress \cup {Msg(game[r], "failed")} /\ UNCHANGED disk
     \/ \E o \in {"rendered", "skipped"} :
           progress' = progress \cup {Msg(game[r], o)} /\ Free(game[r])
  /\ Hold(r, NoGame)
  /\ Move(r, "idle")
  /\ UNCHANGED <<pending, ready, readyLock, cancel, tally>>

RunStep(r) == \/ RunLock(r)
              \/ RunReceive(r)
              \/ RunDisconnected(r)
              \/ RunDiscard(r)
              \/ RunStart(r)
              \/ RunReport(r)

(* A panic inside stage_one_game or run_and_postprocess (the watcher       *)
(* thread cannot be spawned, a decoder panics): the thread unwinds, drops  *)
(* its channel ends and holds its game for ever.                           *)
Panic(t) ==
  /\ Cardinality(Panicked) < MaxPanics
  /\ pc[t] \in {"staging", "running"}
  /\ Move(t, "panicked")
  /\ UNCHANGED <<channels, cancel, disk, game, tally>>

-----------------------------------------------------------------------------
(* The calling thread *)

CollectRendered(g) ==
  /\ caller = "collect"
  /\ Msg(g, "rendered") \in progress
  /\ progress' = progress \ {Msg(g, "rendered")}
  /\ rendered' = rendered \cup {g}
  /\ UNCHANGED <<pending, ready, readyLock, cancel, disk, pc, game,
                 caller, skipped, firstErr, result>>

(* Mutant: a skipped game counts as done, too.                             *)
CollectSkippedAsDone(g) ==
  /\ caller = "collect"
  /\ Msg(g, "skipped") \in progress
  /\ progress' = progress \ {Msg(g, "skipped")}
  /\ skipped' = skipped \cup {g}
  /\ rendered' = rendered \cup {g}
  /\ UNCHANGED <<pending, ready, readyLock, cancel, disk, pc, game,
                 caller, firstErr, result>>

CollectSkipped(g) ==
  /\ caller = "collect"
  /\ Msg(g, "skipped") \in progress
  /\ progress' = progress \ {Msg(g, "skipped")}
  /\ skipped' = skipped \cup {g}
  /\ UNCHANGED <<pending, ready, readyLock, cancel, disk, pc, game,
                 caller, rendered, firstErr, result>>

(* Only the first error is kept, and only it raises the flag.              *)
CollectFailed(g) ==
  /\ caller = "collect"
  /\ Msg(g, "failed") \in progress
  /\ progress' = progress \ {Msg(g, "failed")}
  /\ firstErr' = TRUE
  /\ caller' = IF firstErr THEN "collect" ELSE "raise"
  /\ UNCHANGED <<pending, ready, readyLock, cancel, disk, pc, game,
                 rendered, skipped, result>>

CallerRaises ==
  /\ caller = "raise"
  /\ cancel' = TRUE
  /\ caller' = "collect"
  /\ UNCHANGED <<channels, disk, pc, game, rendered, skipped, firstErr, result>>

(* prog_rx is disconnected when both pools are gone; the joins then return *)
(* at once and their results are ignored.                                  *)
Return ==
  /\ caller = "collect"
  /\ progress = {}
  /\ \A t \in Threads : Closed(t)
  /\ caller' = "returned"
  /\ result' = IF firstErr THEN "err" ELSE "ok"
  /\ UNCHANGED <<channels, cancel, disk, pc, game, rendered, skipped, firstErr>>

CallerStep == \/ \E g \in Games : \/ CollectRendered(g)
                                  \/ CollectSkipped(g)
                                  \/ CollectFailed(g)
              \/ CallerRaises
              \/ Return

Returned == result # "none" /\ UNCHANGED vars

Next == \/ \E s \in StageWorkers : StageStep(s)
        \/ \E r \in RunWorkers : RunStep(r)
        \/ \E t \in Threads : Panic(t)
        \/ CallerStep
        \/ Returned

Spec == Init /\ [][Next]_vars

(* Every thread is scheduled, and every external command it waits for      *)
(* terminates: each shipped screenshotter.toml sets timeout_seconds.       *)
Fairness == /\ \A s \in StageWorkers : WF_vars(StageStep(s))
            /\ \A r \in RunWorkers : WF_vars(RunStep(r))
            /\ WF_vars(CallerStep)

FairSpec == Spec /\ Fairness

-----------------------------------------------------------------------------
(* Correctness *)

(* Every variable has its type.                                            *)
TypeOK ==
  /\ pending \subseteq Games
  /\ ready \subseteq Games
  /\ readyLock \in RunWorkers \cup {NoWorker}
  /\ progress \subseteq Report
  /\ cancel \in BOOLEAN
  /\ staged \subseteq Games
  /\ unfreed \subseteq Games
  /\ pc \in [Threads -> StagePC \cup RunPC]
  /\ \A s \in StageWorkers : pc[s] \in StagePC
  /\ \A r \in RunWorkers : pc[r] \in RunPC
  /\ game \in [Threads -> Games \cup {NoGame}]
  /\ caller \in {"collect", "raise", "returned"}
  /\ rendered \subseteq Games
  /\ skipped \subseteq Games
  /\ firstErr \in BOOLEAN
  /\ result \in {"none", "ok", "err"}

(* No game is processed or reported twice: the channels, the threads and   *)
(* the two tallies never share a game (job.rs clones a game into the       *)
(* pending channel and moves it from there on).                            *)
GameInOnePlace ==
  /\ \A t, u \in Threads : game[t] = game[u] /\ t # u => game[t] = NoGame
  /\ \A m, n \in progress : m.game = n.game => m = n
  /\ pending \cap (InHand \cup ready \cup Reported \cup rendered \cup skipped) = {}
  /\ InHand \cap (ready \cup Reported \cup rendered \cup skipped) = {}
  /\ ready \cap (Reported \cup rendered \cup skipped) = {}
  /\ Reported \cap (rendered \cup skipped) = {}
  /\ rendered \cap skipped = {}

(* When the call returns Ok, every game was rendered or skipped, bar those *)
(* of panicked threads, and nothing is left of the staged inputs but what  *)
(* those threads held and what remove_dir_all failed to remove.  ("freed   *)
(* staged inputs for .." is logged of the latter, too: job.rs:400-401.)    *)
OkIsComplete ==
  result = "ok" => /\ Games = rendered \cup skipped \cup Lost
                   /\ staged \subseteq Lost \cup unfreed

(* The cancel flag is up only because some error was reported: a batch     *)
(* without failures is never cut short, and a batch that was cut short     *)
(* cannot return Ok.                                                       *)
CancelHasCause ==
  /\ cancel => firstErr \/ \E m \in progress : m.outcome = "failed"
  /\ result = "ok" => ~cancel

(* As long as no failure is reported, /staging holds, besides the games of *)
(* run workers, at most one per stage worker and one per slot of the ready *)
(* channel, whoever panicked, plus what could not be removed, which        *)
(* nothing reports: the bounded channel is the back-pressure on disk use.  *)
StagingBound ==
  (~firstErr /\ \A m \in progress : m.outcome # "failed") =>
     Cardinality(staged \ {game[r] : r \in RunWorkers})
       <= Cardinality(StageWorkers) + Cardinality(RunWorkers) + Cardinality(unfreed)

(* A game becomes done or skipped only through the caller, and the batch   *)
(* as a whole behaves as its contract says.                                *)
Contract == INSTANCE BatchOutcome WITH lost <- Lost

ImplementsContract == Contract!Spec

(* The call returns, whatever fails, as long as one run worker is alive to *)
(* drain the ready channel (the comment at the top of the run loop).       *)
ReturnsWhileDrained ==
  <>(result # "none" \/ \A r \in RunWorkers : pc[r] = "panicked")

(* The same without the proviso: the comment at job.rs:299-302 says that   *)
(* the ready channel is always drained, so that the joins cannot deadlock. *)
AlwaysReturns == <>(result # "none")
=============================================================================
