------------------------------- MODULE GameRun -------------------------------
(***************************************************************************)
(* The way of each game from the lists to its screenshots: GameStaging,    *)
(* then a container per staged game (FrameCapture), which is given the     *)
(* file and the output directory of the game's id, then the staged files   *)
(* are removed (run_and_postprocess, job.rs).                              *)
(*                                                                         *)
(* How many games are staged or run at a time, and what becomes of the     *)
(* others when one fails, is GameBatch: here no game waits for another.    *)
(***************************************************************************)
EXTENDS GameStaging

CONSTANTS Workers,   \* the programs in the containers, of "gecko" and "ymir"
          Rates, Intervals, Iterations, Every, MaxTorn

ASSUME CaptureAssumption ==
  /\ Workers \subseteq {"gecko", "ymir"}
  /\ Rates \subseteq Nat \ {0}
  /\ {Intervals, Iterations, MaxTorn} \subseteq Nat
  /\ Every \in Nat \ {0}

VARIABLES worker,  \* the one of this job's emulator
          proc, disc, rate, clock, frame, shots, fb

Gecko == INSTANCE FrameCapture WITH Containers <- Slots, Discs <- File, NoDisc <- NoPath,
                                    Outs <- GameIds

Ymir == INSTANCE SaturnCapture WITH Containers <- Slots, Outs <- GameIds

containers == <<worker, proc, disc, rate, clock, frame, shots, fb>>

vars == <<staging, containers>>

Out(i) == games[i].id

Init == /\ StagingInit
        /\ worker \in Workers
        /\ Gecko!CaptureInit
        /\ fb = [i \in Slots |-> Ymir!NoImage]

(* docker run; the worker opens the disc when it has started.              *)
BootContainer(i) ==
  /\ at[i] = "staged"
  /\ LET d == dir[games[i].id][input[i]]
     IN  \/ worker = "gecko" /\ Gecko!Boot(i, d) /\ UNCHANGED fb
         \/ worker = "ymir" /\ Ymir!BootSaturn(i, d) /\ UNCHANGED frame
  /\ UNCHANGED <<staging, worker>>

StopContainer(i) ==
  /\ at[i] = "staged"
  /\ \/ worker = "gecko" /\ Gecko!Stop(i, Out(i)) /\ UNCHANGED fb
     \/ worker = "ymir" /\ Ymir!StopSaturn(i, Out(i)) /\ UNCHANGED frame
  /\ UNCHANGED <<staging, worker>>

RunContainer(i) ==
  /\ at[i] = "staged"
  /\ \/ worker = "gecko" /\ (Gecko!Write(i, Out(i)) \/ Gecko!Emulate(i)) /\ UNCHANGED fb
     \/ worker = "ymir" /\ Ymir!Saturn(i, Out(i)) /\ UNCHANGED frame
  /\ UNCHANGED <<staging, worker>>

(* After a failure the staged files stay.                                  *)
Free(i) ==
  /\ at[i] = "staged" /\ proc[i] = "done"
  /\ To(i, "freed")
  /\ dir' = [dir EXCEPT ![games[i].id] = [p \in Path |-> NoFile]]
  /\ UNCHANGED <<set, phase, games, read, attempt, input, containers>>

Next == \/ StagingNext /\ UNCHANGED containers
        \/ \E i \in Slots : \/ BootContainer(i)
                            \/ StopContainer(i)
                            \/ RunContainer(i)
                            \/ Free(i)

Spec == Init /\ [][Next]_vars

(* run_stages and the stage workers are threads that never wait for        *)
(* anything here.  Whether a container ends is another question.           *)
FairSpec == /\ Spec
            /\ WF_vars((LoadGameSet \/ ResolveGames \/ ResolveFails) /\ UNCHANGED containers)
            /\ \A i \in Slots : WF_vars(StageOne(i) /\ UNCHANGED containers)

-----------------------------------------------------------------------------
(* Correctness *)

(* Every variable has its type, and a container runs for a staged game.    *)
TypeOK ==
  /\ StagingTypeOK
  /\ worker \in Workers
  /\ Gecko!CaptureTypeOK
  /\ fb \in [Slots -> Ymir!FrameBuffer]
  /\ \A i \in Slots : proc[i] # "created" => at[i] \in {"staged", "freed"}

(* What a container of game i should show: the ROM that gamelist.txt names *)
(* for the id.                                                             *)
RomOf(i) ==
  LET e == EntryFor(set.gamelist, set.titlemap[i].stem)
  IN  [entry |-> e, member |-> IF IsDirect(i) THEN 0 ELSE Final(e, BestAnchor(e))]

(* When the worker of gecko ends well, its directory holds the number of   *)
(* screenshots it should, evenly spaced in name and in time, all of the    *)
(* right ROM, whatever another container does.  They are named after a     *)
(* time one second later than the one they were taken.                     *)
CaptureIsComplete ==
  \A i \in DOMAIN games : worker = "gecko" /\ proc[i] = "done" =>
    LET step == rate[i] * 2
    IN  {[s EXCEPT !.whole = TRUE] : s \in shots[Out(i)]} =
          {[frame |-> k * step, at |-> k * step - rate[i], of |-> RomOf(i), whole |-> TRUE]
             : k \in 1..(Intervals + 1)}

(* The worker of ymir never writes a frame that the emulator completed     *)
(* before the previous time to write one: if the game hangs, screenshots   *)
(* stop instead of repeating themselves.                                   *)
ShotsAreFresh ==
  \A i \in DOMAIN games : worker = "ymir" /\ proc[i] # "created" =>
    LET step == Ymir!Step(i) * Every
    IN  \A s \in shots[Out(i)] : /\ s.of = RomOf(i)
                                 /\ s.frame % step = 0
                                 /\ s.at \in (s.frame - step + 1)..s.frame
=============================================================================
