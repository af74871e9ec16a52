----------------------------- MODULE TimedCommand -----------------------------
(***************************************************************************)
(* run_checked_with_timeout (proc.rs), as run_screenshotter_one            *)
(* (docker.rs) calls it from every run worker: `docker run` with a         *)
(* container of its own name, a thread that waits for it, and a watcher    *)
(* thread that kills the container by its name when the time is up.        *)
(*                                                                         *)
(* Docker is modelled from what the code relies on: `docker run` ends when *)
(* its container ends, with its exit code; `docker kill` stops a container *)
(* that is up, and fails if there is none of that name.  How long a        *)
(* container takes, to come up or to end, is open.                         *)
(***************************************************************************)
EXTENDS Naturals

CONSTANTS Calls,     \* concurrent calls
          Timed,     \* those of an emulator with timeout_seconds
          MaxFaults  \* bound: failures of docker and of the log file

ASSUME CommandAssumption == /\ Timed \subseteq Calls
                            /\ MaxFaults \in Nat

VARIABLES pc,        \* where each call is
          watch,     \* where its watcher is, or what became of it
          told,      \* the message in done_tx/done_rx
          timedOut,  \* timed_out: Arc<AtomicBool>
          box,       \* its container
          exit,      \* how its `docker run` process ended
          faults     \* failures so far

vars == <<pc, watch, told, timedOut, box, exit, faults>>

WatcherEnds == {"none", "told", "killed", "missed"}

Returned(c) == pc[c] \in {"ok", "error"}

(* Without timeout_seconds the call is run_checked: the same, with no      *)
(* watcher.                                                                *)
Init ==
  /\ pc = [c \in Calls |-> "spawn"]
  /\ watch = [c \in Calls |-> "none"]
  /\ told = [c \in Calls |-> FALSE]
  /\ timedOut = [c \in Calls |-> FALSE]
  /\ box = [c \in Calls |-> "none"]
  /\ exit = [c \in Calls |-> "none"]
  /\ faults = 0

Fault == /\ faults < MaxFaults
         /\ faults' = faults + 1

-----------------------------------------------------------------------------
(* The calling thread                                                      *)

Spawn(c) ==
  /\ pc[c] = "spawn"
  /\ pc' = [pc EXCEPT ![c] = "wait"]
  /\ watch' = [watch EXCEPT ![c] = IF c \in Timed THEN "recv" ELSE "none"]
  /\ box' = [box EXCEPT ![c] = "starting"]
  /\ UNCHANGED <<told, timedOut, exit, faults>>

(* The log file cannot be opened or written, or docker not be spawned.     *)
SpawnFails(c) ==
  /\ pc[c] = "spawn"
  /\ Fault
  /\ pc' = [pc EXCEPT ![c] = "error"]
  /\ UNCHANGED <<watch, told, timedOut, box, exit>>

(* Mutant: the caller stops waiting once it was told of the timeout.       *)
WaitEndsEarly(c) ==
  /\ pc[c] = "wait"
  /\ exit[c] # "none" \/ timedOut[c]
  /\ pc' = [pc EXCEPT ![c] = "send"]
  /\ UNCHANGED <<watch, told, timedOut, box, exit, faults>>

(* child.wait_with_output()                                                *)
WaitEnds(c) ==
  /\ pc[c] = "wait"
  /\ exit[c] # "none"
  /\ pc' = [pc EXCEPT ![c] = "send"]
  /\ UNCHANGED <<watch, told, timedOut, box, exit, faults>>

(* Its error is kept until the watcher has been joined.                    *)
WaitFails(c) ==
  /\ pc[c] = "wait"
  /\ Fault
  /\ pc' = [pc EXCEPT ![c] = "sendErr"]
  /\ UNCHANGED <<watch, told, timedOut, box, exit>>

(* done_tx.send(()); its result is ignored.                                *)
Send(c) ==
  /\ pc[c] \in {"send", "sendErr"}
  /\ told' = [told EXCEPT ![c] = TRUE]
  /\ pc' = [pc EXCEPT ![c] = IF pc[c] = "send" THEN "join" ELSE "joinErr"]
  /\ UNCHANGED <<watch, timedOut, box, exit, faults>>

(* Mutant: the caller does not wait for the watcher.                       *)
JoinSkipped(c) ==
  /\ pc[c] = "join"
  /\ pc' = [pc EXCEPT ![c] = "decide"]
  /\ UNCHANGED <<watch, told, timedOut, box, exit, faults>>

(* watcher.join()                                                          *)
Join(c) ==
  /\ pc[c] = "join"
  /\ watch[c] \in WatcherEnds
  /\ pc' = [pc EXCEPT ![c] = "decide"]
  /\ UNCHANGED <<watch, told, timedOut, box, exit, faults>>

(* let output = output?                                                    *)
JoinErr(c) ==
  /\ pc[c] = "joinErr"
  /\ watch[c] \in WatcherEnds
  /\ pc' = [pc EXCEPT ![c] = "error"]
  /\ UNCHANGED <<watch, told, timedOut, box, exit, faults>>

(* Mutant: the exit code decides alone.                                    *)
DecideByExit(c) ==
  /\ pc[c] = "decide"
  /\ pc' = [pc EXCEPT ![c] = IF exit[c] = "zero" THEN "ok" ELSE "error"]
  /\ UNCHANGED <<watch, told, timedOut, box, exit, faults>>

Decide(c) ==
  /\ pc[c] = "decide"
  /\ pc' = [pc EXCEPT ![c] = IF ~timedOut[c] /\ exit[c] = "zero" THEN "ok" ELSE "error"]
  /\ UNCHANGED <<watch, told, timedOut, box, exit, faults>>

(* The log file cannot be written.                                         *)
DecideFails(c) ==
  /\ pc[c] = "decide"
  /\ Fault
  /\ pc' = [pc EXCEPT ![c] = "error"]
  /\ UNCHANGED <<watch, told, timedOut, box, exit>>

Caller(c) == \/ Spawn(c)
             \/ WaitEnds(c)
             \/ Send(c)
             \/ Join(c)
             \/ JoinErr(c)
             \/ Decide(c)

CallerFails(c) == SpawnFails(c) \/ WaitFails(c) \/ DecideFails(c)

-----------------------------------------------------------------------------
(* The watcher thread                                                      *)

(* recv_timeout returns the message, if there is one ..                    *)
Told(c) ==
  /\ watch[c] = "recv"
  /\ told[c]
  /\ watch' = [watch EXCEPT ![c] = "told"]
  /\ UNCHANGED <<pc, told, timedOut, box, exit, faults>>

(* Mutant: the flag is raised, but nothing is killed.                      *)
TimeoutSilent(c) ==
  /\ watch[c] = "recv"
  /\ ~told[c]
  /\ timedOut' = [timedOut EXCEPT ![c] = TRUE]
  /\ watch' = [watch EXCEPT ![c] = "told"]
  /\ UNCHANGED <<pc, told, box, exit, faults>>

(* .. and times out if not, whether or not the process has just ended.     *)
Timeout(c) ==
  /\ watch[c] = "recv"
  /\ ~told[c]
  /\ timedOut' = [timedOut EXCEPT ![c] = TRUE]
  /\ watch' = [watch EXCEPT ![c] = "kill"]
  /\ UNCHANGED <<pc, told, box, exit, faults>>

(* docker kill <name>                                                      *)
Kill(c) ==
  /\ watch[c] = "kill"
  /\ box[c] = "up"
  /\ box' = [box EXCEPT ![c] = "gone"]
  /\ exit' = [exit EXCEPT ![c] = "nonzero"]
  /\ watch' = [watch EXCEPT ![c] = "killed"]
  /\ UNCHANGED <<pc, told, timedOut, faults>>

(* There is no such container, not yet or not any more.                    *)
KillMisses(c) ==
  /\ watch[c] = "kill"
  /\ box[c] # "up"
  /\ watch' = [watch EXCEPT ![c] = "missed"]
  /\ UNCHANGED <<pc, told, timedOut, box, exit, faults>>

KillFails(c) ==
  /\ watch[c] = "kill"
  /\ Fault
  /\ watch' = [watch EXCEPT ![c] = "missed"]
  /\ UNCHANGED <<pc, told, timedOut, box, exit>>

Watcher(c) == \/ Told(c)
              \/ Timeout(c)
              \/ Kill(c)
              \/ KillMisses(c)

-----------------------------------------------------------------------------
(* Docker                                                                  *)

ContainerStarts(c) ==
  /\ box[c] = "starting"
  /\ box' = [box EXCEPT ![c] = "up"]
  /\ UNCHANGED <<pc, watch, told, timedOut, exit, faults>>

(* `docker run` ends: the container cannot be created, ..                  *)
ContainerFails(c) ==
  /\ box[c] = "starting"
  /\ box' = [box EXCEPT ![c] = "gone"]
  /\ exit' = [exit EXCEPT ![c] = "nonzero"]
  /\ UNCHANGED <<pc, watch, told, timedOut, faults>>

(* .. or the emulator has finished, or given up.                           *)
ContainerExits(c, code) ==
  /\ box[c] = "up"
  /\ box' = [box EXCEPT ![c] = "gone"]
  /\ exit' = [exit EXCEPT ![c] = code]
  /\ UNCHANGED <<pc, watch, told, timedOut, faults>>

Docker(c) == \/ ContainerStarts(c)
             \/ ContainerFails(c)
             \/ \E code \in {"zero", "nonzero"} : ContainerExits(c, code)

(* All calls have returned.                                                *)
Finished == /\ \A c \in Calls : Returned(c)
            /\ UNCHANGED vars

Next == \/ \E c \in Calls : \/ Caller(c)
                            \/ CallerFails(c)
                            \/ Watcher(c)
                            \/ KillFails(c)
                            \/ Docker(c)
        \/ Finished

Spec == Init /\ [][Next]_vars

(* The operating system runs both threads.  Nothing obliges a container to *)
(* come up, or an emulator to finish.                                      *)
Fairness == \A c \in Calls : WF_vars(Caller(c)) /\ WF_vars(Watcher(c))

FairSpec == Spec /\ Fairness

-----------------------------------------------------------------------------
(* Correctness *)

(* Every variable has its type, and a call that looks at the status of its  *)
(* process has one.                                                        *)
TypeOK ==
  /\ pc \in [Calls -> {"spawn", "wait", "send", "sendErr", "join", "joinErr",
                       "decide", "ok", "error"}]
  /\ watch \in [Calls -> WatcherEnds \cup {"recv", "kill"}]
  /\ told \in [Calls -> BOOLEAN]
  /\ timedOut \in [Calls -> BOOLEAN]
  /\ box \in [Calls -> {"none", "starting", "up", "gone"}]
  /\ exit \in [Calls -> {"none", "zero", "nonzero"}]
  /\ \A c \in Calls : pc[c] \in {"send", "join", "decide"} => exit[c] # "none"
  /\ faults \in 0..MaxFaults

(* docker kill goes by name, from a thread of its own: none may be on its  *)
(* way once the call has returned.                                         *)
NoLateKill == \A c \in Calls : Returned(c) => watch[c] \in WatcherEnds

(* Ok means that the emulator ended by itself, with code 0, and that       *)
(* nobody has tried to kill it, although watcher and caller decide apart.  *)
OkIsClean ==
  \A c \in Calls : pc[c] = "ok" => /\ exit[c] = "zero"
                                   /\ watch[c] \in {"none", "told"}

(* A call that returns leaves no container running, timed out or not,      *)
(* unless something failed on its way.                                     *)
NoOrphan == \A c \in Calls : Returned(c) /\ faults = 0 => box[c] = "gone"

(* A call with a timeout returns, even if its emulator hangs, unless the   *)
(* kill found no container to stop or failed.                              *)
TimedCallsReturn == \A c \in Timed : <>(Returned(c) \/ watch[c] = "missed")

-----------------------------------------------------------------------------
(* What a comment says, refuted by the code                                *)

(* proc.rs:98-100: when the timeout elapses the call fails instead of      *)
(* blocking forever.                                                       *)
TimeoutEndsCall == \A c \in Timed : <>Returned(c)
=============================================================================
