--------------------------- MODULE TimedCommandProofs ---------------------------
(* Proofs about TimedCommand for any number of concurrent calls, with and  *)
(* without a timeout, and any number of failures.                          *)
EXTENDS TimedCommand, TLAPS

(* The process ends when its container does.                               *)
Ended == \A c \in Calls : /\ exit[c] # "none" <=> box[c] = "gone"
                          /\ pc[c] = "spawn" => box[c] = "none"

(* The watcher lives between spawn and join, and whoever is past recv has  *)
(* either the message or the flag.                                         *)
Watched ==
  \A c \in Calls :
    /\ pc[c] = "spawn" => watch[c] = "none"
    /\ pc[c] \in {"decide", "ok", "error"} => watch[c] \in WatcherEnds
    /\ watch[c] \in {"kill", "killed", "missed"} => timedOut[c]

(* What a verdict rests on.                                                *)
Decided ==
  \A c \in Calls :
    /\ pc[c] = "ok" => exit[c] = "zero" /\ ~timedOut[c]
    /\ pc[c] \in {"sendErr", "joinErr"} => faults # 0
    /\ pc[c] = "error" => faults # 0 \/ exit[c] # "none"

CInv == TypeOK /\ Ended /\ Watched /\ Decided

LEMMA InitInv == Init => CInv
BY CommandAssumption
   DEF Init, CInv, TypeOK, Ended, Watched, Decided, WatcherEnds

LEMMA CallerInv ==
  ASSUME CInv, NEW c \in Calls, Caller(c)
  PROVE  CInv'
<1> USE DEF CInv, TypeOK, WatcherEnds
<1>1. CASE Spawn(c)
  BY <1>1 DEF Spawn, Ended, Watched, Decided
<1>2. CASE WaitEnds(c)
  BY <1>2 DEF WaitEnds, Ended, Watched, Decided
<1>3. CASE Send(c)
  BY <1>3 DEF Send, Ended, Watched, Decided
<1>4. CASE Join(c)
  BY <1>4 DEF Join, Ended, Watched, Decided
<1>5. CASE JoinErr(c)
  BY <1>5 DEF JoinErr, Ended, Watched, Decided
<1>6. CASE Decide(c)
  BY <1>6 DEF Decide, Ended, Watched, Decided
<1> QED BY <1>1, <1>2, <1>3, <1>4, <1>5, <1>6 DEF Caller

LEMMA FaultInv ==
  ASSUME CInv, NEW c \in Calls, CallerFails(c) \/ KillFails(c)
  PROVE  CInv'
<1> USE CommandAssumption DEF CInv, TypeOK, WatcherEnds, Fault
<1>1. CASE SpawnFails(c)
  BY <1>1 DEF SpawnFails, Ended, Watched, Decided
<1>2. CASE WaitFails(c)
  BY <1>2 DEF WaitFails, Ended, Watched, Decided
<1>3. CASE DecideFails(c)
  BY <1>3 DEF DecideFails, Ended, Watched, Decided
<1>4. CASE KillFails(c)
  BY <1>4 DEF KillFails, Ended, Watched, Decided
<1> QED BY <1>1, <1>2, <1>3, <1>4 DEF CallerFails

LEMMA WatcherInv ==
  ASSUME CInv, NEW c \in Calls, Watcher(c)
  PROVE  CInv'
<1> USE DEF CInv, TypeOK, WatcherEnds
<1>1. CASE Told(c)
  BY <1>1 DEF Told, Ended, Watched, Decided
<1>2. CASE Timeout(c)
  BY <1>2 DEF Timeout, Ended, Watched, Decided
<1>3. CASE Kill(c)
  BY <1>3 DEF Kill, Ended, Watched, Decided
<1>4. CASE KillMisses(c)
  BY <1>4 DEF KillMisses, Ended, Watched, Decided
<1> QED BY <1>1, <1>2, <1>3, <1>4 DEF Watcher

LEMMA DockerInv ==
  ASSUME CInv, NEW c \in Calls, Docker(c)
  PROVE  CInv'
<1> USE DEF CInv, TypeOK, WatcherEnds
<1>1. CASE ContainerStarts(c)
  BY <1>1 DEF ContainerStarts, Ended, Watched, Decided
<1>2. CASE ContainerFails(c)
  BY <1>2 DEF ContainerFails, Ended, Watched, Decided
<1>3. ASSUME NEW code \in {"zero", "nonzero"}, ContainerExits(c, code)
      PROVE  CInv'
  BY <1>3 DEF ContainerExits, Ended, Watched, Decided
<1> QED BY <1>1, <1>2, <1>3 DEF Docker

LEMMA NextInv == CInv /\ [Next]_vars => CInv'
<1> SUFFICES ASSUME CInv, [Next]_vars
             PROVE  CInv'
  OBVIOUS
<1>1. CASE UNCHANGED vars
  BY <1>1 DEF vars, CInv, TypeOK, Ended, Watched, Decided
<1> QED BY <1>1, CallerInv, FaultInv, WatcherInv, DockerInv DEF Next, Finished

LEMMA SpecInv == Spec => []CInv
BY InitInv, NextInv, PTL DEF Spec

(* Every variable of every call has its type, and Decide never looks at a  *)
(* status that is not there.                                               *)
THEOREM TypeCorrect == Spec => []TypeOK
<1>1. CInv => TypeOK
  BY DEF CInv
<1> QED BY <1>1, SpecInv, PTL

(* No docker kill is on its way when run_checked_with_timeout has          *)
(* returned: every path to a result goes through watcher.join().           *)
THEOREM NoLateKillCorrect == Spec => []NoLateKill
<1>1. CInv => NoLateKill
  BY DEF CInv, Watched, NoLateKill, Returned
<1> QED BY <1>1, SpecInv, PTL

(* Ok means that the emulator ended with code 0 and nobody tried to kill   *)
(* it, however the timeout and the end of the process fall.                *)
THEOREM OkIsCleanCorrect == Spec => []OkIsClean
<1>1. CInv => OkIsClean
  BY DEF CInv, TypeOK, Watched, Decided, OkIsClean, WatcherEnds
<1> QED BY <1>1, SpecInv, PTL

(* A call leaves no container running unless something failed.             *)
THEOREM NoOrphanCorrect == Spec => []NoOrphan
<1>1. CInv => NoOrphan
  BY DEF CInv, Ended, Decided, NoOrphan, Returned
<1> QED BY <1>1, SpecInv, PTL
=============================================================================
