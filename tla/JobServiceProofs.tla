--------------------------- MODULE JobServiceProofs ---------------------------
(* Proofs about JobService for any number of requests, any assignment of   *)
(* job ids to them, and any number of crashes, panics and failing writes.  *)
EXTENDS JobService, TLAPS

(* No backend is told the body of these unless a step asks for it.         *)
USE DEF registry, webhook, cancels, worker, cleanup, budget

-----------------------------------------------------------------------------
(* Type correctness *)

LEMMA RecordType ==
  ASSUME NEW st \in JobState, NEW k \in 0..Steps, NEW at \in 0..MaxClock
  PROVE  Record(st, k, at) \in Status
BY DEF Record, Status

LEMMA WriterTypes ==
  /\ Worker \in Writers
  /\ \A h \in Handlers : h \in Writers /\ IdOf[h] \in Ids
  /\ \A c \in Cancellers : c \in Writers /\ CancelOf[c] \in Ids
BY ServiceAssumption

LEMMA GetType ==
  ASSUME RegistryTypeOK, NEW id \in Ids, Get(id) # NoRecord
  PROVE  Get(id) \in Status
BY DEF RegistryTypeOK, Get

LEMMA BeginPersistType ==
  ASSUME RegistryTypeOK, NEW p \in Writers, NEW id \in Ids, NEW s \in Status,
         BeginPersist(p, id, s)
  PROVE  RegistryTypeOK'
BY DEF RegistryTypeOK, BeginPersist, Idle

LEMMA PersistStepType ==
  ASSUME RegistryTypeOK, NEW p \in Writers, PersistStep(p)
  PROVE  RegistryTypeOK'
<1>1. wr[p] \in {"write", "rename", "insert"} => wrId[p] \in Ids /\ rec[p] \in Status
  BY DEF RegistryTypeOK, Idle
<1>2. CASE PersistWrite(p)
  BY <1>1, <1>2 DEF PersistWrite, RegistryTypeOK, Idle
<1>3. CASE PersistRename(p)
  BY <1>1, <1>3 DEF PersistRename, RegistryTypeOK, Idle
<1>4. CASE PersistRenameMissing(p)
  BY <1>1, <1>4 DEF PersistRenameMissing, RegistryTypeOK, Idle
<1>5. CASE PersistInsert(p)
  BY <1>1, <1>5 DEF PersistInsert, RegistryTypeOK, Idle
<1> QED BY <1>2, <1>3, <1>4, <1>5 DEF PersistStep

LEMMA PersistFaultType ==
  ASSUME RegistryTypeOK, NEW p \in Writers, PersistFault(p)
  PROVE  RegistryTypeOK'
BY RegistryAssumption DEF PersistFault, RegistryTypeOK, Idle

LEMMA RemoveType ==
  ASSUME RegistryTypeOK, NEW id \in Ids, Forget(id) \/ RemoveDir(id) \/ RemoveDirFault
  PROVE  RegistryTypeOK'
<1>1. CASE Forget(id)
  BY <1>1 DEF Forget, RegistryTypeOK, Idle
<1>2. CASE RemoveDir(id)
  BY <1>2 DEF RemoveDir, RegistryTypeOK, Idle
<1>3. CASE RemoveDirFault
  BY <1>3, RegistryAssumption DEF RemoveDirFault, RegistryTypeOK, Idle
<1> QED BY <1>1, <1>2, <1>3

LEMMA LoseMemoryType ==
  ASSUME RegistryTypeOK, LoseMemory
  PROVE  RegistryTypeOK'
BY DEF LoseMemory, RegistryTypeOK, Idle

(* The types of the variables of JobService itself.                        *)
WebhookTypeOK ==
  /\ hpc \in [Handlers -> Handling \cup {"new", "done", "gone"}]
  /\ reply \in [Handlers -> {"none", "200", "202", "500"}]
  /\ created \in [Handlers -> 0..MaxClock]
  /\ queue \in Seq(Handlers)

CancelTypeOK ==
  /\ cpc \in [Cancellers -> {"new", "persist", "done", "gone"}]
  /\ answer \in [Cancellers -> {"none", "cancelled", "not_found", "conflict", "error"}]

WorkerTypeOK ==
  /\ wpc \in {"recv", "check", "run", "finish"}
  /\ job \in Handlers \cup {NoJob}
  /\ wpc # "recv" => job \in Handlers
  /\ step \in 0..Steps

CleanupTypeOK ==
  /\ clpc \in {"sleep", "list", "forget", "rmdir"}
  /\ cutoff \in 0..MaxClock
  /\ expired \subseteq Ids
  /\ victim \in Ids \cup {NoId}
  /\ clpc = "rmdir" => victim \in Ids

BudgetTypeOK ==
  /\ now \in 0..MaxClock
  /\ crashes \in 0..MaxCrashes
  /\ panics \in 0..MaxPanics

TypeParts ==
  /\ RegistryTypeOK
  /\ WebhookTypeOK
  /\ CancelTypeOK
  /\ WorkerTypeOK
  /\ CleanupTypeOK
  /\ BudgetTypeOK

LEMMA TypeOKParts == (TypeOK <=> TypeParts) /\ (TypeOK' <=> TypeParts')
BY DEF TypeOK, TypeParts, WebhookTypeOK, CancelTypeOK, WorkerTypeOK, CleanupTypeOK,
       BudgetTypeOK

LEMMA UnchangedRegistryType ==
  ASSUME RegistryTypeOK, UNCHANGED registry
  PROVE  RegistryTypeOK'
BY DEF RegistryTypeOK, Idle

LEMMA InitType == Init => TypeOK
BY RegistryAssumption, ServiceAssumption
   DEF Init, RegistryInit, TypeOK, RegistryTypeOK, Idle

LEMMA WebhookType ==
  ASSUME TypeOK, NEW h \in Handlers, Webhook(h) \/ Disconnect(h)
  PROVE  TypeOK'
<1> USE TypeOKParts DEF TypeParts
<1> /\ WorkerTypeOK' /\ CancelTypeOK' /\ CleanupTypeOK' /\ BudgetTypeOK'
  BY DEF Webhook, Receive, Refuse, FastPath, FastReply, SlowPath, Enqueue, Disconnect,
         WorkerTypeOK, CancelTypeOK, CleanupTypeOK, BudgetTypeOK
<1>1. CASE Receive(h)
  <2>1. Record("queued", 0, now) \in Status
    BY RecordType, RegistryAssumption DEF BudgetTypeOK, JobState
  <2>2. RegistryTypeOK'
    BY <1>1, <2>1, WriterTypes, BeginPersistType DEF Receive
  <2> QED BY <1>1, <2>2 DEF Receive, WebhookTypeOK, BudgetTypeOK, Handling
<1>2. CASE FastPath(h)
  <2>1. Record("already_completed", 0, now) \in Status
    BY RecordType, RegistryAssumption DEF BudgetTypeOK, JobState
  <2>2. RegistryTypeOK'
    BY <1>2, <2>1, WriterTypes, BeginPersistType DEF FastPath
  <2> QED BY <1>2, <2>2 DEF FastPath, WebhookTypeOK, Handling
<1>3. CASE Enqueue(h)
  BY <1>3, UnchangedRegistryType DEF Enqueue, WebhookTypeOK
<1>4. CASE Refuse(h) \/ FastReply(h) \/ SlowPath(h) \/ Disconnect(h)
  BY <1>4, UnchangedRegistryType
     DEF Refuse, FastReply, SlowPath, Disconnect, WebhookTypeOK, Handling
<1> QED BY <1>1, <1>2, <1>3, <1>4 DEF Webhook

LEMMA CancelType ==
  ASSUME TypeOK, NEW c \in Cancellers, Cancel(c)
  PROVE  TypeOK'
<1> USE TypeOKParts DEF TypeParts
<1> /\ WebhookTypeOK' /\ WorkerTypeOK' /\ CleanupTypeOK' /\ BudgetTypeOK'
  BY DEF Cancel, CancelRejected, CancelBegins, CancelEnds,
         WorkerTypeOK, WebhookTypeOK, CleanupTypeOK, BudgetTypeOK
<1>1. CASE CancelBegins(c)
  <2>1. Get(CancelOf[c]) \in Status
    BY <1>1, WriterTypes, GetType DEF CancelBegins, Is
  <2>2. Record("cancelled", Get(CancelOf[c]).step, now) \in Status
    BY <2>1 DEF BudgetTypeOK, JobState, Record, Status
  <2>3. RegistryTypeOK'
    BY <1>1, <2>2, WriterTypes, BeginPersistType DEF CancelBegins
  <2> QED BY <1>1, <2>3 DEF CancelBegins, CancelTypeOK
<1>2. CASE CancelRejected(c) \/ CancelEnds(c)
  BY <1>2, UnchangedRegistryType DEF CancelRejected, CancelEnds, Answer, CancelTypeOK
<1> QED BY <1>1, <1>2 DEF Cancel

LEMMA WorkerType ==
  ASSUME TypeOK, WorkerStep \/ Panic
  PROVE  TypeOK'
<1> USE TypeOKParts DEF TypeParts
<1> /\ CancelTypeOK' /\ CleanupTypeOK'
  BY DEF WorkerStep, Dequeue, SkipCancelled, Start, SetStage, Complete, AlreadyCompleted,
         Fail, Finish, WorkerNext, Panic, CancelTypeOK, CleanupTypeOK
<1>1. CASE Dequeue
  <2>1. Head(queue) \in Handlers /\ Tail(queue) \in Seq(Handlers)
    BY <1>1 DEF Dequeue, WebhookTypeOK
  <2> QED BY <1>1, <2>1, UnchangedRegistryType
          DEF Dequeue, WebhookTypeOK, WorkerTypeOK, BudgetTypeOK
<1>2. CASE Start
  <2>1. job \in Handlers
    BY <1>2 DEF Start, WorkerTypeOK
  <2>2. Record("running", 0, created[job]) \in Status
    BY <2>1, RecordType, RegistryAssumption DEF WebhookTypeOK, JobState
  <2>3. RegistryTypeOK'
    BY <1>2, <2>1, <2>2, WriterTypes, BeginPersistType DEF Start
  <2> QED BY <1>2, <2>1, <2>3, RegistryAssumption
          DEF Start, WebhookTypeOK, WorkerTypeOK, BudgetTypeOK
<1>3. CASE SetStage
  <2>1. job \in Handlers /\ step' \in 0..Steps
    BY <1>3, RegistryAssumption DEF SetStage, WorkerTypeOK
  <2>2. Record("running", step', created[job]) \in Status
    BY <2>1, RecordType DEF WebhookTypeOK, JobState
  <2>3. RegistryTypeOK'
    BY <1>3, <2>1, <2>2, WriterTypes, BeginPersistType DEF SetStage
  <2> QED BY <1>3, <2>1, <2>3 DEF SetStage, WebhookTypeOK, WorkerTypeOK, BudgetTypeOK
<1>4. ASSUME NEW st \in JobState, Finish(st)
      PROVE  TypeOK'
  <2>1. job \in Handlers
    BY <1>4 DEF Finish, WorkerTypeOK
  <2>2. Record(st, step, now) \in Status
    BY RecordType DEF WorkerTypeOK, BudgetTypeOK
  <2>3. RegistryTypeOK'
    BY <1>4, <2>1, <2>2, WriterTypes, BeginPersistType DEF Finish
  <2> QED BY <1>4, <2>1, <2>3
          DEF Finish, WebhookTypeOK, WorkerTypeOK, BudgetTypeOK, CancelTypeOK, CleanupTypeOK
<1>5. CASE SkipCancelled \/ WorkerNext
  BY <1>5, UnchangedRegistryType
     DEF SkipCancelled, WorkerNext, WebhookTypeOK, WorkerTypeOK, BudgetTypeOK
<1>6. CASE Panic
  BY <1>6, UnchangedRegistryType, ServiceAssumption
     DEF Panic, WebhookTypeOK, WorkerTypeOK, BudgetTypeOK
<1> QED BY <1>1, <1>2, <1>3, <1>4, <1>5, <1>6
        DEF WorkerStep, Complete, AlreadyCompleted, Fail, JobState

LEMMA CleanupType ==
  ASSUME TypeOK, Cleanup
  PROVE  TypeOK'
<1> USE TypeOKParts DEF TypeParts
<1> /\ WebhookTypeOK' /\ CancelTypeOK' /\ WorkerTypeOK' /\ BudgetTypeOK'
  BY DEF Cleanup, CleanupStart, CleanupList, CleanupForget, CleanupRemove, CleanupEnd,
         WebhookTypeOK, CancelTypeOK, WorkerTypeOK, BudgetTypeOK
<1>1. CASE CleanupStart \/ CleanupList \/ CleanupEnd
  BY <1>1, UnchangedRegistryType
     DEF CleanupStart, CleanupList, CleanupEnd, CleanupTypeOK, BudgetTypeOK
<1>2. CASE CleanupForget
  <2>1. PICK id \in expired : Forget(id) /\ victim' = id /\ expired' = expired \ {id}
    BY <1>2 DEF CleanupForget
  <2>2. id \in Ids
    BY DEF CleanupTypeOK
  <2>3. RegistryTypeOK'
    BY <2>1, <2>2, RemoveType
  <2> QED BY <1>2, <2>1, <2>2, <2>3 DEF CleanupForget, CleanupTypeOK
<1>3. CASE CleanupRemove
  <2>1. victim \in Ids
    BY <1>3 DEF CleanupRemove, CleanupTypeOK
  <2>2. RegistryTypeOK'
    BY <1>3, <2>1, RemoveType DEF CleanupRemove
  <2> QED BY <1>3, <2>2 DEF CleanupRemove, CleanupTypeOK
<1> QED BY <1>1, <1>2, <1>3 DEF Cleanup

LEMMA EnvironmentType ==
  ASSUME TypeOK, \/ \E p \in Writers : Persist(p) \/ PersistFails(p)
                 \/ Tick
                 \/ Crash
  PROVE  TypeOK'
<1> USE TypeOKParts DEF TypeParts
<1>1. ASSUME NEW p \in Writers, Persist(p) \/ PersistFails(p)
      PROVE  TypeOK'
  <2>1. RegistryTypeOK'
    BY <1>1, PersistStepType, PersistFaultType DEF Persist, PersistFails
  <2> QED BY <1>1, <2>1 DEF Persist, PersistFails, WebhookTypeOK, CancelTypeOK, WorkerTypeOK,
                            CleanupTypeOK, BudgetTypeOK
<1>2. CASE Tick
  BY <1>2, UnchangedRegistryType, RegistryAssumption
     DEF Tick, WebhookTypeOK, CancelTypeOK, WorkerTypeOK, CleanupTypeOK, BudgetTypeOK
<1>3. CASE Crash
  <2>1. RegistryTypeOK'
    BY <1>3, LoseMemoryType DEF Crash
  <2>2. WebhookTypeOK'
    BY <1>3 DEF Crash, WebhookTypeOK
  <2> QED BY <1>3, <2>1, <2>2, RegistryAssumption, ServiceAssumption
          DEF Crash, CancelTypeOK, WorkerTypeOK, CleanupTypeOK, BudgetTypeOK
<1> QED BY <1>1, <1>2, <1>3

LEMMA UnchangedType == TypeOK /\ UNCHANGED vars => TypeOK'
BY DEF vars, TypeOK, RegistryTypeOK, Idle

LEMMA NextType == TypeOK /\ [Next]_vars => TypeOK'
BY WebhookType, CancelType, WorkerType, CleanupType, EnvironmentType, UnchangedType DEF Next

(* TypeOK (every status that is written, and the job it is written for,    *)
(* is a proper one whoever writes) holds for any number of requests,       *)
(* crashes and faults.                                                     *)
THEOREM TypeCorrect == Spec => []TypeOK
<1>1. Init => TypeOK
  BY InitType
<1>2. TypeOK /\ [Next]_vars => TypeOK'
  BY NextType
<1> QED BY <1>1, <1>2, PTL DEF Spec

-----------------------------------------------------------------------------
(* Durability.  AcceptedIsDurable is not inductive: what makes a deletion  *)
(* harmless is that every record, wherever a writer, a crash or a rename   *)
(* left it, is stamped no earlier than its job was created.                *)

Started(h) == hpc[h] # "new"

(* The records job id may have at this point.                              *)
Proper == [id \in Ids |->
             {NoRecord} \cup
             {r \in Status : \E h \in Handlers : /\ Started(h)
                                                 /\ IdOf[h] = id
                                                 /\ created[h] <= r.stamp}]

(* The jobs whose retention period is over.                                *)
Overdue == {id \in Ids : \E h \in Handlers : /\ Started(h)
                                             /\ IdOf[h] = id
                                             /\ created[h] < now}

(* The file of h has been renamed once.                                    *)
Posted(h) == \/ hpc[h] = "persist" /\ wr[h] \in {"insert", "ok"}
             \/ hpc[h] = "send"
             \/ reply[h] = "202"

Clocks == /\ \A h \in Handlers : Started(h) => created[h] <= now
          /\ \A h, k \in Handlers :
               Started(h) /\ Started(k) /\ IdOf[h] = IdOf[k] => created[h] = created[k]
          /\ cutoff <= now

Owned == /\ \A h \in Handlers : /\ hpc[h] = "persist" => wrId[h] = IdOf[h]
                                /\ reply[h] = "202" => Started(h)
         /\ \A i \in 1..Len(queue) : Started(queue[i])
         /\ wpc # "recv" => Started(job)

Records == /\ \A id \in Ids : /\ mem[id] \in Proper[id]
                              /\ disk[id] \in Proper[id]
                              /\ tmp[id] \in Proper[id]
           /\ \A p \in Writers : ~Idle(p) => rec[p] \in Proper[wrId[p]]

Doomed == /\ expired \subseteq Overdue
          /\ clpc = "rmdir" => victim \in Overdue

Kept == \A h \in Handlers : Posted(h) => created[h] < now \/ disk[IdOf[h]] # NoRecord

DInv == TypeOK /\ Clocks /\ Owned /\ Records /\ Doomed /\ Kept

(* Handlers that have started stay so, with the same creation time, and    *)
(* the clock never goes back.                                              *)
Grows == /\ \A h \in Handlers : Started(h) => Started(h)' /\ created'[h] = created[h]
         /\ now <= now'

LEMMA GrowsNext ==
  ASSUME TypeOK, [Next]_vars
  PROVE  Grows
<1> USE DEF Grows, Started
<1> now \in Nat
  BY RegistryAssumption, TypeOKParts DEF TypeParts, BudgetTypeOK
<1> hpc \in [Handlers -> Handling \cup {"new", "done", "gone"}]
  BY TypeOKParts DEF TypeParts, WebhookTypeOK
<1> created \in [Handlers -> 0..MaxClock]
  BY TypeOKParts DEF TypeParts, WebhookTypeOK
<1>1. ASSUME NEW h \in Handlers, Webhook(h) \/ Disconnect(h)
      PROVE  Grows
  BY <1>1 DEF Webhook, Receive, Refuse, FastPath, FastReply, SlowPath, Enqueue, Disconnect
<1>2. CASE \E c \in Cancellers : Cancel(c)
  BY <1>2 DEF Cancel, CancelRejected, CancelBegins, CancelEnds
<1>3. CASE WorkerStep \/ Panic
  BY <1>3 DEF WorkerStep, Dequeue, SkipCancelled, Start, SetStage, Complete,
              AlreadyCompleted, Fail, Finish, WorkerNext, Panic
<1>4. CASE Cleanup
  BY <1>4 DEF Cleanup, CleanupStart, CleanupList, CleanupForget, CleanupRemove, CleanupEnd
<1>5. CASE \E p \in Writers : Persist(p) \/ PersistFails(p)
  BY <1>5 DEF Persist, PersistFails
<1>6. CASE Tick
  BY <1>6 DEF Tick
<1>7. CASE Crash
  BY <1>7 DEF Crash
<1>8. CASE UNCHANGED vars
  BY <1>8 DEF vars
<1> QED BY <1>1, <1>2, <1>3, <1>4, <1>5, <1>6, <1>7, <1>8 DEF Next

LEMMA ProperGrows ==
  ASSUME TypeOK, Grows, NEW id \in Ids
  PROVE  Proper[id] \subseteq Proper'[id]
BY DEF Proper, Grows, Started

LEMMA OverdueGrows ==
  ASSUME TypeOK, TypeOK', Grows
  PROVE  Overdue \subseteq Overdue'
<1>1. \A h \in Handlers : created[h] \in Nat /\ created'[h] \in Nat
  BY RegistryAssumption, TypeOKParts DEF TypeParts, WebhookTypeOK
<1>2. now \in Nat /\ now' \in Nat
  BY RegistryAssumption, TypeOKParts DEF TypeParts, BudgetTypeOK
<1> QED BY <1>1, <1>2 DEF Overdue, Grows, Started

(* What each step of the registry does to Records.                         *)
LEMMA RecordsBegin ==
  ASSUME TypeOK, Records, Grows,
         NEW p \in Writers, NEW id \in Ids, NEW s \in Proper'[id],
         BeginPersist(p, id, s)
  PROVE  Records'
<1> RegistryTypeOK
  BY TypeOKParts DEF TypeParts
<1>1. ASSUME NEW q \in Writers, ~Idle(q)'
      PROVE  rec'[q] \in Proper'[wrId'[q]]
  <2>1. CASE q = p
    BY <2>1 DEF BeginPersist, RegistryTypeOK
  <2>2. CASE q # p
    BY <1>1, <2>2, ProperGrows DEF BeginPersist, RegistryTypeOK, Records, Idle
  <2> QED BY <2>1, <2>2
<1>2. ASSUME NEW i \in Ids
      PROVE  /\ mem'[i] \in Proper'[i]
             /\ disk'[i] \in Proper'[i]
             /\ tmp'[i] \in Proper'[i]
  BY ProperGrows DEF BeginPersist, Records
<1> QED BY <1>1, <1>2 DEF Records

LEMMA RecordsStep ==
  ASSUME TypeOK, Records, Grows,
         NEW p \in Writers, PersistStep(p) \/ PersistFault(p)
  PROVE  Records'
<1> RegistryTypeOK
  BY TypeOKParts DEF TypeParts
<1> USE ProperGrows DEF Records, RegistryTypeOK, Idle
<1>1. wr[p] \in {"write", "rename", "insert"} => wrId[p] \in Ids /\ rec[p] \in Proper[wrId[p]]
  OBVIOUS
<1>2. CASE PersistWrite(p)
  BY <1>1, <1>2 DEF PersistWrite
<1>3. CASE PersistRename(p)
  <2>1. \A i \in Ids : NoRecord \in Proper'[i]
    BY DEF Proper
  <2> QED BY <1>1, <1>3, <2>1 DEF PersistRename
<1>4. CASE PersistRenameMissing(p)
  BY <1>1, <1>4 DEF PersistRenameMissing
<1>5. CASE PersistInsert(p)
  BY <1>1, <1>5 DEF PersistInsert
<1>6. CASE PersistFault(p)
  BY <1>1, <1>6 DEF PersistFault
<1> QED BY <1>2, <1>3, <1>4, <1>5, <1>6 DEF PersistStep

LEMMA RecordsRemoved ==
  ASSUME TypeOK, Records, Grows,
         \/ UNCHANGED registry
         \/ \E id \in Ids : Forget(id) \/ RemoveDir(id)
         \/ RemoveDirFault
         \/ LoseMemory
  PROVE  Records'
<1> RegistryTypeOK
  BY TypeOKParts DEF TypeParts
<1> USE ProperGrows DEF Records, RegistryTypeOK, Idle
<1>1. \A i \in Ids : NoRecord \in Proper'[i]
  BY DEF Proper
<1>2. CASE UNCHANGED registry \/ RemoveDirFault
  BY <1>2 DEF RemoveDirFault
<1>3. CASE \E id \in Ids : Forget(id) \/ RemoveDir(id)
  BY <1>1, <1>3 DEF Forget, RemoveDir
<1>4. CASE LoseMemory
  BY <1>1, <1>4 DEF LoseMemory
<1> QED BY <1>2, <1>3, <1>4

LEMMA DoomedKept ==
  ASSUME TypeOK, TypeOK', Grows, Doomed, UNCHANGED cleanup
  PROVE  Doomed'
BY OverdueGrows DEF Doomed

(* A step that leaves the handlers' dates alone.                           *)
LEMMA ClocksKept ==
  ASSUME TypeOK, TypeOK', Grows, Clocks, UNCHANGED <<created, cutoff>>,
         \A h \in Handlers : Started(h)' => Started(h)
  PROVE  Clocks'
<1>1. \A h \in Handlers : created[h] \in Nat
  BY RegistryAssumption, TypeOKParts DEF TypeParts, WebhookTypeOK
<1>2. now \in Nat /\ now' \in Nat /\ cutoff \in Nat
  BY RegistryAssumption, TypeOKParts DEF TypeParts, BudgetTypeOK, CleanupTypeOK
<1> QED BY <1>1, <1>2 DEF Clocks, Grows, Started

(* A record that is written now and dated no earlier than its request.     *)
LEMMA ProperRecord ==
  ASSUME TypeOK, Grows, Clocks, Clocks',
         NEW h \in Handlers, Started(h)',
         NEW s \in Status, s.stamp = now' \/ s.stamp = created'[h]
  PROVE  s \in Proper'[IdOf[h]]
<1>1. IdOf[h] \in Ids
  BY WriterTypes
<1>2. created'[h] <= s.stamp
  BY DEF Clocks, Status
<1> QED BY <1>1, <1>2 DEF Proper

LEMMA WebhookDurable ==
  ASSUME DInv, TypeOK', Grows, NEW h \in Handlers, Webhook(h) \/ Disconnect(h)
  PROVE  DInv'
<1> USE DEF DInv
<1> /\ WebhookTypeOK /\ WebhookTypeOK' /\ RegistryTypeOK /\ BudgetTypeOK
    /\ WorkerTypeOK
  BY TypeOKParts DEF TypeParts
<1> h \in Writers /\ IdOf[h] \in Ids
  BY WriterTypes
<1>1. Doomed'
  BY DoomedKept
     DEF Webhook, Receive, Refuse, FastPath, FastReply, SlowPath, Enqueue, Disconnect
<1>2. CASE Receive(h)
  <2>1. Clocks'
    BY <1>2, RegistryAssumption DEF Receive, Clocks, Started, WebhookTypeOK, BudgetTypeOK
  <2>2. Record("queued", 0, now) \in Status
    BY RecordType, RegistryAssumption DEF BudgetTypeOK, JobState
  <2>3. Records'
    BY <1>2, <2>1, <2>2, ProperRecord, RecordsBegin
       DEF Receive, Record, Started, WebhookTypeOK
  <2>4. Owned'
    BY <1>2 DEF Receive, Owned, Started, WebhookTypeOK, BeginPersist, RegistryTypeOK
  <2>5. Kept'
    BY <1>2 DEF Receive, Owned, Kept, Posted, Started, WebhookTypeOK, BeginPersist,
                RegistryTypeOK
  <2> QED BY <1>1, <2>1, <2>3, <2>4, <2>5
<1>3. CASE FastPath(h)
  <2>1. Clocks'
    BY <1>3, ClocksKept DEF FastPath, Started, WebhookTypeOK
  <2>2. Record("already_completed", 0, now) \in Status
    BY RecordType, RegistryAssumption DEF BudgetTypeOK, JobState
  <2>3. Records'
    BY <1>3, <2>1, <2>2, ProperRecord, RecordsBegin
       DEF FastPath, Record, Started, WebhookTypeOK
  <2>4. Owned'
    BY <1>3 DEF FastPath, Owned, Started, WebhookTypeOK, BeginPersist, RegistryTypeOK
  <2>5. Kept'
    BY <1>3 DEF FastPath, Kept, Posted, WebhookTypeOK, BeginPersist, RegistryTypeOK
  <2> QED BY <1>1, <2>1, <2>3, <2>4, <2>5
<1>4. CASE Refuse(h) \/ FastReply(h) \/ SlowPath(h) \/ Enqueue(h) \/ Disconnect(h)
  <2> USE DEF Refuse, FastReply, SlowPath, Enqueue, Disconnect
  <2>1. Clocks'
    BY <1>4, ClocksKept DEF Started, WebhookTypeOK
  <2>2. Records'
    BY <1>4, RecordsRemoved
  <2>3. Owned'
    <3>1. CASE Enqueue(h)
      <4>1. \A i \in 1..Len(queue') : \/ i \in 1..Len(queue) /\ queue'[i] = queue[i]
                                      \/ queue'[i] = h
        BY <3>1 DEF WebhookTypeOK
      <4> QED BY <3>1, <4>1 DEF Owned, Started, WebhookTypeOK, WorkerTypeOK
    <3>2. CASE Refuse(h) \/ FastReply(h) \/ SlowPath(h) \/ Disconnect(h)
      <4>1. \A k \in Handlers : /\ hpc[k] # "new" => hpc'[k] # "new"
                                /\ hpc'[k] = "persist" => hpc[k] = "persist"
                                /\ reply'[k] = "202" => reply[k] = "202"
        BY <3>2 DEF WebhookTypeOK
      <4>2. \A i \in 1..Len(queue) : queue[i] \in Handlers
        BY DEF WebhookTypeOK
      <4> QED BY <3>2, <4>1, <4>2 DEF Owned, Started, WorkerTypeOK
    <3> QED BY <1>4, <3>1, <3>2
  <2>4. Kept'
    BY <1>4 DEF Kept, Posted, WebhookTypeOK
  <2> QED BY <1>1, <2>1, <2>2, <2>3, <2>4
<1> QED BY <1>2, <1>3, <1>4 DEF Webhook

LEMMA CancelDurable ==
  ASSUME DInv, TypeOK', Grows, NEW c \in Cancellers, Cancel(c)
  PROVE  DInv'
<1> USE DEF DInv
<1> RegistryTypeOK /\ BudgetTypeOK
  BY TypeOKParts DEF TypeParts
<1> c \in Writers /\ CancelOf[c] \in Ids /\ c \notin Handlers
  BY WriterTypes, ServiceAssumption
<1>1. Doomed' /\ Clocks'
  BY DoomedKept, ClocksKept DEF Cancel, CancelRejected, CancelBegins, CancelEnds, Started
<1>2. CASE CancelBegins(c)
  <2>1. Get(CancelOf[c]) # NoRecord /\ Get(CancelOf[c]) \in Proper[CancelOf[c]]
    BY <1>2 DEF CancelBegins, Is, Get, Records
  <2>2. PICK h \in Handlers : Started(h) /\ IdOf[h] = CancelOf[c]
    BY <2>1 DEF Proper
  <2>3. Record("cancelled", Get(CancelOf[c]).step, now) \in Status
    BY <2>1, GetType DEF BudgetTypeOK, JobState, Record, Status
  <2>4. Records'
    BY <1>1, <1>2, <2>2, <2>3, ProperRecord, RecordsBegin
       DEF CancelBegins, Record, Grows
  <2>5. Owned' /\ Kept'
    BY <1>2 DEF CancelBegins, Owned, Started, BeginPersist, RegistryTypeOK, Kept, Posted
  <2> QED BY <1>1, <2>4, <2>5
<1>3. CASE CancelRejected(c) \/ CancelEnds(c)
  <2>1. Records'
    BY <1>3, RecordsRemoved DEF CancelRejected, CancelEnds
  <2>2. Owned' /\ Kept'
    BY <1>3 DEF CancelRejected, CancelEnds, Owned, Started, Kept, Posted
  <2> QED BY <1>1, <2>1, <2>2
<1> QED BY <1>2, <1>3 DEF Cancel

LEMMA WorkerDurable ==
  ASSUME DInv, TypeOK', Grows, WorkerStep \/ Panic
  PROVE  DInv'
<1> USE DEF DInv
<1> WebhookTypeOK /\ WorkerTypeOK /\ RegistryTypeOK /\ BudgetTypeOK
  BY TypeOKParts DEF TypeParts
<1> Worker \in Writers /\ Worker \notin Handlers /\ \A h \in Handlers : IdOf[h] \in Ids
  BY WriterTypes, ServiceAssumption
<1> USE DEF WorkerStep, Dequeue, SkipCancelled, Start, SetStage, Complete, AlreadyCompleted,
            Fail, Finish, WorkerNext, Panic
<1>1. Doomed' /\ Clocks'
  BY DoomedKept, ClocksKept DEF Started
<1>2. wpc \in {"check", "run"} =>
        \E h \in Handlers : h = job /\ Started(h) /\ Started(h)' /\ created'[h] = created[h]
  BY DEF WorkerTypeOK, Owned, Started, Grows
<1>3. ASSUME wpc \in {"check", "run"}, UNCHANGED <<now, hpc, reply, created, queue, job>>,
             NEW s \in Status, s.stamp = now \/ s.stamp = created[job],
             BeginPersist(Worker, IdOf[job], s)
      PROVE  DInv'
  <2>1. PICK h \in Handlers : h = job /\ Started(h)' /\ created'[h] = created[h]
    BY <1>2, <1>3
  <2>2. s \in Proper'[IdOf[h]]
    BY <1>1, <1>3, <2>1, ProperRecord
  <2>3. Records'
    BY <1>3, <2>1, <2>2, RecordsBegin
  <2>4. Owned' /\ Kept'
    BY <1>2, <1>3 DEF Owned, Started, BeginPersist, RegistryTypeOK, Kept, Posted
  <2> QED BY <1>1, <2>3, <2>4
<1>4. CASE Dequeue
  <2>1. Len(queue) > 0 /\ queue[1] = Head(queue)
    BY <1>4 DEF WebhookTypeOK
  <2>2. \A i \in 1..Len(queue') : i + 1 \in 1..Len(queue) /\ queue'[i] = queue[i + 1]
    BY <1>4 DEF WebhookTypeOK
  <2>3. Owned'
    BY <1>4, <2>1, <2>2 DEF Owned, Started, WebhookTypeOK
  <2>4. Records' /\ Kept'
    BY <1>4, RecordsRemoved DEF Kept, Posted
  <2> QED BY <1>1, <2>3, <2>4
<1>5. CASE Start
  <2>1. Record("running", 0, created[job]) \in Status
    BY <1>2, <1>5, RecordType, RegistryAssumption DEF WebhookTypeOK, JobState
  <2> QED BY <1>3, <1>5, <2>1 DEF Record
<1>6. CASE SetStage
  <2>1. step' \in 0..Steps
    BY <1>6, RegistryAssumption DEF WorkerTypeOK
  <2>2. Record("running", step', created[job]) \in Status
    BY <1>2, <1>6, <2>1, RecordType DEF WebhookTypeOK, JobState
  <2> QED BY <1>3, <1>6, <2>2 DEF Record
<1>7. ASSUME NEW st \in JobState, Finish(st)
      PROVE  DInv'
  <2>1. Record(st, step, now) \in Status
    BY RecordType DEF WorkerTypeOK, BudgetTypeOK
  <2> QED BY <1>3, <1>7, <2>1 DEF Record
<1>8. CASE SkipCancelled \/ WorkerNext \/ Panic
  <2>1. Records'
    BY <1>8, RecordsRemoved
  <2>2. Owned' /\ Kept'
    BY <1>8 DEF Owned, Started, Kept, Posted
  <2> QED BY <1>1, <2>1, <2>2
<1> QED BY <1>4, <1>5, <1>6, <1>7, <1>8 DEF JobState

LEMMA CleanupDurable ==
  ASSUME DInv, TypeOK', Grows, Cleanup
  PROVE  DInv'
<1> USE DEF DInv
<1> RegistryTypeOK /\ CleanupTypeOK /\ BudgetTypeOK /\ WebhookTypeOK
  BY TypeOKParts DEF TypeParts
<1> \A h \in Handlers : IdOf[h] \in Ids
  BY WriterTypes
<1> USE DEF Cleanup, CleanupStart, CleanupList, CleanupForget, CleanupRemove, CleanupEnd
<1>1. Owned'
  BY DEF Owned, Started, Forget, RemoveDir, RemoveDirFault
<1>2. UNCHANGED <<hpc, created, now>> /\ Overdue' = Overdue
  BY DEF Overdue, Started
<1>3. CASE CleanupStart
  BY <1>1, <1>2, <1>3, RecordsRemoved, RegistryAssumption
     DEF Clocks, Started, Doomed, Kept, Posted, BudgetTypeOK
<1>4. CASE CleanupList
  <2>1. ASSUME NEW id \in Ids, Get(id) # NoRecord, Get(id).stamp < cutoff
        PROVE  id \in Overdue
    <3>1. Get(id) \in Proper[id] /\ Get(id) \in Status
      BY <2>1, GetType DEF Get, Records
    <3>2. PICK h \in Handlers : Started(h) /\ IdOf[h] = id /\ created[h] <= Get(id).stamp
      BY <2>1, <3>1 DEF Proper
    <3>3. created[h] < now
      BY <2>1, <3>1, <3>2, RegistryAssumption
         DEF Clocks, Status, WebhookTypeOK, CleanupTypeOK, BudgetTypeOK
    <3> QED BY <3>2, <3>3 DEF Overdue
  <2>2. Doomed'
    BY <1>2, <1>4, <2>1 DEF Doomed
  <2> QED BY <1>1, <1>4, <2>2, RecordsRemoved, ClocksKept DEF Started, Kept, Posted
<1>5. CASE CleanupForget
  <2>1. PICK id \in expired : Forget(id) /\ victim' = id /\ expired' = expired \ {id}
    BY <1>5
  <2>2. id \in Ids /\ id \in Overdue
    BY DEF CleanupTypeOK, Doomed
  <2>3. Doomed'
    BY <1>2, <2>1, <2>2 DEF Doomed
  <2>4. Records'
    BY <2>1, <2>2, RecordsRemoved
  <2>5. Clocks' /\ Kept'
    BY <1>2, <1>5, <2>1, ClocksKept DEF Started, Kept, Posted, Forget
  <2> QED BY <1>1, <2>3, <2>4, <2>5
<1>6. CASE CleanupRemove
  <2>1. victim \in Ids /\ victim \in Overdue
    BY <1>6 DEF CleanupTypeOK, Doomed
  <2>2. PICK k \in Handlers : Started(k) /\ IdOf[k] = victim /\ created[k] < now
    BY <2>1 DEF Overdue
  <2>3. ASSUME NEW h \in Handlers, Posted(h), IdOf[h] = victim
        PROVE  created[h] < now
    BY <2>2, <2>3 DEF Clocks, Owned, Posted, Started
  <2>4. Doomed' /\ Records' /\ Clocks'
    BY <1>2, <1>6, <2>1, RecordsRemoved, ClocksKept DEF Doomed, Started
  <2>5. Kept'
    BY <1>2, <1>6, <2>1, <2>3
       DEF Kept, Posted, RemoveDir, RemoveDirFault, RegistryTypeOK
  <2> QED BY <1>1, <2>4, <2>5
<1>7. CASE CleanupEnd
  BY <1>1, <1>2, <1>7, RecordsRemoved, ClocksKept DEF Doomed, Started, Kept, Posted
<1> QED BY <1>3, <1>4, <1>5, <1>6, <1>7

LEMMA EnvironmentDurable ==
  ASSUME DInv, TypeOK', Grows,
         \/ \E p \in Writers : Persist(p) \/ PersistFails(p)
         \/ Tick
         \/ Crash
  PROVE  DInv'
<1> USE DEF DInv
<1> /\ RegistryTypeOK /\ WebhookTypeOK /\ WorkerTypeOK
    /\ BudgetTypeOK /\ CleanupTypeOK
  BY TypeOKParts DEF TypeParts
<1> \A h \in Handlers : h \in Writers /\ IdOf[h] \in Ids
  BY WriterTypes
<1>1. ASSUME NEW p \in Writers, Persist(p) \/ PersistFails(p)
      PROVE  DInv'
  <2> USE DEF Persist, PersistFails
  <2>1. Clocks' /\ Doomed'
    BY <1>1, ClocksKept, DoomedKept DEF Started
  <2>2. Records'
    BY <1>1, RecordsStep
  <2>3. Owned'
    BY <1>1 DEF Owned, Started, PersistStep, PersistWrite, PersistRename,
                PersistRenameMissing, PersistInsert, PersistFault
  <2>4. ASSUME NEW h \in Handlers, Posted(h)'
        PROVE  created'[h] < now' \/ disk'[IdOf[h]] # NoRecord
    <3>1. CASE PersistRename(p)
      BY <1>1, <2>4, <3>1 DEF PersistRename, Kept, Posted, Owned, RegistryTypeOK
    <3>2. CASE ~PersistRename(p)
      BY <1>1, <2>4, <3>2 DEF PersistStep, PersistWrite, PersistRenameMissing,
            PersistInsert, PersistFault, Kept, Posted, RegistryTypeOK
    <3> QED BY <3>1, <3>2
  <2> QED BY <2>1, <2>2, <2>3, <2>4 DEF Kept
<1>2. CASE Tick
  <2> USE DEF Tick
  <2>1. Clocks' /\ Doomed' /\ Records'
    BY <1>2, ClocksKept, DoomedKept, RecordsRemoved DEF Started
  <2>2. Owned' /\ Kept'
    BY <1>2, RegistryAssumption
       DEF Owned, Started, Kept, Posted, WebhookTypeOK, BudgetTypeOK
  <2> QED BY <2>1, <2>2
<1>3. CASE Crash
  <2> USE DEF Crash
  <2>1. Clocks' /\ Doomed'
    BY <1>3, ClocksKept DEF Doomed, Started
  <2>2. Records'
    BY <1>3, RecordsRemoved
  <2>3. Owned' /\ Kept'
    BY <1>3 DEF Owned, Started, Kept, Posted, LoseMemory
  <2> QED BY <2>1, <2>2, <2>3
<1> QED BY <1>1, <1>2, <1>3

LEMMA InitDurable == Init => DInv
<1> SUFFICES ASSUME Init
             PROVE  DInv
  OBVIOUS
<1>1. TypeOK
  BY InitType
<1>2. \A id \in Ids : NoRecord \in Proper[id]
  BY DEF Proper
<1> QED BY <1>1, <1>2 DEF Init, RegistryInit, DInv, Clocks, Owned, Records, Doomed, Kept,
                          Posted, Started, Idle

LEMMA UnchangedDurable ==
  ASSUME DInv, TypeOK', Grows, UNCHANGED vars
  PROVE  DInv'
<1> USE DEF DInv, vars
<1>1. Records'
  BY RecordsRemoved
<1>2. Clocks' /\ Doomed'
  BY ClocksKept, DoomedKept DEF Started
<1>3. Owned' /\ Kept'
  BY DEF Owned, Started, Kept, Posted
<1> QED BY <1>1, <1>2, <1>3

LEMMA NextDurable == DInv /\ [Next]_vars => DInv'
<1> SUFFICES ASSUME DInv, [Next]_vars
             PROVE  DInv'
  OBVIOUS
<1>1. TypeOK' /\ Grows
  BY NextType, GrowsNext DEF DInv
<1> QED BY <1>1, WebhookDurable, CancelDurable, WorkerDurable, CleanupDurable,
           EnvironmentDurable, UnchangedDurable DEF Next

(* webhook_run persists before it answers 202, and whatever other          *)
(* requests, cancels, crashes and failing writes there are, the file is    *)
(* still there when the job is looked up within its retention period.      *)
THEOREM AcceptedIsDurableCorrect == Spec => []AcceptedIsDurable
<1>1. Init => DInv
  BY InitDurable
<1>2. DInv /\ [Next]_vars => DInv'
  BY NextDurable
<1>3. DInv => AcceptedIsDurable
  <2> SUFFICES ASSUME DInv, NEW h \in Handlers, reply[h] = "202", now = created[h]
               PROVE  disk[IdOf[h]] # NoRecord
    BY DEF AcceptedIsDurable
  <2>1. now \in Nat
    BY RegistryAssumption, TypeOKParts DEF DInv, TypeParts, BudgetTypeOK
  <2> QED BY <2>1 DEF DInv, Kept, Posted
<1> QED BY <1>1, <1>2, <1>3, PTL DEF Spec
=============================================================================
