---------------------------- MODULE LifecycleProofs ----------------------------
(* Proofs about the record of a single job in JobService, for any number   *)
(* of other requests, crashes, panics and failing writes: the map and the  *)
(* file agree, cleanup deletes only what is over, and what clients see of  *)
(* it is JobLifecycle.                                                     *)
EXTENDS JobServiceProofs

USE DEF registry, webhook, cancels, worker, cleanup, budget

-----------------------------------------------------------------------------
(* Who is within persist *)

(* Every persist is that of a handler, a canceller or the worker, for its  *)
(* job, with a record that fits the place where the caller is.             *)
HandlersWrite ==
  \A h \in Handlers :
    /\ hpc[h] = "persist" => wr[h] # "none"
    /\ ~Idle(h) => /\ hpc[h] \in {"persist", "already"}
                   /\ wrId[h] = IdOf[h]
                   /\ rec[h].step = 0
                   /\ hpc[h] = "persist" => rec[h].state = "queued"
                   /\ hpc[h] = "already" => rec[h].state = "already_completed"

CancellersWrite ==
  \A c \in Cancellers :
    ~Idle(c) => cpc[c] = "persist" /\ wrId[c] = CancelOf[c] /\ rec[c].state = "cancelled"

WorkerWrites ==
  ~Idle(Worker) => /\ wpc \in {"run", "finish"}
                   /\ wrId[Worker] = IdOf[job]
                   /\ rec[Worker].step = step
                   /\ wpc = "run" => rec[Worker].state = "running"
                   /\ wpc = "finish" =>
                        /\ rec[Worker].state \in Terminal \ {"cancelled"}
                        /\ rec[Worker].state = "completed" => step = Steps

(* A job that was accepted is in the queue once, or with the worker.       *)
InOnePlace ==
  /\ \A h \in Handlers : reply[h] = "202" => hpc[h] = "done"
  /\ \A i \in 1..Len(queue) : reply[queue[i]] = "202"
  /\ \A i, k \in 1..Len(queue) : queue[i] = queue[k] => i = k
  /\ wpc # "recv" => reply[job] = "202" /\ ~Queued(job)

CInv == HandlersWrite /\ CancellersWrite /\ WorkerWrites /\ InOnePlace

-----------------------------------------------------------------------------
(* The record of one job *)

Runs(h) == wpc # "recv" /\ job = h

(* More is to be written for the job, or its record to be looked at.       *)
Live(h) == \/ hpc[h] \in {"persist", "send"}
           \/ hpc[h] = "already" /\ ~Idle(h)
           \/ Queued(h)
           \/ Runs(h) /\ ~(wpc = "finish" /\ Idle(Worker))

(* Its first record is not in the map yet.                                 *)
Unposted(h) == hpc[h] = "persist" /\ wr[h] # "ok"

FirstRecord(h) ==
  Unposted(h) => /\ mem[IdOf[h]] = NoRecord
                 /\ disk[IdOf[h]] = IF wr[h] = "insert" THEN rec[h] ELSE NoRecord

(* The map is never ahead of the pipeline, and not terminal before it.     *)
Shown(h) ==
  Live(h) /\ ~Unposted(h) =>
    LET r == mem[IdOf[h]]
    IN  /\ r \in Status
        /\ \/ r.state = "queued" /\ r.step = 0
           \/ /\ r.state = "running"
              /\ Runs(h) /\ wpc # "check"
              /\ r.step <= step
              /\ wpc = "run" /\ ~Idle(Worker) => r.step < step

(* Nobody else touches the files a persist works on.                       *)
Undisturbed(h) ==
  /\ wr[h] = "rename" => tmp[IdOf[h]] = rec[h]
  /\ wr[h] = "insert" => disk[IdOf[h]] = rec[h]
  /\ Runs(h) /\ wr[Worker] = "rename" => tmp[IdOf[h]] = rec[Worker]
  /\ Runs(h) /\ wr[Worker] = "insert" => disk[IdOf[h]] = rec[Worker]

InsertDue(h) == wr[h] = "insert" \/ (Runs(h) /\ wr[Worker] = "insert")

Agrees(h) ==
  mem[IdOf[h]] # NoRecord => disk[IdOf[h]] = mem[IdOf[h]] \/ InsertDue(h)

IsOver(h) ==
  /\ ~Live(h)
  /\ disk[IdOf[h]] # NoRecord => disk[IdOf[h]].state \in Terminal

(* What cleanup is about to delete.                                        *)
DeletedLate(h) ==
  /\ IdOf[h] \in expired => IsOver(h)
  /\ clpc = "rmdir" /\ victim = IdOf[h] => IsOver(h) /\ mem[IdOf[h]] = NoRecord

NotCancelled(h) ==
  /\ mem[IdOf[h]] # NoRecord => mem[IdOf[h]].state # "cancelled"
  /\ disk[IdOf[h]] # NoRecord => disk[IdOf[h]].state # "cancelled"

Sound(h) == /\ FirstRecord(h)
            /\ Shown(h)
            /\ Undisturbed(h)
            /\ Agrees(h)
            /\ DeletedLate(h)
            /\ NotCancelled(h)

(* Where no request shares the id of h and no cancel has begun.            *)
Alone(h) == h \in Handlers /\ Started(h) /\ Undisputed(IdOf[h])

LInv == \A h \in Handlers : Alone(h) => Sound(h)

-----------------------------------------------------------------------------
(* CInv is inductive *)

LEMMA BeginFrame ==
  ASSUME RegistryTypeOK, NEW p \in Writers, NEW id, NEW s, BeginPersist(p, id, s)
  PROVE  /\ Idle(p)
         /\ wr'[p] = "write" /\ wrId'[p] = id /\ rec'[p] = s
         /\ \A q \in Writers \ {p} : wr'[q] = wr[q] /\ wrId'[q] = wrId[q] /\ rec'[q] = rec[q]
         /\ UNCHANGED <<mem, disk, tmp, faults>>
BY DEF RegistryTypeOK, BeginPersist

LEMMA StepFrame ==
  ASSUME RegistryTypeOK, NEW p \in Writers, PersistStep(p) \/ PersistFault(p)
  PROVE  /\ ~Idle(p) /\ wr'[p] \in {"rename", "insert", "ok", "err"}
         /\ \A q \in Writers \ {p} : wr'[q] = wr[q]
         /\ UNCHANGED <<wrId, rec>>
BY DEF RegistryTypeOK, PersistStep, PersistWrite, PersistRename, PersistRenameMissing,
       PersistInsert, PersistFault, Idle

LEMMA Parties ==
  /\ Worker \in Writers
  /\ \A h \in Handlers : h \in Writers /\ h # Worker /\ h # NoJob
  /\ \A c \in Cancellers : c \in Writers /\ c # Worker
  /\ \A h \in Handlers, c \in Cancellers : h # c
BY ServiceAssumption

(* The queue as a set.                                                     *)
LEMMA InQueue ==
  ASSUME TypeOK, TypeOK', NEW h
  PROVE  /\ Queued(h) <=> \E i \in 1..Len(queue) : queue[i] = h
         /\ Queued(h)' <=> \E i \in 1..Len(queue') : queue'[i] = h
<1> queue \in Seq(Handlers) /\ queue' \in Seq(Handlers)
  BY TypeOKParts DEF TypeParts, WebhookTypeOK
<1> QED BY DEF Queued, Range

LEMMA InitCallers == Init => CInv
BY ServiceAssumption
   DEF Init, RegistryInit, CInv, HandlersWrite, CancellersWrite, WorkerWrites, InOnePlace, Idle

LEMMA ReceiveCallers ==
  ASSUME TypeOK, CInv, NEW h \in Handlers, Receive(h) \/ FastPath(h)
  PROVE  CInv'
<1> USE DEF TypeParts, CInv
<1> RegistryTypeOK /\ WebhookTypeOK /\ WorkerTypeOK
  BY TypeOKParts
<1>1. PICK s \in Status :
        /\ BeginPersist(h, IdOf[h], s)
        /\ s.step = 0
        /\ \/ s.state = "queued" /\ hpc'[h] = "persist"
           \/ s.state = "already_completed" /\ hpc'[h] = "already"
  <2>1. Record("queued", 0, now) \in Status /\ Record("already_completed", 0, now) \in Status
    BY TypeOKParts, RecordType, RegistryAssumption DEF BudgetTypeOK, JobState
  <2> QED BY <2>1 DEF Receive, FastPath, WebhookTypeOK, Record
<1>2. /\ \A k \in Handlers \ {h} : hpc'[k] = hpc[k]
      /\ hpc[h] \in {"new", "persist"}
      /\ UNCHANGED <<reply, queue, cancels, worker>>
  BY DEF Receive, FastPath, WebhookTypeOK
<1>3. HandlersWrite'
  BY <1>1, <1>2, BeginFrame, Parties DEF HandlersWrite, Idle
<1>4. CancellersWrite'
  BY <1>1, <1>2, BeginFrame, Parties DEF CancellersWrite, Idle
<1>5. WorkerWrites'
  BY <1>1, <1>2, BeginFrame, Parties DEF WorkerWrites, Idle
<1>6. InOnePlace'
  BY <1>2 DEF InOnePlace, Queued
<1> QED BY <1>3, <1>4, <1>5, <1>6

LEMMA EnqueueCallers ==
  ASSUME TypeOK, TypeOK', CInv, NEW h \in Handlers, Enqueue(h)
  PROVE  CInv'
<1> USE DEF TypeParts, CInv
<1> RegistryTypeOK /\ WebhookTypeOK /\ WorkerTypeOK
  BY TypeOKParts
<1>1. Idle(h)
  BY DEF HandlersWrite, Enqueue
<1>2. HandlersWrite' /\ CancellersWrite' /\ WorkerWrites'
  BY <1>1 DEF HandlersWrite, CancellersWrite, WorkerWrites, Enqueue, Idle, WebhookTypeOK
<1>3. reply[h] # "202"
  BY DEF InOnePlace, Enqueue
<1>4. /\ Len(queue') = Len(queue) + 1
      /\ \A i \in 1..Len(queue) : queue'[i] = queue[i] /\ queue[i] # h
      /\ queue'[Len(queue) + 1] = h
      /\ queue' \in Seq(Handlers)
  BY <1>3 DEF Enqueue, WebhookTypeOK, InOnePlace
<1>5. \A k \in Handlers : Queued(k)' => Queued(k) \/ k = h
  <2> SUFFICES ASSUME NEW k \in Handlers, Queued(k)', k # h
               PROVE  Queued(k)
    OBVIOUS
  <2>1. PICK i \in 1..Len(queue') : queue'[i] = k
    BY InQueue
  <2>2. Len(queue) \in Nat
    BY DEF WebhookTypeOK
  <2>3. i \in 1..Len(queue)
    BY <1>4, <2>1, <2>2
  <2> QED BY <1>4, <2>1, <2>3, InQueue
<1>6. InOnePlace'
  <2>1. wpc # "recv" => reply'[job] = "202" /\ ~Queued(job)'
    BY <1>3, <1>5 DEF InOnePlace, Enqueue, WebhookTypeOK, WorkerTypeOK
  <2>2. \A k \in Handlers : reply'[k] = "202" => hpc'[k] = "done"
    BY DEF InOnePlace, Enqueue, WebhookTypeOK
  <2>3. \A i \in 1..Len(queue') : reply'[queue'[i]] = "202"
    BY <1>4 DEF InOnePlace, Enqueue, WebhookTypeOK
  <2>4. ASSUME NEW i \in 1..Len(queue'), NEW k \in 1..Len(queue'), queue'[i] = queue'[k]
        PROVE  i = k
    <3>1. Len(queue) \in Nat
      BY DEF WebhookTypeOK
    <3>2. \A n \in 1..Len(queue') : n \in 1..Len(queue) \/ n = Len(queue) + 1
      BY <1>4, <3>1
    <3> QED BY <1>4, <2>4, <3>2 DEF InOnePlace
  <2> QED BY <2>1, <2>2, <2>3, <2>4 DEF InOnePlace, Enqueue
<1> QED BY <1>2, <1>6

LEMMA WebhookCallers ==
  ASSUME TypeOK, TypeOK', CInv, NEW h \in Handlers, Webhook(h) \/ Disconnect(h)
  PROVE  CInv'
<1> USE DEF TypeParts, CInv
<1> RegistryTypeOK /\ WebhookTypeOK /\ WorkerTypeOK
  BY TypeOKParts
<1>1. CASE Refuse(h) \/ FastReply(h) \/ SlowPath(h) \/ Disconnect(h)
  <2>1. /\ \A k \in Handlers \ {h} : hpc'[k] = hpc[k] /\ reply'[k] = reply[k]
        /\ Idle(h) /\ hpc'[h] \notin {"persist", "already"} /\ hpc[h] # "done"
        /\ reply'[h] = "202" => reply[h] = "202"
        /\ UNCHANGED <<registry, queue, cancels, worker>>
    BY <1>1 DEF Refuse, FastReply, SlowPath, Disconnect, WebhookTypeOK, HandlersWrite, Idle
  <2>2. HandlersWrite' /\ CancellersWrite' /\ WorkerWrites'
    BY <2>1 DEF HandlersWrite, CancellersWrite, WorkerWrites, Idle
  <2>3. reply[h] # "202"
    BY <2>1 DEF InOnePlace
  <2>4. \A k \in Handlers : reply[k] = "202" => k # h
    BY <2>3
  <2>5. \A i \in 1..Len(queue) : queue[i] \in Handlers
    BY DEF WebhookTypeOK
  <2>6. InOnePlace'
    BY <2>1, <2>4, <2>5 DEF InOnePlace, Queued, WorkerTypeOK
  <2> QED BY <2>2, <2>6
<1> QED BY <1>1, ReceiveCallers, EnqueueCallers DEF Webhook

LEMMA CancelCallers ==
  ASSUME TypeOK, CInv, NEW c \in Cancellers, Cancel(c)
  PROVE  CInv'
<1> USE DEF TypeParts, CInv
<1> RegistryTypeOK /\ CancelTypeOK
  BY TypeOKParts
<1> UNCHANGED <<webhook, worker>>
  BY DEF Cancel, CancelRejected, CancelBegins, CancelEnds
<1>1. InOnePlace'
  BY DEF InOnePlace, Queued
<1>2. CASE CancelBegins(c)
  <2>1. PICK s : BeginPersist(c, CancelOf[c], s) /\ s.state = "cancelled"
    BY <1>2 DEF CancelBegins, Record
  <2>2. HandlersWrite' /\ CancellersWrite' /\ WorkerWrites'
    BY <1>2, <2>1, BeginFrame, Parties
       DEF CancelBegins, HandlersWrite, CancellersWrite, WorkerWrites, Idle, CancelTypeOK
  <2> QED BY <1>1, <2>2
<1>3. CASE CancelRejected(c) \/ CancelEnds(c)
  <2>1. UNCHANGED registry /\ Idle(c) /\ \A d \in Cancellers \ {c} : cpc'[d] = cpc[d]
    BY <1>3 DEF CancelRejected, CancelEnds, Answer, CancelTypeOK, MayCancel, CancellersWrite
  <2>2. HandlersWrite' /\ CancellersWrite' /\ WorkerWrites'
    BY <2>1 DEF HandlersWrite, CancellersWrite, WorkerWrites, Idle
  <2> QED BY <1>1, <2>2
<1> QED BY <1>2, <1>3 DEF Cancel

LEMMA DequeueCallers ==
  ASSUME TypeOK, TypeOK', CInv, Dequeue
  PROVE  CInv'
<1> USE DEF TypeParts, CInv
<1> RegistryTypeOK /\ WebhookTypeOK /\ WorkerTypeOK
  BY TypeOKParts
<1>1. /\ job' = queue[1]
      /\ Len(queue) # 0
      /\ Len(queue') = Len(queue) - 1
      /\ \A i \in 1..Len(queue') : queue'[i] = queue[i + 1]
  BY DEF Dequeue, WebhookTypeOK
<1>2. Idle(Worker)
  BY DEF Dequeue, WorkerWrites
<1>3. HandlersWrite' /\ CancellersWrite' /\ WorkerWrites'
  BY <1>2 DEF Dequeue, HandlersWrite, CancellersWrite, WorkerWrites, Idle
<1>4. \A i \in 1..Len(queue') : i + 1 \in 1..Len(queue) /\ i + 1 # 1
  BY <1>1 DEF WebhookTypeOK
<1>5. (reply[job] = "202" /\ ~Queued(job))'
  <2>1. 1 \in 1..Len(queue)
    BY <1>1 DEF WebhookTypeOK
  <2>2. \A i \in 1..Len(queue') : queue'[i] # job'
    BY <1>1, <1>4, <2>1 DEF InOnePlace
  <2>3. reply'[queue[1]] = "202"
    BY <2>1 DEF InOnePlace, Dequeue
  <2>4. \A k : Queued(k)' <=> \E i \in 1..Len(queue') : queue'[i] = k
    BY InQueue
  <2>5. ~Queued(job)'
    BY <2>2, <2>4
  <2> QED BY <1>1, <2>3, <2>5
<1>6. \A i, k \in 1..Len(queue') : queue'[i] = queue'[k] => i = k
  <2>1. \A i, k \in 1..Len(queue') : i + 1 = k + 1 => i = k
    OBVIOUS
  <2> QED BY <1>1, <1>4, <2>1 DEF InOnePlace
<1>7. \A i \in 1..Len(queue') : reply'[queue'[i]] = "202"
  BY <1>1, <1>4 DEF InOnePlace, Dequeue
<1>8. \A h \in Handlers : reply'[h] = "202" => hpc'[h] = "done"
  BY DEF InOnePlace, Dequeue
<1>9. InOnePlace'
  BY <1>5, <1>6, <1>7, <1>8 DEF InOnePlace
<1> QED BY <1>3, <1>9

LEMMA WorkerCallers ==
  ASSUME TypeOK, TypeOK', CInv, WorkerStep \/ Panic
  PROVE  CInv'
<1> USE DEF TypeParts, CInv
<1> RegistryTypeOK /\ WorkerTypeOK
  BY TypeOKParts
<1> UNCHANGED <<hpc, reply, cancels>>
  BY DEF WorkerStep, Dequeue, SkipCancelled, Start, SetStage, Complete, AlreadyCompleted,
         Fail, Finish, WorkerNext, Panic
<1>1. CASE SkipCancelled \/ WorkerNext \/ Panic
  <2>1. wpc' = "recv" /\ Idle(Worker) /\ UNCHANGED <<registry, queue>>
    BY <1>1 DEF SkipCancelled, WorkerNext, Panic, WorkerWrites
  <2> QED BY <2>1 DEF HandlersWrite, CancellersWrite, WorkerWrites, InOnePlace, Idle
<1>2. CASE Start \/ SetStage
  <2>1. /\ BeginPersist(Worker, IdOf[job], Record("running", step', created[job]))
        /\ UNCHANGED <<job, queue>>
        /\ wpc # "recv" /\ wpc' = "run"
    BY <1>2 DEF Start, SetStage
  <2>2. InOnePlace'
    BY <2>1 DEF InOnePlace, Queued
  <2>3. HandlersWrite' /\ CancellersWrite' /\ WorkerWrites'
    BY <2>1, BeginFrame, Parties
       DEF HandlersWrite, CancellersWrite, WorkerWrites, Idle, Record
  <2> QED BY <2>2, <2>3
<1>3. CASE Complete \/ AlreadyCompleted \/ Fail
  <2>1. PICK st \in Terminal \ {"cancelled"} : Finish(st) /\ (st = "completed" => step = Steps)
    BY <1>3 DEF Complete, AlreadyCompleted, Fail, Terminal
  <2>2. /\ BeginPersist(Worker, IdOf[job], Record(st, step, now))
        /\ UNCHANGED <<job, step, queue>>
        /\ wpc # "recv" /\ wpc' = "finish"
    BY <2>1 DEF Finish
  <2>3. InOnePlace'
    BY <2>2 DEF InOnePlace, Queued
  <2>4. HandlersWrite' /\ CancellersWrite' /\ WorkerWrites'
    BY <2>1, <2>2, BeginFrame, Parties
       DEF HandlersWrite, CancellersWrite, WorkerWrites, Idle, Record
  <2> QED BY <2>3, <2>4
<1> QED BY <1>1, <1>2, <1>3, DequeueCallers DEF WorkerStep

LEMMA NextCallers ==
  ASSUME TypeOK, TypeOK', CInv, [Next]_vars
  PROVE  CInv'
<1> USE DEF TypeParts, CInv
<1> RegistryTypeOK /\ WebhookTypeOK
  BY TypeOKParts
<1>1. ASSUME NEW p \in Writers, Persist(p) \/ PersistFails(p)
      PROVE  CInv'
  <2>1. UNCHANGED <<webhook, cancels, worker>> /\ (PersistStep(p) \/ PersistFault(p))
    BY <1>1 DEF Persist, PersistFails
  <2>2. HandlersWrite' /\ CancellersWrite' /\ WorkerWrites'
    BY <2>1, StepFrame, Parties DEF HandlersWrite, CancellersWrite, WorkerWrites, Idle
  <2> QED BY <2>1, <2>2 DEF InOnePlace, Queued
<1>2. CASE Cleanup \/ Tick \/ UNCHANGED vars
  <2>1. UNCHANGED <<wr, wrId, rec, webhook, cancels, worker>>
    BY <1>2 DEF Cleanup, CleanupStart, CleanupList, CleanupForget, CleanupRemove, CleanupEnd,
                Forget, RemoveDir, RemoveDirFault, Tick, vars
  <2> QED BY <2>1 DEF HandlersWrite, CancellersWrite, WorkerWrites, InOnePlace, Idle, Queued
<1>3. CASE Crash
  <2>1. /\ \A p \in Writers : wr'[p] = "none"
        /\ \A h \in Handlers : hpc'[h] # "persist" /\ (hpc[h] = "done" => hpc'[h] = "done")
        /\ queue' = <<>> /\ reply' = reply /\ wpc' = "recv"
    BY <1>3 DEF Crash, LoseMemory, WebhookTypeOK
  <2> QED BY <2>1, Parties
          DEF HandlersWrite, CancellersWrite, WorkerWrites, InOnePlace, Idle
<1> QED BY <1>1, <1>2, <1>3, WebhookCallers, CancelCallers, WorkerCallers DEF Next

-----------------------------------------------------------------------------
(* Who disputes a record, and who writes it *)

Disputes(c) == /\ cpc[c] # "new"
               /\ ~(cpc[c] = "done" /\ answer[c] \in {"not_found", "conflict"})

LEMMA DisputesGrows ==
  ASSUME TypeOK, [Next]_vars, NEW c \in Cancellers, Disputes(c)
  PROVE  Disputes(c)'
<1> CancelTypeOK
  BY TypeOKParts DEF TypeParts
<1> USE DEF Disputes
<1>1. ASSUME NEW d \in Cancellers, Cancel(d)
      PROVE  Disputes(c)'
  BY <1>1 DEF CancelTypeOK, Cancel, CancelRejected, CancelBegins, CancelEnds, MayCancel, Answer
<1>2. CASE Crash
  BY <1>2 DEF Crash, CancelTypeOK
<1>3. CASE UNCHANGED cancels
  BY <1>3
<1> QED BY <1>1, <1>2, <1>3
        DEF Next, vars, Webhook, Receive, Refuse, FastPath, FastReply, SlowPath, Enqueue,
            Disconnect, WorkerStep, Dequeue, SkipCancelled, Start, SetStage, Complete,
            AlreadyCompleted, Fail, Finish, WorkerNext, Panic, Cleanup, CleanupStart,
            CleanupList, CleanupForget, CleanupRemove, CleanupEnd, Persist, PersistFails, Tick

(* Once disputed, a record stays so.                                       *)
LEMMA AloneShrinks ==
  ASSUME TypeOK, [Next]_vars, NEW h \in Handlers, Alone(h)'
  PROVE  /\ Sole(IdOf[h])
         /\ Started(h) => Alone(h)
<1>1. \A k \in Handlers : Started(k) => Started(k)'
  BY GrowsNext DEF Grows
<1>2. \A c \in Cancellers : CancelOf[c] = IdOf[h] => ~Disputes(c)
  <2>1. \A c \in Cancellers : CancelOf[c] = IdOf[h] => ~Disputes(c)'
    BY DEF Alone, Undisputed, Disputes
  <2> QED BY <2>1, DisputesGrows
<1> QED BY <1>1, <1>2 DEF Alone, Undisputed, Sole, Started, Disputes

LEMMA AloneWriters ==
  ASSUME TypeOK, CInv, NEW h \in Handlers, Alone(h),
         NEW p \in Writers, ~Idle(p), wrId[p] = IdOf[h]
  PROVE  p = h \/ (p = Worker /\ Runs(h))
<1>1. CASE p \in Handlers
  BY <1>1 DEF CInv, HandlersWrite, Alone, Undisputed, Sole, Started
<1>2. CASE p \in Cancellers
  BY <1>2 DEF CInv, CancellersWrite, Alone, Undisputed
<1>3. CASE p = Worker
  <2>1. wpc # "recv" /\ job \in Handlers
    BY <1>3, TypeOKParts DEF TypeParts, WorkerTypeOK, CInv, WorkerWrites
  <2> QED BY <1>3, <2>1
          DEF CInv, WorkerWrites, InOnePlace, Alone, Undisputed, Sole, Started, Runs
<1> QED BY <1>1, <1>2, <1>3, ServiceAssumption

LEMMA ActivePlaces ==
  ASSUME TypeOK, CInv, NEW h \in Handlers
  PROVE  /\ Queued(h) => hpc[h] = "done" /\ Idle(h) /\ ~Runs(h)
         /\ Runs(h) => hpc[h] = "done" /\ Idle(h) /\ ~Queued(h)
         /\ ~Idle(h) => Live(h)
         /\ Runs(h) /\ ~Idle(Worker) => Live(h)
         /\ Unposted(h) => Live(h)
<1>1. queue \in Seq(Handlers)
  BY TypeOKParts DEF TypeParts, WebhookTypeOK
<1> QED BY <1>1 DEF CInv, InOnePlace, HandlersWrite, WorkerWrites, Queued, Range, Runs, Idle,
                    Live, Unposted

-----------------------------------------------------------------------------
(* Steps that are not about h *)

Ignores(h) ==
  /\ hpc'[h] = hpc[h] /\ wr'[h] = wr[h] /\ rec'[h] = rec[h]
  /\ mem'[IdOf[h]] = mem[IdOf[h]]
  /\ disk'[IdOf[h]] = disk[IdOf[h]]
  /\ tmp'[IdOf[h]] = tmp[IdOf[h]]
  /\ Queued(h)' = Queued(h)
  /\ \/ ~Runs(h) /\ ~Runs(h)'
     \/ UNCHANGED <<wpc, job, step>> /\ wr'[Worker] = wr[Worker] /\ rec'[Worker] = rec[Worker]
  /\ IdOf[h] \in expired' => IdOf[h] \in expired
  /\ clpc' = "rmdir" /\ victim' = IdOf[h] => clpc = "rmdir" /\ victim = IdOf[h]

LEMMA SoundIgnored ==
  ASSUME NEW h \in Handlers, Sound(h), Ignores(h)
  PROVE  Sound(h)'
<1>1. /\ Live(h)' = Live(h)
      /\ Unposted(h)' = Unposted(h)
      /\ InsertDue(h)' = InsertDue(h)
  BY DEF Ignores, Live, Unposted, InsertDue, Runs, Idle
<1>2. FirstRecord(h)' /\ Undisturbed(h)'
  BY <1>1 DEF Sound, FirstRecord, Undisturbed, Ignores, Runs
<1>3. Shown(h)'
  BY <1>1 DEF Sound, Shown, Ignores, Runs, Idle
<1>4. Agrees(h)' /\ NotCancelled(h)' /\ DeletedLate(h)'
  BY <1>1 DEF Sound, Agrees, NotCancelled, DeletedLate, IsOver, Ignores
<1> QED BY <1>2, <1>3, <1>4 DEF Sound

-----------------------------------------------------------------------------
(* LInv is inductive, one action after the other *)

LEMMA InitSound == Init => LInv
BY DEF Init, LInv, Alone, Started

(* The records of a job nobody has asked for.                              *)
LEMMA ReceiveSound ==
  ASSUME DInv, CInv, [Next]_vars, NEW h \in Handlers, Receive(h), Sole(IdOf[h])'
  PROVE  Sound(h)'
<1> USE DEF DInv, TypeParts
<1> RegistryTypeOK /\ WebhookTypeOK /\ WorkerTypeOK /\ CleanupTypeOK
  BY TypeOKParts
<1>1. \A k \in Handlers : Started(k) => IdOf[k] # IdOf[h]
  BY GrowsNext DEF Grows, Sole, Started, Receive, WebhookTypeOK
<1>2. mem[IdOf[h]] = NoRecord /\ disk[IdOf[h]] = NoRecord
  BY <1>1, WriterTypes DEF Records, Proper
<1>3. IdOf[h] \notin expired /\ ~(clpc = "rmdir" /\ victim = IdOf[h])
  BY <1>1 DEF Doomed, Overdue
<1>4. ~Runs(h)
  BY DEF Runs, Receive, CInv, InOnePlace
<1>5. /\ hpc'[h] = "persist" /\ wr'[h] = "write"
      /\ UNCHANGED <<mem, disk, expired, clpc, victim, worker>>
  BY BeginFrame, WriterTypes DEF Receive, WebhookTypeOK
<1> QED BY <1>2, <1>3, <1>4, <1>5
        DEF Sound, FirstRecord, Shown, Undisturbed, Agrees, DeletedLate, NotCancelled,
            Unposted, Runs

LEMMA OtherWebhook ==
  ASSUME TypeOK, TypeOK', NEW h \in Handlers, NEW k \in Handlers \ {h},
         Webhook(k) \/ Disconnect(k)
  PROVE  Ignores(h)
<1> USE DEF TypeParts
<1> RegistryTypeOK /\ WebhookTypeOK
  BY TypeOKParts
<1> UNCHANGED <<worker, cleanup>> /\ hpc'[h] = hpc[h]
  BY DEF Webhook, Receive, Refuse, FastPath, FastReply, SlowPath, Enqueue, Disconnect,
         WebhookTypeOK
<1>1. CASE Receive(k) \/ FastPath(k)
  <2>1. \E s : BeginPersist(k, IdOf[k], s)
    BY <1>1 DEF Receive, FastPath
  <2>2. queue' = queue
    BY <1>1 DEF Receive, FastPath
  <2> QED BY <2>1, <2>2, BeginFrame, Parties DEF Ignores, Queued
<1>2. CASE Refuse(k) \/ FastReply(k) \/ SlowPath(k) \/ Disconnect(k)
  BY <1>2 DEF Refuse, FastReply, SlowPath, Disconnect, Ignores, Queued
<1>3. CASE Enqueue(k)
  <2>1. UNCHANGED registry /\ queue' = Append(queue, k)
    BY <1>3 DEF Enqueue
  <2>2. /\ Len(queue) \in Nat /\ Len(queue') = Len(queue) + 1
        /\ \A i \in 1..Len(queue) : queue'[i] = queue[i]
        /\ queue'[Len(queue) + 1] = k
    BY <2>1 DEF WebhookTypeOK
  <2>3. \A i : i \in 1..Len(queue') <=> i \in 1..Len(queue) \/ i = Len(queue) + 1
    BY <2>2
  <2>4. (\E i \in 1..Len(queue') : queue'[i] = h) <=> \E i \in 1..Len(queue) : queue[i] = h
    BY <2>2, <2>3
  <2>5. Queued(h)' <=> Queued(h)
    BY <2>4, InQueue
  <2>6. Queued(h)' = Queued(h)
    BY <2>5 DEF Queued
  <2> QED BY <2>1, <2>6 DEF Ignores
<1> QED BY <1>1, <1>2, <1>3 DEF Webhook

LEMMA OwnWebhook ==
  ASSUME TypeOK, TypeOK', CInv, NEW h \in Handlers, Sound(h), Started(h),
         Webhook(h) \/ Disconnect(h)
  PROVE  Sound(h)'
<1> USE DEF TypeParts
<1> RegistryTypeOK /\ WebhookTypeOK
  BY TypeOKParts
<1>0. UNCHANGED <<worker, cleanup>>
  BY DEF Webhook, Receive, Refuse, FastPath, FastReply, SlowPath, Enqueue, Disconnect
<1>1. ~Queued(h) /\ ~Runs(h) /\ ~Runs(h)'
  <2>1. hpc[h] # "done"
    BY DEF Webhook, Receive, Refuse, FastPath, FastReply, SlowPath, Enqueue, Disconnect
  <2> QED BY <1>0, <2>1, ActivePlaces DEF Runs
<1>2. CASE Refuse(h) \/ FastReply(h) \/ Disconnect(h)
  <2>1. /\ hpc'[h] \in {"done", "gone"}
        /\ Idle(h) /\ UNCHANGED <<registry, queue>>
    BY <1>2 DEF Refuse, FastReply, Disconnect, WebhookTypeOK, Idle, CInv, HandlersWrite
  <2>2. ~Live(h)' /\ ~Unposted(h)' /\ ~InsertDue(h)' /\ ~InsertDue(h)
    BY <1>1, <2>1 DEF Live, Unposted, InsertDue, Idle, Queued, Runs
  <2> QED BY <1>0, <1>1, <2>1, <2>2
          DEF Sound, FirstRecord, Shown, Undisturbed, Agrees, DeletedLate, IsOver,
              NotCancelled, Idle
<1>3. CASE SlowPath(h) \/ Enqueue(h)
  <2>1. /\ hpc[h] \in {"persist", "send"} /\ ~Unposted(h)
        /\ hpc'[h] = "send" \/ (hpc'[h] = "done" /\ Queued(h)')
        /\ Idle(h) /\ UNCHANGED registry
    <3>1. CASE SlowPath(h)
      BY <3>1 DEF SlowPath, WebhookTypeOK, Idle, Unposted
    <3>2. CASE Enqueue(h)
      <4>1. queue'[Len(queue) + 1] = h /\ Len(queue') = Len(queue) + 1 /\ Len(queue) \in Nat
        BY <3>2 DEF Enqueue, WebhookTypeOK
      <4>2. Queued(h)'
        BY <4>1, InQueue
      <4> QED BY <3>2, <4>2
              DEF Enqueue, WebhookTypeOK, Idle, Unposted, CInv, HandlersWrite
    <3> QED BY <1>3, <3>1, <3>2
  <2>2. Live(h) /\ Live(h)' /\ ~Unposted(h)' /\ ~InsertDue(h)' /\ ~InsertDue(h)
    BY <1>1, <2>1 DEF Live, Unposted, InsertDue, Idle, Runs
  <2> QED BY <1>0, <1>1, <2>1, <2>2
          DEF Sound, FirstRecord, Shown, Undisturbed, Agrees, DeletedLate, IsOver,
              NotCancelled, Idle
<1>4. CASE FastPath(h)
  <2>1. /\ hpc[h] = "persist" /\ wr[h] = "ok"
        /\ hpc'[h] = "already" /\ wr'[h] = "write"
        /\ UNCHANGED <<mem, disk, tmp, queue>>
    BY <1>4, BeginFrame, Parties DEF FastPath, WebhookTypeOK
  <2>2. Live(h) /\ Live(h)' /\ ~Unposted(h) /\ ~Unposted(h)' /\ ~InsertDue(h)' /\ ~InsertDue(h)
    BY <1>1, <2>1 DEF Live, Unposted, InsertDue, Idle
  <2> QED BY <1>0, <1>1, <2>1, <2>2
          DEF Sound, FirstRecord, Shown, Undisturbed, Agrees, DeletedLate, IsOver,
              NotCancelled
<1> QED BY <1>2, <1>3, <1>4 DEF Webhook, Receive, Started

LEMMA CancelIgnores ==
  ASSUME TypeOK, NEW h \in Handlers, NEW c \in Cancellers, Cancel(c)
  PROVE  Ignores(h)
<1> RegistryTypeOK
  BY TypeOKParts DEF TypeParts
<1> UNCHANGED <<webhook, worker, cleanup>>
  BY DEF Cancel, CancelRejected, CancelBegins, CancelEnds
<1>1. CASE CancelBegins(c)
  <2>1. \E id, s : BeginPersist(c, id, s)
    BY <1>1 DEF CancelBegins
  <2> QED BY <2>1, BeginFrame, Parties DEF Ignores, Queued
<1>2. CASE CancelRejected(c) \/ CancelEnds(c)
  BY <1>2 DEF CancelRejected, CancelEnds, Ignores, Queued
<1> QED BY <1>1, <1>2 DEF Cancel

LEMMA OtherWorkerStep ==
  ASSUME TypeOK, TypeOK', CInv, NEW h \in Handlers, ~Runs(h), ~Runs(h)',
         WorkerStep \/ Panic
  PROVE  Ignores(h)
<1> USE DEF TypeParts
<1> RegistryTypeOK /\ WebhookTypeOK /\ WorkerTypeOK
  BY TypeOKParts
<1> UNCHANGED <<hpc, cleanup>>
  BY DEF WorkerStep, Dequeue, SkipCancelled, Start, SetStage, Complete, AlreadyCompleted,
         Fail, Finish, WorkerNext, Panic
<1>1. CASE Dequeue
  <2>1. /\ UNCHANGED registry
        /\ queue[1] # h /\ Len(queue) \in Nat \ {0}
        /\ Len(queue') = Len(queue) - 1
        /\ \A i \in 1..Len(queue') : queue'[i] = queue[i + 1]
    BY <1>1 DEF Dequeue, WebhookTypeOK, Runs
  <2>2. ASSUME NEW i \in 1..Len(queue), queue[i] = h
        PROVE  i - 1 \in 1..Len(queue') /\ queue'[i - 1] = h
    <3>1. i # 1
      BY <2>1, <2>2
    <3>2. i - 1 \in 1..Len(queue') /\ (i - 1) + 1 = i
      BY <2>1, <3>1
    <3> QED BY <2>1, <2>2, <3>2
  <2>3. ASSUME NEW i \in 1..Len(queue'), queue'[i] = h
        PROVE  i + 1 \in 1..Len(queue) /\ queue[i + 1] = h
    BY <2>1, <2>3
  <2>4. Queued(h)' <=> Queued(h)
    BY <2>2, <2>3, InQueue
  <2>5. Queued(h)' = Queued(h)
    BY <2>4 DEF Queued
  <2> QED BY <2>1, <2>5 DEF Ignores
<1>2. CASE SkipCancelled \/ WorkerNext \/ Panic
  BY <1>2 DEF SkipCancelled, WorkerNext, Panic, Ignores, Queued
<1>3. CASE Start \/ SetStage \/ Complete \/ AlreadyCompleted \/ Fail
  <2>1. queue' = queue /\ \E id, s : BeginPersist(Worker, id, s)
    BY <1>3 DEF Start, SetStage, Complete, AlreadyCompleted, Fail, Finish
  <2> QED BY <2>1, BeginFrame, Parties DEF Ignores, Queued
<1> QED BY <1>1, <1>2, <1>3 DEF WorkerStep

LEMMA OwnWorkerStep ==
  ASSUME TypeOK, TypeOK', CInv, NEW h \in Handlers, Sound(h), Runs(h) \/ Runs(h)',
         WorkerStep \/ Panic
  PROVE  Sound(h)'
<1> USE DEF TypeParts
<1> RegistryTypeOK /\ WebhookTypeOK /\ WorkerTypeOK
  BY TypeOKParts
<1>0. UNCHANGED <<hpc, cleanup>>
  BY DEF WorkerStep, Dequeue, SkipCancelled, Start, SetStage, Complete, AlreadyCompleted,
         Fail, Finish, WorkerNext, Panic
<1>1. CASE Dequeue
  <2>1. wpc = "recv" /\ wpc' = "check" /\ job' = h /\ UNCHANGED registry /\ Runs(h)' /\ ~Runs(h)
    BY <1>1 DEF Dequeue, Runs
  <2>2. Queued(h) /\ ~Queued(h)'
    <3>1. queue # <<>> /\ queue[1] = h
      BY <1>1, <2>1 DEF Dequeue, WebhookTypeOK
    <3>2. 1 \in 1..Len(queue)
      BY <3>1 DEF WebhookTypeOK
    <3>3. ~Queued(h)'
      BY <2>1, DequeueCallers, <1>1 DEF CInv, InOnePlace
    <3> QED BY <3>1, <3>2, <3>3, InQueue
  <2>3. hpc[h] = "done" /\ Idle(h) /\ Idle(Worker)
    BY <2>1, <2>2, ActivePlaces DEF CInv, WorkerWrites
  <2>4. Live(h) /\ Live(h)' /\ ~Unposted(h) /\ ~Unposted(h)' /\ ~InsertDue(h)' /\ ~InsertDue(h)
    BY <1>0, <2>1, <2>2, <2>3 DEF Live, Unposted, InsertDue, Idle
  <2> QED BY <1>0, <2>1, <2>3, <2>4
          DEF Sound, FirstRecord, Shown, Undisturbed, Agrees, DeletedLate, IsOver,
              NotCancelled, Idle
<1>2. CASE ~Dequeue
  <2>1. Runs(h)
    BY <1>2 DEF Runs, WorkerStep, SkipCancelled, Start, SetStage, Complete, AlreadyCompleted,
                Fail, Finish, WorkerNext, Panic
  <2>2. hpc[h] = "done" /\ Idle(h) /\ ~Queued(h)
    BY <2>1, ActivePlaces
  <2>3. queue' = queue
    BY <1>2 DEF WorkerStep, SkipCancelled, Start, SetStage, Complete, AlreadyCompleted,
                Fail, Finish, WorkerNext, Panic
  <2>4. CASE SkipCancelled \/ WorkerNext \/ Panic
    <3>1. wpc' = "recv" /\ UNCHANGED registry /\ Idle(Worker)
      BY <2>4 DEF SkipCancelled, WorkerNext, Panic, CInv, WorkerWrites
    <3>2. ~Live(h)' /\ ~Unposted(h)' /\ ~InsertDue(h)' /\ ~InsertDue(h)
      BY <1>0, <2>2, <2>3, <3>1 DEF Live, Unposted, InsertDue, Idle, Queued, Runs
    <3> QED BY <1>0, <2>2, <3>1, <3>2
            DEF Sound, FirstRecord, Shown, Undisturbed, Agrees, DeletedLate, IsOver,
                NotCancelled, Idle, Runs
  <2>5. ASSUME Start \/ SetStage \/ Complete \/ AlreadyCompleted \/ Fail
        PROVE  Sound(h)'
    <3>1. /\ wpc \in {"check", "run"} /\ wpc' \in {"run", "finish"}
          /\ job' = job /\ Idle(Worker)
          /\ \E id, s : BeginPersist(Worker, id, s)
          /\ wpc = "check" => wpc' = "run" /\ step' = 0
          /\ wpc = "run" /\ wpc' = "run" => step' = step + 1
          /\ wpc = "run" /\ wpc' = "finish" => step' = step
      BY <2>5 DEF Start, SetStage, Complete, AlreadyCompleted, Fail, Finish, CInv, WorkerWrites
    <3>2. /\ wr'[Worker] = "write" /\ wr'[h] = wr[h] /\ rec'[h] = rec[h]
          /\ UNCHANGED <<mem, disk, tmp>>
      BY <3>1, BeginFrame, Parties
    <3>3. /\ Live(h) /\ Live(h)' /\ ~Unposted(h) /\ ~Unposted(h)'
          /\ ~InsertDue(h)' /\ ~InsertDue(h) /\ Runs(h)' /\ ~Idle(Worker)'
      BY <1>0, <2>1, <2>2, <3>1, <3>2 DEF Live, Unposted, InsertDue, Idle, Runs
    <3>4. Shown(h)'
      <4>1. \A r \in Status : r.step \in Nat
        BY RegistryAssumption DEF Status
      <4>2. step \in Nat
        BY RegistryAssumption DEF WorkerTypeOK
      <4> QED BY <3>1, <3>2, <3>3, <4>1, <4>2 DEF Sound, Shown
    <3> QED BY <1>0, <2>2, <3>1, <3>2, <3>3, <3>4
            DEF Sound, FirstRecord, Undisturbed, Agrees, DeletedLate, IsOver, NotCancelled, Idle
  <2> QED BY <1>2, <2>4, <2>5 DEF WorkerStep
<1> QED BY <1>1, <1>2

(* A step of a persist that is about another job.                          *)
LEMMA OtherPersist ==
  ASSUME TypeOK, CInv, NEW h \in Handlers, NEW p \in Writers, wrId[p] # IdOf[h],
         Persist(p) \/ PersistFails(p)
  PROVE  Ignores(h)
<1> RegistryTypeOK
  BY TypeOKParts DEF TypeParts
<1>1. PersistStep(p) \/ PersistFault(p)
  BY DEF Persist, PersistFails
<1>2. UNCHANGED <<webhook, worker, cleanup>>
  BY DEF Persist, PersistFails
<1>3. p # h /\ (p = Worker => ~Runs(h))
  BY <1>1, StepFrame DEF CInv, HandlersWrite, WorkerWrites, Runs
<1>4. wr'[h] = wr[h] /\ rec' = rec /\ (Runs(h) => wr'[Worker] = wr[Worker])
  BY <1>1, <1>3, StepFrame, Parties
<1>5. /\ mem'[IdOf[h]] = mem[IdOf[h]]
      /\ disk'[IdOf[h]] = disk[IdOf[h]]
      /\ tmp'[IdOf[h]] = tmp[IdOf[h]]
  BY <1>1, WriterTypes
     DEF RegistryTypeOK, PersistStep, PersistWrite, PersistRename, PersistRenameMissing,
         PersistInsert, PersistFault
<1> QED BY <1>2, <1>4, <1>5 DEF Ignores, Queued, Runs

(* What a step of the persist of p, the only writer of id, does to id.     *)
LEMMA PersistOf ==
  ASSUME TypeOK, NEW p \in Writers, NEW id \in Ids, wrId[p] = id,
         wr[p] = "rename" => tmp[id] = rec[p],
         Persist(p) \/ PersistFails(p)
  PROVE  /\ UNCHANGED <<webhook, cancels, worker, cleanup, rec>>
         /\ \A q \in Writers \ {p} : wr'[q] = wr[q]
         /\ rec[p] \in Status
         /\ \/ /\ wr[p] = "write" /\ wr'[p] = "rename"
               /\ tmp'[id] = rec[p] /\ disk'[id] = disk[id] /\ mem'[id] = mem[id]
            \/ /\ wr[p] = "rename" /\ wr'[p] = "insert"
               /\ disk'[id] = rec[p] /\ mem'[id] = mem[id]
            \/ /\ wr[p] = "insert" /\ wr'[p] = "ok"
               /\ disk'[id] = disk[id] /\ mem'[id] = rec[p]
            \/ /\ wr[p] \in {"write", "rename"} /\ wr'[p] = "err"
               /\ disk'[id] = disk[id] /\ mem'[id] = mem[id]
<1> RegistryTypeOK
  BY TypeOKParts DEF TypeParts
<1>1. PersistStep(p) \/ PersistFault(p)
  BY DEF Persist, PersistFails
<1>2. ~Idle(p) /\ rec[p] \in Status
  BY <1>1, StepFrame DEF RegistryTypeOK
<1>3. rec[p] # NoRecord
  BY <1>2, NoRecordAssumption
<1>4. \/ /\ wr[p] = "write" /\ wr'[p] = "rename"
         /\ tmp'[id] = rec[p] /\ disk'[id] = disk[id] /\ mem'[id] = mem[id]
      \/ /\ wr[p] = "rename" /\ wr'[p] = "insert"
         /\ disk'[id] = rec[p] /\ mem'[id] = mem[id]
      \/ /\ wr[p] = "insert" /\ wr'[p] = "ok"
         /\ disk'[id] = disk[id] /\ mem'[id] = rec[p]
      \/ /\ wr[p] \in {"write", "rename"} /\ wr'[p] = "err"
         /\ disk'[id] = disk[id] /\ mem'[id] = mem[id]
  <2>1. CASE PersistWrite(p)
    BY <2>1 DEF PersistWrite, RegistryTypeOK
  <2>2. CASE PersistRename(p)
    BY <2>2 DEF PersistRename, RegistryTypeOK
  <2>3. CASE PersistRenameMissing(p)
    BY <2>3, <1>3 DEF PersistRenameMissing
  <2>4. CASE PersistInsert(p)
    BY <2>4 DEF PersistInsert, RegistryTypeOK
  <2>5. CASE PersistFault(p)
    BY <2>5 DEF PersistFault, RegistryTypeOK
  <2> QED BY <1>1, <2>1, <2>2, <2>3, <2>4, <2>5 DEF PersistStep
<1> QED BY <1>1, <1>2, <1>4, StepFrame DEF Persist, PersistFails

LEMMA OwnPersist ==
  ASSUME TypeOK, CInv, NEW h \in Handlers, Sound(h), wrId[h] = IdOf[h],
         Persist(h) \/ PersistFails(h)
  PROVE  Sound(h)'
<1>1. ~Idle(h)
  BY StepFrame, Parties, TypeOKParts DEF TypeParts, Persist, PersistFails
<1>2. /\ hpc[h] \in {"persist", "already"} /\ ~Queued(h) /\ ~Runs(h) /\ Live(h)
      /\ rec[h].step = 0
      /\ hpc[h] = "persist" => rec[h].state = "queued"
      /\ hpc[h] = "already" => rec[h].state = "already_completed"
  BY <1>1, ActivePlaces DEF CInv, HandlersWrite
<1>3. /\ UNCHANGED <<hpc, queue, wpc, job, clpc, expired, victim>>
      /\ rec' = rec /\ rec[h] \in Status /\ rec[h] # NoRecord
      /\ ~Queued(h)' /\ ~Runs(h)'
  BY <1>2, PersistOf, WriterTypes, Parties, NoRecordAssumption
     DEF Sound, Undisturbed, Queued, Runs
<1>4. CASE /\ wr[h] = "write" /\ wr'[h] = "rename"
           /\ tmp'[IdOf[h]] = rec[h]
           /\ disk'[IdOf[h]] = disk[IdOf[h]] /\ mem'[IdOf[h]] = mem[IdOf[h]]
  BY <1>2, <1>3, <1>4
     DEF Sound, FirstRecord, Shown, Undisturbed, Agrees, DeletedLate, IsOver, NotCancelled,
         Unposted, Live, InsertDue, Idle
<1>5. CASE /\ wr[h] = "rename" /\ wr'[h] = "insert"
           /\ disk'[IdOf[h]] = rec[h] /\ mem'[IdOf[h]] = mem[IdOf[h]]
  BY <1>2, <1>3, <1>5
     DEF Sound, FirstRecord, Shown, Undisturbed, Agrees, DeletedLate, IsOver, NotCancelled,
         Unposted, Live, InsertDue, Idle
<1>6. CASE /\ wr[h] = "insert" /\ wr'[h] = "ok"
           /\ disk'[IdOf[h]] = disk[IdOf[h]] /\ mem'[IdOf[h]] = rec[h]
  BY <1>2, <1>3, <1>6
     DEF Sound, FirstRecord, Shown, Undisturbed, Agrees, DeletedLate, IsOver, NotCancelled,
         Unposted, Live, InsertDue, Idle
<1>7. CASE /\ wr[h] \in {"write", "rename"} /\ wr'[h] = "err"
           /\ disk'[IdOf[h]] = disk[IdOf[h]] /\ mem'[IdOf[h]] = mem[IdOf[h]]
  BY <1>2, <1>3, <1>7
     DEF Sound, FirstRecord, Shown, Undisturbed, Agrees, DeletedLate, IsOver, NotCancelled,
         Unposted, Live, InsertDue, Idle
<1> QED BY <1>4, <1>5, <1>6, <1>7, PersistOf, WriterTypes, Parties DEF Sound, Undisturbed

LEMMA WorkerPersist ==
  ASSUME TypeOK, CInv, NEW h \in Handlers, Sound(h), Runs(h), wrId[Worker] = IdOf[h],
         Persist(Worker) \/ PersistFails(Worker)
  PROVE  Sound(h)'
<1>1. ~Idle(Worker)
  BY StepFrame, Parties, TypeOKParts DEF TypeParts, Persist, PersistFails
<1>2. /\ hpc[h] = "done" /\ Idle(h) /\ ~Queued(h) /\ Live(h) /\ ~Unposted(h)
      /\ wpc \in {"run", "finish"}
      /\ rec[Worker].step = step
      /\ wpc = "run" => rec[Worker].state = "running"
      /\ wpc = "finish" => rec[Worker].state \in Terminal \ {"cancelled"}
  BY <1>1, ActivePlaces DEF CInv, WorkerWrites, Unposted
<1>3. /\ UNCHANGED <<hpc, queue, wpc, job, step, clpc, expired, victim>>
      /\ rec' = rec /\ rec[Worker] \in Status /\ rec[Worker] # NoRecord
      /\ ~Queued(h)' /\ Runs(h)' /\ ~Unposted(h)' /\ wr'[h] = wr[h]
  BY <1>2, PersistOf, WriterTypes, Parties, NoRecordAssumption
     DEF Sound, Undisturbed, Queued, Runs, Unposted
<1>4. step \in Nat /\ \A r \in Status : r.step \in Nat
  BY RegistryAssumption, TypeOKParts DEF TypeParts, WorkerTypeOK, Status
<1>5. CASE /\ wr[Worker] = "write" /\ wr'[Worker] = "rename"
           /\ tmp'[IdOf[h]] = rec[Worker]
           /\ disk'[IdOf[h]] = disk[IdOf[h]] /\ mem'[IdOf[h]] = mem[IdOf[h]]
  BY <1>1, <1>2, <1>3, <1>5
     DEF Sound, FirstRecord, Shown, Undisturbed, Agrees, DeletedLate, IsOver, NotCancelled,
         Live, InsertDue, Idle
<1>6. CASE /\ wr[Worker] = "rename" /\ wr'[Worker] = "insert"
           /\ disk'[IdOf[h]] = rec[Worker] /\ mem'[IdOf[h]] = mem[IdOf[h]]
  BY <1>1, <1>2, <1>3, <1>6
     DEF Sound, FirstRecord, Shown, Undisturbed, Agrees, DeletedLate, IsOver, NotCancelled,
         Live, InsertDue, Idle
<1>7. CASE /\ wr[Worker] = "insert" /\ wr'[Worker] = "ok"
           /\ disk'[IdOf[h]] = disk[IdOf[h]] /\ mem'[IdOf[h]] = rec[Worker]
  <2>1. Shown(h)'
    BY <1>1, <1>2, <1>3, <1>4, <1>7 DEF Shown, Live, Idle
  <2> QED BY <1>1, <1>2, <1>3, <1>7, <2>1
          DEF Sound, FirstRecord, Undisturbed, Agrees, DeletedLate, IsOver, NotCancelled,
              Live, InsertDue, Idle
<1>8. CASE /\ wr[Worker] \in {"write", "rename"} /\ wr'[Worker] = "err"
           /\ disk'[IdOf[h]] = disk[IdOf[h]] /\ mem'[IdOf[h]] = mem[IdOf[h]]
  <2>1. Shown(h)'
    BY <1>1, <1>2, <1>3, <1>4, <1>8 DEF Sound, Shown, Live, Idle
  <2> QED BY <1>1, <1>2, <1>3, <1>8, <2>1
          DEF Sound, FirstRecord, Undisturbed, Agrees, DeletedLate, IsOver, NotCancelled,
              Live, InsertDue, Idle
<1> QED BY <1>5, <1>6, <1>7, <1>8, PersistOf, WriterTypes, Parties DEF Sound, Undisturbed

LEMMA IdleWhenOver ==
  ASSUME TypeOK, CInv, NEW h \in Handlers, ~Live(h)
  PROVE  /\ Idle(h) /\ ~Unposted(h) /\ ~InsertDue(h)
         /\ Runs(h) => Idle(Worker)
BY ActivePlaces DEF InsertDue, Idle

LEMMA ListSound ==
  ASSUME TypeOK, CInv, NEW h \in Handlers, Sound(h), CleanupList
  PROVE  Sound(h)'
<1> USE DEF TypeParts
<1> RegistryTypeOK
  BY TypeOKParts
<1>1. UNCHANGED <<registry, webhook, worker>> /\ clpc' = "forget"
  BY DEF CleanupList
<1>2. ASSUME IdOf[h] \in expired'
      PROVE  IsOver(h)
  <2>1. Get(IdOf[h]) # NoRecord /\ Get(IdOf[h]).state \in Terminal
    BY <1>2 DEF CleanupList
  <2>2. ~Live(h)
    <3>1. CASE Unposted(h)
      BY <2>1, <3>1 DEF Sound, FirstRecord, Get, Unposted, CInv, HandlersWrite, Idle, Terminal
    <3>2. CASE Live(h) /\ ~Unposted(h)
      BY <2>1, <3>2, NoRecordAssumption DEF Sound, Shown, Get, Terminal
    <3> QED BY <3>1, <3>2
  <2>3. mem[IdOf[h]] # NoRecord => disk[IdOf[h]] = mem[IdOf[h]]
    BY <2>2, IdleWhenOver DEF Sound, Agrees
  <2> QED BY <2>1, <2>2, <2>3 DEF IsOver, Get
<1>3. DeletedLate(h)'
  BY <1>1, <1>2 DEF DeletedLate, IsOver, Live, Queued, Runs, Idle
<1> QED BY <1>1, <1>3
        DEF Sound, FirstRecord, Shown, Undisturbed, Agrees, NotCancelled, Live, Queued, Runs,
            Idle, Unposted, InsertDue

LEMMA CleanupSound ==
  ASSUME TypeOK, CInv, NEW h \in Handlers, Sound(h), Cleanup
  PROVE  Sound(h)'
<1> USE DEF TypeParts
<1> RegistryTypeOK /\ CleanupTypeOK
  BY TypeOKParts
<1>1. CASE CleanupStart \/ CleanupEnd
  <2>1. Ignores(h)
    BY <1>1 DEF CleanupStart, CleanupEnd, Ignores, Queued
  <2> QED BY <2>1, SoundIgnored
<1>2. CASE CleanupForget
  <2>1. PICK id \in expired : Forget(id) /\ victim' = id /\ expired' = expired \ {id}
    BY <1>2 DEF CleanupForget
  <2>2. /\ UNCHANGED <<webhook, worker, disk, tmp, wr, rec>>
        /\ mem' = [mem EXCEPT ![id] = NoRecord]
    BY <1>2, <2>1 DEF CleanupForget, Forget
  <2>3. CASE id # IdOf[h]
    <3>1. Ignores(h)
      BY <2>1, <2>2, <2>3, WriterTypes DEF Ignores, Queued, RegistryTypeOK
    <3> QED BY <3>1, SoundIgnored
  <2>4. CASE id = IdOf[h]
    <3>1. IsOver(h)
      BY <2>1, <2>4 DEF Sound, DeletedLate
    <3>2. mem'[IdOf[h]] = NoRecord
      BY <2>2, <2>4, WriterTypes DEF RegistryTypeOK
    <3>3. IsOver(h)' /\ ~Live(h)' /\ ~Unposted(h)' /\ ~InsertDue(h)'
      BY <2>2, <3>1, IdleWhenOver DEF IsOver, Live, Queued, Runs, Idle, Unposted, InsertDue
    <3>4. Undisturbed(h)'
      BY <2>2 DEF Sound, Undisturbed, Runs
    <3> QED BY <2>2, <3>2, <3>3, <3>4
            DEF Sound, FirstRecord, Shown, Agrees, NotCancelled, DeletedLate
  <2> QED BY <2>3, <2>4
<1>3. CASE CleanupRemove
  <2>1. /\ UNCHANGED <<webhook, worker, expired, mem, wr, rec>>
        /\ clpc = "rmdir" /\ clpc' = "forget" /\ victim \in Ids
        /\ RemoveDir(victim) \/ UNCHANGED <<disk, tmp>>
    BY <1>3 DEF CleanupRemove, RemoveDir, RemoveDirFault, CleanupTypeOK
  <2>2. CASE victim # IdOf[h] \/ UNCHANGED <<disk, tmp>>
    <3>1. Ignores(h)
      BY <2>1, <2>2, WriterTypes DEF Ignores, Queued, RegistryTypeOK, RemoveDir
    <3> QED BY <3>1, SoundIgnored
  <2>3. CASE victim = IdOf[h] /\ RemoveDir(victim)
    <3>1. IsOver(h) /\ mem[IdOf[h]] = NoRecord
      BY <2>1, <2>3 DEF Sound, DeletedLate
    <3>2. disk'[IdOf[h]] = NoRecord
      BY <2>1, <2>3 DEF RemoveDir, RegistryTypeOK
    <3>3. IsOver(h)' /\ ~Live(h)' /\ ~Unposted(h)' /\ ~InsertDue(h)'
      BY <2>1, <3>1, <3>2, IdleWhenOver
         DEF IsOver, Live, Queued, Runs, Idle, Unposted, InsertDue
    <3>4. Undisturbed(h)'
      BY <2>1, <3>1, IdleWhenOver DEF IsOver, Undisturbed, Runs, Idle
    <3> QED BY <2>1, <3>1, <3>2, <3>3, <3>4
            DEF Sound, FirstRecord, Shown, Agrees, NotCancelled, DeletedLate
  <2> QED BY <2>1, <2>2, <2>3
<1> QED BY <1>1, <1>2, <1>3, ListSound DEF Cleanup

LEMMA CrashSound ==
  ASSUME TypeOK, NEW h \in Handlers, Started(h), Sound(h), Crash
  PROVE  Sound(h)'
<1> WebhookTypeOK
  BY TypeOKParts DEF TypeParts
<1>1. /\ wr'[h] = "none" /\ wr'[Worker] = "none"
      /\ mem'[IdOf[h]] = NoRecord
      /\ disk' = disk
      /\ queue' = <<>> /\ wpc' = "recv" /\ clpc' = "sleep" /\ expired' = {}
      /\ hpc'[h] \in {"done", "gone"}
  BY Parties, WriterTypes DEF Crash, LoseMemory, Started, WebhookTypeOK
<1>2. ~Queued(h)' /\ ~Runs(h)'
  BY <1>1 DEF Queued, Range, Runs
<1>3. ~Live(h)' /\ ~Unposted(h)' /\ ~InsertDue(h)'
  BY <1>1, <1>2 DEF Live, Unposted, InsertDue
<1> QED BY <1>1, <1>2, <1>3
        DEF Sound, FirstRecord, Shown, Undisturbed, Agrees, NotCancelled, DeletedLate

(* A request that had not arrived before arrives now.                      *)
LEMMA StartedBy ==
  ASSUME TypeOK, TypeOK', [Next]_vars, NEW h \in Handlers, ~Started(h), Started(h)'
  PROVE  Receive(h)
<1>1. \A k \in Handlers : Webhook(k) \/ Disconnect(k) => k = h
  <2> TAKE k \in Handlers
  <2> HAVE Webhook(k) \/ Disconnect(k)
  <2>1. k # h => Ignores(h)
    BY OtherWebhook
  <2> QED BY <2>1 DEF Ignores, Started
<1>2. hpc' # hpc /\ hpc[h] = "new" /\ ~Crash
  <2>1. ~Crash
    BY DEF Crash, Started
  <2> QED BY <2>1 DEF Started
<1>3. \E k \in Handlers : Webhook(k) \/ Disconnect(k)
  BY <1>2
     DEF Next, vars, Cancel, CancelRejected, CancelBegins, CancelEnds, WorkerStep, Dequeue,
         SkipCancelled, Start, SetStage, Complete, AlreadyCompleted, Fail, Finish, WorkerNext,
         Panic, Cleanup, CleanupStart, CleanupList, CleanupForget, CleanupRemove, CleanupEnd,
         Persist, PersistFails, Tick
<1> QED BY <1>1, <1>2, <1>3
        DEF Webhook, Receive, Refuse, FastPath, FastReply, SlowPath, Enqueue, Disconnect

LEMMA NextSound ==
  ASSUME DInv, CInv, CInv', LInv, [Next]_vars
  PROVE  LInv'
<1> TypeOK /\ TypeOK'
  BY NextType DEF DInv
<1> SUFFICES ASSUME NEW h \in Handlers, Alone(h)'
             PROVE  Sound(h)'
  BY DEF LInv
<1>1. CASE ~Started(h)
  <2>1. Receive(h)
    BY <1>1, StartedBy DEF Alone
  <2> QED BY <2>1, ReceiveSound DEF Alone, Undisputed
<1>2. CASE Started(h)
  <2>1. Alone(h) /\ Sound(h)
    BY <1>2, AloneShrinks DEF LInv
  <2>2. ASSUME NEW k \in Handlers, Webhook(k) \/ Disconnect(k)
        PROVE  Sound(h)'
    BY <1>2, <2>1, <2>2, OtherWebhook, OwnWebhook, SoundIgnored
  <2>3. ASSUME NEW c \in Cancellers, Cancel(c)
        PROVE  Sound(h)'
    BY <2>1, <2>3, CancelIgnores, SoundIgnored
  <2>4. CASE WorkerStep \/ Panic
    BY <2>1, <2>4, OtherWorkerStep, OwnWorkerStep, SoundIgnored
  <2>5. CASE Cleanup
    BY <2>1, <2>5, CleanupSound
  <2>6. ASSUME NEW p \in Writers, Persist(p) \/ PersistFails(p)
        PROVE  Sound(h)'
    <3>1. ~Idle(p)
      BY <2>6, StepFrame, TypeOKParts DEF TypeParts, Persist, PersistFails
    <3> QED BY <2>1, <2>6, <3>1, AloneWriters, OtherPersist, OwnPersist, WorkerPersist,
               SoundIgnored
  <2>7. CASE Tick \/ UNCHANGED vars
    <3>1. Ignores(h)
      BY <2>7 DEF Tick, vars, Ignores, Queued
    <3> QED BY <2>1, <3>1, SoundIgnored
  <2>8. CASE Crash
    BY <1>2, <2>1, <2>8, CrashSound
  <2> QED BY <2>2, <2>3, <2>4, <2>5, <2>6, <2>7, <2>8 DEF Next
<1> QED BY <1>1, <1>2

LEMMA InvariantHolds == Spec => [](DInv /\ CInv /\ LInv)
<1>1. Init => DInv /\ CInv /\ LInv
  BY InitDurable, InitCallers, InitSound
<1>2. DInv /\ CInv /\ LInv /\ [Next]_vars => (DInv /\ CInv /\ LInv)'
  <2> SUFFICES ASSUME DInv, CInv, LInv, [Next]_vars
               PROVE  DInv' /\ CInv' /\ LInv'
    OBVIOUS
  <2>1. TypeOK /\ TypeOK'
    BY NextType DEF DInv
  <2>2. CInv'
    BY <2>1, NextCallers
  <2> QED BY <2>2, NextDurable, NextSound
<1> QED BY <1>1, <1>2, PTL DEF Spec

-----------------------------------------------------------------------------
(* What follows from it *)

(* A record, in the map or in the file, is that of a request.              *)
LEMMA RecordHasRequest ==
  ASSUME DInv, NEW id \in Ids, mem[id] # NoRecord \/ disk[id] # NoRecord
  PROVE  \E h \in Handlers : Started(h) /\ IdOf[h] = id
BY DEF DInv, Records, Proper

(* Between two persists a restart would show what clients see already:     *)
(* for as long as no other request gets the id and no cancel begins, the   *)
(* map and status.json agree, whatever fails or crashes.                   *)
THEOREM MemDiskAgreeCorrect == Spec => []MemDiskAgree
<1>1. DInv /\ CInv /\ LInv => MemDiskAgree
  <2> SUFFICES ASSUME DInv, CInv, LInv,
                      NEW id \in Ids, Undisputed(id), Writes(id) = {}, mem[id] # NoRecord
               PROVE  disk[id] = mem[id]
    BY DEF MemDiskAgree
  <2>1. PICK h \in Handlers : Started(h) /\ IdOf[h] = id
    BY RecordHasRequest
  <2>2. Agrees(h)
    BY <2>1 DEF LInv, Alone, Sound
  <2>3. ~InsertDue(h)
    <3>1. wr[h] # "insert"
      BY <2>1, Parties DEF CInv, HandlersWrite, Writes, Idle
    <3>2. ~(Runs(h) /\ wr[Worker] = "insert")
      BY <2>1, Parties DEF CInv, WorkerWrites, Writes, Idle, Runs
    <3> QED BY <3>1, <3>2 DEF InsertDue
  <2> QED BY <2>1, <2>2, <2>3 DEF Agrees
<1> QED BY <1>1, InvariantHolds, PTL

(* cleanup_old_jobs never deletes what a pipeline or a writer still works  *)
(* on, although it acts on a list that may be old by then.                 *)
THEOREM CleanupSparesLiveJobsCorrect == Spec => []CleanupSparesLiveJobs
<1>1. DInv /\ CInv /\ LInv => CleanupSparesLiveJobs
  <2> SUFFICES ASSUME DInv, CInv, LInv, clpc = "rmdir", Undisputed(victim)
               PROVE  /\ ~(wpc = "run" /\ IdOf[job] = victim)
                      /\ Writes(victim) = {}
                      /\ disk[victim] # NoRecord => disk[victim].state \in Terminal
    BY DEF CleanupSparesLiveJobs
  <2>1. PICK h \in Handlers : Started(h) /\ IdOf[h] = victim
    BY DEF DInv, Doomed, Overdue
  <2>2. Alone(h) /\ IsOver(h)
    BY <2>1 DEF LInv, Alone, Sound, DeletedLate
  <2>3. TypeOK /\ ~Live(h)
    BY <2>2 DEF DInv, IsOver
  <2>4. Writes(victim) = {}
    BY <2>1, <2>2, <2>3, AloneWriters, IdleWhenOver DEF Writes
  <2>5. ~(wpc = "run" /\ IdOf[job] = victim)
    <3> SUFFICES ASSUME wpc = "run", IdOf[job] = victim
                 PROVE  FALSE
      OBVIOUS
    <3>1. job \in Handlers /\ Started(job)
      BY <2>3, TypeOKParts DEF TypeParts, WorkerTypeOK, DInv, Owned
    <3>2. job = h
      BY <2>1, <2>2, <3>1 DEF Alone, Undisputed, Sole, Started
    <3> QED BY <2>3, <3>2 DEF Live, Runs
  <2> QED BY <2>1, <2>2, <2>4, <2>5 DEF IsOver
<1> QED BY <1>1, InvariantHolds, PTL

-----------------------------------------------------------------------------
(* The lifecycle that clients see *)

ViewOf(r) == IF r = NoRecord THEN Lifecycle!Absent ELSE [phase |-> r.state, step |-> r.step]

LEMMA SeenIs == /\ \A id \in Ids : Seen[id] = ViewOf(Get(id))
                /\ \A id \in Ids : Seen'[id] = ViewOf(Get(id)')
BY DEF Seen, ViewOf, Lifecycle!Absent

(* The record in the map is replaced by that of a persist.                 *)
LEMMA InsertMoves ==
  ASSUME TypeOK, CInv, NEW h \in Handlers, Sound(h), mem[IdOf[h]] # NoRecord,
         NEW p \in Writers, p = h \/ (p = Worker /\ Runs(h)), wr[p] = "insert"
  PROVE  Lifecycle!Moves(ViewOf(mem[IdOf[h]]), ViewOf(rec[p]))
<1> DEFINE r == mem[IdOf[h]]
<1>1. /\ rec[p] \in Status /\ rec[p] # NoRecord /\ ~Idle(p)
      /\ Steps \in Nat /\ step \in 0..Steps
  BY NoRecordAssumption, RegistryAssumption, TypeOKParts
     DEF TypeParts, RegistryTypeOK, Idle, WorkerTypeOK
<1>2. Live(h) /\ ~Unposted(h)
  BY <1>1, ActivePlaces DEF Sound, FirstRecord
<1>3. /\ r \in Status
      /\ \/ r.state = "queued" /\ r.step = 0
         \/ /\ r.state = "running"
            /\ Runs(h) /\ wpc # "check"
            /\ r.step <= step
            /\ wpc = "run" /\ ~Idle(Worker) => r.step < step
  BY <1>2 DEF Sound, Shown
<1>4. r.step \in 0..Steps /\ rec[p].step \in 0..Steps
  BY <1>1, <1>3 DEF Status
<1>5. /\ ViewOf(r) = [phase |-> r.state, step |-> r.step]
      /\ ViewOf(rec[p]) = [phase |-> rec[p].state, step |-> rec[p].step]
  BY <1>1 DEF ViewOf
<1>6. CASE p = h
  <2>1. ~Runs(h) /\ rec[h].state = "already_completed" /\ rec[h].step = 0
    BY <1>1, <1>2, <1>6, ActivePlaces DEF CInv, HandlersWrite, Unposted, Idle
  <2> QED BY <1>3, <1>5, <1>6, <2>1 DEF Lifecycle!Moves, Lifecycle!Ends, Lifecycle!Final
<1>7. CASE p = Worker /\ wpc = "run"
  <2>1. rec[p].state = "running" /\ rec[p].step = step
    BY <1>1, <1>7 DEF CInv, WorkerWrites
  <2> QED BY <1>1, <1>3, <1>5, <1>7, <2>1 DEF Lifecycle!Moves, Lifecycle!Advances
<1>8. CASE p = Worker /\ wpc = "finish"
  <2>1. /\ rec[p].state \in Terminal \ {"cancelled"} /\ rec[p].step = step
        /\ rec[p].state = "completed" => step = Steps
    BY <1>1, <1>8 DEF CInv, WorkerWrites
  <2>2. r.step <= rec[p].step
    BY <1>1, <1>3, <1>4, <2>1
  <2> QED BY <1>3, <1>5, <2>1, <2>2
          DEF Lifecycle!Moves, Lifecycle!Ends, Lifecycle!Final, Terminal
<1>9. p = h \/ wpc \in {"run", "finish"}
  BY <1>1 DEF CInv, WorkerWrites
<1> QED BY <1>6, <1>7, <1>8, <1>9

LEMMA PersistMoves ==
  ASSUME DInv, CInv, NEW h \in Handlers, Alone(h), Sound(h),
         NEW p \in Writers, Persist(p) \/ PersistFails(p), wrId[p] = IdOf[h]
  PROVE  Get(IdOf[h])' = Get(IdOf[h])
           \/ Lifecycle!Moves(ViewOf(Get(IdOf[h])), ViewOf(Get(IdOf[h])'))
<1>0. TypeOK
  BY DEF DInv
<1>1. ~Idle(p)
  BY <1>0, StepFrame, TypeOKParts DEF TypeParts, Persist, PersistFails
<1>2. p = h \/ (p = Worker /\ Runs(h))
  BY <1>0, <1>1, AloneWriters
<1>3. Live(h)
  BY <1>0, <1>1, <1>2, ActivePlaces
<1>4. /\ rec[p] \in Status /\ rec[p] # NoRecord
      /\ \/ /\ wr[p] # "insert"
            /\ disk'[IdOf[h]] = disk[IdOf[h]] /\ mem'[IdOf[h]] = mem[IdOf[h]]
         \/ /\ wr[p] = "rename"
            /\ disk'[IdOf[h]] = rec[p] /\ mem'[IdOf[h]] = mem[IdOf[h]]
         \/ /\ wr[p] = "insert"
            /\ disk'[IdOf[h]] = disk[IdOf[h]] /\ mem'[IdOf[h]] = rec[p]
  <2>1. wr[p] = "rename" => tmp[IdOf[h]] = rec[p]
    BY <1>2 DEF Sound, Undisturbed
  <2> QED BY <1>0, <2>1, PersistOf, WriterTypes, NoRecordAssumption
<1>5. CASE /\ wr[p] = "rename"
           /\ disk'[IdOf[h]] = rec[p] /\ mem'[IdOf[h]] = mem[IdOf[h]]
  <2>1. CASE mem[IdOf[h]] # NoRecord
    BY <1>5, <2>1 DEF Get
  <2>2. CASE mem[IdOf[h]] = NoRecord
    <3>1. Unposted(h)
      BY <1>3, <2>2, NoRecordAssumption DEF Sound, Shown
    <3>2. p = h /\ rec[p].state = "queued" /\ rec[p].step = 0
      BY <1>0, <1>1, <1>2, <3>1, ActivePlaces DEF Unposted, CInv, HandlersWrite
    <3>3. Get(IdOf[h]) = NoRecord /\ Get(IdOf[h])' = rec[p]
      BY <1>5, <2>2, <3>1, <3>2 DEF Sound, FirstRecord, Get
    <3> QED BY <1>4, <3>2, <3>3
            DEF ViewOf, Lifecycle!Moves, Lifecycle!Accepts, Lifecycle!Absent
  <2> QED BY <2>1, <2>2
<1>6. CASE /\ wr[p] = "insert"
           /\ disk'[IdOf[h]] = disk[IdOf[h]] /\ mem'[IdOf[h]] = rec[p]
  <2>1. CASE mem[IdOf[h]] # NoRecord
    BY <1>0, <1>2, <1>4, <1>6, <2>1, InsertMoves DEF Get
  <2>2. CASE mem[IdOf[h]] = NoRecord
    BY <1>2, <1>4, <1>6, <2>2 DEF Sound, Undisturbed, Get
  <2> QED BY <2>1, <2>2
<1> QED BY <1>4, <1>5, <1>6 DEF Get

LEMMA CleanupMoves ==
  ASSUME DInv, CInv, NEW h \in Handlers, Sound(h), Cleanup \/ Crash
  PROVE  Get(IdOf[h])' = Get(IdOf[h])
           \/ Lifecycle!Moves(ViewOf(Get(IdOf[h])), ViewOf(Get(IdOf[h])'))
<1>0. TypeOK /\ IdOf[h] \in Ids
  BY WriterTypes DEF DInv
<1> RegistryTypeOK /\ CleanupTypeOK
  BY <1>0, TypeOKParts DEF TypeParts
<1>1. CASE CleanupStart \/ CleanupList \/ CleanupEnd
  BY <1>1 DEF CleanupStart, CleanupList, CleanupEnd, Get
<1>2. CASE CleanupForget
  <2>1. PICK id \in expired : Forget(id)
    BY <1>2 DEF CleanupForget
  <2>2. CASE id # IdOf[h]
    BY <2>1, <2>2 DEF Forget, RegistryTypeOK, Get, CleanupTypeOK
  <2>3. CASE id = IdOf[h]
    <3>1. mem[id] = NoRecord \/ disk[id] = mem[id]
      BY <1>0, <2>1, <2>3, IdleWhenOver DEF Sound, DeletedLate, IsOver, Agrees
    <3>2. mem'[id] = NoRecord /\ disk' = disk
      BY <1>0, <2>1, <2>3 DEF Forget, RegistryTypeOK
    <3> QED BY <2>3, <3>1, <3>2 DEF Get
  <2> QED BY <2>2, <2>3
<1>3. CASE CleanupRemove
  <2>1. CASE RemoveDirFault
    BY <2>1 DEF RemoveDirFault, Get
  <2>3. CASE RemoveDir(victim) /\ victim # IdOf[h]
    BY <1>0, <2>3 DEF RemoveDir, RegistryTypeOK, Get
  <2>2. CASE RemoveDir(victim) /\ victim = IdOf[h]
    <3>1. /\ mem[victim] = NoRecord
          /\ disk[victim] # NoRecord => disk[victim].state \in Terminal \ {"cancelled"}
      BY <1>3, <2>2 DEF CleanupRemove, Sound, DeletedLate, IsOver, NotCancelled
    <3>2. mem' = mem /\ disk'[victim] = NoRecord
      BY <1>0, <2>2 DEF RemoveDir, RegistryTypeOK
    <3> QED BY <2>2, <3>1, <3>2
            DEF Get, ViewOf, Lifecycle!Moves, Lifecycle!Expires, Lifecycle!Final,
                Lifecycle!Absent, Terminal
  <2> QED BY <1>3, <2>1, <2>2, <2>3 DEF CleanupRemove
<1>4. CASE Crash
  <2>1. mem'[IdOf[h]] = NoRecord /\ disk' = disk
    BY <1>0, <1>4 DEF Crash, LoseMemory
  <2>2. CASE mem[IdOf[h]] = NoRecord \/ disk[IdOf[h]] = mem[IdOf[h]]
    BY <2>1, <2>2 DEF Get
  <2>3. CASE mem[IdOf[h]] # NoRecord /\ InsertDue(h)
    <3>1. PICK p \in Writers : (p = h \/ (p = Worker /\ Runs(h))) /\ wr[p] = "insert"
      BY <2>3, Parties DEF InsertDue
    <3>2. disk[IdOf[h]] = rec[p]
      BY <3>1 DEF Sound, Undisturbed
    <3> QED BY <1>0, <2>1, <2>3, <3>1, <3>2, InsertMoves DEF Get
  <2> QED BY <2>2, <2>3 DEF Sound, Agrees
<1> QED BY <1>1, <1>2, <1>3, <1>4 DEF Cleanup

LEMMA RecordsKept ==
  ASSUME TypeOK, [Next]_vars,
         ~(Cleanup \/ Crash \/ \E p \in Writers : Persist(p) \/ PersistFails(p))
  PROVE  UNCHANGED <<mem, disk>>
BY DEF Next, vars, Webhook, Receive, Refuse, FastPath, FastReply, SlowPath, Enqueue, Disconnect,
       Cancel, CancelRejected, CancelBegins, CancelEnds, WorkerStep, Dequeue, SkipCancelled,
       Start, SetStage, Complete, AlreadyCompleted, Fail, Finish, WorkerNext, Panic, Tick,
       BeginPersist

(* What a poll shows of an undisputed job changes along the lifecycle only.*)
LifecycleOf(id) ==
  Undisputed(id)' /\ Seen'[id] # Seen[id] => Lifecycle!Moves(Seen[id], Seen'[id])

LEMMA StepOfLifecycle ==
  ASSUME DInv, CInv, LInv, [Next]_vars, NEW id \in Ids
  PROVE  LifecycleOf(id)
<1> SUFFICES ASSUME Undisputed(id)', Seen'[id] # Seen[id]
             PROVE  Lifecycle!Moves(Seen[id], Seen'[id])
  BY DEF LifecycleOf
<1> TypeOK /\ RegistryTypeOK
  BY TypeOKParts DEF DInv, TypeParts
<1>1. Get(id)' # Get(id)
  BY SeenIs
<1>2. SUFFICES Lifecycle!Moves(ViewOf(Get(id)), ViewOf(Get(id)'))
  BY SeenIs
<1>3. Cleanup \/ Crash \/ \E p \in Writers : Persist(p) \/ PersistFails(p)
  BY <1>1, RecordsKept DEF Get
<1>4. ASSUME NEW h \in Handlers, Started(h), IdOf[h] = id
      PROVE  Alone(h) /\ Sound(h)
  <2>1. Started(h)'
    BY <1>4, GrowsNext DEF Grows
  <2>2. Alone(h)
    BY <1>4, <2>1, AloneShrinks DEF Alone
  <2> QED BY <2>2 DEF LInv
<1>5. CASE Cleanup \/ Crash
  <2>1. Get(id) # NoRecord
    BY <1>1, <1>5
       DEF Get, Cleanup, CleanupStart, CleanupList, CleanupForget, CleanupRemove, CleanupEnd,
           Forget, RemoveDir, RemoveDirFault, Crash, LoseMemory, RegistryTypeOK
  <2>2. PICK h \in Handlers : Started(h) /\ IdOf[h] = id
    BY <2>1, RecordHasRequest DEF Get
  <2> QED BY <1>1, <1>4, <1>5, <2>2, CleanupMoves
<1>6. ASSUME NEW p \in Writers, Persist(p) \/ PersistFails(p)
      PROVE  Lifecycle!Moves(ViewOf(Get(id)), ViewOf(Get(id)'))
  <2>1. ~Idle(p) /\ rec[p] \in Status /\ wrId[p] \in Ids
    BY <1>6, StepFrame DEF Persist, PersistFails, RegistryTypeOK
  <2>2. wrId[p] = id
    BY <1>1, <1>6, <2>1
       DEF Persist, PersistFails, PersistStep, PersistWrite, PersistRename,
           PersistRenameMissing, PersistInsert, PersistFault, RegistryTypeOK, Get
  <2>3. PICK h \in Handlers : Started(h) /\ IdOf[h] = id
    BY <2>1, <2>2, NoRecordAssumption DEF DInv, Records, Proper
  <2> QED BY <1>1, <1>4, <1>6, <2>2, <2>3, PersistMoves
<1> QED BY <1>3, <1>5, <1>6

(* Whatever other requests, their cancels, crashes and failing writes do,  *)
(* a client that polls a job never sees it go back, come back, or end      *)
(* before its pipeline has, as long as the job's id is its own and nobody  *)
(* cancels it.                                                             *)
THEOREM PollsSeeLifecycle == Spec => [][\A id \in Ids : LifecycleOf(id)]_vars
<1>1. DInv /\ CInv /\ LInv /\ [Next]_vars => \A id \in Ids : LifecycleOf(id)
  BY StepOfLifecycle
<1> QED BY <1>1, InvariantHolds, PTL DEF Spec

(* JobService implements JobLifecycle when every request gets an id of its *)
(* own and nobody cancels: a cancelled job is no part of that lifecycle.   *)
THEOREM ImplementsLifecycleCorrect ==
  ASSUME Cancellers = {},
         \A h, k \in Handlers : IdOf[h] = IdOf[k] => h = k
  PROVE  Spec => ImplementsLifecycle
<1>1. Init => Lifecycle!Init
  BY SeenIs DEF Init, RegistryInit, Get, Seen, Lifecycle!Init, Lifecycle!Absent
<1>2. \A id \in Ids : Undisputed(id)'
  BY DEF Undisputed, Sole
<1>3. DInv' /\ LInv' => Seen' \in [Ids -> Lifecycle!View]
  <2> SUFFICES ASSUME DInv', LInv', NEW id \in Ids
               PROVE  Seen'[id] \in Lifecycle!View
    BY DEF Seen
  <2> DEFINE r == Get(id)'
  <2>0. Seen'[id] = ViewOf(r)
    BY SeenIs
  <2> HIDE DEF r
  <2>1. CASE r = NoRecord
    BY <2>0, <2>1, RegistryAssumption
       DEF ViewOf, Lifecycle!Absent, Lifecycle!View, Lifecycle!Phase
  <2>2. CASE r # NoRecord
    <3>1. PICK h \in Handlers : Started(h)' /\ IdOf[h] = id
      BY <2>2 DEF DInv, Records, Proper, Get, r
    <3>2. NotCancelled(h)'
      BY <1>2, <3>1 DEF LInv, Alone, Sound
    <3>3. r \in Status /\ r.state # "cancelled"
      BY <2>2, <3>1, <3>2, TypeOKParts
         DEF DInv, TypeParts, RegistryTypeOK, NotCancelled, Get, r
    <3>4. r.state \in Lifecycle!Phase /\ r.step \in 0..Steps
      BY <3>3 DEF Lifecycle!Phase, Status, JobState
    <3> QED BY <2>0, <2>2, <3>4 DEF ViewOf, Lifecycle!View
  <2> QED BY <2>1, <2>2
<1>4. /\ DInv /\ CInv /\ LInv /\ [Next]_vars /\ (DInv /\ CInv /\ LInv)'
      => [Lifecycle!Next]_Seen
  <2> SUFFICES ASSUME DInv, CInv, LInv, [Next]_vars, DInv', LInv'
               PROVE  Lifecycle!Next
    OBVIOUS
  <2> QED BY <1>2, <1>3, StepOfLifecycle DEF LifecycleOf, Lifecycle!Next
<1> QED BY <1>1, <1>4, InvariantHolds, PTL DEF Spec, ImplementsLifecycle, Lifecycle!Spec

-----------------------------------------------------------------------------
(* A cancel sticks *)

(* A client cancels after it was answered, if it is not eager.             *)
Courteous ==
  \A c \in Cancellers :
    /\ answer[c] # "none" => cpc[c] = "done"
    /\ ~EagerCancel /\ cpc[c] # "new" =>
         \E h \in Handlers : IdOf[h] = CancelOf[c] /\ reply[h] = "202"

Waits(h) == Queued(h) \/ (wpc = "check" /\ job = h)

(* The record of the cancel is in the map.                                 *)
Recorded(c) == answer[c] = "cancelled" \/ (cpc[c] = "persist" /\ wr[c] = "ok")

Sticks(c, h) ==
  /\ ~EagerCancel /\ Sole(IdOf[h]) /\ now = created[h]
  /\ CancelOf[c] = IdOf[h] /\ Recorded(c) /\ Waits(h)
  => mem[IdOf[h]] # NoRecord /\ mem[IdOf[h]].state = "cancelled"

SticksInv == \A c \in Cancellers, h \in Handlers : Sticks(c, h)

-----------------------------------------------------------------------------
(* A queued job has an owner *)

Unqueued(r) == r # NoRecord => r.state # "queued"

(* The jobs whose files are about to be renamed, whose records are about   *)
(* to be inserted, and all that are being written.                         *)
Renaming  == {wrId[p] : p \in {q \in Writers : wr[q] = "rename"}}
Inserting == {wrId[p] : p \in {q \in Writers : wr[q] = "insert"}}
Written   == {wrId[p] : p \in {q \in Writers : ~Idle(q)}}

(* A later record was due.                                                 *)
Past(h) == hpc[h] = "already" \/ (hpc[h] = "done" /\ ~Waits(h))

Begins(h) ==
  Unposted(h) =>
    /\ wr[h] # "err"
    /\ mem[IdOf[h]] = NoRecord
    /\ wr[h] = "rename" => tmp[IdOf[h]] = rec[h]
    /\ wr[h] = "insert" => tmp[IdOf[h]] = NoRecord
    /\ disk[IdOf[h]] = IF wr[h] = "insert" THEN rec[h] ELSE NoRecord
    /\ IdOf[h] \notin expired
    /\ ~(clpc = "rmdir" /\ victim = IdOf[h])

(* The file is never queued again, and the map follows it.                 *)
MovesOn(h) ==
  ~Unposted(h) =>
    /\ Unqueued(tmp[IdOf[h]])
    /\ Unqueued(disk[IdOf[h]]) => Unqueued(mem[IdOf[h]]) \/ IdOf[h] \in Inserting
    /\ IdOf[h] \in Inserting => Unqueued(disk[IdOf[h]])
    /\ IdOf[h] \in Renaming /\ tmp[IdOf[h]] = NoRecord => Unqueued(disk[IdOf[h]])
    /\ mem[IdOf[h]] # NoRecord /\ Unqueued(mem[IdOf[h]]) => Unqueued(disk[IdOf[h]])
    /\ IdOf[h] \in expired => Unqueued(disk[IdOf[h]])
    /\ clpc = "rmdir" /\ victim = IdOf[h] =>
         Unqueued(disk[IdOf[h]]) /\ Unqueued(mem[IdOf[h]])
    /\ Past(h) =>
         \/ IdOf[h] \in Written
         \/ Unqueued(disk[IdOf[h]]) /\ Unqueued(mem[IdOf[h]])

Faultless == ~EagerCancel /\ crashes = 0 /\ faults = 0

QInv == Faultless => \A h \in Handlers :
                       Started(h) /\ Sole(IdOf[h]) => Begins(h) /\ MovesOn(h)

-----------------------------------------------------------------------------
(* SticksInv is inductive *)

LEMMA SoleShrinks ==
  ASSUME TypeOK, [Next]_vars, NEW id \in Ids, Sole(id)'
  PROVE  Sole(id)
BY GrowsNext DEF Grows, Sole, Started

LEMMA RepliesStay ==
  ASSUME TypeOK, CInv, [Next]_vars, NEW h \in Handlers, reply[h] = "202"
  PROVE  reply'[h] = "202"
<1> WebhookTypeOK
  BY TypeOKParts DEF TypeParts
<1>1. hpc[h] = "done"
  BY DEF CInv, InOnePlace
<1> QED BY <1>1
        DEF Next, vars, Webhook, Receive, Refuse, FastPath, FastReply, SlowPath, Enqueue,
            Disconnect, Cancel, CancelRejected, CancelBegins, CancelEnds, WorkerStep, Dequeue,
            SkipCancelled, Start, SetStage, Complete, AlreadyCompleted, Fail, Finish,
            WorkerNext, Panic, Cleanup, CleanupStart, CleanupList, CleanupForget,
            CleanupRemove, CleanupEnd, Persist, PersistFails, Tick, Crash, WebhookTypeOK

LEMMA CancelsKept ==
  ASSUME [Next]_vars, ~Crash, \A c \in Cancellers : ~Cancel(c)
  PROVE  UNCHANGED cancels
BY DEF Next, vars, Webhook, Receive, Refuse, FastPath, FastReply, SlowPath, Enqueue, Disconnect,
       WorkerStep, Dequeue, SkipCancelled, Start, SetStage, Complete, AlreadyCompleted, Fail,
       Finish, WorkerNext, Panic, Cleanup, CleanupStart, CleanupList, CleanupForget,
       CleanupRemove, CleanupEnd, Persist, PersistFails, Tick

LEMMA NextCourteous ==
  ASSUME TypeOK, CInv, Courteous, [Next]_vars
  PROVE  Courteous'
<1> CancelTypeOK
  BY TypeOKParts DEF TypeParts
<1> SUFFICES ASSUME NEW c \in Cancellers
             PROVE  /\ answer'[c] # "none" => cpc'[c] = "done"
                    /\ ~EagerCancel /\ cpc'[c] # "new" =>
                         \E h \in Handlers : IdOf[h] = CancelOf[c] /\ reply'[h] = "202"
  BY DEF Courteous
<1>1. ASSUME NEW d \in Cancellers, Cancel(d)
      PROVE  /\ answer'[c] # "none" => cpc'[c] = "done"
             /\ cpc'[c] # "new" /\ cpc[c] = "new" =>
                  EagerCancel \/ \E h \in Handlers : IdOf[h] = CancelOf[c] /\ reply[h] = "202"
  BY <1>1 DEF Courteous, Cancel, CancelRejected, CancelBegins, CancelEnds, MayCancel, Answer,
              CancelTypeOK
<1>2. CASE Crash
  <2>1. /\ answer' = answer /\ reply' = reply
        /\ cpc'[c] = IF cpc[c] = "persist" THEN "gone" ELSE cpc[c]
    BY <1>2 DEF Crash
  <2> QED BY <2>1 DEF Courteous
<1>3. CASE UNCHANGED cancels
  BY <1>3, RepliesStay DEF Courteous
<1> QED BY <1>1, <1>2, <1>3, CancelsKept, RepliesStay DEF Courteous

(* Who writes the record of a request that shares its id with no other.    *)
LEMMA SoleWriters ==
  ASSUME TypeOK, CInv, NEW h \in Handlers, Started(h), Sole(IdOf[h]),
         NEW p \in Writers, ~Idle(p), wrId[p] = IdOf[h]
  PROVE  \/ p = h
         \/ p = Worker /\ Runs(h) /\ wpc # "check"
         \/ p \in Cancellers /\ CancelOf[p] = IdOf[h] /\ cpc[p] = "persist"
<1>1. CASE p \in Handlers
  BY <1>1 DEF CInv, HandlersWrite, Sole, Started
<1>2. CASE p \in Cancellers
  BY <1>2 DEF CInv, CancellersWrite
<1>3. CASE p = Worker
  <2>1. wpc \in {"run", "finish"} /\ job \in Handlers
    BY <1>3, TypeOKParts DEF TypeParts, WorkerTypeOK, CInv, WorkerWrites
  <2> QED BY <1>3, <2>1 DEF CInv, WorkerWrites, InOnePlace, Sole, Started, Runs
<1> QED BY <1>1, <1>2, <1>3, ServiceAssumption

LEMMA WaitsFor ==
  ASSUME TypeOK, CInv, NEW h \in Handlers, Waits(h)
  PROVE  /\ hpc[h] = "done" /\ reply[h] = "202" /\ Idle(h)
         /\ Runs(h) => wpc = "check"
<1>1. queue \in Seq(Handlers)
  BY TypeOKParts DEF TypeParts, WebhookTypeOK
<1> QED BY <1>1 DEF CInv, InOnePlace, HandlersWrite, Waits, Queued, Range, Runs

(* A job does not begin to wait but by Enqueue.                            *)
LEMMA WaitsSince ==
  ASSUME TypeOK, TypeOK', CInv, [Next]_vars, NEW h \in Handlers, Waits(h)'
  PROVE  Waits(h) \/ Enqueue(h)
<1> WebhookTypeOK /\ WorkerTypeOK
  BY TypeOKParts DEF TypeParts
<1>1. CASE Dequeue
  <2>1. /\ job' = queue[1] /\ Len(queue) \in Nat \ {0}
        /\ Len(queue') = Len(queue) - 1
        /\ \A i \in 1..Len(queue') : queue'[i] = queue[i + 1]
    BY <1>1 DEF Dequeue, WebhookTypeOK
  <2>2. CASE job' = h
    <3>1. 1 \in 1..Len(queue)
      BY <2>1
    <3> QED BY <2>1, <2>2, <3>1, InQueue DEF Waits
  <2>3. CASE Queued(h)'
    <3>1. PICK i \in 1..Len(queue') : queue'[i] = h
      BY <2>3, InQueue
    <3>2. i + 1 \in 1..Len(queue) /\ queue[i + 1] = h
      BY <2>1, <3>1
    <3> QED BY <3>2, InQueue DEF Waits
  <2> QED BY <2>2, <2>3 DEF Waits
<1>2. ASSUME NEW k \in Handlers \ {h}, Webhook(k) \/ Disconnect(k)
      PROVE  Waits(h)
  <2>1. Ignores(h) /\ UNCHANGED worker
    BY <1>2, OtherWebhook
       DEF Webhook, Receive, Refuse, FastPath, FastReply, SlowPath, Enqueue, Disconnect
  <2> QED BY <2>1 DEF Ignores, Waits
<1>3. CASE Crash
  BY <1>3 DEF Crash, Waits, Queued, Range
<1>4. CASE UNCHANGED queue /\ (wpc' = "check" => wpc = "check" /\ job' = job)
  BY <1>4 DEF Waits, Queued
<1>5. \/ Dequeue \/ Crash \/ Enqueue(h)
      \/ \E k \in Handlers \ {h} : Webhook(k) \/ Disconnect(k)
      \/ UNCHANGED queue /\ (wpc' = "check" => wpc = "check" /\ job' = job)
  BY DEF Next, vars, Webhook, Receive, Refuse, FastPath, FastReply, SlowPath, Disconnect,
         Cancel, CancelRejected, CancelBegins, CancelEnds, WorkerStep, SkipCancelled, Start,
         SetStage, Complete, AlreadyCompleted, Fail, Finish, WorkerNext, Panic, Cleanup,
         CleanupStart, CleanupList, CleanupForget, CleanupRemove, CleanupEnd, Persist,
         PersistFails, Tick
<1> QED BY <1>1, <1>2, <1>3, <1>4, <1>5

LEMMA RecordedSince ==
  ASSUME TypeOK, [Next]_vars, NEW c \in Cancellers, Recorded(c)', ~PersistInsert(c)
  PROVE  Recorded(c)
<1> RegistryTypeOK /\ CancelTypeOK
  BY TypeOKParts DEF TypeParts
<1> USE DEF Recorded
<1>1. ASSUME NEW p \in Writers, Persist(p) \/ PersistFails(p)
      PROVE  Recorded(c)
  BY <1>1, Parties
     DEF Persist, PersistFails, PersistStep, PersistWrite, PersistRename,
         PersistRenameMissing, PersistInsert, PersistFault, RegistryTypeOK
<1>2. ASSUME NEW d \in Cancellers, Cancel(d)
      PROVE  Recorded(c)
  BY <1>2, Parties
     DEF Cancel, CancelRejected, CancelBegins, CancelEnds, BeginPersist, Answer, CancelTypeOK,
         RegistryTypeOK
<1>3. CASE Crash
  BY <1>3 DEF Crash, CancelTypeOK
<1>4. CASE UNCHANGED cancels /\ wr'[c] = wr[c]
  BY <1>4
<1>5. ASSUME NEW h \in Handlers, Webhook(h) \/ Disconnect(h)
      PROVE  UNCHANGED cancels /\ wr'[c] = wr[c]
  BY <1>5, Parties
     DEF Webhook, Receive, Refuse, FastPath, FastReply, SlowPath, Enqueue, Disconnect,
         BeginPersist, RegistryTypeOK
<1>6. ASSUME WorkerStep \/ Panic
      PROVE  UNCHANGED cancels /\ wr'[c] = wr[c]
  BY <1>6, Parties
     DEF WorkerStep, Dequeue, SkipCancelled, Start, SetStage, Complete, AlreadyCompleted, Fail,
         Finish, WorkerNext, Panic, BeginPersist, RegistryTypeOK
<1>7. ASSUME Cleanup \/ Tick \/ UNCHANGED vars
      PROVE  UNCHANGED cancels /\ wr'[c] = wr[c]
  BY <1>7 DEF Cleanup, CleanupStart, CleanupList, CleanupForget, CleanupRemove, CleanupEnd,
              Forget, RemoveDir, RemoveDirFault, Tick, vars
<1> QED BY <1>1, <1>2, <1>3, <1>4, <1>5, <1>6, <1>7 DEF Next

LEMMA NextSticks ==
  ASSUME DInv, CInv, Courteous, SticksInv, [Next]_vars
  PROVE  SticksInv'
<1> TypeOK /\ TypeOK'
  BY NextType DEF DInv
<1> RegistryTypeOK /\ WebhookTypeOK /\ BudgetTypeOK
  BY TypeOKParts DEF TypeParts
<1> SUFFICES ASSUME NEW c \in Cancellers, NEW h \in Handlers,
                    ~EagerCancel, Sole(IdOf[h])', now' = created'[h],
                    CancelOf[c] = IdOf[h], Recorded(c)', Waits(h)'
             PROVE  mem'[IdOf[h]] # NoRecord /\ (mem'[IdOf[h]]).state = "cancelled"
  BY DEF SticksInv, Sticks
<1>1. Sole(IdOf[h]) /\ IdOf[h] \in Ids
  BY SoleShrinks, WriterTypes
<1>2. ~Enqueue(h)
  <2> SUFFICES ASSUME Enqueue(h) PROVE FALSE
    OBVIOUS
  <2>1. cpc[c] # "new"
    BY DEF Recorded, Courteous, Enqueue
  <2>2. PICK k \in Handlers : IdOf[k] = IdOf[h] /\ reply[k] = "202"
    BY <2>1 DEF Courteous
  <2>3. hpc[k] = "done"
    BY <2>2 DEF CInv, InOnePlace
  <2> QED BY <1>1, <2>2, <2>3 DEF Sole, Enqueue
<1>3. Waits(h)
  BY <1>2, WaitsSince
<1>4. /\ hpc[h] = "done" /\ Started(h) /\ Idle(h)
      /\ Runs(h) => wpc = "check"
  BY <1>3, WaitsFor DEF Started
<1>5. now = created[h]
  <2>1. created[h] <= now /\ now <= now' /\ created'[h] = created[h]
    BY <1>4, GrowsNext DEF Grows, DInv, Clocks
  <2>2. now \in Nat /\ now' \in Nat /\ created[h] \in Nat
    BY RegistryAssumption, TypeOKParts DEF TypeParts, BudgetTypeOK, WebhookTypeOK
  <2> QED BY <2>1, <2>2
<1>6. ASSUME NEW p \in Writers, PersistInsert(p), wrId[p] = IdOf[h]
      PROVE  mem'[IdOf[h]] # NoRecord /\ (mem'[IdOf[h]]).state = "cancelled"
  <2>1. ~Idle(p)
    BY <1>6 DEF PersistInsert, Idle
  <2>2. p \in Cancellers
    BY <1>1, <1>4, <1>6, <2>1, SoleWriters
  <2>3. rec[p] \in Status /\ rec[p].state = "cancelled"
    BY <2>1, <2>2 DEF CInv, CancellersWrite, RegistryTypeOK
  <2> QED BY <1>1, <1>6, <2>3, NoRecordAssumption DEF PersistInsert, RegistryTypeOK
<1>7. CASE \E p \in Writers : PersistInsert(p) /\ wrId[p] = IdOf[h]
  BY <1>6, <1>7
<1>8. CASE ~\E p \in Writers : PersistInsert(p) /\ wrId[p] = IdOf[h]
  <2>1. ~PersistInsert(c)
    <3> SUFFICES ASSUME PersistInsert(c) PROVE FALSE
      OBVIOUS
    <3> QED BY <1>8, Parties DEF PersistInsert, CInv, CancellersWrite, Idle
  <2>2. mem[IdOf[h]] # NoRecord /\ mem[IdOf[h]].state = "cancelled"
    BY <1>1, <1>3, <1>5, <2>1, RecordedSince DEF SticksInv, Sticks
  <2>3. mem'[IdOf[h]] = mem[IdOf[h]]
    <3>1. ASSUME NEW p \in Writers, Persist(p) \/ PersistFails(p)
          PROVE  mem'[IdOf[h]] = mem[IdOf[h]]
      <4>1. CASE PersistInsert(p)
        <5>1. wrId[p] # IdOf[h]
          BY <1>8, <4>1
        <5> QED BY <4>1, <5>1, <1>1 DEF PersistInsert, RegistryTypeOK
      <4>2. CASE ~PersistInsert(p)
        BY <3>1, <4>2
           DEF Persist, PersistFails, PersistStep, PersistWrite, PersistRename,
               PersistRenameMissing, PersistFault
      <4> QED BY <4>1, <4>2
    <3>2. CASE Cleanup
      <4>1. IdOf[h] \notin expired
        <5> SUFFICES ASSUME IdOf[h] \in expired PROVE FALSE
          OBVIOUS
        <5>1. PICK k \in Handlers : Started(k) /\ IdOf[k] = IdOf[h] /\ created[k] < now
          BY DEF DInv, Doomed, Overdue
        <5>2. k = h
          BY <1>1, <1>4, <5>1 DEF Sole, Started
        <5>3. now \in Nat
          BY RegistryAssumption DEF BudgetTypeOK
        <5> QED BY <1>5, <5>1, <5>2, <5>3
      <4>2. CASE CleanupForget
        <5>1. PICK id \in expired : Forget(id)
          BY <4>2 DEF CleanupForget
        <5> QED BY <4>1, <5>1, <1>1 DEF Forget, RegistryTypeOK
      <4>3. CASE ~CleanupForget
        BY <3>2, <4>3
           DEF Cleanup, CleanupStart, CleanupList, CleanupRemove, CleanupEnd, RemoveDir,
               RemoveDirFault
      <4> QED BY <4>2, <4>3
    <3>3. ~Crash
      BY DEF Crash, Waits, Queued, Range
    <3> QED BY <3>1, <3>2, <3>3, RecordsKept
  <2> QED BY <2>2, <2>3
<1> QED BY <1>7, <1>8

(* A cancel that was acknowledged sticks until the worker has looked: no   *)
(* other cancel, crash, fault or cleanup makes the registry say anything   *)
(* else of the job within the retention period.                            *)
THEOREM CancelSticksWhileQueuedCorrect == Spec => []CancelSticksWhileQueued
<1>1. Init => Courteous /\ SticksInv
  <2>1. Init => Courteous
    BY DEF Init, Courteous
  <2>2. Init => SticksInv
    BY DEF Init, SticksInv, Sticks, Recorded
  <2> QED BY <2>1, <2>2
<1>2. DInv /\ CInv /\ LInv /\ Courteous /\ SticksInv /\ [Next]_vars => (Courteous /\ SticksInv)'
  <2> SUFFICES ASSUME DInv, CInv, Courteous, SticksInv, [Next]_vars
               PROVE  Courteous' /\ SticksInv'
    OBVIOUS
  <2> QED BY NextCourteous, NextSticks DEF DInv
<1>3. SticksInv => CancelSticksWhileQueued
  BY DEF SticksInv, Sticks, CancelSticksWhileQueued, Recorded, Waits, Is, Get
<1> QED BY <1>1, <1>2, <1>3, InvariantHolds, PTL DEF Spec

-----------------------------------------------------------------------------
(* QInv is inductive *)

SameStages(id) == /\ id \in Renaming' <=> id \in Renaming
                  /\ id \in Inserting' <=> id \in Inserting
                  /\ id \in Written => id \in Written'

(* A step that changes nothing of the record of h, and leaves all its      *)
(* writers where they are.                                                 *)
Keeps(h) ==
  /\ Unposted(h)' <=> Unposted(h)
  /\ Unposted(h) => wr'[h] = wr[h] /\ rec'[h] = rec[h]
  /\ mem'[IdOf[h]] = mem[IdOf[h]]
  /\ disk'[IdOf[h]] = disk[IdOf[h]]
  /\ tmp'[IdOf[h]] = tmp[IdOf[h]]
  /\ SameStages(IdOf[h])
  /\ IdOf[h] \in expired' => IdOf[h] \in expired
  /\ clpc' = "rmdir" /\ victim' = IdOf[h] => clpc = "rmdir" /\ victim = IdOf[h]
  /\ Past(h)' => \/ Past(h)
                 \/ IdOf[h] \in Written'
                 \/ Unqueued(disk[IdOf[h]]) /\ Unqueued(mem[IdOf[h]])

LEMMA KeptInHand ==
  ASSUME NEW h \in Handlers, Begins(h), MovesOn(h), Keeps(h)
  PROVE  Begins(h)' /\ MovesOn(h)'
<1>1. Begins(h)'
  BY DEF Begins, Keeps
<1>2. MovesOn(h)'
  BY DEF MovesOn, Keeps, SameStages
<1> QED BY <1>1, <1>2

(* A caller that begins disturbs no writer.                                *)
LEMMA BeginKeepsWriters ==
  ASSUME RegistryTypeOK, NEW p \in Writers, NEW id, NEW s, BeginPersist(p, id, s), NEW n \in Ids
  PROVE  /\ SameStages(n)
         /\ id = n => n \in Written'
         /\ UNCHANGED <<mem, disk, tmp>>
<1>1. /\ Idle(p) /\ wr'[p] = "write" /\ wrId'[p] = id
      /\ \A q \in Writers \ {p} : wr'[q] = wr[q] /\ wrId'[q] = wrId[q]
      /\ UNCHANGED <<mem, disk, tmp>>
  BY BeginFrame
<1>2. n \in Renaming' <=> n \in Renaming
  BY <1>1 DEF Renaming, Idle
<1>3. n \in Inserting' <=> n \in Inserting
  BY <1>1 DEF Inserting, Idle
<1>4. (n \in Written => n \in Written') /\ (id = n => n \in Written')
  BY <1>1 DEF Written, Idle
<1> QED BY <1>1, <1>2, <1>3, <1>4 DEF SameStages

LEMMA SameWriters ==
  ASSUME UNCHANGED <<wr, wrId>>, NEW n \in Ids
  PROVE  SameStages(n)
BY DEF SameStages, Renaming, Inserting, Written, Idle

(* A step that ignores h keeps its record if it spares its writers.        *)
LEMMA IgnoresKeeps ==
  ASSUME NEW h \in Handlers, Ignores(h),
         SameStages(IdOf[h]),
         Past(h)' => Past(h) \/ IdOf[h] \in Written'
  PROVE  Keeps(h)
BY DEF Ignores, Keeps, Unposted

LEMMA OtherWebhookKeeps ==
  ASSUME TypeOK, TypeOK', NEW h \in Handlers, NEW k \in Handlers \ {h},
         Webhook(k) \/ Disconnect(k)
  PROVE  Keeps(h)
<1> RegistryTypeOK
  BY TypeOKParts DEF TypeParts
<1>1. Ignores(h) /\ IdOf[h] \in Ids
  BY OtherWebhook, WriterTypes
<1>2. UNCHANGED <<wpc, job>>
  BY DEF Webhook, Receive, Refuse, FastPath, FastReply, SlowPath, Enqueue, Disconnect
<1>3. Past(h)' => Past(h)
  BY <1>1, <1>2 DEF Past, Waits, Ignores
<1>4. CASE Receive(k) \/ FastPath(k)
  <2>1. \E s : BeginPersist(k, IdOf[k], s)
    BY <1>4 DEF Receive, FastPath
  <2> QED BY <1>1, <1>3, <2>1, BeginKeepsWriters, Parties, IgnoresKeeps
<1>5. CASE ~Receive(k) /\ ~FastPath(k)
  <2>1. UNCHANGED <<wr, wrId>>
    BY <1>5 DEF Webhook, Refuse, FastReply, SlowPath, Enqueue, Disconnect
  <2> QED BY <1>1, <1>3, <2>1, SameWriters, IgnoresKeeps
<1> QED BY <1>4, <1>5

LEMMA OwnWebhookKeeps ==
  ASSUME TypeOK, TypeOK', CInv, NEW h \in Handlers, Started(h), Begins(h),
         Webhook(h) \/ Disconnect(h)
  PROVE  Keeps(h)
<1> RegistryTypeOK /\ WebhookTypeOK
  BY TypeOKParts DEF TypeParts
<1>1. UNCHANGED <<worker, cleanup>> /\ IdOf[h] \in Ids
  BY WriterTypes DEF Webhook, Receive, Refuse, FastPath, FastReply, SlowPath, Enqueue, Disconnect
<1>2. CASE FastPath(h)
  <2>1. /\ hpc[h] = "persist" /\ wr[h] = "ok" /\ hpc'[h] = "already"
        /\ BeginPersist(h, IdOf[h], Record("already_completed", 0, now))
    BY <1>2 DEF FastPath, WebhookTypeOK
  <2>2. ~Unposted(h) /\ ~Unposted(h)'
    BY <2>1 DEF Unposted
  <2>3. SameStages(IdOf[h]) /\ IdOf[h] \in Written' /\ UNCHANGED <<mem, disk, tmp>>
    BY <1>1, <2>1, BeginKeepsWriters, Parties
  <2> QED BY <1>1, <2>2, <2>3 DEF Keeps
<1>3. CASE ~FastPath(h)
  <2>1. UNCHANGED registry
    BY <1>3
       DEF Webhook, Receive, Started, Refuse, FastReply, SlowPath, Enqueue, Disconnect
  <2>2. ~Refuse(h)
    BY DEF Refuse, Begins, Unposted
  <2>3. ~Unposted(h) /\ ~Unposted(h)'
    BY <1>3, <2>2
       DEF Webhook, Receive, Started, FastReply, SlowPath, Enqueue, Disconnect, WebhookTypeOK,
           Unposted
  <2>4. Past(h)' => Past(h)
    <3>1. CASE FastReply(h)
      BY <3>1 DEF FastReply, Past
    <3>2. CASE SlowPath(h) \/ Disconnect(h)
      BY <3>2 DEF SlowPath, Disconnect, WebhookTypeOK, Past
    <3>3. CASE Enqueue(h)
      <4>1. queue'[Len(queue) + 1] = h /\ Len(queue') = Len(queue) + 1 /\ Len(queue) \in Nat
        BY <3>3 DEF Enqueue, WebhookTypeOK
      <4>2. Queued(h)' /\ hpc'[h] = "done"
        BY <3>3, <4>1, InQueue DEF Enqueue, WebhookTypeOK
      <4> QED BY <4>2 DEF Past, Waits
    <3> QED BY <1>3, <2>2, <3>1, <3>2, <3>3 DEF Webhook, Receive, Started
  <2>5. SameStages(IdOf[h])
    BY <1>1, <2>1, SameWriters
  <2> QED BY <1>1, <2>1, <2>3, <2>4, <2>5 DEF Keeps
<1> QED BY <1>2, <1>3

LEMMA CancelKeeps ==
  ASSUME TypeOK, NEW h \in Handlers, NEW c \in Cancellers, Cancel(c)
  PROVE  Keeps(h)
<1> RegistryTypeOK
  BY TypeOKParts DEF TypeParts
<1>1. Ignores(h) /\ IdOf[h] \in Ids /\ UNCHANGED <<wpc, job>>
  BY CancelIgnores, WriterTypes DEF Cancel, CancelRejected, CancelBegins, CancelEnds
<1>2. Past(h)' => Past(h)
  BY <1>1 DEF Past, Waits, Ignores
<1>3. CASE CancelBegins(c)
  <2>1. \E id, s : BeginPersist(c, id, s)
    BY <1>3 DEF CancelBegins
  <2> QED BY <1>1, <1>2, <2>1, BeginKeepsWriters, Parties, IgnoresKeeps
<1>4. CASE CancelRejected(c) \/ CancelEnds(c)
  <2>1. UNCHANGED <<wr, wrId>>
    BY <1>4 DEF CancelRejected, CancelEnds
  <2> QED BY <1>1, <1>2, <2>1, SameWriters, IgnoresKeeps
<1> QED BY <1>3, <1>4 DEF Cancel

LEMMA WorkerKeeps ==
  ASSUME TypeOK, TypeOK', CInv, NEW h \in Handlers, Started(h), MovesOn(h),
         WorkerStep \/ Panic
  PROVE  Keeps(h)
<1> RegistryTypeOK /\ WebhookTypeOK /\ WorkerTypeOK
  BY TypeOKParts DEF TypeParts
<1>1. UNCHANGED <<hpc, cleanup>> /\ IdOf[h] \in Ids
  BY WriterTypes DEF WorkerStep, Dequeue, SkipCancelled, Start, SetStage, Complete,
     AlreadyCompleted, Fail, Finish, WorkerNext, Panic
<1>2. CASE Dequeue
  <2>1. UNCHANGED registry /\ wpc = "recv" /\ wpc' = "check"
    BY <1>2 DEF Dequeue
  <2>2. CASE job' = h
    BY <1>1, <2>1, <2>2, SameWriters DEF Keeps, Unposted, Past, Waits
  <2>3. CASE job' # h
    <3>1. Ignores(h)
      BY <2>1, <2>3, OtherWorkerStep DEF Runs
    <3>2. Past(h)' => Past(h)
      BY <1>1, <2>1, <3>1 DEF Ignores, Past, Waits
    <3> QED BY <1>1, <2>1, <3>1, <3>2, SameWriters, IgnoresKeeps
  <2> QED BY <2>2, <2>3
<1>3. CASE SkipCancelled
  <2>1. UNCHANGED <<registry, queue>> /\ wpc = "check" /\ Is(IdOf[job], "cancelled")
    BY <1>3 DEF SkipCancelled
  <2>2. SameStages(IdOf[h]) /\ (Unposted(h)' <=> Unposted(h))
    BY <1>1, <2>1, SameWriters DEF Unposted
  <2>3. ASSUME Past(h)', ~Past(h)
        PROVE  Unqueued(disk[IdOf[h]]) /\ Unqueued(mem[IdOf[h]])
    <3>1. hpc[h] = "done" /\ job = h
      BY <1>1, <2>1, <2>3 DEF Past, Waits, Queued
    <3>2. ~Unposted(h)
      BY <3>1 DEF Unposted
    <3> QED BY <2>1, <3>1, <3>2 DEF MovesOn, Is, Get, Unqueued
  <2> QED BY <1>1, <2>1, <2>2, <2>3 DEF Keeps
<1>4. CASE WorkerNext \/ Panic
  <2>1. UNCHANGED <<registry, queue>> /\ wpc \in {"run", "finish"} /\ wpc' = "recv"
    BY <1>4 DEF WorkerNext, Panic
  <2>2. SameStages(IdOf[h]) /\ (Unposted(h)' <=> Unposted(h))
    BY <1>1, <2>1, SameWriters DEF Unposted
  <2>3. Past(h)' => Past(h)
    BY <1>1, <2>1 DEF Past, Waits, Queued
  <2> QED BY <1>1, <2>1, <2>2, <2>3 DEF Keeps
<1>5. CASE Start \/ SetStage \/ Complete \/ AlreadyCompleted \/ Fail
  <2>1. PICK s : BeginPersist(Worker, IdOf[job], s)
    BY <1>5 DEF Start, SetStage, Complete, AlreadyCompleted, Fail, Finish
  <2>2. /\ UNCHANGED <<queue, job>> /\ wpc' # "check"
        /\ wpc = "check" \/ wpc' # "recv"
    BY <1>5 DEF Start, SetStage, Complete, AlreadyCompleted, Fail, Finish
  <2>3. /\ SameStages(IdOf[h]) /\ UNCHANGED <<mem, disk, tmp>>
        /\ job = h => IdOf[h] \in Written'
    BY <1>1, <2>1, BeginKeepsWriters, Parties
  <2>4. wr'[h] = wr[h] /\ rec'[h] = rec[h]
    BY <2>1, BeginFrame, Parties
  <2>5. Past(h)' => Past(h) \/ IdOf[h] \in Written'
    BY <1>1, <2>2, <2>3 DEF Past, Waits, Queued
  <2>6. Unposted(h)' <=> Unposted(h)
    BY <1>1, <2>4 DEF Unposted
  <2> QED BY <1>1, <2>3, <2>4, <2>5, <2>6 DEF Keeps
<1> QED BY <1>2, <1>3, <1>4, <1>5 DEF WorkerStep

(* A list of cleanup, and its removals, find nothing that is queued.       *)
LEMMA ListInHand ==
  ASSUME TypeOK, CInv, NEW h \in Handlers, Begins(h), MovesOn(h), CleanupList
  PROVE  Begins(h)' /\ MovesOn(h)'
<1>1. UNCHANGED <<registry, webhook, worker>> /\ clpc' = "forget" /\ IdOf[h] \in Ids
  BY WriterTypes DEF CleanupList
<1>2. ASSUME IdOf[h] \in expired'
      PROVE  ~Unposted(h) /\ Unqueued(disk[IdOf[h]])
  <2>1. Get(IdOf[h]) # NoRecord /\ Get(IdOf[h]).state \in Terminal
    BY <1>2 DEF CleanupList
  <2>2. ~Unposted(h)
    <3> SUFFICES ASSUME Unposted(h) PROVE FALSE
      OBVIOUS
    <3>1. wr[h] = "insert" /\ Get(IdOf[h]) = rec[h]
      BY <2>1 DEF Begins, Get
    <3>2. rec[h].state = "queued"
      BY <3>1 DEF CInv, HandlersWrite, Unposted, Idle
    <3> QED BY <2>1, <3>1, <3>2 DEF Terminal
  <2>3. CASE mem[IdOf[h]] # NoRecord
    BY <2>1, <2>2, <2>3 DEF MovesOn, Get, Unqueued, Terminal
  <2>4. CASE mem[IdOf[h]] = NoRecord
    BY <2>1, <2>2, <2>4 DEF Get, Unqueued, Terminal
  <2> QED BY <2>2, <2>3, <2>4
<1>3. SameStages(IdOf[h]) /\ (Unposted(h)' <=> Unposted(h)) /\ (Past(h)' <=> Past(h))
  BY <1>1, SameWriters DEF Unposted, Past, Waits, Queued
<1>4. Begins(h)'
  BY <1>1, <1>2, <1>3 DEF Begins
<1>5. MovesOn(h)'
  BY <1>1, <1>2, <1>3 DEF MovesOn, SameStages, Written, Idle
<1> QED BY <1>4, <1>5

LEMMA CleanupInHand ==
  ASSUME TypeOK, CInv, NEW h \in Handlers, Begins(h), MovesOn(h), Cleanup
  PROVE  Begins(h)' /\ MovesOn(h)'
<1> RegistryTypeOK /\ CleanupTypeOK
  BY TypeOKParts DEF TypeParts
<1>1. UNCHANGED <<webhook, worker, wr, wrId, rec>> /\ IdOf[h] \in Ids
  BY WriterTypes
     DEF Cleanup, CleanupStart, CleanupList, CleanupForget, CleanupRemove, CleanupEnd,
         Forget, RemoveDir, RemoveDirFault
<1>2. SameStages(IdOf[h]) /\ (Unposted(h)' <=> Unposted(h)) /\ (Past(h)' <=> Past(h))
  BY <1>1, SameWriters DEF Unposted, Past, Waits, Queued
<1>3. CASE CleanupStart \/ CleanupEnd
  <2>1. Keeps(h)
    BY <1>1, <1>2, <1>3 DEF CleanupStart, CleanupEnd, Keeps
  <2> QED BY <2>1, KeptInHand
<1>4. CASE CleanupForget
  <2>1. PICK id \in expired : Forget(id) /\ victim' = id /\ expired' = expired \ {id}
    BY <1>4 DEF CleanupForget
  <2>2. UNCHANGED <<disk, tmp>> /\ mem' = [mem EXCEPT ![id] = NoRecord]
    BY <2>1 DEF Forget
  <2>3. CASE id # IdOf[h]
    <3>1. Keeps(h)
      BY <1>1, <1>2, <2>1, <2>2, <2>3 DEF Keeps, RegistryTypeOK
    <3> QED BY <3>1, KeptInHand
  <2>4. CASE id = IdOf[h]
    <3>1. ~Unposted(h) /\ Unqueued(disk[IdOf[h]])
      BY <2>1, <2>4 DEF Begins, MovesOn
    <3>2. mem'[IdOf[h]] = NoRecord /\ Unqueued(mem'[IdOf[h]])
      BY <1>1, <2>2, <2>4 DEF RegistryTypeOK, Unqueued
    <3>3. Begins(h)'
      BY <1>2, <3>1 DEF Begins
    <3>4. MovesOn(h)'
      BY <1>1, <1>2, <2>1, <2>2, <3>1, <3>2 DEF MovesOn, SameStages, Unqueued
    <3> QED BY <3>3, <3>4
  <2> QED BY <2>3, <2>4
<1>5. CASE CleanupRemove
  <2>1. /\ UNCHANGED <<expired, mem>>
        /\ clpc = "rmdir" /\ clpc' = "forget" /\ victim \in Ids
        /\ RemoveDir(victim) \/ UNCHANGED <<disk, tmp>>
    BY <1>5 DEF CleanupRemove, RemoveDir, RemoveDirFault, CleanupTypeOK
  <2>2. CASE victim # IdOf[h] \/ UNCHANGED <<disk, tmp>>
    <3>1. Keeps(h)
      BY <1>1, <1>2, <2>1, <2>2 DEF Keeps, RegistryTypeOK, RemoveDir
    <3> QED BY <3>1, KeptInHand
  <2>3. CASE victim = IdOf[h] /\ RemoveDir(victim)
    <3>1. ~Unposted(h) /\ Unqueued(mem[IdOf[h]])
      BY <2>1, <2>3 DEF Begins, MovesOn
    <3>2. disk'[IdOf[h]] = NoRecord /\ tmp'[IdOf[h]] = NoRecord
      BY <1>1, <2>3 DEF RemoveDir, RegistryTypeOK
    <3>3. Begins(h)'
      BY <1>2, <3>1 DEF Begins
    <3>4. MovesOn(h)'
      BY <2>1, <3>1, <3>2 DEF MovesOn, Unqueued
    <3> QED BY <3>3, <3>4
  <2> QED BY <2>1, <2>2, <2>3
<1> QED BY <1>3, <1>4, <1>5, ListInHand DEF Cleanup

LEMMA OtherPersistKeeps ==
  ASSUME TypeOK, CInv, NEW h \in Handlers, NEW p \in Writers, wrId[p] # IdOf[h], Persist(p)
  PROVE  Keeps(h)
<1> RegistryTypeOK
  BY TypeOKParts DEF TypeParts
<1>1. Ignores(h) /\ UNCHANGED <<hpc, queue, wpc, job>>
  BY OtherPersist DEF Persist
<1>2. UNCHANGED wrId /\ \A q \in Writers \ {p} : wr'[q] = wr[q]
  BY StepFrame DEF Persist
<1>3. \A q \in Writers : wrId[q] = IdOf[h] => wrId'[q] = IdOf[h] /\ wr'[q] = wr[q]
  BY <1>2
<1>4. SameStages(IdOf[h])
  BY <1>2, <1>3 DEF SameStages, Renaming, Inserting, Written, Idle
<1>5. Past(h)' <=> Past(h)
  BY <1>1 DEF Past, Waits, Queued
<1> QED BY <1>1, <1>4, <1>5, IgnoresKeeps

(* Until the first record of h is in the map, only its handler writes.     *)
LEMMA FirstPersist ==
  ASSUME TypeOK, CInv, Courteous, ~EagerCancel, NEW h \in Handlers, Started(h), Sole(IdOf[h]),
         Unposted(h), Begins(h), NEW p \in Writers, wrId[p] = IdOf[h], Persist(p)
  PROVE  Begins(h)' /\ MovesOn(h)'
<1> RegistryTypeOK
  BY TypeOKParts DEF TypeParts
<1>1. /\ UNCHANGED <<hpc, queue, wpc, job, clpc, expired, victim>>
      /\ PersistStep(p) /\ IdOf[h] \in Ids
  BY WriterTypes DEF Persist
<1>2. ASSUME NEW q \in Writers, ~Idle(q), wrId[q] = IdOf[h]
      PROVE  q = h
  <2>1. ~Runs(h)
    BY ActivePlaces DEF Unposted
  <2>2. ~(q \in Cancellers /\ CancelOf[q] = IdOf[h] /\ cpc[q] = "persist")
    <3> SUFFICES ASSUME q \in Cancellers, CancelOf[q] = IdOf[h], cpc[q] = "persist"
                 PROVE  FALSE
      OBVIOUS
    <3>1. PICK k \in Handlers : IdOf[k] = IdOf[h] /\ reply[k] = "202"
      BY DEF Courteous
    <3>2. hpc[k] = "done"
      BY <3>1 DEF CInv, InOnePlace
    <3> QED BY <3>1, <3>2 DEF Sole, Started, Unposted
  <2> QED BY <1>2, <2>1, <2>2, SoleWriters
<1>3. p = h /\ ~Idle(h)
  BY <1>1, <1>2, StepFrame
<1>4. rec' = rec /\ rec[h] \in Status /\ rec[h] # NoRecord /\ rec[h].state = "queued"
  BY <1>1, <1>3, StepFrame, NoRecordAssumption, Parties
     DEF RegistryTypeOK, CInv, HandlersWrite, Unposted
<1>5. ~Past(h)'
  BY <1>1 DEF Past, Unposted
<1>6. CASE PersistWrite(h)
  <2>1. /\ wr'[h] = "rename" /\ tmp'[IdOf[h]] = rec[h] /\ UNCHANGED <<mem, disk>>
        /\ wr[h] = "write" /\ Unposted(h)'
    BY <1>1, <1>3, <1>6, Parties DEF PersistWrite, RegistryTypeOK, Unposted
  <2> QED BY <1>1, <1>4, <2>1 DEF Begins, MovesOn
<1>7. CASE PersistRename(h)
  <2>1. /\ wr'[h] = "insert" /\ disk'[IdOf[h]] = tmp[IdOf[h]] /\ tmp'[IdOf[h]] = NoRecord
        /\ UNCHANGED mem /\ wr[h] = "rename" /\ Unposted(h)'
    BY <1>1, <1>3, <1>7, Parties DEF PersistRename, RegistryTypeOK, Unposted
  <2> QED BY <1>1, <1>4, <2>1 DEF Begins, MovesOn
<1>8. CASE PersistRenameMissing(h)
  BY <1>3, <1>4, <1>8 DEF PersistRenameMissing, Begins
<1>9. CASE PersistInsert(h)
  <2>1. /\ wr[h] = "insert" /\ wr'[h] = "ok" /\ mem'[IdOf[h]] = rec[h] /\ UNCHANGED <<disk, tmp>>
        /\ ~Unposted(h)'
    BY <1>1, <1>3, <1>9, Parties DEF PersistInsert, RegistryTypeOK, Unposted
  <2>2. /\ UNCHANGED wrId
        /\ \A q \in Writers \ {h} : wr'[q] = wr[q]
    BY <1>1, <1>3, StepFrame
  <2>3. \A q \in Writers : wrId'[q] = IdOf[h] => wr'[q] \notin {"rename", "insert"}
    BY <1>2, <2>1, <2>2 DEF Idle
  <2>4. IdOf[h] \notin Renaming' /\ IdOf[h] \notin Inserting'
    BY <2>3 DEF Renaming, Inserting
  <2> QED BY <1>1, <1>4, <1>5, <2>1, <2>4 DEF Begins, MovesOn, Unqueued
<1> QED BY <1>1, <1>3, <1>6, <1>7, <1>8, <1>9 DEF PersistStep

LEMMA LaterPersist ==
  ASSUME TypeOK, CInv, NEW h \in Handlers, Started(h), Sole(IdOf[h]),
         ~Unposted(h), MovesOn(h), NEW p \in Writers, wrId[p] = IdOf[h], Persist(p)
  PROVE  Begins(h)' /\ MovesOn(h)'
<1> RegistryTypeOK
  BY TypeOKParts DEF TypeParts
<1>1. /\ UNCHANGED <<hpc, queue, wpc, job, clpc, expired, victim>>
      /\ PersistStep(p) /\ IdOf[h] \in Ids
  BY WriterTypes DEF Persist
<1>2. /\ ~Idle(p) /\ UNCHANGED <<wrId, rec>>
      /\ \A q \in Writers \ {p} : wr'[q] = wr[q]
      /\ wr'[p] \in {"rename", "insert", "ok", "err"}
  BY <1>1, StepFrame
<1>3. rec[p] \in Status /\ Unqueued(rec[p])
  <2>1. rec[p] \in Status
    BY <1>2 DEF RegistryTypeOK
  <2>2. CASE p = h
    <3>1. hpc[h] = "already"
      BY <1>2, <2>2 DEF CInv, HandlersWrite, Unposted, Idle
    <3> QED BY <1>2, <2>1, <2>2, <3>1 DEF CInv, HandlersWrite, Unqueued
  <2>3. CASE p = Worker
    BY <1>2, <2>1, <2>3 DEF CInv, WorkerWrites, Unqueued, Terminal
  <2>4. CASE p \in Cancellers
    BY <1>2, <2>1, <2>4 DEF CInv, CancellersWrite, Unqueued
  <2> QED BY <1>2, <2>1, <2>2, <2>3, <2>4, SoleWriters
<1>4. ~Unposted(h)' /\ (Past(h)' <=> Past(h))
  <2>1. hpc[h] = "persist" => wr'[h] = wr[h]
    BY <1>2, Parties DEF Unposted, Idle
  <2>2. ~Unposted(h)'
    BY <1>1, <2>1 DEF Unposted
  <2>3. Past(h)' <=> Past(h)
    BY <1>1 DEF Past, Waits, Queued
  <2> QED BY <2>2, <2>3
<1>5. Begins(h)'
  BY <1>4 DEF Begins
<1>6. wr'[p] # "ok" /\ wr'[p] # "err" => IdOf[h] \in Written'
  BY <1>2 DEF Written, Idle
<1>7. CASE PersistWrite(p)
  <2>1. /\ wr'[p] = "rename" /\ tmp'[IdOf[h]] = rec[p] /\ UNCHANGED <<mem, disk>>
        /\ wr[p] = "write" /\ rec[p] # NoRecord
    BY <1>1, <1>3, <1>7, NoRecordAssumption DEF PersistWrite, RegistryTypeOK
  <2>2. IdOf[h] \in Inserting' <=> IdOf[h] \in Inserting
    BY <1>2, <2>1 DEF Inserting
  <2> QED BY <1>1, <1>3, <1>4, <1>5, <1>6, <2>1, <2>2 DEF MovesOn
<1>8. CASE PersistRename(p)
  <2>1. /\ wr'[p] = "insert" /\ disk'[IdOf[h]] = tmp[IdOf[h]] /\ tmp'[IdOf[h]] = NoRecord
        /\ UNCHANGED mem
    BY <1>1, <1>8 DEF PersistRename, RegistryTypeOK
  <2>2. IdOf[h] \in Inserting'
    BY <1>2, <2>1 DEF Inserting
  <2>3. Unqueued(disk'[IdOf[h]]) /\ Unqueued(tmp'[IdOf[h]])
    BY <1>4, <2>1 DEF MovesOn, Unqueued
  <2> QED BY <1>1, <1>4, <1>5, <1>6, <2>1, <2>2, <2>3 DEF MovesOn
<1>9. CASE PersistRenameMissing(p)
  <2>1. /\ wr'[p] = "err" /\ wr[p] = "rename" /\ tmp[IdOf[h]] = NoRecord
        /\ UNCHANGED <<mem, disk, tmp>>
    BY <1>9 DEF PersistRenameMissing, RegistryTypeOK
  <2>2. /\ IdOf[h] \in Inserting' <=> IdOf[h] \in Inserting
        /\ IdOf[h] \in Renaming' => IdOf[h] \in Renaming
        /\ IdOf[h] \in Renaming
    BY <1>2, <2>1 DEF Inserting, Renaming
  <2>3. IdOf[h] \in Inserting => IdOf[h] \in Written'
    BY <1>2, <2>1 DEF Inserting, Written, Idle
  <2>4. Unqueued(disk[IdOf[h]]) /\ (Unqueued(mem[IdOf[h]]) \/ IdOf[h] \in Inserting)
    BY <2>1, <2>2 DEF MovesOn
  <2> QED BY <1>1, <1>4, <1>5, <2>1, <2>2, <2>3, <2>4 DEF MovesOn
<1>10. CASE PersistInsert(p)
  <2>1. /\ wr'[p] = "ok" /\ wr[p] = "insert" /\ mem'[IdOf[h]] = rec[p]
        /\ UNCHANGED <<disk, tmp>>
    BY <1>1, <1>10 DEF PersistInsert, RegistryTypeOK
  <2>2. /\ IdOf[h] \in Inserting
        /\ IdOf[h] \in Renaming' => IdOf[h] \in Renaming
    BY <1>2, <2>1 DEF Inserting, Renaming
  <2>3. Unqueued(disk[IdOf[h]]) /\ Unqueued(mem'[IdOf[h]])
    BY <1>3, <2>1, <2>2 DEF MovesOn
  <2> QED BY <1>1, <1>4, <1>5, <2>1, <2>2, <2>3 DEF MovesOn
<1> QED BY <1>1, <1>7, <1>8, <1>9, <1>10 DEF PersistStep

LEMMA FaultlessSince ==
  ASSUME TypeOK, [Next]_vars, Faultless'
  PROVE  Faultless /\ ~Crash /\ \A p \in Writers : ~PersistFault(p)
<1> crashes \in Nat /\ faults \in Nat
  BY TypeOKParts, RegistryAssumption, ServiceAssumption
     DEF TypeParts, RegistryTypeOK, BudgetTypeOK
<1> USE DEF Faultless
<1>1. ~Crash /\ ~RemoveDirFault /\ \A p \in Writers : ~PersistFault(p)
  BY DEF Crash, RemoveDirFault, PersistFault
<1>2. UNCHANGED <<crashes, faults>>
  <2>1. ASSUME NEW p \in Writers, Persist(p)
        PROVE  UNCHANGED <<crashes, faults>>
    BY <2>1 DEF Persist, PersistStep, PersistWrite, PersistRename, PersistRenameMissing,
                PersistInsert
  <2>2. CASE Cleanup
    BY <1>1, <2>2 DEF Cleanup, CleanupStart, CleanupList, CleanupForget, CleanupRemove,
                      CleanupEnd, Forget, RemoveDir
  <2>3. ASSUME NEW c \in Cancellers, Cancel(c)
        PROVE  UNCHANGED <<crashes, faults>>
    BY <2>3 DEF Cancel, CancelRejected, CancelBegins, CancelEnds, BeginPersist
  <2>4. ASSUME NEW h \in Handlers, Webhook(h) \/ Disconnect(h)
        PROVE  UNCHANGED <<crashes, faults>>
    BY <2>4 DEF Webhook, Receive, Refuse, FastPath, FastReply, SlowPath, Enqueue, Disconnect,
                BeginPersist
  <2>5. CASE WorkerStep \/ Panic
    BY <2>5 DEF WorkerStep, Dequeue, SkipCancelled, Start, SetStage, Complete,
                AlreadyCompleted, Fail, Finish, WorkerNext, Panic, BeginPersist
  <2>6. CASE Tick \/ UNCHANGED vars
    BY <2>6 DEF Tick, vars
  <2> QED BY <1>1, <2>1, <2>2, <2>3, <2>4, <2>5, <2>6 DEF Next, PersistFails
<1> QED BY <1>1, <1>2

LEMMA NextInHand ==
  ASSUME DInv, CInv, Courteous, QInv, [Next]_vars
  PROVE  QInv'
<1> TypeOK /\ TypeOK'
  BY NextType DEF DInv
<1> SUFFICES ASSUME Faultless', NEW h \in Handlers, Started(h)', Sole(IdOf[h])'
             PROVE  Begins(h)' /\ MovesOn(h)'
  BY DEF QInv
<1>1. Faultless /\ ~Crash /\ \A p \in Writers : ~PersistFault(p)
  BY FaultlessSince
<1>2. CASE ~Started(h)
  <2>1. Receive(h)
    BY <1>2, StartedBy
  <2>2. Sound(h)'
    BY <2>1, ReceiveSound
  <2>3. hpc'[h] = "persist" /\ wr'[h] = "write"
    BY <2>1, BeginFrame, WriterTypes, TypeOKParts
       DEF TypeParts, Receive, WebhookTypeOK
  <2>4. /\ UNCHANGED <<clpc, expired, victim>>
        /\ \A k \in Handlers : Started(k) => IdOf[k] # IdOf[h]
    BY <1>2, <2>1, GrowsNext DEF Receive, Grows, Sole, Started
  <2>5. IdOf[h] \notin expired /\ ~(clpc = "rmdir" /\ victim = IdOf[h])
    BY <2>4 DEF DInv, Doomed, Overdue
  <2> QED BY <2>2, <2>3, <2>4, <2>5 DEF Sound, FirstRecord, Unposted, Begins, MovesOn
<1>3. CASE Started(h)
  <2>1. Sole(IdOf[h]) /\ Begins(h) /\ MovesOn(h)
    BY <1>1, <1>3, SoleShrinks, WriterTypes DEF QInv
  <2>2. ASSUME NEW k \in Handlers, Webhook(k) \/ Disconnect(k)
        PROVE  Keeps(h)
    BY <1>3, <2>1, <2>2, OtherWebhookKeeps, OwnWebhookKeeps
  <2>3. ASSUME NEW c \in Cancellers, Cancel(c)
        PROVE  Keeps(h)
    BY <2>3, CancelKeeps
  <2>4. ASSUME WorkerStep \/ Panic
        PROVE  Keeps(h)
    BY <1>3, <2>1, <2>4, WorkerKeeps
  <2>5. ASSUME Tick \/ UNCHANGED vars
        PROVE  Keeps(h)
    <3>1. UNCHANGED <<registry, webhook, worker, cleanup>>
      BY <2>5 DEF Tick, vars
    <3>2. SameStages(IdOf[h])
      BY <3>1, SameWriters, WriterTypes
    <3>3. (Unposted(h)' <=> Unposted(h)) /\ (Past(h)' <=> Past(h))
      BY <3>1 DEF Unposted, Past, Waits, Queued
    <3> QED BY <3>1, <3>2, <3>3 DEF Keeps
  <2>6. ASSUME NEW p \in Writers, Persist(p)
        PROVE  Begins(h)' /\ MovesOn(h)'
    <3>1. CASE wrId[p] # IdOf[h]
      BY <2>1, <2>6, <3>1, OtherPersistKeeps, KeptInHand
    <3>2. CASE wrId[p] = IdOf[h] /\ Unposted(h)
      BY <1>1, <1>3, <2>1, <2>6, <3>2, FirstPersist DEF Faultless
    <3>3. CASE wrId[p] = IdOf[h] /\ ~Unposted(h)
      BY <1>3, <2>1, <2>6, <3>3, LaterPersist
    <3> QED BY <3>1, <3>2, <3>3
  <2>7. CASE Cleanup
    BY <2>1, <2>7, CleanupInHand
  <2>8. ASSUME Keeps(h)
        PROVE  Begins(h)' /\ MovesOn(h)'
    BY <2>1, <2>8, KeptInHand
  <2> QED BY <1>1, <2>2, <2>3, <2>4, <2>5, <2>6, <2>7, <2>8 DEF Next, PersistFails
<1> QED BY <1>2, <1>3

(* A queued job is in somebody's hands, unless its client hung up: no      *)
(* interleaving of its handler, the worker, cancels and cleanup leaves a   *)
(* queued record that nobody will look at, where nothing fails.            *)
THEOREM QueuedHasOwnerCorrect == Spec => []QueuedHasOwner
<1>1. Init => Courteous /\ QInv
  BY DEF Init, Courteous, QInv, Started
<1>2. DInv /\ CInv /\ LInv /\ Courteous /\ QInv /\ [Next]_vars => (Courteous /\ QInv)'
  <2> SUFFICES ASSUME DInv, CInv, Courteous, QInv, [Next]_vars
               PROVE  Courteous' /\ QInv'
    OBVIOUS
  <2> QED BY NextCourteous, NextInHand DEF DInv
<1>3. DInv /\ CInv /\ QInv => QueuedHasOwner
  <2> SUFFICES ASSUME DInv, CInv, QInv, Faultless,
                      NEW id \in Ids, Sole(id), Is(id, "queued")
               PROVE  \/ \E h \in Handlers : /\ IdOf[h] = id
                                             /\ \/ hpc[h] \in Handling \cup {"gone"}
                                                \/ Queued(h)
                                                \/ wpc # "recv" /\ job = h
                      \/ \E c \in Cancellers : CancelOf[c] = id /\ cpc[c] = "persist"
    BY DEF QueuedHasOwner, Faultless
  <2>1. PICK h \in Handlers : Started(h) /\ IdOf[h] = id
    BY RecordHasRequest DEF Is, Get
  <2>2. hpc[h] \in Handling \cup {"done", "gone"}
    BY <2>1, TypeOKParts DEF DInv, TypeParts, WebhookTypeOK, Started
  <2>3. CASE Past(h)
    <3>1. ~Unposted(h) /\ hpc[h] \in {"already", "done"}
      BY <2>3 DEF Past, Unposted
    <3>2. id \in Written
      BY <2>1, <2>3, <3>1 DEF QInv, MovesOn, Is, Get, Unqueued
    <3>3. PICK p \in Writers : ~Idle(p) /\ wrId[p] = id
      BY <3>2 DEF Written
    <3> QED BY <2>1, <3>1, <3>3, SoleWriters DEF DInv, Runs, CInv, HandlersWrite, Handling
  <2>4. CASE ~Past(h)
    BY <2>1, <2>2, <2>4 DEF Past, Waits, Handling
  <2> QED BY <2>3, <2>4
<1> QED BY <1>1, <1>2, <1>3, InvariantHolds, PTL DEF Spec
=============================================================================
