------------------------------ MODULE JobService ------------------------------
(***************************************************************************)
(* The orchestrator process: webhook handlers accept jobs (http.rs), one   *)
(* worker task takes them from a bounded queue and runs the pipeline       *)
(* (main.rs, run_pipeline in job.rs), clients cancel (http.rs, state.rs),  *)
(* a cleanup task removes expired jobs (main.rs), and the process may be   *)
(* killed and restarted.  They share the job registry only.                *)
(*                                                                         *)
(* Requests whose token, body, emulator or commit is refused change        *)
(* nothing and are left out.                                               *)
(***************************************************************************)
EXTENDS JobRegistry, Sequences, Functions

CONSTANTS Handlers,       \* webhook requests
          Cancellers,     \* cancel requests
          Worker,         \* the thread of run_pipeline
          NoJob,          \* the worker has no job
          IdOf,           \* the job id each webhook request gets
          Forced,         \* webhook requests with force = true
          CancelOf,       \* the job id each cancel request names
          EagerCancel,    \* may a client cancel before the webhook answered?
          QueueCapacity,  \* 64 in main.rs
          MaxCrashes,     \* bound: restarts of the process
          MaxPanics       \* bound: panics inside run_stages

ASSUME ServiceAssumption ==
  /\ Writers = Handlers \cup Cancellers \cup {Worker}
  /\ Handlers \cap Cancellers = {}
  /\ Worker \notin Handlers \cup Cancellers
  /\ NoJob \notin Handlers
  /\ IdOf \in [Handlers -> Ids]
  /\ CancelOf \in [Cancellers -> Ids]
  /\ Forced \subseteq Handlers
  /\ EagerCancel \in BOOLEAN
  /\ QueueCapacity \in Nat \ {0}
  /\ MaxCrashes \in Nat
  /\ MaxPanics \in Nat

VARIABLES hpc,      \* where each webhook request is
          reply,    \* the status code it was answered with
          created,  \* created_at of its JobStatus
          queue,    \* mpsc::channel(64); a job is named by its request
          cpc,      \* where each cancel request is
          answer,   \* how it was answered
          wpc,      \* where the worker is
          job,      \* the JobStatus the worker owns, named by its request
          step,     \* persists of run_stages so far
          clpc,     \* where the cleanup task is
          cutoff,   \* its cutoff
          expired,  \* jobs it has yet to remove
          victim,   \* the job it is removing
          now,      \* the clock, in retention periods
          crashes,  \* restarts so far
          panics    \* panics so far

webhook == <<hpc, reply, created, queue>>
cancels == <<cpc, answer>>
worker  == <<wpc, job, step>>
cleanup == <<clpc, cutoff, expired, victim>>
budget  == <<now, crashes, panics>>

vars == <<registry, webhook, cancels, worker, cleanup, budget>>

Queued(h) == h \in Range(queue)

Init ==
  /\ RegistryInit
  /\ hpc = [h \in Handlers |-> "new"]
  /\ reply = [h \in Handlers |-> "none"]
  /\ created = [h \in Handlers |-> 0]
  /\ queue = <<>>
  /\ cpc = [c \in Cancellers |-> "new"]
  /\ answer = [c \in Cancellers |-> "none"]
  /\ wpc = "recv"
  /\ job = NoJob
  /\ step = 0
  /\ clpc = "sleep"
  /\ cutoff = 0
  /\ expired = {}
  /\ victim = NoId
  /\ now = 0
  /\ crashes = 0
  /\ panics = 0

-----------------------------------------------------------------------------
(* webhook_run.  Two requests get the same job id if they arrive in the    *)
(* same second with the same emulator and commit prefix.                   *)
Receive(h) ==
  /\ hpc[h] = "new"
  /\ \A k \in Handlers : IdOf[k] = IdOf[h] /\ hpc[k] # "new" => created[k] = now
  /\ created' = [created EXCEPT ![h] = now]
  /\ BeginPersist(h, IdOf[h], Record("queued", 0, now))
  /\ hpc' = [hpc EXCEPT ![h] = "persist"]
  /\ UNCHANGED <<reply, queue, cancels, worker, cleanup, budget>>

Refuse(h) ==
  /\ hpc[h] = "persist" /\ wr[h] = "err"
  /\ hpc' = [hpc EXCEPT ![h] = "done"]
  /\ reply' = [reply EXCEPT ![h] = "500"]
  /\ UNCHANGED <<registry, created, queue, cancels, worker, cleanup, budget>>

(* submission_exists on the local clone; what it finds is not modelled.    *)
FastPath(h) ==
  /\ hpc[h] = "persist" /\ wr[h] = "ok"
  /\ h \notin Forced
  /\ BeginPersist(h, IdOf[h], Record("already_completed", 0, now))
  /\ hpc' = [hpc EXCEPT ![h] = "already"]
  /\ UNCHANGED <<reply, created, queue, cancels, worker, cleanup, budget>>

(* The result of the second persist is ignored.                            *)
FastReply(h) ==
  /\ hpc[h] = "already" /\ Idle(h)
  /\ hpc' = [hpc EXCEPT ![h] = "done"]
  /\ reply' = [reply EXCEPT ![h] = "200"]
  /\ UNCHANGED <<registry, created, queue, cancels, worker, cleanup, budget>>

(* Mutant: the result of the first persist is ignored, too.                *)
SlowPathUnchecked(h) ==
  /\ hpc[h] = "persist" /\ Idle(h)
  /\ hpc' = [hpc EXCEPT ![h] = "send"]
  /\ UNCHANGED <<registry, reply, created, queue, cancels, worker, cleanup, budget>>

SlowPath(h) ==
  /\ hpc[h] = "persist" /\ wr[h] = "ok"
  /\ hpc' = [hpc EXCEPT ![h] = "send"]
  /\ UNCHANGED <<registry, reply, created, queue, cancels, worker, cleanup, budget>>

(* Mutant: try_send, with its error ignored.                               *)
EnqueueOrDrop(h) ==
  /\ hpc[h] = "send"
  /\ queue' = IF Len(queue) < QueueCapacity THEN Append(queue, h) ELSE queue
  /\ hpc' = [hpc EXCEPT ![h] = "done"]
  /\ reply' = [reply EXCEPT ![h] = "202"]
  /\ UNCHANGED <<registry, created, cancels, worker, cleanup, budget>>

(* queue_tx.send(status).await; the receiver lives as long as the process. *)
Enqueue(h) ==
  /\ hpc[h] = "send"
  /\ Len(queue) < QueueCapacity
  /\ queue' = Append(queue, h)
  /\ hpc' = [hpc EXCEPT ![h] = "done"]
  /\ reply' = [reply EXCEPT ![h] = "202"]
  /\ UNCHANGED <<registry, created, cancels, worker, cleanup, budget>>

(* The handler waits for room in the queue, the client hangs up, and the   *)
(* future is dropped at the await.                                         *)
Disconnect(h) ==
  /\ hpc[h] = "send"
  /\ Len(queue) = QueueCapacity
  /\ hpc' = [hpc EXCEPT ![h] = "gone"]
  /\ UNCHANGED <<registry, reply, created, queue, cancels, worker, cleanup, budget>>

Webhook(h) == \/ Receive(h)
              \/ Refuse(h)
              \/ FastPath(h)
              \/ FastReply(h)
              \/ SlowPath(h)
              \/ Enqueue(h)

-----------------------------------------------------------------------------
(* cancel_job and request_cancel: look at the registry, then persist.  A   *)
(* client learns the id from the webhook's answer, or from GET /jobs.      *)
MayCancel(c) ==
  /\ cpc[c] = "new"
  /\ EagerCancel \/ \E h \in Handlers : IdOf[h] = CancelOf[c] /\ reply[h] = "202"

Answer(c, a) == /\ cpc' = [cpc EXCEPT ![c] = "done"]
                /\ answer' = [answer EXCEPT ![c] = a]

CancelRejected(c) ==
  /\ MayCancel(c)
  /\ ~Is(CancelOf[c], "queued")
  /\ Answer(c, IF Get(CancelOf[c]) = NoRecord THEN "not_found" ELSE "conflict")
  /\ UNCHANGED <<registry, webhook, worker, cleanup, budget>>

CancelBegins(c) ==
  /\ MayCancel(c)
  /\ Is(CancelOf[c], "queued")
  /\ BeginPersist(c, CancelOf[c], Record("cancelled", Get(CancelOf[c]).step, now))
  /\ cpc' = [cpc EXCEPT ![c] = "persist"]
  /\ UNCHANGED <<answer, webhook, worker, cleanup, budget>>

(* Mutant: the `?` after persist is missing.                               *)
CancelEndsUnchecked(c) ==
  /\ cpc[c] = "persist" /\ Idle(c)
  /\ Answer(c, "cancelled")
  /\ UNCHANGED <<registry, webhook, worker, cleanup, budget>>

CancelEnds(c) ==
  /\ cpc[c] = "persist" /\ Idle(c)
  /\ Answer(c, IF wr[c] = "ok" THEN "cancelled" ELSE "error")
  /\ UNCHANGED <<registry, webhook, worker, cleanup, budget>>

Cancel(c) == CancelRejected(c) \/ CancelBegins(c) \/ CancelEnds(c)

-----------------------------------------------------------------------------
(* The worker task.  run_pipeline works on the status it was sent, not on  *)
(* the one it looked up.                                                   *)
Dequeue ==
  /\ wpc = "recv"
  /\ queue # <<>>
  /\ job' = Head(queue)
  /\ queue' = Tail(queue)
  /\ wpc' = "check"
  /\ UNCHANGED <<registry, hpc, reply, created, cancels, step, cleanup, budget>>

SkipCancelled ==
  /\ wpc = "check"
  /\ Is(IdOf[job], "cancelled")
  /\ wpc' = "recv"
  /\ job' = NoJob
  /\ UNCHANGED <<registry, webhook, cancels, step, cleanup, budget>>

(* Any other state runs the job, and so does get() = None.                 *)
Start ==
  /\ wpc = "check"
  /\ ~Is(IdOf[job], "cancelled")
  /\ BeginPersist(Worker, IdOf[job], Record("running", 0, created[job]))
  /\ wpc' = "run"
  /\ step' = 0
  /\ UNCHANGED <<webhook, cancels, job, cleanup, budget>>

(* Mutant: a progress report after the last stage.                         *)
SetStageOnceMore ==
  /\ wpc = "run" /\ Idle(Worker)
  /\ step' = step + 1
  /\ BeginPersist(Worker, IdOf[job], Record("running", step', created[job]))
  /\ UNCHANGED <<wpc, job, webhook, cancels, cleanup, budget>>

(* set_stage, update_progress and the two persists of the totals: each     *)
(* ignores the result of the persist before it.                            *)
SetStage ==
  /\ wpc = "run" /\ Idle(Worker)
  /\ step < Steps
  /\ step' = step + 1
  /\ BeginPersist(Worker, IdOf[job], Record("running", step', created[job]))
  /\ UNCHANGED <<wpc, job, webhook, cancels, cleanup, budget>>

(* Mutant: the outcome is recorded, and the pipeline goes on.              *)
FinishGoesOn(st) ==
  /\ wpc = "run" /\ Idle(Worker)
  /\ BeginPersist(Worker, IdOf[job], Record(st, step, now))
  /\ UNCHANGED <<wpc, job, step, webhook, cancels, cleanup, budget>>

Finish(st) ==
  /\ wpc = "run" /\ Idle(Worker)
  /\ BeginPersist(Worker, IdOf[job], Record(st, step, now))
  /\ wpc' = "finish"
  /\ UNCHANGED <<job, step, webhook, cancels, cleanup, budget>>

Complete == step = Steps /\ Finish("completed")

(* The check that follows set_stage(PrepareRepos), the first persist.      *)
AlreadyCompleted == step = 1 /\ job \notin Forced /\ Finish("already_completed")

(* Every stage has a `?`.                                                  *)
Fail == Finish("failed")

WorkerNext ==
  /\ wpc = "finish" /\ Idle(Worker)
  /\ wpc' = "recv"
  /\ job' = NoJob
  /\ UNCHANGED <<registry, webhook, cancels, step, cleanup, budget>>

(* Mutant: run_pipeline is called in the worker task itself.               *)
PanicKillsWorker ==
  /\ wpc = "run" /\ Idle(Worker)
  /\ panics < MaxPanics
  /\ panics' = panics + 1
  /\ wpc' = "dead"
  /\ UNCHANGED <<registry, job, step, webhook, cancels, cleanup, now, crashes>>

(* The Err of spawn_blocking is dropped.                                   *)
Panic ==
  /\ wpc = "run" /\ Idle(Worker)
  /\ panics < MaxPanics
  /\ panics' = panics + 1
  /\ wpc' = "recv"
  /\ job' = NoJob
  /\ UNCHANGED <<registry, webhook, cancels, step, cleanup, now, crashes>>

WorkerStep == \/ Dequeue
              \/ SkipCancelled
              \/ Start
              \/ SetStage
              \/ Complete
              \/ AlreadyCompleted
              \/ Fail
              \/ WorkerNext

-----------------------------------------------------------------------------
(* cleanup_old_jobs.  The cutoff comes first, then list(): a clone of the  *)
(* map, completed with the files of the jobs it does not have.             *)
CleanupStart ==
  /\ clpc = "sleep"
  /\ clpc' = "list"
  /\ cutoff' = now
  /\ UNCHANGED <<expired, victim, registry, webhook, cancels, worker, budget>>

(* Mutant: the age decides alone.                                          *)
CleanupListAll ==
  /\ clpc = "list"
  /\ expired' = {id \in Ids : Get(id) # NoRecord /\ Get(id).stamp < cutoff}
  /\ clpc' = "forget"
  /\ UNCHANGED <<cutoff, victim, registry, webhook, cancels, worker, budget>>

CleanupList ==
  /\ clpc = "list"
  /\ expired' = {id \in Ids : /\ Get(id) # NoRecord
                              /\ Get(id).state \in Terminal
                              /\ Get(id).stamp < cutoff}
  /\ clpc' = "forget"
  /\ UNCHANGED <<cutoff, victim, registry, webhook, cancels, worker, budget>>

(* remove(id) of the next status in the list, whatever became of the job   *)
(* since.                                                                  *)
CleanupForget ==
  /\ clpc = "forget"
  /\ \E id \in expired : /\ Forget(id)
                         /\ victim' = id
                         /\ expired' = expired \ {id}
  /\ clpc' = "rmdir"
  /\ UNCHANGED <<cutoff, webhook, cancels, worker, budget>>

(* A failure is logged, and the loop goes on.                              *)
CleanupRemove ==
  /\ clpc = "rmdir"
  /\ RemoveDir(victim) \/ RemoveDirFault
  /\ victim' = NoId
  /\ clpc' = "forget"
  /\ UNCHANGED <<cutoff, expired, webhook, cancels, worker, budget>>

CleanupEnd ==
  /\ clpc = "forget"
  /\ expired = {}
  /\ clpc' = "sleep"
  /\ UNCHANGED <<cutoff, expired, victim, registry, webhook, cancels, worker, budget>>

Cleanup == \/ CleanupStart
           \/ CleanupList
           \/ CleanupForget
           \/ CleanupRemove
           \/ CleanupEnd

-----------------------------------------------------------------------------
(* A retention period goes by; job_retention_hours may be as short as 0.   *)
Tick ==
  /\ now < MaxClock
  /\ now' = now + 1
  /\ UNCHANGED <<registry, webhook, cancels, worker, cleanup, crashes, panics>>

(* docker restarts the container (restart: unless-stopped).  The queue and *)
(* every request in flight are lost, and main reads no job back.           *)
Crash ==
  /\ crashes < MaxCrashes
  /\ crashes' = crashes + 1
  /\ LoseMemory
  /\ hpc' = [h \in Handlers |-> IF hpc[h] \in {"new", "done"} THEN hpc[h] ELSE "gone"]
  /\ queue' = <<>>
  /\ cpc' = [c \in Cancellers |-> IF cpc[c] = "persist" THEN "gone" ELSE cpc[c]]
  /\ wpc' = "recv"
  /\ job' = NoJob
  /\ step' = 0
  /\ clpc' = "sleep"
  /\ expired' = {}
  /\ victim' = NoId
  /\ UNCHANGED <<reply, created, answer, cutoff, now, panics>>

Persist(p) == /\ PersistStep(p)
              /\ UNCHANGED <<webhook, cancels, worker, cleanup, budget>>

PersistFails(p) == /\ PersistFault(p)
                   /\ UNCHANGED <<webhook, cancels, worker, cleanup, budget>>

Next == \/ \E h \in Handlers : Webhook(h) \/ Disconnect(h)
        \/ \E c \in Cancellers : Cancel(c)
        \/ WorkerStep
        \/ Panic
        \/ Cleanup
        \/ \E p \in Writers : Persist(p) \/ PersistFails(p)
        \/ Tick
        \/ Crash

Spec == Init /\ [][Next]_vars

(* tokio schedules every task, and every stage returns.  Nothing obliges a *)
(* client to cancel, or the cleanup task, which sleeps, to run.            *)
Fairness == /\ \A h \in Handlers : WF_vars(Webhook(h))
            /\ \A p \in Writers : WF_vars(Persist(p))
            /\ WF_vars(WorkerStep)

FairSpec == Spec /\ Fairness

-----------------------------------------------------------------------------
(* Correctness *)

Handling == {"persist", "already", "send"}
Running(id) == wpc \in {"run", "finish"} /\ IdOf[job] = id

(* Every variable has its type.                                            *)
TypeOK ==
  /\ RegistryTypeOK
  /\ hpc \in [Handlers -> Handling \cup {"new", "done", "gone"}]
  /\ reply \in [Handlers -> {"none", "200", "202", "500"}]
  /\ created \in [Handlers -> 0..MaxClock]
  /\ queue \in Seq(Handlers)
  /\ cpc \in [Cancellers -> {"new", "persist", "done", "gone"}]
  /\ answer \in [Cancellers ->
                 {"none", "cancelled", "not_found", "conflict", "error"}]
  /\ wpc \in {"recv", "check", "run", "finish"}
  /\ job \in Handlers \cup {NoJob}
  /\ wpc # "recv" => job \in Handlers
  /\ step \in 0..Steps
  /\ clpc \in {"sleep", "list", "forget", "rmdir"}
  /\ cutoff \in 0..MaxClock
  /\ expired \subseteq Ids
  /\ victim \in Ids \cup {NoId}
  /\ clpc = "rmdir" => victim \in Ids
  /\ now \in 0..MaxClock
  /\ crashes \in 0..MaxCrashes
  /\ panics \in 0..MaxPanics

(* A job the webhook answered 202 for can be found again, across failed    *)
(* writes, restarts, cancels and cleanups, until a retention period is     *)
(* over: webhook_run persists before it answers, and nothing but cleanup   *)
(* deletes.                                                                *)
AcceptedIsDurable ==
  \A h \in Handlers :
    reply[h] = "202" /\ now = created[h] => disk[IdOf[h]] # NoRecord

(* Only one request has the id: Sole(id) ceases to hold when a second one  *)
(* arrives in the same second.                                             *)
Sole(id) ==
  \A h, k \in Handlers :
    IdOf[h] = id /\ IdOf[k] = id /\ hpc[h] # "new" /\ hpc[k] # "new" => h = k

(* Moreover nobody has begun to cancel the job, or not with success.       *)
Undisputed(id) ==
  /\ Sole(id)
  /\ \A c \in Cancellers : CancelOf[c] = id =>
       \/ cpc[c] = "new"
       \/ cpc[c] = "done" /\ answer[c] \in {"not_found", "conflict"}

(* Between two persists the map and the file say the same of a job,        *)
(* although only the map is under the mutex (persist, state.rs), so that a *)
(* restart shows clients what they saw before.                             *)
MemDiskAgree ==
  \A id \in Ids :
    Undisputed(id) /\ Writes(id) = {} /\ mem[id] # NoRecord => disk[id] = mem[id]

(* cleanup_old_jobs works from a list it took earlier, but what it deletes *)
(* is over by now: no pipeline runs the job, nobody writes its record, and *)
(* the record is terminal.  A cancel that begins before the worker has     *)
(* looked can make it otherwise.                                           *)
CleanupSparesLiveJobs ==
  clpc = "rmdir" /\ Undisputed(victim) =>
    /\ ~(wpc = "run" /\ IdOf[job] = victim)
    /\ Writes(victim) = {}
    /\ disk[victim] # NoRecord => disk[victim].state \in Terminal

(* A job that is shown as queued is in somebody's hands (its handler's,    *)
(* the queue's, the worker's or a canceller's), unless its client hung up  *)
(* while the queue was full, a restart lost it, or a write failed.         *)
QueuedHasOwner ==
  ~EagerCancel /\ crashes = 0 /\ faults = 0 =>
    \A id \in Ids : Sole(id) /\ Is(id, "queued") =>
      \/ \E h \in Handlers : /\ IdOf[h] = id
                             /\ \/ hpc[h] \in Handling \cup {"gone"}
                                \/ Queued(h)
                                \/ wpc # "recv" /\ job = h
      \/ \E c \in Cancellers : CancelOf[c] = id /\ cpc[c] = "persist"

(* A cancel that was acknowledged before the worker looked makes the       *)
(* worker skip the job: the registry still says so when it does look       *)
(* ("re-check the registry (the source of truth)", main.rs), until a       *)
(* retention period is over.                                               *)
CancelSticksWhileQueued ==
  \A c \in Cancellers, h \in Handlers :
    /\ ~EagerCancel /\ Sole(IdOf[h]) /\ now = created[h]
    /\ answer[c] = "cancelled" /\ CancelOf[c] = IdOf[h]
    /\ Queued(h) \/ (wpc = "check" /\ job = h)
    => Is(IdOf[h], "cancelled")

(* What polling clients see of a job (GET /jobs/:id) is its lifecycle.     *)
Seen == [id \in Ids |->
           IF Get(id) = NoRecord
             THEN [phase |-> "none", step |-> 0]
             ELSE [phase |-> Get(id).state, step |-> Get(id).step]]

Lifecycle == INSTANCE JobLifecycle WITH seen <- Seen

ImplementsLifecycle == Lifecycle!Spec

(* An accepted job reaches a terminal state even if another job, or its    *)
(* own cancel, comes in between; only a job whose pipeline panicked stays  *)
(* Running, and it does not take the worker with it.                       *)
AcceptedJobsEnd ==
  \A h \in Handlers :
    reply[h] = "202" ~> \/ \E st \in Terminal : Is(IdOf[h], st)
                       \/ (panics > 0 /\ Is(IdOf[h], "running"))

-----------------------------------------------------------------------------
(* What the documentation and the comments say, refuted by the code        *)

(* main.rs:71-73: jobs cancelled while queued are skipped instead of run.  *)
CancelledIsNotRun ==
  \A c \in Cancellers : answer[c] = "cancelled" => ~Running(CancelOf[c])

(* README.md:95-96: a caller can poll until completed, failed or           *)
(* already_completed.                                                      *)
PollingEnds ==
  \A h \in Handlers :
    reply[h] = "202" ~> \E st \in {"completed", "failed", "already_completed"} : Is(IdOf[h], st)
=============================================================================
