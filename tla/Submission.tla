------------------------------ MODULE Submission ------------------------------
(***************************************************************************)
(* How jobs submit to the archive: the fast path of webhook_run (http.rs), *)
(* the single worker that prepares the two clones, looks for an earlier    *)
(* submission, builds, and runs the uploader (run_stages in job.rs,        *)
(* upload.rs), and the restart of the process at any point.                *)
(*                                                                         *)
(* The uploader is a script of the archive repository.  By its arguments   *)
(* it writes a submission for the HEAD of --emu-repo into --archive-repo,  *)
(* commits it, and pushes it unless --no-push; --dry-run does nothing.     *)
(*                                                                         *)
(* Records, cancels and the capacity of the queue are in JobService.       *)
(***************************************************************************)
EXTENDS Repositories, Naturals, Sequences

CONSTANTS Jobs,       \* webhook requests, each with its job
          NoJob,      \* the worker has no job
          CommitOf,   \* the commit a request names
          Forced,     \* requests with force = true
          Capitals,   \* requests that spell it in capital letters
          Short,      \* the first seven letters of each commit
          Modes,      \* settings of [upload]: "push", "no_push", "dry_run"
          MaxFaults,  \* bound: commands that fail
          MaxCrashes  \* bound: restarts

ASSUME SubmissionAssumption ==
  /\ NoJob \notin Jobs
  /\ CommitOf \in [Jobs -> Commits]
  /\ Forced \subseteq Jobs /\ Capitals \subseteq Jobs
  /\ Modes \subseteq {"push", "no_push", "dry_run"}
  /\ MaxFaults \in Nat /\ MaxCrashes \in Nat

(* An image is built from all that is in the worktree (docker.rs).         *)
Built == [head : Commits \cup {NoCommit}, modules : Commits \cup {NoCommit},
          debris : SUBSET (Commits \cup {NoCommit}), strays : SUBSET Commits]

(* A submission names a commit; of and image are what it was made of.      *)
ASSUME SubmissionsAssumption ==
  Submissions = [of : Commits \cup {NoCommit}, by : Jobs, image : Built]

VARIABLES mode,         \* the setting
          status,       \* the state of each job
          queue,        \* mpsc::channel(64)
          job,          \* the job of the worker
          pc,           \* where in run_stages it is
          image,        \* what the image of the current job was built from
          unpublished,  \* commits written into the clone and not pushed (yet)
          faults,       \* failures so far
          crashes       \* restarts so far

vars == <<repos, mode, status, queue, job, pc, image, unpublished, faults, crashes>>

jobs == <<mode, status, queue, job, image, unpublished, faults, crashes>>

NoImage == [head |-> NoCommit, modules |-> NoCommit, debris |-> {}, strays |-> {}]

Init ==
  /\ RepoInit
  /\ mode \in Modes
  /\ status = [j \in Jobs |-> "new"]
  /\ queue = <<>>
  /\ job = NoJob
  /\ pc = "idle"
  /\ image = NoImage
  /\ unpublished = {}
  /\ faults = 0
  /\ crashes = 0

Goto(to) == pc' = to

(* run_stages is over: run_pipeline records the state it ends in.          *)
End(s) == /\ status' = [status EXCEPT ![job] = s]
          /\ job' = NoJob
          /\ Goto("idle")

Fault == faults < MaxFaults /\ faults' = faults + 1

(* submission_exists(archive, .., CommitOf[j]): a file whose name ends in  *)
(* the seven letters as they were sent and whose commit is the same, but   *)
(* for capitals.  The uploader names files as git spells them.             *)
Named(s, j) == j \notin Capitals /\ Short[s.of] = Short[CommitOf[j]]

(* Mutant: the file name is all that is compared.                          *)
ExistsByName(j) == \E s \in archive.files : Named(s, j)

Exists(j) == \E s \in archive.files :
               Named(s, j) /\ s.of = CommitOf[j]

-----------------------------------------------------------------------------
(* webhook_run                                                             *)

FastHit(j) == j \notin Forced /\ archive.git /\ Exists(j)

(* Whatever the worker is doing to the clone at the time.                  *)
FastPath(j) ==
  /\ status[j] = "new"
  /\ FastHit(j)
  /\ status' = [status EXCEPT ![j] = "already"]
  /\ UNCHANGED <<repos, mode, queue, job, pc, image, unpublished, faults, crashes>>

Enqueue(j) ==
  /\ status[j] = "new"
  /\ status' = [status EXCEPT ![j] = "queued"]
  /\ queue' = Append(queue, j)
  /\ UNCHANGED <<repos, mode, job, pc, image, unpublished, crashes>>

Accept(j) == ~FastHit(j) /\ Enqueue(j) /\ UNCHANGED faults

(* An error of submission_exists counts as "no" here.                      *)
AcceptUnread(j) == FastHit(j) /\ Fault /\ Enqueue(j)

-----------------------------------------------------------------------------
(* The worker *)

(* Mutant: the next job does not wait for the last one.                    *)
DequeueBusy ==
  /\ queue # <<>>
  /\ job' = Head(queue)
  /\ queue' = Tail(queue)
  /\ status' = [status EXCEPT ![Head(queue)] = "running"]
  /\ Goto("clone")
  /\ UNCHANGED <<repos, mode, image, unpublished, faults, crashes>>

Dequeue ==
  /\ job = NoJob /\ queue # <<>>
  /\ job' = Head(queue)
  /\ queue' = Tail(queue)
  /\ status' = [status EXCEPT ![Head(queue)] = "running"]
  /\ Goto("clone")
  /\ UNCHANGED <<repos, mode, image, unpublished, faults, crashes>>

(* A command that works takes the job from one place to the next.          *)
Step(from, command, to) ==
  /\ pc = from
  /\ command
  /\ Goto(to)
  /\ UNCHANGED jobs

AlreadySubmitted ==
  /\ pc = "check"
  /\ job \notin Forced /\ Exists(job)
  /\ End("already")
  /\ UNCHANGED <<repos, mode, queue, image, unpublished, faults, crashes>>

NotSubmitted ==
  Step("check", (job \in Forced \/ ~Exists(job)) /\ UNCHANGED repos, "emu_clone")

FaultOr(reason) == Fault \/ (reason /\ UNCHANGED faults)

(* Mutant: the status of the first update is not looked at.                *)
UpdateFailsUnnoticed ==
  /\ pc = "modules"
  /\ FaultOr(InTheWay(worktree.head))
  /\ WorktreeLeftBy("modules", CommitOf[job])
  /\ Goto("skip")
  /\ UNCHANGED <<origin, archive, mode, status, queue, job, image, unpublished, crashes>>

(* The first update may fail: deinit, and a second try.                    *)
UpdateFails ==
  /\ pc = "modules"
  /\ FaultOr(InTheWay(worktree.head))
  /\ WorktreeLeftBy("modules", CommitOf[job])
  /\ Goto("deinit")
  /\ UNCHANGED <<origin, archive, mode, status, queue, job, image, unpublished, crashes>>

Prepare ==
  \/ Step("clone", EnsureArchive, "fetch")
  \/ Step("fetch", FetchArchive, "checkout")
  \/ Step("checkout", CheckoutMain, "reset")
  \/ Step("reset", ResetHard, "check")
  \/ AlreadySubmitted
  \/ NotSubmitted
  \/ Step("emu_clone", EnsureWorktree, "emu_fetch")
  \/ Step("emu_fetch", FetchWorktree, "emu_checkout")
  \/ Step("emu_checkout", Checkout(CommitOf[job]), "sync")
  \/ Step("sync", UNCHANGED repos, "modules")
  \/ Step("modules", UpdateSubmodules, "skip")
  \/ UpdateFails
  \/ Step("deinit", DeinitSubmodules, "modules_again")
  \/ Step("modules_again", UpdateSubmodules, "skip")
  \/ Step("skip", UNCHANGED repos, "head")
  \/ Step("head", worktree.head = CommitOf[job] /\ UNCHANGED repos, "work")

(* Everything from the game set to the validated output.                   *)
Work ==
  /\ pc = "work"
  /\ image' = [head |-> worktree.head, modules |-> worktree.modules,
               debris |-> worktree.debris, strays |-> worktree.strays]
  /\ Goto("upload")
  /\ UNCHANGED <<repos, mode, status, queue, job, unpublished, faults, crashes>>

-----------------------------------------------------------------------------
(* The uploader *)

DryRun ==
  /\ pc = "upload" /\ mode = "dry_run"
  /\ End("completed")
  /\ UNCHANGED <<repos, mode, queue, image, unpublished, faults, crashes>>

New == [of |-> worktree.head, by |-> job, image |-> image]

Write ==
  /\ pc = "upload" /\ mode # "dry_run"
  /\ archive' = [archive EXCEPT !.files = @ \cup {New}]
  /\ unpublished' = unpublished \cup {worktree.head}
  /\ Goto("commit")
  /\ UNCHANGED <<origin, worktree, mode, status, queue, job, image, faults, crashes>>

Committed == [archive EXCEPT !.main = @ \cup {New}]

Commit ==
  Step("commit",
       ~archive.lock /\ archive' = Committed /\ UNCHANGED <<origin, worktree>>,
       "push")

NoPush ==
  /\ pc = "push" /\ mode = "no_push"
  /\ End("completed")
  /\ UNCHANGED <<repos, mode, queue, image, unpublished, faults, crashes>>

Publish == /\ origin' = archive.main
           /\ archive' = [archive EXCEPT !.tracking = archive.main]
           /\ unpublished' = unpublished \ {worktree.head}
           /\ UNCHANGED worktree

Push ==
  /\ pc = "push" /\ mode = "push"
  /\ Publish
  /\ End("completed")
  /\ UNCHANGED <<mode, queue, image, faults, crashes>>

(* The remote has it, and the uploader fails all the same.                 *)
PushFails ==
  /\ pc = "push" /\ mode = "push"
  /\ Fault
  /\ Publish
  /\ End("failed")
  /\ UNCHANGED <<mode, queue, image, crashes>>

Upload == DryRun \/ Write \/ Commit \/ NoPush \/ Push \/ PushFails

-----------------------------------------------------------------------------
(* Failure *)

(* What the command at hand leaves when it fails or is killed.  A file     *)
(* that was added and not committed goes with the next reset, as one that  *)
(* was committed does.                                                     *)
CutShort ==
  /\ \/ ArchiveLeftBy(pc)
     \/ /\ pc = "commit"
        /\ \E a \in {archive, Committed}, l \in {archive.lock, TRUE} :
             archive' = [a EXCEPT !.lock = l]
  /\ WorktreeLeftBy(pc, CommitOf[job])

(* The results of sync, deinit and the commands for skipped submodules are *)
(* ignored.                                                                *)
StepFails ==
  /\ job # NoJob /\ pc \notin {"sync", "deinit", "skip"}
  /\ Fault
  /\ CutShort
  /\ End("failed")
  /\ UNCHANGED <<origin, mode, queue, image, unpublished, crashes>>

(* Git refuses: for a lock that nobody will remove, an unknown commit, or  *)
(* something in its way.                                                   *)
Refused ==
  /\ \/ /\ \/ pc \in {"checkout", "reset", "commit"} /\ archive.lock
           \/ pc = "emu_checkout" /\ worktree.lock
           \/ pc = "emu_checkout" /\ CommitOf[job] \notin worktree.has
           \/ pc = "emu_checkout" /\ CommitOf[job] # worktree.head /\ InTheWay(CommitOf[job])
           \/ pc = "head" /\ worktree.head # CommitOf[job]
        /\ UNCHANGED worktree
     \/ /\ pc = "modules_again" /\ InTheWay(worktree.head)
        /\ WorktreeLeftBy(pc, CommitOf[job])
  /\ End("failed")
  /\ UNCHANGED <<origin, archive, mode, queue, image, unpublished, faults, crashes>>

(* The container of the orchestrator is restarted.  Its children die with  *)
(* it, the queue is gone, and nobody takes up the jobs again.              *)
Crash ==
  /\ crashes < MaxCrashes
  /\ crashes' = crashes + 1
  /\ CutShort
  /\ \/ origin' = origin
     \/ pc = "push" /\ mode = "push" /\ origin' = archive.main
  /\ status' = [j \in Jobs |-> IF status[j] \in {"queued", "running"} THEN "lost" ELSE status[j]]
  /\ queue' = <<>>
  /\ job' = NoJob
  /\ Goto("idle")
  /\ UNCHANGED <<mode, image, unpublished, faults>>

Finished == /\ \A j \in Jobs : status[j] \notin {"new", "queued", "running"}
            /\ UNCHANGED vars

Next == \/ \E j \in Jobs : FastPath(j) \/ Accept(j) \/ AcceptUnread(j)
        \/ Dequeue
        \/ Prepare
        \/ Work
        \/ Upload
        \/ StepFails
        \/ Refused
        \/ Crash
        \/ Finished

Spec == Init /\ [][Next]_vars

-----------------------------------------------------------------------------
(* Correctness *)

(* Every variable has its type, and the worker runs exactly the job it has.*)
TypeOK ==
  /\ RepoTypeOK
  /\ mode \in Modes
  /\ status \in [Jobs -> {"new", "queued", "running", "already", "completed", "failed", "lost"}]
  /\ queue \in Seq(Jobs)
  /\ job \in Jobs \cup {NoJob}
  /\ pc \in {"idle", "clone", "fetch", "checkout", "reset", "check",
             "emu_clone", "emu_fetch", "emu_checkout", "sync", "modules", "deinit",
             "modules_again", "skip", "head", "work", "upload", "commit", "push"}
  /\ job = NoJob <=> pc = "idle"
  /\ \A j \in Jobs : status[j] = "running" <=> j = job
  /\ image \in Built
  /\ unpublished \subseteq Commits \cup {NoCommit}
  /\ faults \in 0..MaxFaults
  /\ crashes \in 0..MaxCrashes

(* Repeating a request does not submit twice: a job that was not forced    *)
(* pushes only what the archive does not have yet, whatever failed or was  *)
(* cut off before.  It does if the commit is spelled in capitals: the      *)
(* suffix of the file name is compared letter by letter (upload.rs:20).    *)
NoDoubleSubmission ==
  [][\A s \in origin' \ origin :
       s.by \in Forced \cup Capitals \/ \A t \in origin : t.of # CommitOf[s.by]]_vars

(* A job that is skipped because its commit was submitted either finds it  *)
(* in the archive, or finds what an uploader wrote and has not pushed: the *)
(* webhook looks at the clone whatever happens to it, and a loose file     *)
(* survives reset --hard.                                                  *)
SkipHasCause ==
  \A j \in Jobs : status[j] = "already" =>
    CommitOf[j] \in unpublished \cup {s.of : s \in origin}

(* What is submitted for a commit was built from that commit with its own  *)
(* submodules, although the worktree is shared by all jobs and nothing     *)
(* cleans it.  What else was in the directory is of other commits: files   *)
(* that a command left which failed or was killed, or the submodules that  *)
(* an earlier job had.                                                     *)
SubmissionIsGenuine ==
  \A s \in origin :
    LET c == CommitOf[s.by]
    IN  /\ s.of = c /\ s.image.head = c /\ s.image.modules = c
        /\ \A d \in s.image.debris :
             d # c /\ \E j \in Jobs : /\ status[j] \in {"failed", "lost"}
                                     /\ d \in {CommitOf[j], NoCommit}
        /\ \A d \in s.image.strays :
             d # c /\ \E j \in Jobs : /\ status[j] \in {"completed", "failed", "lost"}
                                     /\ d = CommitOf[j]

(* A push publishes the submission of the job that pushes and no other,    *)
(* and drops none, although it pushes main as a whole and earlier uploads  *)
(* that failed have left commits and files in the clone.                   *)
OnlyOwnIsPublished ==
  [][origin' # origin =>
       /\ origin \subseteq origin'
       /\ \A s, t \in origin' \ origin : s = t /\ s.by = job]_vars

(* README.md:98-104: before heavy work emu.layle.dev is pulled, and a job  *)
(* is already_completed if it has a submission for the commit.  Here only  *)
(* for a service at rest, with no upload under way.                        *)
AlreadyIsArchived ==
  (\A j \in Jobs : status[j] \notin {"queued", "running"}) =>
    \A j \in Jobs : status[j] = "already" => \E s \in origin : s.of = CommitOf[j]
=============================================================================
