--------------------------- MODULE SubmissionProofs ---------------------------
(* Proofs about Submission for any requests and commits, and any number of *)
(* failing commands and restarts.                                          *)
EXTENDS Submission, TLAPS

(* The places behind each step of run_stages.                              *)
Uploading == {"upload", "commit", "push"}
Prepared == {"skip", "head", "work"} \cup Uploading
Retrying == {"deinit", "modules_again"}
Touched == Retrying \cup Prepared
AtCommit == {"sync", "modules"} \cup Touched
Absent == {"emu_clone", "emu_fetch", "emu_checkout"} \cup AtCommit
Reset == {"check"} \cup Absent
Fetched == {"checkout", "reset"} \cup Reset

(* The jobs that are over, and what they may have left in the worktree.    *)
Over == {j \in Jobs : status[j] \in {"completed", "failed", "lost"}}
Wrecked == {j \in Jobs : status[j] \in {"failed", "lost"}}
Strays == {d \in Commits : \E j \in Over : d = CommitOf[j]}
Debris == {d \in Commits \cup {NoCommit} : \E j \in Wrecked : d \in {CommitOf[j], NoCommit}}

(* A request waits once, and is not over.                                  *)
Waiting ==
  /\ \A i \in 1..Len(queue) : status[queue[i]] = "queued"
  /\ \A i, k \in 1..Len(queue) : queue[i] = queue[k] => i = k

(* What the worktree and the image hold from each step on.  Besides what   *)
(* earlier jobs left there may be what this job has left so far.           *)
Sources ==
  /\ pc \in AtCommit => worktree.head = CommitOf[job]
  /\ pc \in Prepared => /\ worktree.modules = CommitOf[job]
                        /\ CommitOf[job] \notin worktree.debris \cup worktree.strays

Leftovers ==
  /\ \A d \in worktree.debris : d \in Debris \/ (pc \in Retrying /\ d = CommitOf[job])
  /\ \A d \in Leavable : d \in Strays \/ (pc \in Touched /\ d = CommitOf[job])

BuiltFrom(i, c) == /\ i.head = c /\ i.modules = c
                   /\ c \notin i.debris /\ i.debris \subseteq Debris
                   /\ c \notin i.strays /\ i.strays \subseteq Strays

ImageIsBuilt == pc \in Uploading => BuiltFrom(image, CommitOf[job])

Genuine(s) == s.of = CommitOf[s.by] /\ BuiltFrom(s.image, CommitOf[s.by])

Everywhere == origin \cup archive.main \cup archive.tracking \cup archive.files

AllGenuine == \A s \in Everywhere : Genuine(s)

(* How far the clone of the archive is from the remote.                    *)
Synced ==
  /\ archive.tracking \subseteq origin
  /\ pc \in Fetched => archive.tracking = origin
  /\ pc \in Reset \ {"push"} => archive.main = origin
  /\ pc \in Reset => archive.main \subseteq archive.files
  /\ pc \in {"commit", "push"} => New \in archive.files /\ New.of \in unpublished
  /\ pc = "push" => archive.main = origin \cup {New}

(* Past the check the archive does not have the commit.                    *)
Unsubmitted ==
  pc \in Absent => job \in Forced \cup Capitals \/ \A t \in origin : t.of # CommitOf[job]

Caused(c) == c \in unpublished \/ \E t \in origin : t.of = c

(* Whatever submission_exists may find, and whatever it has found.         *)
Traced == /\ \A s \in archive.main \cup archive.files : Caused(s.of)
          /\ \A j \in Jobs : status[j] = "already" => Caused(CommitOf[j])

SInv == /\ TypeOK /\ Waiting /\ Sources /\ Leftovers /\ ImageIsBuilt
        /\ AllGenuine /\ Synced /\ Unsubmitted /\ Traced

-----------------------------------------------------------------------------
(* Types *)

LEMMA InitTypes == Init => TypeOK
BY RepoAssumption, SubmissionAssumption
   DEF Init, RepoInit, TypeOK, RepoTypeOK, NoArchive, NoWorktree, NoImage, ArchiveClone, EmulatorClone, Built

LEMMA RequestTypes ==
  ASSUME TypeOK, NEW j \in Jobs, FastPath(j) \/ Accept(j) \/ AcceptUnread(j)
  PROVE  TypeOK'
<1> USE SubmissionAssumption DEF TypeOK, RepoTypeOK, repos
<1>1. CASE FastPath(j)
  BY <1>1 DEF FastPath
<1>2. CASE Accept(j)
  BY <1>2 DEF Accept, Enqueue
<1>3. CASE AcceptUnread(j)
  BY <1>3 DEF AcceptUnread, Enqueue, Fault
<1> QED BY <1>1, <1>2, <1>3

(* The worktree after git submodule update and deinit.                     *)
LEMMA UpdatedFields ==
  ASSUME worktree \in EmulatorClone, Updated
  PROVE  /\ worktree' \in EmulatorClone
         /\ worktree'.head = worktree.head /\ worktree'.modules = worktree.head
         /\ worktree'.strays \subseteq Leavable \ {worktree.head}
         /\ worktree'.debris \subseteq worktree.debris \ {worktree.head}
<1>1. PICK s \in SUBSET (Leavable \ {worktree.head}),
           d \in SUBSET (worktree.debris \ {worktree.head}) :
             worktree' = [worktree EXCEPT !.modules = worktree.head, !.strays = s, !.debris = d]
  BY DEF Updated
<1>2. s \subseteq Commits /\ d \subseteq Commits \cup {NoCommit}
  BY DEF EmulatorClone, Leavable
<1>3. /\ worktree' \in EmulatorClone
      /\ worktree'.head = worktree.head /\ worktree'.modules = worktree.head
      /\ worktree'.strays = s /\ worktree'.debris = d
  BY <1>1, <1>2 DEF EmulatorClone
<1> QED BY <1>3

LEMMA EmptiedFields ==
  ASSUME worktree \in EmulatorClone, Emptied
  PROVE  /\ worktree' \in EmulatorClone
         /\ worktree'.head = worktree.head /\ worktree'.modules = NoCommit
         /\ worktree'.strays \subseteq Leavable
         /\ worktree'.debris \subseteq worktree.debris
<1>1. PICK s \in SUBSET Leavable, d \in SUBSET worktree.debris :
             worktree' = [worktree EXCEPT !.modules = NoCommit, !.strays = s, !.debris = d]
  BY DEF Emptied
<1>2. s \subseteq Commits /\ d \subseteq Commits \cup {NoCommit}
  BY DEF EmulatorClone, Leavable
<1>3. /\ worktree' \in EmulatorClone
      /\ worktree'.head = worktree.head /\ worktree'.modules = NoCommit
      /\ worktree'.strays = s /\ worktree'.debris = d
  BY <1>1, <1>2 DEF EmulatorClone
<1> QED BY <1>3

(* What a command that fails or is killed may leave in the clones.         *)
LEMMA ArchiveLeft ==
  ASSUME TypeOK, CutShort
  PROVE  /\ archive' \in ArchiveClone
         /\ archive'.tracking \subseteq archive.tracking \cup origin
         /\ \A s \in archive'.main \cup archive'.files :
              \/ s \in archive.main \cup archive.files \cup archive.tracking \cup origin
              \/ pc = "commit" /\ s = New
<1>t. archive \in ArchiveClone /\ origin \subseteq Submissions
  BY DEF TypeOK, RepoTypeOK
<1>n. job \in Jobs => New \in Submissions
  BY SubmissionsAssumption DEF New, TypeOK, RepoTypeOK, EmulatorClone
<1>f. FreshArchive \in ArchiveClone /\ NoArchive \in ArchiveClone
  BY <1>t DEF FreshArchive, NoArchive, ArchiveClone
<1>1. CASE UNCHANGED archive
  BY <1>1, <1>t
<1>2. CASE \E m \in {{}, origin} : \E f \in {{}, m}, l \in BOOLEAN :
             archive' = [git |-> TRUE, main |-> m, tracking |-> m, files |-> f, lock |-> l]
  BY <1>2, <1>t DEF ArchiveClone
<1>3. CASE archive' = [archive EXCEPT !.tracking = origin]
  BY <1>3, <1>t DEF ArchiveClone
<1>4. CASE \E a \in OnMain, l \in {archive.lock, TRUE} : archive' = [a EXCEPT !.lock = l]
  <2>1. PICK a \in OnMain, l \in {archive.lock, TRUE} : archive' = [a EXCEPT !.lock = l]
    BY <1>4
  <2>2. /\ a \in ArchiveClone /\ a.tracking = archive.tracking
        /\ a.main \subseteq archive.main \cup archive.tracking
        /\ a.files \subseteq archive.files \cup archive.tracking
    BY <1>t DEF ArchiveClone, OnMain
  <2>3. l \in BOOLEAN
    BY <1>t DEF ArchiveClone
  <2> QED BY <2>1, <2>2, <2>3 DEF ArchiveClone
<1>5. CASE \E m \in {archive.main, archive.tracking},
              f \in {archive.files, archive.files \cup archive.tracking,
                     Untracked \cup archive.tracking},
              l \in {archive.lock, TRUE} :
              archive' = [archive EXCEPT !.main = m, !.files = f, !.lock = l]
  BY <1>5, <1>t DEF ArchiveClone, Untracked
<1>6. CASE /\ pc = "commit"
           /\ \E a \in {archive, Committed}, l \in {archive.lock, TRUE} :
                archive' = [a EXCEPT !.lock = l]
  <2>1. job \in Jobs
    BY <1>6 DEF TypeOK
  <2>2. PICK a \in {archive, Committed}, l \in {archive.lock, TRUE} :
               archive' = [a EXCEPT !.lock = l]
    BY <1>6
  <2>3. /\ a \in ArchiveClone /\ a.tracking = archive.tracking /\ a.files = archive.files
        /\ a.main \subseteq archive.main \cup {New}
    BY <1>t, <1>n, <2>1 DEF ArchiveClone, Committed
  <2>4. l \in BOOLEAN
    BY <1>t DEF ArchiveClone
  <2>5. /\ archive' \in ArchiveClone /\ archive'.tracking = a.tracking
        /\ archive'.files = a.files /\ archive'.main = a.main
    BY <2>2, <2>3, <2>4 DEF ArchiveClone
  <2> QED BY <1>6, <2>3, <2>5
<1> QED BY <1>1, <1>2, <1>3, <1>4, <1>5, <1>6 DEF CutShort, ArchiveLeftBy

LEMMA WorktreeLeft ==
  ASSUME TypeOK, WorktreeLeftBy(pc, CommitOf[job])
  PROVE  /\ worktree' \in EmulatorClone
         /\ pc = "idle" => worktree' = worktree
         /\ \A d \in worktree'.debris :
              \/ d \in worktree.debris
              \/ pc = "emu_clone" /\ d = NoCommit
              \/ pc = "emu_checkout" /\ d = CommitOf[job]
              \/ pc \in {"modules", "modules_again"} /\ d = worktree.head
         /\ \A d \in Leavable' :
              \/ d \in Leavable
              \/ pc \in {"modules", "modules_again"} /\ d = worktree.head
<1>t. worktree \in EmulatorClone
  BY DEF TypeOK, RepoTypeOK
<1>c. pc # "idle" => CommitOf[job] \in Commits
  BY SubmissionAssumption DEF TypeOK
<1> USE RepoAssumption, <1>t, <1>c DEF Leavable
<1>1. CASE UNCHANGED worktree
  BY <1>1
<1>2. CASE /\ pc = "emu_clone"
           /\ \E h \in {{}, Known}, d \in {{}, {NoCommit}}, l \in BOOLEAN :
                worktree' = [FreshWorktree EXCEPT !.has = h, !.debris = d, !.lock = l]
  <2>1. PICK h \in {{}, Known}, d \in {{}, {NoCommit}}, l \in BOOLEAN :
               worktree' = [FreshWorktree EXCEPT !.has = h, !.debris = d, !.lock = l]
    BY <1>2
  <2>2. worktree' = [git |-> TRUE, has |-> h, head |-> NoCommit, modules |-> NoCommit,
                     debris |-> d, strays |-> {}, lock |-> l]
    BY <2>1 DEF FreshWorktree, NoWorktree
  <2>3. worktree' \in EmulatorClone
    BY <2>2 DEF EmulatorClone
  <2> QED BY <1>2, <2>2, <2>3
<1>3. CASE pc = "emu_fetch" /\ worktree' = [worktree EXCEPT !.has = Known]
  BY <1>3 DEF EmulatorClone
<1>4. CASE /\ pc = "emu_checkout"
           /\ \/ worktree' = CheckedOutAt(CommitOf[job])
              \/ \E l \in {worktree.lock, TRUE} :
                   worktree' = [worktree EXCEPT !.debris = @ \cup {CommitOf[job]}, !.lock = l]
  <2>1. CASE worktree' = CheckedOutAt(CommitOf[job])
    BY <1>4, <2>1 DEF EmulatorClone, CheckedOutAt
  <2>2. CASE \E l \in {worktree.lock, TRUE} :
               worktree' = [worktree EXCEPT !.debris = @ \cup {CommitOf[job]}, !.lock = l]
    <3>1. PICK l \in {worktree.lock, TRUE} :
            worktree' = [worktree EXCEPT !.debris = @ \cup {CommitOf[job]}, !.lock = l]
      BY <2>2
    <3>2. /\ worktree' \in EmulatorClone
          /\ worktree'.debris = worktree.debris \cup {CommitOf[job]}
          /\ worktree'.strays = worktree.strays /\ worktree'.modules = worktree.modules
      BY <1>4, <3>1 DEF EmulatorClone
    <3> QED BY <1>4, <3>2
  <2> QED BY <1>4, <2>1, <2>2
<1>5. CASE pc \in {"modules", "modules_again"} /\ Updated
  BY <1>5, UpdatedFields
<1>6. CASE pc \in {"modules", "modules_again"} /\ worktree' = HalfUpdated
  BY <1>6 DEF HalfUpdated, EmulatorClone
<1>7. CASE pc = "deinit" /\ Emptied
  BY <1>7, EmptiedFields
<1>8. CASE pc = "skip" /\ worktree' = [worktree EXCEPT !.lock = TRUE]
  BY <1>8 DEF EmulatorClone
<1> QED BY <1>1, <1>2, <1>3, <1>4, <1>5, <1>6, <1>7, <1>8 DEF WorktreeLeftBy

(* The commands on the clones.                                             *)
LEMMA CommandTypes ==
  ASSUME TypeOK,
         \/ EnsureArchive \/ FetchArchive \/ CheckoutMain \/ ResetHard
         \/ EnsureWorktree \/ FetchWorktree
         \/ job \in Jobs /\ Checkout(CommitOf[job])
         \/ UpdateSubmodules \/ DeinitSubmodules
  PROVE  RepoTypeOK'
<1> USE RepoAssumption, SubmissionAssumption
    DEF TypeOK, RepoTypeOK, ArchiveClone, EmulatorClone, NoArchive, NoWorktree
<1>1. CASE EnsureArchive
  BY <1>1 DEF EnsureArchive, FreshArchive
<1>2. CASE FetchArchive
  BY <1>2 DEF FetchArchive
<1>3. CASE CheckoutMain
  <2>1. archive' = archive
          \/ archive' = [archive EXCEPT !.main = @ \cup archive.tracking,
                                        !.files = @ \cup archive.tracking]
    BY <1>3 DEF CheckoutMain, OnMain
  <2>2. CASE archive' = archive
    BY <1>3, <2>2 DEF CheckoutMain
  <2>3. CASE archive' = [archive EXCEPT !.main = @ \cup archive.tracking,
                                        !.files = @ \cup archive.tracking]
    BY <1>3, <2>3 DEF CheckoutMain
  <2> QED BY <2>1, <2>2, <2>3
<1>4. CASE ResetHard
  BY <1>4 DEF ResetHard, Untracked
<1>5. CASE EnsureWorktree
  BY <1>5 DEF EnsureWorktree, FreshWorktree
<1>6. CASE FetchWorktree
  BY <1>6 DEF FetchWorktree
<1>7. CASE job \in Jobs /\ Checkout(CommitOf[job])
  BY <1>7 DEF Checkout, CheckedOutAt
<1>8. CASE UpdateSubmodules
  BY <1>8, UpdatedFields DEF UpdateSubmodules
<1>9. CASE DeinitSubmodules
  BY <1>9, EmptiedFields DEF DeinitSubmodules
<1> QED BY <1>1, <1>2, <1>3, <1>4, <1>5, <1>6, <1>7, <1>8, <1>9

LEMMA PrepareTypes ==
  ASSUME TypeOK, Prepare
  PROVE  TypeOK'
<1> USE SubmissionAssumption DEF TypeOK, Step, Goto, jobs
<1>1. CASE Step("clone", EnsureArchive, "fetch")
  BY <1>1, CommandTypes
<1>2. CASE Step("fetch", FetchArchive, "checkout")
  BY <1>2, CommandTypes
<1>3. CASE Step("checkout", CheckoutMain, "reset")
  BY <1>3, CommandTypes
<1>4. CASE Step("reset", ResetHard, "check")
  BY <1>4, CommandTypes
<1>5. CASE AlreadySubmitted
  BY <1>5 DEF AlreadySubmitted, End, RepoTypeOK, repos
<1>6. CASE NotSubmitted
  BY <1>6 DEF NotSubmitted, RepoTypeOK, repos
<1>7. CASE Step("emu_clone", EnsureWorktree, "emu_fetch")
  BY <1>7, CommandTypes
<1>8. CASE Step("emu_fetch", FetchWorktree, "emu_checkout")
  BY <1>8, CommandTypes
<1>9. CASE Step("emu_checkout", Checkout(CommitOf[job]), "sync")
  BY <1>9, CommandTypes
<1>10. CASE Step("sync", UNCHANGED repos, "modules")
  BY <1>10 DEF RepoTypeOK, repos
<1>11. CASE Step("modules", UpdateSubmodules, "skip")
  BY <1>11, CommandTypes
<1>12. CASE UpdateFails
  <2>1. worktree' \in EmulatorClone
    BY <1>12, WorktreeLeft DEF UpdateFails
  <2>2. faults' \in 0..MaxFaults
    BY <1>12 DEF UpdateFails, FaultOr, Fault
  <2> QED BY <1>12, <2>1, <2>2 DEF UpdateFails, RepoTypeOK
<1>13. CASE Step("deinit", DeinitSubmodules, "modules_again")
  BY <1>13, CommandTypes
<1>14. CASE Step("modules_again", UpdateSubmodules, "skip")
  BY <1>14, CommandTypes
<1>15. CASE Step("skip", UNCHANGED repos, "head")
  BY <1>15 DEF RepoTypeOK, repos
<1>16. CASE Step("head", worktree.head = CommitOf[job] /\ UNCHANGED repos, "work")
  BY <1>16 DEF RepoTypeOK, repos
<1> QED BY <1>1, <1>2, <1>3, <1>4, <1>5, <1>6, <1>7, <1>8, <1>9, <1>10, <1>11, <1>12, <1>13,
           <1>14, <1>15, <1>16
        DEF Prepare

LEMMA UploadTypes ==
  ASSUME TypeOK, Work \/ Upload
  PROVE  TypeOK'
<1> USE SubmissionAssumption
    DEF TypeOK, RepoTypeOK, ArchiveClone, EmulatorClone, Built, Goto, End, repos, jobs, Fault
<1>1. CASE Work
  BY <1>1 DEF Work
<1>2. CASE DryRun
  BY <1>2 DEF DryRun
<1>3. pc \in {"upload", "commit"} => New \in Submissions
  BY SubmissionsAssumption DEF New
<1>4. CASE Write
  BY <1>3, <1>4 DEF Write
<1>5. CASE Commit
  BY <1>3, <1>5 DEF Commit, Committed, Step
<1>6. CASE NoPush
  BY <1>6 DEF NoPush
<1>7. CASE Push
  BY <1>7 DEF Push, Publish
<1>8. CASE PushFails
  <2>1. RepoTypeOK' /\ unpublished' \subseteq Commits \cup {NoCommit}
    BY <1>8 DEF PushFails, Publish
  <2>2. faults' \in 0..MaxFaults
    BY <1>8 DEF PushFails
  <2> QED BY <1>8, <2>1, <2>2 DEF PushFails
<1> QED BY <1>1, <1>2, <1>4, <1>5, <1>6, <1>7, <1>8 DEF Upload

LEMMA OtherTypes ==
  ASSUME TypeOK, Dequeue \/ StepFails \/ Refused \/ Crash \/ Finished
  PROVE  TypeOK'
<1> USE SubmissionAssumption DEF TypeOK, RepoTypeOK, Goto, End, repos, Fault
<1>1. CASE Dequeue
  BY <1>1 DEF Dequeue
<1>2. CASE StepFails
  <2>1. archive' \in ArchiveClone /\ worktree' \in EmulatorClone
    BY <1>2, ArchiveLeft, WorktreeLeft DEF StepFails, CutShort
  <2> QED BY <1>2, <2>1 DEF StepFails
<1>3. CASE Refused
  <2>1. worktree' \in EmulatorClone
    BY <1>3, WorktreeLeft DEF Refused
  <2>2. pc # "idle"
    BY <1>3 DEF Refused
  <2> QED BY <1>3, <2>1, <2>2 DEF Refused
<1>4. CASE Crash
  <2>1. archive' \in ArchiveClone /\ worktree' \in EmulatorClone
    BY <1>4, ArchiveLeft, WorktreeLeft DEF Crash, CutShort
  <2>3. origin' \subseteq Submissions
    BY <1>4 DEF Crash, ArchiveClone
  <2>4. status' \in [Jobs -> {"new", "already", "completed", "failed", "lost"}]
    BY <1>4 DEF Crash
  <2>5. queue' \in Seq(Jobs) /\ crashes' \in 0..MaxCrashes
    BY <1>4 DEF Crash
  <2> QED BY <1>4, <2>1, <2>3, <2>4, <2>5 DEF Crash
<1>5. CASE Finished
  BY <1>5 DEF Finished, vars
<1> QED BY <1>1, <1>2, <1>3, <1>4, <1>5

(* Every variable has its type, and the worker runs exactly the job it     *)
(* has, however the steps of webhook_run, run_stages and the uploader are  *)
(* interleaved with failures and restarts.                                 *)
THEOREM TypeCorrect == Spec => []TypeOK
<1>1. Init => TypeOK
  BY InitTypes
<1>2. ASSUME TypeOK, [Next]_vars PROVE TypeOK'
  <2>1. CASE Next
    BY <2>1, <1>2, RequestTypes, PrepareTypes, UploadTypes, OtherTypes DEF Next
  <2>2. CASE UNCHANGED vars
    BY <2>2, <1>2 DEF vars, TypeOK, RepoTypeOK, repos
  <2> QED BY <2>1, <2>2, <1>2
<1> QED BY <1>1, <1>2, PTL DEF Spec

-----------------------------------------------------------------------------
(* What does not change any more *)

(* A job that is over stays so, and what waits is not over.                *)
LEMMA Settled ==
  ASSUME TypeOK, Waiting, Next
  PROVE  /\ Waiting'
         /\ \A j \in Jobs : status[j] \in {"completed", "failed", "lost"} => status'[j] = status[j]
<1>t. /\ status \in [Jobs -> {"new", "queued", "running", "already", "completed", "failed", "lost"}]
      /\ queue \in Seq(Jobs)
  BY DEF TypeOK
<1>1. ASSUME NEW j \in Jobs, FastPath(j)
      PROVE  /\ Waiting'
             /\ \A i \in Jobs : status[i] \in {"completed", "failed", "lost"} => status'[i] = status[i]
  BY <1>1, <1>t DEF FastPath, Waiting
<1>2. ASSUME NEW j \in Jobs, Accept(j) \/ AcceptUnread(j)
      PROVE  /\ Waiting'
             /\ \A i \in Jobs : status[i] \in {"completed", "failed", "lost"} => status'[i] = status[i]
  <2>1. status[j] = "new" /\ status' = [status EXCEPT ![j] = "queued"] /\ queue' = Append(queue, j)
    BY <1>2 DEF Accept, AcceptUnread, Enqueue
  <2>2. /\ Len(queue') = Len(queue) + 1
        /\ \A i \in 1..Len(queue) : queue'[i] = queue[i] /\ queue[i] \in Jobs
        /\ queue'[Len(queue) + 1] = j
    BY <2>1, <1>t
  <2>3. \A i \in 1..Len(queue) : queue[i] # j
    BY <2>1 DEF Waiting
  <2>4. \A i \in 1..Len(queue') : i \in 1..Len(queue) \/ i = Len(queue) + 1
    BY <2>2, <1>t
  <2>5. Waiting'
    BY <2>1, <2>2, <2>3, <2>4, <1>t DEF Waiting
  <2> QED BY <2>1, <2>5, <1>t
<1>3. CASE Dequeue
  <2>1. /\ queue # <<>> /\ status' = [status EXCEPT ![Head(queue)] = "running"]
        /\ queue' = Tail(queue)
    BY <1>3 DEF Dequeue
  <2>2. /\ Len(queue) \in Nat /\ 1 \in 1..Len(queue) /\ Head(queue) = queue[1]
        /\ Len(queue') = Len(queue) - 1
        /\ \A i \in 1..Len(queue') : /\ i + 1 \in 1..Len(queue) /\ queue'[i] = queue[i + 1]
                                    /\ i + 1 # 1
    BY <2>1, <1>t
  <2>3. \A i \in 1..Len(queue) : queue[i] \in Jobs
    BY <1>t
  <2>4. \A i \in 1..Len(queue') : status'[queue'[i]] = "queued"
    BY <2>1, <2>2, <2>3, <1>t DEF Waiting
  <2>5. \A i, k \in 1..Len(queue') : queue'[i] = queue'[k] => i = k
    <3> SUFFICES ASSUME NEW i \in 1..Len(queue'), NEW k \in 1..Len(queue'), queue'[i] = queue'[k]
                 PROVE  i = k
      OBVIOUS
    <3>1. i + 1 = k + 1
      BY <2>2 DEF Waiting
    <3> QED BY <3>1, <2>2
  <2> QED BY <2>1, <2>2, <2>3, <2>4, <2>5, <1>t DEF Waiting
<1>4. CASE /\ \E s \in {"already", "completed", "failed"} : status' = [status EXCEPT ![job] = s]
           /\ UNCHANGED queue /\ pc # "idle"
  <2>1. job \in Jobs /\ status[job] = "running"
    BY <1>4 DEF TypeOK
  <2> QED BY <1>4, <2>1, <1>t DEF Waiting
<1>5. CASE Crash
  BY <1>5, <1>t DEF Crash, Waiting
<1>6. CASE UNCHANGED <<status, queue>>
  BY <1>6 DEF Waiting
<1>7. CASE AlreadySubmitted \/ DryRun \/ NoPush \/ Push \/ PushFails \/ StepFails \/ Refused
  <2>1. /\ \E s \in {"already", "completed", "failed"} : status' = [status EXCEPT ![job] = s]
        /\ UNCHANGED queue
    BY <1>7 DEF AlreadySubmitted, DryRun, NoPush, Push, PushFails, StepFails, Refused, End
  <2>2. pc # "idle"
    BY <1>7 DEF AlreadySubmitted, DryRun, NoPush, Push, PushFails, StepFails, Refused, TypeOK
  <2> QED BY <1>4, <2>1, <2>2
<1>8. CASE NotSubmitted \/ UpdateFails \/ Work \/ Write \/ Commit \/ Finished
  BY <1>8, <1>6 DEF NotSubmitted, Step, jobs, UpdateFails, Work, Write, Commit, Finished, vars
<1> QED BY <1>1, <1>2, <1>3, <1>5, <1>6, <1>7, <1>8 DEF Next, Prepare, Upload, Step, jobs

LEMMA LeftByOthers ==
  ASSUME TypeOK, Waiting, Next
  PROVE  Debris \subseteq Debris' /\ Strays \subseteq Strays'
<1>1. Over \subseteq Over' /\ Wrecked \subseteq Wrecked'
  BY Settled DEF Over, Wrecked
<1> QED BY <1>1 DEF Debris, Strays

LEMMA GenuineKept ==
  ASSUME Debris \subseteq Debris', Strays \subseteq Strays',
         \A s \in Everywhere : Genuine(s), \A s \in Everywhere' : s \in Everywhere
  PROVE  AllGenuine'
BY DEF AllGenuine, Genuine, BuiltFrom

-----------------------------------------------------------------------------
(* The invariant *)

LEMMA InitInv == Init => SInv
<1> SUFFICES ASSUME Init PROVE SInv
  OBVIOUS
<1>1. TypeOK
  BY InitTypes
<1>2. Waiting
  BY DEF Init, Waiting
<1>3. Leavable = {} /\ worktree.debris = {} /\ Everywhere = {}
  BY DEF Init, RepoInit, NoArchive, NoWorktree, Leavable, Everywhere
<1>4. AllGenuine /\ Leftovers
  BY <1>3 DEF AllGenuine, Leftovers
<1> QED BY <1>1, <1>2, <1>4
  DEF Init, RepoInit, SInv, Sources, ImageIsBuilt, Synced, Unsubmitted, Traced, NoArchive,
      AtCommit, Touched, Retrying, Prepared, Uploading, Absent, Reset, Fetched

(* Requests leave the clones and the worker alone.                         *)
LEMMA RequestInv ==
  ASSUME SInv, NEW j \in Jobs, FastPath(j) \/ Accept(j) \/ AcceptUnread(j)
  PROVE  SInv'
<1> USE DEF SInv
<1>0. TypeOK' /\ Waiting' /\ Debris \subseteq Debris' /\ Strays \subseteq Strays'
  BY RequestTypes, Settled, LeftByOthers DEF Next
<1>1. UNCHANGED <<repos, job, pc, image, unpublished>>
  BY DEF FastPath, Accept, AcceptUnread, Enqueue
<1>2. (Sources /\ Synced /\ Unsubmitted)'
  BY <1>1 DEF Sources, Synced, Unsubmitted, New, repos,
              AtCommit, Touched, Retrying, Prepared, Uploading, Absent, Reset, Fetched
<1>3. Leavable' = Leavable /\ Everywhere' = Everywhere
  BY <1>1 DEF Leavable, Everywhere, repos
<1>4. (Leftovers /\ ImageIsBuilt)'
  BY <1>0, <1>1, <1>3 DEF Leftovers, ImageIsBuilt, BuiltFrom, repos, Retrying, Touched, Prepared, Uploading
<1>5. AllGenuine'
  BY <1>0, <1>3, GenuineKept DEF AllGenuine
<1>6. \A i \in Jobs : status'[i] = "already" => Caused(CommitOf[i])
  <2>1. CASE FastPath(j)
    <3>1. Caused(CommitOf[j])
      BY <2>1 DEF FastPath, FastHit, Exists, Traced
    <3> QED BY <2>1, <3>1 DEF FastPath, Traced, TypeOK
  <2>2. CASE Accept(j) \/ AcceptUnread(j)
    BY <2>2 DEF Accept, AcceptUnread, Enqueue, Traced, TypeOK
  <2> QED BY <2>1, <2>2
<1>7. Traced'
  BY <1>1, <1>6 DEF Traced, Caused, repos
<1> QED BY <1>0, <1>2, <1>4, <1>5, <1>7

-----------------------------------------------------------------------------
(* The worker prepares the clone of the archive: nothing new is in any     *)
(* place where submissions are.                                            *)
LEMMA ArchiveInv ==
  ASSUME SInv,
         \/ Step("clone", EnsureArchive, "fetch")
         \/ Step("fetch", FetchArchive, "checkout")
         \/ Step("checkout", CheckoutMain, "reset")
         \/ Step("reset", ResetHard, "check")
  PROVE  SInv'
<1> USE DEF SInv
<1>0. TypeOK' /\ Waiting' /\ Debris \subseteq Debris' /\ Strays \subseteq Strays'
  BY PrepareTypes, Settled, LeftByOthers DEF Prepare, Next
<1>t. archive \in ArchiveClone
  BY DEF TypeOK, RepoTypeOK
<1>1. /\ UNCHANGED <<origin, worktree, status, unpublished, job>>
      /\ pc \in {"clone", "fetch"} \cup Fetched /\ pc \notin Absent /\ pc' \in Fetched \cup {"fetch"}
      /\ pc' \notin Absent
  BY DEF Step, Goto, jobs, EnsureArchive, FetchArchive, CheckoutMain, ResetHard, Absent, AtCommit,
     Touched, Retrying, Prepared, Uploading, Reset, Fetched
<1>2. /\ archive'.main \cup archive'.files
           \subseteq archive.main \cup archive.files \cup archive.tracking \cup origin
      /\ archive'.tracking \subseteq archive.tracking \cup origin
  <2>1. CASE Step("clone", EnsureArchive, "fetch")
    BY <2>1, <1>t DEF Step, EnsureArchive, FreshArchive
  <2>2. CASE Step("fetch", FetchArchive, "checkout")
    BY <2>2, <1>t DEF Step, FetchArchive, ArchiveClone
  <2>3. CASE Step("checkout", CheckoutMain, "reset")
    <3>1. archive' = archive
          \/ archive' = [archive EXCEPT !.main = @ \cup archive.tracking,
                                        !.files = @ \cup archive.tracking]
      BY <2>3 DEF Step, CheckoutMain, OnMain
    <3>2. CASE archive' = archive
      BY <3>2
    <3>3. CASE archive' = [archive EXCEPT !.main = @ \cup archive.tracking,
                                          !.files = @ \cup archive.tracking]
      BY <3>3, <1>t DEF ArchiveClone
    <3> QED BY <3>1, <3>2, <3>3
  <2>4. CASE Step("reset", ResetHard, "check")
    BY <2>4, <1>t DEF Step, ResetHard, Untracked, ArchiveClone
  <2> QED BY <2>1, <2>2, <2>3, <2>4
<1>3. Synced'
  <2>1. CASE Step("clone", EnsureArchive, "fetch")
    BY <2>1, <1>1, <1>2 DEF Step, Goto, Synced, Absent, AtCommit, Touched, Retrying, Prepared,
       Uploading, Reset, Fetched
  <2>2. CASE Step("fetch", FetchArchive, "checkout")
    BY <2>2, <1>1, <1>2, <1>t DEF Step, Goto, FetchArchive, ArchiveClone, Synced, Absent, AtCommit,
       Touched, Retrying, Prepared, Uploading, Reset, Fetched
  <2>3. CASE Step("checkout", CheckoutMain, "reset")
    <3>1. archive'.tracking = archive.tracking
      BY <2>3, <1>t DEF Step, CheckoutMain, OnMain, ArchiveClone
    <3> QED BY <2>3, <3>1, <1>1 DEF Step, Goto, Synced, Absent, AtCommit,
       Touched, Retrying, Prepared, Uploading, Reset, Fetched
  <2>4. CASE Step("reset", ResetHard, "check")
    BY <2>4, <1>1, <1>t DEF Step, Goto, ResetHard, ArchiveClone, Synced, Absent, AtCommit,
       Touched, Retrying, Prepared, Uploading, Reset, Fetched
  <2> QED BY <2>1, <2>2, <2>3, <2>4
<1>4. (Sources /\ ImageIsBuilt /\ Unsubmitted)'
  BY <1>1 DEF Sources, ImageIsBuilt, Unsubmitted, Absent, AtCommit, Touched, Prepared
<1>5. Leftovers'
  BY <1>0, <1>1 DEF Leftovers, Leavable, Absent, AtCommit, Touched
<1>6. AllGenuine'
  <2>1. \A s \in Everywhere' : s \in Everywhere
    BY <1>1, <1>2 DEF Everywhere
  <2> QED BY <2>1, <1>0, GenuineKept DEF AllGenuine
<1>7. Traced'
  BY <1>1, <1>2 DEF Traced, Caused, Synced
<1> QED BY <1>0, <1>3, <1>4, <1>5, <1>6, <1>7

(* It prepares the worktree.                                               *)
LEMMA WorktreeInv ==
  ASSUME SInv,
         \/ Step("emu_clone", EnsureWorktree, "emu_fetch")
         \/ Step("emu_fetch", FetchWorktree, "emu_checkout")
         \/ Step("emu_checkout", Checkout(CommitOf[job]), "sync")
         \/ Step("sync", UNCHANGED repos, "modules")
         \/ Step("modules", UpdateSubmodules, "skip")
         \/ UpdateFails
         \/ Step("deinit", DeinitSubmodules, "modules_again")
         \/ Step("modules_again", UpdateSubmodules, "skip")
         \/ Step("skip", UNCHANGED repos, "head")
         \/ Step("head", worktree.head = CommitOf[job] /\ UNCHANGED repos, "work")
  PROVE  SInv'
<1> USE DEF SInv
<1>0. TypeOK' /\ Waiting' /\ Debris \subseteq Debris' /\ Strays \subseteq Strays'
  BY PrepareTypes, Settled, LeftByOthers DEF Prepare, Next
<1>t. worktree \in EmulatorClone /\ (pc # "idle" => CommitOf[job] # NoCommit)
  BY RepoAssumption, SubmissionAssumption DEF TypeOK, RepoTypeOK
<1>1. /\ UNCHANGED <<origin, archive, status, unpublished, job, image>>
      /\ pc \in Absent \ Uploading /\ pc' \in Absent \ Uploading
  BY DEF Step, Goto, jobs, EnsureWorktree, FetchWorktree, Checkout, UpdateSubmodules, UpdateFails,
     DeinitSubmodules, repos, Absent, AtCommit, Touched, Retrying, Prepared, Uploading
<1>2. Sources' /\ Leftovers'
  <2> USE DEF Sources, Leftovers, AtCommit, Touched, Retrying, Prepared, Uploading
  <2>1. CASE Step("emu_clone", EnsureWorktree, "emu_fetch")
    <3>1. pc' = "emu_fetch" /\ worktree' \in {worktree, FreshWorktree}
      BY <2>1 DEF Step, Goto, EnsureWorktree
    <3>2. /\ FreshWorktree.debris = {} /\ FreshWorktree.strays = {}
          /\ FreshWorktree.modules = NoCommit
      BY DEF FreshWorktree, NoWorktree
    <3>3. pc = "emu_clone"
      BY <2>1 DEF Step
    <3> QED BY <1>0, <3>1, <3>2, <3>3 DEF Leavable
  <2>2. CASE Step("emu_fetch", FetchWorktree, "emu_checkout")
    <3>1. /\ pc = "emu_fetch" /\ pc' = "emu_checkout" /\ worktree'.debris = worktree.debris
          /\ worktree'.strays = worktree.strays /\ worktree'.modules = worktree.modules
      BY <2>2, <1>t DEF Step, Goto, FetchWorktree, EmulatorClone
    <3> QED BY <1>0, <3>1 DEF Leavable
  <2>3. CASE Step("emu_checkout", Checkout(CommitOf[job]), "sync")
    <3>1. /\ pc = "emu_checkout" /\ pc' = "sync" /\ worktree'.debris = worktree.debris
          /\ worktree'.strays = worktree.strays /\ worktree'.modules = worktree.modules
          /\ worktree'.head = CommitOf[job]
      BY <2>3, <1>t DEF Step, Goto, Checkout, CheckedOutAt, EmulatorClone
    <3> QED BY <1>0, <1>1, <3>1 DEF Leavable
  <2>4. CASE \/ Step("sync", UNCHANGED repos, "modules")
             \/ Step("skip", UNCHANGED repos, "head")
             \/ Step("head", worktree.head = CommitOf[job] /\ UNCHANGED repos, "work")
    <3>1. /\ UNCHANGED worktree
          /\ pc \in Touched <=> pc' \in Touched
          /\ pc \in Prepared <=> pc' \in Prepared
          /\ pc \notin Retrying /\ pc \in AtCommit
      BY <2>4 DEF Step, Goto, repos
    <3>2. Leavable' = Leavable
      BY <3>1 DEF Leavable
    <3>3. Sources'
      BY <1>1, <3>1
    <3>4. Leftovers'
      BY <1>0, <1>1, <3>1, <3>2
    <3> QED BY <3>3, <3>4
  <2>5. CASE \/ Step("modules", UpdateSubmodules, "skip")
             \/ Step("modules_again", UpdateSubmodules, "skip")
    <3>1. pc \in {"modules", "modules_again"} /\ pc' = "skip" /\ Updated
      BY <2>5 DEF Step, Goto, UpdateSubmodules
    <3>2. worktree.head = CommitOf[job]
      BY <3>1
    <3>3. /\ worktree'.head = CommitOf[job] /\ worktree'.modules = CommitOf[job]
          /\ worktree'.strays \subseteq Leavable \ {CommitOf[job]}
          /\ worktree'.debris \subseteq worktree.debris \ {CommitOf[job]}
      BY <3>1, <3>2, <1>t, UpdatedFields
    <3>4. \A d \in worktree'.debris : d \in Debris
      BY <3>3
    <3>5. \A d \in Leavable' : d \in Strays \/ d = CommitOf[job]
      BY <3>3 DEF Leavable
    <3> QED BY <1>0, <1>1, <3>1, <3>3, <3>4, <3>5
  <2>6. CASE UpdateFails
    <3>1. pc = "modules" /\ pc' = "deinit" /\ WorktreeLeftBy(pc, CommitOf[job])
      BY <2>6 DEF UpdateFails, Goto
    <3>2. worktree.head = CommitOf[job]
      BY <3>1
    <3>3. worktree'.head = worktree.head
      <4>1. \/ worktree' = worktree \/ Updated \/ worktree' = HalfUpdated
        BY <3>1 DEF WorktreeLeftBy
      <4>2. CASE Updated
        BY <4>2, <1>t, UpdatedFields
      <4>3. CASE worktree' = HalfUpdated
        BY <4>3, <1>t DEF HalfUpdated, EmulatorClone
      <4> QED BY <4>1, <4>2, <4>3
    <3>4. /\ \A d \in worktree'.debris : d \in worktree.debris \/ d = CommitOf[job]
          /\ \A d \in Leavable' : d \in Leavable \/ d = CommitOf[job]
      BY <3>1, <3>2, WorktreeLeft
    <3>5. /\ \A d \in worktree'.debris : d \in Debris \/ d = CommitOf[job]
          /\ \A d \in Leavable' : d \in Strays \/ d = CommitOf[job]
      BY <3>1, <3>4
    <3> QED BY <1>0, <1>1, <3>1, <3>2, <3>3, <3>5
  <2>7. CASE Step("deinit", DeinitSubmodules, "modules_again")
    <3>1. pc = "deinit" /\ pc' = "modules_again" /\ (Emptied \/ UNCHANGED worktree)
      BY <2>7 DEF Step, Goto, DeinitSubmodules
    <3>2. /\ worktree'.head = worktree.head
          /\ worktree'.debris \subseteq worktree.debris
          /\ Leavable' \subseteq Leavable
      <4>1. CASE Emptied
        BY <4>1, <1>t, EmptiedFields DEF Leavable
      <4>2. CASE UNCHANGED worktree
        BY <4>2 DEF Leavable
      <4> QED BY <3>1, <4>1, <4>2
    <3> QED BY <1>0, <1>1, <3>1, <3>2
  <2> QED BY <2>1, <2>2, <2>3, <2>4, <2>5, <2>6, <2>7
<1>3. (ImageIsBuilt /\ Unsubmitted)'
  BY <1>1 DEF ImageIsBuilt, Unsubmitted
<1>4. Synced'
  BY <1>1 DEF Synced, Absent, AtCommit, Touched, Retrying, Prepared, Uploading, Reset, Fetched
<1>5. AllGenuine'
  <2>1. Everywhere' = Everywhere
    BY <1>1 DEF Everywhere
  <2> QED BY <2>1, <1>0, GenuineKept DEF AllGenuine
<1>6. Traced'
  BY <1>1 DEF Traced, Caused
<1> QED BY <1>0, <1>2, <1>3, <1>4, <1>5, <1>6

(* The check, after which the archive is known not to have the commit.     *)
LEMMA CheckInv ==
  ASSUME SInv, AlreadySubmitted \/ NotSubmitted
  PROVE  SInv'
<1> USE DEF SInv
<1>0. TypeOK' /\ Waiting' /\ Debris \subseteq Debris' /\ Strays \subseteq Strays'
  BY PrepareTypes, Settled, LeftByOthers DEF Prepare, Next
<1>1. /\ UNCHANGED <<repos, unpublished, image>>
      /\ pc = "check" /\ pc' \in {"idle", "emu_clone"}
  BY DEF AlreadySubmitted, NotSubmitted, Step, jobs, End, Goto
<1>2. Leavable' = Leavable /\ Everywhere' = Everywhere
  BY <1>1 DEF Leavable, Everywhere, repos
<1>3. (Sources /\ Leftovers /\ ImageIsBuilt)'
  BY <1>0, <1>1, <1>2 DEF Sources, Leftovers, ImageIsBuilt, AtCommit, Touched, Retrying, Prepared,
     Uploading, repos
<1>4. AllGenuine'
  BY <1>0, <1>2, GenuineKept DEF AllGenuine
<1>5. Synced'
  BY <1>1 DEF Synced, Absent, AtCommit, Touched, Retrying, Prepared, Uploading, Reset, Fetched, repos
<1>6. CASE AlreadySubmitted
  <2>1. Caused(CommitOf[job])
    BY <1>6 DEF AlreadySubmitted, Exists, Traced
  <2>2. Traced'
    BY <1>1, <1>6, <2>1 DEF AlreadySubmitted, End, Traced, Caused, TypeOK, repos
  <2>3. Unsubmitted'
    BY <1>6 DEF AlreadySubmitted, End, Goto, Unsubmitted, AtCommit, Touched, Retrying, Prepared,
       Uploading, Absent
  <2> QED BY <1>0, <1>3, <1>4, <1>5, <2>2, <2>3
<1>7. CASE NotSubmitted
  <2>1. job \in Forced \cup Capitals \/ ~Exists(job)
    BY <1>7 DEF NotSubmitted, Step
  <2>2. archive.main = origin
    BY <1>1 DEF Synced, Reset
  <2>3. ASSUME job \notin Forced \cup Capitals, NEW t \in origin, t.of = CommitOf[job]
        PROVE  t \in archive.files
    BY <1>1, <2>2, <2>3 DEF Synced, Reset
  <2>4. job \in Forced \cup Capitals \/ \A t \in origin : t.of # CommitOf[job]
    BY <2>1, <2>3 DEF Exists, Named
  <2>5. UNCHANGED <<job, status>>
    BY <1>7 DEF NotSubmitted, Step, jobs
  <2>6. (Traced /\ Unsubmitted)'
    BY <1>1, <2>4, <2>5 DEF Traced, Caused, Unsubmitted, repos
  <2> QED BY <1>0, <1>3, <1>4, <1>5, <2>6
<1> QED BY <1>6, <1>7

-----------------------------------------------------------------------------
(* The upload *)

LEMMA WriteInv ==
  ASSUME SInv, Work \/ Write \/ Commit
  PROVE  SInv'
<1> USE DEF SInv
<1>0. TypeOK' /\ Waiting' /\ Debris \subseteq Debris' /\ Strays \subseteq Strays'
  BY UploadTypes, Settled, LeftByOthers DEF Upload, Next
<1>t. archive \in ArchiveClone /\ worktree \in EmulatorClone
  BY DEF TypeOK, RepoTypeOK
<1>1. /\ UNCHANGED <<origin, worktree, status, job>>
      /\ pc \in {"work", "upload", "commit"} /\ pc' \in Uploading
  BY DEF Work, Write, Commit, Step, jobs, repos, Goto, Uploading
<1>2. Leavable' = Leavable
  BY <1>1 DEF Leavable
<1>3. (Sources /\ Leftovers /\ Unsubmitted)'
  BY <1>0, <1>1, <1>2 DEF Sources, Leftovers, Unsubmitted, Absent, AtCommit, Touched, Retrying,
     Prepared, Uploading
<1>4. CASE Work
  <2>1. /\ pc = "work" /\ pc' = "upload" /\ UNCHANGED <<archive, unpublished>>
        /\ image'.head = worktree.head /\ image'.modules = worktree.modules
        /\ image'.debris = worktree.debris /\ image'.strays = worktree.strays
    BY <1>4 DEF Work, Goto, repos
  <2>2. worktree.debris \subseteq Debris
    BY <2>1 DEF Leftovers, Retrying
  <2>3. CommitOf[job] \notin worktree.strays \cup worktree.debris
    BY <2>1 DEF Sources, Prepared
  <2>4. worktree.strays \subseteq Leavable
    BY <1>t, RepoAssumption DEF Leavable, EmulatorClone
  <2>5. worktree.strays \subseteq Strays
    BY <2>3, <2>4 DEF Leftovers
  <2>6. worktree.head = CommitOf[job] /\ worktree.modules = CommitOf[job]
    BY <2>1 DEF Sources, AtCommit, Touched, Prepared
  <2>7. ImageIsBuilt'
    BY <1>0, <1>1, <2>1, <2>2, <2>3, <2>5, <2>6 DEF ImageIsBuilt, BuiltFrom
  <2>8. Everywhere' = Everywhere
    BY <1>1, <2>1 DEF Everywhere
  <2>9. AllGenuine'
    BY <1>0, <2>8, GenuineKept DEF AllGenuine
  <2>10. (Synced /\ Traced)'
    BY <1>1, <2>1 DEF Synced, Traced, Caused, Absent, AtCommit, Touched, Retrying, Prepared,
       Uploading, Reset, Fetched
  <2> QED BY <1>0, <1>3, <2>7, <2>9, <2>10
<1>g. pc \in {"upload", "commit"} => Genuine(New)
  BY DEF Sources, ImageIsBuilt, Genuine, New, AtCommit, Touched, Prepared, Uploading
<1>5. CASE Write
  <2>1. /\ archive'.files = archive.files \cup {New}
        /\ archive'.main = archive.main /\ archive'.tracking = archive.tracking
        /\ unpublished' = unpublished \cup {New.of}
        /\ pc = "upload" /\ pc' = "commit" /\ UNCHANGED image
    BY <1>5, <1>t DEF Write, New, ArchiveClone, Goto
  <2>2. New' = New
    BY <1>1, <2>1 DEF New
  <2>3. ImageIsBuilt'
    BY <1>0, <1>1, <2>1 DEF ImageIsBuilt, BuiltFrom, Uploading
  <2>4. \A s \in Everywhere' : s \in Everywhere \/ s = New
    BY <1>1, <2>1 DEF Everywhere
  <2>5. \A s \in Everywhere' : Genuine(s)
    BY <1>g, <2>1, <2>4 DEF AllGenuine
  <2>6. AllGenuine'
    BY <1>0, <2>5 DEF AllGenuine, Genuine, BuiltFrom
  <2>7. Traced'
    BY <1>1, <2>1 DEF Traced, Caused
  <2>8. Synced'
    BY <1>1, <2>1, <2>2 DEF Synced, Absent, AtCommit, Touched, Retrying, Prepared, Uploading, Reset,
       Fetched
  <2> QED BY <1>0, <1>3, <2>3, <2>6, <2>7, <2>8
<1>6. CASE Commit
  <2>1. /\ archive'.files = archive.files
        /\ archive'.main = archive.main \cup {New} /\ archive'.tracking = archive.tracking
        /\ pc = "commit" /\ pc' = "push" /\ UNCHANGED <<image, unpublished>>
    BY <1>6, <1>t DEF Commit, Committed, Step, jobs, ArchiveClone, Goto
  <2>2. New' = New
    BY <1>1, <2>1 DEF New
  <2>3. ImageIsBuilt'
    BY <1>0, <1>1, <2>1 DEF ImageIsBuilt, BuiltFrom, Uploading
  <2>4. \A s \in Everywhere' : s \in Everywhere
    BY <1>1, <2>1 DEF Everywhere, Synced
  <2>5. AllGenuine'
    BY <1>0, <2>4, GenuineKept DEF AllGenuine
  <2>6. Traced'
    BY <1>1, <2>1 DEF Traced, Caused, Synced
  <2>7. Synced'
    BY <1>1, <2>1, <2>2 DEF Synced, Absent, AtCommit, Touched, Retrying, Prepared, Uploading, Reset,
       Fetched
  <2> QED BY <1>0, <1>3, <2>3, <2>5, <2>6, <2>7
<1> QED BY <1>4, <1>5, <1>6

LEMMA PublishInv ==
  ASSUME SInv, DryRun \/ NoPush \/ Push \/ PushFails
  PROVE  SInv'
<1> USE DEF SInv
<1>0. TypeOK' /\ Waiting' /\ Debris \subseteq Debris' /\ Strays \subseteq Strays'
  BY UploadTypes, Settled, LeftByOthers DEF Upload, Next
<1>t. archive \in ArchiveClone /\ job \in Jobs
  BY DEF TypeOK, RepoTypeOK, DryRun, NoPush, Push, PushFails
<1>o. job \in Over'
  BY <1>t DEF Over, DryRun, NoPush, Push, PushFails, End, TypeOK
<1>e. /\ pc \in Uploading /\ pc' = "idle" /\ UNCHANGED worktree
      /\ \A j \in Jobs : status'[j] = "already" => status[j] = "already"
  BY DEF DryRun, NoPush, Push, PushFails, Publish, End, Goto, TypeOK, Uploading, repos
<1>l. Leftovers'
  <2>1. /\ \A d \in worktree.debris : d \in Debris
        /\ \A d \in Leavable : d \in Strays \/ d = CommitOf[job]
    BY <1>e DEF Leftovers, Retrying, Uploading
  <2>2. CommitOf[job] \in Strays'
    BY <1>t, <1>o, SubmissionAssumption DEF Strays
  <2> QED BY <1>0, <1>e, <2>1, <2>2 DEF Leftovers, Leavable
<1>1. (Sources /\ Unsubmitted /\ ImageIsBuilt)'
  BY <1>e DEF Sources, Unsubmitted, ImageIsBuilt, AtCommit, Touched, Retrying, Prepared, Uploading,
     Absent
<1>2. CASE DryRun \/ NoPush
  <2>1. UNCHANGED <<repos, unpublished>>
    BY <1>2 DEF DryRun, NoPush
  <2>2. Everywhere' = Everywhere
    BY <2>1 DEF Everywhere, repos
  <2>3. AllGenuine'
    BY <1>0, <2>2, GenuineKept DEF AllGenuine
  <2>4. (Synced /\ Traced)'
    BY <1>e, <2>1 DEF Synced, Traced, Caused, AtCommit, Touched, Retrying, Prepared, Uploading,
       Absent, Reset, Fetched, repos
  <2> QED BY <1>0, <1>l, <1>1, <2>3, <2>4
<1>3. CASE Push \/ PushFails
  <2>1. /\ pc = "push"
        /\ origin' = archive.main
        /\ archive'.main = archive.main /\ archive'.tracking = archive.main
        /\ archive'.files = archive.files
        /\ unpublished' = unpublished \ {New.of}
    BY <1>3, <1>t DEF Push, PushFails, Publish, New, ArchiveClone
  <2>2. archive.main = origin \cup {New}
    BY <2>1 DEF Synced
  <2>3. \A c : Caused(c) => Caused(c)'
    BY <2>1, <2>2 DEF Caused
  <2>4. Traced'
    BY <1>e, <2>1, <2>3 DEF Traced
  <2>5. \A s \in Everywhere' : s \in Everywhere
    BY <2>1 DEF Everywhere
  <2>6. AllGenuine'
    BY <1>0, <2>5, GenuineKept DEF AllGenuine
  <2>7. Synced'
    BY <1>e, <2>1 DEF Synced, AtCommit, Touched, Retrying, Prepared, Uploading, Absent, Reset, Fetched
  <2> QED BY <1>0, <1>l, <1>1, <2>4, <2>6, <2>7
<1> QED BY <1>2, <1>3

-----------------------------------------------------------------------------
(* The end of a job, and its beginning                                     *)

LEMMA DequeueInv ==
  ASSUME SInv, Dequeue \/ Finished
  PROVE  SInv'
<1> USE DEF SInv
<1>0. TypeOK' /\ Waiting' /\ Debris \subseteq Debris' /\ Strays \subseteq Strays'
  BY OtherTypes, Settled, LeftByOthers DEF Next
<1>1. CASE Dequeue
  <2>1. /\ UNCHANGED <<repos, unpublished, image>> /\ pc = "idle" /\ pc' = "clone"
        /\ \A j \in Jobs : status'[j] = "already" => status[j] = "already"
    BY <1>1 DEF Dequeue, Goto, TypeOK
  <2>2. Leavable' = Leavable /\ Everywhere' = Everywhere
    BY <2>1 DEF Leavable, Everywhere, repos
  <2>3. AllGenuine'
    BY <1>0, <2>2, GenuineKept DEF AllGenuine
  <2>4. (Sources /\ ImageIsBuilt /\ Leftovers)'
    BY <1>0, <2>1, <2>2 DEF Sources, ImageIsBuilt, Leftovers, AtCommit, Touched, Retrying, Prepared,
       Uploading, repos
  <2>5. (Synced /\ Unsubmitted /\ Traced)'
    BY <2>1 DEF Synced, Unsubmitted, Traced, Caused, AtCommit, Touched, Retrying, Prepared,
       Uploading, Absent, Reset, Fetched, repos
  <2> QED BY <1>0, <2>3, <2>4, <2>5
<1>2. CASE Finished
  <2>1. Leavable' = Leavable /\ Everywhere' = Everywhere
    BY <1>2 DEF Finished, vars, Leavable, Everywhere, repos
  <2>2. AllGenuine'
    BY <1>0, <2>1, GenuineKept DEF AllGenuine
  <2>3. (Sources /\ ImageIsBuilt /\ Leftovers)'
    BY <1>0, <1>2, <2>1 DEF Finished, vars, repos, Sources, ImageIsBuilt, BuiltFrom, Leftovers
  <2>4. (Synced /\ Unsubmitted /\ Traced)'
    BY <1>2 DEF Finished, vars, repos, Synced, New, Unsubmitted, Traced, Caused
  <2> QED BY <1>0, <2>2, <2>3, <2>4
<1> QED BY <1>1, <1>2

(* A failing command, a refusal and a restart may leave half of what the   *)
(* command at hand was to do; the job is over then.                        *)
LEMMA LeftoversEnd ==
  ASSUME SInv, WorktreeLeftBy(pc, CommitOf[job]), pc' = "idle",
         pc # "idle" => job \in Wrecked',
         Debris \subseteq Debris', Strays \subseteq Strays'
  PROVE  Leftovers'
<1> USE DEF SInv
<1>1. pc \in {"modules", "modules_again"} => worktree.head = CommitOf[job]
  BY DEF Sources, AtCommit, Touched, Retrying
<1>3. CASE pc = "idle"
  <2>1. worktree' = worktree
    BY <1>3, WorktreeLeft
  <2> QED BY <1>3, <2>1 DEF Leftovers, Leavable, Touched, Retrying, Prepared, Uploading
<1>4. CASE pc # "idle"
  <2>1. job \in Wrecked' /\ job \in Over' /\ job \in Jobs /\ CommitOf[job] \in Commits
    BY <1>4, SubmissionAssumption DEF Wrecked, Over
  <2>2. CommitOf[job] \in Debris' /\ NoCommit \in Debris' /\ CommitOf[job] \in Strays'
    BY <2>1 DEF Debris, Strays
  <2>3. \A d \in worktree'.debris : d \in worktree.debris \/ d \in {NoCommit, CommitOf[job]}
    BY <1>1, WorktreeLeft
  <2>4. \A d \in Leavable' : d \in Leavable \/ d = CommitOf[job]
    BY <1>1, WorktreeLeft
  <2>5. \A d \in worktree'.debris : d \in Debris'
    BY <2>2, <2>3 DEF Leftovers
  <2>6. \A d \in Leavable' : d \in Strays'
    BY <2>2, <2>4 DEF Leftovers
  <2> QED BY <2>5, <2>6 DEF Leftovers
<1> QED BY <1>3, <1>4

LEMMA FailInv ==
  ASSUME SInv, StepFails \/ Refused \/ Crash
  PROVE  SInv'
<1> USE DEF SInv
<1>0. TypeOK' /\ Waiting' /\ Debris \subseteq Debris' /\ Strays \subseteq Strays'
  BY OtherTypes, Settled, LeftByOthers DEF Next
<1>1. /\ pc' = "idle" /\ UNCHANGED unpublished
      /\ pc # "idle" => job \in Wrecked'
      /\ \A j \in Jobs : status'[j] = "already" => status[j] = "already"
  BY DEF StepFails, Refused, Crash, End, Goto, Wrecked, TypeOK
<1>2. WorktreeLeftBy(pc, CommitOf[job])
  BY DEF StepFails, Refused, Crash, CutShort, WorktreeLeftBy
<1>3. origin \subseteq origin' /\ origin' \subseteq origin \cup archive.main
  BY DEF StepFails, Refused, Crash, Synced
<1>4. /\ archive'.tracking \subseteq archive.tracking \cup origin
      /\ \A s \in archive'.main \cup archive'.files :
           s \in archive.main \cup archive.files \cup archive.tracking \cup origin
  <2>1. CASE StepFails \/ Crash
    BY <2>1, ArchiveLeft DEF StepFails, Crash, Synced
  <2>2. CASE Refused
    BY <2>2 DEF Refused
  <2> QED BY <2>1, <2>2
<1>5. Leftovers'
  BY <1>0, <1>1, <1>2, LeftoversEnd
<1>6. AllGenuine'
  <2>1. \A s \in Everywhere' : s \in Everywhere
    BY <1>3, <1>4 DEF Everywhere
  <2> QED BY <2>1, <1>0, GenuineKept DEF AllGenuine
<1>7. Traced'
  BY <1>1, <1>3, <1>4 DEF Traced, Caused, Synced
<1>8. (Sources /\ ImageIsBuilt /\ Synced /\ Unsubmitted)'
  BY <1>1, <1>3, <1>4 DEF Sources, ImageIsBuilt, Synced, Unsubmitted, AtCommit, Touched, Retrying,
     Prepared, Uploading, Absent, Reset, Fetched
<1> QED BY <1>0, <1>5, <1>6, <1>7, <1>8

LEMMA NextInv == SInv /\ [Next]_vars => SInv'
<1> SUFFICES ASSUME SInv, [Next]_vars PROVE SInv'
  OBVIOUS
<1>1. CASE Next
  BY <1>1, RequestInv, ArchiveInv, CheckInv, WorktreeInv, WriteInv, PublishInv, DequeueInv, FailInv
     DEF Next, Prepare, Upload
<1>2. CASE UNCHANGED vars
  <2>1. TypeOK'
    BY <1>2 DEF vars, repos, SInv, TypeOK, RepoTypeOK
  <2>2. Waiting'
    BY <1>2 DEF vars, SInv, Waiting
  <2>3. Leavable' = Leavable /\ Debris' = Debris /\ Strays' = Strays /\ Everywhere' = Everywhere
    BY <1>2 DEF vars, repos, Leavable, Debris, Strays, Wrecked, Over, Everywhere
  <2>4. (Sources /\ ImageIsBuilt /\ Leftovers)'
    BY <1>2, <2>3 DEF vars, repos, SInv, Sources, ImageIsBuilt, BuiltFrom, Leftovers
  <2>5. AllGenuine'
    BY <2>3, GenuineKept DEF SInv, AllGenuine
  <2>6. (Synced /\ Unsubmitted /\ Traced)'
    BY <1>2 DEF vars, repos, SInv, Synced, New, Unsubmitted, Traced, Caused
  <2> QED BY <2>1, <2>2, <2>4, <2>5, <2>6 DEF SInv
<1> QED BY <1>1, <1>2

LEMMA Invariant == Spec => []SInv
BY InitInv, NextInv, PTL DEF Spec

-----------------------------------------------------------------------------
(* The theorems *)

(* What is submitted for a commit was built from that commit with its own  *)
(* submodules, although the worktree is shared by all jobs and nothing     *)
(* cleans it; what else was in the directory is of other commits, left by  *)
(* a job that failed or was lost or, submodules, by one that is over.      *)
THEOREM GenuineCorrect == Spec => []SubmissionIsGenuine
<1>1. ASSUME SInv, NEW s \in origin
      PROVE  LET c == CommitOf[s.by]
             IN  /\ s.of = c /\ s.image.head = c /\ s.image.modules = c
                 /\ \A d \in s.image.debris :
                      d # c /\ \E j \in Jobs : /\ status[j] \in {"failed", "lost"}
                                              /\ d \in {CommitOf[j], NoCommit}
                 /\ \A d \in s.image.strays :
                      d # c /\ \E j \in Jobs : /\ status[j] \in {"completed", "failed", "lost"}
                                              /\ d = CommitOf[j]
  <2>1. Genuine(s)
    BY <1>1 DEF SInv, AllGenuine, Everywhere
  <2> QED BY <2>1 DEF Genuine, BuiltFrom, Debris, Strays, Wrecked, Over
<1>2. SInv => SubmissionIsGenuine
  BY <1>1 DEF SubmissionIsGenuine
<1> QED BY <1>2, Invariant, PTL

(* A job that is skipped because its commit was submitted either finds it  *)
(* in the archive, or what an uploader wrote and has not pushed.           *)
THEOREM SkipHasCauseCorrect == Spec => []SkipHasCause
<1>1. SInv => SkipHasCause
  BY DEF SInv, Traced, Caused, SkipHasCause
<1> QED BY <1>1, Invariant, PTL

(* Only a push changes the remote: to what main of the clone is then.      *)
LEMMA OnlyPushed ==
  ASSUME SInv, [Next]_vars
  PROVE  UNCHANGED origin \/ (pc = "push" /\ origin' = origin \cup {New})
<1>1. UNCHANGED origin \/ (pc = "push" /\ origin' = archive.main)
  BY DEF Next, vars, repos, FastPath, Accept, AcceptUnread, Enqueue, Dequeue, Prepare, Step,
     EnsureArchive, FetchArchive, CheckoutMain, ResetHard, AlreadySubmitted, NotSubmitted,
     EnsureWorktree, FetchWorktree, Checkout, UpdateSubmodules, UpdateFails, DeinitSubmodules, Work,
     Upload, DryRun, Write, Commit, NoPush, Push, PushFails, Publish, StepFails, Refused, Crash,
     Finished
<1> QED BY <1>1 DEF SInv, Synced

(* Repeating a request does not submit twice, whatever failed or was cut   *)
(* off before, unless it is forced or spelled in capitals.                 *)
THEOREM SubmittedOnce == Spec => NoDoubleSubmission
<1> DEFINE Once == \A s \in origin' \ origin :
                     s.by \in Forced \cup Capitals \/ \A t \in origin : t.of # CommitOf[s.by]
<1>1. ASSUME SInv, [Next]_vars PROVE Once
  <2>1. CASE UNCHANGED origin
    BY <2>1
  <2>2. CASE pc = "push" /\ origin' = origin \cup {New}
    <3>1. New.by \in Forced \cup Capitals \/ \A t \in origin : t.of # CommitOf[New.by]
      BY <1>1, <2>2 DEF SInv, Unsubmitted, New, Absent, AtCommit, Touched, Prepared, Uploading
    <3> QED BY <2>2, <3>1
  <2> QED BY <1>1, <2>1, <2>2, OnlyPushed
<1>2. SInv /\ [Next]_vars => [Once]_vars
  BY <1>1
<1> QED BY <1>2, Invariant, PTL DEF Spec, NoDoubleSubmission

(* A push publishes the submission of the job that pushes and no other,    *)
(* whatever earlier uploads that failed have left in the clone.            *)
THEOREM OnlyOwnCorrect == Spec => OnlyOwnIsPublished
<1> DEFINE Own == origin' # origin =>
                    /\ origin \subseteq origin'
                    /\ \A s, t \in origin' \ origin : s = t /\ s.by = job
<1>1. ASSUME SInv, [Next]_vars PROVE Own
  <2>1. New.by = job
    BY DEF New
  <2> QED BY <1>1, <2>1, OnlyPushed
<1>2. SInv /\ [Next]_vars => [Own]_vars
  BY <1>1
<1> QED BY <1>2, Invariant, PTL DEF Spec, OnlyOwnIsPublished
=============================================================================
