----------------------------- MODULE Repositories -----------------------------
(***************************************************************************)
(* The git clones that outlive the jobs (repos.rs): the clone of the       *)
(* archive emu.layle.dev, shared by all jobs and read by the webhook, and  *)
(* the worktree of an emulator.  There is one action for each git command. *)
(* Git is external: a command is modelled by what it does when it works,   *)
(* and by what it may leave when it fails or is killed.                    *)
(***************************************************************************)
CONSTANTS Commits,      \* emulator commits that requests name
          Known,        \* those that the emulator's remote has
          NoCommit,     \* the default branch, or no commit
          Submissions   \* the files under meta/submissions

ASSUME RepoAssumption == Known \subseteq Commits /\ NoCommit \notin Commits

VARIABLES origin,   \* submissions on main of the archive's remote
          archive,  \* the clone of the archive
          worktree  \* the clone of the emulator

repos == <<origin, archive, worktree>>

(* main is what the local branch has, tracking what origin/main has, and   *)
(* files what is in the directory.  lock is an index.lock left behind.     *)
ArchiveClone == [git : BOOLEAN, main : SUBSET Submissions, tracking : SUBSET Submissions,
                 files : SUBSET Submissions, lock : BOOLEAN]

(* head is checked out; has are the commits that were fetched.  modules is *)
(* the commit whose submodules are there.  Git status would list the rest: *)
(* debris are the commits of which commands that were cut short have left  *)
(* files (or, in a submodule, a lock), and strays those of whose           *)
(* submodules directories are left.                                        *)
EmulatorClone == [git : BOOLEAN, has : SUBSET Commits, head : Commits \cup {NoCommit},
                  modules : Commits \cup {NoCommit}, debris : SUBSET (Commits \cup {NoCommit}),
                  strays : SUBSET Commits, lock : BOOLEAN]

NoArchive == [git |-> FALSE, main |-> {}, tracking |-> {}, files |-> {}, lock |-> FALSE]
NoWorktree == [git |-> FALSE, has |-> {}, head |-> NoCommit, modules |-> NoCommit,
               debris |-> {}, strays |-> {}, lock |-> FALSE]

RepoInit == /\ origin = {}
            /\ archive = NoArchive
            /\ worktree = NoWorktree

RepoTypeOK == /\ origin \in SUBSET Submissions
              /\ archive \in ArchiveClone
              /\ worktree \in EmulatorClone

-----------------------------------------------------------------------------
(* prepare_archive_repo                                                    *)

FreshArchive == [git |-> TRUE, main |-> origin, tracking |-> origin, files |-> origin,
                 lock |-> FALSE]

(* ensure_repo goes by .git alone.                                         *)
EnsureArchive ==
  /\ archive' = IF archive.git THEN archive ELSE FreshArchive
  /\ UNCHANGED <<origin, worktree>>

(* Mutant: git fetch without the remote.                                   *)
FetchNothing == UNCHANGED <<origin, archive, worktree>>

FetchArchive ==
  /\ archive' = [archive EXCEPT !.tracking = origin]
  /\ UNCHANGED <<origin, worktree>>

(* In a clone that was torn main begins to exist now.                      *)
OnMain == IF archive.main = {}
            THEN {archive, [archive EXCEPT !.main = @ \cup archive.tracking,
                                           !.files = @ \cup archive.tracking]}
            ELSE {archive}

CheckoutMain ==
  /\ ~archive.lock
  /\ archive' \in OnMain
  /\ UNCHANGED <<origin, worktree>>

(* Mutant: checkout is followed by no reset.                               *)
ResetNothing ==
  /\ ~archive.lock
  /\ UNCHANGED <<origin, archive, worktree>>

(* Files that are not tracked stay.                                        *)
Untracked == archive.files \ archive.main

ResetHard ==
  /\ ~archive.lock
  /\ archive' = [archive EXCEPT !.main = archive.tracking,
                                !.files = Untracked \cup archive.tracking]
  /\ UNCHANGED <<origin, worktree>>

(* The commands above, failing or cut short: nothing is done, or all, or   *)
(* something in between.  A clone that is cut short has a .git all the     *)
(* same, and a killed git leaves its lock.                                 *)
ArchiveLeftBy(command) ==
  \/ UNCHANGED archive
  \/ /\ command = "clone" /\ ~archive.git
     /\ \E m \in {{}, origin} : \E f \in {{}, m}, l \in BOOLEAN :
          archive' = [git |-> TRUE, main |-> m, tracking |-> m, files |-> f, lock |-> l]
  \/ /\ command = "fetch"
     /\ archive' = [archive EXCEPT !.tracking = origin]
  \/ /\ command = "checkout"
     /\ \E a \in OnMain, l \in {archive.lock, TRUE} : archive' = [a EXCEPT !.lock = l]
  \/ /\ command = "reset"
     /\ \E m \in {archive.main, archive.tracking},
          f \in {archive.files, archive.files \cup archive.tracking,
                 Untracked \cup archive.tracking},
          l \in {archive.lock, TRUE} :
          archive' = [archive EXCEPT !.main = m, !.files = f, !.lock = l]

-----------------------------------------------------------------------------
(* prepare_emulator_repo                                                   *)

FreshWorktree == [NoWorktree EXCEPT !.git = TRUE, !.has = Known]

(* A new clone is on the default branch and has no submodules.             *)
EnsureWorktree ==
  /\ worktree' = IF worktree.git THEN worktree ELSE FreshWorktree
  /\ UNCHANGED <<origin, archive>>

FetchWorktree ==
  /\ worktree' = [worktree EXCEPT !.has = Known]
  /\ UNCHANGED <<origin, archive>>

(* Git refuses to overwrite what is in the directory and not in HEAD, if   *)
(* the commit has something in its place.  It may, or may not.             *)
InTheWay(c) == worktree.debris # {} \/ ~(worktree.strays \cup {worktree.modules}
                                           \subseteq {c, NoCommit})

CheckedOutAt(c) == [worktree EXCEPT !.head = c]

(* git checkout without -f: what is not in its way stays, the submodules   *)
(* of the previous commit, too.                                            *)
Checkout(c) ==
  /\ ~worktree.lock
  /\ c \in worktree.has
  /\ worktree' = CheckedOutAt(c)
  /\ UNCHANGED <<origin, archive>>

(* The commits whose submodules' directories may be left in part.          *)
Leavable == (worktree.strays \cup {worktree.modules}) \ {NoCommit}

(* Of HEAD itself nothing is half-written now: git would have refused to   *)
(* check it out, and --force overwrites what is within its submodules.     *)
(* Other directories stay.                                                 *)
Updated ==
  \E s \in SUBSET (Leavable \ {worktree.head}), d \in SUBSET (worktree.debris \ {worktree.head}) :
    worktree' = [worktree EXCEPT !.modules = worktree.head, !.strays = s, !.debris = d]

UpdateSubmodules == Updated /\ UNCHANGED <<origin, archive>>

HalfUpdated == [worktree EXCEPT !.modules = NoCommit,
                                !.strays = Leavable \cup ({worktree.head} \ {NoCommit}),
                                !.debris = @ \cup {worktree.head}]

(* deinit -f --all, whose result is ignored, empties the directories of    *)
(* the submodules that HEAD has, with all that is in them.                 *)
Emptied ==
  \E s \in SUBSET Leavable, d \in SUBSET worktree.debris :
    worktree' = [worktree EXCEPT !.modules = NoCommit, !.strays = s, !.debris = d]

DeinitSubmodules ==
  /\ Emptied \/ UNCHANGED worktree
  /\ UNCHANGED <<origin, archive>>

(* The commands above, failing or cut short.                               *)
WorktreeLeftBy(command, c) ==
  \/ UNCHANGED worktree
  \/ /\ command = "emu_clone" /\ ~worktree.git
     /\ \E h \in {{}, Known}, d \in {{}, {NoCommit}}, l \in BOOLEAN :
          worktree' = [FreshWorktree EXCEPT !.has = h, !.debris = d, !.lock = l]
  \/ /\ command = "emu_fetch"
     /\ worktree' = [worktree EXCEPT !.has = Known]
  \/ /\ command = "emu_checkout" /\ c \in worktree.has
     /\ \/ worktree' = CheckedOutAt(c)
        \/ \E l \in {worktree.lock, TRUE} :
             worktree' = [worktree EXCEPT !.debris = @ \cup {c}, !.lock = l]
  \/ /\ command \in {"modules", "modules_again"}
     /\ Updated \/ worktree' = HalfUpdated
  \/ /\ command = "deinit"
     /\ Emptied
  \/ /\ command = "skip"
     /\ worktree' = [worktree EXCEPT !.lock = TRUE]
=============================================================================
