# A TLA+ development of the emudb orchestrator

emudb renders screenshots of emulator builds. A webhook names an emulator and
a commit; the orchestrator (Rust, `src/src/`) builds the emulator in a docker
image, runs it on every game of a list, filters the screenshots and submits
them to an archive. This directory holds TLA+ specifications of that
orchestrator, the TLC configurations that check them on small instances, and
TLAPS proofs of their most important properties for all instances.

Paths below are relative to the repository. Line numbers are those of the
commit this development was written for; `PROJECT.json` maps every definition
to its lines.

## 1. Inventory

| Component | State | Operations | Interacts with |
|---|---|---|---|
| HTTP API (`src/http.rs`) | none of its own; one future per request | `webhook_run`, `cancel_job`, `get_job`, `list_jobs` | persists in the registry, sends into the queue, reads the local clone of the archive |
| Job registry (`src/state.rs`) | a map under a mutex, `status.json` and `status.json.tmp` per job | `persist`, `get`, `request_cancel`, `remove`, `list` | called by handlers, worker and cleanup task |
| Queue, worker and cleanup task (`src/main.rs`) | an mpsc channel of 64, the job in progress | worker loop, `cleanup_old_jobs` | takes jobs from the queue, reads the registry, calls the pipeline through `spawn_blocking` |
| Pipeline of one job (`src/job.rs`) | its own copy of the `JobStatus` | `run_pipeline`, `run_stages`, `set_stage`, `update_progress` | calls everything below, persists between the steps |
| Game batch (`src/job.rs`) | three channels, a cancel flag, the staged inputs | `process_games_concurrently`, `run_and_postprocess` | two pools of threads and the caller that collects |
| Commands and timeouts (`src/proc.rs`) | a child process, a watcher thread, a channel and a flag per call | `run_logged`, `run_checked`, `run_checked_with_timeout` | used by everything that starts git, docker or uv |
| Docker (`src/docker.rs`) | images and containers, outside | `build_image`, `run_screenshotter_one` | calls `proc.rs` |
| Post-processing (`src/postprocess.rs`) | the output directory of a game | `postprocess_output`, `filter_frames`, `reindex` | called by the run workers |
| Validation (`src/validate.rs`) | none | `validate_output` | called once after the batch |
| Repositories (`src/repos.rs`) | the clone of the archive and a worktree per emulator; both outlive the jobs | `prepare_archive_repo`, `prepare_emulator_repo` | called by the pipeline; the webhook reads the clone meanwhile |
| Upload (`src/upload.rs`) | the submissions in the archive and in its clone | `submission_exists`, `run_uploader` | called by the pipeline, `submission_exists` also by the webhook |
| ROMs and archives (`src/roms.rs`, `src/archive.rs`) | the staging volume | `resolve_games`, `stage_one_game`, `extract_zip`, `pick_anchor` | called by the pipeline and the stage workers |
| Game set (`src/screenshotter.rs`) | none | `load_and_stage_game_set`, `validate_game_set` | called by the pipeline |
| Configuration, errors (`src/config.rs`, `src/error.rs`) | read once | | everywhere |
| Screenshotters (`screenshotters/`) | a process per container: disc, clock, last frame | boot, emulate, write a frame | read the staged file, write numbered images into the game's output directory |
| Clients (`src/dashboard.html`, `scripts/watch_job.py`) | outside | | poll |

Where the behaviour is hard:

- **Concurrency.** Handlers, cancel requests, the worker and the cleanup task
  share the registry. Its mutex covers the map but not the file, and no
  operation that reads and then persists is atomic. Inside a job, two pools of
  threads, a bounded channel and a cancel flag must neither lose games nor
  deadlock. Every container has a watcher thread that races its end.
- **Failure.** Every persist may fail, and most callers ignore it. Threads may
  panic, and the `Err` of their join is dropped. Commands fail, and `reindex`
  can stop half way.
- **Crash.** docker restarts the process (`restart: unless-stopped`). The
  queue is in memory and no job is read back.
- **What earlier jobs left.** The clones, and the staging directory of a game
  whose extraction failed, are used again in whatever state they are in.
- **Time.** The retention period may end while a job is queued, a timeout may
  come before the container it is for.

What makes each component correct:

- Registry: map and file say the same once a persist is over; a record is
  removed only when its job is over; what was acknowledged survives a crash.
- HTTP API, queue, worker: every accepted job ends; a cancelled job is not
  run; pollers see a job move forward only.
- Batch: every game is accounted for exactly once; Ok means that nothing
  failed; a failure ends the batch instead of blocking it; few games are
  staged at once, but for what could not be removed.
- Commands: a verdict fits what the process did; a timeout ends the call.
- Post-processing and validation: what is uploaded is the usable frames, in
  order, but for games whose worker panicked; what is refused is refused for a
  reason.
- Repositories and upload: a submission is built from the commit it names,
  with that commit's submodules; repeating a request does not submit twice; a
  job that is skipped was submitted before; a push publishes its own submission
  and nothing that earlier jobs left; what else was in the build context has a
  cause.
- Game set and staging: each line of the title map gets one ROM and no two
  share an id; a container is given the whole ROM of its game, whatever failed
  attempts left there; staging ends.
- Screenshotters: a directory holds the screenshots of its game, all of them,
  each taken when its number says, and none twice under two numbers.

## 2. Modules

| Module | Models | Builds on |
|---|---|---|
| `BatchOutcome` | abstract: a batch renders, skips, fails or loses each game once and returns Ok or an error accordingly | |
| `GameBatch` | `process_games_concurrently` | implements `BatchOutcome` |
| `GameBatchProofs` | its proofs | |
| `JobRegistry` | `state.rs`: `persist` in its steps, `get`, `remove`, loss of memory | |
| `JobLifecycle` | abstract: what a poller may see of one job after another | |
| `JobService` | `http.rs`, `main.rs`, `run_pipeline`, restart | extends `JobRegistry`, implements `JobLifecycle` |
| `JobServiceProofs` | its types and the durability of accepted jobs | |
| `LifecycleProofs` | what holds of the record of one job: memory and disk, cleanup, the refinement, cancels, owners | extends `JobServiceProofs` |
| `TimedCommand` | `run_checked_with_timeout` and docker under it | |
| `TimedCommandProofs` | its proofs | |
| `GameOutput` | container output, `postprocess.rs`, `rendered_ids`, `validate.rs` | |
| `GameOutputProofs` | its proofs | |
| `Repositories` | `repos.rs`: the two clones, an action for each git command that changes them, what a failed or killed git leaves | |
| `Submission` | the fast path of `http.rs`, `run_stages` from the clones to the upload, `upload.rs`, restarts | extends `Repositories` |
| `SubmissionProofs` | its proofs | |
| `GameSet` | `gamelist.txt` and `titlemap.txt` as operators: `validate_game_set`, the entry a line gets | |
| `GameStaging` | `resolve_games`, `stage_one_game`, `extract_zip`, `pick_anchor` | extends `GameSet` |
| `FrameCapture` | the process in a gecko container | |
| `SaturnCapture` | the process in an ymir container | |
| `GameRun` | the way of each game from the lists to its screenshots | extends `GameStaging`, instantiates `FrameCapture` and `SaturnCapture` over the same variables |
| `GameRunProofs` | proofs about the resolution and the staging of games | |
| `CaptureProofs` | proofs about the screenshots of both workers | extends `GameRunProofs` |
| `MC...` | constants for TLC | |

`run_stages` appears in several modules because no single one could be
checked: `JobService` has the order of its persists, `Submission` the clones,
the image and the upload, `GameRun` what one game goes through, `GameBatch`
how the games share threads, and `GameOutput` what is made of the images.

Definitions whose comment starts with `Mutant:` stand beside the definition
they are a faulty variant of. No action uses them. Each is what a plausible
mistake in the code would make of the definition (`PROJECT.json`, "mutants"),
and substituting it must violate the property it is listed for: this is how we
know that a property can fail.

### GameBatch

| In the model | In `process_games_concurrently` |
|---|---|
| `pending`, `First` | the channel `pending_tx`/`pending_rx`, filled in the order of the list before any thread starts (235-243) |
| `ready` | the channel `ready_tx`/`ready_rx`, with as many slots as there are run workers (236) |
| `progress` | the channel `prog_tx`/`prog_rx`; a set, as every report names its game |
| `cancel` | the `AtomicBool` |
| `readyLock` | the mutex around the ready receiver, held while a run worker waits in `recv` |
| `staged` | the directories under `/staging/<job>` |
| `Free`, `unfreed` | `remove_dir_all` after a success, whose result is dropped (400): the game counts as freed either way. `unfreed` remembers those whose directory is still there |
| `Stage...` actions | the loop of a stage worker (258-279): check the flag, take a game, stage it, send it |
| `Run...` actions | the loop of a run worker (298-325): lock, receive, look at the flag, run or discard, report |
| `Collect...`, `Return` | the caller (329-362) |
| `Panic` | a thread unwinds anywhere in its work; its ends of the channels close |

A stage worker reports an error *and then* raises the flag, in two steps,
because others act in between. `Lost` is what panicked threads take with them.

### JobRegistry and JobService

`persist` is `BeginPersist`, `PersistWrite` (the temporary file),
`PersistRename` and `PersistInsert` (the map). All writers of a job share one
temporary file, so a rename may publish what another writer wrote, or find
nothing (`PersistRenameMissing`). `remove` is `Forget` and then `RemoveDir`.

| In the model | In the code |
|---|---|
| `Receive` .. `Enqueue` | `webhook_run` from the accepted payload on: persist Queued, fast path, `queue_tx.send` |
| `Disconnect` | axum drops the future of a client that hangs up; the only await at which it can is a full queue |
| `CancelRejected/Begins/Ends` | `request_cancel`: read, then persist |
| `Dequeue`, `SkipCancelled`, `Start` | the worker loop and the first persist of `run_pipeline` |
| `SetStage` | every further persist of `run_stages`; results are ignored |
| `Complete`, `AlreadyCompleted`, `Fail` | the three arms of `run_pipeline` |
| `Panic` | `spawn_blocking` returns `Err`, the worker goes on |
| `Cleanup...` | `cleanup_old_jobs`: cutoff, list, and one `remove` after the other |
| `Tick` | a retention period goes by |
| `Crash` | the process dies and is restarted |

A job is named by the request that made it. `IdOf` gives the job id, so that
two requests may get the same one, as they do in the code if they arrive in
the same second for the same emulator and commit prefix.

Two conditions recur in the properties, because the code breaks them
otherwise. `Sole(id)`: no second request has come with this id (two
pipelines would write one `status.json`). `Undisputed(id)`: moreover no cancel of
it has begun, or it was refused; a cancel that begins before the worker has
looked may be overwritten, or overwrite (section 5, `cancel_race`). Both are
conditions on the state and not on the constants, so that a property that
has one still covers a service with shared ids and cancels *elsewhere*, and
every job until the moment it loses the condition.

### TimedCommand

The calling thread (`Spawn`, `WaitEnds`, `Send`, `Join`, `Decide`), the
watcher (`Told`, `Timeout`, `Kill`, `KillMisses`) and the container. A
container takes any time to come up and any time to end. `docker kill` goes by
name: it works only if the container is up. A call without `timeout_seconds`
has no watcher.

### GameOutput

A directory is a function from frame numbers to images, plus the files that
are no frames.

| In the model | In the code |
|---|---|
| `ListFrames`, `IsNext` | `integer_png_frames`: the numbered PNGs, by number |
| `unread`, `previous`, `kept` | how far the loop of `filter_frames` is, `prev_hash`, and its result |
| `KeepFirst` | the arm for `SinglePng` |
| `Drop`, `Take` | one turn of `filter_frames`: the frame is blank or equal to the previous one, or is kept |
| `Undecodable` | the `?` after `image::open` |
| `Skip`, `SkipFault`, `Keep` | `kept.is_empty()`: the directory is removed, or stays without anybody noticing |
| `MoveAside`, `Sweep`, `Name` | the three loops of `reindex`; the first and the last file by file |
| `GameFault` | the container or a call of the file system fails, anywhere before the end |
| `Lose` | a worker panics with the game: the `Err` of its join is dropped (`job.rs:351-356`) and nobody reports it |
| `AllReported`, `RenderedGames` | the batch returned Ok, and `rendered_ids`: every id that was not skipped, lost games included (`job.rs:172-176`) |
| `Unreadable`, `Torn`, `Broken` | what `image::open` refuses; a torn file begins like a PNG, and a broken one does not |
| `Validate`, `GameIsValid` | `validate_output` on `rendered_ids`; `check_png` looks at the first eight bytes, so it passes a torn file |

The pass is modelled frame by frame, as the code has it, and the property
says what it should keep without any pass (`Wanted`). A game is lost before its
container has run, in the container's directory as it stands, or in the middle
of the pass; the loops of `reindex` do not panic. A container whose
worker panicked may run on, and what it writes after that is not modelled.

### Repositories and Submission

| In the model | In the code |
|---|---|
| `archive.main`, `.tracking` | the submissions on the local branch and on `origin/main` as last fetched |
| `archive.files` | the files under `meta/submissions`, tracked or not |
| `.lock` | an `index.lock` that a killed git left |
| `worktree.has`, `.head`, `.modules` | the commits that were fetched, the one that is checked out, and the one whose submodules are there |
| `worktree.debris` | the commits of which failed or killed commands have left half-written files (`NoCommit`: of the default branch) |
| `worktree.strays` | the commits of whose submodules directories are left, although another commit is checked out |
| `EnsureArchive` .. `ResetHard` | the four commands of `prepare_archive_repo` |
| `EnsureWorktree`, `FetchWorktree`, `Checkout` | clone, fetch and checkout of `prepare_emulator_repo` |
| steps `"sync"`, `"modules"`, `"deinit"`, `"modules_again"`, `"skip"` | `submodule_update`: the sync, whose result is ignored; the first update; deinit, ignored as well, and the second update if the first failed; the commands for `skip_submodules`, ignored |
| step `"head"` | the final `rev-parse` |
| `InTheWay`, `Refused` | `git checkout` without `--force` refuses to overwrite what is not of HEAD; whether it must depends on the paths, so it may or may not |
| `ArchiveLeftBy`, `WorktreeLeftBy`, `CutShort` | what the command at hand leaves when it fails or is killed: nothing, all, or a part of what it does |
| `FastPath`, `Accept`, `AcceptUnread` | `webhook_run`: the look at the clone, and its error taken for "no" |
| `Exists` | `submission_exists`: the file name ends in seven letters, then the whole commit is compared |
| `Work`, `image` | everything from the game set to the validated output, with an image built of all that is in the worktree (`docker.rs:47-71`) |
| `Write`, `Commit`, `Push`, `PushFails`, `NoPush`, `DryRun` | the uploader |
| `StepFails` | a command fails for a reason of its own, and leaves `CutShort` |
| `Crash` | the process and its children die, amidst any command |

Two commands that do not change the clones as far as the model goes have a step
and no operator: `git submodule sync` rewrites urls, and `rev-parse` reads. Of
the worktree the model knows *which commit* something is from, and not which
files: that is enough to say whether git may refuse and what an image may hold.
A skipped submodule counts as one that is there.

The uploader is a script of the archive repository, which is not part of this
one. `run_uploader` gives it `--emu-repo`, `--archive-repo`, `--no-push` and
`--dry-run`; the model takes those at their word: it writes a submission for
the HEAD of the worktree, commits that file and no other, and pushes. A push
that was cut off, or an uploader that fails after its push, may or may not
have reached the remote. The archive is pushed to by nobody else in the model.
`unpublished` is not in the code: it remembers what was written and not pushed.

### GameSet, GameStaging and GameRun

| In the model | In the code |
|---|---|
| `set`, `IsValid`, `EntryFor` | the two files, `validate_game_set`, and `stem_to_entry` of `resolve_games` |
| `Illegal` | what `resolve_under_root` refuses |
| `at`, `dir` | where the stage worker of a game is, and the files in `/staging/<job>/<id>` |
| `StageDirect`, `DirectFails` | `stage_direct`: a hard link or a copy, which may stop half way |
| `read`, `Files` | how many members `extract_zip_once` has read, and its `extracted` |
| `SkipDirectory`, `ExtractMember`, `ExtractFails`, `IllegalMember`, `AttemptFails` | `extract_zip_once` and the retries of `extract_zip` around it |
| `Extracted`, `PickAnchor` | the end of `stage_one_game` for archives, and `pick_anchor` |
| `BootContainer`, `RunContainer`, `StopContainer` | `run_screenshotter_one` and the worker program in the container |
| `Free` | `run_and_postprocess` removes the staged files after a success |

A staged file is the entry and the member it is a copy of, so that a property
can say *which* ROM a container was given, and every screenshot carries the
file its disc was loaded from. Any read of the ROM share may fail at any time,
the staging volume is local and does not.

`FrameCapture` is `screenshotter-worker.rs` of gecko-gc and gecko-wii, which
are the same program: a second after boot the first frame, then one every two
seconds, numbered by a counter of its own. `SaturnCapture` is
`worker_driver.cpp` of ymir: the emulator completes frames through a callback,
and every few iterations the driver writes the last one if it is fresh and not
of a single colour. In both a failing write may go unnoticed (`MaxTorn`): the
PNG encoder of gecko is flushed on drop, the results of `fwrite` and `fclose`
are not looked at in ymir.

## 3. Runs

| Run | Question | Instance | Result |
|---|---|---|---|
| `batch` | Is every game accounted for once, does Ok mean complete, are few games staged at once, does the call return? | 4 games, 1 stage worker, 2 run workers, 2 panics, 1 removal that fails | holds while one run worker lives |
| `batch_hang` | Does it always return, as the comment at `job.rs:299` has it? | 3 games, 1+1 threads, 1 panic | violated |
| `lifecycle` | Do pollers see a sane lifecycle across a crash, a failed write and cleanup? | 2 jobs, queue of 1, 1 crash, 1 fault, 1 retention period | holds |
| `live` | Does every accepted job end, and does an acknowledged cancel stick until the worker looks? | 2 jobs, queue of 1, 2 cancels of one job, 1 panic, clients that hang up | holds |
| `cancel_race` | Is a cancelled job never run? | 1 cancel | violated |
| `poll_crash` | Does polling as documented end? | 1 crash | violated |
| `calls` | Is the verdict right, is nothing killed late, does a timeout end the call? | 2 calls, one with a timeout, 2 faults | holds unless the kill misses |
| `missed_kill` | Does the call never block for ever? | 1 call, no fault | violated |
| `output` | Is what validation accepts exactly the wanted frames, and what it refuses refused for a reason? | 2 games, one with any 4 frames, one with at most one image, torn or broken file, all settings, 1 fault, 1 panicked worker | holds, but for lost games |
| `submission` | Is a commit submitted once, from the right sources, and without anything of other jobs? | 4 requests for 3 commits, all modes of upload, 1 failing command, 1 restart | holds |
| `submission_skip` | Does the archive have what a skipped job was skipped for? | the same, with push, 1 failing command, no restart | violated |
| `game_run` | Do the screenshots under an id show the ROM of that id, all and only once, whatever was tried before? | every list of up to 2 games of 9 kinds of entry, both workers, 2 retries, 1 unnoticed write error | holds |

### Why the bounds are enough

- `batch`: two run workers share the mutex around the ready receiver, and
  either may die while the other runs a game, waits in `recv` or waits for the
  mutex. The ready channel has two places. One run worker dead with one game,
  two games in the channel and the fourth with the stage worker: it blocks in
  `send` until the other run worker receives, so the call returns because of
  it and only because of it. The same four games reach the bound of
  `StagingBound`, with and without one that could not be removed, and a failure
  finds games in every place. With both panics spent on run workers the proviso
  of `ReturnsWhileDrained` holds, with one it does not. Two stage workers that
  race for the pending channel are left to the proofs: the safety properties
  are proved for pools of any size.
- `batch_hang`: the smallest instance in which the channel fills up: one game
  is lost with the run worker, one is in the channel, one blocks in `send`.
- `JobService`: a queue of one slot and two requests make the second handler
  wait. Two persists of `run_stages` (`Steps = 2`) distinguish the first
  (after which the job may turn out to be already completed), the last and the
  one between; `live` has one, because cancels race with the first. One crash
  is enough for every cut, as a restart begins with an empty memory whatever
  came before, and the durability proof does not depend on the number.
  `MaxClock = 1` lets every record expire once; the length of a period plays
  no part.
- `lifecycle` has no cancels, because the findings below show that cancel
  breaks what it states; `live` and `cancel_race` are about exactly that. The
  two cancels of `live` share the temporary file of the record.
- `calls`: two calls show that one call's timeout leaves the other alone.
- `output`: four frame numbers are enough for gaps, a blank frame between two
  equal ones, and runs of equal or blank frames. Two images that are not blank
  tell a repeat from a new frame, and may be exchanged (symmetry). The second
  game has at most one frame, with a number that is not its new one: an image, a
  torn or a broken file, next to stray files. Either game may be lost. The proofs
  bound none of this.
- `submission`: a plain request `a` for a commit, a second, `u`, that spells the
  same commit in capitals, a forced one, `f`, for another commit, and `x` for a
  commit that the remote does not have. All commits begin with the same seven
  letters, so that only the second comparison of `submission_exists` tells
  them apart. A request is repeated by `u`, whose capitals hide the submission
  from the check, and the jobs come in any order, so the worktree goes from one
  commit to another and back. One failing command and one restart can both
  happen, at any command of any job, and leave debris, strays and locks in both
  clones; what a third would add (half done, left over, locked) is there
  already. The proofs bound neither.
- `game_run`: every pair of title map lines (malformed, doubled ids, doubled
  stems) against lists that match, are short, doubled or have a stray entry;
  the two ids may be exchanged, so the first line has the first id. Entries: an
  archive for each branch of `pick_anchor` and `extract_zip`, a plain file, an
  absolute path, a file nobody supports, and `..`. Counts are smaller than in
  the code: 2 retries for 5, 2 intervals for 20, 4 iterations for 120, rates of
  5 and 6 frames for 50 and 60, an image every second iteration. The code
  treats all retries alike, and all intervals after the first, so the first,
  an inner and the last are there; an odd rate makes the division by two of
  ymir round.

### Fairness

- `GameBatch`: weak fairness of every thread and of the caller. Threads are
  scheduled by the operating system and the mutex of std is eventually handed
  over; staging and running a game are assumed to return, as every shipped
  `screenshotter.toml` sets `timeout_seconds` (`TimedCommand` says when that
  is not enough). Panics are never obliged to happen.
- `JobService`: weak fairness of handlers, of the steps of a persist and of
  the worker; tokio polls every task that is ready. Nothing obliges clients to
  cancel, the cleanup task to wake up, the clock to move or the process to
  crash.
- `TimedCommand`: weak fairness of the calling thread and of the watcher,
  which includes that a timeout fires. None for the container: an emulator may
  hang for ever.
- `GameRun`: weak fairness of `run_stages` and of each stage worker, which are
  threads that wait for nothing here; none for the containers.

Three runs disable the deadlock check. In `batch` and `batch_hang` a state in
which every run worker has panicked and a stage worker is blocked is a real
deadlock of the code, the one `batch_hang` exhibits; `ReturnsWhileDrained`
says that there is no other. In `game_run` the model stops when the last
container has ended, or hangs.

## 4. Proofs

All theorems hold for every number of games, threads, requests, jobs, calls,
crashes, faults, frames and retries, under the named `ASSUME`s of the modules: constants have
the types their comments say, the kinds of threads are disjoint, and a missing
record is told from every record.

**GameBatch** (`GameBatchProofs`): `TypeCorrect`, `GameInOnePlaceCorrect`,
`CancelHasCauseCorrect`, `OkIsCompleteCorrect`, `StagingBoundCorrect` and
`ImplementsContractCorrect`. That each game is in one place is not inductive
alone: moving a game is safe only if the thread that holds it holds it alone.
The invariant `SInv` adds who holds a game in which state of its thread
(`Holding`), that all places are pairwise disjoint (`Apart`), where the flag
comes from (`Causes`), and that every game is somewhere (`Complete`). The
refinement maps a game to the tally it ends in; every step of a thread is a
step of `BatchOutcome` or a stutter, and the invariant is what shows that a
step of the abstract batch is enabled. For the bound on staged games,
`Complete` says that whatever is staged is in the ready channel or in the hands
of a thread, and `Fits` that the channel is never over its capacity; the rest
is arithmetic of cardinalities. A removal that fails is no failure to the code:
the theorems say what an Ok may leave behind because of it (`unfreed`) and by how
much it exceeds the bound.

**JobService** (`JobServiceProofs`): `TypeCorrect`, and
`AcceptedIsDurableCorrect`: a job that was answered with 202 keeps its
`status.json` for its retention period. Nothing prevents cleanup from deleting
a job it listed earlier, so the proof must show that whatever is on its list
is overdue *for every request with that id*. `DInv` therefore follows the
dates: every record, in the map, in either file or in the hands of a writer,
is dated no earlier than its job was created (`Records`, through `Proper`);
requests that share an id share a creation time (`Clocks`); what cleanup is
about to delete is overdue (`Doomed`); and the file of an answered request is
there or the request is overdue (`Kept`). The theorem does not restrict
`IdOf`, so it covers requests that share an id, which the runs do not.

**The record of one job** (`LifecycleProofs`). Six theorems with three
invariants on top of `DInv`:

- `MemDiskAgreeCorrect`, `CleanupSparesLiveJobsCorrect`, `PollsSeeLifecycle`
  and `ImplementsLifecycleCorrect`. None is inductive, for a reason they
  share: the record of a job is right only because nobody but its owner writes
  it. `CInv` says who is inside `persist`, with which record, at which place of
  its own code (`HandlersWrite`, `CancellersWrite`, `WorkerWrites`), and that an
  accepted job is in the queue once or with the worker (`InOnePlace`). `LInv`
  then follows the record of each job that is `Undisputed`: before its
  first record is in the map there is no other (`FirstRecord`), the map is never
  ahead of the pipeline (`Shown`), the files a persist works on are its own
  (`Undisturbed`), map and file differ only while an insert is due
  (`Agrees`), and whatever is on the list of cleanup is over (`DeletedLate`).
  `PollsSeeLifecycle` is the refinement for one id among shared and cancelled
  ones: a change of what polls see is a move of `JobLifecycle`.
  `ImplementsLifecycleCorrect` is the refinement proper, for services with
  distinct ids and without cancels, which is where `JobLifecycle` has no
  answer for what they see.
- `CancelSticksWhileQueuedCorrect`, by `SticksInv`: it speaks of the cancel from
  the moment its record is in the map, and needs `Courteous`, that nobody
  cancels what was not answered with 202, to know that the handler is done.
- `QueuedHasOwnerCorrect`, by `QInv`: from the moment a job was taken from the
  queue, no queued record of it is left in the temporary file, in the file, in
  the map, or in the hands of a writer, in the order in which a persist moves
  it (`MovesOn`).

**TimedCommand** (`TimedCommandProofs`): `TypeCorrect`, `NoLateKillCorrect`,
`OkIsCleanCorrect` and `NoOrphanCorrect`, from one invariant that ties the
process to its container (`Ended`), the watcher to the flag (`Watched`) and
the verdict to both (`Decided`).

**GameOutput** (`GameOutputProofs`): `TypeOKCorrect`, `OutputIsWantedCorrect` and
`RefusalHasCauseCorrect`. `OInv` has one part for each place of a game
(`GameInv`). During the pass (`Filtering`) what is kept is what is wanted of
the frames read so far, and `previous` is the last usable frame among them
(`Remembers`): this is where a blank frame that is remembered would show.
During `reindex`, what is set aside and what is still there are the kept frames
(`Moving`), and a kept frame never has a number below its new one (`Ascends`),
so that all new numbers exist; afterwards the lowest numbers are the
kept frames (`Naming`). The end is counting: in an ascending sequence the rank
of a frame is its index (`Ranks`). A lost game is still as its container left
it. The two theorems say what validation is worth: a game that was reported as
rendered is exactly what is wanted of its capture, and every file that does not
decode has been noticed before, except where the settings decode none; of a lost
game it may let the raw capture pass. `RefusalHasCause` has no exception for
failures: it lists the only four ways to be refused.

**Submission** (`SubmissionProofs`): `TypeCorrect`, `GenuineCorrect`,
`SkipHasCauseCorrect`, `SubmittedOnce` and `OnlyOwnCorrect`. Each depends on
what the clones hold *at each step of `run_stages`*, and the invariant `SInv`
says just that: from which step on the worktree has the job's commit, and
after the submodule update nothing else of that commit (`Sources`); whatever
else is in the directory was left by this job or by one that is over
(`Leftovers`); the image is of the same (`ImageIsBuilt`); how far the clone of
the archive is from the remote, namely equal from the reset on and one
submission ahead before the push (`Synced`); that past the check the archive does
not have the commit (`Unsubmitted`); that everything `submission_exists` may
find was pushed, or written and not pushed (`Traced`); and that every submission
anywhere is genuine (`AllGenuine`). `Waiting` says that what is in the queue has
not begun, so that a job that is over stays over and goes on being a cause
(`Settled`). What failing commands leave is bounded once for each clone
(`ArchiveLeft`, `WorktreeLeft`). `OnlyOwnCorrect` is `Synced` at the push: main
is the remote and the one submission just committed. `Short` is any function
of commits, so the proof of `SubmittedOnce` does not assume that seven letters
tell commits apart.

**GameRun** (`GameRunProofs`): `ResolvedOneToOneCorrect`, `TypeOKCorrect`,
`StagedInputIsRomCorrect` and `SoundArchiveIsRetriedCorrect`. For the first
the invariant (`RInv`) is only that the games are those of a valid set; the
argument is about the cardinalities that `validate_game_set` counts: each line
has one entry (`EntryOfLine`), each entry one line (`LineOfEntry`), and the
two are inverse. For staging, `StageInv` says of a game that is being extracted
that every path holds the *last* of the members read so far that have it
(`Extracting`, `FinalOfNext`). That speaks only of members of the current
attempt, and this is why rests of failed attempts do no harm: each attempt writes
every path again. `PickAnchor` is shown to find the best anchor by rank and
place, and `GaveUp` says that a game that failed has used all retries.
`StageInv` needs the one-to-one resolution: two games with one id would write to
one directory.

**Screenshots** (`CaptureProofs`): `CaptureIsCompleteCorrect` and
`ShotsAreFreshCorrect`. `DiscInv`: a directory is empty before the container of
its game, and every container has loaded its ROM. `SeriesInv`: a gecko worker is
after some number `m` of intervals, and clock, counter and screenshots are
functions of `m` (`Progress`). `FreshInv`: an ymir worker is after `n`
iterations and `w` times to write, and a fresh frame came after the last of
these (`Running`), so that two screenshots never show the same one.

Two remarks on method. Minima and maxima of sets of naturals (`Min`, `Max`) are
CHOOSE expressions; that they exist follows from the library's theorem that `<` is
well-founded on the naturals, so that no induction is needed. And every theorem
about several games or jobs splits into the steps of the others, which leave the
part of the invariant for this one alone, and its own.

Only model-checked: `ReturnsWhileDrained`, `AcceptedJobsEnd`, `TimedCallsReturn`
and `StagingEnds`. They are liveness properties that need fairness, hence
ENABLED, and are out of reach of the prover. Every invariant and the two refinements
that passing runs check are theorems.

## 5. What the code does differently from what it says

- `batch_hang`: if every run worker panics while games are left, a stage
  worker stays blocked in `send`, holding a `prog_tx`, and the caller in
  `prog_rx.recv()` (`job.rs:332`), before any join. The comment at
  `job.rs:299-302` says that draining prevents this. The caller's own `Arc` of
  the receiver keeps the channel open. The single worker task waits behind it,
  so no further job runs.
- `cancel_race`: between the worker's look at the registry (`main.rs:74`) and
  the first persist of `run_pipeline`, a cancel is accepted and then
  overwritten with Running. `request_cancel` likewise decides on a state it
  read before it persists (`state.rs:145-159`), so that it may overwrite
  Running with Cancelled.
- `poll_crash`: after a restart, jobs that were queued or running keep that
  state, and the polling loop of `README.md:95-96` never ends.
- `missed_kill`: `docker kill` is tried once and its result is ignored. If it
  comes before the container is up, or fails, the call blocks as long as the
  container runs, against `proc.rs:98-100`.
- `submission_skip`: the fast path of the webhook looks at the clone of the
  archive without a pull, while the uploader writes to it. It may find a file
  that was not pushed yet, answer `already_completed`, and the upload then
  fails: the archive has no submission for the commit (`README.md:100-103`).

Further observations, for which there is no run of their own:

- A job cancelled in a long queue loses its record when its retention period
  ends. The worker finds none (`main.rs:74`) and runs the job.
  `CancelSticksWhileQueued` is checked without such a period.
- A submission file that was written and not committed is no file of git:
  `reset --hard` (`repos.rs:86`) leaves it, `submission_exists` finds it, and
  every later job for that commit is `already_completed`. `SkipHasCause`
  therefore allows for what was written and not pushed.
- The suffix of a submission file is compared as the request spelled it
  (`upload.rs:20`), the commit itself without regard to case. A request in
  capitals is submitted again. `NoDoubleSubmission` excepts it.
- A git that is killed may leave `index.lock`. Nothing removes it, and every
  later job fails at `checkout` or `reset`.
- `README.md:94` says that failures are isolated per job. Between emulators they
  are. Within one emulator, a `git clone` that fails while it checks out has
  made a `.git`, which `ensure_repo` takes for a clone, and left files; so may a
  `git checkout` that fails half way. The plain `git checkout` of a later job
  (`repos.rs:204`) may refuse to overwrite them, and nothing ever removes them:
  that job and its repeats fail with no failure of their own. The model has
  these steps (`InTheWay`, `Refused`), and no property excludes them.
- The worktree of an emulator is never reset or cleaned, and the image is built
  of all that is in it. Where git does not refuse, the files that a failed
  checkout of another commit left, and directories of submodules that only an
  earlier commit had, are part of the build context. If the commit is checked
  out already, `git checkout` keeps everything as it is. `SubmissionIsGenuine`
  therefore says of what else an image may hold only whose it is.
- `job.rs:401` logs "freed staged inputs for .." whether or not `remove_dir_all`
  worked. If it did not, the ROM stays on the staging volume, and no failure
  is counted (`OkIsComplete` and `StagingBound` have it as `unfreed`).
- A worker that panics loses its game without an error, and the batch may
  return Ok. `rendered_ids` (`job.rs:172-176`) has the game all the same, and
  validation either refuses the whole job for it or, if its raw frames happen to
  be numbered from 0, hands them over unfiltered.
- `check_png` (`validate.rs:101-115`) looks at the length and the first eight
  bytes. With `single` output and without `remove_single_color` nobody decodes
  the screenshot, and a PNG that was cut off is handed over.
- `archive.rs:14-16` says which errors are not tried again, but the message
  for an illegal path in an archive is not recognised (`archive.rs:43`), and it
  is tried again, like a share that is away. Direct ROMs, read from the same share,
  are never tried again.
- The staged files of a game that fails, is discarded after a cancel, or
  belonged to a thread that panicked stay on the staging volume
  (`job.rs:397`).
- The first number of gecko's screenshots is that of two seconds, the image of
  one; all later numbers are one second ahead as well.

## 6. What is not modelled

- Authentication, payload validation and unknown emulators (`http.rs`): they
  change no state.
- What a record says beyond state, progress and date; logs; the arithmetic of
  `update_progress`; the capture of stdout and stderr and its redaction.
- A torn `status.json.tmp`: a crash in the middle of `fs::write` leaves a file
  that is overwritten before it is renamed.
- `list()` is one step in `CleanupList`; in the code the map is cloned first
  and the files of other jobs are read after it.
- The middle loop of `reindex` is one step: its failure ends the game wherever
  it stops.
- The uploader's own code and the objects it uploads elsewhere: not in the
  repository. What the model assumes of it is in section 2.
- What a container writes after the worker that waits for it has panicked.
- Which files of a worktree are in the way of which commit: git may refuse
  whenever something of another commit is there.
- Several emulators: each has a worktree of its own, and the worker runs one
  job at a time.
- Hard link or copy in `stage_direct`; the same file results. The local staging
  volume does not fail while games are staged. The copies of the lists for the
  job directory.
- How games wait for each other in `GameRun`: each goes its own way there, and
  `GameBatch` is about the pools.
- `build_image` and `dir_revision`: build arguments and a hash. A job's image
  is what the worktree held when `Work` ran.
- In the containers: the buttons pressed, the choice of an IPL, the emulation.
  The disabled screenshotter `iris` and the `run.py` scripts, which are no
  longer entry points.
- Loading of the configuration (`config.rs`), which happens once and before
  anything else, and the error type (`error.rs`).
- The dashboard and `watch_job.py` are clients; `PollingEnds` states what they
  wait for.

## 7. Plan

In this order:

1. Action properties as theorems, without a bound: a screenshot is never
   overwritten by another one, the verdict of a call never changes, a game
   that is freed is not staged again (that a submission never leaves the remote
   is part of `OnlyOwnCorrect`). Each is to be checked by TLC first, and should follow from an
   invariant that is proved already.
2. Progress without fairness, as far as it can be proved: a variant that every step
   of a stage worker decreases, so that `StagingEnds` rests on scheduling alone;
   the same for the caller of a timed command.
3. Absence of deadlock in `GameBatch` while a run worker lives: in every state that
   satisfies `SInv` and in which the caller has not returned, the guard of some
   action holds.
4. Shared job ids as a run: two requests with one id, and the job directory
   they share.
5. `JobService` with the containers of a job, to decide what becomes of them
   across a restart.
