------------------------------ MODULE GameOutput ------------------------------
(***************************************************************************)
(* The screenshots of one job: what a container leaves in <output>/<id>,   *)
(* what postprocess_output (postprocess.rs) makes of it, and what          *)
(* validate_output (validate.rs) says of the whole before it is uploaded.  *)
(* The games are post-processed by concurrent run workers, each in the     *)
(* directory of its game.                                                  *)
(*                                                                         *)
(* An image is a model value: images are equal iff their pixels are.       *)
(***************************************************************************)
EXTENDS Naturals, Sequences, FiniteSets

CONSTANTS Games,
          Images,    \* what a frame can show
          Solid,     \* those of a single colour, within solid_tolerance
          Broken,    \* a file that does not begin like a PNG
          Torn,      \* one that does, and cannot be decoded
          NoFrame,   \* no file of that name
          MaxIndex,  \* bound: the highest frame number
          Captures,  \* what each game's container may write
          Settings,  \* output_mode and [postprocess] of the emulator
          MaxFaults, \* bound: failures of containers and of the file system
          MaxLost    \* bound: games lost to worker threads that panic

Index == 0..MaxIndex
File  == Images \cup {Broken, Torn}
Frames == [Index -> File \cup {NoFrame}]

(* Files that are no frames: "png" is a PNG whose name is no number,       *)
(* "other" has another extension.                                          *)
Extra == {"png", "other"}

ASSUME OutputAssumption ==
  /\ Solid \subseteq Images
  /\ Broken \notin Images /\ Torn \notin Images /\ Broken # Torn
  /\ NoFrame \notin File
  /\ MaxIndex \in Nat
  /\ Captures \in [Games -> SUBSET [frames : Frames, extra : SUBSET Extra]]
  /\ Settings \subseteq [mode : {"single", "multi"}, removeSolid : BOOLEAN, dedupe : BOOLEAN]
  /\ MaxFaults \in Nat /\ MaxLost \in Nat

VARIABLES cfg,       \* the settings of this job
          pc,        \* where each game is
          dir,       \* does its output directory exist?
          frames,    \* <n>.png in it
          extra,     \* other files in it
          staged,    \* .reindex-<k>.png.tmp in it
          unread,    \* frames postprocess_output has not looked at
          previous,  \* prev_hash: the image that was compared last
          kept,      \* the frames to keep
          captured,  \* what the container wrote, for the properties
          verdict,   \* the end of run_stages, before the upload
          faults     \* failures so far

folder == <<dir, frames, extra, staged>>

vars == <<cfg, pc, folder, unread, previous, kept, captured, verdict, faults>>

Empty == [n \in Index |-> NoFrame]

Init ==
  /\ cfg \in Settings
  /\ pc = [g \in Games |-> "run"]
  /\ dir = [g \in Games |-> FALSE]
  /\ frames = [g \in Games |-> Empty]
  /\ extra = [g \in Games |-> {}]
  /\ staged = [g \in Games |-> <<>>]
  /\ unread = [g \in Games |-> {}]
  /\ previous = [g \in Games |-> NoFrame]
  /\ kept = [g \in Games |-> <<>>]
  /\ captured = [g \in Games |-> Empty]
  /\ verdict = "none"
  /\ faults = 0

Fault == /\ faults < MaxFaults
         /\ faults' = faults + 1

Goto(g, to) == pc' = [pc EXCEPT ![g] = to]

-----------------------------------------------------------------------------
(* run_screenshotter_one creates the directory before the container runs.  *)
RunContainer(g) ==
  /\ pc[g] = "run"
  /\ \E shot \in Captures[g] : /\ frames' = [frames EXCEPT ![g] = shot.frames]
                               /\ captured' = [captured EXCEPT ![g] = shot.frames]
                               /\ extra' = [extra EXCEPT ![g] = shot.extra]
  /\ dir' = [dir EXCEPT ![g] = TRUE]
  /\ Goto(g, "list")
  /\ UNCHANGED <<cfg, staged, unread, previous, kept, verdict, faults>>

Numbers(g) == {n \in Index : frames[g][n] # NoFrame}

(* integer_png_frames                                                      *)
ListFrames(g) ==
  /\ pc[g] = "list"
  /\ unread' = [unread EXCEPT ![g] = Numbers(g)]
  /\ Goto(g, "filter")
  /\ UNCHANGED <<cfg, folder, previous, kept, captured, verdict, faults>>

(* The frames come by number, whatever read_dir's order.                   *)
IsNext(g, n) == n \in unread[g] /\ \A m \in unread[g] : n <= m

IsBlank(f) == cfg.removeSolid /\ f \in Solid

(* image::open fails.                                                      *)
Unreadable == {Broken, Torn}

(* The `?` after image::open.                                              *)
Undecodable(g) ==
  /\ pc[g] = "filter"
  /\ cfg.mode = "multi" \/ cfg.removeSolid
  /\ \E n \in Index : IsNext(g, n) /\ frames[g][n] \in Unreadable
  /\ Goto(g, "failed")
  /\ UNCHANGED <<cfg, folder, unread, previous, kept, captured, verdict, faults>>

(* SinglePng looks at the first frame only.                                *)
KeepFirst(g) ==
  /\ pc[g] = "filter"
  /\ cfg.mode = "single"
  /\ \E n \in Index : /\ IsNext(g, n)
                      /\ cfg.removeSolid => frames[g][n] \notin Unreadable
                      /\ kept' = [kept EXCEPT ![g] =
                                    IF IsBlank(frames[g][n]) THEN <<>> ELSE <<n>>]
  /\ unread' = [unread EXCEPT ![g] = {}]
  /\ UNCHANGED <<cfg, pc, folder, previous, captured, verdict, faults>>

(* filter_frames: one pass that remembers the last frame it compared.      *)
IsRepeat(g, f) == cfg.dedupe /\ f = previous[g]

(* Mutant: a blank frame is remembered as the previous one.                *)
DropAndRemember(g) ==
  /\ pc[g] = "filter"
  /\ cfg.mode = "multi"
  /\ \E n \in Index : /\ IsNext(g, n)
                      /\ IsBlank(frames[g][n]) \/ IsRepeat(g, frames[g][n])
                      /\ unread' = [unread EXCEPT ![g] = @ \ {n}]
                      /\ previous' = [previous EXCEPT ![g] = frames[g][n]]
  /\ UNCHANGED <<cfg, pc, folder, kept, captured, verdict, faults>>

Drop(g) ==
  /\ pc[g] = "filter"
  /\ cfg.mode = "multi"
  /\ \E n \in Index : /\ IsNext(g, n)
                      /\ IsBlank(frames[g][n]) \/ IsRepeat(g, frames[g][n])
                      /\ unread' = [unread EXCEPT ![g] = @ \ {n}]
  /\ UNCHANGED <<cfg, pc, folder, previous, kept, captured, verdict, faults>>

Take(g) ==
  /\ pc[g] = "filter"
  /\ cfg.mode = "multi"
  /\ \E n \in Index :
       LET f == frames[g][n]
       IN  /\ IsNext(g, n)
           /\ f \notin Unreadable /\ ~IsBlank(f) /\ ~IsRepeat(g, f)
           /\ unread' = [unread EXCEPT ![g] = @ \ {n}]
           /\ previous' = [previous EXCEPT ![g] = IF cfg.dedupe THEN f ELSE @]
           /\ kept' = [kept EXCEPT ![g] = Append(@, n)]
  /\ UNCHANGED <<cfg, pc, folder, captured, verdict, faults>>

(* Nothing to keep: the directory goes, ..                                 *)
Skip(g) ==
  /\ pc[g] = "filter"
  /\ unread[g] = {} /\ kept[g] = <<>>
  /\ dir' = [dir EXCEPT ![g] = FALSE]
  /\ frames' = [frames EXCEPT ![g] = Empty]
  /\ extra' = [extra EXCEPT ![g] = {}]
  /\ Goto(g, "skipped")
  /\ UNCHANGED <<cfg, staged, unread, previous, kept, captured, verdict, faults>>

(* .. and if it cannot be removed, nobody notices.                         *)
SkipFault(g) ==
  /\ pc[g] = "filter"
  /\ unread[g] = {} /\ kept[g] = <<>>
  /\ Fault
  /\ Goto(g, "skipped")
  /\ UNCHANGED <<cfg, folder, unread, previous, kept, captured, verdict>>

(* Mutant: the check for kept.is_empty() is missing.                       *)
KeepUnchecked(g) ==
  /\ pc[g] = "filter"
  /\ unread[g] = {}
  /\ Goto(g, "move")
  /\ UNCHANGED <<cfg, folder, unread, previous, kept, captured, verdict, faults>>

Keep(g) ==
  /\ pc[g] = "filter"
  /\ unread[g] = {} /\ kept[g] # <<>>
  /\ Goto(g, "move")
  /\ UNCHANGED <<cfg, folder, unread, previous, kept, captured, verdict, faults>>

-----------------------------------------------------------------------------
(* reindex, in three loops.  The kept frames are renamed out of the way,   *)
MoveAside(g) ==
  /\ pc[g] = "move"
  /\ Len(staged[g]) < Len(kept[g])
  /\ LET n == kept[g][Len(staged[g]) + 1]
     IN  /\ staged' = [staged EXCEPT ![g] = Append(@, frames[g][n])]
         /\ frames' = [frames EXCEPT ![g][n] = NoFrame]
  /\ UNCHANGED <<cfg, pc, dir, extra, unread, previous, kept, captured, verdict, faults>>

(* Mutant: the other frames stay where they are.                           *)
SweepNothing(g) ==
  /\ pc[g] = "move"
  /\ Len(staged[g]) = Len(kept[g])
  /\ Goto(g, "name")
  /\ UNCHANGED <<cfg, folder, unread, previous, kept, captured, verdict, faults>>

(* every .png that is left is removed,                                     *)
Sweep(g) ==
  /\ pc[g] = "move"
  /\ Len(staged[g]) = Len(kept[g])
  /\ frames' = [frames EXCEPT ![g] = Empty]
  /\ extra' = [extra EXCEPT ![g] = @ \ {"png"}]
  /\ Goto(g, "name")
  /\ UNCHANGED <<cfg, dir, staged, unread, previous, kept, captured, verdict, faults>>

(* and the kept ones get their numbers.                                    *)
Name(g) ==
  /\ pc[g] = "name"
  /\ staged[g] # <<>>
  /\ frames' = [frames EXCEPT ![g][Len(kept[g]) - Len(staged[g])] = Head(staged[g])]
  /\ staged' = [staged EXCEPT ![g] = Tail(@)]
  /\ UNCHANGED <<cfg, pc, dir, extra, unread, previous, kept, captured, verdict, faults>>

Rendered(g) ==
  /\ pc[g] = "name"
  /\ staged[g] = <<>>
  /\ Goto(g, "rendered")
  /\ UNCHANGED <<cfg, folder, unread, previous, kept, captured, verdict, faults>>

(* The container fails, or a call of the file system does: the `?` ends    *)
(* the game, and what it has left stays.                                   *)
GameFault(g) ==
  /\ pc[g] \in {"run", "list", "filter", "move", "name"}
  /\ Fault
  /\ Goto(g, "failed")
  /\ UNCHANGED <<cfg, folder, unread, previous, kept, captured, verdict>>

(* The worker thread panics (the watcher of the container cannot be        *)
(* spawned, a decoder panics), or a thread that was to bring it the game:  *)
(* nothing is reported of the game, and what there is of it stays.         *)
Lose(g) ==
  /\ pc[g] \in {"run", "list", "filter"}
  /\ Cardinality({h \in Games : pc[h] = "lost"}) < MaxLost
  /\ Goto(g, "lost")
  /\ UNCHANGED <<cfg, folder, unread, previous, kept, captured, verdict, faults>>

PostProcess(g) == \/ ListFrames(g)
                  \/ Undecodable(g)
                  \/ KeepFirst(g)
                  \/ Drop(g)
                  \/ Take(g)
                  \/ Skip(g)
                  \/ SkipFault(g)
                  \/ Keep(g)
                  \/ MoveAside(g)
                  \/ Sweep(g)
                  \/ Name(g)
                  \/ Rendered(g)
                  \/ GameFault(g)
                  \/ Lose(g)

-----------------------------------------------------------------------------
(* run_stages, after process_games_concurrently                            *)

(* rendered_ids: all but the skipped ones, so that a game nobody reported  *)
(* is among them                                                           *)
RenderedGames == {g \in Games : pc[g] # "skipped"}

(* validate_output for one id: check_png, which looks at the first eight   *)
(* bytes, and the numbering                                                *)
GameIsValid(g) ==
  /\ dir[g]
  /\ extra[g] = {} /\ staged[g] = <<>>
  /\ \A n \in Numbers(g) : frames[g][n] # Broken
  /\ Numbers(g) # {}
  /\ Numbers(g) = 0..(Cardinality(Numbers(g)) - 1)
  /\ cfg.mode = "single" => Numbers(g) = {0}

IsValid == /\ \A g \in Games : dir[g] => g \in RenderedGames
           /\ \A g \in RenderedGames : GameIsValid(g)

Conclude(v) == /\ verdict = "none"
               /\ verdict' = v
               /\ UNCHANGED <<cfg, pc, folder, unread, previous, kept, captured, faults>>

(* process_games_concurrently returns Ok                                   *)
AllReported == \A g \in Games : pc[g] \in {"rendered", "skipped", "lost"}

BatchFailed == /\ \E g \in Games : pc[g] = "failed"
               /\ Conclude("failed")

NothingUsable == /\ AllReported
                 /\ RenderedGames = {}
                 /\ Conclude("nothing")

Validate == /\ AllReported
            /\ RenderedGames # {}
            /\ Conclude(IF IsValid THEN "valid" ELSE "invalid")

Finished == /\ verdict # "none"
            /\ UNCHANGED vars

Next == \/ verdict = "none" /\ \E g \in Games : RunContainer(g) \/ PostProcess(g)
        \/ BatchFailed
        \/ NothingUsable
        \/ Validate
        \/ Finished

Spec == Init /\ [][Next]_vars

-----------------------------------------------------------------------------
(* Correctness *)

(* Every variable has its type, and reindex is never called with nothing   *)
(* to keep.                                                                *)
TypeOK ==
  /\ cfg \in Settings
  /\ pc \in [Games -> {"run", "list", "filter", "move", "name",
                     "rendered", "skipped", "failed", "lost"}]
  /\ dir \in [Games -> BOOLEAN]
  /\ frames \in [Games -> Frames]
  /\ extra \in [Games -> SUBSET Extra]
  /\ staged \in [Games -> Seq(File)]
  /\ unread \in [Games -> SUBSET Index]
  /\ previous \in [Games -> File \cup {NoFrame}]
  /\ kept \in [Games -> Seq(Index)]
  /\ \A g \in Games : pc[g] \in {"move", "name"} => kept[g] # <<>>
  /\ captured \in [Games -> Frames]
  /\ verdict \in {"none", "failed", "nothing", "valid", "invalid"}
  /\ faults \in 0..MaxFaults

(* What should be left of a capture, without a pass over it: the frames    *)
(* that are not blank and differ from the one before them that is not      *)
(* blank either; of a single screenshot, the first frame.                  *)
Usable(g) == {n \in Index : captured[g][n] # NoFrame /\ ~IsBlank(captured[g][n])}

Repeats(g, n) ==
  \E m \in Usable(g) : /\ m < n
                       /\ captured[g][m] = captured[g][n]
                       /\ \A u \in Usable(g) : u <= m \/ u >= n

Wanted(g) ==
  IF cfg.mode = "multi"
    THEN {n \in Usable(g) : cfg.dedupe => ~Repeats(g, n)}
    ELSE {n \in Usable(g) : \A m \in 0..(n - 1) : captured[g][m] = NoFrame}

(* Only a single screenshot that nobody decodes may be torn.               *)
MayBeTorn == cfg.mode = "single" /\ ~cfg.removeSolid

(* What is handed to the uploader holds, of every game, exactly the wanted *)
(* frames, in the order of their capture, numbered from 0 and whole, and   *)
(* no trace of the games that have none (filter_frames and reindex against *)
(* their declarative meaning).  A game whose worker panicked is not held   *)
(* back: its capture is handed over as the container wrote it.             *)
OutputIsWanted ==
  verdict = "valid" =>
    \A g \in Games :
      IF pc[g] = "lost"
        THEN dir[g] /\ frames[g] = captured[g]
        ELSE /\ \A n \in Wanted(g) :
                  frames[g][Cardinality({m \in Wanted(g) : m < n})] = captured[g][n]
             /\ Cardinality(Numbers(g)) = Cardinality(Wanted(g))
             /\ \A n \in Numbers(g) : MayBeTorn \/ frames[g][n] \in Images
             /\ dir[g] <=> Wanted(g) # {}

(* What post-processing leaves is what validation accepts: an invalid      *)
(* output means that a worker panicked, that the directory of a skipped    *)
(* game could not be removed, or that a container wrote a file that is no  *)
(* image where nobody decodes them.                                        *)
RefusalHasCause ==
  verdict = "invalid" =>
    \E g \in Games :
      \/ pc[g] = "lost"
      \/ pc[g] = "skipped" /\ dir[g]
      \/ pc[g] = "rendered" /\ "other" \in extra[g]
      \/ pc[g] = "rendered" /\ MayBeTorn /\ frames[g][0] = Broken
=============================================================================
