----------------------------- MODULE GameStaging -----------------------------
(***************************************************************************)
(* From the lists of games to the file a container is given: the game set  *)
(* is read and validated (screenshotter.rs), every game is resolved to a   *)
(* ROM under the rom root (roms.rs), and the stage workers put the ROMs    *)
(* into /staging/<job>/<id>, directly or out of a zip (archive.rs).        *)
(*                                                                         *)
(* The ROMs are on a network share, so that any call that reads them may   *)
(* fail at any time.                                                       *)
(***************************************************************************)
EXTENDS GameSet, SequencesExt

CONSTANTS GameSets,       \* what the two files may hold
          MaxGames,       \* bound: their number of lines
          Illegal,        \* entries that are absolute or contain ".."
          Exts,           \* extensions, in lower case
          ExtOf,          \* those of the entries
          Direct,         \* supported_direct
          Archives,       \* supported_archives
          AnchorPriority, \* ANCHOR_PRIORITY
          Names,          \* names in archives
          MembersOf,      \* the content of each entry, if it is an archive
          Retries,        \* EXTRACT_RETRIES
          NoPath, NoFile, Part

Path == [name : Names \cup {"game"}, ext : Exts]

(* The entries of an archive: files, directories, and those whose path     *)
(* sanitize_rel_path refuses.                                              *)
Member == [kind : {"file", "dir", "illegal"}, path : Path]

ASSUME StagingAssumption ==
  /\ MaxGames \in Nat
  /\ \A s \in GameSets : /\ s.gamelist \in Seq(Entries)
                         /\ s.titlemap \in Seq(Title \cup {Malformed})
                         /\ Len(s.titlemap) <= MaxGames
  /\ ExtOf \in [Entries -> Exts]
  /\ Direct \cup Archives \subseteq Exts
  /\ AnchorPriority \in Seq(Exts)
  /\ MembersOf \in [Entries -> Seq(Member)]
  /\ Retries \in Nat

(* A staged file is a whole ROM, a member of one (by its position), or a   *)
(* part of such a file.                                                    *)
File == [entry : Entries, member : Nat] \cup {NoFile, Part}

ASSUME NoPathAssumption == NoPath \notin Path \cup File

Game == [id : GameIds, entry : Entries]

VARIABLES set,       \* gamelist.txt and titlemap.txt
          phase,     \* where run_stages is
          games,     \* the resolved games
          at,        \* where the stage worker of each game is
          dir,       \* the files in /staging/<job>/<id>
          read,      \* members the current attempt has read
          attempt,   \* attempts that failed
          input      \* the file the container is to be given

staging == <<set, phase, games, at, dir, read, attempt, input>>

Slots == 1..MaxGames

StagingInit ==
  /\ set \in GameSets
  /\ phase = "load"
  /\ games = <<>>
  /\ at = [i \in Slots |-> "waiting"]
  /\ dir = [d \in GameIds |-> [p \in Path |-> NoFile]]
  /\ read = [i \in Slots |-> 0]
  /\ attempt = [i \in Slots |-> 0]
  /\ input = [i \in Slots |-> NoPath]

-----------------------------------------------------------------------------
(* run_stages *)

LoadGameSet ==
  /\ phase = "load"
  /\ phase' = IF IsReadable(set.titlemap) /\ IsValid(set.gamelist, set.titlemap)
                THEN "resolve" ELSE "failed"
  /\ UNCHANGED <<set, games, at, dir, read, attempt, input>>

Resolved == [k \in DOMAIN set.titlemap |->
              [id |-> set.titlemap[k].id, entry |-> EntryFor(set.gamelist, set.titlemap[k].stem)]]

(* resolve_games.  Every titlemap line has an entry by now.                *)
ResolveGames ==
  /\ phase = "resolve"
  /\ \A k \in DOMAIN Resolved : Resolved[k].entry \notin Illegal
  /\ games' = Resolved
  /\ at' = [i \in Slots |-> IF i \in DOMAIN Resolved THEN "stage" ELSE "waiting"]
  /\ phase' = "stage"
  /\ UNCHANGED <<set, dir, read, attempt, input>>

(* An illegal path, or a file that does not seem to exist.                 *)
ResolveFails ==
  /\ phase = "resolve"
  /\ phase' = "failed"
  /\ UNCHANGED <<set, games, at, dir, read, attempt, input>>

-----------------------------------------------------------------------------
(* stage_one_game, by the stage worker that has game i                     *)

Rom(i) == games[i].entry

Put(i, p, f) == dir' = [dir EXCEPT ![games[i].id][p] = f]

To(i, place) == at' = [at EXCEPT ![i] = place]

(* classify_ext: direct before archive.                                    *)
IsDirect(i) == ExtOf[Rom(i)] \in Direct
IsArchive(i) == ExtOf[Rom(i)] \in Archives \ Direct

GamePath(i) == [name |-> "game", ext |-> ExtOf[Rom(i)]]

(* stage_direct, by a hard link or a copy                                  *)
StageDirect(i) ==
  /\ at[i] = "stage" /\ IsDirect(i)
  /\ Put(i, GamePath(i), [entry |-> Rom(i), member |-> 0])
  /\ input' = [input EXCEPT ![i] = GamePath(i)]
  /\ To(i, "staged")
  /\ UNCHANGED <<set, phase, games, read, attempt>>

(* The copy fails, perhaps half way, and there is no second attempt.       *)
DirectFails(i) ==
  /\ at[i] = "stage" /\ IsDirect(i)
  /\ \E f \in {NoFile, Part} : Put(i, GamePath(i), f)
  /\ To(i, "failed")
  /\ UNCHANGED <<set, phase, games, read, attempt, input>>

Unsupported(i) ==
  /\ at[i] = "stage" /\ ~IsDirect(i) /\ ~IsArchive(i)
  /\ To(i, "failed")
  /\ UNCHANGED <<set, phase, games, dir, read, attempt, input>>

BeginExtract(i) ==
  /\ at[i] = "stage" /\ IsArchive(i)
  /\ To(i, "extract")
  /\ UNCHANGED <<set, phase, games, dir, read, attempt, input>>

-----------------------------------------------------------------------------
(* extract_zip *)

Unread(i) == read[i] < Len(MembersOf[Rom(i)])

This(i) == MembersOf[Rom(i)][read[i] + 1]

ReadOn(i) == read' = [read EXCEPT ![i] = @ + 1]

SkipDirectory(i) ==
  /\ at[i] = "extract" /\ Unread(i)
  /\ This(i).kind = "dir"
  /\ ReadOn(i)
  /\ UNCHANGED <<set, phase, games, at, dir, attempt, input>>

(* extract_zip_once extracts one member after the other, and truncates     *)
(* what is there already.                                                  *)
ExtractMember(i) ==
  /\ at[i] = "extract" /\ Unread(i)
  /\ This(i).kind = "file"
  /\ Put(i, This(i).path, [entry |-> Rom(i), member |-> read[i] + 1])
  /\ ReadOn(i)
  /\ UNCHANGED <<set, phase, games, at, attempt, input>>

(* Mutant: the last retry is not made.                                     *)
AttemptFailsEarly(i) ==
  /\ read' = [read EXCEPT ![i] = 0]
  /\ IF attempt[i] + 1 < Retries
       THEN attempt' = [attempt EXCEPT ![i] = @ + 1] /\ UNCHANGED at
       ELSE To(i, "failed") /\ UNCHANGED attempt

(* Mutant: one retry more.                                                 *)
AttemptFailsLate(i) ==
  /\ read' = [read EXCEPT ![i] = 0]
  /\ IF attempt[i] <= Retries
       THEN attempt' = [attempt EXCEPT ![i] = @ + 1] /\ UNCHANGED at
       ELSE To(i, "failed") /\ UNCHANGED attempt

(* Mutant: attempts are not counted.                                       *)
AttemptFailsForEver(i) ==
  /\ read' = [read EXCEPT ![i] = 0]
  /\ UNCHANGED <<at, attempt>>

(* The next attempt begins anew, but in the same directory.                *)
AttemptFails(i) ==
  /\ read' = [read EXCEPT ![i] = 0]
  /\ IF attempt[i] < Retries
       THEN attempt' = [attempt EXCEPT ![i] = @ + 1] /\ UNCHANGED at
       ELSE To(i, "failed") /\ UNCHANGED attempt

(* The share fails, when the zip is opened or when a member is read, which *)
(* leaves a part of it.                                                    *)
ExtractFails(i) ==
  /\ at[i] = "extract"
  /\ \/ (Unread(i) \/ read[i] = 0) /\ UNCHANGED dir
     \/ Unread(i) /\ This(i).kind = "file" /\ Put(i, This(i).path, Part)
  /\ AttemptFails(i)
  /\ UNCHANGED <<set, phase, games, input>>

(* is_retryable does not recognise what sanitize_rel_path says.            *)
IllegalMember(i) ==
  /\ at[i] = "extract" /\ Unread(i)
  /\ This(i).kind = "illegal"
  /\ AttemptFails(i)
  /\ UNCHANGED <<set, phase, games, dir, input>>

(* The positions of the files among the first n members of an archive, the *)
(* `extracted` of extract_zip_once; and those with one of some extensions. *)
Files(e, n) == {k \in 1..n : MembersOf[e][k].kind = "file"}

With(e, n, exts) == {k \in Files(e, n) : MembersOf[e][k].path.ext \in exts}

(* Mutant: the order of the archive decides.                               *)
PickFirst(e, n) ==
  IF With(e, n, Direct) = {} THEN {} ELSE {Min(With(e, n, Direct))}

(* pick_anchor: the first file with the best extension that is there, or   *)
(* else with any that is supported.                                        *)
PickAnchor(e, n) ==
  LET best == {j \in DOMAIN AnchorPriority : With(e, n, {AnchorPriority[j]} \cap Direct) # {}}
  IN  IF best # {} THEN {Min(With(e, n, {AnchorPriority[Min(best)]}))}
      ELSE IF With(e, n, Direct) # {} THEN {Min(With(e, n, Direct))}
      ELSE {}

(* An archive without files is not tried again, nor one without an anchor. *)
Extracted(i) ==
  /\ at[i] = "extract" /\ ~Unread(i)
  /\ LET anchor == PickAnchor(Rom(i), read[i])
     IN  \/ anchor = {} /\ To(i, "failed") /\ UNCHANGED input
         \/ \E k \in anchor : /\ input' = [input EXCEPT ![i] = MembersOf[Rom(i)][k].path]
                              /\ To(i, "staged")
  /\ UNCHANGED <<set, phase, games, dir, read, attempt>>

StageOne(i) == \/ StageDirect(i)
               \/ DirectFails(i)
               \/ Unsupported(i)
               \/ BeginExtract(i)
               \/ SkipDirectory(i)
               \/ ExtractMember(i)
               \/ ExtractFails(i)
               \/ IllegalMember(i)
               \/ Extracted(i)

StagingNext == \/ LoadGameSet
               \/ ResolveGames
               \/ ResolveFails
               \/ \E i \in Slots : StageOne(i)

-----------------------------------------------------------------------------
(* Correctness *)

(* Every variable has its type, only games of the set are staged, and the  *)
(* retries are never exceeded.                                             *)
StagingTypeOK ==
  /\ set \in GameSets
  /\ phase \in {"load", "resolve", "stage", "failed"}
  /\ games \in Seq(Game)
  /\ at \in [Slots -> {"waiting", "stage", "extract", "staged", "freed", "failed"}]
  /\ \A i \in Slots : at[i] = "waiting" <=> i \notin DOMAIN games
  /\ dir \in [GameIds -> [Path -> File]]
  /\ read \in [Slots -> Nat]
  /\ attempt \in [Slots -> 0..Retries]
  /\ input \in [Slots -> Path \cup {NoPath}]

(* Every line of titlemap.txt gets the entry with its stem, no two get the *)
(* same, none of gamelist.txt is left over, and no two games share an id,  *)
(* and with it the directories (validate_game_set against resolve_games).  *)
ResolvedOneToOne ==
  phase = "stage" =>
    /\ \A k \in DOMAIN games : StemOf[Rom(k)] = set.titlemap[k].stem
    /\ \A k, l \in DOMAIN games :
         games[k].id = games[l].id \/ Rom(k) = Rom(l) => k = l
    /\ {Rom(k) : k \in DOMAIN games} = ToSet(set.gamelist)

(* Without a pass over the members: the position of the one that a         *)
(* container should be given, by rank of its extension and then by place.  *)
Rank(x) == IF x \in ToSet(AnchorPriority)
             THEN Min({k \in DOMAIN AnchorPriority : AnchorPriority[k] = x})
             ELSE Len(AnchorPriority) + 1

AllFiles(e) == Files(e, Len(MembersOf[e]))

Anchors(e) == {k \in AllFiles(e) : MembersOf[e][k].path.ext \in Direct}

Before(e, k, l) == LET r == Rank(MembersOf[e][k].path.ext)
                       s == Rank(MembersOf[e][l].path.ext)
                   IN  r < s \/ (r = s /\ k < l)

BestAnchor(e) == CHOOSE k \in Anchors(e) : \A l \in Anchors(e) \ {k} : Before(e, k, l)

(* The member that is at the path of another: of several, the last.        *)
Final(e, k) == Max({l \in AllFiles(e) : MembersOf[e][l].path = MembersOf[e][k].path})

(* The file a container is given is the whole ROM of its game: the file    *)
(* itself, or the best anchor with every member of the archive next to it, *)
(* as it is in the archive, whatever failed attempts left there.           *)
StagedInputIsRom ==
  \A i \in Slots : at[i] = "staged" =>
    LET e == Rom(i)
        files == dir[games[i].id]
    IN  IF IsDirect(i) THEN files[input[i]] = [entry |-> e, member |-> 0]
        ELSE /\ input[i] = MembersOf[e][BestAnchor(e)].path
             /\ \A k \in AllFiles(e) :
                  files[MembersOf[e][k].path] = [entry |-> e, member |-> Final(e, k)]

(* A sound archive is given up only when every retry has been used.        *)
IsSound(e) == /\ Anchors(e) # {}
              /\ \A k \in DOMAIN MembersOf[e] : MembersOf[e][k].kind # "illegal"

SoundArchiveIsRetried ==
  \A i \in Slots :
    at[i] = "failed" /\ IsArchive(i) /\ IsSound(Rom(i)) => attempt[i] = Retries

(* Staging ends, however often the share fails.                            *)
StagingEnds ==
  <>(\/ phase = "failed"
     \/ phase = "stage" /\ \A i \in DOMAIN games : at[i] \in {"staged", "freed", "failed"})
=============================================================================
