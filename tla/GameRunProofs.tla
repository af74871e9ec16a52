---------------------------- MODULE GameRunProofs ----------------------------
(* What validate_game_set is worth: for lists of any length, the games of  *)
(* a valid set have an id and a ROM of their own.                          *)
EXTENDS GameRun, FiniteSetTheorems, WellFoundedInduction, TLAPS

LEMMA PositionsFinite ==
  ASSUME NEW T, NEW s \in Seq(T)
  PROVE  IsFiniteSet(DOMAIN s)
<1>1. DOMAIN s = 1..Len(s) /\ Len(s) \in Nat
  OBVIOUS
<1> QED BY <1>1, FS_Interval

(* Every set of naturals has a least one, every bounded one a greatest.    *)
LEMMA LeastOf ==
  ASSUME NEW S, S \subseteq Nat, S # {}
  PROVE  Min(S) \in S /\ \A x \in S : Min(S) <= x
<1> DEFINE R == {ss \in Nat \X Nat : ss[1] < ss[2]}
<1>1. IsWellFoundedOn(R, Nat)
  BY NatLessThanWellFounded, Zenon DEF OpToRel
<1>2. PICK m \in S : \A y \in S : ~(<<y, m>> \in R)
  BY <1>1, WFMin, Zenon
<1>3. ASSUME NEW y \in S PROVE m <= y
  <2>1. <<y, m>> \in Nat \X Nat /\ <<y, m>>[1] = y /\ <<y, m>>[2] = m
    OBVIOUS
  <2>2. ~(y < m)
    BY <1>2, <2>1
  <2> QED BY <2>2
<1> QED BY <1>3 DEF Min

LEMMA GreatestOf ==
  ASSUME NEW n \in Nat, NEW S, S \subseteq 0..n, S # {}
  PROVE  Max(S) \in S /\ \A x \in S : x <= Max(S)
<1> DEFINE D == {n - x : x \in S}
<1>1. D \subseteq Nat /\ D # {}
  <2>1. \A x \in S : n - x \in Nat
    OBVIOUS
  <2> QED BY <2>1
<1>2. PICK m \in D : \A y \in D : m <= y
  BY <1>1, LeastOf
<1>3. PICK x \in S : m = n - x
  OBVIOUS
<1>4. \A y \in S : n - x <= n - y
  BY <1>2, <1>3
<1>5. \A y \in S : y <= x
  BY <1>4
<1> QED BY <1>5 DEF Max

LEMMA OnlyOne ==
  ASSUME NEW S, IsFiniteSet(S), NEW T, T \subseteq S, Cardinality(T) = 1
  PROVE  \E k \in T : T = {k}
BY FS_Subset, FS_Singleton

(* A line of a valid title map has one entry, and EntryFor finds it.       *)
LEMMA EntryOfLine ==
  ASSUME NEW gamelist \in Seq(Entries), NEW titlemap \in Seq(Title \cup {Malformed}),
         IsValid(gamelist, titlemap), NEW k \in DOMAIN titlemap
  PROVE  \E m \in DOMAIN gamelist :
           /\ Matches(gamelist, titlemap[k].stem) = {m}
           /\ EntryFor(gamelist, titlemap[k].stem) = gamelist[m]
<1> DEFINE M == Matches(gamelist, titlemap[k].stem)
<1>1. IsFiniteSet(DOMAIN gamelist) /\ M \subseteq DOMAIN gamelist /\ Cardinality(M) = 1
  BY PositionsFinite DEF Matches, IsValid
<1>2. PICK m \in M : M = {m}
  BY <1>1, OnlyOne
<1>3. m \in DOMAIN gamelist /\ m \in Nat
  BY <1>1
<1>4. (CHOOSE j \in M : \A l \in M : l <= j) = m
  BY <1>2, <1>3
<1> QED BY <1>2, <1>3, <1>4 DEF EntryFor

(* A game of a valid list is named by one line.                            *)
LEMMA LineOfEntry ==
  ASSUME NEW gamelist \in Seq(Entries), NEW titlemap \in Seq(Title \cup {Malformed}),
         IsValid(gamelist, titlemap), NEW m \in DOMAIN gamelist
  PROVE  \E k \in DOMAIN titlemap : References(titlemap, StemOf[gamelist[m]]) = {k}
<1> DEFINE R == References(titlemap, StemOf[gamelist[m]])
<1>1. IsFiniteSet(DOMAIN titlemap) /\ R \subseteq DOMAIN titlemap /\ Cardinality(R) = 1
  BY PositionsFinite DEF References, IsValid
<1> QED BY <1>1, OnlyOne

-----------------------------------------------------------------------------
(* The games, once they are resolved, are those of the lists.              *)
RInv ==
  /\ set \in GameSets
  /\ phase = "resolve" => IsReadable(set.titlemap) /\ IsValid(set.gamelist, set.titlemap)
  /\ phase = "stage" => /\ IsReadable(set.titlemap) /\ IsValid(set.gamelist, set.titlemap)
                        /\ games = Resolved
  /\ phase # "stage" => games = <<>>

LEMMA ResolvedInv == Spec => []RInv
<1>1. Init => RInv
  BY DEF Init, StagingInit, RInv
<1>2. RInv /\ [Next]_vars => RInv'
  <2> SUFFICES ASSUME RInv, [Next]_vars PROVE RInv'
    OBVIOUS
  <2>1. CASE LoadGameSet
    BY <2>1 DEF LoadGameSet, RInv
  <2>2. CASE ResolveGames
    BY <2>2 DEF ResolveGames, RInv, Resolved
  <2>3. CASE ResolveFails
    BY <2>3 DEF ResolveFails, RInv
  <2>4. CASE UNCHANGED <<set, phase, games>>
    BY <2>4 DEF RInv, Resolved
  <2>5. ASSUME NEW i \in Slots, StageOne(i) PROVE UNCHANGED <<set, phase, games>>
    BY <2>5 DEF StageOne, StageDirect, DirectFails, Unsupported, BeginExtract, SkipDirectory,
                ExtractMember, ExtractFails, IllegalMember, Extracted
  <2>6. ASSUME NEW i \in Slots, BootContainer(i) \/ StopContainer(i) \/ RunContainer(i) \/ Free(i)
        PROVE  UNCHANGED <<set, phase, games>>
    BY <2>6 DEF BootContainer, StopContainer, RunContainer, Free, staging
  <2>7. UNCHANGED vars => UNCHANGED <<set, phase, games>>
    BY DEF vars, staging
  <2> QED BY <2>1, <2>2, <2>3, <2>4, <2>5, <2>6, <2>7 DEF Next, StagingNext
<1> QED BY <1>1, <1>2, PTL DEF Spec

LEMMA ValidIsOneToOne ==
  ASSUME RInv
  PROVE  ResolvedOneToOne
<1> DEFINE gamelist == set.gamelist
           titlemap == set.titlemap
<1> SUFFICES ASSUME phase = "stage"
             PROVE  /\ \A k \in DOMAIN games : StemOf[Rom(k)] = titlemap[k].stem
                    /\ \A k, l \in DOMAIN games :
                         games[k].id = games[l].id \/ Rom(k) = Rom(l) => k = l
                    /\ {Rom(k) : k \in DOMAIN games} = ToSet(gamelist)
  BY DEF ResolvedOneToOne
<1>1. gamelist \in Seq(Entries) /\ titlemap \in Seq(Title \cup {Malformed})
  BY StagingAssumption DEF RInv
<1>2. IsValid(gamelist, titlemap) /\ games = Resolved
  BY DEF RInv
<1>3. /\ DOMAIN games = DOMAIN titlemap
      /\ \A k \in DOMAIN titlemap : /\ games[k].id = titlemap[k].id
                                    /\ Rom(k) = EntryFor(gamelist, titlemap[k].stem)
  BY <1>2 DEF Resolved, Rom
<1> HIDE DEF gamelist, titlemap
<1>4. \A k \in DOMAIN titlemap : \E m \in DOMAIN gamelist :
         /\ Matches(gamelist, titlemap[k].stem) = {m}
         /\ Rom(k) = gamelist[m]
  BY <1>1, <1>2, <1>3, EntryOfLine
<1>5. \A k \in DOMAIN titlemap : StemOf[Rom(k)] = titlemap[k].stem
  BY <1>4 DEF Matches
<1>6. ASSUME NEW k \in DOMAIN titlemap, NEW l \in DOMAIN titlemap,
             games[k].id = games[l].id \/ Rom(k) = Rom(l)
      PROVE  k = l
  <2>1. CASE games[k].id = games[l].id
    BY <2>1, <1>2, <1>3 DEF IsValid, UniqueIds
  <2>2. CASE Rom(k) = Rom(l)
    <3>1. PICK m \in DOMAIN gamelist : Rom(k) = gamelist[m]
      BY <1>4
    <3>2. PICK j \in DOMAIN titlemap : References(titlemap, StemOf[gamelist[m]]) = {j}
      BY <1>1, <1>2, LineOfEntry
    <3>3. {k, l} \subseteq References(titlemap, StemOf[gamelist[m]])
      BY <2>2, <3>1, <1>5 DEF References
    <3> QED BY <3>2, <3>3
  <2> QED BY <1>6, <2>1, <2>2
<1>7. {Rom(k) : k \in DOMAIN titlemap} = ToSet(gamelist)
  <2>1. \A k \in DOMAIN titlemap : Rom(k) \in ToSet(gamelist)
    BY <1>4 DEF ToSet
  <2>2. ASSUME NEW m \in DOMAIN gamelist
        PROVE  \E k \in DOMAIN titlemap : Rom(k) = gamelist[m]
    <3>1. PICK k \in DOMAIN titlemap : References(titlemap, StemOf[gamelist[m]]) = {k}
      BY <1>1, <1>2, LineOfEntry
    <3>2. titlemap[k].stem = StemOf[gamelist[m]]
      BY <3>1 DEF References
    <3>3. m \in Matches(gamelist, titlemap[k].stem)
      BY <3>2 DEF Matches
    <3> QED BY <1>4, <3>3
  <2> QED BY <2>1, <2>2 DEF ToSet
<1> QED BY <1>3, <1>5, <1>6, <1>7

(* Every line of titlemap.txt gets the entry with its stem, no two get the *)
(* same, none of gamelist.txt is left over, and no two games share an id,  *)
(* and with it the directories.                                            *)
THEOREM ResolvedOneToOneCorrect == Spec => []ResolvedOneToOne
BY ResolvedInv, ValidIsOneToOne, PTL

-----------------------------------------------------------------------------
(* Types *)

(* No attempt reads past the end of its archive, and a staged game has an  *)
(* input.                                                                  *)
ReadInv ==
  \A i \in Slots : /\ at[i] \in {"waiting", "stage"} => read[i] = 0
                   /\ at[i] # "waiting" => read[i] <= Len(MembersOf[Rom(i)])
                   /\ at[i] = "staged" => input[i] \in Path

TInv == TypeOK /\ RInv /\ ReadInv

LEMMA ResolvedType ==
  ASSUME set \in GameSets, IsReadable(set.titlemap), IsValid(set.gamelist, set.titlemap)
  PROVE  /\ Resolved \in Seq(Game)
         /\ DOMAIN Resolved \subseteq Slots
<1> DEFINE gamelist == set.gamelist
           titlemap == set.titlemap
<1>1. gamelist \in Seq(Entries) /\ titlemap \in Seq(Title \cup {Malformed}) /\ Len(titlemap) \in 0..MaxGames
  BY StagingAssumption
<1>2. \A k \in DOMAIN titlemap : titlemap[k] \in Title
  BY <1>1 DEF IsReadable
<1>3. \A k \in DOMAIN titlemap : EntryFor(gamelist, titlemap[k].stem) \in Entries
  BY <1>1, EntryOfLine
<1>4. /\ Resolved = [k \in 1..Len(titlemap) |->
                        [id |-> titlemap[k].id, entry |-> EntryFor(gamelist, titlemap[k].stem)]]
      /\ DOMAIN titlemap = 1..Len(titlemap)
  BY <1>1 DEF Resolved
<1>5. \A k \in 1..Len(titlemap) : Resolved[k] \in Game
  BY <1>2, <1>3, <1>4 DEF Title, Game
<1>6. Resolved \in [1..Len(titlemap) -> Game]
  BY <1>4, <1>5
<1> HIDE DEF titlemap
<1>7. \A T, n, f : n \in Nat /\ f \in [1..n -> T] => f \in Seq(T)
  OBVIOUS
<1>8. DOMAIN Resolved \subseteq Slots
  BY <1>1, <1>6, StagingAssumption DEF Slots
<1>9. Len(titlemap) \in Nat
  BY <1>1, StagingAssumption
<1> QED BY <1>6, <1>7, <1>8, <1>9

(* A game that a stage worker has, or had.                                 *)
LEMMA GameType ==
  ASSUME StagingTypeOK, NEW i \in Slots, at[i] # "waiting"
  PROVE  /\ i \in DOMAIN games
         /\ games[i].id \in GameIds
         /\ Rom(i) \in Entries
         /\ GamePath(i) \in Path
         /\ MembersOf[Rom(i)] \in Seq(Member)
<1>1. games \in Seq(Game)
  BY DEF StagingTypeOK
<1>2. i \in DOMAIN games
  BY DEF StagingTypeOK
<1>3. games[i] \in Game
  BY <1>1, <1>2
<1> QED BY <1>2, <1>3, StagingAssumption DEF Game, Rom, GamePath, Path

LEMMA MemberType ==
  ASSUME NEW e \in Entries, NEW k \in 1..Len(MembersOf[e])
  PROVE  /\ k \in DOMAIN MembersOf[e]
         /\ MembersOf[e][k] \in Member
         /\ MembersOf[e][k].path \in Path
<1>1. MembersOf[e] \in Seq(Member)
  BY StagingAssumption
<1>2. k \in DOMAIN MembersOf[e] /\ MembersOf[e][k] \in Member
  BY <1>1
<1> QED BY <1>2 DEF Member

LEMMA PutType ==
  ASSUME StagingTypeOK, NEW i \in Slots, at[i] # "waiting", NEW p \in Path, NEW f \in File,
         Put(i, p, f)
  PROVE  dir' \in [GameIds -> [Path -> File]]
<1>1. games[i].id \in GameIds
  BY GameType
<1> QED BY <1>1 DEF StagingTypeOK, Put

LEMMA AttemptFailsType ==
  ASSUME StagingTypeOK, NEW i \in Slots, at[i] = "extract", AttemptFails(i)
  PROVE  /\ read' \in [Slots -> Nat]
         /\ attempt' \in [Slots -> 0..Retries]
         /\ at' \in [Slots -> {"waiting", "stage", "extract", "staged", "freed", "failed"}]
         /\ \A j \in Slots : at'[j] = "waiting" <=> at[j] = "waiting"
         /\ \A j \in Slots : at[j] \in {"staged", "freed"} => at'[j] = at[j]
<1> DEFINE Places == {"waiting", "stage", "extract", "staged", "freed", "failed"}
<1>1. /\ read \in [Slots -> Nat] /\ attempt \in [Slots -> 0..Retries] /\ at \in [Slots -> Places]
      /\ Retries \in Nat
  BY StagingAssumption DEF StagingTypeOK
<1>2. read' \in [Slots -> Nat]
  BY <1>1 DEF AttemptFails
<1>3. attempt' \in [Slots -> 0..Retries]
  BY <1>1 DEF AttemptFails
<1>4. at' = at \/ at' = [at EXCEPT ![i] = "failed"]
  BY DEF AttemptFails, To
<1> QED BY <1>1, <1>2, <1>3, <1>4

LEMMA FilesOf ==
  ASSUME NEW e \in Entries, NEW n \in Nat, NEW X
  PROVE  With(e, n, X) \subseteq Files(e, n) /\ Files(e, n) \subseteq 1..n /\ 1..n \subseteq Nat
BY DEF With, Files

(* The anchor is one of the files that were extracted.                     *)
LEMMA AnchorType ==
  ASSUME NEW e \in Entries, NEW n \in Nat, NEW k \in PickAnchor(e, n)
  PROVE  k \in Files(e, n)
<1> DEFINE best == {j \in DOMAIN AnchorPriority : With(e, n, {AnchorPriority[j]} \cap Direct) # {}}
<1>1. CASE best # {}
  <2>1. best \subseteq Nat
    BY StagingAssumption
  <2>2. Min(best) \in best
    BY <2>1, <1>1, LeastOf
  <2> DEFINE W == With(e, n, {AnchorPriority[Min(best)]})
  <2>3. W # {}
    BY <2>2 DEF With
  <2>4. Min(W) \in W
    BY <2>3, LeastOf, FilesOf
  <2>5. k = Min(W)
    BY <1>1 DEF PickAnchor
  <2> QED BY <2>4, <2>5, FilesOf
<1>2. CASE best = {}
  <2>1. k = Min(With(e, n, Direct)) /\ With(e, n, Direct) # {}
    BY <1>2 DEF PickAnchor
  <2> QED BY <2>1, LeastOf, FilesOf
<1> QED BY <1>1, <1>2
Places == {"waiting", "stage", "extract", "staged", "freed", "failed"}

LEMMA ToType ==
  ASSUME StagingTypeOK, NEW i \in Slots, NEW place \in Places \ {"waiting"}, To(i, place),
         at[i] # "waiting"
  PROVE  /\ at' \in [Slots -> Places]
         /\ at'[i] = place
         /\ \A j \in Slots : j # i => at'[j] = at[j]
         /\ \A j \in Slots : at'[j] = "waiting" <=> at[j] = "waiting"
<1>1. at \in [Slots -> Places]
  BY DEF StagingTypeOK, Places
<1> QED BY <1>1 DEF To, Places

(* The staging of one game leaves the other games alone.                   *)
LEMMA StageOneType ==
  ASSUME StagingTypeOK, ReadInv, NEW i \in Slots, StageOne(i)
  PROVE  /\ UNCHANGED <<set, phase, games>>
         /\ StagingTypeOK'
         /\ ReadInv'
         /\ at[i] \in {"stage", "extract"}
         /\ \A j \in Slots : j # i => at'[j] = at[j]
<1> DEFINE SameGames == UNCHANGED <<set, phase, games>>
           Kept == \A j \in Slots : at'[j] = "waiting" <=> at[j] = "waiting"
           Others == at'[i] # "stage" /\ \A j \in Slots : j # i => at'[j] = at[j]
           HasInput == /\ \A j \in Slots : j # i => input'[j] = input[j]
                       /\ at'[i] = "staged" => input'[i] \in Path
                       /\ input' \in [Slots -> Path \cup {NoPath}]
           Inside == read' \in [Slots -> Nat] /\ read'[i] <= Len(MembersOf[Rom(i)])
<1>1. at \in [Slots -> Places] /\ read \in [Slots -> Nat] /\ input \in [Slots -> Path \cup {NoPath}]
  BY DEF StagingTypeOK, Places
<1>2. SUFFICES /\ SameGames /\ at[i] \in {"stage", "extract"} /\ Kept /\ Others
               /\ at' \in [Slots -> Places]
               /\ dir' \in [GameIds -> [Path -> File]]
               /\ Inside
               /\ \A j \in Slots : j # i => read'[j] = read[j]
               /\ attempt' \in [Slots -> 0..Retries]
               /\ HasInput
  BY DEF ReadInv, Rom, StagingTypeOK, Places
<1>3. at[i] \in {"stage", "extract"}
  BY DEF StageOne, StageDirect, DirectFails, Unsupported, BeginExtract, SkipDirectory,
         ExtractMember, ExtractFails, IllegalMember, Extracted
<1>4. /\ games[i].id \in GameIds /\ Rom(i) \in Entries /\ GamePath(i) \in Path
      /\ {NoFile, Part} \subseteq File
      /\ \A m \in Nat : [entry |-> Rom(i), member |-> m] \in File
  BY <1>3, GameType DEF File
<1>5. Unread(i) => /\ This(i).path \in Path
                   /\ read[i] + 1 \in Nat
  <2>1. read[i] \in Nat /\ MembersOf[Rom(i)] \in Seq(Member)
    BY <1>1, <1>4, StagingAssumption
  <2> QED BY <2>1, <1>4, MemberType DEF Unread, This
<1>16. /\ read[i] \in Nat /\ Len(MembersOf[Rom(i)]) \in Nat
       /\ read[i] <= Len(MembersOf[Rom(i)])
  <2>1. read[i] \in Nat /\ MembersOf[Rom(i)] \in Seq(Member)
    BY <1>1, <1>4, StagingAssumption
  <2>2. read[i] <= Len(MembersOf[Rom(i)])
    BY <1>3 DEF ReadInv
  <2> QED BY <2>1, <2>2
<1>6. CASE StageDirect(i)
  <2>1. dir' \in [GameIds -> [Path -> File]]
    BY <1>3, <1>4, <1>6, PutType DEF StageDirect
  <2>2. at' \in [Slots -> Places] /\ Kept /\ Others
    BY <1>3, <1>6, ToType DEF StageDirect, Places
  <2> QED BY <1>1, <1>3, <1>4, <1>6, <1>16, <2>1, <2>2 DEF StageDirect, StagingTypeOK
<1>7. CASE DirectFails(i)
  <2>1. dir' \in [GameIds -> [Path -> File]]
    BY <1>3, <1>4, <1>7, PutType DEF DirectFails
  <2>2. at' \in [Slots -> Places] /\ Kept /\ Others /\ at'[i] # "staged"
    BY <1>3, <1>7, ToType DEF DirectFails, Places
  <2> QED BY <1>1, <1>3, <1>7, <1>16, <2>1, <2>2 DEF DirectFails, StagingTypeOK
<1>8. CASE Unsupported(i)
  <2>1. at' \in [Slots -> Places] /\ Kept /\ Others /\ at'[i] # "staged"
    BY <1>3, <1>8, ToType DEF Unsupported, Places
  <2> QED BY <1>1, <1>3, <1>8, <1>16, <2>1 DEF Unsupported, StagingTypeOK
<1>9. CASE BeginExtract(i)
  <2>1. at' \in [Slots -> Places] /\ Kept /\ Others /\ at'[i] # "staged"
    BY <1>3, <1>9, ToType DEF BeginExtract, Places
  <2> QED BY <1>1, <1>3, <1>9, <1>16, <2>1 DEF BeginExtract, StagingTypeOK
<1>10. CASE SkipDirectory(i)
  BY <1>1, <1>3, <1>10, <1>16 DEF SkipDirectory, Unread, ReadOn, StagingTypeOK
<1>11. CASE ExtractMember(i)
  <2>1. dir' \in [GameIds -> [Path -> File]]
    BY <1>3, <1>4, <1>5, <1>11, PutType DEF ExtractMember
  <2> QED BY <1>1, <1>3, <1>11, <1>16, <2>1 DEF ExtractMember, Unread, ReadOn, StagingTypeOK
<1>12. ASSUME AttemptFails(i), at[i] = "extract", UNCHANGED <<set, phase, games, input>>,
              dir' \in [GameIds -> [Path -> File]]
       PROVE  /\ SameGames /\ Kept /\ Others
              /\ at' \in [Slots -> Places]
              /\ Inside
              /\ \A j \in Slots : j # i => read'[j] = read[j]
              /\ attempt' \in [Slots -> 0..Retries]
              /\ HasInput
  <2>1. at' = at \/ To(i, "failed")
    BY <1>12 DEF AttemptFails
  <2>2. at' \in [Slots -> Places] /\ Kept /\ Others
    BY <1>1, <1>3, <1>12, <2>1, ToType DEF Places
  <2>3. Inside /\ \A j \in Slots : j # i => read'[j] = read[j]
    BY <1>1, <1>12, <1>16 DEF AttemptFails
  <2>4. attempt' \in [Slots -> 0..Retries]
    BY <1>12, AttemptFailsType
  <2>5. at'[i] # "staged"
    BY <1>1, <1>12, <2>1 DEF To
  <2> QED BY <1>1, <1>12, <2>2, <2>3, <2>4, <2>5
<1>13. CASE ExtractFails(i)
  <2>1. dir' \in [GameIds -> [Path -> File]]
    BY <1>3, <1>4, <1>5, <1>13, PutType DEF ExtractFails, StagingTypeOK
  <2> QED BY <1>3, <1>12, <1>13, <2>1 DEF ExtractFails
<1>14. CASE IllegalMember(i)
  BY <1>3, <1>12, <1>14 DEF IllegalMember, StagingTypeOK
<1>15. CASE Extracted(i)
  <2>1. at' \in [Slots -> Places] /\ Kept /\ Others
    BY <1>3, <1>15, ToType DEF Extracted, Places
  <2>2. \A k \in PickAnchor(Rom(i), read[i]) : MembersOf[Rom(i)][k].path \in Path
    <3> SUFFICES ASSUME NEW k \in PickAnchor(Rom(i), read[i])
                 PROVE  MembersOf[Rom(i)][k].path \in Path
      OBVIOUS
    <3>1. k \in 1..read[i]
      BY <1>1, <1>4, AnchorType DEF Files
    <3>2. k \in 1..Len(MembersOf[Rom(i)])
      BY <3>1, <1>1, <1>4, <1>16
    <3> QED BY <3>2, <1>4, MemberType
  <2>3. HasInput
    BY <1>1, <1>15, <2>2 DEF Extracted, To
  <2>4. UNCHANGED <<set, phase, games, dir, read, attempt>>
    BY <1>15 DEF Extracted
  <2> QED BY <1>1, <1>3, <1>16, <2>1, <2>3, <2>4 DEF StagingTypeOK
<1> QED BY <1>3, <1>6, <1>7, <1>8, <1>9, <1>10, <1>11, <1>13, <1>14, <1>15 DEF StageOne
LEMMA StagingNextType ==
  ASSUME TypeOK, RInv, ReadInv, StagingNext
  PROVE  /\ StagingTypeOK'
         /\ ReadInv'
         /\ \A i \in Slots : at[i] \in {"staged", "freed"} => at'[i] = at[i]
<1>1. StagingTypeOK /\ at \in [Slots -> Places]
  BY DEF TypeOK, StagingTypeOK, Places
<1>2. CASE LoadGameSet
  BY <1>1, <1>2 DEF LoadGameSet, StagingTypeOK, ReadInv, Rom
<1>3. CASE ResolveGames
  <2>1. Resolved \in Seq(Game) /\ DOMAIN Resolved \subseteq Slots
    BY <1>3, ResolvedType DEF RInv, ResolveGames
  <2>2. at' = [i \in Slots |-> IF i \in DOMAIN Resolved THEN "stage" ELSE "waiting"]
    BY <1>3 DEF ResolveGames
  <2>3. at' \in [Slots -> Places] /\ \A i \in Slots : at'[i] \in {"waiting", "stage"}
    BY <2>2 DEF Places
  <2>4. games = <<>> /\ games' = Resolved /\ phase' = "stage"
        /\ UNCHANGED <<set, dir, read, attempt, input>>
    BY <1>3 DEF ResolveGames, RInv
  <2>5. \A i \in Slots : at[i] = "waiting"
    BY <1>1, <2>4 DEF StagingTypeOK
  <2>6. StagingTypeOK'
    BY <1>1, <2>1, <2>2, <2>3, <2>4 DEF StagingTypeOK, Places
  <2>7. ASSUME NEW i \in Slots, at'[i] = "stage" PROVE read'[i] <= Len(MembersOf[Rom(i)'])
    <3>1. i \in DOMAIN Resolved /\ Resolved[i] \in Game
      BY <2>1, <2>2, <2>7
    <3>2. Rom(i)' = Resolved[i].entry
      BY <2>4 DEF Rom
    <3>3. Rom(i)' \in Entries
      BY <3>1, <3>2 DEF Game
    <3>4. Len(MembersOf[Rom(i)']) \in Nat
      BY <3>3, StagingAssumption
    <3>5. read'[i] = 0
      BY <2>4, <2>5 DEF ReadInv
    <3> QED BY <3>4, <3>5
  <2>8. \A i \in Slots : at'[i] \in {"waiting", "stage"} => read'[i] = 0
    BY <2>4, <2>5 DEF ReadInv
  <2>9. ReadInv'
    BY <2>3, <2>7, <2>8 DEF ReadInv, Rom
  <2> QED BY <2>3, <2>5, <2>6, <2>9
<1>4. CASE ResolveFails
  BY <1>1, <1>4 DEF ResolveFails, StagingTypeOK, ReadInv, Rom
<1>5. ASSUME NEW i \in Slots, StageOne(i)
      PROVE  /\ StagingTypeOK' /\ ReadInv'
             /\ \A j \in Slots : at[j] \in {"staged", "freed"} => at'[j] = at[j]
  BY <1>1, <1>5, StageOneType
<1> QED BY <1>2, <1>3, <1>4, <1>5 DEF StagingNext

LEMMA CaptureUnchanged ==
  ASSUME Gecko!CaptureTypeOK, fb \in [Slots -> Ymir!FrameBuffer], UNCHANGED containers
  PROVE  (Gecko!CaptureTypeOK /\ fb \in [Slots -> Ymir!FrameBuffer])'
BY DEF containers, Gecko!CaptureTypeOK, Gecko!Shot

(* The file of a staged game.                                              *)
LEMMA InputType ==
  ASSUME StagingTypeOK, ReadInv, NEW i \in Slots, at[i] = "staged"
  PROVE  games[i].id \in GameIds /\ dir[games[i].id][input[i]] \in File
<1>1. games[i].id \in GameIds /\ input[i] \in Path
  BY GameType DEF ReadInv
<1> QED BY <1>1 DEF StagingTypeOK

-----------------------------------------------------------------------------
(* What a container does                                                   *)

Programs == {"created", "emulating", "writing", "done", "stopped"}

LEMMA BootType ==
  ASSUME Gecko!CaptureTypeOK, NEW i \in Slots, NEW d \in File,
         (Gecko!Boot(i, d) /\ UNCHANGED fb) \/ (Ymir!BootSaturn(i, d) /\ UNCHANGED frame)
  PROVE  /\ Gecko!CaptureTypeOK' /\ UNCHANGED fb
         /\ \A j \in Slots : j # i => proc'[j] = proc[j]
<1>1. /\ proc \in [Slots -> Programs] /\ disc \in [Slots -> File \cup {NoPath}]
      /\ rate \in [Slots -> Rates \cup {0}] /\ clock \in [Slots -> Nat] /\ frame \in [Slots -> Nat]
  BY DEF Gecko!CaptureTypeOK, Programs
<1>2. Rates \subseteq Nat /\ NoPath \notin File
  BY CaptureAssumption, NoPathAssumption
<1>3. PICK r \in Rates : /\ rate' = [rate EXCEPT ![i] = r]
                         /\ clock' = clock \/ clock' = [clock EXCEPT ![i] = r]
                         /\ frame' = frame \/ frame' = [frame EXCEPT ![i] = r * 2]
                         /\ disc' = [disc EXCEPT ![i] = d]
                         /\ proc' = [proc EXCEPT ![i] = "writing"] \/ proc' = [proc EXCEPT ![i] = "emulating"]
                         /\ UNCHANGED <<shots, fb>>
  BY DEF Gecko!Boot, Ymir!BootSaturn, Gecko!Enter, Ymir!Enter
<1>4. /\ rate' \in [Slots -> Rates \cup {0}] /\ clock' \in [Slots -> Nat] /\ frame' \in [Slots -> Nat]
      /\ disc' \in [Slots -> File \cup {NoPath}] /\ proc' \in [Slots -> Programs]
      /\ shots' = shots
  BY <1>1, <1>2, <1>3 DEF Programs
<1>5. \A j \in Slots : disc'[j] = NoPath => proc'[j] \in {"created", "stopped"}
  BY <1>1, <1>2, <1>3 DEF Gecko!CaptureTypeOK
<1> QED BY <1>1, <1>3, <1>4, <1>5 DEF Gecko!CaptureTypeOK, Gecko!Shot, Programs
LEMMA RateType ==
  ASSUME Gecko!CaptureTypeOK, NEW i \in Slots
  PROVE  rate[i] \in Nat
<1>1. rate \in [Slots -> Rates \cup {0}]
  BY DEF Gecko!CaptureTypeOK
<1>2. \A r \in Rates : r \in Nat
  BY CaptureAssumption
<1> QED BY <1>1, <1>2

LEMMA GeckoRunType ==
  ASSUME Gecko!CaptureTypeOK, NEW i \in Slots, NEW o \in GameIds,
         Gecko!Write(i, o) \/ Gecko!Emulate(i) \/ Gecko!Stop(i, o)
  PROVE  Gecko!CaptureTypeOK' /\ \A j \in Slots : j # i => proc'[j] = proc[j]
<1>1. /\ proc \in [Slots -> Programs] /\ disc \in [Slots -> File \cup {NoPath}]
      /\ rate \in [Slots -> Rates \cup {0}] /\ clock \in [Slots -> Nat] /\ frame \in [Slots -> Nat]
      /\ shots \in [GameIds -> SUBSET Gecko!Shot]
      /\ \A c \in Slots : disc[c] = NoPath => proc[c] \in {"created", "stopped"}
  BY DEF Gecko!CaptureTypeOK, Programs
<1>2. rate[i] \in Nat
  BY RateType
<1>3. disc' = disc /\ rate' = rate
  BY DEF Gecko!Write, Gecko!Emulate, Gecko!Stop
<1>4. PICK place \in Programs \ {"created"} :
        /\ proc' = [proc EXCEPT ![i] = place]
        /\ proc[i] = "created" => place = "stopped"
  BY DEF Gecko!Write, Gecko!Emulate, Gecko!Stop, Gecko!Enter, Gecko!Running, Programs
<1>5. /\ proc' \in [Slots -> Programs]
      /\ \A c \in Slots : disc'[c] = NoPath => proc'[c] \in {"created", "stopped"}
  <2>1. proc[i] \in {"created", "stopped"} => place \in {"created", "stopped"}
    BY <1>4 DEF Gecko!Write, Gecko!Emulate, Gecko!Stop, Gecko!Running
  <2> QED BY <1>1, <1>3, <1>4, <2>1
<1>6. clock' \in [Slots -> Nat] /\ frame' \in [Slots -> Nat]
  <2>1. rate[i] * 2 \in Nat
    BY <1>2
  <2>2. clock' = clock \/ clock' = [clock EXCEPT ![i] = @ + rate[i] * 2]
    BY DEF Gecko!Write, Gecko!Emulate, Gecko!Stop
  <2>3. frame' = frame \/ frame' = [frame EXCEPT ![i] = @ + rate[i] * 2]
    BY DEF Gecko!Write, Gecko!Emulate, Gecko!Stop
  <2>4. clock' \in [Slots -> Nat]
    BY <1>1, <2>1, <2>2
  <2>5. frame' \in [Slots -> Nat]
    BY <1>1, <2>1, <2>3
  <2> QED BY <2>4, <2>5
<1>7. ASSUME NEW whole \in BOOLEAN, Gecko!Save(i, o, whole), proc[i] = "writing"
      PROVE  shots' \in [GameIds -> SUBSET Gecko!Shot]
  <2> DEFINE s == [frame |-> frame[i], at |-> clock[i], of |-> disc[i], whole |-> whole]
  <2>1. s \in Gecko!Shot
    BY <1>1, <1>7 DEF Gecko!Shot
  <2>2. shots' = [shots EXCEPT ![o] = {t \in @ : t.frame # frame[i]} \cup {s}]
    BY <1>7 DEF Gecko!Save
  <2> HIDE DEF s
  <2> QED BY <1>1, <2>1, <2>2
<1>8. shots' \in [GameIds -> SUBSET Gecko!Shot]
  BY <1>1, <1>7 DEF Gecko!Write, Gecko!Emulate, Gecko!Stop
<1> QED BY <1>1, <1>3, <1>4, <1>5, <1>6, <1>8 DEF Gecko!CaptureTypeOK, Programs

LEMMA StepType ==
  ASSUME Gecko!CaptureTypeOK, NEW i \in Slots
  PROVE  Ymir!Step(i) \in Nat \ {0}
<1>1. rate[i] \in Nat
  BY RateType
<1>2. rate[i] >= 2 => rate[i] \div 2 \in Nat \ {0}
  BY <1>1
<1> QED BY <1>1, <1>2 DEF Ymir!Step

LEMMA YmirRunType ==
  ASSUME Gecko!CaptureTypeOK, fb \in [Slots -> Ymir!FrameBuffer],
         NEW i \in Slots, NEW o \in GameIds, UNCHANGED frame,
         Ymir!Saturn(i, o) \/ Ymir!StopSaturn(i, o)
  PROVE  /\ Gecko!CaptureTypeOK' /\ fb' \in [Slots -> Ymir!FrameBuffer]
         /\ \A j \in Slots : j # i => proc'[j] = proc[j]
<1>1. /\ proc \in [Slots -> Programs] /\ disc \in [Slots -> File \cup {NoPath}]
      /\ rate \in [Slots -> Rates \cup {0}] /\ clock \in [Slots -> Nat] /\ frame \in [Slots -> Nat]
      /\ shots \in [GameIds -> SUBSET Gecko!Shot]
      /\ \A c \in Slots : disc[c] = NoPath => proc[c] \in {"created", "stopped"}
  BY DEF Gecko!CaptureTypeOK, Programs
<1>2. disc' = disc /\ rate' = rate /\ frame' = frame
  BY DEF Ymir!Saturn, Ymir!Iterate, Ymir!PassOver, Ymir!WriteFrame, Ymir!EndSaturn, Ymir!StopSaturn
<1>3. PICK place \in Programs \ {"created"} :
        /\ proc' = [proc EXCEPT ![i] = place]
        /\ proc[i] = "created" => place = "stopped"
  BY DEF Ymir!Saturn, Ymir!Iterate, Ymir!PassOver, Ymir!WriteFrame, Ymir!EndSaturn, Ymir!StopSaturn,
         Ymir!Leave, Ymir!Enter, Programs
<1>4. /\ proc' \in [Slots -> Programs]
      /\ \A c \in Slots : disc'[c] = NoPath => proc'[c] \in {"created", "stopped"}
  BY <1>1, <1>2, <1>3 DEF Ymir!Saturn, Ymir!Iterate, Ymir!PassOver, Ymir!WriteFrame, Ymir!EndSaturn,
                          Ymir!StopSaturn
<1>5. clock[i] + Ymir!Step(i) \in Nat
  BY <1>1, StepType
<1>6. clock' = clock \/ clock' = [clock EXCEPT ![i] = @ + Ymir!Step(i)] \/ clock' = [clock EXCEPT ![i] = 0]
  BY DEF Ymir!Saturn, Ymir!Iterate, Ymir!PassOver, Ymir!WriteFrame, Ymir!EndSaturn, Ymir!StopSaturn,
         Ymir!Leave
<1>7. clock' \in [Slots -> Nat]
  BY <1>1, <1>5, <1>6
<1>8. \/ fb' = fb
      \/ \E b \in BOOLEAN : fb' = [fb EXCEPT ![i] = [at |-> clock'[i], blank |-> b, fresh |-> TRUE]]
      \/ fb' = [fb EXCEPT ![i].fresh = FALSE]
      \/ fb' = [fb EXCEPT ![i] = Ymir!NoImage]
  BY DEF Ymir!Saturn, Ymir!Iterate, Ymir!PassOver, Ymir!WriteFrame, Ymir!EndSaturn, Ymir!StopSaturn,
         Ymir!Leave, Ymir!Seen
<1>9. fb' \in [Slots -> Ymir!FrameBuffer]
  <2>1. clock'[i] \in Nat
    BY <1>7
  <2>2. \A b \in BOOLEAN : [at |-> clock'[i], blank |-> b, fresh |-> TRUE] \in Ymir!FrameBuffer
    BY <2>1 DEF Ymir!FrameBuffer
  <2>3. Ymir!NoImage \in Ymir!FrameBuffer /\ [fb[i] EXCEPT !.fresh = FALSE] \in Ymir!FrameBuffer
    BY DEF Ymir!FrameBuffer, Ymir!NoImage
  <2> QED BY <1>8, <2>2, <2>3
<1>10. ASSUME NEW whole \in BOOLEAN, Ymir!Save(i, o, whole), proc[i] = "writing"
       PROVE  shots' \in [GameIds -> SUBSET Gecko!Shot]
  <2> DEFINE s == [frame |-> clock[i], at |-> fb[i].at, of |-> disc[i], whole |-> whole]
  <2>1. s \in Gecko!Shot
    BY <1>1, <1>10 DEF Gecko!Shot, Ymir!FrameBuffer
  <2>2. shots' = [shots EXCEPT ![o] = {t \in @ : t.frame # clock[i]} \cup {s}]
    BY <1>10 DEF Ymir!Save
  <2> HIDE DEF s
  <2> QED BY <1>1, <2>1, <2>2
<1>11. shots' \in [GameIds -> SUBSET Gecko!Shot]
  BY <1>1, <1>10 DEF Ymir!Saturn, Ymir!Iterate, Ymir!PassOver, Ymir!WriteFrame, Ymir!EndSaturn, Ymir!StopSaturn
<1> QED BY <1>1, <1>2, <1>3, <1>4, <1>7, <1>9, <1>11 DEF Gecko!CaptureTypeOK, Programs
-----------------------------------------------------------------------------
(* A step of a container takes place while its game is staged, and changes *)
(* nothing else.                                                           *)
ContainerStep(i) == BootContainer(i) \/ StopContainer(i) \/ RunContainer(i)

LEMMA ContainerType ==
  ASSUME TypeOK, ReadInv, NEW i \in Slots, ContainerStep(i)
  PROVE  TypeOK' /\ ReadInv' /\ UNCHANGED <<staging, worker>>
<1>1. at[i] = "staged" /\ UNCHANGED <<staging, worker>>
  BY DEF ContainerStep, BootContainer, StopContainer, RunContainer
<1>2. StagingTypeOK /\ StagingTypeOK' /\ ReadInv'
  BY <1>1 DEF TypeOK, staging, StagingTypeOK, ReadInv, Rom
<1>3. Out(i) \in GameIds /\ dir[games[i].id][input[i]] \in File
  BY <1>1, <1>2, InputType DEF Out
<1>4. /\ Gecko!CaptureTypeOK' /\ fb' \in [Slots -> Ymir!FrameBuffer]
      /\ \A j \in Slots : j # i => proc'[j] = proc[j]
  <2>1. Gecko!CaptureTypeOK /\ fb \in [Slots -> Ymir!FrameBuffer]
    BY DEF TypeOK
  <2>2. CASE BootContainer(i)
    <3> DEFINE d == dir[games[i].id][input[i]]
    <3>1. (Gecko!Boot(i, d) /\ UNCHANGED fb) \/ (Ymir!BootSaturn(i, d) /\ UNCHANGED frame)
      BY <2>2 DEF BootContainer
    <3> HIDE DEF d
    <3>2. Gecko!CaptureTypeOK' /\ UNCHANGED fb /\ \A j \in Slots : j # i => proc'[j] = proc[j]
      BY <1>3, <2>1, <3>1, BootType DEF d
    <3> QED BY <2>1, <3>2
  <2>3. CASE StopContainer(i)
    BY <1>3, <2>1, <2>3, GeckoRunType, YmirRunType DEF StopContainer
  <2>4. CASE RunContainer(i)
    BY <1>3, <2>1, <2>4, GeckoRunType, YmirRunType DEF RunContainer
  <2> QED BY <2>2, <2>3, <2>4 DEF ContainerStep
<1> QED BY <1>1, <1>2, <1>4 DEF TypeOK, staging

LEMMA FreeType ==
  ASSUME TypeOK, ReadInv, NEW i \in Slots, Free(i)
  PROVE  TypeOK' /\ ReadInv' /\ UNCHANGED <<set, phase, games>>
<1>1. StagingTypeOK /\ at[i] = "staged" /\ To(i, "freed") /\ UNCHANGED containers
      /\ UNCHANGED <<set, phase, games, read, attempt, input>>
  BY DEF Free, TypeOK
<1>2. /\ at' \in [Slots -> Places] /\ at'[i] = "freed"
      /\ \A j \in Slots : j # i => at'[j] = at[j]
      /\ \A j \in Slots : at'[j] = "waiting" <=> at[j] = "waiting"
  BY <1>1, ToType DEF Places
<1>3. dir' \in [GameIds -> [Path -> File]]
  <2>1. [p \in Path |-> NoFile] \in [Path -> File]
    BY DEF File
  <2> QED BY <1>1, <2>1 DEF Free, StagingTypeOK
<1>4. StagingTypeOK'
  BY <1>1, <1>2, <1>3 DEF StagingTypeOK, Places
<1>5. ReadInv'
  BY <1>1, <1>2 DEF ReadInv, Rom
<1>6. Gecko!CaptureTypeOK' /\ fb' \in [Slots -> Ymir!FrameBuffer]
  BY <1>1, CaptureUnchanged DEF TypeOK
<1> QED BY <1>1, <1>2, <1>4, <1>5, <1>6 DEF TypeOK, containers

LEMMA TypeInv == Spec => [](TypeOK /\ ReadInv)
<1>1. Init => TypeOK /\ ReadInv
  <2> SUFFICES ASSUME Init PROVE TypeOK /\ ReadInv
    OBVIOUS
  <2> USE DEF Init
  <2>1. StagingTypeOK
    <3>1. games = <<>> /\ games \in Seq(Game) /\ DOMAIN games = {}
      BY DEF StagingInit
    <3>2. dir \in [GameIds -> [Path -> File]]
      BY DEF StagingInit, File
    <3>3. read \in [Slots -> Nat] /\ attempt \in [Slots -> 0..Retries]
      BY StagingAssumption DEF StagingInit
    <3> QED BY <3>1, <3>2, <3>3 DEF StagingInit, StagingTypeOK
  <2>2. Gecko!CaptureTypeOK
    BY DEF Gecko!CaptureInit, Gecko!CaptureTypeOK
  <2>3. fb \in [Slots -> Ymir!FrameBuffer]
    BY DEF Ymir!FrameBuffer, Ymir!NoImage
  <2>4. ReadInv /\ \A i \in Slots : proc[i] = "created"
    BY DEF StagingInit, ReadInv, Gecko!CaptureInit
  <2> QED BY <2>1, <2>2, <2>3, <2>4 DEF TypeOK
<1>2. TypeOK /\ ReadInv /\ RInv /\ [Next]_vars => (TypeOK /\ ReadInv)'
  <2> SUFFICES ASSUME TypeOK, ReadInv, RInv, [Next]_vars PROVE (TypeOK /\ ReadInv)'
    OBVIOUS
  <2>1. CASE StagingNext /\ UNCHANGED containers
    <3>1. /\ StagingTypeOK' /\ ReadInv'
          /\ \A i \in Slots : at[i] \in {"staged", "freed"} => at'[i] = at[i]
      BY <2>1, StagingNextType
    <3>2. Gecko!CaptureTypeOK' /\ fb' \in [Slots -> Ymir!FrameBuffer]
      BY <2>1, CaptureUnchanged DEF TypeOK
    <3>3. worker' = worker /\ proc' = proc
      BY <2>1 DEF containers
    <3>4. \A i \in Slots : proc'[i] # "created" => at'[i] \in {"staged", "freed"}
      BY <3>1, <3>3 DEF TypeOK
    <3> QED BY <3>1, <3>2, <3>3, <3>4 DEF TypeOK
  <2>2. ASSUME NEW i \in Slots, ContainerStep(i) PROVE (TypeOK /\ ReadInv)'
    BY <2>2, ContainerType
  <2>3. ASSUME NEW i \in Slots, Free(i) PROVE (TypeOK /\ ReadInv)'
    BY <2>3, FreeType
  <2>4. CASE UNCHANGED vars
    <3>1. UNCHANGED containers /\ UNCHANGED staging
      BY <2>4 DEF vars
    <3>2. Gecko!CaptureTypeOK' /\ fb' \in [Slots -> Ymir!FrameBuffer]
      BY <3>1, CaptureUnchanged DEF TypeOK
    <3>3. StagingTypeOK' /\ ReadInv'
      BY <3>1 DEF TypeOK, staging, StagingTypeOK, ReadInv, Rom
    <3> QED BY <3>1, <3>2, <3>3 DEF TypeOK, staging, containers
  <2> QED BY <2>1, <2>2, <2>3, <2>4 DEF Next, ContainerStep
<1> QED BY <1>1, <1>2, ResolvedInv, PTL DEF Spec

(* Every variable has its type, a container runs for a staged game, and    *)
(* the retries of an archive are never exceeded.                           *)
THEOREM TypeOKCorrect == Spec => []TypeOK
BY TypeInv, PTL
-----------------------------------------------------------------------------
(* The anchor of an archive                                                *)

LEMMA RankType ==
  ASSUME NEW x
  PROVE  /\ Rank(x) \in Nat
         /\ x \notin ToSet(AnchorPriority) <=> Rank(x) = Len(AnchorPriority) + 1
         /\ x \in ToSet(AnchorPriority) =>
              /\ Rank(x) \in DOMAIN AnchorPriority
              /\ AnchorPriority[Rank(x)] = x
              /\ \A j \in DOMAIN AnchorPriority : AnchorPriority[j] = x => Rank(x) <= j
<1> DEFINE At == {j \in DOMAIN AnchorPriority : AnchorPriority[j] = x}
<1>1. /\ Len(AnchorPriority) \in Nat
      /\ DOMAIN AnchorPriority = 1..Len(AnchorPriority)
      /\ ToSet(AnchorPriority) = {AnchorPriority[j] : j \in DOMAIN AnchorPriority}
  BY StagingAssumption DEF ToSet
<1>2. CASE x \in ToSet(AnchorPriority)
  <2>1. At # {} /\ At \subseteq Nat
    BY <1>1, <1>2
  <2>2. Min(At) \in At /\ \A j \in At : Min(At) <= j
    BY <2>1, LeastOf
  <2>3. Rank(x) = Min(At)
    BY <1>2 DEF Rank
  <2> QED BY <1>1, <1>2, <2>2, <2>3
<1>3. CASE x \notin ToSet(AnchorPriority)
  BY <1>1, <1>3 DEF Rank
<1> QED BY <1>2, <1>3

(* The pass over the extracted files finds the anchor of the definition.   *)
LEMMA PickAnchorIsBest ==
  ASSUME NEW e \in Entries
  PROVE  /\ \A k \in PickAnchor(e, Len(MembersOf[e])) : k \in Anchors(e) /\ k = BestAnchor(e)
         /\ PickAnchor(e, Len(MembersOf[e])) = {} => Anchors(e) = {}
<1> DEFINE n == Len(MembersOf[e])
           Ext(k) == MembersOf[e][k].path.ext
           best == {j \in DOMAIN AnchorPriority : With(e, n, {AnchorPriority[j]} \cap Direct) # {}}
<1>1. n \in Nat
  BY StagingAssumption
<1>2. /\ Anchors(e) = With(e, n, Direct)
      /\ Anchors(e) = {k \in Files(e, n) : Ext(k) \in Direct}
      /\ Anchors(e) \subseteq Nat
  BY <1>1 DEF Anchors, AllFiles, With, Files
<1>3. ASSUME NEW k \in Anchors(e), \A l \in Anchors(e) \ {k} : Before(e, k, l)
      PROVE  k = BestAnchor(e)
  <2>1. ASSUME NEW h \in Anchors(e), \A l \in Anchors(e) \ {h} : Before(e, h, l), h # k
        PROVE  FALSE
    <3>1. Before(e, k, h) /\ Before(e, h, k)
      BY <1>3, <2>1
    <3>2. Rank(Ext(k)) \in Nat /\ Rank(Ext(h)) \in Nat /\ k \in Nat /\ h \in Nat
      BY <1>2, RankType
    <3> QED BY <3>1, <3>2 DEF Before
  <2> QED BY <1>3, <2>1 DEF BestAnchor
<1>4. CASE best # {}
  <2> DEFINE j == Min(best)
             W == With(e, n, {AnchorPriority[j]})
             k == Min(W)
  <2>1. best \subseteq Nat
    BY StagingAssumption
  <2>2. j \in best /\ \A m \in best : j <= m
    BY <2>1, <1>4, LeastOf
  <2>3. AnchorPriority[j] \in Direct /\ W # {} /\ W \subseteq Anchors(e)
    BY <2>2, <1>2 DEF With
  <2>4. k \in W /\ \A l \in W : k <= l
    BY <2>3, <1>2, LeastOf
  <2>5. k \in Anchors(e) /\ Ext(k) = AnchorPriority[j]
    BY <2>3, <2>4 DEF With
  <2>6. PickAnchor(e, n) = {k}
    BY <1>4 DEF PickAnchor
  <2> HIDE DEF k
  <2>7. \A l \in Anchors(e) : Ext(l) \in ToSet(AnchorPriority) => Rank(Ext(l)) \in best
    <3> SUFFICES ASSUME NEW l \in Anchors(e), Ext(l) \in ToSet(AnchorPriority)
                 PROVE  Rank(Ext(l)) \in best
      OBVIOUS
    <3>1. Rank(Ext(l)) \in DOMAIN AnchorPriority /\ AnchorPriority[Rank(Ext(l))] = Ext(l)
      BY RankType
    <3>2. l \in With(e, n, {Ext(l)} \cap Direct)
      BY <1>2 DEF With
    <3> QED BY <3>1, <3>2
  <2>8. Ext(k) \in ToSet(AnchorPriority) /\ Rank(Ext(k)) = j
    <3>1. j \in DOMAIN AnchorPriority /\ j \in Nat
      BY <2>1, <2>2
    <3>2. Ext(k) \in ToSet(AnchorPriority)
      BY <2>5, <3>1 DEF ToSet
    <3>3. Rank(Ext(k)) <= j /\ Rank(Ext(k)) \in Nat
      BY <2>5, <3>1, <3>2, RankType
    <3>4. j <= Rank(Ext(k))
      BY <2>2, <2>5, <2>7, <3>2
    <3> QED BY <3>1, <3>2, <3>3, <3>4
  <2>9. ASSUME NEW l \in Anchors(e) \ {k} PROVE Before(e, k, l)
    <3>1. j \in Nat /\ k \in Nat /\ l \in Nat /\ Rank(Ext(l)) \in Nat /\ j <= Len(AnchorPriority)
      BY <1>2, <2>1, <2>2, <2>5, RankType, StagingAssumption
    <3>2. CASE Ext(l) \notin ToSet(AnchorPriority)
      BY <3>1, <3>2, <2>8, RankType, StagingAssumption DEF Before
    <3>3. CASE Ext(l) \in ToSet(AnchorPriority)
      <4>1. j <= Rank(Ext(l))
        BY <2>2, <2>7, <3>3
      <4>2. CASE j = Rank(Ext(l))
        <5>1. Ext(l) = AnchorPriority[j]
          BY <3>3, <4>2, RankType
        <5>2. l \in W
          BY <5>1, <1>2 DEF With
        <5>3. k # l /\ k <= l
          BY <2>4, <5>2
        <5> QED BY <5>3, <4>2, <3>1, <2>8 DEF Before
      <4>3. CASE j # Rank(Ext(l))
        BY <4>1, <4>3, <3>1, <2>8 DEF Before
      <4> QED BY <4>2, <4>3
    <3> QED BY <3>2, <3>3
  <2>10. k = BestAnchor(e)
    BY <1>3, <2>5, <2>9
  <2> QED BY <2>5, <2>6, <2>10
<1>5. CASE best = {} /\ Anchors(e) # {}
  <2> DEFINE k == Min(Anchors(e))
  <2>1. k \in Anchors(e) /\ \A l \in Anchors(e) : k <= l
    BY <1>2, <1>5, LeastOf
  <2>2. PickAnchor(e, n) = {k}
    BY <1>2, <1>5 DEF PickAnchor
  <2> HIDE DEF k
  <2>3. ASSUME NEW l \in Anchors(e) PROVE Rank(Ext(l)) = Len(AnchorPriority) + 1
    <3>1. Ext(l) \notin ToSet(AnchorPriority)
      <4> SUFFICES ASSUME Ext(l) \in ToSet(AnchorPriority) PROVE FALSE
        OBVIOUS
      <4>1. PICK m \in DOMAIN AnchorPriority : AnchorPriority[m] = Ext(l)
        BY DEF ToSet
      <4>2. l \in With(e, n, {AnchorPriority[m]} \cap Direct)
        BY <1>2, <4>1 DEF With
      <4> QED BY <1>5, <4>2
    <3> QED BY <3>1, RankType
  <2>4. ASSUME NEW l \in Anchors(e) \ {k} PROVE Before(e, k, l)
    <3>1. k \in Nat /\ l \in Nat /\ k < l
      BY <1>2, <2>1
    <3> QED BY <2>1, <2>3, <3>1 DEF Before
  <2>5. k = BestAnchor(e)
    BY <1>3, <2>1, <2>4
  <2> QED BY <2>1, <2>2, <2>5
<1>6. CASE best = {} /\ Anchors(e) = {}
  BY <1>2, <1>6 DEF PickAnchor
<1> QED BY <1>4, <1>5, <1>6
-----------------------------------------------------------------------------
(* What is in the directory of a game                                      *)

Size(e) == Len(MembersOf[e])

(* The member that is at the path of member k when n have been extracted.  *)
FinalIn(e, n, k) == Max({l \in Files(e, n) : MembersOf[e][l].path = MembersOf[e][k].path})

Whole(i, n) ==
  \A k \in Files(Rom(i), n) :
    dir[games[i].id][MembersOf[Rom(i)][k].path] = [entry |-> Rom(i), member |-> FinalIn(Rom(i), n, k)]

Extracting(i) == /\ IsArchive(i)
                 /\ \A k \in 1..read[i] : MembersOf[Rom(i)][k].kind # "illegal"
                 /\ Whole(i, read[i])

HasRom(i) ==
  IF IsDirect(i) THEN dir[games[i].id][input[i]] = [entry |-> Rom(i), member |-> 0]
  ELSE /\ Whole(i, Size(Rom(i)))
       /\ \E k \in PickAnchor(Rom(i), Size(Rom(i))) : input[i] = MembersOf[Rom(i)][k].path

GaveUp(i) == IsArchive(i) /\ IsSound(Rom(i)) => attempt[i] = Retries

GameInv(i) == /\ at[i] = "extract" => Extracting(i)
              /\ at[i] = "staged" => HasRom(i)
              /\ at[i] = "failed" => GaveUp(i)

StageInv == \A i \in Slots : GameInv(i)

(* The next member takes its path over; at the others nothing changes.     *)
LEMMA FinalOfNext ==
  ASSUME NEW e \in Entries, NEW n \in Nat, MembersOf[e][n + 1].kind = "file"
  PROVE  /\ Files(e, n + 1) = Files(e, n) \cup {n + 1}
         /\ \A k \in Files(e, n + 1) :
              FinalIn(e, n + 1, k) = IF MembersOf[e][k].path = MembersOf[e][n + 1].path
                                       THEN n + 1 ELSE FinalIn(e, n, k)
<1>1. Files(e, n + 1) = Files(e, n) \cup {n + 1} /\ Files(e, n) \subseteq 1..n
  BY DEF Files
<1>2. ASSUME NEW k \in Files(e, n + 1)
      PROVE  FinalIn(e, n + 1, k) = IF MembersOf[e][k].path = MembersOf[e][n + 1].path
                                      THEN n + 1 ELSE FinalIn(e, n, k)
  <2> DEFINE Same(m) == {l \in Files(e, m) : MembersOf[e][l].path = MembersOf[e][k].path}
  <2>1. CASE MembersOf[e][k].path = MembersOf[e][n + 1].path
    <3> DEFINE S == Same(n + 1)
               m == n + 1
    <3>1. m \in Nat /\ m \in S /\ S \subseteq 0..m
      BY <1>1, <2>1
    <3>2. FinalIn(e, n + 1, k) = Max(S)
      BY DEF FinalIn
    <3> HIDE DEF S, m
    <3>3. Max(S) \in S /\ \A x \in S : x <= Max(S)
      BY <3>1, GreatestOf
    <3>4. Max(S) = m
      <4>1. Max(S) \in 0..m /\ m <= Max(S)
        BY <3>1, <3>3
      <4> QED BY <3>1, <4>1
    <3> QED BY <2>1, <3>2, <3>4 DEF m
  <2>2. CASE MembersOf[e][k].path # MembersOf[e][n + 1].path
    <3>1. Same(n + 1) = Same(n)
      BY <1>1, <2>2
    <3> QED BY <2>2, <3>1 DEF FinalIn
  <2> QED BY <2>1, <2>2
<1> QED BY <1>1, <1>2

(* Games do not touch each other's directories.                            *)
LEMMA OwnDirectory ==
  ASSUME TypeOK, RInv, NEW i \in Slots, NEW j \in Slots, i # j,
         at[i] # "waiting", at[j] # "waiting"
  PROVE  games[i].id # games[j].id
<1>1. i \in DOMAIN games /\ j \in DOMAIN games
  BY GameType DEF TypeOK
<1>2. phase = "stage"
  BY <1>1 DEF RInv
<1> QED BY <1>1, <1>2, ValidIsOneToOne DEF ResolvedOneToOne

LEMMA OtherGame ==
  ASSUME TypeOK, RInv, NEW i \in Slots, NEW j \in Slots, i # j, GameInv(j),
         at[i] # "waiting", UNCHANGED games,
         at'[j] = at[j], read'[j] = read[j], attempt'[j] = attempt[j], input'[j] = input[j],
         \A d \in GameIds : d # games[i].id => dir'[d] = dir[d]
  PROVE  GameInv(j)'
<1>1. CASE at[j] = "waiting"
  BY <1>1 DEF GameInv
<1>2. CASE at[j] # "waiting"
  <2>1. games[j].id \in GameIds /\ games[j].id # games[i].id
    BY <1>2, GameType, OwnDirectory DEF TypeOK
  <2>2. dir'[games[j].id] = dir[games[j].id] /\ Rom(j)' = Rom(j) /\ (games[j].id)' = games[j].id
    BY <2>1 DEF Rom
  <2>3. ASSUME NEW n PROVE Whole(j, n) => (\A k \in Files(Rom(j)', n) :
            dir'[(games[j].id)'][MembersOf[Rom(j)'][k].path]
              = [entry |-> Rom(j)', member |-> FinalIn(Rom(j)', n, k)])
    BY <2>2 DEF Whole
  <2>4. Extracting(j) /\ at[j] = "extract" => Extracting(j)'
    BY <2>2, <2>3 DEF Extracting, Whole, IsArchive
  <2>5. HasRom(j) => HasRom(j)'
    BY <2>2, <2>3 DEF HasRom, Whole, IsDirect
  <2>6. GaveUp(j) => GaveUp(j)'
    BY <2>2 DEF GaveUp, IsArchive
  <2> QED BY <2>4, <2>5, <2>6 DEF GameInv
<1> QED BY <1>1, <1>2
LEMMA StageOneFrame ==
  ASSUME StagingTypeOK, NEW i \in Slots, StageOne(i)
  PROVE  /\ \A j \in Slots : j # i => /\ read'[j] = read[j] /\ attempt'[j] = attempt[j]
                                      /\ input'[j] = input[j]
         /\ \A d \in GameIds : d # games[i].id => dir'[d] = dir[d]
<1>1. /\ read \in [Slots -> Nat] /\ attempt \in [Slots -> 0..Retries]
      /\ input \in [Slots -> Path \cup {NoPath}] /\ dir \in [GameIds -> [Path -> File]]
  BY DEF StagingTypeOK
<1>2. \/ read' = read
      \/ read' = [read EXCEPT ![i] = @ + 1]
      \/ read' = [read EXCEPT ![i] = 0]
  BY DEF StageOne, StageDirect, DirectFails, Unsupported, BeginExtract, SkipDirectory,
         ExtractMember, ExtractFails, IllegalMember, Extracted, AttemptFails, ReadOn
<1>3. attempt' = attempt \/ attempt' = [attempt EXCEPT ![i] = @ + 1]
  BY DEF StageOne, StageDirect, DirectFails, Unsupported, BeginExtract, SkipDirectory,
         ExtractMember, ExtractFails, IllegalMember, Extracted, AttemptFails
<1>4. input' = input \/ \E p : input' = [input EXCEPT ![i] = p]
  BY DEF StageOne, StageDirect, DirectFails, Unsupported, BeginExtract, SkipDirectory,
         ExtractMember, ExtractFails, IllegalMember, Extracted
<1>5. dir' = dir \/ \E p, f : Put(i, p, f)
  BY DEF StageOne, StageDirect, DirectFails, Unsupported, BeginExtract, SkipDirectory,
         ExtractMember, ExtractFails, IllegalMember, Extracted
<1>6. \A j \in Slots : j # i => read'[j] = read[j]
  BY <1>1, <1>2
<1>7. \A j \in Slots : j # i => attempt'[j] = attempt[j] /\ input'[j] = input[j]
  BY <1>1, <1>3, <1>4
<1>8. \A d \in GameIds : d # games[i].id => dir'[d] = dir[d]
  BY <1>1, <1>5 DEF Put
<1> QED BY <1>6, <1>7, <1>8

LEMMA PutFile ==
  ASSUME StagingTypeOK, NEW i \in Slots, at[i] # "waiting", NEW p \in Path, NEW f, Put(i, p, f)
  PROVE  /\ dir'[games[i].id][p] = f
         /\ \A q \in Path : q # p => dir'[games[i].id][q] = dir[games[i].id][q]
<1>1. games[i].id \in GameIds /\ dir \in [GameIds -> [Path -> File]]
  BY GameType DEF StagingTypeOK
<1> QED BY <1>1 DEF Put

(* A failed attempt ends the staging of a game only after every retry.     *)
LEMMA AttemptFailsGame ==
  ASSUME StagingTypeOK, NEW i \in Slots, at[i] = "extract", IsArchive(i), AttemptFails(i),
         UNCHANGED <<games, input>>
  PROVE  GameInv(i)'
<1>1. /\ at \in [Slots -> Places] /\ read \in [Slots -> Nat] /\ attempt \in [Slots -> 0..Retries]
      /\ Retries \in Nat
  BY StagingAssumption DEF StagingTypeOK, Places
<1>2. read'[i] = 0
  BY <1>1 DEF AttemptFails
<1>3. Extracting(i)'
  BY <1>2 DEF Extracting, IsArchive, Rom, Whole, Files
<1>4. CASE attempt[i] < Retries
  <2>1. at'[i] = "extract"
    BY <1>4 DEF AttemptFails
  <2> QED BY <2>1, <1>3 DEF GameInv
<1>5. CASE ~(attempt[i] < Retries)
  <2>1. at'[i] = "failed" /\ attempt'[i] = Retries
    BY <1>1, <1>5 DEF AttemptFails, To
  <2> QED BY <2>1 DEF GameInv, GaveUp
<1> QED BY <1>4, <1>5

LEMMA StageOneGame ==
  ASSUME TypeOK, ReadInv, RInv, NEW i \in Slots, GameInv(i), StageOne(i)
  PROVE  GameInv(i)'
<1> DEFINE e == Rom(i)
           n == read[i]
           id == games[i].id
<1>1. /\ StagingTypeOK /\ at[i] \in {"stage", "extract"}
      /\ UNCHANGED games /\ Rom(i)' = Rom(i) /\ (games[i].id)' = games[i].id
  BY StageOneType DEF TypeOK, Rom
<1>2. /\ id \in GameIds /\ e \in Entries /\ GamePath(i) \in Path /\ MembersOf[e] \in Seq(Member)
      /\ at \in [Slots -> Places] /\ n \in Nat /\ n <= Size(e) /\ Size(e) \in Nat
      /\ read \in [Slots -> Nat] /\ input \in [Slots -> Path \cup {NoPath}]
  <2>1. id \in GameIds /\ e \in Entries /\ GamePath(i) \in Path /\ MembersOf[e] \in Seq(Member)
    BY <1>1, GameType
  <2>2. at \in [Slots -> Places] /\ read \in [Slots -> Nat] /\ input \in [Slots -> Path \cup {NoPath}]
    BY <1>1 DEF StagingTypeOK, Places
  <2>3. n <= Size(e)
    BY <1>1 DEF ReadInv, Size
  <2> QED BY <2>1, <2>2, <2>3 DEF Size
<1> HIDE DEF e, n, id
<1>3. CASE StageDirect(i)
  <2>1. at'[i] = "staged" /\ input'[i] = GamePath(i) /\ IsDirect(i)
    BY <1>2, <1>3 DEF StageDirect, To
  <2>2. dir'[games[i].id][GamePath(i)] = [entry |-> Rom(i), member |-> 0]
    <3>1. Put(i, GamePath(i), [entry |-> Rom(i), member |-> 0])
      BY <1>3 DEF StageDirect
    <3>2. at[i] # "waiting"
      BY <1>1
    <3> QED BY <1>1, <1>2, <3>1, <3>2, PutFile
  <2>3. IsDirect(i)'
    BY <1>1, <2>1 DEF IsDirect
  <2>4. HasRom(i)'
    BY <1>1, <2>1, <2>2, <2>3 DEF HasRom
  <2> QED BY <2>1, <2>4 DEF GameInv
<1>4. CASE DirectFails(i) \/ Unsupported(i)
  <2>1. at'[i] = "failed" /\ ~IsArchive(i)
    BY <1>2, <1>4 DEF DirectFails, Unsupported, To, IsArchive, IsDirect
  <2>2. ~IsArchive(i)'
    BY <1>1, <2>1 DEF IsArchive
  <2> QED BY <2>1, <2>2 DEF GameInv, GaveUp
<1>5. CASE BeginExtract(i)
  <2>1. at'[i] = "extract" /\ IsArchive(i)
    BY <1>2, <1>5 DEF BeginExtract, To
  <2>2. read'[i] = 0
    BY <1>2, <1>5 DEF BeginExtract, ReadInv
  <2>3. Extracting(i)'
    BY <1>1, <2>1, <2>2 DEF Extracting, Whole, Files, IsArchive
  <2> QED BY <2>1, <2>3 DEF GameInv
<1>6. Unread(i) => /\ This(i) = MembersOf[e][n + 1] /\ n + 1 \in 1..Size(e) /\ This(i).path \in Path
                   /\ This(i).kind \in {"file", "dir", "illegal"}
  <2>1. Unread(i) => This(i) = MembersOf[e][n + 1] /\ n + 1 \in 1..Size(e)
    BY <1>2 DEF Unread, This, Size, e, n
  <2>2. \A k \in 1..Size(e) : MembersOf[e][k] \in Member
    BY <1>2, MemberType DEF Size
  <2> QED BY <2>1, <2>2 DEF Member
<1>7. CASE SkipDirectory(i)
  <2>1. at' = at /\ dir' = dir /\ read'[i] = n + 1 /\ at[i] = "extract" /\ Extracting(i)
    BY <1>2, <1>7 DEF SkipDirectory, ReadOn, GameInv, n
  <2>2. MembersOf[e][n + 1].kind = "dir" /\ n + 1 \in 1..Size(e)
    BY <1>6, <1>7 DEF SkipDirectory
  <2>3. \A k \in 1..(n + 1) : MembersOf[e][k].kind # "illegal"
    <3>1. \A k \in 1..n : MembersOf[e][k].kind # "illegal"
      BY <2>1 DEF Extracting, e, n
    <3>2. \A k \in 1..(n + 1) : k \in 1..n \/ k = n + 1
      BY <1>2
    <3> QED BY <2>2, <3>1, <3>2
  <2>4. Files(e, n + 1) = Files(e, n)
    BY <1>2, <2>2 DEF Files
  <2>5. \A k : FinalIn(e, n + 1, k) = FinalIn(e, n, k)
    BY <2>4 DEF FinalIn
  <2>6. Extracting(i)'
    BY <1>1, <2>1, <2>3, <2>4, <2>5 DEF Extracting, Whole, IsArchive, e, n
  <2> QED BY <2>1, <2>6 DEF GameInv
<1>8. CASE ExtractMember(i)
  <2> DEFINE p == MembersOf[e][n + 1].path
  <2>1. at' = at /\ read'[i] = n + 1 /\ at[i] = "extract" /\ Extracting(i)
    BY <1>2, <1>8 DEF ExtractMember, ReadOn, GameInv, n
  <2>2. MembersOf[e][n + 1].kind = "file" /\ n + 1 \in 1..Size(e) /\ p \in Path
    BY <1>6, <1>8 DEF ExtractMember
  <2>3. /\ dir'[id][p] = [entry |-> e, member |-> n + 1]
        /\ \A q \in Path : q # p => dir'[id][q] = dir[id][q]
    <3>1. Put(i, p, [entry |-> e, member |-> n + 1])
      BY <1>6, <1>8 DEF ExtractMember, e, n
    <3> QED BY <1>1, <2>1, <2>2, <3>1, PutFile DEF id
  <2>4. \A k \in 1..(n + 1) : MembersOf[e][k].kind # "illegal"
    BY <1>2, <2>1, <2>2 DEF Extracting, e, n
  <2>5. ASSUME NEW k \in Files(e, n + 1)
        PROVE  dir'[id][MembersOf[e][k].path] = [entry |-> e, member |-> FinalIn(e, n + 1, k)]
    <3> DEFINE q == MembersOf[e][k].path
    <3>1. FinalIn(e, n + 1, k) = IF q = p THEN n + 1 ELSE FinalIn(e, n, k)
      BY <1>2, <2>2, FinalOfNext
    <3>2. CASE q = p
      BY <2>3, <3>1, <3>2
    <3>3. CASE q # p
      <4>1. k \in Files(e, n)
        <5>1. Files(e, n + 1) = Files(e, n) \cup {n + 1}
          BY <1>2, <2>2, FinalOfNext
        <5>2. k # n + 1
          BY <3>3
        <5> QED BY <5>1, <5>2
      <4>2. q \in Path
        BY <1>2, <4>1, MemberType DEF Files, Size
      <4>3. dir[id][q] = [entry |-> e, member |-> FinalIn(e, n, k)]
        BY <2>1, <4>1 DEF Extracting, Whole, e, n, id
      <4> QED BY <2>3, <3>1, <3>3, <4>2, <4>3
    <3> QED BY <3>2, <3>3
  <2>6. Extracting(i)'
    BY <1>1, <2>1, <2>4, <2>5 DEF Extracting, Whole, IsArchive, e, n, id
  <2> QED BY <2>1, <2>6 DEF GameInv
<1>9. CASE ExtractFails(i) \/ IllegalMember(i)
  <2>1. at[i] = "extract" /\ AttemptFails(i) /\ UNCHANGED <<games, input>>
    BY <1>9 DEF ExtractFails, IllegalMember
  <2>2. IsArchive(i)
    BY <2>1 DEF GameInv, Extracting
  <2> QED BY <1>1, <2>1, <2>2, AttemptFailsGame
<1>10. CASE Extracted(i)
  <2>1. at[i] = "extract" /\ ~Unread(i) /\ Extracting(i) /\ UNCHANGED <<dir, read>>
    BY <1>10 DEF Extracted, GameInv
  <2>2. n = Size(e)
    BY <1>2, <2>1 DEF Unread, Size, e, n
  <2>3. CASE PickAnchor(e, n) = {} /\ To(i, "failed")
    <3>1. ~IsSound(e)
      BY <1>2, <2>2, <2>3, PickAnchorIsBest DEF IsSound, Size
    <3>2. at'[i] = "failed"
      BY <1>2, <2>3 DEF To
    <3> QED BY <1>1, <3>1, <3>2 DEF GameInv, GaveUp, e
  <2>4. ASSUME NEW k \in PickAnchor(e, n), input' = [input EXCEPT ![i] = MembersOf[e][k].path],
               To(i, "staged")
        PROVE  GameInv(i)'
    <3>1. at'[i] = "staged" /\ input'[i] = MembersOf[e][k].path
      BY <1>2, <2>4 DEF To
    <3>2. ~IsDirect(i)'
      BY <1>1, <2>1 DEF Extracting, IsArchive, IsDirect
    <3>3. Whole(i, Size(e))'
      BY <1>1, <2>1, <2>2 DEF Extracting, Whole, e, n
    <3>4. HasRom(i)'
      BY <1>1, <2>2, <3>1, <3>2, <3>3 DEF HasRom, e
    <3> QED BY <3>1, <3>4 DEF GameInv
  <2> QED BY <1>10, <2>3, <2>4 DEF Extracted, e, n
<1> QED BY <1>3, <1>4, <1>5, <1>7, <1>8, <1>9, <1>10 DEF StageOne
LEMMA FreeGame ==
  ASSUME TypeOK, RInv, NEW i \in Slots, StageInv, Free(i)
  PROVE  StageInv'
<1>1. /\ at \in [Slots -> Places] /\ dir \in [GameIds -> [Path -> File]] /\ at[i] = "staged"
      /\ UNCHANGED <<games, read, attempt, input>>
      /\ at' = [at EXCEPT ![i] = "freed"]
      /\ dir' = [dir EXCEPT ![games[i].id] = [p \in Path |-> NoFile]]
  BY DEF TypeOK, StagingTypeOK, Places, Free, To
<1>2. GameInv(i)'
  BY <1>1 DEF GameInv
<1>3. ASSUME NEW j \in Slots, j # i PROVE GameInv(j)'
  <2>1. /\ at'[j] = at[j] /\ read'[j] = read[j] /\ attempt'[j] = attempt[j] /\ input'[j] = input[j]
        /\ \A d \in GameIds : d # games[i].id => dir'[d] = dir[d]
    BY <1>1, <1>3
  <2> QED BY <1>1, <1>3, <2>1, OtherGame DEF StageInv
<1> QED BY <1>2, <1>3 DEF StageInv

LEMMA ResolveGame ==
  ASSUME TypeOK, ReadInv, RInv, StageInv, NEW i \in Slots, LoadGameSet \/ ResolveGames \/ ResolveFails
  PROVE  GameInv(i)'
<1>1. games = <<>> /\ at[i] = "waiting"
  BY DEF LoadGameSet, ResolveGames, ResolveFails, RInv, TypeOK, StagingTypeOK
<1>2. at'[i] \in {"waiting", "stage"}
  BY <1>1 DEF LoadGameSet, ResolveGames, ResolveFails
<1> QED BY <1>2 DEF GameInv

LEMMA StagedInv == Spec => []StageInv
<1>1. Init => StageInv
  BY DEF Init, StagingInit, StageInv, GameInv
<1>2. TypeOK /\ ReadInv /\ RInv /\ StageInv /\ [Next]_vars => StageInv'
  <2> SUFFICES ASSUME TypeOK, ReadInv, RInv, StageInv, [Next]_vars PROVE StageInv'
    OBVIOUS
  <2>1. CASE LoadGameSet \/ ResolveGames \/ ResolveFails
    BY <2>1, ResolveGame DEF StageInv
  <2>2. ASSUME NEW i \in Slots, StageOne(i) PROVE StageInv'
    <3>1. GameInv(i)'
      BY <2>2, StageOneGame DEF StageInv
    <3>2. /\ at[i] # "waiting" /\ UNCHANGED games
          /\ \A j \in Slots : j # i => at'[j] = at[j]
      BY <2>2, StageOneType DEF TypeOK
    <3>3. /\ \A j \in Slots : j # i => /\ read'[j] = read[j] /\ attempt'[j] = attempt[j]
                                       /\ input'[j] = input[j]
          /\ \A d \in GameIds : d # games[i].id => dir'[d] = dir[d]
      BY <2>2, StageOneFrame DEF TypeOK
    <3>4. ASSUME NEW j \in Slots, j # i PROVE GameInv(j)'
      BY <3>2, <3>3, <3>4, OtherGame DEF StageInv
    <3> QED BY <3>1, <3>4 DEF StageInv
  <2>3. ASSUME UNCHANGED staging PROVE StageInv'
    BY <2>3 DEF StageInv, GameInv, Extracting, HasRom, GaveUp, Whole, IsArchive, IsDirect, Rom, staging
  <2>4. ASSUME NEW i \in Slots, ContainerStep(i) PROVE StageInv'
    BY <2>3, <2>4 DEF ContainerStep, BootContainer, StopContainer, RunContainer
  <2>5. ASSUME NEW i \in Slots, Free(i) PROVE StageInv'
    BY <2>5, FreeGame
  <2>6. CASE UNCHANGED vars
    BY <2>3, <2>6 DEF vars
  <2> QED BY <2>1, <2>2, <2>4, <2>5, <2>6 DEF Next, StagingNext, ContainerStep
<1> QED BY <1>1, <1>2, ResolvedInv, TypeInv, PTL DEF Spec

(* The file of a staged game, by the definition of its anchor.             *)
LEMMA StagedIsRom ==
  ASSUME StagingTypeOK, NEW i \in Slots, GameInv(i), at[i] = "staged"
  PROVE  IF IsDirect(i) THEN dir[games[i].id][input[i]] = [entry |-> Rom(i), member |-> 0]
         ELSE /\ Anchors(Rom(i)) # {}
              /\ BestAnchor(Rom(i)) \in AllFiles(Rom(i))
              /\ input[i] = MembersOf[Rom(i)][BestAnchor(Rom(i))].path
              /\ \A k \in AllFiles(Rom(i)) :
                   dir[games[i].id][MembersOf[Rom(i)][k].path] = [entry |-> Rom(i), member |-> Final(Rom(i), k)]
<1>1. HasRom(i) /\ Rom(i) \in Entries
  BY GameType DEF GameInv
<1>2. CASE IsDirect(i)
  BY <1>1, <1>2 DEF HasRom
<1>3. CASE ~IsDirect(i)
  <2>1. PICK k \in PickAnchor(Rom(i), Size(Rom(i))) : input[i] = MembersOf[Rom(i)][k].path
    BY <1>1, <1>3 DEF HasRom
  <2>2. k \in Anchors(Rom(i)) /\ k = BestAnchor(Rom(i))
    BY <1>1, PickAnchorIsBest DEF Size
  <2>3. \A l : FinalIn(Rom(i), Size(Rom(i)), l) = Final(Rom(i), l)
    BY DEF FinalIn, Final, AllFiles, Size
  <2>4. Whole(i, Size(Rom(i)))
    BY <1>1, <1>3 DEF HasRom
  <2>5. AllFiles(Rom(i)) = Files(Rom(i), Size(Rom(i)))
    BY DEF AllFiles, Size
  <2> QED BY <1>3, <2>1, <2>2, <2>3, <2>4, <2>5 DEF Whole, Anchors
<1> QED BY <1>2, <1>3

LEMMA StageInvImplies ==
  ASSUME TypeOK, StageInv
  PROVE  StagedInputIsRom /\ SoundArchiveIsRetried
<1>1. StagedInputIsRom
  BY StagedIsRom DEF StagedInputIsRom, StageInv, TypeOK
<1>2. SoundArchiveIsRetried
  BY DEF SoundArchiveIsRetried, StageInv, GameInv, GaveUp
<1> QED BY <1>1, <1>2

(* The file a container is given is the whole ROM of its game: the file    *)
(* itself, or the best anchor with every member of the archive next to it, *)
(* as it is in the archive, whatever failed attempts left there.           *)
THEOREM StagedInputIsRomCorrect == Spec => []StagedInputIsRom
BY TypeInv, StagedInv, StageInvImplies, PTL

(* A sound archive is given up only when every retry has been used.        *)
THEOREM SoundArchiveIsRetriedCorrect == Spec => []SoundArchiveIsRetried
BY TypeInv, StagedInv, StageInvImplies, PTL
=============================================================================
