----------------------------- MODULE JobRegistry -----------------------------
(***************************************************************************)
(* JobRegistry (state.rs): the status of every job, once in a map in       *)
(* memory and once in <job_root>/<id>/status.json.                         *)
(*                                                                         *)
(* persist writes the file and then the map, and only the map is under the *)
(* mutex.  write_json_atomic writes status.json.tmp, one file per job      *)
(* whoever writes, and renames it.  So a persist is three steps that those *)
(* of another persist, of remove and of get come between.                  *)
(***************************************************************************)
EXTENDS Naturals, FiniteSets

CONSTANTS Ids,          \* job ids
          Writers,      \* threads that call persist
          NoRecord,     \* no entry, no file
          NoId,         \* the writer has not persisted anything yet
          Steps,        \* persists in a run of run_stages
          MaxClock,     \* bound: retention periods that go by
          MaxIoFaults   \* bound: file system calls that fail

ASSUME RegistryAssumption ==
  /\ Steps \in Nat \ {0}
  /\ MaxClock \in Nat
  /\ MaxIoFaults \in Nat
  /\ NoId \notin Ids

VARIABLES mem,    \* inner: Arc<Mutex<HashMap<..>>>
          disk,   \* status.json of each job
          tmp,    \* status.json.tmp of each job
          wr,     \* where each writer's last persist is
          wrId,   \* the job it is about
          rec,    \* the status it writes
          faults  \* failed file system calls so far

registry == <<mem, disk, tmp, wr, wrId, rec, faults>>

JobState == {"queued", "running", "completed", "failed", "already_completed", "cancelled"}
Terminal == {"completed", "failed", "already_completed", "cancelled"}

(* step is how far run_stages has come, counted in persists; stamp is      *)
(* finished_at if the job has finished and created_at if not, in retention *)
(* periods.                                                                *)
Status == [state : JobState, step : 0..Steps, stamp : 0..MaxClock]

(* NoRecord is told from every status.                                    *)
ASSUME NoRecordAssumption == NoRecord \notin Status

Record(st, k, at) == [state |-> st, step |-> k, stamp |-> at]

Idle(p)   == wr[p] \in {"none", "ok", "err"}
Writes(id) == {p \in Writers : ~Idle(p) /\ wrId[p] = id}

(* get: the map first, then the file.                                      *)
Get(id) == IF mem[id] # NoRecord THEN mem[id] ELSE disk[id]

(* request_cancel, main.rs and run_stages look at get(id).state.           *)
Is(id, st) == Get(id) # NoRecord /\ Get(id).state = st

RegistryInit ==
  /\ mem = [id \in Ids |-> NoRecord]
  /\ disk = [id \in Ids |-> NoRecord]
  /\ tmp = [id \in Ids |-> NoRecord]
  /\ wr = [p \in Writers |-> "none"]
  /\ wrId = [p \in Writers |-> NoId]
  /\ rec = [p \in Writers |-> NoRecord]
  /\ faults = 0

-----------------------------------------------------------------------------
(* A caller enters persist(s).                                             *)
BeginPersist(p, id, s) ==
  /\ Idle(p)
  /\ wr' = [wr EXCEPT ![p] = "write"]
  /\ wrId' = [wrId EXCEPT ![p] = id]
  /\ rec' = [rec EXCEPT ![p] = s]
  /\ UNCHANGED <<mem, disk, tmp, faults>>

(* create_dir_all and fs::write of the temporary file                      *)
PersistWrite(p) ==
  /\ wr[p] = "write"
  /\ tmp' = [tmp EXCEPT ![wrId[p]] = rec[p]]
  /\ wr' = [wr EXCEPT ![p] = "rename"]
  /\ UNCHANGED <<mem, disk, wrId, rec, faults>>

(* Renames whatever the temporary file holds now.                          *)
PersistRename(p) ==
  /\ wr[p] = "rename"
  /\ tmp[wrId[p]] # NoRecord
  /\ disk' = [disk EXCEPT ![wrId[p]] = tmp[wrId[p]]]
  /\ tmp' = [tmp EXCEPT ![wrId[p]] = NoRecord]
  /\ wr' = [wr EXCEPT ![p] = "insert"]
  /\ UNCHANGED <<mem, wrId, rec, faults>>

(* Another writer renamed the file first, or remove deleted it.            *)
PersistRenameMissing(p) ==
  /\ wr[p] = "rename"
  /\ tmp[wrId[p]] = NoRecord
  /\ wr' = [wr EXCEPT ![p] = "err"]
  /\ UNCHANGED <<mem, disk, tmp, wrId, rec, faults>>

PersistInsert(p) ==
  /\ wr[p] = "insert"
  /\ mem' = [mem EXCEPT ![wrId[p]] = rec[p]]
  /\ wr' = [wr EXCEPT ![p] = "ok"]
  /\ UNCHANGED <<disk, tmp, wrId, rec, faults>>

(* Mutant: the `?` after fs::rename is missing.                            *)
PersistFaultIgnored(p) ==
  /\ wr[p] \in {"write", "rename"}
  /\ faults < MaxIoFaults
  /\ faults' = faults + 1
  /\ wr' = [wr EXCEPT ![p] = "insert"]
  /\ UNCHANGED <<mem, disk, tmp, wrId, rec>>

(* create_dir_all, fs::write or rename fails (the disk is full, say).      *)
PersistFault(p) ==
  /\ wr[p] \in {"write", "rename"}
  /\ faults < MaxIoFaults
  /\ faults' = faults + 1
  /\ wr' = [wr EXCEPT ![p] = "err"]
  /\ UNCHANGED <<mem, disk, tmp, wrId, rec>>

PersistStep(p) == \/ PersistWrite(p)
                  \/ PersistRename(p)
                  \/ PersistRenameMissing(p)
                  \/ PersistInsert(p)

(* remove: first the map ..                                                *)
Forget(id) ==
  /\ mem' = [mem EXCEPT ![id] = NoRecord]
  /\ UNCHANGED <<disk, tmp, wr, wrId, rec, faults>>

(* .. then the job directory,                                              *)
RemoveDir(id) ==
  /\ disk' = [disk EXCEPT ![id] = NoRecord]
  /\ tmp' = [tmp EXCEPT ![id] = NoRecord]
  /\ UNCHANGED <<mem, wr, wrId, rec, faults>>

(* which may fail and leave it behind.                                     *)
RemoveDirFault ==
  /\ faults < MaxIoFaults
  /\ faults' = faults + 1
  /\ UNCHANGED <<mem, disk, tmp, wr, wrId, rec>>

(* The process dies: the files are what is left.                           *)
LoseMemory ==
  /\ mem' = [id \in Ids |-> NoRecord]
  /\ wr' = [p \in Writers |-> "none"]
  /\ wrId' = [p \in Writers |-> NoId]
  /\ rec' = [p \in Writers |-> NoRecord]
  /\ UNCHANGED <<disk, tmp, faults>>

-----------------------------------------------------------------------------
(* Every variable of the registry has its type.                            *)
RegistryTypeOK ==
  /\ mem \in [Ids -> Status \cup {NoRecord}]
  /\ disk \in [Ids -> Status \cup {NoRecord}]
  /\ tmp \in [Ids -> Status \cup {NoRecord}]
  /\ wr \in [Writers -> {"none", "write", "rename", "insert", "ok", "err"}]
  /\ wrId \in [Writers -> Ids \cup {NoId}]
  /\ rec \in [Writers -> Status \cup {NoRecord}]
  /\ \A p \in Writers : ~Idle(p) => wrId[p] \in Ids /\ rec[p] \in Status
  /\ faults \in 0..MaxIoFaults
=============================================================================
