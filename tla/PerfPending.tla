----------------------------- MODULE PerfPending -----------------------------
(***************************************************************************)
(* Perf records that the warehouse cannot take (perf/pending.py,           *)
(* perf/writer.py).                                                        *)
(*                                                                         *)
(* An ETL step writes one row of etl_perf_runs per phase through the soft  *)
(* warehouse service (emit_perf_records).  When the schema has drifted the *)
(* record becomes a file of the pending directory instead, with a mirror   *)
(* in the object store.  `perf reingest-pending`, started by hand, inserts *)
(* the pending files in the order of their mtime through the strict        *)
(* service and moves each to the archive.  Emitters and reingests share    *)
(* the directory; any of them may be killed.                               *)
(*                                                                         *)
(* The warehouse changes at any time between taking inserts ("ok"),        *)
(* missing a column or a table in the statement ("drift"), missing the     *)
(* v1.5 tables ("no_table"), missing the lake tables ("no_lake") and not   *)
(* answering ("down").  A row that is malformed for the database is        *)
(* refused also by one that is "ok".                                       *)
(***************************************************************************)
EXTENDS Naturals, Sequences, FiniteSets, SequencesExt

CONSTANTS
  Emitters, Reingests,
  Batch,        \* the records of each emitter, in the order of the phases
  Refused,      \* records whose INSERT the database refuses
  Loud,         \* TRUE: ROBOT_DH_PERF_RECORD_ON_SCHEMA_MISMATCH=loud
  DbStates,     \* the states the warehouse may be in
  MaxDbChanges, \* bound: changes of the warehouse's state
  MaxRows,      \* bound: rows counted per record
  MaxFaults     \* bound: kills, moves and answers that fail, reingests
                \* started while another one runs

Records == UNION {ToSet(Batch[e]) : e \in Emitters}

ASSUME PerfAssumption ==
  /\ \A e \in Emitters : Batch[e] \in Seq(ToSet(Batch[e])) /\ Batch[e] # <<>> /\ IsInjective(Batch[e])
  /\ \A e, f \in Emitters : e # f => ToSet(Batch[e]) \cap ToSet(Batch[f]) = {}
  /\ Refused \subseteq Records
  /\ DbStates \subseteq {"ok", "drift", "no_table", "no_lake", "down"}
  /\ MaxDbChanges \in Nat /\ MaxRows \in Nat \ {0, 1} /\ MaxFaults \in Nat
  /\ Loud \in BOOLEAN

VARIABLES
  db,         \* what the warehouse is like now
  dbChanges,
  rows,       \* rows of etl_perf_runs for each record
  dropped,    \* records the soft service gave up on
  file,       \* file of the pending directory for each record
  order,      \* the pending files by mtime
  archive,    \* files of the archive directory
  mirror,     \* objects below perf-records-pending and -archived
  est,        \* each emitter: where it is
  nth,        \* and which record of its batch it is at
  rst,        \* each reingest: where it is,
  listed,     \* the files its listing found,
  todo,       \* those it has not finished
  count,      \* its counters
  faults

store == <<file, order, archive, mirror>>
emitters == <<est, nth>>
reingests == <<rst, listed, todo, count>>
warehouse == <<db, dbChanges, rows, dropped>>
vars == <<warehouse, store, emitters, reingests, faults>>

Counters == {"scanned", "ingested", "archived", "failed"}
EmitPc == {"record", "open", "write", "mirror", "done", "raised", "killed"}
ReingestPc == {"idle", "read", "insert", "move", "s3", "done", "aborted"}

TypeOK ==
  /\ db \in DbStates /\ dbChanges \in 0 .. MaxDbChanges
  /\ rows \in [Records -> 0 .. MaxRows] /\ dropped \subseteq Records
  /\ file \in [Records -> {"none", "torn", "whole"}]
  /\ order \in Seq(Records)
  /\ archive \subseteq Records
  /\ mirror \in [{"pending", "archived"} -> SUBSET Records]
  /\ est \in [Emitters -> EmitPc]
  /\ nth \in [Emitters -> Nat] /\ \A e \in Emitters : nth[e] \in 1 .. Len(Batch[e])
  /\ rst \in [Reingests -> ReingestPc]
  /\ listed \in [Reingests -> SUBSET Records]
  /\ todo \in [Reingests -> Seq(Records)]
  /\ count \in [Reingests -> [Counters -> Nat]]
  /\ faults \in 0 .. MaxFaults

Zero == [c \in Counters |-> 0]

Init ==
  /\ db \in DbStates /\ dbChanges = 0
  /\ rows = [r \in Records |-> 0] /\ dropped = {}
  /\ file = [r \in Records |-> "none"] /\ order = <<>>
  /\ archive = {} /\ mirror = [d \in {"pending", "archived"} |-> {}]
  /\ est = [e \in Emitters |-> "record"] /\ nth = [e \in Emitters |-> 1]
  /\ rst = [p \in Reingests |-> "idle"]
  /\ listed = [p \in Reingests |-> {}] /\ todo = [p \in Reingests |-> <<>>]
  /\ count = [p \in Reingests |-> Zero]
  /\ faults = 0

-----------------------------------------------------------------------------
(* The warehouse service.                                                  *)

\* What record_etl_perf_run does with a record.
Stored(r) == db = "ok" /\ r \notin Refused
Insert(r) == rows' = [rows EXCEPT ![r] = IF @ = MaxRows THEN @ ELSE @ + 1]

\* The pending files by mtime, without that of r.
Without(s, r) ==
  IF \E i \in 1 .. Len(s) : s[i] = r THEN RemoveAt(s, CHOOSE i \in 1 .. Len(s) : s[i] = r) ELSE s

-----------------------------------------------------------------------------
(* emit_perf_records.                                                      *)

Current(e) == Batch[e][nth[e]]

\* The next record of the batch, or the end.
Advance(e) ==
  IF nth[e] = Len(Batch[e])
  THEN est' = [est EXCEPT ![e] = "done"] /\ UNCHANGED nth
  ELSE est' = [est EXCEPT ![e] = "record"] /\ nth' = [nth EXCEPT ![e] = @ + 1]

\* The soft service stores the record, or gives up on it with a warning and
\* returns None.
RecordSoft(e) ==
  /\ est[e] = "record" /\ db \notin {"drift", "no_lake"}
  /\ IF Stored(Current(e))
     THEN Insert(Current(e)) /\ UNCHANGED dropped
     ELSE dropped' = dropped \union {Current(e)} /\ UNCHANGED rows
  /\ Advance(e)
  /\ UNCHANGED <<db, dbChanges, store, reingests, faults>>

\* V15SchemaMissingError: to the pending store, or out of the step.
RecordDrift(e) ==
  /\ est[e] = "record" /\ db = "drift"
  /\ est' = [est EXCEPT ![e] = IF Loud THEN "raised" ELSE "open"]
  /\ UNCHANGED <<warehouse, store, nth, reingests, faults>>

\* _cleanup_empty_dirs: a reingest that has moved the last file of a directory removes it,
\* maybe after the mkdir of an emitter and before its write_text.
DirectoryGone(e) == est[e] = "open" /\ \E p \in Reingests : rst[p] = "s3"

\* What nobody handles ends the step: LakeMetadataUnavailableError, and the
\* FileNotFoundError of write_text.
RecordRaises(e) ==
  /\ (est[e] = "record" /\ db = "no_lake") \/ DirectoryGone(e)
  /\ est' = [est EXCEPT ![e] = "raised"]
  /\ UNCHANGED <<warehouse, store, nth, reingests, faults>>

\* write_text truncates, then writes; the name is new each time.
OpenFile(e) ==
  /\ est[e] = "open"
  /\ file' = [file EXCEPT ![Current(e)] = "torn"]
  /\ order' = Append(order, Current(e))
  /\ est' = [est EXCEPT ![e] = "write"]
  /\ UNCHANGED <<warehouse, archive, mirror, nth, reingests, faults>>

WriteFileFails(e) ==                                                \* mutant
  /\ est[e] = "write"
  /\ file' = [file EXCEPT ![Current(e)] = "none"]
  /\ order' = Without(order, Current(e))
  /\ est' = [est EXCEPT ![e] = "mirror"]
  /\ UNCHANGED <<warehouse, archive, mirror, nth, reingests, faults>>
WriteFile(e) ==
  /\ est[e] = "write"
  /\ file' = [file EXCEPT ![Current(e)] = "whole"]
  /\ order' = Append(Without(order, Current(e)), Current(e))
  /\ est' = [est EXCEPT ![e] = "mirror"]
  /\ UNCHANGED <<warehouse, archive, mirror, nth, reingests, faults>>

\* The mirror is best effort.
MirrorFile(e) ==
  /\ est[e] = "mirror"
  /\ \E ok \in BOOLEAN :
       /\ ok => file[Current(e)] = "whole"
       /\ mirror' = IF ok THEN [mirror EXCEPT !["pending"] = @ \union {Current(e)}]
                    ELSE mirror
  /\ Advance(e)
  /\ UNCHANGED <<warehouse, file, order, archive, reingests, faults>>

-----------------------------------------------------------------------------
(* reingest_pending_perf_records.                                          *)

Count(p, c) == count' = [count EXCEPT ![p][c] = @ + 1]
Goto(p, l) == rst' = [rst EXCEPT ![p] = l]
NextFile(p) == Goto(p, "read") /\ todo' = [todo EXCEPT ![p] = Tail(@)]
InHand(p) == Head(todo[p])

Ended == {"idle", "done", "aborted"}

\* Whoever operates the platform starts it again at any time.
List(p) ==
  /\ rst[p] \in Ended
  /\ IF \A q \in Reingests : rst[q] \in Ended
     THEN UNCHANGED faults
     ELSE faults < MaxFaults /\ faults' = faults + 1
  /\ listed' = [listed EXCEPT ![p] = ToSet(order)]
  /\ todo' = [todo EXCEPT ![p] = order]
  /\ count' = [count EXCEPT ![p] = Zero]
  /\ Goto(p, IF order = <<>> THEN "done" ELSE "read")
  /\ UNCHANGED <<warehouse, store, emitters>>

\* A file that is half written or no longer there counts as failed.
Read(p) ==
  /\ rst[p] = "read" /\ todo[p] # <<>>
  /\ IF file[InHand(p)] = "whole"
     THEN /\ Goto(p, "insert") /\ UNCHANGED todo
          /\ count' = [count EXCEPT ![p].scanned = @ + 1]
     ELSE /\ NextFile(p)
          /\ count' = [count EXCEPT ![p].scanned = @ + 1, ![p].failed = @ + 1]
  /\ UNCHANGED <<warehouse, store, emitters, listed, faults>>

InsertPending(p) ==
  /\ rst[p] = "insert" /\ Stored(InHand(p))
  /\ Insert(InHand(p))
  /\ Goto(p, "move") /\ Count(p, "ingested")
  /\ UNCHANGED <<db, dbChanges, dropped, store, emitters, listed, todo, faults>>

\* The strict service raises LakeMetadataUnavailableError for every SQL
\* error: the reingest ends.
AbortMovesOn(p) ==                                                  \* mutant
  /\ rst[p] = "insert" /\ ~Stored(InHand(p))
  /\ Goto(p, "move") /\ Count(p, "failed")
  /\ UNCHANGED <<warehouse, store, emitters, listed, todo, faults>>
Abort(p) ==
  /\ rst[p] = "insert" /\ ~Stored(InHand(p))
  /\ Goto(p, "aborted") /\ Count(p, "failed")
  /\ UNCHANGED <<warehouse, store, emitters, listed, todo, faults>>

\* The connection breaks after the commit: the row is there, the reingest
\* ends as if it were not.
AnswerLost(p) ==
  /\ rst[p] = "insert" /\ Stored(InHand(p)) /\ faults < MaxFaults
  /\ faults' = faults + 1
  /\ Insert(InHand(p))
  /\ Goto(p, "aborted") /\ Count(p, "failed")
  /\ UNCHANGED <<db, dbChanges, dropped, store, emitters, listed, todo>>

\* archive_pending_file: the local move, which fails when another reingest
\* was faster.
Moved(p) == /\ file' = [file EXCEPT ![InHand(p)] = "none"]
            /\ order' = Without(order, InHand(p))
            /\ archive' = archive \union {InHand(p)}
MoveUnlinks(p) ==                                                   \* mutant
  /\ rst[p] = "move" /\ file[InHand(p)] = "whole"
  /\ file' = [file EXCEPT ![InHand(p)] = "none"]
  /\ order' = Without(order, InHand(p))
  /\ Goto(p, "s3")
  /\ UNCHANGED <<warehouse, archive, mirror, emitters, listed, todo, count, faults>>
Move(p) ==
  /\ rst[p] = "move" /\ file[InHand(p)] = "whole"
  /\ Moved(p)
  /\ Goto(p, "s3")
  /\ UNCHANGED <<warehouse, mirror, emitters, listed, todo, count, faults>>

\* Only a warning: the file stays and the next reingest finds it again.
MoveFails(p) ==
  /\ rst[p] = "move"
  /\ \/ file[InHand(p)] # "whole" /\ UNCHANGED faults
     \/ faults < MaxFaults /\ faults' = faults + 1
  /\ NextFile(p)
  /\ UNCHANGED <<warehouse, store, emitters, listed, count>>

\* Copy, then delete; neither needs to succeed.
ArchiveObject(p) ==
  /\ rst[p] = "s3"
  /\ \/ UNCHANGED mirror
     \/ /\ InHand(p) \in mirror["pending"]
        /\ \E deleted \in BOOLEAN :
             mirror' = [pending |-> IF deleted THEN mirror["pending"] \ {InHand(p)}
                                    ELSE mirror["pending"],
                        archived |-> mirror["archived"] \union {InHand(p)}]
  /\ Count(p, "archived")
  /\ NextFile(p)
  /\ UNCHANGED <<warehouse, file, order, archive, emitters, listed, faults>>

Finish(p) ==
  /\ rst[p] = "read" /\ todo[p] = <<>>
  /\ Goto(p, "done")
  /\ UNCHANGED <<warehouse, store, emitters, listed, todo, count, faults>>

-----------------------------------------------------------------------------
(* Faults and the environment.                                             *)

KillEmitter(e) ==
  /\ est[e] \notin {"done", "raised", "killed"} /\ faults < MaxFaults
  /\ faults' = faults + 1
  /\ est' = [est EXCEPT ![e] = "killed"]
  /\ UNCHANGED <<warehouse, store, nth, reingests>>

KillReingest(p) ==
  /\ rst[p] \notin Ended /\ faults < MaxFaults
  /\ faults' = faults + 1
  /\ Goto(p, "idle")
  /\ UNCHANGED <<warehouse, store, emitters, listed, todo, count>>

\* A migration, an outage, a restart.
ChangeDb ==
  /\ dbChanges < MaxDbChanges /\ dbChanges' = dbChanges + 1
  /\ db' \in DbStates \ {db}
  /\ UNCHANGED <<rows, dropped, store, emitters, reingests, faults>>

Emit(e) == \/ RecordSoft(e) \/ RecordDrift(e) \/ RecordRaises(e)
           \/ OpenFile(e) \/ WriteFile(e) \/ MirrorFile(e)
Handle(p) == \/ Read(p) \/ InsertPending(p) \/ Abort(p) \/ Move(p)
             \/ MoveFails(p) \/ ArchiveObject(p) \/ Finish(p)

Next == \/ \E e \in Emitters : Emit(e) \/ KillEmitter(e)
        \/ \E p \in Reingests :
             List(p) \/ Handle(p) \/ AnswerLost(p) \/ KillReingest(p)
        \/ ChangeDb

Spec == Init /\ [][Next]_vars

\* Live processes go on, and reingest-pending is started again after it ends,
\* as its documentation asks for as long as files are pending.
FairSpec == /\ Spec
            /\ \A e \in Emitters : WF_vars(Emit(e))
            /\ \A p \in Reingests : WF_vars(List(p)) /\ WF_vars(Handle(p))

-----------------------------------------------------------------------------
(* Properties.                                                             *)

\* A whole pending file only disappears into the archive and only once its
\* row is in the database, and its mirror object only after that: neither a
\* refused insert, a kill, nor a concurrent reingest loses one.
KeptUntilStored ==
  [][\A r \in Records :
       /\ file[r] = "whole" /\ file'[r] # "whole"
            => r \in archive' /\ rows[r] > 0
       /\ r \in mirror["pending"] /\ r \notin mirror'["pending"]
            => r \in archive /\ rows[r] > 0]_vars

\* What an emitter has gone past is in the database, in the pending directory
\* or in the archive, except what the soft service dropped for another reason
\* than drift.
Passed(e) == {Batch[e][i] : i \in 1 .. IF est[e] \in {"done", "mirror"}
                                       THEN nth[e] ELSE nth[e] - 1}
NothingLostToDrift ==
  \A e \in Emitters : \A r \in Passed(e) \ dropped :
    rows[r] > 0 \/ file[r] = "whole"

\* Reingests that do not overlap insert each record once, unless one is killed
\* or an answer or a move fails.  (Nothing makes the insert idempotent.)
StoredOnce == faults = 0 => \A r \in Records : rows[r] <= 1

\* Exit status 0 means that everything listed has been stored and, if nothing
\* is reported as left behind, is out of the pending directory.
ExitZeroMeansStored ==
  \A p \in Reingests : rst[p] = "done" /\ count[p].failed = 0 =>
    /\ \A r \in listed[p] : rows[r] > 0
    /\ count[p].archived = Cardinality(listed[p]) => listed[p] \subseteq archive

\* Every record is accounted for: none is lost on its way to the pending directory, none
\* stored twice without a fault, and exit status 0 of a reingest means what it says.
RecordsAccounted == NothingLostToDrift /\ StoredOnce /\ ExitZeroMeansStored

\* Once the schema is and stays migrated, every pending record is stored and
\* archived, however often the reingest was killed before.
Drains ==
  <>[](db = "ok") => \A r \in Records : file[r] = "whole" ~> r \in archive

\* The docstring of reingest_pending_perf_records: "a single database write
\* that fails is counted as failed and goes on, it does not block the records
\* after it".
NoRecordBlocks ==
  <>[](db = "ok") =>
    \A r \in Records \ Refused : file[r] = "whole" ~> rows[r] > 0
=============================================================================
