------------------------------ MODULE FormatBench ------------------------------
(***************************************************************************)
(* L2_write.py and L2_measure.py: the writer puts every workload in every  *)
(* format under the prefix of its run id, checks that each can be read     *)
(* back, and writes a manifest at its end; the measurements take the       *)
(* manifest and read the datasets it calls ok.  Run ids repeat (RUN_ID),   *)
(* the manifest has one place, and the next writer may be started while    *)
(* the measurements of the last one run.                                   *)
(***************************************************************************)
EXTENDS Integers, Selection

CONSTANTS
    L2Workloads,  \* ALL_WORKLOADS, in order
    L2Formats,    \* ALL_FORMATS, in order
    L2RunIds,     \* the run ids used
    L2Sizes,      \* the values of --n-rows used
    BlobCap,      \* the default cap of the rows of tab_blob
    POINT_TAKE_N, \* how many random rows point_take asks for
    BLOB_TAKE_N,  \* how many random rows blob_take asks for
    L2MaxTasks,   \* bound: tasks in the plan of a writer
    L2MaxWrites,  \* bound: how many writers are started
    L2MaxReads    \* bound: how many measurements are started

ASSUME FormatBenchAssumption ==
    /\ L2Workloads \in Seq(STRING) /\ IsInjective(L2Workloads)
    /\ L2Formats \in Seq(STRING) /\ IsInjective(L2Formats)
    /\ L2RunIds # {}
    /\ L2Sizes \subseteq Nat /\ BlobCap \in Nat
    /\ POINT_TAKE_N \in Nat /\ BLOB_TAKE_N \in Nat
    /\ L2MaxTasks \in Nat /\ L2MaxWrites \in Nat /\ L2MaxReads \in Nat

LANCE_FORMATS == {"lance_2.0", "lance_2.1", "lance_2.2"}
IsLance(k) == k[2] \in LANCE_FORMATS

(* The backend of a task <<workload, format>>. *)
writer_mode(k) == IF IsLance(k) \/ k[1] # "tab_flat" THEN "single" ELSE "spark"

(* Workload by workload, and within each format by format. *)
plan_tasks(ws, fs) ==
    FlattenSeq([i \in DOMAIN ws |-> [j \in DOMAIN fs |-> <<ws[i], fs[j]>>]])
L2AllTasks == plan_tasks(L2Workloads, L2Formats)
L2Tasks    == ToSet(L2Workloads) \X ToSet(L2Formats)
L2Places   == L2RunIds \X L2Tasks

(* The rows of the source table of a workload, of a run with --n-rows n. *)
source_rows(wl, n) == IF wl = "tab_blob" /\ n > BlobCap THEN BlobCap ELSE n

(* A dataset that can be read has rows and, in Lance, a version; the code  *)
(* asks a Parquet dataset for no version.                                  *)
Unreadable    == [readable |-> FALSE, rows |-> 0, version |-> 0]
Dataset(n, v) == [readable |-> TRUE, rows |-> n, version |-> v]

(* A record of the manifest, and one of the results, which goes on with    *)
(* what was measured: rows scanned, version, and the rows point_take got.  *)
L2NoRecord  == [status |-> "absent", n_rows |-> 0, verify |-> Unreadable]
L2NoResult  == [status |-> "absent", record |-> L2NoRecord, scanned |-> Unreadable, taken |-> 0]
L2NoRecords == [k \in L2Tasks |-> L2NoRecord]
L2NoResults == [k \in L2Tasks |-> L2NoResult]

(* A JSON file is absent, torn, or saved whole. *)
L2NoFile   == [state |-> "none", run_id |-> CHOOSE r \in L2RunIds : TRUE, records |-> L2NoRecords]
L2TornFile == [L2NoFile EXCEPT !.state = "torn"]

VARIABLES
    l2s3,       \* the dataset at each place
    l2manifest, \* L2_manifest.json
    l2out,      \* L2_format_compare.json
    l2w,        \* the writer: pc, run id, --n-rows, tasks left, records
    l2m,        \* the measurements: pc, the manifest read, tasks left, handle, records
    l2writes, l2reads,  \* how many of each were started
    l2since     \* history: places written to since the manifest was saved

L2Vars == <<l2s3, l2manifest, l2out, l2w, l2m, l2writes, l2reads, l2since>>

WriterIdle  == [pc |-> "none", run_id |-> CHOOSE r \in L2RunIds : TRUE, n_rows |-> 0,
                todo |-> <<>>, records |-> L2NoRecords]
MeasureIdle == [pc |-> "none", manifest |-> L2NoFile, todo |-> <<>>,
                handle |-> Unreadable, records |-> L2NoResults]

L2Init ==
    /\ l2s3 = [p \in L2Places |-> Unreadable]
    /\ l2manifest = L2NoFile /\ l2out = L2NoFile
    /\ l2w = WriterIdle /\ l2m = MeasureIdle
    /\ l2writes = 0 /\ l2reads = 0 /\ l2since = {}

-----------------------------------------------------------------------------
(* L2_write.py                                                             *)

l2task  == Head(l2w.todo)
l2place == <<l2w.run_id, l2task>>

WriterStart ==
    /\ l2w.pc = "none" /\ l2writes < L2MaxWrites
    /\ \E ws \in SUBSET ToSet(L2Workloads), fs \in SUBSET ToSet(L2Formats),
          r \in L2RunIds, n \in L2Sizes :
          LET tasks == plan_tasks(Kept(L2Workloads, ws), Kept(L2Formats, fs))
          IN  /\ tasks # <<>> /\ Len(tasks) <= L2MaxTasks
              /\ l2w' = [WriterIdle EXCEPT !.pc = "write", !.run_id = r, !.n_rows = n, !.todo = tasks]
    /\ l2writes' = l2writes + 1
    /\ UNCHANGED <<l2s3, l2manifest, l2out, l2m, l2reads, l2since>>

(* What a write that raises leaves behind, where old was and new was to    *)
(* be.  A Lance overwrite commits or does not.  A Parquet file may be      *)
(* torn.  Spark removes what was there first and may leave some part files.*)
AfterFailure(k, old, new) ==
    CASE IsLance(k)               -> {old, new}
      [] writer_mode(k) = "spark" -> {old, Unreadable, new} \cup {Dataset(i, 0) : i \in 1 .. new.rows}
      [] OTHER                    -> {old, Unreadable, new}

(* Seeded bug: the end of the plan is noticed one task late. *)
Appended_Late(k, rec) == [l2w EXCEPT !.pc = IF l2w.todo = <<>> THEN "open" ELSE "write",
                                     !.todo = Tail(l2w.todo), !.records[k] = rec]
Appended(k, rec) == [l2w EXCEPT !.pc = IF Tail(l2w.todo) = <<>> THEN "open" ELSE "write",
                                !.todo = Tail(l2w.todo), !.records[k] = rec]
Record(k, status, d) == [status |-> status, n_rows |-> source_rows(k[1], l2w.n_rows), verify |-> d]
FailedRecord(k)      == Record(k, "failed", Unreadable)

(* mode="overwrite": a Lance dataset gets a further version.  A write that *)
(* returns may have left the place as it was (the silent overwrite         *)
(* elsewhere that verify_written is there for).                            *)
WriteDataset ==
    /\ l2w.pc = "write"
    /\ LET old == l2s3[l2place]
           new == Dataset(source_rows(l2task[1], l2w.n_rows), IF IsLance(l2task) THEN old.version + 1 ELSE 0)
       IN  \/ /\ \E c \in {new, old} : l2s3' = [l2s3 EXCEPT ![l2place] = c]
              /\ l2w' = [l2w EXCEPT !.pc = "verify"]
           \/ /\ \E c \in AfterFailure(l2task, old, new) : l2s3' = [l2s3 EXCEPT ![l2place] = c]
              /\ l2w' = Appended(l2task, FailedRecord(l2task))
    /\ l2since' = l2since \cup {l2place}
    /\ UNCHANGED <<l2manifest, l2out, l2m, l2writes, l2reads>>

(* Seeded bug: an error while verifying leaves the record ok. *)
verify_written_Trusts ==
    /\ l2w.pc = "verify"
    /\ l2w' = Appended(l2task, Record(l2task, "ok", l2s3[l2place]))
    /\ UNCHANGED <<l2s3, l2manifest, l2out, l2m, l2writes, l2reads, l2since>>

(* The dataset is opened where it was to be written, and counted; then     *)
(* sized.  Whatever it holds, ok is that it could be read.                 *)
verify_written ==
    /\ l2w.pc = "verify"
    /\ \/ /\ l2s3[l2place].readable
          /\ l2w' = Appended(l2task, Record(l2task, "ok", l2s3[l2place]))
       \/ l2w' = Appended(l2task, FailedRecord(l2task))
    /\ UNCHANGED <<l2s3, l2manifest, l2out, l2m, l2writes, l2reads, l2since>>

(* The manifest is opened for writing, which empties it, and then dumped.  *)
ManifestOpen ==
    /\ l2w.pc = "open"
    /\ l2manifest' = L2TornFile
    /\ l2w' = [l2w EXCEPT !.pc = "dump"]
    /\ UNCHANGED <<l2s3, l2out, l2m, l2writes, l2reads, l2since>>

ManifestDump ==
    /\ l2w.pc = "dump"
    /\ l2manifest' = [state |-> "saved", run_id |-> l2w.run_id, records |-> l2w.records]
    /\ l2w' = WriterIdle /\ l2since' = {}
    /\ UNCHANGED <<l2s3, l2out, l2m, l2writes, l2reads>>

(* Ctrl-C, SystemExit, a panic of the verification, or the system: the     *)
(* manifest is not written, or not to its end.                             *)
WriterKilled ==
    /\ l2w.pc # "none"
    /\ l2w' = WriterIdle
    /\ UNCHANGED <<l2s3, l2manifest, l2out, l2m, l2writes, l2reads, l2since>>

-----------------------------------------------------------------------------
(* L2_measure.py                                                           *)

l2rec == l2m.manifest.records[Head(l2m.todo)]
l2dir == <<l2m.manifest.run_id, Head(l2m.todo)>>

(* Records that are not ok are passed on as skipped; the filters apply to  *)
(* the others.  A manifest that is torn or missing ends the script.        *)
MeasureStart ==
    /\ l2m.pc = "none" /\ l2reads < L2MaxReads
    /\ l2manifest.state = "saved"
    /\ \E ws \in SUBSET ToSet(L2Workloads), fs \in SUBSET ToSet(L2Formats) :
          LET rs    == l2manifest.records
              todo  == Kept(L2AllTasks, {k \in ws \X fs : rs[k].status = "ok"})
          IN  l2m' = [pc |-> IF todo = <<>> THEN "open" ELSE "measure", manifest |-> l2manifest,
                      todo |-> todo, handle |-> Unreadable,
                      records |-> [k \in L2Tasks |->
                                      IF rs[k].status = "failed"
                                        THEN [L2NoResult EXCEPT !.status = "skipped", !.record = rs[k]]
                                        ELSE L2NoResult]]
    /\ l2reads' = l2reads + 1
    /\ UNCHANGED <<l2s3, l2manifest, l2out, l2w, l2writes, l2since>>

Result(status, d, taken) ==
    [l2m EXCEPT !.pc = IF Tail(l2m.todo) = <<>> THEN "open" ELSE "measure",
                !.todo = Tail(l2m.todo), !.handle = Unreadable,
                !.records[Head(l2m.todo)] = [status |-> status, record |-> l2rec,
                                             scanned |-> d, taken |-> taken]]
MeasureError == Result("error", Unreadable, 0)

MeasureOpen ==
    /\ l2m.pc = "measure"
    /\ \/ l2s3[l2dir].readable /\ l2m' = [l2m EXCEPT !.pc = "scan", !.handle = l2s3[l2dir]]
       \/ l2m' = MeasureError
    /\ UNCHANGED <<l2s3, l2manifest, l2out, l2w, l2writes, l2reads, l2since>>

(* Random rows below the n_rows of the manifest, each once: point_take and *)
(* blob_take differ in how many; nothing is taken of tab_nested.           *)
PointTakes == {"tab_flat", "tab_vec"}
TakeN(wl, n_rows) ==
    LET n == CASE wl \in PointTakes -> POINT_TAKE_N [] wl = "tab_blob" -> BLOB_TAKE_N [] OTHER -> 0
    IN  IF n_rows < n THEN n_rows ELSE n

(* How many a take from d may get.  Lance raises when one of them is not   *)
(* there; Parquet filters by their ids, and gets those that are.           *)
lance_take(wl, n_rows, d) == IF TakeN(wl, n_rows) > d.rows THEN {} ELSE {TakeN(wl, n_rows)}
parquet_take(wl, n_rows, d) ==
    {i \in 0 .. TakeN(wl, n_rows) :
        i <= d.rows /\ TakeN(wl, n_rows) - i <= (IF d.rows < n_rows THEN n_rows - d.rows ELSE 0)}

(* Only point_take returns a table, whose rows_returned the result keeps.  *)
Measured(d, i) == Result("measured", d, IF Head(l2m.todo)[1] \in PointTakes THEN i ELSE 0)

(* Seeded bug: every operation opens the dataset again. *)
MeasureScan_Reopens ==
    /\ l2m.pc = "scan"
    /\ l2m' \in {MeasureError, Measured([l2m.handle EXCEPT !.rows = l2s3[l2dir].rows],
                                        TakeN(Head(l2m.todo)[1], l2rec.n_rows))}
    /\ UNCHANGED <<l2s3, l2manifest, l2out, l2w, l2writes, l2reads, l2since>>

(* A Lance dataset stays at the version opened; Parquet files are read as  *)
(* they are by then.  Any operation may raise.                             *)
MeasureScan ==
    /\ l2m.pc = "scan"
    /\ \/ /\ IsLance(Head(l2m.todo))
          /\ \E i \in lance_take(Head(l2m.todo)[1], l2rec.n_rows, l2m.handle) :
                l2m' = Measured(l2m.handle, i)
       \/ /\ ~IsLance(Head(l2m.todo)) /\ l2s3[l2dir].readable
          /\ \E i \in parquet_take(Head(l2m.todo)[1], l2rec.n_rows, l2s3[l2dir]) :
                l2m' = Measured(l2s3[l2dir], i)
       \/ l2m' = MeasureError
    /\ UNCHANGED <<l2s3, l2manifest, l2out, l2w, l2writes, l2reads, l2since>>

ResultsOpen ==
    /\ l2m.pc = "open"
    /\ l2out' = L2TornFile
    /\ l2m' = [l2m EXCEPT !.pc = "dump"]
    /\ UNCHANGED <<l2s3, l2manifest, l2w, l2writes, l2reads, l2since>>

ResultsDump ==
    /\ l2m.pc = "dump"
    /\ l2out' = [state |-> "saved", run_id |-> l2m.manifest.run_id, records |-> l2m.records]
    /\ l2m' = MeasureIdle
    /\ UNCHANGED <<l2s3, l2manifest, l2w, l2writes, l2reads, l2since>>

MeasureKilled ==
    /\ l2m.pc # "none"
    /\ l2m' = MeasureIdle
    /\ UNCHANGED <<l2s3, l2manifest, l2out, l2w, l2writes, l2reads, l2since>>

L2Next ==
    \/ WriterStart \/ WriteDataset \/ verify_written \/ ManifestOpen \/ ManifestDump \/ WriterKilled
    \/ MeasureStart \/ MeasureOpen \/ MeasureScan \/ ResultsOpen \/ ResultsDump \/ MeasureKilled

L2Spec == L2Init /\ [][L2Next]_L2Vars

-----------------------------------------------------------------------------
(* Properties.                                                             *)

L2Datasets == [readable : BOOLEAN, rows : Nat, version : Nat]
L2Record   == [status : {"absent", "ok", "failed"}, n_rows : Nat, verify : L2Datasets]
L2Result   == [status : {"absent", "skipped", "measured", "error"}, record : L2Record,
               scanned : L2Datasets, taken : Nat]
Manifests  == [state : {"none", "torn", "saved"}, run_id : L2RunIds, records : [L2Tasks -> L2Record]]

(* Every variable of the writer, the measurements and their files keeps    *)
(* its type, the history of writes included; a dataset that cannot be read *)
(* has no rows, and none has more versions than writers were started.      *)
L2TypeOK ==
    /\ l2s3 \in [L2Places -> L2Datasets]
    /\ \A p \in L2Places : /\ ~l2s3[p].readable => l2s3[p] = Unreadable
                           /\ l2s3[p].version \in 0 .. L2MaxWrites
    /\ l2manifest \in Manifests
    /\ IF l2out.state = "saved"
         THEN l2out \in [state : {"saved"}, run_id : L2RunIds, records : [L2Tasks -> L2Result]]
         ELSE l2out \in Manifests
    /\ l2w \in [pc : {"none", "write", "verify", "open", "dump"}, run_id : L2RunIds, n_rows : Nat,
                todo : Seq(L2Tasks), records : [L2Tasks -> L2Record]]
    /\ l2w.pc \in {"write", "verify"} <=> l2w.todo # <<>>
    /\ l2m \in [pc : {"none", "measure", "scan", "open", "dump"}, manifest : Manifests,
                todo : Seq(L2Tasks), handle : L2Datasets, records : [L2Tasks -> L2Result]]
    /\ l2m.pc \in {"measure", "scan"} <=> l2m.todo # <<>>
    /\ l2writes \in 0 .. L2MaxWrites /\ l2reads \in 0 .. L2MaxReads
    /\ l2since \subseteq L2Places

(* "confirm the dataset is readable at exactly the URI we passed"          *)
(* (L2_write.py:319): what a saved manifest calls ok is there, with the    *)
(* rows and the version found when it was verified, although writes were   *)
(* silently lost, failed half-way or were killed under the same run id,    *)
(* until the next write to that place.                                     *)
OkMeansReadable ==
    l2manifest.state = "saved" =>
        \A k \in L2Tasks :
            LET rec == l2manifest.records[k]
                p   == <<l2manifest.run_id, k>>
            IN  rec.status = "ok" /\ p \notin l2since => l2s3[p].readable /\ l2s3[p] = rec.verify

(* The version tells a stale Lance dataset: one that was measured at the   *)
(* version the manifest has was measured with the rows the manifest has,   *)
(* and, where there is a point_take, took as many of them as the others,   *)
(* whatever was written to the place before, meanwhile and since.          *)
MeasuredAsVerified ==
    l2out.state = "saved" =>
        \A k \in L2Tasks :
            LET res == l2out.records[k]
            IN  res.status = "measured" /\ IsLance(k) /\ res.scanned.version = res.record.verify.version =>
                    /\ res.scanned.rows = res.record.verify.rows
                    /\ k[1] \in PointTakes => res.taken = TakeN(k[1], res.record.n_rows)
=============================================================================
