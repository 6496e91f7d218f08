----------------------------- MODULE SmallFiles -----------------------------
(***************************************************************************)
(* M6_compact.py: cut a baseline and NAppends small batches out of the     *)
(* record batches of a Parquet file; write each to a Lance dataset and     *)
(* to an Iceberg table; count and scan both, compact both, count and scan  *)
(* again.  The Lance dataset lies under a prefix of the run, the Iceberg   *)
(* table has one name for all runs.  The script compares none of the       *)
(* counts: that both formats hold the same rows is left to how they are    *)
(* cut and written.  Any step may raise, and the script may be killed.     *)
(***************************************************************************)
EXTENDS Integers, SequencesExt

CONSTANTS
    BaselineRows, AppendRows, NAppends,  \* the arguments
    SourceRows,  \* rows of the Parquet file
    RunIds,      \* run ids, which RUN_ID may repeat
    MaxRuns      \* bound: how often the script is started

n_required == BaselineRows + NAppends * AppendRows

ASSUME SmallFilesAssumption ==
    /\ BaselineRows \in Nat /\ AppendRows \in Nat \ {0} /\ NAppends \in Nat
    /\ SourceRows \in Nat /\ SourceRows >= n_required
    /\ MaxRuns \in Nat

VARIABLES
    lance,    \* lance[r]: the fragments of the dataset of run id r, <<>> when there is none
    iceberg,  \* the data files of store_sales_m6, <<>> when it is empty
    exists,   \* store_sales_m6 exists
    staging,  \* the run ids that have a staging directory
    local,    \* the batches that lie in the driver's /tmp: 0 is the baseline, k + 1 append_k
    runs,     \* times the script was started
    pc,       \* where it is
    rid, keep, \* its run id, and --keep-working-copies
    all_batches, \* the rows of each record batch loaded
    i,        \* appends done
    out_rec,  \* what it has measured
    raised,   \* the try was left by an exception
    out,      \* the results file
    warned    \* history: a removal failed in the last run, or it was killed

tables == <<lance, iceberg, exists, staging, local>>
args   == <<rid, keep, runs>>
vars   == <<tables, args, all_batches, pc, i, out_rec, raised, out, warned>>

Smaller(a, b) == IF a < b THEN a ELSE b
Larger(a, b)  == IF a < b THEN b ELSE a
Span(from, n) == [k \in 1 .. n |-> from + k - 1]

-----------------------------------------------------------------------------
(* Cutting the source.                                                     *)

(* iter_batches yields at most AppendRows rows at a time, fewer at the end *)
(* of a row group; what exceeds n_required is sliced off.                  *)
Load(s, n) ==
    IF s.yielded >= n_required THEN s
    ELSE LET rows == Smaller(n, n_required - s.yielded)
         IN  [yielded |-> s.yielded + rows, batches |-> Append(s.batches, rows)]

load_source_batches(sizes) ==
    FoldLeft(Load, [yielded |-> 0, batches |-> <<>>], sizes).batches

Loads ==
    {load_source_batches(sizes) :
        sizes \in {s \in UNION {[1 .. k -> 1 .. AppendRows] : k \in 0 .. SourceRows} :
                      FoldLeft(+, 0, s) = SourceRows}}

(* Seeded bug: rows are counted only while the start is looked for. *)
take_rows_Uncounted(start, n) ==
    LET Uncounted(s, rows) ==
          IF s.got + rows <= start THEN [s EXCEPT !.got = @ + rows]
          ELSE LET from == Larger(0, start - s.got)
                   to   == Smaller(rows, start + n - s.got)
               IN  [s EXCEPT !.rows = @ \o Span(s.got + from, Larger(0, to - from))]
    IN  FoldLeft(Uncounted, [got |-> 0, rows |-> <<>>, done |-> FALSE], all_batches).rows

(* One batch more of those that n rows from start on are sliced off; a     *)
(* break leaves the rest of them alone.                                    *)
Take(start, n, s, rows) ==
    IF s.done THEN s
    ELSE IF s.got + rows <= start THEN [s EXCEPT !.got = @ + rows]
    ELSE LET from == Larger(0, start - s.got)
             to   == Smaller(rows, start + n - s.got)
         IN  [got  |-> s.got + rows,
              rows |-> s.rows \o Span(s.got + from, Larger(0, to - from)),
              done |-> s.got + rows >= start + n]

(* The rows, by their numbers, that are sliced off the loaded batches. *)
take_rows(start, n) ==
    FoldLeft(LAMBDA s, rows : Take(start, n, s, rows),
             [got |-> 0, rows |-> <<>>, done |-> FALSE], all_batches).rows

baseline_tbl == take_rows(0, BaselineRows)
batch_tbl(k) == take_rows(BaselineRows + k * AppendRows, AppendRows)

-----------------------------------------------------------------------------
NoCounts == [lance |-> -1, iceberg |-> -1]
Nothing  == [pre |-> NoCounts, pre_scan |-> NoCounts, post |-> NoCounts, post_scan |-> NoCounts]

Init ==
    /\ lance = [r \in RunIds |-> <<>>] /\ iceberg = <<>> /\ exists = FALSE
    /\ staging = {} /\ local = {} /\ runs = 0 /\ pc = "end" /\ rid \in RunIds /\ keep = FALSE
    /\ all_batches = <<>> /\ i = 0 /\ out_rec = Nothing /\ raised = FALSE
    /\ out = Nothing /\ warned = FALSE

(* Loads the batches, removes what is under the run's prefix (a failure is *)
(* a warning) and makes the staging directory; any of these may raise, and *)
(* nothing is cleaned up.                                                  *)
Start ==
    /\ pc = "end" /\ runs < MaxRuns
    /\ runs' = runs + 1
    /\ \E r \in RunIds, batches \in Loads, removed \in BOOLEAN :
          /\ rid' = r
          /\ lance' = IF removed THEN [lance EXCEPT ![r] = <<>>] ELSE lance
          /\ \/ /\ pc' = "write_lance" /\ all_batches' = batches
                /\ staging' = staging \cup {r} /\ warned' = FALSE
             \/ pc' = "end" /\ warned' = TRUE /\ UNCHANGED <<all_batches, staging>>
    /\ keep' \in BOOLEAN
    /\ UNCHANGED <<iceberg, exists, local, i, out_rec, raised, out>>

Goto(next) == pc' = next /\ UNCHANGED <<args, all_batches, out, raised>>

(* Seeded bug: the baseline is appended like the other batches. *)
WriteLance_Appends ==
    /\ pc = "write_lance"
    /\ lance' = [lance EXCEPT ![rid] = Append(@, baseline_tbl)]
    /\ Goto("create_iceberg")
    /\ UNCHANGED <<iceberg, exists, staging, local, i, out_rec, warned>>

(* mode="overwrite": whatever an earlier run left is not in the dataset. *)
WriteLance ==
    /\ pc = "write_lance"
    /\ lance' = [lance EXCEPT ![rid] = <<baseline_tbl>>]
    /\ Goto("create_iceberg")
    /\ UNCHANGED <<iceberg, exists, staging, local, i, out_rec, warned>>

(* Seeded bug: CREATE TABLE IF NOT EXISTS without the DROP before it. *)
iceberg_create_empty_IfNotExists ==
    /\ pc = "create_iceberg"
    /\ exists' = TRUE
    /\ Goto("write_iceberg")
    /\ UNCHANGED <<lance, iceberg, staging, local, i, out_rec, warned>>

(* DROP TABLE IF EXISTS, CREATE ... AS SELECT ... WHERE 1=0. *)
iceberg_create_empty ==
    /\ pc = "create_iceberg"
    /\ exists' = TRUE /\ iceberg' = <<>>
    /\ Goto("write_iceberg")
    /\ UNCHANGED <<lance, staging, local, i, out_rec, warned>>

(* spark_table_from_arrow hands a batch to Spark over HDFS: it is written  *)
(* to /tmp first, over what an earlier run left of that name, and removed  *)
(* from there once the put returns.                                        *)
HandsOver  == pc \in {"write_iceberg", "append_iceberg"}
batch_name == IF pc = "write_iceberg" THEN 0 ELSE i + 1

WriteLocal ==
    /\ HandsOver
    /\ local' = local \cup {batch_name}
    /\ UNCHANGED <<lance, iceberg, exists, staging, args, pc, all_batches, i, out_rec, raised, out, warned>>

HandedOver == batch_name \in local /\ local' = local \ {batch_name}

(* repartition(1): one data file. *)
WriteIceberg ==
    /\ pc = "write_iceberg" /\ HandedOver
    /\ iceberg' = <<baseline_tbl>> \o iceberg
    /\ Goto(IF NAppends = 0 THEN "count" ELSE "append_lance")
    /\ UNCHANGED <<lance, exists, staging, i, out_rec, warned>>

AppendLance ==
    /\ pc = "append_lance"
    /\ lance' = [lance EXCEPT ![rid] = Append(@, batch_tbl(i))]
    /\ Goto("append_iceberg")
    /\ UNCHANGED <<iceberg, exists, staging, local, i, out_rec, warned>>

AppendIceberg ==
    /\ pc = "append_iceberg" /\ HandedOver
    /\ iceberg' = Append(iceberg, batch_tbl(i))
    /\ i' = i + 1
    /\ Goto(IF i' = NAppends THEN "count" ELSE "append_lance")
    /\ UNCHANGED <<lance, exists, staging, out_rec, warned>>

Count == [lance |-> Len(lance[rid]), iceberg |-> Len(iceberg)]

CountPre ==
    /\ pc = "count"
    /\ out_rec' = [out_rec EXCEPT !.pre = Count]
    /\ Goto("scan")
    /\ UNCHANGED <<tables, i, warned>>

(* rows_returned of each scan; an error is recorded and the script goes on. *)
Scans == [lance : {-1, Len(FlattenSeq(lance[rid]))}, iceberg : {-1, Len(FlattenSeq(iceberg))}]

ScanPre ==
    /\ pc = "scan"
    /\ \E s \in Scans : out_rec' = [out_rec EXCEPT !.pre_scan = s]
    /\ Goto("compact_lance")
    /\ UNCHANGED <<tables, i, warned>>

(* compact_files() and rewrite_data_files: one file, or what there was. *)
Compacted(files) == {files, <<FlattenSeq(files)>>}

CompactLance ==
    /\ pc = "compact_lance"
    /\ \E files \in Compacted(lance[rid]) : lance' = [lance EXCEPT ![rid] = files]
    /\ Goto("compact_iceberg")
    /\ UNCHANGED <<iceberg, exists, staging, local, i, out_rec, warned>>

CompactIceberg ==
    /\ pc = "compact_iceberg"
    /\ iceberg' \in Compacted(iceberg)
    /\ Goto("count_post")
    /\ UNCHANGED <<lance, exists, staging, local, i, out_rec, warned>>

CountPost ==
    /\ pc = "count_post"
    /\ out_rec' = [out_rec EXCEPT !.post = Count]
    /\ Goto("scan_post")
    /\ UNCHANGED <<tables, i, warned>>

ScanPost ==
    /\ pc = "scan_post"
    /\ \E s \in Scans : out_rec' = [out_rec EXCEPT !.post_scan = s]
    /\ Goto("drop")
    /\ UNCHANGED <<tables, i, warned>>

(* A command raises, or the user interrupts, in the try; one that raises   *)
(* after it has taken effect is its step and then this one.  A put that    *)
(* fails or times out leaves the batch in /tmp; what raises behind it does *)
(* so without the batch.                                                   *)
InTry == pc \notin {"end", "drop", "rm", "save"}

Raise ==
    /\ InTry
    /\ pc' = "drop" /\ raised' = TRUE
    /\ UNCHANGED local \/ (HandsOver /\ HandedOver)
    /\ UNCHANGED <<lance, iceberg, exists, staging, args, all_batches, i, out_rec, out, warned>>

(* The script ends, and its variables with it. *)
Ends ==
    pc' = "end" /\ i' = 0 /\ all_batches' = <<>> /\ out_rec' = Nothing /\ raised' = FALSE

Finally(next) ==
    IF raised /\ next = "save" THEN Ends
    ELSE pc' = next /\ UNCHANGED <<i, all_batches, out_rec, raised>>

(* Seeded bug: after an exception nothing is dropped. *)
Drop_OnSuccess ==
    /\ pc = "drop"
    /\ IF keep \/ raised
         THEN Finally("save") /\ UNCHANGED <<iceberg, exists, warned>>
         ELSE /\ exists' = FALSE /\ iceberg' = <<>> /\ UNCHANGED warned
              /\ Finally("rm")
    /\ UNCHANGED <<lance, staging, local, args, out>>

(* The finally clause: the table is dropped, which may fail unnoticed. *)
Drop ==
    /\ pc = "drop"
    /\ IF keep
         THEN Finally("save") /\ UNCHANGED <<iceberg, exists, warned>>
         ELSE /\ \/ exists' = FALSE /\ iceberg' = <<>> /\ UNCHANGED warned
                 \/ UNCHANGED <<iceberg, exists>> /\ warned' = TRUE
              /\ Finally("rm")
    /\ UNCHANGED <<lance, staging, local, args, out>>

(* The run's prefix and the staging directory: a failure is a warning, a   *)
(* time-out is raised.                                                     *)
RemovePrefixes ==
    /\ pc = "rm"
    /\ \E rmLance, rmStaging, timeout \in BOOLEAN :
          /\ timeout => ~rmLance \/ ~rmStaging
          /\ lance' = IF rmLance THEN [lance EXCEPT ![rid] = <<>>] ELSE lance
          /\ staging' = IF rmStaging THEN staging \ {rid} ELSE staging
          /\ warned' = (warned \/ ~rmLance \/ ~rmStaging)
          /\ IF timeout THEN Ends ELSE Finally("save")
    /\ UNCHANGED <<iceberg, exists, local, args, out>>

Save ==
    /\ pc = "save"
    /\ out' = out_rec
    /\ Ends
    /\ UNCHANGED <<tables, args, warned>>

Kill ==
    /\ pc # "end"
    /\ Ends
    /\ warned' = TRUE
    /\ UNCHANGED <<tables, args, out>>

Next ==
    \/ Start \/ WriteLance \/ iceberg_create_empty \/ WriteLocal \/ WriteIceberg
    \/ AppendLance \/ AppendIceberg \/ CountPre \/ ScanPre
    \/ CompactLance \/ CompactIceberg \/ CountPost \/ ScanPost
    \/ Raise \/ Drop \/ RemovePrefixes \/ Save \/ Kill

Spec == Init /\ [][Next]_vars

-----------------------------------------------------------------------------
(* Properties.                                                             *)

(* However the Parquet reader cuts the file into record batches, the       *)
(* baseline and the appended batches are the first rows of it, each once   *)
(* and in order.                                                           *)
SlicesPartitionTheSource ==
    pc # "end" =>
        baseline_tbl \o FlattenSeq([k \in 1 .. NAppends |-> batch_tbl(k - 1)])
            = Span(0, n_required)

(* Everything is appended, or the try was left on the way there. *)
PastAppends ==
    pc \in {"count", "scan", "compact_lance", "compact_iceberg", "count_post", "scan_post",
            "drop", "rm", "save"}

(* Both tables are written in step, whatever earlier runs, failed or       *)
(* killed, with this run id or another, have left of either.               *)
FormatsInStep ==
    InTry /\ pc \notin {"write_lance", "create_iceberg", "write_iceberg"} =>
        LET ahead == IF pc = "append_iceberg" THEN <<batch_tbl(i)>> ELSE <<>>
        IN  FlattenSeq(lance[rid]) = FlattenSeq(iceberg \o ahead)

(* What is saved compares like with like: before the compaction there were *)
(* N_APPENDS + 1 small files of either format, and every scan that did not *)
(* fail read exactly the rows required.                                    *)
SavedIsComparable ==
    out # Nothing =>
        /\ out.pre = [lance |-> NAppends + 1, iceberg |-> NAppends + 1]
        /\ \A scan \in {out.pre_scan, out.post_scan}, f \in {"lance", "iceberg"} :
              scan[f] \in {-1, n_required}
        /\ \A f \in {"lance", "iceberg"} : out.post[f] \in 1 .. out.pre[f]

(* A run in which no removal failed leaves nothing in the bucket, the      *)
(* catalog and on HDFS, whether it finished, failed or was interrupted,    *)
(* unless it was to keep the copies.  In the driver's /tmp a batch stays   *)
(* when its put fails, and no clean-up is for it; but a run that gets past *)
(* its appends has removed every one, its own and those earlier runs of as *)
(* many appends left.                                                      *)
CleanRunLeavesNothing ==
    /\ pc = "end" /\ runs > 0 /\ ~keep /\ ~warned =>
          lance[rid] = <<>> /\ ~exists /\ rid \notin staging
    /\ PastAppends /\ ~raised => local = {}
=============================================================================
