---------------------------- MODULE TpcdsPipeline ----------------------------
(***************************************************************************)
(* M0_gen_tpcds.py to M5_update.py: scripts started one after another that *)
(* hand tables on through an S3 bucket and the manifests M0 and M1 save    *)
(* after every table.  M0 generates the tables as Parquet files; M1 writes *)
(* them in both formats; M2 measures the size of those M1 calls ok, M3     *)
(* their scans, and M4 filters on one, which it indexes in place; M5       *)
(* deletes rows from copies it makes of that one, and removes the copies.  *)
(* Any command may fail, time out or be interrupted, and any script may be *)
(* killed.                                                                 *)
(***************************************************************************)
EXTENDS Integers, SequencesExt

CONSTANTS
    Tables,     \* TPCDS_TABLES
    Begins,     \* pairs of them: the first one's name begins the second one's
    Source,     \* DELETE_TABLE, FILTER_TABLE
    Fractions,  \* the labels of DELETE_FRACTIONS, in order
    RunIds,     \* run ids of M5, which RUN_ID may repeat
    MaxRuns     \* bound: how many scripts are started, one that is asked
                \* for n tables counting as n

Formats == <<"lance_2.2", "iceberg_v2">>
Labels  == ToSet(Fractions)

(* A fraction is called neither a format nor M6, nor a run the CTAS        *)
(* copies, so that no two directories below are one.                       *)
ASSUME TpcdsPipelineAssumption ==
    /\ Source \in Tables /\ Begins \subseteq Tables \X Tables
    /\ Fractions \in Seq(STRING) /\ Labels \cap (ToSet(Formats) \cup {"m6"}) = {}
    /\ "ctas" \notin RunIds /\ RunIds # {}
    /\ MaxRuns \in Nat

(* The elements of S, in the order they have in all. *)
InOrder(all, S) ==
    {p \in UNION {[1 .. n -> S] : n \in 0 .. Len(all)} :
        /\ ToSet(p) = S
        /\ \A i, j \in DOMAIN p : i < j =>
               \E a, b \in DOMAIN all : a < b /\ all[a] = p[i] /\ all[b] = p[j]}

(* n tables as --tables names them, in any order, maybe one of them twice. *)
Named(tables, n) == [1 .. n -> tables]

(* M1 writes each table in each format, Lance first. *)
Tasks == Tables \X ToSet(Formats)
Plan(ts, fs) ==
    [i \in 1 .. Len(ts) * Len(fs) |-> <<ts[(i - 1) \div Len(fs) + 1], fs[((i - 1) % Len(fs)) + 1]>>]

(* What lies in S3: M1's tables, the CTAS copies M5 makes and the table M6 *)
(* makes beside them, and M5's Lance copies under a prefix of the run.     *)
LanceSrc      == <<Source, "lance_2.2">>
IcebergSrc    == <<Source, "iceberg_v2">>
CtasDir(l)    == <<"ctas", l>>
WorkDir(r, l) == <<r, l>>
M6Dir         == <<Source, "m6">>
Dir == Tasks \cup {CtasDir(l) : l \in Labels} \cup {M6Dir} \cup {WorkDir(r, l) : r \in RunIds, l \in Labels}

VARIABLES
    staged,    \* tables whose Parquet file M0 uploaded
    m0,        \* M0's manifest
    exported,  \* M0: the tables it has recorded in this run
    s3,        \* the content of each directory
    manifest,  \* what M1's manifest says of each table and format
    sizes,     \* per table and format, the directories whose bytes its last size counts
    out,       \* M5's results file
    index,     \* the scalar index on FILTER_COLUMN of the source's Lance dataset
    scans,     \* M3's results file: per table and format, what was scanned
    filters,   \* M4's results file: index and what was filtered
    runs,      \* scripts started
    script,    \* the script running, or "none": M2 and M3, which change
               \* nothing but their own results, are one step
    pc,        \* where it is
    todo,      \* the tables (M0), tasks (M1) or fractions (M5) it has left
    records,   \* M1: what it has recorded in this run
    ok,        \* M1: the record of the table being written says ok
    rid, keep, \* M5: its run id, and --keep-working-copies
    ctas,      \* M5: ctas_tables
    results,   \* M5: what it has measured in this run
    raised,    \* M5: the loop was left by an exception
    begun,     \* history: what M1 rewrites, or failed to, under an ok that stands
    made,      \* history: the directories M5 wrote in its last run
    warned     \* history: a removal failed in M5's last run, or it was killed

reads   == <<scans, filters>>
input   == <<staged, m0, exported>>
store   == <<s3, manifest, sizes, out, index, reads>>
locals  == <<todo, records, ok, ctas, results, raised>>
history == <<begun, made, warned>>
vars    == <<input, store, runs, script, pc, locals, rid, keep, history>>

(* A directory holds no readable table, one with some files removed, all   *)
(* the rows of the source, too few, or those a DELETE left; perhaps files  *)
(* of former tables; and, in Iceberg metadata, the place it writes to.     *)
Data    == {"none", "part", "whole", "short", "deleted"}
Content == [data : Data, orphans : BOOLEAN, loc : Dir]
Readable == {"whole", "short", "deleted"}

New(d, data, orphans) == [data |-> data, orphans |-> orphans, loc |-> d]
Absent(d)   == New(d, "none", FALSE)
Empty(c)    == c.data = "none" /\ ~c.orphans
Partly(c)   == IF c.data = "none" THEN c ELSE [c EXCEPT !.data = "part"]

NotMeasured == [lance |-> "none", iceberg |-> "none"]
NoResults   == [l \in Labels |-> NotMeasured]
NoRecords   == [k \in Tasks |-> "absent"]
NotScanned  == [k \in Tasks |-> "none"]
NoM0        == [state |-> "none", tables |-> {}]
NotFiltered == [bitmap |-> FALSE, lance |-> "none", iceberg |-> "none"]

Init ==
    /\ s3 = [d \in Dir |-> Absent(d)]
    /\ manifest = NoRecords /\ sizes = [k \in Tasks |-> {}] /\ out = NoResults
    /\ staged = {} /\ m0 = NoM0 /\ exported = {}
    /\ index = "none" /\ scans = NotScanned /\ filters = NotFiltered
    /\ runs = 0 /\ script = "none" /\ pc = "end" /\ todo = <<>>
    /\ records = NoRecords /\ ok = FALSE /\ begun = {}
    /\ rid \in RunIds /\ keep = FALSE /\ ctas = {} /\ results = NoResults
    /\ raised = FALSE /\ made = {} /\ warned = FALSE

(* A script ends, and its variables with it. *)
Ends ==
    /\ script' = "none" /\ pc' = "end" /\ todo' = <<>>
    /\ records' = NoRecords /\ ok' = FALSE
    /\ ctas' = {} /\ results' = NoResults /\ raised' = FALSE

-----------------------------------------------------------------------------
(* Commands.                                                               *)

(* `aws s3 rm --recursive`: a failure is a warning, a timeout is raised;   *)
(* either may have removed some of the files.                              *)
s3_rm_prefix(dirs) ==
    {[rc |-> "ok", s3 |-> [d \in Dir |-> IF d \in dirs THEN Absent(d) ELSE s3[d]]]}
    \cup {[rc |-> rc, s3 |-> after] :
             rc \in {"warn", "timeout"},
             after \in {s3, [d \in Dir |-> IF d \in dirs THEN Partly(s3[d]) ELSE s3[d]]}}

(* DROP TABLE: the files stay behind or not (M1_write_both.py:73 says that *)
(* they do); without a table nothing happens.                              *)
Dropped(d) ==
    IF s3[d].data = "none" THEN {s3[d]} ELSE {New(d, "none", o) : o \in BOOLEAN}

(* `aws s3 ls` and list-objects-v2 take a prefix of the key, not a         *)
(* directory, and Iceberg's directories are called as the tables: all that *)
(* lies beside one and begins with its name is listed with it.             *)
Listing(k) ==
    IF k[2] = "lance_2.2" THEN {k}
    ELSE LET alike == {k[1]} \cup {t \in Tables : <<k[1], t>> \in Begins}
         IN  (alike \X {"iceberg_v2"})
             \cup IF Source \in alike THEN {CtasDir(l) : l \in Labels} \cup {M6Dir} ELSE {}

du_s3(k) == {d \in Listing(k) : ~Empty(s3[d])}

-----------------------------------------------------------------------------
(* M0_gen_tpcds.py                                                         *)

(* --tables restricts what is generated; unknown tables end the script.    *)
M0Start ==
    /\ script = "none"
    /\ \E n \in 1 .. MaxRuns - runs : todo' \in Named(Tables, n) /\ runs' = runs + n
    /\ script' = "m0" /\ pc' = "export" /\ exported' = {}
    /\ UNCHANGED <<staged, m0, store, records, ok, ctas, results, raised, rid, keep, history>>

(* Export to a local file and upload it; either may raise, which ends the  *)
(* run.  What is generated is the same every time.                         *)
M0Export ==
    /\ script = "m0" /\ pc = "export"
    /\ \/ /\ staged' = staged \cup {Head(todo)}
          /\ exported' = exported \cup {Head(todo)} /\ pc' = "open"
          /\ UNCHANGED <<script, locals>>
       \/ staged' \in {staged, staged \cup {Head(todo)}} /\ Ends /\ UNCHANGED exported
    /\ UNCHANGED <<m0, store, runs, rid, keep, history>>

(* The manifest is written in place: opening empties it. *)
M0Open ==
    /\ script = "m0" /\ pc = "open"
    /\ m0' = [state |-> "torn", tables |-> {}]
    /\ pc' = "dump"
    /\ UNCHANGED <<staged, exported, store, runs, script, locals, rid, keep, history>>

M0Dump ==
    /\ script = "m0" /\ pc = "dump"
    /\ m0' = [state |-> "saved", tables |-> exported]
    /\ IF Tail(todo) = <<>> THEN Ends
         ELSE /\ pc' = "export" /\ todo' = Tail(todo)
              /\ UNCHANGED <<script, records, ok, ctas, results, raised>>
    /\ UNCHANGED <<staged, exported, store, runs, rid, keep, history>>

-----------------------------------------------------------------------------
(* M1_write_both.py                                                        *)

task == Head(todo)

(* The tables are those of M0's manifest, which must be whole; --tables    *)
(* and --formats restrict what is written; records start empty.            *)
M1Start ==
    /\ script = "none"
    /\ m0.state = "saved"
    /\ \E n \in 1 .. MaxRuns - runs, fs \in {Formats, <<"lance_2.2">>, <<"iceberg_v2">>} :
          \E ts \in Named(m0.tables, n) :
              /\ todo' = Plan(ts, fs) /\ begun' = begun \cup {<<ts[1], fs[1]>>}
              /\ runs' = runs + n
    /\ script' = "m1" /\ pc' = "rm"
    /\ UNCHANGED <<input, store, records, ok, ctas, results, raised, rid, keep, made, warned>>

M1Remove ==
    /\ script = "m1" /\ pc = "rm"
    /\ \E r \in s3_rm_prefix({task}) :
          /\ s3' = r.s3
          /\ IF r.rc = "timeout" THEN Ends ELSE pc' = "write" /\ UNCHANGED <<script, locals>>
          /\ index' \in IF task # LanceSrc THEN {index}
                         ELSE IF r.rc = "ok" THEN {"none"} ELSE {index, "none"}
    /\ UNCHANGED <<input, manifest, sizes, out, reads, runs, rid, keep, history>>

(* What was there before a write that fails: Lance commits a new version   *)
(* or keeps the old one; Iceberg drops the old table first.                *)
FailedWrite(k) ==
    LET old == s3[k]
    IN  IF k[2] = "lance_2.2" THEN {old, [old EXCEPT !.orphans = TRUE]}
                              ELSE {old} \cup Dropped(k) \cup {New(k, "none", TRUE)}

(* ok is set before the table is verified. *)
M1Write ==
    /\ script = "m1" /\ pc = "write"
    /\ \/ /\ \E rows \in {"whole", "short"}, o \in BOOLEAN :
                /\ o => ~Empty(s3[task])
                /\ s3' = [s3 EXCEPT ![task] = New(task, rows, o)]
          /\ index' = IF task = LanceSrc THEN "none" ELSE index
          /\ ok' = TRUE /\ pc' = "verify"
       \/ /\ \E c \in FailedWrite(task) : s3' = [s3 EXCEPT ![task] = c]
          /\ ok' = FALSE /\ pc' = "save"
          /\ UNCHANGED index
    /\ UNCHANGED <<input, manifest, sizes, out, reads, runs, script, todo, records, ctas, results, raised, rid, keep, history>>

(* A mismatch, or an error while verifying, takes ok back. *)
M1Verify ==
    /\ script = "m1" /\ pc = "verify"
    /\ pc' = "save"
    /\ ok' \in {FALSE, s3[task].data = "whole"}
    /\ UNCHANGED <<input, store, runs, script, todo, records, ctas, results, raised, rid, keep, history>>

(* The record of the task just done joins those of the run; of a table     *)
(* written twice, those who read the manifest take what is ok.             *)
Recorded == [records EXCEPT ![task] = IF ok \/ @ = "ok" THEN "ok" ELSE "failed"]

(* History: of what the run has recorded before it has rewritten some, not *)
(* well the last time, or is about to.                                     *)
Begun ==
    {k \in begun \ {task} : records[k] = "ok"}
    \cup (IF ~ok /\ records[task] = "ok" THEN {task} ELSE {})
    \cup {k \in Tasks : Tail(todo) # <<>> /\ k = Head(Tail(todo)) /\ Recorded[k] = "ok"}

NextTask ==
    IF Tail(todo) = <<>> THEN Ends
    ELSE /\ pc' = "rm" /\ todo' = Tail(todo) /\ records' = Recorded
         /\ UNCHANGED <<script, ok, ctas, results, raised>>

(* Seeded bug: the records of the manifest on disk are kept. *)
M1Save_Merges ==
    /\ script = "m1" /\ pc = "save"
    /\ manifest' = [manifest EXCEPT ![task] = Recorded[task]]
    /\ begun' = Begun
    /\ NextTask
    /\ UNCHANGED <<input, s3, sizes, out, index, reads, runs, rid, keep, made, warned>>

(* Size the table if ok, append the record, replace the manifest. *)
M1Save ==
    /\ script = "m1" /\ pc = "save"
    /\ manifest' = Recorded
    /\ begun' = Begun
    /\ \/ ok /\ sizes' = [sizes EXCEPT ![task] = du_s3(task)]
       \/ UNCHANGED sizes
    /\ NextTask
    /\ UNCHANGED <<input, s3, out, index, reads, runs, rid, keep, made, warned>>

-----------------------------------------------------------------------------
(* M2_size.py, which only reads: what is ok is measured, or in error.      *)

M2Run ==
    /\ script = "none" /\ runs < MaxRuns
    /\ runs' = runs + 1
    /\ \E failed \in SUBSET Tasks :
          sizes' = [k \in Tasks |->
                       IF manifest[k] = "ok" /\ k \notin failed THEN du_s3(k) ELSE {}]
    /\ UNCHANGED <<input, s3, manifest, out, index, reads, script, pc, locals, rid, keep, history>>

-----------------------------------------------------------------------------
(* M3_scan.py                                                              *)

(* What one format's reads return: all rows the table has, or an error.    *)
Scanned(k) == {"error"} \cup ({s3[k].data} \cap Readable)

(* Seeded bug: the ok of the records is not looked at.                     *)
InBothFormats_Present(t) == \A f \in ToSet(Formats) : manifest[<<t, f>>] # "absent"

(* Tables with both formats ok in the manifest.                            *)
InBothFormats(t) == \A f \in ToSet(Formats) : manifest[<<t, f>>] = "ok"

(* Each of them is scanned in both, unless no column is configured for it; *)
(* errors are recorded.  The results replace the file of the last run.     *)
M3Run ==
    /\ script = "none" /\ runs < MaxRuns
    /\ runs' = runs + 1
    /\ \E configured \in SUBSET Tables :
          scans' \in {f \in [Tasks -> {"none", "error"} \cup Readable] :
                        \A k \in Tasks : f[k] \in IF k[1] \in configured /\ InBothFormats(k[1])
                                                   THEN Scanned(k) ELSE {"none"}}
    /\ UNCHANGED <<input, s3, manifest, sizes, out, index, filters, script, pc, locals, rid, keep, history>>

-----------------------------------------------------------------------------
(* M4_filter.py                                                            *)

(* Both formats must be ok in the manifest, and open, which a table that   *)
(* has lost some of its files may do.                                      *)
M4Start ==
    /\ script = "none" /\ runs < MaxRuns
    /\ InBothFormats(Source)
    /\ s3[LanceSrc].data # "none" /\ s3[IcebergSrc].data # "none"
    /\ runs' = runs + 1
    /\ script' = "m4" /\ pc' = "index"
    /\ UNCHANGED <<input, store, locals, rid, keep, history>>

(* Seeded bug: the index is built whatever is there. *)
ensure_lance_bitmap_index_Replaces ==
    /\ script = "m4" /\ pc = "index"
    /\ index' \in {"Bitmap", index}
    /\ pc' = "filter"
    /\ UNCHANGED <<input, s3, manifest, sizes, out, reads, runs, script, locals, rid, keep, history>>

(* Built in place if the column has none, unless --skip-index-build; an    *)
(* index of another type is left alone.  A build that raises ends the run. *)
ensure_lance_bitmap_index ==
    /\ script = "m4" /\ pc = "index"
    /\ \/ /\ index' \in IF index = "none" THEN {"none", "Bitmap"} ELSE {index}
          /\ pc' = "filter" /\ UNCHANGED <<script, locals>>
       \/ /\ index' \in IF index = "none" THEN {"none", "Bitmap"} ELSE {index}
          /\ Ends
    /\ UNCHANGED <<input, s3, manifest, sizes, out, reads, runs, rid, keep, history>>

(* The calibration may raise.  Each feasible target is asked of both       *)
(* formats and an error recorded; without one, nothing is measured.  The   *)
(* results replace the file of the last run.                               *)
M4Filter ==
    /\ script = "m4" /\ pc = "filter"
    /\ \/ \E l \in Scanned(LanceSrc) \cup {"none"}, i \in Scanned(IcebergSrc) \cup {"none"} :
             /\ l = "none" <=> i = "none"
             /\ filters' = [bitmap |-> index = "Bitmap", lance |-> l, iceberg |-> i]
       \/ UNCHANGED filters
    /\ Ends
    /\ UNCHANGED <<input, s3, manifest, sizes, out, index, scans, runs, rid, keep, history>>

(* Another experiment has put an index on the column.                      *)
OthersIndex ==
    /\ script = "none"
    /\ index = "none" /\ s3[LanceSrc].data \in Readable
    /\ index' = "other"
    /\ UNCHANGED <<input, s3, manifest, sizes, out, reads, runs, script, pc, locals, rid, keep, history>>

(* M6 makes a table of its own in the warehouse, and removes it unless it  *)
(* is killed: all that M2 can see of it.                                   *)
OthersTable ==
    /\ script = "none" /\ runs < MaxRuns
    /\ runs' = runs + 1
    /\ \E data \in {"none", "whole"} : s3' = [s3 EXCEPT ![M6Dir] = New(M6Dir, data, FALSE)]
    /\ UNCHANGED <<input, manifest, sizes, out, index, reads, script, pc, locals, rid, keep, history>>

-----------------------------------------------------------------------------
(* M5_update.py                                                            *)

label == Head(todo)
work  == WorkDir(rid, label)
copy  == CtasDir(label)

(* Both formats must be ok in the manifest, and open.  Fractions no        *)
(* predicate comes near are skipped.                                       *)
M5Start ==
    /\ script = "none" /\ runs < MaxRuns
    /\ InBothFormats(Source)
    /\ s3[LanceSrc].data # "none" /\ s3[IcebergSrc].data # "none"
    /\ \E feasible \in SUBSET Labels : todo' \in InOrder(Fractions, feasible)
    /\ rid' \in RunIds /\ keep' \in BOOLEAN
    /\ runs' = runs + 1
    /\ script' = "m5" /\ pc' = IF todo' = <<>> THEN "drop" ELSE "rm"
    /\ made' = {} /\ warned' = FALSE
    /\ UNCHANGED <<input, store, records, ok, ctas, results, raised, begun>>

(* An exception outside a format's own try goes to the finally clause. *)
Goto(next)   == pc' = next /\ UNCHANGED raised
GotoFinally  == pc' = "drop" /\ raised' = TRUE

(* Seeded bug: whatever an earlier run left is copied over. *)
M5Remove_Skipped ==
    /\ script = "m5" /\ pc = "rm"
    /\ ctas' = ctas \cup {label}
    /\ pc' = "cp"
    /\ UNCHANGED <<input, store, runs, script, todo, records, ok, rid, keep, begun, results, raised, made, warned>>

(* The CTAS copy is noted for the clean-up before anything is written. *)
M5Remove ==
    /\ script = "m5" /\ pc = "rm"
    /\ ctas' = ctas \cup {label}
    /\ \E r \in s3_rm_prefix({work}) :
          /\ s3' = r.s3
          /\ IF r.rc = "timeout" THEN GotoFinally ELSE Goto("cp")
          /\ warned' = (warned \/ r.rc # "ok")
    /\ UNCHANGED <<input, manifest, sizes, out, index, reads, runs, script, todo, records, ok, rid, keep, begun, results, made>>

(* `aws s3 cp --recursive` overwrites files of the same name and leaves    *)
(* others: a later version already there, made by a DELETE, stays.         *)
Copied ==
    LET data == s3[LanceSrc].data
    IN  CASE s3[work].data = "deleted" -> {"deleted"}
          [] s3[work].data = "part"    -> {data, "part", "deleted"}
          [] OTHER                     -> {data}

s3_cp_recursive ==
    /\ script = "m5" /\ pc = "cp"
    /\ made' = made \cup {work}
    /\ \/ \E data \in Copied :
             /\ s3' = [s3 EXCEPT ![work] = New(work, data, ~Empty(s3[work]))]
             /\ Goto("ctas")
       \/ /\ s3' \in {s3, [s3 EXCEPT ![work].data = "part"]}
          /\ GotoFinally
    /\ UNCHANGED <<input, manifest, sizes, out, index, reads, runs, script, todo, records, ok, rid, keep, begun, ctas, results, warned>>

(* Seeded bug (B1): the files are copied, with the location in their       *)
(* metadata, and nobody looks at it.                                       *)
iceberg_ctas_copy_Files ==
    /\ script = "m5" /\ pc = "ctas"
    /\ made' = made \cup {copy}
    /\ s3' = [s3 EXCEPT ![copy] = s3[IcebergSrc]]
    /\ Goto("lance")
    /\ UNCHANGED <<input, manifest, sizes, out, index, reads, runs, script, todo, records, ok, rid, keep, begun, ctas, results, warned>>

(* Drop, create as select, find the metadata, and the location guard: the  *)
(* new table writes where it lies.  Each command may fail.                 *)
iceberg_ctas_copy ==
    /\ script = "m5" /\ pc = "ctas"
    /\ made' = made \cup {copy}
    /\ \/ \E c \in {s3[copy]} \cup Dropped(copy) :
             /\ s3' = [s3 EXCEPT ![copy] = c]
             /\ GotoFinally
       \/ \E c \in Dropped(copy) :
             /\ s3[IcebergSrc].data \in Readable
             /\ s3' = [s3 EXCEPT ![copy] = New(copy, s3[IcebergSrc].data, ~Empty(c))]
             /\ Goto("lance") \/ GotoFinally
    /\ UNCHANGED <<input, manifest, sizes, out, index, reads, runs, script, todo, records, ok, rid, keep, begun, ctas, results, warned>>

(* Delete, count and scan; errors are recorded, wherever they happen. *)
Delete(d, fmt) ==
    LET to    == s3[d].loc
        after == [s3 EXCEPT ![to].data = "deleted"]
    IN  \/ /\ s3[d].data \in Readable
          /\ s3' = after
          /\ results' = [results EXCEPT ![label][fmt] = s3[d].data]
       \/ /\ s3' = s3 \/ (s3[d].data \in Readable /\ s3' = after)
          /\ results' = [results EXCEPT ![label][fmt] = "error"]

M5Lance ==
    /\ script = "m5" /\ pc = "lance"
    /\ Delete(work, "lance")
    /\ Goto("iceberg")
    /\ UNCHANGED <<input, manifest, sizes, out, index, reads, runs, script, todo, records, ok, rid, keep, begun, ctas, made, warned>>

M5Iceberg ==
    /\ script = "m5" /\ pc = "iceberg"
    /\ Delete(copy, "iceberg")
    /\ todo' = Tail(todo)
    /\ Goto(IF Tail(todo) = <<>> THEN "drop" ELSE "rm")
    /\ UNCHANGED <<input, manifest, sizes, out, index, reads, runs, script, records, ok, rid, keep, begun, ctas, made, warned>>

(* Ctrl-C in the loop: the clean-up still runs. *)
M5Interrupt ==
    /\ script = "m5" /\ pc \in {"rm", "cp", "ctas", "lance", "iceberg"}
    /\ GotoFinally
    /\ UNCHANGED <<input, store, runs, script, todo, records, ok, rid, keep, begun, ctas, results, made, warned>>

(* Seeded bug: the clean-up is at the end of the loop, not in a finally. *)
M5Drop_OnSuccess ==
    /\ script = "m5" /\ pc = "drop"
    /\ IF keep \/ raised
         THEN /\ IF raised THEN Ends ELSE pc' = "save" /\ UNCHANGED <<script, locals>>
              /\ UNCHANGED <<s3, warned>>
         ELSE /\ \E fails \in SUBSET ctas :
                    /\ s3' = [d \in Dir |-> IF \E l \in ctas \ fails : d = CtasDir(l)
                                              THEN Absent(d) ELSE s3[d]]
                    /\ warned' = (warned \/ fails # {})
              /\ pc' = "rmroot" /\ UNCHANGED <<script, locals>>
    /\ UNCHANGED <<input, manifest, sizes, out, index, reads, runs, rid, keep, begun, made>>

(* The finally clause: every noted table is dropped, a failure is a        *)
(* warning; then the run's prefix goes.                                    *)
M5Drop ==
    /\ script = "m5" /\ pc = "drop"
    /\ IF keep
         THEN /\ IF raised THEN Ends ELSE pc' = "save" /\ UNCHANGED <<script, locals>>
              /\ UNCHANGED <<s3, warned>>
         ELSE /\ \E fails \in SUBSET ctas, o \in BOOLEAN :
                    /\ s3' = [d \in Dir |->
                                 IF \E l \in ctas \ fails : d = CtasDir(l) /\ s3[d].data # "none"
                                   THEN New(d, "none", o) ELSE s3[d]]
                    /\ warned' = (warned \/ fails # {})
              /\ pc' = "rmroot" /\ UNCHANGED <<script, locals>>
    /\ UNCHANGED <<input, manifest, sizes, out, index, reads, runs, rid, keep, begun, made>>

(* A timeout here is raised, and nothing is saved. *)
M5RemoveRoot ==
    /\ script = "m5" /\ pc = "rmroot"
    /\ \E r \in s3_rm_prefix({WorkDir(rid, l) : l \in Labels}) :
          /\ s3' = r.s3
          /\ warned' = (warned \/ r.rc # "ok")
          /\ IF raised \/ r.rc = "timeout" THEN Ends
               ELSE pc' = "save" /\ UNCHANGED <<script, locals>>
    /\ UNCHANGED <<input, manifest, sizes, out, index, reads, runs, rid, keep, begun, made>>

M5Save ==
    /\ script = "m5" /\ pc = "save"
    /\ out' = results
    /\ Ends
    /\ UNCHANGED <<input, s3, manifest, sizes, index, reads, runs, rid, keep, history>>

-----------------------------------------------------------------------------
(* A script is killed; what it wrote stays. *)
Kill ==
    /\ script # "none"
    /\ Ends
    /\ warned' = (warned \/ script = "m5")
    /\ UNCHANGED <<input, store, runs, rid, keep, begun, made>>

Next ==
    \/ M0Start \/ M0Export \/ M0Open \/ M0Dump
    \/ M1Start \/ M1Remove \/ M1Write \/ M1Verify \/ M1Save
    \/ M2Run \/ M3Run
    \/ M4Start \/ ensure_lance_bitmap_index \/ M4Filter \/ OthersIndex \/ OthersTable
    \/ M5Start \/ M5Remove \/ s3_cp_recursive \/ iceberg_ctas_copy \/ M5Lance \/ M5Iceberg
    \/ M5Interrupt \/ M5Drop \/ M5RemoveRoot \/ M5Save
    \/ Kill

Spec == Init /\ [][Next]_vars

-----------------------------------------------------------------------------
(* Properties.                                                             *)

(* Every variable keeps its type, and an Iceberg table of the pipeline     *)
(* writes where it lies.                                                   *)
TypeOK ==
    /\ s3 \in [Dir -> Content] /\ \A d \in Dir : s3[d].loc = d
    /\ manifest \in [Tasks -> {"absent", "ok", "failed"}]
    /\ records \in [Tasks -> {"absent", "ok", "failed"}]
    /\ sizes \in [Tasks -> SUBSET Dir]
    /\ out \in [Labels -> [lance : Data \cup {"error"}, iceberg : Data \cup {"error"}]]
    /\ results \in [Labels -> [lance : Data \cup {"error"}, iceberg : Data \cup {"error"}]]
    /\ runs \in 0 .. MaxRuns /\ script \in {"none", "m0", "m1", "m4", "m5"}
    /\ script \in {"m0", "m1", "m5"} /\ pc \notin {"drop", "rmroot", "save"} => todo # <<>>
    /\ ok \in BOOLEAN /\ keep \in BOOLEAN /\ raised \in BOOLEAN /\ warned \in BOOLEAN
    /\ rid \in RunIds /\ ctas \subseteq Labels
    /\ begun \subseteq Tasks /\ made \subseteq Dir
    /\ m0.state \in {"none", "torn", "saved"} /\ exported \subseteq Tables /\ m0.tables \subseteq Tables
    /\ index \in {"none", "Bitmap", "other"} /\ filters.bitmap \in BOOLEAN

(* What M0's manifest names can be fetched, and a table M1's calls ok is   *)
(* complete, whichever runs of M0 and M1, of all or some of the tables,    *)
(* failed or were killed in between: except the first table of a run of M1 *)
(* that has not saved the manifest yet, and a table the run was asked for  *)
(* twice and did not write well the second time.                           *)
ManifestOkMeansWhole ==
    /\ m0.tables \subseteq staged
    /\ \A k \in Tasks \ begun : manifest[k] = "ok" => s3[k].data = "whole"

(* "isolate M5 mutations from M1 data" (M5_update.py:9): nothing but M1    *)
(* changes the rows of a table of M1, although M4 writes to one and the    *)
(* CTAS copies of M5 share M1's namespace; and no index, whoever built it, *)
(* is replaced ("don't silently replace", M4_filter.py:132).               *)
SourceUntouched ==
    [][script # "m1" => /\ \A k \in Tasks : s3'[k] = s3[k]
                        /\ index # "none" => index' = index]_vars

(* Whatever M3 and M4 save as measured was read from complete tables, both *)
(* formats having the source's rows, whichever runs of M1, of both formats *)
(* or one, failed or were killed before: except tables that a run of M1    *)
(* began to rewrite and that its manifest, or an earlier one, calls ok.    *)
ScansAreOfWholeTables ==
    [][/\ scans' # scans => \A k \in Tasks \ begun : scans'[k] \in {"none", "error", "whole"}
       /\ filters' # filters =>
              /\ LanceSrc \notin begun => filters'.lance \in {"none", "error", "whole"}
              /\ IcebergSrc \notin begun => filters'.iceberg \in {"none", "error", "whole"}]_vars

(* Whether it finished, failed at any command or was interrupted: a run of *)
(* M5 that no removal failed in leaves no copy, unless it was to keep them. *)
CleanRunLeavesNothing ==
    script = "none" /\ ~keep /\ ~warned => \A d \in made : s3[d].data = "none"

(* "Create FRESH copies" (M5_update.py:9): what is measured without error  *)
(* was a complete table no DELETE had been applied to, although run ids    *)
(* repeat and copies are kept; unless a removal failed, which the script   *)
(* shrugs off, or M1 has begun to rewrite what the manifest calls ok.      *)
CopiesAreFresh ==
    script = "m5" => \A l \in Labels :
        /\ results[l].lance \in {"none", "error", "whole"} \/ warned \/ LanceSrc \in begun
        /\ results[l].iceberg \in {"none", "error", "whole"} \/ IcebergSrc \in begun

(* "M2/M3/M4 must remain reproducible against M1" (M5_update.py:10): the   *)
(* size of a table is that of its own files.                               *)
SizesReproducible == \A k \in Tasks : sizes[k] \subseteq {k}
=============================================================================
