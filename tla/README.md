# A formal model of the Lance test bench

This directory specifies, in TLA+, the programs of this repository: a Flink stress
run that appends to a Lance table while a compactor rewrites it, and the benchmarks
that measure and audit Lance and Iceberg tables. They are test programs, and what they
are worth is what their reports may be trusted to say. That is what is specified here:
which rows a table holds, which of them a report counts, and what survives a failed
command, a time-out, a restart or a kill.

Three kinds of evidence are given. TLC checks every property on a small instance. TLAPS
proves every invariant and action property, all but liveness, for every value of the
constants. And five runs are counterexamples to what a document or comment of the repository says.

## 1. Inventory

| Component | Code | State it keeps | Operations |
|---|---|---|---|
| Stress job and sink | `stress-job/.../StressJob.java`, `patches/0001-lance-flink-patches.patch` | per subtask a local counter and the sink's buffer; Flink's checkpoint and restart count; the Lance table | emit, flush, checkpoint, fail, restart, cancel |
| Compactor | `scripts/compactor.py` | the plan of the compaction under way | plan, commit, error |
| Run driver and verification | `scripts/run_stress.sh`, `create_dataset.py`, `verify_data.py` | phase of the script, job id, whether each container is up, the report | create, submit, start and stop the compactor, cancel, verify |
| Metrics collector | `scripts/metrics_collector.py` | the last RUNNING timestamp, the restart counter | poll, ask |
| Concurrent mutation bench (Q) | `extended-bench/scripts/Q_concurrent_mutation_compact.py` | N writer processes, one compactor, a start event, a JSONL file each | begin, mutate, retry, record, join, kill, aggregate |
| Compaction and index audit (N) | `N_compact_index.py` | dataset, index, snapshots, results and their checkpoint file | write, build, query, compact, judge, save |
| TPC-DS pipeline (M0-M6) | `M0_gen_tpcds.py` ... `M6_compact.py` | tables of both formats in S3, manifests, working copies, results | write, measure, copy, delete, compact, clean up |
| Composite keys (O) | `O_composite_key.py` | one dataset per variant, row counts per query | build, query, remove, verify against the baseline, save |
| Format comparison (L2) | `L2_write.py`, `L2_measure.py` | a dataset per workload and format in S3, a manifest, results | write, verify, save; open, scan, take, save |
| Read bench | `read-perf-bench/scripts/` | the versions of one dataset, a plan, a file per measurement, a report | build, compact step by step, read a version, report |
| Training bench | `ml-training-bench/scripts/` | the same images as Lance rows, as files and as Parquet; file list; output | build, list, shuffle, fetch by workers, consume |
| Single-feature benches (A-K) | `A_update_bug.py` ... `K_fts_memory.py` | local variables | one library call, timed |
| Publisher | `publish/publish.py`, `themes.py` | none | Markdown to HTML, upload |
| Build files | `Dockerfile`, `docker-entrypoint.sh`, `pom.xml` | none | configuration |

How they interact:

* `run_stress.sh` creates the table, submits the job and later starts the compactor.
  Job and compactor share only the table, through Lance's optimistic commits: an append
  is rebased over whatever was committed since it was opened, a rewrite commits only if
  the fragments it replaces are all still live.
* Flink's JobManager decides about restarts. Source and sink of a subtask are chained in
  one thread, so a row is buffered, and the buffer flushed, before the next one is emitted;
  a checkpoint flushes under the checkpoint lock. Neither operator restores state.
* The metrics collector and the script see the job only through REST requests, which may
  fail; `curl ... || true` and pipelines without `pipefail` go on when they do. The script
  hands the collector the job's id, or nothing when it found none, and the collector then
  asks about every job.
* In Q, processes share the dataset and a start event; the parent sees them only through
  `join` and the files they leave.
* The M scripts share an S3 bucket and the manifests M0 and M1 save. Nothing locks either.
  M4 leaves an index on M1's Lance table, M5 its copies and M6 its table in M1's Iceberg
  namespace, where the sizes of M1 and M2 are listed by key prefix.
* L2's writer hands a manifest to its measurements, as the cascade of the read bench hands
  a plan to the reading scripts and those their files to the report; each is started
  by hand, and may be started again while the next one runs.
* The training's workers open the data for themselves, at whatever version is the latest
  then, and answer out of order; the main process puts the batches back in order.

Behaviours that are hard here: a task that dies in the middle of a native commit; a
checkpoint that expires while a slow flush is still under way; asynchronous cancellation;
retries inside Lance; a process killed between its commit and its record; a save
that is killed; clean-up in `finally` when a command of it times out; stale files and
tables of an earlier run; a dataset that is written again between its opening and the reads
of it; lists compared by position. `PROJECT.json` lists each at its line.

What makes each component correct:

* Stress job: one emission is stored at most once; an attempt is stored in order; what a
  completed checkpoint covers stays in the table; duplicates come from restarts only.
* Compactor: never changes what a reader sees.
* Verification: counts rows that stay; reports as duplicates only what restarts emitted.
* Collector: with an id, never counts more restarts than there were; a restart is not
  overlooked for ever.
* Q: the dataset has taken what the records say, up to the operation under way; nobody
  writes after the report; the report of a clean scenario is exact; a scenario ends.
* N: a pass is evidence, a correct Lance is not accused, the output file is always whole; a
  kill loses at most the last combination its start had finished.
* M6: the appended batches are a partition of the source, both formats hold the same rows.
* M0-M5: ok in the manifest means complete; M3 and M4 scan complete tables; M4 and M5 leave
  M1's tables alone; M5 measures fresh copies and removes them; sizes are those of the table.
* M4, M5: a predicate that stands for 1 % of the rows selects about 1 % of the rows.
* L2: what the manifest calls ok can be read, with the rows it says; and a measurement is of
  the version that was verified, or shows that it is not.
* O: "ok" means that the variants gave the baseline's answers, an alarm that one did not, if
  there is a baseline.
* Read bench: every version the plan names is what the plan says, of the same rows.
* Training bench: every epoch sees every image once, with its own label.

## 2. Modules

| Module | What it is |
|---|---|
| `AtLeastOnce` | the abstract promise of the stress pipeline: every attempt of every subtask is a log that is delivered in order from its start; a retry starts a new log |
| `StressJob` | source, sink, Flink's checkpoints and restarts, and the compactor on one table |
| `StressRun` | extends `StressJob` with the driver script and the verification |
| `StressProofs` | type correctness, the inductive invariant of the job, its safety theorems and the refinement of `AtLeastOnce`; a driven run is a behaviour of `StressJob`, counted rows stay, copies and duplicates come from restarts |
| `MetricsCollector`, `MetricsCollectorProofs` | jobs coming and going in the JobManager, the collector polling; the proof that it never overcounts |
| `MutationBench`, `MutationBenchProofs` | one scenario of Q; all its invariants proved |
| `CompactIndex`, `CompactIndexProofs` | the run of N over its combinations, with its checkpoint file; all its invariants proved |
| `TpcdsPipeline`, `TpcdsPipelineProofs` | M0 to M5, started in any order over one bucket and two manifests; all properties of its passing run proved |
| `Calibration` | how M4 and M5 choose the predicate for a fraction of the rows |
| `SmallFiles`, `SmallFilesProofs` | M6: small appends to both formats, compaction, clean-up; run after run; all its invariants proved |
| `FormatBench` | L2: writers and measurements, one after another or at the same time |
| `CompositeKey` | O: variants built, asked, removed and compared |
| `ReadCascade` | the read bench: build, cascade, reads and report |
| `ImageLoader` | the training bench: builds, workers, batches, epochs |
| `BenchProofs` | the invariants of `FormatBench`, `CompositeKey`, `Calibration`, `ReadCascade` and `ImageLoader` proved, and what carries these and those of `CompactIndex` over to the run of all six |
| `Sums`, `Selection` | the sum of a function over its domain; what a comprehension with an `if` keeps of a list |
| `FoldProofs` | what these two, the folds and the flattening of sequences compute, for every argument |
| `MC*` | the constants of the TLC runs; `MCBenches` runs one of the six modules that share nothing |

A definition whose name ends in a suffix (`Fail_NoLimit`, `M1Save_Merges`) and whose
comment says "seeded bug" is not part of the specification: it is a plausible mistake
that the property it was written for must catch.

### Correspondence with the code

`StressJob`. `Emit` is one turn of the loop in `GeneratorSource.run`, with the call into
the chained sink: `seq` is the local `long seq`, which `Redeploy` sets back to 0, and
`buffer` what the sink has not committed. A row is `[sub, seq, att]`: the code's id is
`seqBase + seq`, here the pair of `sub` and `seq`; `att` tells the emissions of one id
apart, as their timestamps and payloads do. Filling the buffer starts a flush; `FlushCommit`,
`SnapshotCommit` and `TerminateLand` are the moments a commit reaches the table.
`FlushFail` is the IOException that reaches the task. `Fail` restarts the whole
job or ends it once `MaxRestarts` failures have been counted. `CheckpointExpire` is a
time-out with no tolerated failures. A failure aborts the checkpoint in progress, and a
flush that was under way for it may still land: the JobManager ignores its late
acknowledgement (`Acknowledge`). The job finishes with the checkpoint that every source
acknowledges after its last row. The table is the set of its live fragments; a
compaction takes two or more of them and replaces them by one. The sink is a patched
third-party library of which the repository has only the patch: its parts are marked
external in the map, and follow the patch and the documents.

`StressRun`. One action per command of the script that changes anything. `CreateDataset`
and `CancelJob` may fail unnoticed, `ScriptFails` is `set -e`, `Verify(FALSE)` is a
duplicate check whose exception is swallowed and reported as 0 duplicates.

`MetricsCollector`. `target_jid` is the id `run_stress.sh` found in the output of the
submission, or `NoTarget`: `$JID` is not quoted (run_stress.sh:55), so an empty one leaves no
argument behind and `Poll` takes every job listed. `Ask` compares a job's RUNNING timestamp
with the last one the collector saw, whichever job that was of. `entries` and `first` count
what really happened.

`MutationBench`. `Begin` to `Exit` are the loops of writers and compactor, with a
Lance transaction seen as the groups of rows it touches and those others have changed
since. `Raise` is the `except BaseException` of the loops: a conflict, or any other error at any
time before the commit. `Record` is the line-buffered write. `JoinsReturn`, `Kill` and
`Aggregate` are the end of `run_scenario`. A process may die in an operation or before it
opens its file.

`CompactIndex`. Steps `write` to `judge` are the phases of `run_one_combo`. What Lance does
is not assumed: queries may raise or miscount, a compaction may leave any uuid, bitmap and
reuse index; writing, building, compacting and judging may raise (`ComboFails`). `OpenTmp`,
`Dump`, `Replace` are the three steps of the save. `Rerun` starts with an empty list, as
`main` does; a file has the time its start began (`timestamp`), which is how the properties
tell the starts apart.

`TpcdsPipeline`. A directory of the bucket holds no table, part of one, a whole, a short or
one with rows deleted, perhaps files of former tables, and the place its metadata says it
writes to. Removal, copying and `DROP TABLE` have each the outcomes the code distinguishes:
done, failed with a warning, raised. M0 exports table by table and writes its manifest in
place, `M0Open` tearing it until `M0Dump`; M1 removes, writes, verifies and saves task by
task; M2 and M3, which change nothing but their own results, are one step each; M4 puts its
index on the source, unless one is there, and filters; M5 copies, measures and removes
fraction by fraction. `Listing` is what a listing by key prefix finds: `Begins` says which
names begin others, as `store` does `store_sales`, and M5's copies and the table M6 makes
(`OthersTable`) are beside their source. `Kill` ends any script anywhere. `begun`, `made` and
`warned` are history variables; no action reads them. A run of M1 takes its tables in any
order and perhaps one of them twice, as `--tables` may (`Named`, `Plan`).

`Calibration`. A column is the counts of its values in their order, and its nulls; a target
is a number of ten thousandths. `pick` is the choice both scripts make, with Python's `round`,
which takes halves to the even neighbour, and the relative tolerance. All is in integers.

`FormatBench`. A dataset is the rows and the version that reading it back would find. The
writer's steps are a dataset (done, silently lost, failed before or after anything was
written), its verification, and the two steps of the save; those of the measurements are
opening, scanning and taking, and the save; how many rows are taken, and whether the result
keeps their number, depends on the workload (`TakeN`, `Measured`). `l2since` is a history
variable.

`CompositeKey`. An answer is a number of rows, or an error; what Lance returns is not assumed.
A variant that is skipped or fatal, the baseline among them, has no answers: an empty list.
`Answered` drops the errors from a list of counts, and `Mismatch` compares what is left as the
code does, list with list.

`ReadCascade`. A version is the rows of its fragments, who built it and after how many
appends. `Merge` is what `compact_files` does to a list of fragments, a library's doing and
marked external. The
handles of the scripts are versions: `CompactNote` opens the dataset again, as the code does,
and notes whatever is the latest then.

`ImageLoader`. An image is its id, which its pixels are generated from, and its label.
`sorted_pairs` and `restored` are the two list comprehensions around `take_blobs`; Python's sort is
stable, so an index is placed by its `Rank`, how many come before it. A worker
opens the data at its first batch and keeps it; the sampler and the order of the
workers are PyTorch's and external.

`SmallFiles`. `load_source_batches` and `take_rows` are folds over the record batches, as the
code's loops are, `break` and early return included; a row is its number. The
actions are the phases of `main`, an append to Lance and one to Iceberg being separate
steps, and `Raise` is any exception in the `try`. `local` are the batches in the driver's
`/tmp`, where `spark_table_from_arrow` writes each (`WriteLocal`) before it puts it on HDFS and
removes it (`HandedOver`); when the put raises, it stays. Of a removal that fails in part it
is as if it had removed nothing.

## 3. Runs

| Run | Instance | What it shows |
|---|---|---|
| `stress_job` | 2 subtasks, batches of 2, 2 rows, 1 restart, 1 compaction | the inductive invariant of the proofs, a finished job left nothing behind, durable checkpoints, the refinement, and that the job ends |
| `stress_job_replay` (violated) | 1 subtask | 01_REPORT_lance_0.23.3.md:102 says that the source replays from the last checkpoint: it starts from 0 |
| `stress_run` | 1 subtask, 2 rows, 2 restarts, 2 compactions | the whole script: no emission stored twice, duplicates come from restarts, counted rows stay |
| `stress_run_final` (violated) | 1 subtask, 1 restart | "Verifying final data" (run_stress.sh:107): rows land after the count |
| `metrics_collector` | 2 jobs, 3 entries into RUNNING each, with and without an id | no overcounting with an id, nor before a second job answers; restarts are noticed |
| `mutation_bench` | 2 writers, 1 compactor, 2 operations each, 1 retry | records and dataset agree, nobody outlives the report, clean scenarios are exact, scenarios end |
| `mutation_bench_leftover` (violated) | 2 writers, files left over | a process that dies early has an earlier run's records counted as its own |
| `compact_index_rerun` (violated) | 2 combinations, 2 starts | the results "can be recovered after a kill" (REPORT_N_compact_index.md:364): the next start overwrites them |
| `tpcds_pipeline` | 1 table, which M1 may be asked for twice, 1 fraction, 2 run ids, 4 scripts of M0 to M5 | the manifests, M4's and M5's isolation, whole scans, freshness of copies and clean-up |
| `small_files` | 2 starts, a baseline of 2 rows and 2 appends of 2 out of 7 rows | slices partition the source, both formats grow in step, saved numbers compare like with like, clean-up |
| `benches` | N, L2, O, the calibration, the read bench or the training bench | N's passes are evidence, no false alarm, output always a whole prefix, a kill loses one combination; ok and measured mean readable and verified, agreement and alarms of O, honest fractions, a plan that stays true, a report relative to A, an epoch that sees each image once |
| `tpcds_sizes` (violated) | 2 tables, `store` and `store_sales`, 1 run id, 4 scripts | what shares the key prefix of a table is counted into its size: another table, M6's table, M5's copies |

### Why the bounds are enough

* `stress_job`: two subtasks are the least for which a checkpoint is acknowledged by one
  and not by the other. With batches of 2 rows and 2 rows per attempt a batch is filled, or
  a checkpoint cuts it in two, so both `FlushCommit` and `SnapshotFlush` happen. One restart
  gives a failed and a later attempt whose rows are stored together, and one compaction
  rewrites them while more are appended. `stress_run` adds a second restart and a second
  compaction, which may rewrite a rewritten fragment and the copies of an id.
* `metrics_collector`: three entries into RUNNING let two restarts fall between two polls.
  The second job is what a collector without an id, which asks about all jobs, confuses with
  the target; it may then count without end, so counts above 4, which one job with three entries
  cannot give, are taken as one (`MaxCount`). 246,063 states.
* `mutation_bench`: the conflict of two mutations, and of a mutation with a compaction, need
  two writers and a compactor on one group; two operations let the second begin after a
  conflict; one retry makes both a retry and spent retries happen. The file left over is
  the compactor's, so that it is counted if ever it is summed with the writers'.
* `tpcds_pipeline`: M5 needs what M0 and M1 left, so the fourth script is the one that finds
  M5's leavings: M5 again under the same or another run id, M1, or M2. M0, M1, M1, M3 and
  M0, M1, M1, M4 read what a failed or killed run of M1 left. One table is the source of the
  deletes, in both formats, which M1 writes as separate tasks, any subset of them. A run of M1
  that is asked for n tables counts as n of the four scripts, so that a table named twice or
  three times fits. More tables and fractions are the theorems' part. `tpcds_sizes` has a
  second table, whose name begins that of the first.
* `benches`: the six share no variable, and one of them is chosen at the start, so that
  their state spaces add up (890,861 states) instead of being multiplied.
  N has two combinations, one of each path, which make a prefix that is neither empty nor
  complete; the second start finds the first one's output, and is there for that: its
  compactions find nothing to do (`AuditBound`).
  L2 has two workloads, one of them capped, in a Lance format and in Parquet, plans of up to
  two tasks, and two writers under one run id, the second with one task (`L2Bound`), with
  measurements between or beside them: a
  place is written over before, during and after it is measured. O has three variants, one
  of which answers only the point queries, and two workloads of two queries and one: two
  queries are what dropping an error from one list can put out of step. The
  calibration has all columns of up to 3 values of 1, 2, 3 or 5 rows and up to 2 nulls, which
  brings halves, ties, infeasible targets and targets of less than a row. The
  read bench has a cascade of two steps over 5 rows in 2 fragments, with two bounds: a second
  build beside one read, or one build with a file for each version. The
  training has 2 or 3 images in batches of 2, so that the last one is partial, 2 workers,
  whose answers overtake each other, and 2 epochs, the second of which meets data built
  again meanwhile.
* `small_files`: every way to cut seven rows into batches of one or two, so that batches
  end before, at and after the boundaries of the slices and one row too many is cut off;
  the second start finds what the first left under the same run id, in the driver's `/tmp` too.
  A second run id shares nothing with the first but that: a directory and a table are of
  a run id, and the name of a batch is of its number only.

Deadlock checking is off where the programs stop by themselves, which all of them do
but the collector; its jobs end and its bound on entries is reached.

### Fairness

Only three runs use it.

* `StressJob!Fairness`: the task threads run (`Emit`, `Redeploy` after the fixed delay, the
  checkpoint lock), a started commit returns with success or failure, terminating tasks
  terminate, and the checkpoint timer keeps firing. Success of a commit is not assumed,
  nor that a restart, a cancellation or a compaction happens. `JobEnds` then says that each
  attempt's own deadline, with the limit of the restart strategy, is enough.
* `MetricsCollector!FairSpec`: the collector's loop runs for ever, each request returns, and
  (strong fairness) a request that is made again and again is answered some time.
* `MutationBench!FairSpec`: the parent runs, and so does a process outside of a Lance call. A
  call into Lance may hang for ever and a process may never come up: `ScenarioEnds` rests
  on the joins' time-outs and on SIGKILL.

## 4. Proofs

All theorems hold for any constants that meet the named assumptions, which TLC evaluates in
the runs too:

* `StressJobAssumption`, `MetricsCollectorAssumption`: numbers are natural, a batch has at
  least one row. Subtasks need not even be finite in number.
* `CompactIndexAssumption`: there is a combination, of one of the two paths, and one start.
* `MutationBenchAssumption`: no process is both writer and compactor, the writers are finite in
  number, and there is at most one compactor, as in `run_scenario`.
* `FormatBenchAssumption`, `CompositeKeyAssumption`, `CalibrationAssumption`,
  `ReadCascadeAssumption`, `SmallFilesAssumption`: numbers are natural and lists are lists; O's first
  variant is the baseline; a target is at most all rows; a build has a fragment at least; an
  append of M6 has a row at least, and the source as many as are asked for; L2's lists of all
  workloads and formats name each once (L2_write.py:40-45).
* `ImageLoaderAssumption`: a build has an image at least, and batches, parts, labels, workers,
  the prefetch and the epochs are at least one.
* `TpcdsPipelineAssumption`: the source is one of the tables, a fraction is called neither
  like a format nor "m6", and no run id is "ctas", so that no two of the directories M1, M5 and
  M6 write to are the same; the code's names are of different forms.

The stress pipeline (`StressProofs`, `MetricsCollectorProofs`):

* `TypeCorrect`. By one step per action.
* `NoDoubleStore`, `OrderedStore`, `DurableCheckpoints`, `FinishedJobIsWhole`. None of them is inductive. What
  is stored depends on what was buffered, so the invariant `IInv` adds: of a task that is
  not down, the rows its current attempt has emitted are split between table and buffer
  (`BufferOK`); a task that may be redeployed has no buffer (`DownEmpty`), or a former
  attempt's rows would be flushed by a later one; stored rows belong to attempts that have
  begun (`StoredOK`), so a new attempt's rows are new; what a subtask acknowledged is stored
  (`AcknowledgedStored`), and by the very attempt that runs now, as long as the checkpoint is in
  progress, for then no task has failed (`CheckpointOK`). So at the final checkpoint all
  rows of the last attempts are stored, and a row still buffered would be stored as well, which
  `BufferOK` excludes (`FinalCheckpoint`). Appends and rewrites are reduced to two lemmas about the set
  of fragments (`AddDisjoint`, `RewriteKeepsRows`), and every way a buffer reaches the
  table to one (`BufferLands`). The table is kept finite because equal fragments are
  numbered by counting them. `Invariance` is `IInv` itself, which TLC checks in `stress_job`.
* `Refinement`. Every step of the job maps to a step of `AtLeastOnce`, or a stutter, with
  `delivered` being the rows of the live fragments. `LandingDelivers` shows that a landing
  buffer is a batch that starts where the delivered part of its attempt ends.
* `RunImplementsJob`: the script adds no behaviour to the job's variables, so the theorems
  above hold of a whole run; `VerifiedRowsStay` then follows since no step of the job
  removes a stored row.
* `CopiesBounded`: the stored copies of an id are of different attempts, and attempts are numbered
  from 0 to `restarts`, so the copies inject into as many numbers (`CopiesInject`).
  `DuplicatesAreRestarts` bounds the rows that `Verify` counts by the pairs of an id and an attempt
  in the same way; it needs the rows to be finite in number, which is an invariant of its own
  (`FiniteRows`), and that restarts are never uncounted, so that the bound survives the report.
* `CountsAreRestarts`, from the invariant `CountOK`: as long as the collector has been answered about one job only, the count
  is bounded by the entries into RUNNING that the last timestamp seen accounts for. With
  an id that is always so; without one, it is until a second job answers, and no longer.
* `CollectorTypeCorrect`, by one step per action.

The audit (`CompactIndexProofs`): `PassIsEvidence`, `NoAccusation`, `OutputWhole`, `CrashCost`
and `AuditTypeCorrect`. `CrashCost` is about the combinations of the start that is killed; those
of an earlier start do not survive the first checkpoint of the next (5 below). The invariant `AuditInv` adds to them that results and files
hold the combinations in their order (`FilesOK`), that while one is worked on the output has
all those before it (`CheckpointOK`), and what is known of index and dataset by the time
they are judged (`EvidenceOK`): a verdict is about a state several phases back. `RowJoins`
says once what appending a row to the results preserves.

The mutations (`MutationBenchProofs`): `RecordsAgree`, `NobodyOutlivesTheReport`, `TypeCorrect`,
`OnlyTheCompactorConflicts` and `CleanScenario`.
`RecordsMatchDataset` bounds the differences of three counters; `RecordsFollow` says what they
are at each place a process can be (nothing unrecorded in the loop, one operation in flight in
a call, a committed one unrecorded when it is answered), from which they follow. A
step changes one process only (`RecordsFollowLocal`), and none once the parent
has reported (`NobodyStarts`). `ReportInv` adds what the files hold of this run and of an earlier
one (`FilesFollow`), what the report was summed up from (`ReportFollows`), and who had
committed when a conflict was met (`ConflictsFollow`). `CleanScenario` is about sums over all
writers: that the sum of records is that of commits, and that the kinds of the report add up to the
operations, follows writer by writer (`SumPointwise`, `SumOverKinds`).

The pipeline (`TpcdsPipelineProofs`): `PipelineTypeCorrect`, `ManifestIsTrue`,
`MeasuresFreshCopies`, `LeavesNothing`, `TablesAreIsolated`, `ReadsAreOfWholeTables`, all six
properties of the run. Three ideas carry the invariant `PipelineInv`:

* A step changes only the directories its script may touch where it is (`MayTouch`,
  lemma `Frame`), and those of M1, of M5's CTAS copies and of its Lance copies are apart
  (`DirsApart`), as is M6's table. So no step but M1's changes a table of M1, and none but
  M5's a copy.
* M1's manifest is either the records of the run, which do not call the task at hand ok, or
  that task is one M1 has begun to rewrite with the manifest calling it ok (`WritesOK`): the task of
  an earlier run's manifest before the first save, or one of a table named twice. That
  is why `ManifestOkMeansWhole` excepts `begun`.
* A copy is complete from its making to its DELETE because nothing was where it was made,
  unless a removal had failed, which is recorded (`CopiesOK`, `FreshResult`); and all that was
  made lies where the clean-up looks (`CleanUpOK`).

The small files (`SmallFilesProofs`): `SlicesPartition`, `InStep`, `SavedAlike`, `CleanRun`, from
`FilesInv`. `Load` and `Take` are one turn of the two loops over record batches, and
`load_source_batches` and `take_rows` the left folds of them. That a fold has its steps
(`LoadRun`, `TakeRun`) is `LeftFoldExists`; then by induction over the batches, what was loaded are
consecutive rows that add up to those asked for (`AddsUp`, `Cut`), and a slice is
the rows from its start on (`Sliced`). What is in either table is then the concatenation of
slices, fragment by fragment, for any number of appends (`Tables`).

The benches (`BenchProofs`):

* `OkIsReadable` and `MeasuredIsVerified` (L2), from `L2Inv`. A dataset is written over in place, so
  `Found` says of every record of a writer under way, and of a saved manifest unless its place was
  written since, that the dataset is there as verified; and since a scan compares rows, and the
  opened handle is older than what it may be compared with, `Versioned` says of everything
  anybody remembers of a place that its version is not after the present one, and that no two
  that have the same version differ in rows.
  `L2Types` also counts versions: each writer makes at most one of a dataset, because its plan names
  no task twice (`PlanInjective`, by `InjectiveConcat` and `KeptInjective`), so what is still to be
  written has fewer versions than writers were started (`L2Counted`).
* `OkMeansWhatItSays` and `AlarmsAreTrue` (O). That lists of row counts are equal, of which errors
  were dropped, says something of the queries only if the same ones failed: then the
  lists agree query by query (`KeptDetermines`). The other direction, with a baseline, needs no
  more than that equal answers give equal lists. Without one the list compared with is
  empty, so an alarm says that something was answered and no more.
* `LabelsAreHonest` (M4, M5): the cumulative counts are sums, one is nearest, and since rounding the
  target to whole rows is exact when it is whole, the nearest is within the tolerance if any is.
* `PlanIsTrue` and `RelativeToA` (read bench), from `RInv`: whatever a script holds of a version, in the
  plan, in a file it read or in memory, is what there is at it (`NotesTrue`), because versions are
  only added (`Grown`); the latest is the latest of the latest build (`Newest`), so versions
  after as many appends have as many rows (`SameRows`), provided that a compaction loses none,
  which is an induction over the fragments (`MergeRows`), and that appends made
  meanwhile stay behind what it merged (`Prefix`, `CommittedRows`). That the version of a tag exists
  needs the steps to be noted in the order of the plan (`StepsNoted`).
* `EpochsAreComplete` (training bench), from `IInvariant`. The files of their own are the specification
  of the other two methods: a batch that was fetched is what `RawS3Dataset` would have given,
  whatever version or parts a worker holds (`InOrder`). For Lance, because an index has a rank
  of its own and every rank is that of an index, so the images are put back to where they were
  asked for (`RankOnce`, `RankAll`, `SortRestores`), and because every version, of any build, has
  image i at place i (`IStored`); for Parquet, because the last row of an id is one of its rows
  (`ParquetGives`). What the loop has is then always the first batches of some order of the images
  (`RawPrefix`, `ConsumeGives`), which holds each once (`EpochComplete`).

* `BenchesAreBenches`: the runs, which begin with one of the six, N's audit among them, are
  behaviours of all six specifications (those not chosen stutter), so every theorem above
  holds of the runs too. `BenchTypes`, the types of all their variables, follows from it and the
  six type theorems (`AuditTypeCorrect`, `L2Types`, `OTypes`, `CalibrationTypes`, `RTypes`, `ITypes`).

Folds and sums (`FoldProofs`). The library's induction theorems take an operator, which the
provers cannot instantiate; here a claim is a set, and induction says that the set holds every
number, every finite subset or every sequence (`NatSetInduction`, `FiniteSetInduction`,
`SeqSetInduction`). The community modules define folds by a recursive function that is chosen;
that there is one is `FoldExists` and `LeftFoldExists`, after which it can be unfolded. On
this rest `SumAdds`, `SumPointwise` and `SumSeqConcat` about sums, `FlatAppend` about flattened
sequences, `KeptElements` and `KeptDetermines` about selections, and `InjectiveConcat` and
`KeptInjective` about sequences without repetitions. For this, selections are
written as `Kept`, and the bodies of three folds have names (`Load`, `Take`, `Joined`).

Only model-checked: liveness (`JobEnds`, `RestartIsNoticed`, `ScenarioEnds`), which is out of
the prover's reach under fairness. Every invariant and every action property of a passing run is
proved, and so is the refinement. No module uses a RECURSIVE operator. Each property of a passing
run has a seeded bug in `PROJECT.json` that it is shown to catch.

## 5. Divergences found

1. After a restart the source does not replay from the last checkpoint
   (01_REPORT_lance_0.23.3.md:102) but from zero: every id the failed attempt stored may be
   stored again, and not only those since the checkpoint.
2. `run_stress.sh` verifies five seconds after an asynchronous cancellation; the "final data"
   may not be final. Counted rows stay, but rows may be missing from the count.
3. Q aggregates files by name. Those of an earlier run count when their process dies before
   it opens its file; exit codes are not looked at.
4. M2 lists by a key prefix that ends in the table's name, so the size of a table includes that of
   every other whose name begins with its: `store` takes in `store_sales` and `store_returns`,
   `customer` takes in `customer_address`, and `store_sales` M6's `store_sales_m6` and M5's CTAS copies
   `store_sales_m5_<fraction>`, if they were kept or left by a kill, although M5 is written so
   that M2 remain reproducible.
5. N's results are called checkpoint-friendly and recoverable after a kill
   (REPORT_N_compact_index.md:364). They are while nothing is started again: the next start
   begins with no combinations, never reads the file, and its first checkpoint
   (N_compact_index.py:866) replaces all that was there by one row.

Nothing in the repository says otherwise of the following, which the properties
are stated around:

* `run_stress.sh` passes `$JID` unquoted (line 55). If no id was found, the collector asks about every
  job and, once two have answered, takes the difference of their start times for restarts.
* Without V0 (skipped, or fatal in itself) O reports `cross_variant_row_count_mismatches` for every
  variant that answered anything, however it answered.
* An M6 whose put fails or times out leaves `/tmp/<batch>.parquet` at the driver, which no
  clean-up looks for.
* M1 asked twice for a table leaves its manifest ok while the table is removed and written again.

## 6. Plan

Done:

1. The stress pipeline: `AtLeastOnce`, `StressJob`, `StressRun`, `MetricsCollector`, with proofs.
2. The benches whose results depend on order and failure: `MutationBench`, `CompactIndex`,
   `TpcdsPipeline`, `SmallFiles`; M0's manifest, M3's scans and M4's index beside M1, M2 and M5.
3. `FormatBench`, `CompositeKey`, `Calibration`, `ReadCascade`, `ImageLoader`.
4. Proofs of all invariants of the stress pipeline, of `MutationBench`, `CompactIndex`,
   `TpcdsPipeline` and `SmallFiles`, and of the properties of `FormatBench`, `CompositeKey`, `Calibration`,
   `ReadCascade` and `ImageLoader`, with a library of folds and sums.

Left, in this order:

1. The grid of scenarios of Q, which share a workspace and save once, at the end.
2. The publisher's section stripping as an operator against a reference.

## 7. Not modelled

* Time. Deadlines, delays and time-outs are choices that may fall anywhere; latencies and
  sizes in bytes are measured only.
* The single-feature benches (A-K), the size investigations, `bench_pure_take.py` and
  `spark_read.py`: sequential measurements of library calls; they keep no state over which
  two steps could disagree.
* Q's loop over its grid of scenarios.
* `--workloads` and `--formats` of L2 given out of order or with repetitions: a selection is a
  subset, in the standard order.
* The checkpoint columns that the collector copies through.
* In Q, an error raised after Lance has committed, which no call is known to raise but a
  `KeyboardInterrupt`: an operation that raises has not changed the dataset.
* Contents of rows, schemas, encodings and index structures.
* The publisher's rendering, the reports and the build files.
