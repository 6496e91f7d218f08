----------------------------- MODULE StressJob -----------------------------
(***************************************************************************)
(* The Flink stress job (stress-job/.../StressJob.java) appending to one   *)
(* Lance table through the patched LanceSink, while compactor.py rewrites  *)
(* that table.  Source and sink of a subtask are chained: one thread emits *)
(* a row, buffers it and, when the buffer is full, commits it before the   *)
(* next row; a checkpoint flushes the buffer under the checkpoint lock.    *)
(*                                                                         *)
(* A row is [sub, seq, att]: its id is <<sub, seq>> (seqBase + seq in the  *)
(* code), and att tells apart two emissions of one id, whose timestamp and *)
(* random payload differ.  The table is the bag of its live fragments: a   *)
(* set of [rows, copy], copy counting equal fragments from 0.              *)
(***************************************************************************)
EXTENDS Integers, FiniteSets

CONSTANTS
    Subtasks,      \* PARALLELISM source/sink chains
    BatchSize,     \* LanceSink.batchSize
    RowsPerRun,    \* rows one attempt emits before its endTime
    MaxRestarts,   \* restart-strategy.fixed-delay.attempts
    MaxCompactions \* bound: commits of the compactor

ASSUME StressJobAssumption ==
    /\ BatchSize \in Nat \ {0}
    /\ RowsPerRun \in Nat
    /\ MaxRestarts \in Nat
    /\ MaxCompactions \in Nat

VARIABLES
    task,      \* task[s]: what the chain of subtask s is doing
    attempt,   \* attempt[s]: its execution attempt
    seq,       \* seq[s]: the source's local counter
    buffer,    \* buffer[s]: the sink's rows not yet committed
    job,       \* the job status the JobManager shows
    restarts,  \* failures the restart strategy has counted
    cp,        \* the checkpoint in progress: [on, seen, at], where at[s] is
               \* seq[s] at the moment s acknowledged it
    cpSeq,     \* cpSeq[s]: at[s] of the last completed checkpoint
    table,     \* the live fragments [rows, copy] of the latest version
    plan,      \* the fragments the compactor is rewriting
    compactions

jobVars == <<task, attempt, seq, buffer, job, restarts>>
cpVars  == <<cp, cpSeq>>
compactorVars == <<plan, compactions>>
vars == <<task, attempt, seq, buffer, job, restarts, cp, cpSeq,
          table, plan, compactions>>

Row      == [sub : Subtasks, seq : Nat, att : Nat]
Fragment == [rows : SUBSET Row, copy : Nat]

(* "emit": in the source loop; "flush"/"snap": inside LanceSink.flush(),   *)
(* called by invoke() or by snapshotState(); "dying": cancelled or failed, *)
(* not terminated; "down": terminated.                                     *)
TaskState == {"emit", "flush", "snap", "dying", "down"}
JobState  == {"RUNNING", "FINISHED", "FAILED", "CANCELED"}

Rows(t) == UNION {f.rows : f \in t}   \* the rows of a set of fragments
Stored  == Rows(table)                \* what a reader of the table sees
RowOf(s, q) == [sub |-> s, seq |-> q, att |-> attempt[s]]
NoCheckpoint == [on |-> FALSE, seen |-> {}, at |-> [s \in Subtasks |-> 0]]

(* create_dataset.py commits the empty table before the job is submitted. *)
Init ==
    /\ task = [s \in Subtasks |-> "emit"]
    /\ attempt = [s \in Subtasks |-> 0]
    /\ seq = [s \in Subtasks |-> 0]
    /\ buffer = [s \in Subtasks |-> {}]
    /\ job = "RUNNING"
    /\ restarts = 0
    /\ cp = NoCheckpoint
    /\ cpSeq = [s \in Subtasks |-> 0]
    /\ table = {}
    /\ plan = {}
    /\ compactions = 0

-----------------------------------------------------------------------------
(* The source loop and the sink.                                           *)

(* The fragments t and one more, of these rows. *)
Add(t, rows) ==
    t \cup {[rows |-> rows, copy |-> Cardinality({f \in t : f.rows = rows})]}

(* append.commit: Lance rebases an append over whatever was committed since *)
(* the version flush() opened, so it adds its fragment to the latest one.  *)
AppendCommit(rows) == table' = Add(table, rows)

(* One turn of the loop: collect() puts the row in the chained sink, whose *)
(* invoke() goes on to flush() when the buffer is full.                    *)
Emit(s) ==
    /\ task[s] = "emit"
    /\ seq[s] < RowsPerRun
    /\ buffer' = [buffer EXCEPT ![s] = @ \cup {RowOf(s, seq[s])}]
    /\ seq' = [seq EXCEPT ![s] = @ + 1]
    /\ task' = [task EXCEPT ![s] =
                  IF Cardinality(buffer'[s]) >= BatchSize THEN "flush" ELSE "emit"]
    /\ UNCHANGED <<attempt, job, restarts, table>>
    /\ UNCHANGED <<cpVars, compactorVars>>

FlushCommit(s) ==
    /\ task[s] = "flush"
    /\ AppendCommit(buffer[s])
    /\ buffer' = [buffer EXCEPT ![s] = {}]
    /\ task' = [task EXCEPT ![s] = "emit"]
    /\ UNCHANGED <<attempt, seq, job, restarts, cpVars, compactorVars>>

-----------------------------------------------------------------------------
(* Checkpoints: EXACTLY_ONCE mode, one at a time (minimum pause > 0).      *)

CheckpointTrigger ==
    /\ ~cp.on
    /\ \A s \in Subtasks : task[s] \in {"emit", "flush"}
    /\ cp' = [on |-> TRUE, seen |-> {}, at |-> [s \in Subtasks |-> 0]]
    /\ UNCHANGED <<jobVars, cpSeq, table, compactorVars>>

(* The JobManager ignores a late acknowledgement of a checkpoint that a    *)
(* failure has aborted.                                                    *)
Acknowledge(s) ==
    cp' = IF ~cp.on THEN cp
          ELSE [cp EXCEPT !.seen = @ \cup {s}, !.at = [@ EXCEPT ![s] = seq[s]]]

(* Seeded bug: snapshotState() acknowledges without flushing. *)
SnapshotEmpty_Unflushed(s) ==
    /\ cp.on /\ s \notin cp.seen
    /\ task[s] = "emit"
    /\ Acknowledge(s)
    /\ UNCHANGED <<jobVars, cpSeq, table, compactorVars>>

(* Seeded bug: a source past its deadline no longer acknowledges. *)
SnapshotEmpty_RunningOnly(s) ==
    /\ cp.on /\ s \notin cp.seen
    /\ task[s] = "emit" /\ buffer[s] = {} /\ seq[s] < RowsPerRun
    /\ Acknowledge(s)
    /\ UNCHANGED <<jobVars, cpSeq, table, compactorVars>>

(* snapshotState() with nothing buffered: the source has no state to save. *)
SnapshotEmpty(s) ==
    /\ cp.on /\ s \notin cp.seen
    /\ task[s] = "emit" /\ buffer[s] = {}
    /\ Acknowledge(s)
    /\ UNCHANGED <<jobVars, cpSeq, table, compactorVars>>

(* snapshotState() enters flush() and keeps the checkpoint lock. *)
SnapshotFlush(s) ==
    /\ cp.on /\ s \notin cp.seen
    /\ task[s] = "emit" /\ buffer[s] # {}
    /\ task' = [task EXCEPT ![s] = "snap"]
    /\ UNCHANGED <<attempt, seq, buffer, job, restarts, cpVars>>
    /\ UNCHANGED <<table, compactorVars>>

SnapshotCommit(s) ==
    /\ task[s] = "snap"
    /\ AppendCommit(buffer[s])
    /\ buffer' = [buffer EXCEPT ![s] = {}]
    /\ task' = [task EXCEPT ![s] = "emit"]
    /\ Acknowledge(s)
    /\ UNCHANGED <<attempt, seq, job, restarts, cpSeq, compactorVars>>

(* Seeded bug: the job ends with any checkpoint its sources acknowledge,   *)
(* the rows they emitted since then only buffered.                         *)
CheckpointComplete_NotFinal ==
    /\ cp.on /\ cp.seen = Subtasks
    /\ cp' = NoCheckpoint
    /\ cpSeq' = cp.at
    /\ job' = "FINISHED"
    /\ task' = [s \in Subtasks |-> "down"]
    /\ UNCHANGED <<attempt, seq, buffer, restarts, table, compactorVars>>

(* A source whose deadline has passed waits, its run() over, for the final *)
(* checkpoint: the one every subtask acknowledges after its last row.  The *)
(* deadline is in time: it may pass before RowsPerRun rows are out.        *)
CheckpointComplete ==
    /\ cp.on /\ cp.seen = Subtasks
    /\ cp' = NoCheckpoint
    /\ cpSeq' = cp.at
    /\ \E final \in BOOLEAN :
          /\ final => cp.at = seq
          /\ (\A s \in Subtasks : cp.at[s] = RowsPerRun) => final
          /\ job' = IF final THEN "FINISHED" ELSE job
          /\ task' = IF final THEN [s \in Subtasks |-> "down"] ELSE task
    /\ UNCHANGED <<attempt, seq, buffer, restarts, table, compactorVars>>

-----------------------------------------------------------------------------
(* Failures.                                                               *)

Live == {s \in Subtasks : task[s] \in {"emit", "flush", "snap"}}

(* Seeded bug: the restart strategy does not count. *)
Fail_Uncounted(T) ==
    /\ task' = [s \in Subtasks |-> IF s \in T THEN "dying" ELSE task[s]]
    /\ cp' = NoCheckpoint
    /\ UNCHANGED <<attempt, seq, buffer, job, restarts, cpSeq, table, compactorVars>>

(* The tasks in T are torn down.  The restart strategy counts one failure  *)
(* and, once its attempts are used up, fails the job and every task.       *)
Fail(T) ==
    LET over == restarts = MaxRestarts
        hit  == IF over THEN Live ELSE T
    IN  /\ job' = IF over THEN "FAILED" ELSE job
        /\ restarts' = IF over THEN restarts ELSE restarts + 1
        /\ task' = [s \in Subtasks |-> IF s \in hit THEN "dying" ELSE task[s]]
        /\ cp' = NoCheckpoint
        /\ UNCHANGED <<attempt, seq, buffer, cpSeq, table>>
        /\ UNCHANGED compactorVars

(* The 60 s timeout: no checkpoint failure is tolerated, the whole job is  *)
(* restarted.                                                              *)
CheckpointExpire ==
    /\ job = "RUNNING"
    /\ cp.on
    /\ Fail(Live)

(* Seeded bug: the sink logs the exception and goes on with an empty buffer. *)
FlushFail_Swallowed(s) ==
    /\ task[s] \in {"flush", "snap"}
    /\ task' = [task EXCEPT ![s] = "emit"]
    /\ buffer' = [buffer EXCEPT ![s] = {}]
    /\ UNCHANGED <<attempt, seq, job, restarts, cpVars, table, compactorVars>>

(* flush() throws IOException.  The chains share no shuffle, so the failed *)
(* one may restart alone (region failover) or with all others.             *)
FlushFail(s) ==
    /\ job = "RUNNING"
    /\ task[s] \in {"flush", "snap"}
    /\ \E T \in {{s}, Live} : Fail(T)

(* PATCH /jobs/<id>: cancels the job, stops its checkpoints. *)
Cancel ==
    /\ job = "RUNNING"
    /\ job' = "CANCELED"
    /\ task' = [s \in Subtasks |-> IF s \in Live THEN "dying" ELSE task[s]]
    /\ cp' = NoCheckpoint
    /\ UNCHANGED <<attempt, seq, buffer, restarts, cpSeq>>
    /\ UNCHANGED <<table, compactorVars>>

(* A task ends.  What it still buffered is lost, or lands once: a commit   *)
(* under way goes through, or the sink's close() flushes.                  *)
(* Seeded bug: the buffer survives the restart of its task. *)
Discard_KeepsBuffer(s) ==
    /\ task' = [task EXCEPT ![s] = "down"]
    /\ UNCHANGED <<attempt, seq, buffer, job, restarts, cpVars, compactorVars>>

Discard(s) ==
    /\ buffer' = [buffer EXCEPT ![s] = {}]
    /\ task' = [task EXCEPT ![s] = "down"]
    /\ UNCHANGED <<attempt, seq, job, restarts, cpVars, compactorVars>>

TerminateLose(s) ==
    /\ task[s] = "dying"
    /\ Discard(s)
    /\ UNCHANGED table

TerminateLand(s) ==
    /\ task[s] = "dying"
    /\ buffer[s] # {}
    /\ AppendCommit(buffer[s])
    /\ Discard(s)

(* The subtask runs again as a new instance: run() starts with seq = 0.    *)
(* Neither operator restores any state.                                    *)
Redeploy(s) ==
    /\ job = "RUNNING"
    /\ task[s] = "down"
    /\ task' = [task EXCEPT ![s] = "emit"]
    /\ attempt' = [attempt EXCEPT ![s] = @ + 1]
    /\ seq' = [seq EXCEPT ![s] = 0]
    /\ UNCHANGED <<buffer, job, restarts, table>>
    /\ UNCHANGED <<cpVars, compactorVars>>

-----------------------------------------------------------------------------
(* compactor.py: one iteration opens the latest version and plans, writes  *)
(* the merged data, and commits; an exception only ends the iteration.     *)

CompactPlan ==
    /\ plan = {} /\ compactions < MaxCompactions
    /\ plan' \in {p \in SUBSET table : Cardinality(p) >= 2}
    /\ UNCHANGED <<jobVars, cpVars, table, compactions>>

(* Seeded bugs: the rewritten fragments stay live; the rewrite replaces the *)
(* whole table, with what was appended since it planned.                   *)
CompactCommit_KeepsOld ==
    /\ plan # {}
    /\ table' = Add(table, Rows(plan))
    /\ plan' = {}
    /\ compactions' = compactions + 1
    /\ UNCHANGED <<jobVars, cpVars>>

CompactCommit_Overwrites ==
    /\ plan # {}
    /\ table' = Add({}, Rows(plan))
    /\ plan' = {}
    /\ compactions' = compactions + 1
    /\ UNCHANGED <<jobVars, cpVars>>

(* A Rewrite commits when none of the fragments it replaces is gone. *)
CompactCommit ==
    /\ plan # {} /\ plan \subseteq table
    /\ table' = Add(table \ plan, Rows(plan))
    /\ plan' = {}
    /\ compactions' = compactions + 1
    /\ UNCHANGED <<jobVars, cpVars>>

CompactError ==
    /\ plan # {}
    /\ plan' = {}
    /\ UNCHANGED <<jobVars, cpVars, table, compactions>>

-----------------------------------------------------------------------------
JobStep(s) ==
    \/ Emit(s) \/ FlushCommit(s)
    \/ SnapshotEmpty(s) \/ SnapshotFlush(s) \/ SnapshotCommit(s)
    \/ FlushFail(s) \/ TerminateLose(s) \/ TerminateLand(s) \/ Redeploy(s)

Next ==
    \/ \E s \in Subtasks : JobStep(s)
    \/ CheckpointTrigger \/ CheckpointComplete \/ CheckpointExpire
    \/ Cancel
    \/ CompactPlan \/ CompactCommit \/ CompactError

Spec == Init /\ [][Next]_vars

(* The threads keep running, started native commits return, terminated     *)
(* tasks are redeployed after the restart delay and the 10 s timer keeps   *)
(* triggering checkpoints.  Nothing makes a commit succeed: FlushFail may  *)
(* take its place, until the restart strategy gives up.                    *)
Fairness ==
    /\ WF_vars(CheckpointTrigger) /\ WF_vars(CheckpointComplete)
    /\ \A s \in Subtasks :
          /\ WF_vars(Emit(s)) /\ WF_vars(Redeploy(s))
          /\ WF_vars(FlushCommit(s) \/ SnapshotCommit(s) \/ FlushFail(s))
          /\ WF_vars(SnapshotEmpty(s) \/ SnapshotFlush(s))
          /\ WF_vars(TerminateLose(s) \/ TerminateLand(s))

FairSpec == Spec /\ Fairness

-----------------------------------------------------------------------------
(* Properties.                                                             *)

(* Every variable keeps its type. *)
TypeOK ==
    /\ task \in [Subtasks -> TaskState]
    /\ attempt \in [Subtasks -> Nat]
    /\ seq \in [Subtasks -> Nat]
    /\ buffer \in [Subtasks -> SUBSET Row]
    /\ job \in JobState
    /\ restarts \in 0 .. MaxRestarts
    /\ cp \in [on : BOOLEAN, seen : SUBSET Subtasks, at : [Subtasks -> Nat]]
    /\ cpSeq \in [Subtasks -> Nat]
    /\ table \in SUBSET Fragment
    /\ plan \in SUBSET Fragment
    /\ compactions \in Nat

(* The interleaving of appends, rewrites, failed flushes and dying tasks   *)
(* never stores one emission of a row in two live fragments: duplicates in *)
(* the table only ever come from emitting an id again.                     *)
NoRowTwice ==
    \A f, g \in table : f # g => f.rows \cap g.rows = {}

(* Each attempt of each subtask is stored without a hole from its first    *)
(* row on: a flush that fails takes its task down with it, so a later      *)
(* batch never overtakes a lost one.                                       *)
AttemptsStoredInOrder ==
    \A r \in Stored : \A q \in 0 .. r.seq : [r EXCEPT !.seq = q] \in Stored

(* A job that ends as FINISHED left nothing behind: every row the last     *)
(* attempt of a subtask emitted is in the table, those of the batch that   *)
(* never filled up and of a flush that raced the final checkpoint too.     *)
FinishedIsComplete ==
    job = "FINISHED" => \A s \in Subtasks :
        /\ buffer[s] = {}
        /\ \A q \in 0 .. seq[s] - 1 : RowOf(s, q) \in Stored

(* Once a checkpoint has completed, every id the subtasks had emitted when *)
(* they acknowledged it is in the table, whatever is restarted, lost or    *)
(* compacted afterwards.                                                   *)
CompletedCheckpointDurable ==
    \A s \in Subtasks : \A q \in 0 .. cpSeq[s] - 1 :
        \E r \in Stored : r.sub = s /\ r.seq = q

(* An id is stored at most once per failure plus one: copies never come    *)
(* from anything but the restarts the strategy counted.                    *)
CopiesBoundedByRestarts ==
    \A r \in Stored :
        Cardinality({p \in Stored : p.sub = r.sub /\ p.seq = r.seq}) <= restarts + 1

(* No failure, restart or checkpoint keeps the job running for ever: each  *)
(* attempt has its own deadline, and the restart strategy its limit.       *)
JobEnds == <>(job # "RUNNING")

(* The job delivers what AtLeastOnce promises. *)
Log == INSTANCE AtLeastOnce WITH delivered <- Stored
RefinesAtLeastOnce == Log!LogSpec

(* What the reports say of a restart: the source goes on from the last     *)
(* completed checkpoint (01_REPORT_lance_0.23.3.md:102).  The source keeps *)
(* its counter in a local variable, so it does not.                        *)
ReplayFromCheckpoint ==
    \A s \in Subtasks : task[s] \in {"emit", "flush", "snap"} => seq[s] >= cpSeq[s]
-----------------------------------------------------------------------------
(* The inductive invariant: what the safety properties rest on.            *)

(* Stored rows come from attempts that have begun. *)
StoredOK == \A r \in Stored : r.att <= attempt[r.sub]

(* What the current attempt of a task that is not down has emitted is      *)
(* split between the table and the buffer.                                 *)
BufferOK ==
    \A s \in Subtasks : task[s] # "down" =>
        /\ \A r \in Stored : r.sub = s /\ r.att = attempt[s]
                               => r.seq < seq[s] /\ r \notin buffer[s]
        /\ \A r \in buffer[s] : r.sub = s /\ r.att = attempt[s] /\ r.seq < seq[s]
        /\ \A q \in 0 .. seq[s] - 1 : RowOf(s, q) \in Stored \cup buffer[s]

(* A task that may be redeployed left nothing behind. *)
DownEmpty ==
    \A s \in Subtasks : job = "RUNNING" /\ task[s] = "down" => buffer[s] = {}

(* An attempt takes a failure the restart strategy has counted, and a task *)
(* that is to be redeployed has one more of them to its account.           *)
AttemptsCounted ==
    \A s \in Subtasks :
        /\ attempt[s] <= restarts
        /\ job = "RUNNING" /\ task[s] \in {"dying", "down"} => attempt[s] < restarts

(* What a subtask acknowledged to the checkpoint in progress is stored. *)
AcknowledgedStored ==
    \A s \in Subtasks : \A q \in 0 .. cp.at[s] - 1 :
        \E r \in Stored : r.sub = s /\ r.seq = q

(* A checkpoint in progress is one of tasks that all run on; what a task   *)
(* acknowledged to it, its current attempt has stored.  The tasks of a job *)
(* that ended well are down.                                               *)
CheckpointOK ==
    /\ cp.on => \A s \in Subtasks : task[s] \in {"emit", "flush", "snap"}
    /\ cp.on => \A s \in cp.seen :
          \A q \in 0 .. cp.at[s] - 1 : RowOf(s, q) \in Stored
    /\ job = "FINISHED" => \A s \in Subtasks : task[s] = "down"

IInv ==
    /\ TypeOK /\ IsFiniteSet(table)
    /\ StoredOK /\ BufferOK /\ DownEmpty /\ AttemptsCounted
    /\ CheckpointOK /\ FinishedIsComplete
    /\ NoRowTwice /\ AttemptsStoredInOrder
    /\ AcknowledgedStored /\ CompletedCheckpointDurable
=============================================================================
