---------------------------- MODULE StressProofs ----------------------------
(***************************************************************************)
(* The stress job, and the run that drives it, for every number of         *)
(* subtasks, batch size, run length, restart limit and number of           *)
(* compactions.                                                            *)
(***************************************************************************)
EXTENDS StressRun, FoldProofs

-----------------------------------------------------------------------------
(* The table operations.                                                   *)

(* Adding a fragment to a finite set of fragments gives one, and a reader  *)
(* sees exactly the added rows besides the old ones.                       *)
LEMMA AddFragment ==
    ASSUME NEW t \in SUBSET Fragment, IsFiniteSet(t), NEW rows \in SUBSET Row
    PROVE  /\ Add(t, rows) \in SUBSET Fragment
           /\ IsFiniteSet(Add(t, rows))
           /\ Rows(Add(t, rows)) = Rows(t) \cup rows
<1> DEFINE same == {f \in t : f.rows = rows}
           new  == [rows |-> rows, copy |-> Cardinality(same)]
<1>1. Cardinality(same) \in Nat
  BY FS_Subset, FS_CardinalityType
<1>2. new \in Fragment
  BY <1>1 DEF Fragment
<1>3. new.rows = rows
  OBVIOUS
<1>4. Add(t, rows) = t \cup {new}
  BY DEF Add
<1> HIDE DEF new
<1>5. IsFiniteSet(t \cup {new})
  BY FS_AddElement
<1> QED BY <1>2, <1>3, <1>4, <1>5 DEF Rows

(* Adding rows no fragment holds keeps the fragments of a table disjoint. *)
LEMMA AddDisjoint ==
    ASSUME NEW t, NEW rows, rows \cap Rows(t) = {},
           \A f, g \in t : f # g => f.rows \cap g.rows = {}
    PROVE  \A f, g \in Add(t, rows) : f # g => f.rows \cap g.rows = {}
<1> DEFINE new == [rows |-> rows, copy |-> Cardinality({f \in t : f.rows = rows})]
<1>1. new.rows = rows
  OBVIOUS
<1>2. Add(t, rows) = t \cup {new}
  BY DEF Add
<1> HIDE DEF new
<1>3. \A f \in t : f.rows \cap rows = {}
  BY DEF Rows
<1> QED BY <1>1, <1>2, <1>3

(* The rows of a table are those of a part of it and those of the rest. *)
LEMMA SplitRows ==
    ASSUME NEW t, NEW p \in SUBSET t
    PROVE  Rows(t) = Rows(t \ p) \cup Rows(p)
BY DEF Rows

-----------------------------------------------------------------------------
(* Type correctness.                                                       *)

TypeInv == TypeOK /\ IsFiniteSet(table)

(* The rows of a set of fragments are rows.                                *)
LEMMA RowsType ==
    ASSUME NEW t \in SUBSET Fragment
    PROVE  Rows(t) \in SUBSET Row
BY DEF Rows, Fragment

(* Every variable starts with its type.                                    *)
LEMMA TypeInit == Init => TypeInv
BY FS_EmptySet, StressJobAssumption DEF Init, TypeInv, TypeOK, TaskState, JobState, NoCheckpoint

(* A failure, counted or final, leaves every variable its type.            *)
LEMMA FailType ==
    ASSUME TypeInv, NEW T \in SUBSET Subtasks, Fail(T)
    PROVE  TypeInv'
<1> USE DEF TypeInv, TypeOK
<1>1. restarts' \in 0 .. MaxRestarts
  BY StressJobAssumption DEF Fail
<1>2. job' \in JobState
  BY DEF Fail, JobState
<1>3. task' \in [Subtasks -> TaskState]
  BY DEF Fail, TaskState
<1>4. cp' \in [on : BOOLEAN, seen : SUBSET Subtasks, at : [Subtasks -> Nat]]
  BY DEF Fail, NoCheckpoint
<1> QED BY <1>1, <1>2, <1>3, <1>4 DEF Fail, compactorVars

(* An acknowledgement records how far the subtask is, unless the           *)
(* checkpoint was aborted in the meantime.                                 *)
LEMMA AcknowledgeAt ==
    ASSUME TypeInv, NEW s \in Subtasks, Acknowledge(s)
    PROVE  /\ cp' \in [on : BOOLEAN, seen : SUBSET Subtasks, at : [Subtasks -> Nat]]
           /\ cp'.on = cp.on
           /\ cp.on => /\ cp'.seen = cp.seen \cup {s}
                      /\ cp'.at = [cp.at EXCEPT ![s] = seq[s]]
           /\ ~cp.on => cp' = cp
BY DEF TypeInv, TypeOK, Acknowledge

(* Every step of the job, the table or the compactor keeps the types.      *)
LEMMA TypeStep == TypeInv /\ [Next]_vars => TypeInv'
<1> SUFFICES ASSUME TypeInv, [Next]_vars PROVE TypeInv'
  OBVIOUS
<1> USE DEF TypeInv, TypeOK, jobVars, cpVars, compactorVars
<1>1. ASSUME NEW s \in Subtasks, AppendCommit(buffer[s])
      PROVE  table' \in SUBSET Fragment /\ IsFiniteSet(table')
  BY <1>1, AddFragment DEF AppendCommit
<1>2. ASSUME NEW s \in Subtasks, Acknowledge(s)
      PROVE  cp' \in [on : BOOLEAN, seen : SUBSET Subtasks, at : [Subtasks -> Nat]]
  BY <1>2, AcknowledgeAt
<1>3. ASSUME NEW s \in Subtasks, JobStep(s) PROVE TypeInv'
  <2>1. CASE Emit(s)
    <3>1. RowOf(s, seq[s]) \in Row
      BY DEF RowOf, Row
    <3>2. task' \in [Subtasks -> TaskState]
      BY <2>1 DEF Emit, TaskState
    <3>3. buffer' \in [Subtasks -> SUBSET Row]
      BY <2>1, <3>1 DEF Emit
    <3> QED BY <2>1, <3>2, <3>3 DEF Emit
  <2>2. CASE FlushCommit(s)
    BY <2>2, <1>1 DEF FlushCommit, TaskState
  <2>3. CASE SnapshotEmpty(s)
    BY <2>3, <1>2 DEF SnapshotEmpty
  <2>4. CASE SnapshotFlush(s)
    BY <2>4 DEF SnapshotFlush, TaskState
  <2>5. CASE SnapshotCommit(s)
    BY <2>5, <1>1, <1>2 DEF SnapshotCommit, TaskState
  <2>6. CASE FlushFail(s)
    BY <2>6, FailType DEF FlushFail, Live
  <2>7. CASE TerminateLose(s)
    BY <2>7 DEF TerminateLose, Discard, TaskState
  <2>8. CASE TerminateLand(s)
    BY <2>8, <1>1 DEF TerminateLand, Discard, TaskState
  <2>9. CASE Redeploy(s)
    BY <2>9 DEF Redeploy, TaskState
  <2> QED BY <1>3, <2>1, <2>2, <2>3, <2>4, <2>5, <2>6, <2>7, <2>8, <2>9 DEF JobStep
<1>4. CASE CheckpointTrigger
  BY <1>4 DEF CheckpointTrigger, NoCheckpoint
<1>5. CASE CheckpointComplete
  BY <1>5 DEF CheckpointComplete, NoCheckpoint, TaskState, JobState
<1>6. CASE CheckpointExpire
  BY <1>6, FailType DEF CheckpointExpire, Live
<1>7. CASE Cancel
  BY <1>7 DEF Cancel, NoCheckpoint, TaskState, JobState
<1>8. CASE CompactPlan
  BY <1>8 DEF CompactPlan
<1>9. CASE CompactCommit
  <2>1. IsFiniteSet(table \ plan)
    BY FS_Subset
  <2>2. Rows(plan) \in SUBSET Row
    BY RowsType
  <2> QED BY <1>9, <2>1, <2>2, AddFragment DEF CompactCommit
<1>10. CASE CompactError
  BY <1>10 DEF CompactError
<1>11. CASE UNCHANGED vars
  BY <1>11 DEF vars
<1> QED BY <1>3, <1>4, <1>5, <1>6, <1>7, <1>8, <1>9, <1>10, <1>11 DEF Next

(* Every variable of the stress job keeps its type, and the table never    *)
(* holds infinitely many fragments.                                        *)
THEOREM TypeCorrect == Spec => []TypeOK
<1>1. Spec => []TypeInv
  BY TypeInit, TypeStep, PTL DEF Spec
<1> QED BY <1>1, PTL DEF TypeInv

-----------------------------------------------------------------------------
(* What the table holds.                                                   *)

USE DEF jobVars, cpVars, compactorVars

(* The part of the invariant that speaks of the table and the attempts.    *)
TableOK ==
    /\ StoredOK /\ NoRowTwice /\ AttemptsStoredInOrder
    /\ CompletedCheckpointDurable

(* A buffer that lands, by a flush or as its task terminates, adds exactly *)
(* its rows; they follow what the attempt has stored, without a hole.      *)
LEMMA BufferLands ==
    ASSUME IInv, NEW s \in Subtasks, task[s] # "down",
           AppendCommit(buffer[s]), UNCHANGED <<attempt, cpSeq>>
    PROVE  /\ Stored' = Stored \cup buffer[s]
           /\ TableOK'
<1> USE DEF IInv, TypeOK
<1>1. Stored' = Stored \cup buffer[s]
  BY AddFragment DEF AppendCommit, Stored
<1>2. buffer[s] \cap Stored = {}
  BY DEF BufferOK
<1>3. NoRowTwice'
  <2>1. \A f, g \in Add(table, buffer[s]) : f # g => f.rows \cap g.rows = {}
    BY <1>2, AddDisjoint DEF NoRowTwice, Stored
  <2> QED BY <2>1 DEF AppendCommit, NoRowTwice
<1>4. StoredOK'
  BY <1>1 DEF StoredOK, BufferOK
<1>5. AttemptsStoredInOrder'
  <2> SUFFICES ASSUME NEW r \in Stored', NEW q \in 0 .. r.seq
               PROVE  [r EXCEPT !.seq = q] \in Stored'
    BY DEF AttemptsStoredInOrder
  <2>1. CASE r \in Stored
    BY <1>1, <2>1 DEF AttemptsStoredInOrder
  <2>2. CASE r \in buffer[s]
    <3>1. r \in Row /\ r.sub = s /\ r.att = attempt[s] /\ r.seq < seq[s]
      BY <2>2 DEF BufferOK
    <3>2. [r EXCEPT !.seq = q] = RowOf(s, q)
      BY <3>1 DEF Row, RowOf
    <3>3. q \in 0 .. seq[s] - 1
      BY <3>1 DEF Row
    <3>4. RowOf(s, q) \in Stored \cup buffer[s]
      BY <3>3 DEF BufferOK
    <3> QED BY <1>1, <3>2, <3>4
  <2> QED BY <1>1, <2>1, <2>2
<1>6. CompletedCheckpointDurable'
  BY <1>1 DEF CompletedCheckpointDurable
<1> QED BY <1>1, <1>3, <1>4, <1>5, <1>6 DEF TableOK

(* Once its buffer is empty, everything an attempt emitted is stored. *)
LEMMA EmptyBuffer ==
    ASSUME IInv, NEW s \in Subtasks, task[s] # "down", buffer[s] = {}
    PROVE  \A q \in 0 .. seq[s] - 1 : \E r \in Stored : r.sub = s /\ r.seq = q
<1> TAKE q \in 0 .. seq[s] - 1
<1>1. RowOf(s, q) \in Stored
  BY DEF IInv, BufferOK
<1> QED BY <1>1 DEF RowOf

(* A rewrite replaces fragments by one with the same rows. *)
LEMMA RewriteKeepsRows ==
    ASSUME IInv, CompactCommit
    PROVE  Stored' = Stored /\ NoRowTwice'
<1> USE DEF IInv, TypeOK
<1> DEFINE rest == table \ plan
<1>1. plan \in SUBSET table /\ table' = Add(rest, Rows(plan))
  BY DEF CompactCommit
<1>2. Rows(plan) \in SUBSET Row
  BY RowsType
<1>3. IsFiniteSet(rest) /\ rest \in SUBSET Fragment
  BY FS_Subset
<1>4. Rows(plan) \cap Rows(rest) = {}
  BY <1>1 DEF NoRowTwice, Rows
<1>5. Stored' = Rows(rest) \cup Rows(plan)
  BY <1>1, <1>2, <1>3, AddFragment DEF Stored
<1>6. Stored' = Stored
  BY <1>1, <1>5, SplitRows DEF Stored
<1>7. \A f, g \in Add(rest, Rows(plan)) : f # g => f.rows \cap g.rows = {}
  BY <1>4, AddDisjoint DEF NoRowTwice
<1> QED BY <1>1, <1>6, <1>7 DEF NoRowTwice

-----------------------------------------------------------------------------
(* The inductive invariant.                                                *)

(* The invariant holds before the tasks are deployed.                      *)
LEMMA InvInit == Init => IInv
<1> SUFFICES ASSUME Init PROVE IInv
  OBVIOUS
<1>1. TypeOK /\ IsFiniteSet(table)
  BY TypeInit DEF TypeInv
<1>2. Stored = {}
  BY DEF Init, Stored, Rows
<1> QED BY <1>1, <1>2 DEF Init, IInv, StoredOK, BufferOK, NoRowTwice,
      AttemptsCounted, DownEmpty, AttemptsStoredInOrder, AcknowledgedStored,
      CompletedCheckpointDurable, CheckpointOK, FinishedIsComplete, NoCheckpoint

(* A step that leaves the table, the attempts and the completed checkpoint *)
(* alone leaves what the table holds alone.                                *)
LEMMA TableUntouched ==
    ASSUME IInv, UNCHANGED <<table, attempt, cpSeq>>
    PROVE  TableOK' /\ Stored' = Stored
BY DEF IInv, TableOK, StoredOK, NoRowTwice, AttemptsStoredInOrder,
       CompletedCheckpointDurable, Stored

(* Tasks that stop, or change what they do, keep the buffer split. *)
LEMMA StopKeepsBuffers ==
    ASSUME IInv, Stored' = Stored, UNCHANGED <<attempt, seq, buffer>>,
           \A s \in Subtasks : task'[s] # "down" => task[s] # "down"
    PROVE  BufferOK'
BY DEF IInv, BufferOK, RowOf

(* A failure of a task, whatever it has buffered, preserves the invariant. *)
LEMMA FailStep ==
    ASSUME IInv, NEW T \in SUBSET Subtasks, \A t \in T : task[t] # "down", Fail(T)
    PROVE  TableOK' /\ BufferOK' /\ DownEmpty' /\ AcknowledgedStored'
<1>1. TableOK' /\ Stored' = Stored
  BY TableUntouched DEF Fail
<1>2. \A s \in Subtasks : task'[s] # "down" => task[s] # "down"
  BY DEF Fail, Live, IInv, TypeOK
<1>3. BufferOK'
  BY <1>1, <1>2, StopKeepsBuffers DEF Fail
<1>4. AcknowledgedStored'
  BY DEF Fail, NoCheckpoint, AcknowledgedStored
<1>5. DownEmpty'
  BY DEF Fail, Live, IInv, TypeOK, DownEmpty
<1> QED BY <1>1, <1>3, <1>4, <1>5

(* Every action of a subtask preserves the invariant. *)
LEMMA JobStepInv ==
    ASSUME IInv, NEW s \in Subtasks, JobStep(s)
    PROVE  TableOK' /\ BufferOK' /\ DownEmpty' /\ AcknowledgedStored'
<1> USE DEF IInv, TypeOK
<1>1. CASE Emit(s)
  <2>1. TableOK' /\ Stored' = Stored
    BY <1>1, TableUntouched DEF Emit
  <2>2. AcknowledgedStored'
    BY <1>1, <2>1 DEF Emit, AcknowledgedStored
  <2>3. task[s] # "down" /\ \A t \in Subtasks : task'[t] # "down" => task[t] # "down"
    BY <1>1 DEF Emit
  <2> DEFINE new == RowOf(s, seq[s])
  <2>4. new \notin Stored /\ new.sub = s /\ new.seq = seq[s] /\ new.att = attempt[s]
    BY <2>3 DEF BufferOK, RowOf
  <2>5. seq' = [seq EXCEPT ![s] = @ + 1] /\ buffer' = [buffer EXCEPT ![s] = @ \cup {new}]
    BY <1>1 DEF Emit
  <2>6. attempt' = attempt
    BY <1>1 DEF Emit
  <2> HIDE DEF new
  <2>7. ASSUME NEW t \in Subtasks, task'[t] # "down"
        PROVE  /\ \A r \in Stored' : r.sub = t /\ r.att = attempt'[t]
                                      => r.seq < seq'[t] /\ r \notin buffer'[t]
               /\ \A r \in buffer'[t] : r.sub = t /\ r.att = attempt'[t] /\ r.seq < seq'[t]
    <3>1. CASE t = s
      <4>1. \A r \in buffer[s] : r.seq \in Nat
        BY DEF Row
      <4>2. \A r \in Stored : r.seq \in Nat
        BY RowsType DEF Stored, Row
      <4> QED BY <2>1, <2>3, <2>4, <2>5, <2>6, <3>1, <4>1, <4>2 DEF BufferOK
    <3>2. CASE t # s
      BY <2>1, <2>3, <2>5, <2>6, <2>7, <3>2 DEF BufferOK
    <3> QED BY <3>1, <3>2
  <2>8. ASSUME NEW t \in Subtasks, task'[t] # "down", NEW q \in 0 .. seq'[t] - 1
        PROVE  RowOf(t, q)' \in Stored' \cup buffer'[t]
    <3>1. RowOf(t, q)' = RowOf(t, q)
      BY <2>6 DEF RowOf
    <3>2. CASE t = s /\ q = seq[s]
      BY <2>5, <3>1, <3>2 DEF new
    <3>3. CASE ~(t = s /\ q = seq[s])
      <4>1. q \in 0 .. seq[t] - 1
        BY <2>5, <3>3
      <4>2. RowOf(t, q) \in Stored \cup buffer[t]
        BY <2>3, <2>8, <4>1 DEF BufferOK
      <4> QED BY <2>1, <2>5, <3>1, <4>2
    <3> QED BY <3>2, <3>3
  <2>9. DownEmpty'
    BY <1>1, <2>3, <2>5 DEF Emit, DownEmpty
  <2> QED BY <2>1, <2>2, <2>7, <2>8, <2>9 DEF BufferOK
<1>2. ASSUME task[s] # "down", AppendCommit(buffer[s]), UNCHANGED <<attempt, seq, cpSeq>>,
             buffer' = [buffer EXCEPT ![s] = {}],
             \A t \in Subtasks : task'[t] # "down" => task[t] # "down"
      PROVE  TableOK' /\ BufferOK' /\ Stored' = Stored \cup buffer[s]
  <2>1. TableOK' /\ Stored' = Stored \cup buffer[s]
    BY <1>2, BufferLands
  <2>2. ASSUME NEW t \in Subtasks, task'[t] # "down"
        PROVE  /\ \A r \in Stored' : r.sub = t /\ r.att = attempt[t]
                                      => r.seq < seq[t] /\ r \notin buffer'[t]
               /\ \A r \in buffer'[t] : r.sub = t /\ r.att = attempt[t] /\ r.seq < seq[t]
    BY <1>2, <2>1, <2>2 DEF BufferOK
  <2>3. ASSUME NEW t \in Subtasks, task'[t] # "down", NEW q \in 0 .. seq[t] - 1
        PROVE  RowOf(t, q) \in Stored' \cup buffer'[t]
    BY <1>2, <2>1, <2>3 DEF BufferOK
  <2> QED BY <1>2, <2>1, <2>2, <2>3 DEF BufferOK, RowOf
<1>3. CASE FlushCommit(s)
  <2>1. TableOK' /\ BufferOK' /\ Stored' = Stored \cup buffer[s]
    BY <1>2, <1>3 DEF FlushCommit
  <2> QED BY <1>3, <2>1 DEF FlushCommit, DownEmpty, AcknowledgedStored
<1>4. CASE SnapshotEmpty(s)
  <2>1. TableOK' /\ Stored' = Stored
    BY <1>4, TableUntouched DEF SnapshotEmpty
  <2>2. BufferOK'
    BY <1>4, <2>1, StopKeepsBuffers DEF SnapshotEmpty
  <2>3. \A q \in 0 .. seq[s] - 1 : \E r \in Stored : r.sub = s /\ r.seq = q
    BY <1>4, EmptyBuffer DEF SnapshotEmpty
  <2>4. cp'.at = [cp.at EXCEPT ![s] = seq[s]]
    BY <1>4, AcknowledgeAt DEF SnapshotEmpty, TypeInv
  <2>5. ASSUME NEW t \in Subtasks, NEW q \in 0 .. cp'.at[t] - 1
        PROVE  \E r \in Stored' : r.sub = t /\ r.seq = q
    <3>1. CASE t = s
      <4>1. cp'.at[t] = seq[s]
        BY <2>4, <3>1
      <4> QED BY <2>1, <2>3, <3>1, <4>1
    <3>2. CASE t # s
      <4>1. cp'.at[t] = cp.at[t]
        BY <2>4, <3>2
      <4> QED BY <2>1, <4>1 DEF AcknowledgedStored
    <3> QED BY <3>1, <3>2
  <2>6. AcknowledgedStored'
    BY <2>5 DEF AcknowledgedStored
  <2> QED BY <1>4, <2>1, <2>2, <2>6 DEF SnapshotEmpty, DownEmpty
<1>5. CASE SnapshotFlush(s)
  <2>1. TableOK' /\ Stored' = Stored
    BY <1>5, TableUntouched DEF SnapshotFlush
  <2>2. \A t \in Subtasks : task'[t] # "down" => task[t] # "down"
    BY <1>5 DEF SnapshotFlush
  <2>3. BufferOK'
    BY <1>5, <2>1, <2>2, StopKeepsBuffers DEF SnapshotFlush
  <2> QED BY <1>5, <2>1, <2>3 DEF SnapshotFlush, DownEmpty, AcknowledgedStored
<1>6. CASE SnapshotCommit(s)
  <2>1. TableOK' /\ BufferOK' /\ Stored' = Stored \cup buffer[s]
    BY <1>2, <1>6 DEF SnapshotCommit
  <2>2. cp'.at = [cp.at EXCEPT ![s] = seq[s]] \/ cp'.at = cp.at
    BY <1>6, AcknowledgeAt DEF SnapshotCommit, TypeInv
  <2>3. \A q \in 0 .. seq[s] - 1 : \E r \in Stored' : r.sub = s /\ r.seq = q
    <3> TAKE q \in 0 .. seq[s] - 1
    <3>1. RowOf(s, q) \in Stored \cup buffer[s]
      BY <1>6 DEF SnapshotCommit, BufferOK
    <3> QED BY <2>1, <3>1 DEF RowOf
  <2>4. ASSUME NEW t \in Subtasks, NEW q \in 0 .. cp'.at[t] - 1
        PROVE  \E r \in Stored' : r.sub = t /\ r.seq = q
    <3>1. CASE t = s /\ cp'.at # cp.at
      <4>1. cp'.at[t] = seq[s]
        BY <2>2, <3>1
      <4> QED BY <2>3, <3>1, <4>1
    <3>2. CASE t # s \/ cp'.at = cp.at
      <4>1. cp'.at[t] = cp.at[t]
        BY <2>2, <3>2
      <4>2. \E r \in Stored : r.sub = t /\ r.seq = q
        BY <4>1 DEF AcknowledgedStored
      <4> QED BY <2>1, <4>2
    <3> QED BY <3>1, <3>2
  <2>5. AcknowledgedStored'
    BY <2>4 DEF AcknowledgedStored
  <2> QED BY <1>6, <2>1, <2>5 DEF SnapshotCommit, DownEmpty
<1>7. CASE FlushFail(s)
  BY <1>7, FailStep DEF FlushFail, Live
<1>8. CASE TerminateLose(s)
  <2>1. TableOK' /\ Stored' = Stored
    BY <1>8, TableUntouched DEF TerminateLose, Discard
  <2>2. BufferOK'
    BY <1>8, <2>1 DEF TerminateLose, Discard, BufferOK, RowOf
  <2> QED BY <1>8, <2>1, <2>2 DEF TerminateLose, Discard, DownEmpty, AcknowledgedStored
<1>9. CASE TerminateLand(s)
  <2>1. TableOK' /\ BufferOK' /\ Stored' = Stored \cup buffer[s]
    BY <1>2, <1>9 DEF TerminateLand, Discard
  <2> QED BY <1>9, <2>1 DEF TerminateLand, Discard, DownEmpty, AcknowledgedStored
<1>10. CASE Redeploy(s)
  <2>1. Stored' = Stored /\ UNCHANGED <<table, cp, cpSeq, buffer>>
    BY <1>10 DEF Redeploy, Stored
  <2>2. attempt' = [attempt EXCEPT ![s] = @ + 1] /\ seq' = [seq EXCEPT ![s] = 0]
    BY <1>10 DEF Redeploy
  <2>3. \A r \in Stored : r.sub = s => r.att < attempt'[s]
    BY <2>2, RowsType DEF Stored, StoredOK, Row
  <2>4. buffer[s] = {}
    BY <1>10 DEF Redeploy, DownEmpty
  <2>5. StoredOK'
    <3> SUFFICES ASSUME NEW r \in Stored PROVE r.att <= attempt'[r.sub]
      BY <2>1 DEF StoredOK
    <3>1. r \in Row
      BY RowsType DEF Stored
    <3>2. r.sub \in Subtasks /\ r.att \in Nat /\ r.att <= attempt[r.sub]
      BY <3>1 DEF Row, StoredOK
    <3>3. CASE r.sub = s
      BY <2>2, <3>2, <3>3
    <3>4. CASE r.sub # s
      BY <2>2, <3>2, <3>4
    <3> QED BY <3>3, <3>4
  <2>6. TableOK'
    BY <2>1, <2>5 DEF TableOK, NoRowTwice, AttemptsStoredInOrder, CompletedCheckpointDurable
  <2>7. BufferOK'
    <3> SUFFICES ASSUME NEW t \in Subtasks, task'[t] # "down"
                 PROVE  (/\ \A r \in Stored : r.sub = t /\ r.att = attempt[t]
                                               => r.seq < seq[t] /\ r \notin buffer[t]
                         /\ \A r \in buffer[t] : r.sub = t /\ r.att = attempt[t] /\ r.seq < seq[t]
                         /\ \A q \in 0 .. seq[t] - 1 : RowOf(t, q) \in Stored \cup buffer[t])'
      BY DEF BufferOK
    <3>1. CASE t = s
      <4>1. \A r \in Stored : r.sub = s => r.att # attempt'[s]
        BY <2>2, <2>3, RowsType DEF Stored, Row
      <4>2. seq'[s] = 0 /\ buffer'[s] = {}
        BY <2>1, <2>2, <2>4
      <4> QED BY <2>1, <3>1, <4>1, <4>2
    <3>2. CASE t # s
      <4>1. task[t] # "down" /\ attempt'[t] = attempt[t] /\ seq'[t] = seq[t]
        BY <1>10, <2>2, <3>2 DEF Redeploy
      <4> QED BY <2>1, <3>2, <4>1 DEF BufferOK, RowOf
    <3> QED BY <3>1, <3>2
  <2> QED BY <1>10, <2>1, <2>6, <2>7 DEF Redeploy, DownEmpty, AcknowledgedStored
<1> QED BY <1>1, <1>3, <1>4, <1>5, <1>6, <1>7, <1>8, <1>9, <1>10 DEF JobStep

(* A failure counted and the attempt it leads to keep step: a task dies    *)
(* only as the strategy counts, and is redeployed only after it died.      *)
LEMMA AttemptsStep ==
    ASSUME TypeOK, AttemptsCounted, [Next]_vars
    PROVE  AttemptsCounted'
<1> USE StressJobAssumption DEF TypeOK, AttemptsCounted
<1>1. ASSUME NEW T \in SUBSET Subtasks, T \subseteq Live, job = "RUNNING", Fail(T)
      PROVE  AttemptsCounted'
  <2> SUFFICES ASSUME NEW t \in Subtasks
               PROVE  /\ attempt'[t] <= restarts'
                      /\ job' = "RUNNING" /\ task'[t] \in {"dying", "down"}
                            => attempt'[t] < restarts'
    OBVIOUS
  <2>1. attempt[t] \in Nat /\ restarts \in Nat /\ attempt[t] <= restarts /\ attempt' = attempt
    BY <1>1 DEF Fail
  <2>2. CASE restarts = MaxRestarts
    BY <1>1, <2>1, <2>2 DEF Fail
  <2>3. CASE restarts # MaxRestarts
    BY <1>1, <2>1, <2>3 DEF Fail
  <2> QED BY <2>2, <2>3
<1>2. ASSUME UNCHANGED <<attempt, restarts>>,
             \A s \in Subtasks : job' = "RUNNING" /\ task'[s] \in {"dying", "down"}
                                    => job = "RUNNING" /\ task[s] \in {"dying", "down"}
      PROVE  AttemptsCounted'
  BY <1>2
<1>3. ASSUME NEW s \in Subtasks, JobStep(s) PROVE AttemptsCounted'
  <2>1. CASE Emit(s) \/ FlushCommit(s)
    BY <1>2, <2>1 DEF Emit, FlushCommit
  <2>2. CASE SnapshotEmpty(s) \/ SnapshotFlush(s) \/ SnapshotCommit(s)
    BY <1>2, <2>2 DEF SnapshotEmpty, SnapshotFlush, SnapshotCommit
  <2>3. CASE FlushFail(s)
    <3>1. PICK T \in {{s}, Live} : Fail(T)
      BY <2>3 DEF FlushFail
    <3>2. T \subseteq Live
      BY <2>3, <3>1 DEF FlushFail, Live
    <3> QED BY <1>1, <2>3, <3>1, <3>2 DEF FlushFail, Live
  <2>4. CASE TerminateLose(s) \/ TerminateLand(s)
    BY <1>2, <2>4 DEF TerminateLose, TerminateLand, Discard
  <2>5. CASE Redeploy(s)
    BY <2>5 DEF Redeploy
  <2> QED BY <1>3, <2>1, <2>2, <2>3, <2>4, <2>5 DEF JobStep
<1>4. CASE CheckpointTrigger
  BY <1>2, <1>4 DEF CheckpointTrigger
<1>5. CASE CheckpointComplete
  BY <1>2, <1>5 DEF CheckpointComplete
<1>6. CASE CheckpointExpire
  BY <1>1, <1>6 DEF CheckpointExpire, Live
<1>7. CASE Cancel
  BY <1>2, <1>7 DEF Cancel
<1>8. CASE CompactPlan \/ CompactCommit \/ CompactError
  BY <1>2, <1>8 DEF CompactPlan, CompactCommit, CompactError
<1>9. CASE UNCHANGED vars
  BY <1>2, <1>9 DEF vars
<1> QED BY <1>3, <1>4, <1>5, <1>6, <1>7, <1>8, <1>9 DEF Next

(* Steps of tasks that go on running, under the checkpoint there was.      *)
LEMMA CheckpointKept ==
    ASSUME IInv, Stored \subseteq Stored', UNCHANGED <<attempt, cp, job>>, job # "FINISHED",
           \A t \in Subtasks : task[t] \in {"emit", "flush", "snap"}
                                 => task'[t] \in {"emit", "flush", "snap"}
    PROVE  CheckpointOK' /\ FinishedIsComplete'
BY DEF IInv, CheckpointOK, FinishedIsComplete, RowOf

(* An acknowledgement of a task whose attempt is stored so far.            *)
LEMMA CheckpointAcknowledged ==
    ASSUME IInv, NEW s \in Subtasks, Acknowledge(s), Stored \subseteq Stored',
           \A q \in 0 .. seq[s] - 1 : RowOf(s, q) \in Stored',
           UNCHANGED <<attempt, job>>, job # "FINISHED",
           \A t \in Subtasks : task[t] \in {"emit", "flush", "snap"}
                                 => task'[t] \in {"emit", "flush", "snap"}
    PROVE  CheckpointOK' /\ FinishedIsComplete'
<1>1. CASE ~cp.on
  <2>1. cp' = cp
    BY <1>1, AcknowledgeAt DEF IInv, TypeInv
  <2> QED BY <2>1, CheckpointKept
<1>2. CASE cp.on
  <2>1. cp'.seen = cp.seen \cup {s} /\ cp'.at = [cp.at EXCEPT ![s] = seq[s]]
    BY <1>2, AcknowledgeAt DEF IInv, TypeInv
  <2>2. cp.at \in [Subtasks -> Nat] /\ cp.seen \in SUBSET Subtasks
    BY DEF IInv, TypeOK
  <2>3. ASSUME NEW t \in cp'.seen, NEW q \in 0 .. cp'.at[t] - 1
        PROVE  RowOf(t, q)' \in Stored'
    <3>1. RowOf(t, q)' = RowOf(t, q)
      BY DEF RowOf
    <3>2. CASE t = s
      <4>1. cp'.at[t] = seq[s]
        BY <2>1, <2>2, <3>2
      <4> QED BY <3>1, <3>2, <4>1
    <3>3. CASE t # s
      <4>1. cp'.at[t] = cp.at[t] /\ t \in cp.seen
        BY <2>1, <2>2, <3>3
      <4>2. RowOf(t, q) \in Stored
        BY <1>2, <4>1 DEF IInv, CheckpointOK
      <4> QED BY <3>1, <4>2
    <3> QED BY <3>2, <3>3
  <2> QED BY <1>2, <2>3 DEF IInv, CheckpointOK, FinishedIsComplete
<1> QED BY <1>1, <1>2

(* Nothing is promised while no checkpoint is in progress and the job has  *)
(* not finished.                                                           *)
LEMMA CheckpointAborted ==
    ASSUME ~cp'.on, job' # "FINISHED"
    PROVE  CheckpointOK' /\ FinishedIsComplete'
BY DEF CheckpointOK, FinishedIsComplete

(* The final checkpoint finds every row of the last attempts stored, so    *)
(* nothing is left in a buffer: a buffered row would be stored as well.    *)
LEMMA FinalCheckpoint ==
    ASSUME IInv, cp.on, cp.seen = Subtasks, cp.at = seq, NEW s \in Subtasks
    PROVE  /\ buffer[s] = {}
           /\ \A q \in 0 .. seq[s] - 1 : RowOf(s, q) \in Stored
<1>1. \A q \in 0 .. seq[s] - 1 : RowOf(s, q) \in Stored
  BY DEF IInv, CheckpointOK
<1>2. ASSUME NEW r \in buffer[s] PROVE FALSE
  <2>1. task[s] # "down"
    BY DEF IInv, CheckpointOK
  <2>2. r \in Row /\ r.sub = s /\ r.att = attempt[s] /\ r.seq < seq[s]
    BY <2>1 DEF IInv, TypeOK, BufferOK
  <2>3. r = RowOf(s, r.seq) /\ r.seq \in 0 .. seq[s] - 1
    BY <2>2 DEF Row, RowOf, IInv, TypeOK
  <2>4. r \in Stored
    BY <1>1, <2>3
  <2> QED BY <2>1, <2>2, <2>4 DEF IInv, BufferOK
<1> QED BY <1>1, <1>2

(* No step breaks a promise made to a checkpoint, and the job only         *)
(* finishes on one that covers all there is.                               *)
LEMMA CheckpointStep ==
    ASSUME IInv, [Next]_vars
    PROVE  CheckpointOK' /\ FinishedIsComplete'
<1>1. ASSUME NEW s \in Subtasks, task[s] # "down" PROVE job # "FINISHED"
  BY <1>1 DEF IInv, CheckpointOK
<1>2. ASSUME Stored' = Stored, UNCHANGED <<task, attempt, seq, buffer, job, cp>>
      PROVE  CheckpointOK' /\ FinishedIsComplete'
  BY <1>2 DEF IInv, CheckpointOK, FinishedIsComplete, RowOf
<1>3. ASSUME NEW s \in Subtasks, JobStep(s) PROVE CheckpointOK' /\ FinishedIsComplete'
  <2>1. CASE Emit(s) \/ SnapshotFlush(s)
    <3>1. Stored' = Stored
      BY <2>1 DEF Emit, SnapshotFlush, Stored
    <3> QED BY <1>1, <2>1, <3>1, CheckpointKept DEF Emit, SnapshotFlush, IInv, TypeOK
  <2>2. CASE FlushCommit(s)
    <3>1. Stored' = Stored \cup buffer[s]
      BY <2>2, BufferLands DEF FlushCommit
    <3> QED BY <1>1, <2>2, <3>1, CheckpointKept DEF FlushCommit, IInv, TypeOK
  <2>3. CASE SnapshotEmpty(s)
    <3>1. Stored' = Stored
      BY <2>3 DEF SnapshotEmpty, Stored
    <3>2. \A q \in 0 .. seq[s] - 1 : RowOf(s, q) \in Stored'
      BY <2>3, <3>1 DEF SnapshotEmpty, IInv, BufferOK
    <3> QED BY <1>1, <2>3, <3>1, <3>2, CheckpointAcknowledged DEF SnapshotEmpty
  <2>4. CASE SnapshotCommit(s)
    <3>1. Stored' = Stored \cup buffer[s]
      BY <2>4, BufferLands DEF SnapshotCommit
    <3>2. \A q \in 0 .. seq[s] - 1 : RowOf(s, q) \in Stored'
      BY <2>4, <3>1 DEF SnapshotCommit, IInv, BufferOK
    <3> QED BY <1>1, <2>4, <3>1, <3>2, CheckpointAcknowledged
          DEF SnapshotCommit, IInv, TypeOK
  <2>5. CASE FlushFail(s)
    BY <2>5, CheckpointAborted DEF FlushFail, Fail, NoCheckpoint
  <2>6. CASE TerminateLose(s) \/ TerminateLand(s)
    <3>1. ~cp.on
      BY <2>6 DEF TerminateLose, TerminateLand, IInv, CheckpointOK
    <3> QED BY <1>1, <2>6, <3>1, CheckpointAborted DEF TerminateLose, TerminateLand, Discard
  <2>7. CASE Redeploy(s)
    <3>1. ~cp.on
      BY <2>7 DEF Redeploy, IInv, CheckpointOK
    <3> QED BY <2>7, <3>1, CheckpointAborted DEF Redeploy
  <2> QED BY <1>3, <2>1, <2>2, <2>3, <2>4, <2>5, <2>6, <2>7 DEF JobStep
<1>4. CASE CheckpointTrigger
  <2>1. Stored' = Stored
    BY <1>4 DEF CheckpointTrigger, Stored
  <2> QED BY <1>4, <2>1 DEF CheckpointTrigger, IInv, CheckpointOK, FinishedIsComplete, RowOf
<1>5. CASE CheckpointComplete
  <2>1. Stored' = Stored /\ ~cp'.on /\ UNCHANGED <<attempt, seq, buffer>>
    BY <1>5 DEF CheckpointComplete, Stored, NoCheckpoint
  <2>2. CASE cp.at = seq /\ task' = [s \in Subtasks |-> "down"]
    <3>1. \A s \in Subtasks : buffer[s] = {} /\ \A q \in 0 .. seq[s] - 1 : RowOf(s, q) \in Stored
      BY <1>5, <2>2, FinalCheckpoint DEF CheckpointComplete
    <3> QED BY <2>1, <2>2, <3>1 DEF CheckpointOK, FinishedIsComplete, RowOf
  <2>3. CASE job' = job /\ task' = task
    BY <2>1, <2>3 DEF IInv, CheckpointOK, FinishedIsComplete, RowOf
  <2> QED BY <1>5, <2>2, <2>3 DEF CheckpointComplete
<1>6. CASE CheckpointExpire \/ Cancel
  BY <1>6, CheckpointAborted DEF CheckpointExpire, Cancel, Fail, NoCheckpoint
<1>7. CASE CompactPlan \/ CompactError \/ UNCHANGED vars
  BY <1>2, <1>7 DEF CompactPlan, CompactError, vars, Stored
<1>8. CASE CompactCommit
  <2>1. Stored' = Stored
    BY <1>8, RewriteKeepsRows
  <2> QED BY <1>2, <1>8, <2>1 DEF CompactCommit
<1> QED BY <1>3, <1>4, <1>5, <1>6, <1>7, <1>8 DEF Next

(* Every step preserves the invariant.                                     *)
LEMMA InvStep == IInv /\ [Next]_vars => IInv'
<1> SUFFICES ASSUME IInv, [Next]_vars PROVE IInv'
  OBVIOUS
<1>1. TypeInv'
  BY TypeStep DEF IInv, TypeInv
<1>2. ASSUME UNCHANGED <<table, attempt, cpSeq, seq, buffer>>,
             \A s \in Subtasks : task'[s] # "down" => task[s] # "down"
      PROVE  TableOK' /\ BufferOK' /\ Stored' = Stored
  BY <1>2, TableUntouched, StopKeepsBuffers
<1>3. TableOK' /\ BufferOK' /\ DownEmpty' /\ AcknowledgedStored'
  <2>1. CASE \E s \in Subtasks : JobStep(s)
    BY <2>1, JobStepInv
  <2>2. CASE CheckpointTrigger
    BY <1>2, <2>2 DEF CheckpointTrigger, IInv, DownEmpty, AcknowledgedStored
  <2>3. CASE CheckpointComplete
    <3>1. UNCHANGED <<table, attempt, seq, buffer>> /\ cpSeq' = cp.at
      BY <2>3 DEF CheckpointComplete
    <3>2. Stored' = Stored
      BY <3>1 DEF Stored
    <3>3. CompletedCheckpointDurable'
      BY <3>1, <3>2 DEF IInv, AcknowledgedStored, CompletedCheckpointDurable
    <3>4. TableOK'
      BY <3>1, <3>2, <3>3 DEF IInv, TableOK, StoredOK, NoRowTwice, AttemptsStoredInOrder
    <3>5. \A s \in Subtasks : task'[s] # "down" => task[s] # "down"
      BY <2>3 DEF CheckpointComplete
    <3>6. BufferOK'
      BY <3>1, <3>2, <3>5, StopKeepsBuffers
    <3>7. DownEmpty' /\ AcknowledgedStored'
      BY <2>3 DEF CheckpointComplete, NoCheckpoint, IInv, DownEmpty, AcknowledgedStored
    <3> QED BY <3>4, <3>6, <3>7
  <2>4. CASE CheckpointExpire
    BY <2>4, FailStep DEF CheckpointExpire, Live
  <2>5. CASE Cancel
    <3>1. \A s \in Subtasks : task'[s] # "down" => task[s] # "down"
      BY <2>5 DEF Cancel, Live, IInv, TypeOK
    <3> QED BY <1>2, <2>5, <3>1
          DEF Cancel, NoCheckpoint, IInv, DownEmpty, AcknowledgedStored
  <2>6. CASE CompactPlan
    BY <1>2, <2>6 DEF CompactPlan, IInv, DownEmpty, AcknowledgedStored
  <2>7. CASE CompactCommit
    <3>1. Stored' = Stored /\ NoRowTwice'
      BY <2>7, RewriteKeepsRows
    <3>2. UNCHANGED <<jobVars, cpVars>>
      BY <2>7 DEF CompactCommit
    <3>3. TableOK'
      BY <3>1, <3>2 DEF IInv, TableOK, StoredOK, AttemptsStoredInOrder, CompletedCheckpointDurable
    <3>4. BufferOK'
      BY <3>1, <3>2, StopKeepsBuffers
    <3> QED BY <3>1, <3>2, <3>3, <3>4 DEF IInv, DownEmpty, AcknowledgedStored
  <2>8. CASE CompactError
    BY <1>2, <2>8 DEF CompactError, IInv, DownEmpty, AcknowledgedStored
  <2>9. CASE UNCHANGED vars
    BY <1>2, <2>9 DEF vars, IInv, DownEmpty, AcknowledgedStored
  <2> QED BY <2>1, <2>2, <2>3, <2>4, <2>5, <2>6, <2>7, <2>8, <2>9 DEF Next
<1>4. AttemptsCounted'
  BY AttemptsStep DEF IInv
<1>5. CheckpointOK' /\ FinishedIsComplete'
  BY CheckpointStep
<1> QED BY <1>1, <1>3, <1>4, <1>5 DEF IInv, TypeInv, TableOK

(* In every reachable state the table, the buffers, the attempts and the   *)
(* acknowledgements agree as IInv says: what a task has emitted is split   *)
(* between its buffer and the table, and what a checkpoint was promised is *)
(* stored.                                                                 *)
THEOREM Invariance == Spec => []IInv
BY InvInit, InvStep, PTL DEF Spec

(* However appends, rewrites, failed flushes and dying tasks interleave,   *)
(* no emission of a row is stored in two live fragments.                   *)
THEOREM NoDoubleStore == Spec => []NoRowTwice
BY Invariance, PTL DEF IInv

(* Each attempt of each subtask is stored without a hole.                  *)
THEOREM OrderedStore == Spec => []AttemptsStoredInOrder
BY Invariance, PTL DEF IInv

(* A job that ends as FINISHED has stored every row its last attempts      *)
(* emitted, and left nothing in a buffer.                                  *)
THEOREM FinishedJobIsWhole == Spec => []FinishedIsComplete
BY Invariance, PTL DEF IInv

(* What a completed checkpoint covers is in the table for ever.            *)
THEOREM DurableCheckpoints == Spec => []CompletedCheckpointDurable
BY Invariance, PTL DEF IInv

(* The copies of an id are told apart by their attempts, which the         *)
(* restarts number from zero: the copies of any id inject into them.       *)
LEMMA CopiesInject ==
    ASSUME IInv, NEW r \in Stored
    PROVE  LET copies == {p \in Stored : p.sub = r.sub /\ p.seq = r.seq}
           IN  IsFiniteSet(copies) /\ Cardinality(copies) <= restarts + 1
<1> DEFINE copies == {p \in Stored : p.sub = r.sub /\ p.seq = r.seq}
           att    == [p \in copies |-> p.att]
<1>1. Stored \in SUBSET Row
  BY RowsType DEF IInv, TypeOK, Stored
<1>2. restarts \in Nat
  BY StressJobAssumption DEF IInv, TypeOK
<1>3. ASSUME NEW p \in copies PROVE p.att \in 0 .. restarts
  <2>1. p.att \in Nat /\ p.sub \in Subtasks /\ p.att <= attempt[p.sub]
    BY <1>1 DEF Row, IInv, StoredOK
  <2>2. attempt[p.sub] \in Nat /\ attempt[p.sub] <= restarts
    BY <2>1 DEF IInv, TypeOK, AttemptsCounted
  <2> QED BY <1>2, <2>1, <2>2
<1>4. ASSUME NEW p \in copies, NEW q \in copies, p.att = q.att PROVE p = q
  BY <1>1, <1>4 DEF Row
<1>5. att \in Injection(copies, 0 .. restarts)
  BY <1>3, <1>4 DEF Injection, IsInjective
<1>6. IsFiniteSet(0 .. restarts) /\ Cardinality(0 .. restarts) = restarts + 1
  BY <1>2, FS_Interval
<1> HIDE DEF copies, att
<1>7. IsFiniteSet(copies) /\ Cardinality(copies) <= restarts + 1
  BY <1>5, <1>6, FS_Injection
<1> QED BY <1>7 DEF copies

(* However tasks fail, time out and restart, an id is stored at most once  *)
(* per failure the restart strategy has counted plus one.                  *)
THEOREM CopiesBounded == Spec => []CopiesBoundedByRestarts
<1>1. IInv => CopiesBoundedByRestarts
  BY CopiesInject DEF CopiesBoundedByRestarts
<1> QED BY <1>1, Invariance, PTL

-----------------------------------------------------------------------------
(* The job implements the at-least-once log.                               *)

(* A buffer that lands is a delivery of the log, if it is not empty. *)
LEMMA LandingDelivers ==
    ASSUME IInv, NEW s \in Subtasks, task[s] # "down",
           AppendCommit(buffer[s]), UNCHANGED <<attempt, cpSeq>>
    PROVE  [Log!LogNext]_(Log!logVars)
<1> USE DEF IInv, TypeOK
<1>1. Stored' = Stored \cup buffer[s] /\ AttemptsStoredInOrder'
  BY BufferLands DEF TableOK
<1>2. CASE buffer[s] = {}
  BY <1>1, <1>2 DEF Log!logVars
<1>3. CASE buffer[s] # {}
  <2>1. Stored' \ Stored = buffer[s]
    BY <1>1 DEF BufferOK
  <2>2. ASSUME NEW r \in buffer[s]
        PROVE  /\ r = Log!LogRow(s, r.seq, attempt[s])
               /\ \A c \in Log!Current(s) : c.seq < r.seq
               /\ \A q \in 0 .. r.seq : Log!LogRow(s, q, attempt[s]) \in Stored'
    <3>1. r \in Row /\ r.sub = s /\ r.att = attempt[s]
      BY DEF BufferOK
    <3>2. r = Log!LogRow(s, r.seq, attempt[s]) /\ r.seq \in Nat
      BY <3>1 DEF Row, Log!LogRow
    <3>3. ASSUME NEW c \in Log!Current(s) PROVE c.seq < r.seq
      <4>1. c \in Row /\ c \in Stored /\ c.sub = s /\ c.att = attempt[s]
        BY RowsType DEF Log!Current, Stored
      <4>2. [c EXCEPT !.seq = r.seq] = r
        BY <3>1, <4>1 DEF Row
      <4>3. r \notin Stored
        BY <4>1 DEF BufferOK
      <4>4. c.seq \in Nat /\ (r.seq <= c.seq => r.seq \in 0 .. c.seq)
        BY <3>2, <4>1 DEF Row
      <4> QED BY <3>2, <4>1, <4>2, <4>3, <4>4 DEF AttemptsStoredInOrder
    <3>4. ASSUME NEW q \in 0 .. r.seq
          PROVE  Log!LogRow(s, q, attempt[s]) \in Stored'
      <4>1. r \in Stored'
        BY <1>1
      <4>2. [r EXCEPT !.seq = q] \in Stored'
        BY <1>1, <4>1 DEF AttemptsStoredInOrder
      <4>3. [r EXCEPT !.seq = q] = Log!LogRow(s, q, attempt[s])
        BY <3>1 DEF Row, Log!LogRow
      <4> QED BY <4>2, <4>3
    <3> QED BY <3>2, <3>3, <3>4
  <2>3. Log!Deliver(s)
    BY <1>1, <1>3, <2>1, <2>2 DEF Log!Deliver
  <2> QED BY <2>3 DEF Log!LogNext
<1> QED BY <1>2, <1>3

(* Every step is one of the abstract log, or leaves it alone.              *)
LEMMA StepRefines == IInv /\ [Next]_vars => [Log!LogNext]_(Log!logVars)
<1> SUFFICES ASSUME IInv, [Next]_vars PROVE [Log!LogNext]_(Log!logVars)
  OBVIOUS
<1>1. ASSUME UNCHANGED <<table, attempt>> PROVE [Log!LogNext]_(Log!logVars)
  BY <1>1 DEF Log!logVars, Stored
<1>2. ASSUME NEW s \in Subtasks, JobStep(s) PROVE [Log!LogNext]_(Log!logVars)
  <2>1. CASE FlushCommit(s)
    BY <2>1, LandingDelivers DEF FlushCommit
  <2>2. CASE SnapshotCommit(s)
    BY <2>2, LandingDelivers DEF SnapshotCommit
  <2>3. CASE TerminateLand(s)
    BY <2>3, LandingDelivers DEF TerminateLand, Discard
  <2>4. CASE Redeploy(s)
    <3>1. Stored' = Stored
      BY <2>4 DEF Redeploy, Stored
    <3> QED BY <2>4, <3>1 DEF Redeploy, Log!Retry, Log!LogNext
  <2>5. CASE Emit(s)
    BY <1>1, <2>5 DEF Emit
  <2>6. CASE SnapshotEmpty(s) \/ SnapshotFlush(s) \/ FlushFail(s) \/ TerminateLose(s)
    BY <1>1, <2>6 DEF SnapshotEmpty, SnapshotFlush, FlushFail, Fail, TerminateLose, Discard
  <2> QED BY <1>2, <2>1, <2>2, <2>3, <2>4, <2>5, <2>6 DEF JobStep
<1>3. CASE CheckpointTrigger \/ CheckpointComplete \/ CheckpointExpire \/ Cancel
  BY <1>1, <1>3 DEF CheckpointTrigger, CheckpointComplete, CheckpointExpire, Fail, Cancel
<1>4. CASE CompactPlan \/ CompactError
  BY <1>1, <1>4 DEF CompactPlan, CompactError
<1>5. CASE CompactCommit
  <2>1. Stored' = Stored /\ UNCHANGED attempt
    BY <1>5, RewriteKeepsRows DEF CompactCommit
  <2> QED BY <2>1 DEF Log!logVars
<1>6. CASE UNCHANGED vars
  BY <1>1, <1>6 DEF vars
<1> QED BY <1>2, <1>3, <1>4, <1>5, <1>6 DEF Next

(* Every behaviour of the job, its failures and its compactor is one of    *)
(* the at-least-once log: nothing stored is lost, attempts are delivered   *)
(* in order, and an attempt that was replaced delivers nothing any more.   *)
THEOREM Refinement == Spec => RefinesAtLeastOnce
<1>1. Init => Log!LogInit
  BY DEF Init, Log!LogInit, Stored, Rows
<1> QED BY <1>1, Invariance, StepRefines, PTL DEF Spec, Log!LogSpec, RefinesAtLeastOnce

-----------------------------------------------------------------------------
(* The run.  With its script's failing and unnoticed commands, it is a     *)
(* behaviour of the job and the compactor: what is shown of them holds of  *)
(* every run.                                                              *)

(* A step of the script, or of the job under it, is one the job may take,  *)
(* or leaves its variables alone.                                          *)
LEMMA RunStep == RunNext => [Next]_vars
<1> SUFFICES ASSUME RunNext PROVE [Next]_vars
  OBVIOUS
<1>1. CASE CreateDataset \/ SubmitJob \/ StartCompactor \/ ScriptFails \/ VerifyFails
  BY <1>1 DEF CreateDataset, SubmitJob, StartCompactor, ScriptFails, VerifyFails
<1>2. CASE StopCompactor
  <2>1. CASE plan' = {} /\ plan # {}
    <3>1. CompactError
      BY <1>2, <2>1 DEF StopCompactor, CompactError, jobVars, cpVars
    <3> QED BY <3>1 DEF Next
  <2>2. CASE plan' = plan
    BY <1>2, <2>2 DEF StopCompactor, vars, jobVars, cpVars
  <2> QED BY <1>2, <2>1, <2>2 DEF StopCompactor
<1>3. CASE CancelJob
  BY <1>3 DEF CancelJob, Next
<1>4. CASE \E checked \in BOOLEAN : Verify(checked)
  BY <1>4 DEF Verify
<1>5. CASE JobMoves
  BY <1>5 DEF JobMoves, Next
<1>6. CASE CompactorMoves
  BY <1>6 DEF CompactorMoves, Next
<1> QED BY <1>1, <1>2, <1>3, <1>4, <1>5, <1>6 DEF RunNext, Script

(* Every run of the script drives the job and the compactor as StressJob   *)
(* specifies them.                                                         *)
THEOREM RunImplementsJob == RunSpec => Spec
<1>1. RunInit => Init
  BY DEF RunInit
<1>2. [RunNext]_<<vars, runVars>> => [Next]_vars
  BY RunStep
<1> QED BY <1>1, <1>2, PTL DEF RunSpec, Spec

(* A step of the job never takes a stored row away. *)
LEMMA StoredGrows == IInv /\ [Next]_vars => Stored \subseteq Stored'
<1> SUFFICES ASSUME IInv, [Next]_vars PROVE Stored \subseteq Stored'
  OBVIOUS
<1>1. [Log!LogNext]_(Log!logVars)
  BY StepRefines
<1> QED BY <1>1 DEF Log!LogNext, Log!Deliver, Log!Retry, Log!logVars

(* The rows the verification counted are never taken away afterwards,      *)
(* whatever the job and the compactor it did not wait for still do.        *)
THEOREM VerifiedRowsStay == RunSpec => []ReportedRowsStay
<1>1. RunInit => ReportedRowsStay
  BY DEF RunInit, NoReport, ReportedRowsStay
<1>2. IInv /\ ReportedRowsStay /\ [RunNext]_<<vars, runVars>> => ReportedRowsStay'
  <2> SUFFICES ASSUME IInv, ReportedRowsStay, [RunNext]_<<vars, runVars>>
               PROVE  ReportedRowsStay'
    OBVIOUS
  <2>1. Stored \subseteq Stored'
    BY RunStep, StoredGrows
  <2>2. CASE \E checked \in BOOLEAN : Verify(checked)
    <3>1. report'.rows = Stored
      BY <2>2 DEF Verify
    <3> QED BY <2>1, <3>1 DEF ReportedRowsStay
  <2>3. CASE UNCHANGED report
    BY <2>1, <2>3 DEF ReportedRowsStay
  <2>4. (\E checked \in BOOLEAN : Verify(checked)) \/ UNCHANGED report
    BY DEF RunNext, Script, CreateDataset, SubmitJob, StartCompactor, ScriptFails,
           StopCompactor, CancelJob, VerifyFails, JobMoves, CompactorMoves, runVars
  <2> QED BY <2>2, <2>3, <2>4
<1>3. RunSpec => []IInv
  BY RunImplementsJob, Invariance
<1> QED BY <1>1, <1>2, <1>3, PTL DEF RunSpec

-----------------------------------------------------------------------------
(* The duplicates the verification reports.                                *)

USE DEF jobVars, cpVars, compactorVars

(* Buffers and fragments hold finitely many rows each.                     *)
FiniteRows ==
    /\ IsFiniteSet(table)
    /\ \A f \in table : IsFiniteSet(f.rows)
    /\ \A s \in Subtasks : IsFiniteSet(buffer[s])

(* So do the rows of any part of the table together.                       *)
LEMMA RowsFinite ==
    ASSUME FiniteRows, NEW t \in SUBSET table
    PROVE  IsFiniteSet(t) /\ IsFiniteSet(Rows(t))
<1>1. IsFiniteSet(t)
  BY FS_Subset DEF FiniteRows
<1>2. \A f \in t : IsFiniteSet(f.rows)
  BY DEF FiniteRows
<1> DEFINE F == [f \in t |-> f.rows]
<1>3. (\A f \in t : IsFiniteSet(F[f])) /\ UNION {F[f] : f \in t} = Rows(t)
  BY <1>2 DEF Rows
<1> DEFINE P == {u \in SUBSET t : IsFiniteSet(UNION {F[f] : f \in u})}
<1>4. {} \in P
  BY FS_EmptySet
<1>5. ASSUME NEW u \in SUBSET t, NEW f \in t \ u, u \in P PROVE u \cup {f} \in P
  <2>1. UNION {F[g] : g \in u \cup {f}} = (UNION {F[g] : g \in u}) \cup F[f]
    OBVIOUS
  <2>2. IsFiniteSet(UNION {F[g] : g \in u}) /\ IsFiniteSet(F[f])
    BY <1>3, <1>5
  <2>3. IsFiniteSet((UNION {F[g] : g \in u}) \cup F[f])
    BY <2>2, FS_Union
  <2> QED BY <2>1, <2>3
<1>6. t \in P
  <2> HIDE DEF P
  <2> QED BY <1>1, <1>4, <1>5, FiniteSetInduction
<1> QED BY <1>1, <1>3, <1>6

(* A fragment of finitely many rows more leaves the table finite.          *)
LEMMA AddFinite ==
    ASSUME NEW t, IsFiniteSet(t), \A f \in t : IsFiniteSet(f.rows),
           NEW rows, IsFiniteSet(rows)
    PROVE  IsFiniteSet(Add(t, rows)) /\ \A f \in Add(t, rows) : IsFiniteSet(f.rows)
<1> DEFINE new == [rows |-> rows, copy |-> Cardinality({f \in t : f.rows = rows})]
<1>1. new.rows = rows /\ Add(t, rows) = t \cup {new}
  BY DEF Add
<1> HIDE DEF new
<1> QED BY <1>1, FS_AddElement

(* Every step keeps the rows finite.                                       *)
LEMMA FiniteRowsStep ==
    ASSUME TypeOK, FiniteRows, [Next]_vars
    PROVE  FiniteRows'
<1> USE DEF TypeOK, FiniteRows
<1>1. ASSUME NEW s \in Subtasks, AppendCommit(buffer[s])
      PROVE  IsFiniteSet(table') /\ \A f \in table' : IsFiniteSet(f.rows)
  BY <1>1, AddFinite DEF AppendCommit
<1>2. IsFiniteSet({})
  BY FS_EmptySet
<1>3. ASSUME NEW s \in Subtasks, JobStep(s) PROVE FiniteRows'
  <2>1. CASE Emit(s)
    <3>1. IsFiniteSet(buffer[s] \cup {RowOf(s, seq[s])})
      BY FS_AddElement
    <3> QED BY <2>1, <3>1 DEF Emit
  <2>2. CASE FlushCommit(s) \/ SnapshotCommit(s)
    BY <1>1, <1>2, <2>2 DEF FlushCommit, SnapshotCommit
  <2>3. CASE SnapshotEmpty(s) \/ SnapshotFlush(s) \/ FlushFail(s) \/ Redeploy(s)
    BY <2>3 DEF SnapshotEmpty, SnapshotFlush, FlushFail, Fail, Redeploy
  <2>4. CASE TerminateLose(s) \/ TerminateLand(s)
    BY <1>1, <1>2, <2>4 DEF TerminateLose, TerminateLand, Discard
  <2> QED BY <1>3, <2>1, <2>2, <2>3, <2>4 DEF JobStep
<1>4. CASE CheckpointTrigger \/ CheckpointComplete \/ CheckpointExpire \/ Cancel
  BY <1>4 DEF CheckpointTrigger, CheckpointComplete, CheckpointExpire, Fail, Cancel
<1>5. CASE CompactPlan \/ CompactError
  BY <1>5 DEF CompactPlan, CompactError
<1>6. CASE CompactCommit
  <2>1. IsFiniteSet(Rows(plan)) /\ IsFiniteSet(table \ plan)
    BY <1>6, RowsFinite DEF CompactCommit
  <2> QED BY <1>6, <2>1, AddFinite DEF CompactCommit
<1>7. CASE UNCHANGED vars
  BY <1>7 DEF vars
<1> QED BY <1>3, <1>4, <1>5, <1>6, <1>7 DEF Next

(* As no row is stored twice, the rows the fragments count together are    *)
(* the rows a reader sees; and these are at most as many as the ids times  *)
(* the attempts the restarts allow.                                        *)
LEMMA StoredCounts ==
    ASSUME IInv, FiniteRows
    PROVE  LET total  == SumOf([f \in table |-> Cardinality(f.rows)])
               unique == Cardinality({<<r.sub, r.seq>> : r \in Stored})
           IN  /\ total \in Nat /\ unique \in Nat
               /\ unique <= total
               /\ total <= unique * (restarts + 1)
<1> DEFINE total == SumOf([f \in table |-> Cardinality(f.rows)])
           ids   == {<<r.sub, r.seq>> : r \in Stored}
           atts  == 0 .. restarts
<1>1. IsFiniteSet(table) /\ IsFiniteSet(Stored)
  BY RowsFinite DEF Stored
<1>2. total = Cardinality(Stored)
  <2> DEFINE F == [f \in table |-> f.rows]
  <2>1. \A f \in table : IsFiniteSet(F[f])
    BY DEF FiniteRows
  <2>2. \A f, g \in table : f # g => F[f] \cap F[g] = {}
    BY DEF IInv, NoRowTwice
  <2>3. UNION {F[f] : f \in table} = Stored
    BY DEF Stored, Rows
  <2>4. [f \in table |-> Cardinality(F[f])] = [f \in table |-> Cardinality(f.rows)]
    OBVIOUS
  <2> HIDE DEF F
  <2> QED BY <1>1, <2>1, <2>2, <2>3, <2>4, DisjointSizes
<1>3. Stored \in SUBSET Row
  BY RowsType DEF IInv, TypeOK, Stored
<1>4. restarts \in Nat
  BY StressJobAssumption DEF IInv, TypeOK
<1>5. IsFiniteSet(ids) /\ Cardinality(ids) <= Cardinality(Stored)
  <2> DEFINE id == [r \in Stored |-> <<r.sub, r.seq>>]
  <2>1. id \in Surjection(Stored, ids)
    BY DEF Surjection
  <2> HIDE DEF id, ids
  <2> QED BY <1>1, <2>1, FS_Surjection
<1>6. Cardinality(Stored) <= Cardinality(ids \X atts)
  <2> DEFINE key == [r \in Stored |-> << <<r.sub, r.seq>>, r.att >>]
  <2>1. ASSUME NEW r \in Stored PROVE key[r] \in ids \X atts
    <3>1. r.att \in Nat /\ r.sub \in Subtasks /\ r.att <= attempt[r.sub]
      BY <1>3 DEF Row, IInv, StoredOK
    <3>2. attempt[r.sub] \in Nat /\ attempt[r.sub] <= restarts
      BY <3>1 DEF IInv, TypeOK, AttemptsCounted
    <3>3. r.att \in atts
      BY <1>4, <3>1, <3>2
    <3> QED BY <3>3
  <2>2. ASSUME NEW r \in Stored, NEW p \in Stored, key[r] = key[p] PROVE r = p
    BY <1>3, <2>2 DEF Row
  <2>3. key \in Injection(Stored, ids \X atts)
    <3> HIDE DEF ids, atts
    <3> QED BY <2>1, <2>2 DEF Injection, IsInjective
  <2>4. IsFiniteSet(ids \X atts)
    <3>1. IsFiniteSet(atts)
      BY <1>4, FS_Interval
    <3> HIDE DEF ids, atts
    <3> QED BY <1>5, <3>1, FS_Product
  <2> HIDE DEF key, ids, atts
  <2> QED BY <2>3, <2>4, FS_Injection
<1>7. Cardinality(ids \X atts) = Cardinality(ids) * (restarts + 1)
  <2>1. IsFiniteSet(atts) /\ Cardinality(atts) = restarts + 1
    BY <1>4, FS_Interval
  <2> HIDE DEF ids, atts
  <2> QED BY <1>5, <2>1, FS_Product
<1>8. Cardinality(ids) \in Nat /\ Cardinality(Stored) \in Nat
  BY <1>1, <1>5, FS_CardinalityType
<1> HIDE DEF total, ids, atts
<1>9. /\ total \in Nat /\ Cardinality(ids) \in Nat /\ Cardinality(ids) <= total
      /\ total <= Cardinality(ids) * (restarts + 1)
  BY <1>2, <1>5, <1>6, <1>7, <1>8
<1> QED BY <1>9 DEF total, ids

(* The inductive invariant: what was reported is bounded by the restarts   *)
(* so far, and restarts are only ever counted up.                          *)
ReportBounded ==
    /\ report.duplicate_count \in Nat /\ report.unique \in Nat
    /\ DuplicatesComeFromRestarts

(* More restarts allow for more duplicates.                                *)
LEMMA MoreRestarts ==
    ASSUME NEW d \in Nat, NEW u \in Nat, NEW a \in Nat, NEW b \in {a, a + 1}, d <= a * u
    PROVE  d <= b * u
<1>1. (a + 1) * u = a * u + u /\ a * u \in Nat
  OBVIOUS
<1> QED BY <1>1

(* A failure the strategy counts is one more, and nothing else counts.     *)
LEMMA RestartsGrow == TypeOK /\ [Next]_vars => restarts' \in {restarts, restarts + 1}
<1> SUFFICES ASSUME TypeOK, [Next]_vars PROVE restarts' \in {restarts, restarts + 1}
  OBVIOUS
<1>1. ASSUME NEW s \in Subtasks, JobStep(s) PROVE restarts' \in {restarts, restarts + 1}
  BY <1>1 DEF JobStep, Emit, FlushCommit, SnapshotEmpty, SnapshotFlush, SnapshotCommit,
         FlushFail, Fail, TerminateLose, TerminateLand, Discard, Redeploy
<1>2. CASE CheckpointTrigger \/ CheckpointComplete \/ CheckpointExpire \/ Cancel
  BY <1>2 DEF CheckpointTrigger, CheckpointComplete, CheckpointExpire, Fail, Cancel
<1>3. CASE CompactPlan \/ CompactCommit \/ CompactError
  BY <1>3 DEF CompactPlan, CompactCommit, CompactError
<1> QED BY <1>1, <1>2, <1>3 DEF Next, vars

(* However failures, restarts, compactions and the script's unnoticed      *)
(* errors interleave, the duplicates a run reports are at most one per     *)
(* reported id and counted restart, a late restart of a job the script did *)
(* not wait for included.                                                  *)
THEOREM DuplicatesAreRestarts == RunSpec => []DuplicatesComeFromRestarts
<1>1. RunInit => FiniteRows /\ ReportBounded
  BY FS_EmptySet, StressJobAssumption
     DEF RunInit, Init, NoReport, FiniteRows, ReportBounded, DuplicatesComeFromRestarts
<1>2. IInv /\ FiniteRows /\ ReportBounded /\ [RunNext]_<<vars, runVars>>
        => FiniteRows' /\ ReportBounded'
  <2> SUFFICES ASSUME IInv, FiniteRows, ReportBounded, [RunNext]_<<vars, runVars>>
               PROVE  FiniteRows' /\ ReportBounded'
    OBVIOUS
  <2>1. [Next]_vars /\ TypeOK
    BY RunStep DEF IInv
  <2>2. FiniteRows'
    BY <2>1, FiniteRowsStep
  <2>3. restarts \in Nat /\ restarts' \in {restarts, restarts + 1}
    BY <2>1, RestartsGrow, StressJobAssumption DEF TypeOK
  <2>4. CASE \E checked \in BOOLEAN : Verify(checked)
    <3> DEFINE total  == SumOf([f \in table |-> Cardinality(f.rows)])
               unique == Cardinality({<<r.sub, r.seq>> : r \in Stored})
    <3>1. PICK checked \in BOOLEAN : Verify(checked)
      BY <2>4
    <3>2. /\ report'.unique = unique
          /\ report'.duplicate_count = IF checked THEN total - unique ELSE 0
          /\ restarts' = restarts
      BY <3>1 DEF Verify, vars
    <3>3. total \in Nat /\ unique \in Nat /\ unique <= total /\ total <= unique * (restarts + 1)
      BY StoredCounts
    <3> HIDE DEF total, unique
    <3>4. unique * (restarts + 1) = restarts * unique + unique /\ restarts * unique \in Nat
      BY <2>3, <3>3
    <3> QED BY <2>2, <2>3, <3>2, <3>3, <3>4 DEF ReportBounded, DuplicatesComeFromRestarts
  <2>5. CASE UNCHANGED report
    BY <2>2, <2>3, <2>5, MoreRestarts DEF ReportBounded, DuplicatesComeFromRestarts
  <2>6. (\E checked \in BOOLEAN : Verify(checked)) \/ UNCHANGED report
    BY DEF RunNext, Script, CreateDataset, SubmitJob, StartCompactor, ScriptFails,
           StopCompactor, CancelJob, VerifyFails, JobMoves, CompactorMoves, runVars
  <2> QED BY <2>4, <2>5, <2>6
<1>3. RunSpec => []IInv
  BY RunImplementsJob, Invariance
<1>4. ReportBounded => DuplicatesComeFromRestarts
  BY DEF ReportBounded
<1> QED BY <1>1, <1>2, <1>3, <1>4, PTL DEF RunSpec
=============================================================================
