------------------------- MODULE MutationBenchProofs -------------------------
(***************************************************************************)
(* What a scenario of Q may be relied on for, with any number of writers,  *)
(* compactors, operations and retries: nobody outlives its report, and     *)
(* the records of each process agree with what the dataset has taken.      *)
(***************************************************************************)
EXTENDS MutationBench, FoldProofs, TLAPS

(* The variables the argument needs keep their types. *)
ProcsTyped ==
    /\ proc \in [Procs -> {"boot", "loop", "op", "answered", "exited", "dead"}]
    /\ outcome \in [Procs -> Kinds]
    /\ ops \in [Procs -> Nat] /\ committed \in [Procs -> Nat]
    /\ records \in [Procs -> [Kinds -> Nat]]

(* What process p has committed and not recorded, and begun and not        *)
(* recorded, by where it is: a process that is dead may have died with an  *)
(* operation under way, or with its answer.                                *)
Unrecorded(p) == committed[p] - records[p]["ok"]
InFlight(p)   == ops[p] - Written(p)
RecordsFollow(p) ==
    /\ proc[p] \in {"boot", "loop", "exited"} => Unrecorded(p) = 0 /\ InFlight(p) = 0
    /\ proc[p] = "op" => Unrecorded(p) = 0 /\ InFlight(p) = 1
    /\ proc[p] = "answered" =>
           Unrecorded(p) = (IF outcome[p] = "ok" THEN 1 ELSE 0) /\ InFlight(p) = 1
    /\ proc[p] = "dead" => Unrecorded(p) \in {0, 1} /\ InFlight(p) \in {0, 1}

BenchInv ==
    /\ ProcsTyped
    /\ \A p \in Procs : RecordsFollow(p)
    /\ NobodyRunsOn

-----------------------------------------------------------------------------
(* Where a step of process p leads is decided by p alone.                  *)
LEMMA RecordsFollowLocal ==
    ASSUME ProcsTyped, NEW p \in Procs, NEW q \in Procs, q # p, RecordsFollow(q),
           proc'[q] = proc[q], outcome'[q] = outcome[q], ops'[q] = ops[q],
           committed'[q] = committed[q], records'[q] = records[q]
    PROVE  RecordsFollow(q)'
  BY DEF RecordsFollow, Unrecorded, InFlight, Written

(* A step of a process needs it alive, and the report is not yet made when *)
(* the parent acts.                                                        *)
LEMMA NobodyStarts ==
    ASSUME ProcsTyped, NobodyRunsOn, [Next]_vars
    PROVE  NobodyRunsOn'
  <1>1. CASE UNCHANGED vars
    BY <1>1 DEF vars, NobodyRunsOn, Alive
  <1>2. CASE SetEvent
    BY <1>2 DEF SetEvent, NobodyRunsOn
  <1>3. CASE JoinsReturn
    BY <1>3 DEF JoinsReturn, NobodyRunsOn
  <1>4. CASE Aggregate
    BY <1>4 DEF Aggregate, NobodyRunsOn, Alive
  <1>5. ASSUME NEW p \in Procs, Step(p)
        PROVE  NobodyRunsOn'
    <2>1. p \in Alive /\ parent' = parent
      BY <1>5 DEF Step, Begin, StartOp, Commit, Retry, Raise, Record, Exit, Die, Kill, bench, Alive
    <2> QED
      BY <2>1 DEF NobodyRunsOn
  <1> QED
    BY <1>1, <1>2, <1>3, <1>4, <1>5 DEF Next

(* The actions of the parent leave processes and records alone.            *)
LEMMA ParentSteps ==
    ASSUME BenchInv, SetEvent \/ JoinsReturn \/ Aggregate \/ UNCHANGED vars
    PROVE  ProcsTyped' /\ \A p \in Procs : RecordsFollow(p)'
  <1>1. UNCHANGED <<proc, outcome, ops, committed, records>>
    BY DEF SetEvent, JoinsReturn, Aggregate, vars, op
  <1> QED
    BY <1>1 DEF BenchInv, ProcsTyped, RecordsFollow, Unrecorded, InFlight, Written

(* The error classes are kinds of records, and none of them is ok.         *)
LEMMA ErrorsAreErrors ==
    ASSUME NEW words
    PROVE  classify_error(words) \in Kinds \ {"ok"}
  BY DEF classify_error, Kinds

(* Each step of a process.                                                 *)
LEMMA ProcessSteps ==
    ASSUME BenchInv, NEW p \in Procs, Step(p)
    PROVE  ProcsTyped' /\ \A q \in Procs : RecordsFollow(q)'
  <1> USE DEF BenchInv
  <1>1. ProcsTyped'
    <2>1. CASE Begin(p)
      BY <2>1 DEF ProcsTyped, Begin, op
    <2>2. CASE StartOp(p)
      BY <2>2 DEF ProcsTyped, StartOp
    <2>3. CASE Commit(p)
      BY <2>3 DEF ProcsTyped, Commit, Kinds
    <2>4. CASE Retry(p)
      BY <2>4 DEF ProcsTyped, Retry
    <2>5. CASE Raise(p)
      BY <2>5, ErrorsAreErrors DEF ProcsTyped, Raise
    <2>6. CASE Record(p)
      BY <2>6 DEF ProcsTyped, Record, op, Kinds
    <2>7. CASE Exit(p) \/ Die(p) \/ Kill(p)
      BY <2>7 DEF ProcsTyped, Exit, Die, Kill, op
    <2> QED
      BY <2>1, <2>2, <2>3, <2>4, <2>5, <2>6, <2>7 DEF Step
  <1>2. RecordsFollow(p)'
    <2> USE DEF ProcsTyped, RecordsFollow, Unrecorded, InFlight, Written, Kinds
    <2>1. CASE Begin(p)
      BY <2>1 DEF Begin, op
    <2>2. CASE StartOp(p)
      BY <2>2, SMTT(30) DEF StartOp
    <2>3. CASE Commit(p)
      <3>1. /\ proc'[p] = "answered" /\ outcome'[p] = "ok" /\ committed'[p] = committed[p] + 1
            /\ records' = records /\ ops' = ops
        BY <2>3 DEF Commit
      <3>2. Unrecorded(p) = 0 /\ InFlight(p) = 1
        BY <2>3 DEF Commit
      <3>3. committed[p] \in Nat /\ records[p] \in [Kinds -> Nat]
        OBVIOUS
      <3>4. Unrecorded(p)' = 1 /\ InFlight(p)' = 1
        <4> HIDE DEF BenchInv, ProcsTyped, RecordsFollow
        <4> QED
          BY <3>1, <3>2, <3>3
      <3> HIDE DEF Unrecorded, InFlight
      <3> QED
        BY <3>1, <3>4
    <2>4. CASE Retry(p)
      BY <2>4 DEF Retry
    <2>5. CASE Raise(p)
      <3>1. outcome'[p] # "ok"
        BY <2>5, ErrorsAreErrors DEF Raise
      <3> QED
        BY <2>5, <3>1 DEF Raise
    <2>6. CASE Record(p)
      <3>1. CASE outcome[p] = "ok"
        BY <2>6, <3>1 DEF Record, op
      <3>2. CASE outcome[p] # "ok"
        BY <2>6, <3>2 DEF Record, op
      <3> QED
        BY <3>1, <3>2
    <2>7. CASE Exit(p) \/ Die(p) \/ Kill(p)
      BY <2>7 DEF Exit, Die, Kill, Alive, op
    <2> QED
      BY <2>1, <2>2, <2>3, <2>4, <2>5, <2>6, <2>7 DEF Step
  <1>3. ASSUME NEW q \in Procs, q # p
        PROVE  RecordsFollow(q)'
    <2>1. /\ proc'[q] = proc[q] /\ outcome'[q] = outcome[q] /\ ops'[q] = ops[q]
          /\ committed'[q] = committed[q] /\ records'[q] = records[q]
      BY <1>3 DEF ProcsTyped, Step, Begin, StartOp, Commit, Retry, Raise, Record, Exit, Die, Kill, op
    <2> QED
      BY <1>3, <2>1, RecordsFollowLocal
  <1> QED
    BY <1>1, <1>2, <1>3

-----------------------------------------------------------------------------
(* In every reachable state each process's records follow its operations,  *)
(* and nobody runs on.                                                     *)
THEOREM BenchInvariant == Spec => []BenchInv
  <1>1. Init => BenchInv
    BY DEF Init, BenchInv, ProcsTyped, RecordsFollow, Unrecorded, InFlight, Written, NobodyRunsOn,
           Kinds, NoRecords
  <1>2. BenchInv /\ [Next]_vars => BenchInv'
    <2> SUFFICES ASSUME BenchInv, [Next]_vars
                 PROVE  BenchInv'
      OBVIOUS
    <2>1. NobodyRunsOn'
      BY NobodyStarts DEF BenchInv
    <2>2. ProcsTyped' /\ \A p \in Procs : RecordsFollow(p)'
      <3>1. CASE \E p \in Procs : Step(p)
        BY <3>1, ProcessSteps
      <3>2. CASE ~ \E p \in Procs : Step(p)
        BY <3>2, ParentSteps DEF Next
      <3> QED
        BY <3>1, <3>2
    <2> QED
      BY <2>1, <2>2 DEF BenchInv
  <1> QED
    BY <1>1, <1>2, PTL DEF Spec

(* Nobody writes to the dataset once a scenario is aggregated: the parent  *)
(* has joined or killed every process it started (run_scenario).           *)
THEOREM NobodyOutlivesTheReport == Spec => []NobodyRunsOn
  <1>1. BenchInv => NobodyRunsOn
    BY DEF BenchInv
  <1> QED
    BY <1>1, BenchInvariant, PTL

(* Whenever a process is killed, what its file says and what the dataset   *)
(* took differ by the operation under way at most (writer_loop).           *)
THEOREM RecordsAgree == Spec => []RecordsMatchDataset
  <1>1. BenchInv => RecordsMatchDataset
    <2> SUFFICES ASSUME BenchInv, NEW p \in Procs
                 PROVE  /\ Unrecorded(p) \in {0} \cup (IF proc[p] \in {"answered", "dead"} THEN {1} ELSE {})
                        /\ Written(p) \in {ops[p] - 1, ops[p]}
                        /\ proc[p] = "exited" => Written(p) = ops[p]
      BY DEF RecordsMatchDataset, Unrecorded
    <2>1. /\ Written(p) \in Nat /\ Unrecorded(p) \in Int
          /\ ops[p] \in Nat /\ proc[p] \in {"boot", "loop", "op", "answered", "exited", "dead"}
      BY DEF BenchInv, ProcsTyped, Written, Unrecorded, Kinds
    <2> QED
      BY <2>1 DEF BenchInv, RecordsFollow, InFlight
  <1> QED
    BY <1>1, BenchInvariant, PTL

-----------------------------------------------------------------------------
(* What the report says.                                                   *)

(* The rest of the types. *)
BenchTyped ==
    /\ parent \in {"spawned", "join", "kill", "reported", "crashed"}
    /\ go \in BOOLEAN
    /\ touches \in [Procs -> SUBSET Groups] /\ changed \in [Procs -> SUBSET Groups]
    /\ tries \in [Procs -> 0 .. MaxTries] /\ ops \in [Procs -> 0 .. MaxOps]
    /\ file \in [Procs -> {"none", "left", "own"}]
    /\ report \in [Kinds -> Nat]

(* A process writes its own file from the moment it begins. *)
FilesFollow ==
    \A p \in Procs : proc[p] \in {"loop", "op", "answered", "exited"} => file[p] = "own"

(* The sums the parent makes of what is in the files. *)
Totals == [k \in Kinds |-> SumOf([w \in Writers |-> recordsIn(w)[k]])]
ReportFollows ==
    /\ parent = "crashed" => \E p \in Procs : file[p] = "none"
    /\ report = IF parent = "reported" THEN Totals ELSE NoRecords

(* What a process may report as a retryable conflict is a compaction under *)
(* which another process, and so a writer, has committed. *)
OthersCommitted(p) == \E w \in Procs \ {p} : committed[w] > 0
Excused(p) == p \in Compactors /\ OthersCommitted(p)
ConflictsFollow ==
    \A p \in Procs :
        /\ changed[p] # {} => OthersCommitted(p)
        /\ proc[p] = "answered" /\ outcome[p] = "RetryableCommitConflict" => Excused(p)
        /\ records[p]["RetryableCommitConflict"] > 0 => Excused(p)

ReportInv ==
    /\ BenchInv /\ BenchTyped
    /\ FilesFollow /\ ReportFollows /\ ConflictsFollow

(* The parent's sums are numbers.                                          *)
LEMMA TotalsTyped ==
    ASSUME records \in [Procs -> [Kinds -> Nat]]
    PROVE  Totals \in [Kinds -> Nat]
<1> SUFFICES ASSUME NEW k \in Kinds
             PROVE  SumOf([w \in Writers |-> recordsIn(w)[k]]) \in Nat
  BY DEF Totals
<1> DEFINE f == [w \in Writers |-> recordsIn(w)[k]]
<1>1. f \in [Writers -> Nat]
  BY DEF recordsIn, OldRecords, NoRecords, Procs, Kinds
<1> HIDE DEF f
<1>2. SumOf(f) \in Nat
  BY <1>1, SumType, MutationBenchAssumption
<1> QED BY <1>2 DEF f

(* The sums are of the files and the records, and change with them only.   *)
LEMMA TotalsStay ==
    ASSUME UNCHANGED <<file, records>>
    PROVE  Totals' = Totals
BY DEF Totals, recordsIn

(* Every step keeps the rest of the types.                                 *)
LEMMA TypedStep ==
    ASSUME BenchInv, BenchTyped, [Next]_vars
    PROVE  BenchTyped'
<1> USE MutationBenchAssumption DEF BenchTyped, bench, op
<1>1. CASE SetEvent
  BY <1>1 DEF SetEvent
<1>2. CASE JoinsReturn
  BY <1>2 DEF JoinsReturn
<1>3. CASE Aggregate
  <2>1. Totals \in [Kinds -> Nat]
    BY TotalsTyped DEF BenchInv, ProcsTyped
  <2> QED BY <1>3, <2>1 DEF Aggregate, Totals
<1>4. ASSUME NEW p \in Procs, Step(p) PROVE BenchTyped'
  <2>1. CASE Begin(p)
    BY <2>1 DEF Begin
  <2>2. CASE StartOp(p)
    BY <2>2 DEF StartOp, BenchInv, ProcsTyped
  <2>3. CASE Commit(p)
    BY <2>3 DEF Commit
  <2>4. CASE Retry(p)
    BY <2>4 DEF Retry
  <2>5. CASE Raise(p) \/ Record(p) \/ Exit(p) \/ Die(p) \/ Kill(p)
    BY <2>5 DEF Raise, Record, Exit, Die, Kill
  <2> QED BY <1>4, <2>1, <2>2, <2>3, <2>4, <2>5 DEF Step
<1>5. CASE UNCHANGED vars
  BY <1>5 DEF vars
<1> QED BY <1>1, <1>2, <1>3, <1>4, <1>5 DEF Next

(* A process that is past booting has its own file, and what the parent    *)
(* reported or crashed on stays: nobody is left to change it.              *)
LEMMA FilesStep ==
    ASSUME ReportInv, [Next]_vars
    PROVE  FilesFollow' /\ ReportFollows'
<1> USE DEF ReportInv, bench, op
<1>1. CASE SetEvent \/ JoinsReturn \/ UNCHANGED vars
  <2>1. UNCHANGED <<proc, file, records, report>>
    BY <1>1 DEF SetEvent, JoinsReturn, vars
  <2>2. Totals' = Totals
    BY <2>1, TotalsStay
  <2>3. CASE UNCHANGED vars
    BY <2>2, <2>3 DEF vars, FilesFollow, ReportFollows
  <2>4. CASE SetEvent \/ JoinsReturn
    <3>1. parent \in {"spawned", "join"} /\ parent' \in {"join", "kill"}
      BY <2>4 DEF SetEvent, JoinsReturn
    <3> QED BY <2>4, <3>1 DEF SetEvent, JoinsReturn, FilesFollow, ReportFollows
  <2> QED BY <1>1, <2>3, <2>4
<1>2. CASE Aggregate
  <2>1. Totals' = Totals
    BY <1>2, TotalsStay DEF Aggregate
  <2>2. FilesFollow'
    BY <1>2 DEF Aggregate, FilesFollow
  <2>3. CASE \E p \in Procs : file[p] = "none"
    BY <1>2, <2>2, <2>3 DEF Aggregate, ReportFollows
  <2>4. CASE ~ \E p \in Procs : file[p] = "none"
    BY <1>2, <2>1, <2>2, <2>4 DEF Aggregate, ReportFollows, Totals
  <2> QED BY <2>3, <2>4
<1>3. ASSUME NEW p \in Procs, Step(p) PROVE FilesFollow' /\ ReportFollows'
  <2>1. p \in Alive /\ UNCHANGED bench
    BY <1>3 DEF Step, Begin, StartOp, Commit, Retry, Raise, Record, Exit, Die, Kill, Alive
  <2>2. ReportFollows'
    BY <2>1 DEF BenchInv, NobodyRunsOn, ReportFollows
  <2>3. FilesFollow'
    <3> USE DEF BenchInv, ProcsTyped, BenchTyped, FilesFollow
    <3>1. CASE Begin(p)
      BY <3>1 DEF Begin
    <3>2. CASE StartOp(p) \/ Commit(p) \/ Retry(p)
      BY <3>2 DEF StartOp, Commit, Retry
    <3>3. CASE Raise(p) \/ Record(p) \/ Exit(p)
      BY <3>3 DEF Raise, Record, Exit
    <3>4. CASE Die(p) \/ Kill(p)
      BY <3>4 DEF Die, Kill
    <3> QED BY <1>3, <3>1, <3>2, <3>3, <3>4 DEF Step
  <2> QED BY <2>2, <2>3
<1> QED BY <1>1, <1>2, <1>3 DEF Next

(* The errors by the words of their messages: none but a compaction's      *)
(* conflict is retryable.                                                  *)
LEMMA Classified ==
    \A words \in Errors : "retryable" \notin words => classify_error(words) = "other"
<1>1. ASSUME NEW words \in Errors, "retryable" \notin words PROVE words \cap {"retryable", "preempted"} = {}
  <2>1. \/ words = {"retryable", "commit conflict"} \/ words = {"too many concurrent writers"}
        \/ words = {"timeout"} \/ words = {}
    BY <1>1 DEF Errors
  <2>2. words # {"retryable", "commit conflict"}
    BY <1>1
  <2>3. "preempted" \notin words
    <3>1. "preempted" \notin {"too many concurrent writers"}
      OBVIOUS
    <3>2. "preempted" \notin {"timeout"} /\ "preempted" \notin {}
      OBVIOUS
    <3> QED BY <2>1, <2>2, <3>1, <3>2
  <2> QED BY <1>1, <2>3
<1> QED BY <1>1 DEF classify_error

(* Whatever is reported, or is about to be, as a retryable conflict is a   *)
(* compaction's, and somebody else has committed since it began.           *)
LEMMA ConflictsStep ==
    ASSUME ReportInv, [Next]_vars
    PROVE  ConflictsFollow'
<1> USE MutationBenchAssumption DEF ReportInv, BenchInv, ProcsTyped, BenchTyped, bench, op
<1>1. ASSUME UNCHANGED <<changed, committed, proc, outcome, records>>
      PROVE  ConflictsFollow'
  BY <1>1 DEF ConflictsFollow, Excused, OthersCommitted
<1>2. CASE SetEvent \/ JoinsReturn \/ Aggregate \/ UNCHANGED vars
  BY <1>1, <1>2 DEF SetEvent, JoinsReturn, Aggregate, vars
<1>3. ASSUME NEW p \in Procs, Step(p) PROVE ConflictsFollow'
  <2>1. \A q \in Procs : OthersCommitted(q) => OthersCommitted(q)'
    <3>1. \A q \in Procs : committed[q] > 0 => committed'[q] > 0
      <4>1. CASE Commit(p)
        BY <4>1 DEF Commit
      <4>2. CASE ~ Commit(p)
        BY <1>3, <4>2 DEF Step, Begin, StartOp, Retry, Raise, Record, Exit, Die, Kill
      <4> QED BY <4>1, <4>2
    <3> QED BY <3>1 DEF OthersCommitted
  <2>2. \A q \in Procs : Excused(q) => Excused(q)'
    BY <2>1 DEF Excused
  <2>3. ASSUME UNCHANGED <<changed, outcome, records>>,
               \A q \in Procs : proc'[q] = "answered" => proc[q] = "answered"
        PROVE  ConflictsFollow'
    BY <2>1, <2>2, <2>3 DEF ConflictsFollow
  <2>4. CASE Begin(p) \/ Exit(p) \/ Die(p) \/ Kill(p)
    <3>1. \A q \in Procs : proc'[q] = "answered" => proc[q] = "answered"
      BY <2>4 DEF Begin, Exit, Die, Kill
    <3> QED BY <2>3, <2>4, <3>1 DEF Begin, Exit, Die, Kill
  <2>5. CASE StartOp(p) \/ Retry(p)
    <3>1. UNCHANGED <<outcome, records>>
      BY <2>5 DEF StartOp, Retry
    <3>2. \A q \in Procs : proc'[q] = "answered" => proc[q] = "answered"
      BY <2>5 DEF StartOp, Retry
    <3>3. \A q \in Procs : changed'[q] # {} => changed[q] # {}
      BY <2>5 DEF StartOp, Retry
    <3> QED BY <2>1, <2>2, <3>1, <3>2, <3>3 DEF ConflictsFollow
  <2>6. CASE Commit(p)
    <3>1. committed'[p] > 0 /\ records' = records
      BY <2>6 DEF Commit
    <3>2. \A q \in Procs : changed'[q] # {} => changed[q] # {} \/ q # p
      BY <2>6 DEF Commit
    <3>3. \A q \in Procs : q # p => OthersCommitted(q)'
      BY <3>1 DEF OthersCommitted
    <3>4. \A q \in Procs : proc'[q] = "answered" /\ outcome'[q] = "RetryableCommitConflict"
                            => proc[q] = "answered" /\ outcome[q] = "RetryableCommitConflict"
      BY <2>6 DEF Commit
    <3> QED BY <2>1, <2>2, <3>1, <3>2, <3>3, <3>4 DEF ConflictsFollow
  <2>7. CASE Raise(p)
    <3>1. UNCHANGED <<changed, records, committed>> /\ outcome \in [Procs -> Kinds]
      BY <2>7 DEF Raise, ReportInv, BenchInv, ProcsTyped
    <3>2. PICK words \in Errors :
             /\ "retryable" \in words => Conflict(p) /\ p \in Compactors
             /\ outcome' = [outcome EXCEPT ![p] = classify_error(words)]
      BY <2>7 DEF Raise
    <3>3. outcome'[p] = "RetryableCommitConflict" => p \in Compactors /\ OthersCommitted(p)
      <4>1. "retryable" \notin words => classify_error(words) = "other"
        BY <3>2, Classified
      <4>2. "retryable" \in words => OthersCommitted(p)
        BY <3>2 DEF Conflict, ConflictsFollow
      <4> QED BY <3>1, <3>2, <4>1, <4>2
    <3>4. \A q \in Procs : q # p => proc'[q] = proc[q] /\ outcome'[q] = outcome[q]
      BY <2>7 DEF Raise
    <3> QED BY <2>1, <2>2, <3>1, <3>2, <3>3, <3>4 DEF ConflictsFollow, Excused
  <2>8. CASE Record(p)
    <3>1. UNCHANGED <<changed, outcome>>
      BY <2>8 DEF Record
    <3>2. \A q \in Procs : proc'[q] = "answered" => proc[q] = "answered"
      BY <2>8 DEF Record
    <3>3. ASSUME NEW q \in Procs, records'[q]["RetryableCommitConflict"] > 0
          PROVE  Excused(q)
      <4>1. CASE q = p /\ outcome[p] = "RetryableCommitConflict"
        BY <2>8, <4>1 DEF Record, ConflictsFollow
      <4>2. CASE ~ (q = p /\ outcome[p] = "RetryableCommitConflict")
        <5>1. records'[q]["RetryableCommitConflict"] = records[q]["RetryableCommitConflict"]
          BY <2>8, <4>2 DEF Record, Kinds
        <5> QED BY <3>3, <5>1 DEF ConflictsFollow
      <4> QED BY <4>1, <4>2
    <3> QED BY <2>1, <2>2, <3>1, <3>2, <3>3 DEF ConflictsFollow
  <2> QED BY <1>3, <2>4, <2>5, <2>6, <2>7, <2>8 DEF Step
<1> QED BY <1>2, <1>3 DEF Next

(* In every reachable state the report, the files and the conflicts are    *)
(* accounted for as ReportInv says.                                        *)
THEOREM ReportInvariant == Spec => []ReportInv
<1>1. Init /\ BenchInv => ReportInv
  <2> SUFFICES ASSUME Init, BenchInv PROVE ReportInv
    OBVIOUS
  <2>1. BenchTyped
    <3>1. parent \in {"spawned", "join", "kill", "reported", "crashed"} /\ go \in BOOLEAN
      BY DEF Init
    <3>2. touches \in [Procs -> SUBSET Groups] /\ changed \in [Procs -> SUBSET Groups]
      BY DEF Init
    <3>3. tries \in [Procs -> 0 .. MaxTries] /\ ops \in [Procs -> 0 .. MaxOps]
      BY MutationBenchAssumption DEF Init
    <3>4. file \in [Procs -> {"none", "left", "own"}] /\ report \in [Kinds -> Nat]
      BY DEF Init, NoRecords
    <3> QED BY <3>1, <3>2, <3>3, <3>4 DEF BenchTyped
  <2>2. FilesFollow /\ ReportFollows
    BY DEF Init, FilesFollow, ReportFollows
  <2>3. ConflictsFollow
    BY DEF Init, ConflictsFollow, NoRecords, Kinds
  <2> QED BY <2>1, <2>2, <2>3 DEF ReportInv
<1>2. ReportInv /\ BenchInv' /\ [Next]_vars => ReportInv'
  BY TypedStep, FilesStep, ConflictsStep DEF ReportInv
<1> QED BY <1>1, <1>2, BenchInvariant, PTL DEF Spec

(* Every variable keeps its type: tries and operations stay within their   *)
(* bounds, and the parent's sums are numbers, left-over files included.    *)
THEOREM TypeCorrect == Spec => []TypeOK
<1>1. ReportInv => TypeOK
  BY DEF ReportInv, BenchInv, ProcsTyped, BenchTyped, TypeOK
<1> QED BY <1>1, ReportInvariant, PTL

(* No writer ever reports a retryable conflict, whatever is killed and     *)
(* whatever files were left; the compactor reports one only if a writer    *)
(* has committed (classify_error and Lance's own retries).                 *)
THEOREM OnlyTheCompactorConflicts == Spec => []ConflictsAreTheCompactors
<1>1. ReportInv => ConflictsAreTheCompactors
  <2> SUFFICES ASSUME ReportInv PROVE ConflictsAreTheCompactors
    OBVIOUS
  <2> USE DEF ReportInv
  <2>1. ASSUME NEW p \in Compactors, records[p]["RetryableCommitConflict"] > 0
        PROVE  \E w \in Writers : committed[w] > 0
    <3>1. PICK w \in Procs \ {p} : committed[w] > 0
      BY <2>1 DEF ConflictsFollow, Excused, OthersCommitted, Procs
    <3>2. w \in Writers
      BY <2>1, MutationBenchAssumption DEF Procs
    <3> QED BY <3>1, <3>2
  <2>2. ASSUME NEW w \in Writers PROVE recordsIn(w)["RetryableCommitConflict"] = 0
    <3>1. w \notin Compactors /\ w \in Procs
      BY MutationBenchAssumption DEF Procs
    <3>2. ~ (records[w]["RetryableCommitConflict"] > 0)
      BY <3>1 DEF ConflictsFollow, Excused
    <3>3. records[w]["RetryableCommitConflict"] \in Nat
      BY <3>1 DEF BenchInv, ProcsTyped, Kinds
    <3>4. OldRecords["RetryableCommitConflict"] = 0
      BY DEF OldRecords, NoRecords, Kinds
    <3> QED BY <3>2, <3>3, <3>4 DEF recordsIn
  <2>3. Totals["RetryableCommitConflict"] = 0
    <3>1. [w \in Writers |-> recordsIn(w)["RetryableCommitConflict"]] = [w \in Writers |-> 0]
      BY <2>2
    <3>2. SumOf([w \in Writers |-> 0]) = 0
      BY SumZeros, MutationBenchAssumption
    <3> QED BY <3>1, <3>2 DEF Totals, Kinds
  <2>4. report["RetryableCommitConflict"] = 0
    BY <2>3 DEF ReportFollows, NoRecords, Kinds
  <2> QED BY <2>1, <2>4 DEF ConflictsAreTheCompactors
<1> QED BY <1>1, ReportInvariant, PTL

(* The kinds of a record add up to all of them. *)
LEMMA SumOverKinds ==
    ASSUME NEW f \in [Kinds -> Nat]
    PROVE  SumOf(f) = f["ok"] + f["RetryableCommitConflict"] + f["other"]
<1>1. IsFiniteSet({"ok"}) /\ IsFiniteSet({"ok", "RetryableCommitConflict"}) /\ IsFiniteSet(Kinds)
  <2>1. IsFiniteSet({"ok"})
    BY FS_Singleton
  <2>2. IsFiniteSet({"ok"} \cup {"RetryableCommitConflict"})
    BY <2>1, FS_AddElement
  <2>3. IsFiniteSet(({"ok"} \cup {"RetryableCommitConflict"}) \cup {"other"})
    BY <2>2, FS_AddElement
  <2>4. /\ {"ok"} \cup {"RetryableCommitConflict"} = {"ok", "RetryableCommitConflict"}
        /\ {"ok", "RetryableCommitConflict"} \cup {"other"} = Kinds
    BY DEF Kinds
  <2> QED BY <2>1, <2>2, <2>3, <2>4
<1> DEFINE S1 == {} \cup {"ok"}
           S2 == S1 \cup {"RetryableCommitConflict"}
           S3 == S2 \cup {"other"}
<1>2. S3 = Kinds
  BY DEF Kinds
<1>3. /\ SumOver(f, {}) = 0
      /\ SumOver(f, Kinds) = SumOf(f)
      /\ \A T \in SUBSET Kinds : \A k \in Kinds \ T :
            SumOver(f, T \cup {k}) = f[k] + SumOver(f, T)
  BY <1>1, PartialSums
<1>4. SumOver(f, S1) = f["ok"] + 0
  <2>1. "ok" \in Kinds \ {}
    BY DEF Kinds
  <2> QED BY <1>3, <2>1
<1>5. SumOver(f, S2) = f["RetryableCommitConflict"] + SumOver(f, S1)
  <2>1. "RetryableCommitConflict" \in Kinds \ S1 /\ S1 \in SUBSET Kinds
    BY DEF Kinds
  <2> HIDE DEF S1
  <2> QED BY <1>3, <2>1
<1>6. SumOver(f, S3) = f["other"] + SumOver(f, S2)
  <2>1. "other" \in Kinds \ S2 /\ S2 \in SUBSET Kinds
    BY DEF Kinds
  <2> HIDE DEF S2
  <2> QED BY <1>3, <2>1
<1>7. f["ok"] \in Nat /\ f["RetryableCommitConflict"] \in Nat /\ f["other"] \in Nat
  BY DEF Kinds
<1> HIDE DEF S1, S2, S3
<1> QED BY <1>2, <1>3, <1>4, <1>5, <1>6, <1>7

(* When every process came up and ended by itself, the scenario is not     *)
(* lost, and its report is exactly what happened to the dataset: nothing   *)
(* is missed between a process's last record and the parent's sum.         *)
THEOREM CleanScenario == Spec => []CleanScenarioIsExact
<1>1. ReportInv => CleanScenarioIsExact
  <2> SUFFICES ASSUME ReportInv, parent \in {"reported", "crashed"},
                      \A p \in Procs : proc[p] = "exited"
               PROVE  /\ parent = "reported"
                      /\ report["ok"] = SumOf([w \in Writers |-> committed[w]])
                      /\ SumOf(report) = SumOf([w \in Writers |-> ops[w]])
    BY DEF CleanScenarioIsExact
  <2> USE DEF ReportInv
  <2>1. \A p \in Procs : file[p] = "own"
    BY DEF FilesFollow
  <2>2. parent = "reported" /\ report = Totals
    BY <2>1 DEF ReportFollows
  <2> DEFINE ok == [w \in Writers |-> records[w]["ok"]]
             rt == [w \in Writers |-> records[w]["RetryableCommitConflict"]]
             ot == [w \in Writers |-> records[w]["other"]]
  <2>3. ok \in [Writers -> Nat] /\ rt \in [Writers -> Nat] /\ ot \in [Writers -> Nat]
    BY DEF BenchInv, ProcsTyped, Kinds, Procs
  <2>4. /\ report["ok"] = SumOf(ok)
        /\ report["RetryableCommitConflict"] = SumOf(rt)
        /\ report["other"] = SumOf(ot)
    <3>1. \A w \in Writers : recordsIn(w) = records[w]
      BY <2>1 DEF recordsIn, Procs
    <3>2. /\ [w \in Writers |-> recordsIn(w)["ok"]] = ok
          /\ [w \in Writers |-> recordsIn(w)["RetryableCommitConflict"]] = rt
          /\ [w \in Writers |-> recordsIn(w)["other"]] = ot
      BY <3>1
    <3> HIDE DEF ok, rt, ot
    <3> QED BY <2>2, <3>2 DEF Totals, Kinds
  <2>5. ASSUME NEW w \in Writers
        PROVE  committed[w] = ok[w] /\ ops[w] = (ok[w] + rt[w]) + ot[w]
    <3>1. w \in Procs /\ Unrecorded(w) = 0 /\ InFlight(w) = 0
      BY DEF BenchInv, RecordsFollow, Procs
    <3>2. committed[w] \in Nat /\ ops[w] \in Nat /\ records[w] \in [Kinds -> Nat]
      BY <3>1 DEF BenchInv, ProcsTyped
    <3> QED BY <3>1, <3>2 DEF Unrecorded, InFlight, Written, Kinds
  <2>6. [w \in Writers |-> committed[w]] = ok
    BY <2>5
  <2> DEFINE two == [w \in Writers |-> ok[w] + rt[w]]
  <2>7. two \in [Writers -> Nat]
    <3> HIDE DEF ok, rt
    <3> QED BY <2>3
  <2>8. [w \in Writers |-> ops[w]] = [w \in Writers |-> two[w] + ot[w]]
    BY <2>5
  <2>9. SumOf(two) = SumOf(ok) + SumOf(rt)
    <3> HIDE DEF ok, rt
    <3> QED BY <2>3, SumPointwise, MutationBenchAssumption
  <2>10. SumOf([w \in Writers |-> two[w] + ot[w]]) = SumOf(two) + SumOf(ot)
    <3> HIDE DEF ok, rt, ot, two
    <3> QED BY <2>3, <2>7, SumPointwise, MutationBenchAssumption
  <2>11. SumOf(report) = report["ok"] + report["RetryableCommitConflict"] + report["other"]
    BY SumOverKinds DEF BenchTyped
  <2> HIDE DEF ok, rt, ot, two
  <2> QED BY <2>2, <2>4, <2>6, <2>8, <2>9, <2>10, <2>11
<1> QED BY <1>1, ReportInvariant, PTL
=============================================================================
