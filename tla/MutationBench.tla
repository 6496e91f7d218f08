--------------------------- MODULE MutationBench ---------------------------
(***************************************************************************)
(* Q_concurrent_mutation_compact.py, one scenario: the parent spawns N     *)
(* writer processes and, in the compaction scenarios, one compactor; lets  *)
(* them start together; joins them with a timeout; kills what is left; and *)
(* aggregates the JSONL file of each.  A file left in the workspace by an  *)
(* earlier run has the same name, and only its process truncates it.       *)
(*                                                                         *)
(* The dataset is seen through Lance's optimistic commits: a transaction   *)
(* conflicts when a group of rows it touches was changed by a commit since *)
(* it began.  Mutations retry inside Lance, a compaction does not.         *)
(***************************************************************************)
EXTENDS Integers, FiniteSets, Sums

CONSTANTS
    Writers,     \* the writer processes, "concurrency" of them
    Compactors,  \* the compactor process, or none
    Groups,      \* groups of rows: the fragments of the dataset
    MaxOps,      \* bound: operations per process in the window
    MaxTries,    \* retries of a mutation inside Lance
    Leftover     \* processes whose file exists from an earlier run

ASSUME MutationBenchAssumption ==
    /\ Writers \cap Compactors = {} /\ IsFiniteSet(Writers)
    /\ \A c, d \in Compactors : c = d
    /\ Leftover \subseteq Writers \cup Compactors
    /\ MaxOps \in Nat /\ MaxTries \in Nat

Procs == Writers \cup Compactors

VARIABLES
    parent,     \* where run_scenario is
    go,         \* start_event
    proc,       \* proc[p]: where process p is
    touches,    \* touches[p]: the groups p's operation changes
    changed,    \* changed[p]: the groups others changed since it began
    tries,      \* tries[p]: retries of p's operation so far
    outcome,    \* outcome[p]: how p's last operation ended
    ops,        \* ops[p]: operations p began
    committed,  \* committed[p]: operations of p the dataset has taken
    file,       \* file[p]: the JSONL file of p: none, left over, or p's own
    records,    \* records[p]: how many records of each kind p has written
    report      \* what the parent aggregated

bench == <<parent, go, report>>
op    == <<touches, changed, tries, outcome, committed>>
vars  == <<parent, go, proc, touches, changed, tries, outcome, ops, committed,
           file, records, report>>

Kinds == {"ok", "RetryableCommitConflict", "other"}
Alive == {p \in Procs : proc[p] \notin {"exited", "dead"}}
NoRecords == [k \in Kinds |-> 0]

Init ==
    /\ parent = "spawned" /\ go = FALSE
    /\ proc = [p \in Procs |-> "boot"]
    /\ touches = [p \in Procs |-> {}]
    /\ changed = [p \in Procs |-> {}]
    /\ tries = [p \in Procs |-> 0]
    /\ outcome = [p \in Procs |-> "ok"]
    /\ ops = [p \in Procs |-> 0]
    /\ committed = [p \in Procs |-> 0]
    /\ file = [p \in Procs |-> IF p \in Leftover THEN "left" ELSE "none"]
    /\ records = [p \in Procs |-> NoRecords]
    /\ report = NoRecords

-----------------------------------------------------------------------------
(* writer_loop and compactor_loop.                                         *)

(* start_event.wait() returns; open(out_path, "w"). *)
Begin(p) ==
    /\ go /\ proc[p] = "boot"
    /\ proc' = [proc EXCEPT ![p] = "loop"]
    /\ file' = [file EXCEPT ![p] = "own"]
    /\ UNCHANGED <<bench, op, ops, records>>

(* An iteration: a mutation changes the group of its target row, a         *)
(* compaction rewrites a set of candidates, which may be empty.            *)
StartOp(p) ==
    /\ proc[p] = "loop" /\ ops[p] < MaxOps
    /\ proc' = [proc EXCEPT ![p] = "op"]
    /\ ops' = [ops EXCEPT ![p] = @ + 1]
    /\ \E gs \in IF p \in Writers THEN {{g} : g \in Groups} ELSE SUBSET Groups :
          touches' = [touches EXCEPT ![p] = gs]
    /\ changed' = [changed EXCEPT ![p] = {}]
    /\ tries' = [tries EXCEPT ![p] = 0]
    /\ UNCHANGED <<bench, outcome, committed, file, records>>

Conflict(p) == touches[p] \cap changed[p] # {}

Commit(p) ==
    /\ proc[p] = "op" /\ ~Conflict(p)
    /\ proc' = [proc EXCEPT ![p] = "answered"]
    /\ outcome' = [outcome EXCEPT ![p] = "ok"]
    /\ committed' = [committed EXCEPT ![p] = @ + 1]
    /\ changed' = [q \in Procs |->
                     IF q # p /\ proc[q] = "op" THEN changed[q] \cup touches[p]
                                                ELSE changed[q]]
    /\ UNCHANGED <<bench, touches, tries, ops, file, records>>

(* Seeded bug: the retries are not limited. *)
Retry_Unlimited(p) ==
    /\ proc[p] = "op" /\ Conflict(p)
    /\ p \in Writers
    /\ tries' = [tries EXCEPT ![p] = @ + 1]
    /\ changed' = [changed EXCEPT ![p] = {}]
    /\ UNCHANGED <<bench, proc, touches, outcome, ops, committed, file, records>>

(* execute_with_retry: the mutation runs again on the latest version. *)
Retry(p) ==
    /\ proc[p] = "op" /\ Conflict(p)
    /\ p \in Writers /\ tries[p] < MaxTries
    /\ tries' = [tries EXCEPT ![p] = @ + 1]
    /\ changed' = [changed EXCEPT ![p] = {}]
    /\ UNCHANGED <<bench, proc, touches, outcome, ops, committed, file, records>>

(* Seeded bug: contention counts as a retryable conflict. *)
classify_error_Contention(words) ==
    IF words \cap {"retryable", "preempted", "too many concurrent writers"} # {}
      THEN "RetryableCommitConflict" ELSE "other"

(* The first keyword the message contains, in the order they are tried. *)
classify_error(words) ==
    IF words \cap {"retryable", "preempted"} # {} THEN "RetryableCommitConflict" ELSE "other"

(* The words of the message by which an error is told. *)
Errors == {{"retryable", "commit conflict"}, {"too many concurrent writers"}, {"timeout"}, {}}

(* The exception reaches the loop, which swallows every kind of them: a    *)
(* compaction's conflict as it is, a mutation's once its retries are spent,*)
(* and any other error, which may come before the commit at any time.      *)
Raise(p) ==
    /\ proc[p] = "op"
    /\ proc' = [proc EXCEPT ![p] = "answered"]
    /\ \E words \in Errors :
          /\ "retryable" \in words => Conflict(p) /\ p \in Compactors
          /\ "too many concurrent writers" \in words =>
                Conflict(p) /\ p \in Writers /\ tries[p] = MaxTries
          /\ outcome' = [outcome EXCEPT ![p] = classify_error(words)]
    /\ UNCHANGED <<bench, touches, changed, tries, ops, committed, file, records>>

(* Seeded bug: an operation that raised is not recorded. *)
Record_Successes(p) ==
    /\ proc[p] = "answered"
    /\ proc' = [proc EXCEPT ![p] = "loop"]
    /\ records' = IF outcome[p] = "ok" THEN [records EXCEPT ![p]["ok"] = @ + 1] ELSE records
    /\ UNCHANGED <<bench, op, ops, file>>

(* The line-buffered write of the record. *)
Record(p) ==
    /\ proc[p] = "answered"
    /\ proc' = [proc EXCEPT ![p] = "loop"]
    /\ records' = [records EXCEPT ![p][outcome[p]] = @ + 1]
    /\ UNCHANGED <<bench, op, ops, file>>

(* The deadline has passed at the head of the loop. *)
Exit(p) ==
    /\ proc[p] = "loop"
    /\ proc' = [proc EXCEPT ![p] = "exited"]
    /\ UNCHANGED <<bench, op, ops, file, records>>

(* The process dies on its own: its exit code is not looked at. *)
Die(p) ==
    /\ proc[p] \in {"boot", "op"}
    /\ parent \in {"spawned", "join"}
    /\ proc' = [proc EXCEPT ![p] = "dead"]
    /\ UNCHANGED <<bench, op, ops, file, records>>

-----------------------------------------------------------------------------
(* run_scenario.                                                           *)

SetEvent ==
    /\ parent = "spawned"
    /\ parent' = "join"
    /\ go' = TRUE
    /\ UNCHANGED <<proc, op, ops, file, records, report>>

(* Seeded bug: join() without a timeout. *)
JoinsReturn_Untimed ==
    /\ parent = "join" /\ Alive = {}
    /\ parent' = "kill"
    /\ UNCHANGED <<go, proc, op, ops, file, records, report>>

(* Every join() has returned: its process is gone, or is still booting or  *)
(* inside an operation a minute after the window has closed.               *)
JoinsReturn ==
    /\ parent = "join"
    /\ \A p \in Alive : proc[p] \in {"boot", "op"}
    /\ parent' = "kill"
    /\ UNCHANGED <<go, proc, op, ops, file, records, report>>

(* SIGKILL, and join again. *)
Kill(p) ==
    /\ parent = "kill" /\ p \in Alive
    /\ proc' = [proc EXCEPT ![p] = "dead"]
    /\ UNCHANGED <<bench, op, ops, file, records>>

(* aggregate() on every file: open() raises when there is none, and a file *)
(* left over counts like any other (as one record of an earlier run).      *)
OldRecords == [NoRecords EXCEPT !["ok"] = 1]
recordsIn(p) == IF file[p] = "left" THEN OldRecords ELSE records[p]

(* Seeded bug: no second join. *)
Aggregate_Early ==
    /\ parent = "kill"
    /\ IF \E p \in Procs : file[p] = "none"
         THEN parent' = "crashed" /\ UNCHANGED report
         ELSE /\ parent' = "reported"
              /\ report' = [k \in Kinds |-> SumOf([w \in Writers |-> recordsIn(w)[k]])]
    /\ UNCHANGED <<go, proc, op, ops, file, records>>

(* Seeded bug: the compactor's file is summed with the writers'. *)
Aggregate_AllFiles ==
    /\ parent = "kill" /\ Alive = {}
    /\ IF \E p \in Procs : file[p] = "none"
         THEN parent' = "crashed" /\ UNCHANGED report
         ELSE /\ parent' = "reported"
              /\ report' = [k \in Kinds |-> SumOf([w \in Procs |-> recordsIn(w)[k]])]
    /\ UNCHANGED <<go, proc, op, ops, file, records>>

Aggregate ==
    /\ parent = "kill" /\ Alive = {}
    /\ IF \E p \in Procs : file[p] = "none"
         THEN parent' = "crashed" /\ UNCHANGED report
         ELSE /\ parent' = "reported"
              /\ report' = [k \in Kinds |-> SumOf([w \in Writers |-> recordsIn(w)[k]])]
    /\ UNCHANGED <<go, proc, op, ops, file, records>>

-----------------------------------------------------------------------------
Step(p) ==
    \/ Begin(p) \/ StartOp(p) \/ Commit(p) \/ Retry(p) \/ Raise(p) \/ Record(p)
    \/ Exit(p) \/ Die(p) \/ Kill(p)

Next == SetEvent \/ JoinsReturn \/ Aggregate \/ \E p \in Procs : Step(p)

Spec == Init /\ [][Next]_vars

(* The parent runs, and so does a process outside an operation; a call     *)
(* into Lance may never return, a process may never come up.               *)
FairSpec ==
    /\ Spec
    /\ WF_vars(SetEvent) /\ WF_vars(JoinsReturn) /\ WF_vars(Aggregate)
    /\ \A p \in Procs : WF_vars(Record(p)) /\ WF_vars(Exit(p)) /\ WF_vars(Kill(p))

-----------------------------------------------------------------------------
(* Properties.                                                             *)

(* Every variable keeps its type. *)
TypeOK ==
    /\ parent \in {"spawned", "join", "kill", "reported", "crashed"}
    /\ go \in BOOLEAN
    /\ proc \in [Procs -> {"boot", "loop", "op", "answered", "exited", "dead"}]
    /\ touches \in [Procs -> SUBSET Groups] /\ changed \in [Procs -> SUBSET Groups]
    /\ tries \in [Procs -> 0 .. MaxTries] /\ ops \in [Procs -> 0 .. MaxOps]
    /\ outcome \in [Procs -> Kinds] /\ committed \in [Procs -> Nat]
    /\ file \in [Procs -> {"none", "left", "own"}]
    /\ records \in [Procs -> [Kinds -> Nat]] /\ report \in [Kinds -> Nat]

(* The records of a process and what it did to the dataset agree, whenever *)
(* it is killed: only the operation in flight can be missing.              *)
Written(p) == records[p]["ok"] + records[p]["RetryableCommitConflict"] + records[p]["other"]
RecordsMatchDataset ==
    \A p \in Procs :
        /\ committed[p] - records[p]["ok"] \in
             {0} \cup (IF proc[p] \in {"answered", "dead"} THEN {1} ELSE {})
        /\ Written(p) \in {ops[p] - 1, ops[p]}
        /\ proc[p] = "exited" => Written(p) = ops[p]

(* No scenario is aggregated while one of its processes can still change   *)
(* the dataset, or slow the next scenario down.                            *)
NobodyRunsOn == parent \in {"reported", "crashed"} => Alive = {}

(* When every process came up and ended by itself, the scenario is not     *)
(* lost, and its report is exactly what happened to the dataset.           *)
CleanScenarioIsExact ==
    parent \in {"reported", "crashed"} /\ (\A p \in Procs : proc[p] = "exited") =>
        /\ parent = "reported"
        /\ report["ok"] = SumOf([w \in Writers |-> committed[w]])
        /\ SumOf(report) = SumOf([w \in Writers |-> ops[w]])

(* The compactor reports a conflict only if a writer committed under it,   *)
(* and no writer ever reports a retryable conflict: Lance retries it.      *)
ConflictsAreTheCompactors ==
    /\ \A p \in Compactors : records[p]["RetryableCommitConflict"] > 0
                               => \E w \in Writers : committed[w] > 0
    /\ report["RetryableCommitConflict"] = 0

(* The scenario ends, even if a call into Lance hangs for ever. *)
ScenarioEnds == <>(parent \in {"reported", "crashed"})

(* "Each process appends ... to a per-process JSONL. Main process          *)
(* aggregates" (Q_concurrent_mutation_compact.py:28): what is reported are *)
(* the records this run's processes wrote.                                 *)
ReportIsOfThisRun ==
    parent = "reported" =>
        report = [k \in Kinds |-> SumOf([w \in Writers |-> records[w][k]])]
=============================================================================
