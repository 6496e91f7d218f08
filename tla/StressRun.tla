----------------------------- MODULE StressRun -----------------------------
(***************************************************************************)
(* run_stress.sh: one stress run, from the empty table to the verification *)
(* report, driving the job and the compactor of StressJob.  The script     *)
(* runs under `set -eu` without pipefail: a failing command ends it and    *)
(* leaves whatever it started running, but a command piped into tail or    *)
(* tee, or followed by `|| true`, fails unnoticed.                         *)
(***************************************************************************)
EXTENDS StressJob, Sums

VARIABLES
    phase,      \* where the script is
    created,    \* the table exists
    submitted,  \* the job is on the cluster
    jid,        \* the script parsed a job id from the client's output
    compactor,  \* the compactor container is up
    report      \* what verify_data.py wrote, or NoReport

runVars == <<phase, created, submitted, jid, compactor, report>>

Phase == {"create", "submit", "baseline", "concurrent", "recovery", "verify",
          "end", "aborted"}

NoReport == [rows |-> {}, total |-> 0, unique |-> 0, duplicate_count |-> 0, written |-> FALSE]

RunInit ==
    /\ Init
    /\ phase = "create"
    /\ created = FALSE /\ submitted = FALSE /\ jid = FALSE /\ compactor = FALSE
    /\ report = NoReport

-----------------------------------------------------------------------------
(* The script.                                                             *)

(* `docker run ... create_dataset.py | tail -3`: failure is not noticed. *)
CreateDataset ==
    /\ phase = "create"
    /\ phase' = "submit"
    /\ created' \in BOOLEAN
    /\ UNCHANGED <<vars, submitted, jid, compactor, report>>

(* `flink run -d` must succeed; the id is whatever grep finds of it. *)
SubmitJob ==
    /\ phase = "submit"
    /\ phase' = "baseline"
    /\ submitted' = TRUE
    /\ jid' \in BOOLEAN
    /\ UNCHANGED <<vars, created, compactor, report>>

(* `docker run -d --name compactor` must succeed. *)
StartCompactor ==
    /\ phase = "baseline"
    /\ phase' = "concurrent"
    /\ compactor' = TRUE
    /\ UNCHANGED <<vars, created, submitted, jid, report>>

(* The client may fail after its job has been accepted. *)
ScriptFails ==
    /\ phase \in {"submit", "baseline"}
    /\ phase' = "aborted"
    /\ submitted' \in {submitted, TRUE}
    /\ UNCHANGED <<vars, created, jid, compactor, report>>

(* `docker stop compactor | tail -1 || true`: stops the container, killing *)
(* an iteration under way, or fails unnoticed.                             *)
StopCompactor ==
    /\ phase = "concurrent"
    /\ phase' = "recovery"
    /\ \/ /\ compactor' = FALSE
          /\ plan' = {}
       \/ UNCHANGED <<compactor, plan>>
    /\ UNCHANGED <<jobVars, cpVars, table, compactions, created, submitted, jid, report>>

(* `curl -X PATCH /jobs/$JID || true`, then five seconds' sleep: whether   *)
(* the request reaches a running job or not, the script goes on.           *)
CancelJob ==
    /\ phase = "recovery"
    /\ phase' = "verify"
    /\ \/ jid /\ Cancel
       \/ UNCHANGED vars
    /\ UNCHANGED <<created, submitted, jid, compactor, report>>

(* verify_data.py on the version it opens.  When the duplicate check       *)
(* raises, the exception is printed and the count written stays zero.      *)
Verify(checked) ==
    LET total  == SumOf([f \in table |-> Cardinality(f.rows)])
        unique == Cardinality({<<r.sub, r.seq>> : r \in Stored})
    IN  /\ phase = "verify" /\ created
        /\ phase' = "end"
        /\ report' = [rows |-> Stored, total |-> total, unique |-> unique,
                      duplicate_count |-> IF checked THEN total - unique ELSE 0,
                      written |-> TRUE]
        /\ UNCHANGED <<vars, created, submitted, jid, compactor>>

(* verify_data.py dies before it writes: tee's exit status counts. *)
VerifyFails ==
    /\ phase = "verify"
    /\ phase' = "end"
    /\ UNCHANGED <<vars, created, submitted, jid, compactor, report>>

Script ==
    \/ CreateDataset \/ SubmitJob \/ StartCompactor \/ ScriptFails \/ StopCompactor
    \/ CancelJob \/ VerifyFails
    \/ \E checked \in BOOLEAN : Verify(checked)

-----------------------------------------------------------------------------
(* The job runs once submitted, with or without the script; its flushes    *)
(* succeed only when there is a table to append to.                        *)
JobMoves ==
    /\ submitted
    /\ \/ \E s \in Subtasks : JobStep(s)
       \/ CheckpointTrigger \/ CheckpointComplete \/ CheckpointExpire
    /\ created \/ UNCHANGED table
    /\ UNCHANGED runVars

CompactorMoves ==
    /\ compactor
    /\ CompactPlan \/ CompactCommit \/ CompactError
    /\ UNCHANGED runVars

RunNext == Script \/ JobMoves \/ CompactorMoves

RunSpec == RunInit /\ [][RunNext]_<<vars, runVars>>

-----------------------------------------------------------------------------
(* Properties.                                                             *)

(* Reported duplicates are evidence of restarts, as the reports take them  *)
(* to be: neither the compactor nor verifying while the job still writes   *)
(* makes any, and an id has at most one more copy per restart.             *)
DuplicatesComeFromRestarts ==
    report.duplicate_count <= restarts * report.unique

(* The verification never sees a row that later disappears.               *)
ReportedRowsStay == report.rows \subseteq Stored

(* "Verifying final data" (run_stress.sh:107): once the job is cancelled,  *)
(* what the verification counted is what the table holds.  Five seconds do *)
(* not wait for the cancelled tasks to terminate.                          *)
VerifiedDataIsFinal ==
    report.written /\ job = "CANCELED" => report.rows = Stored
=============================================================================
