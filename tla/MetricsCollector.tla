-------------------------- MODULE MetricsCollector --------------------------
(***************************************************************************)
(* metrics_collector.py polling the JobManager's REST interface and        *)
(* counting restarts from the timestamp at which a job last entered        *)
(* RUNNING.  run_stress.sh gives it the id of its job; when it found none  *)
(* in the output of the submission, the unquoted $JID vanishes and the     *)
(* collector asks about every job.  The JobManager also lists the jobs of  *)
(* earlier runs.  A request may fail or be answered by a JobManager that   *)
(* does not know the job (yet).                                            *)
(***************************************************************************)
EXTENDS Integers

CONSTANTS
    Jobs,        \* the jobs the JobManager may list
    Target,      \* the job run_stress.sh submitted
    NoTarget,    \* no id
    MaxEntries,  \* bound: how often a job enters RUNNING
    MaxCount     \* bound: the restarts that are told apart

ASSUME MetricsCollectorAssumption ==
    /\ Target \in Jobs /\ NoTarget \notin Jobs
    /\ MaxEntries \in Nat /\ MaxCount \in Nat /\ MaxCount > MaxEntries

VARIABLES
    target_jid,     \* the job asked about, or NoTarget for all of them
    state,          \* state[j]: the job status, "UNKNOWN" when not listed
    ts,             \* ts[j]: timestamps.RUNNING, 0 when never entered
    clock,          \* the JobManager's clock
    entries,        \* entries[j]: how often j has entered RUNNING
    active,         \* the jobs this poll has left to ask about
    prev_running_ts, \* or NoTs
    restart_count,
    first           \* first[j]: entries[j] when j was first answered about

jobVars  == <<state, ts, clock, entries>>
pollVars == <<active, prev_running_ts, restart_count, first>>
vars     == <<target_jid, jobVars, pollVars>>

NoTs == -1
JobStates == {"UNKNOWN", "INITIALIZING", "RUNNING", "RESTARTING", "CANCELED"}

Init ==
    /\ target_jid \in {Target, NoTarget}
    /\ state = [j \in Jobs |-> "UNKNOWN"]
    /\ ts = [j \in Jobs |-> 0]
    /\ clock = 0
    /\ entries = [j \in Jobs |-> 0]
    /\ active = {}
    /\ prev_running_ts = NoTs
    /\ restart_count = 0
    /\ first = [j \in Jobs |-> NoTs]

-----------------------------------------------------------------------------
(* The jobs.                                                               *)

Move(j, from, to) ==
    /\ state[j] \in from
    /\ state' = [state EXCEPT ![j] = to]
    /\ UNCHANGED <<target_jid, pollVars>>

Submit(j) ==
    /\ Move(j, {"UNKNOWN"}, "INITIALIZING")
    /\ UNCHANGED <<ts, clock, entries>>

EnterRunning(j) ==
    /\ entries[j] < MaxEntries
    /\ Move(j, {"INITIALIZING", "RESTARTING"}, "RUNNING")
    /\ clock' = clock + 1
    /\ ts' = [ts EXCEPT ![j] = clock']
    /\ entries' = [entries EXCEPT ![j] = @ + 1]

Fail(j) ==
    /\ Move(j, {"RUNNING"}, "RESTARTING")
    /\ UNCHANGED <<ts, clock, entries>>

Stop(j) ==
    /\ Move(j, {"INITIALIZING", "RUNNING", "RESTARTING"}, "CANCELED")
    /\ UNCHANGED <<ts, clock, entries>>

-----------------------------------------------------------------------------
(* The collector.                                                          *)

(* Seeded bug: the id is ignored, every listed job is asked about. *)
Poll_Untargeted ==
    /\ active = {}
    /\ active' = {j \in Jobs : state[j] # "UNKNOWN"}
    /\ UNCHANGED <<target_jid, jobVars, prev_running_ts, restart_count, first>>

(* /jobs, filtered; when it fails or lists no such job, a row says so and  *)
(* the collector sleeps.                                                   *)
Poll ==
    /\ active = {}
    /\ active' = {j \in Jobs : state[j] # "UNKNOWN" /\ target_jid \in {j, NoTarget}}
    /\ UNCHANGED <<target_jid, jobVars, prev_running_ts, restart_count, first>>

(* Seeded bug: the timestamp is remembered before it is compared. *)
Ask_Remembered(j) ==
    /\ j \in active
    /\ active' = active \ {j}
    /\ prev_running_ts' = ts[j]
    /\ first' = [first EXCEPT ![j] = IF @ = NoTs THEN entries[j] ELSE @]
    /\ UNCHANGED <<target_jid, jobVars, restart_count>>

(* /jobs/<id> answers: a later timestamp than the last one is a restart.   *)
(* Beyond MaxCount, which no single job reaches, counts are taken as one.  *)
Ask(j) ==
    /\ j \in active
    /\ active' = active \ {j}
    /\ restart_count' = IF /\ prev_running_ts # NoTs /\ ts[j] > prev_running_ts
                             /\ restart_count < MaxCount
                          THEN restart_count + 1 ELSE restart_count
    /\ prev_running_ts' = ts[j]
    /\ first' = [first EXCEPT ![j] = IF @ = NoTs THEN entries[j] ELSE @]
    /\ UNCHANGED <<target_jid, jobVars>>

(* The request fails: the job is skipped this time. *)
AskFails(j) ==
    /\ j \in active
    /\ active' = active \ {j}
    /\ UNCHANGED <<target_jid, jobVars, prev_running_ts, restart_count, first>>

-----------------------------------------------------------------------------
Next ==
    \/ \E j \in Jobs : Submit(j) \/ EnterRunning(j) \/ Fail(j) \/ Stop(j)
    \/ \E j \in Jobs : Ask(j) \/ AskFails(j)
    \/ Poll

Spec == Init /\ [][Next]_vars

(* The collector polls for ever; a request that keeps being possible is    *)
(* answered some time.                                                     *)
FairSpec ==
    /\ Spec
    /\ WF_vars(Poll)
    /\ \A j \in Jobs : WF_vars(Ask(j) \/ AskFails(j)) /\ SF_vars(Ask(j))

-----------------------------------------------------------------------------
(* Properties.                                                             *)

(* The jobs the collector was answered about. *)
seen == {j \in Jobs : first[j] # NoTs}

(* Every variable keeps its type; with an id, no other job is asked about. *)
TypeOK ==
    /\ target_jid \in {Target, NoTarget}
    /\ state \in [Jobs -> JobStates]
    /\ ts \in [Jobs -> Nat] /\ clock \in Nat
    /\ entries \in [Jobs -> 0 .. MaxEntries]
    /\ active \subseteq Jobs
    /\ target_jid = Target => active \subseteq {Target} /\ seen \subseteq {Target}
    /\ prev_running_ts \in Nat \cup {NoTs}
    /\ restart_count \in 0 .. MaxCount
    /\ first \in [Jobs -> Nat \cup {NoTs}]

(* The collector that has an id never counts a restart that did not        *)
(* happen: it counts at most the times the job entered RUNNING after it    *)
(* was first answered about.  (A first answer while the job initialises    *)
(* has timestamp 0: the first start then counts as a restart.)  Without an *)
(* id that is so only until a second job answers: from then on, going from *)
(* one job to another started later counts as a restart, at every poll.    *)
NeverOvercounts ==
    \A j \in seen : target_jid = Target \/ seen = {j} =>
        restart_count + first[j] <= entries[j]

(* A job that has been restarted since the collector first saw it does not *)
(* go unnoticed for ever, however many restarts fall between two polls and *)
(* whether or not other jobs are asked about in between.                   *)
RestartIsNoticed ==
    \A j \in Jobs : (first[j] # NoTs /\ first[j] < entries[j]) ~> (restart_count > 0)

-----------------------------------------------------------------------------
(* The inductive invariant: while one job has answered, restarts counted   *)
(* are its entries into RUNNING up to the last timestamp seen, so a later  *)
(* timestamp is one more entry.                                            *)
CountOK ==
    /\ \A j \in Jobs : ts[j] <= clock
    /\ seen = {} <=> prev_running_ts = NoTs
    /\ seen = {} => restart_count = 0
    /\ \A j \in Jobs : seen = {j} =>
          /\ prev_running_ts <= ts[j]
          /\ restart_count + first[j] <= entries[j]
          /\ prev_running_ts < ts[j] => restart_count + first[j] < entries[j]

IInv == TypeOK /\ CountOK
=============================================================================
