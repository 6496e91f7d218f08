----------------------- MODULE MetricsCollectorProofs -----------------------
(* The collector never overcounts while it asks about one job, for any     *)
(* number of jobs and restarts.                                            *)
EXTENDS MetricsCollector, TLAPS

(* The invariant holds before the first poll.                              *)
LEMMA InvInit == Init => IInv
BY MetricsCollectorAssumption DEF Init, IInv, TypeOK, CountOK, JobStates, NoTs, seen

(* A job's own step leaves the collector alone; entering RUNNING takes a   *)
(* timestamp later than every one seen.                                    *)
LEMMA JobStepInv ==
    ASSUME IInv, NEW j \in Jobs, Submit(j) \/ EnterRunning(j) \/ Fail(j) \/ Stop(j)
    PROVE  IInv'
<1> USE MetricsCollectorAssumption DEF IInv, TypeOK, CountOK, JobStates, NoTs, Move, pollVars
<1>0. seen' = seen BY DEF seen, Submit, EnterRunning, Fail, Stop
<1>1. CASE Submit(j) BY <1>0, <1>1 DEF Submit
<1>2. CASE EnterRunning(j)
  <2>1. TypeOK' BY <1>0, <1>2 DEF EnterRunning
  <2>2. CountOK' BY <1>0, <1>2 DEF EnterRunning
  <2>. QED BY <2>1, <2>2
<1>3. CASE Fail(j) BY <1>0, <1>3 DEF Fail
<1>4. CASE Stop(j) BY <1>0, <1>4 DEF Stop
<1>. QED BY <1>1, <1>2, <1>3, <1>4

(* An answer about the only job answered about so far counts an entry that *)
(* happened; any other leaves nothing to show of a single job.             *)
LEMMA AskInv == ASSUME IInv, NEW j \in Jobs, Ask(j) PROVE IInv'
<1> USE MetricsCollectorAssumption DEF IInv, TypeOK, CountOK, NoTs, jobVars
<1>1. seen' = seen \cup {j} BY DEF Ask, seen
<1>2. ts[j] \in Nat /\ entries[j] \in Nat /\ prev_running_ts' = ts[j] BY DEF Ask
<1>3. j \in active BY DEF Ask
<1>4. TypeOK' BY <1>1, <1>2, <1>3 DEF Ask
<1>5. ASSUME NEW k \in Jobs, seen' = {k}
      PROVE  /\ (prev_running_ts <= ts[k])'
             /\ (restart_count + first[k] <= entries[k])'
             /\ (prev_running_ts < ts[k] => restart_count + first[k] < entries[k])'
  <2>1. k = j /\ (seen = {} \/ seen = {j}) BY <1>1, <1>5
  <2>2. CASE seen = {}
    <3>1. first[j] = NoTs /\ prev_running_ts = NoTs /\ restart_count = 0 BY <2>2 DEF seen
    <3>2. first'[j] = entries[j] /\ restart_count' = 0 BY <3>1 DEF Ask
    <3>. QED BY <2>1, <3>1, <3>2, <1>2, <1>4 DEF Ask
  <2>3. CASE seen = {j}
    <3>1. first[j] # NoTs /\ first[j] \in Nat BY <2>3 DEF seen
    <3>2. first'[j] = first[j] BY <3>1 DEF Ask
    <3>3. /\ prev_running_ts \in Nat /\ prev_running_ts <= ts[j]
          /\ restart_count + first[j] <= entries[j]
          /\ prev_running_ts < ts[j] => restart_count + first[j] < entries[j]
      BY <2>3
    <3>. QED BY <2>1, <3>1, <3>2, <3>3, <1>2, <1>4 DEF Ask
  <2>. QED BY <2>1, <2>2, <2>3
<1>6. CountOK' BY <1>1, <1>2, <1>5 DEF Ask
<1>. QED BY <1>4, <1>6

(* Every step of a job or of the collector preserves the invariant.        *)
LEMMA InvStep == IInv /\ [Next]_vars => IInv'
<1> SUFFICES ASSUME IInv, [Next]_vars PROVE IInv' OBVIOUS
<1> USE MetricsCollectorAssumption DEF IInv, TypeOK, CountOK, NoTs, jobVars
<1>1. CASE \E j \in Jobs : Submit(j) \/ EnterRunning(j) \/ Fail(j) \/ Stop(j)
  BY <1>1, JobStepInv
<1>2. CASE \E j \in Jobs : Ask(j) BY <1>2, AskInv
<1>3. CASE \E j \in Jobs : AskFails(j) BY <1>3 DEF AskFails, seen
<1>4. CASE Poll BY <1>4 DEF Poll, seen
<1>5. CASE UNCHANGED vars BY <1>5 DEF vars, pollVars, seen
<1>. QED BY <1>1, <1>2, <1>3, <1>4, <1>5 DEF Next

(* Every variable keeps its type, and with an id no other job is asked     *)
(* about, for every number of jobs.                                        *)
THEOREM CollectorTypeCorrect == Spec => []TypeOK
<1>1. IInv => TypeOK BY DEF IInv
<1>. QED BY <1>1, InvInit, InvStep, PTL DEF Spec

(* The collector never counts a restart that did not happen while it asks  *)
(* about one job, which an id makes it do, for every number of jobs and of *)
(* restarts.                                                               *)
THEOREM CountsAreRestarts == Spec => []NeverOvercounts
<1>1. IInv => NeverOvercounts
  BY MetricsCollectorAssumption DEF IInv, TypeOK, CountOK, NeverOvercounts, seen
<1>. QED BY <1>1, InvInit, InvStep, PTL DEF Spec
=============================================================================
