----------------------------- MODULE BenchProofs -----------------------------
(***************************************************************************)
(* What the benches claim of what they saved, for every plan, data set and *)
(* number of runs: the format bench, the composite keys, the calibration,  *)
(* the read benchmark and the training bench.                              *)
(***************************************************************************)
EXTENDS MCBenches, CompactIndexProofs, FoldProofs

-----------------------------------------------------------------------------
(* FormatBench.                                                            *)

L2Typed ==
    /\ l2s3 \in [L2Places -> L2Datasets]
    /\ l2manifest \in Manifests
    /\ l2w \in [pc : {"none", "write", "verify", "open", "dump"}, run_id : L2RunIds, n_rows : Nat,
                todo : Seq(L2Tasks), records : [L2Tasks -> L2Record]]
    /\ l2w.pc \in {"write", "verify"} => l2w.todo # <<>>
    /\ l2m \in [pc : {"none", "measure", "scan", "open", "dump"}, manifest : Manifests,
                todo : Seq(L2Tasks), handle : L2Datasets, records : [L2Tasks -> L2Result]]
    /\ l2m.pc \in {"measure", "scan"} => l2m.todo # <<>>
    /\ l2out.state = "saved" =>
         l2out \in [state : {"saved"}, run_id : L2RunIds, records : [L2Tasks -> L2Result]]

(* What the records of run r say is ok is there as it was verified. *)
Verified(r, records, k) ==
    records[k].status = "ok" => l2s3[<<r, k>>].readable /\ l2s3[<<r, k>>] = records[k].verify

Found ==
    /\ l2w.pc # "none" =>
         \A k \in L2Tasks : (l2w.pc = "verify" => k # l2task) => Verified(l2w.run_id, l2w.records, k)
    /\ l2manifest.state = "saved" =>
         \A k \in L2Tasks : <<l2manifest.run_id, k>> \notin l2since =>
             Verified(l2manifest.run_id, l2manifest.records, k)

(* Everything the files and the scripts remember of the dataset at a place.*)
Scanned(file, k) == {file.records[k].scanned, file.records[k].record.verify}
SeenByWriter(r, k)   == IF l2w.run_id = r THEN {l2w.records[k].verify} ELSE {}
SeenInManifest(r, k) == IF l2manifest.run_id = r THEN {l2manifest.records[k].verify} ELSE {}
SeenByMeasure(r, k)  ==
    IF l2m.manifest.run_id = r
      THEN {l2m.manifest.records[k].verify} \cup Scanned(l2m, k)
           \cup (IF l2m.pc = "scan" /\ Head(l2m.todo) = k THEN {l2m.handle} ELSE {})
      ELSE {}
SeenInResults(r, k)  == IF l2out.state = "saved" /\ l2out.run_id = r THEN Scanned(l2out, k) ELSE {}
Seen(r, k) ==
    {Unreadable, l2s3[<<r, k>>]} \cup SeenByWriter(r, k) \cup SeenInManifest(r, k)
    \cup SeenByMeasure(r, k) \cup SeenInResults(r, k)

(* A version of a Lance dataset has the rows it has. *)
Agree(seen, now) ==
    \A d, e \in seen : d.version <= now.version /\ (d.version = e.version => d.rows = e.rows)
Versioned == \A r \in L2RunIds, k \in L2Tasks : IsLance(k) => Agree(Seen(r, k), l2s3[<<r, k>>])

(* A point_take from Lance gave as many rows as were asked for. *)
Taken(records) ==
    \A k \in L2Tasks : records[k].status = "measured" /\ IsLance(k) /\ k[1] \in PointTakes =>
        records[k].taken = TakeN(k[1], records[k].record.n_rows)
Measurements == Taken(l2m.records) /\ (l2out.state = "saved" => Taken(l2out.records))

L2Inv == L2Typed /\ Found /\ Versioned /\ Measurements

(* A plan is made of the workloads and formats it is given.                *)
LEMMA PlanType ==
    ASSUME NEW A, NEW B, NEW ws \in Seq(A), NEW fs \in Seq(B)
    PROVE  plan_tasks(ws, fs) \in Seq(A \X B)
<1> DEFINE row(k) == [j \in DOMAIN fs |-> <<ws[k], fs[j]>>]
           rows   == [k \in DOMAIN ws |-> row(k)]
<1>1. DOMAIN ws = 1 .. Len(ws) /\ Len(ws) \in Nat /\ DOMAIN fs = 1 .. Len(fs) /\ Len(fs) \in Nat
  OBVIOUS
<1>2. ASSUME NEW k \in 1 .. Len(ws) PROVE row(k) \in Seq(A \X B)
  <2>1. row(k) \in [1 .. Len(fs) -> A \X B]
    BY <1>1
  <2> HIDE DEF row
  <2> QED BY <1>1, <2>1
<1>3. rows \in Seq(Seq(A \X B))
  <2> HIDE DEF row
  <2>1. rows \in [1 .. Len(ws) -> Seq(A \X B)]
    BY <1>1, <1>2
  <2> HIDE DEF rows
  <2> QED BY <1>1, <2>1
<1>4. plan_tasks(ws, fs) = FlattenSeq(rows)
  BY DEF plan_tasks
<1> HIDE DEF rows
<1> QED BY <1>3, <1>4, FlatType

(* Whatever is selected for a run, its tasks are tasks.                    *)
LEMMA TasksType ==
    /\ \A ws, fs : plan_tasks(Kept(L2Workloads, ws), Kept(L2Formats, fs)) \in Seq(L2Tasks)
    /\ \A S : Kept(L2AllTasks, S) \in Seq(L2Tasks)
<1>1. /\ \A ws : Kept(L2Workloads, ws) \in Seq(ToSet(L2Workloads))
      /\ \A fs : Kept(L2Formats, fs) \in Seq(ToSet(L2Formats))
      /\ L2Workloads \in Seq(ToSet(L2Workloads)) /\ L2Formats \in Seq(ToSet(L2Formats))
  BY FormatBenchAssumption, KeptIn
<1>2. /\ \A ws, fs : plan_tasks(Kept(L2Workloads, ws), Kept(L2Formats, fs)) \in Seq(L2Tasks)
      /\ L2AllTasks \in Seq(L2Tasks)
  BY <1>1, PlanType DEF L2Tasks, L2AllTasks
<1>3. ASSUME NEW S PROVE Kept(L2AllTasks, S) \in Seq(L2Tasks)
  <2> DEFINE t == Kept(L2AllTasks, S)
  <2>1. t \in Seq(L2Tasks \cap S)
    BY <1>2, KeptType
  <2> HIDE DEF t
  <2>2. t \in [1 .. Len(t) -> L2Tasks] /\ Len(t) \in Nat
    BY <2>1
  <2>3. t \in Seq(L2Tasks)
    BY <2>2
  <2> QED BY <2>3 DEF t
<1> QED BY <1>2, <1>3

(* In a plan of workloads and formats that are named once, every task is   *)
(* named once.                                                             *)
LEMMA PlanInjective ==
    ASSUME NEW A, NEW B, NEW ws \in Seq(A), NEW fs \in Seq(B), IsInjective(ws), IsInjective(fs)
    PROVE  IsInjective(plan_tasks(ws, fs))
<1> DEFINE row(w)   == [j \in DOMAIN fs |-> <<w, fs[j]>>]
           rows(us) == [i \in DOMAIN us |-> row(us[i])]
           P == {us \in Seq(A) : /\ IsInjective(us) => IsInjective(plan_tasks(us, fs))
                                 /\ \A k \in ToSet(plan_tasks(us, fs)) : k[1] \in ToSet(us)}
<1>1. DOMAIN fs = 1 .. Len(fs) /\ Len(fs) \in Nat
  OBVIOUS
<1>2. ASSUME NEW w \in A
      PROVE  /\ row(w) \in Seq(A \X B) /\ IsInjective(row(w))
             /\ \A k \in ToSet(row(w)) : k[1] = w
  <2>1. row(w) \in [1 .. Len(fs) -> A \X B]
    BY <1>1
  <2>2. DOMAIN row(w) = DOMAIN fs /\ \A j \in DOMAIN fs : row(w)[j] = <<w, fs[j]>>
    OBVIOUS
  <2> HIDE DEF row
  <2>3. row(w) \in Seq(A \X B)
    BY <1>1, <2>1
  <2>4. IsInjective(row(w))
    <3> SUFFICES ASSUME NEW i \in DOMAIN fs, NEW j \in DOMAIN fs, row(w)[i] = row(w)[j] PROVE i = j
      BY <2>2 DEF IsInjective
    <3>1. <<w, fs[i]>> = <<w, fs[j]>>
      BY <2>2
    <3> QED BY <3>1 DEF IsInjective
  <2>5. ToSet(row(w)) = {<<w, fs[j]>> : j \in DOMAIN fs}
    BY <2>2 DEF ToSet
  <2> QED BY <2>3, <2>4, <2>5
<1>3. ASSUME NEW us \in Seq(A)
      PROVE  rows(us) \in Seq(Seq(A \X B)) /\ plan_tasks(us, fs) = FlattenSeq(rows(us))
             /\ Len(rows(us)) = Len(us) /\ DOMAIN us = 1 .. Len(us) /\ Len(us) \in Nat
             /\ \A i \in 1 .. Len(us) : rows(us)[i] = row(us[i])
  <2>1. plan_tasks(us, fs) = FlattenSeq(rows(us))
    BY DEF plan_tasks
  <2>2. DOMAIN us = 1 .. Len(us) /\ Len(us) \in Nat /\ \A i \in 1 .. Len(us) : us[i] \in A
    OBVIOUS
  <2> HIDE DEF row
  <2>3. rows(us) \in [1 .. Len(us) -> Seq(A \X B)]
    BY <1>2, <2>2
  <2>4. \A i \in 1 .. Len(us) : rows(us)[i] = row(us[i])
    BY <2>2
  <2> HIDE DEF rows
  <2>5. rows(us) \in Seq(Seq(A \X B)) /\ Len(rows(us)) = Len(us)
    <3> DEFINE r == rows(us)
               T == Seq(A \X B)
    <3>1. r \in [1 .. Len(us) -> T] /\ Len(us) \in Nat
      BY <2>2, <2>3
    <3> HIDE DEF r, T
    <3>2. r \in Seq(T) /\ Len(r) = Len(us)
      BY <3>1
    <3> QED BY <3>2 DEF r, T
  <2> QED BY <2>1, <2>2, <2>4, <2>5
<1> HIDE DEF row, rows
<1>4. <<>> \in P
  <2>1. rows(<<>>) = <<>>
    <3>1. <<>> \in Seq(A) /\ Len(<<>>) = 0
      OBVIOUS
    <3>2. rows(<<>>) \in Seq(Seq(A \X B)) /\ Len(rows(<<>>)) = 0
      BY <1>3, <3>1
    <3> QED BY <3>2
  <2>2. plan_tasks(<<>>, fs) = <<>>
    <3>1. <<>> \in Seq(A)
      OBVIOUS
    <3>2. plan_tasks(<<>>, fs) = FlattenSeq(rows(<<>>))
      BY <1>3, <3>1
    <3> QED BY <2>1, <3>2, FlatEmpty, Zenon
  <2>3. IsInjective(<<>>) /\ ToSet(<<>>) = {}
    BY DEF IsInjective, ToSet
  <2>4. IsInjective(plan_tasks(<<>>, fs)) /\ ToSet(plan_tasks(<<>>, fs)) = {}
    BY <2>2, <2>3, Zenon
  <2> QED BY <2>4
<1>5. ASSUME NEW us \in Seq(A), NEW w \in A, us \in P PROVE Append(us, w) \in P
  <2> DEFINE vs == Append(us, w)
             p  == plan_tasks(us, fs)
             q  == plan_tasks(vs, fs)
  <2>1. /\ vs \in Seq(A) /\ Len(vs) = Len(us) + 1 /\ vs[Len(us) + 1] = w
        /\ \A i \in 1 .. Len(us) : vs[i] = us[i]
    BY AppendProperties
  <2>2. ToSet(vs) = ToSet(us) \cup {w} /\ (IsInjective(vs) <=> IsInjective(us) /\ w \notin ToSet(us))
    BY ToSetAppend, InjectiveAppend
  <2> HIDE DEF vs
  <2>3. rows(vs) = Append(rows(us), row(w))
    <3> DEFINE r == rows(us)
               t == rows(vs)
    <3>1. /\ r \in Seq(Seq(A \X B)) /\ t \in Seq(Seq(A \X B))
          /\ Len(r) = Len(us) /\ Len(t) = Len(us) + 1 /\ Len(us) \in Nat
      BY <1>3, <2>1
    <3>2. /\ \A i \in 1 .. Len(us) : r[i] = row(us[i])
          /\ \A i \in 1 .. Len(us) + 1 : t[i] = row(vs[i])
      BY <1>3, <2>1
    <3> HIDE DEF r, t
    <3>3. row(w) \in Seq(A \X B)
      BY <1>2
    <3>4. /\ Append(r, row(w)) \in Seq(Seq(A \X B)) /\ Len(Append(r, row(w))) = Len(us) + 1
          /\ \A i \in 1 .. Len(us) : Append(r, row(w))[i] = r[i]
          /\ Append(r, row(w))[Len(us) + 1] = row(w)
      BY <3>1, <3>3, AppendProperties
    <3>5. ASSUME NEW i \in 1 .. (Len(us) + 1) PROVE t[i] = Append(r, row(w))[i]
      <4>1. i \in 1 .. Len(us) \/ i = Len(us) + 1
        BY <3>1
      <4>2. CASE i \in 1 .. Len(us)
        BY <2>1, <3>2, <3>4, <4>2
      <4>3. CASE i = Len(us) + 1
        BY <2>1, <3>2, <3>4, <4>3
      <4> QED BY <4>1, <4>2, <4>3
    <3>6. t = Append(r, row(w))
      BY <3>1, <3>4, <3>5, SeqEqual
    <3> QED BY <3>6 DEF r, t
  <2>4. q = p \o row(w) /\ p \in Seq(A \X B) /\ row(w) \in Seq(A \X B)
    <3>1. row(w) \in Seq(A \X B) /\ rows(us) \in Seq(Seq(A \X B))
      BY <1>2, <1>3
    <3>2. FlattenSeq(rows(vs)) = FlattenSeq(rows(us)) \o row(w) /\ FlattenSeq(rows(us)) \in Seq(A \X B)
      BY <2>3, <3>1, FlatAppend, FlatType
    <3> QED BY <1>3, <2>1, <3>1, <3>2
  <2>5. ToSet(q) = ToSet(p) \cup ToSet(row(w))
    <3> HIDE DEF p, q
    <3> QED BY <2>4, ToSetConcat
  <2>6. /\ IsInjective(us) => IsInjective(p)
        /\ \A k \in ToSet(p) : k[1] \in ToSet(us)
    BY <1>5
  <2>7. IsInjective(row(w)) /\ \A k \in ToSet(row(w)) : k[1] = w
    BY <1>2
  <2> HIDE DEF P, p, q
  <2>8. IsInjective(vs) => IsInjective(q)
    <3> SUFFICES ASSUME IsInjective(vs) PROVE IsInjective(q)
      OBVIOUS
    <3>1. ToSet(p) \cap ToSet(row(w)) = {}
      BY <2>2, <2>6, <2>7
    <3> QED BY <2>2, <2>4, <2>6, <2>7, <3>1, InjectiveConcat
  <2>9. \A k \in ToSet(q) : k[1] \in ToSet(vs)
    BY <2>2, <2>5, <2>6, <2>7
  <2> QED BY <2>1, <2>8, <2>9 DEF P, q, vs
<1>6. ws \in P
  <2> HIDE DEF P
  <2> QED BY <1>4, <1>5, SeqSetInduction
<1> QED BY <1>6

(* A writer is given no task twice.                                        *)
LEMMA TasksInjective ==
    \A S, T : IsInjective(plan_tasks(Kept(L2Workloads, S), Kept(L2Formats, T)))
<1> TAKE S, T
<1> DEFINE w == Kept(L2Workloads, S)
           f == Kept(L2Formats, T)
<1>1. w \in Seq(ToSet(L2Workloads)) /\ f \in Seq(ToSet(L2Formats))
  BY FormatBenchAssumption, KeptIn
<1>2. IsInjective(w) /\ IsInjective(f)
  BY FormatBenchAssumption, KeptInjective
<1> HIDE DEF w, f
<1>3. IsInjective(plan_tasks(w, f))
  BY <1>1, <1>2, PlanInjective
<1> QED BY <1>3 DEF w, f

(* What there is at first, and when nothing runs.                          *)
LEMMA L2Idle ==
    /\ Unreadable \in L2Datasets /\ L2NoRecord \in L2Record /\ L2NoResult \in L2Result
    /\ L2NoFile \in Manifests /\ L2TornFile \in Manifests
    /\ L2NoFile.state = "none" /\ L2TornFile.state = "torn" /\ L2TornFile.records = L2NoRecords
    /\ WriterIdle.run_id \in L2RunIds /\ L2NoRecords \in [L2Tasks -> L2Record]
    /\ L2NoResults \in [L2Tasks -> L2Result]
<1>1. (CHOOSE r \in L2RunIds : TRUE) \in L2RunIds
  BY FormatBenchAssumption
<1>2. Unreadable \in L2Datasets
  BY DEF Unreadable, L2Datasets
<1>3. L2NoRecord \in L2Record
  BY <1>2 DEF L2NoRecord, L2Record
<1>4. L2NoResult \in L2Result
  BY <1>2, <1>3 DEF L2NoResult, L2Result
<1>5. L2NoRecords \in [L2Tasks -> L2Record] /\ L2NoResults \in [L2Tasks -> L2Result]
  BY <1>3, <1>4 DEF L2NoRecords, L2NoResults
<1>6. /\ L2NoFile \in Manifests /\ L2TornFile \in Manifests
      /\ L2NoFile.state = "none" /\ L2TornFile.state = "torn" /\ L2TornFile.records = L2NoRecords
  BY <1>1, <1>5 DEF L2NoFile, L2TornFile, Manifests
<1> QED BY <1>1, <1>2, <1>3, <1>4, <1>5, <1>6 DEF WriterIdle

(* While there are tasks left, the next of them is one, at its place.      *)
LEMMA NextTasks ==
    ASSUME L2Typed
    PROVE  /\ l2w.todo # <<>> => /\ l2task \in L2Tasks /\ l2place \in L2Places
                                 /\ l2place = <<l2w.run_id, l2task>> /\ Tail(l2w.todo) \in Seq(L2Tasks)
           /\ l2m.todo # <<>> => /\ Head(l2m.todo) \in L2Tasks /\ l2dir \in L2Places
                                 /\ l2dir = <<l2m.manifest.run_id, Head(l2m.todo)>>
                                 /\ l2rec \in L2Record /\ Tail(l2m.todo) \in Seq(L2Tasks)
<1>1. \A todo \in Seq(L2Tasks) : todo # <<>> => Head(todo) \in L2Tasks /\ Tail(todo) \in Seq(L2Tasks)
  OBVIOUS
<1>2. l2w.todo \in Seq(L2Tasks) /\ l2w.run_id \in L2RunIds
  BY DEF L2Typed
<1>3. /\ l2m.todo \in Seq(L2Tasks) /\ l2m.manifest.run_id \in L2RunIds
      /\ l2m.manifest.records \in [L2Tasks -> L2Record]
  BY DEF L2Typed, Manifests
<1> QED BY <1>1, <1>2, <1>3 DEF l2task, l2place, l2dir, l2rec, L2Places

(* Records of tasks are records.                                           *)
LEMMA RecordType ==
    ASSUME L2Typed, NEW k \in L2Tasks, NEW status \in {"ok", "failed"}, NEW d \in L2Datasets
    PROVE  /\ Record(k, status, d) \in L2Record /\ FailedRecord(k) \in L2Record
           /\ Record(k, status, d).status = status /\ Record(k, status, d).verify = d
           /\ FailedRecord(k).status = "failed" /\ FailedRecord(k).verify = Unreadable
<1>1. source_rows(k[1], l2w.n_rows) \in Nat
  BY FormatBenchAssumption DEF L2Typed, source_rows
<1> QED BY <1>1, L2Idle DEF Record, FailedRecord, L2Record

(* One more task is done, and recorded.                                    *)
LEMMA AppendedType ==
    ASSUME L2Typed, l2w.todo # <<>>, NEW rec \in L2Record, l2w' = Appended(l2task, rec)
    PROVE  /\ l2w' \in [pc : {"none", "write", "verify", "open", "dump"}, run_id : L2RunIds, n_rows : Nat,
                        todo : Seq(L2Tasks), records : [L2Tasks -> L2Record]]
           /\ l2w'.pc \in {"write", "open"} /\ (l2w'.pc = "write" => l2w'.todo # <<>>)
           /\ l2w'.run_id = l2w.run_id /\ l2w'.records = [l2w.records EXCEPT ![l2task] = rec]
<1>1. l2task \in L2Tasks /\ Tail(l2w.todo) \in Seq(L2Tasks)
  BY NextTasks
<1>2. l2w' = [l2w EXCEPT !.pc = IF Tail(l2w.todo) = <<>> THEN "open" ELSE "write",
                         !.todo = Tail(l2w.todo), !.records = [l2w.records EXCEPT ![l2task] = rec]]
  BY DEF Appended
<1>3. l2w \in [pc : {"none", "write", "verify", "open", "dump"}, run_id : L2RunIds, n_rows : Nat,
               todo : Seq(L2Tasks), records : [L2Tasks -> L2Record]]
  BY DEF L2Typed
<1> DEFINE pc      == IF Tail(l2w.todo) = <<>> THEN "open" ELSE "write"
           records == [l2w.records EXCEPT ![l2task] = rec]
<1>4. pc \in {"write", "open"} /\ (pc = "write" => Tail(l2w.todo) # <<>>)
  OBVIOUS
<1>5. records \in [L2Tasks -> L2Record]
  BY <1>3
<1>6. l2w' = [pc |-> pc, run_id |-> l2w.run_id, n_rows |-> l2w.n_rows, todo |-> Tail(l2w.todo),
              records |-> records]
  BY <1>2, <1>3
<1> HIDE DEF pc
<1>7. l2w.run_id \in L2RunIds /\ l2w.n_rows \in Nat
  BY <1>3
<1> HIDE DEF records
<1>8. /\ l2w'.pc = pc /\ l2w'.todo = Tail(l2w.todo) /\ l2w'.run_id = l2w.run_id
      /\ l2w'.records = records
  BY <1>6
<1>9. l2w' \in [pc : {"none", "write", "verify", "open", "dump"}, run_id : L2RunIds, n_rows : Nat,
                todo : Seq(L2Tasks), records : [L2Tasks -> L2Record]]
  BY <1>1, <1>4, <1>5, <1>6, <1>7
<1> QED BY <1>4, <1>8, <1>9 DEF records

(* What a write that raises leaves is a dataset, in Lance the old or the   *)
(* new one.                                                                *)
LEMMA FailureType ==
    ASSUME NEW k, NEW old \in L2Datasets, NEW new \in L2Datasets, NEW c \in AfterFailure(k, old, new)
    PROVE  c \in L2Datasets /\ (IsLance(k) => c \in {old, new})
<1>1. \A n \in Nat, v \in Nat : Dataset(n, v) \in L2Datasets
  BY DEF Dataset, L2Datasets
<1>2. \A n \in 1 .. new.rows : n \in Nat
  BY DEF L2Datasets
<1>3. CASE IsLance(k)
  <2>1. writer_mode(k) # "spark"
    BY <1>3 DEF writer_mode
  <2>2. c \in {old, new}
    BY <1>3, <2>1 DEF AfterFailure
  <2> QED BY <2>2
<1>4. CASE ~IsLance(k) /\ writer_mode(k) = "spark"
  <2>1. c \in {old, Unreadable, new} \cup {Dataset(i, 0) : i \in 1 .. new.rows}
    BY <1>4 DEF AfterFailure
  <2> QED BY <1>1, <1>2, <1>4, <2>1, L2Idle
<1>5. CASE ~IsLance(k) /\ writer_mode(k) # "spark"
  <2>1. c \in {old, Unreadable, new}
    BY <1>5 DEF AfterFailure
  <2> QED BY <1>5, <2>1, L2Idle
<1> QED BY <1>3, <1>4, <1>5

(* A write puts a dataset at the place of the task; in Lance it leaves     *)
(* what was there or makes a further version.                              *)
LEMMA WriteEffect ==
    ASSUME L2Typed, WriteDataset
    PROVE  /\ l2w.pc = "write" /\ l2w.todo # <<>> /\ l2place \in L2Places /\ l2task \in L2Tasks
           /\ \E c \in L2Datasets :
                 /\ l2s3' = [l2s3 EXCEPT ![l2place] = c]
                 /\ IsLance(l2task) => c = l2s3[l2place] \/ c.version = l2s3[l2place].version + 1
           /\ \/ l2w' = [l2w EXCEPT !.pc = "verify"]
              \/ l2w' = Appended(l2task, FailedRecord(l2task))
           /\ l2since' = l2since \cup {l2place}
           /\ UNCHANGED <<l2manifest, l2out, l2m, l2writes, l2reads>>
<1> DEFINE old == l2s3[l2place]
           new == Dataset(source_rows(l2task[1], l2w.n_rows), IF IsLance(l2task) THEN old.version + 1 ELSE 0)
<1>1. /\ l2w.pc = "write" /\ l2since' = l2since \cup {l2place}
      /\ UNCHANGED <<l2manifest, l2out, l2m, l2writes, l2reads>>
      /\ \/ /\ \E c \in {new, old} : l2s3' = [l2s3 EXCEPT ![l2place] = c]
            /\ l2w' = [l2w EXCEPT !.pc = "verify"]
         \/ /\ \E c \in AfterFailure(l2task, old, new) : l2s3' = [l2s3 EXCEPT ![l2place] = c]
            /\ l2w' = Appended(l2task, FailedRecord(l2task))
  BY DEF WriteDataset
<1>2. l2w.todo # <<>>
  BY <1>1 DEF L2Typed
<1>3. l2place \in L2Places /\ l2task \in L2Tasks /\ old \in L2Datasets /\ l2w.n_rows \in Nat
  BY <1>2, NextTasks DEF L2Typed
<1>4. new \in L2Datasets /\ (IsLance(l2task) => new.version = old.version + 1)
  <2>1. source_rows(l2task[1], l2w.n_rows) \in Nat
    BY <1>3, FormatBenchAssumption DEF source_rows
  <2>2. old.version \in Nat
    BY <1>3 DEF L2Datasets
  <2> HIDE DEF old
  <2> QED BY <2>1, <2>2 DEF Dataset, L2Datasets
<1> HIDE DEF old, new
<1>5. \A c \in AfterFailure(l2task, old, new) : c \in L2Datasets /\ (IsLance(l2task) => c \in {old, new})
  BY <1>3, <1>4, FailureType
<1>6. \E c \in L2Datasets :
         /\ l2s3' = [l2s3 EXCEPT ![l2place] = c]
         /\ IsLance(l2task) => c = old \/ c.version = old.version + 1
  BY <1>1, <1>3, <1>4, <1>5
<1> QED BY <1>1, <1>2, <1>3, <1>6 DEF old

(* A result is recorded, and the next task begun.                          *)
LEMMA ResultType ==
    ASSUME L2Typed, l2m.todo # <<>>, NEW status \in {"measured", "error"}, NEW d \in L2Datasets,
           NEW taken \in Nat, l2m' = Result(status, d, taken)
    PROVE  /\ l2m' \in [pc : {"none", "measure", "scan", "open", "dump"}, manifest : Manifests,
                        todo : Seq(L2Tasks), handle : L2Datasets, records : [L2Tasks -> L2Result]]
           /\ l2m'.pc \in {"measure", "open"} /\ (l2m'.pc = "measure" => l2m'.todo # <<>>)
           /\ l2m'.manifest = l2m.manifest
           /\ l2m'.records = [l2m.records EXCEPT ![Head(l2m.todo)] =
                                 [status |-> status, record |-> l2rec, scanned |-> d, taken |-> taken]]
<1> DEFINE res == [status |-> status, record |-> l2rec, scanned |-> d, taken |-> taken]
<1>1. Head(l2m.todo) \in L2Tasks /\ Tail(l2m.todo) \in Seq(L2Tasks) /\ l2rec \in L2Record
  BY NextTasks
<1>2. res \in L2Result
  BY <1>1 DEF L2Result
<1>3. l2m' = [l2m EXCEPT !.pc = IF Tail(l2m.todo) = <<>> THEN "open" ELSE "measure",
                         !.todo = Tail(l2m.todo), !.handle = Unreadable,
                         !.records = [l2m.records EXCEPT ![Head(l2m.todo)] = res]]
  BY DEF Result
<1> HIDE DEF res
<1>4. l2m \in [pc : {"none", "measure", "scan", "open", "dump"}, manifest : Manifests,
               todo : Seq(L2Tasks), handle : L2Datasets, records : [L2Tasks -> L2Result]]
  BY DEF L2Typed
<1>5. l2m' \in [pc : {"none", "measure", "scan", "open", "dump"}, manifest : Manifests,
                todo : Seq(L2Tasks), handle : L2Datasets, records : [L2Tasks -> L2Result]]
  <2> DEFINE pc      == IF Tail(l2m.todo) = <<>> THEN "open" ELSE "measure"
             records == [l2m.records EXCEPT ![Head(l2m.todo)] = res]
  <2>1. pc \in {"measure", "open"}
    OBVIOUS
  <2>2. records \in [L2Tasks -> L2Result]
    BY <1>2, <1>4
  <2>3. l2m' = [pc |-> pc, manifest |-> l2m.manifest, todo |-> Tail(l2m.todo), handle |-> Unreadable,
                records |-> records]
    BY <1>3, <1>4
  <2>4. l2m.manifest \in Manifests
    BY <1>4
  <2> HIDE DEF pc, records
  <2> QED BY <1>1, <2>1, <2>2, <2>3, <2>4, L2Idle
<1>6. /\ l2m'.pc \in {"measure", "open"} /\ (l2m'.pc = "measure" => l2m'.todo # <<>>)
      /\ l2m'.manifest = l2m.manifest
      /\ l2m'.records = [l2m.records EXCEPT ![Head(l2m.todo)] = res]
  BY <1>3, <1>4
<1> QED BY <1>5, <1>6 DEF res

(* The writer that is started has tasks to do.                             *)
LEMMA WriterStarts ==
    ASSUME WriterStart
    PROVE  /\ l2w.pc = "none" /\ l2w'.pc = "write" /\ l2w'.todo # <<>>
           /\ l2w' \in [pc : {"none", "write", "verify", "open", "dump"}, run_id : L2RunIds, n_rows : Nat,
                        todo : Seq(L2Tasks), records : [L2Tasks -> L2Record]]
           /\ l2w'.records = L2NoRecords /\ IsInjective(l2w'.todo)
           /\ l2writes < L2MaxWrites /\ l2writes' = l2writes + 1
           /\ UNCHANGED <<l2s3, l2manifest, l2out, l2m, l2reads, l2since>>
<1>1. PICK ws \in SUBSET ToSet(L2Workloads), fs \in SUBSET ToSet(L2Formats),
           r \in L2RunIds, n \in L2Sizes :
         /\ plan_tasks(Kept(L2Workloads, ws), Kept(L2Formats, fs)) # <<>>
         /\ l2w' = [WriterIdle EXCEPT !.pc = "write", !.run_id = r, !.n_rows = n,
                        !.todo = plan_tasks(Kept(L2Workloads, ws), Kept(L2Formats, fs))]
  BY Zenon DEF WriterStart
<1> DEFINE tasks == plan_tasks(Kept(L2Workloads, ws), Kept(L2Formats, fs))
<1>2. /\ tasks \in Seq(L2Tasks) /\ tasks # <<>> /\ IsInjective(tasks)
      /\ n \in Nat /\ r \in L2RunIds
  BY <1>1, TasksType, TasksInjective, FormatBenchAssumption
<1>3. l2w' = [pc |-> "write", run_id |-> r, n_rows |-> n, todo |-> tasks, records |-> L2NoRecords]
  BY <1>1 DEF WriterIdle
<1> HIDE DEF tasks
<1>4. /\ l2w.pc = "none" /\ l2writes < L2MaxWrites /\ l2writes' = l2writes + 1
      /\ UNCHANGED <<l2s3, l2manifest, l2out, l2m, l2reads, l2since>>
  BY Zenon DEF WriterStart
<1> QED BY <1>2, <1>3, <1>4, L2Idle

(* The measurements begin with the manifest as it was saved; none is made. *)
LEMMA MeasureStarts ==
    ASSUME L2Typed, MeasureStart
    PROVE  /\ l2m'.pc \in {"open", "measure"} /\ (l2m'.pc = "measure" <=> l2m'.todo # <<>>)
           /\ l2reads < L2MaxReads /\ l2reads' = l2reads + 1
           /\ l2m'.manifest = l2manifest
           /\ l2m' \in [pc : {"none", "measure", "scan", "open", "dump"}, manifest : Manifests,
                        todo : Seq(L2Tasks), handle : L2Datasets, records : [L2Tasks -> L2Result]]
           /\ \A k \in L2Tasks : /\ l2m'.records[k].status # "measured"
                                 /\ l2m'.records[k].scanned = Unreadable
                                 /\ l2m'.records[k].record \in {L2NoRecord, l2manifest.records[k]}
           /\ UNCHANGED <<l2s3, l2manifest, l2out, l2w, l2writes, l2since>>
<1> DEFINE Todo(ws, fs) == Kept(L2AllTasks, {k \in ws \X fs : l2manifest.records[k].status = "ok"})
           res(k) == IF l2manifest.records[k].status = "failed"
                       THEN [L2NoResult EXCEPT !.status = "skipped", !.record = l2manifest.records[k]]
                       ELSE L2NoResult
           records == [k \in L2Tasks |-> res(k)]
<1>1. PICK ws, fs :
         l2m' = [pc |-> IF Todo(ws, fs) = <<>> THEN "open" ELSE "measure", manifest |-> l2manifest,
                 todo |-> Todo(ws, fs), handle |-> Unreadable, records |-> records]
  BY Zenon DEF MeasureStart
<1>2. Todo(ws, fs) \in Seq(L2Tasks)
  BY TasksType
<1>3. ASSUME NEW k \in L2Tasks
      PROVE  /\ res(k) \in L2Result /\ res(k).status # "measured" /\ res(k).scanned = Unreadable
             /\ res(k).record \in {L2NoRecord, l2manifest.records[k]}
  <2>1. l2manifest.records[k] \in L2Record
    BY DEF L2Typed, Manifests
  <2>2. CASE l2manifest.records[k].status = "failed"
    <3>1. res(k) = [status |-> "skipped", record |-> l2manifest.records[k], scanned |-> Unreadable,
                    taken |-> 0]
      BY <2>2 DEF L2NoResult
    <3> HIDE DEF res
    <3> QED BY <2>1, <3>1, L2Idle DEF L2Result
  <2>3. CASE l2manifest.records[k].status # "failed"
    <3>1. res(k) = L2NoResult
      BY <2>3
    <3> HIDE DEF res
    <3>2. L2NoResult.status = "absent" /\ L2NoResult.scanned = Unreadable /\ L2NoResult.record = L2NoRecord
      BY DEF L2NoResult
    <3> QED BY <3>1, <3>2, L2Idle
  <2> QED BY <2>2, <2>3
<1> HIDE DEF Todo, res
<1>4. records \in [L2Tasks -> L2Result]
  BY <1>3
<1> HIDE DEF records
<1>5. l2manifest \in Manifests
  BY DEF L2Typed
<1>6. /\ l2m' \in [pc : {"none", "measure", "scan", "open", "dump"}, manifest : Manifests,
                   todo : Seq(L2Tasks), handle : L2Datasets, records : [L2Tasks -> L2Result]]
      /\ l2m'.pc \in {"open", "measure"} /\ (l2m'.pc = "measure" <=> l2m'.todo # <<>>)
      /\ l2m'.manifest = l2manifest /\ l2m'.records = records
  BY <1>1, <1>2, <1>4, <1>5, L2Idle
<1>7. /\ l2reads < L2MaxReads /\ l2reads' = l2reads + 1
      /\ UNCHANGED <<l2s3, l2manifest, l2out, l2w, l2writes, l2since>>
  BY Zenon DEF MeasureStart
<1> QED BY <1>3, <1>6, <1>7 DEF records

(* What a scan records: of a Lance dataset, what was opened.               *)
LEMMA ScanEffect ==
    ASSUME L2Typed, MeasureScan
    PROVE  /\ l2m.pc = "scan" /\ l2m.todo # <<>>
           /\ \E status \in {"measured", "error"}, d \in L2Datasets, n \in Nat :
                 /\ l2m' = Result(status, d, n)
                 /\ status = "error" => d = Unreadable
                 /\ status = "measured" /\ IsLance(Head(l2m.todo)) =>
                      /\ d = l2m.handle
                      /\ Head(l2m.todo)[1] \in PointTakes => n = TakeN(Head(l2m.todo)[1], l2rec.n_rows)
           /\ UNCHANGED <<l2s3, l2manifest, l2out, l2w, l2writes, l2reads, l2since>>
<1>1. l2m.pc = "scan" /\ UNCHANGED <<l2s3, l2manifest, l2out, l2w, l2writes, l2reads, l2since>>
  BY DEF MeasureScan
<1>2. l2m.todo # <<>>
  BY <1>1 DEF L2Typed
<1> DEFINE wl == Head(l2m.todo)[1]
           kept(n) == IF wl \in PointTakes THEN n ELSE 0
<1>3. l2m.handle \in L2Datasets /\ l2s3[l2dir] \in L2Datasets /\ TakeN(wl, l2rec.n_rows) \in Nat
  <2>1. l2rec.n_rows \in Nat
    BY <1>2, NextTasks DEF L2Record
  <2>2. l2dir \in L2Places
    BY <1>2, NextTasks
  <2> QED BY <2>1, <2>2, FormatBenchAssumption DEF L2Typed, TakeN
<1>4. CASE IsLance(Head(l2m.todo)) /\ \E n \in lance_take(wl, l2rec.n_rows, l2m.handle) :
                                           l2m' = Measured(l2m.handle, n)
  <2>1. l2m' = Result("measured", l2m.handle, kept(TakeN(wl, l2rec.n_rows)))
    BY <1>4 DEF lance_take, Measured
  <2>2. /\ kept(TakeN(wl, l2rec.n_rows)) \in Nat
        /\ wl \in PointTakes => kept(TakeN(wl, l2rec.n_rows)) = TakeN(wl, l2rec.n_rows)
    BY <1>3
  <2> HIDE DEF kept
  <2> QED BY <1>1, <1>2, <1>3, <2>1, <2>2
<1>5. CASE ~IsLance(Head(l2m.todo)) /\ \E n \in parquet_take(wl, l2rec.n_rows, l2s3[l2dir]) :
                                            l2m' = Measured(l2s3[l2dir], n)
  <2>1. PICK n \in parquet_take(wl, l2rec.n_rows, l2s3[l2dir]) : l2m' = Measured(l2s3[l2dir], n)
    BY <1>5
  <2>2. kept(n) \in Nat /\ l2m' = Result("measured", l2s3[l2dir], kept(n))
    BY <1>3, <2>1 DEF parquet_take, Measured
  <2> HIDE DEF kept
  <2> QED BY <1>1, <1>2, <1>3, <1>5, <2>2
<1>6. CASE l2m' = MeasureError
  <2>1. l2m' = Result("error", Unreadable, 0) /\ 0 \in Nat
    BY <1>6 DEF MeasureError
  <2> QED BY <1>1, <1>2, <2>1, L2Idle
<1> QED BY <1>4, <1>5, <1>6 DEF MeasureScan

(* What opening does: the handle is what is there.                         *)
LEMMA OpenEffect ==
    ASSUME L2Typed, MeasureOpen
    PROVE  /\ l2m.pc = "measure" /\ l2m.todo # <<>> /\ l2s3[l2dir] \in L2Datasets
           /\ \/ l2m' = [l2m EXCEPT !.pc = "scan", !.handle = l2s3[l2dir]]
              \/ l2m' = Result("error", Unreadable, 0)
           /\ UNCHANGED <<l2s3, l2manifest, l2out, l2w, l2writes, l2reads, l2since>>
<1>1. l2m.pc = "measure" /\ l2m.todo # <<>>
  BY DEF MeasureOpen, L2Typed
<1>2. l2dir \in L2Places
  BY <1>1, NextTasks
<1> QED BY <1>1, <1>2 DEF MeasureOpen, MeasureError, L2Typed

(* Every step of the format bench keeps the types.                         *)
LEMMA L2TypedStep == L2Typed /\ [L2Next]_L2Vars => L2Typed'
<1> SUFFICES ASSUME L2Typed, [L2Next]_L2Vars PROVE L2Typed'
  OBVIOUS
<1> DEFINE Writers  == [pc : {"none", "write", "verify", "open", "dump"}, run_id : L2RunIds, n_rows : Nat,
                        todo : Seq(L2Tasks), records : [L2Tasks -> L2Record]]
           Measures == [pc : {"none", "measure", "scan", "open", "dump"}, manifest : Manifests,
                        todo : Seq(L2Tasks), handle : L2Datasets, records : [L2Tasks -> L2Result]]
           Results  == [state : {"saved"}, run_id : L2RunIds, records : [L2Tasks -> L2Result]]
<1>1. /\ l2s3 \in [L2Places -> L2Datasets] /\ l2manifest \in Manifests
      /\ l2w \in Writers /\ (l2w.pc \in {"write", "verify"} => l2w.todo # <<>>)
      /\ l2m \in Measures /\ (l2m.pc \in {"measure", "scan"} => l2m.todo # <<>>)
      /\ l2out.state = "saved" => l2out \in Results
  BY DEF L2Typed
<1>2. SUFFICES /\ l2s3' \in [L2Places -> L2Datasets] /\ l2manifest' \in Manifests
               /\ l2w' \in Writers /\ (l2w'.pc \in {"write", "verify"} => l2w'.todo # <<>>)
               /\ l2m' \in Measures /\ (l2m'.pc \in {"measure", "scan"} => l2m'.todo # <<>>)
               /\ l2out'.state = "saved" => l2out' \in Results
  BY DEF L2Typed
<1>3. WriterIdle \in Writers /\ WriterIdle.pc = "none"
  <2>1. <<>> \in Seq(L2Tasks)
    OBVIOUS
  <2> QED BY <2>1, L2Idle DEF WriterIdle
<1>4. MeasureIdle \in Measures /\ MeasureIdle.pc = "none"
  <2>1. <<>> \in Seq(L2Tasks)
    OBVIOUS
  <2> QED BY <2>1, L2Idle DEF MeasureIdle
<1> HIDE DEF Results
<1>5. CASE WriterStart
  BY <1>1, <1>5, WriterStarts
<1>6. CASE WriteDataset
  <2>1. l2s3' \in [L2Places -> L2Datasets] /\ UNCHANGED <<l2manifest, l2out, l2m>>
    BY <1>1, <1>6, WriteEffect
  <2>2. CASE l2w' = [l2w EXCEPT !.pc = "verify"]
    <3>1. l2w' \in Writers /\ l2w'.todo = l2w.todo /\ l2w.todo # <<>>
      BY <1>1, <1>6, <2>2, WriteEffect
    <3> QED BY <1>1, <2>1, <3>1
  <2>3. CASE l2w' = Appended(l2task, FailedRecord(l2task))
    <3>1. l2w.todo # <<>> /\ FailedRecord(l2task) \in L2Record
      BY <1>6, WriteEffect, RecordType, L2Idle
    <3>2. l2w' \in Writers /\ l2w'.pc \in {"write", "open"} /\ (l2w'.pc = "write" => l2w'.todo # <<>>)
      BY <2>3, <3>1, AppendedType
    <3> QED BY <1>1, <2>1, <3>2
  <2> QED BY <1>6, <2>2, <2>3, WriteEffect
<1>7. CASE verify_written
  <2>1. l2w.pc = "verify" /\ l2w.todo # <<>>
    BY <1>1, <1>7 DEF verify_written
  <2>2. l2task \in L2Tasks /\ l2s3[l2place] \in L2Datasets
    BY <1>1, <2>1, NextTasks
  <2>3. PICK rec \in L2Record : l2w' = Appended(l2task, rec)
    BY <1>7, <2>2, RecordType DEF verify_written
  <2>4. l2w' \in Writers /\ l2w'.pc \in {"write", "open"} /\ (l2w'.pc = "write" => l2w'.todo # <<>>)
    BY <2>1, <2>3, AppendedType
  <2> QED BY <1>1, <1>7, <2>4 DEF verify_written
<1>8. CASE ManifestOpen
  BY <1>1, <1>8, L2Idle DEF ManifestOpen
<1>9. CASE ManifestDump
  <2>1. [state |-> "saved", run_id |-> l2w.run_id, records |-> l2w.records] \in Manifests
    BY <1>1 DEF Manifests
  <2> QED BY <1>1, <1>3, <1>9, <2>1 DEF ManifestDump
<1>10. CASE WriterKilled
  BY <1>1, <1>3, <1>10 DEF WriterKilled
<1>11. CASE MeasureStart
  BY <1>1, <1>11, MeasureStarts
<1>12. CASE MeasureOpen
  <2>1. CASE l2m' = [l2m EXCEPT !.pc = "scan", !.handle = l2s3[l2dir]]
    <3>1. l2m' \in Measures /\ l2m'.todo = l2m.todo /\ l2m.todo # <<>>
      BY <1>1, <1>12, <2>1, OpenEffect
    <3> QED BY <1>1, <1>12, <3>1, OpenEffect
  <2>2. CASE l2m' = Result("error", Unreadable, 0)
    <3>1. l2m' \in Measures /\ l2m'.pc \in {"measure", "open"} /\ (l2m'.pc = "measure" => l2m'.todo # <<>>)
      BY <1>12, <2>2, OpenEffect, ResultType, L2Idle
    <3> QED BY <1>1, <1>12, <3>1, OpenEffect
  <2> QED BY <1>12, <2>1, <2>2, OpenEffect
<1>13. CASE MeasureScan
  <2>1. l2m' \in Measures /\ l2m'.pc \in {"measure", "open"} /\ (l2m'.pc = "measure" => l2m'.todo # <<>>)
    BY <1>13, ScanEffect, ResultType
  <2> QED BY <1>1, <1>13, <2>1, ScanEffect
<1>14. CASE ResultsOpen
  BY <1>1, <1>14, L2Idle DEF ResultsOpen
<1>15. CASE ResultsDump
  <2>1. [state |-> "saved", run_id |-> l2m.manifest.run_id, records |-> l2m.records] \in Results
    BY <1>1 DEF Manifests, Results
  <2> QED BY <1>1, <1>4, <1>15, <2>1 DEF ResultsDump
<1>16. CASE MeasureKilled
  BY <1>1, <1>4, <1>16 DEF MeasureKilled
<1>17. CASE UNCHANGED L2Vars
  BY <1>1, <1>17 DEF L2Vars
<1> QED BY <1>5, <1>6, <1>7, <1>8, <1>9, <1>10, <1>11, <1>12, <1>13, <1>14, <1>15, <1>16, <1>17 DEF L2Next

(* What is recorded as ok stays there, until the place is written again.   *)
LEMMA FoundStep == L2Typed /\ Found /\ [L2Next]_L2Vars => Found'
<1> SUFFICES ASSUME L2Typed, Found, [L2Next]_L2Vars PROVE Found'
  OBVIOUS
<1> DEFINE WriterOk == l2w.pc # "none" =>
             \A k \in L2Tasks : (l2w.pc = "verify" => k # l2task) => Verified(l2w.run_id, l2w.records, k)
           FileOk   == l2manifest.state = "saved" =>
             \A k \in L2Tasks : <<l2manifest.run_id, k>> \notin l2since =>
                 Verified(l2manifest.run_id, l2manifest.records, k)
<1>1. WriterOk /\ FileOk
  BY DEF Found
<1>2. SUFFICES WriterOk' /\ FileOk'
  BY DEF Found
<1>3. /\ l2w.run_id \in L2RunIds /\ l2w.records \in [L2Tasks -> L2Record]
      /\ l2manifest.run_id \in L2RunIds /\ l2s3 \in [L2Places -> L2Datasets]
  BY DEF L2Typed, Manifests
<1>4. \A r \in L2RunIds, k \in L2Tasks : <<r, k>> \in L2Places
  BY DEF L2Places
<1>5. ASSUME UNCHANGED <<l2s3, l2w>> PROVE WriterOk'
  BY <1>1, <1>5 DEF Verified, l2task
<1>6. ASSUME UNCHANGED <<l2s3, l2manifest, l2since>> PROVE FileOk'
  BY <1>1, <1>6 DEF Verified
<1>7. CASE WriterStart
  <2>1. l2w'.records = L2NoRecords /\ \A k \in L2Tasks : L2NoRecords[k].status # "ok"
    BY <1>7, WriterStarts DEF L2NoRecords, L2NoRecord
  <2> QED BY <1>6, <1>7, <2>1, WriterStarts DEF Verified
<1>8. CASE WriteDataset
  <2>1. PICK c : l2s3' = [l2s3 EXCEPT ![l2place] = c]
    BY <1>8, WriteEffect
  <2>2. /\ l2w.pc = "write" /\ l2w.todo # <<>> /\ l2place = <<l2w.run_id, l2task>> /\ l2task \in L2Tasks
        /\ l2since' = l2since \cup {l2place} /\ l2manifest' = l2manifest
        /\ \/ l2w' = [l2w EXCEPT !.pc = "verify"]
           \/ l2w' = Appended(l2task, FailedRecord(l2task))
    BY <1>8, WriteEffect, NextTasks
  <2>3. \A r \in L2RunIds, k \in L2Tasks : <<r, k>> # l2place => l2s3'[<<r, k>>] = l2s3[<<r, k>>]
    BY <1>3, <1>4, <2>1
  <2>4. FileOk'
    BY <1>1, <1>3, <2>2, <2>3 DEF Verified
  <2>5. \A k \in L2Tasks : k # l2task => Verified(l2w.run_id, l2w.records, k)'
    <3> SUFFICES ASSUME NEW k \in L2Tasks, k # l2task, l2w'.records[k].status = "ok"
                 PROVE  l2s3'[<<l2w'.run_id, k>>].readable /\ l2s3'[<<l2w'.run_id, k>>] = l2w'.records[k].verify
      BY DEF Verified
    <3>1. l2w'.run_id = l2w.run_id /\ l2w'.records[k] = l2w.records[k]
      <4>1. CASE l2w' = [l2w EXCEPT !.pc = "verify"]
        BY <4>1 DEF L2Typed
      <4>2. CASE l2w' = Appended(l2task, FailedRecord(l2task))
        <5>1. FailedRecord(l2task) \in L2Record
          BY <2>2, RecordType, L2Idle
        <5> QED BY <1>3, <2>2, <4>2, <5>1, AppendedType
      <4> QED BY <2>2, <4>1, <4>2
    <3>2. <<l2w.run_id, k>> # l2place
      BY <2>2
    <3> QED BY <1>1, <1>3, <2>2, <2>3, <3>1, <3>2 DEF Verified
  <2>6. CASE l2w' = [l2w EXCEPT !.pc = "verify"]
    <3>1. l2w'.pc = "verify" /\ l2task' = l2task
      BY <2>6 DEF L2Typed, l2task
    <3> QED BY <2>4, <2>5, <3>1
  <2>7. CASE l2w' = Appended(l2task, FailedRecord(l2task))
    <3>1. FailedRecord(l2task) \in L2Record /\ FailedRecord(l2task).status = "failed"
      BY <2>2, RecordType, L2Idle
    <3>2. l2w'.records[l2task] = FailedRecord(l2task)
      BY <1>3, <2>2, <2>7, <3>1, AppendedType
    <3>3. \A k \in L2Tasks : Verified(l2w.run_id, l2w.records, k)'
      <4> TAKE k \in L2Tasks
      <4>1. CASE k = l2task
        <5>1. l2w'.records[k].status # "ok"
          BY <3>1, <3>2, <4>1
        <5> QED BY <5>1 DEF Verified
      <4> QED BY <2>5, <4>1
    <3> QED BY <2>4, <3>3
  <2> QED BY <2>2, <2>6, <2>7
<1>9. CASE verify_written
  <2>1. l2w.pc = "verify" /\ l2w.todo # <<>> /\ UNCHANGED <<l2s3, l2manifest, l2since>>
    BY <1>9 DEF verify_written, L2Typed
  <2>2. l2task \in L2Tasks /\ l2place = <<l2w.run_id, l2task>> /\ l2s3[l2place] \in L2Datasets
    BY <1>3, <2>1, NextTasks
  <2>3. PICK rec \in L2Record : /\ l2w' = Appended(l2task, rec)
                                /\ rec.status = "ok" => l2s3[l2place].readable /\ rec.verify = l2s3[l2place]
    BY <1>9, <2>2, RecordType DEF verify_written
  <2>4. l2w'.pc # "verify" /\ l2w'.run_id = l2w.run_id /\ l2w'.records = [l2w.records EXCEPT ![l2task] = rec]
    BY <2>1, <2>3, AppendedType
  <2>5. ASSUME NEW k \in L2Tasks, l2w'.records[k].status = "ok"
        PROVE  l2s3'[<<l2w'.run_id, k>>].readable /\ l2s3'[<<l2w'.run_id, k>>] = l2w'.records[k].verify
    <3>1. CASE k = l2task
      BY <1>3, <2>1, <2>2, <2>3, <2>4, <2>5, <3>1
    <3>2. CASE k # l2task
      <4>1. l2w'.records[k] = l2w.records[k]
        BY <1>3, <2>4, <3>2
      <4> QED BY <1>1, <2>1, <2>4, <2>5, <3>2, <4>1 DEF Verified
    <3> QED BY <3>1, <3>2
  <2> QED BY <1>6, <2>1, <2>5 DEF Verified
<1>10. CASE ManifestOpen
  <2>1. l2w'.pc # "verify" /\ l2w'.run_id = l2w.run_id /\ l2w'.records = l2w.records /\ l2s3' = l2s3
        /\ l2w.pc = "open" /\ l2manifest' = L2TornFile
    BY <1>10 DEF ManifestOpen, L2Typed
  <2> QED BY <1>1, <2>1, L2Idle DEF Verified
<1>11. CASE ManifestDump
  <2>1. /\ l2w.pc = "dump" /\ l2s3' = l2s3 /\ l2w'.pc = "none"
        /\ l2manifest'.run_id = l2w.run_id /\ l2manifest'.records = l2w.records
    BY <1>11 DEF ManifestDump, WriterIdle
  <2> QED BY <1>1, <2>1 DEF Verified
<1>12. CASE WriterKilled
  <2>1. l2w'.pc = "none" /\ UNCHANGED <<l2s3, l2manifest, l2since>>
    BY <1>12 DEF WriterKilled, WriterIdle
  <2> QED BY <1>6, <2>1
<1>13. CASE MeasureStart \/ MeasureOpen \/ MeasureScan \/ ResultsOpen \/ ResultsDump \/ MeasureKilled
            \/ UNCHANGED L2Vars
  <2>1. UNCHANGED <<l2s3, l2manifest, l2w, l2since>>
    BY <1>13 DEF MeasureStart, MeasureOpen, MeasureScan, ResultsOpen, ResultsDump, MeasureKilled, L2Vars
  <2> QED BY <1>5, <1>6, <2>1
<1> QED BY <1>7, <1>8, <1>9, <1>10, <1>11, <1>12, <1>13 DEF L2Next

(* What is remembered are datasets.                                        *)
LEMMA SeenType ==
    ASSUME L2Typed, NEW r \in L2RunIds, NEW k \in L2Tasks
    PROVE  Seen(r, k) \subseteq L2Datasets /\ l2s3[<<r, k>>] \in L2Datasets
<1>1. l2s3[<<r, k>>] \in L2Datasets
  BY DEF L2Typed, L2Places
<1>2. SeenByWriter(r, k) \subseteq L2Datasets
  BY DEF L2Typed, SeenByWriter, L2Record
<1>3. SeenInManifest(r, k) \subseteq L2Datasets
  BY DEF L2Typed, Manifests, SeenInManifest, L2Record
<1>4. SeenByMeasure(r, k) \subseteq L2Datasets
  <2>1. /\ l2m.manifest.records[k] \in L2Record /\ l2m.records[k] \in L2Result /\ l2m.handle \in L2Datasets
    BY DEF L2Typed, Manifests
  <2>2. \A rec \in L2Record : rec.verify \in L2Datasets
    BY DEF L2Record
  <2>3. \A res \in L2Result : res.scanned \in L2Datasets /\ res.record \in L2Record
    BY DEF L2Result
  <2> QED BY <2>1, <2>2, <2>3 DEF SeenByMeasure, Scanned
<1>5. SeenInResults(r, k) \subseteq L2Datasets
  <2>1. \A rec \in L2Record : rec.verify \in L2Datasets
    BY DEF L2Record
  <2>2. \A res \in L2Result : res.scanned \in L2Datasets /\ res.record \in L2Record
    BY DEF L2Result
  <2>3. l2out.state = "saved" => l2out.records[k] \in L2Result
    BY DEF L2Typed
  <2> QED BY <2>1, <2>2, <2>3 DEF SeenInResults, Scanned
<1> QED BY <1>1, <1>2, <1>3, <1>4, <1>5, L2Idle DEF Seen

(* No step remembers anything but what it already did or is there now.     *)
LEMMA SeenGrows ==
    ASSUME L2Typed, [L2Next]_L2Vars, NEW r \in L2RunIds, NEW k \in L2Tasks, IsLance(k)
    PROVE  Seen(r, k)' \subseteq Seen(r, k) \cup {l2s3'[<<r, k>>]}
<1> DEFINE Old == Seen(r, k) \cup {l2s3'[<<r, k>>]}
<1>1. SUFFICES /\ SeenByWriter(r, k)' \subseteq Old /\ SeenInManifest(r, k)' \subseteq Old
               /\ SeenByMeasure(r, k)' \subseteq Old /\ SeenInResults(r, k)' \subseteq Old
  BY DEF Seen
<1>2. /\ Unreadable \in Old /\ SeenByWriter(r, k) \subseteq Old /\ SeenInManifest(r, k) \subseteq Old
      /\ SeenByMeasure(r, k) \subseteq Old /\ SeenInResults(r, k) \subseteq Old
      /\ l2s3[<<r, k>>] \in Old
  BY DEF Seen
<1> HIDE DEF Old
<1>3. UNCHANGED l2w => SeenByWriter(r, k)' \subseteq Old
  BY <1>2 DEF SeenByWriter
<1>4. UNCHANGED l2manifest => SeenInManifest(r, k)' \subseteq Old
  BY <1>2 DEF SeenInManifest
<1>5. UNCHANGED l2m => SeenByMeasure(r, k)' \subseteq Old
  BY <1>2 DEF SeenByMeasure, Scanned
<1>6. UNCHANGED l2out => SeenInResults(r, k)' \subseteq Old
  BY <1>2 DEF SeenInResults, Scanned
<1>7. L2NoRecords[k].verify = Unreadable /\ L2NoRecord.verify = Unreadable
      /\ L2NoResults[k].scanned = Unreadable /\ L2NoResults[k].record.verify = Unreadable
  BY DEF L2NoRecords, L2NoRecord, L2NoResults, L2NoResult
<1>8. ASSUME l2w.todo # <<>>, NEW rec \in L2Record, l2w' = Appended(l2task, rec),
             rec.verify \in {Unreadable, l2s3[l2place]}
      PROVE  SeenByWriter(r, k)' \subseteq Old
  <2>1. /\ l2w'.run_id = l2w.run_id /\ l2w'.records = [l2w.records EXCEPT ![l2task] = rec]
        /\ l2w.records \in [L2Tasks -> L2Record]
    BY <1>8, AppendedType DEF L2Typed
  <2>2. CASE k = l2task /\ l2w.run_id = r
    <3>1. l2w'.records[k] = rec /\ l2place = <<r, k>>
      BY <1>8, <2>1, <2>2, NextTasks
    <3> QED BY <1>2, <1>8, <3>1 DEF SeenByWriter
  <2>3. CASE ~(k = l2task /\ l2w.run_id = r)
    <3>1. l2w.run_id = r => l2w'.records[k] = l2w.records[k]
      BY <2>1, <2>3
    <3> QED BY <1>2, <2>1, <3>1 DEF SeenByWriter
  <2> QED BY <2>2, <2>3
<1>9. CASE WriterStart
  <2>1. l2w'.records = L2NoRecords /\ UNCHANGED <<l2manifest, l2m, l2out>>
    BY <1>9, WriterStarts
  <2>2. SeenByWriter(r, k)' \subseteq Old
    BY <1>2, <1>7, <2>1 DEF SeenByWriter
  <2> QED BY <1>4, <1>5, <1>6, <2>1, <2>2
<1>10. CASE WriteDataset
  <2>1. UNCHANGED <<l2manifest, l2m, l2out>> /\ l2w.todo # <<>> /\ l2task \in L2Tasks
    BY <1>10, WriteEffect
  <2>2. CASE l2w' = [l2w EXCEPT !.pc = "verify"]
    <3>1. l2w'.run_id = l2w.run_id /\ l2w'.records = l2w.records
      BY <2>2 DEF L2Typed
    <3>2. SeenByWriter(r, k)' \subseteq Old
      BY <1>2, <3>1 DEF SeenByWriter
    <3> QED BY <1>4, <1>5, <1>6, <2>1, <3>2
  <2>3. CASE l2w' = Appended(l2task, FailedRecord(l2task))
    <3>1. FailedRecord(l2task) \in L2Record /\ FailedRecord(l2task).verify = Unreadable
      BY <2>1, RecordType, L2Idle
    <3> QED BY <1>4, <1>5, <1>6, <1>8, <2>1, <2>3, <3>1
  <2> QED BY <1>10, <2>2, <2>3, WriteEffect
<1>11. CASE verify_written
  <2>1. l2w.todo # <<>> /\ UNCHANGED <<l2manifest, l2m, l2out>>
    BY <1>11 DEF verify_written, L2Typed
  <2>2. l2task \in L2Tasks /\ l2s3[l2place] \in L2Datasets
    BY <2>1, NextTasks DEF L2Typed
  <2>3. PICK rec \in L2Record : l2w' = Appended(l2task, rec) /\ rec.verify \in {Unreadable, l2s3[l2place]}
    BY <1>11, <2>2, RecordType DEF verify_written
  <2> QED BY <1>4, <1>5, <1>6, <1>8, <2>1, <2>3
<1>12. CASE ManifestOpen
  <2>1. /\ l2w'.run_id = l2w.run_id /\ l2w'.records = l2w.records
        /\ l2manifest'.records = L2NoRecords /\ UNCHANGED <<l2m, l2out>>
    BY <1>12, L2Idle DEF ManifestOpen, L2Typed
  <2> QED BY <1>2, <1>5, <1>6, <1>7, <2>1 DEF SeenByWriter, SeenInManifest
<1>13. CASE ManifestDump
  <2>1. /\ l2manifest'.run_id = l2w.run_id /\ l2manifest'.records = l2w.records
        /\ l2w'.records = L2NoRecords /\ UNCHANGED <<l2m, l2out>>
    BY <1>13 DEF ManifestDump, WriterIdle
  <2> QED BY <1>2, <1>5, <1>6, <1>7, <2>1 DEF SeenByWriter, SeenInManifest
<1>14. CASE WriterKilled
  <2>1. l2w'.records = L2NoRecords /\ UNCHANGED <<l2manifest, l2m, l2out>>
    BY <1>14 DEF WriterKilled, WriterIdle
  <2> QED BY <1>2, <1>4, <1>5, <1>6, <1>7, <2>1 DEF SeenByWriter
<1>15. CASE MeasureStart
  <2>1. /\ l2m'.pc # "scan" /\ l2m'.manifest = l2manifest
        /\ l2m'.records[k].scanned = Unreadable
        /\ l2m'.records[k].record \in {L2NoRecord, l2manifest.records[k]}
        /\ UNCHANGED <<l2w, l2manifest, l2out>>
    BY <1>15, MeasureStarts
  <2>2. l2manifest.run_id = r => l2manifest.records[k].verify \in Old
    BY <1>2 DEF SeenInManifest
  <2>3. SeenByMeasure(r, k)' \subseteq Old
    BY <1>2, <1>7, <2>1, <2>2 DEF SeenByMeasure, Scanned
  <2> QED BY <1>3, <1>4, <1>6, <2>1, <2>3
<1>16. ASSUME l2m.todo # <<>>, NEW status \in {"measured", "error"}, NEW d \in L2Datasets, NEW n \in Nat,
              l2m' = Result(status, d, n),
              k = Head(l2m.todo) /\ l2m.manifest.run_id = r => d \in Old
       PROVE  SeenByMeasure(r, k)' \subseteq Old
  <2> DEFINE res == [status |-> status, record |-> l2rec, scanned |-> d, taken |-> n]
  <2>1. /\ l2m'.pc # "scan" /\ l2m'.manifest = l2m.manifest
        /\ l2m'.records = [l2m.records EXCEPT ![Head(l2m.todo)] = res]
        /\ l2m.records \in [L2Tasks -> L2Result]
    BY <1>16, ResultType DEF L2Typed
  <2>2. res.scanned = d /\ res.record = l2rec
    OBVIOUS
  <2> HIDE DEF res
  <2>3. CASE l2m.manifest.run_id # r
    BY <2>1, <2>3 DEF SeenByMeasure
  <2>4. CASE l2m.manifest.run_id = r /\ k = Head(l2m.todo)
    <3>1. l2m'.records[k] = res /\ l2rec = l2m.manifest.records[k]
      BY <2>1, <2>4 DEF l2rec
    <3>2. l2m.manifest.records[k].verify \in Old
      BY <1>2, <2>4 DEF SeenByMeasure
    <3> QED BY <1>16, <2>1, <2>2, <2>4, <3>1, <3>2 DEF SeenByMeasure, Scanned
  <2>5. CASE l2m.manifest.run_id = r /\ k # Head(l2m.todo)
    <3>1. l2m'.records[k] = l2m.records[k]
      BY <2>1, <2>5
    <3> QED BY <1>2, <2>1, <2>5, <3>1 DEF SeenByMeasure, Scanned
  <2> QED BY <2>3, <2>4, <2>5
<1>17. CASE MeasureOpen
  <2>1. UNCHANGED <<l2w, l2manifest, l2out>> /\ l2m.todo # <<>>
    BY <1>17, OpenEffect
  <2>2. CASE l2m' = Result("error", Unreadable, 0)
    BY <1>2, <1>3, <1>4, <1>6, <1>16, <2>1, <2>2, L2Idle
  <2>3. CASE l2m' = [l2m EXCEPT !.pc = "scan", !.handle = l2s3[l2dir]]
    <3>1. /\ l2m'.manifest = l2m.manifest /\ l2m'.records = l2m.records /\ l2m'.todo = l2m.todo
          /\ l2m'.handle = l2s3[l2dir] /\ l2dir = <<l2m.manifest.run_id, Head(l2m.todo)>>
      BY <2>1, <2>3, NextTasks DEF L2Typed
    <3>2. SeenByMeasure(r, k)' \subseteq Old
      BY <1>2, <3>1 DEF SeenByMeasure, Scanned
    <3> QED BY <1>3, <1>4, <1>6, <2>1, <3>2
  <2> QED BY <1>17, <2>2, <2>3, OpenEffect
<1>18. CASE MeasureScan
  <2>1. UNCHANGED <<l2w, l2manifest, l2out>> /\ l2m.todo # <<>> /\ l2m.pc = "scan"
    BY <1>18, ScanEffect
  <2>2. PICK status \in {"measured", "error"}, d \in L2Datasets, n \in Nat :
          /\ l2m' = Result(status, d, n)
          /\ status = "error" => d = Unreadable
          /\ status = "measured" /\ IsLance(Head(l2m.todo)) => d = l2m.handle
    BY <1>18, ScanEffect
  <2>3. k = Head(l2m.todo) /\ l2m.manifest.run_id = r => d \in Old
    BY <1>2, <2>1, <2>2 DEF SeenByMeasure
  <2> QED BY <1>3, <1>4, <1>6, <1>16, <2>1, <2>2, <2>3
<1>19. CASE ResultsOpen
  <2>1. /\ l2m'.manifest = l2m.manifest /\ l2m'.records = l2m.records /\ l2m'.pc # "scan"
        /\ l2out'.state # "saved" /\ UNCHANGED <<l2w, l2manifest>>
    BY <1>19, L2Idle DEF ResultsOpen, L2Typed
  <2> QED BY <1>2, <1>3, <1>4, <2>1 DEF SeenByMeasure, SeenInResults, Scanned
<1>20. CASE ResultsDump
  <2>1. /\ l2out'.run_id = l2m.manifest.run_id /\ l2out'.records = l2m.records
        /\ l2m' = MeasureIdle /\ UNCHANGED <<l2w, l2manifest>>
    BY <1>20 DEF ResultsDump
  <2>2. l2m'.pc # "scan" /\ l2m'.manifest = L2NoFile /\ l2m'.records = L2NoResults
    BY <2>1 DEF MeasureIdle
  <2>3. L2NoFile.records = L2NoRecords
    BY DEF L2NoFile
  <2>4. SeenByMeasure(r, k)' \subseteq Old
    BY <1>2, <1>7, <2>2, <2>3 DEF SeenByMeasure, Scanned
  <2>5. SeenInResults(r, k)' \subseteq Old
    BY <1>2, <2>1 DEF SeenInResults, SeenByMeasure, Scanned
  <2> QED BY <1>3, <1>4, <2>1, <2>4, <2>5
<1>21. CASE MeasureKilled
  <2>1. l2m' = MeasureIdle /\ UNCHANGED <<l2w, l2manifest, l2out>>
    BY <1>21 DEF MeasureKilled
  <2>2. l2m'.pc # "scan" /\ l2m'.manifest = L2NoFile /\ l2m'.records = L2NoResults
    BY <2>1 DEF MeasureIdle
  <2>3. L2NoFile.records = L2NoRecords
    BY DEF L2NoFile
  <2> QED BY <1>2, <1>3, <1>4, <1>6, <1>7, <2>1, <2>2, <2>3 DEF SeenByMeasure, Scanned
<1>22. CASE UNCHANGED L2Vars
  BY <1>3, <1>4, <1>5, <1>6, <1>22 DEF L2Vars
<1> QED BY <1>9, <1>10, <1>11, <1>12, <1>13, <1>14, <1>15, <1>17, <1>18, <1>19, <1>20, <1>21, <1>22 DEF L2Next

(* A Lance dataset is left alone or gets a further version.                *)
LEMMA LanceGrows ==
    ASSUME L2Typed, [L2Next]_L2Vars, NEW r \in L2RunIds, NEW k \in L2Tasks, IsLance(k)
    PROVE  \/ l2s3'[<<r, k>>] = l2s3[<<r, k>>]
           \/ l2s3'[<<r, k>>].version = l2s3[<<r, k>>].version + 1
<1>1. CASE WriteDataset
  <2>1. PICK c \in L2Datasets :
          /\ l2s3' = [l2s3 EXCEPT ![l2place] = c]
          /\ IsLance(l2task) => c = l2s3[l2place] \/ c.version = l2s3[l2place].version + 1
    BY <1>1, WriteEffect
  <2>2. l2place = <<l2w.run_id, l2task>>
    BY DEF l2place
  <2>3. <<r, k>> \in L2Places /\ l2s3 \in [L2Places -> L2Datasets]
    BY DEF L2Places, L2Typed
  <2>4. CASE <<r, k>> = l2place
    BY <2>1, <2>2, <2>3, <2>4
  <2>5. CASE <<r, k>> # l2place
    BY <2>1, <2>3, <2>5
  <2> QED BY <2>4, <2>5
<1>2. CASE ~WriteDataset
  <2>1. CASE WriterStart
    BY <2>1, WriterStarts
  <2>2. CASE MeasureStart
    BY <2>2, MeasureStarts
  <2> QED BY <1>2, <2>1, <2>2 DEF L2Next, L2Vars, verify_written, ManifestOpen, ManifestDump, WriterKilled,
             MeasureOpen, MeasureScan, ResultsOpen, ResultsDump, MeasureKilled
<1> QED BY <1>1, <1>2

(* So a version, wherever it is remembered, has the rows it has.           *)
LEMMA VersionedStep == L2Typed /\ Versioned /\ [L2Next]_L2Vars => Versioned'
<1> SUFFICES ASSUME L2Typed, Versioned, [L2Next]_L2Vars, NEW r \in L2RunIds, NEW k \in L2Tasks, IsLance(k)
             PROVE  Agree(Seen(r, k)', l2s3'[<<r, k>>])
  BY DEF Versioned, Agree
<1> DEFINE old  == l2s3[<<r, k>>]
           new  == l2s3'[<<r, k>>]
           seen == Seen(r, k)
           more == Seen(r, k)'
<1>1. more \subseteq seen \cup {new} /\ seen \subseteq L2Datasets /\ old \in L2Datasets
  BY SeenGrows, SeenType
<1>2. new = old \/ new.version = old.version + 1
  BY LanceGrows
<1>3. Agree(seen, old) /\ old \in seen
  BY DEF Versioned, Seen
<1> HIDE DEF old, new, seen, more
<1>4. \A d \in seen \cup {old} : d.version \in Nat
  BY <1>1 DEF L2Datasets
<1>5. Agree(seen \cup {new}, new)
  BY <1>2, <1>3, <1>4 DEF Agree
<1>6. Agree(more, new)
  BY <1>1, <1>5 DEF Agree
<1> QED BY <1>6 DEF more, new

(* A Lance dataset gives the rows asked for, or an error.                  *)
LEMMA MeasurementsStep == L2Typed /\ Measurements /\ [L2Next]_L2Vars => Measurements'
<1> SUFFICES ASSUME L2Typed, Measurements, [L2Next]_L2Vars PROVE Measurements'
  OBVIOUS
<1>1. \A records : Taken(records)' = Taken(records)
  BY DEF Taken, TakeN, PointTakes, IsLance, L2Tasks
<1>2. Taken(L2NoResults)
  BY DEF Taken, L2NoResults, L2NoResult
<1>3. ASSUME l2m.todo # <<>>, NEW status \in {"measured", "error"}, NEW d \in L2Datasets, NEW n \in Nat,
             l2m' = Result(status, d, n), UNCHANGED l2out,
             status = "measured" /\ IsLance(Head(l2m.todo)) /\ Head(l2m.todo)[1] \in PointTakes =>
                n = TakeN(Head(l2m.todo)[1], l2rec.n_rows)
      PROVE  Measurements'
  <2> DEFINE res == [status |-> status, record |-> l2rec, scanned |-> d, taken |-> n]
  <2>1. l2m'.records = [l2m.records EXCEPT ![Head(l2m.todo)] = res] /\ l2m.records \in [L2Tasks -> L2Result]
    BY <1>3, ResultType DEF L2Typed
  <2>2. res.status = status /\ res.record = l2rec /\ res.taken = n
    OBVIOUS
  <2> HIDE DEF res
  <2>3. Taken(l2m'.records)
    BY <1>3, <2>1, <2>2 DEF Measurements, Taken
  <2> QED BY <1>1, <1>3, <2>3 DEF Measurements
<1>4. CASE MeasureStart
  <2>1. (\A k \in L2Tasks : l2m'.records[k].status # "measured") /\ UNCHANGED l2out
    BY <1>4, MeasureStarts
  <2>2. Taken(l2m'.records)
    BY <2>1 DEF Taken
  <2> QED BY <1>1, <2>1, <2>2 DEF Measurements
<1>5. CASE MeasureOpen
  <2>1. CASE l2m' = Result("error", Unreadable, 0)
    <3>1. 0 \in Nat /\ Unreadable \in L2Datasets /\ l2m.todo # <<>> /\ UNCHANGED l2out
      BY <1>5, OpenEffect, L2Idle
    <3> QED BY <1>3, <2>1, <3>1
  <2>2. CASE l2m' = [l2m EXCEPT !.pc = "scan", !.handle = l2s3[l2dir]]
    <3>1. l2m'.records = l2m.records /\ UNCHANGED l2out
      BY <1>5, <2>2, OpenEffect DEF L2Typed
    <3> QED BY <1>1, <3>1 DEF Measurements
  <2> QED BY <1>5, <2>1, <2>2, OpenEffect
<1>6. CASE MeasureScan
  BY <1>3, <1>6, ScanEffect
<1>7. CASE ResultsOpen
  <2>1. l2m'.records = l2m.records /\ l2out'.state # "saved"
    BY <1>7, L2Idle DEF ResultsOpen, L2Typed
  <2> QED BY <1>1, <2>1 DEF Measurements
<1>8. CASE ResultsDump
  <2>1. l2m'.records = L2NoResults /\ l2out'.records = l2m.records
    BY <1>8 DEF ResultsDump, MeasureIdle
  <2> QED BY <1>1, <1>2, <2>1 DEF Measurements
<1>9. CASE MeasureKilled
  <2>1. l2m'.records = L2NoResults /\ UNCHANGED l2out
    BY <1>9 DEF MeasureKilled, MeasureIdle
  <2> QED BY <1>1, <1>2, <2>1 DEF Measurements
<1>10. CASE WriterStart \/ WriteDataset \/ verify_written \/ ManifestOpen \/ ManifestDump \/ WriterKilled
            \/ UNCHANGED L2Vars
  <2>1. UNCHANGED <<l2m, l2out>>
    BY <1>10, WriterStarts, WriteEffect
       DEF verify_written, ManifestOpen, ManifestDump, WriterKilled, L2Vars
  <2> QED BY <1>1, <2>1 DEF Measurements
<1> QED BY <1>4, <1>5, <1>6, <1>7, <1>8, <1>9, <1>10 DEF L2Next

(* The invariant holds at first.                                           *)
LEMMA L2InitInv == L2Init => L2Inv
<1> SUFFICES ASSUME L2Init PROVE L2Inv
  OBVIOUS
<1>1. /\ l2s3 = [p \in L2Places |-> Unreadable] /\ l2manifest = L2NoFile /\ l2out = L2NoFile
      /\ l2w = WriterIdle /\ l2m = MeasureIdle
  BY DEF L2Init
<1>2. <<>> \in Seq(L2Tasks) /\ 0 \in Nat
  OBVIOUS
<1>3. L2Typed
  <2>1. l2s3 \in [L2Places -> L2Datasets]
    BY <1>1, L2Idle
  <2>2. WriterIdle \in [pc : {"none", "write", "verify", "open", "dump"}, run_id : L2RunIds, n_rows : Nat,
                        todo : Seq(L2Tasks), records : [L2Tasks -> L2Record]]
        /\ WriterIdle.pc = "none"
    BY <1>2, L2Idle DEF WriterIdle
  <2>3. MeasureIdle \in [pc : {"none", "measure", "scan", "open", "dump"}, manifest : Manifests,
                         todo : Seq(L2Tasks), handle : L2Datasets, records : [L2Tasks -> L2Result]]
        /\ MeasureIdle.pc = "none"
    BY <1>2, L2Idle DEF MeasureIdle
  <2> QED BY <1>1, <2>1, <2>2, <2>3, L2Idle DEF L2Typed
<1>4. Found
  BY <1>1, L2Idle DEF Found, WriterIdle
<1>5. Versioned
  <2> SUFFICES ASSUME NEW r \in L2RunIds, NEW k \in L2Tasks
               PROVE  Agree(Seen(r, k), l2s3[<<r, k>>])
    BY DEF Versioned
  <2>1. l2s3[<<r, k>>] = Unreadable
    BY <1>1 DEF L2Places
  <2>2. /\ l2w.records[k].verify = Unreadable /\ l2manifest.records[k].verify = Unreadable
        /\ l2m.manifest.records[k].verify = Unreadable /\ l2m.records[k].scanned = Unreadable
        /\ l2m.records[k].record.verify = Unreadable
    BY <1>1 DEF WriterIdle, MeasureIdle, L2NoFile, L2NoRecords, L2NoRecord, L2NoResults, L2NoResult
  <2>3. l2m.pc # "scan" /\ l2out.state # "saved"
    BY <1>1, L2Idle DEF MeasureIdle
  <2>4. Seen(r, k) = {Unreadable}
    BY <2>1, <2>2, <2>3
       DEF Seen, SeenByWriter, SeenInManifest, SeenByMeasure, SeenInResults, Scanned
  <2>5. Unreadable.version = 0 /\ Unreadable.rows = 0
    BY DEF Unreadable
  <2> QED BY <2>1, <2>4, <2>5 DEF Agree
<1>6. Measurements
  BY <1>1, L2Idle DEF Measurements, Taken, MeasureIdle, L2NoResults, L2NoResult
<1> QED BY <1>3, <1>4, <1>5, <1>6 DEF L2Inv

(* Every dataset that is remembered is, of its version, the one there was. *)
THEOREM L2Invariant == L2Spec => []L2Inv
<1>1. L2Inv /\ [L2Next]_L2Vars => L2Inv'
  BY L2TypedStep, FoundStep, VersionedStep, MeasurementsStep DEF L2Inv
<1> QED BY <1>1, L2InitInv, PTL DEF L2Spec

(* What a saved manifest calls ok can be read as it was verified, until    *)
(* the next write to that place.                                           *)
THEOREM OkIsReadable == L2Spec => []OkMeansReadable
<1>1. L2Inv => OkMeansReadable
  BY DEF L2Inv, Found, Verified, OkMeansReadable
<1> QED BY <1>1, L2Invariant, PTL

(* A Lance dataset measured at the version of the manifest has the rows of *)
(* the manifest.                                                           *)
THEOREM MeasuredIsVerified == L2Spec => []MeasuredAsVerified
<1>1. L2Inv => MeasuredAsVerified
  <2> SUFFICES ASSUME L2Inv, l2out.state = "saved", NEW k \in L2Tasks,
                      l2out.records[k].status = "measured", IsLance(k),
                      l2out.records[k].scanned.version = l2out.records[k].record.verify.version
               PROVE  /\ l2out.records[k].scanned.rows = l2out.records[k].record.verify.rows
                      /\ k[1] \in PointTakes =>
                           l2out.records[k].taken = TakeN(k[1], l2out.records[k].record.n_rows)
    BY DEF MeasuredAsVerified
  <2>1. l2out.run_id \in L2RunIds
    BY DEF L2Inv, L2Typed
  <2>2. Agree(Seen(l2out.run_id, k), l2s3[<<l2out.run_id, k>>])
    BY <2>1 DEF L2Inv, Versioned
  <2>3. /\ l2out.records[k].scanned \in Seen(l2out.run_id, k)
        /\ l2out.records[k].record.verify \in Seen(l2out.run_id, k)
    BY DEF Seen, SeenInResults, Scanned
  <2>4. Taken(l2out.records)
    BY DEF L2Inv, Measurements
  <2> QED BY <2>2, <2>3, <2>4 DEF Agree, Taken
<1> QED BY <1>1, L2Invariant, PTL

(* The tasks the writer has still to write. *)
ToWrite(w) == ToSet(IF w.pc = "verify" THEN Tail(w.todo) ELSE w.todo)

(* A writer makes one version of a dataset, so there are no more of it     *)
(* than writers were started, and one less before it is written.           *)
VersionsCounted ==
    /\ \A p \in L2Places : l2s3[p].version <= l2writes /\ (~l2s3[p].readable => l2s3[p] = Unreadable)
    /\ \A k \in ToWrite(l2w) : l2s3[<<l2w.run_id, k>>].version < l2writes

L2Counted ==
    /\ l2writes \in 0 .. L2MaxWrites /\ l2reads \in 0 .. L2MaxReads
    /\ l2w.todo # <<>> => l2w.pc \in {"write", "verify"}
    /\ l2m.todo # <<>> => l2m.pc \in {"measure", "scan"}
    /\ l2out.state \in {"none", "torn", "saved"}
    /\ IsInjective(l2w.todo)
    /\ VersionsCounted

(* What a write leaves, whether it returns or raises: at most one version  *)
(* more, and rows only if it can be read.                                  *)
LEMMA WriteVersion ==
    ASSUME L2Typed, WriteDataset, ~l2s3[l2place].readable => l2s3[l2place] = Unreadable
    PROVE  \E c \in L2Datasets :
              /\ l2s3' = [l2s3 EXCEPT ![l2place] = c]
              /\ c.version <= l2s3[l2place].version + 1
              /\ ~c.readable => c = Unreadable
<1> DEFINE old == l2s3[l2place]
           new == Dataset(source_rows(l2task[1], l2w.n_rows), IF IsLance(l2task) THEN old.version + 1 ELSE 0)
           Left(c) == c.version <= old.version + 1 /\ (~c.readable => c = Unreadable)
<1>1. \/ \E c \in {new, old} : l2s3' = [l2s3 EXCEPT ![l2place] = c]
      \/ \E c \in AfterFailure(l2task, old, new) : l2s3' = [l2s3 EXCEPT ![l2place] = c]
  BY DEF WriteDataset
<1>2. /\ l2place \in L2Places /\ l2task \in L2Tasks /\ l2w.n_rows \in Nat
      /\ old \in L2Datasets /\ old.version \in Nat
  BY WriteEffect DEF L2Typed, L2Datasets
<1>3. new \in L2Datasets /\ new.version <= old.version + 1 /\ new.readable = TRUE
  <2>1. source_rows(l2task[1], l2w.n_rows) \in Nat
    BY <1>2, FormatBenchAssumption DEF source_rows
  <2> HIDE DEF old
  <2> QED BY <1>2, <2>1 DEF Dataset, L2Datasets
<1>4. \A n : Dataset(n, 0).version = 0 /\ Dataset(n, 0).readable = TRUE
  BY DEF Dataset
<1>5. Left(old) /\ Left(new)
  BY <1>2, <1>3
<1>6. Left(Unreadable)
  BY <1>2 DEF Unreadable
<1>7. \A n : Left(Dataset(n, 0))
  BY <1>2, <1>4
<1> HIDE DEF old, new, Left
<1>8. ASSUME NEW c \in AfterFailure(l2task, old, new) PROVE c \in L2Datasets /\ Left(c)
  <2>1. c \in L2Datasets
    BY <1>2, <1>3, FailureType
  <2>2. CASE IsLance(l2task)
    <3>1. c \in {old, new}
      BY <1>2, <1>3, <2>2, FailureType
    <3> QED BY <1>5, <2>1, <3>1
  <2>3. CASE ~IsLance(l2task) /\ writer_mode(l2task) = "spark"
    <3>1. c \in {old, Unreadable, new} \cup {Dataset(i, 0) : i \in 1 .. new.rows}
      BY <2>3 DEF AfterFailure
    <3> QED BY <1>5, <1>6, <1>7, <2>1, <3>1
  <2>4. CASE ~IsLance(l2task) /\ writer_mode(l2task) # "spark"
    <3>1. c \in {old, Unreadable, new}
      BY <2>4 DEF AfterFailure
    <3> QED BY <1>5, <1>6, <2>1, <3>1
  <2> QED BY <2>2, <2>3, <2>4
<1>9. \E c \in L2Datasets : l2s3' = [l2s3 EXCEPT ![l2place] = c] /\ Left(c)
  BY <1>1, <1>2, <1>3, <1>5, <1>8
<1> QED BY <1>9 DEF Left, old

(* When a task is recorded, the others are left.                           *)
LEMMA AppendedLeft ==
    ASSUME L2Typed, l2w.todo # <<>>, NEW rec \in L2Record, l2w' = Appended(l2task, rec)
    PROVE  /\ l2w'.todo = Tail(l2w.todo) /\ l2w'.run_id = l2w.run_id
           /\ l2w'.todo # <<>> => l2w'.pc = "write"
           /\ ToWrite(l2w') = ToSet(Tail(l2w.todo))
<1> DEFINE pc      == IF Tail(l2w.todo) = <<>> THEN "open" ELSE "write"
           records == [l2w.records EXCEPT ![l2task] = rec]
<1>1. l2w' = [l2w EXCEPT !.pc = pc, !.todo = Tail(l2w.todo), !.records = records]
  BY DEF Appended
<1>2. l2w \in [pc : {"none", "write", "verify", "open", "dump"}, run_id : L2RunIds, n_rows : Nat,
               todo : Seq(L2Tasks), records : [L2Tasks -> L2Record]]
  BY DEF L2Typed
<1>3. pc # "verify" /\ (Tail(l2w.todo) # <<>> => pc = "write")
  OBVIOUS
<1> HIDE DEF pc, records
<1>4. l2w'.todo = Tail(l2w.todo) /\ l2w'.run_id = l2w.run_id /\ l2w'.pc = pc
  BY <1>1, <1>2
<1> QED BY <1>3, <1>4 DEF ToWrite

(* Every step of the format bench counts.                                  *)
LEMMA L2CountedStep == L2Typed /\ L2Counted /\ [L2Next]_L2Vars => L2Counted'
<1> SUFFICES ASSUME L2Typed, L2Counted, [L2Next]_L2Vars PROVE L2Counted'
  OBVIOUS
<1>1. /\ l2writes \in 0 .. L2MaxWrites /\ l2reads \in 0 .. L2MaxReads
      /\ l2w.todo # <<>> => l2w.pc \in {"write", "verify"}
      /\ l2m.todo # <<>> => l2m.pc \in {"measure", "scan"}
      /\ l2out.state \in {"none", "torn", "saved"} /\ IsInjective(l2w.todo)
  BY DEF L2Counted
<1>2. /\ \A p \in L2Places : l2s3[p].version <= l2writes /\ (~l2s3[p].readable => l2s3[p] = Unreadable)
      /\ \A k \in ToWrite(l2w) : l2s3[<<l2w.run_id, k>>].version < l2writes
  BY DEF L2Counted, VersionsCounted
<1>3. /\ \A p \in L2Places : l2s3[p] \in L2Datasets /\ l2s3[p].version \in Nat
      /\ l2s3 \in [L2Places -> L2Datasets] /\ L2MaxWrites \in Nat /\ L2MaxReads \in Nat
      /\ l2w.run_id \in L2RunIds /\ l2w.todo \in Seq(L2Tasks) /\ l2m.todo \in Seq(L2Tasks)
  BY FormatBenchAssumption DEF L2Typed, L2Datasets
<1>4. IsInjective(<<>>) /\ ToSet(<<>>) = {}
  BY DEF IsInjective, ToSet
<1>5. WriterIdle.todo = <<>> /\ WriterIdle.pc = "none" /\ MeasureIdle.todo = <<>>
  BY DEF WriterIdle, MeasureIdle
<1>6. ToWrite(WriterIdle) = {}
  BY <1>4, <1>5, Zenon DEF ToWrite
<1>7. l2w.todo # <<>> =>
        /\ IsInjective(Tail(l2w.todo)) /\ ToSet(Tail(l2w.todo)) = ToSet(l2w.todo) \ {l2task}
        /\ l2task \in ToSet(l2w.todo)
  <2> SUFFICES ASSUME l2w.todo # <<>>
               PROVE  /\ IsInjective(Tail(l2w.todo)) /\ ToSet(Tail(l2w.todo)) = ToSet(l2w.todo) \ {l2task}
                      /\ l2task \in ToSet(l2w.todo)
    OBVIOUS
  <2>1. 1 \in DOMAIN l2w.todo /\ l2task = l2w.todo[1]
    BY <1>3 DEF l2task
  <2>2. l2task \in ToSet(l2w.todo)
    BY <2>1 DEF ToSet
  <2>3. IsInjective(Tail(l2w.todo)) /\ ToSet(Tail(l2w.todo)) = ToSet(l2w.todo) \ {l2task}
    BY <1>1, <1>3, InjectiveTail DEF l2task
  <2> QED BY <2>2, <2>3
<1>8. CASE WriterStart
  <2> DEFINE r     == l2w'.run_id
             tasks == l2w'.todo
  <2>1. /\ l2w'.pc = "write" /\ r \in L2RunIds /\ tasks \in Seq(L2Tasks) /\ IsInjective(tasks)
        /\ l2writes < L2MaxWrites /\ l2writes' = l2writes + 1
        /\ UNCHANGED <<l2s3, l2out, l2m, l2reads>>
    BY <1>8, WriterStarts
  <2>2. l2w'.run_id = r /\ l2w'.todo = tasks
    OBVIOUS
  <2> HIDE DEF r, tasks
  <2>3. ToSet(tasks) \subseteq L2Tasks
    BY <2>1 DEF ToSet
  <2>4. ToWrite(l2w') = ToSet(tasks)
    BY <2>1, <2>2 DEF ToWrite
  <2>5. \A k \in ToSet(tasks) : <<r, k>> \in L2Places
    BY <2>1, <2>3 DEF L2Places
  <2>6. \A p \in L2Places : l2s3[p].version < l2writes + 1
    BY <1>1, <1>2, <1>3
  <2>7. /\ \A p \in L2Places : l2s3'[p].version <= l2writes' /\ (~l2s3'[p].readable => l2s3'[p] = Unreadable)
        /\ \A k \in ToSet(tasks) : l2s3'[<<r, k>>].version < l2writes'
    <3>1. \A p \in L2Places : l2s3[p].version <= l2writes + 1
      BY <1>1, <1>2, <1>3
    <3> QED BY <1>2, <2>1, <2>5, <2>6, <3>1
  <2>8. VersionsCounted'
    <3> SUFFICES ASSUME NEW k \in ToWrite(l2w') PROVE l2s3'[<<l2w'.run_id, k>>].version < l2writes'
      BY <2>7 DEF VersionsCounted
    <3>1. k \in ToSet(tasks)
      BY <2>4
    <3>2. l2s3'[<<r, k>>].version < l2writes'
      BY <2>7, <3>1
    <3> QED BY <2>2, <3>2
  <2>9. l2writes' \in 0 .. L2MaxWrites
    BY <1>1, <1>3, <2>1
  <2>10. l2out'.state \in {"none", "torn", "saved"} /\ (l2m'.todo # <<>> => l2m'.pc \in {"measure", "scan"})
    BY <1>1, <2>1
  <2> QED BY <1>1, <2>1, <2>2, <2>8, <2>9, <2>10 DEF L2Counted
<1>9. CASE WriteDataset
  <2>1. /\ l2w.pc = "write" /\ l2w.todo # <<>> /\ l2place \in L2Places /\ l2task \in L2Tasks
        /\ UNCHANGED <<l2out, l2m, l2writes, l2reads>>
    BY <1>9, WriteEffect
  <2>2. l2place = <<l2w.run_id, l2task>>
    BY DEF l2place
  <2>3. PICK c \in L2Datasets : /\ l2s3' = [l2s3 EXCEPT ![l2place] = c]
                                /\ c.version <= l2s3[l2place].version + 1
                                /\ ~c.readable => c = Unreadable
    BY <1>2, <1>9, <2>1, WriteVersion
  <2>4. l2s3[l2place].version < l2writes
    BY <1>2, <1>7, <2>1, <2>2 DEF ToWrite
  <2>5. c.version <= l2writes
    BY <1>1, <1>3, <2>1, <2>3, <2>4 DEF L2Datasets
  <2>6. /\ l2w'.run_id = l2w.run_id /\ ToWrite(l2w') = ToSet(Tail(l2w.todo))
        /\ (l2w'.todo # <<>> => l2w'.pc \in {"write", "verify"}) /\ IsInjective(l2w'.todo)
    <3>1. CASE l2w' = [l2w EXCEPT !.pc = "verify"]
      <4>1. l2w'.pc = "verify" /\ l2w'.todo = l2w.todo /\ l2w'.run_id = l2w.run_id
        BY <3>1 DEF L2Typed
      <4> QED BY <1>1, <4>1 DEF ToWrite
    <3>2. CASE l2w' = Appended(l2task, FailedRecord(l2task))
      <4>1. FailedRecord(l2task) \in L2Record
        BY <2>1, RecordType, L2Idle
      <4> QED BY <1>7, <2>1, <3>2, <4>1, AppendedLeft
    <3> QED BY <1>9, <3>1, <3>2, WriteEffect
  <2>7. \A k \in ToSet(Tail(l2w.todo)) :
           /\ k \in ToWrite(l2w) /\ k # l2task
           /\ <<l2w.run_id, k>> \in L2Places
    <3>1. ToSet(l2w.todo) \subseteq L2Tasks
      BY <1>3 DEF ToSet
    <3> QED BY <1>3, <1>7, <2>1, <3>1 DEF ToWrite, L2Places
  <2>8. ASSUME NEW p \in L2Places
        PROVE  l2s3'[p].version <= l2writes /\ (~l2s3'[p].readable => l2s3'[p] = Unreadable)
    <3>1. CASE p = l2place
      <4>1. l2s3'[p] = c
        BY <1>3, <2>3, <3>1
      <4> QED BY <2>3, <2>5, <4>1
    <3>2. CASE p # l2place
      <4>1. l2s3'[p] = l2s3[p]
        BY <1>3, <2>3, <3>2
      <4> QED BY <1>2, <4>1
    <3> QED BY <3>1, <3>2
  <2>9. ASSUME NEW k \in ToSet(Tail(l2w.todo))
        PROVE  l2s3'[<<l2w.run_id, k>>].version < l2writes
    <3>1. <<l2w.run_id, k>> # l2place /\ <<l2w.run_id, k>> \in L2Places
      BY <2>2, <2>7
    <3>2. l2s3'[<<l2w.run_id, k>>] = l2s3[<<l2w.run_id, k>>]
      BY <1>3, <2>3, <3>1
    <3> QED BY <1>2, <2>7, <3>2
  <2>10. VersionsCounted'
    BY <2>1, <2>6, <2>8, <2>9 DEF VersionsCounted
  <2> QED BY <1>1, <2>1, <2>6, <2>10 DEF L2Counted
<1>10. CASE verify_written
  <2>1. l2w.pc = "verify" /\ l2w.todo # <<>> /\ UNCHANGED <<l2s3, l2out, l2m, l2writes, l2reads>>
    BY <1>10 DEF verify_written, L2Typed
  <2>2. l2task \in L2Tasks /\ l2s3[l2place] \in L2Datasets
    BY <1>3, <2>1, NextTasks
  <2>3. PICK rec \in L2Record : l2w' = Appended(l2task, rec)
    BY <1>10, <2>2, RecordType DEF verify_written
  <2>4. /\ l2w'.run_id = l2w.run_id /\ ToWrite(l2w') = ToSet(Tail(l2w.todo))
        /\ (l2w'.todo # <<>> => l2w'.pc \in {"write", "verify"}) /\ IsInjective(l2w'.todo)
    BY <1>7, <2>1, <2>3, AppendedLeft
  <2>5. ToWrite(l2w) = ToSet(Tail(l2w.todo))
    BY <2>1 DEF ToWrite
  <2>6. VersionsCounted'
    BY <1>2, <2>1, <2>4, <2>5 DEF VersionsCounted
  <2> QED BY <1>1, <2>1, <2>4, <2>6 DEF L2Counted
<1>11. CASE ManifestOpen
  <2>1. /\ l2w.pc = "open" /\ l2w' = [l2w EXCEPT !.pc = "dump"]
        /\ UNCHANGED <<l2s3, l2out, l2m, l2writes, l2reads>>
    BY <1>11 DEF ManifestOpen
  <2>2. l2w.todo = <<>> /\ l2w'.pc = "dump" /\ l2w'.todo = l2w.todo
    BY <1>1, <2>1 DEF L2Typed
  <2>3. ToWrite(l2w') = {}
    BY <1>4, <2>2, Zenon DEF ToWrite
  <2>4. VersionsCounted'
    BY <1>2, <2>1, <2>3 DEF VersionsCounted
  <2> QED BY <1>1, <2>1, <2>2, <2>4 DEF L2Counted
<1>12. CASE ManifestDump \/ WriterKilled
  <2>1. l2w' = WriterIdle /\ UNCHANGED <<l2s3, l2out, l2m, l2writes, l2reads>>
    BY <1>12 DEF ManifestDump, WriterKilled
  <2>2. VersionsCounted'
    BY <1>2, <1>6, <2>1 DEF VersionsCounted
  <2> QED BY <1>1, <1>4, <1>5, <2>1, <2>2 DEF L2Counted
<1>13. CASE MeasureStart
  <2>1. /\ l2m'.todo # <<>> => l2m'.pc = "measure"
        /\ l2reads < L2MaxReads /\ l2reads' = l2reads + 1
        /\ UNCHANGED <<l2s3, l2out, l2w, l2writes>>
    BY <1>13, MeasureStarts
  <2>2. VersionsCounted'
    BY <1>2, <2>1 DEF VersionsCounted
  <2> QED BY <1>1, <1>3, <2>1, <2>2 DEF L2Counted
<1>14. ASSUME UNCHANGED <<l2s3, l2w, l2writes, l2reads>>, l2out'.state \in {"none", "torn", "saved"},
              l2m'.todo # <<>> => l2m'.pc \in {"measure", "scan"}
       PROVE  L2Counted'
  <2>1. VersionsCounted'
    BY <1>2, <1>14 DEF VersionsCounted
  <2> QED BY <1>1, <1>14, <2>1 DEF L2Counted
<1>15. ASSUME NEW status, NEW d, NEW taken, l2m.todo # <<>>, l2m' = Result(status, d, taken)
       PROVE  l2m'.todo # <<>> => l2m'.pc \in {"measure", "scan"}
  <2>1. /\ l2m'.todo = Tail(l2m.todo)
        /\ l2m'.pc = IF Tail(l2m.todo) = <<>> THEN "open" ELSE "measure"
    BY <1>15 DEF Result, L2Typed
  <2> QED BY <2>1
<1>16. CASE MeasureOpen
  <2>1. l2m'.todo # <<>> => l2m'.pc \in {"measure", "scan"}
    <3>1. CASE l2m' = [l2m EXCEPT !.pc = "scan", !.handle = l2s3[l2dir]]
      BY <3>1 DEF L2Typed
    <3>2. CASE l2m' = Result("error", Unreadable, 0)
      BY <1>15, <1>16, <3>2, OpenEffect
    <3> QED BY <1>16, <3>1, <3>2, OpenEffect
  <2> QED BY <1>1, <1>14, <1>16, <2>1, OpenEffect
<1>17. CASE MeasureScan
  <2>1. l2m'.todo # <<>> => l2m'.pc \in {"measure", "scan"}
    BY <1>15, <1>17, ScanEffect
  <2> QED BY <1>1, <1>14, <1>17, <2>1, ScanEffect
<1>18. CASE ResultsOpen
  <2>1. /\ l2m.pc = "open" /\ l2m' = [l2m EXCEPT !.pc = "dump"] /\ l2out' = L2TornFile
        /\ UNCHANGED <<l2s3, l2w, l2writes, l2reads>>
    BY <1>18 DEF ResultsOpen
  <2>2. l2m'.todo = <<>>
    BY <1>1, <2>1 DEF L2Typed
  <2> QED BY <1>14, <2>1, <2>2, L2Idle
<1>19. CASE ResultsDump \/ MeasureKilled
  <2>1. /\ l2m' = MeasureIdle /\ UNCHANGED <<l2s3, l2w, l2writes, l2reads>>
        /\ l2out'.state \in {"none", "torn", "saved"}
    BY <1>1, <1>19 DEF ResultsDump, MeasureKilled
  <2> QED BY <1>5, <1>14, <2>1
<1>20. CASE UNCHANGED L2Vars
  BY <1>1, <1>14, <1>20 DEF L2Vars
<1> QED BY <1>8, <1>9, <1>10, <1>11, <1>12, <1>13, <1>16, <1>17, <1>18, <1>19, <1>20 DEF L2Next

(* Results that are not saved are no results, and only places are written. *)
L2Leftover == (l2out.state # "saved" => l2out \in Manifests) /\ l2since \subseteq L2Places

LEMMA L2LeftoverStep == L2Typed /\ L2Leftover /\ [L2Next]_L2Vars => L2Leftover'
<1> SUFFICES ASSUME L2Typed, L2Leftover, [L2Next]_L2Vars PROVE L2Leftover'
  OBVIOUS
<1>1. CASE WriteDataset
  <2>1. l2place \in L2Places /\ l2since' = l2since \cup {l2place} /\ l2out' = l2out
    BY <1>1, WriteEffect DEF WriteDataset
  <2> QED BY <2>1 DEF L2Leftover
<1>2. CASE ManifestDump
  BY <1>2 DEF ManifestDump, L2Leftover
<1>3. CASE ResultsOpen
  <2>1. l2out' = L2TornFile /\ l2since' = l2since
    BY <1>3 DEF ResultsOpen
  <2> QED BY <2>1, L2Idle DEF L2Leftover
<1>4. CASE ResultsDump
  BY <1>4 DEF ResultsDump, L2Leftover
<1>5. CASE UNCHANGED <<l2out, l2since>>
  BY <1>5 DEF L2Leftover
<1> QED BY <1>1, <1>2, <1>3, <1>4, <1>5
        DEF L2Next, L2Vars, WriterStart, verify_written, ManifestOpen, WriterKilled,
            MeasureStart, MeasureOpen, MeasureScan, MeasureKilled

(* Every variable of L2 keeps its type; a dataset has at most as many      *)
(* versions as writers were started, and rows only if it can be read.      *)
THEOREM L2Types == L2Spec => []L2TypeOK
<1>1. L2Init => L2Counted
  <2> SUFFICES ASSUME L2Init PROVE L2Counted
    OBVIOUS
  <2>1. /\ l2s3 = [p \in L2Places |-> Unreadable] /\ l2out = L2NoFile
        /\ l2w = WriterIdle /\ l2m = MeasureIdle /\ l2writes = 0 /\ l2reads = 0
    BY DEF L2Init
  <2>2. Unreadable.version = 0 /\ WriterIdle.todo = <<>> /\ WriterIdle.pc = "none" /\ MeasureIdle.todo = <<>>
    BY DEF Unreadable, WriterIdle, MeasureIdle
  <2>3. IsInjective(<<>>) /\ ToSet(<<>>) = {}
    BY DEF IsInjective, ToSet
  <2>4. ToWrite(WriterIdle) = {}
    BY <2>2, <2>3, Zenon DEF ToWrite
  <2>5. VersionsCounted
    BY <2>1, <2>2, <2>4 DEF VersionsCounted
  <2> QED BY <2>1, <2>2, <2>3, <2>5, L2Idle, FormatBenchAssumption DEF L2Counted
<1>2. L2Inv /\ L2Inv' /\ L2Counted /\ [L2Next]_L2Vars => L2Counted'
  BY L2CountedStep DEF L2Inv
<1>3. L2Init => L2Leftover
  BY L2Idle DEF L2Init, L2Leftover, L2NoFile
<1>4. L2Inv /\ L2Leftover /\ [L2Next]_L2Vars => L2Leftover'
  BY L2LeftoverStep DEF L2Inv
<1>5. L2Inv /\ L2Counted /\ L2Leftover => L2TypeOK
  <2> SUFFICES ASSUME L2Inv, L2Counted, L2Leftover PROVE L2TypeOK
    OBVIOUS
  <2>1. /\ L2Typed /\ \A p \in L2Places : l2s3[p].version \in Nat
        /\ l2w.pc \in {"write", "verify"} => l2w.todo # <<>>
        /\ l2m.pc \in {"measure", "scan"} => l2m.todo # <<>>
    BY DEF L2Inv, L2Typed, L2Datasets
  <2>2. /\ \A p \in L2Places : l2s3[p].version <= l2writes /\ (~l2s3[p].readable => l2s3[p] = Unreadable)
        /\ l2writes \in 0 .. L2MaxWrites /\ l2reads \in 0 .. L2MaxReads
        /\ l2w.todo # <<>> => l2w.pc \in {"write", "verify"}
        /\ l2m.todo # <<>> => l2m.pc \in {"measure", "scan"}
        /\ l2out.state \in {"none", "torn", "saved"}
    BY DEF L2Counted, VersionsCounted
  <2>3. \A p \in L2Places : l2s3[p].version \in 0 .. L2MaxWrites
    BY <2>1, <2>2, FormatBenchAssumption
  <2>4. /\ l2w.pc \in {"write", "verify"} <=> l2w.todo # <<>>
        /\ l2m.pc \in {"measure", "scan"} <=> l2m.todo # <<>>
    BY <2>1, <2>2
  <2>5. /\ l2s3 \in [L2Places -> L2Datasets] /\ l2manifest \in Manifests
        /\ l2w \in [pc : {"none", "write", "verify", "open", "dump"}, run_id : L2RunIds, n_rows : Nat,
                    todo : Seq(L2Tasks), records : [L2Tasks -> L2Record]]
        /\ l2m \in [pc : {"none", "measure", "scan", "open", "dump"}, manifest : Manifests,
                    todo : Seq(L2Tasks), handle : L2Datasets, records : [L2Tasks -> L2Result]]
        /\ IF l2out.state = "saved"
             THEN l2out \in [state : {"saved"}, run_id : L2RunIds, records : [L2Tasks -> L2Result]]
             ELSE l2out \in Manifests
    BY <2>1 DEF L2Typed, L2Leftover
  <2>6. l2since \subseteq L2Places
    BY DEF L2Leftover
  <2> QED BY <2>2, <2>3, <2>4, <2>5, <2>6 DEF L2TypeOK
<1> QED BY <1>1, <1>2, <1>3, <1>4, <1>5, L2Invariant, PTL DEF L2Spec

-----------------------------------------------------------------------------
(* CompositeKey.                                                           *)

OResults == [ToSet(OVariants) -> OResult]

OTyped ==
    /\ odisk \subseteq ToSet(OVariants) /\ otodo \in Seq(ToSet(OVariants))
    /\ opc \in {"none", "build", "query", "open", "dump"} /\ oruns \in 0 .. OMaxRuns
    /\ opc \in {"build", "query"} <=> otodo # <<>>
    /\ opc = "query" => Head(otodo) \in odisk
    /\ oresults \in OResults
    /\ oout \in [state : {"none", "torn", "saved"}, variants : OResults, ok : BOOLEAN]

(* What is saved is ok when the results saved with it are. *)
OSaved == oout.ok = (oout.state = "saved" /\ internal_verify(oout.variants))

OInv == OTyped /\ OSaved

(* What there is before any query is answered.                             *)
LEMMA OIdle ==
    /\ OAbsent \in OResult /\ OFatal \in OResult /\ ONoResults \in OResults
    /\ ONoFile \in [state : {"none", "torn", "saved"}, variants : OResults, ok : BOOLEAN]
    /\ [ONoFile EXCEPT !.state = "torn"] \in [state : {"none", "torn", "saved"}, variants : OResults, ok : BOOLEAN]
    /\ ~ONoFile.ok /\ ~[ONoFile EXCEPT !.state = "torn"].ok
    /\ ONoFile.state = "none" /\ [ONoFile EXCEPT !.state = "torn"].state = "torn"
<1>2. OAbsent \in OResult /\ OFatal \in OResult
  BY DEF OAbsent, OFatal, OResult
<1>3. ONoResults \in OResults
  BY <1>2 DEF ONoResults, OResults
<1>4. ONoFile = [state |-> "none", variants |-> ONoResults, ok |-> FALSE]
  BY DEF ONoFile
<1>5. ONoFile \in [state : {"none", "torn", "saved"}, variants : OResults, ok : BOOLEAN]
  BY <1>3, <1>4
<1>6. /\ [ONoFile EXCEPT !.state = "torn"] \in [state : {"none", "torn", "saved"}, variants : OResults, ok : BOOLEAN]
      /\ [ONoFile EXCEPT !.state = "torn"].state = "torn"
      /\ [ONoFile EXCEPT !.state = "torn"].ok = ONoFile.ok
  BY <1>5
<1>7. ONoFile.state = "none" /\ ~ONoFile.ok
  BY <1>4
<1> QED BY <1>2, <1>3, <1>5, <1>6, <1>7

(* A variant is done with, and its result recorded.                        *)
LEMMA NextVariantType ==
    ASSUME OTyped, opc \in {"build", "query"}, NEW res \in OResult, NextVariant(res)
    PROVE  /\ oresults' \in OResults /\ otodo' \in Seq(ToSet(OVariants)) /\ opc' \in {"build", "open"}
           /\ opc' = "build" <=> otodo' # <<>>
<1>1. otodo \in Seq(ToSet(OVariants)) /\ otodo # <<>> /\ oresults \in OResults
  BY DEF OTyped
<1>2. Head(otodo) \in ToSet(OVariants) /\ Tail(otodo) \in Seq(ToSet(OVariants))
  BY <1>1
<1>3. oresults' \in OResults
  BY <1>1, <1>2 DEF NextVariant, OResults
<1> QED BY <1>2, <1>3 DEF NextVariant

(* The types are kept.                                                     *)
LEMMA OTypedStep == OTyped /\ [ONext]_OVars => OTyped'
<1> SUFFICES ASSUME OTyped, [ONext]_OVars PROVE OTyped'
  OBVIOUS
<1>1. opc \in {"build", "query"} => Head(otodo) \in ToSet(OVariants)
  BY DEF OTyped
<1>2. CASE OStart
  <2>1. PICK skip \in SUBSET ToSet(OVariants) : otodo' = Kept(OVariants, ToSet(OVariants) \ skip)
    BY <1>2 DEF OStart
  <2>2. otodo' \in Seq(ToSet(OVariants))
    BY <2>1, CompositeKeyAssumption, KeptIn
  <2>3. /\ opc' = IF otodo' = <<>> THEN "open" ELSE "build"
        /\ oresults' = ONoResults /\ oruns' = oruns + 1 /\ oruns < OMaxRuns /\ UNCHANGED <<odisk, oout>>
    BY <1>2 DEF OStart
  <2> QED BY <2>2, <2>3, OIdle, CompositeKeyAssumption, SMTT(30) DEF OTyped
<1>3. CASE build_variant
  <2>1. opc = "build" /\ UNCHANGED <<oout, oruns>>
    BY <1>3 DEF build_variant
  <2>2. CASE odisk' = odisk \cup {Head(otodo)} /\ opc' = "query" /\ UNCHANGED <<otodo, oresults>>
    BY <1>1, <2>1, <2>2 DEF OTyped
  <2>3. CASE odisk' \in {odisk, odisk \cup {Head(otodo)}, odisk \ {Head(otodo)}} /\ NextVariant(OFatal)
    <3>1. /\ oresults' \in OResults /\ otodo' \in Seq(ToSet(OVariants)) /\ opc' \in {"build", "open"}
          /\ opc' = "build" <=> otodo' # <<>>
      BY <2>1, <2>3, OIdle, NextVariantType
    <3> QED BY <1>1, <2>1, <2>3, <3>1 DEF OTyped
  <2> QED BY <1>3, <2>2, <2>3 DEF build_variant
<1>4. CASE run_queries
  <2>1. PICK res \in OResult : NextVariant(res)
    BY <1>4, OIdle DEF run_queries, OResult
  <2>2. opc = "query" /\ UNCHANGED <<oout, oruns>> /\ odisk' \in {odisk, odisk \ {Head(otodo)}}
    BY <1>4 DEF run_queries
  <2>3. /\ oresults' \in OResults /\ otodo' \in Seq(ToSet(OVariants)) /\ opc' \in {"build", "open"}
        /\ opc' = "build" <=> otodo' # <<>>
    BY <2>1, <2>2, NextVariantType
  <2> QED BY <2>2, <2>3 DEF OTyped
<1>5. CASE OOpen
  BY <1>5, OIdle DEF OOpen, OTyped
<1>6. CASE ODump
  <2>1. /\ oout' = [state |-> "saved", variants |-> oresults, ok |-> internal_verify(oresults)]
        /\ oresults' = ONoResults /\ opc' = "none" /\ otodo' = <<>> /\ UNCHANGED <<odisk, oruns>>
    BY <1>6 DEF ODump
  <2>2. internal_verify(oresults) \in BOOLEAN
    BY DEF internal_verify
  <2> QED BY <2>1, <2>2, OIdle DEF OTyped
<1>7. CASE OKilled
  BY <1>7, OIdle DEF OKilled, OTyped
<1>8. CASE UNCHANGED OVars
  BY <1>8 DEF OVars, OTyped
<1> QED BY <1>2, <1>3, <1>4, <1>5, <1>6, <1>7, <1>8 DEF ONext

(* Only a dump makes a verdict, that of the results it saves.              *)
LEMMA OSavedStep == OSaved /\ [ONext]_OVars => OSaved'
<1> SUFFICES ASSUME OSaved, [ONext]_OVars PROVE OSaved'
  OBVIOUS
<1>1. CASE OOpen
  BY <1>1, OIdle DEF OOpen, OSaved
<1>2. CASE ODump
  <2>1. oout' = [state |-> "saved", variants |-> oresults, ok |-> internal_verify(oresults)]
    BY <1>2 DEF ODump
  <2> QED BY <2>1, ZenonT(30) DEF OSaved, internal_verify, Mismatch, Answered
<1>3. CASE ~OOpen /\ ~ODump
  <2>1. UNCHANGED oout
    BY <1>3 DEF ONext, OVars, OStart, build_variant, run_queries, OKilled
  <2> QED BY <2>1 DEF OSaved, internal_verify, Mismatch, Answered
<1> QED BY <1>1, <1>2, <1>3

(* The verdict of a composite key run is that of the results it is saved   *)
(* with, whatever was skipped, failed or killed.                           *)
THEOREM OInvariant == OSpec => []OInv
<1>1. OInit => OInv
  <2> SUFFICES ASSUME OInit PROVE OInv
    OBVIOUS
  <2>1. OTyped
    BY OIdle, CompositeKeyAssumption DEF OInit, OTyped
  <2> QED BY <2>1, OIdle DEF OInit, OInv, OSaved
<1>2. OInv /\ [ONext]_OVars => OInv'
  BY OTypedStep, OSavedStep DEF OInv
<1> QED BY <1>1, <1>2, PTL DEF OSpec

(* The answers to a workload are a sequence, of which the row counts are   *)
(* compared.                                                               *)
LEMMA AnswersOf ==
    ASSUME NEW a \in Answers, NEW wl \in ToSet(OWorkloads)
    PROVE  /\ make_workloads(wl) \in Nat
           /\ a[wl] \in [1 .. make_workloads(wl) -> OCounts \cup {QueryError}]
           /\ a[wl] \in Seq(Int) /\ Len(a[wl]) = make_workloads(wl)
           /\ \A i \in 1 .. make_workloads(wl) : a[wl][i] \in OCounts <=> a[wl][i] # QueryError
<1>1. QueryError \in Int /\ QueryError \notin OCounts /\ OCounts \subseteq Int
  BY CompositeKeyAssumption DEF QueryError
<1>2. make_workloads(wl) \in Nat
  <2>1. OVideos \in Nat /\ OFrames \in Nat /\ OVideos * OFrames \in Nat
    BY CompositeKeyAssumption
  <2> DEFINE product == OVideos * OFrames
  <2>2. make_workloads(wl) \in {product, OFrames, OVideos}
    BY DEF make_workloads
  <2> HIDE DEF product
  <2>3. product \in Nat
    BY <2>1 DEF product
  <2> QED BY <2>1, <2>2, <2>3
<1>3. a[wl] \in [1 .. make_workloads(wl) -> OCounts \cup {QueryError}]
  BY DEF Answers, AnswersTo
<1>4. a[wl] \in [1 .. make_workloads(wl) -> Int]
  BY <1>1, <1>3
<1>5. a[wl] \in Seq(Int) /\ Len(a[wl]) = make_workloads(wl)
  BY <1>2, <1>4
<1> QED BY <1>1, <1>2, <1>3, <1>5

(* There are answers to compare wherever a query succeeded, and answers    *)
(* that agree, of the same queries, are the same.                          *)
LEMMA AnswersDetermined ==
    ASSUME NEW a \in Answers, NEW b \in Answers, NEW wl \in ToSet(OWorkloads),
           Answered(a, wl) = <<>> \/ Answered(a, wl) = Answered(b, wl),
           \A i \in 1 .. make_workloads(wl) : a[wl][i] = QueryError <=> b[wl][i] = QueryError
    PROVE  a[wl] = b[wl]
<1> DEFINE s == a[wl]
           t == b[wl]
           m == make_workloads(wl)
<1>1. /\ s \in Seq(Int) /\ t \in Seq(Int) /\ Len(s) = m /\ Len(t) = m
      /\ \A i \in 1 .. m : s[i] \in OCounts <=> s[i] # QueryError
      /\ \A i \in 1 .. m : t[i] \in OCounts <=> t[i] # QueryError
      /\ \A i \in 1 .. m : s[i] = QueryError <=> t[i] = QueryError
      /\ Answered(a, wl) = Kept(s, OCounts) /\ Answered(b, wl) = Kept(t, OCounts)
  BY AnswersOf DEF Answered
<1>0. /\ s \in [1 .. m -> OCounts \cup {QueryError}] /\ t \in [1 .. m -> OCounts \cup {QueryError}]
  BY AnswersOf
<1> HIDE DEF s, t, m
<1>2. \A i \in 1 .. m : s[i] \in OCounts <=> t[i] \in OCounts
  BY <1>1
<1>3. ASSUME NEW i \in 1 .. m, s[i] \in OCounts PROVE s[i] = t[i]
  <2>1. CASE Answered(a, wl) = <<>>
    <3>1. ToSet(Kept(s, OCounts)) = ToSet(s) \cap OCounts
      BY <1>1, KeptElements
    <3>2. ToSet(Kept(s, OCounts)) = {}
      BY <1>1, <2>1 DEF ToSet
    <3>3. i \in DOMAIN s
      <4>1. s \in Seq(Int) /\ Len(s) = m
        BY <1>1
      <4> QED BY <4>1
    <3>4. s[i] \in ToSet(s)
      BY <3>3 DEF ToSet
    <3> QED BY <1>3, <3>1, <3>2, <3>4
  <2>2. CASE Answered(a, wl) = Answered(b, wl)
    <3>1. Kept(s, OCounts) = Kept(t, OCounts) /\ Len(s) = Len(t)
      BY <1>1, <2>2
    <3>2. KeptAlike(s, t, OCounts)
      BY <1>1, <1>2 DEF KeptAlike
    <3>3. \A j \in 1 .. Len(s) : s[j] \in OCounts => s[j] = t[j]
      <4>1. s \in Seq(Int) /\ t \in Seq(Int)
        BY <1>1
      <4> QED BY <4>1, <3>1, <3>2, KeptDetermines
    <3>4. i \in 1 .. Len(s)
      BY <1>1
    <3> QED BY <1>3, <3>3, <3>4
  <2> QED BY <1>1, <2>1, <2>2
<1>4. ASSUME NEW i \in 1 .. m PROVE s[i] = t[i]
  BY <1>0, <1>1, <1>2, <1>3
<1>5. s = t
  <2> DEFINE R == OCounts \cup {QueryError}
             D == 1 .. m
  <2>1. s \in [D -> R] /\ t \in [D -> R] /\ \A i \in D : s[i] = t[i]
    BY <1>0, <1>4
  <2> HIDE DEF R, D
  <2> QED BY ONLY <2>1
<1> QED BY <1>5 DEF s, t

(* A summary is that of the counts.                                        *)
LEMMA SummaryOf ==
    /\ \A a, b, wl : Answered(a, wl) = Answered(b, wl) => summarize(a, wl) = summarize(b, wl)
    /\ \A a, wl : Answered(a, wl) = <<>> => summarize(a, wl).n_runs = 0
<1>1. ASSUME NEW a, NEW wl
      PROVE  summarize(a, wl) = [n_runs |-> Len(Answered(a, wl)), total_rows |-> SumOf(Answered(a, wl))]
  <2> DEFINE counts == Answered(a, wl)
  <2>1. FoldSeq(LAMBDA n, sum : n + sum, 0, counts) = SumOf(counts)
    BY FoldIsSum, Zenon
  <2> QED BY <2>1, Zenon DEF summarize
<1>2. Len(<<>>) = 0
  OBVIOUS
<1> QED BY <1>1, <1>2

(* The answers of a measured variant, and the lack of any of one that was  *)
(* skipped or is fatal.                                                    *)
LEMMA RawAnswers ==
    ASSUME OInv, oout.state = "saved", NEW v \in ToSet(OVariants)
    PROVE  /\ v \in OMeasured => oout.variants[v].raw \in Answers
           /\ v \notin OMeasured => oout.variants[v].raw = ONoAnswers
<1>1. oout.variants[v] \in OResult
  BY DEF OInv, OTyped, OResults
<1> QED BY <1>1 DEF OResult, OMeasured

LEMMA BaselineIsVariant == "V0_baseline" \in ToSet(OVariants)
<1>1. 1 \in DOMAIN OVariants
  BY CompositeKeyAssumption
<1> QED BY <1>1, CompositeKeyAssumption DEF ToSet

(* No mismatch reported means summaries that agree, and answers that do    *)
(* where the same queries failed.                                          *)
THEOREM OkMeansWhatItSays == OSpec => []OkMeansAgreement
<1>1. OInv => OkMeansAgreement
  <2> SUFFICES ASSUME OInv, oout.ok, NEW v \in OMeasured, NEW wl \in ToSet(OWorkloads)
               PROVE  LET a         == oout.variants[v].raw
                          failed(b) == {i \in DOMAIN b[wl] : b[wl][i] = QueryError}
                      IN  /\ summarize(a, wl) = summarize(Base, wl) \/ summarize(a, wl).n_runs = 0
                          /\ "V0_baseline" \in OMeasured /\ failed(a) = failed(Base) => a[wl] = Base[wl]
    BY DEF OkMeansAgreement
  <2> DEFINE a         == oout.variants[v].raw
             failed(b) == {i \in DOMAIN b[wl] : b[wl][i] = QueryError}
  <2>1. /\ oout.state = "saved" /\ internal_verify(oout.variants)
        /\ v \in ToSet(OVariants) /\ oout.variants[v].status = "measured"
    BY DEF OInv, OSaved, OTyped, OMeasured
  <2>2. a \in Answers
    BY <2>1, RawAnswers
  <2>3. Answered(a, wl) = <<>> \/ Answered(a, wl) = Answered(Base, wl)
    BY <2>1 DEF internal_verify, Mismatch, Base
  <2> HIDE DEF a
  <2>4. summarize(a, wl) = summarize(Base, wl) \/ summarize(a, wl).n_runs = 0
    BY <2>3, SummaryOf
  <2>5. ASSUME "V0_baseline" \in OMeasured, failed(a) = failed(Base)
        PROVE  a[wl] = Base[wl]
    <3>1. Base \in Answers
      BY <2>1, <2>5, BaselineIsVariant, RawAnswers DEF Base
    <3>2. DOMAIN a[wl] = 1 .. make_workloads(wl) /\ DOMAIN Base[wl] = 1 .. make_workloads(wl)
      BY <2>2, <3>1, AnswersOf
    <3>3. ASSUME NEW i \in 1 .. make_workloads(wl)
          PROVE  a[wl][i] = QueryError <=> Base[wl][i] = QueryError
      <4>1. a[wl][i] = QueryError <=> i \in failed(a)
        BY <3>2
      <4>2. Base[wl][i] = QueryError <=> i \in failed(Base)
        BY <3>2
      <4> HIDE DEF failed
      <4> QED BY <2>5, <4>1, <4>2
    <3> HIDE DEF failed
    <3> QED BY <2>2, <2>3, <3>1, <3>3, AnswersDetermined
  <2> QED BY <2>4, <2>5 DEF a
<1> QED BY <1>1, OInvariant, PTL

(* A mismatch reported is one while the baseline was measured: some query  *)
(* had another answer.  Without a baseline any answer at all is reported.  *)
THEOREM AlarmsAreTrue == OSpec => []AlarmMeansDifference
<1> DEFINE answered(v, wl) == Answered(oout.variants[v].raw, wl)
<1>1. ASSUME OInv, oout.state = "saved", "V0_baseline" \in OMeasured, ~oout.ok
      PROVE  \E v \in OMeasured, wl \in ToSet(OWorkloads) :
                 /\ answered(v, wl) # <<>>
                 /\ \E i \in 1 .. make_workloads(wl) : oout.variants[v].raw[wl][i] # Base[wl][i]
  <2>1. ~internal_verify(oout.variants)
    BY <1>1 DEF OInv, OSaved
  <2>2. PICK v \in ToSet(OVariants), wl \in ToSet(OWorkloads) :
          /\ oout.variants[v].status = "measured"
          /\ answered(v, wl) # <<>> /\ answered(v, wl) # Answered(Base, wl)
    BY <2>1 DEF internal_verify, Mismatch, Base
  <2>3. v \in OMeasured
    BY <1>1, <2>2 DEF OMeasured
  <2> DEFINE a == oout.variants[v].raw
             m == make_workloads(wl)
  <2>4. a \in Answers /\ Base \in Answers
    BY <1>1, <2>3, BaselineIsVariant, RawAnswers DEF Base
  <2>5. a[wl] # Base[wl]
    BY <2>2 DEF Answered
  <2>6. /\ a[wl] \in [1 .. m -> OCounts \cup {QueryError}]
        /\ Base[wl] \in [1 .. m -> OCounts \cup {QueryError}]
    BY <2>4, AnswersOf
  <2> HIDE DEF a, m
  <2>7. \E i \in 1 .. m : a[wl][i] # Base[wl][i]
    <3> DEFINE R == OCounts \cup {QueryError}
               D == 1 .. m
               f == a[wl]
               g == Base[wl]
    <3>1. f # g /\ f \in [D -> R] /\ g \in [D -> R]
      BY <2>5, <2>6
    <3> SUFFICES \E i \in D : f[i] # g[i]
      OBVIOUS
    <3> HIDE DEF R, D, f, g
    <3> QED BY ONLY <3>1
  <2> QED BY <2>2, <2>3, <2>7 DEF a, m
<1>2. ASSUME OInv, oout.state = "saved", "V0_baseline" \notin OMeasured
      PROVE  ~oout.ok <=> \E v \in OMeasured, wl \in ToSet(OWorkloads) : answered(v, wl) # <<>>
  <2>1. Base = ONoAnswers
    BY <1>2, BaselineIsVariant, RawAnswers DEF Base
  <2>2. ASSUME NEW wl \in ToSet(OWorkloads) PROVE Answered(Base, wl) = <<>>
    BY <2>1, KeptEmpty DEF Answered, ONoAnswers
  <2>3. oout.ok <=> internal_verify(oout.variants)
    BY <1>2 DEF OInv, OSaved, OTyped
  <2>4. OMeasured = {v \in ToSet(OVariants) \ {"V0_baseline"} : oout.variants[v].status = "measured"}
    BY <1>2 DEF OMeasured
  <2>5. internal_verify(oout.variants) <=>
          \A v \in OMeasured, wl \in ToSet(OWorkloads) :
              ~(answered(v, wl) # <<>> /\ answered(v, wl) # Answered(Base, wl))
    BY <2>4 DEF internal_verify, Mismatch, Base
  <2> QED BY <2>2, <2>3, <2>5
<1>3. OInv => AlarmMeansDifference
  BY <1>1, <1>2 DEF AlarmMeansDifference
<1> QED BY <1>3, OInvariant, PTL

(* The variables of the composite keys keep their types, and what is asked *)
(* is on disk.                                                             *)
THEOREM OTypes == OSpec => []OTypeOK
<1>1. OInv => OTypeOK
  <2>1. OTyped => ToSet(otodo) \subseteq ToSet(OVariants)
    BY DEF OTyped, ToSet
  <2> QED BY <2>1 DEF OInv, OTyped, OTypeOK, OResults
<1> QED BY <1>1, OInvariant, PTL

-----------------------------------------------------------------------------
(* Calibration.                                                            *)

(* What was picked is what the column says. *)
CalInv ==
    /\ column \in Columns
    /\ picks # <<>> => column.counts # <<>> /\ picks = [t \in Targets |-> pick(column, t)]

(* The picks are those of the column, whenever they are there.             *)
LEMMA CalInvariant == CalibrationSpec => []CalInv
<1>1. CalibrationInit => CalInv
  BY DEF CalibrationInit, CalInv
<1>2. CalInv /\ [CalibrationNext]_CalibrationVars => CalInv'
  BY DEF CalInv, CalibrationNext, calibrate_predicates, CalibrationVars
<1> QED BY <1>1, <1>2, PTL DEF CalibrationSpec

(* A target is some of the rows.                                           *)
LEMMA TargetsType == \A t \in Targets : t \in Nat /\ t >= 1
<1> DEFINE S == 1 .. 10000
<1>1. Targets \subseteq S
  BY CalibrationAssumption
<1>2. \A n \in S : n \in Nat /\ n >= 1
  OBVIOUS
<1> HIDE DEF S
<1> QED BY <1>1, <1>2

(* The counts add up to their sum.                                         *)
LEMMA CountsAddUp == \A s : Sum(s) = SumOf(s)
BY FoldIsSum DEF Sum

(* The rows of a column are counted, and there are some.                   *)
LEMMA ColumnRows ==
    ASSUME NEW c \in Columns, c.counts # <<>>
    PROVE  /\ c.counts \in Seq(Nat) /\ DOMAIN cum(c) = DOMAIN c.counts /\ 1 \in DOMAIN c.counts
           /\ DOMAIN c.counts \subseteq Nat
           /\ \A k \in DOMAIN c.counts : cum(c)[k] \in Nat /\ cum(c)[k] = Sum([i \in 1 .. k |-> c.counts[i]])
           /\ n_total(c) \in Nat /\ n_total(c) >= 1
<1> DEFINE counts == c.counts
<1>1. counts \in Seq(Nat \ {0}) /\ counts # <<>> /\ c.nulls \in Nat
  BY CalibrationAssumption
<1>2. DOMAIN cum(c) = DOMAIN counts /\ \A k \in DOMAIN counts : cum(c)[k] = Sum(SubSeq(counts, 1, k))
  BY DEF cum
<1> HIDE DEF counts
<1>3. counts \in Seq(Nat)
  BY <1>1, SeqMonotonic
<1>4. \A s : Sum(s) = SumOf(s)
  BY CountsAddUp
<1>5. ASSUME NEW k \in DOMAIN counts
      PROVE  /\ SubSeq(counts, 1, k) = [i \in 1 .. k |-> counts[i]]
             /\ SubSeq(counts, 1, k) \in Seq(Nat)
  <2>1. k \in 1 .. Len(counts) /\ Len(counts) \in Nat
    BY <1>3
  <2> DEFINE s == SubSeq(counts, 1, k)
             t == [i \in 1 .. k |-> counts[i]]
  <2>2. \A i \in 1 .. k : counts[i] \in Nat
    BY <1>3, <2>1
  <2>3. s \in Seq(Nat) /\ Len(s) = k /\ \A i \in 1 .. k : s[i] = counts[i]
    <3>1. /\ s \in Seq(Nat) /\ Len(s) = IF 1 <= k THEN k - 1 + 1 ELSE 0
          /\ \A i \in 1 .. (k - 1 + 1) : s[i] = counts[1 + i - 1]
      BY <2>1, <2>2, SubSeqProperties
    <3> HIDE DEF s
    <3> QED BY <2>1, <3>1
  <2>4. t \in Seq(Nat) /\ Len(t) = k /\ \A i \in 1 .. k : t[i] = counts[i]
    BY <2>1, <2>2
  <2> HIDE DEF s, t
  <2>5. s = t
    BY <2>3, <2>4, SeqEqual
  <2> QED BY <2>3, <2>5 DEF s, t
<1>6. Sum(counts) \in Nat /\ Sum(counts) >= 1
  <2>1. PICK s \in Seq(Nat \ {0}), x \in Nat \ {0} : counts = Append(s, x)
    BY <1>1, SequenceEmptyOrAppend
  <2>2. s \in Seq(Nat)
    BY SeqMonotonic
  <2>3. SumOf(counts) = SumOf(s) + x /\ SumOf(s) \in Nat
    BY <2>1, <2>2, SumSeqAppend
  <2> QED BY <1>4, <2>3
<1>7. n_total(c) = Sum(counts) + c.nulls
  BY DEF n_total, counts
<1>8. n_total(c) \in Nat /\ n_total(c) >= 1
  BY <1>1, <1>6, <1>7
<1>9. \A k \in DOMAIN counts : cum(c)[k] \in Nat /\ cum(c)[k] = Sum([i \in 1 .. k |-> counts[i]])
  BY <1>2, <1>4, <1>5, SumSeqAppend
<1>10. 1 \in DOMAIN counts /\ DOMAIN counts \subseteq Nat
  <2>1. DOMAIN counts = 1 .. Len(counts) /\ Len(counts) \in Nat /\ Len(counts) # 0
    BY <1>1
  <2> QED BY <2>1
<1> QED BY <1>2, <1>3, <1>8, <1>9, <1>10 DEF counts

(* The nearest counts of rows, and the first of them.                      *)
LEMMA NearestIsNearest ==
    ASSUME NEW c \in Columns, c.counts # <<>>, NEW t, target_count(c, t) \in Nat
    PROVE  /\ nearest(c, t) \in DOMAIN cum(c)
           /\ \A j \in DOMAIN cum(c) :
                 Distance(cum(c)[nearest(c, t)], target_count(c, t)) <= Distance(cum(c)[j], target_count(c, t))
<1> DEFINE I    == DOMAIN cum(c)
           d(i) == Distance(cum(c)[i], target_count(c, t))
           Near == {i \in I : \A j \in I : d(i) <= d(j)}
<1>1. I # {} /\ I \subseteq Nat /\ \A i \in I : cum(c)[i] \in Nat
  BY ColumnRows
<1>2. \A i \in I : d(i) \in Nat
  BY <1>1 DEF Distance
<1> HIDE DEF d, I
<1>3. PICK i \in I : \A j \in I : d(i) <= d(j)
  <2> DEFINE T == {d(i) : i \in I}
  <2>1. T \in SUBSET Nat /\ T # {}
    BY <1>1, <1>2
  <2>2. PICK n \in T : \A m \in T : n <= m
    <3> HIDE DEF T
    <3> QED BY <2>1, LeastExists
  <2> QED BY <2>2
<1>4. Near \in SUBSET Nat /\ Near # {}
  BY <1>1, <1>3
<1>5. PICK n \in Near : \A m \in Near : n <= m
  <2> HIDE DEF Near
  <2> QED BY <1>4, LeastExists
<1>6. n \in I /\ \A j \in I : d(n) < d(j) \/ (d(n) = d(j) /\ n <= j)
  <2> SUFFICES ASSUME NEW j \in I PROVE d(n) < d(j) \/ (d(n) = d(j) /\ n <= j)
    BY <1>5
  <2>1. d(n) <= d(j) /\ d(n) \in Nat /\ d(j) \in Nat
    BY <1>2, <1>5
  <2>2. CASE d(n) = d(j)
    <3>1. j \in Near
      BY <1>5, <2>2
    <3> QED BY <1>5, <2>2, <3>1
  <2> QED BY <2>1, <2>2
<1> DEFINE First(k) == k \in I /\ \A j \in I : d(k) < d(j) \/ (d(k) = d(j) /\ k <= j)
<1>7. nearest(c, t) = CHOOSE k \in I : \A j \in I : d(k) < d(j) \/ (d(k) = d(j) /\ k <= j)
  BY DEF nearest, d, I
<1>8. First(nearest(c, t))
  BY <1>6, <1>7
<1>9. \A j \in I : d(nearest(c, t)) <= d(j)
  <2> SUFFICES ASSUME NEW j \in I PROVE d(nearest(c, t)) <= d(j)
    OBVIOUS
  <2>1. d(nearest(c, t)) \in Nat /\ d(j) \in Nat
    BY <1>2, <1>8
  <2> QED BY <1>8, <2>1
<1> QED BY <1>8, <1>9 DEF d, I

(* The target of a whole number of rows is that number.                    *)
LEMMA WholeTarget ==
    ASSUME NEW c \in Columns, c.counts # <<>>, NEW t \in Targets
    PROVE  /\ target_count(c, t) \in Nat
           /\ (t * n_total(c)) % 10000 = 0 => t * n_total(c) = 10000 * target_count(c, t)
<1> DEFINE p == t * n_total(c)
           q == p \div 10000
<1>1. t \in Nat /\ t >= 1 /\ n_total(c) \in Nat /\ n_total(c) >= 1
  <2>1. t \in Nat /\ t >= 1
    BY TargetsType
  <2>2. n_total(c) \in Nat /\ n_total(c) >= 1
    BY ColumnRows
  <2> QED BY <2>1, <2>2
<1>2. p \in Nat /\ p >= 1
  BY <1>1
<1>3. target_count(c, t) = IF Round(p, 10000) < 1 THEN 1 ELSE Round(p, 10000)
  BY DEF target_count
<1> HIDE DEF p
<1> DEFINE r == p % 10000
<1>4. q \in Int /\ r \in 0 .. 9999 /\ p = 10000 * q + r
  BY <1>2
<1>5. Round(p, 10000) = IF 2 * r > 10000 \/ (2 * r = 10000 /\ q % 2 = 1) THEN q + 1 ELSE q
  BY DEF Round
<1> DEFINE odd == q % 2 = 1
           n   == Round(p, 10000)
<1> HIDE DEF q, r, odd, n
<1>6. q \in Nat
  BY ONLY <1>2, <1>4
<1>7. n \in {q, q + 1} /\ (r = 0 => n = q)
  <2>1. n = IF 2 * r > 10000 \/ (2 * r = 10000 /\ odd) THEN q + 1 ELSE q
    BY <1>5 DEF n, odd
  <2> QED BY ONLY <1>4, <2>1
<1>8. target_count(c, t) = IF n < 1 THEN 1 ELSE n
  BY <1>3 DEF n
<1>9. target_count(c, t) \in Nat
  BY ONLY <1>6, <1>7, <1>8
<1>10. ASSUME r = 0 PROVE p = 10000 * target_count(c, t)
  BY ONLY <1>2, <1>4, <1>6, <1>7, <1>8, <1>10
<1> QED BY <1>9, <1>10 DEF p, r

(* The nearer of two counts is within the tolerance if the other is.       *)
LEMMA NearerIsWithin ==
    ASSUME NEW c, NEW t \in Nat, NEW n \in Nat, n = n_total(c),
           NEW target \in Nat, t * n = 10000 * target,
           NEW a \in Nat, NEW b \in Nat, Distance(a, target) <= Distance(b, target),
           Within(c, b, t)
    PROVE  Within(c, a, t)
<1>1. ASSUME NEW m \in Nat
      PROVE  /\ Within(c, m, t) <=> 10 * Distance(m, target) <= 3 * target
             /\ Distance(m, target) \in Nat
  <2>1. 3 * t * n = 3 * (t * n)
    OBVIOUS
  <2>2. Within(c, m, t) <=> 10 * Distance(m * 10000, 10000 * target) <= 3 * (10000 * target)
    BY <2>1 DEF Within
  <2>3. Distance(m * 10000, 10000 * target) = 10000 * Distance(m, target) /\ Distance(m, target) \in Nat
    BY DEF Distance
  <2> QED BY <2>2, <2>3
<1> QED BY <1>1

(* No count of rows is more than the table's.                              *)
LEMMA RowsOfTable ==
    ASSUME NEW c \in Columns, c.counts # <<>>, NEW k \in DOMAIN c.counts
    PROVE  cum(c)[k] \in 0 .. n_total(c)
<1> DEFINE s == c.counts
<1>1. s \in Seq(Nat) /\ k \in 1 .. Len(s) /\ Len(s) \in Nat /\ c.nulls \in Nat
  <2>1. c.nulls \in Nat
    BY CalibrationAssumption
  <2>2. s \in Seq(Nat)
    BY ColumnRows
  <2> QED BY <2>1, <2>2
<1> DEFINE rows == SumOf([i \in 1 .. k |-> s[i]])
<1>2. \A u : Sum(u) = SumOf(u)
  BY CountsAddUp
<1>3. cum(c)[k] \in Nat /\ cum(c)[k] = rows
  BY <1>2, ColumnRows
<1>4. n_total(c) = SumOf(s) + c.nulls
  BY <1>2 DEF n_total
<1> HIDE DEF s, rows
<1>5. rows <= SumOf(s) /\ SumOf(s) \in Nat
  <2>1. k \in 0 .. Len(s)
    BY <1>1
  <2>2. rows <= SumOf(s)
    BY <1>1, <2>1, PrefixSums DEF rows
  <2> QED BY <1>1, <2>2, SumSeqAppend
<1>6. rows \in Nat /\ c.nulls \in Nat
  BY <1>1, <1>3
<1> QED BY ONLY <1>3, <1>4, <1>5, <1>6

(* Every pick keeps its type: it is a value of the column, and a number of *)
(* the table's rows.                                                       *)
THEOREM CalibrationTypes == CalibrationSpec => []CalibrationTypeOK
<1>1. ASSUME CalInv, picks # <<>>
      PROVE  picks \in [Targets -> [predicate_k : DOMAIN column.counts,
                                    actual_rows : 0 .. n_total(column), feasible : BOOLEAN]]
  <2>1. column \in Columns /\ column.counts # <<>> /\ picks = [t \in Targets |-> pick(column, t)]
    BY <1>1 DEF CalInv
  <2>2. ASSUME NEW t \in Targets
        PROVE  pick(column, t) \in [predicate_k : DOMAIN column.counts,
                                    actual_rows : 0 .. n_total(column), feasible : BOOLEAN]
    <3> DEFINE i0 == nearest(column, t)
    <3>1. target_count(column, t) \in Nat
      BY <2>1, WholeTarget
    <3>2. i0 \in DOMAIN column.counts
      BY <2>1, <3>1, NearestIsNearest, ColumnRows
    <3>3. cum(column)[i0] \in 0 .. n_total(column)
      BY <2>1, <3>2, RowsOfTable
    <3>4. Within(column, cum(column)[i0], t) \in BOOLEAN
      BY DEF Within
    <3>5. pick(column, t) = [predicate_k |-> i0, actual_rows |-> cum(column)[i0],
                             feasible |-> Within(column, cum(column)[i0], t)]
      BY DEF pick
    <3> HIDE DEF i0
    <3> QED BY <3>2, <3>3, <3>4, <3>5
  <2> QED BY <2>1, <2>2
<1>2. CalInv => CalibrationTypeOK
  BY <1>1 DEF CalInv, CalibrationTypeOK
<1> QED BY <1>2, CalInvariant, PTL

(* A label that is used tells the truth, and none is refused that a whole  *)
(* number of rows could have been found for.                               *)
THEOREM LabelsAreHonest == CalibrationSpec => []CalibrationIsHonest
<1>1. CalInv => CalibrationIsHonest
  <2> SUFFICES ASSUME CalInv, picks # <<>>, NEW t \in Targets
               PROVE  LET p       == picks[t]
                          Rows(k) == Sum([i \in 1 .. k |-> column.counts[i]])
                      IN  /\ p.feasible => Rows(p.predicate_k) = p.actual_rows
                          /\ p.feasible => Within(column, Rows(p.predicate_k), t)
                          /\ ~p.feasible /\ (t * n_total(column)) % 10000 = 0 =>
                                 \A k \in DOMAIN column.counts : ~Within(column, Rows(k), t)
    BY DEF CalibrationIsHonest
  <2> DEFINE p       == picks[t]
             i0      == nearest(column, t)
             Rows(k) == Sum([i \in 1 .. k |-> column.counts[i]])
  <2>1. column \in Columns /\ column.counts # <<>> /\ p = pick(column, t)
    BY DEF CalInv
  <2>2. /\ p.predicate_k = i0 /\ p.actual_rows = cum(column)[i0]
        /\ p.feasible = Within(column, cum(column)[i0], t)
    BY <2>1 DEF pick
  <2>3. target_count(column, t) \in Nat
    BY <2>1, WholeTarget
  <2>4. /\ i0 \in DOMAIN cum(column)
        /\ \A j \in DOMAIN cum(column) :
              Distance(cum(column)[i0], target_count(column, t)) <= Distance(cum(column)[j], target_count(column, t))
    BY <2>1, <2>3, NearestIsNearest
  <2>5. /\ DOMAIN cum(column) = DOMAIN column.counts
        /\ \A k \in DOMAIN column.counts : cum(column)[k] \in Nat /\ cum(column)[k] = Rows(k)
        /\ n_total(column) \in Nat
    BY <2>1, ColumnRows
  <2> HIDE DEF p, i0, Rows
  <2>6. ASSUME ~p.feasible, (t * n_total(column)) % 10000 = 0, NEW k \in DOMAIN column.counts
        PROVE  ~Within(column, Rows(k), t)
    <3> SUFFICES ASSUME Within(column, cum(column)[k], t) PROVE FALSE
      BY <2>5
    <3>1. t * n_total(column) = 10000 * target_count(column, t)
      BY <2>1, <2>6, WholeTarget
    <3>5. t \in Nat
      BY TargetsType
    <3>2. cum(column)[i0] \in Nat /\ cum(column)[k] \in Nat
      BY <2>4, <2>5
    <3>3. Distance(cum(column)[i0], target_count(column, t)) <= Distance(cum(column)[k], target_count(column, t))
      BY <2>4, <2>5
    <3>4. Within(column, cum(column)[i0], t)
      BY <2>3, <2>5, <3>1, <3>2, <3>3, <3>5, NearerIsWithin
    <3> QED BY <2>2, <2>6, <3>4
  <2>7. p.feasible => Rows(p.predicate_k) = p.actual_rows /\ Within(column, Rows(p.predicate_k), t)
    BY <2>2, <2>4, <2>5
  <2> QED BY <2>6, <2>7 DEF p, Rows
<1> QED BY <1>1, CalInvariant, PTL

-----------------------------------------------------------------------------
(* ReadCascade.                                                            *)

(* A note is what there is at its version. *)
NotedAt(versions, n) == n.version \in DOMAIN versions /\ n = Noted(versions, n.version)
NotesOf(versions, p) ==
    NotedAt(versions, p.E) /\ \A i \in DOMAIN p.compactions : NotedAt(versions, p.compactions[i].note)

NotesTrue ==
    /\ rcascade.pc # "none" => NotesOf(rversions, rcascade.results)
    /\ rplan.state = "saved" => NotesOf(rversions, rplan)
    /\ rread.pc # "none" => NotedAt(rversions, rread.note)
    /\ \A t \in RNames : rreads[t].state = "saved" => NotedAt(rversions, rreads[t].note)

(* The steps before those of todo are noted, in the order of the plan. *)
Follows(notes, todo) ==
    /\ Len(notes) + Len(todo) = Len(plan)
    /\ \A i \in 1 .. Len(notes) : notes[i].tag = plan[i].tag
    /\ \A j \in 1 .. Len(todo) : todo[j] = plan[Len(notes) + j]

StepsNoted ==
    /\ rcascade.pc # "none" => Follows(rcascade.results.compactions, rcascade.todo)
    /\ rplan.state = "saved" => Follows(rplan.compactions, <<>>)

(* The latest version is the latest of the latest build, and versions of   *)
(* one build after as many appends have as many rows. *)
Newest ==
    \A v \in DOMAIN rversions :
        /\ rversions[v].build <= rversions[latest].build
        /\ rversions[latest].build <= rstarts["builds"]
        /\ rversions[v].build = rversions[latest].build =>
              rversions[v].appends <= rversions[latest].appends
SameRows ==
    \A u, v \in DOMAIN rversions :
        rversions[u].build = rversions[v].build /\ rversions[u].appends = rversions[v].appends =>
            SumOf(rversions[u].frags) = SumOf(rversions[v].frags)

(* t goes on where s ends. *)
Starts(s, t) == Len(s) <= Len(t) /\ \A i \in 1 .. Len(s) : s[i] = t[i]

(* What is being compacted comes first of the latest version, unless that  *)
(* was built anew. *)
Prefix ==
    rcascade.pc = "commit" =>
        /\ rcascade.handle \in DOMAIN rversions
        /\ rversions[rcascade.handle].build = rversions[latest].build =>
              Starts(rversions[rcascade.handle].frags, rversions[latest].frags)

(* The first row of a report is A's, and both ends of a comparison are in. *)
Relative(rep) ==
    rep.baseline = "A" /\ (rep.spark => {"A", "E"} \subseteq ToSet(rep.tags))
Reported ==
    /\ rreporter.pc # "none" => Relative(rreporter.report)
    /\ rreport.state = "saved" => Relative(rreport)

RInv == RTypeOK /\ NotesTrue /\ StepsNoted /\ Newest /\ SameRows /\ Prefix /\ Reported

(* The rows of a version are the sum of those of its fragments.            *)
LEMMA RowsAreSum == \A fs : RowsOf(fs) = SumOf(fs)
BY FoldIsSum DEF RowsOf

(* r[k] is what the first k fragments are merged into. *)
MergeRun(r, fs, target) ==
    r[0] = <<>> /\ \A k \in 1 .. Len(fs) : r[k] = Joined(r[k - 1], fs[k], target)

(* One more fragment is joined to the last, or put behind it: the rows are *)
(* all there.                                                              *)
LEMMA JoinedRows ==
    ASSUME NEW acc \in Seq(Nat), NEW n \in Nat, NEW target \in Nat
    PROVE  Joined(acc, n, target) \in Seq(Nat) /\ SumOf(Joined(acc, n, target)) = SumOf(acc) + n
<1>1. CASE acc # <<>> /\ n < target /\ Last(acc) < target
  <2>1. PICK s \in Seq(Nat), x \in Nat : acc = Append(s, x)
    BY <1>1, SequenceEmptyOrAppend
  <2>2. Last(acc) = x /\ Front(acc) = s
    <3>1. Len(acc) = Len(s) + 1 /\ acc[Len(s) + 1] = x /\ \A i \in 1 .. Len(s) : acc[i] = s[i]
      BY <2>1, AppendProperties
    <3>2. Len(s) \in Nat
      OBVIOUS
    <3>3. Front(acc) \in Seq(Nat) /\ Len(Front(acc)) = Len(s) /\ \A i \in 1 .. Len(s) : Front(acc)[i] = s[i]
      <4>1. Front(acc) = SubSeq(acc, 1, Len(s))
        BY <3>1, <3>2 DEF Front
      <4>2. \A i \in 1 .. Len(s) : acc[i] \in Nat
        BY <3>1
      <4> DEFINE f == SubSeq(acc, 1, Len(s))
      <4>3. /\ f \in Seq(Nat) /\ Len(f) = IF 1 <= Len(s) THEN Len(s) - 1 + 1 ELSE 0
            /\ \A i \in 1 .. (Len(s) - 1 + 1) : f[i] = acc[1 + i - 1]
        BY <3>2, <4>2, SubSeqProperties
      <4> HIDE DEF f
      <4>4. f \in Seq(Nat) /\ Len(f) = Len(s) /\ \A i \in 1 .. Len(s) : f[i] = s[i]
        BY <3>1, <3>2, <4>3
      <4> QED BY <4>1, <4>4 DEF f
    <3>4. Front(acc) = s
      BY <3>3, SeqEqual
    <3> QED BY <3>1, <3>4 DEF Last
  <2>3. Joined(acc, n, target) = Append(s, x + n)
    BY <1>1, <2>2 DEF Joined
  <2>4. SumOf(Append(s, x + n)) = SumOf(s) + (x + n) /\ SumOf(acc) = SumOf(s) + x /\ SumOf(s) \in Nat
    BY <2>1, SumSeqAppend
  <2>5. Append(s, x + n) \in Seq(Nat)
    BY AppendProperties
  <2> QED BY <2>3, <2>4, <2>5
<1>2. CASE ~(acc # <<>> /\ n < target /\ Last(acc) < target)
  <2>1. Joined(acc, n, target) = Append(acc, n)
    BY <1>2 DEF Joined
  <2> QED BY <2>1, SumSeqAppend, AppendProperties
<1> QED BY <1>1, <1>2

(* A compaction goes through the fragments one by one.                     *)
LEMMA MergeRuns ==
    ASSUME NEW fs \in Seq(Nat), NEW target \in Nat
    PROVE  \E r : MergeRun(r, fs, target) /\ Merge(fs, target) = r[Len(fs)]
<1> DEFINE n == Len(fs)
           A == Seq(Nat)
           fold == [ka \in (1 .. n) \X A |-> Joined(ka[2], fs[ka[1]], target)]
           IsMerge(g) == g = [s \in SUBSET DOMAIN fs |->
                                 IF s = {} THEN <<>> ELSE Joined(g[s \ {Max(s)}], fs[Max(s)], target)]
           merge == CHOOSE g : IsMerge(g)
<1>1. n \in Nat /\ DOMAIN fs = 1 .. n /\ \A k \in 1 .. n : fs[k] \in Nat
  OBVIOUS
<1> HIDE DEF n
<1>2. <<>> \in A
  OBVIOUS
<1>3. \A a \in A : \A m \in Nat : Joined(a, m, target) \in A
  BY JoinedRows
<1>4. fold \in [(1 .. n) \X A -> A]
  <2>1. ASSUME NEW ka \in (1 .. n) \X A PROVE Joined(ka[2], fs[ka[1]], target) \in A
    <3>1. ka[1] \in 1 .. n /\ ka[2] \in A
      OBVIOUS
    <3> HIDE DEF A
    <3> QED BY <1>1, <1>3, <3>1
  <2> HIDE DEF A
  <2> QED BY <2>1
<1>5. \A k \in 1 .. n : \A a \in A : fold[<<k, a>>] = Joined(a, fs[k], target)
  <2> HIDE DEF A
  <2> QED OBVIOUS
<1> HIDE DEF fold, A
<1>6. PICK g \in [SUBSET (1 .. n) -> A] : IsLeftFold(g, n, <<>>, fold)
  BY <1>1, <1>2, <1>4, LeftFoldExists
<1>7. ASSUME NEW s \in SUBSET (1 .. n), s # {} PROVE Max(s) \in 1 .. n
  BY <1>1, <1>7, LastFirst DEF IsChoice
<1>8. \A s \in SUBSET (1 .. n) :
         g[s] = IF s = {} THEN <<>> ELSE Joined(g[s \ {Max(s)}], fs[Max(s)], target)
  <2> TAKE s \in SUBSET (1 .. n)
  <2>1. CASE s = {}
    BY <1>6, <2>1 DEF IsLeftFold
  <2>2. CASE s # {}
    <3>1. g[s] = fold[<<Max(s), g[s \ {Max(s)}]>>]
      BY <1>6, <2>2 DEF IsLeftFold
    <3>2. g[s \ {Max(s)}] \in A /\ Max(s) \in 1 .. n
      BY <1>7, <2>2
    <3> QED BY <1>5, <2>2, <3>1, <3>2
  <2> QED BY <2>1, <2>2
<1>9. IsMerge(g)
  BY <1>1, <1>6, <1>8
<1>10. IsMerge(merge)
  <2> HIDE DEF IsMerge
  <2> QED BY <1>9, Zenon
<1>11. Merge(fs, target) = merge[1 .. n]
  BY <1>1 DEF Merge, FoldLeft, MapThenFoldSet
<1> HIDE DEF merge
<1> DEFINE r == [k \in 0 .. n |-> merge[1 .. k]]
<1>12. r[0] = <<>> /\ r[n] = merge[1 .. n]
  BY <1>1, <1>10, LastFirst
<1>13. ASSUME NEW k \in 1 .. n PROVE r[k] = Joined(r[k - 1], fs[k], target)
  <2>1. merge[1 .. k] = Joined(merge[1 .. (k - 1)], fs[k], target)
    <3>1. /\ 1 .. k \in SUBSET DOMAIN fs /\ 1 .. k # {}
          /\ Max(1 .. k) = k /\ (1 .. k) \ {Max(1 .. k)} = 1 .. (k - 1)
      BY <1>1, LastFirst
    <3>2. merge[1 .. k] = Joined(merge[(1 .. k) \ {Max(1 .. k)}], fs[Max(1 .. k)], target)
      BY <1>10, <3>1
    <3> QED BY <3>1, <3>2
  <2>2. k - 1 \in 0 .. n /\ k \in 0 .. n
    BY <1>1
  <2> QED BY <2>1, <2>2
<1> HIDE DEF r
<1>14. MergeRun(r, fs, target)
  BY <1>12, <1>13 DEF MergeRun, n
<1> QED BY <1>11, <1>12, <1>14 DEF n

(* A compaction loses no row and makes none.                               *)
LEMMA MergeRows ==
    ASSUME NEW fs \in Seq(Nat), NEW target \in Nat
    PROVE  Merge(fs, target) \in Seq(Nat) /\ SumOf(Merge(fs, target)) = SumOf(fs)
<1> DEFINE OneMore(s) == \A r : MergeRun(r, s, target) =>
                            r[Len(s)] \in Seq(Nat) /\ SumOf(r[Len(s)]) = SumOf(s)
           P == {s \in Seq(Nat) : OneMore(s)}
<1>1. <<>> \in P
  <2>1. Len(<<>>) = 0 /\ <<>> \in Seq(Nat)
    OBVIOUS
  <2> QED BY <2>1 DEF MergeRun
<1>2. ASSUME NEW s \in Seq(Nat), NEW n \in Nat, s \in P PROVE Append(s, n) \in P
  <2> DEFINE t == Append(s, n)
  <2>1. /\ t \in Seq(Nat) /\ Len(t) = Len(s) + 1 /\ t[Len(s) + 1] = n /\ Len(s) \in Nat
        /\ \A i \in 1 .. Len(s) : t[i] = s[i]
    BY AppendProperties
  <2>2. SumOf(t) = SumOf(s) + n
    BY SumSeqAppend
  <2> HIDE DEF t
  <2> SUFFICES ASSUME NEW r, MergeRun(r, t, target)
               PROVE  r[Len(t)] \in Seq(Nat) /\ SumOf(r[Len(t)]) = SumOf(t)
    BY <2>1 DEF t
  <2>3. r[0] = <<>> /\ \A k \in 1 .. Len(t) : r[k] = Joined(r[k - 1], t[k], target)
    BY DEF MergeRun
  <2>4. MergeRun(r, s, target)
    <3>1. \A k \in 1 .. Len(s) : k \in 1 .. Len(t)
      BY <2>1
    <3> QED BY <2>1, <2>3, <3>1 DEF MergeRun
  <2>5. r[Len(s)] \in Seq(Nat) /\ SumOf(r[Len(s)]) = SumOf(s)
    BY <1>2, <2>4
  <2>6. Len(t) \in 1 .. Len(t) /\ Len(t) - 1 = Len(s)
    BY <2>1
  <2>7. r[Len(t)] = Joined(r[Len(s)], n, target)
    BY <2>1, <2>3, <2>6
  <2>8. /\ Joined(r[Len(s)], n, target) \in Seq(Nat)
        /\ SumOf(Joined(r[Len(s)], n, target)) = SumOf(r[Len(s)]) + n
    BY <2>5, JoinedRows
  <2> HIDE DEF P
  <2> QED BY <2>2, <2>5, <2>7, <2>8
<1>3. fs \in P
  <2> HIDE DEF P
  <2> QED BY <1>1, <1>2, SeqSetInduction
<1>4. PICK r : MergeRun(r, fs, target) /\ Merge(fs, target) = r[Len(fs)]
  BY MergeRuns
<1> QED BY <1>3, <1>4

(* What appends put behind the fragments that are merged stays there.      *)
LEMMA CommittedRows ==
    ASSUME NEW old \in Seq(Nat), NEW new \in Seq(Nat), NEW target \in Nat, Starts(old, new)
    PROVE  LET fs == Merge(old, target) \o SubSeq(new, Len(old) + 1, Len(new))
           IN  fs \in Seq(Nat) /\ SumOf(fs) = SumOf(new)
<1> DEFINE rest == SubSeq(new, Len(old) + 1, Len(new))
           m    == Merge(old, target)
<1>1. /\ Len(old) \in Nat /\ Len(new) \in Nat /\ Len(old) <= Len(new)
      /\ \A i \in 1 .. Len(old) : old[i] = new[i]
  BY DEF Starts
<1>2. /\ rest \in Seq(Nat) /\ Len(rest) = Len(new) - Len(old)
      /\ \A i \in 1 .. (Len(new) - Len(old)) : rest[i] = new[Len(old) + i]
  <2>1. \A i \in Len(old) + 1 .. Len(new) : new[i] \in Nat
    BY <1>1
  <2>2. Len(old) + 1 \in Int /\ Len(new) \in Int
    BY <1>1
  <2>3. /\ rest \in Seq(Nat)
        /\ Len(rest) = IF Len(old) + 1 <= Len(new) THEN Len(new) - (Len(old) + 1) + 1 ELSE 0
        /\ \A i \in 1 .. (Len(new) - (Len(old) + 1) + 1) : rest[i] = new[Len(old) + 1 + i - 1]
    BY <2>1, <2>2, SubSeqProperties
  <2> HIDE DEF rest
  <2> QED BY <1>1, <2>3
<1> HIDE DEF rest
<1>3. old \o rest = new
  <2> DEFINE s == old \o rest
  <2>1. /\ s \in Seq(Nat) /\ Len(s) = Len(old) + Len(rest)
        /\ \A i \in 1 .. Len(old) + Len(rest) :
              s[i] = IF i <= Len(old) THEN old[i] ELSE rest[i - Len(old)]
    BY <1>2, ConcatProperties
  <2> HIDE DEF s
  <2>2. Len(s) = Len(new)
    BY <1>1, <1>2, <2>1
  <2>3. ASSUME NEW i \in 1 .. Len(s) PROVE s[i] = new[i]
    <3>1. i \in 1 .. Len(new) /\ i \in 1 .. Len(old) + Len(rest)
      BY <1>1, <2>1, <2>2
    <3>2. CASE i <= Len(old)
      <4>1. i \in 1 .. Len(old)
        BY <1>1, <3>1, <3>2
      <4> QED BY <1>1, <2>1, <3>1, <3>2, <4>1
    <3>3. CASE i > Len(old)
      <4>1. i - Len(old) \in 1 .. (Len(new) - Len(old)) /\ Len(old) + (i - Len(old)) = i
        BY <1>1, <3>1, <3>3
      <4>2. rest[i - Len(old)] = new[i]
        BY <1>2, <4>1
      <4>3. s[i] = rest[i - Len(old)]
        BY <1>1, <2>1, <3>1, <3>3
      <4> QED BY <4>2, <4>3
    <3> QED BY <1>1, <3>1, <3>2, <3>3
  <2>4. s = new
    BY <2>1, <2>2, <2>3, SeqEqual
  <2> QED BY <2>4 DEF s
<1>4. m \in Seq(Nat) /\ SumOf(m) = SumOf(old)
  BY MergeRows
<1> HIDE DEF m
<1>5. SumOf(m \o rest) = SumOf(m) + SumOf(rest) /\ SumOf(old \o rest) = SumOf(old) + SumOf(rest)
  BY <1>2, <1>4, SumSeqConcat
<1>6. m \o rest \in Seq(Nat)
  BY <1>2, <1>4, ConcatProperties
<1> QED BY <1>3, <1>4, <1>5, <1>6 DEF m, rest

(* What there is before anything is built, noted, read or reported.        *)
LEMMA RIdle ==
    /\ NothingNoted \in RNote /\ RNoFile \in RFile /\ RTorn \in RFile /\ RTorn.state = "torn"
    /\ RNoFile.state = "none" /\ RNoPlan.state = "none" /\ RNoReport.state = "none"
    /\ RNoPlan \in RPlan /\ RNoReport \in RReport
    /\ "smoke" \in RNames /\ Sparks \subseteq {"A", "E"}
<1>1. NothingNoted \in RNote
  BY DEF NothingNoted, RNote
<1>2. RNoFile \in RFile /\ RNoFile.state = "none"
  BY <1>1 DEF RNoFile, RFile, RStates
<1>3. RTorn \in RFile /\ RTorn.state = "torn"
  BY <1>2 DEF RTorn, RFile, RStates
<1>4. RNoPlan \in RPlan /\ RNoPlan.state = "none"
  <2>1. <<>> \in Seq([tag : STRING, note : RNote])
    BY EmptySeq
  <2> QED BY <1>1, <2>1 DEF RNoPlan, RPlan, RStates
<1>5. RNoReport \in RReport /\ RNoReport.state = "none"
  <2>1. <<>> \in Seq(RTag)
    BY EmptySeq
  <2> QED BY <2>1 DEF RNoReport, RReport, RStates
<1> QED BY <1>1, <1>2, <1>3, <1>4, <1>5 DEF RNames, Sparks

(* A plan is torn.                                                         *)
LEMMA PlanTorn ==
    [RNoPlan EXCEPT !.state = "torn"] \in RPlan /\ [RNoPlan EXCEPT !.state = "torn"].state = "torn"
BY RIdle DEF RPlan, RStates

(* The latest version is one.                                              *)
LEMMA LatestVersion ==
    ASSUME RTypeOK
    PROVE  /\ DOMAIN rversions = 1 .. latest /\ latest \in Nat
           /\ \A v \in DOMAIN rversions : rversions[v] \in RVersion /\ Noted(rversions, v) \in RNote
           /\ rversions # <<>> => /\ latest \in DOMAIN rversions /\ Last(rversions) = rversions[latest]
                                  /\ rversions[latest] \in RVersion
<1>1. rversions \in Seq(RVersion)
  BY DEF RTypeOK
<1>2. DOMAIN rversions = 1 .. latest /\ latest \in Nat /\ \A v \in DOMAIN rversions : rversions[v] \in RVersion
  BY <1>1 DEF latest
<1>3. ASSUME NEW v \in DOMAIN rversions PROVE Noted(rversions, v) \in RNote
  <2>1. rversions[v].frags \in Seq(Nat) /\ v \in Nat
    BY <1>2 DEF RVersion
  <2>2. Len(rversions[v].frags) \in Nat /\ RowsOf(rversions[v].frags) \in Nat
    <3> DEFINE fs == rversions[v].frags
    <3>1. fs \in Seq(Nat)
      BY <2>1
    <3> HIDE DEF fs
    <3>2. Len(fs) \in Nat
      BY ONLY <3>1
    <3>3. RowsOf(fs) = SumOf(fs)
      BY RowsAreSum, Zenon
    <3>4. SumOf(fs) \in Nat
      BY <3>1, SumSeqAppend, Zenon
    <3> QED BY <3>2, <3>3, <3>4, Zenon DEF fs
  <2> QED BY <2>1, <2>2 DEF Noted, RNote
<1>4. rversions # <<>> => latest \in DOMAIN rversions
  BY <1>1 DEF latest
<1> QED BY <1>2, <1>3, <1>4 DEF Last, latest

(* A version is added: of a build that begins, of one more append, or of   *)
(* the same rows in other fragments.                                       *)
Grown(x) ==
    \/ /\ x.build = rstarts["builds"] + 1 /\ rstarts'["builds"] = rstarts["builds"] + 1
       /\ rcascade' = rcascade
    \/ /\ rversions # <<>> /\ rstarts' = rstarts
       /\ x.build = rversions[latest].build /\ x.appends = rversions[latest].appends + 1
       /\ Starts(rversions[latest].frags, x.frags) /\ rcascade' = rcascade
    \/ /\ rversions # <<>> /\ rstarts' = rstarts
       /\ x.build = rversions[latest].build /\ x.appends = rversions[latest].appends
       /\ SumOf(x.frags) = SumOf(rversions[latest].frags)
       /\ \/ rcascade'.pc # "commit"
          \/ rcascade'.handle = latest + 1

(* A build begins with a version of its own.                               *)
LEMMA BuildStarts ==
    ASSUME RTypeOK, BuildStart
    PROVE  /\ \E x \in RVersion : rversions' = Append(rversions, x) /\ Grown(x)
           /\ rbuild' \in [pc : {"append"}, build : Nat, per : Nat, left : Nat \ {0}, note : RNote]
           /\ rstarts' \in [{"builds", "cascades", "reads", "reports"} -> Nat]
           /\ UNCHANGED <<rinfo, rcascade, rplan, rread, rreads, rsparks, rreporter, rreport>>
<1>1. rstarts["builds"] \in Nat /\ rstarts.builds = rstarts["builds"]
  BY DEF RTypeOK
<1>2. rstarts' = [rstarts EXCEPT !["builds"] = rstarts["builds"] + 1]
  BY DEF BuildStart, Start
<1>3. /\ rstarts' \in [{"builds", "cascades", "reads", "reports"} -> Nat]
      /\ rstarts'["builds"] = rstarts["builds"] + 1
  BY <1>1, <1>2 DEF RTypeOK
<1>4. PICK z \in RSizes : rbuild' = [BuildIdle EXCEPT !.pc = "append", !.build = rstarts.builds + 1,
                                                     !.per = z[1] \div z[2], !.left = z[2]]
  BY DEF BuildStart
<1>5. z[1] \div z[2] \in Nat /\ z[2] \in Nat \ {0}
  <2>1. z[1] \in Nat /\ z[2] \in Nat \ {0}
    BY ReadCascadeAssumption
  <2> QED BY <2>1
<1>6. rbuild' = [pc |-> "append", build |-> rstarts.builds + 1, per |-> z[1] \div z[2], left |-> z[2],
                 note |-> NothingNoted]
  BY <1>4 DEF BuildIdle
<1>7. rbuild' \in [pc : {"append"}, build : Nat, per : Nat, left : Nat \ {0}, note : RNote]
  BY <1>1, <1>5, <1>6, RIdle
<1>8. rversions' = Append(rversions, Version(rstarts.builds + 1, 0, <<>>))
  BY DEF BuildStart
<1>9. Version(rstarts.builds + 1, 0, <<>>) \in RVersion
  BY <1>1, EmptySeq DEF Version, RVersion
<1>10. Grown(Version(rstarts.builds + 1, 0, <<>>))
  BY <1>1, <1>3 DEF Grown, Version, BuildStart
<1> QED BY <1>3, <1>7, <1>8, <1>9, <1>10 DEF BuildStart

(* An append is a version of its own.                                      *)
LEMMA BuildAppends ==
    ASSUME RTypeOK, BuildAppend
    PROVE  /\ \E x \in RVersion : rversions' = Append(rversions, x) /\ Grown(x)
           /\ rbuild' \in [pc : {"append", "open"}, build : Nat, per : Nat, left : Nat, note : RNote]
           /\ rbuild'.left > 0 <=> rbuild'.pc = "append"
           /\ UNCHANGED <<rinfo, rcascade, rplan, rread, rreads, rsparks, rreporter, rreport, rstarts>>
<1>1. rversions # <<>> /\ rbuild.pc = "append" /\ rbuild.left > 0
  BY DEF RTypeOK, BuildAppend
<1>2. Last(rversions) = rversions[latest] /\ rversions[latest] \in RVersion
  BY <1>1, LatestVersion
<1> DEFINE newest == rversions[latest]
           x    == [newest EXCEPT !.appends = newest.appends + 1, !.frags = Append(newest.frags, rbuild.per)]
<1>3. rversions' = Append(rversions, x)
  BY <1>2 DEF BuildAppend
<1>4. newest \in RVersion /\ rbuild.per \in Nat
  BY <1>2 DEF RTypeOK
<1> HIDE DEF newest
<1>10. newest.build \in Nat /\ newest.appends \in Nat /\ newest.frags \in Seq(Nat)
  BY <1>4 DEF RVersion
<1>5. /\ Append(newest.frags, rbuild.per) \in Seq(Nat)
      /\ Starts(newest.frags, Append(newest.frags, rbuild.per))
  BY <1>4, <1>10, AppendProperties DEF Starts
<1>6. x = [build |-> newest.build, appends |-> newest.appends + 1, frags |-> Append(newest.frags, rbuild.per)]
  <2> DEFINE more == Append(newest.frags, rbuild.per)
  <2>1. newest \in [build : Nat, appends : Nat, frags : Seq(Nat)] /\ x = [newest EXCEPT !.appends = newest.appends + 1, !.frags = more]
    BY <1>4 DEF RVersion
  <2> HIDE DEF more, x
  <2>2. x = [build |-> newest.build, appends |-> newest.appends + 1, frags |-> more]
    BY ONLY <2>1
  <2> QED BY <2>2 DEF more
<1> HIDE DEF x
<1>7. x \in RVersion
  BY <1>5, <1>6, <1>10 DEF RVersion
<1>8. Grown(x)
  BY <1>1, <1>5, <1>6 DEF Grown, BuildAppend, newest
<1>9. /\ rbuild' \in [pc : {"append", "open"}, build : Nat, per : Nat, left : Nat, note : RNote]
      /\ rbuild'.left > 0 <=> rbuild'.pc = "append"
  <2>1. rbuild \in [pc : {"none", "append", "open", "dump"}, build : Nat, per : Nat, left : Nat, note : RNote]
    BY DEF RTypeOK
  <2>2. rbuild' = [rbuild EXCEPT !.left = rbuild.left - 1, !.pc = IF rbuild.left = 1 THEN "open" ELSE "append"]
    BY DEF BuildAppend
  <2>3. rbuild' = [pc |-> IF rbuild.left = 1 THEN "open" ELSE "append", build |-> rbuild.build,
                   per |-> rbuild.per, left |-> rbuild.left - 1, note |-> rbuild.note]
    BY <2>1, <2>2
  <2> QED BY <1>1, <2>1, <2>3
<1> QED BY <1>3, <1>7, <1>8, <1>9 DEF BuildAppend

(* The dataset is described, or the description written.                   *)
LEMMA BuildDescribes ==
    ASSUME RTypeOK, BuildOpen \/ BuildDump
    PROVE  /\ rbuild' \in [pc : {"none", "dump"}, build : Nat, per : Nat, left : Nat, note : RNote]
           /\ rbuild'.left = 0 /\ rinfo' \in RFile /\ (rbuild'.pc # "none" => rbuild.pc # "none")
           /\ UNCHANGED <<rversions, rcascade, rplan, rread, rreads, rsparks, rreporter, rreport, rstarts>>
<1>1. rbuild \in [pc : {"none", "append", "open", "dump"}, build : Nat, per : Nat, left : Nat, note : RNote]
  BY DEF RTypeOK
<1>2. CASE BuildOpen
  <2>1. rbuild.pc = "open" /\ rbuild.left = 0
    BY <1>1, <1>2 DEF BuildOpen, RTypeOK
  <2>2. Noted(rversions, latest) \in RNote
    BY <2>1, LatestVersion DEF RTypeOK
  <2> QED BY <1>1, <1>2, <2>1, <2>2, RIdle DEF BuildOpen
<1>3. CASE BuildDump
  <2>1. rbuild' = BuildIdle /\ rinfo' = [state |-> "saved", note |-> rbuild.note]
    BY <1>3 DEF BuildDump
  <2>2. rinfo' \in RFile
    BY <1>1, <2>1 DEF RFile, RStates
  <2> QED BY <1>3, <2>1, <2>2, RIdle DEF BuildDump, BuildIdle
<1> QED BY <1>2, <1>3

RStep  == [tag : STRING, target : Nat \ {0}]
RSteps == Seq(RStep)
Cascades == [pc : {"none", "plan", "commit", "note", "open", "dump"}, handle : Nat, results : RPlan,
             todo : RSteps]

(* A cascade is typed, and at a step while there are steps left. *)
Cascading(c) == c \in Cascades /\ (c.pc \in {"plan", "commit", "note"} <=> c.todo # <<>>)

(* The first of the steps left, and those after it. *)
LEMMA StepsLeft ==
    ASSUME NEW s \in RSteps, s # <<>>
    PROVE  Head(s) \in RStep /\ Tail(s) \in RSteps
BY DEF RSteps

(* Nothing is left when a cascade is not running.                          *)
LEMMA CascadeStops ==
    Cascading(CascadeIdle) /\ CascadeIdle.pc = "none"
<1>1. <<>> \in RSteps /\ 0 \in Nat
  BY EmptySeq DEF RSteps
<1>2. RNoPlan \in RPlan
  BY RIdle
<1> QED BY <1>1, <1>2 DEF CascadeIdle, Cascading, Cascades

(* A cascade starts from the latest version, with the whole plan.          *)
LEMMA CascadeStarts ==
    ASSUME RTypeOK, CascadeStart
    PROVE  /\ Cascading(rcascade') /\ rcascade'.todo = plan /\ rcascade'.pc \in {"plan", "open"}
           /\ rcascade'.results.E = Noted(rversions, latest) /\ rcascade'.results.compactions = <<>>
           /\ rversions # <<>> /\ rstarts' \in [{"builds", "cascades", "reads", "reports"} -> Nat]
           /\ rstarts'["builds"] = rstarts["builds"]
           /\ UNCHANGED <<rversions, rbuild, rinfo, rplan, rread, rreads, rsparks, rreporter, rreport>>
<1>1. /\ rversions # <<>> /\ rstarts' = [rstarts EXCEPT !["cascades"] = rstarts["cascades"] + 1]
      /\ UNCHANGED <<rversions, rbuild, rinfo, rplan, rread, rreads, rsparks, rreporter, rreport>>
  BY DEF CascadeStart, Start
<1>2. Noted(rversions, latest) \in RNote
  BY <1>1, LatestVersion
<1> DEFINE begun == [RNoPlan EXCEPT !.E = Noted(rversions, latest)]
<1>3. begun \in RPlan /\ begun.E = Noted(rversions, latest) /\ begun.compactions = <<>>
  BY <1>2, RIdle DEF RPlan, RNoPlan
<1> HIDE DEF begun
<1>4. plan \in RSteps
  BY ReadCascadeAssumption DEF RSteps, RStep
<1> DEFINE pc == IF plan = <<>> THEN "open" ELSE "plan"
<1>5. rcascade' = [pc |-> pc, todo |-> plan, handle |-> 0, results |-> begun]
  BY DEF CascadeStart, begun
<1>6. pc \in {"plan", "open"} /\ (pc = "plan" <=> plan # <<>>)
  OBVIOUS
<1> HIDE DEF pc
<1>7. Cascading(rcascade')
  BY <1>3, <1>4, <1>5, <1>6 DEF Cascading, Cascades
<1>8. /\ rstarts' \in [{"builds", "cascades", "reads", "reports"} -> Nat]
      /\ rstarts'["builds"] = rstarts["builds"]
  BY <1>1, SMTT(30) DEF RTypeOK
<1> QED BY <1>1, <1>3, <1>5, <1>6, <1>7, <1>8

(* A compaction reserves its fragments or leaves the dataset as it is; it  *)
(* commits the rows there are, or ends.                                    *)
LEMMA CompactEffect ==
    ASSUME RTypeOK, Prefix, CompactBegin \/ CompactCommits
    PROVE  /\ \/ UNCHANGED rversions /\ rcascade'.pc # "commit"
              \/ \E x \in RVersion : rversions' = Append(rversions, x) /\ Grown(x)
           /\ Cascading(rcascade')
           /\ rcascade.pc # "none"
           /\ rcascade'.pc # "none" =>
                 rcascade'.results = rcascade.results /\ rcascade'.todo = rcascade.todo
           /\ UNCHANGED <<rbuild, rinfo, rplan, rread, rreads, rsparks, rreporter, rreport, rstarts>>
<1>1. /\ rversions # <<>> /\ rcascade \in Cascades /\ rcascade.todo # <<>> /\ rcascade.pc # "none"
      /\ UNCHANGED <<rbuild, rinfo, rplan, rread, rreads, rsparks, rreporter, rreport, rstarts>>
  BY DEF CompactBegin, CompactCommits, RTypeOK, Cascades, RSteps, RStep
<1>2. /\ Last(rversions) = rversions[latest] /\ rversions[latest] \in RVersion /\ latest + 1 \in Nat
      /\ latest \in DOMAIN rversions
  BY <1>1, LatestVersion
<1>3. CASE CompactBegin
  <2>1. CASE rcascade' = [rcascade EXCEPT !.pc = "note"] /\ UNCHANGED rversions
    <3>1. /\ Cascading(rcascade') /\ rcascade'.pc = "note"
          /\ rcascade'.results = rcascade.results /\ rcascade'.todo = rcascade.todo
      BY <1>1, <2>1 DEF Cascading, Cascades
    <3> QED BY <1>1, <2>1, <3>1
  <2>2. CASE /\ rversions' = Append(rversions, Last(rversions))
             /\ rcascade' = [rcascade EXCEPT !.pc = "commit", !.handle = latest + 1]
    <3>1. rcascade' = [pc |-> "commit", handle |-> latest + 1, results |-> rcascade.results,
                       todo |-> rcascade.todo]
      BY <1>1, <2>2 DEF Cascades
    <3>2. Cascading(rcascade')
      BY <1>1, <1>2, <3>1 DEF Cascading, Cascades
    <3>3. Grown(rversions[latest])
      BY <1>1, <3>1 DEF Grown
    <3> QED BY <1>1, <1>2, <2>2, <3>1, <3>2, <3>3
  <2> QED BY <1>3, <2>1, <2>2 DEF CompactBegin
<1>4. CASE CompactCommits
  <2> DEFINE old    == rversions[rcascade.handle]
             new    == rversions[latest]
             target == Head(rcascade.todo).target
             fs     == Merge(old.frags, target) \o SubSeq(new.frags, Len(old.frags) + 1, Len(new.frags))
  <2>1. CASE old.build = new.build
    <3>1. /\ rversions' = Append(rversions, Version(old.build, new.appends, fs))
          /\ rcascade' = [rcascade EXCEPT !.pc = "note"]
      BY <1>4, <2>1 DEF CompactCommits
    <3>2. old \in RVersion /\ Starts(old.frags, new.frags)
      BY <1>4, <2>1, LatestVersion DEF CompactCommits, Prefix
    <3>3. target \in Nat
      <4>1. rcascade.todo \in RSteps /\ rcascade.todo # <<>>
        BY <1>1 DEF Cascades
      <4>2. Head(rcascade.todo) \in RStep
        BY <4>1, StepsLeft
      <4> QED BY <4>2 DEF RStep
    <3>4. old.build \in Nat /\ new.appends \in Nat /\ old.frags \in Seq(Nat) /\ new.frags \in Seq(Nat)
      BY <1>2, <3>2 DEF RVersion
    <3> HIDE DEF old, new, target
    <3>5. fs \in Seq(Nat) /\ SumOf(fs) = SumOf(new.frags)
      BY <3>2, <3>3, <3>4, CommittedRows
    <3> HIDE DEF fs
    <3>6. Version(old.build, new.appends, fs) \in RVersion
      BY <3>4, <3>5 DEF Version, RVersion
    <3>7. /\ Cascading(rcascade') /\ rcascade'.pc = "note"
          /\ rcascade'.results = rcascade.results /\ rcascade'.todo = rcascade.todo
      BY <1>1, <3>1 DEF Cascading, Cascades
    <3>8. Grown(Version(old.build, new.appends, fs))
      BY <1>1, <2>1, <3>5, <3>7 DEF Grown, Version, new
    <3> QED BY <1>1, <3>1, <3>6, <3>7, <3>8
  <2>2. CASE old.build # new.build
    <3>1. rcascade' = CascadeIdle /\ UNCHANGED rversions
      BY <1>4, <2>2 DEF CompactCommits
    <3> QED BY <1>1, <3>1, CascadeStops
  <2> QED BY <2>1, <2>2
<1> QED BY <1>3, <1>4

(* A step of the cascade is noted.                                         *)
LEMMA NoteEffect ==
    ASSUME RTypeOK, CompactNote
    PROVE  /\ Cascading(rcascade') /\ rcascade'.pc \in {"plan", "open"}
           /\ rcascade.pc = "note" /\ rcascade.todo # <<>>
           /\ rcascade'.todo = Tail(rcascade.todo) /\ rcascade'.results.E = rcascade.results.E
           /\ rcascade'.results.compactions =
                 Append(rcascade.results.compactions,
                        [tag |-> Head(rcascade.todo).tag, note |-> Noted(rversions, latest)])
           /\ UNCHANGED <<rversions, rbuild, rinfo, rplan, rread, rreads, rsparks, rreporter, rreport, rstarts>>
<1>1. /\ rversions # <<>> /\ rcascade \in Cascades /\ rcascade.todo # <<>> /\ rcascade.pc = "note"
      /\ UNCHANGED <<rversions, rbuild, rinfo, rplan, rread, rreads, rsparks, rreporter, rreport, rstarts>>
  BY DEF CompactNote, RTypeOK, Cascades, RSteps, RStep
<1>2. Noted(rversions, latest) \in RNote
  BY <1>1, LatestVersion
<1> DEFINE entry   == [tag |-> Head(rcascade.todo).tag, note |-> Noted(rversions, latest)]
           notes   == Append(rcascade.results.compactions, entry)
           more    == [state |-> rcascade.results.state, E |-> rcascade.results.E, compactions |-> notes]
           pc      == IF Tail(rcascade.todo) = <<>> THEN "open" ELSE "plan"
<1>3. rcascade.todo \in RSteps /\ rcascade.results \in RPlan
  BY <1>1 DEF Cascades
<1>4. Head(rcascade.todo) \in RStep /\ Tail(rcascade.todo) \in RSteps
  BY <1>1, <1>3, StepsLeft
<1>5. entry \in [tag : STRING, note : RNote]
  BY <1>2, <1>4 DEF RStep
<1>6. rcascade' = [rcascade EXCEPT !.pc = pc, !.todo = Tail(rcascade.todo), !.handle = 0,
                                   !.results = [rcascade.results EXCEPT !.compactions = notes]]
  BY DEF CompactNote, Step
<1> HIDE DEF entry
<1>7. notes \in Seq([tag : STRING, note : RNote])
  BY <1>3, <1>5, AppendProperties DEF RPlan
<1> HIDE DEF notes
<1>8. [rcascade.results EXCEPT !.compactions = notes] = more
  BY <1>3 DEF RPlan
<1>9. more \in RPlan
  BY <1>3, <1>7 DEF RPlan
<1>10. pc \in {"plan", "open"} /\ (pc = "plan" <=> Tail(rcascade.todo) # <<>>)
  OBVIOUS
<1>11. more.E = rcascade.results.E /\ more.compactions = notes
  OBVIOUS
<1> HIDE DEF more, pc
<1>12. rcascade' = [pc |-> pc, todo |-> Tail(rcascade.todo), handle |-> 0, results |-> more]
  BY <1>1, <1>6, <1>8 DEF Cascades
<1>13. Cascading(rcascade')
  BY <1>4, <1>9, <1>10, <1>12 DEF Cascading, Cascades
<1> QED BY <1>1, <1>10, <1>11, <1>12, <1>13 DEF notes, entry

(* The plan is written when there is no step left.                         *)
LEMMA PlanEffect ==
    ASSUME RTypeOK, PlanOpen \/ PlanDump
    PROVE  /\ Cascading(rcascade') /\ rplan' \in RPlan /\ rcascade'.pc # "commit"
           /\ rcascade.pc # "none" /\ rcascade.todo = <<>>
           /\ rcascade'.pc # "none" =>
                 rcascade'.results = rcascade.results /\ rcascade'.todo = rcascade.todo
           /\ rplan'.state = "saved" =>
                 rplan'.E = rcascade.results.E /\ rplan'.compactions = rcascade.results.compactions
           /\ UNCHANGED <<rversions, rbuild, rinfo, rread, rreads, rsparks, rreporter, rreport, rstarts>>
<1>1. /\ rcascade \in Cascades /\ rcascade.pc \in {"open", "dump"} /\ rcascade.todo = <<>>
      /\ UNCHANGED <<rversions, rbuild, rinfo, rread, rreads, rsparks, rreporter, rreport, rstarts>>
  BY DEF PlanOpen, PlanDump, RTypeOK, Cascades, RSteps, RStep
<1>2. CASE PlanOpen
  <2>1. rplan' = [RNoPlan EXCEPT !.state = "torn"] /\ rcascade' = [rcascade EXCEPT !.pc = "dump"]
    BY <1>2 DEF PlanOpen
  <2>2. /\ Cascading(rcascade') /\ rcascade'.pc = "dump"
        /\ rcascade'.results = rcascade.results /\ rcascade'.todo = rcascade.todo
    BY <1>1, <2>1 DEF Cascading, Cascades
  <2>3. rplan' \in RPlan /\ rplan'.state # "saved"
    BY <2>1, PlanTorn
  <2> QED BY <1>1, <2>2, <2>3
<1>3. CASE PlanDump
  <2>1. rplan' = [rcascade.results EXCEPT !.state = "saved"] /\ rcascade' = CascadeIdle
    BY <1>3 DEF PlanDump
  <2>2. rcascade.results \in RPlan
    BY <1>1 DEF Cascades
  <2>3. rplan' \in RPlan /\ rplan'.E = rcascade.results.E /\ rplan'.compactions = rcascade.results.compactions
    BY <2>1, <2>2 DEF RPlan, RStates
  <2> QED BY <1>1, <2>1, <2>3, CascadeStops
<1> QED BY <1>2, <1>3

(* A version that the saved plan names is there.                           *)
LEMMA PlanVersionThere ==
    ASSUME RTypeOK, NotesTrue, StepsNoted, rplan.state = "saved", NEW t \in RTags
    PROVE  PlanVersion(t) \in DOMAIN rversions
<1>1. NotedAt(rversions, rplan.E) /\ \A i \in DOMAIN rplan.compactions : NotedAt(rversions, rplan.compactions[i].note)
  BY DEF NotesTrue, NotesOf
<1>2. CASE t = "E"
  BY <1>1, <1>2 DEF PlanVersion, NotedAt
<1>3. CASE t # "E"
  <2>1. PICK i \in DOMAIN plan : plan[i].tag = t
    BY <1>3 DEF RTags
  <2>2. /\ Len(rplan.compactions) + Len(<<>>) = Len(plan)
        /\ \A j \in 1 .. Len(rplan.compactions) : rplan.compactions[j].tag = plan[j].tag
    BY DEF StepsNoted, Follows
  <2>3. /\ Len(rplan.compactions) \in Nat /\ DOMAIN rplan.compactions = 1 .. Len(rplan.compactions)
        /\ DOMAIN plan = 1 .. Len(plan) /\ Len(plan) \in Nat
    <3>1. plan \in RSteps /\ rplan \in RPlan
      BY ReadCascadeAssumption DEF RSteps, RStep, RTypeOK
    <3>2. DOMAIN plan = 1 .. Len(plan) /\ Len(plan) \in Nat
      BY <3>1 DEF RSteps
    <3> QED BY <3>1, <3>2 DEF RPlan
  <2>4. Len(<<>>) = 0
    OBVIOUS
  <2>5. i \in DOMAIN rplan.compactions /\ rplan.compactions[i].tag = t
    BY <2>1, <2>2, <2>3, <2>4
  <2> DEFINE c == CHOOSE k \in DOMAIN rplan.compactions : rplan.compactions[k].tag = t
  <2>6. c \in DOMAIN rplan.compactions
    BY <2>5
  <2>7. PlanVersion(t) = rplan.compactions[c].note.version
    BY <1>3 DEF PlanVersion
  <2> HIDE DEF c
  <2> QED BY <1>1, <2>6, <2>7 DEF NotedAt
<1> QED BY <1>2, <1>3

(* A version is read that is there.                                        *)
LEMMA ReadStarts ==
    ASSUME RTypeOK, NotesTrue, StepsNoted, ReadStart
    PROVE  /\ rread' \in [pc : {"open"}, out : RNames, spark : BOOLEAN, note : RNote]
           /\ (rread'.spark => rread'.out \in Sparks) /\ NotedAt(rversions, rread'.note)
           /\ rstarts' \in [{"builds", "cascades", "reads", "reports"} -> Nat]
           /\ rstarts'["builds"] = rstarts["builds"]
           /\ UNCHANGED <<rversions, rbuild, rinfo, rcascade, rplan, rreads, rsparks, rreporter, rreport>>
<1>1. /\ rversions # <<>> /\ rstarts' = [rstarts EXCEPT !["reads"] = rstarts["reads"] + 1]
      /\ UNCHANGED <<rversions, rbuild, rinfo, rcascade, rplan, rreads, rsparks, rreporter, rreport>>
  BY DEF ReadStart, Start
<1>2. /\ rstarts' \in [{"builds", "cascades", "reads", "reports"} -> Nat]
      /\ rstarts'["builds"] = rstarts["builds"]
  BY <1>1 DEF RTypeOK
<1>3. PICK t \in RNames, b \in BOOLEAN, v \in DOMAIN rversions :
         /\ rread' = [pc |-> "open", out |-> t, spark |-> b, note |-> Noted(rversions, v)]
         /\ b => t \in Sparks
  <2>1. CASE \E t \in RNames :
                LET v == IF t = "smoke" THEN latest ELSE PlanVersion(t)
                IN  /\ t # "smoke" => rplan.state = "saved"
                    /\ rread' = [pc |-> "open", out |-> t, spark |-> FALSE, note |-> Noted(rversions, v)]
    <3>1. PICK t \in RNames :
                /\ t # "smoke" => rplan.state = "saved"
                /\ rread' = [pc |-> "open", out |-> t, spark |-> FALSE,
                             note |-> Noted(rversions, IF t = "smoke" THEN latest ELSE PlanVersion(t))]
      BY <2>1
    <3>2. latest \in DOMAIN rversions
      BY <1>1, LatestVersion
    <3>3. t # "smoke" => PlanVersion(t) \in DOMAIN rversions
      BY <3>1, PlanVersionThere DEF RNames
    <3> QED BY <3>1, <3>2, <3>3
  <2>2. CASE \E t \in Sparks \cap RTags :
                /\ rplan.state = "saved"
                /\ rread' = [pc |-> "open", out |-> t, spark |-> TRUE,
                             note |-> Noted(rversions, PlanVersion(t))]
    <3>1. PICK t \in Sparks \cap RTags :
                /\ rplan.state = "saved"
                /\ rread' = [pc |-> "open", out |-> t, spark |-> TRUE,
                             note |-> Noted(rversions, PlanVersion(t))]
      BY <2>2
    <3>2. PlanVersion(t) \in DOMAIN rversions /\ t \in RNames /\ t \in Sparks
      BY <3>1, PlanVersionThere DEF RNames
    <3> QED BY <3>1, <3>2
  <2> QED BY <2>1, <2>2 DEF ReadStart
<1>4. Noted(rversions, v) \in RNote
  BY LatestVersion
<1>5. NotedAt(rversions, Noted(rversions, v))
  BY DEF NotedAt, Noted
<1>6. rread' \in [pc : {"open"}, out : RNames, spark : BOOLEAN, note : RNote]
  BY <1>3, <1>4
<1> QED BY <1>1, <1>2, <1>3, <1>5, <1>6

(* What is read is put into one file.                                      *)
LEMMA ReadEffect ==
    ASSUME RTypeOK, ReadOpen \/ ReadDump
    PROVE  /\ rread' \in [pc : {"none", "dump"}, out : RNames, spark : BOOLEAN, note : RNote]
           /\ rread'.spark => rread'.out \in Sparks
           /\ rread.pc # "none" /\ (rread'.pc # "none" => rread'.note = rread.note)
           /\ rreads' \in [RNames -> RFile] /\ rsparks' \in [Sparks -> RFile]
           /\ \A t \in RNames : rreads'[t].state = "saved" =>
                 rreads'[t].note = rread.note \/ rreads'[t] = rreads[t]
           /\ UNCHANGED <<rversions, rbuild, rinfo, rcascade, rplan, rreporter, rreport, rstarts>>
<1>1. /\ rread \in [pc : {"none", "open", "dump"}, out : RNames, spark : BOOLEAN, note : RNote]
      /\ (rread.spark => rread.out \in Sparks)
      /\ rreads \in [RNames -> RFile] /\ rsparks \in [Sparks -> RFile]
  BY DEF RTypeOK
<1>2. ASSUME NEW file \in RFile, Written(file), file.state = "saved" => file.note = rread.note
      PROVE  /\ rreads' \in [RNames -> RFile] /\ rsparks' \in [Sparks -> RFile]
             /\ \A t \in RNames : rreads'[t].state = "saved" =>
                   rreads'[t].note = rread.note \/ rreads'[t] = rreads[t]
             /\ UNCHANGED <<rversions, rbuild, rinfo, rcascade, rplan, rreporter, rreport, rstarts>>
  BY <1>1, <1>2 DEF Written
<1>3. CASE ReadOpen
  <2>1. rread.pc = "open" /\ Written(RTorn) /\ rread' = [rread EXCEPT !.pc = "dump"]
    BY <1>3 DEF ReadOpen
  <2>2. RTorn \in RFile /\ RTorn.state # "saved"
    BY RIdle
  <2> QED BY <1>1, <1>2, <2>1, <2>2
<1>4. CASE ReadDump
  <2> DEFINE file == [state |-> "saved", note |-> rread.note]
  <2>1. rread.pc = "dump" /\ Written(file) /\ rread' = ReadIdle
    BY <1>4 DEF ReadDump
  <2>2. file \in RFile /\ file.note = rread.note
    BY <1>1 DEF RFile, RStates
  <2> HIDE DEF file
  <2>3. /\ ReadIdle \in [pc : {"none", "dump"}, out : RNames, spark : BOOLEAN, note : RNote]
        /\ ~ReadIdle.spark /\ ReadIdle.pc = "none"
    BY RIdle DEF ReadIdle
  <2> QED BY <1>2, <2>1, <2>2, <2>3
<1> QED BY <1>3, <1>4

(* The rows of a report begin with A's when A was read.                    *)
LEMMA ReportRows ==
    ASSUME "A" \in ToSet(py_rows)
    PROVE  py_rows \in Seq(RTag) /\ py_rows[1] = "A"
<1> DEFINE S == {t \in RTags : rreads[t].state = "saved"}
<1>1. order \in Seq(RTag) /\ order # <<>> /\ order[1] = "A"
  BY DEF order, RTag
<1>2. py_rows = Kept(order, S)
  BY DEF py_rows
<1> HIDE DEF S
<1>3. /\ ToSet(Kept(order, S)) = ToSet(order) \cap S
      /\ order # <<>> /\ order[1] \in S => Kept(order, S) # <<>> /\ Kept(order, S)[1] = order[1]
  BY <1>1, KeptElements
<1>4. Kept(order, S) \in Seq(RTag)
  <2>1. Kept(order, S) \in Seq(RTag \cap S)
    BY <1>1, KeptType
  <2>2. RTag \cap S \subseteq RTag
    OBVIOUS
  <2> QED BY <2>1, <2>2, SeqMonotonic
<1>5. "A" \in S
  BY <1>2, <1>3
<1> QED BY <1>1, <1>2, <1>3, <1>4, <1>5

(* A report is put together of what was read, A's first, and written.      *)
LEMMA ReportEffect ==
    ASSUME RTypeOK, Reported, ReportBuild \/ ReportOpen \/ ReportDump
    PROVE  /\ rreporter' \in [pc : {"none", "open", "dump"}, report : RReport]
           /\ rreport' \in RReport /\ Reported'
           /\ rstarts' \in [{"builds", "cascades", "reads", "reports"} -> Nat]
           /\ rstarts'["builds"] = rstarts["builds"]
           /\ UNCHANGED <<rversions, rbuild, rinfo, rcascade, rplan, rread, rreads, rsparks>>
<1>1. /\ rreporter \in [pc : {"none", "open", "dump"}, report : RReport] /\ rreport \in RReport
      /\ rstarts \in [{"builds", "cascades", "reads", "reports"} -> Nat]
  BY DEF RTypeOK
<1>2. CASE ReportBuild
  <2>1. /\ rstarts' = [rstarts EXCEPT !["reports"] = rstarts["reports"] + 1]
        /\ SparkCompared => {"A", "E"} \subseteq ToSet(py_rows)
        /\ "A" \in ToSet(py_rows) /\ rreporter' = [pc |-> "open", report |-> Report]
        /\ UNCHANGED <<rversions, rbuild, rinfo, rcascade, rplan, rread, rreads, rsparks, rreport>>
    BY <1>2 DEF ReportBuild, Start
  <2>2. py_rows \in Seq(RTag) /\ py_rows[1] = "A"
    BY <2>1, ReportRows
  <2>3. SparkCompared \in BOOLEAN
    BY DEF SparkCompared
  <2>4. Report = [state |-> "saved", tags |-> py_rows, baseline |-> "A", spark |-> SparkCompared]
    BY <2>2 DEF Report
  <2> DEFINE r == [state |-> "saved", tags |-> py_rows, baseline |-> "A", spark |-> SparkCompared]
  <2>5. r \in RReport
    <3> HIDE DEF r
    <3> DEFINE tags == py_rows
               spark == SparkCompared
    <3>1. tags \in Seq(RTag) /\ spark \in BOOLEAN
      BY <2>2, <2>3
    <3>2. r = [state |-> "saved", tags |-> tags, baseline |-> "A", spark |-> spark]
      BY DEF r
    <3> HIDE DEF tags, spark
    <3> QED BY <3>1, <3>2 DEF RReport, RStates, RTag
  <2>6. Relative(r)
    BY <2>1 DEF Relative
  <2>7. rreporter' = [pc |-> "open", report |-> r]
    BY <2>1, <2>4
  <2> HIDE DEF r
  <2>8. Reported'
    BY <2>1, <2>6, <2>7 DEF Reported, Relative
  <2>9. /\ rstarts' \in [{"builds", "cascades", "reads", "reports"} -> Nat]
        /\ rstarts'["builds"] = rstarts["builds"]
    BY <1>1, <2>1
  <2> QED BY <1>1, <2>1, <2>5, <2>7, <2>8, <2>9
<1>3. CASE ReportOpen
  <2>1. /\ rreporter.pc = "open" /\ rreport' = [RNoReport EXCEPT !.state = "torn"]
        /\ rreporter' = [rreporter EXCEPT !.pc = "dump"]
        /\ UNCHANGED <<rversions, rbuild, rinfo, rcascade, rplan, rread, rreads, rsparks, rstarts>>
    BY <1>3 DEF ReportOpen
  <2>2. rreport' \in RReport /\ rreport'.state # "saved"
    BY <2>1, RIdle DEF RReport, RStates
  <2>3. rreporter' = [pc |-> "dump", report |-> rreporter.report]
    BY <1>1, <2>1
  <2>4. Reported'
    BY <2>1, <2>2, <2>3 DEF Reported, Relative
  <2> QED BY <1>1, <2>1, <2>2, <2>3, <2>4
<1>4. CASE ReportDump
  <2>1. /\ rreporter.pc = "dump" /\ rreport' = rreporter.report /\ rreporter' = ReportIdle
        /\ UNCHANGED <<rversions, rbuild, rinfo, rcascade, rplan, rread, rreads, rsparks, rstarts>>
    BY <1>4 DEF ReportDump
  <2>2. ReportIdle \in [pc : {"none", "open", "dump"}, report : RReport] /\ ReportIdle.pc = "none"
    BY RIdle DEF ReportIdle
  <2>3. Reported'
    BY <2>1, <2>2 DEF Reported, Relative
  <2> QED BY <1>1, <2>1, <2>2, <2>3
<1> QED BY <1>2, <1>3, <1>4

(* A script that is killed leaves the files as they are.                   *)
LEMMA KillEffect ==
    ASSUME RTypeOK, RKilled
    PROVE  /\ rbuild' = rbuild \/ rbuild' = BuildIdle
           /\ rcascade' = rcascade \/ rcascade' = CascadeIdle
           /\ rread' = rread \/ rread' = ReadIdle
           /\ rreporter' = rreporter \/ rreporter' = ReportIdle
           /\ UNCHANGED <<rversions, rinfo, rplan, rreads, rsparks, rreport, rstarts>>
BY DEF RKilled

(* A step leaves the versions as they are, or adds one.                    *)
VersionsStay ==
    /\ rversions' = rversions /\ rstarts'["builds"] = rstarts["builds"]
    /\ rcascade'.pc = "commit" => rcascade' = rcascade
VersionAdded == \E x \in RVersion : rversions' = Append(rversions, x) /\ Grown(x)

LEMMA VersionsStep ==
    ASSUME RTypeOK, NotesTrue, StepsNoted, Prefix, Reported, [RNext]_RVars
    PROVE  VersionsStay \/ VersionAdded
<1>1. CASE BuildStart \/ BuildAppend
  BY <1>1, BuildStarts, BuildAppends DEF VersionAdded
<1>2. CASE BuildOpen \/ BuildDump
  BY <1>2, BuildDescribes DEF VersionsStay
<1>3. CASE CascadeStart
  BY <1>3, CascadeStarts DEF VersionsStay
<1>4. CASE CompactBegin \/ CompactCommits
  BY <1>4, CompactEffect DEF VersionsStay, VersionAdded
<1>5. CASE CompactNote
  BY <1>5, NoteEffect DEF VersionsStay
<1>6. CASE PlanOpen \/ PlanDump
  BY <1>6, PlanEffect DEF VersionsStay
<1>7. CASE ReadStart
  BY <1>7, ReadStarts DEF VersionsStay
<1>8. CASE ReadOpen \/ ReadDump
  BY <1>8, ReadEffect DEF VersionsStay
<1>9. CASE ReportBuild \/ ReportOpen \/ ReportDump
  BY <1>9, ReportEffect DEF VersionsStay
<1>10. CASE RKilled
  BY <1>10, KillEffect, CascadeStops DEF VersionsStay
<1>11. CASE UNCHANGED RVars
  BY <1>11 DEF RVars, VersionsStay
<1> QED BY <1>1, <1>2, <1>3, <1>4, <1>5, <1>6, <1>7, <1>8, <1>9, <1>10, <1>11 DEF RNext

(* A version that is added is the latest; those before it are as they were. *)
LEMMA AddedLast ==
    ASSUME RTypeOK, NEW x \in RVersion, rversions' = Append(rversions, x)
    PROVE  /\ rversions' \in Seq(RVersion) /\ rversions' # <<>> /\ latest' = latest + 1
           /\ DOMAIN rversions' = (DOMAIN rversions) \cup {latest + 1}
           /\ rversions'[latest + 1] = x /\ \A v \in DOMAIN rversions : rversions'[v] = rversions[v]
           /\ latest \in Nat /\ DOMAIN rversions = 1 .. latest
<1>1. rversions \in Seq(RVersion) /\ latest = Len(rversions) /\ DOMAIN rversions = 1 .. latest /\ latest \in Nat
  BY LatestVersion DEF RTypeOK, latest
<1>2. /\ rversions' \in Seq(RVersion) /\ Len(rversions') = Len(rversions) + 1
      /\ rversions'[Len(rversions) + 1] = x /\ \A v \in 1 .. Len(rversions) : rversions'[v] = rversions[v]
  BY <1>1, AppendProperties
<1>3. latest' = Len(rversions')
  BY DEF latest
<1>4. DOMAIN rversions' = 1 .. Len(rversions') /\ rversions' # <<>>
  BY <1>1, <1>2
<1> QED BY <1>1, <1>2, <1>3, <1>4

(* So what was noted of a version stays true.                              *)
LEMMA NotesStay ==
    ASSUME RTypeOK, VersionsStay \/ VersionAdded
    PROVE  /\ \A n : NotedAt(rversions, n) => NotedAt(rversions', n)
           /\ rversions' \in Seq(RVersion) /\ (rversions # <<>> => rversions' # <<>>)
<1>1. /\ rversions' \in Seq(RVersion) /\ (rversions # <<>> => rversions' # <<>>)
      /\ DOMAIN rversions \subseteq DOMAIN rversions'
      /\ \A v \in DOMAIN rversions : rversions'[v] = rversions[v]
  <2>1. CASE VersionsStay
    BY <2>1 DEF VersionsStay, RTypeOK
  <2>2. CASE VersionAdded
    BY <2>2, AddedLast DEF VersionAdded
  <2> QED BY <2>1, <2>2
<1>2. ASSUME NEW n, NotedAt(rversions, n) PROVE n.version \in DOMAIN rversions' /\ n = Noted(rversions', n.version)
  BY <1>1, <1>2 DEF NotedAt, Noted
<1> QED BY <1>1, <1>2 DEF NotedAt

(* The latest version stays the latest of the latest build.                *)
LEMMA NewestStep ==
    ASSUME RTypeOK, Newest, VersionsStay \/ VersionAdded
    PROVE  Newest'
<1>1. CASE VersionsStay
  BY <1>1 DEF VersionsStay, Newest, latest
<1>2. CASE VersionAdded
  <2>1. PICK x \in RVersion : rversions' = Append(rversions, x) /\ Grown(x)
    BY <1>2 DEF VersionAdded
  <2>2. /\ latest' = latest + 1 /\ DOMAIN rversions' = (DOMAIN rversions) \cup {latest + 1}
        /\ rversions'[latest + 1] = x /\ \A v \in DOMAIN rversions : rversions'[v] = rversions[v]
        /\ latest \in Nat /\ DOMAIN rversions = 1 .. latest
    BY <2>1, AddedLast
  <2>3. /\ rstarts["builds"] \in Nat /\ x.build \in Nat /\ x.appends \in Nat
        /\ \A v \in DOMAIN rversions : rversions[v].build \in Nat /\ rversions[v].appends \in Nat
    BY LatestVersion DEF RTypeOK, RVersion
  <2>4. rversions # <<>> => latest \in DOMAIN rversions
    BY LatestVersion
  <2>5. /\ rstarts'["builds"] \in Nat /\ x.build <= rstarts'["builds"]
        /\ \A v \in DOMAIN rversions :
              /\ rversions[v].build <= x.build
              /\ rversions[v].build = x.build => rversions[v].appends <= x.appends
    <3>1. \A v \in DOMAIN rversions : rversions # <<>>
      BY <2>2 DEF RTypeOK
    <3> QED BY <2>1, <2>2, <2>3, <2>4, <3>1, SMTT(30) DEF Grown, Newest
  <2>6. ASSUME NEW v \in DOMAIN rversions'
        PROVE  /\ rversions'[v].build <= x.build
               /\ rversions'[v].build = x.build => rversions'[v].appends <= x.appends
    BY <2>2, <2>3, <2>5
  <2>7. rversions'[latest'] = x
    BY <2>2
  <2> QED BY <2>5, <2>6, <2>7 DEF Newest
<1> QED BY <1>1, <1>2

(* A version that is added has the rows of those that are the same, or is  *)
(* the first after as many appends.                                        *)
LEMMA SameRowsStep ==
    ASSUME RTypeOK, Newest, SameRows, VersionsStay \/ VersionAdded
    PROVE  SameRows'
<1>1. CASE VersionsStay
  BY <1>1 DEF VersionsStay, SameRows
<1>2. CASE VersionAdded
  <2>1. PICK x \in RVersion : rversions' = Append(rversions, x) /\ Grown(x)
    BY <1>2 DEF VersionAdded
  <2>2. /\ DOMAIN rversions' = (DOMAIN rversions) \cup {latest + 1}
        /\ rversions'[latest + 1] = x /\ \A v \in DOMAIN rversions : rversions'[v] = rversions[v]
        /\ latest \in Nat /\ DOMAIN rversions = 1 .. latest
    BY <2>1, AddedLast
  <2>3. /\ rstarts["builds"] \in Nat /\ x.build \in Nat /\ x.appends \in Nat
        /\ \A v \in DOMAIN rversions : rversions[v].build \in Nat /\ rversions[v].appends \in Nat
    BY LatestVersion DEF RTypeOK, RVersion
  <2>4. rversions # <<>> => latest \in DOMAIN rversions
    BY LatestVersion
  <2>5. ASSUME NEW v \in DOMAIN rversions, rversions[v].build = x.build, rversions[v].appends = x.appends
        PROVE  SumOf(rversions[v].frags) = SumOf(x.frags)
    <3>1. rversions[v].build <= rstarts["builds"] /\ latest \in DOMAIN rversions
      <4>1. latest \in DOMAIN rversions
        BY <2>2
      <4> QED BY <2>3, <4>1 DEF Newest
    <3>2. rversions[v].build = rversions[latest].build => rversions[v].appends <= rversions[latest].appends
      BY DEF Newest
    <3>3. x.build = rversions[latest].build /\ x.appends = rversions[latest].appends
          /\ SumOf(x.frags) = SumOf(rversions[latest].frags)
      BY <2>1, <2>3, <2>5, <3>1, <3>2 DEF Grown
    <3>4. SumOf(rversions[v].frags) = SumOf(rversions[latest].frags)
      BY <2>5, <3>1, <3>3 DEF SameRows
    <3> QED BY <3>3, <3>4
  <2>6. ASSUME NEW u \in DOMAIN rversions', NEW v \in DOMAIN rversions',
               rversions'[u].build = rversions'[v].build, rversions'[u].appends = rversions'[v].appends
        PROVE  SumOf(rversions'[u].frags) = SumOf(rversions'[v].frags)
    <3>1. CASE u \in DOMAIN rversions /\ v \in DOMAIN rversions
      BY <2>2, <2>6, <3>1 DEF SameRows
    <3>2. CASE u \in DOMAIN rversions /\ v = latest + 1
      BY <2>2, <2>5, <2>6, <3>2
    <3>3. CASE v \in DOMAIN rversions /\ u = latest + 1
      BY <2>2, <2>5, <2>6, <3>3
    <3>4. CASE u = latest + 1 /\ v = latest + 1
      BY <3>4
    <3> QED BY <2>2, <3>1, <3>2, <3>3, <3>4
  <2> QED BY <2>6 DEF SameRows
<1> QED BY <1>1, <1>2

(* What is being compacted stays first of the latest version, until the    *)
(* dataset is built anew.                                                  *)
LEMMA PrefixStep ==
    ASSUME RTypeOK, Newest, Prefix, VersionsStay \/ VersionAdded
    PROVE  Prefix'
<1>1. CASE VersionsStay
  BY <1>1 DEF VersionsStay, Prefix, latest
<1>2. CASE VersionAdded
  <2>1. PICK x \in RVersion : rversions' = Append(rversions, x) /\ Grown(x)
    BY <1>2 DEF VersionAdded
  <2>2. /\ DOMAIN rversions' = (DOMAIN rversions) \cup {latest + 1} /\ latest' = latest + 1
        /\ rversions'[latest + 1] = x /\ \A v \in DOMAIN rversions : rversions'[v] = rversions[v]
        /\ latest \in Nat /\ DOMAIN rversions = 1 .. latest
    BY <2>1, AddedLast
  <2>3. /\ x \in RVersion /\ rstarts["builds"] \in Nat
        /\ \A v \in DOMAIN rversions : rversions[v] \in RVersion /\ rversions[v].build \in Nat
    BY LatestVersion DEF RTypeOK, RVersion
  <2> SUFFICES ASSUME rcascade'.pc = "commit"
               PROVE  /\ rcascade'.handle \in DOMAIN rversions'
                      /\ rversions'[rcascade'.handle].build = x.build =>
                            Starts(rversions'[rcascade'.handle].frags, x.frags)
    BY <2>2 DEF Prefix
  <2>4. CASE rcascade' = rcascade
    <3> DEFINE h == rcascade.handle
    <3>1. /\ h \in DOMAIN rversions
          /\ rversions[h].build = rversions[latest].build => Starts(rversions[h].frags, rversions[latest].frags)
      BY <2>4 DEF Prefix
    <3>2. /\ rversions'[h] = rversions[h] /\ h \in DOMAIN rversions' /\ latest \in DOMAIN rversions
          /\ h \in Nat /\ h # latest + 1
      BY <2>2, <3>1
    <3>3. rversions[h].build <= rstarts["builds"]
      BY <2>3, <3>1, <3>2 DEF Newest
    <3>4. rversions[h].frags \in Seq(Nat) /\ rversions[latest].frags \in Seq(Nat) /\ x.frags \in Seq(Nat)
      BY <2>3, <3>1, <3>2 DEF RVersion
    <3> HIDE DEF h
    <3>5. ASSUME rversions[h].build = x.build PROVE Starts(rversions[h].frags, x.frags)
      <4>1. rversions[h].build = rversions[latest].build /\ Starts(rversions[latest].frags, x.frags)
        BY <2>1, <2>3, <2>4, <3>1, <3>2, <3>3, <3>5 DEF Grown, h
      <4> DEFINE a == rversions[h].frags
                 b == rversions[latest].frags
                 c == x.frags
      <4>2. Starts(a, b) /\ Starts(b, c) /\ Len(a) \in Nat /\ Len(b) \in Nat /\ Len(c) \in Nat
        BY <3>1, <3>4, <4>1
      <4> HIDE DEF a, b, c
      <4>3. Starts(a, c)
        BY <4>2 DEF Starts
      <4> QED BY <4>3 DEF a, c
    <3> QED BY <2>4, <3>2, <3>5 DEF h
  <2>5. CASE rcascade'.handle = latest + 1
    <3>1. x.frags \in Seq(Nat)
      BY <2>3 DEF RVersion
    <3>2. Starts(x.frags, x.frags)
      BY <3>1 DEF Starts
    <3> QED BY <2>2, <2>5, <3>2
  <2> QED BY <2>1, <2>4, <2>5 DEF Grown
<1> QED BY <1>1, <1>2

(* What the plan is made of, and what was measured, when nothing of it     *)
(* changes.                                                                *)
LEMMA NotesKept ==
    ASSUME NotesTrue, StepsNoted, \A n : NotedAt(rversions, n) => NotedAt(rversions', n),
           UNCHANGED <<rplan, rreads>>,
           rcascade'.pc # "none" => /\ NotesOf(rversions', rcascade'.results)
                                    /\ Follows(rcascade'.results.compactions, rcascade'.todo),
           rread'.pc # "none" => NotedAt(rversions', rread'.note)
    PROVE  NotesTrue' /\ StepsNoted'
<1>1. rplan.state = "saved" => NotesOf(rversions', rplan)
  BY DEF NotesTrue, NotesOf
<1>2. \A t \in RNames : rreads[t].state = "saved" => NotedAt(rversions', rreads[t].note)
  BY DEF NotesTrue
<1>3. NotesTrue'
  BY <1>1, <1>2 DEF NotesTrue
<1>4. StepsNoted'
  BY DEF StepsNoted
<1> QED BY <1>3, <1>4

(* So what a running cascade has noted stays true.                         *)
LEMMA CascadeNotesKept ==
    ASSUME NotesTrue, StepsNoted, \A n : NotedAt(rversions, n) => NotedAt(rversions', n)
    PROVE  /\ rcascade.pc # "none" => /\ NotesOf(rversions', rcascade.results)
                                      /\ Follows(rcascade.results.compactions, rcascade.todo)
           /\ rread.pc # "none" => NotedAt(rversions', rread.note)
BY DEF NotesTrue, NotesOf, StepsNoted

(* One more step is noted, and it is the next of the plan.                 *)
LEMMA NextFollows ==
    ASSUME NEW notes \in Seq([tag : STRING, note : RNote]), NEW todo \in RSteps, todo # <<>>, NEW n \in RNote,
           Follows(notes, todo)
    PROVE  Follows(Append(notes, [tag |-> Head(todo).tag, note |-> n]), Tail(todo))
<1> DEFINE entry == [tag |-> Head(todo).tag, note |-> n]
           more  == Append(notes, entry)
<1>1. Head(todo) \in RStep /\ Tail(todo) \in RSteps
  BY StepsLeft
<1>2. entry \in [tag : STRING, note : RNote] /\ entry.tag = Head(todo).tag
  BY <1>1 DEF RStep
<1> HIDE DEF entry
<1>3. /\ Len(more) = Len(notes) + 1 /\ more[Len(notes) + 1] = entry
      /\ \A i \in 1 .. Len(notes) : more[i] = notes[i]
  BY <1>2, AppendProperties
<1> HIDE DEF more
<1>4. /\ Len(todo) \in Nat /\ Len(todo) > 0 /\ Head(todo) = todo[1] /\ Len(Tail(todo)) = Len(todo) - 1
      /\ \A j \in 1 .. Len(todo) - 1 : Tail(todo)[j] = todo[j + 1]
  BY DEF RSteps
<1>5. Len(notes) \in Nat
  OBVIOUS
<1> DEFINE rest == Tail(todo)
<1>9. Len(rest) = Len(todo) - 1 /\ \A j \in 1 .. Len(todo) - 1 : rest[j] = todo[j + 1]
  BY <1>4
<1> HIDE DEF rest
<1>10. /\ Len(notes) + Len(todo) = Len(plan) /\ \A i \in 1 .. Len(notes) : notes[i].tag = plan[i].tag
       /\ \A j \in 1 .. Len(todo) : todo[j] = plan[Len(notes) + j]
  BY DEF Follows
<1>6. Len(more) + Len(rest) = Len(plan)
  <2>1. Len(more) = Len(notes) + 1 /\ Len(rest) = Len(todo) - 1
    BY <1>3, <1>9
  <2>2. Len(notes) + Len(todo) = Len(plan) /\ Len(todo) \in Nat
    BY <1>4, <1>10
  <2> QED BY ONLY <1>5, <2>1, <2>2
<1>7. ASSUME NEW i \in 1 .. Len(more) PROVE more[i].tag = plan[i].tag
  <2>1. CASE i \in 1 .. Len(notes)
    BY <1>3, <1>10, <2>1
  <2>2. CASE i = Len(notes) + 1
    <3>1. 1 \in 1 .. Len(todo)
      BY <1>4
    <3>2. todo[1] = plan[Len(notes) + 1]
      BY <1>10, <3>1
    <3> QED BY <1>2, <1>3, <1>4, <2>2, <3>2
  <2> QED BY <1>3, <1>5, <2>1, <2>2
<1>8. ASSUME NEW j \in 1 .. Len(rest) PROVE rest[j] = plan[Len(more) + j]
  <2>1. j \in 1 .. Len(todo) - 1 /\ j + 1 \in 1 .. Len(todo) /\ Len(notes) + (j + 1) = Len(more) + j
    <3>1. Len(more) = Len(notes) + 1 /\ Len(rest) = Len(todo) - 1
      BY <1>3, <1>9
    <3>2. Len(notes) \in Nat /\ Len(todo) \in Nat /\ j \in 1 .. Len(rest)
      BY <1>4, <1>5, <1>8
    <3> QED BY ONLY <3>1, <3>2
  <2>2. rest[j] = todo[j + 1]
    BY <1>9, <2>1
  <2>3. todo[j + 1] = plan[Len(notes) + (j + 1)]
    BY <1>10, <2>1
  <2> QED BY <2>1, <2>2, <2>3
<1> QED BY <1>6, <1>7, <1>8 DEF Follows, more, rest, entry

(* What each group of steps keeps. *)
RKept == RTypeOK /\ NotesTrue /\ StepsNoted /\ Reported
Stays == /\ \A n : NotedAt(rversions, n) => NotedAt(rversions', n)
         /\ rversions' \in Seq(RVersion) /\ (rversions # <<>> => rversions' # <<>>)

(* A build changes nothing that is noted.                                  *)
LEMMA BuildKeeps ==
    ASSUME RKept, Stays, BuildStart \/ BuildAppend \/ BuildOpen \/ BuildDump
    PROVE  RKept'
<1>1. RTypeOK /\ NotesTrue /\ StepsNoted /\ Reported
  BY DEF RKept
<1>2. UNCHANGED <<rcascade, rplan, rread, rreads, rsparks, rreporter, rreport>>
  BY DEF BuildStart, BuildAppend, BuildOpen, BuildDump
<1>3. NotesTrue' /\ StepsNoted'
  BY <1>1, <1>2, CascadeNotesKept, NotesKept DEF Stays
<1>4. Reported'
  BY <1>1, <1>2 DEF Reported, Relative
<1>5. /\ rbuild' \in [pc : {"none", "append", "open", "dump"}, build : Nat, per : Nat, left : Nat, note : RNote]
      /\ rbuild'.left > 0 <=> rbuild'.pc = "append"
      /\ rinfo' \in RFile /\ rstarts' \in [{"builds", "cascades", "reads", "reports"} -> Nat]
      /\ rbuild'.pc # "none" => rversions' # <<>>
  <2>1. CASE BuildStart
    <3>1. /\ rbuild' \in [pc : {"append"}, build : Nat, per : Nat, left : Nat \ {0}, note : RNote]
          /\ rstarts' \in [{"builds", "cascades", "reads", "reports"} -> Nat] /\ UNCHANGED rinfo
      BY <1>1, <2>1, BuildStarts
    <3>2. rversions' # <<>>
      <4>1. \E x \in RVersion : rversions' = Append(rversions, x)
        BY <1>1, <2>1, BuildStarts
      <4> QED BY <1>1, <4>1, AddedLast
    <3> QED BY <1>1, <3>1, <3>2, SMTT(30) DEF RTypeOK
  <2>2. CASE BuildAppend
    <3>1. /\ rbuild' \in [pc : {"append", "open"}, build : Nat, per : Nat, left : Nat, note : RNote]
          /\ rbuild'.left > 0 <=> rbuild'.pc = "append"
          /\ UNCHANGED <<rinfo, rstarts>> /\ rversions # <<>>
      BY <1>1, <2>2, BuildAppends DEF RTypeOK, BuildAppend
    <3> QED BY <1>1, <3>1 DEF RTypeOK, Stays
  <2>3. CASE BuildOpen \/ BuildDump
    <3>1. /\ rbuild' \in [pc : {"none", "dump"}, build : Nat, per : Nat, left : Nat, note : RNote]
          /\ rbuild'.left = 0 /\ rinfo' \in RFile /\ (rbuild'.pc # "none" => rbuild.pc # "none")
          /\ UNCHANGED rstarts
      BY <1>1, <2>3, BuildDescribes
    <3> QED BY <1>1, <3>1 DEF RTypeOK, Stays
  <2> QED BY <2>1, <2>2, <2>3
<1>6. RTypeOK'
  <2>1. /\ rread \in [pc : {"none", "open", "dump"}, out : RNames, spark : BOOLEAN, note : RNote]
        /\ rread.spark => rread.out \in Sparks
        /\ rcascade \in [pc : {"none", "plan", "commit", "note", "open", "dump"}, handle : Nat, results : RPlan,
                         todo : Seq([tag : STRING, target : Nat \ {0}])]
        /\ rcascade.pc \in {"plan", "commit", "note"} <=> rcascade.todo # <<>>
        /\ rcascade.pc # "none" => rversions # <<>>
        /\ rreporter \in [pc : {"none", "open", "dump"}, report : RReport]
        /\ rplan \in RPlan /\ rreport \in RReport
        /\ rreads \in [RNames -> RFile] /\ rsparks \in [Sparks -> RFile]
    BY <1>1 DEF RTypeOK
  <2>2. rbuild'.pc # "none" \/ rcascade'.pc # "none" => rversions' # <<>>
    BY <1>2, <1>5, <2>1 DEF Stays
  <2>3. rversions' \in Seq(RVersion)
    BY DEF Stays
  <2> QED BY <1>2, <1>5, <2>1, <2>2, <2>3 DEF RTypeOK
<1> QED BY <1>3, <1>4, <1>6 DEF RKept

(* The cascade is typed, and so is what it writes.                         *)
LEMMA CascadeTyped ==
    ASSUME RTypeOK, Stays, Cascading(rcascade'), rcascade'.pc # "none" => rversions # <<>>, rplan' \in RPlan,
           rstarts' \in [{"builds", "cascades", "reads", "reports"} -> Nat],
           UNCHANGED <<rbuild, rinfo, rread, rreads, rsparks, rreporter, rreport>>
    PROVE  RTypeOK'
<1>1. /\ rbuild \in [pc : {"none", "append", "open", "dump"}, build : Nat, per : Nat, left : Nat, note : RNote]
      /\ rbuild.left > 0 <=> rbuild.pc = "append"
      /\ rread \in [pc : {"none", "open", "dump"}, out : RNames, spark : BOOLEAN, note : RNote]
      /\ rread.spark => rread.out \in Sparks
      /\ rreporter \in [pc : {"none", "open", "dump"}, report : RReport]
      /\ rinfo \in RFile /\ rreport \in RReport
      /\ rreads \in [RNames -> RFile] /\ rsparks \in [Sparks -> RFile]
      /\ rbuild.pc # "none" => rversions # <<>>
  BY DEF RTypeOK
<1>2. /\ rcascade' \in [pc : {"none", "plan", "commit", "note", "open", "dump"}, handle : Nat, results : RPlan,
                        todo : Seq([tag : STRING, target : Nat \ {0}])]
      /\ rcascade'.pc \in {"plan", "commit", "note"} <=> rcascade'.todo # <<>>
  BY DEF Cascading, Cascades, RSteps, RStep
<1>3. rversions' \in Seq(RVersion) /\ (rbuild'.pc # "none" \/ rcascade'.pc # "none" => rversions' # <<>>)
  BY <1>1 DEF Stays
<1> QED BY <1>1, <1>2, <1>3 DEF RTypeOK

(* A cascade notes what there is, and its plan what it noted.              *)
LEMMA CascadeKeeps ==
    ASSUME RKept, Prefix, Stays,
           CascadeStart \/ CompactBegin \/ CompactCommits \/ CompactNote \/ PlanOpen \/ PlanDump
    PROVE  RKept'
<1>1. RTypeOK /\ NotesTrue /\ StepsNoted /\ Reported
  BY DEF RKept
<1>2. /\ rcascade.pc # "none" => /\ NotesOf(rversions', rcascade.results)
                                 /\ Follows(rcascade.results.compactions, rcascade.todo)
      /\ rread.pc # "none" => NotedAt(rversions', rread.note)
  BY <1>1, CascadeNotesKept DEF Stays
<1>3. rcascade.pc # "none" => rversions # <<>>
  BY <1>1 DEF RTypeOK
<1>4. ASSUME UNCHANGED <<rreporter, rreport>> PROVE Reported'
  BY <1>1, <1>4 DEF Reported, Relative
<1>5. rplan \in RPlan /\ rstarts \in [{"builds", "cascades", "reads", "reports"} -> Nat]
  BY <1>1 DEF RTypeOK
<1>6. CASE CascadeStart
  <2>1. /\ Cascading(rcascade') /\ rcascade'.todo = plan
        /\ rcascade'.results.E = Noted(rversions, latest) /\ rcascade'.results.compactions = <<>>
        /\ rversions # <<>> /\ rstarts' \in [{"builds", "cascades", "reads", "reports"} -> Nat]
        /\ UNCHANGED <<rversions, rbuild, rinfo, rplan, rread, rreads, rsparks, rreporter, rreport>>
    BY <1>1, <1>6, CascadeStarts
  <2>2. NotesOf(rversions', rcascade'.results)
    <3>1. latest \in DOMAIN rversions
      BY <1>1, <2>1, LatestVersion
    <3> QED BY <2>1, <3>1 DEF NotesOf, NotedAt, Noted
  <2>3. Follows(rcascade'.results.compactions, rcascade'.todo)
    <3>1. Len(plan) \in Nat /\ Len(<<>>) = 0
      BY ReadCascadeAssumption
    <3> QED BY <2>1, <3>1 DEF Follows
  <2>4. NotesTrue' /\ StepsNoted'
    BY <1>1, <1>2, <2>1, <2>2, <2>3, NotesKept DEF Stays
  <2> QED BY <1>1, <1>4, <1>5, <2>1, <2>4, CascadeTyped DEF RKept
<1>7. CASE CompactBegin \/ CompactCommits
  <2>1. /\ Cascading(rcascade') /\ rcascade.pc # "none"
        /\ rcascade'.pc # "none" => rcascade'.results = rcascade.results /\ rcascade'.todo = rcascade.todo
        /\ UNCHANGED <<rbuild, rinfo, rplan, rread, rreads, rsparks, rreporter, rreport, rstarts>>
    BY <1>1, <1>7, CompactEffect
  <2>2. NotesTrue' /\ StepsNoted'
    BY <1>1, <1>2, <2>1, NotesKept DEF Stays
  <2> QED BY <1>1, <1>3, <1>4, <1>5, <2>1, <2>2, CascadeTyped DEF RKept
<1>8. CASE CompactNote
  <2>1. /\ Cascading(rcascade') /\ rcascade.pc # "none" /\ rcascade.todo # <<>>
        /\ rcascade'.todo = Tail(rcascade.todo) /\ rcascade'.results.E = rcascade.results.E
        /\ rcascade'.results.compactions =
              Append(rcascade.results.compactions,
                     [tag |-> Head(rcascade.todo).tag, note |-> Noted(rversions, latest)])
        /\ UNCHANGED <<rversions, rbuild, rinfo, rplan, rread, rreads, rsparks, rreporter, rreport, rstarts>>
    BY <1>1, <1>8, NoteEffect
  <2>2. Noted(rversions, latest) \in RNote /\ NotedAt(rversions, Noted(rversions, latest))
    BY <1>1, <1>3, <2>1, LatestVersion DEF NotedAt, Noted
  <2>3. /\ rcascade.results.compactions \in Seq([tag : STRING, note : RNote]) /\ rcascade.todo \in RSteps
    BY <1>1 DEF RTypeOK, RPlan, RSteps, RStep
  <2> DEFINE notes == rcascade.results.compactions
             n     == Noted(rversions, latest)
             entry == [tag |-> Head(rcascade.todo).tag, note |-> n]
  <2>4. Follows(Append(notes, entry), Tail(rcascade.todo))
    BY <1>2, <2>1, <2>2, <2>3, NextFollows
  <2>5. NotesOf(rversions', rcascade'.results)
    <3>1. NotedAt(rversions', rcascade.results.E) /\ \A i \in DOMAIN notes : NotedAt(rversions', notes[i].note)
      BY <1>2, <2>1 DEF NotesOf
    <3>2. NotedAt(rversions', entry.note)
      BY <2>1, <2>2
    <3>3. entry \in [tag : STRING, note : RNote]
      <4>1. Head(rcascade.todo) \in RStep
        BY <2>1, <2>3, StepsLeft
      <4> QED BY <2>2, <4>1 DEF RStep
    <3>4. rcascade'.results.compactions = Append(notes, entry) /\ rcascade'.results.E = rcascade.results.E
      BY <2>1
    <3> DEFINE more == Append(notes, entry)
    <3> HIDE DEF entry
    <3>5. /\ DOMAIN more = 1 .. Len(notes) + 1 /\ more[Len(notes) + 1] = entry
          /\ \A i \in 1 .. Len(notes) : more[i] = notes[i]
          /\ DOMAIN notes = 1 .. Len(notes) /\ Len(notes) \in Nat
      BY <2>3, <3>3, AppendProperties
    <3> HIDE DEF more, notes
    <3>6. ASSUME NEW i \in DOMAIN more PROVE NotedAt(rversions', more[i].note)
      <4>1. i \in 1 .. Len(notes) \/ i = Len(notes) + 1
        BY <3>5
      <4> QED BY <3>1, <3>2, <3>5, <4>1
    <3> QED BY <3>1, <3>4, <3>6 DEF NotesOf, more
  <2>6. NotesTrue' /\ StepsNoted'
    BY <1>1, <1>2, <2>1, <2>4, <2>5, NotesKept DEF Stays
  <2> QED BY <1>1, <1>3, <1>4, <1>5, <2>1, <2>6, CascadeTyped DEF RKept
<1>9. CASE PlanOpen \/ PlanDump
  <2>1. /\ Cascading(rcascade') /\ rplan' \in RPlan /\ rcascade.pc # "none" /\ rcascade.todo = <<>>
        /\ rcascade'.pc # "none" => rcascade'.results = rcascade.results /\ rcascade'.todo = rcascade.todo
        /\ rplan'.state = "saved" =>
              rplan'.E = rcascade.results.E /\ rplan'.compactions = rcascade.results.compactions
        /\ UNCHANGED <<rversions, rbuild, rinfo, rread, rreads, rsparks, rreporter, rreport, rstarts>>
    BY <1>1, <1>9, PlanEffect
  <2>2. NotesTrue'
    <3>1. \A t \in RNames : rreads[t].state = "saved" => NotedAt(rversions', rreads[t].note)
      BY <1>1, <2>1 DEF NotesTrue
    <3>2. rplan'.state = "saved" => NotesOf(rversions', rplan')
      BY <1>2, <2>1 DEF NotesOf
    <3> QED BY <1>2, <2>1, <3>1, <3>2 DEF NotesTrue
  <2>3. StepsNoted'
    BY <1>2, <2>1 DEF StepsNoted
  <2> QED BY <1>1, <1>3, <1>4, <1>5, <2>1, <2>2, <2>3, CascadeTyped DEF RKept
<1> QED BY <1>6, <1>7, <1>8, <1>9

(* What is read is read of a version that is there.                        *)
LEMMA ReadKeeps ==
    ASSUME RKept, Stays, ReadStart \/ ReadOpen \/ ReadDump
    PROVE  RKept'
<1>1. RTypeOK /\ NotesTrue /\ StepsNoted /\ Reported
  BY DEF RKept
<1>2. UNCHANGED <<rversions, rbuild, rinfo, rcascade, rplan, rreporter, rreport>>
  BY <1>1, ReadStarts, ReadEffect
<1>3. /\ rcascade.pc # "none" => /\ NotesOf(rversions', rcascade.results)
                                 /\ Follows(rcascade.results.compactions, rcascade.todo)
      /\ rread.pc # "none" => NotedAt(rversions', rread.note)
  BY <1>1, CascadeNotesKept DEF Stays
<1>4. Reported'
  BY <1>1, <1>2 DEF Reported, Relative
<1>5. /\ rread' \in [pc : {"none", "open", "dump"}, out : RNames, spark : BOOLEAN, note : RNote]
      /\ rread'.spark => rread'.out \in Sparks
      /\ rreads' \in [RNames -> RFile] /\ rsparks' \in [Sparks -> RFile]
      /\ rstarts' \in [{"builds", "cascades", "reads", "reports"} -> Nat]
      /\ NotesTrue' /\ StepsNoted'
  <2>1. CASE ReadStart
    <3>1. /\ rread' \in [pc : {"open"}, out : RNames, spark : BOOLEAN, note : RNote]
          /\ (rread'.spark => rread'.out \in Sparks) /\ NotedAt(rversions, rread'.note)
          /\ rstarts' \in [{"builds", "cascades", "reads", "reports"} -> Nat]
          /\ UNCHANGED <<rreads, rsparks>>
      BY <1>1, <2>1, ReadStarts
    <3>2. NotesTrue' /\ StepsNoted'
      BY <1>1, <1>2, <1>3, <3>1, NotesKept DEF Stays
    <3> QED BY <1>1, <3>1, <3>2 DEF RTypeOK
  <2>2. CASE ReadOpen \/ ReadDump
    <3>1. /\ rread' \in [pc : {"none", "dump"}, out : RNames, spark : BOOLEAN, note : RNote]
          /\ rread'.spark => rread'.out \in Sparks
          /\ rread.pc # "none" /\ (rread'.pc # "none" => rread'.note = rread.note)
          /\ rreads' \in [RNames -> RFile] /\ rsparks' \in [Sparks -> RFile]
          /\ \A t \in RNames : rreads'[t].state = "saved" =>
                rreads'[t].note = rread.note \/ rreads'[t] = rreads[t]
          /\ UNCHANGED rstarts
      BY <1>1, <2>2, ReadEffect
    <3>2. NotesTrue'
      <4>1. ASSUME NEW t \in RNames, rreads'[t].state = "saved" PROVE NotedAt(rversions', rreads'[t].note)
        <5>1. CASE rreads'[t].note = rread.note
          BY <1>3, <3>1, <5>1
        <5>2. CASE rreads'[t] = rreads[t]
          BY <1>1, <1>2, <4>1, <5>2 DEF NotesTrue
        <5> QED BY <3>1, <4>1, <5>1, <5>2
      <4>2. rplan.state = "saved" => NotesOf(rversions, rplan)
        BY <1>1 DEF NotesTrue
      <4> QED BY <1>2, <1>3, <3>1, <4>1, <4>2 DEF NotesTrue
    <3>3. StepsNoted'
      BY <1>1, <1>2 DEF StepsNoted
    <3> QED BY <1>1, <3>1, <3>2, <3>3 DEF RTypeOK
  <2> QED BY <2>1, <2>2
<1>6. RTypeOK'
  <2>1. /\ rversions \in Seq(RVersion)
        /\ rbuild \in [pc : {"none", "append", "open", "dump"}, build : Nat, per : Nat, left : Nat, note : RNote]
        /\ rbuild.left > 0 <=> rbuild.pc = "append"
        /\ rcascade \in [pc : {"none", "plan", "commit", "note", "open", "dump"}, handle : Nat, results : RPlan,
                         todo : Seq([tag : STRING, target : Nat \ {0}])]
        /\ rcascade.pc \in {"plan", "commit", "note"} <=> rcascade.todo # <<>>
        /\ rbuild.pc # "none" \/ rcascade.pc # "none" => rversions # <<>>
        /\ rreporter \in [pc : {"none", "open", "dump"}, report : RReport]
        /\ rinfo \in RFile /\ rplan \in RPlan /\ rreport \in RReport
    BY <1>1 DEF RTypeOK
  <2> QED BY <1>2, <1>5, <2>1 DEF RTypeOK
<1> QED BY <1>4, <1>5, <1>6 DEF RKept

(* A report changes nothing but itself.                                    *)
LEMMA ReportKeeps ==
    ASSUME RKept, Stays, ReportBuild \/ ReportOpen \/ ReportDump
    PROVE  RKept'
<1>1. RTypeOK /\ NotesTrue /\ StepsNoted /\ Reported
  BY DEF RKept
<1>2. /\ rreporter' \in [pc : {"none", "open", "dump"}, report : RReport]
      /\ rreport' \in RReport /\ Reported'
      /\ rstarts' \in [{"builds", "cascades", "reads", "reports"} -> Nat]
      /\ UNCHANGED <<rversions, rbuild, rinfo, rcascade, rplan, rread, rreads, rsparks>>
  BY <1>1, ReportEffect
<1>3. NotesTrue' /\ StepsNoted'
  BY <1>1, <1>2, CascadeNotesKept, NotesKept DEF Stays
<1>4. RTypeOK'
  BY <1>1, <1>2 DEF RTypeOK
<1> QED BY <1>2, <1>3, <1>4 DEF RKept

(* Nor does a script that is killed.                                       *)
LEMMA KillKeeps ==
    ASSUME RKept, Stays, RKilled
    PROVE  RKept'
<1>1. RTypeOK /\ NotesTrue /\ StepsNoted /\ Reported
  BY DEF RKept
<1>2. /\ rbuild' = rbuild \/ rbuild' = BuildIdle
      /\ rcascade' = rcascade \/ rcascade' = CascadeIdle
      /\ rread' = rread \/ rread' = ReadIdle
      /\ rreporter' = rreporter \/ rreporter' = ReportIdle
      /\ UNCHANGED <<rversions, rinfo, rplan, rreads, rsparks, rreport, rstarts>>
  BY <1>1, KillEffect
<1>3. /\ BuildIdle \in [pc : {"none"}, build : Nat, per : Nat, left : {0}, note : RNote]
      /\ ReadIdle \in [pc : {"none"}, out : RNames, spark : {FALSE}, note : RNote]
      /\ ReportIdle \in [pc : {"none"}, report : RReport]
  BY RIdle DEF BuildIdle, ReadIdle, ReportIdle
<1>4. Cascading(CascadeIdle) /\ CascadeIdle.pc = "none"
  BY CascadeStops
<1>5. /\ rcascade'.pc # "none" => rcascade' = rcascade
      /\ rread'.pc # "none" => rread' = rread
      /\ rreporter'.pc # "none" => rreporter' = rreporter
      /\ rbuild'.pc # "none" => rbuild' = rbuild
  BY <1>2, <1>3, <1>4
<1>6. NotesTrue' /\ StepsNoted'
  BY <1>1, <1>2, <1>5, CascadeNotesKept, NotesKept DEF Stays
<1>7. Reported'
  BY <1>1, <1>2, <1>5 DEF Reported, Relative
<1>8. RTypeOK'
  <2>1. /\ rbuild' \in [pc : {"none", "append", "open", "dump"}, build : Nat, per : Nat, left : Nat, note : RNote]
        /\ rbuild'.left > 0 <=> rbuild'.pc = "append"
    BY <1>1, <1>2, <1>3 DEF RTypeOK
  <2>2. /\ rread' \in [pc : {"none", "open", "dump"}, out : RNames, spark : BOOLEAN, note : RNote]
        /\ rread'.spark => rread'.out \in Sparks
    BY <1>1, <1>2, <1>3 DEF RTypeOK
  <2>3. rreporter' \in [pc : {"none", "open", "dump"}, report : RReport]
    BY <1>1, <1>2, <1>3 DEF RTypeOK
  <2>4. /\ rcascade' \in [pc : {"none", "plan", "commit", "note", "open", "dump"}, handle : Nat, results : RPlan,
                          todo : Seq([tag : STRING, target : Nat \ {0}])]
        /\ rcascade'.pc \in {"plan", "commit", "note"} <=> rcascade'.todo # <<>>
    BY <1>1, <1>2, <1>4 DEF RTypeOK, Cascading, Cascades, RSteps, RStep
  <2>5. rbuild'.pc # "none" \/ rcascade'.pc # "none" => rversions' # <<>>
    BY <1>1, <1>2, <1>5 DEF RTypeOK
  <2>6. /\ rversions \in Seq(RVersion) /\ rinfo \in RFile /\ rplan \in RPlan /\ rreport \in RReport
        /\ rreads \in [RNames -> RFile] /\ rsparks \in [Sparks -> RFile]
        /\ rstarts \in [{"builds", "cascades", "reads", "reports"} -> Nat]
    BY <1>1 DEF RTypeOK
  <2> QED BY <1>2, <2>1, <2>2, <2>3, <2>4, <2>5, <2>6 DEF RTypeOK
<1> QED BY <1>6, <1>7, <1>8 DEF RKept

(* Nothing is built, noted or reported at first.                           *)
LEMMA RStarts == ASSUME RInit PROVE RInv
<1>1. /\ rversions = <<>> /\ rbuild = BuildIdle /\ rcascade = CascadeIdle /\ rread = ReadIdle
      /\ rreporter = ReportIdle /\ rinfo = RNoFile /\ rplan = RNoPlan /\ rreport = RNoReport
      /\ rreads = [t \in RNames |-> RNoFile] /\ rsparks = [t \in Sparks |-> RNoFile]
      /\ rstarts = [builds |-> 0, cascades |-> 0, reads |-> 0, reports |-> 0]
  BY DEF RInit
<1>2. /\ BuildIdle \in [pc : {"none"}, build : Nat, per : Nat, left : {0}, note : RNote]
      /\ ReadIdle \in [pc : {"none"}, out : RNames, spark : {FALSE}, note : RNote]
      /\ ReportIdle \in [pc : {"none"}, report : RReport]
  BY RIdle DEF BuildIdle, ReadIdle, ReportIdle
<1>3. /\ rcascade \in [pc : {"none", "plan", "commit", "note", "open", "dump"}, handle : Nat, results : RPlan,
                       todo : Seq([tag : STRING, target : Nat \ {0}])]
      /\ rcascade.pc \in {"plan", "commit", "note"} <=> rcascade.todo # <<>>
      /\ rcascade.pc = "none"
  BY <1>1, CascadeStops DEF Cascading, Cascades, RSteps, RStep
<1>4. rstarts \in [{"builds", "cascades", "reads", "reports"} -> Nat]
  BY <1>1
<1>5. rreads \in [RNames -> RFile] /\ rsparks \in [Sparks -> RFile] /\ \A t \in RNames : rreads[t].state = "none"
  BY <1>1, RIdle
<1>6. rversions \in Seq(RVersion) /\ DOMAIN rversions = {}
  BY <1>1
<1>7. RTypeOK
  <2>1. /\ rbuild \in [pc : {"none", "append", "open", "dump"}, build : Nat, per : Nat, left : Nat, note : RNote]
        /\ (rbuild.left > 0 <=> rbuild.pc = "append") /\ rbuild.pc = "none"
    BY <1>1, <1>2
  <2>2. /\ rread \in [pc : {"none", "open", "dump"}, out : RNames, spark : BOOLEAN, note : RNote]
        /\ (rread.spark => rread.out \in Sparks)
        /\ rreporter \in [pc : {"none", "open", "dump"}, report : RReport]
    BY <1>1, <1>2
  <2>3. rinfo \in RFile /\ rplan \in RPlan /\ rreport \in RReport
    BY <1>1, RIdle
  <2> QED BY <1>3, <1>4, <1>5, <1>6, <2>1, <2>2, <2>3 DEF RTypeOK
<1>8. NotesTrue /\ StepsNoted
  BY <1>1, <1>2, <1>3, <1>5, RIdle DEF NotesTrue, StepsNoted
<1>9. Newest /\ SameRows /\ Prefix
  BY <1>3, <1>6 DEF Newest, SameRows, Prefix
<1>10. Reported
  BY <1>1, <1>2, RIdle DEF Reported
<1> QED BY <1>7, <1>8, <1>9, <1>10 DEF RInv

(* Every step keeps it.                                                    *)
LEMMA ReadStep == ASSUME RInv, [RNext]_RVars PROVE RInv'
<1>1. RKept /\ RTypeOK /\ NotesTrue /\ StepsNoted /\ Newest /\ SameRows /\ Prefix /\ Reported
  BY DEF RInv, RKept
<1>2. VersionsStay \/ VersionAdded
  BY <1>1, VersionsStep
<1>3. Stays
  BY <1>1, <1>2, NotesStay DEF Stays
<1>4. Newest' /\ SameRows' /\ Prefix'
  BY <1>1, <1>2, NewestStep, SameRowsStep, PrefixStep
<1>5. CASE UNCHANGED RVars
  <2>1. UNCHANGED <<rversions, rbuild, rinfo, rcascade, rplan, rread, rreads, rsparks, rreporter, rreport, rstarts>>
    BY <1>5 DEF RVars
  <2>2. RTypeOK'
    BY <1>1, <2>1 DEF RTypeOK
  <2>3. NotesTrue'
    BY <1>1, <2>1 DEF NotesTrue, NotesOf
  <2>4. StepsNoted'
    BY <1>1, <2>1 DEF StepsNoted
  <2>5. Reported'
    BY <1>1, <2>1 DEF Reported, Relative
  <2> QED BY <1>4, <2>2, <2>3, <2>4, <2>5 DEF RInv
<1>6. CASE RNext
  <2>1. RKept'
    BY <1>1, <1>3, <1>6, BuildKeeps, CascadeKeeps, ReadKeeps, ReportKeeps, KillKeeps DEF RNext
  <2> QED BY <1>4, <2>1 DEF RKept, RInv
<1> QED BY <1>5, <1>6

(* What the read performance bench keeps true: what is noted of a version  *)
(* is what there is at it, in the plan, in what was read and in a cascade  *)
(* under way; a version is added on top of the latest of the latest build; *)
(* what a compaction merges comes first of what it commits on top of.      *)
THEOREM ReadInvariant == RSpec => []RInv
<1> QED BY RStarts, ReadStep, PTL DEF RSpec

(* Every version a saved plan names is the dataset the plan says it is,    *)
(* with the rows of every other after as many appends, and so is what was  *)
(* read of it (README.md:42).                                              *)
THEOREM PlanIsTrue == RSpec => []PlanStaysTrue
<1>1. ASSUME RInv PROVE PlanStaysTrue
  <2> DEFINE notes == {rplan.E} \cup {rplan.compactions[i].note : i \in DOMAIN rplan.compactions}
             Src(n) == <<rversions[n.version].build, rversions[n.version].appends>>
  <2> SUFFICES ASSUME rplan.state = "saved"
               PROVE  /\ \A n \in notes : n = Noted(rversions, n.version)
                      /\ \A m, n \in notes : Src(m) = Src(n) => m.rows = n.rows
                      /\ \A t \in RNames, n \in notes :
                             rreads[t].state = "saved" /\ rreads[t].note.version = n.version => rreads[t].note = n
    BY DEF PlanStaysTrue
  <2>1. \A n \in notes : NotedAt(rversions, n)
    BY <1>1 DEF RInv, NotesTrue, NotesOf
  <2>2. \A t \in RNames : rreads[t].state = "saved" => NotedAt(rversions, rreads[t].note)
    BY <1>1 DEF RInv, NotesTrue
  <2> HIDE DEF notes
  <2>3. ASSUME NEW m \in notes, NEW n \in notes, Src(m) = Src(n) PROVE m.rows = n.rows
    <3>1. /\ m.version \in DOMAIN rversions /\ n.version \in DOMAIN rversions
          /\ m = Noted(rversions, m.version) /\ n = Noted(rversions, n.version)
      BY <2>1 DEF NotedAt
    <3>2. SumOf(rversions[m.version].frags) = SumOf(rversions[n.version].frags)
      BY <1>1, <2>3, <3>1 DEF RInv, SameRows
    <3>3. m.rows = RowsOf(rversions[m.version].frags) /\ n.rows = RowsOf(rversions[n.version].frags)
      BY <3>1 DEF Noted
    <3> QED BY <3>2, <3>3, RowsAreSum
  <2>4. ASSUME NEW t \in RNames, NEW n \in notes, rreads[t].state = "saved", rreads[t].note.version = n.version
        PROVE  rreads[t].note = n
    BY <2>1, <2>2, <2>4 DEF NotedAt
  <2> QED BY <2>1, <2>3, <2>4 DEF NotedAt
<1> QED BY <1>1, ReadInvariant, PTL

(* A report that gets written is relative to A, and compares with Spark at *)
(* both ends (generate_report.py:92).                                      *)
THEOREM RelativeToA == RSpec => []ReportIsRelativeToA
<1>1. RInv => ReportIsRelativeToA
  BY DEF RInv, Reported, Relative, ReportIsRelativeToA
<1> QED BY <1>1, ReadInvariant, PTL

(* Every variable of the read benchmark keeps its type, and nothing is    *)
(* appended but by a build under way.                                      *)
THEOREM RTypes == RSpec => []RTypeOK
<1>1. RInv => RTypeOK
  BY DEF RInv
<1> QED BY <1>1, ReadInvariant, PTL

-----------------------------------------------------------------------------
(* ImageLoader.                                                            *)

IImages  == {Image(i) : i \in Nat}
IVersion == {s \in Seq(IImages) : \A i \in 1 .. Len(s) : s[i].id = i - 1}

(* What the builds store: versions in which each image is at its place,    *)
(* and parts of images, one behind the other.                              *)
IStored ==
    /\ ilance \in Seq(IVersion)
    /\ ibuild \in [pc : {"none", "lance", "raw", "open", "dump"}, n : Nat, done : Nat]
    /\ ibuild.pc = "lance" =>
         /\ ibuild.done < ibuild.n
         /\ ibuild.done > 0 => ilance # <<>> /\ Len(Last(ilance)) = ibuild.done
    /\ iparts \in Seq(Seq(IImages))
    /\ iparquet \in [pc : {"none", "parts", "read", "open", "dump"}, n : Nat, done : Nat]
    /\ iparquet.pc = "parts" =>
         iparquet.done < iparquet.n /\ iparquet.done \div IPartBatch <= Len(iparts)
    /\ imeta \in [state : {"none", "torn", "saved"}, n_images : Nat]

(* The epoch is that of some order of the images: what was fetched of a    *)
(* batch is what the files of their own would have given, and what the     *)
(* loop has is that of the first batches.                                  *)
InOrder(train, p) ==
    /\ train.batches = Batches(p)
    /\ DOMAIN train.fetched = DOMAIN train.batches
    /\ \A k \in DOMAIN train.batches : train.fetched[k] \in {<<>>, RawS3Dataset(train.batches[k])}
    /\ \E m \in 0 .. train.n : /\ train.seen = RawS3Dataset(SubSeq(p, 1, m))
                               /\ m = train.n \/ \E q \in Nat : m = q * ILoadBatch

Whole(n, epochs) == [e \in 1 .. epochs |-> n]

ITrained ==
    /\ itrain \in ITrainings
    /\ \A w \in 1 .. IWorkers :
          itrain.handles[w] <= (IF itrain.method = "parquet" THEN Len(iparts) ELSE Len(ilance))
    /\ itrain.pc = "none" => itrain = ITrainIdle
    /\ itrain.pc # "none" => \E p \in Shuffled(itrain.n) : InOrder(itrain, p)
    /\ itrain.pc = "epoch" => \E e \in 0 .. IEpochs - 1 : itrain.epochs = Whole(itrain.n, e)
    /\ itrain.pc \in {"open", "dump"} => itrain.epochs = Whole(itrain.n, IEpochs)
    /\ iresult.state \in {"none", "torn", "saved"}
    /\ iresult.state = "saved" => iresult.epochs = Whole(iresult.n, IEpochs)

IInvariant == IStored /\ ITrained

(* Division, as it is used for the batches and the parts.                  *)
LEMMA QuotientIs ==
    ASSUME NEW x \in Int, NEW B \in Nat \ {0}, NEW q \in Int, q * B <= x, x < q * B + B
    PROVE  x \div B = q
<1> DEFINE d == x \div B
           r == x % B
<1>1. /\ d \in Int /\ r \in Int /\ 0 <= r /\ r < B
      /\ x = B * d + r
  OBVIOUS
<1> HIDE DEF d, r
<1>2. CASE d >= q + 1
  <2>1. PICK e \in Nat : d = q + 1 + e
    <3>1. d - (q + 1) \in Nat /\ d = q + 1 + (d - (q + 1))
      BY <1>1, <1>2
    <3> QED BY <3>1
  <2>2. B * d = q * B + B + B * e
    BY <2>1
  <2>3. B * e >= 0
    OBVIOUS
  <2> QED BY <1>1, <2>2, <2>3
<1>3. CASE d <= q - 1
  <2>1. PICK e \in Nat : q = d + 1 + e
    <3>1. q - (d + 1) \in Nat /\ q = d + 1 + (q - (d + 1))
      BY <1>1, <1>3
    <3> QED BY <3>1
  <2>2. q * B = B * d + B + B * e
    BY <1>1, <2>1
  <2>3. B * e >= 0
    OBVIOUS
  <2> QED BY <1>1, <2>2, <2>3
<1>4. d = q
  BY <1>1, <1>2, <1>3
<1> QED BY <1>4 DEF d

(* The rank of an index is that of no other.                               *)
LEMMA RankOnce ==
    ASSUME NEW ix \in Seq(Nat)
    PROVE  /\ \A j \in DOMAIN ix : Rank(ix, j) \in DOMAIN ix
           /\ \A j, k \in DOMAIN ix : Rank(ix, j) = Rank(ix, k) => j = k
<1> DEFINE D == 1 .. Len(ix)
           Before(i, j) == ix[i] < ix[j] \/ (ix[i] = ix[j] /\ i <= j)
           Upto(j) == {i \in D : Before(i, j)}
<1>1. /\ DOMAIN ix = D /\ Len(ix) \in Nat /\ D \subseteq Nat
      /\ \A j \in D : ix[j] \in Nat
  OBVIOUS
<1>2. IsFiniteSet(D) /\ Cardinality(D) = Len(ix)
  BY <1>1, FS_Interval, SMTT(30)
<1>3. \A j \in D : Rank(ix, j) = Cardinality(Upto(j))
  BY <1>1 DEF Rank
<1>4. /\ \A j \in D : Before(j, j)
      /\ \A j, k \in D : j # k => ~ Before(j, k) \/ ~ Before(k, j)
      /\ \A j, k \in D : Before(j, k) \/ Before(k, j)
      /\ \A i, j, k \in D : Before(i, j) /\ Before(j, k) => Before(i, k)
  BY <1>1
<1> HIDE DEF Before, D
<1>5. ASSUME NEW j \in D PROVE Rank(ix, j) \in D
  <2>1. Upto(j) \in SUBSET D /\ j \in Upto(j)
    BY <1>4
  <2>2. IsFiniteSet(Upto(j)) /\ Cardinality(Upto(j)) <= Len(ix)
    BY <1>2, <2>1, FS_Subset
  <2>3. Cardinality(Upto(j)) \in Nat /\ Cardinality(Upto(j)) # 0
    BY <2>1, <2>2, FS_CardinalityType, FS_EmptySet
  <2> QED BY <1>1, <1>3, <2>2, <2>3 DEF D
<1>6. ASSUME NEW j \in D, NEW k \in D, Rank(ix, j) = Rank(ix, k), Before(j, k) PROVE j = k
  <2>1. Upto(j) \subseteq Upto(k)
    BY <1>4, <1>6
  <2>2. Upto(k) \in SUBSET D
    OBVIOUS
  <2>3. IsFiniteSet(Upto(k))
    BY <1>2, <2>2, FS_Subset
  <2>4. Upto(k) = Upto(j)
    BY <1>3, <1>6, <2>1, <2>3, FS_Subset
  <2>5. k \in Upto(j)
    BY <1>4, <2>4
  <2> QED BY <1>4, <1>6, <2>5
<1> QED BY <1>1, <1>4, <1>5, <1>6

(* Every place of the sorted list is that of some index.                   *)
LEMMA RankAll ==
    ASSUME NEW ix \in Seq(Nat)
    PROVE  \A s \in DOMAIN ix : \E j \in DOMAIN ix : Rank(ix, j) = s
<1> DEFINE D == DOMAIN ix
           rank == [j \in D |-> Rank(ix, j)]
<1>1. D = 1 .. Len(ix) /\ Len(ix) \in Nat
  OBVIOUS
<1>2. IsFiniteSet(D)
  BY <1>1, FS_Interval
<1>3. rank \in Injection(D, D)
  BY RankOnce DEF Injection, IsInjective
<1>4. rank \in Surjection(D, D)
  BY <1>2, <1>3, FS_Injection
<1> QED BY <1>4 DEF Surjection

(* The images come back in the order they were asked for.                  *)
LEMMA SortRestores ==
    ASSUME NEW ix \in Seq(Nat), NEW rows
    PROVE  restored(ix, rows) = [j \in DOMAIN ix |-> rows[ix[j] + 1].id]
<1> DEFINE D == DOMAIN ix
           place(s) == CHOOSE j \in D : Rank(ix, j) = s
           pairs == sorted_pairs(ix)
<1>1. \A s \in D : place(s) \in D /\ Rank(ix, place(s)) = s
  BY RankAll, Zenon
<1>2. pairs = [s \in D |-> <<place(s), ix[place(s)]>>]
  BY DEF sorted_pairs
<1> HIDE DEF pairs, place
<1>3. ASSUME NEW j \in D
      PROVE  \E s \in D : pairs[s][1] = j
  <2>1. Rank(ix, j) \in D
    BY RankOnce
  <2>2. place(Rank(ix, j)) = j
    BY <1>1, <2>1, RankOnce
  <2> QED BY <1>2, <2>1, <2>2
<1>4. ASSUME NEW j \in D
      PROVE  pairs[CHOOSE s \in DOMAIN pairs : pairs[s][1] = j][2] = ix[j]
  <2> DEFINE s == CHOOSE s \in DOMAIN pairs : pairs[s][1] = j
  <2>1. s \in D /\ pairs[s][1] = j
    <3>1. DOMAIN pairs = D
      BY <1>2
    <3> QED BY <1>3, <3>1, Zenon
  <2> HIDE DEF s
  <2>2. pairs[s][2] = ix[j]
    BY <1>2, <2>1
  <2> QED BY <2>2 DEF s
<1> DEFINE index(j) == pairs[CHOOSE s \in DOMAIN pairs : pairs[s][1] = j][2]
<1>5. restored(ix, rows) = [j \in D |-> rows[index(j) + 1].id]
  BY DEF restored, pairs
<1>6. \A j \in D : index(j) = ix[j]
  BY <1>4
<1> HIDE DEF index
<1> QED BY <1>5, <1>6

(* An image has its own label.                                             *)
LEMMA ImageIs ==
    \A r \in IImages : /\ r.id \in Nat /\ r.label = r.id % ILabels
                       /\ r = Image(r.id)
BY DEF IImages, Image

(* The image of an id is an image.                                         *)
LEMMA ImageIn == \A i \in Nat : Image(i) \in IImages /\ Image(i).id = i
BY DEF IImages, Image

(* A file of its own gives the image that is asked for.                    *)
LEMMA RawType ==
    ASSUME NEW ix \in Seq(Nat)
    PROVE  /\ RawS3Dataset(ix) \in Seq(IItems) /\ Len(RawS3Dataset(ix)) = Len(ix)
           /\ \A j \in 1 .. Len(ix) :
                RawS3Dataset(ix)[j] = [want |-> ix[j], image |-> ix[j], label |-> ix[j] % ILabels]
<1>1. DOMAIN ix = 1 .. Len(ix) /\ Len(ix) \in Nat /\ \A j \in 1 .. Len(ix) : ix[j] \in Nat
  OBVIOUS
<1>2. \A i \in Nat : i % ILabels \in Nat
  BY ImageLoaderAssumption
<1>3. RawS3Dataset(ix) = [j \in 1 .. Len(ix) |->
                            [want |-> ix[j], image |-> ix[j], label |-> ix[j] % ILabels]]
  BY <1>1 DEF RawS3Dataset, Item
<1>4. \A j \in 1 .. Len(ix) :
         [want |-> ix[j], image |-> ix[j], label |-> ix[j] % ILabels] \in IItems
  BY <1>1, <1>2 DEF IItems
<1> QED BY <1>1, <1>3, <1>4

(* So does a version of the Lance dataset that has it.                     *)
LEMMA LanceGives ==
    ASSUME NEW ix \in Seq(Nat), NEW rows \in IVersion, ToSet(ix) \subseteq Ids(Len(rows))
    PROVE  LanceBlobDataset(ix, rows) = RawS3Dataset(ix)
<1>1. rows \in Seq(IImages) /\ Len(rows) \in Nat /\ \A i \in 1 .. Len(rows) : rows[i].id = i - 1
  BY DEF IVersion
<1>2. ASSUME NEW j \in DOMAIN ix
      PROVE  rows[ix[j] + 1].id = ix[j] /\ rows[ix[j] + 1].label = ix[j] % ILabels
  <2>1. ix[j] \in ToSet(ix) /\ ix[j] \in Nat
    BY DEF ToSet
  <2>2. ix[j] + 1 \in 1 .. Len(rows) /\ (ix[j] + 1) - 1 = ix[j]
    BY <1>1, <2>1 DEF Ids
  <2>3. rows[ix[j] + 1] \in IImages
    BY <1>1, <2>2
  <2> QED BY <1>1, <2>2, <2>3, ImageIs
<1>3. restored(ix, rows) = [j \in DOMAIN ix |-> ix[j]]
  BY <1>2, SortRestores
<1> QED BY <1>2, <1>3 DEF LanceBlobDataset, RawS3Dataset

(* There is a last one of what there is.                                   *)
LEMMA LastSelected ==
    ASSUME NEW n \in Nat, NEW S \in SUBSET (1 .. n), S # {}
    PROVE  Max(S) \in S
<1>1. /\ IsFiniteSet(1 .. n)
      /\ IsChoice([s \in (SUBSET (1 .. n)) \ {{}} |-> Max(s)], 1 .. n)
  BY LastFirst
<1>2. S \in (SUBSET (1 .. n)) \ {{}}
  OBVIOUS
<1> QED BY <1>1, <1>2 DEF IsChoice

(* And Parquet parts that have it, however often.                          *)
LEMMA ParquetGives ==
    ASSUME NEW ix \in Seq(Nat), NEW rows \in Seq(IImages),
           ToSet(ix) \subseteq {rows[i].id : i \in DOMAIN rows}
    PROVE  ParquetS3Dataset(ix, rows) = RawS3Dataset(ix)
<1> DEFINE S   == {r \in ToSet(rows) : r.id \in ToSet(ix)}
           tbl == Kept(rows, S)
           At(i) == {k \in 1 .. Len(tbl) : tbl[k].id = i}
<1>1. tbl \in Seq(IImages \cap S) /\ ToSet(tbl) = ToSet(rows) \cap S
  BY KeptType, KeptElements, Zenon
<1> HIDE DEF tbl
<1>2. tbl \in Seq(IImages) /\ Len(tbl) \in Nat /\ DOMAIN tbl = 1 .. Len(tbl)
      /\ \A k \in 1 .. Len(tbl) : tbl[k] \in IImages
  BY <1>1
<1>3. ASSUME NEW i \in ToSet(ix) PROVE Max(At(i)) \in At(i) /\ At(i) # {}
  <2>1. PICK m \in DOMAIN rows : rows[m].id = i
    OBVIOUS
  <2>2. rows[m] \in ToSet(rows) \cap S
    BY <2>1 DEF ToSet
  <2>3. PICK k \in DOMAIN tbl : tbl[k] = rows[m]
    BY <1>1, <2>2 DEF ToSet
  <2>4. k \in At(i)
    BY <1>2, <2>1, <2>3
  <2>5. At(i) \in SUBSET (1 .. Len(tbl))
    OBVIOUS
  <2> HIDE DEF At
  <2> QED BY <1>2, <2>4, <2>5, LastSelected
<1> DEFINE RowAt(i) == SelectLastInSeq(tbl, LAMBDA r : r.id = i)
<1>4. ASSUME NEW j \in DOMAIN ix
      PROVE  Item(ix[j], tbl[RowAt(ix[j])].id, tbl[RowAt(ix[j])].label) = Item(ix[j], ix[j], ix[j] % ILabels)
  <2>1. ix[j] \in ToSet(ix) /\ ix[j] \in Nat
    BY DEF ToSet
  <2>2. RowAt(ix[j]) = Max(At(ix[j]))
    BY <1>3, <2>1 DEF SelectLastInSeq
  <2>3. RowAt(ix[j]) \in At(ix[j])
    BY <1>3, <2>1, <2>2
  <2> HIDE DEF RowAt
  <2>4. tbl[RowAt(ix[j])].id = ix[j] /\ tbl[RowAt(ix[j])] \in IImages
    BY <1>2, <2>3
  <2> QED BY <2>4, ImageIs
<1>5. ParquetS3Dataset(ix, rows)
      = [j \in DOMAIN ix |-> Item(ix[j], tbl[RowAt(ix[j])].id, tbl[RowAt(ix[j])].label)]
  BY DEF ParquetS3Dataset, tbl
<1> HIDE DEF RowAt
<1> QED BY <1>4, <1>5 DEF RawS3Dataset

(* What is opened of the parts is a sequence of images.                    *)
LEMMA PartsOpened ==
    ASSUME NEW parts \in Seq(Seq(IImages)), NEW h \in 0 .. Len(parts)
    PROVE  FlattenSeq(SubSeq(parts, 1, h)) \in Seq(IImages)
<1>1. SubSeq(parts, 1, h) \in Seq(Seq(IImages))
  OBVIOUS
<1> QED BY <1>1, FlatType

NBatches(n) == (n + ILoadBatch - 1) \div ILoadBatch

(* Where the batches of n images begin and end.                            *)
LEMMA BatchEnds ==
    ASSUME NEW n \in Nat
    PROVE  /\ NBatches(n) \in Nat
           /\ \A k \in 1 .. NBatches(n) :
                /\ (k - 1) * ILoadBatch \in Nat /\ (k - 1) * ILoadBatch < n
                /\ UpTo((k - 1) * ILoadBatch, ILoadBatch, n) \in (k - 1) * ILoadBatch + 1 .. n
                /\ UpTo((k - 1) * ILoadBatch, ILoadBatch, n) \in {n, k * ILoadBatch}
           /\ \A q \in Nat : NBatches(q * ILoadBatch) = q
<1> DEFINE B == ILoadBatch
<1>1. B \in Nat \ {0}
  BY ImageLoaderAssumption
<1> HIDE DEF B
<1> DEFINE N == (n + B - 1) \div B
           r == (n + B - 1) % B
<1>2. N \in Int /\ r \in Int /\ 0 <= r /\ r < B /\ n + B - 1 = B * N + r
  BY <1>1
<1>3. N = NBatches(n)
  BY DEF NBatches, B
<1> HIDE DEF N, r
<1>4. N >= 0
  <2> SUFFICES ASSUME N <= -1 PROVE FALSE
    BY <1>2
  <2>1. PICK e \in Nat : N = -1 - e
    <3>1. -1 - N \in Nat /\ N = -1 - (-1 - N)
      BY <1>2
    <3> QED BY <3>1
  <2>2. B * N = 0 - B - B * e /\ B * e >= 0
    BY <1>1, <2>1
  <2> QED BY <1>1, <1>2, <2>2
<1>5. ASSUME NEW k \in 1 .. N
      PROVE  /\ (k - 1) * B \in Nat /\ (k - 1) * B < n
             /\ UpTo((k - 1) * B, B, n) \in (k - 1) * B + 1 .. n
             /\ UpTo((k - 1) * B, B, n) \in {n, k * B}
  <2>1. PICK e \in Nat : N = k + e
    <3>1. N - k \in Nat /\ N = k + (N - k)
      BY <1>2
    <3> QED BY <3>1
  <2>2. PICK i \in Nat : k = i + 1
    <3>1. k - 1 \in Nat /\ k = (k - 1) + 1
      OBVIOUS
    <3> QED BY <3>1
  <2>3. B * N = i * B + B + B * e /\ B * e >= 0 /\ i * B \in Nat
    BY <1>1, <2>1, <2>2
  <2>4. i * B < n /\ (k - 1) * B = i * B /\ k * B = i * B + B
    BY <1>1, <1>2, <2>2, <2>3
  <2>5. UpTo(i * B, B, n) \in {n, i * B + B} /\ UpTo(i * B, B, n) \in i * B + 1 .. n
    BY ONLY <1>1, <2>3, <2>4, n \in Nat, i \in Nat DEF UpTo
  <2> QED BY <2>3, <2>4, <2>5
<1>6. ASSUME NEW q \in Nat PROVE NBatches(q * B) = q
  <2>1. q * B \in Nat /\ q * B + B - 1 \in Int
    BY <1>1
  <2>2. (q * B + B - 1) \div B = q
    BY <1>1, <2>1, QuotientIs
  <2> QED BY <2>2 DEF NBatches, B
<1> QED BY <1>2, <1>3, <1>4, <1>5, <1>6 DEF B

(* An order of the images, and its batches.                                *)
LEMMA BatchesType ==
    ASSUME NEW n \in Nat, NEW p \in Shuffled(n)
    PROVE  /\ p \in Seq(Nat) /\ Len(p) = n
           /\ Batches(p) \in Seq(Seq(Nat)) /\ Len(Batches(p)) = NBatches(n)
           /\ \A k \in 1 .. NBatches(n) :
                Batches(p)[k] = SubSeq(p, (k - 1) * ILoadBatch + 1,
                                       UpTo((k - 1) * ILoadBatch, ILoadBatch, n))
<1>1. p \in [1 .. n -> Nat]
  BY DEF Shuffled, Ids
<1>2. p \in Seq(Nat) /\ Len(p) = n
  BY <1>1
<1> DEFINE batch(k) == SubSeq(p, (k - 1) * ILoadBatch + 1,
                              UpTo((k - 1) * ILoadBatch, ILoadBatch, n))
<1>3. Batches(p) = [k \in 1 .. NBatches(n) |-> batch(k)]
  BY <1>2 DEF Batches, NBatches
<1>4. ASSUME NEW k \in 1 .. NBatches(n) PROVE batch(k) \in Seq(Nat)
  <2> DEFINE a == (k - 1) * ILoadBatch
             b == UpTo(a, ILoadBatch, n)
  <2>1. a \in Nat /\ b \in a + 1 .. n
    BY BatchEnds
  <2> HIDE DEF a, b
  <2>2. SubSeq(p, a + 1, b) \in Seq(Nat)
    BY <1>2, <2>1
  <2> QED BY <2>2 DEF a, b
<1>5. NBatches(n) \in Nat
  BY BatchEnds
<1> HIDE DEF batch
<1>6. Batches(p) \in Seq(Seq(Nat)) /\ Len(Batches(p)) = NBatches(n)
  BY <1>3, <1>4, <1>5
<1> QED BY <1>2, <1>3, <1>6 DEF batch

(* What is fetched of the images up to m, and then up to l.                *)
LEMMA RawPrefix ==
    ASSUME NEW p \in Seq(Nat), NEW m \in 0 .. Len(p), NEW l \in m .. Len(p)
    PROVE  RawS3Dataset(SubSeq(p, 1, m)) \o RawS3Dataset(SubSeq(p, m + 1, l))
           = RawS3Dataset(SubSeq(p, 1, l))
<1> DEFINE u == SubSeq(p, 1, m)
           v == SubSeq(p, m + 1, l)
           w == SubSeq(p, 1, l)
           ru == RawS3Dataset(u)
           rv == RawS3Dataset(v)
           rw == RawS3Dataset(w)
<1>1. Len(p) \in Nat /\ m \in Nat /\ l \in Nat /\ m <= l /\ l <= Len(p)
  OBVIOUS
<1>2. /\ u \in Seq(Nat) /\ Len(u) = m /\ \A j \in 1 .. m : u[j] = p[j]
      /\ v \in Seq(Nat) /\ Len(v) = l - m /\ \A j \in 1 .. l - m : v[j] = p[m + j]
      /\ w \in Seq(Nat) /\ Len(w) = l /\ \A j \in 1 .. l : w[j] = p[j]
  BY <1>1
<1> HIDE DEF u, v, w
<1> DEFINE Raw(i) == [want |-> i, image |-> i, label |-> i % ILabels]
<1>3. /\ ru \in Seq(IItems) /\ Len(ru) = m /\ \A j \in 1 .. m : ru[j] = Raw(p[j])
      /\ rv \in Seq(IItems) /\ Len(rv) = l - m /\ \A j \in 1 .. l - m : rv[j] = Raw(p[m + j])
      /\ rw \in Seq(IItems) /\ Len(rw) = l /\ \A j \in 1 .. l : rw[j] = Raw(p[j])
  <2>1. \A s \in Seq(Nat) : /\ RawS3Dataset(s) \in Seq(IItems) /\ Len(RawS3Dataset(s)) = Len(s)
                            /\ \A j \in 1 .. Len(s) : RawS3Dataset(s)[j] = Raw(s[j])
    BY RawType
  <2> HIDE DEF Raw
  <2>2. /\ ru \in Seq(IItems) /\ Len(ru) = m /\ \A j \in 1 .. m : ru[j] = Raw(u[j])
        /\ rv \in Seq(IItems) /\ Len(rv) = l - m /\ \A j \in 1 .. l - m : rv[j] = Raw(v[j])
        /\ rw \in Seq(IItems) /\ Len(rw) = l /\ \A j \in 1 .. l : rw[j] = Raw(w[j])
    BY <1>2, <2>1
  <2> HIDE DEF ru, rv, rw
  <2> QED BY <1>2, <2>2
<1> HIDE DEF ru, rv, rw, Raw
<1>4. ru \o rv \in Seq(IItems) /\ Len(ru \o rv) = l
  <2>1. ru \in Seq(IItems) /\ rv \in Seq(IItems) /\ Len(ru) = m /\ Len(rv) = l - m
    BY <1>3
  <2> QED BY <1>1, <2>1
<1>5. ASSUME NEW j \in 1 .. l PROVE (ru \o rv)[j] = rw[j]
  <2>1. ru \in Seq(IItems) /\ rv \in Seq(IItems) /\ Len(ru) = m /\ Len(rv) = l - m
    BY <1>3
  <2>2. \A i \in 1 .. Len(ru) + Len(rv) : (ru \o rv)[i] = IF i <= Len(ru) THEN ru[i] ELSE rv[i - Len(ru)]
    BY <2>1, ConcatProperties, Zenon
  <2>3. j \in 1 .. m + (l - m)
    BY <1>1
  <2>4. (ru \o rv)[j] = IF j <= m THEN ru[j] ELSE rv[j - m]
    BY <2>1, <2>2, <2>3, Zenon
  <2>5. CASE j <= m
    <3>1. j \in 1 .. m
      BY <1>1, <2>5
    <3> QED BY <1>3, <2>4, <2>5, <3>1, Zenon
  <2>6. CASE ~ (j <= m)
    <3>1. j - m \in 1 .. l - m /\ m + (j - m) = j
      BY <1>1, <2>6
    <3>2. rv[j - m] = Raw(p[m + (j - m)]) /\ rw[j] = Raw(p[j])
      BY <1>3, <3>1, Zenon
    <3> QED BY <2>4, <2>6, <3>1, <3>2, Zenon
  <2> QED BY <2>5, <2>6, Zenon
<1>6. ru \o rv = rw
  BY <1>3, <1>4, <1>5, SMTT(30)
<1> QED BY <1>6 DEF ru, rv, rw, u, v, w

(* The images of a batch, as they are stored.                              *)
LEMMA ImagesType ==
    ASSUME NEW a \in Nat, NEW b \in Nat, a <= b
    PROVE  /\ Images(a, b) \in Seq(IImages) /\ Len(Images(a, b)) = b - a
           /\ \A j \in 1 .. b - a : Images(a, b)[j].id = a + j - 1
<1>1. b - a \in Nat /\ \A j \in 1 .. b - a : a + j - 1 \in Nat
  OBVIOUS
<1>2. \A j \in 1 .. b - a : Image(a + j - 1) \in IImages /\ Image(a + j - 1).id = a + j - 1
  BY <1>1, ImageIn
<1> QED BY <1>1, <1>2 DEF Images

(* A batch more makes a version that has it all.                           *)
LEMMA VersionGrows ==
    ASSUME NEW v \in IVersion, NEW b \in Nat, Len(v) <= b
    PROVE  v \o Images(Len(v), b) \in IVersion /\ Len(v \o Images(Len(v), b)) = b
<1> DEFINE a == Len(v)
           u == Images(a, b)
           w == v \o u
<1>1. v \in Seq(IImages) /\ a \in Nat /\ a <= b /\ \A i \in 1 .. a : v[i].id = i - 1
  BY DEF IVersion
<1>2. Len(v) = a
  OBVIOUS
<1> HIDE DEF a
<1>3. u \in Seq(IImages) /\ Len(u) = b - a /\ \A j \in 1 .. b - a : u[j].id = a + j - 1
  BY <1>1, ImagesType
<1> HIDE DEF u
<1>4. w \in Seq(IImages) /\ Len(w) = b
  <2>1. v \in Seq(IImages) /\ u \in Seq(IImages)
    BY <1>1, <1>3
  <2>2. w \in Seq(IImages) /\ Len(w) = Len(v) + Len(u)
    BY ONLY <2>1
  <2> QED BY <1>1, <1>2, <1>3, <2>2
<1>5. ASSUME NEW i \in 1 .. b PROVE w[i].id = i - 1
  <2>1. CASE i <= a
    <3>1. w[i] = v[i] /\ i \in 1 .. a
      BY <1>1, <1>2, <1>3, <2>1
    <3> QED BY <1>1, <3>1
  <2>2. CASE i > a
    <3>1. w[i] = u[i - a]
      BY <1>1, <1>2, <1>3, <2>2
    <3>2. i - a \in 1 .. b - a /\ a + (i - a) - 1 = i - 1
      BY <1>1, <2>2
    <3>3. u[i - a].id = a + (i - a) - 1
      BY <1>3, <3>2
    <3> QED BY <3>1, <3>2, <3>3
  <2>3. i <= a \/ i > a
    BY <1>1
  <2> QED BY <2>1, <2>2, <2>3, Zenon
<1>6. w \in IVersion
  BY <1>4, <1>5 DEF IVersion
<1> QED BY <1>4, <1>6 DEF w, u, a

(* A batch that is the first begins a version.                             *)
LEMMA VersionBegins ==
    ASSUME NEW b \in Nat
    PROVE  Images(0, b) \in IVersion /\ Len(Images(0, b)) = b
<1>1. /\ Images(0, b) \in Seq(IImages) /\ Len(Images(0, b)) = b - 0
      /\ \A j \in 1 .. b - 0 : Images(0, b)[j].id = 0 + j - 1
  <2>1. 0 \in Nat /\ 0 <= b
    OBVIOUS
  <2> QED BY <2>1, ImagesType, Zenon
<1>2. \A j \in 1 .. b : 0 + j - 1 = j - 1
  OBVIOUS
<1> QED BY <1>1, <1>2 DEF IVersion

(* A part more is the next one.                                            *)
LEMMA QuotientGrows ==
    ASSUME NEW x \in Nat, NEW B \in Nat \ {0}
    PROVE  x \div B \in Nat /\ (x + B) \div B = x \div B + 1
<1> DEFINE d == x \div B
           r == x % B
<1>1. d \in Int /\ r \in Int /\ 0 <= r /\ r < B /\ x = B * d + r
  OBVIOUS
<1>2. d \in Nat
  OBVIOUS
<1> HIDE DEF d, r
<1>3. (d + 1) * B = B * d + B
  BY <1>1
<1>4. x + B \in Int /\ d + 1 \in Int /\ (d + 1) * B <= x + B /\ x + B < (d + 1) * B + B
  BY ONLY <1>1, <1>3, x \in Nat, B \in Nat
<1>5. (x + B) \div B = d + 1
  BY <1>4, QuotientIs
<1> QED BY <1>2, <1>5 DEF d

(* Versions and parts are only added.                                      *)
INotLess == Len(ilance') >= Len(ilance) /\ Len(iparts') >= Len(iparts)

(* A batch makes a version more.                                           *)
LEMMA WriteBatchStores == ASSUME IStored, WriteBatch PROVE IStored' /\ INotLess
<1> DEFINE n    == ibuild.n
           done == ibuild.done
           end  == UpTo(done, ILanceBatch, n)
           new  == Images(done, end)
           whole == IF done = 0 THEN new ELSE Last(ilance) \o new
<1>1. /\ ibuild.pc = "lance" /\ n \in Nat /\ done \in Nat /\ done < n
      /\ ibuild \in [pc : {"none", "lance", "raw", "open", "dump"}, n : Nat, done : Nat]
      /\ done > 0 => ilance # <<>> /\ Len(Last(ilance)) = done
      /\ ilance \in Seq(IVersion)
  BY DEF IStored, WriteBatch
<1>2. /\ ilance' = Append(ilance, whole)
      /\ ibuild' = IF end = n THEN [ibuild EXCEPT !.pc = "raw", !.done = 0]
                              ELSE [ibuild EXCEPT !.done = end]
      /\ UNCHANGED <<iparts, imeta, iparquet>>
  BY DEF WriteBatch
<1>3. end \in Nat /\ done < end /\ end <= n
  BY <1>1, ImageLoaderAssumption DEF UpTo
<1> HIDE DEF end
<1>4. whole \in IVersion /\ Len(whole) = end
  <2>1. CASE done = 0
    BY <1>3, <2>1, VersionBegins
  <2>2. CASE done > 0
    <3>1. Last(ilance) \in IVersion /\ Len(Last(ilance)) = done
      BY <1>1, <2>2 DEF Last
    <3>2. Last(ilance) \o Images(Len(Last(ilance)), end) \in IVersion
          /\ Len(Last(ilance) \o Images(Len(Last(ilance)), end)) = end
      <4>1. \A v \in IVersion : Len(v) <= end =>
               v \o Images(Len(v), end) \in IVersion /\ Len(v \o Images(Len(v), end)) = end
        BY <1>3, VersionGrows
      <4> QED BY <1>3, <3>1, <4>1
    <3>3. whole = Last(ilance) \o Images(Len(Last(ilance)), end)
      BY <2>2, <3>1
    <3> QED BY <3>2, <3>3
  <2> QED BY <1>1, <2>1, <2>2
<1> HIDE DEF whole
<1>5. /\ ilance' \in Seq(IVersion) /\ ilance' # <<>> /\ Last(ilance') = whole
      /\ Len(ilance') >= Len(ilance)
  BY <1>1, <1>2, <1>4 DEF Last
<1>6. ibuild' = [pc |-> "raw", n |-> n, done |-> 0] \/ (ibuild' = [pc |-> "lance", n |-> n, done |-> end] /\ end # n)
  BY <1>1, <1>2
<1>7. /\ ibuild' \in [pc : {"none", "lance", "raw", "open", "dump"}, n : Nat, done : Nat]
      /\ ibuild'.pc = "lance" => ibuild'.done < ibuild'.n /\ ibuild'.done = end
  BY <1>1, <1>3, <1>6
<1>8. iparts \in Seq(Seq(IImages))
  BY DEF IStored
<1> HIDE DEF n, done
<1> QED BY <1>2, <1>4, <1>5, <1>7, <1>8 DEF IStored, INotLess

(* A part is one more, or takes the place of one that was there.           *)
LEMMA WritePartStores == ASSUME IStored, WritePart PROVE IStored' /\ INotLess
<1> DEFINE n    == iparquet.n
           done == iparquet.done
           end  == UpTo(done, IPartBatch, n)
           part == done \div IPartBatch + 1
           Put(new) == [k \in DOMAIN iparts \cup {part} |-> IF k = part THEN new ELSE iparts[k]]
<1>1. /\ iparquet.pc = "parts" /\ n \in Nat /\ done \in Nat /\ done < n
      /\ iparquet \in [pc : {"none", "parts", "read", "open", "dump"}, n : Nat, done : Nat]
      /\ done \div IPartBatch <= Len(iparts)
      /\ iparts \in Seq(Seq(IImages))
  BY DEF IStored, WritePart
<1>2. PICK new : /\ new \in {Images(done, end), TornPart}
                 /\ iparts' = Put(new)
                 /\ \/ iparquet' = [iparquet EXCEPT !.pc = "read"]
                    \/ iparquet' = IBuildIdle
                    \/ iparquet' = [iparquet EXCEPT !.done = end] /\ end # n
  <2>1. \/ /\ iparts' = Put(Images(done, end))
           /\ iparquet' = IF end = n THEN [iparquet EXCEPT !.pc = "read"]
                                      ELSE [iparquet EXCEPT !.done = end]
        \/ iparts' = Put(TornPart) /\ iparquet' = IBuildIdle
    BY DEF WritePart
  <2> HIDE DEF Put, end, n, done
  <2>2. CASE /\ iparts' = Put(Images(done, end))
             /\ iparquet' = IF end = n THEN [iparquet EXCEPT !.pc = "read"]
                                        ELSE [iparquet EXCEPT !.done = end]
    <3> WITNESS Images(done, end)
    <3> QED BY <2>2
  <2>3. CASE iparts' = Put(TornPart) /\ iparquet' = IBuildIdle
    <3> WITNESS TornPart
    <3> QED BY <2>3
  <2> QED BY <2>1, <2>2, <2>3
<1>3. UNCHANGED <<ilance, imeta, ibuild>>
  BY DEF WritePart
<1>4. /\ end \in Nat /\ done < end /\ end <= n
      /\ end # n => end = done + IPartBatch
  BY <1>1, ImageLoaderAssumption DEF UpTo
<1> HIDE DEF end
<1>5. /\ done \div IPartBatch \in Nat
      /\ (done + IPartBatch) \div IPartBatch = done \div IPartBatch + 1
  BY <1>1, QuotientGrows, ImageLoaderAssumption
<1>6. new \in Seq(IImages)
  <2>1. <<>> \in Seq(IImages)
    OBVIOUS
  <2> QED BY <1>1, <1>2, <1>4, <2>1, ImagesType, SMTT(30) DEF TornPart
<1>7. part \in 1 .. Len(iparts) + 1
  BY <1>1, <1>5
<1> HIDE DEF part
<1>8. /\ iparts' \in Seq(Seq(IImages)) /\ Len(iparts') >= Len(iparts) /\ Len(iparts') >= part
  <2>1. PICK l \in Nat : l >= Len(iparts) /\ l >= part /\ DOMAIN iparts \cup {part} = 1 .. l
    <3>1. DOMAIN iparts = 1 .. Len(iparts) /\ Len(iparts) \in Nat
      BY <1>1
    <3>2. CASE part = Len(iparts) + 1
      BY <3>1, <3>2
    <3>3. CASE part \in 1 .. Len(iparts)
      BY <3>1, <3>3
    <3> QED BY <1>7, <3>1, <3>2, <3>3
  <2>2. iparts' = [k \in 1 .. l |-> IF k = part THEN new ELSE iparts[k]]
    BY <1>2, <2>1
  <2>3. \A k \in 1 .. l : k # part => iparts[k] \in Seq(IImages)
    BY <1>1, <2>1, SMTT(30)
  <2>4. iparts' \in [1 .. l -> Seq(IImages)]
    BY <1>6, <2>2, <2>3
  <2>5. iparts' \in Seq(Seq(IImages)) /\ Len(iparts') = l
    BY <2>4
  <2> QED BY <2>1, <2>5
<1>9. /\ iparquet' \in [pc : {"none", "parts", "read", "open", "dump"}, n : Nat, done : Nat]
      /\ iparquet'.pc = "parts" => iparquet'.done = end /\ end # n /\ iparquet'.n = n
  <2>1. CASE iparquet' = [iparquet EXCEPT !.pc = "read"]
    <3>1. iparquet' = [pc |-> "read", n |-> n, done |-> done]
      BY <1>1, <2>1
    <3> QED BY <1>1, <3>1
  <2>2. CASE iparquet' = IBuildIdle
    BY <2>2 DEF IBuildIdle
  <2>3. CASE iparquet' = [iparquet EXCEPT !.done = end] /\ end # n
    <3>1. iparquet' = [pc |-> "parts", n |-> n, done |-> end]
      BY <1>1, <2>3
    <3> QED BY <1>1, <1>4, <2>3, <3>1
  <2> QED BY <1>2, <2>1, <2>2, <2>3
<1>10. iparquet'.pc = "parts" =>
         iparquet'.done < iparquet'.n /\ iparquet'.done \div IPartBatch <= Len(iparts')
  <2> SUFFICES ASSUME iparquet'.pc = "parts"
               PROVE  iparquet'.done < iparquet'.n /\ iparquet'.done \div IPartBatch <= Len(iparts')
    OBVIOUS
  <2>1. end < n /\ end = done + IPartBatch
    BY <1>1, <1>4, <1>9
  <2>2. end \div IPartBatch = part
    BY <1>5, <2>1 DEF part
  <2> QED BY <1>8, <1>9, <2>1, <2>2
<1> HIDE DEF n, done, Put
<1> QED BY <1>3, <1>8, <1>9, <1>10 DEF IStored, INotLess

(* Everything that the builds and the trainings do keeps what is stored.   *)
LEMMA StoredStep == ASSUME IStored, [INext]_IVars PROVE IStored' /\ INotLess
<1> DEFINE B == [pc : {"none", "lance", "raw", "open", "dump"}, n : Nat, done : Nat]
           P == [pc : {"none", "parts", "read", "open", "dump"}, n : Nat, done : Nat]
           M == [state : {"none", "torn", "saved"}, n_images : Nat]
<1> USE DEF INotLess
<1>1. /\ ibuild \in B /\ iparquet \in P /\ imeta \in M
      /\ ISizes \subseteq Nat \ {0} /\ IPartBatch \in Nat \ {0}
      /\ Len(ilance) \in Nat /\ Len(iparts) \in Nat
  BY ImageLoaderAssumption, SMTT(30) DEF IStored
<1>2. CASE DatasetStart
  <2>1. PICK n \in ISizes : ibuild' = [pc |-> "lance", n |-> n, done |-> 0]
    BY <1>2 DEF DatasetStart
  <2>2. ibuild' \in B /\ ibuild'.done = 0 /\ ibuild'.n > 0
    BY <1>1, <2>1
  <2> QED BY <1>1, <1>2, <2>2 DEF DatasetStart, IStored
<1>3. CASE WriteBatch
  BY <1>3, WriteBatchStores
<1>4. CASE UploadRaw
  <2>1. ibuild' = ibuild \/ ibuild' = [pc |-> "open", n |-> ibuild.n, done |-> ibuild.done]
    BY <1>1, <1>4 DEF UploadRaw
  <2>2. CASE ibuild' = ibuild
    BY <1>1, <1>4, <2>2 DEF UploadRaw, IStored
  <2>3. CASE ibuild' = [pc |-> "open", n |-> ibuild.n, done |-> ibuild.done]
    <3>1. ibuild' \in B /\ ibuild'.pc # "lance"
      BY <1>1, <2>3
    <3> QED BY <1>1, <1>4, <3>1 DEF UploadRaw, IStored
  <2> QED BY <2>1, <2>2, <2>3
<1>5. CASE MetaOpen
  <2>1. /\ imeta' = [state |-> "torn", n_images |-> 0]
        /\ ibuild' = [pc |-> "dump", n |-> ibuild.n, done |-> ibuild.done]
    BY <1>1, <1>5 DEF MetaOpen, INoMeta
  <2>2. imeta' \in M /\ ibuild' \in B /\ ibuild'.pc # "lance"
    BY <1>1, <2>1
  <2> QED BY <1>1, <1>5, <2>2 DEF MetaOpen, IStored
<1>6. CASE MetaDump
  <2>1. imeta' = [state |-> "saved", n_images |-> ibuild.n] /\ ibuild' = [pc |-> "none", n |-> 0, done |-> 0]
    BY <1>6 DEF MetaDump, IBuildIdle
  <2>2. imeta' \in M /\ ibuild' \in B /\ ibuild'.pc # "lance"
    BY <1>1, <2>1
  <2> QED BY <1>1, <1>6, <2>2 DEF MetaDump, IStored
<1>7. CASE ParquetStart
  <2>1. PICK n \in ISizes : iparquet' = [pc |-> "parts", n |-> n, done |-> 0]
    BY <1>7 DEF ParquetStart
  <2>2. 0 \div IPartBatch = 0
    BY <1>1, QuotientIs
  <2>3. iparquet' \in P /\ iparquet'.done < iparquet'.n /\ iparquet'.done \div IPartBatch <= Len(iparts)
    BY <1>1, <2>1, <2>2
  <2> QED BY <1>1, <1>7, <2>3 DEF ParquetStart, IStored
<1>8. CASE WritePart
  BY <1>8, WritePartStores
<1>9. CASE ListRead
  <2>1. iparquet' = [pc |-> "open", n |-> imeta.n_images, done |-> 0]
    BY <1>9 DEF ListRead
  <2>2. iparquet' \in P /\ iparquet'.pc # "parts"
    BY <1>1, <2>1
  <2> QED BY <1>1, <1>9, <2>2 DEF ListRead, IStored
<1>10. CASE ListOpen
  <2>1. /\ imeta' = [state |-> "torn", n_images |-> 0]
        /\ iparquet' = [pc |-> "dump", n |-> iparquet.n, done |-> iparquet.done]
    BY <1>1, <1>10 DEF ListOpen, INoMeta
  <2>2. imeta' \in M /\ iparquet' \in P /\ iparquet'.pc # "parts"
    BY <1>1, <2>1
  <2> QED BY <1>1, <1>10, <2>2 DEF ListOpen, IStored
<1>11. CASE ListDump
  <2>1. imeta' = [state |-> "saved", n_images |-> iparquet.n] /\ iparquet' = [pc |-> "none", n |-> 0, done |-> 0]
    BY <1>11 DEF ListDump, IBuildIdle
  <2>2. imeta' \in M /\ iparquet' \in P /\ iparquet'.pc # "parts"
    BY <1>1, <2>1
  <2> QED BY <1>1, <1>11, <2>2 DEF ListDump, IStored
<1>12. CASE TrainStart
  BY <1>1, <1>12 DEF TrainStart, IStored
<1>13. CASE Fetch
  BY <1>1, <1>13 DEF Fetch, IStored
<1>14. CASE Consume
  BY <1>1, <1>14 DEF Consume, IStored
<1>15. CASE EpochEnd
  BY <1>1, <1>15 DEF EpochEnd, IStored
<1>16. CASE TrainOpen
  BY <1>1, <1>16 DEF TrainOpen, IStored
<1>17. CASE TrainDump
  BY <1>1, <1>17 DEF TrainDump, IStored
<1>18. CASE IKilled
  <2>1. /\ ibuild' = ibuild \/ ibuild' = [pc |-> "none", n |-> 0, done |-> 0]
        /\ iparquet' = iparquet \/ iparquet' = [pc |-> "none", n |-> 0, done |-> 0]
    BY <1>18 DEF IKilled, IBuildIdle
  <2>2. /\ ibuild' \in B /\ (ibuild' = ibuild \/ ibuild'.pc # "lance")
        /\ iparquet' \in P /\ (iparquet' = iparquet \/ iparquet'.pc # "parts")
    BY <1>1, <2>1
  <2>3. UNCHANGED <<ilance, iparts, imeta>>
    BY <1>18 DEF IKilled
  <2> HIDE DEF B, P
  <2> QED BY <1>1, <2>2, <2>3 DEF IStored, B, P
<1>19. CASE UNCHANGED IVars
  BY <1>1, <1>19 DEF IVars, IStored
<1> QED BY <1>2, <1>3, <1>4, <1>5, <1>6, <1>7, <1>8, <1>9, <1>10, <1>11, <1>12, <1>13, <1>14, <1>15,
           <1>16, <1>17, <1>18, <1>19 DEF INext

(* An epoch begins in some order, with nothing fetched.                    *)
LEMMA EpochBegins ==
    ASSUME NEW t \in ITrainings, NEW u \in Epochs(t)
    PROVE  /\ u \in ITrainings /\ u.pc = "epoch"
           /\ u.method = t.method /\ u.n = t.n /\ u.handles = t.handles /\ u.epochs = t.epochs
           /\ \E p \in Shuffled(u.n) : InOrder(u, p)
<1>1. PICK p \in Shuffled(t.n) :
         u = [t EXCEPT !.pc = "epoch", !.batches = Batches(p), !.seen = <<>>,
                       !.fetched = [k \in DOMAIN Batches(p) |-> <<>>]]
  BY DEF Epochs
<1> DEFINE b == Batches(p)
           f == [k \in DOMAIN b |-> <<>>]
<1>2. t.n \in Nat
  BY DEF ITrainings
<1>3. /\ p \in Seq(Nat) /\ Len(p) = t.n
      /\ b \in Seq(Seq(Nat))
  BY <1>2, BatchesType
<1> HIDE DEF b
<1>4. f \in Seq(Seq(IItems)) /\ DOMAIN f = DOMAIN b /\ \A k \in DOMAIN b : f[k] = <<>>
  <2>1. <<>> \in Seq(IItems)
    OBVIOUS
  <2>2. DOMAIN b = 1 .. Len(b) /\ Len(b) \in Nat
    BY <1>3
  <2> HIDE DEF IItems
  <2> QED BY <2>1, <2>2
<1> HIDE DEF f
<1>5. u = [pc |-> "epoch", method |-> t.method, n |-> t.n, batches |-> b, fetched |-> f,
           handles |-> t.handles, seen |-> <<>>, epochs |-> t.epochs]
  <2>1. u = [t EXCEPT !.pc = "epoch", !.batches = b, !.seen = <<>>, !.fetched = f]
    BY <1>1 DEF b, f
  <2> QED BY ONLY <2>1, t \in ITrainings DEF ITrainings
<1>6. u \in ITrainings
  <2>1. <<>> \in Seq(IItems)
    OBVIOUS
  <2> QED BY <1>3, <1>4, <1>5, <2>1 DEF ITrainings
<1>7. u.seen = RawS3Dataset(SubSeq(p, 1, 0)) /\ 0 = 0 * ILoadBatch
  <2>1. SubSeq(p, 1, 0) = <<>>
    BY <1>3
  <2>2. Len(RawS3Dataset(<<>>)) = 0 /\ RawS3Dataset(<<>>) \in Seq(IItems)
    <3>1. <<>> \in Seq(Nat) /\ Len(<<>>) = 0
      OBVIOUS
    <3> QED BY <3>1, RawType
  <2>3. RawS3Dataset(<<>>) = <<>>
    BY <2>2
  <2>4. 0 = 0 * ILoadBatch
    BY ImageLoaderAssumption
  <2> QED BY <1>5, <2>1, <2>3, <2>4
<1>8. InOrder(u, p)
  <2>1. 0 \in 0 .. u.n /\ 0 \in Nat
    BY <1>2, <1>5
  <2> QED BY <1>4, <1>5, <1>7, <2>1 DEF InOrder, b
<1> QED BY <1>1, <1>5, <1>6, <1>8

(* What an order of the images, batches and what was seen of it are.       *)
LEMMA OrderType ==
    ASSUME NEW t \in ITrainings, NEW p \in Shuffled(t.n), InOrder(t, p)
    PROVE  /\ p \in Seq(Nat) /\ Len(p) = t.n /\ t.n \in Nat
           /\ t.batches \in Seq(Seq(Nat)) /\ Len(t.batches) = NBatches(t.n)
           /\ DOMAIN t.fetched = DOMAIN t.batches
           /\ \E m \in 0 .. t.n : /\ t.seen = RawS3Dataset(SubSeq(p, 1, m)) /\ Len(t.seen) = m
                                  /\ m = t.n \/ \E q \in Nat : m = q * ILoadBatch
<1>1. t.n \in Nat
  BY DEF ITrainings
<1>2. /\ p \in Seq(Nat) /\ Len(p) = t.n
      /\ t.batches \in Seq(Seq(Nat)) /\ Len(t.batches) = NBatches(t.n)
  BY <1>1, BatchesType DEF InOrder
<1>3. PICK m \in 0 .. t.n : /\ t.seen = RawS3Dataset(SubSeq(p, 1, m))
                            /\ m = t.n \/ \E q \in Nat : m = q * ILoadBatch
  BY DEF InOrder
<1>4. Len(t.seen) = m
  <2>1. SubSeq(p, 1, m) \in Seq(Nat) /\ Len(SubSeq(p, 1, m)) = m
    BY <1>1, <1>2
  <2> QED BY <1>3, <2>1, RawType
<1> QED BY <1>1, <1>2, <1>3, <1>4 DEF InOrder

(* Whichever method fetches a batch, it is what the files of their own     *)
(* would have given, and the worker holds what there was.                  *)
LEMMA FetchGives ==
    ASSUME IStored, ITrained, Fetch
    PROVE  \E k \in DOMAIN itrain.batches : \E h \in Nat :
              /\ h <= (IF itrain.method = "parquet" THEN Len(iparts) ELSE Len(ilance))
              /\ itrain' = [itrain EXCEPT !.handles[Worker(k)] = h,
                                          !.fetched[k] = RawS3Dataset(itrain.batches[k])]
<1> DEFINE Opened(w, h) == IF itrain.handles[w] = INotOpen THEN h ELSE itrain.handles[w]
           Got(k, h, items) == itrain' = [itrain EXCEPT !.handles[Worker(k)] = h, !.fetched[k] = items]
           Most == IF itrain.method = "parquet" THEN Len(iparts) ELSE Len(ilance)
<1>1. /\ itrain \in ITrainings /\ itrain.pc = "epoch"
      /\ \A w \in 1 .. IWorkers : itrain.handles[w] \in Nat /\ itrain.handles[w] <= Most
      /\ itrain.batches \in Seq(Seq(Nat))
  BY DEF ITrained, Fetch, ITrainings
<1>2. /\ ilance \in Seq(IVersion) /\ iparts \in Seq(Seq(IImages))
  BY DEF IStored
<1>3. PICK k \in DOMAIN itrain.batches :
         \/ /\ itrain.method = "raw_s3" /\ ToSet(itrain.batches[k]) \subseteq iraw
            /\ Got(k, INotOpen, RawS3Dataset(itrain.batches[k]))
         \/ /\ itrain.method = "lance_take_blobs" /\ ilance # <<>>
            /\ LET v == Opened(Worker(k), Len(ilance))
               IN  /\ ToSet(itrain.batches[k]) \subseteq Ids(Len(ilance[v]))
                   /\ Got(k, v, LanceBlobDataset(itrain.batches[k], ilance[v]))
         \/ /\ itrain.method = "parquet" /\ iparts # <<>>
            /\ LET h    == Opened(Worker(k), Len(iparts))
                   rows == FlattenSeq(SubSeq(iparts, 1, h))
               IN  /\ TornPart \notin ToSet(SubSeq(iparts, 1, h))
                   /\ ToSet(itrain.batches[k]) \subseteq {rows[i].id : i \in DOMAIN rows}
                   /\ Got(k, h, ParquetS3Dataset(itrain.batches[k], rows))
  BY DEF Fetch
<1> DEFINE ix == itrain.batches[k]
<1>4. Worker(k) \in 1 .. IWorkers /\ ix \in Seq(Nat)
  <2>1. k \in Nat /\ ix \in Seq(Nat)
    BY <1>1
  <2>2. k - 1 \in Int /\ IWorkers \in Nat \ {0}
    BY <2>1, ImageLoaderAssumption
  <2> QED BY <2>1, <2>2 DEF Worker
<1>5. SUFFICES \E h \in Nat : h <= Most /\ Got(k, h, RawS3Dataset(ix))
  OBVIOUS
<1>6. CASE itrain.method = "raw_s3"
  <2>1. Got(k, INotOpen, RawS3Dataset(ix))
    BY <1>3, <1>6
  <2>2. INotOpen \in Nat /\ INotOpen <= Most
    BY <1>2, <1>6 DEF INotOpen
  <2> QED BY <2>1, <2>2
<1>7. CASE itrain.method = "lance_take_blobs"
  <2> DEFINE v == Opened(Worker(k), Len(ilance))
  <2>1. /\ ilance # <<>> /\ ToSet(ix) \subseteq Ids(Len(ilance[v]))
        /\ Got(k, v, LanceBlobDataset(ix, ilance[v]))
    BY <1>3, <1>7
  <2>2. v \in Nat /\ v <= Most /\ v \in 1 .. Len(ilance)
    BY <1>1, <1>2, <1>4, <1>7, <2>1 DEF INotOpen
  <2> HIDE DEF v, Got, Most
  <2>3. ilance[v] \in IVersion
    BY <1>2, <2>2
  <2>4. LanceBlobDataset(ix, ilance[v]) = RawS3Dataset(ix)
    BY <1>4, <2>1, <2>3, LanceGives
  <2> QED BY <2>1, <2>2, <2>4
<1>8. CASE itrain.method = "parquet"
  <2> DEFINE h    == Opened(Worker(k), Len(iparts))
             rows == FlattenSeq(SubSeq(iparts, 1, h))
  <2>1. /\ ToSet(ix) \subseteq {rows[i].id : i \in DOMAIN rows}
        /\ Got(k, h, ParquetS3Dataset(ix, rows))
    BY <1>3, <1>8
  <2>2. h \in Nat /\ h <= Most /\ h \in 0 .. Len(iparts)
    BY <1>1, <1>2, <1>4, <1>8 DEF INotOpen
  <2> HIDE DEF h, Got, Most
  <2>3. rows \in Seq(IImages)
    BY <1>2, <2>2, PartsOpened
  <2> HIDE DEF rows
  <2>4. ParquetS3Dataset(ix, rows) = RawS3Dataset(ix)
    BY <1>4, <2>1, <2>3, ParquetGives
  <2> QED BY <2>1, <2>2, <2>4
<1> QED BY <1>3, <1>6, <1>7, <1>8

(* The loop has the images of one batch more, in the order of the epoch.   *)
LEMMA ConsumeGives ==
    ASSUME ITrained, Consume, NEW p \in Shuffled(itrain.n), InOrder(itrain, p)
    PROVE  \E l \in 0 .. itrain.n :
              /\ itrain' = [itrain EXCEPT !.seen = RawS3Dataset(SubSeq(p, 1, l))]
              /\ l = itrain.n \/ \E q \in Nat : l = q * ILoadBatch
<1> DEFINE n == itrain.n
<1>1. itrain \in ITrainings
  BY DEF ITrained
<1>2. /\ p \in Seq(Nat) /\ Len(p) = n /\ n \in Nat
      /\ itrain.batches \in Seq(Seq(Nat)) /\ Len(itrain.batches) = NBatches(n)
  BY <1>1, OrderType
<1>3. PICK m \in 0 .. n : /\ itrain.seen = RawS3Dataset(SubSeq(p, 1, m)) /\ Len(itrain.seen) = m
                          /\ m = n \/ \E q \in Nat : m = q * ILoadBatch
  BY <1>1, OrderType
<1>4. Consumed = NBatches(m)
  BY <1>3 DEF Consumed, NBatches
<1>5. NBatches(m) < NBatches(n) /\ itrain.fetched[NBatches(m) + 1] # <<>>
      /\ itrain' = [itrain EXCEPT !.seen = itrain.seen \o itrain.fetched[NBatches(m) + 1]]
  BY <1>1, <1>2, <1>4 DEF Consume, ITrainings
<1>6. PICK q \in Nat : m = q * ILoadBatch
  BY <1>2, <1>3, <1>5, BatchEnds
<1>7. NBatches(m) = q /\ NBatches(n) \in Nat
  BY <1>2, <1>6, BatchEnds
<1> DEFINE l == UpTo(q * ILoadBatch, ILoadBatch, n)
<1>8. q + 1 \in 1 .. NBatches(n) /\ (q + 1) - 1 = q
  BY <1>5, <1>7
<1>9. /\ l \in m + 1 .. n /\ l \in {n, (q + 1) * ILoadBatch}
      /\ Batches(p)[q + 1] = SubSeq(p, m + 1, l)
  <2> DEFINE k == q + 1
             a == (k - 1) * ILoadBatch
             b == UpTo(a, ILoadBatch, n)
  <2>1. k \in 1 .. NBatches(n) /\ k - 1 = q
    BY <1>8
  <2>2. b \in a + 1 .. n /\ b \in {n, k * ILoadBatch}
    BY <1>2, <2>1, BatchEnds
  <2>3. Batches(p)[k] = SubSeq(p, a + 1, b)
    BY <1>2, <2>1, BatchesType
  <2>4. a = m /\ b = l
    BY <1>6, <2>1
  <2> HIDE DEF a, b, l
  <2> QED BY <2>2, <2>3, <2>4
<1> HIDE DEF l
<1>10. itrain.fetched[q + 1] = RawS3Dataset(SubSeq(p, m + 1, l))
  <2>1. q + 1 \in DOMAIN itrain.batches
    BY <1>2, <1>8
  <2>2. itrain.fetched[q + 1] \in {<<>>, RawS3Dataset(itrain.batches[q + 1])} /\ itrain.batches = Batches(p)
    BY <2>1 DEF InOrder
  <2> QED BY <1>5, <1>7, <1>9, <2>2
<1>11. itrain.seen \o itrain.fetched[q + 1] = RawS3Dataset(SubSeq(p, 1, l))
  <2>1. m \in 0 .. Len(p) /\ l \in m .. Len(p)
    BY <1>2, <1>3, <1>9
  <2> QED BY <1>2, <1>3, <1>10, <2>1, RawPrefix
<1>12. l \in 0 .. n /\ (l = n \/ \E i \in Nat : l = i * ILoadBatch)
  <2>1. q + 1 \in Nat /\ l \in 0 .. n
    BY <1>2, <1>3, <1>9
  <2> QED BY <1>9, <2>1
<1> QED BY <1>5, <1>7, <1>11, <1>12

(* A training as it ends and as it is killed.                              *)
LEMMA TrainIdle ==
    /\ ITrainIdle \in ITrainings /\ ITrainIdle.pc = "none"
    /\ \A w \in 1 .. IWorkers : ITrainIdle.handles[w] = 0
    /\ ITrainIdle.epochs = Whole(ITrainIdle.n, 0)
<1>1. <<>> \in Seq(Seq(Nat)) /\ <<>> \in Seq(Seq(IItems)) /\ <<>> \in Seq(IItems) /\ <<>> \in Seq(Nat)
  OBVIOUS
<1> DEFINE h == [w \in 1 .. IWorkers |-> INotOpen]
<1>2. h \in [1 .. IWorkers -> Nat] /\ \A w \in 1 .. IWorkers : h[w] = 0
  BY DEF INotOpen
<1> HIDE DEF h
<1>3. ITrainIdle = [pc |-> "none", method |-> "raw_s3", n |-> 0, batches |-> <<>>, fetched |-> <<>>,
                    handles |-> h, seen |-> <<>>, epochs |-> <<>>]
  BY DEF ITrainIdle, h
<1>4. Whole(0, 0) = <<>>
  BY DEF Whole
<1>5. "raw_s3" \in Methods
  BY DEF Methods
<1> QED BY <1>1, <1>2, <1>3, <1>4, <1>5 DEF ITrainings

Held(train) ==
    \A w \in 1 .. IWorkers :
        train.handles[w] <= (IF train.method = "parquet" THEN Len(iparts) ELSE Len(ilance))

(* What a training holds open stays there.                                 *)
LEMMA HeldStays ==
    ASSUME IStored, IStored', INotLess, NEW t \in ITrainings, Held(t)
    PROVE  \A w \in 1 .. IWorkers :
              t.handles[w] <= (IF t.method = "parquet" THEN Len(iparts') ELSE Len(ilance'))
<1>1. /\ Len(ilance) \in Nat /\ Len(ilance') \in Nat /\ Len(iparts) \in Nat /\ Len(iparts') \in Nat
      /\ \A w \in 1 .. IWorkers : t.handles[w] \in Nat
  <2>1. /\ ilance \in Seq(IVersion) /\ ilance' \in Seq(IVersion)
        /\ iparts \in Seq(Seq(IImages)) /\ iparts' \in Seq(Seq(IImages))
    BY DEF IStored
  <2>2. \A w \in 1 .. IWorkers : t.handles[w] \in Nat
    BY DEF ITrainings
  <2>3. /\ Len(ilance) \in Nat /\ Len(ilance') \in Nat
        /\ Len(iparts) \in Nat /\ Len(iparts') \in Nat
    BY ONLY <2>1
  <2> QED BY <2>2, <2>3
<1> QED BY <1>1 DEF Held, INotLess

(* The loop of the training, as long as it runs.                           *)
Looping(train) ==
    /\ train \in ITrainings /\ train.pc = "epoch"
    /\ \E p \in Shuffled(train.n) : InOrder(train, p)
    /\ \E e \in 0 .. IEpochs - 1 : train.epochs = Whole(train.n, e)

(* A training that loops and holds what is there is one of the invariant.  *)
LEMMA LoopingKeeps ==
    ASSUME ITrained, NEW t, Looping(t),
           \A w \in 1 .. IWorkers :
              t.handles[w] <= (IF t.method = "parquet" THEN Len(iparts') ELSE Len(ilance')),
           itrain' = t, iresult' = iresult
    PROVE  ITrained'
BY DEF ITrained, Looping

(* A training starts with an epoch.                                        *)
LEMMA TrainStarts == ASSUME IStored, IStored', INotLess, ITrained, TrainStart PROVE ITrained'
<1>1. PICK m \in Methods : itrain' \in Epochs([ITrainIdle EXCEPT !.method = m, !.n = imeta.n_images])
  BY DEF TrainStart
<1> DEFINE t == [ITrainIdle EXCEPT !.method = m, !.n = imeta.n_images]
<1>2. imeta.n_images \in Nat
  BY DEF IStored
<1>3. t \in ITrainings /\ t.handles = ITrainIdle.handles /\ t.epochs = <<>>
  BY <1>2, TrainIdle DEF ITrainings, ITrainIdle
<1> HIDE DEF t
<1>4. /\ itrain' \in ITrainings /\ itrain'.pc = "epoch"
      /\ itrain'.handles = t.handles /\ itrain'.epochs = t.epochs
      /\ \E p \in Shuffled(itrain'.n) : InOrder(itrain', p)
  BY <1>1, <1>3, EpochBegins DEF t
<1>5. itrain'.epochs = Whole(itrain'.n, 0) /\ 0 \in 0 .. IEpochs - 1
  BY <1>3, <1>4, ImageLoaderAssumption DEF Whole
<1>6. Looping(itrain')
  BY <1>4, <1>5 DEF Looping
<1>7. \A w \in 1 .. IWorkers : itrain'.handles[w] = 0
  BY <1>3, <1>4, TrainIdle
<1>8. Len(ilance') \in Nat /\ Len(iparts') \in Nat
  BY SMTT(30) DEF IStored
<1>9. iresult' = iresult
  BY DEF TrainStart
<1> QED BY <1>6, <1>7, <1>8, <1>9, LoopingKeeps

(* A worker fetches a batch.                                               *)
LEMMA FetchKeeps == ASSUME IStored, ITrained, Fetch PROVE ITrained'
<1>1. PICK k \in DOMAIN itrain.batches, h \in Nat :
              /\ h <= (IF itrain.method = "parquet" THEN Len(iparts) ELSE Len(ilance))
              /\ itrain' = [itrain EXCEPT !.handles[Worker(k)] = h,
                                          !.fetched[k] = RawS3Dataset(itrain.batches[k])]
  BY FetchGives
<1>2. itrain \in ITrainings /\ itrain.pc = "epoch" /\ UNCHANGED <<ilance, iparts, iresult>>
  BY DEF ITrained, Fetch
<1>3. PICK p \in Shuffled(itrain.n) : InOrder(itrain, p)
  BY <1>2 DEF ITrained
<1>4. itrain.batches \in Seq(Seq(Nat)) /\ DOMAIN itrain.fetched = DOMAIN itrain.batches
  BY <1>2, <1>3 DEF ITrainings, InOrder
<1> DEFINE items == RawS3Dataset(itrain.batches[k])
           f == [itrain.fetched EXCEPT ![k] = items]
           g == [itrain.handles EXCEPT ![Worker(k)] = h]
<1>5. items \in Seq(IItems)
  <2>1. itrain.batches[k] \in Seq(Nat)
    BY <1>4
  <2> QED BY <2>1, RawType
<1>6. f \in Seq(Seq(IItems)) /\ DOMAIN f = DOMAIN itrain.batches
      /\ \A j \in DOMAIN itrain.batches : f[j] = IF j = k THEN items ELSE itrain.fetched[j]
  <2>1. itrain.fetched \in Seq(Seq(IItems)) /\ k \in DOMAIN itrain.fetched
    BY <1>2, <1>4 DEF ITrainings
  <2> HIDE DEF items
  <2> QED BY <1>4, <1>5, <2>1, SMTT(30)
<1>7. g \in [1 .. IWorkers -> Nat] /\ \A w \in 1 .. IWorkers : g[w] \in {h, itrain.handles[w]}
  BY <1>2 DEF ITrainings
<1>8. itrain' = [pc |-> itrain.pc, method |-> itrain.method, n |-> itrain.n, batches |-> itrain.batches,
                 fetched |-> f, handles |-> g, seen |-> itrain.seen, epochs |-> itrain.epochs]
  <2>1. itrain' = [itrain EXCEPT !.handles = g, !.fetched = f]
    BY <1>1, <1>2 DEF ITrainings
  <2> HIDE DEF f, g
  <2> QED BY ONLY <2>1, <1>2 DEF ITrainings
<1> HIDE DEF f, g
<1>9. itrain' \in ITrainings
  BY <1>2, <1>6, <1>7, <1>8 DEF ITrainings
<1>10. InOrder(itrain', p)
  <2>1. \A j \in DOMAIN itrain.batches : f[j] \in {<<>>, RawS3Dataset(itrain.batches[j])}
    BY <1>3, <1>6 DEF InOrder
  <2> QED BY <1>3, <1>6, <1>8, <2>1 DEF InOrder
<1>11. Looping(itrain')
  BY <1>2, <1>8, <1>9, <1>10 DEF Looping, ITrained
<1>12. \A w \in 1 .. IWorkers :
          itrain'.handles[w] <= (IF itrain'.method = "parquet" THEN Len(iparts') ELSE Len(ilance'))
  BY <1>1, <1>2, <1>7, <1>8 DEF ITrained
<1> QED BY <1>2, <1>11, <1>12, LoopingKeeps

(* The loop takes a batch.                                                 *)
LEMMA ConsumeKeeps == ASSUME IStored, ITrained, Consume PROVE ITrained'
<1>1. itrain \in ITrainings /\ itrain.pc = "epoch" /\ UNCHANGED <<ilance, iparts, iresult>>
  BY DEF ITrained, Consume
<1>2. PICK p \in Shuffled(itrain.n) : InOrder(itrain, p)
  BY <1>1 DEF ITrained
<1>3. PICK l \in 0 .. itrain.n :
         /\ itrain' = [itrain EXCEPT !.seen = RawS3Dataset(SubSeq(p, 1, l))]
         /\ l = itrain.n \/ \E q \in Nat : l = q * ILoadBatch
  BY <1>2, ConsumeGives
<1> DEFINE s == RawS3Dataset(SubSeq(p, 1, l))
<1>4. s \in Seq(IItems)
  <2>1. p \in Seq(Nat) /\ Len(p) = itrain.n /\ itrain.n \in Nat
    BY <1>1, <1>2, OrderType
  <2>2. SubSeq(p, 1, l) \in Seq(Nat)
    BY <2>1
  <2> QED BY <2>2, RawType
<1>5. itrain' = [pc |-> itrain.pc, method |-> itrain.method, n |-> itrain.n, batches |-> itrain.batches,
                 fetched |-> itrain.fetched, handles |-> itrain.handles, seen |-> s, epochs |-> itrain.epochs]
  <2> HIDE DEF s
  <2>1. itrain' = [itrain EXCEPT !.seen = s]
    BY <1>3 DEF s
  <2> QED BY ONLY <2>1, <1>1 DEF ITrainings
<1>6. itrain'.seen = RawS3Dataset(SubSeq(p, 1, l))
  BY <1>5
<1> HIDE DEF s
<1>7. itrain' \in ITrainings
  BY <1>1, <1>4, <1>5 DEF ITrainings
<1>8. InOrder(itrain', p)
  BY <1>2, <1>3, <1>5, <1>6 DEF InOrder
<1>9. Looping(itrain')
  BY <1>1, <1>5, <1>7, <1>8 DEF Looping, ITrained
<1>10. \A w \in 1 .. IWorkers :
          itrain'.handles[w] <= (IF itrain'.method = "parquet" THEN Len(iparts') ELSE Len(ilance'))
  BY <1>1, <1>5 DEF ITrained
<1> QED BY <1>1, <1>9, <1>10, LoopingKeeps

(* An epoch ends, and the next begins or the output is written.            *)
LEMMA EpochEndKeeps == ASSUME IStored, ITrained, EpochEnd PROVE ITrained'
<1>1. /\ itrain \in ITrainings /\ itrain.pc = "epoch" /\ UNCHANGED <<ilance, iparts, iresult>>
      /\ Len(itrain.seen) = itrain.n
  BY DEF ITrained, EpochEnd
<1>2. PICK p \in Shuffled(itrain.n) : InOrder(itrain, p)
  BY <1>1 DEF ITrained
<1>3. PICK e \in 0 .. IEpochs - 1 : itrain.epochs = Whole(itrain.n, e)
  BY <1>1 DEF ITrained
<1>4. itrain.n \in Nat /\ e \in Nat /\ e + 1 <= IEpochs /\ IEpochs \in Nat
  BY <1>1, ImageLoaderAssumption, SMTT(30) DEF ITrainings
<1> DEFINE es    == Append(itrain.epochs, Len(itrain.seen))
           ended == [itrain EXCEPT !.epochs = Append(@, Len(itrain.seen))]
<1>5. es = Whole(itrain.n, e + 1) /\ es \in Seq(Nat) /\ Len(es) = e + 1
  BY <1>1, <1>3, <1>4 DEF Whole
<1>6. ended = [pc |-> itrain.pc, method |-> itrain.method, n |-> itrain.n, batches |-> itrain.batches,
               fetched |-> itrain.fetched, handles |-> itrain.handles, seen |-> itrain.seen, epochs |-> es]
  <2>1. ended = [itrain EXCEPT !.epochs = es]
    BY <1>1 DEF ITrainings
  <2> HIDE DEF es, ended
  <2> QED BY ONLY <2>1, <1>1 DEF ITrainings
<1>7. itrain' \in IF Len(ended.epochs) < IEpochs THEN Epochs(ended) ELSE {[ended EXCEPT !.pc = "open"]}
  BY DEF EpochEnd
<1> HIDE DEF es, ended
<1>8. ended \in ITrainings
  BY <1>1, <1>5, <1>6 DEF ITrainings
<1>9. Len(ended.epochs) = e + 1
  BY <1>5, <1>6
<1>10. CASE e + 1 < IEpochs
  <2>1. itrain' \in Epochs(ended)
    BY <1>7, <1>9, <1>10
  <2>2. /\ itrain' \in ITrainings /\ itrain'.pc = "epoch" /\ itrain'.method = ended.method
        /\ itrain'.n = ended.n /\ itrain'.handles = ended.handles /\ itrain'.epochs = ended.epochs
        /\ \E s \in Shuffled(itrain'.n) : InOrder(itrain', s)
    BY <1>8, <2>1, EpochBegins
  <2>3. itrain'.epochs = Whole(itrain'.n, e + 1) /\ e + 1 \in 0 .. IEpochs - 1
    BY <1>4, <1>5, <1>6, <1>10, <2>2
  <2>4. Looping(itrain')
    BY <2>2, <2>3 DEF Looping
  <2>5. \A w \in 1 .. IWorkers :
          itrain'.handles[w] <= (IF itrain'.method = "parquet" THEN Len(iparts') ELSE Len(ilance'))
    BY <1>1, <1>6, <2>2 DEF ITrained
  <2> QED BY <1>1, <2>4, <2>5, LoopingKeeps
<1>11. CASE e + 1 = IEpochs
  <2>1. itrain' = [ended EXCEPT !.pc = "open"]
    BY <1>4, <1>7, <1>9, <1>11
  <2>2. itrain' = [pc |-> "open", method |-> itrain.method, n |-> itrain.n, batches |-> itrain.batches,
               fetched |-> itrain.fetched, handles |-> itrain.handles, seen |-> itrain.seen, epochs |-> es]
    BY ONLY <2>1, <1>6
  <2>3. itrain' \in ITrainings
    BY <1>1, <1>5, <2>2 DEF ITrainings
  <2>4. InOrder(itrain', p)
    BY <1>2, <2>2 DEF InOrder
  <2> QED BY <1>1, <1>2, <1>5, <1>11, <2>2, <2>3, <2>4 DEF ITrained
<1> QED BY <1>4, <1>10, <1>11

(* The output is opened.                                                   *)
LEMMA TrainOpenKeeps == ASSUME IStored, ITrained, TrainOpen PROVE ITrained'
<1>1. /\ itrain \in ITrainings /\ itrain.pc = "open" /\ UNCHANGED <<ilance, iparts>>
      /\ iresult' = [INoResult EXCEPT !.state = "torn"] /\ itrain' = [itrain EXCEPT !.pc = "dump"]
  BY DEF ITrained, TrainOpen
<1>2. itrain' = [pc |-> "dump", method |-> itrain.method, n |-> itrain.n, batches |-> itrain.batches,
                 fetched |-> itrain.fetched, handles |-> itrain.handles, seen |-> itrain.seen,
                 epochs |-> itrain.epochs]
  BY ONLY <1>1 DEF ITrainings
<1>3. itrain' \in ITrainings
  BY <1>1, <1>2 DEF ITrainings
<1>4. PICK p \in Shuffled(itrain.n) : InOrder(itrain, p)
  BY <1>1 DEF ITrained
<1>5. InOrder(itrain', p)
  BY <1>2, <1>4 DEF InOrder
<1>6. iresult'.state = "torn"
  BY <1>1 DEF INoResult
<1> QED BY <1>1, <1>2, <1>3, <1>4, <1>5, <1>6 DEF ITrained

(* What is saved is that every epoch was whole.                            *)
LEMMA TrainDumpKeeps == ASSUME IStored, ITrained, TrainDump PROVE ITrained'
<1>1. /\ itrain.pc = "dump" /\ UNCHANGED <<ilance, iparts>>
      /\ iresult' = [state |-> "saved", n |-> itrain.n, epochs |-> itrain.epochs]
      /\ itrain' = ITrainIdle
  BY DEF TrainDump
<1>2. iresult'.state = "saved" /\ iresult'.epochs = Whole(iresult'.n, IEpochs)
  BY <1>1 DEF ITrained
<1>3. Len(ilance) \in Nat /\ Len(iparts) \in Nat
  BY DEF IStored
<1> QED BY <1>1, <1>2, <1>3, TrainIdle DEF ITrained

(* Whatever else is done, and a training that is killed.                   *)
LEMMA OthersKeep ==
    ASSUME IStored, IStored', INotLess, ITrained, iresult' = iresult,
           itrain' = itrain \/ itrain' = ITrainIdle
    PROVE  ITrained'
<1>1. CASE itrain' = itrain
  <2>1. \A w \in 1 .. IWorkers :
          itrain.handles[w] <= (IF itrain.method = "parquet" THEN Len(iparts') ELSE Len(ilance'))
    BY HeldStays DEF ITrained, Held
  <2> QED BY <1>1, <2>1 DEF ITrained
<1>2. CASE itrain' = ITrainIdle
  <2>1. Len(ilance') \in Nat /\ Len(iparts') \in Nat
    BY SMTT(30) DEF IStored
  <2> QED BY <1>2, <2>1, TrainIdle DEF ITrained
<1> QED BY <1>1, <1>2

(* Every step keeps what is known of the training.                         *)
LEMMA TrainedStep == ASSUME IStored, ITrained, [INext]_IVars PROVE ITrained'
<1>1. IStored' /\ INotLess
  BY StoredStep
<1>2. CASE TrainStart
  BY <1>1, <1>2, TrainStarts
<1>3. CASE Fetch
  BY <1>3, FetchKeeps
<1>4. CASE Consume
  BY <1>4, ConsumeKeeps
<1>5. CASE EpochEnd
  BY <1>5, EpochEndKeeps
<1>6. CASE TrainOpen
  BY <1>6, TrainOpenKeeps
<1>7. CASE TrainDump
  BY <1>7, TrainDumpKeeps
<1>8. CASE \/ DatasetStart \/ WriteBatch \/ UploadRaw \/ MetaOpen \/ MetaDump
           \/ ParquetStart \/ WritePart \/ ListRead \/ ListOpen \/ ListDump \/ UNCHANGED IVars
  <2>1. itrain' = itrain /\ iresult' = iresult
    BY <1>8 DEF DatasetStart, WriteBatch, UploadRaw, MetaOpen, MetaDump, ParquetStart, WritePart,
                ListRead, ListOpen, ListDump, IVars
  <2> QED BY <1>1, <2>1, OthersKeep
<1>9. CASE IKilled
  <2>1. (itrain' = itrain \/ itrain' = ITrainIdle) /\ iresult' = iresult
    BY <1>9 DEF IKilled
  <2> QED BY <1>1, <2>1, OthersKeep
<1> QED BY <1>2, <1>3, <1>4, <1>5, <1>6, <1>7, <1>8, <1>9 DEF INext

(* Nothing is stored and nothing runs.                                     *)
LEMMA ImagesStart == ASSUME IInit PROVE IInvariant
<1>1. /\ ilance = <<>> /\ iparts = <<>> /\ itrain = ITrainIdle
      /\ ibuild = [pc |-> "none", n |-> 0, done |-> 0] /\ iparquet = [pc |-> "none", n |-> 0, done |-> 0]
      /\ imeta = [state |-> "none", n_images |-> 0] /\ iresult.state = "none"
  BY DEF IInit, IBuildIdle, INoMeta, INoResult
<1>2. /\ <<>> \in Seq(IVersion) /\ <<>> \in Seq(Seq(IImages)) /\ Len(<<>>) = 0
  OBVIOUS
<1>3. IStored
  BY <1>1, <1>2 DEF IStored
<1>4. \A w \in 1 .. IWorkers :
          itrain.handles[w] <= (IF itrain.method = "parquet" THEN Len(iparts) ELSE Len(ilance))
  BY <1>1, <1>2, TrainIdle
<1>5. ITrained
  BY <1>1, <1>4, TrainIdle DEF ITrained
<1> QED BY <1>3, <1>5 DEF IInvariant

(* The invariant of the training bench: what is stored has each image at   *)
(* its place, and every epoch is in some order of the images, of which     *)
(* each batch is fetched as the files of their own would have given it.    *)
THEOREM ImageInvariant == ISpec => []IInvariant
<1>1. IInvariant /\ [INext]_IVars => IInvariant'
  BY StoredStep, TrainedStep DEF IInvariant
<1> QED BY <1>1, ImagesStart, PTL DEF ISpec

(* In an order of the images each comes once.                              *)
LEMMA EpochComplete ==
    ASSUME NEW n \in Nat, NEW p \in Shuffled(n)
    PROVE  /\ \A j, k \in 1 .. n : p[j] = p[k] => j = k
           /\ {p[j] : j \in 1 .. n} = Ids(n)
<1> DEFINE S == {p[j] : j \in 1 .. n}
<1>1. p \in [1 .. n -> Ids(n)] /\ \A j, k \in 1 .. n : p[j] = p[k] => j = k
  BY DEF Shuffled
<1>2. IsFiniteSet(1 .. n) /\ Cardinality(1 .. n) = n /\ IsFiniteSet(Ids(n)) /\ Cardinality(Ids(n)) = n
  <2>1. Cardinality(1 .. n) = n /\ IsFiniteSet(1 .. n)
    BY FS_Interval
  <2>2. 0 \in Int /\ n - 1 \in Int
    OBVIOUS
  <2>3. IsFiniteSet(0 .. n - 1) /\ Cardinality(0 .. n - 1) = IF 0 > n - 1 THEN 0 ELSE (n - 1) - 0 + 1
    BY <2>2, FS_Interval
  <2> QED BY <2>1, <2>3 DEF Ids
<1>3. p \in Surjection(1 .. n, S) /\ p \in Injection(1 .. n, S)
  BY <1>1 DEF Surjection, Injection, IsInjective
<1>4. Cardinality(S) = n
  BY <1>2, <1>3, FS_Surjection
<1>5. S \in SUBSET Ids(n)
  BY <1>1
<1>6. Ids(n) = S
  BY <1>2, <1>4, <1>5, FS_Subset
<1> QED BY <1>1, <1>6

(* What the training is told of an image is that image's, no image comes   *)
(* twice in an epoch, and an epoch that ends had them all: for every size  *)
(* of the batches, number of workers, and images built again meanwhile.    *)
THEOREM EpochsAreComplete == ISpec => []EpochSeesEachImageOnce
<1>1. ASSUME IInvariant PROVE EpochSeesEachImageOnce
  <2>1. /\ itrain \in ITrainings
        /\ iresult.state = "saved" => iresult.epochs = [e \in 1 .. IEpochs |-> iresult.n]
    BY <1>1 DEF IInvariant, ITrained, Whole
  <2> DEFINE n    == itrain.n
             seen == itrain.seen
             Told(s) == /\ \A j \in DOMAIN s : /\ s[j].image = s[j].want /\ s[j].label = s[j].want % ILabels
                                               /\ \A k \in 1 .. j - 1 : s[k].image # s[j].image
                        /\ Len(s) = n => {s[j].image : j \in DOMAIN s} = Ids(n)
  <2>2. CASE itrain.pc = "none"
    <3>1. seen = <<>> /\ n = 0
      BY <1>1, <2>2 DEF IInvariant, ITrained, ITrainIdle
    <3>2. DOMAIN seen = {} /\ Ids(n) = {}
      BY <3>1 DEF Ids
    <3> HIDE DEF seen, n
    <3>3. Told(seen)
      BY <3>2
    <3> QED BY <2>1, <3>3 DEF EpochSeesEachImageOnce, seen, n
  <2>3. CASE itrain.pc # "none"
    <3>1. PICK p \in Shuffled(n) : InOrder(itrain, p)
      BY <1>1, <2>3 DEF IInvariant, ITrained
    <3>2. p \in Seq(Nat) /\ Len(p) = n /\ n \in Nat
      BY <2>1, <3>1, OrderType
    <3>3. PICK m \in 0 .. n : seen = RawS3Dataset(SubSeq(p, 1, m)) /\ Len(seen) = m
      BY <2>1, <3>1, OrderType
    <3> DEFINE u == SubSeq(p, 1, m)
    <3>4. u \in Seq(Nat) /\ Len(u) = m /\ \A j \in 1 .. m : u[j] = p[j]
      BY <3>2
    <3> HIDE DEF u
    <3>5. \A j \in 1 .. m :
             RawS3Dataset(u)[j] = [want |-> u[j], image |-> u[j], label |-> u[j] % ILabels]
      BY <3>4, RawType
    <3> HIDE DEF seen, n
    <3>6. \A j \in 1 .. m : /\ seen[j].want = p[j] /\ seen[j].image = p[j]
                            /\ seen[j].label = p[j] % ILabels
      <4>1. seen = RawS3Dataset(u)
        BY <3>3 DEF u
      <4>2. \A j \in 1 .. m : seen[j] = [want |-> p[j], image |-> p[j], label |-> p[j] % ILabels]
        <5> TAKE j \in 1 .. m
        <5>1. u[j] = p[j] /\ seen[j] = [want |-> u[j], image |-> u[j], label |-> u[j] % ILabels]
          BY <3>4, <3>5, <4>1
        <5> QED BY ONLY <5>1
      <4> TAKE j \in 1 .. m
      <4>3. seen[j] = [want |-> p[j], image |-> p[j], label |-> p[j] % ILabels]
        BY <4>2
      <4> QED BY ONLY <4>3
    <3>7. DOMAIN seen = 1 .. m
      <4>1. seen \in Seq(IItems)
        BY <2>1 DEF ITrainings, seen
      <4> QED BY <3>3, <4>1
    <3>8. \A j, k \in 1 .. n : p[j] = p[k] => j = k
      BY <3>1, <3>2, EpochComplete
    <3>9. {p[j] : j \in 1 .. n} = Ids(n)
      BY <3>1, <3>2, EpochComplete
    <3>10. ASSUME NEW j \in DOMAIN seen, NEW k \in 1 .. j - 1 PROVE seen[k].image # seen[j].image
      <4>1. j \in 1 .. m /\ k \in 1 .. m /\ j \in 1 .. n /\ k \in 1 .. n /\ j # k
        BY <3>2, <3>7
      <4> QED BY <3>6, <3>8, <4>1
    <3>11. ASSUME Len(seen) = n PROVE {seen[j].image : j \in DOMAIN seen} = Ids(n)
      <4>1. m = n
        BY <3>3, <3>11
      <4> QED BY <3>6, <3>7, <3>9, <4>1
    <3>12. Told(seen)
      BY <3>6, <3>7, <3>10, <3>11
    <3> QED BY <2>1, <3>12 DEF EpochSeesEachImageOnce, seen, n
  <2> QED BY <2>2, <2>3
<1> QED BY <1>1, ImageInvariant, PTL

(* The files of their own, the output and the starts: what the invariant   *)
(* does not need to know of.                                               *)
IOthers ==
    /\ iraw \subseteq Nat
    /\ iresult \in [state : {"none", "torn", "saved"}, n : Nat, epochs : Seq(Nat)]
    /\ istarts \in [{"builds", "parquets", "trainings"} -> Nat]

LEMMA IOthersStep == ASSUME IStored, ITrained, IOthers, [INext]_IVars PROVE IOthers'
<1>1. iraw \subseteq Nat /\ istarts \in [{"builds", "parquets", "trainings"} -> Nat]
      /\ iresult \in [state : {"none", "torn", "saved"}, n : Nat, epochs : Seq(Nat)]
  BY DEF IOthers
<1>2. ibuild.n \in Nat /\ itrain.n \in Nat /\ itrain.epochs \in Seq(Nat)
  BY DEF IStored, ITrained, ITrainings
<1>3. ASSUME NEW script \in {"builds", "parquets", "trainings"}, IStart(script)
      PROVE  istarts' \in [{"builds", "parquets", "trainings"} -> Nat]
  BY <1>1, <1>3 DEF IStart
<1>4. CASE DatasetStart \/ ParquetStart \/ TrainStart
  BY <1>1, <1>3, <1>4 DEF DatasetStart, ParquetStart, TrainStart, IOthers
<1>5. CASE UploadRaw
  <2>1. iraw' = iraw \/ \E i \in Ids(ibuild.n) : iraw' = iraw \cup {i}
    BY <1>5 DEF UploadRaw
  <2>2. iraw' \subseteq Nat
    <3>1. Ids(ibuild.n) \subseteq Nat
      BY <1>2 DEF Ids
    <3> QED BY ONLY <1>1, <2>1, <3>1
  <2>3. UNCHANGED <<iresult, istarts>>
    BY <1>5 DEF UploadRaw
  <2> QED BY <1>1, <2>2, <2>3 DEF IOthers
<1>6. CASE TrainOpen
  <2>1. [INoResult EXCEPT !.state = "torn"] = [state |-> "torn", n |-> 0, epochs |-> <<>>]
    BY DEF INoResult
  <2>2. <<>> \in Seq(Nat)
    OBVIOUS
  <2>3. iresult' = [state |-> "torn", n |-> 0, epochs |-> <<>>] /\ UNCHANGED <<iraw, istarts>>
    BY <1>6, <2>1 DEF TrainOpen
  <2> QED BY <1>1, <2>2, <2>3 DEF IOthers
<1>7. CASE TrainDump
  <2>1. iresult' = [state |-> "saved", n |-> itrain.n, epochs |-> itrain.epochs] /\ UNCHANGED <<iraw, istarts>>
    BY <1>7 DEF TrainDump
  <2> QED BY <1>1, <1>2, <2>1 DEF IOthers
<1>8. CASE UNCHANGED <<iraw, iresult, istarts>>
  BY <1>1, <1>8 DEF IOthers
<1> QED BY <1>4, <1>5, <1>6, <1>7, <1>8
        DEF INext, IVars, WriteBatch, MetaOpen, MetaDump, WritePart, ListRead, ListOpen, ListDump,
            Fetch, Consume, EpochEnd, IKilled

(* Every variable of the training bench keeps its type; workers hold what  *)
(* was there to be opened.                                                 *)
THEOREM ITypes == ISpec => []ITypeOK
<1>1. IInit => IOthers
  <2> SUFFICES ASSUME IInit PROVE IOthers
    OBVIOUS
  <2>1. /\ iraw = {} /\ istarts = [builds |-> 0, parquets |-> 0, trainings |-> 0]
        /\ iresult = [state |-> "none", n |-> 0, epochs |-> <<>>]
    BY DEF IInit, INoResult
  <2>2. <<>> \in Seq(Nat)
    OBVIOUS
  <2> QED BY <2>1, <2>2 DEF IOthers
<1>2. IInvariant /\ IOthers /\ [INext]_IVars => IOthers'
  BY IOthersStep DEF IInvariant
<1>3. ASSUME IInvariant, IOthers PROVE ITypeOK
  <2>1. /\ ilance \in Seq(Seq(StoredImage)) /\ iparts \in Seq(Seq(StoredImage))
        /\ Len(ilance) \in Nat /\ Len(iparts) \in Nat
    <3>1. IImages \subseteq StoredImage
      <4> SUFFICES ASSUME NEW i \in Nat PROVE Image(i) \in StoredImage
        BY DEF IImages
      <4> QED BY ImageLoaderAssumption DEF Image, StoredImage
    <3>2. IVersion \subseteq Seq(IImages)
      BY DEF IVersion
    <3>3. Seq(IImages) \subseteq Seq(StoredImage)
      BY <3>1
    <3> DEFINE T == Seq(StoredImage)
               P == Seq(IImages)
    <3>4. ilance \in Seq(IVersion) /\ iparts \in Seq(P) /\ IVersion \subseteq T /\ P \subseteq T
      BY <1>3, <3>2, <3>3 DEF IInvariant, IStored
    <3> HIDE DEF T, P
    <3>5. ilance \in Seq(T) /\ iparts \in Seq(T) /\ Len(ilance) \in Nat /\ Len(iparts) \in Nat
      BY <3>4
    <3> QED BY <3>5 DEF T
  <2>2. /\ ibuild \in [pc : {"none", "lance", "raw", "open", "dump"}, n : Nat, done : Nat]
        /\ iparquet \in [pc : {"none", "parts", "read", "open", "dump"}, n : Nat, done : Nat]
        /\ imeta \in [state : {"none", "torn", "saved"}, n_images : Nat]
    BY <1>3 DEF IInvariant, IStored
  <2>3. /\ itrain \in ITrainings /\ \A w \in 1 .. IWorkers : itrain.handles[w] \in Nat
        /\ \A w \in 1 .. IWorkers :
              itrain.handles[w] <= (IF itrain.method = "parquet" THEN Len(iparts) ELSE Len(ilance))
    BY <1>3 DEF IInvariant, ITrained, ITrainings
  <2>4. \A w \in 1 .. IWorkers :
           itrain.handles[w] \in INotOpen .. (IF itrain.method = "parquet" THEN Len(iparts) ELSE Len(ilance))
    BY <2>1, <2>3 DEF INotOpen
  <2>5. itrain \in ITrainings
    BY <2>3
  <2> HIDE DEF IInvariant
  <2> QED BY <1>3, <2>1, <2>2, <2>4, <2>5 DEF ITypeOK, IOthers
<1> QED BY <1>1, <1>2, <1>3, ImageInvariant, PTL DEF ISpec

-----------------------------------------------------------------------------
(* The benches together.                                                   *)

(* Whichever bench is run, each behaves as its specification allows: what  *)
(* is proved of them holds of what is model-checked.                       *)
THEOREM BenchesAreBenches ==
    BenchSpec => Spec /\ L2Spec /\ OSpec /\ CalibrationSpec /\ RSpec /\ ISpec
<1>1. BenchInit => Init /\ L2Init /\ OInit /\ CalibrationInit /\ RInit /\ IInit
  BY DEF BenchInit
<1>2. [BenchNext]_BenchVars => /\ [Next]_vars /\ [L2Next]_L2Vars /\ [ONext]_OVars
                               /\ [CalibrationNext]_CalibrationVars /\ [RNext]_RVars /\ [INext]_IVars
  <2> SUFFICES ASSUME [BenchNext]_BenchVars
               PROVE  /\ [Next]_vars /\ [L2Next]_L2Vars /\ [ONext]_OVars
                      /\ [CalibrationNext]_CalibrationVars /\ [RNext]_RVars /\ [INext]_IVars
    OBVIOUS
  <2>1. CASE BenchNext
    BY <2>1 DEF BenchNext
  <2>2. CASE UNCHANGED BenchVars
    BY <2>2 DEF BenchVars
  <2> QED BY <2>1, <2>2
<1> QED BY <1>1, <1>2, PTL DEF BenchSpec, Spec, L2Spec, OSpec, CalibrationSpec, RSpec, ISpec

(* Every variable of the audit of N, of the format bench, of the composite *)
(* keys, of the calibration, of the read benchmark and of the training     *)
(* bench keeps its type.                                                   *)
THEOREM BenchTypes == BenchSpec => []BenchTypeOK
<1>1. TypeOK /\ L2TypeOK /\ OTypeOK /\ CalibrationTypeOK /\ RTypeOK /\ ITypeOK => BenchTypeOK
  BY DEF BenchTypeOK
<1> QED BY <1>1, BenchesAreBenches, AuditTypeCorrect, L2Types, OTypes, CalibrationTypes, RTypes, ITypes, PTL
=============================================================================
