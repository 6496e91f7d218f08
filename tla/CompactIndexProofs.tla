------------------------- MODULE CompactIndexProofs -------------------------
(* Proofs about CompactIndex, for every list of combinations, every set of *)
(* queries and any number of starts.                                       *)
EXTENDS CompactIndex, SequenceTheorems, TLAPS

Judging == {"pre", "compact", "post", "judge"}

(* The files and the results hold combinations in their order.             *)
RowsOfCombos(s) ==
    /\ Len(s) <= Len(Combos)
    /\ \A k \in 1 .. Len(s) : s[k].spec = Combos[k].spec /\ s[k].path = Combos[k].path

FilesOK ==
    /\ RowsOfCombos(results) /\ RowsOfCombos(tmp.combos) /\ RowsOfCombos(out.combos)
    /\ total => Len(results) = Len(Combos)
    /\ out.total => Len(out.combos) = Len(Combos)
    /\ step \in Working => ~total
    /\ step \in Saving => results # <<>>
    /\ step = "replace" => tmp = [timestamp |-> runs, combos |-> results, total |-> total]

(* While a combination is worked on, the file has all those before it that *)
(* this start has finished.                                                *)
CheckpointOK ==
    /\ step \in Working /\ results # <<>> => out.timestamp = runs /\ out.combos = results
    /\ CrashLosesOne

(* What is known of index and dataset by the time they are judged.         *)
EvidenceOK ==
    /\ step \notin Judging \cup {"open"} => ~removed /\ ~fri
    /\ step \in {"pre", "compact"} => ~removed /\ ~fri /\ idx = built
    /\ step \in {"post", "judge"} => removed \/ (~fri /\ idx = built)
    /\ step \in Judging => built.uuid = 1
    /\ step \in Judging \cup {"build"} => \A q \in Queries : gt[q] \in {Truth, Unknown}

AuditOK == PassMeansSurvived /\ NoFalseAlarm

AuditInv == TypeOK /\ FilesOK /\ CheckpointOK /\ EvidenceOK /\ AuditOK

-----------------------------------------------------------------------------
(* Sequences.                                                              *)

(* The combinations have the fields the phases read, and there is one.     *)
LEMMA CombosType ==
    /\ Combos \in Seq([spec : {Combos[i].spec : i \in DOMAIN Combos}, path : {"default", "defer"}])
    /\ Len(Combos) \in Nat \ {0} /\ DOMAIN Combos = 1 .. Len(Combos)
BY CompactIndexAssumption, EmptySeq, LenProperties

(* The combination under way gives a row of the summary. *)
LEMMA RowType ==
    ASSUME TypeOK, step \in Working, NEW v \in {"pass", "fail", "error"}
    PROVE  /\ Row(v) \in SummaryRow /\ Row(v).verdict = v
           /\ Row(v).spec = Combos[Len(results) + 1].spec
           /\ Row(v).path = Combos[Len(results) + 1].path
           /\ combo.path \in {"default", "defer"}
<1>1. Len(results) + 1 \in DOMAIN Combos
  BY CombosType, LenProperties DEF TypeOK
<1>2. combo \in [spec : {Combos[i].spec : i \in DOMAIN Combos}, path : {"default", "defer"}]
  BY <1>1, CombosType, ElementOfSeq DEF combo
<1> QED BY <1>1, <1>2 DEF Row, SummaryRow, combo

(* A row joins the results: everything before it stays as it was. *)
LEMMA RowJoins ==
    ASSUME TypeOK, FilesOK, step \in Working, NEW v \in {"pass", "fail", "error"},
           results' = Append(results, Row(v))
    PROVE  /\ results' \in Seq(SummaryRow) /\ Len(results') = Len(results) + 1
           /\ RowsOfCombos(results')
           /\ results'[Len(results')] = Row(v)
           /\ SubSeq(results', 1, Len(results') - 1) = results
<1>1. Row(v) \in SummaryRow /\ results \in Seq(SummaryRow) /\ Len(results) \in Nat
  BY RowType, LenProperties DEF TypeOK
<1>2. /\ results' \in Seq(SummaryRow) /\ Len(results') = Len(results) + 1
      /\ results'[Len(results) + 1] = Row(v)
      /\ \A k \in 1 .. Len(results) : results'[k] = results[k]
  BY <1>1, AppendProperties
<1>3. RowsOfCombos(results')
  <2>1. Len(results') <= Len(Combos)
    BY <1>1, <1>2, CombosType DEF TypeOK
  <2>2. ASSUME NEW k \in 1 .. Len(results')
        PROVE  results'[k].spec = Combos[k].spec /\ results'[k].path = Combos[k].path
    <3>1. CASE k = Len(results) + 1
      BY <1>2, <3>1, RowType
    <3>2. CASE k \in 1 .. Len(results)
      BY <1>2, <3>2 DEF FilesOK, RowsOfCombos
    <3> QED BY <1>1, <1>2, <3>1, <3>2
  <2> QED BY <2>1, <2>2 DEF RowsOfCombos
<1>4. SubSeq(results', 1, Len(results') - 1) = results
  <2>1. results' = results \o <<Row(v)>>
    BY <1>1, AppendIsConcat
  <2>2. SubSeq(results \o <<Row(v)>>, 1, Len(results)) = SubSeq(results, 1, Len(results))
    BY <1>1, SubSeqOfConcat1
  <2>3. SubSeq(results, 1, Len(results)) = results
    BY <1>1, SubSeqFull
  <2> QED BY <1>1, <1>2, <2>1, <2>2, <2>3
<1> QED BY <1>2, <1>3, <1>4

-----------------------------------------------------------------------------
(* The invariant.                                                          *)

(* The invariant holds when N is started first.                            *)
LEMMA AuditInit == Init => AuditInv
<1> SUFFICES ASSUME Init PROVE AuditInv
  OBVIOUS
<1>1. TypeOK
  <2>1. <<>> \in Seq(SummaryRow) /\ Len(<<>>) = 0
    BY EmptySeq
  <2>2. NoAnswer \in [Queries -> Answer]
    BY DEF NoAnswer, Answer
  <2>3. 0 < Len(Combos) /\ 0 <= Len(Combos) /\ 1 \in 1 .. MaxRuns
    BY CombosType, CompactIndexAssumption
  <2>4. 0 \in 0 .. 1
    OBVIOUS
  <2> QED BY <2>1, <2>2, <2>3, <2>4 DEF Init, TypeOK, Working, NoFile
<1>2. FilesOK /\ CheckpointOK
  BY CombosType, EmptySeq
     DEF Init, FilesOK, CheckpointOK, CrashLosesOne, RowsOfCombos, Working, Saving, NoFile
<1>3. EvidenceOK /\ AuditOK
  BY DEF Init, EvidenceOK, AuditOK, PassMeansSurvived, NoFalseAlarm, Judged, Judging
<1> QED BY <1>1, <1>2, <1>3 DEF AuditInv

(* A step that only works on a combination disturbs neither results nor    *)
(* files.                                                                  *)
LEMMA WorkKeepsFiles ==
    ASSUME FilesOK, CheckpointOK, step \in Working, step' \in Working,
           UNCHANGED <<runs, report, tmp, out>>
    PROVE  FilesOK' /\ CheckpointOK'
BY DEF FilesOK, CheckpointOK, CrashLosesOne, RowsOfCombos, Working, Saving, report

(* The result of a combination joins the others, before it is saved.       *)
LEMMA ResultInv ==
    ASSUME AuditInv, step \in Working, NEW v \in {"pass", "fail", "error"}, step' = "open",
           results' = Append(results, Row(v)), UNCHANGED <<runs, dataset, answers, total, tmp, out>>
    PROVE  TypeOK' /\ FilesOK' /\ CheckpointOK'
<1> USE DEF AuditInv, dataset, answers
<1>1. /\ results' \in Seq(SummaryRow) /\ Len(results') = Len(results) + 1
      /\ RowsOfCombos(results')
      /\ SubSeq(results', 1, Len(results') - 1) = results
  BY RowJoins
<1>2. results \in Seq(SummaryRow) /\ Len(results) \in Nat /\ Len(results) < Len(Combos) /\ ~total
  BY LenProperties DEF TypeOK, FilesOK
<1>3. TypeOK'
  BY <1>1, <1>2, CombosType, SMTT(30) DEF TypeOK, Saving, Working, SummaryRow
<1>4. results' # <<>>
  BY <1>1, <1>2, EmptySeq
<1>5. FilesOK'
  BY <1>1, <1>2, <1>4 DEF FilesOK, RowsOfCombos, Working, Saving
<1>6. CheckpointOK'
  <2>1. CASE results = <<>>
    BY <1>1, <2>1, EmptySeq DEF CheckpointOK, CrashLosesOne, Working
  <2>2. CASE results # <<>>
    BY <1>1, <2>2 DEF CheckpointOK, CrashLosesOne, Working
  <2> QED BY <2>1, <2>2
<1> QED BY <1>3, <1>5, <1>6

(* Judging by the columns of the summary: a pass is evidence, and what is  *)
(* as documented passes.                                                   *)
LEMMA JudgeInv ==
    ASSUME AuditInv, Judge
    PROVE  AuditInv'
<1> DEFINE v == IF AllPass THEN "pass" ELSE "fail"
<1>1. step = "judge" /\ step \in Working /\ step' = "open" /\ results' = Append(results, Row(v))
  BY DEF Judge, Working
<1>2. TypeOK' /\ FilesOK' /\ CheckpointOK'
  <2>1. v \in {"pass", "fail", "error"}
    OBVIOUS
  <2> HIDE DEF v
  <2> QED BY <1>1, <2>1, ResultInv DEF Judge
<1>3. last' = Row(v) /\ last'.verdict = v /\ last'.path = combo.path
  <2>1. v \in {"pass", "fail", "error"}
    OBVIOUS
  <2> HIDE DEF v
  <2>2. results'[Len(results')] = Row(v)
    BY <1>1, <2>1, RowJoins DEF AuditInv
  <2> QED BY <1>1, <2>1, <2>2, RowType DEF last, AuditInv, combo
<1>4. UNCHANGED <<dataset, answers, total>>
  BY DEF Judge
<1>5. combo.path \in {"default", "defer"}
  BY <1>1, RowType DEF AuditInv
<1>6. EvidenceOK'
  BY <1>1, <1>4 DEF EvidenceOK, AuditInv, Judging, dataset, answers
<1>7. ASSUME AllPass
      PROVE  /\ removed \/ stable
             /\ frags \subseteq idx.bitmap
             /\ \A q \in Queries : pre[q] = post[q] /\ post[q] # Raised /\ gt[q] \in {pre[q], Unknown}
  <2>1. removed \/ stable
    <3>1. CASE combo.path = "default"
      BY <1>1, <1>7, <3>1 DEF AllPass, uuid_invariant, EvidenceOK, AuditInv
    <3>2. CASE combo.path = "defer"
      BY <1>1, <1>7, <3>2 DEF AllPass, fri_invariant, EvidenceOK, AuditInv, TypeOK
    <3> QED BY <1>5, <3>1, <3>2
  <2>2. frags \subseteq idx.bitmap
    BY <1>7 DEF AllPass, bitmap_updated
  <2>3. ASSUME NEW q \in Queries
        PROVE  pre[q] = post[q] /\ post[q] # Raised /\ gt[q] \in {pre[q], Unknown}
    BY <1>7 DEF AllPass, correctness, pre_matches_gt, checkable
  <2> QED BY <2>1, <2>2, <2>3
<1>8. PassMeansSurvived'
  BY <1>3, <1>4, <1>7 DEF PassMeansSurvived, Judged, dataset, answers
<1>9. ASSUME AsDocumented' PROVE AllPass
  <2>1. /\ removed
        /\ fri = (combo.path = "defer" /\ ~stable)
        /\ idx = [uuid |-> IF combo.path = "default" /\ ~stable THEN 2 ELSE 1, bitmap |-> frags]
        /\ \A q \in Queries : pre[q] = Truth /\ post[q] = Truth
    BY <1>3, <1>4, <1>9 DEF AsDocumented, dataset, answers
  <2>2. built.uuid = 1 /\ \A q \in Queries : gt[q] \in {Truth, Unknown}
    BY <1>1 DEF EvidenceOK, AuditInv, Judging
  <2>3. correctness /\ pre_matches_gt
    BY <2>1, <2>2 DEF correctness, pre_matches_gt, checkable, Truth, Raised
  <2>4. idx # NoIndex /\ idx.bitmap = frags
    BY <2>1 DEF NoIndex
  <2>5. uuid_invariant
    BY <1>5, <2>1, <2>2, <2>4 DEF uuid_invariant
  <2>6. fri_invariant /\ bitmap_updated
    BY <2>1, <2>4 DEF fri_invariant, bitmap_updated
  <2> QED BY <2>3, <2>5, <2>6 DEF AllPass
<1>10. NoFalseAlarm'
  BY <1>3, <1>9 DEF NoFalseAlarm
<1> QED BY <1>2, <1>6, <1>8, <1>10 DEF AuditInv, AuditOK

(* The phases before, of a combination nothing has been said of yet.       *)
LEMMA WorkInv ==
    ASSUME AuditInv, Write \/ GroundTruth \/ BuildIndex \/ PreQueries \/ Compact \/ PostQueries
    PROVE  AuditInv'
<1> USE DEF AuditInv, Working, dataset, answers, report
<1>1. step \in Working /\ step' \in Working /\ UNCHANGED <<report, tmp, out, runs>>
  BY DEF Write, GroundTruth, BuildIndex, PreQueries, Compact, PostQueries
<1>2. FilesOK' /\ CheckpointOK'
  BY <1>1, WorkKeepsFiles
<1>3. AuditOK'
  BY <1>1 DEF AuditOK, PassMeansSurvived, NoFalseAlarm, Judged
<1>4. TypeOK'
  <2> USE DEF TypeOK, FragIds, Index, NoIndex, Answer
  <2>1. CASE Write
    BY <1>1, <2>1 DEF Write
  <2>2. CASE GroundTruth
    BY <1>1, <2>2 DEF GroundTruth, ground_truth_count, Unknown, Raised, Truth
  <2>3. CASE BuildIndex
    BY <1>1, <2>3 DEF BuildIndex
  <2>4. CASE PreQueries \/ PostQueries
    BY <1>1, <2>4 DEF PreQueries, PostQueries
  <2>5. CASE Compact
    <3>1. frags' \subseteq FragIds
      <4>1. frags \subseteq FragIds /\ 3 \in FragIds
        OBVIOUS
      <4> QED BY <2>5, <4>1 DEF Compact
    <3>3. idx' \in Index \cup {NoIndex}
      BY <2>5 DEF Compact
    <3>2. fri' \in BOOLEAN /\ removed' \in BOOLEAN
      BY <2>5 DEF Compact
    <3> QED BY <1>1, <2>5, <3>1, <3>2, <3>3 DEF Compact
  <2> QED BY <2>1, <2>2, <2>3, <2>4, <2>5
<1>5. EvidenceOK'
  <2> USE DEF EvidenceOK, Judging
  <2>1. CASE Write
    BY <1>1, <2>1 DEF Write
  <2>2. CASE GroundTruth
    BY <1>1, <2>2 DEF GroundTruth, ground_truth_count
  <2>3. CASE BuildIndex
    BY <1>1, <2>3 DEF BuildIndex
  <2>4. CASE PreQueries \/ PostQueries
    BY <1>1, <2>4 DEF PreQueries, PostQueries
  <2>5. CASE Compact
    BY <1>1, <2>5 DEF Compact
  <2> QED BY <2>1, <2>2, <2>3, <2>4, <2>5
<1> QED BY <1>2, <1>3, <1>4, <1>5

(* A step that leaves results and files alone, outside of a combination.   *)
LEMMA IdleAudit ==
    ASSUME step' \notin {"open"} \cup Judging
    PROVE  AuditOK'
BY DEF AuditOK, PassMeansSurvived, NoFalseAlarm, Judged

(* An exception in a combination becomes its row; the loop goes on.        *)
LEMMA ComboFailsInv ==
    ASSUME AuditInv, ComboFails
    PROVE  AuditInv'
<1>1. TypeOK' /\ FilesOK' /\ CheckpointOK'
  BY ResultInv DEF ComboFails, Working
<1>2. last'.verdict = "error"
  BY RowJoins, RowType DEF ComboFails, Working, AuditInv, last
<1>3. EvidenceOK'
  BY DEF ComboFails, AuditInv, EvidenceOK, Judging, dataset, answers
<1>4. AuditOK'
  BY <1>2 DEF AuditOK, PassMeansSurvived, NoFalseAlarm, Judged
<1> QED BY <1>1, <1>3, <1>4 DEF AuditInv

(* The save: a temporary file is opened, filled and put in the place of    *)
(* the output file, which is the first moment that one changes.            *)
LEMMA SaveInv ==
    ASSUME AuditInv, OpenTmp \/ Dump \/ Replace
    PROVE  AuditInv'
<1> USE DEF AuditInv
<1>0. results \in Seq(SummaryRow) /\ Len(results) \in Nat /\ <<>> \in Seq(SummaryRow)
  BY EmptySeq, LenProperties DEF TypeOK
<1>1. CASE OpenTmp
  <2>1. TypeOK'
    <3>1. NoAnswer \in [Queries -> Answer]
      BY DEF NoAnswer, Answer
    <3>2. tmp'.timestamp = 0 /\ tmp'.combos = <<>> /\ tmp'.total \in BOOLEAN /\ 0 \in 0 .. runs
      BY <1>1 DEF OpenTmp, Torn, TypeOK
    <3> QED BY <1>0, <1>1, <3>1, <3>2
         DEF OpenTmp, Returned, report, TypeOK, Saving, Working
  <2>2. FilesOK' /\ CheckpointOK'
    BY <1>0, <1>1, CombosType, EmptySeq
       DEF OpenTmp, report, FilesOK, CheckpointOK, CrashLosesOne, RowsOfCombos, Saving, Working, Torn
  <2>3. EvidenceOK' /\ AuditOK'
    BY <1>1, IdleAudit DEF OpenTmp, Returned, EvidenceOK, Judging
  <2> QED BY <2>1, <2>2, <2>3
<1>2. CASE Dump
  <2>1. TypeOK'
    BY <1>0, <1>2 DEF Dump, report, dataset, answers, TypeOK, Saving, Working
  <2>2. FilesOK' /\ CheckpointOK'
    BY <1>2 DEF Dump, report, FilesOK, CheckpointOK, CrashLosesOne, RowsOfCombos, Saving, Working
  <2>3. EvidenceOK' /\ AuditOK'
    BY <1>2, IdleAudit DEF Dump, dataset, answers, EvidenceOK, Judging
  <2> QED BY <2>1, <2>2, <2>3
<1>3. CASE Replace
  <2>1. /\ out' = [timestamp |-> runs, combos |-> results, total |-> total]
        /\ UNCHANGED <<results, runs>> /\ results # <<>> /\ runs \in 0 .. runs /\ 0 \in 0 .. runs
    BY <1>3 DEF Replace, FilesOK, Saving, TypeOK
  <2>2. step' = "write" => ~total' /\ Len(results) < Len(Combos)
    BY <1>0, <1>3 DEF Replace, FilesOK
  <2>3. total' => Len(results) = Len(Combos)
    <3>1. Len(results) <= Len(Combos) /\ Len(Combos) \in Nat
      BY CombosType DEF FilesOK, RowsOfCombos
    <3>2. CASE Len(results) < Len(Combos)
      BY <1>0, <1>3, <3>1, <3>2 DEF Replace, FilesOK
    <3>3. CASE ~(Len(results) < Len(Combos))
      BY <1>0, <3>1, <3>3
    <3> QED BY <3>2, <3>3
  <2>4. step' \in {"write", "open", "done"} /\ total' \in BOOLEAN
    BY <1>3 DEF Replace, TypeOK
  <2>5. TypeOK'
    BY <1>0, <1>3, <2>1, <2>2, <2>4
       DEF Replace, dataset, answers, TypeOK, Saving, Working, NoFile
  <2>6. FilesOK' /\ CheckpointOK'
    BY <1>0, <1>3, <2>1, <2>2, <2>3, <2>4, CombosType, EmptySeq
       DEF Replace, FilesOK, CheckpointOK, CrashLosesOne, RowsOfCombos, Saving, Working, NoFile
  <2>7. EvidenceOK'
    BY <1>3, <2>4 DEF Replace, dataset, answers, EvidenceOK, Judging
  <2>8. step' = "open" => total'
    BY <1>3 DEF Replace
  <2>9. AuditOK'
    BY <2>4, <2>8 DEF AuditOK, PassMeansSurvived, NoFalseAlarm, Judged
  <2> QED BY <2>5, <2>6, <2>7, <2>9
<1> QED BY <1>1, <1>2, <1>3

(* After a kill, at whatever step, the files are as whole as before it.    *)
LEMMA CrashInv ==
    ASSUME AuditInv, Crash \/ Rerun
    PROVE  AuditInv'
<1> USE DEF AuditInv
<1>0. /\ results \in Seq(SummaryRow) /\ Len(results) \in Nat
      /\ <<>> \in Seq(SummaryRow) /\ Len(<<>>) = 0
  BY EmptySeq, LenProperties DEF TypeOK
<1>1. CASE Crash
  <2>1. TypeOK'
    <3>1. NoAnswer \in [Queries -> Answer]
      BY DEF NoAnswer, Answer
    <3> QED BY <1>1, <3>1 DEF Crash, Returned, report, TypeOK, Working
  <2>2. FilesOK' /\ CheckpointOK'
    BY <1>1 DEF Crash, report, FilesOK, CheckpointOK, CrashLosesOne, RowsOfCombos, Saving, Working
  <2>3. EvidenceOK' /\ AuditOK'
    BY <1>1, IdleAudit DEF Crash, Returned, EvidenceOK, Judging
  <2> QED BY <2>1, <2>2, <2>3
<1>2. CASE Rerun
  <2>1. TypeOK'
    <3>1. runs' \in 1 .. MaxRuns /\ \A k \in 0 .. runs : k \in 0 .. runs'
      BY <1>2, CompactIndexAssumption DEF Rerun, TypeOK
    <3>2. 0 < Len(Combos) /\ 0 <= Len(Combos)
      BY CombosType
    <3> QED BY <1>0, <1>2, <3>1, <3>2 DEF Rerun, dataset, answers, TypeOK, Working
  <2>2. FilesOK' /\ CheckpointOK'
    <3>1. out'.timestamp # runs' /\ results' = <<>> /\ step' = "write" /\ Len(results') <= 1
      BY <1>0, <1>2 DEF Rerun, TypeOK
    <3>2. CheckpointOK'
      BY <3>1 DEF CheckpointOK, CrashLosesOne
    <3> QED BY <1>0, <1>2, <3>2, CombosType DEF Rerun, FilesOK, RowsOfCombos, Saving, Working
  <2>3. EvidenceOK' /\ AuditOK'
    BY <1>2, IdleAudit DEF Rerun, dataset, answers, EvidenceOK, Judging
  <2> QED BY <2>1, <2>2, <2>3
<1> QED BY <1>1, <1>2

(* Every step of the audit preserves the invariant.                        *)
LEMMA AuditStep == AuditInv /\ [Next]_vars => AuditInv'
<1> SUFFICES ASSUME AuditInv, [Next]_vars PROVE AuditInv'
  OBVIOUS
<1>1. CASE Write \/ GroundTruth \/ BuildIndex \/ PreQueries \/ Compact \/ PostQueries
  BY <1>1, WorkInv
<1>2. CASE Judge
  BY <1>2, JudgeInv
<1>3. CASE ComboFails
  BY <1>3, ComboFailsInv
<1>4. CASE OpenTmp \/ Dump \/ Replace
  BY <1>4, SaveInv
<1>5. CASE Crash \/ Rerun
  BY <1>5, CrashInv
<1>6. CASE UNCHANGED vars
  BY <1>6 DEF vars, dataset, answers, report, AuditInv, TypeOK, FilesOK, RowsOfCombos, CheckpointOK,
        CrashLosesOne, EvidenceOK, AuditOK, PassMeansSurvived, NoFalseAlarm, AsDocumented, Judged, last
<1> QED BY <1>1, <1>2, <1>3, <1>4, <1>5, <1>6 DEF Next

(* The invariant holds of every state of every audit.                      *)
LEMMA AuditInvariance == Spec => []AuditInv
BY AuditInit, AuditStep, PTL DEF Spec

-----------------------------------------------------------------------------
(* Every variable of the audit keeps its type, and there is a combination  *)
(* left whenever one is worked on.                                         *)
THEOREM AuditTypeCorrect == Spec => []TypeOK
BY AuditInvariance, PTL DEF AuditInv

(* A combination all of whose columns pass was put through a compaction    *)
(* (or has stable row ids), its index covers the data, and the answers     *)
(* stayed what they were and are right where that is known; whatever Lance *)
(* did to the dataset, and for any queries.                                *)
THEOREM PassIsEvidence == Spec => []PassMeansSurvived
BY AuditInvariance, PTL DEF AuditInv, AuditOK

(* Lance behaving as the docstring says is never accused.                  *)
THEOREM NoAccusation == Spec => []NoFalseAlarm
BY AuditInvariance, PTL DEF AuditInv, AuditOK

(* The output file is at every moment a whole prefix of the combinations,  *)
(* however often the script is killed and started again.                   *)
THEOREM OutputWhole == Spec => []OutputIsPrefix
<1>1. AuditInv => OutputIsPrefix
  <2> SUFFICES ASSUME AuditInv PROVE OutputIsPrefix
    OBVIOUS
  <2>1. DOMAIN out.combos = 1 .. Len(out.combos)
    BY LenProperties DEF AuditInv, TypeOK
  <2> QED BY <2>1 DEF AuditInv, FilesOK, RowsOfCombos, OutputIsPrefix
<1> QED BY <1>1, AuditInvariance, PTL

(* A kill at any step loses, of the combinations its own start has         *)
(* finished, at most the last.                                             *)
THEOREM CrashCost == Spec => []CrashLosesOne
BY AuditInvariance, PTL DEF AuditInv, CheckpointOK
=============================================================================
