---------------------------- MODULE CompactIndex ----------------------------
(***************************************************************************)
(* N_compact_index.py: for every index type and compaction path, build an  *)
(* index on a fresh dataset, compact it, and judge from snapshots taken    *)
(* before and after whether the index survived.  What Lance does is not    *)
(* assumed to be right (that is what the audit is for): queries may fail   *)
(* or miscount, a compaction may leave any uuid, fragment bitmap and reuse *)
(* index behind, or lose the index.  After every combination the results   *)
(* so far go to a temporary file that replaces the output file.            *)
(***************************************************************************)
EXTENDS Integers, Sequences, FiniteSets

CONSTANTS
    Combos,       \* the combinations, in order: records [spec, path]
    NoOracle,     \* index types without a brute-force count (FTS, vector)
    Queries,      \* the queries of an index type
    MaxRuns       \* bound: how often the script is started

ASSUME CompactIndexAssumption ==
    /\ Combos # <<>>
    /\ Combos \in Seq([spec : {Combos[i].spec : i \in DOMAIN Combos}, path : {"default", "defer"}])
    /\ MaxRuns \in Nat \ {0}

VARIABLES
    step,      \* the phase run_one_combo is in, or where main is
    runs,      \* times the script was started
    stable,    \* the dataset has stable row ids
    frags,     \* the fragments of the latest version
    fri,       \* the latest version lists __lance_frag_reuse
    idx,       \* the index as last listed: [uuid, bitmap], or NoIndex
    built,     \* the index as listed after it was built
    removed,   \* metrics.fragments_removed > 0
    gt, pre, post, \* per query: expected count, answers before and after
    results,   \* all_results["combos"]: the summary's row of each
    total,     \* all_results has its total_elapsed_s
    tmp, out   \* the temporary file and the output file

dataset == <<stable, frags, fri, idx, built, removed>>
answers == <<gt, pre, post>>
report  == <<results, total>>
vars    == <<step, runs, dataset, answers, report, tmp, out>>

FragIds == 1 .. 3
Index   == [uuid : 1 .. 2, bitmap : SUBSET FragIds]
NoIndex == [uuid |-> 0, bitmap |-> {}]
Raised  == -1                    \* the query raised
Unknown == -1                    \* a ground truth nobody can tell
Truth   == 1                     \* the true count
Answer  == {Raised, 0, Truth}
NoAnswer == [q \in Queries |-> Raised]
(* A file has the time its start began, which tells the starts apart.      *)
NoFile  == [timestamp |-> 0, combos |-> <<>>, total |-> FALSE]
Torn    == [timestamp |-> 0, combos |-> <<>>, total |-> TRUE]  \* opened, nothing dumped

combo  == Combos[Len(results) + 1]
Working == {"write", "truth", "build", "pre", "compact", "post", "judge"}
Saving  == {"open", "dump", "replace"}

Init ==
    /\ step = "write" /\ runs = 1
    /\ stable = FALSE /\ frags = {} /\ fri = FALSE
    /\ idx = NoIndex /\ built = NoIndex /\ removed = FALSE
    /\ gt = NoAnswer /\ pre = NoAnswer /\ post = NoAnswer
    /\ results = <<>> /\ total = FALSE
    /\ tmp = NoFile /\ out = NoFile

-----------------------------------------------------------------------------
(* The phases of run_one_combo.                                            *)

(* rm_uri, then one append per fragment.  Whether row ids are stable is up *)
(* to the Lance version: the script does not ask for them.                 *)
Write ==
    /\ step = "write"
    /\ step' = "truth"
    /\ stable' \in BOOLEAN
    /\ frags' = {1, 2}
    /\ UNCHANGED <<runs, fri, idx, built, removed, answers, report, tmp, out>>

(* Counts by PyArrow; unknown without an oracle, or when it fails. *)
ground_truth_count(spec) == IF spec \in NoOracle THEN {Unknown} ELSE {Truth, Unknown}

GroundTruth ==
    /\ step = "truth"
    /\ step' = "build"
    /\ gt' \in [Queries -> ground_truth_count(combo.spec)]
    /\ UNCHANGED <<runs, dataset, pre, post, report, tmp, out>>

BuildIndex ==
    /\ step = "build"
    /\ step' = "pre"
    /\ built' = [uuid |-> 1, bitmap |-> frags]
    /\ idx' = built'
    /\ UNCHANGED <<runs, stable, frags, fri, removed, answers, report, tmp, out>>

PreQueries ==
    /\ step = "pre"
    /\ step' = "compact"
    /\ pre' \in [Queries -> Answer]
    /\ UNCHANGED <<runs, dataset, gt, post, report, tmp, out>>

(* compact_files and the snapshot after it: some fragments are replaced by *)
(* a new one, with any uuid, bitmap and reuse index; or none, and nothing  *)
(* changes.                                                                *)
Compact ==
    /\ step = "compact"
    /\ step' = "post"
    /\ \/ /\ \E gone \in (SUBSET frags) \ {{}} : frags' = (frags \ gone) \cup {3}
          /\ removed' = TRUE
          /\ fri' \in BOOLEAN /\ idx' \in Index \cup {NoIndex}
       \/ UNCHANGED <<frags, removed, fri, idx>>
    /\ UNCHANGED <<runs, stable, built, answers, report, tmp, out>>

(* The queries again; the cleanup of old versions keeps the latest. *)
PostQueries ==
    /\ step = "post"
    /\ step' = "judge"
    /\ post' \in [Queries -> Answer]
    /\ UNCHANGED <<runs, dataset, gt, pre, report, tmp, out>>

-----------------------------------------------------------------------------
(* Phase 8, as the summary prints it.                                      *)

(* Seeded bug: a query that raises before and after keeps its answer. *)
correctness_Errors == \A q \in Queries : pre[q] = post[q]

correctness == \A q \in Queries : pre[q] # Raised /\ post[q] # Raised /\ pre[q] = post[q]

(* Queries that raised are skipped; so are counts nobody knows. *)
checkable == {q \in Queries : pre[q] # Raised /\ post[q] # Raised /\ gt[q] # Unknown}
pre_matches_gt == \A q \in checkable : pre[q] = gt[q]

(* Seeded bug: stable row ids are forgotten. *)
uuid_invariant_Unstable ==
    /\ idx # NoIndex
    /\ IF combo.path = "default" THEN idx.uuid # built.uuid ELSE idx.uuid = built.uuid

uuid_invariant ==
    /\ idx # NoIndex
    /\ IF combo.path = "default" THEN idx.uuid # built.uuid \/ stable
                                 ELSE idx.uuid = built.uuid

fri_invariant == fri = (combo.path = "defer" /\ ~stable)

bitmap_updated == idx # NoIndex /\ frags \subseteq idx.bitmap

(* A row of the summary: an error, or whether all its columns pass. *)
Row(verdict) == [spec |-> combo.spec, path |-> combo.path, verdict |-> verdict]

AllPass == correctness /\ pre_matches_gt /\ uuid_invariant /\ fri_invariant /\ bitmap_updated

Judge ==
    /\ step = "judge"
    /\ step' = "open"
    /\ results' = Append(results, Row(IF AllPass THEN "pass" ELSE "fail"))
    /\ UNCHANGED <<runs, dataset, answers, total, tmp, out>>

(* An exception outside a query or the cleanup ends the combination, with  *)
(* an error; judging asks the dataset again and may raise as well.         *)
ComboFails ==
    /\ step \in {"write", "build", "compact", "judge"}
    /\ step' = "open"
    /\ results' = Append(results, Row("error"))
    /\ UNCHANGED <<runs, dataset, answers, total, tmp, out>>

-----------------------------------------------------------------------------
(* main                                                                    *)

(* run_one_combo has returned, and its variables are gone. *)
Returned ==
    /\ stable' = FALSE /\ frags' = {} /\ fri' = FALSE
    /\ idx' = NoIndex /\ built' = NoIndex /\ removed' = FALSE
    /\ gt' = NoAnswer /\ pre' = NoAnswer /\ post' = NoAnswer

(* Seeded bug: the output file itself is opened for writing. *)
OpenTmp_InPlace ==
    /\ step = "open"
    /\ step' = "dump"
    /\ tmp' = Torn /\ out' = Torn
    /\ Returned
    /\ UNCHANGED <<runs, report>>

(* open(tmp, "w") leaves an empty file until the dump is through. *)
OpenTmp ==
    /\ step = "open"
    /\ step' = "dump"
    /\ tmp' = Torn
    /\ Returned
    /\ UNCHANGED <<runs, report, out>>

Dump ==
    /\ step = "dump"
    /\ step' = "replace"
    /\ tmp' = [timestamp |-> runs, combos |-> results, total |-> total]
    /\ UNCHANGED <<runs, dataset, answers, report, out>>

(* Seeded bug: only the final save replaces the output file. *)
Replace_AtEnd ==
    /\ step = "replace"
    /\ IF Len(results) < Len(Combos) THEN step' = "write" /\ UNCHANGED total
       ELSE IF ~total THEN step' = "open" /\ total' = TRUE
       ELSE step' = "done" /\ UNCHANGED total
    /\ out' = IF total THEN tmp ELSE out
    /\ tmp' = NoFile
    /\ UNCHANGED <<runs, dataset, answers, results>>

(* The checkpoint replaces the output file, of whatever start that was;    *)
(* after the last one everything is saved once more, with the total time.  *)
Replace ==
    /\ step = "replace"
    /\ IF Len(results) < Len(Combos) THEN step' = "write" /\ UNCHANGED total
       ELSE IF ~total THEN step' = "open" /\ total' = TRUE
       ELSE step' = "done" /\ UNCHANGED total
    /\ out' = tmp
    /\ tmp' = NoFile
    /\ UNCHANGED <<runs, dataset, answers, results>>

(* The process is killed, or rm_uri raises outside the try: files stay. *)
Crash ==
    /\ step \notin {"done", "dead"}
    /\ step' = "dead"
    /\ Returned
    /\ UNCHANGED <<runs, report, tmp, out>>

(* The script is started again: nothing is read back, the combination's    *)
(* dataset is removed by its Write.                                        *)
Rerun ==
    /\ step \in {"done", "dead"} /\ runs < MaxRuns
    /\ step' = "write"
    /\ runs' = runs + 1
    /\ results' = <<>> /\ total' = FALSE
    /\ UNCHANGED <<dataset, answers, tmp, out>>

Next ==
    \/ Write \/ GroundTruth \/ BuildIndex \/ PreQueries \/ Compact \/ PostQueries
    \/ Judge \/ ComboFails \/ OpenTmp \/ Dump \/ Replace \/ Crash \/ Rerun

Spec == Init /\ [][Next]_vars

-----------------------------------------------------------------------------
(* Properties.                                                             *)

SummaryRow ==
    [spec : {Combos[i].spec : i \in DOMAIN Combos}, path : {"default", "defer"},
     verdict : {"pass", "fail", "error"}]

(* Every variable keeps its type, and a run works on a combination only    *)
(* while there is one.                                                     *)
TypeOK ==
    /\ step \in Working \cup Saving \cup {"done", "dead"}
    /\ runs \in 1 .. MaxRuns
    /\ stable \in BOOLEAN /\ fri \in BOOLEAN /\ removed \in BOOLEAN /\ total \in BOOLEAN
    /\ frags \subseteq FragIds
    /\ idx \in Index \cup {NoIndex} /\ built \in Index \cup {NoIndex}
    /\ gt \in [Queries -> Answer] /\ pre \in [Queries -> Answer] /\ post \in [Queries -> Answer]
    /\ results \in Seq(SummaryRow) /\ Len(results) <= Len(Combos)
    /\ step \in Working => Len(results) < Len(Combos)
    /\ tmp.combos \in Seq(SummaryRow) /\ out.combos \in Seq(SummaryRow)
    /\ tmp.total \in BOOLEAN /\ out.total \in BOOLEAN
    /\ tmp.timestamp \in 0 .. runs /\ out.timestamp \in 0 .. runs

(* The row of the combination just judged, while its data is still there. *)
last == results[Len(results)]
Judged == step = "open" /\ ~total /\ last.verdict # "error"

(* A combination the summary passes in every column was really put through *)
(* a compaction (row ids not being stable) although "compact_ran" is not   *)
(* among the columns, its index covers the latest version, and every query *)
(* answered, the same before and after, and right where that is known.     *)
PassMeansSurvived ==
    Judged /\ last.verdict = "pass" =>
        /\ removed \/ stable
        /\ frags \subseteq idx.bitmap
        /\ \A q \in Queries : pre[q] = post[q] /\ post[q] # Raised /\ gt[q] \in {pre[q], Unknown}

(* What the docstring says a compaction leaves: the reuse index only when  *)
(* deferred, a new uuid only when not, neither with stable row ids; a      *)
(* bitmap of the new fragments; and the answers there were, the right ones. *)
AsDocumented ==
    /\ removed
    /\ fri = (last.path = "defer" /\ ~stable)
    /\ idx = [uuid |-> IF last.path = "default" /\ ~stable THEN 2 ELSE 1, bitmap |-> frags]
    /\ \A q \in Queries : pre[q] = Truth /\ post[q] = Truth

(* When Lance did what the docstring says, the audit does not accuse it. *)
NoFalseAlarm == Judged /\ AsDocumented => last.verdict = "pass"

(* The output file is never half written: what it holds are the first      *)
(* combinations in order, and all of them once it has the total time.      *)
OutputIsPrefix ==
    /\ Len(out.combos) <= Len(Combos)
    /\ \A i \in DOMAIN out.combos :
          out.combos[i].spec = Combos[i].spec /\ out.combos[i].path = Combos[i].path
    /\ out.total => Len(out.combos) = Len(Combos)

(* A kill loses, of the combinations its own start had finished, at most   *)
(* the last: the output is of this start and has all or all but one of     *)
(* them, or it is still what an earlier start left and no more than one    *)
(* was finished.  (Of the earlier start nothing is kept after that: see    *)
(* EarlierResultsSurvive.)                                                 *)
CrashLosesOne ==
    IF out.timestamp = runs
      THEN results # <<>> /\ out.combos \in {results, SubSeq(results, 1, Len(results) - 1)}
      ELSE Len(results) <= 1

(* The results are "checkpoint-friendly", written after every combination, *)
(* and can be recovered after a kill (REPORT_N_compact_index.md:364): so   *)
(* no step leaves fewer combinations in the output than it had.  It does   *)
(* not hold: the start that follows a kill reads nothing back, and its     *)
(* first checkpoint replaces all that was there by one row.                *)
EarlierResultsSurvive == [][Len(out'.combos) >= Len(out.combos)]_out
=============================================================================
