------------------------------ MODULE CompositeKey ------------------------------
(***************************************************************************)
(* O_composite_key.py: variants of one table, each built with its own      *)
(* indexes, asked the same queries and removed again; at the end their row *)
(* counts are compared with those of the baseline, V0.  A query may fail,  *)
(* a variant may fail as a whole, any may be skipped, and the script may   *)
(* be killed.                                                              *)
(***************************************************************************)
EXTENDS Integers, Selection

CONSTANTS
    OVariants,   \* the variants, in order, V0_baseline first
    OWorkloads,  \* Q_point and others, in order
    OVideos,     \* how many videos are asked for
    OFrames,     \* how many frames are asked for
    OCounts,     \* row counts a query may return
    OMaxRuns     \* bound: how often the script is started

ASSUME CompositeKeyAssumption ==
    /\ OVariants \in Seq(STRING) /\ OWorkloads \in Seq(STRING)
    /\ OVariants # <<>> /\ OVariants[1] = "V0_baseline"
    /\ OVideos \in Nat /\ OFrames \in Nat /\ OCounts \subseteq Nat /\ OMaxRuns \in Nat

(* How many queries a workload has, the same for every variant. *)
make_workloads(wl) ==
    CASE wl = "Q_point" -> OVideos * OFrames
      [] wl = "Q_frame" -> OFrames
      [] OTHER          -> OVideos

(* A query returns a number of rows, or an error: the raw_queries of a     *)
(* variant that was asked, listed by workload.                             *)
QueryError == -1
AnswersTo(wl) == [1 .. make_workloads(wl) -> OCounts \cup {QueryError}]
Answers ==
    {a \in [ToSet(OWorkloads) -> UNION {AnswersTo(wl) : wl \in ToSet(OWorkloads)}] :
        \A wl \in ToSet(OWorkloads) : a[wl] \in AnswersTo(wl)}
Answered(a, wl) == Kept(a[wl], OCounts)

(* A variant that was skipped or is fatal has none: an empty list.         *)
ONoAnswers == [wl \in ToSet(OWorkloads) |-> <<>>]
OAbsent    == [status |-> "absent", raw |-> ONoAnswers]
OFatal     == [status |-> "fatal", raw |-> ONoAnswers]
ONoResults == [v \in ToSet(OVariants) |-> OAbsent]
ONoFile    == [state |-> "none", variants |-> ONoResults, ok |-> FALSE]

VARIABLES
    odisk,     \* variants whose dataset is under the root
    oout,      \* O_composite_key.json
    opc,       \* where the script is, or "none"
    otodo,     \* variants left
    oresults,  \* all_results["variants"]
    oruns      \* starts

OVars == <<odisk, oout, opc, otodo, oresults, oruns>>

OInit ==
    /\ odisk = {} /\ oout = ONoFile /\ oruns = 0
    /\ opc = "none" /\ otodo = <<>> /\ oresults = ONoResults

OStart ==
    /\ opc = "none" /\ oruns < OMaxRuns
    /\ \E skip \in SUBSET ToSet(OVariants) : otodo' = Kept(OVariants, ToSet(OVariants) \ skip)
    /\ opc' = IF otodo' = <<>> THEN "open" ELSE "build"
    /\ oresults' = ONoResults /\ oruns' = oruns + 1
    /\ UNCHANGED <<odisk, oout>>

(* The next variant, or the end of the loop. *)
NextVariant(res) ==
    /\ oresults' = [oresults EXCEPT ![Head(otodo)] = res]
    /\ otodo' = Tail(otodo)
    /\ opc' = IF Tail(otodo) = <<>> THEN "open" ELSE "build"

(* What an earlier run left is removed, the table written, and each index  *)
(* tried: one that fails is noted and nothing else.  Any other exception   *)
(* is fatal for the variant, and leaves a dataset or none.                 *)
build_variant ==
    /\ opc = "build"
    /\ \/ odisk' = odisk \cup {Head(otodo)} /\ opc' = "query" /\ UNCHANGED <<otodo, oresults>>
       \/ /\ odisk' \in {odisk, odisk \cup {Head(otodo)}, odisk \ {Head(otodo)}}
          /\ NextVariant(OFatal)
    /\ UNCHANGED <<oout, oruns>>

(* The key of V3 is one string: only Q_point can be asked of it, and what  *)
(* stands for the other workloads is an error.                             *)
Askable(v, wl) == v = "V3_concat_btree" => wl = "Q_point"

(* Queries fail one by one; the dataset may fail to open.  What has been   *)
(* measured is removed, as far as that works.                              *)
run_queries ==
    /\ opc = "query"
    /\ \/ /\ \E a \in Answers :
                /\ \A wl \in ToSet(OWorkloads) :
                      ~Askable(Head(otodo), wl) => \A i \in DOMAIN a[wl] : a[wl][i] = QueryError
                /\ NextVariant([status |-> "measured", raw |-> a])
          /\ odisk' \in {odisk, odisk \ {Head(otodo)}}
       \/ NextVariant(OFatal) /\ UNCHANGED odisk
    /\ UNCHANGED <<oout, oruns>>

(* Per workload: successful queries, and the rows they returned. *)
summarize(a, wl) ==
    LET counts == Answered(a, wl)
    IN  [n_runs |-> Len(counts), total_rows |-> FoldSeq(LAMBDA n, sum : n + sum, 0, counts)]

(* Seeded bug: the counts of a workload are compared as sets. *)
Mismatch_Sets(res, v, wl) ==
    LET got == Answered(res[v].raw, wl)
    IN  got # <<>> /\ ToSet(got) # ToSet(Answered(res["V0_baseline"].raw, wl))

(* Seeded bug: the workloads are those of the baseline. *)
Mismatch_OfBaseline(res, v, wl) ==
    Answered(res["V0_baseline"].raw, wl) # Answered(res[v].raw, wl)

(* The counts of the successful queries of each workload are compared by   *)
(* position, and their number; a workload with no successful query is not. *)
(* Of a baseline that was skipped or is fatal there are no counts, so any  *)
(* that a variant has are a mismatch in number.                            *)
Mismatch(res, v, wl) ==
    LET got == Answered(res[v].raw, wl)
    IN  got # <<>> /\ got # Answered(res["V0_baseline"].raw, wl)

internal_verify(res) ==
    \A v \in ToSet(OVariants) \ {"V0_baseline"}, wl \in ToSet(OWorkloads) :
        res[v].status = "measured" => ~Mismatch(res, v, wl)

(* The output is opened, which empties it, and dumped. *)
OOpen ==
    /\ opc = "open"
    /\ oout' = [ONoFile EXCEPT !.state = "torn"]
    /\ opc' = "dump"
    /\ UNCHANGED <<odisk, otodo, oresults, oruns>>

ODump ==
    /\ opc = "dump"
    /\ oout' = [state |-> "saved", variants |-> oresults, ok |-> internal_verify(oresults)]
    /\ opc' = "none" /\ otodo' = <<>> /\ oresults' = ONoResults
    /\ UNCHANGED <<odisk, oruns>>

OKilled ==
    /\ opc # "none"
    /\ opc' = "none" /\ otodo' = <<>> /\ oresults' = ONoResults
    /\ UNCHANGED <<odisk, oout, oruns>>

ONext == OStart \/ build_variant \/ run_queries \/ OOpen \/ ODump \/ OKilled

OSpec == OInit /\ [][ONext]_OVars

-----------------------------------------------------------------------------
(* Properties.                                                             *)

OResult ==
    [status : {"absent", "fatal"}, raw : {ONoAnswers}] \cup [status : {"measured"}, raw : Answers]

(* Every variable keeps its type, and what is asked is on disk. *)
OTypeOK ==
    /\ odisk \subseteq ToSet(OVariants)
    /\ oresults \in [ToSet(OVariants) -> OResult]
    /\ oout \in [state : {"none", "torn", "saved"}, variants : [ToSet(OVariants) -> OResult], ok : BOOLEAN]
    /\ opc \in {"none", "build", "query", "open", "dump"} /\ oruns \in 0 .. OMaxRuns
    /\ otodo \in Seq(ToSet(OVariants))
    /\ opc \in {"build", "query"} <=> otodo # <<>>
    /\ opc = "query" => Head(otodo) \in odisk

OMeasured == {v \in ToSet(OVariants) : oout.state = "saved" /\ oout.variants[v].status = "measured"}
Base == oout.variants["V0_baseline"].raw

(* "cross_variant_row_count_mismatches" (O_composite_key.py:365) being     *)
(* empty means that the summary tables agree, workload by workload, with   *)
(* the baseline's, wherever a variant has one; and where the same queries  *)
(* failed in both, that every query returned as many rows.                 *)
OkMeansAgreement ==
    oout.ok => \A v \in OMeasured, wl \in ToSet(OWorkloads) :
        LET a         == oout.variants[v].raw
            failed(b) == {i \in DOMAIN b[wl] : b[wl][i] = QueryError}
        IN  /\ summarize(a, wl) = summarize(Base, wl) \/ summarize(a, wl).n_runs = 0
            /\ "V0_baseline" \in OMeasured /\ failed(a) = failed(Base) => a[wl] = Base[wl]

(* What an alarm means: with a baseline, some variant answered a workload  *)
(* and one query of it differs from the baseline's, in rows or in that one *)
(* of them failed.  Without one (V0 skipped or fatal) it means no such     *)
(* thing, although it is reported as a mismatch of row counts: then there  *)
(* is an alarm exactly when any query of any variant was answered.         *)
AlarmMeansDifference ==
    oout.state = "saved" =>
        IF "V0_baseline" \in OMeasured
          THEN ~oout.ok => \E v \in OMeasured, wl \in ToSet(OWorkloads) :
                  /\ Answered(oout.variants[v].raw, wl) # <<>>
                  /\ \E i \in 1 .. make_workloads(wl) : oout.variants[v].raw[wl][i] # Base[wl][i]
          ELSE ~oout.ok <=> \E v \in OMeasured, wl \in ToSet(OWorkloads) :
                  Answered(oout.variants[v].raw, wl) # <<>>
=============================================================================
