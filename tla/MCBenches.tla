------------------------------- MODULE MCBenches -------------------------------
(* Five benches and the audit of N, which share nothing and one of which   *)
(* is run: the choice is made at the start, so that their state spaces add *)
(* up.                                                                     *)
EXTENDS CompactIndex, FormatBench, CompositeKey, Calibration, ReadCascade, ImageLoader

(* Two combinations, one on each compaction path, one of an index type     *)
(* whose counts are known and one of a type whose counts are not.          *)
MCCombos == << [spec |-> "BTREE", path |-> "default"], [spec |-> "INVERTED", path |-> "defer"] >>

MCL2Workloads == <<"tab_flat", "tab_blob">>
MCL2Formats   == <<"lance_2.2", "parquet_zstd">>
MCOVariants   == <<"V0_baseline", "V1_dual_btree", "V3_concat_btree">>
MCOWorkloads  == <<"Q_point", "Q_frame">>
MCColumns     ==
    UNION {[counts : [1 .. m -> {1, 2, 3, 5}], nulls : 0 .. 2] : m \in 0 .. 3}
MCTargets     == {1, 100, 1000, 2500, 5000}
MCRSizes      == {<<5, 2>>}
MCPlan        == <<[tag |-> "B", target |-> 2], [tag |-> "A", target |-> 4]>>
MCRBounds     == {[builds |-> 1, cascades |-> 1, reads |-> 4, reports |-> 1],
                  [builds |-> 2, cascades |-> 1, reads |-> 1, reports |-> 1]}
MCIBounds     == {[builds |-> 2, parquets |-> 1, trainings |-> 1],
                  [builds |-> 1, parquets |-> 2, trainings |-> 1]}

VARIABLE bench  \* the bench that is run

BenchVars == <<vars, L2Vars, OVars, CalibrationVars, RVars, IVars, bench>>
AnyColumn == CHOOSE c \in Columns : TRUE

(* The audit is started a second time for what becomes of its files, with  *)
(* compactions that find nothing to do.                                    *)
AuditBound == runs' > 1 => ~removed'

(* The second writer of L2 has one task. *)
L2Bound == l2writes' > 1 => Len(l2w'.todo) <= 1

BenchInit ==
    /\ bench \in {"audit", "L2", "O", "calibration", "read", "images"}
    /\ Init /\ L2Init /\ OInit /\ RInit /\ IInit
    /\ CalibrationInit /\ (bench # "calibration" => column = AnyColumn)

BenchNext ==
    /\ UNCHANGED bench
    /\ \/ bench = "audit" /\ Next /\ AuditBound /\ UNCHANGED <<L2Vars, OVars, CalibrationVars, RVars, IVars>>
       \/ bench = "L2" /\ L2Next /\ L2Bound /\ UNCHANGED <<vars, OVars, CalibrationVars, RVars, IVars>>
       \/ bench = "O" /\ ONext /\ UNCHANGED <<vars, L2Vars, CalibrationVars, RVars, IVars>>
       \/ bench = "calibration" /\ CalibrationNext /\ UNCHANGED <<vars, L2Vars, OVars, RVars, IVars>>
       \/ bench = "read" /\ RNext /\ UNCHANGED <<vars, L2Vars, OVars, CalibrationVars, IVars>>
       \/ bench = "images" /\ INext /\ UNCHANGED <<vars, L2Vars, OVars, CalibrationVars, RVars>>

BenchSpec == BenchInit /\ [][BenchNext]_BenchVars

(* Every variable of every bench keeps its type. *)
BenchTypeOK == TypeOK /\ L2TypeOK /\ OTypeOK /\ CalibrationTypeOK /\ RTypeOK /\ ITypeOK
=============================================================================
