------------------------------ MODULE ReadCascade ------------------------------
(***************************************************************************)
(* read-perf-bench: build_E.py appends many small fragments to one Lance   *)
(* dataset, compact_cascade.py compacts it step by step and notes the      *)
(* version each step ends at, read_bench.py and spark_full_read.py measure *)
(* those versions, and generate_report.py puts the measurements into one   *)
(* report, relative to version A.  Each is started by hand, any may be     *)
(* killed, and a build may be started while the others run.                *)
(***************************************************************************)
EXTENDS Integers, Selection

CONSTANTS
    RSizes,        \* <<TOTAL_ROWS, TARGET_FRAGMENTS>> of the builds
    plan,          \* the steps of the cascade: tag and target rows per fragment
    POINT_QUERY_N, \* rows a point query takes
    RANGE_SIZE,    \* rows a range query spans
    RBounds        \* bounds: how often builds, cascades, reads and reports are started

ASSUME ReadCascadeAssumption ==
    /\ \A z \in RSizes : z[2] \in Nat \ {0} /\ z[1] \in Nat /\ z[1] >= z[2]
    /\ plan \in Seq([tag : STRING, target : Nat \ {0}])
    /\ POINT_QUERY_N \in Nat /\ RANGE_SIZE \in Nat
    /\ RBounds \subseteq [{"builds", "cascades", "reads", "reports"} -> Nat]

order  == <<"A", "B", "C", "D", "E">>   \* of the report
RTags  == {plan[i].tag : i \in DOMAIN plan} \cup {"E"}
RNames == RTags \cup {"smoke"}          \* of the files read_*.json
Sparks == {"A", "E"}                    \* of the files spark_full_*.json

(* A version of the dataset: the rows of each fragment; which build wrote  *)
(* it, and after how many appends.                                         *)
Version(b, n, fs) == [build |-> b, appends |-> n, frags |-> fs]
RowsOf(fs)     == FoldSeq(LAMBDA n, sum : n + sum, 0, fs)

(* What the scripts note of a version. *)
Noted(versions, v) == [version |-> v, rows |-> RowsOf(versions[v].frags), frags |-> Len(versions[v].frags)]
NothingNoted == [version |-> 0, rows |-> 0, frags |-> 0]

(* Files are absent, torn, or saved whole. *)
RNoFile  == [state |-> "none", note |-> NothingNoted]
RTorn    == [RNoFile EXCEPT !.state = "torn"]
RNoPlan  == [state |-> "none", E |-> NothingNoted, compactions |-> <<>>]
RNoReport == [state |-> "none", tags |-> <<>>, baseline |-> "none", spark |-> FALSE]

VARIABLES
    rversions,  \* the versions of the dataset, the latest last
    rbuild,     \* build_E.py: pc, build, rows per append, appends left, handle
    rinfo,      \* E_dataset_info.json
    rcascade,   \* compact_cascade.py: pc, steps left, handle, results
    rplan,      \* compact_plan.json
    rread,      \* read_bench.py or spark_full_read.py: pc, file, handle
    rreads,     \* read_*.json
    rsparks,    \* spark_full_*.json
    rreporter,  \* generate_report.py: pc, report
    rreport,    \* REPORT.md
    rstarts     \* how often each was started

RVars == <<rversions, rbuild, rinfo, rcascade, rplan, rread, rreads, rsparks, rreporter, rreport, rstarts>>

BuildIdle   == [pc |-> "none", build |-> 0, per |-> 0, left |-> 0, note |-> NothingNoted]
CascadeIdle == [pc |-> "none", todo |-> <<>>, handle |-> 0, results |-> RNoPlan]
ReadIdle    == [pc |-> "none", out |-> "smoke", spark |-> FALSE, note |-> NothingNoted]
ReportIdle  == [pc |-> "none", report |-> RNoReport]

RInit ==
    /\ rversions = <<>>
    /\ rbuild = BuildIdle /\ rcascade = CascadeIdle /\ rread = ReadIdle /\ rreporter = ReportIdle
    /\ rinfo = RNoFile /\ rplan = RNoPlan /\ rreport = RNoReport
    /\ rreads = [t \in RNames |-> RNoFile] /\ rsparks = [t \in Sparks |-> RNoFile]
    /\ rstarts = [builds |-> 0, cascades |-> 0, reads |-> 0, reports |-> 0]

latest == Len(rversions)

(* One more script is started, within one of the bounds. *)
Start(script) ==
    /\ rstarts' = [rstarts EXCEPT ![script] = @ + 1]
    /\ \E b \in RBounds : \A k \in DOMAIN b : rstarts'[k] <= b[k]

-----------------------------------------------------------------------------
(* build_E.py                                                              *)

(* mode="overwrite" with no rows: one more version. *)
BuildStart ==
    /\ rbuild.pc = "none" /\ Start("builds")
    /\ \E z \in RSizes :
          rbuild' = [BuildIdle EXCEPT !.pc = "append", !.build = rstarts.builds + 1,
                                      !.per = z[1] \div z[2], !.left = z[2]]
    /\ rversions' = Append(rversions, Version(rstarts.builds + 1, 0, <<>>))
    /\ UNCHANGED <<rinfo, rcascade, rplan, rread, rreads, rsparks, rreporter, rreport>>

(* An append commits one fragment on top of whatever is the latest. *)
BuildAppend ==
    /\ rbuild.pc = "append"
    /\ rversions' = Append(rversions, [Last(rversions) EXCEPT !.appends = @ + 1, !.frags = Append(@, rbuild.per)])
    /\ rbuild' = [rbuild EXCEPT !.left = @ - 1, !.pc = IF rbuild.left = 1 THEN "open" ELSE "append"]
    /\ UNCHANGED <<rinfo, rcascade, rplan, rread, rreads, rsparks, rreporter, rreport, rstarts>>

(* The dataset is opened, and so is the file for its description. *)
BuildOpen ==
    /\ rbuild.pc = "open"
    /\ rbuild' = [rbuild EXCEPT !.pc = "dump", !.note = Noted(rversions, latest)]
    /\ rinfo' = RTorn
    /\ UNCHANGED <<rversions, rcascade, rplan, rread, rreads, rsparks, rreporter, rreport, rstarts>>

BuildDump ==
    /\ rbuild.pc = "dump"
    /\ rinfo' = [state |-> "saved", note |-> rbuild.note]
    /\ rbuild' = BuildIdle
    /\ UNCHANGED <<rversions, rcascade, rplan, rread, rreads, rsparks, rreporter, rreport, rstarts>>

-----------------------------------------------------------------------------
(* compact_cascade.py                                                      *)

CascadeStart ==
    /\ rcascade.pc = "none" /\ Start("cascades")
    /\ rversions # <<>>
    /\ rcascade' = [pc |-> IF plan = <<>> THEN "open" ELSE "plan", todo |-> plan, handle |-> 0,
                    results |-> [RNoPlan EXCEPT !.E = Noted(rversions, latest)]]
    /\ UNCHANGED <<rversions, rbuild, rinfo, rplan, rread, rreads, rsparks, rreporter, rreport>>

(* What a compaction makes of fragments: neighbours below the target are   *)
(* put together until they reach it.                                       *)
Joined(acc, n, target) ==
    IF acc # <<>> /\ n < target /\ Last(acc) < target
      THEN Append(Front(acc), Last(acc) + n)
      ELSE Append(acc, n)
Merge(fs, target) == FoldLeft(LAMBDA acc, n : Joined(acc, n, target), <<>>, fs)

(* The dataset is opened again.  When there is something to merge, the ids *)
(* of the new fragments are reserved first, which is a version of its own. *)
CompactBegin ==
    /\ rcascade.pc = "plan"
    /\ LET fs == rversions[latest].frags
       IN  IF Merge(fs, Head(rcascade.todo).target) = fs
             THEN rcascade' = [rcascade EXCEPT !.pc = "note"] /\ UNCHANGED rversions
             ELSE /\ rversions' = Append(rversions, Last(rversions))
                  /\ rcascade' = [rcascade EXCEPT !.pc = "commit", !.handle = latest + 1]
    /\ UNCHANGED <<rbuild, rinfo, rplan, rread, rreads, rsparks, rreporter, rreport, rstarts>>

(* Appends made meanwhile stay behind the merged fragments; an overwrite   *)
(* made meanwhile is a conflict, and ends the script.                      *)
CompactCommits ==
    /\ rcascade.pc = "commit"
    /\ LET old == rversions[rcascade.handle]
           new == rversions[latest]
       IN  IF old.build = new.build
             THEN /\ rversions' = Append(rversions, Version(old.build, new.appends,
                         Merge(old.frags, Head(rcascade.todo).target)
                             \o SubSeq(new.frags, Len(old.frags) + 1, Len(new.frags))))
                  /\ rcascade' = [rcascade EXCEPT !.pc = "note"]
             ELSE rcascade' = CascadeIdle /\ UNCHANGED rversions
    /\ UNCHANGED <<rbuild, rinfo, rplan, rread, rreads, rsparks, rreporter, rreport, rstarts>>

Step(note) ==
    [rcascade EXCEPT !.pc = IF Tail(rcascade.todo) = <<>> THEN "open" ELSE "plan",
                     !.todo = Tail(rcascade.todo), !.handle = 0,
                     !.results.compactions = Append(@, [tag |-> Head(rcascade.todo).tag, note |-> note])]

(* Seeded bug: the version is that of the handle compacted through. *)
CompactNote_Before ==
    /\ rcascade.pc = "note"
    /\ rcascade' = Step([Noted(rversions, latest) EXCEPT
                             !.version = IF rcascade.handle = 0 THEN @ ELSE rcascade.handle])
    /\ UNCHANGED <<rversions, rbuild, rinfo, rplan, rread, rreads, rsparks, rreporter, rreport, rstarts>>

(* The dataset is opened once more for what the step is said to have done. *)
CompactNote ==
    /\ rcascade.pc = "note"
    /\ rcascade' = Step(Noted(rversions, latest))
    /\ UNCHANGED <<rversions, rbuild, rinfo, rplan, rread, rreads, rsparks, rreporter, rreport, rstarts>>

PlanOpen ==
    /\ rcascade.pc = "open"
    /\ rplan' = [RNoPlan EXCEPT !.state = "torn"]
    /\ rcascade' = [rcascade EXCEPT !.pc = "dump"]
    /\ UNCHANGED <<rversions, rbuild, rinfo, rread, rreads, rsparks, rreporter, rreport, rstarts>>

PlanDump ==
    /\ rcascade.pc = "dump"
    /\ rplan' = [rcascade.results EXCEPT !.state = "saved"]
    /\ rcascade' = CascadeIdle
    /\ UNCHANGED <<rversions, rbuild, rinfo, rread, rreads, rsparks, rreporter, rreport, rstarts>>

-----------------------------------------------------------------------------
(* read_bench.py and spark_full_read.py                                    *)

PlanVersion(t) ==
    IF t = "E" THEN rplan.E.version
    ELSE rplan.compactions[CHOOSE i \in DOMAIN rplan.compactions : rplan.compactions[i].tag = t].note.version

(* The versions are taken from the saved plan, by hand; the smoke test     *)
(* reads the latest.  Python samples that many rows, and ranges, without   *)
(* asking whether there are as many.                                       *)
ReadStart ==
    /\ rread.pc = "none" /\ Start("reads")
    /\ rversions # <<>>
    /\ \/ \E t \in RNames :
             LET v == IF t = "smoke" THEN latest ELSE PlanVersion(t)
             IN  /\ t # "smoke" => rplan.state = "saved"
                 /\ RowsOf(rversions[v].frags) >= POINT_QUERY_N
                 /\ RowsOf(rversions[v].frags) >= RANGE_SIZE
                 /\ rread' = [pc |-> "open", out |-> t, spark |-> FALSE, note |-> Noted(rversions, v)]
       \/ \E t \in Sparks \cap RTags :
             /\ rplan.state = "saved"
             /\ rread' = [pc |-> "open", out |-> t, spark |-> TRUE, note |-> Noted(rversions, PlanVersion(t))]
    /\ UNCHANGED <<rversions, rbuild, rinfo, rcascade, rplan, rreads, rsparks, rreporter, rreport>>

Written(file) ==
    /\ rreads'  = IF rread.spark THEN rreads ELSE [rreads EXCEPT ![rread.out] = file]
    /\ rsparks' = IF rread.spark THEN [rsparks EXCEPT ![rread.out] = file] ELSE rsparks
    /\ UNCHANGED <<rversions, rbuild, rinfo, rcascade, rplan, rreporter, rreport, rstarts>>

ReadOpen == rread.pc = "open" /\ Written(RTorn) /\ rread' = [rread EXCEPT !.pc = "dump"]
ReadDump == rread.pc = "dump" /\ Written([state |-> "saved", note |-> rread.note]) /\ rread' = ReadIdle

-----------------------------------------------------------------------------
(* generate_report.py                                                      *)

(* Every read_*.json there is is loaded, the smoke test's too, which is    *)
(* then not used.                                                          *)
Loaded ==
    /\ \A t \in RNames : rreads[t].state # "torn"
    /\ \A t \in Sparks : rsparks[t].state # "torn"
    /\ rplan.state = "saved" /\ rinfo.state = "saved"
py_rows == Kept(order, {t \in RTags : rreads[t].state = "saved"})
SparkCompared == \A t \in Sparks : rsparks[t].state = "saved"

Report == [state |-> "saved", tags |-> py_rows, baseline |-> py_rows[1], spark |-> SparkCompared]

(* Seeded bug: the summary table, too, is relative to the first row. *)
ReportBuild_First ==
    /\ rreporter.pc = "none" /\ Start("reports")
    /\ Loaded /\ py_rows # <<>>
    /\ rreporter' = [pc |-> "open", report |-> Report]
    /\ UNCHANGED <<rversions, rbuild, rinfo, rcascade, rplan, rread, rreads, rsparks, rreport>>

(* The report is put together before its file is opened.  The tables are   *)
(* relative to the first row there is; the comparison with Spark takes A   *)
(* and E of Python, and the summary table takes A: a script that does not  *)
(* find them raises.                                                       *)
ReportBuild ==
    /\ rreporter.pc = "none" /\ Start("reports")
    /\ Loaded /\ py_rows # <<>>
    /\ SparkCompared => {"A", "E"} \subseteq ToSet(py_rows)
    /\ "A" \in ToSet(py_rows)
    /\ rreporter' = [pc |-> "open", report |-> Report]
    /\ UNCHANGED <<rversions, rbuild, rinfo, rcascade, rplan, rread, rreads, rsparks, rreport>>

ReportOpen ==
    /\ rreporter.pc = "open"
    /\ rreport' = [RNoReport EXCEPT !.state = "torn"]
    /\ rreporter' = [rreporter EXCEPT !.pc = "dump"]
    /\ UNCHANGED <<rversions, rbuild, rinfo, rcascade, rplan, rread, rreads, rsparks, rstarts>>

ReportDump ==
    /\ rreporter.pc = "dump"
    /\ rreport' = rreporter.report
    /\ rreporter' = ReportIdle
    /\ UNCHANGED <<rversions, rbuild, rinfo, rcascade, rplan, rread, rreads, rsparks, rstarts>>

(* Ctrl-C, an exception, or the system. *)
RKilled ==
    /\ \/ rbuild.pc # "none" /\ rbuild' = BuildIdle /\ UNCHANGED <<rcascade, rread, rreporter>>
       \/ rcascade.pc # "none" /\ rcascade' = CascadeIdle /\ UNCHANGED <<rbuild, rread, rreporter>>
       \/ rread.pc # "none" /\ rread' = ReadIdle /\ UNCHANGED <<rbuild, rcascade, rreporter>>
       \/ rreporter.pc # "none" /\ rreporter' = ReportIdle /\ UNCHANGED <<rbuild, rcascade, rread>>
    /\ UNCHANGED <<rversions, rinfo, rplan, rreads, rsparks, rreport, rstarts>>

RNext ==
    \/ BuildStart \/ BuildAppend \/ BuildOpen \/ BuildDump
    \/ CascadeStart \/ CompactBegin \/ CompactCommits \/ CompactNote \/ PlanOpen \/ PlanDump
    \/ ReadStart \/ ReadOpen \/ ReadDump
    \/ ReportBuild \/ ReportOpen \/ ReportDump \/ RKilled

RSpec == RInit /\ [][RNext]_RVars

-----------------------------------------------------------------------------
(* Properties.                                                             *)

RVersion == [build : Nat, appends : Nat, frags : Seq(Nat)]
RNote    == [version : Nat, rows : Nat, frags : Nat]
RStates  == {"none", "torn", "saved"}
RFile    == [state : RStates, note : RNote]
RPlan    == [state : RStates, E : RNote, compactions : Seq([tag : STRING, note : RNote])]
RTag     == {"A", "B", "C", "D", "E"}
RReport  == [state : RStates, tags : Seq(RTag), baseline : RTag \cup {"none"}, spark : BOOLEAN]

(* Every variable of the scripts, their files and the dataset keeps its    *)
(* type; nothing is appended but by a build under way, and the cascade has *)
(* a step to go while it compacts.                                         *)
RTypeOK ==
    /\ rversions \in Seq(RVersion)
    /\ rbuild \in [pc : {"none", "append", "open", "dump"}, build : Nat, per : Nat, left : Nat, note : RNote]
    /\ rbuild.left > 0 <=> rbuild.pc = "append"
    /\ rcascade \in [pc : {"none", "plan", "commit", "note", "open", "dump"}, handle : Nat, results : RPlan,
                     todo : Seq([tag : STRING, target : Nat \ {0}])]
    /\ rcascade.pc \in {"plan", "commit", "note"} <=> rcascade.todo # <<>>
    /\ rbuild.pc # "none" \/ rcascade.pc # "none" => rversions # <<>>
    /\ rread \in [pc : {"none", "open", "dump"}, out : RNames, spark : BOOLEAN, note : RNote]
    /\ rread.spark => rread.out \in Sparks
    /\ rreporter \in [pc : {"none", "open", "dump"}, report : RReport]
    /\ rinfo \in RFile /\ rplan \in RPlan /\ rreport \in RReport
    /\ rreads \in [RNames -> RFile] /\ rsparks \in [Sparks -> RFile]
    /\ rstarts \in [{"builds", "cascades", "reads", "reports"} -> Nat]

(* "Single dataset + version checkout ... guarantees a fair comparison,    *)
(* the same data" (README.md:42): every version a saved plan names is the  *)
(* dataset the plan says it is, whatever was built, compacted or killed    *)
(* since; no two of them differ in their rows unless a build was appending *)
(* meanwhile; and a file read at such a version agrees with the plan.      *)
PlanStaysTrue ==
    rplan.state = "saved" =>
        LET notes == {rplan.E} \cup {rplan.compactions[i].note : i \in DOMAIN rplan.compactions}
            Src(n) == <<rversions[n.version].build, rversions[n.version].appends>>
        IN  /\ \A n \in notes : n = Noted(rversions, n.version)
            /\ \A m, n \in notes : Src(m) = Src(n) => m.rows = n.rows
            /\ \A t \in RNames, n \in notes :
                   rreads[t].state = "saved" /\ rreads[t].note.version = n.version => rreads[t].note = n

(* The column "relative to A" (generate_report.py:92) is relative to the   *)
(* first version that was read; a report that gets written has A for it,   *)
(* and both ends of a comparison with Spark.                               *)
ReportIsRelativeToA ==
    rreport.state = "saved" =>
        /\ rreport.baseline = "A"
        /\ rreport.spark => {"A", "E"} \subseteq ToSet(rreport.tags)
=============================================================================
