------------------------------ MODULE Calibration ------------------------------
(***************************************************************************)
(* How M4_filter.py and M5_update.py choose the predicate `column <= K`    *)
(* for a target fraction of the rows: from the counts of the column's      *)
(* values, added up in their order, the one nearest to the target; and     *)
(* whether it is near enough to be used.                                   *)
(***************************************************************************)
EXTENDS Integers, SequencesExt

CONSTANTS
    Columns,   \* columns: for each, the counts of its values in order, and its nulls
    Targets    \* target fractions, in ten thousandths

ASSUME CalibrationAssumption ==
    /\ \A c \in Columns : c.counts \in Seq(Nat \ {0}) /\ c.nulls \in Nat
    /\ Targets \subseteq 1 .. 10000

VARIABLES
    column,  \* the column calibrated for
    picks    \* target -> pick; empty before

CalibrationVars == <<column, picks>>

Distance(a, b) == IF a > b THEN a - b ELSE b - a

(* Rows of the table, those with a value, and those up to the i-th value.  *)
Sum(s)      == FoldSeq(LAMBDA c, sum : c + sum, 0, s)
n_total(c)  == Sum(c.counts) + c.nulls
cum(c)      == [i \in DOMAIN c.counts |-> Sum(SubSeq(c.counts, 1, i))]

(* Python's round: halves go to the even neighbour. *)
Round(num, den) ==
    LET q == num \div den
        r == num % den
    IN  IF 2 * r > den \/ (2 * r = den /\ q % 2 = 1) THEN q + 1 ELSE q

target_count(c, t) ==
    LET n == Round(t * n_total(c), 10000) IN IF n < 1 THEN 1 ELSE n

(* Within CALIBRATION_TOLERANCE, 0.3, of the target, relative to it. *)
Within(c, rows, t) == 10 * Distance(rows * 10000, t * n_total(c)) <= 3 * t * n_total(c)

(* The first of the nearest. *)
nearest(c, t) ==
    CHOOSE i \in DOMAIN cum(c) : \A j \in DOMAIN cum(c) :
        LET di == Distance(cum(c)[i], target_count(c, t))
            dj == Distance(cum(c)[j], target_count(c, t))
        IN  di < dj \/ (di = dj /\ i <= j)

(* Seeded bug: the tolerance is taken of the table, not of the target. *)
pick_Absolute(c, t) ==
    LET i == nearest(c, t)
    IN  [predicate_k |-> i, actual_rows |-> cum(c)[i],
         feasible |-> 10 * Distance(cum(c)[i] * 10000, t * n_total(c)) <= 3 * 10000 * n_total(c)]

pick(c, t) ==
    LET i == nearest(c, t)
    IN  [predicate_k |-> i, actual_rows |-> cum(c)[i], feasible |-> Within(c, cum(c)[i], t)]

CalibrationInit == column \in Columns /\ picks = <<>>

(* A column of nulls raises. *)
calibrate_predicates ==
    /\ picks = <<>> /\ column.counts # <<>>
    /\ picks' = [t \in Targets |-> pick(column, t)]
    /\ UNCHANGED column

CalibrationNext == calibrate_predicates

CalibrationSpec == CalibrationInit /\ [][CalibrationNext]_CalibrationVars

-----------------------------------------------------------------------------
(* Every variable keeps its type: a pick is a value of the column and a    *)
(* number of its rows.                                                     *)
CalibrationTypeOK ==
    /\ column \in Columns
    /\ picks # <<>> =>
          picks \in [Targets -> [predicate_k : DOMAIN column.counts,
                                 actual_rows : 0 .. n_total(column), feasible : BOOLEAN]]

(* "claimed selectivities match actual selectivity within tolerance"       *)
(* (M4_filter.py:154), which the labels of the reports rest on: the        *)
(* predicate of a feasible target selects, of the column's rows, nulls not *)
(* among them, as many as it claims and 0.7 to 1.3 times the target; and   *)
(* where the target is a whole number of rows, it is called infeasible     *)
(* only if no value of K would do.                                         *)
CalibrationIsHonest ==
    picks # <<>> => \A t \in Targets :
        LET p       == picks[t]
            Rows(k) == Sum([i \in 1 .. k |-> column.counts[i]])
        IN  /\ p.feasible => Rows(p.predicate_k) = p.actual_rows
            /\ p.feasible => Within(column, Rows(p.predicate_k), t)
            /\ ~p.feasible /\ (t * n_total(column)) % 10000 = 0 =>
                   \A k \in DOMAIN column.counts : ~Within(column, Rows(k), t)
=============================================================================
