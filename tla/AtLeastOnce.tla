---------------------------- MODULE AtLeastOnce ----------------------------
(***************************************************************************)
(* What the stress pipeline promises, without saying how: every attempt of *)
(* every source subtask is a log of rows that is delivered in order, from  *)
(* its first row on; only the subtask's current attempt may still deliver, *)
(* and what was delivered stays delivered.  A retry starts a new log at    *)
(* zero.  Nothing keeps two attempts from delivering the same id: that is  *)
(* at-least-once, and what the reports measure as duplicates.              *)
(***************************************************************************)
EXTENDS Naturals

CONSTANT Subtasks

VARIABLES
    attempt,    \* attempt[s]: the attempt subtask s is in
    delivered   \* the rows [sub, seq, att] a reader of the table can see

logVars == <<attempt, delivered>>

LogRow(s, q, a) == [sub |-> s, seq |-> q, att |-> a]

LogInit ==
    /\ attempt = [s \in Subtasks |-> 0]
    /\ delivered = {}

(* The rows of s's current attempt that have been delivered. *)
Current(s) == {r \in delivered : r.sub = s /\ r.att = attempt[s]}

(* A non-empty batch of the current attempt arrives; it starts right where *)
(* the delivered part of that attempt ends and leaves no hole.             *)
Deliver(s) ==
    LET batch == delivered' \ delivered
    IN  /\ batch # {}
        /\ delivered \subseteq delivered'
        /\ \A r \in batch :
              /\ r = LogRow(s, r.seq, attempt[s])
              /\ \A c \in Current(s) : c.seq < r.seq
              /\ \A q \in 0 .. r.seq : LogRow(s, q, attempt[s]) \in delivered'
        /\ UNCHANGED attempt

(* The subtask is started over. *)
Retry(s) ==
    /\ attempt' = [attempt EXCEPT ![s] = @ + 1]
    /\ UNCHANGED delivered

LogNext == \E s \in Subtasks : Deliver(s) \/ Retry(s)

LogSpec == LogInit /\ [][LogNext]_logVars
=============================================================================
