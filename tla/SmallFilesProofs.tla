--------------------------- MODULE SmallFilesProofs ---------------------------
(***************************************************************************)
(* However the reader cuts the source and whatever earlier runs have left, *)
(* both formats get the same rows, each once and in order, and what is     *)
(* saved of them compares like with like.                                  *)
(***************************************************************************)
EXTENDS SmallFiles, FoldProofs

-----------------------------------------------------------------------------
(* Numbers, and rows by their numbers.                                     *)

(* The rows required are a number of them.                                 *)
LEMMA RequiredType == n_required \in Nat
<1>1. NAppends * AppendRows \in Nat
  BY SmallFilesAssumption
<1> QED BY <1>1, SmallFilesAssumption DEF n_required

(* A span is a sequence of as many rows.                                   *)
LEMMA SpanType ==
    ASSUME NEW a \in Nat, NEW m \in Nat
    PROVE  /\ Span(a, m) \in Seq(Nat) /\ Len(Span(a, m)) = m
           /\ \A k \in 1 .. m : Span(a, m)[k] = a + k - 1
<1>1. \A k \in 1 .. m : a + k - 1 \in Nat
  OBVIOUS
<1>2. Span(a, m) \in [1 .. m -> Nat]
  BY <1>1 DEF Span
<1>3. Span(a, m) \in Seq(Nat) /\ Len(Span(a, m)) = m
  BY <1>2
<1> QED BY <1>3 DEF Span

(* A span and the one that follows it are one span.                        *)
LEMMA SpanConcat ==
    ASSUME NEW a \in Nat, NEW m \in Nat, NEW k \in Nat
    PROVE  Span(a, m) \o Span(a + m, k) = Span(a, m + k)
<1> DEFINE s == Span(a, m)
           t == Span(a + m, k)
           u == Span(a, m + k)
<1>1. /\ s \in Seq(Nat) /\ Len(s) = m /\ \A j \in 1 .. m : s[j] = a + j - 1
      /\ t \in Seq(Nat) /\ Len(t) = k /\ \A j \in 1 .. k : t[j] = a + m + j - 1
      /\ u \in Seq(Nat) /\ Len(u) = m + k /\ \A j \in 1 .. m + k : u[j] = a + j - 1
  <2>1. a + m \in Nat /\ m + k \in Nat
    OBVIOUS
  <2> QED BY <2>1, SpanType
<1> HIDE DEF s, t, u
<1>2. s \o t \in Seq(Nat) /\ Len(s \o t) = m + k
  BY <1>1, ConcatProperties
<1>3. ASSUME NEW j \in 1 .. m + k PROVE (s \o t)[j] = u[j]
  <2>1. CASE j <= m
    <3>1. j \in 1 .. m /\ (s \o t)[j] = s[j]
      BY <1>1, <2>1, ConcatProperties
    <3> QED BY <1>1, <3>1
  <2>2. CASE ~ (j <= m)
    <3>1. j - m \in 1 .. k /\ j \in 1 .. Len(s) + Len(t) /\ ~ (j <= Len(s)) /\ Len(s) = m
      BY <1>1, <2>2
    <3>2. (s \o t)[j] = t[j - m]
      BY <1>1, <3>1, ConcatProperties, SMTT(30)
    <3>3. t[j - m] = a + m + (j - m) - 1
      BY <1>1, <3>1
    <3> QED BY <1>1, <3>1, <3>2, <3>3
  <2> QED BY <2>1, <2>2
<1>4. s \o t = u
  BY <1>1, <1>2, <1>3, SeqEqual
<1> QED BY <1>4 DEF s, t, u

(* The span of no rows.                                                    *)
LEMMA SpanEmpty ==
    ASSUME NEW a \in Nat
    PROVE  Span(a, 0) = <<>>
BY SpanType

-----------------------------------------------------------------------------
(* Loading.                                                                *)

(* p adds up the batches b, which are n rows in all. *)
AddsUp(p, b, n) ==
    /\ p \in [0 .. Len(b) -> Nat]
    /\ p[0] = 0 /\ p[Len(b)] = n
    /\ \A k \in 1 .. Len(b) : p[k] = p[k - 1] + b[k]

(* The batches b are n rows in all. *)
Cut(b, n) == b \in Seq(Nat) /\ \E p : AddsUp(p, b, n)

(* No batches are no rows, and one more batch is its rows more.            *)
LEMMA CutEmpty == Cut(<<>>, 0)
<1> DEFINE p == [k \in 0 .. 0 |-> 0]
<1>1. Len(<<>>) = 0 /\ <<>> \in Seq(Nat)
  OBVIOUS
<1>2. AddsUp(p, <<>>, 0)
  BY <1>1 DEF AddsUp
<1> QED BY <1>1, <1>2 DEF Cut

(* One more batch is its rows more.                                        *)
LEMMA CutAppend ==
    ASSUME NEW b, NEW n \in Nat, Cut(b, n), NEW rows \in Nat
    PROVE  Cut(Append(b, rows), n + rows)
<1> DEFINE c == Append(b, rows)
           m == Len(b)
<1>1. PICK p : AddsUp(p, b, n)
  BY DEF Cut
<1>2. /\ b \in Seq(Nat) /\ m \in Nat
      /\ c \in Seq(Nat) /\ Len(c) = m + 1 /\ c[m + 1] = rows /\ \A k \in 1 .. m : c[k] = b[k]
  BY AppendProperties DEF Cut
<1> HIDE DEF c
<1> DEFINE q == [k \in 0 .. m + 1 |-> IF k = m + 1 THEN n + rows ELSE p[k]]
<1>3. p \in [0 .. m -> Nat] /\ p[0] = 0 /\ p[m] = n /\ \A k \in 1 .. m : p[k] = p[k - 1] + b[k]
  BY <1>1 DEF AddsUp
<1> HIDE DEF m
<1>4. q \in [0 .. m + 1 -> Nat] /\ q[0] = 0 /\ q[m + 1] = n + rows
  BY <1>2, <1>3
<1>5. ASSUME NEW k \in 1 .. m + 1 PROVE q[k] = q[k - 1] + c[k]
  <2>1. CASE k = m + 1
    BY <1>2, <1>3, <2>1
  <2>2. CASE k # m + 1
    BY <1>2, <1>3, <2>2
  <2> QED BY <2>1, <2>2
<1> HIDE DEF q
<1>6. AddsUp(q, c, n + rows)
  BY <1>2, <1>4, <1>5 DEF AddsUp
<1> QED BY <1>2, <1>6 DEF Cut, c

(* What has been loaded after none of the record batches. *)
LoadStart == [yielded |-> 0, batches |-> <<>>]

(* r[k] is what has been loaded after the k-th record batch. *)
LoadRun(r, sizes) ==
    r[0] = LoadStart /\ \A k \in 1 .. Len(sizes) : r[k] = Load(r[k - 1], sizes[k])

(* Loading goes through the record batches one by one.                     *)
LEMMA LoadRuns ==
    ASSUME NEW sizes \in Seq(Nat)
    PROVE  \E r : LoadRun(r, sizes) /\ load_source_batches(sizes) = r[Len(sizes)].batches
<1> DEFINE n == Len(sizes)
           A == [yielded : Nat, batches : Seq(Nat)]
           step == [ka \in (1 .. n) \X A |-> Load(ka[2], sizes[ka[1]])]
           IsLoad(g) == g = [s \in SUBSET DOMAIN sizes |->
                                IF s = {} THEN LoadStart ELSE Load(g[s \ {Max(s)}], sizes[Max(s)])]
           load == CHOOSE g : IsLoad(g)
<1>1. n \in Nat /\ DOMAIN sizes = 1 .. n /\ \A k \in 1 .. n : sizes[k] \in Nat
  OBVIOUS
<1> HIDE DEF n
<1>2. LoadStart \in A
  BY EmptySeq DEF LoadStart
<1>3. ASSUME NEW a \in A, NEW size \in Nat PROVE Load(a, size) \in A
  <2>1. a.yielded \in Nat /\ a.batches \in Seq(Nat)
    OBVIOUS
  <2>2. CASE a.yielded >= n_required
    BY <2>2 DEF Load
  <2>3. CASE ~ (a.yielded >= n_required)
    <3> DEFINE rows == Smaller(size, n_required - a.yielded)
    <3>1. rows \in Nat
      BY <2>1, <2>3, RequiredType DEF Smaller
    <3> HIDE DEF rows
    <3>2. Append(a.batches, rows) \in Seq(Nat) /\ a.yielded + rows \in Nat
      BY <2>1, <3>1, AppendProperties
    <3>3. Load(a, size) = [yielded |-> a.yielded + rows, batches |-> Append(a.batches, rows)]
      BY <2>3 DEF Load, rows
    <3> QED BY <3>2, <3>3
  <2> QED BY <2>2, <2>3
<1>4. step \in [(1 .. n) \X A -> A]
  <2>1. ASSUME NEW ka \in (1 .. n) \X A PROVE Load(ka[2], sizes[ka[1]]) \in A
    <3>1. ka[1] \in 1 .. n /\ ka[2] \in A
      OBVIOUS
    <3> HIDE DEF A
    <3> QED BY <1>1, <1>3, <3>1
  <2> HIDE DEF A
  <2> QED BY <2>1
<1>5. \A k \in 1 .. n : \A a \in A : step[<<k, a>>] = Load(a, sizes[k])
  <2> HIDE DEF A
  <2> QED OBVIOUS
<1> HIDE DEF step, A
<1>6. PICK g \in [SUBSET (1 .. n) -> A] : IsLeftFold(g, n, LoadStart, step)
  BY <1>1, <1>2, <1>4, LeftFoldExists
<1>7. ASSUME NEW s \in SUBSET (1 .. n), s # {} PROVE Max(s) \in 1 .. n
  BY <1>1, <1>7, LastFirst DEF IsChoice
<1>8. \A s \in SUBSET (1 .. n) :
         g[s] = IF s = {} THEN LoadStart ELSE Load(g[s \ {Max(s)}], sizes[Max(s)])
  <2> TAKE s \in SUBSET (1 .. n)
  <2>1. CASE s = {}
    BY <1>6, <2>1 DEF IsLeftFold
  <2>2. CASE s # {}
    <3>1. g[s] = step[<<Max(s), g[s \ {Max(s)}]>>]
      BY <1>6, <2>2 DEF IsLeftFold
    <3>2. g[s \ {Max(s)}] \in A /\ Max(s) \in 1 .. n
      BY <1>7, <2>2
    <3> QED BY <1>5, <2>2, <3>1, <3>2
  <2> QED BY <2>1, <2>2
<1>9. IsLoad(g)
  BY <1>1, <1>6, <1>8
<1>10. IsLoad(load)
  <2> HIDE DEF IsLoad
  <2> QED BY <1>9, Zenon
<1>11. load_source_batches(sizes) = load[1 .. n].batches
  BY <1>1 DEF load_source_batches, FoldLeft, MapThenFoldSet, LoadStart
<1> HIDE DEF load
<1> DEFINE r == [k \in 0 .. n |-> load[1 .. k]]
<1>12. r[0] = LoadStart /\ r[n] = load[1 .. n]
  BY <1>1, <1>10, LastFirst
<1>13. ASSUME NEW k \in 1 .. n PROVE r[k] = Load(r[k - 1], sizes[k])
  <2>1. load[1 .. k] = Load(load[1 .. (k - 1)], sizes[k])
    <3>1. /\ 1 .. k \in SUBSET DOMAIN sizes /\ 1 .. k # {}
          /\ Max(1 .. k) = k /\ (1 .. k) \ {Max(1 .. k)} = 1 .. (k - 1)
      BY <1>1, LastFirst
    <3>2. load[1 .. k] = Load(load[(1 .. k) \ {Max(1 .. k)}], sizes[Max(1 .. k)])
      BY <1>10, <3>1
    <3> QED BY <3>1, <3>2
  <2>2. k - 1 \in 0 .. n /\ k \in 0 .. n
    BY <1>1
  <2> QED BY <2>1, <2>2
<1> HIDE DEF r
<1>14. LoadRun(r, sizes)
  BY <1>12, <1>13 DEF LoadRun, n
<1> QED BY <1>11, <1>12, <1>14 DEF n

(* So does adding up what they hold.                                       *)
LEMMA SumRuns ==
    ASSUME NEW sizes \in Seq(Nat)
    PROVE  \E p : AddsUp(p, sizes, FoldLeft(+, 0, sizes))
<1> DEFINE n == Len(sizes)
           step == [ka \in (1 .. n) \X Nat |-> ka[2] + sizes[ka[1]]]
           IsAdd(g) == g = [s \in SUBSET DOMAIN sizes |->
                               IF s = {} THEN 0 ELSE g[s \ {Max(s)}] + sizes[Max(s)]]
           add == CHOOSE g : IsAdd(g)
<1>1. n \in Nat /\ DOMAIN sizes = 1 .. n /\ \A k \in 1 .. n : sizes[k] \in Nat
  OBVIOUS
<1> HIDE DEF n
<1>2. step \in [(1 .. n) \X Nat -> Nat] /\ 0 \in Nat
  BY <1>1
<1>3. \A k \in 1 .. n : \A a \in Nat : step[<<k, a>>] = a + sizes[k]
  OBVIOUS
<1> HIDE DEF step
<1>4. PICK g \in [SUBSET (1 .. n) -> Nat] : IsLeftFold(g, n, 0, step)
  BY <1>1, <1>2, LeftFoldExists
<1>5. ASSUME NEW s \in SUBSET (1 .. n), s # {} PROVE Max(s) \in 1 .. n
  BY <1>1, <1>5, LastFirst DEF IsChoice
<1>6. \A s \in SUBSET (1 .. n) :
         g[s] = IF s = {} THEN 0 ELSE g[s \ {Max(s)}] + sizes[Max(s)]
  <2> TAKE s \in SUBSET (1 .. n)
  <2>1. CASE s = {}
    BY <1>4, <2>1 DEF IsLeftFold
  <2>2. CASE s # {}
    <3>1. g[s] = step[<<Max(s), g[s \ {Max(s)}]>>]
      BY <1>4, <2>2 DEF IsLeftFold
    <3>2. g[s \ {Max(s)}] \in Nat /\ Max(s) \in 1 .. n
      BY <1>5, <2>2
    <3> QED BY <1>3, <2>2, <3>1, <3>2
  <2> QED BY <2>1, <2>2
<1>7. IsAdd(g)
  BY <1>1, <1>4, <1>6
<1>8. IsAdd(add)
  <2> HIDE DEF IsAdd
  <2> QED BY <1>7, Zenon
<1>9. FoldLeft(+, 0, sizes) = add[1 .. n]
  BY <1>1 DEF FoldLeft, MapThenFoldSet
<1> HIDE DEF add
<1> DEFINE p == [k \in 0 .. n |-> add[1 .. k]]
<1>10. p[0] = 0 /\ p[n] = add[1 .. n]
  BY <1>1, <1>8, LastFirst
<1>11. ASSUME NEW k \in 1 .. n PROVE p[k] = p[k - 1] + sizes[k]
  <2>1. add[1 .. k] = add[1 .. (k - 1)] + sizes[k]
    <3>1. /\ 1 .. k \in SUBSET DOMAIN sizes /\ 1 .. k # {}
          /\ Max(1 .. k) = k /\ (1 .. k) \ {Max(1 .. k)} = 1 .. (k - 1)
      BY <1>1, LastFirst
    <3>2. add[1 .. k] = add[(1 .. k) \ {Max(1 .. k)}] + sizes[Max(1 .. k)]
      BY <1>8, <3>1
    <3> QED BY <3>1, <3>2
  <2>2. k - 1 \in 0 .. n /\ k \in 0 .. n
    BY <1>1
  <2> QED BY <2>1, <2>2
<1>12. DOMAIN p = 0 .. n /\ p = [k \in 0 .. n |-> p[k]]
  OBVIOUS
<1> HIDE DEF p
<1> DEFINE N == {m \in Nat : m <= n => p[m] \in Nat}
<1>13. 0 \in N
  BY <1>10
<1>14. ASSUME NEW m \in Nat, m \in N PROVE m + 1 \in N
  <2> SUFFICES ASSUME m + 1 <= n PROVE p[m + 1] \in Nat
    OBVIOUS
  <2>1. m + 1 \in 1 .. n /\ (m + 1) - 1 = m /\ p[m] \in Nat
    BY <1>1, <1>14
  <2> HIDE DEF N
  <2> QED BY <1>1, <1>11, <2>1
<1>15. \A m \in Nat : m \in N
  <2> HIDE DEF N
  <2> QED BY <1>13, <1>14, NatSetInduction
<1>16. p \in [0 .. n -> Nat]
  BY <1>1, <1>12, <1>15
<1> QED BY <1>9, <1>10, <1>11, <1>16 DEF AddsUp, n

(* What is loaded of the source is n_required rows, however it is cut.     *)
LEMMA LoadsAreCut ==
    ASSUME NEW sizes \in Seq(Nat), NEW p, AddsUp(p, sizes, SourceRows)
    PROVE  Cut(load_source_batches(sizes), n_required)
<1> DEFINE n == Len(sizes)
<1>1. PICK r : LoadRun(r, sizes) /\ load_source_batches(sizes) = r[Len(sizes)].batches
  BY LoadRuns
<1>3. /\ n \in Nat /\ n_required \in Nat /\ SourceRows \in Nat /\ SourceRows >= n_required
      /\ \A k \in 1 .. n : sizes[k] \in Nat
  BY RequiredType, SmallFilesAssumption
<1>4. r[0] = LoadStart /\ \A k \in 1 .. n : r[k] = Load(r[k - 1], sizes[k])
  BY <1>1 DEF LoadRun
<1>5. /\ p[0] = 0 /\ p[n] = SourceRows
      /\ \A k \in 0 .. n : p[k] \in Nat
      /\ \A k \in 1 .. n : p[k] = p[k - 1] + sizes[k]
  BY DEF AddsUp
<1> HIDE DEF n
<1> DEFINE Good(k) == r[k].yielded = Smaller(p[k], n_required) /\ Cut(r[k].batches, r[k].yielded)
           N == {k \in Nat : k <= n => Good(k)}
<1>6. 0 \in N
  <2>1. r[0].yielded = 0 /\ r[0].batches = <<>>
    BY <1>4 DEF LoadStart
  <2>2. Smaller(p[0], n_required) = 0
    BY <1>3, <1>5 DEF Smaller
  <2> QED BY <2>1, <2>2, CutEmpty
<1>7. ASSUME NEW j \in Nat, j \in N PROVE j + 1 \in N
  <2> SUFFICES ASSUME j + 1 <= n PROVE Good(j + 1)
    OBVIOUS
  <2>1. /\ j + 1 \in 1 .. n /\ (j + 1) - 1 = j /\ j \in 0 .. n /\ j + 1 \in 0 .. n
        /\ Good(j)
    BY <1>3, <1>7
  <2> HIDE DEF N
  <2> DEFINE s == r[j]
  <2>2. r[j + 1] = Load(s, sizes[j + 1]) /\ p[j + 1] = p[j] + sizes[j + 1]
    BY <1>4, <1>5, <2>1
  <2>3. s.yielded = Smaller(p[j], n_required) /\ Cut(s.batches, s.yielded)
    BY <2>1
  <2>4. p[j] \in Nat /\ p[j + 1] \in Nat /\ sizes[j + 1] \in Nat
    BY <1>3, <1>5, <2>1
  <2> HIDE DEF s
  <2>5. CASE s.yielded >= n_required
    <3>1. r[j + 1] = s
      BY <2>2, <2>5 DEF Load
    <3>2. Smaller(p[j + 1], n_required) = s.yielded
      BY <1>3, <2>2, <2>3, <2>4, <2>5 DEF Smaller
    <3> QED BY <2>3, <3>1, <3>2
  <2>6. CASE ~ (s.yielded >= n_required)
    <3> DEFINE rows == Smaller(sizes[j + 1], n_required - s.yielded)
    <3>1. r[j + 1] = [yielded |-> s.yielded + rows, batches |-> Append(s.batches, rows)]
      BY <2>2, <2>6 DEF Load
    <3>2. s.yielded = p[j] /\ rows \in Nat /\ s.yielded + rows = Smaller(p[j + 1], n_required)
      BY <1>3, <2>2, <2>3, <2>4, <2>6, SMTT(30) DEF Smaller
    <3> HIDE DEF rows
    <3>3. Cut(Append(s.batches, rows), s.yielded + rows)
      BY <2>3, <2>4, <3>2, CutAppend
    <3> QED BY <3>1, <3>2, <3>3
  <2> QED BY <2>5, <2>6
<1>8. Good(n)
  <2>1. \A k \in Nat : k \in N
    <3> HIDE DEF N
    <3> QED BY <1>6, <1>7, NatSetInduction
  <2> HIDE DEF Good
  <2> QED BY <1>3, <2>1
<1>9. Smaller(p[n], n_required) = n_required
  BY <1>3, <1>5 DEF Smaller
<1> QED BY <1>1, <1>8, <1>9 DEF n

-----------------------------------------------------------------------------
(* Slicing.                                                                *)

(* take_rows, of batches b. *)
TakeStart == [got |-> 0, rows |-> <<>>, done |-> FALSE]
TakeOf(b, start, n) ==
    FoldLeft(LAMBDA s, rows : Take(start, n, s, rows), TakeStart, b).rows

(* Where a slice is: the rows seen, those sliced off, and whether that is  *)
(* all of them. *)
Slices == [got : Nat, rows : Seq(Nat), done : BOOLEAN]

(* A slice keeps its type.                                                 *)
LEMMA TakeType ==
    ASSUME NEW start \in Nat, NEW n \in Nat, NEW s \in Slices, NEW rows \in Nat
    PROVE  Take(start, n, s, rows) \in Slices
<1>1. s.got \in Nat /\ s.got + rows \in Nat /\ s.rows \in Seq(Nat)
  BY DEF Slices
<1>2. CASE s.done
  BY <1>2 DEF Take
<1>3. CASE ~ s.done /\ s.got + rows <= start
  <2>1. Take(start, n, s, rows) = [s EXCEPT !.got = s.got + rows]
    BY <1>3 DEF Take
  <2> QED BY <1>1, <2>1 DEF Slices
<1>4. CASE ~ s.done /\ ~ (s.got + rows <= start)
  <2> DEFINE from == Larger(0, start - s.got)
             to   == Smaller(rows, start + n - s.got)
             more == Span(s.got + from, Larger(0, to - from))
  <2>1. s.got + from \in Nat /\ Larger(0, to - from) \in Nat
    <3>1. from \in Nat
      BY <1>1 DEF Larger
    <3>2. to \in Int
      BY <1>1 DEF Smaller
    <3> HIDE DEF from, to
    <3>3. to - from \in Int
      BY <3>1, <3>2
    <3> QED BY <1>1, <3>1, <3>3 DEF Larger
  <2>2. more \in Seq(Nat)
    BY <2>1, SpanType
  <2>3. Take(start, n, s, rows)
          = [got |-> s.got + rows, rows |-> s.rows \o more, done |-> s.got + rows >= start + n]
    BY <1>4 DEF Take
  <2> HIDE DEF more
  <2>4. s.rows \o more \in Seq(Nat)
    BY <1>1, <2>2, ConcatProperties
  <2> QED BY <1>1, <2>3, <2>4 DEF Slices
<1> QED BY <1>2, <1>3, <1>4

(* r[k] is what has been sliced off after the k-th batch. *)
TakeRun(r, b, start, n) ==
    r[0] = TakeStart /\ \A k \in 1 .. Len(b) : r[k] = Take(start, n, r[k - 1], b[k])

(* Slicing goes through the batches one by one.                            *)
LEMMA TakeRuns ==
    ASSUME NEW b \in Seq(Nat), NEW start \in Nat, NEW n \in Nat
    PROVE  \E r \in [0 .. Len(b) -> Slices] :
              TakeRun(r, b, start, n) /\ TakeOf(b, start, n) = r[Len(b)].rows
<1> DEFINE m == Len(b)
           A == Slices
           step == [ka \in (1 .. m) \X A |-> Take(start, n, ka[2], b[ka[1]])]
           IsTake(g) == g = [s \in SUBSET DOMAIN b |->
                                IF s = {} THEN TakeStart ELSE Take(start, n, g[s \ {Max(s)}], b[Max(s)])]
           take == CHOOSE g : IsTake(g)
<1>1. m \in Nat /\ DOMAIN b = 1 .. m /\ \A k \in 1 .. m : b[k] \in Nat
  OBVIOUS
<1> HIDE DEF m
<1>2. TakeStart \in A
  BY EmptySeq DEF TakeStart, Slices
<1>3. \A a \in A : \A rows \in Nat : Take(start, n, a, rows) \in A
  BY TakeType
<1>4. step \in [(1 .. m) \X A -> A]
  <2>1. ASSUME NEW ka \in (1 .. m) \X A PROVE Take(start, n, ka[2], b[ka[1]]) \in A
    <3>1. ka[1] \in 1 .. m /\ ka[2] \in A
      OBVIOUS
    <3> HIDE DEF A
    <3> QED BY <1>1, <1>3, <3>1
  <2> HIDE DEF A
  <2> QED BY <2>1
<1>5. \A k \in 1 .. m : \A a \in A : step[<<k, a>>] = Take(start, n, a, b[k])
  <2> HIDE DEF A
  <2> QED OBVIOUS
<1> HIDE DEF step, A
<1>6. PICK g \in [SUBSET (1 .. m) -> A] : IsLeftFold(g, m, TakeStart, step)
  BY <1>1, <1>2, <1>4, LeftFoldExists
<1>7. ASSUME NEW s \in SUBSET (1 .. m), s # {} PROVE Max(s) \in 1 .. m
  BY <1>1, <1>7, LastFirst DEF IsChoice
<1>8. \A s \in SUBSET (1 .. m) :
         g[s] = IF s = {} THEN TakeStart ELSE Take(start, n, g[s \ {Max(s)}], b[Max(s)])
  <2> TAKE s \in SUBSET (1 .. m)
  <2>1. CASE s = {}
    BY <1>6, <2>1 DEF IsLeftFold
  <2>2. CASE s # {}
    <3>1. g[s] = step[<<Max(s), g[s \ {Max(s)}]>>]
      BY <1>6, <2>2 DEF IsLeftFold
    <3>2. g[s \ {Max(s)}] \in A /\ Max(s) \in 1 .. m
      BY <1>7, <2>2
    <3> QED BY <1>5, <2>2, <3>1, <3>2
  <2> QED BY <2>1, <2>2
<1>9. IsTake(g)
  BY <1>1, <1>6, <1>8
<1>10. IsTake(take)
  <2> HIDE DEF IsTake
  <2> QED BY <1>9, Zenon
<1>11. TakeOf(b, start, n) = take[1 .. m].rows
  BY <1>1 DEF TakeOf, FoldLeft, MapThenFoldSet
<1> HIDE DEF take
<1> DEFINE r == [k \in 0 .. m |-> take[1 .. k]]
<1>12. r[0] = TakeStart /\ r[m] = take[1 .. m]
  BY <1>1, <1>10, LastFirst
<1>13. ASSUME NEW k \in 1 .. m PROVE r[k] = Take(start, n, r[k - 1], b[k])
  <2>1. take[1 .. k] = Take(start, n, take[1 .. (k - 1)], b[k])
    <3>1. /\ 1 .. k \in SUBSET DOMAIN b /\ 1 .. k # {}
          /\ Max(1 .. k) = k /\ (1 .. k) \ {Max(1 .. k)} = 1 .. (k - 1)
      BY <1>1, LastFirst
    <3>2. take[1 .. k] = Take(start, n, take[(1 .. k) \ {Max(1 .. k)}], b[Max(1 .. k)])
      BY <1>10, <3>1
    <3> QED BY <3>1, <3>2
  <2>2. k - 1 \in 0 .. m /\ k \in 0 .. m
    BY <1>1
  <2> QED BY <2>1, <2>2
<1>14. DOMAIN r = 0 .. m /\ r = [k \in 0 .. m |-> r[k]]
  OBVIOUS
<1> HIDE DEF r
<1> DEFINE N == {k \in Nat : k <= m => r[k] \in A}
<1>15. 0 \in N
  BY <1>2, <1>12
<1>16. ASSUME NEW j \in Nat, j \in N PROVE j + 1 \in N
  <2> SUFFICES ASSUME j + 1 <= m PROVE r[j + 1] \in A
    OBVIOUS
  <2>1. j + 1 \in 1 .. m /\ (j + 1) - 1 = j /\ r[j] \in A
    BY <1>1, <1>16
  <2>2. b[j + 1] \in Nat
    BY <1>1, <2>1
  <2>3. r[j + 1] = Take(start, n, r[j], b[j + 1])
    BY <1>13, <2>1
  <2> HIDE DEF N
  <2> QED BY <1>3, <2>1, <2>2, <2>3
<1>17. r \in [0 .. m -> A]
  <2>1. \A k \in Nat : k \in N
    <3> HIDE DEF N
    <3> QED BY <1>15, <1>16, NatSetInduction
  <2>2. \A k \in 0 .. m : r[k] \in A
    BY <1>1, <2>1
  <2> QED BY <1>14, <2>2
<1>18. TakeRun(r, b, start, n)
  BY <1>12, <1>13 DEF TakeRun, m
<1> QED BY <1>11, <1>12, <1>17, <1>18 DEF m, A

(* Having seen got rows, the slice s has those of them that are asked for, *)
(* and is done when it has all. *)
Sliced(s, got, start, n) ==
    IF s.done THEN s.rows = Span(start, n)
    ELSE /\ s.got = got
         /\ IF got <= start THEN s.rows = <<>>
            ELSE got < start + n /\ s.rows = Span(start, got - start)

(* One batch more and it has those of it, too.                             *)
LEMMA TakeSlices ==
    ASSUME NEW start \in Nat, NEW n \in Nat, NEW got \in Nat, NEW rows \in Nat,
           NEW s \in Slices, Sliced(s, got, start, n)
    PROVE  Sliced(Take(start, n, s, rows), got + rows, start, n)
<1>1. CASE s.done
  BY <1>1 DEF Take, Sliced
<1>2. CASE ~ s.done /\ got + rows <= start
  <2> DEFINE t == [s EXCEPT !.got = s.got + rows]
  <2>1. s.got = got /\ s.rows = <<>>
    BY <1>2 DEF Sliced
  <2>2. Take(start, n, s, rows) = t
    BY <1>2, <2>1 DEF Take
  <2>3. t.got = got + rows /\ t.rows = <<>> /\ ~ t.done
    BY <1>2, <2>1 DEF Slices
  <2> HIDE DEF t
  <2> QED BY <1>2, <2>2, <2>3 DEF Sliced
<1>3. CASE ~ s.done /\ ~ (got + rows <= start)
  <2> DEFINE from == Larger(0, start - got)
             to   == Smaller(rows, start + n - got)
             more == Span(got + from, Larger(0, to - from))
             t    == [got |-> got + rows, rows |-> s.rows \o more, done |-> got + rows >= start + n]
  <2>1. s.got = got
    BY <1>3 DEF Sliced
  <2>2. Take(start, n, s, rows) = t
    BY <1>3, <2>1 DEF Take
  <2>3. t.rows = IF got + rows >= start + n THEN Span(start, n) ELSE Span(start, got + rows - start)
    <3>1. CASE got <= start
      <4>1. s.rows = <<>> /\ got + from = start
        BY <1>3, <3>1 DEF Sliced, Larger
      <4>2. Larger(0, to - from) = IF got + rows >= start + n THEN n ELSE got + rows - start
        BY <1>3, <3>1 DEF Larger, Smaller
      <4>3. more = Span(start, Larger(0, to - from))
        BY <4>1
      <4>4. Larger(0, to - from) \in Nat
        BY <3>1, <1>3, <4>2
      <4> HIDE DEF from, to, more
      <4>5. <<>> \o more = more
        BY <4>3, <4>4, SpanType, ConcatEmptySeq
      <4> QED BY <4>1, <4>2, <4>3, <4>5
    <3>2. CASE ~ (got <= start)
      <4>1. s.rows = Span(start, got - start) /\ got < start + n
        BY <1>3, <3>2 DEF Sliced
      <4>2. from = 0 /\ Larger(0, to - from) = IF got + rows >= start + n THEN start + n - got ELSE rows
        BY <3>2, <4>1 DEF Larger, Smaller
      <4>3. more = Span(start + (got - start), Larger(0, to - from))
        BY <4>2
      <4>4. Larger(0, to - from) \in Nat /\ got - start \in Nat
        BY <3>2, <4>1, <4>2
      <4>5. s.rows \o more = Span(start, (got - start) + Larger(0, to - from))
        <5> DEFINE rest == Larger(0, to - from)
        <5>1. Span(start, got - start) \o Span(start + (got - start), rest) = Span(start, (got - start) + rest)
          <6> HIDE DEF rest
          <6> QED BY <4>4, SpanConcat, ZenonT(30) DEF rest
        <5> HIDE DEF more
        <5> QED BY <4>1, <4>3, <5>1
      <4>6. (got - start) + Larger(0, to - from)
               = IF got + rows >= start + n THEN n ELSE got + rows - start
        BY <3>2, <4>2
      <4> HIDE DEF from, to, more
      <4> QED BY <4>5, <4>6
    <3> QED BY <3>1, <3>2
  <2>4. t.got = got + rows /\ t.done = (got + rows >= start + n)
    OBVIOUS
  <2> HIDE DEF t
  <2>5. CASE got + rows >= start + n
    BY <2>2, <2>3, <2>4, <2>5 DEF Sliced
  <2>6. CASE ~ (got + rows >= start + n)
    <3>1. ~ t.done /\ t.rows = Span(start, got + rows - start) /\ t.got = got + rows
      BY <2>3, <2>4, <2>6
    <3>2. got + rows < start + n /\ ~ (got + rows <= start)
      BY <1>3, <2>6
    <3>3. Sliced(t, got + rows, start, n)
      BY ONLY <3>1, <3>2 DEF Sliced
    <3> QED BY <2>2, <3>3
  <2> QED BY <2>5, <2>6
<1> QED BY <1>1, <1>2, <1>3

(* n rows from start on, of batches that have so many, are that span.      *)
LEMMA TakeIsSpan ==
    ASSUME NEW start \in Nat, NEW n \in Nat, NEW total \in Nat, start + n <= total,
           NEW b, Cut(b, total)
    PROVE  TakeOf(b, start, n) = Span(start, n)
<1> DEFINE m == Len(b)
<1>1. b \in Seq(Nat) /\ m \in Nat
  BY DEF Cut
<1>2. PICK p : AddsUp(p, b, total)
  BY DEF Cut
<1>3. PICK r \in [0 .. m -> Slices] : TakeRun(r, b, start, n) /\ TakeOf(b, start, n) = r[m].rows
  BY <1>1, TakeRuns
<1>4. /\ p[0] = 0 /\ p[m] = total
      /\ \A k \in 0 .. m : p[k] \in Nat
      /\ \A k \in 1 .. m : p[k] = p[k - 1] + b[k] /\ b[k] \in Nat
  <2>1. \A k \in 1 .. m : b[k] \in Nat
    BY <1>1
  <2>2. AddsUp(p, b, total) /\ m = Len(b)
    BY <1>2
  <2> HIDE DEF m
  <2> QED BY <1>1, <2>1, <2>2 DEF AddsUp
<1>5. r[0] = TakeStart /\ \A k \in 1 .. m : r[k] = Take(start, n, r[k - 1], b[k])
  BY <1>3 DEF TakeRun
<1> HIDE DEF m
<1> DEFINE N == {k \in Nat : k <= m => Sliced(r[k], p[k], start, n)}
<1>6. 0 \in N
  BY <1>4, <1>5 DEF Sliced, TakeStart
<1>7. ASSUME NEW j \in Nat, j \in N PROVE j + 1 \in N
  <2> SUFFICES ASSUME j + 1 <= m PROVE Sliced(r[j + 1], p[j + 1], start, n)
    OBVIOUS
  <2>1. j + 1 \in 1 .. m /\ (j + 1) - 1 = j /\ j \in 0 .. m /\ Sliced(r[j], p[j], start, n)
    BY <1>1, <1>7
  <2> HIDE DEF N
  <2>2. r[j] \in Slices /\ p[j] \in Nat /\ b[j + 1] \in Nat
    BY <1>3, <1>4, <2>1
  <2>3. Sliced(Take(start, n, r[j], b[j + 1]), p[j] + b[j + 1], start, n)
    BY <2>1, <2>2, TakeSlices
  <2> QED BY <1>4, <1>5, <2>1, <2>3
<1>8. Sliced(r[m], total, start, n)
  <2>1. \A k \in Nat : k \in N
    <3> HIDE DEF N
    <3> QED BY <1>6, <1>7, NatSetInduction
  <2> QED BY <1>1, <1>4, <2>1
<1>9. r[m].rows = Span(start, n)
  <2>1. CASE r[m].done
    BY <1>8, <2>1 DEF Sliced
  <2>2. CASE ~ r[m].done
    <3>1. n = 0 /\ r[m].rows = <<>>
      BY <1>8, <2>2 DEF Sliced
    <3> QED BY <3>1, SpanEmpty
  <2> QED BY <2>1, <2>2
<1> QED BY <1>3, <1>9

-----------------------------------------------------------------------------
(* The files of a run.                                                     *)

(* The files of the baseline and k appended batches. *)
BaseSlice     == Span(0, BaselineRows)
BatchSlice(k) == Span(BaselineRows + k * AppendRows, AppendRows)
Files(k)      == [j \in 1 .. k + 1 |-> IF j = 1 THEN BaseSlice ELSE BatchSlice(j - 2)]
Batches(k)    == [j \in 1 .. k |-> BatchSlice(j - 1)]

(* The inductive invariant: what is on disk at each step, what has been    *)
(* measured of it, and what is left to remove. *)
Early       == {"write_lance", "create_iceberg", "write_iceberg"}
Appending   == {"append_lance", "append_iceberg"}
Uncompacted == {"count", "scan", "compact_lance"}
Compacting  == {"compact_iceberg", "count_post", "scan_post"}

Counts  == [lance : Int, iceberg : Int]
Records == [pre : Counts, pre_scan : Counts, post : Counts, post_scan : Counts]

Typed ==
    /\ lance \in [RunIds -> Seq(Seq(Nat))] /\ iceberg \in Seq(Seq(Nat))
    /\ exists \in BOOLEAN /\ staging \subseteq RunIds
    /\ rid \in RunIds /\ keep \in BOOLEAN /\ raised \in BOOLEAN /\ warned \in BOOLEAN
    /\ out_rec \in Records /\ i \in Nat
    /\ pc \in Early \cup Appending \cup Uncompacted \cup Compacting \cup {"drop", "rm", "save", "end"}

Loaded == pc # "end" => Cut(all_batches, n_required)

Whole(files) ==
    /\ files \in Seq(Seq(Nat)) /\ Len(files) \in 1 .. NAppends + 1
    /\ FlattenSeq(files) = Span(0, n_required)

Tables ==
    /\ pc \in Early \cup {"end"} => i = 0
    /\ pc \in {"create_iceberg", "write_iceberg"} => lance[rid] = Files(0)
    /\ pc = "write_iceberg" => iceberg = <<>>
    /\ pc \in Appending =>
         /\ i < NAppends /\ iceberg = Files(i)
         /\ lance[rid] = IF pc = "append_lance" THEN Files(i) ELSE Files(i + 1)
    /\ pc \in Uncompacted => lance[rid] = Files(NAppends) /\ iceberg = Files(NAppends)
    /\ pc \in Compacting  => Whole(lance[rid]) /\ Whole(iceberg)

Counted(o)     == o.pre = [lance |-> NAppends + 1, iceberg |-> NAppends + 1]
Complete(scan) == \A f \in {"lance", "iceberg"} : scan[f] \in {-1, n_required}
Merged(o)      == \A f \in {"lance", "iceberg"} : o.post[f] \in 1 .. NAppends + 1
Comparable(o)  == Counted(o) /\ Complete(o.pre_scan) /\ Merged(o) /\ Complete(o.post_scan)

Measured ==
    /\ raised => pc \in {"drop", "rm"}
    /\ pc \in {"scan", "compact_lance"} \cup Compacting => Counted(out_rec)
    /\ pc \in {"compact_lance"} \cup Compacting => Complete(out_rec.pre_scan)
    /\ pc = "scan_post" => Merged(out_rec)
    /\ pc \in {"drop", "rm", "save"} /\ ~raised => Comparable(out_rec)
    /\ out # Nothing => Comparable(out)

Removed ==
    /\ pc = "rm" => ~keep
    /\ pc \in {"rm", "save"} /\ ~keep /\ ~warned => ~exists
    /\ pc = "save" \/ (pc = "end" /\ runs > 0) =>
         (~keep /\ ~warned => lance[rid] = <<>> /\ ~exists /\ rid \notin staging)

(* The batches that may still lie in /tmp: those not yet handed over.      *)
Handed ==
    /\ local \subseteq 0 .. NAppends
    /\ pc \in Appending => local \subseteq i + 1 .. NAppends
    /\ PastAppends /\ ~raised => local = {}

FilesInv == Typed /\ Loaded /\ Tables /\ Measured /\ Removed /\ Handed

-----------------------------------------------------------------------------
(* What the slices are.                                                    *)

(* Every product of numbers is one, and one append more is AppendRows more.*)
LEMMA Products ==
    /\ BaselineRows \in Nat /\ AppendRows \in Nat /\ NAppends \in Nat
    /\ \A k \in Nat : k * AppendRows \in Nat /\ (k + 1) * AppendRows = k * AppendRows + AppendRows
    /\ 0 * AppendRows = 0
BY SmallFilesAssumption

(* The slices are sequences of rows.                                       *)
LEMMA SliceTypes ==
    /\ BaseSlice \in Seq(Nat)
    /\ \A k \in Nat : BatchSlice(k) \in Seq(Nat)
<1>1. \A k \in Nat : BaselineRows + k * AppendRows \in Nat
  BY Products
<1> QED BY <1>1, Products, SpanType DEF BaseSlice, BatchSlice

(* No append goes beyond the rows required.                                *)
LEMMA WithinRequired ==
    ASSUME NEW k \in Nat, k < NAppends
    PROVE  BaselineRows + k * AppendRows + AppendRows <= n_required
<1>1. NAppends - (k + 1) \in Nat
  BY Products
<1>2. (NAppends - (k + 1)) * AppendRows \in Nat
  BY <1>1, Products
<1>3. NAppends * AppendRows = (NAppends - (k + 1)) * AppendRows + (k * AppendRows + AppendRows)
  BY Products
<1> QED BY <1>2, <1>3, Products DEF n_required

(* Whatever the batches, the tables cut out of them are these slices.      *)
LEMMA TablesAreSlices ==
    ASSUME Cut(all_batches, n_required)
    PROVE  /\ baseline_tbl = BaseSlice
           /\ \A k \in Nat : k < NAppends => batch_tbl(k) = BatchSlice(k)
<1>1. \A start, n : take_rows(start, n) = TakeOf(all_batches, start, n)
  BY DEF take_rows, TakeOf, TakeStart
<1>2. n_required \in Nat /\ 0 + BaselineRows <= n_required /\ 0 \in Nat
  BY RequiredType, Products DEF n_required
<1>3. baseline_tbl = BaseSlice
  BY <1>1, <1>2, Products, TakeIsSpan DEF baseline_tbl, BaseSlice
<1>4. ASSUME NEW k \in Nat, k < NAppends PROVE batch_tbl(k) = BatchSlice(k)
  <2> DEFINE start == BaselineRows + k * AppendRows
  <2>1. start \in Nat /\ start + AppendRows <= n_required
    BY <1>4, Products, WithinRequired
  <2>2. batch_tbl(k) = TakeOf(all_batches, start, AppendRows)
    BY <1>1 DEF batch_tbl
  <2>3. BatchSlice(k) = Span(start, AppendRows)
    BY DEF BatchSlice
  <2> HIDE DEF start
  <2> QED BY <1>2, <2>1, <2>2, <2>3, Products, TakeIsSpan
<1> QED BY <1>3, <1>4

(* The files of one append more are those and its slice.                   *)
LEMMA FilesGrow ==
    /\ Files(0) = <<BaseSlice>>
    /\ \A k \in Nat : /\ Files(k) \in Seq(Seq(Nat)) /\ Len(Files(k)) = k + 1
                     /\ Append(Files(k), BatchSlice(k)) = Files(k + 1)
<1>1. ASSUME NEW k \in Nat
      PROVE  /\ Files(k) \in Seq(Seq(Nat)) /\ Len(Files(k)) = k + 1
             /\ \A j \in 1 .. k + 1 : Files(k)[j] = IF j = 1 THEN BaseSlice ELSE BatchSlice(j - 2)
  <2>1. ASSUME NEW j \in 1 .. k + 1
        PROVE  (IF j = 1 THEN BaseSlice ELSE BatchSlice(j - 2)) \in Seq(Nat)
    <3>1. j # 1 => j - 2 \in Nat
      OBVIOUS
    <3> QED BY <3>1, SliceTypes
  <2>2. Files(k) \in [1 .. k + 1 -> Seq(Nat)]
    BY <2>1 DEF Files
  <2>3. k + 1 \in Nat
    OBVIOUS
  <2>4. Files(k) \in Seq(Seq(Nat)) /\ Len(Files(k)) = k + 1
    BY <2>2, <2>3
  <2> QED BY <2>4 DEF Files
<1>2. Files(0) = <<BaseSlice>>
  <2>1. <<BaseSlice>> \in Seq(Seq(Nat)) /\ Len(<<BaseSlice>>) = 1 /\ <<BaseSlice>>[1] = BaseSlice
    BY SliceTypes
  <2>2. Files(0) \in Seq(Seq(Nat)) /\ Len(Files(0)) = 1 /\ Files(0)[1] = BaseSlice
    <3>1. 0 \in Nat /\ 0 + 1 = 1 /\ 1 \in 1 .. 0 + 1
      OBVIOUS
    <3> QED BY <1>1, <3>1
  <2>3. \A j \in 1 .. 1 : j = 1
    OBVIOUS
  <2> QED BY <2>1, <2>2, <2>3, SeqEqual
<1>3. ASSUME NEW k \in Nat PROVE Append(Files(k), BatchSlice(k)) = Files(k + 1)
  <2> DEFINE s == Append(Files(k), BatchSlice(k))
             u == Files(k + 1)
             f == Files(k)
             x == BatchSlice(k)
  <2>0. f \in Seq(Seq(Nat)) /\ Len(f) = k + 1 /\ x \in Seq(Nat) /\ s = Append(f, x)
    BY <1>1, SliceTypes
  <2>1. /\ s \in Seq(Seq(Nat)) /\ Len(s) = k + 2 /\ s[k + 2] = BatchSlice(k)
        /\ \A j \in 1 .. k + 1 : s[j] = Files(k)[j]
    <3> HIDE DEF s, f, x
    <3>1. s \in Seq(Seq(Nat)) /\ Len(s) = Len(f) + 1 /\ s[Len(f) + 1] = x
          /\ \A j \in 1 .. Len(f) : s[j] = f[j]
      BY <2>0, AppendProperties
    <3> QED BY <2>0, <3>1 DEF f, x
  <2>2. /\ u \in Seq(Seq(Nat)) /\ Len(u) = k + 2
        /\ \A j \in 1 .. k + 2 : u[j] = IF j = 1 THEN BaseSlice ELSE BatchSlice(j - 2)
    BY <1>1
  <2> HIDE DEF s, u
  <2>3. ASSUME NEW j \in 1 .. k + 2 PROVE s[j] = u[j]
    <3>1. CASE j = k + 2
      BY <2>1, <2>2, <3>1
    <3>2. CASE j # k + 2
      <4>1. j \in 1 .. k + 1
        BY <3>2
      <4>2. s[j] = Files(k)[j] /\ u[j] = IF j = 1 THEN BaseSlice ELSE BatchSlice(j - 2)
        BY <2>1, <2>2, <4>1
      <4>3. Files(k)[j] = IF j = 1 THEN BaseSlice ELSE BatchSlice(j - 2)
        BY <1>1, <4>1
      <4> QED BY <4>2, <4>3
    <3> QED BY <3>1, <3>2
  <2>4. s = u
    BY <2>1, <2>2, <2>3, SeqEqual
  <2> QED BY <2>4 DEF s, u
<1> QED BY <1>1, <1>2, <1>3

(* The files hold the first rows of the source, in order.                  *)
LEMMA FilesFlat ==
    \A k \in Nat : FlattenSeq(Files(k)) = Span(0, BaselineRows + k * AppendRows)
<1> DEFINE N == {k \in Nat : FlattenSeq(Files(k)) = Span(0, BaselineRows + k * AppendRows)}
<1>1. 0 \in N
  <2>1. FlattenSeq(<<BaseSlice>>) = BaseSlice
    BY SliceTypes, FlatOne
  <2>2. BaselineRows + 0 * AppendRows = BaselineRows
    BY Products
  <2> QED BY <2>1, <2>2, FilesGrow DEF BaseSlice
<1>2. ASSUME NEW k \in Nat, k \in N PROVE k + 1 \in N
  <2> DEFINE m == BaselineRows + k * AppendRows
  <2>1. FlattenSeq(Files(k)) = Span(0, m)
    BY <1>2
  <2>2. m \in Nat /\ 0 + m = m /\ m + AppendRows = BaselineRows + (k + 1) * AppendRows
    BY Products
  <2>3. FlattenSeq(Files(k + 1)) = Span(0, m) \o BatchSlice(k)
    BY <2>1, FilesGrow, SliceTypes, FlatAppend
  <2>4. BatchSlice(k) = Span(m, AppendRows)
    BY DEF BatchSlice
  <2> HIDE DEF m
  <2>5. Span(0, m) \o Span(0 + m, AppendRows) = Span(0, m + AppendRows)
    <3>1. 0 \in Nat /\ m \in Nat /\ AppendRows \in Nat
      BY <2>2, Products
    <3> QED BY <3>1, SpanConcat
  <2>6. FlattenSeq(Files(k + 1)) = Span(0, BaselineRows + (k + 1) * AppendRows)
    BY <2>2, <2>3, <2>4, <2>5
  <2> QED BY <2>6
<1> HIDE DEF N
<1>3. \A k \in Nat : k \in N
  BY <1>1, <1>2, NatSetInduction
<1> QED BY <1>3 DEF N

(* So do the appended batches after those of the baseline.                 *)
LEMMA BatchesFlat ==
    \A k \in Nat : FlattenSeq(Batches(k)) = Span(BaselineRows, k * AppendRows)
<1>1. ASSUME NEW k \in Nat
      PROVE  /\ Batches(k) \in Seq(Seq(Nat)) /\ Len(Batches(k)) = k
             /\ \A j \in 1 .. k : Batches(k)[j] = BatchSlice(j - 1)
  <2>1. ASSUME NEW j \in 1 .. k PROVE BatchSlice(j - 1) \in Seq(Nat)
    <3>1. j - 1 \in Nat
      OBVIOUS
    <3> QED BY <3>1, SliceTypes
  <2>2. Batches(k) \in [1 .. k -> Seq(Nat)]
    BY <2>1 DEF Batches
  <2>3. Batches(k) \in Seq(Seq(Nat)) /\ Len(Batches(k)) = k
    BY <2>2
  <2> QED BY <2>3 DEF Batches
<1>2. ASSUME NEW k \in Nat PROVE Append(Batches(k), BatchSlice(k)) = Batches(k + 1)
  <2> DEFINE s == Append(Batches(k), BatchSlice(k))
             u == Batches(k + 1)
             f == Batches(k)
             x == BatchSlice(k)
  <2>0. f \in Seq(Seq(Nat)) /\ Len(f) = k /\ x \in Seq(Nat) /\ s = Append(f, x)
    BY <1>1, SliceTypes
  <2>1. /\ s \in Seq(Seq(Nat)) /\ Len(s) = k + 1 /\ s[k + 1] = BatchSlice(k)
        /\ \A j \in 1 .. k : s[j] = Batches(k)[j]
    <3> HIDE DEF s, f, x
    <3>1. s \in Seq(Seq(Nat)) /\ Len(s) = Len(f) + 1 /\ s[Len(f) + 1] = x
          /\ \A j \in 1 .. Len(f) : s[j] = f[j]
      BY <2>0, AppendProperties
    <3> QED BY <2>0, <3>1 DEF f, x
  <2>2. /\ u \in Seq(Seq(Nat)) /\ Len(u) = k + 1
        /\ \A j \in 1 .. k + 1 : u[j] = BatchSlice(j - 1)
    BY <1>1
  <2> HIDE DEF s, u
  <2>3. ASSUME NEW j \in 1 .. k + 1 PROVE s[j] = u[j]
    <3>1. CASE j = k + 1
      BY <2>1, <2>2, <3>1
    <3>2. CASE j # k + 1
      <4>1. j \in 1 .. k
        BY <3>2
      <4>2. s[j] = Batches(k)[j] /\ u[j] = BatchSlice(j - 1)
        BY <2>1, <2>2, <4>1
      <4>3. Batches(k)[j] = BatchSlice(j - 1)
        BY <1>1, <4>1
      <4> QED BY <4>2, <4>3
    <3> QED BY <3>1, <3>2
  <2>4. s = u
    BY <2>1, <2>2, <2>3, SeqEqual
  <2> QED BY <2>4 DEF s, u
<1> DEFINE N == {k \in Nat : FlattenSeq(Batches(k)) = Span(BaselineRows, k * AppendRows)}
<1>3. 0 \in N
  <2>1. Batches(0) = <<>>
    BY <1>1, EmptySeq
  <2>2. Span(BaselineRows, 0 * AppendRows) = <<>>
    BY Products, SpanEmpty
  <2> QED BY <2>1, <2>2, FlatEmpty
<1>4. ASSUME NEW k \in Nat, k \in N PROVE k + 1 \in N
  <2>1. FlattenSeq(Batches(k)) = Span(BaselineRows, k * AppendRows)
    BY <1>4
  <2>2. FlattenSeq(Batches(k + 1)) = Span(BaselineRows, k * AppendRows) \o BatchSlice(k)
    BY <1>1, <1>2, <2>1, SliceTypes, FlatAppend
  <2>3. Span(BaselineRows, k * AppendRows) \o BatchSlice(k)
           = Span(BaselineRows, k * AppendRows + AppendRows)
    <3> DEFINE m == k * AppendRows
    <3>1. m \in Nat /\ BaselineRows \in Nat /\ AppendRows \in Nat
      BY Products
    <3>2. BatchSlice(k) = Span(BaselineRows + m, AppendRows)
      BY DEF BatchSlice
    <3> HIDE DEF m
    <3>3. Span(BaselineRows, m) \o Span(BaselineRows + m, AppendRows) = Span(BaselineRows, m + AppendRows)
      BY <3>1, SpanConcat
    <3> QED BY <3>2, <3>3 DEF m
  <2>4. (k + 1) * AppendRows = k * AppendRows + AppendRows
    BY Products
  <2>5. FlattenSeq(Batches(k + 1)) = Span(BaselineRows, (k + 1) * AppendRows)
    BY <2>2, <2>3, <2>4
  <2> QED BY <2>5
<1> HIDE DEF N
<1>5. \A k \in Nat : k \in N
  BY <1>3, <1>4, NatSetInduction
<1> QED BY <1>5 DEF N

-----------------------------------------------------------------------------
(* The invariant.                                                          *)

(* The files of all appends are what is required.                          *)
LEMMA AllFilesAreWhole == Whole(Files(NAppends))
<1>1. NAppends \in Nat
  BY Products
<1>2. FlattenSeq(Files(NAppends)) = Span(0, n_required)
  BY <1>1, FilesFlat DEF n_required
<1>3. Files(NAppends) \in Seq(Seq(Nat)) /\ Len(Files(NAppends)) = NAppends + 1
  BY <1>1, FilesGrow
<1> QED BY <1>1, <1>2, <1>3 DEF Whole

(* What is required is n_required rows, compacted or not.                  *)
LEMMA CompactedIsWhole ==
    ASSUME NEW files, Whole(files)
    PROVE  /\ Len(FlattenSeq(files)) = n_required
           /\ \A c \in Compacted(files) : Whole(c)
<1>1. files \in Seq(Seq(Nat)) /\ FlattenSeq(files) = Span(0, n_required)
  BY DEF Whole
<1>2. Len(Span(0, n_required)) = n_required /\ Span(0, n_required) \in Seq(Nat)
  BY RequiredType, SpanType
<1> DEFINE s == Span(0, n_required)
<1>3. FlattenSeq(<<s>>) = s
  <2> HIDE DEF s
  <2> QED BY <1>2, FlatOne DEF s
<1>4. <<s>> \in Seq(Seq(Nat)) /\ Len(<<s>>) = 1
  <2> HIDE DEF s
  <2>1. s \in Seq(Nat)
    BY <1>2 DEF s
  <2> QED BY <2>1
<1>5. 1 \in 1 .. NAppends + 1
  BY Products
<1>6. Whole(<<s>>)
  BY <1>3, <1>4, <1>5 DEF Whole
<1> QED BY <1>1, <1>2, <1>6 DEF Compacted

(* However the reader cuts the source, what is loaded are batches of       *)
(* n_required rows.                                                        *)
LEMMA LoadsType == \A batches \in Loads : Cut(batches, n_required)
<1>1. \A k \in 0 .. SourceRows : \A sizes \in [1 .. k -> 1 .. AppendRows] : sizes \in Seq(Nat)
  <2> TAKE k \in 0 .. SourceRows
  <2> TAKE sizes \in [1 .. k -> 1 .. AppendRows]
  <2>1. k \in Nat /\ sizes \in [1 .. k -> Nat]
    BY SmallFilesAssumption
  <2> QED BY <2>1
<1> SUFFICES ASSUME NEW sizes \in Seq(Nat), NEW total, total = FoldLeft(+, 0, sizes), total = SourceRows
             PROVE  Cut(load_source_batches(sizes), n_required)
  BY <1>1 DEF Loads
<1>2. \E p : AddsUp(p, sizes, SourceRows)
  BY SumRuns
<1> QED BY <1>2, LoadsAreCut

(* The invariant holds at first.                                           *)
LEMMA FilesInit == Init => FilesInv
<1> SUFFICES ASSUME Init PROVE FilesInv
  OBVIOUS
<1>1. <<>> \in Seq(Seq(Nat)) /\ [r \in RunIds |-> <<>>] \in [RunIds -> Seq(Seq(Nat))]
  OBVIOUS
<1>2. Nothing \in Records
  BY DEF Nothing, NoCounts, Records, Counts
<1>3. Typed
  BY <1>1, <1>2 DEF Init, Typed
<1>4. Loaded /\ Tables /\ Measured /\ Removed /\ Handed
  BY DEF Init, Loaded, Tables, Measured, Removed, Handed, PastAppends, Early, Appending, Uncompacted, Compacting
<1> QED BY <1>3, <1>4 DEF FilesInv

(* While the script runs, its tables are the slices of the source.         *)
LEMMA TablesTyped ==
    ASSUME Loaded, pc # "end"
    PROVE  /\ baseline_tbl = BaseSlice /\ baseline_tbl \in Seq(Nat)
           /\ \A k \in Nat : k < NAppends => batch_tbl(k) = BatchSlice(k) /\ batch_tbl(k) \in Seq(Nat)
<1>1. Cut(all_batches, n_required)
  BY DEF Loaded
<1> QED BY <1>1, TablesAreSlices, SliceTypes

(* Files are compacted into files.                                         *)
LEMMA CompactedType ==
    ASSUME NEW files \in Seq(Seq(Nat))
    PROVE  \A c \in Compacted(files) : c \in Seq(Seq(Nat))
<1>1. FlattenSeq(files) \in Seq(Nat)
  BY FlatType
<1>2. \A s \in Seq(Nat) : <<s>> \in Seq(Seq(Nat))
  OBVIOUS
<1> QED BY <1>1, <1>2 DEF Compacted

(* What the script ends with.                                              *)
LEMMA EndsType ==
    ASSUME Ends
    PROVE  i' \in Nat /\ out_rec' \in Records /\ raised' \in BOOLEAN
<1>1. Nothing \in Records
  BY DEF Nothing, NoCounts, Records, Counts
<1>2. i' = 0 /\ out_rec' = Nothing /\ raised' = FALSE
  BY DEF Ends
<1> QED BY <1>1, <1>2

(* Counts and scans are recorded as such.                                  *)
LEMMA RecordsType ==
    ASSUME Typed
    PROVE  /\ Count \in Counts /\ Scans \subseteq Counts
           /\ \A c \in Counts : /\ [out_rec EXCEPT !.pre = c] \in Records
                               /\ [out_rec EXCEPT !.pre_scan = c] \in Records
                               /\ [out_rec EXCEPT !.post = c] \in Records
                               /\ [out_rec EXCEPT !.post_scan = c] \in Records
<1>1. lance[rid] \in Seq(Seq(Nat)) /\ iceberg \in Seq(Seq(Nat)) /\ out_rec \in Records
  BY DEF Typed
<1>2. FlattenSeq(lance[rid]) \in Seq(Nat) /\ FlattenSeq(iceberg) \in Seq(Nat)
  BY <1>1, FlatType
<1>3. /\ Len(FlattenSeq(lance[rid])) \in Int /\ Len(FlattenSeq(iceberg)) \in Int
      /\ Len(lance[rid]) \in Int /\ Len(iceberg) \in Int
  BY <1>1, <1>2
<1>4. Count \in Counts /\ Scans \subseteq Counts
  BY <1>3 DEF Count, Scans, Counts
<1> QED BY <1>1, <1>4 DEF Records

(* Every step keeps the types.                                             *)
LEMMA TypedStep == FilesInv /\ [Next]_vars => Typed'
<1> SUFFICES ASSUME FilesInv, [Next]_vars PROVE Typed'
  OBVIOUS
<1> USE DEF Early, Appending, Uncompacted, Compacting
<1>1. Typed /\ Loaded /\ Tables
  BY DEF FilesInv
<1>2. <<>> \in Seq(Seq(Nat)) /\ \A s \in Seq(Nat) : <<s>> \in Seq(Seq(Nat))
  OBVIOUS
<1>3. \A fs \in Seq(Seq(Nat)) : \A s \in Seq(Nat) : Append(fs, s) \in Seq(Seq(Nat))
  OBVIOUS
<1>4. \A s \in Seq(Nat) : \A fs \in Seq(Seq(Nat)) : <<s>> \o fs \in Seq(Seq(Nat))
  OBVIOUS
<1>5. lance[rid] \in Seq(Seq(Nat)) /\ iceberg \in Seq(Seq(Nat)) /\ rid \in RunIds
  BY <1>1 DEF Typed
<1>6. \A fs \in Seq(Seq(Nat)) : [lance EXCEPT ![rid] = fs] \in [RunIds -> Seq(Seq(Nat))]
  BY <1>1 DEF Typed
<1>7. CASE Start
  BY <1>1, <1>2, <1>7 DEF Start, Typed
<1>8. CASE WriteLance
  <2>1. <<baseline_tbl>> \in Seq(Seq(Nat))
    BY <1>1, <1>2, <1>8, TablesTyped DEF WriteLance
  <2> QED BY <1>1, <1>6, <1>8, <2>1 DEF WriteLance, Goto, args, Typed
<1>9. CASE iceberg_create_empty
  BY <1>1, <1>2, <1>9 DEF iceberg_create_empty, Goto, args, Typed
<1>10. CASE WriteIceberg
  <2>1. <<baseline_tbl>> \o iceberg \in Seq(Seq(Nat))
    BY <1>1, <1>4, <1>5, <1>10, TablesTyped DEF WriteIceberg
  <2> QED BY <1>1, <1>10, <2>1 DEF WriteIceberg, Goto, args, Typed
<1>11. CASE AppendLance
  <2>1. batch_tbl(i) \in Seq(Nat)
    BY <1>1, <1>11, TablesTyped DEF AppendLance, Tables, Typed
  <2>2. Append(lance[rid], batch_tbl(i)) \in Seq(Seq(Nat))
    BY <1>3, <1>5, <2>1
  <2>3. lance' = [lance EXCEPT ![rid] = Append(lance[rid], batch_tbl(i))]
    BY <1>11 DEF AppendLance
  <2> QED BY <1>1, <1>6, <1>11, <2>2, <2>3 DEF AppendLance, Goto, args, Typed
<1>12. CASE AppendIceberg
  <2>1. batch_tbl(i) \in Seq(Nat)
    BY <1>1, <1>12, TablesTyped DEF AppendIceberg, Tables, Typed
  <2>2. Append(iceberg, batch_tbl(i)) \in Seq(Seq(Nat))
    BY <1>3, <1>5, <2>1
  <2> QED BY <1>1, <1>12, <2>2 DEF AppendIceberg, Goto, args, Typed
<1>13. CASE CountPre
  BY <1>1, <1>13, RecordsType DEF CountPre, Goto, tables, args, Typed
<1>14. CASE ScanPre
  BY <1>1, <1>14, RecordsType DEF ScanPre, Goto, tables, args, Typed
<1>15. CASE CompactLance
  <2>1. PICK files \in Compacted(lance[rid]) : lance' = [lance EXCEPT ![rid] = files]
    BY <1>15 DEF CompactLance
  <2>2. files \in Seq(Seq(Nat))
    BY <1>5, <2>1, CompactedType
  <2> QED BY <1>1, <1>6, <1>15, <2>1, <2>2 DEF CompactLance, Goto, args, Typed
<1>16. CASE CompactIceberg
  <2>1. iceberg' \in Seq(Seq(Nat))
    BY <1>5, <1>16, CompactedType DEF CompactIceberg
  <2> QED BY <1>1, <1>16, <2>1 DEF CompactIceberg, Goto, args, Typed
<1>17. CASE CountPost
  BY <1>1, <1>17, RecordsType DEF CountPost, Goto, tables, args, Typed
<1>18. CASE ScanPost
  BY <1>1, <1>18, RecordsType DEF ScanPost, Goto, tables, args, Typed
<1>19. CASE Raise
  BY <1>1, <1>19 DEF Raise, tables, args, Typed
<1>20. CASE Drop
  <2>1. /\ pc' \in {"save", "rm", "end"} /\ i' \in Nat /\ out_rec' \in Records /\ raised' \in BOOLEAN
        /\ exists' \in BOOLEAN /\ iceberg' \in Seq(Seq(Nat)) /\ warned' \in BOOLEAN
        /\ UNCHANGED <<lance, staging, args>>
    BY <1>1, <1>2, <1>20, EndsType DEF Drop, Finally, Ends, Typed
  <2> QED BY <1>1, <2>1 DEF args, Typed
<1>21. CASE RemovePrefixes
  <2>1. /\ pc' \in {"save", "end"} /\ i' \in Nat /\ out_rec' \in Records /\ raised' \in BOOLEAN
        /\ warned' \in BOOLEAN /\ UNCHANGED <<iceberg, exists, args>>
    BY <1>1, <1>21, EndsType DEF RemovePrefixes, Finally, Ends, Typed
  <2>2. lance' \in [RunIds -> Seq(Seq(Nat))] /\ staging' \subseteq RunIds
    BY <1>1, <1>2, <1>6, <1>21 DEF RemovePrefixes, Typed
  <2> QED BY <1>1, <2>1, <2>2 DEF args, Typed
<1>22. CASE Save
  <2>1. Ends
    BY <1>22 DEF Save
  <2> QED BY <1>1, <1>22, <2>1, EndsType DEF Save, Ends, tables, args, Typed
<1>23. CASE Kill
  <2>1. Ends
    BY <1>23 DEF Kill
  <2> QED BY <1>1, <1>23, <2>1, EndsType DEF Kill, Ends, tables, args, Typed
<1>24. CASE WriteLocal \/ UNCHANGED vars
  BY <1>1, <1>24 DEF WriteLocal, vars, tables, args, Typed
<1> QED BY <1>7, <1>8, <1>9, <1>10, <1>11, <1>12, <1>13, <1>14, <1>15, <1>16, <1>17, <1>18,
           <1>19, <1>20, <1>21, <1>22, <1>23, <1>24 DEF Next

(* The batches are loaded at the start, and kept to the end.               *)
LEMMA LoadedStep == FilesInv /\ [Next]_vars => Loaded'
<1> SUFFICES ASSUME FilesInv, [Next]_vars PROVE Loaded'
  OBVIOUS
<1>1. n_required' = n_required
  BY DEF n_required
<1>2. CASE Start
  <2>1. pc' # "end" => all_batches' \in Loads
    BY <1>2 DEF Start
  <2> QED BY <1>1, <2>1, LoadsType DEF Loaded
<1>3. CASE ~Start
  <2>1. pc' = "end" \/ (pc # "end" /\ all_batches' = all_batches)
    BY <1>3 DEF FilesInv, Typed, Next, vars, args, WriteLance, iceberg_create_empty, WriteLocal, HandsOver,
                WriteIceberg,
                AppendLance, AppendIceberg, CountPre, ScanPre, CompactLance, CompactIceberg,
                CountPost, ScanPost, Raise, InTry, Drop, RemovePrefixes, Save, Kill, Goto, Finally, Ends
  <2> QED BY <1>1, <2>1 DEF FilesInv, Loaded
<1> QED BY <1>2, <1>3

(* Every step leaves on disk what the next one expects there.              *)
LEMMA TablesStep == FilesInv /\ [Next]_vars => Tables'
<1> SUFFICES ASSUME FilesInv, [Next]_vars PROVE Tables'
  OBVIOUS
<1> USE DEF Early, Appending, Uncompacted, Compacting
<1>1. Typed /\ Loaded /\ Tables
  BY DEF FilesInv
<1>2. /\ \A k : Files(k)' = Files(k)
      /\ \A files : Whole(files)' = Whole(files)
  BY DEF Files, BaseSlice, BatchSlice, Span, Whole, n_required
<1>3. i \in Nat /\ NAppends \in Nat /\ rid \in RunIds /\ lance \in [RunIds -> Seq(Seq(Nat))]
  BY <1>1, Products DEF Typed
<1>4. \A fs : [lance EXCEPT ![rid] = fs][rid] = fs
  BY <1>3
<1>5. CASE Start
  <2>1. pc' \in {"write_lance", "end"} /\ i' = 0
    BY <1>1, <1>5 DEF Start, Tables
  <2> QED BY <2>1 DEF Tables
<1>6. CASE WriteLance
  <2>1. lance'[rid] = <<baseline_tbl>> /\ pc' = "create_iceberg" /\ rid' = rid /\ pc # "end"
    BY <1>4, <1>6 DEF WriteLance, Goto, args
  <2>2. lance'[rid'] = Files(0)
    BY <1>1, <2>1, TablesTyped, FilesGrow
  <2>3. i' = 0
    BY <1>1, <1>6 DEF WriteLance, Tables
  <2> QED BY <1>2, <2>1, <2>2, <2>3 DEF Tables
<1>7. CASE iceberg_create_empty
  <2>1. /\ pc' = "write_iceberg" /\ rid' = rid /\ lance' = lance /\ iceberg' = <<>> /\ i' = 0
        /\ lance[rid] = Files(0)
    BY <1>1, <1>7 DEF iceberg_create_empty, Goto, args, Tables
  <2> QED BY <1>2, <2>1 DEF Tables
<1>8. CASE WriteIceberg
  <2>1. /\ pc' = IF NAppends = 0 THEN "count" ELSE "append_lance"
        /\ rid' = rid /\ lance' = lance /\ iceberg' = <<baseline_tbl>> \o iceberg /\ i' = 0
        /\ iceberg = <<>> /\ lance[rid] = Files(0) /\ pc # "end"
    BY <1>1, <1>8 DEF WriteIceberg, Goto, args, Tables
  <2>2. \A s \in Seq(Nat) : <<s>> \o <<>> = <<s>>
    OBVIOUS
  <2>3. iceberg' = Files(0)
    BY <1>1, <2>1, <2>2, TablesTyped, FilesGrow
  <2> QED BY <1>2, <1>3, <2>1, <2>3 DEF Tables
<1>9. CASE AppendLance
  <2>1. /\ pc' = "append_iceberg" /\ pc # "end" /\ rid' = rid /\ iceberg' = iceberg /\ i' = i
        /\ lance' = [lance EXCEPT ![rid] = Append(lance[rid], batch_tbl(i))]
    BY <1>9 DEF AppendLance, Goto, args
  <2>2. i < NAppends /\ iceberg = Files(i) /\ lance[rid] = Files(i)
    BY <1>1, <1>9 DEF AppendLance, Tables
  <2>3. lance'[rid] = Files(i + 1)
    BY <1>1, <1>3, <1>4, <2>1, <2>2, TablesTyped, FilesGrow
  <2> QED BY <1>2, <2>1, <2>2, <2>3 DEF Tables
<1>10. CASE AppendIceberg
  <2>1. /\ pc' = (IF i + 1 = NAppends THEN "count" ELSE "append_lance")
        /\ pc # "end" /\ rid' = rid /\ lance' = lance /\ i' = i + 1
        /\ iceberg' = Append(iceberg, batch_tbl(i))
    BY <1>10 DEF AppendIceberg, Goto, args
  <2>2. i < NAppends /\ iceberg = Files(i) /\ lance[rid] = Files(i + 1)
    BY <1>1, <1>10 DEF AppendIceberg, Tables
  <2>3. iceberg' = Files(i + 1)
    BY <1>1, <1>3, <2>1, <2>2, TablesTyped, FilesGrow
  <2> QED BY <1>2, <1>3, <2>1, <2>2, <2>3 DEF Tables
<1>11. CASE CountPre
  BY <1>1, <1>2, <1>11 DEF CountPre, Goto, tables, args, Tables
<1>12. CASE ScanPre
  BY <1>1, <1>2, <1>12 DEF ScanPre, Goto, tables, args, Tables
<1>13. CASE CompactLance
  <2>1. PICK files \in Compacted(lance[rid]) : lance' = [lance EXCEPT ![rid] = files]
    BY <1>13 DEF CompactLance
  <2>2. lance[rid] = Files(NAppends) /\ iceberg = Files(NAppends)
    BY <1>1, <1>13 DEF CompactLance, Tables
  <2>3. Whole(files) /\ Whole(iceberg)
    BY <2>1, <2>2, AllFilesAreWhole, CompactedIsWhole
  <2>4. pc' = "compact_iceberg" /\ rid' = rid /\ iceberg' = iceberg /\ lance'[rid] = files
    BY <1>4, <1>13, <2>1 DEF CompactLance, Goto, args
  <2> QED BY <1>2, <2>3, <2>4 DEF Tables
<1>14. CASE CompactIceberg
  <2>1. /\ pc' = "count_post" /\ rid' = rid /\ lance' = lance /\ iceberg' \in Compacted(iceberg)
        /\ Whole(lance[rid]) /\ Whole(iceberg)
    BY <1>1, <1>14 DEF CompactIceberg, Goto, args, Tables
  <2>2. Whole(iceberg')
    BY <2>1, CompactedIsWhole
  <2> QED BY <1>2, <2>1, <2>2 DEF Tables
<1>15. CASE CountPost
  BY <1>1, <1>2, <1>15 DEF CountPost, Goto, tables, args, Tables
<1>16. CASE ScanPost
  BY <1>16 DEF ScanPost, Goto, Tables
<1>17. CASE Raise
  BY <1>17 DEF Raise, Tables
<1>18. CASE Drop
  BY <1>18 DEF Drop, Finally, Ends, Tables
<1>19. CASE RemovePrefixes
  BY <1>19 DEF RemovePrefixes, Finally, Ends, Tables
<1>20. CASE Save
  BY <1>20 DEF Save, Ends, Tables
<1>21. CASE Kill
  BY <1>21 DEF Kill, Ends, Tables
<1>22. CASE WriteLocal \/ UNCHANGED vars
  BY <1>1, <1>2, <1>22 DEF WriteLocal, vars, tables, args, Tables
<1> QED BY <1>5, <1>6, <1>7, <1>8, <1>9, <1>10, <1>11, <1>12, <1>13, <1>14, <1>15, <1>16,
           <1>17, <1>18, <1>19, <1>20, <1>21, <1>22 DEF Next

(* Of whole tables, a scan that does not fail reads the rows required, and *)
(* there are no more files than were written.                              *)
LEMMA WholeMeasures ==
    ASSUME Whole(lance[rid]), Whole(iceberg)
    PROVE  /\ \A s \in Scans : Complete(s)
           /\ Count.lance \in 1 .. NAppends + 1 /\ Count.iceberg \in 1 .. NAppends + 1
<1>1. Len(FlattenSeq(lance[rid])) = n_required /\ Len(FlattenSeq(iceberg)) = n_required
  BY CompactedIsWhole
<1>2. Scans = [lance : {-1, n_required}, iceberg : {-1, n_required}]
  BY <1>1 DEF Scans
<1>3. Len(lance[rid]) \in 1 .. NAppends + 1 /\ Len(iceberg) \in 1 .. NAppends + 1
  BY DEF Whole
<1> QED BY <1>2, <1>3 DEF Complete, Count

(* Every step keeps what has been measured so far.                         *)
LEMMA MeasuredStep == FilesInv /\ [Next]_vars => Measured'
<1> SUFFICES ASSUME FilesInv, [Next]_vars PROVE Measured'
  OBVIOUS
<1> USE DEF Early, Appending, Uncompacted, Compacting
<1>1. Typed /\ Tables /\ Measured /\ out_rec \in Records /\ NAppends \in Nat
  BY Products DEF FilesInv, Typed
<1>2. \A o : /\ Counted(o)' = Counted(o) /\ Complete(o)' = Complete(o)
             /\ Merged(o)' = Merged(o) /\ Comparable(o)' = Comparable(o)
  BY DEF Counted, Complete, Merged, Comparable, n_required
<1>3. Nothing' = Nothing
  BY DEF Nothing, NoCounts
<1>4. CASE Start
  <2>1. pc' \in {"write_lance", "end"} /\ out' = out /\ raised' = raised /\ ~raised
    BY <1>1, <1>4 DEF Start, Measured
  <2> QED BY <1>1, <1>2, <1>3, <2>1 DEF Measured
<1>5. CASE \/ WriteLance \/ iceberg_create_empty \/ WriteIceberg \/ AppendLance \/ AppendIceberg
  <2>1. /\ pc \in Early \cup Appending
        /\ pc' \in {"create_iceberg", "write_iceberg", "append_lance", "append_iceberg", "count"}
        /\ out' = out /\ raised' = raised
    BY <1>5 DEF WriteLance, iceberg_create_empty, WriteIceberg, AppendLance, AppendIceberg, Goto
  <2>2. ~raised
    BY <1>1, <2>1 DEF Measured
  <2> QED BY <1>1, <1>2, <1>3, <2>1, <2>2 DEF Measured
<1>6. CASE CountPre
  <2>1. /\ pc = "count" /\ pc' = "scan" /\ out' = out /\ raised' = raised
        /\ out_rec' = [out_rec EXCEPT !.pre = Count]
    BY <1>6 DEF CountPre, Goto
  <2>2. lance[rid] = Files(NAppends) /\ iceberg = Files(NAppends) /\ ~raised
    BY <1>1, <2>1 DEF Tables, Measured
  <2>3. Count = [lance |-> NAppends + 1, iceberg |-> NAppends + 1]
    BY <1>1, <2>2, FilesGrow DEF Count
  <2>4. Counted(out_rec')
    BY <1>1, <2>1, <2>3 DEF Counted, Records
  <2> QED BY <1>1, <1>2, <1>3, <2>1, <2>2, <2>4 DEF Measured
<1>7. CASE ScanPre
  <2>1. PICK s \in Scans : out_rec' = [out_rec EXCEPT !.pre_scan = s]
    BY <1>7 DEF ScanPre
  <2>2. pc = "scan" /\ pc' = "compact_lance" /\ out' = out /\ raised' = raised
    BY <1>7 DEF ScanPre, Goto
  <2>3. lance[rid] = Files(NAppends) /\ iceberg = Files(NAppends) /\ ~raised /\ Counted(out_rec)
    BY <1>1, <2>2 DEF Tables, Measured
  <2>4. Complete(s)
    BY <2>3, AllFilesAreWhole, WholeMeasures
  <2>5. Counted(out_rec') /\ Complete(out_rec'.pre_scan)
    BY <1>1, <2>1, <2>3, <2>4 DEF Counted, Records
  <2> QED BY <1>1, <1>2, <1>3, <2>2, <2>3, <2>5 DEF Measured
<1>8. CASE CompactLance \/ CompactIceberg
  <2>1. /\ pc \in {"compact_lance", "compact_iceberg"} /\ pc' \in {"compact_iceberg", "count_post"}
        /\ out' = out /\ raised' = raised /\ out_rec' = out_rec
    BY <1>8 DEF CompactLance, CompactIceberg, Goto
  <2>2. ~raised /\ Counted(out_rec) /\ Complete(out_rec.pre_scan)
    BY <1>1, <2>1 DEF Measured
  <2> QED BY <1>1, <1>2, <1>3, <2>1, <2>2 DEF Measured
<1>9. CASE CountPost
  <2>1. /\ pc = "count_post" /\ pc' = "scan_post" /\ out' = out /\ raised' = raised
        /\ out_rec' = [out_rec EXCEPT !.post = Count]
    BY <1>9 DEF CountPost, Goto
  <2>2. /\ ~raised /\ Counted(out_rec) /\ Complete(out_rec.pre_scan)
        /\ Whole(lance[rid]) /\ Whole(iceberg)
    BY <1>1, <2>1 DEF Tables, Measured
  <2>3. Merged(out_rec')
    BY <1>1, <2>1, <2>2, WholeMeasures DEF Merged, Records
  <2>4. Counted(out_rec') /\ Complete(out_rec'.pre_scan)
    BY <1>1, <2>1, <2>2 DEF Counted, Records
  <2> QED BY <1>1, <1>2, <1>3, <2>1, <2>2, <2>3, <2>4 DEF Measured
<1>10. CASE ScanPost
  <2>1. PICK s \in Scans : out_rec' = [out_rec EXCEPT !.post_scan = s]
    BY <1>10 DEF ScanPost
  <2>2. pc = "scan_post" /\ pc' = "drop" /\ out' = out /\ raised' = raised
    BY <1>10 DEF ScanPost, Goto
  <2>3. /\ ~raised /\ Counted(out_rec) /\ Complete(out_rec.pre_scan) /\ Merged(out_rec)
        /\ Whole(lance[rid]) /\ Whole(iceberg)
    BY <1>1, <2>2 DEF Tables, Measured
  <2>4. Complete(s)
    BY <2>3, WholeMeasures
  <2>5. Comparable(out_rec')
    BY <1>1, <2>1, <2>3, <2>4 DEF Comparable, Counted, Merged, Records
  <2> QED BY <1>1, <1>2, <1>3, <2>2, <2>3, <2>5 DEF Measured
<1>11. CASE Raise
  <2>1. pc' = "drop" /\ raised' /\ out' = out
    BY <1>11 DEF Raise
  <2> QED BY <1>1, <1>2, <1>3, <2>1 DEF Measured
<1>12. CASE Drop \/ RemovePrefixes
  <2>1. /\ pc \in {"drop", "rm"} /\ out' = out
        /\ \/ pc' = "end" /\ ~raised'
           \/ pc' = "rm" /\ UNCHANGED <<out_rec, raised>>
           \/ pc' = "save" /\ ~raised /\ UNCHANGED <<out_rec, raised>>
    BY <1>12 DEF Drop, RemovePrefixes, Finally, Ends
  <2> QED BY <1>1, <1>2, <1>3, <2>1 DEF Measured
<1>13. CASE Save
  <2>1. pc = "save" /\ pc' = "end" /\ ~raised' /\ out' = out_rec
    BY <1>13 DEF Save, Ends
  <2>2. Comparable(out_rec)
    BY <1>1, <2>1 DEF Measured
  <2> QED BY <1>2, <1>3, <2>1, <2>2 DEF Measured
<1>14. CASE Kill
  <2>1. pc' = "end" /\ ~raised' /\ out' = out
    BY <1>14 DEF Kill, Ends
  <2> QED BY <1>1, <1>2, <1>3, <2>1 DEF Measured
<1>15. CASE WriteLocal \/ UNCHANGED vars
  BY <1>1, <1>2, <1>3, <1>15 DEF WriteLocal, vars, Measured
<1> QED BY <1>4, <1>5, <1>6, <1>7, <1>8, <1>9, <1>10, <1>11, <1>12, <1>13, <1>14, <1>15 DEF Next

(* Every step keeps count of what is left to remove.                       *)
LEMMA RemovedStep == FilesInv /\ [Next]_vars => Removed'
<1> SUFFICES ASSUME FilesInv, [Next]_vars PROVE Removed'
  OBVIOUS
<1> USE DEF Early, Appending, Uncompacted, Compacting
<1>1. Typed /\ Removed
  BY DEF FilesInv
<1>2. CASE Start
  BY <1>1, <1>2 DEF Start, Removed
<1>3. CASE Drop
  <2>1. pc = "drop" /\ UNCHANGED args
    BY <1>3 DEF Drop
  <2>2. CASE keep
    BY <1>3, <2>1, <2>2 DEF Drop, Finally, Ends, args, Removed
  <2>3. CASE ~keep
    <3>1. /\ pc' = "rm" /\ ~keep'
          /\ ~warned' => ~exists'
      BY <1>3, <2>1, <2>3 DEF Drop, Finally, args
    <3> QED BY <3>1 DEF Removed
  <2> QED BY <2>2, <2>3
<1>4. CASE RemovePrefixes
  <2>1. /\ pc = "rm" /\ pc' \in {"save", "end"} /\ rid' = rid /\ keep' = keep /\ exists' = exists
        /\ ~warned' => /\ ~warned /\ lance' = [lance EXCEPT ![rid] = <<>>]
                       /\ staging' = staging \ {rid}
    BY <1>1, <1>4 DEF RemovePrefixes, Finally, Ends, args, Typed
  <2>2. [lance EXCEPT ![rid] = <<>>][rid] = <<>>
    BY <1>1 DEF Typed
  <2>3. ~keep /\ ~warned => ~exists
    BY <1>1, <2>1 DEF Removed
  <2> QED BY <2>1, <2>2, <2>3 DEF Removed
<1>5. CASE Save
  <2>1. /\ pc = "save" /\ pc' = "end"
        /\ rid' = rid /\ keep' = keep /\ UNCHANGED <<lance, exists, staging, warned>>
    BY <1>5 DEF Save, Ends, tables, args
  <2> QED BY <1>1, <2>1 DEF Removed
<1>6. CASE Kill
  BY <1>6 DEF Kill, Ends, Removed
<1>7. CASE UNCHANGED vars
  BY <1>1, <1>7 DEF vars, tables, args, Removed
<1>8. CASE ~(Start \/ Drop \/ RemovePrefixes \/ Save \/ Kill \/ UNCHANGED vars)
  <2>1. pc' \notin {"rm", "save", "end"}
    BY <1>8 DEF Next, WriteLance, iceberg_create_empty, WriteLocal, HandsOver, WriteIceberg,
                AppendLance, AppendIceberg,
                CountPre, ScanPre, CompactLance, CompactIceberg, CountPost, ScanPost, Raise, Goto
  <2> QED BY <2>1 DEF Removed
<1> QED BY <1>2, <1>3, <1>4, <1>5, <1>6, <1>7, <1>8

(* A batch that is handed over is gone from /tmp.                          *)
LEMMA HandedStep == FilesInv /\ [Next]_vars => Handed'
<1> SUFFICES ASSUME FilesInv, [Next]_vars PROVE Handed'
  OBVIOUS
<1> USE DEF Early, Appending, Uncompacted, Compacting
<1>1. /\ Handed /\ i \in Nat /\ NAppends \in Nat
      /\ pc \in Appending => i < NAppends
      /\ raised => pc \in {"drop", "rm"}
  BY Products DEF FilesInv, Typed, Tables, Measured
<1>2. CASE WriteLocal
  <2>1. /\ pc \in {"write_iceberg", "append_iceberg"} /\ UNCHANGED <<pc, i, raised>>
        /\ local' = local \cup {IF pc = "write_iceberg" THEN 0 ELSE i + 1}
    BY <1>2 DEF WriteLocal, HandsOver, batch_name
  <2> QED BY <1>1, <2>1 DEF Handed, PastAppends
<1>3. CASE WriteIceberg
  <2>1. /\ local' = local \ {0} /\ i' = i /\ i = 0 /\ raised' = raised
        /\ pc' = (IF NAppends = 0 THEN "count" ELSE "append_lance")
    BY <1>3 DEF WriteIceberg, HandedOver, batch_name, Goto, FilesInv, Tables
  <2>2. local' \subseteq 1 .. NAppends
    BY <1>1, <2>1 DEF Handed
  <2> QED BY <1>1, <2>1, <2>2 DEF Handed, PastAppends
<1>4. CASE AppendIceberg
  <2>1. /\ local' = local \ {i + 1} /\ i' = i + 1 /\ local \subseteq i + 1 .. NAppends
        /\ pc' = (IF i + 1 = NAppends THEN "count" ELSE "append_lance")
    BY <1>1, <1>4 DEF AppendIceberg, HandedOver, batch_name, Goto, Handed
  <2>2. local' \subseteq i + 2 .. NAppends
    BY <1>1, <2>1
  <2> QED BY <1>1, <2>1, <2>2 DEF Handed, PastAppends
<1>5. CASE Raise
  <2>1. local' \subseteq local /\ pc' = "drop" /\ raised'
    BY <1>5 DEF Raise, HandedOver
  <2> QED BY <1>1, <2>1 DEF Handed
<1>6. CASE Start
  <2>1. local' = local /\ pc' \in {"write_lance", "end"}
    BY <1>6 DEF Start
  <2> QED BY <1>1, <2>1 DEF Handed, PastAppends
<1>7. CASE WriteLance \/ iceberg_create_empty
  <2>1. local' = local /\ pc' \in {"create_iceberg", "write_iceberg"}
    BY <1>7 DEF WriteLance, iceberg_create_empty, Goto
  <2> QED BY <1>1, <2>1 DEF Handed, PastAppends
<1>8. CASE AppendLance
  <2>1. local' = local /\ pc = "append_lance" /\ pc' = "append_iceberg" /\ i' = i
    BY <1>8 DEF AppendLance, Goto
  <2> QED BY <1>1, <2>1 DEF Handed, PastAppends
<1>9. CASE CountPre \/ ScanPre \/ CompactLance \/ CompactIceberg \/ CountPost \/ ScanPost
  <2>1. /\ local' = local /\ PastAppends /\ pc' \notin Appending /\ raised' = raised
    BY <1>9 DEF CountPre, ScanPre, CompactLance, CompactIceberg, CountPost, ScanPost, Goto, tables, PastAppends
  <2> QED BY <1>1, <2>1 DEF Handed
<1>10. CASE Drop \/ RemovePrefixes
  <2>1. /\ local' = local /\ PastAppends /\ pc' \in {"rm", "save", "end"}
        /\ pc' = "end" \/ raised' = raised
    BY <1>10 DEF Drop, RemovePrefixes, Finally, Ends, PastAppends
  <2> QED BY <1>1, <2>1 DEF Handed, PastAppends
<1>11. CASE Save \/ Kill
  <2>1. local' = local /\ pc' = "end"
    BY <1>11 DEF Save, Kill, Ends, tables
  <2> QED BY <1>1, <2>1 DEF Handed, PastAppends
<1>12. CASE UNCHANGED vars
  BY <1>1, <1>12 DEF vars, tables, Handed, PastAppends
<1> QED BY <1>2, <1>3, <1>4, <1>5, <1>6, <1>7, <1>8, <1>9, <1>10, <1>11, <1>12 DEF Next

-----------------------------------------------------------------------------
(* The theorems.                                                           *)

(* What is on disk, what has been measured and what is left to remove are  *)
(* at every step what the script expects.                                  *)
THEOREM FilesInvariant == Spec => []FilesInv
<1>1. FilesInv /\ [Next]_vars => FilesInv'
  BY TypedStep, LoadedStep, TablesStep, MeasuredStep, RemovedStep, HandedStep DEF FilesInv
<1> QED BY <1>1, FilesInit, PTL DEF Spec

(* However the reader cuts the source, the baseline and the appends are    *)
(* its first rows, each once and in order.                                 *)
THEOREM SlicesPartition == Spec => []SlicesPartitionTheSource
<1>1. FilesInv => SlicesPartitionTheSource
  <2> SUFFICES ASSUME FilesInv, pc # "end"
               PROVE  baseline_tbl \o FlattenSeq([k \in 1 .. NAppends |-> batch_tbl(k - 1)])
                         = Span(0, n_required)
    BY DEF SlicesPartitionTheSource
  <2>1. baseline_tbl = BaseSlice /\ \A k \in Nat : k < NAppends => batch_tbl(k) = BatchSlice(k)
    BY TablesTyped DEF FilesInv
  <2>2. ASSUME NEW k \in 1 .. NAppends PROVE batch_tbl(k - 1) = BatchSlice(k - 1)
    <3>1. k - 1 \in Nat /\ k - 1 < NAppends
      BY Products
    <3> QED BY <2>1, <3>1
  <2>3. [k \in 1 .. NAppends |-> batch_tbl(k - 1)] = Batches(NAppends)
    BY <2>2 DEF Batches
  <2>4. FlattenSeq(Batches(NAppends)) = Span(BaselineRows, NAppends * AppendRows)
    BY Products, BatchesFlat
  <2>5. BaseSlice \o Span(BaselineRows, NAppends * AppendRows) = Span(0, n_required)
    <3> DEFINE m == NAppends * AppendRows
    <3>1. m \in Nat /\ BaselineRows \in Nat /\ 0 + BaselineRows = BaselineRows /\ 0 \in Nat
      BY Products
    <3>2. n_required = BaselineRows + m
      BY DEF n_required
    <3> HIDE DEF m
    <3>3. Span(0, BaselineRows) \o Span(0 + BaselineRows, m) = Span(0, BaselineRows + m)
      BY <3>1, SpanConcat
    <3> QED BY <3>1, <3>2, <3>3 DEF BaseSlice, m
  <2> QED BY <2>1, <2>3, <2>4, <2>5
<1> QED BY <1>1, FilesInvariant, PTL

(* The two tables are written in step, whatever earlier runs have left.    *)
THEOREM InStep == Spec => []FormatsInStep
<1>1. FilesInv => FormatsInStep
  <2> SUFFICES ASSUME FilesInv, InTry, pc \notin Early PROVE FormatsInStep
    BY DEF FormatsInStep, Early
  <2>1. /\ pc \in Appending \cup Uncompacted \cup Compacting /\ pc # "end"
        /\ iceberg \in Seq(Seq(Nat)) /\ i \in Nat
    BY DEF FilesInv, Typed, InTry, Early
  <2>2. iceberg \o <<>> = iceberg
    BY <2>1
  <2>3. CASE pc = "append_iceberg"
    <3>1. lance[rid] = Files(i + 1) /\ iceberg = Files(i) /\ i < NAppends
      BY <2>3 DEF FilesInv, Tables, Appending
    <3>2. batch_tbl(i) = BatchSlice(i) /\ batch_tbl(i) \in Seq(Nat)
      BY <2>1, <3>1, TablesTyped DEF FilesInv
    <3>3. \A s \in Seq(Nat) : iceberg \o <<s>> = Append(iceberg, s)
      BY <2>1
    <3>4. iceberg \o <<batch_tbl(i)>> = Files(i + 1)
      BY <2>1, <3>1, <3>2, <3>3, FilesGrow
    <3> QED BY <2>3, <3>1, <3>4 DEF FormatsInStep
  <2>4. CASE pc # "append_iceberg"
    <3>1. FlattenSeq(lance[rid]) = FlattenSeq(iceberg)
      BY <2>1, <2>4 DEF FilesInv, Tables, Whole, Appending, Uncompacted, Compacting
    <3> QED BY <2>2, <2>4, <3>1 DEF FormatsInStep
  <2> QED BY <2>3, <2>4
<1> QED BY <1>1, FilesInvariant, PTL

(* What is saved compares like with like.                                  *)
THEOREM SavedAlike == Spec => []SavedIsComparable
<1>1. FilesInv => SavedIsComparable
  <2> SUFFICES ASSUME FilesInv, out # Nothing PROVE SavedIsComparable
    BY DEF SavedIsComparable
  <2>1. Comparable(out)
    BY DEF FilesInv, Measured
  <2> QED BY <2>1 DEF Comparable, Counted, Complete, Merged, SavedIsComparable
<1> QED BY <1>1, FilesInvariant, PTL

(* A run without a warning and without a reason to keep its copies leaves  *)
(* nothing in the bucket, the catalog and on HDFS; one that gets past its  *)
(* appends leaves nothing in /tmp either.                                  *)
THEOREM CleanRun == Spec => []CleanRunLeavesNothing
<1>1. FilesInv => CleanRunLeavesNothing
  BY DEF FilesInv, Removed, Handed, CleanRunLeavesNothing
<1> QED BY <1>1, FilesInvariant, PTL
=============================================================================
