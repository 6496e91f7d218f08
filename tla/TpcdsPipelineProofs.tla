------------------------- MODULE TpcdsPipelineProofs -------------------------
(***************************************************************************)
(* The pipeline for any tables, fractions, run ids and number of runs:     *)
(* one inductive invariant, from which follow that the manifest's ok means *)
(* complete, that M1's tables are touched by M1 only, that what M3, M4 and *)
(* M5 measure was complete, and that a clean run of M5 leaves nothing.     *)
(***************************************************************************)
EXTENDS TpcdsPipeline, TLAPS

Loop == {"rm", "cp", "ctas", "lance", "iceberg"}

(* The work a script has left is its own kind of work.                     *)
TodoOK ==
    /\ script = "m0" => todo \in Seq(Tables) /\ todo # <<>>
    /\ script = "m1" =>
           /\ pc \in {"rm", "write", "verify", "save"}
           /\ todo \in Seq(Tasks) /\ todo # <<>>
    /\ script = "m5" =>
           /\ pc \in Loop \cup {"drop", "rmroot", "save"}
           /\ todo \in Seq(Labels) /\ (pc \in Loop => todo # <<>>)

(* What a script keeps in memory is gone when it is.                       *)
LocalsOK ==
    /\ script # "m1" => records = NoRecords
    /\ script # "m5" => results = NoResults

(* M1's records are true of the tables that it has not begun to rewrite;   *)
(* and the manifest is either the records of the run, which do not call    *)
(* the table at hand ok, or that table is one it has begun to rewrite.     *)
WritesOK ==
    script = "m1" =>
        /\ \A k \in Tasks \ begun : records[k] = "ok" => s3[k].data = "whole"
        /\ (manifest = records /\ records[task] # "ok") \/ task \in begun
        /\ pc = "save" /\ ok => s3[task].data = "whole"

(* M0 names what it has uploaded.                                          *)
ExportsOK == exported \subseteq staged

(* While M4 and M5 run, the source is what the manifest promised them.     *)
SourceOK ==
    script \in {"m4", "m5"} =>
        \A k \in {LanceSrc, IcebergSrc} : k \in begun \/ s3[k].data = "whole"

(* From its making to its DELETE a copy of M5 is complete, because there   *)
(* was nothing where it was made.                                          *)
CopiesOK ==
    script = "m5" =>
        /\ pc = "cp" => warned \/ s3[work].data = "none"
        /\ pc \in {"ctas", "lance"} => warned \/ LanceSrc \in begun \/ s3[work].data = "whole"
        /\ pc \in {"lance", "iceberg"} => IcebergSrc \in begun \/ s3[copy].data = "whole"

(* All that M5 made is where its clean-up will look, and, as far as no     *)
(* removal fails, gone when the clean-up has been there.                   *)
Gone == \A d \in made : s3[d].data = "none"
CleanUpOK ==
    /\ made \cap (Tasks \cup {M6Dir}) = {}
    /\ script = "m5" =>
           /\ pc \in Loop \ {"rm"} => label \in ctas
           /\ \A d \in made : \E l \in ctas : d \in {CtasDir(l), WorkDir(rid, l)}
           /\ pc = "rmroot" /\ ~warned => \A l \in ctas : s3[CtasDir(l)].data = "none"
           /\ pc = "save" /\ ~keep /\ ~warned => Gone
    /\ script # "m5" /\ ~keep /\ ~warned => Gone

PipelineInv ==
    /\ TypeOK /\ TodoOK /\ LocalsOK
    /\ ExportsOK /\ WritesOK /\ ManifestOkMeansWhole
    /\ SourceOK /\ CopiesOK /\ CopiesAreFresh /\ CleanUpOK

-----------------------------------------------------------------------------
(* Tables, directories and the order of work.                              *)

(* A task is a table in a format, and the source is one in each.           *)
LEMMA TaskShape ==
    /\ \A k \in Tasks : k = <<k[1], k[2]>> /\ k[1] \in Tables /\ k[2] \in ToSet(Formats)
    /\ LanceSrc \in Tasks /\ IcebergSrc \in Tasks
    /\ ToSet(Formats) = {"lance_2.2", "iceberg_v2"}
  <1>1. ToSet(Formats) = {"lance_2.2", "iceberg_v2"}
    BY DEF Formats, ToSet
  <1> QED
    BY <1>1, TpcdsPipelineAssumption DEF Tasks, LanceSrc, IcebergSrc

(* Where the i-th task of a plan comes from.                               *)
LEMMA PlanPlaces ==
    ASSUME NEW l \in Nat, NEW m \in {1, 2}, NEW i \in 1 .. l * m
    PROVE  (i - 1) \div m + 1 \in 1 .. l /\ ((i - 1) % m) + 1 \in 1 .. m
  <1>1. CASE m = 1
    BY <1>1
  <1>2. CASE m = 2
    BY <1>2
  <1> QED
    BY <1>1, <1>2

(* A plan is of tasks, and begins with the first table in the first format. *)
LEMMA PlanFacts ==
    ASSUME NEW n \in Nat \ {0}, NEW ts \in [1 .. n -> Tables],
           NEW fs \in {Formats, <<"lance_2.2">>, <<"iceberg_v2">>}
    PROVE  /\ Plan(ts, fs) \in Seq(Tasks) /\ Plan(ts, fs) # <<>>
           /\ Head(Plan(ts, fs)) = <<ts[1], fs[1]>> /\ <<ts[1], fs[1]>> \in Tasks
  <1> DEFINE m == Len(fs)
             p == Plan(ts, fs)
  <1>1. m \in {1, 2} /\ \A j \in 1 .. m : fs[j] \in ToSet(Formats)
    <2>1. fs = <<"lance_2.2", "iceberg_v2">> \/ fs = <<"lance_2.2">> \/ fs = <<"iceberg_v2">>
      BY DEF Formats
    <2> QED
      BY <2>1, TaskShape
  <1>a. Len(ts) = n
    OBVIOUS
  <1>b. n * m \in Nat /\ n * m >= 1
    <2> HIDE DEF m
    <2>1. CASE m = 1
      BY <2>1
    <2>2. CASE m = 2
      BY <2>2
    <2> QED
      BY <1>1, <2>1, <2>2
  <1>2. Len(ts) = n /\ n * m \in Nat /\ n * m >= 1
    BY <1>a, <1>b
  <1>3. p = [i \in 1 .. n * m |-> <<ts[(i - 1) \div m + 1], fs[((i - 1) % m) + 1]>>]
    BY <1>2 DEF Plan
  <1> HIDE DEF m, p
  <1>4. ASSUME NEW i \in 1 .. n * m
        PROVE  <<ts[(i - 1) \div m + 1], fs[((i - 1) % m) + 1]>> \in Tasks
    <2>1. (i - 1) \div m + 1 \in 1 .. n /\ ((i - 1) % m) + 1 \in 1 .. m
      BY <1>1, PlanPlaces
    <2> QED
      BY <1>1, <2>1 DEF Tasks
  <1>5. p \in [1 .. n * m -> Tasks]
    BY <1>3, <1>4
  <1>6. p \in Seq(Tasks) /\ Len(p) = n * m /\ p # <<>> /\ Head(p) = p[1]
    BY <1>2, <1>5
  <1>7. 1 \in 1 .. n * m /\ (1 - 1) \div m + 1 = 1 /\ ((1 - 1) % m) + 1 = 1
    BY <1>1, <1>2
  <1>8. p[1] = <<ts[1], fs[1]>> /\ p[1] \in Tasks
    BY <1>3, <1>4, <1>7
  <1> QED
    BY <1>6, <1>8 DEF p

(* M5's copies lie in directories of their own, and so does M6's table.    *)
LEMMA DirsApart ==
    /\ Tasks \subseteq Dir /\ M6Dir \in Dir \ Tasks
    /\ \A l \in Labels : CtasDir(l) \in Dir \ (Tasks \cup {M6Dir})
    /\ \A l \in Labels, r \in RunIds : WorkDir(r, l) \in Dir \ (Tasks \cup {M6Dir})
    /\ \A l, m \in Labels, r \in RunIds : CtasDir(l) # WorkDir(r, m)
  <1>1. \A k \in Tasks : k[2] \notin Labels /\ k[2] # "m6"
    BY TaskShape, TpcdsPipelineAssumption
  <1>2. "m6" \notin Labels
    BY TpcdsPipelineAssumption
  <1> QED
    BY <1>1, <1>2, TpcdsPipelineAssumption DEF Dir, CtasDir, WorkDir, M6Dir

(* What is listed for a table are directories of the bucket.               *)
LEMMA ListingFacts == \A k \in Tasks : Listing(k) \subseteq Dir
  <1> SUFFICES ASSUME NEW k \in Tasks PROVE Listing(k) \subseteq Dir
    OBVIOUS
  <1> DEFINE alike == {k[1]} \cup {t \in Tables : <<k[1], t>> \in Begins}
  <1>1. alike \X {"iceberg_v2"} \subseteq Tasks
    BY TaskShape DEF Tasks
  <1>2. Listing(k) \subseteq {k} \cup (alike \X {"iceberg_v2"}) \cup {CtasDir(l) : l \in Labels} \cup {M6Dir}
    BY DEF Listing
  <1> HIDE DEF alike
  <1> QED
    BY <1>1, <1>2, DirsApart

(* Work in order is a sequence of just that work.                          *)
LEMMA InOrderFacts ==
    ASSUME NEW T, NEW all \in Seq(T), NEW S, NEW p \in InOrder(all, S)
    PROVE  p \in Seq(S)
  <1>1. PICK n \in 0 .. Len(all) : p \in [1 .. n -> S]
    BY DEF InOrder
  <1> QED
    BY <1>1

(* What is left of a list of work when its first item is done.             *)
LEMMA TailFacts ==
    ASSUME NEW S, NEW s \in Seq(S), s # <<>>
    PROVE  Head(s) \in S /\ Tail(s) \in Seq(S)
  OBVIOUS

(* A removal touches nothing but what it is to remove, and, when it        *)
(* returns without a warning, leaves nothing of that.                      *)
LEMMA RemovalFacts ==
    ASSUME TypeOK, NEW dirs \in SUBSET Dir, NEW r \in s3_rm_prefix(dirs)
    PROVE  /\ r.rc \in {"ok", "warn", "timeout"}
           /\ r.s3 \in [Dir -> Content] /\ \A d \in Dir : r.s3[d].loc = d
           /\ \A d \in Dir \ dirs : r.s3[d] = s3[d]
           /\ r.rc = "ok" => \A d \in dirs : r.s3[d].data = "none"
  <1> USE DEF TypeOK
  <1>1. \A d \in Dir : /\ s3[d] \in Content /\ s3[d].loc = d
                       /\ Absent(d) \in Content /\ Absent(d).loc = d /\ Absent(d).data = "none"
                       /\ Partly(s3[d]) \in Content /\ Partly(s3[d]).loc = d
    BY DEF Absent, New, Partly, Content, Data
  <1>2. \/ r.rc = "ok" /\ r.s3 = [d \in Dir |-> IF d \in dirs THEN Absent(d) ELSE s3[d]]
        \/ r.rc \in {"warn", "timeout"} /\ r.s3 = s3
        \/ /\ r.rc \in {"warn", "timeout"}
           /\ r.s3 = [d \in Dir |-> IF d \in dirs THEN Partly(s3[d]) ELSE s3[d]]
    BY DEF s3_rm_prefix
  <1>3. CASE r.rc = "ok" /\ r.s3 = [d \in Dir |-> IF d \in dirs THEN Absent(d) ELSE s3[d]]
    BY <1>1, <1>3
  <1>4. CASE r.rc \in {"warn", "timeout"} /\ r.s3 = s3
    BY <1>1, <1>4
  <1>5. CASE /\ r.rc \in {"warn", "timeout"}
             /\ r.s3 = [d \in Dir |-> IF d \in dirs THEN Partly(s3[d]) ELSE s3[d]]
    BY <1>1, <1>5
  <1> QED
    BY <1>2, <1>3, <1>4, <1>5

-----------------------------------------------------------------------------
(* What a step may change in S3.                                           *)

(* The directories that the script running may touch where it is.          *)
MayTouch(d) ==
    \/ script = "m1" /\ pc \in {"rm", "write"} /\ d = task
    \/ script = "m5" /\ pc \in {"rm", "cp", "lance"} /\ d = work
    \/ script = "m5" /\ pc \in {"ctas", "iceberg"} /\ d = copy
    \/ script = "m5" /\ pc = "drop" /\ \E l \in ctas : d = CtasDir(l)
    \/ script = "m5" /\ pc = "rmroot" /\ \E l \in Labels : d = WorkDir(rid, l)
    \/ script = "none" /\ d = M6Dir

S3Typed == s3 \in [Dir -> Content] /\ \A d \in Dir : s3[d].loc = d

(* Where M5 works.                                                         *)
LEMMA M5Places ==
    ASSUME TypeOK, TodoOK, script = "m5", pc \in Loop
    PROVE  /\ label \in Labels /\ work # copy /\ Tail(todo) \in Seq(Labels)
           /\ work \in Dir \ (Tasks \cup {M6Dir}) /\ copy \in Dir \ (Tasks \cup {M6Dir})
  <1>1. label \in Labels /\ rid \in RunIds /\ Tail(todo) \in Seq(Labels)
    BY TailFacts DEF TodoOK, TypeOK, label
  <1> QED
    BY <1>1, DirsApart DEF work, copy

(* Where M1 works.                                                         *)
LEMMA M1Places ==
    ASSUME TodoOK, script = "m1"
    PROVE  task \in Tasks /\ Tail(todo) \in Seq(Tasks)
  BY TailFacts DEF TodoOK, task

(* New content is content.                                                 *)
LEMMA NewContent ==
    ASSUME NEW d \in Dir, NEW data \in Data, NEW o \in BOOLEAN
    PROVE  New(d, data, o) \in Content /\ New(d, data, o).loc = d /\ New(d, data, o).data = data
  BY DEF New, Content

(* Whether a directory holds something is yes or no.                        *)
LEMMA NotEmpty == \A c : (~Empty(c)) \in BOOLEAN
  BY DEF Empty

(* A dropped table is content.                                             *)
LEMMA DroppedContent ==
    ASSUME S3Typed, NEW d \in Dir, NEW c \in Dropped(d)
    PROVE  c \in Content /\ c.loc = d
  BY NewContent DEF Dropped, S3Typed, Data

(* One directory changes.                                                  *)
LEMMA OneDirectory ==
    ASSUME S3Typed, NEW d \in Dir, NEW c \in Content, c.loc = d, s3' = [s3 EXCEPT ![d] = c]
    PROVE  S3Typed' /\ s3'[d] = c /\ \A e \in Dir \ {d} : s3'[e] = s3[e]
  BY DEF S3Typed

(* A DELETE changes the table it is asked of, since the table writes where *)
(* it lies; and what it notes without error had been there.                *)
LEMMA DeleteFacts ==
    ASSUME S3Typed, NEW d \in Dir, NEW fmt, Delete(d, fmt)
    PROVE  /\ S3Typed' /\ \A e \in Dir \ {d} : s3'[e] = s3[e]
           /\ results' \in {[results EXCEPT ![label][fmt] = v] : v \in {s3[d].data, "error"}}
  <1> DEFINE after == [s3 EXCEPT ![d] = [s3[d] EXCEPT !.data = "deleted"]]
  <1>1. [s3 EXCEPT ![s3[d].loc].data = "deleted"] = after
    BY DEF S3Typed
  <1>2. s3' = s3 \/ s3' = after
    BY <1>1 DEF Delete
  <1>3. [s3[d] EXCEPT !.data = "deleted"] \in Content /\ [s3[d] EXCEPT !.data = "deleted"].loc = d
    BY DEF S3Typed, Content, Data
  <1>4. S3Typed' /\ \A e \in Dir \ {d} : s3'[e] = s3[e]
    <2>1. CASE s3' = s3
      BY <2>1 DEF S3Typed
    <2>2. CASE s3' = after
      BY <2>2, <1>3, OneDirectory
    <2> QED
      BY <1>2, <2>1, <2>2
  <1> QED
    BY <1>4 DEF Delete

(* A step changes the content of those directories only that its script    *)
(* may touch, and keeps the type of all.                                   *)
LEMMA Frame ==
    ASSUME TypeOK, TodoOK, Next
    PROVE  S3Typed' /\ \A d \in Dir : s3'[d] = s3[d] \/ MayTouch(d)
  <1>0. S3Typed
    BY DEF TypeOK, S3Typed
  <1>1. CASE UNCHANGED s3
    BY <1>0, <1>1 DEF S3Typed
  <1>2. CASE M1Remove
    <2>1. PICK r \in s3_rm_prefix({task}) : s3' = r.s3
      BY <1>2 DEF M1Remove
    <2>2. task \in Dir
      BY <1>2, M1Places, DirsApart DEF M1Remove
    <2> QED
      BY <1>2, <2>1, <2>2, RemovalFacts DEF M1Remove, MayTouch, S3Typed
  <1>3. CASE M1Write
    <2>1. task \in Dir
      BY <1>3, M1Places, DirsApart DEF M1Write
    <2>2. PICK c : s3' = [s3 EXCEPT ![task] = c] /\ c \in Content /\ c.loc = task
      <3>1. CASE \E rows \in {"whole", "short"}, o \in BOOLEAN : s3' = [s3 EXCEPT ![task] = New(task, rows, o)]
        <4>1. PICK rows \in {"whole", "short"}, o \in BOOLEAN : s3' = [s3 EXCEPT ![task] = New(task, rows, o)]
          BY <3>1, Zenon
        <4>2. rows \in Data
          BY DEF Data
        <4> QED
          BY <2>1, <4>1, <4>2, NewContent
      <3>2. CASE \E c \in FailedWrite(task) : s3' = [s3 EXCEPT ![task] = c]
        <4>1. PICK c \in FailedWrite(task) : s3' = [s3 EXCEPT ![task] = c]
          BY <3>2
        <4>2. s3[task] \in Content /\ s3[task].loc = task
          BY <1>0, <2>1 DEF S3Typed
        <4>3. [s3[task] EXCEPT !.orphans = TRUE] \in Content /\ [s3[task] EXCEPT !.orphans = TRUE].loc = task
          BY <4>2 DEF Content
        <4>4. New(task, "none", TRUE) \in Content /\ New(task, "none", TRUE).loc = task
          BY <2>1, NewContent DEF Data
        <4>5. c \in Content /\ c.loc = task
          BY <1>0, <2>1, <4>2, <4>3, <4>4, DroppedContent DEF FailedWrite
        <4> QED
          BY <4>1, <4>5
      <3> QED
        BY <1>3, <3>1, <3>2 DEF M1Write
    <2> QED
      BY <1>0, <1>3, <2>1, <2>2, OneDirectory DEF M1Write, MayTouch
  <1>4. CASE M5Remove
    <2>1. work \in Dir
      BY <1>4, M5Places DEF M5Remove, Loop
    <2>2. PICK r \in s3_rm_prefix({work}) : s3' = r.s3
      BY <1>4 DEF M5Remove
    <2> QED
      BY <1>4, <2>1, <2>2, RemovalFacts DEF M5Remove, MayTouch, S3Typed
  <1>5. CASE s3_cp_recursive
    <2>1. work \in Dir /\ LanceSrc \in Dir
      BY <1>5, M5Places, TaskShape, DirsApart DEF s3_cp_recursive, Loop
    <2>2. s3[work] \in Content /\ s3[work].loc = work /\ s3[LanceSrc].data \in Data
      BY <1>0, <2>1 DEF S3Typed, Content
    <2>3. CASE s3' = s3
      BY <1>0, <2>3 DEF S3Typed
    <2>4. CASE \E data \in Copied : s3' = [s3 EXCEPT ![work] = New(work, data, ~Empty(s3[work]))]
      <3>1. Copied \subseteq Data
        BY <2>2 DEF Copied, Data
      <3>2. PICK data \in Copied : s3' = [s3 EXCEPT ![work] = New(work, data, ~Empty(s3[work]))]
        BY <2>4, Zenon
      <3>3. /\ New(work, data, ~Empty(s3[work])) \in Content
            /\ New(work, data, ~Empty(s3[work])).loc = work
        BY <2>1, <3>1, <3>2, NewContent, NotEmpty
      <3> QED
        BY <1>0, <1>5, <2>1, <3>2, <3>3, OneDirectory DEF s3_cp_recursive, MayTouch
    <2>5. CASE s3' = [s3 EXCEPT ![work].data = "part"]
      <3>1. s3' = [s3 EXCEPT ![work] = [s3[work] EXCEPT !.data = "part"]]
        BY <2>5
      <3>2. [s3[work] EXCEPT !.data = "part"] \in Content /\ [s3[work] EXCEPT !.data = "part"].loc = work
        BY <2>2 DEF Content, Data
      <3> QED
        BY <1>0, <1>5, <2>1, <3>1, <3>2, OneDirectory DEF s3_cp_recursive, MayTouch
    <2> QED
      BY <1>5, <2>3, <2>4, <2>5 DEF s3_cp_recursive
  <1>6. CASE iceberg_ctas_copy
    <2>1. copy \in Dir /\ IcebergSrc \in Dir
      BY <1>6, M5Places, TaskShape, DirsApart DEF iceberg_ctas_copy, Loop
    <2>2. PICK c : s3' = [s3 EXCEPT ![copy] = c] /\ c \in Content /\ c.loc = copy
      <3>1. CASE \E c \in {s3[copy]} \cup Dropped(copy) : s3' = [s3 EXCEPT ![copy] = c]
        BY <1>0, <2>1, <3>1, DroppedContent DEF S3Typed
      <3>2. CASE \E c \in Dropped(copy) : s3' = [s3 EXCEPT ![copy] = New(copy, s3[IcebergSrc].data, ~Empty(c))]
        <4>1. s3[IcebergSrc].data \in Data
          BY <1>0, <2>1 DEF S3Typed, Content
        <4>2. PICK c \in Dropped(copy) : s3' = [s3 EXCEPT ![copy] = New(copy, s3[IcebergSrc].data, ~Empty(c))]
          BY <3>2, Zenon
        <4> QED
          BY <2>1, <4>1, <4>2, NotEmpty, NewContent
      <3> QED
        BY <1>6, <3>1, <3>2 DEF iceberg_ctas_copy
    <2> QED
      BY <1>0, <1>6, <2>1, <2>2, OneDirectory DEF iceberg_ctas_copy, MayTouch
  <1>7. CASE M5Lance
    <2>1. work \in Dir
      BY <1>7, M5Places DEF M5Lance, Loop
    <2> QED
      BY <1>0, <1>7, <2>1, DeleteFacts DEF M5Lance, MayTouch
  <1>8. CASE M5Iceberg
    <2>1. copy \in Dir
      BY <1>8, M5Places DEF M5Iceberg, Loop
    <2> QED
      BY <1>0, <1>8, <2>1, DeleteFacts DEF M5Iceberg, MayTouch
  <1>9. CASE M5Drop /\ ~keep
    <2>1. PICK fails \in SUBSET ctas, o \in BOOLEAN :
             s3' = [d \in Dir |-> IF \E l \in ctas \ fails : d = CtasDir(l) /\ s3[d].data # "none"
                                    THEN New(d, "none", o) ELSE s3[d]]
      BY <1>9 DEF M5Drop
    <2>2. \A d \in Dir : New(d, "none", o) \in Content /\ New(d, "none", o).loc = d
      BY <2>1, NewContent DEF Data
    <2>3. \A d \in Dir : s3[d] \in Content /\ s3[d].loc = d
      BY <1>0 DEF S3Typed
    <2>4. S3Typed'
      BY <2>1, <2>2, <2>3 DEF S3Typed
    <2>5. \A d \in Dir : s3'[d] = s3[d] \/ \E l \in ctas : d = CtasDir(l)
      BY <2>1
    <2> QED
      BY <1>9, <2>4, <2>5 DEF M5Drop, MayTouch
  <1>10. CASE M5RemoveRoot
    <2>1. rid \in RunIds
      BY DEF TypeOK
    <2>2. {WorkDir(rid, l) : l \in Labels} \in SUBSET Dir
      BY <2>1, DirsApart
    <2>3. PICK r \in s3_rm_prefix({WorkDir(rid, l) : l \in Labels}) : s3' = r.s3
      BY <1>10 DEF M5RemoveRoot
    <2> QED
      BY <1>10, <2>2, <2>3, RemovalFacts DEF M5RemoveRoot, MayTouch, S3Typed
  <1>11. CASE \/ M0Start \/ M0Export \/ M0Open \/ M0Dump \/ M1Start \/ M1Verify \/ M1Save
              \/ M2Run \/ M3Run \/ M4Start \/ ensure_lance_bitmap_index \/ M4Filter \/ OthersIndex
              \/ M5Start \/ M5Interrupt \/ M5Save \/ Kill \/ (M5Drop /\ keep)
    <2>1. UNCHANGED s3
      BY <1>11 DEF M0Start, M0Export, M0Open, M0Dump, M1Start, M1Verify, M1Save, M2Run, M3Run, M4Start,
                   ensure_lance_bitmap_index, M4Filter, OthersIndex, M5Start, M5Interrupt, M5Save, Kill,
                   M5Drop, store
    <2> QED
      BY <1>1, <2>1
  <1>12. CASE OthersTable
    <2>1. PICK data \in {"none", "whole"} : s3' = [s3 EXCEPT ![M6Dir] = New(M6Dir, data, FALSE)]
      BY <1>12 DEF OthersTable
    <2>2. M6Dir \in Dir /\ data \in Data /\ FALSE \in BOOLEAN
      BY DirsApart DEF Data
    <2>3. New(M6Dir, data, FALSE) \in Content /\ New(M6Dir, data, FALSE).loc = M6Dir
      BY <2>2, NewContent
    <2>4. S3Typed' /\ \A e \in Dir \ {M6Dir} : s3'[e] = s3[e]
      BY <1>0, <2>1, <2>2, <2>3, OneDirectory
    <2>5. script = "none"
      BY <1>12 DEF OthersTable
    <2> QED
      BY <2>4, <2>5 DEF MayTouch
  <1> QED
    BY <1>2, <1>3, <1>4, <1>5, <1>6, <1>7, <1>8, <1>9, <1>10, <1>11, <1>12 DEF Next

(* Nothing but M1 changes a table of M1.                                   *)
LEMMA TablesStay ==
    ASSUME TypeOK, TodoOK, Next, script # "m1"
    PROVE  \A k \in Tasks : s3'[k] = s3[k]
  <1>1. \A k \in Tasks : ~MayTouch(k)
    BY DirsApart, M5Places DEF MayTouch, Loop, TypeOK
  <1> QED
    BY <1>1, Frame, DirsApart

(* Nothing but M5 changes a copy of M5, and M1 only the task at hand.      *)
LEMMA CopiesStay ==
    ASSUME TypeOK, TodoOK, Next, script # "m5"
    PROVE  /\ \A d \in Dir \ (Tasks \cup {M6Dir}) : s3'[d] = s3[d]
           /\ script = "m1" => \A k \in Tasks \ {task} : s3'[k] = s3[k]
  BY Frame, M1Places, DirsApart DEF MayTouch

-----------------------------------------------------------------------------
(* What is left to do.                                                     *)

(* M1 starts with a table that it is about to rewrite.                     *)
LEMMA M1Plans ==
    ASSUME TypeOK, M1Start
    PROVE  /\ todo' \in Seq(Tasks) /\ todo' # <<>>
           /\ Head(todo') \in Tasks /\ begun' = begun \cup {Head(todo')}
           /\ runs' \in 0 .. MaxRuns
  <1>1. PICK n \in 1 .. MaxRuns - runs, fs \in {Formats, <<"lance_2.2">>, <<"iceberg_v2">>} :
           \E ts \in Named(m0.tables, n) :
               todo' = Plan(ts, fs) /\ begun' = begun \cup {<<ts[1], fs[1]>>} /\ runs' = runs + n
    BY DEF M1Start
  <1>2. PICK ts \in [1 .. n -> m0.tables] :
           todo' = Plan(ts, fs) /\ begun' = begun \cup {<<ts[1], fs[1]>>} /\ runs' = runs + n
    BY <1>1 DEF Named
  <1>3. n \in Nat \ {0} /\ runs + n \in 0 .. MaxRuns
    BY TpcdsPipelineAssumption DEF TypeOK
  <1>4. ts \in [1 .. n -> Tables]
    BY DEF TypeOK
  <1> QED
    BY <1>2, <1>3, <1>4, PlanFacts

(* The work left is the script's own through every step.                   *)
LEMMA TodoStep ==
    ASSUME TypeOK, TodoOK, LocalsOK, Next
    PROVE  TodoOK'
  <1>1. CASE M0Start
    <2>1. PICK n \in 1 .. MaxRuns - runs : todo' \in [1 .. n -> Tables]
      BY <1>1 DEF M0Start, Named
    <2>2. n \in Nat \ {0}
      BY TpcdsPipelineAssumption DEF TypeOK
    <2>3. todo' \in Seq(Tables) /\ todo' # <<>>
      BY <2>1, <2>2
    <2> QED
      BY <1>1, <2>3 DEF M0Start, TodoOK
  <1>2. CASE M0Export \/ M0Open
    BY <1>2 DEF M0Export, M0Open, Ends, locals, TodoOK
  <1>3. CASE M0Dump
    <2>1. Tail(todo) \in Seq(Tables)
      BY <1>3, TailFacts DEF M0Dump, TodoOK
    <2> QED
      BY <1>3, <2>1 DEF M0Dump, Ends, TodoOK
  <1>4. CASE M1Start
    <2>1. todo' \in Seq(Tasks) /\ todo' # <<>>
      BY <1>4, M1Plans
    <2> QED
      BY <1>4, <2>1 DEF M1Start, TodoOK
  <1>5. CASE M1Remove \/ M1Write \/ M1Verify
    BY <1>5 DEF M1Remove, M1Write, M1Verify, Ends, locals, TodoOK
  <1>6. CASE M1Save
    <2>1. CASE Tail(todo) = <<>>
      BY <1>6, <2>1 DEF M1Save, NextTask, Ends, TodoOK
    <2>2. CASE Tail(todo) # <<>>
      <3>1. /\ script' = "m1" /\ pc' = "rm" /\ todo' = Tail(todo) /\ records' = Recorded
        BY <1>6, <2>2 DEF M1Save, NextTask
      <3> QED
        BY <1>6, <2>2, <3>1, M1Places DEF M1Save, TodoOK
    <2> QED
      BY <2>1, <2>2
  <1>7. CASE M2Run \/ M3Run \/ M4Start \/ ensure_lance_bitmap_index \/ M4Filter \/ OthersIndex \/ OthersTable
    BY <1>7 DEF M2Run, M3Run, M4Start, ensure_lance_bitmap_index, M4Filter, OthersIndex, OthersTable, Ends, locals, TodoOK
  <1>8. CASE M5Start
    <2>1. PICK feasible \in SUBSET Labels : todo' \in InOrder(Fractions, feasible)
      BY <1>8 DEF M5Start
    <2>2. todo' \in Seq(Labels)
      <3>1. todo' \in Seq(feasible)
        BY <2>1, InOrderFacts, TpcdsPipelineAssumption
      <3> QED
        BY <3>1
    <2> QED
      BY <1>8, <2>2 DEF M5Start, TodoOK, Loop
  <1>9. CASE M5Remove \/ s3_cp_recursive \/ iceberg_ctas_copy \/ M5Lance \/ M5Interrupt
    BY <1>9 DEF M5Remove, s3_cp_recursive, iceberg_ctas_copy, M5Lance, M5Interrupt, Goto, GotoFinally,
                TodoOK, Loop
  <1>10. CASE M5Iceberg
    <2>1. Tail(todo) \in Seq(Labels)
      BY <1>10, M5Places DEF M5Iceberg, Loop
    <2> QED
      BY <1>10, <2>1 DEF M5Iceberg, Goto, TodoOK, Loop
  <1>11. CASE M5Drop \/ M5RemoveRoot \/ M5Save \/ Kill
    BY <1>11 DEF M5Drop, M5RemoveRoot, M5Save, Kill, Ends, locals, TodoOK, Loop
  <1> QED
    BY <1>1, <1>2, <1>3, <1>4, <1>5, <1>6, <1>7, <1>8, <1>9, <1>10, <1>11 DEF Next

-----------------------------------------------------------------------------
(* Type correctness.                                                       *)

(* A record of M1 joins the others.                                        *)
LEMMA RecordedTyped ==
    ASSUME TypeOK, TodoOK, script = "m1"
    PROVE  Recorded \in [Tasks -> {"absent", "ok", "failed"}]
  BY M1Places DEF Recorded, TypeOK

(* So do M5's results, each being what a table held, or an error.          *)
LEMMA ResultsTyped ==
    ASSUME TypeOK, NEW d \in Dir, NEW l \in Labels, NEW fmt \in {"lance", "iceberg"},
           NEW v \in {s3[d].data, "error"}
    PROVE  [results EXCEPT ![l][fmt] = v]
              \in [Labels -> [lance : Data \cup {"error"}, iceberg : Data \cup {"error"}]]
  <1>1. v \in Data \cup {"error"}
    BY DEF TypeOK, Content
  <1>2. results[l] \in [lance : Data \cup {"error"}, iceberg : Data \cup {"error"}]
    BY DEF TypeOK
  <1>3. [results[l] EXCEPT ![fmt] = v] \in [lance : Data \cup {"error"}, iceberg : Data \cup {"error"}]
    BY <1>1, <1>2
  <1>4. [results EXCEPT ![l][fmt] = v] = [results EXCEPT ![l] = [results[l] EXCEPT ![fmt] = v]]
    OBVIOUS
  <1> QED
    BY <1>3, <1>4 DEF TypeOK

(* What a script takes back when it ends has its type again.               *)
LEMMA EndsTyped ==
    ASSUME Ends
    PROVE  /\ records' \in [Tasks -> {"absent", "ok", "failed"}] /\ script' = "none" /\ pc' = "end"
           /\ results' \in [Labels -> [lance : Data \cup {"error"}, iceberg : Data \cup {"error"}]]
           /\ ok' \in BOOLEAN /\ raised' \in BOOLEAN /\ ctas' \subseteq Labels
  BY DEF Ends, NoRecords, NoResults, NotMeasured, Data

(* Every step of every script keeps the types.                             *)
LEMMA TypeStep ==
    ASSUME TypeOK, TodoOK, LocalsOK, Next
    PROVE  TypeOK'
  <1> DEFINE Fixed == /\ manifest \in [Tasks -> {"absent", "ok", "failed"}]
                      /\ sizes \in [Tasks -> SUBSET Dir]
                      /\ out \in [Labels -> [lance : Data \cup {"error"}, iceberg : Data \cup {"error"}]]
                      /\ runs \in 0 .. MaxRuns
                      /\ keep \in BOOLEAN /\ warned \in BOOLEAN /\ rid \in RunIds
                      /\ begun \subseteq Tasks /\ made \subseteq Dir
                      /\ m0.state \in {"none", "torn", "saved"} /\ exported \subseteq Tables /\ m0.tables \subseteq Tables
                      /\ index \in {"none", "Bitmap", "other"} /\ filters.bitmap \in BOOLEAN
             Local == /\ records \in [Tasks -> {"absent", "ok", "failed"}]
                      /\ results \in [Labels -> [lance : Data \cup {"error"}, iceberg : Data \cup {"error"}]]
                      /\ script \in {"none", "m0", "m1", "m4", "m5"}
                      /\ ok \in BOOLEAN /\ raised \in BOOLEAN /\ ctas \subseteq Labels
  <1>1. SUFFICES Fixed' /\ Local'
    BY TodoStep, Frame DEF TypeOK, TodoOK, S3Typed, Loop
  <1>2. Fixed /\ Local /\ runs \in Nat /\ MaxRuns \in Nat
    BY TpcdsPipelineAssumption DEF TypeOK
  <1>3. CASE M0Start \/ M0Export \/ M0Open \/ M0Dump
    <2>1. script = "m0" => Head(todo) \in Tables
      BY TailFacts DEF TodoOK
    <2>2. Local'
      BY <1>2, <1>3, EndsTyped DEF M0Start, M0Export, M0Open, M0Dump, locals
    <2>3. Fixed'
      <3>1. CASE M0Start
        <4>1. runs' \in 0 .. MaxRuns
          BY <1>2, <3>1 DEF M0Start
        <4>2. exported' = {} /\ UNCHANGED <<staged, m0, store, rid, keep, history>>
          BY <3>1 DEF M0Start
        <4> QED
          BY <1>2, <4>1, <4>2 DEF store, reads, history
      <3>2. CASE M0Export
        BY <1>2, <2>1, <3>2 DEF M0Export, store, reads, history
      <3>3. CASE M0Open \/ M0Dump
        BY <1>2, <3>3 DEF M0Open, M0Dump, store, reads, history
      <3> QED
        BY <1>3, <3>1, <3>2, <3>3
    <2> QED
      BY <2>2, <2>3
  <1>4. CASE M1Start \/ M1Remove \/ M1Write \/ M1Verify
    <2>1. Local'
      BY <1>2, <1>4, EndsTyped DEF M1Start, M1Remove, M1Write, M1Verify, locals
    <2>3. Fixed'
      <3>1. CASE M1Start
        <4>1. runs' \in 0 .. MaxRuns /\ begun' \subseteq Tasks
          BY <1>2, <3>1, M1Plans
        <4>2. UNCHANGED <<input, store, rid, keep, made, warned>>
          BY <3>1 DEF M1Start
        <4> QED
          BY <1>2, <3>1, <4>1, <4>2 DEF input, store, reads
      <3>2. CASE M1Remove
        BY <1>2, <3>2 DEF M1Remove, input, reads, history
      <3>3. CASE M1Write
        BY <1>2, <3>3 DEF M1Write, input, reads, history
      <3>4. CASE M1Verify
        BY <1>2, <3>4 DEF M1Verify, input, store, reads, history
      <3> QED
        BY <1>4, <3>1, <3>2, <3>3, <3>4
    <2> QED
      BY <2>1, <2>3
  <1>5. CASE M1Save
    <2>a. task \in Tasks
      BY <1>5, M1Places DEF M1Save
    <2>b. du_s3(task) \subseteq Dir
      BY <2>a, ListingFacts DEF du_s3
    <2>c. Begun \subseteq Tasks
      <3>1. begun \subseteq Tasks
        BY DEF TypeOK
      <3> QED
        BY <2>a, <3>1 DEF Begun
    <2>1. du_s3(task) \subseteq Dir /\ Begun \subseteq Tasks
      BY <2>b, <2>c
    <2>2. Fixed'
      BY <1>2, <1>5, <2>1, RecordedTyped DEF M1Save, input, reads
    <2>3. Local'
      BY <1>2, <1>5, RecordedTyped, EndsTyped DEF M1Save, NextTask
    <2> QED
      BY <2>2, <2>3
  <1>6. CASE M2Run \/ M3Run
    <2>1. \A k \in Tasks : du_s3(k) \subseteq Dir
      BY ListingFacts DEF du_s3
    <2>2. Fixed'
      BY <1>2, <1>6, <2>1 DEF M2Run, M3Run, input, reads, history
    <2> QED
      BY <1>2, <1>6, <2>2 DEF M2Run, M3Run, locals
  <1>7. CASE M4Start \/ ensure_lance_bitmap_index \/ M4Filter \/ OthersIndex \/ OthersTable
    <2>1. Local'
      BY <1>2, <1>7, EndsTyped DEF M4Start, ensure_lance_bitmap_index, M4Filter, OthersIndex, OthersTable, locals
    <2>2. Fixed'
      <3>1. CASE M4Start
        BY <1>2, <3>1 DEF M4Start, input, store, reads, history
      <3>2. CASE ensure_lance_bitmap_index
        BY <1>2, <3>2 DEF ensure_lance_bitmap_index, input, reads, history
      <3>3. CASE M4Filter
        <4>1. filters'.bitmap \in BOOLEAN
          <5>1. CASE UNCHANGED filters
            BY <1>2, <5>1
          <5>2. CASE \E l, i : filters' = [bitmap |-> index = "Bitmap", lance |-> l, iceberg |-> i]
            <6>1. PICK l, i : filters' = [bitmap |-> index = "Bitmap", lance |-> l, iceberg |-> i]
              BY <5>2
            <6>2. (index = "Bitmap") \in BOOLEAN
              OBVIOUS
            <6> QED
              BY <6>1, <6>2
          <5> QED
            BY <3>3, <5>1, <5>2 DEF M4Filter
        <4>2. UNCHANGED <<input, manifest, sizes, out, index, runs, rid, keep, history>>
          BY <3>3 DEF M4Filter
        <4> QED
          BY <1>2, <4>1, <4>2 DEF input, history
      <3>4. CASE OthersIndex
        BY <1>2, <3>4 DEF OthersIndex, input, reads, history
      <3>5. CASE OthersTable
        BY <1>2, <3>5 DEF OthersTable, input, reads, history
      <3> QED
        BY <1>7, <3>1, <3>2, <3>3, <3>4, <3>5
    <2> QED
      BY <2>1, <2>2
  <1>8. CASE M5Start \/ M5Remove \/ s3_cp_recursive \/ iceberg_ctas_copy
    <2>1. M5Remove \/ s3_cp_recursive \/ iceberg_ctas_copy => label \in Labels /\ work \in Dir /\ copy \in Dir
      BY M5Places DEF M5Remove, s3_cp_recursive, iceberg_ctas_copy, Loop
    <2>2. Local'
      BY <1>2, <1>8, <2>1 DEF M5Start, M5Remove, s3_cp_recursive, iceberg_ctas_copy, Goto, GotoFinally
    <2>3. Fixed'
      <3>1. CASE M5Start
        <4>1. runs' \in 0 .. MaxRuns
          BY <1>2, <3>1 DEF M5Start
        <4>2. UNCHANGED <<input, store, begun>>
          BY <3>1 DEF M5Start
        <4>3. rid' \in RunIds /\ keep' \in BOOLEAN /\ made' = {} /\ warned' = FALSE
          BY <3>1, Zenon DEF M5Start
        <4> QED
          BY <1>2, <4>1, <4>2, <4>3 DEF input, store, reads
      <3>2. CASE M5Remove
        BY <1>2, <3>2 DEF M5Remove, input, reads
      <3>3. CASE s3_cp_recursive
        <4>1. made' = made \cup {work}
          BY <3>3 DEF s3_cp_recursive
        <4>2. UNCHANGED <<input, manifest, sizes, out, index, reads, runs, rid, keep, begun, warned>>
          BY <3>3 DEF s3_cp_recursive
        <4> QED
          BY <1>2, <2>1, <3>3, <4>1, <4>2 DEF input, reads
      <3>4. CASE iceberg_ctas_copy
        <4>1. made' = made \cup {copy}
          BY <3>4 DEF iceberg_ctas_copy
        <4>2. UNCHANGED <<input, manifest, sizes, out, index, reads, runs, rid, keep, begun, warned>>
          BY <3>4 DEF iceberg_ctas_copy
        <4> QED
          BY <1>2, <2>1, <3>4, <4>1, <4>2 DEF input, reads
      <3> QED
        BY <1>8, <3>1, <3>2, <3>3, <3>4
    <2> QED
      BY <2>2, <2>3
  <1>9. CASE M5Lance \/ M5Iceberg
    <2>1. label \in Labels /\ work \in Dir /\ copy \in Dir
      BY <1>9, M5Places DEF M5Lance, M5Iceberg, Loop
    <2>2. S3Typed
      BY DEF S3Typed, TypeOK
    <2>3. results' \in [Labels -> [lance : Data \cup {"error"}, iceberg : Data \cup {"error"}]]
      <3>1. CASE M5Lance
        <4>1. PICK v \in {s3[work].data, "error"} : results' = [results EXCEPT ![label]["lance"] = v]
          BY <2>1, <2>2, <3>1, DeleteFacts DEF M5Lance
        <4> QED
          BY <2>1, <4>1, ResultsTyped
      <3>2. CASE M5Iceberg
        <4>1. PICK v \in {s3[copy].data, "error"} : results' = [results EXCEPT ![label]["iceberg"] = v]
          BY <2>1, <2>2, <3>2, DeleteFacts DEF M5Iceberg
        <4> QED
          BY <2>1, <4>1, ResultsTyped
      <3> QED
        BY <1>9, <3>1, <3>2
    <2>4. Local'
      BY <1>2, <1>9, <2>3 DEF M5Lance, M5Iceberg, Goto
    <2>5. Fixed'
      BY <1>2, <1>9 DEF M5Lance, M5Iceberg, input, reads
    <2> QED
      BY <2>4, <2>5
  <1>10. CASE M5Interrupt \/ M5Drop \/ M5RemoveRoot \/ M5Save \/ Kill
    <2>1. Local'
      BY <1>2, <1>10, EndsTyped DEF M5Interrupt, M5Drop, M5RemoveRoot, M5Save, Kill, GotoFinally, locals
    <2>2. Fixed'
      BY <1>2, <1>10 DEF M5Interrupt, M5Drop, M5RemoveRoot, M5Save, Kill, input, store, reads, history
    <2> QED
      BY <2>1, <2>2
  <1> QED
    BY <1>3, <1>4, <1>5, <1>6, <1>7, <1>8, <1>9, <1>10 DEF Next

-----------------------------------------------------------------------------
(* M0 and M1.                                                              *)

(* Only M0 and M1 write what the manifests rest on.                        *)
LEMMA OnlyM0AndM1 ==
    ASSUME Next
    PROVE  /\ ~(M0Start \/ M0Export \/ M0Open \/ M0Dump) => UNCHANGED input
           /\ ~(M1Start \/ M1Remove \/ M1Write \/ M1Verify \/ M1Save)
                 => UNCHANGED <<manifest, begun>> /\ (script' = "m1" => Kill)
  <1>1. CASE M0Start \/ M0Export \/ M0Open \/ M0Dump
    BY <1>1 DEF M0Start, M0Export, M0Open, M0Dump, Ends, locals, store, history
  <1>2. CASE M1Start \/ M1Remove \/ M1Write \/ M1Verify \/ M1Save
    BY <1>2 DEF M1Start, M1Remove, M1Write, M1Verify, M1Save
  <1>3. CASE M2Run \/ M3Run \/ M4Start \/ ensure_lance_bitmap_index \/ M4Filter \/ OthersIndex \/ OthersTable
    BY <1>3 DEF M2Run, M3Run, M4Start, ensure_lance_bitmap_index, M4Filter, OthersIndex, OthersTable, Ends, store, history
  <1>4. CASE M5Start \/ M5Remove \/ s3_cp_recursive \/ iceberg_ctas_copy \/ M5Lance \/ M5Iceberg
    BY <1>4 DEF M5Start, M5Remove, s3_cp_recursive, iceberg_ctas_copy, M5Lance, M5Iceberg, store
  <1>5. CASE M5Interrupt \/ M5Drop \/ M5RemoveRoot \/ M5Save \/ Kill
    BY <1>5 DEF M5Interrupt, M5Drop, M5RemoveRoot, M5Save, Kill, Ends, store, history
  <1> QED
    BY <1>1, <1>2, <1>3, <1>4, <1>5 DEF Next

(* Records and results are those of the script that runs.                  *)
LEMMA LocalsStep ==
    ASSUME LocalsOK, Next
    PROVE  LocalsOK'
  <1>1. CASE M0Start \/ M0Export \/ M0Open \/ M0Dump
    BY <1>1 DEF M0Start, M0Export, M0Open, M0Dump, Ends, locals, LocalsOK
  <1>2. CASE M1Start \/ M1Remove \/ M1Write \/ M1Verify \/ M1Save
    BY <1>2 DEF M1Start, M1Remove, M1Write, M1Verify, M1Save, NextTask, Ends, locals, LocalsOK
  <1>3. CASE M2Run \/ M3Run \/ M4Start \/ ensure_lance_bitmap_index \/ M4Filter \/ OthersIndex \/ OthersTable
    BY <1>3 DEF M2Run, M3Run, M4Start, ensure_lance_bitmap_index, M4Filter, OthersIndex, OthersTable, Ends, locals, LocalsOK
  <1>4. CASE M5Start \/ M5Remove \/ s3_cp_recursive \/ iceberg_ctas_copy \/ M5Lance \/ M5Iceberg
    BY <1>4 DEF M5Start, M5Remove, s3_cp_recursive, iceberg_ctas_copy, M5Lance, M5Iceberg, LocalsOK
  <1>5. CASE M5Interrupt \/ M5Drop \/ M5RemoveRoot \/ M5Save \/ Kill
    BY <1>5 DEF M5Interrupt, M5Drop, M5RemoveRoot, M5Save, Kill, Ends, locals, LocalsOK
  <1> QED
    BY <1>1, <1>2, <1>3, <1>4, <1>5 DEF Next

(* M0 never names a table that it has not uploaded.                        *)
LEMMA ExportsStep ==
    ASSUME ExportsOK, m0.tables \subseteq staged, Next
    PROVE  ExportsOK' /\ m0'.tables \subseteq staged'
  <1>1. CASE M0Start \/ M0Export
    BY <1>1 DEF M0Start, M0Export, Ends, ExportsOK
  <1>2. CASE M0Open \/ M0Dump
    BY <1>2 DEF M0Open, M0Dump, Ends, ExportsOK
  <1>3. CASE ~(M0Start \/ M0Export \/ M0Open \/ M0Dump)
    BY <1>3, OnlyM0AndM1 DEF input, ExportsOK
  <1> QED
    BY <1>1, <1>2, <1>3

(* What the manifest calls ok is whole, but for what M1 rewrites or failed *)
(* to rewrite.                                                             *)
OkIsWhole == \A k \in Tasks \ begun : manifest[k] = "ok" => s3[k].data = "whole"

(* M1's records and manifest stay true through its writes, and through all *)
(* other scripts.                                                          *)
LEMMA WritesStep ==
    ASSUME TypeOK, TodoOK, LocalsOK, WritesOK, OkIsWhole, Next
    PROVE  WritesOK' /\ OkIsWhole'
  <1>1. CASE M1Start
    <2>1. UNCHANGED <<s3, manifest, records>> /\ pc' = "rm"
      BY <1>1 DEF M1Start, store
    <2>2. begun \subseteq begun' /\ task' \in begun'
      BY <1>1, M1Plans DEF task
    <2>3. \A k \in Tasks : records[k] = "absent"
      BY <1>1 DEF M1Start, LocalsOK, NoRecords
    <2> QED
      BY <2>1, <2>2, <2>3 DEF WritesOK, OkIsWhole
  <1>2. CASE script = "m1" /\ (M1Remove \/ M1Write \/ M1Verify \/ Kill)
    <2>1. /\ \A k \in Tasks \ {task} : s3'[k] = s3[k]
          /\ task \in Tasks
      BY <1>2, CopiesStay, M1Places
    <2>2. UNCHANGED <<manifest, begun>>
      BY <1>2 DEF M1Remove, M1Write, M1Verify, Kill, store, history
    <2>3. (manifest[task] # "ok" /\ records[task] # "ok") \/ task \in begun
      BY <1>2, <2>1 DEF WritesOK
    <2>4. OkIsWhole'
      BY <2>1, <2>2, <2>3 DEF OkIsWhole
    <2>5. CASE script' # "m1"
      BY <2>4, <2>5 DEF WritesOK
    <2>6. CASE script' = "m1"
      <3>1. UNCHANGED <<records, todo>>
        BY <1>2, <2>6 DEF M1Remove, M1Write, M1Verify, Kill, Ends, locals
      <3>2. \A k \in Tasks \ begun' : records'[k] = "ok" => s3'[k].data = "whole"
        BY <1>2, <2>1, <2>2, <2>3, <3>1 DEF WritesOK
      <3>3. pc' = "save" /\ ok' => s3'[task].data = "whole"
        <4>1. CASE M1Remove \/ M1Write
          BY <4>1, <2>6 DEF M1Remove, M1Write, Ends
        <4>2. CASE M1Verify
          <5>1. s3' = s3 /\ ok' \in {FALSE, s3[task].data = "whole"}
            BY <4>2 DEF M1Verify, store
          <5> QED
            BY <5>1
        <4>3. CASE Kill
          BY <4>3, <2>6 DEF Kill, Ends
        <4> QED
          BY <1>2, <4>1, <4>2, <4>3
      <3> QED
        BY <1>2, <2>2, <2>4, <3>1, <3>2, <3>3 DEF WritesOK, task
    <2> QED
      BY <2>4, <2>5, <2>6
  <1>3. CASE M1Save
    <2>1. /\ s3' = s3 /\ manifest' = Recorded /\ begun' = Begun /\ pc = "save" /\ script = "m1"
          /\ task \in Tasks /\ Tail(todo) \in Seq(Tasks)
      BY <1>3, M1Places DEF M1Save
    <2>2. ASSUME NEW k \in Tasks \ Begun, Recorded[k] = "ok" PROVE s3[k].data = "whole"
      <3>1. Recorded[k] = IF k = task THEN IF ok \/ records[task] = "ok" THEN "ok" ELSE "failed"
                                      ELSE records[k]
        BY <2>1 DEF Recorded, TypeOK
      <3>2. CASE k = task
        <4>1. ok
          BY <2>1, <2>2, <3>1, <3>2 DEF Begun
        <4> QED
          BY <2>1, <3>2, <4>1 DEF WritesOK
      <3>3. CASE k # task
        <4>1. records[k] = "ok" /\ k \notin begun
          BY <2>2, <3>1, <3>3 DEF Begun
        <4> QED
          BY <2>1, <4>1 DEF WritesOK
      <3> QED
        BY <3>2, <3>3
    <2>3. script' = "m1" => records' = Recorded /\ pc' = "rm" /\ todo' = Tail(todo) /\ Tail(todo) # <<>>
      BY <1>3 DEF M1Save, NextTask, Ends
    <2>4. script' = "m1" => Recorded[task'] # "ok" \/ task' \in Begun
      <3> SUFFICES ASSUME script' = "m1", Recorded[Head(Tail(todo))] = "ok" PROVE Head(Tail(todo)) \in Begun
        BY <2>3 DEF task
      <3>1. Head(Tail(todo)) \in Tasks
        BY <2>1, <2>3, TailFacts
      <3> QED
        BY <2>3, <3>1 DEF Begun
    <2> QED
      BY <2>1, <2>2, <2>3, <2>4 DEF WritesOK, OkIsWhole
  <1>4. CASE script # "m1" /\ ~M1Start
    <2>1. UNCHANGED <<manifest, begun>> /\ script' # "m1"
      <3>1. ~(M1Start \/ M1Remove \/ M1Write \/ M1Verify \/ M1Save)
        BY <1>4 DEF M1Remove, M1Write, M1Verify, M1Save
      <3> QED
        BY <3>1, OnlyM0AndM1 DEF Kill, Ends
    <2>2. \A k \in Tasks : s3'[k] = s3[k]
      BY <1>4, TablesStay
    <2> QED
      BY <2>1, <2>2 DEF WritesOK, OkIsWhole
  <1>5. script = "m1" => M1Remove \/ M1Write \/ M1Verify \/ M1Save \/ Kill
    BY DEF Next, M0Start, M0Export, M0Open, M0Dump, M1Start, M2Run, M3Run, M4Start, ensure_lance_bitmap_index,
           M4Filter, OthersIndex, OthersTable, M5Start, M5Remove, s3_cp_recursive, iceberg_ctas_copy, M5Lance, M5Iceberg,
           M5Interrupt, M5Drop, M5RemoveRoot, M5Save
  <1> QED
    BY <1>1, <1>2, <1>3, <1>4, <1>5

-----------------------------------------------------------------------------
(* M5's copies.                                                            *)

(* A script that is started on the source finds it as the manifest says,   *)
(* and nobody touches it until the script ends.                            *)
LEMMA SourceStep ==
    ASSUME TypeOK, TodoOK, OkIsWhole, SourceOK, Next
    PROVE  SourceOK'
  <1>1. CASE M4Start \/ M5Start
    <2>1. UNCHANGED <<s3, begun>> /\ InBothFormats(Source)
      BY <1>1 DEF M4Start, M5Start, store, history
    <2>2. manifest[LanceSrc] = "ok" /\ manifest[IcebergSrc] = "ok"
      BY <2>1, TaskShape DEF InBothFormats, LanceSrc, IcebergSrc, Formats, ToSet
    <2> QED
      BY <2>1, <2>2, TaskShape DEF OkIsWhole, SourceOK
  <1>2. CASE script \in {"m4", "m5"}
    <2>1. \A k \in Tasks : s3'[k] = s3[k]
      BY <1>2, TablesStay
    <2>2. UNCHANGED begun
      BY <1>2, OnlyM0AndM1 DEF M1Start, M1Remove, M1Write, M1Verify, M1Save
    <2> QED
      BY <1>2, <2>1, <2>2, TaskShape DEF SourceOK
  <1>3. CASE script \notin {"m4", "m5"} /\ ~(M4Start \/ M5Start)
    <2>1. script' \notin {"m4", "m5"}
      BY <1>3 DEF Next, M0Start, M0Export, M0Open, M0Dump, M1Start, M1Remove, M1Write, M1Verify, M1Save, M2Run,
             M3Run, ensure_lance_bitmap_index, M4Filter, OthersIndex, OthersTable, M5Remove, s3_cp_recursive, iceberg_ctas_copy,
             M5Lance, M5Iceberg, M5Interrupt, M5Drop, M5RemoveRoot, M5Save, Kill, NextTask, Ends, locals
    <2> QED
      BY <2>1 DEF SourceOK
  <1> QED
    BY <1>1, <1>2, <1>3

(* A measurement joins the others.                                         *)
LEMMA FreshResult ==
    ASSUME TypeOK, CopiesAreFresh, script = "m5", script' = "m5", NEW l \in Labels,
           UNCHANGED begun, warned => warned',
           NEW fmt \in {"lance", "iceberg"}, NEW v,
           results' = [results EXCEPT ![l][fmt] = v],
           v \in {"error", "whole"} \/ (fmt = "lance" /\ (warned \/ LanceSrc \in begun))
                                   \/ (fmt = "iceberg" /\ IcebergSrc \in begun)
    PROVE  CopiesAreFresh'
  <1>1. results[l] \in [lance : Data \cup {"error"}, iceberg : Data \cup {"error"}]
    BY DEF TypeOK
  <1>2. results' = [results EXCEPT ![l] = [results[l] EXCEPT ![fmt] = v]]
    OBVIOUS
  <1>3. \A m \in Labels \ {l} : results'[m] = results[m]
    BY <1>2 DEF TypeOK
  <1>4. results'[l] = [results[l] EXCEPT ![fmt] = v]
    BY <1>2 DEF TypeOK
  <1>5. CASE fmt = "lance"
    <2>1. results'[l].lance = v /\ results'[l].iceberg = results[l].iceberg
      BY <1>1, <1>4, <1>5
    <2> QED
      BY <1>3, <1>5, <2>1 DEF CopiesAreFresh
  <1>6. CASE fmt = "iceberg"
    <2>1. results'[l].iceberg = v /\ results'[l].lance = results[l].lance
      BY <1>1, <1>4, <1>6
    <2> QED
      BY <1>3, <1>6, <2>1 DEF CopiesAreFresh
  <1> QED
    BY <1>5, <1>6

(* A copy is made where nothing was, and measured before anything is       *)
(* deleted from it.                                                        *)
LEMMA CopiesStep ==
    ASSUME TypeOK, TodoOK, LocalsOK, SourceOK, CopiesOK, CopiesAreFresh, Next
    PROVE  CopiesOK' /\ CopiesAreFresh'
  <1>0. S3Typed
    BY DEF TypeOK, S3Typed
  <1>1. CASE script' # "m5"
    BY <1>1 DEF CopiesOK, CopiesAreFresh
  <1>2. CASE M5Start
    <2>1. results' = NoResults /\ pc' \in {"drop", "rm"}
      BY <1>2 DEF M5Start, LocalsOK
    <2>2. CopiesOK'
      BY <2>1 DEF CopiesOK
    <2>3. CopiesAreFresh'
      BY <2>1 DEF CopiesAreFresh, NoResults, NotMeasured
    <2> QED
      BY <2>2, <2>3
  <1>3. CASE M5Remove
    <2>1. /\ UNCHANGED <<results, begun, todo, rid>> /\ pc' \in {"cp", "drop"} /\ (warned => warned')
          /\ script = "m5" /\ work \in Dir
      BY <1>3, M5Places DEF M5Remove, Goto, GotoFinally, Loop
    <2>2. pc' = "cp" => warned' \/ s3'[work].data = "none"
      <3>1. PICK r \in s3_rm_prefix({work}) :
               /\ s3' = r.s3 /\ warned' = (warned \/ r.rc # "ok")
        BY <1>3 DEF M5Remove
      <3>2. r.rc = "ok" => r.s3[work].data = "none"
        BY <2>1, RemovalFacts
      <3> QED
        BY <3>1, <3>2
    <2>3. CopiesOK'
      BY <2>1, <2>2 DEF CopiesOK, work, label
    <2>4. CopiesAreFresh'
      BY <2>1 DEF CopiesAreFresh
    <2> QED
      BY <2>3, <2>4
  <1>4. CASE s3_cp_recursive
    <2>1. /\ UNCHANGED <<results, begun, todo, rid, warned>> /\ pc' \in {"ctas", "drop"}
          /\ script = "m5" /\ pc = "cp" /\ work \in Dir
      BY <1>4, M5Places DEF s3_cp_recursive, Goto, GotoFinally, Loop
    <2>2. pc' = "ctas" => warned \/ LanceSrc \in begun \/ s3'[work].data = "whole"
      <3>1. SUFFICES ASSUME pc' = "ctas", ~warned, LanceSrc \notin begun
                     PROVE  s3'[work].data = "whole"
        OBVIOUS
      <3>2. s3[LanceSrc].data = "whole" /\ s3[work].data = "none"
        BY <2>1, <3>1 DEF SourceOK, CopiesOK
      <3>3. PICK data \in Copied : s3' = [s3 EXCEPT ![work] = New(work, data, ~Empty(s3[work]))]
        BY <1>4, <3>1 DEF s3_cp_recursive, GotoFinally
      <3>4. data = "whole"
        BY <3>2, <3>3 DEF Copied
      <3> QED
        BY <1>0, <2>1, <3>3, <3>4 DEF S3Typed, New
    <2>3. CopiesOK'
      BY <2>1, <2>2 DEF CopiesOK, work, label
    <2>4. CopiesAreFresh'
      BY <2>1 DEF CopiesAreFresh
    <2> QED
      BY <2>3, <2>4
  <1>5. CASE iceberg_ctas_copy
    <2>1. /\ UNCHANGED <<results, begun, todo, rid, warned>> /\ pc' \in {"lance", "drop"}
          /\ script = "m5" /\ pc = "ctas" /\ work \in Dir /\ copy \in Dir /\ work # copy
      BY <1>5, M5Places DEF iceberg_ctas_copy, Goto, GotoFinally, Loop
    <2>2. s3'[work] = s3[work]
      BY <2>1, Frame DEF MayTouch
    <2>3. pc' = "lance" => IcebergSrc \in begun \/ s3'[copy].data = "whole"
      <3>1. SUFFICES ASSUME pc' = "lance", IcebergSrc \notin begun
                     PROVE  s3'[copy].data = "whole"
        OBVIOUS
      <3>2. s3[IcebergSrc].data = "whole"
        BY <2>1, <3>1 DEF SourceOK
      <3>3. PICK c \in Dropped(copy) : s3' = [s3 EXCEPT ![copy] = New(copy, s3[IcebergSrc].data, ~Empty(c))]
        BY <1>5, <3>1 DEF iceberg_ctas_copy, GotoFinally
      <3> QED
        BY <1>0, <2>1, <3>2, <3>3 DEF S3Typed, New
    <2>4. CopiesOK'
      BY <2>1, <2>2, <2>3 DEF CopiesOK, work, copy, label
    <2>5. CopiesAreFresh'
      BY <2>1 DEF CopiesAreFresh
    <2> QED
      BY <2>4, <2>5
  <1>6. CASE M5Lance
    <2>1. /\ UNCHANGED <<begun, todo, rid, warned>> /\ pc' = "iceberg" /\ script' = "m5"
          /\ script = "m5" /\ pc = "lance" /\ label \in Labels
          /\ work \in Dir /\ copy \in Dir /\ work # copy
      BY <1>6, M5Places DEF M5Lance, Goto, Loop
    <2>2. s3'[copy] = s3[copy]
      BY <2>1, Frame DEF MayTouch
    <2>3. CopiesOK'
      BY <2>1, <2>2 DEF CopiesOK, copy, label
    <2>4. PICK v \in {s3[work].data, "error"} : results' = [results EXCEPT ![label]["lance"] = v]
      BY <1>0, <1>6, <2>1, DeleteFacts DEF M5Lance
    <2>5. v \in {"error", "whole"} \/ warned \/ LanceSrc \in begun
      BY <2>1, <2>4 DEF CopiesOK
    <2> QED
      BY <2>1, <2>3, <2>4, <2>5, FreshResult
  <1>7. CASE M5Iceberg
    <2>1. /\ UNCHANGED <<begun, warned>> /\ pc' \in {"drop", "rm"} /\ script' = "m5"
          /\ script = "m5" /\ pc = "iceberg" /\ label \in Labels /\ copy \in Dir
      BY <1>7, M5Places DEF M5Iceberg, Goto, Loop
    <2>2. CopiesOK'
      BY <2>1 DEF CopiesOK
    <2>3. PICK v \in {s3[copy].data, "error"} : results' = [results EXCEPT ![label]["iceberg"] = v]
      BY <1>0, <1>7, <2>1, DeleteFacts DEF M5Iceberg
    <2>4. v \in {"error", "whole"} \/ IcebergSrc \in begun
      BY <2>1, <2>3 DEF CopiesOK
    <2> QED
      BY <2>1, <2>2, <2>3, <2>4, FreshResult
  <1>8. CASE script' = "m5" /\ (M5Interrupt \/ M5Drop \/ M5RemoveRoot)
    <2>1. UNCHANGED <<results, begun>> /\ (warned => warned') /\ pc' \in {"drop", "rmroot", "save"} /\ script = "m5"
      <3>1. CASE M5Interrupt
        BY <3>1 DEF M5Interrupt, GotoFinally
      <3>2. CASE M5Drop
        BY <1>8, <3>2 DEF M5Drop, Ends, locals
      <3>3. CASE M5RemoveRoot
        <4>1. PICK r : /\ warned' = (warned \/ r.rc # "ok")
                       /\ IF raised \/ r.rc = "timeout" THEN Ends ELSE pc' = "save" /\ UNCHANGED <<script, locals>>
          BY <3>3 DEF M5RemoveRoot
        <4> QED
          BY <1>8, <3>3, <4>1 DEF M5RemoveRoot, Ends, locals
      <3> QED
        BY <1>8, <3>1, <3>2, <3>3
    <2> QED
      BY <2>1 DEF CopiesOK, CopiesAreFresh
  <1>9. script' = "m5" => \/ M5Start \/ M5Remove \/ s3_cp_recursive \/ iceberg_ctas_copy \/ M5Lance \/ M5Iceberg
                         \/ M5Interrupt \/ M5Drop \/ M5RemoveRoot
    BY DEF Next, M0Start, M0Export, M0Open, M0Dump, M1Start, M1Remove, M1Write, M1Verify, M1Save, M2Run, M3Run,
           M4Start, ensure_lance_bitmap_index, M4Filter, OthersIndex, OthersTable, M5Save, Kill, NextTask, Ends, locals
  <1> QED
    BY <1>1, <1>2, <1>3, <1>4, <1>5, <1>6, <1>7, <1>8, <1>9

(* Whatever goes wrong, the clean-up knows of all that was made.           *)
LEMMA CleanUpStep ==
    ASSUME TypeOK, TodoOK, CleanUpOK, Next
    PROVE  CleanUpOK'
  <1>1. CASE M5Start
    BY <1>1 DEF M5Start, CleanUpOK, Gone, Loop
  <1>2. CASE M5Remove
    <2>1. /\ UNCHANGED <<made, todo, rid>> /\ ctas' = ctas \cup {label} /\ pc' \in {"cp", "drop"}
          /\ script = "m5" /\ script' = "m5"
      BY <1>2 DEF M5Remove, Goto, GotoFinally
    <2> QED
      BY <2>1 DEF CleanUpOK, label, Loop
  <1>3. CASE s3_cp_recursive
    <2>1. /\ UNCHANGED <<todo, rid, ctas>> /\ made' = made \cup {work} /\ pc' \in {"ctas", "drop"}
          /\ script = "m5" /\ script' = "m5" /\ pc = "cp" /\ work \notin Tasks \cup {M6Dir}
      BY <1>3, M5Places DEF s3_cp_recursive, Goto, GotoFinally, Loop
    <2> QED
      BY <2>1 DEF CleanUpOK, label, work, Loop
  <1>4. CASE iceberg_ctas_copy
    <2>1. /\ UNCHANGED <<todo, rid, ctas>> /\ made' = made \cup {copy} /\ pc' \in {"lance", "drop"}
          /\ script = "m5" /\ script' = "m5" /\ pc = "ctas" /\ copy \notin Tasks \cup {M6Dir}
      BY <1>4, M5Places DEF iceberg_ctas_copy, Goto, GotoFinally, Loop
    <2> QED
      BY <2>1 DEF CleanUpOK, label, copy, Loop
  <1>5. CASE M5Lance
    BY <1>5 DEF M5Lance, Goto, CleanUpOK, label, Loop
  <1>6. CASE M5Iceberg
    <2>1. /\ UNCHANGED <<made, rid, ctas>> /\ pc' \in {"rm", "drop"} /\ script = "m5" /\ script' = "m5"
      BY <1>6 DEF M5Iceberg, Goto
    <2> QED
      BY <2>1 DEF CleanUpOK, Loop
  <1>7. CASE M5Interrupt
    BY <1>7 DEF M5Interrupt, GotoFinally, CleanUpOK, Loop
  <1>8. CASE M5Drop
    <2>1. UNCHANGED <<made, rid, keep>> /\ script = "m5"
      BY <1>8 DEF M5Drop
    <2>2. CASE keep
      BY <1>8, <2>1, <2>2 DEF M5Drop, Ends, locals, CleanUpOK, Loop
    <2>3. CASE ~keep
      <3>1. UNCHANGED ctas /\ pc' = "rmroot" /\ script' = "m5"
        BY <1>8, <2>1, <2>3 DEF M5Drop, locals
      <3>2. ~warned' => \A l \in ctas : s3'[CtasDir(l)].data = "none"
        <4>1. SUFFICES ASSUME ~warned', NEW l \in ctas PROVE s3'[CtasDir(l)].data = "none"
          OBVIOUS
        <4>2. PICK fails \in SUBSET ctas, o \in BOOLEAN :
                 /\ s3' = [d \in Dir |-> IF \E m \in ctas \ fails : d = CtasDir(m) /\ s3[d].data # "none"
                                          THEN New(d, "none", o) ELSE s3[d]]
                 /\ warned' = (warned \/ fails # {})
          BY <1>8, <2>3 DEF M5Drop
        <4>3. fails = {}
          BY <4>1, <4>2
        <4>4. CtasDir(l) \in Dir
          BY DirsApart DEF TypeOK
        <4>5. s3'[CtasDir(l)] = IF s3[CtasDir(l)].data # "none" THEN New(CtasDir(l), "none", o) ELSE s3[CtasDir(l)]
          BY <4>2, <4>3, <4>4
        <4> QED
          BY <4>5 DEF New
      <3> QED
        BY <2>1, <2>3, <3>1, <3>2 DEF CleanUpOK, Loop
    <2> QED
      BY <2>2, <2>3
  <1>9. CASE M5RemoveRoot
    <2> DEFINE roots == {WorkDir(rid, l) : l \in Labels}
    <2>1. PICK r \in s3_rm_prefix(roots) :
             /\ s3' = r.s3 /\ warned' = (warned \/ r.rc # "ok")
             /\ IF raised \/ r.rc = "timeout" THEN Ends ELSE pc' = "save" /\ UNCHANGED <<script, locals>>
      BY <1>9 DEF M5RemoveRoot
    <2>2. UNCHANGED <<made, rid, keep>> /\ script = "m5" /\ pc = "rmroot"
      BY <1>9 DEF M5RemoveRoot
    <2>3. roots \in SUBSET Dir
      BY DirsApart DEF TypeOK
    <2>4. ~warned' => Gone'
      <3>1. SUFFICES ASSUME ~warned', NEW d \in made PROVE s3'[d].data = "none"
        BY <2>2 DEF Gone
      <3>2. ~warned /\ r.rc = "ok"
        BY <2>1, <3>1
      <3>3. PICK l \in ctas : d \in {CtasDir(l), WorkDir(rid, l)}
        BY <2>2 DEF CleanUpOK
      <3>4. CASE d = WorkDir(rid, l)
        <4>1. d \in roots
          BY <3>4 DEF TypeOK
        <4> QED
          BY <2>1, <2>3, <3>2, <4>1, RemovalFacts
      <3>5. CASE d = CtasDir(l)
        <4>1. d \in Dir \ roots
          BY <3>5, DirsApart DEF TypeOK
        <4>2. s3[d].data = "none"
          BY <2>2, <3>2, <3>5 DEF CleanUpOK
        <4> QED
          BY <2>1, <2>3, <4>1, <4>2, RemovalFacts
      <3> QED
        BY <3>3, <3>4, <3>5
    <2>5. CASE Ends
      BY <2>2, <2>4, <2>5 DEF Ends, CleanUpOK
    <2>6. CASE pc' = "save" /\ UNCHANGED <<script, locals>>
      BY <2>2, <2>4, <2>6 DEF locals, CleanUpOK, Loop
    <2> QED
      BY <2>1, <2>5, <2>6
  <1>10. CASE M5Save
    BY <1>10 DEF M5Save, Ends, history, CleanUpOK, Gone
  <1>11. CASE Kill /\ script = "m5"
    <2>1. UNCHANGED made /\ script' = "none" /\ warned'
      BY <1>11 DEF Kill, Ends
    <2> QED
      BY <2>1 DEF CleanUpOK
  <1>12. CASE \/ M0Start \/ M0Export \/ M0Open \/ M0Dump \/ M1Start \/ M1Remove \/ M1Write \/ M1Verify \/ M1Save
              \/ M2Run \/ M3Run \/ M4Start \/ ensure_lance_bitmap_index \/ M4Filter \/ OthersIndex \/ OthersTable
              \/ (Kill /\ script # "m5")
    <2>1. script # "m5" /\ script' # "m5" /\ UNCHANGED <<made, keep>> /\ (warned' <=> warned)
      <3>1. CASE M0Start \/ M0Export \/ M0Open \/ M0Dump
        BY <3>1 DEF M0Start, M0Export, M0Open, M0Dump, Ends, locals, history
      <3>2. CASE M1Start \/ M1Remove \/ M1Write \/ M1Verify \/ M1Save
        <4>1. CASE M1Start \/ M1Remove \/ M1Write \/ M1Verify
          <5>1. UNCHANGED <<made, keep, warned>> /\ script # "m5" /\ script' # "m5"
            <6>1. CASE M1Start
              BY <6>1 DEF M1Start
            <6>2. CASE M1Remove
              BY <6>2 DEF M1Remove, Ends, history
            <6>3. CASE M1Write \/ M1Verify
              BY <6>3 DEF M1Write, M1Verify, history
            <6> QED
              BY <4>1, <6>1, <6>2, <6>3
          <5> QED
            BY <5>1
        <4>2. CASE M1Save
          BY <4>2 DEF M1Save, NextTask, Ends
        <4> QED
          BY <3>2, <4>1, <4>2
      <3>3. CASE M2Run \/ M3Run \/ M4Start \/ ensure_lance_bitmap_index \/ M4Filter \/ OthersIndex \/ OthersTable
        <4>1. CASE M2Run \/ M3Run \/ M4Start \/ ensure_lance_bitmap_index \/ M4Filter
          BY <4>1 DEF M2Run, M3Run, M4Start, ensure_lance_bitmap_index, M4Filter, Ends, locals, history
        <4>2. CASE OthersIndex
          BY <4>2 DEF OthersIndex, history
        <4>3. CASE OthersTable
          <5>1. UNCHANGED <<script, keep, history>> /\ script = "none"
            BY <4>3 DEF OthersTable
          <5> QED
            BY <5>1 DEF history
        <4> QED
          BY <3>3, <4>1, <4>2, <4>3
      <3>4. CASE Kill /\ script # "m5"
        BY <3>4 DEF Kill, Ends
      <3> QED
        BY <1>12, <3>1, <3>2, <3>3, <3>4
    <2>2. \A d \in made : d \in Dir \ (Tasks \cup {M6Dir})
      BY DEF CleanUpOK, TypeOK
    <2>3. \A d \in made : s3'[d] = s3[d]
      BY <2>1, <2>2, CopiesStay
    <2> QED
      BY <2>1, <2>3 DEF CleanUpOK, Gone
  <1> QED
    BY <1>1, <1>2, <1>3, <1>4, <1>5, <1>6, <1>7, <1>8, <1>9, <1>10, <1>11, <1>12 DEF Next

-----------------------------------------------------------------------------
(* The theorems.                                                           *)

(* The invariant holds before the first script.                            *)
LEMMA InitEstablishes == Init => PipelineInv
  <1> SUFFICES ASSUME Init PROVE PipelineInv
    OBVIOUS
  <1>1. \A d \in Dir : Absent(d) \in Content /\ Absent(d).loc = d /\ Absent(d).data = "none"
    BY DEF Absent, New, Content, Data
  <1>2. TypeOK
    <2>1. s3 \in [Dir -> Content] /\ \A d \in Dir : s3[d].loc = d
      BY <1>1 DEF Init
    <2>2. NotMeasured \in [lance : Data \cup {"error"}, iceberg : Data \cup {"error"}]
      BY DEF NotMeasured, Data
    <2>3. /\ out \in [Labels -> [lance : Data \cup {"error"}, iceberg : Data \cup {"error"}]]
          /\ results \in [Labels -> [lance : Data \cup {"error"}, iceberg : Data \cup {"error"}]]
      BY <2>2 DEF Init, NoResults
    <2>4. manifest \in [Tasks -> {"absent", "ok", "failed"}] /\ records \in [Tasks -> {"absent", "ok", "failed"}]
      BY DEF Init, NoRecords
    <2>5. sizes \in [Tasks -> SUBSET Dir]
      BY DEF Init
    <2>6. m0.state = "none" /\ m0.tables = {} /\ filters.bitmap = FALSE
      BY DEF Init, NoM0, NotFiltered
    <2>7. runs \in 0 .. MaxRuns /\ script = "none"
      BY TpcdsPipelineAssumption DEF Init
    <2>8. ok = FALSE /\ keep = FALSE /\ raised = FALSE /\ warned = FALSE
      BY DEF Init
    <2>9. rid \in RunIds /\ ctas = {} /\ begun = {} /\ made = {} /\ exported = {} /\ index = "none"
      BY DEF Init
    <2> QED
      BY <2>1, <2>3, <2>4, <2>5, <2>6, <2>7, <2>8, <2>9 DEF TypeOK
  <1>3. TodoOK /\ LocalsOK /\ ExportsOK /\ WritesOK /\ SourceOK /\ CopiesOK /\ CopiesAreFresh /\ CleanUpOK
    BY DEF Init, TodoOK, LocalsOK, ExportsOK, WritesOK, SourceOK, CopiesOK, CopiesAreFresh, CleanUpOK, Gone
  <1>4. ManifestOkMeansWhole
    BY DEF Init, ManifestOkMeansWhole, NoM0, NoRecords
  <1> QED
    BY <1>2, <1>3, <1>4 DEF PipelineInv

(* Every step preserves the invariant.                                     *)
LEMMA NextPreserves == PipelineInv /\ [Next]_vars => PipelineInv'
  <1> SUFFICES ASSUME PipelineInv, [Next]_vars PROVE PipelineInv'
    OBVIOUS
  <1>1. CASE Next
    <2>1. ManifestOkMeansWhole <=> m0.tables \subseteq staged /\ OkIsWhole
      BY DEF ManifestOkMeansWhole, OkIsWhole
    <2>2. ManifestOkMeansWhole' <=> m0'.tables \subseteq staged' /\ OkIsWhole'
      BY DEF ManifestOkMeansWhole, OkIsWhole
    <2> QED
      BY <1>1, <2>1, <2>2, TypeStep, TodoStep, LocalsStep, ExportsStep, WritesStep, SourceStep, CopiesStep, CleanUpStep
      DEF PipelineInv
  <1>2. CASE UNCHANGED vars
    BY <1>2 DEF vars, input, store, reads, locals, history, PipelineInv, TypeOK, TodoOK, LocalsOK, ExportsOK,
                WritesOK, ManifestOkMeansWhole, SourceOK, CopiesOK, CopiesAreFresh, CleanUpOK, Gone,
                task, label, work, copy
  <1> QED
    BY <1>1, <1>2

(* PipelineInv holds of every state: for any tables, any fractions, any    *)
(* run ids and any number of scripts started.                              *)
THEOREM PipelineInvariant == Spec => []PipelineInv
  BY InitEstablishes, NextPreserves, PTL DEF Spec

(* Every variable of the pipeline keeps its type, and every table writes   *)
(* where it lies (M5's location guard): for any tables and fractions.      *)
THEOREM PipelineTypeCorrect == Spec => []TypeOK
  <1>1. PipelineInv => TypeOK
    BY DEF PipelineInv
  <1> QED
    BY <1>1, PipelineInvariant, PTL

(* What the manifests of M0 and M1 promise is there, through any number of *)
(* runs that fail or are killed (M1_write_both.py, main).                  *)
THEOREM ManifestIsTrue == Spec => []ManifestOkMeansWhole
  <1>1. PipelineInv => ManifestOkMeansWhole
    BY DEF PipelineInv
  <1> QED
    BY <1>1, PipelineInvariant, PTL

(* What M5 measures without error was complete (M5_update.py, main).       *)
THEOREM MeasuresFreshCopies == Spec => []CopiesAreFresh
  <1>1. PipelineInv => CopiesAreFresh
    BY DEF PipelineInv
  <1> QED
    BY <1>1, PipelineInvariant, PTL

(* A run of M5 no removal failed in leaves no copy (M5_update.py, the      *)
(* finally clause of main).                                                *)
THEOREM LeavesNothing == Spec => []CleanRunLeavesNothing
  <1>1. PipelineInv => CleanRunLeavesNothing
    BY DEF PipelineInv, CleanUpOK, CleanRunLeavesNothing, Gone
  <1> QED
    BY <1>1, PipelineInvariant, PTL

(* An index on the source is never replaced but by M1.                     *)
LEMMA IndexStays ==
    ASSUME Next, script # "m1", index # "none"
    PROVE  index' = index
  <1>1. CASE M0Start \/ M0Export \/ M0Open \/ M0Dump \/ M1Start
    BY <1>1 DEF M0Start, M0Export, M0Open, M0Dump, M1Start, store
  <1>2. CASE M1Remove \/ M1Write \/ M1Verify \/ M1Save
    BY <1>2 DEF M1Remove, M1Write, M1Verify, M1Save
  <1>3. CASE M2Run \/ M3Run \/ M4Start \/ ensure_lance_bitmap_index \/ M4Filter \/ OthersIndex \/ OthersTable
    BY <1>3 DEF M2Run, M3Run, M4Start, ensure_lance_bitmap_index, M4Filter, OthersIndex, OthersTable, store
  <1>4. CASE M5Start \/ M5Remove \/ s3_cp_recursive \/ iceberg_ctas_copy \/ M5Lance \/ M5Iceberg
    BY <1>4 DEF M5Start, M5Remove, s3_cp_recursive, iceberg_ctas_copy, M5Lance, M5Iceberg, store
  <1>5. CASE M5Interrupt \/ M5Drop \/ M5RemoveRoot \/ M5Save \/ Kill
    BY <1>5 DEF M5Interrupt, M5Drop, M5RemoveRoot, M5Save, Kill, store
  <1> QED
    BY <1>1, <1>2, <1>3, <1>4, <1>5 DEF Next

(* Nothing but M1 changes a table of M1, although M4 builds an index on    *)
(* one and M5's copies lie in their namespace (M5_update.py:9).            *)
THEOREM TablesAreIsolated == Spec => SourceUntouched
  <1> DEFINE Kept == script # "m1" => /\ \A k \in Tasks : s3'[k] = s3[k]
                                      /\ index # "none" => index' = index
  <1>1. ASSUME PipelineInv, Next
        PROVE  Kept
    BY <1>1, TablesStay, IndexStays DEF PipelineInv
  <1>2. PipelineInv /\ [Next]_vars => [Kept]_vars
    BY <1>1
  <1> QED
    BY <1>2, PipelineInvariant, PTL DEF Spec, SourceUntouched

(* The files of M3 and M4 are written by M3 and M4 only.                   *)
LEMMA OnlyM3AndM4 ==
    ASSUME Next
    PROVE  (~M3Run => UNCHANGED scans) /\ (~M4Filter => UNCHANGED filters)
  <1>1. CASE M0Start \/ M0Export \/ M0Open \/ M0Dump \/ M1Start
    BY <1>1 DEF M0Start, M0Export, M0Open, M0Dump, M1Start, store, reads
  <1>2. CASE M1Remove \/ M1Write \/ M1Verify \/ M1Save
    BY <1>2 DEF M1Remove, M1Write, M1Verify, M1Save, store, reads
  <1>3. CASE M2Run \/ M3Run \/ M4Start \/ ensure_lance_bitmap_index \/ M4Filter \/ OthersIndex \/ OthersTable
    BY <1>3 DEF M2Run, M3Run, M4Start, ensure_lance_bitmap_index, M4Filter, OthersIndex, OthersTable, store, reads
  <1>4. CASE M5Start \/ M5Remove \/ s3_cp_recursive \/ iceberg_ctas_copy \/ M5Lance \/ M5Iceberg
    BY <1>4 DEF M5Start, M5Remove, s3_cp_recursive, iceberg_ctas_copy, M5Lance, M5Iceberg, store, reads
  <1>5. CASE M5Interrupt \/ M5Drop \/ M5RemoveRoot \/ M5Save \/ Kill
    BY <1>5 DEF M5Interrupt, M5Drop, M5RemoveRoot, M5Save, Kill, store, reads
  <1> QED
    BY <1>1, <1>2, <1>3, <1>4, <1>5 DEF Next

(* What M3 and M4 report as measured was read from complete tables         *)
(* (M3_scan.py and M4_filter.py, main).                                    *)
THEOREM ReadsAreOfWholeTables == Spec => ScansAreOfWholeTables
  <1> DEFINE M3OK == scans' # scans => \A k \in Tasks \ begun : scans'[k] \in {"none", "error", "whole"}
             M4OK == filters' # filters =>
                        /\ LanceSrc \notin begun => filters'.lance \in {"none", "error", "whole"}
                        /\ IcebergSrc \notin begun => filters'.iceberg \in {"none", "error", "whole"}
  <1>1. ASSUME PipelineInv, Next
        PROVE  M3OK
    <2>1. SUFFICES ASSUME M3Run, NEW k \in Tasks \ begun PROVE scans'[k] \in {"none", "error", "whole"}
      BY <1>1, OnlyM3AndM4
    <2>2. scans'[k] \in IF InBothFormats(k[1]) THEN {"none"} \cup Scanned(k) ELSE {"none"}
      BY <2>1 DEF M3Run
    <2>3. InBothFormats(k[1]) => manifest[k] = "ok"
      <3>1. k = <<k[1], k[2]>> /\ k[2] \in ToSet(Formats)
        BY TaskShape
      <3>2. InBothFormats(k[1]) => manifest[<<k[1], k[2]>>] = "ok"
        BY <3>1 DEF InBothFormats
      <3> QED
        BY <3>1, <3>2
    <2>4. manifest[k] = "ok" => s3[k].data = "whole"
      BY <1>1 DEF PipelineInv, ManifestOkMeansWhole
    <2> QED
      BY <2>2, <2>3, <2>4 DEF Scanned
  <1>2. ASSUME PipelineInv, Next
        PROVE  M4OK
    <2>1. SUFFICES ASSUME M4Filter, filters' # filters PROVE M4OK
      BY <1>2, OnlyM3AndM4
    <2>2. script = "m4"
      BY <2>1 DEF M4Filter
    <2>3. PICK l \in Scanned(LanceSrc) \cup {"none"}, i \in Scanned(IcebergSrc) \cup {"none"} :
             filters' = [bitmap |-> index = "Bitmap", lance |-> l, iceberg |-> i]
      BY <2>1 DEF M4Filter
    <2>4. /\ LanceSrc \notin begun => s3[LanceSrc].data = "whole"
          /\ IcebergSrc \notin begun => s3[IcebergSrc].data = "whole"
      BY <1>2, <2>2 DEF PipelineInv, SourceOK
    <2> QED
      BY <2>3, <2>4 DEF Scanned
  <1>3. PipelineInv /\ [Next]_vars => [M3OK /\ M4OK]_vars
    BY <1>1, <1>2
  <1> QED
    BY <1>3, PipelineInvariant, PTL DEF Spec, ScansAreOfWholeTables
=============================================================================
