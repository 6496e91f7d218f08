------------------------------ MODULE ImageLoader ------------------------------
(***************************************************************************)
(* ml-training-bench: build_dataset.py stores the same images as Lance     *)
(* rows and as files of their own, build_parquet.py as Parquet, and        *)
(* run_dataloader.py trains on one of the three: shuffled batches, fetched *)
(* by workers that open the data for themselves and keep it open over the  *)
(* epochs.  The data may be built again, larger or smaller, under the same *)
(* prefix while a training runs, and everything may be killed.             *)
(***************************************************************************)
EXTENDS Integers, FiniteSets, Selection

CONSTANTS
    ISizes,      \* N_IMAGES of the builds
    ILanceBatch, \* images per write_dataset
    IPartBatch,  \* images per Parquet part
    ILabels,     \* labels there are: 1000
    ILoadBatch,  \* --batch-size
    IWorkers,    \* --num-workers
    IPrefetch,   \* --prefetch
    IEpochs,     \* --epochs
    IBounds      \* bounds: how often builds, Parquet builds and trainings are started

ASSUME ImageLoaderAssumption ==
    /\ ISizes \subseteq Nat \ {0}
    /\ {ILanceBatch, IPartBatch, ILabels, ILoadBatch, IWorkers, IPrefetch, IEpochs} \subseteq Nat \ {0}
    /\ IBounds \subseteq [{"builds", "parquets", "trainings"} -> Nat]

(* An image as it is stored: its id, from which its pixels are generated,  *)
(* and its label.                                                          *)
Image(i) == [id |-> i, label |-> i % ILabels]
Images(a, b) == [j \in 1 .. b - a |-> Image(a + j - 1)]
Ids(n) == 0 .. n - 1
UpTo(a, step, n) == IF a + step < n THEN a + step ELSE n

Methods == {"raw_s3", "lance_take_blobs", "parquet"}

VARIABLES
    ilance,    \* versions of the Lance dataset: sequences of images
    iraw,      \* ids that have a file of their own
    iparts,    \* Parquet parts: part number -> sequence of images
    imeta,     \* file_list.json
    ibuild,    \* build_dataset.py: pc, images, images done
    iparquet,  \* build_parquet.py: the same, and the file list it read
    itrain,    \* run_dataloader.py
    iresult,   \* its output: of each epoch the images counted
    istarts    \* how often each was started

IVars == <<ilance, iraw, iparts, imeta, ibuild, iparquet, itrain, iresult, istarts>>

INoMeta    == [state |-> "none", n_images |-> 0]
IBuildIdle == [pc |-> "none", n |-> 0, done |-> 0]
INotOpen   == 0
ITrainIdle == [pc |-> "none", method |-> "raw_s3", n |-> 0, batches |-> <<>>, fetched |-> <<>>,
               handles |-> [w \in 1 .. IWorkers |-> INotOpen], seen |-> <<>>, epochs |-> <<>>]
INoResult  == [state |-> "none", n |-> 0, epochs |-> <<>>]

IInit ==
    /\ ilance = <<>> /\ iraw = {} /\ iparts = <<>>
    /\ imeta = INoMeta /\ iresult = INoResult
    /\ ibuild = IBuildIdle /\ iparquet = IBuildIdle /\ itrain = ITrainIdle
    /\ istarts = [builds |-> 0, parquets |-> 0, trainings |-> 0]

(* One more script is started, within one of the bounds. *)
IStart(script) ==
    /\ istarts' = [istarts EXCEPT ![script] = @ + 1]
    /\ \E b \in IBounds : \A k \in DOMAIN b : istarts'[k] <= b[k]

-----------------------------------------------------------------------------
(* build_dataset.py                                                        *)

DatasetStart ==
    /\ ibuild.pc = "none" /\ IStart("builds")
    /\ \E n \in ISizes : ibuild' = [pc |-> "lance", n |-> n, done |-> 0]
    /\ UNCHANGED <<ilance, iraw, iparts, imeta, iparquet, itrain, iresult>>

(* The first batch overwrites, the others append; each makes a version.    *)
WriteBatch ==
    /\ ibuild.pc = "lance"
    /\ LET end == UpTo(ibuild.done, ILanceBatch, ibuild.n)
           new == Images(ibuild.done, end)
       IN  /\ ilance' = Append(ilance, IF ibuild.done = 0 THEN new ELSE Last(ilance) \o new)
           /\ ibuild' = IF end = ibuild.n THEN [ibuild EXCEPT !.pc = "raw", !.done = 0]
                                          ELSE [ibuild EXCEPT !.done = end]
    /\ UNCHANGED <<iraw, iparts, imeta, iparquet, itrain, iresult, istarts>>

(* 32 threads upload; what is there already is replaced by the same. *)
UploadRaw ==
    /\ ibuild.pc = "raw"
    /\ \/ \E i \in Ids(ibuild.n) \ iraw : iraw' = iraw \cup {i} /\ UNCHANGED ibuild
       \/ Ids(ibuild.n) \subseteq iraw /\ ibuild' = [ibuild EXCEPT !.pc = "open"] /\ UNCHANGED iraw
    /\ UNCHANGED <<ilance, iparts, imeta, iparquet, itrain, iresult, istarts>>

MetaOpen ==
    /\ ibuild.pc = "open"
    /\ imeta' = [INoMeta EXCEPT !.state = "torn"]
    /\ ibuild' = [ibuild EXCEPT !.pc = "dump"]
    /\ UNCHANGED <<ilance, iraw, iparts, iparquet, itrain, iresult, istarts>>

MetaDump ==
    /\ ibuild.pc = "dump"
    /\ imeta' = [state |-> "saved", n_images |-> ibuild.n]
    /\ ibuild' = IBuildIdle
    /\ UNCHANGED <<ilance, iraw, iparts, iparquet, itrain, iresult, istarts>>

-----------------------------------------------------------------------------
(* build_parquet.py                                                        *)

ParquetStart ==
    /\ iparquet.pc = "none" /\ IStart("parquets")
    /\ \E n \in ISizes : iparquet' = [pc |-> "parts", n |-> n, done |-> 0]
    /\ UNCHANGED <<ilance, iraw, iparts, imeta, ibuild, itrain, iresult>>

(* A file that its writer could not finish. *)
TornPart == <<>>

(* Part k holds the k-th IPartBatch images, of whatever build.  Parts of a *)
(* larger one stay.  A write that raises closes the stream all the same.   *)
WritePart ==
    /\ iparquet.pc = "parts"
    /\ LET end      == UpTo(iparquet.done, IPartBatch, iparquet.n)
           part     == iparquet.done \div IPartBatch + 1
           Put(new) == iparts' = [k \in DOMAIN iparts \cup {part} |-> IF k = part THEN new ELSE iparts[k]]
       IN  \/ /\ Put(Images(iparquet.done, end))
              /\ iparquet' = IF end = iparquet.n THEN [iparquet EXCEPT !.pc = "read"]
                                                 ELSE [iparquet EXCEPT !.done = end]
           \/ Put(TornPart) /\ iparquet' = IBuildIdle
    /\ UNCHANGED <<ilance, iraw, imeta, ibuild, itrain, iresult, istarts>>

(* The file list is read, opened for writing, and dumped with parquet_path *)
(* added; what build_dataset.py wrote to it meanwhile is lost.             *)
ListRead ==
    /\ iparquet.pc = "read" /\ imeta.state = "saved"
    /\ iparquet' = [pc |-> "open", n |-> imeta.n_images, done |-> 0]
    /\ UNCHANGED <<ilance, iraw, iparts, imeta, ibuild, itrain, iresult, istarts>>

ListOpen ==
    /\ iparquet.pc = "open"
    /\ imeta' = [INoMeta EXCEPT !.state = "torn"]
    /\ iparquet' = [iparquet EXCEPT !.pc = "dump"]
    /\ UNCHANGED <<ilance, iraw, iparts, ibuild, itrain, iresult, istarts>>

ListDump ==
    /\ iparquet.pc = "dump"
    /\ imeta' = [state |-> "saved", n_images |-> iparquet.n]
    /\ iparquet' = IBuildIdle
    /\ UNCHANGED <<ilance, iraw, iparts, ibuild, itrain, iresult, istarts>>

-----------------------------------------------------------------------------
(* run_dataloader.py                                                       *)

(* A shuffled epoch, in batches; the last may be smaller. *)
Shuffled(n) == {p \in [1 .. n -> Ids(n)] : \A i, j \in 1 .. n : p[i] = p[j] => i = j}
Batches(p) ==
    [k \in 1 .. (Len(p) + ILoadBatch - 1) \div ILoadBatch |->
        SubSeq(p, (k - 1) * ILoadBatch + 1, UpTo((k - 1) * ILoadBatch, ILoadBatch, Len(p)))]

(* The loader with a new epoch begun, in some order. *)
Epochs(train) ==
    {[train EXCEPT !.pc = "epoch", !.batches = Batches(p), !.seen = <<>>,
                   !.fetched = [k \in DOMAIN Batches(p) |-> <<>>]] : p \in Shuffled(train.n)}

TrainStart ==
    /\ itrain.pc = "none" /\ IStart("trainings")
    /\ imeta.state = "saved"
    /\ \E m \in Methods : itrain' \in Epochs([ITrainIdle EXCEPT !.method = m, !.n = imeta.n_images])
    /\ UNCHANGED <<ilance, iraw, iparts, imeta, ibuild, iparquet, iresult>>

(* What a method returns for the indices ix: for each, in their order, the *)
(* image and the label.                                                    *)
Item(i, image, label) == [want |-> i, image |-> image, label |-> label]

(* take_blobs wants its indices in order: they are sorted, and the images  *)
(* put back to where they were asked for; the labels never were sorted.    *)
(* The sort is stable: an index comes behind those that are smaller, and   *)
(* behind the same that are asked for before it.                           *)
Rank(ix, j) == Cardinality({i \in DOMAIN ix : ix[i] < ix[j] \/ (ix[i] = ix[j] /\ i <= j)})
sorted_pairs(ix) ==
    [s \in DOMAIN ix |-> LET j == CHOOSE j \in DOMAIN ix : Rank(ix, j) = s IN <<j, ix[j]>>]

(* Seeded bug: the images stay in the order of the take. *)
restored_Sorted(ix, rows) == [j \in DOMAIN ix |-> rows[sorted_pairs(ix)[j][2] + 1].id]

restored(ix, rows) ==
    LET pairs == sorted_pairs(ix)
    IN  [j \in DOMAIN ix |-> rows[pairs[CHOOSE s \in DOMAIN pairs : pairs[s][1] = j][2] + 1].id]

LanceBlobDataset(ix, rows) ==
    [j \in DOMAIN ix |-> Item(ix[j], restored(ix, rows)[j], rows[ix[j] + 1].label)]

RawS3Dataset(ix) == [j \in DOMAIN ix |-> Item(ix[j], ix[j], ix[j] % ILabels)]

(* The rows that the filter lets through, and for each index the last of   *)
(* them that has it as its id.                                             *)
ParquetS3Dataset(ix, rows) ==
    LET tbl    == Kept(rows, {r \in ToSet(rows) : r.id \in ToSet(ix)})
        Row(i) == SelectLastInSeq(tbl, LAMBDA r : r.id = i)
    IN  [j \in DOMAIN ix |-> Item(ix[j], tbl[Row(ix[j])].id, tbl[Row(ix[j])].label)]

(* Worker k mod n has the k-th batch; it takes its batches in order, and   *)
(* not more ahead of the loop than it may prefetch.                        *)
Worker(k)   == ((k - 1) % IWorkers) + 1
Consumed    == (Len(itrain.seen) + ILoadBatch - 1) \div ILoadBatch
MayFetch(k) == /\ itrain.fetched[k] = <<>> /\ k <= Consumed + IPrefetch * IWorkers
               /\ \A j \in 1 .. k - 1 : Worker(j) = Worker(k) => itrain.fetched[j] # <<>>

(* A worker opens the dataset at its first batch, and keeps it: a version  *)
(* of the Lance dataset, or the Parquet files there were.  Whatever is not *)
(* found raises.                                                           *)
Fetch ==
    /\ itrain.pc = "epoch"
    /\ \E k \in DOMAIN itrain.batches :
          LET ix   == itrain.batches[k]
              w    == Worker(k)
              Opened(h) == IF itrain.handles[w] = INotOpen THEN h ELSE itrain.handles[w]
              Got(h, items) == itrain' = [itrain EXCEPT !.handles[w] = h, !.fetched[k] = items]
          IN  /\ MayFetch(k)
              /\ \/ /\ itrain.method = "raw_s3" /\ ToSet(ix) \subseteq iraw
                    /\ Got(INotOpen, RawS3Dataset(ix))
                 \/ /\ itrain.method = "lance_take_blobs" /\ ilance # <<>>
                    /\ LET v == Opened(Len(ilance))
                       IN  /\ ToSet(ix) \subseteq Ids(Len(ilance[v]))
                           /\ Got(v, LanceBlobDataset(ix, ilance[v]))
                 \/ /\ itrain.method = "parquet" /\ iparts # <<>>
                    /\ LET h    == Opened(Len(iparts))
                           rows == FlattenSeq(SubSeq(iparts, 1, h))
                       IN  /\ TornPart \notin ToSet(SubSeq(iparts, 1, h))
                           /\ ToSet(ix) \subseteq {rows[i].id : i \in DOMAIN rows}
                           /\ Got(h, ParquetS3Dataset(ix, rows))
    /\ UNCHANGED <<ilance, iraw, iparts, imeta, ibuild, iparquet, iresult, istarts>>

(* The loop gets the batches in their order. *)
Consume ==
    /\ itrain.pc = "epoch" /\ Consumed < Len(itrain.batches)
    /\ itrain.fetched[Consumed + 1] # <<>>
    /\ itrain' = [itrain EXCEPT !.seen = @ \o itrain.fetched[Consumed + 1]]
    /\ UNCHANGED <<ilance, iraw, iparts, imeta, ibuild, iparquet, iresult, istarts>>

EpochEnd ==
    /\ itrain.pc = "epoch" /\ Len(itrain.seen) = itrain.n
    /\ LET ended == [itrain EXCEPT !.epochs = Append(@, Len(itrain.seen))]
       IN  itrain' \in IF Len(ended.epochs) < IEpochs THEN Epochs(ended) ELSE {[ended EXCEPT !.pc = "open"]}
    /\ UNCHANGED <<ilance, iraw, iparts, imeta, ibuild, iparquet, iresult, istarts>>

TrainOpen ==
    /\ itrain.pc = "open"
    /\ iresult' = [INoResult EXCEPT !.state = "torn"]
    /\ itrain' = [itrain EXCEPT !.pc = "dump"]
    /\ UNCHANGED <<ilance, iraw, iparts, imeta, ibuild, iparquet, istarts>>

TrainDump ==
    /\ itrain.pc = "dump"
    /\ iresult' = [state |-> "saved", n |-> itrain.n, epochs |-> itrain.epochs]
    /\ itrain' = ITrainIdle
    /\ UNCHANGED <<ilance, iraw, iparts, imeta, ibuild, iparquet, istarts>>

(* Ctrl-C, an exception, also of a worker, or the system. *)
IKilled ==
    /\ \/ ibuild.pc # "none" /\ ibuild' = IBuildIdle /\ UNCHANGED <<iparquet, itrain>>
       \/ iparquet.pc # "none" /\ iparquet' = IBuildIdle /\ UNCHANGED <<ibuild, itrain>>
       \/ itrain.pc # "none" /\ itrain' = ITrainIdle /\ UNCHANGED <<ibuild, iparquet>>
    /\ UNCHANGED <<ilance, iraw, iparts, imeta, iresult, istarts>>

INext ==
    \/ DatasetStart \/ WriteBatch \/ UploadRaw \/ MetaOpen \/ MetaDump
    \/ ParquetStart \/ WritePart \/ ListRead \/ ListOpen \/ ListDump
    \/ TrainStart \/ Fetch \/ Consume \/ EpochEnd \/ TrainOpen \/ TrainDump \/ IKilled

ISpec == IInit /\ [][INext]_IVars

-----------------------------------------------------------------------------
(* Properties.                                                             *)

StoredImage == [id : Nat, label : Nat]
IItems == [want : Nat, image : Nat, label : Nat]

ITrainings ==
    [pc : {"none", "epoch", "open", "dump"}, method : Methods, n : Nat, batches : Seq(Seq(Nat)),
     fetched : Seq(Seq(IItems)), handles : [1 .. IWorkers -> Nat],
     seen : Seq(IItems), epochs : Seq(Nat)]

(* Every variable of the builds, the training and their files keeps its    *)
(* type; workers hold what was there to be opened.                         *)
ITypeOK ==
    /\ ilance \in Seq(Seq(StoredImage)) /\ iparts \in Seq(Seq(StoredImage)) /\ iraw \subseteq Nat
    /\ ibuild \in [pc : {"none", "lance", "raw", "open", "dump"}, n : Nat, done : Nat]
    /\ iparquet \in [pc : {"none", "parts", "read", "open", "dump"}, n : Nat, done : Nat]
    /\ imeta \in [state : {"none", "torn", "saved"}, n_images : Nat]
    /\ itrain \in ITrainings
    /\ \A w \in 1 .. IWorkers : itrain.handles[w] \in
           INotOpen .. (IF itrain.method = "parquet" THEN Len(iparts) ELSE Len(ilance))
    /\ iresult \in [state : {"none", "torn", "saved"}, n : Nat, epochs : Seq(Nat)]
    /\ istarts \in [{"builds", "parquets", "trainings"} -> Nat]

(* What the training is told of an image is that image's: each item is the *)
(* image asked for with its own label, no image comes twice in an epoch,   *)
(* and an epoch that ends had them all; by every method, out of order,     *)
(* over workers with versions of their own, and over whatever was built    *)
(* again meanwhile.  pylance takes no unordered indices (README.md:37), so *)
(* that the order is restored is the script's own doing.                   *)
EpochSeesEachImageOnce ==
    /\ \A j \in DOMAIN itrain.seen :
          /\ itrain.seen[j].image = itrain.seen[j].want
          /\ itrain.seen[j].label = itrain.seen[j].want % ILabels
          /\ \A k \in 1 .. j - 1 : itrain.seen[k].image # itrain.seen[j].image
    /\ Len(itrain.seen) = itrain.n => {itrain.seen[j].image : j \in DOMAIN itrain.seen} = Ids(itrain.n)
    /\ iresult.state = "saved" => iresult.epochs = [e \in 1 .. IEpochs |-> iresult.n]
=============================================================================
