------------------------- MODULE EtlPipelineProofs -------------------------
(***************************************************************************)
(* Type correctness, DwdVouches, GreenIsPublished and AdsCoverScan of      *)
(* EtlPipeline for any scans and branches, any datasets, any number of     *)
(* generations and faults.                                                 *)
(*                                                                         *)
(* No two processes work on one dataset, so the invariant is one of each   *)
(* process and its own datasets: what the layers vouch for (LayersAt),     *)
(* what a run knows of them (RunAt), how far a scan has come (ScanAt), and *)
(* what the passed steps of a branch have left (BranchAt).                 *)
(***************************************************************************)
EXTENDS EtlPipeline, TLAPS, SequenceTheorems

Mine(p) == ToSet(Order[p])

\* The datasets at work are the process's own, and a branch runs nothing but its step.
Owns(p) ==
  /\ queue[p] \in Seq(Mine(p))
  /\ p \in Branches => pc[p] \in {"idle"} \cup RunPc

\* What a manifest vouches for.
Vouched(d) ==
  /\ ods[d].manifest # 0 => ods[d].main # 0
  /\ d \notin forced => (ods[d].manifest # 0 => ods[d].main = ods[d].manifest)
  /\ d \notin forced => (dwd[d].manifest # 0 => /\ dwd[d].main = dwd[d].manifest
                                               /\ dwd[d].rest = dwd[d].manifest
                                               /\ ods[d].manifest = dwd[d].manifest)
LayersAt(p) == \A d \in Mine(p) : Vouched(d)

\* What a run knows of the dataset it is at.
RunAt(p) ==
  LET d == Current(p) IN
  /\ pc[p] \in RunPc \ {"start"} /\ args[p].force => d \in forced
  /\ pc[p] \in {"norm_upload", "norm_manifest"} =>
       gen[p] # 0 /\ (d \notin forced => ods[d].manifest = 0)
  /\ pc[p] = "norm_manifest" => ods[d].main = gen[p]
  /\ pc[p] \in FeatPc \cup {"run_ok"} => ods[d].manifest # 0
  /\ pc[p] \in {"feat_upload", "feat_manifest"} => gen[p] # 0 /\ gen[p] = ods[d].main
  /\ pc[p] = "feat_manifest" => dwd[d].main = gen[p] /\ dwd[d].rest = gen[p] /\ version[d] = "featurized"
  /\ p \in Scans /\ pc[p] = "run_ok" => dwd[d].manifest # 0
  /\ p \in Scans /\ pc[p] \in {"start"} \cup NormPc \cup FeatPc /\ d \notin forced /\ ~args[p].force =>
       dwd[d].manifest = 0

\* How far a scan has come, and what its row says.
ScanAt(p) ==
  p \in Scans =>
    /\ pc[p] # "idle" => row[p] # "OK"
    /\ pc[p] # "idle" => \A d \in Mine(p) : d \in ToSet(queue[p]) \/ InLake(d) \/ tally[p].failed > 0
    /\ \A d \in Mine(p) \ forced : dwd[d].manifest # 0 => version[d] = "featurized"
    /\ pc[p] \in {"ads_list", "close"} \cup AdsPc => queue[p] = <<>>
    /\ row[p] = "OK" => \A d \in Mine(p) : InLake(d)

\* The sources of the quality slice, on their way into it.
AdsAt(p) ==
  p \in Scans =>
    /\ pc[p] = "ads_read" => \A d \in Mine(p) : d \in src[p].todo \/ src[p].read[d] = dwd[d].main
    /\ pc[p] = "ads_manifest" => \A d \in Mine(p) : src[p].read[d] = dwd[d].main
    /\ pc[p] = "close" /\ args[p].ads /\ Scans = {p} =>
         tally[p].failed > 0 \/ \A d \in Mine(p) : ads.manifest[d] = dwd[d].main
    /\ row[p] = "OK" /\ args[p].ads /\ Scans = {p} => \A d \in Mine(p) : ads.manifest[d] = dwd[d].main

\* The steps of a branch are those of its phase; what has passed has published.
BranchAt(p) ==
  p \in Branches =>
    /\ pc[p] \in NormPc => Phase(p) = "normalize"
    /\ pc[p] \in FeatPc => Phase(p) = "features"
    /\ pc[p] = "run_ok" /\ Phase(p) = "features" => dwd[Current(p)].manifest # 0
    /\ \A d \in Mine(p) : /\ "normalize" \in passed[p] => ods[d].manifest # 0
                          /\ "features" \in passed[p] => dwd[d].manifest # 0

ProcInv(p) == Owns(p) /\ LayersAt(p) /\ RunAt(p) /\ ScanAt(p) /\ AdsAt(p) /\ BranchAt(p)

IInv == TypeOK /\ \A p \in Procs : ProcInv(p)

-----------------------------------------------------------------------------
(* Lemmas about the operators.                                             *)

\* Changing one part of one layer.
LEMMA PartChanges ==
  ASSUME NEW f \in [Datasets -> Layer], NEW d \in Datasets, NEW v \in Gens,
         NEW part \in {"main", "rest"}, NEW g, g = [f EXCEPT ![d][part] = v]
  PROVE  /\ g \in [Datasets -> Layer]
         /\ g[d].manifest = f[d].manifest /\ g[d][part] = v
         /\ part = "main" => g[d].rest = f[d].rest
         /\ part = "rest" => g[d].main = f[d].main
         /\ \A e \in Datasets \ {d} : g[e] = f[e]
BY DEF Layer

LEMMA ManifestChanges ==
  ASSUME NEW f \in [Datasets -> Layer], NEW d \in Datasets, NEW v \in Gens,
         NEW g, g = [f EXCEPT ![d].manifest = v]
  PROVE  /\ g \in [Datasets -> Layer]
         /\ g[d].main = f[d].main /\ g[d].rest = f[d].rest /\ g[d].manifest = v
         /\ \A e \in Datasets \ {d} : g[e] = f[e]
BY DEF Layer

\* The dataset at work is one of the process.
LEMMA CurrentIsMine ==
  ASSUME NEW p \in Procs, Owns(p), queue[p] # <<>>
  PROVE  /\ Current(p) \in Mine(p) /\ Current(p) \in Datasets
         /\ Tail(queue[p]) \in Seq(Mine(p))
         /\ ToSet(queue[p]) \subseteq ToSet(Tail(queue[p])) \cup {Current(p)}
<1>1. Current(p) \in Mine(p) /\ Tail(queue[p]) \in Seq(Mine(p))
  BY DEF Owns, Current
<1>2. Current(p) \in Datasets
  BY <1>1 DEF Mine, Datasets
<1>3. ASSUME NEW x \in ToSet(queue[p]) PROVE x \in ToSet(Tail(queue[p])) \cup {Current(p)}
  <2>1. PICK i \in 1 .. Len(queue[p]) : x = queue[p][i]
    BY <1>3 DEF ToSet, Owns
  <2>2. CASE i = 1
    BY <2>1, <2>2 DEF Current
  <2>3. CASE i # 1
    <3>1. i - 1 \in 1 .. Len(Tail(queue[p])) /\ Tail(queue[p])[i - 1] = x
      BY <2>1, <2>3 DEF Owns
    <3>2. i - 1 \in DOMAIN Tail(queue[p])
      BY <1>1, <3>1
    <3> QED  BY <3>1, <3>2 DEF ToSet
  <2> QED  BY <2>2, <2>3
<1> QED  BY <1>1, <1>2, <1>3

LEMMA MineAreDisjoint ==
  ASSUME NEW p \in Procs, NEW q \in Procs, p # q, NEW d \in Mine(p)
  PROVE  d \notin Mine(q) /\ d \in Datasets
BY PipelineAssumption DEF Mine, Datasets

LEMMA ScansAreNotBranches == ASSUME NEW p \in Scans PROVE p \notin Branches
BY PipelineAssumption

\* A counter that goes up.
LEMMA TallyCounts ==
  ASSUME NEW f \in [Procs -> [good: Nat, failed: Nat, skipped: Nat]], NEW p \in Procs,
         NEW c \in {"good", "failed", "skipped"}, NEW g, g = [f EXCEPT ![p][c] = @ + 1]
  PROVE  /\ g \in [Procs -> [good: Nat, failed: Nat, skipped: Nat]]
         /\ \A q \in Procs \ {p} : g[q] = f[q]
         /\ c = "failed" => g[p].failed > 0
         /\ c # "failed" => g[p].failed = f[p].failed
BY DEF Procs

\* A run that is over leaves the layers and lets the process go on.
LEMMA RunEndsTypes ==
  ASSUME TypeOK, NEW p \in Procs, NEW c \in {"good", "failed"}, NEW status \in {"OK", "WARN", "FAIL"},
         queue[p] # <<>>, RunEnds(p, c, status)
  PROVE  /\ gen' \in [Procs -> Gens] /\ queue' \in [Procs -> Seq(Datasets)]
         /\ tally' \in [Procs -> [good: Nat, failed: Nat, skipped: Nat]]
         /\ pc' \in [Procs -> Pc] /\ row' \in [Procs -> Status]
         /\ pc'[p] \in {"next", "idle"} /\ \A q \in Procs \ {p} : pc'[q] = pc[q] /\ queue'[q] = queue[q]
<1>1. gen' \in [Procs -> Gens]
  <2>1. 0 \in Gens
    BY PipelineAssumption DEF Gens
  <2> QED  BY <2>1 DEF RunEnds, TypeOK
<1>2. CASE p \in Scans
  <2>1. /\ queue' = [queue EXCEPT ![p] = Tail(queue[p])] /\ tally' = [tally EXCEPT ![p][c] = @ + 1]
        /\ pc' = [pc EXCEPT ![p] = "next"] /\ row' = row
    BY <1>2 DEF RunEnds, Goto
  <2>2. Tail(queue[p]) \in Seq(Datasets)
    BY DEF TypeOK
  <2>3. tally' \in [Procs -> [good: Nat, failed: Nat, skipped: Nat]]
    BY <2>1, TallyCounts DEF TypeOK
  <2>4. pc' \in [Procs -> Pc] /\ queue' \in [Procs -> Seq(Datasets)] /\ row' \in [Procs -> Status]
    BY <2>1, <2>2 DEF TypeOK, Pc
  <2> QED  BY <1>1, <2>1, <2>3, <2>4 DEF TypeOK
<1>3. CASE p \notin Scans
  <2>1. /\ queue' = [queue EXCEPT ![p] = <<>>] /\ tally' = tally
        /\ pc' = [pc EXCEPT ![p] = "idle"] /\ row' = [row EXCEPT ![p] = status]
    BY <1>3 DEF RunEnds, Goto, SetRow
  <2>2. pc' \in [Procs -> Pc] /\ queue' \in [Procs -> Seq(Datasets)] /\ row' \in [Procs -> Status]
    BY <2>1 DEF TypeOK, Pc, Status
  <2> QED  BY <1>1, <2>1, <2>2 DEF TypeOK
<1> QED  BY <1>2, <1>3

-----------------------------------------------------------------------------
(* Type correctness.                                                       *)

LEMMA ScanKeepsTypes ==
  ASSUME TypeOK, NEW p \in Procs, ScanStart(p) \/ StartStep(p) \/ Resubmit(p) \/ Scan(p) \/ StartRun(p)
  PROVE  TypeOK'
<1>0. 0 \in Gens /\ MaxGen \in Nat \ {0} /\ MaxFaults \in Nat
  BY PipelineAssumption DEF Gens
<1> USE <1>0
<1>1. queue[p] # <<>> => Current(p) \in Datasets /\ Tail(queue[p]) \in Seq(Datasets)
  BY DEF TypeOK, Current
<1>2. Order[p] \in Seq(Datasets)
  BY PipelineAssumption DEF Datasets
<1>3. ASSUME NEW l \in Pc, Goto(p, l), l \notin RunPc \/ queue'[p] # <<>>,
             \A q \in Procs \ {p} : queue'[q] = queue[q]
      PROVE  pc' \in [Procs -> Pc] /\ \A q \in Procs : pc'[q] \in RunPc => queue'[q] # <<>>
  BY <1>3 DEF Goto, TypeOK
<1>4. CASE ScanStart(p)
  <2>1. args' \in [Procs -> [force: BOOLEAN, ads: BOOLEAN]]
    <3>1. ForceFlags \subseteq BOOLEAN /\ AdsFlags \subseteq BOOLEAN
      BY PipelineAssumption
    <3> QED  BY <1>4, <3>1 DEF ScanStart, TypeOK
  <2>2. queue' = [queue EXCEPT ![p] = Order[p]] /\ queue' \in [Procs -> Seq(Datasets)]
    BY <1>2, <1>4 DEF ScanStart, Discovered, TypeOK
  <2>3. pc' \in [Procs -> Pc] /\ \A q \in Procs : pc'[q] \in RunPc => queue'[q] # <<>>
    BY <1>3, <1>4, <2>2 DEF ScanStart, Pc, RunPc, NormPc, FeatPc
  <2>4. row' \in [Procs -> Status]
    BY <1>4 DEF ScanStart, SetRow, TypeOK, Status
  <2> QED  BY <1>4, <2>1, <2>2, <2>3, <2>4 DEF ScanStart, TypeOK, lake
<1>5. CASE StartStep(p)
  <2>1. queue' = [queue EXCEPT ![p] = Order[p]] /\ queue' \in [Procs -> Seq(Datasets)]
    BY <1>2, <1>5 DEF StartStep, TypeOK
  <2>2. queue'[p] # <<>>
    <3>1. Len(Order[p]) = 1 /\ p \in Branches
      BY <1>5, PipelineAssumption DEF StartStep
    <3>2. Len(<<>>) = 0
      BY EmptySeq
    <3>3. Order[p] # <<>>
      <4>1. Len(Order[p]) # Len(<<>>)
        BY <3>1, <3>2
      <4> QED  BY <4>1, Zenon
    <3> QED  BY <2>1, <3>3 DEF TypeOK
  <2>3. pc' \in [Procs -> Pc] /\ \A q \in Procs : pc'[q] \in RunPc => queue'[q] # <<>>
    BY <1>3, <1>5, <2>1, <2>2 DEF StartStep, Pc, RunPc
  <2>4. row' \in [Procs -> Status]
    BY <1>5 DEF StartStep, SetRow, TypeOK, Status
  <2> QED  BY <1>5, <2>1, <2>3, <2>4 DEF StartStep, TypeOK, lake
<1>6. CASE Resubmit(p)
  BY <1>6 DEF Resubmit, TypeOK, lake, meta
<1>7. CASE SkipDataset(p)
  <2>1. queue' = [queue EXCEPT ![p] = Tail(@)] /\ pc[p] = "next" /\ queue[p] # <<>> /\ UNCHANGED pc
    BY <1>7 DEF SkipDataset
  <2>2. queue' \in [Procs -> Seq(Datasets)] /\ \A q \in Procs : pc'[q] \in RunPc => queue'[q] # <<>>
    BY <1>1, <2>1 DEF TypeOK, RunPc, NormPc, FeatPc
  <2>3. tally' \in [Procs -> [good: Nat, failed: Nat, skipped: Nat]]
    <3>1. tally' = [tally EXCEPT ![p]["skipped"] = @ + 1]
      BY <1>7 DEF SkipDataset
    <3> QED  BY <3>1, TallyCounts DEF TypeOK
  <2> QED  BY <1>7, <2>2, <2>3 DEF SkipDataset, TypeOK, lake, meta
<1>8. CASE TakeDataset(p)
  <2>1. pc' \in [Procs -> Pc] /\ \A q \in Procs : pc'[q] \in RunPc => queue'[q] # <<>>
    BY <1>3, <1>8 DEF TakeDataset, Pc, RunPc
  <2> QED  BY <1>8, <2>1 DEF TakeDataset, TypeOK, lake, meta
<1>9. CASE LoopEnd(p)
  <2>1. pc' \in [Procs -> Pc] /\ \A q \in Procs : pc'[q] \in RunPc => queue'[q] # <<>>
    BY <1>3, <1>9 DEF LoopEnd, Pc, RunPc, NormPc, FeatPc
  <2> QED  BY <1>9, <2>1 DEF LoopEnd, TypeOK, lake, meta
<1>10. CASE Close(p)
  <2>1. pc' \in [Procs -> Pc] /\ \A q \in Procs : pc'[q] \in RunPc => queue'[q] # <<>>
    BY <1>3, <1>10 DEF Close, Pc, RunPc, NormPc, FeatPc
  <2>2. row' \in [Procs -> Status]
    BY <1>10 DEF Close, SetRow, ScanStatus, TypeOK, Status
  <2>3. tally' \in [Procs -> [good: Nat, failed: Nat, skipped: Nat]]
    BY <1>10 DEF Close, NoTally, TypeOK
  <2>4. src' \in [Procs -> [todo: SUBSET Datasets, read: Features]]
    BY <1>10 DEF Close, NoSource, NoFeatures, Features, Gens, TypeOK
  <2> QED  BY <1>10, <2>1, <2>2, <2>3, <2>4 DEF Close, TypeOK, lake
<1>11. CASE StartRun(p)
  <2>1. queue[p] # <<>>
    BY <1>11 DEF StartRun, TypeOK, RunPc
  <2>2. pc' \in [Procs -> Pc] /\ \A q \in Procs : pc'[q] \in RunPc => queue'[q] # <<>>
    BY <1>3, <1>11, <2>1 DEF StartRun, Phase, Pc, RunPc, NormPc, FeatPc
  <2>3. version' \in [Datasets -> {"none", "discovered", "normalized", "featurized"}] /\ forced' \subseteq Datasets
    BY <1>1, <1>11, <2>1 DEF StartRun, SetVersion, TypeOK
  <2> QED  BY <1>11, <2>2, <2>3 DEF StartRun, TypeOK, lake
<1> QED  BY <1>4, <1>5, <1>6, <1>7, <1>8, <1>9, <1>10, <1>11 DEF Scan

LEMMA NormalizeKeepsTypes == ASSUME TypeOK, NEW p \in Procs, Normalize(p) PROVE TypeOK'
<1>0. 0 \in Gens /\ MaxGen \in Nat \ {0} /\ MaxFaults \in Nat
  BY PipelineAssumption DEF Gens
<1> USE <1>0
<1>1. /\ pc[p] \in RunPc /\ queue[p] # <<>> /\ Current(p) \in Datasets
      /\ gen[p] \in Gens /\ raw[Current(p)] \in Gens /\ ods[Current(p)].main \in Gens
  <2>1. pc[p] \in RunPc
    BY DEF Normalize, NormSkip, NormResume, NormFresh, NormUpload, NormRegister, NormManifest, RunPc, NormPc
  <2>2. queue[p] # <<>> /\ Current(p) \in Datasets
    BY <2>1 DEF TypeOK, Current
  <2>3. gen[p] \in Gens /\ ods[Current(p)] \in Layer /\ raw[Current(p)] \in 1 .. MaxGen
    BY <2>2 DEF TypeOK
  <2> QED  BY <2>1, <2>2, <2>3 DEF Layer, Gens
<1>2. ASSUME NEW l \in RunPc, Goto(p, l), UNCHANGED queue
      PROVE  pc' \in [Procs -> Pc] /\ \A q \in Procs : pc'[q] \in RunPc => queue'[q] # <<>>
  BY <1>1, <1>2 DEF Goto, TypeOK, Pc
<1>3. ASSUME AfterNormalize(p), UNCHANGED queue
      PROVE  pc' \in [Procs -> Pc] /\ \A q \in Procs : pc'[q] \in RunPc => queue'[q] # <<>>
  BY <1>2, <1>3 DEF AfterNormalize, RunPc, FeatPc
<1>4. CASE NormSkip(p)
  BY <1>3, <1>4 DEF NormSkip, TypeOK, lake, meta
<1>5. CASE NormResume(p) \/ NormManifest(p)
  <2>1. PICK v \in Gens : ods' = [ods EXCEPT ![Current(p)].manifest = v]
    BY <1>1, <1>5 DEF NormResume, NormManifest
  <2>2. ods' \in [Datasets -> Layer]
    BY <1>1, <2>1, ManifestChanges DEF TypeOK
  <2> QED  BY <1>3, <1>5, <2>2 DEF NormResume, NormManifest, TypeOK, meta
<1>6. CASE NormFresh(p)
  <2>1. gen' \in [Procs -> Gens]
    BY <1>1, <1>6 DEF NormFresh, TypeOK
  <2>2. Goto(p, "norm_upload") /\ "norm_upload" \in RunPc /\ UNCHANGED queue
    BY <1>6 DEF NormFresh, RunPc, NormPc
  <2> QED  BY <1>2, <1>6, <2>1, <2>2 DEF NormFresh, TypeOK, lake, meta
<1>7. CASE NormUpload(p)
  <2>1. PICK part \in {"main", "rest"} : ods' = [ods EXCEPT ![Current(p)][part] = gen[p]]
    BY <1>7 DEF NormUpload
  <2>2. ods' \in [Datasets -> Layer]
    BY <1>1, <2>1, PartChanges DEF TypeOK
  <2> QED  BY <1>7, <2>2 DEF NormUpload, TypeOK, meta, proc
<1>8. CASE NormRegister(p)
  <2>1. version' \in [Datasets -> {"none", "discovered", "normalized", "featurized"}]
    BY <1>1, <1>8 DEF NormRegister, SetVersion, TypeOK
  <2>2. Goto(p, "norm_manifest") /\ "norm_manifest" \in RunPc /\ UNCHANGED queue
    BY <1>8 DEF NormRegister, RunPc, NormPc
  <2> QED  BY <1>2, <1>8, <2>1, <2>2 DEF NormRegister, TypeOK, lake
<1> QED  BY <1>4, <1>5, <1>6, <1>7, <1>8 DEF Normalize

LEMMA FeaturesKeepTypes == ASSUME TypeOK, NEW p \in Procs, BuildFeatures(p) PROVE TypeOK'
<1>0. 0 \in Gens /\ MaxGen \in Nat \ {0} /\ MaxFaults \in Nat
  BY PipelineAssumption DEF Gens
<1> USE <1>0
<1>1. /\ pc[p] \in RunPc /\ queue[p] # <<>> /\ Current(p) \in Datasets
      /\ gen[p] \in Gens /\ FeaturesOf(Current(p)) \in Gens
  <2>1. pc[p] \in RunPc
    BY DEF BuildFeatures, FeatLoad, FeatUpload, FeatRegister, FeatManifest, RunPc, FeatPc
  <2>2. queue[p] # <<>> /\ Current(p) \in Datasets
    BY <2>1 DEF TypeOK, Current
  <2>3. gen[p] \in Gens /\ ods[Current(p)] \in Layer
    BY <2>2 DEF TypeOK
  <2> QED  BY <2>1, <2>2, <2>3 DEF Layer, FeaturesOf
<1>2. ASSUME NEW l \in RunPc, Goto(p, l), UNCHANGED queue
      PROVE  pc' \in [Procs -> Pc] /\ \A q \in Procs : pc'[q] \in RunPc => queue'[q] # <<>>
  BY <1>1, <1>2 DEF Goto, TypeOK, Pc
<1>3. {"feat_upload", "feat_manifest", "run_ok"} \subseteq RunPc
  BY DEF RunPc, FeatPc
<1>4. CASE FeatLoad(p)
  <2>1. gen' \in [Procs -> Gens]
    BY <1>1, <1>4 DEF FeatLoad, TypeOK
  <2> QED  BY <1>2, <1>3, <1>4, <2>1 DEF FeatLoad, TypeOK, lake, meta
<1>5. CASE FeatUpload(p)
  <2>1. PICK part \in {"main", "rest"} : dwd' = [dwd EXCEPT ![Current(p)][part] = gen[p]]
    BY <1>5 DEF FeatUpload
  <2>2. dwd' \in [Datasets -> Layer]
    BY <1>1, <2>1, PartChanges DEF TypeOK
  <2> QED  BY <1>5, <2>2 DEF FeatUpload, TypeOK, meta, proc
<1>6. CASE FeatRegister(p)
  <2>1. version' \in [Datasets -> {"none", "discovered", "normalized", "featurized"}]
    BY <1>1, <1>6 DEF FeatRegister, SetVersion, TypeOK
  <2> QED  BY <1>2, <1>3, <1>6, <2>1 DEF FeatRegister, TypeOK, lake
<1>7. CASE FeatManifest(p)
  <2>1. dwd' = [dwd EXCEPT ![Current(p)].manifest = gen[p]]
    BY <1>7 DEF FeatManifest
  <2>2. dwd' \in [Datasets -> Layer]
    BY <1>1, <2>1, ManifestChanges DEF TypeOK
  <2> QED  BY <1>2, <1>3, <1>7, <2>2 DEF FeatManifest, TypeOK, meta
<1> QED  BY <1>4, <1>5, <1>6, <1>7 DEF BuildFeatures

LEMMA AdsKeepsTypes == ASSUME TypeOK, NEW p \in Procs, BuildAds(p) PROVE TypeOK'
<1>0. 0 \in Gens /\ MaxGen \in Nat \ {0} /\ MaxFaults \in Nat
  BY PipelineAssumption DEF Gens
<1> USE <1>0
<1>1. ASSUME NEW l \in Pc \ RunPc, Goto(p, l), UNCHANGED queue
      PROVE  pc' \in [Procs -> Pc] /\ \A q \in Procs : pc'[q] \in RunPc => queue'[q] # <<>>
  BY <1>1 DEF Goto, TypeOK
<1>2. {"ads_read", "ads_manifest", "close"} \subseteq Pc \ RunPc
  BY DEF Pc, AdsPc, RunPc, NormPc, FeatPc
<1>3. \A d \in Datasets : dwd[d].main \in Gens
  BY DEF TypeOK, Layer
<1>4. /\ src[p].todo \subseteq Datasets /\ src[p].read \in Features
      /\ src[p] \in [todo: SUBSET Datasets, read: Features]
  BY DEF TypeOK
<1>5. CASE AdsList(p)
  <2> DEFINE s == [todo |-> {d \in Datasets : dwd[d].main # 0}, read |-> NoFeatures]
  <2>1. src' = [src EXCEPT ![p] = s] /\ s \in [todo: SUBSET Datasets, read: Features]
    BY <1>5 DEF AdsList, NoFeatures, Features, Gens
  <2>2. src' \in [Procs -> [todo: SUBSET Datasets, read: Features]]
    BY <2>1 DEF TypeOK
  <2> QED  BY <1>1, <1>2, <1>5, <2>2 DEF AdsList, TypeOK, lake, meta
<1>6. CASE AdsRead(p)
  <2>1. PICK d \in src[p].todo : src' = [src EXCEPT ![p].todo = @ \ {d}, ![p].read[d] = ScoresOf(d)]
    BY <1>6 DEF AdsRead
  <2>2. src'[p] = [src[p] EXCEPT !.todo = @ \ {d}, !.read[d] = ScoresOf(d)] /\ \A q \in Procs \ {p} : src'[q] = src[q]
    BY <2>1 DEF TypeOK
  <2>3. src'[p] = [todo |-> src[p].todo \ {d}, read |-> [src[p].read EXCEPT ![d] = ScoresOf(d)]]
    BY <1>4, <2>2
  <2>4. [src[p].read EXCEPT ![d] = ScoresOf(d)] \in Features
    BY <1>3, <1>4 DEF ScoresOf, Features
  <2>5. src' \in [Procs -> [todo: SUBSET Datasets, read: Features]]
    BY <1>4, <2>1, <2>2, <2>3, <2>4 DEF TypeOK
  <2> QED  BY <1>6, <2>5 DEF AdsRead, TypeOK, lake, meta
<1>7. CASE AdsUpload(p)
  <2>1. ads' \in Ads
    BY <1>4, <1>7 DEF AdsUpload, Ads, TypeOK
  <2> QED  BY <1>1, <1>2, <1>7, <2>1 DEF AdsUpload, TypeOK, meta
<1>8. CASE AdsManifest(p)
  <2>1. ads' \in Ads
    BY <1>4, <1>8 DEF AdsManifest, Ads, TypeOK
  <2> QED  BY <1>1, <1>2, <1>8, <2>1 DEF AdsManifest, TypeOK, meta
<1> QED  BY <1>5, <1>6, <1>7, <1>8 DEF BuildAds

LEMMA EndKeepsTypes ==
  ASSUME TypeOK, NEW p \in Procs, RunOk(p) \/ RunFail(p) \/ AdsFail(p) \/ Crash(p)
  PROVE  TypeOK'
<1>0. 0 \in Gens /\ MaxGen \in Nat \ {0} /\ MaxFaults \in Nat
  BY PipelineAssumption DEF Gens
<1> USE <1>0
<1>1. {"run_ok"} \subseteq RunPc /\ {"next", "idle", "close"} \subseteq Pc \ RunPc
  BY DEF Pc, RunPc, NormPc, FeatPc
<1>2. ASSUME NEW c \in {"good", "failed"}, NEW s \in {"OK", "WARN", "FAIL"}, RunEnds(p, c, s), pc[p] \in RunPc
      PROVE  /\ gen' \in [Procs -> Gens] /\ queue' \in [Procs -> Seq(Datasets)]
             /\ tally' \in [Procs -> [good: Nat, failed: Nat, skipped: Nat]]
             /\ pc' \in [Procs -> Pc] /\ row' \in [Procs -> Status]
             /\ \A q \in Procs : pc'[q] \in RunPc => queue'[q] # <<>>
  <2>1. queue[p] # <<>>
    BY <1>2 DEF TypeOK
  <2>2. /\ gen' \in [Procs -> Gens] /\ queue' \in [Procs -> Seq(Datasets)]
        /\ tally' \in [Procs -> [good: Nat, failed: Nat, skipped: Nat]]
        /\ pc' \in [Procs -> Pc] /\ row' \in [Procs -> Status]
        /\ pc'[p] \in {"next", "idle"} /\ \A q \in Procs \ {p} : pc'[q] = pc[q] /\ queue'[q] = queue[q]
    BY <1>2, <2>1, RunEndsTypes
  <2> QED  BY <1>1, <2>2, ZenonT(60) DEF TypeOK
<1>3. CASE RunOk(p)
  <2>1. PICK s \in {"OK", "WARN"} : RunEnds(p, "good", s)
    BY <1>3 DEF RunOk
  <2>2. pc[p] \in RunPc
    BY <1>1, <1>3 DEF RunOk
  <2>3. passed' \in [Branches -> SUBSET {"normalize", "features"}]
    BY <1>3 DEF RunOk, Phase, TypeOK
  <2> QED  BY <1>2, <1>3, <2>1, <2>2, <2>3 DEF RunOk, TypeOK, lake
<1>4. CASE RunFail(p)
  BY <1>2, <1>4 DEF RunFail, TypeOK, lake
<1>5. ASSUME NEW l \in {"close", "idle"}, Goto(p, l), \A q \in Procs \ {p} : queue'[q] = queue[q]
      PROVE  pc' \in [Procs -> Pc] /\ \A q \in Procs : pc'[q] \in RunPc => queue'[q] # <<>>
  BY <1>1, <1>5 DEF Goto, TypeOK
<1>6. CASE AdsFail(p)
  <2>1. tally' = [tally EXCEPT ![p]["failed"] = @ + 1]
    BY <1>6 DEF AdsFail
  <2>2. tally' \in [Procs -> [good: Nat, failed: Nat, skipped: Nat]]
    BY <2>1, TallyCounts DEF TypeOK
  <2>3. pc' \in [Procs -> Pc] /\ \A q \in Procs : pc'[q] \in RunPc => queue'[q] # <<>>
    BY <1>5, <1>6 DEF AdsFail
  <2>4. faults' \in 0 .. MaxFaults
    BY <1>6 DEF AdsFail, TypeOK
  <2> QED  BY <1>6, <2>2, <2>3, <2>4 DEF AdsFail, TypeOK, lake, meta
<1>7. CASE Crash(p)
  <2>1. tally' \in [Procs -> [good: Nat, failed: Nat, skipped: Nat]] /\ queue' \in [Procs -> Seq(Datasets)]
    BY <1>7 DEF Crash, NoTally, TypeOK
  <2>2. gen' \in [Procs -> Gens] /\ src' \in [Procs -> [todo: SUBSET Datasets, read: Features]]
    <3>1. 0 \in Gens /\ NoSource \in [todo: SUBSET Datasets, read: Features]
      BY DEF Gens, NoSource, NoFeatures, Features
    <3> QED  BY <1>7, <3>1 DEF Crash, TypeOK
  <2>3. queue' = [queue EXCEPT ![p] = <<>>] /\ Goto(p, "idle")
    BY <1>7 DEF Crash
  <2>4. pc' \in [Procs -> Pc] /\ \A q \in Procs : pc'[q] \in RunPc => queue'[q] # <<>>
    BY <1>5, <2>3 DEF TypeOK
  <2> QED  BY <1>7, <2>1, <2>2, <2>4 DEF Crash, TypeOK, lake, meta
<1> QED  BY <1>3, <1>4, <1>6, <1>7

LEMMA StepKeepsTypes == TypeOK /\ [Next]_vars => TypeOK'
<1> SUFFICES ASSUME TypeOK, [Next]_vars PROVE TypeOK'
  OBVIOUS
<1>1. ASSUME NEW p \in Procs,
             \/ ScanStart(p) \/ StartStep(p) \/ Resubmit(p) \/ Step(p) \/ RunFail(p) \/ AdsFail(p) \/ Crash(p)
      PROVE  TypeOK'
  BY <1>1, ScanKeepsTypes, NormalizeKeepsTypes, FeaturesKeepTypes, AdsKeepsTypes, EndKeepsTypes DEF Step
<1>2. ASSUME NEW d \in Datasets, RawChange(d) PROVE TypeOK'
  <2>1. raw' \in [Datasets -> 1 .. MaxGen]
    BY <1>2, PipelineAssumption DEF RawChange, TypeOK
  <2> QED  BY <1>2, <2>1 DEF RawChange, TypeOK, lake, meta, proc
<1>3. CASE UNCHANGED vars
  BY <1>3 DEF vars, lake, meta, proc, TypeOK
<1> QED  BY <1>1, <1>2, <1>3 DEF Next

-----------------------------------------------------------------------------
(* A step of one process leaves the others alone.                          *)

\* Nothing of q, and nothing of its datasets, has changed.
Same(q) ==
  /\ pc'[q] = pc[q] /\ args'[q] = args[q] /\ queue'[q] = queue[q] /\ gen'[q] = gen[q]
  /\ src'[q] = src[q] /\ tally'[q] = tally[q] /\ row'[q] = row[q]
  /\ q \in Branches => passed'[q] = passed[q]
  /\ \A d \in Mine(q) : /\ ods'[d] = ods[d] /\ dwd'[d] = dwd[d] /\ version'[d] = version[d]
                        /\ d \in forced' <=> d \in forced
  /\ Scans = {q} => ads' = ads

LEMMA SameKeeps == ASSUME TypeOK, NEW q \in Procs, ProcInv(q), Same(q) PROVE ProcInv(q)'
<1> USE DEF Same
<1>1. Owns(q)' /\ LayersAt(q)'
  BY DEF ProcInv, Owns, LayersAt, Vouched
<1>2. RunAt(q)'
  <2>1. CASE pc[q] \in RunPc
    <3>1. Current(q) \in Mine(q) /\ Current(q)' = Current(q)
      BY <2>1, CurrentIsMine DEF ProcInv, TypeOK, Current
    <3> QED  BY <3>1 DEF ProcInv, RunAt
  <2>2. CASE pc[q] \notin RunPc
    BY <2>2 DEF RunAt, RunPc, NormPc, FeatPc
  <2> QED  BY <2>1, <2>2
<1>3. ScanAt(q)'
  BY DEF ProcInv, ScanAt, InLake
<1>4. AdsAt(q)'
  BY DEF ProcInv, AdsAt
<1>5. BranchAt(q)'
  <2>1. Phase(q)' = Phase(q) \/ q \notin Branches
    BY DEF Phase
  <2>2. pc[q] = "run_ok" => Current(q) \in Mine(q) /\ Current(q)' = Current(q)
    BY CurrentIsMine DEF ProcInv, TypeOK, Current, RunPc
  <2> QED  BY <2>1, <2>2 DEF ProcInv, BranchAt
<1> QED  BY <1>1, <1>2, <1>3, <1>4, <1>5 DEF ProcInv

LEMMA OthersStay ==
  ASSUME IInv, NEW p \in Procs, NEW q \in Procs, p # q,
         \/ ScanStart(p) \/ StartStep(p) \/ Resubmit(p) \/ Step(p) \/ RunFail(p) \/ AdsFail(p) \/ Crash(p)
  PROVE  Same(q)
<1>1. TypeOK /\ Owns(p)
  BY DEF IInv, ProcInv
<1>2. ASSUME pc[p] \in RunPc
      PROVE  /\ Current(p) \in Mine(p) /\ Current(p) \in Datasets
             /\ \A d \in Mine(q) : d # Current(p) /\ d \in Datasets
  BY <1>1, <1>2, CurrentIsMine, MineAreDisjoint DEF TypeOK
<1>3. CASE \/ ScanStart(p) \/ StartStep(p) \/ Resubmit(p) \/ Scan(p) \/ AdsFail(p) \/ Crash(p)
  BY <1>1, <1>3 DEF ScanStart, StartStep, Resubmit, Scan, SkipDataset, TakeDataset, LoopEnd, Close, AdsFail,
                    Crash, Goto, SetRow, lake, meta, Same, TypeOK
<1>4. CASE StartRun(p)
  BY <1>1, <1>2, <1>4 DEF StartRun, Goto, SetVersion, lake, Same, TypeOK, RunPc
<1>5. CASE Normalize(p)
  <2>1. pc[p] \in RunPc
    BY <1>5 DEF Normalize, NormSkip, NormResume, NormFresh, NormUpload, NormRegister, NormManifest, RunPc, NormPc
  <2>2. CASE NormSkip(p) \/ NormFresh(p)
    BY <1>1, <2>2 DEF NormSkip, NormFresh, AfterNormalize, Goto, lake, meta, Same, TypeOK
  <2>3. CASE NormResume(p) \/ NormManifest(p)
    <3>1. \A d \in Mine(q) : ods'[d] = ods[d]
      BY <1>1, <1>2, <2>1, <2>3 DEF NormResume, NormManifest, TypeOK
    <3> QED  BY <1>1, <2>3, <3>1 DEF NormResume, NormManifest, AfterNormalize, Goto, meta, Same, TypeOK
  <2>4. CASE NormUpload(p)
    <3>1. \A d \in Mine(q) : ods'[d] = ods[d]
      BY <1>1, <1>2, <2>1, <2>4 DEF NormUpload, TypeOK
    <3> QED  BY <2>4, <3>1 DEF NormUpload, meta, proc, Same
  <2>5. CASE NormRegister(p)
    BY <1>1, <1>2, <2>1, <2>5 DEF NormRegister, SetVersion, Goto, lake, Same, TypeOK
  <2> QED  BY <1>5, <2>2, <2>3, <2>4, <2>5 DEF Normalize
<1>6. CASE BuildFeatures(p)
  <2>1. pc[p] \in RunPc
    BY <1>6 DEF BuildFeatures, FeatLoad, FeatUpload, FeatRegister, FeatManifest, RunPc, FeatPc
  <2>2. CASE FeatLoad(p)
    BY <1>1, <2>2 DEF FeatLoad, Goto, lake, meta, Same, TypeOK
  <2>3. CASE FeatUpload(p)
    <3>1. \A d \in Mine(q) : dwd'[d] = dwd[d]
      BY <1>1, <1>2, <2>1, <2>3 DEF FeatUpload, TypeOK
    <3> QED  BY <2>3, <3>1 DEF FeatUpload, meta, proc, Same
  <2>4. CASE FeatRegister(p)
    BY <1>1, <1>2, <2>1, <2>4 DEF FeatRegister, SetVersion, Goto, lake, Same, TypeOK
  <2>5. CASE FeatManifest(p)
    <3>1. \A d \in Mine(q) : dwd'[d] = dwd[d]
      BY <1>1, <1>2, <2>1, <2>5 DEF FeatManifest, TypeOK
    <3> QED  BY <1>1, <2>5, <3>1 DEF FeatManifest, Goto, meta, Same, TypeOK
  <2> QED  BY <1>6, <2>2, <2>3, <2>4, <2>5 DEF BuildFeatures
<1>7. CASE RunOk(p) \/ RunFail(p)
  <2>1. UNCHANGED <<raw, lake, version, args, src, forced>> /\ \E c \in {"good", "failed"}, s \in Status : RunEnds(p, c, s)
    BY <1>7 DEF RunOk, RunFail, Status
  <2>2. q \in Branches => passed'[q] = passed[q]
    BY <1>1, <1>7 DEF RunOk, RunFail, TypeOK
  <2>3. gen'[q] = gen[q] /\ queue'[q] = queue[q] /\ tally'[q] = tally[q] /\ pc'[q] = pc[q] /\ row'[q] = row[q]
    BY <1>1, <2>1 DEF RunEnds, Goto, SetRow, TypeOK
  <2> QED  BY <2>1, <2>2, <2>3 DEF lake, Same
<1>8. CASE BuildAds(p)
  <2>1. pc[p] \in {"ads_list"} \cup AdsPc
    BY <1>8 DEF BuildAds, AdsList, AdsRead, AdsUpload, AdsManifest, AdsPc
  <2>2. p \in Scans
    BY <1>1, <2>1 DEF Owns, Procs, RunPc, NormPc, FeatPc, AdsPc
  <2>3. Scans # {q}
    BY <2>2
  <2> QED  BY <1>1, <1>8, <2>3 DEF BuildAds, AdsList, AdsRead, AdsUpload, AdsManifest, Goto, lake, meta, Same, TypeOK
<1> QED  BY <1>3, <1>4, <1>5, <1>6, <1>7, <1>8 DEF Step

-----------------------------------------------------------------------------
(* A step keeps the invariant of its own process.                          *)

\* A branch has one dataset.
LEMMA BranchHasOne ==
  ASSUME NEW p \in Branches, Owns(p), queue[p] # <<>> PROVE Mine(p) = {Current(p)}
<1>1. Order[p] \in Seq(Mine(p)) /\ Len(Order[p]) = 1
  BY PipelineAssumption DEF Procs, Mine
<1>2. Mine(p) = {Order[p][1]}
  BY <1>1 DEF Mine, ToSet
<1>3. Current(p) \in Mine(p)
  BY CurrentIsMine DEF Procs
<1> QED  BY <1>2, <1>3

\* The order of a process lists exactly its datasets.
LEMMA OrderIsMine == ASSUME NEW p \in Procs PROVE Order[p] \in Seq(Mine(p)) /\ ToSet(Order[p]) = Mine(p)
BY PipelineAssumption DEF Mine

LEMMA NothingWritten ==
  ASSUME NEW p \in Procs, LayersAt(p), UNCHANGED <<ods, dwd, forced>> PROVE LayersAt(p)'
BY DEF LayersAt, Vouched

LEMMA StartKeeps ==
  ASSUME IInv, NEW p \in Procs, ScanStart(p) \/ StartStep(p) \/ Resubmit(p) PROVE ProcInv(p)'
<1>1. TypeOK /\ ProcInv(p) /\ (p \in Scans => p \notin Branches)
  BY ScansAreNotBranches DEF IInv
<1> USE <1>1
<1>2. LayersAt(p)'
  BY NothingWritten DEF ScanStart, StartStep, Resubmit, lake, ProcInv
<1>3. CASE ScanStart(p)
  <2>1. /\ p \in Scans /\ pc'[p] = "next" /\ queue'[p] = Order[p] /\ row'[p] = "RUNNING" /\ src' = src
        /\ UNCHANGED <<ods, dwd, ads, version, forced>>
    BY <1>3 DEF ScanStart, Goto, SetRow, Discovered, lake, TypeOK
  <2>2. Owns(p)'
    BY <2>1, OrderIsMine DEF Owns
  <2>3. RunAt(p)'
    BY <2>1 DEF RunAt, RunPc, NormPc, FeatPc
  <2>4. ScanAt(p)' /\ AdsAt(p)'
    BY <2>1, OrderIsMine DEF ScanAt, AdsAt, ProcInv, AdsPc
  <2>5. BranchAt(p)'
    BY <2>1 DEF BranchAt
  <2> QED  BY <1>2, <2>2, <2>3, <2>4, <2>5 DEF ProcInv
<1>4. CASE StartStep(p)
  <2>1. /\ p \in Branches /\ p \notin Scans /\ pc'[p] = "start" /\ queue'[p] = Order[p]
        /\ UNCHANGED <<ods, dwd, passed>>
    BY <1>4 DEF StartStep, Goto, lake, TypeOK
  <2>2. Owns(p)'
    BY <2>1, OrderIsMine DEF Owns, RunPc
  <2>3. RunAt(p)'
    BY <2>1 DEF RunAt, RunPc, NormPc, FeatPc
  <2>4. ScanAt(p)' /\ AdsAt(p)'
    BY <2>1 DEF ScanAt, AdsAt
  <2>5. BranchAt(p)'
    BY <2>1 DEF BranchAt, ProcInv, NormPc, FeatPc
  <2> QED  BY <1>2, <2>2, <2>3, <2>4, <2>5 DEF ProcInv
<1>5. CASE Resubmit(p)
  <2>1. /\ p \in Branches /\ p \notin Scans /\ pc[p] = "idle" /\ passed'[p] = {}
        /\ UNCHANGED <<ods, dwd, pc, queue>>
    BY <1>5 DEF Resubmit, lake, TypeOK
  <2>2. Owns(p)'
    BY <2>1 DEF Owns, ProcInv
  <2>3. RunAt(p)'
    BY <2>1 DEF RunAt, RunPc, NormPc, FeatPc
  <2>4. ScanAt(p)' /\ AdsAt(p)'
    BY <2>1 DEF ScanAt, AdsAt
  <2>5. BranchAt(p)'
    BY <2>1 DEF BranchAt, NormPc, FeatPc
  <2> QED  BY <1>2, <2>2, <2>3, <2>4, <2>5 DEF ProcInv
<1> QED  BY <1>3, <1>4, <1>5

LEMMA LoopKeeps == ASSUME IInv, NEW p \in Procs, Scan(p) PROVE ProcInv(p)'
<1>1. TypeOK /\ ProcInv(p)
  BY DEF IInv
<1> USE <1>1
<1>2. p \in Scans /\ p \notin Branches /\ pc[p] \in {"next", "close"}
  <2>1. pc[p] \in {"next", "close"}
    BY DEF Scan, SkipDataset, TakeDataset, LoopEnd, Close
  <2> QED  BY <2>1, ScansAreNotBranches DEF ProcInv, Owns, Procs, RunPc, NormPc, FeatPc
<1>3. /\ LayersAt(p)' /\ BranchAt(p)'
      /\ UNCHANGED <<ods, dwd, ads, version, forced, args>>
  BY <1>2, NothingWritten DEF Scan, SkipDataset, TakeDataset, LoopEnd, Close, lake, meta, ProcInv, BranchAt
<1>4. queue[p] # <<>> => /\ Current(p) \in Mine(p) /\ Tail(queue[p]) \in Seq(Mine(p))
                         /\ ToSet(queue[p]) \subseteq ToSet(Tail(queue[p])) \cup {Current(p)}
  BY CurrentIsMine DEF ProcInv
<1>5. CASE SkipDataset(p)
  <2>1. /\ pc[p] = "next" /\ pc'[p] = "next" /\ queue[p] # <<>> /\ queue'[p] = Tail(queue[p]) /\ row' = row
        /\ InLake(Current(p))
    BY <1>5 DEF SkipDataset, BothPublished, InLake, meta, TypeOK
  <2>2. tally'[p].failed = tally[p].failed
    <3>1. tally' = [tally EXCEPT ![p]["skipped"] = @ + 1]
      BY <1>5 DEF SkipDataset
    <3> QED  BY <3>1, TallyCounts DEF TypeOK
  <2>3. Owns(p)' /\ RunAt(p)'
    BY <1>2, <1>4, <2>1 DEF Owns, RunAt, RunPc, NormPc, FeatPc
  <2>4. ScanAt(p)'
    BY <1>2, <1>3, <1>4, <2>1, <2>2 DEF ScanAt, ProcInv, InLake, AdsPc
  <2>5. AdsAt(p)'
    BY <1>2, <1>3, <2>1 DEF AdsAt, ScanAt, ProcInv
  <2> QED  BY <1>3, <2>3, <2>4, <2>5 DEF ProcInv
<1>6. CASE TakeDataset(p)
  <2>1. /\ pc[p] = "next" /\ pc'[p] = "start" /\ queue[p] # <<>> /\ queue' = queue /\ row' = row /\ tally' = tally
        /\ args[p].force \/ ~BothPublished(Current(p))
    BY <1>6 DEF TakeDataset, Goto, meta, TypeOK
  <2>2. Current(p)' = Current(p) /\ Vouched(Current(p))
    BY <1>4, <2>1 DEF Current, ProcInv, LayersAt
  <2>3. Owns(p)'
    BY <1>2, <2>1 DEF Owns, ProcInv
  <2>4. RunAt(p)'
    <3>1. ~args[p].force /\ Current(p) \notin forced => dwd[Current(p)].manifest = 0
      BY <2>1, <2>2 DEF Vouched, BothPublished
    <3> QED  BY <1>3, <2>1, <2>2, <3>1 DEF RunAt, RunPc, NormPc, FeatPc
  <2>5. ScanAt(p)' /\ AdsAt(p)'
    BY <1>2, <1>3, <2>1 DEF ScanAt, AdsAt, ProcInv, InLake, AdsPc
  <2> QED  BY <1>3, <2>3, <2>4, <2>5 DEF ProcInv
<1>7. CASE LoopEnd(p)
  <2>1. /\ pc[p] = "next" /\ pc'[p] = (IF args[p].ads THEN "ads_list" ELSE "close") /\ queue[p] = <<>> /\ queue' = queue
        /\ row' = row /\ tally' = tally
    BY <1>7 DEF LoopEnd, Goto, meta, TypeOK
  <2>2. Owns(p)' /\ RunAt(p)'
    BY <1>2, <2>1 DEF Owns, RunAt, ProcInv, RunPc, NormPc, FeatPc
  <2>3. ScanAt(p)' /\ AdsAt(p)'
    BY <1>2, <1>3, <2>1 DEF ScanAt, AdsAt, ProcInv, InLake
  <2> QED  BY <1>3, <2>2, <2>3 DEF ProcInv
<1>8. CASE Close(p)
  <2>1. /\ pc[p] = "close" /\ pc'[p] = "idle" /\ queue' = queue /\ row'[p] = ScanStatus(tally[p])
    BY <1>8 DEF Close, Goto, SetRow, TypeOK
  <2>2. row'[p] = "OK" => tally[p].failed = 0
    <3>1. tally[p].failed \in Nat
      BY DEF TypeOK
    <3> QED  BY <2>1, <3>1 DEF ScanStatus
  <2>3. \A d \in Mine(p) : InLake(d) \/ tally[p].failed > 0
    BY <1>2, <2>1 DEF ScanAt, ProcInv, ToSet
  <2>4. Owns(p)' /\ RunAt(p)'
    BY <1>2, <2>1 DEF Owns, RunAt, ProcInv, RunPc, NormPc, FeatPc
  <2>5. ScanAt(p)'
    BY <1>2, <1>3, <2>1, <2>2, <2>3 DEF ScanAt, ProcInv, InLake, AdsPc
  <2>6. AdsAt(p)'
    BY <1>2, <1>3, <2>1, <2>2 DEF AdsAt, ProcInv
  <2> QED  BY <1>3, <2>4, <2>5, <2>6 DEF ProcInv
<1> QED  BY <1>5, <1>6, <1>7, <1>8 DEF Scan

LEMMA StartRunKeeps == ASSUME IInv, NEW p \in Procs, StartRun(p) PROVE ProcInv(p)'
<1>1. TypeOK /\ ProcInv(p) /\ (p \in Scans => p \notin Branches)
  BY ScansAreNotBranches DEF IInv
<1> USE <1>1
<1> DEFINE d == Current(p)
<1>2. /\ pc[p] = "start" /\ pc'[p] = (IF p \in Scans THEN "normalize" ELSE Phase(p)) /\ queue' = queue /\ queue[p] # <<>>
      /\ UNCHANGED <<ods, dwd, ads, row, args, gen, src, tally, passed>>
      /\ forced' = IF args[p].force THEN forced \union {d} ELSE forced
  BY DEF StartRun, Goto, lake, TypeOK, RunPc
<1>3. /\ d \in Mine(p) /\ d \in Datasets /\ Current(p)' = d /\ Phase(p)' = Phase(p)
      /\ version'[d] = "discovered" /\ \A e \in Datasets \ {d} : version'[e] = version[e]
  BY <1>2, CurrentIsMine DEF StartRun, SetVersion, Current, Phase, ProcInv, TypeOK
<1>4. Phase(p) \in {"normalize", "features"} /\ (Phase(p) = "features" => "normalize" \in passed[p])
  BY DEF Phase
<1>5. Owns(p)'
  BY <1>2, <1>4 DEF Owns, ProcInv, RunPc, NormPc, FeatPc
<1>6. LayersAt(p)'
  BY <1>2 DEF LayersAt, Vouched, ProcInv
<1>7. RunAt(p)'
  BY <1>2, <1>3, <1>4 DEF RunAt, ProcInv, BranchAt, Procs, RunPc, NormPc, FeatPc
<1>8. ScanAt(p)'
  <2>1. p \in Scans => \A e \in Mine(p) : e \in Datasets
    BY DEF Mine, Datasets
  <2> QED  BY <1>2, <1>3, <2>1 DEF ScanAt, RunAt, ProcInv, InLake, AdsPc
<1>9. AdsAt(p)'
  BY <1>2 DEF AdsAt, ScanAt, ProcInv
<1>10. BranchAt(p)'
  BY <1>2, <1>3, <1>4 DEF BranchAt, ProcInv, NormPc, FeatPc
<1> QED  BY <1>5, <1>6, <1>7, <1>8, <1>9, <1>10 DEF ProcInv

\* Layers that only gain manifests, and only the dataset at work changes.
LEMMA OneWritten ==
  ASSUME NEW p \in Procs, LayersAt(p), NEW d, UNCHANGED forced,
         \A e \in Datasets \ {d} : ods'[e] = ods[e] /\ dwd'[e] = dwd[e],
         Vouched(d)'
  PROVE  LayersAt(p)'
<1>1. \A e \in Mine(p) : e \in Datasets
  BY DEF Mine, Datasets
<1> QED  BY <1>1 DEF LayersAt, Vouched

LEMMA NormalizeKeeps == ASSUME IInv, TypeOK', NEW p \in Procs, Normalize(p) PROVE ProcInv(p)'
<1>1. TypeOK /\ ProcInv(p) /\ (p \in Scans => p \notin Branches)
  BY ScansAreNotBranches DEF IInv
<1> USE <1>1
<1>0. PICK d : d = Current(p)
  OBVIOUS
<1> DEFINE after == IF p \in Scans THEN "features" ELSE "run_ok"
<1>2. /\ pc[p] \in NormPc /\ queue' = queue /\ queue[p] # <<>>
      /\ UNCHANGED <<dwd, ads, row, args, src, tally, passed, forced>>
  <2>1. pc[p] \in NormPc /\ queue' = queue
    BY DEF Normalize, NormSkip, NormResume, NormFresh, NormUpload, NormRegister, NormManifest, NormPc, proc
  <2>2. UNCHANGED <<dwd, ads, row, args, src, tally, passed, forced>>
    BY DEF Normalize, NormSkip, NormResume, NormFresh, NormUpload, NormRegister, NormManifest, lake, meta, proc
  <2> QED  BY <2>1, <2>2 DEF TypeOK, RunPc
<1>3. d \in Mine(p) /\ d \in Datasets /\ Current(p) = d /\ Current(p)' = d /\ Phase(p)' = Phase(p) /\ Vouched(d)
  BY <1>0, <1>2, CurrentIsMine DEF Current, Phase, ProcInv, LayersAt
<1>4. \A e \in Mine(p) : e \in Datasets
  BY DEF Mine, Datasets
<1>5. /\ ods[d] \in Layer /\ dwd[d] \in Layer /\ gen[p] \in Gens
      /\ d \notin forced => dwd[d].manifest = 0 \/ ods[d].manifest = dwd[d].manifest
  BY <1>3 DEF TypeOK, Vouched
\* What is left to show of a step: where it leads and what it does to the slice.
<1>6. ASSUME pc'[p] \in RunPc \ {"start"},
             ods[d].manifest # 0 => ods'[d].manifest # 0,
             \A e \in Datasets \ {d} : ods'[e] = ods[e] /\ version'[e] = version[e],
             version'[d] = version[d] \/ (d \notin forced => dwd[d].manifest = 0),
             pc'[p] \in NormPc \/ (pc'[p] = after /\ ods'[d].manifest # 0),
             Vouched(d)', RunAt(p)'
      PROVE  ProcInv(p)'
  <2>1. Owns(p)'
    BY <1>2, <1>6 DEF Owns, ProcInv
  <2>2. LayersAt(p)'
    BY <1>2, <1>6, OneWritten DEF ProcInv
  <2>3. ScanAt(p)'
    BY <1>2, <1>3, <1>4, <1>6 DEF ScanAt, ProcInv, InLake, NormPc, FeatPc, AdsPc, RunPc
  <2>4. AdsAt(p)'
    BY <1>2, <1>6 DEF AdsAt, ScanAt, ProcInv, NormPc
  <2>5. BranchAt(p)'
    BY <1>2, <1>3, <1>4, <1>6 DEF BranchAt, ProcInv, NormPc, FeatPc
  <2> QED  BY <1>6, <2>1, <2>2, <2>3, <2>4, <2>5 DEF ProcInv
<1>7. /\ after \in RunPc \ {"start"} /\ "norm_upload" \in NormPc /\ "norm_manifest" \in NormPc
      /\ \A l \in NormPc : l \in RunPc \ {"start"}
  BY DEF RunPc, NormPc, FeatPc
<1>8. RunAt(p)
  BY DEF ProcInv
<1>9. CASE NormSkip(p)
  <2>1. pc'[p] = after /\ ods' = ods /\ version' = version /\ ods[d].manifest # 0 /\ gen' = gen /\ ~args[p].force /\ pc[p] = "normalize"
    BY <1>3, <1>9 DEF NormSkip, AfterNormalize, Goto, lake, meta, TypeOK
  <2>2. RunAt(p)'
    BY <1>2, <1>3, <1>8, <2>1 DEF RunAt, NormPc, FeatPc, RunPc
  <2> QED  BY <1>2, <1>3, <1>6, <1>7, <2>1, <2>2 DEF Vouched
<1>10. CASE NormResume(p)
  <2>1. pc'[p] = after /\ version' = version /\ gen' = gen /\ ~args[p].force /\ ods[d].manifest = 0 /\ ods[d].main # 0 /\ pc[p] = "normalize"
    BY <1>3, <1>10 DEF NormResume, Resumable, AfterNormalize, Goto, meta, TypeOK
  <2>2. ods' = [ods EXCEPT ![d].manifest = ods[d].main] /\ ods[d].main \in Gens
    BY <1>3, <1>5, <1>10 DEF NormResume, Layer
  <2>3. ods'[d].main = ods[d].main /\ ods'[d].manifest = ods[d].main /\ \A e \in Datasets \ {d} : ods'[e] = ods[e]
    BY <1>3, <2>2, ManifestChanges DEF TypeOK
  <2>4. RunAt(p)'
    BY <1>2, <1>3, <1>8, <2>1, <2>3 DEF RunAt, NormPc, FeatPc, RunPc
  <2>5. Vouched(d)'
    BY <1>2, <1>3, <2>1, <2>3 DEF Vouched
  <2> QED  BY <1>2, <1>3, <1>6, <1>7, <2>1, <2>3, <2>4, <2>5
<1>11. CASE NormFresh(p)
  <2>1. /\ pc'[p] = "norm_upload" /\ ods' = ods /\ version' = version /\ gen'[p] = raw[d] /\ pc[p] = "normalize"
        /\ args[p].force \/ ods[d].manifest = 0
    BY <1>3, <1>11 DEF NormFresh, Goto, lake, meta, TypeOK
  <2>2. raw[d] # 0
    BY <1>3 DEF TypeOK
  <2>3. RunAt(p)'
    BY <1>2, <1>3, <1>8, <2>1, <2>2 DEF RunAt, NormPc, FeatPc, RunPc
  <2>4. pc'[p] \in NormPc /\ pc'[p] \in RunPc \ {"start"}
    BY <1>7, <2>1
  <2>5. Vouched(d)'
    BY <1>2, <1>3, <2>1 DEF Vouched
  <2> QED  BY <1>6, <2>1, <2>3, <2>4, <2>5
<1>12. CASE NormUpload(p)
  <2>1. PICK part \in {"main", "rest"} : ods' = [ods EXCEPT ![d][part] = gen[p]]
    BY <1>3, <1>12 DEF NormUpload
  <2>2. pc' = pc /\ pc[p] = "norm_upload" /\ version' = version /\ gen' = gen
    BY <1>3, <1>12 DEF NormUpload, meta, proc
  <2>3. /\ ods'[d].manifest = ods[d].manifest /\ ods'[d].main \in {ods[d].main, gen[p]}
        /\ \A e \in Datasets \ {d} : ods'[e] = ods[e]
    BY <1>3, <1>5, <2>1, PartChanges DEF TypeOK
  <2>4. RunAt(p)'
    BY <1>2, <1>3, <1>8, <2>2, <2>3 DEF RunAt, NormPc, FeatPc, RunPc
  <2>5. gen[p] # 0 /\ (d \notin forced => ods[d].manifest = 0)
    BY <1>3, <1>8, <2>2 DEF RunAt
  <2>6. Vouched(d)'
    BY <1>2, <1>3, <2>3, <2>5 DEF Vouched
  <2>7. pc'[p] \in NormPc /\ pc'[p] \in RunPc \ {"start"}
    BY <1>7, <2>2
  <2> QED  BY <1>6, <2>2, <2>3, <2>4, <2>6, <2>7
<1>13. CASE NormRegister(p)
  <2>1. /\ pc'[p] = "norm_manifest" /\ ods' = ods /\ gen' = gen /\ pc[p] = "norm_upload" /\ ods[d].main = gen[p]
        /\ \A e \in Datasets \ {d} : version'[e] = version[e]
    BY <1>3, <1>13 DEF NormRegister, SetVersion, Goto, lake, TypeOK
  <2>2. RunAt(p)'
    BY <1>2, <1>3, <1>8, <2>1 DEF RunAt, NormPc, FeatPc, RunPc
  <2>3. d \notin forced => dwd[d].manifest = 0
    BY <1>3, <1>8, <2>1 DEF RunAt, Vouched
  <2>4. pc'[p] \in NormPc /\ pc'[p] \in RunPc \ {"start"}
    BY <1>7, <2>1
  <2>5. Vouched(d)'
    BY <1>2, <1>3, <2>1 DEF Vouched
  <2> QED  BY <1>6, <2>1, <2>2, <2>3, <2>4, <2>5
<1>14. CASE NormManifest(p)
  <2>1. pc'[p] = after /\ version' = version /\ gen' = gen /\ pc[p] = "norm_manifest" /\ ods' = [ods EXCEPT ![d].manifest = gen[p]]
    BY <1>3, <1>14 DEF NormManifest, AfterNormalize, Goto, meta, TypeOK
  <2>2. ods'[d].main = ods[d].main /\ ods'[d].manifest = gen[p] /\ \A e \in Datasets \ {d} : ods'[e] = ods[e]
    BY <1>3, <1>5, <2>1, ManifestChanges DEF TypeOK
  <2>3. gen[p] # 0 /\ gen[p] = ods[d].main /\ (d \notin forced => ods[d].manifest = 0)
    BY <1>3, <1>8, <2>1 DEF RunAt
  <2>4. RunAt(p)'
    BY <1>2, <1>3, <1>8, <2>1, <2>2, <2>3 DEF RunAt, NormPc, FeatPc, RunPc
  <2>5. Vouched(d)'
    BY <1>2, <1>3, <2>2, <2>3 DEF Vouched
  <2> QED  BY <1>2, <1>3, <1>6, <1>7, <2>1, <2>2, <2>3, <2>4, <2>5
<1> QED  BY <1>9, <1>10, <1>11, <1>12, <1>13, <1>14 DEF Normalize

LEMMA FeaturesKeep == ASSUME IInv, TypeOK', NEW p \in Procs, BuildFeatures(p) PROVE ProcInv(p)'
<1>0. PICK d : d = Current(p)
  OBVIOUS
<1>1. TypeOK /\ ProcInv(p) /\ (p \in Scans => p \notin Branches)
  BY ScansAreNotBranches DEF IInv
<1> USE <1>1
<1>2. /\ pc[p] \in FeatPc /\ queue' = queue /\ queue[p] # <<>>
      /\ UNCHANGED <<ods, ads, row, args, src, tally, passed, forced>>
  <2>1. pc[p] \in FeatPc /\ queue' = queue
    BY DEF BuildFeatures, FeatLoad, FeatUpload, FeatRegister, FeatManifest, FeatPc, proc
  <2>2. UNCHANGED <<ods, ads, row, args, src, tally, passed, forced>>
    BY DEF BuildFeatures, FeatLoad, FeatUpload, FeatRegister, FeatManifest, lake, meta, proc
  <2> QED  BY <2>1, <2>2 DEF TypeOK, RunPc
<1>3. d \in Mine(p) /\ d \in Datasets /\ Current(p) = d /\ Current(p)' = d /\ Phase(p)' = Phase(p) /\ Vouched(d)
  BY <1>0, <1>2, CurrentIsMine DEF Current, Phase, ProcInv, LayersAt
<1>4. \A e \in Mine(p) : e \in Datasets
  BY DEF Mine, Datasets
<1>5. /\ ods[d] \in Layer /\ dwd[d] \in Layer /\ gen[p] \in Gens
      /\ ods[d].manifest # 0 /\ ods[d].main # 0
      /\ pc[p] \in {"feat_upload", "feat_manifest"} => gen[p] # 0 /\ gen[p] = ods[d].main
  BY <1>2, <1>3 DEF TypeOK, Vouched, ProcInv, RunAt, FeatPc
\* What is left to show of a step: where it leads and what it does to the slice.
<1>6. ASSUME pc'[p] \in FeatPc \cup {"run_ok"},
             dwd[d].manifest # 0 => dwd'[d].manifest # 0,
             pc'[p] = "run_ok" => dwd'[d].manifest # 0,
             \A e \in Datasets \ {d} : dwd'[e] = dwd[e] /\ version'[e] = version[e],
             p \in Scans /\ d \notin forced /\ dwd'[d].manifest # 0 => version'[d] = "featurized",
             Vouched(d)', RunAt(p)'
      PROVE  ProcInv(p)'
  <2>1. Owns(p)'
    BY <1>2, <1>6 DEF Owns, ProcInv, RunPc
  <2>2. LayersAt(p)'
    BY <1>2, <1>6, OneWritten DEF ProcInv
  <2>3. ScanAt(p)'
    BY <1>2, <1>3, <1>4, <1>6 DEF ScanAt, ProcInv, InLake, FeatPc, AdsPc
  <2>4. AdsAt(p)'
    BY <1>2, <1>6 DEF AdsAt, ScanAt, ProcInv, FeatPc
  <2>5. BranchAt(p)'
    BY <1>2, <1>3, <1>4, <1>6 DEF BranchAt, ProcInv, NormPc, FeatPc
  <2> QED  BY <1>6, <2>1, <2>2, <2>3, <2>4, <2>5 DEF ProcInv
<1>7. /\ RunAt(p) /\ {"feat_upload", "feat_manifest"} \subseteq FeatPc
      /\ p \in Scans /\ d \notin forced /\ dwd[d].manifest # 0 => version[d] = "featurized"
  BY <1>3 DEF ProcInv, ScanAt, FeatPc
<1>8. CASE FeatLoad(p)
  <2>1. pc'[p] = "feat_upload" /\ dwd' = dwd /\ version' = version /\ gen'[p] = ods[d].main /\ pc[p] = "features"
    BY <1>3, <1>8 DEF FeatLoad, FeaturesOf, Goto, lake, meta, TypeOK
  <2>2. RunAt(p)'
    BY <1>2, <1>3, <1>5, <1>7, <2>1 DEF RunAt, NormPc, FeatPc, RunPc
  <2> QED  BY <1>2, <1>3, <1>6, <1>7, <2>1, <2>2 DEF Vouched
<1>9. CASE FeatUpload(p)
  <2>1. PICK part \in {"main", "rest"} : dwd[d][part] # gen[p] /\ dwd' = [dwd EXCEPT ![d][part] = gen[p]]
    BY <1>3, <1>9 DEF FeatUpload
  <2>2. pc' = pc /\ pc[p] = "feat_upload" /\ version' = version /\ gen' = gen
    BY <1>9 DEF FeatUpload, meta, proc
  <2>3. dwd'[d].manifest = dwd[d].manifest /\ \A e \in Datasets \ {d} : dwd'[e] = dwd[e]
    BY <1>3, <1>5, <2>1, PartChanges DEF TypeOK
  <2>4. d \in forced \/ dwd[d].manifest = 0
    BY <1>3, <1>5, <2>1, <2>2 DEF Vouched
  <2>5. RunAt(p)'
    BY <1>2, <1>3, <1>5, <1>7, <2>2, <2>3 DEF RunAt, NormPc, FeatPc, RunPc
  <2>6. Vouched(d)'
    BY <1>2, <1>3, <2>3, <2>4 DEF Vouched
  <2> QED  BY <1>2, <1>6, <1>7, <2>2, <2>3, <2>4, <2>5, <2>6
<1>10. CASE FeatRegister(p)
  <2>1. /\ pc'[p] = "feat_manifest" /\ dwd' = dwd /\ gen' = gen /\ pc[p] = "feat_upload"
        /\ dwd[d].main = gen[p] /\ dwd[d].rest = gen[p]
        /\ version'[d] = "featurized" /\ \A e \in Datasets \ {d} : version'[e] = version[e]
    BY <1>3, <1>10 DEF FeatRegister, SetVersion, Goto, lake, TypeOK
  <2>2. RunAt(p)'
    BY <1>2, <1>3, <1>5, <1>7, <2>1 DEF RunAt, NormPc, FeatPc, RunPc
  <2> QED  BY <1>2, <1>3, <1>6, <1>7, <2>1, <2>2 DEF Vouched
<1>11. CASE FeatManifest(p)
  <2>1. dwd' = [dwd EXCEPT ![d].manifest = gen[p]] /\ pc'[p] = "run_ok" /\ version' = version /\ gen' = gen /\ pc[p] = "feat_manifest"
    BY <1>3, <1>11 DEF FeatManifest, Goto, meta, TypeOK
  <2>2. /\ dwd'[d].main = dwd[d].main /\ dwd'[d].rest = dwd[d].rest /\ dwd'[d].manifest = gen[p]
        /\ \A e \in Datasets \ {d} : dwd'[e] = dwd[e]
    BY <1>3, <1>5, <2>1, ManifestChanges DEF TypeOK
  <2>3. gen[p] # 0 /\ gen[p] = ods[d].main /\ dwd[d].main = gen[p] /\ dwd[d].rest = gen[p] /\ version[d] = "featurized"
    BY <1>3, <1>5, <1>7, <2>1 DEF RunAt
  <2>4. RunAt(p)'
    BY <1>2, <1>3, <1>7, <2>1, <2>2, <2>3 DEF RunAt, NormPc, FeatPc, RunPc
  <2>5. Vouched(d)'
    BY <1>2, <1>3, <1>5, <2>2, <2>3 DEF Vouched
  <2> QED  BY <1>2, <1>6, <2>1, <2>2, <2>3, <2>4, <2>5
<1> QED  BY <1>8, <1>9, <1>10, <1>11 DEF BuildFeatures

LEMMA RunEndKeeps == ASSUME IInv, NEW p \in Procs, RunOk(p) \/ RunFail(p) PROVE ProcInv(p)'
<1>0. PICK d : d = Current(p)
  OBVIOUS
<1>1. TypeOK /\ ProcInv(p) /\ (p \in Scans => p \notin Branches) /\ (p \notin Scans => p \in Branches)
  BY ScansAreNotBranches DEF IInv, Procs
<1> USE <1>1
<1>2. pc[p] \in RunPc /\ queue[p] # <<>> /\ UNCHANGED <<ods, dwd, ads, version, args, src, forced>>
  <2>1. pc[p] \in RunPc /\ UNCHANGED <<ods, dwd, ads, version, args, src, forced>>
    BY DEF RunOk, RunFail, RunPc, lake
  <2> QED  BY <2>1 DEF TypeOK
<1>3. /\ d \in Mine(p) /\ Current(p) = d /\ Tail(queue[p]) \in Seq(Mine(p))
      /\ ToSet(queue[p]) \subseteq ToSet(Tail(queue[p])) \cup {d}
  BY <1>0, <1>2, CurrentIsMine DEF ProcInv
<1>4. PICK c \in {"good", "failed"}, s \in {"OK", "WARN", "FAIL"} :
        RunEnds(p, c, s) /\ (c = "good" => RunOk(p))
  BY DEF RunOk, RunFail
<1>5. LayersAt(p)'
  BY <1>2, NothingWritten DEF ProcInv
<1>6. CASE p \in Scans
  <2>1. pc'[p] = "next" /\ queue'[p] = Tail(queue[p]) /\ tally' = [tally EXCEPT ![p][c] = @ + 1] /\ row' = row
    BY <1>4, <1>6 DEF RunEnds, Goto, TypeOK
  <2>2. /\ tally[p].failed > 0 => tally'[p].failed > 0
        /\ c = "failed" => tally'[p].failed > 0
    BY <2>1, TallyCounts DEF TypeOK
  <2>3. c = "good" => InLake(d)
    BY <1>3, <1>4, <1>6 DEF RunOk, ProcInv, RunAt, InLake
  <2>4. Owns(p)' /\ RunAt(p)' /\ BranchAt(p)'
    BY <1>3, <1>6, <2>1 DEF Owns, RunAt, BranchAt, RunPc, NormPc, FeatPc
  <2>5. ScanAt(p)'
    BY <1>2, <1>3, <1>6, <2>1, <2>2, <2>3 DEF ScanAt, ProcInv, InLake, AdsPc, RunPc, NormPc, FeatPc
  <2>6. AdsAt(p)'
    BY <1>2, <1>6, <2>1 DEF AdsAt, ScanAt, ProcInv, RunPc, NormPc, FeatPc
  <2> QED  BY <1>5, <2>4, <2>5, <2>6 DEF ProcInv
<1>7. CASE p \in Branches
  <2>1. pc'[p] = "idle" /\ queue'[p] = <<>>
    BY <1>4, <1>7 DEF RunEnds, Goto, TypeOK
  <2>2. Mine(p) = {d}
    BY <1>2, <1>3, <1>7, BranchHasOne DEF ProcInv
  <2>3. \/ passed'[p] = passed[p]
        \/ RunOk(p) /\ passed'[p] = passed[p] \cup {Phase(p)}
    BY <1>7 DEF RunOk, RunFail, TypeOK
  <2>4. RunOk(p) => ods[d].manifest # 0 /\ (Phase(p) = "features" => dwd[d].manifest # 0)
    BY <1>3, <1>7 DEF RunOk, ProcInv, RunAt, BranchAt
  <2>5. Owns(p)' /\ RunAt(p)' /\ ScanAt(p)' /\ AdsAt(p)'
    BY <1>7, <2>1 DEF Owns, RunAt, ScanAt, AdsAt, RunPc, NormPc, FeatPc
  <2>6. BranchAt(p)'
    BY <1>2, <1>7, <2>1, <2>2, <2>3, <2>4 DEF BranchAt, ProcInv, Phase, NormPc, FeatPc
  <2> QED  BY <1>5, <2>5, <2>6 DEF ProcInv
<1> QED  BY <1>6, <1>7

LEMMA AdsKeep == ASSUME IInv, TypeOK', NEW p \in Procs, BuildAds(p) \/ AdsFail(p) PROVE ProcInv(p)'
<1>1. TypeOK /\ ProcInv(p)
  BY DEF IInv
<1> USE <1>1
<1>2. p \in Scans /\ p \notin Branches /\ pc[p] \in {"ads_list"} \cup AdsPc
  <2>1. pc[p] \in {"ads_list"} \cup AdsPc
    BY DEF BuildAds, AdsList, AdsRead, AdsUpload, AdsManifest, AdsFail, AdsPc
  <2> QED  BY <2>1, ScansAreNotBranches DEF ProcInv, Owns, Procs, RunPc, NormPc, FeatPc, AdsPc
<1>3. /\ UNCHANGED <<ods, dwd, version, forced, args, queue, row>>
      /\ LayersAt(p)' /\ BranchAt(p)'
  <2>1. UNCHANGED <<ods, dwd, version, forced, args, queue, row>>
    BY DEF BuildAds, AdsList, AdsRead, AdsUpload, AdsManifest, AdsFail, lake, meta
  <2> QED  BY <1>2, <2>1, NothingWritten DEF ProcInv, BranchAt
<1>4. queue[p] = <<>> /\ row[p] # "OK"
  BY <1>2 DEF ProcInv, ScanAt, AdsPc
\* The step stays in build_ads or leads to the end of the scan.
<1>5. ASSUME pc'[p] \in {"ads_read", "ads_manifest", "close"}, tally[p].failed > 0 => tally'[p].failed > 0
      PROVE  Owns(p)' /\ RunAt(p)' /\ ScanAt(p)'
  <2>1. Owns(p)' /\ RunAt(p)'
    BY <1>2, <1>3, <1>5 DEF Owns, RunAt, ProcInv, RunPc, NormPc, FeatPc
  <2>2. ScanAt(p)'
    BY <1>2, <1>3, <1>4, <1>5 DEF ScanAt, ProcInv, InLake, AdsPc
  <2> QED  BY <2>1, <2>2
<1>6. \A e \in Mine(p) : e \in Datasets
  BY DEF Mine, Datasets
<1>7. CASE AdsList(p)
  <2>1. pc'[p] = "ads_read" /\ tally' = tally
    BY <1>7 DEF AdsList, Goto, TypeOK
  <2>2. src'[p] = [todo |-> {d \in Datasets : dwd[d].main # 0}, read |-> NoFeatures]
    BY <1>7 DEF AdsList, TypeOK
  <2>3. \A e \in Mine(p) : e \in src'[p].todo \/ src'[p].read[e] = dwd[e].main
    BY <1>6, <2>2 DEF NoFeatures
  <2>4. AdsAt(p)'
    BY <1>3, <1>4, <2>1, <2>3 DEF AdsAt
  <2> QED  BY <1>3, <1>5, <2>1, <2>4 DEF ProcInv
<1>8. CASE AdsRead(p)
  <2>1. PICK d \in src[p].todo : src' = [src EXCEPT ![p].todo = @ \ {d}, ![p].read[d] = ScoresOf(d)]
    BY <1>8 DEF AdsRead
  <2>2. pc' = pc /\ pc[p] = "ads_read" /\ tally' = tally
    BY <1>8 DEF AdsRead
  <2>3. src'[p].todo = src[p].todo \ {d} /\ src'[p].read = [src[p].read EXCEPT ![d] = dwd[d].main]
    <3>1. src[p] \in [todo: SUBSET Datasets, read: Features]
      BY DEF TypeOK
    <3>2. src'[p] = [src[p] EXCEPT !.todo = @ \ {d}, !.read[d] = ScoresOf(d)]
      BY <2>1 DEF TypeOK
    <3> QED  BY <3>1, <3>2 DEF ScoresOf
  <2>4. d \in Datasets /\ src[p].read \in Features
    <3>1. src[p] \in [todo: SUBSET Datasets, read: Features]
      BY DEF TypeOK
    <3> QED  BY <2>1, <3>1
  <2>5. \A e \in Mine(p) : e \in src[p].todo \/ src[p].read[e] = dwd[e].main
    BY <1>2, <2>2 DEF ProcInv, AdsAt
  <2>6. \A e \in Mine(p) : e \in src'[p].todo \/ src'[p].read[e] = dwd[e].main
    BY <1>6, <2>3, <2>4, <2>5 DEF Features
  <2>7. AdsAt(p)'
    BY <1>3, <1>4, <2>2, <2>6 DEF AdsAt
  <2> QED  BY <1>3, <1>5, <2>2, <2>7 DEF ProcInv
<1>9. CASE AdsUpload(p)
  <2>1. pc'[p] = "ads_manifest" /\ pc[p] = "ads_read" /\ src[p].todo = {} /\ tally' = tally /\ src' = src
    BY <1>9 DEF AdsUpload, Goto, TypeOK
  <2>2. \A e \in Mine(p) : src[p].read[e] = dwd[e].main
    BY <1>2, <2>1 DEF ProcInv, AdsAt
  <2>3. AdsAt(p)'
    BY <1>3, <1>4, <2>1, <2>2 DEF AdsAt
  <2> QED  BY <1>3, <1>5, <2>1, <2>3 DEF ProcInv
<1>10. CASE AdsManifest(p)
  <2>1. pc'[p] = "close" /\ pc[p] = "ads_manifest" /\ tally' = tally /\ ads'.manifest = src[p].read
    BY <1>10 DEF AdsManifest, Goto, TypeOK, Ads
  <2>2. \A e \in Mine(p) : src[p].read[e] = dwd[e].main
    BY <1>2, <2>1 DEF ProcInv, AdsAt
  <2>3. AdsAt(p)'
    BY <1>3, <1>4, <2>1, <2>2 DEF AdsAt
  <2> QED  BY <1>3, <1>5, <2>1, <2>3 DEF ProcInv
<1>11. CASE AdsFail(p)
  <2>1. pc'[p] = "close" /\ tally' = [tally EXCEPT ![p]["failed"] = @ + 1]
    BY <1>11 DEF AdsFail, Goto, TypeOK
  <2>2. tally'[p].failed > 0
    BY <2>1, TallyCounts DEF TypeOK
  <2>3. AdsAt(p)'
    BY <1>3, <1>4, <2>1, <2>2 DEF AdsAt
  <2> QED  BY <1>3, <1>5, <2>1, <2>2, <2>3 DEF ProcInv
<1> QED  BY <1>7, <1>8, <1>9, <1>10, <1>11 DEF BuildAds

LEMMA CrashKeeps == ASSUME IInv, NEW p \in Procs, Crash(p) PROVE ProcInv(p)'
<1>1. TypeOK /\ ProcInv(p)
  BY DEF IInv
<1>2. /\ pc[p] # "idle" /\ pc'[p] = "idle" /\ queue'[p] = <<>>
      /\ UNCHANGED <<ods, dwd, ads, version, row, passed, forced>>
  BY <1>1 DEF Crash, Goto, lake, meta, TypeOK
<1>3. LayersAt(p)' /\ Owns(p)' /\ RunAt(p)'
  BY <1>1, <1>2, NothingWritten DEF ProcInv, Owns, RunAt, RunPc, NormPc, FeatPc
<1>4. ScanAt(p)' /\ AdsAt(p)'
  BY <1>1, <1>2 DEF ProcInv, ScanAt, AdsAt, InLake, AdsPc
<1>5. BranchAt(p)'
  BY <1>1, <1>2 DEF ProcInv, BranchAt, NormPc, FeatPc
<1> QED  BY <1>3, <1>4, <1>5 DEF ProcInv

-----------------------------------------------------------------------------
(* The invariant, and what follows from it.                                *)

\* No step of a scan or a workflow branch, no failure, no crash and no new raw data
\* breaks what a process knows of its datasets.
THEOREM Invariant == Spec => []IInv
<1>1. Init => IInv
  <2> SUFFICES ASSUME Init PROVE IInv
    OBVIOUS
  <2>1. MaxGen \in Nat \ {0} /\ MaxFaults \in Nat
    BY PipelineAssumption
  <2>2. raw \in [Datasets -> 1 .. MaxGen] /\ faults \in 0 .. MaxFaults /\ gen \in [Procs -> Gens]
    BY <2>1 DEF Init, Gens
  <2>3. /\ ods \in [Datasets -> Layer] /\ dwd \in [Datasets -> Layer] /\ ads \in Ads
        /\ src \in [Procs -> [todo: SUBSET Datasets, read: Features]]
    BY <2>1 DEF Init, Layer, Empty, Ads, Features, NoFeatures, NoSource, Gens
  <2>4. /\ version \in [Datasets -> {"none", "discovered", "normalized", "featurized"}]
        /\ row \in [Procs -> Status] /\ pc \in [Procs -> Pc] /\ forced \subseteq Datasets
        /\ passed \in [Branches -> SUBSET {"normalize", "features"}]
        /\ \A p \in Procs : pc[p] \notin RunPc
    BY DEF Init, Status, Pc, RunPc, NormPc, FeatPc
  <2>5. /\ args \in [Procs -> [force: BOOLEAN, ads: BOOLEAN]]
        /\ tally \in [Procs -> [good: Nat, failed: Nat, skipped: Nat]]
        /\ queue \in [Procs -> Seq(Datasets)]
    BY DEF Init, NoTally
  <2>6. TypeOK
    BY <2>2, <2>3, <2>4, <2>5 DEF TypeOK
  <2>7. ASSUME NEW p \in Procs PROVE ProcInv(p)
    <3>1. \A d \in Mine(p) : d \in Datasets
      BY DEF Mine, Datasets
    <3>2. Owns(p) /\ LayersAt(p) /\ RunAt(p)
      BY <2>7, <3>1 DEF Init, Empty, Owns, LayersAt, Vouched, RunAt, RunPc, NormPc, FeatPc
    <3>3. ScanAt(p) /\ AdsAt(p)
      BY <2>7, <3>1 DEF Init, Empty, ScanAt, AdsAt, AdsPc
    <3>4. BranchAt(p)
      BY <2>7 DEF Init, BranchAt, NormPc, FeatPc
    <3> QED  BY <3>2, <3>3, <3>4 DEF ProcInv
  <2> QED  BY <2>6, <2>7 DEF IInv
<1>2. IInv /\ [Next]_vars => IInv'
  <2> SUFFICES ASSUME IInv, [Next]_vars PROVE IInv'
    OBVIOUS
  <2>1. TypeOK /\ TypeOK'
    BY StepKeepsTypes DEF IInv
  <2>2. ASSUME NEW p \in Procs, NEW q \in Procs,
               \/ ScanStart(p) \/ StartStep(p) \/ Resubmit(p) \/ Step(p) \/ RunFail(p) \/ AdsFail(p) \/ Crash(p)
        PROVE  ProcInv(q)'
    <3>1. CASE p = q
      BY <2>1, <2>2, <3>1, StartKeeps, LoopKeeps, StartRunKeeps, NormalizeKeeps, FeaturesKeep, RunEndKeeps, AdsKeep,
         CrashKeeps DEF Step
    <3>2. CASE p # q
      BY <2>1, <2>2, <3>2, OthersStay, SameKeeps DEF IInv
    <3> QED  BY <3>1, <3>2
  <2>3. CASE UNCHANGED <<lake, meta, proc, forced>>
    <3>1. ASSUME NEW q \in Procs PROVE ProcInv(q)'
      <4>1. Same(q)
        BY <2>3 DEF Same, lake, meta, proc
      <4> QED  BY <2>1, <4>1, SameKeeps DEF IInv
    <3> QED  BY <2>1, <3>1 DEF IInv
  <2>4. CASE \E p \in Procs : \/ ScanStart(p) \/ StartStep(p) \/ Resubmit(p)
                              \/ Step(p) \/ RunFail(p) \/ AdsFail(p) \/ Crash(p)
    BY <2>1, <2>2, <2>4 DEF IInv
  <2> QED  BY <2>3, <2>4 DEF Next, RawChange, vars
<1> QED  BY <1>1, <1>2, PTL DEF Spec

\* Every variable keeps its type, and a process that is inside etl_run has a dataset.
THEOREM PipelineTypeCorrect == Spec => []TypeOK
<1>1. IInv => TypeOK
  BY DEF IInv
<1> QED  BY <1>1, Invariant, PTL

\* Every dataset is one of a process.
LEMMA DatasetsAreOwned == ASSUME NEW d \in Datasets PROVE \E p \in Procs : d \in Mine(p)
BY DEF Datasets, Mine

\* A published dwd layer that nobody forced is whole and was computed from the published ods slice.
THEOREM DwdIsVouchedFor == Spec => []DwdVouches
<1>1. IInv => DwdVouches
  BY DatasetsAreOwned DEF IInv, ProcInv, LayersAt, Vouched, DwdVouches
<1> QED  BY <1>1, Invariant, PTL

\* A scan that says OK has published all its datasets, a branch what its steps are for.
THEOREM GreenPublishes == Spec => []GreenIsPublished
<1>1. ASSUME IInv PROVE GreenIsPublished
  <2>1. ASSUME NEW p \in Scans, row[p] = "OK", NEW d \in Mine(p)
        PROVE  InLake(d) /\ (d \notin forced => version[d] = "featurized")
    <3>1. ScanAt(p)
      BY <1>1, <2>1 DEF IInv, ProcInv, Procs
    <3> QED  BY <2>1, <3>1 DEF ScanAt, InLake
  <2>2. ASSUME NEW p \in Branches
        PROVE  \A d \in Mine(p) : /\ "normalize" \in passed[p] => ods[d].manifest # 0
                                  /\ "features" \in passed[p] => dwd[d].manifest # 0
    BY <1>1, <2>2 DEF IInv, ProcInv, BranchAt, Procs
  <2> QED  BY <2>1, <2>2 DEF GreenIsPublished, Mine
<1> QED  BY <1>1, Invariant, PTL

\* The quality slice of the only scan covers all its datasets in their final state.
THEOREM AdsCover == Spec => []AdsCoverScan
<1>1. ASSUME IInv PROVE AdsCoverScan
  <2>1. ASSUME NEW p \in Scans, row[p] = "OK", args[p].ads, Scans = {p} PROVE \A d \in Mine(p) : ads.manifest[d] = dwd[d].main
    <3>1. AdsAt(p)
      BY <1>1, <2>1 DEF IInv, ProcInv, Procs
    <3> QED  BY <2>1, <3>1 DEF AdsAt
  <2> QED  BY <2>1 DEF AdsCoverScan, Mine
<1> QED  BY <1>1, Invariant, PTL
===========================================================================
